------------------------------ MODULE MCRgdTlv ------------------------------
(* Small instances of RgdTlv: messages of up to three TLVs, sound and not. *)
EXTENDS RgdTlvMeaning

Tails == {<<>>, <<0, 5, 0>>, <<0, 0, 0, 13>>, <<0, 9, 0, 1, 5>>}

UpdateItems == {Item(1, <<6>>), Item(1, <<>>), Item(14, <<2, 1>>), Item(14, <<9>>),
                Item(7, <<0, 0, 1, 2, 3>>), Item(13, <<0, 1, 0, 2, 0, 3>>),
                Item(13, <<0, 4, 0>>), Item(3, <<65, 13, 10, 66>>),
                Item(3, <<65, 66, 67, 68, 69, 10, 70, 71, 72, 73, 74>>),
                Item(8, <<65, 10, 0, 66>>), Item(24, <<1, 1>>)}

ManeuverItems == {Item(1, <<0, 7>>), Item(1, <<7>>), Item(11, <<255, 166>>),
                  Item(10, <<255, 1, 0, 90>>), Item(10, <<0, 45>>),
                  Item(12, <<0, 3>>), Item(12, <<3>>), Item(13, <<65, 9, 0, 66>>),
                  Item(0, <<0, 16, 0, 17, 0, 18>>), Item(40, <<>>)}

SubItems == {Item(0, <<0, 4>>), Item(0, <<>>), Item(1, <<2>>),
             Item(2, <<3, 232, 0, 90>>), Item(2, <<0, 45, 7>>),
             Item(3, <<255, 1>>), Item(3, <<3, 232>>), Item(9, <<1>>)}

SeqsTo(S, n) == UNION {[1 .. k -> S] : k \in 0 .. n}

LaneItems == {LaneItem(subs, <<>>) : subs \in SeqsTo(SubItems, 3)}
                 \cup {LaneItem(<<Item(1, <<1>>)>>, tail) : tail \in Tails}
FewLanes == {LaneItem(subs, tail) :
                subs \in {<<Item(0, <<0, 1>>), Item(2, <<0, 9>>), Item(0, <<2>>)>>,
                          <<Item(3, <<0, 8>>), Item(2, <<0, 9>>)>>},
                tail \in {<<>>, <<0, 2, 0, 1>>}}
OtherItems == {Item(0, <<0, 16, 7>>), Item(1, <<9>>), Item(1, <<0, 9>>),
               Item(3, <<65, 66>>), Item(7, <<1>>)}

MCMessages ==
    {Message("update", items, <<>>) : items \in SeqsTo(UpdateItems, 2)}
    \cup {Message("update", items, tail) : items \in SeqsTo(UpdateItems, 1), tail \in Tails}
    \cup {Message("maneuver", items, <<>>) : items \in SeqsTo(ManeuverItems, 2)}
    \cup {Message("maneuver", <<item, Item(10, <<0, 45>>)>> \o <<item>>, <<0, 3, 0, 1>>) :
             item \in ManeuverItems}
    \cup {Message("lane", items, <<>>) : items \in SeqsTo(FewLanes \cup OtherItems, 3)}
    \cup {Message("lane", items, <<0, 2, 0, 2>>) : items \in SeqsTo(OtherItems, 1)}
    \cup {Message("lane", <<item>>, <<>>) : item \in LaneItems}
    \cup {[form |-> "update", bytes |-> <<64, 64, 0, 6>>, sent |-> <<>>]}
=============================================================================
