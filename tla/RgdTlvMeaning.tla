--------------------------- MODULE RgdTlvMeaning ---------------------------
(***************************************************************************)
(* What a route guidance message says, told from the TLVs the phone packed *)
(* into it and not from its bytes, and the property that the parser of     *)
(* RgdTlv takes just that.  A message is packed from items, each an        *)
(* identifier and a value, and may end in something that is no TLV; the    *)
(* value of a lane information is packed from items in the same way.       *)
(***************************************************************************)
EXTENDS RgdTlv

-----------------------------------------------------------------------------
(* Packing: the phone's side.                                              *)

Item(id, val) == [id |-> id, val |-> val, subs |-> <<>>]
Pack(items) ==
    FlattenSeq([k \in DOMAIN items |->
        <<0, Len(items[k].val) + 4, 0, items[k].id>> \o items[k].val])
LaneItem(subs, tail) ==
    [id |-> 2, val |-> Pack(subs) \o tail, subs |-> subs]
Header == <<64, 64, 0, 0, 82, 1>>
Message(form, items, tail) ==
    [form |-> form, bytes |-> Header \o Pack(items) \o tail, sent |-> items]

-----------------------------------------------------------------------------
(* Meaning.                                                                *)

Sent(id) == SelectSeq(msg.sent, LAMBDA item : item.id = id)
SentLong(id, n) == SelectSeq(Sent(id), LAMBDA item : Len(item.val) >= n)
Word16(s, k) == 256 * s[k] + s[k + 1]
WordsOf(s) == [k \in 1 .. Len(s) \div 2 |-> Word16(s, 2 * k - 1)]
SignedWordsOf(s) == [k \in 1 .. Len(s) \div 2 |-> Signed(Word16(s, 2 * k - 1))]
LastOdd(s) == IF Len(s) % 2 = 1 THEN <<Last(s)>> ELSE <<>>

(* The last value long enough counts, and of it the bytes it has to have.  *)
MeantNumber(id, n, unset) ==
    IF SentLong(id, n) = <<>> THEN unset ELSE SubSeq(Last(SentLong(id, n)).val, 1, n)

MeantList(form, id) ==
    LET all == [k \in DOMAIN Sent(id) |->
                   CASE <<form, id>> = <<"maneuver", 10>> -> SignedWordsOf(Sent(id)[k].val)
                     [] <<form, id>> = <<"lane", 0>> ->
                            WordsOf(Sent(id)[k].val) \o LastOdd(Sent(id)[k].val)
                     [] OTHER -> WordsOf(Sent(id)[k].val)]
    IN  IF all = <<>> THEN <<>>
        ELSE Cut(IF GoesOn(form, id) THEN FlattenSeq(all) ELSE Last(all),
                 ListCap(form, id))

(* A lane is what stands from its first item up to the next index.         *)
MeantLane(run, ordinal) ==
    LET of(id)  == SelectSeq(run, LAMBDA item : item.id = id /\ item.val # <<>>)
        angles  == Cut(FlattenSeq([k \in DOMAIN of(2) |->
                          SignedWordsOf(of(2)[k].val) \o LastOdd(of(2)[k].val)]),
                       MaxAngles)
        turns   == SelectSeq(angles, LAMBDA a : a # Default)
        one(s)  == IF Len(s) >= 2 THEN Word16(s, 1) ELSE s[1]
    IN  [position  |-> IF of(0) = <<>> THEN ordinal ELSE one(of(0)[1].val),
         direction |-> CASE of(3) # <<>> -> Signed(one(Last(of(3)).val))
                         [] of(3) = <<>> /\ turns # <<>> -> turns[1]
                         [] OTHER -> Default,
         status    |-> IF of(1) = <<>> THEN 0 ELSE Last(of(1)).val[1],
         angles    |-> angles]

MeantLanesOf(subs) ==
    LET known  == SelectSeq(subs, LAMBDA item : item.id \in 0 .. 3)
        starts == {k \in DOMAIN known : k = 1 \/ known[k].id = 0}
        nth(n) == CHOOSE k \in starts : Cardinality({j \in starts : j < k}) = n - 1
        to(n)  == IF n = Cardinality(starts) THEN Len(known) ELSE nth(n + 1) - 1
    IN  [n \in 1 .. Cardinality(starts) |->
            MeantLane(SubSeq(known, nth(n), to(n)), n - 1)]

MeantLanes ==
    Cut(FlattenSeq([k \in DOMAIN Sent(2) |-> MeantLanesOf(Sent(2)[k].subs)]), MaxLanes)

MeantPresent(form, id) ==
    CASE ScalarSize(form, id) > 0 -> SentLong(id, ScalarSize(form, id)) # <<>>
      [] <<form, id>> = <<"lane", 1>> -> SentLong(1, 1) # <<>>
      [] OTHER -> Known(form, id) /\ Sent(id) # <<>>

-----------------------------------------------------------------------------
(* When the parser returns, the structure holds what the phone sent: of a  *)
(* repeated scalar the last that is long enough, of a list the last or all *)
(* as far as there is room, and the lanes with their own values and no     *)
(* other lane's.  What stands behind a broken length is not taken, and     *)
(* what stands before it is.                                               *)
ParsedAsSent ==
    phase = "done" =>
        LET form == msg.form
            none == form = "maneuver" /\ MeantPresent(form, 1) /\ ~MeantPresent(form, 11)
        IN  /\ \A id \in Ids :
                 /\ (id \in present) = (MeantPresent(form, id) \/ (id = 11 /\ none))
                 /\ IsList(form, id) => list[id] = MeantList(form, id)
                 /\ ScalarSize(form, id) > 0 =>
                        number[id] = MeantNumber(id, ScalarSize(form, id),
                                         IF id = 11 /\ none THEN <<3, 232>> ELSE <<>>)
            /\ form = "maneuver" => number[12] = MeantNumber(12, 2, <<255, 255>>)
            /\ (LinkedBit \in present) = (form = "maneuver" /\ SentLong(12, 2) # <<>>)
            /\ form = "lane" => lanes = MeantLanes

(* A string that the HUD shows in one line is one: no line break of the    *)
(* phone is left in it, none of its other bytes is lost while it fits, and *)
(* it fits the array.                                                      *)
OneLine ==
    phase = "done" => \A id \in Ids :
        /\ Len(text[id]) <= TextCap(msg.form, id)
        /\ 0 \notin Range(text[id])
        /\ Slashed(msg.form, id) => Range(text[id]) \cap Breaks = {}
        /\ IsText(msg.form, id) /\ Sent(id) # <<>> =>
             LET s     == Last(Sent(id)).val
                 own   == SelectSeq(s, LAMBDA c : c \notin Breaks)
                 shown == SelectSeq(text[id], LAMBDA c : c \notin {32, 47} \cup Breaks)
             IN  /\ IsPrefix(shown, own)
                 /\ 0 \notin Range(s) /\ 3 * Len(s) <= LongText - 3
                        /\ Len(s) <= TextCap(msg.form, id)
                    => shown = own

(* What the parser fills in is what the phone sent, and is fit to show.    *)
ReadAsSent == ParsedAsSent /\ OneLine
=============================================================================
