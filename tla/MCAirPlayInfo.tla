---------------------------- MODULE MCAirPlayInfo ----------------------------
(* A TLC instance of AirPlayInfo: a canvas of up to 6 by 4, of which 4 by  *)
(* 3 is the default.                                                       *)
EXTENDS AirPlayInfo

MCPlatforms == {[copies |-> TRUE, ready |-> TRUE], [copies |-> TRUE, ready |-> FALSE],
                [copies |-> FALSE, ready |-> FALSE]}

MCGeometry == [w |-> 4, h |-> 3, minW |-> 2, maxW |-> 6, minH |-> 2, maxH |-> 4]

Q(op, kind, listed, shows) == [op |-> op, kind |-> kind, listed |-> listed, shows |-> shows]
MCRequests ==
  {Q("unrelated", "other", FALSE, <<>>), Q("unrelated", "none", FALSE, <<>>),
   Q("urls", "array", FALSE, <<>>), Q("urls", "none", FALSE, <<>>),
   Q("displays", "none", FALSE, <<>>), Q("displays", "other", FALSE, <<>>),
   Q("info", "none", FALSE, <<>>), Q("info", "other", FALSE, <<>>),
   Q("info", "dict", FALSE, <<>>)}
  \cup {Q("displays", "array", TRUE, s) :
          s \in {<<>>, <<"main">>, <<"no_dict">>, <<"main", "other">>}}
  \cup {Q("info", "dict", TRUE, s) :
          s \in {<<>>, <<"main">>, <<"no_dict">>, <<"main", "alt">>}}

R(x, y, w, h) == [x |-> x, y |-> y, w |-> w, h |-> h]
MCProfileFiles ==
  {[read |-> n, w |-> w, h |-> 3, fps |-> fps, safe |-> safe] :
     n \in {0, 3, 8}, w \in {2, 5, 9}, fps \in {0, 30},
     safe \in {R(0, 0, 2, 2), R(1, 1, 2, 2), R(1, 0, 4, 3)}}
Line(i, r) == [view |-> i, safe |-> r]
MCViewFiles ==
  {<<>>, <<Line(1, R(1, 0, 2, 2))>>, <<Line(3, R(0, 0, 3, 1)), Line(3, R(2, 0, 3, 1))>>,
   <<Line(0, R(0, 1, 2, 2)), Line(4, R(0, 0, 1, 1)), Line(2, R(-1, 0, 1, 1))>>}
=============================================================================
