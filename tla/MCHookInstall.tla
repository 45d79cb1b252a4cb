--------------------------- MODULE MCHookInstall ---------------------------
(* Small instances of HookInstall: the driver the library was made for,    *)
(* six that have something else in one place, and nine that refuse to keep *)
(* one or several of the words.                                            *)
EXTENDS HookInstall

Stock == [symbols |-> TRUE, ident |-> "stock", msg |-> "stock", close |-> "stock",
          refs |-> TRUE, group |-> "null", keeps |-> DriverWords]

(* One word refused, and a group or a pair refused as a whole or but for   *)
(* the count.                                                              *)
Refused == {{w} : w \in DriverWords} \cup
           {{"msg", "close"}, {"name", "messages", "count"}, {"name", "messages"}}

MCBuilds == {Stock, [Stock EXCEPT !.symbols = FALSE], [Stock EXCEPT !.ident = "else"],
             [Stock EXCEPT !.msg = "else"], [Stock EXCEPT !.close = "else"],
             [Stock EXCEPT !.refs = FALSE], [Stock EXCEPT !.group = "else"]}
                \cup {[Stock EXCEPT !.keeps = DriverWords \ R] : R \in Refused}

A(id, complete, len) == [id |-> id, complete |-> complete, len |-> len]
MCFrames == {A(0, FALSE, 1), A(20993, TRUE, 3), A(20994, FALSE, 4), A(20995, TRUE, 1)}
=============================================================================
