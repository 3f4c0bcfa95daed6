---------------------------- MODULE MCTokenSplit ----------------------------
(* Two accounts with a zone each, in any role, that write to one place of    *)
(* the store; or a place for each, and one account with both zones and a     *)
(* bucket, which an edit may take away.                                      *)
EXTENDS TokenSplit, TLC
MCUps    == [a \in Accounts |-> IF a = "a" THEN 3 ELSE 1]
MCStarts ==
  LET full(a) == [account |-> a, txt |-> FALSE]
      txt(a)  == [account |-> a, txt |-> TRUE]
  IN  {[zone |-> ("z1" :> full("a")) @@ ("z2" :> txt("b")),
        place |-> [a \in Accounts |-> "shared"], buckets |-> [a \in Accounts |-> {}]],
       [zone |-> ("z1" :> full("a")) @@ ("z2" :> txt("a")),
        place |-> [a \in Accounts |-> a],
        buckets |-> [a \in Accounts |-> IF a = "a" THEN Buckets ELSE {}]]}
=============================================================================
