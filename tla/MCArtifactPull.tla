--------------------------- MODULE MCArtifactPull ---------------------------
(* A small instance of ArtifactPull for TLC.                               *)
EXTENDS ArtifactPull

File(p, n) == [kind |-> "file", path |-> p, size |-> n]
Dir(p) == [kind |-> "dir", path |-> p, size |-> 0]
Link(p) == [kind |-> "refused", path |-> p, size |-> 0]
Lay(n, ok, es) == [size |-> n, intact |-> ok, entries |-> es]

(* Two layers that fit, a layer of other files that does; two that are over *)
(* the byte limit together; one                                            *)
(* with too many files; a name given twice; a link; a corrupt layer; one   *)
(* whose descriptor is too large; and none at all.                         *)
Fits == << Lay(1, TRUE, <<Dir("x"), File("a", 1)>>), Lay(1, TRUE, <<File("b", 1)>>) >>
Artifacts ==
  { << Lay(1, TRUE, <<File("a", 2)>>), Lay(1, TRUE, <<File("c", 2)>>) >>,
    << Lay(1, TRUE, <<File("a", 0), File("b", 0), File("c", 1), File("d", 0)>>) >>,
    << Lay(2, TRUE, <<File("c", 1)>>) >>,
    << Lay(1, TRUE, <<File("a", 1)>>), Lay(1, TRUE, <<File("a", 1)>>) >>,
    << Lay(1, TRUE, <<File("a", 1), Link("b")>>) >>,
    << Lay(1, FALSE, <<File("b", 2)>>) >>,
    << Lay(3, TRUE, <<File("b", 1)>>) >>,
    <<>>, Fits }

(* Version 1 fits, version 2 is any of them.                               *)
MCArts == {<<Fits, a>> : a \in Artifacts}

MCAnswers == {-1, 1, 3}
=============================================================================
