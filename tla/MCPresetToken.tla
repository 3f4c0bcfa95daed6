--------------------------- MODULE MCPresetToken ---------------------------
(* Small instances of PresetToken for TLC.                                 *)
EXTENDS PresetToken

(* Unset (0), negative, below the floor and at it; the lives               *)
(* sluis answers with end on both sides of each limit.                     *)
MCLifetimes == {-1, 0, 4}
MCMinimums == {-1, 1, 3}
MCAnswers == {-1, 2, 6}

(* The minimum is 1.1.0: a later version whose middle part is smaller, a   *)
(* pre-release of the minimum, and 2.x.0, which cannot be read.            *)
CONSTANTS new, early, odd
MCPaths == {new, early, odd}
MCMin == [parts |-> <<1, 1, 0>>, pre |-> FALSE]
MCVersion ==
  [p \in MCPaths |-> CASE p = new   -> [parts |-> <<2, 0, 1>>, pre |-> FALSE]
                      [] p = early -> [parts |-> <<1, 1, 0>>, pre |-> TRUE]
                      [] p = odd   -> [parts |-> <<2, Bad, 0>>, pre |-> FALSE]]
=============================================================================
