---------------------------- MODULE SluisVersion ----------------------------
(***************************************************************************)
(* The version order of cloudflare/presettoken/version.go.  A version      *)
(* string is the sequence of its dotted parts, a part that is no number    *)
(* being Bad, and whether a pre-release suffix follows.                    *)
(***************************************************************************)
EXTENDS Integers, Sequences

CONSTANT Bad   \* a part that is not a number

VersionStrings == [parts : Seq(Nat \cup {Bad}), pre : BOOLEAN]

Zeros == [i \in 1 .. 3 |-> 0]

(* Mutant: a pre-release counts as its release.                            *)
ParseIgnoringSuffix(v) ==
  [nums    |-> IF Len(v.parts) = 3 THEN [i \in 1 .. 3 |-> v.parts[i]] ELSE Zeros,
   release |-> Len(v.parts) = 3]

(* The three numbers and whether the string is a release; the numbers      *)
(* before a part that does not parse stay in the answer.                   *)
parseVersion(v) ==
  LET readTo(i) == \A j \in 1 .. i : v.parts[j] # Bad
  IN  IF Len(v.parts) # 3 THEN [nums |-> Zeros, release |-> FALSE]
      ELSE [nums    |-> [i \in 1 .. 3 |-> IF readTo(i) THEN v.parts[i] ELSE 0],
            release |-> readTo(3) /\ ~v.pre]

versionAtLeast(have, want) ==
  LET h == parseVersion(have)  w == parseVersion(want)
  IN  /\ h.nums # Zeros \/ h.release
      /\ \/ \E i \in 1 .. 3 : /\ h.nums[i] > w.nums[i]
                              /\ \A j \in 1 .. i - 1 : h.nums[j] = w.nums[j]
         \/ h.nums = w.nums /\ h.release

-----------------------------------------------------------------------------
(* The reference: three numbers compared from the left, a pre-release      *)
(* before its release.                                                     *)
Readable(v) == Len(v.parts) = 3 /\ \A i \in 1 .. 3 : v.parts[i] # Bad

Precedes(u, v) ==
  \/ \E i \in 1 .. 3 : /\ u.parts[i] < v.parts[i]
                       /\ \A j \in 1 .. i - 1 : u.parts[j] = v.parts[j]
  \/ (\A i \in 1 .. 3 : u.parts[i] = v.parts[i]) /\ u.pre /\ ~v.pre
=============================================================================
