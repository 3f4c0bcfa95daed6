---------------------------- MODULE SiteService ----------------------------
(***************************************************************************)
(* What the static-site server promises, without copies, timers, volumes   *)
(* or signals: at any moment one version of the site is current, a request *)
(* is answered from the version that was current when it came, as a whole, *)
(* and none is turned away.                                                *)
(***************************************************************************)
EXTENDS Integers

CONSTANTS
  Requests,
  Versions,  \* of the site: numbers, in the order they were published
  Nothing,   \* no version: not one of them
  Answered   \* a request that has its file: neither

VARIABLES
  current,  \* the version new requests get, or Nothing
  asked     \* for each request the version it is owed, Nothing or Answered

vars == <<current, asked>>

Init ==
  /\ current = Nothing
  /\ asked = [r \in Requests |-> Nothing]

(* A version replaces an older one; requests under way keep theirs.        *)
Publish ==
  /\ \E v \in Versions :
       /\ current # Nothing => v >= current
       /\ current' = v
  /\ UNCHANGED asked

Ask(r) ==
  /\ current # Nothing
  /\ asked[r] = Nothing
  /\ asked' = [asked EXCEPT ![r] = current]
  /\ UNCHANGED current

Answer(r) ==
  /\ asked[r] \in Versions
  /\ asked' = [asked EXCEPT ![r] = Answered]
  /\ UNCHANGED current

Leave(r) ==
  /\ asked[r] = Answered
  /\ asked' = [asked EXCEPT ![r] = Nothing]
  /\ UNCHANGED current

(* The server ends, and with it the requests it had.                       *)
Down ==
  /\ current' = Nothing
  /\ asked' = [r \in Requests |-> Nothing]

Next ==
  \/ Publish
  \/ Down
  \/ \E r \in Requests : Ask(r) \/ Answer(r) \/ Leave(r)

Spec == Init /\ [][Next]_vars
=============================================================================
