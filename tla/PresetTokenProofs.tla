-------------------------- MODULE PresetTokenProofs --------------------------
(***************************************************************************)
(* Proofs about PresetToken, for every set of callers and binaries, every  *)
(* configured duration and every answer of sluis, under the margins named  *)
(* in MarginAssumption.  The heart is SettleInv: the life that was checked *)
(* before settle loses no more than the time settle has waited.            *)
(***************************************************************************)
EXTENDS PresetToken, TLAPS

(* parseVersion reads all of a version that can be read.                   *)
LEMMA ReadsAll ==
  ASSUME NEW v \in VersionStrings, Readable(v)
  PROVE  /\ parseVersion(v).nums = [i \in 1 .. 3 |-> v.parts[i]]
         /\ parseVersion(v).release <=> ~v.pre
<1>1. \A i \in 1 .. 3 : \A j \in 1 .. i : v.parts[j] # Bad
  BY DEF Readable
<1>2. parseVersion(v) =
        [nums    |-> [i \in 1 .. 3 |-> IF \A j \in 1 .. i : v.parts[j] # Bad
                                       THEN v.parts[i] ELSE 0],
         release |-> (\A j \in 1 .. 3 : v.parts[j] # Bad) /\ ~v.pre]
  BY DEF Readable, parseVersion
<1>3. parseVersion(v).nums = [i \in 1 .. 3 |-> v.parts[i]]
  BY <1>1, <1>2
<1>4. parseVersion(v).release <=> ~v.pre
  <2>1. parseVersion(v).release = ((\A j \in 1 .. 3 : v.parts[j] # Bad) /\ ~v.pre)
    BY <1>2
  <2>2. \A j \in 1 .. 3 : v.parts[j] # Bad
    BY DEF Readable
  <2> QED BY <2>1, <2>2, Zenon
<1> QED BY <1>3, <1>4

(* What versionAtLeast accepts does not precede the minimum, for every     *)
(* version that can be read and every minimum that is a release.           *)
LEMMA NewEnough ==
  ASSUME NEW v \in VersionStrings, Readable(v), versionAtLeast(v, SluisctlMin)
  PROVE  ~Precedes(v, SluisctlMin)
<1> DEFINE w == SluisctlMin
<1>1. w \in VersionStrings /\ Readable(w) /\ ~w.pre
  BY VersionAssumption
<1>2. \A i \in 1 .. 3 : v.parts[i] \in Nat /\ w.parts[i] \in Nat
  BY <1>1, VersionAssumption DEF VersionStrings, Readable
<1>3. \/ \E i \in 1 .. 3 : /\ v.parts[i] > w.parts[i]
                          /\ \A j \in 1 .. i - 1 : v.parts[j] = w.parts[j]
      \/ (\A i \in 1 .. 3 : v.parts[i] = w.parts[i]) /\ ~v.pre
  <2>1. /\ parseVersion(v).nums = [i \in 1 .. 3 |-> v.parts[i]]
        /\ parseVersion(v).release <=> ~v.pre
        /\ parseVersion(w).nums = [i \in 1 .. 3 |-> w.parts[i]]
    BY <1>1, ReadsAll
  <2>2. \/ \E i \in 1 .. 3 : /\ parseVersion(v).nums[i] > parseVersion(w).nums[i]
                            /\ \A j \in 1 .. i - 1 :
                                 parseVersion(v).nums[j] = parseVersion(w).nums[j]
        \/ parseVersion(v).nums = parseVersion(w).nums /\ parseVersion(v).release
    BY DEF versionAtLeast
  <2> HIDE DEF w
  <2> QED BY <2>1, <2>2
<1> QED BY <1>1, <1>2, <1>3 DEF Precedes

LEMMA InitInv == Init => IndInv
<1> SUFFICES ASSUME Init PROVE IndInv
  OBVIOUS
<1> USE DurationsAssumption, MarginAssumption, NoCallerAssumption DEF Init, None
<1>1. TypeOK
  BY DEF TypeOK
<1>2. ValidInv /\ SettleInv /\ ViaInv
  BY DEF ValidInv, SettleInv, ViaInv
<1>3. HandedOutAlive /\ HandedOutShort /\ NoSilentFallback /\ VersionGate
  BY DEF HandedOutAlive, HandedOutShort, NoSilentFallback, VersionGate
<1> QED BY <1>1, <1>2, <1>3 DEF IndInv

(* The steps of one call, including how it starts, fails and hands out.    *)
LEMMA CallInv ==
  ASSUME NEW c \in Callers, IndInv, Call(c) \/ CallRefused(c) \/ Step(c)
  PROVE  IndInv'
<1> USE DurationsAssumption, MarginAssumption, NoCallerAssumption
        DEF IndInv, conf, None
<1>1. CASE Call(c)
  <2> USE <1>1 DEF Call, Goto, Validate, Config, Enabled
  <2>1. TypeOK'
    BY DEF TypeOK, lifetime, minRemaining, Shorter, Validate
  <2>2. ValidInv' /\ ViaInv' /\ NoSilentFallback' /\ VersionGate'
    BY DEF TypeOK, ValidInv, ViaInv, NoSilentFallback, VersionGate, Validate, Config,
           lifetime, minRemaining, Shorter
  <2>3. SettleInv'
    BY DEF TypeOK, ValidInv, SettleInv, ViaInv, Validate, lifetime, minRemaining, Shorter
  <2>4. HandedOutAlive' /\ HandedOutShort'
    BY DEF TypeOK, ValidInv, SettleInv, HandedOutAlive, HandedOutShort, Validate,
           lifetime, minRemaining, Shorter
  <2> QED BY <2>1, <2>2, <2>3, <2>4
<1>2. CASE CallRefused(c)
  <2> USE <1>2 DEF CallRefused, Goto
  <2>1. TypeOK'
    BY DEF TypeOK, lifetime, minRemaining, Shorter, Validate
  <2>2. ValidInv' /\ ViaInv' /\ NoSilentFallback' /\ VersionGate'
    BY DEF TypeOK, ValidInv, ViaInv, NoSilentFallback, VersionGate, Validate, Config,
           lifetime, minRemaining, Shorter
  <2>3. SettleInv'
    BY DEF TypeOK, ValidInv, SettleInv, ViaInv, Validate, lifetime, minRemaining, Shorter
  <2>4. HandedOutAlive' /\ HandedOutShort'
    BY DEF TypeOK, ValidInv, SettleInv, HandedOutAlive, HandedOutShort, Validate,
           lifetime, minRemaining, Shorter
  <2> QED BY <2>1, <2>2, <2>3, <2>4
<1>3. CASE Resolve(c)
  <2> USE <1>3 DEF Resolve, Goto
  <2>1. TypeOK'
    BY DEF TypeOK, lifetime, minRemaining, Shorter, Validate
  <2>2. ValidInv' /\ ViaInv' /\ NoSilentFallback' /\ VersionGate'
    BY DEF TypeOK, ValidInv, ViaInv, NoSilentFallback, VersionGate, Validate, Config,
           lifetime, minRemaining, Shorter
  <2>3. SettleInv'
    BY DEF TypeOK, ValidInv, SettleInv, ViaInv, Validate, lifetime, minRemaining, Shorter
  <2>4. HandedOutAlive' /\ HandedOutShort'
    BY DEF TypeOK, ValidInv, SettleInv, HandedOutAlive, HandedOutShort, Validate,
           lifetime, minRemaining, Shorter
  <2> QED BY <2>1, <2>2, <2>3, <2>4
<1>4. CASE ResolveFails(c)
  <2> USE <1>4 DEF ResolveFails, Goto, Fail
  <2>1. TypeOK'
    BY DEF TypeOK, lifetime, minRemaining, Shorter, Validate
  <2>2. ValidInv' /\ ViaInv' /\ NoSilentFallback' /\ VersionGate'
    BY DEF TypeOK, ValidInv, ViaInv, NoSilentFallback, VersionGate, Validate, Config,
           lifetime, minRemaining, Shorter
  <2>3. SettleInv'
    BY DEF TypeOK, ValidInv, SettleInv, ViaInv, Validate, lifetime, minRemaining, Shorter
  <2>4. HandedOutAlive' /\ HandedOutShort'
    BY DEF TypeOK, ValidInv, SettleInv, HandedOutAlive, HandedOutShort, Validate,
           lifetime, minRemaining, Shorter
  <2> QED BY <2>1, <2>2, <2>3, <2>4
<1>5. CASE Lock(c)
  <2> USE <1>5 DEF Lock, Goto
  <2>1. TypeOK'
    BY DEF TypeOK, lifetime, minRemaining, Shorter, Validate
  <2>2. ValidInv' /\ ViaInv' /\ NoSilentFallback' /\ VersionGate'
    BY DEF TypeOK, ValidInv, ViaInv, NoSilentFallback, VersionGate, Validate, Config,
           lifetime, minRemaining, Shorter
  <2>3. SettleInv'
    BY DEF TypeOK, ValidInv, SettleInv, ViaInv, Validate, lifetime, minRemaining, Shorter
  <2>4. HandedOutAlive' /\ HandedOutShort'
    BY DEF TypeOK, ValidInv, SettleInv, HandedOutAlive, HandedOutShort, Validate,
           lifetime, minRemaining, Shorter
  <2> QED BY <2>1, <2>2, <2>3, <2>4
<1>6. CASE VersionGood(c)
  <2> USE <1>6 DEF VersionGood, Goto
  <2>1. TypeOK'
    BY DEF TypeOK, lifetime, minRemaining, Shorter, Validate
  <2>5. Readable(Version[path[c]]) => ~Precedes(Version[path[c]], SluisctlMin)
    <3>1. Version[path[c]] \in VersionStrings
      BY VersionAssumption DEF TypeOK
    <3> QED BY <3>1, NewEnough
  <2>2. ValidInv' /\ ViaInv' /\ NoSilentFallback' /\ VersionGate'
    BY <2>5 DEF TypeOK, ValidInv, ViaInv, NoSilentFallback, VersionGate, Validate, Config,
                lifetime, minRemaining, Shorter
  <2>3. SettleInv'
    BY DEF TypeOK, ValidInv, SettleInv, ViaInv, Validate, lifetime, minRemaining, Shorter
  <2>4. HandedOutAlive' /\ HandedOutShort'
    BY DEF TypeOK, ValidInv, SettleInv, HandedOutAlive, HandedOutShort, Validate,
           lifetime, minRemaining, Shorter
  <2> QED BY <2>1, <2>2, <2>3, <2>4
<1>7. CASE VersionBad(c)
  <2> USE <1>7 DEF VersionBad, Goto, Fail
  <2>1. TypeOK'
    BY DEF TypeOK, lifetime, minRemaining, Shorter, Validate
  <2>2. ValidInv' /\ ViaInv' /\ NoSilentFallback' /\ VersionGate'
    BY DEF TypeOK, ValidInv, ViaInv, NoSilentFallback, VersionGate, Validate, Config,
           lifetime, minRemaining, Shorter
  <2>3. SettleInv'
    BY DEF TypeOK, ValidInv, SettleInv, ViaInv, Validate, lifetime, minRemaining, Shorter
  <2>4. HandedOutAlive' /\ HandedOutShort'
    BY DEF TypeOK, ValidInv, SettleInv, HandedOutAlive, HandedOutShort, Validate,
           lifetime, minRemaining, Shorter
  <2> QED BY <2>1, <2>2, <2>3, <2>4
<1>8. CASE Mint(c)
  <2> USE <1>8 DEF Mint, Goto, Accept, NotTooLong, LongEnough
  <2>1. TypeOK'
    BY DEF TypeOK, lifetime, minRemaining, Shorter, Validate
  <2>2. ValidInv' /\ ViaInv' /\ NoSilentFallback' /\ VersionGate'
    BY DEF TypeOK, ValidInv, ViaInv, NoSilentFallback, VersionGate, Validate, Config,
           lifetime, minRemaining, Shorter
  <2>3. SettleInv'
    BY DEF TypeOK, ValidInv, SettleInv, ViaInv, Validate, lifetime, minRemaining, Shorter
  <2>4. HandedOutAlive' /\ HandedOutShort'
    BY DEF TypeOK, ValidInv, SettleInv, HandedOutAlive, HandedOutShort, Validate,
           lifetime, minRemaining, Shorter
  <2> QED BY <2>1, <2>2, <2>3, <2>4
<1>9. CASE MintFails(c)
  <2> USE <1>9 DEF MintFails, Goto, Fail
  <2>1. TypeOK'
    BY DEF TypeOK, lifetime, minRemaining, Shorter, Validate
  <2>2. ValidInv' /\ ViaInv' /\ NoSilentFallback' /\ VersionGate'
    BY DEF TypeOK, ValidInv, ViaInv, NoSilentFallback, VersionGate, Validate, Config,
           lifetime, minRemaining, Shorter
  <2>3. SettleInv'
    BY DEF TypeOK, ValidInv, SettleInv, ViaInv, Validate, lifetime, minRemaining, Shorter
  <2>4. HandedOutAlive' /\ HandedOutShort'
    BY DEF TypeOK, ValidInv, SettleInv, HandedOutAlive, HandedOutShort, Validate,
           lifetime, minRemaining, Shorter
  <2> QED BY <2>1, <2>2, <2>3, <2>4
<1>10. CASE CreateChild(c)
  <2> USE <1>10 DEF CreateChild, Goto, lifetime, Shorter, Validate
  <2>1. TypeOK'
    BY DEF TypeOK, lifetime, minRemaining, Shorter, Validate
  <2>2. ValidInv' /\ ViaInv' /\ NoSilentFallback' /\ VersionGate'
    BY DEF TypeOK, ValidInv, ViaInv, NoSilentFallback, VersionGate, Validate, Config,
           lifetime, minRemaining, Shorter
  <2>3. SettleInv'
    BY DEF TypeOK, ValidInv, SettleInv, ViaInv, Validate, lifetime, minRemaining, Shorter
  <2>4. HandedOutAlive' /\ HandedOutShort'
    BY DEF TypeOK, ValidInv, SettleInv, HandedOutAlive, HandedOutShort, Validate,
           lifetime, minRemaining, Shorter
  <2> QED BY <2>1, <2>2, <2>3, <2>4
<1>11. CASE ChildAnswer(c)
  <2> USE <1>11 DEF ChildAnswer, Goto, Accept, NotTooLong, LongEnough, lifetime, Shorter
  <2>1. TypeOK'
    BY DEF TypeOK, lifetime, minRemaining, Shorter, Validate
  <2>2. ValidInv' /\ ViaInv' /\ NoSilentFallback' /\ VersionGate'
    BY DEF TypeOK, ValidInv, ViaInv, NoSilentFallback, VersionGate, Validate, Config,
           lifetime, minRemaining, Shorter
  <2>3. SettleInv'
    BY DEF TypeOK, ValidInv, SettleInv, ViaInv, Validate, lifetime, minRemaining, Shorter
  <2>4. HandedOutAlive' /\ HandedOutShort'
    BY DEF TypeOK, ValidInv, SettleInv, HandedOutAlive, HandedOutShort, Validate,
           lifetime, minRemaining, Shorter
  <2> QED BY <2>1, <2>2, <2>3, <2>4
<1>12. CASE ChildFails(c)
  <2> USE <1>12 DEF ChildFails, Goto, Fail
  <2>1. TypeOK'
    BY DEF TypeOK, lifetime, minRemaining, Shorter, Validate
  <2>2. ValidInv' /\ ViaInv' /\ NoSilentFallback' /\ VersionGate'
    BY DEF TypeOK, ValidInv, ViaInv, NoSilentFallback, VersionGate, Validate, Config,
           lifetime, minRemaining, Shorter
  <2>3. SettleInv'
    BY DEF TypeOK, ValidInv, SettleInv, ViaInv, Validate, lifetime, minRemaining, Shorter
  <2>4. HandedOutAlive' /\ HandedOutShort'
    BY DEF TypeOK, ValidInv, SettleInv, HandedOutAlive, HandedOutShort, Validate,
           lifetime, minRemaining, Shorter
  <2> QED BY <2>1, <2>2, <2>3, <2>4
<1>13. CASE Verified(c)
  <2> USE <1>13 DEF Verified, Goto, HandOut
  <2>1. TypeOK'
    BY DEF TypeOK, lifetime, minRemaining, Shorter, Validate
  <2>2. ValidInv' /\ ViaInv' /\ NoSilentFallback' /\ VersionGate'
    BY DEF TypeOK, ValidInv, ViaInv, NoSilentFallback, VersionGate, Validate, Config,
           lifetime, minRemaining, Shorter
  <2>3. SettleInv'
    BY DEF TypeOK, ValidInv, SettleInv, ViaInv, Validate, lifetime, minRemaining, Shorter
  <2>4. HandedOutAlive' /\ HandedOutShort'
    BY DEF TypeOK, ValidInv, SettleInv, HandedOutAlive, HandedOutShort, Validate,
           lifetime, minRemaining, Shorter
  <2> QED BY <2>1, <2>2, <2>3, <2>4
<1>14. CASE NotYet(c)
  <2> USE <1>14 DEF NotYet, Goto
  <2>1. TypeOK'
    BY DEF TypeOK, lifetime, minRemaining, Shorter, Validate
  <2>2. ValidInv' /\ ViaInv' /\ NoSilentFallback' /\ VersionGate'
    BY DEF TypeOK, ValidInv, ViaInv, NoSilentFallback, VersionGate, Validate, Config,
           lifetime, minRemaining, Shorter
  <2>3. SettleInv'
    BY DEF TypeOK, ValidInv, SettleInv, ViaInv, Validate, lifetime, minRemaining, Shorter
  <2>4. HandedOutAlive' /\ HandedOutShort'
    BY DEF TypeOK, ValidInv, SettleInv, HandedOutAlive, HandedOutShort, Validate,
           lifetime, minRemaining, Shorter
  <2> QED BY <2>1, <2>2, <2>3, <2>4
<1>15. CASE SettleFails(c)
  <2> USE <1>15 DEF SettleFails, Goto, Fail
  <2>1. TypeOK'
    BY DEF TypeOK, lifetime, minRemaining, Shorter, Validate
  <2>2. ValidInv' /\ ViaInv' /\ NoSilentFallback' /\ VersionGate'
    BY DEF TypeOK, ValidInv, ViaInv, NoSilentFallback, VersionGate, Validate, Config,
           lifetime, minRemaining, Shorter
  <2>3. SettleInv'
    BY DEF TypeOK, ValidInv, SettleInv, ViaInv, Validate, lifetime, minRemaining, Shorter
  <2>4. HandedOutAlive' /\ HandedOutShort'
    BY DEF TypeOK, ValidInv, SettleInv, HandedOutAlive, HandedOutShort, Validate,
           lifetime, minRemaining, Shorter
  <2> QED BY <2>1, <2>2, <2>3, <2>4
<1>16. CASE R2Settled(c)
  <2> USE <1>16 DEF R2Settled, Goto, HandOut
  <2>1. TypeOK'
    BY DEF TypeOK, lifetime, minRemaining, Shorter, Validate
  <2>2. ValidInv' /\ ViaInv' /\ NoSilentFallback' /\ VersionGate'
    BY DEF TypeOK, ValidInv, ViaInv, NoSilentFallback, VersionGate, Validate, Config,
           lifetime, minRemaining, Shorter
  <2>3. SettleInv'
    BY DEF TypeOK, ValidInv, SettleInv, ViaInv, Validate, lifetime, minRemaining, Shorter
  <2>4. HandedOutAlive' /\ HandedOutShort'
    BY DEF TypeOK, ValidInv, SettleInv, HandedOutAlive, HandedOutShort, Validate,
           lifetime, minRemaining, Shorter
  <2> QED BY <2>1, <2>2, <2>3, <2>4
<1> QED BY <1>1, <1>2, <1>3, <1>4, <1>5, <1>6, <1>7, <1>8,
           <1>9, <1>10, <1>11, <1>12, <1>13, <1>14, <1>15, <1>16 DEF Step

(* Time: what is left of a life and of a wait shrink together.             *)
LEMMA TickInv == ASSUME IndInv, Tick PROVE IndInv'
<1> USE DurationsAssumption, MarginAssumption, NoCallerAssumption
        DEF IndInv, conf, None
<1> USE DEF Tick, Countdown, NobodyOverdue
<1>1. TypeOK'
  BY DEF TypeOK, lifetime, minRemaining, Shorter, Validate
<1>2. ValidInv' /\ ViaInv' /\ NoSilentFallback' /\ VersionGate'
  BY DEF TypeOK, ValidInv, ViaInv, NoSilentFallback, VersionGate, Validate, Config,
         lifetime, minRemaining, Shorter
<1>3. SettleInv'
  BY DEF TypeOK, ValidInv, SettleInv, ViaInv, Validate, lifetime, minRemaining, Shorter
<1>4. HandedOutAlive' /\ HandedOutShort'
  BY DEF TypeOK, ValidInv, SettleInv, HandedOutAlive, HandedOutShort, Validate,
         lifetime, minRemaining, Shorter
<1> QED BY <1>1, <1>2, <1>3, <1>4

LEMMA NextInv == IndInv /\ [Next]_vars => IndInv'
<1> SUFFICES ASSUME IndInv, [Next]_vars PROVE IndInv'
  OBVIOUS
<1>1. CASE \E c \in Callers : Call(c) \/ CallRefused(c) \/ Step(c)
  BY <1>1, CallInv
<1>2. CASE Tick
  BY <1>2, TickInv
<1>3. CASE UNCHANGED vars
  <2> USE <1>3 DEF vars, conf, IndInv
  <2>1. TypeOK'
    BY DEF TypeOK
  <2>2. ValidInv' /\ SettleInv' /\ ViaInv'
    BY DEF ValidInv, SettleInv, ViaInv, Validate, Config, lifetime, minRemaining
  <2>3. HandedOutAlive' /\ HandedOutShort'
    BY DEF HandedOutAlive, HandedOutShort, lifetime, minRemaining
  <2>4. NoSilentFallback' /\ VersionGate'
    BY DEF NoSilentFallback, VersionGate
  <2> QED BY <2>1, <2>2, <2>3, <2>4
<1> QED BY <1>1, <1>2, <1>3 DEF Next

THEOREM Invariance == Spec => []IndInv
<1> QED BY InitInv, NextInv, PTL DEF Spec

(* Every variable keeps its type: no life and no wait runs past zero.      *)
THEOREM TypeCorrect == Spec => []TypeOK
<1>1. IndInv => TypeOK
  BY DEF IndInv
<1> QED BY <1>1, Invariance, PTL

(* A credential handed out is alive and has MinRemaining left, less the    *)
(* verify window (Source.Token checks before settle waits; Validate's      *)
(* floor makes up for it).                                                 *)
THEOREM Alive == Spec => []HandedOutAlive
<1>1. IndInv => HandedOutAlive
  BY DEF IndInv
<1> QED BY <1>1, Invariance, PTL

(* It does not outlive what was asked for by more than the slack, nor, as  *)
(* a break-glass child, MaxLifetime (Source.Token, breakGlass).            *)
THEOREM ShortLived == Spec => []HandedOutShort
<1>1. IndInv => HandedOutShort
  BY DEF IndInv
<1> QED BY <1>1, Invariance, PTL

(* sluis is asked only with break-glass off, and the root used only with   *)
(* it on (Estate.Config, BreakGlass.Enabled).                              *)
THEOREM BreakGlassOnly == Spec => []NoSilentFallback
<1>1. IndInv => NoSilentFallback
  BY DEF IndInv
<1> QED BY <1>1, Invariance, PTL

(* No credential is asked of a sluisctl whose version was not found good,  *)
(* and the check is never run twice at once (requireSluisctl).             *)
THEOREM VersionChecked == Spec => []VersionGate
<1>1. IndInv => VersionGate
  BY DEF IndInv
<1> QED BY <1>1, Invariance, PTL

=============================================================================
