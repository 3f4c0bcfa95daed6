-------------------------- MODULE StaticSiteProofs --------------------------
(***************************************************************************)
(* Proofs about StaticSite, for every set of copies and of requests and    *)
(* every length of the grace period.  IndInv is inductive: an exit resets  *)
(* it (ExitInv), a failed Load gives back the directory it was filling     *)
(* (LoadFailedInv), and the other steps are taken group by group.          *)
(*                                                                         *)
(* The last part proves that StaticSite implements SiteService, step by    *)
(* step.                                                                   *)
(***************************************************************************)
EXTENDS StaticSite, TLAPS

(* An initial state, a volume with no process, satisfies the invariant.    *)
LEMMA InitInv == Init => IndInv
<1> SUFFICES ASSUME Init PROVE IndInv
  OBVIOUS
<1> USE NamesAssumption, TimesAssumption, BoundsAssumption
        DEF Init, NoProcess, Serving, Filling, Fresh, Roots
<1>1. TypeOK
  <2>1. dirMode \in BOOLEAN /\ hup \in BOOLEAN /\ term \in BOOLEAN /\ errc \in BOOLEAN
    BY Zenon
  <2> QED BY <2>1, SMT DEF TypeOK
<1>2. PhaseInv /\ LoadingInv /\ SiteInv
  BY DEF PhaseInv, LoadingInv, SiteInv
<1>3. HeldInv /\ CopiesInv /\ ReloadInv /\ NoContentUnavailable
  BY DEF HeldInv, CopiesInv, ReloadInv, NoContentUnavailable
<1> QED BY <1>1, <1>2, <1>3 DEF IndInv

(* However the process ends, what it leaves on the volume is accounted for *)
(* and nothing else survives (Run's returns, a signal's default effect).   *)
LEMMA ExitInv ==
  ASSUME NEW copies \in SUBSET Dirs, IndInv, ExitLeaving(copies)
  PROVE  IndInv'
<1> USE NamesAssumption, TimesAssumption, BoundsAssumption
        DEF IndInv, ExitLeaving, Serving, Filling, Fresh, Roots
<1>1. TypeOK'
  <2>1. /\ dirMode' \in BOOLEAN /\ hup' \in BOOLEAN
        /\ term' \in BOOLEAN /\ errc' \in BOOLEAN
    BY Zenon DEF TypeOK
  <2> QED BY <2>1, SMT DEF TypeOK
<1>2. PhaseInv' /\ LoadingInv' /\ SiteInv'
  BY DEF TypeOK, PhaseInv, LoadingInv, SiteInv
<1>3. HeldInv' /\ CopiesInv' /\ ReloadInv' /\ NoContentUnavailable'
  BY DEF TypeOK, HeldInv, CopiesInv, ReloadInv, NoContentUnavailable
<1> QED BY <1>1, <1>2, <1>3

(* A Load that fails before the swap takes away only the directory it was  *)
(* filling, which nobody serves (Load's error returns).                    *)
LEMMA LoadFailedInv ==
  ASSUME IndInv, load \in {"begin", "resolve", "pull", "build"},
         LoadFailed(disk \ {loading})
  PROVE  IndInv'
<1>1. CASE phase = "start"
  <2>1. ExitLeaving(disk \ {loading})
    BY <1>1 DEF LoadFailed
  <2>2. disk \ {loading} \in SUBSET Dirs
    BY DEF IndInv, TypeOK
  <2> QED BY <2>1, <2>2, ExitInv
<1>2. CASE phase = "run"
  <2> USE <1>2, NamesAssumption, TimesAssumption, BoundsAssumption
          DEF IndInv, LoadFailed, Serving, Filling, Fresh, Roots
  <2>1. TypeOK'
    BY DEF TypeOK
  <2>2. PhaseInv' /\ LoadingInv' /\ SiteInv'
    BY DEF TypeOK, PhaseInv, LoadingInv, SiteInv
  <2>3. HeldInv' /\ NoContentUnavailable'
    BY DEF TypeOK, LoadingInv, SiteInv, HeldInv, NoContentUnavailable
  <2>4. CopiesInv' /\ ReloadInv'
    BY DEF TypeOK, LoadingInv, CopiesInv, ReloadInv
  <2> QED BY <2>1, <2>2, <2>3, <2>4
<1> QED BY <1>1, <1>2 DEF LoadFailed

(* Every step of Load preserves the invariant.                             *)
LEMMA LoadInv == ASSUME IndInv, LoadStep PROVE IndInv'
<1> USE NamesAssumption, TimesAssumption, BoundsAssumption
        DEF IndInv, Serving, Filling, Fresh, Roots
<1>1. CASE LoadBegin
  <2> USE <1>1 DEF LoadBegin, Unused
  <2>1. TypeOK'
    BY DEF TypeOK
  <2>2. PhaseInv' /\ LoadingInv' /\ SiteInv'
    BY DEF TypeOK, PhaseInv, LoadingInv, SiteInv
  <2>3. HeldInv' /\ NoContentUnavailable'
    BY DEF TypeOK, PhaseInv, LoadingInv, SiteInv, HeldInv, NoContentUnavailable
  <2>4. CopiesInv' /\ ReloadInv'
    BY DEF TypeOK, PhaseInv, LoadingInv, SiteInv, CopiesInv, ReloadInv
  <2> QED BY <2>1, <2>2, <2>3, <2>4
<1>2. CASE ResolveTag
  <2> USE <1>2 DEF ResolveTag
  <2>1. TypeOK'
    BY DEF TypeOK, LoadingInv
  <2>2. PhaseInv' /\ LoadingInv' /\ SiteInv'
    BY DEF TypeOK, PhaseInv, LoadingInv, SiteInv
  <2>3. HeldInv' /\ NoContentUnavailable'
    BY DEF TypeOK, PhaseInv, LoadingInv, SiteInv, HeldInv, NoContentUnavailable
  <2>4. CopiesInv' /\ ReloadInv'
    BY DEF TypeOK, PhaseInv, LoadingInv, SiteInv, CopiesInv, ReloadInv
  <2> QED BY <2>1, <2>2, <2>3, <2>4
<1>3. CASE PullOk
  <2> USE <1>3 DEF PullOk, worldVars
  <2>1. TypeOK'
    BY DEF TypeOK
  <2>2. PhaseInv' /\ LoadingInv' /\ SiteInv'
    BY DEF TypeOK, PhaseInv, LoadingInv, SiteInv
  <2>3. HeldInv' /\ NoContentUnavailable'
    BY DEF TypeOK, PhaseInv, LoadingInv, SiteInv, HeldInv, NoContentUnavailable
  <2>4. CopiesInv' /\ ReloadInv'
    BY DEF TypeOK, PhaseInv, LoadingInv, SiteInv, CopiesInv, ReloadInv
  <2> QED BY <2>1, <2>2, <2>3, <2>4
<1>4. CASE MkdirFails
  <2>1. disk \ {loading} = disk /\ load # "idle"
    BY <1>4 DEF MkdirFails, TypeOK, LoadingInv
  <2>2. LoadFailed(disk \ {loading})
    BY ONLY <1>4, <2>1, Zenon DEF MkdirFails
  <2> QED BY <1>4, <2>2, LoadFailedInv DEF MkdirFails
<1>5. CASE PullFails
  <2>1. LoadFailed(disk \ {loading})
    BY <1>5 DEF PullFails, TypeOK, LoadingInv, LoadFailed
  <2> QED BY <1>5, <2>1, LoadFailedInv DEF PullFails
<1>6. CASE BuildOk
  <2> USE <1>6 DEF BuildOk, worldVars
  <2>1. TypeOK'
    BY DEF TypeOK
  <2>2. PhaseInv' /\ LoadingInv' /\ SiteInv'
    BY DEF TypeOK, PhaseInv, LoadingInv, SiteInv
  <2>3. HeldInv' /\ NoContentUnavailable'
    BY DEF TypeOK, PhaseInv, LoadingInv, SiteInv, HeldInv, NoContentUnavailable
  <2>4. CopiesInv' /\ ReloadInv'
    BY DEF TypeOK, PhaseInv, LoadingInv, SiteInv, CopiesInv, ReloadInv
  <2> QED BY <2>1, <2>2, <2>3, <2>4
<1>7. CASE BuildFails
  <2>1. disk \ {loading} = IF Fresh THEN disk \ {loading} ELSE disk
    BY <1>7 DEF BuildFails, TypeOK, LoadingInv
  <2>2. LoadFailed(disk \ {loading})
    BY <1>7, <2>1, Zenon DEF BuildFails
  <2> QED BY <1>7, <2>2, LoadFailedInv DEF BuildFails
<1>8. CASE SwapIn
  <2> USE <1>8 DEF SwapIn, worldVars
  <2>1. TypeOK'
    BY DEF TypeOK
  <2>2. PhaseInv' /\ LoadingInv' /\ SiteInv'
    BY DEF TypeOK, PhaseInv, LoadingInv, SiteInv
  <2>3. HeldInv' /\ NoContentUnavailable'
    BY DEF TypeOK, PhaseInv, LoadingInv, SiteInv, HeldInv, NoContentUnavailable
  <2>4. CopiesInv' /\ ReloadInv'
    BY DEF TypeOK, PhaseInv, LoadingInv, SiteInv, CopiesInv, ReloadInv
  <2> QED BY <2>1, <2>2, <2>3, <2>4
<1>9. CASE RecordLoad
  <2> USE <1>9 DEF RecordLoad, worldVars, OldDir, RemovalDelay
  <2>1. TypeOK'
    BY DEF TypeOK, LoadingInv, SiteInv
  <2>2. PhaseInv' /\ LoadingInv' /\ SiteInv'
    BY DEF TypeOK, PhaseInv, LoadingInv, SiteInv
  <2>3. HeldInv' /\ NoContentUnavailable'
    BY DEF TypeOK, PhaseInv, LoadingInv, SiteInv, HeldInv, NoContentUnavailable
  <2>4. CopiesInv' /\ ReloadInv'
    BY DEF TypeOK, PhaseInv, LoadingInv, SiteInv, CopiesInv, ReloadInv
  <2> QED BY <2>1, <2>2, <2>3, <2>4
<1> QED BY <1>1, <1>2, <1>3, <1>4, <1>5, <1>6, <1>7, <1>8, <1>9 DEF LoadStep

(* So does the removal of a superseded copy: nobody holds or serves it.    *)
LEMMA RemoveOldInv == ASSUME NEW d \in Dirs, IndInv, RemoveOld(d) PROVE IndInv'
<1> USE NamesAssumption, TimesAssumption, BoundsAssumption
        DEF IndInv, Serving, Filling, Fresh, Roots
<1> USE DEF RemoveOld
<1>1. TypeOK'
  BY DEF TypeOK
<1>2. PhaseInv' /\ LoadingInv' /\ SiteInv'
  BY DEF TypeOK, PhaseInv, LoadingInv, SiteInv
<1>3. HeldInv' /\ NoContentUnavailable'
  BY DEF TypeOK, SiteInv, LoadingInv, HeldInv, NoContentUnavailable
<1>4. CopiesInv' /\ ReloadInv'
  BY DEF TypeOK, CopiesInv, ReloadInv
<1> QED BY <1>1, <1>2, <1>3, <1>4

(* So does what Run does at its select and in the shutdown.                *)
LEMMA RunInv == ASSUME IndInv, RunStep PROVE IndInv'
<1> USE NamesAssumption, TimesAssumption, BoundsAssumption
        DEF IndInv, Serving, Filling, Fresh, Roots
<1>1. CASE TakeHup
  <2> USE <1>1 DEF TakeHup, AtSelect, worldVars
  <2>1. TypeOK'
    <3>1. hup' \in BOOLEAN
      BY Zenon DEF TypeOK
    <3> QED BY <3>1, SMT DEF TypeOK
  <2>2. PhaseInv' /\ LoadingInv' /\ SiteInv'
    BY DEF TypeOK, PhaseInv, LoadingInv, SiteInv
  <2>3. HeldInv' /\ NoContentUnavailable'
    BY DEF TypeOK, PhaseInv, LoadingInv, SiteInv, HeldInv, NoContentUnavailable
  <2>4. CopiesInv' /\ ReloadInv'
    BY DEF TypeOK, PhaseInv, LoadingInv, SiteInv, CopiesInv, ReloadInv
  <2> QED BY <2>1, <2>2, <2>3, <2>4
<1>2. CASE TakeErr
  BY <1>2, ExitInv DEF TakeErr, TypeOK
<1>3. CASE TakeTerm
  <2> USE <1>3 DEF TakeTerm, AtSelect, worldVars
  <2>1. TypeOK'
    BY DEF TypeOK
  <2>2. PhaseInv' /\ LoadingInv' /\ SiteInv'
    BY DEF TypeOK, PhaseInv, LoadingInv, SiteInv
  <2>3. HeldInv' /\ NoContentUnavailable'
    BY DEF TypeOK, PhaseInv, LoadingInv, SiteInv, HeldInv, NoContentUnavailable
  <2>4. CopiesInv' /\ ReloadInv'
    BY DEF TypeOK, PhaseInv, LoadingInv, SiteInv, CopiesInv, ReloadInv
  <2> QED BY <2>1, <2>2, <2>3, <2>4
<1>4. CASE ShutdownBegin
  <2> USE <1>4 DEF ShutdownBegin, worldVars
  <2>1. TypeOK'
    BY DEF TypeOK
  <2>2. PhaseInv' /\ LoadingInv' /\ SiteInv'
    BY DEF TypeOK, PhaseInv, LoadingInv, SiteInv
  <2>3. HeldInv' /\ NoContentUnavailable'
    BY DEF TypeOK, PhaseInv, LoadingInv, SiteInv, HeldInv, NoContentUnavailable
  <2>4. CopiesInv' /\ ReloadInv'
    BY DEF TypeOK, PhaseInv, LoadingInv, SiteInv, CopiesInv, ReloadInv
  <2> QED BY <2>1, <2>2, <2>3, <2>4
<1>5. CASE ShutdownEnd
  BY <1>5, ExitInv DEF ShutdownEnd, TypeOK
<1> QED BY <1>1, <1>2, <1>3, <1>4, <1>5 DEF RunStep

(* So do signals, a failing listener, a moved tag and the passing of time. *)
LEMMA EnvInv == ASSUME IndInv, EnvStep PROVE IndInv'
<1> USE NamesAssumption, TimesAssumption, BoundsAssumption
        DEF IndInv, Serving, Filling, Fresh, Roots
<1>1. CASE SendHup
  <2>1. CASE phase = "start"
    <3>1. ExitLeaving(disk)
      BY <1>1, <2>1 DEF SendHup
    <3> QED BY <3>1, ExitInv DEF TypeOK
  <2>2. CASE phase # "start"
    <3> USE <1>1, <2>2 DEF SendHup
    <3>1. TypeOK'
      <4>1. hup' \in BOOLEAN
        BY Zenon DEF TypeOK
      <4> QED BY <4>1, SMT DEF TypeOK
    <3>2. PhaseInv' /\ LoadingInv' /\ SiteInv'
      BY DEF TypeOK, PhaseInv, LoadingInv, SiteInv
    <3>3. HeldInv' /\ NoContentUnavailable'
      BY DEF TypeOK, HeldInv, NoContentUnavailable
    <3>4. CopiesInv' /\ ReloadInv'
      BY DEF TypeOK, CopiesInv, ReloadInv
    <3> QED BY <3>1, <3>2, <3>3, <3>4
  <2> QED BY <2>1, <2>2
<1>2. CASE SendTerm
  <2> USE <1>2 DEF SendTerm, worldVars
  <2>1. TypeOK'
    <3>1. term' \in BOOLEAN
      BY Zenon DEF TypeOK
    <3> QED BY <3>1, SMT DEF TypeOK
  <2>2. PhaseInv' /\ LoadingInv' /\ SiteInv'
    BY DEF TypeOK, PhaseInv, LoadingInv, SiteInv
  <2>3. HeldInv' /\ NoContentUnavailable'
    BY DEF TypeOK, PhaseInv, LoadingInv, SiteInv, HeldInv, NoContentUnavailable
  <2>4. CopiesInv' /\ ReloadInv'
    BY DEF TypeOK, PhaseInv, LoadingInv, SiteInv, CopiesInv, ReloadInv
  <2> QED BY <2>1, <2>2, <2>3, <2>4
<1>3. CASE ListenerFails
  <2> USE <1>3 DEF ListenerFails, worldVars
  <2>1. TypeOK'
    <3>1. errc' \in BOOLEAN
      BY Zenon DEF TypeOK
    <3> QED BY <3>1, SMT DEF TypeOK
  <2>2. PhaseInv' /\ LoadingInv' /\ SiteInv'
    BY DEF TypeOK, PhaseInv, LoadingInv, SiteInv
  <2>3. HeldInv' /\ NoContentUnavailable'
    BY DEF TypeOK, PhaseInv, LoadingInv, SiteInv, HeldInv, NoContentUnavailable
  <2>4. CopiesInv' /\ ReloadInv'
    BY DEF TypeOK, PhaseInv, LoadingInv, SiteInv, CopiesInv, ReloadInv
  <2> QED BY <2>1, <2>2, <2>3, <2>4
<1>4. CASE MoveTag
  <2> USE <1>4 DEF MoveTag, procVars
  <2>1. TypeOK'
    BY DEF TypeOK
  <2>2. PhaseInv' /\ LoadingInv' /\ SiteInv'
    BY DEF TypeOK, PhaseInv, LoadingInv, SiteInv
  <2>3. HeldInv' /\ NoContentUnavailable'
    BY DEF TypeOK, PhaseInv, LoadingInv, SiteInv, HeldInv, NoContentUnavailable
  <2>4. CopiesInv' /\ ReloadInv'
    BY DEF TypeOK, PhaseInv, LoadingInv, SiteInv, CopiesInv, ReloadInv
  <2> QED BY <2>1, <2>2, <2>3, <2>4
<1>5. CASE Tick
  <2> USE <1>5 DEF Tick, Countdown, worldVars
  <2>1. TypeOK'
    BY DEF TypeOK
  <2>2. PhaseInv' /\ LoadingInv' /\ SiteInv'
    BY DEF TypeOK, PhaseInv, LoadingInv, SiteInv
  <2>3. HeldInv' /\ NoContentUnavailable'
    BY DEF TypeOK, PhaseInv, LoadingInv, SiteInv, HeldInv, NoContentUnavailable
  <2>4. CopiesInv' /\ ReloadInv'
    BY DEF TypeOK, PhaseInv, LoadingInv, SiteInv, CopiesInv, ReloadInv
  <2> QED BY <2>1, <2>2, <2>3, <2>4
<1> QED BY <1>1, <1>2, <1>3, <1>4, <1>5 DEF EnvStep

(* So do the steps of a request.                                           *)
LEMMA RequestInv == ASSUME NEW r \in Reqs, IndInv, RequestStep(r) PROVE IndInv'
<1> USE NamesAssumption, TimesAssumption, BoundsAssumption
        DEF IndInv, Serving, Filling, Fresh, Roots
<1>1. CASE Arrive(r)
  <2> USE <1>1 DEF Arrive, worldVars
  <2>1. TypeOK'
    BY DEF TypeOK
  <2>2. PhaseInv' /\ LoadingInv' /\ SiteInv'
    BY DEF TypeOK, PhaseInv, LoadingInv, SiteInv
  <2>3. HeldInv' /\ NoContentUnavailable'
    BY DEF TypeOK, PhaseInv, LoadingInv, SiteInv, HeldInv, NoContentUnavailable
  <2>4. CopiesInv' /\ ReloadInv'
    BY DEF TypeOK, PhaseInv, LoadingInv, SiteInv, CopiesInv, ReloadInv
  <2> QED BY <2>1, <2>2, <2>3, <2>4
<1>2. CASE OpenEntry(r)
  <2> USE <1>2 DEF OpenEntry, worldVars
  <2>1. TypeOK'
    BY DEF TypeOK
  <2>2. PhaseInv' /\ LoadingInv' /\ SiteInv'
    BY DEF TypeOK, PhaseInv, LoadingInv, SiteInv
  <2>3. HeldInv' /\ NoContentUnavailable'
    BY DEF TypeOK, PhaseInv, LoadingInv, SiteInv, HeldInv, NoContentUnavailable
  <2>4. CopiesInv' /\ ReloadInv'
    BY DEF TypeOK, PhaseInv, LoadingInv, SiteInv, CopiesInv, ReloadInv
  <2> QED BY <2>1, <2>2, <2>3, <2>4
<1>3. CASE Finish(r)
  <2> USE <1>3 DEF Finish, worldVars
  <2>1. TypeOK'
    BY DEF TypeOK
  <2>2. PhaseInv' /\ LoadingInv' /\ SiteInv'
    BY DEF TypeOK, PhaseInv, LoadingInv, SiteInv
  <2>3. HeldInv' /\ NoContentUnavailable'
    BY DEF TypeOK, PhaseInv, LoadingInv, SiteInv, HeldInv, NoContentUnavailable
  <2>4. CopiesInv' /\ ReloadInv'
    BY DEF TypeOK, PhaseInv, LoadingInv, SiteInv, CopiesInv, ReloadInv
  <2> QED BY <2>1, <2>2, <2>3, <2>4
<1> QED BY <1>1, <1>2, <1>3 DEF RequestStep

(* Every step of the specification, stuttering included.                   *)
LEMMA NextInv == IndInv /\ [Next]_vars => IndInv'
<1> SUFFICES ASSUME IndInv, [Next]_vars PROVE IndInv'
  OBVIOUS
<1>1. CASE Start
  <2> USE <1>1, NamesAssumption, TimesAssumption, BoundsAssumption
          DEF IndInv, Start, Serving, Filling, Fresh, Roots
  <2>1. TypeOK'
    BY DEF TypeOK
  <2>2. PhaseInv' /\ LoadingInv' /\ SiteInv'
    BY DEF TypeOK, PhaseInv, LoadingInv, SiteInv
  <2>3. HeldInv' /\ CopiesInv' /\ ReloadInv' /\ NoContentUnavailable'
    BY DEF TypeOK, PhaseInv, HeldInv, CopiesInv, ReloadInv, NoContentUnavailable
  <2> QED BY <2>1, <2>2, <2>3
<1>2. CASE Crash
  BY <1>2, ExitInv DEF Crash, IndInv, TypeOK
<1>3. CASE UNCHANGED vars
  <2> USE <1>3 DEF vars, procVars, worldVars, IndInv, Serving, Filling, Fresh
  <2>1. TypeOK'
    BY DEF TypeOK, Roots
  <2>2. PhaseInv' /\ LoadingInv' /\ SiteInv'
    BY DEF PhaseInv, LoadingInv, SiteInv
  <2>3. HeldInv' /\ CopiesInv' /\ ReloadInv' /\ NoContentUnavailable'
    BY DEF HeldInv, CopiesInv, ReloadInv, NoContentUnavailable
  <2> QED BY <2>1, <2>2, <2>3
<1>4. CASE LoadStep
  BY <1>4, LoadInv
<1>5. CASE RunStep
  BY <1>5, RunInv
<1>6. CASE EnvStep
  BY <1>6, EnvInv
<1>7. CASE \E d \in Dirs : RemoveOld(d)
  BY <1>7, RemoveOldInv
<1>8. CASE \E r \in Reqs : RequestStep(r)
  BY <1>8, RequestInv
<1> QED BY <1>1, <1>2, <1>3, <1>4, <1>5, <1>6, <1>7, <1>8 DEF Next, Stopped

THEOREM Invariance == Spec => []IndInv
<1> QED BY InitInv, NextInv, PTL DEF Spec

(* Every variable keeps its type; in particular no timer runs past zero    *)
(* and no request outlives the bound on its opening (server.go, handler.go). *)
THEOREM TypeCorrect == Spec => []TypeOK
<1>1. IndInv => TypeOK
  BY DEF IndInv
<1> QED BY <1>1, Invariance, PTL

(* The copy being served is on the volume: neither a failed reload nor the *)
(* timer of an earlier swap removes it, whatever the number of reloads     *)
(* within one grace period (Server.Load).                                  *)
THEOREM Served == Spec => []ServedOnDisk
<1>1. IndInv => ServedOnDisk
  <2> SUFFICES ASSUME IndInv, phase \in {"run", "drain", "closing"}
               PROVE  site \in disk \cup {LocalDir}
    BY DEF ServedOnDisk
  <2> QED BY NamesAssumption
          DEF IndInv, TypeOK, SiteInv, LoadingInv, Serving, Fresh
<1> QED BY <1>1, Invariance, PTL

(* No request is answered that the content is unavailable or not loaded,   *)
(* if it opens its file within the grace period (Handler.serve).           *)
THEOREM Available == Spec => []NoContentUnavailable
<1>1. IndInv => NoContentUnavailable
  BY DEF IndInv
<1> QED BY <1>1, Invariance, PTL

(* A SIGHUP, also one that arrives during a reload, is followed by a load  *)
(* of what the tag named when it arrived or of something newer (Run).      *)
THEOREM ReloadNotLost == Spec => []NoLostReload
<1>1. IndInv => NoLostReload
  BY DEF IndInv, ReloadInv, NoLostReload, AtSelect
<1> QED BY <1>1, Invariance, PTL

(* No path through Load forgets a copy on the volume (Load).               *)
THEOREM NoOrphan == Spec => []NoOrphanCopy
<1>1. IndInv => NoOrphanCopy
  BY DEF IndInv, CopiesInv, NoOrphanCopy
<1> QED BY <1>1, Invariance, PTL

-----------------------------------------------------------------------------
(* The refinement: a step of StaticSite is a stutter of SiteService unless *)
(* it swaps a copy in (Publish), takes, opens or ends a request, or ends   *)
(* the process (Down).  IndInv keeps a held copy on the volume and apart   *)
(* from the one being filled; AgeInv keeps the versions in order.          *)

(* Every step keeps the versions in order: only ResolveTag gives a copy a  *)
(* version, the tag's, and the tag only moves on.                          *)
LEMMA AgeStep == ASSUME IndInv, AgeInv, [Next]_vars PROVE AgeInv'
<1> USE NamesAssumption DEF AgeInv, Fresh
<1>1. CASE LoadBegin
  BY <1>1 DEF LoadBegin
<1>2. CASE ResolveTag
  BY <1>2 DEF ResolveTag, IndInv, TypeOK, LoadingInv, Filling, Roots, Fresh
<1>3. CASE PullOk \/ BuildOk
  BY <1>3 DEF PullOk, BuildOk, worldVars
<1>4. CASE MkdirFails \/ PullFails \/ BuildFails
  BY <1>4 DEF MkdirFails, PullFails, BuildFails, LoadFailed, ExitLeaving
<1>5. CASE SwapIn \/ RecordLoad
  BY <1>5 DEF SwapIn, RecordLoad, worldVars
<1>6. CASE \E d \in Dirs : RemoveOld(d)
  BY <1>6 DEF RemoveOld
<1>7. CASE RunStep
  BY <1>7 DEF RunStep, TakeHup, TakeErr, TakeTerm, ShutdownBegin, ShutdownEnd,
              ExitLeaving, AtSelect, worldVars
<1>8. CASE SendHup \/ SendTerm \/ ListenerFails \/ Tick
  BY <1>8 DEF SendHup, SendTerm, ListenerFails, Tick, ExitLeaving, worldVars
<1>9. CASE MoveTag
  BY <1>9 DEF MoveTag, procVars, IndInv, TypeOK
<1>10. CASE \E r \in Reqs : RequestStep(r)
  BY <1>10 DEF RequestStep, Arrive, OpenEntry, Finish, worldVars
<1>11. CASE Start \/ Crash \/ UNCHANGED vars
  BY <1>11 DEF Start, Crash, ExitLeaving, vars, procVars, worldVars
<1> QED BY <1>1, <1>2, <1>3, <1>4, <1>5, <1>6, <1>7, <1>8, <1>9, <1>10, <1>11
        DEF Next, LoadStep, EnvStep, Stopped

(* A step that changes neither what is served nor what a request is owed   *)
(* is a stutter of the service.                                            *)
LEMMA Stutter ==
  ASSUME VersionIn(site)' = VersionIn(site),
         \A r \in Reqs : Owed(r)' = Owed(r)
  PROVE  [Promise!Next]_(Promise!vars)
<1>1. [r \in Reqs |-> Owed(r)]' = [r \in Reqs |-> Owed(r)]
  OBVIOUS
<1> QED BY <1>1 DEF Promise!vars

(* What a request is owed depends on its own state, and for one that holds *)
(* its copy on that copy, which is on the volume.                          *)
LEMMA OwedKept ==
  ASSUME IndInv, rst' = rst, rdir' = rdir,
         \A r \in Reqs : rst[r] = "held" /\ rdir[r] \in Dirs =>
           rdir[r] \in disk' /\ ver'[rdir[r]] = ver[rdir[r]]
  PROVE  \A r \in Reqs : Owed(r)' = Owed(r)
<1> SUFFICES ASSUME NEW r \in Reqs PROVE Owed(r)' = Owed(r)
  OBVIOUS
<1> QED BY NamesAssumption DEF IndInv, HeldInv, Owed, VersionIn

(* The end of a process, by itself or not, is Down.                        *)
LEMMA ExitIsDown ==
  ASSUME NEW copies, ExitLeaving(copies)
  PROVE  Promise!Down
<1>1. VersionIn(site)' = NoVersion
  BY DEF ExitLeaving, VersionIn
<1>2. \A r \in Reqs : Owed(r)' = NoVersion
  BY DEF ExitLeaving, Owed
<1>3. [r \in Reqs |-> Owed(r)]' = [r \in Reqs |-> NoVersion]
  BY <1>2
<1> QED BY <1>1, <1>3 DEF Promise!Down

(* A copy that a request holds is not the one being filled, and no timer   *)
(* has run out for it.                                                     *)
LEMMA HeldApart ==
  ASSUME IndInv, NEW r \in Reqs, rst[r] = "held", rdir[r] \in Dirs
  PROVE  /\ rdir[r] \in disk
         /\ due[rdir[r]] # 0
         /\ Filling => rdir[r] # loading
<1> QED BY NamesAssumption, TimesAssumption
        DEF IndInv, TypeOK, HeldInv, SiteInv, LoadingInv, Filling, Fresh, Roots

(* A Load that fails is a stutter, or the end of the process.              *)
LEMMA LoadFailedRefines ==
  ASSUME IndInv, load \in {"begin", "resolve", "pull", "build"},
         LoadFailed(disk \ {loading})
  PROVE  [Promise!Next]_(Promise!vars)
<1>1. CASE phase = "start"
  BY <1>1, ExitIsDown DEF LoadFailed, Promise!Next
<1>2. CASE phase = "run"
  <2>1. /\ site' = site /\ ver' = ver /\ rst' = rst /\ rdir' = rdir
        /\ disk' = disk \ {loading}
    BY <1>2 DEF LoadFailed
  <2>2. VersionIn(site)' = VersionIn(site)
    BY <2>1 DEF VersionIn
  <2>3. ASSUME NEW r \in Reqs, rst[r] = "held", rdir[r] \in Dirs
        PROVE  rdir[r] # loading
    <3>1. CASE load = "begin"
      BY <3>1, NamesAssumption, <2>3 DEF IndInv, LoadingInv
    <3>2. CASE load \in {"resolve", "pull", "build"}
      BY <3>2, <2>3, HeldApart DEF Filling
    <3> QED BY <3>1, <3>2
  <2>4. \A r \in Reqs : Owed(r)' = Owed(r)
    BY <2>1, <2>3, HeldApart, OwedKept
  <2> QED BY <2>2, <2>4, Stutter
<1> QED BY <1>1, <1>2 DEF LoadFailed

(* The steps of Load: the swap publishes, the others are not seen.         *)
LEMMA LoadRefines ==
  ASSUME IndInv, AgeInv, LoadStep PROVE [Promise!Next]_(Promise!vars)
<1>1. CASE LoadBegin
  <2>1. /\ site' = site /\ ver' = ver /\ rst' = rst /\ rdir' = rdir
        /\ disk \subseteq disk'
    BY <1>1 DEF LoadBegin
  <2>2. VersionIn(site)' = VersionIn(site)
    BY <2>1 DEF VersionIn
  <2>3. \A r \in Reqs : Owed(r)' = Owed(r)
    BY <2>1, HeldApart, OwedKept
  <2> QED BY <2>2, <2>3, Stutter
<1>2. CASE ResolveTag
  <2>1. /\ site' = site /\ rst' = rst /\ rdir' = rdir /\ disk' = disk
        /\ Filling /\ Fresh /\ loading \in Dirs
    BY <1>2 DEF ResolveTag, Filling, Fresh, IndInv, LoadingInv
  <2>2. \A d \in Dirs : d # loading => ver'[d] = ver[d]
    BY <1>2 DEF ResolveTag, IndInv, TypeOK
  <2>3. VersionIn(site)' = VersionIn(site)
    BY <2>1, <2>2 DEF VersionIn, IndInv, TypeOK, LoadingInv, Roots
  <2>4. \A r \in Reqs : Owed(r)' = Owed(r)
    BY <2>1, <2>2, HeldApart, OwedKept
  <2> QED BY <2>3, <2>4, Stutter
<1>3. CASE PullOk \/ BuildOk \/ RecordLoad
  <2>1. /\ site' = site /\ ver' = ver /\ rst' = rst /\ rdir' = rdir
        /\ disk' = disk
    BY <1>3 DEF PullOk, BuildOk, RecordLoad, worldVars
  <2>2. VersionIn(site)' = VersionIn(site)
    BY <2>1 DEF VersionIn
  <2>3. \A r \in Reqs : Owed(r)' = Owed(r)
    BY <2>1, HeldApart, OwedKept
  <2> QED BY <2>2, <2>3, Stutter
<1>4. CASE MkdirFails \/ PullFails \/ BuildFails
  <2>1. load \in {"begin", "resolve", "pull", "build"}
    BY <1>4 DEF MkdirFails, PullFails, BuildFails
  <2>2. LoadFailed(disk \ {loading})
    <3>1. CASE MkdirFails
      <4>1. disk \ {loading} = disk
        BY <3>1, NamesAssumption DEF MkdirFails, IndInv, TypeOK, LoadingInv
      <4> QED BY <3>1, <4>1 DEF MkdirFails
    <3>2. CASE PullFails
      BY <3>2 DEF PullFails
    <3>3. CASE BuildFails
      <4>1. CASE Fresh
        BY <3>3, <4>1 DEF BuildFails
      <4>2. CASE ~Fresh
        <5>1. loading = LocalDir
          BY <3>3, <4>2 DEF BuildFails, Fresh, IndInv, LoadingInv
        <5>2. disk \ {loading} = disk
          BY <5>1, NamesAssumption DEF IndInv, TypeOK
        <5> QED BY <3>3, <4>2, <5>2 DEF BuildFails
      <4> QED BY <4>1, <4>2
    <3> QED BY <1>4, <3>1, <3>2, <3>3
  <2> QED BY <2>1, <2>2, LoadFailedRefines
<1>5. CASE SwapIn
  <2>1. /\ site' = loading /\ ver' = ver /\ rst' = rst /\ rdir' = rdir
        /\ disk' = disk /\ load = "swap"
    BY <1>5 DEF SwapIn, worldVars
  <2>2. VersionIn(site)' \in 0 .. MaxTag
    BY <2>1, NamesAssumption, BoundsAssumption DEF VersionIn, IndInv, TypeOK, LoadingInv
  <2>3. VersionIn(site) # NoVersion => VersionIn(site)' >= VersionIn(site)
    BY <2>1, NamesAssumption
       DEF VersionIn, NoVersion, AgeInv, IndInv, TypeOK, LoadingInv, SiteInv, Fresh, Roots
  <2>4. \A r \in Reqs : Owed(r)' = Owed(r)
    BY <2>1, HeldApart, OwedKept
  <2>5. [r \in Reqs |-> Owed(r)]' = [r \in Reqs |-> Owed(r)]
    BY <2>4
  <2> QED BY <2>2, <2>3, <2>5 DEF Promise!Next, Promise!Publish
<1> QED BY <1>1, <1>2, <1>3, <1>4, <1>5 DEF LoadStep

(* A timer removes no copy that is held (RemoveOld is not seen).           *)
LEMMA RemoveRefines ==
  ASSUME IndInv, NEW d \in Dirs, RemoveOld(d)
  PROVE  [Promise!Next]_(Promise!vars)
<1>1. /\ site' = site /\ ver' = ver /\ rst' = rst /\ rdir' = rdir
      /\ disk' = disk \ {d} /\ due[d] = 0
  BY DEF RemoveOld
<1>2. VersionIn(site)' = VersionIn(site)
  BY <1>1 DEF VersionIn
<1>3. \A r \in Reqs : Owed(r)' = Owed(r)
  BY <1>1, HeldApart, OwedKept
<1> QED BY <1>2, <1>3, Stutter

(* What a request does is Ask, Answer and Leave.                           *)
LEMMA RequestRefines ==
  ASSUME IndInv, NEW r \in Reqs, RequestStep(r)
  PROVE  [Promise!Next]_(Promise!vars)
<1> DEFINE asked == [q \in Reqs |-> Owed(q)]
<1>1. VersionIn(site)' = VersionIn(site)
  BY DEF RequestStep, Arrive, OpenEntry, Finish, worldVars, VersionIn
<1>2. \A q \in Reqs : q # r => Owed(q)' = Owed(q)
  BY DEF RequestStep, Arrive, OpenEntry, Finish, worldVars, Owed, VersionIn, IndInv, TypeOK
<1>3. \A v : Owed(r)' = v => asked' = [asked EXCEPT ![r] = v]
  BY <1>2
<1>4. CASE Arrive(r)
  <2>1. site \in disk \cup {LocalDir}
    BY <1>4, NamesAssumption
       DEF Arrive, IndInv, TypeOK, SiteInv, LoadingInv, Serving, Fresh, Roots
  <2>2. VersionIn(site) # NoVersion
    BY <2>1, NamesAssumption DEF VersionIn, NoVersion, IndInv, TypeOK
  <2>3. Owed(r) = NoVersion
    BY <1>4 DEF Arrive, Owed
  <2>4. Owed(r)' = VersionIn(site)
    BY <1>4, <2>1, NamesAssumption
       DEF Arrive, Owed, VersionIn, IndInv, TypeOK, worldVars
  <2>5. asked' = [asked EXCEPT ![r] = VersionIn(site)]
    BY <1>3, <2>4
  <2>6. Promise!Ask(r)
    BY <1>1, <2>2, <2>3, <2>5 DEF Promise!Ask
  <2> QED BY <2>6 DEF Promise!Next
<1>5. CASE OpenEntry(r)
  <2>1. rst[r] = "held" /\ rdir[r] \in disk \cup {LocalDir}
    BY <1>5 DEF OpenEntry, IndInv, HeldInv
  <2>2. Owed(r) \in 0 .. MaxTag
    BY <2>1, NamesAssumption, BoundsAssumption DEF Owed, VersionIn, IndInv, TypeOK
  <2>3. Owed(r)' = Sent
    BY <1>5, <2>1 DEF OpenEntry, Owed, IndInv, TypeOK
  <2>4. asked' = [asked EXCEPT ![r] = Sent]
    BY <1>3, <2>3
  <2>5. Promise!Answer(r)
    BY <1>1, <2>2, <2>4 DEF Promise!Answer
  <2> QED BY <2>5 DEF Promise!Next
<1>6. CASE Finish(r)
  <2>1. Owed(r) = Sent
    BY <1>6 DEF Finish, Owed, IndInv, NoContentUnavailable
  <2>2. Owed(r)' = NoVersion
    BY <1>6 DEF Finish, Owed, IndInv, TypeOK
  <2>3. asked' = [asked EXCEPT ![r] = NoVersion]
    BY <1>3, <2>2
  <2>4. Promise!Leave(r)
    BY <1>1, <2>1, <2>3 DEF Promise!Leave
  <2> QED BY <2>4 DEF Promise!Next
<1> QED BY <1>4, <1>5, <1>6 DEF RequestStep

(* Every step of the server is a step of the service or a stutter.         *)
LEMMA StepRefines ==
  ASSUME IndInv, AgeInv, [Next]_vars PROVE [Promise!Next]_(Promise!vars)
<1> DEFINE Unseen == /\ site' = site /\ ver' = ver /\ rst' = rst
                     /\ rdir' = rdir /\ disk' = disk
<1>1. ASSUME Unseen PROVE [Promise!Next]_(Promise!vars)
  <2>1. VersionIn(site)' = VersionIn(site)
    BY <1>1 DEF VersionIn
  <2>2. \A r \in Reqs : Owed(r)' = Owed(r)
    BY <1>1, HeldApart, OwedKept
  <2> QED BY <2>1, <2>2, Stutter
<1>2. ASSUME NEW copies, ExitLeaving(copies) PROVE [Promise!Next]_(Promise!vars)
  BY <1>2, ExitIsDown DEF Promise!Next
<1>3. CASE Crash \/ TakeErr \/ ShutdownEnd
  BY <1>2, <1>3 DEF Crash, TakeErr, ShutdownEnd
<1>4. CASE Start \/ TakeHup \/ TakeTerm \/ ShutdownBegin \/ UNCHANGED vars
  <2>1. Unseen
    BY <1>4 DEF Start, TakeHup, TakeTerm, ShutdownBegin, vars, procVars, worldVars
  <2> QED BY <1>1, <2>1
<1>5. CASE SendTerm \/ ListenerFails \/ MoveTag \/ Tick
  <2>1. Unseen
    BY <1>5 DEF SendTerm, ListenerFails, MoveTag, Tick, procVars, worldVars
  <2> QED BY <1>1, <2>1
<1>6. CASE SendHup
  <2>1. Unseen \/ ExitLeaving(disk)
    BY <1>6 DEF SendHup
  <2> QED BY <1>1, <1>2, <2>1
<1>7. CASE LoadStep
  BY <1>7, LoadRefines
<1>8. CASE \E d \in Dirs : RemoveOld(d)
  BY <1>8, RemoveRefines
<1>9. CASE \E r \in Reqs : RequestStep(r)
  BY <1>9, RequestRefines
<1> QED BY <1>3, <1>4, <1>5, <1>6, <1>7, <1>8, <1>9
        DEF Next, RunStep, EnvStep, Stopped

(* The server implements SiteService: a request is answered from the one   *)
(* version that was served when it came, and what is served never goes     *)
(* back (Server.Load, Handler.ServeHTTP).                                  *)
THEOREM Implements == Spec => ImplementsSiteService
<1>1. Init => Promise!Init
  <2> SUFFICES ASSUME Init PROVE Promise!Init
    OBVIOUS
  <2>1. VersionIn(site) = NoVersion
    BY DEF Init, NoProcess, VersionIn
  <2>2. \A r \in Reqs : Owed(r) = NoVersion
    BY DEF Init, NoProcess, Owed
  <2> QED BY <2>1, <2>2 DEF Promise!Init
<1>2. Init => AgeInv
  BY NamesAssumption, BoundsAssumption DEF Init, NoProcess, AgeInv, Fresh
<1>3. IndInv /\ AgeInv /\ [Next]_vars => AgeInv'
  BY AgeStep
<1>4. IndInv /\ AgeInv /\ [Next]_vars => [Promise!Next]_(Promise!vars)
  BY StepRefines
<1> QED BY <1>1, <1>2, <1>3, <1>4, Invariance, PTL
        DEF Spec, ImplementsSiteService, Promise!Spec
=============================================================================
