--------------------------- MODULE CommandsProofs ---------------------------
(***************************************************************************)
(* Proofs about the two commands that write to Cloudflare from a plan they *)
(* read first: edge-securitytxt (SecurityTxt), for every set of zones,     *)
(* documents and runs and every horizon, and edge-insights (Insights), for *)
(* every account, every page size and limit and any number of commands and *)
(* of changes behind their backs.                                          *)
(***************************************************************************)
EXTENDS SecurityTxt, Insights, WellFoundedInduction, TLAPS

-----------------------------------------------------------------------------
(* SecurityTxt.  DocumentAsReported and HeardInTime speak of a run that    *)
(* has ended; what carries them there is Knows: of every zone a run has    *)
(* read and nobody else has touched since, it knows what Cloudflare has.   *)

\* The blocks a run may want, and the shape of its record.
Wishes == Docs("file", {TRUE})

RunRecords ==
  [pc : {"idle", "token", "read", "write", "done", "failed"},
   start : Nat, apply : BOOLEAN,
   want : UNION {[S -> Wishes] : S \in SUBSET Zones},
   live : UNION {[S -> Documents] : S \in SUBSET Zones},
   differs : SUBSET Zones, warned : SUBSET Zones,
   applied : SUBSET Zones, sent : SUBSET Zones]

\* How far the lists of a run are: all targets are read before the first write,
\* only what differs is written, and a run ends well when all of that is.
Phase(me) ==
  /\ DOMAIN me.live \subseteq DOMAIN me.want
  /\ me.differs \subseteq DOMAIN me.live
  /\ me.applied \subseteq me.differs
  /\ me.pc \in {"idle", "token"} => DOMAIN me.live = {} /\ me.sent = {}
  /\ me.pc = "token" => DOMAIN me.want # {}
  /\ me.pc = "read" => DOMAIN me.want \ DOMAIN me.live # {}
  /\ me.pc \in {"write", "done"} => DOMAIN me.live = DOMAIN me.want
  /\ me.pc = "done" /\ me.apply => me.differs = me.applied

\* No request is sent before every date has been checked, and the warnings are
\* those of that check.
Checked(me) ==
  /\ me.pc \in {"read", "write", "done"} \/ me.sent # {}
       => \A y \in DOMAIN me.want : ~Refused(me.want[y].at, me.start)
  /\ me.pc \in {"read", "write", "done"}
       => me.warned = {z \in DOMAIN me.want : Warns(me.want[z].at, me.start)}

\* What a run knows of the documents it has read and nobody has changed since.
Knows(me, docs, changed) ==
  \A z \in DOMAIN me.live \ changed :
    /\ z \notin me.differs => Same(docs[z], me.want[z])
    /\ z \in me.applied => docs[z] = [me.want[z] EXCEPT !.form = "api"]

TxtInv ==
  /\ TxtTypeOK
  /\ run \in [Runs -> RunRecords]
  /\ \A r \in Runs : Phase(run[r]) /\ Checked(run[r])
  /\ \A r \in Runs : Knows(run[r], live, touched[r])

-----------------------------------------------------------------------------
(* The operators of the model. *)

(* FirstZone picks a zone out of any zones there are: names are numbers.   *)
LEMMA FirstIsOne ==
  ASSUME NEW zs \in SUBSET Zones, zs # {}
  PROVE  FirstZone(zs) \in zs
<1>1. zs \subseteq Nat
  BY HorizonAssumption
<1>2. PICK z \in zs : \A y \in zs : <<y, z>> \notin OpToRel(<, Nat)
  BY <1>1, NatLessThanWellFounded, WFMin
<1>3. \A y \in zs : z <= y
  <2>1. OpToRel(<, Nat) = {ss \in Nat \X Nat : ss[1] < ss[2]}
    BY DEF OpToRel
  <2>2. SUFFICES ASSUME NEW y \in zs, y < z PROVE FALSE
    BY <1>1
  <2>3. <<y, z>> \in OpToRel(<, Nat)
    BY <1>1, <2>1, <2>2
  <2> QED BY <1>2, <2>3
<1> QED BY <1>2, <1>3 DEF FirstZone

LEMMA EmptyFunction == ASSUME NEW V PROVE <<>> \in [{} -> V] /\ DOMAIN <<>> = {}
OBVIOUS

(* Two documents that Same finds equal say the same.                       *)
LEMMA SameSays ==
  ASSUME NEW a \in Documents, NEW b \in Wishes, Same(a, b)
  PROVE  Says(a, b) /\ a.at = b.at
BY DEF Wishes, Documents, Docs, None, Same, Says

(* And so do a block and what Cloudflare keeps of it.                      *)
LEMMA KeptSays ==
  ASSUME NEW b \in Wishes
  PROVE  LET kept == [b EXCEPT !.form = "api"]
         IN  kept \in Documents /\ Says(kept, b) /\ kept.at = b.at
BY DEF Wishes, Documents, Docs, None, Says

(* The functions in a run's record, by their own domains.                  *)
LEMMA RunFunctions ==
  ASSUME NEW me \in RunRecords
  PROVE  /\ DOMAIN me.want \in SUBSET Zones /\ DOMAIN me.live \in SUBSET Zones
         /\ me.want \in [DOMAIN me.want -> Wishes]
         /\ me.live \in [DOMAIN me.live -> Documents]
<1>1. /\ me.want \in UNION {[S -> Wishes] : S \in SUBSET Zones}
      /\ me.live \in UNION {[S -> Documents] : S \in SUBSET Zones}
  BY DEF RunRecords
<1> QED BY <1>1

(* Where a document is stored, a run that did not store it and does not    *)
(* count it as touched sees what it saw before.                            *)
LEMMA StoreElsewhere ==
  ASSUME TxtInv, NEW z \in Zones, NEW d, NEW movers, Store(z, d, movers),
         NEW r \in Runs \ movers
  PROVE  Knows(run[r], live', touched'[r])
<1>1. \A y \in Zones \ touched'[r] : y \notin touched[r] /\ live'[y] = live[y]
  BY DEF TxtInv, TxtTypeOK, Store
<1>2. DOMAIN run[r].live \in SUBSET Zones
  BY RunFunctions DEF TxtInv
<1>3. Knows(run[r], live, touched[r])
  BY DEF TxtInv
<1> QED BY <1>1, <1>2, <1>3 DEF Knows

(* What is to be shown of a step of one run.                               *)
LEMMA OneRunMoves ==
  ASSUME TxtInv, NEW r \in Runs, NEW me \in RunRecords,
         run' = [run EXCEPT ![r] = me],
         UNCHANGED <<now, file, edits>>,
         live' \in [Zones -> Documents], touched' \in [Runs -> SUBSET Zones],
         Phase(me), Checked(me), Knows(me, live', touched'[r]),
         \A q \in Runs \ {r} : Knows(run[q], live', touched'[q])
  PROVE  TxtInv'
<1>1. run' \in [Runs -> RunRecords] /\ run'[r] = me
      /\ \A q \in Runs \ {r} : run'[q] = run[q]
  BY DEF TxtInv
<1>2. \A q \in Runs : Phase(run'[q]) /\ Checked(run'[q])
  BY <1>1 DEF TxtInv
<1>3. \A q \in Runs : Knows(run'[q], live', touched'[q])
  BY <1>1
<1>4. TxtTypeOK'
  BY <1>1, <1>2 DEF TxtInv, TxtTypeOK, Phase, RunRecords
<1> QED BY <1>1, <1>2, <1>3, <1>4 DEF TxtInv
(* A run that has not started has its shape, and no targets.               *)
LEMMA FreshRun ==
  /\ NotStarted \in RunRecords /\ NotStarted.pc = "idle"
  /\ DOMAIN NotStarted.want = {} /\ DOMAIN NotStarted.live = {}
  /\ NotStarted.differs = {} /\ NotStarted.applied = {} /\ NotStarted.sent = {}
<1>1. <<>> \in UNION {[S -> Wishes] : S \in SUBSET Zones}
  BY EmptyFunction
<1>2. <<>> \in UNION {[S -> Documents] : S \in SUBSET Zones}
  BY EmptyFunction
<1> QED BY <1>1, <1>2, EmptyFunction DEF RunRecords, NotStarted

-----------------------------------------------------------------------------
(* The inductive invariant. *)

LEMMA TxtInitInv == TxtInit => TxtInv
<1> SUFFICES ASSUME TxtInit PROVE TxtInv
  OBVIOUS
<1> USE HorizonAssumption DEF TxtInit
<1>1. TxtTypeOK
  BY FreshRun DEF TxtTypeOK, Documents
<1>2. \A r \in Runs : /\ Phase(run[r]) /\ Checked(run[r])
                      /\ Knows(run[r], live, touched[r])
  BY FreshRun DEF Phase, Checked, Knows
<1> QED BY <1>1, <1>2, FreshRun DEF TxtInv

(* Days pass and the file is edited: no run notices.                       *)
LEMMA OutsideInv ==
  ASSUME TxtInv,
         \/ Day
         \/ \E z \in Zones : \E d \in Blocks : EditFile(z, d)
  PROVE  TxtInv'
<1>1. TxtTypeOK'
  BY HorizonAssumption DEF TxtInv, TxtTypeOK, Day, EditFile
<1>2. UNCHANGED <<run, live, touched>>
  BY DEF Day, EditFile
<1> QED BY <1>1, <1>2 DEF TxtInv

(* A document changes in the dashboard: every run has it touched.          *)
LEMMA EditLiveInv ==
  ASSUME TxtInv, NEW z \in Zones, NEW d \in Documents, EditLive(z, d)
  PROVE  TxtInv'
<1>1. TxtTypeOK'
  BY HorizonAssumption DEF TxtInv, TxtTypeOK, EditLive, Store
<1>2. run' = run
  BY DEF EditLive
<1>3. \A r \in Runs : Knows(run[r], live', touched'[r])
  BY StoreElsewhere DEF EditLive
<1> QED BY <1>1, <1>2, <1>3 DEF TxtInv

(* StartRun: the run takes what it wants from the file.                    *)
LEMMA StartRunInv ==
  ASSUME TxtInv, NEW r \in Runs, NEW zones \in SUBSET Zones, NEW accounts,
         NEW apply \in BOOLEAN, StartRun(r, zones, accounts, apply)
  PROVE  TxtInv'
<1> DEFINE ts   == Targets(zones, accounts)
           first == IF ts = {} THEN "failed" ELSE "token"
           want == [z \in ts |-> file[z]]
           me   == [NotStarted EXCEPT !.pc = first, !.start = now, !.apply = apply,
                                      !.want = want]
<1>1. run' = [run EXCEPT ![r] = me] /\ UNCHANGED <<now, file, live, edits, touched>>
  BY DEF StartRun
<1>2. ts \in SUBSET Zones /\ DOMAIN want = ts /\ want \in [ts -> Wishes]
  BY DEF TxtInv, Targets, TxtTypeOK, Blocks, Wishes
<1>3. want \in UNION {[S -> Wishes] : S \in SUBSET Zones}
  BY <1>2
<1>4. now \in Nat
  BY HorizonAssumption DEF TxtInv, TxtTypeOK
<1>5. first \in {"token", "failed"} /\ (first = "token" => ts # {})
  OBVIOUS
<1> HIDE DEF first, want
<1>6. me \in RunRecords
  BY <1>3, <1>4, <1>5, FreshRun DEF RunRecords
<1>7. /\ me.pc = first /\ me.want = want /\ me.live = NotStarted.live
      /\ me.differs = {} /\ me.applied = {} /\ me.sent = {}
  BY FreshRun DEF RunRecords
<1> HIDE DEF me
<1>8. Phase(me) /\ Checked(me) /\ Knows(me, live, touched[r])
  BY <1>2, <1>5, <1>7, FreshRun DEF Phase, Checked, Knows
<1> QED BY <1>1, <1>6, <1>8, OneRunMoves DEF TxtInv, TxtTypeOK

(* TxtFail: a run that failed reports nothing.                             *)
LEMMA TxtFailInv ==
  ASSUME TxtInv, NEW r \in Runs, TxtFail(r), UNCHANGED <<now, file, live, edits, touched>>
  PROVE  TxtInv'
<1> DEFINE me == [run[r] EXCEPT !.pc = "failed"]
<1>1. run' = [run EXCEPT ![r] = me]
  BY DEF TxtFail
<1>2. me \in RunRecords
  BY DEF TxtInv, RunRecords
<1>3. Phase(me) /\ Checked(me) /\ Knows(me, live, touched[r])
  BY DEF TxtInv, RunRecords, Phase, Checked, Knows
<1> HIDE DEF me
<1> QED BY <1>1, <1>2, <1>3, OneRunMoves DEF TxtInv, TxtTypeOK

(* Token: the dates are checked, or the helper fails.                      *)
LEMMA TokenInv ==
  ASSUME TxtInv, NEW r \in Runs, Token(r)
  PROVE  TxtInv'
<1> DEFINE ts == DOMAIN run[r].want
           me == [run[r] EXCEPT !.pc = "read",
                    !.warned = {z \in ts : Warns(run[r].want[z].at, run[r].start)}]
<1>1. CASE TxtFail(r)
  BY <1>1, TxtFailInv DEF Token
<1>2. CASE ~TxtFail(r)
  <2>1. /\ run' = [run EXCEPT ![r] = me] /\ run[r].pc = "token"
        /\ \A z \in ts : ~Refused(run[r].want[z].at, run[r].start)
        /\ UNCHANGED <<now, file, live, edits, touched>>
    BY <1>2 DEF Token, CheckAll
  <2>2. me \in RunRecords
    <3>1. run[r] \in RunRecords
      BY DEF TxtInv
    <3>2. ts \in SUBSET Zones
      BY <3>1, RunFunctions
    <3> DEFINE w == {z \in ts : Warns(run[r].want[z].at, run[r].start)}
    <3>3. w \in SUBSET Zones
      BY <3>2
    <3> HIDE DEF w
    <3>4. [run[r] EXCEPT !.pc = "read", !.warned = w] \in RunRecords
      BY <3>1, <3>3 DEF RunRecords
    <3> QED BY <3>4 DEF w
  <2>3. Phase(me) /\ Checked(me) /\ Knows(me, live, touched[r])
    BY <2>1 DEF TxtInv, RunRecords, Phase, Checked, Knows
  <2> HIDE DEF me
  <2> QED BY <2>1, <2>2, <2>3, OneRunMoves DEF TxtInv, TxtTypeOK
<1> QED BY <1>1, <1>2

(* Read: the run learns what Cloudflare has of one more zone.              *)
LEMMA ReadInv ==
  ASSUME TxtInv, NEW r \in Runs, Read(r)
  PROVE  TxtInv'
<1> DEFINE old  == run[r]
           left == DOMAIN old.want \ DOMAIN old.live
           z    == FirstZone(left)
           got  == [y \in {z} \cup DOMAIN old.live |->
                      IF y = z THEN live[z] ELSE old.live[y]]
           me   == [old EXCEPT
                      !.live = got,
                      !.differs = IF Same(live[z], old.want[z]) THEN @ ELSE @ \cup {z},
                      !.pc = IF left # {z} THEN "read"
                             ELSE IF old.apply THEN "write" ELSE "done"]
<1>1. CASE TxtFail(r) /\ UNCHANGED touched
  BY <1>1, TxtFailInv DEF Read
<1>2. CASE ~(TxtFail(r) /\ UNCHANGED touched)
  <2>1. /\ old.pc = "read"
        /\ run' = [run EXCEPT ![r] = me]
        /\ touched' = [touched EXCEPT ![r] = @ \ {z}]
        /\ UNCHANGED <<now, file, live, edits>>
    BY <1>2 DEF Read
  <2>2. /\ old \in RunRecords /\ Phase(old) /\ Checked(old) /\ Knows(old, live, touched[r])
        /\ live \in [Zones -> Documents] /\ touched \in [Runs -> SUBSET Zones]
    BY DEF TxtInv, TxtTypeOK
  <2>3. z \in left /\ left \in SUBSET Zones
    BY <2>1, <2>2, RunFunctions, FirstIsOne DEF Phase
  <2>4. /\ old.live \in [DOMAIN old.live -> Documents]
        /\ DOMAIN old.live \in SUBSET Zones
    BY <2>2, RunFunctions
  <2> HIDE DEF z
  <2>5. /\ got \in [{z} \cup DOMAIN old.live -> Documents]
        /\ {z} \cup DOMAIN old.live \in SUBSET Zones
    BY <2>2, <2>3, <2>4
  <2>6. got \in UNION {[S -> Documents] : S \in SUBSET Zones} /\ DOMAIN got = {z} \cup DOMAIN old.live
    BY <2>5
  <2> HIDE DEF got
  <2>7. me \in RunRecords
    <3> DEFINE d == IF Same(live[z], old.want[z]) THEN old.differs ELSE old.differs \cup {z}
               p == IF left # {z} THEN "read" ELSE IF old.apply THEN "write" ELSE "done"
    <3>1. d \in SUBSET Zones
      BY <2>2, <2>3 DEF RunRecords
    <3>2. p \in {"read", "write", "done"}
      OBVIOUS
    <3>3. me = [old EXCEPT !.live = got, !.differs = d, !.pc = p]
      BY Zenon
    <3> HIDE DEF d, p, left
    <3>4. [old EXCEPT !.live = got, !.differs = d, !.pc = p] \in RunRecords
      BY <2>2, <2>6, <3>1, <3>2 DEF RunRecords
    <3> QED BY <3>3, <3>4
  <2>8. Phase(me)
    BY <2>1, <2>2, <2>3, <2>6 DEF RunRecords, Phase
  <2>9. Checked(me)
    BY <2>1, <2>2 DEF RunRecords, Checked
  <2>10. Knows(me, live, touched'[r])
    BY <2>1, <2>2, <2>3, <2>6 DEF RunRecords, Knows, Phase
  <2>11. \A q \in Runs \ {r} : Knows(run[q], live', touched'[q])
    BY <2>1 DEF TxtInv, TxtTypeOK
  <2>12. live' \in [Zones -> Documents] /\ touched' \in [Runs -> SUBSET Zones] /\ live' = live
    BY <2>1, <2>2
  <2> HIDE DEF me
  <2> QED BY <2>1, <2>7, <2>8, <2>9, <2>10, <2>11, <2>12, OneRunMoves
<1> QED BY <1>1, <1>2

(* Write: one more zone has what the run wants, or the run ends.           *)
LEMMA WriteInv ==
  ASSUME TxtInv, NEW r \in Runs, Write(r)
  PROVE  TxtInv'
<1> DEFINE old  == run[r]
           left == old.differs \ old.applied
           z    == FirstZone(left)
           kept == [old.want[z] EXCEPT !.form = "api"]
           on   == [old EXCEPT !.applied = @ \cup {z}, !.sent = @ \cup {z}]
           off  == [old EXCEPT !.pc = "failed", !.sent = @ \cup {z}]
<1>1. /\ old.pc = "write" /\ left # {}
      /\ \/ run' = [run EXCEPT ![r] = on] /\ Store(z, kept, {r})
         \/ run' = [run EXCEPT ![r] = off] /\ Store(z, kept, {r})
         \/ run' = [run EXCEPT ![r] = off] /\ UNCHANGED <<live, touched>>
      /\ UNCHANGED <<now, file, edits>>
  BY DEF Write, Stop
<1>2. /\ old \in RunRecords /\ Phase(old) /\ Checked(old) /\ Knows(old, live, touched[r])
      /\ live \in [Zones -> Documents] /\ touched \in [Runs -> SUBSET Zones]
  BY DEF TxtInv, TxtTypeOK
<1>3. z \in left /\ z \in Zones /\ z \in DOMAIN old.want
  <2>1. left \in SUBSET Zones /\ left \subseteq DOMAIN old.want
    BY <1>2 DEF RunRecords, Phase
  <2> QED BY <1>1, <2>1, FirstIsOne
<1>4. kept \in Documents
  BY <1>2, <1>3, RunFunctions, KeptSays
<1> HIDE DEF z
<1>5. on \in RunRecords /\ off \in RunRecords
  BY <1>2, <1>3 DEF RunRecords
<1>6. Phase(on) /\ Phase(off) /\ Checked(on) /\ Checked(off)
  BY <1>1, <1>2, <1>3 DEF RunRecords, Phase, Checked
<1>7. CASE Store(z, kept, {r})
  <2>1. /\ live' \in [Zones -> Documents] /\ touched' \in [Runs -> SUBSET Zones]
        /\ live'[z] = kept /\ touched'[r] = touched[r] \ {z}
        /\ \A y \in Zones \ {z} : live'[y] = live[y]
    BY <1>2, <1>3, <1>4, <1>7 DEF Store
  <2>2. \A q \in Runs \ {r} : Knows(run[q], live', touched'[q])
    BY <1>3, <1>7, StoreElsewhere
  <2>3. DOMAIN old.live \in SUBSET Zones
    BY <1>2, RunFunctions
  <2>4. Knows(on, live', touched'[r]) /\ Knows(off, live', touched'[r])
    BY <1>2, <1>3, <2>1, <2>3 DEF RunRecords, Knows
  <2> HIDE DEF on, off
  <2> QED BY <1>1, <1>5, <1>6, <1>7, <2>1, <2>2, <2>4, OneRunMoves
<1>8. CASE run' = [run EXCEPT ![r] = off] /\ UNCHANGED <<live, touched>>
  <2>1. Knows(off, live, touched[r])
    BY <1>2 DEF RunRecords, Knows
  <2>2. \A q \in Runs \ {r} : Knows(run[q], live', touched'[q])
    BY <1>8 DEF TxtInv
  <2> HIDE DEF off
  <2> QED BY <1>1, <1>2, <1>5, <1>6, <1>8, <2>1, <2>2, OneRunMoves
<1> QED BY <1>1, <1>7, <1>8

(* Report: nothing is left to write.                                       *)
LEMMA ReportInv ==
  ASSUME TxtInv, NEW r \in Runs, Report(r)
  PROVE  TxtInv'
<1> DEFINE me == [run[r] EXCEPT !.pc = "done"]
<1>1. /\ run[r].pc = "write" /\ run[r].differs = run[r].applied
      /\ run' = [run EXCEPT ![r] = me]
      /\ UNCHANGED <<now, file, live, edits, touched>>
  BY DEF Report
<1>2. me \in RunRecords
  BY SMTT(30) DEF TxtInv, RunRecords
<1>3. Phase(me) /\ Checked(me) /\ Knows(me, live, touched[r])
  BY <1>1 DEF TxtInv, RunRecords, Phase, Checked, Knows
<1> HIDE DEF me
<1> QED BY <1>1, <1>2, <1>3, OneRunMoves DEF TxtInv, TxtTypeOK

LEMMA TxtNextInv == TxtInv /\ [TxtNext]_txtVars => TxtInv'
<1> SUFFICES ASSUME TxtInv, [TxtNext]_txtVars PROVE TxtInv'
  OBVIOUS
<1>1. CASE Day \/ \E z \in Zones : \E d \in Blocks : EditFile(z, d)
  BY <1>1, OutsideInv
<1>2. CASE \E z \in Zones \ Pending : \E d \in Documents : EditLive(z, d)
  BY <1>2, EditLiveInv
<1>3. CASE \E r \in Runs : Command(r)
  <2>1. PICK r \in Runs : Command(r)
    BY <1>3
  <2>2. \A z \in Zones : {z} \in SUBSET Zones
    OBVIOUS
  <2> QED BY <2>1, <2>2, StartRunInv, TokenInv, ReadInv, WriteInv, ReportInv DEF Command
<1>4. CASE UNCHANGED txtVars
  BY <1>4 DEF txtVars, TxtInv, TxtTypeOK
<1> QED BY <1>1, <1>2, <1>3, <1>4 DEF TxtNext

-----------------------------------------------------------------------------
(* The theorems. *)

(* The type invariant of the command and of Cloudflare's documents.        *)
THEOREM TxtTypeCorrect == TxtSpec => []TxtTypeOK
<1>1. TxtInv => TxtTypeOK
  BY DEF TxtInv
<1> QED BY <1>1, TxtInitInv, TxtNextInv, PTL DEF TxtSpec

(* A run that ends without an error tells the truth: each zone it calls    *)
(* written or unchanged has the declared document, unless someone else     *)
(* changed it after the run's last request (Plan, Apply, printChanges).    *)
THEOREM TruthfulDocuments == TxtSpec => []DocumentAsReported
<1>1. TxtInv => DocumentAsReported
  <2> SUFFICES ASSUME TxtInv, NEW r \in Runs, NEW z \in Zones,
                      Reported(r, z), z \notin touched[r]
               PROVE  Says(live[z], run[r].want[z])
    BY DEF DocumentAsReported
  <2> DEFINE me == run[r]
  <2>1. /\ me \in RunRecords /\ Phase(me) /\ Knows(me, live, touched[r])
        /\ live[z] \in Documents
    BY DEF TxtInv, TxtTypeOK
  <2>2. z \in DOMAIN me.live /\ me.want[z] \in Wishes
    BY <2>1, RunFunctions DEF Reported, Phase
  <2>3. \/ Same(live[z], me.want[z])
        \/ live[z] = [me.want[z] EXCEPT !.form = "api"]
    BY <2>1, <2>2 DEF Reported, Phase, Knows
  <2> QED BY <2>1, <2>2, <2>3, SameSays, KeptSays
<1> QED BY <1>1, TxtInitInv, TxtNextInv, PTL DEF TxtSpec

(* A zone a run reports without a warning outlives the run by WarnWithin,  *)
(* and nothing is sent for any zone when one date is refused               *)
(* (CheckExpires; Plan's "nothing is read until all pass").                *)
THEOREM WarnedInTime == TxtSpec => []HeardInTime
<1>1. TxtInv => HeardInTime
  <2> SUFFICES ASSUME TxtInv, NEW r \in Runs, NEW z \in Zones
      PROVE /\ Reported(r, z) /\ z \notin touched[r] /\ z \notin run[r].warned
                 => live[z].at > run[r].start + WarnWithin
            /\ z \in run[r].sent \/ Reported(r, z)
                 => \A y \in DOMAIN run[r].want : ~Refused(run[r].want[y].at, run[r].start)
    BY DEF HeardInTime
  <2> DEFINE me == run[r]
  <2>1. /\ me \in RunRecords /\ Phase(me) /\ Checked(me) /\ Knows(me, live, touched[r])
        /\ live[z] \in Documents
    BY DEF TxtInv, TxtTypeOK
  <2>2. ASSUME Reported(r, z), z \notin touched[r], z \notin me.warned
        PROVE  live[z].at > me.start + WarnWithin
    <3>1. z \in DOMAIN me.live /\ me.want[z] \in Wishes
      BY <2>1, <2>2, RunFunctions DEF Reported, Phase
    <3>2. live[z].at = me.want[z].at
      <4>1. \/ Same(live[z], me.want[z])
            \/ live[z] = [me.want[z] EXCEPT !.form = "api"]
        BY <2>1, <2>2, <3>1 DEF Reported, Phase, Knows
      <4> QED BY <2>1, <3>1, <4>1, SameSays, KeptSays
    <3>3. ~Warns(me.want[z].at, me.start)
      BY <2>1, <2>2 DEF Reported, Checked
    <3>4. me.want[z].at \in Nat /\ me.start \in Nat
      BY <2>1, <3>1, HorizonAssumption DEF RunRecords, Wishes, Docs
    <3> QED BY <3>2, <3>3, <3>4, HorizonAssumption DEF Warns
  <2>3. ASSUME z \in me.sent \/ Reported(r, z)
        PROVE  \A y \in DOMAIN me.want : ~Refused(me.want[y].at, me.start)
    BY <2>1, <2>3 DEF Reported, Checked
  <2> QED BY <2>2, <2>3
<1> QED BY <1>1, TxtInitInv, TxtNextInv, PTL DEF TxtSpec

-----------------------------------------------------------------------------
(* Insights.  A page is cut by position, so the argument is about          *)
(* positions: an insight that is still to come stands behind the pages     *)
(* already read (Ahead), because whatever does not remove a match from the *)
(* list only moves the others back (Embeds).                               *)

-----------------------------------------------------------------------------
(* Induction, on a set of numbers and on those up to a bound.              *)

LEMMA Steps ==
  ASSUME NEW I \in SUBSET Nat, 0 \in I, \A n \in I : n + 1 \in I
  PROVE  I = Nat
<1> SUFFICES ASSUME NEW m \in Nat \ I PROVE FALSE
  OBVIOUS
<1>1. PICK n \in Nat \ I : \A y \in Nat \ I : <<y, n>> \notin OpToRel(<, Nat)
  BY NatLessThanWellFounded, WFMin
<1>2. n - 1 \in Nat /\ n - 1 < n /\ (n - 1) + 1 = n
  <2>1. n \in Nat /\ n # 0
    BY ONLY <1>1, 0 \in I
  <2> QED BY ONLY <2>1
<1>3. n - 1 \notin I
  BY <1>1, <1>2
<1>4. <<n - 1, n>> \in OpToRel(<, Nat)
  BY <1>1, <1>2 DEF OpToRel
<1> QED BY <1>1, <1>2, <1>3, <1>4

LEMMA StepsTo ==
  ASSUME NEW m \in Nat, NEW I \in SUBSET (0 .. m),
         0 \in I, \A n \in 1 .. m : n - 1 \in I => n \in I
  PROVE  \A n \in 0 .. m : n \in I
<1> DEFINE J == {n \in Nat : n <= m => n \in I}
<1>1. 0 \in J
  OBVIOUS
<1>2. ASSUME NEW n \in J PROVE n + 1 \in J
  <2>1. CASE n + 1 > m
    BY <2>1
  <2>2. CASE n + 1 <= m
    <3>1. n \in I /\ n + 1 \in 1 .. m /\ (n + 1) - 1 = n
      BY <2>2
    <3>2. n + 1 \in I
      BY <3>1
    <3> QED BY <3>2
  <2> QED BY <2>1, <2>2
<1>3. J = Nat
  <2> HIDE DEF J
  <2>1. J \in SUBSET Nat
    BY DEF J
  <2> QED BY <1>1, <1>2, <2>1, Steps
<1> QED BY <1>3

-----------------------------------------------------------------------------
(* The listing.                                                            *)

Body(list, S, f) ==
  [n \in 0 .. Len(list) |->
     IF n = 0 THEN << >>
     ELSE IF list[n] \in S THEN Append(f[n - 1], list[n]) ELSE f[n - 1]]

LEMMA UptoIs == ASSUME NEW list, NEW S PROVE Upto(list, S) = CHOOSE f : f = Body(list, S, f)
BY DEF Upto, Body

(* The recursion has a solution.                                           *)
LEMMA UptoExists ==
  ASSUME NEW T, NEW list \in Seq(T), NEW S
  PROVE  Upto(list, S) = Body(list, S, Upto(list, S))
<1> DEFINE R(f, n) == f[n] = IF n = 0 THEN << >>
                             ELSE IF list[n] \in S THEN Append(f[n - 1], list[n]) ELSE f[n - 1]
           Solves(f, m) == \A n \in 0 .. m : R(f, n)
           I == {m \in 0 .. Len(list) : \E f : Solves(f, m)}
<1>0. Len(list) \in Nat
  OBVIOUS
<1>1. 0 \in I
  <2>1. Solves([n \in {0} |-> << >>], 0)
    OBVIOUS
  <2>2. 0 \in 0 .. Len(list)
    BY <1>0
  <2> HIDE DEF Solves
  <2> QED BY <2>1, <2>2
<1>2. ASSUME NEW m \in 1 .. Len(list), m - 1 \in I PROVE m \in I
  <2>1. PICK f : Solves(f, m - 1)
    BY <1>2
  <2> DEFINE g == [n \in 0 .. m |->
                     IF n = 0 THEN << >>
                     ELSE IF list[n] \in S THEN Append(f[n - 1], list[n]) ELSE f[n - 1]]
  <2>2. \A n \in 0 .. m : g[n] = IF n = 0 THEN << >>
                     ELSE IF list[n] \in S THEN Append(f[n - 1], list[n]) ELSE f[n - 1]
    OBVIOUS
  <2> HIDE DEF g
  <2>3. \A n \in 0 .. m - 1 : g[n] = f[n]
    BY <2>1, <2>2
  <2>4. \A n \in 0 .. m : n # 0 => n - 1 \in 0 .. m - 1
    OBVIOUS
  <2>5. ASSUME NEW n \in 0 .. m PROVE R(g, n)
    BY <2>2, <2>3, <2>4
  <2>6. Solves(g, m)
    BY <2>5
  <2> HIDE DEF Solves
  <2> QED BY <2>6
<1>3. Len(list) \in I
  <2>1. I \in SUBSET (0 .. Len(list))
    OBVIOUS
  <2> HIDE DEF I
  <2>2. \A n \in 0 .. Len(list) : n \in I
    BY ONLY <1>0, <1>1, <1>2, <2>1, StepsTo
  <2> QED BY <1>0, <2>2
<1>4. PICK f : Solves(f, Len(list))
  BY <1>3
<1> DEFINE h == [n \in 0 .. Len(list) |-> f[n]]
<1>5. h = Body(list, S, h)
  <2>1. \A n \in 0 .. Len(list) : h[n] = f[n]
    OBVIOUS
  <2> HIDE DEF h
  <2>2. \A n \in 0 .. Len(list) : R(h, n)
    BY <1>4, <2>1
  <2>3. Body(list, S, h) = [n \in 0 .. Len(list) |-> h[n]]
    BY <2>2 DEF Body
  <2> QED BY <2>1, <2>3 DEF h
<1> HIDE DEF h
<1> QED BY <1>5, UptoIs, Zenon

LEMMA UptoFacts ==
  ASSUME NEW T, NEW list \in Seq(T), NEW S
  PROVE  LET U == Upto(list, S)
         IN  /\ U[0] = << >>
             /\ \A n \in 1 .. Len(list) :
                  U[n] = IF list[n] \in S THEN Append(U[n - 1], list[n]) ELSE U[n - 1]
             /\ \A n \in 0 .. Len(list) : U[n] \in Seq(T)
<1> DEFINE U == Upto(list, S)
           I == {n \in 0 .. Len(list) : U[n] \in Seq(T)}
<1>0. Len(list) \in Nat
  OBVIOUS
<1>1. U = Body(list, S, U)
  BY UptoExists
<1> HIDE DEF U
<1>2. \A n \in 0 .. Len(list) :
        Body(list, S, U)[n] = IF n = 0 THEN << >>
                 ELSE IF list[n] \in S THEN Append(U[n - 1], list[n]) ELSE U[n - 1]
  BY DEF Body
<1>3. U[0] = << >>
  BY <1>0, <1>1, <1>2
<1>4. \A n \in 1 .. Len(list) :
        U[n] = IF list[n] \in S THEN Append(U[n - 1], list[n]) ELSE U[n - 1]
  BY <1>0, <1>1, <1>2
<1>5. \A n \in 0 .. Len(list) : n \in I
  <2>1. 0 \in I
    <3>1. << >> \in Seq(T) /\ 0 \in 0 .. Len(list)
      BY <1>0
    <3> QED BY <1>3, <3>1, Zenon
  <2>2. ASSUME NEW n \in 1 .. Len(list), n - 1 \in I PROVE n \in I
    <3>1. list[n] \in T /\ U[n - 1] \in Seq(T) /\ n \in 0 .. Len(list)
      BY <2>2
    <3>2. U[n] \in Seq(T)
      <4>1. Append(U[n - 1], list[n]) \in Seq(T)
        BY <3>1
      <4> QED BY <1>4, <3>1, <4>1, Zenon
    <3> QED BY <3>1, <3>2
  <2>3. I \in SUBSET (0 .. Len(list))
    OBVIOUS
  <2> HIDE DEF I
  <2> QED BY ONLY <1>0, <2>1, <2>2, <2>3, StepsTo
<1> QED BY <1>3, <1>4, <1>5 DEF U

(* One more member of the list.                                            *)
Adds(was, next, x, S) ==
  /\ x \in S => Len(next) = Len(was) + 1 /\ next[Len(next)] = x
  /\ x \notin S => next = was
  /\ \A k \in 1 .. Len(was) : next[k] = was[k]

LEMMA UptoStep ==
  ASSUME NEW T, NEW list \in Seq(T), NEW S, NEW n \in 1 .. Len(list)
  PROVE  Adds(Upto(list, S)[n - 1], Upto(list, S)[n], list[n], S)
<1> DEFINE next == Upto(list, S)[n]
           was == Upto(list, S)[n - 1]
<1>1. next \in Seq(T) /\ was \in Seq(T) /\ list[n] \in T
  BY UptoFacts
<1>2. next = IF list[n] \in S THEN Append(was, list[n]) ELSE was
  BY UptoFacts
<1> HIDE DEF next, was
<1>3. Adds(was, next, list[n], S)
  BY <1>1, <1>2 DEF Adds
<1> QED BY <1>3 DEF next, was

(* What was listed stays where it was.                                     *)
LEMMA UptoGrows ==
  ASSUME NEW T, NEW list \in Seq(T), NEW S, NEW m \in 0 .. Len(list), NEW n \in m .. Len(list)
  PROVE  /\ Len(Upto(list, S)[m]) <= Len(Upto(list, S)[n])
         /\ \A k \in 1 .. Len(Upto(list, S)[m]) : Upto(list, S)[n][k] = Upto(list, S)[m][k]
<1> DEFINE U == Upto(list, S)
           P(i) == /\ Len(U[m]) <= Len(U[i])
                   /\ \A k \in 1 .. Len(U[m]) : U[i][k] = U[m][k]
           I == {i \in 0 .. Len(list) : i < m \/ P(i)}
<1>0. Len(list) \in Nat /\ m \in Nat
  OBVIOUS
<1>1. \A i \in 0 .. Len(list) : U[i] \in Seq(T)
  BY UptoFacts
<1>2. \A i \in 1 .. Len(list) :
        Len(U[i - 1]) <= Len(U[i]) /\ \A k \in 1 .. Len(U[i - 1]) : U[i][k] = U[i - 1][k]
  <2> SUFFICES ASSUME NEW i \in 1 .. Len(list)
               PROVE  Len(U[i - 1]) <= Len(U[i]) /\ \A k \in 1 .. Len(U[i - 1]) : U[i][k] = U[i - 1][k]
    OBVIOUS
  <2>1. Len(U[i - 1]) \in Nat /\ Len(U[i]) \in Nat
    BY <1>0, <1>1
  <2>2. /\ list[i] \in S => Len(U[i]) = Len(U[i - 1]) + 1
        /\ list[i] \notin S => U[i] = U[i - 1]
        /\ \A k \in 1 .. Len(U[i - 1]) : U[i][k] = U[i - 1][k]
    <3>1. Adds(U[i - 1], U[i], list[i], S)
      BY UptoStep
    <3> HIDE DEF U
    <3> QED BY <3>1 DEF Adds
  <2> HIDE DEF U
  <2> QED BY <2>1, <2>2
<1> HIDE DEF U
<1>3. P(m)
  BY <1>1
<1>4. 0 \in I
  BY <1>0, <1>3
<1>5. ASSUME NEW i \in 1 .. Len(list), i - 1 \in I PROVE i \in I
  <2>1. CASE i < m
    BY <2>1
  <2>2. CASE i = m
    BY <1>3, <2>2
  <2>3. CASE i > m
    <3>1. P(i - 1)
      BY <1>0, <1>5, <2>3
    <3>2. Len(U[i - 1]) \in Nat /\ Len(U[i]) \in Nat /\ Len(U[m]) \in Nat
      BY <1>0, <1>1
    <3>3. P(i)
      <4>1. /\ Len(U[i - 1]) <= Len(U[i])
            /\ \A k \in 1 .. Len(U[i - 1]) : U[i][k] = U[i - 1][k]
        BY ONLY <1>2, i \in 1 .. Len(list)
      <4>2. ASSUME NEW k \in 1 .. Len(U[m]) PROVE U[i][k] = U[m][k]
        <5>1. k \in 1 .. Len(U[i - 1]) /\ U[i - 1][k] = U[m][k]
          BY ONLY <3>1, <3>2, k \in 1 .. Len(U[m])
        <5> QED BY ONLY <4>1, <5>1
      <4>3. Len(U[m]) <= Len(U[i])
        BY ONLY <3>1, <3>2, <4>1
      <4> QED BY <4>2, <4>3
    <3> QED BY <3>3
  <2> QED BY <1>0, <2>1, <2>2, <2>3
<1>6. \A i \in 0 .. Len(list) : i \in I
  <2>1. I \in SUBSET (0 .. Len(list))
    OBVIOUS
  <2> HIDE DEF I
  <2> QED BY ONLY <1>0, <1>4, <1>5, <2>1, StepsTo
<1>7. n \in I /\ ~(n < m)
  BY <1>0, <1>6
<1>8. P(n)
  BY <1>7
<1> QED BY <1>8 DEF U

(* The place of a member in the listing, and the member at a place.        *)
LEMMA OnlyFacts ==
  ASSUME NEW T, NEW list \in Seq(T), NEW S
  PROVE  /\ Only(list, S) \in Seq(T)
         /\ \A n \in 1 .. Len(list) : list[n] \in S =>
              /\ Len(Upto(list, S)[n]) \in 1 .. Len(Only(list, S))
              /\ Only(list, S)[Len(Upto(list, S)[n])] = list[n]
         /\ \A k \in 1 .. Len(Only(list, S)) : \E n \in 1 .. Len(list) :
              list[n] \in S /\ Len(Upto(list, S)[n]) = k /\ Only(list, S)[k] = list[n]
<1> DEFINE U == Upto(list, S)
           O == Only(list, S)
           P(i) == \A k \in 1 .. Len(U[i]) : \E n \in 1 .. i :
                     list[n] \in S /\ Len(U[n]) = k /\ U[i][k] = list[n]
           I == {i \in 0 .. Len(list) : P(i)}
<1>0. Len(list) \in Nat
  OBVIOUS
<1>1. \A i \in 0 .. Len(list) : U[i] \in Seq(T)
  BY UptoFacts
<1>2. O = U[Len(list)]
  BY DEF Only
<1>3. U[0] = << >>
  BY UptoFacts
<1>4. \A n \in 1 .. Len(list) :
        /\ list[n] \in S => Len(U[n]) = Len(U[n - 1]) + 1 /\ U[n][Len(U[n])] = list[n]
        /\ list[n] \notin S => U[n] = U[n - 1]
        /\ \A k \in 1 .. Len(U[n - 1]) : U[n][k] = U[n - 1][k]
  <2>1. \A n \in 1 .. Len(list) : Adds(U[n - 1], U[n], list[n], S)
    BY UptoStep
  <2> HIDE DEF U
  <2> QED BY <2>1 DEF Adds
<1>5. ASSUME NEW n \in 1 .. Len(list)
      PROVE  /\ Len(U[n]) <= Len(O)
             /\ \A k \in 1 .. Len(U[n]) : O[k] = U[n][k]
  <2>1. n \in 0 .. Len(list) /\ Len(list) \in n .. Len(list)
    BY <1>0
  <2> HIDE DEF O
  <2>2. /\ Len(U[n]) <= Len(U[Len(list)])
        /\ \A k \in 1 .. Len(U[n]) : U[Len(list)][k] = U[n][k]
    BY ONLY list \in Seq(T), <2>1, UptoGrows
  <2> HIDE DEF U
  <2> QED BY ONLY <1>2, <2>2
<1> HIDE DEF U, O
<1>6. ASSUME NEW n \in 1 .. Len(list), list[n] \in S
      PROVE  Len(U[n]) \in 1 .. Len(O) /\ O[Len(U[n])] = list[n]
  <2>1. Len(U[n]) \in Nat /\ Len(U[n - 1]) \in Nat /\ Len(O) \in Nat
    BY <1>0, <1>1, <1>2
  <2>2. Len(U[n]) \in 1 .. Len(U[n]) /\ U[n][Len(U[n])] = list[n]
    BY <1>4, <1>6, <2>1
  <2>3. Len(U[n]) <= Len(O) /\ \A k \in 1 .. Len(U[n]) : O[k] = U[n][k]
    BY <1>5
  <2> QED BY ONLY <2>1, <2>2, <2>3
<1>7. 0 \in I
  <2>1. 1 .. Len(U[0]) = {}
    BY <1>3
  <2> QED BY <1>0, <2>1
<1>8. ASSUME NEW i \in 1 .. Len(list), i - 1 \in I PROVE i \in I
  <2> SUFFICES ASSUME NEW k \in 1 .. Len(U[i])
               PROVE  \E n \in 1 .. i : list[n] \in S /\ Len(U[n]) = k /\ U[i][k] = list[n]
    OBVIOUS
  <2>1. Len(U[i]) \in Nat /\ Len(U[i - 1]) \in Nat
    BY <1>0, <1>1
  <2>2. CASE k \in 1 .. Len(U[i - 1])
    <3>1. PICK n \in 1 .. i - 1 : list[n] \in S /\ Len(U[n]) = k /\ U[i - 1][k] = list[n]
      BY <1>8, <2>2
    <3>2. n \in 1 .. i /\ U[i][k] = U[i - 1][k]
      BY <1>4, <2>2
    <3> QED BY <3>1, <3>2
  <2>3. CASE k \notin 1 .. Len(U[i - 1])
    <3>1. list[i] \in S /\ k = Len(U[i]) /\ U[i][k] = list[i]
      <4>1. /\ list[i] \in S => Len(U[i]) = Len(U[i - 1]) + 1 /\ U[i][Len(U[i])] = list[i]
            /\ list[i] \notin S => U[i] = U[i - 1]
        BY <1>4
      <4> QED BY ONLY k \in 1 .. Len(U[i]), <2>1, <2>3, <4>1
    <3> QED BY <3>1
  <2> QED BY <2>2, <2>3
<1>9. \A i \in 0 .. Len(list) : i \in I
  <2>1. I \in SUBSET (0 .. Len(list))
    OBVIOUS
  <2> HIDE DEF I
  <2> QED BY ONLY <1>0, <1>7, <1>8, <2>1, StepsTo
<1>10. P(Len(list))
  <2>1. Len(list) \in I
    BY ONLY <1>0, <1>9
  <2> HIDE DEF P
  <2> QED BY <2>1
<1>11. O \in Seq(T)
  BY <1>0, <1>1, <1>2
<1> QED BY <1>2, <1>6, <1>10, <1>11 DEF U, O

(* It lists the members of S, each once if the list does.                  *)
LEMMA OnlyMembers ==
  ASSUME NEW T, NEW list \in Seq(T), NEW S
  PROVE  /\ ToSet(Only(list, S)) = ToSet(list) \cap S
         /\ IsInjective(list) => IsInjective(Only(list, S))
<1> DEFINE O == Only(list, S)
<1>1. O \in Seq(T) /\ DOMAIN O = 1 .. Len(O) /\ DOMAIN list = 1 .. Len(list)
  BY OnlyFacts
<1>2. \A n \in 1 .. Len(list) : list[n] \in S => \E k \in 1 .. Len(O) : O[k] = list[n]
  BY OnlyFacts
<1>3. \A k \in 1 .. Len(O) : \E n \in 1 .. Len(list) :
        list[n] \in S /\ Len(Upto(list, S)[n]) = k /\ O[k] = list[n]
  BY OnlyFacts
<1> HIDE DEF O
<1>4. ToSet(O) = ToSet(list) \cap S
  <2>1. \A x : x \in ToSet(O) <=> \E k \in 1 .. Len(O) : x = O[k]
    BY <1>1, Zenon DEF ToSet
  <2>2. \A x : x \in ToSet(list) <=> \E n \in 1 .. Len(list) : x = list[n]
    BY <1>1, Zenon DEF ToSet
  <2>3. \A x : x \in ToSet(O) <=> x \in ToSet(list) /\ x \in S
    <3>1. ASSUME NEW x \in ToSet(O) PROVE x \in ToSet(list) /\ x \in S
      BY <1>3, <2>1, <2>2
    <3>2. ASSUME NEW x \in ToSet(list), x \in S PROVE x \in ToSet(O)
      BY <1>2, <2>1, <2>2, <3>2
    <3> QED BY <3>1, <3>2
  <2> QED BY <2>3
<1>5. ASSUME IsInjective(list), NEW j \in DOMAIN O, NEW k \in DOMAIN O, O[j] = O[k]
      PROVE  j = k
  <2>1. PICK m \in 1 .. Len(list) : Len(Upto(list, S)[m]) = j /\ O[j] = list[m]
    BY <1>1, <1>3
  <2>2. PICK n \in 1 .. Len(list) : Len(Upto(list, S)[n]) = k /\ O[k] = list[n]
    BY <1>1, <1>3
  <2>3. m = n
    BY <1>1, <1>5, <2>1, <2>2 DEF IsInjective
  <2> QED BY <2>1, <2>2, <2>3
<1> QED BY <1>4, <1>5 DEF O, IsInjective

(* Where the matches of a list are found again in another, in the same     *)
(* order and perhaps with others between them, none has moved forward.     *)
LEMMA Embeds ==
  ASSUME NEW T, NEW list \in Seq(T), NEW S, NEW new \in Seq(T), NEW R,
         NEW h \in [0 .. Len(list) -> 0 .. Len(new)],
         \A n \in 1 .. Len(list) :
           /\ h[n - 1] <= h[n]
           /\ list[n] \in S => h[n - 1] < h[n] /\ new[h[n]] \in R
  PROVE  \A n \in 0 .. Len(list) : Len(Upto(list, S)[n]) <= Len(Upto(new, R)[h[n]])
<1> DEFINE U == Upto(list, S)
           V == Upto(new, R)
           I == {n \in 0 .. Len(list) : Len(U[n]) <= Len(V[h[n]])}
<1>0. Len(list) \in Nat /\ Len(new) \in Nat
  OBVIOUS
<1>1. /\ \A n \in 0 .. Len(list) : Len(U[n]) \in Nat
      /\ \A n \in 0 .. Len(new) : Len(V[n]) \in Nat
      /\ U[0] = << >>
  BY UptoFacts
<1>2. \A n \in 1 .. Len(list) :
        /\ list[n] \in S => Len(U[n]) = Len(U[n - 1]) + 1
        /\ list[n] \notin S => U[n] = U[n - 1]
  <2>1. \A n \in 1 .. Len(list) : Adds(U[n - 1], U[n], list[n], S)
    BY UptoStep
  <2> HIDE DEF U
  <2> QED BY <2>1 DEF Adds
<1>3. \A n \in 1 .. Len(new) : new[n] \in R => Len(V[n]) = Len(V[n - 1]) + 1
  <2>1. \A n \in 1 .. Len(new) : Adds(V[n - 1], V[n], new[n], R)
    BY UptoStep
  <2> HIDE DEF V
  <2> QED BY <2>1 DEF Adds
<1>4. \A m \in 0 .. Len(new) : \A n \in m .. Len(new) : Len(V[m]) <= Len(V[n])
  BY UptoGrows
<1> HIDE DEF U, V
<1>5. 0 \in I
  <2>1. h[0] \in 0 .. Len(new) /\ Len(U[0]) = 0
    BY <1>0, <1>1
  <2> QED BY <1>0, <1>1, <2>1
<1>6. ASSUME NEW n \in 1 .. Len(list), n - 1 \in I PROVE n \in I
  <2>1. /\ h[n - 1] \in 0 .. Len(new) /\ h[n] \in 0 .. Len(new) /\ h[n - 1] <= h[n]
        /\ Len(U[n - 1]) <= Len(V[h[n - 1]])
    <3>1. n \in 0 .. Len(list) /\ n - 1 \in 0 .. Len(list)
      BY ONLY <1>0, n \in 1 .. Len(list)
    <3>2. h[n - 1] \in 0 .. Len(new) /\ h[n] \in 0 .. Len(new)
      BY <3>1
    <3>3. Len(U[n - 1]) <= Len(V[h[n - 1]])
      BY <1>6
    <3> QED BY <3>2, <3>3
  <2>2. Len(U[n]) \in Nat /\ Len(U[n - 1]) \in Nat
          /\ Len(V[h[n]]) \in Nat /\ Len(V[h[n - 1]]) \in Nat
    BY <1>0, <1>1, <2>1
  <2>3. CASE list[n] \notin S
    <3>1. Len(V[h[n - 1]]) <= Len(V[h[n]])
      BY <1>0, <1>4, <2>1
    <3>2. Len(U[n]) = Len(U[n - 1])
      BY <1>2, <2>3
    <3>3. Len(U[n]) <= Len(V[h[n]])
      <4>1. Len(U[n - 1]) <= Len(V[h[n - 1]])
        BY ONLY <2>1
      <4> QED BY ONLY <2>2, <3>1, <3>2, <4>1
    <3> QED BY <3>3
  <2>4. CASE list[n] \in S
    <3>1. h[n] \in 1 .. Len(new) /\ h[n] - 1 \in 0 .. Len(new) /\ h[n - 1] <= h[n] - 1
            /\ new[h[n]] \in R
      BY <1>0, <2>1, <2>4
    <3>2. Len(V[h[n]]) = Len(V[h[n] - 1]) + 1
      BY <1>3, <3>1
    <3>3. h[n] - 1 \in h[n - 1] .. Len(new)
      BY <2>1, <3>1
    <3>4. Len(V[h[n - 1]]) <= Len(V[h[n] - 1]) /\ Len(V[h[n] - 1]) \in Nat
      BY <1>1, <1>4, <2>1, <3>1, <3>3
    <3>5. Len(U[n]) = Len(U[n - 1]) + 1
      BY <1>2, <2>4
    <3> DEFINE a == Len(U[n - 1])
               b == Len(V[h[n - 1]])
               d == Len(V[h[n] - 1])
    <3>6. a \in Nat /\ b \in Nat /\ d \in Nat /\ a <= b /\ b <= d
            /\ Len(U[n]) = a + 1 /\ Len(V[h[n]]) = d + 1
      BY ONLY <2>1, <2>2, <3>2, <3>4, <3>5
    <3> HIDE DEF a, b, d
    <3>7. Len(U[n]) <= Len(V[h[n]])
      BY ONLY <3>6
    <3> QED BY <3>7
  <2> QED BY <2>3, <2>4
<1>7. \A n \in 0 .. Len(list) : n \in I
  <2>1. I \in SUBSET (0 .. Len(list))
    OBVIOUS
  <2> HIDE DEF I
  <2> QED BY ONLY <1>0, <1>5, <1>6, <2>1, StepsTo
<1> QED BY <1>7 DEF U, V

-----------------------------------------------------------------------------
(* The inductive invariant.                                                *)

Typed ==
  /\ issues \in Seq(Ids) /\ IsInjective(issues) /\ dismissed \subseteq ToSet(issues)
  /\ changes \in Nat /\ before \in Nat /\ before <= changes
  /\ cmd \in CommandLines
  /\ pc \in {"idle", "list", "check", "write", "end"}
  /\ err \in {"none", "api", "pages", "unlisted"}
  /\ page \in 1 .. MaxPages + 1 /\ (pc = "list" => page <= MaxPages)
  /\ out \in Seq(Ids) /\ todo \in Seq(Ids) /\ done \in Seq(Ids) /\ wrote \in Seq(Ids)
  /\ blamed \in Seq(Ids) /\ losses \in BOOLEAN

(* A match that stands behind the first k of the listing.                  *)
Behind(list, S, x, k) ==
  \E n \in 1 .. Len(list) : list[n] = x /\ x \in S /\ Len(Upto(list, S)[n]) > k

Passing == Passes(cmd, issues, dismissed)

(* While pages are followed, whole pages have come, and what matched all   *)
(* through and has not come is still ahead.                                *)
Ahead ==
  pc = "list" =>
    /\ Len(out) = (page - 1) * PerPage
    /\ ~losses => \A x \in seen \ ToSet(out) : Behind(issues, Passing, x, Len(out))

(* Nothing has changed behind the command's back: what matched still does. *)
Quiet == pc \in {"list", "check"} /\ changes = before => ~losses /\ seen = Passing

(* What the command was asked to write and what of it remains.             *)
Asked == IF cmd.byIds THEN ToSet(cmd.ids) ELSE ToSet(issues)
Missing == {x \in Asked : (x \in dismissed) <=> cmd.undo}

Left == pc = "write" => todo # << >> /\ (changes = before => Missing \subseteq ToSet(todo))

(* A plan of which w has been written and t is to be written.              *)
Halfway(plan, w, t) ==
  /\ Len(plan) = Len(w) + Len(t)
  /\ \A k \in 1 .. Len(w) : plan[k] = w[k]
  /\ \A k \in 1 .. Len(t) : plan[Len(w) + k] = t[k]

(* How far it is, and what it would print if it ended well.                *)
Reports ==
  /\ pc \in {"list", "check", "write"} => err = "none" /\ blamed = << >>
  /\ pc \in {"list", "check"} => wrote = << >>
  /\ pc = "write" => /\ cmd.apply /\ Halfway(Plan, wrote, todo)
                     /\ done = IF cmd.byIds THEN cmd.ids ELSE wrote

IndInv ==
  /\ Typed /\ Ahead /\ Quiet /\ Left /\ Reports
  /\ ArrivalsHideNothing /\ QuietRunFinishes /\ ReportIsTruth

LEMMA CommandType ==
  ASSUME NEW c \in CommandLines
  PROVE  /\ c.byIds \in BOOLEAN /\ c.apply \in BOOLEAN /\ c.undo \in BOOLEAN
         /\ c.ids \in Seq(Ids) /\ (~c.byIds => c.ids = << >>)
<1>1. c.byIds \in BOOLEAN /\ c.apply \in BOOLEAN /\ c.undo \in BOOLEAN
  BY DEF CommandLines
<1>2. (c.ids = << >> \/ c.ids \in IdArgs) /\ (~c.byIds => c.ids = << >>)
  BY DEF CommandLines
<1>3. << >> \in Seq(Ids)
  OBVIOUS
<1> QED BY <1>1, <1>2, <1>3, PagingAssumption

LEMMA InitInv == Init => IndInv
<1> SUFFICES ASSUME Init PROVE IndInv
  OBVIOUS
<1>1. Typed
  <2>1. issues \in Seq(Ids) /\ IsInjective(issues) /\ dismissed \subseteq ToSet(issues)
    BY PagingAssumption DEF Init
  <2>2. cmd \in CommandLines
    BY DEF Init, CommandLines
  <2>3. << >> \in Seq(Ids)
    OBVIOUS
  <2>4. page \in 1 .. MaxPages + 1
    BY PagingAssumption DEF Init
  <2>5. out = << >> /\ todo = << >> /\ done = << >> /\ wrote = << >> /\ blamed = << >>
    BY Zenon DEF Init
  <2>6. /\ out \in Seq(Ids) /\ todo \in Seq(Ids) /\ done \in Seq(Ids) /\ wrote \in Seq(Ids)
        /\ blamed \in Seq(Ids)
    BY ONLY <2>3, <2>5, Zenon
  <2>7. changes = 0 /\ before = 0 /\ pc = "idle" /\ err = "none"
    BY Zenon DEF Init
  <2>8. losses \in BOOLEAN
    BY Zenon DEF Init
  <2> QED BY ONLY <2>1, <2>2, <2>4, <2>6, <2>7, <2>8 DEF Typed
<1>2. pc = "idle" /\ ~cmd.apply
  BY DEF Init
<1> QED BY <1>1, <1>2 DEF IndInv, Ahead, Quiet, Left, Reports, ArrivalsHideNothing, Listed,
                       QuietRunFinishes, ReportIsTruth

-----------------------------------------------------------------------------
(* The world outside.                                                      *)

LEMMA Moves ==
  ASSUME NEW T, NEW list \in Seq(T), NEW S, NEW new \in Seq(T), NEW R,
         NEW h \in [0 .. Len(list) -> 0 .. Len(new)],
         \A n \in 1 .. Len(list) :
           /\ h[n - 1] <= h[n]
           /\ list[n] \in S => h[n - 1] < h[n] /\ new[h[n]] = list[n] /\ list[n] \in R,
         NEW x, NEW k \in Nat, Behind(list, S, x, k)
  PROVE  Behind(new, R, x, k)
<1>1. PICK n \in 1 .. Len(list) : list[n] = x /\ x \in S /\ Len(Upto(list, S)[n]) > k
  BY DEF Behind
<1>2. \A i \in 0 .. Len(list) : Len(Upto(list, S)[i]) <= Len(Upto(new, R)[h[i]])
  BY Embeds
<1>3. n \in 0 .. Len(list) /\ n - 1 \in 0 .. Len(list)
  OBVIOUS
<1>4. h[n] \in 0 .. Len(new) /\ h[n - 1] \in 0 .. Len(new)
  BY <1>3
<1>5. h[n - 1] < h[n] /\ new[h[n]] = x /\ x \in R
  BY <1>1
<1>6. h[n] \in 1 .. Len(new)
  BY <1>4, <1>5
<1>7. Len(Upto(list, S)[n]) \in Nat /\ Len(Upto(new, R)[h[n]]) \in Nat
  BY <1>3, <1>4, UptoFacts
<1>8. Len(Upto(new, R)[h[n]]) > k
  BY <1>1, <1>2, <1>3, <1>7
<1> QED BY <1>5, <1>6, <1>8 DEF Behind

(* A change that keeps what is ahead ahead.                                *)
LEMMA ChangeInv ==
  ASSUME IndInv, NEW list \in Seq(Ids), NEW arch, IsInjective(list), arch \subseteq ToSet(list),
         Change(list, arch),
         Passing \subseteq Passes(cmd, list, arch) =>
           \A x, k : k \in Nat /\ Behind(issues, Passing, x, k)
                       => Behind(list, Passes(cmd, list, arch), x, k)
  PROVE  IndInv'
<1>1. /\ changes' = changes + 1 /\ issues' = list /\ dismissed' = arch
      /\ UNCHANGED <<runs, cmd, pc, page, out, todo, done, err, blamed, wrote, before>>
      /\ seen' = IF pc = "list" THEN seen \cap Passes(cmd, list, arch) ELSE seen
      /\ losses' = (losses \/ (pc = "list" /\ ~(Passing \subseteq Passes(cmd, list, arch))))
  BY DEF Change, Observe, command, Passing
<1>2. Typed' /\ changes' # before'
  <2>1. Typed
    BY DEF IndInv
  <2>2. losses' \in BOOLEAN
    BY <1>1
  <2>3. changes' \in Nat /\ before' \in Nat /\ before' <= changes' /\ changes' # before'
    BY <1>1, <2>1 DEF Typed
  <2> QED BY <1>1, <2>1, <2>2, <2>3 DEF Typed
<1>3. Left' /\ Reports' /\ Quiet' /\ QuietRunFinishes' /\ ReportIsTruth'
  <2>1. Plan' = Plan
    BY <1>1 DEF Plan
  <2>2. Left' /\ Quiet' /\ QuietRunFinishes'
    BY <1>1, <1>2 DEF IndInv, Left, Quiet, QuietRunFinishes
  <2> QED BY <1>1, <2>1, <2>2 DEF IndInv, Reports, ReportIsTruth
<1>4. ArrivalsHideNothing'
  BY <1>1 DEF IndInv, ArrivalsHideNothing, Listed
<1>5. Ahead'
  <2> SUFFICES ASSUME pc = "list"
               PROVE  /\ Len(out) = (page - 1) * PerPage
                      /\ ~losses' => \A x \in seen' \ ToSet(out) :
                           Behind(list, Passes(cmd, list, arch), x, Len(out))
    BY <1>1 DEF Ahead, Passing
  <2>1. Len(out) = (page - 1) * PerPage /\ Len(out) \in Nat
    <3>1. Len(out) \in Nat
      BY DEF IndInv, Typed
    <3> QED BY <3>1 DEF IndInv, Ahead
  <2>2. ASSUME ~losses', NEW x \in seen' \ ToSet(out)
        PROVE  Behind(list, Passes(cmd, list, arch), x, Len(out))
    <3>1. ~losses /\ Passing \subseteq Passes(cmd, list, arch) /\ x \in seen
      BY <1>1, <2>2
    <3>2. Behind(issues, Passing, x, Len(out))
      BY <2>2, <3>1 DEF IndInv, Ahead
    <3> QED BY <2>1, <3>1, <3>2
  <2> QED BY <2>1, <2>2
<1> QED BY <1>2, <1>3, <1>4, <1>5 DEF IndInv

LEMMA Members ==
  ASSUME NEW T, NEW list \in Seq(T)
  PROVE  /\ \A n \in 1 .. Len(list) : list[n] \in ToSet(list)
         /\ \A x \in ToSet(list) : \E n \in 1 .. Len(list) : list[n] = x
         /\ ToSet(list) \subseteq T
BY DEF ToSet

LEMMA FoundInv == ASSUME IndInv, NEW i \in Ids, Found(i) PROVE IndInv'
<1> DEFINE list == <<i>> \o issues
           R == Passes(cmd, list, dismissed)
           h == [n \in 0 .. Len(issues) |-> n + 1]
<1>1. issues \in Seq(Ids) /\ list \in Seq(Ids) /\ Len(list) = Len(issues) + 1
        /\ list[1] = i /\ \A n \in 1 .. Len(issues) : list[n + 1] = issues[n]
  <2>1. issues \in Seq(Ids) /\ <<i>> \in Seq(Ids) /\ Len(<<i>>) = 1 /\ <<i>>[1] = i
    BY DEF IndInv, Typed
  <2> QED BY <2>1
<1>2. i \notin ToSet(issues) /\ Change(list, dismissed)
  BY DEF Found
<1>3. ToSet(issues) \subseteq ToSet(list)
  <2> HIDE DEF list
  <2> SUFFICES ASSUME NEW x \in ToSet(issues) PROVE x \in ToSet(list)
    OBVIOUS
  <2>1. PICK n \in 1 .. Len(issues) : issues[n] = x
    BY <1>1, Members
  <2>2. n + 1 \in 1 .. Len(list) /\ list[n + 1] = x
    BY <1>1, <2>1
  <2> QED BY <1>1, <2>2, Members
<1>4. IsInjective(list)
  <2> HIDE DEF list
  <2> SUFFICES ASSUME NEW a \in 1 .. Len(list), NEW b \in 1 .. Len(list), list[a] = list[b]
               PROVE  a = b
    BY <1>1 DEF IsInjective
  <2>1. \A n \in 1 .. Len(list) : n # 1 =>
          n - 1 \in 1 .. Len(issues) /\ list[n] = issues[n - 1] /\ list[n] # i
    <3> SUFFICES ASSUME NEW n \in 1 .. Len(list), n # 1
                 PROVE  n - 1 \in 1 .. Len(issues) /\ list[n] = issues[n - 1] /\ list[n] # i
      OBVIOUS
    <3>1. n - 1 \in 1 .. Len(issues) /\ (n - 1) + 1 = n
      BY <1>1
    <3>2. list[n] = issues[n - 1]
      BY <1>1, <3>1
    <3> QED BY <1>1, <1>2, <3>1, <3>2, Members
  <2>2. \A c, d \in 1 .. Len(issues) : issues[c] = issues[d] => c = d
    <3>1. IsInjective(issues) /\ DOMAIN issues = 1 .. Len(issues)
      BY <1>1 DEF IndInv, Typed
    <3> QED BY ONLY <3>1 DEF IsInjective
  <2>3. CASE a = 1 \/ b = 1
    BY <1>1, <2>1, <2>3
  <2>4. CASE a # 1 /\ b # 1
    <3>1. a - 1 = b - 1
      BY <2>1, <2>2, <2>4
    <3> QED BY <1>1, <3>1
  <2> QED BY <2>3, <2>4
<1>5. h \in [0 .. Len(issues) -> 0 .. Len(list)]
  BY <1>1
<1>6. ASSUME Passing \subseteq R, NEW n \in 1 .. Len(issues)
      PROVE  /\ h[n - 1] < h[n] /\ h[n - 1] <= h[n]
             /\ issues[n] \in Passing => list[h[n]] = issues[n] /\ issues[n] \in R
  <2>1. h[n - 1] = n /\ h[n] = n + 1
    BY <1>1
  <2> HIDE DEF h, list
  <2>2. list[h[n]] = issues[n]
    BY <1>1, <2>1
  <2> QED BY <1>6, <2>1, <2>2
<1>7. dismissed \subseteq ToSet(list)
  BY <1>3 DEF IndInv, Typed
<1> HIDE DEF list, h
<1>8. Passing \subseteq R => \A x, k : k \in Nat /\ Behind(issues, Passing, x, k)
                                        => Behind(list, R, x, k)
  <2> HIDE DEF R
  <2>1. issues \in Seq(Ids) /\ list \in Seq(Ids)
    BY <1>1
  <2> QED BY ONLY <1>5, <1>6, <2>1, Moves
<1> QED BY <1>1, <1>2, <1>4, <1>7, <1>8, ChangeInv

LEMMA ResolvedInv == ASSUME IndInv, NEW i \in Ids, Resolved(i) PROVE IndInv'
<1> DEFINE K == Ids \ {i}
           list == Only(issues, K)
           arch == dismissed \ {i}
           R == Passes(cmd, list, arch)
           h == [n \in 0 .. Len(issues) |-> Len(Upto(issues, K)[n])]
<1>1. issues \in Seq(Ids) /\ IsInjective(issues) /\ dismissed \subseteq ToSet(issues)
  BY DEF IndInv, Typed
<1>2. Change(list, arch)
  BY DEF Resolved
<1>3. /\ list \in Seq(Ids) /\ IsInjective(list)
      /\ ToSet(list) = ToSet(issues) \cap K
  BY <1>1, OnlyFacts, OnlyMembers
<1>4. arch \subseteq ToSet(list)
  BY <1>1, <1>3, Members
<1>5. \A n \in 0 .. Len(issues) : Len(Upto(issues, K)[n]) \in 0 .. Len(list)
  <2> SUFFICES ASSUME NEW n \in 0 .. Len(issues)
               PROVE  Len(Upto(issues, K)[n]) \in 0 .. Len(list)
    OBVIOUS
  <2>1. Len(issues) \in n .. Len(issues)
    BY <1>1
  <2>2. Len(Upto(issues, K)[n]) <= Len(list)
    BY <1>1, <2>1, UptoGrows DEF Only
  <2>3. Len(Upto(issues, K)[n]) \in Nat
    BY <1>1, UptoFacts
  <2>4. Len(list) \in Nat
    BY <1>3
  <2> QED BY <2>2, <2>3, <2>4
<1>6. h \in [0 .. Len(issues) -> 0 .. Len(list)]
  BY <1>5
<1>7. R \subseteq ToSet(list)
  BY DEF Passes
<1>8. ASSUME Passing \subseteq R, NEW n \in 1 .. Len(issues)
      PROVE  /\ h[n - 1] <= h[n]
             /\ issues[n] \in Passing =>
                  h[n - 1] < h[n] /\ list[h[n]] = issues[n] /\ issues[n] \in R
  <2>1. n \in 0 .. Len(issues) /\ n - 1 \in 0 .. Len(issues) /\ n \in n - 1 .. Len(issues)
    BY <1>1
  <2>2. h[n] = Len(Upto(issues, K)[n]) /\ h[n - 1] = Len(Upto(issues, K)[n - 1])
    BY <2>1
  <2>3. h[n] \in Nat /\ h[n - 1] \in Nat
    BY <1>5, <2>1, <2>2
  <2>4. h[n - 1] <= h[n]
    BY <1>1, <2>1, <2>2, UptoGrows
  <2>5. ASSUME issues[n] \in Passing
        PROVE  h[n - 1] < h[n] /\ list[h[n]] = issues[n] /\ issues[n] \in R
    <3>1. issues[n] \in R /\ issues[n] \in K
      BY <1>3, <1>7, <1>8, <2>5
    <3>2. list[Len(Upto(issues, K)[n])] = issues[n]
      BY <1>1, <3>1, OnlyFacts
    <3>3. Adds(Upto(issues, K)[n - 1], Upto(issues, K)[n], issues[n], K)
      BY <1>1, UptoStep
    <3>4. h[n] = h[n - 1] + 1
      BY <2>2, <3>1, <3>3 DEF Adds
    <3>5. h[n - 1] < h[n]
      BY ONLY <2>3, <3>4
    <3> HIDE DEF h
    <3> QED BY <2>2, <3>1, <3>2, <3>5
  <2> QED BY <2>4, <2>5
<1> HIDE DEF list, h, arch
<1>9. Passing \subseteq R => \A x, k : k \in Nat /\ Behind(issues, Passing, x, k)
                                        => Behind(list, R, x, k)
  <2> HIDE DEF R
  <2> QED BY <1>1, <1>3, <1>6, <1>8, Moves
<1> QED BY <1>2, <1>3, <1>4, <1>9, ChangeInv

LEMMA OtherAdminInv == ASSUME IndInv, NEW i \in Ids, OtherAdmin(i) PROVE IndInv'
<1> DEFINE arch == IF i \in dismissed THEN dismissed \ {i} ELSE dismissed \cup {i}
           R == Passes(cmd, issues, arch)
           h == [n \in 0 .. Len(issues) |-> n]
<1>1. issues \in Seq(Ids) /\ IsInjective(issues) /\ arch \subseteq ToSet(issues)
  BY DEF IndInv, Typed, OtherAdmin
<1>2. Change(issues, arch)
  BY DEF OtherAdmin
<1>3. h \in [0 .. Len(issues) -> 0 .. Len(issues)]
  OBVIOUS
<1>4. ASSUME Passing \subseteq R, NEW n \in 1 .. Len(issues)
      PROVE  /\ h[n - 1] <= h[n]
             /\ issues[n] \in Passing =>
                  h[n - 1] < h[n] /\ issues[h[n]] = issues[n] /\ issues[n] \in R
  <2>1. h[n - 1] = n - 1 /\ h[n] = n
    BY <1>1
  <2> HIDE DEF h, R
  <2>2. n - 1 <= n /\ n - 1 < n
    OBVIOUS
  <2> QED BY ONLY <1>4, <2>1, <2>2
<1> HIDE DEF h, arch
<1>5. Passing \subseteq R => \A x, k : k \in Nat /\ Behind(issues, Passing, x, k)
                                        => Behind(issues, R, x, k)
  <2> HIDE DEF R
  <2> QED BY <1>1, <1>3, <1>4, Moves
<1> QED BY <1>1, <1>2, <1>5, ChangeInv

-----------------------------------------------------------------------------
(* A page, cut from a listing L after the pages in o.                      *)

LEMMA Joined ==
  ASSUME NEW T, NEW s \in Seq(T), NEW t \in Seq(T)
  PROVE  /\ s \o t \in Seq(T) /\ Len(s \o t) = Len(s) + Len(t)
         /\ \A k \in 1 .. Len(s) : (s \o t)[k] = s[k]
         /\ \A k \in 1 .. Len(t) : (s \o t)[Len(s) + k] = t[k]
OBVIOUS

LEMMA PageFacts ==
  ASSUME NEW L \in Seq(Ids), NEW o \in Seq(Ids), NEW p \in Nat \ {0},
         Len(o) = (p - 1) * PerPage
  PROVE  /\ PageOf(L, p) \in Seq(Ids) /\ o \o PageOf(L, p) \in Seq(Ids)
         /\ ToSet(o) \subseteq ToSet(o \o PageOf(L, p))
         /\ \A k \in 1 .. Len(L) :
              k > Len(o) /\ L[k] \notin ToSet(o \o PageOf(L, p)) => k > Len(o \o PageOf(L, p))
         /\ PageOf(L, p) = << >> \/ Len(o \o PageOf(L, p)) >= Len(L) =>
              \A k \in 1 .. Len(L) : k > Len(o) => L[k] \in ToSet(o \o PageOf(L, p))
         /\ PageOf(L, p) # << >> /\ Len(o \o PageOf(L, p)) < Len(L) =>
              Len(o \o PageOf(L, p)) = p * PerPage
<1> DEFINE q == (p - 1) * PerPage
           e == IF p * PerPage < Len(L) THEN p * PerPage ELSE Len(L)
           got == PageOf(L, p)
           new == o \o got
<1>1. q \in Nat /\ p * PerPage = q + PerPage /\ PerPage \in Nat \ {0} /\ Len(L) \in Nat
  BY PagingAssumption
<1>2. got = SubSeq(L, q + 1, e)
  BY DEF PageOf
<1>3. Len(o) = q
  OBVIOUS
<1>4. e = IF q + PerPage < Len(L) THEN q + PerPage ELSE Len(L)
  BY <1>1
<1> HIDE DEF q, e, got
<1>5. e \in Nat /\ e <= Len(L)
  BY <1>1, <1>4
<1>6. got \in Seq(Ids) /\ Len(got) = IF q + 1 <= e THEN e - q ELSE 0
  BY <1>1, <1>2, <1>5
<1>7. \A k \in q + 1 .. e : got[k - q] = L[k] /\ k - q \in 1 .. Len(got)
  BY <1>1, <1>2, <1>5, <1>6
<1> HIDE DEF new
<1>8. /\ new \in Seq(Ids) /\ Len(new) = Len(o) + Len(got)
      /\ \A k \in 1 .. Len(o) : new[k] = o[k]
      /\ \A k \in 1 .. Len(got) : new[Len(o) + k] = got[k]
  <2>1. /\ o \o got \in Seq(Ids) /\ Len(o \o got) = Len(o) + Len(got)
        /\ \A k \in 1 .. Len(o) : (o \o got)[k] = o[k]
        /\ \A k \in 1 .. Len(got) : (o \o got)[Len(o) + k] = got[k]
    <3>1. got \in Seq(Ids)
      BY <1>6
    <3> QED BY ONLY o \in Seq(Ids), <3>1, Joined
  <2> QED BY ONLY <2>1, Zenon DEF new
<1>9. /\ new \in Seq(Ids) /\ Len(new) = q + Len(got)
      /\ \A k \in 1 .. q : new[k] = o[k]
      /\ \A k \in 1 .. Len(got) : new[q + k] = got[k]
  BY ONLY <1>3, <1>8, Zenon
<1>10. ToSet(o) \subseteq ToSet(new)
  <2> SUFFICES ASSUME NEW x \in ToSet(o) PROVE x \in ToSet(new)
    OBVIOUS
  <2>1. PICK k \in 1 .. q : o[k] = x
    BY <1>3, Members
  <2>2. k \in 1 .. Len(new) /\ new[k] = x
    <3>1. q \in Nat /\ Len(got) \in Nat
      BY <1>1, <1>6
    <3>2. k \in 1 .. Len(new)
      BY ONLY <1>9, <2>1, <3>1
    <3> QED BY <1>9, <2>1, <3>2
  <2> QED BY <1>9, <2>2, Members
<1>11. \A k \in q + 1 .. e : L[k] \in ToSet(new)
  <2> SUFFICES ASSUME NEW k \in q + 1 .. e PROVE L[k] \in ToSet(new)
    OBVIOUS
  <2>1. got[k - q] = L[k] /\ k - q \in 1 .. Len(got) /\ q + (k - q) = k
    BY <1>1, <1>5, <1>7
  <2>2. new[k] = L[k]
    BY <1>9, <2>1
  <2>3. k \in 1 .. Len(new)
    BY <1>1, <1>5, <1>6, <1>9, <2>1
  <2> QED BY <1>9, <2>2, <2>3, Members
<1>12. ASSUME NEW k \in 1 .. Len(L), k > q, L[k] \notin ToSet(new)
       PROVE  k > e /\ e = q + PerPage /\ Len(got) = PerPage /\ k > Len(new)
                /\ got # << >> /\ Len(new) < Len(L)
  <2>1. k > e
    BY <1>1, <1>5, <1>11, <1>12
  <2>2. e = q + PerPage
    BY <1>1, <1>4, <2>1
  <2>3. Len(got) = PerPage
    BY <1>1, <1>6, <2>2
  <2> QED BY <1>1, <1>9, <2>1, <2>2, <2>3
<1>13. ASSUME got # << >>, Len(new) < Len(L) PROVE Len(new) = q + PerPage
  <2>1. Len(got) # 0
    BY <1>6, <1>13
  <2>2. q + 1 <= e /\ Len(got) = e - q
    BY <1>6, <2>1
  <2>3. Len(new) = e
    BY <1>1, <1>5, <1>9, <2>2
  <2> QED BY <1>1, <1>4, <1>13, <2>3
<1>14. \A k \in 1 .. Len(L) : k > Len(o) /\ L[k] \notin ToSet(new) => k > Len(new)
  BY <1>3, <1>12
<1>15. got = << >> \/ Len(new) >= Len(L) =>
         \A k \in 1 .. Len(L) : k > Len(o) => L[k] \in ToSet(new)
  BY <1>1, <1>3, <1>6, <1>9, <1>12
<1> QED BY <1>1, <1>6, <1>9, <1>10, <1>13, <1>14, <1>15 DEF new, got

-----------------------------------------------------------------------------
(* The command.                                                            *)

LEMMA NoneMissing ==
  ASSUME NEW c \in CommandLines, NEW A, NEW D
  PROVE  {x \in A : (x \in D) <=> c.undo} = {}
           <=> IF c.undo THEN A \cap D = {} ELSE A \subseteq D
<1>1. c.undo \in BOOLEAN
  BY CommandType
<1>2. CASE c.undo = TRUE
  BY <1>2
<1>3. CASE c.undo = FALSE
  BY <1>3
<1> QED BY <1>1, <1>2, <1>3

LEMMA PrefixFacts ==
  ASSUME NEW s \in Seq(Ids), NEW t \in Seq(Ids), Len(s) <= Len(t),
         \A k \in 1 .. Len(s) : t[k] = s[k]
  PROVE  IsPrefix(s, t) /\ (Len(s) = Len(t) => s = t)
<1>1. Len(s) \in Nat /\ Len(t) \in Nat
  OBVIOUS
<1>2. SubSeq(s, 1, Len(s)) = SubSeq(t, 1, Len(s))
  BY <1>1
<1> QED BY <1>1, <1>2 DEF IsPrefix

(* A plan of which nothing has been written.                               *)
LEMMA Unwritten == ASSUME NEW p \in Seq(Ids) PROVE Halfway(p, << >>, p)
<1>1. Len(p) \in Nat /\ Len(<< >>) = 0
  OBVIOUS
<1> QED BY <1>1 DEF Halfway

(* What is written stands first in the plan, and what is next behind it.   *)
LEMMA NextOfPlan ==
  ASSUME NEW p \in Seq(Ids), NEW w \in Seq(Ids), NEW t \in Seq(Ids),
         t # << >>, Halfway(p, w, t)
  PROVE  /\ Len(w) \in Nat /\ Len(w) + 1 \in 1 .. Len(p) /\ p[Len(w) + 1] = Head(t)
         /\ Append(w, Head(t)) \in Seq(Ids) /\ Len(Append(w, Head(t))) = Len(w) + 1
         /\ IsPrefix(w, p) /\ IsPrefix(w, w) /\ IsPrefix(w, Append(w, Head(t)))
         /\ IsPrefix(Append(w, Head(t)), p)
         /\ Tail(t) = << >> => Append(w, Head(t)) = p
         /\ Halfway(p, Append(w, Head(t)), Tail(t))
<1> DEFINE v == Append(w, Head(t))
           u == Tail(t)
<1>1. /\ Len(w) \in Nat /\ Len(p) \in Nat /\ Len(t) \in Nat \ {0}
      /\ Head(t) = t[1] /\ Head(t) \in Ids
      /\ u \in Seq(Ids) /\ Len(u) = Len(t) - 1 /\ \A k \in 1 .. Len(u) : u[k] = t[k + 1]
  OBVIOUS
<1>2. /\ v \in Seq(Ids) /\ Len(v) = Len(w) + 1 /\ v[Len(w) + 1] = Head(t)
      /\ \A k \in 1 .. Len(w) : v[k] = w[k]
  BY <1>1
<1> HIDE DEF v, u
<1>3. u = << >> => Len(u) = 0
  OBVIOUS
<1>4. Len(w) + 1 \in 1 .. Len(p) /\ p[Len(w) + 1] = Head(t)
  BY <1>1 DEF Halfway
<1>5. \A k \in 1 .. Len(v) : p[k] = v[k]
  <2> SUFFICES ASSUME NEW k \in 1 .. Len(v) PROVE p[k] = v[k]
    OBVIOUS
  <2>1. CASE k = Len(w) + 1
    BY <1>2, <1>4, <2>1
  <2>2. CASE k # Len(w) + 1
    <3>1. k \in 1 .. Len(w)
      BY <1>1, <1>2, <2>2
    <3> QED BY <1>2, <3>1 DEF Halfway
  <2> QED BY <2>1, <2>2
<1>6. Halfway(p, v, u)
  <2>1. Len(p) = Len(v) + Len(u)
    BY <1>1, <1>2 DEF Halfway
  <2>2. ASSUME NEW k \in 1 .. Len(u) PROVE p[Len(v) + k] = u[k]
    <3>1. k + 1 \in 1 .. Len(t) /\ Len(w) + (k + 1) = Len(v) + k
      BY <1>1, <1>2
    <3>2. p[Len(w) + (k + 1)] = t[k + 1]
      BY <3>1 DEF Halfway
    <3> QED BY <1>1, <3>1, <3>2
  <2> QED BY <1>5, <2>1, <2>2 DEF Halfway
<1>7. IsPrefix(w, p) /\ IsPrefix(w, w) /\ IsPrefix(w, v)
  <2>1. Len(w) <= Len(p) /\ Len(w) <= Len(v) /\ Len(w) <= Len(w)
    BY <1>1, <1>2, <1>4
  <2> QED BY <1>2, <2>1, PrefixFacts DEF Halfway
<1>8. IsPrefix(v, p) /\ (u = << >> => v = p)
  <2>1. Len(v) <= Len(p) /\ (u = << >> => Len(v) = Len(p))
    BY <1>1, <1>2, <1>3, <1>4, <1>6 DEF Halfway
  <2> QED BY <1>2, <1>5, <2>1, PrefixFacts
<1> QED BY <1>1, <1>2, <1>4, <1>6, <1>7, <1>8 DEF v, u

LEMMA StartInv == ASSUME IndInv, NEW c \in CommandLines, Start(c) PROVE IndInv'
<1> DEFINE S == Passes(c, issues, dismissed)
<1>1. /\ cmd' = c /\ pc' = "list" /\ page' = 1 /\ err' = "none" /\ blamed' = << >>
      /\ before' = changes /\ seen' = S /\ losses' = FALSE
      /\ UNCHANGED <<issues, dismissed, changes>>
  BY Zenon DEF Start, cloud
<1>2. /\ out' = << >> /\ todo' = << >> /\ done' = << >> /\ wrote' = << >>
      /\ blamed' = << >>
  BY Zenon DEF Start
<1>3. Typed
  BY DEF IndInv
<1>4. Typed'
  <2>1. << >> \in Seq(Ids)
    OBVIOUS
  <2>2. /\ out' \in Seq(Ids) /\ todo' \in Seq(Ids) /\ done' \in Seq(Ids) /\ wrote' \in Seq(Ids)
        /\ blamed' \in Seq(Ids)
    BY ONLY <1>2, <2>1, Zenon
  <2>3. page' \in 1 .. MaxPages + 1 /\ page' <= MaxPages
    BY <1>1, PagingAssumption
  <2>4. losses' \in BOOLEAN
    BY <1>1, Zenon
  <2>5. before' \in Nat /\ before' <= changes'
    BY <1>1, <1>3 DEF Typed
  <2> QED BY <1>1, <1>3, <2>2, <2>3, <2>4, <2>5 DEF Typed
<1>5. Passing' = S
  BY <1>1 DEF Passing
<1>6. Len(out') = 0
  BY <1>2
<1>7. ASSUME NEW x \in S PROVE Behind(issues, S, x, 0)
  <2>1. issues \in Seq(Ids) /\ x \in ToSet(issues)
    BY <1>3, <1>7 DEF Typed, Passes
  <2>2. PICK n \in 1 .. Len(issues) : issues[n] = x
    BY <2>1, Members
  <2> HIDE DEF S
  <2>3. Adds(Upto(issues, S)[n - 1], Upto(issues, S)[n], issues[n], S)
    BY <2>1, UptoStep
  <2>4. Len(Upto(issues, S)[n - 1]) \in Nat
    BY <2>1, UptoFacts
  <2>5. Len(Upto(issues, S)[n]) = Len(Upto(issues, S)[n - 1]) + 1
    BY <1>7, <2>2, <2>3 DEF Adds
  <2>6. Len(Upto(issues, S)[n]) > 0
    BY ONLY <2>4, <2>5
  <2> QED BY <1>7, <2>2, <2>6 DEF Behind
<1> HIDE DEF S
<1>8. Ahead'
  <2>1. Len(out') = (page' - 1) * PerPage
    BY <1>1, <1>6, PagingAssumption
  <2>2. \A x \in seen' \ ToSet(out') : Behind(issues', Passing', x, Len(out'))
    BY <1>1, <1>5, <1>6, <1>7
  <2> QED BY <2>1, <2>2 DEF Ahead
<1>9. Quiet'
  BY <1>1, <1>5 DEF Quiet
<1>10. Left' /\ ArrivalsHideNothing' /\ QuietRunFinishes' /\ ReportIsTruth'
  BY <1>1 DEF Left, ArrivalsHideNothing, Listed, QuietRunFinishes, ReportIsTruth
<1>11. Reports'
  BY <1>1, <1>2 DEF Reports
<1> QED BY <1>4, <1>8, <1>9, <1>10, <1>11 DEF IndInv

(* A listing that fails, or an id that is not listed, ends the command, and *)
(* nothing has been written.                                               *)
LEMMA FailInv ==
  ASSUME IndInv, pc \in {"list", "check"}, Typed', pc' = "end", err' # "none",
         err' = "api" => blamed' = << >>, wrote' = wrote
  PROVE  IndInv'
<1>1. Ahead' /\ Quiet' /\ Left' /\ Reports' /\ ArrivalsHideNothing' /\ QuietRunFinishes'
  BY DEF Ahead, Quiet, Left, Reports, ArrivalsHideNothing, Listed, QuietRunFinishes
<1>2. wrote' = << >>
  BY DEF IndInv, Reports
<1>3. ReportIsTruth'
  BY <1>2 DEF ReportIsTruth
<1> QED BY <1>1, <1>3 DEF IndInv

LEMMA FetchPageInv == ASSUME IndInv, FetchPage PROVE IndInv'
<1> DEFINE L == Only(issues, Passing)
           got == PageOf(L, page)
           finished == got = << >> \/ Len(out') >= Len(L)
<1>1. /\ pc = "list" /\ out' = out \o got /\ page' = page + 1
      /\ IF finished THEN pc' = "check" /\ UNCHANGED <<err, blamed>>
         ELSE IF page' > MaxPages THEN pc' = "end" /\ err' = "pages" /\ blamed' = << >>
         ELSE UNCHANGED <<pc, err, blamed>>
      /\ UNCHANGED <<runs, cmd, todo, done, wrote, issues, dismissed, changes, before, seen, losses>>
  BY DEF FetchPage, Matching, Passing, Fail, cloud, ghosts
<1>2. Typed
  BY DEF IndInv
<1>3. issues \in Seq(Ids) /\ out \in Seq(Ids) /\ page \in Nat \ {0} /\ page <= MaxPages
  BY <1>1, <1>2, PagingAssumption DEF Typed
<1>4. Len(out) = (page - 1) * PerPage
  BY <1>1 DEF IndInv, Ahead
<1>5. L \in Seq(Ids)
  BY <1>3, OnlyFacts
<1>6. ASSUME ~losses, NEW x \in seen \ ToSet(out)
      PROVE  \E n \in 1 .. Len(issues) :
               /\ issues[n] = x /\ x \in Passing /\ Len(Upto(issues, Passing)[n]) > Len(out)
               /\ Len(Upto(issues, Passing)[n]) \in 1 .. Len(L)
               /\ L[Len(Upto(issues, Passing)[n])] = x
  <2>1. Behind(issues, Passing, x, Len(out))
    BY <1>1, <1>6 DEF IndInv, Ahead
  <2> QED BY <1>3, <2>1, OnlyFacts DEF Behind
<1> HIDE DEF L
<1>7. /\ out' \in Seq(Ids) /\ ToSet(out) \subseteq ToSet(out')
      /\ \A k \in 1 .. Len(L) : k > Len(out) /\ L[k] \notin ToSet(out') => k > Len(out')
      /\ finished => \A k \in 1 .. Len(L) : k > Len(out) => L[k] \in ToSet(out')
      /\ ~finished => Len(out') = page * PerPage
  <2>1. Len(L) \in Nat
    BY <1>5
  <2>2. Len(out') \in Nat /\ out' \in Seq(Ids)
    BY <1>1, <1>3, <1>4, <1>5, PageFacts
  <2>3. ~(Len(out') >= Len(L)) => Len(out') < Len(L)
    BY <2>1, <2>2
  <2> QED BY <1>1, <1>3, <1>4, <1>5, <2>2, <2>3, PageFacts
<1> HIDE DEF finished, got
<1>8. Typed' /\ Passing' = Passing
  <2>1. page' \in 1 .. MaxPages + 1 /\ (pc' = "list" => page' <= MaxPages)
    BY <1>1, <1>3, PagingAssumption
  <2>2. /\ pc' \in {"idle", "list", "check", "write", "end"}
        /\ err' \in {"none", "api", "pages", "unlisted"}
    BY <1>1, <1>2 DEF Typed
  <2>3. blamed' \in Seq(Ids)
    <3>1. blamed' = blamed \/ blamed' = << >>
      BY <1>1
    <3>2. << >> \in Seq(Ids)
      OBVIOUS
    <3> QED BY <1>2, <3>1, <3>2 DEF Typed
  <2> QED BY <1>1, <1>2, <1>7, <2>1, <2>2, <2>3 DEF Typed, Passing
<1>9. CASE finished
  <2>1. pc' = "check" /\ err' = err /\ blamed' = blamed
    BY <1>1, <1>9
  <2>2. ASSUME ~losses PROVE seen \subseteq ToSet(out')
    BY <1>6, <1>7, <1>9, <2>2
  <2>3. ArrivalsHideNothing'
    BY <1>1, <2>2 DEF ArrivalsHideNothing
  <2>4. Ahead' /\ Left' /\ QuietRunFinishes' /\ ReportIsTruth'
    BY <2>1 DEF Ahead, Left, QuietRunFinishes, ReportIsTruth
  <2>5. Quiet' /\ Reports'
    BY <1>1, <1>8, <2>1 DEF IndInv, Quiet, Reports
  <2> QED BY <1>8, <2>3, <2>4, <2>5 DEF IndInv
<1>10. CASE ~finished /\ page' > MaxPages
  BY <1>1, <1>8, <1>10, FailInv
<1>11. CASE ~finished /\ ~(page' > MaxPages)
  <2>1. pc' = "list" /\ err' = err /\ blamed' = blamed
    BY <1>1, <1>11
  <2>2. Len(out') = (page' - 1) * PerPage
    <3>1. page' - 1 = page
      BY <1>1, <1>3
    <3> QED BY <1>7, <1>11, <3>1
  <2>3. ASSUME ~losses, NEW x \in seen \ ToSet(out')
        PROVE  Behind(issues, Passing, x, Len(out'))
    BY <1>6, <1>7, <2>3 DEF Behind
  <2>4. Ahead'
    BY <1>1, <1>8, <2>2, <2>3 DEF Ahead
  <2>5. Quiet' /\ Reports'
    BY <1>1, <1>8, <2>1 DEF IndInv, Quiet, Reports
  <2>6. Left' /\ ArrivalsHideNothing' /\ QuietRunFinishes' /\ ReportIsTruth'
    BY <2>1 DEF Left, ArrivalsHideNothing, Listed, QuietRunFinishes, ReportIsTruth
  <2> QED BY <1>8, <2>4, <2>5, <2>6 DEF IndInv
<1> QED BY <1>9, <1>10, <1>11

LEMMA ListFailsInv == ASSUME IndInv, ListFails PROVE IndInv'
<1>1. /\ pc = "list" /\ pc' = "end" /\ err' = "api" /\ blamed' = << >>
      /\ UNCHANGED <<runs, cmd, page, out, todo, done, wrote,
                     issues, dismissed, changes, before, seen, losses>>
  BY DEF ListFails, Fail, cloud, ghosts
<1>2. Typed'
  <2>1. << >> \in Seq(Ids)
    OBVIOUS
  <2> QED BY <1>1, <2>1 DEF IndInv, Typed
<1> QED BY <1>1, <1>2, FailInv

LEMMA CheckInv == ASSUME IndInv, Check PROVE IndInv'
<1> DEFINE items == Plan
           refused == Unlisted # {}
<1>1. /\ pc = "check"
      /\ refused => /\ pc' = "end" /\ err' = "unlisted" /\ UNCHANGED todo
                    /\ \E n \in Unlisted : /\ blamed' = <<cmd.ids[n]>>
                                          /\ done' = SubSeq(cmd.ids, 1, n - 1)
      /\ ~refused => /\ UNCHANGED <<err, blamed>>
                     /\ IF cmd.apply /\ items # << >>
                        THEN pc' = "write" /\ todo' = items /\ done' = cmd.ids
                        ELSE pc' = "end" /\ done' = items /\ UNCHANGED todo
      /\ UNCHANGED <<runs, cmd, page, out, wrote, issues, dismissed, changes, before, seen, losses>>
  BY DEF Check, Fail, cloud, ghosts
<1>2. Typed /\ cmd \in CommandLines /\ cmd.byIds \in BOOLEAN /\ cmd.ids \in Seq(Ids)
        /\ cmd.apply \in BOOLEAN /\ (~cmd.byIds => cmd.ids = << >>)
  BY CommandType DEF IndInv, Typed
<1>3. items \in Seq(Ids) /\ Plan' = Plan
  BY <1>1, <1>2 DEF Typed, Plan
<1>4. Missing' = Missing
  BY <1>1 DEF Missing, Asked
<1>5. changes = before => Missing \subseteq ToSet(items)
  <2> SUFFICES ASSUME changes = before, NEW x \in Missing PROVE x \in ToSet(items)
    OBVIOUS
  <2>1. CASE cmd.byIds
    BY <2>1 DEF Missing, Asked, Plan
  <2>2. CASE ~cmd.byIds
    <3>1. x \in Passing
      BY <2>2 DEF Missing, Asked, Passing, Passes
    <3>2. ~losses /\ seen = Passing
      BY <1>1 DEF IndInv, Quiet
    <3>3. seen \subseteq ToSet(out)
      BY <1>1, <3>2 DEF IndInv, ArrivalsHideNothing, Listed
    <3> QED BY <2>2, <3>1, <3>2, <3>3 DEF Plan
  <2> QED BY <2>1, <2>2
<1> HIDE DEF items, refused
<1>6. Typed'
  <2>1. todo' \in Seq(Ids)
    BY <1>1, <1>2, <1>3 DEF Typed
  <2>2. done' \in Seq(Ids) /\ blamed' \in Seq(Ids)
    <3>1. CASE refused
      <4>1. PICK n \in Unlisted : /\ blamed' = <<cmd.ids[n]>>
                                 /\ done' = SubSeq(cmd.ids, 1, n - 1)
        BY <1>1, <3>1
      <4>2. n \in 1 .. Len(cmd.ids)
        BY DEF Unlisted
      <4>3. cmd.ids[n] \in Ids /\ n - 1 \in 0 .. Len(cmd.ids)
        BY <1>2, <4>2
      <4>4. \A k \in 1 .. n - 1 : cmd.ids[k] \in Ids
        BY <1>2, <4>2
      <4>5. SubSeq(cmd.ids, 1, n - 1) \in Seq(Ids)
        BY <1>2, <4>2, <4>3, <4>4
      <4>6. <<cmd.ids[n]>> \in Seq(Ids)
        BY <4>3
      <4> QED BY <4>1, <4>5, <4>6
    <3>2. CASE ~refused
      BY <1>1, <1>2, <1>3, <3>2 DEF Typed
    <3> QED BY <1>1, <3>1, <3>2
  <2>3. pc' \in {"write", "end"} /\ err' \in {"none", "api", "pages", "unlisted"}
    BY <1>1, <1>2 DEF Typed
  <2> QED BY <1>1, <1>2, <2>1, <2>2, <2>3 DEF Typed
<1>7. CASE refused
  BY <1>1, <1>6, <1>7, FailInv
<1>8. ArrivalsHideNothing'
  BY <1>1 DEF IndInv, ArrivalsHideNothing, Listed
<1>9. CASE ~refused /\ cmd.apply /\ items # << >>
  <2>1. /\ pc' = "write" /\ todo' = items /\ done' = cmd.ids
        /\ UNCHANGED <<err, blamed>>
    BY <1>1, <1>9
  <2>2. Ahead' /\ Quiet' /\ QuietRunFinishes' /\ ReportIsTruth'
    BY <2>1 DEF Ahead, Quiet, QuietRunFinishes, ReportIsTruth
  <2>3. Left'
    BY <1>1, <1>4, <1>5, <1>9, <2>1 DEF Left
  <2>4. Reports'
    <3>1. wrote' = << >> /\ err' = "none" /\ blamed' = << >>
      BY <1>1, <2>1 DEF IndInv, Reports
    <3>2. Halfway(Plan', wrote', todo')
      <4>1. Halfway(items, << >>, items)
        BY <1>3, Unwritten
      <4>2. Plan' = items
        BY <1>3 DEF items
      <4> QED BY <2>1, <3>1, <4>1, <4>2
    <3> QED BY <1>1, <1>2, <1>9, <2>1, <3>1, <3>2 DEF Reports
  <2> QED BY <1>6, <1>8, <2>2, <2>3, <2>4 DEF IndInv
<1>10. CASE ~refused /\ ~(cmd.apply /\ items # << >>)
  <2>1. pc' = "end" /\ done' = items /\ UNCHANGED <<todo, err, blamed>>
    BY <1>1, <1>10
  <2>2. Ahead' /\ Quiet' /\ Left' /\ Reports'
    BY <2>1 DEF Ahead, Quiet, Left, Reports
  <2>3. err' = "none" /\ wrote' = << >> /\ (cmd.apply => done' = << >>)
    BY <1>1, <1>10, <2>1 DEF IndInv, Reports
  <2>4. ReportIsTruth'
    BY <1>1, <2>3 DEF ReportIsTruth
  <2>5. ASSUME cmd.apply, changes = before PROVE Missing' = {}
    <3>1. ToSet(items) = {}
      <4>1. items = << >>
        BY <1>10, <2>5
      <4> QED BY <4>1 DEF ToSet
    <3> QED BY <1>4, <1>5, <2>5, <3>1
  <2>6. QuietRunFinishes'
    BY <1>1, <1>2, <2>5, NoneMissing DEF QuietRunFinishes, Missing, Asked
  <2> QED BY <1>6, <1>8, <2>2, <2>4, <2>6 DEF IndInv
<1> QED BY <1>7, <1>9, <1>10

LEMMA Heads ==
  ASSUME NEW s \in Seq(Ids), s # << >>
  PROVE  /\ Tail(s) \in Seq(Ids) /\ Head(s) \in Ids
         /\ ToSet(s) \subseteq ToSet(Tail(s)) \cup {Head(s)}
<1>1. Tail(s) \in Seq(Ids) /\ Head(s) \in Ids /\ Len(s) \in Nat \ {0} /\ Head(s) = s[1]
        /\ Len(Tail(s)) = Len(s) - 1 /\ \A k \in 1 .. Len(s) - 1 : Tail(s)[k] = s[k + 1]
  OBVIOUS
<1>2. ASSUME NEW x \in ToSet(s), x # Head(s) PROVE x \in ToSet(Tail(s))
  <2>1. PICK k \in 1 .. Len(s) : s[k] = x
    BY Members
  <2>2. k - 1 \in 1 .. Len(Tail(s)) /\ Tail(s)[k - 1] = x
    BY <1>1, <1>2, <2>1
  <2> QED BY <1>1, <2>2, Members
<1> QED BY <1>1, <1>2

LEMMA ArchiveFacts ==
  ASSUME Typed, NEW i \in ToSet(issues), Archive(i), UNCHANGED <<issues, cmd>>
  PROVE  dismissed' \subseteq ToSet(issues) /\ Missing' \subseteq Missing \ {i}
<1>1. cmd.undo \in BOOLEAN
  BY CommandType DEF Typed
<1>2. CASE cmd.undo = TRUE
  BY <1>2 DEF Archive, Missing, Asked, Typed
<1>3. CASE cmd.undo = FALSE
  BY <1>3 DEF Archive, Missing, Asked, Typed
<1> QED BY <1>1, <1>2, <1>3

LEMMA WriteOkInv == ASSUME IndInv, WriteOk PROVE IndInv'
<1> DEFINE i == Head(todo)
<1>1. /\ pc = "write" /\ i \in ToSet(issues) /\ Archive(i)
      /\ wrote' = Append(wrote, i) /\ todo' = Tail(todo)
      /\ done' = IF cmd.byIds THEN done ELSE Append(done, i)
      /\ pc' = IF Tail(todo) = << >> THEN "end" ELSE "write"
      /\ UNCHANGED <<runs, cmd, page, out, err, blamed, issues, changes, before, seen, losses>>
  BY DEF WriteOk, ghosts
<1>2. /\ Typed /\ todo # << >> /\ err = "none" /\ blamed = << >> /\ cmd.apply
      /\ Halfway(Plan, wrote, todo) /\ done = IF cmd.byIds THEN cmd.ids ELSE wrote
  BY <1>1 DEF IndInv, Left, Reports
<1>3. /\ Tail(todo) \in Seq(Ids) /\ i \in Ids /\ ToSet(todo) \subseteq ToSet(Tail(todo)) \cup {i}
  BY <1>2, Heads DEF Typed
<1>4. dismissed' \subseteq ToSet(issues) /\ Missing' \subseteq Missing \ {i}
  BY <1>1, <1>2, ArchiveFacts
<1>5. /\ Plan \in Seq(Ids) /\ Plan' = Plan /\ wrote' \in Seq(Ids)
      /\ Halfway(Plan', wrote', todo') /\ (todo' = << >> => wrote' = Plan)
  <2>1. cmd.ids \in Seq(Ids)
    BY <1>2, CommandType DEF Typed
  <2>2. Plan \in Seq(Ids) /\ Plan' = Plan
    BY <1>1, <1>2, <2>1 DEF Typed, Plan
  <2> QED BY <1>1, <1>2, <2>2, NextOfPlan DEF Typed
<1> HIDE DEF i
<1>13. done' = IF cmd'.byIds THEN cmd'.ids ELSE wrote'
  BY <1>1, <1>2
<1>14. done' \in Seq(Ids)
  BY <1>1, <1>2, <1>5, <1>13, CommandType DEF Typed
<1>6. Typed'
  <2>1. pc' \in {"write", "end"}
    BY <1>1
  <2> QED BY <1>1, <1>2, <1>3, <1>4, <1>5, <1>14, <2>1 DEF Typed
<1>7. changes' = before' => Missing' \subseteq ToSet(todo')
  BY <1>1, <1>3, <1>4 DEF IndInv, Left
<1>8. ArrivalsHideNothing'
  BY <1>1, <1>2 DEF IndInv, ArrivalsHideNothing, Listed
<1>9. Ahead' /\ Quiet' /\ Reports'
  BY <1>1, <1>2, <1>5, <1>13 DEF Ahead, Quiet, Reports
<1>10. Left'
  BY <1>1, <1>7 DEF Left
<1>11. ReportIsTruth'
  <2>1. ASSUME pc' = "end" PROVE done' = wrote'
    <3>1. todo' = << >>
      BY <1>1, <2>1
    <3> QED BY <1>1, <1>5, <1>13, <3>1 DEF Plan
  <2> QED BY <1>1, <1>2, <2>1 DEF ReportIsTruth
<1>12. QuietRunFinishes'
  <2>1. ASSUME pc' = "end", changes' = before' PROVE Missing' = {}
    <3>1. todo' = << >>
      BY <1>1, <2>1
    <3>2. ToSet(todo') = {}
      BY <3>1 DEF ToSet
    <3> QED BY <1>7, <2>1, <3>2
  <2>2. cmd' \in CommandLines
    BY <1>6 DEF Typed
  <2> QED BY <2>1, <2>2, NoneMissing DEF QuietRunFinishes, Missing, Asked
<1> QED BY <1>6, <1>8, <1>9, <1>10, <1>11, <1>12 DEF IndInv

LEMMA WriteFailsInv == ASSUME IndInv, NEW a \in BOOLEAN, WriteFails(a) PROVE IndInv'
<1> DEFINE i == Head(todo)
<1>1. /\ pc = "write" /\ pc' = "end" /\ err' = "api" /\ blamed' = <<i>>
      /\ \/ i \in ToSet(issues) /\ Archive(i) /\ wrote' = Append(wrote, i)
         \/ UNCHANGED <<dismissed, wrote>>
      /\ UNCHANGED <<runs, cmd, page, out, todo, done, issues, changes, before, seen, losses>>
  BY DEF WriteFails, Fail, ghosts
<1>2. /\ Typed /\ todo # << >> /\ Halfway(Plan, wrote, todo)
      /\ done = IF cmd.byIds THEN cmd.ids ELSE wrote
  BY <1>1 DEF IndInv, Left, Reports
<1>3. i \in Ids /\ wrote \in Seq(Ids)
  BY <1>2, Heads DEF Typed
<1>4. dismissed' \subseteq ToSet(issues)
  BY <1>1, <1>2, ArchiveFacts DEF Typed
<1> HIDE DEF i
<1>5. Plan \in Seq(Ids) /\ Plan' = Plan /\ cmd.ids \in Seq(Ids) /\ <<i>> \in Seq(Ids)
  BY <1>1, <1>2, <1>3, CommandType DEF Typed, Plan
<1>9. /\ wrote' \in Seq(Ids) /\ IsPrefix(wrote', Plan') /\ IsPrefix(wrote, wrote')
      /\ Len(wrote) \in Nat /\ Len(wrote') \in {Len(wrote), Len(wrote) + 1}
      /\ Len(wrote) + 1 \in 1 .. Len(Plan') /\ Plan'[Len(wrote) + 1] = i
  <2>1. wrote' = wrote \/ wrote' = Append(wrote, i)
    BY <1>1
  <2>2. /\ Len(wrote) \in Nat /\ Len(wrote) + 1 \in 1 .. Len(Plan) /\ Plan[Len(wrote) + 1] = i
        /\ Append(wrote, i) \in Seq(Ids) /\ Len(Append(wrote, i)) = Len(wrote) + 1
        /\ IsPrefix(wrote, Plan) /\ IsPrefix(wrote, wrote) /\ IsPrefix(wrote, Append(wrote, i))
        /\ IsPrefix(Append(wrote, i), Plan)
    BY <1>2, <1>5, NextOfPlan DEF Typed, i
  <2> QED BY <1>2, <1>5, <2>1, <2>2 DEF Typed
<1>6. Typed'
  BY <1>1, <1>2, <1>4, <1>5, <1>9 DEF Typed
<1>7. ReportIsTruth'
  <2>1. \E n \in 1 .. Len(Plan') : Plan'[n] = blamed'[1] /\ Len(wrote') \in {n - 1, n}
    <3>1. blamed'[1] = i /\ (Len(wrote) + 1) - 1 = Len(wrote)
      BY <1>1, <1>9
    <3> QED BY <1>9, <3>1
  <2>2. ~cmd'.byIds => IsPrefix(done', wrote') /\ Len(wrote') <= Len(done') + 1
    BY <1>1, <1>2, <1>9
  <2>3. blamed' # << >>
    BY <1>1
  <2> QED BY <1>1, <1>9, <2>1, <2>2, <2>3 DEF ReportIsTruth
<1>8. Ahead' /\ Quiet' /\ Left' /\ Reports' /\ ArrivalsHideNothing' /\ QuietRunFinishes'
  BY <1>1 DEF Ahead, Quiet, Left, Reports, ArrivalsHideNothing, Listed, QuietRunFinishes
<1> QED BY <1>6, <1>7, <1>8 DEF IndInv

LEMMA NextInv == IndInv /\ [Next]_vars => IndInv'
<1> SUFFICES ASSUME IndInv, [Next]_vars PROVE IndInv'
  OBVIOUS
<1>1. CASE Step
  BY <1>1, FetchPageInv, ListFailsInv, CheckInv, WriteOkInv, WriteFailsInv DEF Step
<1>2. CASE UNCHANGED vars
  <2>1. UNCHANGED <<issues, dismissed, changes, runs, cmd, pc, page, out, todo, done, err, blamed, wrote,
                    before, seen, losses>>
    BY <1>2 DEF vars, cloud, command, ghosts
  <2>2. Typed'
    BY <2>1 DEF IndInv, Typed
  <2>3. Ahead' /\ Quiet' /\ Left' /\ Reports'
    BY <2>1 DEF IndInv, Ahead, Quiet, Left, Reports, Passing, Missing, Asked, Plan
  <2>4. ArrivalsHideNothing' /\ QuietRunFinishes' /\ ReportIsTruth'
    BY <2>1 DEF IndInv, ArrivalsHideNothing, Listed, QuietRunFinishes, ReportIsTruth, Plan
  <2> QED BY <2>2, <2>3, <2>4 DEF IndInv
<1> QED BY <1>1, <1>2, StartInv, FoundInv, ResolvedInv, OtherAdminInv DEF Next

LEMMA Inductive == Spec => []IndInv
BY InitInv, NextInv, PTL DEF Spec

-----------------------------------------------------------------------------
(* The theorems.                                                           *)

(* The insights, the listing and what is written of it keep their types.   *)
THEOREM TypeCorrect == Spec => []TypeOK
<1>1. IndInv => TypeOK
  <2> SUFFICES ASSUME Typed PROVE TypeOK
    BY DEF IndInv
  <2>1. /\ ToSet(issues) \subseteq Ids /\ ToSet(out) \subseteq Ids /\ ToSet(todo) \subseteq Ids
        /\ ToSet(done) \subseteq Ids /\ ToSet(wrote) \subseteq Ids /\ ToSet(blamed) \subseteq Ids
    BY Members DEF Typed
  <2> QED BY <2>1 DEF Typed, TypeOK
<1> QED BY <1>1, Inductive, PTL

(* What arrives while the pages are followed never hides what was there    *)
(* (List), for every page size and any number of arrivals.                 *)
THEOREM NothingHidden == Spec => []ArrivalsHideNothing
<1>1. IndInv => ArrivalsHideNothing
  BY DEF IndInv
<1> QED BY <1>1, Inductive, PTL

(* From what a command prints it follows what it wrote (runDismiss): the   *)
(* list of one that ends well is its writes in order; the insight that the *)
(* error of a PUT names is where the writes of the plan stop, its own      *)
(* perhaps made; any other error means that nothing was written.           *)
THEOREM TruthfulReport == Spec => []ReportIsTruth
<1>1. IndInv => ReportIsTruth
  BY DEF IndInv
<1> QED BY <1>1, Inductive, PTL

(* A command that ends without error and met no change behind its back did *)
(* its whole job, however far an earlier one had come (List,               *)
(* DismissMatching, runDismiss).                                           *)
THEOREM WholeJob == Spec => []QuietRunFinishes
<1>1. IndInv => QuietRunFinishes
  BY DEF IndInv
<1> QED BY <1>1, Inductive, PTL

=============================================================================
