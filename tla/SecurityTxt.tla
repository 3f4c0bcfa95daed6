---------------------------- MODULE SecurityTxt ----------------------------
(***************************************************************************)
(* edge-securitytxt: plan and apply the security_txt blocks of the config  *)
(* file.  A run reads the clock and the file once, waits for its token,    *)
(* checks every declared date, reads the live document of every target     *)
(* zone and, with -apply, writes the ones that differ, stopping at the     *)
(* first failure.  Several runs (an operator's and a pipeline's) may be    *)
(* under way, people edit the file and the documents, and days pass.       *)
(* Cloudflare is external: it stores a document whole and spells its date  *)
(* in its own way.                                                         *)
(***************************************************************************)
EXTENDS Naturals

CONSTANTS
    Zones,        \* zone names: numbers, in the order sort.Strings gives
    Account,      \* [Zones -> account names]
    Pending,      \* the zones whose zone_id is not known yet
    Texts,        \* contacts and languages: what a document says but its date
    Dates,        \* the days people write into a document
    Runs,         \* invocations of the command, each used once
    MaxAhead, WarnWithin,
    MaxNow,       \* bound: the last day
    MaxEdits      \* bound: edits of the file and of live documents

ASSUME HorizonAssumption ==
  /\ Zones \subseteq Nat /\ Pending \subseteq Zones /\ Dates \subseteq Nat
  /\ WarnWithin \in Nat \ {0} /\ MaxAhead \in Nat /\ WarnWithin < MaxAhead
  /\ MaxNow \in Nat /\ MaxEdits \in Nat

Accounts == {Account[z] : z \in Zones}

\* No block in the file; no document in Cloudflare, which reads as the zero Doc.
None == [enabled |-> FALSE, text |-> "", at |-> 0, form |-> ""]

\* Doc: a date is an instant and its spelling.
Docs(form, enabled) ==
  [enabled : enabled, text : Texts, at : Dates, form : {form}]
Blocks    == {None} \cup Docs("file", {TRUE})        \* FromConfig enables
Documents == {None} \cup Docs("api", BOOLEAN)

VARIABLES
    now,       \* the day
    file,      \* [Zones -> Blocks]: the config file
    live,      \* [Zones -> Documents]: what Cloudflare serves
    run,       \* [Runs -> the state of each invocation]
    edits,     \* edits made by people so far
    touched    \* ghost: [Runs -> zones that others changed after the run's
               \* last request on them]

txtVars == <<now, file, live, run, edits, touched>>

\* A run: where it is, the clock it read, its -apply, its targets with what they
\* want, and the fields Live, Differs, Warnings and Applied of its changes.
\* "sent" is a ghost: the zones a PUT was sent for, answered or not.
NotStarted ==
  [pc |-> "idle", start |-> 0, apply |-> FALSE, want |-> <<>>, live |-> <<>>,
   differs |-> {}, warned |-> {}, applied |-> {}, sent |-> {}]

TxtInit ==
  /\ now = 0
  /\ file \in [Zones -> Blocks]
  /\ live = [z \in Zones |-> None]
  /\ run = [r \in Runs |-> NotStarted]
  /\ edits = 0
  /\ touched = [r \in Runs |-> {}]

-----------------------------------------------------------------------------
(* People, and time. *)

Day ==
  /\ now < MaxNow /\ now' = now + 1
  /\ UNCHANGED <<file, live, run, edits, touched>>

\* A block is added, renewed or dropped.
EditFile(z, d) ==
  /\ edits < MaxEdits /\ edits' = edits + 1
  /\ d # file[z] /\ file' = [file EXCEPT ![z] = d]
  /\ UNCHANGED <<now, live, run, touched>>

\* The document of z changes: news to every run but those that made the change.
Store(z, d, movers) ==
  /\ live' = [live EXCEPT ![z] = d]
  /\ touched' = [r \in Runs |-> IF r \in movers THEN touched[r] \ {z}
                                                ELSE touched[r] \cup {z}]

\* Someone changes a document in Cloudflare's dashboard.
EditLive(z, d) ==
  /\ edits < MaxEdits /\ edits' = edits + 1
  /\ d # live[z] /\ Store(z, d, {})
  /\ UNCHANGED <<now, file, run>>

-----------------------------------------------------------------------------
(* The command. *)

\* Targets: the zones with a block and an id, of the zones and accounts that
\* -zone and -account leave.
Targets(zones, accounts) ==
  {z \in zones \ Pending : file[z] # None /\ Account[z] \in accounts}

\* CheckExpires on a date that parses, which config.Parse has made sure of.
Refused(at, t) == at <= t \/ at > t + MaxAhead
Warns(at, t)   == at <= t + WarnWithin

\* Same: the dates are compared as instants.
Same(a, b) ==
  /\ a.enabled = b.enabled /\ a.text = b.text
  /\ a # None /\ b # None /\ a.at = b.at

FirstZone(zs) == CHOOSE z \in zs : \A y \in zs : z <= y
TxtFail(r)   == run' = [run EXCEPT ![r].pc = "failed"]

\* main reads the clock, runWith the file.  No target is an error.
StartRun(r, zones, accounts, apply) ==
  /\ run[r].pc = "idle"
  /\ LET ts == Targets(zones, accounts)
     IN  run' = [run EXCEPT ![r] =
           [NotStarted EXCEPT !.pc = IF ts = {} THEN "failed" ELSE "token",
                              !.start = now, !.apply = apply,
                              !.want = [z \in ts |-> file[z]]]]
  /\ UNCHANGED <<now, file, live, edits, touched>>

\* Mutant: only the first target's date is checked before anything is read.
CheckFirst(r) ==
  LET me == run[r]
      ts == DOMAIN me.want
  IN  IF Refused(me.want[FirstZone(ts)].at, me.start) THEN TxtFail(r)
      ELSE run' = [run EXCEPT ![r].pc = "read",
                              ![r].warned = {z \in ts : Warns(me.want[z].at, me.start)}]

\* The first half of Plan: every date is checked before anything is read.
CheckAll(r) ==
  LET me == run[r]
      ts == DOMAIN me.want
  IN  IF \E z \in ts : Refused(me.want[z].at, me.start) THEN TxtFail(r)
      ELSE run' = [run EXCEPT ![r].pc = "read",
                              ![r].warned = {z \in ts : Warns(me.want[z].at, me.start)}]

\* The credential helper prints the token, however long it takes, or fails.
Token(r) ==
  /\ run[r].pc = "token"
  /\ CheckAll(r) \/ TxtFail(r)
  /\ UNCHANGED <<now, file, live, edits, touched>>

\* The second half of Plan: the next zone is read.  A failed GET ends the run.
Read(r) ==
  LET me   == run[r]
      left == DOMAIN me.want \ DOMAIN me.live
      z    == FirstZone(left)
  IN  /\ me.pc = "read"
      /\ \/ /\ TxtFail(r) /\ UNCHANGED touched
         \/ /\ run' = [run EXCEPT
                 ![r].live = [y \in {z} \cup DOMAIN me.live |->
                                IF y = z THEN live[z] ELSE me.live[y]],
                 ![r].differs = IF Same(live[z], me.want[z]) THEN @ ELSE @ \cup {z},
                 ![r].pc = IF left # {z} THEN "read"
                           ELSE IF me.apply THEN "write" ELSE "done"]
            /\ touched' = [touched EXCEPT ![r] = @ \ {z}]
      /\ UNCHANGED <<now, file, live, edits>>

\* Mutant: a zone that fails is passed over.
GoOn(r, z) == run' = [run EXCEPT ![r].differs = @ \ {z}, ![r].sent = @ \cup {z}]

\* A PUT that fails stops Apply.
Stop(r, z) == run' = [run EXCEPT ![r].pc = "failed", ![r].sent = @ \cup {z}]

\* Apply: the next zone that differs is written; the answer may be a failure,
\* or be lost, before or after Cloudflare stored the document.
Write(r) ==
  LET me   == run[r]
      left == me.differs \ me.applied
      z    == FirstZone(left)
      kept == [me.want[z] EXCEPT !.form = "api"]
  IN  /\ me.pc = "write" /\ left # {}
      /\ \/ /\ run' = [run EXCEPT ![r].applied = @ \cup {z}, ![r].sent = @ \cup {z}]
            /\ Store(z, kept, {r})
         \/ Stop(r, z) /\ Store(z, kept, {r})
         \/ Stop(r, z) /\ UNCHANGED <<live, touched>>
      /\ UNCHANGED <<now, file, edits>>

\* runWith prints the changes.
Report(r) ==
  /\ run[r].pc = "write" /\ run[r].differs = run[r].applied
  /\ run' = [run EXCEPT ![r].pc = "done"]
  /\ UNCHANGED <<now, file, live, edits, touched>>

Command(r) ==
  \/ \E zones \in {Zones} \cup {{z} : z \in Zones},
        accounts \in {Accounts} \cup {{a} : a \in Accounts}, apply \in BOOLEAN :
       StartRun(r, zones, accounts, apply)
  \/ Token(r) \/ Read(r) \/ Write(r) \/ Report(r)

TxtNext ==
  \/ Day
  \/ \E z \in Zones : \E d \in Blocks : EditFile(z, d)
  \/ \E z \in Zones \ Pending : \E d \in Documents : EditLive(z, d)
  \/ \E r \in Runs : Command(r)

TxtSpec == TxtInit /\ [][TxtNext]_txtVars

-----------------------------------------------------------------------------
(* Properties. *)

TxtTypeOK ==
  /\ now \in 0 .. MaxNow
  /\ file \in [Zones -> Blocks]
  /\ live \in [Zones -> Documents]
  /\ \A r \in Runs :
       /\ run[r].pc \in {"idle", "token", "read", "write", "done", "failed"}
       /\ DOMAIN run[r].live \subseteq DOMAIN run[r].want
       /\ run[r].applied \subseteq run[r].differs
  /\ edits \in 0 .. MaxEdits
  /\ touched \in [Runs -> SUBSET Zones]

\* What a reader of the two documents would call the same.
Says(a, b) == [a EXCEPT !.form = ""] = [b EXCEPT !.form = ""]

\* What the report of a run says of z: it has the document the run wanted.
Reported(r, z) ==
  /\ run[r].pc = "done" /\ z \in DOMAIN run[r].want
  /\ run[r].apply \/ z \notin run[r].differs

\* "changed" and "unchanged" are true: when a run ends without an error, every
\* zone it calls written or unchanged has the declared document, unless someone
\* else changed it after the run's last request (Plan, Apply, printChanges).
DocumentAsReported ==
  \A r \in Runs, z \in Zones :
    Reported(r, z) /\ z \notin touched[r] => Says(live[z], run[r].want[z])

\* A zone that a run reports without a warning does not lapse within WarnWithin of
\* that run, and no run publishes a date more than a year ahead of it: whoever
\* runs the command once in that time hears of a date before it passes.  One
\* date that is refused keeps every document of the run as it was (CheckExpires,
\* and Plan's "nothing is read until all pass").
HeardInTime ==
  \A r \in Runs, z \in Zones :
    /\ Reported(r, z) /\ z \notin touched[r] /\ z \notin run[r].warned
         => live[z].at > run[r].start + WarnWithin
    /\ z \in run[r].sent \/ Reported(r, z)
         => \A y \in DOMAIN run[r].want : ~Refused(run[r].want[y].at, run[r].start)

=============================================================================
