----------------------------- MODULE StaticSite -----------------------------
(***************************************************************************)
(* The static-site server (internal/staticsite): one process that pulls a  *)
(* copy of the site into a directory of a volume, serves it, and replaces  *)
(* it on SIGHUP while requests are in flight.                              *)
(*                                                                         *)
(* Run is the main goroutine; Load is called by it; every request is a     *)
(* goroutine of its own; time.AfterFunc removes a superseded copy Grace    *)
(* ticks after the swap.  The volume outlives the process: a container     *)
(* that is restarted finds what the one before it left there.              *)
(***************************************************************************)
EXTENDS Integers

CONSTANTS
  Dirs,          \* names os.MkdirTemp can give a copy on the content volume
  LocalDir,      \* cfg.Dir, the directory served in development
  NoDir,         \* the nil snapshot, the empty prevDir
  Reqs,          \* request goroutines
  Grace,         \* ticks between a swap and the removal of the old copy
  OpenBound,     \* ticks a request may take from snapshot to os.Open
  ShutdownDelay, \* ticks of cfg.ShutdownDelay
  ShutdownMax,   \* ticks site.Shutdown waits for requests
  MaxTag,        \* bound: times the artifact's tag is moved
  MaxStarts      \* bound: containers started on one volume

ASSUME NamesAssumption ==
  /\ LocalDir \notin Dirs
  /\ NoDir \notin Dirs
  /\ NoDir # LocalDir

(* A request opens its file within the grace period: the code leaves 30s   *)
(* for what takes microseconds.                                            *)
ASSUME TimesAssumption ==
  /\ Grace \in Nat
  /\ OpenBound \in Nat
  /\ OpenBound < Grace
  /\ ShutdownDelay \in Nat
  /\ ShutdownMax \in Nat

ASSUME BoundsAssumption ==
  /\ MaxTag \in Nat
  /\ MaxStarts \in Nat \ {0}

VARIABLES
  dirMode,   \* STATIC_SITE_DIR is set: nothing is pulled
  phase,     \* where Run is: start (initial Load), run (select), drain, closing
  load,      \* where Load is, idle outside it
  loading,   \* root: the directory Load fills
  site,      \* Handler.site, the snapshot that new requests get
  prevDir,   \* Server.prevDir
  due,       \* ticks until time.AfterFunc removes a copy, -1 for no timer
  disk,      \* copies on the content volume
  leftover,  \* those that an earlier process left there
  ver,       \* version of the artifact in each copy
  tag,       \* version the tag names at the registry
  wanted,    \* version the tag named at the last SIGHUP
  lastLoad,  \* how the last Load ended
  hup,       \* a SIGHUP waits in the one-place channel
  term,      \* SIGINT or SIGTERM came: ctx is done
  errc,      \* a listener failed
  delay,     \* ticks left of the current wait of the shutdown
  rst,       \* state of each request
  rdir,      \* the snapshot each request holds
  rleft,     \* ticks it may still take to open its file
  starts     \* containers started

procVars == <<phase, load, loading, site, prevDir, due, lastLoad, hup, term,
              errc, delay, rst, rdir, rleft>>
worldVars == <<dirMode, disk, leftover, ver, tag, wanted, starts>>
vars == <<procVars, worldVars>>

Roots == Dirs \cup {LocalDir, NoDir}

TypeOK ==
  /\ dirMode \in BOOLEAN
  /\ phase \in {"down", "start", "run", "drain", "closing"}
  /\ load \in {"idle", "begin", "resolve", "pull", "build", "swap", "record"}
  /\ loading \in Roots
  /\ site \in Roots
  /\ prevDir \in Roots
  /\ due \in [Dirs -> -1 .. Grace]
  /\ disk \in SUBSET Dirs
  /\ leftover \in SUBSET Dirs
  /\ ver \in [Dirs -> 0 .. MaxTag]
  /\ tag \in 0 .. MaxTag
  /\ wanted \in 0 .. MaxTag
  /\ lastLoad \in {"none", "ok", "error"}
  /\ hup \in BOOLEAN
  /\ term \in BOOLEAN
  /\ errc \in BOOLEAN
  /\ delay \in Nat
  /\ rst \in [Reqs -> {"idle", "held", "open", "unavailable", "unloaded"}]
  /\ rdir \in [Reqs -> Roots]
  /\ rleft \in [Reqs -> 0 .. OpenBound]
  /\ starts \in 0 .. MaxStarts

-----------------------------------------------------------------------------
(* The process: what a new one starts with, and what is lost with it.      *)

NoProcess ==
  /\ load = "idle"
  /\ loading = NoDir
  /\ site = NoDir
  /\ prevDir = NoDir
  /\ due = [d \in Dirs |-> -1]
  /\ lastLoad = "none"
  /\ hup = FALSE
  /\ term = FALSE
  /\ errc = FALSE
  /\ delay = 0
  /\ rst = [r \in Reqs |-> "idle"]
  /\ rdir = [r \in Reqs |-> NoDir]
  /\ rleft = [r \in Reqs |-> 0]

Init ==
  /\ phase = "down"
  /\ NoProcess
  /\ dirMode \in BOOLEAN
  /\ disk = {}
  /\ leftover = {}
  /\ ver = [d \in Dirs |-> 0]
  /\ tag = 0
  /\ wanted = 0
  /\ starts = 0

(* The process is gone and its timers with it; the volume holds copies.    *)
ExitLeaving(copies) ==
  /\ phase' = "down"
  /\ load' = "idle"
  /\ loading' = NoDir
  /\ site' = NoDir
  /\ prevDir' = NoDir
  /\ due' = [d \in Dirs |-> -1]
  /\ lastLoad' = "none"
  /\ hup' = FALSE
  /\ term' = FALSE
  /\ errc' = FALSE
  /\ delay' = 0
  /\ rst' = [r \in Reqs |-> "idle"]
  /\ rdir' = [r \in Reqs |-> NoDir]
  /\ rleft' = [r \in Reqs |-> 0]
  /\ disk' = copies
  /\ leftover' = copies
  /\ wanted' = 0
  /\ UNCHANGED <<dirMode, ver, tag, starts>>

(* NewServer and the head of Run: ops listens, then the initial Load.      *)
Start ==
  /\ phase = "down"
  /\ starts < MaxStarts
  /\ phase' = "start"
  /\ load' = "begin"
  /\ starts' = starts + 1
  /\ UNCHANGED <<loading, site, prevDir, due, lastLoad, hup, term, errc, delay,
                 rst, rdir, rleft, dirMode, disk, leftover, ver, tag, wanted>>

(* SIGKILL, an OOM kill or a panic, at any point.                          *)
Crash ==
  /\ phase # "down"
  /\ ExitLeaving(disk)

(* No container is started any more.                                       *)
Stopped ==
  /\ phase = "down"
  /\ starts = MaxStarts
  /\ UNCHANGED vars

-----------------------------------------------------------------------------
(* Server.Load.  fresh holds unless a local directory is served.           *)

Fresh == ~dirMode

(* os.MkdirTemp: a name not in use, and (being random) not one that a      *)
(* request still remembers.                                                *)
Unused(d) ==
  /\ d \notin disk
  /\ due[d] = -1
  /\ \A r \in Reqs : rst[r] = "held" => rdir[r] # d

(* Mutant: a reload pulls over the copy it replaces.                       *)
LoadBeginInPlace ==
  /\ load = "begin"
  /\ \/ /\ dirMode
        /\ loading' = LocalDir
        /\ load' = "build"
        /\ UNCHANGED disk
     \/ /\ Fresh
        /\ \E d \in Dirs :
             /\ IF prevDir = NoDir THEN Unused(d) ELSE d = prevDir
             /\ loading' = d
             /\ disk' = disk \cup {d}
        /\ load' = "resolve"
  /\ UNCHANGED <<phase, site, prevDir, due, lastLoad, hup, term, errc, delay,
                 rst, rdir, rleft, dirMode, leftover, ver, tag, wanted, starts>>

LoadBegin ==
  /\ load = "begin"
  /\ \/ /\ dirMode
        /\ loading' = LocalDir
        /\ load' = "build"
        /\ UNCHANGED disk
     \/ /\ Fresh
        /\ \E d \in Dirs :
             /\ Unused(d)
             /\ loading' = d
             /\ disk' = disk \cup {d}
        /\ load' = "resolve"
  /\ UNCHANGED <<phase, site, prevDir, due, lastLoad, hup, term, errc, delay,
                 rst, rdir, rleft, dirMode, leftover, ver, tag, wanted, starts>>

(* FetchReference reads the tag; the layers then come by digest.  (A pull  *)
(* repeated after a refusal reads it again: this is the last attempt.)     *)
ResolveTag ==
  /\ load = "resolve"
  /\ ~term
  /\ ver' = [ver EXCEPT ![loading] = tag]
  /\ load' = "pull"
  /\ UNCHANGED <<phase, loading, site, prevDir, due, lastLoad, hup, term, errc,
                 delay, rst, rdir, rleft, dirMode, disk, leftover, tag, wanted,
                 starts>>

(* The pull runs under ctx, so none succeeds after SIGTERM.                *)
PullOk ==
  /\ load = "pull"
  /\ ~term
  /\ load' = "build"
  /\ UNCHANGED <<phase, loading, site, prevDir, due, lastLoad, hup, term, errc,
                 delay, rst, rdir, rleft, worldVars>>

(* A Load that failed: the caller exits if it was the initial one, logs    *)
(* and goes on serving if it was a reload.                                 *)
LoadFailed(d) ==
  \/ /\ phase = "start"
     /\ ExitLeaving(d)
  \/ /\ phase = "run"
     /\ load' = "idle"
     /\ loading' = NoDir
     /\ lastLoad' = "error"
     /\ disk' = d
     /\ UNCHANGED <<phase, site, prevDir, due, hup, term, errc, delay, rst, rdir,
                    rleft, dirMode, leftover, ver, tag, wanted, starts>>

(* MkdirAll or MkdirTemp fails: the volume is full or has no inode left.   *)
MkdirFails ==
  /\ load = "begin"
  /\ Fresh
  /\ LoadFailed(disk)

(* The pull fails, times out or is cancelled: the new directory goes.      *)
PullFails ==
  /\ load \in {"resolve", "pull"}
  /\ LoadFailed(disk \ {loading})

(* Build indexed the directory and found files.                            *)
BuildOk ==
  /\ load = "build"
  /\ load' = "swap"
  /\ UNCHANGED <<phase, loading, site, prevDir, due, lastLoad, hup, term, errc,
                 delay, rst, rdir, rleft, worldVars>>

(* Mutant: Build's error is returned without removing the new copy.        *)
BuildFailsKeepsCopy ==
  /\ load = "build"
  /\ LoadFailed(disk)

(* No file, a refused placeholder, a read error: a fresh directory goes.   *)
BuildFails ==
  /\ load = "build"
  /\ LoadFailed(IF Fresh THEN disk \ {loading} ELSE disk)

(* handler.Set: one atomic store.                                          *)
SwapIn ==
  /\ load = "swap"
  /\ site' = loading
  /\ load' = "record"
  /\ UNCHANGED <<phase, loading, prevDir, due, lastLoad, hup, term, errc, delay,
                 rst, rdir, rleft, worldVars>>

(* Mutants: the old copy goes at once; old is read after the assignment.   *)
NoRemovalDelay == 0
OldDirReadLate == loading

RemovalDelay == Grace
OldDir == prevDir

(* metrics.Loaded, prevDir, and the timer that removes the old copy.  The  *)
(* site listener is started after the initial Load.                        *)
RecordLoad ==
  /\ load = "record"
  /\ load' = "idle"
  /\ loading' = NoDir
  /\ lastLoad' = "ok"
  /\ prevDir' = IF Fresh THEN loading ELSE prevDir
  /\ due' = IF Fresh /\ OldDir # NoDir
            THEN [due EXCEPT ![OldDir] = RemovalDelay] ELSE due
  /\ phase' = "run"
  /\ UNCHANGED <<site, hup, term, errc, delay, rst, rdir, rleft, worldVars>>

(* The function given to time.AfterFunc: os.RemoveAll(old).                *)
RemoveOld(d) ==
  /\ due[d] = 0
  /\ disk' = disk \ {d}
  /\ due' = [due EXCEPT ![d] = -1]
  /\ UNCHANGED <<phase, load, loading, site, prevDir, lastLoad, hup, term, errc,
                 delay, rst, rdir, rleft, dirMode, leftover, ver, tag, wanted,
                 starts>>

-----------------------------------------------------------------------------
(* The select of Run, and the shutdown.                                    *)

AtSelect == phase = "run" /\ load = "idle"

TakeHup ==
  /\ AtSelect
  /\ hup
  /\ hup' = FALSE
  /\ load' = "begin"
  /\ UNCHANGED <<phase, loading, site, prevDir, due, lastLoad, term, errc, delay,
                 rst, rdir, rleft, worldVars>>

TakeErr ==
  /\ AtSelect
  /\ errc
  /\ ExitLeaving(disk)

(* draining is stored; readiness fails while the endpoints are updated.    *)
TakeTerm ==
  /\ AtSelect
  /\ term
  /\ phase' = "drain"
  /\ delay' = ShutdownDelay
  /\ UNCHANGED <<load, loading, site, prevDir, due, lastLoad, hup, term, errc,
                 rst, rdir, rleft, worldVars>>

(* site.Shutdown closes the listener and waits for the requests.           *)
ShutdownBegin ==
  /\ phase = "drain"
  /\ delay = 0
  /\ phase' = "closing"
  /\ delay' = ShutdownMax
  /\ UNCHANGED <<load, loading, site, prevDir, due, lastLoad, hup, term, errc,
                 rst, rdir, rleft, worldVars>>

(* Mutant: the shutdown has no timeout.                                    *)
ShutdownEndUnbounded ==
  /\ phase = "closing"
  /\ \A r \in Reqs : rst[r] = "idle"
  /\ ExitLeaving(disk)

(* sctx ends the wait after ShutdownMax.                                   *)
ShutdownEnd ==
  /\ phase = "closing"
  /\ (\A r \in Reqs : rst[r] = "idle") \/ delay = 0
  /\ ExitLeaving(disk)

-----------------------------------------------------------------------------
(* The environment: signals, the registry, a failing listener, time.       *)

(* Mutant: an unbuffered channel, so a SIGHUP during a reload is dropped.  *)
SendHupUnbuffered ==
  /\ phase \in {"run", "drain", "closing"}
  /\ hup' = (hup \/ AtSelect)
  /\ wanted' = tag
  /\ UNCHANGED <<phase, load, loading, site, prevDir, due, lastLoad, term, errc,
                 delay, rst, rdir, rleft, dirMode, disk, leftover, ver, tag,
                 starts>>

(* signal.Notify is called after the initial Load: before that a SIGHUP    *)
(* has its default effect and ends the process.  The channel has one       *)
(* place; a second signal is dropped while one waits.                      *)
SendHup ==
  \/ /\ phase = "start"
     /\ ExitLeaving(disk)
  \/ /\ phase \in {"run", "drain", "closing"}
     /\ hup' = TRUE
     /\ wanted' = tag
     /\ UNCHANGED <<phase, load, loading, site, prevDir, due, lastLoad, term,
                    errc, delay, rst, rdir, rleft, dirMode, disk, leftover, ver,
                    tag, starts>>

SendTerm ==
  /\ phase # "down"
  /\ term' = TRUE
  /\ UNCHANGED <<phase, load, loading, site, prevDir, due, lastLoad, hup, errc,
                 delay, rst, rdir, rleft, worldVars>>

ListenerFails ==
  /\ phase \in {"start", "run"}
  /\ errc' = TRUE
  /\ UNCHANGED <<phase, load, loading, site, prevDir, due, lastLoad, hup, term,
                 delay, rst, rdir, rleft, worldVars>>

MoveTag ==
  /\ tag < MaxTag
  /\ tag' = tag + 1
  /\ UNCHANGED <<procVars, dirMode, disk, leftover, ver, wanted, starts>>

Countdown(n) == IF n > 0 THEN n - 1 ELSE n

(* A timer may fire late; a request that holds a snapshot may not be late. *)
Tick ==
  /\ phase # "down"
  /\ \A r \in Reqs : rst[r] = "held" => rleft[r] > 0
  /\ due' = [d \in Dirs |-> Countdown(due[d])]
  /\ delay' = Countdown(delay)
  /\ rleft' = [r \in Reqs |-> Countdown(rleft[r])]
  /\ UNCHANGED <<phase, load, loading, site, prevDir, lastLoad, hup, term, errc,
                 rst, rdir, worldVars>>

-----------------------------------------------------------------------------
(* Handler.ServeHTTP.                                                      *)

(* h.site.Load(): the snapshot is read once, at the start.                 *)
Arrive(r) ==
  /\ phase \in {"run", "drain"}
  /\ rst[r] = "idle"
  /\ rst' = [rst EXCEPT ![r] = IF site = NoDir THEN "unloaded" ELSE "held"]
  /\ rdir' = [rdir EXCEPT ![r] = site]
  /\ rleft' = [rleft EXCEPT ![r] = OpenBound]
  /\ UNCHANGED <<phase, load, loading, site, prevDir, due, lastLoad, hup, term,
                 errc, delay, worldVars>>

(* serve: a text entry is in memory, any other is opened from the copy it  *)
(* was indexed in.  Once open, the file outlives its directory.            *)
OpenEntry(r) ==
  /\ rst[r] = "held"
  /\ \E inMemory \in BOOLEAN :
       rst' = [rst EXCEPT ![r] =
                 IF inMemory \/ rdir[r] \in disk \cup {LocalDir}
                 THEN "open" ELSE "unavailable"]
  /\ UNCHANGED <<phase, load, loading, site, prevDir, due, lastLoad, hup, term,
                 errc, delay, rdir, rleft, worldVars>>

Finish(r) ==
  /\ rst[r] \in {"open", "unavailable", "unloaded"}
  /\ rst' = [rst EXCEPT ![r] = "idle"]
  /\ rdir' = [rdir EXCEPT ![r] = NoDir]
  /\ rleft' = [rleft EXCEPT ![r] = 0]
  /\ UNCHANGED <<phase, load, loading, site, prevDir, due, lastLoad, hup, term,
                 errc, delay, worldVars>>

-----------------------------------------------------------------------------

LoadStep ==
  \/ LoadBegin \/ ResolveTag \/ PullOk \/ MkdirFails \/ PullFails
  \/ BuildOk \/ BuildFails \/ SwapIn \/ RecordLoad

RunStep == TakeHup \/ TakeErr \/ TakeTerm \/ ShutdownBegin \/ ShutdownEnd

EnvStep == SendHup \/ SendTerm \/ ListenerFails \/ MoveTag \/ Tick

RequestStep(r) == Arrive(r) \/ OpenEntry(r) \/ Finish(r)

Next ==
  \/ Start \/ Crash \/ Stopped
  \/ LoadStep
  \/ \E d \in Dirs : RemoveOld(d)
  \/ RunStep
  \/ EnvStep
  \/ \E r \in Reqs : RequestStep(r)

(* Go runs every goroutine that can run, time passes, and a                *)
(* select with several ready cases picks one of them at random, so a case  *)
(* that is ready again and again is taken (hence strong fairness).  That a *)
(* client reads its response is not assumed.                               *)
Fairness ==
  /\ WF_vars(LoadStep \/ ShutdownBegin \/ ShutdownEnd)
  /\ WF_vars(Tick)
  /\ SF_vars(TakeTerm)
  /\ \A r \in Reqs : WF_vars(OpenEntry(r))

Spec == Init /\ [][Next]_vars

FairSpec == Spec /\ Fairness

-----------------------------------------------------------------------------
(* Properties.                                                             *)

(* What new requests are given is on the volume: no failed reload and no   *)
(* timer of an earlier swap removes the copy that is being served, and the *)
(* site port is only open once there is content (server.go Load and Run).  *)
ServedOnDisk ==
  phase \in {"run", "drain", "closing"} => site \in disk \cup {LocalDir}

(* No request is answered 500 "content unavailable" or 503 "content not    *)
(* loaded", however many reloads overtake it between its snapshot and its  *)
(* os.Open (handler.go serve; the 30 seconds of server.go Load).           *)
NoContentUnavailable ==
  \A r \in Reqs : rst[r] \notin {"unavailable", "unloaded"}

(* A SIGHUP is not lost, even one that comes while a reload is running:    *)
(* when the server is back at its select with no signal waiting and its    *)
(* last load succeeded, it serves what the tag named at the last SIGHUP or *)
(* something newer.                                                        *)
NoLostReload ==
  (AtSelect /\ ~hup /\ lastLoad = "ok" /\ Fresh) => ver[site] >= wanted

(* A copy that this process made is served, being loaded, or waiting for   *)
(* its timer: no path through Load forgets one on the memory-backed volume.*)
NoOrphanCopy ==
  phase # "down" =>
    \A d \in disk : \/ d \in leftover
                    \/ d \in {site, loading, prevDir}
                    \/ due[d] >= 0

(* The server as its clients see it: the version the snapshot holds, and   *)
(* for each request the version it is owed while its copy is on the volume *)
(* (a text entry is in memory, but which it is the request learns later).  *)
NoVersion == -1
Sent == -2
Lost == -3

VersionIn(d) ==
  IF d = NoDir THEN NoVersion ELSE IF d = LocalDir THEN 0 ELSE ver[d]

Owed(r) ==
  IF rst[r] = "idle" THEN NoVersion
  ELSE IF rst[r] = "open" THEN Sent
  ELSE IF rst[r] = "held" /\ rdir[r] \in disk \cup {LocalDir} THEN VersionIn(rdir[r])
  ELSE Lost

Promise == INSTANCE SiteService WITH
  Requests <- Reqs, Versions <- 0 .. MaxTag, Nothing <- NoVersion,
  Answered <- Sent, current <- VersionIn(site),
  asked <- [r \in Reqs |-> Owed(r)]

(* The server implements SiteService: whatever reloads, failures, timers   *)
(* and restarts happen under it, a request is answered from the one        *)
(* version that was served when it came, never from a copy refilled or     *)
(* removed meanwhile, and what is served never goes back to an older one.  *)
ImplementsSiteService == Promise!Spec

(* After SIGTERM the process ends, also when a reload is under way or      *)
(* SIGHUPs keep coming.                                                    *)
TermExits == term ~> (phase = "down")

-----------------------------------------------------------------------------
(* The inductive invariant behind ServedOnDisk, NoContentUnavailable,      *)
(* NoLostReload and NoOrphanCopy.                                          *)

Serving == phase \in {"run", "drain", "closing"}
Filling == load \in {"resolve", "pull", "build", "swap"}

(* Where Run is decides what Load may be doing and what there is to serve. *)
PhaseInv ==
  /\ phase \in {"drain", "closing"} => load = "idle"
  /\ phase \in {"down", "start"} =>
       /\ prevDir = NoDir
       /\ load # "record" => site = NoDir
       /\ \A d \in Dirs : due[d] = -1
       /\ \A r \in Reqs : rst[r] = "idle"
       /\ wanted = 0
       /\ ~hup
  /\ phase = "down" => load = "idle"
  /\ phase = "start" => load # "idle"

(* The directory that Load fills is a copy of its own: on the volume, with *)
(* no timer, and not the one served.                                       *)
LoadingInv ==
  /\ load \in {"idle", "begin"} => loading = NoDir
  /\ load \notin {"idle", "begin"} =>
       IF dirMode THEN loading = LocalDir ELSE loading \in Dirs
  /\ dirMode => load \notin {"resolve", "pull"}
  /\ loading \in Dirs =>
       /\ loading \in disk
       /\ due[loading] = -1
       /\ loading # prevDir
  /\ Filling /\ Fresh => loading # site
  /\ load = "record" => site = loading

(* prevDir is the copy served, except between the swap and its recording.  *)
SiteInv ==
  /\ dirMode => /\ prevDir = NoDir
                /\ site \in {NoDir, LocalDir}
                /\ Serving => site = LocalDir
  /\ Fresh => /\ Serving => prevDir \in Dirs
              /\ prevDir # LocalDir
              /\ load # "record" => site = prevDir
  /\ prevDir \in Dirs => prevDir \in disk /\ due[prevDir] = -1

(* A snapshot in use is current, or its timer outlasts the request.        *)
HeldInv ==
  \A r \in Reqs : rst[r] = "held" =>
    /\ Serving
    /\ \/ rdir[r] = LocalDir
       \/ /\ rdir[r] \in Dirs
          /\ rdir[r] \in disk
          /\ rdir[r] \in {site, prevDir} \/ due[rdir[r]] > rleft[r]

CopiesInv ==
  \A d \in disk : \/ d \in leftover
                  \/ d \in {site, loading, prevDir}
                  \/ due[d] >= 0

(* The load under way, if it has read the tag, read it after the last      *)
(* SIGHUP, or that SIGHUP still waits.                                     *)
ReloadInv ==
  /\ wanted <= tag
  /\ (Fresh /\ load \in {"pull", "build", "swap", "record"} /\ ~hup) =>
       ver[loading] >= wanted
  /\ (Fresh /\ phase = "run" /\ load = "idle" /\ ~hup /\ lastLoad = "ok") =>
       ver[site] >= wanted

(* No copy is newer than the tag, so none is older than the one it will    *)
(* replace (for ImplementsSiteService).                                    *)
AgeInv ==
  /\ \A d \in Dirs : ver[d] <= tag
  /\ (Fresh /\ load \in {"pull", "build", "swap"} /\ site \in Dirs) =>
       ver[site] <= ver[loading]

IndInv ==
  /\ TypeOK
  /\ PhaseInv
  /\ LoadingInv
  /\ SiteInv
  /\ HeldInv
  /\ CopiesInv
  /\ ReloadInv
  /\ NoContentUnavailable

=============================================================================
