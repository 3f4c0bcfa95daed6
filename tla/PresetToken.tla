----------------------------- MODULE PresetToken -----------------------------
(***************************************************************************)
(* Credentials for a Pulumi stack (cloudflare/presettoken): Estate and     *)
(* Source.Token get a short-lived credential from sluis, or, with break-   *)
(* glass on, mint one with the account's root; the answer is checked,      *)
(* verified against Cloudflare and handed out.                             *)
(*                                                                         *)
(* Several stacks of one process call it at once and share the record of   *)
(* checked sluisctl binaries, guarded by versionMu.  Time is kept as what  *)
(* is left: of each credential's life, and of each bounded wait.           *)
(***************************************************************************)
EXTENDS Integers, SluisVersion

CONSTANTS
  Callers,             \* goroutines that call Estate.Credential
  NoCaller,            \* versionMu is free
  Paths,               \* binaries that sluisctl may resolve to
  Version,             \* what each of them says its version is
  SluisctlMin,         \* Config.SluisctlMin
  Lifetimes, Minimums, \* values of Config.Lifetime and Config.MinRemaining
  MaxLifetime, DefaultLifetime, MinMinRemaining, DefaultMinRemaining,
  expirySlack,         \* how far past the lifetime an answer may lie
  verifyWindow,        \* how long a new token is verified, one try per tick
  r2Settle,            \* how long an R2 pair is left alone
  Answers              \* remaining lives that sluis may answer with

ASSUME DurationsAssumption ==
  /\ MaxLifetime \in Nat /\ DefaultLifetime \in Nat \ {0}
  /\ MinMinRemaining \in Nat /\ DefaultMinRemaining \in Nat
  /\ expirySlack \in Nat /\ verifyWindow \in Nat /\ r2Settle \in Nat
  /\ Lifetimes \subseteq Int /\ Minimums \subseteq Int /\ Answers \subseteq Int

(* The code's values: a minute, fifteen minutes, 20 and 5 seconds.         *)
ASSUME MarginAssumption ==
  /\ verifyWindow < MinMinRemaining /\ verifyWindow < DefaultMinRemaining
  /\ r2Settle <= verifyWindow

ASSUME NoCallerAssumption == NoCaller \notin Callers

(* Config.Validate refuses a minimum that is not a release.                *)
ASSUME VersionAssumption ==
  /\ Bad \notin Nat
  /\ Version \in [Paths -> VersionStrings]
  /\ SluisctlMin \in VersionStrings /\ Readable(SluisctlMin) /\ ~SluisctlMin.pre

VARIABLES
  Lifetime, MinRemaining,  \* the configuration, 0 for unset
  glassEnv,   \* the break-glass variable is "1"
  item,       \* the 1Password item of the root is named
  versionOK,  \* binaries whose version was found good
  versionMu,  \* who holds the lock
  pc,         \* where each call is
  r2,         \* the preset hands out an R2 pair
  path,       \* the binary the call resolved
  left,       \* what remains of the credential's life
  wait,       \* what remains of the current wait
  nap,        \* settle sleeps until the next tick
  got,        \* remaining life of the credential last handed out, or None
  via         \* where the credential comes from

conf == <<Lifetime, MinRemaining, glassEnv, item>>
vars == <<conf, versionOK, versionMu, pc, r2, path, left, wait, nap, got, via>>

None == -1

(* min is the shorter of two durations.                                    *)
Shorter(a, b) == IF a < b THEN a ELSE b

lifetime == IF Lifetime > 0 THEN Shorter(Lifetime, MaxLifetime)
            ELSE Shorter(DefaultLifetime, MaxLifetime)
minRemaining == IF MinRemaining > 0 THEN MinRemaining ELSE DefaultMinRemaining

(* Mutant: the floor of MinRemaining is forgotten.            *)
ValidateNoFloor ==
  /\ Lifetime >= 0 /\ Lifetime <= MaxLifetime
  /\ MinRemaining >= 0
  /\ minRemaining < lifetime

(* Config.Validate, as far as it is about durations.                       *)
Validate ==
  /\ Lifetime >= 0 /\ Lifetime <= MaxLifetime
  /\ MinRemaining >= 0
  /\ MinRemaining > 0 => MinRemaining >= MinMinRemaining
  /\ minRemaining < lifetime

TypeOK ==
  /\ Lifetime \in Lifetimes /\ MinRemaining \in Minimums
  /\ glassEnv \in BOOLEAN /\ item \in BOOLEAN
  /\ versionOK \in SUBSET Paths
  /\ versionMu \in Callers \cup {NoCaller}
  /\ pc \in [Callers -> {"idle", "resolve", "lock", "check", "mint", "root",
                         "created", "settle"}]
  /\ r2 \in [Callers -> BOOLEAN]
  /\ path \in [Callers -> Paths]
  /\ left \in [Callers -> Nat]
  /\ wait \in [Callers -> Nat]
  /\ nap \in [Callers -> BOOLEAN]
  /\ got \in [Callers -> Int]
  /\ via \in [Callers -> {"none", "sluis", "root"}]

Init ==
  /\ Lifetime \in Lifetimes /\ MinRemaining \in Minimums
  /\ glassEnv \in BOOLEAN /\ item \in BOOLEAN
  /\ versionOK = {}
  /\ versionMu = NoCaller
  /\ pc = [c \in Callers |-> "idle"]
  /\ r2 = [c \in Callers |-> FALSE]
  /\ path \in [Callers -> Paths]
  /\ left = [c \in Callers |-> 0]
  /\ wait = [c \in Callers |-> 0]
  /\ nap = [c \in Callers |-> FALSE]
  /\ got = [c \in Callers |-> None]
  /\ via = [c \in Callers |-> "none"]

Goto(c, l) == pc' = [pc EXCEPT ![c] = l]

-----------------------------------------------------------------------------
(* Estate.Config and the head of Source.Token.                             *)

(* BreakGlass.Enabled: the block is filled in only when the item is known. *)
Enabled == item /\ glassEnv

(* Mutant: Estate.Config has no case for break-glass without an item.      *)
ConfigAlways == TRUE

Config == item \/ ~glassEnv

(* A call on its way to one of the two sources.  An R2 pair of sluis needs *)
(* no account id; the others do.                                           *)
Call(c) ==
  /\ pc[c] = "idle"
  /\ Config /\ Validate
  /\ \E pair, accountID \in BOOLEAN :
       /\ accountID \/ (pair /\ ~Enabled)
       /\ r2' = [r2 EXCEPT ![c] = pair]
  /\ Goto(c, IF Enabled THEN "root" ELSE "resolve")
  /\ via' = [via EXCEPT ![c] = IF Enabled THEN "root" ELSE "sluis"]
  /\ got' = [got EXCEPT ![c] = None]
  /\ UNCHANGED <<conf, versionOK, versionMu, path, left, wait, nap>>

(* A call that returns an error before or at its source.                   *)
Fail(c) ==
  /\ Goto(c, "idle")
  /\ via' = [via EXCEPT ![c] = "none"]
  /\ UNCHANGED <<conf, versionOK, r2, path, left, wait, nap, got>>

(* The configuration, the preset's name or the account id is refused.      *)
CallRefused(c) ==
  /\ pc[c] = "idle"
  /\ got' = [got EXCEPT ![c] = None]
  /\ via' = [via EXCEPT ![c] = "none"]
  /\ UNCHANGED <<conf, versionOK, versionMu, pc, r2, path, left, wait, nap>>

-----------------------------------------------------------------------------
(* fromSluis.                                                              *)

(* resolve: a binary under one of the prefixes.                            *)
Resolve(c) ==
  /\ pc[c] = "resolve"
  /\ \E p \in Paths : path' = [path EXCEPT ![c] = p]
  /\ Goto(c, "lock")
  /\ UNCHANGED <<conf, versionOK, versionMu, r2, left, wait, nap, got, via>>

ResolveFails(c) ==
  /\ pc[c] = "resolve"
  /\ Fail(c)
  /\ UNCHANGED versionMu

(* Mutant: the lock guards the record but is not held across the check.    *)
LockReleased(c) ==
  /\ pc[c] = "lock"
  /\ versionMu = NoCaller
  /\ Goto(c, IF path[c] \in versionOK THEN "mint" ELSE "check")
  /\ UNCHANGED <<conf, versionOK, versionMu, r2, path, left, wait, nap, got, via>>

(* requireSluisctl: the lock, and the record of good binaries.             *)
Lock(c) ==
  /\ pc[c] = "lock"
  /\ versionMu = NoCaller
  /\ IF path[c] \in versionOK
     THEN Goto(c, "mint") /\ UNCHANGED versionMu
     ELSE Goto(c, "check") /\ versionMu' = c
  /\ UNCHANGED <<conf, versionOK, r2, path, left, wait, nap, got, via>>

(* `sluisctl version` answers; only a good version is recorded.            *)
VersionGood(c) ==
  /\ pc[c] = "check"
  /\ versionAtLeast(Version[path[c]], SluisctlMin)
  /\ versionOK' = versionOK \cup {path[c]}
  /\ versionMu' = NoCaller
  /\ Goto(c, "mint")
  /\ UNCHANGED <<conf, r2, path, left, wait, nap, got, via>>

(* Mutant: the error return does not unlock.                               *)
VersionBadKeepsLock(c) ==
  /\ pc[c] = "check"
  /\ Fail(c)
  /\ UNCHANGED versionMu

(* The command fails, its answer does not parse or names too old a version *)
VersionBad(c) ==
  /\ pc[c] = "check"
  /\ Fail(c)
  /\ versionMu' = NoCaller

(* The checks of Token on what came back: not longer than asked for, not   *)
(* about to expire.                                                        *)
NotTooLong(n) == n <= lifetime + expirySlack
LongEnough(n) == n >= minRemaining

(* Accepted with n left: settle begins.                                    *)
Accept(c, n) ==
  /\ NotTooLong(n) /\ LongEnough(n)
  /\ Goto(c, "settle")
  /\ left' = [left EXCEPT ![c] = n]
  /\ wait' = [wait EXCEPT ![c] = IF r2[c] THEN r2Settle ELSE verifyWindow]
  /\ nap' = [nap EXCEPT ![c] = FALSE]

(* sluisctl hands out a credential.                                        *)
Mint(c) ==
  /\ pc[c] = "mint"
  /\ \E n \in Answers : Accept(c, n)
  /\ UNCHANGED <<conf, versionOK, versionMu, r2, path, got, via>>

(* Any other exit code, a time-out, an answer that does not parse, is of   *)
(* the wrong kind, too long or too short.                                  *)
MintFails(c) ==
  /\ pc[c] = "mint"
  /\ Fail(c)
  /\ UNCHANGED versionMu

-----------------------------------------------------------------------------
(* breakGlass.                                                             *)

(* The root is read, the permission groups looked up, and the child asked  *)
(* for with the expiry computed before the request.                        *)
CreateChild(c) ==
  /\ pc[c] = "root"
  /\ Goto(c, "created")
  /\ left' = [left EXCEPT ![c] = Shorter(lifetime, MaxLifetime)]
  /\ UNCHANGED <<conf, versionOK, versionMu, r2, path, wait, nap, got, via>>

ChildAnswer(c) ==
  /\ pc[c] = "created"
  /\ Accept(c, left[c])
  /\ UNCHANGED <<conf, versionOK, versionMu, r2, path, got, via>>

(* No policies, no root, no such group, an error or no answer from         *)
(* Cloudflare, or one that came too late.                                  *)
ChildFails(c) ==
  /\ pc[c] \in {"root", "created"}
  /\ Fail(c)
  /\ UNCHANGED versionMu

-----------------------------------------------------------------------------
(* settle.                                                                 *)

HandOut(c) ==
  /\ Goto(c, "idle")
  /\ got' = [got EXCEPT ![c] = left[c]]
  /\ UNCHANGED <<conf, versionOK, versionMu, r2, path, left, wait, nap, via>>

(* Cloudflare says the token is active.                                    *)
Verified(c) ==
  /\ pc[c] = "settle" /\ ~r2[c] /\ ~nap[c]
  /\ HandOut(c)

(* It does not, yet: sleep until the next try.                             *)
NotYet(c) ==
  /\ pc[c] = "settle" /\ ~r2[c] /\ ~nap[c]
  /\ wait[c] > 0
  /\ nap' = [nap EXCEPT ![c] = TRUE]
  /\ UNCHANGED <<conf, versionOK, versionMu, pc, r2, path, left, wait, got, via>>

(* The last try failed, or the window or the caller's context ended.       *)
SettleFails(c) ==
  /\ pc[c] = "settle"
  /\ Fail(c)
  /\ UNCHANGED versionMu

R2Settled(c) ==
  /\ pc[c] = "settle" /\ r2[c] /\ wait[c] = 0
  /\ HandOut(c)

Countdown(n) == IF n > 0 THEN n - 1 ELSE 0

(* A wait that has run out ends before time goes on.                       *)
NobodyOverdue == \A c \in Callers : pc[c] = "settle" => wait[c] > 0

Tick ==
  /\ NobodyOverdue
  /\ \E c \in Callers : pc[c] \in {"created", "settle"}
  /\ left' = [c \in Callers |-> IF pc[c] \in {"created", "settle"}
                                THEN Countdown(left[c]) ELSE left[c]]
  /\ wait' = [c \in Callers |-> IF pc[c] = "settle"
                                THEN wait[c] - 1 ELSE wait[c]]
  /\ nap' = [c \in Callers |-> FALSE]
  /\ UNCHANGED <<conf, versionOK, versionMu, pc, r2, path, got, via>>

-----------------------------------------------------------------------------

Step(c) ==
  \/ Resolve(c) \/ ResolveFails(c) \/ Lock(c) \/ VersionGood(c) \/ VersionBad(c)
  \/ Mint(c) \/ MintFails(c) \/ CreateChild(c) \/ ChildAnswer(c) \/ ChildFails(c)
  \/ Verified(c) \/ NotYet(c) \/ SettleFails(c) \/ R2Settled(c)

Next ==
  \/ \E c \in Callers : Call(c) \/ CallRefused(c) \/ Step(c)
  \/ Tick

(* Every command and request has a time-out, time passes, and Go's mutex   *)
(* does not starve a waiter (hence strong fairness of Lock).               *)
Fairness ==
  /\ \A c \in Callers : /\ SF_vars(Lock(c))
                        /\ WF_vars(Step(c))
  /\ WF_vars(Tick)

Spec == Init /\ [][Next]_vars

FairSpec == Spec /\ Fairness

-----------------------------------------------------------------------------
(* Properties.                                                             *)

(* A credential is alive when it is handed out, although its life is       *)
(* checked before settle waits: what is left is at least MinRemaining less *)
(* the verify window, which Validate's floor keeps above zero.             *)
HandedOutAlive ==
  \A c \in Callers : got[c] # None =>
    /\ got[c] > 0
    /\ got[c] >= minRemaining - verifyWindow

(* No credential outlives what was asked for by more than the slack, and a *)
(* break-glass child never outlives MaxLifetime.                           *)
HandedOutShort ==
  \A c \in Callers : got[c] # None =>
    /\ got[c] <= lifetime + expirySlack
    /\ via[c] = "root" => got[c] <= MaxLifetime

(* With the break-glass variable set, no credential is asked of sluis:     *)
(* when the root's item is not known the call fails instead of falling     *)
(* back (estate.go Config), and the root is used only then.                *)
NoSilentFallback ==
  \A c \in Callers :
    /\ via[c] = "sluis" => ~glassEnv
    /\ via[c] = "root" => glassEnv

(* sluisctl is asked for a credential only if its version was found good,  *)
(* a version that can be read was found good only if it does not precede   *)
(* the minimum, which a pre-release of it does, and two version checks     *)
(* never run at once.                                                      *)
VersionGate ==
  /\ \A c \in Callers :
       /\ pc[c] = "mint" => path[c] \in versionOK
       /\ pc[c] = "check" => versionMu = c
  /\ \A p \in versionOK : Readable(Version[p]) => ~Precedes(Version[p], SluisctlMin)

(* version.go: "an unparsable have is older than anything".                *)
UnreadableIsOld == \A p \in versionOK : Readable(Version[p])

(* Every call returns, whoever holds the lock and whatever fails.          *)
CallsReturn == \A c \in Callers : pc[c] # "idle" ~> pc[c] = "idle"

-----------------------------------------------------------------------------
(* The inductive invariant behind them.                                    *)

(* Only a validated configuration gets past the head of Token.             *)
ValidInv == \A c \in Callers : pc[c] # "idle" \/ got[c] # None => Validate /\ Config

(* While settle waits, the life that was checked has lost no more than the *)
(* time waited.                                                            *)
SettleInv ==
  \A c \in Callers :
    /\ pc[c] = "settle" =>
         LET window == IF r2[c] THEN r2Settle ELSE verifyWindow
         IN /\ wait[c] <= window
            /\ left[c] >= minRemaining - (window - wait[c])
            /\ left[c] <= lifetime + expirySlack
            /\ via[c] = "root" => left[c] <= MaxLifetime
    /\ pc[c] = "created" => left[c] <= lifetime

ViaInv ==
  \A c \in Callers :
    /\ pc[c] \in {"resolve", "lock", "check", "mint"} => via[c] = "sluis"
    /\ pc[c] \in {"root", "created"} => via[c] = "root"

IndInv ==
  /\ TypeOK
  /\ ValidInv
  /\ SettleInv
  /\ ViaInv
  /\ HandedOutAlive
  /\ HandedOutShort
  /\ NoSilentFallback
  /\ VersionGate

=============================================================================
