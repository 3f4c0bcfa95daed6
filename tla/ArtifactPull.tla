---------------------------- MODULE ArtifactPull ----------------------------
(***************************************************************************)
(* Pulling the site's artifact (internal/staticsite: oci.go, unpack.go,    *)
(* registryauth.go): how a pull authenticates, the ECR token kept between  *)
(* pulls, the one repetition after a 401, and what the layers may write    *)
(* into the target directory.                                              *)
(*                                                                         *)
(* One goroutine pulls (Server.Load, called by Run), so the mutexes are    *)
(* never contended.  The registry, its tokens and the oras client that     *)
(* answers a 401 with a credential are external.                           *)
(***************************************************************************)
EXTENDS Integers, Sequences, SequencesExt

CONSTANTS
  Versions,   \* manifests the tag may name
  Arts,       \* what the versions may hold: functions from version to layers
  MaxBytes,   \* cfg.MaxBytes
  MaxFiles,   \* cfg.MaxFiles
  Lifetime,   \* ecrTokenLifetime
  Answers,    \* expiries ECR may answer with, relative to now
  MaxNow,     \* bound: clock
  MaxTokens   \* bound: tokens ECR issues

ASSUME LimitsAssumption ==
  /\ MaxBytes \in Nat
  /\ MaxFiles \in Nat
  /\ Lifetime \in Nat \ {0}
  /\ Answers \subseteq Int
  /\ MaxNow \in Nat
  /\ MaxTokens \in Nat

(* A layer has the size its descriptor gives, what its bytes are, and the  *)
(* entries of its tar, among them those extractTar refuses.                *)
Entries == [kind : {"file", "dir", "refused"}, path : STRING, size : Nat]
Layers  == [size : Nat, intact : BOOLEAN, entries : Seq(Entries)]

ASSUME ArtsAssumption ==
  \A a \in Arts, v \in Versions : a[v] \in Seq(Layers)

VARIABLES
  auth, ecrHost, dockerConfig,  \* STATIC_SITE_REGISTRY_AUTH, the host, a config file
  art,      \* what each version holds
  tag,      \* version the tag names
  now,
  src,      \* registryAuth.src was built
  tok,      \* ecrTokenSource.tok
  issued,   \* tokens issued so far; a token is its number
  valid,    \* tokens the registry accepts
  step,     \* where pullWith is
  attempt,  \* 1, or 2 for the repetition
  method,   \* what resolve chose
  hdr,      \* token in the oras client's cache, 0 for none
  refusedTok, \* token refused in the first attempt
  overdue,  \* ghost: the source gave out a token past its recorded expiry
  ver,      \* manifest that was read
  layers,   \* layers still to pull
  entries,  \* entries of the current layer still to extract
  dest,     \* files in the target directory
  nbytes, nfiles, \* limits.bytes, limits.files
  outcome   \* how the last pull ended

confVars == <<auth, ecrHost, dockerConfig, art>>
tokVars == <<src, tok, issued, valid, overdue>>
limVars == <<nbytes, nfiles>>
vars == <<confVars, tag, now, tokVars, step, attempt, method, hdr, refusedTok,
          ver, layers, entries, dest, limVars, outcome>>

NoTok == [id |-> 0, fetched |-> 0, expires |-> 0]

TypeOK ==
  /\ auth \in {"auto", "dockerconfig", "ecr", "none"}
  /\ ecrHost \in BOOLEAN /\ dockerConfig \in BOOLEAN /\ src \in BOOLEAN
  /\ overdue \in BOOLEAN
  /\ art \in Arts
  /\ tag \in Versions /\ ver \in Versions
  /\ now \in 0 .. MaxNow
  /\ tok.id \in 0 .. issued /\ hdr \in 0 .. issued /\ refusedTok \in 0 .. issued
  /\ issued \in 0 .. MaxTokens
  /\ valid \subseteq 1 .. issued
  /\ step \in {"idle", "client", "manifest", "layer", "extract"}
  /\ attempt \in {1, 2}
  /\ method \in {"none", "dockerconfig", "ecr-sdk", "anonymous"}
  /\ nbytes \in Nat /\ nfiles \in 0 .. MaxFiles + 1
  /\ outcome \in {"none", "ok", "error", "unauthorized"}

Init ==
  /\ auth \in {"auto", "dockerconfig", "ecr", "none"}
  /\ ecrHost \in BOOLEAN /\ dockerConfig \in BOOLEAN
  /\ art \in Arts
  /\ tag \in Versions /\ ver = tag
  /\ now = 0
  /\ src = FALSE /\ tok = NoTok /\ issued = 0 /\ valid = {} /\ overdue = FALSE
  /\ step = "idle" /\ attempt = 1 /\ method = "none"
  /\ hdr = 0 /\ refusedTok = 0
  /\ layers = <<>> /\ entries = <<>> /\ dest = {}
  /\ nbytes = 0 /\ nfiles = 0
  /\ outcome = "none"

-----------------------------------------------------------------------------
(* registryAuth.resolve: the method, "" for the refusal.                   *)

resolve ==
  CASE auth = "dockerconfig" -> "dockerconfig"
    [] auth = "none" -> "anonymous"
    [] auth = "ecr" -> IF ecrHost THEN "ecr-sdk" ELSE ""
    [] OTHER -> IF dockerConfig THEN "dockerconfig"
                ELSE IF ecrHost THEN "ecr-sdk" ELSE "anonymous"

-----------------------------------------------------------------------------
(* ecrTokenSource.                                                         *)

refreshAt(t) == t.fetched + (t.expires - t.fetched) \div 2

(* fetch: the token ECR answers with.  offset says when it expires; with   *)
(* silent it does not say.  An expiry that has passed counts as none.      *)
fetch(offset, silent) ==
  [ id |-> issued + 1,
    fetched |-> now,
    expires |-> IF ~silent /\ offset > 0 THEN now + offset ELSE now + Lifetime ]

\* Mutant: a failed refresh falls back to the cached token, expired or not.
UsableAnyway(t) == t # NoTok

Usable(t) == t # NoTok /\ now < t.expires

(* get: the outcomes of one call, as the token then cached, what the       *)
(* caller receives (0 for an error), and the state of the registry.        *)
get ==
  LET kept(out) == [tok |-> tok, out |-> out, issued |-> issued, valid |-> valid]
  IN IF tok # NoTok /\ now < refreshAt(tok)
     THEN {kept(tok.id)}
     ELSE {kept(IF Usable(tok) THEN tok.id ELSE 0)}
          \cup { [tok |-> t, out |-> t.id, issued |-> t.id, valid |-> v] :
                   t \in {fetch(o, s) : o \in {a \in Answers : issued < MaxTokens},
                                        s \in BOOLEAN},
                   v \in {valid, valid \cup {issued + 1}} }

(* For the properties: the source, which now caches t, gave out o.         *)
GivesOut(o, t) == overdue' = (overdue \/ (o # 0 /\ ~(now < t.expires)))

(* One request through the oras client (external): the credential it keeps *)
(* for the pull, whatever its age, and on a 401 the credential function    *)
(* once; given is what that one returned.                                  *)
request ==
  LET same(res) == [tok |-> tok, issued |-> issued, valid |-> valid,
                    hdr |-> hdr, given |-> 0, res |-> res]
  IN {same("error")} \cup
     IF method # "ecr-sdk" THEN {same("ok"), same("unauthorized")}
     ELSE IF hdr \in valid THEN {same("ok")}
     ELSE { [tok |-> g.tok, issued |-> g.issued, valid |-> g.valid,
             hdr |-> g.out, given |-> g.out,
             res |-> IF g.out = 0 THEN "error"
                     ELSE IF g.out \in g.valid THEN "ok" ELSE "unauthorized"]
            : g \in get }

-----------------------------------------------------------------------------
(* pullWith, pullOnce, pullArtifact.                                       *)

Begin ==
  /\ step = "idle"
  /\ attempt' = 1 /\ step' = "client" /\ outcome' = "none"
  /\ dest' = {} /\ refusedTok' = 0
  /\ UNCHANGED <<confVars, tag, now, tokVars, method, hdr, ver, layers, entries,
                 limVars>>

(* The end of the pull.                                                    *)
End(o) ==
  /\ step' = "idle" /\ outcome' = o
  /\ UNCHANGED <<attempt, refusedTok, dest>>

(* Mutants: refused keeps the token; the repetition keeps the directory.   *)
tokKept == tok
destKept == dest

invalidated == NoTok
retryDest == {}

(* refused and the repetition, with the token that was refused.            *)
Retry(refused) ==
  /\ attempt = 1 /\ method = "ecr-sdk" /\ src
  /\ tok' = invalidated
  /\ refusedTok' = refused
  /\ dest' = retryDest
  /\ \/ /\ step' = "client" /\ attempt' = 2 /\ UNCHANGED outcome
     \/ /\ step' = "idle" /\ outcome' = "error" /\ UNCHANGED attempt  \* MkdirAll

(* pullOnce up to the client: resolve, source, and a first get, so that a  *)
(* missing identity fails here.                                            *)
Client ==
  /\ step = "client"
  /\ hdr' = 0
  /\ \/ /\ resolve = ""
        /\ End("error")
        /\ UNCHANGED <<method, tokVars>>
     \/ /\ resolve \in {"dockerconfig", "anonymous"}
        /\ method' = resolve /\ step' = "manifest"
        /\ UNCHANGED <<attempt, refusedTok, dest, outcome, tokVars>>
     \/ /\ resolve = "ecr-sdk" /\ ~src      \* the SDK has no configuration
        /\ End("error")
        /\ UNCHANGED <<method, tokVars>>
     \/ /\ resolve = "ecr-sdk"
        /\ method' = resolve /\ src' = TRUE
        /\ \E g \in get :
             /\ tok' = g.tok /\ issued' = g.issued /\ valid' = g.valid
             /\ GivesOut(g.out, g.tok)
             /\ IF g.out = 0 THEN End("error")
                ELSE /\ step' = "manifest"
                     /\ UNCHANGED <<attempt, refusedTok, dest, outcome>>
  /\ UNCHANGED <<confVars, tag, now, ver, layers, entries, limVars>>

(* A request that did not succeed: a 401 may be repeated, nothing else is. *)
Failed(q) ==
  /\ q.res # "ok"
  /\ issued' = q.issued /\ valid' = q.valid /\ hdr' = q.hdr
  /\ GivesOut(q.given, q.tok)
  /\ UNCHANGED src
  /\ \/ q.res = "unauthorized" /\ Retry(q.hdr)
     \/ /\ ~(q.res = "unauthorized" /\ attempt = 1 /\ method = "ecr-sdk" /\ src)
        /\ tok' = q.tok
        /\ End(q.res)
  /\ UNCHANGED <<confVars, tag, now, method, ver, layers, entries, limVars>>

Succeeded(q) ==
  /\ q.res = "ok"
  /\ tok' = q.tok /\ issued' = q.issued /\ valid' = q.valid /\ hdr' = q.hdr
  /\ GivesOut(q.given, q.tok)
  /\ UNCHANGED <<src, method, attempt, refusedTok, dest, confVars, tag, now>>

(* FetchReference and the checks on the manifest; a new limits.            *)
Manifest ==
  /\ step = "manifest"
  /\ \E q \in request :
       \/ Failed(q)
       \/ /\ Succeeded(q)
          /\ ver' = tag /\ layers' = art[tag]
          /\ nbytes' = 0 /\ nfiles' = 0
          /\ UNCHANGED entries
          /\ IF art[tag] = <<>> THEN step' = "idle" /\ outcome' = "error"
             ELSE step' = "layer" /\ UNCHANGED outcome

(* The head of the loop over layers, and pullLayer's Fetch.                *)
Layer ==
  /\ step = "layer"
  /\ \/ /\ Head(layers).size > MaxBytes
        /\ End("error")
        /\ UNCHANGED <<confVars, tag, now, tokVars, method, hdr, ver, layers,
                       entries, limVars>>
     \/ /\ Head(layers).size <= MaxBytes
        /\ \E q \in request :
             \/ Failed(q)
             \/ /\ Succeeded(q)
                /\ entries' = Head(layers).entries
                /\ step' = "extract"
                /\ UNCHANGED <<ver, layers, limVars, outcome>>

-----------------------------------------------------------------------------
(* extractTar and writeFile.                                               *)

(* Mutant: the limit is per file.                                          *)
roomPerFile == MaxBytes + 1

room == MaxBytes - nbytes + 1
tooMany(n) == n > MaxFiles

(* One entry: a directory is made, a regular file is counted and written   *)
(* up to one byte past the limit, a link, a device or an unsafe name is    *)
(* refused, and so is a name that exists (O_EXCL).                         *)
Extract ==
  /\ step = "extract" /\ entries # <<>>
  /\ LET e == Head(entries)
         n == Min({e.size, room})
     IN \/ /\ e.kind = "dir"
           /\ entries' = Tail(entries)
           /\ UNCHANGED <<step, attempt, refusedTok, dest, outcome, limVars>>
        \/ /\ e.kind = "refused"
           /\ End("error")
           /\ UNCHANGED <<entries, limVars>>
        \/ /\ e.kind = "file"
           /\ nfiles' = nfiles + 1
           /\ entries' = Tail(entries)
           /\ IF tooMany(nfiles + 1) \/ \E f \in dest : f.path = e.path
              THEN End("error") /\ UNCHANGED nbytes
              ELSE /\ nbytes' = nbytes + n
                   /\ dest' = dest \cup {[ver |-> ver, path |-> e.path, size |-> n]}
                   /\ IF nbytes + n > MaxBytes
                      THEN step' = "idle" /\ outcome' = "error"
                      ELSE UNCHANGED <<step, outcome>>
                   /\ UNCHANGED <<attempt, refusedTok>>
  /\ UNCHANGED <<confVars, tag, now, tokVars, method, hdr, ver, layers>>

(* The rest of the layer is read and its digest verified.                  *)
Verify ==
  /\ step = "extract" /\ entries = <<>>
  /\ layers' = Tail(layers)
  /\ IF ~Head(layers).intact THEN step' = "idle" /\ outcome' = "error"
     ELSE IF Len(layers) = 1 THEN step' = "idle" /\ outcome' = "ok"
     ELSE step' = "layer" /\ UNCHANGED outcome
  /\ UNCHANGED <<confVars, tag, now, tokVars, method, hdr, ver, attempt,
                 refusedTok, entries, dest, limVars>>

-----------------------------------------------------------------------------
(* The world.                                                              *)

MoveTag ==
  /\ tag' \in Versions \ {tag}
  /\ UNCHANGED <<confVars, now, tokVars, step, attempt, method, hdr, refusedTok,
                 ver, layers, entries, dest, limVars, outcome>>

(* A token expires at the registry, or is revoked.                         *)
Revoke ==
  /\ \E t \in valid : valid' = valid \ {t}
  /\ UNCHANGED <<confVars, tag, now, src, tok, issued, overdue, step, attempt, method,
                 hdr, refusedTok, ver, layers, entries, dest, limVars, outcome>>

Tick ==
  /\ now < MaxNow
  /\ now' = now + 1
  /\ UNCHANGED <<confVars, tag, tokVars, step, attempt, method, hdr, refusedTok,
                 ver, layers, entries, dest, limVars, outcome>>

Next ==
  \/ Begin \/ Client \/ Manifest \/ Layer \/ Extract \/ Verify
  \/ MoveTag \/ Revoke \/ Tick

Spec == Init /\ [][Next]_vars

-----------------------------------------------------------------------------
(* Properties.                                                             *)

(* The source gives out no token past the expiry it recorded for it, to a  *)
(* new client or after a 401, although a failed refresh falls back to the  *)
(* cached one and the token service may answer with an expiry that has     *)
(* passed; and in the repetition the client never holds the token that was *)
(* refused: it has a newer one or the pull fails (registryauth.go get and  *)
(* refused, oci.go pullWith).  The client presents what it was once given  *)
(* for the rest of the pull, also past that expiry, until it is refused.   *)
TokenIsGood ==
  /\ ~overdue
  /\ attempt = 2 /\ step # "client" /\ hdr # 0 => hdr # refusedTok

(* A pull that succeeds leaves exactly the files of one manifest, also     *)
(* when the tag moved between the two attempts or the first broke off      *)
(* between two layers; every entry was acceptable and every layer intact.  *)
CompleteArtifact ==
  outcome = "ok" =>
    LET all == {art[ver][i] : i \in DOMAIN art[ver]}
        es == UNION {{l.entries[j] : j \in DOMAIN l.entries} : l \in all}
    IN /\ dest = {[ver |-> ver, path |-> e.path, size |-> e.size] :
                    e \in {x \in es : x.kind = "file"}}
       /\ \A e \in es : e.kind # "refused"
       /\ \A l \in all : l.intact

Total(files) == FoldSet(LAMBDA f, n : n + f.size, 0, files)

(* However the layers are cut, at most one byte past the limit reaches the *)
(* memory-backed volume, and a pull that succeeds is within both limits    *)
(* (unpack.go limits, writeFile).                                          *)
WithinLimits ==
  /\ Total(dest) <= MaxBytes + 1
  /\ outcome = "ok" => Total(dest) <= MaxBytes /\ Cardinality(dest) <= MaxFiles
=============================================================================
