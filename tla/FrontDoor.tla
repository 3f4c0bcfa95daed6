----------------------------- MODULE FrontDoor -----------------------------
(***************************************************************************)
(* cloudflare/awsapigw: the API Gateway custom domain that demands         *)
(* Cloudflare's client certificate. New declares the resources below; an   *)
(* update of the stack writes each once everything it takes an input from, *)
(* or waits for, is written, independent ones in any order. A step may     *)
(* fail, the process may die, and the next update goes on from what was    *)
(* recorded. Meanwhile the arguments are edited and other principals of    *)
(* the AWS account, who may write any bucket, put and delete objects at    *)
(* the truststore's key.                                                   *)
(*                                                                         *)
(* A version of the truststore object is [by, pem]; its id is its position *)
(* in `versions', and a bucket without versioning keeps one object under   *)
(* id 0. What Pulumi recorded of a resource is what it was last written    *)
(* with (nothing here re-reads AWS), Absent when it was never written.     *)
(***************************************************************************)
EXTENDS Naturals, Sequences, FiniteSets, TLC

CONSTANTS
    Pems,          \* the client CAs a caller may hand over
    Appliers,      \* identities the stack is applied with
    Others,        \* other principals with write access to the account's buckets
    MaxEdits,      \* bound: edits of the arguments
    MaxRuns,       \* bound: updates started
    MaxPuts,       \* bound: writes and deletions by other principals
    Absent, Gone, None  \* not written, deleted, no arguments

ASSUME ApartAssumption == Appliers \cap Others = {} /\ Appliers # {} /\ Pems # {}

Idle == [by |-> None, args |-> None, done |-> {}, failed |-> FALSE, denied |-> FALSE]

CertificateResources == {"certificate", "record", "validation"}
BucketResources      == {"bucket", "encryption", "versioning", "block", "policy"}
Resources == CertificateResources \cup BucketResources \cup {"object", "domain", "mapping", "dns"}

\* The arguments: who may write under the truststore prefix, whether the
\* certificate is the caller's, and the Cloudflare record (nil, proxied or not).
Args == [allowed : SUBSET Appliers, certificate : {"given", "requested"},
         dns : {"nil", "proxied", "unproxied"}, pem : Pems]

\* What is recorded of a resource once it is written: the inputs that can change.
Written(r) ==
  CASE r = "policy" -> SUBSET Appliers
    [] r = "object" -> [pem : Pems, version : Nat]
    [] r = "domain" -> [certificate : {"given", "requested"}, version : Nat]
    [] OTHER -> {"written"}

\* The versions of the truststore object: other principals put what is no CA.
Objects == [by : Appliers \cup Others, pem : Pems \cup {None}]

ASSUME MarksAssumption ==
  /\ \A r \in Resources \ {"policy"} : Absent \notin Written(r)
  /\ \A allowed \in Written("policy") : allowed # Absent
  /\ Gone \notin Objects
  /\ None \notin Appliers \cup Args

VARIABLES
    store,      \* "new": the pattern's own bucket; "existing": one attested
                \* versioned and guarded
    args,       \* the arguments the program is run with
    run,        \* the update under way, or Idle
    state,      \* what Pulumi recorded of every resource
    versions,   \* the truststore object's versions
    trusted,    \* the bundle API Gateway read when the domain was last written
    last,       \* the arguments of the last update that ended without error
    edits, runs, puts

vars == <<store, args, run, state, versions, trusted, last, edits, runs, puts>>
counters == <<edits, runs, puts>>

-----------------------------------------------------------------------------
(* What New declares. *)

\* Args.Validate and ProtectedPrefix.Validate.
Validate(a) ==
  /\ store = "new" => a.allowed # {}
  /\ a.dns # "unproxied"

\* The resources of newTruststoreBucket.
newTruststoreBucket == IF store = "new" THEN BucketResources ELSE {}

Declared(a) ==
  (IF a.certificate = "requested" THEN CertificateResources ELSE {})
    \cup newTruststoreBucket
    \cup {"object", "domain", "mapping"}
    \cup (IF a.dns # "nil" THEN {"dns"} ELSE {})

\* Mutant: the object waits for the bucket and its versioning, not the policy.
NoGuardAwaited(r) ==
  CASE r = "object" -> {"bucket", "versioning"}
    [] r = "policy" -> {"bucket", "block"}
    [] r = "domain" -> {"validation", "object"}
    [] r \in {"mapping", "dns"} -> {"domain"}
    [] r = "validation" -> {"certificate", "record"}
    [] r = "record" -> {"certificate"}
    [] r \in {"encryption", "versioning", "block"} -> {"bucket"}
    [] OTHER -> {}

\* What a resource takes an input from or names in DependsOn.
DependsOn(r) ==
  CASE r = "record" -> {"certificate"}
    [] r = "validation" -> {"certificate", "record"}
    [] r \in {"encryption", "versioning", "block"} -> {"bucket"}
    [] r = "policy" -> {"bucket", "block"}
    [] r = "object" -> {"bucket", "versioning", "policy"}
    [] r = "domain" -> {"validation", "object"}
    [] r \in {"mapping", "dns"} -> {"domain"}
    [] OTHER -> {}

\* Mutant: the domain names the object and not its version.
Unpinned(r, a) ==
  CASE r = "policy" -> a.allowed
    [] r = "object" -> a.pem
    [] r = "domain" -> [certificate |-> a.certificate, version |-> 0]
    [] OTHER -> "written"

\* What a resource is written with: the inputs that can change.
Inputs(r, a) ==
  CASE r = "policy" -> a.allowed
    [] r = "object" -> a.pem
    [] r = "domain" -> [certificate |-> a.certificate, version |-> state["object"].version]
    [] OTHER -> "written"

-----------------------------------------------------------------------------
(* The bucket. *)

Versioned == store = "existing" \/ state["versioning"] # Absent

\* Statement: writes under the prefix are denied to every principal not listed.
\* An existing bucket is attested to carry it, for the identities of its owner.
Statement(p) ==
  IF store = "existing" THEN p \in Appliers
  ELSE state["policy"] # Absent => p \in state["policy"]

MayWrite(p) == (store = "existing" \/ state["bucket"] # Absent) /\ Statement(p)

\* Versions 1.. of a versioned bucket; an unversioned one replaces its object.
Put(p, pem) ==
  IF Versioned THEN [versions EXCEPT !.list = Append(@, [by |-> p, pem |-> pem])]
  ELSE [versions EXCEPT !.null = [by |-> p, pem |-> pem]]

VersionId == IF Versioned THEN Len(versions.list) + 1 ELSE 0

Latest ==
  LET kept == {i \in DOMAIN versions.list : versions.list[i] # Gone}
  IN  IF kept = {} THEN versions.null
      ELSE versions.list[CHOOSE i \in kept : \A j \in kept : j <= i]

\* What API Gateway finds under a pinned version, or without one.
Bundle(v) == IF v = 0 THEN Latest ELSE versions.list[v]

-----------------------------------------------------------------------------

Init ==
  /\ store \in {"new", "existing"}
  /\ args \in {a \in Args : a.dns = "proxied" /\ a.allowed # {}}
  /\ run = Idle
  /\ state = [r \in Resources |-> Absent]
  /\ versions = [null |-> Gone, list |-> <<>>]
  /\ trusted = None /\ last = None
  /\ edits = 0 /\ runs = 0 /\ puts = 0

\* Somebody edits the program between two updates (one under way keeps what it
\* was started with, so an edit during it is one after it).
Edit ==
  /\ run = Idle /\ edits < MaxEdits /\ edits' = edits + 1
  /\ args' \in Args \ {args}
  /\ UNCHANGED <<store, run, state, versions, trusted, last, runs, puts>>

\* pulumi up: New returns Validate's error before it registers anything.
New(p) ==
  /\ run = Idle /\ runs < MaxRuns /\ runs' = runs + 1
  /\ Validate(args)
  /\ run' = [Idle EXCEPT !.by = p, !.args = args]
  /\ UNCHANGED <<store, args, state, versions, trusted, last, edits, puts>>

Pending(r) == run # Idle /\ r \in Declared(run.args) \ run.done

Awaited(r) == DependsOn(r) \cap Declared(run.args)

Ready(r) == Pending(r) /\ Awaited(r) \subseteq run.done

Same(r) ==
  /\ state[r] # Absent
  /\ Inputs(r, run.args) = IF r = "object" THEN state[r].pem ELSE state[r]

\* A resource whose inputs are those recorded is left alone, any other written.
Write(r) ==
  /\ Ready(r) /\ r # "object"
  /\ state' = IF Same(r) THEN state ELSE [state EXCEPT ![r] = Inputs(r, run.args)]
  /\ trusted' = IF r = "domain" /\ ~Same(r)
                THEN Bundle(Inputs(r, run.args).version) ELSE trusted
  /\ run' = [run EXCEPT !.done = @ \cup {r}]
  /\ UNCHANGED <<store, args, versions, last, counters>>

WriteObject ==
  /\ Ready("object")
  /\ \/ /\ Same("object")
        /\ run' = [run EXCEPT !.done = @ \cup {"object"}]
        /\ UNCHANGED <<state, versions>>
     \/ /\ ~Same("object") /\ MayWrite(run.by)
        /\ versions' = Put(run.by, run.args.pem)
        /\ state' = [state EXCEPT !["object"] = [pem |-> run.args.pem, version |-> VersionId]]
        /\ run' = [run EXCEPT !.done = @ \cup {"object"}]
     \/ /\ ~Same("object") /\ ~MayWrite(run.by)
        /\ run' = [run EXCEPT !.failed = TRUE, !.denied = TRUE]
        /\ UNCHANGED <<state, versions>>
  /\ UNCHANGED <<store, args, trusted, last, counters>>

\* The put reaches S3 and its answer is lost: a version nobody recorded.
LosePut ==
  /\ Ready("object") /\ ~Same("object") /\ MayWrite(run.by) /\ ~run.failed
  /\ puts < MaxPuts /\ puts' = puts + 1
  /\ versions' = Put(run.by, run.args.pem)
  /\ run' = [run EXCEPT !.failed = TRUE]
  /\ UNCHANGED <<store, args, state, trusted, last, edits, runs>>

\* After the last write, what is no longer declared is deleted, dependants first.
Delete(r) ==
  /\ run # Idle /\ ~run.failed /\ Declared(run.args) \subseteq run.done
  /\ r \notin Declared(run.args) /\ state[r] # Absent
  /\ \A s \in Resources \ Declared(run.args) : state[s] # Absent => r \notin DependsOn(s)
  /\ state' = [state EXCEPT ![r] = Absent]
  /\ UNCHANGED <<store, args, run, versions, trusted, last, counters>>

\* RegisterResourceOutputs: the update ends well.
Finish ==
  /\ run # Idle /\ ~run.failed /\ Declared(run.args) \subseteq run.done
  /\ \A r \in Resources \ Declared(run.args) : state[r] = Absent
  /\ last' = run.args /\ run' = Idle
  /\ UNCHANGED <<store, args, state, versions, trusted, counters>>

\* A request fails, and what was under way beside it has ended, or the process
\* dies: the steps not done are left for the next update.
Stop ==
  /\ run # Idle /\ run' = Idle /\ last' = None
  /\ UNCHANGED <<store, args, state, versions, trusted, counters>>

\* Another principal writes the key, or deletes what is there.
OtherPut(p) ==
  /\ puts < MaxPuts /\ puts' = puts + 1 /\ MayWrite(p)
  /\ versions' = Put(p, None)
  /\ UNCHANGED <<store, args, run, state, trusted, last, edits, runs>>

OtherDelete(p) ==
  /\ puts < MaxPuts /\ puts' = puts + 1 /\ MayWrite(p)
  /\ \/ /\ versions.null # Gone /\ versions' = [versions EXCEPT !.null = Gone]
     \/ \E i \in DOMAIN versions.list :
          /\ versions.list[i] # Gone
          /\ versions' = [versions EXCEPT !.list[i] = Gone]
  /\ UNCHANGED <<store, args, run, state, trusted, last, edits, runs>>

Next ==
  \/ Edit \/ WriteObject \/ LosePut \/ Finish \/ Stop
  \/ \E p \in Appliers : New(p)
  \/ \E r \in Resources : Write(r) \/ Delete(r)
  \/ \E p \in Others : OtherPut(p) \/ OtherDelete(p)

Spec == Init /\ [][Next]_vars

-----------------------------------------------------------------------------
(* Properties. *)

TypeOK ==
  /\ store \in {"new", "existing"} /\ args \in Args
  /\ run.done \subseteq Resources /\ run.by \in Appliers \cup {None}
  /\ state["policy"] \in (SUBSET Appliers) \cup {Absent}
  /\ state["object"] # Absent => state["object"].version \in 0 .. Len(versions.list)

(* The CA the domain trusts is one this stack wrote, and the version it     *)
(* pins still exists: in every order of the bucket's resources, while       *)
(* others write the same key before the guard stands, and from the moment a *)
(* new CA is put until the domain is moved to it (New, newTruststoreBucket, *)
(* ProtectedPrefix).                                                        *)
TruststoreIsOurs ==
  state["domain"] # Absent =>
    /\ trusted # Gone /\ trusted.by \in Appliers
    /\ Bundle(state["domain"].version) # Gone

(* An update run by an identity its own arguments list is never denied the  *)
(* truststore, also when the policy in place was written for somebody else: *)
(* the list is put right before the object is written (DependsOn(after)).   *)
NotLockedOut ==
  (store = "new" /\ run.denied) => run.by \notin run.args.allowed

(* When an update has ended without error, the domain trusts the CA it was  *)
(* given, whatever earlier updates left half done and whatever others       *)
(* wrote; its certificate is the one asked for, still there when it is the  *)
(* stack's own; the proxied record exists exactly when asked for, and the   *)
(* guard lists whom it should.                                              *)
Applied ==
  (last # None /\ run = Idle) =>
    /\ trusted.pem = last.pem
    /\ state["domain"].certificate = last.certificate
    /\ last.certificate = "requested" <=> state["validation"] # Absent
    /\ state["dns"] # Absent <=> last.dns = "proxied"
    /\ store = "new" => state["policy"] = last.allowed
=============================================================================
