-------------------------- MODULE FrontDoorProofs --------------------------
(***************************************************************************)
(* Proofs about FrontDoor, for every set of CAs, of identities the stack   *)
(* is applied with and of other principals, and any number of edits,       *)
(* updates and foreign writes.  Two facts carry them: the object is never  *)
(* recorded before the guard stands (GuardInv), and a step that an update  *)
(* counts as done stays as its arguments want it (ProgressInv).            *)
(***************************************************************************)
EXTENDS FrontDoor, TLAPS

Updates ==
  [by : Appliers \cup {None}, args : Args \cup {None},
   done : SUBSET Resources, failed : BOOLEAN, denied : BOOLEAN]

Buckets == [null : Objects \cup {Gone}, list : Seq(Objects \cup {Gone})]

StateType ==
  /\ store \in {"new", "existing"} /\ args \in Args
  /\ state = [r \in Resources |-> state[r]]
  /\ \A r \in Resources : state[r] \in Written(r) \cup {Absent}
  /\ versions \in Buckets
  /\ run \in Updates
  /\ run # Idle => run.by \in Appliers /\ run.args \in Args /\ Validate(run.args)
  /\ last \in Args \cup {None}

\* The object is recorded only in a versioned bucket that others cannot write.
GuardInv ==
  state["object"] # Absent /\ store = "new" =>
    \A r \in {"bucket", "versioning", "policy"} : state[r] # Absent

\* A version that is there and was put by the stack.
Ours(v) ==
  /\ v \in DOMAIN versions.list /\ versions.list[v] \in Objects
  /\ versions.list[v].by \in Appliers

\* The recorded version is ours and holds the recorded CA.
ObjectInv ==
  state["object"] # Absent =>
    LET v == state["object"].version
    IN  Ours(v) /\ versions.list[v].pem = state["object"].pem

\* The domain trusts what the version it pins holds.
DomainInv ==
  state["domain"] # Absent =>
    LET v == state["domain"].version
    IN  state["object"] # Absent /\ Ours(v) /\ trusted = versions.list[v]

\* What the update has done stands, and was done after what it waits for.
ProgressInv ==
  run # Idle =>
    /\ run.done \subseteq Declared(run.args)
    /\ \A r \in run.done : Same(r) /\ Awaited(r) \subseteq run.done

IndInv ==
  /\ StateType /\ GuardInv /\ ObjectInv /\ DomainInv /\ ProgressInv
  /\ NotLockedOut /\ Applied

-----------------------------------------------------------------------------
(* What New declares, and the bucket. *)

(* What a resource but the object is written with is one of the values     *)
(* that can be recorded of it.                                             *)
LEMMA WrittenInputs ==
  ASSUME NEW r \in Resources, r # "object", NEW a \in Args,
         r = "domain" => state["object"].version \in Nat
  PROVE  Inputs(r, a) \in Written(r) /\ Inputs(r, a) # Absent
<1>1. Inputs(r, a) \in Written(r)
  <2>1. CASE r = "policy"
    BY <2>1 DEF Inputs, Written, Args
  <2>2. CASE r = "domain"
    BY <2>2 DEF Inputs, Written, Args
  <2>3. CASE r \notin {"policy", "object", "domain"}
    BY <2>3 DEF Inputs, Written
  <2> QED BY <2>1, <2>2, <2>3
<1> QED BY <1>1, MarksAssumption

(* What is recorded has its type.                                          *)
LEMMA Recorded ==
  ASSUME StateType
  PROVE  /\ state["policy"] # Absent => state["policy"] \in SUBSET Appliers
         /\ state["object"] # Absent => state["object"] \in [pem : Pems, version : Nat]
         /\ state["domain"] # Absent =>
              state["domain"] \in [certificate : {"given", "requested"}, version : Nat]
BY DEF StateType, Resources, BucketResources, Written

(* What is declared whatever the arguments are.                            *)
LEMMA AlwaysDeclared ==
  ASSUME NEW a
  PROVE  /\ {"object", "domain", "mapping"} \subseteq Declared(a)
         /\ store = "new" => BucketResources \subseteq Declared(a)
         /\ Declared(a) \subseteq Resources
BY DEF Declared, newTruststoreBucket, Resources

LEMMA ObjectAwaits ==
  /\ DependsOn("object") = {"bucket", "versioning", "policy"}
  /\ "object" \in DependsOn("domain")
BY DEF DependsOn

(* When the object's turn comes the guard stands, with the list asked for. *)
LEMMA GuardStands ==
  ASSUME IndInv, Ready("object"), store = "new"
  PROVE  /\ \A r \in {"bucket", "versioning", "policy"} : state[r] # Absent
         /\ state["policy"] = run.args.allowed
<1>1. {"bucket", "versioning", "policy"} \subseteq run.done
  BY ObjectAwaits, AlwaysDeclared DEF Ready, Awaited, BucketResources
<1>2. \A r \in {"bucket", "versioning", "policy"} : Same(r)
  BY <1>1 DEF IndInv, ProgressInv, Ready, Pending
<1> QED BY <1>2 DEF Same, Inputs

(* Once the object is recorded nobody else writes under its key.           *)
LEMMA OthersKeptOut ==
  ASSUME IndInv, state["object"] # Absent, NEW p \in Others
  PROVE  ~MayWrite(p)
<1>1. p \notin Appliers
  BY ApartAssumption
<1>2. CASE store = "existing"
  BY <1>1, <1>2 DEF MayWrite, Statement
<1>3. CASE store = "new"
  <2>1. state["policy"] # Absent
    BY <1>3 DEF IndInv, GuardInv
  <2>2. state["policy"] \in SUBSET Appliers
    BY <2>1, Recorded DEF IndInv
  <2> QED BY <1>1, <1>3, <2>1, <2>2 DEF MayWrite, Statement
<1> QED BY <1>2, <1>3 DEF IndInv, StateType

(* A put leaves every version that was there as it was.                    *)
LEMMA PutKeeps ==
  ASSUME StateType, NEW p \in Appliers \cup Others, NEW pem \in Pems \cup {None},
         versions' = Put(p, pem)
  PROVE  /\ versions' \in Buckets
         /\ \A v : Ours(v) => Ours(v)' /\ versions'.list[v] = versions.list[v]
         /\ Versioned => /\ versions'.list[VersionId] = [by |-> p, pem |-> pem]
                         /\ VersionId \in DOMAIN versions'.list
<1> DEFINE new == [by |-> p, pem |-> pem]
           list == versions.list
<1>1. new \in Objects
  BY DEF Objects
<1>2. list \in Seq(Objects \cup {Gone}) /\ versions.null \in Objects \cup {Gone}
      /\ versions = [null |-> versions.null, list |-> list]
  BY DEF StateType, Buckets
<1> HIDE DEF new
<1>3. CASE Versioned
  <2>1. versions' = [null |-> versions.null, list |-> Append(list, new)]
    BY <1>2, <1>3 DEF Put, new
  <2>2. /\ Append(list, new) \in Seq(Objects \cup {Gone})
        /\ \A v \in DOMAIN list : v \in DOMAIN Append(list, new) /\ Append(list, new)[v] = list[v]
        /\ Len(list) + 1 \in DOMAIN Append(list, new)
        /\ Append(list, new)[Len(list) + 1] = new
    BY <1>1, <1>2
  <2> QED BY <1>2, <1>3, <2>1, <2>2 DEF Buckets, Ours, VersionId, new
<1>4. CASE ~Versioned
  <2>1. versions' = [null |-> new, list |-> list]
    BY <1>2, <1>4 DEF Put, new
  <2> QED BY <1>1, <1>2, <1>4, <2>1 DEF Buckets, Ours
<1> QED BY <1>3, <1>4
-----------------------------------------------------------------------------
(* The inductive invariant, one action at a time. *)

LEMMA InitInv == Init => IndInv
<1> SUFFICES ASSUME Init PROVE IndInv
  OBVIOUS
<1>1. \A r \in Resources : state[r] = Absent
  BY DEF Init
<1>2. StateType
  BY DEF Init, StateType, Updates, Buckets, Idle, Args
<1>3. {"object", "domain", "policy"} \subseteq Resources
  BY DEF Resources, BucketResources
<1> QED BY <1>1, <1>2, <1>3 DEF Init, IndInv, GuardInv, ObjectInv, DomainInv,
                               ProgressInv, NotLockedOut, Applied, Idle

(* The arguments are edited: nothing that is there changes.                *)
LEMMA EditInv ==
  ASSUME IndInv, Edit
  PROVE  IndInv'
<1>1. UNCHANGED <<store, run, state, versions, trusted, last>> /\ args' \in Args
  BY DEF Edit
<1>2. StateType'
  BY <1>1 DEF IndInv, StateType, Validate
<1>3. GuardInv' /\ ObjectInv' /\ DomainInv' /\ NotLockedOut' /\ Applied'
  BY <1>1 DEF IndInv, GuardInv, ObjectInv, DomainInv, Ours, NotLockedOut, Applied
<1>4. ProgressInv'
  BY <1>1 DEF IndInv, ProgressInv, Same, Awaited, Declared, newTruststoreBucket, Inputs
<1> QED BY <1>2, <1>3, <1>4 DEF IndInv

(* An update starts, with arguments that validate and nothing done.        *)
LEMMA NewInv ==
  ASSUME IndInv, NEW p \in Appliers, New(p)
  PROVE  IndInv'
<1>1. /\ UNCHANGED <<store, args, state, versions, trusted, last>> /\ Validate(args)
      /\ run' = [by |-> p, args |-> args, done |-> {}, failed |-> FALSE, denied |-> FALSE]
  BY DEF New, Idle
<1>2. run' # Idle
  BY <1>1, MarksAssumption DEF Idle
<1>3. StateType'
  BY <1>1 DEF Updates, IndInv, StateType, Validate
<1>4. GuardInv' /\ ObjectInv' /\ DomainInv' /\ NotLockedOut' /\ Applied'
  BY <1>1, <1>2 DEF IndInv, GuardInv, ObjectInv, DomainInv, Ours, NotLockedOut, Applied, Idle
<1>5. ProgressInv'
  BY <1>1 DEF ProgressInv
<1> QED BY <1>3, <1>4, <1>5 DEF IndInv

(* A resource other than the object is written, or left as it is.          *)
LEMMA WriteInv ==
  ASSUME IndInv, NEW r \in Resources, Write(r)
  PROVE  IndInv'
<1> DEFINE in == Inputs(r, run.args)
<1>1. /\ Ready(r) /\ r # "object" /\ r \notin run.done /\ r \in Declared(run.args)
      /\ run # Idle /\ Awaited(r) \subseteq run.done
      /\ run' = [run EXCEPT !.done = @ \cup {r}]
      /\ UNCHANGED <<store, args, versions, last>>
  BY DEF Write, Ready, Pending
<1>2. /\ StateType /\ run.args \in Args /\ run.by \in Appliers
      /\ \A q \in run.done : Same(q) /\ Awaited(q) \subseteq run.done
      /\ run.done \subseteq Declared(run.args)
  BY <1>1 DEF IndInv, StateType, ProgressInv
<1>3. r = "domain" => state["object"] # Absent /\ state["object"].version \in Nat
  <2>1. r = "domain" => "object" \in run.done
    BY <1>1, ObjectAwaits, AlwaysDeclared DEF Awaited
  <2> QED BY <1>2, <2>1, Recorded DEF Same
<1>4. in \in Written(r) /\ in # Absent
  BY <1>2, <1>1, <1>3, WrittenInputs
<1>5. /\ state' = [state EXCEPT ![r] = state'[r]]
      /\ state'[r] = in /\ state'[r] # Absent
      /\ \A q \in Resources \ {r} : state'[q] = state[q]
      /\ state' = [q \in Resources |-> state'[q]]
  <2>1. state = [q \in Resources |-> state[q]]
    BY <1>2 DEF StateType
  <2>2. Same(r) => state[r] = in
    BY <1>1 DEF Same
  <2> QED BY <1>4, <2>1, <2>2 DEF Write
<1>6. /\ run'.by = run.by /\ run'.args = run.args /\ run'.done = run.done \cup {r}
      /\ run'.failed = run.failed /\ run'.denied = run.denied /\ run' # Idle
      /\ run' \in Updates
  BY <1>1, <1>2, MarksAssumption DEF StateType, Updates, Idle
<1>7. "object" \in Resources /\ "domain" \in Resources
  BY DEF Resources
<1>8. state'["object"] = state["object"]
  BY <1>1, <1>5, <1>7
<1>9. StateType'
  BY <1>1, <1>2, <1>4, <1>5, <1>6 DEF IndInv, StateType, Validate
<1>10. GuardInv' /\ ObjectInv'
  BY <1>1, <1>5, <1>8 DEF IndInv, GuardInv, ObjectInv, Ours, Resources, BucketResources
<1>11. DomainInv'
  <2>1. CASE r = "domain"
    <3>1. in.version = state["object"].version
      BY <2>1 DEF Inputs
    <3>2. Ours(in.version) /\ in.version # 0
      BY <1>2, <1>3, <2>1, <3>1 DEF Buckets, IndInv, ObjectInv, Ours, StateType
    <3>3. trusted' = versions.list[in.version]
      <4>1. CASE Same(r)
        BY <1>1, <2>1, <4>1, <1>4 DEF Write, IndInv, DomainInv, Same
      <4>2. CASE ~Same(r)
        BY <1>1, <2>1, <4>2, <3>2 DEF Write, Bundle
      <4> QED BY <4>1, <4>2
    <3> QED BY <1>1, <1>3, <1>5, <1>8, <2>1, <3>2, <3>3 DEF DomainInv, Ours
  <2>2. CASE r # "domain"
    BY <1>1, <1>5, <1>7, <1>8, <2>2 DEF Write, IndInv, DomainInv, Ours
  <2> QED BY <2>1, <2>2
<1>12. ProgressInv'
  <2>1. \A q \in run.done : Same(q)'
    <3> SUFFICES ASSUME NEW q \in run.done PROVE Same(q)'
      OBVIOUS
    <3>1. q \in Resources /\ q # r /\ Same(q)
      BY <1>1, <1>2, AlwaysDeclared
    <3> QED BY <1>5, <1>6, <1>8, <3>1 DEF Same, Inputs
  <2>2. Same(r)'
    BY <1>1, <1>4, <1>5, <1>6, <1>8 DEF Same, Inputs
  <2>3. \A q : Awaited(q)' = Awaited(q)
    BY <1>1, <1>6 DEF Awaited, Declared, newTruststoreBucket
  <2>4. Declared(run.args)' = Declared(run.args)
    BY <1>1, <1>6 DEF Declared, newTruststoreBucket
  <2> QED BY <1>1, <1>2, <1>6, <2>1, <2>2, <2>3, <2>4 DEF ProgressInv
<1>13. NotLockedOut' /\ Applied'
  BY <1>1, <1>6 DEF IndInv, NotLockedOut, Applied
<1> QED BY <1>9, <1>10, <1>11, <1>12, <1>13 DEF IndInv

(* The object is put, found as it should be, or denied.                    *)
LEMMA WriteObjectInv ==
  ASSUME IndInv, WriteObject
  PROVE  IndInv'
<1>1. /\ Ready("object") /\ "object" \notin run.done /\ "object" \in Declared(run.args)
      /\ run # Idle /\ Awaited("object") \subseteq run.done
      /\ UNCHANGED <<store, args, trusted, last>>
  BY DEF WriteObject, Ready, Pending
<1>2. /\ StateType /\ run.args \in Args /\ run.by \in Appliers
      /\ \A q \in run.done : Same(q) /\ Awaited(q) \subseteq run.done
      /\ run.done \subseteq Declared(run.args)
  BY <1>1 DEF IndInv, StateType, ProgressInv
<1>3. Declared(run.args) \subseteq Resources
  BY AlwaysDeclared
<1>4. CASE Same("object") /\ run' = [run EXCEPT !.done = @ \cup {"object"}]
           /\ UNCHANGED <<state, versions>>
  <2>1. /\ run'.by = run.by /\ run'.args = run.args /\ run'.done = run.done \cup {"object"}
        /\ run'.failed = run.failed /\ run'.denied = run.denied /\ run' # Idle
        /\ run' \in Updates
    BY <1>1, <1>2, <1>3, <1>4, MarksAssumption DEF StateType, Updates, Idle
  <2>2. StateType'
    BY <1>1, <1>2, <1>4, <2>1 DEF StateType, Validate
  <2>3. GuardInv' /\ ObjectInv' /\ DomainInv' /\ NotLockedOut' /\ Applied'
    BY <1>1, <1>4, <2>1 DEF IndInv, GuardInv, ObjectInv, DomainInv, Ours, NotLockedOut, Applied
  <2>4. ProgressInv'
    BY <1>1, <1>2, <1>4, <2>1
       DEF ProgressInv, Same, Inputs, Awaited, Declared, newTruststoreBucket
  <2> QED BY <2>2, <2>3, <2>4 DEF IndInv
<1>5. CASE /\ ~Same("object") /\ MayWrite(run.by)
           /\ versions' = Put(run.by, run.args.pem)
           /\ state' = [state EXCEPT !["object"] =
                          [pem |-> run.args.pem, version |-> VersionId]]
           /\ run' = [run EXCEPT !.done = @ \cup {"object"}]
  <2>1. /\ run'.by = run.by /\ run'.args = run.args /\ run'.done = run.done \cup {"object"}
        /\ run'.failed = run.failed /\ run'.denied = run.denied /\ run' # Idle
        /\ run' \in Updates
    BY <1>1, <1>2, <1>3, <1>5, MarksAssumption DEF StateType, Updates, Idle
  <2>2. Versioned
    BY <1>1, GuardStands DEF Versioned, IndInv, StateType
  <2>3. run.args.pem \in Pems
    BY <1>2 DEF Args
  <2>4. /\ versions' \in Buckets
        /\ \A v : Ours(v) => Ours(v)' /\ versions'.list[v] = versions.list[v]
        /\ versions'.list[VersionId] = [by |-> run.by, pem |-> run.args.pem]
        /\ VersionId \in DOMAIN versions'.list
    BY <1>2, <1>5, <2>2, <2>3, PutKeeps
  <2>5. VersionId \in Nat
    BY <1>2 DEF VersionId, StateType
  <2> DEFINE obj == [pem |-> run.args.pem, version |-> VersionId]
  <2>6. obj \in Written("object") /\ obj # Absent
    <3>1. obj \in Written("object")
      BY <2>3, <2>5 DEF Written
    <3> QED BY <3>1, MarksAssumption DEF Resources
  <2>7. /\ state' = [q \in Resources |-> state'[q]] /\ state'["object"] = obj
        /\ \A q \in Resources \ {"object"} : state'[q] = state[q]
    BY <1>2, <1>5 DEF StateType, Resources
  <2>8. StateType'
    BY <1>1, <1>2, <2>1, <2>4, <2>6, <2>7 DEF StateType, Validate
  <2>9. GuardInv'
    BY <1>1, <2>7, GuardStands DEF GuardInv, Resources, BucketResources
  <2>10. ObjectInv'
    <3> DEFINE v == VersionId
               new == [by |-> run.by, pem |-> run.args.pem]
    <3>1. new \in Objects /\ new.by \in Appliers /\ new.pem = run.args.pem
      BY <1>2, <2>3 DEF Objects
    <3>2. v \in DOMAIN versions'.list /\ versions'.list[v] = new
      BY <2>4
    <3>3. state'["object"].version = v /\ state'["object"].pem = run.args.pem
      BY <2>7
    <3> HIDE DEF v, new
    <3> QED BY <3>1, <3>2, <3>3 DEF ObjectInv, Ours
  <2>11. DomainInv'
    BY <1>1, <2>4, <2>6, <2>7 DEF IndInv, DomainInv, Ours, Resources
  <2>12. ProgressInv'
    <3>1. "domain" \notin run.done
      BY <1>1, <1>2, ObjectAwaits DEF Awaited
    <3>2. \A q \in run.done : Same(q)'
      <4> SUFFICES ASSUME NEW q \in run.done PROVE Same(q)'
        OBVIOUS
      <4>1. q \in Resources /\ q \notin {"object", "domain"} /\ Same(q)
        BY <1>1, <1>2, <1>3, <3>1
      <4> QED BY <2>1, <2>7, <4>1 DEF Same, Inputs
    <3>3. Same("object")'
      BY <2>1, <2>6, <2>7 DEF Same, Inputs
    <3>4. \A q : Awaited(q)' = Awaited(q)
      BY <1>1, <2>1 DEF Awaited, Declared, newTruststoreBucket
    <3>5. Declared(run.args)' = Declared(run.args)
      BY <1>1, <2>1 DEF Declared, newTruststoreBucket
    <3> QED BY <1>1, <1>2, <2>1, <3>2, <3>3, <3>4, <3>5 DEF ProgressInv
  <2>13. NotLockedOut' /\ Applied'
    BY <1>1, <2>1 DEF IndInv, NotLockedOut, Applied
  <2> QED BY <2>8, <2>9, <2>10, <2>11, <2>12, <2>13 DEF IndInv
<1>6. CASE /\ ~Same("object") /\ ~MayWrite(run.by)
           /\ run' = [run EXCEPT !.failed = TRUE, !.denied = TRUE]
           /\ UNCHANGED <<state, versions>>
  <2>1. /\ run'.by = run.by /\ run'.args = run.args /\ run'.done = run.done /\ run' # Idle
        /\ run' \in Updates
    BY <1>1, <1>2, <1>6, MarksAssumption DEF StateType, Updates, Idle
  <2>2. StateType'
    BY <1>1, <1>2, <1>6, <2>1 DEF StateType, Validate
  <2>3. GuardInv' /\ ObjectInv' /\ DomainInv' /\ Applied'
    BY <1>1, <1>6, <2>1 DEF IndInv, GuardInv, ObjectInv, DomainInv, Ours, Applied
  <2>4. ProgressInv'
    BY <1>1, <1>2, <1>6, <2>1
       DEF ProgressInv, Same, Inputs, Awaited, Declared, newTruststoreBucket
  <2>5. NotLockedOut'
    BY <1>1, <1>6, <2>1, GuardStands DEF NotLockedOut, MayWrite, Statement
  <2> QED BY <2>2, <2>3, <2>4, <2>5 DEF IndInv
<1> QED BY <1>4, <1>5, <1>6 DEF WriteObject

(* The answer to the put is lost: one version more, which nothing names.   *)
LEMMA LosePutInv ==
  ASSUME IndInv, LosePut
  PROVE  IndInv'
<1>1. /\ run # Idle /\ run' = [run EXCEPT !.failed = TRUE]
      /\ versions' = Put(run.by, run.args.pem)
      /\ UNCHANGED <<store, args, state, trusted, last>>
  BY DEF LosePut, Ready, Pending
<1>2. StateType /\ run.args \in Args /\ run.by \in Appliers /\ run.args.pem \in Pems
  BY <1>1 DEF IndInv, StateType, Args
<1>3. /\ versions' \in Buckets
      /\ \A v : Ours(v) => Ours(v)' /\ versions'.list[v] = versions.list[v]
  BY <1>1, <1>2, PutKeeps
<1>4. /\ run'.by = run.by /\ run'.args = run.args /\ run'.done = run.done
      /\ run'.denied = run.denied /\ run' # Idle
      /\ run' \in Updates
  BY <1>1, <1>2, MarksAssumption DEF StateType, Updates, Idle
<1>5. StateType'
  BY <1>1, <1>2, <1>3, <1>4 DEF StateType, Validate
<1>6. GuardInv' /\ ObjectInv' /\ DomainInv'
  BY <1>1, <1>3 DEF IndInv, GuardInv, ObjectInv, DomainInv
<1>7. ProgressInv'
  BY <1>1, <1>4 DEF IndInv, ProgressInv, Same, Inputs, Awaited, Declared, newTruststoreBucket
<1>8. NotLockedOut' /\ Applied'
  BY <1>1, <1>4 DEF IndInv, NotLockedOut, Applied
<1> QED BY <1>5, <1>6, <1>7, <1>8 DEF IndInv

(* What is no longer declared is deleted: none of what the door rests on.  *)
LEMMA DeleteInv ==
  ASSUME IndInv, NEW r \in Resources, Delete(r)
  PROVE  IndInv'
<1>1. /\ run # Idle /\ r \notin Declared(run.args)
      /\ state' = [state EXCEPT ![r] = Absent]
      /\ UNCHANGED <<store, args, run, versions, trusted, last>>
  BY DEF Delete
<1>2. /\ r \notin {"object", "domain"} /\ (store = "new" => r \notin BucketResources)
      /\ r \notin run.done
  BY <1>1, AlwaysDeclared DEF IndInv, ProgressInv
<1>3. /\ \A q \in Resources \ {r} : state'[q] = state[q]
      /\ state' = [q \in Resources |-> state'[q]] /\ state'[r] = Absent
  BY <1>1 DEF IndInv, StateType
<1>4. /\ state'["object"] = state["object"] /\ state'["domain"] = state["domain"]
      /\ store = "new" => \A q \in BucketResources : state'[q] = state[q]
  BY <1>2, <1>3 DEF Resources
<1>5. StateType'
  BY <1>1, <1>3 DEF IndInv, StateType, Validate
<1>6. GuardInv' /\ ObjectInv' /\ DomainInv'
  BY <1>1, <1>4 DEF IndInv, GuardInv, ObjectInv, DomainInv, Ours, BucketResources
<1>7. ProgressInv'
  <2> SUFFICES ASSUME NEW q \in run.done PROVE Same(q)'
    BY <1>1 DEF IndInv, ProgressInv, Awaited, Declared, newTruststoreBucket
  <2>1. Same(q) /\ q \in Resources /\ q # r
    BY <1>1, <1>2, AlwaysDeclared DEF IndInv, ProgressInv
  <2> QED BY <1>1, <1>3, <1>4, <2>1 DEF Same, Inputs
<1>8. NotLockedOut' /\ Applied'
  BY <1>1 DEF IndInv, NotLockedOut, Applied
<1> QED BY <1>5, <1>6, <1>7, <1>8 DEF IndInv

(* The update ends well: what it did stands, and nothing else is left.     *)
LEMMA FinishInv ==
  ASSUME IndInv, Finish
  PROVE  IndInv'
<1>1. /\ run # Idle /\ Declared(run.args) \subseteq run.done
      /\ \A r \in Resources \ Declared(run.args) : state[r] = Absent
      /\ last' = run.args /\ run' = Idle
      /\ UNCHANGED <<store, args, state, versions, trusted>>
  BY DEF Finish
<1>2. /\ StateType /\ run.args \in Args /\ Validate(run.args)
      /\ \A r \in Declared(run.args) : Same(r)
  BY <1>1 DEF IndInv, StateType, ProgressInv
<1>3. StateType' /\ ProgressInv'
  BY <1>1, <1>2 DEF StateType, Updates, ProgressInv, Idle
<1>4. GuardInv' /\ ObjectInv' /\ DomainInv' /\ NotLockedOut'
  BY <1>1 DEF IndInv, GuardInv, ObjectInv, DomainInv, Ours, NotLockedOut, Idle
<1>5. Applied'
  <2> DEFINE a == run.args
  <2>1. Same("object") /\ Same("domain")
    BY <1>2, AlwaysDeclared
  <2>2. /\ state["object"] # Absent /\ state["object"].pem = a.pem
        /\ state["domain"] # Absent /\ state["domain"].certificate = a.certificate
        /\ state["domain"].version = state["object"].version
    BY <2>1 DEF Same, Inputs
  <2>3. trusted.pem = a.pem
    BY <2>2 DEF IndInv, ObjectInv, DomainInv
  <2>4. a.certificate = "requested" <=> state["validation"] # Absent
    <3>1. "validation" \in Resources
      BY DEF Resources, CertificateResources
    <3>2. "validation" \in Declared(a) <=> a.certificate = "requested"
      BY DEF Declared, CertificateResources, newTruststoreBucket, BucketResources
    <3> QED BY <1>1, <1>2, <3>1, <3>2 DEF Same
  <2>5. state["dns"] # Absent <=> a.dns = "proxied"
    <3>1. "dns" \in Resources
      BY DEF Resources
    <3>2. "dns" \in Declared(a) <=> a.dns = "proxied"
      BY <1>2 DEF Declared, CertificateResources, newTruststoreBucket, BucketResources,
                  Validate, Args
    <3> QED BY <1>1, <1>2, <3>1, <3>2 DEF Same
  <2>6. store = "new" => state["policy"] = a.allowed
    BY <1>2, AlwaysDeclared DEF Same, Inputs, BucketResources
  <2> QED BY <1>1, <2>2, <2>3, <2>4, <2>5, <2>6 DEF Applied
<1> QED BY <1>3, <1>4, <1>5 DEF IndInv

(* The update stops: the next one starts from what is recorded.            *)
LEMMA StopInv ==
  ASSUME IndInv, Stop
  PROVE  IndInv'
<1>1. /\ run' = Idle /\ last' = None
      /\ UNCHANGED <<store, args, state, versions, trusted>>
  BY DEF Stop
<1>2. StateType' /\ ProgressInv' /\ Applied' /\ NotLockedOut'
  BY <1>1 DEF IndInv, StateType, Updates, ProgressInv, Applied, NotLockedOut, Idle
<1>3. GuardInv' /\ ObjectInv' /\ DomainInv'
  BY <1>1 DEF IndInv, GuardInv, ObjectInv, DomainInv, Ours
<1> QED BY <1>2, <1>3 DEF IndInv

(* Another principal writes the key or deletes what is there: never once   *)
(* the object is recorded.                                                 *)
LEMMA OthersInv ==
  ASSUME IndInv, NEW p \in Others, OtherPut(p) \/ OtherDelete(p)
  PROVE  IndInv'
<1>1. MayWrite(p) /\ UNCHANGED <<store, args, run, state, trusted, last>>
  BY DEF OtherPut, OtherDelete
<1>2. state["object"] = Absent
  BY <1>1, OthersKeptOut
<1>3. versions' \in Buckets
  <2>1. CASE OtherPut(p)
    BY <2>1, PutKeeps DEF OtherPut, IndInv
  <2>2. CASE OtherDelete(p)
    <3>1. versions \in Buckets
      BY DEF IndInv, StateType
    <3>2. CASE versions' = [versions EXCEPT !.null = Gone]
      BY <3>1, <3>2 DEF Buckets
    <3>3. ASSUME NEW i \in DOMAIN versions.list,
                 versions' = [versions EXCEPT !.list[i] = Gone]
          PROVE  versions' \in Buckets
      <4>1. [versions.list EXCEPT ![i] = Gone] \in Seq(Objects \cup {Gone})
        BY <3>1, <3>3 DEF Buckets
      <4> QED BY <3>1, <3>3, <4>1 DEF Buckets
    <3> QED BY <2>2, <3>2, <3>3 DEF OtherDelete
  <2> QED BY <2>1, <2>2
<1>4. StateType'
  BY <1>1, <1>3 DEF IndInv, StateType, Validate
<1>5. GuardInv' /\ ObjectInv' /\ DomainInv' /\ NotLockedOut' /\ Applied'
  BY <1>1, <1>2 DEF IndInv, GuardInv, ObjectInv, DomainInv, NotLockedOut, Applied
<1>6. ProgressInv'
  BY <1>1 DEF IndInv, ProgressInv, Same, Awaited, Declared, newTruststoreBucket, Inputs
<1> QED BY <1>4, <1>5, <1>6 DEF IndInv

LEMMA NextInv == IndInv /\ [Next]_vars => IndInv'
<1> SUFFICES ASSUME IndInv, [Next]_vars PROVE IndInv'
  OBVIOUS
<1>1. CASE Edit \/ WriteObject \/ LosePut \/ Finish \/ Stop
  BY <1>1, EditInv, WriteObjectInv, LosePutInv, FinishInv, StopInv
<1>2. CASE \E p \in Appliers : New(p)
  BY <1>2, NewInv
<1>3. CASE \E r \in Resources : Write(r) \/ Delete(r)
  BY <1>3, WriteInv, DeleteInv
<1>4. CASE \E p \in Others : OtherPut(p) \/ OtherDelete(p)
  BY <1>4, OthersInv
<1>5. CASE UNCHANGED vars
  BY <1>5 DEF vars, IndInv, StateType, Validate, GuardInv, ObjectInv, DomainInv, Ours,
              ProgressInv, Same, Awaited, Declared, newTruststoreBucket, Inputs,
              NotLockedOut, Applied
<1> QED BY <1>1, <1>2, <1>3, <1>4, <1>5 DEF Next

-----------------------------------------------------------------------------
(* The theorems. *)

(* The type invariant, in particular: the recorded version of the object   *)
(* is one the bucket has had.                                              *)
THEOREM TypeCorrect == Spec => []TypeOK
<1>1. IndInv => TypeOK
  <2> SUFFICES ASSUME IndInv PROVE TypeOK
    OBVIOUS
  <2>1. state["object"] # Absent => state["object"].version \in 0 .. Len(versions.list)
    BY DEF IndInv, ObjectInv, Ours, StateType, Buckets
  <2>2. state["policy"] \in (SUBSET Appliers) \cup {Absent}
    BY Recorded DEF IndInv
  <2> QED BY <2>1, <2>2 DEF IndInv, StateType, Updates, TypeOK
<1> QED BY <1>1, InitInv, NextInv, PTL DEF Spec

(* The CA the domain trusts is one this stack put, and the version it pins *)
(* still exists, in every order of the bucket's resources and whatever     *)
(* other principals write before the guard stands (New,                    *)
(* newTruststoreBucket, ProtectedPrefix).                                  *)
THEOREM TrustIsOurs == Spec => []TruststoreIsOurs
<1>1. IndInv => TruststoreIsOurs
  <2> SUFFICES ASSUME IndInv, state["domain"] # Absent
               PROVE  /\ trusted # Gone /\ trusted.by \in Appliers
                      /\ Bundle(state["domain"].version) # Gone
    BY DEF TruststoreIsOurs
  <2> DEFINE v == state["domain"].version
  <2>1. Ours(v) /\ trusted = versions.list[v]
    BY DEF IndInv, DomainInv
  <2>2. v # 0
    BY <2>1 DEF Ours, IndInv, StateType, Buckets
  <2> QED BY <2>1, <2>2, MarksAssumption DEF Ours, Bundle
<1> QED BY <1>1, InitInv, NextInv, PTL DEF Spec

(* An update run by an identity that its arguments list is never denied    *)
(* the truststore, whatever policy an earlier update left                  *)
(* (DependsOn(after)).                                                     *)
THEOREM NeverLockedOut == Spec => []NotLockedOut
<1>1. IndInv => NotLockedOut
  BY DEF IndInv
<1> QED BY <1>1, InitInv, NextInv, PTL DEF Spec

(* When an update has ended without error the domain trusts the CA it was  *)
(* given, the certificate, record and guard are as its arguments say, and  *)
(* they stay so until the next update, whatever others write.              *)
THEOREM AppliedHolds == Spec => []Applied
<1>1. IndInv => Applied
  BY DEF IndInv
<1> QED BY <1>1, InitInv, NextInv, PTL DEF Spec
=============================================================================
