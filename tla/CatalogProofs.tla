---------------------------- MODULE CatalogProofs ----------------------------
(***************************************************************************)
(* The gateway catalog, for every set of exposures, clusters, projects,    *)
(* hosts and groups.                                                       *)
(*                                                                         *)
(* What DeriveGroups and ListenerSetsFor answer is right only as long as   *)
(* the catalog they were derived from is the one in memory and that one is *)
(* still what the file and the projects say: the inductive invariant ties  *)
(* the three together (Accepted, DerivedFrom) and says what was checked on *)
(* the way, once, when the catalog was accepted or derived.                *)
(***************************************************************************)
EXTENDS Catalog, FiniteSetTheorems, TLAPS

(* What authors may write and projects may have.                           *)
Typed ==
  /\ endpoints \subseteq EndpointRows
  /\ \A k \in DOMAIN written : written[k] \in GroupRows

(* A catalog that was accepted is the file with the generated groups, and  *)
(* passed WithProjects' and Validate's checks as it stands.                *)
Accepted ==
  stage = "ready" => groups = WithGenerated /\ ~Taken /\ Valid(groups)

(* What DeriveGroups answers when it finds no fault.                       *)
Derives(byName, c, sets) ==
  /\ sets = {GroupValue(byName, k) : k \in ListenerSetGroups(c)}
  /\ \A k, l \in ListenerSetGroups(c) : k[3] = l[3] => k = l
  /\ \A v \in sets : v.grant # Refused

DerivedFrom ==
  derived.ok =>
    stage = "ready" /\ \E byName \in BOOLEAN : Derives(byName, derived.cluster, derived.sets)

IndInv == Typed /\ Accepted /\ DerivedFrom

-----------------------------------------------------------------------------
(* Nothing but an edit changes what the catalog is generated from.         *)

LEMMA SameCatalog ==
  ASSUME UNCHANGED <<shape, written, endpoints>>
  PROVE  /\ WithGenerated' = WithGenerated
         /\ Taken' <=> Taken
<1>1. Slots' = Slots
  BY DEF Slots, EndpointsOn
<1>2. \A s : Key(s)' = Key(s) /\ Generated(s)' = Generated(s)
  BY DEF Key, Generated, GroupName, Override, EndpointsOn
<1> QED BY <1>1, <1>2 DEF WithGenerated, Taken

LEMMA SameValid ==
  ASSUME UNCHANGED <<shape, groups>>
  PROVE  Valid(groups)' <=> Valid(groups)
BY DEF Valid

LEMMA SameDerived ==
  ASSUME UNCHANGED <<groups, derived>>
  PROVE  \A byName : Derives(byName, derived.cluster, derived.sets)'
                       <=> Derives(byName, derived.cluster, derived.sets)
BY DEF Derives, GroupValue, ListenerSetGroups

-----------------------------------------------------------------------------
(* The invariant is inductive.                                             *)

LEMMA InitInv == Init => IndInv
<1> SUFFICES ASSUME Init PROVE IndInv
  OBVIOUS
<1>1. Typed
  BY DEF Init, Typed
<1>2. stage = "file" /\ derived.ok = FALSE
  BY DEF Init, Underived
<1>3. Accepted /\ DerivedFrom
  BY <1>2 DEF Accepted, DerivedFrom
<1> QED BY <1>1, <1>3 DEF IndInv

(* An edit starts over: nothing accepted, nothing derived.                 *)
LEMMA EditInv ==
  ASSUME StartOver, Typed'
  PROVE  IndInv'
BY DEF StartOver, IndInv, Accepted, DerivedFrom, Underived

LEMMA LoadInv == IndInv /\ Load => IndInv'
BY DEF IndInv, Load, Typed, Accepted, DerivedFrom

LEMMA WithProjectsInv == IndInv /\ WithProjects => IndInv'
<1> SUFFICES ASSUME IndInv, WithProjects PROVE IndInv'
  OBVIOUS
<1>1. UNCHANGED <<shape, written, endpoints, derived>> /\ ~derived.ok
  BY DEF WithProjects, IndInv, DerivedFrom
<1>2. Typed' /\ DerivedFrom'
  BY <1>1 DEF IndInv, Typed, DerivedFrom
<1>3. ASSUME stage' = "ready"
      PROVE  groups' = WithGenerated /\ ~Taken /\ Valid(WithGenerated)
  BY <1>3 DEF WithProjects
<1>4. ASSUME stage' = "ready"
      PROVE  Valid(groups)'
  BY <1>1, <1>3, <1>4 DEF Valid
<1>5. Accepted'
  BY <1>1, <1>3, <1>4, SameCatalog DEF Accepted
<1> QED BY <1>2, <1>5 DEF IndInv

LEMMA DeriveInv ==
  ASSUME IndInv, NEW c \in Clusters, DeriveGroups(c)
  PROVE  IndInv'
<1>1. stage = "ready" /\ UNCHANGED <<shape, written, endpoints, stage, groups>>
  BY DEF DeriveGroups
<1>2. Typed' /\ Accepted'
  BY <1>1, SameCatalog, SameValid DEF IndInv, Typed, Accepted
<1>3. PICK byName, entry, originZone \in BOOLEAN :
        LET ks   == ListenerSetGroups(c)
            sets == {GroupValue(byName, k) : k \in ks}
            faulty == \/ \E k, l \in ks : k # l /\ k[3] = l[3]
                      \/ \E k \in ks : ExposureFaulty(k[1], entry, originZone)
                      \/ \E v \in sets : v.grant = Refused
        IN  derived' = IF faulty THEN [Underived EXCEPT !.cluster = c]
                       ELSE [ok |-> TRUE, cluster |-> c, sets |-> sets]
  BY DEF DeriveGroups
<1> DEFINE sets == {GroupValue(byName, k) : k \in ListenerSetGroups(c)}
<1>4. \/ derived'.ok = FALSE
      \/ /\ derived' = [ok |-> TRUE, cluster |-> c, sets |-> sets]
         /\ Derives(byName, c, sets)
  BY <1>3 DEF Derives, Underived
<1>5. \A b, d, s : Derives(b, d, s) => Derives(b, d, s)'
  BY <1>1 DEF Derives, GroupValue, ListenerSetGroups
<1> HIDE DEF sets
<1>6. DerivedFrom'
  BY <1>1, <1>4, <1>5 DEF DerivedFrom
<1> QED BY <1>2, <1>6 DEF IndInv

LEMMA EditsInv ==
  ASSUME IndInv
  PROVE  /\ \A k \in Exposures \X Clusters \X Names, g \in GroupRows : WriteGroup(k, g) => IndInv'
         /\ \A k \in DOMAIN written : RemoveGroup(k) => IndInv'
         /\ \A x \in EndpointRows : AddEndpoint(x) => IndInv'
         /\ \A x \in endpoints : RemoveEndpoint(x) => IndInv'
<1> USE DEF IndInv, Typed
<1>1. ASSUME NEW k, NEW g \in GroupRows, WriteGroup(k, g) PROVE IndInv'
  <2>1. StartOver /\ endpoints' = endpoints
    BY <1>1 DEF WriteGroup
  <2>2. written' = [l \in DOMAIN written \cup {k} |-> IF l = k THEN g ELSE written[l]]
    BY <1>1 DEF WriteGroup
  <2>3. \A l \in DOMAIN written' : written'[l] \in GroupRows
    BY <2>2
  <2> QED BY <2>1, <2>3, EditInv
<1>2. ASSUME NEW k, RemoveGroup(k) PROVE IndInv'
  BY <1>2, EditInv DEF RemoveGroup
<1>3. ASSUME NEW x \in EndpointRows, AddEndpoint(x) PROVE IndInv'
  BY <1>3, EditInv DEF AddEndpoint
<1>4. ASSUME NEW x, RemoveEndpoint(x) PROVE IndInv'
  BY <1>4, EditInv DEF RemoveEndpoint
<1> QED BY <1>1, <1>2, <1>3, <1>4

LEMMA NextInv == IndInv /\ [Next]_vars => IndInv'
<1> SUFFICES ASSUME IndInv, [Next]_vars PROVE IndInv'
  OBVIOUS
<1>1. CASE UNCHANGED vars
  BY <1>1, SameCatalog, SameValid, SameDerived
     DEF vars, IndInv, Typed, Accepted, DerivedFrom
<1> QED BY <1>1, LoadInv, WithProjectsInv, DeriveInv, EditsInv DEF Next

LEMMA Inductive == Spec => []IndInv
BY InitInv, NextInv, PTL DEF Spec

-----------------------------------------------------------------------------
(* An accepted catalog.                                                    *)

(* A generated group is in the catalog as it was generated: no two projects *)
(* share a key, so the CHOOSE of WithGenerated has no choice.               *)
LEMMA GeneratedStands ==
  ASSUME groups = WithGenerated, ~Taken, NEW s \in Slots
  PROVE  Key(s) \in DOMAIN groups /\ groups[Key(s)] = Generated(s)
<1>1. (CHOOSE t \in Slots : Key(t) = Key(s)) = s
  BY DEF Taken
<1>2. Key(s) \in DOMAIN written \cup {Key(t) : t \in Slots}
  OBVIOUS
<1> QED BY <1>1, <1>2 DEF WithGenerated

(* A written group is in it as it was written.                             *)
LEMMA WrittenStands ==
  ASSUME groups = WithGenerated, ~Taken, NEW k \in DOMAIN written
  PROVE  groups[k] = written[k]
<1>1. \A s \in Slots : Key(s) # k
  BY DEF Taken
<1> QED BY <1>1 DEF WithGenerated

(* There are no others.                                                    *)
LEMMA EveryGroup ==
  ASSUME groups = WithGenerated, NEW k \in DOMAIN groups
  PROVE  k \in DOMAIN written \/ \E s \in Slots : k = Key(s)
BY DEF WithGenerated

(* An endpoint where an exposure generates groups has its slot.            *)
LEMMA EndpointSlot ==
  ASSUME Typed, NEW x \in endpoints, NEW e \in DOMAIN shape.gen, x.cluster \in shape.runs[e]
  PROVE  <<e, x.cluster, x.project>> \in Slots /\ x \in EndpointsOn(x.cluster, x.project)
<1>1. x \in EndpointsOn(x.cluster, x.project)
  BY DEF EndpointsOn
<1>2. x.cluster \in Clusters /\ x.project \in Projects
  BY CatalogAssumption DEF Typed
<1> QED BY <1>1, <1>2 DEF Slots

LEMMA GeneratedGroup ==
  ASSUME NEW s
  PROVE  /\ \A x \in EndpointsOn(s[2], s[3]) : x.host \in HostsOf(Generated(s))
         /\ Generated(s).namespaces = {s[3]} /\ Generated(s).listenerSet
<1> DEFINE o == Override(s[1], s[2], s[3])
           d(x) == [host |-> x.host,
                    name |-> IF x.host \in DOMAIN o.names THEN o.names[x.host] ELSE ""]
<1>1. /\ Generated(s).domains = {d(x) : x \in EndpointsOn(s[2], s[3])}
      /\ Generated(s).namespaces = {s[3]} /\ Generated(s).listenerSet
  BY DEF Generated
<1>2. \A x : d(x).host = x.host
  OBVIOUS
<1> HIDE DEF d
<1> QED BY <1>1, <1>2 DEF HostsOf

(* On one cluster a host is in one group.                                  *)
LEMMA OneClaimant ==
  ASSUME Valid(groups), NEW k \in DOMAIN groups, NEW l \in DOMAIN groups, k[2] = l[2],
         NEW h, h \in HostsOf(groups[k]), h \in HostsOf(groups[l])
  PROVE  k = l
BY DEF Valid, ClaimedTwice

(* A group names some namespaces, and finitely many.                       *)
LEMMA GroupNamespaces ==
  ASSUME IndInv, stage = "ready", NEW k \in DOMAIN groups
  PROVE  groups[k].namespaces # {} /\ IsFiniteSet(groups[k].namespaces)
<1>1. groups = WithGenerated /\ ~Taken /\ Valid(groups)
  BY DEF IndInv, Accepted
<1>2. groups[k].namespaces # {}
  BY <1>1 DEF Valid, GroupFaulty
<1>3. CASE k \in DOMAIN written
  <2>1. groups[k] = written[k] /\ written[k] \in GroupRows
    BY <1>1, <1>3, WrittenStands DEF IndInv, Typed
  <2> QED BY <1>2, <2>1, CatalogAssumption
<1>4. ASSUME NEW s \in Slots, k = Key(s)
      PROVE  IsFiniteSet(groups[k].namespaces)
  <2>1. groups[k].namespaces = {s[3]}
    BY <1>1, <1>4, GeneratedStands, GeneratedGroup
  <2>2. IsFiniteSet({s[3]})
    BY FS_Singleton
  <2> QED BY <2>1, <2>2
<1> QED BY <1>1, <1>2, <1>3, <1>4, EveryGroup

-----------------------------------------------------------------------------
(* The theorems.                                                           *)

(* An accepted catalog is whole: every written group stands as written, and *)
(* every endpoint of a project, where an exposure generates groups, is a    *)
(* host of exactly one group of the cluster, which admits the project       *)
(* (WithProjects, Validate).                                                *)
THEOREM CatalogStaysWhole == Spec => []CatalogIsWhole
<1>1. IndInv => CatalogIsWhole
  <2> SUFFICES ASSUME IndInv, stage = "ready" PROVE CatalogIsWhole
    BY DEF CatalogIsWhole
  <2>1. groups = WithGenerated /\ ~Taken /\ Valid(groups) /\ Typed
    BY DEF IndInv, Accepted
  <2>2. \A k \in DOMAIN written : groups[k] = written[k]
    BY <2>1, WrittenStands
  <2>3. ASSUME NEW x \in endpoints, NEW e \in DOMAIN shape.gen, x.cluster \in shape.runs[e]
        PROVE  \E k \in DOMAIN groups :
                 /\ k[2] = x.cluster /\ x.host \in HostsOf(groups[k])
                 /\ groups[k].namespaces = {x.project} /\ groups[k].listenerSet
                 /\ \A l \in DOMAIN groups \ {k} :
                      l[2] = x.cluster => x.host \notin HostsOf(groups[l])
    <3> DEFINE s == <<e, x.cluster, x.project>>
    <3>1. s \in Slots /\ x \in EndpointsOn(s[2], s[3])
      BY <2>1, <2>3, EndpointSlot
    <3>2. Key(s) \in DOMAIN groups /\ groups[Key(s)] = Generated(s)
      BY <2>1, <3>1, GeneratedStands
    <3>3. x.host \in HostsOf(Generated(s)) /\ Generated(s).namespaces = {x.project}
            /\ Generated(s).listenerSet
      BY <3>1, GeneratedGroup
    <3>4. Key(s)[2] = x.cluster
      BY DEF Key
    <3>5. \A l \in DOMAIN groups \ {Key(s)} :
            l[2] = x.cluster => x.host \notin HostsOf(groups[l])
      BY <2>1, <3>2, <3>3, <3>4, OneClaimant
    <3> HIDE DEF s
    <3> QED BY <3>2, <3>3, <3>4, <3>5
  <2> QED BY <2>2, <2>3 DEF CatalogIsWhole
<1> QED BY <1>1, Inductive, PTL

(* The grant of a group that is not refused admits its namespaces, and more *)
(* only on a wildcard (routeGrant).                                         *)
LEMMA Grants ==
  ASSUME NEW byName, NEW arrival, NEW name, NEW g,
         g.namespaces # {}, IsFiniteSet(g.namespaces),
         routeGrant(byName, arrival, name, g) # Refused
  PROVE  LET admits == routeGrant(byName, arrival, name, g).admits
         IN  \/ admits = g.namespaces
             \/ /\ HostsOf(g) \cap Wildcards # {}
                /\ g.namespaces \subseteq admits
                /\ arrival = "private-clusterip" => Cardinality(g.namespaces) > 1
<1> DEFINE business == g.namespaces \cap Projects
           platform == g.namespaces \ Projects
           grant == routeGrant(byName, arrival, name, g)
<1>1. /\ business = {} => platform = g.namespaces
      /\ platform = {} => business = g.namespaces
  OBVIOUS
<1>2. CASE arrival = "private-clusterip" /\ Cardinality(g.namespaces) = 1
  BY <1>2 DEF routeGrant, NamespacesGrant
<1>3. CASE ~(arrival = "private-clusterip" /\ Cardinality(g.namespaces) = 1)
  <2>1. CASE platform # {}
    <3>1. business = {} /\ grant.admits = platform
      BY <1>3, <2>1 DEF routeGrant, NamespacesGrant, Refused
    <3> QED BY <1>1, <3>1
  <2>2. CASE platform = {} /\ HostsOf(g) \cap Wildcards = {}
    BY <1>1, <1>3, <2>2 DEF routeGrant, NamespacesGrant
  <2>3. CASE platform = {} /\ HostsOf(g) \cap Wildcards # {}
    <3>1. grant.admits = (business \cup WildcardNamespaces) \/ grant.admits = Labelled
      BY <1>3, <2>3 DEF routeGrant, NamespacesGrant, BusinessRouteGrant
    <3>2. business \subseteq grant.admits
      BY <3>1, CatalogAssumption
    <3>3. Cardinality(g.namespaces) \in Nat /\ Cardinality(g.namespaces) # 0
      BY FS_CardinalityType, FS_EmptySet
    <3>4. arrival = "private-clusterip" => Cardinality(g.namespaces) > 1
      BY <1>3, <3>3
    <3> QED BY <1>1, <2>3, <3>2, <3>4
  <2> QED BY <2>1, <2>2, <2>3
<1> QED BY <1>2, <1>3

(* What was derived: each set is the value of one of the cluster's groups,  *)
(* and a host is in one set.                                                *)
LEMMA DerivedSets ==
  ASSUME IndInv, derived.ok
  PROVE  /\ stage = "ready" /\ Valid(groups)
         /\ \E byName \in BOOLEAN :
              /\ Derives(byName, derived.cluster, derived.sets)
              /\ \A v \in derived.sets : \E k \in ListenerSetGroups(derived.cluster) :
                   /\ v = GroupValue(byName, k) /\ v.hosts = HostsOf(groups[k])
                   /\ \A h \in v.hosts : \A l \in Claimants(h) : l = k
<1>1. stage = "ready" /\ Valid(groups)
  BY DEF IndInv, Accepted, DerivedFrom
<1>2. PICK byName \in BOOLEAN : Derives(byName, derived.cluster, derived.sets)
  BY DEF IndInv, DerivedFrom
<1>3. ASSUME NEW v \in derived.sets
      PROVE  \E k \in ListenerSetGroups(derived.cluster) :
               /\ v = GroupValue(byName, k) /\ v.hosts = HostsOf(groups[k])
               /\ \A h \in v.hosts : \A l \in Claimants(h) : l = k
  <2>1. PICK k \in ListenerSetGroups(derived.cluster) : v = GroupValue(byName, k)
    BY <1>2 DEF Derives
  <2>2. v.hosts = HostsOf(groups[k])
    BY <2>1 DEF GroupValue
  <2>3. \A h \in v.hosts : \A l \in Claimants(h) : l = k
    BY <1>1, <2>1, <2>2, OneClaimant DEF Claimants, ListenerSetGroups
  <2> QED BY <2>1, <2>2, <2>3
<1> QED BY <1>1, <1>2, <1>3

(* A name of a group without wildcards, or any name of a private group     *)
(* that names one namespace, is answered only from the namespaces its      *)
(* group lists (DeriveGroups, routeGrant, validateDomainsAreUnique). Other *)
(* groups with a wildcard admit at least these, also on exact hosts.       *)
THEOREM NameStaysOwn == Spec => []NameIsOwn
<1>1. IndInv => NameIsOwn
  <2> SUFFICES ASSUME IndInv, derived.ok, NEW h \in Hosts, NEW v \in derived.sets,
                      h \in v.hosts, NEW k \in Claimants(h)
               PROVE  \/ v.grant.admits = groups[k].namespaces
                      \/ /\ HostsOf(groups[k]) \cap Wildcards # {}
                         /\ groups[k].namespaces \subseteq v.grant.admits
                         /\ Arrival[k[1]] = "private-clusterip"
                              => Cardinality(groups[k].namespaces) > 1
    BY DEF NameIsOwn
  <2>1. PICK byName \in BOOLEAN :
          /\ Derives(byName, derived.cluster, derived.sets)
          /\ v = GroupValue(byName, k)
    BY DerivedSets
  <2>2. /\ v.grant = routeGrant(byName, Arrival[k[1]], k[3], groups[k])
        /\ v.grant # Refused
    BY <2>1 DEF GroupValue, Derives
  <2>3. groups[k].namespaces # {} /\ IsFiniteSet(groups[k].namespaces)
    BY DerivedSets, GroupNamespaces DEF Claimants, ListenerSetGroups
  <2> QED BY <2>2, <2>3, Grants
<1> QED BY <1>1, Inductive, PTL

(* A project is moved to a ListenerSet only with all its hosts             *)
(* (ListenerSetsFor).                                                      *)
THEOREM ProjectsMoveTogether == Spec => []MovesTogether
<1>1. IndInv => MovesTogether
  <2> SUFFICES ASSUME IndInv, derived.ok,
                      NEW p \in Projects, NEW h \in Hosts, NEW others \in SUBSET Hosts,
                      ListenerSetsFor(p, h, others).ok
               PROVE  {v.name : v \in {u \in derived.sets : u.hosts \cap (others \cup {h}) # {}}}
                        = ListenerSetsFor(p, h, others).to
    BY DEF MovesTogether
  <2> DEFINE served == {v.name : v \in {u \in derived.sets : u.hosts \cap (others \cup {h}) # {}}}
  <2>1. \A s \in others : GroupOf(s) = GroupOf(h)
    BY DEF ListenerSetsFor, Apart
  <2>2. served = GroupOf(h)
    <3>1. \A n : n \in served <=> \E s \in others \cup {h} : n \in GroupOf(s)
      BY DEF GroupOf
    <3>2. \A n : n \in served <=> n \in GroupOf(h)
      BY <2>1, <3>1
    <3> HIDE DEF served
    <3> QED BY <3>2
  <2>3. \A m, n \in GroupOf(h) : m = n
    <3>1. SUFFICES ASSUME NEW u \in derived.sets, NEW v \in derived.sets,
                          h \in u.hosts, h \in v.hosts
                   PROVE  u = v
      BY DEF GroupOf
    <3>2. PICK byName \in BOOLEAN :
            \A w \in derived.sets : \E k \in ListenerSetGroups(derived.cluster) :
              /\ w = GroupValue(byName, k) /\ w.hosts = HostsOf(groups[k])
              /\ \A i \in w.hosts : \A l \in Claimants(i) : l = k
      BY DerivedSets
    <3>3. PICK k \in ListenerSetGroups(derived.cluster) :
            u = GroupValue(byName, k) /\ u.hosts = HostsOf(groups[k])
      BY <3>2
    <3>4. k \in Claimants(h)
      BY <3>1, <3>3 DEF Claimants
    <3> QED BY <3>1, <3>2, <3>3, <3>4
  <2>4. GroupOf(h) = {} => ListenerSetsFor(p, h, others).to = {}
    BY DEF ListenerSetsFor, NoRef, Apart
  <2>5. GroupOf(h) # {} =>
          ListenerSetsFor(p, h, others).to = {CHOOSE n \in GroupOf(h) : TRUE}
    BY <2>1 DEF ListenerSetsFor
  <2>6. GroupOf(h) # {} => GroupOf(h) = {CHOOSE n \in GroupOf(h) : TRUE}
    BY <2>3
  <2> QED BY <2>2, <2>4, <2>5, <2>6
<1> QED BY <1>1, Inductive, PTL
=============================================================================
