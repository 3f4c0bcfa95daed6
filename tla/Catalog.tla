------------------------------- MODULE Catalog -------------------------------
(***************************************************************************)
(* The gateway catalog (package catalog): gateways.yaml lists, per         *)
(* exposure and cluster, groups of hosts; WithProjects adds a group per    *)
(* project; Validate accepts or refuses the whole; DeriveGroups turns one  *)
(* cluster's listener_set groups into ListenerSets with a grant saying     *)
(* which namespaces may attach routes; ListenerSetsFor points a project's  *)
(* chart at one.  An edit of the file or of the projects starts over.      *)
(*                                                                         *)
(* A domain is a host and the object name written for it ("" for none);    *)
(* listener_name and secret_name are checked alike and are one name here.  *)
(* What a group asks for that only some arrivals have (waf and             *)
(* dns_elsewhere, or cross_cluster and record_elsewhere) is its "only".    *)
(***************************************************************************)
EXTENDS Naturals, FiniteSets

CONSTANTS
  Arrival,            \* how each exposure's traffic arrives
  Shapes,             \* where exposures run, and their project_groups
  Clusters, Names,    \* clusters, names of groups
  Projects,           \* names of projects, which are their namespaces' too
  Hosts, Wildcards,   \* hosts of the catalog, the wildcards among them
  Slug,               \* DomainSlug: the object name a host gets by default
  GroupRows,          \* groups an author may write
  EndpointRows,       \* endpoints a project may have
  PlatformConsumers,  \* group name -> namespace of a platform group
  Labelled,           \* namespaces that carry the business grant label
  WildcardNamespaces, \* per-install namespaces an estate grants by name
  ReservedExposure,   \* the shared fleet's own Gateway
  MaxGroups, MaxEndpoints   \* bounds on what is written

ASSUME CatalogAssumption ==
  /\ Wildcards \subseteq Hosts /\ Projects \subseteq Labelled
  /\ WildcardNamespaces \subseteq Labelled
  /\ MaxGroups \in Nat /\ MaxEndpoints \in Nat
  /\ \A g \in GroupRows : IsFiniteSet(g.namespaces)
  /\ \A x \in EndpointRows : x.project \in Projects /\ x.cluster \in Clusters

VARIABLES
  shape,      \* runs: exposure -> clusters; gen: exposure -> overrides
  written,    \* <<exposure, cluster, name>> -> group, as in the file
  endpoints,  \* of all projects: [project, cluster, host, wafOff]
  stage,      \* how far the catalog has been read
  groups,     \* the catalog in memory
  derived     \* DeriveGroups' answer for one cluster

vars == <<shape, written, endpoints, stage, groups, derived>>

Exposures == DOMAIN Arrival

Underived == [ok |-> FALSE, cluster |-> "", sets |-> {}]

Init ==
  /\ shape \in Shapes
  /\ written = << >> /\ endpoints = {}
  /\ stage = "file" /\ groups = << >> /\ derived = Underived

-----------------------------------------------------------------------------
(* Validate.                                                               *)

HostsOf(g) == {d.host : d \in g.domains}

ListenerNameOrDefault(d) == IF d.name # "" THEN d.name ELSE Slug[d.host]

\* Group.validate and the arrival's conditions of Exposure.validate.
GroupFaulty(g, arrival) ==
  \/ g.domains = {} \/ g.namespaces = {}
  \/ ~g.listenerSet /\ \E d \in g.domains : d.name # ""
  \/ \E d, f \in g.domains :
       d # f /\ (d.host = f.host \/ ListenerNameOrDefault(d) = ListenerNameOrDefault(f))
  \/ g.only = "tunnel" /\ arrival # "cloudflare-tunnel"
  \/ g.only = "other" /\ arrival = "cloudflare-tunnel"

\* Mutant: a name is unique within its exposure only.
ClaimedTwiceInExposure(gs) ==
  \E k, l \in DOMAIN gs :
    k # l /\ k[1] = l[1] /\ k[2] = l[2] /\ HostsOf(gs[k]) \cap HostsOf(gs[l]) # {}

\* validateDomainsAreUnique: one cluster, one name, two groups.
ClaimedTwice(gs) ==
  \E k, l \in DOMAIN gs : k # l /\ k[2] = l[2] /\ HostsOf(gs[k]) \cap HostsOf(gs[l]) # {}

Valid(gs) ==
  /\ \A e \in Exposures : \A c \in shape.runs[e] : \E k \in DOMAIN gs : k[1] = e /\ k[2] = c
  /\ \A k \in DOMAIN gs : ~GroupFaulty(gs[k], Arrival[k[1]])
  /\ ~ClaimedTwice(gs)

-----------------------------------------------------------------------------
(* Load and WithProjects.                                                  *)

\* Without project_groups the file is complete and validated at once; with
\* them WithProjects validates.
Load ==
  /\ stage = "file"
  /\ groups' = written
  /\ stage' = IF DOMAIN shape.gen # {} \/ Valid(written) THEN "loaded" ELSE "refused"
  /\ UNCHANGED <<shape, written, endpoints, derived>>

NoOverride == [group |-> "", names |-> << >>]

Override(e, c, p) ==
  IF <<c, p>> \in DOMAIN shape.gen[e] THEN shape.gen[e][<<c, p>>] ELSE NoOverride

EndpointsOn(c, p) == {x \in endpoints : x.cluster = c /\ x.project = p}

\* <<exposure, cluster, project>> for which a group is generated.
Slots ==
  {s \in (DOMAIN shape.gen) \X Clusters \X Projects :
     s[2] \in shape.runs[s[1]] /\ EndpointsOn(s[2], s[3]) # {}}

GroupName(s) ==
  LET o == Override(s[1], s[2], s[3]) IN IF o.group # "" THEN o.group ELSE s[3]

Key(s) == <<s[1], s[2], GroupName(s)>>

Generated(s) ==
  LET o    == Override(s[1], s[2], s[3])
      mine == EndpointsOn(s[2], s[3])
  IN  [domains     |-> {[host |-> x.host,
                         name |-> IF x.host \in DOMAIN o.names THEN o.names[x.host] ELSE ""]
                          : x \in mine},
       namespaces  |-> {s[3]}, listenerSet |-> TRUE,
       only        |-> IF \E x \in mine : x.wafOff THEN "tunnel" ELSE "any"]

\* ProjectGroups.validate, and an override no endpoint uses.
OverrideFaulty(e) ==
  \E o \in DOMAIN shape.gen[e] :
    \/ o[1] \notin shape.runs[e]
    \/ shape.gen[e][o] = NoOverride
    \/ <<e, o[1], o[2]>> \notin Slots

\* Mutant: a generated group replaces the written one.
NeverTaken == FALSE

\* A generated name that is written in the file, or generated before.
Taken ==
  \/ \E s \in Slots : Key(s) \in DOMAIN written
  \/ \E s, t \in Slots : s # t /\ Key(s) = Key(t)

WithGenerated ==
  [k \in DOMAIN written \cup {Key(s) : s \in Slots} |->
     IF \E s \in Slots : Key(s) = k THEN Generated(CHOOSE s \in Slots : Key(s) = k)
     ELSE written[k]]

WithProjects ==
  /\ stage = "loaded"
  /\ IF \/ \E x \in endpoints : x.host \in Wildcards
        \/ \E e \in DOMAIN shape.gen : OverrideFaulty(e)
        \/ Taken
        \/ ~Valid(WithGenerated)
     THEN stage' = "refused" /\ UNCHANGED groups
     ELSE stage' = "ready" /\ groups' = WithGenerated
  /\ UNCHANGED <<shape, written, endpoints, derived>>

-----------------------------------------------------------------------------
(* DeriveGroups for one cluster.                                           *)

Refused == [by |-> "refused", admits |-> {}]
NamespacesGrant(ns) == [by |-> "name", admits |-> ns]
BusinessRouteGrant == [by |-> "label", admits |-> Labelled]

\* Who may attach routes to a group's ListenerSet.
routeGrant(byName, arrival, name, g) ==
  LET business == g.namespaces \cap Projects
      platform == g.namespaces \ Projects
  IN  IF arrival = "private-clusterip" /\ Cardinality(g.namespaces) = 1
      THEN NamespacesGrant(g.namespaces)
      ELSE IF business # {} /\ platform # {} THEN Refused
      ELSE IF platform # {}
      THEN IF name \in DOMAIN PlatformConsumers /\ platform = {PlatformConsumers[name]}
           THEN NamespacesGrant(platform) ELSE Refused
      ELSE IF HostsOf(g) \cap Wildcards = {} THEN NamespacesGrant(business)
      ELSE IF byName THEN NamespacesGrant(business \cup WildcardNamespaces)
      ELSE BusinessRouteGrant

\* The Gateway a group attaches to: the private entry, or its exposure's own.
Parent(e) == IF Arrival[e] = "private-clusterip" THEN "entry" ELSE e

GroupValue(byName, k) ==
  [name |-> k[3], exposure |-> k[1], parent |-> Parent(k[1]), hosts |-> HostsOf(groups[k]),
   grant |-> routeGrant(byName, Arrival[k[1]], k[3], groups[k])]

ListenerSetGroups(c) == {k \in DOMAIN groups : k[2] = c /\ groups[k].listenerSet}

\* An exposure with listener_set groups that cannot be derived.
ExposureFaulty(e, entry, originZone) ==
  IF Arrival[e] = "private-clusterip" THEN ~entry
  ELSE e = ReservedExposure \/ Arrival[e] # "cloudflare-tunnel" \/ ~originZone

\* With or without a private entry, an origin zone and grants by name only.
DeriveGroups(c) ==
  /\ stage = "ready"
  /\ \E byName, entry, originZone \in BOOLEAN :
       LET ks   == ListenerSetGroups(c)
           sets == {GroupValue(byName, k) : k \in ks}
           faulty == \/ \E k, l \in ks : k # l /\ k[3] = l[3]
                     \/ \E k \in ks : ExposureFaulty(k[1], entry, originZone)
                     \/ \E v \in sets : v.grant = Refused
       IN  derived' = IF faulty THEN [Underived EXCEPT !.cluster = c]
                      ELSE [ok |-> TRUE, cluster |-> c, sets |-> sets]
  /\ UNCHANGED <<shape, written, endpoints, stage, groups>>

NoRef == [ok |-> TRUE, to |-> {}]
Apart == [ok |-> FALSE, to |-> {}]

GroupOf(host) == {v.name : v \in {u \in derived.sets : host \in u.hosts}}

\* Mutant: surfaces are compared only when the primary host has moved.
PointedIfMoved(project, hostname, surfaces) ==
  IF GroupOf(hostname) = {} THEN NoRef
  ELSE IF \E s \in surfaces : GroupOf(s) # GroupOf(hostname) THEN Apart
  ELSE [ok |-> project \in Projects, to |-> {CHOOSE n \in GroupOf(hostname) : TRUE}]

\* The ListenerSet a project's chart is pointed at (none, or one), for its primary
\* hostname and the other hosts it serves.
ListenerSetsFor(project, hostname, surfaces) ==
  IF \E s \in surfaces : GroupOf(s) # GroupOf(hostname) THEN Apart
  ELSE IF GroupOf(hostname) = {} THEN NoRef
  ELSE [ok |-> project \in Projects, to |-> {CHOOSE n \in GroupOf(hostname) : TRUE}]

-----------------------------------------------------------------------------
(* Edits of the catalog file and of the projects.                          *)

StartOver == stage' = "file" /\ groups' = << >> /\ derived' = Underived

WriteGroup(k, g) ==
  /\ k \notin DOMAIN written /\ Cardinality(DOMAIN written) < MaxGroups
  /\ k[2] \in shape.runs[k[1]]
  /\ written' = [l \in DOMAIN written \cup {k} |-> IF l = k THEN g ELSE written[l]]
  /\ StartOver /\ UNCHANGED <<shape, endpoints>>

RemoveGroup(k) ==
  /\ written' = [l \in DOMAIN written \ {k} |-> written[l]]
  /\ StartOver /\ UNCHANGED <<shape, endpoints>>

AddEndpoint(x) ==
  /\ x \notin endpoints /\ Cardinality(endpoints) < MaxEndpoints
  /\ endpoints' = endpoints \cup {x}
  /\ StartOver /\ UNCHANGED <<shape, written>>

RemoveEndpoint(x) ==
  /\ endpoints' = endpoints \ {x}
  /\ StartOver /\ UNCHANGED <<shape, written>>

Next ==
  \/ Load \/ WithProjects \/ \E c \in Clusters : DeriveGroups(c)
  \/ \E k \in Exposures \X Clusters \X Names, g \in GroupRows : WriteGroup(k, g)
  \/ \E k \in DOMAIN written : RemoveGroup(k)
  \/ \E x \in EndpointRows : AddEndpoint(x)
  \/ \E x \in endpoints : RemoveEndpoint(x)

Spec == Init /\ [][Next]_vars

-----------------------------------------------------------------------------
(* Properties.                                                             *)

\* An accepted catalog is whole: every group the author wrote stands as it was
\* written (projects.go: "the generation never silently replaces a claim"), and
\* every endpoint of a project, on a cluster where an exposure generates groups,
\* is a host of exactly one group there, which admits the project.
CatalogIsWhole ==
  stage = "ready" =>
    /\ \A k \in DOMAIN written : groups[k] = written[k]
    /\ \A x \in endpoints :
         (\E e \in DOMAIN shape.gen : x.cluster \in shape.runs[e]) =>
           \E k \in DOMAIN groups :
             /\ k[2] = x.cluster /\ x.host \in HostsOf(groups[k])
             /\ groups[k].namespaces = {x.project} /\ groups[k].listenerSet
             /\ \A l \in DOMAIN groups \ {k} :
                  l[2] = x.cluster => x.host \notin HostsOf(groups[l])

\* The keys of the groups a host of the cluster is in.
Claimants(h) == {k \in ListenerSetGroups(derived.cluster) : h \in HostsOf(groups[k])}

\* A name of a group without wildcards, or any name of a private group that names
\* one namespace, is answered only from the namespaces its group lists, whatever
\* labels other namespaces carry and whatever other groups claim. (Any other group
\* that answers on a wildcard admits per-install namespaces too, on its wildcard
\* and on an exact host beside it: routeGrant grants a group as a whole.)
NameIsOwn ==
  derived.ok =>
    \A h \in Hosts, v \in derived.sets : h \in v.hosts =>
      \A k \in Claimants(h) :
        LET g == groups[k]
        IN  \/ v.grant.admits = g.namespaces
            \/ /\ HostsOf(g) \cap Wildcards # {}
               /\ g.namespaces \subseteq v.grant.admits
               /\ Arrival[k[1]] = "private-clusterip" => Cardinality(g.namespaces) > 1

\* A project is moved to a ListenerSet only with all its hosts: none of them is
\* left on another listener, and none leaves while the project stays.
MovesTogether ==
  derived.ok =>
    \A p \in Projects, h \in Hosts, others \in SUBSET Hosts :
      LET ref    == ListenerSetsFor(p, h, others)
          served == {v.name : v \in {u \in derived.sets : u.hosts \cap (others \cup {h}) # {}}}
      IN  ref.ok => served = ref.to
=============================================================================
