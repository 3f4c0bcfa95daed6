---------------------------- MODULE EdgeRouting ----------------------------
(***************************************************************************)
(* How the edge catalog and cloudflare.yaml become tunnels: cloudflare/    *)
(* edgespec (Derive, OrderHosts, Covers, ValidateRouting), the part of     *)
(* cloudflare/config that feeds it and validates what comes back, and the  *)
(* zone each tunnel record is written in (cloudflare/edge, tunnel).        *)
(*                                                                         *)
(* A domain name is the sequence of its labels FROM THE ROOT, a label is a *)
(* positive number (numbers order as the labels' strings do) and a host is *)
(* a name or a leading wildcard over one: "*.env.example.com" with         *)
(* example.com = <<1>> and env = 2 is [wild |-> TRUE, name |-> <<1, 2>>].  *)
(* The catalog accepts lower-case hosts only, so case folding is the       *)
(* identity here.                                                          *)
(***************************************************************************)
EXTENDS Naturals, Sequences, FiniteSets, SequencesExt, FiniteSetsExt

CONSTANTS
    Names,        \* domain names that requests ask for
    HostSet,      \* every host the catalog may list
    Groups,       \* the groups of the catalog, in the order they are passed
    Listed,       \* Listed[g]: the accounts g's exposure lists
    Clusters,     \* Clusters: the choices of a cluster for every group
    Business,     \* groups whose route namespaces are all business projects
    Registries,   \* the cloudflare.yaml files considered
    MaxClaims     \* bound: hosts listed in the catalog, counting repeats

Name == Seq(Nat \ {0})
Host == [wild : BOOLEAN, name : Name]

GroupSet == ToSet(Groups)

(* Hosts are finitely many names and wildcards; an exposure lists accounts. *)
ASSUME CatalogAssumption ==
  /\ Names \subseteq Name
  /\ HostSet \subseteq Host /\ IsFiniteSet(HostSet)
  /\ Len(Groups) \in Nat /\ DOMAIN Groups = 1 .. Len(Groups)
  /\ \A i \in DOMAIN Groups : Listed[Groups[i]] # {}

VARIABLES
    registry,   \* the cloudflare.yaml in use
    cluster,    \* cluster[g]: where group g runs
    claims,     \* claims[g]: the hosts group g lists
    config      \* what the last load returned

vars == <<registry, cluster, claims, config>>

(* A registry: the owner of every zone, the zones managed for their        *)
(* security.txt only, the zones with a managed WAF or a cache policy, the  *)
(* accounts with legacy_names, the zone records, and, of the catalog, the  *)
(* hosts with dns_elsewhere and with waf: off.                             *)
Zones(r)   == DOMAIN r.owner
Managed(r) == Zones(r) \ r.held

NoZone == <<>>

\* No zone is the root.
ZonesNamed(r) == Zones(r) \subseteq Name \ {NoZone}

ASSUME RegistriesAssumption == \A r \in Registries : ZonesNamed(r)

-----------------------------------------------------------------------------
(* Names, zones and rules. *)

(* name == zone || HasSuffix(name, "." + zone) *)
InZone(h, zone) == IsPrefix(zone, h.name)

\* Mutant: the shortest of the zones, as when the longer name is not preferred.
OutermostZone(zones, h) ==
  LET around == {z \in zones : InZone(h, z)}
  IN  IF around = {} THEN NoZone
      ELSE CHOOSE z \in around : \A y \in around : Len(z) <= Len(y)

\* The longest of the zones the host lies in, NoZone when it lies in none.
ZoneOf(zones, h) ==
  LET around == {z \in zones : InZone(h, z)}
  IN  IF around = {} THEN NoZone
      ELSE CHOOSE z \in around : \A y \in around : Len(y) <= Len(z)

LabelCount(h) == Len(h.name) + (IF h.wild THEN 1 ELSE 0)

\* The labels from the root; "*" sorts before any other label.
Labels(h) == IF h.wild THEN Append(h.name, 0) ELSE h.name

\* Label by label from the root, a name before its own subdomains.
LabelsBefore(la, lb) ==
  \E i \in DOMAIN lb :
    /\ \A j \in 1 .. i - 1 : j \in DOMAIN la /\ la[j] = lb[j]
    /\ i \in DOMAIN la => la[i] < lb[i]

CanonicalBefore(a, b) == LabelsBefore(Labels(a), Labels(b))

\* Mutant: broader wildcards first (the difference taken the other way round).
BroaderFirst(a, b) ==
  IF a.wild # b.wild THEN b.wild
  ELSE IF a.wild /\ LabelCount(a) # LabelCount(b) THEN LabelCount(a) < LabelCount(b)
  ELSE CanonicalBefore(a, b)

\* Exact hosts first, then wildcards with more labels first.
OrderedBefore(a, b) ==
  IF a.wild # b.wild THEN b.wild
  ELSE IF a.wild /\ LabelCount(a) # LabelCount(b) THEN LabelCount(a) > LabelCount(b)
  ELSE CanonicalBefore(a, b)

\* A claim is an index into Groups and a host. The sort is stable, and what it
\* sorts is in the order of the groups.
Earlier(c, d) == OrderedBefore(c[2], d[2]) \/ (c[2] = d[2] /\ c[1] < d[1])

\* How many of the claims come before c.
Position(claimed, c) == Cardinality({d \in claimed : Earlier(d, c)})

OrderHosts(claimed) ==
  [i \in 1 .. Cardinality(claimed) |->
     (CHOOSE c \in claimed : Position(claimed, c) = i - 1)[2]]

\* Would a request for the candidate already have matched the pattern?
Covers(pattern, candidate) ==
  \/ pattern = candidate
  \/ pattern.wild /\ IsStrictPrefix(pattern.name, candidate.name)

-----------------------------------------------------------------------------
(* Derive. *)

\* Every claim of the catalog: a host of the group at an index.
Claimed(cl) == {c \in (DOMAIN Groups) \X HostSet : c[2] \in cl[Groups[c[1]]]}

AccountOf(r, h) == r.owner[ZoneOf(Managed(r), h)]

\* A tunnel is keyed by the group's cluster and the account of the host's zone.
Key(r, cs, claim) == <<cs[Groups[claim[1]]], AccountOf(r, claim[2])>>

\* The zone lists of deriveWAF and of config.deriveWAF: the exact hosts of the
\* catalog and the proxied records, those that opted out removed.
WafHosts(r, cl, zone) ==
  {h \in UNION {cl[g] : g \in GroupSet} : ZoneOf(Managed(r), h) = zone /\ h \notin r.wafOff}
    \cup {rec.host : rec \in {x \in r.records : x.zone = zone /\ x.covered}}

CacheHosts(r, cl, zone) ==
  {h \in UNION {cl[g] : g \in Business} : ~h.wild /\ ZoneOf(Managed(r), h) = zone}

\* One tunnel: its hosts in ingress order, the zones they lie in and the hosts
\* whose DNS record something else writes.
TunnelFor(r, cs, claimed, key) ==
  LET mine  == {c \in claimed : Key(r, cs, c) = key}
      hosts == OrderHosts(mine)
  IN  [cluster |-> key[1], account |-> key[2], hosts |-> hosts,
       zones |-> {ZoneOf(Managed(r), h) : h \in ToSet(hosts)},
       elsewhere |-> ToSet(hosts) \cap r.elsewhere]

DerivedTunnels(r, cs, cl) ==
  LET claimed == Claimed(cl)
  IN  {TunnelFor(r, cs, claimed, k) : k \in {Key(r, cs, c) : c \in claimed}}

-----------------------------------------------------------------------------
(* Where a tunnel's DNS records go. *)

DNSNames(t) == ToSet(t.hosts) \ t.elsewhere

\* TunnelArgsInZones and DNS.ZoneIDOf: one zone takes every record; of several
\* each record takes its own.
RecordZone(t, h) ==
  IF \E z \in t.zones : t.zones = {z} THEN CHOOSE z \in t.zones : TRUE
  ELSE ZoneOf(t.zones, h)

OwnsRecord(t, zone, h) == h \in DNSNames(t) /\ ZoneOf(t.zones, h) = zone

-----------------------------------------------------------------------------
(* Load: Parse, derive, Validate. The first refusal is returned; the order *)
(* of the refusals is the code's.                                          *)

\* A host in no zone, or in a zone of an account its exposure does not list.
Unplaced(r, cl) ==
  \E g \in GroupSet : \E h \in cl[g] :
    \/ ZoneOf(Managed(r), h) = NoZone
    \/ AccountOf(r, h) \notin Listed[g]

\* Mutant: proxied wildcards are looked for in the zone's records only.
WildcardRecord(r, cl) ==
  \E zone \in r.waf : \E rec \in r.records : rec.zone = zone /\ rec.covered /\ rec.host.wild

ProxiedWildcard(r, cl) ==
  \E zone \in r.waf : \E h \in WafHosts(r, cl, zone) : h.wild

\* Validate's checks of one derived tunnel.
Inconsistent(r, t) ==
  \/ \E z \in t.zones : z \notin Zones(r) \/ r.owner[z] # t.account
  \/ t.hosts = <<>>
  \/ \E h \in ToSet(t.hosts) : ZoneOf(Managed(r), h) \notin t.zones

\* Mutant: only proxied records are looked at.
ProxiedRecordTaken(r, ts) ==
  \E rec \in r.records, t \in ts : rec.covered /\ OwnsRecord(t, rec.zone, rec.host)

\* Two owners of one record fight on every apply.
RecordTaken(r, ts) ==
  \E rec \in r.records, t \in ts : OwnsRecord(t, rec.zone, rec.host)

\* A host moved to another origin must be one whose record a tunnel writes.
MovedUnserved(r, ts) ==
  \E m \in r.moved : ~ \E t \in ts : OwnsRecord(t, m.zone, m.host)

\* ValidateRouting: a host declared twice, in one tunnel or in two.
DeclaredTwice(ts) ==
  \E t, u \in ts : \E i \in DOMAIN t.hosts, j \in DOMAIN u.hosts :
    <<t, i>> # <<u, j>> /\ t.hosts[i] = u.hosts[j]

\* ValidateRouting: a rule caught by an earlier one.
Shadowed(ts) ==
  \E t \in ts : \E j \in DOMAIN t.hosts : \E i \in 1 .. j - 1 :
    t.hosts[i] # t.hosts[j] /\ Covers(t.hosts[i], t.hosts[j])

Refused(why) == [why |-> why, tunnels |-> {}, waf |-> <<>>, cache |-> <<>>]

\* The first check that refuses, "none" when none does.
WhyRefused(r, cl, ts) ==
  IF Cardinality(r.legacy) > 1 THEN "legacy"
  ELSE IF Unplaced(r, cl) THEN "unplaced"
  ELSE IF ProxiedWildcard(r, cl) THEN "waf"
  ELSE IF ts = {} THEN "no tunnel"
  ELSE IF \E t \in ts : Inconsistent(r, t) THEN "inconsistent"
  ELSE IF MovedUnserved(r, ts) THEN "moved"
  ELSE IF RecordTaken(r, ts) THEN "record"
  ELSE IF DeclaredTwice(ts) THEN "twice"
  ELSE IF Shadowed(ts) THEN "shadowed" ELSE "none"

LoadConfig(r, cs, cl) ==
  LET ts  == DerivedTunnels(r, cs, cl)
      why == WhyRefused(r, cl, ts)
  IN  IF why # "none" THEN Refused(why)
      ELSE [why |-> why, tunnels |-> ts,
            waf   |-> [z \in r.waf |-> WafHosts(r, cl, z)],
            cache |-> [z \in r.cache |-> CacheHosts(r, cl, z)]]

(* The catalog is edited, one host of one group, and loaded again. *)
Load(cl) ==
  /\ claims' = cl
  /\ config' = LoadConfig(registry, cluster, claims')
  /\ UNCHANGED <<registry, cluster>>

AddHost(g, h) ==
  /\ h \notin claims[g]
  /\ Cardinality(Claimed(claims)) < MaxClaims
  /\ Load([claims EXCEPT ![g] = @ \cup {h}])

RemoveHost(g, h) ==
  /\ h \in claims[g]
  /\ Load([claims EXCEPT ![g] = @ \ {h}])

-----------------------------------------------------------------------------
(* Properties. *)

TypeOK ==
  /\ cluster \in Clusters
  /\ claims \in [GroupSet -> SUBSET HostSet]
  /\ config.why \in {"legacy", "unplaced", "waf", "no tunnel", "inconsistent",
                    "moved", "record", "twice", "shadowed", "none"}
  /\ \A t \in config.tunnels :
       /\ ToSet(t.hosts) \subseteq HostSet
       /\ t.zones \subseteq Zones(registry)
       /\ t.elsewhere \subseteq ToSet(t.hosts)

Accepted == config.why = "none"

\* How cloudflared matches: an exact host its name, a wildcard one or more
\* labels below its own.
Matches(h, n) == IF h.wild THEN IsStrictPrefix(h.name, n) ELSE h.name = n

\* Whatever the catalog lists, the rule that answers a request (the FIRST that
\* matches: order.go, "FIRST MATCH WINS, and the origin SNI is the MATCHED
\* rule's hostname") is the most specific one of its tunnel: the exact host if
\* it is listed, else the wildcard with the most labels. Stated of what Derive
\* returns, before ValidateRouting could refuse it.
MostSpecificRule ==
  ~Unplaced(registry, claims) =>
    \A t \in DerivedTunnels(registry, cluster, claims), n \in Names :
      LET matching == {i \in DOMAIN t.hosts : Matches(t.hosts[i], n)}
          first    == t.hosts[Min(matching)]
      IN  \A i \in matching :
            IF t.hosts[i].wild
            THEN first.wild => Len(t.hosts[i].name) <= Len(first.name)
            ELSE first = t.hosts[i]

\* A host listed in an accepted catalog is served by exactly one tunnel: in its
\* group's cluster and in the account, listed on its exposure, that owns the
\* closest managed zone around it, which is also the zone its record goes to. A zone
\* kept for its security.txt is not managed: a host in one inside another zone is
\* served from the enclosing one.
RightTunnel ==
  Accepted =>
    \A g \in GroupSet : \A h \in claims[g] :
      \E t \in config.tunnels, z \in Managed(registry) :
        /\ h \in ToSet(t.hosts) /\ t.cluster = cluster[g]
        /\ InZone(h, z)
        /\ \A y \in Managed(registry) : InZone(h, y) => IsPrefix(y, z)
        /\ t.account = registry.owner[z] /\ t.account \in Listed[g]
        /\ h \in DNSNames(t) => RecordZone(t, h) = z
        /\ \A u \in config.tunnels \ {t} : h \notin ToSet(u.hosts)

\* A request that a tunnel answers for a name of a zone with the managed WAF is
\* covered by it, unless the rule that answers was opted out in the catalog.
WafCoversWhatIsServed ==
  \A t \in config.tunnels, n \in Names :
    LET matching == {i \in DOMAIN t.hosts : Matches(t.hosts[i], n)}
        rule     == t.hosts[Min(matching)]
        zone     == ZoneOf(Managed(registry), [wild |-> FALSE, name |-> n])
    IN  matching # {} /\ zone \in registry.waf /\ zone = ZoneOf(t.zones, rule) =>
          \/ [wild |-> FALSE, name |-> n] \in config.waf[zone]
          \/ rule \in registry.wafOff

=============================================================================
