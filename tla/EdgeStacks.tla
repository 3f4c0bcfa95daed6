---------------------------- MODULE EdgeStacks ----------------------------
(***************************************************************************)
(* The stacks that put EdgeRouting's configuration on Cloudflare. Per      *)
(* company a zone stack (cloudflare/zonestack, zone) writes what its zones *)
(* declare, and a services stack (cloudflare/services, edge, tunnel) the   *)
(* tunnels, their ingress and their DNS records; each runs with the preset *)
(* tokens of its kind, whose prototypes a third stack (cloudflare/         *)
(* prototypes) keeps per account. All are separate updates: they may run   *)
(* at once, stop half way and be run again, while catalog and registry are *)
(* edited and the prototypes lag behind.                                   *)
(*                                                                         *)
(* Pulumi and Cloudflare are external. The engine writes what the program  *)
(* declares and what changed, in any order that respects inputs, and then  *)
(* deletes what is no longer declared. Cloudflare refuses a request its    *)
(* token does not grant, and a second record for a name.                   *)
(*                                                                         *)
(* A resource is [kind, key, zone, host]; key is the tunnel's cluster and  *)
(* account. Resources of a zone whose rules carry no property here (SSL,   *)
(* TLS, HSTS, cache, configuration rules) are its one resource "settings".  *)
(*                                                                         *)
(* A registry also names zones with bot_management (bots), with rulesets   *)
(* of the WAF's phases besides the managed one (limits: rate_limits,       *)
(* trusted_clients), and zones whose blocks Load accepts and the apply     *)
(* refuses, as ZoneBlocks shows: unfit, before anything of the zone is     *)
(* registered, or sharedRef, by Assemble, after its settings are.          *)
(***************************************************************************)
EXTENDS EdgeRouting, Presets

CONSTANTS
    CompanyOf,    \* [accounts -> company]
    Deployed,     \* the registries whose stacks are run
    NameOf(_),    \* what the programs call a resource: the slug of a host joins
                  \* its labels with "-", so that two hosts may share it
    FitHosts,     \* the number of hosts that fit a rule expression's 4096 characters
    Starts,       \* the catalogs and clusters their estates start with
    Founded,      \* the companies whose stacks are there from the start: choices
    DeployedHosts,  \* bound: the hosts listed while stacks are run
    MaxEdits,     \* bound: edits of catalog and registry while stacks are run
    MaxUps,       \* bound: updates of the zone and services stacks, together
    MaxAtOnce     \* bound: updates under way at once

Companies == Range(CompanyOf)
Stacks    == {"zone", "services"} \X Companies

(* The accounts of a registry have companies. A zone stays in its account: *)
(* moved to another one it is another zone at Cloudflare. The records that *)
(* a registry gives one name are one element of its records.               *)
ASSUME EstateAssumption ==
  /\ \A r \in Deployed :
       /\ ZonesNamed(r)
       /\ \A z \in Zones(r) : r.owner[z] \in DOMAIN CompanyOf
       /\ \A x, y \in r.records : x.zone = y.zone /\ x.host = y.host => x = y
  /\ \A r, q \in Deployed : \A z \in Zones(r) \cap Zones(q) : r.owner[z] = q.owner[z]
  /\ FitHosts \in Nat
  /\ \A st \in Starts : st[1] \in [GroupSet -> SUBSET HostSet] /\ st[2] \in Clusters
  /\ DeployedHosts \subseteq HostSet

VARIABLES
    prototypes,  \* [accounts -> the registry their prototypes, the tokens that
                 \* presets are minted from, were last written from, or NoRegistry]
    stack,       \* [Stacks -> [resources -> what was written]]: Pulumi's state,
                 \* and what there is at Cloudflare
    up,          \* [Stacks -> the update under way or how the last one ended]
    current,     \* ghost: stacks whose last update applied the configuration as it is
    ordered,     \* ghost: companies that always applied the zone stack first
    edits, ups

svars == <<prototypes, stack, up, current, ordered, edits, ups>>

NoKey  == <<>>
NoRegistry == [owner |-> <<>>]
NoHost == [wild |-> FALSE, name |-> <<>>]

Resource(kind, key, zone, host) == [kind |-> kind, key |-> key, zone |-> zone, host |-> host]

\* No resources. Those of f, with x as v.
Nothing       == [x \in {} |-> TRUE]
With(f, x, v) == [y \in {x} \cup DOMAIN f |-> IF y = x THEN v ELSE f[y]]

AccountsOf(c) == {a \in DOMAIN CompanyOf : CompanyOf[a] = c}

AccountOfZone(z) ==
  CHOOSE a \in DOMAIN CompanyOf : \E r \in Deployed : z \in Zones(r) /\ r.owner[z] = a

-----------------------------------------------------------------------------
(* What the programs declare. *)

\* Active origin_cnames of a zone: they also turn Authenticated Origin Pulls on.
ActiveOrigins(r, zone) == {m.host : m \in {x \in r.moved : x.zone = zone}}

\* Mutant: Authenticated Origin Pulls are left to the zone's own setting.
ZoneArgsNoPulls(r, cfg, zone) ==
  LET of(kind, host) == Resource(kind, NoKey, zone, host)
  IN  [x \in {of("settings", NoHost)} \cup {of("waf", NoHost) : z \in {zone} \cap r.waf}
               \cup {of("bots", NoHost) : z \in {zone} \cap r.bots}
               \cup {of("limits", NoHost) : z \in {zone} \cap r.limits}
               \cup {of("record", rec.host) : rec \in {y \in r.records : y.zone = zone}}
         |-> IF x.kind = "waf" THEN cfg.waf[zone] ELSE TRUE]

\* ZoneArgs and zone.New, for one zone.
ZoneArgs(r, cfg, zone) ==
  LET of(kind, host) == Resource(kind, NoKey, zone, host)
  IN  [x \in {of("settings", NoHost)} \cup {of("waf", NoHost) : z \in {zone} \cap r.waf}
               \cup {of("aop", NoHost) : h \in ActiveOrigins(r, zone)}
               \cup {of("bots", NoHost) : z \in {zone} \cap r.bots}
               \cup {of("limits", NoHost) : z \in {zone} \cap r.limits}
               \cup {of("record", rec.host) : rec \in {y \in r.records : y.zone = zone}}
         |-> IF x.kind = "waf" THEN cfg.waf[zone] ELSE TRUE]

TunnelKey(t) == <<t.cluster, t.account>>

\* tunnelArgs: the rules in the tunnel's order, and the names it writes records of.
\* No certificate packs.
tunnelArgs(t) == [ingress |-> t.hosts, names |-> DNSNames(t)]

\* Mutant: the records keep the content tunnel.New gives them.
originCNAMEsNone(r, h) == "tunnel"

\* originCNAMEs, tunnelOrigins: the content of a host's record.
originCNAMEs(r, h) ==
  IF h \in ActiveOrigins(r, ZoneOf(Managed(r), h)) THEN "origin" ELSE "tunnel"

DependsOn(res) ==
  IF res.kind \in {"ingress", "cname"} THEN {Resource("tunnel", res.key, NoZone, NoHost)} ELSE {}

TunnelNew(r, t) ==
  LET of(kind, zone, host) == Resource(kind, TunnelKey(t), zone, host)
      a == tunnelArgs(t)
  IN  [x \in {of("tunnel", NoZone, NoHost), of("ingress", NoZone, NoHost)}
               \cup {of("cname", RecordZone(t, h), h) : h \in a.names}
         |-> CASE x.kind = "tunnel"  -> TRUE
               [] x.kind = "ingress" -> a.ingress
               [] x.kind = "cname"   -> originCNAMEs(r, x.host)]

\* All that the parts of a program declare; no two declare the same resource.
Merge(fs) ==
  [x \in UNION {DOMAIN f : f \in fs} |-> (CHOOSE f \in fs : x \in DOMAIN f)[x]]

\* The zones a company's zone stack deploys, and its tunnels.
ZonesOf(r, c)   == {z \in Managed(r) : CompanyOf[r.owner[z]] = c}
TunnelsOf(cfg, c) == {t \in cfg.tunnels : CompanyOf[t.account] = c}

\* checkTunnelZones, TunnelArgsInZones and tunnel.Args.Validate refuse t: a zone
\* the company does not have or without an id, a host in none of its zones, or a
\* rule an earlier one catches.
TunnelRefused(r, c, t) ==
  \/ \E z \in t.zones : z \notin ZonesOf(r, c) \/ r.owner[z] # t.account
  \/ DNSNames(t) # {} /\ t.zones \cap r.pending # {}
  \/ \E h \in ToSet(t.hosts) : ZoneOf(t.zones, h) = NoZone
  \/ Shadowed({t})

\* Zones that Zone.Contributions or zonespec.Args.Validate refuse: unfit ones, and
\* those whose managed WAF derives no host or too many.
UnfitZones(r, cfg) == r.unfit \cup {z \in r.waf : Cardinality(cfg.waf[z]) \notin 1 .. FitHosts}

\* One part of a program, a zone or a tunnel: whether it is refused on its own,
\* what it wants and what of that it declares before it is refused.
deployZone(r, cfg, z) ==
  LET wants == ZoneArgs(r, cfg, z)
      early == z \in r.pending \cup UnfitZones(r, cfg)
  IN  [refused |-> early \/ z \in r.sharedRef, wants |-> wants,
       before  |-> {x \in DOMAIN wants :
                      ~early /\ (z \in r.sharedRef => x.kind \in {"settings", "bots", "aop"})}]

\* Of a tunnel everything is checked before anything is registered.
DeployTunnel(r, c, t) ==
  LET wants == TunnelNew(r, t)  refused == TunnelRefused(r, c, t)
  IN  [refused |-> refused, wants |-> wants, before |-> {x \in DOMAIN wants : ~refused}]

Parts(s, r, cfg) ==
  IF s[1] = "zone" THEN {deployZone(r, cfg, z) : z \in ZonesOf(r, s[2])}
  ELSE {DeployTunnel(r, s[2], t) : t \in TunnelsOf(cfg, s[2])}

Declares(s, r, cfg) == Merge({p.wants : p \in Parts(s, r, cfg)})

\* Pulumi refuses a second resource of one name: two hosts of one slug, in a
\* tunnel or in two whose names run on into them, two records, two zones.
NameTwice(s, r, cfg) ==
  \E x, y \in DOMAIN Declares(s, r, cfg) : x # y /\ NameOf(x) = NameOf(y)

CutShort(s, r, cfg) == NameTwice(s, r, cfg) \/ \E p \in Parts(s, r, cfg) : p.refused

\* What a program may have declared when it ends: everything, or, when it is cut
\* short, some of what its parts declare before that, of one name one resource.
Outcomes(s, r, cfg) ==
  IF ~CutShort(s, r, cfg) THEN {DOMAIN Declares(s, r, cfg)}
  ELSE {d \in SUBSET UNION {p.before : p \in Parts(s, r, cfg)} :
          \A x \in d : DependsOn(x) \subseteq d /\ \A y \in d : NameOf(x) = NameOf(y) => x = y}

\* What config.Load leaves to the apply of a stack.
LeftToApply(s, r, cfg) ==
  \/ NameTwice(s, r, cfg)
  \/ s[1] = "zone" /\ ZonesOf(r, s[2]) \cap (UnfitZones(r, cfg) \cup r.sharedRef) # {}

\* The grants writing a resource takes (docs/cloudflare/reference.md, account's
\* ZonePolicies, EdgePoliciesWithWAF and BotManagementPolicies).
Needs(res) ==
  CASE res.kind = "settings" ->
         OnZones({"Zone Settings Write", "SSL and Certificates Write", "Cache Settings Write",
                  "Config Settings Write"}, {res.zone})
    [] res.kind = "bots" -> OnZones({"Bot Management Write"}, {res.zone})
    [] res.kind \in {"waf", "limits"} -> OnZones({"Zone WAF Write"}, {res.zone})
    [] res.kind = "aop" -> OnZones({"Zone Settings Write"}, {res.zone})
    [] res.kind \in {"record", "cname"} -> OnZones({"DNS Write"}, {res.zone})
    [] res.kind \in {"tunnel", "ingress"} -> OnAccount({"Cloudflare Tunnel Write"}, res.key[2])

-----------------------------------------------------------------------------
(* What there is at Cloudflare. *)

Written == UNION {DOMAIN stack[s] : s \in Stacks}

\* Every record of a name, whichever stack wrote it.
RecordsOf(zone, host) ==
  {x \in Written : x.kind \in {"record", "cname"} /\ x.zone = zone /\ x.host = host}

WafCovers(zone, host) ==
  \E s \in Stacks : LET waf == Resource("waf", NoKey, zone, NoHost)
                    IN  waf \in DOMAIN stack[s] /\ host \in stack[s][waf]

OriginPulls(zone) == Resource("aop", NoKey, zone, NoHost) \in Written

-----------------------------------------------------------------------------
(* Edits and prototypes. *)

Ended(why) ==
  [on |-> FALSE, why |-> why, want |-> Nothing, grants |-> <<>>, todo |-> {}, cover |-> {},
   names |-> {}, refused |-> FALSE, head |-> FALSE, fresh |-> FALSE, excused |-> FALSE]

\* Mutant: the zone row names the zones with a managed WAF, and no others.
EstateRowsWaf(r, a) ==
  StandardRows(a, {z \in r.waf : r.owner[z] = a}, {})
    \cup {Row(a, k) : k \in {"dns", "insights", "insights-admin"}}
    \cup {[Row(a, k) EXCEPT !.bucket = k] : k \in BucketKinds}

\* The rows of the estate. The library cannot tell which zones need Zone WAF Write
\* and Bot Management Write: an estate lists them, here every one of both.
EstateRows(r, a) ==
  StandardRows(a, {z \in r.waf \cup r.limits : r.owner[z] = a}, {z \in r.bots : r.owner[z] = a})
    \cup {Row(a, k) : k \in {"dns", "insights", "insights-admin"}}
    \cup {[Row(a, k) EXCEPT !.bucket = k] : k \in BucketKinds}

Deploying == registry \in Deployed

\* DeployTable for every registry and account.
Presets == [r \in Deployed |-> [a \in DOMAIN CompanyOf |-> ForAccount(r, EstateRows(r, a), a)]]

\* What a token of a kind grants, minted from a's prototypes of r.
TokenGrants(r, a, kind) == (CHOOSE p \in Presets[r][a] : p.name[2] = kind).grants

\* An estate to start with: everything as configured, or but for a new company.
SInit ==
  /\ registry \in Registries
  /\ IF Deploying THEN \E st \in Starts : claims = st[1] /\ cluster = st[2]
     ELSE claims = [g \in GroupSet |-> {}] /\ cluster \in Clusters
  /\ config = LoadConfig(registry, cluster, claims)
  /\ \E old \in IF Deploying /\ Accepted
                 THEN {o \in Founded :
                         /\ \A a \in DOMAIN CompanyOf : CompanyOf[a] \in o => Presets[registry][a] # {}
                         /\ \A s \in Stacks : s[2] \in o => ~CutShort(s, registry, config)}
                 ELSE {{}} :
       /\ prototypes = [a \in DOMAIN CompanyOf |-> IF CompanyOf[a] \in old THEN registry ELSE NoRegistry]
       /\ stack = [s \in Stacks |-> IF s[2] \in old THEN Declares(s, registry, config) ELSE Nothing]
  /\ up = [s \in Stacks |-> Ended("never run")]
  /\ current = {} /\ ordered = Companies
  /\ edits = 0 /\ ups = 0

Edited ==
  /\ edits < MaxEdits /\ edits' = edits + 1
  /\ current' = {}
  /\ up' = [s \in Stacks |-> [up[s] EXCEPT !.head = FALSE]]
  /\ UNCHANGED <<prototypes, stack, ordered, ups>>

EditCatalog ==
  /\ IF Deploying THEN Edited ELSE UNCHANGED svars
  /\ \E g \in GroupSet, h \in IF Deploying THEN DeployedHosts ELSE HostSet :
       AddHost(g, h) \/ RemoveHost(g, h)

EditRegistry ==
  /\ Deploying /\ Edited
  /\ registry' \in Deployed \ {registry}
  /\ config' = LoadConfig(registry', cluster, claims)
  /\ UNCHANGED <<cluster, claims>>

\* DeployTable and Deploy, for an account: its prototypes are written, here
\* together. A protected one is never deleted. An update keeps the tokens it began
\* with, so that only updates that begin later tell: none of the company is on.
DeployPrototypes(a) ==
  /\ Deploying /\ Accepted
  /\ \A s \in Stacks : up[s].on => a \notin AccountsOf(s[2])
  /\ prototypes[a] # registry /\ Presets[registry][a] # {}
  /\ prototypes' = [prototypes EXCEPT ![a] = registry]
  /\ UNCHANGED <<vars, stack, up, current, ordered, edits, ups>>

-----------------------------------------------------------------------------
(* One update of a zone or services stack. *)

Differing(s, want) == {x \in DOMAIN want : x \notin DOMAIN stack[s] \/ stack[s][x] # want[x]}

\* Deploy: every account of the company needs its token before anything is
\* declared. What is refused ends the program.
Deploy(s) ==
  LET all == Declares(s, registry, config)
  IN  /\ Deploying /\ Accepted /\ ups < MaxUps /\ ups' = ups + 1
      /\ ~up[s].on /\ Cardinality({o \in Stacks : up[o].on}) < MaxAtOnce
      /\ \A a \in AccountsOf(s[2]) : prototypes[a] # NoRegistry
      /\ \E declared \in Outcomes(s, registry, config) :
           LET want == Restrict(all, declared)
           IN  up' = [up EXCEPT ![s] =
                 [on |-> TRUE, why |-> "running", want |-> want,
                  grants |-> [a \in AccountsOf(s[2]) |-> TokenGrants(prototypes[a], a, s[1])],
                  todo |-> Differing(s, want),
                  cover |-> {p \in registry.waf \X HostSet : p[2] \in config.waf[p[1]]},
                  names |-> {x \in UNION {DOMAIN Declares(o, registry, config) : o \in Stacks} :
                               x.kind \in {"record", "cname"}},
                  refused |-> CutShort(s, registry, config), head |-> TRUE,
                  fresh |-> \A a \in AccountsOf(s[2]) : prototypes[a] = registry,
                  excused |-> LeftToApply(s, registry, config)]]
      /\ ordered' = IF \/ s[1] = "services" /\ (<<"zone", s[2]>> \notin current \/ up[<<"zone", s[2]>>].on)
                       \/ s[1] = "zone" /\ up[<<"services", s[2]>>].on
                    THEN ordered \ {s[2]} ELSE ordered
      /\ current' = current \ {s}
      /\ UNCHANGED <<vars, prototypes, stack, edits>>

\* excused, a ghost: it ended so for a reason that the properties except.
End(s, why, excused) ==
  up' = [up EXCEPT ![s] = [Ended(why) EXCEPT !.fresh = up[s].fresh, !.excused = excused]]

\* The token a resource is written with is its account's.
Granted(s, x) ==
  Needs(x) \subseteq up[s].grants[IF x.key = NoKey THEN AccountOfZone(x.zone) ELSE x.key[2]]

Ready(s, x) == up[s].on /\ x \in up[s].todo /\ DependsOn(x) \cap up[s].todo = {}

\* The records in the way of one about to be created.
InTheWay(s, x) ==
  IF x.kind \in {"record", "cname"} /\ x \notin DOMAIN stack[s]
  THEN RecordsOf(x.zone, x.host) ELSE {}

Write(s, x) ==
  /\ Ready(s, x)
  /\ Granted(s, x) /\ InTheWay(s, x) = {}
  /\ stack' = [stack EXCEPT ![s] = With(@, x, up[s].want[x])]
  /\ up' = [up EXCEPT ![s].todo = @ \ {x}]
  /\ UNCHANGED <<vars, prototypes, current, ordered, edits, ups>>

Denied(s, x) ==
  /\ Ready(s, x) /\ ~Granted(s, x)
  /\ End(s, "denied", FALSE)
  /\ UNCHANGED <<vars, prototypes, stack, current, ordered, edits, ups>>

\* "An A, AAAA, or CNAME record with that host already exists."
Clash(s, x) ==
  /\ Ready(s, x) /\ Granted(s, x) /\ InTheWay(s, x) # {}
  /\ End(s, "clash", InTheWay(s, x) \cap up[s].names = {})
  /\ UNCHANGED <<vars, prototypes, stack, current, ordered, edits, ups>>

\* After the writes, what is no longer declared goes, a tunnel's own things first.
Delete(s, x) ==
  /\ up[s].on /\ up[s].todo = {} /\ ~up[s].refused
  /\ x \in DOMAIN stack[s] \ DOMAIN up[s].want
  /\ \A y \in DOMAIN stack[s] \ DOMAIN up[s].want : x \notin DependsOn(y)
  /\ Granted(s, x)
  /\ stack' = [stack EXCEPT ![s] = Restrict(@, DOMAIN @ \ {x})]
  /\ UNCHANGED <<vars, prototypes, up, current, ordered, edits, ups>>

Finish(s) ==
  /\ up[s].on /\ up[s].todo = {}
  /\ IF up[s].refused THEN End(s, "refused", up[s].excused) /\ UNCHANGED current
     ELSE /\ DOMAIN stack[s] \subseteq DOMAIN up[s].want
          /\ End(s, "done", FALSE)
          /\ current' = IF up[s].head THEN current \cup {s} ELSE current
  /\ UNCHANGED <<vars, prototypes, stack, ordered, edits, ups>>

\* A request fails or the process dies; a delete the token does not grant ends so.
Stop(s) ==
  /\ up[s].on /\ End(s, "stopped", FALSE)
  /\ UNCHANGED <<vars, prototypes, stack, current, ordered, edits, ups>>

Update(s) ==
  \/ Deploy(s) \/ Finish(s) \/ Stop(s)
  \/ \E x \in up[s].todo : Write(s, x) \/ Denied(s, x) \/ Clash(s, x)
  \/ \E x \in DOMAIN stack[s] : Delete(s, x)

SNext ==
  \/ EditCatalog \/ EditRegistry
  \/ \E a \in DOMAIN CompanyOf : DeployPrototypes(a)
  \/ \E s \in Stacks : Update(s)

SSpec == SInit /\ [][SNext]_<<vars, svars>>

-----------------------------------------------------------------------------
(* Properties. *)

STypeOK ==
  /\ TypeOK /\ registry \in Registries \cup Deployed
  /\ \A a \in DOMAIN prototypes : prototypes[a] \in Deployed \cup {NoRegistry}
  /\ current \subseteq Stacks /\ ordered \subseteq Companies
  /\ \A s \in Stacks : up[s].todo \subseteq DOMAIN up[s].want

\* A token minted from the prototypes of the registry an update runs with lets
\* it write everything its program declares: presets.build grants, kind by kind,
\* what zone.New and tunnel.New register. That the zone row names every zone with a
\* managed WAF, rate limits, trusted clients or bot management is the estate's part
\* (EstateRows).
NeverDenied ==
  \A s \in Stacks : up[s].why = "denied" => ~up[s].fresh

\* With such tokens a program is not refused half way, after some of its resources
\* were written, but for what Load leaves to the apply: a zone whose blocks
\* zone.New does not take, or two resources of one name. No tunnel is cut from its
\* zone by the split along companies, none has a rule or a zone tunnel.New refuses,
\* and an account with a zone whose id is missing has no token to begin with.
NeverHalfDone ==
  \A s \in Stacks : up[s].why = "refused" /\ up[s].fresh => up[s].excused

\* The prototypes of an account grant, on a zone, only what the account had
\* when they were written, and on a zone managed for its security.txt only
\* nothing that writes but its settings, whatever the kind of the preset.
PresetsStayInside ==
  \A a \in DOMAIN prototypes : prototypes[a] # NoRegistry =>
    LET r == prototypes[a]
    IN  \A p \in Presets[r][a] : \A g \in p.grants : g[2][1] = "zone" =>
          /\ r.owner[g[2][2]] = a
          /\ g[2][2] \in r.held =>
               p.name[2] \in {"insights", "insights-admin"} \/ g[1] = "Zone Settings Write"

\* A record is refused because the name has one only when that one is left from
\* an earlier configuration: two resources of one configuration, of whatever
\* stacks and companies, never claim the same name.
ClashIsLeftover ==
  \A s \in Stacks : up[s].why = "clash" => up[s].excused

\* A company that applies its zone stack before its services stack protects a
\* name before it leads anywhere (docs/cloudflare/config.md, "Order of
\* applies"): no step of an update makes a record lead to a tunnel while the
\* managed WAF that should cover the name does not list it, or to an origin that
\* demands Cloudflare's certificate while the zone presents none.
ProtectedFirst ==
  [][\A s \in Stacks : \A x \in DOMAIN stack'[s] :
       (/\ x.kind = "cname" /\ s[2] \in ordered
        /\ x \notin DOMAIN stack[s] \/ stack'[s][x] # stack[s][x])
         => /\ <<x.zone, x.host>> \in up[s].cover => WafCovers(x.zone, x.host)
            /\ stack'[s][x] = "origin" => OriginPulls(x.zone)]_<<vars, svars>>

\* Once both stacks of a company have applied the configuration as it is,
\* whatever was left half done before: a host of the catalog has one record, in
\* its zone, that leads to its own tunnel or origin, where it is a rule; a name
\* no longer listed has none; and the zone's protections are those declared.
AppliedMatches ==
  \A c \in Companies : {<<"zone", c>>, <<"services", c>>} \subseteq current =>
    \A z \in ZonesOf(registry, c), h \in HostSet :
      LET mine == {t \in config.tunnels : h \in ToSet(t.hosts) /\ ZoneOf(Managed(registry), h) = z}
          own  == {t \in mine : h \notin registry.elsewhere}
          recs == {x \in registry.records : x.zone = z /\ x.host = h}
      IN  /\ Cardinality(RecordsOf(z, h)) = Cardinality(own) + Cardinality(recs)
          /\ \A t \in mine :
               /\ h \in ToSet(stack[<<"services", c>>][Resource("ingress", TunnelKey(t), NoZone, NoHost)])
               /\ t \in own => \E x \in RecordsOf(z, h) :
                    /\ x.key = TunnelKey(t)
                    /\ stack[<<"services", c>>][x] = "origin"
                         <=> \E m \in registry.moved : m.zone = z /\ m.host = h
          /\ WafCovers(z, h) <=> z \in registry.waf /\ h \in config.waf[z]
          /\ OriginPulls(z) <=> \E m \in registry.moved : m.zone = z
=============================================================================
