----------------------------- MODULE ZoneBlocks -----------------------------
(***************************************************************************)
(* The blocks of one zone in cloudflare.yaml: what config.Load accepts     *)
(* (config.go, manage.go), the arguments zonestack.ZoneArgs and            *)
(* Zone.Contributions make of them, and what zonespec.Args.Validate and    *)
(* zone.New then refuse or register, with RulesAssembly's rulesets. Blocks *)
(* are written one by one and the zone is loaded and deployed after each.  *)
(*                                                                         *)
(* A host is a name with a Shape: whether it lies inside the zone or is    *)
(* its apex, is a wildcard, or has upper-case letters or underscores.      *)
(* Blocks that are absent are Nil.                                         *)
(***************************************************************************)
EXTENDS RulesAssembly, FiniteSetsExt

CONSTANTS
    Shape,      \* [names -> SUBSET {"inside", "apex", "wild", "upper", "underscore"}]
    Resource,   \* [names -> the part of a resource name recordSlug makes of it]
    FitHosts,   \* the number of hosts that fit a rule expression's 4096 characters
    Blocks,     \* the blocks, in the order of the file
    Values,     \* [block -> the values it is given]
    Nil,        \* an absent block
    MaxBlocks   \* bound: blocks other than those of Plain

VARIABLES
    blocks,     \* the zone
    deployed    \* the outcome of loading and deploying it

zvars == <<blocks, deployed>>

-----------------------------------------------------------------------------
(* zonespec. *)

Inside(h) == "inside" \in Shape[h]
InZone(h) == Shape[h] \cap {"inside", "apex"} # {}
Is(h, no) == Shape[h] \cap no = {}

NoDuplicates(s) == \A i, j \in DOMAIN s : s[i] = s[j] => i = j

\* planLimits.
PlanLimit ==
  [free |-> [maxRules |-> 1, periods |-> {10}, timeouts |-> {10},
             characteristics |-> {"ip"}, fields |-> FALSE],
   pro |-> [maxRules |-> 2, periods |-> {10, 60}, timeouts |-> {10, 60, 120, 300, 600, 3600},
            characteristics |-> {"ip"}, fields |-> FALSE],
   business |-> [maxRules |-> 5, periods |-> {10, 60, 120, 300, 600},
                 timeouts |-> {10, 60, 120, 300, 600, 3600, 86400},
                 characteristics |-> {"ip", "visitor"}, fields |-> TRUE]]

\* Endpoint.validate: `paths' are the fields given of path and pathPrefix, with
\* their values.
validateEndpoint(limit, e) ==
  /\ Is(e.host, {"wild", "upper", "underscore"})
  /\ Cardinality(e.paths) = 1
  /\ e.methods => limit.fields

\* An expression is "none", "plain" or, when it reads the request method, "method".
validateMatch(limit, r) ==
  /\ r.name # ""
  /\ r.endpoints = <<>> <=> r.expression # "none"
  /\ r.expression = "method" \/ r.counting => limit.fields
  /\ \A i \in DOMAIN r.endpoints : validateEndpoint(limit, r.endpoints[i])
  /\ NoDuplicates(r.endpoints)

validateKeyAndRate(limit, r) ==
  LET keys == SelectSeq(r.characteristics, LAMBDA c : c # "colo")
  IN  /\ ToSet(keys) \subseteq limit.characteristics
      /\ NoDuplicates(keys) /\ Len(keys) <= 1
      /\ r.period \in limit.periods /\ r.requests >= 1

validateAction(limit, r) ==
  /\ r.action \in {"block", "managed_challenge", "js_challenge", "challenge"}
  /\ IF r.action = "block" THEN r.timeout \in limit.timeouts ELSE r.timeout = 0

validateRateLimits(b) ==
  /\ b.plan \in DOMAIN PlanLimit
  /\ Len(b.rules) <= PlanLimit[b.plan].maxRules
  /\ \A i \in DOMAIN b.rules :
       LET r == b.rules[i]  limit == PlanLimit[b.plan]
       IN  validateMatch(limit, r) /\ validateKeyAndRate(limit, r) /\ validateAction(limit, r)
  /\ NoDuplicates([i \in DOMAIN b.rules |-> b.rules[i].name])

SkipPhases   == {"http_ratelimit", "http_request_firewall_managed", "http_request_sbfm"}
SkipProducts == {"bic", "hot", "rateLimit", "securityLevel", "uaBlock", "waf", "zoneLockdown"}

TrustedManaged(t) == t # Nil /\ (t.hosts # <<>> \/ t.ranges # <<>>)

\* A range is [bits, v4, hostBits].
validateTrusted(t) ==
  TrustedManaged(t) =>
    /\ t.hosts # <<>> /\ t.ranges # <<>>
    /\ ToSet(t.skip) \subseteq SkipPhases \cup SkipProducts \cup {"current"} /\ NoDuplicates(t.skip)
    /\ \A h \in ToSet(t.hosts) : InZone(h) /\ Is(h, {"wild", "upper"})
    /\ \A r \in ToSet(t.ranges) : ~r.hostBits /\ r.bits >= IF r.v4 THEN 8 ELSE 16
    /\ NoDuplicates(t.hosts) /\ NoDuplicates(t.ranges)

\* A record is [name, type, content, proxied, ttl]; a content is an address or name
\* with its form, "v4", "v6" or "host".
validateRecords(rs) ==
  /\ \A i \in DOMAIN rs :
       /\ InZone(rs[i].name) /\ Is(rs[i].name, {"upper"})
       /\ <<rs[i].type, rs[i].content[1]>> \in {<<"A", "v4">>, <<"AAAA", "v6">>, <<"CNAME", "host">>}
       /\ rs[i].ttl = 0 \/ (~rs[i].proxied /\ rs[i].ttl \in 60 .. 86400)
  /\ NoDuplicates([i \in DOMAIN rs |-> <<rs[i].name, rs[i].type, rs[i].content>>])
  /\ \A i, j \in DOMAIN rs : i # j /\ rs[i].name = rs[j].name => rs[i].type # "CNAME"

validateHSTS(h, https) ==
  /\ h.maxAge \in 0 .. 31536000
  /\ h.preload => h.enabled /\ h.subdomains /\ h.maxAge >= 31536000 /\ https = TRUE

validateWAF(w) ==
  IF w.wholeZone THEN w.hosts = {}
  ELSE /\ w.hosts # {} /\ Cardinality(w.hosts) <= FitHosts
       /\ \A h \in w.hosts : InZone(h) /\ Is(h, {"upper"})

validateBots(b) ==
  /\ b.aiBots \in {"", "block", "disabled", "only_on_ad_pages"}
  /\ b.aiBots = "" => b.robots # Nil

NoArgs ==
  [ssl |-> "", minTls |-> "", ca |-> Nil, cache |-> Nil, trusted |-> Nil, rate |-> Nil,
   records |-> <<>>, https |-> Nil, hsts |-> Nil, waf |-> Nil, bots |-> Nil, pulls |-> Nil,
   contributions |-> <<>>, import |-> {}]

\* Args.Validate.
Validate(a) ==
  /\ a.ssl \in {"", "off", "flexible", "full", "strict"}
  /\ a.minTls \in {"", "1.0", "1.1", "1.2", "1.3"}
  /\ a.ca \in {Nil, "", "google", "lets_encrypt", "ssl_com"}
  /\ a.cache # Nil => \A h \in a.cache : Is(h, {"upper"})
  /\ validateTrusted(a.trusted)
  /\ a.rate # Nil => validateRateLimits(a.rate)
  /\ validateRecords(a.records)
  /\ a.hsts # Nil => validateHSTS(a.hsts, a.https)
  /\ a.waf # Nil => validateWAF(a.waf)
  /\ a.bots # Nil => validateBots(a.bots)
  /\ \* "nothing to apply"
     [a EXCEPT !.trusted = IF TrustedManaged(a.trusted) THEN a.trusted ELSE Nil, !.import = {}] # NoArgs

-----------------------------------------------------------------------------
(* config.Load. *)

Plain ==
  [manage |-> "", zoneID |-> "id", pending |-> FALSE, legacy |-> FALSE, ssl |-> "full",
   minTls |-> "", ca |-> Nil, cache |-> Nil, cacheHosts |-> {}, publicCache |-> Nil,
   sslRules |-> <<>>, refs |-> <<>>, importID |-> FALSE, rate |-> Nil, trusted |-> Nil,
   records |-> <<>>, origins |-> {}, https |-> Nil, hsts |-> Nil, waf |-> Nil, wafHosts |-> {},
   bots |-> Nil, doc |-> Nil]

SecurityTxtOnly(z) == z.manage = "security_txt"

\* validateManage: such a zone has its account, id and document, and nothing else.
\* What Load derives (cacheHosts, wafHosts) is not a field of the file.
validateManage(z) ==
  /\ z.manage \in {"", "full", "security_txt"}
  /\ SecurityTxtOnly(z) =>
       /\ z.zoneID # "" /\ z.doc # Nil
       /\ [z EXCEPT !.manage = "", !.doc = Nil, !.zoneID = "id", !.legacy = FALSE,
                    !.cacheHosts = {}, !.wafHosts = {}] = [Plain EXCEPT !.ssl = ""]

validateID(z) ==
  IF z.pending THEN z.zoneID = "" /\ ~z.legacy ELSE z.zoneID # ""

\* A lower-case exact name below the zone; an underscore passes.
NamedHost(h) == Inside(h) /\ Is(h, {"wild", "upper"})

validateRateCfg(z) ==
  z.rate # Nil =>
    /\ \A i \in DOMAIN z.rate.rules : \A j \in DOMAIN z.rate.rules[i].endpoints :
         InZone(z.rate.rules[i].endpoints[j].host)
    /\ Validate([NoArgs EXCEPT !.rate = z.rate])

\* Mutant: listed hosts of a managed WAF are not held to the component's checks.
validateHardeningOwn(z) ==
  /\ z.waf # Nil => (z.waf.enabled => z.waf.hosts = {} /\ ~z.waf.wholeZone)
  /\ LET a == [NoArgs EXCEPT !.https = z.https, !.hsts = z.hsts, !.bots = z.bots]
     IN  a # NoArgs => Validate(a)
  /\ z.hsts # Nil => ~z.hsts.preload /\ (z.hsts.enabled => z.https = TRUE)

\* validateManagedWAF and validateHardening.
validateHardening(z) ==
  /\ z.waf # Nil =>
       /\ z.waf.enabled => z.waf.hosts = {} /\ ~z.waf.wholeZone
       /\ \A h \in z.waf.hosts : Is(h, {"wild"})
  /\ LET lib == IF z.waf # Nil /\ ~z.waf.enabled THEN z.waf ELSE Nil
         a   == [NoArgs EXCEPT !.https = z.https, !.hsts = z.hsts, !.waf = lib, !.bots = z.bots]
     IN  a # NoArgs => Validate(a)
  /\ z.hsts # Nil => ~z.hsts.preload /\ (z.hsts.enabled => z.https = TRUE)
  /\ z.doc # Nil => z.doc.contact # {} /\ z.doc.contact \subseteq {"mailto", "https"} /\ z.doc.dated

\* PublicCacheCfg.validate; a ttl of 0 is the default one.
validatePublicCache(z) ==
  z.publicCache # Nil =>
    /\ z.cache # Nil /\ NamedHost(z.publicCache.host)
    /\ z.publicCache.ttl \in 0 .. 3600

validateSSLModeRules(z) ==
  /\ \A h \in DOMAIN z.sslRules : NamedHost(h) /\ z.sslRules[h] \in {"full", "strict"}
  /\ DOMAIN z.refs \subseteq DOMAIN z.sslRules
  /\ z.importID => z.sslRules # <<>>

\* validateRegistry, for one zone.
Loads(z) ==
  /\ validateManage(z)
  /\ IF SecurityTxtOnly(z) THEN validateHardening(z)
     ELSE /\ validateID(z)
          /\ z.ssl \in {"full", "strict"}
          /\ z.trusted # Nil => Validate([NoArgs EXCEPT !.trusted = z.trusted])
          /\ validateRateCfg(z)
          /\ z.records # <<>> => Validate([NoArgs EXCEPT !.records = z.records])
          /\ \A h \in z.origins : NamedHost(h)
          /\ validateHardening(z)
          /\ validatePublicCache(z) /\ validateSSLModeRules(z)

-----------------------------------------------------------------------------
(* ZoneArgs, Zone.Contributions and zone.New. *)

SSLModeRef(z, h) == IF h \in DOMAIN z.refs THEN <<z.refs[h]>> ELSE <<"ssl-mode", h>>

\* hostPattern: no underscore.
DomainName(h) == Is(h, {"underscore", "wild"})

\* The managed WAF the zone asks for: the derived hosts when it is enabled.
ManagedWAFLibrary(z) ==
  IF z.waf # Nil /\ z.waf.enabled THEN [z.waf EXCEPT !.hosts = z.wafHosts] ELSE z.waf

Slugs(b) == [i \in DOMAIN b.rules |-> Slug[b.rules[i].name]]

\* Mutant: two rate limits of one ref are left to Assemble.
ContributableTwice(z) ==
  /\ z.publicCache # Nil => DomainName(z.publicCache.host)
  /\ \A h \in DOMAIN z.sslRules : DomainName(h)
  /\ LET w == ManagedWAFLibrary(z) IN w # Nil => validateWAF(w)

\* The builders' refusals.
Contributable(z) ==
  /\ z.publicCache # Nil => DomainName(z.publicCache.host)
  /\ \A h \in DOMAIN z.sslRules : DomainName(h)
  /\ z.rate # Nil => NoDuplicates(Slugs(z.rate)) /\ "" \notin ToSet(Slugs(z.rate))
  /\ LET w == ManagedWAFLibrary(z) IN w # Nil => validateWAF(w)

RateOf(b) == RateLimits([i \in DOMAIN b.rules |-> b.rules[i].name])
WAFOf(w)  == ManagedWAF(IF w.wholeZone THEN Hosts ELSE w.hosts)

If(block, contribution) == IF block = Nil THEN <<>> ELSE <<contribution>>

Contributions(z) ==
  If(z.publicCache, PublicPathsCache(z.publicCache.host))
    \o [i \in DOMAIN SetToSeq(DOMAIN z.sslRules) |->
          LET h == SetToSeq(DOMAIN z.sslRules)[i] IN SSLMode(h, SSLModeRef(z, h))]
    \o If(z.rate, RateOf(z.rate)) \o If(z.trusted, TrustedClients)
    \o If(ManagedWAFLibrary(z), WAFOf(ManagedWAFLibrary(z)))

ZoneArgs(z) ==
  [NoArgs EXCEPT !.ssl = z.ssl, !.minTls = z.minTls, !.ca = z.ca, !.https = z.https,
                 !.hsts = z.hsts, !.bots = z.bots, !.records = z.records,
                 !.cache = IF z.cache = Nil THEN Nil ELSE z.cacheHosts,
                 !.pulls = IF z.origins = {} THEN Nil ELSE TRUE,
                 !.import = IF z.importID THEN {"config"} ELSE {},
                 !.contributions = Contributions(z)]

\* contributions: the component's own blocks, and those it is handed.
AllContributions(a) ==
  If(a.cache, CacheHosts(a.cache)) \o (IF TrustedManaged(a.trusted) THEN <<TrustedClients>> ELSE <<>>)
    \o If(a.waf, WAFOf(a.waf)) \o If(a.rate, RateOf(a.rate)) \o a.contributions

RecordName(r) == <<Resource[r.name], r.type, IF r.type = "CNAME" THEN "" ELSE r.content>>

\* New, in its order: the checks, the settings, the rulesets, the records. What
\* was registered when it is refused stays, and the update writes it.
New(a) ==
  LET assembled == Assemble(AllContributions(a))
      end(why, what) == [why |-> why, has |-> what]
      settings  == {f \in {"https", "hsts", "bots", "ca", "pulls"} : a[f] # Nil}
                     \cup {f \in {"ssl", "minTls"} : a[f] # ""}
  IN  IF ~Validate(a) THEN end("args", {})
      ELSE IF ~assembled.ok \/ ~(a.import \subseteq DOMAIN assembled.phase) THEN end("rulesets", settings)
      ELSE IF ~NoDuplicates([i \in DOMAIN a.records |-> RecordName(a.records[i])])
           THEN end("records", settings \cup DOMAIN assembled.phase)
      ELSE end("none", settings \cup DOMAIN assembled.phase \cup (IF a.records = <<>> THEN {} ELSE {"records"}))

\* Load, zonestack.Deploy and deployZone.
Deploy(z) ==
  LET nothing(why) == [why |-> why, has |-> {}]
  IN  IF ~Loads(z) THEN nothing("load")
      ELSE IF SecurityTxtOnly(z) THEN nothing("skipped")
      ELSE IF z.pending THEN nothing("pending")
      ELSE IF ~Contributable(z) THEN nothing("contributions")
      ELSE New(ZoneArgs(z))

-----------------------------------------------------------------------------
ZInit == Init /\ blocks = Plain /\ deployed = Deploy(blocks)

Changed == {i \in DOMAIN Blocks : blocks[Blocks[i]] # Plain[Blocks[i]]}

\* A block is written. What a zone is does not depend on the order its blocks are
\* written in: they are written in the order of the file.
WriteBlock ==
  /\ contribs = <<>>
  /\ Cardinality(Changed) < MaxBlocks
  /\ \E i \in Max(Changed \cup {0}) + 1 .. Len(Blocks) : \E v \in Values[Blocks[i]] :
       blocks' = [blocks EXCEPT ![Blocks[i]] = v]
  /\ deployed' = Deploy(blocks')
  /\ UNCHANGED vars

\* Rules are also assembled on their own, for programs that build them by hand.
ZNext ==
  \/ WriteBlock
  \/ blocks = Plain /\ Next /\ UNCHANGED zvars

ZSpec == ZInit /\ [][ZNext]_<<vars, zvars>>

-----------------------------------------------------------------------------
(* Properties. *)

ZTypeOK ==
  /\ TypeOK /\ DOMAIN blocks = DOMAIN Plain
  /\ deployed.why \in {"load", "skipped", "pending", "contributions", "args", "rulesets",
                       "records", "none"}

SharedRef(z)  == \E g, h \in DOMAIN z.refs : g # h /\ z.refs[g] = z.refs[h]
SharedName(z) == \E i, j \in DOMAIN z.records : i # j /\ RecordName(z.records[i]) = RecordName(z.records[j])

\* What Load leaves to the apply: the TLS version and certificate authority, an
\* enabled managed WAF that derives no host or too many, a name with an
\* underscore in public_cache or ssl_mode_rules, rate limits whose names make no
\* rule ref or the same one, and two rules or records of one name.
LeftToApply(z) ==
  \/ z.minTls \notin {"", "1.0", "1.1", "1.2", "1.3"}
  \/ z.ca \notin {Nil, "", "google", "lets_encrypt", "ssl_com"}
  \/ z.waf # Nil /\ z.waf.enabled /\ Cardinality(z.wafHosts) \notin 1 .. FitHosts
  \/ z.publicCache # Nil /\ "underscore" \in Shape[z.publicCache.host]
  \/ \E h \in DOMAIN z.sslRules : "underscore" \in Shape[h]
  \/ z.rate # Nil /\ (~NoDuplicates(Slugs(z.rate)) \/ "" \in ToSet(Slugs(z.rate)))
  \/ SharedRef(z) \/ SharedName(z)

\* docs/cloudflare/config.md: the blocks "are held to the zone component's own
\* checks, so a bad row fails at load and not at apply". But for what LeftToApply
\* lists, and for all of that, a zone Load accepts is one zone.New deploys.
LoadCatchesTheRest ==
  deployed.why \notin {"load", "skipped", "pending"} =>
    (deployed.why # "none" <=> LeftToApply(blocks))

\* A zone that is refused after Load is refused before any of its resources is
\* registered: HSTS or Authenticated Origin Pulls are not switched on for a zone
\* whose rules stay behind. The two exceptions are found in New itself.
RefusedBeforeWriting ==
  deployed.why # "none" /\ deployed.has # {} => SharedRef(blocks) \/ SharedName(blocks)

=============================================================================
