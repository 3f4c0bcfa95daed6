--------------------------- MODULE RulesAssembly ---------------------------
(***************************************************************************)
(* One ruleset per phase of a zone (cloudflare/rules): each feature states *)
(* a contribution, Assemble merges them in (Order, Source) order and, in   *)
(* the cache phase, adds the rule that bypasses the cache for everything   *)
(* no contribution claimed.  Features are added one at a time here and the *)
(* zone is assembled after each, as each deployment of an estate does.     *)
(*                                                                         *)
(* A filter expression is the set of requests it matches; what its TEXT is *)
(* matters in one place only, a claim after "not", so a claim is           *)
(*   [form |-> "paren", of |-> <<S>>]      "(" S ")"                       *)
(*   [form |-> "bare",  of |-> <<S>>]      S, with no parentheses          *)
(*   [form |-> "or",    of |-> <<S, T>>]   "(" S ") or (" T ")"            *)
(***************************************************************************)
EXTENDS Naturals, Sequences, FiniteSets, SequencesExt, TLC

CONSTANTS
    Hosts,        \* host names of the zone
    RateNames,    \* names of rate limit rules
    Slug,         \* Slug[n]: the ref slug of a rate limit's name
    Estate,       \* contributions a program adds by hand (Args.Contributions)
    Sources,      \* every source, in string order
    MaxContribs   \* bound: features of one zone

VARIABLES
    contribs,   \* the contributions, in the order they are passed
    result      \* what Assemble returns

vars == <<contribs, result>>

\* A document path by GET without an Origin header, the same with one, a file
\* under the content-hashed prefix, any other page.
Requests == [host : Hosts, kind : {"doc", "docOrigin", "hashed", "page"}]

Phases == {"cache", "config", "firewall", "managed", "ratelimit"}

OrderHostsCache == 100
OrderBypass     == 500
OrderPathCaches == 900

BypassRef == <<"cache-bypass">>

NoClaim == [form |-> "none", of |-> <<>>]
Paren(S) == [form |-> "paren", of |-> <<S>>]

\* Sources and refs are the tuples of the parts of their strings: "ssl-mode-" and
\* a host is <<"ssl-mode", host>>.
Rule(ref, match) == [ref |-> ref, match |-> match]

Contribution(source, phase, order, claim, rules) ==
  [source |-> source, phase |-> phase, order |-> order, claim |-> claim, rules |-> rules]

At(hosts)      == {r \in Requests : r.host \in hosts}
Kind(h, kinds) == {r \in Requests : r.host = h /\ r.kind \in kinds}

-----------------------------------------------------------------------------
(* The builders. *)

CacheHosts(hosts) ==
  IF hosts = {}
  THEN Contribution(<<"cache-hosts">>, "cache", OrderHostsCache, NoClaim, <<>>)
  ELSE Contribution(<<"cache-hosts">>, "cache", OrderHostsCache, Paren(At(hosts)),
                    <<Rule(<<"cacheable-hosts">>, At(hosts))>>)

PublicPathsCache(h) ==
  Contribution(<<"public-paths", h>>, "cache", OrderPathCaches, Paren(Kind(h, {"doc"})),
               <<Rule(<<"public-paths", h>>, Kind(h, {"doc"}))>>)

\* Mutant: the site's rule still matches the hashed files.
StaticSiteBlend(h, prefixed) ==
  Contribution(<<"static-site", h>>, "cache", OrderPathCaches, Paren(At({h})),
    IF prefixed
    THEN <<Rule(<<"static-hashed", h>>, Kind(h, {"hashed"})),
           Rule(<<"static-site", h>>, At({h}))>>
    ELSE <<Rule(<<"static-site", h>>, At({h}))>>)

StaticSiteCache(h, prefixed) ==
  Contribution(<<"static-site", h>>, "cache", OrderPathCaches, Paren(At({h})),
    IF prefixed
    THEN <<Rule(<<"static-hashed", h>>, Kind(h, {"hashed"})),
           Rule(<<"static-site", h>>, At({h}) \ Kind(h, {"hashed"}))>>
    ELSE <<Rule(<<"static-site", h>>, At({h}))>>)

RateLimits(rows) ==
  Contribution(<<"rate-limits">>, "ratelimit", OrderHostsCache, NoClaim,
    [i \in DOMAIN rows |-> Rule(<<"ratelimit", Slug[rows[i]]>>, Requests)])

TrustedClients == Contribution(<<"trusted-clients">>, "firewall", OrderHostsCache, NoClaim,
                               <<Rule(<<"trusted-clients">>, Requests)>>)

ManagedWAF(hosts) ==
  Contribution(<<"managed-waf">>, "managed", OrderHostsCache, NoClaim,
    IF hosts = {} THEN <<>> ELSE <<Rule(<<"managed-waf">>, At(hosts))>>)

SSLMode(h, ref) == Contribution(<<"ssl-mode", ref>>, "config", OrderHostsCache, NoClaim,
                                <<Rule(ref, At({h}))>>)

-----------------------------------------------------------------------------
(* Assemble. *)

SourceRank(s) == CHOOSE i \in DOMAIN Sources : Sources[i] = s

SortsBefore(a, b) ==
  \/ a.order < b.order
  \/ a.order = b.order /\ SourceRank(a.source) < SourceRank(b.source)

Sorted(cs) == SortSeq(cs, SortsBefore)

\* "(<prev>) and not <claim>": not binds tighter than or.
AndNot(prev, claim) ==
  IF claim.form = "or" THEN (prev \ claim.of[1]) \cup claim.of[2]
  ELSE prev \ claim.of[1]

\* What the folded bypass expression matches.
BypassExpression(claims) == FoldLeft(AndNot, Requests, claims)

Refs(c) == {c.rules[i].ref : i \in DOMAIN c.rules}

\* strings.HasPrefix(claim, "(") && strings.HasSuffix(claim, ")").
Parenthesised(claim) == claim.form # "bare"

WrongClaim(c) ==
  c.claim # NoClaim /\ (c.phase # "cache" \/ ~Parenthesised(c.claim))

WrongRule(c) == c.phase \notin Phases \/ c.source = <<"">> \/ <<"">> \in Refs(c)

\* A ref written twice within a phase, or the bypass's own.
RefTaken(cs) ==
  \/ \E i, j \in DOMAIN cs : \E k \in DOMAIN cs[i].rules, l \in DOMAIN cs[j].rules :
       /\ <<i, k>> # <<j, l>> /\ cs[i].phase = cs[j].phase
       /\ cs[i].rules[k].ref = cs[j].rules[l].ref
  \/ \E i \in DOMAIN cs : cs[i].phase = "cache" /\ BypassRef \in Refs(cs[i])

RulesOf(cs) == FlattenSeq([i \in DOMAIN cs |-> cs[i].rules])

\* A phase's contributions in order; the cache phase gets the bypass.
InPhase(cs, phase) ==
  LET mine   == SelectSeq(Sorted(cs), LAMBDA c : c.phase = phase)
      claims == SelectSeq([i \in DOMAIN mine |-> mine[i].claim], LAMBDA x : x # NoClaim)
      bypass == Contribution(<<"assembler">>, "cache", OrderBypass, NoClaim,
                             <<Rule(BypassRef, BypassExpression(claims))>>)
  IN  IF phase = "cache" THEN Sorted(Append(mine, bypass)) ELSE mine

Managed(cs) == {cs[i].phase : i \in DOMAIN cs}

Assemble(cs) ==
  IF RefTaken(cs) \/ \E i \in DOMAIN cs : WrongClaim(cs[i]) \/ WrongRule(cs[i])
  THEN [ok |-> FALSE, phase |-> <<>>]
  ELSE [ok |-> TRUE, phase |-> [p \in Managed(cs) |-> RulesOf(InPhase(cs, p))]]

Init == contribs = <<>> /\ result = Assemble(contribs)

(* A feature is added; a refused zone is not deployed and the feature must *)
(* be taken out again before anything else is added.                       *)
Contribute(c) ==
  /\ result.ok /\ Len(contribs) < MaxContribs
  /\ contribs' = Append(contribs, c)
  /\ result' = Assemble(contribs')

TakeOut ==
  /\ contribs # <<>>
  /\ contribs' = Front(contribs)
  /\ result' = Assemble(contribs')

AddRateLimits(rows) ==
  /\ \A i, j \in DOMAIN rows : i # j => Slug[rows[i]] # Slug[rows[j]]
  /\ Contribute(RateLimits(rows))

Next ==
  \/ \E S \in SUBSET Hosts : Contribute(CacheHosts(S)) \/ Contribute(ManagedWAF(S))
  \/ \E h \in Hosts : \/ Contribute(PublicPathsCache(h))
                      \/ \E p \in BOOLEAN : Contribute(StaticSiteCache(h, p))
                      \/ \E ref \in {<<"ssl-mode", h>>, <<"pinned">>} : Contribute(SSLMode(h, ref))
  \/ Contribute(TrustedClients)
  \/ \E rows \in BoundedSeq(RateNames, 2) : AddRateLimits(rows)
  \/ \E c \in Estate : Contribute(c)
  \/ TakeOut

Spec == Init /\ [][Next]_vars

-----------------------------------------------------------------------------
(* Properties. *)

TypeOK ==
  /\ Len(contribs) <= MaxContribs
  /\ result.ok \in BOOLEAN
  /\ DOMAIN result.phase \subseteq Phases
  /\ \A p \in DOMAIN result.phase : \A i \in DOMAIN result.phase[p] :
       result.phase[p][i].match \subseteq Requests

Cache == result.phase["cache"]
HasCache == result.ok /\ "cache" \in DOMAIN result.phase

Serves(c) == UNION {c.rules[i].match : i \in DOMAIN c.rules}

Disjoint ==
  \A i, j \in DOMAIN contribs :
    contribs[i].phase = "cache" /\ contribs[j].phase = "cache" =>
      /\ i # j => Serves(contribs[i]) \cap Serves(contribs[j]) = {}
      /\ contribs[i].claim =
           IF contribs[i].rules = <<>> THEN NoClaim ELSE Paren(Serves(contribs[i]))

MatchedOnce(r) == Cardinality({i \in DOMAIN Cache : r \in Cache[i].match}) = 1

\* The cache phase is a partition, so no request gets a blend of two rules, when
\* the contributions claim what they serve and serve disjoint requests.
Partition == HasCache /\ Disjoint => \A r \in Requests : MatchedOnce(r)

\* doc.go: "The cache phase is therefore kept a PARTITION: every request matches
\* exactly one rule."
AlwaysPartition == HasCache => \A r \in Requests : MatchedOnce(r)
=============================================================================
