--------------------------- MODULE MCZoneBlocks -----------------------------
EXTENDS ZoneBlocks

MCHosts     == {"a", "b"}
MCRateNames == {"API limit", "api-limit", "login"}
MCSlugged   == MCRateNames \cup {"--"}
MCSlug      == [n \in MCSlugged |->
                  CASE n = "login" -> "login" [] n = "--" -> "" [] OTHER -> "api-limit"]

\* "assembler" sorts before the estate's source, which sorts between the others.
MCSources == <<<<"">>, <<"assembler">>, <<"cache-hosts">>, <<"estate">>, <<"managed-waf">>,
               <<"public-paths", "a">>, <<"public-paths", "b">>, <<"rate-limits">>,
               <<"ssl-mode", <<"pinned">>>>, <<"ssl-mode", <<"ssl-mode", "a">>>>,
               <<"ssl-mode", <<"ssl-mode", "b">>>>, <<"static-site", "a">>,
               <<"static-site", "b">>, <<"trusted-clients">>>>

Custom(order, claim, ref, match) ==
  Contribution(<<"estate">>, "cache", order, claim, <<Rule(ref, match)>>)

\* A caching rule with its claim, one in the bypass's place, one that takes the
\* bypass's ref, one with a claim in another phase, one with no parentheses, one
\* of two alternatives that starts and ends with a parenthesis.
MCEstate ==
  {Custom(OrderPathCaches,
          [form |-> "or", of |-> <<Kind("a", {"page"}), Kind("b", {"page"})>>],
          <<"either">>, Kind("a", {"page"}) \cup Kind("b", {"page"})),
   Custom(OrderPathCaches, Paren(Kind("b", {"page"})), <<"pages">>, Kind("b", {"page"})),
   Custom(OrderBypass, Paren(Kind("b", {"doc"})), <<"docs">>, Kind("b", {"doc"})),
   Custom(OrderPathCaches, NoClaim, BypassRef, Requests),
   Contribution(<<"estate">>, "config", OrderHostsCache, Paren(At({"a"})), <<>>),
   Custom(OrderPathCaches, [form |-> "bare", of |-> <<At({"a"})>>], <<"bare">>, At({"a"})),
   Contribution(<<"">>, "ratelimit", OrderHostsCache, NoClaim, <<>>),
   Contribution(<<"estate">>, "dns", OrderHostsCache, NoClaim, <<>>)}

MCNoEstate == {}

-----------------------------------------------------------------------------
(* Names inside the zone, its apex, a wildcard, one with an underscore, one  *)
(* in upper case and one of another zone.                                    *)
MCShape ==
  [a |-> {"inside"}, b |-> {"inside"}, zone |-> {"apex"}, star |-> {"inside", "wild"},
   under |-> {"inside", "underscore"}, Upper |-> {"inside", "upper"}, other |-> {}]

\* "x.y" and "x-y" make one resource name; here a and under do.
MCResource == [n \in DOMAIN MCShape |-> IF n = "under" THEN "a" ELSE n]

Limit(name, endpoints, expression, characteristics, period, action, timeout) ==
  [name |-> name, endpoints |-> endpoints, expression |-> expression, counting |-> FALSE,
   characteristics |-> characteristics, period |-> period, requests |-> 1,
   action |-> action, timeout |-> timeout]

Endpoint(h, paths, methods) == [host |-> h, paths |-> paths, methods |-> methods]
Path   == {<<"path", "/in">>}

On(name, h) == Limit(name, <<Endpoint(h, Path, FALSE)>>, "none", <<"colo", "ip">>, 10, "block", 10)

Rate(plan, rules) == [plan |-> plan, rules |-> rules]

MCRates ==
  {Rate("pro", <<On("login", "a")>>), Rate("free", <<>>), Rate("gold", <<>>),
   Rate("free", <<On("login", "a"), On("API limit", "b")>>),
   Rate("pro", <<On("login", "a"), On("API limit", "b")>>),
   Rate("pro", <<On("api-limit", "a"), On("API limit", "b")>>),
   Rate("pro", <<On("login", "a"), On("login", "b")>>), Rate("free", <<On("--", "a")>>)}
    \cup {Rate("free", <<On("login", h)>>) : h \in DOMAIN MCShape}
    \cup {Rate(p, <<Limit("login", <<>>, e, <<"visitor">>, 10, "challenge", t)>>) :
            p \in {"pro", "business"}, e \in {"none", "plain", "method"}, t \in {0, 10}}
    \cup {Rate("business", <<[On("login", "a") EXCEPT !.endpoints = <<Endpoint("a", Path, TRUE), e>>,
                                                     !.characteristics = cs, !.period = 600]>>) :
            e \in {Endpoint("a", Path, TRUE), Endpoint("a", {}, FALSE), Endpoint("zone", Path, FALSE)},
            cs \in {<<"ip", "visitor">>, <<"ip", "ip">>, <<"visitor">>}}

Range4(bits, hostBits) == [bits |-> bits, v4 |-> TRUE, hostBits |-> hostBits]
Range6(bits) == [bits |-> bits, v4 |-> FALSE, hostBits |-> FALSE]

Trusted(hosts, ranges, skip) == [hosts |-> hosts, ranges |-> ranges, skip |-> skip]

MCTrusted ==
  {Trusted(<<h>>, <<Range4(24, FALSE)>>, <<>>) : h \in DOMAIN MCShape}
    \cup {Trusted(<<"a">>, <<r>>, <<"bic", "current">>) :
            r \in {Range4(7, FALSE), Range4(8, TRUE), Range6(15), Range6(16)}}
    \cup {Trusted(<<>>, <<>>, <<>>), Trusted(<<"a">>, <<>>, <<>>),
          Trusted(<<"a", "a">>, <<Range4(24, FALSE)>>, <<>>),
          Trusted(<<"a">>, <<Range4(24, FALSE)>>, <<"bic", "bic">>),
          Trusted(<<"a">>, <<Range4(24, FALSE)>>, <<"all">>)}

DNS(name, type, content, proxied, ttl) ==
  [name |-> name, type |-> type, content |-> content, proxied |-> proxied, ttl |-> ttl]

V4(n) == <<"v4", n>>
Target == <<"host", 1>>

MCRecords ==
  {<<DNS(h, "CNAME", Target, TRUE, 0)>> : h \in DOMAIN MCShape}
    \cup {<<DNS("a", t, V4(1), FALSE, ttl)>> : t \in {"A", "AAAA"}, ttl \in {59, 60, 86401}}
    \cup {<<DNS("a", "A", V4(1), TRUE, 60)>>,
          <<DNS("a", "A", V4(1), FALSE, 0), DNS("a", "A", V4(2), FALSE, 0)>>,
          <<DNS("a", "A", V4(1), FALSE, 0), DNS("a", "A", V4(1), FALSE, 60)>>,
          <<DNS("a", "A", V4(1), FALSE, 0), DNS("a", "CNAME", Target, FALSE, 0)>>,
          <<DNS("a", "CNAME", Target, TRUE, 0), DNS("under", "CNAME", Target, TRUE, 0)>>}

HSTS(enabled, maxAge, preload) ==
  [enabled |-> enabled, maxAge |-> maxAge, subdomains |-> TRUE, preload |-> preload]

WAF(enabled, hosts, wholeZone) == [enabled |-> enabled, hosts |-> hosts, wholeZone |-> wholeZone]

Doc(contact, dated) == [contact |-> contact, dated |-> dated]

MCValues ==
  [manage |-> {"full", "security_txt", "none"}, zoneID |-> {""}, pending |-> {TRUE}, legacy |-> {TRUE},
   ssl |-> {"", "strict", "flexible"}, minTls |-> {"1.2", "1.4"}, ca |-> {"", "google", "unknown"},
   cache |-> {TRUE}, cacheHosts |-> {{"a"}}, origins |-> {{"a"}, {"zone"}, {"star"}},
   publicCache |-> {[host |-> h, ttl |-> t] : h \in {"a", "zone", "star", "under", "Upper"}, t \in {0, 3601}},
   sslRules |-> {[x \in S |-> m] : S \in {{"a"}, {"a", "b"}, {"under"}, {"zone"}}, m \in {"strict", "off"}},
   refs |-> {[x \in S |-> "pinned"] : S \in {{"a"}, {"a", "b"}}}, importID |-> {TRUE},
   rate |-> MCRates, trusted |-> MCTrusted, records |-> MCRecords, https |-> BOOLEAN,
   hsts |-> {HSTS(e, m, p) : e, p \in BOOLEAN, m \in {0, 31536000, 31536001}},
   waf |-> {WAF(e, hs, w) : e, w \in BOOLEAN, hs \in {{}, {"a"}, {"a", "b", "under"}, {"star"}, {"other"}}},
   wafHosts |-> {{"a"}, {"a", "b"}, {"a", "b", "under"}},
   bots |-> {[aiBots |-> b, robots |-> r] : b \in {"", "block", "allow"}, r \in {Nil, TRUE}},
   doc |-> {Doc({"mailto"}, TRUE), Doc({}, TRUE), Doc({"tel"}, TRUE), Doc({"https"}, FALSE)}]

MCBlocks ==
  <<"manage", "legacy", "zoneID", "pending", "ssl", "minTls", "ca", "cache", "cacheHosts", "trusted",
    "rate", "records", "origins", "publicCache", "sslRules", "refs", "importID", "https", "hsts",
    "bots", "waf", "wafHosts", "doc">>
=============================================================================
