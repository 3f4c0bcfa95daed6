--------------------------- MODULE MCEdgeStacks ----------------------------
(* example.com is <<1>>, env.example.com <<1, 2>>, other.net <<3>>. *)
EXTENDS EdgeStacks, TLC

exact(n) == [wild |-> FALSE, name |-> n]
star(n)  == [wild |-> TRUE, name |-> n]

MCHosts == {star(<<1>>), exact(<<1, 4>>), star(<<1, 2>>), exact(<<1, 2, 4>>),
            star(<<1, 2, 4>>), exact(<<3, 4>>)}

\* As MCHosts, with a host outside every zone.
MCHostsOut == MCHosts \cup {exact(<<5, 4>>)}

MCNames == {<<1, 4>>, <<1, 5>>, <<1, 2, 4>>, <<1, 2, 5>>, <<1, 2, 4, 5>>,
            <<1, 2, 4, 5, 5>>, <<3, 4>>, <<5, 4>>}

MCGroups   == <<"console", "shop">>
MCBusiness == {"shop"}
MCListed   == [g \in {"console", "shop"} |-> IF g = "shop" THEN {"A", "B"} ELSE {"A"}]

\* The clusters are interchangeable: "console" runs in the first.
MCClusters == {c \in [{"console", "shop"} -> {"c1", "c2"}] : c["console"] = "c1"}

Owners == {(<<1>> :> "A") @@ (<<1, 2>> :> a) @@ (<<3>> :> "B") : a \in {"A", "B"}}

Plain(owner) ==
  [owner |-> owner, accounts |-> {"A", "B"}, held |-> {}, pending |-> {}, waf |-> {}, cache |-> {<<1>>}, legacy |-> {"A"},
   records |-> {}, moved |-> {}, elsewhere |-> {}, wafOff |-> {},
   bots |-> {}, limits |-> {}, unfit |-> {}, sharedRef |-> {}]

\* One zone only: the child is not declared.
OneZone == Plain((<<1>> :> "A") @@ (<<3>> :> "A"))

Record(z, h, c) == [zone |-> z, host |-> h, covered |-> c]

Routed ==
  LET base == {Plain(o) : o \in Owners} \cup {OneZone}
  IN  base
        \cup {[p EXCEPT !.waf = {<<1>>}, !.wafOff = {star(<<1>>)},
                        !.records = {Record(<<1>>, exact(<<1, 4>>), TRUE)},
                        !.elsewhere = {exact(<<1, 4>>)}] : p \in base}
        \cup {[p EXCEPT !.waf = DOMAIN p.owner, !.wafOff = {star(<<1, 2>>)},
                        !.records = {Record(<<1>>, exact(<<1, 2, 4>>), FALSE)},
                        !.elsewhere = {star(<<1, 2>>)}] : p \in base}
        \cup {[Plain(o) EXCEPT !.moved = {[zone |-> <<1, 2>>, host |-> exact(<<1, 2, 4>>)]},
                               !.held = {<<3>>}] : o \in Owners}
        \cup {[Plain(o) EXCEPT !.records = {Record(<<1>>, exact(<<1, 4>>), TRUE)}] : o \in Owners}
        \cup {[OneZone EXCEPT !.legacy = {"A", "B"}]}

\* The estate the stacks deploy: shop.example.com behind the managed WAF, company
\* x's; shop.other.net, company y's, which also has a zone managed for its
\* security.txt only.
Estate ==
  [Plain((<<1>> :> "A") @@ (<<3>> :> "B") @@ (<<6>> :> "B")) EXCEPT
     !.waf = {<<1>>}, !.held = {<<6>>}, !.wafOff = {star(<<1, 2>>)}]

\* Label 2 reads "env" and label 4 "star-env": "*.env.example.com" and
\* "star-env.example.com" have one slug. Of everything else the names differ.
MCNameOf(res) ==
  IF res.kind = "cname" /\ res.host = star(<<1, 2>>)
  THEN <<"cname", res.key, res.zone, exact(<<1, 4>>)>>
  ELSE <<res.kind, res.key, res.zone, res.host>>

Moved   == [Estate EXCEPT !.moved = {[zone |-> <<1>>, host |-> exact(<<1, 4>>)]}]
Records == [Estate EXCEPT !.records = {Record(<<1>>, exact(<<1, 4>>), TRUE)},
                          !.elsewhere = {exact(<<1, 4>>)}]
Parked  == [Estate EXCEPT !.records = {Record(<<1>>, exact(<<1, 4>>), FALSE)}]

MCRegistries == Routed \cup {Estate, Moved, Records}
MCDeployed   == {Moved, Records, Parked,
                 [Estate EXCEPT !.held = {}, !.bots = {<<6>>}, !.limits = {<<3>>}],
                 [Estate EXCEPT !.pending = {<<3>>}, !.sharedRef = {<<1>>}, !.bots = {<<1>>}]}

MCDeployedHosts == {exact(<<1, 4>>), exact(<<3, 4>>)}

MCStarts == {(("console" :> {}) @@ ("shop" :> hs)) :
               hs \in {{exact(<<1, 4>>)}, {star(<<1, 2>>), exact(<<3, 4>>)}}}
              \X {("console" :> "c1") @@ ("shop" :> "c2")}

MCCompanies == ("A" :> "x") @@ ("B" :> "y")
MCFounded   == {{"y"}, {"x", "y"}}
=============================================================================
