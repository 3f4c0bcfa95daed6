------------------------------ MODULE MCCatalog ------------------------------
(* A tunnel exposure on two clusters, beside a private one on the first.   *)
EXTENDS Catalog, TLC

MCArrival == ("edge" :> "cloudflare-tunnel") @@ ("private" :> "private-clusterip")
               @@ ("lb" :> "nlb")

On(edge, private, lb) == ("edge" :> edge) @@ ("private" :> private) @@ ("lb" :> lb)

Renamed == <<"c1", "p1">> :> [group |-> "g", names |-> << >>]
Doubled == <<"c1", "p1">> :> [group |-> "p2", names |-> << >>]
Named   == <<"c1", "p2">> :> [group |-> "", names |-> ("b.x" :> "a-x")]
Empty   == <<"c1", "p1">> :> NoOverride
Nowhere == <<"c3", "p1">> :> [group |-> "g", names |-> << >>]

MCShapes ==
  {[runs |-> On({"c1"}, {}, {}), gen |-> << >>],
   [runs |-> On({"c1"}, {"c1"}, {}), gen |-> << >>],
   [runs |-> On({}, {}, {"c1"}), gen |-> << >>],
   [runs |-> On({"c1", "c2"}, {}, {}), gen |-> ("edge" :> << >>)],
   [runs |-> On({"c1"}, {"c1"}, {}), gen |-> ("edge" :> << >>) @@ ("private" :> << >>)],
   [runs |-> On({"c1"}, {"c1"}, {}), gen |-> ("edge" :> Renamed)],
   [runs |-> On({"c1"}, {}, {}), gen |-> ("edge" :> Named)],
   [runs |-> On({"c1"}, {}, {}), gen |-> ("edge" :> Doubled)],
   [runs |-> On({"c1"}, {}, {}), gen |-> ("edge" :> Empty)],
   [runs |-> On({"c1"}, {}, {}), gen |-> ("edge" :> Nowhere)]}

MCHosts == {"a.x", "b.x", "*.x"}

MCSlug == ("a.x" :> "a-x") @@ ("b.x" :> "b-x") @@ ("*.x" :> "wildcard-x")

Domain(h) == [host |-> h, name |-> ""]

Row(hosts, namespaces, only) ==
  [domains |-> {Domain(h) : h \in hosts}, namespaces |-> namespaces,
   listenerSet |-> TRUE, only |-> only]

Clash == {Domain("a.x"), [host |-> "b.x", name |-> "a-x"]}

MCGroupRows ==
  {Row({"a.x"}, {"p1"}, "any"), Row({"*.x"}, {"p1"}, "other"), Row({"*.x"}, {"p1", "p2"}, "any"),
   Row({"a.x", "*.x"}, {"p1"}, "tunnel"), Row({"b.x"}, {"ops"}, "any"),
   Row({"a.x", "b.x"}, {"p1", "p2"}, "any"), Row({"b.x"}, {"p1", "ops"}, "any"),
   [Row({}, {"p1"}, "any") EXCEPT !.domains = Clash],
   [Row({}, {"p1"}, "any") EXCEPT !.domains = Clash, !.listenerSet = FALSE],
   [Row({"b.x"}, {"p2"}, "any") EXCEPT !.listenerSet = FALSE]}

Endpoint(p, c, h, off) == [project |-> p, cluster |-> c, host |-> h, wafOff |-> off]

MCEndpointRows ==
  {Endpoint("p1", "c1", "a.x", FALSE), Endpoint("p1", "c1", "b.x", FALSE),
   Endpoint("p2", "c1", "b.x", TRUE), Endpoint("p2", "c2", "a.x", FALSE),
   Endpoint("p1", "c1", "*.x", FALSE)}

MCPlatformConsumers == "g" :> "ops"
=============================================================================
