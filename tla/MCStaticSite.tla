---------------------------- MODULE MCStaticSite ----------------------------
(* Three copies on the volume, one of them a leftover after a restart, and *)
(* one request in flight.  No symmetry: TermExits is a liveness property.  *)
EXTENDS StaticSite
=============================================================================
