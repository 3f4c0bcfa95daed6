------------------------------ MODULE Presets ------------------------------
(***************************************************************************)
(* cloudflare/presets: the table of token presets an estate hands to its   *)
(* token service and to the prototypes stack, built from the registry and  *)
(* one row per preset.                                                     *)
(*                                                                         *)
(* A registry has owner, [zone -> account]; held, the zones managed for    *)
(* their security.txt only; and pending, those whose id nobody has looked  *)
(* up. A row is a record of the preset's account, kind, the zones it is    *)
(* limited to ({}: all of the account's), the four lists of zones of the   *)
(* zone kind, a bucket, and its lifetime, rotation and store. A grant is a *)
(* permission group with what it applies to.                               *)
(***************************************************************************)
EXTENDS Naturals

DNSKinds    == {"services", "status", "dns"}
ZonedKinds  == DNSKinds \cup {"zone", "insights", "insights-admin"}
BucketKinds == {"bucket-rw", "bucket-write"}
Kinds       == ZonedKinds \cup BucketKinds \cup {"r2-admin"}
NoBucket    == "no bucket"

zonesOf(reg, account) == {z \in DOMAIN reg.owner : reg.owner[z] = account}

PendingZone(reg, account) == zonesOf(reg, account) \cap reg.pending # {}

-----------------------------------------------------------------------------
(* What a row may ask for. *)

\* The zones a row covers, before the security.txt-only ones are set apart.
Covered(reg, row) == IF row.zones = {} THEN zonesOf(reg, row.account) ELSE row.zones

validateZones(reg, row) ==
  /\ row.kind \notin ZonedKinds => row.zones = {}
  /\ row.kind \in ZonedKinds =>
       row.zones \subseteq zonesOf(reg, row.account) /\ Covered(reg, row) # {}
  /\ row.kind \in DNSKinds =>
       /\ row.zones \cap reg.held = {}
       /\ row.zones = {} => zonesOf(reg, row.account) \ reg.held # {}

\* WAFZones, BotManagementZones, CloudConnectorZones and DNSOnlyZones.
validateLists(reg, row) ==
  LET listed == row.waf \cup row.bots \cup row.connector \cup row.dnsOnly
  IN  /\ row.kind # "zone" => listed = {}
      /\ listed \subseteq zonesOf(reg, row.account) \ reg.held
      /\ row.waf \cup row.bots \subseteq Covered(reg, row)
      /\ row.dnsOnly \cap Covered(reg, row) = {}

validateRow(reg, row) ==
  /\ row.kind \in Kinds
  /\ row.account \in reg.accounts
  /\ validateZones(reg, row) /\ validateLists(reg, row)
  /\ row.kind \in BucketKinds <=> row.bucket # NoBucket
  /\ CASE row.store = "none"     -> row.rotation = 0
       [] row.store = "external" -> row.rotation > 0 /\ row.rotation < row.lifetime
       [] OTHER -> FALSE

PresetName(row) == <<row.account, row.kind, row.bucket>>

Validate(reg, rows) ==
  /\ \A z \in DOMAIN reg.owner : reg.owner[z] \in reg.accounts
  /\ \A row \in rows : validateRow(reg, row)
  /\ \A row, other \in rows : row # other => PresetName(row) # PresetName(other)

-----------------------------------------------------------------------------
(* What a row grants. *)

OnZones(groups, zones)  == groups \X {<<"zone", z>> : z \in zones}
OnAccount(groups, a)    == groups \X {<<"account", a>>}
OnBucket(groups, a, b)  == groups \X {<<"bucket", <<a, b>>>>}

\* account.ZonePolicies: one policy per zone.
ZonePolicies(zones) ==
  OnZones({"DNS Write", "SSL and Certificates Write", "Zone Settings Write",
           "Cache Settings Write", "Config Settings Write"}, zones)

\* account.StatusPolicies.
StatusPolicies(a, zones) ==
  OnAccount({"Cloudflare Tunnel Write"}, a) \cup OnZones({"DNS Write"}, zones)

\* Mutant: the DNS kinds cover every zone, those set apart included.
GrantsAll(reg, row) ==
  LET zones == Covered(reg, row)
  IN  IF row.kind \in {"status", "services"} THEN StatusPolicies(row.account, zones)
      ELSE ZonePolicies(zones \ reg.held)

\* Mutant: the zone kind leaves a zone's DNS to the services kind.
GrantsNoRecords(reg, row) ==
  LET zones == Covered(reg, row) \ reg.held
  IN  IF row.kind \in {"status", "services"} THEN StatusPolicies(row.account, zones)
      ELSE OnZones({"SSL and Certificates Write", "Zone Settings Write",
                    "Cache Settings Write", "Config Settings Write"}, zones)
             \cup OnZones({"Zone WAF Write"}, row.waf)

\* The policies of build, per kind. `managed' excludes the security.txt-only
\* zones, which the zone kind may set their document on and no more.
Grants(reg, row) ==
  LET zones   == Covered(reg, row)
      managed == zones \ reg.held
      a       == row.account
  IN  CASE row.kind = "zone" ->
             ZonePolicies(managed)
               \cup OnZones({"Zone WAF Write"}, row.waf)
               \cup OnZones({"Bot Management Write"}, row.bots)
               \cup OnZones({"Cloud Connector Write"}, row.connector)
               \cup OnZones({"DNS Write"}, row.dnsOnly)
               \cup OnZones({"Zone Settings Write"}, zones \cap reg.held)
        [] row.kind \in {"status", "services"} -> StatusPolicies(a, managed)
        [] row.kind = "dns" -> OnZones({"DNS Write"}, managed)
        [] row.kind = "insights" ->
             OnAccount({"Account Security Center Insights Read"}, a)
               \cup OnZones({"Zone Security Center Insights Read", "Bot Management Read",
                             "Analytics Read", "Zone WAF Read"}, zones)
        [] row.kind = "insights-admin" ->
             OnAccount({"Account Security Center Insights Write",
                        "Account Security Center Insights Read"}, a)
               \cup OnZones({"Zone Security Center Insights Write",
                             "Zone Security Center Insights Read"}, zones)
        [] row.kind = "r2-admin" -> OnAccount({"Workers R2 Storage Write"}, a)
        [] row.kind = "bucket-rw" ->
             OnBucket({"Workers R2 Storage Bucket Item Read",
                       "Workers R2 Storage Bucket Item Write"}, a, row.bucket)
        [] row.kind = "bucket-write" ->
             OnBucket({"Workers R2 Storage Bucket Item Write"}, a, row.bucket)

\* Mutant: a zone without an id does not hold back its account's presets.
ForAccountAnyway(reg, rows, account) ==
  LET mine == {row \in rows : row.account = account}
  IN  IF account \notin reg.accounts \/ ~Validate(reg, mine) THEN {}
      ELSE {[name |-> PresetName(row), grants |-> Grants(reg, row)] : row \in mine}

\* ForAccount and Build: the presets of one account, {} when it is refused: it
\* has a zone without an id, or one of its rows is wrong.
ForAccount(reg, rows, account) ==
  LET mine == {row \in rows : row.account = account}
  IN  IF account \notin reg.accounts \/ PendingZone(reg, account) \/ ~Validate(reg, mine)
      THEN {}
      ELSE {[name |-> PresetName(row), grants |-> Grants(reg, row)] : row \in mine}

Row(account, kind) ==
  [account |-> account, kind |-> kind, zones |-> {}, waf |-> {}, bots |-> {},
   connector |-> {}, dnsOnly |-> {}, bucket |-> NoBucket,
   lifetime |-> 60, rotation |-> 0, store |-> "none"]

StandardRows(account, wafZones, botZones) ==
  {Row(account, "status"), Row(account, "r2-admin"), Row(account, "services"),
   [Row(account, "zone") EXCEPT !.waf = wafZones, !.bots = botZones]}
=============================================================================
