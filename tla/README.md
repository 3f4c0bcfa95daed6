# TLA+ models of the edge toolkit

This directory models the parts of the repository that decide something: the
static-site server, the credential path of the Pulumi stacks, the derivation of
tunnels from the edge catalog and the stacks that deploy them, the blocks of a zone
and the assembly of its rules, the API Gateway front door, the minting of the
stacks' tokens, and the commands that write to Cloudflare. TLC checks each model on
small instances, TLAPS proves the most important results for every value of the
constants.

- `M.tla` models a component, `MCM.tla` gives its constants values, `M.cfg` is
  a run, `MProofs.tla` holds the theorems about it; `CommandsProofs` holds those
  about `Insights` and `SecurityTxt`.
- `EdgeStacks` extends `EdgeRouting` and `Presets`, `ZoneBlocks` extends
  `RulesAssembly`; each pair is checked by one run. `SiteService` is the abstract
  specification that `StaticSite` implements.
- `PROJECT.json` lists the components, the runs, the mutants (one plausible bug
  per property, each found by its run), the source lines of every definition,
  the hazards and the theorems.

Check one with `tlc -config M.cfg MCM`, prove one with `tlapm MProofs.tla`.

## 1. Inventory

| Component | State | Operations | What is hard |
|---|---|---|---|
| static-site server (`internal/staticsite`: server, handler) | the snapshot being served, the previous directory, removal timers, the volume, a one-place SIGHUP channel | initial load, reload on SIGHUP, swap, delayed removal, shutdown; one goroutine per request | a request outlives one or more swaps; a reload fails at any step; signals during a reload; the volume outlives a killed process |
| artifact pull (`oci`, `registryauth`, `unpack`) | the cached ECR token, the oras client's cached credential, the byte and file counts, the target directory | pull, authenticate, retry once on a 401, unpack | a token expires or is revoked between two requests; a tag moves between the attempts; limits run across layers |
| presettoken | the record of checked `sluisctl` binaries with its mutex; per call the credential and its remaining life | `Estate.Config`, `Source.Token`, version check, mint by sluis or by the break-glass root, verify | callers run at once; a credential ages while it is verified; break-glass must never fall back in silence |
| `sluisctl` version gate (`version.go`) | none | parse, compare | strings that parse in part, pre-releases |
| edgespec and `config.Load` | the registry, the catalog's groups, the derived tunnels, WAF and cache hosts | derive, order, validate | first match wins; wildcards span dots; zones nest; two stacks may write one record |
| zonestack, services, edge, tunnel, prototypes | Pulumi's state per company and stack, what is at Cloudflare, the prototypes of each account | an update of each stack: declare, write in any order, delete | stacks that depend on one another in no way Pulumi knows; updates that stop, tokens that lag, names that change stack |
| rules and zone | the contributions of a zone, one ruleset per phase | builders, `Assemble`, `newRulesets` | order, ref collisions, the cache partition and its bypass |
| insights and `edge-insights` | Cloudflare's list and the command's progress | list with paging, dismiss, restore | the list changes between pages; a PUT fails, or its answer is lost, half way |
| securitytxt and `edge-securitytxt` | the live document of each zone | plan, apply | partial failure; expiry checked at the start; another writer |
| tokensplit, account child tokens | the child tokens of an account | mint, rotate, parse | which child holds which permission on which zone |
| presets | the registry and one row per preset | validate rows, build the grants of a kind | a grant that is wider, or narrower, than the stack it is for needs |
| catalog | groups, grants, host names, projects | generate, validate | two groups claiming one name; grants across fleets |
| zonespec, the zone blocks of config | one zone's blocks | checked at load block by block, and again at apply together | what one check accepts and the other refuses; what is written before it is refused |
| awsapigw | a bucket, its guard and versions, the domain that pins one | the update that writes them in any order their inputs allow | the guard is itself one of the resources; others may write the bucket |
| r2, instancetunnel, instanceconnector | Pulumi resources, rendered units | translate | mostly declarative |
| Helm charts, tests, hack | none | templates, test support | - |

How they interact: `catalog` feeds `config.Load`, which calls `edgespec.Derive`
and validates the result; the services stack builds tunnels from it, the zone stack
builds settings, records and, from `Zone.Contributions` through `rules.Assemble`,
rulesets. Every stack gets its credential from `presettoken`, which mints it from a
prototype that the prototypes stack wrote from `presets`; `edge-insights` and `edge-securitytxt`
reach the API through `internal/cfapi`. The static-site server is a program of
its own, deployed behind a tunnel, and shares no state with the others.

What makes each correct is stated in section 3; what is hard to test is the
`hazards` list of `PROJECT.json`, each at its line.

## 2. Plan

Written, in order: `StaticSite` and its proofs, `ArtifactPull`, `PresetToken` (with
`SluisVersion`) and its proofs, `EdgeRouting`, `RulesAssembly`, `Insights`,
`Catalog`, `SecurityTxt`, `TokenSplit`, `FrontDoor`, `Presets`, `EdgeStacks`,
`ZoneBlocks`, `SiteService` and the refinement (in `StaticSiteProofs`), then the proofs
about `FrontDoor`, `TokenSplit`, `ArtifactPull`, `Catalog`, the commands (`Insights` and
`SecurityTxt`) and `EdgeStacks` with what it is built from.

Still to write, most important first:

1. `Catalog` extended by private entries, sign-in and the client proxy, and
   composed with `EdgeRouting` by handing it the derived groups.
2. An abstract credential service that `PresetToken` implements, and `ArtifactPull`
   in the place of `StaticSite`'s one-step pull.
3. The content of the static site: path routing and placeholders.

## 3. The modules

### StaticSite

`server.go` and `handler.go`. One action per step of `Server.Load` (make the
directory, resolve the tag, pull, build, swap, record, each with its failure), of
`Server.Run` (the `select` with its three cases, the shutdown), of the signals, of
the registry moving its tag, of a crash and of a container started again on the
same volume. A request takes its snapshot (`Arrive`), opens its file later
(`OpenEntry`) and ends. Time is a countdown per timer: `due[d]` is what is left of
the `time.AfterFunc` of a copy, `rleft[r]` what a request may still take.

- `ServedOnDisk`, `NoContentUnavailable`: what is served, or held by a request, is
  on the volume, whatever reloads overtake it.
- `NoLostReload`: after the last SIGHUP was handled, the served version is what
  the tag named at that SIGHUP, or newer.
- `NoOrphanCopy`: every copy this process made is served, being filled or has a
  timer.
- `TermExits` (liveness): a process that was sent SIGTERM exits, whatever load is
  under way and whatever its clients do.
- `ImplementsSiteService`: the server implements `SiteService`, which has a version
  and requests and no copies, timers, volumes or signals. `current` is the version
  in the copy being served, `asked[r]` the version in the copy a request holds; a
  restart is `Down`, a swap `Publish`, and every other step stutters. It says that
  no copy changes under a request, that none disappears, and that a reload never
  goes back to an older version. What stutters includes all failed reloads.

Assumption on the outside: a request opens its file within the grace period
(`OpenBound < Grace`; 30 seconds in the code for what takes microseconds).

### ArtifactPull

`oci.go`, `registryauth.go`, `unpack.go`. `Begin` to `End` is one `pullWith` with its
single repetition; `Client` is `registryAuth.client` with the outcomes of
`ecrTokenSource.get`; `Manifest`, `Layer`, `Extract`, `Verify` follow `pullArtifact`
and `extractTar` entry by entry with the two running limits. The registry, the
clock and the oras client's cache are external. Properties: the token source gives out
no token past the expiry it recorded for it, and a repeated pull never holds the token
that was refused (`TokenIsGood`; a client goes on presenting what it holds, see section 5);
a pull that
succeeds leaves exactly the files of one manifest, and no artifact writes more
than a byte past the limit.

### PresetToken

`Source.Token` and what it calls, for several callers. The mutex `versionMu` and
the map it guards are shared; everything else is per call. A credential's life is
what is left of it, so that ageing while it is verified is a step of `Tick`.
Durations are small numbers in the relation the code's constants have
(`MarginAssumption`). Properties: a credential handed out is alive with at least
`MinRemaining` less the verify window; it is short-lived; break-glass and sluis
are never confused; sluis is only called through a checked binary; every call
returns.

`SluisVersion` holds `parseVersion` and `versionAtLeast`. A version string is its
dotted parts, with `Bad` for a part that is no number, and whether a suffix
follows; a binary has one of them, and `VersionGate` says that a binary that is
called reports a version that is, by an order stated on its own (`Precedes`), no
older than the minimum, if it can be read at all. For the others see
`UnreadableIsOld` in section 5.

### EdgeRouting

`edgespec`, `config.Load` and the record zone of `edge`/`tunnel`. A domain name is
the sequence of its labels from the root, so that a parent is a prefix; a label is a
number, because only the order of labels matters, and "*" is 0, before all others. The
stable sort of `OrderHosts` is given by what it returns: each claim at the place that
counts the claims before it. Each action edits the catalog by one host of one group and loads it; `config` is what
`Load` returns: the first refusal in the code's order, or the tunnels, WAF and
cache lists. The properties relate what was derived to how cloudflared and
Cloudflare use it: the first matching rule is the most specific (`Matches` is
cloudflared's rule, `Covers` the code's), every host is in one right tunnel, and
the WAF lists what tunnels serve.

### Presets and EdgeStacks

`Presets` is a module of operators: the rows of the preset table, `validateRow` and
`Validate`, and `Grants`, the policies of `build` for each of the nine kinds, as
pairs of a permission group and what it applies to.

`EdgeStacks` runs what `EdgeRouting` derives. Per company there are a zone stack
and a services stack, each with a Pulumi state that is also what Cloudflare has
(`stack`), and per account the registry its prototypes were last written from. An
update (`Deploy` to `Finish`) fixes configuration and tokens when it begins, writes
what differs in every order that respects inputs, is denied what its token does not
grant, is refused a record whose name is taken, and deletes at the end; it may stop
anywhere and be run again, two may run at once, and catalog, registry and
prototypes change meanwhile.

A program is cut short by a zone or tunnel that is refused, or by a second resource of
one name (`CutShort`). `deployZone` refuses a zone without an id, one whose blocks
`Contributions` or `zone.New` refuse before anything is registered (`UnfitZones`: an
enabled managed WAF with no host or too many, and what else the registry calls
`unfit`), and one with two rules of a ref (`sharedRef`), after its settings. A tunnel is
refused for its zones, its hosts and its rules before anything of it is registered;
two hosts of one slug make one resource name (`NameOf`, `NameTwice`). What such a program
has declared by then is any part of what it could have (`Outcomes`): the code walks
zones and tunnels in the order of their names, which the model does not fix.

- `NeverDenied`: with tokens of the registry that is applied, no request is denied: the
  grants of each kind cover settings, bot management, rulesets, origin pulls, records
  and tunnels. The library cannot know which zones need Zone WAF Write (managed WAF,
  rate limits, trusted clients) or Bot Management Write: the estate names them in the
  rows it builds (`StandardRows(account, grants, wafZones, botZones)`), and `EstateRows`
  assumes that it names them all. Its mutant names the managed WAF's zones only.
- `NeverHalfDone`: with such tokens a program is refused half way only for what `Load`
  leaves to the apply (`LeftToApply`): an unfit zone, a shared ref, or two resources of
  one name.
- `PresetsStayInside`: no preset of an account reaches another account's zone or
  more than the settings of a zone managed for its security.txt.
- `ClashIsLeftover`: a name is refused as taken only by a record of an earlier
  configuration. A name that moves from the zone's records to a tunnel, or back,
  does meet the old record until the other stack has run; the model has the failed
  apply and the one that makes it good.
- `ProtectedFirst`: with the zone stack applied first, no record leads to a tunnel
  before the WAF lists its name, or to an origin before the zone presents a
  certificate.
- `AppliedMatches`: after both stacks ran, Cloudflare has what is configured.

The settings of a zone that no property tells apart are one resource; bot management
and the WAF's rulesets are others, because they need grants of their own. Cloudflare's
check of a second record and the grants a request needs are external, as are
Pulumi's order and diff.

### RulesAssembly and ZoneBlocks

`RulesAssembly` is `rules`. A filter expression is the set of requests it matches;
the text matters only for a claim behind `not`, which has a form for that. Features
are contributed one at a time and the zone is assembled after each; a refused zone
is taken back. `Partition` is about contributions that claim what they serve and
serve disjoint requests: `Assemble` checks neither (see section 5). A claim is only
safe behind `not` when one pair of parentheses encloses it, while the code tests its
first and last character; the property is about claims that are enclosed.

`ZoneBlocks` adds the blocks of a zone in `cloudflare.yaml`. One action writes a
block; the outcome of `Load`, `ZoneArgs`, `Contributions` and `zone.New` on the zone
is computed in the code's order: where it is refused, and what was registered by
then. A host is known by its shape (inside the zone, its apex, wildcard, upper case,
underscore), which is what the checks look at; times, counts and plans are the
code's numbers.

- `LoadCatchesTheRest`: a zone that loads is one that deploys, except for what
  `LeftToApply` lists, and for all of that.
- `RefusedBeforeWriting`: a zone refused at apply is refused before anything of it
  is registered, except two hosts pinned to one rule ref and two records with one
  resource name, which `New` finds itself after the settings.

### FrontDoor

`awsapigw.New`: one action writes a resource whose dependencies are written, so
that every order Pulumi may choose is explored. The truststore object is a list of
versions; a bucket without versioning keeps one object. Another principal of the
account, who may write any bucket, puts and deletes at the key whenever the bucket
policy in place lets it.

- `TruststoreIsOurs`: the domain trusts only a CA this stack put, and the version it
  pins is there.
- `NotLockedOut`: an identity the arguments list is never denied by a policy of an
  earlier update.
- `Applied`: an update that ended well left what it was given, whatever was left half
  done before.

### Insights

`insights.List`, `Dismiss`, `DismissMatching` and `runDismiss` over `cfapi`. Between
any two requests of the command the scanner may add an insight at the head or
remove one, and another admin may archive or restore one. `WriteFails(applied)` is
a PUT that fails before or after Cloudflare acted. What a request is answered is
`PageOf` of the matching ids in list order, `Only(issues, Passes)`. `Plan` is what is to be
written, `done` the list the command holds: with ids it is complete before the first
PUT, by filter it grows with each. It is printed only if the command ends well;
otherwise the error is all that is printed, also by filter, where `runDismiss` drops what
`DismissMatching` returned with it. `blamed` is the insight that error names. The ghosts
`seen`, `losses`, `wrote` record what happened during one command.

- `ArrivalsHideNothing`: what arrives while pages are followed hides nothing that was there.
- `ReportIsTruth`: a printed list is the writes made, in order; an insight named by the
  error of a PUT is where in the plan the writes stopped, its own perhaps made (its answer
  may be what was lost); any other error means nothing was written.
- `QuietRunFinishes`: an undisturbed command that ends well has done its whole job.

### Catalog

`catalog.go`, `projects.go`, `groups.go`, `grants.go`. The files are edited by one
group or one project endpoint at a time and loaded: `Load` with its validation,
`WithProjects` with overrides, `DeriveGroups` with `routeGrant`, `ListenerSetsFor`.
A host is an opaque name or a wildcard, a derived name its slug.

- `CatalogIsWhole`: what is accepted has every group that was written and every
  endpoint of every project, none in place of another.
- `NameIsOwn`: the listener of a group without wildcards, or of a private group that
  names one namespace, admits the namespaces its group names and no others. The other
  groups with a wildcard admit at least these, on the wildcard and on exact hosts
  beside it (section 5).
- `MovesTogether`: a project is on a ListenerSet with all its hosts or with none.

### SecurityTxt

`securitytxt.go` and `edge-securitytxt`, `token.Resolve` as a wait that may fail. A
document is what it says, its date as an instant, and the date's spelling, which
Cloudflare chooses. `StartRun` reads clock and file; `Token`, `Read`, `Write` are one
request each, which may fail, `Write` before or after Cloudflare stored the
document; other runs, people and days go on in between. The ghost `touched` holds
the zones someone else changed after a run's last request on them.

- `DocumentAsReported`: "changed" and "unchanged" are true when they are printed.
- `HeardInTime`: a zone reported without a warning does not lapse within the
  warning period, and one refused date keeps the whole run from writing.

### TokenSplit

`tokensplit.go` with `account`. An update of an account's root stack is what the
program registers (`Begin`: children in key order up to the first that cannot be)
and what Pulumi then does, one operation per action, each of which may fail before
it took effect or after it (`saved`). Tokens are created in key order: children
share nothing, so other orders give the same states but for which of them a
failed update had reached. `owed` holds the children that a failed update left
with no secret on record. One of them may since have left the inputs: its token is
then deleted, and a secret that was written but never recorded stays behind.

- `StoredAlive`: at every moment of a rotation the store names a live token.
- `ReadIsOwn`: a consumer never accepts a token of another account.
- `Settled`: after a successful update every child is minted under its current
  label and written, and no child the stack knows of is left beside them, whatever
  failed before. A token whose creation the stack never heard of stays at Cloudflare.
- `ReachesItsZones`: what the children may do, from the registry.

## 4. The runs

| Run | Instance | Shows |
|---|---|---|
| `static_site` | 3 copies, 1 request, grace 2, 2 containers, the tag moved once | all properties of the server, under `FairSpec` |
| `artifact_pull` | 2 versions, 9 artifacts at each limit, 2 tokens | the pull's properties |
| `preset_token` | 2 callers, 3 binaries, durations on both sides of every limit | safety and `CallsReturn` |
| `edge_stacks` | routing: 7 hosts, up to 4 entries in 2 groups, 3 nested zones, 2 accounts, 14 registries; stacks: 2 companies, 3 hosts (two of one slug), 5 registries, 3 updates, 2 at once, one edit | the routing properties on every catalog, the stack properties on every history |
| `zone_blocks` | 23 blocks, each with good values and values at and past each limit, up to 3 set at once; 2 hosts, up to 3 features of 30 | the properties of load and apply, `Partition` |
| `front_door` | 2 CAs, 2 identities, 1 other principal, 2 updates, one edit, 2 outside writes or lost answers | the truststore properties |
| `insights` | 5 insights, 2 per page, 2 commands, 2 outside changes | the properties of the command |
| `catalog` | 3 hosts, up to 2 written groups and 2 endpoints, every arrival | the catalog's properties |
| `security_txt` | 2 runs, 3 zones (one without id), 2 accounts, 3 dates, one edit | the command's properties |
| `token_split` | 3 updates of one account and one of another, 2 zones, one bucket, one edit, one failure; one place for both roots, or one each | the token properties |
| `preset_token_unreadable`, `rules_overlap` | small | section 5 |

Why the bounds are enough. Three copies are the one served, the one being filled
and a superseded one or a leftover of a killed process; a fourth, superseded twice
within one grace period, is covered by the proofs, which have no bound. One request
suffices because requests share nothing but the snapshot; the proofs are for any
set. Two tokens and two versions are what one repetition can meet. Two callers meet
in every pair of steps. Two nested zones with two levels of wildcards and an exact
name below each give every case of `OrderHosts` and `ZoneOf`. Three updates of the
stacks are a first one that stops, the other stack beside it, and one that makes it
good; one edit is what an update can find changed, and the prototypes' lag needs no
more. Three blocks are any two and one that decides how they are read (`manage`,
`always_use_https`, `cache`). Three features give every pair with a third before,
between or after them. Two updates of the front door are one that is interrupted
and one by the other identity; two outside writes replace and delete. With two
insights per page, three at the start and two changes, an insight crosses a page
boundary in both directions. The dates of `security_txt` are passed, near, far and
too far on one day or the other. Three updates of `token_split` are a first one, one
that rotates and fails, and one that recovers; the token ids are all these can mint.
Deadlock is checked in `static_site`, `artifact_pull`, `preset_token` and `catalog`;
in the others commands, updates and edits are counted and the system stops after the
last.

Fairness. `StaticSite`: the load and the shutdown go on and time passes (weak
fairness); `select` picks among ready cases at random, so SIGTERM is taken although
SIGHUPs keep coming (strong fairness of `TakeTerm`); a request opens its file, which
is the assumption on `OpenBound`. Clients need not end their requests:
`http.Server.Shutdown` has a deadline. `PresetToken`: every command and request has a
time-out and time passes (weak fairness); Go's mutex hands over to a waiter that has
starved for a millisecond (strong fairness of `Lock`).

## 5. Where code and documentation disagree

Two are runs that violate the quoted statement; details are in `PROJECT.json`.

- `preset_token_unreadable`: a version that cannot be read is accepted when its
  leading numbers are large enough (`version.go:24`).
- `rules_overlap`: the cache phase is not kept a partition when two contributions
  claim the same request, as `cache` and `public_cache` on one business host do.

Met while modelling, without a run of their own:

- `docs/cloudflare/config.md:77-80` says that the blocks of a zone are held to the
  zone component's checks, "so a bad row fails at load and not at apply". What
  `ZoneBlocks!LeftToApply` lists loads and fails at apply: an unknown
  `min_tls_version` or Total TLS authority; an enabled `managed_waf` for which no
  host is derived, or more than fit; a name with an underscore in `public_cache` or
  `ssl_mode_rules`; rate limits whose names make an empty or the same rule ref; two
  hosts pinned to one ref; and two records, such as `x.y` and `x-y`, that make one
  resource name. The last two fail after the zone's settings were registered. Likewise
  two hosts of one slug, such as `*.env.example.com` and `star-env.example.com`, load and
  then make one resource name in their tunnel (`tunnel.go:327`, `tunnel.go:394`).
- The comment on `Row.BotManagementZones` (`presets.go:172-174`) and
  `docs/cloudflare/presets.md:74` say that `StandardRows` leaves the list empty;
  `StandardRows` takes it as `botZones` (`presets.go:254-264`), as line 90 of the same
  page says.
- A name that moves from a tunnel to the zone's `records` clashes at Cloudflare when
  the zone stack is applied first, as `docs/cloudflare/config.md:192` asks: the
  services stack has not given the record up yet. A second apply of the zone stack
  makes it good.
- A host inside a `security_txt`-only zone is not refused when a managed zone
  encloses that zone: `managedZoneNames` leaves it out, and `ZoneOf` finds the
  parent (`docs/cloudflare/config.md:106-107`). `RightTunnel` is therefore about the
  closest managed zone.
- In a group with an exact host beside a wildcard the exact host is granted by the
  business label, not by name (`groups.go:375`).
- The oras client asks for a credential only after a 401 and keeps it (`auth.NewCache`,
  `registryauth.go:254`), so one pull presents the same token to its end, past its half
  life and past its expiry, unless the registry refuses it; the comment on `client`
  (`registryauth.go:247-248`) has it replaced between two requests. A refusal is answered
  by asking the source again, and then by the repetition.
- `List` may return an insight twice when another arrives between two pages, and it
  is then written twice (`dismiss.go:78`).
- `NewChildTokenSet` leaves the children before an invalid one registered; its
  comment says that nothing is (`childtokenset.go:52`).

## 6. What is proved

`StaticSiteProofs`, for every set of copies and requests, every grace period
longer than `OpenBound` and every bound on tags and starts:
`Spec => []TypeOK`, `[]ServedOnDisk`, `[]NoContentUnavailable`, `[]NoLostReload`,
`[]NoOrphanCopy`. `ServedOnDisk` is not inductive: that a timer removes no copy in
use needs to know that a copy with a timer is neither served nor being filled
(`SiteInv`, `LoadingInv`), that a request's snapshot is current or its timer
outlasts the request (`HeldInv`: the swap starts the timer with `Grace` while the
request has at most `OpenBound` left, and both count down together), and what Run
and Load may be doing in each phase (`PhaseInv`). `ReloadInv` says that a load that
has read the tag read it after the last SIGHUP, or that SIGHUP still waits. Their
conjunction is `IndInv`; one lemma per group of actions shows that it is preserved.

The same module proves the refinement, `Spec => ImplementsSiteService`, from the same
assumptions. Besides `IndInv` it needs `AgeInv`: no copy is newer than the tag, and a
copy that is being filled is no older than the one it will replace, because the tag
was read later and only moves forward. With them the initial states map to initial
states, and each action to one of `Publish`, `Ask`, `Answer`, `Leave`, `Down` or to a
stutter: the removal of a copy stutters because nobody holds it (`HeldInv`), a new
load because the copy it empties is nobody's (`LoadingInv`).

`PresetTokenProofs`, for every set of callers and binaries and all durations in
the relation of `MarginAssumption`: `Spec => []TypeOK`, `[]HandedOutAlive`,
`[]HandedOutShort`, `[]NoSilentFallback`, `[]VersionGate`. The last rests on what
`versionAtLeast` decides for a version that can be read. The strengthening is
`SettleInv` (while a credential is verified, its life has lost no more than the
time waited), `ValidInv` and `ViaInv`.

`FrontDoorProofs`, for every set of CAs, identities and other principals, any number
of edits, updates and foreign writes: `[]TypeOK`, `[]TruststoreIsOurs`, `[]NotLockedOut`,
`[]Applied`. That the pinned version is ours needs `GuardInv` (the object is not
recorded before bucket, versioning and policy stand) and `ObjectInv` and `DomainInv` (the
versions that state and domain record were put by this stack and are never removed
once the guard stands); that an update's result lasts needs `ProgressInv` (what it
counts as done stays as its arguments want it). `MarksAssumption` says that the model
values for "absent" and "gone" are none of the values they stand beside.

`TokenSplitProofs`, for every set of accounts, zones, buckets and labels, every start and any
number of updates, edits and failures: `[]TypeOK`, `[]StoredAlive`, `[]ReadIsOwn`,
`[]Settled`, `[]ReachesItsZones`. `StoredAlive` needs to know whose each token is: `Knows`
(a stack's children, secrets and doomed tokens are its own account's, and a current
child is never doomed), `Alive` (what a recorded secret holds still exists unless the
child is owed its secret), `Progress` (what an update has still to mint, put and delete
accounts for every difference from what it wants), `StoreInv` (what lies in the store lies
where its account puts it, and is its own token and, unless the secret is owed, what the stack
recorded; where an account shares its place with nobody, every recorded secret is there) and
`CleanInv` (an account whose last update succeeded and was not edited since is idle and has
exactly what is declared). They are stated on the record of one account, so that an
update of another preserves them because it mints new ids.
`StartsAssumption`: some label is acceptable, and a start declares buckets for each account.

`ArtifactPullProofs`, for every artifact, limit, lifetime and number of tokens: `[]TypeOK`,
`[]TokenIsGood`, `[]CompleteArtifact`, `[]WithinLimits`. `Again` says that no token was given
out overdue and that in the repetition whatever is cached or held is newer than the token refused;
`Pulling` that the directory holds exactly the files of the entries read so far of one
manifest; `Bounded` that the bytes counted are those in the directory, which no file is
written to twice. The last is about a sum over a set (`FoldSet`): `NatSteps` derives
induction on a set of naturals from the library's `WFMin`, and with it the lemmas on the
iteration behind the fold show that adding a file adds its size. `ArtsAssumption`: an
artifact is a sequence of layers of entries.

`CatalogProofs`, for every set of exposures, clusters, projects, hosts, groups and overrides:
`[]CatalogIsWhole`, `[]NameIsOwn`, `[]MovesTogether`. A derived answer is right only while the
catalog it came from is the one in memory, and that one is what file and projects say:
`Accepted` and `DerivedFrom` tie the three together, with the checks that were passed on
the way; every edit starts over. The rest are lemmas on the operators (`GeneratedStands`,
`OneClaimant`, `Grants`). `CatalogAssumption` says that projects' namespaces carry the
business label, that a group names finitely many namespaces and that endpoints are of
known projects and clusters.

In `CommandsProofs`, about `SecurityTxt`, for every set of zones, documents and runs and every horizon in the
relation of `HorizonAssumption`: `TxtSpec => []TxtTypeOK`, `[]DocumentAsReported`, `[]HeardInTime`.
Both properties speak of a run that has ended and are not inductive: `Knows` says of a
run at every moment that it knows the document of every zone it has read and nobody
else has touched since, `Phase` how far its lists are (all zones are read before the
first write), `Checked` which dates it has compared with its start.

`CommandsProofs`, about `Insights`, for every set of ids, listing, page size and number of runs and changes:
`[]TypeOK`, `[]ArrivalsHideNothing`, `[]ReportIsTruth`, `[]QuietRunFinishes`. The first is about
a list that moves while it is read: `Ahead` says that what matched all through and has not come
yet stands behind the pages read, and it lasts because no match moves towards the head unless
one is lost (`Embeds`, `Moves`). `Quiet` and `Left` say what the matches and the ids still to be
written have to do with each other while nobody else changes them, `Reports` splits the
plan into what was written and what is to come (`Halfway`). The listing is computed by a recursive
function, `Upto`; `UptoExists` solves its recursion and `StepsTo`, induction along the list
from `WFMin`, carries the facts about it, of which `PageFacts` is what the
proof uses. `PagingAssumption`: pages are not empty, at
the start no id is listed twice.

`EdgeStacksProofs`, for every set of names, hosts, groups, registries and companies, any
number of edits and updates, and any number of them at once: `SSpec => []STypeOK`,
`[]MostSpecificRule`, `[]RightTunnel`, `[]WafCoversWhatIsServed`, `[]PresetsStayInside`,
`[]NeverDenied`, `[]NeverHalfDone`, `[]ClashIsLeftover`, `[]AppliedMatches` and the action
property `ProtectedFirst`: all that the run `edge_stacks` checks, and the types.

- The routing properties follow from `Derived` (the configuration in use is what `Load`
  returns for registry and catalog) and lemmas on the operators. `ZoneOfIs`: of the
  zones around a host one is innermost, because prefixes of one name nest.
  `HostsOrdered` and `ClaimsOrdered`: `OrderedBefore` is a strict total order on hosts and
  its stable form one on claims, hence no two claims share a place and none is missing
  (`Positions`, by cardinalities), and `OrderHostsIs`: the rules are the hosts claimed, none
  before one that should precede it. `MostSpecificHere` needs no more than that;
  `RightTunnelHere` and `WafCoversHere` also what Load's refusals exclude (`AcceptedIs`).
- `PresetsStayInside` is a lemma on `validateZones`, `validateLists` and `Grants`
  (`GrantsInside`) and `ProtoInv`: prototypes were written from a registry whose presets
  could be built.
- The properties of updates speak of a whole run and none is inductive. `EstateInv` is:
  `StackInv` (every resource belongs to the stack that has it, so that two stacks share
  none), `UpInv` (an update under way wants only its own resources; what it no longer has
  to write stands as wanted; it knows every record of its configuration and there is
  one per name; with fresh tokens it lacks no grant and is cut short for what `Load`
  leaves to the apply at most; and while nothing was edited it wants what the
  configuration declares, unless it is cut short), `CurrentInv` (a stack that applied
  the configuration holds exactly what it declares) and `OrderedInv` (while
  a company that keeps the order runs its services stack, the zone stack rests and holds
  the protection of every record about to be written). One lemma per action shows that it is
  preserved. The substance is in four facts about one configuration: `DeclaredOnce`
  (no two of its records have one name), `TokensSuffice` (the grants cover what the
  stacks write), `NoneRefused` (`Load` and the presets refuse what else the stacks would
  refuse) and `ZoneFirst` (what the zone stack declares protects what the services stack declares).
- Assumptions. `CatalogAssumption`: hosts are finitely many and an exposure lists some
  account. `RegistriesAssumption`: no zone is the root. `EstateAssumption`: accounts have
  companies; a zone stays in its account, because moved to another one it is a new zone
  at Cloudflare, with another id, and a name in this model stands for a zone with its id;
  and the records a registry gives one name are one element of its records. `NeverDenied`
  further rests on `EstateRows`, the rows the estate is assumed to write (section 3).
- `RightTunnel` speaks of the closest managed zone; a zone kept for its security.txt is
  none (section 5). `ProtectedFirst` speaks of companies that apply the zone stack first
  and not beside the services stack: that order is the operator's to keep.

The inductive invariants of these modules were checked with TLC on the instances of the
corresponding runs before they were proved.

Model-checked only: `RulesAssembly` and `ZoneBlocks` (`Partition`, `LoadCatchesTheRest`,
`RefusedBeforeWriting`). Their subject is what sorting, filtering and folding a list of
contributions or of checks leaves, one after the other (`SortSeq`, `SelectSeq`, `FoldLeft`):
induction over data, which the prover cannot do, and its backends do not
translate these operators. Liveness and fairness (`TermExits`, `CallsReturn`) and ENABLED
are beyond it as well.

## 7. What is not modelled

Output formats, wording, logging and metrics; HTTP headers, content negotiation
and path routing of the static site; placeholder substitution; path escaping; the
syntax of ids, labels, patterns and addresses; the one-stack form `edge.Deploy`,
which deploys in one update what the zone and services stacks deploy in two;
certificate packs, which no stack here asks for; R2 buckets; the names and aliases
of Pulumi resources; Helm templates. The components with status `not_modelled` in `PROJECT.json` say why.
