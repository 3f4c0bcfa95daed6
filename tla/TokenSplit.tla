---------------------------- MODULE TokenSplit ----------------------------
(***************************************************************************)
(* The root stack of a token split (tokensplit.Deploy, account.NewChild-   *)
(* TokenSet): per account, an update mints the children and writes each    *)
(* into the store its consumers read.  Updates of different accounts may   *)
(* be under way at once, any operation of one may fail and the next update *)
(* goes on from there, the registry changes in between, and two roots may  *)
(* by mistake have been given the same place in the store.                 *)
(*                                                                         *)
(* Pulumi's engine, Cloudflare and the store are external: the engine      *)
(* creates or updates the tokens as the program registers them, and each   *)
(* secret at some time after its token; replaces a resource by creating    *)
(* the new one first; and deletes what is left over when the rest is done, *)
(* or, if an earlier update left it, at any time.                          *)
(***************************************************************************)
EXTENDS Naturals, Sequences, Functions

CONSTANTS
    Accounts,     \* account ids, one root stack each
    Zones,        \* zones, by name and id
    Buckets,      \* numbers: the R2 buckets, in the order of their names
    Labels,       \* rotation labels people write
    BadLabels,    \* those with a character rotationValid refuses
    Starts,       \* the estates to start from, each a record of: zone, the registry,
                  \* [Zones -> [account, txt]]; place, the namespace and key prefix
                  \* of each account's Writer; buckets, [Accounts -> SUBSET Buckets]
    MaxEdits,     \* bound: edits of the registry and the inputs
    MaxUps,       \* bound: updates of each account, [Accounts -> Nat]
    MaxFailures,  \* bound: updates that fail
    MaxIds        \* bound: tokens minted

ASSUME StartsAssumption ==
  /\ \E l \in Labels : l \notin BadLabels
  /\ \A start \in Starts : start.buckets \in [Accounts -> SUBSET Buckets]

Kinds == {"edge", "status", "r2-admin", "r2-parent"}

\* A child's key: its kind, with the bucket of an r2-parent; keys are sorted.
Children == {<<k, 0>> : k \in Kinds \ {"r2-parent"}} \cup {<<"r2-parent", b>> : b \in Buckets}
Rank(kind) ==
  CASE kind = "edge" -> 1 [] kind = "r2-admin" -> 2 [] kind = "r2-parent" -> 3
    [] kind = "status" -> 4
Before(c, d) == Rank(c[1]) < Rank(d[1]) \/ (c[1] = d[1] /\ c[2] < d[2])

VARIABLES
    zone,       \* registry: [Zones -> [account, txt]]; txt is SecurityTxtOnly
    inputs,     \* [Accounts -> [buckets, rotation, waf, admin]]
    place,      \* [Accounts -> where its children are written]
    tokens,     \* Cloudflare: [live token ids -> their grants]
    minted,     \* every token ever created, as <<account, child, label>>
    store,      \* [<<place, child>> -> [id, account]], the secrets there are
    stack,      \* Pulumi's state, [Accounts -> [children, secrets, doomed]]
    up,         \* the update of each account, [Accounts -> [pc, ...]]
    edits, ups, \* edits made and updates started so far
    failures,   \* updates failed so far
    clean,      \* ghost: accounts whose last update succeeded, nothing edited since
    owed        \* ghost: [Accounts -> children a failed update left with
                \* no secret on record, until one is]

outside == <<zone, inputs, place>>
vars == <<outside, tokens, minted, store, stack, up, edits, ups, failures, clean, owed>>

-----------------------------------------------------------------------------
(* Policies.  A grant is a permission group and a resource key: an account,  *)
(* a zone, which the key names without its account, or an account's bucket.  *)

AccountKey(a)   == <<"account", a, 0>>
ZoneKey(z)      == <<"zone", z, 0>>
BucketKey(a, b) == <<"bucket", a, b>>

ZonePolicies(zs) ==
  {"DNS Write", "SSL and Certificates Write", "Zone Settings Write",
   "Cache Settings Write", "Config Settings Write"} \X {ZoneKey(z) : z \in zs}
SecurityTxtPolicies(zs) == {"Zone Settings Write"} \X {ZoneKey(z) : z \in zs}
TunnelPolicy(a)         == {<<"Cloudflare Tunnel Write", AccountKey(a)>>}
StatusPolicies(a, zs)   == TunnelPolicy(a) \cup ({"DNS Write"} \X {ZoneKey(z) : z \in zs})

\* Mutant: WAF on the named zone, whoever manages it.
EdgePoliciesAnyWAF(a, zs, waf) ==
  TunnelPolicy(a) \cup ZonePolicies(zs) \cup ({"Zone WAF Write"} \X {ZoneKey(z) : z \in waf})

\* EdgePolicies and account.EdgePoliciesWithWAF.
EdgePolicies(a, zs, waf) ==
  TunnelPolicy(a) \cup ZonePolicies(zs)
    \cup ({"Zone WAF Write"} \X {ZoneKey(z) : z \in waf \cap zs})

MatchingZones(a)    == {z \in Zones : zone[z].account = a /\ ~zone[z].txt}
SecurityTxtZones(a) == {z \in Zones : zone[z].account = a /\ zone[z].txt}

\* The ChildTokenConfig of every child Deploy declares for a.
Policies(a, c) ==
  CASE c[1] = "edge"      -> EdgePolicies(a, MatchingZones(a), inputs[a].waf)
                               \cup SecurityTxtPolicies(SecurityTxtZones(a))
    [] c[1] = "status"    -> StatusPolicies(a, MatchingZones(a))
    [] c[1] = "r2-admin"  -> {<<"Workers R2 Storage Write", AccountKey(a)>>}
    [] c[1] = "r2-parent" -> {<<"Workers R2 Storage Bucket Item Write", BucketKey(a, c[2])>>}

Declared(a) ==
  {c \in Children : /\ c[1] = "r2-parent" => c[2] \in inputs[a].buckets
                    /\ c[1] = "r2-admin"  => inputs[a].admin}
Configs(a) == [c \in Declared(a) |->
                 [label |-> inputs[a].rotation[c[1]], grants |-> Policies(a, c)]]

\* ChildTokenConfig.Validate: something is granted, no power to mint, and the
\* label may be part of a name.
Valid(cfg) ==
  /\ cfg.label \notin BadLabels
  /\ cfg.grants # {}
  /\ \A g \in cfg.grants : g[1] \notin {"Account API Tokens Read", "Account API Tokens Write"}

-----------------------------------------------------------------------------
Idle == [pc |-> "idle", want |-> <<>>, mint |-> {}, put |-> {}, ok |-> FALSE, old |-> {}]

Init ==
  /\ \E start \in Starts :
       /\ zone = start.zone /\ place = start.place
       /\ inputs = [a \in Accounts |->
            [buckets |-> start.buckets[a],
             rotation |-> [k \in Kinds |-> CHOOSE l \in Labels : l \notin BadLabels],
             waf |-> {}, admin |-> FALSE]]
  /\ tokens = <<>> /\ minted = <<>> /\ store = <<>>
  /\ stack = [a \in Accounts |-> [children |-> <<>>, secrets |-> <<>>, doomed |-> {}]]
  /\ up = [a \in Accounts |-> Idle]
  /\ edits = 0 /\ failures = 0 /\ ups = [a \in Accounts |-> 0]
  /\ clean = {} /\ owed = [a \in Accounts |-> {}]

-----------------------------------------------------------------------------
(* Edits. *)

Edit ==
  /\ edits < MaxEdits /\ edits' = edits + 1
  /\ UNCHANGED <<place, tokens, minted, store, stack, up, ups, failures, owed>>

EditZone(z, entry) ==
  /\ Edit /\ entry # zone[z]
  /\ zone' = [zone EXCEPT ![z] = entry]
  /\ clean' = {} /\ UNCHANGED inputs

EditInputs(a, new) ==
  /\ Edit /\ new # inputs[a]
  /\ inputs' = [inputs EXCEPT ![a] = new]
  /\ clean' = clean \ {a} /\ UNCHANGED zone

EditAny(a) ==
  \/ \E z \in Zones, txt \in BOOLEAN : EditZone(z, [account |-> a, txt |-> txt])
  \/ \E c \in Declared(a), l \in Labels :
       EditInputs(a, [inputs[a] EXCEPT !.rotation[c[1]] = l])
  \/ \E bs \in SUBSET Buckets : EditInputs(a, [inputs[a] EXCEPT !.buckets = bs])
  \/ \E z \in Zones : EditInputs(a, [inputs[a] EXCEPT !.waf = {z}])
  \/ \E admin \in BOOLEAN : EditInputs(a, [inputs[a] EXCEPT !.admin = admin])

-----------------------------------------------------------------------------
(* An update of a's root stack. *)

With(f, x, v) == [y \in {x} \cup DOMAIN f |-> IF y = x THEN v ELSE f[y]]
Without(f, x) == Restrict(f, DOMAIN f \ {x})

\* NewChildToken before it registers anything: the config is valid and
\* lookupPermissionGroupID finds one group of every name.
Registers(cfg, c, unknown) == Valid(cfg) /\ c \notin unknown

\* Deploy: NewChildTokenSet registers the children in key order and stops at the
\* first that cannot be; the ones before it stay registered.  The secrets are
\* registered after all children.  Without a zone nothing is.
Begin(a, unknown) ==
  LET cfgs  == Configs(a)
      fails == {c \in Declared(a) : ~Registers(cfgs[c], c, unknown)}
      reg   == {c \in Declared(a) : \A d \in fails : Before(c, d)}
      ok    == fails = {}
  IN  /\ up[a].pc = "idle" /\ ups[a] < MaxUps[a] /\ ups' = [ups EXCEPT ![a] = @ + 1]
      /\ ok \/ failures < MaxFailures
      /\ MatchingZones(a) \cup SecurityTxtZones(a) # {}
      /\ up' = [up EXCEPT ![a] =
           [pc |-> "run", want |-> cfgs, mint |-> reg, ok |-> ok, old |-> {},
            put |-> IF ok THEN reg ELSE {}]]
      /\ clean' = clean \ {a}
      /\ UNCHANGED <<outside, tokens, minted, store, stack, edits, failures, owed>>

\* The update fails, or the program did: what was replaced is deleted next time.
Stop(a) ==
  LET st == [stack[a] EXCEPT !.doomed = @ \cup up[a].old]
  IN  /\ failures < MaxFailures /\ failures' = failures + 1
      /\ up' = [up EXCEPT ![a] = Idle]
      /\ stack' = [stack EXCEPT ![a] = st]
      /\ owed' = [owed EXCEPT ![a] = @ \cup
           {c \in DOMAIN st.children :
              c \notin DOMAIN st.secrets \/ st.secrets[c] # st.children[c].id}]

Fails(a) ==
  /\ up[a].pc = "run" /\ Stop(a)
  /\ UNCHANGED <<outside, tokens, minted, store, edits, ups, clean>>

\* An operation took effect; whether the engine learnt of it is "saved".
Saved(a, saved, st, u) ==
  IF saved THEN /\ stack' = [stack EXCEPT ![a] = st]
                /\ up' = [up EXCEPT ![a] = u]
                /\ UNCHANGED <<failures, owed>>
           ELSE Stop(a)

Child(id, cfg) == [id |-> id, label |-> cfg.label, grants |-> cfg.grants]
Has(a, c)     == c \in DOMAIN stack[a].children
Minting(a, c) ==
  up[a].pc = "run" /\ c \in up[a].mint /\ \A d \in up[a].mint \ {c} : Before(c, d)

\* Mutant: a change of name is an update in place, as the provider has it.
RenameInPlace(a, c) == Has(a, c)

\* NewChildToken: a change of name replaces the token (ReplaceOnChanges),
\* anything else updates it.
KeepsToken(a, c) == Has(a, c) /\ stack[a].children[c].label = up[a].want[c].label

\* Mutant: DeleteBeforeReplace.
OldDeletedFirst(a, c) ==
  IF Has(a, c) THEN Without(tokens, stack[a].children[c].id) ELSE tokens

\* The tokens there are when a replacement is created.
AtReplacement(a, c) == tokens

\* The token is created, or its replacement is; the old one goes in the end.
Create(a, c, saved) ==
  LET id == Len(minted) + 1
      st == stack[a]
      u  == up[a]
  IN  /\ Minting(a, c) /\ ~KeepsToken(a, c) /\ id <= MaxIds
      /\ minted' = Append(minted, <<a, c, u.want[c].label>>)
      /\ tokens' = With(AtReplacement(a, c), id, u.want[c].grants)
      /\ Saved(a, saved,
           [st EXCEPT !.children = With(@, c, Child(id, u.want[c]))],
           [u EXCEPT !.mint = @ \ {c},
                     !.old = IF Has(a, c) THEN @ \cup {st.children[c].id} ELSE @])
      /\ UNCHANGED <<outside, store, edits, ups, clean>>

\* The token's policies are brought up to date, if they differ.
Update(a, c, saved) ==
  LET id == stack[a].children[c].id
  IN  /\ Minting(a, c) /\ KeepsToken(a, c)
      /\ tokens' = [tokens EXCEPT ![id] = up[a].want[c].grants]
      /\ Saved(a, saved,
           [stack[a] EXCEPT !.children[c] = Child(id, up[a].want[c])],
           [up[a] EXCEPT !.mint = @ \ {c}])
      /\ UNCHANGED <<outside, minted, store, edits, ups, clean>>

\* Writer.Put, once the token's value is known; nothing is sent when the secret
\* Pulumi knows already holds it.
Put(a, c, saved) ==
  LET id   == stack[a].children[c].id
      same == c \in DOMAIN stack[a].secrets /\ stack[a].secrets[c] = id
  IN  /\ up[a].pc = "run" /\ c \in up[a].put \ up[a].mint
      /\ store' = IF same THEN store
                  ELSE With(store, <<place[a], c>>, [id |-> id, account |-> a])
      /\ saved \/ ~same
      /\ IF saved
         THEN /\ stack' = [stack EXCEPT ![a].secrets = With(@, c, id)]
              /\ up' = [up EXCEPT ![a].put = @ \ {c}]
              /\ owed' = [owed EXCEPT ![a] = @ \ {c}]
              /\ UNCHANGED failures
         ELSE Stop(a)
      /\ UNCHANGED <<outside, tokens, minted, edits, ups, clean>>

\* What is left over is deleted after everything else, a secret before its token.
Sweeping(a) == up[a].pc = "run" /\ up[a].ok /\ up[a].mint = {} /\ up[a].put = {}
Gone(a)     == DOMAIN stack[a].children \ DOMAIN up[a].want

DropSecret(a, c) ==
  /\ Sweeping(a) /\ c \in Gone(a) \cap DOMAIN stack[a].secrets
  /\ store' = Without(store, <<place[a], c>>)
  /\ stack' = [stack EXCEPT ![a].secrets = Without(@, c)]
  /\ UNCHANGED <<outside, tokens, minted, up, edits, ups, failures, clean, owed>>

DropChild(a, c) ==
  /\ Sweeping(a) /\ c \in Gone(a) \ DOMAIN stack[a].secrets
  /\ tokens' = Without(tokens, stack[a].children[c].id)
  /\ stack' = [stack EXCEPT ![a].children = Without(@, c)]
  /\ UNCHANGED <<outside, minted, store, up, edits, ups, failures, clean, owed>>

Delete(a, id) ==
  /\ \/ Sweeping(a) /\ id \in up[a].old
     \/ up[a].pc = "run" /\ id \in stack[a].doomed
  /\ tokens' = Without(tokens, id)
  /\ stack' = [stack EXCEPT ![a].doomed = @ \ {id}]
  /\ up' = [up EXCEPT ![a].old = @ \ {id}]
  /\ UNCHANGED <<outside, minted, store, edits, ups, failures, clean, owed>>

Done(a) ==
  /\ Sweeping(a) /\ Gone(a) = {} /\ up[a].old = {} /\ stack[a].doomed = {}
  /\ up' = [up EXCEPT ![a] = Idle]
  /\ clean' = IF up[a].want = Configs(a) THEN clean \cup {a} ELSE clean
  /\ UNCHANGED <<outside, tokens, minted, store, stack, edits, ups, failures, owed>>

Next == \E a \in Accounts :
  \/ EditAny(a)
  \/ \E unknown \in {{}} \cup {{c} : c \in Declared(a)} : Begin(a, unknown)
  \/ Fails(a)
  \/ \E c \in Children, saved \in BOOLEAN :
       Create(a, c, saved) \/ Update(a, c, saved) \/ Put(a, c, saved)
  \/ \E c \in Children : DropSecret(a, c) \/ DropChild(a, c)
  \/ \E id \in 1 .. MaxIds : Delete(a, id)
  \/ Done(a)

Spec == Init /\ [][Next]_vars

-----------------------------------------------------------------------------
(* What a consumer gets. *)

\* Mutant: the account id is not compared.
ParseAny(data, want) == TRUE

\* ParseChild: the account id stored with the token is the registry's own.
ParseChild(data, want) == data.account = want

-----------------------------------------------------------------------------
(* Properties. *)

TypeOK ==
  /\ DOMAIN tokens \subseteq 1 .. Len(minted)
  /\ \A k \in DOMAIN store : store[k].id \in 1 .. Len(minted)
  /\ \A a \in Accounts : DOMAIN stack[a].secrets \subseteq DOMAIN stack[a].children

Known(a, c) == stack[a].children[c].id

\* Rotation breaks no consumer: the store never names a token that Cloudflare has
\* deleted, at any moment of any update, except where an earlier update failed
\* between minting a child and recording its secret.  (NewChildToken replaces a token
\* without deleting it first, and Deploy passes each secret its child's output.)
StoredAlive ==
  \A k \in DOMAIN store :
    store[k].id \in DOMAIN tokens \/ k[2] \in owed[store[k].account]

\* "A stale or misrouted child can never be mistaken for the right one": what a
\* consumer accepts is the child it asked for, of its own account, even where
\* two roots write to one place (ParseChild, Inputs.put).
ReadIsOwn ==
  \A a \in Accounts, c \in Children :
    LET k == <<place[a], c>> IN
      k \in DOMAIN store /\ ParseChild(store[k], a)
        => /\ minted[store[k].id][1] = a /\ minted[store[k].id][2] = c

\* After an update that succeeded every declared child is there, minted under its
\* current rotation label, and its secret names it; no other token that the
\* stack made is left, whatever failed before (Deploy, NewChildToken).
Settled ==
  \A a \in clean :
    /\ DOMAIN stack[a].children = Declared(a)
    /\ \A c \in Declared(a) :
         /\ Known(a, c) \in DOMAIN tokens
         /\ minted[Known(a, c)][3] = inputs[a].rotation[c[1]]
         /\ (\A b \in Accounts \ {a} : place[b] # place[a])
              => store[<<place[a], c>>] = [id |-> Known(a, c), account |-> a]

\* What a child may do after such an update: nothing outside its account; on a
\* zone kept for its security.txt only edge, and only to write zone settings; no
\* WAF but on the named zone.  And edge may write DNS on every managed zone.
ReachesItsZones ==
  \A a \in clean : \A c \in Declared(a) :
    /\ \A g \in tokens[Known(a, c)] :
         IF g[2][1] = "zone"
         THEN LET z == g[2][2] IN
              /\ zone[z].account = a
              /\ zone[z].txt => c[1] = "edge" /\ g[1] = "Zone Settings Write"
              /\ g[1] = "Zone WAF Write" => z \in inputs[a].waf
         ELSE g[2][2] = a
    /\ c[1] = "edge" => \A z \in Zones :
         zone[z] = [account |-> a, txt |-> FALSE]
           => <<"DNS Write", ZoneKey(z)>> \in tokens[Known(a, c)]
=============================================================================
