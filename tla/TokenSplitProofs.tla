------------------------- MODULE TokenSplitProofs -------------------------
(***************************************************************************)
(* Proofs about TokenSplit, for every set of accounts, zones, buckets and  *)
(* labels, every registry to start from and any number of updates, edits   *)
(* and failures.  Every token belongs to one child of one account (Own),   *)
(* so an update disturbs no other account; within its own, what it deletes *)
(* is never what a recorded secret holds (Alive), save where a failed      *)
(* update left a child owed its secret.                                    *)
(***************************************************************************)
EXTENDS TokenSplit, TLAPS

\* Token i was minted for child c of account a.
Own(m, a, c, i) == i \in DOMAIN m /\ m[i][1] = a /\ m[i][2] = c

\* The tokens a's stack knows are its own, under the label it recorded, and the
\* children's are none of those to be deleted.
Knows(a, st, u, m) ==
  /\ DOMAIN st.children \subseteq Children
  /\ DOMAIN st.secrets \subseteq DOMAIN st.children
  /\ \A c \in DOMAIN st.children :
       LET i == st.children[c].id
       IN  Own(m, a, c, i) /\ m[i][3] = st.children[c].label
           /\ i \notin st.doomed /\ i \notin u.old
  /\ \A c \in DOMAIN st.secrets : Own(m, a, c, st.secrets[c])
  /\ \A i \in st.doomed \cup u.old : i \in DOMAIN m /\ m[i][1] = a

\* Every child has its token, and what a secret holds is there, and stays there
\* until it is put again, unless the child is owed its secret.
Alive(st, u, ow, tk) ==
  /\ \A c \in DOMAIN st.children : st.children[c].id \in DOMAIN tk
  /\ \A c \in DOMAIN st.secrets \ ow :
       /\ st.secrets[c] \in DOMAIN tk
       /\ st.secrets[c] \notin st.doomed
       /\ st.secrets[c] \in u.old => c \in u.put \/ ~u.ok
  /\ \A c \in DOMAIN st.secrets \cap ow : st.secrets[c] # st.children[c].id

\* What an update has brought about so far.
Progress(st, u, ow, tk) ==
  /\ u.mint \cup u.put \subseteq DOMAIN u.want
  /\ DOMAIN u.want \subseteq Children
  /\ \A c \in DOMAIN u.want : u.want[c].label \in Labels
  /\ u.put \ u.mint \subseteq DOMAIN st.children
  /\ u.ok =>
       /\ u.mint \subseteq u.put
       /\ \A c \in DOMAIN u.want \ u.mint :
            /\ c \in DOMAIN st.children
            /\ st.children[c].label = u.want[c].label
            /\ tk[st.children[c].id] = u.want[c].grants
       /\ \A c \in DOMAIN u.want \ u.put :
            c \in DOMAIN st.secrets \ ow /\ st.secrets[c] = st.children[c].id

Sound(a, st, u, ow, m, tk) ==
  Knows(a, st, u, m) /\ Alive(st, u, ow, tk) /\ Progress(st, u, ow, tk)

\* A secret in the store is where its account puts it, holds the account's own
\* token and, if none is owed, the one the stack recorded.
Stored(k) ==
  LET a == store[k].account
      c == k[2]
  IN  /\ a \in Accounts /\ k = <<place[a], c>> /\ Own(minted, a, c, store[k].id)
      /\ c \notin owed[a] =>
           c \in DOMAIN stack[a].secrets /\ stack[a].secrets[c] = store[k].id

\* Where nobody else writes, a recorded secret is in the store.
Alone(a) == \A b \in Accounts \ {a} : place[b] # place[a]

Kept(a) ==
  Alone(a) => \A c \in DOMAIN stack[a].secrets \ owed[a] :
    /\ <<place[a], c>> \in DOMAIN store
    /\ store[<<place[a], c>>] = [id |-> stack[a].secrets[c], account |-> a]

StoreInv ==
  /\ \A k \in DOMAIN store : Stored(k)
  /\ \A a \in Accounts : Kept(a)

\* An account whose last update succeeded, nothing having been edited since.
Clean(a, st, ow, tk) ==
  /\ DOMAIN st.children = Declared(a)
  /\ \A c \in Declared(a) :
       /\ st.children[c].label = Configs(a)[c].label
       /\ tk[st.children[c].id] = Configs(a)[c].grants
       /\ c \in DOMAIN st.secrets \ ow /\ st.secrets[c] = st.children[c].id

CleanInv ==
  clean \subseteq Accounts /\
  \A a \in clean : up[a].pc = "idle" /\ Clean(a, stack[a], owed[a], tokens)

Shapes ==
  /\ inputs \in [Accounts -> [buckets : SUBSET Buckets, rotation : [Kinds -> Labels],
                              waf : SUBSET Zones, admin : BOOLEAN]]
  /\ minted \in Seq(Accounts \X Children \X Labels)
  /\ DOMAIN tokens \subseteq DOMAIN minted
  /\ DOMAIN stack = Accounts /\ DOMAIN up = Accounts /\ DOMAIN owed = Accounts
  /\ \A a \in Accounts :
       /\ DOMAIN stack[a] = {"children", "secrets", "doomed"}
       /\ DOMAIN up[a] = {"pc", "want", "mint", "put", "ok", "old"}
       /\ up[a].pc \in {"idle", "run"} /\ up[a].ok \in BOOLEAN

IndInv ==
  /\ Shapes /\ StoreInv /\ CleanInv
  /\ \A a \in Accounts : Sound(a, stack[a], up[a], owed[a], minted, tokens)

-----------------------------------------------------------------------------
(* What a step may do to a stack that is sound. *)

(* What is sound of an account stays so when tokens are minted, and those  *)
(* of other accounts change.                                               *)
LEMMA SoundFrame ==
  ASSUME NEW a, NEW st, NEW u, NEW ow, NEW m, NEW tk, NEW n, NEW tl,
         Sound(a, st, u, ow, m, tk),
         \A i \in DOMAIN m : i \in DOMAIN n /\ n[i] = m[i],
         \A i \in DOMAIN tk : m[i][1] = a => i \in DOMAIN tl /\ (u.ok => tl[i] = tk[i])
  PROVE  Sound(a, st, u, ow, n, tl)
<1>1. Knows(a, st, u, n)
  BY DEF Sound, Knows, Own
<1>2. Alive(st, u, ow, tl)
  BY DEF Sound, Knows, Own, Alive
<1>3. Progress(st, u, ow, tl)
  BY DEF Sound, Knows, Own, Alive, Progress
<1> QED BY <1>1, <1>2, <1>3 DEF Sound

(* An update that stops leaves its account sound: what it replaced is      *)
(* doomed, and a child whose secret is not the recorded one is owed it.    *)
LEMMA StopSound ==
  ASSUME NEW a, NEW st, NEW u, NEW ow, NEW m, NEW tk, NEW sp, NEW owes,
         Sound(a, st, u, ow, m, tk),
         sp.children = st.children, sp.secrets = st.secrets,
         sp.doomed = st.doomed \cup u.old,
         owes = ow \cup {c \in DOMAIN sp.children :
                  c \notin DOMAIN sp.secrets \/ sp.secrets[c] # sp.children[c].id}
  PROVE  Sound(a, sp, Idle, owes, m, tk)
<1>1. /\ Idle.old = {} /\ Idle.mint = {} /\ Idle.put = {} /\ Idle.ok = FALSE
      /\ DOMAIN Idle.want = {}
  BY DEF Idle
<1>2. Knows(a, sp, Idle, m)
  BY <1>1 DEF Sound, Knows
<1>3. Alive(sp, Idle, owes, tk)
  BY <1>1 DEF Sound, Knows, Alive
<1>4. Progress(sp, Idle, owes, tk)
  BY <1>1 DEF Progress
<1> QED BY <1>2, <1>3, <1>4 DEF Sound

(* Minting: the new token takes the place of the child's, which is deleted *)
(* in the end; no secret that stays holds that one.                        *)
LEMMA CreateSound ==
  ASSUME NEW a, NEW c \in Children, NEW st, NEW u, NEW ow, NEW m, NEW tk,
         NEW id, NEW sp, NEW v,
         Sound(a, st, u, ow, m, tk), c \in u.mint,
         Own(m, a, c, id), m[id][3] = u.want[c].label,
         id \in DOMAIN tk, tk[id] = u.want[c].grants,
         id \notin st.doomed, id \notin u.old,
         \A d \in DOMAIN st.secrets : st.secrets[d] # id,
         \A d \in DOMAIN st.children : st.children[d].id # id,
         DOMAIN sp.children = {c} \cup DOMAIN st.children,
         sp.children[c].id = id, sp.children[c].label = u.want[c].label,
         \A d \in DOMAIN st.children \ {c} : sp.children[d] = st.children[d],
         sp.secrets = st.secrets, sp.doomed = st.doomed,
         v.want = u.want, v.put = u.put, v.ok = u.ok, v.mint = u.mint \ {c},
         v.old = IF c \in DOMAIN st.children THEN u.old \cup {st.children[c].id} ELSE u.old
  PROVE  Sound(a, sp, v, ow, m, tk)
<1>1. Knows(a, st, u, m) /\ Alive(st, u, ow, tk) /\ Progress(st, u, ow, tk)
  BY DEF Sound
<1>2. c \in DOMAIN st.children => Own(m, a, c, st.children[c].id)
  BY <1>1 DEF Knows
<1>3. \A d \in DOMAIN st.children \ {c} :
        c \in DOMAIN st.children => st.children[d].id # st.children[c].id
  BY <1>1 DEF Knows, Own
<1>4. \A d \in DOMAIN st.secrets \ {c} :
        c \in DOMAIN st.children => st.secrets[d] # st.children[c].id
  BY <1>1 DEF Knows, Own
<1>5. Knows(a, sp, v, m)
  <2>1. DOMAIN sp.children \subseteq Children /\ DOMAIN sp.secrets \subseteq DOMAIN sp.children
    BY <1>1 DEF Knows
  <2>2. ASSUME NEW d \in DOMAIN sp.children
        PROVE  /\ Own(m, a, d, sp.children[d].id)
               /\ m[sp.children[d].id][3] = sp.children[d].label
               /\ sp.children[d].id \notin sp.doomed /\ sp.children[d].id \notin v.old
    <3>1. CASE d = c
      BY <3>1
    <3>2. CASE d # c
      BY <1>1, <1>3, <3>2 DEF Knows
    <3> QED BY <3>1, <3>2
  <2>3. /\ \A d \in DOMAIN sp.secrets : Own(m, a, d, sp.secrets[d])
        /\ \A i \in sp.doomed \cup v.old : i \in DOMAIN m /\ m[i][1] = a
    BY <1>1, <1>2 DEF Knows, Own
  <2> QED BY <2>1, <2>2, <2>3 DEF Knows
<1>6. Alive(sp, v, ow, tk)
  <2>1. \A d \in DOMAIN sp.children : sp.children[d].id \in DOMAIN tk
    BY <1>1 DEF Alive
  <2>2. ASSUME NEW d \in DOMAIN sp.secrets \ ow
        PROVE  /\ sp.secrets[d] \in DOMAIN tk /\ sp.secrets[d] \notin sp.doomed
               /\ sp.secrets[d] \in v.old => d \in v.put \/ ~v.ok
    BY <1>1, <1>4 DEF Alive, Progress
  <2>3. \A d \in DOMAIN sp.secrets \cap ow : sp.secrets[d] # sp.children[d].id
    BY <1>1 DEF Alive, Knows
  <2> QED BY <2>1, <2>2, <2>3 DEF Alive
<1>7. Progress(sp, v, ow, tk)
  BY <1>1 DEF Progress, Knows
<1> QED BY <1>5, <1>6, <1>7 DEF Sound

(* Updating a token in place: no other child has it.                       *)
LEMMA UpdateSound ==
  ASSUME NEW a, NEW c, NEW st, NEW u, NEW ow, NEW m, NEW tk, NEW tl, NEW sp, NEW v,
         Sound(a, st, u, ow, m, tk), c \in u.mint, c \in DOMAIN st.children,
         st.children[c].label = u.want[c].label,
         DOMAIN tl = DOMAIN tk, tl[st.children[c].id] = u.want[c].grants,
         \A i \in DOMAIN tk : i # st.children[c].id => tl[i] = tk[i],
         DOMAIN sp.children = DOMAIN st.children,
         sp.children[c].id = st.children[c].id, sp.children[c].label = u.want[c].label,
         \A d \in DOMAIN st.children \ {c} : sp.children[d] = st.children[d],
         sp.secrets = st.secrets, sp.doomed = st.doomed,
         v.want = u.want, v.put = u.put, v.ok = u.ok, v.mint = u.mint \ {c}, v.old = u.old
  PROVE  Sound(a, sp, v, ow, m, tl)
<1>1. Knows(a, st, u, m) /\ Alive(st, u, ow, tk) /\ Progress(st, u, ow, tk)
  BY DEF Sound
<1>2. \A d \in DOMAIN st.children :
        /\ sp.children[d].id = st.children[d].id
        /\ sp.children[d].label = st.children[d].label
  OBVIOUS
<1>3. \A d \in DOMAIN st.children \ {c} : st.children[d].id # st.children[c].id
  BY <1>1 DEF Knows, Own
<1>4. Knows(a, sp, v, m)
  BY <1>1, <1>2 DEF Knows
<1>5. Alive(sp, v, ow, tl)
  BY <1>1, <1>2 DEF Alive, Knows
<1>6. Progress(sp, v, ow, tl)
  <2>1. \A d \in DOMAIN st.children \ {c} : tl[sp.children[d].id] = tk[st.children[d].id]
    BY <1>1, <1>2, <1>3 DEF Alive
  <2>2. tl[sp.children[c].id] = u.want[c].grants
    BY <1>2
  <2>3. ASSUME v.ok, NEW d \in DOMAIN v.want \ v.mint
        PROVE  /\ d \in DOMAIN sp.children
               /\ sp.children[d].label = v.want[d].label
               /\ tl[sp.children[d].id] = v.want[d].grants
    <3>1. CASE d = c
      BY <2>2, <3>1
    <3>2. CASE d # c
      <4>1. /\ d \in DOMAIN st.children \ {c} /\ st.children[d].label = u.want[d].label
            /\ tk[st.children[d].id] = u.want[d].grants
        BY <1>1, <2>3, <3>2 DEF Progress
      <4> QED BY <2>1, <4>1
    <3> QED BY <3>1, <3>2
  <2>4. ASSUME v.ok, NEW d \in DOMAIN v.want \ v.put
        PROVE  d \in DOMAIN sp.secrets \ ow /\ sp.secrets[d] = sp.children[d].id
    <3>1. /\ d \in DOMAIN st.secrets \ ow /\ st.secrets[d] = st.children[d].id
          /\ d \in DOMAIN st.children
      BY <1>1, <2>4 DEF Progress, Knows
    <3> QED BY <1>2, <3>1
  <2>5. /\ v.mint \cup v.put \subseteq DOMAIN v.want /\ DOMAIN v.want \subseteq Children
        /\ \A d \in DOMAIN v.want : v.want[d].label \in Labels
        /\ v.put \ v.mint \subseteq DOMAIN sp.children
        /\ v.ok => v.mint \subseteq v.put
    BY <1>1 DEF Progress
  <2> QED BY ONLY <2>3, <2>4, <2>5 DEF Progress
<1> QED BY <1>4, <1>5, <1>6 DEF Sound

(* A secret recorded: it holds the child's token, and none is owed.        *)
LEMMA PutSound ==
  ASSUME NEW a, NEW c, NEW st, NEW u, NEW ow, NEW m, NEW tk, NEW sp, NEW v, NEW owes,
         Sound(a, st, u, ow, m, tk), c \in u.put \ u.mint,
         DOMAIN sp.secrets = {c} \cup DOMAIN st.secrets,
         sp.secrets[c] = st.children[c].id,
         \A d \in DOMAIN st.secrets \ {c} : sp.secrets[d] = st.secrets[d],
         sp.children = st.children, sp.doomed = st.doomed,
         v.want = u.want, v.put = u.put \ {c}, v.ok = u.ok, v.mint = u.mint, v.old = u.old,
         owes = ow \ {c}
  PROVE  Sound(a, sp, v, owes, m, tk)
<1>1. Knows(a, st, u, m) /\ Alive(st, u, ow, tk) /\ Progress(st, u, ow, tk)
  BY DEF Sound
<1>2. c \in DOMAIN st.children
  BY <1>1 DEF Progress
<1>3. Knows(a, sp, v, m)
  BY <1>1, <1>2 DEF Knows
<1>4. Alive(sp, v, owes, tk)
  <2>1. /\ st.children[c].id \in DOMAIN tk
        /\ st.children[c].id \notin st.doomed /\ st.children[c].id \notin u.old
    BY <1>1, <1>2 DEF Alive, Knows
  <2>2. \A d \in DOMAIN sp.children : sp.children[d].id \in DOMAIN tk
    BY <1>1 DEF Alive
  <2>3. ASSUME NEW d \in DOMAIN sp.secrets \ owes
        PROVE  /\ sp.secrets[d] \in DOMAIN tk /\ sp.secrets[d] \notin sp.doomed
               /\ sp.secrets[d] \in v.old => d \in v.put \/ ~v.ok
    <3>1. CASE d = c
      BY <2>1, <3>1
    <3>2. CASE d # c
      BY <1>1, <3>2 DEF Alive
    <3> QED BY <3>1, <3>2
  <2>4. \A d \in DOMAIN sp.secrets \cap owes : sp.secrets[d] # sp.children[d].id
    BY <1>1 DEF Alive
  <2> QED BY <2>2, <2>3, <2>4 DEF Alive
<1>5. Progress(sp, v, owes, tk)
  BY <1>1, <1>2 DEF Progress
<1> QED BY <1>3, <1>4, <1>5 DEF Sound

(* What is left over goes: the secret of a child no longer wanted,         *)
LEMMA DropSecretSound ==
  ASSUME NEW a, NEW c, NEW st, NEW u, NEW ow, NEW m, NEW tk, NEW sp,
         Sound(a, st, u, ow, m, tk), c \notin DOMAIN u.want,
         DOMAIN sp.secrets = DOMAIN st.secrets \ {c},
         \A d \in DOMAIN st.secrets \ {c} : sp.secrets[d] = st.secrets[d],
         sp.children = st.children, sp.doomed = st.doomed
  PROVE  Sound(a, sp, u, ow, m, tk)
<1>1. Knows(a, st, u, m) /\ Alive(st, u, ow, tk) /\ Progress(st, u, ow, tk)
  BY DEF Sound
<1>2. Knows(a, sp, u, m) /\ Alive(sp, u, ow, tk)
  BY <1>1 DEF Knows, Alive
<1>3. Progress(sp, u, ow, tk)
  BY <1>1 DEF Progress
<1> QED BY <1>2, <1>3 DEF Sound

(* then its token, which no other child has and no secret holds,           *)
LEMMA DropChildSound ==
  ASSUME NEW a, NEW c, NEW st, NEW u, NEW ow, NEW m, NEW tk, NEW tl, NEW sp,
         Sound(a, st, u, ow, m, tk), c \notin DOMAIN u.want,
         c \in DOMAIN st.children \ DOMAIN st.secrets,
         DOMAIN tl = DOMAIN tk \ {st.children[c].id},
         \A i \in DOMAIN tl : tl[i] = tk[i],
         DOMAIN sp.children = DOMAIN st.children \ {c},
         \A d \in DOMAIN st.children \ {c} : sp.children[d] = st.children[d],
         sp.secrets = st.secrets, sp.doomed = st.doomed
  PROVE  Sound(a, sp, u, ow, m, tl)
<1>1. Knows(a, st, u, m) /\ Alive(st, u, ow, tk) /\ Progress(st, u, ow, tk)
  BY DEF Sound
<1>2. /\ \A d \in DOMAIN st.children \ {c} : st.children[d].id # st.children[c].id
      /\ \A d \in DOMAIN st.secrets : st.secrets[d] # st.children[c].id
  BY <1>1 DEF Knows, Own
<1>3. Knows(a, sp, u, m)
  BY <1>1 DEF Knows
<1>4. Alive(sp, u, ow, tl)
  BY <1>1, <1>2 DEF Alive, Knows
<1>5. Progress(sp, u, ow, tl)
  <2>1. \A d \in DOMAIN sp.children :
          sp.children[d] = st.children[d] /\ tl[sp.children[d].id] = tk[st.children[d].id]
    BY <1>1, <1>2 DEF Alive
  <2>2. u.put \ u.mint \subseteq DOMAIN sp.children
    BY <1>1 DEF Progress
  <2> QED BY <1>1, <2>1, <2>2 DEF Progress
<1> QED BY <1>3, <1>4, <1>5 DEF Sound

(* and the tokens replaced, which by then no recorded secret holds.        *)
LEMMA DeleteSound ==
  ASSUME NEW a, NEW id, NEW st, NEW u, NEW ow, NEW m, NEW tk, NEW tl, NEW sp, NEW v,
         Sound(a, st, u, ow, m, tk),
         id \in st.doomed \/ (id \in u.old /\ u.ok /\ u.put = {}),
         DOMAIN tl = DOMAIN tk \ {id}, \A i \in DOMAIN tl : tl[i] = tk[i],
         sp.children = st.children, sp.secrets = st.secrets, sp.doomed = st.doomed \ {id},
         v.want = u.want, v.put = u.put, v.ok = u.ok, v.mint = u.mint, v.old = u.old \ {id}
  PROVE  Sound(a, sp, v, ow, m, tl)
<1>1. Knows(a, st, u, m) /\ Alive(st, u, ow, tk) /\ Progress(st, u, ow, tk)
  BY DEF Sound
<1>2. /\ \A d \in DOMAIN st.children : st.children[d].id # id
      /\ \A d \in DOMAIN st.secrets \ ow : st.secrets[d] # id
  BY <1>1 DEF Knows, Alive
<1>3. Knows(a, sp, v, m)
  BY <1>1 DEF Knows
<1>4. Alive(sp, v, ow, tl)
  BY <1>1, <1>2 DEF Alive
<1>5. Progress(sp, v, ow, tl)
  <2>1. \A d \in DOMAIN st.children : tl[st.children[d].id] = tk[st.children[d].id]
    BY <1>1, <1>2 DEF Alive
  <2> QED BY <1>1, <2>1 DEF Progress
<1> QED BY <1>3, <1>4, <1>5 DEF Sound

(* The configurations depend on nothing an update changes.                 *)
LEMMA SameConfigs ==
  ASSUME NEW a, zone' = zone, inputs'[a] = inputs[a]
  PROVE  Declared(a)' = Declared(a) /\ Configs(a)' = Configs(a)
<1>1. Declared(a)' = Declared(a)
  BY DEF Declared
<1>2. MatchingZones(a)' = MatchingZones(a) /\ SecurityTxtZones(a)' = SecurityTxtZones(a)
  BY DEF MatchingZones, SecurityTxtZones
<1>3. \A c : Policies(a, c)' = Policies(a, c)
  BY <1>2 DEF Policies
<1> QED BY <1>1, <1>3 DEF Configs

(* The store as it was is sound after a step that records no other secret. *)
LEMMA StoreFrame ==
  ASSUME IndInv, store' = store, place' = place,
         \A i \in DOMAIN minted : i \in DOMAIN minted' /\ minted'[i] = minted[i],
         \A b \in Accounts : stack'[b].secrets = stack[b].secrets /\ owed[b] \subseteq owed'[b]
  PROVE  StoreInv'
<1>1. ASSUME NEW k \in DOMAIN store PROVE Stored(k)'
  BY DEF IndInv, StoreInv, Stored, Own
<1>2. ASSUME NEW a \in Accounts PROVE Kept(a)'
  BY DEF IndInv, StoreInv, Kept, Alone
<1> QED BY <1>1, <1>2 DEF StoreInv

(* What is to be shown of a step of the update of one account.             *)
LEMMA AccountMoves ==
  ASSUME IndInv, NEW a \in Accounts, up[a].pc = "run",
         UNCHANGED outside, clean' = clean,
         DOMAIN stack' = Accounts, DOMAIN up' = Accounts, DOMAIN owed' = Accounts,
         DOMAIN stack'[a] = {"children", "secrets", "doomed"},
         DOMAIN up'[a] = {"pc", "want", "mint", "put", "ok", "old"},
         up'[a].pc \in {"idle", "run"}, up'[a].ok \in BOOLEAN,
         \A b \in Accounts \ {a} :
           stack'[b] = stack[b] /\ up'[b] = up[b] /\ owed'[b] = owed[b],
         minted' \in Seq(Accounts \X Children \X Labels),
         DOMAIN tokens' \subseteq DOMAIN minted',
         \A i \in DOMAIN minted : i \in DOMAIN minted' /\ minted'[i] = minted[i],
         \A i \in DOMAIN tokens :
           minted[i][1] # a => i \in DOMAIN tokens' /\ tokens'[i] = tokens[i],
         Sound(a, stack'[a], up'[a], owed'[a], minted', tokens'),
         StoreInv'
  PROVE  IndInv'
<1>1. Shapes'
  BY DEF IndInv, Shapes, outside
<1>2. ASSUME NEW b \in Accounts
      PROVE  Sound(b, stack'[b], up'[b], owed'[b], minted', tokens')
  <2>1. CASE b = a
    BY <2>1
  <2>2. CASE b # a
    <3>1. Sound(b, stack[b], up[b], owed[b], minted, tokens)
      BY DEF IndInv
    <3>2. Sound(b, stack[b], up[b], owed[b], minted', tokens')
      BY <2>2, <3>1, SoundFrame
    <3> QED BY <2>2, <3>2
  <2> QED BY <2>1, <2>2
<1>3. CleanInv'
  <2> SUFFICES ASSUME NEW b \in clean
               PROVE  up'[b].pc = "idle" /\ Clean(b, stack[b], owed[b], tokens)'
    BY DEF IndInv, CleanInv
  <2>1. b \in Accounts /\ b # a /\ up[b].pc = "idle" /\ Clean(b, stack[b], owed[b], tokens)
    BY DEF IndInv, CleanInv
  <2>2. Declared(b)' = Declared(b) /\ Configs(b)' = Configs(b)
    BY SameConfigs DEF outside
  <2>3. \A c \in Declared(b) : tokens'[stack[b].children[c].id] = tokens[stack[b].children[c].id]
    <3>1. \A c \in Declared(b) : /\ Own(minted, b, c, stack[b].children[c].id)
                                  /\ stack[b].children[c].id \in DOMAIN tokens
      BY <2>1 DEF IndInv, Sound, Knows, Alive, Clean
    <3> QED BY <2>1, <3>1 DEF Own
  <2>4. stack'[b] = stack[b] /\ owed'[b] = owed[b] /\ up'[b] = up[b]
    BY <2>1
  <2> QED BY <2>1, <2>2, <2>3, <2>4 DEF Clean
<1> QED BY <1>1, <1>2, <1>3 DEF IndInv

-----------------------------------------------------------------------------
(* The inductive invariant, one action at a time. *)

LEMMA InitInv == Init => IndInv
<1> SUFFICES ASSUME Init PROVE IndInv
  OBVIOUS
<1>1. PICK start \in Starts :
        inputs = [a \in Accounts |->
          [buckets |-> start.buckets[a],
           rotation |-> [k \in Kinds |-> CHOOSE l \in Labels : l \notin BadLabels],
           waf |-> {}, admin |-> FALSE]]
  BY DEF Init
<1>2. /\ tokens = <<>> /\ minted = <<>> /\ store = <<>> /\ clean = {}
      /\ stack = [a \in Accounts |-> [children |-> <<>>, secrets |-> <<>>, doomed |-> {}]]
      /\ up = [a \in Accounts |-> Idle] /\ owed = [a \in Accounts |-> {}]
  BY DEF Init
<1>3. /\ DOMAIN tokens = {} /\ DOMAIN store = {}
      /\ \A a \in Accounts :
           /\ stack[a] = [children |-> <<>>, secrets |-> <<>>, doomed |-> {}]
           /\ DOMAIN stack[a].children = {} /\ DOMAIN stack[a].secrets = {}
           /\ stack[a].doomed = {}
           /\ up[a] = Idle /\ owed[a] = {}
           /\ DOMAIN stack[a] = {"children", "secrets", "doomed"}
  BY <1>2
<1>4. /\ Idle.old = {} /\ Idle.mint = {} /\ Idle.put = {} /\ Idle.ok = FALSE
      /\ DOMAIN Idle.want = {} /\ Idle.pc = "idle"
      /\ DOMAIN Idle = {"pc", "want", "mint", "put", "ok", "old"}
  BY DEF Idle
<1>5. Shapes
  <2>1. (CHOOSE l \in Labels : l \notin BadLabels) \in Labels
    BY StartsAssumption
  <2>2. inputs \in [Accounts -> [buckets : SUBSET Buckets, rotation : [Kinds -> Labels],
                                 waf : SUBSET Zones, admin : BOOLEAN]]
    BY <1>1, <2>1, StartsAssumption
  <2>3. minted \in Seq(Accounts \X Children \X Labels)
    BY <1>2
  <2>4. /\ DOMAIN stack = Accounts /\ DOMAIN up = Accounts /\ DOMAIN owed = Accounts
        /\ DOMAIN tokens \subseteq DOMAIN minted
    BY <1>2
  <2>5. \A a \in Accounts :
          /\ DOMAIN stack[a] = {"children", "secrets", "doomed"}
          /\ DOMAIN up[a] = {"pc", "want", "mint", "put", "ok", "old"}
          /\ up[a].pc \in {"idle", "run"} /\ up[a].ok \in BOOLEAN
    BY <1>3, <1>4
  <2> QED BY <2>2, <2>3, <2>4, <2>5 DEF Shapes
<1>6. StoreInv /\ CleanInv
  BY <1>2, <1>3 DEF StoreInv, Kept, CleanInv
<1>7. ASSUME NEW a \in Accounts PROVE Sound(a, stack[a], up[a], owed[a], minted, tokens)
  BY <1>3, <1>4 DEF Sound, Knows, Alive, Progress
<1> QED BY <1>5, <1>6, <1>7 DEF IndInv

(* The registry or the inputs are edited: nobody is clean any more whose   *)
(* configuration that may change.                                          *)
LEMMA EditInv ==
  ASSUME IndInv, NEW a \in Accounts, EditAny(a)
  PROVE  IndInv'
<1>1. UNCHANGED <<place, tokens, minted, store, stack, up, owed>>
  BY DEF EditAny, EditZone, EditInputs, Edit
<1>2. ASSUME inputs' \in [Accounts -> [buckets : SUBSET Buckets, rotation : [Kinds -> Labels],
                                       waf : SUBSET Zones, admin : BOOLEAN]],
             clean' \subseteq clean,
             \A b \in clean' : zone' = zone /\ inputs'[b] = inputs[b]
      PROVE  IndInv'
  <2>1. Shapes'
    BY <1>1, <1>2 DEF IndInv, Shapes
  <2>2. StoreInv'
    BY <1>1, StoreFrame DEF IndInv
  <2>3. CleanInv'
    <3> SUFFICES ASSUME NEW b \in clean'
                 PROVE  up'[b].pc = "idle" /\ Clean(b, stack[b], owed[b], tokens)'
      BY <1>2 DEF IndInv, CleanInv
    <3>1. Declared(b)' = Declared(b) /\ Configs(b)' = Configs(b)
      BY <1>2, SameConfigs
    <3>2. up[b].pc = "idle" /\ Clean(b, stack[b], owed[b], tokens)
      BY <1>2 DEF IndInv, CleanInv
    <3> QED BY <1>1, <3>1, <3>2 DEF Clean
  <2> QED BY <1>1, <2>1, <2>2, <2>3 DEF IndInv
<1>3. ASSUME NEW z \in Zones, NEW txt \in BOOLEAN,
             EditZone(z, [account |-> a, txt |-> txt])
      PROVE  IndInv'
  BY <1>2, <1>3 DEF EditZone, IndInv, Shapes
<1>4. ASSUME NEW new \in [buckets : SUBSET Buckets, rotation : [Kinds -> Labels],
                          waf : SUBSET Zones, admin : BOOLEAN],
             EditInputs(a, new)
      PROVE  IndInv'
  BY <1>2, <1>4 DEF EditInputs, IndInv, Shapes, CleanInv
<1>5. inputs[a] \in [buckets : SUBSET Buckets, rotation : [Kinds -> Labels],
                     waf : SUBSET Zones, admin : BOOLEAN]
  BY DEF IndInv, Shapes
<1>6. ASSUME NEW c \in Declared(a), NEW l \in Labels,
             EditInputs(a, [inputs[a] EXCEPT !.rotation[c[1]] = l])
      PROVE  IndInv'
  BY <1>4, <1>5, <1>6
<1>7. ASSUME NEW bs \in SUBSET Buckets, EditInputs(a, [inputs[a] EXCEPT !.buckets = bs])
      PROVE  IndInv'
  BY <1>4, <1>5, <1>7
<1>8. ASSUME NEW z \in Zones, EditInputs(a, [inputs[a] EXCEPT !.waf = {z}])
      PROVE  IndInv'
  BY <1>4, <1>5, <1>8
<1>9. ASSUME NEW admin \in BOOLEAN, EditInputs(a, [inputs[a] EXCEPT !.admin = admin])
      PROVE  IndInv'
  BY <1>4, <1>5, <1>9
<1> QED BY <1>3, <1>6, <1>7, <1>8, <1>9 DEF EditAny

(* An update begins: it has brought nothing about yet.                     *)
LEMMA BeginInv ==
  ASSUME IndInv, NEW a \in Accounts, NEW unknown, Begin(a, unknown)
  PROVE  IndInv'
<1> DEFINE cfgs  == Configs(a)
           fails == {c \in Declared(a) : ~Registers(cfgs[c], c, unknown)}
           reg   == {c \in Declared(a) : \A d \in fails : Before(c, d)}
           ok    == fails = {}
           u     == [pc |-> "run", want |-> cfgs, mint |-> reg, ok |-> ok, old |-> {},
                     put |-> IF ok THEN reg ELSE {}]
<1>1. /\ up' = [up EXCEPT ![a] = u] /\ clean' = clean \ {a}
      /\ UNCHANGED <<outside, tokens, minted, store, stack, owed>>
  BY DEF Begin
<1>2. /\ u.pc = "run" /\ u.want = cfgs /\ u.mint = reg /\ u.old = {} /\ u.ok = ok
      /\ u.put = (IF ok THEN reg ELSE {}) /\ u.ok \in BOOLEAN
      /\ DOMAIN u = {"pc", "want", "mint", "put", "ok", "old"}
  OBVIOUS
<1>3. /\ DOMAIN cfgs = Declared(a) /\ reg \subseteq Declared(a)
      /\ ok => reg = Declared(a)
      /\ Declared(a) \subseteq Children
  BY DEF Configs, Declared
<1>4. \A c \in Declared(a) : cfgs[c].label \in Labels
  <2>1. \A c \in Children : c[1] \in Kinds
    BY DEF Children, Kinds
  <2> QED BY <1>3, <2>1 DEF Configs, IndInv, Shapes
<1> HIDE DEF u, reg, ok, cfgs
<1>5. Sound(a, stack[a], u, owed[a], minted, tokens)
  <2>1. Sound(a, stack[a], up[a], owed[a], minted, tokens)
    BY DEF IndInv
  <2>2. Knows(a, stack[a], u, minted) /\ Alive(stack[a], u, owed[a], tokens)
    BY <1>2, <2>1 DEF Sound, Knows, Alive
  <2>3. Progress(stack[a], u, owed[a], tokens)
    BY <1>2, <1>3, <1>4 DEF Progress
  <2> QED BY <2>2, <2>3 DEF Sound
<1>6. /\ DOMAIN up' = Accounts /\ up'[a] = u
      /\ \A b \in Accounts \ {a} : up'[b] = up[b]
  BY <1>1 DEF IndInv, Shapes
<1>7. Shapes'
  BY <1>1, <1>2, <1>6 DEF IndInv, Shapes, outside
<1>8. StoreInv'
  BY <1>1, StoreFrame DEF IndInv, outside
<1>9. CleanInv'
  <2> SUFFICES ASSUME NEW b \in clean \ {a}
               PROVE  up'[b].pc = "idle" /\ Clean(b, stack[b], owed[b], tokens)'
    BY <1>1 DEF IndInv, CleanInv
  <2>1. Declared(b)' = Declared(b) /\ Configs(b)' = Configs(b)
    BY <1>1, SameConfigs DEF outside
  <2> QED BY <1>1, <1>6, <2>1 DEF IndInv, CleanInv, Clean
<1> QED BY <1>1, <1>5, <1>6, <1>7, <1>8, <1>9 DEF IndInv

(* What Stop changes.                                                      *)
LEMMA StopFacts ==
  ASSUME IndInv, NEW a \in Accounts, Stop(a)
  PROVE  /\ DOMAIN stack' = Accounts /\ DOMAIN up' = Accounts /\ DOMAIN owed' = Accounts
         /\ DOMAIN stack'[a] = {"children", "secrets", "doomed"}
         /\ stack'[a].children = stack[a].children
         /\ stack'[a].secrets = stack[a].secrets
         /\ owed'[a] = owed[a] \cup
              {c \in DOMAIN stack[a].children :
                 c \notin DOMAIN stack[a].secrets
                   \/ stack[a].secrets[c] # stack[a].children[c].id}
         /\ up'[a] = Idle
         /\ \A b \in Accounts \ {a} :
              stack'[b] = stack[b] /\ up'[b] = up[b] /\ owed'[b] = owed[b]
         /\ Sound(a, stack'[a], Idle, owed'[a], minted, tokens)
<1> DEFINE st == [stack[a] EXCEPT !.doomed = @ \cup up[a].old]
           ow == owed[a] \cup {c \in DOMAIN st.children :
                    c \notin DOMAIN st.secrets \/ st.secrets[c] # st.children[c].id}
<1>1. /\ up' = [up EXCEPT ![a] = Idle] /\ stack' = [stack EXCEPT ![a] = st]
      /\ owed' = [owed EXCEPT ![a] = ow]
  BY DEF Stop
<1>2. /\ DOMAIN st = {"children", "secrets", "doomed"}
      /\ st.children = stack[a].children /\ st.secrets = stack[a].secrets
      /\ st.doomed = stack[a].doomed \cup up[a].old
  BY DEF IndInv, Shapes
<1>3. /\ ow = owed[a] \cup {c \in DOMAIN stack[a].children :
                 c \notin DOMAIN stack[a].secrets
                   \/ stack[a].secrets[c] # stack[a].children[c].id}
  BY <1>2
<1>4. Sound(a, st, Idle, ow, minted, tokens)
  <2>1. Sound(a, stack[a], up[a], owed[a], minted, tokens)
    BY DEF IndInv
  <2> HIDE DEF st
  <2> QED BY <1>2, <2>1, StopSound
<1> HIDE DEF st, ow
<1> QED BY <1>1, <1>2, <1>3, <1>4 DEF IndInv, Shapes

(* An update that stops after it changed tokens of its own.                *)
LEMMA StopInv ==
  ASSUME IndInv, NEW a \in Accounts, up[a].pc = "run", Stop(a),
         UNCHANGED outside, clean' = clean,
         minted' \in Seq(Accounts \X Children \X Labels),
         DOMAIN tokens' \subseteq DOMAIN minted',
         \A i \in DOMAIN minted : i \in DOMAIN minted' /\ minted'[i] = minted[i],
         \A i \in DOMAIN tokens :
           i \in DOMAIN tokens' /\ (minted[i][1] # a => tokens'[i] = tokens[i]),
         store' = store \/ StoreInv'
  PROVE  IndInv'
<1>1. Sound(a, stack'[a], Idle, owed'[a], minted', tokens')
  <2>1. ~Idle.ok
    BY DEF Idle
  <2>2. Sound(a, stack'[a], Idle, owed'[a], minted, tokens)
    BY StopFacts
  <2> QED BY <2>1, <2>2, SoundFrame
<1>2. StoreInv'
  BY StopFacts, StoreFrame DEF outside
<1>3. /\ DOMAIN Idle = {"pc", "want", "mint", "put", "ok", "old"}
      /\ Idle.pc = "idle" /\ Idle.ok \in BOOLEAN
  BY DEF Idle
<1> QED BY <1>1, <1>2, <1>3, StopFacts, AccountMoves

LEMMA FailsInv ==
  ASSUME IndInv, NEW a \in Accounts, Fails(a)
  PROVE  IndInv'
BY StopInv DEF Fails, IndInv, Shapes

(* A token is created; the one it replaces is kept until the end.          *)
LEMMA CreateInv ==
  ASSUME IndInv, NEW a \in Accounts, NEW c \in Children, NEW saved \in BOOLEAN,
         Create(a, c, saved)
  PROVE  IndInv'
<1> DEFINE id  == Len(minted) + 1
           st  == stack[a]
           u   == up[a]
           new == Child(id, u.want[c])
           sp  == [st EXCEPT !.children = With(@, c, new)]
           up1 == [u EXCEPT !.mint = @ \ {c},
                            !.old = IF Has(a, c) THEN @ \cup {st.children[c].id} ELSE @]
<1>1. /\ u.pc = "run" /\ c \in u.mint /\ ~KeepsToken(a, c)
      /\ minted' = Append(minted, <<a, c, u.want[c].label>>)
      /\ tokens' = With(tokens, id, u.want[c].grants)
      /\ Saved(a, saved, sp, up1)
      /\ UNCHANGED <<outside, store, clean>>
  BY DEF Create, Minting, AtReplacement
<1>2. /\ Sound(a, st, u, owed[a], minted, tokens) /\ Shapes
      /\ c \in DOMAIN u.want /\ u.want[c].label \in Labels
  BY <1>1 DEF IndInv, Sound, Progress
<1>3. /\ minted' \in Seq(Accounts \X Children \X Labels)
      /\ DOMAIN minted' = DOMAIN minted \cup {id} /\ id \notin DOMAIN minted
      /\ \A i \in DOMAIN minted : i \in DOMAIN minted' /\ minted'[i] = minted[i]
      /\ minted'[id] = <<a, c, u.want[c].label>>
  <2> DEFINE entry == <<a, c, u.want[c].label>>
  <2>1. entry \in Accounts \X Children \X Labels
    BY <1>2
  <2> HIDE DEF entry
  <2>2. minted \in Seq(Accounts \X Children \X Labels) /\ minted' = Append(minted, entry)
    BY <1>1, <1>2 DEF Shapes, entry
  <2> QED BY <2>1, <2>2 DEF entry
<1>4. /\ DOMAIN tokens' = {id} \cup DOMAIN tokens /\ tokens'[id] = u.want[c].grants
      /\ \A i \in DOMAIN tokens : i \in DOMAIN tokens' /\ tokens'[i] = tokens[i]
      /\ DOMAIN tokens' \subseteq DOMAIN minted'
  <2>1. DOMAIN tokens \subseteq DOMAIN minted
    BY <1>2 DEF Shapes
  <2>2. tokens' = With(tokens, id, u.want[c].grants)
    BY <1>1
  <2> HIDE DEF u
  <2>3. /\ DOMAIN tokens' = {id} \cup DOMAIN tokens /\ tokens'[id] = u.want[c].grants
        /\ \A i \in DOMAIN tokens \ {id} : tokens'[i] = tokens[i]
    BY <2>2 DEF With
  <2> QED BY <1>3, <2>1, <2>3
<1> HIDE DEF id
<1>5. CASE ~saved
  BY <1>1, <1>3, <1>4, <1>5, StopInv DEF Saved
<1>6. CASE saved
  <2>1. stack' = [stack EXCEPT ![a] = sp] /\ up' = [up EXCEPT ![a] = up1] /\ owed' = owed
    BY <1>1, <1>6 DEF Saved
  <2>2. /\ DOMAIN sp = {"children", "secrets", "doomed"}
        /\ sp.children = With(st.children, c, new)
        /\ sp.secrets = st.secrets /\ sp.doomed = st.doomed
        /\ DOMAIN up1 = {"pc", "want", "mint", "put", "ok", "old"}
        /\ up1.pc = u.pc /\ up1.want = u.want /\ up1.put = u.put /\ up1.ok = u.ok
        /\ up1.mint = u.mint \ {c}
        /\ up1.old = (IF Has(a, c) THEN u.old \cup {st.children[c].id} ELSE u.old)
    BY <1>2 DEF Shapes
  <2>3. new.id = id /\ new.label = u.want[c].label
    BY DEF Child
  <2> HIDE DEF sp, up1, new
  <2>4. /\ DOMAIN sp.children = {c} \cup DOMAIN st.children /\ sp.children[c] = new
        /\ \A d \in DOMAIN st.children \ {c} : sp.children[d] = st.children[d]
    BY <2>2 DEF With
  <2>5. Sound(a, st, u, owed[a], minted', tokens')
    BY <1>2, <1>3, <1>4, SoundFrame
  <2>6. /\ id \notin st.doomed /\ id \notin u.old
        /\ \A d \in DOMAIN st.secrets : st.secrets[d] # id
        /\ \A d \in DOMAIN st.children : st.children[d].id # id
    BY <1>2, <1>3 DEF Sound, Knows, Own
  <2>7. Own(minted', a, c, id) /\ minted'[id][3] = u.want[c].label
    BY <1>3 DEF Own
  <2>8. up1.old = IF c \in DOMAIN st.children THEN u.old \cup {st.children[c].id} ELSE u.old
    BY <2>2 DEF Has
  <2> HIDE DEF st, u
  <2>9. c \in u.mint /\ id \in DOMAIN tokens' /\ tokens'[id] = u.want[c].grants
    BY <1>1, <1>4
  <2>10. sp.children[c].id = id /\ sp.children[c].label = u.want[c].label
    BY <2>3, <2>4
  <2>11. /\ DOMAIN sp.children = {c} \cup DOMAIN st.children
         /\ sp.secrets = st.secrets /\ sp.doomed = st.doomed
         /\ up1.want = u.want /\ up1.put = u.put /\ up1.ok = u.ok /\ up1.mint = u.mint \ {c}
    BY <2>2, <2>4
  <2>12. Sound(a, sp, up1, owed[a], minted', tokens')
    BY ONLY <2>4, <2>5, <2>6, <2>7, <2>8, <2>9, <2>10, <2>11, CreateSound, c \in Children
  <2> USE DEF st, u
  <2>13. /\ DOMAIN stack' = Accounts /\ DOMAIN up' = Accounts /\ DOMAIN owed' = Accounts
         /\ stack'[a] = sp /\ up'[a] = up1
         /\ \A b \in Accounts \ {a} : stack'[b] = stack[b] /\ up'[b] = up[b]
    BY <1>2, <2>1 DEF Shapes
  <2>14. StoreInv'
    BY <1>1, <1>3, <2>1, <2>2, <2>13, StoreFrame DEF outside
  <2>15. u.pc \in {"idle", "run"} /\ u.ok \in BOOLEAN
    BY <1>2 DEF Shapes
  <2> QED BY <1>1, <1>3, <1>4, <2>1, <2>2, <2>12, <2>13, <2>14, <2>15, AccountMoves
<1> QED BY <1>5, <1>6

(* A token is updated in place.                                            *)
LEMMA UpdateInv ==
  ASSUME IndInv, NEW a \in Accounts, NEW c \in Children, NEW saved \in BOOLEAN,
         Update(a, c, saved)
  PROVE  IndInv'
<1> DEFINE st  == stack[a]
           u   == up[a]
           id  == st.children[c].id
           new == Child(id, u.want[c])
           sp  == [st EXCEPT !.children[c] = new]
           up1 == [u EXCEPT !.mint = @ \ {c}]
<1>1. /\ u.pc = "run" /\ c \in u.mint /\ c \in DOMAIN st.children
      /\ st.children[c].label = u.want[c].label
      /\ tokens' = [tokens EXCEPT ![id] = u.want[c].grants]
      /\ Saved(a, saved, sp, up1)
      /\ UNCHANGED <<outside, minted, store, clean>>
  BY DEF Update, Minting, KeepsToken, Has
<1>2. /\ Sound(a, st, u, owed[a], minted, tokens) /\ Shapes
      /\ id \in DOMAIN tokens /\ Own(minted, a, c, id)
  BY <1>1 DEF IndInv, Sound, Alive, Knows
<1>3. /\ DOMAIN tokens' = DOMAIN tokens /\ tokens'[id] = u.want[c].grants
      /\ \A i \in DOMAIN tokens : i # id => tokens'[i] = tokens[i]
  BY <1>1, <1>2
<1>4. /\ \A i \in DOMAIN tokens : minted[i][1] # a => tokens'[i] = tokens[i]
      /\ minted' = minted /\ minted' \in Seq(Accounts \X Children \X Labels)
      /\ DOMAIN tokens' \subseteq DOMAIN minted'
  BY <1>1, <1>2, <1>3 DEF Own, Shapes
<1>5. CASE ~saved
  BY <1>1, <1>3, <1>4, <1>5, StopInv DEF Saved
<1>6. CASE saved
  <2>1. stack' = [stack EXCEPT ![a] = sp] /\ up' = [up EXCEPT ![a] = up1] /\ owed' = owed
    BY <1>1, <1>6 DEF Saved
  <2>2. /\ DOMAIN sp = {"children", "secrets", "doomed"}
        /\ sp.children = [st.children EXCEPT ![c] = new]
        /\ sp.secrets = st.secrets /\ sp.doomed = st.doomed
        /\ DOMAIN up1 = {"pc", "want", "mint", "put", "ok", "old"}
        /\ up1.pc = u.pc /\ up1.want = u.want /\ up1.put = u.put /\ up1.ok = u.ok
        /\ up1.mint = u.mint \ {c} /\ up1.old = u.old
    BY <1>2 DEF Shapes
  <2>3. new.id = id /\ new.label = u.want[c].label
    BY DEF Child
  <2>4. u.pc \in {"idle", "run"} /\ u.ok \in BOOLEAN
    BY <1>2 DEF Shapes
  <2> HIDE DEF sp, up1, new
  <2>5. /\ DOMAIN stack' = Accounts /\ DOMAIN up' = Accounts /\ DOMAIN owed' = Accounts
        /\ stack'[a] = sp /\ up'[a] = up1
        /\ \A b \in Accounts \ {a} : stack'[b] = stack[b] /\ up'[b] = up[b]
    BY <1>2, <2>1 DEF Shapes
  <2>6. StoreInv'
    BY <1>1, <1>4, <2>1, <2>2, <2>5, StoreFrame DEF outside
  <2>7. /\ DOMAIN sp.children = DOMAIN st.children
        /\ sp.children[c].id = id /\ sp.children[c].label = u.want[c].label
        /\ \A d \in DOMAIN st.children \ {c} : sp.children[d] = st.children[d]
    BY <1>1, <2>2, <2>3
  <2> HIDE DEF st, u
  <2>8. Sound(a, sp, up1, owed[a], minted, tokens')
    BY ONLY <1>1, <1>2, <1>3, <2>2, <2>7, UpdateSound
  <2> USE DEF st, u
  <2>9. Sound(a, stack'[a], up'[a], owed'[a], minted', tokens')
    BY <1>4, <2>1, <2>5, <2>8
  <2>10. \A i \in DOMAIN tokens :
           minted[i][1] # a => i \in DOMAIN tokens' /\ tokens'[i] = tokens[i]
    BY <1>3, <1>4
  <2> HIDE DEF id
  <2> QED BY <1>1, <1>4, <2>1, <2>2, <2>4, <2>5, <2>6, <2>9, <2>10, AccountMoves
<1> QED BY <1>5, <1>6

(* The store after a's child c is put: only c's key has changed, and unless *)
(* it was recorded the child is owed it.                                   *)
LEMMA PutStore ==
  ASSUME IndInv, NEW a \in Accounts, NEW c \in Children, NEW id,
         Own(minted, a, c, id), place' = place, minted' = minted,
         store' = With(store, <<place[a], c>>, [id |-> id, account |-> a]),
         DOMAIN stack' = Accounts,
         c \in owed'[a] \/ (c \in DOMAIN stack'[a].secrets /\ stack'[a].secrets[c] = id),
         \A d \in DOMAIN stack'[a].secrets \ {c} :
           d \in DOMAIN stack[a].secrets /\ stack'[a].secrets[d] = stack[a].secrets[d],
         DOMAIN stack[a].secrets \subseteq DOMAIN stack'[a].secrets,
         owed[a] \ {c} \subseteq owed'[a],
         \A b \in Accounts \ {a} : stack'[b] = stack[b] /\ owed'[b] = owed[b]
  PROVE  StoreInv'
<1> DEFINE key == <<place[a], c>>
           rec == [id |-> id, account |-> a]
<1>1. /\ DOMAIN store' = {key} \cup DOMAIN store /\ store'[key] = rec
      /\ \A k \in DOMAIN store \ {key} : store'[k] = store[k]
  BY DEF With
<1>2. /\ rec.id = id /\ rec.account = a /\ key[2] = c
  OBVIOUS
<1>3. Stored(key)'
  <2>1. store'[key].account = a /\ store'[key].id = id
    BY <1>1, <1>2
  <2> QED BY <1>2, <2>1 DEF Stored
<1>4. ASSUME NEW k \in DOMAIN store \ {key} PROVE Stored(k)'
  <2>1. store'[k] = store[k] /\ Stored(k)
    BY <1>1 DEF IndInv, StoreInv
  <2>2. store[k].account = a => k[2] # c
    BY <2>1 DEF Stored
  <2>3. CASE store[k].account = a
    <3>1. /\ k = <<place[a], k[2]>> /\ Own(minted, a, k[2], store[k].id)
          /\ k[2] \notin owed[a] =>
               k[2] \in DOMAIN stack[a].secrets /\ stack[a].secrets[k[2]] = store[k].id
      BY <2>1, <2>3 DEF Stored
    <3>2. k[2] \notin owed'[a] =>
            k[2] \in DOMAIN stack'[a].secrets /\ stack'[a].secrets[k[2]] = store[k].id
      BY <2>2, <2>3, <3>1
    <3> QED BY <2>1, <2>3, <3>1, <3>2 DEF Stored
  <2>4. CASE store[k].account # a
    BY <2>1, <2>4 DEF Stored
  <2> QED BY <2>3, <2>4
<1>5. ASSUME NEW b \in Accounts PROVE Kept(b)'
  <2> SUFFICES ASSUME Alone(b), NEW d \in DOMAIN stack'[b].secrets \ owed'[b]
               PROVE  /\ <<place[b], d>> \in DOMAIN store'
                      /\ store'[<<place[b], d>>] = [id |-> stack'[b].secrets[d], account |-> b]
    BY DEF Kept, Alone
  <2>1. CASE b = a /\ d = c
    BY <1>1, <2>1
  <2>2. CASE ~(b = a /\ d = c)
    <3>1. d \in DOMAIN stack[b].secrets \ owed[b] /\ stack'[b].secrets[d] = stack[b].secrets[d]
      BY <2>2
    <3>2. <<place[b], d>> # key
      BY <2>2 DEF Alone
    <3>3. /\ <<place[b], d>> \in DOMAIN store
          /\ store[<<place[b], d>>] = [id |-> stack[b].secrets[d], account |-> b]
      BY <3>1 DEF IndInv, StoreInv, Kept
    <3> QED BY <1>1, <3>1, <3>2, <3>3
  <2> QED BY <2>1, <2>2
<1> QED BY <1>1, <1>3, <1>4, <1>5 DEF StoreInv

(* A secret is written, and recorded or not.                               *)
LEMMA PutInv ==
  ASSUME IndInv, NEW a \in Accounts, NEW c \in Children, NEW saved \in BOOLEAN,
         Put(a, c, saved)
  PROVE  IndInv'
<1> DEFINE st   == stack[a]
           u    == up[a]
           id   == st.children[c].id
           same == c \in DOMAIN st.secrets /\ st.secrets[c] = id
           sp   == [st EXCEPT !.secrets = With(@, c, id)]
           up1  == [u EXCEPT !.put = @ \ {c}]
<1>1. /\ u.pc = "run" /\ c \in u.put \ u.mint
      /\ store' = IF same THEN store
                  ELSE With(store, <<place[a], c>>, [id |-> id, account |-> a])
      /\ saved \/ ~same
      /\ UNCHANGED <<outside, tokens, minted, clean>>
  BY DEF Put
<1>2. /\ Sound(a, st, u, owed[a], minted, tokens) /\ Shapes
      /\ Own(minted, a, c, id) /\ c \in DOMAIN st.children
      /\ same => c \notin owed[a]
  <2>1. Knows(a, st, u, minted) /\ Alive(st, u, owed[a], tokens)
          /\ Progress(st, u, owed[a], tokens) /\ Shapes
    BY DEF IndInv, Sound
  <2> HIDE DEF st, u
  <2>2. c \in DOMAIN st.children
    BY <1>1, <2>1 DEF Progress
  <2>3. Own(minted, a, c, id)
    BY <2>1, <2>2 DEF Knows
  <2>4. same => c \notin owed[a]
    BY <2>1 DEF Alive
  <2> QED BY <2>1, <2>2, <2>3, <2>4 DEF Sound
<1>3. CASE ~saved
  <2>1. Stop(a) /\ ~same
    BY <1>1, <1>3 DEF Put
  <2>2. /\ c \in owed'[a] /\ owed[a] \subseteq owed'[a]
        /\ stack'[a].secrets = stack[a].secrets /\ DOMAIN stack' = Accounts
        /\ \A b \in Accounts \ {a} : stack'[b] = stack[b] /\ owed'[b] = owed[b]
    BY <1>2, <2>1, StopFacts
  <2>3. store' = With(store, <<place[a], c>>, [id |-> id, account |-> a])
    BY <1>1, <2>1
  <2>4. place' = place /\ minted' = minted
    BY <1>1 DEF outside
  <2> HIDE DEF id
  <2>5. StoreInv'
    BY <1>2, <2>2, <2>3, <2>4, PutStore
  <2> QED BY <1>1, <1>2, <2>1, <2>5, StopInv DEF Shapes
<1>4. CASE saved
  <2>1. /\ stack' = [stack EXCEPT ![a] = sp] /\ up' = [up EXCEPT ![a] = up1]
        /\ owed' = [owed EXCEPT ![a] = @ \ {c}]
    BY <1>1, <1>2, <1>4 DEF Put, Shapes
  <2>2. /\ DOMAIN sp = {"children", "secrets", "doomed"}
        /\ sp.secrets = With(st.secrets, c, id)
        /\ sp.children = st.children /\ sp.doomed = st.doomed
        /\ DOMAIN up1 = {"pc", "want", "mint", "put", "ok", "old"}
        /\ up1.pc = u.pc /\ up1.want = u.want /\ up1.mint = u.mint /\ up1.ok = u.ok
        /\ up1.put = u.put \ {c} /\ up1.old = u.old
    BY <1>2 DEF Shapes
  <2>3. u.pc \in {"idle", "run"} /\ u.ok \in BOOLEAN
    BY <1>2 DEF Shapes
  <2> HIDE DEF sp, up1
  <2>4. /\ DOMAIN stack' = Accounts /\ DOMAIN up' = Accounts /\ DOMAIN owed' = Accounts
        /\ stack'[a] = sp /\ up'[a] = up1 /\ owed'[a] = owed[a] \ {c}
        /\ \A b \in Accounts \ {a} :
             stack'[b] = stack[b] /\ up'[b] = up[b] /\ owed'[b] = owed[b]
    BY <1>2, <2>1 DEF Shapes
  <2>5. /\ DOMAIN sp.secrets = {c} \cup DOMAIN st.secrets /\ sp.secrets[c] = id
        /\ \A d \in DOMAIN st.secrets \ {c} : sp.secrets[d] = st.secrets[d]
    BY <2>2 DEF With
  <2>6. place' = place /\ minted' = minted
    BY <1>1 DEF outside
  <2>7. ASSUME same PROVE StoreInv'
    <3>1. store' = store /\ \A b \in Accounts : owed'[b] = owed[b]
      BY <1>1, <1>2, <2>4, <2>7
    <3>2. /\ DOMAIN stack'[a].secrets = DOMAIN stack[a].secrets
          /\ \A d \in DOMAIN stack[a].secrets : stack'[a].secrets[d] = stack[a].secrets[d]
      BY <2>4, <2>5, <2>7
    <3>3. \A b \in Accounts :
            /\ DOMAIN stack'[b].secrets = DOMAIN stack[b].secrets
            /\ \A d \in DOMAIN stack[b].secrets : stack'[b].secrets[d] = stack[b].secrets[d]
      BY <2>4, <3>2
    <3>4. ASSUME NEW k \in DOMAIN store PROVE Stored(k)'
      BY <2>6, <3>1, <3>3 DEF IndInv, StoreInv, Stored
    <3>5. ASSUME NEW b \in Accounts PROVE Kept(b)'
      BY <2>6, <3>1, <3>3 DEF IndInv, StoreInv, Kept, Alone
    <3> QED BY <3>1, <3>4, <3>5 DEF StoreInv
  <2>8. ASSUME ~same PROVE StoreInv'
    <3>1. store' = With(store, <<place[a], c>>, [id |-> id, account |-> a])
      BY <1>1, <2>8
    <3>2. /\ c \in DOMAIN stack'[a].secrets /\ stack'[a].secrets[c] = id
          /\ \A d \in DOMAIN stack'[a].secrets \ {c} :
               d \in DOMAIN stack[a].secrets /\ stack'[a].secrets[d] = stack[a].secrets[d]
          /\ DOMAIN stack[a].secrets \subseteq DOMAIN stack'[a].secrets
          /\ owed[a] \ {c} \subseteq owed'[a]
      BY <2>4, <2>5
    <3> HIDE DEF id
    <3> QED BY <1>2, <2>4, <2>6, <3>1, <3>2, PutStore
  <2> HIDE DEF same
  <2>9. StoreInv'
    BY <2>7, <2>8
  <2> HIDE DEF st, u
  <2>10. Sound(a, sp, up1, owed'[a], minted, tokens)
    <3>1. c \in u.put \ u.mint /\ Sound(a, st, u, owed[a], minted, tokens)
      BY <1>1, <1>2
    <3>2. /\ sp.children = st.children /\ sp.doomed = st.doomed
          /\ up1.want = u.want /\ up1.mint = u.mint /\ up1.ok = u.ok
          /\ up1.put = u.put \ {c} /\ up1.old = u.old /\ owed'[a] = owed[a] \ {c}
      BY <2>2, <2>4
    <3> QED BY ONLY <2>5, <3>1, <3>2, PutSound DEF id
  <2> USE DEF st, u
  <2> QED BY <1>1, <1>2, <2>2, <2>3, <2>4, <2>9, <2>10, AccountMoves DEF Shapes
<1> QED BY <1>3, <1>4

(* The secret of a child no longer wanted is deleted.                      *)
LEMMA DropSecretInv ==
  ASSUME IndInv, NEW a \in Accounts, NEW c \in Children, DropSecret(a, c)
  PROVE  IndInv'
<1> DEFINE st  == stack[a]
           u   == up[a]
           key == <<place[a], c>>
           sp  == [st EXCEPT !.secrets = Without(@, c)]
<1>1. /\ u.pc = "run" /\ c \in DOMAIN st.children \ DOMAIN u.want /\ c \in DOMAIN st.secrets
      /\ store' = Without(store, key)
      /\ UNCHANGED <<outside, tokens, minted, up, clean, owed>>
  BY DEF DropSecret, Sweeping, Gone
<1>2. Sound(a, st, u, owed[a], minted, tokens) /\ Shapes
  BY DEF IndInv
<1>3. stack' = [stack EXCEPT ![a] = sp]
  BY <1>2 DEF DropSecret, Shapes
<1>4. /\ DOMAIN sp = {"children", "secrets", "doomed"}
      /\ sp.secrets = Without(st.secrets, c)
      /\ sp.children = st.children /\ sp.doomed = st.doomed
  BY <1>2 DEF Shapes
<1> HIDE DEF sp
<1>5. /\ DOMAIN stack' = Accounts /\ stack'[a] = sp
      /\ \A b \in Accounts \ {a} : stack'[b] = stack[b]
  BY <1>2, <1>3 DEF Shapes
<1>6. /\ DOMAIN sp.secrets = DOMAIN st.secrets \ {c}
      /\ \A d \in DOMAIN st.secrets \ {c} : sp.secrets[d] = st.secrets[d]
  BY <1>4 DEF Without, Restrict
<1>7. /\ DOMAIN store' = DOMAIN store \ {key}
      /\ \A k \in DOMAIN store \ {key} : store'[k] = store[k]
  BY <1>1 DEF Without, Restrict
<1>8. place' = place /\ minted' = minted /\ owed' = owed
  BY <1>1 DEF outside
<1>9. StoreInv'
  <2>1. ASSUME NEW k \in DOMAIN store' PROVE Stored(k)'
    <3>1. k # key /\ store'[k] = store[k] /\ Stored(k)
      BY <1>7 DEF IndInv, StoreInv
    <3>2. store[k].account = a => k[2] # c
      BY <3>1 DEF Stored
    <3>3. CASE store[k].account = a
      <4>1. /\ k = <<place[a], k[2]>> /\ Own(minted, a, k[2], store[k].id)
            /\ k[2] \notin owed[a] =>
                 k[2] \in DOMAIN st.secrets /\ st.secrets[k[2]] = store[k].id
        BY <3>1, <3>3 DEF Stored
      <4>2. k[2] \notin owed[a] =>
              k[2] \in DOMAIN stack'[a].secrets /\ stack'[a].secrets[k[2]] = store[k].id
        BY <1>5, <1>6, <3>2, <3>3, <4>1
      <4> QED BY <1>8, <3>1, <3>3, <4>1, <4>2 DEF Stored
    <3>4. CASE store[k].account # a
      BY <1>5, <1>8, <3>1, <3>4 DEF Stored
    <3> QED BY <3>3, <3>4
  <2>2. ASSUME NEW b \in Accounts PROVE Kept(b)'
    <3> SUFFICES ASSUME Alone(b), NEW d \in DOMAIN stack'[b].secrets \ owed[b]
                 PROVE  /\ <<place[b], d>> \in DOMAIN store'
                        /\ store'[<<place[b], d>>] = [id |-> stack'[b].secrets[d], account |-> b]
      BY <1>8 DEF Kept, Alone
    <3>1. /\ d \in DOMAIN stack[b].secrets \ owed[b]
          /\ stack'[b].secrets[d] = stack[b].secrets[d] /\ ~(b = a /\ d = c)
      BY <1>5, <1>6
    <3>2. <<place[b], d>> # key
      BY <3>1 DEF Alone
    <3>3. /\ <<place[b], d>> \in DOMAIN store
          /\ store[<<place[b], d>>] = [id |-> stack[b].secrets[d], account |-> b]
      BY <3>1 DEF IndInv, StoreInv, Kept
    <3> QED BY <1>7, <3>1, <3>2, <3>3
  <2> QED BY <2>1, <2>2 DEF StoreInv
<1> HIDE DEF st, u
<1>10. Sound(a, sp, u, owed[a], minted, tokens)
  <2>1. c \notin DOMAIN u.want
    BY <1>1
  <2> QED BY ONLY <1>2, <1>4, <1>6, <2>1, DropSecretSound
<1> USE DEF st, u
<1> QED BY <1>1, <1>2, <1>4, <1>5, <1>9, <1>10, AccountMoves DEF Shapes

(* Its token is.                                                           *)
LEMMA DropChildInv ==
  ASSUME IndInv, NEW a \in Accounts, NEW c \in Children, DropChild(a, c)
  PROVE  IndInv'
<1> DEFINE st == stack[a]
           u  == up[a]
           id == st.children[c].id
           sp == [st EXCEPT !.children = Without(@, c)]
<1>1. /\ u.pc = "run" /\ c \in DOMAIN st.children \ DOMAIN u.want /\ c \notin DOMAIN st.secrets
      /\ tokens' = Without(tokens, id)
      /\ UNCHANGED <<outside, minted, store, up, clean, owed>>
  BY DEF DropChild, Sweeping, Gone
<1>2. /\ Sound(a, st, u, owed[a], minted, tokens) /\ Shapes
      /\ Own(minted, a, c, id)
  BY <1>1 DEF IndInv, Sound, Knows
<1>3. stack' = [stack EXCEPT ![a] = sp]
  BY <1>2 DEF DropChild, Shapes
<1>4. /\ DOMAIN sp = {"children", "secrets", "doomed"}
      /\ sp.children = Without(st.children, c)
      /\ sp.secrets = st.secrets /\ sp.doomed = st.doomed
  BY <1>2 DEF Shapes
<1> HIDE DEF sp
<1>5. /\ DOMAIN stack' = Accounts /\ stack'[a] = sp
      /\ \A b \in Accounts \ {a} : stack'[b] = stack[b]
  BY <1>2, <1>3 DEF Shapes
<1>6. /\ DOMAIN sp.children = DOMAIN st.children \ {c}
      /\ \A d \in DOMAIN st.children \ {c} : sp.children[d] = st.children[d]
  BY <1>4 DEF Without, Restrict
<1>7. /\ DOMAIN tokens' = DOMAIN tokens \ {id}
      /\ \A i \in DOMAIN tokens' : tokens'[i] = tokens[i]
  BY <1>1 DEF Without, Restrict
<1>8. \A i \in DOMAIN tokens :
        minted[i][1] # a => i \in DOMAIN tokens' /\ tokens'[i] = tokens[i]
  BY <1>2, <1>7 DEF Own
<1>9. StoreInv'
  BY <1>1, <1>4, <1>5, StoreFrame DEF outside
<1> HIDE DEF st, u
<1>10. Sound(a, sp, u, owed[a], minted, tokens')
  <2>1. c \notin DOMAIN u.want /\ c \in DOMAIN st.children \ DOMAIN st.secrets
    BY <1>1
  <2>2. Sound(a, st, u, owed[a], minted, tokens)
    BY <1>2
  <2>3. /\ DOMAIN tokens' = DOMAIN tokens \ {st.children[c].id}
        /\ \A i \in DOMAIN tokens' : tokens'[i] = tokens[i]
    BY ONLY <1>7 DEF id
  <2>4. sp.secrets = st.secrets /\ sp.doomed = st.doomed
    BY ONLY <1>4
  <2> QED BY ONLY <1>6, <2>1, <2>2, <2>3, <2>4, DropChildSound
<1> USE DEF st, u
<1>11. Sound(a, stack'[a], up'[a], owed'[a], minted', tokens')
  BY <1>1, <1>5, <1>10
<1>12. DOMAIN tokens' \subseteq DOMAIN minted'
  BY <1>1, <1>2, <1>7 DEF Shapes
<1>13. /\ UNCHANGED outside /\ clean' = clean /\ up' = up /\ owed' = owed
       /\ minted' = minted /\ up[a].pc = "run"
  BY <1>1
<1>14. /\ DOMAIN stack' = Accounts /\ DOMAIN up' = Accounts /\ DOMAIN owed' = Accounts
       /\ DOMAIN stack'[a] = {"children", "secrets", "doomed"}
       /\ DOMAIN up'[a] = {"pc", "want", "mint", "put", "ok", "old"}
       /\ up'[a].pc \in {"idle", "run"} /\ up'[a].ok \in BOOLEAN
       /\ minted' \in Seq(Accounts \X Children \X Labels)
  BY <1>2, <1>4, <1>5, <1>13 DEF Shapes
<1> QED BY ONLY IndInv, a \in Accounts, <1>5, <1>8, <1>9, <1>11, <1>12, <1>13, <1>14,
              AccountMoves

(* A token that was replaced is deleted.                                   *)
LEMMA DeleteInv ==
  ASSUME IndInv, NEW a \in Accounts, NEW id, Delete(a, id)
  PROVE  IndInv'
<1> DEFINE st  == stack[a]
           u   == up[a]
           sp  == [st EXCEPT !.doomed = @ \ {id}]
           up1 == [u EXCEPT !.old = @ \ {id}]
<1>1. /\ u.pc = "run"
      /\ id \in st.doomed \/ (id \in u.old /\ u.ok /\ u.put = {})
      /\ tokens' = Without(tokens, id)
      /\ UNCHANGED <<outside, minted, store, clean, owed>>
  BY DEF Delete, Sweeping
<1>2. /\ Sound(a, st, u, owed[a], minted, tokens) /\ Shapes
      /\ minted[id][1] = a
  BY <1>1 DEF IndInv, Sound, Knows
<1>3. stack' = [stack EXCEPT ![a] = sp] /\ up' = [up EXCEPT ![a] = up1]
  BY <1>2 DEF Delete, Shapes
<1>4. /\ DOMAIN sp = {"children", "secrets", "doomed"}
      /\ sp.children = st.children /\ sp.secrets = st.secrets /\ sp.doomed = st.doomed \ {id}
      /\ DOMAIN up1 = {"pc", "want", "mint", "put", "ok", "old"}
      /\ up1.pc = u.pc /\ up1.want = u.want /\ up1.mint = u.mint /\ up1.ok = u.ok
      /\ up1.put = u.put /\ up1.old = u.old \ {id}
  BY <1>2 DEF Shapes
<1>5. u.pc \in {"idle", "run"} /\ u.ok \in BOOLEAN
  BY <1>2 DEF Shapes
<1> HIDE DEF sp, up1
<1>6. /\ DOMAIN stack' = Accounts /\ stack'[a] = sp /\ DOMAIN up' = Accounts /\ up'[a] = up1
      /\ \A b \in Accounts \ {a} : stack'[b] = stack[b] /\ up'[b] = up[b]
  BY <1>2, <1>3 DEF Shapes
<1>7. /\ DOMAIN tokens' = DOMAIN tokens \ {id}
      /\ \A i \in DOMAIN tokens' : tokens'[i] = tokens[i]
  BY <1>1 DEF Without, Restrict
<1>8. \A i \in DOMAIN tokens :
        minted[i][1] # a => i \in DOMAIN tokens' /\ tokens'[i] = tokens[i]
  BY <1>2, <1>7
<1>9. StoreInv'
  BY <1>1, <1>4, <1>6, StoreFrame DEF outside
<1> HIDE DEF st, u
<1>10. Sound(a, sp, up1, owed[a], minted, tokens')
  <2>1. id \in st.doomed \/ (id \in u.old /\ u.ok /\ u.put = {})
    BY <1>1
  <2>2. Sound(a, st, u, owed[a], minted, tokens)
    BY <1>2
  <2> QED BY ONLY <1>4, <1>7, <2>1, <2>2, DeleteSound
<1> USE DEF st, u
<1>11. Sound(a, stack'[a], up'[a], owed'[a], minted', tokens')
  BY <1>1, <1>6, <1>10
<1>12. DOMAIN tokens' \subseteq DOMAIN minted'
  BY <1>1, <1>2, <1>7 DEF Shapes
<1>13. /\ UNCHANGED outside /\ clean' = clean /\ owed' = owed
       /\ minted' = minted /\ up[a].pc = "run"
  BY <1>1
<1>14. /\ DOMAIN stack' = Accounts /\ DOMAIN up' = Accounts /\ DOMAIN owed' = Accounts
       /\ DOMAIN stack'[a] = {"children", "secrets", "doomed"}
       /\ DOMAIN up'[a] = {"pc", "want", "mint", "put", "ok", "old"}
       /\ up'[a].pc \in {"idle", "run"} /\ up'[a].ok \in BOOLEAN
       /\ minted' \in Seq(Accounts \X Children \X Labels)
  BY <1>2, <1>4, <1>5, <1>6, <1>13 DEF Shapes
<1> QED BY ONLY IndInv, a \in Accounts, <1>6, <1>8, <1>9, <1>11, <1>12, <1>13, <1>14,
              AccountMoves

(* An update succeeds: if nothing was edited meanwhile, the account is     *)
(* clean.                                                                  *)
LEMMA DoneInv ==
  ASSUME IndInv, NEW a \in Accounts, Done(a)
  PROVE  IndInv'
<1>1. /\ up[a].ok /\ up[a].mint = {} /\ up[a].put = {} /\ up[a].old = {}
      /\ DOMAIN stack[a].children \subseteq DOMAIN up[a].want
      /\ up' = [up EXCEPT ![a] = Idle]
      /\ clean' = IF up[a].want = Configs(a) THEN clean \cup {a} ELSE clean
      /\ UNCHANGED <<outside, tokens, minted, store, stack, owed>>
  BY DEF Done, Sweeping, Gone
<1>2. Shapes /\ \A b \in Accounts : Sound(b, stack[b], up[b], owed[b], minted, tokens)
  BY DEF IndInv
<1>3. /\ Idle.old = {} /\ Idle.mint = {} /\ Idle.put = {} /\ Idle.ok = FALSE
      /\ DOMAIN Idle.want = {} /\ Idle.pc = "idle"
      /\ DOMAIN Idle = {"pc", "want", "mint", "put", "ok", "old"}
  BY DEF Idle
<1>4. /\ DOMAIN up' = Accounts /\ up'[a] = Idle
      /\ \A b \in Accounts \ {a} : up'[b] = up[b]
  BY <1>1, <1>2 DEF Shapes
<1>5. Shapes'
  BY <1>1, <1>2, <1>3, <1>4 DEF Shapes, outside
<1>6. StoreInv'
  BY <1>1, StoreFrame DEF outside
<1>7. Sound(a, stack[a], Idle, owed[a], minted, tokens)
  <2>1. Knows(a, stack[a], up[a], minted) /\ Alive(stack[a], up[a], owed[a], tokens)
    BY <1>2 DEF Sound
  <2>2. Knows(a, stack[a], Idle, minted) /\ Alive(stack[a], Idle, owed[a], tokens)
    BY <1>3, <2>1 DEF Knows, Alive
  <2>3. Progress(stack[a], Idle, owed[a], tokens)
    BY <1>3 DEF Progress
  <2> QED BY <2>2, <2>3 DEF Sound
<1>8. up[a].want = Configs(a) => Clean(a, stack[a], owed[a], tokens)
  <2>1. DOMAIN Configs(a) = Declared(a)
    BY DEF Configs
  <2>2. Progress(stack[a], up[a], owed[a], tokens)
    BY <1>2 DEF Sound
  <2> HIDE DEF Configs
  <2> QED BY <1>1, <2>1, <2>2 DEF Progress, Clean
<1>9. CleanInv'
  <2>1. clean' \subseteq Accounts
    BY <1>1 DEF IndInv, CleanInv
  <2>2. ASSUME NEW b \in clean'
        PROVE  up'[b].pc = "idle" /\ Clean(b, stack[b], owed[b], tokens)'
    <3>1. Declared(b)' = Declared(b) /\ Configs(b)' = Configs(b)
      BY <1>1, SameConfigs DEF outside
    <3>2. up'[b].pc = "idle" /\ Clean(b, stack[b], owed[b], tokens)
      <4>1. CASE b \in clean
        BY <1>3, <1>4, <4>1 DEF IndInv, CleanInv
      <4>2. CASE b \notin clean
        BY <1>1, <1>3, <1>4, <1>8, <4>2
      <4> QED BY <4>1, <4>2
    <3> QED BY <1>1, <3>1, <3>2 DEF Clean
  <2> QED BY <2>1, <2>2 DEF CleanInv
<1> QED BY <1>1, <1>2, <1>4, <1>5, <1>6, <1>7, <1>9 DEF IndInv

LEMMA NextInv ==
  ASSUME IndInv, [Next]_vars
  PROVE  IndInv'
<1>1. ASSUME UNCHANGED vars PROVE IndInv'
  <2>1. \A b : Declared(b)' = Declared(b) /\ Configs(b)' = Configs(b)
    BY <1>1, SameConfigs DEF vars, outside
  <2>2. CleanInv'
    BY <1>1, <2>1 DEF vars, IndInv, CleanInv, Clean
  <2>3. StoreInv'
    BY <1>1, StoreFrame DEF vars, outside
  <2> QED BY <1>1, <2>2, <2>3 DEF vars, outside, IndInv, Shapes
<1>2. ASSUME NEW a \in Accounts, NEW c \in Children, NEW saved \in BOOLEAN,
             Create(a, c, saved) \/ Update(a, c, saved) \/ Put(a, c, saved)
      PROVE  IndInv'
  BY <1>2, CreateInv, UpdateInv, PutInv
<1>3. ASSUME NEW a \in Accounts, NEW c \in Children, DropSecret(a, c) \/ DropChild(a, c)
      PROVE  IndInv'
  BY <1>3, DropSecretInv, DropChildInv
<1> QED BY <1>1, <1>2, <1>3, EditInv, BeginInv, FailsInv, DeleteInv, DoneInv DEF Next

(* A grant of p on a resource: a zone of the account's, its settings only  *)
(* where it is kept for its security.txt, which is edge's alone, and WAF   *)
(* where it is named; or the account's own.                                *)
Grants(a, c, p, key) ==
  IF key[1] = "zone"
  THEN LET z == key[2] IN
       /\ zone[z].account = a
       /\ zone[z].txt => c[1] = "edge" /\ p = "Zone Settings Write"
       /\ p = "Zone WAF Write" => z \in inputs[a].waf
  ELSE key[2] = a

LEMMA Pairs ==
  ASSUME NEW S, NEW T, NEW g \in S \X T
  PROVE  g[1] \in S /\ g[2] \in T
OBVIOUS

LEMMA PairIs ==
  ASSUME NEW p, NEW key, NEW g, g = <<p, key>>
  PROVE  g[1] = p /\ g[2] = key
OBVIOUS

LEMMA PoliciesGrant ==
  ASSUME NEW a \in Accounts, NEW c \in Children, NEW g \in Policies(a, c)
  PROVE  Grants(a, c, g[1], g[2])
<1>1. ASSUME NEW p, NEW key, key = AccountKey(a) PROVE Grants(a, c, p, key)
  BY <1>1 DEF Grants, AccountKey
<1>2. ASSUME NEW p, NEW key, NEW b, key = BucketKey(a, b) PROVE Grants(a, c, p, key)
  BY <1>2 DEF Grants, BucketKey
<1>3. ASSUME NEW p, NEW key, NEW z \in MatchingZones(a), key = ZoneKey(z),
             p = "Zone WAF Write" => z \in inputs[a].waf
      PROVE  Grants(a, c, p, key)
  BY <1>3 DEF Grants, ZoneKey, MatchingZones
<1>4. ASSUME NEW h \in TunnelPolicy(a) PROVE Grants(a, c, h[1], h[2])
  <2>1. h = <<"Cloudflare Tunnel Write", AccountKey(a)>>
    BY <1>4 DEF TunnelPolicy
  <2> QED BY <1>1, <2>1, PairIs
<1>5. CASE c[1] = "edge"
  <2>1. ASSUME NEW h \in ZonePolicies(MatchingZones(a)) PROVE Grants(a, c, h[1], h[2])
    <3>1. /\ h[1] \in {"DNS Write", "SSL and Certificates Write", "Zone Settings Write",
                        "Cache Settings Write", "Config Settings Write"}
          /\ h[2] \in {ZoneKey(z) : z \in MatchingZones(a)}
      BY <2>1, Pairs DEF ZonePolicies
    <3>2. PICK z \in MatchingZones(a) : h[2] = ZoneKey(z)
      BY <3>1
    <3>3. h[1] # "Zone WAF Write"
      BY <3>1
    <3> QED BY <1>3, <3>2, <3>3
  <2>2. ASSUME NEW h \in {"Zone WAF Write"} \X
                           {ZoneKey(z) : z \in inputs[a].waf \cap MatchingZones(a)}
        PROVE  Grants(a, c, h[1], h[2])
    <3>1. h[2] \in {ZoneKey(z) : z \in inputs[a].waf \cap MatchingZones(a)}
      BY <2>2, Pairs
    <3>2. PICK z \in inputs[a].waf \cap MatchingZones(a) : h[2] = ZoneKey(z)
      BY <3>1
    <3> QED BY <1>3, <3>2
  <2>3. ASSUME NEW h \in SecurityTxtPolicies(SecurityTxtZones(a))
        PROVE  Grants(a, c, h[1], h[2])
    <3>1. /\ h[1] \in {"Zone Settings Write"}
          /\ h[2] \in {ZoneKey(z) : z \in SecurityTxtZones(a)}
      BY <2>3, Pairs DEF SecurityTxtPolicies
    <3>2. PICK z \in SecurityTxtZones(a) : h[2] = ZoneKey(z)
      BY <3>1
    <3>3. ASSUME NEW p, NEW key, p = "Zone Settings Write", key = ZoneKey(z)
          PROVE  Grants(a, c, p, key)
      BY <1>5, <3>3 DEF Grants, ZoneKey, SecurityTxtZones
    <3> QED BY <3>1, <3>2, <3>3
  <2>4. Policies(a, c) = EdgePolicies(a, MatchingZones(a), inputs[a].waf)
                           \cup SecurityTxtPolicies(SecurityTxtZones(a))
    BY <1>5 DEF Policies
  <2>5. \/ g \in TunnelPolicy(a) \/ g \in ZonePolicies(MatchingZones(a))
        \/ g \in {"Zone WAF Write"} \X {ZoneKey(z) : z \in inputs[a].waf \cap MatchingZones(a)}
        \/ g \in SecurityTxtPolicies(SecurityTxtZones(a))
    BY <2>4, Zenon DEF EdgePolicies
  <2> QED BY <1>4, <2>1, <2>2, <2>3, <2>5, Zenon
<1>6. CASE c[1] = "status"
  <2>1. Policies(a, c) = StatusPolicies(a, MatchingZones(a))
    BY <1>6 DEF Policies
  <2>2. ASSUME NEW h \in {"DNS Write"} \X {ZoneKey(z) : z \in MatchingZones(a)}
        PROVE  Grants(a, c, h[1], h[2])
    <3>1. h[1] \in {"DNS Write"} /\ h[2] \in {ZoneKey(z) : z \in MatchingZones(a)}
      BY <2>2, Pairs
    <3>2. PICK z \in MatchingZones(a) : h[2] = ZoneKey(z)
      BY <3>1
    <3>3. h[1] # "Zone WAF Write"
      BY <3>1
    <3> QED BY <1>3, <3>2, <3>3
  <2>3. \/ g \in TunnelPolicy(a)
        \/ g \in {"DNS Write"} \X {ZoneKey(z) : z \in MatchingZones(a)}
    BY <2>1, Zenon DEF StatusPolicies
  <2> QED BY <1>4, <2>2, <2>3, Zenon
<1>7. CASE c[1] = "r2-admin"
  <2>1. g = <<"Workers R2 Storage Write", AccountKey(a)>>
    BY <1>7 DEF Policies
  <2> QED BY <1>1, <2>1, PairIs
<1>8. CASE c[1] = "r2-parent"
  <2>1. g = <<"Workers R2 Storage Bucket Item Write", BucketKey(a, c[2])>>
    BY <1>8 DEF Policies
  <2> QED BY <1>2, <2>1, PairIs
<1>9. c[1] \in Kinds
  BY DEF Children, Kinds
<1> QED BY <1>5, <1>6, <1>7, <1>8, <1>9 DEF Kinds

-----------------------------------------------------------------------------
(* The theorems. *)

LEMMA Inductive == Spec => []IndInv
<1>1. IndInv /\ [Next]_vars => IndInv'
  BY NextInv
<1> QED BY <1>1, InitInv, PTL DEF Spec

\* Tokens, secrets and stacks keep their shape: the store and Cloudflare hold
\* tokens that were minted, and a secret is recorded only of a child.
THEOREM TypeCorrect == Spec => []TypeOK
<1>1. IndInv => TypeOK
  <2> SUFFICES ASSUME IndInv PROVE TypeOK
    OBVIOUS
  <2>1. DOMAIN minted = 1 .. Len(minted)
    BY DEF IndInv, Shapes
  <2>2. DOMAIN tokens \subseteq 1 .. Len(minted)
    BY <2>1 DEF IndInv, Shapes
  <2>3. \A k \in DOMAIN store : store[k].id \in 1 .. Len(minted)
    BY <2>1 DEF IndInv, StoreInv, Stored, Own
  <2>4. \A a \in Accounts : DOMAIN stack[a].secrets \subseteq DOMAIN stack[a].children
    BY DEF IndInv, Sound, Knows
  <2> QED BY <2>2, <2>3, <2>4 DEF TypeOK
<1> QED BY <1>1, Inductive, PTL

\* A rotation never leaves the store naming a deleted token, at any moment of
\* any update, but where a failed update left a child owed its secret.
THEOREM RotationBreaksNobody == Spec => []StoredAlive
<1>1. IndInv => StoredAlive
  <2> SUFFICES ASSUME IndInv, NEW k \in DOMAIN store, k[2] \notin owed[store[k].account]
               PROVE  store[k].id \in DOMAIN tokens
    BY DEF StoredAlive
  <2>1. PICK a \in Accounts : store[k].account = a
    BY DEF IndInv, StoreInv, Stored
  <2>2. k[2] \in DOMAIN stack[a].secrets \ owed[a] /\ stack[a].secrets[k[2]] = store[k].id
    BY <2>1 DEF IndInv, StoreInv, Stored
  <2>3. Alive(stack[a], up[a], owed[a], tokens)
    BY DEF IndInv, Sound
  <2> QED BY <2>2, <2>3 DEF Alive
<1> QED BY <1>1, Inductive, PTL

\* ParseChild accepts only the child that was asked for, of the account's own,
\* even where two accounts write to one place.
THEOREM NeverMistaken == Spec => []ReadIsOwn
<1>1. IndInv => ReadIsOwn
  <2> SUFFICES ASSUME IndInv, NEW a \in Accounts, NEW c \in Children, NEW k,
                      k = <<place[a], c>>, k \in DOMAIN store, store[k].account = a
               PROVE  minted[store[k].id][1] = a /\ minted[store[k].id][2] = c
    BY DEF ReadIsOwn, ParseChild
  <2>1. k[2] = c
    OBVIOUS
  <2> QED BY <2>1 DEF IndInv, StoreInv, Stored, Own
<1> QED BY <1>1, Inductive, PTL

\* After an update that succeeded the declared children are there, and no
\* other: under their current labels, each named by its secret.
THEOREM SettledAfterUpdate == Spec => []Settled
<1>1. IndInv => Settled
  <2> SUFFICES ASSUME IndInv, NEW a \in clean
               PROVE  /\ DOMAIN stack[a].children = Declared(a)
                      /\ \A c \in Declared(a) :
                           /\ Known(a, c) \in DOMAIN tokens
                           /\ minted[Known(a, c)][3] = inputs[a].rotation[c[1]]
                           /\ (\A b \in Accounts \ {a} : place[b] # place[a])
                                => store[<<place[a], c>>] = [id |-> Known(a, c), account |-> a]
    BY DEF Settled
  <2>1. /\ a \in Accounts /\ Clean(a, stack[a], owed[a], tokens) /\ Kept(a)
        /\ Knows(a, stack[a], up[a], minted) /\ Alive(stack[a], up[a], owed[a], tokens)
    BY DEF IndInv, CleanInv, StoreInv, Sound
  <2>2. DOMAIN stack[a].children = Declared(a)
    BY <2>1 DEF Clean
  <2>3. ASSUME NEW c \in Declared(a)
        PROVE  /\ Known(a, c) \in DOMAIN tokens
               /\ minted[Known(a, c)][3] = inputs[a].rotation[c[1]]
    <3>1. Configs(a)[c].label = inputs[a].rotation[c[1]]
      BY DEF Configs
    <3>2. stack[a].children[c].label = Configs(a)[c].label
      BY <2>1 DEF Clean
    <3> QED BY <2>1, <2>2, <3>1, <3>2 DEF Known, Knows, Alive
  <2>4. ASSUME NEW c \in Declared(a), \A b \in Accounts \ {a} : place[b] # place[a]
        PROVE  store[<<place[a], c>>] = [id |-> Known(a, c), account |-> a]
    <3>1. c \in DOMAIN stack[a].secrets \ owed[a] /\ stack[a].secrets[c] = Known(a, c)
      BY <2>1 DEF Clean, Known
    <3> QED BY <2>1, <2>4, <3>1 DEF Kept, Alone
  <2> QED BY <2>2, <2>3, <2>4
<1> QED BY <1>1, Inductive, PTL

\* After such an update a child reaches nothing outside its account, on a zone
\* kept for its security.txt only edge does and only its settings, and edge may
\* write DNS on every zone it manages.
THEOREM ChildrenStayInside == Spec => []ReachesItsZones
<1>1. IndInv => ReachesItsZones
  <2> SUFFICES ASSUME IndInv, NEW a \in clean, NEW c \in Declared(a)
               PROVE  /\ \A g \in tokens[Known(a, c)] : Grants(a, c, g[1], g[2])
                      /\ c[1] = "edge" => \A z \in Zones :
                           zone[z] = [account |-> a, txt |-> FALSE]
                             => <<"DNS Write", ZoneKey(z)>> \in tokens[Known(a, c)]
    BY DEF ReachesItsZones, Grants
  <2>1. a \in Accounts /\ Clean(a, stack[a], owed[a], tokens) /\ c \in Children
    BY DEF IndInv, CleanInv, Declared
  <2>2. Configs(a)[c].grants = Policies(a, c)
    BY DEF Configs
  <2>3. tokens[Known(a, c)] = Policies(a, c)
    BY <2>1, <2>2 DEF Clean, Known
  <2>4. ASSUME NEW z \in Zones, c[1] = "edge", zone[z] = [account |-> a, txt |-> FALSE]
        PROVE  <<"DNS Write", ZoneKey(z)>> \in Policies(a, c)
    <3>1. z \in MatchingZones(a)
      BY <2>4 DEF MatchingZones
    <3>2. <<"DNS Write", ZoneKey(z)>> \in ZonePolicies(MatchingZones(a))
      BY <3>1 DEF ZonePolicies
    <3> QED BY <2>4, <3>2 DEF Policies, EdgePolicies
  <2> QED BY <2>1, <2>3, <2>4, PoliciesGrant
<1> QED BY <1>1, Inductive, PTL
=============================================================================
