------------------------ MODULE ArtifactPullProofs ------------------------
(***************************************************************************)
(* Proofs about ArtifactPull, for every artifact, every limit and any      *)
(* sequence of refusals, revocations, failed refreshes and moved tags.     *)
(* Tokens are numbered as they are issued, so that in the repetition of a  *)
(* pull whatever is cached or presented is newer than the one refused      *)
(* (Again); and the files in the directory are at every step those of the  *)
(* entries read so far of the one manifest being pulled (Pulling).         *)
(***************************************************************************)
EXTENDS ArtifactPull, FiniteSetTheorems, WellFoundedInduction, TLAPS

Tokens == [id : Nat, fetched : Int, expires : Int]

\* A token source that cached t, of i tokens issued of which those of v are valid.
Cached(t, i, v) ==
  /\ t \in Tokens /\ t.id \in 0 .. i /\ t.fetched <= t.expires
  /\ i \in 0 .. MaxTokens /\ v \subseteq 1 .. i

Shapes ==
  /\ auth \in {"auto", "dockerconfig", "ecr", "none"}
  /\ ecrHost \in BOOLEAN /\ dockerConfig \in BOOLEAN /\ src \in BOOLEAN
  /\ art \in Arts /\ tag \in Versions /\ ver \in Versions
  /\ now \in 0 .. MaxNow
  /\ Cached(tok, issued, valid)
  /\ hdr \in 0 .. issued /\ refusedTok \in 0 .. issued
  /\ step \in {"idle", "client", "manifest", "layer", "extract"}
  /\ attempt \in {1, 2}
  /\ method \in {"none", "dockerconfig", "ecr-sdk", "anonymous"}
  /\ nbytes \in 0 .. MaxBytes + 1 /\ nfiles \in 0 .. MaxFiles + 1
  /\ outcome \in {"none", "ok", "error", "unauthorized"}

\* In the repetition everything is newer than the token that was refused.
Newer(i, r) == i = 0 \/ i > r

Again ==
  /\ overdue = FALSE
  /\ attempt = 2 => Newer(tok.id, refusedTok) /\ (step = "client" \/ Newer(hdr, refusedTok))

\* s is what remains of t.
Remains(s, t) ==
  /\ Len(s) <= Len(t)
  /\ \A i \in 1 .. Len(s) : s[i] = t[Len(t) - Len(s) + i]

\* The first m entries of a layer, and all entries of the first k layers.
Read(es, m)  == {es[j] : j \in 1 .. m}
Past(all, k) == UNION {Read(all[i].entries, Len(all[i].entries)) : i \in 1 .. k}

\* The files of the entries of a set, none of which is refused.
Files(v, S) == {[ver |-> v, path |-> e.path, size |-> e.size] : e \in {x \in S : x.kind = "file"}}
Holds(d, v, S) == d = Files(v, S) /\ \A e \in S : e.kind # "refused"

\* Between two layers, k of them read, and within one.
LayersRead(k) == /\ Remains(layers, art[ver]) /\ layers \in Seq(Layers) /\ layers # <<>>
                 /\ k = Len(art[ver]) - Len(layers)
                 /\ \A i \in 1 .. k : art[ver][i].intact

Pulling ==
  LET k  == Len(art[ver]) - Len(layers)
      es == Head(layers).entries
  IN  /\ LayersRead(k)
      /\ step = "layer" => Holds(dest, ver, Past(art[ver], k))
      /\ step = "extract" =>
           /\ Remains(entries, es) /\ entries \in Seq(Entries)
           /\ Holds(dest, ver, Past(art[ver], k) \cup Read(es, Len(es) - Len(entries)))
      /\ nbytes <= MaxBytes /\ nfiles <= MaxFiles

Pull ==
  /\ step # "idle" => outcome = "none"
  /\ step \in {"client", "manifest"} => dest = {}
  /\ step \in {"layer", "extract"} => Pulling
  /\ outcome = "ok" => /\ Holds(dest, ver, Past(art[ver], Len(art[ver])))
                       /\ \A i \in 1 .. Len(art[ver]) : art[ver][i].intact

IndInv == Shapes /\ Again /\ Pull

-----------------------------------------------------------------------------
(* Tokens. *)

\* What a caller receives: o, from a source that then cached t.
Received(o, t) == o = 0 \/ (o = t.id /\ now < t.expires)

LEMMA StillFresh ==
  ASSUME overdue = FALSE, NEW o, NEW t, Received(o, t), GivesOut(o, t)
  PROVE  overdue' = FALSE
BY DEF Received, GivesOut

LEMMA RefreshBeforeExpiry ==
  ASSUME NEW t \in Tokens, t.fetched <= t.expires, now \in Int, now < refreshAt(t)
  PROVE  now < t.expires
BY DEF Tokens, refreshAt

LEMMA FetchFacts ==
  ASSUME Shapes, NEW o \in Answers, NEW s \in BOOLEAN, NEW t, t = fetch(o, s)
  PROVE  t \in Tokens /\ t.id = issued + 1 /\ t.fetched = now /\ now < t.expires
<1>1. issued \in Nat /\ now \in Nat /\ o \in Int /\ Lifetime \in Nat \ {0}
  BY LimitsAssumption DEF Shapes, Cached
<1> DEFINE x == IF ~s /\ o > 0 THEN now + o ELSE now + Lifetime
<1>2. x \in Int /\ now < x
  BY <1>1
<1>3. t = [id |-> issued + 1, fetched |-> now, expires |-> x]
  BY DEF fetch
<1> HIDE DEF x
<1> QED BY <1>1, <1>2, <1>3 DEF Tokens

(* What one call of get leaves, and returns: never a token past its expiry *)
(* nor, in the repetition, one that is not newer than the refused one.     *)
LEMMA GetFacts ==
  ASSUME Shapes, Again, NEW g \in get
  PROVE  /\ Cached(g.tok, g.issued, g.valid) /\ issued <= g.issued
         /\ g.out \in 0 .. g.issued /\ Received(g.out, g.tok)
         /\ attempt = 2 => Newer(g.tok.id, refusedTok) /\ Newer(g.out, refusedTok)
<1> DEFINE kept(o) == [tok |-> tok, out |-> o, issued |-> issued, valid |-> valid]
<1>1. /\ Cached(tok, issued, valid) /\ now \in Nat /\ issued \in Nat
      /\ refusedTok \in 0 .. issued
  BY DEF Shapes, Cached
<1>2. ASSUME NEW o, g = kept(o), o = 0 \/ (o = tok.id /\ now < tok.expires)
      PROVE  /\ Cached(g.tok, g.issued, g.valid) /\ issued <= g.issued
             /\ g.out \in 0 .. g.issued /\ Received(g.out, g.tok)
             /\ attempt = 2 => Newer(g.tok.id, refusedTok) /\ Newer(g.out, refusedTok)
  <2>1. g.tok = tok /\ g.out = o /\ g.issued = issued /\ g.valid = valid
    BY <1>2
  <2> QED BY <1>1, <1>2, <2>1 DEF Cached, Received, Again, Newer
<1>3. CASE tok # NoTok /\ now < refreshAt(tok)
  <2>1. g = kept(tok.id)
    BY <1>3 DEF get
  <2>2. now < tok.expires
    BY <1>1, <1>3, RefreshBeforeExpiry DEF Cached
  <2> QED BY <1>2, <2>1, <2>2
<1>4. CASE ~(tok # NoTok /\ now < refreshAt(tok))
  <2>1. CASE g = kept(IF Usable(tok) THEN tok.id ELSE 0)
    BY <1>2, <2>1 DEF Usable
  <2>2. CASE g # kept(IF Usable(tok) THEN tok.id ELSE 0)
    <3>1. PICK o \in {a \in Answers : issued < MaxTokens}, s \in BOOLEAN,
               v \in {valid, valid \cup {issued + 1}} :
            LET t == fetch(o, s)
            IN  g = [tok |-> t, out |-> t.id, issued |-> t.id, valid |-> v]
      BY <1>4, <2>2 DEF get
    <3> DEFINE t == fetch(o, s)
    <3>2. t \in Tokens /\ t.id = issued + 1 /\ t.fetched = now /\ now < t.expires
      BY FetchFacts
    <3>3. g.tok = t /\ g.out = t.id /\ g.issued = t.id /\ g.valid = v
      BY <3>1
    <3>4. issued < MaxTokens /\ MaxTokens \in Nat
      BY LimitsAssumption
    <3> HIDE DEF t
    <3> QED BY <1>1, <3>2, <3>3, <3>4 DEF Cached, Received, Newer, Tokens
  <2> QED BY <2>1, <2>2
<1> QED BY <1>3, <1>4

(* The same of a request.                                                  *)
LEMMA RequestFacts ==
  ASSUME Shapes, Again, step # "client", NEW q \in request
  PROVE  /\ Cached(q.tok, q.issued, q.valid) /\ issued <= q.issued
         /\ q.hdr \in 0 .. q.issued /\ Received(q.given, q.tok)
         /\ attempt = 2 => Newer(q.tok.id, refusedTok) /\ Newer(q.hdr, refusedTok)
         /\ q.res \in {"ok", "error", "unauthorized"}
<1> DEFINE same(r) == [tok |-> tok, issued |-> issued, valid |-> valid, hdr |-> hdr,
                       given |-> 0, res |-> r]
           asked(g) == [tok |-> g.tok, issued |-> g.issued, valid |-> g.valid, hdr |-> g.out,
                        given |-> g.out,
                        res |-> IF g.out = 0 THEN "error"
                                ELSE IF g.out \in g.valid THEN "ok" ELSE "unauthorized"]
<1>1. CASE \E r \in {"ok", "error", "unauthorized"} : q = same(r)
  <2>1. PICK r \in {"ok", "error", "unauthorized"} : q = same(r)
    BY <1>1
  <2>2. q.tok = tok /\ q.issued = issued /\ q.valid = valid /\ q.hdr = hdr /\ q.given = 0
        /\ q.res = r
    BY <2>1
  <2>3. issued \in Nat
    BY DEF Shapes, Cached
  <2> QED BY <2>1, <2>2, <2>3 DEF Shapes, Again, Received
<1>2. CASE \E g \in get : q = asked(g)
  <2>1. PICK g \in get : q = asked(g)
    BY <1>2
  <2>2. /\ q.tok = g.tok /\ q.issued = g.issued /\ q.valid = g.valid /\ q.hdr = g.out
        /\ q.given = g.out /\ q.res \in {"ok", "error", "unauthorized"}
    BY <2>1
  <2> QED BY <2>2, GetFacts
<1> QED BY <1>1, <1>2 DEF request

-----------------------------------------------------------------------------
(* Layers and entries. *)

LEMMA RemainsFacts ==
  ASSUME NEW S, NEW s \in Seq(S), NEW t \in Seq(S), Remains(s, t), s # <<>>
  PROVE  /\ Head(s) = t[Len(t) - Len(s) + 1] /\ Head(s) \in S
         /\ Len(t) - Len(s) \in Nat /\ Len(t) - Len(s) + 1 \in 1 .. Len(t)
         /\ Tail(s) \in Seq(S) /\ Len(Tail(s)) = Len(s) - 1 /\ Remains(Tail(s), t)
<1>1. /\ Len(s) \in Nat \ {0} /\ Len(t) \in Nat /\ Len(s) <= Len(t)
      /\ Head(s) = s[1] /\ s[1] \in S
  BY DEF Remains
<1>2. /\ Tail(s) \in Seq(S) /\ Len(Tail(s)) = Len(s) - 1
      /\ \A i \in 1 .. Len(s) - 1 : Tail(s)[i] = s[i + 1]
  BY <1>1
<1>3. \A i \in 1 .. Len(Tail(s)) : Tail(s)[i] = t[Len(t) - Len(Tail(s)) + i]
  <2> TAKE i \in 1 .. Len(Tail(s))
  <2>1. i + 1 \in 1 .. Len(s) /\ Tail(s)[i] = s[i + 1]
    BY <1>1, <1>2
  <2>2. s[i + 1] = t[Len(t) - Len(s) + (i + 1)]
    BY <2>1 DEF Remains
  <2>3. Len(t) - Len(s) + (i + 1) = Len(t) - Len(Tail(s)) + i
    BY <1>1, <1>2
  <2> QED BY <2>1, <2>2, <2>3
<1>4. s[1] = t[Len(t) - Len(s) + 1]
  BY <1>1 DEF Remains
<1> QED BY <1>1, <1>2, <1>3, <1>4 DEF Remains

LEMMA ReadFacts ==
  ASSUME NEW es
  PROVE  /\ Read(es, 0) = {}
         /\ \A m \in Nat : Read(es, m + 1) = Read(es, m) \cup {es[m + 1]}
BY DEF Read

LEMMA PastFacts ==
  ASSUME NEW all
  PROVE  /\ Past(all, 0) = {}
         /\ \A k \in Nat : Past(all, k + 1) =
              Past(all, k) \cup Read(all[k + 1].entries, Len(all[k + 1].entries))
<1>1. Past(all, 0) = {}
  BY DEF Past
<1>2. ASSUME NEW k \in Nat
      PROVE  Past(all, k + 1) = Past(all, k) \cup Read(all[k + 1].entries, Len(all[k + 1].entries))
  <2> DEFINE R(i) == Read(all[i].entries, Len(all[i].entries))
           A == 1 .. k
           B == 1 .. k + 1
  <2>1. B = A \cup {k + 1}
    OBVIOUS
  <2> HIDE DEF R, A, B
  <2>2. ASSUME NEW e PROVE (\E i \in B : e \in R(i)) <=> (\E i \in A : e \in R(i)) \/ e \in R(k + 1)
    BY <2>1
  <2>3. ASSUME NEW C, NEW e PROVE e \in UNION {R(i) : i \in C} <=> \E i \in C : e \in R(i)
    BY Zenon
  <2> DEFINE U(C) == UNION {R(i) : i \in C}
  <2>4. ASSUME NEW e PROVE e \in U(B) <=> e \in U(A) \cup R(k + 1)
    <3>1. (e \in U(B) <=> \E i \in B : e \in R(i)) /\ (e \in U(A) <=> \E i \in A : e \in R(i))
      BY <2>3
    <3> HIDE DEF U
    <3> QED BY <2>2, <3>1
  <2> HIDE DEF U
  <2>5. U(B) = U(A) \cup R(k + 1)
    BY <2>4
  <2> QED BY <2>5 DEF Past, R, A, B, U
<1> QED BY <1>1, <1>2

LEMMA HoldsNothing == ASSUME NEW v PROVE Holds({}, v, {})
BY DEF Holds, Files

LEMMA HoldsMore ==
  ASSUME NEW d, NEW v, NEW S, NEW e, Holds(d, v, S), e.kind # "refused"
  PROVE  /\ e.kind = "file" =>
              Holds(d \cup {[ver |-> v, path |-> e.path, size |-> e.size]}, v, S \cup {e})
         /\ e.kind # "file" => Holds(d, v, S \cup {e})
BY DEF Holds, Files

-----------------------------------------------------------------------------
(* The inductive invariant, one action at a time. *)

LEMMA InitInv == Init => IndInv
<1> SUFFICES ASSUME Init PROVE IndInv
  OBVIOUS
<1>1. NoTok \in Tokens /\ NoTok.id = 0 /\ NoTok.fetched <= NoTok.expires
  BY DEF NoTok, Tokens
<1>2. Cached(tok, issued, valid)
  BY <1>1, LimitsAssumption DEF Init, Cached
<1>3. Shapes
  <2>1. /\ now \in 0 .. MaxNow /\ hdr \in 0 .. issued /\ refusedTok \in 0 .. issued
        /\ nbytes \in 0 .. MaxBytes + 1 /\ nfiles \in 0 .. MaxFiles + 1 /\ attempt \in {1, 2}
    BY LimitsAssumption DEF Init
  <2> QED BY <1>2, <2>1, Zenon DEF Init, Shapes
<1>4. Again /\ Pull
  BY DEF Init, Again, Pull
<1> QED BY <1>3, <1>4 DEF IndInv

LEMMA BeginInv == ASSUME IndInv, Begin PROVE IndInv'
<1>1. Shapes'
  BY DEF Begin, IndInv, Shapes, Cached, confVars, tokVars, limVars
<1>2. Again' /\ Pull'
  BY DEF Begin, IndInv, Again, Pull, tokVars
<1> QED BY <1>1, <1>2 DEF IndInv

(* A pull that ends without success.                                       *)
LEMMA EndInv ==
  ASSUME IndInv, Shapes', Again', step' = "idle", outcome' # "ok"
  PROVE  IndInv'
BY DEF IndInv, Pull

LEMMA ClientInv == ASSUME IndInv, Client PROVE IndInv'
<1>1. /\ step = "client" /\ hdr' = 0 /\ dest = {} /\ outcome = "none"
      /\ UNCHANGED <<confVars, tag, now, ver, nbytes, nfiles>>
  BY DEF Client, IndInv, Pull, limVars
<1>2. Shapes /\ Again
  BY DEF IndInv
<1>3. CASE UNCHANGED <<method, tokVars>> /\ End("error")
  <2>1. Shapes' /\ Again'
    BY <1>1, <1>2, <1>3 DEF Shapes, Cached, Again, Newer, End, tokVars, confVars
  <2> QED BY <1>3, <2>1, EndInv DEF End
<1>4. CASE /\ resolve \in {"dockerconfig", "anonymous"} /\ method' = resolve /\ step' = "manifest"
           /\ UNCHANGED <<attempt, refusedTok, dest, outcome, tokVars>>
  <2>1. Shapes' /\ Again'
    BY <1>1, <1>2, <1>4 DEF Shapes, Cached, Again, Newer, tokVars, confVars
  <2>2. Pull'
    BY <1>1, <1>4 DEF Pull
  <2> QED BY <2>1, <2>2 DEF IndInv
<1>5. ASSUME NEW g \in get, resolve = "ecr-sdk", method' = resolve, src' = TRUE,
             tok' = g.tok, issued' = g.issued, valid' = g.valid, GivesOut(g.out, g.tok),
             IF g.out = 0 THEN End("error")
             ELSE step' = "manifest" /\ UNCHANGED <<attempt, refusedTok, dest, outcome>>
      PROVE  IndInv'
  <2>1. /\ Cached(tok', issued', valid') /\ issued <= issued'
        /\ attempt = 2 => Newer(tok'.id, refusedTok)
    BY <1>2, <1>5, GetFacts
  <2>7. overdue' = FALSE
    BY <1>2, <1>5, GetFacts, StillFresh DEF Again
  <2>2. UNCHANGED <<attempt, refusedTok, dest>>
    BY <1>5 DEF End
  <2>3. issued \in Nat /\ issued' \in Nat /\ refusedTok' \in 0 .. issued'
    BY <1>2, <2>1, <2>2 DEF Shapes, Cached
  <2>4. \/ step' = "idle" /\ outcome' = "error"
        \/ step' = "manifest" /\ outcome' = outcome
    BY <1>5 DEF End
  <2>5. Shapes'
    BY <1>1, <1>2, <1>5, <2>1, <2>2, <2>3, <2>4 DEF Shapes, Cached, confVars
  <2>6. Again' /\ Pull'
    BY <1>1, <2>1, <2>2, <2>4, <2>7 DEF Again, Newer, Pull
  <2> QED BY <2>5, <2>6 DEF IndInv
<1> QED BY <1>3, <1>4, <1>5 DEF Client

(* A request that fails: after a refused token the pull is repeated with an *)
(* empty directory and no token.                                           *)
LEMMA FailedInv ==
  ASSUME IndInv, step \in {"manifest", "layer"}, NEW q \in request, Failed(q)
  PROVE  IndInv'
<1>1. /\ q.res # "ok" /\ issued' = q.issued /\ valid' = q.valid /\ hdr' = q.hdr
      /\ GivesOut(q.given, q.tok)
      /\ UNCHANGED <<src, confVars, tag, now, method, ver, nbytes, nfiles>>
  BY DEF Failed, limVars
<1>2. /\ Shapes /\ Again /\ outcome = "none"
      /\ Cached(q.tok, q.issued, q.valid) /\ issued <= q.issued /\ q.hdr \in 0 .. q.issued
      /\ attempt = 2 => Newer(q.tok.id, refusedTok) /\ Newer(q.hdr, refusedTok)
      /\ q.res \in {"ok", "error", "unauthorized"}
  BY RequestFacts DEF IndInv, Pull
<1>3. issued \in Nat /\ q.issued \in Nat /\ refusedTok \in 0 .. q.issued
  BY <1>2 DEF Shapes, Cached
<1>6. overdue' = FALSE
  BY <1>1, <1>2, RequestFacts, StillFresh DEF Again
<1>4. CASE Retry(q.hdr)
  <2>1. /\ tok' = NoTok /\ refusedTok' = q.hdr /\ dest' = {} /\ attempt = 1
        /\ \/ step' = "client" /\ attempt' = 2 /\ outcome' = "none"
           \/ step' = "idle" /\ outcome' = "error" /\ attempt' = 1
    BY <1>2, <1>4 DEF Retry, invalidated, retryDest
  <2>2. NoTok.id = 0 /\ Cached(NoTok, q.issued, q.valid)
    BY <1>2, <1>3 DEF NoTok, Tokens, Cached
  <2>3. Shapes'
    BY <1>1, <1>2, <2>1, <2>2 DEF Shapes, confVars
  <2>4. Again' /\ Pull'
    BY <1>6, <2>1, <2>2 DEF Again, Newer, Pull
  <2> QED BY <2>3, <2>4 DEF IndInv
<1>5. CASE tok' = q.tok /\ End(q.res)
  <2>1. Shapes' /\ Again'
    BY <1>1, <1>2, <1>3, <1>5, <1>6 DEF Shapes, Again, End, confVars
  <2> QED BY <1>1, <1>5, <2>1, EndInv DEF End
<1> QED BY <1>4, <1>5 DEF Failed

(* A request that succeeds changes the tokens only.                        *)
LEMMA SucceededFacts ==
  ASSUME IndInv, step \in {"manifest", "layer"}, NEW q \in request, Succeeded(q)
  PROVE  /\ Cached(tok', issued', valid') /\ hdr' \in 0 .. issued' /\ refusedTok' \in 0 .. issued'
         /\ attempt' = 2 => Newer(tok'.id, refusedTok') /\ Newer(hdr', refusedTok')
         /\ overdue' = FALSE
         /\ UNCHANGED <<src, method, attempt, refusedTok, dest, auth, ecrHost, dockerConfig,
                        art, tag, now>>
<1>1. /\ Shapes /\ Again
      /\ Cached(q.tok, q.issued, q.valid) /\ issued <= q.issued /\ q.hdr \in 0 .. q.issued
      /\ attempt = 2 => Newer(q.tok.id, refusedTok) /\ Newer(q.hdr, refusedTok)
  BY RequestFacts DEF IndInv
<1>2. issued \in Nat /\ q.issued \in Nat /\ refusedTok \in 0 .. q.issued
  BY <1>1 DEF Shapes, Cached
<1>3. overdue' = FALSE
  BY <1>1, RequestFacts, StillFresh DEF Again, Succeeded
<1> QED BY <1>1, <1>2, <1>3 DEF Succeeded, confVars

(* The manifest is read: all its layers remain, and nothing is written.    *)
LEMMA ManifestInv == ASSUME IndInv, Manifest PROVE IndInv'
<1>1. step = "manifest" /\ dest = {} /\ outcome = "none" /\ Shapes
  BY DEF Manifest, IndInv, Pull
<1>2. ASSUME NEW q \in request, Failed(q) PROVE IndInv'
  BY <1>1, <1>2, FailedInv
<1>3. ASSUME NEW q \in request, Succeeded(q), ver' = tag, layers' = art[tag],
             nbytes' = 0, nfiles' = 0,
             IF art[tag] = <<>> THEN step' = "idle" /\ outcome' = "error"
             ELSE step' = "layer" /\ UNCHANGED outcome
      PROVE  IndInv'
  <2>1. /\ Cached(tok', issued', valid') /\ hdr' \in 0 .. issued' /\ refusedTok' \in 0 .. issued'
        /\ attempt' = 2 => Newer(tok'.id, refusedTok') /\ Newer(hdr', refusedTok')
        /\ overdue' = FALSE
        /\ UNCHANGED <<src, method, attempt, refusedTok, dest, auth, ecrHost, dockerConfig,
                       art, tag, now>>
    BY <1>1, <1>3, SucceededFacts
  <2>2. \/ step' = "idle" /\ outcome' = "error"
        \/ step' = "layer" /\ outcome' = "none" /\ art[tag] # <<>>
    BY <1>1, <1>3
  <2>3. nbytes' \in 0 .. MaxBytes + 1 /\ nfiles' \in 0 .. MaxFiles + 1
        /\ nbytes' <= MaxBytes /\ nfiles' <= MaxFiles
    BY <1>3, LimitsAssumption
  <2>4. Shapes'
    BY <1>1, <1>3, <2>1, <2>2, <2>3 DEF Shapes
  <2>5. Again'
    BY <2>1 DEF Again
  <2>6. ASSUME step' = "layer" PROVE Pulling'
    <3>1. art[tag] \in Seq(Layers) /\ art[tag] # <<>>
      BY <1>1, <2>2, <2>6, ArtsAssumption DEF Shapes
    <3>2. art'[ver'] = art[tag] /\ layers' = art[tag]
      BY <1>3, <2>1
    <3>3. Remains(art[tag], art[tag]) /\ Len(art[tag]) - Len(art[tag]) = 0
      BY <3>1 DEF Remains
    <3>4. Holds(dest', ver', Past(art'[ver'], 0))
      BY <1>1, <2>1, PastFacts, HoldsNothing
    <3> QED BY <2>3, <2>6, <3>1, <3>2, <3>3, <3>4 DEF Pulling, LayersRead
  <2> QED BY <2>2, <2>4, <2>5, <2>6 DEF IndInv, Pull
<1> QED BY <1>2, <1>3 DEF Manifest

(* A layer is opened: all its entries remain.                              *)
LEMMA LayerInv == ASSUME IndInv, Layer PROVE IndInv'
<1>1. step = "layer" /\ outcome = "none" /\ Shapes /\ Again /\ Pulling
  BY DEF Layer, IndInv, Pull
<1>2. CASE /\ End("error")
           /\ UNCHANGED <<confVars, tag, now, tokVars, method, hdr, ver, layers, entries, limVars>>
  <2>1. Shapes' /\ Again'
    BY <1>1, <1>2 DEF Shapes, Cached, Again, Newer, End, confVars, tokVars, limVars
  <2> QED BY <1>2, <2>1, EndInv DEF End
<1>3. ASSUME NEW q \in request, Failed(q) PROVE IndInv'
  BY <1>1, <1>3, FailedInv
<1>4. ASSUME NEW q \in request, Succeeded(q), entries' = Head(layers).entries,
             step' = "extract", UNCHANGED <<ver, layers, limVars, outcome>>
      PROVE  IndInv'
  <2>1. /\ Cached(tok', issued', valid') /\ hdr' \in 0 .. issued' /\ refusedTok' \in 0 .. issued'
        /\ attempt' = 2 => Newer(tok'.id, refusedTok') /\ Newer(hdr', refusedTok')
        /\ overdue' = FALSE
        /\ UNCHANGED <<src, method, attempt, refusedTok, dest, auth, ecrHost, dockerConfig,
                       art, tag, now>>
    BY <1>1, <1>4, SucceededFacts
  <2>2. Shapes'
    BY <1>1, <1>4, <2>1 DEF Shapes, limVars
  <2>3. Again'
    BY <2>1 DEF Again
  <2>4. Pulling'
    <3> DEFINE k  == Len(art[ver]) - Len(layers)
               es == Head(layers).entries
    <3>1. /\ LayersRead(k) /\ Holds(dest, ver, Past(art[ver], k))
          /\ nbytes <= MaxBytes /\ nfiles <= MaxFiles
      BY <1>1 DEF Pulling
    <3>2. Head(layers) \in Layers
      BY <3>1 DEF LayersRead
    <3>3. es \in Seq(Entries)
      BY <3>2 DEF Layers
    <3> HIDE DEF k, es
    <3>4. Remains(es, es) /\ Len(es) - Len(es) = 0
      BY <3>3 DEF Remains
    <3>5. Holds(dest, ver, Past(art[ver], k) \cup Read(es, Len(es) - Len(es)))
      BY <3>1, <3>4, ReadFacts
    <3>6. LayersRead(k)'
      BY <1>4, <2>1, <3>1 DEF LayersRead, k
    <3>7. entries' = es /\ (Head(layers).entries)' = es /\ k' = k
      BY <1>4, <2>1 DEF es, k
    <3> QED
      BY <1>4, <2>1, <3>1, <3>3, <3>4, <3>5, <3>6, <3>7 DEF Pulling, limVars, k
  <2> QED BY <1>1, <1>4, <2>2, <2>3, <2>4 DEF IndInv, Pull
<1> QED BY <1>2, <1>3, <1>4 DEF Layer

LEMMA MinOfTwo ==
  ASSUME NEW a \in Int, NEW b \in Int
  PROVE  /\ Min({a, b}) = a \/ Min({a, b}) = b
         /\ Min({a, b}) <= a /\ Min({a, b}) <= b
<1>1. \E x \in {a, b} : \A y \in {a, b} : x =< y
  BY DEF Min
<1>2. Min({a, b}) \in {a, b} /\ \A y \in {a, b} : Min({a, b}) =< y
  BY <1>1, Zenon DEF Min
<1> QED BY <1>2

(* What is written of a file: all of it, or up to one byte past the limit. *)
LEMMA RoomFacts ==
  ASSUME NEW e \in Entries, nbytes \in 0 .. MaxBytes, NEW n, n = Min({e.size, room})
  PROVE  /\ n \in Nat /\ nbytes + n <= MaxBytes + 1
         /\ nbytes + n <= MaxBytes => n = e.size
<1>1. e.size \in Nat
  BY DEF Entries
<1>2. room \in Int /\ room = MaxBytes + 1 - nbytes /\ room > 0
  BY LimitsAssumption DEF room
<1>3. e.size \in Int /\ room \in Int
  BY <1>1, <1>2
<1>4. (n = e.size \/ n = room) /\ n <= e.size /\ n <= room
  BY <1>3, MinOfTwo, Zenon
<1> QED BY <1>1, <1>2, <1>4, LimitsAssumption

(* An entry: what was read of the layer grows by it, and the directory by  *)
(* its file, whole unless it is over the limit, which ends the pull.       *)
LEMMA ExtractInv == ASSUME IndInv, Extract PROVE IndInv'
<1> DEFINE e  == Head(entries)
           n  == Min({e.size, room})
           k  == Len(art[ver]) - Len(layers)
           es == Head(layers).entries
           m  == Len(es) - Len(entries)
           S  == Past(art[ver], k) \cup Read(es, m)
<1>1. /\ step = "extract" /\ entries # <<>> /\ outcome = "none" /\ Shapes /\ Again
      /\ Pulling
      /\ UNCHANGED <<confVars, tag, now, tokVars, method, hdr, ver, layers>>
  BY DEF Extract, IndInv, Pull
<1>2. /\ LayersRead(k) /\ Remains(entries, es) /\ entries \in Seq(Entries)
      /\ Holds(dest, ver, S) /\ nbytes \in 0 .. MaxBytes /\ nfiles \in 0 .. MaxFiles
  <2>1. LayersRead(k) /\ Remains(entries, es) /\ entries \in Seq(Entries) /\ Holds(dest, ver, S)
    BY <1>1 DEF Pulling
  <2>2. nbytes \in 0 .. MaxBytes /\ nfiles \in 0 .. MaxFiles
    BY <1>1, LimitsAssumption DEF Pulling, Shapes
  <2> QED BY <2>1, <2>2
<1>3. es \in Seq(Entries)
  <2>1. Head(layers) \in Layers
    BY <1>2 DEF LayersRead
  <2> QED BY <2>1 DEF Layers
<1> HIDE DEF k, es
<1>4. /\ e = es[m + 1] /\ e \in Entries /\ m \in Nat
      /\ Tail(entries) \in Seq(Entries) /\ Remains(Tail(entries), es)
      /\ Len(es) - Len(Tail(entries)) = m + 1
  BY <1>1, <1>2, <1>3, RemainsFacts
<1>5. /\ n \in Nat /\ nbytes + n <= MaxBytes + 1
      /\ nbytes + n <= MaxBytes => n = e.size
  BY <1>2, <1>4, RoomFacts
<1>6. Past(art[ver], k) \cup Read(es, m + 1) = S \cup {e}
  BY <1>4, ReadFacts
<1> HIDE DEF n, e, S, m
<1>7. ASSUME UNCHANGED <<attempt, refusedTok>>,
             nbytes' \in 0 .. MaxBytes + 1, nfiles' \in 0 .. MaxFiles + 1,
             step' \in {"idle", "extract"}, outcome' \in {"none", "error"}
      PROVE  Shapes' /\ Again'
  BY <1>1, <1>7 DEF Shapes, Cached, Again, Newer, confVars, tokVars
<1>8. ASSUME step' = "extract", entries' = Tail(entries), outcome' = "none",
             UNCHANGED <<attempt, refusedTok>>,
             nbytes' \in 0 .. MaxBytes, nfiles' \in 0 .. MaxFiles,
             Holds(dest', ver, S \cup {e})
      PROVE  IndInv'
  <2>1. UNCHANGED <<art, ver, layers>>
    BY <1>1 DEF confVars
  <2>2. k' = k /\ es' = es /\ LayersRead(k)' /\ (Len(art[ver]) - Len(layers))' = k
    BY <1>2, <2>1 DEF k, es, LayersRead
  <2>3. Holds(dest', ver', Past(art'[ver'], k) \cup Read(es, Len(es) - Len(entries')))
    BY <1>4, <1>6, <1>8, <2>1
  <2>4. (Head(layers).entries)' = es
    BY <2>1 DEF es
  <2>5. Pulling'
    <3>1. nbytes' <= MaxBytes /\ nfiles' <= MaxFiles
      BY <1>8, LimitsAssumption
    <3>2. step' = "extract" /\ entries' \in Seq(Entries) /\ Remains(entries', es)
      BY <1>4, <1>8
    <3>3. (Len(art[ver]) - Len(layers))' = k /\ LayersRead(Len(art[ver]) - Len(layers))'
      BY <2>2 DEF k
    <3> HIDE DEF LayersRead
    <3> QED BY <2>3, <2>4, <3>1, <3>2, <3>3 DEF Pulling
  <2>6. Shapes' /\ Again'
    BY <1>7, <1>8, LimitsAssumption
  <2> QED BY <1>8, <2>5, <2>6 DEF IndInv, Pull
<1>9. CASE /\ e.kind = "dir" /\ entries' = Tail(entries)
           /\ UNCHANGED <<step, attempt, refusedTok, dest, outcome, limVars>>
  <2>1. Holds(dest', ver, S \cup {e})
    BY <1>2, <1>9, HoldsMore
  <2> QED BY <1>1, <1>2, <1>8, <1>9, <2>1 DEF limVars
<1>10. CASE e.kind = "refused" /\ End("error") /\ UNCHANGED <<entries, limVars>>
  <2>1. Shapes' /\ Again'
    BY <1>1, <1>7, <1>10 DEF End, limVars, Shapes
  <2> QED BY <1>10, <2>1, EndInv DEF End
<1>11. CASE /\ e.kind = "file" /\ nfiles' = nfiles + 1 /\ End("error") /\ UNCHANGED nbytes
  <2>1. Shapes' /\ Again'
    BY <1>2, <1>7, <1>11, LimitsAssumption DEF End
  <2> QED BY <1>11, <2>1, EndInv DEF End
<1>12. CASE /\ e.kind = "file" /\ nfiles' = nfiles + 1 /\ entries' = Tail(entries)
            /\ ~tooMany(nfiles + 1) /\ nbytes' = nbytes + n
            /\ dest' = dest \cup {[ver |-> ver, path |-> e.path, size |-> n]}
            /\ IF nbytes + n > MaxBytes
               THEN step' = "idle" /\ outcome' = "error"
               ELSE UNCHANGED <<step, outcome>>
            /\ UNCHANGED <<attempt, refusedTok>>
  <2>1. nbytes' \in 0 .. MaxBytes + 1 /\ nfiles' \in 0 .. MaxFiles
    BY <1>2, <1>5, <1>12, LimitsAssumption DEF tooMany
  <2>2. CASE nbytes + n > MaxBytes
    <3>1. Shapes' /\ Again'
      BY <1>7, <1>12, <2>1, <2>2, LimitsAssumption
    <3> QED BY <1>12, <2>2, <3>1, EndInv
  <2>3. CASE ~(nbytes + n > MaxBytes)
    <3>1. nbytes' \in 0 .. MaxBytes /\ n = e.size
      BY <1>2, <1>5, <1>12, <2>1, <2>3, LimitsAssumption
    <3>2. Holds(dest', ver, S \cup {e})
      BY <1>2, <1>12, <3>1, HoldsMore
    <3> QED BY <1>1, <1>8, <1>12, <2>1, <2>3, <3>1, <3>2
  <2> QED BY <2>2, <2>3
<1> QED BY <1>9, <1>10, <1>11, <1>12 DEF Extract, e, n

(* The end of a layer.                                                     *)
LEMMA VerifyInv == ASSUME IndInv, Verify PROVE IndInv'
<1> DEFINE all == art[ver]
           k   == Len(all) - Len(layers)
           es  == Head(layers).entries
<1>1. /\ step = "extract" /\ entries = <<>> /\ outcome = "none" /\ Shapes /\ Again
      /\ Pulling /\ layers' = Tail(layers)
      /\ UNCHANGED <<confVars, tag, now, tokVars, method, hdr, ver, attempt,
                     refusedTok, entries, dest, limVars>>
      /\ \/ step' = "idle" /\ outcome' = "error"
         \/ Head(layers).intact /\ Len(layers) = 1 /\ step' = "idle" /\ outcome' = "ok"
         \/ Head(layers).intact /\ Len(layers) # 1 /\ step' = "layer" /\ outcome' = outcome
  BY DEF Verify, IndInv, Pull
<1>2. Shapes' /\ Again'
  BY <1>1 DEF Shapes, Cached, Again, Newer, confVars, tokVars, limVars
<1>3. /\ LayersRead(k) /\ Holds(dest, ver, Past(all, k) \cup Read(es, Len(es) - Len(entries)))
      /\ nbytes <= MaxBytes /\ nfiles <= MaxFiles
  BY <1>1 DEF Pulling
<1>4. /\ all \in Seq(Layers) /\ layers \in Seq(Layers) /\ layers # <<>> /\ Remains(layers, all)
      /\ \A i \in 1 .. k : all[i].intact
  BY <1>1, <1>3, ArtsAssumption DEF LayersRead, Shapes
<1> HIDE DEF all
<1>5. /\ Head(layers) = all[k + 1] /\ Head(layers) \in Layers /\ k \in Nat
      /\ Tail(layers) \in Seq(Layers) /\ Len(Tail(layers)) = Len(layers) - 1
      /\ Remains(Tail(layers), all) /\ Len(all) - Len(Tail(layers)) = k + 1
      /\ Len(layers) \in Nat /\ Len(all) \in Nat
  <2>1. Len(layers) \in Nat /\ Len(all) \in Nat
    BY <1>4
  <2> QED BY <1>4, <2>1, RemainsFacts
<1>6. es \in Seq(Entries) /\ Len(es) - Len(entries) = Len(es)
  BY <1>1, <1>5 DEF Layers
<1>7. Holds(dest, ver, Past(all, k + 1))
  <2>1. Past(all, k + 1) =
          Past(all, k) \cup Read(all[k + 1].entries, Len(all[k + 1].entries))
    BY <1>5, PastFacts
  <2>2. Past(all, k + 1) = Past(all, k) \cup Read(es, Len(es) - Len(entries))
    BY ONLY <1>5, <1>6, <2>1
  <2> QED BY <1>3, <2>2
<1>8. Head(layers).intact => \A i \in 1 .. k + 1 : all[i].intact
  BY <1>4, <1>5
<1>9. UNCHANGED <<art, ver, dest, nbytes, nfiles>> /\ art'[ver'] = all
  BY <1>1 DEF confVars, limVars, all
<1>10. CASE step' = "idle" /\ outcome' = "error"
  BY <1>2, <1>10, EndInv
<1>11. CASE Head(layers).intact /\ Len(layers) = 1 /\ step' = "idle" /\ outcome' = "ok"
  <2>1. Len(all) = k + 1
    BY <1>5, <1>11
  <2>2. Holds(dest', ver', Past(art'[ver'], Len(art'[ver'])))
    BY <1>7, <1>9, <2>1
  <2>3. \A i \in 1 .. Len(art'[ver']) : art'[ver'][i].intact
    BY <1>8, <1>9, <1>11, <2>1
  <2> QED BY <1>2, <1>11, <2>2, <2>3 DEF IndInv, Pull
<1>12. CASE Head(layers).intact /\ Len(layers) # 1 /\ step' = "layer" /\ outcome' = outcome
  <2>1. layers' # <<>> /\ layers' \in Seq(Layers) /\ Remains(layers', all)
        /\ Len(all) - Len(layers') = k + 1
    <3>1. Len(layers') # 0
      BY <1>1, <1>4, <1>5, <1>12
    <3> QED BY <1>1, <1>5, <3>1
  <2> HIDE DEF k
  <2>2. Pulling'
    BY <1>3, <1>7, <1>8, <1>9, <1>12, <2>1 DEF Pulling, LayersRead
  <2> QED BY <1>1, <1>2, <1>12, <2>2 DEF IndInv, Pull
<1> QED BY <1>1, <1>10, <1>11, <1>12

(* The tag moves, a token is revoked, time passes: the pull is as it was.  *)
LEMMA WorldInv ==
  ASSUME IndInv, tag' \in Versions, now' \in 0 .. MaxNow, valid' \subseteq valid,
         UNCHANGED <<confVars, src, tok, issued, overdue, step, attempt, method, hdr,
                     refusedTok, ver, layers, entries, dest, limVars, outcome>>
  PROVE  IndInv'
<1>1. Shapes'
  BY DEF IndInv, Shapes, Cached, confVars, limVars
<1>2. Again'
  BY DEF IndInv, Again, Newer
<1>3. Pulling => Pulling'
  BY DEF Pulling, LayersRead, confVars, limVars
<1>4. Pull'
  BY <1>3 DEF IndInv, Pull, confVars
<1> QED BY <1>1, <1>2, <1>4 DEF IndInv

LEMMA NextInv == ASSUME IndInv, [Next]_vars PROVE IndInv'
<1>1. /\ tag \in Versions /\ now \in 0 .. MaxNow
      /\ now < MaxNow => now + 1 \in 0 .. MaxNow
  BY LimitsAssumption DEF IndInv, Shapes
<1>2. CASE MoveTag
  BY <1>1, <1>2, WorldInv DEF MoveTag, tokVars
<1>3. CASE Revoke
  BY <1>1, <1>3, WorldInv DEF Revoke
<1>4. CASE Tick
  BY <1>1, <1>4, WorldInv DEF Tick, tokVars
<1>5. CASE UNCHANGED vars
  BY <1>1, <1>5, WorldInv DEF vars, tokVars
<1> QED
  BY <1>2, <1>3, <1>4, <1>5, BeginInv, ClientInv, ManifestInv, LayerInv, ExtractInv, VerifyInv
  DEF Next

-----------------------------------------------------------------------------
(* The theorems. *)

LEMMA Inductive == Spec => []IndInv
<1>1. IndInv /\ [Next]_vars => IndInv'
  BY NextInv
<1> QED BY <1>1, InitInv, PTL DEF Spec

\* The state of a pull has its type, the tokens are among those issued, and the
\* counters stop at one past their limits.
THEOREM TypeCorrect == Spec => []TypeOK
<1>1. IndInv => TypeOK
  <2>1. IndInv => overdue \in BOOLEAN
    BY DEF IndInv, Again
  <2> QED BY <2>1, LimitsAssumption DEF IndInv, Shapes, Cached, TypeOK
<1> QED BY <1>1, Inductive, PTL

\* The source gives out no token past the expiry recorded for it, although a failed
\* refresh falls back to the cached one (get), and in the repetition the client never
\* holds the token that was refused (refused, pullWith).
THEOREM TokensStayGood == Spec => []TokenIsGood
<1>1. IndInv => TokenIsGood
  <2> SUFFICES ASSUME IndInv PROVE TokenIsGood
    OBVIOUS
  <2>1. refusedTok \in Int /\ hdr \in Int
    BY DEF IndInv, Shapes, Cached
  <2>2. attempt = 2 /\ step # "client" /\ hdr # 0 => hdr # refusedTok
    BY <2>1 DEF IndInv, Again, Newer
  <2> QED BY <2>2 DEF IndInv, Again, TokenIsGood
<1> QED BY <1>1, Inductive, PTL

(* The entries of an artifact, as the property has them.                   *)
LEMMA AllEntries ==
  ASSUME NEW all \in Seq(Layers)
  PROVE  Past(all, Len(all)) =
           UNION {{l.entries[j] : j \in DOMAIN l.entries} : l \in {all[i] : i \in DOMAIN all}}
<1> DEFINE R(i) == Read(all[i].entries, Len(all[i].entries))
           D(l) == {l.entries[j] : j \in DOMAIN l.entries}
           ls   == {all[i] : i \in DOMAIN all}
<1>1. DOMAIN all = 1 .. Len(all)
  OBVIOUS
<1>2. ASSUME NEW i \in DOMAIN all PROVE R(i) = D(all[i])
  <2>1. all[i] \in Layers
    BY <1>2
  <2>2. DOMAIN all[i].entries = 1 .. Len(all[i].entries)
    BY <2>1 DEF Layers
  <2> QED BY <2>2 DEF Read
<1> HIDE DEF R, D
<1>3. ASSUME NEW e
      PROVE  e \in UNION {R(i) : i \in DOMAIN all} <=> e \in UNION {D(l) : l \in ls}
  <2>1. e \in UNION {R(i) : i \in DOMAIN all} <=> \E i \in DOMAIN all : e \in R(i)
    BY Zenon
  <2>2. e \in UNION {D(l) : l \in ls} <=> \E l \in ls : e \in D(l)
    BY Zenon
  <2>3. (\E l \in ls : e \in D(l)) <=> \E i \in DOMAIN all : e \in D(all[i])
    BY Zenon
  <2> QED BY <1>2, <2>1, <2>2, <2>3, Zenon
<1> DEFINE U == UNION {R(i) : i \in DOMAIN all}
           V == UNION {D(l) : l \in ls}
<1>4. U = V
  <2>1. ASSUME NEW e PROVE e \in U <=> e \in V
    BY <1>3
  <2> HIDE DEF U, V
  <2> QED BY <2>1
<1>5. U = Past(all, Len(all))
  BY <1>1 DEF Past, R
<1> QED BY <1>4, <1>5 DEF D

\* A pull that succeeds has left exactly the files of one manifest, whole, whatever
\* was refused, repeated or moved meanwhile.
THEOREM PullIsComplete == Spec => []CompleteArtifact
<1>1. IndInv => CompleteArtifact
  <2> SUFFICES ASSUME IndInv, outcome = "ok" PROVE CompleteArtifact
    BY DEF CompleteArtifact
  <2> DEFINE all == art[ver]
             S   == Past(all, Len(all))
             ls  == {all[i] : i \in DOMAIN all}
  <2>1. /\ all \in Seq(Layers) /\ Holds(dest, ver, S)
        /\ \A i \in 1 .. Len(all) : all[i].intact
    BY ArtsAssumption DEF IndInv, Shapes, Pull
  <2>2. S = UNION {{l.entries[j] : j \in DOMAIN l.entries} : l \in ls}
    BY <2>1, AllEntries
  <2>3. \A l \in ls : l.intact
    BY <2>1
  <2> HIDE DEF S
  <2>4. /\ dest = {[ver |-> ver, path |-> e.path, size |-> e.size] : e \in {x \in S : x.kind = "file"}}
        /\ \A e \in S : e.kind # "refused"
    BY <2>1 DEF Holds, Files
  <2> QED BY <2>2, <2>3, <2>4, Zenon DEF CompleteArtifact
<1> QED BY <1>1, Inductive, PTL

-----------------------------------------------------------------------------
(* The limits. *)

(* Induction, on a set of numbers.                                         *)
LEMMA NatSteps ==
  ASSUME NEW I \in SUBSET Nat, 0 \in I, \A n \in I : n + 1 \in I
  PROVE  I = Nat
<1> SUFFICES ASSUME NEW m \in Nat \ I PROVE FALSE
  OBVIOUS
<1>1. PICK n \in Nat \ I : \A y \in Nat \ I : <<y, n>> \notin OpToRel(<, Nat)
  BY NatLessThanWellFounded, WFMin
<1>2. n - 1 \in Nat /\ n - 1 < n /\ (n - 1) + 1 = n
  <2>1. n \in Nat /\ n # 0
    BY ONLY <1>1, 0 \in I
  <2> QED BY ONLY <2>1
<1>3. n - 1 \notin I
  BY <1>1, <1>2
<1>4. <<n - 1, n>> \in OpToRel(<, Nat)
  BY <1>1, <1>2 DEF OpToRel
<1> QED BY <1>1, <1>2, <1>3, <1>4

(* FoldSet's recursion, for the sum of the sizes of the files in S.        *)
Pick(s) == CHOOSE x \in s : TRUE
Sizes(S) == IsFiniteSet(S) /\ \A x \in S : x.size \in Nat
Body(S, g) == [s \in SUBSET S |-> IF s = {} THEN 0 ELSE g[s \ {Pick(s)}] + Pick(s).size]
Iter(S) == CHOOSE g : g = Body(S, g)

LEMMA TotalIs == ASSUME NEW S PROVE Total(S) = Iter(S)[S]
BY DEF Total, FoldSet, MapThenFoldSet, Iter, Body, Pick

LEMMA PickIs == ASSUME NEW s, s # {} PROVE Pick(s) \in s
BY Zenon DEF Pick

LEMMA Subsets ==
  ASSUME NEW S, IsFiniteSet(S), NEW s \in SUBSET S
  PROVE  /\ IsFiniteSet(s) /\ Cardinality(s) \in Nat /\ (Cardinality(s) = 0 <=> s = {})
         /\ \A x \in s : s \ {x} \in SUBSET S /\ Cardinality(s \ {x}) = Cardinality(s) - 1
BY FS_Subset, FS_CardinalityType, FS_EmptySet, FS_RemoveElement

(* The recursion has a solution: one for the subsets of up to n elements   *)
(* gives one for those of up to n + 1.                                     *)
LEMMA IterExists ==
  ASSUME NEW S, Sizes(S)
  PROVE  Iter(S) = Body(S, Iter(S))
<1> DEFINE Eq(g, s) == g[s] = IF s = {} THEN 0 ELSE g[s \ {Pick(s)}] + Pick(s).size
           Upto(g, n) == \A s \in SUBSET S : Cardinality(s) <= n => Eq(g, s)
           I == {n \in Nat : \E g : Upto(g, n)}
<1>1. 0 \in I
  <2> DEFINE g == [s \in SUBSET S |-> 0]
  <2>1. Upto(g, 0)
    BY Subsets DEF Sizes
  <2> QED BY <2>1
<1>2. ASSUME NEW n \in I PROVE n + 1 \in I
  <2>1. PICK g : Upto(g, n)
    BY <1>2
  <2> DEFINE h == Body(S, g)
  <2>2. ASSUME NEW s \in SUBSET S
        PROVE  h[s] = IF s = {} THEN 0 ELSE g[s \ {Pick(s)}] + Pick(s).size
    BY DEF Body
  <2>3. ASSUME NEW s \in SUBSET S, Cardinality(s) <= n PROVE h[s] = g[s]
    BY <2>1, <2>2, <2>3
  <2> HIDE DEF h
  <2>4. ASSUME NEW s \in SUBSET S, Cardinality(s) <= n + 1 PROVE Eq(h, s)
    <3>1. CASE s = {}
      BY <2>2, <3>1
    <3>2. CASE s # {}
      <4>1. /\ s \ {Pick(s)} \in SUBSET S /\ Cardinality(s \ {Pick(s)}) = Cardinality(s) - 1
            /\ Cardinality(s) \in Nat
        BY <3>2, PickIs, Subsets DEF Sizes
      <4>2. Cardinality(s \ {Pick(s)}) <= n
        BY <2>4, <4>1
      <4>3. h[s \ {Pick(s)}] = g[s \ {Pick(s)}]
        BY <2>3, <4>1, <4>2
      <4> QED BY <2>2, <4>3
    <3> QED BY <3>1, <3>2
  <2>5. Upto(h, n + 1) /\ n + 1 \in Nat
    BY <1>2, <2>4
  <2> HIDE DEF Upto
  <2> QED BY <2>5
<1>3. Cardinality(S) \in I
  <2>1. I = Nat
    <3> HIDE DEF I
    <3>1. I \in SUBSET Nat
      BY DEF I
    <3> QED BY <1>1, <1>2, <3>1, NatSteps
  <2>2. Cardinality(S) \in Nat
    BY Subsets DEF Sizes
  <2> HIDE DEF I
  <2> QED BY <2>1, <2>2
<1>4. PICK g : Upto(g, Cardinality(S))
  BY <1>3
<1>5. ASSUME NEW s \in SUBSET S PROVE Eq(g, s)
  BY <1>4, FS_Subset DEF Sizes
<1> DEFINE h == [s \in SUBSET S |-> g[s]]
<1>6. h = Body(S, h)
  <2>1. ASSUME NEW s \in SUBSET S
        PROVE  h[s] = IF s = {} THEN 0 ELSE h[s \ {Pick(s)}] + Pick(s).size
    <3>1. s \ {Pick(s)} \in SUBSET S
      OBVIOUS
    <3> QED BY <1>5, <3>1
  <2> HIDE DEF h
  <2>2. Body(S, h) = [s \in SUBSET S |-> h[s]]
    BY <2>1 DEF Body
  <2> QED BY <2>2 DEF h
<1> HIDE DEF h
<1> QED BY <1>6, Zenon DEF Iter

LEMMA IterFacts ==
  ASSUME NEW S, Sizes(S), NEW s \in SUBSET S
  PROVE  /\ s = {} => Iter(S)[s] = 0
         /\ s # {} => /\ Pick(s) \in s /\ s \ {Pick(s)} \in SUBSET S
                      /\ Iter(S)[s] = Iter(S)[s \ {Pick(s)}] + Pick(s).size
<1> DEFINE g == Iter(S)
<1>1. g = Body(S, g)
  BY IterExists
<1> HIDE DEF g
<1>2. Body(S, g)[s] = IF s = {} THEN 0 ELSE g[s \ {Pick(s)}] + Pick(s).size
  BY DEF Body
<1> QED BY <1>1, <1>2, PickIs DEF g

(* A sum over a set does not depend on the order, nor on the set that the  *)
(* recursion was set up for.                                               *)
LEMMA IterAny ==
  ASSUME NEW S, Sizes(S), NEW U \in SUBSET S
  PROVE  /\ Iter(S)[U] \in Nat
         /\ \A x \in U : Iter(S)[U] = Iter(S)[U \ {x}] + x.size
<1> DEFINE g == Iter(S)
           P(s) == g[s] \in Nat /\ \A x \in s : g[s] = g[s \ {x}] + x.size
           I == {n \in Nat : \A s \in SUBSET S : Cardinality(s) <= n => P(s)}
<1> HIDE DEF g
<1>1. ASSUME NEW s \in SUBSET S
      PROVE  /\ s = {} => g[s] = 0
             /\ s # {} => /\ Pick(s) \in s /\ s \ {Pick(s)} \in SUBSET S
                          /\ g[s] = g[s \ {Pick(s)}] + Pick(s).size
  BY IterFacts DEF g
<1>2. ASSUME NEW s \in SUBSET S
      PROVE  /\ IsFiniteSet(s) /\ Cardinality(s) \in Nat /\ (Cardinality(s) = 0 <=> s = {})
             /\ \A x \in s : s \ {x} \in SUBSET S /\ Cardinality(s \ {x}) = Cardinality(s) - 1
             /\ \A x \in s : x.size \in Nat
  BY Subsets DEF Sizes
<1>3. 0 \in I
  <2>1. ASSUME NEW s \in SUBSET S, Cardinality(s) <= 0 PROVE P(s)
    <3>1. s = {}
      BY <1>2, <2>1
    <3>2. g[s] = 0
      BY <1>1, <3>1
    <3> QED BY <3>1, <3>2
  <2> HIDE DEF P
  <2> QED BY <2>1
<1>4. ASSUME NEW n \in I PROVE n + 1 \in I
  <2>1. ASSUME NEW s \in SUBSET S, Cardinality(s) <= n PROVE P(s)
    BY <1>4, <2>1
  <2>2. ASSUME NEW s \in SUBSET S, Cardinality(s) <= n + 1 PROVE P(s)
    <3>1. CASE s = {}
      <4>1. g[s] = 0
        BY <1>1, <3>1
      <4> QED BY <3>1, <4>1
    <3>2. CASE s # {}
      <4> DEFINE p == Pick(s)
      <4>1. /\ p \in s /\ s \ {p} \in SUBSET S /\ g[s] = g[s \ {p}] + p.size
        BY <1>1, <3>2
      <4> HIDE DEF p
      <4>2. \A x \in s : /\ s \ {x} \in SUBSET S /\ Cardinality(s \ {x}) <= n
                          /\ x.size \in Nat
        BY <1>2, <1>4, <2>2
      <4>3. \A x \in s : P(s \ {x})
        BY <2>1, <4>2
      <4>4. g[s] \in Nat
        BY <4>1, <4>2, <4>3
      <4>5. ASSUME NEW x \in s PROVE g[s] = g[s \ {x}] + x.size
        <5>1. CASE x = p
          BY <4>1, <5>1
        <5>2. CASE x # p
          <6> DEFINE r == s \ {x, p}
          <6>1. (s \ {p}) \ {x} = r /\ (s \ {x}) \ {p} = r /\ x \in s \ {p} /\ p \in s \ {x}
            BY <4>1, <5>2
          <6> HIDE DEF r
          <6>2. g[s \ {p}] = g[r] + x.size /\ g[s \ {x}] = g[r] + p.size
            <7> HIDE DEF P
            <7>1. P(s \ {p}) /\ P(s \ {x})
              BY <4>1, <4>3
            <7> USE DEF P
            <7>2. g[s \ {p}] = g[(s \ {p}) \ {x}] + x.size
              BY ONLY <6>1, <7>1
            <7>3. g[s \ {x}] = g[(s \ {x}) \ {p}] + p.size
              BY ONLY <6>1, <7>1
            <7> QED BY ONLY <6>1, <7>2, <7>3
          <6>3. P(s \ {p}) /\ P(s \ {x}) /\ r \in SUBSET S /\ Cardinality(r) <= n
            <7>1. r \in SUBSET S /\ Cardinality(r) = Cardinality(s \ {p}) - 1
              BY <1>2, <4>1, <6>1
            <7>2. Cardinality(s \ {p}) \in Nat /\ Cardinality(s \ {p}) <= n /\ n \in Nat
              BY <1>2, <1>4, <4>1, <4>2
            <7> HIDE DEF P
            <7> QED BY <4>1, <4>3, <7>1, <7>2
          <6>4. g[r] \in Nat
            BY <2>1, <6>3
          <6> QED BY <4>1, <4>2, <6>2, <6>4
        <5> QED BY <5>1, <5>2
      <4> QED BY <4>4, <4>5
    <3> QED BY <3>1, <3>2
  <2>3. n + 1 \in Nat
    BY <1>4
  <2> HIDE DEF P
  <2> QED BY <2>2, <2>3
<1>5. Cardinality(U) \in I
  <2>1. I = Nat
    <3> HIDE DEF I
    <3>1. I \in SUBSET Nat
      BY DEF I
    <3> QED BY <1>3, <1>4, <3>1, NatSteps
  <2>2. Cardinality(U) \in Nat
    BY <1>2
  <2> HIDE DEF I
  <2> QED BY <2>1, <2>2
<1>6. P(U)
  <2> HIDE DEF P
  <2>1. Cardinality(U) \in Nat
    BY <1>2
  <2> QED BY <1>5, <2>1
<1> QED BY <1>6 DEF g

LEMMA IterSame ==
  ASSUME NEW S, Sizes(S), NEW U \in SUBSET S
  PROVE  Iter(S)[U] = Iter(U)[U]
<1> DEFINE g == Iter(S)
           h == Iter(U)
           I == {n \in Nat : \A s \in SUBSET U : Cardinality(s) <= n => g[s] = h[s]}
<1>1. Sizes(U)
  BY FS_Subset DEF Sizes
<1>2. ASSUME NEW s \in SUBSET U
      PROVE  /\ s = {} => g[s] = 0 /\ h[s] = 0
             /\ s # {} => /\ Pick(s) \in s /\ s \ {Pick(s)} \in SUBSET U
                          /\ g[s] = g[s \ {Pick(s)}] + Pick(s).size
                          /\ h[s] = h[s \ {Pick(s)}] + Pick(s).size
  <2>1. s \in SUBSET S
    OBVIOUS
  <2> QED BY <1>1, <2>1, IterFacts
<1> HIDE DEF g, h
<1>3. ASSUME NEW s \in SUBSET U
      PROVE  /\ Cardinality(s) \in Nat /\ (Cardinality(s) = 0 <=> s = {})
             /\ \A x \in s : Cardinality(s \ {x}) = Cardinality(s) - 1
  BY <1>1, Subsets DEF Sizes
<1>4. 0 \in I
  BY <1>2, <1>3
<1>5. ASSUME NEW n \in I PROVE n + 1 \in I
  <2>1. ASSUME NEW s \in SUBSET U, Cardinality(s) <= n + 1 PROVE g[s] = h[s]
    <3>1. CASE s = {}
      BY <1>2, <3>1
    <3>2. CASE s # {}
      <4>1. s \ {Pick(s)} \in SUBSET U /\ Cardinality(s \ {Pick(s)}) <= n
        <5>1. Pick(s) \in s /\ s \ {Pick(s)} \in SUBSET U
          BY <1>2, <3>2
        <5>2. Cardinality(s) \in Nat /\ Cardinality(s \ {Pick(s)}) = Cardinality(s) - 1
          BY <1>3, <5>1
        <5>3. n \in Nat
          BY <1>5
        <5> QED BY <2>1, <5>1, <5>2, <5>3
      <4>2. g[s \ {Pick(s)}] = h[s \ {Pick(s)}]
        BY <1>5, <4>1
      <4> QED BY <1>2, <3>2, <4>2
    <3> QED BY <3>1, <3>2
  <2> QED BY <1>5, <2>1
<1>6. I = Nat
  <2> HIDE DEF I
  <2>1. I \in SUBSET Nat
    BY DEF I
  <2> QED BY <1>4, <1>5, <2>1, NatSteps
<1>7. Cardinality(U) \in Nat
  BY <1>3
<1> QED BY <1>6, <1>7 DEF g, h

(* The sum of the sizes, file by file.                                     *)
LEMMA TotalFacts ==
  /\ Total({}) = 0
  /\ \A S, x : Sizes(S) /\ x \notin S /\ x.size \in Nat =>
       /\ Sizes(S \cup {x}) /\ Total(S) \in Nat
       /\ Total(S \cup {x}) = Total(S) + x.size
<1>1. Sizes({}) /\ {} \in SUBSET {}
  BY FS_EmptySet DEF Sizes
<1>2. Total({}) = 0
  BY <1>1, IterFacts, TotalIs
<1>3. ASSUME NEW S, NEW x, Sizes(S), x \notin S, x.size \in Nat
      PROVE  /\ Sizes(S \cup {x}) /\ Total(S) \in Nat
             /\ Total(S \cup {x}) = Total(S) + x.size
  <2> DEFINE R == S \cup {x}
  <2>1. Sizes(R) /\ S \in SUBSET R /\ R \in SUBSET R /\ x \in R /\ R \ {x} = S
    BY <1>3, FS_AddElement DEF Sizes
  <2> HIDE DEF R
  <2>2. Iter(R)[R] = Iter(R)[S] + x.size /\ Iter(R)[S] \in Nat
    BY <2>1, IterAny
  <2>3. Iter(R)[S] = Iter(S)[S]
    BY <2>1, IterSame
  <2> QED BY <2>1, <2>2, <2>3, TotalIs DEF R
<1> QED BY <1>2, <1>3

(* While layers are read, and after a pull that succeeded, the counters    *)
(* are those of the directory.                                             *)
Counted ==
  /\ Total(dest) = nbytes /\ nbytes <= MaxBytes
  /\ Cardinality(dest) <= nfiles /\ nfiles <= MaxFiles

Bounded ==
  /\ Sizes(dest) /\ Total(dest) <= MaxBytes + 1
  /\ step \in {"layer", "extract"} \/ outcome = "ok" => Counted

LEMMA EmptyDirectory ==
  Sizes({}) /\ Total({}) = 0 /\ Total({}) <= MaxBytes + 1 /\ Cardinality({}) = 0
BY TotalFacts, FS_EmptySet, LimitsAssumption DEF Sizes

(* The counters stay right where the directory is left alone,              *)
LEMMA BoundedSame ==
  ASSUME Bounded, dest' = dest,
         step' \in {"layer", "extract"} \/ outcome' = "ok" =>
           (step \in {"layer", "extract"} \/ outcome = "ok") /\ UNCHANGED <<nbytes, nfiles>>
  PROVE  Bounded'
BY DEF Bounded, Counted

(* and where it is emptied.                                                *)
LEMMA BoundedEmpty ==
  ASSUME dest' = {}, step' \in {"idle", "client"}, outcome' # "ok"
  PROVE  Bounded'
BY EmptyDirectory DEF Bounded

LEMMA BoundedFailed ==
  ASSUME IndInv, Bounded, step \in {"manifest", "layer"}, NEW q \in request, Failed(q)
  PROVE  Bounded'
<1>1. outcome = "none" /\ q.res # "ok"
  BY DEF IndInv, Pull, Failed
<1>2. CASE Retry(q.hdr)
  BY <1>1, <1>2, BoundedEmpty DEF Retry, retryDest
<1>3. CASE End(q.res)
  BY <1>1, <1>3, BoundedSame DEF End
<1> QED BY <1>2, <1>3 DEF Failed

LEMMA BoundedExtract == ASSUME IndInv, Bounded, Extract PROVE Bounded'
<1> DEFINE e == Head(entries)
           n == Min({e.size, room})
           x == [ver |-> ver, path |-> e.path, size |-> n]
<1>1. step = "extract" /\ entries # <<>> /\ Pulling /\ Shapes /\ Counted /\ outcome = "none"
  BY DEF Extract, IndInv, Pull, Bounded
<1>2. e \in Entries /\ nbytes \in 0 .. MaxBytes /\ nfiles \in Nat
  <2>1. entries \in Seq(Entries)
    BY <1>1 DEF Pulling
  <2> QED BY <1>1, <2>1, LimitsAssumption DEF Pulling, Shapes
<1>3. n \in Nat /\ nbytes + n <= MaxBytes + 1
  BY <1>2, RoomFacts
<1>4. x.size = n /\ x.path = e.path
  OBVIOUS
<1> HIDE DEF e, n, x
<1>5. CASE UNCHANGED <<step, attempt, refusedTok, dest, outcome, limVars>>
  BY <1>5, BoundedSame DEF limVars
<1>6. CASE End("error")
  BY <1>6, BoundedSame DEF End
<1>7. CASE /\ nfiles' = nfiles + 1 /\ ~tooMany(nfiles + 1) /\ ~(\E f \in dest : f.path = e.path)
           /\ nbytes' = nbytes + n /\ dest' = dest \cup {x}
           /\ IF nbytes + n > MaxBytes
              THEN step' = "idle" /\ outcome' = "error"
              ELSE UNCHANGED <<step, outcome>>
  <2>1. x \notin dest
    BY <1>4, <1>7
  <2>2. Sizes(dest) /\ IsFiniteSet(dest) /\ Total(dest) = nbytes /\ Cardinality(dest) <= nfiles
    BY <1>1 DEF Bounded, Counted, Sizes
  <2>3. Sizes(dest') /\ Total(dest') = nbytes'
    BY <1>3, <1>4, <1>7, <2>1, <2>2, TotalFacts
  <2>4. Cardinality(dest') <= nfiles'
    <3>1. Cardinality(dest') = Cardinality(dest) + 1 /\ Cardinality(dest) \in Nat
      BY <1>7, <2>1, <2>2, FS_AddElement, FS_CardinalityType
    <3> QED BY <1>2, <1>7, <2>2, <3>1
  <2>5. nfiles' <= MaxFiles
    BY <1>2, <1>7, LimitsAssumption DEF tooMany
  <2>6. step' # "idle" => nbytes' <= MaxBytes
    BY <1>2, <1>3, <1>7, LimitsAssumption
  <2>7. outcome' # "ok" /\ Total(dest') <= MaxBytes + 1
    BY <1>1, <1>3, <1>7, <2>3
  <2> QED BY <2>3, <2>4, <2>5, <2>6, <2>7 DEF Bounded, Counted
<1> QED BY <1>5, <1>6, <1>7 DEF Extract, e, n, x

LEMMA BoundedNext == ASSUME IndInv, Bounded, [Next]_vars PROVE Bounded'
<1>1. CASE Begin
  BY <1>1, BoundedEmpty DEF Begin
<1>2. CASE Client
  <2>1. outcome = "none"
    BY <1>2 DEF Client, IndInv, Pull
  <2>2. dest' = dest /\ step' \in {"idle", "manifest"} /\ outcome' # "ok"
    BY <1>2, <2>1 DEF Client, End
  <2> QED BY <2>2, BoundedSame
<1>3. CASE Manifest
  <2>1. step = "manifest" /\ dest = {} /\ outcome = "none"
    BY <1>3 DEF Manifest, IndInv, Pull
  <2>2. ASSUME NEW q \in request, Succeeded(q), nbytes' = 0, nfiles' = 0,
               IF art[tag] = <<>> THEN step' = "idle" /\ outcome' = "error"
               ELSE step' = "layer" /\ UNCHANGED outcome
        PROVE  Bounded'
    <3>1. dest' = {}
      BY <2>1, <2>2 DEF Succeeded
    <3>2. Counted'
      BY <2>2, <3>1, EmptyDirectory, LimitsAssumption DEF Counted
    <3> QED BY <3>1, <3>2, EmptyDirectory DEF Bounded
  <2> QED BY <1>3, <2>1, <2>2, BoundedFailed DEF Manifest
<1>4. CASE Layer
  <2>1. step = "layer" /\ outcome = "none"
    BY <1>4 DEF Layer, IndInv, Pull
  <2>2. CASE End("error")
    BY <2>2, BoundedSame DEF End
  <2>3. ASSUME NEW q \in request, Succeeded(q), UNCHANGED <<limVars, outcome>>, step' = "extract"
        PROVE  Bounded'
    BY <2>1, <2>3, BoundedSame DEF Succeeded, limVars
  <2> QED BY <1>4, <2>1, <2>2, <2>3, BoundedFailed DEF Layer
<1>5. CASE Verify
  BY <1>5, BoundedSame DEF Verify, limVars
<1>6. CASE MoveTag \/ Revoke \/ Tick \/ UNCHANGED vars
  BY <1>6, BoundedSame DEF MoveTag, Revoke, Tick, vars, limVars
<1> QED BY <1>1, <1>2, <1>3, <1>4, <1>5, <1>6, BoundedExtract DEF Next

\* However the layers are cut, at most one byte past the limit reaches the volume,
\* and a pull that succeeds is within both limits.
THEOREM PullIsWithinLimits == Spec => []WithinLimits
<1>1. Init => Bounded
  BY EmptyDirectory DEF Init, Bounded
<1>2. IndInv /\ Bounded /\ [Next]_vars => Bounded'
  BY BoundedNext
<1>3. IndInv /\ Bounded => WithinLimits
  <2> SUFFICES ASSUME IndInv, Bounded PROVE WithinLimits
    OBVIOUS
  <2>1. outcome = "ok" => Cardinality(dest) <= MaxFiles
    <3>1. Cardinality(dest) \in Nat /\ nfiles \in Int
      BY FS_CardinalityType DEF IndInv, Shapes, Bounded, Sizes
    <3> QED BY <3>1, LimitsAssumption DEF Bounded, Counted
  <2> QED BY <2>1 DEF Bounded, Counted, WithinLimits
<1> QED BY <1>1, <1>2, <1>3, Inductive, PTL DEF Spec
=============================================================================
