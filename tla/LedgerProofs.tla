---------------------------- MODULE LedgerProofs ----------------------------
(***************************************************************************)
(* Proofs about the ledger that a node keeps, for all values of the        *)
(* constants: the deltas of a ledger and the entry cache (LedgerDelta),    *)
(* the bucket list and its restart (BucketStore), and the files of buckets *)
(* and the publish queue (BucketManager).                                  *)
(*                                                                         *)
(* The parts share no state; each section has an invariant of its own and  *)
(* ends with the theorems about its part.                                  *)
(***************************************************************************)
EXTENDS LedgerDelta, BucketStore, BucketManager, TLAPS, WellFoundedInduction

(***************************************************************************)
(* LedgerDelta: the deltas of a ledger are exact and the entry cache is    *)
(* current, for every set of entries and every bound on their values.      *)
(*                                                                         *)
(* Exact(d, a, b) says that the delta d records what leads from database a *)
(* to database b.  addEntry, modEntry and deleteEntry keep it when b       *)
(* changes with them, and mergeEntries composes it.  The invariant gives   *)
(* every open delta the databases before and after it: those of deltas[2]  *)
(* are the savepoint, so that a rollback of the deltas above finds in them *)
(* all the keys that the savepoint changes back, and flushes them.         *)
(***************************************************************************)

(* Maps of entries.                                                        *)

EntryMaps == UNION {[K -> Values] : K \in SUBSET EntryKey}

\* g is f with the entries e[k], k in K, set; g is f without the keys of K.
IsPut(g, f, K, e) ==
    /\ g \in EntryMaps
    /\ DOMAIN g = DOMAIN f \cup K
    /\ \A k \in DOMAIN g : g[k] = IF k \in K THEN e[k] ELSE f[k]

IsWithout(g, f, K) ==
    /\ g \in EntryMaps
    /\ DOMAIN g = DOMAIN f \ K
    /\ \A k \in DOMAIN g : g[k] = f[k]

(* What a delta says of the database before and after it.                  *)

Deltas == [mNew : EntryMaps, mMod : EntryMaps, mDelete : SUBSET EntryKey, ok : BOOLEAN]

Databases == [EntryKey -> Nat]

ExactAt(d, k, x, y) ==
    /\ k \in DOMAIN d.mNew =>
          x = NoEntry /\ y = d.mNew[k] /\ k \notin DOMAIN d.mMod /\ k \notin d.mDelete
    /\ k \in DOMAIN d.mMod => x # NoEntry /\ y = d.mMod[k] /\ k \notin d.mDelete
    /\ k \in d.mDelete => x # NoEntry /\ y = NoEntry
    /\ k \notin DOMAIN d.mNew /\ k \notin DOMAIN d.mMod /\ k \notin d.mDelete => y = x

Exact(d, a, b) == d \in Deltas /\ d.ok /\ \A k \in EntryKey : ExactAt(d, k, a[k], b[k])

(* A stack of deltas, the databases m[i] and m[i + 1] before and after     *)
(* each of them.                                                           *)

Chain(ds, m) ==
    /\ ds \in Seq(Deltas) /\ m \in Seq(Databases)
    /\ Len(m) = Len(ds) + 1
    /\ \A i \in 1 .. Len(ds) : Exact(ds[i], m[i], m[i + 1])

(* The state of a ledger that is being closed.                             *)

Caches == UNION {[K -> Nat] : K \in SUBSET EntryKey}

LedgerStates ==
    [opening : Databases, db : Databases, saved : Databases, cache : Caches,
     deltas : Seq(Deltas), phase : {"fees", "apply"}, errorEncountered : BOOLEAN]

Agree(cache, b) == \A k \in DOMAIN cache : cache[k] = b[k]

CacheOf(s, b) == Agree(s.cache, b)

\* The deltas of s lead from the opening database through those of m to b,
\* which the cache agrees with.  Between the restoration of a savepoint and
\* the destruction of the deltas above it, b is not yet, or no longer, the
\* database.
Consistent(s, m, b) ==
    /\ s \in LedgerStates /\ Chain(s.deltas, m)
    /\ m[1] = s.opening /\ m[Depth(s) + 1] = b /\ CacheOf(s, b)

CachedOne(g, f, k, v) ==
    /\ g \in Caches /\ DOMAIN g = DOMAIN f \cup {k}
    /\ g[k] = v /\ \A x \in DOMAIN f : x # k => g[x] = f[x]

Loaded(t, s, m) ==
    /\ Consistent(t, m, t.db)
    /\ t.db = s.db /\ t.saved = s.saved /\ t.deltas = s.deltas
    /\ t.opening = s.opening /\ t.phase = s.phase
    /\ t.errorEncountered = s.errorEncountered

Opened(t, s, m) ==
    /\ Consistent(t, Append(m, s.db), t.db) /\ Len(t.deltas) = Len(s.deltas) + 1
    /\ t.db = s.db /\ t.saved = s.saved
    /\ t.opening = s.opening /\ t.phase = s.phase
    /\ t.errorEncountered = s.errorEncountered

\* The database after some entries are written, and what is left of the
\* cache.
Writable(e) == DOMAIN e \in SUBSET EntryKey /\ \A k \in DOMAIN e : e[k] \in Nat

Written(c, b, e) ==
    /\ c \in Databases
    /\ \A k \in EntryKey : c[k] = IF k \in DOMAIN e THEN e[k] ELSE b[k]

\* t is consistent, has n deltas, and is as s up to the start of the last.
Below(t, s, m, n) ==
    /\ \E q : Consistent(t, q, t.db) /\ \A i \in 1 .. n : q[i] = m[i]
    /\ Len(t.deltas) = n /\ t.saved = s.saved /\ t.opening = s.opening
    /\ t.phase = s.phase /\ t.errorEncountered = s.errorEncountered

RolledBack(t, s, m, n) ==
    /\ Consistent(t, SubSeq(m, 1, n), m[n])
    /\ \A i \in 1 .. n : SubSeq(m, 1, n)[i] = m[i]
    /\ Len(t.deltas) = n - 1 /\ t.db = s.db /\ t.saved = s.saved
    /\ t.opening = s.opening /\ t.phase = s.phase
    /\ t.errorEncountered = s.errorEncountered

Restored(t, s, m, b) ==
    /\ Consistent(t, m, t.db) /\ t.deltas = s.deltas /\ t.saved = s.saved
    /\ t.db = b /\ t.opening = s.opening

(* The inductive invariant: between two steps the ledger has one delta, or *)
(* three or four while a transaction is applied, and the second starts and *)
(* ends with the savepoint.                                                *)

Saved(s, m, n) == n \in {1, 3, 4} /\ (n # 1 => m[2] = s.saved /\ m[3] = s.saved)

LedgerInv(s) == \E m : Consistent(s, m, s.db) /\ Saved(s, m, Len(s.deltas))

\* What Consistent says of the databases of a state with n deltas.
Spans(s, m, b, n) ==
    /\ s \in LedgerStates /\ m \in Seq(Databases) /\ Len(m) = n + 1 /\ n \in Nat
    /\ m[1] = s.opening /\ m[n + 1] = b
    /\ \A i \in 1 .. n : Exact(s.deltas[i], m[i], m[i + 1])

Appended(q, m, b) ==
    /\ q \in Seq(Databases) /\ Len(q) = Len(m) + 1
    /\ \A i \in 1 .. Len(m) : q[i] = m[i]
    /\ q[Len(m) + 1] = b

Begun(t, l) ==
    \/ t = rollback(open(l))
    \/ t = [open(open(l)) EXCEPT !.saved = l.db, !.errorEncountered = FALSE]

(* The theorems.                                                           *)

DeltaInv == LedgerInv(ld)

\* The invariant, operation by operation.
THEOREM DeltaInvariant == DeltaSpec => [](DeltaInv /\ DeltaIsExact)
<1>EntryMapFields.
    ASSUME NEW f \in EntryMaps
    PROVE  /\ DOMAIN f \in SUBSET EntryKey
           /\ f = [k \in DOMAIN f |-> f[k]]
           /\ \A k \in DOMAIN f : f[k] \in Values /\ f[k] # NoEntry
  <2> USE <1>EntryMapFields
  <2>1. PICK K \in SUBSET EntryKey : f \in [K -> Values]
    BY Zenon DEF EntryMaps
  <2>2. DOMAIN f = K /\ f = [k \in DOMAIN f |-> f[k]] /\ \A k \in K : f[k] \in Values
    BY Zenon, <2>1
  <2>3. \A v \in Values : v # NoEntry
    BY SMT DEF Values, NoEntry
  <2> QED BY Zenon, <2>1, <2>2, <2>3

<1>EntryMapType.
    ASSUME NEW K \in SUBSET EntryKey, NEW f, f = [k \in K |-> f[k]],
           \A k \in K : f[k] \in Values
    PROVE  f \in EntryMaps
  <2> USE <1>EntryMapType
  <2>1. f \in [K -> Values]
    BY Zenon
  <2> QED BY Zenon, <2>1 DEF EntryMaps

<1>PutEntries.
    ASSUME NEW f \in EntryMaps, NEW K \in SUBSET EntryKey, NEW e, DOMAIN e = K,
           \A k \in K : e[k] \in Values
    PROVE  IsPut(Put(f, e), f, K, e)
  <2> USE <1>PutEntries
  <2> DEFINE g == Put(f, e)
  <2>1. /\ DOMAIN g = DOMAIN f \cup K
        /\ g = [k \in DOMAIN g |-> g[k]]
        /\ \A k \in DOMAIN f \cup K : g[k] = IF k \in K THEN e[k] ELSE f[k]
    BY Zenon DEF Put
  <2>2. DOMAIN f \in SUBSET EntryKey /\ \A k \in DOMAIN f : f[k] \in Values
    BY Zenon, <1>EntryMapFields
  <2> HIDE DEF g
  <2>3. /\ DOMAIN g \in SUBSET EntryKey
        /\ \A k \in DOMAIN g : g[k] \in Values
    BY Zenon, <2>1, <2>2
  <2>4. g \in EntryMaps
    BY Zenon, <2>1, <2>3, <1>EntryMapType
  <2> QED BY Zenon, <2>1, <2>4 DEF g, IsPut

<1>WithoutEntries.
    ASSUME NEW f \in EntryMaps, NEW K
    PROVE  IsWithout(Without(f, K), f, K)
  <2> USE <1>WithoutEntries
  <2> DEFINE g == Without(f, K)
  <2>1. /\ DOMAIN g = DOMAIN f \ K
        /\ g = [k \in DOMAIN g |-> g[k]]
        /\ \A k \in DOMAIN f \ K : g[k] = f[k]
    BY Zenon DEF Without, Restrict
  <2>2. DOMAIN f \in SUBSET EntryKey /\ \A k \in DOMAIN f : f[k] \in Values
    BY Zenon, <1>EntryMapFields
  <2> HIDE DEF g
  <2>3. /\ DOMAIN g \in SUBSET EntryKey
        /\ \A k \in DOMAIN g : g[k] \in Values
    BY Zenon, <2>1, <2>2
  <2>4. g \in EntryMaps
    BY Zenon, <2>1, <2>3, <1>EntryMapType
  <2> QED BY Zenon, <2>1, <2>4 DEF g, IsWithout

\* Setting some of the entries of e.
<1>PutSome.
    ASSUME NEW f \in EntryMaps, NEW e \in EntryMaps, NEW K \in SUBSET (DOMAIN e)
    PROVE  IsPut(Put(f, Restrict(e, K)), f, K, e)
  <2> USE <1>PutSome
  <2> DEFINE h == Restrict(e, K)
             g == Put(f, h)
  <2>1. K \in SUBSET EntryKey /\ \A k \in K : e[k] \in Values
    BY Zenon, <1>EntryMapFields
  <2>2. DOMAIN h = K /\ \A k \in K : h[k] = e[k]
    BY Zenon DEF Restrict
  <2> HIDE DEF h
  <2>3. \A k \in K : h[k] \in Values
    BY Zenon, <2>1, <2>2
  <2>4. IsPut(g, f, K, h)
    BY Zenon, <2>1, <2>2, <2>3, <1>PutEntries
  <2> HIDE DEF g
  <2>5. IsPut(g, f, K, e)
    BY Zenon, <2>2, <2>4 DEF IsPut
  <2> QED BY Zenon, <2>5 DEF g, h

\* What a key that has, or does not have, an entry is to a delta.
<1>ExactKind.
    ASSUME NEW d, NEW a, NEW b, Exact(d, a, b), NEW k \in EntryKey
    PROVE  /\ b[k] = NoEntry => k \notin DOMAIN d.mNew /\ k \notin DOMAIN d.mMod
           /\ b[k] # NoEntry => k \notin d.mDelete
  <2> USE <1>ExactKind
  <2>1. d.mNew \in EntryMaps /\ d.mMod \in EntryMaps
    BY Zenon DEF Exact, Deltas
  <2>2. /\ k \in DOMAIN d.mNew => d.mNew[k] # NoEntry
        /\ k \in DOMAIN d.mMod => d.mMod[k] # NoEntry
    BY Zenon, <2>1, <1>EntryMapFields
  <2>3. ExactAt(d, k, a[k], b[k])
    BY Zenon DEF Exact
  <2> QED BY Zenon, <2>2, <2>3 DEF ExactAt

<1>ExactNothing.
    ASSUME NEW a
    PROVE  Exact(NoChanges, a, a)
  <2> USE <1>ExactNothing
  <2>1. None \in EntryMaps /\ DOMAIN None = {}
    <3>1. /\ DOMAIN None = {} /\ None = [k \in {} |-> None[k]]
          /\ \A k \in {} : None[k] \in Values
      BY Zenon DEF None
    <3>2. {} \in SUBSET EntryKey
      OBVIOUS
    <3> QED BY Zenon, <3>1, <3>2, <1>EntryMapType
  <2>2. NoChanges \in Deltas
    BY Zenon, <2>1 DEF NoChanges, Deltas
  <2>3. /\ NoChanges.mNew = None /\ NoChanges.mMod = None /\ NoChanges.mDelete = {}
        /\ NoChanges.ok
    BY DEF NoChanges
  <2> QED BY Zenon, <2>1, <2>2, <2>3 DEF Exact, ExactAt

(* The operations of a delta.                                              *)

<1>deleteEntryExact.
    ASSUME NEW d, NEW a, NEW b, Exact(d, a, b), NEW keys \in SUBSET EntryKey,
           \A k \in keys : b[k] # NoEntry,
           NEW c, \A k \in EntryKey : c[k] = IF k \in keys THEN NoEntry ELSE b[k]
    PROVE  Exact(deleteEntry(d, keys), a, c)
  <2> USE <1>deleteEntryExact
  <2> DEFINE old == keys \ DOMAIN d.mNew
             N == Without(d.mNew, keys)
             M == Without(d.mMod, old)
             r == deleteEntry(d, keys)
  <2>0. d \in Deltas /\ d.ok = TRUE
    BY Zenon DEF Exact, Deltas
  <2>1. d.mNew \in EntryMaps /\ d.mMod \in EntryMaps /\ d.mDelete \in SUBSET EntryKey
    BY Zenon, <2>0 DEF Deltas
  <2>2. old \in SUBSET EntryKey /\ old \cap d.mDelete = {}
    BY Zenon, <1>ExactKind
  <2>3. /\ r.mNew = N /\ r.mMod = M
        /\ r.mDelete = d.mDelete \cup old
    BY <2>0 DEF deleteEntry, Deltas
  <2>4. r.ok = TRUE
    BY Zenon, <2>0, <2>2 DEF deleteEntry, Deltas
  <2>5. IsWithout(N, d.mNew, keys) /\ IsWithout(M, d.mMod, old)
    BY Zenon, <2>1, <1>WithoutEntries
  <2>6. N \in EntryMaps /\ M \in EntryMaps /\ (d.mDelete \cup old) \in SUBSET EntryKey
    BY Zenon, <2>1, <2>2, <2>5 DEF IsWithout
  <2>7. r \in Deltas
    <3> HIDE DEF N, M
    <3>1. deleteEntry(d, keys) \in [mNew : EntryMaps, mMod : EntryMaps, mDelete : SUBSET EntryKey, ok : BOOLEAN]
      BY Zenon, <2>0, <2>6 DEF deleteEntry, Deltas, N, M
    <3> QED BY Zenon, <3>1 DEF Deltas
  <2> HIDE DEF r, N, M
  <2>8. ASSUME NEW k \in EntryKey PROVE ExactAt(r, k, a[k], c[k])
    <3>1. ExactAt(d, k, a[k], b[k])
      BY Zenon DEF Exact
    <3>2. c[k] = IF k \in keys THEN NoEntry ELSE b[k]
      OBVIOUS
    <3>3. k \in keys => b[k] # NoEntry /\ k \notin d.mDelete
      BY Zenon, <1>ExactKind
    <3> QED BY Zenon, <2>3, <2>5, <3>1, <3>2, <3>3 DEF ExactAt, IsWithout
  <2> QED BY Zenon, <2>4, <2>7, <2>8 DEF Exact, r

<1>addEntryExact.
    ASSUME NEW d, NEW a, NEW b, Exact(d, a, b), NEW e \in EntryMaps,
           \A k \in DOMAIN e : b[k] = NoEntry,
           NEW c, \A k \in EntryKey : c[k] = IF k \in DOMAIN e THEN e[k] ELSE b[k]
    PROVE  Exact(addEntry(d, e), a, c)
  <2> USE <1>addEntryExact
  <2> DEFINE again == DOMAIN e \cap d.mDelete
             first == DOMAIN e \ d.mDelete
             N == Put(d.mNew, Restrict(e, first))
             M == Put(d.mMod, Restrict(e, again))
             r == addEntry(d, e)
  <2>0. d \in Deltas /\ d.ok = TRUE
    BY Zenon DEF Exact, Deltas
  <2>1. /\ d.mNew \in EntryMaps /\ d.mMod \in EntryMaps /\ d.mDelete \in SUBSET EntryKey
        /\ DOMAIN e \in SUBSET EntryKey
    BY Zenon, <2>0, <1>EntryMapFields DEF Deltas
  <2>2. first \cap DOMAIN d.mNew = {} /\ first \cap DOMAIN d.mMod = {}
    BY Zenon, <2>1, <1>ExactKind
  <2>3. /\ r.mNew = N /\ r.mMod = M
        /\ r.mDelete = d.mDelete \ again
    BY <2>0 DEF addEntry, Deltas
  <2>4. r.ok = TRUE
    BY Zenon, <2>0, <2>2 DEF addEntry, Deltas
  <2>5. IsPut(N, d.mNew, first, e) /\ IsPut(M, d.mMod, again, e)
    <3>1. first \in SUBSET DOMAIN e /\ again \in SUBSET DOMAIN e
      OBVIOUS
    <3> HIDE DEF first, again
    <3> QED BY Zenon, <2>1, <3>1, <1>PutSome
  <2>6. N \in EntryMaps /\ M \in EntryMaps /\ (d.mDelete \ again) \in SUBSET EntryKey
    BY Zenon, <2>1, <2>2, <2>5 DEF IsPut
  <2>7. r \in Deltas
    <3> HIDE DEF N, M
    <3>1. addEntry(d, e) \in [mNew : EntryMaps, mMod : EntryMaps, mDelete : SUBSET EntryKey, ok : BOOLEAN]
      BY Zenon, <2>0, <2>6 DEF addEntry, Deltas, N, M
    <3> QED BY Zenon, <3>1 DEF Deltas
  <2> HIDE DEF r, N, M
  <2>8. ASSUME NEW k \in EntryKey PROVE ExactAt(r, k, a[k], c[k])
    <3>1. ExactAt(d, k, a[k], b[k])
      BY Zenon DEF Exact
    <3>2. c[k] = IF k \in DOMAIN e THEN e[k] ELSE b[k]
      OBVIOUS
    <3>3. k \in DOMAIN e => b[k] = NoEntry /\ k \notin DOMAIN d.mNew /\ k \notin DOMAIN d.mMod
      BY Zenon, <1>ExactKind
    <3> QED BY Zenon, <2>3, <2>5, <3>1, <3>2, <3>3 DEF ExactAt, IsPut
  <2> QED BY Zenon, <2>4, <2>7, <2>8 DEF Exact, r

<1>modEntryExact.
    ASSUME NEW d, NEW a, NEW b, Exact(d, a, b), NEW e \in EntryMaps,
           \A k \in DOMAIN e : b[k] # NoEntry,
           NEW c, \A k \in EntryKey : c[k] = IF k \in DOMAIN e THEN e[k] ELSE b[k]
    PROVE  Exact(modEntry(d, e), a, c)
  <2> USE <1>modEntryExact
  <2> DEFINE new == (DOMAIN e \ DOMAIN d.mMod) \cap DOMAIN d.mNew
             mod == DOMAIN e \ new
             N == Put(d.mNew, Restrict(e, new))
             M == Put(d.mMod, Restrict(e, mod))
             r == modEntry(d, e)
  <2>0. d \in Deltas /\ d.ok = TRUE
    BY Zenon DEF Exact, Deltas
  <2>1. /\ d.mNew \in EntryMaps /\ d.mMod \in EntryMaps /\ d.mDelete \in SUBSET EntryKey
        /\ DOMAIN e \in SUBSET EntryKey
    BY Zenon, <2>0, <1>EntryMapFields DEF Deltas
  <2>2. (mod \ DOMAIN d.mMod) \cap d.mDelete = {}
    BY Zenon, <2>1, <1>ExactKind
  <2>3. /\ r.mNew = N /\ r.mMod = M
        /\ r.mDelete = d.mDelete
    BY <2>0 DEF modEntry, Deltas
  <2>4. r.ok = TRUE
    BY Zenon, <2>0, <2>2 DEF modEntry, Deltas
  <2>5. IsPut(N, d.mNew, new, e) /\ IsPut(M, d.mMod, mod, e)
    <3>1. new \in SUBSET DOMAIN e /\ mod \in SUBSET DOMAIN e
      OBVIOUS
    <3> HIDE DEF new, mod
    <3> QED BY Zenon, <2>1, <3>1, <1>PutSome
  <2>6. N \in EntryMaps /\ M \in EntryMaps /\ (d.mDelete) \in SUBSET EntryKey
    BY Zenon, <2>1, <2>2, <2>5 DEF IsPut
  <2>7. r \in Deltas
    <3> HIDE DEF N, M
    <3>1. modEntry(d, e) \in [mNew : EntryMaps, mMod : EntryMaps, mDelete : SUBSET EntryKey, ok : BOOLEAN]
      BY Zenon, <2>0, <2>6 DEF modEntry, Deltas, N, M
    <3> QED BY Zenon, <3>1 DEF Deltas
  <2> HIDE DEF r, N, M
  <2>8. ASSUME NEW k \in EntryKey PROVE ExactAt(r, k, a[k], c[k])
    <3>1. ExactAt(d, k, a[k], b[k])
      BY Zenon DEF Exact
    <3>2. c[k] = IF k \in DOMAIN e THEN e[k] ELSE b[k]
      OBVIOUS
    <3>3. k \in DOMAIN e => b[k] # NoEntry /\ k \notin d.mDelete
      BY Zenon, <1>ExactKind
    <3> QED BY Zenon, <2>3, <2>5, <3>1, <3>2, <3>3 DEF ExactAt, IsPut
  <2> QED BY Zenon, <2>4, <2>7, <2>8 DEF Exact, r

\* A delta that is merged into the one around it spans both.
<1>mergeEntriesExact.
    ASSUME NEW d, NEW e, NEW a, NEW b, NEW c, Exact(d, a, b), Exact(e, b, c)
    PROVE  Exact(mergeEntries(d, e), a, c)
  <2> USE <1>mergeEntriesExact
  <2> DEFINE x == [k \in EntryKey |-> IF k \in e.mDelete THEN NoEntry ELSE b[k]]
             y == [k \in EntryKey |-> IF k \in DOMAIN e.mNew THEN e.mNew[k] ELSE x[k]]
  <2>1. /\ e.mNew \in EntryMaps /\ e.mMod \in EntryMaps /\ e.mDelete \in SUBSET EntryKey
        /\ DOMAIN e.mNew \in SUBSET EntryKey /\ DOMAIN e.mMod \in SUBSET EntryKey
    BY Zenon, <1>EntryMapFields DEF Exact, Deltas
  <2>2. ASSUME NEW k \in EntryKey
        PROVE  /\ ExactAt(e, k, b[k], c[k])
               /\ x[k] = IF k \in e.mDelete THEN NoEntry ELSE b[k]
               /\ y[k] = IF k \in DOMAIN e.mNew THEN e.mNew[k] ELSE x[k]
    BY Zenon DEF Exact
  <2> HIDE DEF x, y
  <2>3. Exact(deleteEntry(d, e.mDelete), a, x)
    <3>1. \A k \in e.mDelete : b[k] # NoEntry
      BY Zenon, <2>1, <2>2 DEF ExactAt
    <3> QED BY Zenon, <2>1, <2>2, <3>1, <1>deleteEntryExact
  <2> DEFINE f == deleteEntry(d, e.mDelete)
             g == addEntry(f, e.mNew)
  <2> HIDE DEF f
  <2>4. Exact(g, a, y)
    <3>1. \A k \in DOMAIN e.mNew : x[k] = NoEntry
      BY Zenon, <2>1, <2>2 DEF ExactAt
    <3>2. Exact(f, a, x)
      BY <2>3 DEF f
    <3> QED BY Zenon, <2>1, <2>2, <3>1, <3>2, <1>addEntryExact
  <2> HIDE DEF g
  <2>5. Exact(modEntry(g, e.mMod), a, c)
    <3>1. \A k \in DOMAIN e.mMod : y[k] # NoEntry
      BY Zenon, <2>1, <2>2 DEF ExactAt
    <3>2. ASSUME NEW k \in EntryKey
          PROVE  c[k] = IF k \in DOMAIN e.mMod THEN e.mMod[k] ELSE y[k]
      BY Zenon, <2>2 DEF ExactAt
    <3> QED BY Zenon, <2>1, <2>4, <3>1, <3>2, <1>modEntryExact
  <2> QED BY Zenon, <2>5 DEF mergeEntries, f, g

<1>ChainFields.
    ASSUME NEW ds, NEW m, Chain(ds, m)
    PROVE  /\ ds \in Seq(Deltas) /\ m \in Seq(Databases) /\ Len(ds) \in Nat
           /\ Len(m) = Len(ds) + 1
           /\ \A i \in 1 .. Len(ds) : Exact(ds[i], m[i], m[i + 1]) /\ ds[i] \in Deltas
           /\ \A i \in 1 .. Len(ds) + 1 : m[i] \in Databases
  BY <1>ChainFields, SMT DEF Chain

<1>ChainOpen.
    ASSUME NEW ds, NEW m, Chain(ds, m), NEW b, b = m[Len(m)]
    PROVE  Chain(Append(ds, NoChanges), Append(m, b))
  <2> USE <1>ChainOpen
  <2> DEFINE n == Len(ds)
             es == Append(ds, NoChanges)
             q == Append(m, b)
  <2>1. /\ ds \in Seq(Deltas) /\ m \in Seq(Databases) /\ n \in Nat /\ Len(m) = n + 1
        /\ \A i \in 1 .. n : Exact(ds[i], m[i], m[i + 1])
    BY Zenon, <1>ChainFields
  <2>2. b \in Databases /\ Exact(NoChanges, b, b) /\ NoChanges \in Deltas
    <3>1. b \in Databases
      BY SMT, <2>1
    <3> QED BY Zenon, <3>1, <1>ExactNothing DEF Exact
  <2>3. /\ es \in Seq(Deltas) /\ Len(es) = n + 1
        /\ es[n + 1] = NoChanges /\ \A i \in 1 .. n : es[i] = ds[i]
    BY SMT, <2>1, <2>2
  <2>4. /\ q \in Seq(Databases) /\ Len(q) = n + 2
        /\ q[n + 2] = b /\ \A i \in 1 .. n + 1 : q[i] = m[i]
    BY SMT, <2>1, <2>2
  <2> HIDE DEF n, es, q
  <2>5. ASSUME NEW i \in 1 .. Len(es) PROVE Exact(es[i], q[i], q[i + 1])
    <3>1. CASE i = n + 1
      <4>1. es[i] = NoChanges /\ q[i] = b /\ q[i + 1] = b
        BY SMT, <2>1, <2>3, <2>4, <3>1
      <4> QED BY Zenon, <2>2, <4>1
    <3>2. CASE i # n + 1
      <4>1. es[i] = ds[i] /\ q[i] = m[i] /\ q[i + 1] = m[i + 1] /\ i \in 1 .. n
        BY SMT, <2>1, <2>3, <2>4, <3>2
      <4> QED BY Zenon, <2>1, <4>1
    <3> QED BY Zenon, <3>1, <3>2
  <2>6. Len(q) = Len(es) + 1
    BY SMT, <2>1, <2>3, <2>4
  <2> QED BY Zenon, <2>3, <2>4, <2>5, <2>6 DEF Chain, es, q

<1>ChainStore.
    ASSUME NEW ds, NEW m, Chain(ds, m), NEW n, n = Len(ds), n > 0,
           NEW c \in Databases, NEW d, Exact(d, m[n], c)
    PROVE  Chain([ds EXCEPT ![n] = d], [m EXCEPT ![n + 1] = c])
  <2> USE <1>ChainStore
  <2> DEFINE es == [ds EXCEPT ![n] = d]
             q == [m EXCEPT ![n + 1] = c]
  <2>1. /\ ds \in Seq(Deltas) /\ m \in Seq(Databases) /\ n \in Nat /\ Len(m) = n + 1
        /\ \A i \in 1 .. n : Exact(ds[i], m[i], m[i + 1])
    BY Zenon, <1>ChainFields
  <2>2. d \in Deltas
    BY Zenon DEF Exact
  <2>3. /\ es \in Seq(Deltas) /\ Len(es) = n
        /\ es[n] = d /\ \A i \in 1 .. n - 1 : es[i] = ds[i]
    BY SMT, <2>1, <2>2
  <2>4. /\ q \in Seq(Databases) /\ Len(q) = n + 1
        /\ q[n + 1] = c /\ \A i \in 1 .. n : q[i] = m[i]
    BY SMT, <2>1
  <2> HIDE DEF es, q
  <2>5. ASSUME NEW i \in 1 .. Len(es) PROVE Exact(es[i], q[i], q[i + 1])
    <3>1. CASE i = n
      <4>1. es[i] = d /\ q[i] = m[n] /\ q[i + 1] = c
        BY SMT, <2>1, <2>3, <2>4, <3>1
      <4> QED BY Zenon, <4>1
    <3>2. CASE i # n
      <4>1. es[i] = ds[i] /\ q[i] = m[i] /\ q[i + 1] = m[i + 1] /\ i \in 1 .. n
        BY SMT, <2>1, <2>3, <2>4, <3>2
      <4> QED BY Zenon, <2>1, <4>1
    <3> QED BY Zenon, <3>1, <3>2
  <2>6. Len(q) = Len(es) + 1
    BY SMT, <2>1, <2>3, <2>4
  <2> QED BY Zenon, <2>3, <2>4, <2>5, <2>6 DEF Chain, es, q

<1>ChainDrop.
    ASSUME NEW ds, NEW m, Chain(ds, m), NEW n, n = Len(ds), n > 1
    PROVE  Chain(SubSeq(ds, 1, n - 1), SubSeq(m, 1, n))
  <2> USE <1>ChainDrop
  <2> DEFINE es == SubSeq(ds, 1, n - 1)
             q == SubSeq(m, 1, n)
  <2>1. /\ ds \in Seq(Deltas) /\ m \in Seq(Databases) /\ n \in Nat /\ Len(m) = n + 1
        /\ \A i \in 1 .. n : Exact(ds[i], m[i], m[i + 1])
    BY Zenon, <1>ChainFields
  <2>2. es \in Seq(Deltas) /\ Len(es) = n - 1 /\ \A i \in 1 .. n - 1 : es[i] = ds[i]
    BY SMT, <2>1
  <2>3. q \in Seq(Databases) /\ Len(q) = n /\ \A i \in 1 .. n : q[i] = m[i]
    BY SMT, <2>1
  <2> HIDE DEF es, q
  <2>4. ASSUME NEW i \in 1 .. Len(es) PROVE Exact(es[i], q[i], q[i + 1])
    <3>1. es[i] = ds[i] /\ q[i] = m[i] /\ q[i + 1] = m[i + 1] /\ i \in 1 .. n
      BY SMT, <2>1, <2>2, <2>3
    <3> QED BY Zenon, <2>1, <3>1
  <2>5. Len(q) = Len(es) + 1
    BY SMT, <2>1, <2>2, <2>3
  <2> QED BY Zenon, <2>2, <2>3, <2>4, <2>5 DEF Chain, es, q

<1>ChainCommit.
    ASSUME NEW ds, NEW m, Chain(ds, m), NEW n, n = Len(ds), n > 1
    PROVE  Chain([SubSeq(ds, 1, n - 1) EXCEPT ![n - 1] = mergeEntries(@, ds[n])],
                 [SubSeq(m, 1, n) EXCEPT ![n] = m[n + 1]])
  <2> USE <1>ChainCommit
  <2> DEFINE es == SubSeq(ds, 1, n - 1)
             q == SubSeq(m, 1, n)
             d == mergeEntries(es[n - 1], ds[n])
             c == m[n + 1]
  <2>1. /\ ds \in Seq(Deltas) /\ m \in Seq(Databases) /\ n \in Nat /\ Len(m) = n + 1
        /\ \A i \in 1 .. n : Exact(ds[i], m[i], m[i + 1])
    BY Zenon, <1>ChainFields
  <2>2. Chain(es, q)
    BY Zenon, <1>ChainDrop
  <2>3. /\ Len(es) = n - 1 /\ n - 1 > 0 /\ (n - 1) + 1 = n /\ n - 1 \in 1 .. n /\ n \in 1 .. n
        /\ es[n - 1] = ds[n - 1] /\ q[n - 1] = m[n - 1] /\ c \in Databases
    BY SMT, <2>1
  <2>4. Exact(es[n - 1], q[n - 1], m[n]) /\ Exact(ds[n], m[n], c)
    <3>1. Exact(ds[n - 1], m[n - 1], m[(n - 1) + 1])
      BY Zenon, <2>1, <2>3
    <3> QED BY Zenon, <2>1, <2>3, <3>1
  <2> HIDE DEF es, q, c
  <2>5. Exact(d, q[n - 1], c)
    BY Zenon, <2>4, <1>mergeEntriesExact
  <2> HIDE DEF d
  <2>6. Chain([es EXCEPT ![n - 1] = d], [q EXCEPT ![(n - 1) + 1] = c])
    BY Zenon, <2>2, <2>3, <2>5, <1>ChainStore
  <2> QED BY Zenon, <2>3, <2>6 DEF es, q, d, c

<1>LedgerFields.
    ASSUME NEW s \in LedgerStates
    PROVE  /\ s.opening \in Databases /\ s.db \in Databases /\ s.saved \in Databases
           /\ s.cache \in Caches /\ s.deltas \in Seq(Deltas)
           /\ s.phase \in {"fees", "apply"} /\ s.errorEncountered \in BOOLEAN
  BY <1>LedgerFields, Zenon DEF LedgerStates

<1>CacheFields.
    ASSUME NEW f \in Caches
    PROVE  DOMAIN f \in SUBSET EntryKey /\ \A k \in DOMAIN f : f[k] \in Nat
  <2> USE <1>CacheFields
  <2>1. PICK K \in SUBSET EntryKey : f \in [K -> Nat]
    BY Zenon DEF Caches
  <2> QED BY Zenon, <2>1

<1>CacheType.
    ASSUME NEW K \in SUBSET EntryKey, NEW f, f = [k \in K |-> f[k]],
           \A k \in K : f[k] \in Nat
    PROVE  f \in Caches
  <2> USE <1>CacheType
  <2>1. f \in [K -> Nat]
    BY Zenon
  <2> QED BY Zenon, <2>1 DEF Caches

<1>CacheWithout.
    ASSUME NEW f \in Caches, NEW K
    PROVE  /\ Without(f, K) \in Caches
           /\ DOMAIN Without(f, K) = DOMAIN f \ K
           /\ \A k \in DOMAIN Without(f, K) : Without(f, K)[k] = f[k]
  <2> USE <1>CacheWithout
  <2> DEFINE g == Without(f, K)
  <2>1. /\ DOMAIN g = DOMAIN f \ K
        /\ g = [k \in DOMAIN g |-> g[k]]
        /\ \A k \in DOMAIN f \ K : g[k] = f[k]
    BY Zenon DEF Without, Restrict
  <2>2. DOMAIN f \in SUBSET EntryKey /\ \A k \in DOMAIN f : f[k] \in Nat
    BY Zenon, <1>CacheFields
  <2> HIDE DEF g
  <2>3. DOMAIN g \in SUBSET EntryKey /\ \A k \in DOMAIN g : g[k] \in Nat
    BY Zenon, <2>1, <2>2
  <2>4. g \in Caches
    BY Zenon, <2>1, <2>3, <1>CacheType
  <2> QED BY Zenon, <2>1, <2>4 DEF g

<1>CachePut.
    ASSUME NEW f \in Caches, NEW k \in EntryKey, NEW v \in Nat
    PROVE  CachedOne(Put(f, One(k, v)), f, k, v)
  <2> USE <1>CachePut
  <2> DEFINE g == Put(f, One(k, v))
  <2>1. /\ DOMAIN g = DOMAIN f \cup {k}
        /\ g = [x \in DOMAIN g |-> g[x]]
        /\ g[k] = v /\ \A x \in DOMAIN f : x # k => g[x] = f[x]
    BY Zenon DEF Put, One
  <2>2. DOMAIN f \in SUBSET EntryKey /\ \A x \in DOMAIN f : f[x] \in Nat
    BY Zenon, <1>CacheFields
  <2> HIDE DEF g
  <2>3. DOMAIN g \in SUBSET EntryKey /\ \A x \in DOMAIN g : g[x] \in Nat
    BY Zenon, <2>1, <2>2
  <2>4. g \in Caches
    BY Zenon, <2>1, <2>3, <1>CacheType
  <2> QED BY Zenon, <2>1, <2>4 DEF g, CachedOne

<1>ValueTypes.
    \A v \in Values : v \in Nat /\ v # NoEntry
  BY SMT DEF Values, NoEntry

<1>OneEntry.
    ASSUME NEW k \in EntryKey, NEW v \in Values
    PROVE  One(k, v) \in EntryMaps /\ DOMAIN One(k, v) = {k} /\ One(k, v)[k] = v
  <2> USE <1>OneEntry
  <2> DEFINE g == One(k, v)
  <2>1. DOMAIN g = {k} /\ g = [x \in {k} |-> g[x]] /\ g[k] = v
    BY Zenon DEF One
  <2> HIDE DEF g
  <2>2. g \in EntryMaps
    BY Zenon, <2>1, <1>EntryMapType
  <2> QED BY Zenon, <2>1, <2>2 DEF g

\* Every key that the innermost delta does not hold is as it was.
<1>Untouched.
    ASSUME NEW d, NEW a, NEW b, Exact(d, a, b), NEW k \in EntryKey, k \notin Changed(d)
    PROVE  a[k] = b[k]
  <2> USE <1>Untouched
  <2>1. ExactAt(d, k, a[k], b[k])
    BY Zenon DEF Exact
  <2> QED BY Zenon, <2>1 DEF ExactAt, Changed

(* The operations on the state.                                            *)

<1>seenCurrent.
    ASSUME NEW s, CacheOf(s, s.db), NEW k
    PROVE  seen(s, k) = s.db[k]
  BY <1>seenCurrent, Zenon DEF seen, CacheOf, Agree

<1>loadConsistent.
    ASSUME NEW s, NEW m, Consistent(s, m, s.db), NEW k \in EntryKey, NEW evicted,
           NEW t, t = load(s, k, evicted)
    PROVE  Loaded(t, s, m)
  <2> USE <1>loadConsistent
  <2>1. /\ s \in LedgerStates /\ CacheOf(s, s.db) /\ Chain(s.deltas, m)
        /\ m[1] = s.opening /\ m[Len(s.deltas) + 1] = s.db
    BY Zenon DEF Consistent, Depth
  <2>2. CASE k \in DOMAIN s.cache
    <3>1. t = s
      BY Zenon, <2>2 DEF load
    <3> QED BY Zenon, <3>1 DEF Loaded
  <2>3. CASE k \notin DOMAIN s.cache
    <3> DEFINE w == Without(s.cache, evicted)
               c == Put(w, One(k, s.db[k]))
    <3>1. s.cache \in Caches /\ s.db[k] \in Nat
      <4>1. s.cache \in Caches /\ s.db \in [EntryKey -> Nat]
        BY Zenon, <2>1, <1>LedgerFields DEF Databases
      <4> QED BY Zenon, <4>1
    <3>2. /\ w \in Caches /\ DOMAIN w = DOMAIN s.cache \ evicted
          /\ \A x \in DOMAIN w : w[x] = s.cache[x]
      BY Zenon, <3>1, <1>CacheWithout
    <3> HIDE DEF w
    <3>3. CachedOne(c, w, k, s.db[k])
      BY Zenon, <3>1, <3>2, <1>CachePut
    <3>5. t = [s EXCEPT !.cache = c]
      BY Zenon, <2>3 DEF load, w
    <3> HIDE DEF c
    <3>4. c \in Caches /\ \A x \in DOMAIN c : c[x] = s.db[x]
      BY Zenon, <2>1, <3>2, <3>3 DEF CacheOf, Agree, CachedOne
    <3>6. t \in LedgerStates
      BY Zenon, <2>1, <3>4, <3>5 DEF LedgerStates
    <3>7. /\ t.db = s.db /\ t.saved = s.saved /\ t.deltas = s.deltas
          /\ t.opening = s.opening /\ t.phase = s.phase
          /\ t.errorEncountered = s.errorEncountered /\ t.cache = c
      BY Zenon, <2>1, <3>5 DEF LedgerStates
    <3> QED BY Zenon, <2>1, <3>4, <3>6, <3>7 DEF Loaded, Consistent, CacheOf, Agree, Depth
  <2> QED BY Zenon, <2>2, <2>3

<1>openConsistent.
    ASSUME NEW s, NEW m, Consistent(s, m, s.db), NEW t, t = open(s)
    PROVE  Opened(t, s, m)
  <2> USE <1>openConsistent
  <2> DEFINE es == Append(s.deltas, NoChanges)
             q == Append(m, s.db)
  <2>1. /\ s \in LedgerStates /\ CacheOf(s, s.db) /\ Chain(s.deltas, m)
        /\ m[1] = s.opening /\ m[Len(s.deltas) + 1] = s.db
    BY Zenon DEF Consistent, Depth
  <2>2. /\ m \in Seq(Databases) /\ Len(m) = Len(s.deltas) + 1 /\ Len(s.deltas) \in Nat
        /\ s.deltas \in Seq(Deltas)
    BY Zenon, <2>1, <1>ChainFields
  <2>3. Chain(es, q)
    BY Zenon, <2>1, <2>2, <1>ChainOpen
  <2>4. q[1] = s.opening /\ Len(es) = Len(s.deltas) + 1 /\ q[Len(es) + 1] = s.db
    BY SMT, <2>1, <2>2, <1>LedgerFields
  <2>5. es \in Seq(Deltas)
    BY Zenon, <2>3, <1>ChainFields
  <2>6. t = [s EXCEPT !.deltas = es]
    BY Zenon DEF open
  <2> HIDE DEF es, q
  <2>7. t \in LedgerStates
    BY Zenon, <2>1, <2>5, <2>6 DEF LedgerStates
  <2>8. /\ t.db = s.db /\ t.saved = s.saved /\ t.deltas = es
        /\ t.opening = s.opening /\ t.phase = s.phase
        /\ t.errorEncountered = s.errorEncountered /\ t.cache = s.cache
    BY Zenon, <2>1, <2>6 DEF LedgerStates
  <2>9. Consistent(t, q, t.db) /\ Len(t.deltas) = Len(s.deltas) + 1
    BY Zenon, <2>1, <2>3, <2>4, <2>7, <2>8 DEF Consistent, CacheOf, Agree, Depth
  <2> QED BY Zenon, <2>8, <2>9 DEF q, Opened

<1>writeDatabase.
    ASSUME NEW b \in Databases, NEW e, Writable(e)
    PROVE  Written(Put(b, e), b, e)
  <2> USE <1>writeDatabase
  <2> DEFINE c == Put(b, e)
  <2>1. b \in [EntryKey -> Nat] /\ DOMAIN e \in SUBSET EntryKey /\ \A k \in DOMAIN e : e[k] \in Nat
    BY Zenon DEF Databases, Writable
  <2>2. DOMAIN b = EntryKey /\ DOMAIN b \cup DOMAIN e = EntryKey
    BY Zenon, <2>1
  <2>3. c = [k \in EntryKey |-> IF k \in DOMAIN e THEN e[k] ELSE b[k]]
    BY Zenon, <2>2 DEF Put
  <2> HIDE DEF c
  <2>4. \A k \in EntryKey : c[k] = IF k \in DOMAIN e THEN e[k] ELSE b[k]
    BY Zenon, <2>3
  <2>5. c \in Databases
    BY Zenon, <2>1, <2>3 DEF Databases
  <2> QED BY Zenon, <2>4, <2>5 DEF c, Written

<1>writeCache.
    ASSUME NEW f \in Caches, NEW b, Agree(f, b), NEW e, NEW c, Written(c, b, e)
    PROVE  Without(f, DOMAIN e) \in Caches /\ Agree(Without(f, DOMAIN e), c)
  <2> USE <1>writeCache
  <2> DEFINE w == Without(f, DOMAIN e)
  <2>1. /\ w \in Caches /\ DOMAIN w = DOMAIN f \ DOMAIN e
        /\ \A k \in DOMAIN w : w[k] = f[k]
    BY Zenon, <1>CacheWithout
  <2>2. DOMAIN f \in SUBSET EntryKey
    BY Zenon, <1>CacheFields
  <2> HIDE DEF w
  <2>3. ASSUME NEW k \in DOMAIN w PROVE w[k] = c[k]
    <3>1. k \in EntryKey /\ k \notin DOMAIN e /\ w[k] = f[k] /\ f[k] = b[k]
      BY Zenon, <2>1, <2>2 DEF Agree
    <3> QED BY Zenon, <3>1 DEF Written
  <2> QED BY Zenon, <2>1, <2>3 DEF w, Agree

\* A store that the innermost delta records exactly.
<1>storeConsistent.
    ASSUME NEW s, NEW m, Consistent(s, m, s.db), NEW n, n = Len(s.deltas), n > 0,
           NEW e, Writable(e),
           NEW d, Exact(d, m[n], Put(s.db, e)),
           NEW t, t = inner(write(s, e), d)
    PROVE  Below(t, s, m, n)
  <2> USE <1>storeConsistent
  <2> DEFINE c == Put(s.db, e)
             w == Without(s.cache, DOMAIN e)
             es == [s.deltas EXCEPT ![n] = d]
             q == [m EXCEPT ![n + 1] = c]
  <2>1. /\ s \in LedgerStates /\ CacheOf(s, s.db) /\ Chain(s.deltas, m)
        /\ m[1] = s.opening
    BY Zenon DEF Consistent
  <2>2. /\ m \in Seq(Databases) /\ Len(m) = n + 1 /\ n \in Nat /\ s.deltas \in Seq(Deltas)
    BY Zenon, <2>1, <1>ChainFields
  <2>3. c \in Databases /\ w \in Caches /\ Agree(w, c)
    <3>1. s.db \in Databases /\ s.cache \in Caches /\ Agree(s.cache, s.db)
      BY Zenon, <2>1, <1>LedgerFields DEF CacheOf
    <3>2. Written(c, s.db, e)
      BY Zenon, <3>1, <1>writeDatabase
    <3> HIDE DEF c
    <3> QED BY Zenon, <3>1, <3>2, <1>writeCache DEF Written
  <2> HIDE DEF c, w
  <2>4. Chain(es, q)
    BY Zenon, <2>1, <2>3, <1>ChainStore DEF c
  <2>5. es \in Seq(Deltas)
    BY Zenon, <2>4, <1>ChainFields
  <2>6. Len(es) = n /\ q[n + 1] = c /\ \A i \in 1 .. n : q[i] = m[i]
    BY SMT, <2>2
  <2>7. t = [s EXCEPT !.cache = w, !.db = c, !.deltas = es]
    <3>1. DOMAIN s = {"opening", "db", "saved", "cache", "deltas", "phase", "errorEncountered"}
      BY Zenon, <2>1 DEF LedgerStates
    <3>2. write(s, e) = [s EXCEPT !.cache = w, !.db = c]
      BY Zenon DEF write, w, c
    <3>3. write(s, e).deltas = s.deltas
      BY Zenon, <3>1, <3>2
    <3>4. t = [write(s, e) EXCEPT !.deltas = [write(s, e).deltas EXCEPT ![n] = d]]
      BY Zenon, <3>3 DEF inner, Depth
    <3> QED BY Zenon, <3>2, <3>3, <3>4
  <2> HIDE DEF es, q
  <2>8. t \in LedgerStates
    BY Zenon, <2>1, <2>3, <2>5, <2>7 DEF LedgerStates
  <2>9. /\ t.db = c /\ t.saved = s.saved /\ t.deltas = es
        /\ t.opening = s.opening /\ t.phase = s.phase
        /\ t.errorEncountered = s.errorEncountered /\ t.cache = w
    BY Zenon, <2>1, <2>7 DEF LedgerStates
  <2>10. q[1] = s.opening
    <3>1. 1 \in 1 .. n
      BY SMT, <2>2
    <3> QED BY Zenon, <2>1, <2>6, <3>1
  <2>11. Consistent(t, q, t.db)
    BY Zenon, <2>3, <2>4, <2>6, <2>8, <2>9, <2>10 DEF Consistent, CacheOf, Depth
  <2> QED BY Zenon, <2>6, <2>9, <2>11 DEF Below

\* The innermost delta and the databases around it.
<1>InnermostExact.
    ASSUME NEW s, NEW m, NEW b, Consistent(s, m, b), NEW n, n = Len(s.deltas), n > 0
    PROVE  Exact(s.deltas[n], m[n], b)
  <2> USE <1>InnermostExact
  <2>1. Chain(s.deltas, m) /\ m[n + 1] = b
    BY Zenon DEF Consistent, Depth
  <2>2. n \in Nat /\ \A i \in 1 .. n : Exact(s.deltas[i], m[i], m[i + 1])
    BY Zenon, <2>1, <1>ChainFields
  <2>3. n \in 1 .. n
    BY SMT, <2>2
  <2> QED BY Zenon, <2>1, <2>2, <2>3

<1>storeChangeConsistent.
    ASSUME NEW s, NEW m, Consistent(s, m, s.db), NEW n, n = Len(s.deltas), n > 0,
           NEW e \in EntryMaps, \A k \in DOMAIN e : s.db[k] # NoEntry,
           NEW t, t = storeChange(s, e)
    PROVE  Below(t, s, m, n)
  <2> USE <1>storeChangeConsistent
  <2> DEFINE c == Put(s.db, e)
             d == modEntry(s.deltas[n], e)
  <2>1. s \in LedgerStates /\ CacheOf(s, s.db)
    BY Zenon DEF Consistent
  <2>2. Writable(e)
    BY Zenon, <1>EntryMapFields, <1>ValueTypes DEF Writable
  <2>3. \A k \in EntryKey : c[k] = IF k \in DOMAIN e THEN e[k] ELSE s.db[k]
    <3>1. Written(c, s.db, e)
      BY Zenon, <2>1, <2>2, <1>writeDatabase, <1>LedgerFields
    <3> HIDE DEF c
    <3> QED BY Zenon, <3>1 DEF Written
  <2>4. Exact(s.deltas[n], m[n], s.db)
    BY Zenon, <1>InnermostExact
  <2> HIDE DEF c
  <2>5. Exact(d, m[n], c)
    BY Zenon, <2>3, <2>4, <1>modEntryExact
  <2>6. t = inner(write(s, e), d)
    BY Zenon DEF storeChange, Depth
  <2> HIDE DEF d
  <2> QED BY Zenon, <2>2, <2>5, <2>6, <1>storeConsistent DEF c

<1>storeAddConsistent.
    ASSUME NEW s, NEW m, Consistent(s, m, s.db), NEW n, n = Len(s.deltas), n > 0,
           NEW k \in EntryKey, NEW v \in Values, s.db[k] = NoEntry,
           NEW t, t = storeAdd(s, k, v)
    PROVE  Below(t, s, m, n)
  <2> USE <1>storeAddConsistent
  <2> DEFINE e == One(k, v)
             c == Put(s.db, e)
             d == addEntry(s.deltas[n], e)
  <2>1. s \in LedgerStates /\ CacheOf(s, s.db)
    BY Zenon DEF Consistent
  <2>2. e \in EntryMaps /\ \A x \in DOMAIN e : s.db[x] = NoEntry
    <3>1. e \in EntryMaps /\ DOMAIN e = {k}
      BY Zenon, <1>OneEntry
    <3> HIDE DEF e
    <3> QED BY Zenon, <3>1
  <2>3. t = inner(write(s, e), d)
    BY Zenon DEF storeAdd, Depth
  <2> HIDE DEF e
  <2>4. Writable(e)
    BY Zenon, <2>2, <1>EntryMapFields, <1>ValueTypes DEF Writable
  <2>5. \A x \in EntryKey : c[x] = IF x \in DOMAIN e THEN e[x] ELSE s.db[x]
    <3>1. Written(c, s.db, e)
      BY Zenon, <2>1, <2>4, <1>writeDatabase, <1>LedgerFields
    <3> HIDE DEF c
    <3> QED BY Zenon, <3>1 DEF Written
  <2>6. Exact(s.deltas[n], m[n], s.db)
    BY Zenon, <1>InnermostExact
  <2> HIDE DEF c
  <2>7. Exact(d, m[n], c)
    BY Zenon, <2>2, <2>5, <2>6, <1>addEntryExact
  <2> HIDE DEF d
  <2> QED BY Zenon, <2>3, <2>4, <2>7, <1>storeConsistent DEF c

<1>storeDeleteConsistent.
    ASSUME NEW s, NEW m, Consistent(s, m, s.db), NEW n, n = Len(s.deltas), n > 0,
           NEW k \in EntryKey, s.db[k] # NoEntry, NEW t, t = storeDelete(s, k)
    PROVE  Below(t, s, m, n)
  <2> USE <1>storeDeleteConsistent
  <2> DEFINE e == One(k, NoEntry)
             c == Put(s.db, e)
             d == deleteEntry(s.deltas[n], {k})
  <2>1. s \in LedgerStates /\ CacheOf(s, s.db)
    BY Zenon DEF Consistent
  <2>2. DOMAIN e = {k} /\ e[k] = NoEntry
    BY Zenon DEF One
  <2>3. t = inner(write(s, e), d)
    BY Zenon DEF storeDelete, Depth
  <2> HIDE DEF e
  <2>4. Writable(e)
    <3>1. NoEntry \in Nat
      BY SMT DEF NoEntry
    <3> QED BY Zenon, <2>2, <3>1 DEF Writable
  <2>5. \A x \in EntryKey : c[x] = IF x \in DOMAIN e THEN e[x] ELSE s.db[x]
    <3>1. Written(c, s.db, e)
      BY Zenon, <2>1, <2>4, <1>writeDatabase, <1>LedgerFields
    <3> HIDE DEF c
    <3> QED BY Zenon, <3>1 DEF Written
  <2>6. \A x \in EntryKey : c[x] = IF x \in {k} THEN NoEntry ELSE s.db[x]
    BY Zenon, <2>2, <2>5
  <2>7. Exact(s.deltas[n], m[n], s.db)
    BY Zenon, <1>InnermostExact
  <2> HIDE DEF c
  <2>8. Exact(d, m[n], c)
    BY Zenon, <2>6, <2>7, <1>deleteEntryExact
  <2> HIDE DEF d
  <2> QED BY Zenon, <2>3, <2>4, <2>8, <1>storeConsistent DEF c

<1>commitConsistent.
    ASSUME NEW s, NEW m, Consistent(s, m, s.db), NEW n, n = Len(s.deltas), n > 1,
           NEW t, t = commit(s)
    PROVE  Below(t, s, m, n - 1)
  <2> USE <1>commitConsistent
  <2> DEFINE es == [SubSeq(s.deltas, 1, n - 1) EXCEPT ![n - 1] = mergeEntries(@, s.deltas[n])]
             q == [SubSeq(m, 1, n) EXCEPT ![n] = m[n + 1]]
  <2>1. /\ s \in LedgerStates /\ CacheOf(s, s.db) /\ Chain(s.deltas, m)
        /\ m[1] = s.opening /\ m[n + 1] = s.db
    BY Zenon DEF Consistent, Depth
  <2>2. /\ m \in Seq(Databases) /\ Len(m) = n + 1 /\ n \in Nat /\ s.deltas \in Seq(Deltas)
    BY Zenon, <2>1, <1>ChainFields
  <2>3. Chain(es, q)
    BY Zenon, <2>1, <1>ChainCommit
  <2>4. es \in Seq(Deltas)
    BY Zenon, <2>3, <1>ChainFields
  <2>5. Len(es) = n - 1
    BY SMT, <2>2
  <2>6. /\ q[(n - 1) + 1] = s.db /\ \A i \in 1 .. n - 1 : q[i] = m[i]
        /\ 1 \in 1 .. n - 1
    <3> DEFINE p == SubSeq(m, 1, n)
    <3>1. p \in Seq(Databases) /\ Len(p) = n /\ \A i \in 1 .. n : p[i] = m[i]
      BY SMT, <2>2
    <3> HIDE DEF p
    <3>2. q = [p EXCEPT ![n] = m[n + 1]]
      BY DEF p
    <3> HIDE DEF q
    <3> QED BY SMT, <2>1, <2>2, <3>1, <3>2
  <2>7. t = [s EXCEPT !.deltas = es]
    BY Zenon DEF commit, Depth
  <2> HIDE DEF es, q
  <2>8. t \in LedgerStates
    BY Zenon, <2>1, <2>4, <2>7 DEF LedgerStates
  <2>9. /\ t.db = s.db /\ t.saved = s.saved /\ t.deltas = es
        /\ t.opening = s.opening /\ t.phase = s.phase
        /\ t.errorEncountered = s.errorEncountered /\ t.cache = s.cache
    BY Zenon, <2>1, <2>7 DEF LedgerStates
  <2>10. Consistent(t, q, t.db)
    BY Zenon, <2>1, <2>3, <2>5, <2>6, <2>8, <2>9 DEF Consistent, CacheOf, Depth
  <2> QED BY Zenon, <2>5, <2>6, <2>9, <2>10 DEF Below

<1>rollbackConsistent.
    ASSUME NEW s, NEW m, NEW b, Consistent(s, m, b), NEW n, n = Len(s.deltas), n > 1,
           NEW t, t = rollback(s)
    PROVE  RolledBack(t, s, m, n)
  <2> USE <1>rollbackConsistent
  <2> DEFINE es == SubSeq(s.deltas, 1, n - 1)
             q == SubSeq(m, 1, n)
             w == Without(s.cache, Changed(s.deltas[n]))
  <2>1. /\ s \in LedgerStates /\ Agree(s.cache, b) /\ Chain(s.deltas, m)
        /\ m[1] = s.opening
    BY Zenon DEF Consistent, CacheOf
  <2>2. /\ m \in Seq(Databases) /\ Len(m) = n + 1 /\ n \in Nat /\ s.deltas \in Seq(Deltas)
    BY Zenon, <2>1, <1>ChainFields
  <2>3. Chain(es, q)
    BY Zenon, <2>1, <1>ChainDrop
  <2>4. es \in Seq(Deltas)
    BY Zenon, <2>3, <1>ChainFields
  <2>5. Len(es) = n - 1 /\ n > 0
    BY SMT, <2>2
  <2>6. /\ q[(n - 1) + 1] = m[n] /\ \A i \in 1 .. n : q[i] = m[i]
        /\ 1 \in 1 .. n
    BY SMT, <2>1, <2>2
  <2>7. w \in Caches /\ Agree(w, m[n])
    <3>1. s.cache \in Caches
      BY Zenon, <2>1, <1>LedgerFields
    <3>2. /\ w \in Caches /\ DOMAIN w = DOMAIN s.cache \ Changed(s.deltas[n])
          /\ \A k \in DOMAIN w : w[k] = s.cache[k]
      BY Zenon, <3>1, <1>CacheWithout
    <3>3. DOMAIN s.cache \in SUBSET EntryKey
      BY Zenon, <3>1, <1>CacheFields
    <3>4. Exact(s.deltas[n], m[n], b)
      BY Zenon, <2>5, <1>InnermostExact
    <3> HIDE DEF w
    <3>5. ASSUME NEW k \in DOMAIN w PROVE w[k] = m[n][k]
      <4>1. k \in EntryKey /\ k \notin Changed(s.deltas[n])
        BY Zenon, <3>2, <3>3
      <4>2. m[n][k] = b[k]
        BY SMT, <3>4, <4>1, <1>Untouched
      <4>3. w[k] = s.cache[k] /\ s.cache[k] = b[k]
        BY Zenon, <2>1, <3>2 DEF Agree
      <4> QED BY Zenon, <4>2, <4>3
    <3> QED BY Zenon, <3>2, <3>5 DEF Agree
  <2>8. t = [s EXCEPT !.deltas = es, !.cache = w]
    BY Zenon DEF rollback, Depth
  <2> HIDE DEF es, q, w
  <2>9. t \in LedgerStates
    BY Zenon, <2>1, <2>4, <2>7, <2>8 DEF LedgerStates
  <2>10. /\ t.db = s.db /\ t.saved = s.saved /\ t.deltas = es
         /\ t.opening = s.opening /\ t.phase = s.phase
         /\ t.errorEncountered = s.errorEncountered /\ t.cache = w
    BY Zenon, <2>1, <2>8 DEF LedgerStates
  <2>11. Consistent(t, q, m[n])
    BY Zenon, <2>1, <2>3, <2>5, <2>6, <2>7, <2>9, <2>10 DEF Consistent, CacheOf, Depth
  <2> QED BY Zenon, <2>5, <2>6, <2>10, <2>11 DEF q, RolledBack

\* ROLLBACK TO SAVEPOINT: the database becomes the one the state is
\* consistent with.
<1>restoreConsistent.
    ASSUME NEW s, NEW m, NEW b \in Databases, Consistent(s, m, b),
           NEW t, t = [s EXCEPT !.db = b]
    PROVE  Restored(t, s, m, b)
  <2> USE <1>restoreConsistent
  <2>1. s \in LedgerStates
    BY Zenon DEF Consistent
  <2>2. t \in LedgerStates
    BY Zenon, <2>1 DEF LedgerStates
  <2>3. /\ t.db = b /\ t.saved = s.saved /\ t.deltas = s.deltas
        /\ t.opening = s.opening /\ t.cache = s.cache
    BY Zenon, <2>1 DEF LedgerStates
  <2> QED BY Zenon, <2>2, <2>3 DEF Restored, Consistent, CacheOf, Depth

\* The parts of the state that Consistent does not look at.
<1>sameConsistent.
    ASSUME NEW s, NEW m, Consistent(s, m, s.db), NEW t \in LedgerStates,
           t.db = s.db, t.opening = s.opening, t.deltas = s.deltas, t.cache = s.cache
    PROVE  Consistent(t, m, t.db)
  BY <1>sameConsistent, Zenon DEF Consistent, CacheOf, Depth

<1>BelowInv.
    ASSUME NEW t, NEW s, NEW m, NEW n, Below(t, s, m, n), Saved(s, m, n)
    PROVE  LedgerInv(t)
  <2> USE <1>BelowInv
  <2>1. PICK q : Consistent(t, q, t.db) /\ \A i \in 1 .. n : q[i] = m[i]
    BY Zenon DEF Below
  <2>2. Len(t.deltas) = n /\ t.saved = s.saved
    BY Zenon DEF Below
  <2>3. n # 1 => 2 \in 1 .. n /\ 3 \in 1 .. n
    BY SMT DEF Saved
  <2> QED BY Zenon, <2>1, <2>2, <2>3 DEF LedgerInv, Saved

<1>StateInv.
    ASSUME NEW t, NEW m, Consistent(t, m, t.db), Len(t.deltas) = 1
    PROVE  LedgerInv(t)
  BY <1>StateInv, Zenon DEF LedgerInv, Saved

<1>LoadInv.
    ASSUME NEW s, LedgerInv(s), NEW k \in EntryKey, NEW evicted, NEW t, t = load(s, k, evicted)
    PROVE  LedgerInv(t)
  <2> USE <1>LoadInv
  <2>1. PICK m : Consistent(s, m, s.db) /\ Saved(s, m, Len(s.deltas))
    BY Zenon DEF LedgerInv
  <2>2. Loaded(t, s, m)
    BY Zenon, <2>1, <1>loadConsistent
  <2> QED BY Zenon, <2>1, <2>2 DEF LedgerInv, Saved, Loaded

<1>SeenInv.
    ASSUME NEW s, LedgerInv(s), NEW k
    PROVE  seen(s, k) = s.db[k]
  <2> USE <1>SeenInv
  <2>1. PICK m : Consistent(s, m, s.db)
    BY Zenon DEF LedgerInv
  <2>2. CacheOf(s, s.db)
    BY Zenon, <2>1 DEF Consistent
  <2> QED BY Zenon, <2>2, <1>seenCurrent

<1>ProcessFeeInv.
    ASSUME NEW s, LedgerInv(s), NEW k \in EntryKey, NEW v \in Values, s.db[k] # NoEntry,
           NEW t, t = commit(storeChange(open(load(s, k, {})), One(k, v)))
    PROVE  LedgerInv(t)
  <2> USE <1>ProcessFeeInv
  <2> DEFINE s1 == load(s, k, {})
             s2 == open(s1)
             s3 == storeChange(s2, One(k, v))
             n == Len(s.deltas)
  <2>1. PICK m : Consistent(s, m, s.db) /\ Saved(s, m, n)
    BY Zenon DEF LedgerInv
  <2>2. /\ Consistent(s1, m, s1.db) /\ s1.saved = s.saved /\ s1.db = s.db
        /\ Len(s1.deltas) = n
    <3>1. Loaded(s1, s, m)
      BY Zenon, <2>1, <1>loadConsistent
    <3> HIDE DEF s1
    <3> QED BY Zenon, <3>1 DEF Loaded
  <2>3. /\ m \in Seq(Databases) /\ Len(m) = n + 1 /\ n \in Nat /\ n > 0 /\ s1.db \in Databases
    <3>1. m \in Seq(Databases) /\ Len(m) = n + 1
      BY Zenon, <2>1, <1>ChainFields DEF Consistent
    <3>2. n \in Nat /\ n > 0
      <4>1. n \in {1, 3, 4}
        BY Zenon, <2>1 DEF Saved
      <4> HIDE DEF n
      <4> QED BY SMT, <4>1
    <3>3. s1.db \in Databases
      BY Zenon, <2>2, <1>LedgerFields DEF Consistent
    <3> QED BY Zenon, <3>1, <3>2, <3>3
  <2> HIDE DEF s1
  <2> DEFINE q == Append(m, s1.db)
  <2>4. \A i \in 1 .. n : q[i] = m[i]
    BY SMT, <2>3
  <2>5. /\ Consistent(s2, q, s2.db) /\ s2.saved = s.saved /\ s2.db = s.db
        /\ Len(s2.deltas) = n + 1
    <3>1. Opened(s2, s1, m)
      BY Zenon, <2>2, <1>openConsistent
    <3> HIDE DEF s2
    <3> QED BY Zenon, <2>2, <3>1 DEF Opened
  <2> HIDE DEF s2, q
  <2>6. Below(s3, s2, q, n + 1)
    <3>1. One(k, v) \in EntryMaps /\ DOMAIN One(k, v) = {k}
      BY Zenon, <1>OneEntry
    <3> DEFINE e == One(k, v)
    <3> HIDE DEF e
    <3>2. e \in EntryMaps /\ \A x \in DOMAIN e : s2.db[x] # NoEntry
      BY Zenon, <2>5, <3>1 DEF e
    <3>3. n + 1 > 0
      BY SMT, <2>3
    <3>4. s3 = storeChange(s2, e)
      BY DEF e
    <3> HIDE DEF s3
    <3> QED BY Zenon, <2>5, <3>2, <3>3, <3>4, <1>storeChangeConsistent
  <2> HIDE DEF s3
  <2>7. PICK r : Consistent(s3, r, s3.db) /\ \A i \in 1 .. n + 1 : r[i] = q[i]
    BY Zenon, <2>6 DEF Below
  <2>8. Len(s3.deltas) = n + 1 /\ s3.saved = s.saved
    BY Zenon, <2>5, <2>6 DEF Below
  <2>9. n + 1 > 1 /\ (n + 1) - 1 = n
    BY SMT, <2>3
  <2>10. Below(t, s3, r, n)
    <3>1. t = commit(s3)
      BY Zenon DEF s3, s2, s1
    <3> QED BY Zenon, <2>7, <2>8, <2>9, <3>1, <1>commitConsistent
  <2>11. Saved(s3, r, n)
    <3>0. n \in {1, 3, 4}
      BY Zenon, <2>1 DEF Saved
    <3> HIDE DEF n
    <3>1. \A i \in 1 .. n : r[i] = m[i]
      BY SMT, <2>3, <2>4, <2>7
    <3>2. n # 1 => 2 \in 1 .. n /\ 3 \in 1 .. n
      BY SMT, <3>0
    <3> QED BY Zenon, <2>1, <2>8, <3>1, <3>2 DEF Saved
  <2> QED BY Zenon, <2>10, <2>11, <1>BelowInv

\* The steps of an operation.
<1>StoreEntryInv.
    ASSUME NEW s, LedgerInv(s), Len(s.deltas) = 4, NEW k \in EntryKey, NEW v \in Values, NEW t,
           \/ s.db[k] = NoEntry /\ t = storeAdd(load(s, k, {}), k, v)
           \/ s.db[k] # NoEntry /\ t = storeChange(load(s, k, {}), One(k, v))
    PROVE  LedgerInv(t)
  <2> USE <1>StoreEntryInv
  <2> DEFINE s1 == load(s, k, {})
  <2>1. PICK m : Consistent(s, m, s.db) /\ Saved(s, m, Len(s.deltas))
    BY Zenon DEF LedgerInv
  <2>2. /\ Consistent(s1, m, s1.db) /\ s1.saved = s.saved /\ s1.db = s.db
        /\ Len(s1.deltas) = 4
    <3>1. Loaded(s1, s, m)
      BY Zenon, <2>1, <1>loadConsistent
    <3> HIDE DEF s1
    <3> QED BY Zenon, <3>1 DEF Loaded
  <2> HIDE DEF s1
  <2>3. 4 > 0
    OBVIOUS
  <2>4. Below(t, s1, m, 4)
    <3>1. CASE s.db[k] = NoEntry /\ t = storeAdd(s1, k, v)
      <4>1. s1.db[k] = NoEntry
        BY Zenon, <2>2, <3>1
      <4> QED BY Zenon, <2>2, <2>3, <3>1, <4>1, <1>storeAddConsistent
    <3>2. CASE s.db[k] # NoEntry /\ t = storeChange(s1, One(k, v))
      <4> DEFINE e == One(k, v)
      <4>1. e \in EntryMaps /\ DOMAIN e = {k}
        BY Zenon, <1>OneEntry
      <4>2. t = storeChange(s1, e)
        BY Zenon, <3>2
      <4> HIDE DEF e
      <4>3. \A x \in DOMAIN e : s1.db[x] # NoEntry
        BY Zenon, <2>2, <3>2, <4>1
      <4> QED BY Zenon, <2>2, <2>3, <4>1, <4>2, <4>3, <1>storeChangeConsistent
    <3> QED BY Zenon, <3>1, <3>2 DEF s1
  <2>5. Saved(s1, m, 4)
    BY Zenon, <2>1, <2>2 DEF Saved
  <2> QED BY Zenon, <2>4, <2>5, <1>BelowInv

<1>DeleteInv.
    ASSUME NEW s, LedgerInv(s), Len(s.deltas) = 4, NEW k \in EntryKey, s.db[k] # NoEntry,
           NEW t, t = storeDelete(load(s, k, {}), k)
    PROVE  LedgerInv(t)
  <2> USE <1>DeleteInv
  <2> DEFINE s1 == load(s, k, {})
  <2>1. PICK m : Consistent(s, m, s.db) /\ Saved(s, m, Len(s.deltas))
    BY Zenon DEF LedgerInv
  <2>2. Loaded(s1, s, m)
    BY Zenon, <2>1, <1>loadConsistent
  <2>3. t = storeDelete(s1, k)
    BY Zenon
  <2> HIDE DEF s1
  <2>4. /\ Consistent(s1, m, s1.db) /\ s1.saved = s.saved /\ s1.db[k] # NoEntry
        /\ Len(s1.deltas) = 4
    BY Zenon, <2>2 DEF Loaded
  <2>5. 4 > 0
    OBVIOUS
  <2>6. Below(t, s1, m, 4)
    BY Zenon, <2>3, <2>4, <2>5, <1>storeDeleteConsistent
  <2>7. Saved(s1, m, 4)
    BY Zenon, <2>1, <2>4 DEF Saved
  <2> QED BY Zenon, <2>6, <2>7, <1>BelowInv

<1>ConsistentSpans.
    ASSUME NEW s, NEW m, NEW b, Consistent(s, m, b), NEW n, n = Len(s.deltas)
    PROVE  Spans(s, m, b, n)
  BY <1>ConsistentSpans, Zenon, <1>ChainFields DEF Consistent, Depth, Spans

<1>AppendDatabase.
    ASSUME NEW m \in Seq(Databases), NEW b \in Databases
    PROVE  Appended(Append(m, b), m, b)
  BY <1>AppendDatabase, SMT DEF Appended

<1>BeginTxInv.
    ASSUME NEW s, LedgerInv(s), Len(s.deltas) = 1, NEW k \in EntryKey,
           NEW a, a = [s EXCEPT !.phase = "apply"], NEW l, l = load(a, k, {}),
           NEW t, Begun(t, l)
    PROVE  LedgerInv(t)
  <2> USE <1>BeginTxInv
  <2>1. PICK m : Consistent(s, m, s.db) /\ Saved(s, m, 1)
    BY Zenon DEF LedgerInv
  <2>2. Consistent(a, m, a.db) /\ a.deltas = s.deltas
    <3>1. s \in LedgerStates
      BY Zenon, <2>1 DEF Consistent
    <3>2. a \in LedgerStates
      BY Zenon, <3>1 DEF LedgerStates
    <3>3. a.db = s.db /\ a.opening = s.opening /\ a.deltas = s.deltas /\ a.cache = s.cache
      BY Zenon, <3>1 DEF LedgerStates
    <3> QED BY Zenon, <2>1, <3>2, <3>3, <1>sameConsistent
  <2>3. Consistent(l, m, l.db) /\ Len(l.deltas) = 1
    <3>1. Loaded(l, a, m)
      BY Zenon, <2>2, <1>loadConsistent
    <3> QED BY Zenon, <2>2, <3>1 DEF Loaded
  <2>4. m \in Seq(Databases) /\ Len(m) = 2 /\ l.db \in Databases /\ m[2] = l.db
    <3>1. m \in Seq(Databases) /\ Len(m) = 1 + 1 /\ m[1 + 1] = l.db /\ l \in LedgerStates
      <4>1. Spans(l, m, l.db, 1)
        BY Zenon, <2>3, <1>ConsistentSpans
      <4> QED BY Zenon, <4>1 DEF Spans
    <3>2. l.db \in Databases
      BY Zenon, <3>1, <1>LedgerFields
    <3> QED BY SMT, <3>1, <3>2
  <2> DEFINE q == Append(m, l.db)
             r == Append(q, l.db)
             o == open(l)
             u == open(o)
  <2>5. /\ q[2] = l.db /\ q[3] = l.db
        /\ r[2] = l.db /\ r[3] = l.db
    <3>1. Appended(q, m, l.db)
      BY Zenon, <2>4, <1>AppendDatabase
    <3> HIDE DEF q
    <3>2. Appended(r, q, l.db)
      BY Zenon, <2>4, <3>1, <1>AppendDatabase DEF Appended
    <3> HIDE DEF r
    <3> QED BY SMT, <2>4, <3>1, <3>2 DEF Appended
  <2>6. Opened(o, l, m)
    BY Zenon, <2>3, <1>openConsistent
  <2> HIDE DEF o
  <2>7. Consistent(o, q, o.db) /\ Len(o.deltas) = 2 /\ o.db = l.db
    <3>1. 1 + 1 = 2
      OBVIOUS
    <3> QED BY Zenon, <2>3, <2>6, <3>1 DEF Opened
  <2> HIDE DEF q, r
  <2>8. CASE t = rollback(o)
    <3>1. RolledBack(t, o, q, 2)
      <4>1. 2 > 1
        OBVIOUS
      <4> QED BY Zenon, <2>7, <2>8, <4>1, <1>rollbackConsistent
    <3>2. Consistent(t, SubSeq(q, 1, 2), t.db)
      BY Zenon, <2>5, <2>7, <3>1 DEF RolledBack
    <3>3. Len(t.deltas) = 1
      <4>1. 2 - 1 = 1
        OBVIOUS
      <4> QED BY Zenon, <3>1, <4>1 DEF RolledBack
    <3> QED BY Zenon, <3>2, <3>3, <1>StateInv
  <2>9. CASE t = [u EXCEPT !.saved = l.db, !.errorEncountered = FALSE]
    <3>1. Opened(u, o, q)
      BY Zenon, <2>7, <1>openConsistent
    <3> HIDE DEF u
    <3>2. Consistent(u, r, u.db) /\ Len(u.deltas) = 3 /\ u.db = l.db
      <4>1. 2 + 1 = 3
        OBVIOUS
      <4> QED BY Zenon, <2>7, <3>1, <4>1 DEF Opened, r
    <3>3. u \in LedgerStates
      BY Zenon, <3>2 DEF Consistent
    <3>4. t \in LedgerStates
      BY Zenon, <2>4, <2>9, <3>3 DEF LedgerStates
    <3>5. /\ t.db = u.db /\ t.opening = u.opening /\ t.deltas = u.deltas
          /\ t.cache = u.cache /\ t.saved = l.db
      BY Zenon, <2>9, <3>3 DEF LedgerStates
    <3>6. Consistent(t, r, t.db)
      BY Zenon, <3>2, <3>4, <3>5, <1>sameConsistent
    <3>7. Saved(t, r, 3)
      BY Zenon, <2>5, <3>5 DEF Saved
    <3> QED BY Zenon, <3>2, <3>5, <3>6, <3>7 DEF LedgerInv
  <2> QED BY Zenon, <2>8, <2>9 DEF o, Begun

<1>BeginOpInv.
    ASSUME NEW s, LedgerInv(s), Len(s.deltas) = 3, NEW t, t = open(s)
    PROVE  LedgerInv(t)
  <2> USE <1>BeginOpInv
  <2>1. PICK m : Consistent(s, m, s.db) /\ Saved(s, m, 3)
    BY Zenon DEF LedgerInv
  <2>2. Opened(t, s, m)
    BY Zenon, <2>1, <1>openConsistent
  <2> DEFINE q == Append(m, s.db)
  <2>3. q[2] = m[2] /\ q[3] = m[3]
    <3>1. m \in Seq(Databases) /\ Len(m) = 3 + 1 /\ s \in LedgerStates
      <4>1. Spans(s, m, s.db, 3)
        BY Zenon, <2>1, <1>ConsistentSpans
      <4> QED BY Zenon, <4>1 DEF Spans
    <3>2. s.db \in Databases
      BY Zenon, <3>1, <1>LedgerFields
    <3>3. Appended(q, m, s.db)
      BY Zenon, <3>1, <3>2, <1>AppendDatabase
    <3> HIDE DEF q
    <3>4. 2 \in 1 .. Len(m) /\ 3 \in 1 .. Len(m)
      BY SMT, <3>1
    <3> QED BY Zenon, <3>3, <3>4 DEF Appended
  <2> HIDE DEF q
  <2>4. Consistent(t, q, t.db) /\ Len(t.deltas) = 3 + 1 /\ t.saved = s.saved
    BY Zenon, <2>2 DEF Opened, q
  <2>5. Len(t.deltas) = 4 /\ 4 \in {1, 3, 4} /\ 3 # 1
    BY SMT, <2>4
  <2> QED BY Zenon, <2>1, <2>3, <2>4, <2>5 DEF LedgerInv, Saved

<1>EndOpInv.
    ASSUME NEW s, LedgerInv(s), Len(s.deltas) = 4, NEW e \in BOOLEAN,
           NEW t, t = [commit(s) EXCEPT !.errorEncountered = e]
    PROVE  LedgerInv(t)
  <2> USE <1>EndOpInv
  <2> DEFINE c == commit(s)
  <2>1. PICK m : Consistent(s, m, s.db) /\ Saved(s, m, 4)
    BY Zenon DEF LedgerInv
  <2>2. 4 > 1 /\ 4 - 1 = 3 /\ 4 # 1 /\ 3 \in {1, 3, 4}
    OBVIOUS
  <2>3. Below(c, s, m, 3)
    BY Zenon, <2>1, <2>2, <1>commitConsistent
  <2> HIDE DEF c
  <2>4. Saved(s, m, 3)
    BY Zenon, <2>1, <2>2 DEF Saved
  <2>5. LedgerInv(c)
    BY Zenon, <2>3, <2>4, <1>BelowInv
  <2>6. PICK q : Consistent(c, q, c.db) /\ Saved(c, q, Len(c.deltas))
    BY Zenon, <2>5 DEF LedgerInv
  <2>7. c \in LedgerStates
    BY Zenon, <2>6 DEF Consistent
  <2>8. t = [c EXCEPT !.errorEncountered = e]
    BY DEF c
  <2>9. t \in LedgerStates
    BY Zenon, <2>7, <2>8 DEF LedgerStates
  <2>10. /\ t.db = c.db /\ t.opening = c.opening /\ t.deltas = c.deltas
         /\ t.cache = c.cache /\ t.saved = c.saved
    BY Zenon, <2>7, <2>8 DEF LedgerStates
  <2>11. Consistent(t, q, t.db)
    BY Zenon, <2>6, <2>9, <2>10, <1>sameConsistent
  <2> QED BY Zenon, <2>6, <2>10, <2>11 DEF LedgerInv, Saved

\* The deltas of a transaction are destroyed and its savepoint restored.
<1>RollbackTxInv.
    ASSUME NEW s, LedgerInv(s), NEW t,
           \/ /\ Len(s.deltas) = 4
              /\ t = [rollback(rollback(rollback(s))) EXCEPT !.db = s.saved]
           \/ /\ Len(s.deltas) = 3
              /\ t = rollback([rollback(s) EXCEPT !.db = s.saved])
    PROVE  LedgerInv(t)
  <2> USE <1>RollbackTxInv
  <2>0. /\ 4 > 1 /\ 3 > 1 /\ 2 > 1 /\ 4 - 1 = 3 /\ 3 - 1 = 2 /\ 2 - 1 = 1
        /\ 2 \in 1 .. 3 /\ 3 \in 1 .. 4 /\ 2 \in 1 .. 4 /\ 3 \in 1 .. 3
        /\ 4 # 1 /\ 3 # 1 /\ 2 \in 1 .. 2
    BY SMT
  <2>1. PICK m : Consistent(s, m, s.db) /\ Saved(s, m, Len(s.deltas))
    BY Zenon DEF LedgerInv
  <2>2. s.saved \in Databases
    BY Zenon, <2>1, <1>LedgerFields DEF Consistent
  <2> DEFINE r == rollback(s)
  <2>3. CASE /\ Len(s.deltas) = 4
             /\ t = [rollback(rollback(r)) EXCEPT !.db = s.saved]
    <3> DEFINE p == SubSeq(m, 1, 4)
               q == SubSeq(p, 1, 3)
               w == SubSeq(q, 1, 2)
               a == rollback(r)
               b == rollback(a)
    <3>1. RolledBack(r, s, m, 4)
      BY Zenon, <2>0, <2>1, <2>3, <1>rollbackConsistent
    <3> HIDE DEF r
    <3>2. Consistent(r, p, m[4]) /\ Len(r.deltas) = 3 /\ p[2] = m[2] /\ p[3] = m[3]
      BY Zenon, <2>0, <3>1 DEF RolledBack
    <3> HIDE DEF p
    <3>3. RolledBack(a, r, p, 3)
      BY Zenon, <2>0, <3>2, <1>rollbackConsistent
    <3> HIDE DEF a
    <3>4. Consistent(a, q, p[3]) /\ Len(a.deltas) = 2 /\ q[2] = p[2]
      BY Zenon, <2>0, <3>3 DEF RolledBack
    <3> HIDE DEF q
    <3>5. RolledBack(b, a, q, 2)
      BY Zenon, <2>0, <3>4, <1>rollbackConsistent
    <3>6. t = [b EXCEPT !.db = s.saved]
      BY Zenon, <2>3 DEF a
    <3> HIDE DEF b
    <3>7. Consistent(b, w, q[2]) /\ Len(b.deltas) = 1
      BY Zenon, <2>0, <3>5 DEF RolledBack
    <3>8. q[2] = s.saved
      BY Zenon, <2>0, <2>1, <2>3, <3>2, <3>4 DEF Saved
    <3> HIDE DEF w
    <3>9. Restored(t, b, w, s.saved)
      BY Zenon, <2>2, <3>6, <3>7, <3>8, <1>restoreConsistent
    <3> QED BY Zenon, <3>7, <3>9, <1>StateInv DEF Restored
  <2>4. CASE /\ Len(s.deltas) = 3
             /\ t = rollback([r EXCEPT !.db = s.saved])
    <3> DEFINE p == SubSeq(m, 1, 3)
               q == SubSeq(p, 1, 2)
               a == [r EXCEPT !.db = s.saved]
    <3>1. RolledBack(r, s, m, 3)
      BY Zenon, <2>0, <2>1, <2>4, <1>rollbackConsistent
    <3> HIDE DEF r
    <3>2. Consistent(r, p, m[3]) /\ Len(r.deltas) = 2 /\ p[2] = m[2]
      BY Zenon, <2>0, <3>1 DEF RolledBack
    <3>3. m[2] = s.saved /\ m[3] = s.saved
      BY Zenon, <2>0, <2>1, <2>4 DEF Saved
    <3> HIDE DEF p
    <3>4. Restored(a, r, p, s.saved)
      BY Zenon, <2>2, <3>2, <3>3, <1>restoreConsistent
    <3> HIDE DEF a
    <3>5. Consistent(a, p, a.db) /\ Len(a.deltas) = 2 /\ a.db = s.saved
      BY Zenon, <3>2, <3>4 DEF Restored
    <3>6. RolledBack(t, a, p, 2)
      BY Zenon, <2>0, <2>4, <3>5, <1>rollbackConsistent DEF a
    <3>7. Consistent(t, q, t.db) /\ Len(t.deltas) = 1
      BY Zenon, <2>0, <3>2, <3>3, <3>5, <3>6 DEF RolledBack
    <3> QED BY Zenon, <3>7, <1>StateInv
  <2> QED BY Zenon, <2>3, <2>4

<1>EndTxInv.
    ASSUME NEW s, LedgerInv(s), Len(s.deltas) = 3,
           NEW accounts \in SUBSET {k \in EntryKey : s.db[k] # NoEntry}, NEW v \in Values,
           NEW t, t = commit(commit(removeUsedOneTimeSignerKeys(s, accounts, v)))
    PROVE  LedgerInv(t)
  <2> USE <1>EndTxInv
  <2> DEFINE e == [k \in accounts |-> v]
             u == storeChange(s, e)
             c == commit(u)
  <2>0. 3 > 0 /\ 3 > 1 /\ 2 > 1 /\ 3 - 1 = 2 /\ 2 - 1 = 1 /\ 1 \in {1, 3, 4}
    BY SMT
  <2>1. PICK m : Consistent(s, m, s.db) /\ Saved(s, m, 3)
    BY Zenon DEF LedgerInv
  <2>2. e \in EntryMaps /\ \A k \in DOMAIN e : s.db[k] # NoEntry
    <3>1. accounts \in SUBSET EntryKey
      OBVIOUS
    <3>2. DOMAIN e = accounts /\ e = [k \in accounts |-> e[k]] /\ \A k \in accounts : e[k] \in Values
      BY Zenon
    <3> HIDE DEF e
    <3>3. e \in EntryMaps
      BY Zenon, <3>1, <3>2, <1>EntryMapType
    <3> QED BY Zenon, <3>2, <3>3
  <2>3. t = commit(c)
    BY Zenon DEF removeUsedOneTimeSignerKeys
  <2> HIDE DEF e
  <2>4. Below(u, s, m, 3)
    BY Zenon, <2>0, <2>1, <2>2, <1>storeChangeConsistent
  <2> HIDE DEF u
  <2>5. PICK q : Consistent(u, q, u.db)
    BY Zenon, <2>4 DEF Below
  <2>6. Below(c, u, q, 2)
    <3>1. Len(u.deltas) = 3
      BY Zenon, <2>4 DEF Below
    <3> QED BY Zenon, <2>0, <2>5, <3>1, <1>commitConsistent
  <2> HIDE DEF c
  <2>7. PICK r : Consistent(c, r, c.db)
    BY Zenon, <2>6 DEF Below
  <2>8. Below(t, c, r, 1)
    <3>1. Len(c.deltas) = 2
      BY Zenon, <2>6 DEF Below
    <3> QED BY Zenon, <2>0, <2>3, <2>7, <3>1, <1>commitConsistent
  <2>9. PICK w : Consistent(t, w, t.db)
    BY Zenon, <2>8 DEF Below
  <2>10. Len(t.deltas) = 1
    BY Zenon, <2>8 DEF Below
  <2> QED BY Zenon, <2>9, <2>10, <1>StateInv

\* A ledger that starts from a database b.
<1>FreshInv.
    ASSUME NEW t \in LedgerStates, t.opening = t.db, t.deltas = <<NoChanges>>, CacheOf(t, t.db)
    PROVE  LedgerInv(t)
  <2> USE <1>FreshInv
  <2> DEFINE m == <<t.db, t.db>>
             ds == <<NoChanges>>
  <2>1. Exact(NoChanges, t.db, t.db) /\ NoChanges \in Deltas
    BY Zenon, <1>ExactNothing DEF Exact
  <2>2. t.db \in Databases
    BY Zenon, <1>LedgerFields
  <2>3. /\ m \in Seq(Databases) /\ Len(m) = 2 /\ m[1] = t.db /\ m[2] = t.db
    BY SMT, <2>2
  <2>4. ds \in Seq(Deltas) /\ Len(ds) = 1 /\ ds[1] = NoChanges
    BY SMT, <2>1
  <2>5. t.deltas = ds
    OBVIOUS
  <2> HIDE DEF m, ds
  <2>6. ASSUME NEW i \in 1 .. Len(ds) PROVE Exact(ds[i], m[i], m[i + 1])
    <3>1. ds[i] = NoChanges /\ m[i] = t.db /\ m[i + 1] = t.db
      BY SMT, <2>3, <2>4
    <3> QED BY Zenon, <2>1, <3>1
  <2>7. Len(m) = Len(ds) + 1 /\ 1 + 1 = 2
    BY SMT, <2>3, <2>4
  <2>8. Chain(ds, m)
    BY Zenon, <2>3, <2>4, <2>6, <2>7 DEF Chain
  <2>9. Consistent(t, m, t.db)
    BY Zenon, <2>3, <2>4, <2>5, <2>7, <2>8 DEF Consistent, Depth
  <2> QED BY Zenon, <2>4, <2>5, <2>9, <1>StateInv

<1>EndLedgerInv.
    ASSUME NEW s, LedgerInv(s),
           NEW t, t = [s EXCEPT !.opening = s.db, !.deltas = <<NoChanges>>, !.phase = "fees"]
    PROVE  LedgerInv(t)
  <2> USE <1>EndLedgerInv
  <2>1. PICK m : Consistent(s, m, s.db)
    BY Zenon DEF LedgerInv
  <2>2. s \in LedgerStates /\ CacheOf(s, s.db)
    BY Zenon, <2>1 DEF Consistent
  <2>3. <<NoChanges>> \in Seq(Deltas)
    <3>1. NoChanges \in Deltas
      BY Zenon, <1>ExactNothing DEF Exact
    <3> QED BY SMT, <3>1
  <2>4. t \in LedgerStates
    BY Zenon, <2>2, <2>3 DEF LedgerStates
  <2>5. t.opening = s.db /\ t.db = s.db /\ t.deltas = <<NoChanges>> /\ t.cache = s.cache
    BY Zenon, <2>2 DEF LedgerStates
  <2>6. CacheOf(t, t.db)
    BY Zenon, <2>2, <2>5 DEF CacheOf
  <2> QED BY Zenon, <2>4, <2>5, <2>6, <1>FreshInv

<1>DeltaInit_Inv.
    DeltaInit => DeltaInv
  <2> SUFFICES ASSUME DeltaInit PROVE DeltaInv
    OBVIOUS
  <2>1. PICK db \in [EntryKey -> 0 .. 1] :
          ld = [opening |-> db, db |-> db, saved |-> db, cache |-> None,
                deltas |-> <<NoChanges>>, phase |-> "fees", errorEncountered |-> FALSE]
    BY Zenon DEF DeltaInit
  <2>2. db \in Databases
    <3>1. \A x \in 0 .. 1 : x \in Nat
      BY SMT
    <3> QED BY Zenon, <3>1 DEF Databases
  <2>3. None \in Caches /\ DOMAIN None = {}
    <3>1. DOMAIN None = {} /\ None = [k \in {} |-> None[k]] /\ \A k \in {} : None[k] \in Nat
      BY Zenon DEF None
    <3>2. {} \in SUBSET EntryKey
      OBVIOUS
    <3> QED BY Zenon, <3>1, <3>2, <1>CacheType
  <2>4. <<NoChanges>> \in Seq(Deltas)
    <3>1. NoChanges \in Deltas
      BY Zenon, <1>ExactNothing DEF Exact
    <3> QED BY SMT, <3>1
  <2>5. ld \in LedgerStates
    BY Zenon, <2>1, <2>2, <2>3, <2>4 DEF LedgerStates
  <2>6. /\ ld.opening = db /\ ld.db = db /\ ld.deltas = <<NoChanges>> /\ ld.cache = None
    BY Zenon, <2>1
  <2>7. CacheOf(ld, ld.db)
    BY Zenon, <2>3, <2>6 DEF CacheOf, Agree
  <2> QED BY Zenon, <2>5, <2>6, <2>7, <1>FreshInv DEF DeltaInv

<1>DeltaNext_Inv.
    DeltaInv /\ [DeltaNext]_ld => DeltaInv'
  <2> SUFFICES ASSUME LedgerInv(ld), [DeltaNext]_ld PROVE LedgerInv(ld')
    BY DEF DeltaInv
  <2>0. \A k : seen(ld, k) = ld.db[k]
    BY Zenon, <1>SeenInv
  <2>1. CASE Load
    BY Zenon, <2>1, <1>LoadInv DEF Load
  <2>2. CASE ProcessFeeSeqNum
    BY Zenon, <2>0, <2>2, <1>ProcessFeeInv DEF ProcessFeeSeqNum
  <2>3. CASE BeginTx
    <3> DEFINE a == [ld EXCEPT !.phase = "apply"]
    <3>1. PICK k \in EntryKey :
            /\ Len(ld.deltas) = 1
            /\ Begun(ld', load(a, k, {}))
      BY Zenon, <2>3 DEF BeginTx, Depth, Begun
    <3>2. a = [ld EXCEPT !.phase = "apply"]
      BY Zenon
    <3> HIDE DEF a
    <3> QED BY Zenon, <3>1, <3>2, <1>BeginTxInv
  <2>4. CASE BeginOp
    BY Zenon, <2>4, <1>BeginOpInv DEF BeginOp, Depth
  <2>5. CASE AddEntry
    <3>1. PICK k \in EntryKey, v \in Values :
            Len(ld.deltas) = 4 /\ ld.db[k] = NoEntry /\ ld' = storeAdd(load(ld, k, {}), k, v)
      BY Zenon, <2>0, <2>5 DEF AddEntry, Depth
    <3> QED BY Zenon, <3>1, <1>StoreEntryInv
  <2>6. CASE ChangeEntry
    <3>1. PICK k \in EntryKey, v \in Values :
            Len(ld.deltas) = 4 /\ ld.db[k] # NoEntry /\ ld' = storeChange(load(ld, k, {}), One(k, v))
      BY Zenon, <2>0, <2>6 DEF ChangeEntry, Depth
    <3> QED BY Zenon, <3>1, <1>StoreEntryInv
  <2>7. CASE DeleteEntry
    <3>1. PICK k \in EntryKey :
            Len(ld.deltas) = 4 /\ ld.db[k] # NoEntry /\ ld' = storeDelete(load(ld, k, {}), k)
      BY Zenon, <2>0, <2>7 DEF DeleteEntry, Depth
    <3> QED BY Zenon, <3>1, <1>DeleteInv
  <2>8. CASE EndOp
    <3>1. PICK txRes \in BOOLEAN :
            /\ Len(ld.deltas) = 4
            /\ ld' = [commit(ld) EXCEPT !.errorEncountered = @ \/ ~txRes]
      BY Zenon, <2>8 DEF EndOp, Depth
    <3> DEFINE e == commit(ld).errorEncountered \/ ~txRes
    <3>2. e \in BOOLEAN /\ ld' = [commit(ld) EXCEPT !.errorEncountered = e]
      BY Zenon, <3>1
    <3> HIDE DEF e
    <3> QED BY Zenon, <3>1, <3>2, <1>EndOpInv
  <2>9. CASE OpThrows
    BY Zenon, <2>9, <1>RollbackTxInv DEF OpThrows, Depth
  <2>10. CASE EndTx
    <3>1. PICK allUsed \in BOOLEAN, v \in Values,
               accounts \in SUBSET {k \in EntryKey : seen(ld, k) # NoEntry} :
            /\ Len(ld.deltas) = 3
            /\ \/ ld' = rollback([rollback(ld) EXCEPT !.db = ld.saved])
               \/ ld' = commit(commit(removeUsedOneTimeSignerKeys(ld, accounts, v)))
      BY Zenon, <2>10 DEF EndTx, Depth
    <3>2. accounts \in SUBSET {k \in EntryKey : ld.db[k] # NoEntry}
      BY Zenon, <2>0
    <3>3. CASE ld' = rollback([rollback(ld) EXCEPT !.db = ld.saved])
      BY Zenon, <3>1, <3>3, <1>RollbackTxInv
    <3>4. CASE ld' = commit(commit(removeUsedOneTimeSignerKeys(ld, accounts, v)))
      BY Zenon, <3>1, <3>2, <3>4, <1>EndTxInv
    <3> QED BY Zenon, <3>1, <3>3, <3>4
  <2>11. CASE EndLedger
    BY Zenon, <2>11, <1>EndLedgerInv DEF EndLedger
  <2>12. CASE UNCHANGED ld
    BY Zenon, <2>12
  <2> QED BY Zenon, <2>1, <2>2, <2>3, <2>4, <2>5, <2>6, <2>7, <2>8, <2>9, <2>10, <2>11, <2>12 DEF DeltaNext

\* The open deltas, merged, lead from the opening database to the current
\* one.
<1>TotalExact.
    ASSUME NEW s, LedgerInv(s)
    PROVE  Exact(Total(s), s.opening, s.db)
  <2> USE <1>TotalExact
  <2>1. PICK m : Consistent(s, m, s.db) /\ Saved(s, m, Len(s.deltas))
    BY Zenon DEF LedgerInv
  <2> DEFINE n == Len(s.deltas)
             d == s.deltas
  <2>2. Spans(s, m, s.db, n)
    BY Zenon, <2>1, <1>ConsistentSpans
  <2>3. n \in {1, 3, 4}
    BY Zenon, <2>1 DEF Saved
  <2>4. /\ \A i \in 1 .. n : Exact(d[i], m[i], m[i + 1])
        /\ m[1] = s.opening /\ m[n + 1] = s.db
    BY Zenon, <2>2 DEF Spans
  <2>5. /\ 1 < n => Total(s) = mergeEntries(d[1], Merged(s, 2, Merged(s, 3, d[4])))
        /\ ~(1 < n) => Total(s) = d[1]
        /\ 2 < n => Merged(s, 2, Merged(s, 3, d[4])) = mergeEntries(d[2], Merged(s, 3, d[4]))
        /\ 3 < n => Merged(s, 3, d[4]) = mergeEntries(d[3], d[4])
        /\ ~(3 < n) => Merged(s, 3, d[4]) = d[3]
    BY Zenon DEF Total, Merged, Depth
  <2> HIDE DEF n, d
  <2>6. CASE n = 1
    <3>1. Exact(d[1], m[1], m[n + 1]) /\ ~(1 < n)
      BY SMT, <2>4, <2>6
    <3> QED BY Zenon, <2>4, <2>5, <3>1
  <2>7. CASE n = 3
    <3>1. /\ Exact(d[1], m[1], m[2]) /\ Exact(d[2], m[2], m[3]) /\ Exact(d[3], m[3], m[n + 1])
          /\ 1 < n /\ 2 < n /\ ~(3 < n)
      BY SMT, <2>4, <2>7
    <3>2. Exact(mergeEntries(d[2], d[3]), m[2], m[n + 1])
      BY Zenon, <3>1, <1>mergeEntriesExact
    <3>3. Exact(mergeEntries(d[1], mergeEntries(d[2], d[3])), m[1], m[n + 1])
      BY Zenon, <3>1, <3>2, <1>mergeEntriesExact
    <3> QED BY Zenon, <2>4, <2>5, <3>1, <3>3
  <2>8. CASE n = 4
    <3>1. /\ Exact(d[1], m[1], m[2]) /\ Exact(d[2], m[2], m[3]) /\ Exact(d[3], m[3], m[4])
          /\ Exact(d[4], m[4], m[n + 1]) /\ 1 < n /\ 2 < n /\ 3 < n
      BY SMT, <2>4, <2>8
    <3>2. Exact(mergeEntries(d[3], d[4]), m[3], m[n + 1])
      BY Zenon, <3>1, <1>mergeEntriesExact
    <3> DEFINE x == mergeEntries(d[3], d[4])
    <3> HIDE DEF x
    <3>3. Exact(mergeEntries(d[2], x), m[2], m[n + 1])
      BY Zenon, <3>1, <3>2, <1>mergeEntriesExact DEF x
    <3>4. Exact(mergeEntries(d[1], mergeEntries(d[2], x)), m[1], m[n + 1])
      BY Zenon, <3>1, <3>3, <1>mergeEntriesExact
    <3> QED BY Zenon, <2>4, <2>5, <3>1, <3>4 DEF x
  <2> QED BY Zenon, <2>3, <2>6, <2>7, <2>8

<1>InvIsExact.
    DeltaInv => DeltaIsExact
  <2> SUFFICES ASSUME LedgerInv(ld) PROVE DeltaIsExact
    BY DEF DeltaInv
  <2> DEFINE t == Total(ld)
  <2>1. Exact(t, ld.opening, ld.db)
    BY Zenon, <1>TotalExact
  <2> HIDE DEF t
  <2>2. t.ok /\ \A k \in EntryKey : ExactAt(t, k, ld.opening[k], ld.db[k])
    BY Zenon, <2>1 DEF Exact
  <2>3. ASSUME NEW k \in EntryKey
        PROVE  CASE k \in DOMAIN t.mNew -> ld.opening[k] = NoEntry
                                               /\ ld.db[k] = t.mNew[k]
                                               /\ k \notin t.mDelete
                  [] k \in DOMAIN t.mMod -> ld.opening[k] # NoEntry
                                               /\ ld.db[k] = t.mMod[k]
                  [] k \in t.mDelete     -> ld.opening[k] # NoEntry
                                               /\ ld.db[k] = NoEntry
                  [] OTHER               -> ld.db[k] = ld.opening[k]
    BY SMT, <2>2 DEF ExactAt
  <2> QED BY Zenon, <2>2, <2>3 DEF DeltaIsExact, t

<1> QED BY <1>DeltaInit_Inv, <1>DeltaNext_Inv, <1>InvIsExact, PTL DEF DeltaSpec

\* Whatever operations do and fees change, and whichever of them are rolled
\* back, the changes that closeLedger hands to the bucket list are exactly
\* those of the SQL database, for any number of entries and values.
THEOREM DeltasAreExact == DeltaSpec => []DeltaIsExact
BY DeltaInvariant, PTL

\* The entry cache, which no savepoint covers, never shows a value that the
\* database does not hold: rollback flushes all that a delta touched.
THEOREM CacheStaysCurrent == DeltaSpec => []CacheIsCurrent
<1>1. DeltaInv => CacheIsCurrent
  BY Zenon DEF DeltaInv, LedgerInv, Consistent, CacheOf, Agree, CacheIsCurrent
<1> QED BY <1>1, DeltaInvariant, PTL

(***************************************************************************)
(* BucketStore: the bucket list holds what the database holds, after any   *)
(* number of ledgers and restarts, for every number of levels.             *)
(*                                                                         *)
(* A bucket of level i is as old as the ledgers it covers: by the schedule *)
(* of spills a level is prepared when the one above it has filled up, and  *)
(* committed half a level later.  The invariant says of every merge in     *)
(* progress that its result, when it is due, is the merge of the buckets   *)
(* it replaces, less entries that a younger bucket shadows and, at the     *)
(* last level, dead ones.  So every batch changes what Lookup finds by the *)
(* entries of the batch alone.  A restarted node has the same list, with   *)
(* other merges resolved: Same.                                            *)
(***************************************************************************)

-----------------------------------------------------------------------------
(* The schedule of spills.                                                 *)

LEMMA NatLessWellFounded ==
    IsWellFoundedOn({ss \in Nat \X Nat : ss[1] < ss[2]}, Nat)
BY NatLessThanWellFounded, Zenon DEF OpToRel

\* Every non-empty set of naturals has a least element.
LEMMA LeastOfNaturals ==
    ASSUME NEW T \in SUBSET Nat, T # {}
    PROVE  \E x \in T : \A y \in T : x <= y
<1> DEFINE R == {ss \in Nat \X Nat : ss[1] < ss[2]}
<1>1. IsWellFoundedOn(R, Nat)
  BY NatLessWellFounded
<1>2. \E x \in T : \A y \in T : ~(<<y, x>> \in R)
  <2> HIDE DEF R
  <2> QED BY Zenon, <1>1, WFMin
<1>3. PICK x \in T : \A y \in T : ~(y < x)
  BY Zenon, <1>2
<1> QED BY SMT, <1>3

LEMMA LevelNumbers ==
    /\ kNumLevels - 1 \in Nat \ {0} /\ 0 \in Levels /\ kNumLevels - 1 \in Levels
    /\ \A i \in Levels : /\ i \in Nat /\ i <= kNumLevels - 1
                         /\ i # 0 => i - 1 \in Levels
                         /\ i # kNumLevels - 1 => i + 1 \in Levels
BY SMT, kNumLevelsAssumption DEF Levels

\* levelSize is a function: powers of four up to any level exist.
Powers(f, k) ==
    /\ f \in [0..k -> Nat \ {0}]
    /\ \A i \in 0..k : f[i] = IF i = 0 THEN 4 ELSE 4 * f[i - 1]

LEMMA PowersExist == \A k \in Nat : \E f : Powers(f, k)
<1> DEFINE T == {k \in Nat : ~\E f : Powers(f, k)}
<1> SUFFICES ASSUME T # {} PROVE FALSE
  BY Zenon
<1>1. PICK k \in T : \A j \in T : k <= j
  <2> HIDE DEF T
  <2>1. T \in SUBSET Nat
    BY Zenon DEF T
  <2> QED BY Zenon, <2>1, LeastOfNaturals
<1>2. k \in Nat /\ ~\E f : Powers(f, k)
  BY Zenon, <1>1
<1>3. CASE k = 0
  <2> DEFINE f == [i \in 0..0 |-> 4]
  <2>1. Powers(f, 0)
    BY SMT DEF Powers
  <2> QED BY Zenon, <1>2, <1>3, <2>1
<1>4. CASE k # 0
  <2>1. k - 1 \in Nat /\ k - 1 \notin T
    BY SMT, <1>1, <1>2, <1>4
  <2>2. PICK f : Powers(f, k - 1)
    BY Zenon, <2>1
  <2> DEFINE g == [i \in 0..k |-> IF i = k THEN 4 * f[k - 1] ELSE f[i]]
  <2>3. \A i \in 0..(k - 1) : f[i] \in Nat \ {0} /\ f[i] = IF i = 0 THEN 4 ELSE 4 * f[i - 1]
    BY SMT, <2>2 DEF Powers
  <2>4. Powers(g, k)
    <3>1. \A i \in 0..k : g[i] = IF i = k THEN 4 * f[k - 1] ELSE f[i]
      BY Zenon
    <3>2. f[k - 1] \in Nat \ {0}
      BY SMT, <2>3, <2>1
    <3>3. ASSUME NEW i \in 0..k PROVE g[i] \in Nat \ {0} /\ g[i] = IF i = 0 THEN 4 ELSE 4 * g[i - 1]
      <4> HIDE DEF g
      <4>1. CASE i = k
        <5>1. g[i - 1] = f[k - 1]
          BY SMT, <3>1, <4>1, <2>1, <1>2
        <5>2. g[i] = 4 * f[k - 1] /\ i # 0
          BY SMT, <3>1, <4>1, <1>4
        <5> QED BY SMT, <5>1, <5>2, <3>2
      <4>2. CASE i # k
        <5>1. i \in 0..(k - 1) /\ g[i] = f[i]
          BY SMT, <3>1, <4>2, <1>2
        <5>2. i # 0 => i - 1 \in 0..k /\ i - 1 # k
          BY SMT, <1>2
        <5>3. i # 0 => g[i - 1] = f[i - 1]
          BY Zenon, <5>2, <3>1
        <5> QED BY Zenon, <5>1, <5>3, <2>3
      <4> QED BY Zenon, <4>1, <4>2
    <3>4. g \in [0..k -> Nat \ {0}]
      BY Zenon, <3>3
    <3> QED BY Zenon, <3>3, <3>4 DEF Powers
  <2> QED BY Zenon, <1>2, <2>4
<1> QED BY Zenon, <1>3, <1>4

LEMMA LevelSizes ==
    \A i \in Levels : /\ levelSize[i] \in Nat \ {0}
                      /\ levelSize[i] = IF i = 0 THEN 4 ELSE 4 * levelSize[i - 1]
<1> DEFINE F(f) == [level \in Levels |-> IF level = 0 THEN 4 ELSE 4 * f[level - 1]]
<1>1. kNumLevels - 1 \in Nat
  BY SMT, kNumLevelsAssumption
<1>2. PICK f : Powers(f, kNumLevels - 1)
  BY Zenon, <1>1, PowersExist
<1>3. f = F(f)
  <2>1. f \in [Levels -> Nat \ {0}] /\ \A i \in Levels : f[i] = IF i = 0 THEN 4 ELSE 4 * f[i - 1]
    BY Zenon, <1>2 DEF Powers, Levels
  <2>2. f = [i \in Levels |-> f[i]]
    BY Zenon, <2>1
  <2> QED BY Zenon, <2>1, <2>2
<1>4. levelSize = F(levelSize)
  BY Zenon, <1>3 DEF levelSize
<1>5. \A i \in Levels : levelSize[i] = IF i = 0 THEN 4 ELSE 4 * levelSize[i - 1]
  BY Zenon, <1>4
<1> DEFINE T == {i \in Levels : levelSize[i] \notin Nat \ {0}}
<1>6. T = {}
  <2> SUFFICES ASSUME T # {} PROVE FALSE
    BY Zenon
  <2>1. T \in SUBSET Nat
    BY SMT DEF Levels
  <2>2. PICK i \in T : \A j \in T : i <= j
    <3> HIDE DEF T
    <3> QED BY Zenon, <2>1, LeastOfNaturals
  <2>3. i \in Levels /\ levelSize[i] \notin Nat \ {0}
    BY Zenon
  <2>4. CASE i = 0
    BY SMT, <1>5, <2>3, <2>4
  <2>5. CASE i # 0
    <3>1. i - 1 \in Levels /\ ~(i <= i - 1)
      BY SMT, <2>3, <2>5, LevelNumbers
    <3>2. levelSize[i - 1] \in Nat \ {0}
      BY Zenon, <2>2, <3>1
    <3> QED BY SMT, <1>5, <2>3, <2>5, <3>2
  <2> QED BY Zenon, <2>4, <2>5
<1> QED BY Zenon, <1>5, <1>6

LEMMA LevelHalves ==
    \A i \in Levels : /\ levelHalf(i) \in Nat \ {0}
                      /\ levelSize[i] = 2 * levelHalf(i)
                      /\ i # 0 => levelHalf(i) = 4 * levelHalf(i - 1)
<1>1. ASSUME NEW i \in Levels
      PROVE  levelHalf(i) \in Nat \ {0} /\ levelSize[i] = 2 * levelHalf(i)
  <2>1. PICK s \in Nat \ {0} : levelSize[i] = 4 * s
    <3>1. CASE i = 0
      <4>1. levelSize[i] = 4 * 1
        BY SMT, LevelSizes, <3>1
      <4> QED BY SMT, <4>1
    <3>2. CASE i # 0
      <4>1. i - 1 \in Levels
        BY Zenon, <3>2, LevelNumbers
      <4> QED BY Zenon, LevelSizes, <3>2, <4>1
    <3> QED BY Zenon, <3>1, <3>2
  <2> QED BY SMT, <2>1 DEF levelHalf
<1>2. ASSUME NEW i \in Levels, i # 0 PROVE levelHalf(i) = 4 * levelHalf(i - 1)
  <2>1. i - 1 \in Levels
    BY Zenon, <1>2, LevelNumbers
  <2>2. levelSize[i] = 4 * levelSize[i - 1]
    BY Zenon, LevelSizes, <1>2
  <2> QED BY SMT, <2>1, <2>2, <1>1
<1> QED BY Zenon, <1>1, <1>2

\* Of a multiple of h, and of the other numbers.
LEMMA Multiples ==
    ASSUME NEW m \in Nat, NEW h \in Nat \ {0}
    PROVE  /\ (m = mask(m, h)) <=> (m % h = 0)
           /\ m % h = 0 => \E q \in Nat : m = q * h
           /\ \A q \in Nat : (q * h) % h = 0
<1>1. m % h \in Int /\ 0 <= m % h /\ m % h < h /\ m = h * (m \div h) + (m % h) /\ m \div h \in Nat
  BY SMT
<1>2. ASSUME NEW q \in Nat PROVE (q * h) % h = 0
  BY SMT
<1>3. m % h = 0 => m = (m \div h) * h
  BY SMT, <1>1
<1>4. (m = mask(m, h)) <=> (m % h = 0)
  BY SMT, <1>1 DEF mask
<1> QED BY Zenon, <1>1, <1>2, <1>3, <1>4

\* The multiple of h that a ledger before m waits for is m if m is a multiple,
\* and what m waits for if it is not.
LEMMA NextMultiple ==
    ASSUME NEW n \in Nat, NEW h \in Nat \ {0}
    PROVE  /\ (n + 1) % h = 0 => mask(n, h) + h = n + 1
           /\ (n + 1) % h # 0 => mask(n, h) = mask(n + 1, h)
           /\ mask(n, h) \in Nat
<1> DEFINE q == n \div h
           r == n % h
<1>1. q \in Nat /\ r \in Nat /\ r < h /\ n = h * q + r
  BY SMT
<1>2. CASE r = h - 1
  <2>1. n + 1 = (q + 1) * h
    BY SMT, <1>1, <1>2
  <2>2. ((q + 1) * h) % h = 0
    BY SMT, <1>1, Multiples
  <2> QED BY SMT, <1>1, <1>2, <2>1, <2>2 DEF mask
<1>3. CASE r # h - 1
  <2>1. n + 1 = h * q + (r + 1) /\ r + 1 < h /\ r + 1 > 0
    BY SMT, <1>1, <1>3
  <2> DEFINE m == n + 1
             p == m \div h
             t == m % h
  <2>3. p \in Nat /\ t \in Nat /\ t < h /\ m = h * p + t
    BY SMT
  <2>4. p = q
    <3> HIDE DEF p, q, r, t, m
    <3>1. CASE p >= q + 1
      <4>1. h * p >= h * q + h
        BY SMT, <3>1, <1>1, <2>3
      <4> QED BY SMT, <4>1, <1>1, <2>1, <2>3 DEF m
    <3>2. CASE q >= p + 1
      <4>1. h * q >= h * p + h
        BY SMT, <3>2, <1>1, <2>3
      <4> QED BY SMT, <4>1, <1>1, <2>1, <2>3 DEF m
    <3> QED BY SMT, <3>1, <3>2, <1>1, <2>3
  <2>2. (n + 1) % h = r + 1
    <3> HIDE DEF p, q, r
    <3> QED BY SMT, <2>1, <2>3, <2>4, <1>1 DEF m
  <2> QED BY SMT, <1>1, <2>1, <2>2 DEF mask
<1> QED BY Zenon, <1>2, <1>3

\* A level spills at the multiples of its half, and with it every level above.
LEMMA Spilling ==
    ASSUME NEW m \in Nat, NEW i \in Levels
    PROVE  /\ levelShouldSpill(m, i) <=> (i # kNumLevels - 1 /\ m % levelHalf(i) = 0)
           /\ i # 0 /\ levelShouldSpill(m, i) => levelShouldSpill(m, i - 1)
           /\ ~levelShouldSpill(m, kNumLevels - 1)
<1>1. ASSUME NEW j \in Levels
      PROVE  levelShouldSpill(m, j) <=> (j # kNumLevels - 1 /\ m % levelHalf(j) = 0)
  <2> DEFINE h == levelHalf(j)
             s == levelSize[j]
  <2>1. h \in Nat \ {0} /\ s = 2 * h /\ s \in Nat \ {0}
    BY SMT, LevelHalves
  <2>2. m % s = 0 => m % h = 0
    <3> HIDE DEF h, s
    <3> SUFFICES ASSUME m % s = 0 PROVE m % h = 0
      OBVIOUS
    <3>1. PICK q \in Nat : m = q * s
      BY Zenon, <2>1, Multiples
    <3>2. m = (2 * q) * h /\ 2 * q \in Nat
      BY SMT, <3>1, <2>1
    <3>3. ((2 * q) * h) % h = 0
      BY Zenon, <3>2, <2>1, Multiples
    <3> QED BY Zenon, <3>2, <3>3
  <2>3. ((m = mask(m, h)) <=> (m % h = 0)) /\ ((m = mask(m, s)) <=> (m % s = 0))
    <3> HIDE DEF h, s
    <3> QED BY Zenon, <2>1, Multiples
  <2> QED BY Zenon, <2>2, <2>3 DEF levelShouldSpill
<1>2. ASSUME i # 0, levelShouldSpill(m, i) PROVE levelShouldSpill(m, i - 1)
  <2> DEFINE h == levelHalf(i - 1)
  <2>1. i - 1 \in Levels /\ i - 1 # kNumLevels - 1
    BY SMT, <1>2, LevelNumbers
  <2>2. h \in Nat \ {0} /\ levelHalf(i) = 4 * h /\ levelHalf(i) \in Nat \ {0}
    BY Zenon, <2>1, <1>2, LevelHalves
  <2>3. m % levelHalf(i) = 0
    BY Zenon, <1>1, <1>2
  <2>4. PICK q \in Nat : m = q * levelHalf(i)
    BY Zenon, <2>3, <2>2, Multiples
  <2>5. m = (4 * q) * h /\ 4 * q \in Nat
    <3> HIDE DEF h
    <3> QED BY SMT, <2>4, <2>2
  <2>6. m % h = 0
    <3> HIDE DEF h
    <3> QED BY Zenon, <2>5, <2>2, Multiples
  <2> QED BY Zenon, <2>1, <2>6, <1>1
<1>3. ~levelShouldSpill(m, kNumLevels - 1)
  BY Zenon DEF levelShouldSpill
<1> QED BY Zenon, <1>1, <1>2, <1>3

\* The ledger at which level i commits the merge that it has after ledger n.
Due(n, i) == mask(n, levelHalf(i - 1)) + levelHalf(i - 1)

LEMMA DueLedger ==
    ASSUME NEW n \in Nat, NEW i \in Levels, i # 0
    PROVE  /\ levelShouldSpill(n + 1, i - 1)
                => Due(n, i) = n + 1 /\ Due(n + 1, i) = n + 1 + levelHalf(i - 1)
           /\ ~levelShouldSpill(n + 1, i - 1) => Due(n + 1, i) = Due(n, i)
<1> DEFINE h == levelHalf(i - 1)
<1>1. i - 1 \in Levels /\ i - 1 # kNumLevels - 1 /\ n + 1 \in Nat
  BY SMT, LevelNumbers
<1>2. h \in Nat \ {0}
  BY Zenon, <1>1, LevelHalves
<1>3. levelShouldSpill(n + 1, i - 1) <=> ((n + 1) % h = 0)
  BY Zenon, <1>1, Spilling
<1> HIDE DEF h
<1>4. /\ (n + 1) % h = 0 => mask(n, h) + h = n + 1 /\ mask(n + 1, h) = n + 1
      /\ (n + 1) % h # 0 => mask(n, h) = mask(n + 1, h)
  BY Zenon, <1>1, <1>2, NextMultiple, Multiples
<1> QED BY Zenon, <1>3, <1>4 DEF Due, h

-----------------------------------------------------------------------------
(* Levels.                                                                 *)

LevelIs(l, c, s, f) == l = [curr |-> c, snap |-> s, next |-> f]
IsLevel(l) == LevelIs(l, l.curr, l.snap, l.next)

\* What level i commits at ledger m: nothing changes as long as it has no merge.
Output(l, spills) ==
    IF l.next.state = "clear" THEN IF spills THEN EmptyBucket ELSE l.curr ELSE resolve(l.next)

\* What a batch does to a level that takes the snap of the level above, ...
Spilled(list, new, m, i) ==
    /\ new[i].curr = Output(list[i], levelShouldSpill(m, i))
    /\ new[i].next = InputsFuture(IF levelShouldSpill(m + levelHalf(i - 1), i)
                                  THEN EmptyBucket ELSE new[i].curr,
                                  list[i - 1].curr, shadowsOf(list, i), i < kNumLevels - 1)

\* ... and to all of them.
Added(list, new, m, batch) ==
    \A i \in Levels :
        /\ IsLevel(new[i])
        /\ new[i].snap = IF levelShouldSpill(m, i) THEN list[i].curr ELSE list[i].snap
        /\ i = 0 => /\ new[i].curr = merge(IF levelShouldSpill(m, 0) THEN EmptyBucket
                                           ELSE list[0].curr, batch, {}, 0 < kNumLevels - 1)
                    /\ new[i].next = ClearFuture
        /\ i # 0 /\ levelShouldSpill(m, i - 1) => Spilled(list, new, m, i)
        /\ i # 0 /\ ~levelShouldSpill(m, i - 1)
              => new[i].curr = list[i].curr /\ new[i].next = list[i].next

LEMMA LevelFields ==
    ASSUME NEW l, NEW c, NEW s, NEW f, LevelIs(l, c, s, f)
    PROVE  IsLevel(l) /\ l.curr = c /\ l.snap = s /\ l.next = f
BY Zenon DEF LevelIs, IsLevel

LEMMA LevelSet ==
    ASSUME NEW c, NEW s, NEW f, NEW l \in [curr : {c}, snap : {s}, next : {f}]
    PROVE  LevelIs(l, c, s, f)
BY Zenon DEF LevelIs

LEMMA SetNext ==
    ASSUME NEW l, IsLevel(l), NEW x
    PROVE  LevelIs([l EXCEPT !.next = x], l.curr, l.snap, x)
<1>1. l \in [curr : {l.curr}, snap : {l.snap}, next : {l.next}]
  BY Zenon DEF IsLevel, LevelIs
<1>2. [l EXCEPT !.next = x] \in [curr : {l.curr}, snap : {l.snap}, next : {x}]
  BY Zenon, <1>1
<1> QED BY Zenon, <1>2, LevelSet

LEMMA SnapLevel ==
    ASSUME NEW l, IsLevel(l)
    PROVE  LevelIs(snapLevel(l), EmptyBucket, l.curr, l.next)
<1> DEFINE e == EmptyBucket
<1>1. l \in [curr : {l.curr}, snap : {l.snap}, next : {l.next}]
  BY Zenon DEF IsLevel, LevelIs
<1>2. [l EXCEPT !.snap = l.curr, !.curr = e] \in [curr : {e}, snap : {l.curr}, next : {l.next}]
  <2> HIDE DEF e
  <2> QED BY Zenon, <1>1
<1>3. snapLevel(l) \in [curr : {e}, snap : {l.curr}, next : {l.next}]
  BY Zenon, <1>2 DEF snapLevel
<1> QED BY Zenon, <1>3, LevelSet

LEMMA CommitLevel ==
    ASSUME NEW l, IsLevel(l)
    PROVE  /\ IsLevel(commitLevel(l))
           /\ commitLevel(l).curr = IF l.next.state = "clear" THEN l.curr ELSE resolve(l.next)
           /\ commitLevel(l).snap = l.snap
           /\ l.next.state # "clear" => commitLevel(l).next = ClearFuture
<1>1. CASE l.next.state = "clear"
  BY Zenon, <1>1 DEF commitLevel
<1>2. CASE l.next.state # "clear"
  <2> DEFINE r == resolve(l.next)
             f == ClearFuture
  <2>1. l \in [curr : {l.curr}, snap : {l.snap}, next : {l.next}]
    BY Zenon DEF IsLevel, LevelIs
  <2>2. [l EXCEPT !.curr = r, !.next = f] \in [curr : {r}, snap : {l.snap}, next : {f}]
    <3> HIDE DEF r, f
    <3> QED BY Zenon, <2>1
  <2>3. commitLevel(l) = [l EXCEPT !.curr = r, !.next = f]
    BY Zenon, <1>2 DEF commitLevel
  <2> HIDE DEF r, f
  <2>4. LevelIs(commitLevel(l), r, l.snap, f)
    BY Zenon, <2>2, <2>3, LevelSet
  <2>5. IsLevel(commitLevel(l)) /\ commitLevel(l).curr = r /\ commitLevel(l).snap = l.snap /\ commitLevel(l).next = f
    BY Zenon, <2>4, LevelFields
  <2> QED BY Zenon, <1>2, <2>5 DEF r, f
<1> QED BY Zenon, <1>1, <1>2

LEMMA PrepareLevel ==
    ASSUME NEW l, IsLevel(l), NEW i, NEW n, NEW s, NEW sh
    PROVE  LevelIs(prepare(l, i, n, s, sh), l.curr, l.snap,
                   InputsFuture(IF i # 0 /\ levelShouldSpill(n + levelHalf(i - 1), i)
                                THEN EmptyBucket ELSE l.curr, s, sh, i < kNumLevels - 1))
BY Zenon, SetNext DEF prepare

LEMMA ClearState == ClearFuture.state = "clear"
BY Zenon DEF ClearFuture

LEMMA OutputState ==
    ASSUME NEW b
    PROVE  OutputFuture(b).state = "output" /\ resolve(OutputFuture(b)) = b
BY Zenon DEF OutputFuture, resolve

LEMMA InputsState ==
    ASSUME NEW c, NEW s, NEW sh, NEW keep
    PROVE  /\ InputsFuture(c, s, sh, keep).state = "inputs"
           /\ resolve(InputsFuture(c, s, sh, keep)) = merge(c, s, sh, keep)
<1> DEFINE f == InputsFuture(c, s, sh, keep)
<1>1. f.state = "inputs" /\ f.curr = c /\ f.snap = s /\ f.shadows = sh /\ f.keepDeadEntries = keep
  BY Zenon DEF InputsFuture
<1>2. f.state # "output"
  BY SMT, <1>1
<1> HIDE DEF f
<1>3. resolve(f) = merge(c, s, sh, keep)
  BY Zenon, <1>1, <1>2 DEF resolve
<1> QED BY Zenon, <1>1, <1>3 DEF f

\* addBatch, level by level.
LEMMA AddBatch ==
    ASSUME NEW list, \A i \in Levels : IsLevel(list[i]), NEW m \in Nat, NEW batch
    PROVE  Added(list, addBatch(list, m, batch), m, batch)
<1> DEFINE new == addBatch(list, m, batch)
           own(i) == IF levelShouldSpill(m, i) THEN snapLevel(list[i]) ELSE list[i]
<1>1. ASSUME NEW i \in Levels
      PROVE  new[i] = IF i = 0
                      THEN commitLevel(prepare(own(i), 0, m, batch, {}))
                      ELSE IF levelShouldSpill(m, i - 1)
                           THEN prepare(commitLevel(own(i)), i, m, list[i - 1].curr, shadowsOf(list, i))
                           ELSE own(i)
  BY Zenon DEF addBatch
<1>2. ASSUME NEW i \in Levels
      PROVE  /\ IsLevel(own(i))
             /\ own(i).snap = IF levelShouldSpill(m, i) THEN list[i].curr ELSE list[i].snap
             /\ own(i).curr = IF levelShouldSpill(m, i) THEN EmptyBucket ELSE list[i].curr
             /\ own(i).next = list[i].next
  <2>1. CASE levelShouldSpill(m, i)
    <3> DEFINE l == snapLevel(list[i])
    <3>1. LevelIs(l, EmptyBucket, list[i].curr, list[i].next)
      BY Zenon, SnapLevel
    <3>2. IsLevel(l) /\ l.curr = EmptyBucket /\ l.snap = list[i].curr /\ l.next = list[i].next
      <4> HIDE DEF l
      <4> QED BY SMT, <3>1, LevelFields
    <3> QED BY Zenon, <2>1, <3>2
  <2>2. CASE ~levelShouldSpill(m, i)
    BY Zenon, <2>2
  <2> QED BY Zenon, <2>1, <2>2
<1> HIDE DEF own, new
<1>3. ASSUME NEW i \in Levels, i = 0
      PROVE  /\ IsLevel(new[i]) /\ new[i].snap = own(i).snap
             /\ new[i].curr = merge(own(0).curr, batch, {}, 0 < kNumLevels - 1)
             /\ new[i].next = ClearFuture
  <2> DEFINE p == prepare(own(0), 0, m, batch, {})
             keep == 0 < kNumLevels - 1
             f == InputsFuture(own(0).curr, batch, {}, keep)
  <2>2. LevelIs(p, own(0).curr, own(0).snap, f)
    BY Zenon, <1>2, <1>3, PrepareLevel
  <2> HIDE DEF p, keep
  <2>3. IsLevel(p) /\ p.snap = own(0).snap /\ p.next = f
    <3> HIDE DEF f
    <3> QED BY Zenon, <2>2, LevelFields
  <2>4. p.next.state # "clear" /\ resolve(p.next) = merge(own(0).curr, batch, {}, keep)
    <3>1. f.state = "inputs" /\ resolve(f) = merge(own(0).curr, batch, {}, keep)
      BY InputsState
    <3> HIDE DEF f
    <3> QED BY SMT, <2>3, <3>1
  <2>5. /\ IsLevel(commitLevel(p)) /\ commitLevel(p).snap = own(0).snap
        /\ commitLevel(p).curr = merge(own(0).curr, batch, {}, keep)
        /\ commitLevel(p).next = ClearFuture
    BY Zenon, <2>3, <2>4, CommitLevel
  <2>6. new[i] = commitLevel(p)
    BY Zenon, <1>1, <1>3 DEF p
  <2> QED BY Zenon, <1>3, <2>5, <2>6 DEF keep
<1>4. ASSUME NEW i \in Levels, i # 0, levelShouldSpill(m, i - 1)
      PROVE  IsLevel(new[i]) /\ new[i].snap = own(i).snap /\ Spilled(list, new, m, i)
  <2> DEFINE c == commitLevel(own(i))
             out == Output(list[i], levelShouldSpill(m, i))
             f == InputsFuture(IF levelShouldSpill(m + levelHalf(i - 1), i) THEN EmptyBucket ELSE out,
                               list[i - 1].curr, shadowsOf(list, i), i < kNumLevels - 1)
  <2>1. /\ IsLevel(c)
        /\ c.curr = IF own(i).next.state = "clear" THEN own(i).curr ELSE resolve(own(i).next)
        /\ c.snap = own(i).snap
    BY Zenon, <1>2, CommitLevel
  <2>2. c.curr = out
    BY Zenon, <1>2, <2>1 DEF Output
  <2> HIDE DEF c, out
  <2>3. LevelIs(new[i], out, own(i).snap, f)
    <3>1. new[i] = prepare(c, i, m, list[i - 1].curr, shadowsOf(list, i))
      BY Zenon, <1>1, <1>4 DEF c
    <3> QED BY Zenon, <1>4, <2>1, <2>2, <3>1, PrepareLevel
  <2>4. IsLevel(new[i]) /\ new[i].snap = own(i).snap /\ new[i].curr = out /\ new[i].next = f
    <3> HIDE DEF f
    <3> QED BY Zenon, <2>3, LevelFields
  <2> QED BY Zenon, <2>4 DEF Spilled, out
<1>5. ASSUME NEW i \in Levels, i # 0, ~levelShouldSpill(m, i - 1)
      PROVE  /\ IsLevel(new[i]) /\ new[i].snap = own(i).snap
             /\ new[i].curr = list[i].curr /\ new[i].next = list[i].next
  BY Zenon, <1>1, <1>2, <1>5, Spilling
<1>6. ASSUME NEW i \in Levels
      PROVE  /\ IsLevel(new[i])
             /\ new[i].snap = IF levelShouldSpill(m, i) THEN list[i].curr ELSE list[i].snap
  BY Zenon, <1>2, <1>3, <1>4, <1>5
<1>7. ASSUME NEW i \in Levels, i = 0
      PROVE  /\ new[i].curr = merge(IF levelShouldSpill(m, 0) THEN EmptyBucket
                                    ELSE list[0].curr, batch, {}, 0 < kNumLevels - 1)
             /\ new[i].next = ClearFuture
  BY Zenon, <1>2, <1>3, <1>7
<1>8. Added(list, new, m, batch)
  BY Zenon, <1>4, <1>5, <1>6, <1>7 DEF Added
<1> QED BY Zenon, <1>8 DEF new

-----------------------------------------------------------------------------
(* The buckets by age: curr of level j is the bucket 2j + 1, snap 2j + 2.  *)

Places == 1..(2 * kNumLevels)

Holds(list, p, key) == key \in DOMAIN Youngest(list)[p]

\* p is the first bucket with an entry for the key; no bucket has one.
First(list, key, p) ==
    /\ p \in Places /\ Holds(list, p, key)
    /\ \A q \in Places : q < p => ~Holds(list, q, key)

Absent(list, key) == \A p \in Places : ~Holds(list, p, key)

LEMMA PlaceOf ==
    ASSUME NEW i \in Levels
    PROVE  /\ 2 * i + 1 \in Places /\ 2 * i + 2 \in Places
           /\ ((2 * i + 1) - 1) \div 2 = i /\ ((2 * i + 2) - 1) \div 2 = i
           /\ \A list : /\ Youngest(list)[2 * i + 1] = list[i].curr
                        /\ Youngest(list)[2 * i + 2] = list[i].snap
<1>1. i \in Nat /\ i <= kNumLevels - 1 /\ kNumLevels \in Nat
  BY SMT, LevelNumbers, kNumLevelsAssumption
<1>2. 2 * i + 1 \in Places /\ 2 * i + 2 \in Places
  BY SMT, <1>1 DEF Places
<1>3. /\ ((2 * i + 1) - 1) \div 2 = i /\ ((2 * i + 2) - 1) \div 2 = i
      /\ (2 * i + 1) % 2 = 1 /\ (2 * i + 2) % 2 # 1 /\ ((2 * i + 2) - 2) \div 2 = i
  BY SMT, <1>1
<1>4. ASSUME NEW list
      PROVE  /\ Youngest(list)[2 * i + 1] = list[i].curr
             /\ Youngest(list)[2 * i + 2] = list[i].snap
  BY Zenon, <1>2, <1>3 DEF Youngest, Places
<1> QED BY Zenon, <1>2, <1>3, <1>4

LEMMA EveryPlace ==
    ASSUME NEW p \in Places
    PROVE  \E i \in Levels : p = 2 * i + 1 \/ p = 2 * i + 2
<1> DEFINE i == (p - 1) \div 2
<1>1. i \in Levels /\ (p = 2 * i + 1 \/ p = 2 * i + 2)
  BY SMT, kNumLevelsAssumption DEF Places, Levels
<1> QED BY Zenon, <1>1

LEMMA FirstOrAbsent ==
    ASSUME NEW list, NEW key
    PROVE  Absent(list, key) \/ \E p \in Places : First(list, key, p)
<1> DEFINE T == {p \in Places : Holds(list, p, key)}
<1> SUFFICES ASSUME T # {} PROVE \E p \in Places : First(list, key, p)
  BY Zenon DEF Absent
<1>1. T \in SUBSET Nat
  BY SMT DEF Places
<1>2. PICK p \in T : \A q \in T : p <= q
  <2> HIDE DEF T
  <2> QED BY Zenon, <1>1, LeastOfNaturals
<1>3. \A q \in Places : q < p => ~(p <= q)
  BY SMT DEF Places
<1> QED BY Zenon, <1>2, <1>3 DEF First

\* Lookup returns the entry of the first bucket that has one.
LEMMA LookupIs ==
    ASSUME NEW list, NEW key
    PROVE  /\ \A p \in Places : First(list, key, p) => Lookup(list, key) = Youngest(list)[p][key]
           /\ Absent(list, key) => Lookup(list, key) = Dead
<1> DEFINE T == {p \in Places : Holds(list, p, key)}
           c == CHOOSE n \in T : \A m \in T : n <= m
<1>1. Lookup(list, key) = IF T = {} THEN Dead ELSE Youngest(list)[c][key]
  BY Zenon DEF Lookup, Places, Holds
<1>2. ASSUME NEW p \in Places, First(list, key, p) PROVE Lookup(list, key) = Youngest(list)[p][key]
  <2>1. p \in T /\ \A q \in T : ~(q < p)
    BY Zenon, <1>2 DEF First
  <2>2. \A q \in T : p <= q /\ q \in Int
    <3>1. \A q \in Places : q \in Int
      BY SMT DEF Places
    <3> QED BY SMT, <2>1, <3>1
  <2>3. c \in T /\ \A m \in T : c <= m
    <3>1. \E n \in T : \A m \in T : n <= m
      BY Zenon, <2>1, <2>2
    <3> HIDE DEF T
    <3> QED BY Zenon, <3>1
  <2>4. c = p
    <3> HIDE DEF T, c
    <3> QED BY SMT, <2>1, <2>2, <2>3
  <2> QED BY Zenon, <1>1, <2>1, <2>4
<1>3. ASSUME Absent(list, key) PROVE Lookup(list, key) = Dead
  BY Zenon, <1>1, <1>3 DEF Absent
<1> QED BY Zenon, <1>2, <1>3

-----------------------------------------------------------------------------
(* Merges.                                                                 *)

\* The entry for k of new over old.
Newest(old, new, k) == IF k \in DOMAIN new THEN new[k] ELSE old[k]

\* Every entry of r is the newest one.
Merges(r, old, new) ==
    \A k \in DOMAIN r : k \in DOMAIN old \cup DOMAIN new /\ r[k] = Newest(old, new, k)

LEMMA MergeIs ==
    ASSUME NEW old, NEW new, NEW shadows, NEW keep
    PROVE  /\ Merges(merge(old, new, shadows, keep), old, new)
           /\ \A k \in DOMAIN old \cup DOMAIN new :
                 \/ k \in DOMAIN merge(old, new, shadows, keep)
                 \/ \E s \in shadows : k \in DOMAIN s
                 \/ ~keep /\ Newest(old, new, k) = Dead
<1> DEFINE n == [k \in DOMAIN old \cup DOMAIN new |-> IF k \in DOMAIN new THEN new[k] ELSE old[k]]
           K == {k \in DOMAIN n \ UNION {DOMAIN s : s \in shadows} : keep \/ n[k] # Dead}
           r == merge(old, new, shadows, keep)
<1>1. r = [k \in K |-> n[k]]
  BY Zenon DEF merge, Restrict
<1>2. DOMAIN n = DOMAIN old \cup DOMAIN new /\ \A k \in DOMAIN n : n[k] = Newest(old, new, k)
  BY Zenon DEF Newest
<1> HIDE DEF n, r
<1>3. DOMAIN r = K /\ \A k \in K : r[k] = n[k]
  <2> HIDE DEF K
  <2> QED BY Zenon, <1>1
<1>4. Merges(r, old, new)
  BY Zenon, <1>2, <1>3 DEF Merges
<1>5. ASSUME NEW k \in DOMAIN old \cup DOMAIN new, k \notin DOMAIN r
      PROVE  (\E s \in shadows : k \in DOMAIN s) \/ (~keep /\ Newest(old, new, k) = Dead)
  <2>1. k \in DOMAIN n /\ n[k] = Newest(old, new, k) /\ k \notin K
    BY Zenon, <1>2, <1>3, <1>5
  <2>2. (\E s \in shadows : k \in DOMAIN s) \/ ~(keep \/ n[k] # Dead)
    BY Zenon, <2>1
  <2> QED BY Zenon, <2>1, <2>2
<1> QED BY Zenon, <1>4, <1>5 DEF r

\* The batch over the curr of level 0: nothing is dropped.
Overlays(r, old, new) ==
    /\ DOMAIN r = DOMAIN old \cup DOMAIN new
    /\ \A k \in DOMAIN r : r[k] = Newest(old, new, k)

LEMMA BatchMerge ==
    ASSUME NEW old, NEW new
    PROVE  Overlays(merge(old, new, {}, 0 < kNumLevels - 1), old, new)
<1> DEFINE n == [k \in DOMAIN old \cup DOMAIN new |-> IF k \in DOMAIN new THEN new[k] ELSE old[k]]
           K == {k \in DOMAIN n \ UNION {DOMAIN s : s \in {}} : (0 < kNumLevels - 1) \/ n[k] # Dead}
           r == merge(old, new, {}, 0 < kNumLevels - 1)
<1>1. r = [k \in K |-> n[k]]
  BY Zenon DEF merge, Restrict
<1>2. DOMAIN n = DOMAIN old \cup DOMAIN new /\ \A k \in DOMAIN n : n[k] = Newest(old, new, k)
  BY Zenon DEF Newest
<1>3. 0 < kNumLevels - 1
  BY SMT, kNumLevelsAssumption
<1> HIDE DEF n, r
<1>4. K = DOMAIN n
  BY Zenon, <1>3
<1>5. DOMAIN r = K /\ \A k \in K : r[k] = n[k]
  <2> HIDE DEF K
  <2> QED BY Zenon, <1>1
<1>6. Overlays(r, old, new)
  <2> HIDE DEF K
  <2> QED BY Zenon, <1>2, <1>4, <1>5 DEF Overlays
<1> QED BY Zenon, <1>6 DEF r

-----------------------------------------------------------------------------
(* A list whose merges will be right when they are due.                    *)

Covered(list, i, k) == \E q \in Places : q < 2 * i /\ Holds(list, q, k)

\* An entry of snap over curr that is missing in out has a younger one, or it
\* is dead and the level is the last.
TakesOver(out, list, i, curr, snap) ==
    /\ Merges(out, curr, snap)
    /\ \A k \in (DOMAIN curr \cup DOMAIN snap) \ DOMAIN out :
          Covered(list, i, k) \/ (i = kNumLevels - 1 /\ Newest(curr, snap, k) = Dead)

\* What level i is going to commit is the snap of the level above, over its
\* curr unless that becomes snap at the same time.
Sound(list, n, i) ==
    LET spills == levelShouldSpill(Due(n, i), i)
        snap   == list[i - 1].snap
        curr   == IF spills THEN EmptyBucket ELSE list[i].curr
    IN  /\ list[i].next.state = "clear" => DOMAIN snap = {}
        /\ TakesOver(Output(list[i], spills), list, i, curr, snap)

GoodList(list, n) ==
    /\ \A i \in Levels : IsLevel(list[i])
    /\ DOMAIN list[kNumLevels - 1].snap = {}
    /\ \A i \in Levels \ {0} : Sound(list, n, i)

\* Two lists that differ in which merges are resolved.
Same(list, other) ==
    \A i \in Levels :
        /\ IsLevel(list[i]) /\ IsLevel(other[i])
        /\ list[i].curr = other[i].curr /\ list[i].snap = other[i].snap
        /\ (list[i].next.state = "clear") <=> (other[i].next.state = "clear")
        /\ list[i].next.state # "clear" => resolve(list[i].next) = resolve(other[i].next)

\* The inductive invariant.
NetworkInv ==
    /\ bs = [ledger |-> bs.ledger, list |-> bs.list, network |-> bs.network, database |-> bs.database]
    /\ bs.ledger \in Nat
    /\ GoodList(bs.network, bs.ledger)
    /\ \A key \in Key : (Lookup(bs.network, key) # Dead) <=> (key \in bs.database)

StoreInv == NetworkInv /\ Same(bs.list, bs.network)

-----------------------------------------------------------------------------
(* A batch.                                                                *)

\* Where the bucket at place p goes when ledger m closes.
Dest(m, p) == IF levelShouldSpill(m, (p - 1) \div 2) THEN p + 1 ELSE p

\* What the step lemmas assume: ledger n + 1 closes with a batch.
Closes(list, new, n, batch) ==
    /\ n \in Nat /\ GoodList(list, n) /\ Added(list, new, n + 1, batch)

\* Level i takes over what it was going to, at the ledger that was due.
LEMMA Commits ==
    ASSUME NEW list, NEW new, NEW n, NEW batch, Closes(list, new, n, batch),
           NEW i \in Levels, i # 0, levelShouldSpill(n + 1, i - 1)
    PROVE  TakesOver(new[i].curr, list, i,
                     IF levelShouldSpill(n + 1, i) THEN EmptyBucket ELSE list[i].curr,
                     list[i - 1].snap)
<1>1. Due(n, i) = n + 1
  BY Zenon, DueLedger DEF Closes
<1>2. Sound(list, n, i)
  BY Zenon DEF Closes, GoodList
<1>3. Spilled(list, new, n + 1, i)
  BY Zenon DEF Closes, Added
<1>4. new[i].curr = Output(list[i], levelShouldSpill(n + 1, i))
  BY Zenon, <1>3 DEF Spilled
<1> QED BY Zenon, <1>1, <1>2, <1>4 DEF Sound

\* The first entry of a key moves on with its bucket, unless it is a dead one
\* that reaches the last level.
Lands(list, new, key, p, d) ==
    /\ Holds(new, d, key)
    /\ Youngest(new)[d][key] = Youngest(list)[p][key]

Dropped(list, new, key, p, d) ==
    /\ d = 2 * (kNumLevels - 1) + 1
    /\ ~Holds(new, d, key)
    /\ Youngest(list)[p][key] = Dead

MovesTo(list, new, batch, key, p, d) ==
    \/ Lands(list, new, key, p, d)
    \/ Holds(new, d, key) /\ key \in DOMAIN batch
    \/ Dropped(list, new, key, p, d)

LEMMA CurrMoves ==
    ASSUME NEW list, NEW new, NEW n, NEW batch, Closes(list, new, n, batch),
           NEW key, NEW j \in Levels, First(list, key, 2 * j + 1)
    PROVE  MovesTo(list, new, batch, key, 2 * j + 1, Dest(n + 1, 2 * j + 1))
<1> DEFINE m == n + 1
           p == 2 * j + 1
           d == Dest(m, p)
           c == list[j].curr
<1>1. m \in Nat /\ Added(list, new, m, batch)
  BY SMT DEF Closes
<1>2. Dest(m, p) = IF levelShouldSpill(m, j) THEN p + 1 ELSE p
  BY Zenon, PlaceOf DEF Dest
<1>3. key \in DOMAIN c /\ Youngest(list)[p] = c /\ Youngest(new)[p] = new[j].curr
  BY Zenon, PlaceOf DEF First, Holds
<1>4. CASE levelShouldSpill(m, j)
  <2>1. d = 2 * j + 2
    <3>1. (2 * j + 1) + 1 = 2 * j + 2
      BY SMT, LevelNumbers
    <3> QED BY Zenon, <1>2, <1>4, <3>1
  <2>2. Youngest(new)[d] = c
    <3>1. new[j].snap = c
      BY Zenon, <1>1, <1>4 DEF Added
    <3>2. Youngest(new)[2 * j + 2] = new[j].snap
      BY Zenon, PlaceOf
    <3> QED BY Zenon, <2>1, <3>1, <3>2
  <2> HIDE DEF d, p
  <2> QED BY Zenon, <1>3, <2>2 DEF MovesTo, Lands, Holds, d, p
<1>5. CASE ~levelShouldSpill(m, j)
  <2>1. d = p
    BY Zenon, <1>2, <1>5
  <2>2. CASE j = 0
    <3>1. new[j].curr = merge(c, batch, {}, 0 < kNumLevels - 1)
      BY Zenon, <1>1, <1>5, <2>2 DEF Added
    <3>2. Overlays(new[j].curr, c, batch)
      BY Zenon, <3>1, BatchMerge
    <3>3. key \in DOMAIN new[j].curr /\ new[j].curr[key] = Newest(c, batch, key)
      BY Zenon, <1>3, <3>2 DEF Overlays
    <3> HIDE DEF d, p, c
    <3> QED BY Zenon, <1>3, <2>1, <3>3 DEF MovesTo, Lands, Holds, Newest, d, p
  <2>3. CASE j # 0 /\ levelShouldSpill(m, j - 1)
    <3> DEFINE s == list[j - 1].snap
    <3>1. TakesOver(new[j].curr, list, j, c, s)
      BY Zenon, <1>5, <2>3, Commits
    <3>2. key \notin DOMAIN s
      <4>1. j - 1 \in Levels /\ 2 * (j - 1) + 2 < p
        BY SMT, <2>3, LevelNumbers
      <4> QED BY Zenon, <4>1, PlaceOf DEF First, Holds
    <3>3. ~Covered(list, j, key)
      <4>1. \A q \in Places : q < 2 * j => q < p
        BY SMT, LevelNumbers DEF Places
      <4> QED BY Zenon, <4>1 DEF First, Covered
    <3>4. Newest(c, s, key) = c[key]
      BY Zenon, <3>2 DEF Newest
    <3>5. CASE key \in DOMAIN new[j].curr
      <4>1. new[j].curr[key] = c[key]
        BY Zenon, <3>1, <3>4, <3>5 DEF TakesOver, Merges
      <4> QED BY Zenon, <1>3, <2>1, <3>5, <4>1 DEF MovesTo, Lands, Holds
    <3>6. CASE key \notin DOMAIN new[j].curr
      <4>1. j = kNumLevels - 1 /\ c[key] = Dead
        BY Zenon, <1>3, <3>1, <3>3, <3>4, <3>6 DEF TakesOver
      <4>2. Dropped(list, new, key, p, d)
        BY Zenon, <1>3, <2>1, <3>6, <4>1 DEF Dropped, Holds
      <4> QED BY Zenon, <4>2 DEF MovesTo
    <3> QED BY Zenon, <3>5, <3>6
  <2>4. CASE j # 0 /\ ~levelShouldSpill(m, j - 1)
    <3>1. new[j].curr = c
      BY Zenon, <1>1, <2>4 DEF Added
    <3> QED BY Zenon, <1>3, <2>1, <3>1 DEF MovesTo, Lands, Holds
  <2> QED BY Zenon, <2>2, <2>3, <2>4
<1> QED BY Zenon, <1>4, <1>5

LEMMA SnapMoves ==
    ASSUME NEW list, NEW new, NEW n, NEW batch, Closes(list, new, n, batch),
           NEW key, NEW j \in Levels, First(list, key, 2 * j + 2)
    PROVE  MovesTo(list, new, batch, key, 2 * j + 2, Dest(n + 1, 2 * j + 2))
<1> DEFINE m == n + 1
           p == 2 * j + 2
           d == Dest(m, p)
           s == list[j].snap
<1>1. m \in Nat /\ Added(list, new, m, batch)
  BY SMT DEF Closes
<1>2. Dest(m, p) = IF levelShouldSpill(m, j) THEN p + 1 ELSE p
  BY Zenon, PlaceOf DEF Dest
<1>3. key \in DOMAIN s /\ Youngest(list)[p] = s /\ Youngest(new)[p] = new[j].snap
  BY Zenon, PlaceOf DEF First, Holds
<1>4. CASE levelShouldSpill(m, j)
  <2> DEFINE i == j + 1
             c == IF levelShouldSpill(m, i) THEN EmptyBucket ELSE list[i].curr
  <2>1. i \in Levels /\ i # 0 /\ i - 1 = j /\ (2 * j + 2) + 1 = 2 * i + 1
    <3>1. j # kNumLevels - 1
      BY Zenon, <1>4 DEF levelShouldSpill
    <3> QED BY SMT, <3>1, LevelNumbers
  <2>2. d = 2 * i + 1
    BY Zenon, <1>2, <1>4, <2>1
  <2> HIDE DEF i
  <2>3. Youngest(new)[d] = new[i].curr
    BY Zenon, <2>1, <2>2, PlaceOf
  <2>4. TakesOver(new[i].curr, list, i, c, s)
    <3>1. levelShouldSpill(m, i - 1) /\ s = list[i - 1].snap
      BY Zenon, <1>4, <2>1
    <3> QED BY Zenon, <2>1, <3>1, Commits
  <2>5. ~Covered(list, i, key)
    <3>1. \A q \in Places : q < 2 * i => q < p
      BY SMT, <2>1, LevelNumbers DEF Places
    <3> QED BY Zenon, <3>1 DEF First, Covered
  <2>6. Newest(c, s, key) = s[key]
    BY Zenon, <1>3 DEF Newest
  <2> HIDE DEF c
  <2>7. CASE key \in DOMAIN new[i].curr
    <3>1. new[i].curr[key] = s[key]
      BY Zenon, <2>4, <2>6, <2>7 DEF TakesOver, Merges
    <3> HIDE DEF d, p
    <3> QED BY Zenon, <1>3, <2>3, <2>7, <3>1 DEF MovesTo, Lands, Holds, d, p
  <2>8. CASE key \notin DOMAIN new[i].curr
    <3>1. i = kNumLevels - 1 /\ s[key] = Dead
      BY Zenon, <1>3, <2>4, <2>5, <2>6, <2>8 DEF TakesOver
    <3>2. Dropped(list, new, key, p, d)
      <4> HIDE DEF d, p
      <4> QED BY Zenon, <1>3, <2>2, <2>3, <2>8, <3>1 DEF Dropped, Holds
    <3> QED BY Zenon, <3>2 DEF MovesTo
  <2> QED BY Zenon, <2>7, <2>8
<1>5. CASE ~levelShouldSpill(m, j)
  <2>1. d = p
    BY Zenon, <1>2, <1>5
  <2>2. new[j].snap = s
    BY Zenon, <1>1, <1>5 DEF Added
  <2> QED BY Zenon, <1>3, <2>1, <2>2 DEF MovesTo, Lands, Holds
<1> QED BY Zenon, <1>4, <1>5

LEMMA FirstMoves ==
    ASSUME NEW list, NEW new, NEW n, NEW batch, Closes(list, new, n, batch),
           NEW key, NEW p \in Places, First(list, key, p)
    PROVE  MovesTo(list, new, batch, key, p, Dest(n + 1, p))
<1>1. PICK j \in Levels : p = 2 * j + 1 \/ p = 2 * j + 2
  BY Zenon, EveryPlace
<1>2. CASE p = 2 * j + 1
  BY Zenon, <1>2, CurrMoves
<1>3. CASE p = 2 * j + 2
  BY Zenon, <1>3, SnapMoves
<1> QED BY Zenon, <1>1, <1>2, <1>3

ComesFrom(list, m, q, key) == \E r \in Places : Dest(m, r) = q /\ Holds(list, r, key)

\* An entry comes from the batch or from a bucket that went to its place.
LEMMA Sources ==
    ASSUME NEW list, NEW new, NEW n, NEW batch, Closes(list, new, n, batch),
           NEW key, key \notin DOMAIN batch, NEW q \in Places, Holds(new, q, key)
    PROVE  ComesFrom(list, n + 1, q, key)
<1> SUFFICES \E r \in Places : Dest(n + 1, r) = q /\ Holds(list, r, key)
  BY Zenon DEF ComesFrom
<1> DEFINE m == n + 1
<1>1. m \in Nat /\ Added(list, new, m, batch)
  BY SMT DEF Closes
<1>2. ASSUME NEW i \in Levels
      PROVE  /\ levelShouldSpill(m, i) => /\ Dest(m, 2 * i + 1) = 2 * i + 2
                                          /\ Dest(m, 2 * i + 2) = 2 * i + 3
             /\ ~levelShouldSpill(m, i) => /\ Dest(m, 2 * i + 1) = 2 * i + 1
                                           /\ Dest(m, 2 * i + 2) = 2 * i + 2
             /\ 2 * i + 1 \in Places /\ 2 * i + 2 \in Places
             /\ Youngest(list)[2 * i + 1] = list[i].curr
             /\ Youngest(list)[2 * i + 2] = list[i].snap
             /\ Youngest(new)[2 * i + 1] = new[i].curr
             /\ Youngest(new)[2 * i + 2] = new[i].snap
  <2>1. (2 * i + 1) + 1 = 2 * i + 2 /\ (2 * i + 2) + 1 = 2 * i + 3
    BY SMT, LevelNumbers
  <2> QED BY Zenon, <2>1, PlaceOf DEF Dest
<1>3. PICK j \in Levels : q = 2 * j + 1 \/ q = 2 * j + 2
  BY Zenon, EveryPlace
<1>4. DOMAIN EmptyBucket = {}
  BY Zenon DEF EmptyBucket
<1>5. CASE q = 2 * j + 2
  <2>1. key \in DOMAIN new[j].snap
    BY Zenon, <1>2, <1>5 DEF Holds
  <2>2. new[j].snap = IF levelShouldSpill(m, j) THEN list[j].curr ELSE list[j].snap
    BY Zenon, <1>1 DEF Added
  <2>3. CASE levelShouldSpill(m, j)
    BY Zenon, <1>2, <1>5, <2>1, <2>2, <2>3 DEF Holds
  <2>4. CASE ~levelShouldSpill(m, j)
    BY Zenon, <1>2, <1>5, <2>1, <2>2, <2>4 DEF Holds
  <2> QED BY Zenon, <2>3, <2>4
<1>6. CASE q = 2 * j + 1
  <2>1. key \in DOMAIN new[j].curr
    BY Zenon, <1>2, <1>6 DEF Holds
  <2> DEFINE c == IF levelShouldSpill(m, j) THEN EmptyBucket ELSE list[j].curr
  <2>2. ASSUME key \in DOMAIN c PROVE \E r \in Places : Dest(m, r) = q /\ Holds(list, r, key)
    <3>1. ~levelShouldSpill(m, j) /\ key \in DOMAIN list[j].curr
      BY Zenon, <1>4, <2>2
    <3> QED BY Zenon, <1>2, <1>6, <3>1 DEF Holds
  <2>3. CASE j = 0
    <3>1. new[j].curr = merge(c, batch, {}, 0 < kNumLevels - 1)
      BY Zenon, <1>1, <2>3 DEF Added
    <3> HIDE DEF c
    <3>2. Overlays(new[j].curr, c, batch)
      BY Zenon, <3>1, BatchMerge
    <3>3. key \in DOMAIN c
      BY Zenon, <2>1, <3>2 DEF Overlays
    <3> QED BY Zenon, <2>2, <3>3
  <2>4. CASE j # 0 /\ levelShouldSpill(m, j - 1)
    <3> DEFINE s == list[j - 1].snap
    <3>1. TakesOver(new[j].curr, list, j, c, s)
      BY Zenon, <2>4, Commits
    <3> HIDE DEF c
    <3>2. key \in DOMAIN c \/ key \in DOMAIN s
      BY Zenon, <2>1, <3>1 DEF TakesOver, Merges
    <3>3. ASSUME key \in DOMAIN s PROVE \E r \in Places : Dest(m, r) = q /\ Holds(list, r, key)
      <4>1. j - 1 \in Levels /\ 2 * (j - 1) + 3 = q
        BY SMT, <1>6, <2>4, LevelNumbers
      <4> QED BY Zenon, <1>2, <2>4, <3>3, <4>1 DEF Holds
    <3> QED BY Zenon, <2>2, <3>2, <3>3
  <2>5. CASE j # 0 /\ ~levelShouldSpill(m, j - 1)
    <3>1. ~levelShouldSpill(m, j) /\ new[j].curr = list[j].curr
      BY Zenon, <1>1, <2>5, Spilling DEF Added
    <3> QED BY Zenon, <2>1, <2>2, <3>1
  <2> QED BY Zenon, <2>3, <2>4, <2>5
<1> QED BY Zenon, <1>3, <1>5, <1>6

\* A key that no bucket before p's has keeps its entry and its order, when
\* the batch does not touch it.
LEMMA FirstStays ==
    ASSUME NEW list, NEW new, NEW n, NEW batch, Closes(list, new, n, batch),
           NEW key, key \notin DOMAIN batch
    PROVE  Lookup(new, key) = Lookup(list, key)
<1> DEFINE m == n + 1
           last == kNumLevels - 1
<1>1. ASSUME Absent(list, key) PROVE Absent(new, key)
  BY Zenon, <1>1, Sources DEF Absent, ComesFrom
<1>2. ASSUME NEW p \in Places, First(list, key, p) PROVE Lookup(new, key) = Lookup(list, key)
  <2> DEFINE d == Dest(m, p)
  <2>1. ASSUME NEW q \in Places, q < d PROVE ~Holds(new, q, key)
    <3> SUFFICES ASSUME Holds(new, q, key) PROVE FALSE
      BY Zenon
    <3>0. ComesFrom(list, m, q, key)
      BY Zenon, Sources
    <3>1. PICK r \in Places : Dest(m, r) = q /\ Holds(list, r, key)
      BY Zenon, <3>0 DEF ComesFrom
    <3>2. r < p
      <4>1. r \in Int /\ p \in Int
        BY SMT DEF Places
      <4>2. Dest(m, r) \in {r, r + 1} /\ d \in {p, p + 1}
        BY Zenon DEF Dest
      <4>3. r = p => Dest(m, r) = d
        BY Zenon
      <4> HIDE DEF d
      <4> QED BY SMT, <2>1, <3>1, <4>1, <4>2, <4>3
    <3> QED BY Zenon, <1>2, <3>1, <3>2 DEF First
  <2>2. Lookup(list, key) = Youngest(list)[p][key]
    BY Zenon, <1>2, LookupIs
  <2>3. Lands(list, new, key, p, d) \/ Dropped(list, new, key, p, d)
    <3>1. MovesTo(list, new, batch, key, p, d)
      BY Zenon, <1>2, FirstMoves
    <3> HIDE DEF d
    <3> QED BY Zenon, <3>1 DEF MovesTo
  <2>4. CASE Lands(list, new, key, p, d)
    <3>1. d \in Places
      <4>1. PICK j \in Levels : p = 2 * j + 1 \/ p = 2 * j + 2
        BY Zenon, EveryPlace
      <4>2. (p - 1) \div 2 = j
        BY Zenon, <4>1, PlaceOf
      <4>3. CASE levelShouldSpill(m, j)
        <5>1. j # last /\ d = p + 1
          BY Zenon, <4>2, <4>3 DEF levelShouldSpill, Dest
        <5>2. p + 1 \in Places
          BY SMT, <4>1, <5>1, kNumLevelsAssumption DEF Places, Levels
        <5> QED BY Zenon, <5>1, <5>2
      <4>4. CASE ~levelShouldSpill(m, j)
        BY Zenon, <4>2, <4>4 DEF Dest
      <4> QED BY Zenon, <4>3, <4>4
    <3> HIDE DEF d
    <3>2. First(new, key, d)
      BY Zenon, <2>1, <2>4, <3>1 DEF First, Lands
    <3>3. Lookup(new, key) = Youngest(new)[d][key]
      BY Zenon, <3>1, <3>2, LookupIs
    <3> QED BY Zenon, <2>2, <2>4, <3>3 DEF Lands
  <2>5. CASE Dropped(list, new, key, p, d)
    <3>1. last \in Levels
      BY Zenon, LevelNumbers
    <3>2. d = 2 * last + 1 /\ ~Holds(new, d, key) /\ Youngest(list)[p][key] = Dead
      BY Zenon, <2>5 DEF Dropped
    <3>3. ~Holds(new, 2 * last + 2, key)
      <4>1. ~levelShouldSpill(m, last) /\ DOMAIN list[last].snap = {} /\ Added(list, new, m, batch)
        BY Zenon DEF Closes, GoodList, levelShouldSpill
      <4>2. DOMAIN new[last].snap = {}
        BY Zenon, <3>1, <4>1 DEF Added
      <4> QED BY Zenon, <3>1, <4>2, PlaceOf DEF Holds
    <3>4. \A q \in Places : q < 2 * last + 1 \/ q = 2 * last + 1 \/ q = 2 * last + 2
      BY SMT, kNumLevelsAssumption DEF Places
    <3> HIDE DEF d, last
    <3>5. Absent(new, key)
      BY Zenon, <2>1, <3>2, <3>3, <3>4 DEF Absent
    <3>6. Lookup(new, key) = Dead
      BY Zenon, <3>5, LookupIs
    <3> QED BY Zenon, <2>2, <3>2, <3>6
  <2> QED BY Zenon, <2>3, <2>4, <2>5
<1>3. CASE Absent(list, key)
  BY Zenon, <1>1, <1>3, LookupIs
<1> QED BY Zenon, <1>2, <1>3, FirstOrAbsent

\* An entry of the batch is found at once.
LEMMA BatchFound ==
    ASSUME NEW list, NEW new, NEW n, NEW batch, Closes(list, new, n, batch),
           NEW key \in DOMAIN batch
    PROVE  Lookup(new, key) = batch[key]
<1> DEFINE c == IF levelShouldSpill(n + 1, 0) THEN EmptyBucket ELSE list[0].curr
<1>1. 0 \in Levels /\ 2 * 0 + 1 = 1
  BY SMT, LevelNumbers
<1>2. 1 \in Places /\ Youngest(new)[1] = new[0].curr
  BY Zenon, <1>1, PlaceOf
<1>3. new[0].curr = merge(c, batch, {}, 0 < kNumLevels - 1)
  BY Zenon, <1>1 DEF Closes, Added
<1> HIDE DEF c
<1>4. Overlays(new[0].curr, c, batch)
  BY Zenon, <1>3, BatchMerge
<1>5. key \in DOMAIN new[0].curr /\ new[0].curr[key] = batch[key]
  BY Zenon, <1>4 DEF Overlays, Newest
<1>6. \A q \in Places : ~(q < 1)
  BY SMT DEF Places
<1>7. First(new, key, 1)
  BY Zenon, <1>2, <1>5, <1>6 DEF First, Holds
<1>8. Lookup(new, key) = Youngest(new)[1][key]
  BY Zenon, <1>2, <1>7, LookupIs
<1> QED BY Zenon, <1>2, <1>5, <1>8

\* A key in a bucket above snap of level i - 1 is still in one, unless its
\* bucket becomes that snap.
LEMMA CoveredStays ==
    ASSUME NEW list, NEW new, NEW n, NEW batch, Closes(list, new, n, batch),
           NEW i \in Levels, i # 0, NEW key, NEW q \in Places, Holds(list, q, key), q < 2 * i,
           q = 2 * i - 1 => ~levelShouldSpill(n + 1, i - 1)
    PROVE  Covered(new, i, key)
<1> DEFINE m == n + 1
<1>1. PICK p \in Places : First(list, key, p)
  BY Zenon, FirstOrAbsent DEF Absent
<1> DEFINE d == Dest(m, p)
<1>2. q \in Int /\ p \in Int /\ 1 <= p /\ p <= q
  <2>1. ~(q < p)
    BY Zenon, <1>1 DEF First
  <2>2. q \in Int /\ p \in Int /\ 1 <= p
    BY SMT DEF Places
  <2> QED BY SMT, <2>1, <2>2
<1>3. d \in {p, p + 1} /\ (p = 2 * i - 1 => d = p)
  <2>1. d \in {p, p + 1}
    BY Zenon DEF Dest
  <2>2. ASSUME p = 2 * i - 1 PROVE d = p
    <3>1. q = 2 * i - 1 /\ i - 1 \in Levels /\ 2 * i - 1 = 2 * (i - 1) + 1
      BY SMT, <1>2, <2>2, LevelNumbers
    <3>2. (p - 1) \div 2 = i - 1
      BY Zenon, <2>2, <3>1, PlaceOf
    <3> QED BY Zenon, <3>1, <3>2 DEF Dest
  <2> QED BY Zenon, <2>1, <2>2
<1>4. MovesTo(list, new, batch, key, p, d)
  BY Zenon, <1>1, FirstMoves
<1> HIDE DEF d
<1>5. d \in Places /\ d < 2 * i /\ d # 2 * (kNumLevels - 1) + 1
  <2>1. i \in Nat /\ i <= kNumLevels - 1 /\ kNumLevels \in Nat
    BY SMT, LevelNumbers, kNumLevelsAssumption
  <2> QED BY SMT, <1>2, <1>3, <2>1 DEF Places
<1>6. Holds(new, d, key)
  BY Zenon, <1>4, <1>5 DEF MovesTo, Lands, Dropped
<1> QED BY Zenon, <1>5, <1>6 DEF Covered

\* The merges of a list go on being right.
LEMMA StillSound ==
    ASSUME NEW list, NEW new, NEW n, NEW batch, Closes(list, new, n, batch),
           NEW i \in Levels, i # 0, ~levelShouldSpill(n + 1, i - 1)
    PROVE  Sound(new, n + 1, i)
<1> DEFINE m == n + 1
           spills == levelShouldSpill(Due(n, i), i)
           snap == list[i - 1].snap
           curr == IF spills THEN EmptyBucket ELSE list[i].curr
           out == Output(list[i], spills)
<1>1. Added(list, new, m, batch) /\ n \in Nat /\ m \in Nat /\ i - 1 \in Levels
  BY SMT, LevelNumbers DEF Closes
<1>2. Due(m, i) = Due(n, i)
  BY Zenon, <1>1, DueLedger
<1>3. new[i].curr = list[i].curr /\ new[i].next = list[i].next /\ new[i - 1].snap = snap
  BY Zenon, <1>1 DEF Added
<1>4. Output(new[i], spills) = out
  BY Zenon, <1>3 DEF Output
<1>5. Sound(list, n, i)
  BY Zenon DEF Closes, GoodList
<1>6. (list[i].next.state = "clear" => DOMAIN snap = {}) /\ TakesOver(out, list, i, curr, snap)
  BY Zenon, <1>5 DEF Sound
<1> HIDE DEF out, snap, curr
<1>7. ASSUME NEW k, Covered(list, i, k) PROVE Covered(new, i, k)
  BY Zenon, <1>7, CoveredStays DEF Covered
<1>8. TakesOver(out, new, i, curr, snap)
  BY Zenon, <1>6, <1>7 DEF TakesOver
<1>9. curr = IF spills THEN EmptyBucket ELSE new[i].curr
  BY Zenon, <1>3 DEF curr
<1> QED BY Zenon, <1>2, <1>3, <1>4, <1>6, <1>8, <1>9 DEF Sound

LEMMA NewlySound ==
    ASSUME NEW list, NEW new, NEW n, NEW batch, Closes(list, new, n, batch),
           NEW i \in Levels, i # 0, levelShouldSpill(n + 1, i - 1)
    PROVE  Sound(new, n + 1, i)
<1> DEFINE m == n + 1
           spills == levelShouldSpill(m + levelHalf(i - 1), i)
           curr == IF spills THEN EmptyBucket ELSE new[i].curr
           snap == list[i - 1].curr
           sh == shadowsOf(list, i)
           keep == i < kNumLevels - 1
           f == InputsFuture(curr, snap, sh, keep)
           r == merge(curr, snap, sh, keep)
<1>1. Added(list, new, m, batch) /\ n \in Nat /\ m \in Nat /\ i - 1 \in Levels
  BY SMT, LevelNumbers DEF Closes
<1>2. Due(m, i) = m + levelHalf(i - 1)
  BY Zenon, <1>1, DueLedger
<1>3. new[i].next = f
  <2>1. Spilled(list, new, m, i)
    BY Zenon, <1>1 DEF Added
  <2> QED BY Zenon, <2>1 DEF Spilled
<1>4. new[i - 1].snap = snap
  BY Zenon, <1>1 DEF Added
<1>5. f.state = "inputs" /\ resolve(f) = r
  BY InputsState
<1>6. new[i].next.state # "clear"
  <2> HIDE DEF f
  <2> QED BY SMT, <1>3, <1>5
<1>7. Output(new[i], spills) = r
  <2> HIDE DEF f, r, spills
  <2> QED BY Zenon, <1>3, <1>5, <1>6 DEF Output
<1>8. /\ Merges(r, curr, snap)
      /\ \A k \in DOMAIN curr \cup DOMAIN snap :
            \/ k \in DOMAIN r
            \/ \E s \in sh : k \in DOMAIN s
            \/ ~keep /\ Newest(curr, snap, k) = Dead
  <2> HIDE DEF curr, snap, sh, keep
  <2> QED BY MergeIs
<1>9. ASSUME NEW s \in sh, NEW k \in DOMAIN s PROVE Covered(new, i, k)
  <2>1. PICK j \in 0..(i - 2) : s \in {list[j].curr, list[j].snap}
    BY Zenon DEF shadowsOf
  <2>2. /\ j \in Levels /\ 2 * j + 1 < 2 * i /\ 2 * j + 2 < 2 * i
        /\ 2 * j + 1 # 2 * i - 1 /\ 2 * j + 2 # 2 * i - 1
    BY SMT, <2>1, kNumLevelsAssumption DEF Levels
  <2>3. PICK q \in Places : Holds(list, q, k) /\ q < 2 * i /\ q # 2 * i - 1
    BY Zenon, <2>1, <2>2, PlaceOf DEF Holds
  <2> QED BY Zenon, <2>3, CoveredStays
<1>10. ~keep => i = kNumLevels - 1
  BY SMT, LevelNumbers
<1>11. TakesOver(r, new, i, curr, snap)
  <2> HIDE DEF curr, snap, sh, keep, r
  <2> QED BY Zenon, <1>8, <1>9, <1>10 DEF TakesOver
<1> HIDE DEF r
<1> QED BY Zenon, <1>2, <1>4, <1>6, <1>7, <1>11 DEF Sound

LEMMA NextGood ==
    ASSUME NEW list, NEW new, NEW n, NEW batch, Closes(list, new, n, batch)
    PROVE  GoodList(new, n + 1)
<1> DEFINE last == kNumLevels - 1
<1>1. Added(list, new, n + 1, batch) /\ DOMAIN list[last].snap = {} /\ last \in Levels
  BY Zenon, LevelNumbers DEF Closes, GoodList
<1>2. ~levelShouldSpill(n + 1, last)
  BY Zenon DEF levelShouldSpill
<1>3. DOMAIN new[last].snap = {}
  BY Zenon, <1>1, <1>2 DEF Added
<1>4. \A i \in Levels : IsLevel(new[i])
  BY Zenon, <1>1 DEF Added
<1>5. \A i \in Levels \ {0} : Sound(new, n + 1, i)
  BY Zenon, StillSound, NewlySound
<1> QED BY Zenon, <1>3, <1>4, <1>5 DEF GoodList

-----------------------------------------------------------------------------
(* The same list, other merges resolved.                                   *)

LEMMA SameOutput ==
    ASSUME NEW list, NEW other, Same(list, other), NEW i \in Levels, NEW spills
    PROVE  Output(list[i], spills) = Output(other[i], spills)
BY Zenon DEF Same, Output

LEMMA SameAdded ==
    ASSUME NEW list, NEW other, Same(list, other), NEW m \in Nat, NEW batch,
           NEW new, Added(list, new, m, batch), NEW new2, Added(other, new2, m, batch)
    PROVE  Same(new, new2)
<1> SUFFICES ASSUME NEW i \in Levels
             PROVE  /\ IsLevel(new[i]) /\ IsLevel(new2[i])
                    /\ new[i].curr = new2[i].curr /\ new[i].snap = new2[i].snap
                    /\ (new[i].next.state = "clear") <=> (new2[i].next.state = "clear")
                    /\ new[i].next.state # "clear" => resolve(new[i].next) = resolve(new2[i].next)
  BY Zenon DEF Same
<1>1. \A j \in Levels : list[j].curr = other[j].curr /\ list[j].snap = other[j].snap
  BY Zenon DEF Same
<1>2. IsLevel(new[i]) /\ IsLevel(new2[i]) /\ new[i].snap = new2[i].snap
  BY Zenon, <1>1 DEF Added
<1>3. CASE i = 0
  <2>1. new[i].next = ClearFuture /\ new2[i].next = ClearFuture
    BY Zenon, <1>3 DEF Added
  <2>2. new[i].curr = new2[i].curr
    <3> DEFINE c == IF levelShouldSpill(m, 0) THEN EmptyBucket ELSE list[0].curr
    <3>1. c = IF levelShouldSpill(m, 0) THEN EmptyBucket ELSE other[0].curr
      BY Zenon, <1>1, <1>3
    <3>2. /\ new[i].curr = merge(c, batch, {}, 0 < kNumLevels - 1)
          /\ new2[i].curr = merge(IF levelShouldSpill(m, 0) THEN EmptyBucket
                                  ELSE other[0].curr, batch, {}, 0 < kNumLevels - 1)
      BY Zenon, <1>3 DEF Added
    <3> HIDE DEF c
    <3> QED BY Zenon, <3>1, <3>2
  <2> QED BY Zenon, <1>2, <2>1, <2>2, ClearState
<1>4. CASE i # 0 /\ levelShouldSpill(m, i - 1)
  <2>1. i - 1 \in Levels
    BY Zenon, <1>4, LevelNumbers
  <2>2. Spilled(list, new, m, i) /\ Spilled(other, new2, m, i)
    BY Zenon, <1>4 DEF Added
  <2>3. new[i].curr = new2[i].curr
    <3> DEFINE spills == levelShouldSpill(m, i)
    <3>1. new[i].curr = Output(list[i], spills) /\ new2[i].curr = Output(other[i], spills)
      BY Zenon, <2>2 DEF Spilled
    <3> HIDE DEF spills
    <3>2. Output(list[i], spills) = Output(other[i], spills)
      BY SameOutput
    <3> QED BY Zenon, <3>1, <3>2
  <2>4. shadowsOf(list, i) = shadowsOf(other, i)
    <3>1. \A j \in 0..(i - 2) : j \in Levels
      BY SMT, kNumLevelsAssumption DEF Levels
    <3>2. \A j \in 0..(i - 2) : {list[j].curr, list[j].snap} = {other[j].curr, other[j].snap}
      BY Zenon, <1>1, <3>1
    <3>3. \A x : x \in shadowsOf(list, i) <=> x \in shadowsOf(other, i)
      BY Zenon, <3>2 DEF shadowsOf
    <3> QED BY Zenon, <3>3
  <2>5. new[i].next = new2[i].next
    BY Zenon, <1>1, <2>1, <2>2, <2>3, <2>4 DEF Spilled
  <2> QED BY Zenon, <1>2, <2>3, <2>5
<1>5. CASE i # 0 /\ ~levelShouldSpill(m, i - 1)
  <2>1. /\ new[i].curr = list[i].curr /\ new[i].next = list[i].next
        /\ new2[i].curr = other[i].curr /\ new2[i].next = other[i].next
    BY Zenon, <1>5 DEF Added
  <2> QED BY Zenon, <1>2, <2>1 DEF Same
<1> QED BY Zenon, <1>3, <1>4, <1>5

\* A restart at which every merge is complete.
LEMMA SameRestarted ==
    ASSUME NEW list, NEW other, Same(list, other), NEW ready, Levels \subseteq ready, NEW any
    PROVE  Same(assumeState(resolveAnyReadyFutures(list, ready), any), other)
<1> DEFINE has == resolveAnyReadyFutures(list, ready)
           new == assumeState(has, any)
<1>1. ASSUME NEW i \in Levels
      PROVE  /\ IsLevel(new[i]) /\ new[i].curr = list[i].curr /\ new[i].snap = list[i].snap
             /\ (new[i].next.state = "clear") <=> (list[i].next.state = "clear")
             /\ new[i].next.state # "clear" => resolve(new[i].next) = resolve(list[i].next)
  <2> DEFINE l == list[i]
             g == OutputFuture(resolve(l.next))
             h == has[i]
  <2>1. IsLevel(l)
    BY Zenon DEF Same
  <2>2. h = IF l.next.state = "inputs" THEN [l EXCEPT !.next = g] ELSE l
    BY Zenon DEF resolveAnyReadyFutures
  <2>3. g.state = "output" /\ resolve(g) = resolve(l.next)
    BY OutputState
  <2>4. new[i] = [h EXCEPT !.next = reloaded(h.next, any[i])]
    BY Zenon DEF assumeState
  <2> HIDE DEF l, g, h, new
  <2>5. /\ IsLevel(h) /\ h.curr = l.curr /\ h.snap = l.snap
        /\ h.next = IF l.next.state = "inputs" THEN g ELSE l.next
    <3>1. CASE l.next.state = "inputs"
      <4>1. LevelIs(h, l.curr, l.snap, g)
        BY Zenon, <2>1, <2>2, <3>1, SetNext
      <4> QED BY Zenon, <3>1, <4>1, LevelFields
    <3>2. CASE l.next.state # "inputs"
      BY Zenon, <2>1, <2>2, <3>2
    <3> QED BY Zenon, <3>1, <3>2
  <2>6. h.next.state # "inputs"
    BY SMT, <2>3, <2>5
  <2>7. reloaded(h.next, any[i]) = h.next
    BY Zenon, <2>6 DEF reloaded
  <2>8. LevelIs(new[i], h.curr, h.snap, h.next)
    <3> DEFINE f == h.next
    <3>1. new[i] = [h EXCEPT !.next = f]
      BY Zenon, <2>4, <2>7
    <3> HIDE DEF f
    <3>2. LevelIs([h EXCEPT !.next = f], h.curr, h.snap, f)
      BY Zenon, <2>5, SetNext
    <3> QED BY Zenon, <3>1, <3>2 DEF f
  <2>9. IsLevel(new[i]) /\ new[i].curr = l.curr /\ new[i].snap = l.snap /\ new[i].next = h.next
    <3>1. IsLevel(new[i]) /\ new[i].curr = h.curr /\ new[i].snap = h.snap /\ new[i].next = h.next
      BY SMT, <2>8, LevelFields
    <3> QED BY Zenon, <2>5, <3>1
  <2>10. /\ (h.next.state = "clear") <=> (l.next.state = "clear")
         /\ h.next.state # "clear" => resolve(h.next) = resolve(l.next)
    BY SMT, <2>3, <2>5
  <2> QED BY Zenon, <2>9, <2>10 DEF l
<1> HIDE DEF new
<1>2. Same(new, other)
  BY Zenon, <1>1 DEF Same
<1> QED BY Zenon, <1>2 DEF new

-----------------------------------------------------------------------------
(* The steps.                                                              *)

StoreIs(s, n, l, w, d) == s = [ledger |-> n, list |-> l, network |-> w, database |-> d]

LEMMA StoreFields ==
    ASSUME NEW s, NEW n, NEW l, NEW w, NEW d, StoreIs(s, n, l, w, d)
    PROVE  /\ s.ledger = n /\ s.list = l /\ s.network = w /\ s.database = d
           /\ StoreIs(s, s.ledger, s.list, s.network, s.database)
BY Zenon DEF StoreIs

LEMMA StoreSet ==
    ASSUME NEW n, NEW l, NEW w, NEW d,
           NEW s \in [ledger : {n}, list : {l}, network : {w}, database : {d}]
    PROVE  StoreIs(s, n, l, w, d)
BY Zenon DEF StoreIs

LEMMA InitStore ==
    ASSUME StoreInit
    PROVE  StoreInv
<1> DEFINE e == EmptyBucket
           list == EmptyList
<1>1. DOMAIN e = {}
  BY Zenon DEF EmptyBucket
<1>2. ASSUME NEW i \in Levels
      PROVE  /\ IsLevel(list[i]) /\ list[i].curr = e /\ list[i].snap = e
             /\ list[i].next = ClearFuture /\ list[i].next.state = "clear"
  <2> DEFINE f == ClearFuture
  <2>1. LevelIs(list[i], e, e, f)
    <3> HIDE DEF e, f
    <3> QED BY Zenon DEF EmptyList, LevelIs, e, f
  <2> HIDE DEF e, f, list
  <2>2. IsLevel(list[i]) /\ list[i].curr = e /\ list[i].snap = e /\ list[i].next = f
    BY SMT, <2>1, LevelFields
  <2> QED BY Zenon, <2>2, ClearState DEF f
<1>3. StoreIs(bs, 0, list, list, {})
  BY Zenon DEF StoreInit, StoreIs
<1> HIDE DEF list, e
<1>4. bs.ledger = 0 /\ bs.list = list /\ bs.network = list /\ bs.database = {}
      /\ StoreIs(bs, bs.ledger, bs.list, bs.network, bs.database)
  BY SMT, <1>3, StoreFields
<1>5. ASSUME NEW i \in Levels \ {0} PROVE Sound(list, 0, i)
  <2> DEFINE spills == levelShouldSpill(Due(0, i), i)
             curr == IF spills THEN EmptyBucket ELSE list[i].curr
             out == Output(list[i], spills)
  <2>1. i \in Levels /\ i - 1 \in Levels
    BY Zenon, LevelNumbers
  <2>2. DOMAIN curr = {} /\ DOMAIN list[i - 1].snap = {}
    BY Zenon, <1>1, <1>2, <2>1 DEF e
  <2>3. out = curr
    BY Zenon, <1>2, <2>1 DEF Output
  <2> HIDE DEF out, curr
  <2>4. TakesOver(out, list, i, curr, list[i - 1].snap)
    BY Zenon, <2>2, <2>3 DEF TakesOver, Merges
  <2> QED BY Zenon, <2>2, <2>4 DEF Sound, out, curr
<1>6. GoodList(list, 0)
  <2>1. kNumLevels - 1 \in Levels
    BY Zenon, LevelNumbers
  <2> QED BY Zenon, <1>1, <1>2, <1>5, <2>1 DEF GoodList
<1>7. ASSUME NEW key PROVE Lookup(list, key) = Dead
  <2>1. ASSUME NEW p \in Places PROVE ~Holds(list, p, key)
    <3>1. PICK i \in Levels : p = 2 * i + 1 \/ p = 2 * i + 2
      BY Zenon, EveryPlace
    <3>2. Youngest(list)[p] = list[i].curr \/ Youngest(list)[p] = list[i].snap
      BY Zenon, <3>1, PlaceOf
    <3> QED BY Zenon, <1>1, <1>2, <3>2 DEF Holds
  <2> QED BY Zenon, <2>1, LookupIs DEF Absent
<1>8. Same(list, list)
  BY Zenon, <1>2 DEF Same
<1>9. 0 \in Nat
  BY SMT
<1> QED BY Zenon, <1>4, <1>6, <1>7, <1>8, <1>9 DEF StoreInv, NetworkInv, StoreIs

\* A ledger closes: addBatch of the list and what the database becomes.
LEMMA BatchStep ==
    ASSUME NetworkInv, NEW live \in SUBSET Key, NEW dead \in SUBSET (bs.database \ live),
           StoreBatch(live, dead)
    PROVE  /\ NetworkInv'
           /\ Same(bs.list, bs.network) => Same(bs.list, bs.network)'
<1> DEFINE n == bs.ledger
           m == n + 1
           batch == fresh(1, live, dead)
           list == addBatch(bs.list, m, batch)
           net == addBatch(bs.network, m, batch)
           data == (bs.database \cup live) \ dead
<1>1. n \in Nat /\ m \in Nat /\ GoodList(bs.network, n)
  BY SMT DEF NetworkInv
<1>2. bs' = [bs EXCEPT !.ledger = m, !.list = list, !.network = net, !.database = data]
  BY Zenon DEF StoreBatch
<1>3. StoreIs(bs', m, list, net, data)
  <2> HIDE DEF m, list, net, data
  <2>1. bs \in [ledger : {bs.ledger}, list : {bs.list}, network : {bs.network}, database : {bs.database}]
    BY Zenon DEF NetworkInv
  <2>2. [bs EXCEPT !.ledger = m, !.list = list, !.network = net, !.database = data]
          \in [ledger : {m}, list : {list}, network : {net}, database : {data}]
    BY Zenon, <2>1
  <2> QED BY Zenon, <1>2, <2>2, StoreSet
<1>4. Added(bs.network, net, m, batch)
  BY Zenon, <1>1, AddBatch DEF GoodList
<1>5. Closes(bs.network, net, n, batch)
  BY Zenon, <1>1, <1>4 DEF Closes
<1>6. DOMAIN batch = live \cup dead /\ \A k \in DOMAIN batch : batch[k] = IF k \in dead THEN Dead ELSE 1
  BY Zenon DEF fresh
<1> HIDE DEF batch, list, net, data
<1>7. GoodList(net, m)
  BY Zenon, <1>5, NextGood
<1>8. ASSUME NEW key \in Key PROVE (Lookup(net, key) # Dead) <=> (key \in data)
  <2>1. CASE key \in DOMAIN batch
    <3>1. Lookup(net, key) = IF key \in dead THEN Dead ELSE 1
      <4>1. Lookup(net, key) = batch[key]
        BY SMT, <1>5, <2>1, BatchFound
      <4> QED BY Zenon, <1>6, <2>1, <4>1
    <3>2. 1 # Dead
      BY SMT DEF Dead
    <3> QED BY Zenon, <1>6, <2>1, <3>1, <3>2 DEF data
  <2>2. CASE key \notin DOMAIN batch
    <3>1. Lookup(net, key) = Lookup(bs.network, key)
      BY SMT, <1>5, <2>2, FirstStays
    <3>2. (Lookup(bs.network, key) # Dead) <=> (key \in bs.database)
      BY Zenon DEF NetworkInv
    <3> QED BY Zenon, <1>6, <2>2, <3>1, <3>2 DEF data
  <2> QED BY Zenon, <2>1, <2>2
<1>9. /\ bs'.ledger = m /\ bs'.list = list /\ bs'.network = net /\ bs'.database = data
      /\ StoreIs(bs', bs'.ledger, bs'.list, bs'.network, bs'.database)
  <2> HIDE DEF m
  <2> QED BY SMT, <1>3, StoreFields
<1>10. NetworkInv'
  BY Zenon, <1>1, <1>7, <1>8, <1>9 DEF NetworkInv, StoreIs
<1>11. ASSUME Same(bs.list, bs.network) PROVE Same(bs.list, bs.network)'
  <2>1. Added(bs.list, list, m, batch)
    BY Zenon, <1>1, <1>11, AddBatch DEF Same, list
  <2>2. Same(list, net)
    BY Zenon, <1>1, <1>4, <1>11, <2>1, SameAdded
  <2> QED BY Zenon, <1>9, <2>2 DEF Same
<1> QED BY Zenon, <1>10, <1>11

\* The merges of every level are complete whenever the node stops.
MergesComplete == \A ready \in ReadySets : Levels \subseteq ready

LEMMA RestartStep ==
    ASSUME NetworkInv, RestartStore
    PROVE  /\ NetworkInv'
           /\ MergesComplete /\ Same(bs.list, bs.network) => Same(bs.list, bs.network)'
<1>1. PICK ready \in ReadySets, any \in [Levels -> BOOLEAN] :
          bs' = [bs EXCEPT !.list = assumeState(resolveAnyReadyFutures(bs.list, ready), any)]
  BY Zenon DEF RestartStore
<1> DEFINE list == assumeState(resolveAnyReadyFutures(bs.list, ready), any)
<1>2. /\ bs'.ledger = bs.ledger /\ bs'.list = list /\ bs'.network = bs.network
      /\ bs'.database = bs.database
      /\ StoreIs(bs', bs'.ledger, bs'.list, bs'.network, bs'.database)
  <2>1. bs' = [bs EXCEPT !.list = list]
    BY Zenon, <1>1
  <2> HIDE DEF list
  <2>2. bs \in [ledger : {bs.ledger}, list : {bs.list}, network : {bs.network}, database : {bs.database}]
    BY Zenon DEF NetworkInv
  <2>3. [bs EXCEPT !.list = list]
          \in [ledger : {bs.ledger}, list : {list}, network : {bs.network}, database : {bs.database}]
    BY Zenon, <2>2
  <2>4. StoreIs(bs', bs.ledger, list, bs.network, bs.database)
    BY Zenon, <2>1, <2>3, StoreSet
  <2> QED BY SMT, <2>4, StoreFields
<1> HIDE DEF list
<1>3. NetworkInv'
  BY Zenon, <1>2 DEF NetworkInv, StoreIs
<1>4. ASSUME MergesComplete, Same(bs.list, bs.network) PROVE Same(bs.list, bs.network)'
  <2>1. Levels \subseteq ready
    BY Zenon, <1>4 DEF MergesComplete
  <2>2. Same(list, bs.network)
    BY Zenon, <1>4, <2>1, SameRestarted DEF list
  <2> QED BY Zenon, <1>2, <2>2 DEF Same
<1> QED BY Zenon, <1>3, <1>4

LEMMA NextStore ==
    ASSUME NetworkInv, [StoreNext]_bs
    PROVE  /\ NetworkInv'
           /\ MergesComplete /\ Same(bs.list, bs.network) => Same(bs.list, bs.network)'
<1>1. ASSUME NEW live \in SUBSET Key, NEW dead \in SUBSET (bs.database \ live), StoreBatch(live, dead)
      PROVE  /\ NetworkInv'
             /\ MergesComplete /\ Same(bs.list, bs.network) => Same(bs.list, bs.network)'
  BY Zenon, <1>1, BatchStep
<1>2. CASE RestartStore
  BY Zenon, <1>2, RestartStep
<1>3. CASE UNCHANGED bs
  BY Zenon, <1>3 DEF NetworkInv, Same
<1> QED BY Zenon, <1>1, <1>2, <1>3 DEF StoreNext

LEMMA StoreInductive == MergesComplete => (StoreSpec => []StoreInv)
<1> SUFFICES ASSUME MergesComplete PROVE StoreSpec => []StoreInv
  OBVIOUS
<1>1. StoreInit => StoreInv
  BY Zenon, InitStore
<1>2. StoreInv /\ [StoreNext]_bs => StoreInv'
  BY Zenon, NextStore DEF StoreInv
<1> QED BY <1>1, <1>2, PTL DEF StoreSpec

LEMMA SameLookup ==
    ASSUME NEW list, NEW other, Same(list, other), NEW key
    PROVE  Lookup(list, key) = Lookup(other, key)
<1>1. ASSUME NEW p \in Places PROVE Youngest(list)[p] = Youngest(other)[p]
  <2>1. PICK i \in Levels : p = 2 * i + 1 \/ p = 2 * i + 2
    BY Zenon, EveryPlace
  <2>2. list[i].curr = other[i].curr /\ list[i].snap = other[i].snap
    BY Zenon DEF Same
  <2> QED BY Zenon, <2>1, <2>2, PlaceOf
<1>2. CASE Absent(list, key)
  <2>1. Absent(other, key)
    BY Zenon, <1>1, <1>2 DEF Absent, Holds
  <2> QED BY Zenon, <1>2, <2>1, LookupIs
<1>3. ASSUME NEW p \in Places, First(list, key, p) PROVE Lookup(list, key) = Lookup(other, key)
  <2>1. First(other, key, p)
    BY Zenon, <1>1, <1>3 DEF First, Holds
  <2>2. Lookup(list, key) = Youngest(list)[p][key] /\ Lookup(other, key) = Youngest(other)[p][key]
    BY Zenon, <1>3, <2>1, LookupIs
  <2> QED BY Zenon, <1>1, <2>2
<1> QED BY Zenon, <1>2, <1>3, FirstOrAbsent

-----------------------------------------------------------------------------
(* The theorems.                                                           *)

\* For every number of levels, set of keys and sequence of batches: the first
\* bucket of a node that never restarts that has an entry for a key says what
\* the database says (BucketList::addBatch, Bucket::merge).
THEOREM NetworkListAgrees ==
    StoreSpec => [](\A key \in Key : (Lookup(bs.network, key) # Dead) <=> (key \in bs.database))
<1>1. StoreInit => NetworkInv
  BY Zenon, InitStore DEF StoreInv
<1>2. NetworkInv /\ [StoreNext]_bs => NetworkInv'
  BY Zenon, NextStore
<1>3. NetworkInv => \A key \in Key : (Lookup(bs.network, key) # Dead) <=> (key \in bs.database)
  BY Zenon DEF NetworkInv
<1> QED BY <1>1, <1>2, <1>3, PTL DEF StoreSpec

\* The same of a node that restarts, if the merges of all levels are complete
\* when it stops, and with them mKeepDeadEntries is not needed again.
THEOREM RestartedListAgrees == MergesComplete => (StoreSpec => []ListAgreesWithDatabase)
<1>1. StoreInv => ListAgreesWithDatabase
  <2> SUFFICES ASSUME StoreInv, NEW key \in Key
               PROVE  (Lookup(bs.list, key) # Dead) <=> (key \in bs.database)
    BY Zenon DEF ListAgreesWithDatabase
  <2>1. Lookup(bs.list, key) = Lookup(bs.network, key)
    BY SMT, SameLookup DEF StoreInv
  <2> QED BY Zenon, <2>1 DEF StoreInv, NetworkInv
<1> QED BY <1>1, StoreInductive, PTL

\* Under the same condition it has, after any number of ledgers and restarts,
\* bucket for bucket the list of a node that never restarted, and so its hash.
THEOREM RestartedListIsTheSame == MergesComplete => (StoreSpec => []RestartKeepsList)
<1>1. StoreInv => RestartKeepsList
  BY Zenon DEF StoreInv, Same, RestartKeepsList
<1> QED BY <1>1, StoreInductive, PTL

(***************************************************************************)
(* BucketManager: every bucket of the stored state is on disk, and the     *)
(* archive has the buckets of its state, in whatever order merges, the     *)
(* steps of closeLedger, publishing, crashes and restarts come.            *)
(*                                                                         *)
(* FilesInv: the buckets of the list and the results of its merges that    *)
(* are done are on disk, and so are those of the stored state.  A state    *)
(* that is about to be committed, or was committed before garbage is       *)
(* collected, has no others than those of the list (Kept), which the       *)
(* collection spares.  ArchiveInv: the buckets of a state are sent before  *)
(* the state (Sent).  Nothing is said of the states in the publish queue,  *)
(* whose buckets may be lost.                                              *)
(***************************************************************************)

-----------------------------------------------------------------------------
(* The records of the bucket manager.                                      *)

IsFuture(f) ==
    \/ f = ClearFuture
    \/ f.state = "output" /\ f = OutputFuture(f.output)
    \/ f.state = "inputs" /\ f = InputsFuture(f.curr, f.snap, f.shadows, f.keepDeadEntries)

\* A bucket list, or a state of one.
IsList(list) == \A i \in Levels : IsLevel(list[i]) /\ IsFuture(list[i].next)

IsManager(b) ==
    b \in [ledger : {b.ledger}, list : {b.list}, merged : {b.merged}, closing : {b.closing},
           files : {b.files}, shared : {b.shared}, stored : {b.stored}, queue : {b.queue},
           tx : {b.tx}, usage : {b.usage}, filled : {b.filled}, publish : {b.publish},
           posted : {b.posted}, archive : {b.archive}, restarts : {b.restarts}]

IsTx(t) == t \in [stored : {t.stored}, queue : {t.queue}]

IsArchive(a) == a \in [has : {a.has}, buckets : {a.buckets}]

IsPublish(p) ==
    \/ p = NoPublish
    \/ p.on /\ p \in [on : {p.on}, ledger : {p.ledger}, has : {p.has},
                      originalBuckets : {p.originalBuckets}, stage : {p.stage}]

-----------------------------------------------------------------------------
(* The invariant.                                                          *)

\* Every bucket of the state is one of the list, or the output of a merge of
\* the list that is done: forgetUnreferencedBuckets keeps it.
Kept(state, b) == allBuckets(state) \subseteq allBuckets(b.list) \cup outputs(b.list, b.merged)

FilesInv(b) ==
    /\ IsList(b.list) /\ IsList(b.stored)
    /\ allBuckets(b.list) \cup (outputs(b.list, b.merged) \ {EmptyBucket}) \subseteq b.files
    /\ allBuckets(b.stored) \subseteq b.files
    /\ b.closing = "stored" => IsList(b.tx.stored) /\ Kept(b.tx.stored, b)
    /\ b.closing = "committed" => Kept(b.stored, b)

\* The buckets of a state are in the archive before the state is.
Sent(p, archive) ==
    p.on /\ p.stage \in {"state", "done"} => archivedBuckets(p.has) \subseteq archive.buckets

ArchiveInv(b) ==
    /\ IsPublish(b.publish) /\ IsArchive(b.archive)
    /\ archivedBuckets(b.archive.has) \subseteq b.archive.buckets
    /\ Sent(b.publish, b.archive)

ClosingInv(b) ==
    /\ b.ledger \in Nat /\ (b.closing = "stored" => b.ledger # 0)
    /\ b.merged \subseteq Levels

ManagerInv(b) == IsManager(b) /\ IsTx(b.tx) /\ ClosingInv(b) /\ FilesInv(b) /\ ArchiveInv(b)

-----------------------------------------------------------------------------
(* States of the list and their buckets.                                   *)

LEMMA FutureKinds ==
    /\ IsFuture(ClearFuture) /\ getHashes(ClearFuture) = {}
    /\ \A b : /\ IsFuture(OutputFuture(b)) /\ OutputFuture(b).state = "output"
              /\ OutputFuture(b).output = b /\ getHashes(OutputFuture(b)) = {b}
    /\ \A c, s, sh, keep :
          /\ IsFuture(InputsFuture(c, s, sh, keep))
          /\ getHashes(InputsFuture(c, s, sh, keep)) = {c, s} \cup sh
<1>1. IsFuture(ClearFuture)
  BY Zenon DEF IsFuture
<1>2. getHashes(ClearFuture) = {}
  BY Zenon, ClearState DEF getHashes
<1>3. ASSUME NEW b
      PROVE  /\ IsFuture(OutputFuture(b)) /\ OutputFuture(b).state = "output"
             /\ OutputFuture(b).output = b /\ getHashes(OutputFuture(b)) = {b}
  <2> DEFINE f == OutputFuture(b)
  <2>1. f.state = "output" /\ f.output = b
    BY Zenon DEF OutputFuture
  <2>2. f.state # "clear" /\ f.state # "inputs"
    BY SMT, <2>1
  <2>3. f = OutputFuture(f.output)
    BY Zenon, <2>1
  <2> HIDE DEF f
  <2>4. IsFuture(f) /\ getHashes(f) = {b}
    BY Zenon, <2>1, <2>2, <2>3 DEF IsFuture, getHashes
  <2> QED BY Zenon, <2>1, <2>4 DEF f
<1>4. ASSUME NEW c, NEW s, NEW sh, NEW keep
      PROVE  /\ IsFuture(InputsFuture(c, s, sh, keep))
             /\ getHashes(InputsFuture(c, s, sh, keep)) = {c, s} \cup sh
  <2> DEFINE f == InputsFuture(c, s, sh, keep)
  <2>1. f.state = "inputs" /\ f.curr = c /\ f.snap = s /\ f.shadows = sh /\ f.keepDeadEntries = keep
    BY Zenon DEF InputsFuture
  <2>2. f.state # "clear" /\ f.state # "output"
    BY SMT, <2>1
  <2>3. f = InputsFuture(f.curr, f.snap, f.shadows, f.keepDeadEntries)
    BY Zenon, <2>1
  <2> HIDE DEF f
  <2>4. IsFuture(f) /\ getHashes(f) = {c, s} \cup sh
    BY Zenon, <2>1, <2>2, <2>3 DEF IsFuture, getHashes
  <2> QED BY Zenon, <2>4 DEF f
<1> QED BY Zenon, <1>1, <1>2, <1>3, <1>4

\* A merge that is read back has the inputs it had.
LEMMA ReloadedFuture ==
    ASSUME NEW f, IsFuture(f), NEW any
    PROVE  IsFuture(reloaded(f, any)) /\ getHashes(reloaded(f, any)) = getHashes(f)
<1>1. CASE f.state = "inputs"
  <2> DEFINE g == [f EXCEPT !.keepDeadEntries = any]
             S(k) == [state : {"inputs"}, curr : {f.curr}, snap : {f.snap}, shadows : {f.shadows},
                      keepDeadEntries : {k}]
  <2>0. f.state # "clear" /\ f.state # "output"
    BY SMT, <1>1
  <2>1. f \in S(f.keepDeadEntries)
    <3>1. f # ClearFuture
      BY Zenon, <2>0, ClearState
    <3>2. f = InputsFuture(f.curr, f.snap, f.shadows, f.keepDeadEntries)
      BY Zenon, <2>0, <3>1 DEF IsFuture
    <3>3. ASSUME NEW c, NEW s, NEW sh, NEW k
          PROVE  InputsFuture(c, s, sh, k) \in [state : {"inputs"}, curr : {c}, snap : {s},
                                               shadows : {sh}, keepDeadEntries : {k}]
      BY Zenon DEF InputsFuture
    <3> DEFINE h == InputsFuture(f.curr, f.snap, f.shadows, f.keepDeadEntries)
    <3>4. h \in S(f.keepDeadEntries)
      BY Zenon, <3>3
    <3> HIDE DEF h, S
    <3> QED BY Zenon, <3>2, <3>4 DEF h
  <2>2. g \in S(any)
    BY Zenon, <2>1
  <2>3. reloaded(f, any) = g
    BY Zenon, <1>1 DEF reloaded
  <2> HIDE DEF g
  <2>4. g.state = "inputs" /\ g.curr = f.curr /\ g.snap = f.snap /\ g.shadows = f.shadows
        /\ g = InputsFuture(g.curr, g.snap, g.shadows, g.keepDeadEntries)
    BY Zenon, <2>2 DEF InputsFuture
  <2>5. g.state # "clear" /\ g.state # "output"
    BY SMT, <2>4
  <2>6. getHashes(g) = {f.curr, f.snap} \cup f.shadows
    BY Zenon, <2>4, <2>5 DEF getHashes
  <2>7. getHashes(f) = {f.curr, f.snap} \cup f.shadows
    BY Zenon, <1>1, <2>0 DEF getHashes
  <2>8. IsFuture(g)
    BY Zenon, <2>4 DEF IsFuture
  <2> QED BY Zenon, <2>3, <2>6, <2>7, <2>8
<1>2. CASE f.state # "inputs"
  BY Zenon, <1>2 DEF reloaded
<1> QED BY Zenon, <1>1, <1>2

\* The buckets of a level.
In(x, l) == x = l.curr \/ x = l.snap \/ x \in getHashes(l.next)

LEMMA BucketOfState ==
    ASSUME NEW has, NEW x
    PROVE  x \in allBuckets(has) <=> x # EmptyBucket /\ \E i \in Levels : In(x, has[i])
<1> DEFINE e == EmptyBucket
           S(i) == {has[i].curr, has[i].snap} \cup getHashes(has[i].next)
<1> DEFINE U == UNION {S(i) : i \in Levels}
<1>1. allBuckets(has) = U \ {e}
  BY DEF allBuckets
<1>2. \A i \in Levels : x \in S(i) <=> In(x, has[i])
  BY Zenon DEF In
<1>3. x \in U <=> \E i \in Levels : x \in S(i)
  <2> HIDE DEF S
  <2> QED BY Zenon
<1>4. x \in allBuckets(has) <=> x # e /\ x \in U
  <2> HIDE DEF e, U
  <2> QED BY SMT, <1>1
<1> HIDE DEF e, S, U
<1> QED BY Zenon, <1>2, <1>3, <1>4 DEF e

\* The levels that take a snap at ledger m, and prepare a merge with it.
Newly(m) == {i \in Levels \ {0} : levelShouldSpill(m, i - 1)}

OutputAt(list, i, x) == list[i].next.state = "inputs" /\ x = resolve(list[i].next)

LEMMA OutputOfMerge ==
    ASSUME NEW list, NEW done, NEW x
    PROVE  x \in outputs(list, done) <=> \E i \in done : OutputAt(list, i, x)
BY Zenon DEF outputs, OutputAt

\* What a batch needs on disk was there, or is adopted with it.
LEMMA NewBuckets ==
    ASSUME NEW list, IsList(list), NEW m \in Nat, NEW batch, NEW new,
           Added(list, new, m, batch), NEW merged \in SUBSET Levels
    PROVE  /\ IsList(new)
           /\ \A x \in allBuckets(new) :
                 x \in allBuckets(list) \/ \E i \in Newly(m) \cup {0} : x = new[i].curr
           /\ outputs(new, merged \ Newly(m)) \subseteq outputs(list, merged)
<1>1. Added(list, new, m, batch)
  OBVIOUS
<1>2. /\ 0 \in Levels
      /\ \A i \in Newly(m) : i \in Levels /\ i # 0 /\ i - 1 \in Levels /\ levelShouldSpill(m, i - 1)
      /\ \A i \in Levels : i # 0 /\ i \notin Newly(m) => ~levelShouldSpill(m, i - 1)
  BY Zenon, LevelNumbers DEF Newly
<1>3. new[0].next = ClearFuture
  BY Zenon, <1>1, <1>2 DEF Added
<1>4. ASSUME NEW i \in Newly(m)
      PROVE  /\ IsFuture(new[i].next)
             /\ getHashes(new[i].next) =
                   {IF levelShouldSpill(m + levelHalf(i - 1), i) THEN EmptyBucket ELSE new[i].curr,
                    list[i - 1].curr} \cup shadowsOf(list, i)
  <2> DEFINE c == IF levelShouldSpill(m + levelHalf(i - 1), i) THEN EmptyBucket ELSE new[i].curr
             s == list[i - 1].curr
             sh == shadowsOf(list, i)
             keep == i < kNumLevels - 1
             f == InputsFuture(c, s, sh, keep)
  <2>1. new[i].next = f
    BY Zenon, <1>1, <1>2 DEF Added, Spilled
  <2>2. IsFuture(f) /\ getHashes(f) = {c, s} \cup sh
    <3> HIDE DEF c, s, sh, keep
    <3> QED BY SMT, FutureKinds
  <2> HIDE DEF f
  <2> QED BY Zenon, <2>1, <2>2
<1>5. ASSUME NEW i \in Levels, i # 0, i \notin Newly(m)
      PROVE  new[i].curr = list[i].curr /\ new[i].next = list[i].next
  BY Zenon, <1>1, <1>2, <1>5 DEF Added
<1>6. ASSUME NEW i \in Levels
      PROVE  IsLevel(new[i]) /\ (new[i].snap = list[i].curr \/ new[i].snap = list[i].snap)
  BY Zenon, <1>1 DEF Added
<1>7. IsList(new)
  <2> SUFFICES ASSUME NEW i \in Levels PROVE IsFuture(new[i].next)
    BY Zenon, <1>6 DEF IsList
  <2>1. CASE i = 0
    BY Zenon, <2>1, <1>3, FutureKinds
  <2>2. CASE i \in Newly(m)
    BY Zenon, <2>2, <1>4
  <2>3. CASE i # 0 /\ i \notin Newly(m)
    BY Zenon, <2>3, <1>5 DEF IsList
  <2> QED BY Zenon, <2>1, <2>2, <2>3
<1>8. ASSUME NEW x \in allBuckets(new)
      PROVE  x \in allBuckets(list) \/ \E i \in Newly(m) \cup {0} : x = new[i].curr
  <2> DEFINE e == EmptyBucket
  <2>1. x # e /\ \E i \in Levels : In(x, new[i])
    BY Zenon, BucketOfState
  <2>2. PICK i \in Levels : In(x, new[i])
    BY Zenon, <2>1
  <2>3. ASSUME NEW j \in Levels, In(x, list[j]) PROVE x \in allBuckets(list)
    BY Zenon, <2>1, <2>3, BucketOfState
  <2>4. CASE x = new[i].snap
    BY Zenon, <2>3, <2>4, <1>6 DEF In
  <2>5. CASE x # new[i].snap /\ i = 0
    BY Zenon, <2>2, <2>5, <1>3, FutureKinds DEF In
  <2>6. CASE i \in Newly(m) /\ x \in getHashes(new[i].next)
    <3> DEFINE c == IF levelShouldSpill(m + levelHalf(i - 1), i) THEN e ELSE new[i].curr
    <3>1. x \in {c, list[i - 1].curr} \cup shadowsOf(list, i)
      BY Zenon, <2>6, <1>4
    <3>2. CASE x = c
      BY Zenon, <3>2, <2>1, <2>6
    <3>3. CASE x = list[i - 1].curr
      BY Zenon, <3>3, <2>3, <2>6, <1>2 DEF In
    <3>4. CASE x \in shadowsOf(list, i)
      <4>1. PICK j \in 0..(i - 2) : x = list[j].curr \/ x = list[j].snap
        BY Zenon, <3>4 DEF shadowsOf
      <4>2. j \in Levels
        BY SMT, kNumLevelsAssumption DEF Levels
      <4> QED BY Zenon, <4>1, <4>2, <2>3 DEF In
    <3> QED BY Zenon, <3>1, <3>2, <3>3, <3>4
  <2>7. CASE i \in Newly(m) /\ x = new[i].curr
    BY Zenon, <2>7
  <2>8. CASE x # new[i].snap /\ i # 0 /\ i \notin Newly(m)
    BY Zenon, <2>2, <2>3, <2>8, <1>5 DEF In
  <2> QED BY Zenon, <2>2, <2>4, <2>5, <2>6, <2>7, <2>8 DEF In
<1>9. ASSUME NEW x \in outputs(new, merged \ Newly(m)) PROVE x \in outputs(list, merged)
  <2>1. PICK i \in merged \ Newly(m) : OutputAt(new, i, x)
    BY Zenon, OutputOfMerge
  <2>2. "inputs" # "clear"
    OBVIOUS
  <2>3. i \in Levels /\ i # 0
    BY Zenon, <2>1, <2>2, <1>3, ClearState DEF OutputAt
  <2>4. i \in merged /\ OutputAt(list, i, x)
    BY Zenon, <2>1, <2>3, <1>5 DEF OutputAt
  <2> QED BY Zenon, <2>4, OutputOfMerge
<1> QED BY Zenon, <1>7, <1>8, <1>9

\* What a state with resolved merges names is a bucket of the list or an output.
LEMMA StateBuckets ==
    ASSUME NEW list, IsList(list), NEW done
    PROVE  /\ IsList(resolveAnyReadyFutures(list, done))
           /\ allBuckets(resolveAnyReadyFutures(list, done)) \subseteq allBuckets(list) \cup outputs(list, done)
<1> DEFINE has == resolveAnyReadyFutures(list, done)
<1>1. ASSUME NEW i \in Levels, i \in done, list[i].next.state = "inputs"
      PROVE  LevelIs(has[i], list[i].curr, list[i].snap, OutputFuture(resolve(list[i].next)))
  <2>1. has[i] = [list[i] EXCEPT !.next = OutputFuture(resolve(list[i].next))]
    BY Zenon, <1>1 DEF resolveAnyReadyFutures
  <2> QED BY Zenon, <2>1, SetNext DEF IsList
<1>2. ASSUME NEW i \in Levels, ~(i \in done /\ list[i].next.state = "inputs")
      PROVE  has[i] = list[i]
  BY Zenon, <1>2 DEF resolveAnyReadyFutures
<1> HIDE DEF has
<1>3. ASSUME NEW i \in Levels, i \in done, list[i].next.state = "inputs"
      PROVE  /\ IsLevel(has[i]) /\ has[i].curr = list[i].curr /\ has[i].snap = list[i].snap
             /\ IsFuture(has[i].next) /\ getHashes(has[i].next) = {resolve(list[i].next)}
  <2> DEFINE f == OutputFuture(resolve(list[i].next))
  <2>1. IsFuture(f) /\ getHashes(f) = {resolve(list[i].next)}
    BY Zenon, FutureKinds
  <2>2. LevelIs(has[i], list[i].curr, list[i].snap, f)
    BY Zenon, <1>1, <1>3
  <2> HIDE DEF f
  <2>3. IsLevel(has[i]) /\ has[i].curr = list[i].curr /\ has[i].snap = list[i].snap /\ has[i].next = f
    BY SMT, <2>2, LevelFields
  <2> QED BY Zenon, <2>1, <2>3
<1>4. IsList(has)
  BY Zenon, <1>2, <1>3 DEF IsList
<1>5. ASSUME NEW x \in allBuckets(has) PROVE x \in allBuckets(list) \cup outputs(list, done)
  <2>1. PICK i \in Levels : x # EmptyBucket /\ In(x, has[i])
    BY Zenon, BucketOfState
  <2>2. CASE i \in done /\ list[i].next.state = "inputs"
    <3>1. x = list[i].curr \/ x = list[i].snap \/ x = resolve(list[i].next)
      BY Zenon, <2>1, <2>2, <1>3 DEF In
    <3>2. CASE x = resolve(list[i].next)
      BY Zenon, <2>2, <3>2, OutputOfMerge DEF OutputAt
    <3>3. CASE x # resolve(list[i].next)
      BY Zenon, <2>1, <3>1, <3>3, BucketOfState DEF In
    <3> QED BY Zenon, <3>2, <3>3
  <2>3. CASE ~(i \in done /\ list[i].next.state = "inputs")
    BY Zenon, <2>1, <2>3, <1>2, BucketOfState
  <2> QED BY Zenon, <2>2, <2>3
<1> QED BY Zenon, <1>4, <1>5 DEF has

\* A restart takes up the stored state with all its buckets.
LEMMA AssumedBuckets ==
    ASSUME NEW has, IsList(has), NEW any
    PROVE  IsList(assumeState(has, any)) /\ allBuckets(assumeState(has, any)) \subseteq allBuckets(has)
<1> DEFINE list == assumeState(has, any)
<1>1. ASSUME NEW i \in Levels
      PROVE  LevelIs(list[i], has[i].curr, has[i].snap, reloaded(has[i].next, any[i]))
  <2>1. list[i] = [has[i] EXCEPT !.next = reloaded(has[i].next, any[i])]
    BY Zenon DEF assumeState
  <2> QED BY Zenon, <2>1, SetNext DEF IsList
<1> HIDE DEF list
<1>2. ASSUME NEW i \in Levels
      PROVE  /\ IsLevel(list[i]) /\ list[i].curr = has[i].curr /\ list[i].snap = has[i].snap
             /\ IsFuture(list[i].next) /\ getHashes(list[i].next) = getHashes(has[i].next)
  <2> DEFINE f == reloaded(has[i].next, any[i])
  <2>1. IsFuture(f) /\ getHashes(f) = getHashes(has[i].next)
    BY Zenon, ReloadedFuture DEF IsList
  <2>2. LevelIs(list[i], has[i].curr, has[i].snap, f)
    BY Zenon, <1>1
  <2> HIDE DEF f
  <2>3. IsLevel(list[i]) /\ list[i].curr = has[i].curr /\ list[i].snap = has[i].snap /\ list[i].next = f
    BY SMT, <2>2, LevelFields
  <2> QED BY Zenon, <2>1, <2>3
<1>3. IsList(list)
  BY Zenon, <1>2 DEF IsList
<1>4. ASSUME NEW x \in allBuckets(list) PROVE x \in allBuckets(has)
  <2>1. PICK i \in Levels : x # EmptyBucket /\ In(x, list[i])
    BY Zenon, BucketOfState
  <2>2. In(x, has[i])
    BY Zenon, <2>1, <1>2 DEF In
  <2> QED BY Zenon, <2>1, <2>2, BucketOfState
<1> QED BY Zenon, <1>3, <1>4 DEF list

-----------------------------------------------------------------------------
(* The state the node starts with.                                         *)

Replays(f, k) ==
    f = [n \in 0..k |-> IF n = 0 THEN EmptyList ELSE addBatch(f[n - 1], n, fresh(1, {n}, {}))]

LEMMA ReplaysExist == \A k \in Nat : \E f : Replays(f, k)
<1> DEFINE T == {k \in Nat : ~\E f : Replays(f, k)}
           A(g, n) == addBatch(g, n, fresh(1, {n}, {}))
<1> SUFFICES ASSUME T # {} PROVE FALSE
  BY Zenon
<1>1. PICK k \in T : \A j \in T : k <= j
  <2> HIDE DEF T
  <2>1. T \in SUBSET Nat
    BY Zenon DEF T
  <2> QED BY Zenon, <2>1, LeastOfNaturals
<1>2. k \in Nat /\ ~\E f : Replays(f, k)
  BY Zenon, <1>1
<1>0. ASSUME NEW f, NEW j \in Nat
      PROVE  Replays(f, j) <=> f = [n \in 0..j |-> IF n = 0 THEN EmptyList ELSE A(f[n - 1], n)]
  BY Zenon DEF Replays
<1> HIDE DEF A
<1>3. CASE k = 0
  <2> DEFINE f == [i \in 0..0 |-> EmptyList]
  <2>1. \A n \in 0..0 : n = 0
    BY SMT
  <2>2. f = [n \in 0..0 |-> IF n = 0 THEN EmptyList ELSE A(f[n - 1], n)]
    BY Zenon, <2>1
  <2>3. Replays(f, 0)
    <3>1. 0 \in Nat
      BY SMT
    <3> HIDE DEF f
    <3> QED BY Zenon, <1>0, <2>2, <3>1
  <2> QED BY Zenon, <1>2, <1>3, <2>3
<1>4. CASE k # 0
  <2>1. k - 1 \in Nat /\ k - 1 \notin T
    BY SMT, <1>1, <1>2, <1>4
  <2>2. PICK f : Replays(f, k - 1)
    BY Zenon, <2>1
  <2> DEFINE g == [n \in 0..k |-> IF n = k THEN A(f[k - 1], k) ELSE f[n]]
  <2>3. \A n \in 0..(k - 1) : f[n] = IF n = 0 THEN EmptyList ELSE A(f[n - 1], n)
    <3> DEFINE h == [n \in 0..(k - 1) |-> IF n = 0 THEN EmptyList ELSE A(f[n - 1], n)]
    <3>1. f = h
      BY Zenon, <2>2, <2>1, <1>0
    <3>2. \A n \in 0..(k - 1) : h[n] = IF n = 0 THEN EmptyList ELSE A(f[n - 1], n)
      BY Zenon
    <3> HIDE DEF h
    <3> QED BY SMT, <3>1, <3>2
  <2>4. ASSUME NEW n \in 0..k PROVE g[n] = IF n = 0 THEN EmptyList ELSE A(g[n - 1], n)
    <3>1. \A i \in 0..k : g[i] = IF i = k THEN A(f[k - 1], k) ELSE f[i]
      BY Zenon
    <3> HIDE DEF g
    <3>2. n # 0 => n - 1 \in 0..k /\ n - 1 # k
      BY SMT, <1>2
    <3>3. n # k => n \in 0..(k - 1)
      BY SMT, <1>2
    <3>4. n # 0 => g[n - 1] = f[n - 1]
      BY Zenon, <3>1, <3>2
    <3> QED BY Zenon, <3>1, <3>3, <3>4, <2>3, <1>4
  <2>5. g = [n \in 0..k |-> IF n = 0 THEN EmptyList ELSE A(g[n - 1], n)]
    <3>1. g = [n \in 0..k |-> g[n]]
      BY Zenon
    <3> HIDE DEF g
    <3> QED BY Zenon, <3>1, <2>4
  <2>6. Replays(g, k)
    <3> HIDE DEF g
    <3> QED BY Zenon, <1>0, <1>2, <2>5
  <2> QED BY Zenon, <1>2, <2>6
<1> QED BY Zenon, <1>3, <1>4

LEMMA EmptyListIsList == IsList(EmptyList)
<1> SUFFICES ASSUME NEW i \in Levels
             PROVE  IsLevel(EmptyList[i]) /\ EmptyList[i].next = ClearFuture
  BY Zenon, FutureKinds DEF IsList
<1>1. LevelIs(EmptyList[i], EmptyBucket, EmptyBucket, ClearFuture)
  BY Zenon DEF EmptyList, LevelIs
<1> QED BY SMT, <1>1, LevelFields

LEMMA ReplayedIsList == IsList(Replayed)
<1> DEFINE A(g, n) == addBatch(g, n, fresh(1, {n}, {}))
           F(f) == [n \in 0..FirstLedger |-> IF n = 0 THEN EmptyList ELSE A(f[n - 1], n)]
<1>1. PICK f : Replays(f, FirstLedger)
  BY Zenon, FirstLedgerAssumption, ReplaysExist
<1>2. f = F(f)
  BY Zenon, <1>1 DEF Replays
<1>3. replayed = F(replayed)
  BY Zenon, <1>2 DEF replayed
<1>4. \A n \in 0..FirstLedger : replayed[n] = IF n = 0 THEN EmptyList ELSE A(replayed[n - 1], n)
  BY Zenon, <1>3
<1>5. ASSUME NEW g, IsList(g), NEW n \in Nat PROVE IsList(A(g, n))
  <2> DEFINE b == fresh(1, {n}, {})
             new == addBatch(g, n, b)
  <2> HIDE DEF b
  <2>1. \A i \in Levels : IsLevel(g[i])
    BY Zenon, <1>5 DEF IsList
  <2>2. Added(g, new, n, b)
    BY Zenon, <2>1, AddBatch
  <2>3. Levels \in SUBSET Levels
    OBVIOUS
  <2> HIDE DEF new
  <2>4. IsList(new)
    BY Zenon, <1>5, <2>2, <2>3, NewBuckets
  <2> QED BY Zenon, <2>4 DEF new, b
<1> HIDE DEF A, F
<1> DEFINE T == {n \in 0..FirstLedger : ~IsList(replayed[n])}
<1>6. T = {}
  <2> SUFFICES ASSUME T # {} PROVE FALSE
    BY Zenon
  <2>1. T \in SUBSET Nat
    BY SMT, FirstLedgerAssumption
  <2>2. PICK n \in T : \A j \in T : n <= j
    <3> HIDE DEF T
    <3> QED BY Zenon, <2>1, LeastOfNaturals
  <2>3. n \in 0..FirstLedger /\ ~IsList(replayed[n])
    BY Zenon
  <2>4. CASE n = 0
    BY Zenon, <1>4, <2>3, <2>4, EmptyListIsList
  <2>5. CASE n # 0
    <3>1. n - 1 \in 0..FirstLedger /\ ~(n <= n - 1) /\ n \in Nat
      BY SMT, <2>3, <2>5, FirstLedgerAssumption
    <3>2. IsList(replayed[n - 1])
      BY Zenon, <2>2, <3>1
    <3> QED BY Zenon, <1>4, <1>5, <2>3, <2>5, <3>1, <3>2
  <2> QED BY Zenon, <2>4, <2>5
<1>7. FirstLedger \in 0..FirstLedger
  BY SMT, FirstLedgerAssumption
<1> QED BY Zenon, <1>6, <1>7 DEF Replayed

-----------------------------------------------------------------------------
(* Steps that publish.                                                     *)

\* The list, the files and what is stored are as they were.
SameFiles(b, c) ==
    /\ IsManager(c) /\ IsTx(c.tx)
    /\ c.ledger = b.ledger /\ c.list = b.list /\ c.merged = b.merged /\ c.closing = b.closing
    /\ c.files = b.files /\ c.stored = b.stored /\ c.tx.stored = b.tx.stored

\* Nothing is published, or what was is still, or a state not yet resolved.
SamePublish(b, c) ==
    /\ IsPublish(c.publish) /\ c.archive = b.archive
    /\ Sent(b.publish, b.archive) => Sent(c.publish, b.archive)

LEMMA TakeSnapshot ==
    ASSUME NEW b, IsManager(b), IsTx(b.tx), IsPublish(b.publish), NEW row
    PROVE  SameFiles(b, takeSnapshotAndPublish(b, row)) /\ SamePublish(b, takeSnapshotAndPublish(b, row))
<1>1. CASE b.publish.on
  BY Zenon, <1>1 DEF takeSnapshotAndPublish, SameFiles, SamePublish
<1>2. CASE ~b.publish.on
  <2> DEFINE p == [on |-> TRUE, ledger |-> row.ledger, has |-> row.has,
                   originalBuckets |-> allBuckets(row.has), stage |-> "resolve"]
             s == b.shared \cup ((UNION {getHashes(row.has[i].next) : i \in Levels}) \cap b.files)
             c == [b EXCEPT !.publish = p, !.shared = s]
  <2>1. takeSnapshotAndPublish(b, row) = c
    BY Zenon, <1>2 DEF takeSnapshotAndPublish
  <2>2. IsPublish(p) /\ p.stage = "resolve"
    BY Zenon DEF IsPublish
  <2>3. p.stage # "state" /\ p.stage # "done"
    BY SMT, <2>2
  <2> HIDE DEF p, s
  <2>4. c \in [ledger : {b.ledger}, list : {b.list}, merged : {b.merged}, closing : {b.closing},
               files : {b.files}, shared : {s}, stored : {b.stored}, queue : {b.queue},
               tx : {b.tx}, usage : {b.usage}, filled : {b.filled}, publish : {p},
               posted : {b.posted}, archive : {b.archive}, restarts : {b.restarts}]
    BY Zenon DEF IsManager
  <2> HIDE DEF c
  <2>5. SameFiles(b, c) /\ c.publish = p /\ c.archive = b.archive
    BY Zenon, <2>4 DEF SameFiles, IsManager
  <2>6. SamePublish(b, c)
    BY Zenon, <2>2, <2>3, <2>5 DEF SamePublish, Sent
  <2> QED BY Zenon, <2>1, <2>5, <2>6
<1> QED BY Zenon, <1>1, <1>2

LEMMA PublishQueued ==
    ASSUME NEW b, IsManager(b), IsTx(b.tx), IsPublish(b.publish)
    PROVE  SameFiles(b, publishQueuedHistory(b)) /\ SamePublish(b, publishQueuedHistory(b))
<1>1. CASE b.queue = << >>
  BY Zenon, <1>1 DEF publishQueuedHistory, SameFiles, SamePublish
<1>2. CASE b.queue # << >>
  BY Zenon, <1>2, TakeSnapshot DEF publishQueuedHistory
<1> QED BY Zenon, <1>1, <1>2

LEMMA SameTwice ==
    ASSUME NEW b, NEW c, NEW d, SameFiles(b, c), SamePublish(b, c), SameFiles(c, d), SamePublish(c, d)
    PROVE  SameFiles(b, d) /\ SamePublish(b, d)
BY Zenon DEF SameFiles, SamePublish

LEMMA QueueCurrent ==
    ASSUME NEW b, IsManager(b), IsTx(b.tx), IsPublish(b.publish), NEW row
    PROVE  SameFiles(b, queueCurrentHistory(b, row)) /\ SamePublish(b, queueCurrentHistory(b, row))
<1> DEFINE q == Append(b.tx.queue, row)
           t == [b.tx EXCEPT !.queue = q]
           u == addBuckets(b.usage, allBuckets(row.has))
           c == [b EXCEPT !.tx.queue = q, !.usage = u]
<1>1. queueCurrentHistory(b, row) = takeSnapshotAndPublish(c, row)
  BY Zenon DEF queueCurrentHistory
<1>2. t \in [stored : {b.tx.stored}, queue : {q}]
  BY Zenon DEF IsTx
<1> HIDE DEF q, u
<1>3. c = [b EXCEPT !.tx = t, !.usage = u]
  BY Zenon
<1> HIDE DEF t
<1>4. c \in [ledger : {b.ledger}, list : {b.list}, merged : {b.merged}, closing : {b.closing},
             files : {b.files}, shared : {b.shared}, stored : {b.stored}, queue : {b.queue},
             tx : {t}, usage : {u}, filled : {b.filled}, publish : {b.publish},
             posted : {b.posted}, archive : {b.archive}, restarts : {b.restarts}]
  BY Zenon, <1>3 DEF IsManager
<1> HIDE DEF c
<1>5. IsTx(t) /\ t.stored = b.tx.stored
  BY Zenon, <1>2 DEF IsTx
<1>6. SameFiles(b, c) /\ c.publish = b.publish /\ c.archive = b.archive
  BY Zenon, <1>4, <1>5 DEF SameFiles, IsManager
<1>7. SamePublish(b, c) /\ IsManager(c) /\ IsTx(c.tx) /\ IsPublish(c.publish)
  BY Zenon, <1>6 DEF SamePublish, SameFiles
<1>8. SameFiles(c, takeSnapshotAndPublish(c, row)) /\ SamePublish(c, takeSnapshotAndPublish(c, row))
  BY Zenon, <1>7, TakeSnapshot
<1> QED BY Zenon, <1>1, <1>6, <1>7, <1>8, SameTwice

LEMMA FillQueue ==
    ASSUME NEW b, IsManager(b), IsTx(b.tx), IsPublish(b.publish)
    PROVE  SameFiles(b, fillPublishQueueBuckets(b)) /\ SamePublish(b, fillPublishQueueBuckets(b))
<1>1. CASE b.filled
  BY Zenon, <1>1 DEF fillPublishQueueBuckets, SameFiles, SamePublish
<1>2. CASE ~b.filled
  <2> DEFINE u == addBuckets(b.usage, UNION {allBuckets(b.queue[i].has) : i \in DOMAIN b.queue})
             c == [b EXCEPT !.filled = TRUE, !.usage = u]
  <2>1. fillPublishQueueBuckets(b) = c
    BY Zenon, <1>2 DEF fillPublishQueueBuckets
  <2> HIDE DEF u
  <2>2. c \in [ledger : {b.ledger}, list : {b.list}, merged : {b.merged}, closing : {b.closing},
               files : {b.files}, shared : {b.shared}, stored : {b.stored}, queue : {b.queue},
               tx : {b.tx}, usage : {u}, filled : {TRUE}, publish : {b.publish},
               posted : {b.posted}, archive : {b.archive}, restarts : {b.restarts}]
    BY Zenon DEF IsManager
  <2> HIDE DEF c
  <2>3. SameFiles(b, c) /\ c.publish = b.publish /\ c.archive = b.archive
    BY Zenon, <2>2 DEF SameFiles, IsManager
  <2> QED BY Zenon, <2>1, <2>3 DEF SamePublish
<1> QED BY Zenon, <1>1, <1>2

LEMMA SameFilesKeepInv ==
    ASSUME NEW b, NEW c, ManagerInv(b), SameFiles(b, c), ArchiveInv(c)
    PROVE  ManagerInv(c)
<1>1. IsManager(c) /\ IsTx(c.tx) /\ ClosingInv(c)
  BY Zenon DEF ManagerInv, SameFiles, ClosingInv
<1>2. FilesInv(c)
  BY Zenon DEF ManagerInv, SameFiles, FilesInv, Kept
<1> QED BY Zenon, <1>1, <1>2 DEF ManagerInv

LEMMA SameKeepsInv ==
    ASSUME NEW b, NEW c, ManagerInv(b), SameFiles(b, c), SamePublish(b, c)
    PROVE  ManagerInv(c)
<1>1. ArchiveInv(c)
  BY Zenon DEF ManagerInv, SamePublish, ArchiveInv
<1> QED BY Zenon, <1>1, SameFilesKeepInv

\* adopt adds to the files and changes nothing else that matters.
LEMMA Adopt ==
    ASSUME NEW b, IsManager(b), NEW S
    PROVE  /\ IsManager(adopt(b, S)) /\ adopt(b, S).files = b.files \cup (S \ {EmptyBucket})
           /\ adopt(b, S).ledger = b.ledger /\ adopt(b, S).list = b.list
           /\ adopt(b, S).merged = b.merged /\ adopt(b, S).closing = b.closing
           /\ adopt(b, S).stored = b.stored /\ adopt(b, S).queue = b.queue
           /\ adopt(b, S).tx = b.tx /\ adopt(b, S).publish = b.publish
           /\ adopt(b, S).archive = b.archive
<1> DEFINE f == b.files \cup (S \ {EmptyBucket})
           s == b.shared \cup (S \ {EmptyBucket})
           c == [b EXCEPT !.files = f, !.shared = s]
<1>1. adopt(b, S) = c
  BY Zenon DEF adopt
<1> HIDE DEF f, s
<1>2. c \in [ledger : {b.ledger}, list : {b.list}, merged : {b.merged}, closing : {b.closing},
             files : {f}, shared : {s}, stored : {b.stored}, queue : {b.queue},
             tx : {b.tx}, usage : {b.usage}, filled : {b.filled}, publish : {b.publish},
             posted : {b.posted}, archive : {b.archive}, restarts : {b.restarts}]
  BY Zenon DEF IsManager
<1> HIDE DEF c
<1>3. /\ IsManager(c) /\ c.files = f
      /\ c.ledger = b.ledger /\ c.list = b.list /\ c.merged = b.merged /\ c.closing = b.closing
      /\ c.stored = b.stored /\ c.queue = b.queue /\ c.tx = b.tx /\ c.publish = b.publish
      /\ c.archive = b.archive
  BY Zenon, <1>2 DEF IsManager
<1> QED BY Zenon, <1>1, <1>3 DEF f

-----------------------------------------------------------------------------
(* Every step keeps the invariant.                                         *)

\* The output of a merge is adopted when the merge is done.
LEMMA MergeStep ==
    ASSUME ManagerInv(bm), NEW i \in Levels, MergeComplete(i)
    PROVE  ManagerInv(bm')
<1> DEFINE out == resolve(bm.list[i].next)
           m == bm.merged \cup {i}
           b == [bm EXCEPT !.merged = m]
           c == adopt(b, {out})
<1>1. bm' = c /\ bm.list[i].next.state = "inputs"
  BY Zenon DEF MergeComplete
<1>2. IsManager(bm)
  BY Zenon DEF ManagerInv
<1> HIDE DEF m, out
<1>3. b \in [ledger : {bm.ledger}, list : {bm.list}, merged : {m}, closing : {bm.closing},
             files : {bm.files}, shared : {bm.shared}, stored : {bm.stored}, queue : {bm.queue},
             tx : {bm.tx}, usage : {bm.usage}, filled : {bm.filled}, publish : {bm.publish},
             posted : {bm.posted}, archive : {bm.archive}, restarts : {bm.restarts}]
  BY Zenon, <1>2 DEF IsManager
<1> HIDE DEF b
<1>4. /\ IsManager(b) /\ b.files = bm.files /\ b.merged = m
      /\ b.ledger = bm.ledger /\ b.list = bm.list /\ b.closing = bm.closing
      /\ b.stored = bm.stored /\ b.tx = bm.tx /\ b.publish = bm.publish /\ b.archive = bm.archive
  BY Zenon, <1>3 DEF IsManager
<1>5. /\ IsManager(c) /\ c.files = bm.files \cup ({out} \ {EmptyBucket}) /\ c.merged = m
      /\ c.ledger = bm.ledger /\ c.list = bm.list /\ c.closing = bm.closing
      /\ c.stored = bm.stored /\ c.tx = bm.tx /\ c.publish = bm.publish /\ c.archive = bm.archive
  BY SMT, <1>4, Adopt
<1> HIDE DEF c
<1>6. ClosingInv(c) /\ IsTx(c.tx) /\ ArchiveInv(c)
  BY Zenon, <1>5 DEF ManagerInv, ClosingInv, ArchiveInv, m
<1>7. /\ outputs(bm.list, bm.merged) \subseteq outputs(bm.list, m)
      /\ outputs(bm.list, m) \subseteq outputs(bm.list, bm.merged) \cup {out}
  <2>0. \A j : j \in m <=> j \in bm.merged \/ j = i
    BY Zenon DEF m
  <2>1. ASSUME NEW x \in outputs(bm.list, m) PROVE x \in outputs(bm.list, bm.merged) \/ x = out
    <3>1. PICK j \in m : OutputAt(bm.list, j, x)
      BY Zenon, OutputOfMerge
    <3>2. CASE j = i
      BY Zenon, <3>1, <3>2 DEF OutputAt, out
    <3>3. CASE j \in bm.merged
      BY Zenon, <3>1, <3>3, OutputOfMerge
    <3> QED BY Zenon, <2>0, <3>2, <3>3
  <2>2. ASSUME NEW x \in outputs(bm.list, bm.merged) PROVE x \in outputs(bm.list, m)
    BY Zenon, <2>0, OutputOfMerge
  <2> QED BY Zenon, <2>1, <2>2
<1>8. FilesInv(c)
  <2> DEFINE e == EmptyBucket
             o == outputs(bm.list, bm.merged)
             n == outputs(bm.list, m)
             l == allBuckets(bm.list)
  <2>1. /\ IsList(bm.list) /\ IsList(bm.stored) /\ l \cup (o \ {e}) \subseteq bm.files
        /\ allBuckets(bm.stored) \subseteq bm.files
        /\ bm.closing = "stored" => IsList(bm.tx.stored) /\ allBuckets(bm.tx.stored) \subseteq l \cup o
        /\ bm.closing = "committed" => allBuckets(bm.stored) \subseteq l \cup o
    BY Zenon DEF ManagerInv, FilesInv, Kept
  <2> HIDE DEF e, o, n, l
  <2>2. o \subseteq n /\ n \subseteq o \cup {out} /\ c.files = bm.files \cup ({out} \ {e})
    BY Zenon, <1>5, <1>7 DEF e, o, n
  <2>3. /\ l \cup (n \ {e}) \subseteq c.files /\ allBuckets(bm.stored) \subseteq c.files
        /\ bm.closing = "stored" => allBuckets(bm.tx.stored) \subseteq l \cup n
        /\ bm.closing = "committed" => allBuckets(bm.stored) \subseteq l \cup n
    BY Zenon, <2>1, <2>2
  <2> QED BY Zenon, <2>1, <2>3, <1>5 DEF FilesInv, Kept, e, n, l
<1> QED BY Zenon, <1>1, <1>5, <1>6, <1>8 DEF ManagerInv

\* The transaction names buckets of the new list and outputs of its merges.
LEMMA CloseStep ==
    ASSUME ManagerInv(bm), CloseLedger
    PROVE  ManagerInv(bm')
<1> DEFINE seq == bm.ledger + 1
           batch == fresh(1, {seq}, {})
           list == addBatch(bm.list, seq, batch)
           newly == Newly(seq)
           done == bm.merged \ newly
           new == {list[i].curr : i \in newly \cup {0}}
           a == adopt(bm, new)
           st == resolveAnyReadyFutures(list, done)
           tx == [stored |-> st, queue |-> bm.queue]
           b == [a EXCEPT !.ledger = seq, !.list = list, !.merged = done, !.closing = "stored", !.tx = tx]
<1>1. bm' = b \/ \E row : bm' = queueCurrentHistory(b, row)
  BY Zenon DEF CloseLedger, Newly
<1>2. IsManager(bm) /\ IsPublish(bm.publish) /\ IsArchive(bm.archive) /\ IsList(bm.list)
      /\ bm.merged \in SUBSET Levels /\ bm.ledger \in Nat
  BY Zenon DEF ManagerInv, ArchiveInv, FilesInv, ClosingInv
<1>3. seq \in Nat /\ seq # 0
  BY SMT, <1>2
<1>4. done \subseteq Levels
  BY Zenon, <1>2
<1>5. Added(bm.list, list, seq, batch)
  <2> HIDE DEF batch, seq
  <2>1. \A i \in Levels : IsLevel(bm.list[i])
    BY Zenon, <1>2 DEF IsList
  <2> QED BY Zenon, <2>1, <1>3, AddBatch
<1>6. IsTx(tx) /\ tx.stored = st
  <2> HIDE DEF st
  <2> QED BY Zenon DEF IsTx
<1> HIDE DEF seq, batch, list, newly
<1>7. /\ IsList(list) /\ \A x \in allBuckets(list) : x \in allBuckets(bm.list) \/ x \in new
      /\ outputs(list, done) \subseteq outputs(bm.list, bm.merged)
  <2>1. /\ IsList(list)
        /\ \A x \in allBuckets(list) :
              x \in allBuckets(bm.list) \/ \E i \in newly \cup {0} : x = list[i].curr
        /\ outputs(list, bm.merged \ newly) \subseteq outputs(bm.list, bm.merged)
    BY Zenon, <1>2, <1>3, <1>5, NewBuckets DEF newly
  <2> QED BY Zenon, <2>1
<1> HIDE DEF new, done
<1>8. IsList(st) /\ allBuckets(st) \subseteq allBuckets(list) \cup outputs(list, done)
  BY Zenon, <1>7, StateBuckets
<1> HIDE DEF st, tx
<1>9. /\ IsManager(a) /\ a.files = bm.files \cup (new \ {EmptyBucket})
      /\ a.stored = bm.stored /\ a.publish = bm.publish /\ a.archive = bm.archive
  BY Zenon, <1>2, Adopt
<1> HIDE DEF a
<1>10. b \in [ledger : {seq}, list : {list}, merged : {done}, closing : {"stored"},
              files : {a.files}, shared : {a.shared}, stored : {a.stored}, queue : {a.queue},
              tx : {tx}, usage : {a.usage}, filled : {a.filled}, publish : {a.publish},
              posted : {a.posted}, archive : {a.archive}, restarts : {a.restarts}]
  BY Zenon, <1>9 DEF IsManager
<1> HIDE DEF b
<1>11. /\ IsManager(b) /\ b.files = bm.files \cup (new \ {EmptyBucket}) /\ b.merged = done
       /\ b.ledger = seq /\ b.list = list /\ b.closing = "stored"
       /\ b.stored = bm.stored /\ b.tx = tx /\ b.publish = bm.publish /\ b.archive = bm.archive
  BY Zenon, <1>9, <1>10 DEF IsManager
<1>12. ClosingInv(b) /\ IsTx(b.tx) /\ ArchiveInv(b)
  BY Zenon, <1>3, <1>4, <1>6, <1>11 DEF ManagerInv, ClosingInv, ArchiveInv
<1>13. FilesInv(b)
  <2> DEFINE e == EmptyBucket
             o == outputs(bm.list, bm.merged)
             n == outputs(list, done)
             l == allBuckets(bm.list)
             k == allBuckets(list)
  <2>1. IsList(bm.stored) /\ l \cup (o \ {e}) \subseteq bm.files /\ allBuckets(bm.stored) \subseteq bm.files
    BY Zenon DEF ManagerInv, FilesInv
  <2>0. \A x \in k : x # e
    BY Zenon, BucketOfState
  <2> HIDE DEF e, o, n, l, k
  <2>2. /\ \A x \in k : x \in l \/ x \in new
        /\ n \subseteq o /\ b.files = bm.files \cup (new \ {e})
    BY Zenon, <1>7, <1>11 DEF e, o, n, l, k
  <2>3. k \cup (n \ {e}) \subseteq b.files /\ allBuckets(bm.stored) \subseteq b.files
    BY Zenon, <2>0, <2>1, <2>2
  <2>4. allBuckets(st) \subseteq k \cup n
    BY Zenon, <1>8 DEF k, n
  <2>5. "stored" # "committed"
    OBVIOUS
  <2> QED BY Zenon, <2>1, <2>3, <2>4, <2>5, <1>6, <1>7, <1>8, <1>11 DEF FilesInv, Kept, e, n, k
<1>14. ManagerInv(b)
  BY Zenon, <1>11, <1>12, <1>13 DEF ManagerInv
<1>15. ASSUME NEW row PROVE ManagerInv(queueCurrentHistory(b, row))
  <2>1. IsPublish(b.publish) /\ IsTx(b.tx)
    BY Zenon, <1>12, <1>2, <1>11
  <2>2. SameFiles(b, queueCurrentHistory(b, row)) /\ SamePublish(b, queueCurrentHistory(b, row))
    BY Zenon, <1>11, <2>1, QueueCurrent
  <2> QED BY Zenon, <1>14, <2>2, SameKeepsInv
<1> QED BY Zenon, <1>1, <1>14, <1>15

LEMMA NoTxIs == IsTx(NoTx)
BY Zenon DEF IsTx, NoTx

\* What is committed is on disk, and stays as long as the list does.
LEMMA CommitStep ==
    ASSUME ManagerInv(bm), CommitLedger
    PROVE  ManagerInv(bm')
<1> DEFINE t == NoTx
           c == [bm EXCEPT !.closing = "committed", !.stored = bm.tx.stored, !.queue = bm.tx.queue, !.tx = t]
<1>1. bm' = c /\ bm.closing = "stored" /\ IsTx(t)
  BY Zenon, NoTxIs DEF CommitLedger
<1>2. IsManager(bm)
  BY Zenon DEF ManagerInv
<1> HIDE DEF t
<1>3. c \in [ledger : {bm.ledger}, list : {bm.list}, merged : {bm.merged}, closing : {"committed"},
             files : {bm.files}, shared : {bm.shared}, stored : {bm.tx.stored}, queue : {bm.tx.queue},
             tx : {t}, usage : {bm.usage}, filled : {bm.filled}, publish : {bm.publish},
             posted : {bm.posted}, archive : {bm.archive}, restarts : {bm.restarts}]
  BY Zenon, <1>2 DEF IsManager
<1> HIDE DEF c
<1>4. /\ IsManager(c) /\ c.files = bm.files /\ c.merged = bm.merged
      /\ c.ledger = bm.ledger /\ c.list = bm.list /\ c.closing = "committed"
      /\ c.stored = bm.tx.stored /\ c.tx = t /\ c.publish = bm.publish /\ c.archive = bm.archive
  BY Zenon, <1>3 DEF IsManager
<1>5. ClosingInv(c) /\ IsTx(c.tx) /\ ArchiveInv(c)
  <2>1. "committed" # "stored"
    OBVIOUS
  <2> QED BY Zenon, <1>1, <1>4, <2>1 DEF ManagerInv, ClosingInv, ArchiveInv
<1>6. FilesInv(c)
  <2> DEFINE e == EmptyBucket
             o == outputs(bm.list, bm.merged)
             l == allBuckets(bm.list)
             k == allBuckets(bm.tx.stored)
  <2>1. /\ IsList(bm.list) /\ l \cup (o \ {e}) \subseteq bm.files
        /\ IsList(bm.tx.stored) /\ k \subseteq l \cup o
    BY Zenon, <1>1 DEF ManagerInv, FilesInv, Kept
  <2>2. \A x \in k : x # e
    BY Zenon, BucketOfState
  <2> HIDE DEF e, o, l, k
  <2>3. k \subseteq bm.files
    BY Zenon, <2>1, <2>2
  <2>4. "committed" # "stored"
    OBVIOUS
  <2> QED BY Zenon, <2>1, <2>3, <2>4, <1>4 DEF FilesInv, Kept, e, o, l, k
<1> QED BY Zenon, <1>1, <1>4, <1>5, <1>6 DEF ManagerInv

\* Garbage is what neither the list nor its merges need.
LEMMA FinishStep ==
    ASSUME ManagerInv(bm), FinishLedger
    PROVE  ManagerInv(bm')
<1> DEFINE a == publishQueuedHistory(bm)
           b == fillPublishQueueBuckets(a)
           drop == b.shared \ (allBuckets(b.list) \cup DOMAIN b.usage \cup inUse(b))
           s == b.shared \ drop
           f == b.files \ drop
           g == [b EXCEPT !.shared = s, !.files = f]
           c == [g EXCEPT !.closing = "no"]
<1>1. bm' = c /\ bm.closing = "committed"
  BY Zenon DEF FinishLedger, forgetUnreferencedBuckets
<1>2. IsManager(bm) /\ IsTx(bm.tx) /\ IsPublish(bm.publish)
  BY Zenon DEF ManagerInv, ArchiveInv
<1>3. SameFiles(bm, a) /\ SamePublish(bm, a)
  BY Zenon, <1>2, PublishQueued
<1> HIDE DEF a
<1>4. ManagerInv(a) /\ IsManager(a) /\ IsTx(a.tx) /\ IsPublish(a.publish)
  BY Zenon, <1>3, SameKeepsInv DEF SameFiles, SamePublish
<1>5. SameFiles(a, b) /\ SamePublish(a, b)
  BY Zenon, <1>4, FillQueue
<1>6. \A x : x \in drop => x \notin allBuckets(b.list) \cup outputs(b.list, b.merged)
  BY Zenon DEF inUse
<1> HIDE DEF b
<1>7. ManagerInv(b) /\ IsManager(b) /\ b.closing = "committed"
  BY Zenon, <1>1, <1>3, <1>4, <1>5, SameKeepsInv DEF SameFiles
<1> HIDE DEF drop, s
<1>8. \A x : x \in f <=> x \in b.files /\ x \notin drop
  BY Zenon
<1> HIDE DEF f
<1>9. g \in [ledger : {b.ledger}, list : {b.list}, merged : {b.merged}, closing : {b.closing},
             files : {f}, shared : {s}, stored : {b.stored}, queue : {b.queue},
             tx : {b.tx}, usage : {b.usage}, filled : {b.filled}, publish : {b.publish},
             posted : {b.posted}, archive : {b.archive}, restarts : {b.restarts}]
  BY Zenon, <1>7 DEF IsManager
<1> HIDE DEF g
<1>10. c \in [ledger : {b.ledger}, list : {b.list}, merged : {b.merged}, closing : {"no"},
              files : {f}, shared : {s}, stored : {b.stored}, queue : {b.queue},
              tx : {b.tx}, usage : {b.usage}, filled : {b.filled}, publish : {b.publish},
              posted : {b.posted}, archive : {b.archive}, restarts : {b.restarts}]
  BY Zenon, <1>9
<1> HIDE DEF c
<1>11. /\ IsManager(c) /\ c.files = f /\ c.merged = b.merged
       /\ c.ledger = b.ledger /\ c.list = b.list /\ c.closing = "no"
       /\ c.stored = b.stored /\ c.tx = b.tx /\ c.publish = b.publish /\ c.archive = b.archive
  BY Zenon, <1>10 DEF IsManager
<1>12. "no" # "stored" /\ "no" # "committed"
  OBVIOUS
<1>13. ClosingInv(c) /\ IsTx(c.tx) /\ ArchiveInv(c)
  BY Zenon, <1>7, <1>11, <1>12 DEF ManagerInv, ClosingInv, ArchiveInv
<1>14. FilesInv(c)
  <2> DEFINE e == EmptyBucket
             o == outputs(b.list, b.merged)
             l == allBuckets(b.list)
             k == allBuckets(b.stored)
  <2>1. /\ IsList(b.list) /\ l \cup (o \ {e}) \subseteq b.files
        /\ IsList(b.stored) /\ k \subseteq b.files /\ k \subseteq l \cup o
    BY Zenon, <1>7 DEF ManagerInv, FilesInv, Kept
  <2>2. \A x : x \in drop => x \notin l \cup o
    BY Zenon, <1>6
  <2> HIDE DEF e, o, l, k
  <2>3. l \cup (o \ {e}) \subseteq f /\ k \subseteq f
    BY Zenon, <2>1, <2>2, <1>8
  <2> QED BY Zenon, <2>1, <2>3, <1>11, <1>12 DEF FilesInv, e, o, l, k
<1> QED BY Zenon, <1>1, <1>11, <1>13, <1>14 DEF ManagerInv

LEMMA PublishNextStep ==
    ASSUME ManagerInv(bm), PublishNext
    PROVE  ManagerInv(bm')
<1> DEFINE c == [bm EXCEPT !.posted = FALSE]
<1>1. bm' = publishQueuedHistory(c)
  BY Zenon DEF PublishNext
<1>2. IsManager(bm) /\ IsTx(bm.tx) /\ IsPublish(bm.publish)
  BY Zenon DEF ManagerInv, ArchiveInv
<1>3. c \in [ledger : {bm.ledger}, list : {bm.list}, merged : {bm.merged}, closing : {bm.closing},
             files : {bm.files}, shared : {bm.shared}, stored : {bm.stored}, queue : {bm.queue},
             tx : {bm.tx}, usage : {bm.usage}, filled : {bm.filled}, publish : {bm.publish},
             posted : {FALSE}, archive : {bm.archive}, restarts : {bm.restarts}]
  BY Zenon, <1>2 DEF IsManager
<1> HIDE DEF c
<1>4. SameFiles(bm, c) /\ c.publish = bm.publish /\ c.archive = bm.archive
  BY Zenon, <1>2, <1>3 DEF SameFiles, IsManager
<1>5. SamePublish(bm, c) /\ IsManager(c) /\ IsTx(c.tx) /\ IsPublish(c.publish)
  BY Zenon, <1>2, <1>4 DEF SamePublish, SameFiles
<1>6. ManagerInv(c)
  BY Zenon, <1>4, <1>5, SameKeepsInv
<1> QED BY Zenon, <1>1, <1>5, <1>6, PublishQueued, SameKeepsInv

\* Publishing: a state, how far it is, and the archive.
Publishing(p, has, stage) ==
    p \in [on : {TRUE}, ledger : {p.ledger}, has : {has},
           originalBuckets : {p.originalBuckets}, stage : {stage}]

LEMMA PublishingFields ==
    ASSUME NEW p, NEW has, NEW stage, Publishing(p, has, stage)
    PROVE  IsPublish(p) /\ p.has = has /\ p.stage = stage
BY Zenon DEF IsPublish, Publishing

LEMMA PublishingNow ==
    ASSUME ManagerInv(bm), bm.publish.on
    PROVE  Publishing(bm.publish, bm.publish.has, bm.publish.stage)
<1>1. NoPublish.on = FALSE
  BY Zenon DEF NoPublish
<1>2. bm.publish # NoPublish
  BY Zenon, <1>1
<1>3. bm.publish \in [on : {bm.publish.on}, ledger : {bm.publish.ledger}, has : {bm.publish.has},
                      originalBuckets : {bm.publish.originalBuckets}, stage : {bm.publish.stage}]
  BY Zenon, <1>2 DEF ManagerInv, ArchiveInv, IsPublish
<1>4. bm.publish.on = TRUE
  <2>1. IsPublish(bm.publish)
    BY Zenon DEF ManagerInv, ArchiveInv
  <2> QED BY Zenon, <1>2, <2>1 DEF IsPublish
<1> QED BY Zenon, <1>3, <1>4 DEF Publishing

LEMMA ArchiveNow ==
    ASSUME ManagerInv(bm)
    PROVE  /\ IsManager(bm) /\ IsTx(bm.tx) /\ IsArchive(bm.archive) /\ IsPublish(bm.publish)
           /\ archivedBuckets(bm.archive.has) \subseteq bm.archive.buckets
           /\ Sent(bm.publish, bm.archive)
BY Zenon DEF ManagerInv, ArchiveInv

\* The files that the archive's state does not name are sent; the others are there.
LEMMA PutFilesStep ==
    ASSUME ManagerInv(bm), PutFiles
    PROVE  ManagerInv(bm')
<1> DEFINE p == [bm.publish EXCEPT !.stage = "state"]
           x == bm.archive.buckets \cup differingBuckets(bm.publish.has, bm.archive.has)
           a == [bm.archive EXCEPT !.buckets = x]
           c == [bm EXCEPT !.archive.buckets = x, !.publish.stage = "state"]
<1>1. bm' = c /\ bm.publish.on
  BY Zenon DEF PutFiles
<1>2. Publishing(p, bm.publish.has, "state")
  BY Zenon, <1>1, PublishingNow DEF Publishing
<1>3. archivedBuckets(bm.publish.has) \subseteq x /\ archivedBuckets(bm.archive.has) \subseteq x
  BY Zenon, ArchiveNow DEF differingBuckets
<1> HIDE DEF x
<1>4. a \in [has : {bm.archive.has}, buckets : {x}]
  BY Zenon, ArchiveNow DEF IsArchive
<1>5. c \in [ledger : {bm.ledger}, list : {bm.list}, merged : {bm.merged}, closing : {bm.closing},
             files : {bm.files}, shared : {bm.shared}, stored : {bm.stored}, queue : {bm.queue},
             tx : {bm.tx}, usage : {bm.usage}, filled : {bm.filled}, publish : {p},
             posted : {bm.posted}, archive : {a}, restarts : {bm.restarts}]
  BY Zenon, ArchiveNow DEF IsManager
<1> HIDE DEF p, a, c
<1>6. IsPublish(p) /\ p.has = bm.publish.has
  BY SMT, <1>2, PublishingFields
<1>7. IsArchive(a) /\ a.has = bm.archive.has /\ a.buckets = x
  BY Zenon, <1>4 DEF IsArchive
<1>8. SameFiles(bm, c) /\ c.publish = p /\ c.archive = a
  BY Zenon, <1>5, ArchiveNow DEF SameFiles, IsManager
<1>9. ArchiveInv(c)
  BY Zenon, <1>3, <1>6, <1>7, <1>8 DEF Sent, ArchiveInv
<1> QED BY Zenon, <1>1, <1>8, <1>9, SameFilesKeepInv

LEMMA PutStateStep ==
    ASSUME ManagerInv(bm), PutState
    PROVE  ManagerInv(bm')
<1> DEFINE p == [bm.publish EXCEPT !.stage = "done"]
           h == bm.publish.has
           a == [bm.archive EXCEPT !.has = h]
           c == [bm EXCEPT !.archive.has = h, !.publish.stage = "done"]
<1>1. bm' = c /\ bm.publish.on /\ bm.publish.stage = "state"
  BY Zenon DEF PutState
<1>2. Publishing(p, h, "done")
  BY Zenon, <1>1, PublishingNow DEF Publishing
<1>3. archivedBuckets(h) \subseteq bm.archive.buckets
  BY Zenon, <1>1, ArchiveNow DEF Sent
<1>4. a \in [has : {h}, buckets : {bm.archive.buckets}]
  BY Zenon, ArchiveNow DEF IsArchive
<1>5. c \in [ledger : {bm.ledger}, list : {bm.list}, merged : {bm.merged}, closing : {bm.closing},
             files : {bm.files}, shared : {bm.shared}, stored : {bm.stored}, queue : {bm.queue},
             tx : {bm.tx}, usage : {bm.usage}, filled : {bm.filled}, publish : {p},
             posted : {bm.posted}, archive : {a}, restarts : {bm.restarts}]
  BY Zenon, ArchiveNow DEF IsManager
<1> HIDE DEF p, a, c
<1>6. IsPublish(p) /\ p.has = h
  BY SMT, <1>2, PublishingFields
<1>7. IsArchive(a) /\ a.has = h /\ a.buckets = bm.archive.buckets
  BY Zenon, <1>4 DEF IsArchive
<1>8. SameFiles(bm, c) /\ c.publish = p /\ c.archive = a
  BY Zenon, <1>5, ArchiveNow DEF SameFiles, IsManager
<1>9. ArchiveInv(c)
  BY Zenon, <1>3, <1>6, <1>7, <1>8 DEF Sent, ArchiveInv
<1> QED BY Zenon, <1>1, <1>8, <1>9, SameFilesKeepInv

LEMMA ResolveStep ==
    ASSUME ManagerInv(bm), NEW ready, ResolveSnapshot(ready)
    PROVE  ManagerInv(bm')
<1> DEFINE has == resolveAnyReadyFutures(bm.publish.has, ready)
           outs == {has[i].next.output : i \in {j \in Levels : has[j].next.state = "output"}}
           stage == IF futuresAllResolved(has) THEN "files" ELSE bm.publish.stage
           p == [[bm.publish EXCEPT !.has = has] EXCEPT !.stage = stage]
           b == [bm EXCEPT !.publish.has = has, !.publish.stage = stage]
           c == adopt(b, outs)
<1>1. bm' = c /\ bm.publish.on /\ bm.publish.stage = "resolve"
  <2>1. bm' = adopt([bm EXCEPT !.publish.has = has,
                               !.publish.stage = IF futuresAllResolved(has) THEN "files" ELSE @], outs)
    BY Zenon DEF ResolveSnapshot
  <2> HIDE DEF has, outs
  <2>2. [bm EXCEPT !.publish.has = has,
                   !.publish.stage = IF futuresAllResolved(has) THEN "files" ELSE @] = b
    <3>1. [bm.publish EXCEPT !.has = has].stage = bm.publish.stage
      BY Zenon, PublishingNow DEF ResolveSnapshot, Publishing
    <3> QED BY <3>1
  <2> QED BY Zenon, <2>1, <2>2 DEF ResolveSnapshot
<1>2. stage # "state" /\ stage # "done"
  BY SMT, <1>1
<1> HIDE DEF has, outs, stage
<1>3. Publishing(p, has, stage)
  BY Zenon, <1>1, PublishingNow DEF Publishing
<1>4. b \in [ledger : {bm.ledger}, list : {bm.list}, merged : {bm.merged}, closing : {bm.closing},
             files : {bm.files}, shared : {bm.shared}, stored : {bm.stored}, queue : {bm.queue},
             tx : {bm.tx}, usage : {bm.usage}, filled : {bm.filled}, publish : {p},
             posted : {bm.posted}, archive : {bm.archive}, restarts : {bm.restarts}]
  BY Zenon, ArchiveNow DEF IsManager
<1> HIDE DEF p, b
<1>5. IsPublish(p) /\ p.stage = stage
  BY SMT, <1>3, PublishingFields
<1>6. SameFiles(bm, b) /\ b.publish = p /\ b.archive = bm.archive
  BY Zenon, <1>4, ArchiveNow DEF SameFiles, IsManager
<1>7. ArchiveInv(b)
  BY Zenon, <1>2, <1>5, <1>6, ArchiveNow DEF Sent, ArchiveInv
<1>8. ManagerInv(b) /\ IsManager(b)
  BY Zenon, <1>6, <1>7, SameFilesKeepInv DEF SameFiles
<1>9. /\ IsManager(c) /\ c.files = b.files \cup (outs \ {EmptyBucket}) /\ c.merged = b.merged
      /\ c.ledger = b.ledger /\ c.list = b.list /\ c.closing = b.closing
      /\ c.stored = b.stored /\ c.tx = b.tx /\ c.publish = b.publish /\ c.archive = b.archive
  BY SMT, <1>8, Adopt
<1> HIDE DEF c
<1>10. ClosingInv(c) /\ IsTx(c.tx) /\ ArchiveInv(c)
  BY Zenon, <1>8, <1>9 DEF ManagerInv, ClosingInv, ArchiveInv
<1>11. FilesInv(c)
  <2>1. \A S : S \subseteq b.files => S \subseteq c.files
    BY Zenon, <1>9
  <2> QED BY Zenon, <1>8, <1>9, <2>1 DEF ManagerInv, FilesInv, Kept
<1> QED BY Zenon, <1>1, <1>9, <1>10, <1>11 DEF ManagerInv

\* An attempt that fails leaves files, or the state of buckets that were sent.
LEMMA PartlyPut ==
    ASSUME ManagerInv(bm), bm.publish.on, bm.publish.stage \in {"files", "state"},
           NEW archive \in partlyPut(bm.publish.has, bm.publish.stage, bm.archive)
    PROVE  /\ IsArchive(archive) /\ archivedBuckets(archive.has) \subseteq archive.buckets
           /\ bm.archive.buckets \subseteq archive.buckets
<1> DEFINE d == differingBuckets(bm.publish.has, bm.archive.has)
           h == bm.publish.has
<1>1. IsArchive(bm.archive) /\ archivedBuckets(bm.archive.has) \subseteq bm.archive.buckets
  BY Zenon, ArchiveNow
<1>2. CASE bm.publish.stage = "files"
  <2>1. PICK sent \in SUBSET d : archive = [bm.archive EXCEPT !.buckets = bm.archive.buckets \cup sent]
    BY Zenon, <1>2 DEF partlyPut
  <2> DEFINE x == bm.archive.buckets \cup sent
  <2>2. bm.archive.buckets \subseteq x
    BY Zenon
  <2> HIDE DEF x
  <2>3. archive \in [has : {bm.archive.has}, buckets : {x}]
    BY Zenon, <1>1, <2>1 DEF IsArchive, x
  <2>4. IsArchive(archive) /\ archive.has = bm.archive.has /\ archive.buckets = x
    BY Zenon, <2>3 DEF IsArchive
  <2> QED BY Zenon, <1>1, <2>2, <2>4
<1>3. CASE bm.publish.stage = "state"
  <2>1. archive = bm.archive \/ archive = [bm.archive EXCEPT !.has = h]
    <3>1. bm.publish.stage # "files"
      BY SMT, <1>3
    <3> QED BY Zenon, <3>1 DEF partlyPut
  <2>2. CASE archive = bm.archive
    BY Zenon, <1>1, <2>2
  <2>3. CASE archive = [bm.archive EXCEPT !.has = h]
    <3>1. archivedBuckets(h) \subseteq bm.archive.buckets
      BY Zenon, <1>3, ArchiveNow DEF Sent
    <3> HIDE DEF h
    <3>2. archive \in [has : {h}, buckets : {bm.archive.buckets}]
      BY Zenon, <1>1, <2>3 DEF IsArchive
    <3>3. IsArchive(archive) /\ archive.has = h /\ archive.buckets = bm.archive.buckets
      BY Zenon, <3>2 DEF IsArchive
    <3> QED BY Zenon, <3>1, <3>3
  <2> QED BY Zenon, <2>1, <2>2, <2>3
<1> QED BY Zenon, <1>2, <1>3

\* historyPublished ends the attempt.
LEMMA AttemptEnds ==
    ASSUME ManagerInv(bm), NEW archive, IsArchive(archive),
           archivedBuckets(archive.has) \subseteq archive.buckets,
           NEW success
    PROVE  ManagerInv(historyPublished([bm EXCEPT !.archive = archive], success))
<1> DEFINE b == [bm EXCEPT !.archive = archive]
           n == NoPublish
           q == IF success THEN SelectSeq(b.queue, LAMBDA r : r.ledger # b.publish.ledger) ELSE b.queue
           u == IF success THEN removeBuckets(b.usage, b.publish.originalBuckets) ELSE b.usage
           c == [b EXCEPT !.publish = n, !.posted = TRUE, !.queue = q, !.usage = u]
<1>1. historyPublished(b, success) = c
  BY Zenon DEF historyPublished
<1>2. IsPublish(n) /\ n.on = FALSE
  BY Zenon DEF IsPublish, NoPublish
<1>3. b \in [ledger : {bm.ledger}, list : {bm.list}, merged : {bm.merged}, closing : {bm.closing},
             files : {bm.files}, shared : {bm.shared}, stored : {bm.stored}, queue : {bm.queue},
             tx : {bm.tx}, usage : {bm.usage}, filled : {bm.filled}, publish : {bm.publish},
             posted : {bm.posted}, archive : {archive}, restarts : {bm.restarts}]
  BY Zenon, ArchiveNow DEF IsManager
<1> HIDE DEF q, u, n, b
<1>4. c \in [ledger : {bm.ledger}, list : {bm.list}, merged : {bm.merged}, closing : {bm.closing},
             files : {bm.files}, shared : {bm.shared}, stored : {bm.stored}, queue : {q},
             tx : {bm.tx}, usage : {u}, filled : {bm.filled}, publish : {n},
             posted : {TRUE}, archive : {archive}, restarts : {bm.restarts}]
  BY Zenon, <1>3
<1> HIDE DEF c
<1>5. SameFiles(bm, c) /\ c.publish = n /\ c.archive = archive
  BY Zenon, <1>4, ArchiveNow DEF SameFiles, IsManager
<1>6. ArchiveInv(c)
  BY Zenon, <1>2, <1>5 DEF Sent, ArchiveInv
<1>7. ManagerInv(c)
  BY Zenon, <1>5, <1>6, SameFilesKeepInv
<1> QED BY Zenon, <1>1, <1>7 DEF b

LEMMA FailsStep ==
    ASSUME ManagerInv(bm), PublishFails
    PROVE  ManagerInv(bm')
<1>1. /\ bm.publish.on /\ bm.publish.stage \in {"files", "state"}
      /\ \E archive \in partlyPut(bm.publish.has, bm.publish.stage, bm.archive) :
            \/ bm' = [bm EXCEPT !.archive = archive, !.publish.stage = "files"]
            \/ bm' = historyPublished([bm EXCEPT !.archive = archive], FALSE)
  BY Zenon DEF PublishFails
<1>2. PICK a \in partlyPut(bm.publish.has, bm.publish.stage, bm.archive) :
         \/ bm' = [bm EXCEPT !.archive = a, !.publish.stage = "files"]
         \/ bm' = historyPublished([bm EXCEPT !.archive = a], FALSE)
  BY Zenon, <1>1
<1>3. IsArchive(a) /\ archivedBuckets(a.has) \subseteq a.buckets
  BY Zenon, <1>1, PartlyPut
<1>4. CASE bm' = historyPublished([bm EXCEPT !.archive = a], FALSE)
  BY Zenon, <1>3, <1>4, AttemptEnds
<1>5. CASE bm' = [bm EXCEPT !.archive = a, !.publish.stage = "files"]
  <2> DEFINE p == [bm.publish EXCEPT !.stage = "files"]
             c == [bm EXCEPT !.archive = a, !.publish.stage = "files"]
  <2>1. Publishing(p, bm.publish.has, "files")
    BY Zenon, <1>1, PublishingNow DEF Publishing
  <2>2. c \in [ledger : {bm.ledger}, list : {bm.list}, merged : {bm.merged}, closing : {bm.closing},
               files : {bm.files}, shared : {bm.shared}, stored : {bm.stored}, queue : {bm.queue},
               tx : {bm.tx}, usage : {bm.usage}, filled : {bm.filled}, publish : {p},
               posted : {bm.posted}, archive : {a}, restarts : {bm.restarts}]
    BY Zenon, ArchiveNow DEF IsManager
  <2>3. bm' = c
    BY Zenon, <1>5
  <2> HIDE DEF p, c
  <2>4. IsPublish(p) /\ p.stage = "files"
    BY SMT, <2>1, PublishingFields
  <2>5. p.stage # "state" /\ p.stage # "done"
    BY SMT, <2>4
  <2>6. SameFiles(bm, c) /\ c.publish = p /\ c.archive = a
    BY Zenon, <2>2, ArchiveNow DEF SameFiles, IsManager
  <2>7. ArchiveInv(c)
    BY Zenon, <1>3, <2>4, <2>5, <2>6 DEF Sent, ArchiveInv
  <2> QED BY Zenon, <2>3, <2>6, <2>7, SameFilesKeepInv
<1> QED BY Zenon, <1>2, <1>4, <1>5

LEMMA SucceedsStep ==
    ASSUME ManagerInv(bm), PublishSucceeds
    PROVE  ManagerInv(bm')
<1> DEFINE a == bm.archive
           b == [bm EXCEPT !.archive = a]
<1>1. b = bm
  BY Zenon, ArchiveNow DEF IsManager
<1>2. ManagerInv(historyPublished(b, TRUE))
  BY Zenon, ArchiveNow, AttemptEnds
<1> HIDE DEF b
<1> QED BY Zenon, <1>1, <1>2 DEF PublishSucceeds

\* Files that are missing come from the archive; no merge is done any more.
LEMMA ManagerRestartStep ==
    ASSUME ManagerInv(bm), Restart
    PROVE  ManagerInv(bm')
<1> DEFINE needed == allBuckets(bm.stored) \cup UNION {allBuckets(bm.queue[i].has) : i \in DOMAIN bm.queue}
           f == bm.files \cup (needed \ bm.files)
           n == IF bm.closing = "stored" THEN bm.ledger - 1 ELSE bm.ledger
           l == assumeState(bm.stored, [i \in Levels |-> TRUE])
           t == NoTx
           s == allBuckets(bm.stored)
           u == NoUsage
           p == NoPublish
           r == bm.restarts + 1
           c == [bm EXCEPT !.ledger = n, !.list = l, !.merged = {}, !.closing = "no", !.tx = t,
                           !.files = f, !.shared = s, !.usage = u, !.filled = FALSE,
                           !.publish = p, !.posted = FALSE, !.restarts = r]
<1>1. bm' = publishQueuedHistory(c)
  BY Zenon DEF Restart
<1>2. bm.files \subseteq f
  BY Zenon
<1>3. n \in Nat
  <2>1. bm.ledger \in Nat /\ (bm.closing = "stored" => bm.ledger # 0)
    BY Zenon DEF ManagerInv, ClosingInv
  <2> QED BY SMT, <2>1
<1>4. IsList(l) /\ allBuckets(l) \subseteq allBuckets(bm.stored)
  BY Zenon, AssumedBuckets DEF ManagerInv, FilesInv
<1>5. IsTx(t) /\ IsPublish(p) /\ p.on = FALSE
  BY Zenon, NoTxIs DEF IsPublish, NoPublish
<1> HIDE DEF needed, f, n, l, t, s, u, p, r
<1>6. c \in [ledger : {n}, list : {l}, merged : {{}}, closing : {"no"},
             files : {f}, shared : {s}, stored : {bm.stored}, queue : {bm.queue},
             tx : {t}, usage : {u}, filled : {FALSE}, publish : {p},
             posted : {FALSE}, archive : {bm.archive}, restarts : {r}]
  BY Zenon, ArchiveNow DEF IsManager
<1> HIDE DEF c
<1>7. /\ IsManager(c) /\ c.files = f /\ c.merged = {}
      /\ c.ledger = n /\ c.list = l /\ c.closing = "no"
      /\ c.stored = bm.stored /\ c.tx = t /\ c.publish = p /\ c.archive = bm.archive
  BY Zenon, <1>6 DEF IsManager
<1>8. "no" # "stored" /\ "no" # "committed"
  OBVIOUS
<1>9. ClosingInv(c) /\ IsTx(c.tx) /\ ArchiveInv(c)
  BY Zenon, <1>3, <1>5, <1>7, <1>8, ArchiveNow DEF ClosingInv, ArchiveInv, Sent
<1>10. FilesInv(c)
  <2>1. outputs(l, {}) = {}
    BY Zenon DEF outputs
  <2>2. IsList(bm.stored) /\ allBuckets(bm.stored) \subseteq f
    BY Zenon, <1>2 DEF ManagerInv, FilesInv
  <2> QED BY Zenon, <1>4, <1>7, <1>8, <2>1, <2>2 DEF FilesInv
<1>11. ManagerInv(c) /\ IsPublish(c.publish)
  BY Zenon, <1>5, <1>7, <1>9, <1>10 DEF ManagerInv
<1> QED BY Zenon, <1>1, <1>7, <1>9, <1>11, PublishQueued, SameKeepsInv

LEMMA ManagerStarts == ManagerInit => ManagerInv(bm)
<1> SUFFICES ASSUME ManagerInit PROVE ManagerInv(bm)
  OBVIOUS
<1> DEFINE l == Replayed
           a == [has |-> EmptyList, buckets |-> {}]
           t == NoTx
           p == NoPublish
           u == NoUsage
           f == allBuckets(l)
<1>1. IsList(l) /\ IsTx(t) /\ IsPublish(p) /\ p.on = FALSE
  BY Zenon, ReplayedIsList, NoTxIs DEF IsPublish, NoPublish
<1>2. IsArchive(a) /\ archivedBuckets(a.has) \subseteq a.buckets
  <2>1. IsArchive(a) /\ a.has = EmptyList /\ a.buckets = {}
    BY Zenon DEF IsArchive
  <2>2. archivedBuckets(EmptyList) = {}
    <3> DEFINE e == EmptyBucket
               h == EmptyList
    <3>1. ASSUME NEW i \in Levels
          PROVE  h[i].curr = e /\ h[i].snap = e /\ h[i].next.state # "output"
      <4>1. LevelIs(h[i], e, e, ClearFuture)
        BY Zenon DEF EmptyList, LevelIs
      <4>2. h[i].curr = e /\ h[i].snap = e /\ h[i].next = ClearFuture
        BY SMT, <4>1, LevelFields
      <4>3. h[i].next.state = "clear"
        BY Zenon, <4>2, ClearState
      <4> QED BY SMT, <4>2, <4>3
    <3> HIDE DEF e, h
    <3>2. archivedBuckets(h) = {}
      BY Zenon, <3>1 DEF archivedBuckets, e
    <3> QED BY Zenon, <3>2 DEF h
  <2> QED BY Zenon, <2>1, <2>2
<1>3. bm \in [ledger : {FirstLedger}, list : {l}, merged : {{}}, closing : {"no"},
              files : {f}, shared : {f}, stored : {l}, queue : {<< >>}, tx : {t},
              usage : {u}, filled : {TRUE}, publish : {p}, posted : {FALSE},
              archive : {a}, restarts : {0}]
  <2>1. bm = [ledger |-> FirstLedger, list |-> l, merged |-> {}, closing |-> "no",
              files |-> f, shared |-> f, stored |-> l, queue |-> << >>, tx |-> t,
              usage |-> u, filled |-> TRUE, publish |-> p, posted |-> FALSE,
              archive |-> a, restarts |-> 0]
    BY Zenon DEF ManagerInit
  <2> HIDE DEF l, a, t, p, u, f
  <2> QED BY Zenon, <2>1
<1> HIDE DEF l, a, t, p, u, f
<1>4. /\ IsManager(bm) /\ bm.files = f /\ bm.merged = {}
      /\ bm.ledger = FirstLedger /\ bm.list = l /\ bm.closing = "no"
      /\ bm.stored = l /\ bm.tx = t /\ bm.publish = p /\ bm.archive = a
  BY Zenon, <1>3 DEF IsManager
<1>5. "no" # "stored" /\ "no" # "committed"
  OBVIOUS
<1>6. ClosingInv(bm) /\ ArchiveInv(bm)
  BY Zenon, <1>1, <1>2, <1>4, <1>5, FirstLedgerAssumption DEF ClosingInv, ArchiveInv, Sent
<1>7. FilesInv(bm)
  <2>1. outputs(l, {}) = {}
    BY Zenon DEF outputs
  <2> QED BY Zenon, <1>1, <1>4, <1>5, <2>1 DEF FilesInv, f
<1> QED BY Zenon, <1>1, <1>4, <1>6, <1>7 DEF ManagerInv

LEMMA ManagerInductive == ManagerSpec => []ManagerInv(bm)
<1>1. ManagerInit => ManagerInv(bm)
  BY ManagerStarts
<1>2. ManagerInv(bm) /\ [ManagerNext]_bm => ManagerInv(bm)'
  <2> SUFFICES ASSUME ManagerInv(bm), [ManagerNext]_bm PROVE ManagerInv(bm')
    OBVIOUS
  <2>1. CASE UNCHANGED bm
    BY Zenon, <2>1
  <2>2. CASE ManagerNext
    <3>1. ASSUME NEW i \in Levels, MergeComplete(i) PROVE ManagerInv(bm')
      BY Zenon, <3>1, MergeStep
    <3>2. ASSUME NEW ready \in SUBSET Levels, ResolveSnapshot(ready) PROVE ManagerInv(bm')
      BY Zenon, <3>2, ResolveStep
    <3>3. CASE CloseLedger
      BY Zenon, <3>3, CloseStep
    <3>4. CASE CommitLedger
      BY Zenon, <3>4, CommitStep
    <3>5. CASE FinishLedger
      BY Zenon, <3>5, FinishStep
    <3>6. CASE PublishNext
      BY Zenon, <3>6, PublishNextStep
    <3>7. CASE PutFiles
      BY Zenon, <3>7, PutFilesStep
    <3>8. CASE PutState
      BY Zenon, <3>8, PutStateStep
    <3>9. CASE PublishFails
      BY Zenon, <3>9, FailsStep
    <3>10. CASE PublishSucceeds
      BY Zenon, <3>10, SucceedsStep
    <3>11. CASE Restart
      BY Zenon, <3>11, ManagerRestartStep
    <3> QED BY Zenon, <2>2, <3>1, <3>2, <3>3, <3>4, <3>5, <3>6, <3>7, <3>8, <3>9, <3>10, <3>11
                DEF ManagerNext
  <2> QED BY Zenon, <2>1, <2>2
<1> QED BY <1>1, <1>2, PTL DEF ManagerSpec

\* StoredBucketsOnDisk: whatever is merged, published, collected as garbage or
\* interrupted by a crash, every bucket that the committed state names is in
\* the bucket directory.
THEOREM StoredStateStaysOnDisk == ManagerSpec => []StoredBucketsOnDisk
<1>1. ManagerInv(bm) => StoredBucketsOnDisk
  BY Zenon DEF ManagerInv, FilesInv, StoredBucketsOnDisk
<1> QED BY <1>1, ManagerInductive, PTL

\* ArchiveComplete: whatever fails or is sent again, every bucket that the
\* state in the archive names is in the archive.
THEOREM ArchiveStaysComplete == ManagerSpec => []ArchiveComplete
<1>1. ManagerInv(bm) => ArchiveComplete
  BY Zenon DEF ManagerInv, ArchiveInv, ArchiveComplete
<1> QED BY <1>1, ManagerInductive, PTL

=============================================================================
