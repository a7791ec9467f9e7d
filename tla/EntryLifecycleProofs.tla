------------------------ MODULE EntryLifecycleProofs ------------------------
(***************************************************************************)
(* What holds of the entry lifecycle for any set of entries and any        *)
(* bounds: the type invariant, the RUV's agreement with the entries, that  *)
(* a reap never finds an orphaned tombstone, that a tombstone is final and *)
(* outlives the changelog window, and that the recycle bin keeps what is   *)
(* put in it.                                                              *)
(*                                                                         *)
(* First the inductive invariant and the lemmas about one database on      *)
(* which its proof rests: what touching, creating, reloading, trimming and *)
(* reaping entries do to a database that is good.                          *)
(***************************************************************************)
EXTENDS EntryLifecycle, TLAPS

(* The provers to try on a step, in order, and the time each one has. *)
USE ZenonT(5), SMTT(30), SMTT(60), ZenonT(30), SMTT(90)

(***************************************************************************)
(* The inductive invariant.  Each part speaks of one database, whose       *)
(* greatest Cid is top.                                                    *)
(***************************************************************************)

CidsUpTo(es, top) ==
  \A u \in DOMAIN es :
    es[u].lmc <= top /\ \A c \in DOMAIN es[u].log.changes : c <= top

BareTombstones(es) ==
  \A u \in DOMAIN es : "tombstone" \in Class(es, u) => es[u].attrs = TombstoneAttrs

(* What a live entry's reloaded changelog will name is in the RUV. *)
LiveInRuv(es, r, from) ==
  \A u \in DOMAIN es :
    Class(es, u) = {} /\ from <= es[u].lmc => es[u].id \in r[es[u].lmc]

Good(es, r, m, top, from) ==
  /\ Database(es, r, m)
  /\ CidsUpTo(es, top)
  /\ LogsInRuv(es, r, from)
  /\ LiveInRuv(es, r, from)
  /\ NamedUnderTail(es, r)
  /\ UniqueIds(es, m)
  /\ RuvIdsHaveEntries(es, r)
  /\ BareTombstones(es)

(* The transaction has left the committed tombstones alone and made none. *)
Kept(es, ws) ==
  /\ \A u \in DOMAIN ws : "tombstone" \in Class(ws, u) => u \in Tombstones(es)
  /\ \A u \in Tombstones(es) :
       u \in DOMAIN ws /\ ws[u].attrs = es[u].attrs /\ ws[u].lmc = es[u].lmc

Top == IF cid = 0 THEN tsMax ELSE cid

IInv ==
  /\ TypeOK
  /\ Good(entries, ruv, maxId, tsMax, ruvFrom)
  /\ Good(wEntries, wRuv, wMaxId, Top, ruvFrom)
  /\ Kept(entries, wEntries)
  /\ cid # 0 => tsMax < cid
  /\ cid = 0 => wEntries = entries /\ wRuv = ruv /\ wMaxId = maxId
  /\ ruvFrom = 0 \/ ruvFrom <= tsMax - ChangelogAge
  /\ NeverOrphaned

-----------------------------------------------------------------------------
(***************************************************************************)
(* Every operation touches some entries: they keep their id, get the       *)
(* transaction's Cid and one more change.                                  *)
(***************************************************************************)

Touched(es, es2, us, c) ==
  /\ DOMAIN es2 = DOMAIN es
  /\ us \subseteq DOMAIN es
  /\ \A u \in DOMAIN es \ us : es2[u] = es[u]
  /\ \A u \in us :
       /\ es2[u].id = es[u].id
       /\ es2[u].attrs \in Attrs
       /\ es2[u].lmc = c
       /\ es2[u].log.anchorCid = es[u].log.anchorCid
       /\ DOMAIN es2[u].log.changes = DOMAIN es[u].log.changes \cup {c}

(* Write, the backend's modify, touches the entries it is given. *)
LEMMA WriteTouches ==
  ASSUME NEW es, NEW c, NEW us, us \subseteq DOMAIN es,
         NEW attrs \in [us -> Attrs], NEW ts
  PROVE  Touched(es, Write(es, c, attrs, ts), us, c)
BY Zenon DEF Touched, Write, Record

(* Two writes of one transaction, as a delete makes them, touch what either *)
(* touches.                                                                 *)
LEMMA TouchedTwice ==
  ASSUME NEW es, NEW es2, NEW es3, NEW us, NEW vs, NEW c,
         Touched(es, es2, us, c), Touched(es2, es3, vs, c)
  PROVE  Touched(es, es3, us \cup vs, c)
<1>1. ASSUME NEW u \in us \cup vs
      PROVE  /\ es3[u].id = es[u].id
             /\ es3[u].attrs \in Attrs
             /\ es3[u].lmc = c
             /\ es3[u].log.anchorCid = es[u].log.anchorCid
             /\ DOMAIN es3[u].log.changes = DOMAIN es[u].log.changes \cup {c}
  <2>1. CASE u \in us /\ u \in vs
    BY <2>1 DEF Touched
  <2>2. CASE u \in us /\ u \notin vs
    BY <2>2 DEF Touched
  <2>3. CASE u \notin us /\ u \in vs
    BY <2>3 DEF Touched
  <2>4. QED
    BY <2>1, <2>2, <2>3
<1>2. QED
  BY <1>1 DEF Touched

(* Touching entries and inserting their ids in the RUV under the            *)
(* transaction's Cid keeps a database good.                                 *)
LEMMA TouchedGood ==
  ASSUME NEW es, NEW es2, NEW us, NEW r, NEW m, NEW from \in Int,
         NEW top \in Int, NEW c \in Cids, top <= c,
         Good(es, r, m, top, from),
         Touched(es, es2, us, c),
         BareTombstones(es2)
  PROVE  Good(es2, InsertChange(r, c, IdsOf(es2, us)), m, c, from)
<1> DEFINE r2 == InsertChange(r, c, IdsOf(es2, us))
<1>1. /\ Database(es, r, m) /\ CidsUpTo(es, top) /\ LogsInRuv(es, r, from)
      /\ LiveInRuv(es, r, from) /\ NamedUnderTail(es, r)
      /\ UniqueIds(es, m) /\ RuvIdsHaveEntries(es, r)
  BY DEF Good
<1>2. DOMAIN es2 = DOMAIN es /\ us \subseteq DOMAIN es
  BY DEF Touched
<1>3. ASSUME NEW u \in DOMAIN es
      PROVE  es2[u].id = es[u].id
  BY DEF Touched
<1>4. r \in [Cids -> SUBSET Ids]
  BY <1>1 DEF Database
<1>5. /\ r2[c] = r[c] \cup IdsOf(es2, us)
      /\ \A d \in Cids : d # c => r2[d] = r[d]
      /\ \A d \in Cids : r[d] \subseteq r2[d]
  BY <1>4 DEF InsertChange
<1>6. ASSUME NEW u \in DOMAIN es
      PROVE  /\ es[u].id \in Ids /\ es[u].attrs \in Attrs /\ es[u].lmc \in Cids
             /\ es[u].log.anchorCid \in Int /\ DOMAIN es[u].log.changes \subseteq Cids
             /\ es[u].lmc <= top
             /\ \A d \in DOMAIN es[u].log.changes : d <= top
  BY <1>1 DEF Database, Entry, CidsUpTo
<1>7. c \in Int /\ \A d \in Cids : d \in Int
  BY MaxTsAssumption DEF Cids
<1>8. Database(es2, r2, m)
  <2>1. ASSUME NEW u \in DOMAIN es2
        PROVE  Entry(es2[u])
    BY <1>2, <1>3, <1>6 DEF Entry, Touched
  <2>2. IdsOf(es2, us) \subseteq Ids
    BY <1>2, <1>3, <1>6 DEF IdsOf
  <2>3. r2 \in [Cids -> SUBSET Ids]
    BY <2>2, <1>4 DEF InsertChange
  <2>4. QED
    BY <2>1, <2>3, <1>1, <1>2 DEF Database
<1>9. CidsUpTo(es2, c)
  <2>1. ASSUME NEW u \in DOMAIN es2
        PROVE  es2[u].lmc <= c /\ \A d \in DOMAIN es2[u].log.changes : d <= c
    <3>1. \A d \in DOMAIN es[u].log.changes : d <= c
      <4>1. SUFFICES ASSUME NEW d \in DOMAIN es[u].log.changes
                     PROVE  d <= c
        OBVIOUS
      <4>2. d \in Int /\ d <= top
        BY <1>2, <1>6, <1>7, Zenon
      <4>3. QED
        BY <4>2, <1>7
    <3>2. CASE u \in us
      <4>1. es2[u].lmc = c /\ DOMAIN es2[u].log.changes = DOMAIN es[u].log.changes \cup {c}
        BY <3>2 DEF Touched
      <4>2. QED
        BY <4>1, <3>1, <1>7
    <3>3. CASE u \notin us
      <4>1. es2[u] = es[u] /\ es[u].lmc \in Int /\ es[u].lmc <= top
        BY <3>3, <1>2, <1>6, <1>7, Zenon DEF Touched
      <4>2. QED
        BY <4>1, <3>1, <1>7
    <3>4. QED
      BY <3>2, <3>3
  <2>2. QED
    BY <2>1 DEF CidsUpTo
<1>10. LogsInRuv(es2, r2, from)
  <2>1. ASSUME NEW u \in DOMAIN es2, NEW d \in DOMAIN es2[u].log.changes, from <= d
        PROVE  es2[u].id \in r2[d]
    <3>1. CASE u \in us /\ d = c
      BY <3>1, <1>5 DEF IdsOf
    <3>2. CASE d \in DOMAIN es[u].log.changes
      BY <3>2, <2>1, <1>1, <1>2, <1>3, <1>5, <1>6 DEF LogsInRuv
    <3>3. (u \in us /\ d = c) \/ d \in DOMAIN es[u].log.changes
      BY <1>2 DEF Touched
    <3>4. QED
      BY <3>1, <3>2, <3>3
  <2>2. QED
    BY <2>1 DEF LogsInRuv
<1>11. UniqueIds(es2, m)
  BY <1>1, <1>2, <1>3 DEF UniqueIds
<1>12. NamedUnderTail(es2, r2)
  <2>1. ASSUME NEW u \in DOMAIN es2, NEW d \in Cids, es2[u].id \in r2[d]
        PROVE  d <= es2[u].lmc /\ es2[u].id \in r2[es2[u].lmc]
    <3>1. CASE u \in us
      <4>1. es2[u].lmc = c /\ es2[u].id \in r2[c]
        BY <3>1, <1>5 DEF Touched, IdsOf
      <4>2. CASE d = c
        BY <4>1, <4>2, <1>7
      <4>3. CASE d # c
        <5>1. es[u].id \in r[d]
          BY <4>3, <2>1, <1>2, <1>3, <1>5
        <5>2. d <= es[u].lmc
          BY <5>1, <1>1, <1>2 DEF NamedUnderTail
        <5>3. es[u].lmc \in Int /\ es[u].lmc <= top /\ d \in Int
          BY <1>2, <1>6, <1>7, Zenon
        <5>4. QED
          BY <5>2, <5>3, <4>1, <1>7
      <4>4. QED
        BY <4>2, <4>3
    <3>2. CASE u \notin us
      <4>1. es2[u] = es[u]
        BY <3>2, <1>2 DEF Touched
      <4>2. es2[u].id \notin IdsOf(es2, us)
        BY <3>2, <1>2, <1>11 DEF IdsOf, UniqueIds
      <4>3. es[u].id \in r[d]
        BY <4>1, <4>2, <2>1, <1>5
      <4>4. d <= es[u].lmc /\ es[u].id \in r[es[u].lmc]
        BY <4>3, <1>1, <1>2 DEF NamedUnderTail
      <4>5. QED
        BY <4>1, <4>4, <1>2, <1>5, <1>6
    <3>3. QED
      BY <3>1, <3>2
  <2>2. QED
    BY <2>1 DEF NamedUnderTail
<1>13. RuvIdsHaveEntries(es2, r2)
  <2>1. IdsOf(es2, DOMAIN es2) = IdsOf(es, DOMAIN es)
    BY <1>2, <1>3 DEF IdsOf
  <2>2. IdsOf(es2, us) \subseteq IdsOf(es2, DOMAIN es2)
    BY <1>2 DEF IdsOf
  <2>3. QED
    BY <2>1, <2>2, <1>1, <1>5 DEF RuvIdsHaveEntries
<1>14. LiveInRuv(es2, r2, from)
  <2>1. ASSUME NEW u \in DOMAIN es2, Class(es2, u) = {}, from <= es2[u].lmc
        PROVE  es2[u].id \in r2[es2[u].lmc]
    <3>1. CASE u \in us
      BY <3>1, <1>5 DEF Touched, IdsOf
    <3>2. CASE u \notin us
      <4>1. es2[u] = es[u]
        BY <3>2, <1>2 DEF Touched
      <4>2. QED
        BY <4>1, <2>1, <1>1, <1>2, <1>5, <1>6 DEF LiveInRuv, Class
    <3>3. QED
      BY <3>1, <3>2
  <2>2. QED
    BY <2>1 DEF LiveInRuv
<1>15. QED
  BY <1>14, <1>8, <1>9, <1>10, <1>11, <1>12, <1>13 DEF Good

(* Creating an entry under the next id keeps a database good. *)
LEMMA CreateGood ==
  ASSUME NEW es, NEW r, NEW m, NEW from \in Int, NEW c \in Cids,
         Good(es, r, m, c, from), m < MaxId,
         NEW u \in Uuids, u \notin DOMAIN es,
         NEW attrs \in Attrs, attrs.class = {},
         NEW es2,
         es2 = [v \in DOMAIN es \cup {u} |->
                  IF v = u THEN [id |-> m + 1, attrs |-> attrs, lmc |-> c,
                                 log |-> NewLog(c, attrs)]
                  ELSE es[v]]
  PROVE  Good(es2, InsertChange(r, c, IdsOf(es2, {u})), m + 1, c, from)
<1> DEFINE r2 == InsertChange(r, c, IdsOf(es2, {u}))
<1>1. /\ Database(es, r, m) /\ CidsUpTo(es, c) /\ LogsInRuv(es, r, from)
      /\ LiveInRuv(es, r, from) /\ NamedUnderTail(es, r)
      /\ UniqueIds(es, m) /\ RuvIdsHaveEntries(es, r) /\ BareTombstones(es)
  BY DEF Good
<1>2. /\ DOMAIN es2 = DOMAIN es \cup {u}
      /\ \A v \in DOMAIN es : es2[v] = es[v] /\ v # u
      /\ es2[u].id = m + 1 /\ es2[u].attrs = attrs /\ es2[u].lmc = c
      /\ es2[u].log.anchorCid = c /\ DOMAIN es2[u].log.changes = {c}
  BY DEF NewLog
<1>3. m \in 0..MaxId /\ m + 1 \in Ids /\ c \in Int
  BY <1>1, AgeAssumption, MaxTsAssumption DEF Database, Ids, Cids
<1>4. r \in [Cids -> SUBSET Ids]
  BY <1>1 DEF Database
<1>5. IdsOf(es2, {u}) = {m + 1}
  BY <1>2 DEF IdsOf
<1>6. /\ r2[c] = r[c] \cup {m + 1}
      /\ \A d \in Cids : d # c => r2[d] = r[d]
      /\ \A d \in Cids : r[d] \subseteq r2[d]
      /\ r2 \in [Cids -> SUBSET Ids]
  BY <1>3, <1>4, <1>5, Zenon DEF InsertChange
<1>7. ASSUME NEW v \in DOMAIN es
      PROVE  /\ es[v].id \in Int /\ es[v].id <= m /\ es[v].id # m + 1
             /\ es[v].lmc \in Cids /\ DOMAIN es[v].log.changes \subseteq Cids
  BY <1>1, <1>3 DEF Database, Entry, UniqueIds, Ids
<1>8. ASSUME NEW d \in Cids
      PROVE  m + 1 \notin r[d]
  BY <1>1, <1>7 DEF RuvIdsHaveEntries, IdsOf
<1>9. Database(es2, r2, m + 1)
  <2>1. Entry(es2[u])
    BY <1>2, <1>3 DEF Entry
  <2>2. ASSUME NEW v \in DOMAIN es
        PROVE  Entry(es2[v])
    BY <1>1, <1>2 DEF Database
  <2>3. m + 1 \in 0..MaxId
    BY <1>3 DEF Ids
  <2>4. QED
    BY <2>1, <2>2, <2>3, <1>1, <1>2, <1>6, Zenon DEF Database
<1>10. CidsUpTo(es2, c)
  BY <1>1, <1>2, <1>3 DEF CidsUpTo
<1>11. LogsInRuv(es2, r2, from)
  <2>1. ASSUME NEW v \in DOMAIN es2, NEW d \in DOMAIN es2[v].log.changes, from <= d
        PROVE  es2[v].id \in r2[d]
    <3>1. CASE v = u
      BY <3>1, <1>2, <1>6, Zenon
    <3>2. CASE v # u
      BY <3>2, <2>1, <1>1, <1>2, <1>6, <1>7, Zenon DEF LogsInRuv
    <3>3. QED
      BY <3>1, <3>2
  <2>2. QED
    BY <2>1, Zenon DEF LogsInRuv
<1>12. LiveInRuv(es2, r2, from)
  <2>1. ASSUME NEW v \in DOMAIN es2, Class(es2, v) = {}, from <= es2[v].lmc
        PROVE  es2[v].id \in r2[es2[v].lmc]
    <3>1. CASE v = u
      BY <3>1, <1>2, <1>6, Zenon
    <3>2. CASE v # u
      BY <3>2, <2>1, <1>1, <1>2, <1>6, <1>7, Zenon DEF LiveInRuv, Class
    <3>3. QED
      BY <3>1, <3>2
  <2>2. QED
    BY <2>1, Zenon DEF LiveInRuv
<1>13. NamedUnderTail(es2, r2)
  <2>1. ASSUME NEW v \in DOMAIN es2, NEW d \in Cids, es2[v].id \in r2[d]
        PROVE  d <= es2[v].lmc /\ es2[v].id \in r2[es2[v].lmc]
    <3>1. CASE v = u
      <4>1. d = c
        BY <3>1, <2>1, <1>2, <1>6, <1>8, Zenon
      <4>2. es2[v].lmc = c /\ es2[v].id = m + 1
        BY <3>1, <1>2
      <4>3. c <= c
        BY <1>3
      <4>4. QED
        BY <4>1, <4>2, <4>3, <1>6
    <3>2. CASE v # u
      <4>2. v \in DOMAIN es /\ es2[v] = es[v]
        BY <3>2, <1>2
      <4> HIDE DEF r2
      <4>1. es[v].id \in r[d]
        <5>1. es[v].id \in r2[d] /\ es[v].id # m + 1
          BY <4>2, <2>1, <1>7
        <5>2. CASE d = c
          BY <5>1, <5>2, <1>6
        <5>3. CASE d # c
          BY <5>1, <5>3, <1>6
        <5>4. QED
          BY <5>2, <5>3
      <4>3. d <= es[v].lmc /\ es[v].id \in r[es[v].lmc]
        BY <4>1, <4>2, <1>1 DEF NamedUnderTail
      <4>4. es[v].id \in r2[es[v].lmc]
        BY <4>2, <4>3, <1>6, <1>7
      <4>5. QED
        BY <4>2, <4>3, <4>4
    <3>3. QED
      BY <3>1, <3>2
  <2>2. QED
    BY <2>1, Zenon DEF NamedUnderTail
<1>14. UniqueIds(es2, m + 1)
  <2>1. ASSUME NEW v \in DOMAIN es2
        PROVE  es2[v].id <= m + 1
    BY <1>2, <1>3, <1>7
  <2>2. ASSUME NEW v \in DOMAIN es2, NEW w \in DOMAIN es2, es2[v].id = es2[w].id
        PROVE  v = w
    BY <2>2, <1>1, <1>2, <1>7 DEF UniqueIds
  <2>3. QED
    BY <2>1, <2>2, Zenon DEF UniqueIds
<1>15. RuvIdsHaveEntries(es2, r2)
  <2>1. IdsOf(es, DOMAIN es) \cup {m + 1} \subseteq IdsOf(es2, DOMAIN es2)
    BY <1>2 DEF IdsOf
  <2>2. QED
    BY <2>1, <1>1, <1>6, Zenon DEF RuvIdsHaveEntries
<1>16. BareTombstones(es2)
  BY <1>1, <1>2 DEF BareTombstones, Class
<1>17. QED
  BY <1>9, <1>10, <1>11, <1>12, <1>13, <1>14, <1>15, <1>16 DEF Good

(* An entry that is reloaded keeps all but its changelog, which names at    *)
(* most its last_modified_cid, and that only if the entry is live.          *)
LEMMA ReloadKeeps ==
  ASSUME NEW e, Entry(e)
  PROVE  /\ Entry(Reload(e))
         /\ Reload(e).id = e.id /\ Reload(e).attrs = e.attrs /\ Reload(e).lmc = e.lmc
         /\ e.attrs.class = {} => DOMAIN Reload(e).log.changes = {e.lmc}
         /\ e.attrs.class # {} => DOMAIN Reload(e).log.changes = {}
<1>1. Cids \subseteq Int
  BY MaxTsAssumption DEF Cids
<1>2. CASE e.attrs.class = {}
  BY <1>1, <1>2, Zenon DEF Entry, Reload, NewWithoutSchema, NewLog
<1>3. CASE e.attrs.class # {}
  <2>1. "tombstone" \in e.attrs.class \/ "recycled" \in e.attrs.class
    BY <1>3 DEF Entry, Attrs
  <2>2. QED
    BY <1>1, <1>3, <2>1, Zenon DEF Entry, Reload, NewWithoutSchema, NoChanges
<1>4. QED
  BY <1>2, <1>3

(* Reloading some entries, as evictions do, keeps a database good. *)
LEMMA ReloadGood ==
  ASSUME NEW es, NEW r, NEW m, NEW top, NEW from \in Int, Good(es, r, m, top, from),
         NEW us, NEW es2,
         es2 = [v \in DOMAIN es |-> IF v \in us THEN Reload(es[v]) ELSE es[v]]
  PROVE  Good(es2, r, m, top, from)
<1>1. /\ Database(es, r, m) /\ CidsUpTo(es, top) /\ LogsInRuv(es, r, from)
      /\ LiveInRuv(es, r, from) /\ NamedUnderTail(es, r)
      /\ UniqueIds(es, m) /\ RuvIdsHaveEntries(es, r) /\ BareTombstones(es)
  BY DEF Good
<1>2. ASSUME NEW v \in DOMAIN es
      PROVE  /\ Entry(es2[v])
             /\ es2[v].id = es[v].id /\ es2[v].attrs = es[v].attrs /\ es2[v].lmc = es[v].lmc
             /\ \/ es2[v] = es[v]
                \/ DOMAIN es2[v].log.changes = {es[v].lmc} /\ Class(es, v) = {}
                \/ DOMAIN es2[v].log.changes = {}
  <2>1. Entry(es[v])
    BY <1>1 DEF Database
  <2>2. CASE v \in us
    BY <2>1, <2>2, ReloadKeeps DEF Class
  <2>3. CASE v \notin us
    BY <2>1, <2>3
  <2>4. QED
    BY <2>2, <2>3
<1>3. DOMAIN es2 = DOMAIN es
  OBVIOUS
<1>4. Database(es2, r, m)
  BY <1>1, <1>2, <1>3 DEF Database
<1>5. CidsUpTo(es2, top)
  BY <1>1, <1>2, <1>3 DEF CidsUpTo
<1>6. LogsInRuv(es2, r, from)
  BY <1>1, <1>2, <1>3 DEF LogsInRuv, LiveInRuv
<1>7. LiveInRuv(es2, r, from)
  BY <1>1, <1>2, <1>3 DEF LiveInRuv, Class
<1>8. NamedUnderTail(es2, r)
  BY <1>1, <1>2, <1>3 DEF NamedUnderTail
<1>9. UniqueIds(es2, m)
  BY <1>1, <1>2, <1>3 DEF UniqueIds
<1>10. RuvIdsHaveEntries(es2, r)
  BY <1>1, <1>2, <1>3 DEF RuvIdsHaveEntries, IdsOf
<1>11. BareTombstones(es2)
  BY <1>1, <1>2, <1>3 DEF BareTombstones, Class
<1>12. QED
  BY <1>4, <1>5, <1>6, <1>7, <1>8, <1>9, <1>10, <1>11 DEF Good

(* Backend::new: reloading every entry, rebuilding the RUV from them and    *)
(* taking the greatest stored id gives a good database.                     *)
LEMMA RestartGood ==
  ASSUME NEW es, NEW r, NEW m, NEW top, NEW from \in Int, Good(es, r, m, top, from),
         NEW es2, es2 = [v \in DOMAIN es |-> Reload(es[v])],
         NEW m2 \in StoredMaxId(es)
  PROVE  Good(es2, Rebuild(es2), m2, top, 0)
<1> DEFINE r2 == Rebuild(es2)
<1>1. /\ Database(es, r, m) /\ CidsUpTo(es, top)
      /\ UniqueIds(es, m) /\ BareTombstones(es)
  BY DEF Good
<1>2. ASSUME NEW v \in DOMAIN es
      PROVE  /\ Entry(es[v]) /\ Entry(es2[v])
             /\ es2[v].id = es[v].id /\ es2[v].attrs = es[v].attrs /\ es2[v].lmc = es[v].lmc
             /\ Class(es, v) = {} => DOMAIN es2[v].log.changes = {es[v].lmc}
             /\ Class(es, v) # {} => DOMAIN es2[v].log.changes = {}
  <2>1. Entry(es[v])
    BY <1>1 DEF Database
  <2>2. QED
    BY <2>1, ReloadKeeps DEF Class
<1>3. DOMAIN es2 = DOMAIN es
  OBVIOUS
<1>4. Cids \subseteq Int
  BY MaxTsAssumption DEF Cids
<1>5. ASSUME NEW d \in Cids, NEW i
      PROVE  i \in r2[d] <=> \E v \in DOMAIN es2 : d \in DOMAIN es2[v].log.changes /\ i = es2[v].id
  BY DEF Rebuild
<1>6. \A v, w \in DOMAIN es2 : es2[v].id = es2[w].id => v = w
  BY <1>1, <1>2, <1>3 DEF UniqueIds
<1>7. Database(es2, r2, m2)
  <2>1. r2 \in [Cids -> SUBSET Ids]
    BY <1>2, <1>3 DEF Rebuild, Entry
  <2>2. m2 \in 0..MaxId
    BY <1>2, AgeAssumption DEF StoredMaxId, IdsOf, Entry, Ids
  <2>3. QED
    BY <2>1, <2>2, <1>1, <1>2, <1>3 DEF Database
<1>8. CidsUpTo(es2, top)
  BY <1>1, <1>2, <1>3 DEF CidsUpTo
<1>9. LogsInRuv(es2, r2, 0)
  <2>1. ASSUME NEW v \in DOMAIN es2, NEW d \in DOMAIN es2[v].log.changes
        PROVE  es2[v].id \in r2[d]
    BY <1>2, <1>3, <1>5 DEF Entry
  <2>2. QED
    BY <2>1 DEF LogsInRuv
<1>10. LiveInRuv(es2, r2, 0)
  <2>1. ASSUME NEW v \in DOMAIN es2, Class(es2, v) = {}
        PROVE  es2[v].id \in r2[es2[v].lmc]
    BY <2>1, <1>2, <1>3, <1>5 DEF Entry, Class
  <2>2. QED
    BY <2>1 DEF LiveInRuv
<1>11. NamedUnderTail(es2, r2)
  <2>1. ASSUME NEW v \in DOMAIN es2, NEW d \in Cids, es2[v].id \in r2[d]
        PROVE  d <= es2[v].lmc /\ es2[v].id \in r2[es2[v].lmc]
    <3>1. d \in DOMAIN es2[v].log.changes
      BY <2>1, <1>5, <1>6
    <3>2. d = es2[v].lmc
      BY <3>1, <1>2, <1>3
    <3>3. d <= d
      BY <1>4
    <3>4. QED
      BY <3>2, <3>3, <2>1
  <2>2. QED
    BY <2>1 DEF NamedUnderTail
<1>12. UniqueIds(es2, m2)
  <2>1. ASSUME NEW v \in DOMAIN es2
        PROVE  es2[v].id <= m2
    BY <1>2, <1>3 DEF StoredMaxId, IdsOf
  <2>2. QED
    BY <2>1, <1>6 DEF UniqueIds
<1>13. RuvIdsHaveEntries(es2, r2)
  BY <1>5 DEF RuvIdsHaveEntries, IdsOf
<1>14. BareTombstones(es2)
  BY <1>1, <1>2, <1>3 DEF BareTombstones, Class
<1>15. QED
  BY <1>7, <1>8, <1>9, <1>10, <1>11, <1>12, <1>13, <1>14 DEF Good

(* What a trim leaves of an entry's changelog. *)
LEMMA TrimKeeps ==
  ASSUME NEW c \in Int, NEW u \in DOMAIN entries
  PROVE  /\ Trimmed(c)[u].id = entries[u].id
         /\ Trimmed(c)[u].attrs = entries[u].attrs
         /\ Trimmed(c)[u].lmc = entries[u].lmc
         /\ u \notin Affected(c) => Trimmed(c)[u] = entries[u]
         /\ u \in Affected(c) =>
              /\ Trimmed(c)[u].log.anchorCid = c
              /\ DOMAIN Trimmed(c)[u].log.changes =
                   {d \in DOMAIN entries[u].log.changes : c <= d}
BY DEF Trimmed, TrimUpTo

(* A purge that succeeds keeps the database good. *)
LEMMA TrimGood ==
  ASSUME NEW top \in Int, NEW c \in Int, tsMax \in Int, ruvFrom \in Int, tsMax <= top,
         Good(entries, ruv, maxId, tsMax, ruvFrom),
         ruvFrom = 0 \/ ruvFrom <= c,
         ~ReapStale(c)
  PROVE  Good([u \in DOMAIN entries \ Reaped(c) |-> Trimmed(c)[u]],
              RuvTrimmed(ruv, c), maxId, top, c)
<1> DEFINE es2 == [u \in DOMAIN entries \ Reaped(c) |-> Trimmed(c)[u]]
           r2  == RuvTrimmed(ruv, c)
<1>1. /\ Database(entries, ruv, maxId) /\ CidsUpTo(entries, tsMax)
      /\ LogsInRuv(entries, ruv, ruvFrom) /\ LiveInRuv(entries, ruv, ruvFrom)
      /\ NamedUnderTail(entries, ruv) /\ UniqueIds(entries, maxId)
      /\ RuvIdsHaveEntries(entries, ruv) /\ BareTombstones(entries)
  BY DEF Good
<1>2. /\ DOMAIN es2 = DOMAIN entries \ Reaped(c)
      /\ \A u \in DOMAIN es2 : es2[u] = Trimmed(c)[u]
  OBVIOUS
<1>3. ASSUME NEW u \in DOMAIN es2
      PROVE  /\ es2[u].id = entries[u].id /\ es2[u].attrs = entries[u].attrs
             /\ es2[u].lmc = entries[u].lmc
             /\ es2[u].log.anchorCid \in Int
             /\ DOMAIN es2[u].log.changes \subseteq DOMAIN entries[u].log.changes
  <2>1. u \in DOMAIN entries /\ es2[u] = Trimmed(c)[u]
    BY <1>2
  <2>2. Entry(entries[u])
    BY <2>1, <1>1 DEF Database
  <2> HIDE DEF es2
  <2>3. QED
    BY <2>1, <2>2, TrimKeeps DEF Entry
<1>4. /\ ruv \in [Cids -> SUBSET Ids] /\ r2 \in [Cids -> SUBSET Ids]
      /\ \A d \in Cids : c <= d => r2[d] = ruv[d]
      /\ \A d \in Cids : d < c => r2[d] = {}
  BY <1>1, MaxTsAssumption DEF Database, RuvTrimmed, Cids
<1>5. ASSUME NEW u \in DOMAIN entries
      PROVE  /\ entries[u].id \in Ids /\ entries[u].attrs \in Attrs
             /\ entries[u].lmc \in Cids /\ entries[u].lmc <= tsMax
             /\ DOMAIN entries[u].log.changes \subseteq Cids
             /\ \A d \in DOMAIN entries[u].log.changes : d <= tsMax
  BY <1>1 DEF Database, Entry, CidsUpTo
<1>6. \A d \in Cids : d \in Int /\ (c <= d => ruvFrom <= d)
  BY MaxTsAssumption DEF Cids
<1>7. \A d \in Cids : \A i \in r2[d] : c <= d /\ i \in ruv[d]
  BY <1>4, <1>6
<1>8. Database(es2, r2, maxId)
  BY <1>1, <1>2, <1>3, <1>4, <1>5 DEF Database, Entry
<1>9. CidsUpTo(es2, top)
  <2>1. ASSUME NEW u \in DOMAIN es2
        PROVE  es2[u].lmc <= top
    BY <1>2, <1>3, <1>5, <1>6
  <2>2. ASSUME NEW u \in DOMAIN es2, NEW d \in DOMAIN es2[u].log.changes
        PROVE  d <= top
    <3>1. d \in Int /\ d <= tsMax
      BY <1>2, <1>3, <1>5, <1>6
    <3>2. QED
      BY <3>1
  <2>3. QED
    BY <2>1, <2>2 DEF CidsUpTo
<1>10. LogsInRuv(es2, r2, c)
  <2>1. ASSUME NEW u \in DOMAIN es2, NEW d \in DOMAIN es2[u].log.changes, c <= d
        PROVE  es2[u].id \in r2[d]
    <3>1. d \in Cids /\ d \in DOMAIN entries[u].log.changes /\ u \in DOMAIN entries
      BY <1>2, <1>3, <1>5
    <3>2. entries[u].id \in ruv[d]
      BY <3>1, <2>1, <1>1, <1>6 DEF LogsInRuv
    <3>3. QED
      BY <3>1, <3>2, <2>1, <1>3, <1>4
  <2>2. QED
    BY <2>1 DEF LogsInRuv
<1>11. LiveInRuv(es2, r2, c)
  <2>1. ASSUME NEW u \in DOMAIN es2, Class(es2, u) = {}, c <= es2[u].lmc
        PROVE  es2[u].id \in r2[es2[u].lmc]
    <3>1. entries[u].lmc \in Cids /\ u \in DOMAIN entries /\ Class(entries, u) = {}
      BY <2>1, <1>2, <1>3, <1>5 DEF Class
    <3>2. c <= entries[u].lmc
      BY <2>1, <1>3
    <3>3. entries[u].id \in ruv[entries[u].lmc]
      BY <3>1, <3>2, <1>1, <1>6 DEF LiveInRuv
    <3>4. QED
      BY <3>1, <3>2, <3>3, <1>3, <1>4
  <2>2. QED
    BY <2>1, Zenon DEF LiveInRuv
<1>12. NamedUnderTail(es2, r2)
  <2>1. ASSUME NEW u \in DOMAIN es2, NEW d \in Cids, es2[u].id \in r2[d]
        PROVE  d <= es2[u].lmc /\ es2[u].id \in r2[es2[u].lmc]
    <3>1. u \in DOMAIN entries /\ c <= d /\ entries[u].id \in ruv[d]
      BY <2>1, <1>2, <1>3, <1>7
    <3>2. d <= entries[u].lmc /\ entries[u].id \in ruv[entries[u].lmc]
      BY <3>1, <1>1 DEF NamedUnderTail
    <3>3. entries[u].lmc \in Cids /\ c <= entries[u].lmc
      <4>1. entries[u].lmc \in Int /\ d \in Int
        BY <3>1, <1>5, <1>6
      <4>2. QED
        BY <4>1, <3>1, <3>2, <1>5
    <3>4. QED
      BY <3>2, <3>3, <1>3, <1>4
  <2>2. QED
    BY <2>1 DEF NamedUnderTail
<1>13. UniqueIds(es2, maxId)
  <2>1. \A u \in DOMAIN es2 : u \in DOMAIN entries /\ es2[u].id = entries[u].id
    BY <1>2, <1>3
  <2> HIDE DEF es2
  <2>2. QED
    BY <2>1, <1>1 DEF UniqueIds
<1>14. RuvIdsHaveEntries(es2, r2)
  <2>1. ASSUME NEW d \in Cids, NEW i \in r2[d]
        PROVE  i \in IdsOf(es2, DOMAIN es2)
    <3>1. c <= d /\ i \in ruv[d]
      BY <1>7
    <3>2. PICK u \in DOMAIN entries : i = entries[u].id
      BY <3>1, <1>1 DEF RuvIdsHaveEntries, IdsOf
    <3>3. u \notin Reaped(c)
      <4>1. i \in RuvIdls(RuvTrimmed(ruv, c))
        BY DEF RuvIdls
      <4>2. QED
        BY <4>1, <3>2 DEF ReapStale
    <3>4. u \in DOMAIN es2 /\ i = es2[u].id
      BY <3>2, <3>3, <1>2, <1>3
    <3>5. QED
      BY <3>4 DEF IdsOf
  <2>2. QED
    BY <2>1 DEF RuvIdsHaveEntries
<1>15. BareTombstones(es2)
  BY <1>1, <1>2, <1>3 DEF BareTombstones, Class
<1>16. QED
  BY <1>8, <1>9, <1>10, <1>11, <1>12, <1>13, <1>14, <1>15 DEF Good

(* A good database leaves reap_tombstones no orphan. *)
LEMMA NoOrphans ==
  ASSUME NEW c \in Int, ruvFrom \in Int,
         Good(entries, ruv, maxId, tsMax, ruvFrom),
         ruvFrom = 0 \/ ruvFrom <= c
  PROVE  ~ReapOrphans(c)
<1>1. SUFFICES ASSUME NEW u \in Affected(c) \ Reaped(c),
                      ~IsLive(Trimmed(c)[u].log),
                      entries[u].id \notin RuvIdls(RuvTrimmed(ruv, c))
               PROVE  FALSE
  BY DEF ReapOrphans
<1>2. u \in DOMAIN entries
  BY DEF Affected
<1>3. DOMAIN Trimmed(c)[u].log.changes # {}
  BY <1>1 DEF Reaped, CanDelete
<1>4. PICK d \in DOMAIN entries[u].log.changes : c <= d
  BY <1>2, <1>3, TrimKeeps
<1>5. d \in Cids /\ d \in Int /\ ruvFrom <= d
  <2>1. d \in Cids
    BY <1>2 DEF Good, Database, Entry
  <2>2. QED
    BY <2>1, <1>4, MaxTsAssumption DEF Cids
<1>6. entries[u].id \in ruv[d]
  BY <1>2, <1>5 DEF Good, LogsInRuv
<1>7. entries[u].id \in RuvIdls(RuvTrimmed(ruv, c))
  BY <1>4, <1>5, <1>6 DEF RuvIdls, RuvTrimmed
<1>8. QED
  BY <1>1, <1>7

(* A good database lets reap_tombstones remove only what its window has     *)
(* passed.                                                                  *)
LEMMA ReapedIsOld ==
  ASSUME NEW c \in Int, Good(entries, ruv, maxId, tsMax, ruvFrom), ~ReapStale(c),
         NEW u \in Reaped(c)
  PROVE  entries[u].lmc < c
<1>1. u \in DOMAIN entries /\ u \in Affected(c)
  BY DEF Reaped, Affected
<1>2. PICK d \in Cids : entries[u].id \in ruv[d]
  BY <1>1 DEF Affected, RuvBefore
<1>3. entries[u].lmc \in Cids /\ entries[u].id \in ruv[entries[u].lmc]
  BY <1>1, <1>2 DEF Good, NamedUnderTail, Database, Entry
<1>4. entries[u].lmc \in Int
  BY <1>3, MaxTsAssumption DEF Cids
<1>5. ASSUME c <= entries[u].lmc
      PROVE  FALSE
  <2>1. entries[u].id \in RuvIdls(RuvTrimmed(ruv, c))
    BY <1>3, <1>4, <1>5 DEF RuvIdls, RuvTrimmed
  <2>2. QED
    BY <2>1 DEF ReapStale
<1>6. QED
  BY <1>4, <1>5


-----------------------------------------------------------------------------
(***************************************************************************)
(* An operation of the open transaction that touches no tombstone and      *)
(* makes none keeps the invariant.                                         *)
(***************************************************************************)

(* An operation that touches entries which are not tombstones keeps the invariant. *)
LEMMA OpPreserves ==
  ASSUME IInv, cid # 0, NEW us,
         Touched(wEntries, wEntries', us, cid),
         \A u \in us : /\ "tombstone" \notin Class(wEntries, u)
                       /\ "tombstone" \notin Class(wEntries', u),
         wRuv' = InsertChange(wRuv, cid, IdsOf(wEntries', us)),
         entries' = entries, ruv' = ruv, maxId' = maxId, tsMax' = tsMax,
         wMaxId' = wMaxId, cid' = cid, purger' = purger, ruvFrom' = ruvFrom,
         ops' \in 0..MaxOps, groupAffect' \subseteq Uuids,
         dmMods' \in [Uuids -> SUBSET Uuids]
  PROVE  IInv'
<1>1. /\ TypeOK /\ Good(wEntries, wRuv, wMaxId, Top, ruvFrom)
      /\ Good(entries, ruv, maxId, tsMax, ruvFrom)
      /\ Kept(entries, wEntries)
  BY DEF IInv
<1>2. /\ cid \in Cids /\ cid \in Int /\ Top = cid /\ Top' = cid
      /\ ruvFrom \in Int
  BY <1>1, MaxTsAssumption DEF TypeOK, Cids, Top
<1>3. BareTombstones(wEntries')
  BY <1>1, Zenon DEF Good, BareTombstones, Touched, Class
<1>4. Good(wEntries', wRuv', wMaxId', cid, ruvFrom)
  <2>1. cid <= cid
    BY <1>2
  <2>2. QED
    BY <1>1, <1>2, <1>3, <2>1, TouchedGood
<1>5. Kept(entries, wEntries')
  BY <1>1 DEF Kept, Touched, Tombstones, Class
<1>6. TypeOK'
  BY <1>1, <1>4 DEF TypeOK, Good
<1>7. Good(wEntries, wRuv, wMaxId, Top, ruvFrom)'
  BY <1>2, <1>4
<1>8. Good(entries, ruv, maxId, tsMax, ruvFrom)'
  BY <1>1
<1>9. Kept(entries, wEntries)'
  BY <1>5
<1>10. /\ (cid # 0 => tsMax < cid)'
       /\ (cid = 0 => wEntries = entries /\ wRuv = ruv /\ wMaxId = maxId)'
       /\ (ruvFrom = 0 \/ ruvFrom <= tsMax - ChangelogAge)'
       /\ NeverOrphaned'
  BY DEF IInv, NeverOrphaned
<1>11. QED
  BY <1>6, <1>7, <1>8, <1>9, <1>10 DEF IInv

(* What is live or recycled is not a tombstone. *)
LEMMA NotTombstones ==
  ASSUME NEW es, BareTombstones(es), NEW u \in Live(es) \cup Recycled(es)
  PROVE  u \in DOMAIN es /\ "tombstone" \notin Class(es, u)
BY DEF BareTombstones, Live, Recycled, Class, TombstoneAttrs

(* The members of entries are uuids. *)
LEMMA MembersType ==
  ASSUME NEW es, NEW us, us \subseteq DOMAIN es, \A u \in us : es[u].attrs \in Attrs
  PROVE  Members(es, us) \subseteq Uuids
BY DEF Members, Attrs

(* modify_apply on entries that are not tombstones. *)
LEMMA ModifyApplyPreserves ==
  ASSUME IInv, cid # 0, NEW us, us \subseteq DOMAIN wEntries,
         NEW attrs \in [us -> Attrs], NEW ts,
         \A u \in us : /\ "tombstone" \notin Class(wEntries, u)
                       /\ "tombstone" \notin attrs[u].class,
         ModifyApply(us, attrs, ts),
         UNCHANGED <<committed, wMaxId, cid, purger, ruvFrom>>,
         ops' \in 0..MaxOps, dmMods' \in [Uuids -> SUBSET Uuids]
  PROVE  IInv'
<1>1. Touched(wEntries, Write(wEntries, cid, attrs, ts), us, cid)
  BY WriteTouches
<1>2. /\ wEntries' = Write(wEntries, cid, attrs, ts)
      /\ wRuv' = InsertChange(wRuv, cid, IdsOf(wEntries', us))
      /\ groupAffect' = us \cup Members(wEntries, us) \cup Members(wEntries', us)
  BY DEF ModifyApply, Put, AffectedByModify
<1>3. \A u \in us : "tombstone" \notin Class(wEntries', u)
  BY <1>2 DEF Write, Class
<1>4. groupAffect' \subseteq Uuids
  <2>1. us \subseteq Uuids /\ \A u \in us : wEntries[u].attrs \in Attrs
    BY DEF IInv, TypeOK, Database, Entry
  <2>2. us \subseteq DOMAIN wEntries' /\ \A u \in us : wEntries'[u].attrs \in Attrs
    BY <1>1, <1>2 DEF Touched
  <2>3. Members(wEntries, us) \subseteq Uuids /\ Members(wEntries', us) \subseteq Uuids
    BY <2>1, <2>2, MembersType
  <2>4. QED
    BY <1>2, <2>1, <2>3
<1>5. QED
  BY <1>1, <1>2, <1>3, <1>4, OpPreserves DEF committed

(* Every modification keeps the attributes well-typed and the classes. *)
LEMMA ModifiedType ==
  ASSUME NEW attrs \in Attrs, NEW m \in Mods
  PROVE  Modified(attrs, m) \in Attrs /\ Modified(attrs, m).class = attrs.class
<1>1. CASE m = ModifyPurge("member")
  BY <1>1 DEF ModifyPurge, Modified, Attrs
<1>2. ASSUME NEW v \in Uuids, m = ModifyPresent("member", {v})
      PROVE  Modified(attrs, m) \in Attrs /\ Modified(attrs, m).class = attrs.class
  BY <1>2 DEF ModifyPresent, Modified, Attrs
<1>3. ASSUME NEW v \in Uuids, m = ModifyRemoved("member", {v})
      PROVE  Modified(attrs, m) \in Attrs /\ Modified(attrs, m).class = attrs.class
  BY <1>3 DEF ModifyRemoved, Modified, Attrs
<1>4. ASSUME NEW v \in Uuids, m = ModifyAssert("member", {v})
      PROVE  Modified(attrs, m) \in Attrs /\ Modified(attrs, m).class = attrs.class
  BY <1>4 DEF ModifyAssert, Modified, Attrs
<1>5. QED
  BY <1>1, <1>2, <1>3, <1>4, ModsAssumption, Zenon DEF MemberMods

-----------------------------------------------------------------------------
(***************************************************************************)
(* One lemma for each action of an open transaction.                       *)
(***************************************************************************)

(* What every action of an open transaction may use of the invariant. *)
LEMMA WorkingFacts ==
  ASSUME IInv
  PROVE  /\ DOMAIN wEntries \subseteq Uuids
         /\ \A u \in DOMAIN wEntries : wEntries[u].attrs \in Attrs
         /\ BareTombstones(wEntries)
         /\ ops \in 0..MaxOps /\ MaxOps \in Nat
         /\ groupAffect \subseteq Uuids
         /\ dmMods \in [Uuids -> SUBSET Uuids]
         /\ cid \in 0..MaxTs /\ MaxTs \in Nat
BY AgeAssumption, MaxTsAssumption, Zenon DEF IInv, TypeOK, Good, Database, Entry

(* One turn of apply_memberof's loop keeps the invariant. *)
LEMMA StripePreserves ==
  ASSUME IInv, Stripe
  PROVE  IInv'
<1> DEFINE workSet == groupAffect \cap Live(wEntries)
           changed == {u \in workSet : DoMemberOf(wEntries, u) # wEntries[u].attrs}
           attrs   == [u \in changed |-> DoMemberOf(wEntries, u)]
           ts      == [u \in changed |-> MemberOfTransitions(attrs[u])]
<1>1. /\ cid # 0
      /\ wEntries' = Write(wEntries, cid, attrs, ts)
      /\ wRuv' = InsertChange(wRuv, cid, IdsOf(wEntries', changed))
      /\ groupAffect' = Members(wEntries, changed)
      /\ UNCHANGED <<entries, ruv, maxId, tsMax, wMaxId, cid, ops, dmMods, purger, ruvFrom>>
  BY DEF Stripe, Put, committed
<1>2. changed \subseteq Live(wEntries) /\ changed \subseteq DOMAIN wEntries
  BY DEF Live
<1>3. \A u \in changed : /\ DoMemberOf(wEntries, u) \in Attrs
                         /\ DoMemberOf(wEntries, u).class = wEntries[u].attrs.class
  <2>1. TAKE u \in changed
  <2>2. wEntries[u].attrs \in Attrs
    BY <1>2, WorkingFacts
  <2>3. GroupsOf(wEntries, u) \subseteq Uuids
    BY WorkingFacts DEF GroupsOf, Live
  <2>4. UNION {wEntries[g].attrs.memberof : g \in GroupsOf(wEntries, u)} \subseteq Uuids
    <3>1. \A g \in GroupsOf(wEntries, u) : wEntries[g].attrs.memberof \subseteq Uuids
      BY WorkingFacts DEF GroupsOf, Live, Attrs
    <3>2. QED
      BY <3>1
  <2>5. QED
    BY <2>2, <2>3, <2>4, Zenon DEF DoMemberOf, Attrs
<1>4. attrs \in [changed -> Attrs]
  BY <1>3
<1>5. Touched(wEntries, wEntries', changed, cid)
  BY <1>1, <1>2, <1>4, WriteTouches
<1>6. \A u \in changed : /\ "tombstone" \notin Class(wEntries, u)
                         /\ "tombstone" \notin Class(wEntries', u)
  <2>1. \A u \in changed : "tombstone" \notin Class(wEntries, u)
    BY <1>2, NotTombstones, WorkingFacts
  <2>2. \A u \in changed : Class(wEntries', u) = Class(wEntries, u)
    BY <1>1, <1>2, <1>3, Zenon DEF Write, Class
  <2>3. QED
    BY <2>1, <2>2
<1>7. groupAffect' \subseteq Uuids
  BY <1>1, <1>2, WorkingFacts, MembersType
<1>8. ops' \in 0..MaxOps /\ dmMods' \in [Uuids -> SUBSET Uuids]
  BY <1>1, WorkingFacts
<1> HIDE DEF changed
<1>9. QED
  BY <1>1, <1>5, <1>6, <1>7, <1>8, OpPreserves

(* An operation runs in an open transaction and counts itself. *)
LEMMA OperationType ==
  ASSUME IInv, Operation
  PROVE  cid # 0 /\ ops' \in 0..MaxOps
BY WorkingFacts DEF Operation, Ready

(* modify keeps the invariant. *)
LEMMA ModifyPreserves ==
  ASSUME IInv, NEW us, NEW m \in Mods, Modify(us, m)
  PROVE  IInv'
<1> DEFINE attrs == [u \in us |-> Modified(wEntries[u].attrs, m)]
           ts    == [u \in us |-> <<m>>]
<1>1. /\ us \subseteq Live(wEntries) /\ us \subseteq DOMAIN wEntries
      /\ ModifyApply(us, attrs, ts)
      /\ UNCHANGED <<committed, wMaxId, cid, purger, ruvFrom>>
      /\ dmMods' \in [Uuids -> SUBSET Uuids]
      /\ Operation
  BY WorkingFacts, Zenon DEF Modify, Live
<1>2. \A u \in us : attrs[u] \in Attrs /\ attrs[u].class = Class(wEntries, u)
  BY <1>1, WorkingFacts, ModifiedType DEF Class
<1>3. \A u \in us : "tombstone" \notin Class(wEntries, u)
  BY <1>1, NotTombstones, WorkingFacts
<1>4. attrs \in [us -> Attrs]
  BY <1>2
<1>5. \A u \in us : "tombstone" \notin attrs[u].class
  BY <1>2, <1>3
<1> HIDE DEF attrs, ts
<1>6. QED
  BY <1>1, <1>3, <1>4, <1>5, OperationType, ModifyApplyPreserves

(* revive_recycled, up to its modify_apply, keeps the invariant. *)
LEMMA ReviveEntriesPreserves ==
  ASSUME IInv, NEW us, ReviveEntries(us)
  PROVE  IInv'
<1> DEFINE attrs == [u \in us |-> [wEntries[u].attrs EXCEPT !.class = @ \ {"recycled"}]]
           ts    == [u \in us |-> <<ModifyRemoved("class", {"recycled"}), Revive>>]
<1>1. /\ us \subseteq Recycled(wEntries) /\ us \subseteq DOMAIN wEntries
      /\ ModifyApply(us, attrs, ts)
      /\ UNCHANGED <<committed, wMaxId, cid, purger, ruvFrom>>
      /\ dmMods' = [g \in Uuids |-> {u \in us : g \in wEntries[u].attrs.directmemberof}]
      /\ Operation
  BY DEF ReviveEntries, Recycled
<1>2. dmMods' \in [Uuids -> SUBSET Uuids]
  BY <1>1, WorkingFacts
<1>3. \A u \in us : attrs[u] \in Attrs /\ attrs[u].class \subseteq Class(wEntries, u)
  BY <1>1, WorkingFacts, Zenon DEF Attrs, Class
<1>4. \A u \in us : "tombstone" \notin Class(wEntries, u)
  BY <1>1, NotTombstones, WorkingFacts
<1>5. attrs \in [us -> Attrs]
  BY <1>3
<1>6. \A u \in us : "tombstone" \notin attrs[u].class
  BY <1>3, <1>4
<1> HIDE DEF attrs, ts
<1>7. QED
  BY <1>1, <1>2, <1>4, <1>5, <1>6, OperationType, ModifyApplyPreserves

(* Restoring the members of one group after a revive keeps the invariant. *)
LEMMA ReviveMembershipPreserves ==
  ASSUME IInv, NEW g \in Uuids, ReviveMembership(g)
  PROVE  IInv'
<1>1. /\ cid # 0 /\ dmMods' = [dmMods EXCEPT ![g] = {}]
      /\ UNCHANGED <<committed, wMaxId, cid, ops, purger, ruvFrom>>
  BY DEF ReviveMembership
<1>2. ops' \in 0..MaxOps /\ dmMods' \in [Uuids -> SUBSET Uuids]
  BY <1>1, WorkingFacts
<1>3. CASE g \in DOMAIN wEntries
  <2> DEFINE attrs == [u \in {g} |-> [wEntries[g].attrs EXCEPT !.member = @ \cup dmMods[g]]]
             ts    == [u \in {g} |-> <<ModifyPresent("member", dmMods[g])>>]
  <2>1. g \in Live(wEntries) /\ ModifyApply({g}, attrs, ts)
    BY <1>3 DEF ReviveMembership
  <2>2. attrs[g] \in Attrs /\ attrs[g].class = Class(wEntries, g)
    BY <1>3, WorkingFacts DEF Attrs, Class
  <2>3. "tombstone" \notin Class(wEntries, g)
    BY <2>1, NotTombstones, WorkingFacts
  <2>4. attrs \in [{g} -> Attrs]
    BY <2>2
  <2>5. "tombstone" \notin attrs[g].class
    BY <2>2, <2>3
  <2>6. \A u \in {g} : "tombstone" \notin Class(wEntries, u) /\ "tombstone" \notin attrs[u].class
    BY <2>3, <2>5
  <2>7. {g} \subseteq DOMAIN wEntries
    BY <1>3
  <2> HIDE DEF attrs, ts
  <2>8. QED
    BY <1>1, <1>2, <2>1, <2>4, <2>6, <2>7, ModifyApplyPreserves
<1>4. CASE g \notin DOMAIN wEntries
  <2>1. UNCHANGED <<wEntries, wRuv, groupAffect>>
    BY <1>4 DEF ReviveMembership
  <2>2. UNCHANGED <<entries, ruv, maxId, tsMax, wMaxId, cid, ops, purger, ruvFrom>>
    BY <1>1 DEF committed
  <2>3. TypeOK'
    BY <1>2, <2>1, <2>2 DEF IInv, TypeOK
  <2>4. Top' = Top
    BY <2>2 DEF Top
  <2>5. QED
    BY <2>1, <2>2, <2>3, <2>4 DEF IInv, NeverOrphaned
<1>5. QED
  BY <1>3, <1>4

(* The entries that refer to something are not tombstones, so refint's      *)
(* clean-up leaves the tombstones alone.                                    *)
LEMMA DeletePreserves ==
  ASSUME IInv, NEW us, Delete(us)
  PROVE  IInv'
<1> DEFINE toRecycled == [u \in us |-> [wEntries[u].attrs EXCEPT !.class = {"recycled"}]]
           recycled == Write(wEntries, cid, toRecycled, [u \in us |-> RecycleTransitions])
           referrers == Referrers(recycled, us)
           cleaned == [u \in referrers |->
                         [recycled[u].attrs EXCEPT !.member = @ \ us,
                                                   !.memberof = @ \ us,
                                                   !.directmemberof = @ \ us]]
           removal == <<ModifyRemoved("member", us), ModifyRemoved("memberof", us),
                        ModifyRemoved("directmemberof", us)>>
           final == Write(recycled, cid, cleaned, [u \in referrers |-> removal])
<1>1. /\ us \subseteq Live(wEntries) /\ us \subseteq DOMAIN wEntries
      /\ wEntries' = final
      /\ wRuv' = InsertChange(wRuv, cid, IdsOf(wEntries', us \cup referrers))
      /\ groupAffect' = Members(recycled, us)
      /\ UNCHANGED <<entries, ruv, maxId, tsMax, wMaxId, cid, dmMods, purger, ruvFrom>>
      /\ Operation
  BY Zenon DEF Delete, Live, Put, committed
<1>2. \A u \in us : toRecycled[u] \in Attrs /\ toRecycled[u].class = {"recycled"}
  BY <1>1, WorkingFacts, Zenon DEF Attrs
<1>3. toRecycled \in [us -> Attrs]
  BY <1>2
<1>4. Touched(wEntries, recycled, us, cid)
  <2> HIDE DEF toRecycled
  <2>1. QED
    BY <1>1, <1>3, WriteTouches, Zenon
<1>5. /\ DOMAIN recycled = DOMAIN wEntries
      /\ \A u \in DOMAIN recycled : recycled[u].attrs \in Attrs
      /\ \A u \in DOMAIN recycled : u \notin us => recycled[u] = wEntries[u]
      /\ \A u \in us : Class(recycled, u) = {"recycled"}
  <2>1. \A u \in us : recycled[u].attrs = toRecycled[u]
    BY <1>1, Zenon DEF Write
  <2>2. \A u \in us : Class(recycled, u) = {"recycled"}
    BY <2>1, <1>2, Zenon DEF Class
  <2>3. QED
    BY <2>2, <1>4, WorkingFacts, Zenon DEF Touched
<1>6. BareTombstones(recycled)
  <2>1. SUFFICES ASSUME NEW u \in DOMAIN recycled, "tombstone" \in Class(recycled, u)
                 PROVE  recycled[u].attrs = TombstoneAttrs
    BY DEF BareTombstones
  <2>2. u \notin us
    BY <2>1, <1>5
  <2>3. QED
    BY <2>1, <2>2, <1>5, WorkingFacts DEF BareTombstones, Class
<1> HIDE DEF toRecycled, recycled
<1>7. /\ referrers \subseteq DOMAIN recycled
      /\ \A u \in referrers : "tombstone" \notin Class(recycled, u)
  <2>1. referrers \subseteq DOMAIN recycled
    BY DEF Referrers
  <2>2. ASSUME NEW u \in referrers, "tombstone" \in Class(recycled, u)
        PROVE  FALSE
    <3>1. recycled[u].attrs = TombstoneAttrs
      BY <2>1, <2>2, <1>6 DEF BareTombstones
    <3>2. References(recycled[u]) = {}
      BY <3>1 DEF References, TombstoneAttrs
    <3>3. References(recycled[u]) \cap us # {}
      BY DEF Referrers
    <3>4. QED
      BY <3>2, <3>3
  <2>3. QED
    BY <2>1, <2>2
<1>8. \A u \in referrers : cleaned[u] \in Attrs /\ cleaned[u].class = Class(recycled, u)
  <2>1. ASSUME NEW u \in referrers
        PROVE  cleaned[u] \in Attrs /\ cleaned[u].class = recycled[u].attrs.class
    <3>1. recycled[u].attrs \in Attrs
      BY <1>5, <1>7
    <3> HIDE DEF referrers
    <3>2. QED
      BY <3>1, Zenon DEF Attrs
  <2>2. QED
    BY <2>1, Zenon DEF Class
<1>9. cleaned \in [referrers -> Attrs]
  BY <1>8, Zenon
<1>10. \A u \in referrers : final[u].attrs = cleaned[u]
  BY <1>7, Zenon DEF Write
<1> HIDE DEF referrers, cleaned, removal
<1>11. Touched(recycled, final, referrers, cid)
  BY <1>7, <1>9, WriteTouches
<1>12. Touched(wEntries, wEntries', us \cup referrers, cid)
  BY <1>1, <1>4, <1>11, TouchedTwice
<1>13. \A u \in us \cup referrers : "tombstone" \notin Class(wEntries, u)
  <2>1. \A u \in us : "tombstone" \notin Class(wEntries, u)
    BY <1>1, WorkingFacts, NotTombstones
  <2>2. QED
    BY <2>1, <1>5, <1>7 DEF Class
<1>14. \A u \in us \cup referrers : "tombstone" \notin Class(wEntries', u)
  <2>1. \A u \in referrers : "tombstone" \notin Class(final, u)
    BY <1>7, <1>8, <1>10 DEF Class
  <2>2. \A u \in us : u \notin referrers => final[u] = recycled[u]
    BY <1>1, <1>5, <1>11 DEF Touched
  <2>3. \A u \in us : u \notin referrers => "tombstone" \notin Class(final, u)
    <3>1. \A u \in us : "tombstone" \notin Class(recycled, u)
      BY <1>5
    <3>2. QED
      BY <3>1, <2>2 DEF Class
  <2>4. QED
    BY <1>1, <2>1, <2>3
<1>15. groupAffect' \subseteq Uuids
  BY <1>1, <1>5, MembersType, Zenon
<1>16. dmMods' \in [Uuids -> SUBSET Uuids] /\ cid # 0 /\ ops' \in 0..MaxOps
  BY <1>1, WorkingFacts, OperationType
<1> HIDE DEF final
<1>17. QED
  BY <1>1, <1>12, <1>13, <1>14, <1>15, <1>16, OpPreserves, Zenon

(* create, with a new id, keeps the invariant. *)
LEMMA CreatePreserves ==
  ASSUME IInv, NEW u \in Uuids, NEW members \in SUBSET Uuids, CreateEntry(u, members)
  PROVE  IInv'
<1> DEFINE attrs == [class |-> {}, member |-> members, memberof |-> {}, directmemberof |-> {}]
           es    == [v \in DOMAIN wEntries \cup {u} |->
                       IF v = u THEN [id |-> wMaxId + 1, attrs |-> attrs, lmc |-> cid,
                                      log |-> NewLog(cid, attrs)]
                       ELSE wEntries[v]]
<1>1. /\ wEntries' = es /\ wRuv' = InsertChange(wRuv, cid, IdsOf(es, {u}))
      /\ wMaxId' = wMaxId + 1 /\ wMaxId < MaxId /\ u \notin DOMAIN wEntries
      /\ groupAffect' = {u} \cup members
      /\ UNCHANGED <<entries, ruv, maxId, tsMax, cid, dmMods, purger, ruvFrom>>
      /\ Operation
  BY DEF CreateEntry, Put, committed
<1>2. attrs \in Attrs /\ attrs.class = {}
  BY DEF Attrs
<1>3. cid # 0 /\ ops' \in 0..MaxOps
  BY <1>1, OperationType, Zenon
<1>4. cid \in Cids /\ cid \in Int /\ Top = cid /\ Top' = cid /\ ruvFrom \in Int
  <2>1. cid \in 0..MaxTs /\ MaxTs \in Nat /\ ruvFrom \in Int
    BY WorkingFacts DEF IInv, TypeOK
  <2>2. Top = cid /\ Top' = cid
    BY <1>1, <1>3, Zenon DEF Top
  <2>3. cid \in Cids /\ cid \in Int
    BY <1>3, <2>1 DEF Cids
  <2> QED
    BY <2>1, <2>2, <2>3
<1>5. Good(wEntries, wRuv, wMaxId, cid, ruvFrom)
  BY <1>4 DEF IInv
<1> HIDE DEF attrs
<1>6. Good(es, InsertChange(wRuv, cid, IdsOf(es, {u})), wMaxId + 1, cid, ruvFrom)
  <2>1. wMaxId < MaxId /\ u \notin DOMAIN wEntries
    BY <1>1, Zenon
  <2>2. es = [v \in DOMAIN wEntries \cup {u} |->
                IF v = u THEN [id |-> wMaxId + 1, attrs |-> attrs, lmc |-> cid,
                               log |-> NewLog(cid, attrs)]
                ELSE wEntries[v]]
    BY Zenon
  <2>3. cid \in Cids /\ cid <= cid /\ cid \in Int /\ ruvFrom \in Int
    BY <1>4
  <2> HIDE DEF es
  <2> QED
    BY ZenonT(60), <1>2, <1>5, <2>1, <2>2, <2>3, CreateGood
<1>7. Good(wEntries, wRuv, wMaxId, Top, ruvFrom)'
  BY <1>1, <1>4, <1>6, Zenon
<1>8. TypeOK'
  BY <1>1, <1>3, <1>7, WorkingFacts, Zenon DEF IInv, TypeOK, Good
<1>9. Kept(entries, wEntries')
  BY <1>1, <1>2, Zenon DEF IInv, Kept, Tombstones, Class
<1>10. QED
  BY <1>1, <1>7, <1>8, <1>9, <1>3 DEF IInv, NeverOrphaned

-----------------------------------------------------------------------------
(***************************************************************************)
(* Transactions, purges, evictions and restarts.                           *)
(***************************************************************************)

(* new_lamport is later than every committed Cid, whatever the clock says. *)
LEMMA LamportIsLater ==
  ASSUME TypeOK, NEW ct \in Cids, NewLamport(ct) <= MaxTs
  PROVE  NewLamport(ct) \in Cids /\ NewLamport(ct) \in Int /\ tsMax < NewLamport(ct)
BY MaxTsAssumption DEF TypeOK, NewLamport, Cids

(* A later greatest Cid does no harm. *)
LEMMA GoodLater ==
  ASSUME NEW es, NEW r, NEW m, NEW top \in Int, NEW from, Good(es, r, m, top, from),
         NEW top2 \in Int, top <= top2
  PROVE  Good(es, r, m, top2, from)
<1>1. \A u \in DOMAIN es : es[u].lmc \in Int /\ \A c \in DOMAIN es[u].log.changes : c \in Int
  <2>1. \A u \in DOMAIN es : Entry(es[u])
    BY DEF Good, Database
  <2>2. \A c \in Cids : c \in Int
    BY MaxTsAssumption DEF Cids
  <2>3. QED
    BY <2>1, <2>2 DEF Entry
<1>2. CidsUpTo(es, top)
  BY DEF Good
<1>3. ASSUME NEW u \in DOMAIN es
      PROVE  es[u].lmc <= top2
  <2>1. es[u].lmc \in Int
    BY <1>1
  <2>2. es[u].lmc <= top
    BY Zenon, <1>2 DEF CidsUpTo
  <2>3. QED
    BY <2>1, <2>2
<1>4. ASSUME NEW u \in DOMAIN es, NEW c \in DOMAIN es[u].log.changes
      PROVE  c <= top2
  <2>1. c \in Int
    BY <1>1
  <2>2. c <= top
    BY Zenon, <1>2 DEF CidsUpTo
  <2>3. QED
    BY <2>1, <2>2
<1>5. CidsUpTo(es, top2)
  BY <1>3, <1>4 DEF CidsUpTo
<1>6. QED
  BY <1>5 DEF Good

(* A database keeps its own tombstones. *)
LEMMA KeptSelf == \A es : Kept(es, es)
BY DEF Kept, Tombstones

(* Between transactions the working copy is the committed one, so one good  *)
(* database is all there is to show.                                        *)
LEMMA IdlePreserves ==
  ASSUME TypeOK',
         Good(entries, ruv, maxId, tsMax, ruvFrom)',
         cid' = 0, wEntries' = entries', wRuv' = ruv', wMaxId' = maxId',
         ruvFrom' = 0 \/ ruvFrom' <= tsMax' - ChangelogAge,
         NeverOrphaned'
  PROVE  IInv'
<1>1. Top' = tsMax'
  BY DEF Top
<1>2. Good(wEntries, wRuv, wMaxId, Top, ruvFrom)'
  BY <1>1
<1>3. Kept(entries, wEntries)'
  BY KeptSelf
<1>4. QED
  BY <1>2, <1>3 DEF IInv

(* Opening a write transaction keeps the invariant. *)
LEMMA BeginPreserves ==
  ASSUME IInv, NEW ct \in Cids, Begin(ct)
  PROVE  IInv'
<1>1. /\ cid = 0 /\ cid' = NewLamport(ct) /\ NewLamport(ct) <= MaxTs /\ ops' = 0
      /\ UNCHANGED <<entries, ruv, maxId, tsMax, wEntries, wRuv, wMaxId,
                     groupAffect, dmMods, purger, ruvFrom>>
  BY DEF Begin, committed, working, pending
<1>2. TypeOK /\ tsMax \in Int
  BY DEF IInv, TypeOK
<1>3. cid' \in Cids /\ cid' \in Int /\ tsMax < cid' /\ cid' # 0
  BY <1>1, <1>2, LamportIsLater, MaxTsAssumption DEF Cids
<1>4. Good(wEntries, wRuv, wMaxId, tsMax, ruvFrom)
  BY <1>1 DEF IInv, Top
<1>5. Good(wEntries, wRuv, wMaxId, cid', ruvFrom)
  BY <1>2, <1>3, <1>4, GoodLater
<1>6. Good(wEntries, wRuv, wMaxId, Top, ruvFrom)'
  BY <1>1, <1>3, <1>5 DEF Top
<1>7. TypeOK'
  <2>1. ops' \in 0..MaxOps /\ cid' \in 0..MaxTs
    BY <1>1, <1>3, AgeAssumption, MaxTsAssumption DEF Cids
  <2>2. QED
    BY <2>1, <1>1, <1>2 DEF TypeOK
<1>8. Kept(entries, wEntries)'
  BY <1>1 DEF IInv
<1>9. QED
  BY <1>1, <1>3, <1>6, <1>7, <1>8 DEF IInv, NeverOrphaned

(* Committing the write transaction keeps the invariant. *)
LEMMA CommitPreserves ==
  ASSUME IInv, Commit
  PROVE  IInv'
<1>1. /\ entries' = wEntries /\ ruv' = wRuv /\ maxId' = wMaxId /\ tsMax' = cid
      /\ cid # 0 /\ cid' = 0 /\ ops' = 0
      /\ UNCHANGED <<wEntries, wRuv, wMaxId, groupAffect, dmMods, purger, ruvFrom>>
  BY DEF Commit, Ready, working, pending
<1>2. Good(entries, ruv, maxId, tsMax, ruvFrom)'
  BY <1>1 DEF IInv, Top
<1>3. TypeOK'
  <2>1. ops' \in 0..MaxOps /\ cid' \in 0..MaxTs
    BY <1>1, AgeAssumption, MaxTsAssumption
  <2>2. QED
    BY <2>1, <1>1 DEF IInv, TypeOK
<1>4. ruvFrom' = 0 \/ ruvFrom' <= tsMax' - ChangelogAge
  <2>1. /\ tsMax \in Int /\ cid \in Int /\ ruvFrom \in Int /\ ChangelogAge \in Int
        /\ tsMax < cid
        /\ ruvFrom = 0 \/ ruvFrom <= tsMax - ChangelogAge
    BY <1>1, AgeAssumption, MaxTsAssumption DEF IInv, TypeOK
  <2>2. QED
    BY <1>1, <2>1
<1>5. NeverOrphaned'
  BY <1>1 DEF IInv, NeverOrphaned
<1>6. QED
  BY <1>1, <1>2, <1>3, <1>4, <1>5, IdlePreserves

(* Dropping the write transaction keeps the invariant. *)
LEMMA AbortPreserves ==
  ASSUME IInv, Abort
  PROVE  IInv'
<1>1. /\ wEntries' = entries /\ wRuv' = ruv /\ wMaxId' = maxId
      /\ cid' = 0 /\ ops' = 0 /\ groupAffect' = {} /\ dmMods' = NoMods
      /\ UNCHANGED <<entries, ruv, maxId, tsMax, purger, ruvFrom>>
  BY DEF Abort, committed
<1>2. TypeOK'
  <2>1. /\ ops' \in 0..MaxOps /\ cid' \in 0..MaxTs
        /\ dmMods' \in [Uuids -> SUBSET Uuids]
    BY <1>1, AgeAssumption, MaxTsAssumption DEF NoMods
  <2>2. QED
    BY <2>1, <1>1 DEF IInv, TypeOK
<1>3. Good(entries, ruv, maxId, tsMax, ruvFrom)'
  BY <1>1 DEF IInv
<1>4. NeverOrphaned' /\ (ruvFrom' = 0 \/ ruvFrom' <= tsMax' - ChangelogAge)
  BY <1>1 DEF IInv, NeverOrphaned
<1>5. QED
  BY <1>1, <1>2, <1>3, <1>4, IdlePreserves

(* purge_recycled keeps the invariant. *)
LEMMA PurgeRecycledPreserves ==
  ASSUME IInv, NEW ct \in Cids, PurgeRecycled(ct)
  PROVE  IInv'
<1> DEFINE c  == NewLamport(ct)
           us == PurgeCandidates(c)
           attrs == [u \in us |-> TombstoneAttrs]
           es == Write(entries, c, attrs, [u \in us |-> <<Tombstone(TombstoneAttrs)>>])
<1>1. /\ cid = 0 /\ cid' = 0 /\ c <= MaxTs
      /\ entries' = es /\ ruv' = InsertChange(ruv, c, IdsOf(es, us)) /\ tsMax' = c
      /\ wEntries' = entries' /\ wRuv' = ruv' /\ maxId' = maxId /\ wMaxId' = wMaxId
      /\ purger' = "tombstones"
      /\ UNCHANGED <<ops, groupAffect, dmMods, ruvFrom>>
  BY DEF PurgeRecycled, Idle, CommitPurge, pending
<1>2. /\ TypeOK /\ tsMax \in Int /\ ruvFrom \in Int
      /\ Good(entries, ruv, maxId, tsMax, ruvFrom) /\ wMaxId = maxId
  BY <1>1 DEF IInv, TypeOK
<1>3. c \in Cids /\ c \in Int /\ tsMax < c /\ tsMax <= c
  BY <1>1, <1>2, LamportIsLater
<1> HIDE DEF c
<1>4. us \subseteq DOMAIN entries
  BY DEF PurgeCandidates, Recycled
<1>5. TombstoneAttrs \in Attrs
  BY DEF TombstoneAttrs, Attrs
<1>6. attrs \in [us -> Attrs]
  BY <1>5
<1>7. /\ \A u \in us : es[u].attrs = TombstoneAttrs
      /\ DOMAIN es = DOMAIN entries
      /\ \A u \in DOMAIN entries \ us : es[u] = entries[u]
  BY <1>4, Zenon DEF Write
<1> HIDE DEF us, attrs
<1>8. Touched(entries, es, us, c)
  BY <1>4, <1>6, WriteTouches
<1> HIDE DEF es
<1>9. BareTombstones(es)
  BY <1>2, <1>7, Zenon DEF Good, BareTombstones, Class
<1>10. Good(entries, ruv, maxId, tsMax, ruvFrom)'
  BY <1>1, <1>2, <1>3, <1>8, <1>9, TouchedGood
<1>11. TypeOK'
  <2>1. Database(entries, ruv, maxId)'
    BY <1>10 DEF Good
  <2>2. Database(wEntries, wRuv, wMaxId)'
    BY <2>1, <1>1, <1>2
  <2>3. tsMax' \in 0..MaxTs
    BY <1>1, <1>3, MaxTsAssumption DEF Cids
  <2>4. QED
    BY <2>1, <2>2, <2>3, <1>1, <1>2 DEF TypeOK
<1>12. ruvFrom' = 0 \/ ruvFrom' <= tsMax' - ChangelogAge
  <2>1. ruvFrom = 0 \/ ruvFrom <= tsMax - ChangelogAge
    BY DEF IInv
  <2>2. QED
    BY <2>1, <1>1, <1>2, <1>3, AgeAssumption
<1>13. NeverOrphaned'
  BY <1>1 DEF NeverOrphaned
<1>14. QED
  BY <1>1, <1>2, <1>10, <1>11, <1>12, <1>13, IdlePreserves

(* The bound of a purge is not before the bound of the one before it. *)
LEMMA BoundsAdvance ==
  ASSUME IInv, NEW ct \in Cids, NewLamport(ct) <= MaxTs
  PROVE  /\ NewLamport(ct) - ChangelogAge \in Int
         /\ ruvFrom \in Int /\ tsMax \in Int
         /\ ruvFrom = 0 \/ ruvFrom <= NewLamport(ct) - ChangelogAge
<1>1. /\ TypeOK /\ tsMax \in Int /\ ruvFrom \in Int
      /\ ruvFrom = 0 \/ ruvFrom <= tsMax - ChangelogAge
  BY DEF IInv, TypeOK
<1>2. NewLamport(ct) \in Int /\ tsMax < NewLamport(ct)
  BY <1>1, LamportIsLater
<1>3. QED
  BY <1>1, <1>2, AgeAssumption

(* purge_tombstones, failing or not, keeps the invariant and finds no orphan. *)
LEMMA PurgeTombstonesPreserves ==
  ASSUME IInv, NEW ct \in Cids, PurgeTombstones(ct)
  PROVE  IInv'
<1> DEFINE c == NewLamport(ct) - ChangelogAge
           failed == ReapPanics(c) \/ ReapOrphans(c) \/ ReapStale(c)
<1>1. cid = 0 /\ NewLamport(ct) <= MaxTs
  BY Zenon DEF PurgeTombstones, TrimCid, Idle
<1>2. /\ TypeOK /\ Good(entries, ruv, maxId, tsMax, ruvFrom)
      /\ wEntries = entries /\ wRuv = ruv /\ wMaxId = maxId
  BY <1>1 DEF IInv
<1>3. /\ c \in Int /\ ruvFrom \in Int /\ tsMax \in Int
      /\ ruvFrom = 0 \/ ruvFrom <= c
  BY <1>1, BoundsAdvance
<1>4. CASE /\ failed
           /\ purger' = ReapFailure(c)
           /\ UNCHANGED <<committed, working, cid, ops, pending, ruvFrom>>
  <2>1. ~ReapOrphans(c)
    BY <1>2, <1>3, NoOrphans
  <2>2. purger' \in {"trim_panic", "ruv_stale"}
    BY <1>4, <2>1 DEF ReapFailure
  <2>3. UNCHANGED <<entries, ruv, maxId, tsMax, wEntries, wRuv, wMaxId, cid, ops,
                    groupAffect, dmMods, ruvFrom>>
    BY <1>4 DEF committed, working, pending
  <2>4. TypeOK'
    BY <1>2, <2>2, <2>3 DEF TypeOK
  <2>5. NeverOrphaned'
    BY <2>2 DEF NeverOrphaned
  <2>6. Good(entries, ruv, maxId, tsMax, ruvFrom)'
    BY <1>2, <2>3
  <2>7. ruvFrom' = 0 \/ ruvFrom' <= tsMax' - ChangelogAge
    BY <2>3 DEF IInv
  <2>8. QED
    BY <1>1, <1>2, <2>3, <2>4, <2>5, <2>6, <2>7, IdlePreserves
<1>5. CASE /\ ~failed
           /\ CommitPurge([u \in DOMAIN entries \ Reaped(c) |-> Trimmed(c)[u]],
                          RuvTrimmed(ruv, c), NewLamport(ct))
           /\ purger' = "recycled"
           /\ ruvFrom' = c
  <2>1. /\ entries' = [u \in DOMAIN entries \ Reaped(c) |-> Trimmed(c)[u]]
        /\ ruv' = RuvTrimmed(ruv, c) /\ tsMax' = NewLamport(ct)
        /\ wEntries' = entries' /\ wRuv' = ruv'
        /\ UNCHANGED <<maxId, wMaxId, cid, ops, groupAffect, dmMods>>
    BY <1>5 DEF CommitPurge, pending
  <2>2. NewLamport(ct) \in Cids /\ NewLamport(ct) \in Int /\ tsMax <= NewLamport(ct)
    BY <1>1, <1>2, <1>3, LamportIsLater
  <2> HIDE DEF c
  <2>3. Good(entries, ruv, maxId, tsMax, ruvFrom)'
    BY ZenonT(60), <1>2, <1>3, <1>5, <2>1, <2>2, TrimGood
  <2>4. TypeOK'
    <3>1. Database(entries, ruv, maxId)' /\ Database(wEntries, wRuv, wMaxId)'
      BY <2>3, <2>1, <1>2 DEF Good
    <3>2. tsMax' \in 0..MaxTs
      BY <2>1, <2>2, MaxTsAssumption DEF Cids
    <3>3. QED
      BY <3>1, <3>2, <2>1, <1>2, <1>3, <1>5 DEF TypeOK
  <2>5. ruvFrom' <= tsMax' - ChangelogAge
    <3>1. c <= c
      BY <1>3
    <3>2. QED
      BY <3>1, <1>5, <2>1 DEF c
  <2>6. NeverOrphaned'
    BY <1>5 DEF NeverOrphaned
  <2>7. QED
    BY <1>1, <1>2, <2>1, <2>3, <2>4, <2>5, <2>6, IdlePreserves
<1>6. QED
  BY <1>4, <1>5 DEF PurgeTombstones, TrimCid

(* The eviction and reload of one entry keep the invariant. *)
LEMMA EvictPreserves ==
  ASSUME IInv, NEW u \in Uuids, Evict(u)
  PROVE  IInv'
<1>1. /\ cid = 0
      /\ entries' = [v \in DOMAIN entries |-> IF v = u THEN Reload(entries[v]) ELSE entries[v]]
      /\ wEntries' = entries'
      /\ UNCHANGED <<ruv, maxId, tsMax, wRuv, wMaxId, cid, ops, groupAffect, dmMods,
                     purger, ruvFrom>>
  BY DEF Evict, Idle, pending
<1>2. /\ TypeOK /\ ruvFrom \in Int /\ Good(entries, ruv, maxId, tsMax, ruvFrom)
      /\ wRuv = ruv /\ wMaxId = maxId
  BY <1>1 DEF IInv, TypeOK
<1>3. entries' = [v \in DOMAIN entries |->
                    IF v \in {u} THEN Reload(entries[v]) ELSE entries[v]]
  BY <1>1
<1>4. Good(entries, ruv, maxId, tsMax, ruvFrom)'
  BY <1>1, <1>2, <1>3, ReloadGood, ZenonT(60)
<1>5. TypeOK'
  BY <1>1, <1>2, <1>4, Zenon DEF TypeOK, Good
<1>6. NeverOrphaned' /\ (ruvFrom' = 0 \/ ruvFrom' <= tsMax' - ChangelogAge)
  BY <1>1 DEF IInv, NeverOrphaned
<1>7. QED
  BY <1>1, <1>2, <1>4, <1>5, <1>6, IdlePreserves

(* A restart, with the rebuilt RUV and the stored greatest id, keeps the invariant. *)
LEMMA RestartPreserves ==
  ASSUME IInv, Restart
  PROVE  IInv'
<1>1. /\ entries' = [u \in DOMAIN entries |-> Reload(entries[u])]
      /\ ruv' = Rebuild(entries') /\ maxId' \in StoredMaxId(entries)
      /\ wEntries' = entries' /\ wRuv' = ruv' /\ wMaxId' = maxId'
      /\ cid' = 0 /\ ops' = 0 /\ groupAffect' = {} /\ dmMods' = NoMods
      /\ purger' = "tombstones" /\ ruvFrom' = 0 /\ tsMax' = tsMax
  BY DEF Restart
<1>2. TypeOK /\ ruvFrom \in Int /\ Good(entries, ruv, maxId, tsMax, ruvFrom)
  BY DEF IInv, TypeOK
<1>3. Good(entries, ruv, maxId, tsMax, ruvFrom)'
  BY <1>1, <1>2, RestartGood
<1>4. TypeOK'
  <2>1. Database(entries, ruv, maxId)' /\ Database(wEntries, wRuv, wMaxId)'
    BY <1>1, <1>3 DEF Good
  <2>2. /\ ops' \in 0..MaxOps /\ cid' \in 0..MaxTs /\ ruvFrom' \in Int
        /\ dmMods' \in [Uuids -> SUBSET Uuids]
    BY <1>1, AgeAssumption, MaxTsAssumption DEF NoMods
  <2>3. QED
    BY <2>1, <2>2, <1>1, <1>2 DEF TypeOK
<1>5. NeverOrphaned'
  BY <1>1 DEF NeverOrphaned
<1>6. QED
  BY <1>1, <1>3, <1>4, <1>5, IdlePreserves

-----------------------------------------------------------------------------
(***************************************************************************)
(* The theorems.                                                           *)
(***************************************************************************)

(* The empty database satisfies the invariant. *)
LEMMA InitIInv == Init => IInv
<1>1. SUFFICES ASSUME Init PROVE IInv
  OBVIOUS
<1>2. /\ DOMAIN entries = {} /\ ruv = [c \in Cids |-> {}] /\ maxId = 0 /\ tsMax = 0
      /\ wEntries = entries /\ wRuv = ruv /\ wMaxId = maxId
      /\ cid = 0 /\ ops = 0 /\ groupAffect = {} /\ dmMods = NoMods
      /\ purger \in {"tombstones", "recycled"} /\ ruvFrom = 0
  BY <1>1 DEF Init
<1>3. Database(entries, ruv, maxId)
  BY <1>2, AgeAssumption DEF Database
<1>4. TypeOK
  <2>1. 0 \in 0..MaxTs /\ 0 \in 0..MaxOps /\ dmMods \in [Uuids -> SUBSET Uuids]
    BY <1>2, AgeAssumption, MaxTsAssumption DEF NoMods
  <2>2. QED
    BY <1>2, <1>3, <2>1 DEF TypeOK
<1>5. Good(entries, ruv, maxId, tsMax, ruvFrom)
  BY <1>2, <1>3 DEF Good, CidsUpTo, LogsInRuv, LiveInRuv, NamedUnderTail, UniqueIds,
                    RuvIdsHaveEntries, BareTombstones
<1>6. Good(wEntries, wRuv, wMaxId, Top, ruvFrom)
  BY <1>2, <1>5 DEF Top
<1>7. QED
  BY <1>2, <1>4, <1>5, <1>6, KeptSelf DEF IInv, NeverOrphaned

(* A step that changes nothing keeps the invariant. *)
LEMMA StutterIInv ==
  ASSUME IInv, UNCHANGED vars
  PROVE  IInv'
<1>1. UNCHANGED <<entries, ruv, maxId, tsMax, wEntries, wRuv, wMaxId, cid, ops,
                  groupAffect, dmMods, purger, ruvFrom>>
  BY DEF vars, committed, working, pending
<1>2. TypeOK' /\ Top' = Top
  BY <1>1 DEF IInv, TypeOK, Top
<1>3. QED
  BY <1>1, <1>2 DEF IInv, NeverOrphaned

(* Every step keeps the invariant. *)
LEMMA NextIInv == IInv /\ [Next]_vars => IInv'
<1>1. SUFFICES ASSUME IInv, [Next]_vars PROVE IInv'
  OBVIOUS
<1>2. ASSUME NEW ct \in Cids, Begin(ct) \/ PurgeRecycled(ct) \/ PurgeTombstones(ct)
      PROVE  IInv'
  BY <1>1, <1>2, BeginPreserves, PurgeRecycledPreserves, PurgeTombstonesPreserves
<1>3. ASSUME NEW u \in Uuids, NEW members \in SUBSET Uuids, CreateEntry(u, members)
      PROVE  IInv'
  BY <1>1, <1>3, CreatePreserves
<1>4. ASSUME NEW us \in SUBSET Uuids, NEW m \in Mods, Modify(us, m)
      PROVE  IInv'
  BY <1>1, <1>4, ModifyPreserves
<1>5. ASSUME NEW us \in SUBSET Uuids, Delete(us) \/ ReviveEntries(us)
      PROVE  IInv'
  BY <1>1, <1>5, DeletePreserves, ReviveEntriesPreserves
<1>6. ASSUME NEW g \in Uuids, ReviveMembership(g) \/ Evict(g)
      PROVE  IInv'
  BY <1>1, <1>6, ReviveMembershipPreserves, EvictPreserves
<1>7. CASE Stripe \/ Commit \/ Abort \/ Restart
  BY <1>1, <1>7, StripePreserves, CommitPreserves, AbortPreserves, RestartPreserves
<1>8. CASE UNCHANGED vars
  BY <1>1, <1>8, StutterIInv
<1>9. QED
  BY <1>1, <1>2, <1>3, <1>4, <1>5, <1>6, <1>7, <1>8 DEF Next

(* The inductive invariant holds of every behaviour, whatever the entries,  *)
(* the clock and the moments of the purges, evictions and restarts.         *)
THEOREM Invariance == Spec => []IInv
<1>1. QED
  BY InitIInv, NextIInv, PTL DEF Spec

(* Every variable keeps its type through every operation, purge and restart. *)
THEOREM TypeCorrect == Spec => []TypeOK
<1>1. IInv => TypeOK
  BY DEF IInv
<1>2. QED
  BY <1>1, Invariance, PTL

(* The RUV names every change that an entry's changelog has recorded since  *)
(* the last trim: insert_change is never forgotten, rebuild finds it again. *)
THEOREM RuvIsComplete == Spec => []RuvComplete
<1>1. IInv => RuvComplete
  BY DEF IInv, Good, RuvComplete
<1>2. QED
  BY <1>1, Invariance, PTL

(* An entry the RUV names is named under its last_modified_cid. *)
THEOREM RuvHasTails == Spec => []RuvTail
<1>1. IInv => RuvTail
  BY DEF IInv, Good, RuvTail
<1>2. QED
  BY <1>1, Invariance, PTL

(* Ids stay unique and the RUV never names an id that no entry has, though  *)
(* the id counter goes back at a restart.                                   *)
THEOREM IdsStayConsistent == Spec => []IdsConsistent
<1>1. IInv => IdsConsistent
  BY DEF IInv, Good, IdsConsistent
<1>2. QED
  BY <1>1, Invariance, PTL

(* The Cids new_lamport hands out stay ahead of everything recorded. *)
THEOREM CidsStayBehind == Spec => []CidsBehind
<1>1. IInv => CidsBehind
  BY Zenon DEF IInv, Good, CidsUpTo, CidsBehind, Top
<1>2. QED
  BY <1>1, Invariance, PTL

(* reap_tombstones never reports an orphaned tombstone. *)
THEOREM NoOrphanEver == Spec => []NeverOrphaned
<1>1. IInv => NeverOrphaned
  BY DEF IInv
<1>2. QED
  BY <1>1, Invariance, PTL

(* A step that leaves the committed entries alone keeps both promises. *)
LEMMA SameEntries ==
  ASSUME entries' = entries
  PROVE  TombstonesKept /\ BinKept
BY DEF TombstonesKept, BinKept, Tombstones

(* So does one that only reloads changelogs. *)
LEMMA SameButLogs ==
  ASSUME NEW us, entries' = [v \in DOMAIN entries |->
                               IF v \in us THEN Reload(entries[v]) ELSE entries[v]]
  PROVE  TombstonesKept /\ BinKept
<1>1. /\ DOMAIN entries' = DOMAIN entries
      /\ \A u \in DOMAIN entries : /\ entries'[u].attrs = entries[u].attrs
                                   /\ entries'[u].lmc = entries[u].lmc
  BY Zenon DEF Reload
<1>2. QED
  BY <1>1 DEF TombstonesKept, BinKept, Tombstones, Class

(* A commit changes no tombstone and makes none. *)
LEMMA CommitKeeps ==
  ASSUME IInv, Commit
  PROVE  TombstonesKept /\ BinKept
<1>1. entries' = wEntries /\ Kept(entries, wEntries)
  BY DEF Commit, IInv
<1>2. TombstonesKept
  BY <1>1 DEF Kept, TombstonesKept
<1>3. BinKept
  <2>1. ASSUME NEW u \in Tombstones(wEntries)
        PROVE  u \in Tombstones(entries) /\ u \in DOMAIN entries
    BY <1>1 DEF Kept, Tombstones
  <2>2. QED
    BY <1>1, <2>1 DEF BinKept
<1>4. QED
  BY <1>2, <1>3

(* purge_recycled makes tombstones only of what was in the bin long enough. *)
LEMMA PurgeRecycledKeeps ==
  ASSUME IInv, NEW ct \in Cids, PurgeRecycled(ct)
  PROVE  TombstonesKept /\ BinKept
<1> DEFINE c  == NewLamport(ct)
           us == PurgeCandidates(c)
<1>1. /\ entries' = Write(entries, c, [u \in us |-> TombstoneAttrs],
                          [u \in us |-> <<Tombstone(TombstoneAttrs)>>])
      /\ tsMax' = c
  BY DEF PurgeRecycled, CommitPurge
<1>2. /\ DOMAIN entries' = DOMAIN entries
      /\ \A u \in DOMAIN entries : u \notin us => entries'[u] = entries[u]
  BY <1>1 DEF Write
<1>3. \A u \in us : u \in Recycled(entries) /\ entries[u].lmc < tsMax' - RecycleAge
  BY <1>1 DEF PurgeCandidates
<1>4. \A u \in us : u \notin Tombstones(entries)
  BY <1>3, NotTombstones DEF IInv, Good, Tombstones
<1>5. TombstonesKept
  BY <1>2, <1>4, Zenon DEF TombstonesKept, Tombstones
<1>6. BinKept
  <2>1. ASSUME NEW u \in Tombstones(entries'), u \notin us
        PROVE  u \in Tombstones(entries)
    BY <2>1, <1>2 DEF Tombstones, Class
  <2>2. ASSUME NEW u \in Tombstones(entries')
        PROVE  u \in DOMAIN entries
    BY <1>2 DEF Tombstones
  <2> HIDE DEF us
  <2>3. QED
    BY <2>1, <2>2, <1>3 DEF BinKept
<1>7. QED
  BY <1>5, <1>6

(* reap_tombstones removes only tombstones whose Cid left the changelog window. *)
LEMMA PurgeTombstonesKeeps ==
  ASSUME IInv, NEW ct \in Cids, PurgeTombstones(ct)
  PROVE  TombstonesKept /\ BinKept
<1> DEFINE c == NewLamport(ct) - ChangelogAge
<1>1. NewLamport(ct) <= MaxTs
  BY Zenon DEF PurgeTombstones, TrimCid
<1>2. c \in Int
  BY <1>1, BoundsAdvance
<1>3. CASE entries' = entries
  BY <1>3, SameEntries
<1>4. CASE /\ ~ReapStale(c)
           /\ entries' = [u \in DOMAIN entries \ Reaped(c) |-> Trimmed(c)[u]]
           /\ tsMax' = NewLamport(ct)
  <2>1. tsMax' - ChangelogAge = c
    BY <1>4
  <2> HIDE DEF c
  <2>2. \A u \in Reaped(c) : entries[u].lmc < c
    BY <1>2, <1>4, ReapedIsOld DEF IInv
  <2>3. /\ DOMAIN entries' = DOMAIN entries \ Reaped(c)
        /\ \A u \in DOMAIN entries' : /\ entries'[u].attrs = entries[u].attrs
                                      /\ entries'[u].lmc = entries[u].lmc
    BY <1>2, <1>4, TrimKeeps
  <2>4. TombstonesKept
    <3>1. SUFFICES ASSUME NEW u \in Tombstones(entries)
                   PROVE  \/ /\ u \in DOMAIN entries'
                             /\ entries'[u].attrs = entries[u].attrs
                             /\ entries'[u].lmc = entries[u].lmc
                          \/ u \notin DOMAIN entries' /\ entries[u].lmc < tsMax' - ChangelogAge
      BY DEF TombstonesKept
    <3>2. u \in DOMAIN entries
      BY DEF Tombstones
    <3>3. CASE u \in Reaped(c)
      BY <3>3, <2>1, <2>2, <2>3
    <3>4. CASE u \notin Reaped(c)
      BY <3>2, <3>4, <2>3
    <3>5. QED
      BY <3>3, <3>4
  <2>5. BinKept
    BY <2>3 DEF BinKept, Tombstones, Class
  <2>6. QED
    BY <2>4, <2>5
<1>5. QED
  BY <1>3, <1>4 DEF PurgeTombstones, TrimCid, CommitPurge, committed

(* No step disturbs a tombstone, or makes one, in any other way. *)
LEMMA StepKeeps == IInv /\ [Next]_vars => [TombstonesKept]_vars /\ [BinKept]_vars
<1>1. SUFFICES ASSUME IInv, Next PROVE TombstonesKept /\ BinKept
  OBVIOUS
<1>2. ASSUME NEW ct \in Cids, Begin(ct) \/ PurgeRecycled(ct) \/ PurgeTombstones(ct)
      PROVE  TombstonesKept /\ BinKept
  <2>1. CASE Begin(ct)
    BY <2>1, SameEntries DEF Begin, committed
  <2>2. QED
    BY <1>1, <1>2, <2>1, PurgeRecycledKeeps, PurgeTombstonesKeeps
<1>3. ASSUME NEW u \in Uuids, NEW members \in SUBSET Uuids, CreateEntry(u, members)
      PROVE  TombstonesKept /\ BinKept
  BY <1>3, SameEntries DEF CreateEntry, committed
<1>4. ASSUME NEW us \in SUBSET Uuids, NEW m \in Mods, Modify(us, m)
      PROVE  TombstonesKept /\ BinKept
  BY <1>4, SameEntries DEF Modify, committed
<1>5. ASSUME NEW us \in SUBSET Uuids, Delete(us) \/ ReviveEntries(us)
      PROVE  TombstonesKept /\ BinKept
  BY <1>5, SameEntries, Zenon DEF Delete, ReviveEntries, committed
<1>6. ASSUME NEW g \in Uuids, ReviveMembership(g) \/ Evict(g)
      PROVE  TombstonesKept /\ BinKept
  <2>1. CASE ReviveMembership(g)
    BY <2>1, SameEntries DEF ReviveMembership, committed
  <2>2. CASE Evict(g)
    <3>1. entries' = [v \in DOMAIN entries |->
                        IF v \in {g} THEN Reload(entries[v]) ELSE entries[v]]
      BY <2>2 DEF Evict
    <3>2. QED
      BY <3>1, SameButLogs, Zenon
  <2>3. QED
    BY <1>6, <2>1, <2>2
<1>7. CASE Stripe \/ Abort
  BY <1>7, SameEntries DEF Stripe, Abort, committed
<1>8. CASE Commit
  BY <1>1, <1>8, CommitKeeps
<1>9. CASE Restart
  <2>1. entries' = [v \in DOMAIN entries |->
                      IF v \in DOMAIN entries THEN Reload(entries[v]) ELSE entries[v]]
    BY <1>9 DEF Restart
  <2>2. QED
    BY <2>1, SameButLogs
<1>10. QED
  BY <1>1, <1>2, <1>3, <1>4, <1>5, <1>6, <1>7, <1>8, <1>9 DEF Next

(* A committed tombstone is never changed, and reap_tombstones removes it   *)
(* only when its Cid has left the changelog window, even when its changelog *)
(* was lost to an eviction or a restart.                                    *)
THEOREM TombstonesAreFinal == Spec => TombstoneFinal
<1>1. QED
  BY Invariance, StepKeeps, PTL DEF Spec, TombstoneFinal

(* purge_recycled makes tombstones only of what has been in the recycle bin *)
(* for RECYCLEBIN_MAX_AGE, and no other operation makes any.                *)
THEOREM BinIsKept == Spec => RecycleBinHolds
<1>1. QED
  BY Invariance, StepKeeps, PTL DEF Spec, RecycleBinHolds

=============================================================================
