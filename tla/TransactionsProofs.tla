-------------------------- MODULE TransactionsProofs --------------------------
(***************************************************************************)
(* What holds of the read and the write transactions for any keys, any     *)
(* number of readers and write transactions of any length: the caches, the *)
(* ids and the cells agree with SQLite, a commit loses nothing, and the    *)
(* lookups of readers are those of CommittedReads.                         *)
(*                                                                         *)
(* First the inductive invariant, and the steps that keep it while SQLite  *)
(* stays as it is: those of readers, and those of the writer until its     *)
(* commit reaches SQLite.                                                  *)
(***************************************************************************)
EXTENDS Transactions, TLAPS

(* The provers to try on a step, in order, and the time each one has. *)
USE ZenonT(5), SMTT(30), SMTT(60), ZenonT(30), SMTT(90)

(***************************************************************************)
(* The inductive invariant.  A cache is behind SQLite by one commit from   *)
(* the moment SQLite has committed until the cache is published.  Counting *)
(* the commits that the cache has, each of its generations is one of them; *)
(* what decides whether an offer may enter is that a key has not changed   *)
(* since the generation recorded with it.                                  *)
(***************************************************************************)

\* What the places of the commit are called, and whether a cache is behind.
Place(c) == IF c = "name" THEN 3 ELSE IF c = "idl" THEN 4 ELSE 5
Behind(c) == writer.pc \in 3..Place(c)

\* The commit a cache has, and the commit its generation 0 had.
Has(c) == IF Behind(c) THEN Len(hist) - 1 ELSE Len(hist)
Start(c) == Has(c) - gen[c]

Dbs == [Keys -> Vals]
Item == [has : BOOLEAN, val : Vals, gen : Nat]
View == [at : {"main", "set", "removed"}, val : Vals, dirty : BOOLEAN]
Offer == [key : Keys, val : Vals, gen : Nat]
Writer == [pc : 0..7, open : BOOLEAN, num : Vals, ops : Nat, db : Dbs, local : [Keys -> View],
           cleared : BOOLEAN, allids : SUBSET EntryKeys, cell : [Cells -> Vals], want : Dbs]
Reader == [pc : 0..5, floor : Nat, cache : [Keys -> Item], gen : [Caches -> Nat],
           allids : SUBSET EntryKeys, db : Dbs \cup {<<>>}, local : [Keys -> View],
           seen : [Keys -> Vals \cup {Unread}]]

\* SQLite, its history, and what was acknowledged of it.
StoreOK ==
    /\ hist \in Seq(Dbs) /\ Len(hist) > 0 /\ db = hist[Len(hist)]
    /\ txns \in 1..MaxTxn
    /\ gen \in [Caches -> Nat] /\ \A c \in Caches : Start(c) > 0
    /\ acked = IF writer.pc > 2 THEN Len(hist) - 1 ELSE Len(hist)

\* The writer's view of a key, and what its commit will make of it.
ViewOK(w, k) ==
    LET l == w.local[k]
    IN /\ l.at = "main" => ~l.dirty
       /\ l.at = "removed" => l.dirty /\ l.val = 0 /\ k \notin IdlKeys /\ ~Mirrored(k)
       /\ l.at = "set" /\ ~l.dirty => l.val = w.db[k]
       /\ k \in EntryKeys \cup IdlKeys => w.want[k] = IF l.dirty THEN l.val ELSE w.db[k]

\* The key is left alone by the write transaction.
Left(w, k) == w.local[k].at = "main" /\ ~(w.cleared /\ k \in IdlKeys)

WriterOK(w) ==
    /\ w \in Writer
    /\ ~w.open => w = NoWriter
    /\ w.open =>
         /\ w.num > 0
         /\ \A k \in Keys : ViewOK(w, k)
         /\ w.allids = {k \in EntryKeys : w.want[k] # 0}

\* Before SQLite commits the writer has its content, but for lists a reindex
\* removed; afterwards the other way round.
AgainstDb ==
    writer.open =>
      /\ writer.pc <= 2 =>
           \A k \in Keys : writer.db[k] = IF writer.cleared /\ k \in IdlKeys THEN 0 ELSE db[k]
      /\ writer.pc > 2 =>
           /\ db = Flushed /\ Len(hist) > 1
           /\ \A k \in Keys : Left(writer, k) => hist[Len(hist) - 1][k] = db[k]

\* The ids and the cells, before, during and after their publication.
IdsOK == writer.pc \notin 3..6 => allids = Present(db)
CellsOK ==
    /\ cell \in [Cells -> Vals] /\ tainted \in BOOLEAN
    /\ writer.open /\ writer.pc = 0 => writer.cell = cell
    /\ ~tainted =>
         /\ writer.pc <= 1 => \A c \in Cells : cell[c] = db[Mirror[c]]
         /\ writer.pc = 2 => cell["idxmeta"] = db[Mirror["idxmeta"]]
         /\ writer.pc > 1 => \A c \in Cells \ {"idxmeta"} : cell[c] = writer.cell[c]
         /\ writer.pc > 0 => \A c \in Cells : writer.cell[c] = Flushed[Mirror[c]]

\* A cached key has the value of the commit its cache has, and has had it in
\* every commit since the generation recorded with the key.
ItemOK(k, it) ==
    LET c == CacheOf(k)
    IN /\ it \in Item /\ it.gen <= gen[c]
       /\ it.has => it.val = hist[Has(c)][k]
       /\ \A j \in (Start(c) + it.gen)..Has(c) : hist[j][k] = hist[Has(c)][k]
CacheOK == cache \in [Keys -> Item] /\ \A k \in Keys : ItemOK(k, cache[k])

\* An offer is no older than the generation of its reader.
OfferOK(o) ==
    LET c == CacheOf(o.key)
    IN /\ o \in Offer /\ o.gen <= gen[c]
       /\ \E i \in (Start(c) + o.gen)..Len(hist) : o.val = hist[i][o.key]
OffersOK == \A o \in offers : OfferOK(o)

\* v is a value of k in a commit not older than f.
Committed(f, k, v) == \E i \in f..Len(hist) : v = hist[i][k]

\* A reader's values are committed ones since its floor; its database is not
\* older than any of its caches; what it returned it would return again.
ReaderOK(rd) ==
    /\ rd \in Reader
    /\ rd.pc = 0 => rd = NoReader
    /\ rd.pc > 0 => rd.floor \in 1..acked
    /\ rd.pc < 5 => /\ rd.db = <<>>
                    /\ \A k \in Keys : rd.local[k] = Untouched /\ rd.seen[k] = Unread
    /\ \A c \in Caches : rd.gen[c] <= gen[c]
    /\ \A k \in Keys : Hit(rd, k) => Committed(rd.floor, k, HitVal(rd, k))
    /\ rd.db # <<>> => \E i \in rd.floor..Len(hist) :
                         rd.db = hist[i] /\ \A c \in Caches : i >= Start(c) + rd.gen[c]
    /\ \A k \in Keys : rd.seen[k] # Unread =>
         IF Hit(rd, k) THEN rd.seen[k] = HitVal(rd, k)
         ELSE rd.db # <<>> /\ rd.seen[k] = rd.db[k]
ReadersOK == reader \in [Readers -> Reader] /\ \A r \in Readers : ReaderOK(reader[r])

IInv ==
    /\ StoreOK /\ WriterOK(writer) /\ AgainstDb /\ IdsOK /\ CellsOK
    /\ allids \subseteq EntryKeys /\ CacheOK /\ OffersOK /\ ReadersOK

-----------------------------------------------------------------------------
(***************************************************************************)
(* The places of a commit, the keys and the caches.                        *)
(***************************************************************************)

(* The parts of the commit by their numbers. *)
LEMMA Places ==
  ASSUME writer.pc \in 0..7, writer.pc > 0
  PROVE  /\ Step = "cells" => writer.pc = 1
         /\ Step = "db" => writer.pc = 2
         /\ Step \in Caches => Place(Step) = writer.pc /\ writer.pc \in 3..5
         /\ Step = "allids" => writer.pc = 6
         /\ Step = "idxmeta" => writer.pc = 7
BY DEF Step, CommitOrder, Caches, Place

(* Every key has its cache. *)
LEMMA CacheOfKey ==
  ASSUME NEW k \in Keys
  PROVE  CacheOf(k) \in Caches
BY DEF CacheOf, Caches

(* A database with a key is not the empty tuple that stands for none. *)
LEMMA SomeDb ==
  ASSUME NEW d \in Dbs, NEW k \in Keys
  PROVE  d # <<>>
BY DEF Dbs

(* The commits and the generations that a cache has. *)
LEMMA Counts ==
  ASSUME IInv, NEW c \in Caches
  PROVE  /\ Len(hist) \in Nat /\ gen[c] \in Nat /\ Has(c) \in Nat /\ Start(c) \in Nat
         /\ Has(c) = Start(c) + gen[c] /\ Start(c) > 0 /\ acked \in Nat
         /\ acked <= Has(c) /\ Has(c) <= Len(hist) /\ acked > 0
<1>1. /\ Len(hist) \in Nat /\ Len(hist) > 0 /\ gen[c] \in Nat /\ Start(c) > 0 /\ writer.pc \in 0..7
      /\ acked = IF writer.pc > 2 THEN Len(hist) - 1 ELSE Len(hist)
  BY DEF IInv, StoreOK, WriterOK, Writer
<1>2. writer.pc > 2 => Len(hist) > 1
  <2>1. writer.pc > 2 => writer.open
    BY DEF IInv, WriterOK, NoWriter
  <2>2. QED
    BY <2>1 DEF IInv, AgainstDb
<1>3. QED
  BY <1>1, <1>2 DEF Has, Start, Behind, Place

-----------------------------------------------------------------------------
(***************************************************************************)
(* Readers.                                                                *)
(***************************************************************************)

(* A reader depends on the history, on what was acknowledged of it, and on   *)
(* the generations of the caches.                                            *)
LEMMA SameReader ==
  ASSUME NEW rd, ReaderOK(rd), UNCHANGED <<hist, gen, acked>>, \A c \in Caches : Start(c)' = Start(c)
  PROVE  ReaderOK(rd)'
<1>1. /\ rd \in Reader /\ (rd.pc = 0 => rd = NoReader) /\ (rd.pc > 0 => rd.floor \in 1..acked')
      /\ rd.pc < 5 => /\ rd.db = <<>>
                      /\ \A k \in Keys : rd.local[k] = Untouched /\ rd.seen[k] = Unread
      /\ \A c \in Caches : rd.gen[c] <= gen'[c]
      /\ \A k \in Keys : rd.seen[k] # Unread =>
           IF Hit(rd, k) THEN rd.seen[k] = HitVal(rd, k) ELSE rd.db # <<>> /\ rd.seen[k] = rd.db[k]
  BY Zenon DEF ReaderOK
<1>2. \A k \in Keys : Hit(rd, k) => \E i \in rd.floor..Len(hist') : HitVal(rd, k) = hist'[i][k]
  BY Zenon DEF ReaderOK, Committed
<1>3. rd.db # <<>> => \E i \in rd.floor..Len(hist') :
                        rd.db = hist'[i] /\ \A c \in Caches : i >= Start(c)' + rd.gen[c]
  BY DEF ReaderOK
<1>4. QED
  BY <1>1, <1>2, <1>3, Zenon DEF ReaderOK, Committed, Hit, HitVal

(* One reader changes, and nothing that the others depend on. *)
LEMMA OneReader ==
  ASSUME ReadersOK, NEW r \in Readers, NEW rd, ReaderOK(rd),
         reader' = [reader EXCEPT ![r] = rd], UNCHANGED <<hist, gen, acked, writer>>
  PROVE  ReadersOK'
<1>1. reader' \in [Readers -> Reader]
  BY DEF ReadersOK, ReaderOK
<1>2. \A c \in Caches : Start(c)' = Start(c)
  BY DEF Start, Has, Behind
<1>3. ASSUME NEW q \in Readers PROVE ReaderOK(reader[q])'
  <2>1. PICK p : p = reader'[q]
    OBVIOUS
  <2>2. ReaderOK(p)
    BY <2>1 DEF ReadersOK
  <2>3. ReaderOK(p)'
    BY <1>2, <2>2, SameReader
  <2>4. QED
    BY <2>1, <2>3
<1>4. QED
  BY <1>1, <1>3 DEF ReadersOK

(* The server without its caches, and the writer, are left alone. *)
LEMMA ServerFrame ==
  ASSUME IInv, UNCHANGED <<db, gen, allids, cell, writer, txns, hist, acked, tainted>>
  PROVE  StoreOK' /\ WriterOK(writer)' /\ AgainstDb' /\ IdsOK' /\ CellsOK' /\ allids' \subseteq EntryKeys
<1>1. StoreOK' /\ IdsOK' /\ allids' \subseteq EntryKeys
  BY DEF IInv, StoreOK, Start, Has, Behind, IdsOK, Present
<1>2. WriterOK(writer)'
  BY DEF IInv, WriterOK, ViewOK
<1>3. AgainstDb'
  BY DEF IInv, AgainstDb, Flushed, Left
<1>4. CellsOK'
  BY DEF IInv, CellsOK, Flushed
<1>5. QED
  BY <1>1, <1>2, <1>3, <1>4

(* A step of a reader leaves the server and the writer alone. *)
LEMMA ReaderFrame ==
  ASSUME IInv, UNCHANGED <<db, cache, gen, allids, cell, writer, txns, hist, acked, tainted>>,
         ReadersOK', OffersOK'
  PROVE  IInv'
<1>1. StoreOK' /\ WriterOK(writer)' /\ AgainstDb' /\ IdsOK' /\ CellsOK' /\ allids' \subseteq EntryKeys
  BY ServerFrame
<1>2. CacheOK'
  BY DEF IInv, CacheOK, ItemOK, Start, Has, Behind
<1>3. QED
  BY <1>1, <1>2 DEF IInv

(* A step of a reader that offers nothing. *)
LEMMA ReaderStep ==
  ASSUME IInv, NEW r \in Readers, NEW rd, ReaderOK(rd), reader' = [reader EXCEPT ![r] = rd],
         UNCHANGED <<db, cache, gen, allids, cell, offers, writer, txns, hist, acked, tainted>>
  PROVE  IInv'
<1>1. ReadersOK'
  BY OneReader, Zenon DEF IInv
<1>2. OffersOK'
  BY DEF IInv, OffersOK, OfferOK, Start, Has, Behind
<1>3. QED
  BY <1>1, <1>2, ReaderFrame

\* A reader that is not open has nothing.
Nothing(rd) ==
  /\ rd.pc = 0 /\ rd.floor = 0 /\ rd.db = <<>>
  /\ \A k \in Keys : rd.local[k] = Untouched /\ rd.seen[k] = Unread /\ ~Hit(rd, k)
  /\ \A c \in Caches : rd.gen[c] = 0

(* A reader that is not open has nothing. *)
LEMMA NoReaderHasNothing == Nothing(NoReader)
<1>1. /\ NoReader.pc = 0 /\ NoReader.floor = 0 /\ NoReader.db = <<>>
      /\ NoReader.local = [k \in Keys |-> Untouched] /\ NoReader.cache = [k \in Keys |-> Absent]
      /\ NoReader.seen = [k \in Keys |-> Unread] /\ NoReader.gen = [c \in Caches |-> 0]
  BY DEF NoReader
<1>2. Untouched.at # "set" /\ ~Absent.has
  BY DEF Untouched, Absent
<1>3. QED
  BY <1>1, <1>2, Zenon DEF Nothing, Hit

(* A reader that is not open. *)
LEMMA NoReaderOK ==
  ASSUME IInv
  PROVE  ReaderOK(NoReader)
<1>1. NoReader \in Reader
  BY MaxTxnAssumption DEF NoReader, Reader, Item, Absent, View, Untouched, Vals
<1>2. \A c \in Caches : gen[c] \in Nat
  BY DEF IInv, StoreOK
<1>3. \A c \in Caches : 0 <= gen[c]
  BY <1>2
<1>4. ~ (0 > 0)
  OBVIOUS
<1>5. QED
  BY <1>1, <1>3, <1>4, NoReaderHasNothing, Zenon DEF ReaderOK, Nothing

(* What a cache has now is committed and not older than what was acknowledged. *)
LEMMA CachedIsCommitted ==
  ASSUME IInv, NEW k \in Keys, cache[k].has, NEW f \in 1..acked
  PROVE  Committed(f, k, cache[k].val)
<1>1. CacheOf(k) \in Caches
  BY CacheOfKey
<1>2. cache[k].val = hist[Has(CacheOf(k))][k]
  BY DEF IInv, CacheOK, ItemOK
<1>3. Has(CacheOf(k)) \in f..Len(hist)
  BY <1>1, Counts
<1>4. QED
  BY <1>2, <1>3 DEF Committed

(* A reader that is taking its snapshots. *)
LEMMA Snapshot ==
  ASSUME IInv, NEW rd \in Reader, rd.pc > 0, rd.floor \in 1..acked, rd.db = <<>>,
         \A k \in Keys : rd.local[k] = Untouched /\ rd.seen[k] = Unread,
         \A k \in Keys : \/ rd.cache[k] = cache[k]
                         \/ rd.cache[k].has => Committed(rd.floor, k, rd.cache[k].val),
         \A c \in Caches : rd.gen[c] <= gen[c]
  PROVE  ReaderOK(rd)
<1>1. \A k \in Keys : rd.local[k].at # "set"
  BY DEF Untouched
<1>2. ASSUME NEW k \in Keys, Hit(rd, k) PROVE Committed(rd.floor, k, HitVal(rd, k))
  <2>1. rd.cache[k].has /\ HitVal(rd, k) = rd.cache[k].val
    BY <1>1, <1>2 DEF Hit, HitVal
  <2>2. QED
    BY <2>1, CachedIsCommitted
<1>3. QED
  BY <1>2 DEF ReaderOK, Reader

(* IdlArcSqlite::read. *)
LEMMA BeginPreserves ==
  ASSUME IInv, NEW r \in Readers, Begin(r)
  PROVE  IInv'
<1> DEFINE rd == [NoReader EXCEPT !.pc = 1, !.floor = acked,
                     !.cache = [k \in Keys |-> IF k \in EntryKeys THEN cache[k] ELSE Absent],
                     !.gen["entry"] = gen["entry"]]
<1>0. NoReader \in Reader /\ cache \in [Keys -> Item] /\ gen \in [Caches -> Nat]
  BY NoReaderOK DEF IInv, CacheOK, StoreOK, ReaderOK
<1>1. acked \in Nat /\ acked > 0
  BY Counts DEF Caches
<1>2. Absent \in Item
  BY MaxTxnAssumption DEF Absent, Item, Vals
<1>3. /\ rd.pc = 1 /\ rd.floor = acked /\ rd.db = <<>> /\ rd.allids = {}
      /\ rd.local = [k \in Keys |-> Untouched] /\ rd.seen = [k \in Keys |-> Unread]
      /\ rd.gen = [c \in Caches |-> IF c = "entry" THEN gen[c] ELSE 0]
      /\ rd.cache = [k \in Keys |-> IF k \in EntryKeys THEN cache[k] ELSE Absent]
  BY DEF NoReader, Caches
<1>4. rd \in Reader
  <2>1. [k \in Keys |-> IF k \in EntryKeys THEN cache[k] ELSE Absent] \in [Keys -> Item]
    BY <1>0, <1>2
  <2>2. [NoReader.gen EXCEPT !["entry"] = gen["entry"]] \in [Caches -> Nat]
    BY <1>0 DEF Caches, NoReader
  <2>3. [NoReader EXCEPT !.pc = 1, !.floor = acked] \in Reader
    <3>1. ASSUME NEW n \in Reader, NEW p \in 0..5, NEW f \in Nat PROVE [n EXCEPT !.pc = p, !.floor = f] \in Reader
      BY Zenon DEF Reader
    <3>2. 1 \in 0..5
      OBVIOUS
    <3>3. QED
      BY <1>0, <1>1, <3>1, <3>2, Zenon
  <2>4. ASSUME NEW n \in Reader, NEW C \in [Keys -> Item], NEW G \in [Caches -> Nat]
        PROVE  [n EXCEPT !.cache = C, !.gen = G] \in Reader
    BY Zenon DEF Reader
  <2>5. rd = [[NoReader EXCEPT !.pc = 1, !.floor = acked] EXCEPT
                !.cache = [k \in Keys |-> IF k \in EntryKeys THEN cache[k] ELSE Absent],
                !.gen = [NoReader.gen EXCEPT !["entry"] = gen["entry"]]]
    BY DEF NoReader
  <2>6. QED
    BY <2>1, <2>2, <2>3, <2>4, <2>5, Zenon
<1> HIDE DEF rd
<1>5. \A k \in Keys : rd.cache[k] = cache[k] \/ ~rd.cache[k].has
  BY <1>3 DEF Absent
<1>6. \A c \in Caches : rd.gen[c] <= gen[c]
  BY <1>0, <1>3
<1>7. ReaderOK(rd)
  <2>1. \A k \in Keys : rd.local[k] = Untouched /\ rd.seen[k] = Unread
    BY <1>3
  <2>2. QED
    BY <1>1, <1>3, <1>4, <1>5, <1>6, <2>1, Snapshot
<1>8. QED
  BY <1>7, ReaderStep, Zenon DEF Begin, rd

(* The other caches, the ids, and the transaction of SQLite that has no      *)
(* snapshot yet.                                                             *)
LEMMA TakePreserves ==
  ASSUME IInv, NEW r \in Readers, Take(r)
  PROVE  IInv'
<1> DEFINE o == reader[r]
           p == ReadOrder[o.pc + 1]
           at == [o EXCEPT !.pc = @ + 1]
           rd == IF p \in Caches
                   THEN [at EXCEPT !.cache = [k \in Keys |-> IF CacheOf(k) = p THEN cache[k] ELSE @[k]],
                                   !.gen[p] = gen[p]]
                 ELSE IF p = "allids" THEN [at EXCEPT !.allids = allids]
                 ELSE at
<1>0. /\ ReaderOK(o) /\ o \in Reader /\ cache \in [Keys -> Item] /\ gen \in [Caches -> Nat]
      /\ allids \subseteq EntryKeys
  BY DEF IInv, CacheOK, StoreOK, ReadersOK
<1>1. o.pc \in 1..4
  BY DEF Take, ReadOrder
<1>2. /\ at \in Reader /\ at.pc = o.pc + 1 /\ at.floor = o.floor /\ at.db = o.db /\ at.local = o.local
      /\ at.seen = o.seen /\ at.cache = o.cache /\ at.gen = o.gen
  <2>1. o.pc + 1 \in 0..5
    BY <1>1
  <2>2. at \in Reader
    BY <1>0, <2>1, Zenon DEF Reader
  <2>3. QED
    BY <1>0, <2>2, Zenon DEF Reader
<1> HIDE DEF at
<1>3. /\ rd \in Reader /\ rd.pc = o.pc + 1 /\ rd.floor = o.floor /\ rd.db = o.db /\ rd.local = o.local
      /\ rd.seen = o.seen
  <2>1. CASE p \in Caches
    <3>1. [k \in Keys |-> IF CacheOf(k) = p THEN cache[k] ELSE at.cache[k]] \in [Keys -> Item]
      BY <1>0, <1>2 DEF Reader
    <3>2. QED
      BY <1>0, <1>2, <2>1, <3>1, Zenon DEF Reader
  <2>2. CASE p \notin Caches
    BY <1>0, <1>2, <2>2, Zenon DEF Reader
  <2>3. QED
    BY <2>1, <2>2
<1>4. \A k \in Keys : rd.cache[k] = cache[k] \/ rd.cache[k] = o.cache[k]
  BY <1>0, <1>2 DEF Reader
<1>5. \A c \in Caches : rd.gen[c] = gen[c] \/ rd.gen[c] = o.gen[c]
  BY <1>0, <1>2 DEF Reader
<1> HIDE DEF rd
<1>6. \A k \in Keys : o.cache[k].has => Committed(o.floor, k, o.cache[k].val)
  BY <1>0, <1>1 DEF ReaderOK, Hit, HitVal, Untouched
<1>7. ReaderOK(rd)
  <2>1. \A c \in Caches : rd.gen[c] <= gen[c]
    BY <1>0, <1>5 DEF ReaderOK
  <2>2. o.db = <<>> /\ o.floor \in 1..acked /\ \A k \in Keys : o.local[k] = Untouched /\ o.seen[k] = Unread
    BY <1>0, <1>1 DEF ReaderOK
  <2>3. \A k \in Keys : \/ rd.cache[k] = cache[k]
                        \/ rd.cache[k].has => Committed(rd.floor, k, rd.cache[k].val)
    BY <1>3, <1>4, <1>6
  <2>4. QED
    BY <1>1, <1>3, <2>1, <2>2, <2>3, Snapshot
<1>8. QED
  BY <1>7, ReaderStep, Zenon DEF Take, rd, at

(* The transaction is dropped. *)
LEMMA ClosePreserves ==
  ASSUME IInv, NEW r \in Readers, Close(r)
  PROVE  IInv'
BY NoReaderOK, ReaderStep, Zenon DEF Close

\* What a reader answers for a key.
Answer(rd, k) == IF Hit(rd, k) THEN HitVal(rd, k) ELSE DbView(rd)[k]

\* From o to rd the reader has answered for some keys, and remembers those it
\* had to ask SQLite for.
Reads(o, rd) ==
    /\ rd \in Reader
    /\ rd.pc = o.pc /\ rd.floor = o.floor /\ rd.cache = o.cache /\ rd.gen = o.gen
    /\ \A k \in Keys : rd.seen[k] = o.seen[k] \/ rd.seen[k] = Answer(o, k)
    /\ \A k \in Keys : \/ rd.local[k] = o.local[k]
                       \/ ~Hit(o, k) /\ rd.local[k] = Set(DbView(o)[k], FALSE)
    /\ \/ rd.db = DbView(o)
       \/ rd.db = o.db /\ \A k \in Keys : ~Hit(o, k) => rd.local[k] = o.local[k] /\ rd.seen[k] = o.seen[k]

(* What an open reader has of SQLite is a commit not older than its floor and *)
(* than its caches.                                                           *)
LEMMA DbViewCommitted ==
  ASSUME IInv, NEW o, ReaderOK(o), o.pc = 5
  PROVE  /\ DbView(o) \in Dbs
         /\ \E i \in o.floor..Len(hist) :
              DbView(o) = hist[i] /\ \A c \in Caches : i >= Start(c) + o.gen[c]
<1>0. /\ hist \in Seq(Dbs) /\ Len(hist) \in Nat /\ Len(hist) > 0 /\ db = hist[Len(hist)] /\ o \in Reader
      /\ o.floor \in 1..acked /\ o.gen \in [Caches -> Nat]
  BY DEF IInv, StoreOK, ReaderOK, Reader
<1>1. \A i \in 1..Len(hist) : hist[i] \in Dbs
  BY <1>0
<1>2. o.floor <= Len(hist) /\ o.floor \in Nat /\ o.floor > 0
  <2>1. "entry" \in Caches
    BY DEF Caches
  <2>2. acked \in Nat /\ acked <= Len(hist)
    <3>1. Has("entry") \in Nat /\ acked \in Nat /\ acked <= Has("entry") /\ Has("entry") <= Len(hist)
      BY <2>1, Counts
    <3>2. QED
      BY <1>0, <3>1
  <2>3. QED
    BY <1>0, <2>2
<1>3. CASE o.db = <<>>
  <2>1. DbView(o) = hist[Len(hist)]
    BY <1>0, <1>3 DEF DbView
  <2>2. \A c \in Caches : Len(hist) >= Start(c) + o.gen[c]
    BY <1>0, Counts DEF ReaderOK
  <2>3. QED
    BY <1>0, <1>1, <1>2, <2>1, <2>2
<1>4. CASE o.db # <<>>
  <2>1. DbView(o) = o.db
    BY <1>4 DEF DbView
  <2>2. PICK i \in o.floor..Len(hist) : o.db = hist[i] /\ \A c \in Caches : i >= Start(c) + o.gen[c]
    BY <1>4 DEF ReaderOK
  <2>3. i \in 1..Len(hist)
    BY <1>0, <1>2
  <2>4. QED
    BY <1>1, <2>1, <2>2, <2>3
<1>5. QED
  BY <1>3, <1>4

(* Every answer is a committed value. *)
LEMMA AnswerCommitted ==
  ASSUME IInv, NEW o, ReaderOK(o), o.pc = 5, NEW k \in Keys
  PROVE  Committed(o.floor, k, Answer(o, k)) /\ Answer(o, k) \in Vals
<1>1. CASE Hit(o, k)
  <2>1. Answer(o, k) = HitVal(o, k)
    BY <1>1 DEF Answer
  <2>2. HitVal(o, k) \in Vals
    BY DEF ReaderOK, Reader, Item, View, HitVal
  <2>3. QED
    BY <1>1, <2>1, <2>2 DEF ReaderOK
<1>2. CASE ~Hit(o, k)
  <2>1. Answer(o, k) = DbView(o)[k]
    BY <1>2 DEF Answer
  <2>2. QED
    BY <2>1, DbViewCommitted DEF Committed, Dbs
<1>3. QED
  BY <1>1, <1>2

(* What was answered once is answered again. *)
LEMMA AnswerAgain ==
  ASSUME IInv, NEW o, ReaderOK(o), NEW k \in Keys, o.seen[k] # Unread
  PROVE  o.seen[k] = Answer(o, k)
BY DEF ReaderOK, Answer, DbView

(* A lookup leaves the reader as it has to be, and answers as the abstract   *)
(* specification has it.                                                     *)
LEMMA ReadsOK ==
  ASSUME IInv, NEW o, ReaderOK(o), o.pc = 5, NEW rd, Reads(o, rd)
  PROVE  /\ ReaderOK(rd)
         /\ \A k \in Keys : \/ rd.seen[k] = o.seen[k]
                            \/ o.seen[k] = Unread /\ Committed(o.floor, k, rd.seen[k])
<1>0. /\ rd \in Reader /\ rd.pc = 5 /\ rd.floor = o.floor /\ rd.cache = o.cache /\ rd.gen = o.gen
      /\ o \in Reader
  BY DEF Reads, ReaderOK
<1>1. DbView(o) \in Dbs
  BY DbViewCommitted
<1>2. ASSUME NEW k \in Keys
      PROVE  IF Hit(rd, k) THEN HitVal(rd, k) = Answer(o, k) ELSE ~Hit(o, k)
  <2>1. CASE rd.local[k] = o.local[k]
    BY <1>0, <2>1 DEF Hit, HitVal, Answer
  <2>2. CASE ~Hit(o, k) /\ rd.local[k] = Set(DbView(o)[k], FALSE)
    BY <1>0, <2>2 DEF Hit, HitVal, Answer, Set
  <2>3. QED
    BY <2>1, <2>2, Zenon DEF Reads
<1>3. \A k \in Keys : Hit(rd, k) => Committed(rd.floor, k, HitVal(rd, k))
  BY <1>0, <1>2, AnswerCommitted
<1>4. rd.db # <<>> => \E i \in rd.floor..Len(hist) :
                        rd.db = hist[i] /\ \A c \in Caches : i >= Start(c) + rd.gen[c]
  <2>1. CASE rd.db = DbView(o)
    BY <1>0, <2>1, DbViewCommitted
  <2>2. CASE rd.db = o.db
    BY <1>0, <2>2 DEF ReaderOK
  <2>3. QED
    BY <2>1, <2>2 DEF Reads
<1>5. ASSUME NEW k \in Keys, rd.seen[k] # Unread
      PROVE  IF Hit(rd, k) THEN rd.seen[k] = HitVal(rd, k)
             ELSE rd.db # <<>> /\ rd.seen[k] = rd.db[k]
  <2>1. rd.seen[k] = Answer(o, k)
    BY <1>5, AnswerAgain DEF Reads
  <2>2. CASE Hit(rd, k)
    BY <1>2, <2>1, <2>2
  <2>3. CASE ~Hit(rd, k)
    <3>1. ~Hit(o, k) /\ rd.seen[k] = DbView(o)[k]
      BY <1>2, <2>1, <2>3 DEF Answer
    <3>2. CASE rd.db = DbView(o)
      BY <1>1, <2>3, <3>1, <3>2, SomeDb
    <3>3. CASE rd.db = o.db /\ rd.seen[k] = o.seen[k]
      BY <1>5, <2>3, <3>1, <3>3 DEF ReaderOK
    <3>4. QED
      BY <3>1, <3>2, <3>3 DEF Reads
  <2>4. QED
    BY <2>2, <2>3
<1>6. ReaderOK(rd)
  <2>1. rd.floor \in 1..acked /\ \A c \in Caches : rd.gen[c] <= gen[c]
    BY <1>0 DEF ReaderOK
  <2>2. QED
    BY <1>0, <1>3, <1>4, <1>5, <2>1 DEF ReaderOK
<1>7. ASSUME NEW k \in Keys
      PROVE  \/ rd.seen[k] = o.seen[k]
             \/ o.seen[k] = Unread /\ Committed(o.floor, k, rd.seen[k])
  BY AnswerAgain, AnswerCommitted DEF Reads
<1>8. QED
  BY <1>6, <1>7

(* get_identry of a list of ids, get_idl and the lookups of names. *)
LEMMA LookupReads ==
  ASSUME IInv, NEW r \in Readers, NEW k \in Keys, Lookup(r, k)
  PROVE  \E rd : Reads(reader[r], rd) /\ reader' = [reader EXCEPT ![r] = rd]
<1> DEFINE o == reader[r]
           v == DbView(o)[k]
<1>0. o \in Reader /\ ReaderOK(o) /\ o.pc = 5 /\ reader \in [Readers -> Reader]
  BY DEF IInv, ReadersOK, Lookup, IsOpen, ReadOrder
<1>1. DbView(o) \in Dbs /\ v \in Vals /\ Answer(o, k) \in Vals
  BY <1>0, DbViewCommitted, AnswerCommitted DEF Dbs
<1>2. CASE Hit(o, k)
  <2> DEFINE rd == [o EXCEPT !.seen[k] = HitVal(o, k)]
  <2>1. reader' = [reader EXCEPT ![r] = rd]
    BY <1>0, <1>2 DEF Lookup
  <2>2. HitVal(o, k) = Answer(o, k)
    BY <1>2 DEF Answer
  <2>3. [o.seen EXCEPT ![k] = HitVal(o, k)] \in [Keys -> Vals \cup {Unread}]
    BY <1>0, <1>1, <2>2 DEF Reader
  <2>4. /\ rd \in Reader
        /\ rd.pc = o.pc /\ rd.floor = o.floor /\ rd.cache = o.cache /\ rd.gen = o.gen
        /\ rd.local = o.local /\ rd.db = o.db /\ rd.seen = [o.seen EXCEPT ![k] = HitVal(o, k)]
    BY <1>0, <2>3, Zenon DEF Reader
  <2> HIDE DEF rd
  <2>5. \A j \in Keys : rd.seen[j] = IF j = k THEN Answer(o, k) ELSE o.seen[j]
    BY <1>0, <2>2, <2>4 DEF Reader
  <2>6. Reads(o, rd)
    BY <1>2, <2>4, <2>5 DEF Reads
  <2>7. QED
    BY <2>1, <2>6, Zenon
<1>3. CASE ~Hit(o, k)
  <2> DEFINE include == v # 0 \/ k \in IdlKeys
             l == IF include THEN Set(v, FALSE) ELSE o.local[k]
             rd == [o EXCEPT !.seen[k] = v, !.db = DbView(o), !.local[k] = l]
  <2>1. reader' = [reader EXCEPT ![r] = rd]
    BY <1>0, <1>3, Zenon DEF Lookup
  <2>2. v = Answer(o, k)
    BY <1>3 DEF Answer
  <2>3. [o.seen EXCEPT ![k] = v] \in [Keys -> Vals \cup {Unread}]
    BY <1>0, <1>1 DEF Reader
  <2>4. l \in View
    BY <1>0, <1>1 DEF Reader, View, Set
  <2>5. [o.local EXCEPT ![k] = l] \in [Keys -> View]
    BY <1>0, <2>4, Zenon DEF Reader
  <2>6. l = o.local[k] \/ l = Set(v, FALSE)
    BY Zenon
  <2> HIDE DEF l
  <2>7. /\ rd \in Reader
        /\ rd.pc = o.pc /\ rd.floor = o.floor /\ rd.cache = o.cache /\ rd.gen = o.gen
        /\ rd.local = [o.local EXCEPT ![k] = l] /\ rd.db = DbView(o)
        /\ rd.seen = [o.seen EXCEPT ![k] = v]
    <3>1. ASSUME NEW n \in Reader, NEW S \in [Keys -> Vals \cup {Unread}], NEW d \in Dbs, NEW L \in [Keys -> View]
          PROVE  [n EXCEPT !.seen = S, !.db = d, !.local = L] \in Reader
      <4>1. [n EXCEPT !.seen = S, !.db = d] \in Reader
        BY Zenon DEF Reader
      <4>2. ASSUME NEW m \in Reader PROVE [m EXCEPT !.local = L] \in Reader
        BY Zenon DEF Reader
      <4>3. [n EXCEPT !.seen = S, !.db = d, !.local = L] = [[n EXCEPT !.seen = S, !.db = d] EXCEPT !.local = L]
        OBVIOUS
      <4>4. QED
        BY <4>1, <4>2, <4>3, Zenon
    <3>2. rd = [o EXCEPT !.seen = [o.seen EXCEPT ![k] = v], !.db = DbView(o),
                         !.local = [o.local EXCEPT ![k] = l]]
      BY <1>0 DEF Reader
    <3>3. rd \in Reader
      BY <1>0, <1>1, <2>3, <2>5, <3>1, <3>2, Zenon
    <3>4. QED
      BY <1>0, <3>2, <3>3 DEF Reader
  <2> HIDE DEF rd
  <2>8. \A j \in Keys : /\ rd.seen[j] = IF j = k THEN Answer(o, k) ELSE o.seen[j]
                        /\ rd.local[j] = IF j = k THEN l ELSE o.local[j]
    BY <1>0, <2>2, <2>7 DEF Reader
  <2>9. Reads(o, rd)
    BY <1>3, <2>6, <2>7, <2>8, Zenon DEF Reads
  <2>10. QED
    BY <2>1, <2>9, Zenon
<1>4. QED
  BY <1>2, <1>3

(* get_identry of all ids. *)
LEMMA ScanReads ==
  ASSUME IInv, NEW r \in Readers, Scan(r)
  PROVE  \E rd : Reads(reader[r], rd) /\ reader' = [reader EXCEPT ![r] = rd]
<1> DEFINE o == reader[r]
           S == [k \in Keys |-> IF k \notin o.allids THEN o.seen[k]
                                ELSE IF Hit(o, k) THEN HitVal(o, k) ELSE DbView(o)[k]]
           d == IF \E k \in o.allids : ~Hit(o, k) THEN DbView(o) ELSE o.db
           rd == [o EXCEPT !.seen = S, !.db = d]
<1>0. o \in Reader /\ ReaderOK(o) /\ o.pc = 5 /\ reader \in [Readers -> Reader]
  BY DEF IInv, ReadersOK, Scan, IsOpen, ReadOrder
<1>1. DbView(o) \in Dbs /\ \A k \in Keys : Answer(o, k) \in Vals
  BY <1>0, DbViewCommitted, AnswerCommitted
<1>2. S = [k \in Keys |-> IF k \notin o.allids THEN o.seen[k] ELSE Answer(o, k)]
  BY DEF Answer
<1>3. S \in [Keys -> Vals \cup {Unread}]
  BY <1>0, <1>1, <1>2 DEF Reader
<1>4. d \in Dbs \cup {<<>>} /\ (d = DbView(o) \/ (d = o.db /\ \A k \in o.allids : Hit(o, k)))
  <2>1. o.db \in Dbs \cup {<<>>}
    BY <1>0 DEF Reader
  <2>2. CASE \E k \in o.allids : ~Hit(o, k)
    <3>1. d = DbView(o)
      BY <2>2, Zenon
    <3> HIDE DEF d
    <3>2. QED
      BY <1>1, <3>1
  <2>3. CASE \A k \in o.allids : Hit(o, k)
    <3>1. d = o.db
      BY <2>3, Zenon
    <3> HIDE DEF d
    <3>2. QED
      BY <2>1, <2>3, <3>1
  <2>4. QED
    BY <2>2, <2>3
<1>5. reader' = [reader EXCEPT ![r] = rd]
  BY <1>0, Zenon DEF Scan
<1>6. \A k \in Keys : /\ S[k] = o.seen[k] \/ S[k] = Answer(o, k)
                      /\ k \notin o.allids => S[k] = o.seen[k]
  BY <1>2
<1> HIDE DEF S, d
<1>7. /\ rd \in Reader /\ rd.seen = S /\ rd.db = d /\ rd.local = o.local
      /\ rd.pc = o.pc /\ rd.floor = o.floor /\ rd.cache = o.cache /\ rd.gen = o.gen
  BY <1>0, <1>3, <1>4, Zenon DEF Reader
<1> HIDE DEF rd
<1>8. Reads(o, rd)
  BY <1>4, <1>6, <1>7 DEF Reads
<1>9. QED
  BY <1>5, <1>8, Zenon

(* The lookups keep the invariant; the offers are not older than the reader's *)
(* generation of the cache.                                                   *)
LEMMA LookupsPreserve ==
  ASSUME IInv, NEW r \in Readers, Scan(r) \/ \E k \in Asked : Lookup(r, k)
  PROVE  IInv'
<1> DEFINE o == reader[r]
<1>0. o \in Reader /\ ReaderOK(o) /\ o.pc = 5 /\ OffersOK /\ ReadersOK /\ gen \in [Caches -> Nat]
  BY Zenon DEF IInv, ReadersOK, Scan, Lookup, IsOpen, ReadOrder, StoreOK
<1>1. PICK rd : Reads(o, rd) /\ reader' = [reader EXCEPT ![r] = rd]
  BY LookupReads, ScanReads, KeysAssumption
<1>2. UNCHANGED <<db, cache, gen, allids, cell, writer, txns, hist, acked, tainted>>
  BY Zenon DEF Scan, Lookup
<1>3. ReadersOK'
  BY <1>0, <1>1, <1>2, ReadsOK, OneReader, Zenon
<1>4. \A x \in offers' : OfferOK(x)
  <2>1. CASE Scan(r)
    BY <1>0, <2>1 DEF Scan, OffersOK
  <2>2. CASE \E k \in Asked : Lookup(r, k)
    <3>1. PICK k \in Keys : Lookup(r, k)
      BY <2>2, KeysAssumption
    <3> DEFINE new == [key |-> k, val |-> DbView(o)[k], gen |-> o.gen[CacheOf(k)]]
    <3>2. offers' \subseteq offers \cup {new}
      BY <3>1, Zenon DEF Lookup
    <3>3. PICK i \in o.floor..Len(hist) : DbView(o) = hist[i] /\ \A c \in Caches : i >= Start(c) + o.gen[c]
      BY <1>0, DbViewCommitted
    <3>4. CacheOf(k) \in Caches /\ o.gen[CacheOf(k)] \in Nat /\ o.gen[CacheOf(k)] <= gen[CacheOf(k)]
      BY <1>0, CacheOfKey DEF Reader, ReaderOK
    <3>5. new \in Offer
      BY <1>0, <3>4, DbViewCommitted DEF Offer, Dbs
    <3>6. i \in (Start(CacheOf(k)) + new.gen)..Len(hist)
      BY <1>0, <3>3, <3>4, Counts DEF Reader
    <3>7. OfferOK(new)
      BY <3>3, <3>4, <3>5, <3>6 DEF OfferOK
    <3>8. QED
      BY <1>0, <3>2, <3>7 DEF OffersOK
  <2>3. QED
    BY <2>1, <2>2
<1>5. OffersOK'
  BY <1>2, <1>4 DEF OffersOK, OfferOK, Start, Has, Behind
<1>6. QED
  BY <1>2, <1>3, <1>5, ReaderFrame

-----------------------------------------------------------------------------
(***************************************************************************)
(* The writer, before SQLite commits.                                      *)
(***************************************************************************)

(* While no cache is behind, a step of the writer that keeps to itself, or   *)
(* publishes cells, leaves the caches and the readers as they are.           *)
LEMMA WriterFrame ==
  ASSUME IInv, UNCHANGED <<db, cache, gen, allids, offers, reader, hist, acked>>,
         txns' \in 1..MaxTxn, writer.pc <= 2, writer'.pc <= 2,
         WriterOK(writer)', AgainstDb', CellsOK'
  PROVE  IInv'
<1>0. writer.pc \in 0..2 /\ writer'.pc \in 0..2
  BY DEF IInv, WriterOK, Writer
<1>1. \A c \in Caches : ~Behind(c) /\ ~Behind(c)'
  BY <1>0 DEF Behind, Place, Caches
<1>2. \A c \in Caches : Has(c)' = Has(c) /\ Start(c)' = Start(c)
  BY <1>1 DEF Has, Start
<1>3. StoreOK' /\ IdsOK' /\ allids' \subseteq EntryKeys
  <2>1. StoreOK'
    BY <1>0, <1>2 DEF IInv, StoreOK
  <2>2. IdsOK' /\ allids' \subseteq EntryKeys
    BY <1>0 DEF IInv, IdsOK, Present
  <2>3. QED
    BY <2>1, <2>2
<1>4. CacheOK'
  BY <1>2, CacheOfKey DEF IInv, CacheOK, ItemOK
<1>5. OffersOK'
  <2>1. \A o \in offers : OfferOK(o) /\ CacheOf(o.key) \in Caches
    BY CacheOfKey DEF IInv, OffersOK, OfferOK, Offer
  <2>2. QED
    BY <1>2, <2>1 DEF OffersOK, OfferOK
<1>6. ReadersOK'
  <2>1. ASSUME NEW r \in Readers PROVE ReaderOK(reader[r])'
    <3>1. ReaderOK(reader[r])
      BY DEF IInv, ReadersOK
    <3>2. PICK p : p = reader[r] /\ p = reader'[r]
      OBVIOUS
    <3>3. ReaderOK(p)'
      BY <1>2, <3>1, <3>2, SameReader
    <3>4. QED
      BY <3>2, <3>3
  <2>2. QED
    BY <2>1 DEF IInv, ReadersOK
<1>7. QED
  BY <1>3, <1>4, <1>5, <1>6 DEF IInv

(* No write transaction. *)
LEMMA NoWriterOK == WriterOK(NoWriter)
<1>1. 0 \in 0..7 /\ 0 \in Nat /\ 0 \in Vals /\ FALSE \in BOOLEAN
  BY MaxTxnAssumption DEF Vals
<1>2. [k \in Keys |-> Untouched] \in [Keys -> View] /\ [k \in Keys |-> 0] \in Dbs /\ [c \in Cells |-> 0] \in [Cells -> Vals]
  BY <1>1 DEF Untouched, View, Dbs
<1>3. NoWriter \in Writer
  BY <1>1, <1>2, Zenon DEF NoWriter, Writer
<1>4. ~NoWriter.open
  BY DEF NoWriter
<1>5. QED
  BY <1>3, <1>4, Zenon DEF WriterOK

\* v is w with other fields as given.
Edited(w, v, D, c, L, W, A) ==
    /\ v \in Writer /\ v.pc = w.pc /\ v.open = w.open /\ v.num = w.num /\ v.cell = w.cell
    /\ v.db = D /\ v.cleared = c /\ v.local = L /\ v.want = W /\ v.allids = A

(* Operations change the view, what is wanted, and the ids. *)
LEMMA Edit ==
  \A w \in Writer, L \in [Keys -> View], W \in Dbs, A \in SUBSET EntryKeys :
    Edited(w, [w EXCEPT !.ops = w.ops + 1, !.local = L, !.want = W, !.allids = A],
           w.db, w.cleared, L, W, A)
<1> SUFFICES ASSUME NEW w \in Writer, NEW L \in [Keys -> View], NEW W \in Dbs, NEW A \in SUBSET EntryKeys
             PROVE  Edited(w, [w EXCEPT !.ops = w.ops + 1, !.local = L, !.want = W, !.allids = A],
                           w.db, w.cleared, L, W, A)
  OBVIOUS
<1> DEFINE u == [w EXCEPT !.ops = w.ops + 1, !.local = L]
           v == [u EXCEPT !.want = W, !.allids = A]
<1>1. w.ops + 1 \in Nat
  BY DEF Writer
<1>2. u \in Writer
  BY <1>1, Zenon DEF Writer
<1>3. /\ u.pc = w.pc /\ u.open = w.open /\ u.num = w.num /\ u.db = w.db
      /\ u.cleared = w.cleared /\ u.cell = w.cell /\ u.local = L
  BY DEF Writer
<1>4. v = [w EXCEPT !.ops = w.ops + 1, !.local = L, !.want = W, !.allids = A]
  OBVIOUS
<1> HIDE DEF u
<1>5. v \in Writer
  BY <1>2, Zenon DEF Writer
<1>6. /\ v.pc = u.pc /\ v.open = u.open /\ v.num = u.num /\ v.db = u.db
      /\ v.cleared = u.cleared /\ v.cell = u.cell /\ v.local = u.local /\ v.want = W /\ v.allids = A
  BY <1>2 DEF Writer
<1> HIDE DEF v
<1>7. Edited(w, v, w.db, w.cleared, L, W, A)
  BY <1>3, <1>5, <1>6 DEF Edited
<1>8. QED
  BY <1>4, <1>7, Zenon

(* A reindex changes the tables of SQLite, too. *)
LEMMA EditTables ==
  \A w \in Writer, D \in Dbs, L \in [Keys -> View], W \in Dbs :
    Edited(w, [w EXCEPT !.ops = w.ops + 1, !.cleared = TRUE, !.db = D, !.local = L, !.want = W],
           D, TRUE, L, W, w.allids)
<1> SUFFICES ASSUME NEW w \in Writer, NEW D \in Dbs, NEW L \in [Keys -> View], NEW W \in Dbs
             PROVE  Edited(w, [w EXCEPT !.ops = w.ops + 1, !.cleared = TRUE, !.db = D, !.local = L, !.want = W],
                           D, TRUE, L, W, w.allids)
  BY Zenon
<1> DEFINE u == [w EXCEPT !.ops = w.ops + 1, !.cleared = TRUE]
           t == [u EXCEPT !.db = D, !.local = L]
           v == [t EXCEPT !.want = W]
<1>1. w.ops + 1 \in Nat
  BY DEF Writer
<1>2. u \in Writer
  BY <1>1, Zenon DEF Writer
<1>3. /\ u.pc = w.pc /\ u.open = w.open /\ u.num = w.num /\ u.allids = w.allids
      /\ u.cleared = TRUE /\ u.cell = w.cell
  BY DEF Writer
<1>4. v = [w EXCEPT !.ops = w.ops + 1, !.cleared = TRUE, !.db = D, !.local = L, !.want = W]
  OBVIOUS
<1> HIDE DEF u
<1>5. t \in Writer
  BY <1>2, Zenon DEF Writer
<1>6. /\ t.pc = u.pc /\ t.open = u.open /\ t.num = u.num /\ t.allids = u.allids
      /\ t.cleared = u.cleared /\ t.cell = u.cell /\ t.db = D /\ t.local = L
  BY <1>2 DEF Writer
<1> HIDE DEF t
<1>7. v \in Writer
  BY <1>5 DEF Writer
<1>8. /\ v.pc = t.pc /\ v.open = t.open /\ v.num = t.num /\ v.db = t.db /\ v.allids = t.allids
      /\ v.cleared = t.cleared /\ v.cell = t.cell /\ v.local = t.local /\ v.want = W
  BY <1>5 DEF Writer
<1> HIDE DEF v
<1>9. Edited(w, v, D, TRUE, L, W, w.allids)
  BY <1>3, <1>6, <1>7, <1>8 DEF Edited
<1>10. QED
  BY <1>4, <1>9, Zenon

(* What an operation has to keep of a transaction that is working. *)
LEMMA WorkingStep ==
  ASSUME IInv, Working, UNCHANGED Keeping, writer' \in Writer,
         writer'.pc = 0, writer'.open, writer'.num = writer.num, writer'.cell = writer.cell,
         \A k \in Keys : ViewOK(writer', k),
         writer'.allids = {k \in EntryKeys : writer'.want[k] # 0},
         \A k \in Keys : writer'.db[k] = IF writer'.cleared /\ k \in IdlKeys THEN 0 ELSE db[k]
  PROVE  IInv'
<1>1. writer.pc = 0 /\ writer.open /\ writer.num > 0
  BY DEF IInv, WriterOK, Working
<1>2. UNCHANGED <<db, cache, gen, allids, offers, reader, hist, acked, cell, tainted, txns>>
  BY DEF Keeping
<1>3. WriterOK(writer)'
  BY <1>1 DEF WriterOK, ViewOK
<1>4. AgainstDb'
  BY <1>2 DEF AgainstDb
<1>5. CellsOK'
  BY <1>1, <1>2 DEF IInv, CellsOK
<1>6. QED
  BY <1>1, <1>2, <1>3, <1>4, <1>5, WriterFrame DEF IInv, StoreOK

(* The writer's facts while it is working. *)
LEMMA WorkingFacts ==
  ASSUME IInv, Working
  PROVE  /\ writer \in Writer /\ writer.pc = 0 /\ writer.open /\ writer.num \in Vals /\ writer.num > 0
         /\ writer.local \in [Keys -> View] /\ writer.want \in Dbs /\ writer.db \in Dbs
         /\ writer.allids = {k \in EntryKeys : writer.want[k] # 0}
         /\ \A k \in Keys : ViewOK(writer, k)
         /\ \A k \in Keys : writer.db[k] = IF writer.cleared /\ k \in IdlKeys THEN 0 ELSE db[k]
BY DEF IInv, WriterOK, Writer, Working, AgainstDb

(* write_identries, write_idl, write_name2uuid_add. *)
LEMMA PutPreserves ==
  ASSUME IInv, NEW k \in Keys, Put(k)
  PROVE  IInv'
<1> DEFINE L == [writer.local EXCEPT ![k] = Set(writer.num, TRUE)]
           W == [writer.want EXCEPT ![k] = writer.num]
           A == IF k \in EntryKeys THEN writer.allids \cup {k} ELSE writer.allids
<1>0. Working /\ UNCHANGED Keeping
  BY DEF Put, May
<1>1. Set(writer.num, TRUE) \in View /\ L \in [Keys -> View] /\ W \in Dbs /\ A \in SUBSET EntryKeys
  BY <1>0, WorkingFacts, Zenon DEF Set, View, Dbs
<1>2. writer' = [writer EXCEPT !.ops = writer.ops + 1, !.local = L, !.want = W, !.allids = A]
  BY <1>0, WorkingFacts DEF Put, Writer
<1>3. \A j \in Keys : /\ L[j] = IF j = k THEN Set(writer.num, TRUE) ELSE writer.local[j]
                      /\ W[j] = IF j = k THEN writer.num ELSE writer.want[j]
  BY <1>0, WorkingFacts, Zenon DEF Dbs
<1>4. A = {j \in EntryKeys : W[j] # 0}
  <2>1. writer.num # 0
    BY <1>0, WorkingFacts, MaxTxnAssumption DEF Vals
  <2>2. writer.allids = {j \in EntryKeys : writer.want[j] # 0}
    BY <1>0, WorkingFacts
  <2>3. \A j \in EntryKeys : W[j] = IF j = k THEN writer.num ELSE writer.want[j]
    BY <1>3, Zenon DEF Keys
  <2> HIDE DEF W
  <2>4. QED
    BY <2>1, <2>2, <2>3
<1> HIDE DEF L, W, A
<1>5. /\ writer' \in Writer /\ writer'.pc = 0 /\ writer'.open /\ writer'.num = writer.num
      /\ writer'.db = writer.db /\ writer'.cleared = writer.cleared /\ writer'.cell = writer.cell
      /\ writer'.local = L /\ writer'.want = W /\ writer'.allids = A
  <2>1. writer \in Writer /\ writer.pc = 0 /\ writer.open
    BY <1>0, WorkingFacts
  <2>2. Edited(writer, writer', writer.db, writer.cleared, L, W, A)
    BY <1>1, <1>2, <2>1, Edit, Zenon
  <2>3. QED
    BY <2>1, <2>2 DEF Edited
<1>6. ASSUME NEW j \in Keys PROVE ViewOK(writer', j)
  <2>1. CASE j = k
    BY <1>3, <1>5, <2>1 DEF ViewOK, Set
  <2>2. CASE j # k
    <3>1. ViewOK(writer, j) /\ L[j] = writer.local[j] /\ W[j] = writer.want[j]
      BY <1>0, <1>3, <2>2, WorkingFacts, Zenon
    <3>2. QED
      BY <1>5, <3>1 DEF ViewOK
  <2>3. QED
    BY <2>1, <2>2
<1>7. QED
  BY <1>0, <1>4, <1>5, <1>6, WorkingFacts, WorkingStep, Zenon

(* delete_identry, write_idl of an empty list, write_name2uuid_rem. *)
LEMMA DropPreserves ==
  ASSUME IInv, NEW k \in Keys, Drop(k)
  PROVE  IInv'
<1> DEFINE l == IF k \in IdlKeys THEN Set(0, TRUE) ELSE Removed
           L == [writer.local EXCEPT ![k] = l]
           W == [writer.want EXCEPT ![k] = 0]
           A == writer.allids \ {k}
<1>0. Working /\ UNCHANGED Keeping /\ ~Mirrored(k)
  BY DEF Drop, May
<1>1. l \in View /\ 0 \in Vals
  BY MaxTxnAssumption DEF Set, Removed, View, Vals
<1>2. writer' = [writer EXCEPT !.ops = writer.ops + 1, !.local = L, !.want = W, !.allids = A]
  BY <1>0, WorkingFacts DEF Drop, Writer
<1>3. /\ l.dirty /\ l.val = 0 /\ l.at \in {"set", "removed"} /\ (l.at = "removed" => k \notin IdlKeys)
  BY DEF Set, Removed
<1> HIDE DEF l
<1>4. L \in [Keys -> View] /\ W \in Dbs /\ A \in SUBSET EntryKeys
  BY <1>0, <1>1, WorkingFacts DEF Dbs
<1>5. \A j \in Keys : /\ L[j] = IF j = k THEN l ELSE writer.local[j]
                      /\ W[j] = IF j = k THEN 0 ELSE writer.want[j]
  BY <1>0, WorkingFacts DEF Dbs
<1>6. A = {j \in EntryKeys : W[j] # 0}
  BY <1>0, <1>5, WorkingFacts DEF Keys
<1> HIDE DEF L, W, A
<1>7. /\ writer' \in Writer /\ writer'.pc = 0 /\ writer'.open /\ writer'.num = writer.num
      /\ writer'.db = writer.db /\ writer'.cleared = writer.cleared /\ writer'.cell = writer.cell
      /\ writer'.local = L /\ writer'.want = W /\ writer'.allids = A
  <2>1. writer \in Writer /\ writer.pc = 0 /\ writer.open
    BY <1>0, WorkingFacts
  <2>2. Edited(writer, writer', writer.db, writer.cleared, L, W, A)
    BY <1>2, <1>4, <2>1, Edit, Zenon
  <2>3. QED
    BY <2>1, <2>2 DEF Edited
<1>8. ASSUME NEW j \in Keys PROVE ViewOK(writer', j)
  <2>1. CASE j = k
    BY <1>0, <1>3, <1>5, <1>7, <2>1 DEF ViewOK
  <2>2. CASE j # k
    <3>1. ViewOK(writer, j) /\ L[j] = writer.local[j] /\ W[j] = writer.want[j]
      BY <1>0, <1>5, <2>2, WorkingFacts
    <3>2. QED
      BY <1>7, <3>1 DEF ViewOK
  <2>3. QED
    BY <2>1, <2>2
<1>9. QED
  BY <1>0, <1>6, <1>7, <1>8, WorkingFacts, WorkingStep

(* reindex. *)
LEMMA ReindexPreserves ==
  ASSUME IInv, NEW S \in SUBSET IdlKeys, Reindex(S)
  PROVE  IInv'
<1> DEFINE D == [k \in Keys |-> IF k \in IdlKeys THEN 0 ELSE writer.db[k]]
           L == [k \in Keys |-> IF k \in S THEN Set(writer.num, TRUE)
                                ELSE IF k \in IdlKeys THEN Untouched ELSE writer.local[k]]
           W == [k \in Keys |-> IF k \in S THEN writer.num
                                ELSE IF k \in IdlKeys THEN 0 ELSE writer.want[k]]
<1>0. Working /\ UNCHANGED Keeping
  BY DEF Reindex, May
<1>1. Set(writer.num, TRUE) \in View /\ Untouched \in View /\ 0 \in Vals
  BY <1>0, WorkingFacts, MaxTxnAssumption DEF Set, Untouched, View, Vals
<1>2. D \in Dbs /\ L \in [Keys -> View] /\ W \in Dbs
  BY <1>0, <1>1, WorkingFacts, Zenon DEF Dbs
<1>3. writer' = [writer EXCEPT !.ops = writer.ops + 1, !.cleared = TRUE, !.db = D, !.local = L, !.want = W]
  BY DEF Reindex
<1>4. \A k \in Keys : /\ D[k] = IF k \in IdlKeys THEN 0 ELSE writer.db[k]
                      /\ L[k] = IF k \in S THEN Set(writer.num, TRUE)
                                ELSE IF k \in IdlKeys THEN Untouched ELSE writer.local[k]
                      /\ W[k] = IF k \in S THEN writer.num
                                ELSE IF k \in IdlKeys THEN 0 ELSE writer.want[k]
  OBVIOUS
<1> HIDE DEF D, L, W
<1>5. /\ writer' \in Writer /\ writer'.pc = 0 /\ writer'.open /\ writer'.num = writer.num
      /\ writer'.db = D /\ writer'.cleared = TRUE /\ writer'.cell = writer.cell
      /\ writer'.local = L /\ writer'.want = W /\ writer'.allids = writer.allids
  <2>1. writer \in Writer /\ writer.pc = 0 /\ writer.open
    BY <1>0, WorkingFacts
  <2>2. Edited(writer, writer', D, TRUE, L, W, writer.allids)
    BY <1>2, <1>3, <2>1, EditTables, Zenon
  <2>3. QED
    BY <2>1, <2>2 DEF Edited
<1>6. ASSUME NEW j \in Keys PROVE ViewOK(writer', j)
  <2>1. CASE j \in IdlKeys
    BY <1>4, <1>5, <2>1 DEF ViewOK, Set, Untouched
  <2>2. CASE j \notin IdlKeys
    <3>1. D[j] = writer.db[j] /\ L[j] = writer.local[j] /\ W[j] = writer.want[j]
      BY <1>4, <2>2, Zenon
    <3>2. QED
      BY <1>0, <1>5, <3>1, WorkingFacts DEF ViewOK
  <2>3. QED
    BY <2>1, <2>2
<1>7. writer.allids = {j \in EntryKeys : W[j] # 0}
  <2>1. \A j \in EntryKeys : W[j] = writer.want[j]
    BY <1>4, KeysAssumption, Zenon DEF Keys
  <2>2. QED
    BY <1>0, <2>1, WorkingFacts
<1>8. \A j \in Keys : D[j] = IF j \in IdlKeys THEN 0 ELSE db[j]
  BY <1>0, <1>4, WorkingFacts, Zenon
<1>9. QED
  BY <1>0, <1>5, <1>6, <1>7, <1>8, WorkingStep

(* The lookups of the writer: what it takes from SQLite is clean. *)
LEMMA WLookupPreserves ==
  ASSUME IInv, NEW k \in Keys, WLookup(k)
  PROVE  IInv'
<1> DEFINE hit == writer.local[k].at = "set" \/ (writer.local[k].at = "main" /\ InMain(k))
           v == WriterVal(k)
           l == IF ~hit /\ (k \in IdlKeys \/ (k \in NameKeys /\ v # 0)) THEN Set(v, FALSE) ELSE writer.local[k]
           L == [writer.local EXCEPT ![k] = l]
<1>0. Working /\ UNCHANGED Keeping
  BY DEF WLookup, May
<1>1. ~hit => v = writer.db[k]
  BY DEF WriterVal
<1>2. \/ l = writer.local[k]
      \/ l = Set(writer.db[k], FALSE) /\ ~hit /\ k \notin EntryKeys
  BY <1>1, KeysAssumption, Zenon
<1>3. l \in View
  BY <1>0, <1>2, WorkingFacts DEF Set, View, Dbs
<1>4. writer' = [writer EXCEPT !.ops = @ + 1, !.local = L]
  BY <1>0, WorkingFacts DEF WLookup, Writer
<1>5. ViewOK(writer, k) /\ (l # writer.local[k] => writer.local[k].at # "set")
  BY <1>0, <1>2, WorkingFacts, Zenon
<1> HIDE DEF l
<1>6. L \in [Keys -> View] /\ \A j \in Keys : L[j] = IF j = k THEN l ELSE writer.local[j]
  BY <1>0, <1>3, WorkingFacts
<1> HIDE DEF L
<1>7. /\ writer' \in Writer /\ writer'.pc = 0 /\ writer'.open /\ writer'.num = writer.num
      /\ writer'.db = writer.db /\ writer'.cleared = writer.cleared /\ writer'.cell = writer.cell
      /\ writer'.local = L /\ writer'.want = writer.want /\ writer'.allids = writer.allids
  <2>1. writer.ops + 1 \in Nat
    BY <1>0, WorkingFacts DEF Writer
  <2>2. writer' \in Writer
    BY <1>0, <1>4, <1>6, <2>1, WorkingFacts, Zenon DEF Writer
  <2>3. QED
    BY <1>0, <1>4, <2>2, WorkingFacts DEF Writer
<1>8. ASSUME NEW j \in Keys PROVE ViewOK(writer', j)
  <2>1. CASE j # k \/ l = writer.local[k]
    <3>1. ViewOK(writer, j) /\ L[j] = writer.local[j]
      BY <1>0, <1>6, <2>1, WorkingFacts
    <3>2. QED
      BY <1>7, <3>1 DEF ViewOK
  <2>2. CASE j = k /\ l = Set(writer.db[k], FALSE) /\ ~hit /\ k \notin EntryKeys
    <3>1. k \in IdlKeys => ~writer.local[k].dirty
      BY <1>5, <2>2 DEF ViewOK, View, IInv, WriterOK, Writer
    <3>2. writer'.local[k] = Set(writer.db[k], FALSE)
      BY <1>6, <1>7, <2>2, Zenon
    <3>3. QED
      BY <1>5, <1>7, <2>2, <3>1, <3>2 DEF ViewOK, Set
  <2>3. QED
    BY <1>2, <2>1, <2>2, Zenon
<1>9. QED
  BY <1>0, <1>7, <1>8, WorkingFacts, WorkingStep

(* QueryServer::write. *)
LEMMA BeginWritePreserves ==
  ASSUME IInv, BeginWrite
  PROVE  IInv'
<1>0. /\ db \in Dbs /\ txns \in 1..MaxTxn /\ txns + 1 \in 1..MaxTxn /\ cell \in [Cells -> Vals] /\ writer = NoWriter
      /\ allids \subseteq EntryKeys /\ 0 \in Vals
  BY MaxTxnAssumption DEF IInv, StoreOK, CellsOK, WriterOK, BeginWrite, Vals
<1>1. writer.pc = 0
  BY <1>0 DEF NoWriter
<1>2. writer' = [pc |-> 0, open |-> TRUE, num |-> txns + 1, ops |-> 0, db |-> db,
                 local |-> [k \in Keys |-> Untouched], cleared |-> FALSE, allids |-> allids,
                 cell |-> cell, want |-> db]
  BY Zenon DEF BeginWrite, NoWriter
<1>3. [k \in Keys |-> Untouched] \in [Keys -> View]
  BY <1>0 DEF Untouched, View
<1>4. writer' \in Writer
  <2>1. txns + 1 \in Vals
    BY <1>0, MaxTxnAssumption DEF Vals
  <2>2. 0 \in 0..7 /\ 0 \in Nat /\ TRUE \in BOOLEAN /\ FALSE \in BOOLEAN
    OBVIOUS
  <2>3. QED
    BY <1>0, <1>2, <1>3, <2>1, <2>2, Zenon DEF Writer
<1>5. UNCHANGED <<db, cache, gen, allids, offers, reader, hist, acked, cell, tainted>>
  BY DEF BeginWrite
<1>6. WriterOK(writer)'
  <2>1. allids = {k \in EntryKeys : db[k] # 0}
    BY <1>1 DEF IInv, IdsOK, Present
  <2>2. \A k \in Keys : ViewOK(writer', k)
    BY <1>2 DEF ViewOK, Untouched
  <2>3. writer'.num > 0 /\ writer'.open /\ writer'.allids = {k \in EntryKeys : writer'.want[k] # 0}
    BY <1>0, <1>2, <2>1
  <2>4. QED
    BY <1>4, <2>2, <2>3 DEF WriterOK, ViewOK
<1>7. AgainstDb'
  BY <1>2, <1>5 DEF AgainstDb
<1>8. CellsOK'
  <2>1. writer'.pc = 0 /\ writer'.cell = cell
    BY <1>2
  <2>2. QED
    BY <1>1, <1>5, <2>1 DEF IInv, CellsOK
<1>9. QED
  <2>1. txns' \in 1..MaxTxn /\ writer'.pc = 0
    <3>1. txns' = txns + 1
      BY DEF BeginWrite
    <3>2. QED
      BY <1>0, <1>2, <3>1
  <2>2. QED
    BY <1>1, <1>5, <1>6, <1>7, <1>8, <2>1, WriterFrame

(* The transaction is dropped, or SQLite rolls it back. *)
LEMMA GiveUpPreserves ==
  ASSUME IInv, Abort \/ FailDb
  PROVE  IInv'
<1>0. writer \in Writer /\ writer.pc \in 0..7
  BY DEF IInv, WriterOK, Writer
<1>1. /\ UNCHANGED <<db, cache, gen, allids, offers, reader, hist, acked, cell, txns>>
      /\ writer' = NoWriter
  BY DEF Abort, FailDb
<1>2. writer.pc \in {0, 2}
  BY <1>0, Places DEF Abort, FailDb, Working
<1>3. WriterOK(writer)' /\ writer'.pc = 0 /\ ~writer'.open
  BY <1>1, NoWriterOK DEF NoWriter, WriterOK, ViewOK
<1>4. AgainstDb'
  BY <1>3 DEF AgainstDb
<1>5. CellsOK'
  <2>1. CASE Abort
    BY <1>1, <1>3, <2>1 DEF IInv, CellsOK, Abort, Working
  <2>2. CASE FailDb
    <3>1. writer.pc = 2
      BY <1>0, <2>2, Places DEF FailDb
    <3>2. tainted' = (tainted \/ \E c \in Cells \ {"idxmeta"} : writer.cell[c] # db[Mirror[c]])
      BY <2>2 DEF FailDb
    <3>3. ASSUME ~tainted', NEW c \in Cells PROVE cell[c] = db[Mirror[c]]
      <4>1. ~tainted /\ \A e \in Cells \ {"idxmeta"} : writer.cell[e] = db[Mirror[e]]
        BY <3>2, <3>3, Zenon
      <4>2. QED
        BY <3>1, <4>1 DEF IInv, CellsOK
    <3>4. cell \in [Cells -> Vals] /\ tainted' \in BOOLEAN
      BY <3>2 DEF IInv, CellsOK
    <3>5. ~tainted' => \A c \in Cells : cell'[c] = db'[Mirror[c]]
      BY <1>1, <3>3, Zenon
    <3>6. writer'.pc = 0 /\ ~writer'.open /\ cell' \in [Cells -> Vals]
      BY <1>1, <1>3, <3>4
    <3>7. QED
      BY <3>4, <3>5, <3>6 DEF CellsOK
  <2>3. QED
    BY <2>1, <2>2
<1>6. QED
  <2>1. txns' \in 1..MaxTxn
    BY <1>1 DEF IInv, StoreOK
  <2>2. writer.pc <= 2 /\ writer'.pc <= 2
    BY <1>2, <1>3
  <2>3. QED
    BY <1>1, <1>3, <1>4, <1>5, <2>1, <2>2, WriterFrame

(* Only the place in the commit changes. *)
LEMMA Advance ==
  ASSUME IInv, writer.pc \in 1..6, writer' = [writer EXCEPT !.pc = @ + 1]
  PROVE  /\ WriterOK(writer)' /\ writer.open /\ writer'.open /\ writer'.pc = writer.pc + 1
         /\ writer'.local = writer.local /\ writer'.db = writer.db /\ writer'.cleared = writer.cleared
         /\ writer'.cell = writer.cell /\ writer'.want = writer.want /\ writer'.allids = writer.allids
         /\ Flushed' = Flushed
<1>0. writer \in Writer /\ writer.pc + 1 \in 0..7
  BY DEF IInv, WriterOK
<1>1. /\ writer' \in Writer /\ writer'.pc = writer.pc + 1 /\ writer'.open = writer.open
      /\ writer'.local = writer.local /\ writer'.db = writer.db /\ writer'.cleared = writer.cleared
      /\ writer'.cell = writer.cell /\ writer'.want = writer.want /\ writer'.allids = writer.allids
      /\ writer'.num = writer.num
  BY <1>0 DEF Writer
<1>2. writer.open
  BY DEF IInv, WriterOK, NoWriter
<1>3. ASSUME NEW k \in Keys PROVE ViewOK(writer', k)
  BY <1>1, <1>2 DEF IInv, WriterOK, ViewOK
<1>4. WriterOK(writer)'
  BY <1>1, <1>2, <1>3 DEF IInv, WriterOK, ViewOK
<1>5. Flushed' = Flushed
  BY <1>1 DEF Flushed
<1>6. QED
  BY <1>1, <1>2, <1>4, <1>5

(* commit loads the cells again whose entries have changed. *)
LEMMA BeginCommitPreserves ==
  ASSUME IInv, BeginCommit
  PROVE  IInv'
<1> DEFINE C == [c \in Cells |-> IF writer.local[Mirror[c]].dirty THEN WriterVal(Mirror[c]) ELSE writer.cell[c]]
<1>0. Working /\ UNCHANGED Keeping /\ writer' = [writer EXCEPT !.pc = 1, !.cell = C]
  BY DEF BeginCommit
<1>1. \A c \in Cells : Mirror[c] \in EntryKeys /\ Mirror[c] \in Keys /\ Mirror[c] \notin IdlKeys /\ Mirrored(Mirror[c])
  BY MirrorAssumption, KeysAssumption DEF Keys, Mirrored
<1>2. ASSUME NEW c \in Cells
      PROVE  C[c] = IF writer.local[Mirror[c]].dirty THEN writer.local[Mirror[c]].val ELSE writer.cell[c]
  <2>1. writer.local[Mirror[c]].dirty => writer.local[Mirror[c]].at = "set"
    <3>1. ViewOK(writer, Mirror[c]) /\ writer.local[Mirror[c]] \in View
      BY <1>0, <1>1, WorkingFacts
    <3>2. QED
      BY <1>1, <3>1 DEF ViewOK, View
  <2>2. QED
    BY <2>1 DEF WriterVal
<1>3. C \in [Cells -> Vals]
  <2>1. \A c \in Cells : writer.local[Mirror[c]].val \in Vals /\ writer.cell[c] \in Vals
    BY <1>0, <1>1, WorkingFacts DEF Writer, View
  <2>2. \A c \in Cells : C[c] \in Vals
    BY <1>2, <2>1
  <2>3. QED
    BY <2>2
<1> HIDE DEF C
<1>4. /\ writer' \in Writer /\ writer'.pc = 1 /\ writer'.open = writer.open /\ writer'.num = writer.num
      /\ writer'.local = writer.local /\ writer'.db = writer.db /\ writer'.cleared = writer.cleared
      /\ writer'.cell = C /\ writer'.want = writer.want /\ writer'.allids = writer.allids
  <2>1. writer \in Writer /\ 1 \in 0..7
    BY <1>0, WorkingFacts
  <2>2. QED
    BY <1>0, <1>3, <2>1, Zenon DEF Writer
<1>5. UNCHANGED <<db, cache, gen, allids, offers, reader, hist, acked, cell, tainted, txns>>
  BY <1>0 DEF Keeping
<1>6. WriterOK(writer)'
  <2>1. ASSUME NEW k \in Keys PROVE ViewOK(writer', k)
    <3>1. ViewOK(writer, k)
      BY <1>0, WorkingFacts
    <3>2. QED
      BY <1>4, <3>1 DEF ViewOK
  <2>2. QED
    BY <1>0, <1>4, <2>1, WorkingFacts DEF WriterOK, ViewOK
<1>7. AgainstDb'
  BY <1>0, <1>4, <1>5, WorkingFacts DEF AgainstDb
<1>8. CellsOK'
  <2>1. Flushed' = Flushed
    BY <1>4 DEF Flushed
  <2>2. ASSUME ~tainted, NEW c \in Cells PROVE C[c] = Flushed[Mirror[c]]
    <3>1. writer.cell[c] = db[Mirror[c]] /\ writer.db[Mirror[c]] = db[Mirror[c]]
      BY <1>0, <1>1, <2>2, WorkingFacts DEF IInv, CellsOK
    <3>2. QED
      BY <1>1, <1>2, <3>1 DEF Flushed
  <2>3. QED
    BY <1>0, <1>4, <1>5, <2>1, <2>2, WorkingFacts DEF IInv, CellsOK
<1>9. QED
  <2>1. txns' \in 1..MaxTxn /\ writer.pc = 0
    BY <1>0, <1>5, WorkingFacts DEF IInv, StoreOK
  <2>2. QED
    BY <1>4, <1>5, <1>6, <1>7, <1>8, <2>1, WriterFrame

(* The schema, the domain information and the access controls. *)
LEMMA PublishCellsPreserves ==
  ASSUME IInv, PublishCells
  PROVE  IInv'
<1>0. writer.pc = 1 /\ writer' = [writer EXCEPT !.pc = @ + 1]
  BY Places DEF PublishCells, IInv, WriterOK, Writer
<1>1. UNCHANGED <<db, cache, gen, allids, offers, reader, hist, acked, tainted, txns>>
  BY DEF PublishCells
<1>2. WriterOK(writer)' /\ writer'.pc = 2 /\ writer.open
  BY <1>0, Advance
<1>3. AgainstDb'
  BY <1>0, <1>1, <1>2, Advance DEF IInv, AgainstDb
<1>4. CellsOK'
  <2>1. cell' = [c \in Cells |-> IF c = "idxmeta" THEN cell[c] ELSE writer.cell[c]]
    BY DEF PublishCells
  <2>2. cell' \in [Cells -> Vals]
    BY <2>1 DEF IInv, CellsOK, WriterOK, Writer
  <2>3. writer'.cell = writer.cell /\ Flushed' = Flushed
    BY <1>0, Advance
  <2>4. QED
    BY <1>0, <1>1, <1>2, <2>1, <2>2, <2>3 DEF IInv, CellsOK, Cells
<1>5. QED
  <2>1. txns' \in 1..MaxTxn
    BY <1>1 DEF IInv, StoreOK
  <2>2. QED
    BY <1>0, <1>1, <1>2, <1>3, <1>4, <2>1, WriterFrame


-----------------------------------------------------------------------------
(***************************************************************************)
(* The commit.                                                             *)
(***************************************************************************)

(* What readers have and have offered stays right while commits are added    *)
(* and caches are published.                                                 *)
LEMMA Lasting ==
  ASSUME IInv, Len(hist') \in Nat, Len(hist) <= Len(hist'), \A i \in 1..Len(hist) : hist'[i] = hist[i],
         \A c \in Caches : Start(c)' = Start(c) /\ gen'[c] \in Nat /\ gen[c] <= gen'[c],
         acked' \in Nat, acked <= acked', reader' = reader, offers' \subseteq offers
  PROVE  OffersOK' /\ ReadersOK'
<1>0. /\ Len(hist) \in Nat /\ acked \in Nat /\ acked > 0
      /\ \A c \in Caches : gen[c] \in Nat /\ Start(c) \in Nat /\ Start(c) > 0
  BY Counts DEF Caches
<1>1. OffersOK'
  <2>1. ASSUME NEW o \in offers PROVE OfferOK(o)'
    <3> DEFINE c == CacheOf(o.key)
    <3>1. o \in Offer /\ o.gen <= gen[c] /\ c \in Caches /\ o.gen \in Nat /\ o.key \in Keys
      BY CacheOfKey DEF IInv, OffersOK, OfferOK, Offer
    <3>2. PICK i \in (Start(c) + o.gen)..Len(hist) : o.val = hist[i][o.key]
      BY DEF IInv, OffersOK, OfferOK
    <3>3. i \in 1..Len(hist) /\ i \in (Start(c)' + o.gen)..Len(hist')
      BY <1>0, <3>1, <3>2
    <3>4. o.val = hist'[i][o.key]
      BY <3>2, <3>3
    <3>5. o.gen <= gen'[c]
      BY <1>0, <3>1
    <3>6. QED
      BY <3>1, <3>3, <3>4, <3>5 DEF OfferOK
  <2>2. QED
    BY <2>1 DEF OffersOK
<1>2. ASSUME NEW r \in Readers PROVE ReaderOK(reader[r])'
  <2>a. PICK rd : rd = reader[r]
    BY Zenon
  <2>b. SUFFICES ReaderOK(rd)'
    BY <2>a, Zenon
  <2>c. ReaderOK(rd)
    BY <2>a, Zenon DEF IInv, ReadersOK
  <2>0. rd \in Reader /\ rd.floor \in Nat /\ rd.gen \in [Caches -> Nat]
    BY <2>c DEF ReaderOK, Reader
  <2>1. CASE rd.pc = 0
    <3>1. rd = NoReader
      BY <2>c, <2>1, Zenon DEF ReaderOK
    <3>2. \A c \in Caches : 0 <= gen'[c]
      OBVIOUS
    <3>3. ~ (0 > 0)
      OBVIOUS
    <3>4. QED
      BY <2>0, <3>1, <3>2, <3>3, NoReaderHasNothing, Zenon DEF ReaderOK, Nothing
  <2>2. CASE rd.pc # 0
    <3>1. rd.pc \in 1..5 /\ rd.floor \in 1..acked
      <4>1. rd.pc \in 0..5
        BY <2>0 DEF Reader
      <4>2. rd.pc > 0
        BY <2>2, <4>1
      <4>3. rd.floor \in 1..acked
        BY <2>c, <4>2, Zenon DEF ReaderOK
      <4>4. QED
        BY <4>1, <4>2, <4>3
    <3>2. \A i \in rd.floor..Len(hist) : i \in rd.floor..Len(hist') /\ i \in 1..Len(hist)
      BY <1>0, <2>0, <3>1
    <3>3. \A k, v : Committed(rd.floor, k, v) => Committed(rd.floor, k, v)'
      BY <3>2 DEF Committed
    <3>4. \A c \in Caches : rd.gen[c] <= gen'[c]
      <4>1. \A c \in Caches : rd.gen[c] <= gen[c]
        BY <2>c, Zenon DEF ReaderOK
      <4>2. QED
        BY <1>0, <2>0, <4>1
    <3>5. rd.db # <<>> => \E i \in rd.floor..Len(hist') :
                            rd.db = hist'[i] /\ \A c \in Caches : i >= Start(c)' + rd.gen[c]
      BY <2>c, <3>2, Zenon DEF ReaderOK
    <3>6. rd.floor \in 1..acked'
      BY <1>0, <3>1
    <3>7. \A k \in Keys : Hit(rd, k) => Committed(rd.floor, k, HitVal(rd, k))'
      BY <2>c, <3>3, Zenon DEF ReaderOK, HitVal
    <3>8. QED
      BY <2>2, <2>c, <3>4, <3>5, <3>6, <3>7, Zenon DEF ReaderOK, Hit, HitVal
  <2>3. QED
    BY <2>1, <2>2
<1>3. QED
  BY <1>1, <1>2 DEF IInv, ReadersOK

(* The dirty content of the caches goes to SQLite: the caches are behind. *)
LEMMA CommitDbPreserves ==
  ASSUME IInv, CommitDb
  PROVE  IInv'
<1>0. /\ writer.pc = 2 /\ writer' = [writer EXCEPT !.pc = @ + 1] /\ hist \in Seq(Dbs) /\ Len(hist) \in Nat
      /\ Len(hist) > 0 /\ db = hist[Len(hist)] /\ gen \in [Caches -> Nat]
  BY Places DEF CommitDb, IInv, WriterOK, Writer, StoreOK
<1>1. /\ UNCHANGED <<cache, gen, allids, cell, offers, reader, txns, acked, tainted>>
      /\ db' = Flushed /\ hist' = Append(hist, Flushed)
  BY DEF CommitDb
<1>2. /\ WriterOK(writer)' /\ writer'.pc = 3 /\ writer.open /\ writer'.open /\ Flushed' = Flushed
      /\ writer'.cell = writer.cell /\ writer'.local = writer.local /\ writer'.cleared = writer.cleared
  BY <1>0, Advance
<1>3. Flushed \in Dbs
  BY DEF IInv, WriterOK, Writer, View, Flushed, Dbs
<1>4. /\ Len(hist') = Len(hist) + 1 /\ hist' \in Seq(Dbs) /\ hist'[Len(hist')] = Flushed
      /\ \A i \in 1..Len(hist) : hist'[i] = hist[i]
  BY <1>0, <1>1, <1>3
<1>5. \A c \in Caches : ~Behind(c) /\ Behind(c)'
  BY <1>0, <1>2 DEF Behind, Place
<1>6. \A c \in Caches : Has(c) = Len(hist) /\ Has(c)' = Len(hist) /\ Start(c)' = Start(c)
  BY <1>0, <1>1, <1>4, <1>5 DEF Has, Start
<1>7. StoreOK'
  <2>1. acked = Len(hist) /\ \A c \in Caches : Start(c) > 0
    BY <1>0 DEF IInv, StoreOK
  <2>2. acked' = Len(hist') - 1
    BY <1>0, <1>1, <1>4, <2>1
  <2>3. QED
    BY <1>0, <1>1, <1>2, <1>4, <1>6, <2>1, <2>2 DEF IInv, StoreOK
<1>8. AgainstDb'
  <2>1. ASSUME NEW k \in Keys, Left(writer, k) PROVE hist[Len(hist)][k] = Flushed[k]
    <3>1. ~writer.local[k].dirty
      BY <1>2, <2>1 DEF IInv, WriterOK, ViewOK, Left
    <3>2. writer.db[k] = db[k]
      BY <1>0, <1>2, <2>1 DEF IInv, AgainstDb, Left
    <3>3. QED
      BY <1>0, <3>1, <3>2 DEF Flushed
  <2>2. \A k \in Keys : Left(writer, k)' => Left(writer, k)
    BY <1>2 DEF Left
  <2>3. Len(hist') - 1 = Len(hist) /\ hist'[Len(hist)] = hist[Len(hist)] /\ Len(hist') > 1
    BY <1>0, <1>4
  <2>4. QED
    BY <1>1, <1>2, <2>1, <2>2, <2>3 DEF AgainstDb
<1>9. IdsOK' /\ allids' \subseteq EntryKeys
  BY <1>1, <1>2 DEF IInv, IdsOK
<1>10. CellsOK'
  BY <1>0, <1>1, <1>2 DEF IInv, CellsOK
<1>11. CacheOK'
  <2>1. ASSUME NEW k \in Keys PROVE ItemOK(k, cache[k])'
    <3> DEFINE c == CacheOf(k)
    <3>1. ItemOK(k, cache[k]) /\ c \in Caches /\ cache[k] \in Item /\ cache[k].gen \in Nat
      BY CacheOfKey DEF IInv, CacheOK, Item
    <3>2. \A j \in (Start(c) + cache[k].gen)..Has(c) : j \in 1..Len(hist)
      BY <1>6, <3>1, Counts
    <3>3. hist'[Has(c)'][k] = hist[Has(c)][k]
      BY <1>0, <1>4, <1>6, <3>1
    <3>4. QED
      BY <1>1, <1>4, <1>6, <3>1, <3>2, <3>3, Zenon DEF ItemOK
  <2>2. QED
    BY <1>1, <2>1 DEF IInv, CacheOK
<1>12. OffersOK' /\ ReadersOK'
  <2>1. acked \in Nat /\ Len(hist') \in Nat /\ Len(hist) <= Len(hist') /\ \A c \in Caches : gen[c] \in Nat
    BY <1>0, <1>4 DEF IInv, StoreOK
  <2>2. QED
    BY <1>1, <1>4, <1>6, <2>1, Lasting
<1>13. QED
  BY <1>2, <1>7, <1>8, <1>9, <1>10, <1>11, <1>12 DEF IInv

(* Before and after SQLite has committed, every key of the writer is known. *)
LEMMA AfterDb ==
  ASSUME IInv, writer.pc > 2
  PROVE  /\ writer.open /\ db = Flushed /\ db = hist[Len(hist)] /\ Len(hist) \in Nat /\ Len(hist) > 1
         /\ \A k \in Keys : ViewOK(writer, k)
         /\ \A k \in Keys : writer.local[k].at = "set" => writer.local[k].val = db[k]
         /\ \A k \in Keys : Left(writer, k) => hist[Len(hist) - 1][k] = db[k]
         /\ writer.allids = Present(db)
<1>1. writer.open
  BY DEF IInv, WriterOK, NoWriter
<1>2. /\ db = Flushed /\ db = hist[Len(hist)] /\ Len(hist) \in Nat /\ Len(hist) > 1
      /\ \A k \in Keys : ViewOK(writer, k)
      /\ \A k \in Keys : Left(writer, k) => hist[Len(hist) - 1][k] = db[k]
  BY <1>1 DEF IInv, WriterOK, AgainstDb, StoreOK
<1>3. \A k \in Keys : writer.local[k].at = "set" => writer.local[k].val = db[k]
  BY <1>2 DEF ViewOK, Flushed
<1>4. \A k \in EntryKeys : writer.want[k] = db[k]
  BY <1>2, Zenon DEF ViewOK, Flushed, Keys
<1>5. writer.allids = Present(db)
  BY <1>1, <1>4 DEF IInv, WriterOK, Present
<1>6. QED
  BY <1>1, <1>2, <1>3, <1>5

(* What a cache includes for a key is a value of a commit since the          *)
(* generation recorded with it, which is not before the one it had.          *)
LEMMA IncludedItem ==
  ASSUME IInv, NEW k \in Keys, NEW it \in Included(k)
  PROVE  /\ it \in Item /\ it.gen \in Nat /\ it.gen <= gen[CacheOf(k)] /\ cache[k].gen <= it.gen
         /\ it.has => \E i \in (Start(CacheOf(k)) + it.gen)..Len(hist) : it.val = hist[i][k]
<1> DEFINE c == CacheOf(k)
<1>0. c \in Caches /\ ItemOK(k, cache[k]) /\ cache[k] \in Item /\ cache[k].gen \in Nat
  BY CacheOfKey DEF IInv, CacheOK, Item
<1>1. CASE it = cache[k]
  <2>1. Has(c) \in (Start(c) + it.gen)..Len(hist)
    BY <1>0, <1>1, Counts DEF ItemOK
  <2>2. QED
    BY <1>0, <1>1, <2>1 DEF ItemOK
<1>2. CASE it # cache[k]
  <2>1. PICK o \in offers : /\ o.key = k /\ o.gen >= cache[k].gen
                            /\ it = [has |-> TRUE, val |-> o.val, gen |-> o.gen]
    BY <1>2 DEF Included, Accepted
  <2>2. OfferOK(o) /\ o.val \in Vals /\ o.gen \in Nat
    BY Zenon DEF IInv, OffersOK, OfferOK, Offer
  <2>3. it \in Item /\ it.gen = o.gen /\ it.val = o.val
    BY <2>1, <2>2 DEF Item
  <2>4. QED
    BY <1>0, <2>1, <2>2, <2>3 DEF OfferOK
<1>3. QED
  BY <1>1, <1>2

(* A state of a cache with the offers included. *)
LEMMA CacheStatesAre ==
  ASSUME NEW c \in Caches, NEW cch \in CacheStates(c)
  PROVE  /\ cch = [k \in Keys |-> cch[k]]
         /\ \A k \in Keys : IF CacheOf(k) = c THEN cch[k] \in Included(k) ELSE cch[k] = cache[k]
BY Zenon DEF CacheStates, KeysOf

(* No offer puts an older value back: what a cache includes while it is not  *)
(* behind is what the last commit has.                                       *)
LEMMA IncludedOK ==
  ASSUME IInv, NEW k \in Keys, ~Behind(CacheOf(k)), NEW it \in Included(k)
  PROVE  ItemOK(k, it)
<1> DEFINE c == CacheOf(k)
<1>0. /\ c \in Caches /\ ItemOK(k, cache[k]) /\ cache[k].gen \in Nat /\ Has(c) = Len(hist)
      /\ Start(c) \in Nat /\ Len(hist) \in Nat
  BY CacheOfKey, Counts DEF IInv, CacheOK, Item, Has
<1>1. /\ it \in Item /\ it.gen \in Nat /\ it.gen <= gen[c] /\ cache[k].gen <= it.gen
      /\ it.has => \E i \in (Start(c) + it.gen)..Len(hist) : it.val = hist[i][k]
  BY IncludedItem
<1>2. \A j \in (Start(c) + it.gen)..Has(c) : j \in (Start(c) + cache[k].gen)..Has(c)
  BY <1>0, <1>1
<1>3. \A j \in (Start(c) + it.gen)..Has(c) : hist[j][k] = hist[Has(c)][k]
  BY <1>0, <1>2 DEF ItemOK
<1>4. it.has => it.val = hist[Has(c)][k]
  BY <1>0, <1>1, <1>3
<1>5. QED
  BY <1>1, <1>3, <1>4 DEF ItemOK

(* The same for a cache that catches up with the last commit, and a key that *)
(* the write transaction has left alone.                                     *)
LEMMA CaughtUp ==
  ASSUME IInv, NEW k \in Keys, Behind(CacheOf(k)), Left(writer, k), NEW it \in Included(k)
  PROVE  /\ it.has => it.val = hist[Len(hist)][k]
         /\ \A j \in (Start(CacheOf(k)) + it.gen)..Len(hist) : hist[j][k] = hist[Len(hist)][k]
<1> DEFINE c == CacheOf(k)
<1>0. /\ c \in Caches /\ ItemOK(k, cache[k]) /\ cache[k].gen \in Nat /\ Has(c) = Len(hist) - 1
      /\ Start(c) \in Nat /\ Len(hist) \in Nat
  BY CacheOfKey, Counts DEF IInv, CacheOK, Item, Has
<1>1. /\ it.gen \in Nat /\ cache[k].gen <= it.gen
      /\ it.has => \E i \in (Start(c) + it.gen)..Len(hist) : it.val = hist[i][k]
  BY IncludedItem
<1>2. hist[Len(hist) - 1][k] = hist[Len(hist)][k]
  <2>1. writer.pc > 2
    BY DEF Behind, Place, IInv, WriterOK, Writer
  <2>2. QED
    BY <2>1, AfterDb
<1>3. ASSUME NEW j \in (Start(c) + it.gen)..Len(hist) PROVE hist[j][k] = hist[Len(hist)][k]
  <2>1. j = Len(hist) \/ j \in (Start(c) + cache[k].gen)..Has(c)
    BY <1>0, <1>1
  <2>2. QED
    BY <1>0, <1>2, <2>1 DEF ItemOK
<1>4. QED
  BY <1>1, <1>3

(* The caches are published in turn. *)
LEMMA PublishCachePreserves ==
  ASSUME IInv, PublishCache
  PROVE  IInv'
<1>01. PICK s \in Caches : s = Step
  BY DEF PublishCache
<1>0. s \in Caches /\ writer.pc = Place(s) /\ writer.pc \in 3..5 /\ writer' = [writer EXCEPT !.pc = @ + 1]
  BY <1>01, Places DEF PublishCache, IInv, WriterOK, Writer
<1>1. /\ UNCHANGED <<db, allids, cell, reader, txns, hist, acked, tainted>>
      /\ gen' = [gen EXCEPT ![s] = @ + 1] /\ offers' \subseteq offers
  BY <1>01 DEF PublishCache
<1>2. /\ WriterOK(writer)' /\ writer'.pc = writer.pc + 1 /\ writer.open /\ writer'.open /\ Flushed' = Flushed
      /\ writer'.cell = writer.cell /\ writer'.local = writer.local /\ writer'.cleared = writer.cleared
  BY <1>0, Advance
<1>3. /\ gen \in [Caches -> Nat] /\ Len(hist) \in Nat /\ Len(hist) > 0
      /\ \A c \in Caches : Start(c) > 0 /\ gen[c] \in Nat
      /\ acked = Len(hist) - 1
  BY <1>0 DEF IInv, StoreOK
<1>4. gen' \in [Caches -> Nat] /\ \A c \in Caches : gen'[c] = IF c = s THEN gen[c] + 1 ELSE gen[c]
  BY <1>0, <1>1, <1>3
<1>5. /\ \A c \in Caches : c # s => (Behind(c)' <=> Behind(c))
      /\ Behind(s) /\ ~Behind(s)'
  BY <1>0, <1>2 DEF Behind, Place, Caches
<1>6. /\ \A c \in Caches : Start(c)' = Start(c)
      /\ \A c \in Caches : c # s => Has(c)' = Has(c)
      /\ Has(s) = Len(hist) - 1 /\ Has(s)' = Len(hist)
  BY <1>0, <1>1, <1>3, <1>4, <1>5 DEF Has, Start
<1>7. StoreOK' /\ AgainstDb' /\ IdsOK' /\ CellsOK' /\ allids' \subseteq EntryKeys
  <2>1. StoreOK'
    BY <1>0, <1>1, <1>2, <1>4, <1>6 DEF IInv, StoreOK
  <2>2. AgainstDb'
    BY <1>0, <1>1, <1>2 DEF IInv, AgainstDb, Left
  <2>3. IdsOK' /\ CellsOK' /\ allids' \subseteq EntryKeys
    BY <1>0, <1>1, <1>2 DEF IInv, IdsOK, CellsOK
  <2>4. QED
    BY <2>1, <2>2, <2>3
<1>8. CacheOK'
  <2>1. PICK cch \in CacheStates(s) :
          cache' = [k \in Keys |->
            IF CacheOf(k) # s THEN cch[k]
            ELSE IF writer.local[k].at = "set"
              THEN [has |-> TRUE, val |-> writer.local[k].val, gen |-> gen[s] + 1]
            ELSE IF writer.local[k].at = "removed" \/ (s = "idl" /\ writer.cleared)
              THEN [has |-> FALSE, val |-> 0, gen |-> gen[s] + 1]
            ELSE cch[k]]
    BY <1>01 DEF PublishCache
  <2>2. ASSUME NEW k \in Keys PROVE cache'[k] \in Item /\ ItemOK(k, cache[k])'
    <3>0. CacheOf(k) \in Caches
      BY CacheOfKey
    <3>1. CASE CacheOf(k) # s
      <4>1. cache'[k] = cache[k]
        BY <1>0, <2>1, <3>1, CacheStatesAre
      <4>2. ItemOK(k, cache[k]) /\ cache[k] \in Item
        BY DEF IInv, CacheOK
      <4>3. gen'[CacheOf(k)] = gen[CacheOf(k)] /\ Has(CacheOf(k))' = Has(CacheOf(k))
        BY <1>4, <1>6, <3>0, <3>1
      <4>4. QED
        BY <1>1, <1>6, <3>0, <4>1, <4>2, <4>3, Zenon DEF ItemOK
    <3>2. CASE CacheOf(k) = s /\ cache'[k].gen = gen[s] + 1 /\ cache'[k] \in Item
               /\ (cache'[k].has => cache'[k].val = db[k])
      <4>1. Start(s)' + (gen[s] + 1) = Len(hist) /\ gen'[s] = gen[s] + 1
        BY <1>0, <1>3, <1>4, <1>6, Counts
      <4>2. db = hist[Len(hist)]
        BY DEF IInv, StoreOK
      <4>3. QED
        BY <1>1, <1>3, <1>6, <3>2, <4>1, <4>2 DEF ItemOK
    <3>3. CASE CacheOf(k) = s /\ Left(writer, k) /\ cache'[k] = cch[k]
      <4>1. cch[k] \in Included(k)
        BY <1>0, <3>3, CacheStatesAre
      <4>2. cch[k] \in Item /\ cch[k].gen \in Nat /\ cch[k].gen <= gen[s]
        BY <3>3, <4>1, IncludedItem
      <4>3. /\ cch[k].has => cch[k].val = hist[Len(hist)][k]
            /\ \A j \in (Start(s) + cch[k].gen)..Len(hist) : hist[j][k] = hist[Len(hist)][k]
        BY <1>5, <3>3, <4>1, CaughtUp
      <4>4. cch[k].gen <= gen'[s]
        BY <1>0, <1>3, <1>4, <4>2
      <4>5. QED
        BY <1>0, <1>1, <1>6, <3>3, <4>2, <4>3, <4>4 DEF ItemOK
    <3>4. CASE CacheOf(k) = s
      <4>1. writer.local[k] \in View /\ 0 \in Vals /\ gen[s] + 1 \in Nat
        BY <1>0, <1>3, MaxTxnAssumption DEF IInv, WriterOK, Writer, Vals
      <4>2. CASE writer.local[k].at = "set"
        <5>1. cache'[k] = [has |-> TRUE, val |-> writer.local[k].val, gen |-> gen[s] + 1]
          BY <2>1, <3>4, <4>2, Zenon
        <5>2. writer.local[k].val = db[k]
          BY <1>0, <4>2, AfterDb
        <5>3. QED
          BY <3>2, <3>4, <4>1, <5>1, <5>2 DEF Item, View
      <4>3. CASE writer.local[k].at # "set" /\ (writer.local[k].at = "removed" \/ (s = "idl" /\ writer.cleared))
        <5>1. cache'[k] = [has |-> FALSE, val |-> 0, gen |-> gen[s] + 1]
          BY <2>1, <3>4, <4>3
        <5>2. QED
          BY <3>2, <3>4, <4>1, <5>1 DEF Item
      <4>4. CASE writer.local[k].at # "set" /\ ~(writer.local[k].at = "removed" \/ (s = "idl" /\ writer.cleared))
        <5>1. cache'[k] = cch[k]
          BY <2>1, <3>4, <4>4
        <5>2. k \in IdlKeys => s = "idl"
          BY <3>4, KeysAssumption DEF CacheOf
        <5>3. Left(writer, k)
          BY <4>1, <4>4, <5>2 DEF Left, View
        <5>4. QED
          BY <3>3, <3>4, <5>1, <5>3
      <4>5. QED
        BY <4>2, <4>3, <4>4
    <3>5. QED
      BY <3>1, <3>4
  <2>3. cache' \in [Keys -> Item]
    <3>1. cache' = [k \in Keys |-> cache'[k]]
      BY <2>1
    <3>2. QED
      BY <2>2, <3>1
  <2>4. QED
    BY <2>2, <2>3 DEF CacheOK
<1>9. OffersOK' /\ ReadersOK'
  BY <1>1, <1>3, <1>4, <1>6, Lasting
<1>10. QED
  BY <1>2, <1>7, <1>8, <1>9 DEF IInv

(* The ids, and the index metadata that ends the commit. *)
LEMMA PublishRestPreserves ==
  ASSUME IInv, PublishIds \/ PublishIdxMeta
  PROVE  IInv'
<1>0. /\ writer.pc \in {6, 7} /\ (PublishIds => writer.pc = 6) /\ (PublishIdxMeta => writer.pc = 7)
  BY Places DEF PublishIds, PublishIdxMeta, IInv, WriterOK, Writer
<1>1. UNCHANGED <<db, cache, gen, offers, reader, txns, hist, tainted>>
  BY DEF PublishIds, PublishIdxMeta
<1>2. /\ gen \in [Caches -> Nat] /\ Len(hist) \in Nat /\ acked = Len(hist) - 1 /\ acked \in Nat
      /\ \A c \in Caches : Start(c) > 0 /\ gen[c] \in Nat
  BY <1>0, Counts DEF IInv, StoreOK, Caches
<1>3. /\ WriterOK(writer)' /\ writer'.pc \in {0, 7}
      /\ PublishIds => writer'.pc = 7 /\ writer'.open /\ writer'.local = writer.local /\ writer'.cleared = writer.cleared
                       /\ Flushed' = Flushed /\ writer'.cell = writer.cell
      /\ PublishIdxMeta => writer'.pc = 0 /\ ~writer'.open
  <2>1. CASE PublishIds
    <3>1. writer.pc = 6 /\ writer' = [writer EXCEPT !.pc = @ + 1]
      BY <1>0, <2>1 DEF PublishIds
    <3>2. ~PublishIdxMeta
      BY <1>0, <3>1
    <3>3. QED
      BY <3>1, <3>2, Advance
  <2>2. CASE PublishIdxMeta
    <3>1. writer.pc = 7 /\ writer' = NoWriter
      BY <1>0, <2>2, Zenon DEF PublishIdxMeta
    <3>2. ~PublishIds
      BY <1>0, <3>1
    <3>3. WriterOK(writer)' /\ writer'.pc = 0 /\ ~writer'.open
      BY <3>1, NoWriterOK, Zenon DEF NoWriter, WriterOK, ViewOK
    <3>4. QED
      BY <3>2, <3>3
  <2>3. QED
    BY <2>1, <2>2
<1>4. \A c \in Caches : ~Behind(c) /\ ~Behind(c)'
  BY <1>0, <1>3 DEF Behind, Place
<1>5. \A c \in Caches : Has(c)' = Has(c) /\ Start(c)' = Start(c)
  BY <1>1, <1>4 DEF Has, Start
<1>6. acked' = (IF writer'.pc > 2 THEN Len(hist) - 1 ELSE Len(hist)) /\ acked' \in Nat /\ acked <= acked'
  BY <1>0, <1>2, <1>3 DEF PublishIds, PublishIdxMeta
<1>7. StoreOK'
  BY <1>1, <1>5, <1>6 DEF IInv, StoreOK
<1>8. AgainstDb'
  BY <1>0, <1>1, <1>3 DEF IInv, AgainstDb, Left, PublishIds, WriterOK, NoWriter
<1>9. IdsOK' /\ allids' \subseteq EntryKeys
  <2>1. allids' = Present(db)
    <3>1. CASE PublishIds
      BY <1>0, <3>1, AfterDb DEF PublishIds
    <3>2. CASE PublishIdxMeta
      BY <1>0, <3>2 DEF PublishIdxMeta, IInv, IdsOK
    <3>3. QED
      BY <3>1, <3>2
  <2>2. QED
    BY <1>1, <2>1 DEF IdsOK, Present
<1>10. CellsOK'
  <2>1. CASE PublishIds
    BY <1>0, <1>1, <1>3, <2>1 DEF IInv, CellsOK, PublishIds
  <2>2. CASE PublishIdxMeta
    <3>1. cell' = [cell EXCEPT !["idxmeta"] = writer.cell["idxmeta"]]
      BY <2>2 DEF PublishIdxMeta
    <3>2. cell \in [Cells -> Vals] /\ writer.cell \in [Cells -> Vals]
      BY DEF IInv, CellsOK, WriterOK, Writer
    <3>3. cell' \in [Cells -> Vals] /\ \A c \in Cells : cell'[c] = IF c = "idxmeta" THEN writer.cell[c] ELSE cell[c]
      BY <3>1, <3>2, Zenon
    <3>4. ~tainted => \A c \in Cells : cell'[c] = db[Mirror[c]]
      <4>1. db = Flushed
        BY <1>0, AfterDb
      <4>2. QED
        BY <1>0, <2>2, <3>3, <4>1 DEF IInv, CellsOK
    <3>5. QED
      BY <1>1, <1>3, <2>2, <3>3, <3>4 DEF IInv, CellsOK
  <2>3. QED
    BY <2>1, <2>2
<1>11. CacheOK'
  BY <1>1, <1>5, CacheOfKey DEF IInv, CacheOK, ItemOK
<1>12. OffersOK' /\ ReadersOK'
  BY <1>1, <1>2, <1>5, <1>6, Lasting
<1>13. QED
  BY <1>3, <1>7, <1>8, <1>9, <1>10, <1>11, <1>12 DEF IInv

-----------------------------------------------------------------------------
(***************************************************************************)
(* The caches on their own, and the process.                               *)
(***************************************************************************)

(* try_quiesce, and an eviction. *)
LEMMA CacheAlonePreserves ==
  ASSUME IInv, (\E c \in Caches : Quiesce(c)) \/ \E k \in Keys : Evict(k)
  PROVE  IInv'
<1>0. writer.pc = 0 /\ cache \in [Keys -> Item]
  <2>1. ~writer.open
    BY Zenon DEF Quiesce, Evict
  <2>2. WriterOK(writer) /\ cache \in [Keys -> Item]
    BY DEF IInv, CacheOK
  <2>3. QED
    BY <2>1, <2>2 DEF WriterOK, NoWriter
<1>1. UNCHANGED <<db, gen, allids, cell, writer, reader, txns, hist, acked, tainted>> /\ offers' \subseteq offers
  BY Zenon DEF Quiesce, Evict
<1>2. \A c \in Caches : ~Behind(c)
  BY <1>0 DEF Behind, Place
<1>3. \A c \in Caches : Has(c)' = Has(c) /\ Start(c)' = Start(c)
  BY <1>1 DEF Has, Start, Behind
<1>4. StoreOK' /\ WriterOK(writer)' /\ AgainstDb' /\ IdsOK' /\ CellsOK' /\ allids' \subseteq EntryKeys
  BY <1>1, ServerFrame
<1>5. cache' \in [Keys -> Item] /\ \A k \in Keys : ItemOK(k, cache'[k])
  <2>1. CASE \E c \in Caches : Quiesce(c)
    <3>1. PICK c \in Caches : \E cch \in CacheStates(c) : cache' = cch
      BY <2>1 DEF Quiesce
    <3>2. /\ cache' = [k \in Keys |-> cache'[k]]
          /\ \A k \in Keys : IF CacheOf(k) = c THEN cache'[k] \in Included(k) ELSE cache'[k] = cache[k]
      BY <3>1, CacheStatesAre
    <3>3. ASSUME NEW k \in Keys PROVE ItemOK(k, cache'[k])
      <4>1. CASE CacheOf(k) = c
        BY <1>2, <3>2, <4>1, IncludedOK
      <4>2. CASE CacheOf(k) # c
        BY <3>2, <4>2 DEF IInv, CacheOK
      <4>3. QED
        BY <4>1, <4>2
    <3>4. \A k \in Keys : cache'[k] \in Item
      BY <3>3 DEF ItemOK
    <3>5. QED
      BY <3>2, <3>3, <3>4
  <2>2. CASE \E k \in Keys : Evict(k)
    <3>1. PICK k \in Keys : cache' = [cache EXCEPT ![k].has = FALSE, ![k].val = 0]
      BY <2>2, Zenon DEF Evict
    <3> DEFINE it == [cache[k] EXCEPT !.has = FALSE, !.val = 0]
    <3>2. cache' = [cache EXCEPT ![k] = it]
      BY <1>0, <3>1, Zenon
    <3>3. ItemOK(k, cache[k]) /\ cache[k] \in Item /\ 0 \in Vals
      BY MaxTxnAssumption DEF IInv, CacheOK, Vals
    <3>4. it \in Item /\ it.gen = cache[k].gen /\ ~it.has
      BY <3>3, Zenon DEF Item
    <3> HIDE DEF it
    <3>5. ItemOK(k, it)
      BY <3>3, <3>4 DEF ItemOK
    <3>6. QED
      BY <1>0, <3>2, <3>4, <3>5 DEF IInv, CacheOK
  <2>3. QED
    BY <2>1, <2>2
<1>6. CacheOK'
  BY <1>1, <1>3, <1>5, CacheOfKey, Zenon DEF CacheOK, ItemOK
<1>7. OffersOK' /\ ReadersOK'
  <2>1. \A c \in Caches : gen[c] \in Nat /\ acked \in Nat /\ Len(hist) \in Nat
    BY Counts
  <2>2. acked \in Nat /\ Len(hist) \in Nat
    BY <2>1 DEF Caches
  <2>3. QED
    BY <1>1, <1>3, <2>1, <2>2, Lasting
<1>8. QED
  BY <1>4, <1>6, <1>7 DEF IInv

\* A server that has just been started.
Started ==
    /\ hist \in Seq(Dbs) /\ Len(hist) > 0 /\ db = hist[Len(hist)] /\ txns \in 1..MaxTxn /\ acked = Len(hist)
    /\ cache = [k \in Keys |-> Absent] /\ gen = [c \in Caches |-> 0] /\ allids = Present(db)
    /\ cell = [c \in Cells |-> db[Mirror[c]]] /\ offers = {} /\ writer = NoWriter
    /\ reader = [r \in Readers |-> NoReader] /\ tainted = FALSE

(* initialise_helper leaves everything in line with SQLite. *)
LEMMA StartedOK == Started => IInv
<1> SUFFICES ASSUME Started PROVE IInv
  OBVIOUS
<1>0. /\ writer.pc = 0 /\ ~writer.open /\ Len(hist) \in Nat /\ Len(hist) > 0 /\ db \in Dbs
      /\ \A c \in Caches : gen[c] = 0 /\ ~Behind(c)
  BY DEF Started, NoWriter, Behind, Place
<1>1. \A c \in Caches : Has(c) = Len(hist) /\ Start(c) = Len(hist)
  BY <1>0 DEF Has, Start
<1>2. StoreOK
  BY <1>0, <1>1 DEF Started, StoreOK
<1>3. WriterOK(writer) /\ AgainstDb /\ IdsOK /\ allids \subseteq EntryKeys /\ OffersOK
  BY <1>0, NoWriterOK DEF Started, AgainstDb, IdsOK, OffersOK, Present
<1>4. CellsOK
  <2>1. \A c \in Cells : db[Mirror[c]] \in Vals
    BY <1>0, MirrorAssumption DEF Dbs, Keys
  <2>2. cell \in [Cells -> Vals] /\ (\A c \in Cells : cell[c] = db[Mirror[c]]) /\ tainted \in BOOLEAN
    BY <2>1, Zenon DEF Started
  <2>3. QED
    BY <1>0, <2>2 DEF CellsOK
<1>5. CacheOK
  <2>1. Absent \in Item
    BY MaxTxnAssumption DEF Absent, Item, Vals
  <2>2. ASSUME NEW k \in Keys PROVE ItemOK(k, Absent)
    <3>1. CacheOf(k) \in Caches
      BY CacheOfKey
    <3>2. (Start(CacheOf(k)) + Absent.gen)..Has(CacheOf(k)) = {Len(hist)}
      BY <1>0, <1>1, <3>1 DEF Absent
    <3>3. QED
      BY <1>0, <1>1, <2>1, <3>1, <3>2 DEF ItemOK, Absent
  <2>3. QED
    BY <2>1, <2>2 DEF Started, CacheOK
<1>6. ReadersOK
  <2>1. NoReader \in Reader
    BY MaxTxnAssumption DEF NoReader, Reader, Item, Absent, View, Untouched, Vals
  <2>2. ReaderOK(NoReader)
    <3>1. \A c \in Caches : NoReader.gen[c] <= gen[c]
      BY <1>0 DEF NoReader
    <3>2. /\ NoReader.pc = 0 /\ NoReader.db = <<>>
          /\ \A k \in Keys : NoReader.local[k] = Untouched /\ NoReader.seen[k] = Unread /\ ~Hit(NoReader, k)
      BY Zenon DEF NoReader, Absent, Untouched, Hit
    <3>3. QED
      BY <2>1, <3>1, <3>2 DEF ReaderOK
  <2>3. QED
    BY <2>1, <2>2 DEF Started, ReadersOK
<1>7. QED
  BY <1>2, <1>3, <1>4, <1>5, <1>6 DEF IInv


(* The server starts with one committed database. *)
LEMMA InitIInv == Init => IInv
<1> SUFFICES ASSUME Init PROVE Started
  BY StartedOK
<1>1. 1 \in Vals /\ db = [k \in Keys |-> 1] /\ db \in Dbs
  BY MaxTxnAssumption DEF Init, Vals, Dbs
<1>2. hist \in Seq(Dbs) /\ Len(hist) = 1 /\ hist[1] = db /\ 1 \in 1..MaxTxn
  BY <1>1, MaxTxnAssumption DEF Init
<1>3. Present(db) = EntryKeys
  BY <1>1, KeysAssumption DEF Present, Keys
<1>4. [c \in Cells |-> db[Mirror[c]]] = [c \in Cells |-> 1]
  BY <1>1, MirrorAssumption DEF Keys
<1>5. QED
  BY <1>1, <1>2, <1>3, <1>4 DEF Init, Started

(* Whatever was under way, a restart begins from what SQLite has. *)
LEMMA CrashPreserves ==
  ASSUME IInv, Crash
  PROVE  IInv'
<1>1. Started'
  BY DEF Crash, Loaded, IInv, StoreOK, Started, Present
<1>2. QED
  BY <1>1, StartedOK, PTL


-----------------------------------------------------------------------------
(***************************************************************************)
(* The theorems.                                                           *)
(***************************************************************************)

(* Every step keeps the invariant. *)
LEMMA NextIInv == IInv /\ [Next]_vars => IInv'
<1> SUFFICES ASSUME IInv, [Next]_vars PROVE IInv'
  OBVIOUS
<1>1. ASSUME NEW r \in Readers, Begin(r) \/ Take(r) \/ Scan(r) \/ Close(r) \/ \E k \in Asked : Lookup(r, k)
      PROVE  IInv'
  BY <1>1, BeginPreserves, TakePreserves, LookupsPreserve, ClosePreserves
<1>2. CASE BeginWrite \/ Abort \/ BeginCommit \/ FailDb
  BY <1>2, BeginWritePreserves, GiveUpPreserves, BeginCommitPreserves
<1>3. ASSUME NEW k \in Keys, Put(k) \/ Drop(k) \/ Evict(k) PROVE IInv'
  BY <1>3, PutPreserves, DropPreserves, CacheAlonePreserves
<1>4. ASSUME NEW k \in Asked, WLookup(k) PROVE IInv'
  BY <1>4, WLookupPreserves, KeysAssumption
<1>5. ASSUME NEW S \in SUBSET IdlKeys, Reindex(S) PROVE IInv'
  BY <1>5, ReindexPreserves
<1>6. CASE PublishCells \/ PublishIdxMeta \/ CommitDb \/ PublishCache \/ PublishIds
  BY <1>6, PublishCellsPreserves, PublishRestPreserves, CommitDbPreserves, PublishCachePreserves
<1>7. ASSUME NEW c \in Caches, Quiesce(c) PROVE IInv'
  BY <1>7, CacheAlonePreserves
<1>8. CASE Crash
  BY <1>8, CrashPreserves
<1>9. CASE UNCHANGED vars
  <2>1. UNCHANGED <<db, cache, gen, allids, cell, writer, txns, hist, acked, tainted>> /\ UNCHANGED <<reader, offers>>
    BY <1>9 DEF vars
  <2>2. ReadersOK' /\ OffersOK'
    <3>1. \A c \in Caches : Start(c)' = Start(c)
      BY <2>1 DEF Start, Has, Behind
    <3>2. \A c \in Caches : gen[c] \in Nat /\ acked \in Nat /\ Len(hist) \in Nat
      BY Counts
    <3>3. acked \in Nat /\ Len(hist) \in Nat
      BY <3>2 DEF Caches
    <3>4. QED
      BY <2>1, <3>1, <3>2, <3>3, Lasting
  <2>3. QED
    BY <2>1, <2>2, ReaderFrame
<1>10. QED
  BY <1>1, <1>2, <1>3, <1>4, <1>5, <1>6, <1>7, <1>8, <1>9 DEF Next

(* What every state of the server's transactions satisfies. *)
THEOREM Invariance == Spec => []IInv
BY InitIInv, NextIInv, PTL DEF Spec

(* Whenever no write transaction is open, what a cache holds of a key is what *)
(* SQLite holds of it and the set of ids is that of the entries, however the  *)
(* offers of readers are ordered against the parts of a commit.               *)
THEOREM CachesHoldWhatSqliteHolds == Spec => []CacheCoherent
<1>1. IInv => CacheCoherent
  <2> SUFFICES ASSUME IInv, ~writer.open PROVE CacheCoherent
    BY DEF CacheCoherent
  <2>1. writer.pc = 0 /\ db = hist[Len(hist)]
    BY DEF IInv, WriterOK, NoWriter, StoreOK
  <2>2. ASSUME NEW k \in Keys, cache[k].has PROVE cache[k].val = db[k]
    <3>1. Has(CacheOf(k)) = Len(hist)
      BY <2>1 DEF Has, Behind, Place
    <3>2. QED
      BY <2>1, <2>2, <3>1, Zenon DEF IInv, CacheOK, ItemOK
  <2>3. allids = Present(db)
    BY <2>1 DEF IInv, IdsOK
  <2>4. QED
    BY <2>2, <2>3 DEF CacheCoherent
<1>2. QED
  BY <1>1, Invariance, PTL

(* Whenever no write transaction is open and no commit failed half way, each *)
(* cell has the content of the entry it is derived from.                     *)
THEOREM CellsHoldTheirEntries == Spec => []CellsMirrorEntries
<1>1. IInv => CellsMirrorEntries
  <2> SUFFICES ASSUME IInv, ~writer.open, ~tainted PROVE \A c \in Cells : cell[c] = db[Mirror[c]]
    BY DEF CellsMirrorEntries
  <2>1. writer.pc = 0
    BY DEF IInv, WriterOK, NoWriter
  <2>2. QED
    BY <2>1 DEF IInv, CellsOK
<1>2. QED
  BY <1>1, Invariance, PTL

(* Only the commit of SQLite adds to the history. *)
LEMMA OnlyCommitDb == Next /\ hist' # hist => CommitDb
<1>1. ASSUME NEW r \in Readers, Begin(r) \/ Take(r) \/ Scan(r) \/ Close(r) \/ \E k \in Asked : Lookup(r, k)
      PROVE  hist' = hist
  BY <1>1, Zenon DEF Begin, Take, Scan, Close, Lookup
<1>2. ASSUME BeginWrite \/ Abort \/ BeginCommit \/ FailDb \/ PublishCells \/ PublishIdxMeta PROVE hist' = hist
  BY <1>2, Zenon DEF BeginWrite, Abort, BeginCommit, FailDb, PublishCells, PublishIdxMeta, Keeping
<1>3. ASSUME PublishCache \/ PublishIds \/ Crash \/ \E c \in Caches : Quiesce(c) PROVE hist' = hist
  BY <1>3, Zenon DEF PublishCache, PublishIds, Crash, Quiesce
<1>4. ASSUME NEW k \in Keys, Put(k) \/ Drop(k) \/ Evict(k) PROVE hist' = hist
  BY <1>4, Zenon DEF Put, Drop, Evict, Keeping
<1>5. ASSUME NEW k \in Asked, WLookup(k) PROVE hist' = hist
  BY <1>5, Zenon DEF WLookup, Keeping
<1>6. ASSUME NEW S \in SUBSET IdlKeys, Reindex(S) PROVE hist' = hist
  BY <1>6, Zenon DEF Reindex, Keeping
<1>7. QED
  BY <1>1, <1>2, <1>3, <1>4, <1>5, <1>6, Zenon DEF Next

(* A commit leaves in SQLite, of every entry and every index list, what the *)
(* transaction did to it last, whatever it looked up in between.            *)
THEOREM CommitsKeepAll == Spec => CommitKeepsAll
<1>1. IInv /\ [Next]_vars => [hist' # hist => KeepsAll]_vars
  <2> SUFFICES ASSUME IInv, Next, hist' # hist PROVE KeepsAll
    OBVIOUS
  <2>1. CommitDb /\ writer.pc = 2 /\ db' = Flushed
    BY OnlyCommitDb, Places DEF CommitDb, IInv, WriterOK, Writer
  <2>2. \A k \in Keys : ViewOK(writer, k)
    BY <2>1 DEF IInv, WriterOK, NoWriter
  <2>3. QED
    BY <2>1, <2>2 DEF KeepsAll, Flushed, ViewOK, Keys
<1>2. QED
  BY <1>1, Invariance, PTL DEF Spec, CommitKeepsAll


-----------------------------------------------------------------------------
(***************************************************************************)
(* The refinement.  The commit of SQLite is the abstract commit, the end   *)
(* of the commit its acknowledgement; a reader's floor is the              *)
(* acknowledged length when it began, and its lookups are abstract reads.  *)
(* Everything else is a stutter.                                           *)
(***************************************************************************)


(* Beginning, going on and closing a read transaction. *)
LEMMA BeginIsOpen ==
  ASSUME IInv, NEW r \in Readers, Begin(r)
  PROVE  CR!AOpen(r)
<1> DEFINE rd == [NoReader EXCEPT !.pc = 1, !.floor = acked,
                     !.cache = [k \in Keys |-> IF k \in EntryKeys THEN cache[k] ELSE Absent],
                     !.gen["entry"] = gen["entry"]]
<1>0. reader[r] = NoReader /\ NoReader \in Reader /\ reader' = [reader EXCEPT ![r] = rd] /\ reader \in [Readers -> Reader]
  BY NoReaderOK DEF IInv, ReadersOK, ReaderOK, Begin
<1>1. rd.floor = acked /\ rd.seen = NoReader.seen
  BY DEF NoReader
<1> HIDE DEF rd
<1>2. /\ [q \in Readers |-> reader'[q].floor] = [[q \in Readers |-> reader[q].floor] EXCEPT ![r] = acked]
      /\ [q \in Readers |-> reader'[q].seen] = [q \in Readers |-> reader[q].seen]
  BY <1>0, <1>1, Zenon
<1>3. reader[r].floor = 0
  BY <1>0, NoReaderHasNothing, Zenon DEF Nothing
<1>4. QED
  BY <1>2, <1>3 DEF CR!AOpen, Begin

(* The parts that a reader takes are not seen. *)
LEMMA TakeIsNothing ==
  ASSUME IInv, NEW r \in Readers, Take(r)
  PROVE  UNCHANGED CR!avars
<1> DEFINE o == reader[r]
           p == ReadOrder[o.pc + 1]
           at == [o EXCEPT !.pc = @ + 1]
           rd == IF p \in Caches
                   THEN [at EXCEPT !.cache = [k \in Keys |-> IF CacheOf(k) = p THEN cache[k] ELSE @[k]],
                                   !.gen[p] = gen[p]]
                 ELSE IF p = "allids" THEN [at EXCEPT !.allids = allids]
                 ELSE at
<1>0. o \in Reader /\ reader' = [reader EXCEPT ![r] = rd] /\ reader \in [Readers -> Reader]
  BY DEF IInv, ReadersOK, Take
<1>1. rd.floor = o.floor /\ rd.seen = o.seen
  <2>1. o.pc + 1 \in 0..5
    BY DEF Take, ReadOrder
  <2>2. at \in Reader
    BY <1>0, <2>1, Zenon DEF Reader
  <2>3. at.floor = o.floor /\ at.seen = o.seen
    BY <1>0, <2>2 DEF Reader
  <2> HIDE DEF at
  <2>4. CASE p \in Caches
    BY <2>2, <2>3, <2>4 DEF Reader
  <2>5. CASE p \notin Caches
    BY <2>2, <2>3, <2>5 DEF Reader
  <2>6. QED
    BY <2>4, <2>5
<1> HIDE DEF rd
<1>2. /\ [q \in Readers |-> reader'[q].floor] = [q \in Readers |-> reader[q].floor]
      /\ [q \in Readers |-> reader'[q].seen] = [q \in Readers |-> reader[q].seen]
  BY <1>0, <1>1
<1>3. QED
  BY <1>2 DEF CR!avars, Take

(* A lookup answers, for each key, as before or for the first time and then *)
(* with a value committed since the reader's floor.                         *)
LEMMA LookupsAreReads ==
  ASSUME IInv, NEW r \in Readers, Scan(r) \/ \E k \in Asked : Lookup(r, k)
  PROVE  CR!ARead(r)
<1> DEFINE o == reader[r]
<1>0. /\ o \in Reader /\ ReaderOK(o) /\ o.pc = 5 /\ reader \in [Readers -> Reader] /\ UNCHANGED <<hist, acked>>
      /\ acked \in Nat
  BY Counts, Zenon DEF IInv, ReadersOK, Scan, Lookup, IsOpen, ReadOrder, Caches
<1>1. PICK rd : Reads(o, rd) /\ reader' = [reader EXCEPT ![r] = rd]
  BY LookupReads, ScanReads, KeysAssumption
<1>2. /\ rd.floor = o.floor /\ rd \in Reader /\ rd.seen = [k \in Keys |-> rd.seen[k]] /\ o.floor > 0
      /\ \A k \in Keys : \/ rd.seen[k] = o.seen[k]
                         \/ o.seen[k] = Unread /\ Committed(o.floor, k, rd.seen[k])
  <2>1. rd.floor = o.floor /\ rd \in Reader
    BY <1>1, Zenon DEF Reads
  <2>2. rd.seen = [k \in Keys |-> rd.seen[k]]
    BY <2>1, Zenon DEF Reader
  <2>3. o.floor > 0
    <3>1. o.pc > 0
      BY <1>0
    <3>2. o.floor \in 1..acked
      BY <1>0, <3>1, Zenon DEF ReaderOK
    <3>3. QED
      BY <1>0, <3>2
  <2>4. QED
    BY <1>0, <1>1, <2>1, <2>2, <2>3, ReadsOK, Zenon
<1>3. /\ [q \in Readers |-> reader'[q].floor] = [q \in Readers |-> reader[q].floor]
      /\ [q \in Readers |-> reader'[q].seen] = [[q \in Readers |-> reader[q].seen] EXCEPT ![r] = rd.seen]
      /\ reader'[r].seen = rd.seen
  BY <1>0, <1>1, <1>2, Zenon
<1>4. \A k \in Keys : \/ reader'[r].seen[k] = reader[r].seen[k]
                        \/ /\ reader[r].seen[k] = Unread
                           /\ \E i \in reader[r].floor..Len(hist) : reader'[r].seen[k] = hist[i][k]
  BY <1>2, <1>3 DEF Committed
<1>5. QED
  BY <1>0, <1>2, <1>3, <1>4, Zenon DEF CR!ARead

(* Closing gives the answers back. *)
LEMMA CloseIsClose ==
  ASSUME IInv, NEW r \in Readers, Close(r)
  PROVE  CR!AClose(r)
<1>0. reader[r] \in Reader /\ reader[r].pc = 5 /\ ReaderOK(reader[r]) /\ reader \in [Readers -> Reader] /\ acked \in Nat
  BY Counts DEF IInv, ReadersOK, Close, IsOpen, ReadOrder, Caches
<1>1. reader[r].floor > 0
  BY <1>0 DEF ReaderOK
<1>2. /\ [q \in Readers |-> reader'[q].floor] = [[q \in Readers |-> reader[q].floor] EXCEPT ![r] = 0]
      /\ [q \in Readers |-> reader'[q].seen] = [[q \in Readers |-> reader[q].seen] EXCEPT ![r] = [k \in Keys |-> Unread]]
  BY <1>0, Zenon DEF Close, NoReader
<1>3. QED
  BY <1>1, <1>2, Zenon DEF CR!AClose, CR!Nothing, Close

(* Every step of the server is a step of CommittedReads or none. *)
LEMMA StepsMap == IInv /\ [Next]_vars => [CR!ANext]_CR!avars
<1> SUFFICES ASSUME IInv, [Next]_vars PROVE [CR!ANext]_CR!avars
  OBVIOUS
<1>1. ASSUME NEW r \in Readers, Begin(r) \/ Take(r) \/ Scan(r) \/ Close(r) \/ \E k \in Asked : Lookup(r, k)
      PROVE  [CR!ANext]_CR!avars
  BY <1>1, BeginIsOpen, TakeIsNothing, LookupsAreReads, CloseIsClose DEF CR!ANext
<1>2. ASSUME UNCHANGED <<reader, hist, acked>> PROVE UNCHANGED CR!avars
  BY <1>2 DEF CR!avars
<1>3. CASE CommitDb
  <2>1. writer.pc = 2 /\ hist' = Append(hist, Flushed) /\ hist \in Seq(Dbs) /\ acked = Len(hist)
    BY <1>3, Places DEF CommitDb, IInv, WriterOK, Writer, StoreOK
  <2>2. Flushed \in Dbs
    BY DEF Flushed, Dbs, IInv, WriterOK, Writer, View
  <2>3. hist'[Len(hist')] = Flushed
    BY <2>1, <2>2
  <2>4. CR!ACommit
    BY <1>3, <2>1, <2>2, <2>3 DEF CR!ACommit, CommitDb, Dbs
  <2>5. QED
    BY <2>4 DEF CR!ANext
<1>4. CASE PublishIdxMeta
  <2>1. CR!AAck
    BY <1>4 DEF PublishIdxMeta, CR!AAck
  <2>2. QED
    BY <2>1 DEF CR!ANext
<1>5. CASE Crash
  <2>1. CR!ACrash
    BY <1>5, Zenon DEF Crash, Loaded, CR!ACrash, CR!Nothing, NoReader
  <2>2. QED
    BY <2>1 DEF CR!ANext
<1>6. CASE BeginWrite \/ Abort \/ BeginCommit \/ FailDb \/ PublishCells \/ PublishCache \/ PublishIds
  BY <1>2, <1>6 DEF BeginWrite, Abort, BeginCommit, FailDb, PublishCells, PublishCache, PublishIds, Keeping
<1>7. ASSUME NEW k \in Keys, Put(k) \/ Drop(k) \/ Evict(k) PROVE UNCHANGED CR!avars
  BY <1>2, <1>7 DEF Put, Drop, Evict, Keeping
<1>8. ASSUME NEW k \in Asked, WLookup(k) PROVE UNCHANGED CR!avars
  BY <1>2, <1>8 DEF WLookup, Keeping
<1>9. ASSUME NEW S \in SUBSET IdlKeys, Reindex(S) PROVE UNCHANGED CR!avars
  BY <1>2, <1>9 DEF Reindex, Keeping
<1>10. ASSUME NEW c \in Caches, Quiesce(c) PROVE UNCHANGED CR!avars
  BY <1>2, <1>10 DEF Quiesce
<1>11. CASE UNCHANGED vars
  BY <1>2, <1>11 DEF vars
<1>12. QED
  BY <1>1, <1>3, <1>4, <1>5, <1>6, <1>7, <1>8, <1>9, <1>10, <1>11 DEF Next

(* The caches, their snapshots and the order of a commit implement            *)
(* CommittedReads: what a reader is told of a key is a committed value, not   *)
(* older than what had been acknowledged when it began, and the same each     *)
(* time it asks.                                                              *)
THEOREM ReadersReadCommitted == Spec => LookupsAreCommittedReads
<1>1. Init => CR!AInit
  <2> SUFFICES ASSUME Init PROVE CR!AInit
    OBVIOUS
  <2>1. db \in [Keys -> Vals] /\ hist = <<db>>
    BY MaxTxnAssumption DEF Init, Vals
  <2>2. QED
    BY <2>1 DEF Init, CR!AInit, CR!Nothing, NoReader
<1>2. QED
  BY <1>1, Invariance, StepsMap, PTL DEF Spec, LookupsAreCommittedReads, CR!ASpec

=============================================================================
