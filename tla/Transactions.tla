----------------------------- MODULE Transactions -----------------------------
(***************************************************************************)
(* The read and the write transactions of the query server over the        *)
(* backend: the SQLite database, the three concurrent caches in front of   *)
(* it (entries, index lists, names), the set of all entry ids, and the     *)
(* copy-on-write cells that hold what the server derives from the entries  *)
(* (schema, domain information, access controls, index metadata).          *)
(*                                                                         *)
(* A reader takes its snapshots one by one, and SQLite takes its own only  *)
(* at the reader's first statement; the writer's commit publishes the same *)
(* parts one by one.  Every interleaving of the two is a behaviour here.   *)
(*                                                                         *)
(* The content of a key is the number of the write transaction that put it *)
(* there, 0 when the key is absent.  The caches are concread's ARCache,    *)
(* which is not part of this repository.                                   *)
(***************************************************************************)
EXTENDS Naturals, Sequences

CONSTANTS EntryKeys, IdlKeys, NameKeys,  \* the keys of the three caches
          Readers,                       \* read transactions
          Mirror,                        \* cell -> the entry it is derived from
          Asked,                         \* bound: the keys that are looked up
          MaxTxn,                        \* bound on the write transactions
          MaxOps                         \* bound on the operations of one of them

Keys == EntryKeys \cup IdlKeys \cup NameKeys
Vals == 0..MaxTxn
Cells == {"schema", "d_info", "accesscontrols", "idxmeta"}
Caches == {"entry", "idl", "name"}

ASSUME MirrorAssumption == Mirror \in [Cells -> EntryKeys]
ASSUME KeysAssumption ==
    /\ EntryKeys \cap IdlKeys = {} /\ EntryKeys \cap NameKeys = {} /\ IdlKeys \cap NameKeys = {}
    /\ Asked \subseteq Keys
ASSUME MaxTxnAssumption == MaxTxn \in Nat \ {0}

CacheOf(k) ==
    IF k \in EntryKeys THEN "entry" ELSE IF k \in IdlKeys THEN "idl" ELSE "name"

\* IdlArcSqlite::read.  "db" only begins a deferred transaction.  The cells
\* come after these; nothing below is about what a reader has of the cells.
ReadOrder == <<"entry", "idl", "name", "allids", "db">>

\* QueryServerWriteTransaction::commit, BackendWriteTransaction::commit and
\* IdlArcSqliteWriteTransaction::commit: "cells" are the schema, the domain
\* information and the access controls.
CommitOrder == <<"cells", "db", "name", "idl", "entry", "allids", "idxmeta">>

VARIABLES db,       \* the committed content of SQLite
          cache,    \* per key of the caches: is it present, its value, and the
                    \* generation of the cache in which it was last decided
          gen,      \* per cache, the number of write transactions published
          allids,   \* the published set of entry ids
          cell,     \* the published content of each cell
          offers,   \* what readers offered for inclusion in the caches
          writer,   \* the write transaction
          reader,   \* the read transactions
          txns,     \* write transactions begun
          hist,     \* history: the databases committed to SQLite
          acked,    \* history: how many of them returned Ok to the caller
          tainted   \* history: a commit failed after it had published cells

vars == <<db, cache, gen, allids, cell, offers, writer, reader, txns,
          hist, acked, tainted>>

Unread == MaxTxn + 1

Absent == [has |-> FALSE, val |-> 0, gen |-> 0]

\* A key of a transaction's own view of a cache: untouched, removed, or set
\* by it; dirty content is written to SQLite by the commit.
Untouched == [at |-> "main", val |-> 0, dirty |-> FALSE]
Set(v, d) == [at |-> "set", val |-> v, dirty |-> d]
Removed   == [at |-> "removed", val |-> 0, dirty |-> TRUE]

NoWriter == [pc |-> 0, open |-> FALSE, num |-> 0, ops |-> 0, db |-> [k \in Keys |-> 0],
             local |-> [k \in Keys |-> Untouched], cleared |-> FALSE, allids |-> {},
             cell |-> [c \in Cells |-> 0], want |-> [k \in Keys |-> 0]]

NoReader == [pc |-> 0, floor |-> 0, cache |-> [k \in Keys |-> Absent],
             gen |-> [c \in Caches |-> 0], allids |-> {}, db |-> <<>>, local |-> [k \in Keys |-> Untouched],
             seen |-> [k \in Keys |-> Unread]]

Present(d) == {k \in EntryKeys : d[k] # 0}

\* What initialise_helper leaves: caches empty, cells and ids loaded.
Loaded(d) ==
    /\ cache' = [k \in Keys |-> Absent]
    /\ gen' = [c \in Caches |-> 0]
    /\ allids' = Present(d)
    /\ cell' = [c \in Cells |-> d[Mirror[c]]]
    /\ offers' = {}
    /\ writer' = NoWriter
    /\ reader' = [r \in Readers |-> NoReader]
    /\ tainted' = FALSE

\* The database a server was set up with: everything there, from transaction 1.
Init ==
    /\ db = [k \in Keys |-> 1]
    /\ cache = [k \in Keys |-> Absent]
    /\ gen = [c \in Caches |-> 0]
    /\ allids = EntryKeys
    /\ cell = [c \in Cells |-> 1]
    /\ offers = {}
    /\ writer = NoWriter
    /\ reader = [r \in Readers |-> NoReader]
    /\ txns = 1
    /\ hist = <<db>>
    /\ acked = 1
    /\ tainted = FALSE

-----------------------------------------------------------------------------
(* Readers.                                                                *)

IsOpen(r) == reader[r].pc = Len(ReadOrder)

\* QueryServer::read; the entry cache is the first part.
Begin(r) ==
    /\ reader[r].pc = 0
    /\ reader' = [reader EXCEPT ![r] = [NoReader EXCEPT !.pc = 1, !.floor = acked,
                     !.cache = [k \in Keys |-> IF k \in EntryKeys THEN cache[k] ELSE Absent],
                     !.gen["entry"] = gen["entry"]]]
    /\ UNCHANGED <<db, cache, gen, allids, cell, offers, writer, txns, hist, acked, tainted>>

\* The reader takes the next part of the server.
Take(r) ==
    /\ reader[r].pc \in 1..(Len(ReadOrder) - 1)
    /\ LET p == ReadOrder[reader[r].pc + 1]
           at == [reader[r] EXCEPT !.pc = @ + 1]
       IN reader' = [reader EXCEPT ![r] =
            IF p \in Caches
              THEN [at EXCEPT !.cache = [k \in Keys |-> IF CacheOf(k) = p THEN cache[k] ELSE @[k]],
                              !.gen[p] = gen[p]]
            ELSE IF p = "allids" THEN [at EXCEPT !.allids = allids]
            ELSE at]
    /\ UNCHANGED <<db, cache, gen, allids, cell, offers, writer, txns, hist,
                   acked, tainted>>

\* The reader's cache, the values it included itself first.
Hit(rd, k) == rd.local[k].at = "set" \/ rd.cache[k].has
HitVal(rd, k) == IF rd.local[k].at = "set" THEN rd.local[k].val ELSE rd.cache[k].val

\* SQLite's snapshot begins with the first statement of the transaction; the
\* mutant has none.
DbNow(rd) == db
DbView(rd) == IF rd.db = <<>> THEN db ELSE rd.db

\* get_identry of a list of ids, get_idl, name2uuid, externalid2uuid, uuid2spn
\* and uuid2rdn: from the cache, else from SQLite, and then offered to the
\* cache: an entry and a name that exist, an index list even when it is empty.
Lookup(r, k) ==
    /\ IsOpen(r)
    /\ LET rd == reader[r]
           v == DbView(rd)[k]
       IN IF Hit(rd, k)
            THEN /\ reader' = [reader EXCEPT ![r].seen[k] = HitVal(rd, k)]
                 /\ UNCHANGED offers
            ELSE LET include == v # 0 \/ k \in IdlKeys IN
                 /\ reader' = [reader EXCEPT ![r].seen[k] = v, ![r].db = DbView(rd),
                      ![r].local[k] = IF include THEN Set(v, FALSE) ELSE @]
                 /\ offers' = offers \cup
                      (IF include THEN {[key |-> k, val |-> v, gen |-> rd.gen[CacheOf(k)]]}
                       ELSE {})
    /\ UNCHANGED <<db, cache, gen, allids, cell, writer, txns, hist, acked, tainted>>

\* get_identry of AllIds: the ids of the reader's own set, and nothing offered.
Scan(r) ==
    /\ IsOpen(r)
    /\ LET rd == reader[r] IN reader' = [reader EXCEPT
         ![r].seen = [k \in Keys |-> IF k \notin rd.allids THEN rd.seen[k]
                                     ELSE IF Hit(rd, k) THEN HitVal(rd, k) ELSE DbView(rd)[k]],
         ![r].db = IF \E k \in rd.allids : ~Hit(rd, k) THEN DbView(rd) ELSE @]
    /\ UNCHANGED <<db, cache, gen, allids, cell, offers, writer, txns, hist,
                   acked, tainted>>

\* The transaction is dropped.
Close(r) ==
    /\ IsOpen(r)
    /\ reader' = [reader EXCEPT ![r] = NoReader]
    /\ UNCHANGED <<db, cache, gen, allids, cell, offers, writer, txns, hist, acked, tainted>>
-----------------------------------------------------------------------------
(* The writer.                                                             *)

\* QueryServer::write: the only writer, by its ticket; it starts from what is
\* published.
BeginWrite ==
    /\ ~writer.open
    /\ txns < MaxTxn
    /\ txns' = txns + 1
    /\ writer' = [NoWriter EXCEPT !.open = TRUE, !.num = txns + 1, !.db = db,
                     !.allids = allids, !.cell = cell, !.want = db]
    /\ UNCHANGED <<db, cache, gen, allids, cell, offers, reader, hist, acked, tainted>>

Working == writer.open /\ writer.pc = 0
May == Working /\ writer.ops < MaxOps

Keeping == <<db, cache, gen, allids, cell, offers, reader, txns, hist, acked, tainted>>

\* write_identries, write_idl of a list that is not empty, write_name2uuid_add
\* and the like: the change stays in the transaction's own view of the cache.
Put(k) ==
    /\ May
    /\ writer' = [writer EXCEPT !.ops = @ + 1, !.local[k] = Set(writer.num, TRUE), !.want[k] = writer.num,
                     !.allids = IF k \in EntryKeys THEN @ \cup {k} ELSE @]
    /\ UNCHANGED Keeping

\* A cell is derived from the entry.
Mirrored(k) == \E c \in Cells : Mirror[c] = k

\* delete_identry, write_idl of an empty list (kept in the cache as such),
\* write_name2uuid_rem and the like.  Entries behind a cell are only reaped
\* long after the cell has forgotten them.  The mutant removes an empty list.
DropRemoved(k) ==
    /\ May
    /\ ~Mirrored(k)
    /\ writer' = [writer EXCEPT !.ops = @ + 1, !.local[k] = Removed, !.want[k] = 0, !.allids = @ \ {k}]
    /\ UNCHANGED Keeping
Drop(k) ==
    /\ May
    /\ ~Mirrored(k)
    /\ writer' = [writer EXCEPT !.ops = @ + 1, !.local[k] = IF k \in IdlKeys THEN Set(0, TRUE) ELSE Removed,
                     !.want[k] = 0, !.allids = @ \ {k}]
    /\ UNCHANGED Keeping

\* reindex: the index tables and the cache of lists are emptied, and the
\* lists of the keys in S are written again.  The mutant leaves the cache.
ReindexTables(S) ==
    /\ May
    /\ writer' = [writer EXCEPT !.ops = @ + 1,
         !.db = [k \in Keys |-> IF k \in IdlKeys THEN 0 ELSE @[k]],
         !.local = [k \in Keys |-> IF k \in S THEN Set(writer.num, TRUE)
                                   ELSE IF k \in IdlKeys THEN Untouched ELSE @[k]],
         !.want = [k \in Keys |-> IF k \in S THEN writer.num
                                  ELSE IF k \in IdlKeys THEN 0 ELSE @[k]]]
    /\ UNCHANGED Keeping
Reindex(S) ==
    /\ May
    /\ writer' = [writer EXCEPT !.ops = @ + 1, !.cleared = TRUE,
         !.db = [k \in Keys |-> IF k \in IdlKeys THEN 0 ELSE @[k]],
         !.local = [k \in Keys |-> IF k \in S THEN Set(writer.num, TRUE)
                                   ELSE IF k \in IdlKeys THEN Untouched ELSE @[k]],
         !.want = [k \in Keys |-> IF k \in S THEN writer.num
                                  ELSE IF k \in IdlKeys THEN 0 ELSE @[k]]]
    /\ UNCHANGED Keeping

InMain(k) == cache[k].has /\ ~(writer.cleared /\ k \in IdlKeys)

WriterVal(k) ==
    IF writer.local[k].at = "set" THEN writer.local[k].val
    ELSE IF writer.local[k].at = "main" /\ InMain(k) THEN cache[k].val
    ELSE writer.db[k]

\* The same lookups by the writer.  A miss goes to SQLite, which has none of
\* the dirty content yet; a list or a name found there is put into the
\* transaction's view of the cache, an entry is not.
WLookup(k) ==
    /\ May
    /\ LET hit == writer.local[k].at = "set" \/ (writer.local[k].at = "main" /\ InMain(k))
           v == WriterVal(k)
       IN writer' = [writer EXCEPT !.ops = @ + 1,
            !.local[k] = IF ~hit /\ (k \in IdlKeys \/ (k \in NameKeys /\ v # 0))
                           THEN Set(v, FALSE) ELSE @]
    /\ UNCHANGED Keeping

\* An operation failed, a reload failed or the schema does not validate.
Abort ==
    /\ Working
    /\ writer' = NoWriter
    /\ UNCHANGED <<db, cache, gen, allids, cell, offers, reader, txns, hist, acked, tainted>>

\* commit: cells whose entries changed are loaded again from the transaction;
\* the mutant loads none.
CommitUnloaded ==
    /\ Working
    /\ writer' = [writer EXCEPT !.pc = 1]
    /\ UNCHANGED Keeping
BeginCommit ==
    /\ Working
    /\ writer' = [writer EXCEPT !.pc = 1,
         !.cell = [c \in Cells |-> IF writer.local[Mirror[c]].dirty
                                     THEN WriterVal(Mirror[c]) ELSE @[c]]]
    /\ UNCHANGED Keeping

Step == CommitOrder[writer.pc]

PublishCells ==
    /\ writer.pc > 0
    /\ Step = "cells"
    /\ cell' = [c \in Cells |-> IF c = "idxmeta" THEN cell[c] ELSE writer.cell[c]]
    /\ writer' = [writer EXCEPT !.pc = @ + 1]
    /\ UNCHANGED <<db, cache, gen, allids, offers, reader, txns, hist, acked, tainted>>

\* The last part; the caller has its Ok.
PublishIdxMeta ==
    /\ writer.pc > 0
    /\ Step = "idxmeta"
    /\ cell' = [cell EXCEPT !["idxmeta"] = writer.cell["idxmeta"]]
    /\ writer' = NoWriter
    /\ acked' = Len(hist)
    /\ UNCHANGED <<db, cache, gen, allids, offers, reader, txns, hist, tainted>>

Flushed == [k \in Keys |-> IF writer.local[k].dirty THEN writer.local[k].val ELSE writer.db[k]]

\* The dirty content of the caches is written to SQLite, which commits.
CommitDb ==
    /\ writer.pc > 0
    /\ Step = "db"
    /\ db' = Flushed
    /\ hist' = Append(hist, Flushed)
    /\ writer' = [writer EXCEPT !.pc = @ + 1]
    /\ UNCHANGED <<cache, gen, allids, cell, offers, reader, txns, acked, tainted>>

\* SQLite refuses a write or the commit: it holds what it held before.
FailDb ==
    /\ writer.pc > 0
    /\ Step = "db"
    /\ writer' = NoWriter
    /\ tainted' = (tainted \/ \E c \in Cells \ {"idxmeta"} : writer.cell[c] # db[Mirror[c]])
    /\ UNCHANGED <<db, cache, gen, allids, cell, offers, reader, txns, hist, acked>>

\* What concread accepts of the offers for key k: not from before the
\* generation that decided the key last, and the youngest of those.
Accepted(k) ==
    LET ok == {o \in offers : o.key = k /\ o.gen >= cache[k].gen}
    IN {o \in ok : \A p \in ok : p.gen <= o.gen}

\* What key k of a cache may be once the offers are included.
Included(k) ==
    IF Accepted(k) = {} THEN {cache[k]}
    ELSE {[has |-> TRUE, val |-> o.val, gen |-> o.gen] : o \in Accepted(k)}

KeysOf(c) == {k \in Keys : CacheOf(k) = c}

CacheStates(c) ==
    {[k \in Keys |-> IF k \in KeysOf(c) THEN new[k] ELSE cache[k]] :
       new \in {f \in [KeysOf(c) -> UNION {Included(k) : k \in KeysOf(c)}] :
                  \A k \in KeysOf(c) : f[k] \in Included(k)}}

\* A cache's commit: the offers are included, then the transaction's content.
PublishCache ==
    /\ writer.pc > 0
    /\ Step \in Caches
    /\ \E cch \in CacheStates(Step) :
         cache' = [k \in Keys |->
           IF CacheOf(k) # Step THEN cch[k]
           ELSE IF writer.local[k].at = "set"
             THEN [has |-> TRUE, val |-> writer.local[k].val, gen |-> gen[Step] + 1]
           ELSE IF writer.local[k].at = "removed" \/ (Step = "idl" /\ writer.cleared)
             THEN [has |-> FALSE, val |-> 0, gen |-> gen[Step] + 1]
           ELSE cch[k]]
    /\ gen' = [gen EXCEPT ![Step] = @ + 1]
    /\ offers' = {o \in offers : CacheOf(o.key) # Step}
    /\ writer' = [writer EXCEPT !.pc = @ + 1]
    /\ UNCHANGED <<db, allids, cell, reader, txns, hist, acked, tainted>>

PublishIds ==
    /\ writer.pc > 0
    /\ Step = "allids"
    /\ allids' = writer.allids
    /\ writer' = [writer EXCEPT !.pc = @ + 1]
    /\ UNCHANGED <<db, cache, gen, cell, offers, reader, txns, hist, acked, tainted>>

-----------------------------------------------------------------------------
(* The caches on their own, and the process.                               *)

\* try_quiesce: the offers are taken without a write transaction.
Quiesce(c) ==
    /\ ~writer.open
    /\ \E o \in offers : CacheOf(o.key) = c
    /\ \E cch \in CacheStates(c) : cache' = cch
    /\ offers' = {o \in offers : CacheOf(o.key) # c}
    /\ UNCHANGED <<db, gen, allids, cell, writer, reader, txns, hist, acked, tainted>>

\* A cache makes room: the item goes, the generation is remembered.
Evict(k) ==
    /\ ~writer.open
    /\ cache[k].has
    /\ cache' = [cache EXCEPT ![k].has = FALSE, ![k].val = 0]
    /\ UNCHANGED <<db, gen, allids, cell, offers, writer, reader, txns, hist, acked,
                   tainted>>

\* The server stops and is started again on what SQLite has.
Crash ==
    /\ Loaded(db)
    /\ acked' = Len(hist)
    /\ UNCHANGED <<db, txns, hist>>

Next ==
    \/ \E r \in Readers : \/ Begin(r) \/ Take(r) \/ Scan(r) \/ Close(r)
                          \/ \E k \in Asked : Lookup(r, k)
    \/ BeginWrite \/ Abort \/ BeginCommit
    \/ \E k \in Keys : Put(k) \/ Drop(k) \/ Evict(k)
    \/ \E k \in Asked : WLookup(k)
    \/ \E S \in SUBSET IdlKeys : Reindex(S)
    \/ PublishCells \/ PublishIdxMeta \/ CommitDb \/ FailDb \/ PublishCache \/ PublishIds
    \/ \E c \in Caches : Quiesce(c)
    \/ Crash

Spec == Init /\ [][Next]_vars

-----------------------------------------------------------------------------
(* Properties.                                                             *)

\* The type invariant.
TypeOK ==
    /\ db \in [Keys -> Vals]
    /\ \A k \in Keys : cache[k].has \in BOOLEAN /\ cache[k].val \in Vals
    /\ allids \subseteq EntryKeys
    /\ cell \in [Cells -> Vals]
    /\ \A o \in offers : o.key \in Keys /\ o.val \in Vals
    /\ writer.pc \in 0..Len(CommitOrder)
    /\ \A r \in Readers : reader[r].pc \in 0..Len(ReadOrder)

\* While no write transaction is open, what a cache holds of a key is what
\* SQLite holds of it: however late a reader's offer arrives, it never puts
\* an older value back (the order of IdlArcSqlite::read and of commit).  And
\* the set of all ids is that of the entries, which verify asks for.
CacheCoherent ==
    ~writer.open => /\ \A k \in Keys : cache[k].has => cache[k].val = db[k]
                    /\ allids = Present(db)

\* While no write transaction is open and no commit failed half way, every
\* cell has the content of the entry it is derived from.
CellsMirrorEntries ==
    ~writer.open /\ ~tainted => \A c \in Cells : cell[c] = db[Mirror[c]]

\* The lookups of readers are those of CommittedReads: committed values, none
\* older than what was acknowledged when the reader began, and repeatable.
CR == INSTANCE CommittedReads WITH
        log <- hist,
        floor <- [r \in Readers |-> reader[r].floor],
        seen <- [r \in Readers |-> reader[r].seen]

LookupsAreCommittedReads == CR!ASpec

\* What a commit leaves of entries and index lists in SQLite is what the
\* transaction did last to each, whatever it looked up in between.  (Names are
\* left out: a name that is removed and then looked up is found in SQLite, put
\* back into the cache as clean, and so not removed by the commit.)
KeepsAll == \A k \in EntryKeys \cup IdlKeys : db'[k] = writer.want[k]
CommitKeepsAll == [][hist' # hist => KeepsAll]_vars

=============================================================================
