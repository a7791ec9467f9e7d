------------------------------- MODULE Index --------------------------------
(***************************************************************************)
(* The backend's indexes: the index tables and the name maps that          *)
(* entry_index keeps beside the entries, the index metadata that schema    *)
(* reloads change, and reindexing.                                         *)
(*                                                                         *)
(* An entry gives every attribute its set of values; one with no values at *)
(* all stands for None.  "name" is the unique attribute and "tag" a        *)
(* multi-valued one.  Every operation is a transaction of its own:         *)
(* entry_index uses the metadata of when the transaction began, so a       *)
(* schema change acts only on what follows it.                             *)
(***************************************************************************)
EXTENDS Integers, FiniteSets, FiniteSetsExt

CONSTANTS
  Uuids, Names, Tags,  \* the values of the attributes
  BaseMeta,            \* the indexes the first schema declares
  SchemaChanges,       \* pairs of metadata, before and after a reload
  MaxId                \* bound: entries created between two restarts

VARIABLES
  entries,   \* id2entry
  tables,    \* the index tables that exist: for each, pairs <<key, id>>
  name2uuid, \* for each name, no uuid or one
  uuid2spn,  \* for each uuid, no name or one
  maxId,
  idxmeta,   \* the indexes the schema declares
  resolved,  \* the metadata a cached resolved filter may have been made with
  stale      \* history: the tables that missed a write since they were made,
             \* because the schema did not declare them

indexes == <<tables, name2uuid, uuid2spn>>
vars == <<entries, indexes, maxId, idxmeta, resolved, stale>>

Attrs == {"uuid", "class", "name", "tag"}
None == [a \in Attrs |-> {}]

Entry(u, n, t) ==
  [a \in Attrs |-> CASE a = "uuid" -> {u} [] a = "class" -> {"object"}
                     [] a = "name" -> {n} [] a = "tag" -> t]

Hidden(e) == e["class"] \cap {"recycled", "tombstone"} # {}
Live == {i \in DOMAIN entries : ~Hidden(entries[i])}
Recycled == {i \in DOMAIN entries : "recycled" \in entries[i]["class"]}
Tombstones == {i \in DOMAIN entries : "tombstone" \in entries[i]["class"]}

-----------------------------------------------------------------------------
(* entry_index *)

(* mask_recycled_ts *)
Masked(e) == IF Hidden(e) THEN None ELSE e

(* generate_idx_eq_keys and the presence key; substring indexes get none. *)
EqKeys(meta, e) == UNION {{<<k, v>> : v \in e[k[1]]} : k \in {k \in meta : k[2] = "eq"}}
IdxKeys(meta, e) ==
  EqKeys(meta, e) \cup {<<k, "_">> : k \in {k \in meta : k[2] = "pres" /\ e[k[1]] # {}}}

(* idx_diff, applied to the tables that exist; the mutant only adds. *)
TablesAdded(ts, meta, i, pre, post) ==
  [k \in DOMAIN ts |-> ts[k] \cup {<<x[2], i>> : x \in {x \in IdxKeys(meta, post) : x[1] = k}}]
TablesAfter(ts, meta, i, pre, post) ==
  LET gone == IdxKeys(meta, pre) \ IdxKeys(meta, post)
      new  == IdxKeys(meta, post) \ IdxKeys(meta, pre)
  IN [k \in DOMAIN ts |->
        (ts[k] \ {<<x[2], i>> : x \in {x \in gone : x[1] = k}})
          \cup {<<x[2], i>> : x \in {x \in new : x[1] = k}}]

(* idx_name2uuid_diff, the names that are gone written last; and            *)
(* idx_uuid2spn_diff.  pre and post are masked.                             *)
NamesAfter(n2u, pre, post) ==
  [n \in Names |-> IF n \in pre["name"] \ post["name"] THEN {}
                   ELSE IF n \in post["name"] \ pre["name"] THEN post["uuid"]
                   ELSE n2u[n]]
SpnsAfter(u2s, pre, post) ==
  [u \in Uuids |-> IF u \in pre["uuid"] \cup post["uuid"] /\ pre["name"] # post["name"]
                   THEN post["name"] ELSE u2s[u]]

Indexes(ts, n2u, u2s) == [tables |-> ts, n2u |-> n2u, u2s |-> u2s]

EntryIndex(x, meta, i, pre, post) ==
  Indexes(TablesAfter(x.tables, meta, i, pre, post),
          NamesAfter(x.n2u, Masked(pre), Masked(post)),
          SpnsAfter(x.u2s, Masked(pre), Masked(post)))

(* The entries es after a write, ids of which are written, one by one. *)
Put(es, ids) ==
  LET At(f, i) == IF i \in DOMAIN f THEN f[i] ELSE None
      Step(i, x) == EntryIndex(x, idxmeta, i, At(entries, i), At(es, i))
      x == FoldSet(Step, Indexes(tables, name2uuid, uuid2spn), ids)
  IN /\ entries' = es
     /\ tables' = x.tables /\ name2uuid' = x.n2u /\ uuid2spn' = x.u2s
     /\ stale' = stale \cup (DOMAIN tables \ idxmeta)

-----------------------------------------------------------------------------
(* The uniqueness check of attrunique, for candidates cand by id: no two    *)
(* share a name and no other live entry has it.  enforce_unique asks this   *)
(* with a filter; IndexSearch shows that the filter's answer is this one.   *)
(* The mutant does not compare the candidates with each other.              *)

TakenByOther(n, u) == \E i \in Live : n \in entries[i]["name"] /\ u \notin entries[i]["uuid"]

CandidatesDiffer(cand) ==
  \A i, j \in DOMAIN cand : i # j => cand[i]["name"] \cap cand[j]["name"] = {}

OnlyAgainstEntries(cand) ==
  \A i \in DOMAIN cand : \A n \in cand[i]["name"], u \in cand[i]["uuid"] : ~TakenByOther(n, u)
EnforceUnique(cand) == CandidatesDiffer(cand) /\ OnlyAgainstEntries(cand)

Changed(ids, F(_)) ==
  [i \in DOMAIN entries |-> IF i \in ids THEN F(entries[i]) ELSE entries[i]]

-----------------------------------------------------------------------------
Init ==
  /\ entries = [i \in {} |-> None]
  /\ tables = [k \in BaseMeta |-> {}]
  /\ name2uuid = [n \in Names |-> {}] /\ uuid2spn = [u \in Uuids |-> {}]
  /\ maxId = 0
  /\ idxmeta = BaseMeta /\ resolved = {BaseMeta} /\ stale = {}

Create(e) ==
  /\ \A i \in DOMAIN entries : entries[i]["uuid"] # e["uuid"]
  /\ maxId < MaxId
  /\ EnforceUnique([i \in {maxId + 1} |-> e])
  /\ maxId' = maxId + 1
  /\ Put([i \in DOMAIN entries \cup {maxId + 1} |-> IF i = maxId + 1 THEN e ELSE entries[i]],
         {maxId + 1})
  /\ UNCHANGED <<idxmeta, resolved>>

(* modify_pre_apply and be::modify on live entries: attribute a gets the    *)
(* values vs.                                                               *)
Modify(ids, a, vs) ==
  /\ ids # {} /\ ids \subseteq Live
  /\ LET es == Changed(ids, LAMBDA e : [e EXCEPT ![a] = vs])
     IN /\ EnforceUnique([i \in ids |-> es[i]])
        /\ Put(es, ids)
  /\ UNCHANGED <<maxId, idxmeta, resolved>>

Delete(ids) ==
  /\ ids # {} /\ ids \subseteq Live
  /\ Put(Changed(ids, LAMBDA e : [e EXCEPT !["class"] = @ \cup {"recycled"}]), ids)
  /\ UNCHANGED <<maxId, idxmeta, resolved>>

ReviveRecycled(ids) ==
  /\ ids # {} /\ ids \subseteq Recycled
  /\ LET es == Changed(ids, LAMBDA e : [e EXCEPT !["class"] = @ \ {"recycled"}])
     IN /\ EnforceUnique([i \in ids |-> es[i]])
        /\ Put(es, ids)
  /\ UNCHANGED <<maxId, idxmeta, resolved>>

(* to_tombstone keeps the uuid and a class only. *)
PurgeRecycled(ids) ==
  /\ ids # {} /\ ids \subseteq Recycled
  /\ Put(Changed(ids, LAMBDA e : [None EXCEPT !["uuid"] = e["uuid"], !["class"] = {"object", "tombstone"}]),
         ids)
  /\ UNCHANGED <<maxId, idxmeta, resolved>>

(* reap_tombstones removes the entry and indexes the removal. *)
ReapTombstones(ids) ==
  /\ ids # {} /\ ids \subseteq Tombstones
  /\ Put([i \in DOMAIN entries \ ids |-> entries[i]], ids)
  /\ UNCHANGED <<maxId, idxmeta, resolved>>

(* reload_schema and update_idxmeta: the tables stay as they are, and a     *)
(* resolved filter that is cached stays in the cache.                       *)
ReloadSchema(meta) ==
  /\ <<idxmeta, meta>> \in SchemaChanges
  /\ idxmeta' = meta
  /\ resolved' = resolved \cup {meta}
  /\ UNCHANGED <<entries, indexes, maxId, stale>>

(* What reindex makes of the entries, from tables that are empty: one for   *)
(* each index of meta.                                                      *)
Reindexed(meta) ==
  LET Step(i, x) == EntryIndex(x, meta, i, None, entries[i])
      NoTables == [k \in meta |-> {}]
  IN FoldSet(Step, Indexes(NoTables, [n \in Names |-> {}], [u \in Uuids |-> {}]), DOMAIN entries)

(* get_id2entry_max_id *)
StoredMaxId == Max({0} \cup DOMAIN entries)

(* The process restarts, with a reindex when the index version asks for it  *)
(* or the administrator does.                                               *)
Restart ==
  /\ maxId' = StoredMaxId
  /\ resolved' = {idxmeta}
  /\ UNCHANGED <<entries, indexes, idxmeta, stale>>

Reindex ==
  /\ LET x == Reindexed(idxmeta)
     IN tables' = x.tables /\ name2uuid' = x.n2u /\ uuid2spn' = x.u2s
  /\ maxId' = StoredMaxId
  /\ resolved' = {idxmeta}
  /\ stale' = {}
  /\ UNCHANGED <<entries, idxmeta>>

Next ==
  \/ \E u \in Uuids, n \in Names, t \in SUBSET Tags : Create(Entry(u, n, t))
  \/ \E ids \in SUBSET DOMAIN entries :
       \/ \E n \in Names : Modify(ids, "name", {n})
       \/ \E t \in SUBSET Tags : Modify(ids, "tag", t)
       \/ Delete(ids) \/ ReviveRecycled(ids) \/ PurgeRecycled(ids) \/ ReapTombstones(ids)
  \/ \E c \in SchemaChanges : ReloadSchema(c[2])
  \/ Restart
  \/ Reindex

Spec == Init /\ [][Next]_vars

-----------------------------------------------------------------------------
(* Properties *)

(* The type invariant. *)
TypeOK ==
  /\ DOMAIN entries \subseteq 1..maxId /\ maxId \in 0..MaxId
  /\ \A i \in DOMAIN entries : entries[i]["uuid"] \subseteq Uuids /\ entries[i]["name"] \subseteq Names
  /\ stale \subseteq DOMAIN tables
  /\ \A k \in DOMAIN tables \ stale : \A p \in tables[k] : p[2] \in DOMAIN entries
  /\ name2uuid \in [Names -> SUBSET Uuids] /\ uuid2spn \in [Uuids -> SUBSET Names]
  /\ idxmeta \in resolved

(* An index table holds exactly what a reindex would put there ("we can     *)
(* check a value should exist, but not that a value should NOT be present", *)
(* verify_entry_index), as long as the schema declares it: every            *)
(* operation's diff keeps it so, recycling, revival, reaping and reuse of   *)
(* ids included.  A table whose index is dropped misses what is written     *)
(* then, and a schema that declares it again does not make up for it.       *)
TablesExact ==
  \A k \in DOMAIN tables \ stale : tables[k] = Reindexed({k}).tables[k]

(* The name maps say exactly what the live entries say: a name leads to the *)
(* one live entry that has it, so that no two share one, and a hidden entry *)
(* is not found, whatever happens to a recycled entry whose name was taken  *)
(* meanwhile, and though a revive may bring back several at once.           *)
NameMapsExact ==
  /\ \A n \in Names :
       name2uuid[n] = UNION {entries[i]["uuid"] : i \in {i \in Live : n \in entries[i]["name"]}}
  /\ \A u \in Uuids :
       uuid2spn[u] = UNION {entries[i]["name"] : i \in {i \in Live : u \in entries[i]["uuid"]}}

=============================================================================
