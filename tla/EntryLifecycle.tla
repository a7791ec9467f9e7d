--------------------------- MODULE EntryLifecycle ---------------------------
(***************************************************************************)
(* The life of entries in the query server: create, modify, delete (to the *)
(* recycle bin), revive, the two purges, and what a write transaction, a   *)
(* cache eviction and a restart do to the entries, their changelogs and    *)
(* the replication update vector (RUV).                                    *)
(*                                                                         *)
(* entries, ruv, maxId and tsMax are the committed database; the w-copies  *)
(* are what the one write transaction sees (the write ticket admits one).  *)
(* Every entry is a group.  The memberof plugin runs one stripe at a time: *)
(* while groupAffect is not empty the transaction can only go on with the  *)
(* next stripe, or be dropped.  In the same way dmMods holds the group     *)
(* memberships a revive has still to put back.                             *)
(***************************************************************************)
EXTENDS EntryChangelog

(* The modifications a modlist of one element can make to member. *)
MemberMods == {ModifyPurge("member")}
                \cup {ModifyPresent("member", {v}) : v \in Uuids}
                \cup {ModifyRemoved("member", {v}) : v \in Uuids}
                \cup {ModifyAssert("member", {v}) : v \in Uuids}

CONSTANTS
  Mods,          \* the modifications that are requested
  MaxId,         \* bound: entries created between two restarts
  MaxOps,        \* bound: operations in one transaction
  RecycleAge,    \* RECYCLEBIN_MAX_AGE
  ChangelogAge   \* CHANGELOG_MAX_AGE

ASSUME AgeAssumption == /\ MaxId \in Nat
                        /\ MaxOps \in Nat
                        /\ RecycleAge \in Nat
                        /\ ChangelogAge \in Nat

ASSUME ModsAssumption == Mods \subseteq MemberMods

VARIABLES
  entries, ruv, maxId, tsMax,
  wEntries, wRuv, wMaxId,
  cid,           \* the open transaction's Cid, 0 when there is none
  ops,           \* operations the open transaction has made
  groupAffect,   \* apply_memberof's worklist
  dmMods,        \* memberships revive_recycled has yet to restore
  purger,        \* the interval actor: its next purge, or how it died
  ruvFrom        \* history: the bound the RUV was last trimmed to

committed == <<entries, ruv, maxId, tsMax>>
working   == <<wEntries, wRuv, wMaxId>>
pending   == <<groupAffect, dmMods>>
vars      == <<committed, working, cid, ops, pending, purger, ruvFrom>>

Ids == 1..MaxId

Class(es, u)  == es[u].attrs.class
Live(es)      == {u \in DOMAIN es : Class(es, u) = {}}
Recycled(es)  == {u \in DOMAIN es : "recycled" \in Class(es, u)}
Tombstones(es) == {u \in DOMAIN es : "tombstone" \in Class(es, u)}

(* Every value of every reference attribute of an entry. *)
References(e) == e.attrs.member \cup e.attrs.memberof \cup e.attrs.directmemberof

NoMods == [u \in Uuids |-> {}]

-----------------------------------------------------------------------------
(* Backend *)

(* BackendWriteTransaction::modify's writes: the entries of DOMAIN attrs    *)
(* get new attributes, the transaction's Cid and the transitions recorded.  *)
Write(es, c, attrs, ts) ==
  [u \in DOMAIN es |->
     IF u \in DOMAIN attrs
       THEN [id |-> es[u].id, attrs |-> attrs[u], lmc |-> c,
             log |-> Record(es[u].log, c, ts[u])]
       ELSE es[u]]

IdsOf(es, us) == {es[u].id : u \in us}

(* Mutant of InsertChange: the ids the Cid already has are forgotten. *)
OverwriteChange(r, c, ids) == [r EXCEPT ![c] = ids]

(* ReplicationUpdateVector::insert_change; a Cid that is missing has no ids. *)
InsertChange(r, c, ids) == [r EXCEPT ![c] = @ \cup ids]

(* The check at the head of be::create and be::modify. *)
AllHaveTail(es, c, us) == \A u \in us : ContainsTailCid(es[u].log, c)

Put(es, us) ==
  /\ AllHaveTail(es, cid, us)
  /\ wEntries' = es
  /\ wRuv' = InsertChange(wRuv, cid, IdsOf(es, us))

-----------------------------------------------------------------------------
(* Transactions *)

NewLamport(ct) == IF ct > tsMax THEN ct ELSE tsMax + 1

Init ==
  /\ entries = [u \in {} |-> {}]
  /\ ruv = [c \in Cids |-> {}]
  /\ maxId = 0
  /\ tsMax = 0
  /\ wEntries = entries /\ wRuv = ruv /\ wMaxId = maxId
  /\ cid = 0 /\ ops = 0
  /\ groupAffect = {} /\ dmMods = NoMods
  /\ purger \in {"tombstones", "recycled"}
  /\ ruvFrom = 0

Begin(ct) ==
  /\ cid = 0
  /\ NewLamport(ct) <= MaxTs
  /\ cid' = NewLamport(ct)
  /\ ops' = 0
  /\ UNCHANGED <<committed, working, pending, purger, ruvFrom>>

(* The transaction can take another operation: the last one is complete. *)
Ready == cid # 0 /\ groupAffect = {} /\ dmMods = NoMods

Idle == cid = 0

Operation == Ready /\ ops < MaxOps /\ ops' = ops + 1

Commit ==
  /\ Ready
  /\ entries' = wEntries /\ ruv' = wRuv /\ maxId' = wMaxId
  /\ tsMax' = cid
  /\ cid' = 0 /\ ops' = 0
  /\ UNCHANGED <<working, pending, purger, ruvFrom>>

(* An operation returned an error, or the transaction was dropped. *)
Abort ==
  /\ cid # 0
  /\ wEntries' = entries /\ wRuv' = ruv /\ wMaxId' = maxId
  /\ cid' = 0 /\ ops' = 0
  /\ groupAffect' = {} /\ dmMods' = NoMods
  /\ UNCHANGED <<committed, purger, ruvFrom>>

-----------------------------------------------------------------------------
(* The reference checks and the memberof plugin *)

(* refint's check_uuids_exist: one inclusion over every uuid the candidates  *)
(* refer to.  Each of its terms is looked up in the uuid index, where masked *)
(* entries are too; the mask applies to the union, of which one entry is     *)
(* enough.                                                                   *)
ReferencesExist(es, us) ==
  LET refs == UNION {References(es[u]) : u \in us}
  IN refs # {} => refs \subseteq DOMAIN es /\ refs \cap Live(es) # {}

Members(es, us) == UNION {es[u].attrs.member : u \in us}

GroupsOf(es, u) == {g \in Live(es) : u \in es[g].attrs.member}

(* do_memberof, for the attributes and for the transitions it records. *)
DoMemberOf(es, u) ==
  LET dmo == GroupsOf(es, u)
  IN [es[u].attrs EXCEPT !.directmemberof = dmo,
                         !.memberof = dmo \cup UNION {es[g].attrs.memberof : g \in dmo}]

MemberOfTransitions(attrs) ==
  <<ModifyPurge("memberof"), ModifyPurge("directmemberof")>>
  \o (IF attrs.directmemberof = {} THEN <<>>
      ELSE <<ModifyPurge("directmemberof"),
             ModifyPresent("directmemberof", attrs.directmemberof)>>)
  \o (IF attrs.memberof = {} THEN <<>>
      ELSE <<ModifyPurge("memberof"), ModifyPresent("memberof", attrs.memberof)>>)

(* One turn of apply_memberof's loop: every affected live group is computed *)
(* from the database as it is before the stripe; the changed ones are       *)
(* written, and their members are affected next.                            *)
Stripe ==
  /\ cid # 0 /\ groupAffect # {}
  /\ LET workSet == groupAffect \cap Live(wEntries)
         changed == {u \in workSet : DoMemberOf(wEntries, u) # wEntries[u].attrs}
         attrs   == [u \in changed |-> DoMemberOf(wEntries, u)]
         ts      == [u \in changed |-> MemberOfTransitions(attrs[u])]
     IN /\ Put(Write(wEntries, cid, attrs, ts), changed)
        /\ groupAffect' = Members(wEntries, changed)
  /\ UNCHANGED <<committed, wMaxId, cid, ops, dmMods, purger, ruvFrom>>

-----------------------------------------------------------------------------
(* Operations *)

(* The base plugin refuses a uuid that exists in any form, recycled and     *)
(* tombstone included.                                                      *)
CreateEntry(u, members) ==
  /\ Operation
  /\ u \notin DOMAIN wEntries
  /\ wMaxId < MaxId
  /\ LET attrs == [class |-> {}, member |-> members, memberof |-> {}, directmemberof |-> {}]
         new   == [id |-> wMaxId + 1, attrs |-> attrs, lmc |-> cid, log |-> NewLog(cid, attrs)]
         es    == [v \in DOMAIN wEntries \cup {u} |-> IF v = u THEN new ELSE wEntries[v]]
     IN /\ ReferencesExist(es, {u})
        /\ Put(es, {u})
  /\ wMaxId' = wMaxId + 1
  /\ groupAffect' = {u} \cup members
  /\ UNCHANGED <<committed, cid, dmMods, purger, ruvFrom>>

(* memberof's post_modify_inner: the entries, and their members before and  *)
(* after.  The mutant forgets the members that were there before.           *)
AffectedByPost(pre, post, us) == us \cup Members(post, us)
AffectedByModify(pre, post, us) == us \cup Members(pre, us) \cup Members(post, us)

(* modify_apply on the entries us: write, check references, run memberof. *)
ModifyApply(us, attrs, ts) ==
  LET es == Write(wEntries, cid, attrs, ts)
  IN /\ Put(es, us)
     /\ ReferencesExist(es, us)
     /\ groupAffect' = AffectedByModify(wEntries, es, us)

Modify(us, m) ==
  /\ Operation
  /\ us # {} /\ us \subseteq Live(wEntries)
  /\ m.op = "ModifyAssert" => \A u \in us : m.values \subseteq wEntries[u].attrs.member
  /\ ModifyApply(us, [u \in us |-> Modified(wEntries[u].attrs, m)], [u \in us |-> <<m>>])
  /\ UNCHANGED <<committed, wMaxId, cid, dmMods, purger, ruvFrom>>

(* to_recycled puts the class ahead of the transition. *)
RecycleTransitions == <<ModifyPresent("class", {"recycled"}), Recycle>>

(* refint's post_delete filter, filter_all; the mutant's leaves out the     *)
(* recycle bin.                                                             *)
LiveReferrers(es, us) == {u \in Live(es) : References(es[u]) \cap us # {}}
Referrers(es, us) == {u \in DOMAIN es : References(es[u]) \cap us # {}}

(* delete, with refint's post_delete, which takes the deleted uuids out of  *)
(* every entry that refers to them, recycled ones included.                 *)
Delete(us) ==
  /\ Operation
  /\ us # {} /\ us \subseteq Live(wEntries)
  /\ LET toRecycled == [u \in us |-> [wEntries[u].attrs EXCEPT !.class = {"recycled"}]]
         recycled == Write(wEntries, cid, toRecycled, [u \in us |-> RecycleTransitions])
         referrers == Referrers(recycled, us)
         cleaned == [u \in referrers |->
                       [recycled[u].attrs EXCEPT !.member = @ \ us,
                                                 !.memberof = @ \ us,
                                                 !.directmemberof = @ \ us]]
         removal == <<ModifyRemoved("member", us), ModifyRemoved("memberof", us),
                      ModifyRemoved("directmemberof", us)>>
     IN /\ Put(Write(recycled, cid, cleaned, [u \in referrers |-> removal]), us \cup referrers)
        /\ groupAffect' = Members(recycled, us)
  /\ UNCHANGED <<committed, wMaxId, cid, dmMods, purger, ruvFrom>>

(* revive_recycled up to modify_apply; the groups the entries were direct   *)
(* members of are modified afterwards, by ReviveMembership.                 *)
ReviveEntries(us) ==
  /\ Operation
  /\ us # {} /\ us \subseteq Recycled(wEntries)
  /\ ModifyApply(us,
       [u \in us |-> [wEntries[u].attrs EXCEPT !.class = @ \ {"recycled"}]],
       [u \in us |-> <<ModifyRemoved("class", {"recycled"}), Revive>>])
  /\ dmMods' = [g \in Uuids |-> {u \in us : g \in wEntries[u].attrs.directmemberof}]
  /\ UNCHANGED <<committed, wMaxId, cid, purger, ruvFrom>>

(* internal_modify of one group of dm_mods; the groups come in HashMap order. *)
(* A group that is gone matches no entry, which is not an error; one that is  *)
(* masked makes the modify, and so the revive, fail.                          *)
ReviveMembership(g) ==
  /\ cid # 0 /\ groupAffect = {} /\ dmMods[g] # {}
  /\ IF g \in DOMAIN wEntries
       THEN /\ g \in Live(wEntries)
            /\ ModifyApply({g},
                 [u \in {g} |-> [wEntries[g].attrs EXCEPT !.member = @ \cup dmMods[g]]],
                 [u \in {g} |-> <<ModifyPresent("member", dmMods[g])>>])
       ELSE UNCHANGED <<wEntries, wRuv, groupAffect>>
  /\ dmMods' = [dmMods EXCEPT ![g] = {}]
  /\ UNCHANGED <<committed, wMaxId, cid, ops, purger, ruvFrom>>

-----------------------------------------------------------------------------
(* The interval actor.  Each purge is a transaction of its own. *)

(* The whole database after a purge's transaction, and the clock with it. *)
CommitPurge(es, r, c) ==
  /\ entries' = es /\ ruv' = r /\ tsMax' = c
  /\ wEntries' = es /\ wRuv' = r
  /\ UNCHANGED <<maxId, wMaxId, cid, ops, pending>>

(* The entries purge_recycled turns into tombstones; the mutant is a Cid    *)
(* too eager.                                                               *)
EagerPurge(c) == {u \in Recycled(entries) : entries[u].lmc <= c - RecycleAge}
PurgeCandidates(c) == {u \in Recycled(entries) : entries[u].lmc < c - RecycleAge}

PurgeRecycled(ct) ==
  /\ Idle
  /\ purger = "recycled"
  /\ NewLamport(ct) <= MaxTs
  /\ LET c  == NewLamport(ct)
         us == PurgeCandidates(c)
         es == Write(entries, c, [u \in us |-> TombstoneAttrs],
                                 [u \in us |-> <<Tombstone(TombstoneAttrs)>>])
     IN /\ AllHaveTail(es, c, us)
        /\ CommitPurge(es, InsertChange(ruv, c, IdsOf(es, us)), c)
  /\ purger' = "tombstones"
  /\ UNCHANGED ruvFrom

(* The ids a trim of the RUV up to c returns, and what is left of it. *)
RuvBefore(r, c) == UNION {r[d] : d \in {d \in Cids : d < c}}
RuvTrimmed(r, c) == [d \in Cids |-> IF d < c THEN {} ELSE r[d]]
RuvIdls(r) == UNION {r[d] : d \in Cids}

(* reap_tombstones at bound c: the affected entries, their trimmed forms,   *)
(* and which of them go.                                                    *)
Affected(c) == {u \in DOMAIN entries : entries[u].id \in RuvBefore(ruv, c)}
Trimmed(c) ==
  [u \in DOMAIN entries |->
     IF u \in Affected(c)
       THEN [id |-> entries[u].id, attrs |-> entries[u].attrs, lmc |-> entries[u].lmc,
             log |-> TrimUpTo(entries[u].log, c)]
       ELSE entries[u]]
Reaped(c) == {u \in Affected(c) : CanDelete(Trimmed(c)[u].log)}

ReapPanics(c)  == \E u \in Affected(c) : TrimPanics(entries[u].log, c)
LeftUnnamed(c) == \* mutant of ReapOrphans
  \E u \in Affected(c) \ Reaped(c) : entries[u].id \notin RuvIdls(RuvTrimmed(ruv, c))
ReapOrphans(c) == \E u \in Affected(c) \ Reaped(c) :
                    /\ ~IsLive(Trimmed(c)[u].log)
                    /\ entries[u].id \notin RuvIdls(RuvTrimmed(ruv, c))
NeverStale(c)  == FALSE \* mutant of ReapStale
ReapStale(c)   == \E u \in Reaped(c) : entries[u].id \in RuvIdls(RuvTrimmed(ruv, c))

(* How the purge fails: trim_up_to panics, or one of the two checks says    *)
(* the RUV state is invalid.                                                *)
ReapFailure(c) ==
  CASE ReapPanics(c)                                        -> "trim_panic"
    [] ~ReapPanics(c) /\ ReapOrphans(c)                     -> "ruv_orphan"
    [] ~ReapPanics(c) /\ ~ReapOrphans(c) /\ ReapStale(c)    -> "ruv_stale"

(* The Cid that purge_tombstones trims to; the mutant trims everything. *)
OwnCid(c) == c
TrimCid(c) == c - ChangelogAge

(* The handler expects the purge to succeed: a failure of any kind ends the *)
(* interval actor, and the transaction is dropped.                          *)
PurgeTombstones(ct) ==
  /\ Idle
  /\ purger = "tombstones"
  /\ NewLamport(ct) <= MaxTs
  /\ LET c == TrimCid(NewLamport(ct))
         failed == ReapPanics(c) \/ ReapOrphans(c) \/ ReapStale(c)
     IN \/ /\ failed
           /\ purger' = ReapFailure(c)
           /\ UNCHANGED <<committed, working, cid, ops, pending, ruvFrom>>
        \/ /\ ~failed
           /\ CommitPurge([u \in DOMAIN entries \ Reaped(c) |-> Trimmed(c)[u]],
                          RuvTrimmed(ruv, c), NewLamport(ct))
           /\ purger' = "recycled"
           /\ ruvFrom' = c

-----------------------------------------------------------------------------
(* Caches and restarts.  The changelog is not stored: an entry that is read *)
(* from disk gets a new one.                                                *)

Reload(e) == [id |-> e.id, attrs |-> e.attrs, lmc |-> e.lmc,
              log |-> NewWithoutSchema(e.lmc, e.attrs)]

(* The entry cache dropped u, and the next read loads it from disk. *)
Evict(u) ==
  /\ Idle
  /\ u \in DOMAIN entries
  /\ entries' = [v \in DOMAIN entries |-> IF v = u THEN Reload(entries[v]) ELSE entries[v]]
  /\ wEntries' = entries'
  /\ UNCHANGED <<ruv, maxId, tsMax, wRuv, wMaxId, cid, ops, pending, purger, ruvFrom>>

(* ReplicationUpdateVector::rebuild. *)
Rebuild(es) ==
  [c \in Cids |-> {es[u].id : u \in {v \in DOMAIN es : c \in DOMAIN es[v].log.changes}}]

(* get_id2entry_max_id: SELECT MAX(id), 0 when the table is empty. *)
StoredMaxId(es) ==
  {i \in {0} \cup IdsOf(es, DOMAIN es) : \A j \in IdsOf(es, DOMAIN es) : j <= i}

(* A stop or a crash, at any point, and Backend::new on what was committed. *)
Restart ==
  /\ entries' = [u \in DOMAIN entries |-> Reload(entries[u])]
  /\ ruv' = Rebuild(entries')
  /\ maxId' \in StoredMaxId(entries)
  /\ wEntries' = entries' /\ wRuv' = ruv' /\ wMaxId' = maxId'
  /\ cid' = 0 /\ ops' = 0
  /\ groupAffect' = {} /\ dmMods' = NoMods
  /\ purger' = "tombstones"
  /\ ruvFrom' = 0
  /\ UNCHANGED tsMax

Next ==
  \/ \E ct \in Cids : Begin(ct) \/ PurgeRecycled(ct) \/ PurgeTombstones(ct)
  \/ \E u \in Uuids, members \in SUBSET Uuids : CreateEntry(u, members)
  \/ \E us \in SUBSET Uuids, m \in Mods : Modify(us, m)
  \/ \E us \in SUBSET Uuids : Delete(us) \/ ReviveEntries(us)
  \/ \E g \in Uuids : ReviveMembership(g) \/ Evict(g)
  \/ Stripe
  \/ Commit
  \/ Abort
  \/ Restart

Spec == Init /\ [][Next]_vars

-----------------------------------------------------------------------------
(* Properties.  A named part speaks of one database; an invariant says it   *)
(* of the committed one and of the one the open transaction sees.           *)

Entry(e) ==
  /\ e.id \in Ids
  /\ e.attrs \in Attrs
  /\ e.lmc \in Cids
  /\ e.log.anchorCid \in Int
  /\ DOMAIN e.log.changes \subseteq Cids

Database(es, r, m) ==
  /\ DOMAIN es \subseteq Uuids
  /\ \A u \in DOMAIN es : Entry(es[u])
  /\ r \in [Cids -> SUBSET Ids]
  /\ m \in 0..MaxId

(* The type invariant. *)
TypeOK ==
  /\ Database(entries, ruv, maxId)
  /\ Database(wEntries, wRuv, wMaxId)
  /\ tsMax \in 0..MaxTs
  /\ cid \in 0..MaxTs
  /\ ops \in 0..MaxOps
  /\ groupAffect \subseteq Uuids
  /\ dmMods \in [Uuids -> SUBSET Uuids]
  /\ ruvFrom \in Int
  /\ purger \in {"tombstones", "recycled", "trim_panic", "ruv_orphan", "ruv_stale"}

StateKind(class) ==
  IF "tombstone" \in class THEN "Tombstone"
  ELSE IF "recycled" \in class THEN "Recycled" ELSE "Live"

LogsReplay(es) ==
  \A u \in DOMAIN es :
    LET r == Replay(es[u].log, MaxTs + 1)
    IN /\ r.rejected = {}
       /\ r.state = State(StateKind(Class(es, u)), es[u].attrs)

(* EntryChangelog::verify: replaying an entry's changes from its anchor      *)
(* rejects none of them and ends in the entry as it is, in the state its     *)
(* classes say it is in.  Holds through deletes, revives, reference clean-up *)
(* of recycled entries, trims and reloads.                                   *)
ReplayMatches == LogsReplay(entries) /\ LogsReplay(wEntries)

(* memberof's verify: outside an operation, directmemberof of a live entry   *)
(* is exactly the live groups it is a member of, though each operation only  *)
(* recomputes the entries it believes affected.                              *)
DirectMemberOfExact ==
  cid = 0 => \A u \in Live(entries) : entries[u].attrs.directmemberof = GroupsOf(entries, u)

(* The Cid of an open transaction is later than every committed Cid and no   *)
(* recorded change is later than it, whatever the clock did, so be::create   *)
(* and be::modify always find it at the tail of the changelogs they write.   *)
CidsBehind ==
  /\ cid # 0 => tsMax < cid
  /\ \A u \in DOMAIN entries : \A c \in DOMAIN entries[u].log.changes : c <= tsMax
  /\ \A u \in DOMAIN wEntries : \A c \in DOMAIN wEntries[u].log.changes :
       c <= IF cid = 0 THEN tsMax ELSE cid

LogsInRuv(es, r, from) ==
  \A u \in DOMAIN es : \A c \in DOMAIN es[u].log.changes :
    from <= c => es[u].id \in r[c]

(* The RUV misses nothing since the bound it was last trimmed to: a change   *)
(* recorded in an entry's changelog has the entry's id under its Cid.        *)
RuvComplete == LogsInRuv(entries, ruv, ruvFrom) /\ LogsInRuv(wEntries, wRuv, ruvFrom)

NamedUnderTail(es, r) ==
  \A u \in DOMAIN es, c \in Cids :
    es[u].id \in r[c] => c <= es[u].lmc /\ es[u].id \in r[es[u].lmc]

(* An entry the RUV names at all is named under its last_modified_cid and    *)
(* under nothing later.  This is what makes the reap safe: a tombstone that  *)
(* is still within the changelog window stays in the trimmed RUV, whatever   *)
(* its reloaded changelog says.                                              *)
RuvTail == NamedUnderTail(entries, ruv) /\ NamedUnderTail(wEntries, wRuv)

RuvIdsHaveEntries(es, r) ==
  \A c \in Cids : r[c] \subseteq IdsOf(es, DOMAIN es)

UniqueIds(es, m) ==
  /\ \A u \in DOMAIN es : es[u].id <= m
  /\ \A u, v \in DOMAIN es : es[u].id = es[v].id => u = v

(* No two entries share an id and every id in the RUV is an entry's, though  *)
(* a restart takes the next id from the greatest stored one and so reuses    *)
(* the id of a reaped entry.                                                 *)
IdsConsistent ==
  /\ UniqueIds(entries, maxId) /\ UniqueIds(wEntries, wMaxId)
  /\ RuvIdsHaveEntries(entries, ruv) /\ RuvIdsHaveEntries(wEntries, wRuv)

(* reap_tombstones never finds a left-over tombstone that the trimmed RUV no *)
(* longer names ("may be orphaned due to missing RUV entries").              *)
NeverOrphaned == purger # "ruv_orphan"

TombstonesKept ==
  \A u \in Tombstones(entries) :
    \/ /\ u \in DOMAIN entries'
       /\ entries'[u].attrs = entries[u].attrs
       /\ entries'[u].lmc = entries[u].lmc
    \/ /\ u \notin DOMAIN entries'
       /\ entries[u].lmc < tsMax' - ChangelogAge

(* A tombstone is final: once committed it is never modified or revived, and *)
(* it disappears only after its Cid has left the changelog window.           *)
TombstoneFinal == [][TombstonesKept]_vars

(* Nothing leaves the database but a tombstone: what can_delete concludes    *)
(* from a changelog's anchor is true of the entry.                           *)
OnlyTombstonesLeave ==
  [][\A u \in DOMAIN entries \ Tombstones(entries) : u \in DOMAIN entries']_vars

BinKept ==
  \A u \in Tombstones(entries') :
    /\ u \in DOMAIN entries
    /\ \/ u \in Tombstones(entries)
       \/ u \in Recycled(entries) /\ entries[u].lmc < tsMax' - RecycleAge

(* Nothing becomes a tombstone but an entry that stayed in the recycle bin,  *)
(* untouched, for the whole retention time; a created or revived entry, or   *)
(* one a reference clean-up touched in the bin, starts over.                 *)
RecycleBinHolds == [][BinKept]_vars

ReferencesKept ==
  cid' # 0 => \A u \in DOMAIN wEntries' :
                References(wEntries'[u]) \cap Live(wEntries) \subseteq Live(wEntries')

(* No step of an operation takes an entry away and leaves a reference to it, *)
(* in the recycle bin or elsewhere, that a later revive could bring back.    *)
(* (refint does accept a new reference to an entry that is in the bin        *)
(* already, beside one to a live entry: see ReferencesExist.)                *)
ReferencesFollow == [][ReferencesKept]_vars

=============================================================================
