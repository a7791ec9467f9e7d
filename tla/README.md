# A TLA+ verification of Kanidm

This directory keeps TLA+ models of the parts of Kanidm whose correctness is
hard to test, the TLC configurations that check them on small instances, and
TLAPS proofs of their main properties for every instance. Paths below are
relative to the repository; `lib/` stands for `kanidmd/lib/src/`, `core/` for
`kanidmd/core/src/` and `unix/` for `kanidm_unix_int/src/`. `PROJECT.json` lists,
in machine-readable form, the components, the runs, the lines each definition
models, the hazards, the findings and the theorems.

    tlc -workers 2 -config EntryLifecyclePurge.cfg MCEntryLifecycle
    tlapm EntryLifecycleProofs.tla

## The system

Kanidm is an identity server. One process holds a database of entries
(accounts, groups, resource servers, access controls ...) and answers over
HTTPS and LDAP; clients are command line tools, a web interface and a resolver
daemon on Unix hosts.

| part | state | operations | what is hard about it |
|---|---|---|---|
| entries and changelogs (`lib/entry.rs`, `lib/repl/entry.rs`) | an entry's attributes, the state it is in (live, recycled, tombstone), an in-memory log of its changes since an anchor | record a transition, replay, trim, verify | the log is not stored: it is rebuilt, shorter, whenever the entry is reloaded |
| replication update vector, RUV (`lib/repl/ruv.rs`) | for each change id (Cid), the ids of the entries changed | insert, trim, rebuild | must agree with logs that are evicted, trimmed and reloaded separately |
| backend (`lib/be/`) | SQLite tables, entry and index caches, the next entry id | create, modify, reap, commit, reload | caches and disk; ids are reused after a restart |
| query server (`lib/server/`) | the write transaction, its Cid | create, modify, batch_modify, delete, revive, purges | one writer at a time, many plugins per operation |
| plugins (`lib/plugins/`) | none of their own | referential integrity, memberof, session consistency, dynamic groups, uniqueness ... | run inside other operations, and write entries the request did not name |
| credential updates (`lib/idm/credupdatesession.rs`) | intents on the entry, sessions in memory | issue, exchange, edit, commit, cancel | two stores that do not commit together |
| sessions and OAuth2 (`lib/idm/server.rs`, `account.rs`, `oauth2.rs`, `plugins/session.rs`) | tokens held by clients, records on the entry, a delayed action channel | issue, authorise, consent, exchange, record, destroy, revoke | a token is used before its record exists |
| authentication and soft locks (`lib/idm/authsession.rs`, `lib/credential/softlock.rs`) | authentication sessions, failure counts | init, begin, credential steps | clock boundaries, concurrent attempts |
| access controls, schema, filters (`lib/access.rs`, `lib/schema.rs`, `lib/filter.rs`) | definitions cached from entries | decide, validate, optimise, resolve | pure, but large |
| SCIM sync (`lib/idm/scim.rs`) | the cookie of the last batch | five phases of one batch | authority over entries; one large batch_modify |
| server core (`core/`) | tasks and channels | start, interval purges, the delayed action task, handlers | tasks end on a failed `expect` |
| Unix resolver (`kanidm_unix_int/`) | a cache database, online or offline | lookups, authentication, invalidation | answers from stale entries, provider timeouts |

They interact as follows. A request handler in `core/actors` opens a read or a
write transaction of the identity layer (`lib/idm/server.rs`), which wraps one
of the query server, which wraps one of the backend. At most one write
transaction is open. A write operation runs the plugins before and after the
backend has written; a plugin may write further entries, in the same
transaction. What a read transaction has to write is sent on the delayed action
channel and written later by one task. An interval task purges tombstones, then
the recycle bin, in turn.

## The modules

| module | models | extends |
|---|---|---|
| `EntryChangelog` | `lib/repl/entry.rs`, `lib/repl/cid.rs`: pure operators | |
| `EntryLifecycle` | write transactions, create to reap, caches, restarts, RUV, with refint and memberof | `EntryChangelog` |
| `MemberOf` | `lib/plugins/memberof.rs` on groups and on other entries, with batches | |
| `Transactions` | readers and the writer over `lib/be/idl_arc_sqlite.rs`, and the cells of `lib/server/mod.rs` | |
| `CommittedReads` | the abstract specification `Transactions` implements | |
| `Index` | index tables, name maps, uniqueness, reindexing | |
| `Filter` | `lib/filter.rs`, and how `lib/be/mod.rs` answers a filter: pure operators | |
| `IndexSearch` | queries over every state of the indexes | `Index`, `Filter` |
| `CredUpdate` | `lib/idm/credupdatesession.rs` and its commit in `lib/idm/server.rs` | |
| `SoftLock` | `lib/credential/softlock.rs`: pure operators | |
| `Auth` | `lib/idm/authsession.rs`, and `auth`, `auth_unix`, `auth_ldap` of `lib/idm/server.rs` | `SoftLock` |
| `Sessions` | user auth tokens, OAuth2 tokens, their records, the delayed action task | |
| `UnixCache` | `unix/cache.rs` and `unix/db.rs` | |
| `MC...` | sets and symmetries for TLC | the module they instantiate |
| `...Proofs` | lemmas and theorems | the module they are about, TLAPS |
| `EntryContentProofs` | lemmas and theorems about changelogs and references | `EntryLifecycleProofs` |

`EntryLifecycle` is a composition: changelog, RUV, entry cache, id allocation,
referential integrity and memberof act on one database there, under the
interleaving of requests, purges, evictions and crashes. `MemberOf` takes the
plugin out of it again, because cycles, batches and members that are not groups
need more entries than a full database leaves room for. The other modules take
what is below and beside it: `EntryLifecycle`'s commit is one step, and
`Transactions` shows what that step is made of; its `ReferencesExist` is the
answer of a query, and `InclusionAnswer` of `IndexSearch` shows that the query
has it. A success of `Auth` is the `IssueUat` of `Sessions`.

### EntryChangelog and EntryLifecycle

*State.* `entries`, `ruv`, `maxId` and `tsMax` are the committed database, its
caches included; `wEntries`, `wRuv` and `wMaxId` are the copies the open write
transaction sees. An entry is its id, its attributes (the marker classes,
`member`, `memberof`, `directmemberof`), `lmc` for `last_modified_cid`, and its
changelog. `cid` is the open transaction's Cid. `groupAffect` is the work list
of `apply_memberof`, `dmMods` the memberships `revive_recycled` has still to
restore, `purger` what the interval actor does next or how it ended. `ruvFrom`
is history: the bound of the RUV's last trim.

*Actions.* `Begin`, `Commit` and `Abort` are a transaction; `CreateEntry`,
`Modify`, `Delete`, `ReviveEntries` the operations, with the checks and writes
of refint, the backend's tail check and the RUV insertion in the same action.
`Stripe` is one turn of the memberof loop and `ReviveMembership` one of the
modifies a revive makes; until both lists are empty the transaction does
nothing else, but may fail. `PurgeRecycled` and `PurgeTombstones` are whole
transactions, in the order of `core/interval.rs`; the second has the outcomes
of `reap_tombstones`: a panic in `trim_up_to`, the two RUV checks, success.
`Evict` is an entry leaving the cache and being read again; `Restart` is a stop
or crash at any step, with `Backend::new` after it.

*Abstractions.* A Cid is its timestamp, for one server writes; the bound of a
purge has nil uuids, so it sorts before any Cid of the same time. The clock is
arbitrary (`ct \in Cids` in each transaction), as `new_lamport` must cope with a
clock that steps back. The transitions of the values of one call are one
transition. In this module every entry is a group and conflicts do not exist
(no replication conflict is produced in this version of the code).

### MemberOf

*State.* Which entries are live, `member` of the groups, `memberof` and
`directmemberof` of all entries, and the two local variables of
`apply_memberof`: the work list and `other_cache`.

*Actions.* `Create`, `Modify`, `BatchModify` and `Delete` change members and
start the loop; `Stripe` and `Finish` are the loop. A modlist is what it keeps
and what it adds. The lists are constants: one modification of a request, or
the purge and replacement that `scim_entry_to_mod` makes of each entry of a
sync batch.

### Transactions and CommittedReads

*State.* `db` is SQLite, `cache` the three ARCaches (entries, index lists,
names) key by key, `allids` the set of ids, `cell` the copy-on-write cells of
schema, domain information, access controls and index metadata. The writer has
its own view of each; a reader has the snapshots it has taken so far, and
SQLite's only from its first statement on, because the connection begins a
deferred transaction. What a key holds is the number of the transaction that put
it there.

*Actions.* A reader is opened part by part (`Begin`, `Take`), looks keys up
(`Lookup`, `Scan`) and offers what it found to the caches. The writer puts,
drops, reindexes, looks up (`WLookup`) and commits part by part, in the order of
the three `commit` functions; SQLite may refuse (`FailDb`). `Quiesce` and
`Evict` are the caches' own; `Crash` is a stop at any step. concread is not part
of the repository: a cache takes an offer only if nothing younger decided the
key, and quiesces only while no writer is open; that it may do so once more between
the last steps of a commit changes nothing, as the cache is published by then. After
a refused COMMIT the transaction is taken as rolled back. (`commit` sets its flag
first, so that `drop` sends no ROLLBACK then; what SQLite holds is the same, but the
connection goes back to the pool inside a transaction.)

`CommittedReads` is what is left when caches, snapshots and the order of a
commit are forgotten: a log of committed databases, and readers that see, for
each key, one committed value that is not older than what had been acknowledged
when they were opened, and always the same one.

### Filter, Index and IndexSearch

`Filter` has resolution (`resolve_idx`, `resolve_no_idx`), optimisation (both
forms), `filter2idl` with its four kinds of id lists, its threshold and the
`unimplemented!()` of a substring index, `entry_match_no_index`, `search` with
resource limits and `exists`. `Index` has the operations that change entries,
each with the differences `entry_index` applies to tables and name maps, the
uniqueness check, schema reloads, which may declare an index before its table
exists and drop one whose table stays, restarts and reindexing. `resolved` is the
metadata that resolved filters in the cache may have been made with; `stale` is
history: the tables that missed a write because the schema did not declare them
then. `IndexSearch` asks every query in every state, by every plan the cache may
hold: made with present or older metadata, and for the unmasked filters of dynamic
groups also made without any.

*Abstractions.* An entry gives every attribute a set of values; one attribute is
unique, one multi-valued. A substring filter carries the values that contain it.
Parsing and validation of filters come before. Queries have every AndNot in an And
beside another term (`QueriesAssumption`); `filter2idl` reports any other as an
error and finds nothing.

### CredUpdate

*State.* One account: its primary credential (which factors it has), its
passkeys, its intent tokens (`IntentTokenState`); the map of sessions in memory
and the objects it points to; which session tokens reached a client; and the
read transactions that are open.

*Actions.* `InitIntent`, `Exchange`, `InitUpdate`, `Commit`, `Cancel` are write
transactions. Each takes a time it read before it waited for the write ticket
(`Now`, at most `MaxLag` old), and each may fail in its database commit after
the session map was published, because `IdmServerProxyWriteTransaction::commit`
commits the map first. The edits run in read transactions (`BeginEdit`, an edit,
`EndEdit`), which look sessions up in the map as it was when they began and
change the object that the map still shares. `BackupCodeRemoval` is the delayed
action that removes a used code. `Restart` empties the memory.

*Abstractions.* Passwords, keys and codes are model values; the outcome of a
quality check or of a cryptographic verification is a choice. A generated password
is a password here, as every edit treats the two alike; a credential of webauthn
keys alone, which no edit makes, is left out.

### SoftLock and Auth

*State.* The account's credentials, the map of authentication sessions, the map
of soft locks by credential and the lock objects themselves, the unix and LDAP
checks under way, the copies of the primary credential that update sessions hold,
the queue of delayed actions. `spent` is history: the backup codes that were
accepted, until the removal of one is lost or an update writes it back. A lock also
carries history: the instant up to which its last failure stands in the way of
another attempt, and the failures recorded in the present window.

*Actions.* `AuthInit`, `Begin` and `Cred` are the steps of `auth`, with the soft
lock stepped and checked where the code does it. `UnixBegin`, `UnixInsert` and
`UnixVerify` are `auth_unix` and `auth_ldap`, cut where they wait. Every step
uses a time up to `Lag` older than the clock. `InitUpdate` copies the primary
credential as `create_credupdate_session` does, and `CommitUpdate` stores the copy
whole: as it was, with a changed password or totp and its codes, with a new batch
of codes or none, or a credential made in its place. `GeneratePassword` is
`generate_account_password` and `recover_account`. `ExpireAuthSessions`,
`ProcessDelayedAction`, `DelayedFails`, `Restart` and `Tick` are the rest of the world.

*Abstractions.* One account. A password is right or not; the result of a
cryptographic verification is what the client presents. Two locks can exist for
one credential, as in the code. Of an update session there is only the copy: how it
is opened, edited step by step and expires is in `CredUpdate`.

### UnixCache

*State.* The tables of the cache database, the negative cache, online or offline,
the two mutexes that are held across awaits, and a task per request with the
place it is at. `cascade` says whether the SQLite that is linked enforces foreign
keys, which the code does not set.

*Actions.* One per stretch of a handler between two awaits: look in the database
and the negative cache, decide, connect, fetch (found, absent, refused, out of
reach), store, check or set a password, delete, invalidate, clear. The server's
accounts change at any time, items expire at any time, the daemon restarts at
any time.

*Abstractions.* No clock: an item is fresh until it expires. Shells, aliases and
home directories are not part of a token. An account is known by its name: spn and
gidnumber, by which `update_account` also deletes rows, go with it, so that a row
never clashes by one of them alone, and the UNIQUE constraints of the table never
refuse a row. The requests for lists and for the status are left out; they hold one
mutex at a time.

### Sessions

*State.* Tokens that were issued (they stay with the clients for ever), codes
and consent tokens that still decrypt, the delayed action channel, the account's
entry (session records, OAuth2 session records, consents, validity), and the
resource servers. `destroyed`, `revoked` and `lost` are history.

*Actions.* `IssueUat`, `Authorise`, `Permit` and `Exchange` are read
transactions that queue a record; `PersistSession`, `PersistOauth2` and
`PersistConsent` are the delayed action task taking the head of the channel,
`DelayedFails` its failure, which is logged and forgotten. `Destroy`, `Revoke`
and `ModifyOther` are modifies. All writes to the account go through
`ModifyAccount`, which applies the session consistency plugin and then
referential integrity. `DeleteServer` is refint's clean-up. `Restart` loses the
channel and the key of the consent tokens. A code is not consumed by its
exchange, as in the code.

*Abstractions.* One account, which is not deleted. A write transaction reads the
time when it runs, though a handler reads it a little earlier. A sender that
finds the channel closed occurs at shutdown only, and then equals a permit
followed by a restart. Scopes, PKCE and the claims of OpenID tokens are left
out; "consented" means that the consented scopes cover the requested ones.

## What the runs check

TLC finishes each passing run in less than three minutes with two workers. Deadlock
is checked in all of them. The type invariants are not among the runs' properties:
where a module has proofs its `TypeOK` is proved, but for `Auth`'s (below), and
so are `CidsBehind` and `RuvTail`, which the lifecycle proofs need.

**lifecycle_refs** (two entries, every member modification, timestamps to 4;
199 thousand states). `ReplayMatches`: replaying a changelog gives the entry,
through deletes, revives, clean-ups in the recycle bin, trims and reloads.
`ReferencesFollow`: when a live entry is deleted, every reference to it goes,
those of recycled entries too. `DirectMemberOfExact`: although each operation
recomputes only the entries it believes affected, nothing is missed. Two entries
are enough for mutual membership, for a referrer that is recycled before what it
refers to, and for a revive into a group that is gone or masked; four timestamps
for a purge after two transactions.

**lifecycle_purge** (one entry, timestamps to 7, two operations per
transaction). A uuid goes through create, delete, tombstone, reap and create
again with a reused id. `RuvComplete`, `IdsConsistent` and `NeverOrphaned`
relate changelogs, RUV and ids; `TombstoneFinal`,
`OnlyTombstonesLeave` and `RecycleBinHolds` say what no step may do. Seven
timestamps hold one whole life and the start of the next at retention times of
1; two operations in one transaction make a Cid be recorded twice.

**memberof** (three groups and a person, single additions, batches that empty
groups; 241 thousand states). `WorklistCovers`: after every stripe, an entry
outside the work lists agrees with its groups. `NoMembershipLost`: a group
reaches all it contains. `AcyclicExact`: without cycles nothing is left over.
`Terminates`: the loop ends. Three groups are the least with a cycle and a group
outside it, which is where a stale membership could go round.

**transactions** (two entries, an index list, a name, one reader, one write
transaction after the first, of two operations; 660 thousand states).
`LookupsAreCommittedReads`: `Transactions` implements `CommittedReads`.
`CacheCoherent`: a reader's late offer never puts an older value into a cache,
and the set of all ids is that of the entries. `CellsMirrorEntries`: what the
commit publishes part by part agrees when it is over, after crashes too and until
SQLite refuses a commit whose cells are published. `CommitKeepsAll`: what is
committed is what the transaction did last. One write transaction is what a reader
needs to hold snapshots from before and after a commit, or one that is a commit old
when it offers; that the same holds over any number of commits is proved.

**index** (two entries, two names, two tags, two indexes that are declared late,
dropped and declared again; 7 thousand states, about 80 queries asked in each under
every plan, threshold and limit). `TablesExact`: an index table that missed no write
is what a reindex would build. `NameMapsExact`: a name leads to its one live owner,
through the recycle bin, revives of several entries at once and reused ids.
`SearchExact`: what a search returns matches, and nothing that matches is missing,
unless an AndNot was answered in part only. Three cases are set apart in its
statement because the code is wrong there (below), and each occurs in the run: the
property fails when any of the three conditions is taken away. `UniqueQueryExact`,
for any set of candidates, and `InclusionAnswer`: the two queries the server's own
plugins depend on. Two entries are enough for a name to change hands while its
former owner is in the recycle bin.

**credupdate** (two intents, two sessions, lifetimes 1 and 2, lag 2, time to 5; 763
thousand states). `OnceUse`, `OneSessionPerIntent`, `NeverSpentInVain`. The lag
exceeds the session lifetime, so a late request meets an expired or replaced
session, and time 5 lets a session expire and its intent be exchanged again.
`CredentialValid`: commits of two sessions over each other, beside the removal of a
used code, always store a credential that loads. The constraint `Explored` keeps the
two apart: sessions are edited while no intent is out and no time passes, intents
and time run as long as nothing is edited. What an edit does depends on neither, and
what becomes of an intent not on the credential; the theorems are about both
together.

**auth** (eight accounts, two sessions, two unix checks, an update session, a window
of 4 and a totp step of 3, lag 1, time to 5; 304 thousand states). `FailuresAreSpaced` and
`FailuresAreBounded`: the failures one lock records keep their distance and their
number, whatever order requests get the lock in. `VerdictIsFinal`,
`FactorsInOrder`: no late step changes a verdict, and none is given without every
factor. `UpgradesKeepThePassword`: a password upgrade that runs late.
`SpentCodesAreRemoved`: an accepted code is removed, beside updates that keep the
codes, change the credential or replace the batch, until a restart or a failed
transaction loses the removal or a stale copy is committed. Time 5 holds a whole window and the start of the next;
lag 1 lets a request step a lock with a time from the window before. The two accounts
that update sessions edit are followed to time 1 and 2 only (`Followed`), which is
enough for a session to begin, expire and be opened again around an update.

**sessions** (one user session, two OAuth2 tokens, one server, grace 2, session
life 5, code life 1, time to 6; 1.05 million states). `DestroyIsFinal`,
`DestroyCascades`, `TokensEndWithParent`, `LiveRecordsStay`. The times are chosen
so that destruction, a code issued just before it, the exchange of that code and
both grace windows fit before the session expires, each with the instant before
and the instant after.

**unixcache** (two requests at once, one name that passes between two accounts, a
group one of them joins and leaves; 1.36 million states). `OneRowPerName`,
`MembersComeFromTokens`, `CachedPasswordWasVerified`: the answers of the server
may be stored in any order. `SomeRequestGoesOn`: but for the cycle below, the
mutexes never stop all requests. Two requests are enough for every pair of
stretches to interleave.

### Disagreements

Three runs show the code doing other than a comment, a test or a design document
says. Each checks that one statement, and TLC finds a behaviour that violates it.

- **memberof_batch_terminates**: "if no changes occur, we have completed the
  operation" (`designs/memberof.rst:150`). A batch that breaks one path and
  closes a cycle at once leaves two groups exchanging a stale membership for
  ever, as each stripe reads the state before it.
- **unixcache_resets**: the tests of the cache assert that `invalidate` and
  `clear_cache` return (`ResetsReturn`). They hold the negative cache and wait
  for the database, while a lookup holds the database and waits for the negative
  cache; after that no request is answered.
- **auth_codes**: "Each code in the batch can be used only once"
  (`designs/mfa_backup_code.rst:35`; `RemovedCodesStayRemoved`). An update session
  that copied the credential before a code was used stores its copy on commit, and
  the code, accepted and removed meanwhile, is on the account again. A comment of
  `commit_credential_update` asks for the missing check ("If the credential has
  changed, reject?"). `ReturnedCodes` proves that a removed code comes back in no
  other way.

Others were met while modelling, or found by runs of this kind, and are recorded
here and as hazards without a property. The models have the behaviours.

- "we should have an anchor that preceeds it" (`lib/repl/entry.rs:524`). An entry
  read from disk has its anchor at its last change, so a trim to a bound not
  after it asks `BTreeMap::range` for an inverted range, which panics.
- "Ensure nothing here exists in the RUV index, else it means we didn't trim
  properly" (`lib/be/mod.rs:1091`). A tombstone reloaded from disk has no
  changes, so it can be deleted while the RUV names it; the purge fails and ends
  the interval actor. The entry is not lost: `RuvTail` is what makes this check
  catch the case.
- "we still need to ensure the revoke is respected" (`lib/idm/oauth2.rs:521`). A
  revoke that comes before the session's record finds nothing to remove, and the
  record is then added.
- "all operations are transactionally proctected from an early stage to
  guarantee consistency" (`designs/architecture.md:69`). One reader may see an
  entry of one commit and an index list of the next: it takes its snapshots one
  after the other, and SQLite's at its first statement. `CommittedReads` is as
  strong a statement as holds.
- "so we can go ahead and commit it with the be because both are consistent"
  (`lib/server/mod.rs:3202`). When SQLite then refuses, schema, access controls
  and domain information are published and the entries are not.
- A name that is removed and then looked up in the same transaction is found in
  SQLite, put back as clean, and not removed by the commit. The backend's tests
  (`assert!(be.name2uuid("william") == Ok(None))`) do such lookups with an empty
  SQLite table only.
- "even if we don't get the index back, we can just pass to the in-memory filter
  test and be done" (`lib/be/mod.rs:542`). Under an AndNot a partial answer is
  taken away from the candidates: And(name = x, AndNot(And(tag = y, plain = z))),
  with `plain` not indexed, loses entries that have tag y and another `plain`.
- "For now, don't emit substring indexes" (`lib/filter.rs:1021`, in the resolution
  that tests use). `resolve_idx` does give a substring term its index, and the schema
  declares two (`lib/schema.rs:1019`, `1052`); `filter2idl` then calls
  `get_idx_sub_key`, which is `unimplemented!()`. No operation writes keys for these
  indexes.
- An index that the schema no longer declares keeps its table, which `entry_index`
  maintains no longer. Filters resolved before are in the cache for as long as the
  process runs and still read the table, and a schema that declares the index again
  has a table without what was written meanwhile, until a reindex.
- A reference to a recycled entry is accepted beside one to a live entry, because
  the mask of `check_uuids_exist`'s query applies to the union of its terms.

Smaller differences: with cycles, `memberof` may keep a group that is no longer
reachable; an intent whose session was abandoned can be exchanged after its
`max_ttl`; after a restart the RUV does not name tombstones, which are then not
reaped; an account may have several update sessions at once; a soft lock keeps
the policy of the credential it was made for; two first unix checks of a
credential may count on a lock each; a backup code whose removal is lost with the
process, or by a failed transaction, stays on the account; a soft lock resets at the
next multiple of a day, not "24 hours after the first failed authentication attempt"
(`lib/credential/softlock.rs:22-24`), and locks a totp to the end of its step from
the third failure on, where the comment has "unless count is > 3" (line 98).

### Fairness

Only `FairSpec` of `MemberOf` states fairness, and only of `Stripe \/ Finish`:
the loop runs synchronously inside the request's transaction, so once started
nothing but the loop happens until it ends. `SomeRequestGoesOn` of `UnixCache` is
about ENABLED and needs no fairness. Requests, purges, the clock and the
delayed action task are not assumed fair anywhere.

## What is proved

The proofs are for all values of the constants, under the named assumptions of
the modules: bounds and times are natural numbers, lifetimes that must be
positive are, groups and other entries are disjoint, the three kinds of cached
keys are disjoint and every cell is derived from an entry, an account has one of
the uuids and groups there are, "none" values are not members of the sets they
complement, requested modifications are modifications of `member`. None
restricts the number of entries, readers, sessions, intents, tokens or requests;
`MemberOf` assumes that there are finitely many uuids, which have 128 bits.

**EntryLifecycleProofs.** `Invariance` proves the inductive invariant `IInv`:
both databases are `Good` (typed; no Cid later than the database's last; logs in
the RUV; live entries in the RUV under their last Cid; an entry the RUV names is
named under its last Cid; unique ids; no RUV id without an entry; tombstones
bare), the transaction's copy has kept the committed tombstones, and equals the
committed database when no transaction is open. `LiveInRuv` is needed because
`LogsInRuv` alone is not kept by a reload, which gives an entry a change at its
last Cid; `BareTombstones` because a reload puts an entry's attributes in the
anchor. From it follow `TypeCorrect`, `RuvIsComplete`, `RuvHasTails`,
`IdsStayConsistent`, `CidsStayBehind`, `NoOrphanEver`, and the action properties
`TombstonesAreFinal` and `BinIsKept`. All operations are handled by one lemma:
they touch some entries, and touching entries and inserting them in the RUV
keeps a database good (`TouchedGood`).

**EntryContentProofs.** `ContentInvariance` proves a second invariant `CInv` on
top of the first: of every entry of both databases the changelog replays to the
entry as it is (`Told`), and `directmemberof` is exact but for the entries on the
worklist of the memberof plugin (`Direct`). Its first half is about changelogs
alone. `ChangeRun` and `ReplayRun` are recursive functions, over the transitions
of a change and over Cids; a fact about all their values is proved by taking the
least number at which it fails (`LeastNumber`, from the well-foundedness of the
natural numbers). In this way: transitions that a state accepts move a replay on
(`MoveOn`), two logs with the same changes replay alike (`SameSteps`), a step that
rejects nothing applied its whole change (`StepAccepted`), recording appends to
what replays (`RecordReplays`), and a trim moves the anchor along the replay
(`TrimReplays`). Then each operation is shown to record transitions that its
candidates accept and that end in what it writes. From `CInv` follow
`ChangelogsReplay`, which is `EntryChangelog::verify` for every entry that is
ever reachable, and `DirectMemberOfIsExact`; `ReferencesAreFollowed` and
`OnlyTombstonesAreReaped` are action properties of it: the latter because the
anchor that `can_delete` asks is a state the entry did have, and no transition
leaves a tombstone.

**MemberOfProofs.** `WorklistIsComplete` and, from it, `MembershipIsInherited`:
when the list is empty every entry is settled, so the entries that have a group
in `memberof` are a set closed under membership, and contain the least one. The
strengthening is that members are live. `NothingIsExtra` is the converse, when no
group is nested in itself: an entry that has a group without being nested in it
has it from a group of which the same is true, and among those one with the most
descendants cannot have it from anywhere. Both hold of batches too: what fails
there is termination, not the result.

**TransactionsProofs.** `Invariance` proves one invariant for
the caches, the cells, the writer and all readers: from the moment SQLite has
committed until a cache is published, the cache is one commit behind (`Behind`);
a cached value is that of the commit its cache has, and has been since the
generation kept with it (`ItemOK`); an offer is a value some commit had at or
after the generation of the reader that makes it (`OfferOK`), and a reader's
SQLite snapshot is not older than any of its cache snapshots (`ReaderOK`). The
generations are what makes a late offer harmless. From it:
`CachesHoldWhatSqliteHolds`, `CellsHoldTheirEntries`, `CommitsKeepAll`, and
`ReadersReadCommitted`, the refinement of `CommittedReads`.

**UnixCacheProofs.** `OneRowForAName`, `PasswordsStayWithTheirAccount` and
`MembershipsComeFromTokens`, for any number of concurrent requests, and
`TypeCorrect`, which has the two mutexes. The strengthening is
`AnswersVerified`: the password an authentication carries to the database is one
the server accepted for the account of the token it came with, wherever that
account's row has gone meanwhile.

**CredUpdateProofs.** `IntentsAreOnceUse`, `IntentsHaveOneSession`,
`IntentsNeverSpentInVain` from an invariant that ties a usable session to the
intent that names it (`Attached`, `Named`) and says that what is still in the
map was not committed; `CredentialStaysValid` from a second one, that every
session works on a valid credential. Both hold with any lag and with commits
that fail after the session map was published.

**SessionsProofs.** `DestroyedStaysDestroyed` needs that a record is queued once
and never beside its persisted copy; `DestructionCascades` and
`TokensNeverOutlive` need bounds on how late a code and a token can have been
issued (`GrantsBounded`, `TokensBounded`); `LiveRecordsAreKept` needs a second
invariant `OInv`, that the record of a parent precedes those of its children in
the channel or is on the entry.

**AuthProofs.** The invariant has three parts, one for the locks, one for the
sessions and one for the account. `LInv`: a lock whose last failure still stands
in the way of another attempt is locked for every time up to that (`Spaced`); its
count is below the limit of its policy or holds it to the end of the window, and
the failures of the window are those of the count and of the counts that a late
failure ended (`Bounded`). This needs that the end of a window is a multiple of
its length, and that no earlier time has a later one (`WindowEnds`), and that the
delays are known below the last bound and not behind it (`DelaysKnown`).
`SInv`: an open session has proved nothing, or the second factor of `passwordmfa`
(`Proving`). `AInv`: backup codes, on the account and in every copy that an update
session holds, are only on credentials with other factors, and a spent code that is
on the account has its removal queued. Without the first half a removal could find a
credential it does not change. Each action is shown to keep each part.
`SpacedFailures`, `FinalVerdict` and `KeptPassword` are the action properties;
`BoundedFailures`, `OrderedFactors` and `RemovedCodes` the invariants that follow.
`RemovedCodes` is about updates that keep, change, replace or write back codes, with
any number of update sessions; what it says of a code ends when the code's removal is
lost in a restart or fails, or a stale copy brings the code back, and begins again when it is
accepted again. `ReturnedCodes` says that the second happens only by an update
session whose copy has the code: not by a delayed action, a generated password or a
new batch. They hold for any number of sessions and checks, any age of a request's
time and any delays with ascending bounds, and for any accounts of which one thing is
assumed: backup codes are only on credentials with other factors, as `CredentialType`
has it. That a new batch has no code in use or spent is part of the model
(`CodeSets`): codes are drawn at random.

Every proof module names its provers at its head: Zenon first, for the many steps
that are only logic and sets, then Z3.

Checked by TLC only:

- `Terminates` is liveness; `SomeRequestGoesOn` is about ENABLED. Both are
  outside the prover's reach.
- `UniqueQueryExact`, `InclusionAnswer` and `SearchExact` of `IndexSearch` are
  about recursive operators on filters, and `TablesExact` and `NameMapsExact` of
  `Index` about folds over index keys: both need induction over data with an
  operator as a parameter.
- `TypeOK` of `Auth` says that there is always a lock object left to insert, which
  is a count of the objects in use. The proofs do not need it: where a reference
  is to no object they say nothing of it.
- `ResetsReturn`, `RemovedCodesStayRemoved` and `Terminates` of batches state what
  the code does not do; their runs show the counterexamples.

## Not modelled

The map covers a tenth of the lines of the repository. Most of the others have no
state of their own to go wrong over several steps: clients and command line
tools, HTTP routing, the web interface, value syntaxes, encodings of entries,
filters and tokens, the built-in entries, and tests, which are almost a third of the
server's library. Of the parts with state, these are left, in the order in which
they would be worth modelling:

1. `lib/plugins/dyngroup.rs`: dynamic groups, evaluated incrementally.
2. `lib/idm/scim.rs`: a sync batch in phases, and the authority over attributes.
3. `lib/access.rs`: the four decisions, against a declarative reading.
4. `lib/schema.rs`: validation of an entry.
5. Backup, restore and the migrations of `lib/server/`.
6. Service account tokens, the claims and privileges of a token, webauthn
   counters.
7. `unix/tasks`: home directories.

Left out for good: cryptography, encoding, TLS, HTTP routing, command line
tools, the web interface, PAM and NSS wrappers, migration and load tools, the
Python clients (no shared state beyond requests, or foreign code), and the
built-in entries and constants, which are data. `PROJECT.json` has the reason
for each.
