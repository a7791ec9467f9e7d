----------------------------- MODULE UnixCache ------------------------------
(***************************************************************************)
(* The cache of the unix daemon (kanidm_unix_int cache.rs and db.rs):      *)
(* concurrent NSS and PAM requests answered from a SQLite cache of the     *)
(* tokens of a server that changes and is not always reachable.            *)
(*                                                                         *)
(* Each handler is cut at its awaits.  A database transaction or a look    *)
(* into the negative cache holds its mutex for one action, except where    *)
(* the code takes the second mutex while it holds the first:               *)
(* get_cached_usertoken and get_cached_grouptoken (db, then nxcache) and   *)
(* invalidate and clear_cache (nxcache, then db).                          *)
(*                                                                         *)
(* There is no clock: an item of the cache is fresh until it expires, and  *)
(* while the daemon is offline the next check may be due at any time.  The *)
(* server may be out of reach at any call.                                 *)
(***************************************************************************)
EXTENDS Integers, FiniteSets, Sequences

CONSTANTS
  Tasks,        \* requests being handled at once
  Names,        \* account names
  Groups,       \* groups, by name
  Uuids,        \* account uuids
  Accounts      \* what the server may hold under a name

ASSUME AccountsAssumption ==
  \A a \in Accounts : a.uuid \in Uuids /\ a.groups \subseteq Groups
ASSUME TasksAssumption == "nobody" \notin Tasks

VARIABLES
  server,       \* name -> account, or Gone
  state,        \* CacheState: online or offline
  rows,         \* account_t: uuid -> row, or Gone
  grows,        \* group_t: group -> row, or Gone
  members,      \* memberof_t: <<group, uuid>>
  nx,           \* nxcache: ids with an entry that has not expired
  db, nxl,      \* holders of the db and nxcache mutexes, or Nobody
  tasks,
  cascade       \* whether the SQLite linked enforces foreign keys

vars == <<server, state, rows, grows, members, nx, db, nxl, tasks, cascade>>
world == <<server, cascade>>
cache == <<rows, grows, members>>

Gone == [gone |-> TRUE]
Nobody == "nobody"
NoPassword == "nopassword"
Idle == [pc |-> "idle"]

\* CacheLayer::new: offline, with a check due at once.
Init ==
  /\ cascade \in BOOLEAN
  /\ server \in [Names -> Accounts \cup {Gone}]
  /\ state = "offline"
  /\ rows = [u \in Uuids |-> Gone]
  /\ grows = [g \in Groups |-> Gone]
  /\ members = {}
  /\ nx = {}
  /\ db = Nobody /\ nxl = Nobody
  /\ tasks = [t \in Tasks |-> Idle]

Goto(t, pc) == tasks' = [tasks EXCEPT ![t].pc = pc]
Answer(t)   == tasks' = [tasks EXCEPT ![t] = Idle]

-----------------------------------------------------------------------------
(* db.rs                                                                   *)

\* The rows a request by name matches.
Matching(name) == {u \in Uuids : rows[u] # Gone /\ rows[u].name = name}

\* With foreign keys enforced, deleting a row deletes its memberships.
Orphaned(m, gone) == IF cascade THEN {p \in m : p[1] \notin gone /\ p[2] \notin gone} ELSE m

\* delete_account, delete_group
DeleteAccounts(us) ==
  /\ rows' = [u \in Uuids |-> IF u \in us THEN Gone ELSE rows[u]]
  /\ members' = Orphaned(members, us)

\* update_group: INSERT OR REPLACE deletes the row that is there.
UpdateGroups(gs) ==
  grows' = [g \in Groups |-> IF g \in gs THEN [fresh |-> TRUE] ELSE grows[g]]

\* update_account, after the groups of the token: rows that conflict are
\* deleted, the row of the uuid keeps its password, its memberships are
\* replaced by those of the token.  The mutants leave the other rows, take the
\* password over from them, and add to the memberships.
UpdateAccountOnly(tok) ==
  /\ rows' = [rows EXCEPT ![tok.uuid] =
       [name |-> tok.name, groups |-> tok.groups, fresh |-> TRUE,
        pw |-> IF @ = Gone THEN NoPassword ELSE @.pw]]
  /\ members' = {p \in Orphaned(members, tok.groups) : p[2] # tok.uuid} \cup (tok.groups \X {tok.uuid})
UpdateAccountByName(tok) ==
  LET clash == Matching(tok.name) \ {tok.uuid}
      kept  == Orphaned(Orphaned(members, tok.groups), clash)
      old   == {rows[u].pw : u \in Matching(tok.name)}
  IN /\ rows' = [u \in Uuids |->
          IF u \in clash THEN Gone
          ELSE IF u # tok.uuid THEN rows[u]
          ELSE [name |-> tok.name, groups |-> tok.groups, fresh |-> TRUE,
                pw |-> IF old = {} THEN NoPassword ELSE CHOOSE pw \in old : TRUE]]
     /\ members' = {p \in kept : p[2] # tok.uuid} \cup (tok.groups \X {tok.uuid})
UpdateAccountAdds(tok) ==
  LET clash == Matching(tok.name) \ {tok.uuid}
  IN /\ rows' = [u \in Uuids |->
          IF u \in clash THEN Gone
          ELSE IF u # tok.uuid THEN rows[u]
          ELSE [name |-> tok.name, groups |-> tok.groups, fresh |-> TRUE,
                pw |-> IF rows[u] = Gone THEN NoPassword ELSE rows[u].pw]]
     /\ members' = Orphaned(Orphaned(members, tok.groups), clash) \cup (tok.groups \X {tok.uuid})
UpdateAccount(tok) ==
  LET clash == Matching(tok.name) \ {tok.uuid}
      kept  == Orphaned(Orphaned(members, tok.groups), clash)
  IN /\ rows' = [u \in Uuids |->
          IF u \in clash THEN Gone
          ELSE IF u # tok.uuid THEN rows[u]
          ELSE [name |-> tok.name, groups |-> tok.groups,
                fresh |-> TRUE,
                pw |-> IF rows[u] = Gone THEN NoPassword ELSE rows[u].pw]]
     /\ members' = {p \in kept : p[2] # tok.uuid} \cup (tok.groups \X {tok.uuid})

-----------------------------------------------------------------------------
(* Requests                                                                *)

Expired(row) == ~row.fresh

\* Where an authentication goes with the state it read before the cached token.
Online1st(saw) == IF saw THEN "fetch" ELSE "connect"

\* get_cached_usertoken and get_cached_grouptoken: a hit releases the database
\* at once, a miss goes on to the negative cache with the database held.  A
\* request for a token that is current is answered, pam_account_authenticate
\* goes on in any case.
Look(t, op, id) ==
  LET hits == IF op = "group" THEN {g \in {id} : grows[g] # Gone} ELSE Matching(id)
      row(h) == IF op = "group" THEN grows[h] ELSE rows[h]
      saw == op = "auth" /\ state = "online"
      task(pc) == [pc |-> pc, op |-> op, id |-> id, item |-> hits,
                   saw |-> pc = "nxcache" /\ saw]
  IN /\ tasks[t] = Idle /\ db = Nobody
     /\ db' = IF hits = {} THEN t ELSE Nobody
     /\ tasks' = [tasks EXCEPT ![t] =
          IF hits = {} THEN task("nxcache")
          ELSE IF op = "auth" THEN task(Online1st(saw))
          ELSE IF \E h \in hits : Expired(row(h)) THEN task("decide") ELSE Idle]
     /\ UNCHANGED <<world, cache, state, nx, nxl>>

\* Then the negative cache, and the database is released.
LookNxcache(t) ==
  LET a == tasks[t]
  IN /\ a.pc = "nxcache" /\ nxl = Nobody
     /\ tasks' = [tasks EXCEPT ![t] =
          IF a.op = "auth" THEN [a EXCEPT !.pc = Online1st(a.saw), !.saw = FALSE]
          ELSE IF a.id \notin nx THEN [a EXCEPT !.pc = "decide"] ELSE Idle]
     /\ db' = Nobody
     /\ UNCHANGED <<world, cache, state, nx, nxl>>

\* get_usertoken and get_grouptoken, the token expired: ask the server, try to
\* go online first, or answer from the cache until the next try is due.
Decide(t) ==
  /\ tasks[t].pc = "decide"
  /\ \/ state = "online" /\ Goto(t, "fetch")
     \/ state = "offline" /\ (Goto(t, "connect") \/ Answer(t))
  /\ UNCHANGED <<world, cache, state, nx, db, nxl>>

\* A request for a token returns what it found before, an authentication goes
\* to the cached password.
FallBack(t, pc) == IF tasks[t].op = "auth" THEN Goto(t, pc) ELSE Answer(t)

\* refresh_usertoken, refresh_grouptoken and online_account_authenticate keep
\* the client read-locked until they have stored what it answered.  The mutant
\* has them locked while they connect, too.
ReadingThroughout(t) == tasks[t].pc \in {"connect", "store", "setpw", "delete", "setnx", "checkpw"}
Reading(t) == tasks[t].pc \in {"store", "setpw", "delete", "setnx", "checkpw"}

\* test_connection: the client is write-locked to authenticate.  The state was
\* read before that, so a failure may undo what another request achieved.
Connect(t) ==
  /\ tasks[t].pc = "connect"
  /\ \/ state = "online" /\ UNCHANGED state /\ Goto(t, "fetch")
     \/ /\ \A r \in Tasks : ~Reading(r)
        /\ \/ state' = "online" /\ Goto(t, "fetch")
           \/ state' = "offline" /\ FallBack(t, "offlinepw")
  /\ UNCHANGED <<world, cache, nx, db, nxl>>

\* refresh_usertoken, refresh_grouptoken, online_account_authenticate: the
\* server is not reached, or it answers that the session is not good.
FetchFails(t) ==
  /\ tasks[t].pc = "fetch"
  /\ state' = "offline"
  /\ FallBack(t, "checkpw")
  /\ UNCHANGED <<world, cache, nx, db, nxl>>

\* Another error of the server, or a wrong password: nothing is changed.
FetchRefused(t) ==
  /\ tasks[t].pc = "fetch"
  /\ Answer(t)
  /\ UNCHANGED <<world, cache, state, nx, db, nxl>>

\* The server has the account or the group: the answer is on its way.
FetchFound(t) ==
  LET a == tasks[t]
  IN /\ a.pc = "fetch"
     /\ \/ /\ a.op = "group"
           /\ tasks' = [tasks EXCEPT ![t] = [pc |-> "store", op |-> "group", id |-> a.id]]
        \/ /\ a.op # "group" /\ server[a.id] # Gone
           /\ tasks' = [tasks EXCEPT ![t] =
                [pc |-> "store", op |-> a.op, name |-> a.id, uuid |-> server[a.id].uuid,
                 groups |-> server[a.id].groups,
                 pw |-> IF a.op = "auth" THEN server[a.id].pw ELSE NoPassword]]
     /\ UNCHANGED <<world, cache, state, nx, db, nxl>>

\* The server has no such account or group.
FetchAbsent(t) ==
  LET a == tasks[t]
  IN /\ a.pc = "fetch" /\ a.op # "auth"
     /\ a.op = "user" => server[a.id] = Gone
     /\ tasks' = [tasks EXCEPT ![t] = [pc |-> IF a.item = {} THEN "setnx" ELSE "delete",
                                       op |-> a.op, id |-> a.id, item |-> a.item]]
     /\ UNCHANGED <<world, cache, state, nx, db, nxl>>

\* set_cache_usertoken, set_cache_grouptoken
Store(t) ==
  LET a == tasks[t]
  IN /\ a.pc = "store" /\ db = Nobody
     /\ IF a.op = "group"
        THEN /\ UpdateGroups({a.id})
             /\ members' = Orphaned(members, {a.id})
             /\ UNCHANGED rows
             /\ Answer(t)
        ELSE /\ UpdateGroups(a.groups)
             /\ UpdateAccount(a)
             /\ IF a.op = "auth" THEN Goto(t, "setpw") ELSE Answer(t)
     /\ UNCHANGED <<world, state, nx, db, nxl>>

\* set_cache_userpassword: no row, no password.
SetPassword(t) ==
  LET a == tasks[t]
  IN /\ a.pc = "setpw" /\ db = Nobody
     /\ rows' = IF rows[a.uuid] = Gone THEN rows ELSE [rows EXCEPT ![a.uuid].pw = a.pw]
     /\ Answer(t)
     /\ UNCHANGED <<world, grows, members, state, nx, db, nxl>>

\* check_cache_userpassword, or no cached account to check against.
CheckPassword(t) ==
  /\ tasks[t].pc \in {"checkpw", "offlinepw"} /\ (tasks[t].item # {} => db = Nobody)
  /\ Answer(t)
  /\ UNCHANGED <<world, cache, state, nx, db, nxl>>

\* delete_cache_usertoken, delete_cache_grouptoken
Delete(t) ==
  LET a == tasks[t]
  IN /\ a.pc = "delete" /\ db = Nobody
     /\ IF a.op = "group"
        THEN /\ grows' = [g \in Groups |-> IF g \in a.item THEN Gone ELSE grows[g]]
             /\ members' = Orphaned(members, a.item)
             /\ UNCHANGED rows
        ELSE DeleteAccounts(a.item) /\ UNCHANGED grows
     /\ Goto(t, "setnx")
     /\ UNCHANGED <<world, state, nx, db, nxl>>

\* set_nxcache
SetNxcache(t) ==
  LET a == tasks[t]
  IN /\ a.pc = "setnx" /\ nxl = Nobody
     /\ nx' = nx \cup {a.id}
     /\ Answer(t)
     /\ UNCHANGED <<world, cache, state, db, nxl>>

\* invalidate and clear_cache empty the negative cache and keep it locked while
\* they wait for the database.
Reset(t, op) ==
  /\ tasks[t] = Idle /\ nxl = Nobody
  /\ nx' = {}
  /\ nxl' = t
  /\ tasks' = [tasks EXCEPT ![t] = [pc |-> op]]
  /\ UNCHANGED <<world, cache, state, db>>

Stale(row) == IF row = Gone THEN Gone ELSE [row EXCEPT !.fresh = FALSE]

Invalidate(t) ==
  /\ tasks[t].pc = "invalidate" /\ db = Nobody
  /\ rows' = [u \in Uuids |-> Stale(rows[u])]
  /\ grows' = [g \in Groups |-> Stale(grows[g])]
  /\ nxl' = Nobody
  /\ Answer(t)
  /\ UNCHANGED <<world, members, state, nx, db>>

ClearCache(t) ==
  /\ tasks[t].pc = "clear" /\ db = Nobody
  /\ DeleteAccounts(Uuids)
  /\ grows' = [g \in Groups |-> Gone]
  /\ nxl' = Nobody
  /\ Answer(t)
  /\ UNCHANGED <<world, state, nx, db>>

-----------------------------------------------------------------------------
(* The daemon stops, the server changes, time passes                       *)

\* account_t, group_t and memberof_t are on disk, the rest is not.
Restart ==
  /\ state' = "offline"
  /\ nx' = {}
  /\ db' = Nobody /\ nxl' = Nobody
  /\ tasks' = [t \in Tasks |-> Idle]
  /\ UNCHANGED <<world, cache>>

ServerChange(n) ==
  /\ \E a \in (Accounts \cup {Gone}) \ {server[n]} : server' = [server EXCEPT ![n] = a]
  /\ UNCHANGED <<cascade, cache, state, nx, db, nxl, tasks>>

\* timeout_seconds after it was stored an item expires.
Expire ==
  /\ \/ \E u \in Uuids : rows' = [rows EXCEPT ![u] = Stale(rows[u])] /\ UNCHANGED <<grows, nx>>
     \/ \E g \in Groups : grows' = [grows EXCEPT ![g] = Stale(grows[g])] /\ UNCHANGED <<rows, nx>>
     \/ \E i \in nx : nx' = nx \ {i} /\ UNCHANGED <<rows, grows>>
  /\ UNCHANGED <<world, members, state, db, nxl, tasks>>

Request(t) ==
  \/ \E n \in Names : Look(t, "user", n)
  \/ \E g \in Groups : Look(t, "group", g)
  \/ \E n \in Names : Look(t, "auth", n)
  \/ \E op \in {"invalidate", "clear"} : Reset(t, op)

\* What the handler of a request does next.
Step(t) ==
  \/ LookNxcache(t) \/ Decide(t) \/ Connect(t)
  \/ FetchFails(t) \/ FetchRefused(t) \/ FetchFound(t) \/ FetchAbsent(t)
  \/ Store(t) \/ SetPassword(t) \/ CheckPassword(t) \/ Delete(t) \/ SetNxcache(t)
  \/ Invalidate(t) \/ ClearCache(t)

Next ==
  \/ \E t \in Tasks : Request(t) \/ Step(t)
  \/ \E n \in Names : ServerChange(n)
  \/ Restart \/ Expire

Spec == Init /\ [][Next]_vars

-----------------------------------------------------------------------------
(* Properties                                                              *)

\* The variables hold values of their types, and a mutex is held by the task
\* that is at a place of the code where it holds it.
TypeOK ==
  /\ state \in {"online", "offline"} /\ nx \subseteq Names \cup Groups /\ members \subseteq Groups \X Uuids
  /\ \A t \in Tasks : db = t <=> tasks[t].pc = "nxcache"
  /\ \A t \in Tasks : nxl = t <=> tasks[t].pc \in {"invalidate", "clear"}

\* No two cached accounts have one name, whatever order answers about accounts
\* that exchanged it are stored in: get_account never finds two rows.
OneRowPerName ==
  \A u, v \in Uuids :
    rows[u] # Gone /\ rows[v] # Gone /\ rows[u].name = rows[v].name => u = v

\* A password in the cache is one the server accepted for that very account: it
\* does not pass to the next owner of the name, and a password stored late
\* does not land on another row (set_cache_userpassword).
CachedPasswordWasVerified ==
  \A u \in Uuids :
    rows[u] # Gone /\ rows[u].pw # NoPassword => \E a \in Accounts : a.uuid = u /\ a.pw = rows[u].pw

\* get_group_members lists only cached accounts whose token has the group,
\* with and without foreign keys: memberships left behind by a deleted row do
\* not come back with the next row of the uuid.
MembersComeFromTokens ==
  \A p \in members : rows[p[2]] # Gone => p[1] \in rows[p[2]].groups

\* A request with the database waits for the negative cache while a reset with
\* the negative cache waits for the database.
LockCycle == db # Nobody /\ nxl # Nobody

\* The two mutexes and the lock of the client never stop the daemon, but for
\* the two mutexes taken in opposite orders: while requests are handled, one of
\* them can go on.
SomeRequestGoesOn ==
  (\E t \in Tasks : tasks[t] # Idle) => LockCycle \/ \E t \in Tasks : ENABLED Step(t)

\* Invalidating or clearing the cache returns (the tests of the cache assert
\* that it does): no lookup holds the database and waits for it.
ResetsReturn == ~LockCycle

=============================================================================
