--------------------------- MODULE UnixCacheProofs ---------------------------
(***************************************************************************)
(* What holds of the cache of the unix daemon for any number of requests,  *)
(* names, accounts and groups: a name leads to one row, a cached password  *)
(* belongs to the account of its row, and memberships come from tokens.    *)
(***************************************************************************)
EXTENDS UnixCache, TLAPS

(* The provers to try on a step, in order, and the time each one has. *)
USE ZenonT(5), SMTT(30), SMTT(60), ZenonT(30), SMTT(90)

(***************************************************************************)
(* The inductive invariant: the types of the tables, the shapes of the     *)
(* requests at the places of the code, and where a password that is on its *)
(* way to the database came from.                                          *)
(***************************************************************************)

\* The password pw is one the server may accept for the account u.
Verified(u, pw) == \E a \in Accounts : a.uuid = u /\ a.pw = pw

Pws == {NoPassword} \cup {a.pw : a \in Accounts}
Row == [name : Names, groups : SUBSET Groups, fresh : BOOLEAN, pw : Pws]
GroupRow == [fresh : BOOLEAN]

Ops == {"user", "group", "auth"}

\* A request that looks for its item, one whose answer from the server is on
\* its way to the database, and one that has learnt that there is none.
LookingFor(ops, ids) ==
  [pc : {"nxcache", "decide", "connect", "fetch", "checkpw", "offlinepw"},
   op : ops, id : ids, item : SUBSET (Uuids \cup Groups), saw : BOOLEAN]
Looking == LookingFor({"user", "auth"}, Names) \cup LookingFor({"group"}, Groups)
Storing == [pc : {"store", "setpw"}, op : {"user", "auth"}, name : Names, uuid : Uuids,
            groups : SUBSET Groups, pw : Pws]
StoringGroup == [pc : {"store"}, op : {"group"}, id : Names \cup Groups]
Removing == [pc : {"setnx", "delete"}, op : Ops, id : Names \cup Groups, item : SUBSET (Uuids \cup Groups)]
Resetting == [pc : {"invalidate", "clear"}]

Task == {Idle} \cup Looking \cup Storing \cup StoringGroup \cup Removing \cup Resetting

Typed ==
  /\ server \in [Names -> Accounts \cup {Gone}]
  /\ state \in {"online", "offline"}
  /\ rows \in [Uuids -> Row \cup {Gone}]
  /\ grows \in [Groups -> GroupRow \cup {Gone}]
  /\ members \subseteq Groups \X Uuids
  /\ nx \subseteq Names \cup Groups
  /\ tasks \in [Tasks -> Task]

\* The password an authentication is about to store is the server's, for the
\* account of the token it came with.
AnswersVerified ==
  \A t \in Tasks :
    tasks[t] \in Storing /\ tasks[t].pw # NoPassword => Verified(tasks[t].uuid, tasks[t].pw)

\* The two mutexes, as TypeOK has them.
Locks ==
  /\ \A t \in Tasks : db = t <=> tasks[t].pc = "nxcache"
  /\ \A t \in Tasks : nxl = t <=> tasks[t].pc \in {"invalidate", "clear"}

IInv ==
  Typed /\ AnswersVerified /\ OneRowPerName /\ CachedPasswordWasVerified /\ MembersComeFromTokens

-----------------------------------------------------------------------------
(***************************************************************************)
(* Requests.                                                               *)
(***************************************************************************)

(* The shape of a request is known from its place in the code. *)
LEMMA ShapeOf ==
  ASSUME NEW a \in Task
  PROVE  /\ a = Idle => a.pc = "idle"
         /\ a.pc \in {"nxcache", "decide", "connect", "fetch", "checkpw", "offlinepw"} => a \in Looking
         /\ a.pc = "setpw" => a \in Storing
         /\ a.pc = "store" => a \in Storing \cup StoringGroup
         /\ a.pc \in {"setnx", "delete"} => a \in Removing
         /\ a.pc \in {"invalidate", "clear"} => a \in Resetting
BY DEF Task, Idle, Looking, LookingFor, Storing, StoringGroup, Removing, Resetting

(* A request that moves on within its shape. *)
LEMMA Moved ==
  ASSUME NEW a \in Looking,
         NEW pc \in {"nxcache", "decide", "connect", "fetch", "checkpw", "offlinepw"}
  PROVE  [a EXCEPT !.pc = pc] \in Looking
BY DEF Looking, LookingFor

(* The shapes have nothing in common with an answer that is to be stored. *)
LEMMA OtherShapes ==
  ASSUME NEW a \in {Idle} \cup Looking \cup StoringGroup \cup Removing \cup Resetting
  PROVE  a \in Task /\ a \notin Storing
BY DEF Task, Idle, Looking, LookingFor, Storing, StoringGroup, Removing, Resetting

(* One request changes; if it is about to store a password, it is verified. *)
LEMMA OneTask ==
  ASSUME tasks \in [Tasks -> Task], AnswersVerified, NEW t \in Tasks, NEW a \in Task,
         a \in Storing /\ a.pw # NoPassword => Verified(a.uuid, a.pw),
         tasks' = [tasks EXCEPT ![t] = a]
  PROVE  tasks' \in [Tasks -> Task] /\ AnswersVerified'
<1>1. tasks' \in [Tasks -> Task]
  OBVIOUS
<1>2. ASSUME NEW r \in Tasks, tasks'[r] \in Storing, tasks'[r].pw # NoPassword
      PROVE  Verified(tasks'[r].uuid, tasks'[r].pw)
  <2>1. CASE r = t
    BY <1>2, <2>1
  <2>2. CASE r # t
    <3>1. tasks'[r] = tasks[r]
      BY <2>2
    <3>2. QED
      BY <1>2, <3>1 DEF AnswersVerified
  <2>3. QED
    BY <2>1, <2>2
<1>3. QED
  BY <1>1, <1>2 DEF AnswersVerified, Verified

(* What a step of a request that leaves the database alone has to keep. *)
LEMMA CacheUnchanged ==
  ASSUME IInv, UNCHANGED <<world, cache>>, tasks' \in [Tasks -> Task], AnswersVerified',
         state' \in {"online", "offline"}, nx' \subseteq Names \cup Groups
  PROVE  IInv'
BY DEF IInv, Typed, world, cache, OneRowPerName, CachedPasswordWasVerified, MembersComeFromTokens

(* A request that is none of an answer to be stored, and the database as it is. *)
LEMMA QuietStep ==
  ASSUME IInv, UNCHANGED <<world, cache>>, NEW t \in Tasks,
         NEW a \in {Idle} \cup Looking \cup StoringGroup \cup Removing \cup Resetting,
         tasks' = [tasks EXCEPT ![t] = a],
         state' \in {"online", "offline"}, nx' \subseteq Names \cup Groups
  PROVE  IInv'
<1>1. a \in Task /\ a \notin Storing
  BY OtherShapes
<1>2. tasks \in [Tasks -> Task] /\ AnswersVerified
  BY DEF IInv, Typed
<1>3. tasks' \in [Tasks -> Task] /\ AnswersVerified'
  BY <1>1, <1>2, OneTask, Zenon
<1>4. QED
  BY <1>3, CacheUnchanged

(* get_cached_usertoken and get_cached_grouptoken. *)
LEMMA LookPreserves ==
  ASSUME IInv, NEW t \in Tasks, NEW op \in Ops, NEW id \in IF op = "group" THEN Groups ELSE Names,
         Look(t, op, id)
  PROVE  IInv'
<1> DEFINE hits == IF op = "group" THEN {g \in {id} : grows[g] # Gone} ELSE Matching(id)
           saw == op = "auth" /\ state = "online"
           task(pc) == [pc |-> pc, op |-> op, id |-> id, item |-> hits, saw |-> pc = "nxcache" /\ saw]
<1>1. hits \in SUBSET (Uuids \cup Groups)
  BY DEF Matching
<1>2. \A pc \in {"nxcache", "decide", "connect", "fetch"} : task(pc) \in Looking
  <2>1. \A pc : (pc = "nxcache" /\ saw) \in BOOLEAN
    OBVIOUS
  <2>2. QED
    BY <1>1, <2>1 DEF Looking, LookingFor, Ops
<1>3. PICK a \in {Idle} \cup {task(pc) : pc \in {"nxcache", "decide", "connect", "fetch"}} :
        tasks' = [tasks EXCEPT ![t] = a]
  BY Zenon DEF Look, Online1st
<1>4. a \in {Idle} \cup Looking
  BY <1>2, <1>3
<1>5. UNCHANGED <<world, cache, state, nx, nxl>>
  BY DEF Look
<1>6. state' \in {"online", "offline"} /\ nx' \subseteq Names \cup Groups
  BY <1>5 DEF IInv, Typed
<1>7. QED
  BY <1>3, <1>4, <1>5, <1>6, QuietStep, Zenon

(* The negative cache, the choice between server and cache, the connection. *)
LEMMA WaitingPreserves ==
  ASSUME IInv, NEW t \in Tasks, LookNxcache(t) \/ Decide(t) \/ Connect(t)
  PROVE  IInv'
<1>0. tasks[t] \in Task /\ tasks \in [Tasks -> Task]
  BY DEF IInv, Typed
<1>1. tasks[t] \in Looking /\ UNCHANGED <<world, cache, nx>>
  BY <1>0, ShapeOf DEF LookNxcache, Decide, Connect
<1>2. state' \in {"online", "offline"} /\ nx' \subseteq Names \cup Groups
  BY <1>1 DEF IInv, Typed, LookNxcache, Decide, Connect
<1>3. \E a \in {Idle} \cup Looking : tasks' = [tasks EXCEPT ![t] = a]
  <2>1. CASE LookNxcache(t)
    <3> DEFINE a == tasks[t]
    <3>1. [a EXCEPT !.pc = "decide"] \in Looking
      BY <1>1, Moved, Zenon
    <3>2. [a EXCEPT !.pc = Online1st(a.saw), !.saw = FALSE] \in Looking
      BY <1>1, Zenon DEF Looking, LookingFor, Online1st
    <3>3. QED
      BY <2>1, <3>1, <3>2, Zenon DEF LookNxcache
  <2>2. CASE Decide(t) \/ Connect(t)
    <3>1. \/ Answer(t)
          \/ \E pc \in {"fetch", "connect", "offlinepw"} : Goto(t, pc)
      BY <2>2 DEF Decide, Connect, FallBack
    <3>2. \A pc \in {"fetch", "connect", "offlinepw"} :
            /\ [tasks[t] EXCEPT !.pc = pc] \in Looking
            /\ Goto(t, pc) => tasks' = [tasks EXCEPT ![t] = [tasks[t] EXCEPT !.pc = pc]]
      BY <1>1, Moved, Zenon DEF Goto
    <3>3. QED
      BY <3>1, <3>2 DEF Answer
  <2>3. QED
    BY <2>1, <2>2
<1>4. QED
  BY <1>1, <1>2, <1>3, QuietStep, Zenon

(* What becomes of a request to the server but for a token it returns. *)
LEMMA FetchPreserves ==
  ASSUME IInv, NEW t \in Tasks, FetchFails(t) \/ FetchRefused(t) \/ FetchAbsent(t)
  PROVE  IInv'
<1>0. tasks[t] \in Task /\ tasks \in [Tasks -> Task]
  BY DEF IInv, Typed
<1>1. tasks[t] \in Looking /\ UNCHANGED <<world, cache, nx>>
  BY <1>0, ShapeOf DEF FetchFails, FetchRefused, FetchAbsent
<1>2. state' \in {"online", "offline"} /\ nx' \subseteq Names \cup Groups
  BY <1>1 DEF IInv, Typed, FetchFails, FetchRefused, FetchAbsent
<1>3. \E a \in {Idle} \cup Looking \cup Removing : tasks' = [tasks EXCEPT ![t] = a]
  <2>1. CASE FetchFails(t)
    <3>1. [tasks[t] EXCEPT !.pc = "checkpw"] \in Looking
      BY <1>1, Moved, Zenon
    <3>2. QED
      BY <2>1, <3>1 DEF FetchFails, FallBack, Goto, Answer
  <2>2. CASE FetchRefused(t)
    BY <2>2, Zenon DEF FetchRefused, Answer
  <2>3. CASE FetchAbsent(t)
    <3> DEFINE a == tasks[t]
               b == [pc |-> IF a.item = {} THEN "setnx" ELSE "delete",
                     op |-> a.op, id |-> a.id, item |-> a.item]
    <3>1. b \in Removing
      BY <1>1 DEF Looking, LookingFor, Removing, Ops
    <3>2. QED
      BY <2>3, <3>1 DEF FetchAbsent
  <2>4. QED
    BY <2>1, <2>2, <2>3
<1>4. QED
  BY <1>1, <1>2, <1>3, QuietStep, Zenon

(* The server's answer: the password that goes with it is the one the server *)
(* accepted for the account of the token.                                    *)
LEMMA FetchFoundPreserves ==
  ASSUME IInv, NEW t \in Tasks, FetchFound(t)
  PROVE  IInv'
<1> DEFINE a == tasks[t]
           b == [pc |-> "store", op |-> a.op, name |-> a.id, uuid |-> server[a.id].uuid,
                 groups |-> server[a.id].groups,
                 pw |-> IF a.op = "auth" THEN server[a.id].pw ELSE NoPassword]
           g == [pc |-> "store", op |-> "group", id |-> a.id]
<1>0. tasks \in [Tasks -> Task] /\ AnswersVerified /\ server \in [Names -> Accounts \cup {Gone}]
  BY DEF IInv, Typed
<1>1. a \in Looking /\ UNCHANGED <<world, cache, state, nx>>
  BY <1>0, ShapeOf DEF FetchFound
<1>2. state' \in {"online", "offline"} /\ nx' \subseteq Names \cup Groups
  BY <1>1 DEF IInv, Typed
<1>3. CASE a.op = "group"
  <2>1. tasks' = [tasks EXCEPT ![t] = g]
    BY <1>3 DEF FetchFound
  <2>2. g \in StoringGroup
    BY <1>1 DEF Looking, LookingFor, StoringGroup
  <2>3. QED
    BY <1>1, <1>2, <2>1, <2>2, QuietStep, Zenon
<1>4. CASE a.op # "group"
  <2>1. tasks' = [tasks EXCEPT ![t] = b] /\ server[a.id] # Gone
    BY <1>4 DEF FetchFound
  <2>2. a.id \in Names
    BY <1>0, <1>1, <1>4, <2>1 DEF Looking, LookingFor
  <2>3. server[a.id] \in Accounts
    BY <1>0, <2>1, <2>2
  <2>4. b \in Storing
    BY <1>1, <1>4, <2>2, <2>3, AccountsAssumption DEF Looking, LookingFor, Storing, Pws
  <2>5. b.pw # NoPassword => Verified(b.uuid, b.pw)
    BY <2>3 DEF Verified
  <2>6. b \in Task
    BY <2>4 DEF Task
  <2>7. tasks' \in [Tasks -> Task] /\ AnswersVerified'
    BY <1>0, <2>1, <2>5, <2>6, OneTask, Zenon
  <2>8. QED
    BY <1>1, <1>2, <2>7, CacheUnchanged
<1>5. QED
  BY <1>3, <1>4

-----------------------------------------------------------------------------
(***************************************************************************)
(* The database.                                                           *)
(***************************************************************************)

\* Every row that is left has what it had; only its freshness may differ.
RowsKept ==
  \A u \in Uuids :
    \/ rows'[u] = Gone
    \/ /\ rows[u] # Gone /\ rows'[u].name = rows[u].name
       /\ rows'[u].groups = rows[u].groups /\ rows'[u].pw = rows[u].pw

(* Deleting rows and memberships, and expiring rows, keep the tables right. *)
LEMMA TablesKept ==
  ASSUME IInv, rows' \in [Uuids -> Row \cup {Gone}], RowsKept, members' \subseteq members
  PROVE  OneRowPerName' /\ CachedPasswordWasVerified' /\ MembersComeFromTokens'
<1>1. OneRowPerName'
  BY DEF IInv, OneRowPerName, RowsKept
<1>2. CachedPasswordWasVerified'
  BY DEF IInv, CachedPasswordWasVerified, RowsKept
<1>3. MembersComeFromTokens'
  BY DEF IInv, Typed, MembersComeFromTokens, RowsKept
<1>4. QED
  BY <1>1, <1>2, <1>3

(* A row that expires is a row with the same content. *)
LEMMA StaleRow ==
  /\ \A r \in Row \cup {Gone} :
       /\ Stale(r) \in Row \cup {Gone} /\ (Stale(r) = Gone <=> r = Gone)
       /\ r # Gone => Stale(r).name = r.name /\ Stale(r).groups = r.groups /\ Stale(r).pw = r.pw
  /\ \A r \in GroupRow \cup {Gone} : Stale(r) \in GroupRow \cup {Gone}
BY Zenon DEF Stale, Row, GroupRow, Gone

(* The token's row replaces every other row of its name and keeps the password *)
(* of its own uuid; its memberships are the token's.                           *)
LEMMA UpdateAccountTables ==
  ASSUME IInv, NEW tok \in Storing, UpdateAccount(tok)
  PROVE  /\ rows' \in [Uuids -> Row \cup {Gone}] /\ members' \subseteq Groups \X Uuids
         /\ OneRowPerName' /\ CachedPasswordWasVerified' /\ MembersComeFromTokens'
<1> DEFINE clash == Matching(tok.name) \ {tok.uuid}
           new == [name |-> tok.name, groups |-> tok.groups, fresh |-> TRUE,
                   pw |-> IF rows[tok.uuid] = Gone THEN NoPassword ELSE rows[tok.uuid].pw]
<1>0. rows \in [Uuids -> Row \cup {Gone}] /\ members \subseteq Groups \X Uuids
  BY DEF IInv, Typed
<1>1. tok.uuid \in Uuids /\ tok.name \in Names /\ tok.groups \subseteq Groups
  BY DEF Storing
<1>2. new \in Row /\ new # Gone
  <2>1. new.pw \in Pws
    BY <1>0, <1>1 DEF Row, Pws
  <2>2. QED
    BY <1>1, <2>1 DEF Row, Gone
<1>3. \A u \in Uuids : rows'[u] = IF u \in clash THEN Gone ELSE IF u # tok.uuid THEN rows[u] ELSE new
  BY Zenon DEF UpdateAccount
<1>4. rows' \in [Uuids -> Row \cup {Gone}]
  <2>1. rows' = [u \in Uuids |-> rows'[u]]
    BY DEF UpdateAccount
  <2>2. \A u \in Uuids : rows'[u] \in Row \cup {Gone}
    BY <1>0, <1>2, <1>3, Zenon
  <2>3. QED
    BY <2>1, <2>2
<1>5. rows'[tok.uuid] = new
  BY <1>1, <1>3, Zenon
<1>6. \A u \in Uuids : u # tok.uuid /\ rows'[u] # Gone => rows'[u] = rows[u] /\ rows[u].name # tok.name
  BY <1>3 DEF Matching
<1>7. \A p \in members' : p \in tok.groups \X {tok.uuid} \/ (p \in members /\ p[2] # tok.uuid)
  BY DEF UpdateAccount, Orphaned
<1>8. members' \subseteq Groups \X Uuids
  BY <1>0, <1>1, <1>7
<1>9. OneRowPerName'
  BY <1>5, <1>6 DEF IInv, OneRowPerName
<1>10. CachedPasswordWasVerified'
  BY <1>5, <1>6 DEF IInv, CachedPasswordWasVerified
<1>11. MembersComeFromTokens'
  <2>1. ASSUME NEW p \in members', rows'[p[2]] # Gone
        PROVE  p[1] \in rows'[p[2]].groups
    <3>1. CASE p \in tok.groups \X {tok.uuid}
      BY <1>5, <3>1
    <3>2. CASE p \in members /\ p[2] # tok.uuid
      <4>1. p[2] \in Uuids /\ rows'[p[2]] = rows[p[2]]
        BY <1>0, <1>6, <2>1, <3>2
      <4>2. QED
        BY <2>1, <3>2, <4>1 DEF IInv, MembersComeFromTokens
    <3>3. QED
      BY <1>7, <3>1, <3>2
  <2>2. QED
    BY <2>1 DEF MembersComeFromTokens
<1>12. QED
  BY <1>4, <1>8, <1>9, <1>10, <1>11

(* What a step that changes the tables has to keep besides them. *)
LEMMA TableStep ==
  ASSUME IInv, server' \in [Names -> Accounts \cup {Gone}], UNCHANGED state,
         rows' \in [Uuids -> Row \cup {Gone}], grows' \in [Groups -> GroupRow \cup {Gone}],
         members' \subseteq Groups \X Uuids, nx' \subseteq Names \cup Groups,
         OneRowPerName' /\ CachedPasswordWasVerified' /\ MembersComeFromTokens',
         tasks' \in [Tasks -> Task], AnswersVerified'
  PROVE  IInv'
BY DEF IInv, Typed

(* set_cache_usertoken and set_cache_grouptoken. *)
LEMMA StorePreserves ==
  ASSUME IInv, NEW t \in Tasks, Store(t)
  PROVE  IInv'
<1> DEFINE a == tasks[t]
<1>0. /\ tasks \in [Tasks -> Task] /\ AnswersVerified /\ rows \in [Uuids -> Row \cup {Gone}]
      /\ grows \in [Groups -> GroupRow \cup {Gone}] /\ members \subseteq Groups \X Uuids
  BY DEF IInv, Typed
<1>1. UNCHANGED <<world, state, nx>> /\ a.pc = "store"
  BY DEF Store
<1>2. server' \in [Names -> Accounts \cup {Gone}] /\ nx' \subseteq Names \cup Groups
  BY <1>1 DEF IInv, Typed, world
<1>3. a \in Storing \cup StoringGroup
  BY <1>0, <1>1, ShapeOf
<1>4. \A gs : UpdateGroups(gs) => grows' \in [Groups -> GroupRow \cup {Gone}]
  BY <1>0 DEF UpdateGroups, GroupRow
<1>5. CASE a \in StoringGroup
  <2>1. a.op = "group"
    BY <1>5 DEF StoringGroup
  <2>2. /\ rows' = rows /\ members' \subseteq members
        /\ tasks' = [tasks EXCEPT ![t] = Idle] /\ UpdateGroups({a.id})
    BY <2>1 DEF Store, Answer, Orphaned
  <2>3. Idle \in Task /\ Idle \notin Storing
    BY OtherShapes
  <2>4. tasks' \in [Tasks -> Task] /\ AnswersVerified'
    BY <1>0, <2>2, <2>3, OneTask, Zenon
  <2>5. RowsKept
    BY <2>2 DEF RowsKept
  <2>6. OneRowPerName' /\ CachedPasswordWasVerified' /\ MembersComeFromTokens'
    BY <1>0, <2>2, <2>5, TablesKept
  <2>7. QED
    BY <1>0, <1>1, <1>2, <1>4, <2>2, <2>4, <2>6, TableStep
<1>6. CASE a \in Storing
  <2>1. a.op # "group"
    BY <1>6 DEF Storing
  <2>2. UpdateGroups(a.groups) /\ UpdateAccount(a)
    BY <2>1 DEF Store
  <2>3. PICK b \in {Idle, [a EXCEPT !.pc = "setpw"]} : tasks' = [tasks EXCEPT ![t] = b]
    BY <1>0, <2>1 DEF Store, Answer, Goto
  <2>4. b \in Task /\ (b \in Storing /\ b.pw # NoPassword => Verified(b.uuid, b.pw))
    <3>1. CASE b = Idle
      BY <3>1, OtherShapes
    <3>2. CASE b = [a EXCEPT !.pc = "setpw"]
      <4>1. b \in Storing /\ b.pw = a.pw /\ b.uuid = a.uuid
        BY <1>6, <3>2 DEF Storing
      <4>2. QED
        BY <1>0, <1>6, <4>1 DEF AnswersVerified, Task
    <3>3. QED
      BY <2>3, <3>1, <3>2
  <2>5. tasks' \in [Tasks -> Task] /\ AnswersVerified'
    BY <1>0, <2>3, <2>4, OneTask, Zenon
  <2>6. /\ rows' \in [Uuids -> Row \cup {Gone}] /\ members' \subseteq Groups \X Uuids
        /\ OneRowPerName' /\ CachedPasswordWasVerified' /\ MembersComeFromTokens'
    BY <1>6, <2>2, UpdateAccountTables
  <2>7. QED
    BY <1>1, <1>2, <1>4, <2>2, <2>5, <2>6, TableStep
<1>7. QED
  BY <1>3, <1>5, <1>6

(* set_cache_userpassword: the row there is the row of the account that was *)
(* authenticated, whatever happened since its token was stored.             *)
LEMMA SetPasswordPreserves ==
  ASSUME IInv, NEW t \in Tasks, SetPassword(t)
  PROVE  IInv'
<1> DEFINE a == tasks[t]
<1>0. /\ tasks \in [Tasks -> Task] /\ AnswersVerified /\ rows \in [Uuids -> Row \cup {Gone}]
      /\ grows \in [Groups -> GroupRow \cup {Gone}] /\ members \subseteq Groups \X Uuids
  BY DEF IInv, Typed
<1>1. UNCHANGED <<world, grows, members, state, nx>> /\ a.pc = "setpw"
  BY DEF SetPassword
<1>2. server' \in [Names -> Accounts \cup {Gone}] /\ nx' \subseteq Names \cup Groups
  BY <1>1 DEF IInv, Typed, world
<1>3. a \in Storing
  BY <1>0, <1>1, ShapeOf
<1>4. a.uuid \in Uuids /\ a.pw \in Pws /\ (a.pw # NoPassword => Verified(a.uuid, a.pw))
  BY <1>0, <1>3 DEF Storing, AnswersVerified
<1>5. tasks' \in [Tasks -> Task] /\ AnswersVerified'
  <2>1. tasks' = [tasks EXCEPT ![t] = Idle]
    BY DEF SetPassword, Answer
  <2>2. Idle \in Task /\ Idle \notin Storing
    BY OtherShapes
  <2>3. QED
    BY <1>0, <2>1, <2>2, OneTask, Zenon
<1>6. CASE rows[a.uuid] = Gone
  <2>1. rows' = rows
    BY <1>6 DEF SetPassword
  <2>2. RowsKept
    BY <2>1 DEF RowsKept
  <2>3. OneRowPerName' /\ CachedPasswordWasVerified' /\ MembersComeFromTokens'
    BY <1>0, <1>1, <2>1, <2>2, TablesKept
  <2>4. QED
    BY <1>0, <1>1, <1>2, <1>5, <2>1, <2>3, TableStep
<1>7. CASE rows[a.uuid] # Gone
  <2> DEFINE new == [rows[a.uuid] EXCEPT !.pw = a.pw]
  <2>1. rows' = [rows EXCEPT ![a.uuid] = new]
    BY <1>7 DEF SetPassword
  <2>2. rows[a.uuid] \in Row
    BY <1>0, <1>4, <1>7
  <2>3. /\ new \in Row /\ new # Gone /\ new.name = rows[a.uuid].name
        /\ new.groups = rows[a.uuid].groups /\ new.pw = a.pw
    BY <1>4, <2>2 DEF Row, Gone
  <2>4. rows' \in [Uuids -> Row \cup {Gone}]
    BY <1>0, <2>1, <2>3, Zenon
  <2>5. rows'[a.uuid] = new /\ \A u \in Uuids : u # a.uuid => rows'[u] = rows[u]
    BY <1>0, <1>4, <2>1
  <2>6. OneRowPerName'
    <3>1. \A u \in Uuids : (rows'[u] # Gone => rows[u] # Gone /\ rows'[u].name = rows[u].name)
      BY <1>4, <1>7, <2>3, <2>5, Zenon
    <3>2. QED
      BY <3>1 DEF IInv, OneRowPerName
  <2>7. CachedPasswordWasVerified'
    <3>1. ASSUME NEW u \in Uuids, rows'[u] # Gone, rows'[u].pw # NoPassword
          PROVE  Verified(u, rows'[u].pw)
      <4>1. CASE u = a.uuid
        BY <1>4, <2>3, <2>5, <3>1, <4>1, Zenon
      <4>2. CASE u # a.uuid
        BY <2>5, <3>1, <4>2 DEF IInv, CachedPasswordWasVerified, Verified
      <4>3. QED
        BY <4>1, <4>2
    <3>2. QED
      BY <3>1 DEF CachedPasswordWasVerified, Verified
  <2>8. MembersComeFromTokens'
    <3>1. ASSUME NEW p \in members
          PROVE  rows'[p[2]] # Gone => p[1] \in rows'[p[2]].groups
      <4>1. p[2] \in Uuids /\ (rows[p[2]] # Gone => p[1] \in rows[p[2]].groups)
        BY <1>0 DEF IInv, MembersComeFromTokens
      <4>2. CASE p[2] = a.uuid
        BY <1>7, <2>3, <2>5, <4>1, <4>2, Zenon
      <4>3. CASE p[2] # a.uuid
        BY <2>5, <4>1, <4>3
      <4>4. QED
        BY <4>2, <4>3
    <3>2. QED
      BY <1>1, <3>1 DEF MembersComeFromTokens
  <2>9. QED
    BY <1>0, <1>1, <1>2, <1>5, <2>4, <2>6, <2>7, <2>8, TableStep
<1>8. QED
  BY <1>6, <1>7

(* delete_cache_usertoken, delete_cache_grouptoken, invalidate, clear_cache. *)
LEMMA RemovalPreserves ==
  ASSUME IInv, NEW t \in Tasks, Delete(t) \/ Invalidate(t) \/ ClearCache(t)
  PROVE  IInv'
<1> DEFINE a == tasks[t]
<1>0. /\ tasks \in [Tasks -> Task] /\ AnswersVerified /\ rows \in [Uuids -> Row \cup {Gone}]
      /\ grows \in [Groups -> GroupRow \cup {Gone}] /\ members \subseteq Groups \X Uuids
  BY DEF IInv, Typed
<1>1. UNCHANGED <<world, state, nx>>
  BY DEF Delete, Invalidate, ClearCache
<1>2. server' \in [Names -> Accounts \cup {Gone}] /\ nx' \subseteq Names \cup Groups
  BY <1>1 DEF IInv, Typed, world
<1>3. tasks' \in [Tasks -> Task] /\ AnswersVerified'
  <2>1. PICK b \in {Idle} \cup Removing : tasks' = [tasks EXCEPT ![t] = b]
    <3>1. CASE Delete(t)
      <4>1. a \in Removing
        BY <1>0, <3>1, ShapeOf DEF Delete
      <4>2. [a EXCEPT !.pc = "setnx"] \in Removing
        BY <4>1 DEF Removing
      <4>3. QED
        BY <3>1, <4>2, Zenon DEF Delete, Goto
    <3>2. CASE Invalidate(t) \/ ClearCache(t)
      BY <3>2 DEF Invalidate, ClearCache, Answer
    <3>3. QED
      BY <3>1, <3>2
  <2>2. b \in Task /\ b \notin Storing
    BY <2>1, OtherShapes
  <2>3. QED
    BY <1>0, <2>1, <2>2, OneTask, Zenon
<1>4. members' \subseteq members
  BY DEF Delete, Invalidate, ClearCache, DeleteAccounts, Orphaned
<1>5. grows' \in [Groups -> GroupRow \cup {Gone}]
  <2>1. CASE Delete(t)
    BY <1>0, <2>1 DEF Delete
  <2>2. CASE Invalidate(t)
    BY <1>0, <2>2, StaleRow DEF Invalidate
  <2>3. CASE ClearCache(t)
    BY <2>3 DEF ClearCache
  <2>4. QED
    BY <2>1, <2>2, <2>3
<1>6. rows' \in [Uuids -> Row \cup {Gone}] /\ RowsKept
  <2>1. CASE Delete(t) \/ ClearCache(t)
    <3>1. rows' = rows \/ \E us : rows' = [u \in Uuids |-> IF u \in us THEN Gone ELSE rows[u]]
      BY <2>1 DEF Delete, ClearCache, DeleteAccounts
    <3>2. QED
      BY <1>0, <3>1 DEF RowsKept
  <2>2. CASE Invalidate(t)
    <3>1. rows' = [u \in Uuids |-> Stale(rows[u])]
      BY <2>2 DEF Invalidate
    <3>2. QED
      BY <1>0, <3>1, StaleRow DEF RowsKept
  <2>3. QED
    BY <2>1, <2>2
<1>7. OneRowPerName' /\ CachedPasswordWasVerified' /\ MembersComeFromTokens'
  BY <1>4, <1>6, TablesKept
<1>8. QED
  BY <1>0, <1>1, <1>2, <1>3, <1>4, <1>5, <1>6, <1>7, TableStep

(* A row, a group or an entry of the negative cache expires. *)
LEMMA ExpirePreserves ==
  ASSUME IInv, Expire
  PROVE  IInv'
<1>0. /\ tasks \in [Tasks -> Task] /\ AnswersVerified /\ rows \in [Uuids -> Row \cup {Gone}]
      /\ grows \in [Groups -> GroupRow \cup {Gone}] /\ members \subseteq Groups \X Uuids
      /\ nx \subseteq Names \cup Groups
  BY DEF IInv, Typed
<1>1. UNCHANGED <<world, members, state, tasks>>
  BY DEF Expire
<1>2. server' \in [Names -> Accounts \cup {Gone}] /\ tasks' \in [Tasks -> Task] /\ AnswersVerified'
  BY <1>0, <1>1 DEF IInv, Typed, world, AnswersVerified, Verified
<1>3. rows' \in [Uuids -> Row \cup {Gone}] /\ RowsKept
  <2>1. rows' = rows \/ \E u \in Uuids : rows' = [rows EXCEPT ![u] = Stale(rows[u])]
    BY DEF Expire
  <2>2. QED
    BY <1>0, <2>1, StaleRow DEF RowsKept
<1>4. grows' \in [Groups -> GroupRow \cup {Gone}]
  BY <1>0, StaleRow DEF Expire
<1>5. nx' \subseteq Names \cup Groups
  BY <1>0 DEF Expire
<1>6. OneRowPerName' /\ CachedPasswordWasVerified' /\ MembersComeFromTokens'
  BY <1>1, <1>3, TablesKept
<1>7. QED
  BY <1>0, <1>1, <1>2, <1>3, <1>4, <1>5, <1>6, TableStep

(* check_cache_userpassword, set_nxcache, and the first half of a reset. *)
LEMMA AnswerPreserves ==
  ASSUME IInv, NEW t \in Tasks,
         CheckPassword(t) \/ SetNxcache(t) \/ \E op \in {"invalidate", "clear"} : Reset(t, op)
  PROVE  IInv'
<1>0. tasks[t] \in Task /\ state \in {"online", "offline"} /\ nx \subseteq Names \cup Groups
  BY DEF IInv, Typed
<1>1. UNCHANGED <<world, cache, state>>
  BY DEF CheckPassword, SetNxcache, Reset
<1>2. nx' \subseteq Names \cup Groups
  <2>1. CASE SetNxcache(t)
    <3>1. tasks[t].id \in Names \cup Groups
      BY <1>0, <2>1, ShapeOf DEF SetNxcache, Removing
    <3>2. QED
      BY <1>0, <2>1, <3>1 DEF SetNxcache
  <2>2. CASE ~SetNxcache(t)
    BY <1>0, <2>2 DEF CheckPassword, Reset
  <2>3. QED
    BY <2>1, <2>2
<1>3. \E a \in {Idle} \cup Resetting : tasks' = [tasks EXCEPT ![t] = a]
  <2>1. \A op \in {"invalidate", "clear"} : [pc |-> op] \in Resetting
    BY DEF Resetting
  <2>2. QED
    BY <2>1 DEF CheckPassword, SetNxcache, Reset, Answer
<1>4. QED
  BY <1>0, <1>1, <1>2, <1>3, QuietStep, Zenon

(* The daemon restarts with the tables of the disk; an account of the server *)
(* is created, changed or deleted.                                           *)
LEMMA EnvironmentPreserves ==
  ASSUME IInv, Restart \/ \E n \in Names : ServerChange(n)
  PROVE  IInv'
<1>0. tasks \in [Tasks -> Task] /\ AnswersVerified /\ server \in [Names -> Accounts \cup {Gone}]
  BY DEF IInv, Typed
<1>1. CASE Restart
  <2>1. tasks' \in [Tasks -> Task] /\ AnswersVerified'
    <3>1. Idle \in Task /\ Idle \notin Storing
      BY OtherShapes
    <3>2. \A t \in Tasks : tasks'[t] = Idle
      BY <1>1 DEF Restart
    <3>3. tasks' \in [Tasks -> Task]
      BY <1>1, <3>1 DEF Restart
    <3>4. QED
      BY <3>1, <3>2, <3>3 DEF AnswersVerified
  <2>2. QED
    BY <1>1, <2>1, CacheUnchanged DEF Restart
<1>2. CASE \E n \in Names : ServerChange(n)
  <2>1. server' \in [Names -> Accounts \cup {Gone}] /\ UNCHANGED <<cache, state, nx, tasks>>
    BY <1>0, <1>2 DEF ServerChange
  <2>2. AnswersVerified'
    BY <1>0, <2>1 DEF AnswersVerified, Verified
  <2>3. QED
    BY <2>1, <2>2 DEF IInv, Typed, cache, OneRowPerName, CachedPasswordWasVerified, MembersComeFromTokens
<1>3. QED
  BY <1>1, <1>2

-----------------------------------------------------------------------------
(***************************************************************************)
(* The theorems.                                                           *)
(***************************************************************************)

(* The daemon starts with empty tables and no request. *)
LEMMA InitIInv == Init => IInv
<1> SUFFICES ASSUME Init PROVE IInv
  OBVIOUS
<1>1. Idle \in Task /\ Idle \notin Storing
  BY OtherShapes
<1>2. Typed
  BY <1>1 DEF Init, Typed
<1>3. AnswersVerified
  BY <1>1 DEF Init, AnswersVerified
<1>4. OneRowPerName /\ CachedPasswordWasVerified /\ MembersComeFromTokens
  BY DEF Init, OneRowPerName, CachedPasswordWasVerified, MembersComeFromTokens
<1>5. QED
  BY <1>2, <1>3, <1>4 DEF IInv

(* Every step of a request and of its surroundings keeps the invariant. *)
LEMMA NextIInv == IInv /\ [Next]_vars => IInv'
<1> SUFFICES ASSUME IInv, [Next]_vars PROVE IInv'
  OBVIOUS
<1>1. CASE UNCHANGED vars
  <2>1. UNCHANGED <<world, cache, state, nx, tasks>>
    BY <1>1 DEF vars, world, cache
  <2>2. AnswersVerified'
    BY <2>1 DEF IInv, AnswersVerified, Verified
  <2>3. QED
    BY <2>1, <2>2, CacheUnchanged DEF IInv, Typed
<1>2. ASSUME NEW t \in Tasks, Request(t) PROVE IInv'
  <2>1. CASE \E n \in Names : Look(t, "user", n) \/ Look(t, "auth", n)
    <3>1. PICK n \in Names, op \in {"user", "auth"} : Look(t, op, n)
      BY <2>1
    <3>2. op \in Ops /\ n \in IF op = "group" THEN Groups ELSE Names
      BY <3>1 DEF Ops
    <3>3. QED
      BY <3>1, <3>2, LookPreserves
  <2>2. CASE \E g \in Groups : Look(t, "group", g)
    BY <2>2, LookPreserves DEF Ops
  <2>3. CASE \E op \in {"invalidate", "clear"} : Reset(t, op)
    BY <2>3, AnswerPreserves
  <2>4. QED
    BY <1>2, <2>1, <2>2, <2>3 DEF Request
<1>3. ASSUME NEW t \in Tasks, Step(t) PROVE IInv'
  BY <1>3, WaitingPreserves, FetchPreserves, FetchFoundPreserves, StorePreserves,
     SetPasswordPreserves, AnswerPreserves, RemovalPreserves DEF Step
<1>4. CASE (\E n \in Names : ServerChange(n)) \/ Restart
  BY <1>4, EnvironmentPreserves
<1>5. CASE Expire
  BY <1>5, ExpirePreserves
<1>6. QED
  BY <1>1, <1>2, <1>3, <1>4, <1>5 DEF Next

(* A mutex is held by the request that is where the code holds it. *)
LEMMA NextTypeOK == IInv /\ IInv' /\ TypeOK /\ [Next]_vars => TypeOK'
<1> SUFFICES ASSUME IInv, IInv', TypeOK, [Next]_vars PROVE Locks'
  BY DEF IInv, Typed, TypeOK, Locks
<1>0. tasks \in [Tasks -> Task] /\ Locks /\ Nobody \notin Tasks
  BY TasksAssumption DEF IInv, Typed, TypeOK, Locks, Nobody
<1>1. CASE UNCHANGED vars
  BY <1>0, <1>1 DEF Locks, vars
<1>2. ASSUME NEW t \in Tasks, Request(t) PROVE Locks'
  <2>0. (\E op \in {"invalidate", "clear"} : Reset(t, op)) \/ \E op, id : Look(t, op, id)
    BY <1>2 DEF Request
  <2>1. tasks[t].pc = "idle" /\ \A r \in Tasks \ {t} : tasks'[r] = tasks[r]
    <3>1. tasks[t] = Idle /\ \E a : tasks' = [tasks EXCEPT ![t] = a]
      BY <2>0, ZenonT(60) DEF Look, Reset
    <3>2. QED
      BY <1>0, <3>1 DEF Idle
  <2>2. CASE \E op \in {"invalidate", "clear"} : Reset(t, op)
    <3>1. db' = db /\ nxl = Nobody /\ nxl' = t /\ tasks'[t].pc \in {"invalidate", "clear"}
      BY <1>0, <2>2 DEF Reset
    <3>2. QED
      BY <1>0, <2>1, <3>1 DEF Locks
  <2>3. CASE \E op, id : Look(t, op, id)
    <3>1. nxl' = nxl /\ db = Nobody /\ tasks'[t].pc \notin {"invalidate", "clear"}
      BY <1>0, <2>3 DEF Look, Online1st, Idle
    <3>2. IF tasks'[t].pc = "nxcache" THEN db' = t ELSE db' = Nobody
      BY <1>0, <2>3 DEF Look, Online1st, Idle
    <3>3. QED
      BY <1>0, <2>1, <3>1, <3>2 DEF Locks
  <2>4. QED
    BY <2>0, <2>2, <2>3
<1>3. ASSUME NEW t \in Tasks, Step(t) PROVE Locks'
  <2>1. \A r \in Tasks \ {t} : tasks'[r] = tasks[r]
    BY <1>0, <1>3 DEF Step, LookNxcache, Decide, Connect, FetchFails, FetchRefused, FetchFound, FetchAbsent,
       Store, SetPassword, CheckPassword, Delete, SetNxcache, Invalidate, ClearCache, Goto, Answer, FallBack
  <2>2. tasks'[t].pc \notin {"nxcache", "invalidate", "clear"}
    <3>1. tasks[t] \in Task
      BY <1>0
    <3>2. \A pc : Goto(t, pc) => tasks'[t].pc = pc
      BY <1>0, <3>1 DEF Goto, Task, Idle, Looking, LookingFor, Storing, StoringGroup, Removing, Resetting
    <3>3. Answer(t) => tasks'[t].pc = "idle"
      BY <1>0 DEF Answer, Idle
    <3>4. LookNxcache(t) => tasks'[t].pc \in {"fetch", "connect", "decide", "idle"}
      <4>1. SUFFICES ASSUME LookNxcache(t) PROVE tasks'[t].pc \in {"fetch", "connect", "decide", "idle"}
        OBVIOUS
      <4>2. tasks[t] \in Looking
        BY <3>1, <4>1, ShapeOf DEF LookNxcache
      <4>3. QED
        BY <1>0, <4>1, <4>2 DEF LookNxcache, Looking, LookingFor, Online1st, Idle
    <3>5. FetchFound(t) \/ FetchAbsent(t) => tasks'[t].pc \in {"store", "setnx", "delete"}
      BY <1>0 DEF FetchFound, FetchAbsent
    <3>6. QED
      BY <1>3, <3>2, <3>3, <3>4, <3>5 DEF Step, Decide, Connect, FetchFails, FetchRefused,
         Store, SetPassword, CheckPassword, Delete, SetNxcache, Invalidate, ClearCache, FallBack
  <2>3. db' = IF tasks[t].pc = "nxcache" THEN Nobody ELSE db
    BY <1>3 DEF Step, LookNxcache, Decide, Connect, FetchFails, FetchRefused, FetchFound, FetchAbsent,
       Store, SetPassword, CheckPassword, Delete, SetNxcache, Invalidate, ClearCache
  <2>4. nxl' = IF tasks[t].pc \in {"invalidate", "clear"} THEN Nobody ELSE nxl
    BY <1>3 DEF Step, LookNxcache, Decide, Connect, FetchFails, FetchRefused, FetchFound, FetchAbsent,
       Store, SetPassword, CheckPassword, Delete, SetNxcache, Invalidate, ClearCache
  <2>5. QED
    BY <1>0, <2>1, <2>2, <2>3, <2>4 DEF Locks
<1>4. CASE (\E n \in Names : ServerChange(n)) \/ Expire
  BY <1>0, <1>4 DEF ServerChange, Expire, Locks
<1>5. CASE Restart
  BY <1>0, <1>5 DEF Restart, Locks, Idle
<1>6. QED
  BY <1>1, <1>2, <1>3, <1>4, <1>5 DEF Next

(* The inductive invariant holds of every behaviour of the daemon.           *)
THEOREM Invariance == Spec => []IInv
BY InitIInv, NextIInv, PTL DEF Spec

(* The types of the cache, and the two mutexes: one is held by the request    *)
(* that is at a place of the code where it holds it, and by no other.         *)
THEOREM TypeCorrect == Spec => []TypeOK
<1>1. Init => TypeOK
  BY TasksAssumption DEF Init, TypeOK, Nobody, Idle
<1>2. QED
  BY <1>1, NextTypeOK, Invariance, PTL DEF Spec

(* No two cached accounts have one name, for any number of requests at once  *)
(* and however accounts of the server exchange their names (update_account). *)
THEOREM OneRowForAName == Spec => []OneRowPerName
<1>1. IInv => OneRowPerName
  BY DEF IInv
<1>2. QED
  BY <1>1, Invariance, PTL

(* A cached password is one the server has for the account of the row, also   *)
(* when it is stored after the row was deleted, replaced or renamed           *)
(* (set_cache_userpassword, update_account).                                  *)
THEOREM PasswordsStayWithTheirAccount == Spec => []CachedPasswordWasVerified
<1>1. IInv => CachedPasswordWasVerified
  BY DEF IInv
<1>2. QED
  BY <1>1, Invariance, PTL

(* The members of a cached group are accounts whose cached token has the      *)
(* group, with and without foreign keys in the database (update_account,      *)
(* delete_account, update_group).                                             *)
THEOREM MembershipsComeFromTokens == Spec => []MembersComeFromTokens
<1>1. IInv => MembersComeFromTokens
  BY DEF IInv
<1>2. QED
  BY <1>1, Invariance, PTL

=============================================================================
