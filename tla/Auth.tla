-------------------------------- MODULE Auth --------------------------------
(***************************************************************************)
(* Authentication of one account (idm/server.rs auth, auth_unix,           *)
(* auth_ldap; idm/authsession.rs): the sessions of the init/begin/cred     *)
(* exchange, the soft locks they share with the unix password checks, the  *)
(* delayed actions they queue for the write side, and the credential       *)
(* update sessions, which copy the primary credential and store it whole   *)
(* when they commit.                                                       *)
(*                                                                         *)
(* A request reads its time ct before it waits for anything, so a step may *)
(* use a time up to Lag older than the clock.  A cred step holds the mutex *)
(* of its session and of its lock to the end and is one action.            *)
(* auth_unix and auth_ldap look the lock up, wait for the session ticket   *)
(* to insert one if there was none, and wait for the lock: three actions.  *)
(***************************************************************************)
EXTENDS SoftLock, FiniteSets

CONSTANTS
  SessionIds,      \* the auth sessions
  Tasks,           \* concurrent unix and ldap password checks
  Passwords,       \* the passwords an account may have
  BadList,         \* those in the password badlist
  Codes,           \* the backup codes it may have
  Updates,         \* the credential update sessions
  Accounts,        \* the accounts a behaviour may start with, each with the
                   \* primary credentials that may be made for it and the
                   \* update sessions that may be opened
  Timeout,         \* AUTH_SESSION_TIMEOUT
  Lag,             \* how old the time of a request may be when it is used
  MaxTime,         \* bound on the clock
  MaxUuid,         \* bound on the credential uuids handed out
  MaxQueue         \* bound on the delayed actions waiting

ASSUME AuthAssumption ==
  /\ Timeout \in Nat /\ Lag \in Nat /\ MaxTime \in Nat /\ MaxUuid \in Nat /\ MaxQueue \in Nat

VARIABLES
  now,        \* the clock
  account,    \* what the database holds of the account
  uuids,      \* credential uuids handed out
  sessions,   \* the session tree, NoSession where there is none
  softlocks,  \* the softlock map: credential uuid -> lock, or 0
  locks,      \* the lock objects, Free where there is none
  tasks,      \* the unix and ldap checks under way
  updates,    \* the copies that update sessions hold, NoUpdate where none is
  delayed,    \* the queue of delayed actions
  spent       \* history: backup codes accepted, but for those whose removal was
              \* lost and those an update has written back since

vars == <<now, account, uuids, sessions, softlocks, locks, tasks, updates, delayed, spent>>

NoSession == [st |-> "none"]
NoCred == [type |-> "none"]
Free == [state |-> "free"]
Idle == [pc |-> "idle"]
NoUpdate == [type |-> "closed"]

\* One lock per credential, and one more per task that may insert a second.
LockIds == 1 .. (MaxUuid + 1 + Cardinality(Tasks))
Uuids == 0 .. MaxUuid      \* 0 is UUID_ANONYMOUS

\* A credential; what its type has no use for is not looked at.
Credential ==
  [type : {"password", "generated", "mfa", "webauthn"}, factors : SUBSET {"totp", "securitykey"},
   codes : SUBSET Codes, pw : Passwords, old : BOOLEAN, uuid : Uuids]
CodesOf(cred) == IF cred = NoCred THEN {} ELSE cred.codes

Account ==
  [primary : Credential \cup {NoCred}, unix : Credential \cup {NoCred}, passkeys : BOOLEAN,
   anonymous : BOOLEAN, valid : BOOLEAN, changes : SUBSET Credential, updaters : SUBSET Updates]

\* Only a credential with other factors has backup codes.
ASSUME AccountsAssumption ==
  /\ Accounts \subseteq Account
  /\ \A a \in Accounts : a.primary.type # "mfa" => CodesOf(a.primary) = {}

Init ==
  /\ now = 0
  /\ account \in Accounts
  /\ uuids = Max({0} \cup {a.uuid : a \in {account.primary, account.unix} \ {NoCred}})
  /\ sessions = [s \in SessionIds |-> NoSession]
  /\ softlocks = [u \in Uuids |-> 0]
  /\ locks = [l \in LockIds |-> Free]
  /\ tasks = [t \in Tasks |-> Idle]
  /\ updates = [d \in Updates |-> NoUpdate]
  /\ delayed = <<>>
  /\ spent = {}

-----------------------------------------------------------------------------
(* Credentials                                                             *)

\* Credential::softlock_policy
SoftlockPolicy(cred) ==
  CASE cred.type \in {"password", "generated"} -> "password"
    [] cred.type = "mfa" ->
         IF "totp" \in cred.factors THEN "totp"
         ELSE IF "securitykey" \in cred.factors THEN "webauthn" ELSE "password"
    [] cred.type = "webauthn" -> "webauthn"

\* Account::primary_cred_uuid_and_policy: at most one uuid with its policy.
PrimaryLock(acct) ==
  IF acct.primary # NoCred
  THEN {<<acct.primary.uuid, SoftlockPolicy(acct.primary)>>}
  ELSE IF acct.anonymous THEN {<<0, "unrestricted">>} ELSE {}

\* The mechanisms AuthSession::new finds handlers for.
Handlers(acct) ==
  IF acct.anonymous THEN {"anonymous"}
  ELSE (CASE acct.primary = NoCred -> {}
          [] acct.primary # NoCred /\ acct.primary.type \in {"password", "generated"} -> {"password"}
          [] acct.primary # NoCred /\ acct.primary.type = "mfa" ->
               IF acct.primary.factors = {} THEN {} ELSE {"passwordmfa"}
          [] acct.primary # NoCred /\ acct.primary.type = "webauthn" -> {"passkey"})
       \cup (IF acct.passkeys THEN {"passkey"} ELSE {})

Mechs == {"anonymous", "password", "passwordmfa", "passkey"}

\* What a client may present: a password, or the right value of another kind.
\* What a handler does not accept is all the same to it, wrong values included.
Presented(cred) ==
  [kind : {"password"}, val : Passwords]
    \cup [kind : {"totp", "securitykey", "passkey", "anonymous"}, val : {"right"}]
    \cup [kind : {"backupcode"}, val : CodesOf(cred)]

PasswordOk(cred, p) == p.kind = "password" /\ p.val = cred.pw /\ p.val \notin BadList

FactorOk(cred, p) ==
  \/ p.kind \in {"totp", "securitykey"} \cap cred.factors
  \/ p.kind = "backupcode" /\ p.val \in cred.codes

\* CredHandler::validate: what the handler of session a makes of p.  The mutant
\* takes the factors of passwordmfa in any order, and one of them for both.
ValidateEither(a, p) ==
  LET accepted ==
        CASE a.mech = "anonymous"   -> p.kind = "anonymous"
          [] a.mech = "password"    -> PasswordOk(a.cred, p)
          [] a.mech = "passwordmfa" -> FactorOk(a.cred, p) \/ PasswordOk(a.cred, p)
          [] a.mech = "passkey"     -> p.kind = "passkey"
  IN IF ~accepted THEN "denied"
     ELSE IF a.mech = "passwordmfa" /\ p.kind # "password" THEN "continue" ELSE "success"
Validate(a, p) ==
  LET accepted ==
        CASE a.mech = "anonymous"   -> p.kind = "anonymous"
          [] a.mech = "password"    -> PasswordOk(a.cred, p)
          [] a.mech = "passwordmfa" ->
               IF a.mfa = "init" THEN FactorOk(a.cred, p) ELSE PasswordOk(a.cred, p)
          [] a.mech = "passkey"     -> p.kind = "passkey"
  IN IF ~accepted THEN "denied"
     ELSE IF a.mech = "passwordmfa" /\ a.mfa = "init" THEN "continue" ELSE "success"
-----------------------------------------------------------------------------
(* The session exchange                                                    *)

Times == {ct \in now - Lag .. now : ct >= 0}

\* expire_auth_sessions, run by every request before anything else.
Unexpired(ct) ==
  [s \in SessionIds |->
     IF sessions[s] # NoSession /\ sessions[s].started < ct - Timeout
     THEN NoSession ELSE sessions[s]]

\* A request that finds no session of its id only runs the expiry.
ExpireAuthSessions ==
  \E ct \in Times :
    /\ sessions' = Unexpired(ct)
    /\ UNCHANGED <<now, account, uuids, softlocks, locks, tasks, updates, delayed, spent>>

FreeLock == Min({l \in LockIds : locks[l] = Free})

\* AuthEventStep::Init: under the session ticket, a lock for the primary
\* credential if there is none, and a session if the account has a handler.
AuthInit(s) ==
  \E ct \in Times :
    LET kept == Unexpired(ct)
        new  == {c \in PrimaryLock(account) : softlocks[c[1]] = 0}
    IN /\ kept[s] = NoSession
       /\ softlocks' = [u \in Uuids |->
            IF \E c \in new : c[1] = u THEN FreeLock ELSE softlocks[u]]
       /\ locks' = [l \in LockIds |->
            IF new # {} /\ l = FreeLock THEN NewLock((CHOOSE c \in new : TRUE)[2]) ELSE locks[l]]
       /\ sessions' = IF account.valid /\ Handlers(account) # {}
                      THEN [kept EXCEPT ![s] =
                              [st |-> "init", handlers |-> Handlers(account), mech |-> "none",
                               cred |-> account.primary, mfa |-> "init",
                               started |-> ct, proved |-> <<>>]]
                      ELSE kept
       /\ UNCHANGED <<now, account, uuids, tasks, updates, delayed, spent>>

\* AuthSession::end_session, and the denied verdict: nothing more of the
\* session is ever looked at.
Denied(a) == [st |-> "denied", started |-> a.started]

\* AuthSession::start_session; the mutant ends a session that has begun.
StartOrEnd(a, mech) ==
  IF a.st = "init" /\ mech \in a.handlers THEN [a EXCEPT !.st = "inprogress", !.mech = mech]
  ELSE Denied(a)
StartSession(a, mech) ==
  IF a.st # "init" THEN a
  ELSE IF mech \in a.handlers THEN [a EXCEPT !.st = "inprogress", !.mech = mech]
  ELSE Denied(a)

\* AuthSession::get_credential_uuid of a session in progress: the uuid, if the
\* handler is one that is soft locked.
CredentialUuid(a) ==
  IF a.mech \in {"password", "passwordmfa"} THEN {a.cred.uuid} ELSE {}

\* The locks as they are once the session's own has seen the time ct.
Stepped(a, ct) ==
  [l \in LockIds |->
     IF l \in {softlocks[u] : u \in CredentialUuid(a)} THEN ApplyTimeStep(locks[l], ct) ELSE locks[l]]

\* AuthEventStep::Begin.  A session that start_session leaves finished or
\* denied makes get_credential_uuid an error, and the lock is not looked at; a
\* lock that is not in the map counts as locked.
Begin(s, mech) ==
  \E ct \in Times :
    LET kept  == Unexpired(ct)
        a     == StartSession(kept[s], mech)
        after == Stepped(a, ct)
        valid == \A u \in CredentialUuid(a) : softlocks[u] # 0 /\ IsValid(after[softlocks[u]])
    IN /\ kept[s] # NoSession
       /\ IF a.st # "inprogress"
          THEN sessions' = [kept EXCEPT ![s] = a] /\ UNCHANGED locks
          ELSE /\ sessions' = [kept EXCEPT ![s] = IF valid THEN a ELSE Denied(a)]
               /\ locks' = after
       /\ UNCHANGED <<now, account, uuids, softlocks, tasks, updates, delayed, spent>>

\* What validating p queues: the upgrade of an old password hash, the removal
\* of a backup code.  (The AuthSessionRecord of a success is in Sessions.)
Queued(a, p, result) ==
  CASE result = "success" /\ p.kind = "password" /\ a.cred.old -> <<[op |-> "pwupgrade", pw |-> p.val]>>
    [] result = "continue" /\ p.kind = "backupcode" -> <<[op |-> "coderemoval", code |-> p.val]>>
    [] OTHER -> <<>>

\* AuthSession::validate_creds
Validated(a, p, result) ==
  CASE result = "denied"   -> Denied(a)
    [] result = "continue" -> [a EXCEPT !.mfa = "success", !.proved = Append(@, p.kind)]
    [] result = "success"  -> [st |-> "success", started |-> a.started, mech |-> a.mech,
                               proved |-> Append(a.proved, p.kind)]

\* AuthEventStep::Cred: the lock is stepped, a locked one ends the session, an
\* open one lets the credential be checked and records its failure.
Cred(s) ==
  \E ct \in Times :
    LET kept  == Unexpired(ct)
        a     == kept[s]
    IN /\ a # NoSession /\ a.st = "inprogress"
       /\ LET after == Stepped(a, ct)
              own   == {softlocks[u] : u \in CredentialUuid(a)} \ {0}
          IN IF \E l \in own : ~IsValid(after[l])
             THEN /\ sessions' = [kept EXCEPT ![s] = Denied(a)]
                  /\ locks' = after
                  /\ UNCHANGED <<delayed, spent>>
             ELSE \E p \in Presented(a.cred) :
                    LET result == Validate(a, p)
                    IN /\ sessions' = [kept EXCEPT ![s] = Validated(a, p, result)]
                       /\ locks' = [l \in LockIds |->
                            IF l \in own /\ result = "denied"
                            THEN RecordFailure(after[l], ct, now) ELSE after[l]]
                       /\ delayed' = delayed \o Queued(a, p, result)
                       /\ spent' = spent \cup {d.code : d \in {e \in Range(Queued(a, p, result)) :
                                                                 e.op = "coderemoval"}}
       /\ Len(delayed') <= MaxQueue
       /\ UNCHANGED <<now, account, uuids, softlocks, tasks, updates>>

-----------------------------------------------------------------------------
(* auth_unix and auth_ldap                                                 *)

\* The objects no map entry and no task refers to are gone.
Collected(ls, map, ts) ==
  [l \in LockIds |->
     IF \/ \E u \in Uuids : map[u] = l
        \/ \E t \in Tasks : ts[t].pc = "lock" /\ ts[t].lock = l
     THEN ls[l] ELSE Free]

\* The account is read and its lock looked up in the map as it is now.
UnixBegin(t) ==
  /\ tasks[t].pc = "idle" /\ account.valid /\ account.unix # NoCred
  /\ LET l == softlocks[account.unix.uuid]
     IN tasks' = [tasks EXCEPT ![t] =
          [pc |-> IF l = 0 THEN "insert" ELSE "lock", lock |-> l, cred |-> account.unix, ct |-> now]]
  /\ UNCHANGED <<now, account, uuids, sessions, softlocks, locks, updates, delayed, spent>>

\* There was none when it looked: under the session ticket, a new lock is put
\* in the map, whatever is there by then.
UnixInsert(t) ==
  /\ tasks[t].pc = "insert"
  /\ softlocks' = [softlocks EXCEPT ![tasks[t].cred.uuid] = FreeLock]
  /\ tasks' = [tasks EXCEPT ![t].pc = "lock", ![t].lock = FreeLock]
  /\ locks' = Collected([locks EXCEPT ![FreeLock] = NewLock(SoftlockPolicy(tasks[t].cred))],
                        softlocks', tasks')
  /\ UNCHANGED <<now, account, uuids, sessions, updates, delayed, spent>>

\* With the lock held: step it, and check the password if it is open.
UnixVerify(t) ==
  /\ tasks[t].pc = "lock"
  /\ LET l     == tasks[t].lock
         cred  == tasks[t].cred
         after == ApplyTimeStep(locks[l], tasks[t].ct)
     IN /\ tasks' = [tasks EXCEPT ![t] = Idle]
        /\ \E pw \in Passwords :
             LET ok == pw = cred.pw
             IN /\ locks' = Collected([locks EXCEPT ![l] =
                               IF IsValid(after) /\ ~ok
                               THEN RecordFailure(after, tasks[t].ct, now) ELSE after],
                             softlocks, tasks')
                /\ delayed' = IF IsValid(after) /\ ok /\ cred.old
                              THEN Append(delayed, [op |-> "unixpwupgrade", pw |-> pw]) ELSE delayed
  /\ Len(delayed') <= MaxQueue
  /\ UNCHANGED <<now, account, uuids, sessions, softlocks, updates, spent>>

-----------------------------------------------------------------------------
(* The write side                                                          *)

\* create_credupdate_session: the primary credential as it is now is copied.
InitUpdate(d) ==
  /\ d \in account.updaters
  /\ updates' = [updates EXCEPT ![d] = account.primary]
  /\ account' = [account EXCEPT !.updaters = @ \ {d}]
  /\ UNCHANGED <<now, uuids, sessions, softlocks, locks, tasks, delayed, spent>>

\* What the edits of a session build on the copy: the password and the totp may
\* change, the security keys stay.
EditOf(copy, c) ==
  /\ copy # NoCred /\ copy.type # "webauthn"
  /\ c.factors \ {"totp"} = copy.factors \ {"totp"}
  /\ c.type = IF c.factors = {} THEN "password" ELSE "mfa"

\* With the primary credential deleted first, one is made afresh.
MadeAfresh(c) ==
  c.factors \subseteq {"totp"} /\ c.type = IF c.factors = {} THEN "password" ELSE "mfa"

\* The backup codes that c may have: none, the kept ones, or a new batch, drawn
\* at random and so unlike any in use or used.
CodeSets(c, kept) ==
  IF c.type = "mfa" THEN {kept} \cup SUBSET (Codes \ (CodesOf(account.primary) \cup spent))
  ELSE {{}}

\* What commit_credential_update asserts: the credential and the passkeys of the
\* session, whatever the account has by now.
Asserted(d, new) ==
  /\ \E passkeys \in BOOLEAN :
       account' = [account EXCEPT !.primary = new, !.passkeys = passkeys]
  /\ updates' = [updates EXCEPT ![d] = NoUpdate]
  /\ spent' = spent \ (CodesOf(new) \ CodesOf(account.primary))

\* A session commits its copy as it was, with its edits, or what it made in its
\* place.  What CredUpdate has of intents and time is left out here.
CommitUpdate(d) ==
  /\ updates[d] # NoUpdate
  /\ \/ \E new \in {updates[d], NoCred} : Asserted(d, new) /\ uuids' = uuids
     \/ \E c \in account.changes : \E codes \in CodeSets(c, CodesOf(updates[d])) :
          /\ EditOf(updates[d], c) /\ uuids' = uuids
          /\ Asserted(d, [c EXCEPT !.codes = codes, !.uuid = updates[d].uuid])
     \/ \E c \in account.changes : \E codes \in CodeSets(c, {}) :
          /\ MadeAfresh(c) /\ uuids < MaxUuid /\ uuids' = uuids + 1
          /\ Asserted(d, [c EXCEPT !.codes = codes, !.uuid = uuids + 1])
  /\ UNCHANGED <<now, sessions, softlocks, locks, tasks, delayed>>

\* generate_account_password and recover_account: a new credential, with a
\* generated password and nothing else.
GeneratePassword ==
  \E c \in account.changes :
    /\ c.type = "generated" /\ uuids < MaxUuid
    /\ uuids' = uuids + 1
    /\ account' = [account EXCEPT !.primary = [c EXCEPT !.codes = {}, !.uuid = uuids + 1]]
    /\ UNCHANGED <<now, sessions, softlocks, locks, tasks, updates, delayed, spent>>

\* process_pwupgrade: only if the password is still the one that was verified.
\* A generated password becomes a plain one (update_password).  The mutant does
\* not compare.
PwUpgradeBlind(acct, d) ==
  IF acct.primary # NoCred /\ acct.primary.type # "webauthn"
  THEN [acct EXCEPT !.primary.old = FALSE, !.primary.pw = d.pw,
                    !.primary.type = IF @ = "generated" THEN "password" ELSE @]
  ELSE acct
PwUpgrade(acct, d) ==
  IF acct.primary # NoCred /\ acct.primary.type # "webauthn" /\ acct.primary.pw = d.pw
  THEN [acct EXCEPT !.primary.old = FALSE,
                    !.primary.type = IF @ = "generated" THEN "password" ELSE @]
  ELSE acct

\* process_backupcoderemoval; the mutant stores the codes as they are.
CodeKept(acct, d) == acct
CodeRemoval(acct, d) ==
  IF acct.primary # NoCred /\ acct.primary.type = "mfa"
  THEN [acct EXCEPT !.primary.codes = @ \ {d.code}] ELSE acct

\* process_unixpwupgrade: the upgraded credential is a new one with a new uuid.
UnixPwUpgrade(acct, d, uuid) ==
  IF acct.unix # NoCred /\ acct.unix.pw = d.pw
  THEN [acct EXCEPT !.unix.old = FALSE, !.unix.uuid = uuid] ELSE acct

\* The delayed action task takes one action and runs it in a write transaction.
ProcessDelayedAction ==
  /\ delayed # <<>>
  /\ delayed' = Tail(delayed)
  /\ LET d == Head(delayed)
     IN /\ account' = CASE d.op = "pwupgrade"     -> PwUpgrade(account, d)
                        [] d.op = "coderemoval"   -> CodeRemoval(account, d)
                        [] d.op = "unixpwupgrade" -> UnixPwUpgrade(account, d, uuids + 1)
        /\ d.op = "unixpwupgrade" => uuids < MaxUuid
        /\ uuids' = IF d.op = "unixpwupgrade" /\ account' # account THEN uuids + 1 ELSE uuids
  /\ UNCHANGED <<now, sessions, softlocks, locks, tasks, updates, spent>>

\* An action fails, or its transaction cannot commit: handle_delayedaction logs
\* it and goes on.
DelayedFails ==
  /\ delayed # <<>>
  /\ delayed' = Tail(delayed)
  /\ spent' = {c \in spent : Head(delayed) # [op |-> "coderemoval", code |-> c]}
  /\ UNCHANGED <<now, account, uuids, sessions, softlocks, locks, tasks, updates>>

RemovalQueued(c) == \E i \in DOMAIN delayed : delayed[i] = [op |-> "coderemoval", code |-> c]

\* The server stops: sessions, locks, copies and the queue are only in memory.
Restart ==
  /\ sessions' = [s \in SessionIds |-> NoSession]
  /\ softlocks' = [u \in Uuids |-> 0]
  /\ locks' = [l \in LockIds |-> Free]
  /\ tasks' = [t \in Tasks |-> Idle]
  /\ updates' = [d \in Updates |-> NoUpdate]
  /\ delayed' = <<>>
  /\ spent' = {c \in spent : ~RemovalQueued(c)}
  /\ UNCHANGED <<now, account, uuids>>

\* A task does not hold its time for longer than Lag.
Tick ==
  /\ now < MaxTime
  /\ \A t \in Tasks : tasks[t] # Idle => tasks[t].ct + Lag > now
  /\ now' = now + 1
  /\ locks' = [l \in LockIds |-> IF locks[l] = Free THEN Free ELSE Aged(locks[l], now')]
  /\ UNCHANGED <<account, uuids, sessions, softlocks, tasks, updates, delayed, spent>>

Next ==
  \/ ExpireAuthSessions \/ GeneratePassword \/ ProcessDelayedAction \/ DelayedFails \/ Restart \/ Tick
  \/ \E s \in SessionIds : AuthInit(s) \/ Cred(s) \/ \E m \in Mechs : Begin(s, m)
  \/ \E t \in Tasks : UnixBegin(t) \/ UnixInsert(t) \/ UnixVerify(t)
  \/ \E d \in Updates : InitUpdate(d) \/ CommitUpdate(d)

Spec == Init /\ [][Next]_vars

-----------------------------------------------------------------------------
(* Properties                                                              *)

\* The variables hold values of their types: among them, the lock a task or
\* the map refers to exists.
TypeOK ==
  /\ now \in 0 .. MaxTime /\ uuids \in Uuids
  /\ \A s \in SessionIds : sessions[s].st \in {"none", "init", "inprogress", "success", "denied"}
  /\ \A u \in Uuids : softlocks[u] # 0 => locks[softlocks[u]] # Free
  /\ \A t \in Tasks : tasks[t].pc = "lock" => locks[tasks[t].lock] # Free

Holding(l) == locks[l] # Free /\ locks[l].policy \in {"password", "totp"}

\* Two failures recorded on one lock are apart: when the second is, the clock
\* has passed the delay of the first or the end of its window (the checks of
\* is_valid in auth and auth_unix, with whatever order requests get the lock
\* in and however old the time they use).
FailuresAreSpaced ==
  [][\A l \in LockIds :
       locks[l] # Free /\ locks'[l] # Free /\ locks'[l].fails > locks[l].fails =>
         locks[l].barrier = -1]_vars

\* In one window of the clock (a day, a totp step) a lock records no more
\* failures than its policy allows; each failure of a request that took its
\* time in the window before can restart the count once.
FailuresAreBounded ==
  \A l \in LockIds :
    Holding(l) => locks[l].fails <= Limit(locks[l].policy) * (1 + locks[l].late)

\* A session that ended as denied or successful stays as it is until it is
\* dropped: no late Begin or Cred step of it, and no lock, changes the verdict.
VerdictIsFinal ==
  [][\A s \in SessionIds :
       sessions[s] # NoSession /\ sessions[s].st \in {"success", "denied"} =>
         \/ sessions'[s] \in {sessions[s], NoSession}
         \/ (sessions[s].started < now - Timeout /\ sessions'[s].st = "init")]_vars

\* A session succeeds only with every factor its mechanism asks for, presented
\* in order: the second factor before the password.
FactorsInOrder ==
  \A s \in SessionIds :
    sessions[s] # NoSession /\ sessions[s].st = "success" =>
      LET a == sessions[s]
      IN IF a.mech = "passwordmfa"
         THEN /\ Len(a.proved) = 2 /\ a.proved[2] = "password"
              /\ a.proved[1] \in {"totp", "securitykey", "backupcode"}
         ELSE Len(a.proved) = 1

\* A delayed password upgrade never changes which password the account has: one
\* that was verified before a password change is dropped after it.
UpgradesKeepThePassword ==
  [][delayed # <<>> /\ delayed' = Tail(delayed) =>
       /\ account.primary # NoCred => account'.primary.pw = account.primary.pw
       /\ account.unix # NoCred => account'.unix.pw = account.unix.pw]_vars

\* A backup code a session accepted is gone from the account or its removal is
\* still queued, whatever updates, upgrades and other sessions do meanwhile,
\* until the server stops before the removal has run, the removal fails, or an
\* update session that copied the code before writes it back
\* (commit_credential_update asserts its copy): from then on, until it is
\* accepted again.
SpentCodesAreRemoved ==
  \A c \in spent : c \in CodesOf(account.primary) => RemovalQueued(c)

\* "Each code in the batch can be used only once" (designs/mfa_backup_code.rst):
\* a code that was accepted and removed is never on the account again.
RemovedCodesStayRemoved ==
  [][\A c \in spent : c \notin CodesOf(account.primary) => c \notin CodesOf(account'.primary)]_vars

=============================================================================
