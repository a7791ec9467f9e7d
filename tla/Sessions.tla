------------------------------ MODULE Sessions ------------------------------
(***************************************************************************)
(* The sessions of one account: user auth tokens (UATs), the OAuth2 tokens *)
(* derived from them, and the records of both on the account's entry.      *)
(*                                                                         *)
(* A token is issued by a read transaction, which cannot write: the record *)
(* of the session is queued as a delayed action and persisted later by one *)
(* background task, in a write transaction of its own.  Until GRACE_WINDOW *)
(* has passed a token is accepted without its record.  Every modify of the *)
(* account runs the session consistency plugin, which removes expired      *)
(* sessions and OAuth2 sessions that have lost their parent.               *)
(***************************************************************************)
EXTENDS Integers, Sequences

CONSTANTS Sids,        \* session ids of user auth tokens
          Oids,        \* session ids of OAuth2 access tokens
          Rs,          \* OAuth2 resource servers
          Grace,       \* GRACE_WINDOW
          UatLife,     \* AUTH_SESSION_EXPIRY
          CodeTtl,     \* life of an authorisation code, 60 s
          ConsentTtl,  \* life of a consent token, 300 s
          MaxTime,     \* bound: the clock stops here
          MaxQueue     \* bound: delayed actions waiting at once

ASSUME TimesAssumption ==
    /\ Grace \in Nat \ {0} /\ UatLife \in Nat \ {0}
    /\ CodeTtl \in Nat /\ ConsentTtl \in Nat /\ MaxTime \in Nat
    /\ MaxQueue \in Nat

VARIABLES
    now,         \* the server's clock, in seconds
    uats,        \* every UserAuthToken issued
    tokens,      \* every OAuth2 access token issued
    codes,       \* authorisation codes that can still be exchanged
    consentReqs, \* consent tokens that can still be permitted
    queue,       \* the delayed action channel
    sessions,    \* the entry: user_auth_token_session
    o2sessions,  \* the entry: oauth2_session
    consents,    \* the entry: oauth2_consent_scope_map
    valid,       \* the entry: within account_valid_from .. account_expire
    servers,     \* resource servers that exist
    destroyed,   \* history: when a session was destroyed, 0 for never
    revoked,     \* history: OAuth2 tokens that were revoked
    lost         \* history: sessions whose record never reached the entry

entry == <<sessions, o2sessions, consents, valid>>
issued == <<uats, tokens>>
grants == <<codes, consentReqs>>
history == <<destroyed, revoked, lost>>
vars == <<now, issued, grants, queue, entry, servers, history>>

Uat == [sid : Sids, issued : Nat, expiry : Nat]
Token == [id : Oids, parent : Sids, rs : Rs, iat : Nat, expiry : Nat]
Grant == [uat : Uat, rs : Rs, at : Nat]
AuthSessionRecord(u) == [kind |-> "AuthSessionRecord", uat |-> u]
Oauth2SessionRecord(t) == [kind |-> "Oauth2SessionRecord", token |-> t]
Oauth2ConsentGrant(r) == [kind |-> "Oauth2ConsentGrant", rs |-> r]
DelayedAction == [kind : {"AuthSessionRecord"}, uat : Uat]
                   \cup [kind : {"Oauth2SessionRecord"}, token : Token]
                   \cup [kind : {"Oauth2ConsentGrant"}, rs : Rs]

Queued(q, d) == \E i \in 1 .. Len(q) : q[i] = d

-----------------------------------------------------------------------------
\* What the server answers about a token, from the entry as it is now.

HasSession(S, sid) == \E u \in S : u.sid = sid

UatValid(u) ==
    /\ now < u.expiry
    /\ valid
    /\ HasSession(sessions, u.sid) \/ now < u.issued + Grace

\* Once past the grace window, both sessions must be recorded; the mutant
\* looks for the token's own one only.
OwnSessionPresent(t) == \E o \in o2sessions : o.id = t.id
Oauth2SessionsPresent(t) ==
    /\ \E o \in o2sessions : o.id = t.id
    /\ HasSession(sessions, t.parent)

TokenActive(t) ==
    /\ t.rs \in servers
    /\ now < t.expiry
    /\ valid
    /\ now >= t.iat + Grace => Oauth2SessionsPresent(t)

\* A fernet token decrypts until its ttl has passed.
Decrypts(g, ttl) == now <= g.at + ttl

-----------------------------------------------------------------------------
\* The session consistency plugin, run by every modify after its modlist.

LiveSessions(S) == {u \in S : now < u.expiry}

LiveOauth2(O, S) ==
    {t \in O : /\ now < t.expiry
               /\ t.iat + Grace <= now => HasSession(S, t.parent)}

\* A modify of the account that leaves it with sessions S, OAuth2 sessions O,
\* consents C and validity V before the plugins run.  Referential integrity
\* refuses none of them: a deleted server is still an entry, in the recycle
\* bin, and the account's membership of idm_all_accounts is a live reference,
\* which is all its inclusion asks for.
ModifyAccount(S, O, C, V) ==
    LET live == LiveSessions(S)
        liveO2 == LiveOauth2(O, live)
    IN  /\ sessions' = live
        /\ o2sessions' = liveO2
        /\ consents' = C
        /\ valid' = V

-----------------------------------------------------------------------------
Init ==
    /\ now = 1
    /\ uats = {} /\ tokens = {}
    /\ codes = {} /\ consentReqs = {}
    /\ queue = <<>>
    /\ sessions = {} /\ o2sessions = {} /\ consents = {} /\ valid = TRUE
    /\ servers = Rs
    /\ destroyed = [s \in Sids |-> 0] /\ revoked = {} /\ lost = {}

\* Time passes; codes and consent tokens past their ttl are forgotten.
Tick ==
    /\ now < MaxTime
    /\ now' = now + 1
    /\ codes' = {c \in codes : now' <= c.at + CodeTtl}
    /\ consentReqs' = {c \in consentReqs : now' <= c.at + ConsentTtl}
    /\ UNCHANGED <<issued, queue, entry, servers, history>>

\* The sender of the delayed action channel; the mutant is not first in,
\* first out.
EnqueueFirst(d) ==
    /\ Len(queue) < MaxQueue
    /\ queue' = <<d>> \o queue
Enqueue(d) ==
    /\ Len(queue) < MaxQueue
    /\ queue' = Append(queue, d)

\* An authentication succeeds: the UAT is issued and its record queued.
IssueUat(s) ==
    /\ ~HasSession(uats, s)
    /\ LET u == [sid |-> s, issued |-> now, expiry |-> now + UatLife]
       IN  /\ uats' = uats \cup {u}
           /\ Enqueue(AuthSessionRecord(u))
    /\ UNCHANGED <<now, tokens, grants, entry, servers, history>>

\* check_oauth2_authorisation: a code at once for scopes already consented
\* to, a consent token otherwise.
Authorise(u, r) ==
    /\ u \in uats /\ UatValid(u)
    /\ r \in servers
    /\ LET g == [uat |-> u, rs |-> r, at |-> now]
       IN  IF r \in consents
           THEN codes' = codes \cup {g} /\ UNCHANGED consentReqs
           ELSE consentReqs' = consentReqs \cup {g} /\ UNCHANGED codes
    /\ UNCHANGED <<now, issued, queue, entry, servers, history>>

\* check_oauth2_authorise_permit: the user consents; the grant is queued.
Permit(c) ==
    /\ c \in consentReqs /\ Decrypts(c, ConsentTtl)
    /\ UatValid(c.uat)
    /\ c.rs \in servers
    /\ codes' = codes \cup {[uat |-> c.uat, rs |-> c.rs, at |-> now]}
    /\ Enqueue(Oauth2ConsentGrant(c.rs))
    /\ UNCHANGED <<now, issued, consentReqs, entry, servers, history>>

\* The expiry of an access token is that of the UAT it is derived from; the
\* mutant starts a new life.
FreshExpiry(u) == now + UatLife
TokenExpiry(u) == u.expiry

\* check_oauth2_token_exchange: the code becomes an access token, whose
\* session is queued.  The code itself is not consumed.
Exchange(c, o) ==
    /\ c \in codes /\ Decrypts(c, CodeTtl)
    /\ c.rs \in servers
    /\ c.uat.expiry > now
    /\ \A t \in tokens : t.id # o
    /\ LET t == [id |-> o, parent |-> c.uat.sid, rs |-> c.rs, iat |-> now,
                 expiry |-> TokenExpiry(c.uat)]
       IN  /\ tokens' = tokens \cup {t}
           /\ Enqueue(Oauth2SessionRecord(t))
    /\ UNCHANGED <<now, uats, grants, entry, servers, history>>

\* The delayed action task takes the oldest action and persists it.
PersistSession(u) ==
    /\ queue # <<>> /\ Head(queue) = AuthSessionRecord(u)
    /\ queue' = Tail(queue)
    /\ ModifyAccount(sessions \cup {u}, o2sessions, consents, valid)
    /\ UNCHANGED <<now, issued, grants, servers, history>>

PersistOauth2(t) ==
    /\ queue # <<>> /\ Head(queue) = Oauth2SessionRecord(t)
    /\ queue' = Tail(queue)
    /\ ModifyAccount(sessions, o2sessions \cup {t}, consents, valid)
    /\ UNCHANGED <<now, issued, grants, servers, history>>

PersistConsent(r) ==
    /\ queue # <<>> /\ Head(queue) = Oauth2ConsentGrant(r)
    /\ queue' = Tail(queue)
    /\ ModifyAccount(sessions, o2sessions, consents \cup {r}, valid)
    /\ UNCHANGED <<now, issued, grants, servers, history>>

\* The sessions whose record is lost with the delayed actions of q.
LostWith(q) ==
    lost \cup {s \in Sids : \E u \in uats :
                 u.sid = s /\ Queued(q, AuthSessionRecord(u))}

\* The modify or the commit fails: the action is logged and dropped.
DelayedFails ==
    /\ queue # <<>>
    /\ queue' = Tail(queue)
    /\ lost' = LostWith(<<Head(queue)>>)
    /\ UNCHANGED <<now, issued, grants, entry, servers, destroyed, revoked>>

\* The filter of account_destroy_session_token: only a recorded session can
\* be destroyed.  The mutant takes any session that was issued.
MayDestroyIssued(u) == u \in uats
MayDestroy(u) == u \in sessions

\* account_destroy_session_token
Destroy(u) ==
    /\ MayDestroy(u)
    /\ ModifyAccount(sessions \ {u}, o2sessions, consents, valid)
    /\ destroyed' = [destroyed EXCEPT ![u.sid] = now]
    /\ UNCHANGED <<now, issued, grants, queue, servers, revoked, lost>>

\* oauth2_token_revoke by the resource server: no recorded session is needed.
Revoke(t) ==
    /\ t \in tokens
    /\ t.rs \in servers
    /\ now < t.expiry
    /\ ModifyAccount(sessions, {o \in o2sessions : o.id # t.id},
                     consents, valid)
    /\ revoked' = revoked \cup {t}
    /\ UNCHANGED <<now, issued, grants, queue, servers, destroyed, lost>>

\* Any other modify of the account, one of its validity included.
ModifyOther ==
    /\ \E v \in BOOLEAN : ModifyAccount(sessions, o2sessions, consents, v)
    /\ UNCHANGED <<now, issued, grants, queue, servers, history>>

\* A resource server is deleted: referential integrity removes what names it.
DeleteServer(r) ==
    /\ r \in servers
    /\ servers' = servers \ {r}
    /\ o2sessions' = {t \in o2sessions : t.rs # r}
    /\ consents' = consents \ {r}
    /\ UNCHANGED <<now, issued, grants, queue, sessions, valid, history>>

\* The process restarts: the channel is lost, and so is the key of the
\* consent tokens.
Restart ==
    /\ queue' = <<>>
    /\ lost' = LostWith(queue)
    /\ consentReqs' = {}
    /\ UNCHANGED <<now, issued, codes, entry, servers, destroyed, revoked>>

Next ==
    \/ Tick
    \/ \E s \in Sids : IssueUat(s)
    \/ \E u \in uats, r \in Rs : Authorise(u, r)
    \/ \E c \in consentReqs : Permit(c)
    \/ \E c \in codes, o \in Oids : Exchange(c, o)
    \/ \E u \in uats : PersistSession(u)
    \/ \E t \in tokens : PersistOauth2(t)
    \/ \E r \in Rs : PersistConsent(r)
    \/ DelayedFails
    \/ \E u \in uats : Destroy(u)
    \/ \E t \in tokens : Revoke(t)
    \/ ModifyOther
    \/ \E r \in Rs : DeleteServer(r)
    \/ Restart

Spec == Init /\ [][Next]_vars

-----------------------------------------------------------------------------
\* Properties.

\* Every variable keeps its type.
TypeOK ==
    /\ now \in Nat
    /\ uats \subseteq Uat /\ tokens \subseteq Token
    /\ codes \subseteq Grant /\ consentReqs \subseteq Grant
    /\ queue \in Seq(DelayedAction)
    /\ sessions \subseteq uats /\ o2sessions \subseteq tokens
    /\ consents \subseteq Rs /\ valid \in BOOLEAN
    /\ servers \subseteq Rs
    /\ destroyed \in [Sids -> Nat] /\ revoked \subseteq tokens
    /\ lost \subseteq Sids

\* A destroyed session is never accepted again once its grace window has
\* passed: no delayed record, retry or later modify brings it back
\* (account_destroy_session_token, process_authsessionrecord).
DestroyIsFinal ==
    \A u \in uats :
        destroyed[u.sid] # 0 /\ now >= u.issued + Grace => ~UatValid(u)

\* The last instant at which a destroyed session can still authorise.
LastUse(u) ==
    IF destroyed[u.sid] >= u.issued + Grace
    THEN destroyed[u.sid] ELSE u.issued + Grace - 1

\* Destroying a session ends every OAuth2 token derived from it, however its
\* codes, exchanges and records interleave with the destruction: after the
\* session's own last use, one code life and one more grace window, none is
\* active (check_oauth2_account_uuid_valid, the session consistency plugin).
DestroyCascades ==
    \A u \in uats, t \in tokens :
        /\ t.parent = u.sid
        /\ destroyed[u.sid] # 0
        /\ now >= LastUse(u) + CodeTtl + Grace
        => ~TokenActive(t)

\* An active OAuth2 token never outlives the user auth token it came from
\* (the expiry copied by check_oauth2_token_exchange_authorization_code).
TokensEndWithParent ==
    \A u \in uats, t \in tokens :
        t.parent = u.sid /\ TokenActive(t) => now < u.expiry

\* A step removes no record of a live session: a UAT record leaves the entry
\* only when it is destroyed or expired, an OAuth2 record only when it is
\* revoked or expired, its server is deleted, or its parent is gone.
RecordsStay ==
    /\ \A u \in sessions \ sessions' :
         destroyed'[u.sid] # 0 \/ now >= u.expiry
    /\ \A t \in o2sessions \ o2sessions' :
         \/ t \in revoked' \/ now >= t.expiry \/ t.rs \notin servers'
         \/ destroyed'[t.parent] # 0 \/ t.parent \in lost

\* The records of a live session stay.  In particular the plugin never takes
\* an OAuth2 session for an orphan because the record of its parent is still
\* queued (the order of the delayed action channel).
LiveRecordsStay == [][RecordsStay]_vars

=============================================================================
