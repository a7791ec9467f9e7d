--------------------------- MODULE SessionsProofs ---------------------------
(***************************************************************************)
(* Proofs, for every set of sessions, tokens and servers and every choice  *)
(* of the time windows, of the safety properties of module Sessions.       *)
(***************************************************************************)
EXTENDS Sessions, TLAPS

(* The provers to try on a step, in order, and the time each one has. *)
USE ZenonT(5), SMTT(30), SMTT(60), ZenonT(30), SMTT(90)

\* The inductive invariant.  DestroyIsFinal is not inductive: it has to be
\* known that a destroyed session has no record left in the queue, hence that
\* a record is queued once and never beside its persisted copy.
\* DestroyCascades needs in addition how late a code, and a token exchanged
\* for it, can be.

UniqueUats == \A u, v \in uats : u.sid = v.sid => u = v

UniqueTokens == \A t, o \in tokens : t.id = o.id => t = o

QueueIssued ==
    \A i \in 1 .. Len(queue) :
        /\ queue[i].kind = "AuthSessionRecord" => queue[i].uat \in uats
        /\ queue[i].kind = "Oauth2SessionRecord" => queue[i].token \in tokens

QueuedOnce ==
    \A u \in uats : \A i, j \in 1 .. Len(queue) :
        queue[i] = AuthSessionRecord(u) /\ queue[j] = AuthSessionRecord(u)
        => i = j

QueuedFresh ==
    \A u \in uats : \A i \in 1 .. Len(queue) :
        queue[i] = AuthSessionRecord(u)
        => u \notin sessions /\ destroyed[u.sid] = 0

DestroyedGone ==
    \A u \in uats : destroyed[u.sid] # 0
                    => u \notin sessions /\ destroyed[u.sid] <= now

NotIssued ==
    \A s \in Sids : (\A u \in uats : u.sid # s) => destroyed[s] = 0

GrantsBounded ==
    /\ \A c \in consentReqs : c.uat \in uats
    /\ \A c \in codes :
         /\ c.uat \in uats
         /\ c.at <= now
         /\ destroyed[c.uat.sid] # 0 => c.at <= LastUse(c.uat)

TokenBounded(t) ==
    /\ t.iat <= now
    /\ \E u \in uats :
         /\ u.sid = t.parent
         /\ t.expiry = u.expiry
         /\ destroyed[u.sid] # 0 => t.iat <= LastUse(u) + CodeTtl

TokensBounded == \A t \in tokens : TokenBounded(t)

IInv ==
    /\ TypeOK
    /\ UniqueUats
    /\ UniqueTokens
    /\ QueueIssued
    /\ QueuedOnce
    /\ QueuedFresh
    /\ DestroyedGone
    /\ NotIssued
    /\ GrantsBounded
    /\ TokensBounded

-----------------------------------------------------------------------------
\* Sequences and delayed actions.

\* Taking the head of a queue shifts the rest by one.
LEMMA TailFacts ==
    ASSUME NEW D, NEW q \in Seq(D), q # <<>>
    PROVE  /\ Tail(q) \in Seq(D)
           /\ Len(q) \in Nat /\ Len(q) > 0
           /\ Len(Tail(q)) = Len(q) - 1
           /\ \A i \in 1 .. Len(q) - 1 : Tail(q)[i] = q[i + 1]
           /\ Head(q) = q[1]
  OBVIOUS

\* Appending to a queue leaves what is in it and adds a last element.
LEMMA AppendFacts ==
    ASSUME NEW D, NEW q \in Seq(D), NEW d \in D
    PROVE  /\ Append(q, d) \in Seq(D)
           /\ Len(q) \in Nat
           /\ Len(Append(q, d)) = Len(q) + 1
           /\ \A i \in 1 .. Len(q) : Append(q, d)[i] = q[i]
           /\ Append(q, d)[Len(q) + 1] = d
  OBVIOUS

\* Delayed actions of different kinds differ, and so do those of different
\* sessions.
LEMMA RecordsDiffer ==
    /\ \A u, v : AuthSessionRecord(u) = AuthSessionRecord(v) => u = v
    /\ \A t, o : Oauth2SessionRecord(t) = Oauth2SessionRecord(o) => t = o
    /\ \A u, t : AuthSessionRecord(u) # Oauth2SessionRecord(t)
    /\ \A u, r : AuthSessionRecord(u) # Oauth2ConsentGrant(r)
    /\ \A t, r : Oauth2SessionRecord(t) # Oauth2ConsentGrant(r)
<1>1. \A u, v : AuthSessionRecord(u) = AuthSessionRecord(v) => u = v
  <2>1. \A u : AuthSessionRecord(u).uat = u
    BY DEF AuthSessionRecord
  <2> QED BY <2>1
<1>2. \A t, o : Oauth2SessionRecord(t) = Oauth2SessionRecord(o) => t = o
  <2>1. \A t : Oauth2SessionRecord(t).token = t
    BY DEF Oauth2SessionRecord
  <2> QED BY <2>1
<1>3. /\ \A u : AuthSessionRecord(u).kind = "AuthSessionRecord"
      /\ \A t : Oauth2SessionRecord(t).kind = "Oauth2SessionRecord"
      /\ \A r : Oauth2ConsentGrant(r).kind = "Oauth2ConsentGrant"
  BY DEF AuthSessionRecord, Oauth2SessionRecord, Oauth2ConsentGrant
<1>4. /\ "AuthSessionRecord" # "Oauth2SessionRecord"
      /\ "AuthSessionRecord" # "Oauth2ConsentGrant"
      /\ "Oauth2SessionRecord" # "Oauth2ConsentGrant"
  OBVIOUS
<1> QED BY <1>1, <1>2, <1>3, <1>4

\* The fields of a queued session.
LEMMA RecordFields ==
    /\ \A u : /\ AuthSessionRecord(u).kind = "AuthSessionRecord"
              /\ AuthSessionRecord(u).uat = u
    /\ \A t : /\ Oauth2SessionRecord(t).kind = "Oauth2SessionRecord"
              /\ Oauth2SessionRecord(t).token = t
    /\ \A r : Oauth2ConsentGrant(r).kind = "Oauth2ConsentGrant"
  BY DEF AuthSessionRecord, Oauth2SessionRecord, Oauth2ConsentGrant

\* Each constructor builds a delayed action.
LEMMA RecordsTyped ==
    /\ \A u \in Uat : AuthSessionRecord(u) \in DelayedAction
    /\ \A t \in Token : Oauth2SessionRecord(t) \in DelayedAction
    /\ \A r \in Rs : Oauth2ConsentGrant(r) \in DelayedAction
  BY DEF AuthSessionRecord, Oauth2SessionRecord, Oauth2ConsentGrant,
         DelayedAction

\* What a modify of the account can leave on the entry.
LEMMA ModifyShrinks ==
    ASSUME NEW S, NEW O, NEW C, NEW V, ModifyAccount(S, O, C, V)
    PROVE  /\ sessions' = LiveSessions(S) /\ sessions' \subseteq S
           /\ o2sessions' = LiveOauth2(O, LiveSessions(S))
           /\ o2sessions' \subseteq O
           /\ consents' = C /\ valid' = V
  BY DEF ModifyAccount, LiveSessions, LiveOauth2

-----------------------------------------------------------------------------
\* The invariant is inductive.

\* An account without sessions satisfies the invariant.
LEMMA InitIInv == Init => IInv
<1> SUFFICES ASSUME Init PROVE IInv
  OBVIOUS
<1>1. queue = <<>> /\ Len(queue) = 0
  BY DEF Init
<1>2. TypeOK
  BY <1>1 DEF Init, TypeOK
<1> QED
  BY <1>1, <1>2 DEF Init, IInv, UniqueUats, UniqueTokens, QueueIssued,
     QueuedOnce, QueuedFresh, DestroyedGone, NotIssued, GrantsBounded, TokensBounded

\* The delayed actions left are some of those that were queued.
Shift(k) ==
    /\ Len(queue') <= Len(queue) - k
    /\ \A i \in 1 .. Len(queue') : queue'[i] = queue[i + k]

\* Steps that issue nothing, destroy nothing and persist no session.
LEMMA QuietPreserves ==
    ASSUME IInv, TypeOK', now <= now',
           uats' = uats, tokens' = tokens, destroyed' = destroyed,
           codes' \subseteq codes, consentReqs' \subseteq consentReqs,
           sessions' \subseteq sessions,
           NEW k \in {0, 1}, Shift(k)
    PROVE  IInv'
<1> USE DEF IInv
<1>1. now \in Nat /\ now' \in Nat /\ Len(queue) \in Nat /\ Len(queue') \in Nat
  BY DEF TypeOK
<1>2. \A i \in 1 .. Len(queue') : i + k \in 1 .. Len(queue)
  BY <1>1 DEF Shift
<1>3. UniqueUats' /\ UniqueTokens'
  BY DEF UniqueUats, UniqueTokens
<1>10. QueueIssued'
  BY <1>2 DEF QueueIssued, Shift
<1>4. QueuedOnce'
  <2> SUFFICES ASSUME NEW u \in uats, NEW i \in 1 .. Len(queue'),
                      NEW j \in 1 .. Len(queue'),
                      queue'[i] = AuthSessionRecord(u),
                      queue'[j] = AuthSessionRecord(u)
               PROVE  i = j
    BY DEF QueuedOnce, AuthSessionRecord
  <2>1. queue[i + k] = AuthSessionRecord(u) /\ queue[j + k] = AuthSessionRecord(u)
    BY DEF Shift
  <2>2. i + k = j + k
    BY <1>2, <2>1 DEF QueuedOnce
  <2> QED BY <1>1, <2>2
<1>5. QueuedFresh'
  <2> SUFFICES ASSUME NEW u \in uats, NEW i \in 1 .. Len(queue'),
                      queue'[i] = AuthSessionRecord(u)
               PROVE  u \notin sessions' /\ destroyed'[u.sid] = 0
    BY DEF QueuedFresh, AuthSessionRecord
  <2>1. queue[i + k] = AuthSessionRecord(u)
    BY DEF Shift
  <2> QED BY <1>2, <2>1 DEF QueuedFresh
<1>6. DestroyedGone'
  <2> SUFFICES ASSUME NEW u \in uats, destroyed[u.sid] # 0
               PROVE  u \notin sessions' /\ destroyed[u.sid] <= now'
    BY DEF DestroyedGone
  <2>1. u.sid \in Sids /\ destroyed[u.sid] \in Nat
    BY DEF TypeOK, Uat
  <2> QED BY <1>1, <2>1 DEF DestroyedGone
<1>7. NotIssued'
  BY DEF NotIssued
<1>8. GrantsBounded'
  <2>1. \A c \in consentReqs' : c.uat \in uats'
    BY DEF GrantsBounded
  <2>2. ASSUME NEW c \in codes'
        PROVE  /\ c.uat \in uats' /\ c.at <= now'
               /\ destroyed'[c.uat.sid] # 0 => c.at <= LastUse(c.uat)'
    <3>1. c \in codes /\ c.at \in Nat
      BY DEF TypeOK, Grant
    <3>2. c.uat \in uats /\ c.at <= now
          /\ (destroyed[c.uat.sid] # 0 => c.at <= LastUse(c.uat))
      BY <3>1 DEF GrantsBounded
    <3>3. LastUse(c.uat)' = LastUse(c.uat)
      BY DEF LastUse
    <3> QED BY <1>1, <3>1, <3>2, <3>3
  <2> QED BY <2>1, <2>2 DEF GrantsBounded
<1>9. TokensBounded'
  <2> SUFFICES ASSUME NEW t \in tokens PROVE TokenBounded(t)'
    BY DEF TokensBounded
  <2>1. TokenBounded(t) /\ t.iat \in Nat
    BY DEF TokensBounded, TypeOK, Token
  <2>2. \A u : LastUse(u)' = LastUse(u)
    BY DEF LastUse
  <2> QED BY <1>1, <2>1, <2>2 DEF TokenBounded
<1> QED
  BY <1>3, <1>4, <1>5, <1>6, <1>7, <1>8, <1>9, <1>10

\* An issued session is new: nothing is known of it but its queued record.
LEMMA IssuePreserves ==
    ASSUME IInv, NEW s \in Sids, IssueUat(s)
    PROVE  IInv'
<1> DEFINE u == [sid |-> s, issued |-> now, expiry |-> now + UatLife]
           d == AuthSessionRecord(u)
<1>1. /\ uats' = uats \cup {u} /\ queue' = Append(queue, d)
      /\ UNCHANGED <<now, tokens, codes, consentReqs, sessions, o2sessions,
                     consents, valid, servers, destroyed, revoked, lost>>
  BY DEF IssueUat, Enqueue, grants, entry, history
<1>2. TypeOK /\ now \in Nat
  BY DEF IInv, TypeOK
<1>3. u \in Uat /\ u.sid = s /\ u.issued = now
  BY <1>2, TimesAssumption DEF Uat
<1>4. \A v \in uats : v.sid # s
  BY DEF IssueUat, HasSession
<1> HIDE DEF u
<1>5. d \in DelayedAction
  BY <1>3, RecordsTyped
<1>6. queue \in Seq(DelayedAction)
  BY <1>2 DEF TypeOK
<1> HIDE DEF d
<1>7. /\ queue' \in Seq(DelayedAction) /\ Len(queue) \in Nat
      /\ Len(queue') = Len(queue) + 1
      /\ \A i \in 1 .. Len(queue) : queue'[i] = queue[i]
      /\ queue'[Len(queue) + 1] = d
  BY <1>1, <1>5, <1>6, AppendFacts
<1>8. TypeOK'
  BY <1>1, <1>2, <1>3, <1>7 DEF TypeOK
<1>9. u \notin uats /\ u \notin sessions /\ destroyed[s] = 0
  BY <1>2, <1>3, <1>4 DEF IInv, TypeOK, NotIssued
<1>10. \A i \in 1 .. Len(queue) : queue[i] # d
  BY <1>9, RecordFields DEF IInv, QueueIssued, d
<1>11. \A i \in 1 .. Len(queue') :
          \/ i \in 1 .. Len(queue) /\ queue'[i] = queue[i]
          \/ i = Len(queue) + 1 /\ queue'[i] = d
  BY <1>7
<1>12. \A v \in uats : AuthSessionRecord(v) # d
  BY <1>9, RecordsDiffer DEF d
<1>13. UniqueUats' /\ UniqueTokens'
  BY <1>1, <1>3, <1>4 DEF IInv, UniqueUats, UniqueTokens
<1>14. QueueIssued'
  <2>1. d.kind = "AuthSessionRecord" /\ d.uat = u
    BY RecordFields DEF d
  <2> QED BY <1>1, <1>11, <2>1 DEF IInv, QueueIssued
<1>15. QueuedOnce'
  <2> SUFFICES ASSUME NEW v \in uats', NEW i \in 1 .. Len(queue'),
                      NEW j \in 1 .. Len(queue'),
                      queue'[i] = AuthSessionRecord(v),
                      queue'[j] = AuthSessionRecord(v)
               PROVE  i = j
    BY DEF QueuedOnce, AuthSessionRecord
  <2>1. CASE v \in uats
    BY <1>11, <1>12, <2>1 DEF IInv, QueuedOnce
  <2>2. CASE v = u
    BY <1>10, <1>11, <2>2 DEF d
  <2> QED BY <1>1, <2>1, <2>2
<1>16. QueuedFresh'
  <2> SUFFICES ASSUME NEW v \in uats', NEW i \in 1 .. Len(queue'),
                      queue'[i] = AuthSessionRecord(v)
               PROVE  v \notin sessions' /\ destroyed'[v.sid] = 0
    BY DEF QueuedFresh, AuthSessionRecord
  <2>1. CASE v \in uats
    BY <1>1, <1>11, <1>12, <2>1 DEF IInv, QueuedFresh
  <2>2. CASE v = u
    BY <1>1, <1>3, <1>9, <2>2
  <2> QED BY <1>1, <2>1, <2>2
<1>17. DestroyedGone' /\ NotIssued'
  BY <1>1, <1>3, <1>9 DEF IInv, DestroyedGone, NotIssued
<1>18. GrantsBounded'
  BY <1>1 DEF IInv, GrantsBounded, LastUse
<1>19. TokensBounded'
  BY <1>1 DEF IInv, TokensBounded, TokenBounded, LastUse
<1> QED
  BY <1>8, <1>13, <1>14, <1>15, <1>16, <1>17, <1>18, <1>19 DEF IInv

\* A destroyed session authorises only within its own grace window.
LEMMA ValidUse ==
    ASSUME IInv, NEW u \in uats, UatValid(u), destroyed[u.sid] # 0
    PROVE  now <= LastUse(u)
<1>1. ~HasSession(sessions, u.sid)
  BY DEF IInv, TypeOK, UniqueUats, DestroyedGone, HasSession
<1>2. now < u.issued + Grace
  BY <1>1 DEF UatValid
<1>3. now \in Nat /\ u.issued \in Nat /\ destroyed[u.sid] \in Nat
  BY DEF IInv, TypeOK, Uat
<1> QED BY <1>2, <1>3, TimesAssumption DEF LastUse

\* check_oauth2_authorisation keeps the invariant.
LEMMA AuthorisePreserves ==
    ASSUME IInv, NEW u \in uats, NEW r \in Rs, Authorise(u, r)
    PROVE  IInv'
<1> DEFINE g == [uat |-> u, rs |-> r, at |-> now]
<1>1. UNCHANGED <<now, uats, tokens, queue, sessions, o2sessions, consents,
                  valid, servers, destroyed, revoked, lost>>
  BY DEF Authorise, issued, entry, history
<1>2. g \in Grant /\ g.uat = u /\ g.at = now
  BY DEF IInv, TypeOK, Grant
<1>3. /\ codes' \subseteq codes \cup {g}
      /\ consentReqs' \subseteq consentReqs \cup {g}
  BY DEF Authorise
<1> HIDE DEF g
<1>4. TypeOK'
  BY <1>1, <1>2, <1>3 DEF IInv, TypeOK
<1>5. GrantsBounded'
  <2>1. destroyed[u.sid] # 0 => now <= LastUse(u)
    BY ValidUse DEF Authorise
  <2>2. now <= now
    BY DEF IInv, TypeOK
  <2>3. \A v : LastUse(v)' = LastUse(v)
    BY <1>1 DEF LastUse
  <2> QED BY <1>1, <1>2, <1>3, <2>1, <2>2, <2>3 DEF IInv, GrantsBounded
<1> QED
  BY <1>1, <1>4, <1>5 DEF IInv, UniqueUats, UniqueTokens, QueueIssued,
     QueuedOnce, QueuedFresh, DestroyedGone, NotIssued, TokensBounded,
     TokenBounded, LastUse, AuthSessionRecord

\* Queueing anything but a session record leaves the session records alone.
LEMMA AppendOther ==
    ASSUME IInv, NEW d \in DelayedAction, queue' = Append(queue, d),
           d.kind # "AuthSessionRecord",
           d.kind = "Oauth2SessionRecord" => d.token \in tokens',
           tokens \subseteq tokens', uats' = uats,
           sessions' = sessions, destroyed' = destroyed
    PROVE  /\ queue' \in Seq(DelayedAction)
           /\ QueueIssued' /\ QueuedOnce' /\ QueuedFresh'
<1>1. /\ queue' \in Seq(DelayedAction) /\ Len(queue) \in Nat
      /\ Len(queue') = Len(queue) + 1
      /\ \A i \in 1 .. Len(queue) : queue'[i] = queue[i]
      /\ queue'[Len(queue) + 1] = d
  <2>1. queue \in Seq(DelayedAction)
    BY DEF IInv, TypeOK
  <2> QED BY <2>1, AppendFacts
<1>2. \A i \in 1 .. Len(queue') :
          \/ i \in 1 .. Len(queue) /\ queue'[i] = queue[i]
          \/ i = Len(queue) + 1 /\ queue'[i] = d
  BY <1>1
<1>3. \A u : AuthSessionRecord(u) # d
  BY RecordFields
<1>4. QueueIssued'
  BY <1>2 DEF IInv, QueueIssued
<1>5. QueuedOnce'
  <2> SUFFICES ASSUME NEW v \in uats, NEW i \in 1 .. Len(queue'),
                      NEW j \in 1 .. Len(queue'),
                      queue'[i] = AuthSessionRecord(v),
                      queue'[j] = AuthSessionRecord(v)
               PROVE  i = j
    BY DEF QueuedOnce, AuthSessionRecord
  <2> QED BY <1>2, <1>3 DEF IInv, QueuedOnce
<1>6. QueuedFresh'
  <2> SUFFICES ASSUME NEW v \in uats, NEW i \in 1 .. Len(queue'),
                      queue'[i] = AuthSessionRecord(v)
               PROVE  v \notin sessions' /\ destroyed'[v.sid] = 0
    BY DEF QueuedFresh, AuthSessionRecord
  <2> QED BY <1>2, <1>3 DEF IInv, QueuedFresh
<1> QED BY <1>1, <1>4, <1>5, <1>6

\* check_oauth2_authorise_permit keeps the invariant.
LEMMA PermitPreserves ==
    ASSUME IInv, NEW c \in consentReqs, Permit(c)
    PROVE  IInv'
<1> DEFINE g == [uat |-> c.uat, rs |-> c.rs, at |-> now]
           d == Oauth2ConsentGrant(c.rs)
<1>1. /\ codes' = codes \cup {g} /\ queue' = Append(queue, d)
      /\ UNCHANGED <<now, uats, tokens, consentReqs, sessions, o2sessions,
                     consents, valid, servers, destroyed, revoked, lost>>
  BY DEF Permit, Enqueue, issued, entry, history
<1>2. c \in Grant /\ c.uat \in uats /\ now \in Nat
  BY DEF IInv, TypeOK, GrantsBounded
<1>3. g \in Grant /\ g.uat = c.uat /\ g.at = now
  BY <1>2 DEF Grant
<1>4. d \in DelayedAction /\ d.kind = "Oauth2ConsentGrant"
  BY <1>2, RecordsTyped, RecordFields DEF Grant
<1> HIDE DEF g, d
<1>5. queue' \in Seq(DelayedAction) /\ QueueIssued' /\ QueuedOnce' /\ QueuedFresh'
  BY <1>1, <1>4, AppendOther
<1>6. TypeOK'
  BY <1>1, <1>3, <1>5 DEF IInv, TypeOK
<1>7. GrantsBounded'
  <2>1. destroyed[c.uat.sid] # 0 => now <= LastUse(c.uat)
    BY <1>2, ValidUse DEF Permit
  <2>2. now <= now
    BY <1>2
  <2>3. \A v : LastUse(v)' = LastUse(v)
    BY <1>1 DEF LastUse
  <2> QED BY <1>1, <1>2, <1>3, <2>1, <2>2, <2>3 DEF IInv, GrantsBounded
<1> QED
  BY <1>1, <1>5, <1>6, <1>7 DEF IInv, UniqueUats, UniqueTokens,
     DestroyedGone, NotIssued, TokensBounded, TokenBounded, LastUse

\* An exchange comes at most one code life after the session's last use.
LEMMA ExchangePreserves ==
    ASSUME IInv, NEW c \in codes, NEW o \in Oids, Exchange(c, o)
    PROVE  IInv'
<1>0. PICK t : t = [id |-> o, parent |-> c.uat.sid, rs |-> c.rs, iat |-> now,
                    expiry |-> TokenExpiry(c.uat)]
  BY Zenon
<1> DEFINE d == Oauth2SessionRecord(t)
<1>1. /\ tokens' = tokens \cup {t} /\ queue' = Append(queue, d)
      /\ UNCHANGED <<now, uats, codes, consentReqs, sessions, o2sessions,
                     consents, valid, servers, destroyed, revoked, lost>>
  BY <1>0 DEF Exchange, Enqueue, grants, entry, history
<1>2. c \in Grant /\ c.uat \in uats /\ c.uat \in Uat /\ now \in Nat
  BY DEF IInv, TypeOK, GrantsBounded
<1>3. /\ t \in Token /\ t.id = o /\ t.parent = c.uat.sid /\ t.iat = now
      /\ t.expiry = c.uat.expiry
  BY <1>0, <1>2 DEF Token, Grant, Uat, TokenExpiry
<1>4. d \in DelayedAction /\ d.kind = "Oauth2SessionRecord" /\ d.token = t
  BY <1>3, RecordsTyped, RecordFields
<1> HIDE DEF d
<1>5. queue' \in Seq(DelayedAction) /\ QueueIssued' /\ QueuedOnce' /\ QueuedFresh'
  BY <1>1, <1>4, AppendOther
<1>6. TypeOK'
  BY <1>1, <1>3, <1>5 DEF IInv, TypeOK
<1>7. UniqueTokens'
  <2>1. \A p \in tokens : p.id # o
    BY DEF Exchange
  <2> QED BY <1>1, <1>3, <2>1 DEF IInv, UniqueTokens
<1>8. TokensBounded'
  <2>1. \A v : LastUse(v)' = LastUse(v)
    BY <1>1 DEF LastUse
  <2>2. \A p \in tokens : TokenBounded(p)'
    BY <1>1, <2>1 DEF IInv, TokensBounded, TokenBounded
  <2>3. destroyed[c.uat.sid] # 0 => now <= LastUse(c.uat) + CodeTtl
    <3>1. now <= c.at + CodeTtl
      BY DEF Exchange, Decrypts
    <3>2. destroyed[c.uat.sid] # 0 => c.at <= LastUse(c.uat)
      BY DEF IInv, GrantsBounded
    <3>3. c.at \in Nat /\ LastUse(c.uat) \in Int
      BY <1>2, TimesAssumption DEF IInv, TypeOK, Grant, Uat, LastUse
    <3> QED BY <1>2, <3>1, <3>2, <3>3, TimesAssumption
  <2>4. now <= now
    BY <1>2
  <2>5. TokenBounded(t)'
    BY <1>1, <1>2, <1>3, <2>1, <2>3, <2>4 DEF TokenBounded
  <2> QED BY <1>1, <2>2, <2>5 DEF TokensBounded
<1> QED
  BY <1>1, <1>5, <1>6, <1>7, <1>8 DEF IInv, UniqueUats, DestroyedGone,
     NotIssued, GrantsBounded, LastUse

\* A record is persisted once, before its session can be destroyed.
LEMMA PersistSessionPreserves ==
    ASSUME IInv, NEW u \in uats, PersistSession(u)
    PROVE  IInv'
<1>1. /\ queue # <<>> /\ Head(queue) = AuthSessionRecord(u)
      /\ queue' = Tail(queue)
      /\ UNCHANGED <<now, uats, tokens, codes, consentReqs, servers,
                     destroyed, revoked, lost>>
  BY DEF PersistSession, issued, grants, history
<1>2. /\ sessions' \subseteq sessions \cup {u} /\ o2sessions' \subseteq o2sessions
      /\ consents' = consents /\ valid' = valid
  BY ModifyShrinks DEF PersistSession
<1>3. /\ queue' \in Seq(DelayedAction) /\ Len(queue) \in Nat /\ Len(queue) > 0
      /\ Len(queue') = Len(queue) - 1
      /\ \A i \in 1 .. Len(queue') : queue'[i] = queue[i + 1]
      /\ queue[1] = AuthSessionRecord(u)
  <2>1. queue \in Seq(DelayedAction)
    BY DEF IInv, TypeOK
  <2> QED BY <1>1, <2>1, TailFacts
<1>4. \A i \in 1 .. Len(queue') : i + 1 \in 1 .. Len(queue)
  BY <1>3
<1>5. 1 \in 1 .. Len(queue)
  BY <1>3
<1>6. u \notin sessions /\ destroyed[u.sid] = 0
  BY <1>3, <1>5 DEF IInv, QueuedFresh
<1>7. \A i \in 1 .. Len(queue') : queue'[i] # AuthSessionRecord(u)
  <2> SUFFICES ASSUME NEW i \in 1 .. Len(queue'),
                      queue'[i] = AuthSessionRecord(u)
               PROVE  FALSE
    OBVIOUS
  <2>1. queue[i + 1] = AuthSessionRecord(u)
    BY <1>3
  <2>2. i + 1 = 1
    BY <1>3, <1>4, <1>5, <2>1 DEF IInv, QueuedOnce
  <2> QED BY <2>2
<1>8. TypeOK'
  BY <1>1, <1>2, <1>3 DEF IInv, TypeOK
<1>9. QueueIssued'
  BY <1>1, <1>3, <1>4 DEF IInv, QueueIssued
<1>10. QueuedOnce'
  <2> SUFFICES ASSUME NEW v \in uats, NEW i \in 1 .. Len(queue'),
                      NEW j \in 1 .. Len(queue'),
                      queue'[i] = AuthSessionRecord(v),
                      queue'[j] = AuthSessionRecord(v)
               PROVE  i = j
    BY <1>1 DEF QueuedOnce, AuthSessionRecord
  <2>1. queue[i + 1] = AuthSessionRecord(v) /\ queue[j + 1] = AuthSessionRecord(v)
    BY <1>3
  <2>2. i + 1 = j + 1
    BY <1>4, <2>1 DEF IInv, QueuedOnce
  <2> QED BY <1>3, <2>2
<1>11. QueuedFresh'
  <2> SUFFICES ASSUME NEW v \in uats, NEW i \in 1 .. Len(queue'),
                      queue'[i] = AuthSessionRecord(v)
               PROVE  v \notin sessions' /\ destroyed'[v.sid] = 0
    BY <1>1 DEF QueuedFresh, AuthSessionRecord
  <2>1. v # u
    BY <1>7
  <2>2. queue[i + 1] = AuthSessionRecord(v)
    BY <1>3
  <2>3. v \notin sessions /\ destroyed[v.sid] = 0
    BY <1>4, <2>2 DEF IInv, QueuedFresh
  <2> QED BY <1>1, <1>2, <2>1, <2>3
<1>12. DestroyedGone'
  BY <1>1, <1>2, <1>6 DEF IInv, DestroyedGone
<1> QED
  BY <1>1, <1>8, <1>9, <1>10, <1>11, <1>12 DEF IInv, UniqueUats,
     UniqueTokens, NotIssued, GrantsBounded, TokensBounded, TokenBounded, LastUse

\* A destroyed session has no record left, queued or persisted; every code
\* and token it gave rise to is no later than now.
LEMMA DestroyPreserves ==
    ASSUME IInv, NEW u \in uats, Destroy(u)
    PROVE  IInv'
<1>1. /\ u \in sessions
      /\ destroyed' = [destroyed EXCEPT ![u.sid] = now]
      /\ UNCHANGED <<now, uats, tokens, codes, consentReqs, queue, servers,
                     revoked, lost>>
  BY DEF Destroy, MayDestroy, issued, grants
<1>2. /\ sessions' \subseteq sessions \ {u} /\ o2sessions' \subseteq o2sessions
      /\ consents' = consents /\ valid' = valid
  BY ModifyShrinks DEF Destroy
<1>3. /\ now \in Nat /\ u \in Uat /\ u.sid \in Sids /\ u.issued \in Nat
      /\ destroyed \in [Sids -> Nat]
  BY DEF IInv, TypeOK, Uat
<1>4. /\ destroyed' \in [Sids -> Nat] /\ destroyed'[u.sid] = now
      /\ \A s \in Sids : s # u.sid => destroyed'[s] = destroyed[s]
  BY <1>1, <1>3
<1>5. \A v \in uats : v.sid \in Sids /\ (v = u \/ v.sid # u.sid)
  BY DEF IInv, TypeOK, Uat, UniqueUats
<1>6. \A v \in uats : v # u => /\ destroyed'[v.sid] = destroyed[v.sid]
                               /\ LastUse(v)' = LastUse(v)
  BY <1>4, <1>5 DEF LastUse
<1>7. now <= LastUse(u)' /\ LastUse(u)' \in Int
  BY <1>3, <1>4, TimesAssumption DEF LastUse
<1>8. TypeOK'
  BY <1>1, <1>2, <1>4 DEF IInv, TypeOK
<1>9. UniqueUats' /\ UniqueTokens' /\ QueueIssued' /\ QueuedOnce'
  BY <1>1 DEF IInv, UniqueUats, UniqueTokens, QueueIssued, QueuedOnce,
     AuthSessionRecord
<1>10. QueuedFresh'
  <2> SUFFICES ASSUME NEW v \in uats, NEW i \in 1 .. Len(queue),
                      queue[i] = AuthSessionRecord(v)
               PROVE  v \notin sessions' /\ destroyed'[v.sid] = 0
    BY <1>1 DEF QueuedFresh, AuthSessionRecord
  <2>1. v \notin sessions /\ destroyed[v.sid] = 0
    BY DEF IInv, QueuedFresh
  <2> QED BY <1>1, <1>2, <1>6, <2>1
<1>11. DestroyedGone'
  <2>1. now <= now
    BY <1>3
  <2> QED BY <1>1, <1>2, <1>4, <1>6, <2>1 DEF IInv, DestroyedGone
<1>12. NotIssued'
  BY <1>1, <1>4, <1>5 DEF IInv, NotIssued
<1>13. GrantsBounded'
  <2>1. \A c \in codes : destroyed'[c.uat.sid] # 0 => c.at <= LastUse(c.uat)'
    <3> SUFFICES ASSUME NEW c \in codes, destroyed'[c.uat.sid] # 0
                 PROVE  c.at <= LastUse(c.uat)'
      OBVIOUS
    <3>1. /\ c.uat \in uats /\ c.at <= now
          /\ destroyed[c.uat.sid] # 0 => c.at <= LastUse(c.uat)
      BY DEF IInv, GrantsBounded
    <3>2. c.at \in Nat
      BY DEF IInv, TypeOK, Grant
    <3>3. CASE c.uat = u
      BY <1>3, <1>7, <3>1, <3>2, <3>3
    <3>4. CASE c.uat # u
      BY <1>6, <3>1, <3>4
    <3> QED BY <3>3, <3>4
  <2> QED BY <1>1, <2>1 DEF IInv, GrantsBounded
<1>14. TokensBounded'
  <2> SUFFICES ASSUME NEW t \in tokens PROVE TokenBounded(t)'
    BY <1>1 DEF TokensBounded
  <2>1. TokenBounded(t) /\ t.iat \in Nat
    BY DEF IInv, TokensBounded, TypeOK, Token
  <2>2. PICK v \in uats : /\ v.sid = t.parent /\ t.expiry = v.expiry
                          /\ destroyed[v.sid] # 0
                             => t.iat <= LastUse(v) + CodeTtl
    BY <2>1 DEF TokenBounded
  <2>3. destroyed'[v.sid] # 0 => t.iat <= LastUse(v)' + CodeTtl
    <3>1. CASE v = u
      BY <1>3, <1>7, <2>1, <3>1, TimesAssumption DEF TokenBounded
    <3>2. CASE v # u
      BY <1>6, <2>2, <3>2
    <3> QED BY <3>1, <3>2
  <2> QED BY <1>1, <2>1, <2>2, <2>3 DEF TokenBounded
<1> QED
  BY <1>8, <1>9, <1>10, <1>11, <1>12, <1>13, <1>14 DEF IInv

\* The queue after a step that only takes from it.
LEMMA TakeShifts ==
    ASSUME queue \in Seq(DelayedAction),
           \/ queue' = queue
           \/ queue' = <<>>
           \/ queue # <<>> /\ queue' = Tail(queue)
    PROVE  queue' \in Seq(DelayedAction) /\ \E k \in {0, 1} : Shift(k)
<1>1. CASE queue' = queue
  BY <1>1 DEF Shift
<1>2. CASE queue' = <<>>
  <2>1. Len(queue') = 0 /\ Len(queue) \in Nat /\ queue' \in Seq(DelayedAction)
    BY <1>2
  <2> QED BY <2>1 DEF Shift
<1>3. CASE queue # <<>> /\ queue' = Tail(queue)
  BY <1>3, TailFacts DEF Shift
<1> QED BY <1>1, <1>2, <1>3

\* The steps that issue, persist and destroy no user session keep the invariant.
LEMMA QuietSteps ==
    ASSUME IInv,
           \/ Tick
           \/ \E t \in tokens : PersistOauth2(t)
           \/ \E r \in Rs : PersistConsent(r)
           \/ DelayedFails
           \/ \E t \in tokens : Revoke(t)
           \/ ModifyOther
           \/ \E r \in Rs : DeleteServer(r)
           \/ Restart
    PROVE  IInv'
<1>1. /\ now \in Nat /\ uats' = uats /\ tokens' = tokens
      /\ destroyed' = destroyed
  BY Zenon DEF IInv, TypeOK, Tick, PersistOauth2, PersistConsent, DelayedFails,
     Revoke, ModifyOther, DeleteServer, Restart, issued, history
<1>2. codes' \subseteq codes /\ consentReqs' \subseteq consentReqs
  BY Zenon DEF Tick, PersistOauth2, PersistConsent, DelayedFails,
     Revoke, ModifyOther, DeleteServer, Restart, grants
<1>3. now <= now' /\ now' \in Nat
  <2>1. CASE Tick
    BY <1>1, <2>1 DEF Tick
  <2>2. CASE now' = now
    BY <1>1, <2>2
  <2> QED BY <2>1, <2>2, Zenon DEF PersistOauth2, PersistConsent, DelayedFails,
        Revoke, ModifyOther, DeleteServer, Restart
<1>4. queue' \in Seq(DelayedAction) /\ \E k \in {0, 1} : Shift(k)
  <2>1. queue \in Seq(DelayedAction)
    BY DEF IInv, TypeOK
  <2>2. \/ queue' = queue
        \/ queue' = <<>>
        \/ queue # <<>> /\ queue' = Tail(queue)
    BY Zenon DEF Tick, PersistOauth2, PersistConsent, DelayedFails,
       Revoke, ModifyOther, DeleteServer, Restart
  <2> QED BY <2>1, <2>2, TakeShifts
<1>5. /\ sessions' \subseteq sessions /\ o2sessions' \subseteq tokens
      /\ consents' \subseteq Rs /\ valid' \in BOOLEAN
      /\ servers' \subseteq Rs
  <2>0. /\ sessions \subseteq uats /\ o2sessions \subseteq tokens
        /\ consents \subseteq Rs /\ valid \in BOOLEAN /\ servers \subseteq Rs
    BY DEF IInv, TypeOK
  <2>1. CASE UNCHANGED <<entry, servers>>
    BY <2>0, <2>1 DEF entry
  <2>2. CASE \E t \in tokens : PersistOauth2(t)
    <3>1. PICK t \in tokens : PersistOauth2(t)
      BY <2>2
    <3>2. /\ ModifyAccount(sessions, o2sessions \cup {t}, consents, valid)
          /\ servers' = servers
      BY <3>1 DEF PersistOauth2
    <3> QED BY <2>0, <3>2, ModifyShrinks
  <2>3. CASE \E r \in Rs : PersistConsent(r)
    <3>1. PICK r \in Rs : PersistConsent(r)
      BY <2>3
    <3>2. /\ ModifyAccount(sessions, o2sessions, consents \cup {r}, valid)
          /\ servers' = servers
      BY <3>1 DEF PersistConsent
    <3> QED BY <2>0, <3>2, ModifyShrinks
  <2>4. CASE \E t \in tokens : Revoke(t)
    <3>1. PICK t \in tokens : Revoke(t)
      BY <2>4
    <3>2. /\ ModifyAccount(sessions, {o \in o2sessions : o.id # t.id},
                           consents, valid)
          /\ servers' = servers
      BY <3>1 DEF Revoke
    <3> QED BY <2>0, <3>2, ModifyShrinks
  <2>5. CASE ModifyOther
    <3>1. PICK v \in BOOLEAN : ModifyAccount(sessions, o2sessions, consents, v)
      BY <2>5 DEF ModifyOther
    <3>2. servers' = servers
      BY <2>5 DEF ModifyOther
    <3> QED BY <2>0, <3>1, <3>2, ModifyShrinks
  <2>6. CASE \E r \in Rs : DeleteServer(r)
    BY <2>0, <2>6 DEF DeleteServer
  <2> QED BY <2>1, <2>2, <2>3, <2>4, <2>5, <2>6 DEF Tick, DelayedFails, Restart
<1>6. revoked' \subseteq tokens /\ lost' \subseteq Sids
  <2>1. \A q : LostWith(q) \subseteq Sids
    BY DEF IInv, TypeOK, LostWith
  <2> QED BY <2>1, Zenon DEF IInv, TypeOK, Tick, PersistOauth2, PersistConsent,
        DelayedFails, Revoke, ModifyOther, DeleteServer, Restart, history
<1>7. TypeOK'
  BY <1>1, <1>2, <1>3, <1>4, <1>5, <1>6 DEF IInv, TypeOK
<1> QED BY <1>1, <1>2, <1>3, <1>4, <1>5, <1>7, QuietPreserves

\* Every step keeps the invariant.
LEMMA NextPreserves == IInv /\ [Next]_vars => IInv'
<1> SUFFICES ASSUME IInv, [Next]_vars PROVE IInv'
  OBVIOUS
<1>1. CASE UNCHANGED vars
  BY <1>1 DEF vars, issued, grants, entry, history, IInv, TypeOK, UniqueUats,
     UniqueTokens, QueueIssued, QueuedOnce, QueuedFresh, DestroyedGone,
     NotIssued, GrantsBounded, TokensBounded, TokenBounded, LastUse,
     AuthSessionRecord
<1> QED
  BY <1>1, IssuePreserves, AuthorisePreserves, PermitPreserves,
     ExchangePreserves, PersistSessionPreserves, DestroyPreserves, QuietSteps
     DEF Next

\* The inductive invariant of sessions always holds.
LEMMA Invariant == Spec => []IInv
  BY InitIInv, NextPreserves, PTL DEF Spec

-----------------------------------------------------------------------------
\* The safety properties.

\* Every variable of the session model keeps its type; in particular what
\* is recorded on the entry was issued (process_delayedaction).
THEOREM TypesHold == Spec => []TypeOK
<1>1. IInv => TypeOK
  BY DEF IInv
<1> QED BY <1>1, Invariant, PTL

\* A session destroyed by account_destroy_session_token is never accepted
\* again after its grace window, for every number of sessions and any order
\* of delayed records, failures and restarts.
THEOREM DestroyedStaysDestroyed == Spec => []DestroyIsFinal
<1>1. IInv => DestroyIsFinal
  <2> SUFFICES ASSUME IInv, NEW u \in uats, destroyed[u.sid] # 0,
                      now >= u.issued + Grace, UatValid(u)
               PROVE  FALSE
    BY DEF DestroyIsFinal
  <2>1. ~HasSession(sessions, u.sid)
    BY DEF IInv, TypeOK, UniqueUats, DestroyedGone, HasSession
  <2>2. now < u.issued + Grace
    BY <2>1, Zenon DEF UatValid
  <2>3. now \in Nat /\ u.issued \in Nat
    BY DEF IInv, TypeOK, Uat
  <2> QED BY <2>2, <2>3, TimesAssumption
<1> QED BY <1>1, Invariant, PTL

\* Destroying a session ends every OAuth2 token derived from it within one
\* code life and one grace window of the session's last use.
THEOREM DestructionCascades == Spec => []DestroyCascades
<1>1. IInv => DestroyCascades
  <2> SUFFICES ASSUME IInv, NEW u \in uats, NEW t \in tokens,
                      t.parent = u.sid, destroyed[u.sid] # 0,
                      now >= LastUse(u) + CodeTtl + Grace, TokenActive(t)
               PROVE  FALSE
    BY DEF DestroyCascades
  <2>1. t.iat <= LastUse(u) + CodeTtl
    BY DEF IInv, TokensBounded, TokenBounded, UniqueUats
  <2>2. now \in Nat /\ t.iat \in Nat /\ LastUse(u) \in Int
    BY TimesAssumption DEF IInv, TypeOK, Token, Uat, LastUse
  <2>3. now >= t.iat + Grace
    BY <2>1, <2>2, TimesAssumption
  <2>4. HasSession(sessions, u.sid)
    BY <2>3 DEF TokenActive, Oauth2SessionsPresent
  <2> QED BY <2>4 DEF IInv, TypeOK, UniqueUats, DestroyedGone, HasSession
<1> QED BY <1>1, Invariant, PTL

\* An active access token never outlives the user auth token from which
\* check_oauth2_token_exchange derived it.
THEOREM TokensNeverOutlive == Spec => []TokensEndWithParent
<1>1. IInv => TokensEndWithParent
  <2> SUFFICES ASSUME IInv, NEW u \in uats, NEW t \in tokens,
                      t.parent = u.sid, TokenActive(t)
               PROVE  now < u.expiry
    BY DEF TokensEndWithParent
  <2>1. t.expiry = u.expiry
    BY DEF IInv, TokensBounded, TokenBounded, UniqueUats
  <2> QED BY <2>1 DEF TokenActive
<1> QED BY <1>1, Invariant, PTL

-----------------------------------------------------------------------------
\* Live records stay.  The session consistency plugin removes an OAuth2
\* session without its parent; that is never the record of a live session
\* because the parent's record is queued before it.

IsQueued(u) == \E i \in 1 .. Len(queue) : queue[i] = AuthSessionRecord(u)

ParentKnown ==
    \A u \in uats :
        \/ u \in sessions \/ IsQueued(u)
        \/ destroyed[u.sid] # 0 \/ u.sid \in lost \/ now >= u.expiry

RecordsFollow ==
    \A u \in uats, t \in tokens :
        t.parent = u.sid /\ t \in o2sessions => ~IsQueued(u)

ParentFirst ==
    \A u \in uats, t \in tokens : \A i, j \in 1 .. Len(queue) :
        /\ t.parent = u.sid
        /\ queue[i] = AuthSessionRecord(u)
        /\ queue[j] = Oauth2SessionRecord(t)
        => i < j

OInv ==
    /\ now >= 1
    /\ ParentKnown
    /\ RecordsFollow
    /\ ParentFirst


\* The OAuth2 records that follow their parent keep doing so when the queue
\* is only taken from.
LEMMA TakeOrder ==
    ASSUME IInv, OInv, uats' = uats, tokens' = tokens,
           NEW k \in {0, 1}, Shift(k), Len(queue') \in Nat,
           \A t \in o2sessions' :
              t \in o2sessions \/ (k = 1 /\ queue[1] = Oauth2SessionRecord(t))
    PROVE  RecordsFollow' /\ ParentFirst'
<1>1. Len(queue) \in Nat
  BY DEF IInv, TypeOK
<1>2. \A i \in 1 .. Len(queue') : i + k \in 1 .. Len(queue)
  BY <1>1 DEF Shift
<1>3. k = 1 => \A i \in 1 .. Len(queue') : 1 \in 1 .. Len(queue) /\ ~(i + k < 1)
  BY <1>1 DEF Shift
<1>4. RecordsFollow'
  <2> SUFFICES ASSUME NEW u \in uats, NEW t \in tokens, t.parent = u.sid,
                      t \in o2sessions', NEW i \in 1 .. Len(queue'),
                      queue'[i] = AuthSessionRecord(u)
               PROVE  FALSE
    BY DEF RecordsFollow, IsQueued, AuthSessionRecord
  <2>1. queue[i + k] = AuthSessionRecord(u) /\ i + k \in 1 .. Len(queue)
    BY <1>2 DEF Shift
  <2>2. CASE t \in o2sessions
    BY <2>1, <2>2 DEF OInv, RecordsFollow, IsQueued
  <2>3. CASE k = 1 /\ queue[1] = Oauth2SessionRecord(t)
    BY <1>3, <2>1, <2>3 DEF OInv, ParentFirst
  <2> QED BY <2>2, <2>3
<1>5. ParentFirst'
  <2> SUFFICES ASSUME NEW u \in uats, NEW t \in tokens,
                      NEW i \in 1 .. Len(queue'), NEW j \in 1 .. Len(queue'),
                      t.parent = u.sid, queue'[i] = AuthSessionRecord(u),
                      queue'[j] = Oauth2SessionRecord(t)
               PROVE  i < j
    BY DEF ParentFirst, AuthSessionRecord, Oauth2SessionRecord
  <2>1. /\ queue[i + k] = AuthSessionRecord(u)
        /\ queue[j + k] = Oauth2SessionRecord(t)
    BY DEF Shift
  <2>2. i + k < j + k
    BY <1>2, <2>1 DEF OInv, ParentFirst
  <2> QED BY <1>1, <2>2
<1> QED BY <1>4, <1>5

\* So do they when something other than a session record is queued.
LEMMA AppendOrder ==
    ASSUME IInv, OInv, NEW d \in DelayedAction, queue' = Append(queue, d),
           d.kind # "AuthSessionRecord", tokens \subseteq tokens',
           uats' = uats, o2sessions' = o2sessions
    PROVE  /\ RecordsFollow' /\ ParentFirst'
           /\ \A u \in uats : IsQueued(u) => IsQueued(u)'
<1>1. /\ Len(queue) \in Nat /\ Len(queue') = Len(queue) + 1
      /\ \A i \in 1 .. Len(queue) : queue'[i] = queue[i]
      /\ queue'[Len(queue) + 1] = d
  <2>1. queue \in Seq(DelayedAction)
    BY DEF IInv, TypeOK
  <2> QED BY <2>1, AppendFacts
<1>2. \A i \in 1 .. Len(queue') :
          \/ i \in 1 .. Len(queue) /\ queue'[i] = queue[i]
          \/ i = Len(queue) + 1 /\ queue'[i] = d
  BY <1>1
<1>3. \A u : AuthSessionRecord(u) # d
  BY RecordFields
<1>4. \A u \in uats : IsQueued(u)' => IsQueued(u)
  BY <1>2, <1>3 DEF IsQueued, AuthSessionRecord
<1>5. \A u \in uats : IsQueued(u) => IsQueued(u)'
  <2>1. \A i \in 1 .. Len(queue) : i \in 1 .. Len(queue')
    BY <1>1
  <2> QED BY <1>1, <2>1 DEF IsQueued, AuthSessionRecord
<1>6. RecordsFollow'
  <2>1. o2sessions \subseteq tokens
    BY DEF IInv, TypeOK
  <2> QED BY <1>4, <2>1 DEF OInv, RecordsFollow
<1>7. ParentFirst'
  <2> SUFFICES ASSUME NEW u \in uats, NEW t \in tokens',
                      NEW i \in 1 .. Len(queue'), NEW j \in 1 .. Len(queue'),
                      t.parent = u.sid, queue'[i] = AuthSessionRecord(u),
                      queue'[j] = Oauth2SessionRecord(t)
               PROVE  i < j
    BY DEF ParentFirst, AuthSessionRecord, Oauth2SessionRecord
  <2>1. i \in 1 .. Len(queue) /\ queue[i] = AuthSessionRecord(u)
    BY <1>2, <1>3
  <2>2. CASE j \in 1 .. Len(queue) /\ queue[j] = Oauth2SessionRecord(t)
    <3>1. t \in tokens
      BY <2>2, RecordFields DEF IInv, QueueIssued
    <3> QED BY <2>1, <2>2, <3>1 DEF OInv, ParentFirst
  <2>3. CASE j = Len(queue) + 1
    BY <1>1, <2>1, <2>3
  <2> QED BY <1>2, <2>2, <2>3
<1> QED BY <1>5, <1>6, <1>7

\* A record that a modify removes is expired, or was taken off before.
LEMMA LiveKept ==
    ASSUME NEW S, NEW O, NEW C, NEW V, ModifyAccount(S, O, C, V),
           now \in Nat, NEW u \in S, u.expiry \in Nat
    PROVE  u \in sessions' \/ now >= u.expiry
<1>1. sessions' = LiveSessions(S)
  BY ModifyShrinks
<1>2. now < u.expiry => u \in LiveSessions(S)
  BY DEF LiveSessions
<1> QED BY <1>1, <1>2

\* A destroyed session stays marked as destroyed.
LEMMA DestroyedStays ==
    ASSUME IInv, now >= 1, [Next]_vars
    PROVE  \A s \in Sids : destroyed[s] # 0 => destroyed'[s] # 0
<1>1. CASE destroyed' = destroyed
  BY <1>1
<1>2. CASE \E u \in uats : Destroy(u)
  <2>1. PICK u \in uats : Destroy(u)
    BY <1>2
  <2>2. destroyed' = [destroyed EXCEPT ![u.sid] = now]
    BY <2>1 DEF Destroy
  <2>3. now # 0 /\ destroyed \in [Sids -> Nat]
    BY DEF IInv, TypeOK
  <2> QED BY <2>2, <2>3
<1> QED
  BY <1>1, <1>2, Zenon DEF Next, vars, history, Tick, IssueUat, Authorise, Permit,
     Exchange, PersistSession, PersistOauth2, PersistConsent, DelayedFails,
     Revoke, ModifyOther, DeleteServer, Restart

\* A session leaves the entry only when it is destroyed or has expired.
LEMMA SessionsLeave ==
    ASSUME IInv, now >= 1, [Next]_vars
    PROVE  \A u \in sessions : \/ u \in sessions'
                               \/ destroyed'[u.sid] # 0
                               \/ now >= u.expiry
<1> SUFFICES ASSUME NEW u \in sessions
             PROVE  \/ u \in sessions' \/ destroyed'[u.sid] # 0
                    \/ now >= u.expiry
  OBVIOUS
<1>1. /\ now \in Nat /\ u \in uats /\ u.expiry \in Nat /\ u.sid \in Sids
      /\ destroyed \in [Sids -> Nat]
  BY DEF IInv, TypeOK, Uat
<1>2. CASE sessions' = sessions
  BY <1>2
<1>3. CASE \E v \in uats : PersistSession(v)
  <2>1. PICK v \in uats : PersistSession(v)
    BY <1>3
  <2>2. ModifyAccount(sessions \cup {v}, o2sessions, consents, valid)
    BY <2>1 DEF PersistSession
  <2> QED BY <1>1, <2>2, LiveKept
<1>4. CASE \E t \in tokens : PersistOauth2(t)
  <2>1. PICK t \in tokens : PersistOauth2(t)
    BY <1>4
  <2>2. ModifyAccount(sessions, o2sessions \cup {t}, consents, valid)
    BY <2>1 DEF PersistOauth2
  <2> QED BY <1>1, <2>2, LiveKept
<1>5. CASE \E r \in Rs : PersistConsent(r)
  <2>1. PICK r \in Rs : PersistConsent(r)
    BY <1>5
  <2>2. ModifyAccount(sessions, o2sessions, consents \cup {r}, valid)
    BY <2>1 DEF PersistConsent
  <2> QED BY <1>1, <2>2, LiveKept
<1>6. CASE \E v \in uats : Destroy(v)
  <2>1. PICK v \in uats : Destroy(v)
    BY <1>6
  <2>2. /\ ModifyAccount(sessions \ {v}, o2sessions, consents, valid)
        /\ destroyed' = [destroyed EXCEPT ![v.sid] = now]
    BY <2>1 DEF Destroy
  <2>3. CASE u = v
    BY <1>1, <2>2, <2>3
  <2>4. CASE u # v
    BY <1>1, <2>2, <2>4, LiveKept
  <2> QED BY <2>3, <2>4, Zenon
<1>7. CASE \E t \in tokens : Revoke(t)
  <2>1. PICK t \in tokens : Revoke(t)
    BY <1>7
  <2>2. ModifyAccount(sessions, {o \in o2sessions : o.id # t.id}, consents, valid)
    BY <2>1 DEF Revoke
  <2> QED BY <1>1, <2>2, LiveKept
<1>8. CASE ModifyOther
  <2>1. PICK v \in BOOLEAN : ModifyAccount(sessions, o2sessions, consents, v)
    BY <1>8 DEF ModifyOther
  <2> QED BY <1>1, <2>1, LiveKept
<1> QED
  BY <1>2, <1>3, <1>4, <1>5, <1>6, <1>7, <1>8, Zenon DEF Next, vars, entry, Tick,
     IssueUat, Authorise, Permit, Exchange, DelayedFails, DeleteServer, Restart

\* The fate of a session stays known when its record leaves the queue only
\* for the entry, for lost, or expired.
LEMMA KnownStays ==
    ASSUME IInv, OInv, [Next]_vars, uats' = uats,
           now' \in Nat, now <= now', lost \subseteq lost',
           \A u \in uats : IsQueued(u) => \/ IsQueued(u)' \/ u \in sessions'
                                          \/ u.sid \in lost' \/ now >= u.expiry
    PROVE  ParentKnown' /\ now' >= 1
<1>1. now \in Nat /\ now >= 1
  BY DEF IInv, OInv, TypeOK
<1>2. \A u \in uats : u.sid \in Sids /\ u.expiry \in Nat
  BY DEF IInv, TypeOK, Uat
<1>3. \A u \in uats : now >= u.expiry => now' >= u.expiry
  BY <1>1, <1>2
<1>4. ParentKnown'
  <2> SUFFICES ASSUME NEW u \in uats
               PROVE  \/ u \in sessions' \/ IsQueued(u)' \/ destroyed'[u.sid] # 0
                      \/ u.sid \in lost' \/ now' >= u.expiry
    BY DEF ParentKnown, IsQueued, AuthSessionRecord
  <2> QED BY <1>1, <1>2, <1>3, DestroyedStays, SessionsLeave DEF OInv, ParentKnown
<1> QED BY <1>1, <1>4

\* Taking the head of the queue takes at most that record.
LEMMA TailQueued ==
    ASSUME queue \in Seq(DelayedAction), queue # <<>>, queue' = Tail(queue)
    PROVE  /\ Shift(1) /\ Len(queue') \in Nat /\ queue[1] = Head(queue)
           /\ \A u : IsQueued(u) =>
                \/ \E i \in 1 .. Len(queue') : queue'[i] = AuthSessionRecord(u)
                \/ Head(queue) = AuthSessionRecord(u)
<1>1. /\ Len(queue) \in Nat /\ Len(queue) > 0 /\ Len(queue') = Len(queue) - 1
      /\ \A i \in 1 .. Len(queue') : queue'[i] = queue[i + 1]
      /\ Head(queue) = queue[1]
  BY TailFacts
<1>2. Shift(1) /\ Len(queue') \in Nat
  BY <1>1 DEF Shift
<1>3. ASSUME NEW u, NEW i \in 1 .. Len(queue), queue[i] = AuthSessionRecord(u),
             Head(queue) # AuthSessionRecord(u)
      PROVE  \E j \in 1 .. Len(queue') : queue'[j] = AuthSessionRecord(u)
  <2>1. i # 1
    BY <1>1, <1>3
  <2>2. i - 1 \in 1 .. Len(queue') /\ (i - 1) + 1 = i
    BY <1>1, <2>1
  <2> QED BY <1>1, <1>3, <2>2, Zenon
<1> QED BY <1>1, <1>2, <1>3 DEF IsQueued

\* The order is kept by every step that takes the head of the queue.
LEMMA TakePreservesOrder ==
    ASSUME IInv, OInv, [Next]_vars,
           \/ \E u \in uats : PersistSession(u)
           \/ \E t \in tokens : PersistOauth2(t)
           \/ \E r \in Rs : PersistConsent(r)
           \/ DelayedFails
    PROVE  OInv'
<1>1. /\ uats' = uats /\ tokens' = tokens /\ now' = now
      /\ queue # <<>> /\ queue' = Tail(queue)
  BY Zenon DEF PersistSession, PersistOauth2, PersistConsent, DelayedFails, issued
<1>2. /\ queue \in Seq(DelayedAction) /\ now \in Nat /\ now <= now
      /\ \A u \in uats : u.expiry \in Nat /\ u.sid \in Sids
  BY DEF IInv, TypeOK, Uat
<1>3. /\ Shift(1) /\ Len(queue') \in Nat /\ queue[1] = Head(queue)
      /\ \A u \in uats : IsQueued(u) =>
           IsQueued(u)' \/ Head(queue) = AuthSessionRecord(u)
  BY <1>1, <1>2, TailQueued, Zenon DEF IsQueued, AuthSessionRecord
<1>4. /\ \A t \in o2sessions' :
           t \in o2sessions \/ Head(queue) = Oauth2SessionRecord(t)
      /\ lost \subseteq lost'
      /\ \A u \in uats : Head(queue) = AuthSessionRecord(u)
           => u \in sessions' \/ u.sid \in lost' \/ now >= u.expiry
  <2>1. ASSUME NEW u \in uats, PersistSession(u) PROVE <1>4
    <3>1. /\ Head(queue) = AuthSessionRecord(u) /\ lost' = lost
          /\ ModifyAccount(sessions \cup {u}, o2sessions, consents, valid)
      BY <2>1 DEF PersistSession, history
    <3>2. o2sessions' \subseteq o2sessions
      BY <3>1, ModifyShrinks
    <3>3. u \in sessions' \/ now >= u.expiry
      BY <1>2, <3>1, LiveKept
    <3> QED BY <3>1, <3>2, <3>3, RecordsDiffer
  <2>2. ASSUME NEW t \in tokens, PersistOauth2(t) PROVE <1>4
    <3>1. /\ Head(queue) = Oauth2SessionRecord(t) /\ lost' = lost
          /\ ModifyAccount(sessions, o2sessions \cup {t}, consents, valid)
      BY <2>2 DEF PersistOauth2, history
    <3>2. o2sessions' \subseteq o2sessions \cup {t}
      BY <3>1, ModifyShrinks
    <3> QED BY <3>1, <3>2, RecordsDiffer
  <2>3. ASSUME NEW r \in Rs, PersistConsent(r) PROVE <1>4
    <3>1. /\ Head(queue) = Oauth2ConsentGrant(r) /\ lost' = lost
          /\ ModifyAccount(sessions, o2sessions, consents \cup {r}, valid)
      BY <2>3 DEF PersistConsent, history
    <3>2. o2sessions' \subseteq o2sessions
      BY <3>1, ModifyShrinks
    <3> QED BY <3>1, <3>2, RecordsDiffer
  <2>4. CASE DelayedFails
    <3>1. o2sessions' = o2sessions /\ lost' = LostWith(<<Head(queue)>>)
      BY <2>4 DEF DelayedFails, entry
    <3>2. \A u \in uats : Head(queue) = AuthSessionRecord(u)
            => Queued(<<Head(queue)>>, AuthSessionRecord(u))
      <4> DEFINE h == Head(queue)
      <4>1. Len(<<h>>) = 1 /\ <<h>>[1] = h /\ 1 \in 1 .. 1
        OBVIOUS
      <4> QED BY <4>1 DEF Queued
    <3> QED BY <1>2, <3>1, <3>2 DEF LostWith
  <2> QED BY <2>1, <2>2, <2>3, <2>4
<1>5. ParentKnown' /\ now' >= 1
  BY <1>1, <1>2, <1>3, <1>4, KnownStays
<1>6. RecordsFollow' /\ ParentFirst'
  BY <1>1, <1>3, <1>4, TakeOrder
<1> QED BY <1>5, <1>6 DEF OInv

\* And by every step that leaves the queue as it is.
LEMMA StillPreservesOrder ==
    ASSUME IInv, OInv, [Next]_vars, queue' = queue, uats' = uats,
           tokens' = tokens, lost' = lost, o2sessions' \subseteq o2sessions,
           now' \in Nat, now <= now'
    PROVE  OInv'
<1>1. Len(queue) \in Nat /\ Len(queue') \in Nat /\ Shift(0)
  BY DEF IInv, TypeOK, Shift
<1>2. \A u \in uats : IsQueued(u) => IsQueued(u)'
  BY DEF IsQueued, AuthSessionRecord
<1>3. ParentKnown' /\ now' >= 1
  BY <1>2, KnownStays
<1>4. RecordsFollow' /\ ParentFirst'
  BY <1>1, TakeOrder
<1> QED BY <1>3, <1>4 DEF OInv

\* A restart empties the queue: every session still queued is lost.
LEMMA RestartPreservesOrder ==
    ASSUME IInv, OInv, [Next]_vars, Restart
    PROVE  OInv'
<1>1. /\ uats' = uats /\ tokens' = tokens /\ now' = now
      /\ o2sessions' = o2sessions /\ queue' = <<>> /\ lost' = LostWith(queue)
  BY DEF Restart, issued, entry
<1>2. Len(queue') = 0 /\ Len(queue) \in Nat /\ now \in Nat /\ now <= now
  BY <1>1 DEF IInv, TypeOK
<1>3. Shift(0)
  BY <1>2 DEF Shift
<1>4. /\ lost \subseteq lost'
      /\ \A u \in uats : IsQueued(u) => u.sid \in lost'
  BY <1>1 DEF IInv, TypeOK, Uat, LostWith, Queued, IsQueued
<1>5. ParentKnown' /\ now' >= 1
  BY <1>1, <1>2, <1>4, KnownStays
<1>6. RecordsFollow' /\ ParentFirst'
  BY <1>1, <1>2, <1>3, TakeOrder
<1> QED BY <1>5, <1>6 DEF OInv

\* A new session has no tokens yet, so its record may be queued last.
LEMMA IssuePreservesOrder ==
    ASSUME IInv, OInv, NEW s \in Sids, IssueUat(s)
    PROVE  OInv'
<1>0. PICK u : u = [sid |-> s, issued |-> now, expiry |-> now + UatLife]
  BY Zenon
<1> DEFINE d == AuthSessionRecord(u)
<1>1. /\ uats' = uats \cup {u} /\ queue' = Append(queue, d)
      /\ UNCHANGED <<now, tokens, sessions, o2sessions, destroyed, lost>>
  BY <1>0 DEF IssueUat, Enqueue, entry, history
<1>2. now \in Nat /\ now >= 1
  BY DEF IInv, OInv, TypeOK
<1>3. u \in Uat /\ u.sid = s
  BY <1>0, <1>2, TimesAssumption DEF Uat
<1>4. \A v \in uats : v.sid # s
  BY DEF IssueUat, HasSession
<1>5. d \in DelayedAction
  BY <1>3, RecordsTyped
<1>6. queue \in Seq(DelayedAction)
  BY DEF IInv, TypeOK
<1> HIDE DEF d
<1>7. /\ Len(queue) \in Nat /\ Len(queue') = Len(queue) + 1
      /\ \A i \in 1 .. Len(queue) : queue'[i] = queue[i]
      /\ queue'[Len(queue) + 1] = d
  BY <1>1, <1>5, <1>6, AppendFacts
<1>8. \A i \in 1 .. Len(queue') :
          \/ i \in 1 .. Len(queue) /\ queue'[i] = queue[i]
          \/ i = Len(queue) + 1 /\ queue'[i] = d
  BY <1>7
<1>9. \A t \in tokens : t.parent # s
  BY <1>4 DEF IInv, TokensBounded, TokenBounded
<1>10. /\ \A v \in uats : IsQueued(v)' => IsQueued(v)
       /\ \A v \in uats : IsQueued(v) => IsQueued(v)'
       /\ IsQueued(u)'
  <2>1. \A v \in uats : AuthSessionRecord(v) # d
    BY <1>3, <1>4, RecordsDiffer DEF d
  <2>2. \A i \in 1 .. Len(queue) : i \in 1 .. Len(queue')
    BY <1>7
  <2>3. Len(queue) + 1 \in 1 .. Len(queue')
    BY <1>7
  <2>4. \E i \in 1 .. Len(queue') : queue'[i] = AuthSessionRecord(u)
    BY <1>7, <2>3 DEF d
  <2> QED BY <1>7, <1>8, <2>1, <2>2, <2>4 DEF IsQueued, AuthSessionRecord
<1>11. ParentKnown'
  BY <1>1, <1>10 DEF OInv, ParentKnown
<1>12. RecordsFollow'
  BY <1>1, <1>3, <1>9, <1>10 DEF OInv, RecordsFollow
<1>13. ParentFirst'
  <2> SUFFICES ASSUME NEW v \in uats', NEW t \in tokens,
                      NEW i \in 1 .. Len(queue'), NEW j \in 1 .. Len(queue'),
                      t.parent = v.sid, queue'[i] = AuthSessionRecord(v),
                      queue'[j] = Oauth2SessionRecord(t)
               PROVE  i < j
    BY <1>1 DEF ParentFirst, AuthSessionRecord, Oauth2SessionRecord
  <2>1. v \in uats /\ AuthSessionRecord(v) # d
    BY <1>1, <1>3, <1>4, <1>9, RecordsDiffer DEF d
  <2>2. Oauth2SessionRecord(t) # d
    BY RecordsDiffer DEF d
  <2> QED BY <1>8, <2>1, <2>2 DEF OInv, ParentFirst
<1> QED BY <1>1, <1>2, <1>11, <1>12, <1>13 DEF OInv

\* Consents and OAuth2 sessions are queued behind what is already there.
LEMMA GrantPreservesOrder ==
    ASSUME IInv, OInv, [Next]_vars,
           \/ \E c \in consentReqs : Permit(c)
           \/ \E c \in codes, o \in Oids : Exchange(c, o)
    PROVE  OInv'
<1>1. \E d \in DelayedAction : /\ queue' = Append(queue, d)
                               /\ d.kind # "AuthSessionRecord"
  <2>1. ASSUME NEW c \in consentReqs, Permit(c) PROVE <1>1
    <3>1. c.rs \in Rs
      BY DEF IInv, TypeOK, Grant
    <3>2. queue' = Append(queue, Oauth2ConsentGrant(c.rs))
      BY <2>1 DEF Permit, Enqueue
    <3> QED BY <3>1, <3>2, RecordsTyped, RecordFields
  <2>2. ASSUME NEW c \in codes, NEW o \in Oids, Exchange(c, o) PROVE <1>1
    <3> DEFINE t == [id |-> o, parent |-> c.uat.sid, rs |-> c.rs, iat |-> now,
                     expiry |-> TokenExpiry(c.uat)]
    <3>1. t \in Token
      BY DEF IInv, TypeOK, Grant, Uat, Token, TokenExpiry
    <3>2. queue' = Append(queue, Oauth2SessionRecord(t))
      BY <2>2, Zenon DEF Exchange, Enqueue
    <3> HIDE DEF t
    <3> QED BY <3>1, <3>2, RecordsTyped, RecordFields
  <2> QED BY <2>1, <2>2
<1>2. /\ uats' = uats /\ tokens \subseteq tokens' /\ now' = now
      /\ o2sessions' = o2sessions /\ lost' = lost
  BY Zenon DEF Permit, Exchange, issued, entry, history
<1>3. now \in Nat /\ now <= now
  BY DEF IInv, TypeOK
<1>4. /\ RecordsFollow' /\ ParentFirst'
      /\ \A u \in uats : IsQueued(u) => IsQueued(u)'
  BY <1>1, <1>2, AppendOrder
<1>5. ParentKnown' /\ now' >= 1
  BY <1>2, <1>3, <1>4, KnownStays
<1> QED BY <1>4, <1>5 DEF OInv

\* The steps that leave the queue alone.
Still ==
    \/ Tick
    \/ \E u \in uats, r \in Rs : Authorise(u, r)
    \/ \E u \in uats : Destroy(u)
    \/ \E t \in tokens : Revoke(t)
    \/ ModifyOther
    \/ \E r \in Rs : DeleteServer(r)
    \/ UNCHANGED vars

\* The steps that leave the channel alone add no OAuth2 record.
LEMMA StillShrinks ==
    ASSUME IInv, Still
    PROVE  /\ queue' = queue /\ uats' = uats /\ tokens' = tokens
           /\ lost' = lost /\ o2sessions' \subseteq o2sessions
           /\ now' \in Nat /\ now <= now'
<1>1. /\ queue' = queue /\ uats' = uats /\ tokens' = tokens /\ lost' = lost
  BY Zenon DEF Still, Tick, Authorise, Destroy, Revoke, ModifyOther, DeleteServer,
     vars, issued, history
<1>2. now' \in Nat /\ now <= now'
  <2>1. now \in Nat
    BY DEF IInv, TypeOK
  <2>2. CASE Tick
    BY <2>1, <2>2 DEF Tick
  <2>3. CASE now' = now
    BY <2>1, <2>3
  <2> QED BY <2>2, <2>3, Zenon DEF Still, Authorise, Destroy, Revoke, ModifyOther,
        DeleteServer, vars
<1>3. o2sessions' \subseteq o2sessions
  <2>1. CASE o2sessions' = o2sessions
    BY <2>1
  <2>2. ASSUME NEW u \in uats, Destroy(u) PROVE <1>3
    <3>1. ModifyAccount(sessions \ {u}, o2sessions, consents, valid)
      BY <2>2 DEF Destroy
    <3> QED BY <3>1, ModifyShrinks
  <2>3. ASSUME NEW t \in tokens, Revoke(t) PROVE <1>3
    <3>1. ModifyAccount(sessions, {o \in o2sessions : o.id # t.id}, consents, valid)
      BY <2>3 DEF Revoke
    <3> QED BY <3>1, ModifyShrinks
  <2>4. CASE ModifyOther
    BY <2>4, ModifyShrinks DEF ModifyOther
  <2>5. ASSUME NEW r \in Rs, DeleteServer(r) PROVE <1>3
    BY <2>5 DEF DeleteServer
  <2> QED BY <2>1, <2>2, <2>3, <2>4, <2>5 DEF Still, Tick, Authorise, vars, entry
<1> QED BY <1>1, <1>2, <1>3

\* The invariant on the order of records holds with the first one.
LEMMA OrderInvariant == Spec => [](IInv /\ OInv)
<1>1. Init => OInv
  <2> SUFFICES ASSUME Init PROVE OInv
    OBVIOUS
  <2>1. Len(queue) = 0 /\ now = 1 /\ uats = {} /\ tokens = {}
    BY DEF Init
  <2> QED BY <2>1 DEF OInv, ParentKnown, RecordsFollow, ParentFirst
<1>2. (IInv /\ OInv) /\ [Next]_vars => OInv'
  <2> SUFFICES ASSUME IInv, OInv, [Next]_vars PROVE OInv'
    OBVIOUS
  <2>1. CASE Still
    BY <2>1, StillShrinks, StillPreservesOrder
  <2> QED
    BY <2>1, TakePreservesOrder, RestartPreservesOrder, IssuePreservesOrder,
       GrantPreservesOrder DEF Next, Still
<1> QED BY <1>1, <1>2, InitIInv, NextPreserves, PTL DEF Spec

\* A modify keeps an OAuth2 record that it does not itself remove, unless the
\* token has expired or its parent is not recorded.
LEMMA Oauth2Kept ==
    ASSUME NEW S, NEW O, NEW C, NEW V, ModifyAccount(S, O, C, V),
           now \in Nat, NEW t \in O, t.expiry \in Nat
    PROVE  \/ t \in o2sessions' \/ now >= t.expiry
           \/ ~HasSession(sessions', t.parent)
  BY ModifyShrinks DEF LiveOauth2

\* The records of a live session stay on the entry: the session consistency
\* plugin removes only what is destroyed, revoked, expired or orphaned for
\* good, because a parent's record is always queued before its children's.
THEOREM LiveRecordsAreKept == Spec => LiveRecordsStay
<1>1. IInv /\ OInv /\ [Next]_vars => [RecordsStay]_vars
  <2> SUFFICES ASSUME IInv, OInv, [Next]_vars PROVE RecordsStay
    OBVIOUS
  <2>0. now >= 1 /\ now \in Nat
    BY DEF IInv, OInv, TypeOK
  <2>1. \A u \in sessions \ sessions' :
          destroyed'[u.sid] # 0 \/ now >= u.expiry
    BY <2>0, SessionsLeave
  <2>2. ASSUME NEW t \in o2sessions \ o2sessions'
        PROVE  \/ t \in revoked' \/ now >= t.expiry \/ t.rs \notin servers'
               \/ destroyed'[t.parent] # 0 \/ t.parent \in lost
    <3>1. t \in tokens /\ t.expiry \in Nat
      BY DEF IInv, TypeOK, Token
    <3>2. PICK u \in uats : u.sid = t.parent /\ t.expiry = u.expiry
      BY <3>1 DEF IInv, TokensBounded, TokenBounded
    <3>3. ~IsQueued(u)
      BY <3>1, <3>2 DEF OInv, RecordsFollow
    <3>4. \/ u \in sessions \/ destroyed[u.sid] # 0 \/ u.sid \in lost
          \/ now >= u.expiry
      BY <3>3 DEF OInv, ParentKnown
    <3>5. u.sid \in Sids
      BY DEF IInv, TypeOK, Uat
    <3>6. \/ u \in sessions' \/ destroyed'[u.sid] # 0 \/ u.sid \in lost
          \/ now >= u.expiry
      BY <2>0, <3>4, <3>5, SessionsLeave, DestroyedStays
    <3>7. CASE HasSession(sessions', t.parent) /\ now < t.expiry
      <4>1. ASSUME NEW S, NEW C, NEW V, NEW O, ModifyAccount(S, O, C, V), t \in O
            PROVE  FALSE
        BY <2>0, <2>2, <3>1, <3>7, <4>1, Oauth2Kept
      <4>2. ASSUME NEW r \in Rs, DeleteServer(r) PROVE t.rs \notin servers'
        BY <2>2, <4>2 DEF DeleteServer
      <4>3. ASSUME NEW o \in tokens, Revoke(o) PROVE t \in revoked'
        <5>1. /\ ModifyAccount(sessions, {p \in o2sessions : p.id # o.id},
                               consents, valid)
              /\ revoked' = revoked \cup {o}
          BY <4>3 DEF Revoke
        <5>2. t.id = o.id
          BY <2>2, <4>1, <5>1
        <5> QED BY <3>1, <5>1, <5>2 DEF IInv, UniqueTokens
      <4>4. ~\E v \in uats : PersistSession(v)
        BY <2>2, <4>1, Zenon DEF PersistSession
      <4>5. ~\E o \in tokens : PersistOauth2(o)
        BY <2>2, <4>1, Zenon DEF PersistOauth2
      <4>6. ~\E r \in Rs : PersistConsent(r)
        BY <2>2, <4>1, Zenon DEF PersistConsent
      <4>7. ~\E v \in uats : Destroy(v)
        BY <2>2, <4>1, Zenon DEF Destroy
      <4>8. ~ModifyOther
        BY <2>2, <4>1 DEF ModifyOther
      <4>9. o2sessions' # o2sessions
        BY <2>2
      <4> QED
        BY <4>2, <4>3, <4>4, <4>5, <4>6, <4>7, <4>8, <4>9 DEF Next, vars,
           entry, Tick, IssueUat, Authorise, Permit, Exchange, DelayedFails,
           Restart
    <3>8. CASE ~HasSession(sessions', t.parent)
      BY <3>2, <3>6, <3>8 DEF HasSession
    <3> QED BY <2>0, <3>1, <3>7, <3>8
  <2> QED BY <2>1, <2>2 DEF RecordsStay
<1> QED BY <1>1, OrderInvariant, PTL DEF LiveRecordsStay, Spec

=============================================================================
