--------------------------- MODULE CredUpdateProofs ---------------------------
(***************************************************************************)
(* Proofs about CredUpdate, for any intents, sessions, lifetimes and lags: *)
(* an intent token is used once and by one session at a time, it is never  *)
(* spent without a commit, and the stored credential stays valid.          *)
(***************************************************************************)
EXTENDS CredUpdate, TLAPS

(* The provers to try on a step, in order, and the time each one has. *)
USE ZenonT(5), SMTT(30), SMTT(60), ZenonT(30), SMTT(90)

(* The sessions of an intent that a client could still commit. *)
Usable(i) == SessionsOf(i) \cap live \cap tokens

(* What is still in the map was not committed. *)
OpenUncommitted == \A s \in live : committed[s] = 0
Started == \A s \in Sids : committed[s] > 0 => object[s] # NoSession

(* A usable session of an intent is the one the intent names, unless the     *)
(* intent was removed under it.                                              *)
Attached ==
  \A i \in Intents : \A s \in Usable(i) :
    intents[i].state = "Gone" \/ (intents[i].state = "InProgress" /\ intents[i].session = s)

(* An intent in progress names a session of its own, which expires with it.  *)
Named ==
  \A i \in Intents : intents[i].state = "InProgress" =>
    /\ intents[i].session \in SessionsOf(i)
    /\ object[intents[i].session].expiry = intents[i].session_ttl

IInv == /\ TypeOK /\ OnceUse /\ OneSessionPerIntent
        /\ OpenUncommitted /\ Started /\ Attached /\ Named

(* Every session works on a valid credential. *)
SnapshotsValid == \A s \in Sids : object[s] # NoSession => WellFormed(object[s].primary)

CInv == CredentialValid /\ SnapshotsValid

-----------------------------------------------------------------------------

(* Initially nothing is issued, started or committed. *)
LEMMA InitIInv == Init => IInv
<1> SUFFICES ASSUME Init PROVE IInv
  OBVIOUS
<1>1. TypeOK
  BY TimeAssumption DEF Init, TypeOK, Primary, IntentState, Unissued, NoTxn
<1>2. \A i \in Intents : SessionsOf(i) = {} /\ intents[i].state = "Unissued"
  BY DEF Init, SessionsOf, Unissued
<1>3. OnceUse /\ OneSessionPerIntent /\ Attached /\ Named
  BY <1>2 DEF Init, OnceUse, OneSessionPerIntent, Attached, Named, Usable
<1>4. OpenUncommitted /\ Started
  BY DEF Init, OpenUncommitted, Started
<1>5. QED
  BY <1>1, <1>3, <1>4 DEF IInv

(* What a request reads is a time that has been. *)
LEMMA NowIsPast ==
  ASSUME TypeOK, NEW ct \in Now
  PROVE  ct \in Nat /\ ct <= clock
BY DEF TypeOK, Now

(* What a step that starts no session and commits none has to show. *)
LEMMA KeptSessions ==
  ASSUME IInv, TypeOK', committed' = committed,
         live' \subseteq live, tokens' = tokens,
         \A s \in Sids : (object[s] = NoSession) <=> (object'[s] = NoSession),
         \A s \in Sids : object[s] # NoSession =>
            object'[s].intent = object[s].intent /\ object'[s].expiry = object[s].expiry,
         \A i \in Intents :
            \/ intents'[i] = intents[i]
            \/ intents'[i].state = "Gone"
            \/ /\ intents[i].state \notin {"Consumed", "Gone"}
               /\ intents'[i].state = "Valid"
               /\ Usable(i)' = {}
  PROVE  IInv'
<1>1. \A i \in Intents : SessionsOf(i)' = SessionsOf(i)
  BY DEF SessionsOf
<1>2. \A i \in Intents : Usable(i)' \subseteq Usable(i)
  BY <1>1 DEF Usable
<1>3. OnceUse'
  <2>1. \A s \in Sids : committed'[s] <= 1
    BY DEF IInv, OnceUse
  <2>2. \A i \in Intents : \A s, t \in SessionsOf(i)' :
           committed'[s] = 1 /\ committed'[t] = 1 => s = t
    BY <1>1 DEF IInv, OnceUse
  <2>3. \A i \in Intents : \A s \in SessionsOf(i)' :
           committed'[s] = 1 => intents'[i].state \in {"Consumed", "Gone"}
    BY <1>1 DEF IInv, OnceUse
  <2>4. QED
    BY <2>1, <2>2, <2>3 DEF OnceUse
<1>4. OpenUncommitted' /\ Started'
  BY DEF IInv, OpenUncommitted, Started
<1>5. Attached' /\ OneSessionPerIntent'
  BY <1>2 DEF IInv, Attached, OneSessionPerIntent, Usable
<1>6. Named'
  <2>1. ASSUME NEW i \in Intents, intents'[i].state = "InProgress"
        PROVE  /\ intents'[i].session \in SessionsOf(i)'
               /\ object'[intents'[i].session].expiry = intents'[i].session_ttl
    <3>1. intents'[i] = intents[i]
      BY <2>1
    <3>2. /\ intents[i].session \in SessionsOf(i)
          /\ object[intents[i].session].expiry = intents[i].session_ttl
      BY <2>1, <3>1 DEF IInv, Named
    <3>3. QED
      BY <3>1, <3>2, <1>1 DEF SessionsOf
  <2>2. QED
    BY <2>1 DEF Named
<1>7. QED
  BY <1>3, <1>4, <1>5, <1>6 DEF IInv


(* A new intent finds no session of its own, and the intents it prunes keep  *)
(* nothing.                                                                  *)
LEMMA InitIntentPreserves ==
  ASSUME IInv, NEW i \in Intents, NEW ttl \in Nat, NEW ct \in Nat, InitIntent(i, ttl, ct)
  PROVE  IInv'
<1>1. Clamp(ttl) \in Nat
  BY TimeAssumption DEF Clamp
<1>2. \A j \in Intents : intents'[j] \in IntentState
  <2>1. \A m \in Nat : Valid(m) \in IntentState
    BY Zenon DEF Valid, Unissued, IntentState
  <2>2. Gone \in IntentState
    BY DEF Gone, Unissued, IntentState
  <2>3. QED
    BY <1>1, <2>1, <2>2 DEF InitIntent, IInv, TypeOK
<1>3. TypeOK'
  BY <1>2 DEF InitIntent, mem, IInv, TypeOK
<1>4. intents[i].state = "Unissued" /\ Gone.state = "Gone"
  BY DEF InitIntent, Unissued, Gone
<1>5. Usable(i)' = {}
  BY <1>4 DEF InitIntent, mem, Usable, SessionsOf, IInv, Attached
<1>6. \A m \in Nat : Valid(m).state = "Valid"
  BY DEF Valid, Unissued
<1>7. \A j \in Intents :
        \/ intents'[j] = intents[j]
        \/ intents'[j].state = "Gone"
        \/ /\ intents[j].state \notin {"Consumed", "Gone"}
           /\ intents'[j].state = "Valid"
           /\ Usable(j)' = {}
  BY <1>1, <1>4, <1>5, <1>6 DEF InitIntent
<1>8. QED
  BY <1>3, <1>7, KeptSessions DEF InitIntent, mem

(* A session is created under an id nobody used, and takes the expired ones  *)
(* out of the map.                                                           *)
LEMMA CreateSessionFacts ==
  ASSUME IInv, NEW s \in Sids, NEW i \in Intents \cup {NoIntent}, NEW ct \in Nat,
         NEW ok \in BOOLEAN, CreateSession(s, i, ct, ok)
  PROVE  /\ object' \in [Sids -> Session \cup {NoSession}]
         /\ object'[s] # NoSession /\ object'[s].intent = i /\ object'[s].expiry = ct + TTL
         /\ \A t \in Sids : t # s => object'[t] = object[t]
         /\ object[s] = NoSession /\ s \notin live /\ s \notin tokens /\ committed[s] = 0
         /\ live' \subseteq live \cup {s} /\ live' \cap Expired(ct) = {}
         /\ tokens' \subseteq tokens \cup {s} /\ (~ok => tokens' = tokens)
<1> DEFINE new == [intent |-> i, expiry |-> ct + TTL, primary |-> primary,
                   passkeys |-> passkeys, mfareg |-> "None"]
<1>1. new \in Session
  BY TimeAssumption DEF IInv, TypeOK, Session, MfaRegStates
<1>2. object[s] = NoSession /\ object' = [object EXCEPT ![s] = new]
  BY DEF CreateSession
<1>3. object \in [Sids -> Session \cup {NoSession}]
  BY DEF IInv, TypeOK
<1>4. s \notin live /\ s \notin tokens
  BY <1>2 DEF IInv, TypeOK
<1>5. committed[s] = 0
  BY <1>2 DEF IInv, TypeOK, Started
<1>6. live' \subseteq live \cup {s} /\ live' \cap Expired(ct) = {}
  BY <1>4 DEF CreateSession, Expired
<1>7. tokens' \subseteq tokens \cup {s} /\ (~ok => tokens' = tokens)
  BY DEF CreateSession
<1>8. new.intent = i /\ new.expiry = ct + TTL
  OBVIOUS
<1> HIDE DEF new
<1>9. QED
  BY <1>1, <1>2, <1>3, <1>4, <1>5, <1>6, <1>7, <1>8, NoSessionAssumption

(* Starting a session from an intent leaves the intent's earlier session     *)
(* out of the map.                                                           *)
LEMMA ExchangePreserves ==
  ASSUME IInv, NEW i \in Intents, NEW s \in Sids, NEW ct \in Nat, NEW ok \in BOOLEAN,
         Exchange(i, s, ct, ok)
  PROVE  IInv'
<1>1. CreateSession(s, i, ct, ok) /\ MayExchange(i, ct) /\ committed' = committed
  BY DEF Exchange
<1>2. /\ object' \in [Sids -> Session \cup {NoSession}]
      /\ object'[s] # NoSession /\ object'[s].intent = i /\ object'[s].expiry = ct + TTL
      /\ \A t \in Sids : t # s => object'[t] = object[t]
      /\ object[s] = NoSession /\ s \notin live /\ s \notin tokens /\ committed[s] = 0
      /\ live' \subseteq live \cup {s} /\ live' \cap Expired(ct) = {}
      /\ tokens' \subseteq tokens \cup {s} /\ (~ok => tokens' = tokens)
  BY <1>1, CreateSessionFacts
<1>3. /\ \A j \in Intents : j # i => intents'[j] = intents[j]
      /\ ~ok => intents' = intents
      /\ ok => intents'[i] = InProgress(intents[i].max_ttl, s, ct + TTL)
  BY DEF Exchange, IInv, TypeOK
<1>4. /\ SessionsOf(i)' = SessionsOf(i) \cup {s}
      /\ \A j \in Intents : j # i => SessionsOf(j)' = SessionsOf(j)
  BY <1>2 DEF SessionsOf
<1>5. TypeOK'
  <2>1. ok => intents'[i] \in IntentState
    BY <1>3, TimeAssumption DEF InProgress, IntentState, IInv, TypeOK
  <2>2. intents' \in [Intents -> IntentState]
    BY <1>3, <2>1 DEF Exchange, IInv, TypeOK
  <2>3. \A t \in live' \cup tokens' : t \in Sids /\ object'[t] # NoSession
    BY <1>2 DEF IInv, TypeOK
  <2>4. QED
    BY <1>2, <2>2, <2>3 DEF Exchange, IInv, TypeOK
<1>6. \A t \in SessionsOf(i) : committed[t] # 1
  BY <1>1 DEF MayExchange, IInv, OnceUse
<1>7. OnceUse'
  <2>1. \A t \in Sids : committed'[t] <= 1
    BY <1>1 DEF IInv, OnceUse
  <2>2. \A t \in SessionsOf(i)' : committed'[t] # 1
    BY <1>1, <1>2, <1>4, <1>6
  <2>3. ASSUME NEW j \in Intents, j # i
        PROVE  \A t, v \in SessionsOf(j)' :
                 /\ committed'[t] = 1 /\ committed'[v] = 1 => t = v
                 /\ committed'[t] = 1 => intents'[j].state \in {"Consumed", "Gone"}
    BY <2>3, <1>1, <1>3, <1>4 DEF IInv, OnceUse
  <2>4. QED
    BY <2>1, <2>2, <2>3 DEF OnceUse
<1>8. OpenUncommitted' /\ Started'
  BY <1>1, <1>2 DEF IInv, OpenUncommitted, Started
<1>9. Attached' /\ OneSessionPerIntent'
  <2>1. ASSUME NEW j \in Intents, j # i
        PROVE  Usable(j)' \subseteq Usable(j)
    BY <2>1, <1>2, <1>4 DEF Usable, SessionsOf
  <2>2. ASSUME NEW t \in Usable(i)
        PROVE  t \notin live'
    <3>1. intents[i].state = "InProgress" /\ intents[i].session = t
      BY <1>1 DEF MayExchange, IInv, Attached
    <3>2. object[t].expiry = intents[i].session_ttl /\ intents[i].session_ttl < ct
      BY <3>1, <1>1 DEF MayExchange, IInv, Named, TypeOK, IntentState
    <3>3. t \in Expired(ct)
      BY <3>2 DEF Expired, Usable
    <3>4. QED
      BY <3>3, <1>2
  <2>3. Usable(i)' \subseteq {s}
    BY <2>2, <1>2, <1>4 DEF Usable
  <2>4. s \in Usable(i)' => intents'[i].state = "InProgress" /\ intents'[i].session = s
    BY <1>2, <1>3 DEF Usable, InProgress
  <2>5. Attached'
    BY <2>1, <2>3, <2>4, <1>3 DEF IInv, Attached
  <2>6. OneSessionPerIntent'
    BY <2>1, <2>3 DEF IInv, OneSessionPerIntent, Usable
  <2>7. QED
    BY <2>5, <2>6
<1>10. Named'
  <2>1. ASSUME NEW j \in Intents, intents'[j].state = "InProgress", intents'[j] = intents[j]
        PROVE  /\ intents'[j].session \in SessionsOf(j)'
               /\ object'[intents'[j].session].expiry = intents'[j].session_ttl
    <3>1. /\ intents[j].session \in SessionsOf(j)
          /\ object[intents[j].session].expiry = intents[j].session_ttl
      BY <2>1 DEF IInv, Named
    <3>2. intents[j].session # s /\ intents[j].session \in Sids
      BY <3>1, <1>2 DEF SessionsOf
    <3>3. QED
      BY <3>1, <3>2, <2>1, <1>2, <1>4
  <2>2. ok => /\ intents'[i].session \in SessionsOf(i)'
              /\ object'[intents'[i].session].expiry = intents'[i].session_ttl
    BY <1>2, <1>3, <1>4 DEF InProgress
  <2>3. QED
    BY <2>1, <2>2, <1>3 DEF Named
<1>11. QED
  BY <1>5, <1>7, <1>8, <1>9, <1>10 DEF IInv


(* A session without an intent is no session of any intent. *)
LEMMA InitUpdatePreserves ==
  ASSUME IInv, NEW s \in Sids, NEW ct \in Nat, NEW ok \in BOOLEAN, InitUpdate(s, ct, ok)
  PROVE  IInv'
<1>1. CreateSession(s, NoIntent, ct, ok) /\ committed' = committed /\ intents' = intents
  BY DEF InitUpdate, db
<1>2. /\ object' \in [Sids -> Session \cup {NoSession}]
      /\ object'[s] # NoSession /\ object'[s].intent = NoIntent
      /\ \A t \in Sids : t # s => object'[t] = object[t]
      /\ object[s] = NoSession /\ s \notin live /\ s \notin tokens /\ committed[s] = 0
      /\ live' \subseteq live \cup {s} /\ tokens' \subseteq tokens \cup {s}
  BY <1>1, CreateSessionFacts
<1>3. \A j \in Intents : SessionsOf(j)' = SessionsOf(j) /\ s \notin SessionsOf(j)
  BY <1>2, NoneAssumption DEF SessionsOf
<1>4. TypeOK'
  <2>1. \A t \in live' \cup tokens' : t \in Sids /\ object'[t] # NoSession
    BY <1>2 DEF IInv, TypeOK
  <2>2. QED
    BY <1>2, <2>1 DEF InitUpdate, db, IInv, TypeOK
<1>5. OnceUse'
  BY <1>1, <1>3 DEF IInv, OnceUse
<1>6. OpenUncommitted' /\ Started'
  BY <1>1, <1>2 DEF IInv, OpenUncommitted, Started
<1>7. Attached' /\ OneSessionPerIntent'
  <2>1. \A j \in Intents : Usable(j)' \subseteq Usable(j)
    BY <1>2, <1>3 DEF Usable
  <2>2. QED
    BY <2>1, <1>1 DEF IInv, Attached, OneSessionPerIntent, Usable
<1>8. Named'
  <2>1. ASSUME NEW j \in Intents, intents[j].state = "InProgress"
        PROVE  /\ intents[j].session \in SessionsOf(j)'
               /\ object'[intents[j].session].expiry = intents[j].session_ttl
    <3>1. /\ intents[j].session \in SessionsOf(j)
          /\ object[intents[j].session].expiry = intents[j].session_ttl
      BY <2>1 DEF IInv, Named
    <3>2. intents[j].session # s /\ intents[j].session \in Sids
      BY <3>1, <1>3 DEF SessionsOf
    <3>3. QED
      BY <3>1, <3>2, <1>2, <1>3
  <2>2. QED
    BY <2>1, <1>1 DEF Named
<1>9. QED
  BY <1>4, <1>5, <1>6, <1>7, <1>8 DEF IInv

(* What closing a session finds and leaves. *)
LEMMA ClosingFacts ==
  ASSUME IInv, NEW s \in Sids, NEW ct \in Nat, Closing(s, ct), NEW i,
         i = object[s].intent
  PROVE  /\ object[s] \in Session /\ s \in live /\ s \in tokens /\ committed[s] = 0
         /\ live' = live \ {s} /\ object' = object /\ tokens' = tokens /\ txn' = txn
         /\ clock' = clock /\ usedCodes' = usedCodes
         /\ i \in Intents \cup {NoIntent}
         /\ i # NoIntent => /\ intents[i].state = "InProgress"
                            /\ s \in SessionsOf(i)
                            /\ Usable(i) = {s}
                            /\ \A t \in SessionsOf(i) : committed[t] # 1
<1>1. /\ s \in live /\ s \in tokens /\ live' = live \ {s} /\ object' = object
      /\ tokens' = tokens /\ txn' = txn /\ clock' = clock /\ usedCodes' = usedCodes
  BY DEF Closing
<1>2. object[s] # NoSession /\ object[s] \in Session /\ i \in Intents \cup {NoIntent}
  BY <1>1 DEF IInv, TypeOK, Session
<1>3. committed[s] = 0
  BY <1>1 DEF IInv, OpenUncommitted
<1>4. ASSUME i # NoIntent
      PROVE  /\ intents[i].state = "InProgress"
             /\ s \in SessionsOf(i)
             /\ Usable(i) = {s}
             /\ \A t \in SessionsOf(i) : committed[t] # 1
  <2>1. intents[i].state = "InProgress" /\ intents[i].session = s
    BY <1>4 DEF Closing, Held
  <2>2. s \in SessionsOf(i)
    BY <1>2 DEF SessionsOf
  <2>3. \A t \in Usable(i) : t = s
    BY <2>1, <1>2, <1>4 DEF IInv, Attached
  <2>4. Usable(i) = {s}
    BY <2>2, <2>3, <1>1 DEF Usable
  <2>5. \A t \in SessionsOf(i) : committed[t] # 1
    BY <2>1, <1>2, <1>4 DEF IInv, OnceUse
  <2>6. QED
    BY <2>1, <2>2, <2>4, <2>5
<1>5. QED
  BY <1>1, <1>2, <1>3, <1>4

(* What IntentAfter leaves of the intents. *)
LEMMA IntentAfterFacts ==
  ASSUME TypeOK, NEW s \in Sids, NEW i \in Intents \cup {NoIntent}, i = object[s].intent,
         NEW state \in {"Consumed", "Valid"}
  PROVE  /\ IntentAfter(s, state) \in [Intents -> IntentState]
         /\ \A j \in Intents : j # i => IntentAfter(s, state)[j] = intents[j]
         /\ i # NoIntent => IntentAfter(s, state)[i].state = state
<1>1. CASE i = NoIntent
  BY <1>1, NoneAssumption DEF IntentAfter, TypeOK
<1>2. CASE i # NoIntent
  <2> DEFINE after == [Valid(intents[i].max_ttl) EXCEPT !.state = state]
  <2>1. IntentAfter(s, state) = [intents EXCEPT ![i] = after]
    BY <1>2 DEF IntentAfter
  <2>2. after \in IntentState /\ after.state = state
    BY <1>2, Zenon DEF Valid, Unissued, IntentState, TypeOK
  <2>3. intents \in [Intents -> IntentState] /\ i \in Intents
    BY <1>2 DEF TypeOK
  <2> HIDE DEF after
  <2>4. QED
    BY <2>1, <2>2, <2>3
<1>3. QED
  BY <1>1, <1>2

(* A cancelled session gives its intent back, with no session left. *)
LEMMA CancelPreserves ==
  ASSUME IInv, NEW s \in Sids, NEW ct \in Nat, NEW ok \in BOOLEAN, Cancel(s, ct, ok)
  PROVE  IInv'
<1>0. PICK i : i = object[s].intent
  OBVIOUS
<1>1. Closing(s, ct) /\ committed' = committed /\ primary' = primary /\ passkeys' = passkeys
      /\ intents' = IF ok THEN IntentAfter(s, "Valid") ELSE intents
  BY DEF Cancel
<1>3. TypeOK
  BY DEF IInv
<1>2. /\ live' = live \ {s} /\ object' = object /\ tokens' = tokens /\ txn' = txn
      /\ clock' = clock /\ usedCodes' = usedCodes
      /\ i \in Intents \cup {NoIntent}
      /\ i # NoIntent => intents[i].state = "InProgress" /\ Usable(i) = {s}
  BY <1>0, <1>1, ClosingFacts
<1>4. /\ IntentAfter(s, "Valid") \in [Intents -> IntentState]
      /\ \A j \in Intents : j # i => IntentAfter(s, "Valid")[j] = intents[j]
      /\ i # NoIntent => IntentAfter(s, "Valid")[i].state = "Valid"
  BY <1>0, <1>2, <1>3, IntentAfterFacts
<1>5. TypeOK'
  BY <1>1, <1>2, <1>3, <1>4 DEF TypeOK
<1>6. i # NoIntent => Usable(i)' = {}
  BY <1>2 DEF Usable, SessionsOf
<1>7. \A j \in Intents :
        \/ intents'[j] = intents[j]
        \/ intents'[j].state = "Gone"
        \/ /\ intents[j].state \notin {"Consumed", "Gone"}
           /\ intents'[j].state = "Valid"
           /\ Usable(j)' = {}
  BY <1>1, <1>2, <1>4, <1>6, NoneAssumption
<1>8. QED
  BY <1>1, <1>2, <1>5, <1>7, KeptSessions


(* A committed session is the only one of its intent, which is spent. *)
LEMMA CommitPreserves ==
  ASSUME IInv, NEW s \in Sids, NEW ct \in Nat, NEW ok \in BOOLEAN, Commit(s, ct, ok)
  PROVE  IInv'
<1>0. PICK i : i = object[s].intent
  OBVIOUS
<1>1. Closing(s, ct)
  BY DEF Commit
<1>2. /\ object[s] \in Session /\ s \in live /\ committed[s] = 0
      /\ live' = live \ {s} /\ object' = object /\ tokens' = tokens /\ txn' = txn
      /\ clock' = clock /\ usedCodes' = usedCodes
      /\ i \in Intents \cup {NoIntent}
      /\ i # NoIntent => /\ s \in SessionsOf(i)
                         /\ Usable(i) = {s}
                         /\ \A t \in SessionsOf(i) : committed[t] # 1
  BY <1>0, <1>1, ClosingFacts
<1>3. TypeOK
  BY DEF IInv
<1>4. /\ IntentAfter(s, "Consumed") \in [Intents -> IntentState]
      /\ \A j \in Intents : j # i => IntentAfter(s, "Consumed")[j] = intents[j]
      /\ i # NoIntent => IntentAfter(s, "Consumed")[i].state = "Consumed"
  BY <1>0, <1>2, <1>3, IntentAfterFacts
<1>5. CASE ~ok
  <2>1. primary' = primary /\ passkeys' = passkeys /\ intents' = intents
        /\ committed' = committed
    BY <1>5 DEF Commit, db
  <2>2. TypeOK'
    BY <2>1, <1>2, <1>3 DEF TypeOK
  <2>3. QED
    BY <2>1, <2>2, <1>2, KeptSessions
<1>6. CASE ok
  <2>1. /\ primary' = object[s].primary /\ passkeys' = object[s].passkeys
        /\ intents' = IntentAfter(s, "Consumed")
        /\ committed' = [committed EXCEPT ![s] = @ + 1]
    BY <1>6 DEF Commit
  <2>2. /\ committed' \in [Sids -> Nat]
        /\ \A t \in Sids : committed'[t] = IF t = s THEN 1 ELSE committed[t]
    BY <2>1, <1>2, <1>3 DEF TypeOK
  <2>3. TypeOK'
    <3>1. primary' \in Primary /\ passkeys' \subseteq Passkeys
      BY <2>1, <1>2 DEF Session
    <3>2. QED
      BY <2>1, <2>2, <3>1, <1>2, <1>3, <1>4 DEF TypeOK
  <2>4. \A j \in Intents : SessionsOf(j)' = SessionsOf(j)
    BY <1>2 DEF SessionsOf
  <2>5. \A j \in Intents : j # i => s \notin SessionsOf(j)
    BY <1>0 DEF SessionsOf
  <2>6. \A j \in Intents : SessionsOf(j) \subseteq Sids
    BY DEF SessionsOf
  <2>7. OnceUse'
    <3>1. \A t \in Sids : committed'[t] <= 1
      BY <2>2 DEF IInv, OnceUse
    <3>2. ASSUME NEW j \in Intents, NEW t \in SessionsOf(j)', NEW v \in SessionsOf(j)',
                 committed'[t] = 1, committed'[v] = 1
          PROVE  t = v
      <4>1. CASE j = i
        BY <4>1, <3>2, <2>2, <2>4, <2>6, <1>2, NoneAssumption
      <4>2. CASE j # i
        BY <4>2, <3>2, <2>2, <2>4, <2>5, <2>6 DEF IInv, OnceUse
      <4>3. QED
        BY <4>1, <4>2
    <3>3. ASSUME NEW j \in Intents, NEW t \in SessionsOf(j)', committed'[t] = 1
          PROVE  intents'[j].state \in {"Consumed", "Gone"}
      <4>1. CASE j = i
        BY <4>1, <2>1, <1>4, NoneAssumption
      <4>2. CASE j # i
        BY <4>2, <3>3, <2>1, <2>2, <2>4, <2>5, <2>6, <1>4 DEF IInv, OnceUse
      <4>3. QED
        BY <4>1, <4>2
    <3>4. QED
      BY <3>1, <3>2, <3>3 DEF OnceUse
  <2>8. OpenUncommitted' /\ Started'
    <3>1. OpenUncommitted'
      BY <2>2, <1>2, <1>3 DEF IInv, OpenUncommitted, TypeOK
    <3>2. object[s] # NoSession
      BY <1>2, NoSessionAssumption
    <3>3. Started'
      BY <2>2, <3>2, <1>2 DEF IInv, Started
    <3>4. QED
      BY <3>1, <3>3
  <2>9. Attached' /\ OneSessionPerIntent'
    <3>1. \A j \in Intents : Usable(j)' = Usable(j) \ {s}
      BY <2>4, <1>2 DEF Usable
    <3>2. ASSUME NEW j \in Intents, j # i
          PROVE  intents'[j] = intents[j]
      BY <3>2, <2>1, <1>4
    <3>3. Attached'
      BY <3>1, <3>2, <1>2, NoneAssumption DEF IInv, Attached
    <3>4. OneSessionPerIntent'
      BY <3>1 DEF IInv, OneSessionPerIntent, Usable
    <3>5. QED
      BY <3>3, <3>4
  <2>10. Named'
    <3>1. ASSUME NEW j \in Intents, intents'[j].state = "InProgress"
          PROVE  j # i /\ intents'[j] = intents[j]
      BY <3>1, <2>1, <1>2, <1>4, NoneAssumption
    <3>2. QED
      BY <3>1, <2>4, <1>2 DEF IInv, Named
  <2>11. QED
    BY <2>3, <2>7, <2>8, <2>9, <2>10 DEF IInv
<1>7. QED
  BY <1>5, <1>6


-----------------------------------------------------------------------------
(* The edits. *)

(* What every edit of a session comes to: its intent and its expiry stay,    *)
(* and a valid credential stays valid.                                       *)
KeepsIntent(s, new) ==
  /\ new \in Session /\ new.intent = object[s].intent /\ new.expiry = object[s].expiry
  /\ WellFormed(object[s].primary) => WellFormed(new.primary)

(* Only the type, the factors and the codes of a credential make it valid. *)
LEMMA SameFactors ==
  ASSUME NEW a \in Credential, NEW b \in Credential, WellFormed(a),
         b.type = a.type, b.totp = a.totp, b.wan = a.wan,
         b.codes = a.codes \/ a.type = "PasswordMfa"
  PROVE  WellFormed(b)
BY NoCredAssumption DEF WellFormed

(* The operations on a credential keep it valid. *)
LEMMA CredentialsKept ==
  ASSUME NEW cred \in Credential
  PROVE  /\ UpdateTotp(cred) \in Credential
         /\ WellFormed(cred) => WellFormed(UpdateTotp(cred))
         /\ RemoveTotp(cred) \in Credential
         /\ WellFormed(cred) => WellFormed(RemoveTotp(cred))
         /\ \A pw \in Passwords : NewPassword(pw) \in Credential /\ WellFormed(NewPassword(pw))
<1>1. cred # NoCred /\ cred.pw \in Passwords
  BY NoCredAssumption DEF Credential
<1>2. \A pw \in Passwords : NewPassword(pw) \in Credential /\ WellFormed(NewPassword(pw))
  BY DEF NewPassword, Credential, WellFormed
<1>3. UpdateTotp(cred) \in Credential
  BY Zenon DEF UpdateTotp, Credential
<1>4. WellFormed(cred) => WellFormed(UpdateTotp(cred))
  BY <1>1 DEF UpdateTotp, Credential, WellFormed
<1>5. RemoveTotp(cred) \in Credential
  BY <1>1, <1>2, Zenon DEF RemoveTotp, Credential
<1>6. WellFormed(cred) => WellFormed(RemoveTotp(cred))
  BY <1>1, <1>2 DEF RemoveTotp, Credential, WellFormed
<1>7. QED
  BY <1>2, <1>3, <1>4, <1>5, <1>6

(* Every edit of a client replaces a session by one of the same intent and expiry. *)
LEMMA ClientEditIsEdit ==
  ASSUME TypeOK, NEW c \in Clients, ClientEdit(c)
  PROVE  \/ BeginEdit(c)
         \/ EndEdit(c)
         \/ \E s \in Sids, new \in Session : KeepsIntent(s, new) /\ Edit(c, s, new)
<1> SUFFICES ASSUME ~BeginEdit(c), ~EndEdit(c)
             PROVE  \E s \in Sids, new \in Session : KeepsIntent(s, new) /\ Edit(c, s, new)
  OBVIOUS
<1>1. PICK s \in tokens :
       \/ \E pw \in Passwords : SetPassword(c, s, pw)
       \/ InitTotp(c, s) \/ CheckTotp(c, s) \/ AcceptSha1Totp(c, s) \/ RemoveTotpEdit(c, s)
       \/ \E new \in SUBSET FreshCodes : InitBackupCodes(c, s, new)
       \/ RemoveBackupCodes(c, s)
       \/ PasskeyInit(c, s)
       \/ \E k \in Passkeys : PasskeyFinish(c, s, k) \/ PasskeyRemove(c, s, k)
       \/ CancelMfaReg(c, s) \/ PrimaryDelete(c, s)
  BY DEF ClientEdit
<1>2. s \in Sids /\ object[s] \in Session
  BY DEF TypeOK
<1>3. PICK x : x = object[s]
  OBVIOUS
<1>4. /\ x.primary \in Primary
      /\ x.primary # NoCred => x.primary \in Credential
      /\ x.passkeys \subseteq Passkeys /\ x.mfareg \in MfaRegStates
  BY <1>2, <1>3 DEF Session, Primary
<1>5. \A p \in Primary, m \in MfaRegStates : (WellFormed(x.primary) => WellFormed(p)) =>
         KeepsIntent(s, [x EXCEPT !.primary = p, !.mfareg = m])
  BY <1>2, <1>3, <1>4, Zenon DEF KeepsIntent, Session
<1>6. \A m \in MfaRegStates : KeepsIntent(s, [x EXCEPT !.mfareg = m])
  BY <1>2, <1>3, <1>4 DEF KeepsIntent, Session
<1>7. \A p \in Primary : (WellFormed(x.primary) => WellFormed(p)) =>
         KeepsIntent(s, [x EXCEPT !.primary = p])
  BY <1>2, <1>3, <1>4 DEF KeepsIntent, Session
<1>8. \A ks \in SUBSET Passkeys : KeepsIntent(s, [x EXCEPT !.passkeys = ks])
  BY <1>2, <1>3, <1>4 DEF KeepsIntent, Session
<1>9. \A new : KeepsIntent(s, new) => new \in Session
  BY DEF KeepsIntent
<1>10. ASSUME NEW pw \in Passwords, SetPassword(c, s, pw)
       PROVE  \E new \in Session : KeepsIntent(s, new) /\ Edit(c, s, new)
  <2> DEFINE p == IF x.primary = NoCred THEN NewPassword(pw) ELSE [x.primary EXCEPT !.pw = pw]
  <2>1. p \in Primary /\ (WellFormed(x.primary) => WellFormed(p))
    <3>1. NewPassword(pw) \in Credential /\ WellFormed(NewPassword(pw))
      BY DEF NewPassword, Credential, WellFormed
    <3>2. CASE x.primary # NoCred
      <4>1. [x.primary EXCEPT !.pw = pw] \in Credential
        BY <3>2, <1>4 DEF Credential
      <4>2. WellFormed(x.primary) => WellFormed([x.primary EXCEPT !.pw = pw])
        <5> DEFINE y == [x.primary EXCEPT !.pw = pw]
        <5>1. x.primary \in Credential /\ y \in Credential
          BY <3>2, <1>4, <4>1
        <5>2. /\ y.type = x.primary.type /\ y.totp = x.primary.totp
              /\ y.wan = x.primary.wan /\ y.codes = x.primary.codes
          BY <5>1 DEF Credential
        <5> HIDE DEF y
        <5>3. WellFormed(x.primary) => WellFormed(y)
          BY <5>1, <5>2, SameFactors
        <5>4. QED
          BY <5>3 DEF y
      <4>3. QED
        BY <3>2, <4>1, <4>2 DEF Primary
    <3>3. QED
      BY <3>1, <3>2 DEF Primary
  <2>2. Edit(c, s, [x EXCEPT !.primary = p])
    BY <1>10, <1>3 DEF SetPassword
  <2> HIDE DEF p
  <2>3. QED
    BY <2>1, <2>2, <1>7, <1>9

<1>11. ASSUME InitTotp(c, s) \/ PasskeyInit(c, s) \/ CancelMfaReg(c, s)
       PROVE  \E new \in Session : KeepsIntent(s, new) /\ Edit(c, s, new)
  <2>1. \E m \in MfaRegStates : Edit(c, s, [x EXCEPT !.mfareg = m])
    BY <1>11, <1>3 DEF InitTotp, PasskeyInit, CancelMfaReg, MfaRegStates
  <2>2. QED
    BY <2>1, <1>6, <1>9
<1>12. ASSUME CheckTotp(c, s) \/ AcceptSha1Totp(c, s)
       PROVE  \E new \in Session : KeepsIntent(s, new) /\ Edit(c, s, new)
  <2>1. CASE /\ x.primary # NoCred
             /\ Edit(c, s, [x EXCEPT !.primary = UpdateTotp(x.primary), !.mfareg = "None"])
    <3>1. /\ UpdateTotp(x.primary) \in Primary
          /\ WellFormed(x.primary) => WellFormed(UpdateTotp(x.primary))
      <4>1. x.primary \in Credential
        BY <2>1, <1>4
      <4>2. QED
        BY <4>1, CredentialsKept DEF Primary
    <3>2. "None" \in MfaRegStates
      BY DEF MfaRegStates
    <3>3. QED
      BY <2>1, <3>1, <3>2, <1>5, <1>9, Zenon
  <2>2. CASE \E m \in MfaRegStates : Edit(c, s, [x EXCEPT !.mfareg = m])
    BY <2>2, <1>6, <1>9
  <2>3. QED
    BY <1>12, <2>1, <2>2, <1>3 DEF CheckTotp, AcceptSha1Totp, MfaRegStates
<1>13. ASSUME RemoveTotpEdit(c, s)
       PROVE  \E new \in Session : KeepsIntent(s, new) /\ Edit(c, s, new)
  <2>1. x.primary # NoCred /\ Edit(c, s, [x EXCEPT !.primary = RemoveTotp(x.primary)])
    BY <1>13, <1>3 DEF RemoveTotpEdit
  <2>2. /\ RemoveTotp(x.primary) \in Primary
        /\ WellFormed(x.primary) => WellFormed(RemoveTotp(x.primary))
    <3>1. x.primary \in Credential
      BY <2>1, <1>4
    <3>2. QED
      BY <3>1, CredentialsKept DEF Primary
  <2>3. QED
    BY <2>1, <2>2, <1>7, <1>9
<1>14. ASSUME NEW new \in SUBSET Codes,
              InitBackupCodes(c, s, new) \/ (new = {} /\ RemoveBackupCodes(c, s))
       PROVE  \E y \in Session : KeepsIntent(s, y) /\ Edit(c, s, y)
  <2> DEFINE p == [x.primary EXCEPT !.codes = new]
  <2>1. x.primary # NoCred /\ x.primary.type = "PasswordMfa"
    BY <1>14, <1>3 DEF InitBackupCodes, RemoveBackupCodes, TakesCodes
  <2>2. p \in Credential
    BY <2>1, <1>4 DEF Credential
  <2>3. WellFormed(x.primary) => WellFormed(p)
    <3>1. x.primary \in Credential
      BY <2>1, <1>4
    <3>2. p.type = x.primary.type /\ p.totp = x.primary.totp /\ p.wan = x.primary.wan
      BY <3>1 DEF Credential
    <3> HIDE DEF p
    <3>3. QED
      BY <3>1, <3>2, <2>1, <2>2, SameFactors
  <2>4. [x EXCEPT !.primary.codes = new] = [x EXCEPT !.primary = p]
    BY <1>2, <1>3 DEF Session
  <2>5. Edit(c, s, [x EXCEPT !.primary = p])
    BY <1>14, <1>3, <2>4 DEF InitBackupCodes, RemoveBackupCodes
  <2> HIDE DEF p
  <2>6. QED
    BY <2>2, <2>3, <2>5, <1>7, <1>9 DEF Primary
<1>15. ASSUME NEW k \in Passkeys, PasskeyFinish(c, s, k) \/ PasskeyRemove(c, s, k)
       PROVE  \E new \in Session : KeepsIntent(s, new) /\ Edit(c, s, new)
  <2>1. CASE PasskeyFinish(c, s, k)
    <3> DEFINE new == [x EXCEPT !.passkeys = @ \cup {k}, !.mfareg = "None"]
    <3>1. KeepsIntent(s, new)
      BY <1>2, <1>3, <1>4, Zenon DEF KeepsIntent, Session, MfaRegStates
    <3>2. Edit(c, s, new)
      BY <2>1, <1>3 DEF PasskeyFinish
    <3> HIDE DEF new
    <3>3. QED
      BY <3>1, <3>2, <1>9
  <2>2. CASE PasskeyRemove(c, s, k)
    <3>1. Edit(c, s, [x EXCEPT !.passkeys = x.passkeys \ {k}])
      BY <2>2, <1>3 DEF PasskeyRemove
    <3>2. x.passkeys \ {k} \in SUBSET Passkeys
      BY <1>4
    <3>3. QED
      BY <3>1, <3>2, <1>8, <1>9
  <2>3. QED
    BY <1>15, <2>1, <2>2
<1>16. ASSUME PrimaryDelete(c, s)
       PROVE  \E new \in Session : KeepsIntent(s, new) /\ Edit(c, s, new)
  <2>1. Edit(c, s, [x EXCEPT !.primary = NoCred])
    BY <1>16, <1>3 DEF PrimaryDelete
  <2>2. NoCred \in Primary /\ WellFormed(NoCred)
    BY DEF Primary, WellFormed
  <2>3. QED
    BY <2>1, <2>2, <1>7, <1>9
<1>17. FreshCodes \subseteq Codes
  BY DEF FreshCodes
<1>18. \E new \in Session : KeepsIntent(s, new) /\ Edit(c, s, new)
  <2>1. CASE \E pw \in Passwords : SetPassword(c, s, pw)
    BY <2>1, <1>10
  <2>2. CASE \E new \in SUBSET FreshCodes : InitBackupCodes(c, s, new)
    BY <2>2, <1>14, <1>17
  <2>3. CASE RemoveBackupCodes(c, s)
    <3>1. {} \in SUBSET Codes
      OBVIOUS
    <3>2. QED
      BY <2>3, <3>1, <1>14, Zenon
  <2>4. CASE \E k \in Passkeys : PasskeyFinish(c, s, k) \/ PasskeyRemove(c, s, k)
    BY <2>4, <1>15
  <2>5. CASE InitTotp(c, s) \/ PasskeyInit(c, s) \/ CancelMfaReg(c, s)
    BY <2>5, <1>11
  <2>6. CASE CheckTotp(c, s) \/ AcceptSha1Totp(c, s)
    BY <2>6, <1>12
  <2>7. CASE RemoveTotpEdit(c, s)
    BY <2>7, <1>13
  <2>8. CASE PrimaryDelete(c, s)
    BY <2>8, <1>16
  <2>9. QED
    BY <1>1, <2>1, <2>2, <2>3, <2>4, <2>5, <2>6, <2>7, <2>8
<1>19. QED
  BY <1>2, <1>18

(* An edit leaves every intent with the sessions it had. *)
LEMMA EditPreserves ==
  ASSUME IInv, NEW c \in Clients, NEW s \in Sids, NEW new \in Session,
         KeepsIntent(s, new), Edit(c, s, new)
  PROVE  IInv'
<1>1. /\ object' = [object EXCEPT ![s] = new] /\ object[s] # NoSession
      /\ txn' = [txn EXCEPT ![c] = NoTxn]
      /\ UNCHANGED <<clock, primary, passkeys, intents, live, tokens, committed, usedCodes>>
  BY DEF Edit, db, IInv, TypeOK
<1>2. TypeOK'
  BY <1>1, NoSessionAssumption DEF IInv, TypeOK, NoTxn
<1>3. \A t \in Sids : object'[t] = IF t = s THEN new ELSE object[t]
  BY <1>1 DEF IInv, TypeOK
<1>4. new # NoSession
  BY NoSessionAssumption
<1>5. QED
  BY <1>1, <1>2, <1>3, <1>4, KeptSessions DEF KeepsIntent


-----------------------------------------------------------------------------
(* The theorems. *)

(* The steps that touch no session and no intent. *)
LEMMA QuietPreserves ==
  ASSUME IInv, TypeOK', live' \subseteq live,
         UNCHANGED <<intents, object, tokens, committed>>
  PROVE  IInv'
BY KeptSessions

(* Every write transaction, edit, restart and tick keeps the invariant. *)
LEMMA NextPreserves == IInv /\ [Next]_vars => IInv'
<1> SUFFICES ASSUME IInv, [Next]_vars PROVE IInv'
  OBVIOUS
<1>0. TypeOK
  BY DEF IInv
<1>1. ASSUME NEW ct \in Now, NEW i \in Intents, NEW ttl \in 0 .. IntentTTL + 1,
             InitIntent(i, ttl, ct)
      PROVE  IInv'
  BY <1>0, <1>1, NowIsPast, InitIntentPreserves, TimeAssumption
<1>2. ASSUME NEW ct \in Now, NEW s \in Sids, NEW ok \in BOOLEAN, NEW i \in Intents,
             Exchange(i, s, ct, ok)
      PROVE  IInv'
  BY <1>0, <1>2, NowIsPast, ExchangePreserves
<1>3. ASSUME NEW ct \in Now, NEW s \in Sids, NEW ok \in BOOLEAN, InitUpdate(s, ct, ok)
      PROVE  IInv'
  BY <1>0, <1>3, NowIsPast, InitUpdatePreserves
<1>4. ASSUME NEW ct \in Now, NEW s \in Sids, NEW ok \in BOOLEAN, Commit(s, ct, ok)
      PROVE  IInv'
  BY <1>0, <1>4, NowIsPast, CommitPreserves
<1>5. ASSUME NEW ct \in Now, NEW s \in Sids, NEW ok \in BOOLEAN, Cancel(s, ct, ok)
      PROVE  IInv'
  BY <1>0, <1>5, NowIsPast, CancelPreserves
<1>6. ASSUME Write
      PROVE  IInv'
  BY <1>6, <1>1, <1>2, <1>3, <1>4, <1>5 DEF Write
<1>7. ASSUME NEW c \in Clients, ClientEdit(c)
      PROVE  IInv'
  <2>1. CASE BeginEdit(c)
    <3>1. TypeOK'
      BY <2>1, <1>0, NowIsPast DEF BeginEdit, TypeOK, db, mem
    <3>2. QED
      BY <2>1, <3>1, QuietPreserves DEF BeginEdit, db, mem
  <2>2. CASE EndEdit(c)
    <3>1. TypeOK'
      BY <2>2, <1>0 DEF EndEdit, TypeOK, NoTxn, db, mem
    <3>2. QED
      BY <2>2, <3>1, QuietPreserves DEF EndEdit, db, mem
  <2>3. CASE \E s \in Sids, new \in Session : KeepsIntent(s, new) /\ Edit(c, s, new)
    BY <2>3, EditPreserves
  <2>4. QED
    BY <1>0, <1>7, <2>1, <2>2, <2>3, ClientEditIsEdit
<1>8. ASSUME NEW code \in Codes, BackupCodeRemoval(code)
      PROVE  IInv'
  <2>1. primary' \in Primary
    BY <1>0, <1>8 DEF BackupCodeRemoval, TypeOK, Primary, Credential
  <2>2. TypeOK'
    BY <2>1, <1>0, <1>8 DEF BackupCodeRemoval, TypeOK, mem
  <2>3. QED
    BY <2>2, <1>8, QuietPreserves DEF BackupCodeRemoval, mem
<1>9. ASSUME Restart
      PROVE  IInv'
  <2>1. TypeOK'
    BY <1>0, <1>9 DEF Restart, TypeOK, NoTxn, db
  <2>2. QED
    BY <2>1, <1>9, QuietPreserves DEF Restart, db
<1>10. ASSUME Tick
       PROVE  IInv'
  <2>1. TypeOK'
    BY <1>0, <1>10 DEF Tick, TypeOK, db, mem
  <2>2. QED
    BY <2>1, <1>10, QuietPreserves DEF Tick, db, mem
<1>11. ASSUME UNCHANGED vars
       PROVE  IInv'
  <2>1. TypeOK'
    BY <1>0, <1>11 DEF vars, TypeOK, db, mem
  <2>2. QED
    BY <2>1, <1>11, QuietPreserves DEF vars, db, mem
<1>12. QED
  BY <1>6, <1>7, <1>8, <1>9, <1>10, <1>11 DEF Next

(* The inductive invariant of intents and sessions always holds. *)
LEMMA Invariance == Spec => []IInv
<1>1. QED
  BY InitIInv, NextPreserves, PTL DEF Spec

(* The types of the credential update sessions, the intents and the account  *)
(* they edit (credupdatesession.rs).                                         *)
THEOREM TypesHold == Spec => []TypeOK
<1>1. IInv => TypeOK
  BY DEF IInv
<1>2. QED
  BY <1>1, Invariance, PTL

(* An intent token leads to at most one commit, whatever is exchanged again  *)
(* after a timeout, committed late, lost by a restart or not stored by the   *)
(* database (exchange_intent_credential_update, commit_credential_update).   *)
THEOREM IntentsAreOnceUse == Spec => []OnceUse
<1>1. IInv => OnceUse
  BY DEF IInv
<1>2. QED
  BY <1>1, Invariance, PTL

(* At most one session of an intent can be committed at any time             *)
(* (exchange_intent_credential_update, expire_credential_update_sessions).   *)
THEOREM IntentsHaveOneSession == Spec => []OneSessionPerIntent
<1>1. IInv => OneSessionPerIntent
  BY DEF IInv
<1>2. QED
  BY <1>1, Invariance, PTL


(* A step stores what a session holds, or takes a code away. *)
LEMMA CredentialStep ==
  ASSUME IInv, CInv, [Next]_vars
  PROVE  CInv'
<1>0. TypeOK
  BY DEF IInv
<1>1. ASSUME NEW s \in Sids, NEW ct \in Nat, NEW ok \in BOOLEAN,
             NEW i \in Intents \cup {NoIntent}, CreateSession(s, i, ct, ok),
             primary' = primary
      PROVE  CInv'
  <2>1. \A t \in Sids : t # s => object'[t] = object[t]
    BY <1>1, CreateSessionFacts
  <2>2. object'[s].primary = primary
    BY <1>0, <1>1 DEF CreateSession, TypeOK
  <2>3. QED
    BY <2>1, <2>2, <1>1 DEF CInv, CredentialValid, SnapshotsValid
<1>2. ASSUME UNCHANGED <<primary, object>>
      PROVE  CInv'
  BY <1>2 DEF CInv, CredentialValid, SnapshotsValid
<1>3. ASSUME Write
      PROVE  CInv'
  <2>1. PICK ct \in Now :
          \/ \E i \in Intents, ttl \in 0 .. IntentTTL + 1 : InitIntent(i, ttl, ct)
          \/ \E s \in Sids, ok \in BOOLEAN :
               \/ \E i \in Intents : Exchange(i, s, ct, ok)
               \/ InitUpdate(s, ct, ok)
               \/ Commit(s, ct, ok)
               \/ Cancel(s, ct, ok)
    BY <1>3 DEF Write
  <2>2. ct \in Nat
    BY <1>0, NowIsPast
  <2>3. CASE \E i \in Intents, ttl \in 0 .. IntentTTL + 1 : InitIntent(i, ttl, ct)
    BY <2>3, <1>2 DEF InitIntent, mem
  <2>4. ASSUME NEW s \in Sids, NEW ok \in BOOLEAN, NEW i \in Intents, Exchange(i, s, ct, ok)
        PROVE  CInv'
    BY <2>2, <2>4, <1>1 DEF Exchange
  <2>5. ASSUME NEW s \in Sids, NEW ok \in BOOLEAN, InitUpdate(s, ct, ok)
        PROVE  CInv'
    BY <2>2, <2>5, <1>1 DEF InitUpdate, db
  <2>6. ASSUME NEW s \in Sids, NEW ok \in BOOLEAN, Commit(s, ct, ok)
        PROVE  CInv'
    <3>1. object' = object /\ object[s] # NoSession
      BY <2>6, <1>0 DEF Commit, Closing, TypeOK
    <3>2. primary' = object[s].primary \/ primary' = primary
      BY <2>6 DEF Commit, db
    <3>3. QED
      BY <3>1, <3>2 DEF CInv, CredentialValid, SnapshotsValid
  <2>7. ASSUME NEW s \in Sids, NEW ok \in BOOLEAN, Cancel(s, ct, ok)
        PROVE  CInv'
    BY <2>7, <1>2 DEF Cancel, Closing
  <2>8. QED
    BY <2>1, <2>3, <2>4, <2>5, <2>6, <2>7
<1>4. ASSUME NEW c \in Clients, ClientEdit(c)
      PROVE  CInv'
  <2>1. CASE BeginEdit(c) \/ EndEdit(c)
    BY <2>1, <1>2 DEF BeginEdit, EndEdit, db, mem
  <2>2. ASSUME NEW s \in Sids, NEW new \in Session, KeepsIntent(s, new), Edit(c, s, new)
        PROVE  CInv'
    <3>1. /\ object[s] # NoSession /\ primary' = primary
          /\ \A t \in Sids : object'[t] = IF t = s THEN new ELSE object[t]
      BY <2>2, <1>0 DEF Edit, TypeOK, db
    <3>2. WellFormed(object[s].primary) /\ WellFormed(new.primary)
      BY <2>2, <3>1 DEF CInv, SnapshotsValid, KeepsIntent
    <3>3. QED
      BY <3>1, <3>2 DEF CInv, CredentialValid, SnapshotsValid
  <2>3. QED
    BY <1>0, <1>4, <2>1, <2>2, ClientEditIsEdit
<1>5. ASSUME NEW code \in Codes, BackupCodeRemoval(code)
      PROVE  CInv'
  <2>1. primary \in Credential /\ object' = object
        /\ primary' = [primary EXCEPT !.codes = @ \ {code}]
    BY <1>0, <1>5 DEF BackupCodeRemoval, TypeOK, Primary, mem
  <2>2. primary.type = "PasswordMfa"
    BY <1>5, <2>1, NoCredAssumption DEF BackupCodeRemoval, CInv, CredentialValid, WellFormed,
          Credential
  <2>3. /\ primary' \in Credential
        /\ primary'.type = primary.type /\ primary'.totp = primary.totp
        /\ primary'.wan = primary.wan
    BY <2>1 DEF Credential
  <2>4. WellFormed(primary')
    BY <2>1, <2>2, <2>3, SameFactors, Zenon DEF CInv, CredentialValid
  <2>5. QED
    BY <2>1, <2>4 DEF CInv, CredentialValid, SnapshotsValid
<1>6. ASSUME Restart \/ Tick \/ UNCHANGED vars
      PROVE  CInv'
  BY <1>6, <1>2 DEF Restart, Tick, vars, db, mem
<1>7. QED
  BY <1>3, <1>4, <1>5, <1>6 DEF Next

(* No sequence of edits, commits and backup code removals leaves the account *)
(* with a credential that Credential::is_valid refuses                       *)
(* (credential/mod.rs).                                                      *)
THEOREM CredentialStaysValid == Spec => []CredentialValid
<1>1. Init => CInv
  BY DEF Init, CInv, CredentialValid, SnapshotsValid, WellFormed
<1>2. IInv /\ CInv /\ [Next]_vars => CInv'
  BY CredentialStep
<1>3. CInv => CredentialValid
  BY DEF CInv
<1>4. QED
  BY <1>1, <1>2, <1>3, Invariance, PTL DEF Spec


(* An intent that a step leaves alone, gives back or removes is not spent by *)
(* it; one that it exchanges is held for the session's lifetime; one that it *)
(* spends has the session that was committed.                                *)
LEMMA SpentStep ==
  ASSUME IInv, NeverSpentInVain,
         clock \in Nat, clock' \in Nat, clock <= clock', TypeOK',
         \A i \in Intents : \A s \in SessionsOf(i) :
            s \in SessionsOf(i)' /\ (committed[s] = 1 => committed'[s] = 1),
         \A i \in Intents :
            \/ intents'[i] = intents[i]
            \/ intents'[i].state \in {"Valid", "Gone"}
            \/ /\ intents'[i].state = "InProgress"
               /\ \E ct \in Nat : ct <= clock /\ intents'[i].session_ttl = ct + TTL
            \/ /\ intents'[i].state = "Consumed"
               /\ \E s \in SessionsOf(i)' : committed'[s] = 1
  PROVE  NeverSpentInVain'
<1>1. ASSUME NEW i \in Intents, intents'[i].state = "Consumed"
      PROVE  \E s \in SessionsOf(i)' : committed'[s] = 1
  <2>1. CASE intents'[i] = intents[i]
    <3>1. PICK s \in SessionsOf(i) : committed[s] = 1
      BY <1>1, <2>1 DEF NeverSpentInVain
    <3>2. s \in SessionsOf(i)' /\ committed'[s] = 1
      BY <3>1
    <3>3. QED
      BY <3>2
  <2>2. CASE intents'[i] # intents[i]
    BY <1>1, <2>2
  <2>3. QED
    BY <2>1, <2>2
<1>2. ASSUME NEW i \in Intents, intents'[i].state = "InProgress"
      PROVE  intents'[i].session_ttl <= clock' + TTL
  <2>1. CASE intents'[i] = intents[i]
    <3>1. intents[i].session_ttl <= clock + TTL /\ intents[i].session_ttl \in Nat
      BY <1>2, <2>1 DEF NeverSpentInVain, IInv, TypeOK, IntentState
    <3>2. QED
      BY <2>1, <3>1, TimeAssumption
  <2>2. CASE intents'[i] # intents[i]
    <3>1. PICK ct \in Nat : ct <= clock /\ intents'[i].session_ttl = ct + TTL
      BY <1>2, <2>2
    <3>2. QED
      BY <3>1, TimeAssumption
  <2>3. QED
    BY <2>1, <2>2
<1>3. QED
  BY <1>1, <1>2 DEF NeverSpentInVain

(* No step spends an intent without a stored commit or extends its session. *)
LEMMA SpentNext ==
  ASSUME IInv, IInv', NeverSpentInVain, [Next]_vars
  PROVE  NeverSpentInVain'
<1>0. TypeOK /\ TypeOK' /\ clock \in Nat /\ clock' \in Nat
  BY DEF IInv, TypeOK
<1>1. ASSUME NEW s \in Sids, NEW ct \in Nat, NEW ok \in BOOLEAN,
             NEW i \in Intents \cup {NoIntent}, CreateSession(s, i, ct, ok)
      PROVE  \A j \in Intents : SessionsOf(j) \subseteq SessionsOf(j)'
  <2>1. \A t \in Sids : t # s => object'[t] = object[t]
    BY <1>1, CreateSessionFacts
  <2>2. object[s] = NoSession
    BY <1>1 DEF CreateSession
  <2>3. QED
    BY <2>1, <2>2 DEF SessionsOf
<1>2. ASSUME UNCHANGED <<intents, object, committed>>, clock <= clock'
      PROVE  NeverSpentInVain'
  <2>1. \A j \in Intents : SessionsOf(j)' = SessionsOf(j)
    BY <1>2 DEF SessionsOf
  <2>2. QED
    BY <2>1, <1>0, <1>2, SpentStep
<1>3. clock <= clock
  BY <1>0
<1>4. ASSUME NEW ct \in Now, NEW i \in Intents, NEW ttl \in 0 .. IntentTTL + 1,
             InitIntent(i, ttl, ct)
      PROVE  NeverSpentInVain'
  <2>1. \A j \in Intents : SessionsOf(j)' = SessionsOf(j)
    BY <1>4 DEF InitIntent, mem, SessionsOf
  <2>2. Gone.state = "Gone" /\ Valid(ct + Clamp(ttl)).state = "Valid"
    BY DEF Gone, Valid, Unissued
  <2>3. \A j \in Intents : intents'[j] = intents[j] \/ intents'[j].state \in {"Valid", "Gone"}
    BY <1>4, <2>2 DEF InitIntent
  <2>4. clock' = clock /\ committed' = committed
    BY <1>4 DEF InitIntent
  <2>5. QED
    BY <2>1, <2>3, <2>4, <1>0, <1>3, SpentStep
<1>5. ASSUME NEW ct \in Now, NEW s \in Sids, NEW ok \in BOOLEAN, NEW i \in Intents,
             Exchange(i, s, ct, ok)
      PROVE  NeverSpentInVain'
  <2>1. ct \in Nat /\ ct <= clock
    BY <1>0, NowIsPast
  <2>2. \A j \in Intents : SessionsOf(j) \subseteq SessionsOf(j)'
    BY <2>1, <1>1, <1>5 DEF Exchange
  <2>3. \A j \in Intents :
          \/ intents'[j] = intents[j]
          \/ intents'[j].state = "InProgress" /\ intents'[j].session_ttl = ct + TTL
    <3>1. \/ intents' = intents
          \/ intents' = [intents EXCEPT ![i] = InProgress(intents[i].max_ttl, s, ct + TTL)]
      BY <1>5 DEF Exchange
    <3>2. \A m : /\ InProgress(m, s, ct + TTL).state = "InProgress"
                 /\ InProgress(m, s, ct + TTL).session_ttl = ct + TTL
      BY DEF InProgress
    <3>3. intents \in [Intents -> IntentState]
      BY <1>0 DEF TypeOK
    <3>4. QED
      BY <3>1, <3>2, <3>3
  <2>4. clock' = clock /\ committed' = committed
    BY <1>5 DEF Exchange
  <2>5. QED
    BY <2>1, <2>2, <2>3, <2>4, <1>0, <1>3, SpentStep
<1>6. ASSUME NEW ct \in Now, NEW s \in Sids, NEW ok \in BOOLEAN, InitUpdate(s, ct, ok)
      PROVE  NeverSpentInVain'
  <2>1. ct \in Nat
    BY <1>0, NowIsPast
  <2>2. \A j \in Intents : SessionsOf(j) \subseteq SessionsOf(j)'
    BY <2>1, <1>1, <1>6 DEF InitUpdate
  <2>3. clock' = clock /\ committed' = committed /\ intents' = intents
    BY <1>6 DEF InitUpdate, db
  <2>4. QED
    BY <2>2, <2>3, <1>0, <1>3, SpentStep
<1>7. ASSUME NEW ct \in Now, NEW s \in Sids, NEW ok \in BOOLEAN,
             Commit(s, ct, ok) \/ Cancel(s, ct, ok)
      PROVE  NeverSpentInVain'
  <2>0. PICK i : i = object[s].intent
    OBVIOUS
  <2>1. ct \in Nat /\ Closing(s, ct)
    BY <1>0, <1>7, NowIsPast DEF Commit, Cancel
  <2>2. /\ object' = object /\ clock' = clock /\ committed[s] = 0
        /\ i \in Intents \cup {NoIntent} /\ (i # NoIntent => s \in SessionsOf(i))
    BY <2>0, <2>1, ClosingFacts
  <2>3. \A j \in Intents : SessionsOf(j)' = SessionsOf(j) /\ SessionsOf(j) \subseteq Sids
    BY <2>2 DEF SessionsOf
  <2>4. CASE Cancel(s, ct, ok)
    <3>1. \A j \in Intents : j # i => IntentAfter(s, "Valid")[j] = intents[j]
      BY <1>0, <2>0, <2>2, IntentAfterFacts
    <3>2. i # NoIntent => IntentAfter(s, "Valid")[i].state = "Valid"
      BY <1>0, <2>0, <2>2, IntentAfterFacts
    <3>3. committed' = committed /\ (intents' = intents \/ intents' = IntentAfter(s, "Valid"))
      BY <2>4 DEF Cancel
    <3>4. \A j \in Intents : intents'[j] = intents[j] \/ intents'[j].state = "Valid"
      BY <3>1, <3>2, <3>3, NoneAssumption
    <3>5. QED
      BY <3>3, <3>4, <2>2, <2>3, <1>0, <1>3, SpentStep
  <2>5. CASE Commit(s, ct, ok) /\ ~ok
    BY <2>2, <2>5, <1>2, <1>3 DEF Commit, db
  <2>6. CASE Commit(s, ct, ok) /\ ok
    <3>1. \A j \in Intents : j # i => IntentAfter(s, "Consumed")[j] = intents[j]
      BY <1>0, <2>0, <2>2, IntentAfterFacts
    <3>2. i # NoIntent => IntentAfter(s, "Consumed")[i].state = "Consumed"
      BY <1>0, <2>0, <2>2, IntentAfterFacts
    <3>3. /\ intents' = IntentAfter(s, "Consumed")
          /\ committed'[s] = 1 /\ \A t \in Sids : t # s => committed'[t] = committed[t]
      <4>1. /\ intents' = IntentAfter(s, "Consumed")
            /\ committed' = [committed EXCEPT ![s] = committed[s] + 1]
        BY <2>6 DEF Commit
      <4>2. committed \in [Sids -> Nat]
        BY <1>0 DEF TypeOK
      <4>3. committed[s] = 0
        BY <2>2
      <4>4. QED
        BY <4>1, <4>2, <4>3
    <3>4. \A j \in Intents :
            \/ intents'[j] = intents[j]
            \/ /\ intents'[j].state = "Consumed"
               /\ \E t \in SessionsOf(j)' : committed'[t] = 1
      BY <3>1, <3>2, <3>3, <2>2, <2>3, NoneAssumption
    <3>5. \A j \in Intents : \A t \in SessionsOf(j) :
            t \in SessionsOf(j)' /\ (committed[t] = 1 => committed'[t] = 1)
      BY <3>3, <2>2, <2>3
    <3>6. QED
      BY <3>4, <3>5, <2>2, <1>0, <1>3, SpentStep
  <2>7. QED
    BY <1>7, <2>4, <2>5, <2>6
<1>8. ASSUME NEW c \in Clients, ClientEdit(c)
      PROVE  NeverSpentInVain'
  <2>1. CASE BeginEdit(c) \/ EndEdit(c)
    BY <2>1, <1>2, <1>3 DEF BeginEdit, EndEdit, db, mem
  <2>2. ASSUME NEW s \in Sids, NEW new \in Session, KeepsIntent(s, new), Edit(c, s, new)
        PROVE  NeverSpentInVain'
    <3>1. /\ object[s] # NoSession /\ new # NoSession
          /\ intents' = intents /\ committed' = committed /\ clock' = clock
          /\ \A t \in Sids : object'[t] = IF t = s THEN new ELSE object[t]
      BY <2>2, <1>0, NoSessionAssumption DEF Edit, TypeOK, db
    <3>2. \A j \in Intents : SessionsOf(j)' = SessionsOf(j)
      BY <2>2, <3>1 DEF KeepsIntent, SessionsOf
    <3>3. QED
      BY <3>1, <3>2, <1>0, <1>3, SpentStep
  <2>3. QED
    BY <1>0, <1>8, <2>1, <2>2, ClientEditIsEdit
<1>9. ASSUME (\E code \in Codes : BackupCodeRemoval(code)) \/ Restart \/ UNCHANGED vars
      PROVE  NeverSpentInVain'
  BY <1>9, <1>2, <1>3 DEF BackupCodeRemoval, Restart, vars, db, mem
<1>10. ASSUME Tick
       PROVE  NeverSpentInVain'
  <2>1. clock <= clock'
    BY <1>0, <1>10 DEF Tick
  <2>2. QED
    BY <2>1, <1>2, <1>10 DEF Tick, db, mem
<1>11. ASSUME Write
       PROVE  NeverSpentInVain'
  BY <1>11, <1>4, <1>5, <1>6, <1>7 DEF Write
<1>12. QED
  BY <1>8, <1>9, <1>10, <1>11 DEF Next

(* An intent token is spent only by a commit that was stored, and a session  *)
(* that is lost or cancelled holds it no longer than its own lifetime        *)
(* (cancel_credential_update, commit_credential_update).                     *)
THEOREM IntentsNeverSpentInVain == Spec => []NeverSpentInVain
<1>1. Init => NeverSpentInVain
  BY DEF Init, NeverSpentInVain, Unissued
<1>2. IInv /\ IInv' /\ NeverSpentInVain /\ [Next]_vars => NeverSpentInVain'
  BY SpentNext
<1>3. QED
  BY <1>1, <1>2, Invariance, PTL DEF Spec

=============================================================================
