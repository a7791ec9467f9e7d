----------------------------- MODULE AuthProofs -----------------------------
(***************************************************************************)
(* What holds of authentication for any accounts, any number of sessions   *)
(* and of unix and ldap checks, any delays and any age of the time that a  *)
(* request uses: failures on a soft lock are spaced and bounded, sessions  *)
(* succeed with their factors in order and keep their verdict, and delayed *)
(* actions change no password and forget no spent backup code.             *)
(***************************************************************************)
EXTENDS Auth, WellFoundedInduction, TLAPS

(* The provers to try on a step, in order, and the time each one has. *)
USE ZenonT(5), SMTT(30), SMTT(60), ZenonT(30), SMTT(90)

(***************************************************************************)
(* The invariant of the locks.                                             *)
(***************************************************************************)

Lock == [state : {"init", "locked", "unlocked"}, count : Nat, reset_at : Int, unlock_at : Int,
         policy : Policies, barrier : Int, fails : Nat, late : Nat]

\* A lock whose last failure stands in the way of another attempt is locked,
\* for every time there may be up to that.
Spaced(lock, t) ==
  lock.barrier # -1 =>
    /\ lock.state = "locked" /\ t <= lock.barrier
    /\ lock.barrier <= lock.reset_at /\ lock.barrier <= lock.unlock_at

\* The lock counts the failures of the window that t is in.
Counting(lock, t) == lock.state # "init" /\ lock.reset_at > t

\* The count is below its limit or holds the lock to the end of the window,
\* and the failures of the window are those of the count and of the counts
\* that a late one ended.
Bounded(lock, t) ==
  lock.policy \in {"password", "totp"} =>
    /\ lock.count <= Limit(lock.policy)
    /\ lock.count = Limit(lock.policy) => lock.state = "locked" /\ lock.unlock_at = lock.reset_at
    /\ lock.state # "init" => lock.reset_at % Length(lock.policy) = 0
    /\ lock.fails <= Limit(lock.policy) * lock.late + (IF Counting(lock, t) THEN lock.count ELSE 0)

LockOK(lock, t) == lock \in Lock /\ Spaced(lock, t) /\ Bounded(lock, t)

LInv ==
  /\ now \in Nat
  /\ locks \in [LockIds -> Lock \cup {Free}]
  /\ \A l \in LockIds : locks[l] # Free => LockOK(locks[l], now)
  /\ DOMAIN softlocks = Uuids
  /\ \A u \in Uuids : softlocks[u] \in LockIds => locks[softlocks[u]] # Free
  /\ DOMAIN tasks = Tasks
  /\ \A t \in Tasks : tasks[t] # Idle =>
       /\ tasks[t] = [pc |-> tasks[t].pc, lock |-> tasks[t].lock, cred |-> tasks[t].cred,
                      ct |-> tasks[t].ct]
       /\ tasks[t].pc \in {"insert", "lock"} /\ tasks[t].cred \in Credential
       /\ tasks[t].ct \in 0 .. now
       /\ tasks[t].pc = "lock" /\ tasks[t].lock \in LockIds => locks[tasks[t].lock] # Free

(***************************************************************************)
(* The invariant of the sessions and of the account.                       *)
(***************************************************************************)

Kinds == {"password", "totp", "securitykey", "passkey", "anonymous", "backupcode"}

Open ==
  [st : {"init", "inprogress"}, handlers : SUBSET Mechs, mech : Mechs \cup {"none"},
   cred : Credential \cup {NoCred}, mfa : {"init", "success"}, started : Nat, proved : Seq(Kinds)]
Succeeded == [st : {"success"}, started : Nat, mech : Mechs, proved : Seq(Kinds)]
Ended == [st : {"denied"}, started : Nat]

\* An open session has a handler for its mechanism, and the handlers of
\* passwords have a credential.
Handled(a) ==
  /\ a.mech \in a.handlers \cup {"none"} /\ (a.st = "inprogress" <=> a.mech # "none")
  /\ a.cred = NoCred => a.handlers \subseteq {"anonymous", "passkey"}

\* An open session has proved its second factor or nothing.
Proving(a) ==
  IF a.mfa = "success"
  THEN /\ a.mech = "passwordmfa" /\ Len(a.proved) = 1
       /\ a.proved[1] \in {"totp", "securitykey", "backupcode"}
  ELSE a.proved = <<>>

\* A session that succeeded did so with its factors in order.
Proved(a) ==
  IF a.mech = "passwordmfa"
  THEN /\ Len(a.proved) = 2 /\ a.proved[2] = "password"
       /\ a.proved[1] \in {"totp", "securitykey", "backupcode"}
  ELSE Len(a.proved) = 1

SessionOK(a) ==
  \/ a \in Open /\ Handled(a) /\ Proving(a)
  \/ a \in Succeeded /\ Proved(a)
  \/ a \in Ended

SInv == \A s \in SessionIds : sessions[s] = NoSession \/ SessionOK(sessions[s])

DelayedAction ==
  [op : {"pwupgrade", "unixpwupgrade"}, pw : Passwords] \cup [op : {"coderemoval"}, code : Codes]

\* Only a credential with other factors has backup codes; and so for the copies
\* that update sessions hold.
Coded(c) == c.type # "mfa" => CodesOf(c) = {}
CopiesOK ==
  /\ updates \in [Updates -> Credential \cup {NoCred, NoUpdate}]
  /\ \A d \in Updates : updates[d] # NoUpdate => Coded(updates[d])

AInv ==
  /\ account \in Account /\ uuids \in Uuids
  /\ delayed \in Seq(DelayedAction) /\ spent \subseteq Codes
  /\ Coded(account.primary) /\ CopiesOK /\ SpentCodesAreRemoved

IInv == LInv /\ SInv /\ AInv

-----------------------------------------------------------------------------
(***************************************************************************)
(* Windows of the clock.                                                   *)
(***************************************************************************)

(* Quotient and remainder. *)
LEMMA Division ==
  ASSUME NEW a \in Nat, NEW w \in Nat \ {0}
  PROVE  /\ a \div w \in Nat /\ a % w \in Nat /\ a % w < w
         /\ a = w * (a \div w) + (a % w)
OBVIOUS

(* Multiples of w are at least w apart. *)
LEMMA Multiples ==
  ASSUME NEW p \in Nat, NEW q \in Nat, p < q, NEW w \in Nat \ {0}
  PROVE  w * p + w <= w * q
OBVIOUS

(* The remainder is the same one window later. *)
LEMMA OneWindowLater ==
  ASSUME NEW a \in Nat, NEW w \in Nat \ {0}
  PROVE  (a + w) % w = a % w
<1> PICK q, p, r, s : q = a \div w /\ p = (a + w) \div w /\ r = a % w /\ s = (a + w) % w
  OBVIOUS
<1>1. q \in Nat /\ r \in Nat /\ r < w /\ a = w * q + r
  BY Division
<1>2. p \in Nat /\ s \in Nat /\ s < w /\ a + w = w * p + s
  BY Division
<1>3. w * (q + 1) = w * q + w
  BY <1>1
<1>4. CASE p < q + 1
  <2>1. w * p + w <= w * (q + 1)
    BY <1>1, <1>2, <1>4, Multiples
  <2>2. QED
    BY <1>1, <1>2, <1>3, <2>1
<1>5. CASE q + 1 < p
  <2>1. w * (q + 1) + w <= w * p
    BY <1>1, <1>2, <1>5, Multiples
  <2>2. QED
    BY <1>1, <1>2, <1>3, <2>1
<1>6. CASE p = q + 1
  BY <1>1, <1>2, <1>3, <1>6
<1>7. QED
  BY <1>1, <1>2, <1>4, <1>5, <1>6

(* The end of a window is after the times of the window and not after those *)
(* of later ones.                                                           *)
LEMMA WindowEnds ==
  ASSUME NEW ct \in Nat, NEW t \in Nat, ct <= t, NEW w \in Nat \ {0}
  PROVE  /\ WindowEnd(ct, w) \in Nat /\ WindowEnd(ct, w) % w = 0
         /\ ct \div w = t \div w => t < WindowEnd(ct, w)
         /\ ct \div w # t \div w => WindowEnd(ct, w) <= t
<1> PICK q, r, p, s : q = ct \div w /\ r = ct % w /\ p = t \div w /\ s = t % w
  OBVIOUS
<1>1. q \in Nat /\ r \in Nat /\ r < w /\ ct = w * q + r
  BY Division
<1>2. p \in Nat /\ s \in Nat /\ s < w /\ t = w * p + s
  BY Division
<1>3. WindowEnd(ct, w) = w * (q + 1) /\ w * (q + 1) = w * q + w
  <2>1. (ct + w) % w = r
    BY OneWindowLater, Zenon
  <2>2. WindowEnd(ct, w) = ct + w - r
    BY <2>1, <1>1 DEF WindowEnd
  <2>3. QED
    BY <1>1, <2>2
<1>4. WindowEnd(ct, w) \in Nat /\ WindowEnd(ct, w) % w = 0
  BY <1>1, <1>3
<1>5. q = p => t < WindowEnd(ct, w)
  BY <1>1, <1>2, <1>3
<1>6. q # p => WindowEnd(ct, w) <= t
  <2>1. CASE q < p
    BY <1>1, <1>2, <1>3, <2>1, Multiples
  <2>2. CASE p < q
    <3>1. w * p + w <= w * q
      BY <1>1, <1>2, <2>2, Multiples
    <3>2. QED
      BY <1>1, <1>2, <3>1
  <2>3. QED
    BY <1>1, <1>2, <2>1, <2>2
<1>7. QED
  BY <1>4, <1>5, <1>6

-----------------------------------------------------------------------------
(***************************************************************************)
(* One lock.                                                               *)
(***************************************************************************)

(* A set of natural numbers that is not empty has a least element. *)
LEMMA LeastNumber ==
  ASSUME NEW S \in SUBSET Nat, S # {}
  PROVE  Min(S) \in S
<1>1. PICK n \in S : \A m \in S : ~ (<<m, n>> \in OpToRel(<, Nat))
  BY NatLessThanWellFounded, WFMin, Zenon
<1>2. \A m \in S : ~ (m < n)
  BY <1>1, Zenon DEF OpToRel
<1>3. \E x \in S : \A y \in S : x <= y
  BY <1>2
<1>4. QED
  BY <1>3, Zenon DEF Min

(* The smaller of two times. *)
LEMMA MinOfTwo ==
  ASSUME NEW a \in Int, NEW b \in Int
  PROVE  Min({a, b}) \in Int /\ Min({a, b}) <= a /\ Min({a, b}) <= b
<1>1. \E x \in {a, b} : \A y \in {a, b} : x <= y
  BY DEF Min
<1>2. Min({a, b}) \in {a, b} /\ \A y \in {a, b} : Min({a, b}) <= y
  BY <1>1, Zenon DEF Min
<1>3. QED
  BY <1>2

(* Limits and windows. *)
LEMMA Lengths ==
  ASSUME NEW policy
  PROVE  Limit(policy) \in Nat \ {0} /\ Length(policy) \in Nat \ {0}
<1>1. Len(Delays) \in DOMAIN Delays /\ Delays[Len(Delays)] \in (Nat \ {0}) \X Nat
  BY SoftLockAssumption
<1>2. QED
  BY <1>1, SoftLockAssumption DEF Limit, Length

(* The delay after a failure is known, and a count at the limit is behind   *)
(* every bound.                                                             *)
LEMMA DelaysKnown ==
  ASSUME NEW count \in Nat
  PROVE  LET steps == {i \in DOMAIN Delays : count < Delays[i][1]}
         IN /\ steps # {} => Delays[Min(steps)][2] \in Nat
            /\ steps # {} <=> count < Delays[Len(Delays)][1]
<1> DEFINE steps == {i \in DOMAIN Delays : count < Delays[i][1]}
<1>1. /\ Len(Delays) \in Nat /\ Len(Delays) > 0 /\ DOMAIN Delays = 1 .. Len(Delays)
      /\ \A i \in DOMAIN Delays : Delays[i] \in (Nat \ {0}) \X Nat
  BY SoftLockAssumption
<1>2. \A i \in DOMAIN Delays : Delays[i][1] \in Nat /\ Delays[i][2] \in Nat
  BY <1>1
<1>3. \A i \in DOMAIN Delays : Delays[i][1] <= Delays[Len(Delays)][1]
  <2>1. SUFFICES ASSUME NEW i \in DOMAIN Delays
                 PROVE  Delays[i][1] <= Delays[Len(Delays)][1]
    OBVIOUS
  <2>2. Len(Delays) \in DOMAIN Delays /\ (i < Len(Delays) \/ i = Len(Delays))
    BY <1>1
  <2>3. i < Len(Delays) => Delays[i][1] < Delays[Len(Delays)][1]
    BY <2>2, SoftLockAssumption
  <2>4. QED
    BY <1>2, <2>2, <2>3
<1>4. steps # {} <=> count < Delays[Len(Delays)][1]
  BY <1>1, <1>2, <1>3
<1>5. steps # {} => Delays[Min(steps)][2] \in Nat
  <2>1. steps \in SUBSET Nat
    BY <1>1
  <2>2. steps # {} => Min(steps) \in steps
    BY <2>1, LeastNumber
  <2>3. QED
    BY <1>2, <2>2
<1>6. QED
  BY <1>4, <1>5

(* A new lock. *)
LEMMA NewLockOK ==
  ASSUME NEW policy \in Policies, NEW t \in Nat
  PROVE  LockOK(NewLock(policy), t)
<1>1. NewLock(policy) \in Lock
  BY DEF NewLock, Lock
<1>2. Spaced(NewLock(policy), t)
  BY DEF NewLock, Spaced
<1>3. Limit(policy) \in Nat \ {0}
  BY Lengths
<1>4. Bounded(NewLock(policy), t)
  BY <1>3 DEF NewLock, Bounded, Counting
<1>5. QED
  BY <1>1, <1>2, <1>4 DEF LockOK

\* A lock that lets a failure happen.
MayCheck(lock) ==
  lock.barrier = -1 /\ (lock.policy \in {"password", "totp"} => lock.count < Limit(lock.policy))

\* A lock and the same lock after a time step.
TimeStepped(lock, after, t) ==
  /\ LockOK(after, t) /\ after.fails = lock.fails
  /\ IsValid(after) => lock.barrier = -1 /\ MayCheck(after)

(* The passing of time opens a lock only after its barrier, and keeps what  *)
(* is counted in the present window.                                        *)
LEMMA TimeStepOK ==
  ASSUME NEW t \in Nat, NEW lock, LockOK(lock, t), NEW ct \in 0 .. t,
         NEW after, after = ApplyTimeStep(lock, ct)
  PROVE  TimeStepped(lock, after, t)
<1>0. lock \in Lock /\ Spaced(lock, t) /\ Bounded(lock, t) /\ ct \in Nat /\ ct <= t
  BY DEF LockOK
<1>1. Limit(lock.policy) \in Nat \ {0}
  BY Lengths
<1>2. CASE lock.state # "init" /\ ct > lock.reset_at
  <2>1. after = Opened(lock)
    <3>1. ~ (ct <= lock.reset_at)
      BY <1>0, <1>2 DEF Lock
    <3>2. QED
      BY <1>2, <3>1, Zenon DEF ApplyTimeStep
  <2>2. lock.barrier = -1 /\ ~Counting(lock, t)
    BY <1>0, <1>2 DEF Lock, Spaced, Counting
  <2>3. /\ after \in Lock /\ after.state = "init" /\ after.count = 0 /\ after.policy = lock.policy
        /\ after.barrier = -1 /\ after.fails = lock.fails /\ after.late = lock.late
    <3>1. after = [lock EXCEPT !.state = "init", !.count = 0, !.reset_at = 0, !.unlock_at = 0]
      BY <2>1, Zenon DEF Opened
    <3>2. after = [state |-> "init", count |-> 0, reset_at |-> 0, unlock_at |-> 0, policy |-> lock.policy,
                   barrier |-> lock.barrier, fails |-> lock.fails, late |-> lock.late]
      BY <1>0, <3>1, Zenon DEF Lock
    <3>3. QED
      BY <1>0, <2>2, <3>1, <3>2 DEF Lock
  <2>4. Bounded(after, t)
    BY <1>0, <1>1, <2>2, <2>3 DEF Bounded, Counting
  <2>5. Spaced(after, t)
    BY <2>3 DEF Spaced
  <2>6. QED
    BY <1>1, <2>2, <2>3, <2>4, <2>5 DEF LockOK, MayCheck, TimeStepped
<1>3. CASE lock.state = "locked" /\ ct <= lock.reset_at /\ ct > lock.unlock_at
  <2>1. after = [lock EXCEPT !.state = "unlocked", !.unlock_at = 0]
    BY <1>0, <1>3 DEF ApplyTimeStep, Lock
  <2>2. lock.barrier = -1
    BY <1>0, <1>3 DEF Lock, Spaced
  <2>3. /\ after \in Lock /\ after.state = "unlocked" /\ after.count = lock.count
        /\ after.policy = lock.policy /\ after.reset_at = lock.reset_at
        /\ after.barrier = -1 /\ after.fails = lock.fails /\ after.late = lock.late
    <3>1. after = [state |-> "unlocked", count |-> lock.count, reset_at |-> lock.reset_at, unlock_at |-> 0,
                   policy |-> lock.policy, barrier |-> lock.barrier, fails |-> lock.fails, late |-> lock.late]
      BY <1>0, <2>1, Zenon DEF Lock
    <3>2. QED
      BY <1>0, <2>1, <2>2, <3>1 DEF Lock
  <2>4. lock.policy \in {"password", "totp"} => lock.count < Limit(lock.policy)
    BY <1>0, <1>1, <1>3 DEF Lock, Bounded
  <2>5. Bounded(after, t)
    BY <1>0, <1>1, <1>3, <2>3, <2>4 DEF Bounded, Counting, Lock
  <2>6. Spaced(after, t)
    BY <2>3 DEF Spaced
  <2>7. QED
    BY <2>2, <2>3, <2>4, <2>5, <2>6 DEF LockOK, MayCheck, TimeStepped
<1>4. CASE /\ ~ (lock.state # "init" /\ ct > lock.reset_at)
           /\ ~ (lock.state = "locked" /\ ct <= lock.reset_at /\ ct > lock.unlock_at)
  <2>1. after = lock
    BY <1>4 DEF ApplyTimeStep
  <2>2. IsValid(lock) => lock.barrier = -1
    BY <1>0 DEF IsValid, Spaced
  <2>3. IsValid(lock) /\ lock.policy \in {"password", "totp"} => lock.count < Limit(lock.policy)
    BY <1>0, <1>1 DEF IsValid, Bounded, Lock
  <2>4. QED
    BY <2>1, <2>2, <2>3 DEF MayCheck, TimeStepped
<1>5. QED
  BY <1>2, <1>3, <1>4

\* A lock whose count becomes c by a failure at time ct.
FailureForm(lock, c, ct, next) ==
  \E st \in {"init", "locked"} : \E n \in Nat : \E reset, unlock \in Nat :
    /\ next = [lock EXCEPT !.state = st, !.count = n, !.reset_at = reset, !.unlock_at = unlock]
    /\ lock.policy \in {"password", "totp"} =>
         /\ st = "locked" /\ n = c /\ reset = WindowEnd(ct, Length(lock.policy))
         /\ c >= Limit(lock.policy) => unlock = reset

(* What a failure makes of a lock whose count becomes c. *)
LEMMA FailureStates ==
  ASSUME NEW lock \in Lock, NEW ct \in Nat, NEW c \in Nat,
         NEW next, next = FailureNextState(lock, c, ct)
  PROVE  FailureForm(lock, c, ct, next)
<1> DEFINE steps == {i \in DOMAIN Delays : c < Delays[i][1]}
<1>1. lock.policy \in Policies
  BY DEF Lock
<1>2. PICK reset : reset = WindowEnd(ct, Length(lock.policy))
  OBVIOUS
<1>3. reset \in Nat
  BY <1>2, Lengths, WindowEnds
<1>4. CASE lock.policy = "password"
  <2>1. PICK unlock : unlock = IF steps = {} THEN reset ELSE ct + Delays[Min(steps)][2]
    BY Zenon
  <2>2. unlock \in Nat /\ (c >= Limit(lock.policy) => unlock = reset)
    <3>1. /\ steps # {} => Delays[Min(steps)][2] \in Nat
          /\ steps # {} <=> c < Delays[Len(Delays)][1]
      BY DelaysKnown, Zenon
    <3>2. Limit(lock.policy) = Delays[Len(Delays)][1] /\ Limit(lock.policy) \in Nat
      BY <1>4, Lengths, Zenon DEF Limit
    <3> HIDE DEF steps
    <3>3. QED
      BY <1>3, <2>1, <3>1, <3>2
  <2>3. next = Locked(lock, c, reset, unlock)
    BY <1>2, <1>4, <2>1, Zenon DEF FailureNextState
  <2>4. QED
    BY <1>2, <1>3, <2>2, <2>3, Zenon DEF Locked, FailureForm
<1>5. CASE lock.policy = "totp"
  <2>1. PICK unlock : unlock = IF c >= TotpLimit THEN reset ELSE ct + 1
    OBVIOUS
  <2>2. unlock \in Nat /\ (c >= Limit(lock.policy) => unlock = reset)
    BY <1>3, <1>5, <2>1 DEF Limit
  <2>3. next = Locked(lock, c, reset, unlock)
    BY <1>2, <1>5, <2>1, Zenon DEF FailureNextState
  <2>4. QED
    BY <1>2, <1>3, <2>2, <2>3, Zenon DEF Locked, FailureForm
<1>6. CASE lock.policy = "webauthn"
  <2>1. next = Locked(lock, c, ct + 1, ct + 1)
    BY <1>6, Zenon DEF FailureNextState
  <2>2. ct + 1 \in Nat /\ lock.policy \notin {"password", "totp"}
    BY <1>6
  <2>3. QED
    BY <2>1, <2>2, Zenon DEF Locked, FailureForm
<1>7. CASE lock.policy = "unrestricted"
  <2>1. next = Opened(lock)
    BY <1>7, Zenon DEF FailureNextState
  <2>2. 0 \in Nat /\ lock.policy \notin {"password", "totp"}
    BY <1>7
  <2>3. QED
    BY <2>1, <2>2, Zenon DEF Opened, FailureForm
<1>8. QED
  BY <1>1, <1>4, <1>5, <1>6, <1>7, Zenon DEF Policies

(* A failure recorded on an open lock. *)
LEMMA FailureOK ==
  ASSUME NEW t \in Nat, NEW lock, LockOK(lock, t), NEW ct \in 0 .. t,
         MayCheck(lock), NEW after, after = RecordFailure(lock, ct, t)
  PROVE  LockOK(after, t)
<1>0. lock \in Lock /\ Spaced(lock, t) /\ Bounded(lock, t) /\ ct \in Nat /\ ct <= t /\ lock.count + 1 \in Nat
  BY DEF LockOK, Lock
<1>a. PICK c : c = lock.count + 1
  OBVIOUS
<1>1. PICK next : next = FailureNextState(lock, c, ct)
  OBVIOUS
<1>b. FailureForm(lock, c, ct, next)
  BY <1>0, <1>a, <1>1, FailureStates, Zenon
<1>2. PICK st \in {"init", "locked"} : \E n \in Nat : \E reset, unlock \in Nat :
           /\ next = [lock EXCEPT !.state = st, !.count = n, !.reset_at = reset, !.unlock_at = unlock]
           /\ lock.policy \in {"password", "totp"} =>
                /\ st = "locked" /\ n = c /\ reset = WindowEnd(ct, Length(lock.policy))
                /\ c >= Limit(lock.policy) => unlock = reset
  BY <1>b, Zenon DEF FailureForm
<1>3. PICK n \in Nat : \E reset, unlock \in Nat :
           /\ next = [lock EXCEPT !.state = st, !.count = n, !.reset_at = reset, !.unlock_at = unlock]
           /\ lock.policy \in {"password", "totp"} =>
                /\ st = "locked" /\ n = c /\ reset = WindowEnd(ct, Length(lock.policy))
                /\ c >= Limit(lock.policy) => unlock = reset
  BY <1>2, Zenon
<1>4. PICK reset, unlock \in Nat :
           /\ next = [lock EXCEPT !.state = st, !.count = n, !.reset_at = reset, !.unlock_at = unlock]
           /\ lock.policy \in {"password", "totp"} =>
                /\ st = "locked" /\ n = c /\ reset = WindowEnd(ct, Length(lock.policy))
                /\ c >= Limit(lock.policy) => unlock = reset
  BY <1>3, Zenon
<1>5. next = [state |-> st, count |-> n, reset_at |-> reset, unlock_at |-> unlock, policy |-> lock.policy,
              barrier |-> lock.barrier, fails |-> lock.fails, late |-> lock.late]
  BY <1>0, <1>4, Zenon DEF Lock
<1>6. PICK w, bars : w = Length(lock.policy) /\ bars = Min({reset, unlock})
  OBVIOUS
<1>7. w \in Nat \ {0} /\ Limit(lock.policy) \in Nat \ {0} /\ bars \in Int /\ bars <= reset /\ bars <= unlock
  BY <1>6, Lengths, MinOfTwo
<1>8. PICK b, e : /\ b = (IF st = "locked" /\ t <= bars THEN bars ELSE -1)
                  /\ e = (IF ct \div w = t \div w THEN 0 ELSE 1)
  OBVIOUS
<1>9. after = [state |-> st, count |-> n, reset_at |-> reset, unlock_at |-> unlock, policy |-> lock.policy,
               barrier |-> b, fails |-> lock.fails + 1, late |-> lock.late + e]
  <2>1. next.reset_at = reset /\ next.unlock_at = unlock /\ next.state = st
    BY <1>5
  <2>2. after = [next EXCEPT !.barrier = b, !.fails = @ + 1, !.late = @ + e]
    BY <1>a, <1>1, <1>6, <1>8, <2>1, Zenon DEF RecordFailure
  <2>3. QED
    BY <1>5, <2>2, Zenon
<1>10. /\ after.state = st /\ after.count = n /\ after.reset_at = reset /\ after.unlock_at = unlock
       /\ after.policy = lock.policy /\ after.barrier = b /\ after.fails = lock.fails + 1
       /\ after.late = lock.late + e
  BY <1>9
<1>11. after \in Lock
  <2>1. b \in Int /\ e \in Nat /\ lock.fails + 1 \in Nat /\ lock.late + e \in Nat
    BY <1>0, <1>7, <1>8 DEF Lock
  <2>2. QED
    BY <1>0, <1>9, <2>1 DEF Lock
<1>12. Spaced(after, t)
  BY <1>7, <1>8, <1>10 DEF Spaced
<1>13. Bounded(after, t)
  <2>1. SUFFICES ASSUME lock.policy \in {"password", "totp"}
                 PROVE  /\ n <= Limit(lock.policy)
                        /\ n = Limit(lock.policy) => st = "locked" /\ unlock = reset
                        /\ reset % w = 0
                        /\ lock.fails + 1 <= Limit(lock.policy) * (lock.late + e)
                                              + (IF st # "init" /\ reset > t THEN n ELSE 0)
    BY <1>6, <1>10 DEF Bounded, Counting
  <2>2. st = "locked" /\ n = lock.count + 1 /\ reset = WindowEnd(ct, w) /\ (n >= Limit(lock.policy) => unlock = reset)
    BY <1>a, <1>4, <1>6, <2>1
  <2>3. /\ reset % w = 0 /\ (ct \div w = t \div w => t < reset)
        /\ ct \div w # t \div w => reset <= t
    BY <1>0, <1>7, <2>2, WindowEnds, Zenon
  <2>4. lock.count < Limit(lock.policy) /\ lock.count \in Nat /\ lock.fails \in Nat /\ lock.late \in Nat
    BY <1>0, <2>1 DEF Lock, MayCheck
  <2>5. lock.fails <= Limit(lock.policy) * lock.late + lock.count
    BY <1>0, <1>7, <2>1, <2>4 DEF Bounded
  <2>6. Limit(lock.policy) * (lock.late + 1) = Limit(lock.policy) * lock.late + Limit(lock.policy)
    BY <1>7, <2>4
  <2>7. lock.fails + 1 <= Limit(lock.policy) * (lock.late + e) + (IF st # "init" /\ reset > t THEN n ELSE 0)
    <3>1. CASE ct \div w = t \div w
      <4>1. e = 0 /\ reset > t
        BY <1>8, <2>3, <3>1
      <4>2. QED
        BY <1>7, <2>2, <2>4, <2>5, <4>1
    <3>2. CASE ct \div w # t \div w
      <4>1. e = 1 /\ ~ (reset > t)
        BY <1>8, <2>3, <3>2
      <4>2. QED
        BY <1>7, <2>4, <2>5, <2>6, <4>1
    <3>3. QED
      BY <3>1, <3>2
  <2>8. QED
    BY <1>7, <2>2, <2>3, <2>4, <2>7
<1>14. QED
  BY <1>11, <1>12, <1>13 DEF LockOK

(* A lock as the clock moves on. *)
LEMMA AgedOK ==
  ASSUME NEW t \in Nat, NEW lock, LockOK(lock, t), NEW after, after = Aged(lock, t + 1)
  PROVE  LockOK(after, t + 1) /\ after.fails <= lock.fails
<1>0. lock \in Lock /\ Spaced(lock, t) /\ Bounded(lock, t)
  BY DEF LockOK
<1>1. PICK w, b : w = Length(lock.policy) /\ b = (IF t + 1 > lock.barrier THEN -1 ELSE lock.barrier)
  OBVIOUS
<1>2. w \in Nat \ {0} /\ Limit(lock.policy) \in Nat \ {0} /\ b \in Int
  BY <1>0, <1>1, Lengths DEF Lock
<1>3. PICK f, e : /\ f = (IF (t + 1) % w = 0 THEN 0 ELSE lock.fails)
                  /\ e = (IF (t + 1) % w = 0 THEN 0 ELSE lock.late)
  BY Zenon
<1>4. after = [state |-> lock.state, count |-> lock.count, reset_at |-> lock.reset_at,
               unlock_at |-> lock.unlock_at, policy |-> lock.policy,
               barrier |-> b, fails |-> f, late |-> e]
  <2>1. PICK aged : aged = [lock EXCEPT !.barrier = b]
    BY Zenon
  <2>2. aged = [state |-> lock.state, count |-> lock.count, reset_at |-> lock.reset_at,
                unlock_at |-> lock.unlock_at, policy |-> lock.policy,
                barrier |-> b, fails |-> lock.fails, late |-> lock.late]
    BY <1>0, <2>1, Zenon DEF Lock
  <2>3. after = IF (t + 1) % w = 0 THEN [aged EXCEPT !.fails = 0, !.late = 0] ELSE aged
    BY <1>1, <2>1, Zenon DEF Aged
  <2>4. CASE (t + 1) % w = 0
    BY <1>3, <2>2, <2>3, <2>4, Zenon
  <2>5. CASE (t + 1) % w # 0
    BY <1>3, <2>2, <2>3, <2>5, Zenon
  <2>6. QED
    BY <2>4, <2>5, Zenon
<1>5. /\ after.state = lock.state /\ after.count = lock.count /\ after.reset_at = lock.reset_at
      /\ after.unlock_at = lock.unlock_at /\ after.policy = lock.policy
      /\ after.barrier = b /\ after.fails = f /\ after.late = e
  BY <1>4
<1>6. f \in Nat /\ e \in Nat /\ f <= lock.fails
  BY <1>0, <1>3 DEF Lock
<1>7. after \in Lock
  BY <1>0, <1>2, <1>4, <1>6 DEF Lock
<1>8. Spaced(after, t + 1)
  BY <1>0, <1>1, <1>5 DEF Spaced, Lock
<1>9. Bounded(after, t + 1)
  <2>1. SUFFICES ASSUME lock.policy \in {"password", "totp"}
                 PROVE  f <= Limit(lock.policy) * e
                             + (IF lock.state # "init" /\ lock.reset_at > t + 1 THEN lock.count ELSE 0)
    BY <1>0, <1>5 DEF Bounded, Counting
  <2>2. CASE (t + 1) % w = 0
    BY <1>0, <1>2, <1>3, <2>2 DEF Lock
  <2>3. CASE (t + 1) % w # 0
    <3>1. lock.state # "init" /\ lock.reset_at > t => lock.reset_at > t + 1
      <4>1. lock.state # "init" => lock.reset_at % w = 0
        BY <1>0, <1>1, <2>1 DEF Bounded
      <4>2. lock.state # "init" => lock.reset_at # t + 1
        BY <2>3, <4>1
      <4>3. QED
        BY <1>0, <4>2 DEF Lock
    <3>2. lock.fails <= Limit(lock.policy) * lock.late
                         + (IF lock.state # "init" /\ lock.reset_at > t THEN lock.count ELSE 0)
      BY <1>0, <2>1 DEF Bounded, Counting
    <3>3. QED
      BY <1>0, <1>2, <1>3, <2>3, <3>1, <3>2 DEF Lock
  <2>4. QED
    BY <2>2, <2>3
<1>10. QED
  BY <1>5, <1>6, <1>7, <1>8, <1>9 DEF LockOK

-----------------------------------------------------------------------------
(***************************************************************************)
(* The locks.                                                              *)
(***************************************************************************)

\* What a step may do to the locks: the step of FailuresAreSpaced.
Spacing ==
  \A l \in LockIds :
    locks[l] # Free /\ locks'[l] # Free /\ locks'[l].fails > locks[l].fails =>
      locks[l].barrier = -1

(* A lock is not the absence of one. *)
LEMMA LockIsThere ==
  ASSUME NEW lock \in Lock
  PROVE  lock # Free
BY DEF Lock, Free

(* The time of a request is not after the clock. *)
LEMMA TimesKnown ==
  ASSUME LInv, NEW ct \in Times
  PROVE  ct \in 0 .. now
BY AuthAssumption DEF LInv, Times

(* Every credential has a policy. *)
LEMMA PolicyKnown ==
  ASSUME NEW cred \in Credential
  PROVE  SoftlockPolicy(cred) \in Policies
<1>1. cred.type \in {"password", "generated", "mfa", "webauthn"}
  BY DEF Credential
<1>2. CASE cred.type \in {"password", "generated"}
  <2>1. cred.type # "mfa" /\ cred.type # "webauthn"
    BY <1>2
  <2>2. QED
    BY <1>2, <2>1, Zenon DEF SoftlockPolicy, Policies
<1>3. CASE cred.type = "mfa"
  <2>1. cred.type \notin {"password", "generated"} /\ cred.type # "webauthn"
    BY <1>3
  <2>2. QED
    BY <1>3, <2>1, Zenon DEF SoftlockPolicy, Policies
<1>4. CASE cred.type = "webauthn"
  <2>1. cred.type \notin {"password", "generated"} /\ cred.type # "mfa"
    BY <1>4
  <2>2. QED
    BY <1>4, <2>1, Zenon DEF SoftlockPolicy, Policies
<1>5. QED
  BY <1>1, <1>2, <1>3, <1>4

(* A step that changes locks only. *)
LEMMA LocksOnly ==
  ASSUME LInv, UNCHANGED <<now, softlocks, tasks>>, locks' \in [LockIds -> Lock \cup {Free}],
         \A l \in LockIds : /\ locks[l] # Free => locks'[l] # Free
                            /\ locks'[l] # Free => LockOK(locks'[l], now)
  PROVE  LInv'
BY Zenon DEF LInv

\* The locks as they are before and after a session steps its own.
OwnStepped(a, after) ==
  /\ after \in [LockIds -> Lock \cup {Free}]
  /\ \A l \in LockIds :
       /\ locks[l] # Free <=> after[l] # Free
       /\ after[l] # Free => LockOK(after[l], now) /\ after[l].fails = locks[l].fails
  /\ \A u \in CredentialUuid(a) : softlocks[u] \in LockIds =>
       /\ after[softlocks[u]] # Free
       /\ IsValid(after[softlocks[u]]) =>
            locks[softlocks[u]].barrier = -1 /\ MayCheck(after[softlocks[u]])

(* The locks as a session steps its own. *)
LEMMA SteppedOK ==
  ASSUME LInv, NEW a, NEW ct \in Times, CredentialUuid(a) \subseteq Uuids,
         NEW after, after = Stepped(a, ct)
  PROVE  OwnStepped(a, after)
<1>0. /\ now \in Nat /\ locks \in [LockIds -> Lock \cup {Free}] /\ ct \in 0 .. now
      /\ \A l \in LockIds : locks[l] # Free => LockOK(locks[l], now)
      /\ \A u \in Uuids : softlocks[u] \in LockIds => locks[softlocks[u]] # Free
  BY TimesKnown DEF LInv
<1>1. after = [l \in LockIds |->
                 IF l \in {softlocks[u] : u \in CredentialUuid(a)}
                 THEN ApplyTimeStep(locks[l], ct) ELSE locks[l]]
  BY Zenon DEF Stepped
<1>2. ASSUME NEW l \in LockIds
      PROVE  /\ after[l] \in Lock \cup {Free} /\ (locks[l] # Free <=> after[l] # Free)
             /\ after[l] # Free => LockOK(after[l], now) /\ after[l].fails = locks[l].fails
             /\ l \in {softlocks[u] : u \in CredentialUuid(a)} =>
                  /\ after[l] # Free
                  /\ IsValid(after[l]) => locks[l].barrier = -1 /\ MayCheck(after[l])
  <2>1. CASE l \in {softlocks[u] : u \in CredentialUuid(a)}
    <3>1. after[l] = ApplyTimeStep(locks[l], ct)
      BY <1>1, <2>1, Zenon
    <3>2. locks[l] # Free /\ LockOK(locks[l], now)
      BY <1>0, <2>1, Zenon
    <3>3. /\ LockOK(after[l], now) /\ after[l].fails = locks[l].fails
          /\ IsValid(after[l]) => locks[l].barrier = -1 /\ MayCheck(after[l])
      <4>1. TimeStepped(locks[l], after[l], now)
        BY <1>0, <3>1, <3>2, TimeStepOK, Zenon
      <4>2. QED
        BY <4>1, Zenon DEF TimeStepped
    <3>4. after[l] \in Lock /\ after[l] # Free
      BY <3>3, LockIsThere, Zenon DEF LockOK
    <3>5. QED
      BY <3>2, <3>3, <3>4, Zenon
  <2>2. CASE l \notin {softlocks[u] : u \in CredentialUuid(a)}
    <3>1. after[l] = locks[l]
      BY <1>1, <2>2, Zenon
    <3>2. QED
      BY <1>0, <2>2, <3>1, Zenon
  <2>3. QED
    BY <2>1, <2>2, Zenon
<1>3. after \in [LockIds -> Lock \cup {Free}]
  BY <1>1, <1>2, Zenon
<1>4. QED
  BY <1>2, <1>3, Zenon DEF OwnStepped

-----------------------------------------------------------------------------
(***************************************************************************)
(* One session.                                                            *)
(***************************************************************************)

(* What is known of a session from its state. *)
LEMMA SessionKinds ==
  ASSUME NEW a, SessionOK(a)
  PROVE  /\ a # NoSession /\ a.started \in Nat
         /\ a.st \in {"init", "inprogress", "success", "denied"}
         /\ a.st \in {"init", "inprogress"} <=> a \in Open
         /\ a.st \in {"init", "inprogress"} => Handled(a) /\ Proving(a)
         /\ a.st = "success" => Proved(a)
<1>1. CASE a \in Open /\ Handled(a) /\ Proving(a)
  BY <1>1 DEF Open, NoSession
<1>2. CASE a \in Succeeded /\ Proved(a)
  BY <1>2 DEF Open, Succeeded, NoSession
<1>3. CASE a \in Ended
  BY <1>3 DEF Open, Ended, NoSession
<1>4. QED
  BY <1>1, <1>2, <1>3, Zenon DEF SessionOK

(* The sessions that the expiry leaves. *)
LEMMA KeptSessions ==
  ASSUME SInv, NEW ct, NEW s \in SessionIds
  PROVE  /\ Unexpired(ct)[s] = sessions[s] \/ Unexpired(ct)[s] = NoSession
         /\ Unexpired(ct)[s] # NoSession => SessionOK(Unexpired(ct)[s])
         /\ Unexpired(ct)[s] = NoSession =>
              sessions[s] = NoSession \/ sessions[s].started < ct - Timeout
BY Zenon DEF SInv, Unexpired

(* A denied session. *)
LEMMA DeniedOK ==
  ASSUME NEW a, SessionOK(a)
  PROVE  SessionOK(Denied(a)) /\ Denied(a) \notin Open
<1>1. Denied(a) \in Ended
  BY SessionKinds DEF Denied, Ended
<1>2. Denied(a) \notin Open
  BY DEF Denied, Open
<1>3. QED
  BY <1>1, <1>2 DEF SessionOK

(* The credential that a session is locked by is one of the account's. *)
LEMMA OwnUuid ==
  ASSUME NEW a \in Open, Handled(a)
  PROVE  CredentialUuid(a) \subseteq Uuids
<1>1. CASE a.mech \in {"password", "passwordmfa"}
  <2>1. a.mech \in a.handlers /\ a.mech \notin {"anonymous", "passkey"}
    BY <1>1 DEF Handled
  <2>2. a.cred # NoCred
    BY <2>1 DEF Handled
  <2>3. a.cred \in Credential
    BY <2>2 DEF Open
  <2>4. a.cred.uuid \in Uuids
    BY <2>3 DEF Credential
  <2>5. QED
    BY <2>4 DEF CredentialUuid
<1>2. CASE a.mech \notin {"password", "passwordmfa"}
  BY <1>2 DEF CredentialUuid
<1>3. QED
  BY <1>1, <1>2

(* A session that begins. *)
LEMMA StartOK ==
  ASSUME NEW a, SessionOK(a), NEW m \in Mechs, NEW b, b = StartSession(a, m)
  PROVE  /\ SessionOK(b) /\ (a.st # "init" => b = a)
         /\ b \in Open => a \in Open /\ b.cred = a.cred
<1>1. CASE a.st # "init"
  BY <1>1, Zenon DEF StartSession
<1>2. CASE a.st = "init" /\ m \in a.handlers
  <2>1. b = [a EXCEPT !.st = "inprogress", !.mech = m]
    BY <1>2, Zenon DEF StartSession
  <2>2. a \in Open /\ Handled(a) /\ Proving(a)
    BY <1>2, SessionKinds
  <2>3. b = [st |-> "inprogress", handlers |-> a.handlers, mech |-> m, cred |-> a.cred, mfa |-> a.mfa,
             started |-> a.started, proved |-> a.proved]
    BY <2>1, <2>2, Zenon DEF Open
  <2>4. b \in Open
    BY <2>2, <2>3 DEF Open
  <2>5. b.st = "inprogress" /\ b.handlers = a.handlers /\ b.mech = m /\ b.cred = a.cred /\ b.mfa = a.mfa /\ b.proved = a.proved
    BY <2>3
  <2>6. a.mfa # "success"
    BY <1>2, <2>2 DEF Proving, Handled
  <2>7. Handled(b)
    BY <1>2, <2>2, <2>5 DEF Handled, Mechs
  <2>8. Proving(b)
    BY <2>2, <2>5, <2>6 DEF Proving
  <2>9. QED
    BY <1>2, <2>2, <2>4, <2>5, <2>7, <2>8 DEF SessionOK
<1>3. CASE a.st = "init" /\ m \notin a.handlers
  <2>1. b = Denied(a)
    BY <1>3, Zenon DEF StartSession
  <2>2. QED
    BY <1>3, <2>1, DeniedOK
<1>4. QED
  BY <1>1, <1>2, <1>3

(* What a handler makes of what is presented. *)
LEMMA Verdicts ==
  ASSUME NEW a, a \in Open, a.st = "inprogress", Handled(a), NEW p, NEW result, result = Validate(a, p)
  PROVE  /\ result \in {"denied", "continue", "success"}
         /\ result = "continue" =>
              /\ a.mech = "passwordmfa" /\ a.mfa = "init"
              /\ FactorOk(a.cred, p)
         /\ result = "success" =>
              \/ a.mech # "passwordmfa"
              \/ a.mfa = "success" /\ PasswordOk(a.cred, p)
         /\ result = "success" /\ p.kind = "password" => PasswordOk(a.cred, p)
<1>1. a.mech \in Mechs /\ a.mfa \in {"init", "success"}
  BY DEF Open, Handled
<1>2. CASE a.mech = "passwordmfa"
  <2>1. a.mech # "anonymous" /\ a.mech # "password" /\ a.mech # "passkey"
    BY <1>2
  <2>2. CASE a.mfa = "init"
    <3>1. result = IF ~FactorOk(a.cred, p) THEN "denied" ELSE "continue"
      BY <1>2, <2>1, <2>2, Zenon DEF Validate
    <3>2. QED
      BY <1>2, <2>2, <3>1
  <2>3. CASE a.mfa = "success"
    <3>1. a.mfa # "init"
      BY <2>3
    <3>2. result = IF ~PasswordOk(a.cred, p) THEN "denied" ELSE "success"
      BY <1>2, <2>1, <3>1, Zenon DEF Validate
    <3>3. QED
      BY <1>2, <2>3, <3>2
  <2>4. QED
    BY <1>1, <2>2, <2>3
<1>3. CASE a.mech = "password"
  <2>1. a.mech # "anonymous" /\ a.mech # "passwordmfa" /\ a.mech # "passkey"
    BY <1>3
  <2>2. result = IF ~PasswordOk(a.cred, p) THEN "denied" ELSE "success"
    BY <1>3, <2>1, Zenon DEF Validate
  <2>3. QED
    BY <2>1, <2>2
<1>4. CASE a.mech = "anonymous"
  <2>1. a.mech # "password" /\ a.mech # "passwordmfa" /\ a.mech # "passkey"
    BY <1>4
  <2>2. result = IF ~(p.kind = "anonymous") THEN "denied" ELSE "success"
    BY <1>4, <2>1, Zenon DEF Validate
  <2>3. QED
    BY <2>1, <2>2
<1>5. CASE a.mech = "passkey"
  <2>1. a.mech # "password" /\ a.mech # "passwordmfa" /\ a.mech # "anonymous"
    BY <1>5
  <2>2. result = IF ~(p.kind = "passkey") THEN "denied" ELSE "success"
    BY <1>5, <2>1, Zenon DEF Validate
  <2>3. QED
    BY <2>1, <2>2
<1>6. QED
  BY <1>1, <1>2, <1>3, <1>4, <1>5 DEF Mechs

\* A session, and what it is after a cred step.
Follows(a, b) == SessionOK(b) /\ (b \in Open => b.cred = a.cred)

(* A session as its credential is checked. *)
LEMMA ValidatedOK ==
  ASSUME NEW a, SessionOK(a), a.st = "inprogress", NEW p \in Presented(a.cred),
         NEW result, result = Validate(a, p), NEW b, b = Validated(a, p, result)
  PROVE  Follows(a, b)
<1>1. a \in Open /\ Handled(a) /\ Proving(a) /\ a.started \in Nat
  BY SessionKinds
<1>2. p.kind \in Kinds
  BY DEF Presented, Kinds
<1>3. /\ result \in {"denied", "continue", "success"}
      /\ result = "continue" =>
              /\ a.mech = "passwordmfa" /\ a.mfa = "init"
              /\ FactorOk(a.cred, p)
      /\ result = "success" =>
              \/ a.mech # "passwordmfa"
              \/ a.mfa = "success" /\ PasswordOk(a.cred, p)
  BY <1>1, Verdicts, Zenon
<1>4. a.mech \in Mechs /\ a.proved \in Seq(Kinds) /\ a.mfa \in {"init", "success"}
  BY <1>1 DEF Open, Handled
<1>5. Append(a.proved, p.kind) \in Seq(Kinds)
  BY <1>2, <1>4
<1>6. CASE result = "denied"
  <2>1. b = Denied(a)
    BY <1>6, Zenon DEF Validated
  <2>2. QED
    BY <2>1, DeniedOK DEF Follows
<1>7. CASE result = "continue"
  <2>1. b = [a EXCEPT !.mfa = "success", !.proved = Append(a.proved, p.kind)]
    BY <1>7, Zenon DEF Validated
  <2>2. b = [st |-> a.st, handlers |-> a.handlers, mech |-> a.mech, cred |-> a.cred, mfa |-> "success",
             started |-> a.started, proved |-> Append(a.proved, p.kind)]
    BY <1>1, <2>1, Zenon DEF Open
  <2>3. b \in Open
    BY <1>1, <1>5, <2>2 DEF Open
  <2>4. /\ b.st = a.st /\ b.handlers = a.handlers /\ b.mech = a.mech /\ b.cred = a.cred
        /\ b.mfa = "success" /\ b.proved = Append(a.proved, p.kind)
    BY <2>2
  <2>5. Handled(b)
    BY <1>1, <2>4 DEF Handled
  <2>6. p.kind \in {"totp", "securitykey", "backupcode"}
    BY <1>3, <1>7 DEF FactorOk
  <2>7. a.proved = <<>>
    BY <1>1, <1>3, <1>7 DEF Proving
  <2>8. Proving(b)
    <3>1. Len(b.proved) = 1 /\ b.proved[1] = p.kind
      BY <1>2, <1>4, <2>4, <2>7
    <3>2. QED
      BY <1>3, <1>7, <2>4, <2>6, <3>1, Zenon DEF Proving
  <2>9. QED
    BY <2>3, <2>4, <2>5, <2>8 DEF SessionOK, Follows
<1>8. CASE result = "success"
  <2>1. b = [st |-> "success", started |-> a.started, mech |-> a.mech, proved |-> Append(a.proved, p.kind)]
    BY <1>8, Zenon DEF Validated
  <2>2. b \in Succeeded /\ b \notin Open /\ b.mech = a.mech /\ b.proved = Append(a.proved, p.kind)
    BY <1>1, <1>4, <1>5, <2>1 DEF Succeeded, Open
  <2>3. CASE a.mech # "passwordmfa"
    <3>1. a.proved = <<>>
      BY <1>1, <2>3 DEF Proving
    <3>2. Proved(b)
      BY <2>2, <2>3, <3>1 DEF Proved
    <3>3. QED
      BY <2>2, <3>2 DEF SessionOK, Follows
  <2>4. CASE a.mech = "passwordmfa" /\ a.mfa = "success" /\ PasswordOk(a.cred, p)
    <3>1. Len(a.proved) = 1 /\ a.proved[1] \in {"totp", "securitykey", "backupcode"} /\ p.kind = "password"
      BY <1>1, <2>4 DEF Proving, PasswordOk
    <3>2. Len(b.proved) = 2 /\ b.proved[2] = "password" /\ b.proved[1] = a.proved[1]
      BY <1>2, <1>4, <2>2, <3>1
    <3>3. Proved(b)
      BY <2>2, <2>4, <3>1, <3>2 DEF Proved
    <3>4. QED
      BY <2>2, <3>3 DEF SessionOK, Follows
  <2>5. QED
    BY <1>3, <1>8, <2>3, <2>4
<1>9. QED
  BY <1>3, <1>6, <1>7, <1>8

-----------------------------------------------------------------------------
(***************************************************************************)
(* The steps keep the invariant of the locks, and space failures.          *)
(***************************************************************************)

(* Locks that only gain what is not a failure. *)
LEMMA QuietLocks ==
  ASSUME LInv, \A l \in LockIds : locks[l] # Free /\ locks'[l] # Free =>
                 locks'[l].fails \in Nat /\ locks'[l].fails <= locks[l].fails
  PROVE  Spacing
<1>1. SUFFICES ASSUME NEW l \in LockIds, locks[l] # Free, locks'[l] # Free,
                      locks'[l].fails > locks[l].fails
               PROVE  FALSE
  BY DEF Spacing
<1>2. locks[l].fails \in Nat
  BY <1>1, Zenon DEF LInv, LockOK, Lock
<1>3. QED
  BY <1>1, <1>2

(* The locks after a session begins, with new the locks its credential lacks. *)
Missing == {c \in PrimaryLock(account) : softlocks[c[1]] = 0}
WithLocks(new) ==
  /\ softlocks' = [u \in Uuids |-> IF \E c \in new : c[1] = u THEN FreeLock ELSE softlocks[u]]
  /\ locks' = [l \in LockIds |->
       IF new # {} /\ l = FreeLock THEN NewLock((CHOOSE c \in new : TRUE)[2]) ELSE locks[l]]
  /\ UNCHANGED <<now, tasks>>

(* The locks of a new session. *)
LEMMA AuthInitLocks ==
  ASSUME IInv, NEW s \in SessionIds, AuthInit(s)
  PROVE  LInv' /\ Spacing
<1>a. WithLocks(Missing)
  BY ZenonT(30) DEF AuthInit, WithLocks, Missing
<1>b. PICK new : new = Missing
  BY Zenon
<1>c. WithLocks(new)
  BY <1>a, <1>b, Zenon
<1>1. /\ new = {c \in PrimaryLock(account) : softlocks[c[1]] = 0}
      /\ softlocks' = [u \in Uuids |-> IF \E c \in new : c[1] = u THEN FreeLock ELSE softlocks[u]]
      /\ locks' = [l \in LockIds |->
           IF new # {} /\ l = FreeLock THEN NewLock((CHOOSE c \in new : TRUE)[2]) ELSE locks[l]]
      /\ UNCHANGED <<now, tasks>>
  BY <1>b, <1>c, ZenonT(30) DEF Missing, WithLocks
<1>2. LInv /\ now \in Nat /\ account \in Account
  BY Zenon DEF IInv, LInv, AInv
<1>3. \A c \in PrimaryLock(account) : c[2] \in Policies
  <2>1. CASE account.primary # NoCred
    <3>1. account.primary \in Credential
      BY <1>2, <2>1 DEF Account
    <3>2. SoftlockPolicy(account.primary) \in Policies
      BY <3>1, PolicyKnown
    <3>3. PrimaryLock(account) = {<<account.primary.uuid, SoftlockPolicy(account.primary)>>}
      BY <2>1, Zenon DEF PrimaryLock
    <3>4. QED
      BY <3>2, <3>3
  <2>2. CASE account.primary = NoCred
    <3>1. PrimaryLock(account) \subseteq {<<0, "unrestricted">>}
      BY <2>2 DEF PrimaryLock
    <3>2. QED
      BY <3>1 DEF Policies
  <2>3. QED
    BY <2>1, <2>2
<1>4. PICK fresh : fresh = NewLock((CHOOSE c \in new : TRUE)[2])
  BY Zenon
<1>5. new # {} => LockOK(fresh, now) /\ fresh \in Lock /\ fresh # Free /\ fresh.fails = 0
  <2>1. new # {} => (CHOOSE c \in new : TRUE) \in new
    BY Zenon
  <2>2. new # {} => (CHOOSE c \in new : TRUE)[2] \in Policies
    BY <1>1, <1>3, <2>1, Zenon
  <2>3. new # {} => LockOK(fresh, now)
    BY <1>2, <1>4, <2>2, NewLockOK, Zenon
  <2>4. fresh.fails = 0
    BY <1>4 DEF NewLock
  <2>5. QED
    BY <2>3, <2>4, LockIsThere, Zenon DEF LockOK
<1>6. \A l \in LockIds : locks'[l] = IF new # {} /\ l = FreeLock THEN fresh ELSE locks[l]
  BY <1>1, <1>4
<1>7. locks' \in [LockIds -> Lock \cup {Free}]
  <2>1. \A l \in LockIds : locks'[l] \in Lock \cup {Free}
    BY <1>2, <1>5, <1>6, Zenon DEF LInv
  <2>2. QED
    BY <1>1, <2>1, Zenon
<1>8. \A l \in LockIds : /\ locks[l] # Free => locks'[l] # Free
                         /\ locks'[l] # Free => LockOK(locks'[l], now)
  BY <1>2, <1>5, <1>6, Zenon DEF LInv
<1>9. /\ DOMAIN softlocks' = Uuids
      /\ \A u \in Uuids : softlocks'[u] \in LockIds => locks'[softlocks'[u]] # Free
  <2>1. DOMAIN softlocks' = Uuids
    BY <1>1, Zenon
  <2>2. ASSUME NEW u \in Uuids, softlocks'[u] \in LockIds
        PROVE  locks'[softlocks'[u]] # Free
    <3>1. CASE \E c \in new : c[1] = u
      <4>1. softlocks'[u] = FreeLock /\ new # {}
        BY <1>1, <3>1, Zenon
      <4>2. QED
        BY <1>5, <1>6, <2>2, <4>1, Zenon
    <3>2. CASE ~ \E c \in new : c[1] = u
      <4>1. softlocks'[u] = softlocks[u]
        BY <1>1, <3>2, Zenon
      <4>2. QED
        BY <1>2, <1>8, <2>2, <4>1, Zenon DEF LInv
    <3>3. QED
      BY <3>1, <3>2
  <2>3. QED
    BY <2>1, <2>2
<1>10. LInv'
  <2>1. now' = now /\ tasks' = tasks
    BY <1>1
  <2>2. QED
    BY <2>1, <1>2, <1>7, <1>8, <1>9, Zenon DEF LInv
<1>11. Spacing
  <2>1. \A l \in LockIds : locks[l] # Free => locks[l].fails \in Nat
    BY <1>2 DEF LInv, LockOK, Lock
  <2>2. \A l \in LockIds : locks[l] # Free /\ locks'[l] # Free =>
          locks'[l].fails \in Nat /\ locks'[l].fails <= locks[l].fails
    BY <1>5, <1>6, <2>1
  <2>3. QED
    BY <1>2, <2>2, QuietLocks, Zenon
<1>12. QED
  BY <1>10, <1>11

(* A step that leaves the locks. *)
LEMMA SameLocks ==
  ASSUME LInv, UNCHANGED <<now, softlocks, locks, tasks>>
  PROVE  LInv' /\ Spacing
<1>1. now' = now /\ softlocks' = softlocks /\ locks' = locks /\ tasks' = tasks
  OBVIOUS
<1>2. LInv'
  BY <1>1, Zenon DEF LInv
<1>3. \A l \in LockIds : locks[l] # Free => locks[l].fails \in Nat
  BY DEF LInv, LockOK, Lock
<1>4. Spacing
  BY <1>1, <1>3, QuietLocks
<1>5. QED
  BY <1>2, <1>4

(* The locks as a session begins. *)
LEMMA BeginLocks ==
  ASSUME IInv, NEW s \in SessionIds, NEW m \in Mechs, Begin(s, m)
  PROVE  LInv' /\ Spacing
<1>0. LInv /\ SInv
  BY DEF IInv
<1>1. PICK ct, a, after :
        /\ ct \in Times /\ Unexpired(ct)[s] # NoSession /\ a = StartSession(Unexpired(ct)[s], m) /\ after = Stepped(a, ct)
        /\ locks' = IF a.st # "inprogress" THEN locks ELSE after
        /\ UNCHANGED <<now, softlocks, tasks>>
  BY Zenon DEF Begin
<1>2. CASE a.st # "inprogress"
  <2>1. UNCHANGED <<now, softlocks, locks, tasks>>
    BY <1>1, <1>2
  <2>2. QED
    BY <1>0, <2>1, SameLocks, Zenon
<1>3. CASE a.st = "inprogress"
  <2>1. SessionOK(a)
    BY <1>0, <1>1, KeptSessions, StartOK, Zenon
  <2>2. a \in Open /\ Handled(a)
    BY <1>3, <2>1, SessionKinds
  <2>3. CredentialUuid(a) \subseteq Uuids
    BY <2>2, OwnUuid, Zenon
  <2>4. /\ after \in [LockIds -> Lock \cup {Free}]
        /\ \A l \in LockIds :
             /\ locks[l] # Free <=> after[l] # Free
             /\ after[l] # Free => LockOK(after[l], now) /\ after[l].fails = locks[l].fails
    <3>1. OwnStepped(a, after)
      BY <1>0, <1>1, <2>3, SteppedOK, Zenon
    <3>2. QED
      BY <3>1, Zenon DEF OwnStepped
  <2>5. locks' = after
    BY <1>1, <1>3
  <2>6. LInv'
    BY <1>0, <1>1, <2>4, <2>5, LocksOnly, Zenon
  <2>7. \A l \in LockIds : locks[l] # Free /\ locks'[l] # Free =>
          locks'[l].fails \in Nat /\ locks'[l].fails <= locks[l].fails
    BY <2>4, <2>5 DEF LockOK, Lock
  <2>8. QED
    BY <1>0, <2>6, <2>7, QuietLocks, Zenon
<1>4. QED
  BY <1>2, <1>3

\* The outcomes of a cred step: the lock refuses it, or p is checked.
OwnLocks(a) == {softlocks[u] : u \in CredentialUuid(a)} \ {0}
CredRefused(s, ct, a) ==
  /\ sessions' = [Unexpired(ct) EXCEPT ![s] = Denied(a)]
  /\ locks' = Stepped(a, ct)
  /\ delayed' = delayed /\ spent' = spent
CredChecked(s, ct, a, p) ==
  /\ \A l \in OwnLocks(a) : IsValid(Stepped(a, ct)[l])
  /\ sessions' = [Unexpired(ct) EXCEPT ![s] = Validated(a, p, Validate(a, p))]
  /\ locks' = [l \in LockIds |-> IF l \in OwnLocks(a) /\ Validate(a, p) = "denied"
                 THEN RecordFailure(Stepped(a, ct)[l], ct, now) ELSE Stepped(a, ct)[l]]
  /\ delayed' = delayed \o Queued(a, p, Validate(a, p))
  /\ spent' = spent \cup {d.code : d \in {e \in Range(Queued(a, p, Validate(a, p))) :
                                            e.op = "coderemoval"}}
CredStep(s, ct, a) ==
  /\ a = Unexpired(ct)[s] /\ a # NoSession /\ a.st = "inprogress"
  /\ CredRefused(s, ct, a) \/ \E p \in Presented(a.cred) : CredChecked(s, ct, a, p)
  /\ UNCHANGED <<now, account, uuids, softlocks, tasks, updates>>

(* A cred step has one of these outcomes. *)
LEMMA CredSteps ==
  ASSUME NEW s \in SessionIds, Cred(s)
  PROVE  \E ct \in Times : \E a : CredStep(s, ct, a)
<1>1. PICK ct \in Times :
        /\ Unexpired(ct)[s] # NoSession /\ Unexpired(ct)[s].st = "inprogress"
        /\ \/ CredRefused(s, ct, Unexpired(ct)[s])
           \/ \E p \in Presented(Unexpired(ct)[s].cred) : CredChecked(s, ct, Unexpired(ct)[s], p)
        /\ UNCHANGED <<now, account, uuids, softlocks, tasks, updates>>
  BY Zenon DEF Cred, CredRefused, CredChecked, OwnLocks
<1>2. QED
  BY <1>1, Zenon DEF CredStep

(* The locks as a credential is checked. *)
LEMMA CredLocks ==
  ASSUME IInv, NEW s \in SessionIds, Cred(s)
  PROVE  LInv' /\ Spacing
<1>0. LInv /\ SInv /\ now \in Nat
  BY DEF IInv, LInv
<1>1. PICK ct \in Times : \E a : CredStep(s, ct, a)
  BY CredSteps, Zenon
<1>r. PICK a : CredStep(s, ct, a)
  BY <1>1, Zenon
<1>p. PICK after, own : after = Stepped(a, ct) /\ own = OwnLocks(a)
  BY Zenon
<1>2. SessionOK(a)
  BY <1>0, <1>r, KeptSessions, Zenon DEF CredStep
<1>3. a \in Open /\ Handled(a)
  BY <1>r, <1>2, SessionKinds, Zenon DEF CredStep
<1>4. CredentialUuid(a) \subseteq Uuids
  BY <1>3, OwnUuid, Zenon
<1>q. OwnStepped(a, after)
  BY <1>0, <1>p, <1>4, SteppedOK, Zenon
<1>5. /\ after \in [LockIds -> Lock \cup {Free}]
      /\ \A l \in LockIds :
           /\ locks[l] # Free <=> after[l] # Free
           /\ after[l] # Free => LockOK(after[l], now) /\ after[l].fails = locks[l].fails
  BY <1>q, Zenon DEF OwnStepped
<1>6. \A l \in own : l \in LockIds =>
        after[l] # Free /\ (IsValid(after[l]) => locks[l].barrier = -1 /\ MayCheck(after[l]))
  <2>1. \A u \in CredentialUuid(a) : softlocks[u] \in LockIds =>
          /\ after[softlocks[u]] # Free
          /\ IsValid(after[softlocks[u]]) =>
               locks[softlocks[u]].barrier = -1 /\ MayCheck(after[softlocks[u]])
    BY <1>q, Zenon DEF OwnStepped
  <2>2. \A l \in own : \E u \in CredentialUuid(a) : l = softlocks[u]
    BY <1>p DEF OwnLocks
  <2>3. QED
    BY <2>1, <2>2, ZenonT(60)
<1>7. ct \in 0 .. now
  BY <1>0, TimesKnown, Zenon
<1>u. UNCHANGED <<now, softlocks, tasks>>
  BY <1>r, Zenon DEF CredStep
<1>8. CASE CredRefused(s, ct, a)
  <2>0. locks' = after
    BY <1>p, <1>8, Zenon DEF CredRefused
  <2>1. LInv'
    BY <1>0, <1>u, <1>5, <2>0, LocksOnly, Zenon
  <2>2. \A l \in LockIds : locks[l] # Free /\ locks'[l] # Free =>
          locks'[l].fails \in Nat /\ locks'[l].fails <= locks[l].fails
    BY <1>5, <2>0 DEF LockOK, Lock
  <2>3. QED
    BY <1>0, <2>1, <2>2, QuietLocks, Zenon
<1>9. ASSUME NEW p \in Presented(a.cred), CredChecked(s, ct, a, p)
      PROVE  LInv' /\ Spacing
  <2>0. \A l \in own : IsValid(after[l])
    BY <1>p, <1>9, Zenon DEF CredChecked
  <2>1. PICK result : locks' = [l \in LockIds |-> IF l \in own /\ result = "denied"
                                  THEN RecordFailure(after[l], ct, now) ELSE after[l]]
    BY <1>p, <1>9, Zenon DEF CredChecked
  <2>2. ASSUME NEW l \in LockIds
        PROVE  /\ locks'[l] \in Lock \cup {Free} /\ (locks[l] # Free => locks'[l] # Free)
               /\ locks'[l] # Free => LockOK(locks'[l], now)
               /\ locks[l] # Free /\ locks'[l].fails > locks[l].fails => locks[l].barrier = -1
    <3>1. CASE l \in own /\ result = "denied"
      <4>1. locks'[l] = RecordFailure(after[l], ct, now)
        BY <2>1, <3>1, Zenon
      <4>2. after[l] # Free /\ locks[l].barrier = -1 /\ MayCheck(after[l])
        BY <1>6, <2>0, <3>1, Zenon
      <4>3. LockOK(after[l], now)
        BY <1>5, <4>2, Zenon
      <4>4. LockOK(locks'[l], now)
        BY <1>0, <1>7, <4>1, <4>2, <4>3, FailureOK, Zenon
      <4>5. QED
        BY <4>2, <4>4, LockIsThere, Zenon DEF LockOK
    <3>2. CASE ~ (l \in own /\ result = "denied")
      <4>1. locks'[l] = after[l]
        BY <2>1, <3>2, Zenon
      <4>2. locks[l] # Free => locks[l].fails \in Nat /\ after[l].fails = locks[l].fails
        BY <1>5 DEF LockOK, Lock
      <4>3. locks[l] # Free => ~ (locks'[l].fails > locks[l].fails)
        BY <4>1, <4>2
      <4>4. QED
        BY <1>5, <4>1, <4>3, Zenon
    <3>3. QED
      BY <3>1, <3>2
  <2>3. locks' \in [LockIds -> Lock \cup {Free}]
    BY <2>1, <2>2, Zenon
  <2>4. LInv'
    BY <1>0, <1>u, <2>2, <2>3, LocksOnly, Zenon
  <2>5. QED
    BY <2>2, <2>4, Zenon DEF Spacing
<1>10. QED
  BY <1>r, <1>8, <1>9, Zenon DEF CredStep

\* A task that is under way.
TaskOK(k) ==
  /\ k = [pc |-> k.pc, lock |-> k.lock, cred |-> k.cred, ct |-> k.ct]
  /\ k.pc \in {"insert", "lock"} /\ k.cred \in Credential /\ k.ct \in 0 .. now
  /\ k.pc = "lock" /\ k.lock \in LockIds => locks[k.lock] # Free

(* A task that looks its lock up. *)
LEMMA UnixBeginLocks ==
  ASSUME IInv, NEW t \in Tasks, UnixBegin(t)
  PROVE  LInv' /\ Spacing
<1>0. LInv /\ now \in Nat /\ account \in Account
  BY DEF IInv, LInv, AInv
<1>1. PICK k : /\ k = [pc |-> IF softlocks[account.unix.uuid] = 0 THEN "insert" ELSE "lock",
                       lock |-> softlocks[account.unix.uuid], cred |-> account.unix, ct |-> now]
               /\ account.unix # NoCred /\ tasks' = [tasks EXCEPT ![t] = k]
               /\ now' = now /\ softlocks' = softlocks /\ locks' = locks
  BY Zenon DEF UnixBegin
<1>2. account.unix \in Credential /\ account.unix.uuid \in Uuids
  BY <1>0, <1>1 DEF Account, Credential
<1>3. softlocks[account.unix.uuid] \in LockIds => locks[softlocks[account.unix.uuid]] # Free
  BY <1>0, <1>2, Zenon DEF LInv
<1>4. TaskOK(k)
  BY <1>0, <1>1, <1>2, <1>3 DEF TaskOK
<1>5. DOMAIN tasks' = Tasks /\ \A v \in Tasks : tasks'[v] = IF v = t THEN k ELSE tasks[v]
  BY <1>0, <1>1 DEF LInv
<1>6. \A v \in Tasks : tasks'[v] # Idle => TaskOK(tasks'[v])
  BY <1>0, <1>4, <1>5, Zenon DEF LInv, TaskOK
<1>7. LInv'
  BY <1>0, <1>1, <1>5, <1>6, Zenon DEF LInv, TaskOK
<1>8. \A l \in LockIds : locks[l] # Free => locks[l].fails \in Nat
  BY <1>0 DEF LInv, LockOK, Lock
<1>9. Spacing
  BY <1>0, <1>1, <1>8, QuietLocks
<1>10. QED
  BY <1>7, <1>9

(* A task that puts a lock in the map. *)
LEMMA UnixInsertLocks ==
  ASSUME IInv, NEW t \in Tasks, UnixInsert(t)
  PROVE  LInv' /\ Spacing
<1>0. LInv /\ now \in Nat
  BY DEF IInv, LInv
<1>1. tasks[t].pc = "insert" /\ now' = now
  BY DEF UnixInsert
<1>2. tasks[t] # Idle
  BY <1>1 DEF Idle
<1>3. PICK k, cred, fresh, free : k = tasks[t] /\ cred = k.cred /\ fresh = NewLock(SoftlockPolicy(cred)) /\ free = FreeLock
  BY Zenon
<1>4. TaskOK(k) /\ cred \in Credential /\ cred.uuid \in Uuids
  BY <1>0, <1>2, <1>3 DEF LInv, TaskOK, Credential
<1>5. LockOK(fresh, now) /\ fresh \in Lock /\ fresh # Free /\ fresh.fails = 0
  <2>1. LockOK(fresh, now)
    BY <1>0, <1>3, <1>4, PolicyKnown, NewLockOK, Zenon
  <2>2. fresh.fails = 0
    BY <1>3 DEF NewLock
  <2>3. QED
    BY <2>1, <2>2, LockIsThere, Zenon DEF LockOK
<1>6. softlocks' = [softlocks EXCEPT ![cred.uuid] = free]
  BY <1>3, Zenon DEF UnixInsert
<1>7. tasks' = [tasks EXCEPT ![t].pc = "lock", ![t].lock = free]
  BY <1>3, Zenon DEF UnixInsert
<1>12. PICK ls : ls = [locks EXCEPT ![free] = fresh]
  BY Zenon
<1>8. locks' = Collected(ls, softlocks', tasks')
  BY <1>3, <1>12, Zenon DEF UnixInsert
<1>9. DOMAIN softlocks' = Uuids /\ \A u \in Uuids : softlocks'[u] = IF u = cred.uuid THEN free ELSE softlocks[u]
  BY <1>0, <1>4, <1>6 DEF LInv
<1>10. PICK j : j = [pc |-> "lock", lock |-> free, cred |-> cred, ct |-> k.ct]
  BY Zenon
<1>11. DOMAIN tasks' = Tasks /\ \A v \in Tasks : tasks'[v] = IF v = t THEN j ELSE tasks[v]
  <2>1. PICK x, y, z, c : k = [pc |-> x, lock |-> y, cred |-> z, ct |-> c]
    BY <1>4, Zenon DEF TaskOK
  <2>a. k.cred = z /\ k.ct = c
    BY <2>1
  <2>2. [[k EXCEPT !.pc = "lock"] EXCEPT !.lock = free] = j
    <3>1. [[pc |-> x, lock |-> y, cred |-> z, ct |-> c] EXCEPT !.pc = "lock"]
            = [pc |-> "lock", lock |-> y, cred |-> z, ct |-> c]
      OBVIOUS
    <3>3. [[pc |-> "lock", lock |-> y, cred |-> z, ct |-> c] EXCEPT !.lock = free]
            = [pc |-> "lock", lock |-> free, cred |-> z, ct |-> c]
      OBVIOUS
    <3>2. QED
      BY <1>3, <1>10, <2>1, <2>a, <3>1, <3>3, Zenon
  <2>3. DOMAIN tasks = Tasks
    BY <1>0, Zenon DEF LInv
  <2>4. DOMAIN tasks' = Tasks /\ \A v \in Tasks : v # t => tasks'[v] = tasks[v]
    BY <1>7, <2>3
  <2>5. tasks'[t] = [[k EXCEPT !.pc = "lock"] EXCEPT !.lock = free]
    BY <1>3, <1>7, <2>3
  <2>6. QED
    BY <2>2, <2>4, <2>5, Zenon
<1>13. \A l \in LockIds : ls[l] = IF l = free THEN fresh ELSE locks[l]
  BY <1>0, <1>12 DEF LInv
<1>a. locks' = [l \in LockIds |->
                  IF \/ \E u \in Uuids : softlocks'[u] = l
                     \/ \E v \in Tasks : tasks'[v].pc = "lock" /\ tasks'[v].lock = l
                  THEN ls[l] ELSE Free]
  BY <1>8, Zenon DEF Collected
<1>14. \A l \in LockIds :
         /\ locks'[l] = Free \/ locks'[l] = ls[l]
         /\ \/ \E u \in Uuids : softlocks'[u] = l
            \/ \E v \in Tasks : tasks'[v].pc = "lock" /\ tasks'[v].lock = l
            => locks'[l] = ls[l]
  BY <1>a, Zenon
<1>15. \A l \in LockIds : locks'[l] = Free \/ locks'[l] = locks[l] \/ locks'[l] = fresh
  BY <1>13, <1>14, Zenon
<1>16. locks' \in [LockIds -> Lock \cup {Free}]
  <2>1. \A l \in LockIds : locks'[l] \in Lock \cup {Free}
    BY <1>0, <1>5, <1>15, Zenon DEF LInv
  <2>2. QED
    BY <1>a, <2>1, Zenon
<1>17. \A l \in LockIds : locks'[l] # Free => LockOK(locks'[l], now)
  BY <1>0, <1>5, <1>15, Zenon DEF LInv
<1>18. \A u \in Uuids : softlocks'[u] \in LockIds => locks'[softlocks'[u]] # Free
  <2>1. ASSUME NEW u \in Uuids, softlocks'[u] \in LockIds
        PROVE  locks'[softlocks'[u]] # Free
    <3>1. locks'[softlocks'[u]] = ls[softlocks'[u]]
      BY <1>14, <2>1, Zenon
    <3>2. CASE softlocks'[u] = free
      BY <1>5, <1>13, <2>1, <3>1, <3>2, Zenon
    <3>3. CASE softlocks'[u] # free
      <4>1. softlocks'[u] = softlocks[u]
        BY <1>9, <3>3, Zenon
      <4>2. locks[softlocks[u]] # Free
        BY <1>0, <2>1, <4>1, ZenonT(60) DEF LInv
      <4>3. ls[softlocks'[u]] = locks[softlocks'[u]]
        BY <1>13, <2>1, <3>3, ZenonT(60)
      <4>4. QED
        BY <3>1, <4>1, <4>2, <4>3, ZenonT(60)
    <3>4. QED
      BY <3>2, <3>3
  <2>2. QED
    BY <2>1
<1>19. \A v \in Tasks : tasks'[v] # Idle => TaskOK(tasks[v])'
  <2>1. ASSUME NEW v \in Tasks, tasks'[v] # Idle
        PROVE  TaskOK(tasks[v])'
    <3>1. tasks'[v].pc = "lock" /\ tasks'[v].lock \in LockIds => locks'[tasks'[v].lock] # Free
      <4>1. SUFFICES ASSUME tasks'[v].pc = "lock", tasks'[v].lock \in LockIds
                     PROVE  locks'[tasks'[v].lock] # Free
        OBVIOUS
      <4>2. locks'[tasks'[v].lock] = ls[tasks'[v].lock]
        BY <1>14, <2>1, <4>1, Zenon
      <4>3. CASE tasks'[v].lock = free
        BY <1>5, <1>13, <4>1, <4>2, <4>3, Zenon
      <4>4. CASE tasks'[v].lock # free
        <5>1. v # t
          BY <1>10, <1>11, <4>4
        <5>2. tasks'[v] = tasks[v]
          BY <1>11, <5>1, Zenon
        <5>3. locks[tasks'[v].lock] # Free
          BY <1>0, <2>1, <4>1, <5>2, Zenon DEF LInv
        <5>4. QED
          BY <1>13, <4>1, <4>2, <4>4, <5>3, Zenon
      <4>5. QED
        BY <4>3, <4>4
    <3>2. CASE v = t
      <4>1. tasks'[v] = j
        BY <1>11, <3>2, Zenon
      <4>2. k.ct \in 0 .. now
        BY <1>4, Zenon DEF TaskOK
      <4>3. /\ j = [pc |-> j.pc, lock |-> j.lock, cred |-> j.cred, ct |-> j.ct]
            /\ j.pc = "lock" /\ j.cred \in Credential /\ j.ct \in 0 .. now
        BY <1>4, <1>10, <4>2
      <4>4. QED
        BY <1>1, <3>1, <4>1, <4>3 DEF TaskOK
    <3>3. CASE v # t
      <4>1. tasks'[v] = tasks[v]
        BY <1>11, <3>3, Zenon
      <4>2. QED
        BY <1>0, <1>1, <2>1, <3>1, <4>1, Zenon DEF LInv, TaskOK
    <3>4. QED
      BY <3>2, <3>3
  <2>2. QED
    BY <2>1
<1>20. LInv'
  BY <1>0, <1>1, <1>9, <1>11, <1>16, <1>17, <1>18, <1>19, Zenon DEF LInv, TaskOK
<1>21. \A l \in LockIds : locks[l] # Free => locks[l].fails \in Nat
  BY <1>0 DEF LInv, LockOK, Lock
<1>22. \A l \in LockIds : locks[l] # Free /\ locks'[l] # Free =>
          locks'[l].fails \in Nat /\ locks'[l].fails <= locks[l].fails
  BY <1>5, <1>15, <1>21
<1>23. QED
  BY <1>0, <1>20, <1>22, QuietLocks, Zenon

(* A task that checks a password. *)
LEMMA UnixVerifyLocks ==
  ASSUME IInv, NEW t \in Tasks, UnixVerify(t)
  PROVE  LInv' /\ Spacing
<1>0. LInv /\ now \in Nat
  BY DEF IInv, LInv
<1>1. tasks[t].pc = "lock" /\ now' = now /\ softlocks' = softlocks /\ tasks' = [tasks EXCEPT ![t] = Idle]
  BY DEF UnixVerify
<1>2. tasks[t] # Idle
  BY <1>1 DEF Idle
<1>3. PICK k, m, ct, after :
        k = tasks[t] /\ m = k.lock /\ ct = k.ct /\ after = ApplyTimeStep(locks[m], ct)
  BY Zenon
<1>4. TaskOK(k) /\ k.pc = "lock" /\ ct \in 0 .. now
  BY <1>0, <1>1, <1>2, <1>3, Zenon DEF LInv, TaskOK
<1>a. PICK pw : locks' = Collected([locks EXCEPT ![m] = IF IsValid(after) /\ pw # k.cred.pw
                                                      THEN RecordFailure(after, ct, now) ELSE after],
                                  softlocks, tasks')
  BY <1>3, Zenon DEF UnixVerify
<1>5. PICK x : /\ x = IF IsValid(after) /\ pw # k.cred.pw THEN RecordFailure(after, ct, now) ELSE after
               /\ locks' = Collected([locks EXCEPT ![m] = x], softlocks, tasks')
  BY <1>a, Zenon
<1>b. x = after \/ (x = RecordFailure(after, ct, now) /\ IsValid(after))
  BY <1>5, Zenon
<1>6. m \in LockIds => /\ locks[m] # Free /\ LockOK(locks[m], now)
                       /\ LockOK(x, now) /\ x # Free /\ x \in Lock
                       /\ x.fails > locks[m].fails => locks[m].barrier = -1
  <2>1. SUFFICES ASSUME m \in LockIds
                 PROVE  /\ locks[m] # Free /\ LockOK(locks[m], now)
                        /\ LockOK(x, now) /\ x # Free /\ x \in Lock
                        /\ x.fails > locks[m].fails => locks[m].barrier = -1
    BY Zenon
  <2>2. locks[m] # Free /\ LockOK(locks[m], now)
    BY <1>0, <1>3, <1>4, <2>1, Zenon DEF LInv, TaskOK
  <2>3. /\ LockOK(after, now) /\ after.fails = locks[m].fails
        /\ IsValid(after) => locks[m].barrier = -1 /\ MayCheck(after)
    <3>1. TimeStepped(locks[m], after, now)
      BY <1>0, <1>3, <1>4, <2>2, TimeStepOK, Zenon
    <3>2. QED
      BY <3>1, Zenon DEF TimeStepped
  <2>4. CASE x = after
    <3>1. after.fails \in Nat
      BY <2>3 DEF LockOK, Lock
    <3>2. ~ (x.fails > locks[m].fails)
      BY <2>3, <2>4, <3>1
    <3>3. QED
      BY <2>2, <2>3, <2>4, <3>2, LockIsThere, Zenon DEF LockOK
  <2>5. CASE x = RecordFailure(after, ct, now) /\ IsValid(after)
    <3>1. LockOK(x, now)
      BY <1>0, <1>4, <2>3, <2>5, FailureOK, Zenon
    <3>2. QED
      BY <2>2, <2>3, <2>5, <3>1, LockIsThere, Zenon DEF LockOK
  <2>6. QED
    BY <1>b, <2>4, <2>5, Zenon
<1>7. PICK ls : ls = [locks EXCEPT ![m] = x]
  BY Zenon
<1>8. \A l \in LockIds : ls[l] = IF l = m THEN x ELSE locks[l]
  BY <1>0, <1>7 DEF LInv
<1>9. locks' = Collected(ls, softlocks, tasks')
  BY <1>5, <1>7, Zenon
<1>10. locks' = [l \in LockIds |->
                  IF \/ \E u \in Uuids : softlocks[u] = l
                     \/ \E v \in Tasks : tasks'[v].pc = "lock" /\ tasks'[v].lock = l
                  THEN ls[l] ELSE Free]
  BY <1>9, Zenon DEF Collected
<1>11. \A l \in LockIds :
         /\ locks'[l] = Free \/ locks'[l] = ls[l]
         /\ \/ \E u \in Uuids : softlocks[u] = l
            \/ \E v \in Tasks : tasks'[v].pc = "lock" /\ tasks'[v].lock = l
            => locks'[l] = ls[l]
  BY <1>10, Zenon
<1>12. \A l \in LockIds : /\ ls[l] \in Lock \cup {Free} /\ (locks[l] # Free => ls[l] # Free)
                          /\ ls[l] # Free => LockOK(ls[l], now)
  BY <1>0, <1>6, <1>8, Zenon DEF LInv
<1>13. locks' \in [LockIds -> Lock \cup {Free}] /\ \A l \in LockIds : locks'[l] # Free => LockOK(locks'[l], now)
  BY <1>10, <1>11, <1>12
<1>14. \A u \in Uuids : softlocks[u] \in LockIds => locks'[softlocks[u]] # Free
  <2>1. \A u \in Uuids : softlocks[u] \in LockIds => locks[softlocks[u]] # Free
    BY <1>0, Zenon DEF LInv
  <2>2. QED
    BY <1>11, <1>12, <2>1, Zenon
<1>15. DOMAIN tasks' = Tasks /\ \A v \in Tasks : tasks'[v] = IF v = t THEN Idle ELSE tasks[v]
  BY <1>0, <1>1 DEF LInv
<1>16. ASSUME NEW v \in Tasks, tasks'[v] # Idle
       PROVE  TaskOK(tasks[v])'
  <2>1. tasks'[v] = tasks[v]
    BY <1>15, <1>16, Zenon
  <2>2. TaskOK(tasks[v])
    BY <1>0, <1>16, <2>1, Zenon DEF LInv, TaskOK
  <2>3. tasks[v].pc = "lock" /\ tasks[v].lock \in LockIds => locks'[tasks[v].lock] # Free
    BY <1>11, <1>12, <2>1, <2>2, Zenon DEF TaskOK
  <2>4. QED
    BY <1>1, <2>1, <2>2, <2>3, Zenon DEF TaskOK
<1>17. LInv'
  BY <1>0, <1>1, <1>13, <1>14, <1>15, <1>16, Zenon DEF LInv, TaskOK
<1>18. Spacing
  <2>1. ASSUME NEW l \in LockIds, locks[l] # Free, locks'[l] # Free, locks'[l].fails > locks[l].fails
        PROVE  locks[l].barrier = -1
    <3>1. locks'[l] = IF l = m THEN x ELSE locks[l]
      BY <1>8, <1>11, <2>1, Zenon
    <3>2. locks[l].fails \in Nat
      BY <1>0, <2>1 DEF LInv, LockOK, Lock
    <3>3. l = m
      BY <2>1, <3>1, <3>2
    <3>4. QED
      BY <1>6, <2>1, <3>1, <3>3, Zenon
  <2>2. QED
    BY <2>1 DEF Spacing
<1>19. QED
  BY <1>17, <1>18

(* The clock moves on. *)
LEMMA TickLocks ==
  ASSUME IInv, Tick
  PROVE  LInv' /\ Spacing
<1>0. LInv /\ now \in Nat
  BY DEF IInv, LInv
<1>1. /\ now' = now + 1 /\ softlocks' = softlocks /\ tasks' = tasks
      /\ locks' = [l \in LockIds |-> IF locks[l] = Free THEN Free ELSE Aged(locks[l], now + 1)]
  BY DEF Tick
<1>2. ASSUME NEW l \in LockIds
      PROVE  /\ locks'[l] \in Lock \cup {Free} /\ (locks[l] # Free <=> locks'[l] # Free)
             /\ locks'[l] # Free => LockOK(locks'[l], now + 1) /\ locks'[l].fails <= locks[l].fails
  <2>1. CASE locks[l] = Free
    BY <1>1, <2>1, Zenon
  <2>2. CASE locks[l] # Free
    <3>1. locks'[l] = Aged(locks[l], now + 1)
      BY <1>1, <2>2, Zenon
    <3>2. LockOK(locks[l], now)
      BY <1>0, <2>2, Zenon DEF LInv
    <3>3. LockOK(locks'[l], now + 1) /\ locks'[l].fails <= locks[l].fails
      BY <1>0, <3>1, <3>2, AgedOK, Zenon
    <3>4. QED
      BY <2>2, <3>3, LockIsThere, Zenon DEF LockOK
  <2>3. QED
    BY <2>1, <2>2
<1>3. locks' \in [LockIds -> Lock \cup {Free}]
  BY <1>1, <1>2, Zenon
<1>4. now' \in Nat /\ \A c \in 0 .. now : c \in 0 .. now'
  BY <1>0, <1>1
<1>5. LInv'
  BY <1>0, <1>1, <1>2, <1>3, <1>4, Zenon DEF LInv
<1>6. \A l \in LockIds : locks'[l] # Free => locks'[l].fails \in Nat
  BY <1>2 DEF LockOK, Lock
<1>7. QED
  BY <1>0, <1>2, <1>5, <1>6, QuietLocks, Zenon

(* The server stops and starts with no locks. *)
LEMMA RestartLocks ==
  ASSUME IInv, Restart
  PROVE  LInv' /\ Spacing
<1>0. LInv /\ now \in Nat
  BY DEF IInv, LInv
<1>1. /\ now' = now /\ softlocks' = [u \in Uuids |-> 0] /\ locks' = [l \in LockIds |-> Free]
      /\ tasks' = [t \in Tasks |-> Idle]
  BY DEF Restart
<1>2. 0 \notin LockIds
  BY DEF LockIds
<1>3. LInv'
  BY <1>0, <1>1, <1>2 DEF LInv
<1>4. QED
  BY <1>1, <1>3 DEF Spacing

-----------------------------------------------------------------------------
(***************************************************************************)
(* The steps keep the invariant of the sessions, and their verdicts.       *)
(***************************************************************************)

\* A verdict stays until its session is dropped: the step of VerdictIsFinal.
Final ==
  \A s \in SessionIds :
    sessions[s] # NoSession /\ sessions[s].st \in {"success", "denied"} =>
      \/ sessions'[s] \in {sessions[s], NoSession}
      \/ (sessions[s].started < now - Timeout /\ sessions'[s].st = "init")

SessionStep == SInv' /\ Final

(* Sessions that stay or are dropped. *)
LEMMA SessionsDropped ==
  ASSUME SInv, \A s \in SessionIds : sessions'[s] = sessions[s] \/ sessions'[s] = NoSession
  PROVE  SessionStep
<1>1. SInv'
  BY Zenon DEF SInv
<1>2. Final
  BY Zenon DEF Final
<1>3. QED
  BY <1>1, <1>2 DEF SessionStep

(* One session moves, and the others stay or are dropped. *)
LEMMA SessionMoves ==
  ASSUME SInv, NEW ct, NEW s \in SessionIds, NEW b, SessionOK(b),
         sessions' = [Unexpired(ct) EXCEPT ![s] = b],
         sessions[s] # NoSession /\ sessions[s].st \in {"success", "denied"} =>
           b = sessions[s] \/ (sessions[s].started < now - Timeout /\ b.st = "init")
  PROVE  SessionStep
<1>1. \A r \in SessionIds : sessions'[r] = IF r = s THEN b ELSE Unexpired(ct)[r]
  BY DEF Unexpired
<1>2. sessions'[s] = b
  BY <1>1, Zenon
<1>3. \A r \in SessionIds : r # s => sessions'[r] = sessions[r] \/ sessions'[r] = NoSession
  BY <1>1, KeptSessions, Zenon
<1>4. SInv'
  BY <1>2, <1>3, Zenon DEF SInv
<1>5. Final
  BY <1>2, <1>3, Zenon DEF Final
<1>6. QED
  BY <1>4, <1>5 DEF SessionStep

(* The handlers of an account, and those of an account with no credential. *)
LEMMA HandlersKnown ==
  ASSUME NEW acct \in Account
  PROVE  /\ Handlers(acct) \subseteq Mechs
         /\ acct.primary = NoCred => Handlers(acct) \subseteq {"anonymous", "passkey"}
<1>1. CASE acct.anonymous
  BY <1>1 DEF Handlers, Mechs
<1>2. CASE ~acct.anonymous /\ acct.primary = NoCred
  <2>1. Handlers(acct) = {} \cup (IF acct.passkeys THEN {"passkey"} ELSE {})
    BY <1>2, Zenon DEF Handlers
  <2>2. QED
    BY <2>1 DEF Mechs
<1>3. CASE ~acct.anonymous /\ acct.primary # NoCred
  <2>1. acct.primary.type \in {"password", "generated", "mfa", "webauthn"}
    BY <1>3 DEF Account, Credential
  <2>2. PICK t : t = acct.primary.type
    BY Zenon
  <2>3. CASE t \in {"password", "generated"}
    <3>1. t # "mfa" /\ t # "webauthn"
      BY <2>3
    <3>2. Handlers(acct) = {"password"} \cup (IF acct.passkeys THEN {"passkey"} ELSE {})
      BY <1>3, <2>2, <2>3, <3>1, Zenon DEF Handlers
    <3>3. QED
      BY <1>3, <3>2 DEF Mechs
  <2>4. CASE t = "mfa"
    <3>1. t \notin {"password", "generated"} /\ t # "webauthn"
      BY <2>4
    <3>2. Handlers(acct) = (IF acct.primary.factors = {} THEN {} ELSE {"passwordmfa"})
                             \cup (IF acct.passkeys THEN {"passkey"} ELSE {})
      BY <1>3, <2>2, <2>4, <3>1, Zenon DEF Handlers
    <3>3. QED
      BY <1>3, <3>2 DEF Mechs
  <2>5. CASE t = "webauthn"
    <3>1. t \notin {"password", "generated"} /\ t # "mfa"
      BY <2>5
    <3>2. Handlers(acct) = {"passkey"} \cup (IF acct.passkeys THEN {"passkey"} ELSE {})
      BY <1>3, <2>2, <2>5, <3>1, Zenon DEF Handlers
    <3>3. QED
      BY <1>3, <3>2 DEF Mechs
  <2>6. QED
    BY <2>1, <2>2, <2>3, <2>4, <2>5
<1>4. QED
  BY <1>1, <1>2, <1>3

(* A new session. *)
LEMMA AuthInitSessions ==
  ASSUME IInv, NEW s \in SessionIds, AuthInit(s)
  PROVE  SessionStep
<1>0. LInv /\ SInv /\ now \in Nat /\ account \in Account
  BY DEF IInv, LInv, AInv
<1>2. PICK ct \in Times : /\ Unexpired(ct)[s] = NoSession
                          /\ sessions' = IF account.valid /\ Handlers(account) # {}
                                         THEN [Unexpired(ct) EXCEPT ![s] =
                                                 [st |-> "init", handlers |-> Handlers(account), mech |-> "none",
                                                  cred |-> account.primary, mfa |-> "init",
                                                  started |-> ct, proved |-> <<>>]]
                                         ELSE Unexpired(ct)
  BY Zenon DEF AuthInit
<1>3. ct \in 0 .. now
  BY <1>0, TimesKnown, Zenon
<1>4. CASE account.valid /\ Handlers(account) # {}
  <2>1. PICK a : a = [st |-> "init", handlers |-> Handlers(account), mech |-> "none",
                      cred |-> account.primary, mfa |-> "init", started |-> ct, proved |-> <<>>]
    BY Zenon
  <2>2. sessions' = [Unexpired(ct) EXCEPT ![s] = a]
    BY <1>2, <1>4, <2>1, Zenon
  <2>3. /\ a.st = "init" /\ a.handlers = Handlers(account) /\ a.mech = "none"
        /\ a.cred = account.primary /\ a.mfa = "init" /\ a.proved = <<>>
    BY <2>1
  <2>4. a \in Open
    <3>1. Handlers(account) \subseteq Mechs /\ account.primary \in Credential \cup {NoCred}
      BY <1>0, HandlersKnown DEF Account
    <3>2. QED
      BY <1>3, <2>1, <3>1 DEF Open
  <2>5. Handled(a)
    BY <1>0, <2>3, HandlersKnown DEF Handled
  <2>6. Proving(a)
    BY <2>3 DEF Proving
  <2>7. SessionOK(a)
    BY <2>4, <2>5, <2>6, Zenon DEF SessionOK
  <2>8. sessions[s] # NoSession => sessions[s].started < now - Timeout
    <3>1. sessions[s] # NoSession => sessions[s].started < ct - Timeout /\ sessions[s].started \in Nat
      BY <1>0, <1>2, KeptSessions, SessionKinds, Zenon DEF SInv
    <3>2. QED
      BY <1>0, <1>3, <3>1, AuthAssumption
  <2>9. QED
    BY <1>0, <2>2, <2>3, <2>7, <2>8, SessionMoves, Zenon
<1>5. CASE ~ (account.valid /\ Handlers(account) # {})
  <2>1. sessions' = Unexpired(ct)
    BY <1>2, <1>5, Zenon
  <2>2. QED
    BY <1>0, <2>1, KeptSessions, SessionsDropped, Zenon
<1>6. QED
  BY <1>4, <1>5

(* A session begins. *)
LEMMA BeginSessions ==
  ASSUME IInv, NEW s \in SessionIds, NEW m \in Mechs, Begin(s, m)
  PROVE  SessionStep
<1>0. SInv
  BY DEF IInv
<1>1. PICK ct, a, b : /\ Unexpired(ct)[s] # NoSession /\ a = StartSession(Unexpired(ct)[s], m)
                      /\ b = a \/ (a.st = "inprogress" /\ b = Denied(a))
                      /\ sessions' = [Unexpired(ct) EXCEPT ![s] = b]
  BY Zenon DEF Begin
<1>2. Unexpired(ct)[s] = sessions[s] /\ SessionOK(sessions[s]) /\ a = StartSession(sessions[s], m)
  BY <1>0, <1>1, KeptSessions, Zenon
<1>3. /\ SessionOK(a) /\ (sessions[s].st # "init" => a = sessions[s])
      /\ a \in Open => sessions[s] \in Open /\ a.cred = sessions[s].cred
  BY <1>2, StartOK, Zenon
<1>4. SessionOK(b) /\ (b \in Open => b = a)
  BY <1>1, <1>3, DeniedOK, Zenon
<1>5. sessions[s].st \in {"success", "denied"} => b = sessions[s]
  <2>1. SUFFICES ASSUME sessions[s].st \in {"success", "denied"}
                 PROVE  b = sessions[s]
    OBVIOUS
  <2>2. sessions[s].st # "init" /\ sessions[s].st # "inprogress"
    BY <2>1
  <2>3. QED
    BY <1>1, <1>3, <2>2, Zenon
<1>6. QED
  BY <1>0, <1>1, <1>3, <1>4, <1>5, SessionMoves, Zenon

(* A credential is checked. *)
LEMMA CredSessions ==
  ASSUME IInv, NEW s \in SessionIds, Cred(s)
  PROVE  SessionStep
<1>0. SInv
  BY DEF IInv
<1>1. PICK ct \in Times : \E a : CredStep(s, ct, a)
  BY CredSteps, Zenon
<1>2. PICK a : CredStep(s, ct, a)
  BY <1>1, Zenon
<1>3. a = sessions[s] /\ SessionOK(a) /\ a.st = "inprogress"
  BY <1>0, <1>2, KeptSessions, Zenon DEF CredStep
<1>4. a \in Open /\ a.st \notin {"success", "denied"}
  BY <1>3, SessionKinds
<1>5. PICK b : SessionOK(b) /\ (b \in Open => b.cred = a.cred) /\ sessions' = [Unexpired(ct) EXCEPT ![s] = b]
  <2>1. CASE CredRefused(s, ct, a)
    BY <1>3, <2>1, DeniedOK, Zenon DEF CredRefused
  <2>2. ASSUME NEW p \in Presented(a.cred), CredChecked(s, ct, a, p)
        PROVE  \E b : SessionOK(b) /\ (b \in Open => b.cred = a.cred) /\ sessions' = [Unexpired(ct) EXCEPT ![s] = b]
    <3>1. PICK result : result = Validate(a, p)
      BY Zenon
    <3>2. PICK b : b = Validated(a, p, result)
      BY Zenon
    <3>3. SessionOK(b) /\ (b \in Open => b.cred = a.cred)
      <4>1. Follows(a, b)
        BY <1>3, <3>1, <3>2, ValidatedOK, Zenon
      <4>2. QED
        BY <4>1, Zenon DEF Follows
    <3>4. sessions' = [Unexpired(ct) EXCEPT ![s] = b]
      BY <2>2, <3>1, <3>2, Zenon DEF CredChecked
    <3>5. QED
      BY <3>3, <3>4, Zenon
  <2>3. QED
    BY <1>2, <2>1, <2>2, Zenon DEF CredStep
<1>6. QED
  BY <1>0, <1>3, <1>4, <1>5, SessionMoves, Zenon

-----------------------------------------------------------------------------
(***************************************************************************)
(* The account and the queue of delayed actions.                           *)
(***************************************************************************)

\* What a delayed action d makes of the account.
Rewritten(acct, d, new) ==
  /\ new \in Account
  /\ acct.primary = NoCred => new.primary = NoCred
  /\ acct.primary # NoCred =>
       /\ new.primary # NoCred /\ new.primary.codes \subseteq acct.primary.codes
       /\ new.primary.pw = acct.primary.pw
       /\ new.primary.type = "mfa" <=> acct.primary.type = "mfa"
  /\ acct.unix # NoCred => new.unix.pw = acct.unix.pw
  /\ d.op = "coderemoval" /\ acct.primary # NoCred /\ acct.primary.type = "mfa" =>
       d.code \notin new.primary.codes

(* A credential is not the absence of one. *)
LEMMA CredentialIsThere ==
  ASSUME NEW c \in Credential
  PROVE  c # NoCred
BY DEF Credential, NoCred

\* The account with another primary credential.
WithPrimary(acct, c, new) ==
  new \in Account /\ new.primary = c /\ new.unix = acct.unix

(* An account with another primary credential. *)
LEMMA OtherPrimary ==
  ASSUME NEW acct \in Account, NEW c \in Credential, NEW new,
         new = [primary |-> c, unix |-> acct.unix, passkeys |-> acct.passkeys,
                anonymous |-> acct.anonymous, valid |-> acct.valid, changes |-> acct.changes,
                updaters |-> acct.updaters]
  PROVE  WithPrimary(acct, c, new)
BY DEF Account, WithPrimary

(* The upgrade of the password. *)
LEMMA PwUpgradeOK ==
  ASSUME NEW acct \in Account, NEW d, d.op # "coderemoval", NEW new, new = PwUpgrade(acct, d)
  PROVE  Rewritten(acct, d, new)
<1>1. CASE acct.primary # NoCred /\ acct.primary.type # "webauthn" /\ acct.primary.pw = d.pw
  <2>1. acct.primary \in Credential
    BY <1>1 DEF Account
  <2>2. new = [acct EXCEPT !.primary.old = FALSE,
                           !.primary.type = IF @ = "generated" THEN "password" ELSE @]
    BY <1>1, Zenon DEF PwUpgrade
  <2>3. PICK p, t : p = acct.primary /\ t = IF p.type = "generated" THEN "password" ELSE p.type
    BY Zenon
  <2>4. PICK c : c = [p EXCEPT !.old = FALSE, !.type = t]
    BY Zenon
  <2>5. new = [acct EXCEPT !.primary = [acct.primary EXCEPT !.old = FALSE,
                 !.type = IF acct.primary.type = "generated" THEN "password" ELSE acct.primary.type]]
    BY <2>1, <2>2, Zenon DEF Account, Credential
  <2>6. new = [acct EXCEPT !.primary = c]
    BY <2>3, <2>4, <2>5, Zenon
  <2>7. new = [primary |-> c, unix |-> acct.unix, passkeys |-> acct.passkeys,
               anonymous |-> acct.anonymous, valid |-> acct.valid, changes |-> acct.changes,
               updaters |-> acct.updaters]
    BY <2>6, Zenon DEF Account
  <2>8. c = [type |-> t, factors |-> p.factors, codes |-> p.codes, pw |-> p.pw, old |-> FALSE,
             uuid |-> p.uuid]
    BY <2>1, <2>3, <2>4, Zenon DEF Credential
  <2>9. c \in Credential /\ c.codes = p.codes /\ c.pw = p.pw /\ c.type = t
    BY <2>1, <2>3, <2>8 DEF Credential
  <2>10. t = "mfa" <=> p.type = "mfa"
    BY <2>3
  <2>11. WithPrimary(acct, c, new)
    BY <2>7, <2>9, OtherPrimary, Zenon
  <2>12. QED
    BY <1>1, <2>3, <2>9, <2>10, <2>11, CredentialIsThere DEF Rewritten, WithPrimary
<1>2. CASE ~ (acct.primary # NoCred /\ acct.primary.type # "webauthn" /\ acct.primary.pw = d.pw)
  <2>1. new = acct
    BY <1>2, Zenon DEF PwUpgrade
  <2>2. QED
    BY <2>1 DEF Rewritten
<1>3. QED
  BY <1>1, <1>2

(* The removal of a backup code. *)
LEMMA CodeRemovalOK ==
  ASSUME NEW acct \in Account, NEW d, NEW new, new = CodeRemoval(acct, d)
  PROVE  Rewritten(acct, d, new)
<1>1. CASE acct.primary # NoCred /\ acct.primary.type = "mfa"
  <2>1. PICK p, x : p = acct.primary /\ x = p.codes \ {d.code}
    BY Zenon
  <2>2. p \in Credential
    BY <1>1, <2>1 DEF Account
  <2>3. PICK c : c = [p EXCEPT !.codes = x]
    BY Zenon
  <2>4. new = [acct EXCEPT !.primary.codes = @ \ {d.code}]
    BY <1>1, Zenon DEF CodeRemoval
  <2>5. new = [acct EXCEPT !.primary = [acct.primary EXCEPT !.codes = acct.primary.codes \ {d.code}]]
    BY <2>4, Zenon
  <2>6. new = [acct EXCEPT !.primary = c]
    BY <2>1, <2>3, <2>5, Zenon
  <2>7. new = [primary |-> c, unix |-> acct.unix, passkeys |-> acct.passkeys,
               anonymous |-> acct.anonymous, valid |-> acct.valid, changes |-> acct.changes,
               updaters |-> acct.updaters]
    BY <2>6, Zenon DEF Account
  <2>8. c = [type |-> p.type, factors |-> p.factors, codes |-> x, pw |-> p.pw, old |-> p.old,
             uuid |-> p.uuid]
    BY <2>2, <2>3, Zenon DEF Credential
  <2>9. c \in Credential /\ c.codes = x /\ c.pw = p.pw /\ c.type = p.type
    BY <2>1, <2>2, <2>8 DEF Credential
  <2>10. WithPrimary(acct, c, new)
    BY <2>7, <2>9, OtherPrimary, Zenon
  <2>11. QED
    BY <1>1, <2>1, <2>9, <2>10, CredentialIsThere DEF Rewritten, WithPrimary
<1>2. CASE ~ (acct.primary # NoCred /\ acct.primary.type = "mfa")
  <2>1. new = acct
    BY <1>2, Zenon DEF CodeRemoval
  <2>2. QED
    BY <1>2, <2>1 DEF Rewritten
<1>3. QED
  BY <1>1, <1>2

(* The upgrade of the unix password. *)
LEMMA UnixPwUpgradeOK ==
  ASSUME NEW acct \in Account, NEW d, d.op # "coderemoval", NEW u \in Uuids,
         NEW new, new = UnixPwUpgrade(acct, d, u)
  PROVE  Rewritten(acct, d, new)
<1>1. CASE acct.unix # NoCred /\ acct.unix.pw = d.pw
  <2>1. acct.unix \in Credential
    BY <1>1 DEF Account
  <2>2. new = [acct EXCEPT !.unix.old = FALSE, !.unix.uuid = u]
    BY <1>1, Zenon DEF UnixPwUpgrade
  <2>3. PICK c : c = [acct.unix EXCEPT !.old = FALSE, !.uuid = u]
    BY Zenon
  <2>4. new = [acct EXCEPT !.unix = c]
    BY <2>1, <2>2, <2>3, Zenon DEF Account, Credential
  <2>5. new = [primary |-> acct.primary, unix |-> c, passkeys |-> acct.passkeys,
               anonymous |-> acct.anonymous, valid |-> acct.valid, changes |-> acct.changes,
               updaters |-> acct.updaters]
    BY <2>4, Zenon DEF Account
  <2>6. PICK v : v = acct.unix
    BY Zenon
  <2>7. c = [type |-> v.type, factors |-> v.factors, codes |-> v.codes, pw |-> v.pw, old |-> FALSE,
             uuid |-> u]
    BY <2>1, <2>3, <2>6, Zenon DEF Credential
  <2>8. c \in Credential /\ c.pw = v.pw
    BY <2>1, <2>6, <2>7 DEF Credential
  <2>9. new \in Account /\ new.primary = acct.primary /\ new.unix = c
    BY <2>5, <2>8 DEF Account
  <2>10. QED
    BY <1>1, <2>6, <2>8, <2>9 DEF Rewritten
<1>2. CASE ~ (acct.unix # NoCred /\ acct.unix.pw = d.pw)
  <2>1. new = acct
    BY <1>2, Zenon DEF UnixPwUpgrade
  <2>2. QED
    BY <2>1 DEF Rewritten
<1>3. QED
  BY <1>1, <1>2

\* A delayed action keeps the passwords: the step of UpgradesKeepThePassword.
Upgrading ==
  delayed # <<>> /\ delayed' = Tail(delayed) =>
    /\ account.primary # NoCred => account'.primary.pw = account.primary.pw
    /\ account.unix # NoCred => account'.unix.pw = account.unix.pw

\* A code that was accepted is on the account as before, or a copy of an update
\* session has it.
Returning ==
  \A c \in spent : c \in CodesOf(account'.primary) =>
    \/ c \in CodesOf(account.primary)
    \/ \E d \in Updates : updates[d] # NoUpdate /\ c \in CodesOf(updates[d])

AccountStep == AInv' /\ Upgrading /\ Returning

\* What AInv says of the codes that are spent.
SpentCodes == spent \subseteq Codes /\ SpentCodesAreRemoved

(* The account stays, and with it what AInv says of it alone. *)
LEMMA AccountKept ==
  ASSUME AInv, account' = account, uuids' = uuids, CopiesOK', delayed' \in Seq(DelayedAction),
         SpentCodes'
  PROVE  AccountStep
<1>1. AInv'
  BY Zenon DEF AInv, SpentCodes, Coded, CodesOf
<1>2. Upgrading
  BY Zenon DEF Upgrading
<1>3. Returning
  BY Zenon DEF Returning
<1>4. QED
  BY <1>1, <1>2, <1>3 DEF AccountStep

(* The copies stay. *)
LEMMA CopiesStay ==
  ASSUME AInv, updates' = updates
  PROVE  CopiesOK'
BY Zenon DEF AInv, CopiesOK, Coded, CodesOf

(* Neither the account nor the copies or the queue change. *)
LEMMA AccountStays ==
  ASSUME AInv, account' = account, uuids' = uuids, updates' = updates, delayed' = delayed,
         spent' = spent
  PROVE  AccountStep
<1>1. SpentCodes'
  BY Zenon DEF AInv, SpentCodes, SpentCodesAreRemoved, RemovalQueued, CodesOf
<1>2. delayed' \in Seq(DelayedAction)
  BY Zenon DEF AInv
<1>3. QED
  BY <1>1, <1>2, AccountKept, CopiesStay, Zenon

\* What is new in a queue.
Grown(old, d, new) ==
  /\ new \in Seq(DelayedAction)
  /\ \A i \in DOMAIN old : i \in DOMAIN new /\ new[i] = old[i]
  /\ \E i \in DOMAIN new : new[i] = d

(* An action is added to a queue. *)
LEMMA QueueGrows ==
  ASSUME NEW old \in Seq(DelayedAction), NEW d \in DelayedAction, NEW new, new = Append(old, d)
  PROVE  Grown(old, d, new)
<1>1. new \in Seq(DelayedAction) /\ Len(new) = Len(old) + 1 /\ new[Len(old) + 1] = d
  OBVIOUS
<1>2. \A i \in DOMAIN old : i \in DOMAIN new /\ new[i] = old[i]
  OBVIOUS
<1>3. Len(old) + 1 \in DOMAIN new
  BY <1>1
<1>4. QED
  BY <1>1, <1>2, <1>3, Zenon DEF Grown

(* An action is queued; it may be the removal of a code that is spent. *)
LEMMA ActionQueued ==
  ASSUME AInv, account' = account, uuids' = uuids, updates' = updates,
         NEW d \in DelayedAction, delayed' = Append(delayed, d),
         \/ spent' = spent
         \/ \E x \in Codes : d = [op |-> "coderemoval", code |-> x] /\ spent' = spent \cup {x}
  PROVE  AccountStep
<1>1. Grown(delayed, d, delayed')
  BY QueueGrows, Zenon DEF AInv
<1>2. spent' \subseteq Codes
  BY DEF AInv
<1>3. ASSUME NEW x \in spent', x \in CodesOf(account.primary)
      PROVE  \E i \in DOMAIN delayed' : delayed'[i] = [op |-> "coderemoval", code |-> x]
  <2>1. CASE x \in spent
    <3>1. PICK i \in DOMAIN delayed : delayed[i] = [op |-> "coderemoval", code |-> x]
      BY <1>3, <2>1, Zenon DEF AInv, SpentCodesAreRemoved, RemovalQueued
    <3>2. QED
      BY <1>1, <3>1, Zenon DEF Grown
  <2>2. CASE d = [op |-> "coderemoval", code |-> x]
    BY <1>1, <2>2, Zenon DEF Grown
  <2>3. QED
    BY <1>3, <2>1, <2>2, Zenon
<1>4. SpentCodesAreRemoved'
  BY <1>3, Zenon DEF SpentCodesAreRemoved, RemovalQueued, CodesOf
<1>5. SpentCodes'
  BY <1>2, <1>4, Zenon DEF SpentCodes
<1>6. delayed' \in Seq(DelayedAction)
  BY <1>1, Zenon DEF Grown
<1>7. QED
  BY <1>5, <1>6, AccountKept, CopiesStay, Zenon

\* What a session with credential cred adds to the queue q0 and to the codes
\* spent as it checks a credential.
Outcome(cred, q0, q1, s0, s1) ==
  \/ q1 = q0 /\ s1 = s0
  \/ \E pw \in Passwords : q1 = Append(q0, [op |-> "pwupgrade", pw |-> pw]) /\ s1 = s0
  \/ \E x \in CodesOf(cred) : q1 = Append(q0, [op |-> "coderemoval", code |-> x]) /\ s1 = s0 \cup {x}

(* The actions that a check queues. *)
LEMMA OutcomeOK ==
  ASSUME NEW a, NEW p \in Presented(a.cred), NEW result, NEW q0 \in Seq(DelayedAction), NEW s0,
         NEW q, q = Queued(a, p, result), NEW q1, q1 = q0 \o q,
         NEW s1, s1 = s0 \cup {d.code : d \in {e \in Range(q) : e.op = "coderemoval"}}
  PROVE  Outcome(a.cred, q0, q1, s0, s1)
<1>1. CASE result = "success" /\ p.kind = "password" /\ a.cred.old
  <2>0. result # "continue"
    BY <1>1
  <2>1. PICK d : d = [op |-> "pwupgrade", pw |-> p.val]
    BY Zenon
  <2>2. q = <<d>>
    BY <1>1, <2>0, <2>1, Zenon DEF Queued
  <2>3. p.val \in Passwords
    BY <1>1 DEF Presented
  <2>4. q1 = Append(q0, d)
    BY <2>2
  <2>5. Range(q) = {d} /\ d.op # "coderemoval"
    BY <2>1, <2>2 DEF Range
  <2>6. s1 = s0
    BY <2>5
  <2>7. QED
    BY <2>1, <2>3, <2>4, <2>6, Zenon DEF Outcome
<1>2. CASE result = "continue" /\ p.kind = "backupcode"
  <2>0. result # "success"
    BY <1>2
  <2>1. PICK d : d = [op |-> "coderemoval", code |-> p.val]
    BY Zenon
  <2>2. q = <<d>>
    BY <1>2, <2>0, <2>1, Zenon DEF Queued
  <2>3. p.val \in CodesOf(a.cred)
    BY <1>2 DEF Presented
  <2>4. q1 = Append(q0, d)
    BY <2>2
  <2>5. Range(q) = {d} /\ d.op = "coderemoval" /\ d.code = p.val
    BY <2>1, <2>2 DEF Range
  <2>6. s1 = s0 \cup {p.val}
    BY <2>5
  <2>7. QED
    BY <2>1, <2>3, <2>4, <2>6, Zenon DEF Outcome
<1>3. CASE /\ ~ (result = "success" /\ p.kind = "password" /\ a.cred.old)
           /\ ~ (result = "continue" /\ p.kind = "backupcode")
  <2>1. q = <<>>
    BY <1>3, Zenon DEF Queued
  <2>2. q1 = q0 /\ Range(q) = {}
    BY <2>1 DEF Range
  <2>3. s1 = s0
    BY <2>2
  <2>4. QED
    BY <2>2, <2>3, Zenon DEF Outcome
<1>4. QED
  BY <1>1, <1>2, <1>3, Zenon

(* A credential is checked. *)
LEMMA CredAccount ==
  ASSUME IInv, NEW s \in SessionIds, Cred(s)
  PROVE  AccountStep
<1>0. SInv /\ AInv
  BY DEF IInv
<1>1. PICK ct \in Times : \E a : CredStep(s, ct, a)
  BY CredSteps, Zenon
<1>2. PICK a : CredStep(s, ct, a)
  BY <1>1, Zenon
<1>3. account' = account /\ uuids' = uuids /\ updates' = updates
  BY <1>2 DEF CredStep
<1>4. a = sessions[s] /\ SessionOK(a) /\ a.st = "inprogress"
  BY <1>0, <1>2, KeptSessions, Zenon DEF CredStep
<1>5. a \in Open
  BY <1>4, SessionKinds
<1>6. Outcome(a.cred, delayed, delayed', spent, spent')
  <2>1. CASE CredRefused(s, ct, a)
    BY <2>1, Zenon DEF CredRefused, Outcome
  <2>2. ASSUME NEW p \in Presented(a.cred), CredChecked(s, ct, a, p)
        PROVE  Outcome(a.cred, delayed, delayed', spent, spent')
    <3>1. PICK result, q : result = Validate(a, p) /\ q = Queued(a, p, result)
      BY Zenon
    <3>2. /\ delayed' = delayed \o q
          /\ spent' = spent \cup {d.code : d \in {e \in Range(q) : e.op = "coderemoval"}}
      BY <2>2, <3>1, Zenon DEF CredChecked
    <3>3. delayed \in Seq(DelayedAction)
      BY <1>0, Zenon DEF AInv
    <3>4. QED
      BY <3>1, <3>2, <3>3, OutcomeOK, Zenon
  <2>3. QED
    BY <1>2, <2>1, <2>2, Zenon DEF CredStep
<1>7. CodesOf(a.cred) \subseteq Codes
  BY <1>5 DEF Open, CodesOf, Credential
<1>8. CASE delayed' = delayed /\ spent' = spent
  BY <1>0, <1>3, <1>8, AccountStays, Zenon
<1>9. ASSUME NEW pw \in Passwords, delayed' = Append(delayed, [op |-> "pwupgrade", pw |-> pw]),
             spent' = spent
      PROVE  AccountStep
  <2>1. [op |-> "pwupgrade", pw |-> pw] \in DelayedAction
    BY DEF DelayedAction
  <2>2. QED
    BY <1>0, <1>3, <1>9, <2>1, ActionQueued, Zenon
<1>10. ASSUME NEW x \in CodesOf(a.cred), spent' = spent \cup {x},
              delayed' = Append(delayed, [op |-> "coderemoval", code |-> x])
       PROVE  AccountStep
  <2>1. x \in Codes /\ [op |-> "coderemoval", code |-> x] \in DelayedAction
    BY <1>7, <1>10 DEF DelayedAction
  <2>2. QED
    BY <1>0, <1>3, <1>10, <2>1, ActionQueued, Zenon
<1>11. QED
  BY <1>6, <1>8, <1>9, <1>10, Zenon DEF Outcome

(* A unix or ldap password is checked. *)
LEMMA UnixVerifyAccount ==
  ASSUME IInv, NEW t \in Tasks, UnixVerify(t)
  PROVE  AccountStep
<1>0. AInv
  BY DEF IInv
<1>1. account' = account /\ uuids' = uuids /\ updates' = updates /\ spent' = spent
  BY DEF UnixVerify
<1>2. PICK pw \in Passwords :
        delayed' = delayed \/ delayed' = Append(delayed, [op |-> "unixpwupgrade", pw |-> pw])
  BY Zenon DEF UnixVerify
<1>3. [op |-> "unixpwupgrade", pw |-> pw] \in DelayedAction
  BY DEF DelayedAction
<1>4. CASE delayed' = delayed
  BY <1>0, <1>1, <1>4, AccountStays, Zenon
<1>5. CASE delayed' = Append(delayed, [op |-> "unixpwupgrade", pw |-> pw])
  BY <1>0, <1>1, <1>3, <1>5, ActionQueued, Zenon
<1>6. QED
  BY <1>2, <1>4, <1>5

(* A queue is not what is left of it. *)
LEMMA TailIsShorter ==
  ASSUME NEW q \in Seq(DelayedAction), q # <<>>
  PROVE  q # Tail(q)
OBVIOUS

(* No action is taken from the queue. *)
LEMMA NothingProcessed ==
  ASSUME AInv, AInv', Returning, delayed' = delayed
  PROVE  AccountStep
<1>1. delayed # <<>> => delayed # Tail(delayed)
  BY TailIsShorter, Zenon DEF AInv
<1>2. QED
  BY <1>1, Zenon DEF AccountStep, Upgrading

(* An account with another primary credential and other passkeys. *)
LEMMA NewPrimary ==
  ASSUME NEW a \in Account, NEW c \in Credential \cup {NoCred}, NEW pk \in BOOLEAN, NEW new,
         new = [a EXCEPT !.primary = c, !.passkeys = pk]
  PROVE  new \in Account /\ new.primary = c
<1>1. new = [primary |-> c, unix |-> a.unix, passkeys |-> pk, anonymous |-> a.anonymous,
             valid |-> a.valid, changes |-> a.changes, updaters |-> a.updaters]
  BY Zenon DEF Account
<1>2. QED
  BY <1>1 DEF Account

\* A credential of the type of c with these codes.
LikeWithCodes(c, codes, new) ==
  new \in Credential /\ new.type = c.type /\ CodesOf(new) = codes

(* A credential with other codes and another uuid. *)
LEMMA Recoded ==
  ASSUME NEW c \in Credential, NEW codes \in SUBSET Codes, NEW u \in Uuids
  PROVE  LikeWithCodes(c, codes, [c EXCEPT !.codes = codes, !.uuid = u])
<1>1. PICK new : new = [c EXCEPT !.codes = codes, !.uuid = u]
  BY Zenon
<1>2. new = [type |-> c.type, factors |-> c.factors, codes |-> codes, pw |-> c.pw, old |-> c.old,
             uuid |-> u]
  BY <1>1, Zenon DEF Credential
<1>3. new \in Credential /\ new.type = c.type /\ new.codes = codes
  BY <1>2 DEF Credential
<1>4. LikeWithCodes(c, codes, new)
  BY <1>3, CredentialIsThere, Zenon DEF LikeWithCodes, CodesOf
<1>5. QED
  BY <1>1, <1>4, Zenon

(* The codes that a credential made in an update may have. *)
LEMMA CodesMade ==
  ASSUME NEW c, NEW kept \in SUBSET Codes, NEW codes \in CodeSets(c, kept)
  PROVE  /\ codes \in SUBSET Codes /\ (c.type # "mfa" => codes = {})
         /\ codes \cap spent \subseteq kept
<1>1. CASE c.type = "mfa"
  BY <1>1 DEF CodeSets
<1>2. CASE c.type # "mfa"
  BY <1>2 DEF CodeSets
<1>3. QED
  BY <1>1, <1>2

(* An update session is opened. *)
LEMMA InitUpdateAccount ==
  ASSUME IInv, NEW d \in Updates, InitUpdate(d)
  PROVE  AccountStep
<1>0. AInv /\ account \in Account /\ CopiesOK
  BY DEF IInv, AInv
<1>1. /\ updates' = [updates EXCEPT ![d] = account.primary]
      /\ account' = [account EXCEPT !.updaters = account.updaters \ {d}]
      /\ uuids' = uuids /\ delayed' = delayed /\ spent' = spent
  BY <1>0, Zenon DEF InitUpdate, Account
<1>2. account' \in Account /\ account'.primary = account.primary
  <2>1. PICK us : us = account.updaters \ {d}
    BY Zenon
  <2>2. account' = [primary |-> account.primary, unix |-> account.unix, passkeys |-> account.passkeys,
                    anonymous |-> account.anonymous, valid |-> account.valid,
                    changes |-> account.changes, updaters |-> us]
    BY <1>0, <1>1, <2>1, Zenon DEF Account
  <2>3. us \subseteq Updates
    BY <1>0, <2>1 DEF Account
  <2>4. QED
    BY <1>0, <2>2, <2>3 DEF Account
<1>3. account.primary \in Credential \cup {NoCred} /\ Coded(account.primary)
  BY <1>0 DEF AInv, Account
<1>4. CopiesOK'
  <2>1. updates' \in [Updates -> Credential \cup {NoCred, NoUpdate}]
    BY <1>0, <1>1, <1>3 DEF CopiesOK
  <2>2. \A e \in Updates : updates'[e] = IF e = d THEN account.primary ELSE updates[e]
    BY <1>0, <1>1 DEF CopiesOK
  <2>3. \A e \in Updates : updates'[e] # NoUpdate => Coded(updates'[e])
    BY <1>0, <1>3, <2>2, Zenon DEF CopiesOK
  <2>4. QED
    BY <2>1, <2>3, Zenon DEF CopiesOK, Coded, CodesOf
<1>5. SpentCodesAreRemoved'
  BY <1>0, <1>1, <1>2, Zenon DEF AInv, SpentCodesAreRemoved, RemovalQueued, CodesOf
<1>6. AInv'
  BY <1>0, <1>1, <1>2, <1>4, <1>5, Zenon DEF AInv, Coded, CodesOf
<1>7. Returning
  BY <1>2, Zenon DEF Returning
<1>8. QED
  BY <1>0, <1>1, <1>6, <1>7, NothingProcessed, Zenon

(* An update session commits a credential. *)
LEMMA AssertedAccount ==
  ASSUME AInv, NEW d \in Updates, NEW new \in Credential \cup {NoCred}, Coded(new),
         Asserted(d, new), uuids' \in Uuids, delayed' = delayed,
         updates[d] # NoUpdate, CodesOf(new) \cap spent \subseteq
                                  CodesOf(updates[d]) \cup CodesOf(account.primary)
  PROVE  AccountStep
<1>0. account \in Account /\ CopiesOK
  BY DEF AInv
<1>1. PICK pk \in BOOLEAN : account' = [account EXCEPT !.primary = new, !.passkeys = pk]
  BY Zenon DEF Asserted
<1>2. account' \in Account /\ account'.primary = new
  BY <1>0, <1>1, NewPrimary, Zenon
<1>3. CopiesOK'
  <2>0. updates' = [updates EXCEPT ![d] = NoUpdate]
    BY Zenon DEF Asserted
  <2>1. updates' \in [Updates -> Credential \cup {NoCred, NoUpdate}]
    BY <1>0, <2>0 DEF CopiesOK
  <2>2. \A e \in Updates : updates'[e] = IF e = d THEN NoUpdate ELSE updates[e]
    BY <1>0, <2>0 DEF CopiesOK
  <2>3. \A e \in Updates : updates'[e] # NoUpdate => Coded(updates'[e])
    BY <1>0, <2>2, Zenon DEF CopiesOK
  <2>4. QED
    BY <2>1, <2>3, Zenon DEF CopiesOK, Coded, CodesOf
<1>4. spent' = spent \ (CodesOf(new) \ CodesOf(account.primary))
  BY Zenon DEF Asserted
<1>5. spent' \subseteq Codes
  BY <1>4 DEF AInv
<1>6. SpentCodesAreRemoved'
  <2>1. SUFFICES ASSUME NEW x \in spent', x \in CodesOf(account'.primary)
                 PROVE  \E i \in DOMAIN delayed' : delayed'[i] = [op |-> "coderemoval", code |-> x]
    BY Zenon DEF SpentCodesAreRemoved, RemovalQueued, CodesOf
  <2>2. x \in spent /\ x \in CodesOf(account.primary)
    BY <1>2, <1>4, <2>1, Zenon
  <2>3. QED
    BY <2>2, Zenon DEF AInv, SpentCodesAreRemoved, RemovalQueued
<1>7. AInv'
  BY <1>2, <1>3, <1>5, <1>6, Zenon DEF AInv, Coded, CodesOf
<1>8. Returning
  BY <1>2, Zenon DEF Returning
<1>9. QED
  BY <1>7, <1>8, NothingProcessed, Zenon

(* An update session commits its copy, an edit of it or another credential. *)
LEMMA CommitUpdateAccount ==
  ASSUME IInv, NEW d \in Updates, CommitUpdate(d)
  PROVE  AccountStep
<1>0. AInv /\ account \in Account /\ uuids \in Uuids /\ CopiesOK
  BY DEF IInv, AInv
<1>1. delayed' = delayed
  BY DEF CommitUpdate
<1>2. PICK copy : copy = updates[d]
  BY Zenon
<1>3. copy \in Credential \cup {NoCred} /\ Coded(copy) /\ copy # NoUpdate
  <2>1. copy # NoUpdate
    BY <1>2 DEF CommitUpdate
  <2>2. QED
    BY <1>0, <1>2, <2>1 DEF CopiesOK
<1>4. CodesOf(copy) \in SUBSET Codes
  BY <1>3 DEF CodesOf, Credential
<1>5. NoCred \in Credential \cup {NoCred} /\ Coded(NoCred)
  BY DEF Coded, CodesOf
<1>6. \A c \in account.changes : c \in Credential
  BY <1>0 DEF Account
<1>7. ASSUME NEW new \in {copy, NoCred}, Asserted(d, new), uuids' = uuids
      PROVE  AccountStep
  <2>1. new \in Credential \cup {NoCred} /\ Coded(new)
    BY <1>3, <1>5, <1>7, Zenon
  <2>2. CodesOf(new) \cap spent \subseteq CodesOf(copy) \cup CodesOf(account.primary)
    BY <1>7, Zenon DEF CodesOf
  <2>3. QED
    BY <1>0, <1>1, <1>2, <1>3, <1>7, <2>1, <2>2, AssertedAccount, Zenon
<1>8. ASSUME NEW c \in account.changes, NEW kept \in SUBSET CodesOf(copy), NEW codes \in CodeSets(c, kept),
             NEW u \in Uuids, Asserted(d, [c EXCEPT !.codes = codes, !.uuid = u]), uuids' \in Uuids
      PROVE  AccountStep
  <2>1. PICK new : new = [c EXCEPT !.codes = codes, !.uuid = u]
    BY Zenon
  <2>2. /\ c \in Credential /\ codes \in SUBSET Codes /\ (c.type # "mfa" => codes = {})
        /\ codes \cap spent \subseteq kept
    <3>1. kept \in SUBSET Codes
      BY <1>4, <1>8
    <3>2. QED
      BY <1>6, <1>8, <3>1, CodesMade, Zenon
  <2>3. new \in Credential /\ new.type = c.type /\ CodesOf(new) = codes
    <3>1. c \in Credential /\ codes \in SUBSET Codes /\ u \in Uuids
      BY <1>8, <2>2, Zenon
    <3>2. LikeWithCodes(c, codes, [c EXCEPT !.codes = codes, !.uuid = u])
      BY <3>1, Recoded, Zenon
    <3>3. QED
      BY <2>1, <3>2, Zenon DEF LikeWithCodes
  <2>4. new \in Credential \cup {NoCred} /\ Coded(new)
    BY <2>2, <2>3, Zenon DEF Coded
  <2>5. Asserted(d, new)
    BY <1>8, <2>1, Zenon
  <2>6. CodesOf(new) \cap spent \subseteq CodesOf(copy) \cup CodesOf(account.primary)
    <3>1. codes \cap spent \subseteq CodesOf(copy) \cup CodesOf(account.primary)
      BY <1>8, <2>2
    <3>2. QED
      BY <2>3, <3>1, Zenon
  <2>7. QED
    BY <1>0, <1>1, <1>2, <1>3, <1>8, <2>4, <2>5, <2>6, AssertedAccount, Zenon
<1>9. ASSUME NEW c \in account.changes, NEW codes \in CodeSets(c, CodesOf(copy)), EditOf(copy, c),
             uuids' = uuids, Asserted(d, [c EXCEPT !.codes = codes, !.uuid = copy.uuid])
      PROVE  AccountStep
  <2>1. copy.uuid \in Uuids
    BY <1>3, <1>9 DEF EditOf, Credential
  <2>2. CodesOf(copy) \in SUBSET CodesOf(copy)
    OBVIOUS
  <2>3. QED
    BY <1>0, <1>8, <1>9, <2>1, <2>2, Zenon
<1>10. ASSUME NEW c \in account.changes, NEW codes \in CodeSets(c, {}), uuids < MaxUuid,
              uuids' = uuids + 1, Asserted(d, [c EXCEPT !.codes = codes, !.uuid = uuids + 1])
       PROVE  AccountStep
  <2>1. uuids + 1 \in Uuids
    BY <1>0, <1>10, AuthAssumption DEF Uuids
  <2>2. {} \in SUBSET CodesOf(copy)
    OBVIOUS
  <2>3. QED
    BY <1>8, <1>10, <2>1, <2>2, Zenon
<1>11. QED
  BY <1>2, <1>7, <1>9, <1>10, Zenon DEF CommitUpdate

(* A password is generated for the account. *)
LEMMA GeneratePasswordAccount ==
  ASSUME IInv, GeneratePassword
  PROVE  AccountStep
<1>0. AInv /\ account \in Account /\ uuids \in Uuids
  BY DEF IInv, AInv
<1>1. PICK c \in account.changes :
        /\ c.type = "generated" /\ uuids < MaxUuid /\ uuids' = uuids + 1
        /\ account' = [account EXCEPT !.primary = [c EXCEPT !.codes = {}, !.uuid = uuids + 1]]
        /\ updates' = updates /\ delayed' = delayed /\ spent' = spent
  BY Zenon DEF GeneratePassword
<1>2. uuids + 1 \in Uuids
  BY <1>0, <1>1, AuthAssumption DEF Uuids
<1>3. PICK new : new = [c EXCEPT !.codes = {}, !.uuid = uuids + 1]
  BY Zenon
<1>4. new \in Credential /\ CodesOf(new) = {}
  <2>1. c \in Credential /\ {} \in SUBSET Codes
    BY <1>0 DEF Account
  <2>2. QED
    BY <1>2, <1>3, <2>1, Recoded, Zenon DEF LikeWithCodes
<1>5. account' \in Account /\ account'.primary = new
  <2>1. account' = [primary |-> new, unix |-> account.unix, passkeys |-> account.passkeys,
                    anonymous |-> account.anonymous, valid |-> account.valid,
                    changes |-> account.changes, updaters |-> account.updaters]
    BY <1>0, <1>1, <1>3, Zenon DEF Account
  <2>2. WithPrimary(account, new, account')
    BY <1>0, <1>4, <2>1, OtherPrimary, Zenon
  <2>3. QED
    BY <2>2, Zenon DEF WithPrimary
<1>6. CodesOf(account'.primary) = {}
  BY <1>4, <1>5, Zenon
<1>7. SpentCodesAreRemoved'
  BY <1>6 DEF SpentCodesAreRemoved, CodesOf
<1>8. CopiesOK'
  BY <1>0, <1>1, CopiesStay, Zenon
<1>9. AInv'
  BY <1>0, <1>1, <1>2, <1>5, <1>6, <1>7, <1>8, Zenon DEF AInv, Coded, CodesOf
<1>10. Returning
  BY <1>6, Zenon DEF Returning
<1>11. QED
  BY <1>0, <1>1, <1>9, <1>10, NothingProcessed, Zenon

(* What a delayed action makes of the account. *)
LEMMA ActionRewrites ==
  ASSUME AInv, ProcessDelayedAction, NEW d, d = Head(delayed)
  PROVE  Rewritten(account, d, account') /\ uuids' \in Uuids
<1>0. account \in Account /\ uuids \in Uuids /\ delayed \in Seq(DelayedAction) /\ delayed # <<>>
  BY DEF AInv, ProcessDelayedAction
<1>1. d \in DelayedAction
  BY <1>0
<1>2. d.op \in {"pwupgrade", "unixpwupgrade", "coderemoval"}
  BY <1>1 DEF DelayedAction
<1>3. uuids < MaxUuid => uuids + 1 \in Uuids
  BY <1>0, AuthAssumption DEF Uuids
<1>4. CASE d.op = "pwupgrade"
  <2>1. d.op # "coderemoval" /\ d.op # "unixpwupgrade"
    BY <1>4
  <2>2. account' = PwUpgrade(account, d) /\ uuids' = uuids
    BY <1>4, <2>1, Zenon DEF ProcessDelayedAction
  <2>3. QED
    BY <1>0, <2>1, <2>2, PwUpgradeOK, Zenon
<1>5. CASE d.op = "unixpwupgrade"
  <2>1. d.op # "coderemoval" /\ d.op # "pwupgrade"
    BY <1>5
  <2>2. account' = UnixPwUpgrade(account, d, uuids + 1) /\ uuids < MaxUuid
    BY <1>5, <2>1, Zenon DEF ProcessDelayedAction
  <2>3. uuids' = uuids \/ uuids' = uuids + 1
    BY Zenon DEF ProcessDelayedAction
  <2>4. QED
    BY <1>0, <1>3, <2>1, <2>2, <2>3, UnixPwUpgradeOK, Zenon
<1>6. CASE d.op = "coderemoval"
  <2>1. d.op # "pwupgrade" /\ d.op # "unixpwupgrade"
    BY <1>6
  <2>2. account' = CodeRemoval(account, d) /\ uuids' = uuids
    BY <1>6, <2>1, Zenon DEF ProcessDelayedAction
  <2>3. QED
    BY <1>0, <2>2, CodeRemovalOK, Zenon
<1>7. QED
  BY <1>2, <1>4, <1>5, <1>6

\* What is left of a queue after its first action.
Left(q, d, rest) ==
  /\ rest \in Seq(DelayedAction)
  /\ \A x \in DelayedAction : (\E i \in DOMAIN q : q[i] = x) => x = d \/ \E i \in DOMAIN rest : rest[i] = x

(* The first action leaves the queue. *)
LEMMA QueueShrinks ==
  ASSUME NEW q \in Seq(DelayedAction), q # <<>>
  PROVE  Left(q, Head(q), Tail(q))
<1>1. Tail(q) \in Seq(DelayedAction)
  OBVIOUS
<1>2. ASSUME NEW i \in DOMAIN q, i # 1
      PROVE  i - 1 \in DOMAIN Tail(q) /\ Tail(q)[i - 1] = q[i]
  BY <1>2
<1>3. Head(q) = q[1]
  OBVIOUS
<1>4. QED
  BY <1>1, <1>2, <1>3, Zenon DEF Left

(* A delayed action is processed. *)
LEMMA ProcessAccount ==
  ASSUME IInv, ProcessDelayedAction
  PROVE  AccountStep
<1>0. AInv /\ account \in Account /\ delayed \in Seq(DelayedAction) /\ delayed # <<>>
  BY DEF IInv, AInv, ProcessDelayedAction
<1>1. PICK d : d = Head(delayed)
  BY Zenon
<1>2. updates' = updates /\ spent' = spent /\ delayed' = Tail(delayed)
  BY DEF ProcessDelayedAction
<1>3. Rewritten(account, d, account') /\ uuids' \in Uuids
  BY <1>0, <1>1, ActionRewrites
<1>4. Left(delayed, d, delayed')
  BY <1>0, <1>1, <1>2, QueueShrinks, Zenon
<1>5. NoCred.type # "mfa" /\ CodesOf(NoCred) = {}
  BY DEF NoCred, CodesOf
<1>6. CopiesOK'
  BY <1>0, <1>2, CopiesStay, Zenon
<1>7. CodesOf(account'.primary) \subseteq CodesOf(account.primary)
  BY <1>3, <1>5, Zenon DEF Rewritten, CodesOf
<1>8. account'.primary.type # "mfa" => CodesOf(account'.primary) = {}
  <2>1. CASE account.primary = NoCred
    BY <1>3, <1>5, <2>1, Zenon DEF Rewritten
  <2>2. CASE account.primary # NoCred
    <3>1. account'.primary.type = "mfa" <=> account.primary.type = "mfa"
      BY <1>3, <2>2, Zenon DEF Rewritten
    <3>2. account.primary.type # "mfa" => CodesOf(account.primary) = {}
      BY <1>0, Zenon DEF AInv, Coded
    <3>3. QED
      BY <1>7, <3>1, <3>2
  <2>3. QED
    BY <2>1, <2>2
<1>9. SpentCodesAreRemoved'
  <2>1. SUFFICES ASSUME NEW x \in spent, x \in CodesOf(account'.primary)
                 PROVE  \E i \in DOMAIN delayed' : delayed'[i] = [op |-> "coderemoval", code |-> x]
    BY <1>2, Zenon DEF SpentCodesAreRemoved, RemovalQueued, CodesOf
  <2>2. x \in CodesOf(account.primary)
    BY <1>7, <2>1, Zenon
  <2>3. account.primary # NoCred /\ account.primary.type = "mfa"
    BY <1>0, <1>5, <2>2, Zenon DEF AInv, Coded
  <2>4. PICK r : r = [op |-> "coderemoval", code |-> x]
    BY Zenon
  <2>5. \E i \in DOMAIN delayed : delayed[i] = r
    BY <1>0, <2>1, <2>2, <2>4, Zenon DEF AInv, SpentCodesAreRemoved, RemovalQueued
  <2>6. r \in DelayedAction
    BY <1>0, <2>1, <2>4 DEF AInv, DelayedAction
  <2>7. r # d
    <3>1. r.op = "coderemoval" /\ r.code = x
      BY <2>4
    <3>2. account'.primary # NoCred /\ x \in account'.primary.codes
      BY <1>5, <2>1, Zenon DEF CodesOf
    <3>3. QED
      BY <1>3, <2>3, <3>1, <3>2, Zenon DEF Rewritten
  <2>8. QED
    BY <1>4, <2>4, <2>5, <2>6, <2>7, Zenon DEF Left
<1>10. AInv'
  BY <1>0, <1>2, <1>3, <1>4, <1>6, <1>8, <1>9, Zenon DEF AInv, Rewritten, Left, Coded, CodesOf
<1>11. Upgrading
  BY <1>3, Zenon DEF Upgrading, Rewritten
<1>12. Returning
  BY <1>7, Zenon DEF Returning
<1>13. QED
  BY <1>10, <1>11, <1>12 DEF AccountStep

(* A delayed action fails and is forgotten. *)
LEMMA DelayedFailsAccount ==
  ASSUME IInv, DelayedFails
  PROVE  AccountStep
<1>0. AInv /\ delayed \in Seq(DelayedAction) /\ delayed # <<>>
  BY DEF IInv, AInv, DelayedFails
<1>1. PICK d : d = Head(delayed)
  BY Zenon
<1>2. /\ account' = account /\ uuids' = uuids /\ updates' = updates /\ delayed' = Tail(delayed)
      /\ spent' = {c \in spent : d # [op |-> "coderemoval", code |-> c]}
  BY <1>1 DEF DelayedFails
<1>3. Left(delayed, d, delayed')
  BY <1>0, <1>1, <1>2, QueueShrinks, Zenon
<1>4. CopiesOK'
  BY <1>0, <1>2, CopiesStay, Zenon
<1>5. spent' \subseteq Codes
  BY <1>0, <1>2 DEF AInv
<1>6. SpentCodesAreRemoved'
  <2>1. SUFFICES ASSUME NEW x \in spent', x \in CodesOf(account.primary)
                 PROVE  \E i \in DOMAIN delayed' : delayed'[i] = [op |-> "coderemoval", code |-> x]
    BY <1>2, Zenon DEF SpentCodesAreRemoved, RemovalQueued, CodesOf
  <2>2. PICK r : r = [op |-> "coderemoval", code |-> x]
    BY Zenon
  <2>3. x \in spent /\ r # d
    BY <1>2, <2>1, <2>2, Zenon
  <2>4. \E i \in DOMAIN delayed : delayed[i] = r
    BY <1>0, <2>1, <2>2, <2>3, Zenon DEF AInv, SpentCodesAreRemoved, RemovalQueued
  <2>5. r \in DelayedAction
    BY <1>5, <2>1, <2>2 DEF DelayedAction
  <2>6. QED
    BY <1>3, <2>2, <2>3, <2>4, <2>5, Zenon DEF Left
<1>7. AInv'
  BY <1>0, <1>2, <1>3, <1>4, <1>5, <1>6, Zenon DEF AInv, Left
<1>8. Upgrading
  BY <1>2, Zenon DEF Upgrading
<1>9. Returning
  BY <1>2, Zenon DEF Returning
<1>10. QED
  BY <1>7, <1>8, <1>9 DEF AccountStep

(* The server stops. *)
LEMMA RestartAccount ==
  ASSUME IInv, Restart
  PROVE  AccountStep
<1>0. AInv
  BY DEF IInv
<1>1. /\ account' = account /\ uuids' = uuids /\ delayed' = <<>>
      /\ updates' = [d \in Updates |-> NoUpdate]
      /\ spent' = {c \in spent : ~RemovalQueued(c)}
  BY DEF Restart
<1>2. CopiesOK'
  BY <1>1 DEF CopiesOK
<1>3. SpentCodes'
  <2>1. spent' \subseteq Codes
    BY <1>0, <1>1 DEF AInv
  <2>2. \A c \in spent' : c \notin CodesOf(account.primary)
    BY <1>0, <1>1, Zenon DEF AInv, SpentCodesAreRemoved
  <2>3. SpentCodesAreRemoved'
    BY <1>1, <2>2, Zenon DEF SpentCodesAreRemoved, CodesOf
  <2>4. QED
    BY <2>1, <2>3, Zenon DEF SpentCodes
<1>4. delayed' \in Seq(DelayedAction)
  BY <1>1
<1>5. QED
  BY <1>0, <1>1, <1>2, <1>3, <1>4, AccountKept, Zenon

-----------------------------------------------------------------------------
(***************************************************************************)
(* The invariant, and what follows from it.                                *)
(***************************************************************************)

(* The largest uuid in use at first is one. *)
LEMMA FirstUuid ==
  ASSUME NEW a \in Account
  PROVE  Max({0} \cup {c.uuid : c \in {a.primary, a.unix} \ {NoCred}}) \in Uuids
<1>1. PICK x, y : /\ x = IF a.primary = NoCred THEN 0 ELSE a.primary.uuid
                  /\ y = IF a.unix = NoCred THEN 0 ELSE a.unix.uuid
  BY Zenon
<1>2. /\ a.primary # NoCred => a.primary.uuid \in Uuids
      /\ a.unix # NoCred => a.unix.uuid \in Uuids
  BY DEF Account, Credential
<1>3. 0 \in Uuids
  BY AuthAssumption DEF Uuids
<1>4. x \in Uuids /\ y \in Uuids
  BY <1>1, <1>2, <1>3, Zenon
<1>5. PICK S : S = {0} \cup {c.uuid : c \in {a.primary, a.unix} \ {NoCred}}
  BY Zenon
<1>6. S = {0, x, y}
  <2>1. \A k \in S : k \in {0, x, y}
    BY <1>1, <1>5, Zenon
  <2>2. 0 \in S /\ x \in S /\ y \in S
    BY <1>1, <1>5, Zenon
  <2>3. QED
    BY <2>1, <2>2
<1>7. \E m \in S : \A k \in S : m >= k
  BY <1>4, <1>6, AuthAssumption DEF Uuids
<1>8. Max(S) \in S
  BY <1>7, Zenon DEF Max
<1>9. QED
  BY <1>3, <1>4, <1>5, <1>6, <1>8, Zenon

(* The server starts with no session, lock, check or action. *)
LEMMA InitOK ==
  ASSUME Init
  PROVE  IInv
<1>1. /\ now = 0 /\ account \in Accounts /\ delayed = <<>> /\ spent = {}
      /\ sessions = [s \in SessionIds |-> NoSession]
      /\ softlocks = [u \in Uuids |-> 0] /\ locks = [l \in LockIds |-> Free]
      /\ tasks = [t \in Tasks |-> Idle] /\ updates = [d \in Updates |-> NoUpdate]
  BY DEF Init
<1>2. 0 \notin LockIds
  BY DEF LockIds
<1>3. LInv
  BY <1>1, <1>2 DEF LInv
<1>4. \A s \in SessionIds : sessions[s] = NoSession
  BY <1>1, Zenon
<1>5. SInv
  BY <1>4, Zenon DEF SInv
<1>6. account \in Account
  BY <1>1, AccountsAssumption, Zenon
<1>7. uuids \in Uuids
  BY <1>6, FirstUuid, Zenon DEF Init
<1>8. delayed \in Seq(DelayedAction) /\ spent \subseteq Codes /\ SpentCodesAreRemoved
  BY <1>1 DEF SpentCodesAreRemoved
<1>9. Coded(account.primary)
  BY <1>1, AccountsAssumption, Zenon DEF Coded
<1>10. CopiesOK
  BY <1>1 DEF CopiesOK
<1>11. AInv
  BY <1>6, <1>7, <1>8, <1>9, <1>10, Zenon DEF AInv
<1>12. QED
  BY <1>3, <1>5, <1>11 DEF IInv

\* What a step keeps, and what it does.
Stepping == IInv' /\ Spacing /\ Final /\ Upgrading /\ Returning

(* The three parts of a step. *)
LEMMA Parts ==
  ASSUME LInv', Spacing, SessionStep, AccountStep
  PROVE  Stepping
BY Zenon DEF Stepping, SessionStep, AccountStep, IInv

(* Requests: the exchange of a session. *)
LEMMA SessionSteps ==
  ASSUME IInv, NEW s \in SessionIds, AuthInit(s) \/ Cred(s) \/ \E m \in Mechs : Begin(s, m)
  PROVE  Stepping
<1>0. AInv
  BY DEF IInv
<1>1. CASE AuthInit(s)
  <2>1. account' = account /\ uuids' = uuids /\ updates' = updates /\ delayed' = delayed /\ spent' = spent
    BY <1>1 DEF AuthInit
  <2>2. LInv' /\ Spacing
    BY <1>1, AuthInitLocks
  <2>3. SessionStep
    BY <1>1, AuthInitSessions, Zenon
  <2>4. AccountStep
    BY <1>0, <2>1, <2>3, AccountStays, Zenon
  <2>5. QED
    BY <2>2, <2>3, <2>4, Parts
<1>2. CASE Cred(s)
  <2>1. LInv' /\ Spacing
    BY <1>2, CredLocks
  <2>2. SessionStep
    BY <1>2, CredSessions, Zenon
  <2>3. AccountStep
    BY <1>2, <2>2, CredAccount, Zenon
  <2>4. QED
    BY <2>1, <2>2, <2>3, Parts
<1>3. ASSUME NEW m \in Mechs, Begin(s, m)
      PROVE  Stepping
  <2>1. account' = account /\ uuids' = uuids /\ updates' = updates /\ delayed' = delayed /\ spent' = spent
    BY <1>3 DEF Begin
  <2>2. LInv' /\ Spacing
    BY <1>3, BeginLocks
  <2>3. SessionStep
    BY <1>3, BeginSessions, Zenon
  <2>4. AccountStep
    BY <1>0, <2>1, <2>3, AccountStays, Zenon
  <2>5. QED
    BY <2>2, <2>3, <2>4, Parts
<1>4. QED
  BY <1>1, <1>2, <1>3

(* Sessions that stay. *)
LEMMA SameSessions ==
  ASSUME IInv, sessions' = sessions
  PROVE  SessionStep
BY SessionsDropped, Zenon DEF IInv

(* The unix and ldap checks. *)
LEMMA TaskSteps ==
  ASSUME IInv, NEW t \in Tasks, UnixBegin(t) \/ UnixInsert(t) \/ UnixVerify(t)
  PROVE  Stepping
<1>0. AInv
  BY DEF IInv
<1>1. sessions' = sessions
  BY DEF UnixBegin, UnixInsert, UnixVerify
<1>2. SessionStep
  BY <1>1, SameSessions, Zenon
<1>3. LInv' /\ Spacing
  BY UnixBeginLocks, UnixInsertLocks, UnixVerifyLocks
<1>4. AccountStep
  <2>1. CASE UnixBegin(t) \/ UnixInsert(t)
    <3>1. account' = account /\ uuids' = uuids /\ updates' = updates /\ delayed' = delayed /\ spent' = spent
      BY <2>1 DEF UnixBegin, UnixInsert
    <3>2. QED
      BY <1>0, <1>2, <3>1, AccountStays, Zenon
  <2>2. CASE UnixVerify(t)
    BY <1>2, <2>2, UnixVerifyAccount, Zenon
  <2>3. QED
    BY <2>1, <2>2
<1>5. QED
  BY <1>2, <1>3, <1>4, Parts

(* The expiry, the write side, the clock and a restart. *)
LEMMA ServerSteps ==
  ASSUME IInv,
         ExpireAuthSessions \/ GeneratePassword \/ ProcessDelayedAction \/ DelayedFails \/ Restart \/ Tick
  PROVE  Stepping
<1>0. LInv /\ SInv /\ AInv
  BY DEF IInv
<1>1. CASE ExpireAuthSessions
  <2>1. PICK ct \in Times : sessions' = Unexpired(ct)
    BY <1>1, Zenon DEF ExpireAuthSessions
  <2>2. /\ UNCHANGED <<now, softlocks, locks, tasks>>
        /\ account' = account /\ uuids' = uuids /\ updates' = updates /\ delayed' = delayed /\ spent' = spent
    BY <1>1 DEF ExpireAuthSessions
  <2>3. LInv' /\ Spacing
    BY <1>0, <2>2, SameLocks
  <2>4. SessionStep
    BY <1>0, <2>1, KeptSessions, SessionsDropped, Zenon
  <2>5. AccountStep
    BY <1>0, <2>2, <2>4, AccountStays, Zenon
  <2>6. QED
    BY <2>3, <2>4, <2>5, Parts
<1>2. CASE GeneratePassword \/ ProcessDelayedAction \/ DelayedFails
  <2>1. UNCHANGED <<now, softlocks, locks, tasks>> /\ sessions' = sessions
    BY <1>2 DEF GeneratePassword, ProcessDelayedAction, DelayedFails
  <2>2. LInv' /\ Spacing
    BY <1>0, <2>1, SameLocks
  <2>3. SessionStep
    BY <2>1, SameSessions, Zenon
  <2>4. AccountStep
    BY <1>2, GeneratePasswordAccount, ProcessAccount, DelayedFailsAccount
  <2>5. QED
    BY <2>2, <2>3, <2>4, Parts
<1>3. CASE Restart
  <2>1. \A s \in SessionIds : sessions'[s] = NoSession
    BY <1>3 DEF Restart
  <2>2. LInv' /\ Spacing
    BY <1>3, RestartLocks
  <2>3. SessionStep
    BY <1>0, <2>1, SessionsDropped, Zenon
  <2>4. AccountStep
    BY <1>3, RestartAccount
  <2>5. QED
    BY <2>2, <2>3, <2>4, Parts
<1>4. CASE Tick
  <2>1. /\ sessions' = sessions
        /\ account' = account /\ uuids' = uuids /\ updates' = updates /\ delayed' = delayed /\ spent' = spent
    BY <1>4 DEF Tick
  <2>2. LInv' /\ Spacing
    BY <1>4, TickLocks
  <2>3. SessionStep
    BY <2>1, SameSessions, Zenon
  <2>4. AccountStep
    BY <1>0, <2>1, <2>3, AccountStays, Zenon
  <2>5. QED
    BY <2>2, <2>3, <2>4, Parts
<1>5. QED
  BY <1>1, <1>2, <1>3, <1>4

(* The update sessions. *)
LEMMA UpdateSteps ==
  ASSUME IInv, NEW d \in Updates, InitUpdate(d) \/ CommitUpdate(d)
  PROVE  Stepping
<1>0. LInv
  BY DEF IInv
<1>1. UNCHANGED <<now, softlocks, locks, tasks>> /\ sessions' = sessions
  BY DEF InitUpdate, CommitUpdate
<1>2. LInv' /\ Spacing
  BY <1>0, <1>1, SameLocks
<1>3. SessionStep
  BY <1>1, SameSessions, Zenon
<1>4. AccountStep
  BY InitUpdateAccount, CommitUpdateAccount
<1>5. QED
  BY <1>2, <1>3, <1>4, Parts

(* Every step keeps the invariant, spaces failures, leaves the verdicts and *)
(* keeps the passwords.                                                     *)
LEMMA Steps ==
  ASSUME IInv, [Next]_vars
  PROVE  Stepping
<1>1. CASE Next
  BY <1>1, SessionSteps, TaskSteps, ServerSteps, UpdateSteps, Zenon DEF Next
<1>2. CASE UNCHANGED vars
  <2>1. /\ UNCHANGED <<now, softlocks, locks, tasks>> /\ sessions' = sessions
        /\ account' = account /\ uuids' = uuids /\ updates' = updates /\ delayed' = delayed /\ spent' = spent
    BY <1>2 DEF vars
  <2>2. LInv /\ AInv
    BY DEF IInv
  <2>3. LInv' /\ Spacing
    BY <2>1, <2>2, SameLocks
  <2>4. SessionStep
    BY <2>1, SameSessions, Zenon
  <2>5. AccountStep
    BY <2>1, <2>2, <2>4, AccountStays, Zenon
  <2>6. QED
    BY <2>3, <2>4, <2>5, Parts
<1>3. QED
  BY <1>1, <1>2

(* The invariant of the locks, the sessions, the account and the copies of  *)
(* it holds of every behaviour of the authentication handlers, the unix and *)
(* ldap checks, the update sessions, the delayed actions and restarts.      *)
THEOREM Invariance == Spec => []IInv
<1>1. Init => IInv
  BY InitOK
<1>2. IInv /\ [Next]_vars => IInv'
  BY Steps DEF Stepping
<1>3. QED
  BY <1>1, <1>2, PTL DEF Spec

(* Two failures recorded on one lock are apart by the delay of the first or *)
(* the end of its window, whatever order requests get the lock in and       *)
(* however old their times (is_valid, apply_time_step, record_failure).     *)
THEOREM SpacedFailures == Spec => FailuresAreSpaced
<1>1. IInv /\ [Next]_vars =>
        [\A l \in LockIds :
           locks[l] # Free /\ locks'[l] # Free /\ locks'[l].fails > locks[l].fails =>
             locks[l].barrier = -1]_vars
  BY Steps DEF Stepping, Spacing
<1>2. QED
  BY <1>1, Invariance, PTL DEF Spec, FailuresAreSpaced

(* A lock records in one window no more failures than its policy allows,    *)
(* once more for each failure of a request whose time is of the window      *)
(* before (failure_next_state, record_failure).                             *)
THEOREM BoundedFailures == Spec => []FailuresAreBounded
<1>1. IInv => FailuresAreBounded
  <2>1. SUFFICES ASSUME IInv, NEW l \in LockIds, Holding(l)
                 PROVE  locks[l].fails <= Limit(locks[l].policy) * (1 + locks[l].late)
    BY Zenon DEF FailuresAreBounded
  <2>2. PICK k : k = locks[l]
    BY Zenon
  <2>3. LockOK(k, now) /\ k.policy \in {"password", "totp"}
    BY <2>1, <2>2, Zenon DEF IInv, LInv, Holding
  <2>4. k.fails \in Nat /\ k.late \in Nat /\ k.count \in Nat
    BY <2>3 DEF LockOK, Lock
  <2>5. /\ k.count <= Limit(k.policy)
        /\ k.fails <= Limit(k.policy) * k.late + (IF Counting(k, now) THEN k.count ELSE 0)
    BY <2>3, Zenon DEF LockOK, Bounded
  <2>6. Limit(k.policy) \in Nat
    <3>1. Delays[Len(Delays)] \in (Nat \ {0}) \X Nat
      BY SoftLockAssumption
    <3>2. QED
      BY <3>1, SoftLockAssumption DEF Limit
  <2>7. PICK n \in Nat, m \in Nat : n = Limit(k.policy) /\ m = IF Counting(k, now) THEN k.count ELSE 0
    BY <2>4, <2>6
  <2>8. k.fails <= n * k.late + m /\ m <= n
    BY <2>4, <2>5, <2>7
  <2>9. k.fails <= n * (1 + k.late)
    BY <2>4, <2>8
  <2>10. QED
    BY <2>2, <2>7, <2>9, Zenon
<1>2. QED
  BY <1>1, Invariance, PTL

(* A session succeeds only with the factors of its mechanism presented in   *)
(* order: the second factor before the password (CredHandler::validate).    *)
THEOREM OrderedFactors == Spec => []FactorsInOrder
<1>1. IInv => FactorsInOrder
  <2>1. SUFFICES ASSUME IInv, NEW s \in SessionIds, sessions[s] # NoSession,
                        sessions[s].st = "success"
                 PROVE  Proved(sessions[s])
    BY Zenon DEF FactorsInOrder, Proved
  <2>2. SessionOK(sessions[s])
    BY <2>1, Zenon DEF IInv, SInv
  <2>3. QED
    BY <2>1, <2>2 DEF SessionOK, Open, Ended
<1>2. QED
  BY <1>1, Invariance, PTL

(* A session that ended as denied or successful stays so until it is        *)
(* dropped: no late Begin or Cred step of it and no lock changes that       *)
(* (start_session, validate_creds, end_session).                            *)
THEOREM FinalVerdict == Spec => VerdictIsFinal
<1>1. IInv /\ [Next]_vars =>
        [\A s \in SessionIds :
           sessions[s] # NoSession /\ sessions[s].st \in {"success", "denied"} =>
             \/ sessions'[s] \in {sessions[s], NoSession}
             \/ (sessions[s].started < now - Timeout /\ sessions'[s].st = "init")]_vars
  BY Steps DEF Stepping, Final
<1>2. QED
  BY <1>1, Invariance, PTL DEF Spec, VerdictIsFinal

(* A delayed upgrade leaves the account the password it has, also when the  *)
(* password was changed after it was verified (process_pwupgrade,           *)
(* process_unixpwupgrade).                                                  *)
THEOREM KeptPassword == Spec => UpgradesKeepThePassword
<1>1. IInv /\ [Next]_vars =>
        [delayed # <<>> /\ delayed' = Tail(delayed) =>
           /\ account.primary # NoCred => account'.primary.pw = account.primary.pw
           /\ account.unix # NoCred => account'.unix.pw = account.unix.pw]_vars
  BY Steps DEF Stepping, Upgrading
<1>2. QED
  BY <1>1, Invariance, PTL DEF Spec, UpgradesKeepThePassword

(* A backup code that a session accepted is gone from the account or its    *)
(* removal is queued, whatever other sessions, update sessions and delayed  *)
(* actions do meanwhile, until a restart loses the removal or an update     *)
(* session that had copied the code writes it back (validate_creds,         *)
(* process_backupcoderemoval, commit_credential_update).                    *)
THEOREM RemovedCodes == Spec => []SpentCodesAreRemoved
<1>1. IInv => SpentCodesAreRemoved
  BY Zenon DEF IInv, AInv
<1>2. QED
  BY <1>1, Invariance, PTL

(* A backup code that was accepted and removed comes back to the account    *)
(* only with an update session that holds a copy with that code: no delayed *)
(* action, generated password or new batch brings it back                   *)
(* (commit_credential_update, process_delayedaction).                       *)
THEOREM ReturnedCodes ==
  Spec => [][\A c \in spent :
               c \notin CodesOf(account.primary) /\ c \in CodesOf(account'.primary) =>
                 \E d \in Updates : updates[d] # NoUpdate /\ c \in CodesOf(updates[d])]_vars
<1>1. IInv /\ [Next]_vars =>
        [\A c \in spent :
           c \notin CodesOf(account.primary) /\ c \in CodesOf(account'.primary) =>
             \E d \in Updates : updates[d] # NoUpdate /\ c \in CodesOf(updates[d])]_vars
  BY Steps, Zenon DEF Stepping, Returning
<1>2. QED
  BY <1>1, Invariance, PTL DEF Spec

=============================================================================
