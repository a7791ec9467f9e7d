------------------------------ MODULE SoftLock ------------------------------
(***************************************************************************)
(* The soft lock of one credential (credential/softlock.rs): what a failed *)
(* authentication does to it, and what the passing of time does.  A lock   *)
(* is a record; Auth holds the locks and calls these operators.            *)
(***************************************************************************)
EXTENDS Integers, Sequences, FiniteSetsExt

CONSTANTS
  OneDay,     \* length of the Password policy's window
  TotpStep,   \* length of the Totp policy's window, the step of the totp
  Delays,     \* the Password policy: <<bound, delay>>, bounds ascending
  TotpLimit   \* failures in one totp step before the lock holds to its end

ASSUME SoftLockAssumption ==
  /\ OneDay \in Nat \ {0} /\ TotpStep \in Nat \ {0} /\ TotpLimit \in Nat \ {0}
  /\ Delays \in Seq((Nat \ {0}) \X Nat) /\ Delays # <<>>
  /\ \A i, j \in DOMAIN Delays : i < j => Delays[i][1] < Delays[j][1]

Policies == {"password", "totp", "webauthn", "unrestricted"}

\* LockState.  The history part is not in the code: barrier is the time up to
\* which the last failure stands in the way of another attempt, or -1, fails
\* and late count the failures recorded in the present window of the clock.
NewLock(policy) ==
  [state |-> "init", count |-> 0, reset_at |-> 0, unlock_at |-> 0, policy |-> policy,
   barrier |-> -1, fails |-> 0, late |-> 0]

\* The end of the window of length w that ct is in: a multiple of w after ct.
WindowEnd(ct, w) == (ct + w) - ((ct + w) % w)

Length(policy) == IF policy = "totp" THEN TotpStep ELSE OneDay

Locked(lock, count, reset, unlock) ==
  [lock EXCEPT !.state = "locked", !.count = count, !.reset_at = reset, !.unlock_at = unlock]

Opened(lock) == [lock EXCEPT !.state = "init", !.count = 0, !.reset_at = 0, !.unlock_at = 0]

\* CredSoftLockPolicy::failure_next_state
FailureNextState(lock, count, ct) ==
  LET steps  == {i \in DOMAIN Delays : count < Delays[i][1]}
      reset  == WindowEnd(ct, Length(lock.policy))
  IN CASE lock.policy = "password" ->
            Locked(lock, count, reset,
                   IF steps = {} THEN reset ELSE ct + Delays[Min(steps)][2])
       [] lock.policy = "totp" ->
            Locked(lock, count, reset, IF count >= TotpLimit THEN reset ELSE ct + 1)
       [] lock.policy = "webauthn" -> Locked(lock, count, ct + 1, ct + 1)
       [] lock.policy = "unrestricted" -> Opened(lock)

\* CredSoftLock::apply_time_step; the mutant unlocks an instant too early.
ApplyTimeStepEarly(lock, ct) ==
  CASE lock.state # "init" /\ ct > lock.reset_at -> Opened(lock)
    [] lock.state = "locked" /\ ct <= lock.reset_at /\ ct >= lock.unlock_at ->
         [lock EXCEPT !.state = "unlocked", !.unlock_at = 0]
    [] OTHER -> lock
ApplyTimeStep(lock, ct) ==
  CASE lock.state # "init" /\ ct > lock.reset_at -> Opened(lock)
    [] lock.state = "locked" /\ ct <= lock.reset_at /\ ct > lock.unlock_at ->
         [lock EXCEPT !.state = "unlocked", !.unlock_at = 0]
    [] OTHER -> lock

\* CredSoftLock::is_valid
IsValid(lock) == lock.state # "locked"

\* CredSoftLock::record_failure, by a request whose time is ct, at time now.
\* The mutant does not count.
RecordFailureUncounted(lock, ct, now) ==
  LET next == FailureNextState(lock, 1, ct)
      len  == Length(lock.policy)
      bars == Min({next.reset_at, next.unlock_at})
  IN [next EXCEPT !.barrier = IF next.state = "locked" /\ now <= bars THEN bars ELSE -1,
                  !.fails = @ + 1,
                  !.late = @ + (IF ct \div len = now \div len THEN 0 ELSE 1)]
RecordFailure(lock, ct, now) ==
  LET next == FailureNextState(lock, lock.count + 1, ct)
      len  == Length(lock.policy)
      bars == Min({next.reset_at, next.unlock_at})
  IN [next EXCEPT !.barrier = IF next.state = "locked" /\ now <= bars THEN bars ELSE -1,
                  !.fails = @ + 1,
                  !.late = @ + (IF ct \div len = now \div len THEN 0 ELSE 1)]

\* The history of a lock as the clock reaches now.
Aged(lock, now) ==
  LET aged == [lock EXCEPT !.barrier = IF now > @ THEN -1 ELSE @]
  IN IF now % Length(lock.policy) = 0 THEN [aged EXCEPT !.fails = 0, !.late = 0] ELSE aged

\* The failures after which the lock holds until the end of its window.
Limit(policy) == IF policy = "totp" THEN TotpLimit ELSE Delays[Len(Delays)][1]
=============================================================================
