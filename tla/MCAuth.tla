------------------------------- MODULE MCAuth -------------------------------
(***************************************************************************)
(* Accounts for Auth: a password that is to be upgraded, for which another *)
(* is generated or that an update session changes; a password with a totp  *)
(* and a backup code, left alone or edited in an update session; a unix    *)
(* password; the anonymous account; a password with a security key beside  *)
(* a passkey; and an account outside its valid time.  The windows are      *)
(* scaled down: a day of 4 ticks with delays of 0 and 1, the third failure *)
(* locking to its end; a totp step of 3.                                   *)
(***************************************************************************)
EXTENDS Auth, TLC

Symmetry == Permutations(SessionIds) \cup Permutations(Tasks)

MCDelays == <<<<2, 0>>, <<3, 1>>>>

Cr(type, factors, codes, pw, old) ==
  [type |-> type, factors |-> factors, codes |-> codes, pw |-> pw, old |-> old, uuid |-> 1]

Acct(primary, unix, passkeys, changes, updaters) ==
  [primary |-> primary, unix |-> unix, passkeys |-> passkeys,
   anonymous |-> FALSE, valid |-> TRUE, changes |-> changes, updaters |-> updaters]

OldPassword == Cr("password", {}, {}, "p1", TRUE)
WithTotp(codes) == Cr("mfa", {"totp"}, codes, "p1", FALSE)
WithSecurityKey == Cr("mfa", {"securitykey"}, {}, "p1", FALSE)

MCAccounts ==
  { Acct(OldPassword, NoCred, FALSE, {Cr("generated", {}, {}, "p2", FALSE)}, {}),
    Acct(OldPassword, NoCred, FALSE, {Cr("password", {}, {}, "p2", FALSE)}, Updates),
    Acct(WithTotp({"c1"}), NoCred, FALSE, {}, {}),
    Acct(WithTotp({"c1"}), NoCred, FALSE,
         {WithTotp({}), Cr("password", {}, {}, "p1", FALSE)}, Updates),
    Acct(NoCred, OldPassword, FALSE, {}, {}),
    [Acct(NoCred, NoCred, FALSE, {}, {}) EXCEPT !.anonymous = TRUE],
    Acct(WithSecurityKey, NoCred, TRUE, {}, {}),
    [Acct(NoCred, NoCred, TRUE, {}, {}) EXCEPT !.valid = FALSE] }

CodeAccounts == {Acct(WithTotp({"c1"}), NoCred, FALSE, {}, Updates)}

\* An account that update sessions edit is followed for a shorter time.
Horizon ==
  LET types == {c.type : c \in account.changes}
  IN IF "mfa" \in types THEN 1 ELSE IF "password" \in types THEN 2 ELSE MaxTime
Followed == now <= Horizon
=============================================================================
