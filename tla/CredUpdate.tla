------------------------------ MODULE CredUpdate ------------------------------
(***************************************************************************)
(* Credential update sessions and the intent tokens that start them, for   *)
(* one account.                                                            *)
(*                                                                         *)
(* The account's credentials and intent tokens are in the database; the    *)
(* sessions are in memory.  Write transactions run one at a time, but a    *)
(* handler reads the clock before it waits for the write ticket, so its ct *)
(* may be older than the transaction before it.  The edits of a session    *)
(* run in read transactions: they look a session up in the map as it was   *)
(* when they began, and change the object that map and session share.     *)
(* proxy_write's commit publishes the session map before the database      *)
(* commits, so a failing database commit leaves the map changed.           *)
(***************************************************************************)
EXTENDS Naturals, FiniteSets

CONSTANTS
  Intents,        \* intent ids
  Sids,           \* session ids
  Passkeys,       \* passkey uuids
  Codes,          \* backup codes
  Passwords,
  Clients,        \* read transactions that may be open at once
  TTL,            \* MAXIMUM_CRED_UPDATE_TTL, and MINIMUM_INTENT_TTL
  IntentTTL,      \* MAXIMUM_INTENT_TTL
  MaxLag,         \* how long a handler may wait for its transaction
  MaxTime,        \* bound on the clock
  NoIntent, NoCred, NoSession

ASSUME TimeAssumption ==
  /\ TTL \in Nat \ {0} /\ IntentTTL \in Nat /\ TTL <= IntentTTL
  /\ MaxLag \in Nat /\ MaxTime \in Nat
ASSUME NoneAssumption == NoIntent \notin Intents /\ NoSession \notin Sids

(* Credential: Password, and PasswordMfa with its TOTP, its security keys    *)
(* and its backup codes.                                                     *)
Credential == [type : {"Password", "PasswordMfa"}, pw : Passwords, totp : BOOLEAN,
               wan : BOOLEAN, codes : SUBSET Codes]
Primary == Credential \cup {NoCred}
MfaRegStates == {"None", "TotpInit", "TotpTryAgain", "TotpInvalidSha1", "Passkey"}
Session == [intent : Intents \cup {NoIntent}, expiry : Nat, primary : Primary,
            passkeys : SUBSET Passkeys, mfareg : MfaRegStates]

ASSUME NoCredAssumption == NoCred \notin Credential
ASSUME NoSessionAssumption == NoSession \notin Session

VARIABLES
  clock,
  primary, passkeys,  \* the account's credentials
  intents,            \* credential_update_intent_token, by intent id
  live,               \* the keys of cred_update_sessions
  object,             \* the session each key stands for, also after its removal
  tokens,             \* the sessions whose token reached a client
  txn,                \* open read transactions: the session map they see, and their ct
  committed,          \* history: how often each session was committed
  usedCodes           \* history: backup codes whose use was processed

db   == <<primary, passkeys, intents>>
mem  == <<live, object, tokens>>
vars == <<clock, db, mem, txn, committed, usedCodes>>

NoTxn == [open |-> FALSE, seen |-> {}, ct |-> 0]

(* IntentTokenState, with the ids not yet drawn and the ones removed. *)
Unissued == [state |-> "Unissued", max_ttl |-> 0, session |-> NoSession, session_ttl |-> 0]
Gone     == [Unissued EXCEPT !.state = "Gone"]
Valid(max) == [Unissued EXCEPT !.state = "Valid", !.max_ttl = max]
InProgress(max, s, ttl) ==
  [state |-> "InProgress", max_ttl |-> max, session |-> s, session_ttl |-> ttl]
OnAccount(i) == intents[i].state \in {"Valid", "InProgress", "Consumed"}

(* The times a request that is being processed may have read. *)
Now == {ct \in 0 .. clock : clock - ct <= MaxLag}

Init ==
  /\ clock = 0
  /\ primary \in {NoCred} \cup
       {c \in Credential : c.type = "PasswordMfa" /\ (c.totp \/ c.wan)}
  /\ passkeys = {}
  /\ intents = [i \in Intents |-> Unissued]
  /\ live = {}
  /\ object = [s \in Sids |-> NoSession]
  /\ tokens = {}
  /\ txn = [c \in Clients |-> NoTxn]
  /\ committed = [s \in Sids |-> 0]
  /\ usedCodes = {}

-----------------------------------------------------------------------------
(* Write transactions.  ok says whether the database commit succeeds. *)

(* Duration::clamp on the requested lifetime. *)
Clamp(ttl) == IF ttl < TTL THEN TTL ELSE IF ttl > IntentTTL THEN IntentTTL ELSE ttl

(* init_credential_update_intent *)
InitIntent(i, ttl, ct) ==
  /\ intents[i] = Unissued
  /\ intents' = [j \in Intents |->
       IF j = i THEN Valid(ct + Clamp(ttl))
       ELSE IF OnAccount(j) /\ ct >= intents[j].max_ttl THEN Gone ELSE intents[j]]
  /\ UNCHANGED <<clock, primary, passkeys, mem, txn, committed, usedCodes>>

(* expire_credential_update_sessions: a session id begins with its expiry.   *)
(* Those that expire at this very time are told apart by random bytes.       *)
Expired(ct) == {s \in live : object[s].expiry < ct}
ExpiresNow(ct) == {s \in live : object[s].expiry = ct}

(* create_credupdate_session; the token reaches the client only when the     *)
(* transaction commits.                                                      *)
CreateSession(s, i, ct, ok) ==
  /\ object[s] = NoSession
  /\ object' = [object EXCEPT ![s] =
       [intent |-> i, expiry |-> ct + TTL, primary |-> primary, passkeys |-> passkeys,
        mfareg |-> "None"]]
  /\ tokens' = IF ok THEN tokens \cup {s} ELSE tokens
  /\ \E gone \in SUBSET ExpiresNow(ct) :
       live' = (live \ (Expired(ct) \cup gone)) \cup {s}

(* exchange_intent_credential_update: what the token's state permits.  The   *)
(* mutants take a spent token, and one whose session expires at this moment. *)
MayExchangeAgain(i, ct) ==
  \/ intents[i].state \in {"Valid", "Consumed"} /\ ct < intents[i].max_ttl
  \/ intents[i].state = "InProgress" /\ ct > intents[i].session_ttl
MayExchangeEarly(i, ct) ==
  \/ intents[i].state = "Valid" /\ ct < intents[i].max_ttl
  \/ intents[i].state = "InProgress" /\ ct >= intents[i].session_ttl
MayExchange(i, ct) ==
  \/ intents[i].state = "Valid" /\ ct < intents[i].max_ttl
  \/ intents[i].state = "InProgress" /\ ct > intents[i].session_ttl

Exchange(i, s, ct, ok) ==
  /\ MayExchange(i, ct)
  /\ CreateSession(s, i, ct, ok)
  /\ intents' = IF ok THEN [intents EXCEPT ![i] = InProgress(@.max_ttl, s, ct + TTL)]
                      ELSE intents
  /\ UNCHANGED <<clock, primary, passkeys, txn, committed, usedCodes>>

(* init_credential_update *)
InitUpdate(s, ct, ok) ==
  /\ CreateSession(s, NoIntent, ct, ok)
  /\ UNCHANGED <<clock, db, txn, committed, usedCodes>>

(* credential_update_commit_common, and the check of the intent that commit  *)
(* and cancel share.                                                         *)
Held(s) == LET i == object[s].intent IN
  i # NoIntent => intents[i].state = "InProgress" /\ intents[i].session = s

Closing(s, ct) ==
  /\ s \in tokens /\ ct < object[s].expiry
  /\ s \in live
  /\ Held(s)
  /\ live' = live \ {s}
  /\ UNCHANGED <<clock, object, tokens, txn, usedCodes>>

(* What becomes of the session's intent; the mutant spends it either way.    *)
IntentSpent(s, state) == LET i == object[s].intent IN
  IF i = NoIntent THEN intents
  ELSE [intents EXCEPT ![i] = [Valid(@.max_ttl) EXCEPT !.state = "Consumed"]]
IntentAfter(s, state) == LET i == object[s].intent IN
  IF i = NoIntent THEN intents
  ELSE [intents EXCEPT ![i] = [Valid(@.max_ttl) EXCEPT !.state = state]]

(* commit_credential_update *)
Commit(s, ct, ok) ==
  /\ Closing(s, ct)
  /\ IF ok
     THEN /\ primary' = object[s].primary
          /\ passkeys' = object[s].passkeys
          /\ intents' = IntentAfter(s, "Consumed")
          /\ committed' = [committed EXCEPT ![s] = @ + 1]
     ELSE UNCHANGED <<db, committed>>

(* cancel_credential_update *)
Cancel(s, ct, ok) ==
  /\ Closing(s, ct)
  /\ intents' = IF ok THEN IntentAfter(s, "Valid") ELSE intents
  /\ UNCHANGED <<primary, passkeys, committed>>

(* process_backupcoderemoval, after a code was used to authenticate *)
BackupCodeRemoval(code) ==
  /\ primary # NoCred /\ code \in primary.codes
  /\ primary' = [primary EXCEPT !.codes = @ \ {code}]
  /\ usedCodes' = usedCodes \cup {code}
  /\ UNCHANGED <<clock, passkeys, intents, mem, txn, committed>>

(* The server restarts: what is in memory is lost. *)
Restart ==
  /\ live' = {}
  /\ txn' = [c \in Clients |-> NoTxn]
  /\ UNCHANGED <<clock, db, object, tokens, committed, usedCodes>>

Tick ==
  /\ clock < MaxTime
  /\ clock' = clock + 1
  /\ UNCHANGED <<db, mem, txn, committed, usedCodes>>

-----------------------------------------------------------------------------
(* The edits of a session. *)

BeginEdit(c) ==
  /\ ~txn[c].open
  /\ \E ct \in Now : txn' = [txn EXCEPT ![c] = [open |-> TRUE, seen |-> live, ct |-> ct]]
  /\ UNCHANGED <<clock, db, mem, committed, usedCodes>>

(* The request is refused, or only asks for the status. *)
EndEdit(c) ==
  /\ txn[c].open
  /\ txn' = [txn EXCEPT ![c] = NoTxn]
  /\ UNCHANGED <<clock, db, mem, committed, usedCodes>>

(* get_current_session, and the new state of the session it returns *)
Edit(c, s, new) ==
  /\ txn[c].open
  /\ s \in tokens /\ txn[c].ct < object[s].expiry
  /\ s \in txn[c].seen
  /\ object' = [object EXCEPT ![s] = new]
  /\ txn' = [txn EXCEPT ![c] = NoTxn]
  /\ UNCHANGED <<clock, db, live, tokens, committed, usedCodes>>

NewPassword(pw) ==
  [type |-> "Password", pw |-> pw, totp |-> FALSE, wan |-> FALSE, codes |-> {}]

(* Credential::update_totp and remove_totp; the mutant keeps the type. *)
UpdateTotp(cred) ==
  IF cred.type = "Password" THEN [cred EXCEPT !.type = "PasswordMfa", !.totp = TRUE]
                            ELSE [cred EXCEPT !.totp = TRUE]
ClearTotp(cred) == [cred EXCEPT !.totp = FALSE]
RemoveTotp(cred) ==
  IF cred.type # "PasswordMfa" \/ ~cred.totp THEN cred
  ELSE IF cred.wan THEN [cred EXCEPT !.totp = FALSE] ELSE NewPassword(cred.pw)

SetPassword(c, s, pw) == LET x == object[s] IN
  Edit(c, s, [x EXCEPT !.primary =
    IF @ = NoCred THEN NewPassword(pw) ELSE [@ EXCEPT !.pw = pw]])

InitTotp(c, s) == LET x == object[s] IN
  /\ x.mfareg = "None"
  /\ Edit(c, s, [x EXCEPT !.mfareg = "TotpInit"])

CheckTotp(c, s) == LET x == object[s] IN
  /\ x.mfareg \in {"TotpInit", "TotpTryAgain", "TotpInvalidSha1"}
  /\ \/ /\ x.primary # NoCred
        /\ Edit(c, s, [x EXCEPT !.primary = UpdateTotp(@), !.mfareg = "None"])
     \/ Edit(c, s, [x EXCEPT !.mfareg = "TotpInvalidSha1"])
     \/ Edit(c, s, [x EXCEPT !.mfareg = "TotpTryAgain"])

AcceptSha1Totp(c, s) == LET x == object[s] IN
  /\ x.mfareg = "TotpInvalidSha1" /\ x.primary # NoCred
  /\ Edit(c, s, [x EXCEPT !.primary = UpdateTotp(@), !.mfareg = "None"])

RemoveTotpEdit(c, s) == LET x == object[s] IN
  /\ x.mfareg = "None" /\ x.primary # NoCred
  /\ Edit(c, s, [x EXCEPT !.primary = RemoveTotp(@)])

(* Codes are drawn at random: none that is about is drawn again. *)
CodesOf(cred) == IF cred = NoCred THEN {} ELSE cred.codes
FreshCodes == Codes \ (usedCodes \cup CodesOf(primary) \cup
  UNION {CodesOf(object[s].primary) : s \in {r \in Sids : object[r] # NoSession}})

(* update_backup_code and remove_backup_code refuse a credential that is not *)
(* MFA.                                                                      *)
TakesCodes(x) == x.primary # NoCred /\ x.primary.type = "PasswordMfa"

InitBackupCodes(c, s, new) == LET x == object[s] IN
  /\ TakesCodes(x)
  /\ Edit(c, s, [x EXCEPT !.primary.codes = new])

RemoveBackupCodes(c, s) == LET x == object[s] IN
  /\ TakesCodes(x)
  /\ Edit(c, s, [x EXCEPT !.primary.codes = {}])

PasskeyInit(c, s) == LET x == object[s] IN
  /\ x.mfareg = "None"
  /\ Edit(c, s, [x EXCEPT !.mfareg = "Passkey"])

PasskeyFinish(c, s, k) == LET x == object[s] IN
  /\ x.mfareg = "Passkey"
  /\ Edit(c, s, [x EXCEPT !.passkeys = @ \cup {k}, !.mfareg = "None"])

PasskeyRemove(c, s, k) == LET x == object[s] IN
  Edit(c, s, [x EXCEPT !.passkeys = @ \ {k}])

CancelMfaReg(c, s) == LET x == object[s] IN Edit(c, s, [x EXCEPT !.mfareg = "None"])

PrimaryDelete(c, s) == LET x == object[s] IN Edit(c, s, [x EXCEPT !.primary = NoCred])

-----------------------------------------------------------------------------

Write ==
  \E ct \in Now :
    \/ \E i \in Intents, ttl \in 0 .. IntentTTL + 1 : InitIntent(i, ttl, ct)
    \/ \E s \in Sids, ok \in BOOLEAN :
         \/ \E i \in Intents : Exchange(i, s, ct, ok)
         \/ InitUpdate(s, ct, ok)
         \/ Commit(s, ct, ok)
         \/ Cancel(s, ct, ok)

ClientEdit(c) ==
  \/ BeginEdit(c)
  \/ EndEdit(c)
  \/ \E s \in tokens :
       \/ \E pw \in Passwords : SetPassword(c, s, pw)
       \/ InitTotp(c, s) \/ CheckTotp(c, s) \/ AcceptSha1Totp(c, s) \/ RemoveTotpEdit(c, s)
       \/ \E new \in SUBSET FreshCodes : InitBackupCodes(c, s, new)
       \/ RemoveBackupCodes(c, s)
       \/ PasskeyInit(c, s)
       \/ \E k \in Passkeys : PasskeyFinish(c, s, k) \/ PasskeyRemove(c, s, k)
       \/ CancelMfaReg(c, s) \/ PrimaryDelete(c, s)

Next ==
  \/ Write
  \/ \E c \in Clients : ClientEdit(c)
  \/ \E code \in Codes : BackupCodeRemoval(code)
  \/ Restart
  \/ Tick

Spec == Init /\ [][Next]_vars

-----------------------------------------------------------------------------
(* Properties *)

IntentState ==
  [state : {"Unissued", "Gone", "Valid", "InProgress", "Consumed"}, max_ttl : Nat,
   session : Sids \cup {NoSession}, session_ttl : Nat]

(* The type invariant. *)
TypeOK ==
  /\ clock \in Nat
  /\ primary \in Primary /\ passkeys \subseteq Passkeys
  /\ intents \in [Intents -> IntentState]
  /\ object \in [Sids -> Session \cup {NoSession}]
  /\ live \subseteq Sids /\ tokens \subseteq Sids
  /\ \A s \in live \cup tokens : object[s] # NoSession
  /\ txn \in [Clients -> [open : BOOLEAN, seen : SUBSET Sids, ct : Nat]]
  /\ committed \in [Sids -> Nat]
  /\ usedCodes \subseteq Codes

SessionsOf(i) == {s \in Sids : object[s] # NoSession /\ object[s].intent = i}

(* An intent token is once-use, whatever is delayed, restarted or fails: a   *)
(* session is committed at most once, at most one session of an intent is,   *)
(* and only when the intent is spent (Consumed, or removed later on).        *)
OnceUse ==
  /\ \A s \in Sids : committed[s] <= 1
  /\ \A i \in Intents : \A s, t \in SessionsOf(i) :
       committed[s] = 1 /\ committed[t] = 1 => s = t
  /\ \A i \in Intents : \A s \in SessionsOf(i) :
       committed[s] = 1 => intents[i].state \in {"Consumed", "Gone"}

(* A token has at most one session that a client can use: a session that was *)
(* not committed or cancelled leaves the map before the token starts another *)
(* one, so that no late commit of the old one can race with the new one.     *)
OneSessionPerIntent ==
  \A i \in Intents : \A s, t \in SessionsOf(i) \cap live \cap tokens : s = t

(* What is not committed can be started again: a token is spent only by a    *)
(* commit that reached the database, and no session holds a token for longer *)
(* than its own lifetime.                                                    *)
NeverSpentInVain ==
  \A i \in Intents :
    /\ intents[i].state = "Consumed" => \E s \in SessionsOf(i) : committed[s] = 1
    /\ intents[i].state = "InProgress" => intents[i].session_ttl <= clock + TTL

WellFormed(cred) ==
  cred = NoCred \/ IF cred.type = "PasswordMfa" THEN cred.totp \/ cred.wan
                                               ELSE ~cred.totp /\ ~cred.wan /\ cred.codes = {}

(* No sequence of edits, of whatever sessions, stores a credential that      *)
(* Credential::is_valid would refuse to load, nor codes without MFA.         *)
CredentialValid == WellFormed(primary)

=============================================================================
