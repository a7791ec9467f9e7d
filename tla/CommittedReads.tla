--------------------------- MODULE CommittedReads ---------------------------
(***************************************************************************)
(* What the transactions of a server over one database promise, without    *)
(* caches, snapshots or commit order: one writer at a time appends a whole *)
(* database to the log, and a reader that is open returns, for each key it *)
(* looks up, one committed value of that key, never one older than the     *)
(* last commit that had been acknowledged when the reader was opened, and  *)
(* always the same one while it stays open.                                *)
(*                                                                         *)
(* The keys of one reader may come from different commits of that range:   *)
(* this is all that module Transactions implements.                        *)
(***************************************************************************)
EXTENDS Naturals, Sequences

CONSTANTS Keys,     \* what can be looked up: entry ids, index keys, names
          Vals,     \* the values a key may have
          Unread,   \* no value: what a reader has of a key it did not look up
          Readers   \* the read transactions that may be open at one time

VARIABLES log,      \* every database that was committed, oldest first
          acked,    \* how many of them their writer was told about
          floor,    \* per open reader, acked when it was opened; 0: closed
          seen      \* per reader and key the value read, or Unread

avars == <<log, acked, floor, seen>>

Nothing == [k \in Keys |-> Unread]

AInit ==
    /\ \E d \in [Keys -> Vals] : log = <<d>>
    /\ acked = 1
    /\ floor = [r \in Readers |-> 0]
    /\ seen = [r \in Readers |-> Nothing]

ACommit ==
    /\ acked = Len(log)
    /\ LET d == log'[Len(log')] IN d \in [Keys -> Vals] /\ log' = Append(log, d)
    /\ UNCHANGED <<acked, floor, seen>>

AAck ==
    /\ acked' = Len(log)
    /\ UNCHANGED <<log, floor, seen>>

AOpen(r) ==
    /\ floor[r] = 0
    /\ floor' = [floor EXCEPT ![r] = acked]
    /\ UNCHANGED <<log, acked, seen>>

\* One operation may look up several keys.
ARead(r) ==
    /\ floor[r] > 0
    /\ \A k \in Keys : \/ seen'[r][k] = seen[r][k]
                       \/ /\ seen[r][k] = Unread
                          /\ \E i \in floor[r]..Len(log) : seen'[r][k] = log[i][k]
    /\ seen' = [seen EXCEPT ![r] = [k \in Keys |-> seen'[r][k]]]
    /\ UNCHANGED <<log, acked, floor>>

AClose(r) ==
    /\ floor[r] > 0
    /\ floor' = [floor EXCEPT ![r] = 0]
    /\ seen' = [seen EXCEPT ![r] = Nothing]
    /\ UNCHANGED <<log, acked>>

\* The process stops: what was committed counts as acknowledged from here on.
ACrash ==
    /\ acked' = Len(log)
    /\ floor' = [r \in Readers |-> 0]
    /\ seen' = [r \in Readers |-> Nothing]
    /\ UNCHANGED log

ANext ==
    \/ ACommit \/ AAck \/ ACrash
    \/ \E r \in Readers : AOpen(r) \/ ARead(r) \/ AClose(r)

ASpec == AInit /\ [][ANext]_avars

=============================================================================
