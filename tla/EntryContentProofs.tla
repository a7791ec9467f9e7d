------------------------- MODULE EntryContentProofs -------------------------
(***************************************************************************)
(* What entries hold and what their changelogs say of them: replaying a    *)
(* changelog gives the entry, only tombstones are reaped, references to    *)
(* what is deleted go, and directmemberof is exact.  The first half is     *)
(* about changelogs alone; the second rests on the invariant of            *)
(* EntryLifecycleProofs.                                                   *)
(***************************************************************************)
EXTENDS EntryLifecycleProofs, WellFoundedInduction

(* The provers to try on a step, in order, and the time each one has. *)
USE ZenonT(5), SMTT(30), SMTT(60), ZenonT(30), SMTT(90)

-----------------------------------------------------------------------------
(***************************************************************************)
(* Changelogs: what a run of transitions and a replay do, step by step.    *)
(***************************************************************************)

(* A set of natural numbers that is not empty has a least element: the form *)
(* in which the proofs below do induction.                                  *)
LEMMA LeastNumber ==
  ASSUME NEW S \in SUBSET Nat, S # {}
  PROVE  \E n \in S : \A m \in S : n <= m
<1>1. PICK n \in S : \A m \in S : ~ (<<m, n>> \in OpToRel(<, Nat))
  BY NatLessThanWellFounded, WFMin, Zenon
<1>2. \A m \in S : ~ (m < n)
  BY <1>1, Zenon DEF OpToRel
<1>3. QED
  BY <1>2

AttrNames == {"class", "member", "memberof", "directmemberof"}

(* The transitions the server records. *)
Transitions ==
  [op : {"Create", "Tombstone"}, attrs : Attrs]
    \cup [op : {"ModifyPurge"}, attr : AttrNames]
    \cup [op : {"ModifyPresent", "ModifyRemoved", "ModifyAssert"}, attr : AttrNames,
          values : SUBSET (Uuids \cup {"recycled", "tombstone"})]
    \cup [op : {"Recycle", "Revive"}]

(* The run of a change exists: each step is the one before it and one       *)
(* transition.                                                              *)
LEMMA ChangeRunSteps ==
  ASSUME NEW s, NEW change \in Seq(Transitions)
  PROVE  /\ ChangeRun(s, change)[0] = [state |-> s, ok |-> TRUE]
         /\ \A i \in 1..Len(change) :
              ChangeRun(s, change)[i] = ApplyTransition(ChangeRun(s, change)[i - 1], change[i])
<1> DEFINE Start == [state |-> s, ok |-> TRUE]
           Run(f, n) == f = [i \in 0..n |-> IF i = 0 THEN Start
                                            ELSE ApplyTransition(f[i - 1], change[i])]
           Missing == {n \in Nat : ~ \E f : Run(f, n)}
<1> HIDE DEF Start
<1>1. Missing = {}
  <2>1. SUFFICES ASSUME Missing # {} PROVE FALSE
    OBVIOUS
  <2>2. PICK n \in Missing : \A m \in Missing : n <= m
    <3>1. Missing \in SUBSET Nat
      OBVIOUS
    <3> HIDE DEF Missing
    <3>2. QED
      BY <2>1, <3>1, LeastNumber
  <2>3. n # 0
    <3>1. Run([i \in 0..0 |-> Start], 0)
      OBVIOUS
    <3>2. QED
      BY <3>1, Zenon
  <2>4. PICK f : Run(f, n - 1)
    <3>1. n - 1 \in Nat /\ ~(n <= n - 1)
      BY <2>3
    <3>2. n - 1 \notin Missing
      BY <2>2, <3>1
    <3>3. QED
      BY <3>1, <3>2
  <2> DEFINE g == [i \in 0..n |-> IF i < n THEN f[i] ELSE ApplyTransition(f[n - 1], change[n])]
  <2>5. Run(g, n)
    <3>1. n \in Nat /\ n - 1 \in Nat
      BY <2>3
    <3>2. ASSUME NEW i \in 0..n
          PROVE  g[i] = IF i = 0 THEN Start ELSE ApplyTransition(g[i - 1], change[i])
      <4>1. CASE i = 0
        BY <4>1, <3>1, <2>3, <2>4
      <4>2. CASE i # 0 /\ i < n
        <5>1. i \in 0..(n - 1) /\ i - 1 \in 0..n /\ i - 1 < n
          BY <4>2, <3>1
        <5>2. g[i] = f[i] /\ g[i - 1] = f[i - 1]
          BY <5>1, <4>2
        <5>3. f[i] = ApplyTransition(f[i - 1], change[i])
          BY <5>1, <4>2, <2>4
        <5>4. QED
          BY <5>2, <5>3, <4>2
      <4>3. CASE i = n
        <5>1. n - 1 \in 0..n /\ n - 1 < n
          BY <3>1
        <5>2. g[i] = ApplyTransition(f[n - 1], change[n]) /\ g[i - 1] = f[n - 1]
          BY <5>1, <4>3
        <5>3. QED
          BY <5>2, <4>3, <2>3
      <4>4. QED
        BY <4>1, <4>2, <4>3, <3>1
    <3>3. QED
      BY <3>2
  <2>6. QED
    BY <2>5, <2>2, Zenon
<1>2. Len(change) \in Nat
  OBVIOUS
<1>3. \E f : Run(f, Len(change))
  BY <1>1, <1>2
<1>4. Run(ChangeRun(s, change), Len(change))
  BY <1>3, Zenon DEF ChangeRun, Start
<1>5. PICK f : f = ChangeRun(s, change)
  OBVIOUS
<1>6. /\ f[0] = Start
      /\ \A i \in 1..Len(change) : f[i] = ApplyTransition(f[i - 1], change[i])
  BY <1>2, <1>4, <1>5
<1>7. QED
  BY <1>5, <1>6 DEF Start

(* One more transition at the end of a change is one more step of its run. *)
LEMMA ApplyOneMore ==
  ASSUME NEW s, NEW a \in Seq(Transitions), NEW t \in Transitions
  PROVE  ApplyChange(s, Append(a, t)) = ApplyTransition(ApplyChange(s, a), t)
<1>1. PICK r : r = ChangeRun(s, a)
  OBVIOUS
<1>2. PICK q : q = ChangeRun(s, Append(a, t))
  OBVIOUS
<1>3. Append(a, t) \in Seq(Transitions) /\ Len(Append(a, t)) = Len(a) + 1 /\ Len(a) \in Nat
  OBVIOUS
<1>4. /\ r[0] = [state |-> s, ok |-> TRUE]
      /\ \A i \in 1..Len(a) : r[i] = ApplyTransition(r[i - 1], a[i])
  BY <1>1, ChangeRunSteps
<1>5. /\ q[0] = [state |-> s, ok |-> TRUE]
      /\ \A i \in 1..(Len(a) + 1) : q[i] = ApplyTransition(q[i - 1], Append(a, t)[i])
  <2>1. PICK b \in Seq(Transitions) : b = Append(a, t)
    BY <1>3, Zenon
  <2>2. /\ q[0] = [state |-> s, ok |-> TRUE]
        /\ \A i \in 1..Len(b) : q[i] = ApplyTransition(q[i - 1], b[i])
    BY <1>2, <2>1, ChangeRunSteps, Zenon
  <2>3. QED
    BY <1>3, <2>1, <2>2, Zenon
<1>6. q[Len(a)] = r[Len(a)]
  <2> DEFINE Differ == {i \in 0..Len(a) : q[i] # r[i]}
  <2>1. SUFFICES ASSUME Differ # {} PROVE FALSE
    BY <1>3
  <2>2. PICK n \in Differ : \A m \in Differ : n <= m
    <3>1. Differ \in SUBSET Nat
      BY <1>3
    <3> HIDE DEF Differ
    <3>2. QED
      BY <2>1, <3>1, LeastNumber
  <2>3. n # 0 /\ n \in 1..Len(a) /\ n - 1 \in 0..Len(a) /\ ~(n <= n - 1)
    BY <1>3, <1>4, <1>5
  <2>4. q[n - 1] = r[n - 1]
    BY <2>2, <2>3
  <2>5. Append(a, t)[n] = a[n]
    BY <2>3
  <2>6. QED
    BY <1>4, <1>5, <2>3, <2>4, <2>5, <1>3
<1>7. Append(a, t)[Len(a) + 1] = t
  OBVIOUS
<1>8. QED
  BY <1>1, <1>2, <1>3, <1>5, <1>6, <1>7 DEF ApplyChange

(* The transitions ts, recorded at the end of any change that leads to st,  *)
(* lead on to st2 without a rejection.                                      *)
Moves(st, ts, st2) ==
  \A s : \A a \in Seq(Transitions) :
    ApplyChange(s, a) = [state |-> st, ok |-> TRUE] =>
      ApplyChange(s, a \o ts) = [state |-> st2, ok |-> TRUE]

(* A transition that is accepted moves on. *)
LEMMA MoveOne ==
  ASSUME NEW st, NEW t \in Transitions, Accepts(st, t)
  PROVE  Moves(st, <<t>>, After(st, t))
<1>1. SUFFICES ASSUME NEW s, NEW a \in Seq(Transitions),
                      ApplyChange(s, a) = [state |-> st, ok |-> TRUE]
               PROVE  ApplyChange(s, a \o <<t>>) = [state |-> After(st, t), ok |-> TRUE]
  BY Zenon DEF Moves
<1>2. a \o <<t>> = Append(a, t)
  OBVIOUS
<1>3. ApplyChange(s, a \o <<t>>) = ApplyTransition(ApplyChange(s, a), t)
  BY <1>2, ApplyOneMore, Zenon
<1>4. ApplyTransition([state |-> st, ok |-> TRUE], t) = [state |-> After(st, t), ok |-> TRUE]
  BY Zenon DEF ApplyTransition
<1>5. QED
  BY <1>1, <1>3, <1>4

(* One list of transitions after another. *)
LEMMA MoveOn ==
  ASSUME NEW st, NEW st2, NEW st3, NEW ts \in Seq(Transitions), NEW us \in Seq(Transitions),
         Moves(st, ts, st2), Moves(st2, us, st3)
  PROVE  Moves(st, ts \o us, st3)
<1>1. SUFFICES ASSUME NEW s, NEW a \in Seq(Transitions),
                      ApplyChange(s, a) = [state |-> st, ok |-> TRUE]
               PROVE  ApplyChange(s, a \o (ts \o us)) = [state |-> st3, ok |-> TRUE]
  BY DEF Moves
<1>2. a \o ts \in Seq(Transitions) /\ a \o (ts \o us) = (a \o ts) \o us
  OBVIOUS
<1>3. ApplyChange(s, a \o ts) = [state |-> st2, ok |-> TRUE]
  BY <1>1 DEF Moves
<1>4. QED
  BY <1>2, <1>3, Zenon DEF Moves

(* What a change comes to is a state and a verdict. *)
LEMMA VerdictShape ==
  ASSUME NEW s, NEW a \in Seq(Transitions)
  PROVE  \E x : \E ok \in BOOLEAN : ApplyChange(s, a) = [state |-> x, ok |-> ok]
<1>1. PICK r : r = ChangeRun(s, a)
  OBVIOUS
<1>2. /\ r[0] = [state |-> s, ok |-> TRUE]
      /\ \A i \in 1..Len(a) : r[i] = ApplyTransition(r[i - 1], a[i])
  BY <1>1, ChangeRunSteps
<1> DEFINE Shape(v) == \E x : \E ok \in BOOLEAN : v = [state |-> x, ok |-> ok]
           Wrong == {i \in 0..Len(a) : ~Shape(r[i])}
<1>3. Len(a) \in Nat
  OBVIOUS
<1>4. Wrong = {}
  <2>1. SUFFICES ASSUME Wrong # {} PROVE FALSE
    BY Zenon
  <2>2. PICK n \in Wrong : \A m \in Wrong : n <= m
    <3>1. Wrong \in SUBSET Nat
      BY <1>3
    <3> HIDE DEF Wrong
    <3>2. QED
      BY <2>1, <3>1, LeastNumber
  <2>3. Shape(r[0])
    BY <1>2, Zenon
  <2> HIDE DEF Shape
  <2>4. n \in 1..Len(a) /\ n - 1 \in 0..Len(a) /\ ~(n <= n - 1)
    BY <1>3, <2>3
  <2>5. PICK x : \E ok \in BOOLEAN : r[n - 1] = [state |-> x, ok |-> ok]
    <3>1. Shape(r[n - 1])
      BY <2>2, <2>4
    <3>2. QED
      BY <3>1, Zenon DEF Shape
  <2>6. PICK ok \in BOOLEAN : r[n - 1] = [state |-> x, ok |-> ok]
    BY <2>5, Zenon
  <2>7. Shape(ApplyTransition([state |-> x, ok |-> ok], a[n]))
    BY Zenon DEF ApplyTransition, Shape
  <2>8. r[n] = ApplyTransition([state |-> x, ok |-> ok], a[n])
    BY <1>2, <2>4, <2>6
  <2>9. QED
    BY <2>2, <2>7, <2>8
<1>5. Shape(r[Len(a)])
  <2> HIDE DEF Shape
  <2>1. QED
    BY <1>3, <1>4
<1>6. QED
  BY <1>1, <1>5, Zenon DEF ApplyChange

(* The run of a replay exists, Cid by Cid. *)
LEMMA ReplayRunSteps ==
  ASSUME NEW log, NEW bound
  PROVE  /\ ReplayRun(log, bound)[0] = [state |-> log.anchor, rejected |-> {}]
         /\ \A c \in 1..MaxTs :
              ReplayRun(log, bound)[c] =
                IF InRange(log, bound, c) THEN ReplayStep(log, ReplayRun(log, bound)[c - 1], c)
                                          ELSE ReplayRun(log, bound)[c - 1]
<1> DEFINE Start == [state |-> log.anchor, rejected |-> {}]
           Step(f, c) == IF InRange(log, bound, c) THEN ReplayStep(log, f[c - 1], c)
                                                   ELSE f[c - 1]
           Run(f, n) == f = [c \in 0..n |->
                               IF c = 0 THEN Start
                               ELSE IF InRange(log, bound, c) THEN ReplayStep(log, f[c - 1], c)
                               ELSE f[c - 1]]
           Missing == {n \in Nat : ~ \E f : Run(f, n)}
<1> HIDE DEF Start
<1>1. Missing = {}
  <2>1. SUFFICES ASSUME Missing # {} PROVE FALSE
    OBVIOUS
  <2>2. PICK n \in Missing : \A m \in Missing : n <= m
    <3>1. Missing \in SUBSET Nat
      OBVIOUS
    <3> HIDE DEF Missing
    <3>2. QED
      BY <2>1, <3>1, LeastNumber
  <2>3. n # 0
    <3>1. Run([i \in 0..0 |-> Start], 0)
      OBVIOUS
    <3>2. QED
      BY <3>1, Zenon
  <2>4. PICK f : Run(f, n - 1)
    <3>1. n - 1 \in Nat /\ ~(n <= n - 1)
      BY <2>3
    <3>2. n - 1 \notin Missing
      BY <2>2, <3>1, Zenon
    <3>3. QED
      BY <3>1, <3>2
  <2> DEFINE g == [c \in 0..n |-> IF c < n THEN f[c] ELSE Step(f, n)]
  <2>5. Run(g, n)
    <3>1. n \in Nat /\ n - 1 \in Nat
      BY <2>3
    <3>2. ASSUME NEW c \in 0..n
          PROVE  g[c] = IF c = 0 THEN Start ELSE Step(g, c)
      <4>1. CASE c = 0
        BY <4>1, <3>1, <2>3, <2>4
      <4>2. CASE c # 0 /\ c < n
        <5>1. c \in 0..(n - 1) /\ c - 1 \in 0..n /\ c - 1 < n
          BY <4>2, <3>1
        <5>2. g[c] = f[c] /\ g[c - 1] = f[c - 1]
          BY <5>1, <4>2
        <5>3. f[c] = Step(f, c)
          BY <5>1, <4>2, <2>4
        <5>4. QED
          BY <5>2, <5>3, <4>2
      <4>3. CASE c = n
        <5>1. n - 1 \in 0..n /\ n - 1 < n
          BY <3>1
        <5>2. g[c] = Step(f, n) /\ g[c - 1] = f[n - 1]
          BY <5>1, <4>3
        <5>3. QED
          BY <5>2, <4>3, <2>3
      <4>4. QED
        BY <4>1, <4>2, <4>3, <3>1
    <3>3. QED
      BY <3>2
  <2>6. QED
    BY <2>5, <2>2, Zenon
<1>2. \E f : Run(f, MaxTs)
  BY <1>1, MaxTsAssumption, Zenon
<1>3. Run(ReplayRun(log, bound), MaxTs)
  BY <1>2, Zenon DEF ReplayRun, Start
<1>4. PICK f : f = ReplayRun(log, bound)
  OBVIOUS
<1>5. f[0] = Start /\ \A c \in 1..MaxTs : f[c] = Step(f, c)
  BY <1>3, <1>4, MaxTsAssumption
<1>6. QED
  BY <1>4, <1>5 DEF Start

(* Two replays have the same changes after Cid i and up to j. *)
SameChanges(l1, b1, l2, b2, i, j) ==
  /\ i \in 0..MaxTs /\ j \in 0..MaxTs /\ i <= j
  /\ \A c \in (i + 1)..j : /\ InRange(l1, b1, c) <=> InRange(l2, b2, c)
                           /\ InRange(l1, b1, c) => l1.changes[c] = l2.changes[c]

(* Two replays that agree at a Cid and have the same changes from there on  *)
(* still agree later.                                                       *)
LEMMA SameSteps ==
  ASSUME NEW l1, NEW b1, NEW l2, NEW b2, NEW i, NEW j, SameChanges(l1, b1, l2, b2, i, j),
         ReplayRun(l1, b1)[i] = ReplayRun(l2, b2)[i]
  PROVE  ReplayRun(l1, b1)[j] = ReplayRun(l2, b2)[j]
<1>0. i \in 0..MaxTs /\ j \in 0..MaxTs /\ i <= j
  BY DEF SameChanges
<1>1. PICK r : r = ReplayRun(l1, b1)
  OBVIOUS
<1>2. PICK q : q = ReplayRun(l2, b2)
  OBVIOUS
<1>3. \A c \in 1..MaxTs : r[c] = IF InRange(l1, b1, c) THEN ReplayStep(l1, r[c - 1], c) ELSE r[c - 1]
  BY <1>1, ReplayRunSteps, Zenon
<1>4. \A c \in 1..MaxTs : q[c] = IF InRange(l2, b2, c) THEN ReplayStep(l2, q[c - 1], c) ELSE q[c - 1]
  BY <1>2, ReplayRunSteps, Zenon
<1>5. MaxTs \in Nat
  BY MaxTsAssumption
<1> DEFINE Differ == {c \in i..j : q[c] # r[c]}
<1>6. SUFFICES ASSUME Differ # {} PROVE FALSE
  BY <1>0, <1>1, <1>2, <1>5
<1>7. PICK n \in Differ : \A m \in Differ : n <= m
  <2>1. Differ \in SUBSET Nat
    BY <1>0, <1>5
  <2> HIDE DEF Differ
  <2>2. QED
    BY <1>6, <2>1, LeastNumber
<1>8. /\ n \in (i + 1)..j /\ n \in 1..MaxTs /\ n - 1 \in i..j /\ ~(n <= n - 1)
      /\ q[n] # r[n]
  BY <1>0, <1>1, <1>2, <1>5, <1>7
<1>9. q[n - 1] = r[n - 1]
  BY <1>7, <1>8
<1>10. CASE InRange(l1, b1, n)
  <2>1. InRange(l2, b2, n) /\ l1.changes[n] = l2.changes[n]
    BY <1>8, <1>10 DEF SameChanges
  <2>2. r[n] = ReplayStep(l1, r[n - 1], n) /\ q[n] = ReplayStep(l2, q[n - 1], n)
    BY <1>3, <1>4, <1>8, <1>10, <2>1
  <2>3. QED
    BY <1>8, <1>9, <2>1, <2>2, Zenon DEF ReplayStep
<1>11. CASE ~InRange(l1, b1, n)
  <2>1. ~InRange(l2, b2, n)
    BY <1>8, <1>11 DEF SameChanges
  <2>2. QED
    BY <1>3, <1>4, <1>8, <1>9, <1>11, <2>1
<1>12. QED
  BY <1>10, <1>11

(* Where there are no changes a replay stands still. *)
LEMMA NoSteps ==
  ASSUME NEW log, NEW b, NEW i \in 0..MaxTs, NEW j \in 0..MaxTs, i <= j,
         \A c \in (i + 1)..j : ~InRange(log, b, c)
  PROVE  ReplayRun(log, b)[j] = ReplayRun(log, b)[i]
<1>1. PICK r : r = ReplayRun(log, b)
  OBVIOUS
<1>2. \A c \in 1..MaxTs : r[c] = IF InRange(log, b, c) THEN ReplayStep(log, r[c - 1], c) ELSE r[c - 1]
  BY <1>1, ReplayRunSteps, Zenon
<1>3. MaxTs \in Nat
  BY MaxTsAssumption
<1> DEFINE Differ == {c \in i..j : r[c] # r[i]}
<1>4. SUFFICES ASSUME Differ # {} PROVE FALSE
  BY <1>1
<1>5. PICK n \in Differ : \A m \in Differ : n <= m
  <2>1. Differ \in SUBSET Nat
    BY <1>3
  <2> HIDE DEF Differ
  <2>2. QED
    BY <1>4, <2>1, LeastNumber
<1>6. /\ n \in (i + 1)..j /\ n \in 1..MaxTs /\ n - 1 \in i..j /\ ~(n <= n - 1)
      /\ r[n] # r[i]
  BY <1>3, <1>5
<1>7. r[n - 1] = r[i]
  BY <1>5, <1>6
<1>8. QED
  BY <1>2, <1>6, <1>7

(* The whole log replays to st, and none of its changes is rejected. *)
Replays(log, st) == Replay(log, MaxTs + 1) = [state |-> st, rejected |-> {}]

(* If nothing is rejected in the end, nothing was on the way. *)
LEMMA NoneRejected ==
  ASSUME NEW log, NEW st, Replays(log, st), NEW i \in 0..MaxTs
  PROVE  \E x : ReplayRun(log, MaxTs + 1)[i] = [state |-> x, rejected |-> {}]
<1>1. PICK r : r = ReplayRun(log, MaxTs + 1)
  OBVIOUS
<1>2. /\ r[0] = [state |-> log.anchor, rejected |-> {}]
      /\ \A c \in 1..MaxTs : r[c] = IF InRange(log, MaxTs + 1, c)
                                    THEN ReplayStep(log, r[c - 1], c) ELSE r[c - 1]
  BY <1>1, ReplayRunSteps
<1>3. MaxTs \in Nat
  BY MaxTsAssumption
<1> DEFINE Clean(v) == \E x : v = [state |-> x, rejected |-> {}]
           Soiled == {c \in 0..MaxTs : ~Clean(r[c])}
<1>4. SUFFICES ASSUME Soiled # {} PROVE FALSE
  BY <1>1, Zenon
<1>5. PICK n \in Soiled : \A m \in Soiled : n <= m
  <2>1. Soiled \in SUBSET Nat
    BY <1>3
  <2> HIDE DEF Soiled
  <2>2. QED
    BY <1>4, <2>1, LeastNumber
<1>6. Clean(r[0])
  BY <1>2, Zenon
<1> HIDE DEF Clean
<1>7. n \in 1..MaxTs /\ n - 1 \in 0..MaxTs /\ ~(n <= n - 1) /\ ~Clean(r[n])
  BY <1>3, <1>5, <1>6
<1>8. Clean(r[n - 1])
  BY <1>5, <1>7
<1>9. PICK x : r[n - 1] = [state |-> x, rejected |-> {}]
  BY <1>8, Zenon DEF Clean
<1>10. r[n].rejected # {}
  <2>1. r[n] = ReplayStep(log, r[n - 1], n)
    BY <1>2, <1>7, <1>8
  <2>2. PICK a : a = ApplyChange(x, log.changes[n])
    OBVIOUS
  <2>3. r[n] = [state |-> a.state, rejected |-> IF a.ok THEN {} ELSE {} \cup {n}]
    <3>1. r[n - 1].state = x /\ r[n - 1].rejected = {}
      BY <1>9
    <3>2. ApplyChange(r[n - 1].state, log.changes[n]) = a
      BY <2>2, <3>1, Zenon
    <3>3. QED
      BY <2>1, <3>1, <3>2, Zenon DEF ReplayStep
  <2>4. CASE a.ok
    BY <1>7, <2>3, <2>4, Zenon DEF Clean
  <2>5. CASE ~a.ok
    BY <2>3, <2>5
  <2>6. QED
    BY <2>4, <2>5
<1> DEFINE Washed == {c \in n..MaxTs : r[c].rejected = {}}
<1>11. Washed # {}
  BY <1>1, <1>3, <1>7 DEF Replays, Replay
<1>12. PICK m \in Washed : \A k \in Washed : m <= k
  <2>1. Washed \in SUBSET Nat
    BY <1>3, <1>7
  <2> HIDE DEF Washed
  <2>2. QED
    BY <1>11, <2>1, LeastNumber
<1>13. m \in 1..MaxTs /\ m - 1 \in n..MaxTs /\ ~(m <= m - 1) /\ r[m].rejected = {}
  BY <1>3, <1>7, <1>10, <1>12
<1>14. r[m - 1].rejected # {}
  BY <1>12, <1>13
<1>15. r[m] = ReplayStep(log, r[m - 1], m)
  BY <1>2, <1>13, <1>14
<1>16. QED
  <2>1. ReplayStep(log, r[m - 1], m).rejected \in {r[m - 1].rejected, r[m - 1].rejected \cup {m}}
    BY Zenon DEF ReplayStep
  <2>2. QED
    BY <1>13, <1>14, <1>15, <2>1

(* A log without changes replays to its anchor. *)
LEMMA BareLogReplays ==
  ASSUME NEW log, DOMAIN log.changes = {}
  PROVE  Replays(log, log.anchor)
<1>1. MaxTs \in Nat /\ 0 \in 0..MaxTs /\ MaxTs \in 0..MaxTs /\ 0 <= MaxTs
  BY MaxTsAssumption
<1>2. \A c \in (0 + 1)..MaxTs : ~InRange(log, MaxTs + 1, c)
  BY DEF InRange
<1>3. ReplayRun(log, MaxTs + 1)[MaxTs] = ReplayRun(log, MaxTs + 1)[0]
  BY <1>1, <1>2, NoSteps
<1>4. QED
  BY <1>3, ReplayRunSteps DEF Replays, Replay

(* An empty change does nothing. *)
LEMMA NothingApplied ==
  ASSUME NEW s
  PROVE  ApplyChange(s, <<>>) = [state |-> s, ok |-> TRUE]
<1>1. <<>> \in Seq(Transitions) /\ Len(<<>>) = 0
  OBVIOUS
<1>2. PICK a \in Seq(Transitions) : a = <<>>
  BY <1>1, Zenon
<1>3. ChangeRun(s, a)[0] = [state |-> s, ok |-> TRUE]
  BY ChangeRunSteps, Zenon
<1>4. QED
  BY <1>1, <1>2, <1>3, Zenon DEF ApplyChange

(* A change that is accepted, as one step of a replay. *)
LEMMA AcceptedStep ==
  ASSUME NEW log, NEW c, NEW x, NEW y,
         ApplyChange(x, log.changes[c]) = [state |-> y, ok |-> TRUE]
  PROVE  ReplayStep(log, [state |-> x, rejected |-> {}], c) = [state |-> y, rejected |-> {}]
<1>1. PICK r : r = [state |-> x, rejected |-> {}]
  BY Zenon
<1>2. r.state = x /\ r.rejected = {}
  BY <1>1
<1>3. PICK a : a = ApplyChange(x, log.changes[c])
  OBVIOUS
<1>4. a.state = y /\ a.ok = TRUE
  BY <1>3
<1>5. ApplyChange(r.state, log.changes[c]) = a
  BY <1>2, <1>3, Zenon
<1>6. ReplayStep(log, r, c) = [state |-> a.state,
                               rejected |-> IF a.ok THEN r.rejected ELSE r.rejected \cup {c}]
  BY <1>5, Zenon DEF ReplayStep
<1>7. QED
  BY <1>1, <1>2, <1>4, <1>6

(* A step of a replay that rejects nothing applied the whole change. *)
LEMMA StepAccepted ==
  ASSUME NEW log, NEW c, NEW x, NEW y, log.changes[c] \in Seq(Transitions),
         ReplayStep(log, [state |-> x, rejected |-> {}], c) = [state |-> y, rejected |-> {}]
  PROVE  ApplyChange(x, log.changes[c]) = [state |-> y, ok |-> TRUE]
<1>1. PICK r : r = [state |-> x, rejected |-> {}]
  BY Zenon
<1>2. r.state = x /\ r.rejected = {}
  BY <1>1
<1>3. PICK z : \E ok \in BOOLEAN : ApplyChange(x, log.changes[c]) = [state |-> z, ok |-> ok]
  BY VerdictShape, Zenon
<1>4. PICK ok \in BOOLEAN : ApplyChange(x, log.changes[c]) = [state |-> z, ok |-> ok]
  BY <1>3, Zenon
<1>5. PICK a : a = ApplyChange(x, log.changes[c])
  OBVIOUS
<1>6. a.state = z /\ a.ok = ok
  BY <1>4, <1>5
<1>7. ApplyChange(r.state, log.changes[c]) = a
  BY <1>2, <1>5, Zenon
<1>8. ReplayStep(log, r, c) = [state |-> a.state,
                               rejected |-> IF a.ok THEN r.rejected ELSE r.rejected \cup {c}]
  BY <1>7, Zenon DEF ReplayStep
<1>9. z = y /\ ok = TRUE
  BY <1>1, <1>2, <1>6, <1>8
<1>10. QED
  BY <1>4, <1>9

(* Every recording function keeps a changelog replayable: what it records   *)
(* at the end of the last change moves the state the log replays to.        *)
LEMMA RecordReplays ==
  ASSUME NEW log, NEW c \in Cids, NEW ts \in Seq(Transitions), NEW st, NEW st2,
         DOMAIN log.changes \subseteq Cids, \A d \in DOMAIN log.changes : d <= c,
         \A d \in DOMAIN log.changes : log.changes[d] \in Seq(Transitions),
         log.anchorCid \in Int, log.anchorCid <= c,
         Replays(log, st), Moves(st, ts, st2)
  PROVE  Replays(Record(log, c, ts), st2)
<1> DEFINE end == MaxTs + 1
<1>1. PICK rec : rec = Record(log, c, ts)
  OBVIOUS
<1>2. /\ rec.anchorCid = log.anchorCid /\ rec.anchor = log.anchor
      /\ DOMAIN rec.changes = DOMAIN log.changes \cup {c}
      /\ \A d \in DOMAIN log.changes : d # c => rec.changes[d] = log.changes[d]
      /\ c \in DOMAIN log.changes => rec.changes[c] = log.changes[c] \o ts
      /\ c \notin DOMAIN log.changes => rec.changes[c] = ts
  BY <1>1, Zenon DEF Record
<1>3. /\ MaxTs \in Nat /\ c \in Int /\ 1 <= c /\ c <= MaxTs
      /\ 0 \in 0..MaxTs /\ c - 1 \in 0..MaxTs /\ c \in 0..MaxTs /\ MaxTs \in 0..MaxTs
  BY MaxTsAssumption DEF Cids
<1>4. \A d \in 1..MaxTs : d # c => (InRange(log, end, d) <=> InRange(rec, end, d))
  BY <1>2 DEF InRange
<1>5. \A d \in 1..MaxTs : d # c /\ InRange(log, end, d) => log.changes[d] = rec.changes[d]
  BY <1>2 DEF InRange
<1>6. \A d \in (c + 1)..MaxTs : ~InRange(log, end, d) /\ ~InRange(rec, end, d)
  BY <1>2, <1>3 DEF InRange
<1>7. InRange(rec, end, c) /\ (InRange(log, end, c) <=> c \in DOMAIN log.changes)
  BY <1>2, <1>3 DEF InRange
<1>8. PICK r : r = ReplayRun(log, end)
  OBVIOUS
<1>9. PICK q : q = ReplayRun(rec, end)
  OBVIOUS
<1>10. /\ r[0] = [state |-> log.anchor, rejected |-> {}]
       /\ \A d \in 1..MaxTs : r[d] = IF InRange(log, end, d) THEN ReplayStep(log, r[d - 1], d)
                                     ELSE r[d - 1]
  BY <1>8, ReplayRunSteps
<1>11. /\ q[0] = [state |-> rec.anchor, rejected |-> {}]
       /\ \A d \in 1..MaxTs : q[d] = IF InRange(rec, end, d) THEN ReplayStep(rec, q[d - 1], d)
                                     ELSE q[d - 1]
  BY <1>9, ReplayRunSteps
<1>12. r[c - 1] = q[c - 1]
  <2>1. PICK k \in 0..MaxTs : k = c - 1
    BY <1>3
  <2>2. SameChanges(log, end, rec, end, 0, k)
    BY <1>3, <1>4, <1>5, <2>1 DEF SameChanges
  <2>3. r[0] = q[0] /\ 0 <= k
    BY <1>2, <1>3, <1>10, <1>11, <2>1
  <2>4. ReplayRun(log, end)[0] = ReplayRun(rec, end)[0]
    BY <1>8, <1>9, <2>3
  <2> HIDE DEF end
  <2>5. ReplayRun(log, end)[k] = ReplayRun(rec, end)[k]
    BY <2>2, <2>3, <2>4, SameSteps
  <2>6. QED
    BY <1>8, <1>9, <2>1, <2>5
<1>13. r[MaxTs] = r[c] /\ q[MaxTs] = q[c]
  <2> HIDE DEF end
  <2>1. ReplayRun(log, end)[MaxTs] = ReplayRun(log, end)[c]
    BY <1>3, <1>6, NoSteps
  <2>2. ReplayRun(rec, end)[MaxTs] = ReplayRun(rec, end)[c]
    BY <1>3, <1>6, NoSteps
  <2>3. QED
    BY <1>8, <1>9, <2>1, <2>2
<1>14. r[c] = [state |-> st, rejected |-> {}]
  BY <1>8, <1>13 DEF Replays, Replay
<1>15. PICK x : r[c - 1] = [state |-> x, rejected |-> {}]
  BY <1>3, <1>8, NoneRejected, Zenon
<1>16. ApplyChange(x, rec.changes[c]) = [state |-> st2, ok |-> TRUE]
  <2>1. CASE c \in DOMAIN log.changes
    <3>1. r[c] = ReplayStep(log, [state |-> x, rejected |-> {}], c)
      BY <1>3, <1>7, <1>10, <1>15, <2>1
    <3>2. ApplyChange(x, log.changes[c]) = [state |-> st, ok |-> TRUE]
      BY <1>14, <2>1, <3>1, StepAccepted
    <3>3. ApplyChange(x, log.changes[c] \o ts) = [state |-> st2, ok |-> TRUE]
      BY <2>1, <3>2, Zenon DEF Moves
    <3>4. QED
      BY <1>2, <2>1, <3>3, Zenon
  <2>2. CASE c \notin DOMAIN log.changes
    <3>1. r[c] = r[c - 1]
      BY <1>3, <1>7, <1>10, <2>2
    <3>2. x = st
      BY <1>14, <1>15, <3>1
    <3>3. <<>> \in Seq(Transitions) /\ <<>> \o ts = ts
      OBVIOUS
    <3>4. ApplyChange(st, <<>> \o ts) = [state |-> st2, ok |-> TRUE]
      BY <3>3, NothingApplied, Zenon DEF Moves
    <3>5. QED
      BY <1>2, <2>2, <3>2, <3>3, <3>4, Zenon
  <2>3. QED
    BY <2>1, <2>2
<1>17. q[c] = [state |-> st2, rejected |-> {}]
  <2>1. q[c] = ReplayStep(rec, q[c - 1], c)
    <3>1. c \in 1..MaxTs
      BY <1>3
    <3>2. QED
      BY <1>7, <1>11, <3>1, Zenon
  <2>2. q[c - 1] = [state |-> x, rejected |-> {}]
    BY <1>12, <1>15, Zenon
  <2>3. QED
    BY <1>16, <2>1, <2>2, AcceptedStep, Zenon
<1>18. QED
  BY <1>1, <1>9, <1>13, <1>17 DEF Replays, Replay

(* What trim_up_to takes as the new anchor is the state the changes before  *)
(* its bound lead to; replayed from there, what is left leads to the same   *)
(* end.                                                                     *)
LEMMA TrimReplays ==
  ASSUME NEW log, NEW c \in 1..(MaxTs + 1), NEW st,
         DOMAIN log.changes \subseteq Cids, log.anchorCid \in Int, ~TrimPanics(log, c),
         Replays(log, st)
  PROVE  Replays(TrimUpTo(log, c), st)
<1> DEFINE end == MaxTs + 1
<1>1. PICK trim : trim = TrimUpTo(log, c)
  OBVIOUS
<1>2. PICK q : q = ReplayRun(log, c)
  OBVIOUS
<1>3. /\ trim.anchorCid = c /\ trim.anchor = q[MaxTs].state
      /\ DOMAIN trim.changes = {d \in DOMAIN log.changes : c <= d}
      /\ \A d \in DOMAIN trim.changes : trim.changes[d] = log.changes[d]
  BY <1>1, <1>2, Zenon DEF TrimUpTo, Replay
<1>4. MaxTs \in Nat /\ c \in Int /\ 1 <= c /\ c <= MaxTs + 1 /\ MaxTs \in 0..MaxTs
  BY MaxTsAssumption
<1>5. PICK k \in 0..MaxTs : k = c - 1
  BY <1>4
<1>6. \A d \in Cids : d \in Int /\ 1 <= d /\ d <= MaxTs
  BY <1>4 DEF Cids
<1>7. PICK r : r = ReplayRun(log, end)
  OBVIOUS
<1>8. r[0] = [state |-> log.anchor, rejected |-> {}] /\ q[0] = r[0]
  BY <1>2, <1>7, ReplayRunSteps, Zenon
<1>9. q[k] = r[k]
  <2>1. SameChanges(log, c, log, end, 0, k)
    BY <1>4, <1>5 DEF SameChanges, InRange
  <2> HIDE DEF end
  <2>2. ReplayRun(log, c)[k] = ReplayRun(log, end)[k]
    BY <1>2, <1>7, <1>8, <2>1, SameSteps
  <2>3. QED
    BY <1>2, <1>7, <2>2
<1>10. q[MaxTs] = q[k]
  <2>1. \A d \in (k + 1)..MaxTs : ~InRange(log, c, d)
    BY <1>4, <1>5 DEF InRange
  <2>2. ReplayRun(log, c)[MaxTs] = ReplayRun(log, c)[k]
    BY <1>4, <1>5, <2>1, NoSteps
  <2>3. QED
    BY <1>2, <2>2
<1>11. PICK x : r[k] = [state |-> x, rejected |-> {}]
  BY <1>7, NoneRejected, Zenon
<1>12. PICK p : p = ReplayRun(trim, end)
  OBVIOUS
<1>13. p[0] = r[k]
  <2>1. p[0] = [state |-> trim.anchor, rejected |-> {}]
    BY <1>12, ReplayRunSteps, Zenon
  <2>2. trim.anchor = x
    BY <1>3, <1>9, <1>10, <1>11
  <2>3. QED
    BY <1>11, <2>1, <2>2
<1>14. p[k] = r[k]
  <2>1. \A d \in (0 + 1)..k : ~InRange(trim, end, d)
    BY <1>3, <1>4, <1>5 DEF InRange
  <2>2. 0 \in 0..MaxTs /\ 0 <= k
    BY <1>4, <1>5
  <2> HIDE DEF end
  <2>3. ReplayRun(trim, end)[k] = ReplayRun(trim, end)[0]
    BY <2>1, <2>2, NoSteps
  <2>4. QED
    BY <1>12, <1>13, <2>3
<1>15. p[MaxTs] = r[MaxTs]
  <2>1. ASSUME NEW d \in (k + 1)..MaxTs
        PROVE  /\ InRange(trim, end, d) <=> InRange(log, end, d)
               /\ InRange(trim, end, d) => trim.changes[d] = log.changes[d]
    <3>1. d \in Int /\ c <= d /\ d < end
      BY <1>4, <1>5
    <3>2. d \in DOMAIN log.changes => log.anchorCid < c
      BY <1>4 DEF TrimPanics
    <3>3. QED
      BY <1>3, <1>4, <3>1, <3>2 DEF InRange
  <2>2. SameChanges(trim, end, log, end, k, MaxTs)
    BY <1>4, <1>5, <2>1 DEF SameChanges
  <2> HIDE DEF end
  <2>3. ReplayRun(trim, end)[MaxTs] = ReplayRun(log, end)[MaxTs]
    BY <1>7, <1>12, <1>14, <2>2, SameSteps
  <2>4. QED
    BY <1>7, <1>12, <2>3
<1>16. QED
  BY <1>1, <1>7, <1>12, <1>15 DEF Replays, Replay

(* EntryChangelog::new: a created entry's changelog replays to it. *)
LEMMA NewLogReplays ==
  ASSUME NEW c \in Cids, NEW attrs \in Attrs
  PROVE  Replays(NewLog(c, attrs), State("Live", attrs))
<1>1. PICK bare : bare = [anchorCid |-> c, anchor |-> NonExistent, changes |-> NoChanges]
  BY Zenon
<1>2. /\ bare.anchorCid = c /\ bare.anchor = NonExistent
      /\ bare.changes = NoChanges /\ DOMAIN bare.changes = {}
  BY <1>1 DEF NoChanges
<1>3. Replays(bare, NonExistent)
  BY <1>2, BareLogReplays
<1>4. Create(attrs) \in Transitions /\ <<Create(attrs)>> \in Seq(Transitions)
  <2>1. Create(attrs) \in [op : {"Create", "Tombstone"}, attrs : Attrs]
    BY DEF Create
  <2>2. Create(attrs) \in Transitions
    BY <2>1, Zenon DEF Transitions
  <2>3. QED
    BY <2>2
<1>5. Accepts(NonExistent, Create(attrs)) /\ After(NonExistent, Create(attrs)) = State("Live", attrs)
  BY DEF Accepts, After, NonExistent, Create
<1>6. Moves(NonExistent, <<Create(attrs)>>, State("Live", attrs))
  BY <1>4, <1>5, MoveOne
<1>7. c \in Int /\ c <= c
  BY MaxTsAssumption DEF Cids
<1>8. Replays(Record(bare, c, <<Create(attrs)>>), State("Live", attrs))
  BY <1>2, <1>3, <1>4, <1>6, <1>7, RecordReplays, Zenon
<1>9. Record(bare, c, <<Create(attrs)>>) = NewLog(c, attrs)
  BY <1>2, Zenon DEF Record, NewLog
<1>10. QED
  BY <1>8, <1>9

-----------------------------------------------------------------------------
(***************************************************************************)
(* The inductive invariant of the contents: every changelog replays to its *)
(* entry, and directmemberof is exact outside the memberof worklist.       *)
(***************************************************************************)

AsItIs(e) == State(StateKind(e.attrs.class), e.attrs)

(* The changelog of e, whose greatest Cid is at most top, tells what e is. *)
Told(e, top) ==
  /\ e.log.anchorCid \in Int /\ e.log.anchorCid <= top
  /\ DOMAIN e.log.changes \subseteq Cids
  /\ \A d \in DOMAIN e.log.changes : d <= top /\ e.log.changes[d] \in Seq(Transitions)
  /\ Replays(e.log, AsItIs(e))

AllTold(es, top) == \A u \in DOMAIN es : Told(es[u], top)

(* directmemberof is exact, but for the entries in us. *)
Direct(es, us) ==
  \A u \in Live(es) \ us : es[u].attrs.directmemberof = GroupsOf(es, u)

CInv ==
  /\ AllTold(entries, tsMax) /\ Direct(entries, {})
  /\ AllTold(wEntries, Top) /\ Direct(wEntries, groupAffect)
  /\ DOMAIN entries \subseteq DOMAIN wEntries
  /\ cid = 0 => groupAffect = {} /\ dmMods = NoMods

-----------------------------------------------------------------------------
(* Changelogs and entries *)

(* A later greatest Cid does no harm. *)
LEMMA ToldLater ==
  ASSUME NEW es, NEW top \in Int, NEW top2 \in Int, top <= top2, AllTold(es, top)
  PROVE  AllTold(es, top2)
<1>1. SUFFICES ASSUME NEW u \in DOMAIN es PROVE Told(es[u], top2)
  BY DEF AllTold
<1>2. Told(es[u], top)
  BY DEF AllTold
<1>3. es[u].log.anchorCid <= top2
  BY <1>2 DEF Told
<1>4. ASSUME NEW d \in DOMAIN es[u].log.changes
      PROVE  d <= top2
  <2>1. d \in Int /\ d <= top
    BY <1>2, MaxTsAssumption DEF Told, Cids
  <2>2. QED
    BY <2>1
<1>5. QED
  BY <1>2, <1>3, <1>4 DEF Told

(* Recording the transitions that lead an entry from what it is to what it  *)
(* becomes, under the transaction's Cid.                                    *)
LEMMA RecordTold ==
  ASSUME NEW e, NEW top \in Int, NEW c \in Cids, top <= c, Told(e, top),
         NEW a, NEW ts \in Seq(Transitions),
         Moves(AsItIs(e), ts, State(StateKind(a.class), a)),
         NEW e2, e2.attrs = a, e2.log = Record(e.log, c, ts)
  PROVE  Told(e2, c)
<1>1. PICK log : log = e.log
  OBVIOUS
<1>2. /\ log.anchorCid \in Int /\ log.anchorCid <= top
      /\ DOMAIN log.changes \subseteq Cids
      /\ \A d \in DOMAIN log.changes : d <= top /\ log.changes[d] \in Seq(Transitions)
      /\ Replays(log, AsItIs(e))
  BY <1>1, Zenon DEF Told
<1>3. c \in Int /\ \A d \in Cids : d \in Int
  BY MaxTsAssumption DEF Cids
<1>4. log.anchorCid <= c /\ \A d \in DOMAIN log.changes : d <= c
  <2>1. log.anchorCid <= c
    BY <1>2, <1>3
  <2>2. ASSUME NEW d \in DOMAIN log.changes
        PROVE  d <= c
    <3>1. d \in Int /\ d <= top
      BY <1>2, <1>3, Zenon
    <3>2. QED
      BY <1>3, <3>1
  <2>3. QED
    BY <2>1, <2>2
<1>5. PICK rec : rec = Record(log, c, ts)
  OBVIOUS
<1>6. PICK st2 : st2 = State(StateKind(a.class), a)
  OBVIOUS
<1>7. Replays(rec, st2)
  <2>1. Replays(Record(log, c, ts), st2)
    BY <1>2, <1>4, <1>6, RecordReplays, Zenon
  <2>2. QED
    BY <1>5, <2>1
<1>8. /\ rec.anchorCid = log.anchorCid
      /\ DOMAIN rec.changes = DOMAIN log.changes \cup {c}
      /\ \A d \in DOMAIN rec.changes : rec.changes[d] =
           IF d \notin DOMAIN log.changes THEN ts
           ELSE IF d = c THEN log.changes[d] \o ts ELSE log.changes[d]
  BY <1>5, Zenon DEF Record
<1>9. ASSUME NEW d \in DOMAIN rec.changes
      PROVE  d <= c /\ rec.changes[d] \in Seq(Transitions)
  <2>1. CASE d \notin DOMAIN log.changes
    <3>1. d = c /\ rec.changes[d] = ts
      BY <1>8, <2>1
    <3>2. QED
      BY <1>3, <3>1
  <2>2. CASE d \in DOMAIN log.changes
    <3>1. log.changes[d] \in Seq(Transitions) /\ d <= c
      BY <1>2, <1>4, <2>2
    <3>2. log.changes[d] \o ts \in Seq(Transitions)
      BY <3>1
    <3>3. QED
      BY <1>8, <2>2, <3>1, <3>2, Zenon
  <2>3. QED
    BY <2>1, <2>2
<1>10. AsItIs(e2) = st2 /\ e2.log = rec
  BY <1>1, <1>5, <1>6 DEF AsItIs
<1>11. DOMAIN rec.changes \subseteq Cids
  BY <1>2, <1>8
<1>12. QED
  BY <1>2, <1>4, <1>7, <1>8, <1>9, <1>10, <1>11, Zenon DEF Told

(* The transitions ts lead the entry e to the attributes a. *)
Leads(e, ts, a) ==
  ts \in Seq(Transitions) /\ Moves(AsItIs(e), ts, State(StateKind(a.class), a))

(* The backend's modify, when the plugins record what they do. *)
LEMMA WriteTold ==
  ASSUME NEW es, NEW top \in Int, NEW c \in Cids, top <= c, AllTold(es, top),
         NEW us, us \subseteq DOMAIN es, NEW attrs, DOMAIN attrs = us, NEW ts,
         \A u \in us : Leads(es[u], ts[u], attrs[u])
  PROVE  AllTold(Write(es, c, attrs, ts), c)
<1>1. PICK es2 : es2 = Write(es, c, attrs, ts)
  OBVIOUS
<1>2. SUFFICES ASSUME NEW u \in DOMAIN es2 PROVE Told(es2[u], c)
  BY <1>1, Zenon DEF AllTold
<1>3. DOMAIN es2 = DOMAIN es
  BY <1>1 DEF Write
<1>4. CASE u \in us
  <2>1. es2[u].attrs = attrs[u] /\ es2[u].log = Record(es[u].log, c, ts[u])
    BY <1>1, <1>3, <1>4, Zenon DEF Write
  <2>2. Told(es[u], top) /\ Leads(es[u], ts[u], attrs[u])
    BY <1>3, <1>4 DEF AllTold
  <2>3. QED
    BY <2>1, <2>2, RecordTold, Zenon DEF Leads
<1>5. CASE u \notin us
  <2>1. es2[u] = es[u]
    BY <1>1, <1>3, <1>5, Zenon DEF Write
  <2>2. c \in Int
    BY MaxTsAssumption DEF Cids
  <2>3. AllTold(es, c)
    BY <2>2, ToldLater
  <2>4. QED
    BY <1>3, <2>1, <2>3 DEF AllTold
<1>6. QED
  BY <1>4, <1>5

-----------------------------------------------------------------------------
(* What each operation records leads the entries it writes to what they     *)
(* become.                                                                  *)

(* The transitions the server records are well-typed. *)
LEMMA TransitionTypes ==
  /\ \A attr \in AttrNames : ModifyPurge(attr) \in Transitions
  /\ \A attr \in AttrNames : \A vs \in SUBSET (Uuids \cup {"recycled", "tombstone"}) :
       /\ ModifyPresent(attr, vs) \in Transitions
       /\ ModifyRemoved(attr, vs) \in Transitions
       /\ ModifyAssert(attr, vs) \in Transitions
  /\ Recycle \in Transitions /\ Revive \in Transitions
  /\ \A a \in Attrs : Tombstone(a) \in Transitions
<1>1. ASSUME NEW attr \in AttrNames
      PROVE  ModifyPurge(attr) \in Transitions
  <2>1. ModifyPurge(attr) \in [op : {"ModifyPurge"}, attr : AttrNames]
    BY DEF ModifyPurge
  <2>2. QED
    BY <2>1, Zenon DEF Transitions
<1>2. ASSUME NEW attr \in AttrNames, NEW vs \in SUBSET (Uuids \cup {"recycled", "tombstone"})
      PROVE  /\ ModifyPresent(attr, vs) \in Transitions
             /\ ModifyRemoved(attr, vs) \in Transitions
             /\ ModifyAssert(attr, vs) \in Transitions
  <2> DEFINE Edits == [op : {"ModifyPresent", "ModifyRemoved", "ModifyAssert"},
                       attr : AttrNames,
                       values : SUBSET (Uuids \cup {"recycled", "tombstone"})]
  <2>1. ModifyPresent(attr, vs) \in Edits
    BY DEF ModifyPresent
  <2>2. ModifyRemoved(attr, vs) \in Edits
    BY DEF ModifyRemoved
  <2>3. ModifyAssert(attr, vs) \in Edits
    BY DEF ModifyAssert
  <2>4. Edits \subseteq Transitions
    BY Zenon DEF Transitions
  <2> HIDE DEF Edits
  <2>5. QED
    BY <2>1, <2>2, <2>3, <2>4
<1>3. Recycle \in Transitions /\ Revive \in Transitions
  <2>1. Recycle \in [op : {"Recycle", "Revive"}] /\ Revive \in [op : {"Recycle", "Revive"}]
    BY DEF Recycle, Revive
  <2>2. QED
    BY <2>1, Zenon DEF Transitions
<1>4. ASSUME NEW a \in Attrs
      PROVE  Tombstone(a) \in Transitions
  <2>1. Tombstone(a) \in [op : {"Create", "Tombstone"}, attrs : Attrs]
    BY DEF Tombstone
  <2>2. QED
    BY <2>1, Zenon DEF Transitions
<1>5. QED
  BY <1>1, <1>2, <1>3, <1>4, Zenon

(* Two and three transitions recorded one after another. *)
LEMMA Joined ==
  ASSUME NEW a \in Transitions, NEW b \in Transitions
  PROVE  <<a>> \o <<b>> = <<a, b>> /\ <<a, b>> \in Seq(Transitions)
<1>1. <<a>> \o <<b>> \in Seq(Transitions)
  OBVIOUS
<1>2. PICK x \in Seq(Transitions) : x = <<a>> \o <<b>>
  BY <1>1, Zenon
<1>3. Len(x) = 2 /\ x[1] = a /\ x[2] = b
  BY <1>2
<1>4. x = <<x[1], x[2]>>
  BY <1>3
<1>5. QED
  BY <1>2, <1>3, <1>4, Zenon

(* Three of them. *)
LEMMA JoinedThree ==
  ASSUME NEW a \in Transitions, NEW b \in Transitions, NEW c \in Transitions
  PROVE  /\ (<<a>> \o <<b>>) \o <<c>> = <<a, b, c>> /\ <<a, b, c>> \in Seq(Transitions)
         /\ <<a>> \o <<b>> \in Seq(Transitions)
<1>1. PICK y \in Seq(Transitions) : y = <<a>> \o <<b>>
  BY Joined, Zenon
<1>2. y \o <<c>> \in Seq(Transitions)
  OBVIOUS
<1>3. PICK x \in Seq(Transitions) : x = y \o <<c>>
  BY <1>2, Zenon
<1>4. Len(y) = 2 /\ y[1] = a /\ y[2] = b
  BY <1>1
<1>5. Len(x) = 3 /\ x[1] = a /\ x[2] = b /\ x[3] = c
  <2>1. x = Append(y, c)
    BY <1>3
  <2>2. Len(x) = 3 /\ x[3] = c
    <3>1. Len(x) = Len(y) + 1 /\ x[Len(y) + 1] = c
      BY <2>1
    <3>2. Len(y) + 1 = 3
      BY <1>4
    <3>3. QED
      BY <3>1, <3>2
  <2>3. x[1] = y[1] /\ x[2] = y[2]
    BY <1>4, <2>1
  <2>4. QED
    BY <1>4, <2>2, <2>3
<1>6. x = <<x[1], x[2], x[3]>>
  BY <1>5
<1>7. QED
  BY <1>1, <1>3, <1>5, <1>6, Zenon

(* A purge of an attribute is accepted of a live and of a recycled entry. *)
LEMMA MovePurge ==
  ASSUME NEW kind \in {"Live", "Recycled"}, NEW a, NEW attr \in AttrNames
  PROVE  Moves(State(kind, a), <<ModifyPurge(attr)>>, State(kind, [a EXCEPT ![attr] = {}]))
<1>1. ModifyPurge(attr) \in Transitions
  BY TransitionTypes
<1>2. Accepts(State(kind, a), ModifyPurge(attr))
  BY DEF Accepts, State, ModifyPurge
<1>3. After(State(kind, a), ModifyPurge(attr)) = State(kind, [a EXCEPT ![attr] = {}])
  BY Zenon DEF After, State, ModifyPurge, Modified
<1>4. QED
  BY <1>1, <1>2, <1>3, MoveOne

(* So is the removal of values. *)
LEMMA MoveRemoved ==
  ASSUME NEW kind \in {"Live", "Recycled"}, NEW a, NEW attr \in AttrNames,
         NEW vs \in SUBSET (Uuids \cup {"recycled", "tombstone"})
  PROVE  Moves(State(kind, a), <<ModifyRemoved(attr, vs)>>,
               State(kind, [a EXCEPT ![attr] = @ \ vs]))
<1>1. ModifyRemoved(attr, vs) \in Transitions
  BY TransitionTypes
<1>2. Accepts(State(kind, a), ModifyRemoved(attr, vs))
  BY DEF Accepts, State, ModifyRemoved
<1>3. After(State(kind, a), ModifyRemoved(attr, vs)) = State(kind, [a EXCEPT ![attr] = @ \ vs])
  BY Zenon DEF After, State, ModifyRemoved, Modified
<1>4. QED
  BY <1>1, <1>2, <1>3, MoveOne

(* Values are only added to a live entry. *)
LEMMA MovePresent ==
  ASSUME NEW a, NEW attr \in AttrNames, NEW vs \in SUBSET (Uuids \cup {"recycled", "tombstone"})
  PROVE  Moves(State("Live", a), <<ModifyPresent(attr, vs)>>,
               State("Live", [a EXCEPT ![attr] = @ \cup vs]))
<1>1. ModifyPresent(attr, vs) \in Transitions
  BY TransitionTypes
<1>2. Accepts(State("Live", a), ModifyPresent(attr, vs))
  BY DEF Accepts, State, ModifyPresent
<1>3. After(State("Live", a), ModifyPresent(attr, vs)) =
        State("Live", [a EXCEPT ![attr] = @ \cup vs])
  BY Zenon DEF After, State, ModifyPresent, Modified
<1>4. QED
  BY <1>1, <1>2, <1>3, MoveOne

(* An assertion that holds moves nothing. *)
LEMMA MoveAssert ==
  ASSUME NEW a, NEW attr \in AttrNames, NEW vs \in SUBSET (Uuids \cup {"recycled", "tombstone"}),
         vs \subseteq a[attr]
  PROVE  Moves(State("Live", a), <<ModifyAssert(attr, vs)>>, State("Live", a))
<1>1. ModifyAssert(attr, vs) \in Transitions
  BY TransitionTypes
<1>2. Accepts(State("Live", a), ModifyAssert(attr, vs))
  BY DEF Accepts, State, ModifyAssert
<1>3. After(State("Live", a), ModifyAssert(attr, vs)) = State("Live", a)
  BY Zenon DEF After, State, ModifyAssert, Modified
<1>4. QED
  BY <1>1, <1>2, <1>3, MoveOne

(* What an entry is, when it is live, recycled or a tombstone. *)
LEMMA KindOf ==
  /\ StateKind({}) = "Live" /\ StateKind({"recycled"}) = "Recycled"
  /\ StateKind({"tombstone"}) = "Tombstone"
  /\ \A class : "tombstone" \in class <=> StateKind(class) = "Tombstone"
BY DEF StateKind

(* A modification of member leads a live entry to its modified attributes. *)
LEMMA ModifyLeads ==
  ASSUME NEW e, e.attrs \in Attrs, e.attrs.class = {}, NEW m \in Mods,
         m.op = "ModifyAssert" => m.values \subseteq e.attrs.member
  PROVE  Leads(e, <<m>>, Modified(e.attrs, m))
<1>1. PICK a \in Attrs : a = e.attrs
  OBVIOUS
<1>2. AsItIs(e) = State("Live", a)
  BY <1>1, KindOf DEF AsItIs
<1>3. Modified(a, m).class = {}
  BY <1>1, ModifiedType
<1>4. "member" \in AttrNames
  BY DEF AttrNames
<1>5. CASE m = ModifyPurge("member")
  <2>1. Modified(a, m) = [a EXCEPT !["member"] = {}]
    BY <1>5, Zenon DEF Modified, ModifyPurge
  <2>2. Moves(State("Live", a), <<m>>, State("Live", Modified(a, m)))
    BY <1>4, <1>5, <2>1, MovePurge
  <2>3. m \in Transitions
    BY <1>4, <1>5, TransitionTypes
  <2>4. QED
    BY <1>1, <1>2, <1>3, <2>2, <2>3, KindOf DEF Leads
<1>6. ASSUME NEW v \in Uuids, m = ModifyPresent("member", {v})
      PROVE  Leads(e, <<m>>, Modified(e.attrs, m))
  <2>0. {v} \in SUBSET (Uuids \cup {"recycled", "tombstone"})
    OBVIOUS
  <2>1. Modified(a, m) = [a EXCEPT !["member"] = @ \cup {v}]
    BY <1>6, Zenon DEF Modified, ModifyPresent
  <2>2. Moves(State("Live", a), <<m>>, State("Live", Modified(a, m)))
    BY <1>4, <1>6, <2>0, <2>1, MovePresent
  <2>3. m \in Transitions
    BY <1>4, <1>6, <2>0, TransitionTypes
  <2>4. QED
    BY <1>1, <1>2, <1>3, <2>2, <2>3, KindOf DEF Leads
<1>7. ASSUME NEW v \in Uuids, m = ModifyRemoved("member", {v})
      PROVE  Leads(e, <<m>>, Modified(e.attrs, m))
  <2>0. {v} \in SUBSET (Uuids \cup {"recycled", "tombstone"})
    OBVIOUS
  <2>1. Modified(a, m) = [a EXCEPT !["member"] = @ \ {v}]
    BY <1>7, Zenon DEF Modified, ModifyRemoved
  <2>2. Moves(State("Live", a), <<m>>, State("Live", Modified(a, m)))
    BY <1>4, <1>7, <2>0, <2>1, MoveRemoved
  <2>3. m \in Transitions
    BY <1>4, <1>7, <2>0, TransitionTypes
  <2>4. QED
    BY <1>1, <1>2, <1>3, <2>2, <2>3, KindOf DEF Leads
<1>8. ASSUME NEW v \in Uuids, m = ModifyAssert("member", {v})
      PROVE  Leads(e, <<m>>, Modified(e.attrs, m))
  <2>0. {v} \in SUBSET (Uuids \cup {"recycled", "tombstone"})
    OBVIOUS
  <2>1. Modified(a, m) = a
    BY <1>8, Zenon DEF Modified, ModifyAssert
  <2>2. {v} \subseteq a["member"]
    BY <1>1, <1>8 DEF ModifyAssert
  <2>3. Moves(State("Live", a), <<m>>, State("Live", Modified(a, m)))
    BY <1>4, <1>8, <2>0, <2>1, <2>2, MoveAssert
  <2>4. m \in Transitions
    BY <1>4, <1>8, <2>0, TransitionTypes
  <2>5. QED
    BY <1>1, <1>2, <1>3, <2>3, <2>4, KindOf DEF Leads
<1>9. QED
  BY <1>5, <1>6, <1>7, <1>8, ModsAssumption, Zenon DEF MemberMods

(* to_recycled. *)
LEMMA RecycleLeads ==
  ASSUME NEW e, e.attrs \in Attrs, e.attrs.class = {}
  PROVE  Leads(e, RecycleTransitions, [e.attrs EXCEPT !.class = {"recycled"}])
<1>1. PICK a \in Attrs : a = e.attrs
  OBVIOUS
<1>2. PICK b : b = [a EXCEPT !["class"] = @ \cup {"recycled"}]
  BY Zenon
<1>3. b = [a EXCEPT !.class = {"recycled"}] /\ b.class = {"recycled"} /\ a.class = {}
  BY <1>1, <1>2 DEF Attrs
<1>4. "class" \in AttrNames /\ {"recycled"} \in SUBSET (Uuids \cup {"recycled", "tombstone"})
  BY DEF AttrNames
<1>5. Moves(State("Live", a), <<ModifyPresent("class", {"recycled"})>>, State("Live", b))
  BY <1>2, <1>4, MovePresent, Zenon
<1>6. Moves(State("Live", b), <<Recycle>>, State("Recycled", b))
  <2>1. Accepts(State("Live", b), Recycle)
    BY DEF Accepts, State, Recycle
  <2>2. After(State("Live", b), Recycle) = State("Recycled", b)
    BY Zenon DEF After, State, Recycle
  <2>3. QED
    BY <2>1, <2>2, TransitionTypes, MoveOne
<1>7. /\ <<ModifyPresent("class", {"recycled"})>> \in Seq(Transitions)
      /\ <<Recycle>> \in Seq(Transitions)
  BY <1>4, TransitionTypes
<1>8. /\ RecycleTransitions = <<ModifyPresent("class", {"recycled"})>> \o <<Recycle>>
      /\ RecycleTransitions \in Seq(Transitions)
  BY <1>7 DEF RecycleTransitions
<1>9. Moves(State("Live", a), RecycleTransitions, State("Recycled", b))
  BY <1>5, <1>6, <1>7, <1>8, MoveOn
<1>10. AsItIs(e) = State("Live", a) /\ State(StateKind(b.class), b) = State("Recycled", b)
  BY <1>1, <1>3, KindOf DEF AsItIs
<1>11. QED
  BY <1>1, <1>3, <1>8, <1>9, <1>10 DEF Leads

(* to_revived. *)
LEMMA ReviveLeads ==
  ASSUME NEW e, e.attrs \in Attrs, e.attrs.class = {"recycled"}
  PROVE  Leads(e, <<ModifyRemoved("class", {"recycled"}), Revive>>,
               [e.attrs EXCEPT !.class = @ \ {"recycled"}])
<1> DEFINE t == ModifyRemoved("class", {"recycled"})
<1>1. PICK a \in Attrs : a = e.attrs
  OBVIOUS
<1>2. PICK b : b = [a EXCEPT !["class"] = @ \ {"recycled"}]
  BY Zenon
<1>3. b = [a EXCEPT !.class = @ \ {"recycled"}] /\ b.class = {}
  BY <1>1, <1>2 DEF Attrs
<1>4. "class" \in AttrNames /\ {"recycled"} \in SUBSET (Uuids \cup {"recycled", "tombstone"})
  BY DEF AttrNames
<1>5. Moves(State("Recycled", a), <<t>>, State("Recycled", b))
  BY <1>2, <1>4, MoveRemoved, Zenon
<1>6. Moves(State("Recycled", b), <<Revive>>, State("Live", b))
  <2>1. Accepts(State("Recycled", b), Revive)
    BY DEF Accepts, State, Revive
  <2>2. After(State("Recycled", b), Revive) = State("Live", b)
    BY Zenon DEF After, State, Revive
  <2>3. QED
    BY <2>1, <2>2, TransitionTypes, MoveOne
<1>7. t \in Transitions /\ <<t>> \in Seq(Transitions) /\ <<Revive>> \in Seq(Transitions)
  BY <1>4, TransitionTypes
<1> HIDE DEF t
<1>8. <<t, Revive>> = <<t>> \o <<Revive>> /\ <<t, Revive>> \in Seq(Transitions)
  BY <1>7, TransitionTypes, Joined
<1>9. Moves(State("Recycled", a), <<t, Revive>>, State("Live", b))
  BY <1>5, <1>6, <1>7, <1>8, MoveOn, Zenon
<1>10. AsItIs(e) = State("Recycled", a) /\ State(StateKind(b.class), b) = State("Live", b)
  BY <1>1, <1>3, KindOf DEF AsItIs
<1>11. QED
  BY <1>1, <1>3, <1>8, <1>9, <1>10 DEF Leads, t

(* What refint removes from an entry that is not a tombstone. *)
LEMMA RemovalLeads ==
  ASSUME NEW e, e.attrs \in Attrs, "tombstone" \notin e.attrs.class, NEW us \in SUBSET Uuids
  PROVE  Leads(e, <<ModifyRemoved("member", us), ModifyRemoved("memberof", us),
                    ModifyRemoved("directmemberof", us)>>,
               [e.attrs EXCEPT !.member = @ \ us, !.memberof = @ \ us,
                               !.directmemberof = @ \ us])
<1> DEFINE t1 == ModifyRemoved("member", us)
           t2 == ModifyRemoved("memberof", us)
           t3 == ModifyRemoved("directmemberof", us)
<1>1. PICK a \in Attrs : a = e.attrs
  OBVIOUS
<1>2. PICK b : b = [a EXCEPT !["member"] = @ \ us]
  BY Zenon
<1>3. PICK c : c = [b EXCEPT !["memberof"] = @ \ us]
  BY Zenon
<1>4. PICK d : d = [c EXCEPT !["directmemberof"] = @ \ us]
  BY Zenon
<1>5. d = [a EXCEPT !.member = @ \ us, !.memberof = @ \ us, !.directmemberof = @ \ us]
  BY <1>2, <1>3, <1>4, Zenon
<1>6. b.class = a.class /\ c.class = a.class /\ d.class = a.class
  BY <1>2, <1>3, <1>4 DEF Attrs
<1>7. PICK kind \in {"Live", "Recycled"} : kind = StateKind(a.class)
  BY <1>1 DEF StateKind
<1>8. /\ {"member", "memberof", "directmemberof"} \subseteq AttrNames
      /\ us \in SUBSET (Uuids \cup {"recycled", "tombstone"})
  BY DEF AttrNames
<1>9. /\ Moves(State(kind, a), <<t1>>, State(kind, b))
      /\ Moves(State(kind, b), <<t2>>, State(kind, c))
      /\ Moves(State(kind, c), <<t3>>, State(kind, d))
  BY <1>2, <1>3, <1>4, <1>8, MoveRemoved, Zenon
<1>10. t1 \in Transitions /\ t2 \in Transitions /\ t3 \in Transitions
  BY <1>8, TransitionTypes
<1> HIDE DEF t1, t2, t3
<1>11. /\ <<t1, t2, t3>> = (<<t1>> \o <<t2>>) \o <<t3>> /\ <<t1, t2, t3>> \in Seq(Transitions)
       /\ <<t1>> \o <<t2>> \in Seq(Transitions)
       /\ <<t1>> \in Seq(Transitions) /\ <<t2>> \in Seq(Transitions) /\ <<t3>> \in Seq(Transitions)
  <2>1. /\ <<t1>> \in Seq(Transitions) /\ <<t2>> \in Seq(Transitions)
        /\ <<t3>> \in Seq(Transitions)
    BY <1>10
  <2>2. QED
    BY <1>10, <2>1, JoinedThree, Zenon
<1>12. Moves(State(kind, a), <<t1>> \o <<t2>>, State(kind, c))
  BY <1>9, <1>11, MoveOn, Zenon
<1>13. Moves(State(kind, a), (<<t1>> \o <<t2>>) \o <<t3>>, State(kind, d))
  BY <1>9, <1>11, <1>12, MoveOn, Zenon
<1>14. AsItIs(e) = State(kind, a) /\ State(StateKind(d.class), d) = State(kind, d)
  BY <1>1, <1>6, <1>7 DEF AsItIs
<1>15. QED
  BY <1>1, <1>5, <1>11, <1>13, <1>14, Zenon DEF Leads, t1, t2, t3

(* to_tombstone. *)
LEMMA TombstoneLeads ==
  ASSUME NEW e, e.attrs.class = {"recycled"}
  PROVE  Leads(e, <<Tombstone(TombstoneAttrs)>>, TombstoneAttrs)
<1>1. PICK a : a = e.attrs
  OBVIOUS
<1>2. TombstoneAttrs \in Attrs /\ TombstoneAttrs.class = {"tombstone"}
  BY DEF TombstoneAttrs, Attrs
<1>3. Tombstone(TombstoneAttrs) \in Transitions
  BY <1>2, TransitionTypes
<1>4. Accepts(State("Recycled", a), Tombstone(TombstoneAttrs))
  BY DEF Accepts, State, Tombstone
<1>5. After(State("Recycled", a), Tombstone(TombstoneAttrs)) = State("Tombstone", TombstoneAttrs)
  BY Zenon DEF After, State, Tombstone
<1>6. Moves(State("Recycled", a), <<Tombstone(TombstoneAttrs)>>, State("Tombstone", TombstoneAttrs))
  BY <1>3, <1>4, <1>5, MoveOne
<1>7. AsItIs(e) = State("Recycled", a)
  BY <1>1, KindOf DEF AsItIs
<1>8. QED
  BY <1>2, <1>3, <1>6, <1>7, KindOf DEF Leads

(* No transitions move nothing. *)
LEMMA MoveNothing ==
  ASSUME NEW st
  PROVE  Moves(st, <<>>, st)
<1>1. \A a \in Seq(Transitions) : a \o <<>> = a
  OBVIOUS
<1>2. QED
  BY <1>1, Zenon DEF Moves

(* An attribute that is purged and then given values, if there are any. *)
LEMMA MoveReset ==
  ASSUME NEW a \in Attrs, NEW attr \in {"memberof", "directmemberof"}, a[attr] = {},
         NEW vs \in SUBSET Uuids, NEW ts,
         ts = IF vs = {} THEN <<>> ELSE <<ModifyPurge(attr), ModifyPresent(attr, vs)>>
  PROVE  ts \in Seq(Transitions) /\ Moves(State("Live", a), ts, State("Live", [a EXCEPT ![attr] = vs]))
<1>1. CASE vs = {}
  <2>1. [a EXCEPT ![attr] = vs] = a
    BY <1>1 DEF Attrs
  <2>2. ts = <<>> /\ <<>> \in Seq(Transitions)
    BY <1>1
  <2>3. QED
    BY <2>1, <2>2, MoveNothing
<1>2. CASE vs # {}
  <2>1. attr \in AttrNames /\ vs \in SUBSET (Uuids \cup {"recycled", "tombstone"})
    BY DEF AttrNames
  <2>2. PICK b : b = [a EXCEPT ![attr] = {}]
    BY Zenon
  <2>3. PICK c : c = [b EXCEPT ![attr] = @ \cup vs]
    BY Zenon
  <2>4. c = [a EXCEPT ![attr] = vs]
    BY <2>2, <2>3, Zenon DEF Attrs
  <2>5. Moves(State("Live", a), <<ModifyPurge(attr)>>, State("Live", b))
    BY <2>1, <2>2, MovePurge, Zenon
  <2>6. Moves(State("Live", b), <<ModifyPresent(attr, vs)>>, State("Live", c))
    BY <2>1, <2>3, MovePresent, Zenon
  <2>7. ModifyPurge(attr) \in Transitions /\ ModifyPresent(attr, vs) \in Transitions
    BY <2>1, TransitionTypes, Zenon
  <2>8. /\ ts = <<ModifyPurge(attr)>> \o <<ModifyPresent(attr, vs)>>
        /\ ts \in Seq(Transitions)
    BY <1>2, <2>7, Joined, Zenon
  <2>9. <<ModifyPurge(attr)>> \in Seq(Transitions) /\ <<ModifyPresent(attr, vs)>> \in Seq(Transitions)
    BY <2>7
  <2>10. Moves(State("Live", a), ts, State("Live", c))
    BY <2>5, <2>6, <2>8, <2>9, MoveOn, Zenon
  <2>11. QED
    BY <2>4, <2>8, <2>10
<1>3. QED
  BY <1>1, <1>2

(* do_memberof: what the plugin records leads a live entry to its new       *)
(* memberof and directmemberof.                                             *)
LEMMA MemberOfLeads ==
  ASSUME NEW e, e.attrs \in Attrs, e.attrs.class = {},
         NEW d \in SUBSET Uuids, NEW m \in SUBSET Uuids, NEW b,
         b = [e.attrs EXCEPT !.directmemberof = d, !.memberof = m]
  PROVE  Leads(e, MemberOfTransitions(b), b)
<1>1. PICK a \in Attrs : a = e.attrs
  OBVIOUS
<1>2. PICK a1 : a1 = [a EXCEPT !["memberof"] = {}]
  BY Zenon
<1>3. PICK a2 : a2 = [a1 EXCEPT !["directmemberof"] = {}]
  BY Zenon
<1>4. PICK a3 : a3 = [a2 EXCEPT !["directmemberof"] = d]
  BY Zenon
<1>5. /\ b = [a3 EXCEPT !["memberof"] = m]
      /\ b.class = {} /\ b.directmemberof = d /\ b.memberof = m
  BY <1>1, <1>2, <1>3, <1>4, Zenon DEF Attrs
<1>6. a2 \in Attrs /\ a3 \in Attrs /\ a2["directmemberof"] = {} /\ a3["memberof"] = {}
  BY <1>1, <1>2, <1>3, <1>4 DEF Attrs
<1> DEFINE p1 == <<ModifyPurge("memberof")>>
           p2 == <<ModifyPurge("directmemberof")>>
           q == IF d = {} THEN <<>>
                ELSE <<ModifyPurge("directmemberof"), ModifyPresent("directmemberof", d)>>
           r == IF m = {} THEN <<>>
                ELSE <<ModifyPurge("memberof"), ModifyPresent("memberof", m)>>
<1>7. /\ "memberof" \in AttrNames /\ "directmemberof" \in AttrNames
  BY DEF AttrNames
<1>8. /\ ModifyPurge("memberof") \in Transitions /\ ModifyPurge("directmemberof") \in Transitions
      /\ p1 \in Seq(Transitions) /\ p2 \in Seq(Transitions)
      /\ <<ModifyPurge("memberof"), ModifyPurge("directmemberof")>> = p1 \o p2
      /\ p1 \o p2 \in Seq(Transitions)
  <2>1. ModifyPurge("memberof") \in Transitions /\ ModifyPurge("directmemberof") \in Transitions
    BY <1>7, TransitionTypes
  <2>2. p1 \in Seq(Transitions) /\ p2 \in Seq(Transitions)
    BY <2>1
  <2>3. QED
    BY <2>1, <2>2, Joined, Zenon
<1>9. Moves(State("Live", a), p1, State("Live", a1))
  BY <1>2, <1>7, MovePurge, Zenon
<1>10. Moves(State("Live", a1), p2, State("Live", a2))
  BY <1>3, <1>7, MovePurge, Zenon
<1>11. q \in Seq(Transitions) /\ Moves(State("Live", a2), q, State("Live", a3))
  BY <1>4, <1>6, MoveReset, Zenon
<1>12. r \in Seq(Transitions) /\ Moves(State("Live", a3), r, State("Live", b))
  BY <1>5, <1>6, MoveReset, Zenon
<1>13. MemberOfTransitions(b) = ((p1 \o p2) \o q) \o r
  BY <1>5, <1>8, Zenon DEF MemberOfTransitions
<1> HIDE DEF p1, p2, q, r
<1>14. Moves(State("Live", a), p1 \o p2, State("Live", a2))
  BY <1>8, <1>9, <1>10, MoveOn, Zenon
<1>15. (p1 \o p2) \o q \in Seq(Transitions) /\ ((p1 \o p2) \o q) \o r \in Seq(Transitions)
  BY <1>8, <1>11, <1>12
<1>16. Moves(State("Live", a), (p1 \o p2) \o q, State("Live", a3))
  BY <1>8, <1>11, <1>14, MoveOn, Zenon
<1>17. Moves(State("Live", a), ((p1 \o p2) \o q) \o r, State("Live", b))
  BY <1>12, <1>15, <1>16, MoveOn, Zenon
<1>18. AsItIs(e) = State("Live", a) /\ State(StateKind(b.class), b) = State("Live", b)
  BY <1>1, <1>5, KindOf DEF AsItIs
<1>19. QED
  BY <1>13, <1>15, <1>17, <1>18, Zenon DEF Leads

-----------------------------------------------------------------------------
(* Changelogs that are made anew or trimmed. *)

(* A created entry's changelog tells of its creation. *)
LEMMA NewTold ==
  ASSUME NEW c \in Cids, NEW e, e.attrs \in Attrs, e.attrs.class = {},
         e.log = NewLog(c, e.attrs)
  PROVE  Told(e, c)
<1>1. PICK a \in Attrs : a = e.attrs
  OBVIOUS
<1>2. PICK log : log = NewLog(c, a)
  OBVIOUS
<1>3. /\ log.anchorCid = c /\ DOMAIN log.changes = {c} /\ log.changes[c] = <<Create(a)>>
  BY <1>2 DEF NewLog
<1>4. c \in Int /\ c <= c
  BY MaxTsAssumption DEF Cids
<1>5. Create(a) \in Transitions
  <2>1. Create(a) \in [op : {"Create", "Tombstone"}, attrs : Attrs]
    BY DEF Create
  <2>2. QED
    BY <2>1, Zenon DEF Transitions
<1>6. <<Create(a)>> \in Seq(Transitions)
  BY <1>5
<1>7. Replays(log, State("Live", a))
  BY <1>2, NewLogReplays
<1>8. AsItIs(e) = State("Live", a) /\ e.log = log
  BY <1>1, <1>2, KindOf DEF AsItIs
<1>9. QED
  BY <1>3, <1>4, <1>6, <1>7, <1>8, Zenon DEF Told

(* An entry read back from disk gets a changelog that tells what it is. *)
LEMMA ReloadTold ==
  ASSUME NEW e, Entry(e), NEW top \in Int, e.lmc <= top
  PROVE  Told(Reload(e), top)
<1>1. PICK f : f = Reload(e)
  OBVIOUS
<1>2. f.attrs = e.attrs /\ f.log = NewWithoutSchema(e.lmc, e.attrs)
  BY <1>1, Zenon DEF Reload
<1>3. e.attrs \in Attrs /\ e.lmc \in Cids /\ e.lmc \in Int
  BY MaxTsAssumption DEF Entry, Cids
<1>4. CASE e.attrs.class = {}
  <2>1. f.log = NewLog(e.lmc, f.attrs)
    BY <1>2, <1>4, Zenon DEF NewWithoutSchema
  <2>2. Told(f, e.lmc)
    BY <1>2, <1>3, <1>4, <2>1, NewTold
  <2>3. AllTold([u \in {0} |-> f], e.lmc)
    BY <2>2 DEF AllTold
  <2>4. AllTold([u \in {0} |-> f], top)
    BY <1>3, <2>3, ToldLater
  <2>5. QED
    BY <1>1, <2>4 DEF AllTold
<1>5. CASE e.attrs.class # {}
  <2>1. "tombstone" \in e.attrs.class \/ "recycled" \in e.attrs.class
    BY <1>3, <1>5 DEF Attrs
  <2>2. f.log = [anchorCid |-> e.lmc, anchor |-> AsItIs(f), changes |-> NoChanges]
    BY <1>2, <2>1, Zenon DEF NewWithoutSchema, AsItIs, StateKind
  <2>3. /\ f.log.anchorCid = e.lmc /\ f.log.anchor = AsItIs(f)
        /\ DOMAIN f.log.changes = {}
    BY <2>2 DEF NoChanges
  <2>4. Replays(f.log, AsItIs(f))
    BY <2>3, BareLogReplays, Zenon
  <2>5. QED
    BY <1>1, <1>3, <2>3, <2>4 DEF Told
<1>6. QED
  BY <1>4, <1>5

(* A database whose changelogs are reloaded, all or some. *)
LEMMA AllReloadTold ==
  ASSUME NEW es, NEW top \in Int, AllTold(es, top), CidsUpTo(es, top),
         \A u \in DOMAIN es : Entry(es[u]), NEW us, NEW es2,
         es2 = [v \in DOMAIN es |-> IF v \in us THEN Reload(es[v]) ELSE es[v]]
  PROVE  AllTold(es2, top)
<1>1. SUFFICES ASSUME NEW v \in DOMAIN es2 PROVE Told(es2[v], top)
  BY DEF AllTold
<1>2. v \in DOMAIN es /\ es[v].lmc <= top /\ Entry(es[v]) /\ Told(es[v], top)
  BY DEF CidsUpTo, AllTold
<1>3. CASE v \in us
  BY <1>2, <1>3, ReloadTold, Zenon
<1>4. CASE v \notin us
  BY <1>2, <1>4
<1>5. QED
  BY <1>3, <1>4

(* A trimmed changelog still tells what its entry is. *)
LEMMA TrimTold ==
  ASSUME NEW e, NEW top \in Int, Told(e, top), NEW top2 \in Int, top <= top2,
         NEW c \in 1..(MaxTs + 1), c <= top2, ~TrimPanics(e.log, c),
         NEW e2, e2.attrs = e.attrs, e2.log = TrimUpTo(e.log, c)
  PROVE  Told(e2, top2)
<1>1. PICK log : log = e.log
  OBVIOUS
<1>2. PICK trim : trim = TrimUpTo(log, c)
  OBVIOUS
<1>3. /\ log.anchorCid \in Int /\ DOMAIN log.changes \subseteq Cids
      /\ \A d \in DOMAIN log.changes : d <= top /\ log.changes[d] \in Seq(Transitions)
      /\ Replays(log, AsItIs(e))
  BY <1>1 DEF Told
<1>4. /\ trim.anchorCid = c
      /\ DOMAIN trim.changes = {d \in DOMAIN log.changes : c <= d}
      /\ \A d \in DOMAIN trim.changes : trim.changes[d] = log.changes[d]
  BY <1>2, Zenon DEF TrimUpTo
<1>5. Replays(trim, AsItIs(e))
  BY <1>1, <1>2, <1>3, TrimReplays
<1>6. ASSUME NEW d \in DOMAIN trim.changes
      PROVE  d <= top2 /\ trim.changes[d] \in Seq(Transitions)
  <2>1. d \in DOMAIN log.changes /\ d \in Cids
    BY <1>3, <1>4
  <2>2. d <= top /\ d \in Int
    BY <1>3, <2>1, MaxTsAssumption DEF Cids
  <2>3. QED
    BY <1>3, <1>4, <2>1, <2>2
<1>7. c \in Int /\ DOMAIN trim.changes \subseteq Cids
  BY <1>3, <1>4, MaxTsAssumption
<1>8. AsItIs(e2) = AsItIs(e) /\ e2.log = trim
  BY <1>1, <1>2 DEF AsItIs
<1>9. QED
  BY <1>4, <1>5, <1>6, <1>7, <1>8 DEF Told

(* What can_delete lets go is a tombstone. *)
LEMMA DeletableIsTombstone ==
  ASSUME NEW e, NEW top, Told(e, top), CanDelete(e.log)
  PROVE  "tombstone" \in e.attrs.class
<1>1. PICK log : log = e.log
  OBVIOUS
<1>2. DOMAIN log.changes = {} /\ log.anchor.kind = "Tombstone"
  BY <1>1 DEF CanDelete, IsLive
<1>3. Replays(log, log.anchor) /\ Replays(log, AsItIs(e))
  BY <1>1, <1>2, BareLogReplays DEF Told
<1>4. log.anchor = AsItIs(e)
  BY <1>3 DEF Replays
<1>5. AsItIs(e).kind = "Tombstone"
  BY <1>2, <1>4
<1>6. StateKind(e.attrs.class) = "Tombstone"
  BY <1>5 DEF AsItIs, State
<1>7. QED
  BY <1>6, KindOf

-----------------------------------------------------------------------------
(* directmemberof *)

(* What does not change the live entries or their attributes. *)
LEMMA SameDirect ==
  ASSUME NEW es, NEW es2, NEW us, Direct(es, us), Live(es2) = Live(es),
         \A u \in Live(es) : es2[u].attrs = es[u].attrs
  PROVE  Direct(es2, us)
<1>1. \A u : GroupsOf(es2, u) = GroupsOf(es, u)
  BY DEF GroupsOf
<1>2. QED
  BY <1>1 DEF Direct

(* What is not in post_modify_inner's affected set is as it was. *)
LEMMA ModifyDirect ==
  ASSUME NEW es, Direct(es, {}), NEW us, us \subseteq DOMAIN es, NEW es2,
         DOMAIN es2 = DOMAIN es, \A v \in DOMAIN es \ us : es2[v] = es[v]
  PROVE  Direct(es2, AffectedByModify(es, es2, us))
<1>1. SUFFICES ASSUME NEW u \in Live(es2) \ AffectedByModify(es, es2, us)
               PROVE  es2[u].attrs.directmemberof = GroupsOf(es2, u)
  BY DEF Direct
<1>2. /\ u \notin us
      /\ \A g \in us : u \notin es[g].attrs.member /\ u \notin es2[g].attrs.member
  BY DEF AffectedByModify, Members
<1>3. u \in Live(es) /\ es2[u] = es[u]
  BY <1>2 DEF Live, Class
<1>4. \A g : g \in GroupsOf(es2, u) <=> g \in GroupsOf(es, u)
  BY <1>2 DEF GroupsOf, Live, Class
<1>5. GroupsOf(es2, u) = GroupsOf(es, u)
  BY <1>4 DEF GroupsOf
<1>6. QED
  BY <1>3, <1>5 DEF Direct

-----------------------------------------------------------------------------
(* The invariant and the references, action by action. *)

(* An operation leaves the committed database alone. *)
LEMMA OpContents ==
  ASSUME CInv, cid # 0, entries' = entries, tsMax' = tsMax, cid' = cid,
         DOMAIN wEntries \subseteq DOMAIN wEntries',
         AllTold(wEntries', cid), Direct(wEntries', groupAffect')
  PROVE  CInv'
<1>1. Top' = cid'
  BY DEF Top
<1>2. QED
  BY <1>1 DEF CInv

(* What every operation may use. *)
LEMMA OpenFacts ==
  ASSUME IInv, CInv, cid # 0
  PROVE  /\ cid \in Cids /\ cid \in Int /\ cid <= cid /\ Top = cid
         /\ AllTold(wEntries, cid)
         /\ \A u \in DOMAIN wEntries : wEntries[u].attrs \in Attrs
         /\ DOMAIN wEntries \subseteq Uuids
         /\ BareTombstones(wEntries)
<1>1. cid \in Cids /\ cid \in Int /\ cid <= cid /\ Top = cid
  BY WorkingFacts DEF Cids, Top
<1>2. QED
  BY <1>1, WorkingFacts DEF CInv

(* modify_apply, when it keeps live what is live. *)
LEMMA ModifyApplyContents ==
  ASSUME IInv, CInv, cid # 0, groupAffect = {}, NEW us, us \subseteq DOMAIN wEntries,
         NEW attrs, DOMAIN attrs = us, NEW ts,
         \A u \in us : Leads(wEntries[u], ts[u], attrs[u]) /\ attrs[u].class = {},
         ModifyApply(us, attrs, ts), entries' = entries, tsMax' = tsMax, cid' = cid
  PROVE  CInv' /\ ReferencesKept
<1>1. /\ wEntries' = Write(wEntries, cid, attrs, ts)
      /\ groupAffect' = AffectedByModify(wEntries, wEntries', us)
  BY DEF ModifyApply, Put
<1>2. AllTold(wEntries', cid)
  BY <1>1, OpenFacts, WriteTold, Zenon
<1>3. /\ DOMAIN wEntries' = DOMAIN wEntries
      /\ \A v \in DOMAIN wEntries \ us : wEntries'[v] = wEntries[v]
      /\ \A v \in us : wEntries'[v].attrs = attrs[v]
  BY <1>1, Zenon DEF Write
<1>4. Direct(wEntries', groupAffect')
  <2>1. Direct(wEntries, {})
    BY DEF CInv
  <2>2. QED
    BY <1>1, <1>3, <2>1, ModifyDirect, Zenon
<1>5. Live(wEntries) \subseteq Live(wEntries')
  BY <1>3 DEF Live, Class
<1>6. ReferencesKept
  BY <1>5 DEF ReferencesKept
<1>7. QED
  BY <1>2, <1>3, <1>4, <1>6, OpContents

(* modify. *)
LEMMA ModifyContents ==
  ASSUME IInv, CInv, NEW us, NEW m \in Mods, Modify(us, m)
  PROVE  CInv' /\ ReferencesKept
<1> DEFINE attrs == [u \in us |-> Modified(wEntries[u].attrs, m)]
           ts    == [u \in us |-> <<m>>]
<1>1. /\ us \subseteq Live(wEntries) /\ us \subseteq DOMAIN wEntries
      /\ ModifyApply(us, attrs, ts)
      /\ entries' = entries /\ tsMax' = tsMax /\ cid' = cid
      /\ cid # 0 /\ groupAffect = {}
      /\ \A u \in us : m.op = "ModifyAssert" => m.values \subseteq wEntries[u].attrs.member
  BY DEF Modify, Live, committed, Operation, Ready
<1>2. ASSUME NEW u \in us
      PROVE  Leads(wEntries[u], ts[u], attrs[u]) /\ attrs[u].class = {}
  <2>1. wEntries[u].attrs \in Attrs /\ wEntries[u].attrs.class = {}
    BY <1>1, OpenFacts DEF Live, Class
  <2>2. Modified(wEntries[u].attrs, m).class = {}
    BY <2>1, ModifiedType
  <2>3. Leads(wEntries[u], <<m>>, Modified(wEntries[u].attrs, m))
    BY <1>1, <2>1, ModifyLeads
  <2>4. QED
    BY <2>2, <2>3
<1>3. DOMAIN attrs = us
  OBVIOUS
<1> HIDE DEF attrs, ts
<1>4. QED
  BY <1>1, <1>2, <1>3, ModifyApplyContents, Zenon

(* What is recycled has no other class. *)
LEMMA RecycledClass ==
  ASSUME NEW es, BareTombstones(es), NEW u \in Recycled(es), es[u].attrs \in Attrs
  PROVE  u \in DOMAIN es /\ es[u].attrs.class = {"recycled"}
<1>1. u \in DOMAIN es /\ "tombstone" \notin Class(es, u) /\ "recycled" \in Class(es, u)
  BY NotTombstones DEF Recycled
<1>2. QED
  BY <1>1 DEF Class, Attrs

(* revive_recycled, up to its modify_apply. *)
LEMMA ReviveEntriesContents ==
  ASSUME IInv, CInv, NEW us, ReviveEntries(us)
  PROVE  CInv' /\ ReferencesKept
<1> DEFINE attrs == [u \in us |-> [wEntries[u].attrs EXCEPT !.class = @ \ {"recycled"}]]
           ts    == [u \in us |-> <<ModifyRemoved("class", {"recycled"}), Revive>>]
<1>1. /\ us \subseteq Recycled(wEntries) /\ us \subseteq DOMAIN wEntries
      /\ ModifyApply(us, attrs, ts)
      /\ entries' = entries /\ tsMax' = tsMax /\ cid' = cid
      /\ cid # 0 /\ groupAffect = {}
  BY DEF ReviveEntries, Recycled, committed, Operation, Ready
<1>2. ASSUME NEW u \in us
      PROVE  Leads(wEntries[u], ts[u], attrs[u]) /\ attrs[u].class = {}
  <2>1. wEntries[u].attrs \in Attrs /\ wEntries[u].attrs.class = {"recycled"}
    BY <1>1, OpenFacts, RecycledClass
  <2>2. [wEntries[u].attrs EXCEPT !.class = @ \ {"recycled"}].class = {}
    BY <2>1 DEF Attrs
  <2>3. Leads(wEntries[u], <<ModifyRemoved("class", {"recycled"}), Revive>>,
              [wEntries[u].attrs EXCEPT !.class = @ \ {"recycled"}])
    BY <2>1, ReviveLeads, Zenon
  <2>4. QED
    BY <2>2, <2>3, Zenon
<1>3. DOMAIN attrs = us
  OBVIOUS
<1> HIDE DEF attrs, ts
<1>4. QED
  BY <1>1, <1>2, <1>3, ModifyApplyContents, Zenon

(* Restoring the members of one group. *)
LEMMA ReviveMembershipContents ==
  ASSUME IInv, CInv, NEW g \in Uuids, ReviveMembership(g)
  PROVE  CInv' /\ ReferencesKept
<1>1. /\ cid # 0 /\ groupAffect = {}
      /\ entries' = entries /\ tsMax' = tsMax /\ cid' = cid
  BY DEF ReviveMembership, committed
<1>2. CASE g \in DOMAIN wEntries
  <2> DEFINE attrs == [u \in {g} |-> [wEntries[g].attrs EXCEPT !.member = @ \cup dmMods[g]]]
             ts    == [u \in {g} |-> <<ModifyPresent("member", dmMods[g])>>]
  <2>1. g \in Live(wEntries) /\ ModifyApply({g}, attrs, ts)
    BY <1>2 DEF ReviveMembership
  <2>2. PICK a \in Attrs : a = wEntries[g].attrs
    BY <1>1, <1>2, OpenFacts
  <2>3. PICK vs : vs = dmMods[g]
    OBVIOUS
  <2>4. vs \in SUBSET (Uuids \cup {"recycled", "tombstone"}) /\ "member" \in AttrNames
    BY <2>3, WorkingFacts DEF AttrNames
  <2>5. PICK b : b = [a EXCEPT !["member"] = @ \cup vs]
    BY Zenon
  <2>6. a.class = {} /\ b.class = {}
    BY <2>1, <2>2, <2>5 DEF Live, Class, Attrs
  <2>7. Moves(State("Live", a), <<ModifyPresent("member", vs)>>, State("Live", b))
    BY <2>4, <2>5, MovePresent, Zenon
  <2>8. <<ModifyPresent("member", vs)>> \in Seq(Transitions)
    BY <2>4, TransitionTypes
  <2>9. AsItIs(wEntries[g]) = State("Live", a) /\ State(StateKind(b.class), b) = State("Live", b)
    BY <2>2, <2>6, KindOf DEF AsItIs
  <2>10. Leads(wEntries[g], <<ModifyPresent("member", vs)>>, b)
    BY <2>7, <2>8, <2>9 DEF Leads
  <2>11. attrs[g] = b /\ ts[g] = <<ModifyPresent("member", vs)>>
    BY <2>2, <2>3, <2>5, Zenon
  <2>12. \A u \in {g} : Leads(wEntries[u], ts[u], attrs[u]) /\ attrs[u].class = {}
    BY <2>6, <2>10, <2>11, Zenon
  <2>13. DOMAIN attrs = {g} /\ {g} \subseteq DOMAIN wEntries
    BY <1>2
  <2> HIDE DEF attrs, ts
  <2>14. QED
    BY <1>1, <2>1, <2>12, <2>13, ModifyApplyContents, Zenon
<1>3. CASE g \notin DOMAIN wEntries
  <2>1. wEntries' = wEntries /\ groupAffect' = groupAffect
    BY <1>3 DEF ReviveMembership
  <2>2. AllTold(wEntries', cid) /\ Direct(wEntries', groupAffect')
    BY <1>1, <2>1, OpenFacts DEF CInv
  <2>3. ReferencesKept
    BY <2>1 DEF ReferencesKept
  <2>4. QED
    BY <1>1, <2>1, <2>2, <2>3, OpContents
<1>4. QED
  BY <1>2, <1>3

(* One turn of apply_memberof's loop.  Every affected entry is recomputed   *)
(* and no member changes, so afterwards every directmemberof is exact.      *)
LEMMA StripeContents ==
  ASSUME IInv, CInv, Stripe
  PROVE  CInv' /\ ReferencesKept
<1> DEFINE workSet == groupAffect \cap Live(wEntries)
           changed == {u \in workSet : DoMemberOf(wEntries, u) # wEntries[u].attrs}
           attrs   == [u \in changed |-> DoMemberOf(wEntries, u)]
           ts      == [u \in changed |-> MemberOfTransitions(attrs[u])]
<1>1. /\ cid # 0 /\ cid' = cid /\ entries' = entries /\ tsMax' = tsMax
      /\ wEntries' = Write(wEntries, cid, attrs, ts)
  BY DEF Stripe, Put, committed
<1>2. changed \subseteq Live(wEntries) /\ changed \subseteq DOMAIN wEntries
  BY DEF Live
<1>3. ASSUME NEW u \in Live(wEntries)
      PROVE  /\ DoMemberOf(wEntries, u).class = {}
             /\ DoMemberOf(wEntries, u).member = wEntries[u].attrs.member
             /\ DoMemberOf(wEntries, u).directmemberof = GroupsOf(wEntries, u)
             /\ Leads(wEntries[u], MemberOfTransitions(DoMemberOf(wEntries, u)),
                      DoMemberOf(wEntries, u))
  <2> DEFINE dmo == GroupsOf(wEntries, u)
             mo  == dmo \cup UNION {wEntries[g].attrs.memberof : g \in dmo}
  <2>1. wEntries[u].attrs \in Attrs /\ wEntries[u].attrs.class = {}
    BY <1>1, OpenFacts DEF Live, Class
  <2>2. dmo \subseteq Uuids
    BY WorkingFacts DEF GroupsOf, Live
  <2>3. mo \subseteq Uuids
    <3>1. \A g \in dmo : wEntries[g].attrs.memberof \subseteq Uuids
      BY WorkingFacts DEF GroupsOf, Live, Attrs
    <3> HIDE DEF dmo
    <3>2. QED
      BY <2>2, <3>1
  <2>4. DoMemberOf(wEntries, u) =
          [wEntries[u].attrs EXCEPT !.directmemberof = dmo, !.memberof = mo]
    BY Zenon DEF DoMemberOf
  <2> HIDE DEF dmo, mo
  <2>5. PICK b : b = DoMemberOf(wEntries, u)
    OBVIOUS
  <2>6. Leads(wEntries[u], MemberOfTransitions(b), b)
    BY <2>1, <2>2, <2>3, <2>4, <2>5, MemberOfLeads, Zenon
  <2>7. b.class = {} /\ b.member = wEntries[u].attrs.member /\ b.directmemberof = dmo
    BY <2>1, <2>4, <2>5 DEF Attrs
  <2>8. QED
    BY <2>5, <2>6, <2>7, Zenon DEF dmo
<1>4. /\ DOMAIN wEntries' = DOMAIN wEntries
      /\ \A v \in DOMAIN wEntries \ changed : wEntries'[v] = wEntries[v]
      /\ \A v \in changed : wEntries'[v].attrs = DoMemberOf(wEntries, v)
  BY <1>1, <1>2, Zenon DEF Write
<1>5. AllTold(wEntries', cid)
  <2>1. \A u \in changed : Leads(wEntries[u], ts[u], attrs[u])
    BY <1>2, <1>3, Zenon
  <2>2. DOMAIN attrs = changed
    OBVIOUS
  <2> HIDE DEF changed, attrs, ts
  <2>3. QED
    BY <1>1, <1>2, <2>1, <2>2, OpenFacts, WriteTold, Zenon
<1>6. ASSUME NEW u \in DOMAIN wEntries
      PROVE  /\ Class(wEntries', u) = Class(wEntries, u)
             /\ wEntries'[u].attrs.member = wEntries[u].attrs.member
  <2>1. CASE u \in changed
    <3>1. Class(wEntries, u) = {} /\ u \in Live(wEntries)
      BY <1>2, <2>1 DEF Live
    <3>2. QED
      BY <1>3, <1>4, <2>1, <3>1 DEF Class
  <2>2. CASE u \notin changed
    BY <1>4, <2>2 DEF Class
  <2>3. QED
    BY <2>1, <2>2
<1>7. Live(wEntries') = Live(wEntries)
  BY <1>4, <1>6 DEF Live
<1>8. \A u : GroupsOf(wEntries', u) = GroupsOf(wEntries, u)
  BY <1>6, <1>7 DEF GroupsOf, Live
<1>9. Direct(wEntries', groupAffect')
  <2>1. ASSUME NEW u \in Live(wEntries)
        PROVE  wEntries'[u].attrs.directmemberof = GroupsOf(wEntries, u)
    <3>1. CASE u \in changed
      BY <1>3, <1>4, <3>1
    <3>2. CASE u \in workSet /\ u \notin changed
      <4>1. wEntries[u].attrs = DoMemberOf(wEntries, u) /\ wEntries'[u] = wEntries[u]
        BY <1>4, <3>2 DEF Live
      <4>2. QED
        BY <1>3, <4>1
    <3>3. CASE u \notin workSet
      <4>1. wEntries'[u] = wEntries[u] /\ u \notin groupAffect
        BY <1>4, <3>3 DEF Live
      <4>2. QED
        BY <4>1 DEF CInv, Direct
    <3>4. QED
      BY <3>1, <3>2, <3>3
  <2>2. QED
    BY <1>7, <1>8, <2>1 DEF Direct
<1>10. ReferencesKept
  BY <1>7 DEF ReferencesKept
<1>11. QED
  BY <1>1, <1>4, <1>5, <1>9, <1>10, OpContents, Zenon

(* create. *)
LEMMA CreateContents ==
  ASSUME IInv, CInv, NEW u \in Uuids, NEW members \in SUBSET Uuids, CreateEntry(u, members)
  PROVE  CInv' /\ ReferencesKept
<1> DEFINE attrs == [class |-> {}, member |-> members, memberof |-> {}, directmemberof |-> {}]
           new   == [id |-> wMaxId + 1, attrs |-> attrs, lmc |-> cid, log |-> NewLog(cid, attrs)]
<1>1. /\ wEntries' = [v \in DOMAIN wEntries \cup {u} |-> IF v = u THEN new ELSE wEntries[v]]
      /\ u \notin DOMAIN wEntries /\ cid # 0 /\ groupAffect = {}
      /\ groupAffect' = {u} \cup members
      /\ entries' = entries /\ tsMax' = tsMax /\ cid' = cid
  BY Zenon DEF CreateEntry, Put, committed, Operation, Ready
<1>2. /\ new.attrs \in Attrs /\ new.attrs.class = {} /\ new.attrs.member = members
      /\ new.log = NewLog(cid, new.attrs)
  BY Zenon DEF Attrs
<1> HIDE DEF new
<1>3. /\ DOMAIN wEntries' = DOMAIN wEntries \cup {u} /\ wEntries'[u] = new
      /\ \A v \in DOMAIN wEntries : wEntries'[v] = wEntries[v]
  BY <1>1
<1>4. AllTold(wEntries', cid)
  <2>1. Told(new, cid)
    BY <1>1, <1>2, OpenFacts, NewTold
  <2>2. AllTold(wEntries, cid)
    BY <1>1, OpenFacts
  <2>3. QED
    BY <1>3, <2>1, <2>2 DEF AllTold
<1>5. Direct(wEntries', groupAffect')
  <2>1. SUFFICES ASSUME NEW v \in Live(wEntries') \ ({u} \cup members)
                 PROVE  wEntries'[v].attrs.directmemberof = GroupsOf(wEntries', v)
    BY <1>1 DEF Direct
  <2>2. v \in Live(wEntries) /\ wEntries'[v] = wEntries[v]
    BY <1>3 DEF Live, Class
  <2>3. \A g : g \in GroupsOf(wEntries', v) <=> g \in GroupsOf(wEntries, v)
    BY <1>1, <1>2, <1>3 DEF GroupsOf, Live, Class
  <2>4. GroupsOf(wEntries', v) = GroupsOf(wEntries, v)
    BY <2>3 DEF GroupsOf
  <2>5. QED
    BY <1>1, <2>2, <2>4 DEF CInv, Direct
<1>6. Live(wEntries) \subseteq Live(wEntries')
  BY <1>3 DEF Live, Class
<1>7. ReferencesKept
  BY <1>6 DEF ReferencesKept
<1>8. QED
  BY <1>1, <1>3, <1>4, <1>5, <1>7, OpContents

(* delete, with refint's post_delete.  The groups that go are named in no   *)
(* directmemberof but their members', which are affected; and the clean-up  *)
(* reaches every entry that names what goes.                                *)
LEMMA DeleteContents ==
  ASSUME IInv, CInv, NEW us \in SUBSET Uuids, Delete(us)
  PROVE  CInv' /\ ReferencesKept
<1> DEFINE toRecycled == [u \in us |-> [wEntries[u].attrs EXCEPT !.class = {"recycled"}]]
           rts == [u \in us |-> RecycleTransitions]
           recycled == Write(wEntries, cid, toRecycled, rts)
           referrers == Referrers(recycled, us)
           cleaned == [u \in referrers |->
                         [recycled[u].attrs EXCEPT !.member = @ \ us,
                                                   !.memberof = @ \ us,
                                                   !.directmemberof = @ \ us]]
           removal == <<ModifyRemoved("member", us), ModifyRemoved("memberof", us),
                        ModifyRemoved("directmemberof", us)>>
           cts == [u \in referrers |-> removal]
           final == Write(recycled, cid, cleaned, cts)
<1>1. /\ us \subseteq Live(wEntries) /\ us \subseteq DOMAIN wEntries
      /\ wEntries' = final /\ groupAffect' = Members(recycled, us)
      /\ entries' = entries /\ tsMax' = tsMax /\ cid' = cid
      /\ cid # 0 /\ groupAffect = {}
  BY Zenon DEF Delete, Live, Put, committed, Operation, Ready
<1>2. ASSUME NEW u \in us
      PROVE  /\ toRecycled[u] \in Attrs /\ toRecycled[u].class = {"recycled"}
             /\ toRecycled[u].member = wEntries[u].attrs.member
             /\ Leads(wEntries[u], rts[u], toRecycled[u])
  <2>1. wEntries[u].attrs \in Attrs /\ wEntries[u].attrs.class = {}
    BY <1>1, OpenFacts, Zenon DEF Live, Class
  <2>2. Leads(wEntries[u], RecycleTransitions, [wEntries[u].attrs EXCEPT !.class = {"recycled"}])
    BY <2>1, RecycleLeads
  <2>3. toRecycled[u] \in Attrs /\ toRecycled[u].class = {"recycled"}
    BY <2>1, Zenon DEF Attrs
  <2>4. toRecycled[u].member = wEntries[u].attrs.member
    BY <2>1 DEF Attrs
  <2>5. rts[u] = RecycleTransitions
        /\ toRecycled[u] = [wEntries[u].attrs EXCEPT !.class = {"recycled"}]
    BY Zenon
  <2>6. QED
    BY <2>2, <2>3, <2>4, <2>5, Zenon
<1>3. DOMAIN toRecycled = us
  OBVIOUS
<1>4. /\ DOMAIN recycled = DOMAIN wEntries
      /\ \A u \in DOMAIN wEntries \ us : recycled[u] = wEntries[u]
      /\ \A u \in us : recycled[u].attrs = toRecycled[u]
  BY <1>1, Zenon DEF Write
<1> HIDE DEF toRecycled, rts
<1>5. AllTold(recycled, cid)
  BY <1>1, <1>2, <1>3, OpenFacts, WriteTold, Zenon
<1> HIDE DEF recycled
<1>6. \A u \in DOMAIN recycled : recycled[u].attrs \in Attrs
  BY <1>1, <1>2, <1>4, OpenFacts, Zenon
<1>7. ASSUME NEW u \in referrers
      PROVE  u \in DOMAIN recycled /\ "tombstone" \notin recycled[u].attrs.class
  <2>1. u \in DOMAIN recycled /\ References(recycled[u]) \cap us # {}
    BY DEF Referrers
  <2>2. CASE u \in us
    BY <1>2, <1>4, <2>1, <2>2
  <2>3. CASE u \notin us
    <3>1. recycled[u] = wEntries[u] /\ u \in DOMAIN wEntries
      BY <1>4, <2>1, <2>3
    <3>2. ASSUME "tombstone" \in Class(wEntries, u)
          PROVE  FALSE
      <4>1. wEntries[u].attrs = TombstoneAttrs
        BY <1>1, <3>1, <3>2, OpenFacts, Zenon DEF BareTombstones
      <4>2. References(wEntries[u]) = {}
        BY <4>1 DEF References, TombstoneAttrs
      <4>3. QED
        BY <2>1, <3>1, <4>2
    <3>3. QED
      BY <2>1, <3>1, <3>2 DEF Class
  <2>4. QED
    BY <2>2, <2>3
<1>8. ASSUME NEW u \in referrers
      PROVE  /\ Leads(recycled[u], cts[u], cleaned[u])
             /\ cleaned[u].class = recycled[u].attrs.class
             /\ cleaned[u].member = recycled[u].attrs.member \ us
             /\ cleaned[u].memberof = recycled[u].attrs.memberof \ us
             /\ cleaned[u].directmemberof = recycled[u].attrs.directmemberof \ us
  <2>1. recycled[u].attrs \in Attrs /\ "tombstone" \notin recycled[u].attrs.class
    BY <1>6, <1>7
  <2>2. cts[u] = removal
    OBVIOUS
  <2>3. cleaned[u] = [recycled[u].attrs EXCEPT !.member = @ \ us, !.memberof = @ \ us,
                                               !.directmemberof = @ \ us]
    BY Zenon
  <2>4. Leads(recycled[u], removal, [recycled[u].attrs EXCEPT !.member = @ \ us,
                                       !.memberof = @ \ us, !.directmemberof = @ \ us])
    BY <2>1, RemovalLeads, Zenon
  <2>5. PICK a \in Attrs : a = recycled[u].attrs
    BY <2>1
  <2>6. PICK b : b = cleaned[u]
    OBVIOUS
  <2>7. b = [a EXCEPT !.member = @ \ us, !.memberof = @ \ us, !.directmemberof = @ \ us]
    BY <2>3, <2>5, <2>6, Zenon
  <2>8. /\ b.class = a.class /\ b.member = a.member \ us
        /\ b.memberof = a.memberof \ us /\ b.directmemberof = a.directmemberof \ us
    BY <2>7 DEF Attrs
  <2>9. QED
    BY <2>2, <2>3, <2>4, <2>5, <2>6, <2>8, Zenon
<1>9. DOMAIN cleaned = referrers
  OBVIOUS
<1>10. /\ DOMAIN final = DOMAIN recycled
       /\ \A u \in DOMAIN recycled \ referrers : final[u] = recycled[u]
       /\ \A u \in referrers : final[u].attrs = cleaned[u]
  BY <1>7, Zenon DEF Write
<1>11. \A u \in DOMAIN recycled \ referrers : References(recycled[u]) \cap us = {}
  BY DEF Referrers
<1> HIDE DEF referrers, cleaned, removal, cts
<1>12. AllTold(final, cid)
  <2>1. referrers \subseteq DOMAIN recycled
    BY <1>7
  <2>2. QED
    BY <1>1, <1>5, <1>8, <1>9, <2>1, OpenFacts, WriteTold, Zenon
<1> HIDE DEF final
<1>13. ASSUME NEW u \in DOMAIN wEntries
       PROVE  /\ final[u].attrs.class = recycled[u].attrs.class
              /\ final[u].attrs.member = recycled[u].attrs.member \ us
              /\ final[u].attrs.directmemberof = recycled[u].attrs.directmemberof \ us
              /\ References(final[u]) \cap us = {}
  <2>1. CASE u \in referrers
    BY <1>8, <1>10, <2>1 DEF References
  <2>2. CASE u \notin referrers
    <3>1. final[u] = recycled[u] /\ References(recycled[u]) \cap us = {}
      BY <1>4, <1>10, <1>11, <2>2
    <3>2. QED
      BY <3>1 DEF References
  <2>3. QED
    BY <2>1, <2>2
<1>14. Live(final) = Live(wEntries) \ us
  <2>1. \A u \in us : Class(final, u) = {"recycled"}
    BY <1>1, <1>2, <1>4, <1>13 DEF Class
  <2>2. \A u \in DOMAIN wEntries \ us : Class(final, u) = Class(wEntries, u)
    BY <1>4, <1>13, Zenon DEF Class
  <2>3. QED
    BY <1>1, <1>4, <1>10, <2>1, <2>2 DEF Live
<1>15. Direct(final, Members(recycled, us))
  <2>1. SUFFICES ASSUME NEW v \in Live(final) \ Members(recycled, us)
                 PROVE  final[v].attrs.directmemberof = GroupsOf(final, v)
    BY DEF Direct
  <2>2. v \in Live(wEntries) /\ v \in DOMAIN wEntries /\ v \notin us /\ recycled[v] = wEntries[v]
    BY <1>4, <1>14 DEF Live
  <2>3. wEntries[v].attrs.directmemberof = GroupsOf(wEntries, v)
    BY <1>1, <2>2 DEF CInv, Direct
  <2>4. ASSUME NEW g \in us
        PROVE  v \notin wEntries[g].attrs.member
    <3>1. recycled[g].attrs.member = wEntries[g].attrs.member
      BY <1>2, <1>4
    <3>2. QED
      BY <2>1, <3>1 DEF Members
  <2>5. \A g \in Live(wEntries) \ us :
          v \in final[g].attrs.member <=> v \in wEntries[g].attrs.member
    BY <1>4, <1>13, <2>2 DEF Live
  <2>6. GroupsOf(final, v) = GroupsOf(wEntries, v)
    BY <1>14, <2>4, <2>5 DEF GroupsOf
  <2>7. GroupsOf(wEntries, v) \ us = GroupsOf(wEntries, v)
    BY <2>4 DEF GroupsOf
  <2>8. QED
    BY <1>13, <2>2, <2>3, <2>6, <2>7, Zenon
<1>16. ReferencesKept
  BY <1>1, <1>4, <1>10, <1>13, <1>14 DEF ReferencesKept
<1>17. QED
  BY <1>1, <1>4, <1>10, <1>12, <1>15, <1>16, OpContents

(* Nothing but a tombstone leaves the committed database. *)
OthersStay == \A u \in DOMAIN entries \ Tombstones(entries) : u \in DOMAIN entries'

(* A step that ends with no transaction open. *)
LEMMA IdleContents ==
  ASSUME cid' = 0, groupAffect' = {}, dmMods' = NoMods, wEntries' = entries',
         AllTold(entries', tsMax'), Direct(entries', {})
  PROVE  CInv' /\ ReferencesKept
<1>1. Top' = tsMax'
  BY DEF Top
<1>2. CInv'
  BY <1>1 DEF CInv
<1>3. QED
  BY <1>2 DEF ReferencesKept

(* The start of a write transaction. *)
LEMMA BeginContents ==
  ASSUME IInv, CInv, NEW ct \in Cids, Begin(ct)
  PROVE  CInv' /\ ReferencesKept
<1>1. /\ cid = 0 /\ cid' = NewLamport(ct) /\ NewLamport(ct) <= MaxTs
      /\ UNCHANGED <<entries, tsMax, wEntries, groupAffect, dmMods>>
  BY DEF Begin, committed, working, pending
<1>2. NewLamport(ct) \in Cids /\ NewLamport(ct) \in Int /\ tsMax < NewLamport(ct)
  BY <1>1, LamportIsLater DEF IInv
<1>3. tsMax \in Int /\ tsMax <= NewLamport(ct) /\ cid' # 0
  BY <1>1, <1>2, MaxTsAssumption DEF IInv, TypeOK, Cids
<1>4. Top' = NewLamport(ct) /\ Top = tsMax
  BY <1>1, <1>3 DEF Top
<1>5. AllTold(wEntries, NewLamport(ct))
  BY <1>2, <1>3, <1>4, ToldLater DEF CInv
<1>6. CInv'
  BY <1>1, <1>3, <1>4, <1>5 DEF CInv
<1>7. ReferencesKept
  BY <1>1 DEF ReferencesKept
<1>8. QED
  BY <1>6, <1>7

(* A commit: the operation is complete, so the worklist is empty. *)
LEMMA CommitContents ==
  ASSUME IInv, CInv, Commit
  PROVE  CInv' /\ ReferencesKept /\ OthersStay
<1>1. /\ cid # 0 /\ groupAffect = {} /\ dmMods = NoMods
      /\ cid' = 0 /\ entries' = wEntries /\ wEntries' = wEntries /\ tsMax' = cid
      /\ groupAffect' = groupAffect /\ dmMods' = dmMods
  BY DEF Commit, Ready, working, pending
<1>2. AllTold(entries', tsMax') /\ Direct(entries', {})
  BY <1>1 DEF CInv, Top
<1>3. OthersStay
  BY <1>1 DEF CInv, OthersStay
<1>4. QED
  BY <1>1, <1>2, <1>3, IdleContents

(* A transaction that is dropped. *)
LEMMA AbortContents ==
  ASSUME IInv, CInv, Abort
  PROVE  CInv' /\ ReferencesKept
<1>1. /\ cid' = 0 /\ entries' = entries /\ wEntries' = entries' /\ tsMax' = tsMax
      /\ groupAffect' = {} /\ dmMods' = NoMods
  BY DEF Abort, committed
<1>2. AllTold(entries', tsMax') /\ Direct(entries', {})
  BY <1>1 DEF CInv
<1>3. QED
  BY <1>1, <1>2, IdleContents

(* Entries reloaded from disk keep their attributes. *)
LEMMA ReloadContents ==
  ASSUME IInv, CInv, NEW us,
         entries' = [v \in DOMAIN entries |->
                       IF v \in us THEN Reload(entries[v]) ELSE entries[v]],
         tsMax' = tsMax
  PROVE  AllTold(entries', tsMax') /\ Direct(entries', {}) /\ OthersStay
<1>1. /\ tsMax \in Int /\ AllTold(entries, tsMax) /\ Direct(entries, {})
      /\ CidsUpTo(entries, tsMax) /\ \A u \in DOMAIN entries : Entry(entries[u])
  BY DEF IInv, TypeOK, Good, Database, CInv
<1>2. PICK es : es = entries'
  OBVIOUS
<1>3. es = [v \in DOMAIN entries |-> IF v \in us THEN Reload(entries[v]) ELSE entries[v]]
  BY <1>2
<1>4. AllTold(es, tsMax)
  BY <1>1, <1>3, AllReloadTold
<1>5. DOMAIN es = DOMAIN entries /\ \A v \in DOMAIN entries : es[v].attrs = entries[v].attrs
  BY <1>3, Zenon DEF Reload
<1>6. Live(es) = Live(entries)
  BY <1>5 DEF Live, Class
<1>7. \A u \in Live(entries) : es[u].attrs = entries[u].attrs
  BY <1>5 DEF Live
<1>8. Direct(es, {})
  BY <1>1, <1>6, <1>7, SameDirect
<1>9. QED
  BY <1>2, <1>4, <1>5, <1>8 DEF OthersStay

(* An eviction from the entry cache. *)
LEMMA EvictContents ==
  ASSUME IInv, CInv, NEW u \in Uuids, Evict(u)
  PROVE  CInv' /\ ReferencesKept /\ OthersStay
<1>1. /\ cid = 0 /\ cid' = cid /\ groupAffect' = groupAffect /\ dmMods' = dmMods
      /\ wEntries' = entries' /\ tsMax' = tsMax
      /\ entries' = [v \in DOMAIN entries |->
                       IF v = u THEN Reload(entries[v]) ELSE entries[v]]
  BY DEF Evict, Idle, pending
<1>2. groupAffect = {} /\ dmMods = NoMods
  BY <1>1 DEF CInv
<1>3. entries' = [v \in DOMAIN entries |->
                    IF v \in {u} THEN Reload(entries[v]) ELSE entries[v]]
  BY <1>1
<1>4. AllTold(entries', tsMax') /\ Direct(entries', {}) /\ OthersStay
  BY <1>1, <1>3, ReloadContents, Zenon
<1>5. QED
  BY <1>1, <1>2, <1>4, IdleContents

(* A restart. *)
LEMMA RestartContents ==
  ASSUME IInv, CInv, Restart
  PROVE  CInv' /\ ReferencesKept /\ OthersStay
<1>1. /\ cid' = 0 /\ groupAffect' = {} /\ dmMods' = NoMods
      /\ wEntries' = entries' /\ tsMax' = tsMax
      /\ entries' = [u \in DOMAIN entries |-> Reload(entries[u])]
  BY DEF Restart
<1>2. PICK all : all = DOMAIN entries
  OBVIOUS
<1>3. entries' = [v \in DOMAIN entries |->
                    IF v \in all THEN Reload(entries[v]) ELSE entries[v]]
  BY <1>1, <1>2
<1>4. AllTold(entries', tsMax') /\ Direct(entries', {}) /\ OthersStay
  BY <1>1, <1>3, ReloadContents, Zenon
<1>5. QED
  BY <1>1, <1>4, IdleContents

(* purge_recycled: what it turns into tombstones was not live. *)
LEMMA PurgeRecycledContents ==
  ASSUME IInv, CInv, NEW ct \in Cids, PurgeRecycled(ct)
  PROVE  CInv' /\ ReferencesKept /\ OthersStay
<1> DEFINE c == NewLamport(ct)
           us == PurgeCandidates(c)
           attrs == [u \in us |-> TombstoneAttrs]
           ts == [u \in us |-> <<Tombstone(TombstoneAttrs)>>]
<1>1. /\ cid = 0 /\ cid' = cid /\ groupAffect' = groupAffect /\ dmMods' = dmMods
      /\ entries' = Write(entries, c, attrs, ts) /\ wEntries' = entries' /\ tsMax' = c
      /\ c <= MaxTs
  BY Zenon DEF PurgeRecycled, Idle, CommitPurge, pending
<1>2. groupAffect = {} /\ dmMods = NoMods
  BY <1>1 DEF CInv
<1>3. c \in Cids /\ c \in Int /\ tsMax \in Int /\ tsMax <= c
  BY <1>1, LamportIsLater DEF IInv, TypeOK
<1>4. /\ AllTold(entries, tsMax) /\ Direct(entries, {}) /\ BareTombstones(entries)
      /\ \A u \in DOMAIN entries : entries[u].attrs \in Attrs
  BY DEF IInv, Good, Database, Entry, CInv
<1>5. ASSUME NEW u \in us
      PROVE  u \in DOMAIN entries /\ entries[u].attrs.class = {"recycled"}
  <2>1. u \in Recycled(entries) /\ u \in DOMAIN entries
    BY DEF PurgeCandidates, Recycled
  <2>2. QED
    BY <1>4, <2>1, RecycledClass
<1> HIDE DEF c, us
<1>6. /\ DOMAIN attrs = us
      /\ \A u \in us : attrs[u] = TombstoneAttrs /\ ts[u] = <<Tombstone(TombstoneAttrs)>>
  OBVIOUS
<1> HIDE DEF attrs, ts
<1>7. \A u \in us : Leads(entries[u], ts[u], attrs[u])
  BY <1>5, <1>6, TombstoneLeads
<1>8. us \subseteq DOMAIN entries
  BY <1>5
<1>9. AllTold(entries', tsMax')
  BY <1>1, <1>3, <1>4, <1>6, <1>7, <1>8, WriteTold, Zenon
<1>10. /\ DOMAIN entries' = DOMAIN entries
       /\ \A u \in DOMAIN entries \ us : entries'[u] = entries[u]
       /\ \A u \in us : entries'[u].attrs = TombstoneAttrs
  BY <1>1, <1>6, <1>8, Zenon DEF Write
<1>11. Live(entries') = Live(entries)
  <2>1. \A u \in us : Class(entries', u) # {} /\ Class(entries, u) # {}
    BY <1>5, <1>10 DEF Class, TombstoneAttrs
  <2>2. QED
    BY <1>10, <2>1 DEF Live, Class
<1>12. \A u \in Live(entries) : entries'[u].attrs = entries[u].attrs
  BY <1>5, <1>10 DEF Live, Class
<1>13. PICK es : es = entries'
  OBVIOUS
<1>14. Direct(es, {})
  BY <1>4, <1>11, <1>12, <1>13, SameDirect
<1>15. OthersStay
  BY <1>10 DEF OthersStay
<1>16. QED
  BY <1>1, <1>2, <1>9, <1>13, <1>14, <1>15, IdleContents

(* purge_tombstones: the changelogs it trims still replay, so what it takes *)
(* away on the word of a changelog is a tombstone.                          *)
LEMMA PurgeTombstonesContents ==
  ASSUME IInv, CInv, NEW ct \in Cids, PurgeTombstones(ct)
  PROVE  CInv' /\ ReferencesKept /\ OthersStay
<1> DEFINE c == NewLamport(ct) - ChangelogAge
           failed == ReapPanics(c) \/ ReapOrphans(c) \/ ReapStale(c)
<1>1. cid = 0 /\ NewLamport(ct) <= MaxTs
  BY Zenon DEF PurgeTombstones, TrimCid, Idle
<1>2. /\ groupAffect = {} /\ dmMods = NoMods /\ wEntries = entries
      /\ AllTold(entries, tsMax) /\ Direct(entries, {})
  BY <1>1 DEF CInv, IInv
<1>3. CASE failed /\ UNCHANGED <<committed, working, cid, ops, pending, ruvFrom>>
  <2>1. UNCHANGED <<entries, tsMax, wEntries, cid, groupAffect, dmMods>>
    BY <1>3 DEF committed, working, pending
  <2>2. AllTold(entries', tsMax') /\ Direct(entries', {}) /\ OthersStay
    BY <1>2, <2>1 DEF OthersStay
  <2>3. QED
    BY <1>1, <1>2, <2>1, <2>2, IdleContents
<1>4. CASE /\ ~failed
           /\ CommitPurge([u \in DOMAIN entries \ Reaped(c) |-> Trimmed(c)[u]],
                          RuvTrimmed(ruv, c), NewLamport(ct))
  <2>1. /\ entries' = [u \in DOMAIN entries \ Reaped(c) |-> Trimmed(c)[u]]
        /\ tsMax' = NewLamport(ct) /\ wEntries' = entries'
        /\ UNCHANGED <<cid, groupAffect, dmMods>>
    BY <1>4 DEF CommitPurge, pending
  <2>2. /\ NewLamport(ct) \in Cids /\ NewLamport(ct) \in Int /\ tsMax <= NewLamport(ct)
        /\ tsMax \in Int
    BY <1>1, LamportIsLater DEF IInv, TypeOK
  <2>3. PICK top \in Int : top = NewLamport(ct)
    BY <2>2
  <2>4. c \in Int /\ c <= top /\ c <= MaxTs + 1
    BY <1>1, <2>3, AgeAssumption, MaxTsAssumption
  <2> HIDE DEF c
  <2>5. PICK trim : trim = Trimmed(c)
    OBVIOUS
  <2>6. /\ DOMAIN trim = DOMAIN entries
        /\ \A u \in DOMAIN entries : trim[u].attrs = entries[u].attrs
        /\ \A u \in Affected(c) : trim[u].log = TrimUpTo(entries[u].log, c)
        /\ \A u \in DOMAIN entries \ Affected(c) : trim[u] = entries[u]
    BY <2>5, Zenon DEF Trimmed, Affected
  <2>7. ASSUME NEW u \in DOMAIN entries
        PROVE  Told(trim[u], top)
    <3>1. Told(entries[u], tsMax)
      BY <1>2 DEF AllTold
    <3>2. CASE u \in Affected(c)
      <4>1. PICK d \in Cids : d < c
        BY <3>2 DEF Affected, RuvBefore
      <4>2. c \in 1..(MaxTs + 1)
        BY <2>4, <4>1, MaxTsAssumption DEF Cids
      <4>3. ~TrimPanics(entries[u].log, c)
        BY <1>4, <3>2, Zenon DEF ReapPanics
      <4>4. QED
        BY <2>2, <2>3, <2>4, <2>6, <3>1, <3>2, <4>2, <4>3, TrimTold
    <3>3. CASE u \notin Affected(c)
      <4>1. trim[u] = entries[u]
        BY <2>6, <3>3
      <4>2. AllTold(entries, top)
        BY <1>2, <2>2, <2>3, ToldLater
      <4>3. QED
        BY <4>1, <4>2 DEF AllTold
    <3>4. QED
      BY <3>2, <3>3
  <2>8. ASSUME NEW u \in Reaped(c)
        PROVE  u \in DOMAIN entries /\ "tombstone" \in Class(entries, u)
    <3>1. u \in DOMAIN entries /\ CanDelete(trim[u].log)
      BY <2>5 DEF Reaped, Affected
    <3>2. "tombstone" \in trim[u].attrs.class
      BY <2>7, <3>1, DeletableIsTombstone
    <3>3. QED
      BY <2>6, <3>1, <3>2 DEF Class
  <2>9. /\ DOMAIN entries' = DOMAIN entries \ Reaped(c)
        /\ \A u \in DOMAIN entries \ Reaped(c) : entries'[u] = trim[u]
    BY <2>1, <2>5
  <2>10. AllTold(entries', tsMax')
    BY <2>1, <2>3, <2>7, <2>9 DEF AllTold
  <2>11. Live(entries') = Live(entries)
    BY <2>6, <2>8, <2>9 DEF Live, Class
  <2>12. \A u \in Live(entries) : entries'[u].attrs = entries[u].attrs
    BY <2>6, <2>8, <2>9 DEF Live
  <2>13. PICK es : es = entries'
    OBVIOUS
  <2>14. Direct(es, {})
    BY <1>2, <2>11, <2>12, <2>13, SameDirect
  <2>15. OthersStay
    BY <2>8, <2>9 DEF OthersStay, Tombstones
  <2>16. QED
    BY <1>1, <1>2, <2>1, <2>10, <2>13, <2>14, <2>15, IdleContents
<1>5. QED
  BY <1>3, <1>4 DEF PurgeTombstones, TrimCid

-----------------------------------------------------------------------------
(* The invariant, and what follows from it. *)

(* An empty database has nothing to tell. *)
LEMMA InitCInv == Init => CInv
<1>1. SUFFICES ASSUME Init PROVE CInv
  OBVIOUS
<1>2. /\ DOMAIN entries = {} /\ wEntries = entries
      /\ groupAffect = {} /\ dmMods = NoMods
  BY <1>1 DEF Init
<1>3. Live(entries) = {}
  BY <1>2 DEF Live
<1>4. QED
  BY <1>2, <1>3 DEF CInv, AllTold, Direct

(* The steps of an open transaction leave the committed database alone. *)
LEMMA OpenStepsStay ==
  ASSUME entries' = entries
  PROVE  OthersStay
BY DEF OthersStay

(* Every step keeps the invariant and the two action properties. *)
LEMMA NextContents ==
  ASSUME IInv, CInv, [Next]_vars
  PROVE  CInv' /\ ReferencesKept /\ OthersStay
<1>1. ASSUME NEW ct \in Cids, Begin(ct) \/ PurgeRecycled(ct) \/ PurgeTombstones(ct)
      PROVE  CInv' /\ ReferencesKept /\ OthersStay
  <2>1. Begin(ct) => entries' = entries
    BY DEF Begin, committed
  <2>2. QED
    BY <1>1, <2>1, OpenStepsStay, BeginContents, PurgeRecycledContents, PurgeTombstonesContents
<1>2. ASSUME NEW u \in Uuids, NEW members \in SUBSET Uuids, CreateEntry(u, members)
      PROVE  CInv' /\ ReferencesKept /\ OthersStay
  <2>1. entries' = entries
    BY <1>2, Zenon DEF CreateEntry, committed
  <2>2. QED
    BY <1>2, <2>1, OpenStepsStay, CreateContents
<1>3. ASSUME NEW us \in SUBSET Uuids, NEW m \in Mods, Modify(us, m)
      PROVE  CInv' /\ ReferencesKept /\ OthersStay
  <2>1. entries' = entries
    BY <1>3, Zenon DEF Modify, committed
  <2>2. QED
    BY <1>3, <2>1, OpenStepsStay, ModifyContents
<1>4. ASSUME NEW us \in SUBSET Uuids, Delete(us) \/ ReviveEntries(us)
      PROVE  CInv' /\ ReferencesKept /\ OthersStay
  <2>1. entries' = entries
    BY <1>4, Zenon DEF Delete, ReviveEntries, committed
  <2>2. QED
    BY <1>4, <2>1, OpenStepsStay, DeleteContents, ReviveEntriesContents
<1>5. ASSUME NEW g \in Uuids, ReviveMembership(g) \/ Evict(g)
      PROVE  CInv' /\ ReferencesKept /\ OthersStay
  <2>1. ReviveMembership(g) => entries' = entries
    BY DEF ReviveMembership, committed
  <2>2. QED
    BY <1>5, <2>1, OpenStepsStay, ReviveMembershipContents, EvictContents
<1>6. CASE Stripe \/ Commit \/ Abort \/ Restart
  <2>1. Stripe \/ Abort => entries' = entries
    BY DEF Stripe, Abort, committed
  <2>2. QED
    BY <1>6, <2>1, OpenStepsStay, StripeContents, CommitContents, AbortContents, RestartContents
<1>7. CASE UNCHANGED vars
  <2>1. UNCHANGED <<entries, tsMax, wEntries, cid, groupAffect, dmMods>>
    BY <1>7 DEF vars, committed, working, pending
  <2>2. CInv'
    BY <2>1 DEF CInv, Top
  <2>3. ReferencesKept /\ OthersStay
    BY <2>1 DEF ReferencesKept, OthersStay
  <2>4. QED
    BY <2>2, <2>3
<1>8. QED
  BY <1>1, <1>2, <1>3, <1>4, <1>5, <1>6, <1>7 DEF Next

(* The changelogs tell the truth and directmemberof is exact outside the    *)
(* memberof worklist, in every behaviour, whatever the purges, evictions    *)
(* and restarts.                                                            *)
THEOREM ContentInvariance == Spec => []CInv
<1>1. IInv /\ CInv /\ [Next]_vars => CInv'
  BY NextContents
<1>2. QED
  BY <1>1, InitCInv, Invariance, PTL DEF Spec

(* EntryChangelog::verify never has anything to report: replaying the       *)
(* changes of any entry, committed or in the open transaction, rejects none *)
(* and gives the entry as it is.                                            *)
THEOREM ChangelogsReplay == Spec => []ReplayMatches
<1>1. ASSUME NEW es, NEW top, AllTold(es, top)
      PROVE  LogsReplay(es)
  <2>1. SUFFICES ASSUME NEW u \in DOMAIN es
                 PROVE  /\ Replay(es[u].log, MaxTs + 1).rejected = {}
                        /\ Replay(es[u].log, MaxTs + 1).state =
                             State(StateKind(Class(es, u)), es[u].attrs)
    BY Zenon DEF LogsReplay
  <2>2. Replay(es[u].log, MaxTs + 1) = [state |-> AsItIs(es[u]), rejected |-> {}]
    BY <1>1 DEF AllTold, Told, Replays
  <2>3. /\ Replay(es[u].log, MaxTs + 1).rejected = {}
        /\ Replay(es[u].log, MaxTs + 1).state = AsItIs(es[u])
    BY <2>2
  <2>4. QED
    BY <2>3 DEF AsItIs, Class
<1>2. CInv => ReplayMatches
  BY <1>1 DEF CInv, ReplayMatches
<1>3. QED
  BY <1>2, ContentInvariance, PTL

(* memberof's verify never has anything to report about directmemberof:     *)
(* recomputing only what an operation affects is enough.                    *)
THEOREM DirectMemberOfIsExact == Spec => []DirectMemberOfExact
<1>1. CInv => DirectMemberOfExact
  BY DEF CInv, Direct, DirectMemberOfExact
<1>2. QED
  BY <1>1, ContentInvariance, PTL

(* No step of an operation leaves a reference to what it takes away: the    *)
(* clean-up of refint's post_delete reaches the recycle bin too.            *)
THEOREM ReferencesAreFollowed == Spec => ReferencesFollow
<1>1. IInv /\ CInv /\ [Next]_vars => [ReferencesKept]_vars
  BY NextContents
<1>2. QED
  BY <1>1, Invariance, ContentInvariance, PTL DEF Spec, ReferencesFollow

(* Nothing leaves the database but a tombstone, though the purge decides by *)
(* the changelog and never looks at the entry's classes.                    *)
THEOREM OnlyTombstonesAreReaped == Spec => OnlyTombstonesLeave
<1>1. IInv /\ CInv /\ [Next]_vars
        => [\A u \in DOMAIN entries \ Tombstones(entries) : u \in DOMAIN entries']_vars
  BY NextContents DEF OthersStay
<1>2. QED
  BY <1>1, Invariance, ContentInvariance, PTL DEF Spec, OnlyTombstonesLeave

=============================================================================
