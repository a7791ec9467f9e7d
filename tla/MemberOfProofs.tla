---------------------------- MODULE MemberOfProofs ----------------------------
(***************************************************************************)
(* For any groups and members, nested and circular as they may be: the     *)
(* work list of the memberof plugin misses nothing, so that when the       *)
(* plugin is done no membership is lost and, without cycles, none is       *)
(* extra.                                                                  *)
(***************************************************************************)
EXTENDS MemberOf, FiniteSetTheorems, TLAPS

(* The provers to try on a step, in order, and the time each one has. *)
USE ZenonT(5), SMTT(30), SMTT(60), ZenonT(30), SMTT(90)

(* Only live entries are members, and only of live groups. *)
MembersLive ==
  /\ \A g \in Groups : member[g] \subseteq live
  /\ \A g \in Groups \ live : member[g] = {}

IInv == TypeOK /\ MembersLive /\ WorklistCovers

(* The empty database satisfies the invariant. *)
LEMMA InitIInv == Init => IInv
BY DEF Init, IInv, TypeOK, MembersLive, WorklistCovers

(* do_memberof yields sets of groups. *)
LEMMA ComputedType ==
  ASSUME TypeOK, NEW u
  PROVE  Direct(u) \subseteq Groups /\ Indirect(u) \subseteq Groups
<1>1. Direct(u) \subseteq Groups
  BY DEF Direct
<1>2. \A g \in Direct(u) : memberof[g] \subseteq Groups
  BY <1>1 DEF TypeOK, Entries
<1>3. QED
  BY <1>1, <1>2 DEF Indirect

(* What a stripe stores are sets of groups. *)
LEMMA StoreType ==
  ASSUME TypeOK, NEW us, Store(us)
  PROVE  /\ memberof' \in [Entries -> SUBSET Groups]
         /\ directmemberof' \in [Entries -> SUBSET Groups]
BY ComputedType DEF Store, TypeOK

(* The members of groups are entries. *)
LEMMA MembersOfType ==
  ASSUME NEW us, NEW mem, \A g \in us \cap Groups : mem[g] \subseteq Entries
  PROVE  MembersOf(mem, us) \subseteq Entries
BY DEF MembersOf

(* An entry whose groups are the same, with the same memberof, stays        *)
(* settled if its own values are kept.                                      *)
LEMMA StaysSettled ==
  ASSUME NEW u, Settled(u),
         memberof'[u] = memberof[u], directmemberof'[u] = directmemberof[u],
         Direct(u)' = Direct(u),
         \A g \in Direct(u) : memberof'[g] = memberof[g]
  PROVE  Settled(u)'
BY DEF Settled, Indirect

(* A stripe puts on the work list every entry it unsettles. *)
LEMMA StripePreserves ==
  ASSUME IInv, Stripe
  PROVE  IInv'
<1> DEFINE workSet == groupAffect \cap live
           changed == {g \in workSet \cap Groups : ~Settled(g)}
           others  == otherCache \cup NotGroups(workSet)
<1>1. /\ Store(changed)
      /\ groupAffect' = MembersOf(member, changed) \ others
      /\ otherCache' = others
      /\ live' = live /\ member' = member
  BY DEF Stripe, Changed
<1>2. TypeOK /\ MembersLive /\ WorklistCovers
  BY DEF IInv
<1>3. TypeOK'
  <2>1. otherCache' \subseteq Others
    BY <1>1, <1>2 DEF TypeOK, NotGroups, Entries
  <2>2. groupAffect' \subseteq Entries
    <3>1. \A g \in changed \cap Groups : member[g] \subseteq Entries
      BY <1>2 DEF TypeOK
    <3>2. QED
      BY <3>1, <1>1, MembersOfType
  <2>3. QED
    BY <1>1, <1>2, <2>1, <2>2, StoreType, Zenon DEF TypeOK
<1>4. MembersLive'
  BY <1>1, <1>2 DEF MembersLive
<1>5. WorklistCovers'
  <2>1. SUFFICES ASSUME NEW u \in live, u \notin groupAffect', u \notin others
                 PROVE  Settled(u)'
    BY <1>1 DEF WorklistCovers
  <2>2. u \notin MembersOf(member, changed)
    BY <1>1, <2>1
  <2>3. Direct(u)' = Direct(u)
    BY <1>1 DEF Direct
  <2>4. \A g \in Direct(u) : g \notin changed
    BY <2>2 DEF MembersOf, Direct
  <2>5. /\ u \in Entries
        /\ \A g \in Direct(u) : g \in Entries
    BY <1>2, <2>1 DEF TypeOK, Direct, Entries
  <2>6. \A g \in Direct(u) : memberof'[g] = memberof[g]
    BY <1>1, <2>4, <2>5 DEF Store
  <2>7. Indirect(u)' = Indirect(u)
    BY <2>3, <2>6 DEF Indirect
  <2>8. CASE u \in changed
    <3>1. memberof'[u] = Indirect(u) /\ directmemberof'[u] = Direct(u)
      BY <1>1, <2>5, <2>8 DEF Store
    <3>2. QED
      BY <3>1, <2>3, <2>7 DEF Settled
  <2>9. CASE u \notin changed
    <3>1. Settled(u)
      <4>1. CASE u \in groupAffect
        BY <4>1, <2>1, <2>9, <2>5 DEF NotGroups
      <4>2. CASE u \notin groupAffect
        BY <4>2, <2>1, <1>2 DEF WorklistCovers
      <4>3. QED
        BY <4>1, <4>2
    <3>2. memberof'[u] = memberof[u] /\ directmemberof'[u] = directmemberof[u]
      BY <1>1, <2>5, <2>9 DEF Store
    <3>3. QED
      BY <3>1, <3>2, <2>3, <2>6, StaysSettled
  <2>10. QED
    BY <2>8, <2>9
<1>6. QED
  BY <1>3, <1>4, <1>5 DEF IInv

(* The final write settles the entries that are not groups. *)
LEMMA FinishPreserves ==
  ASSUME IInv, Finish
  PROVE  IInv'
<1>1. /\ Store(otherCache) /\ otherCache' = {} /\ groupAffect = {} /\ groupAffect' = {}
      /\ live' = live /\ member' = member
  BY DEF Finish
<1>2. TypeOK /\ MembersLive /\ WorklistCovers
  BY DEF IInv
<1>3. TypeOK'
  BY <1>1, <1>2, StoreType DEF TypeOK
<1>4. MembersLive'
  BY <1>1, <1>2 DEF MembersLive
<1>5. WorklistCovers'
  <2>1. SUFFICES ASSUME NEW u \in live PROVE Settled(u)'
    BY <1>1 DEF WorklistCovers
  <2>2. Direct(u)' = Direct(u)
    BY <1>1 DEF Direct
  <2>3. u \in Entries /\ \A g \in Direct(u) : g \in Entries /\ g \notin otherCache
    BY <1>2, DisjointAssumption DEF TypeOK, Direct, Entries
  <2>4. \A g \in Direct(u) : memberof'[g] = memberof[g]
    BY <1>1, <2>3 DEF Store
  <2>5. Indirect(u)' = Indirect(u)
    BY <2>2, <2>4 DEF Indirect
  <2>6. CASE u \in otherCache
    <3>1. memberof'[u] = Indirect(u) /\ directmemberof'[u] = Direct(u)
      BY <1>1, <2>3, <2>6 DEF Store
    <3>2. QED
      BY <3>1, <2>2, <2>5 DEF Settled
  <2>7. CASE u \notin otherCache
    <3>1. Settled(u)
      BY <1>1, <1>2, <2>1, <2>7 DEF WorklistCovers
    <3>2. memberof'[u] = memberof[u] /\ directmemberof'[u] = directmemberof[u]
      BY <1>1, <2>3, <2>7 DEF Store
    <3>3. QED
      BY <3>1, <3>2, <2>2, <2>4, StaysSettled
  <2>8. QED
    BY <2>6, <2>7
<1>6. QED
  BY <1>3, <1>4, <1>5 DEF IInv

(* Between operations every live entry is settled. *)
LEMMA IdleSettled ==
  ASSUME IInv, ~Busy
  PROVE  groupAffect = {} /\ otherCache = {} /\ \A u \in live : Settled(u)
BY DEF IInv, WorklistCovers, Busy

(* create affects every entry it unsettles. *)
LEMMA CreatePreserves ==
  ASSUME IInv, NEW us \in SUBSET Entries, NEW mem \in [us \cap Groups -> SUBSET Entries],
         Create(us, mem)
  PROVE  IInv'
<1>1. /\ ~Busy /\ us \cap live = {} /\ live' = live \cup us
      /\ MembersOf(mem, us) \subseteq live'
      /\ member' = [g \in Groups |-> IF g \in us THEN mem[g] ELSE member[g]]
      /\ groupAffect' = us \cup MembersOf(mem, us)
      /\ memberof' = memberof /\ directmemberof' = directmemberof /\ otherCache' = otherCache
  BY DEF Create, AffectedByCreate
<1>2. TypeOK /\ MembersLive
  BY DEF IInv
<1>3. TypeOK'
  <2>1. MembersOf(mem, us) \subseteq Entries
    BY MembersOfType
  <2>2. QED
    BY <1>1, <1>2, <2>1 DEF TypeOK
<1>4. MembersLive'
  <2>1. \A g \in us \cap Groups : mem[g] \subseteq live'
    BY <1>1 DEF MembersOf
  <2>2. QED
    BY <1>1, <1>2, <2>1 DEF MembersLive
<1>5. WorklistCovers'
  <2>1. SUFFICES ASSUME NEW u \in live', u \notin us, u \notin MembersOf(mem, us)
                 PROVE  Settled(u)'
    BY <1>1 DEF WorklistCovers
  <2>2. Settled(u)
    BY <1>1, <2>1, IdleSettled
  <2>3. Direct(u)' = Direct(u)
    BY <1>1, <2>1 DEF Direct, MembersOf
  <2>4. QED
    BY <1>1, <2>2, <2>3, StaysSettled
<1>6. QED
  BY <1>3, <1>4, <1>5 DEF IInv

(* modify and batch_modify affect every entry they unsettle. *)
LEMMA ModifyPreserves ==
  ASSUME IInv, NEW us \in SUBSET Entries, NEW ms \in [us \cap Groups -> ModList],
         ModifyEach(us, ms)
  PROVE  IInv'
<1>1. /\ ~Busy /\ us \subseteq live /\ live' = live
      /\ member' = [g \in Groups |->
                      IF g \in us THEN (member[g] \cap ms[g].keep) \cup ms[g].add
                                  ELSE member[g]]
      /\ MembersOf(member', us) \subseteq live
      /\ groupAffect' = us \cup MembersOf(member, us) \cup MembersOf(member', us)
      /\ memberof' = memberof /\ directmemberof' = directmemberof /\ otherCache' = otherCache
  BY DEF ModifyEach, Modified, AffectedByModify
<1>2. TypeOK /\ MembersLive
  BY DEF IInv
<1>3. member' \in [Groups -> SUBSET Entries]
  <2>1. ASSUME NEW g \in Groups
        PROVE  member'[g] \subseteq Entries
    <3>1. CASE g \in us
      <4>1. ms[g] \in ModList
        BY <3>1
      <4>2. QED
        BY <4>1, <3>1, <1>1, <1>2 DEF TypeOK, ModList
    <3>2. CASE g \notin us
      BY <3>2, <1>1, <1>2 DEF TypeOK
    <3>3. QED
      BY <3>1, <3>2
  <2>2. QED
    BY <1>1, <2>1
<1>4. TypeOK'
  <2>1. MembersOf(member, us) \subseteq Entries /\ MembersOf(member', us) \subseteq Entries
    BY <1>2, <1>3, MembersOfType DEF TypeOK
  <2>2. QED
    BY <1>1, <1>2, <1>3, <2>1 DEF TypeOK
<1>5. MembersLive'
  <2>1. \A g \in us \cap Groups : member'[g] \subseteq live
    BY <1>1 DEF MembersOf
  <2>2. QED
    BY <1>1, <1>2, <2>1 DEF MembersLive
<1>6. WorklistCovers'
  <2>1. SUFFICES ASSUME NEW u \in live, u \notin MembersOf(member, us),
                        u \notin MembersOf(member', us)
                 PROVE  Settled(u)'
    BY <1>1 DEF WorklistCovers
  <2>2. Settled(u)
    BY <1>1, <2>1, IdleSettled
  <2>3. \A g \in Groups : u \in member'[g] <=> u \in member[g]
    BY <1>1, <2>1 DEF MembersOf
  <2>4. Direct(u)' = Direct(u)
    BY <1>1, <2>3 DEF Direct
  <2>5. QED
    BY <1>1, <2>2, <2>4, StaysSettled
<1>7. QED
  BY <1>4, <1>5, <1>6 DEF IInv

(* delete, with refint's clean-up, affects every entry it unsettles. *)
LEMMA DeletePreserves ==
  ASSUME IInv, NEW us \in SUBSET Entries, Delete(us)
  PROVE  IInv'
<1>1. /\ ~Busy /\ us \subseteq live /\ live' = live \ us
      /\ member' = [g \in Groups |-> IF g \in us THEN {} ELSE member[g] \ us]
      /\ memberof' = [e \in Entries |-> IF e \in us THEN {} ELSE memberof[e] \ us]
      /\ directmemberof' = [e \in Entries |-> IF e \in us THEN {} ELSE directmemberof[e] \ us]
      /\ groupAffect' = MembersOf(member, us) /\ otherCache' = otherCache
  BY DEF Delete, AffectedByDelete
<1>2. TypeOK /\ MembersLive
  BY DEF IInv
<1>3. TypeOK'
  <2>1. MembersOf(member, us) \subseteq Entries
    BY <1>2, MembersOfType DEF TypeOK
  <2>2. QED
    BY <1>1, <1>2, <2>1 DEF TypeOK
<1>4. MembersLive'
  BY <1>1, <1>2 DEF MembersLive
<1>5. WorklistCovers'
  <2>1. SUFFICES ASSUME NEW u \in live, u \notin us, u \notin MembersOf(member, us)
                 PROVE  Settled(u)'
    BY <1>1 DEF WorklistCovers
  <2>2. Settled(u) /\ u \in Entries
    BY <1>1, <1>2, <2>1, IdleSettled DEF TypeOK
  <2>3. Direct(u) \cap us = {}
    BY <2>1 DEF Direct, MembersOf
  <2>4. Direct(u)' = Direct(u)
    BY <1>1, <2>1, <2>3 DEF Direct
  <2>5. \A g \in Direct(u) : memberof'[g] = memberof[g] \ us
    BY <1>1, <2>3 DEF Direct, Entries
  <2>6. /\ memberof'[u] = memberof[u] \ us
        /\ directmemberof'[u] = directmemberof[u] \ us
    BY <1>1, <2>1, <2>2
  <2>7. directmemberof'[u] = Direct(u)
    BY <2>2, <2>3, <2>6 DEF Settled
  <2>8. Indirect(u)' = Indirect(u) \ us
    <3>1. ASSUME NEW x
          PROVE  x \in Indirect(u)' <=> x \in Direct(u) \/ \E g \in Direct(u) : x \in memberof'[g]
      BY <2>4 DEF Indirect
    <3>2. ASSUME NEW x
          PROVE  x \in Indirect(u) <=> x \in Direct(u) \/ \E g \in Direct(u) : x \in memberof[g]
      BY DEF Indirect
    <3>3. ASSUME NEW x
          PROVE  x \in Indirect(u)' <=> x \in Indirect(u) /\ x \notin us
      BY <3>1, <3>2, <2>3, <2>5
    <3>4. QED
      BY <3>3
  <2>9. QED
    BY <2>2, <2>4, <2>6, <2>7, <2>8 DEF Settled
<1>6. QED
  BY <1>3, <1>4, <1>5 DEF IInv

(* Every step keeps the invariant. *)
LEMMA NextIInv == IInv /\ [Next]_vars => IInv'
<1>1. SUFFICES ASSUME IInv, [Next]_vars PROVE IInv'
  OBVIOUS
<1>2. ASSUME NEW us \in SUBSET Entries, NEW mem \in [us \cap Groups -> SUBSET Entries],
             Create(us, mem)
      PROVE  IInv'
  BY <1>1, <1>2, CreatePreserves
<1>3. ASSUME NEW us \in SUBSET Entries, NEW m \in ModLists, Modify(us, m)
      PROVE  IInv'
  <2> DEFINE ms == [g \in us \cap Groups |-> m]
  <2>1. ms \in [us \cap Groups -> ModList] /\ ModifyEach(us, ms)
    BY <1>3, ModListAssumption DEF Modify
  <2> HIDE DEF ms
  <2>2. QED
    BY <1>1, <2>1, ModifyPreserves
<1>4. ASSUME NEW us \in SUBSET Entries, NEW ms \in [us \cap Groups -> BatchLists],
             BatchModify(us, ms)
      PROVE  IInv'
  <2>1. ms \in [us \cap Groups -> ModList] /\ ModifyEach(us, ms)
    BY <1>4, ModListAssumption DEF BatchModify
  <2>2. QED
    BY <1>1, <2>1, ModifyPreserves
<1>5. ASSUME NEW us \in SUBSET Entries, Delete(us)
      PROVE  IInv'
  BY <1>1, <1>5, DeletePreserves
<1>6. CASE Stripe \/ Finish
  BY <1>1, <1>6, StripePreserves, FinishPreserves
<1>7. CASE UNCHANGED vars
  BY <1>1, <1>7 DEF vars, IInv, TypeOK, MembersLive, WorklistCovers, Settled, Direct, Indirect
<1>8. CASE Request
  <2>1. live \subseteq Entries
    BY <1>1 DEF IInv, TypeOK
  <2>2. ASSUME NEW us \in SUBSET (Entries \ live),
               NEW mem \in [us \cap Groups -> SUBSET (live \cup us)], Create(us, mem)
        PROVE  IInv'
    BY <2>1, <2>2, <1>2, Zenon
  <2>3. QED
    BY <1>8, <2>1, <2>2, <1>3, <1>4, <1>5, Zenon DEF Request
<1>9. QED
  BY <1>1, <1>6, <1>7, <1>8 DEF Next

(* The inductive invariant: the work list, and that only what exists is a   *)
(* member.                                                                  *)
THEOREM Invariance == Spec => []IInv
<1>1. QED
  BY InitIInv, NextIInv, PTL DEF Spec

(* In the middle of apply_memberof too, every entry that is not pending     *)
(* agrees with its groups.                                                  *)
THEOREM WorklistIsComplete == Spec => []WorklistCovers
<1>1. IInv => WorklistCovers
  BY DEF IInv
<1>2. QED
  BY <1>1, Invariance, PTL

(* An entry that is nested in a group has it in memberof when the plugin is *)
(* done: the entries that have it are closed under membership.              *)
LEMMA SettledCovers == IInv => NoMembershipLost
<1>1. SUFFICES ASSUME IInv, ~Busy, NEW g \in live \cap Groups, NEW u \in Descendants(g)
               PROVE  g \in memberof[u]
  BY DEF NoMembershipLost
<1> DEFINE heirs == {v \in live : g \in memberof[v]}
<1>2. TypeOK /\ MembersLive /\ \A v \in live : Settled(v)
  BY <1>1, IdleSettled DEF IInv
<1>3. member[g] \subseteq heirs
  <2>1. SUFFICES ASSUME NEW v \in member[g] PROVE v \in heirs
    OBVIOUS
  <2>2. v \in live /\ g \in Direct(v)
    BY <1>2 DEF MembersLive, Direct
  <2>3. QED
    BY <2>2, <1>2 DEF Settled, Indirect
<1>4. Closed(heirs)
  <2>1. SUFFICES ASSUME NEW h \in heirs \cap live \cap Groups, NEW v \in member[h]
                 PROVE  v \in heirs
    BY DEF Closed
  <2>2. v \in live /\ h \in Direct(v)
    BY <1>2 DEF MembersLive, Direct
  <2>3. memberof[h] \subseteq memberof[v]
    BY <2>2, <1>2 DEF Settled, Indirect
  <2>4. QED
    BY <2>2, <2>3
<1>5. heirs \in SUBSET Entries
  BY <1>2 DEF TypeOK
<1>6. QED
  BY <1>1, <1>3, <1>4, <1>5 DEF Descendants

(* No membership is lost at any depth, through cycles too. *)
THEOREM MembershipIsInherited == Spec => []NoMembershipLost
<1>1. QED
  BY SettledCovers, Invariance, PTL

-----------------------------------------------------------------------------
(***************************************************************************)
(* Nothing is extra.  A group g that an entry u has without being nested   *)
(* in it came from a group h that u is a member of, which is not nested in *)
(* g either: without cycles, that chain of groups would never end.         *)
(***************************************************************************)

(* Some set of a collection of finite sets has no other of them inside it. *)
LEMMA MinimalSet ==
  ASSUME NEW S, IsFiniteSet(S), NEW C \in SUBSET (SUBSET S), C # {}
  PROVE  \E s \in C : \A t \in C : t \subseteq s => t = s
<1>1. C \subseteq FiniteSubsetsOf(S)
  BY FS_Subset DEF FiniteSubsetsOf
<1>2. PICK s \in C : \A t \in C : ~ (<<t, s>> \in StrictSubsetOrdering(S))
  BY <1>1, FS_StrictSubsetOrderingWellFounded, WFMin, Zenon
<1>3. QED
  BY <1>2, Zenon DEF StrictSubsetOrdering

(* The members of a group are nested in it. *)
LEMMA MembersDescend ==
  ASSUME TypeOK, NEW g \in Groups
  PROVE  member[g] \subseteq Descendants(g)
BY DEF TypeOK, Descendants

(* So are the members of a live group that is nested in it. *)
LEMMA DescendantsClosed ==
  ASSUME TypeOK, NEW g, NEW h \in live \cap Groups, h \in Descendants(g)
  PROVE  member[h] \subseteq Descendants(g)
BY DEF TypeOK, Descendants, Closed

(* And all that is nested in that group. *)
LEMMA DescendantsNest ==
  ASSUME TypeOK, NEW g, NEW h \in live \cap Groups, h \in Descendants(g)
  PROVE  Descendants(h) \subseteq Descendants(g)
<1>1. SUFFICES ASSUME NEW u \in Descendants(h), NEW s \in SUBSET Entries,
                      member[g] \subseteq s, Closed(s)
               PROVE  u \in s
  BY DEF Descendants
<1>2. h \in s
  BY <1>1 DEF Descendants
<1>3. member[h] \subseteq s
  BY <1>1, <1>2 DEF Closed
<1>4. QED
  BY <1>1, <1>3 DEF Descendants

(* A membership that is not nesting is inherited from another one. *)
LEMMA ExtraIsInherited ==
  ASSUME IInv, ~Busy, NEW g, NEW u \in live, g \in memberof[u], u \notin Descendants(g)
  PROVE  \E h \in live \cap Groups :
           u \in member[h] /\ g \in memberof[h] /\ h \notin Descendants(g)
<1>1. TypeOK /\ Settled(u)
  BY IdleSettled DEF IInv
<1>2. g \notin Direct(u)
  BY <1>1, MembersDescend DEF Direct
<1>3. PICK h \in Direct(u) : g \in memberof[h]
  BY <1>1, <1>2 DEF Settled, Indirect
<1>4. h \in live \cap Groups /\ u \in member[h]
  BY <1>3 DEF Direct
<1>5. h \notin Descendants(g)
  BY <1>1, <1>4, DescendantsClosed
<1>6. QED
  BY <1>3, <1>4, <1>5

(* Without cycles memberof has nothing extra. *)
LEMMA SettledExact == IInv => AcyclicExact
<1>1. SUFFICES ASSUME IInv, ~Busy, \A g \in live \cap Groups : g \notin Descendants(g),
                      NEW u \in live, NEW g \in memberof[u], u \notin Descendants(g)
               PROVE  FALSE
  BY DEF AcyclicExact, NothingExtra
<1> DEFINE Bad == {h \in live \cap Groups : g \in memberof[h] /\ h \notin Descendants(g)}
           Outside(h) == Entries \ Descendants(h)
<1>2. TypeOK
  BY <1>1 DEF IInv
<1>3. Bad # {}
  BY <1>1, ExtraIsInherited
<1>4. PICK C : C = {Outside(h) : h \in Bad}
  BY Zenon
<1>5. PICK s \in C : \A t \in C : t \subseteq s => t = s
  <2>1. C \in SUBSET (SUBSET Entries)
    BY <1>4
  <2>2. C # {}
    BY <1>3, <1>4, Zenon
  <2>3. QED
    BY <2>1, <2>2, FiniteAssumption, MinimalSet
<1>6. PICK x \in Bad : \A h \in Bad : Outside(h) \subseteq Outside(x) => Outside(h) = Outside(x)
  <2>1. PICK x \in Bad : s = Outside(x)
    BY <1>4, <1>5
  <2>2. \A h \in Bad : Outside(h) \in C
    BY <1>4
  <2>3. \A h \in Bad : Outside(h) \subseteq Outside(x) => Outside(h) = Outside(x)
    <3>1. SUFFICES ASSUME NEW h \in Bad, Outside(h) \subseteq s
                   PROVE  Outside(h) = s
      BY <2>1
    <3>2. PICK t : t = Outside(h)
      BY Zenon
    <3>3. QED
      BY <1>5, <2>2, <3>1, <3>2
  <2>4. QED
    BY <2>3
<1>7. PICK h \in Bad : x \in member[h]
  BY <1>1, <1>6, ExtraIsInherited
<1>8. x \in Descendants(h)
  BY <1>2, <1>7, MembersDescend
<1>9. Outside(h) \subseteq Outside(x)
  <2>1. Descendants(x) \subseteq Descendants(h)
    BY <1>2, <1>6, <1>8, DescendantsNest
  <2>2. QED
    BY <2>1
<1>10. x \in Outside(x) /\ x \notin Outside(h)
  <2>1. x \in Entries /\ x \notin Descendants(x)
    BY <1>1, <1>6 DEF Entries
  <2>2. QED
    BY <2>1, <1>8
<1>11. QED
  BY <1>6, <1>7, <1>9, <1>10

(* When apply_memberof is done and no group is nested in itself, memberof   *)
(* holds nothing but the groups an entry is nested in, whatever cycles      *)
(* there were before.                                                       *)
THEOREM NothingIsExtra == Spec => []AcyclicExact
<1>1. QED
  BY SettledExact, Invariance, PTL

=============================================================================
