------------------------------- MODULE MemberOf -------------------------------
(***************************************************************************)
(* The memberof plugin on groups and on the entries that are only members, *)
(* with the operations that trigger it: create, modify, batch_modify and   *)
(* delete.                                                                 *)
(*                                                                         *)
(* The plugin's loop is one action per stripe.  A stripe reads every       *)
(* affected group as it was before the stripe and writes the ones that     *)
(* changed; entries that are not groups wait in other_cache for the end.   *)
(* Entries in the recycle bin are EntryLifecycle's subject: here a deleted *)
(* entry is gone.                                                          *)
(***************************************************************************)
EXTENDS FiniteSets

CONSTANTS
  Groups,       \* uuids of entries with class group
  Others,       \* uuids of entries without it
  ModLists,     \* the modlists a modify may apply to its candidates
  BatchLists    \* the ones a batch_modify may give each of its entries

Entries == Groups \cup Others

(* A modlist on member, by what it keeps of the old values and what it adds. *)
ModList == [keep : SUBSET Entries, add : SUBSET Entries]

(* A uuid has 128 bits: there are finitely many. *)
ASSUME FiniteAssumption == IsFiniteSet(Entries)
ASSUME DisjointAssumption == Groups \cap Others = {}
ASSUME ModListAssumption == ModLists \subseteq ModList /\ BatchLists \subseteq ModList

VARIABLES
  live,             \* the entries there are
  member,           \* of each group
  memberof, directmemberof,
  groupAffect,      \* apply_memberof's worklist
  otherCache        \* entries that are not groups, seen by this apply_memberof

vars == <<live, member, memberof, directmemberof, groupAffect, otherCache>>

Busy == groupAffect # {} \/ otherCache # {}

Init ==
  /\ live = {}
  /\ member = [g \in Groups |-> {}]
  /\ memberof = [e \in Entries |-> {}]
  /\ directmemberof = [e \in Entries |-> {}]
  /\ groupAffect = {} /\ otherCache = {}

-----------------------------------------------------------------------------
(* The plugin *)

MembersOf(mem, us) == UNION {mem[g] : g \in us \cap Groups}

(* do_memberof *)
Direct(u)   == {g \in live \cap Groups : u \in member[g]}
Indirect(u) == Direct(u) \cup UNION {memberof[g] : g \in Direct(u)}

(* What do_memberof would write is what there is. *)
Settled(u) == memberof[u] = Indirect(u) /\ directmemberof[u] = Direct(u)

Store(us) ==
  /\ memberof' = [u \in Entries |-> IF u \in us THEN Indirect(u) ELSE memberof[u]]
  /\ directmemberof' = [u \in Entries |-> IF u \in us THEN Direct(u) ELSE directmemberof[u]]

(* The entries of a work set that wait for the end of the loop. *)
NotGroups(us) == us \ Groups

(* The groups of a work set that a stripe writes, and whose members are     *)
(* affected next; the mutant does not ask whether they changed.             *)
Visited(us) == us \cap Groups
Changed(us) == {g \in us \cap Groups : ~Settled(g)}

(* One turn of the loop. *)
Stripe ==
  /\ groupAffect # {}
  /\ LET workSet == groupAffect \cap live
         changed == Changed(workSet)
         others  == otherCache \cup NotGroups(workSet)
     IN /\ Store(changed)
        /\ groupAffect' = MembersOf(member, changed) \ others
        /\ otherCache' = others
  /\ UNCHANGED <<live, member>>

(* The loop is over: the entries that are not groups are written. *)
Finish ==
  /\ groupAffect = {} /\ otherCache # {}
  /\ Store(otherCache)
  /\ otherCache' = {}
  /\ UNCHANGED <<live, member, groupAffect>>

-----------------------------------------------------------------------------
(* Operations.  Each passes refint's check of what it refers to, taken here *)
(* as "all of it is live": refint also lets an entry of the recycle bin be  *)
(* named beside a live one, a case that EntryLifecycle has.                 *)

(* post_create; the mutant leaves the new entries to the next operation. *)
AffectedLater(us, mem) == {}
AffectedByCreate(us, mem) == us \cup MembersOf(mem, us)

Create(us, mem) ==
  /\ ~Busy
  /\ us # {} /\ us \cap live = {}
  /\ live' = live \cup us
  /\ MembersOf(mem, us) \subseteq live'
  /\ member' = [g \in Groups |-> IF g \in us THEN mem[g] ELSE member[g]]
  /\ groupAffect' = AffectedByCreate(us, mem)
  /\ UNCHANGED <<memberof, directmemberof, otherCache>>

(* apply_modlist and post_modify_inner on the entries us; those that are    *)
(* not groups have no member for the modlist to change.                     *)
Modified(us, ms) ==
  [g \in Groups |-> IF g \in us THEN (member[g] \cap ms[g].keep) \cup ms[g].add
                                ELSE member[g]]

(* The mutant forgets the members that were there before. *)
AffectedAfter(us, mem) == us \cup MembersOf(mem, us)
AffectedByModify(us, mem) == us \cup MembersOf(member, us) \cup MembersOf(mem, us)

ModifyEach(us, ms) ==
  /\ ~Busy
  /\ us # {} /\ us \subseteq live
  /\ member' = Modified(us, ms)
  /\ MembersOf(member', us) \subseteq live
  /\ groupAffect' = AffectedByModify(us, member')
  /\ UNCHANGED <<live, memberof, directmemberof, otherCache>>

Modify(us, m) == ModifyEach(us, [g \in us \cap Groups |-> m])

BatchModify(us, ms) == ModifyEach(us, ms)

(* post_delete; the mutant trusts refint to have taken the groups out of    *)
(* memberof, which leaves the groups above them.                            *)
AffectedNoMore(us) == {}
AffectedByDelete(us) == MembersOf(member, us)

(* delete: refint's post_delete takes the deleted uuids out of every        *)
(* reference, then the members of what was deleted are affected.            *)
Delete(us) ==
  /\ ~Busy
  /\ us # {} /\ us \subseteq live
  /\ live' = live \ us
  /\ member' = [g \in Groups |-> IF g \in us THEN {} ELSE member[g] \ us]
  /\ memberof' = [e \in Entries |-> IF e \in us THEN {} ELSE memberof[e] \ us]
  /\ directmemberof' = [e \in Entries |-> IF e \in us THEN {} ELSE directmemberof[e] \ us]
  /\ groupAffect' = AffectedByDelete(us)
  /\ UNCHANGED otherCache

Request ==
  \/ \E us \in SUBSET (Entries \ live) : \E mem \in [us \cap Groups -> SUBSET (live \cup us)] : Create(us, mem)
  \/ \E us \in SUBSET live :
       \/ \E m \in ModLists : Modify(us, m)
       \/ \E ms \in [us \cap Groups -> BatchLists] : BatchModify(us, ms)
       \/ Delete(us)

Next ==
  \/ ~Busy /\ Request
  \/ Stripe
  \/ Finish

Spec == Init /\ [][Next]_vars

(* The plugin runs inside the request's transaction: once it has started,   *)
(* nothing else happens and nothing stops it before it is done.             *)
FairSpec == Spec /\ WF_vars(Stripe \/ Finish)

-----------------------------------------------------------------------------
(* Properties *)

(* The type invariant. *)
TypeOK ==
  /\ live \subseteq Entries
  /\ member \in [Groups -> SUBSET Entries]
  /\ memberof \in [Entries -> SUBSET Groups]
  /\ directmemberof \in [Entries -> SUBSET Groups]
  /\ groupAffect \subseteq Entries
  /\ otherCache \subseteq Others

(* The work list misses nothing: in the middle of the loop too, an entry     *)
(* that is neither in it nor in other_cache agrees with its groups.          *)
WorklistCovers ==
  \A u \in live \ (groupAffect \cup otherCache) : Settled(u)

(* The entries that must inherit g: the least set that has its members and   *)
(* the members of every group in it.                                         *)
Closed(s)      == \A g \in s \cap live \cap Groups : member[g] \subseteq s
Descendants(g) == {u \in Entries : \A s \in SUBSET Entries :
                                     member[g] \subseteq s /\ Closed(s) => u \in s}

(* No membership is lost: when the plugin is done, every entry nested in a   *)
(* live group at any depth, through cycles too, has it in memberof.          *)
NoMembershipLost ==
  ~Busy => \A g \in live \cap Groups : \A u \in Descendants(g) : g \in memberof[u]

NothingExtra(u) == \A g \in memberof[u] : u \in Descendants(g)

(* When the plugin is done and no group is nested in itself, memberof is     *)
(* exactly the groups an entry is nested in, whatever cycles there were      *)
(* before.                                                                   *)
AcyclicExact ==
  ~Busy /\ (\A g \in live \cap Groups : g \notin Descendants(g)) =>
    \A u \in live : NothingExtra(u)

(* Every operation completes: the loop reaches its base case, "if no changes *)
(* occur, we have completed the operation".                                  *)
Terminates == Busy ~> ~Busy

=============================================================================
