--------------------------- MODULE EntryChangelog ---------------------------
(***************************************************************************)
(* The per-entry changelog of kanidmd/lib/src/repl/entry.rs: the state an  *)
(* entry had at an anchor, the changes recorded since, and their replay.   *)
(*                                                                         *)
(* A Cid is its timestamp: one server writes, so the two uuids of a Cid    *)
(* are constant.  The bound a purge trims to carries nil uuids and sorts   *)
(* before every Cid of the same timestamp, so "before the bound" is < on   *)
(* timestamps.  The anchors map never holds more than one anchor           *)
(* (insert_anchor is commented out), so it is the pair anchorCid, anchor.  *)
(*                                                                         *)
(* Of the attributes an entry can have, the model keeps the ones the       *)
(* lifecycle depends on: the two marker classes, and the references        *)
(* member, memberof and directmemberof.  last_modified_cid is kept beside  *)
(* them (field lmc of an entry) because compare_attrs ignores it.          *)
(* add_ava_iter and remove_ava_iter push one transition per value; the     *)
(* values of one call are one transition here.                             *)
(***************************************************************************)
EXTENDS Integers, Sequences

CONSTANTS
  Uuids,     \* the entries there can be
  MaxTs      \* bound: the greatest timestamp of a Cid

ASSUME MaxTsAssumption == MaxTs \in Nat

Cids == 1..MaxTs

Attrs == [class : SUBSET {"recycled", "tombstone"},
          member : SUBSET Uuids,
          memberof : SUBSET Uuids,
          directmemberof : SUBSET Uuids]

TombstoneAttrs ==
  [class |-> {"tombstone"}, member |-> {}, memberof |-> {}, directmemberof |-> {}]

State(kind, attrs) == [kind |-> kind, attrs |-> attrs]

NonExistent == [kind |-> "NonExistent"]

Create(attrs)          == [op |-> "Create", attrs |-> attrs]
ModifyPurge(attr)      == [op |-> "ModifyPurge", attr |-> attr]
ModifyPresent(attr, vs) == [op |-> "ModifyPresent", attr |-> attr, values |-> vs]
ModifyRemoved(attr, vs) == [op |-> "ModifyRemoved", attr |-> attr, values |-> vs]
ModifyAssert(attr, vs)  == [op |-> "ModifyAssert", attr |-> attr, values |-> vs]
Recycle                == [op |-> "Recycle"]
Revive                 == [op |-> "Revive"]
Tombstone(attrs)       == [op |-> "Tombstone", attrs |-> attrs]

(* The attributes after one modification; an assertion changes nothing. *)
Modified(attrs, t) ==
  CASE t.op = "ModifyPurge"   -> [attrs EXCEPT ![t.attr] = {}]
    [] t.op = "ModifyPresent" -> [attrs EXCEPT ![t.attr] = @ \cup t.values]
    [] t.op = "ModifyRemoved" -> [attrs EXCEPT ![t.attr] = @ \ t.values]
    [] t.op = "ModifyAssert"  -> attrs

(* The (state, transition) pairs State::apply_change accepts. *)
Accepts(s, t) ==
  \/ s.kind = "NonExistent" /\ t.op = "Create"
  \/ s.kind = "Live" /\ t.op \in {"ModifyPurge", "ModifyPresent", "ModifyRemoved",
                                  "Recycle", "Tombstone"}
  \/ s.kind = "Live" /\ t.op = "ModifyAssert" /\ t.values \subseteq s.attrs[t.attr]
  \/ s.kind = "Recycled" /\ t.op \in {"ModifyPurge", "ModifyRemoved", "Revive",
                                      "Tombstone"}

After(s, t) ==
  CASE t.op = "Create"    -> State("Live", t.attrs)
    [] t.op = "Recycle"   -> State("Recycled", s.attrs)
    [] t.op = "Revive"    -> State("Live", s.attrs)
    [] t.op = "Tombstone" -> State("Tombstone", t.attrs)
    [] OTHER              -> State(s.kind, Modified(s.attrs, t))

(* A rejected transition ends its change; what the change did before it    *)
(* stays, because apply_change hands back the state it was mutating.       *)
ApplyTransition(r, t) ==
  IF r.ok /\ Accepts(r.state, t) THEN [r EXCEPT !.state = After(@, t)]
                                 ELSE [r EXCEPT !.ok = FALSE]

(* The state and the verdict after the first i transitions of a change. *)
ChangeRun(s, change) ==
  LET run[i \in 0..Len(change)] ==
        IF i = 0 THEN [state |-> s, ok |-> TRUE] ELSE ApplyTransition(run[i - 1], change[i])
  IN run

ApplyChange(s, change) == ChangeRun(s, change)[Len(change)]

(* Replay the changes from the anchor up to, not including, the bound.     *)
(* rejected is the set of Cids whose change was not accepted as a whole.   *)
ReplayStep(log, r, c) ==
  LET a == ApplyChange(r.state, log.changes[c])
  IN [state |-> a.state,
      rejected |-> IF a.ok THEN r.rejected ELSE r.rejected \cup {c}]

InRange(log, bound, c) == c \in DOMAIN log.changes /\ log.anchorCid <= c /\ c < bound

ReplayRun(log, bound) ==
  LET run[c \in 0..MaxTs] ==
        IF c = 0 THEN [state |-> log.anchor, rejected |-> {}]
        ELSE IF InRange(log, bound, c) THEN ReplayStep(log, run[c - 1], c)
        ELSE run[c - 1]
  IN run

Replay(log, bound) == ReplayRun(log, bound)[MaxTs]

NoChanges == [c \in {} |-> <<>>]

(* EntryChangelog::new, for an entry created at cid. *)
NewLog(cid, attrs) ==
  [anchorCid |-> cid, anchor |-> NonExistent,
   changes |-> [c \in {cid} |-> <<Create(attrs)>>]]

(* EntryChangelog::new_without_schema, for an entry read back from disk. *)
NewWithoutSchema(cid, attrs) ==
  IF "tombstone" \in attrs.class
    THEN [anchorCid |-> cid, anchor |-> State("Tombstone", attrs), changes |-> NoChanges]
  ELSE IF "recycled" \in attrs.class
    THEN [anchorCid |-> cid, anchor |-> State("Recycled", attrs), changes |-> NoChanges]
  ELSE NewLog(cid, attrs)

(* Mutant of Record: a second operation replaces the change of its Cid. *)
RecordFresh(log, cid, ts) ==
  [log EXCEPT !.changes = [c \in DOMAIN @ \cup {cid} |-> IF c = cid THEN ts ELSE @[c]]]

(* Every recording function (add_ava_iter, remove_ava_iter, assert_ava,    *)
(* purge_ava, recycled, revive, tombstone) makes the change of the         *)
(* transaction's Cid if it is missing and pushes its transitions on it.    *)
Record(log, cid, ts) ==
  [anchorCid |-> log.anchorCid, anchor |-> log.anchor,
   changes |-> [c \in DOMAIN log.changes \cup {cid} |->
                  IF c \notin DOMAIN log.changes THEN ts
                  ELSE IF c = cid THEN log.changes[c] \o ts
                  ELSE log.changes[c]]]

(* EntryChangelog::trim_up_to. *)
TrimUpTo(log, cid) ==
  [anchorCid |-> cid, anchor |-> Replay(log, cid).state,
   changes |-> [c \in {d \in DOMAIN log.changes : cid <= d} |-> log.changes[c]]]

(* BTreeMap::range panics when its start lies after its end, unless the    *)
(* map was never given a root: replay asks for such a range when the       *)
(* anchor does not precede the bound.                                      *)
TrimPanics(log, cid) == DOMAIN log.changes # {} /\ log.anchorCid >= cid

ContainsTailCid(log, cid) ==
  cid \in DOMAIN log.changes /\ \A c \in DOMAIN log.changes : c <= cid

(* The recycle bin counts as live. *)
IsLive(log) == log.anchor.kind # "Tombstone"

NoChangesLeft(log) == DOMAIN log.changes = {} \* mutant of CanDelete
CanDelete(log) == DOMAIN log.changes = {} /\ ~IsLive(log)

=============================================================================
