---------------------------- MODULE IndexSearch -----------------------------
(***************************************************************************)
(* Queries over the indexes, in every state the indexes can be in: what    *)
(* the backend answers against a plain test of every entry.                *)
(***************************************************************************)
EXTENDS Index, Filter

CONSTANTS
  Queries,    \* the filters that are asked
  Metas,      \* the index metadata there can be
  Slopes,     \* possible results of analyse_idx_slopes: a slope per index
  Thresholds, \* FILTER_SEARCH_TEST_THRESHOLD and FILTER_EXISTS_TEST_THRESHOLD
  Limits      \* resource limits of identities

(* Every AndNot of f stands in an And, beside a term to take it from: "a    *)
(* top level or isolated AndNot" is an error to filter2idl, which logs it   *)
(* and finds nothing.                                                       *)
RECURSIVE Anchored(_)
Anchored(f) ==
  CASE IsAndNot(f)  -> FALSE
    [] f.op = "and" -> /\ \E i \in DOMAIN f.l : ~IsAndNot(f.l[i])
                       /\ \A i \in DOMAIN f.l : Anchored(IF IsAndNot(f.l[i]) THEN f.l[i].f ELSE f.l[i])
    [] f.op \in {"or", "inc"} -> \A i \in DOMAIN f.l : Anchored(f.l[i])
    [] OTHER        -> TRUE

ASSUME QueriesAssumption == \A f \in Queries : Anchored(f)

(* Filter::resolve of f under the metadata m and some slopes. *)
Resolutions(f, m) == {Optimise(Resolve(f, [k \in m |-> sl[k]])) : sl \in Slopes}

(* The indexes that a resolved filter reads. *)
RECURSIVE Reads(_)
Reads(r) ==
  CASE IsList(r)   -> UNION {Reads(r.l[i]) : i \in DOMAIN r.l}
    [] IsAndNot(r) -> Reads(r.f)
    [] OTHER       -> IF r.sf = 0 THEN {} ELSE {<<r.a, r.op>>}

(* A resolved filter may come from the cache, made under older metadata.    *)
(* The filters of users and of filter! are masked; those of dynamic groups  *)
(* are not, and one that post_create or post_modify resolved, without       *)
(* metadata, is in the cache when it is searched for.                       *)
Plan(r, hidden) == [r |-> r, hidden |-> hidden, reads |-> Reads(r)]
DynGroupPlan(f) == Plan(FastOptimise(Resolve(f, NoIdx)), TRUE)
Plans ==
  [m \in Metas |-> [f \in Queries |->
     {DynGroupPlan(f)} \cup {Plan(r, FALSE) : r \in Resolutions(IgnoreHidden(f), m)}]]

(* The query of enforce_unique for candidates, a function from names to     *)
(* uuids: has an entry other than its candidate one of the names?  The      *)
(* mutant asks for the names only.                                          *)
NameFilter(cand) ==
  Or([i \in DOMAIN SetToSeq(DOMAIN cand) |-> Eq("name", SetToSeq(DOMAIN cand)[i])])
UniqueFilter(cand) ==
  LET names == SetToSeq(DOMAIN cand)
  IN Or([i \in DOMAIN names |->
           And(<<Eq("name", names[i]), AndNot(Eq("uuid", cand[names[i]]))>>)])
Candidacies == UNION {[ns -> Uuids] : ns \in SUBSET Names \ {{}}}
UniquePlans ==
  [m \in Metas |-> [c \in Candidacies |-> Resolutions(IgnoreHidden(UniqueFilter(c)), m)]]

(* The query of check_uuids_exist: are all of us there? *)
InclusionOf(us) == Inclusion(SetToSeq({Eq("uuid", u) : u \in us}))
InclusionPlans ==
  [m \in Metas |-> [us \in SUBSET Uuids \ {{}} |-> Resolutions(IgnoreHidden(InclusionOf(us)), m)]]

-----------------------------------------------------------------------------
(* What a filter means: the live entries it matches, one by one, and the     *)
(* hidden ones too where it is not masked.                                   *)
Meaning(f, hidden) == {i \in IF hidden THEN DOMAIN entries ELSE Live : Match(entries[i], f)}

(* What each AndNot of r takes away is known exactly, or is not taken away  *)
(* before every entry is tested.                                            *)
RECURSIVE ExactNegations(_, _)
ExactNegations(r, thres) ==
  CASE IsList(r)   -> \A i \in DOMAIN r.l : ExactNegations(r.l[i], thres)
    [] IsAndNot(r) -> /\ Filter2Idl(r.f, thres, tables).k \in {"indexed", "all"}
                      /\ ExactNegations(r.f, thres)
    [] OTHER       -> TRUE

(* What a search returns matches, and all that matches is returned unless   *)
(* the search is refused for its limits or an AndNot of it was answered     *)
(* only in part (filter2idl takes such an answer away whole): however the   *)
(* filter was sorted and folded, which terms had an index, whether its      *)
(* table exists yet, and when the filter was resolved ("even if we don't    *)
(* get the index back, we can just pass to the in-memory filter test and be *)
(* done", be::search).  Limits above what is stored refuse nothing; the     *)
(* server fails on a term with a substring index.  A filter that reads a    *)
(* table that missed a write is left out.                                   *)
SearchExact ==
  \A f \in Queries : \A hidden \in BOOLEAN :
    LET meant == Meaning(f, hidden)
        plans == {p \in UNION {Plans[m][f] : m \in resolved} : p.hidden = hidden /\ p.reads \cap stale = {}}
    IN \A p \in plans : \A thres \in Thresholds :
         LET idl == Filter2Idl(p.r, thres, tables)
         IN \A lim \in Limits :
              LET a == Answered(p.r, idl, lim, entries)
              IN /\ a.ok => /\ a.ids \subseteq meant /\ Cardinality(a.ids) <= lim.results
                            /\ a.ids = meant \/ ~ExactNegations(p.r, thres)
                 /\ lim.ample => a.ok \/ (idl.k = "panic" /\ \E k \in p.reads : k[2] = "sub")

(* enforce_unique's query finds a conflict exactly when another live entry  *)
(* has the name of one of the candidates, so that they are refused when     *)
(* they must be, and only then.                                             *)
UniqueQueryExact ==
  \A c \in Candidacies : \A r \in UNION {UniquePlans[m][c] : m \in resolved} : \A thres \in Thresholds :
    Exists(r, thres, tables, entries) <=> \E n \in DOMAIN c : TakenByOther(n, c[n])

(* check_uuids_exist's query, an inclusion inside the mask of filter!,      *)
(* holds when every uuid is that of some entry and one of them is live:     *)
(* what EntryLifecycle's ReferencesExist says, found here from the indexes. *)
InclusionAnswer ==
  \A us \in SUBSET Uuids \ {{}} : \A r \in UNION {InclusionPlans[m][us] : m \in resolved} :
    \A thres \in Thresholds :
      Exists(r, thres, tables, entries)
        <=> /\ us \subseteq UNION {entries[i]["uuid"] : i \in DOMAIN entries}
            /\ us \cap UNION {entries[i]["uuid"] : i \in Live} # {}

=============================================================================
