------------------------------- MODULE Filter -------------------------------
(***************************************************************************)
(* Filters, and how the backend answers them: a filter is resolved against *)
(* the index metadata, optimised, turned into a list of candidate ids      *)
(* (filter2idl) and, where the indexes did not settle it, tested against   *)
(* every candidate.  Pure definitions over                                 *)
(*   meta    the indexes the schema declares, each with its slope;         *)
(*   tables  the index tables that exist: for each, pairs <<key, id>>;     *)
(*   es      the entries, by id: an entry gives every attribute its set of *)
(*           values, the empty set when it is absent.                      *)
(* An index is named by an attribute and a kind, "eq", "pres" or "sub".    *)
(* Substring filters carry the set of values that contain the substring.   *)
(***************************************************************************)
EXTENDS Integers, Sequences, SequencesExt

CONSTANT AttrOrder   \* the attributes in the order of their names

AttrRank(a) == CHOOSE i \in DOMAIN AttrOrder : AttrOrder[i] = a

(* The terms.  sf is the slopeyness factor, 0 for None. *)
Eq(a, v)       == [op |-> "eq", a |-> a, v |-> v, sf |-> 0]
Sub(a, vs)     == [op |-> "sub", a |-> a, vs |-> vs, sf |-> 0]
Pres(a)        == [op |-> "pres", a |-> a, sf |-> 0]
LessThan(a, v) == [op |-> "lt", a |-> a, v |-> v, sf |-> 0]
And(l)         == [op |-> "and", l |-> l, sf |-> 0]
Or(l)          == [op |-> "or", l |-> l, sf |-> 0]
Inclusion(l)   == [op |-> "inc", l |-> l, sf |-> 0]
AndNot(f)      == [op |-> "andnot", f |-> f, sf |-> 0]

IsAndNot(f) == f.op = "andnot"
IsList(f)   == f.op \in {"and", "or", "inc"}

(* new_ignore_hidden: what filter! puts around a filter. *)
IgnoreHidden(f) ==
  And(<<AndNot(Or(<<Eq("class", "tombstone"), Eq("class", "recycled")>>)), f>>)

-----------------------------------------------------------------------------
(* Resolution and optimisation *)

(* resolve_idx: a term gets the slope of its index.  There is no index for  *)
(* LessThan, and lists get theirs when they are optimised.  resolve_no_idx  *)
(* does the same with the two indexes it takes for granted.                 *)
RECURSIVE Resolve(_, _)
Resolve(f, meta) ==
  CASE IsList(f)     -> [f EXCEPT !.l = [i \in DOMAIN f.l |-> Resolve(f.l[i], meta)]]
    [] IsAndNot(f)   -> [f EXCEPT !.f = Resolve(f.f, meta)]
    [] f.op = "lt"   -> f
    [] OTHER         -> IF <<f.a, f.op>> \in DOMAIN meta
                          THEN [f EXCEPT !.sf = meta[<<f.a, f.op>>]] ELSE f

NoIdx == [k \in {<<"name", "eq">>, <<"uuid", "eq">>} |-> 1]

Kind == [eq |-> 1, pres |-> 2, lt |-> 3, sub |-> 4, and |-> 5, or |-> 5, inc |-> 5, andnot |-> 5]

(* Ord for FilterResolved; terms that differ in their value only are left   *)
(* as they are.  A term without a slope comes after every term with one.    *)
Slope(f) == IF f.sf = 0 THEN 256 ELSE f.sf
Less(f, g) ==
  \/ Slope(f) < Slope(g)
  \/ /\ Slope(f) = Slope(g)
     /\ \/ Kind[f.op] < Kind[g.op]
        \/ f.op = g.op /\ Kind[f.op] < 5 /\ AttrRank(f.a) < AttrRank(g.a)

(* dedup removes equal neighbours.  Equal terms are neighbours once sorted, *)
(* by their values too; lists and AndNots are not moved together.           *)
Dedup(l) ==
  LET Same(acc, f) == \/ acc # <<>> /\ Last(acc) = f
                      \/ Kind[f.op] < 5 /\ Contains(acc, f)
  IN FoldLeft(LAMBDA acc, f : IF Same(acc, f) THEN acc ELSE Append(acc, f), <<>>, l)

(* The terms of inner lists of the same kind move up, after the others. *)
Folded(op, l) ==
  LET same == SelectSeq(l, LAMBDA f : f.op = op)
  IN SelectSeq(l, LAMBDA f : f.op # op) \o FlattenSeq([i \in DOMAIN same |-> same[i].l])

(* The list of f is now l: an And is as steep as its first term, the others  *)
(* as their last.                                                           *)
WithTerms(f, l) ==
  [op |-> f.op, l |-> l,
   sf |-> IF l = <<>> THEN 0 ELSE IF f.op = "and" THEN Head(l).sf ELSE Last(l).sf]

(* fast_optimise, for what resolve_no_idx gives: the outer terms only. *)
FastOptimise(f) ==
  IF f.op \in {"and", "inc"} THEN WithTerms(f, Dedup(SortSeq(f.l, Less))) ELSE f

RECURSIVE Optimise(_)
Optimise(f) ==
  IF ~IsList(f) THEN f
  ELSE LET folded == Folded(f.op, [i \in DOMAIN f.l |-> Optimise(f.l[i])])
           sorted == Dedup(IF f.op = "or" THEN SortSeq(folded, LAMBDA g, h : Less(h, g))
                                          ELSE SortSeq(folded, Less))
       IN IF f.op # "inc" /\ Len(folded) = 1
            THEN folded[1]
            ELSE WithTerms(f, sorted)

-----------------------------------------------------------------------------
(* filter2idl.  An IdList is all ids, or a set that is exact ("indexed"), or *)
(* one that still has to be tested ("partial", and "thres" when a threshold  *)
(* ended the evaluation).  The key of a substring index is unimplemented!():  *)
(* the evaluation stops there, whatever it has so far ("panic").             *)

Idl(k, s) == [k |-> k, s |-> s]
AllIds == Idl("all", {})
NoIds == Idl("indexed", {})
Panic == Idl("panic", {})

(* IDLBitRange::below_threshold *)
Below(s, thres) == Cardinality(s) < thres

(* get_idl: None when there is no such table. *)
Lookup(tables, idx, key) ==
  IF idx \in DOMAIN tables THEN Idl("indexed", {p[2] : p \in {q \in tables[idx] : q[1] = key}})
                           ELSE AllIds

(* What is left to be tested once two lists are joined. *)
Join(j, k) == IF "thres" \in {j, k} THEN "thres" ELSE IF "partial" \in {j, k} THEN "partial" ELSE "indexed"

(* An And with a term that is all ids keeps the other, to be tested; the    *)
(* mutant takes it as settled.                                              *)
Settled(x) == x
ToBeTested(x) == IF x.k = "indexed" THEN Idl("partial", x.s) ELSE x

RECURSIVE Filter2Idl(_, _, _), AndRest(_, _, _, _)

(* The And loop: cand so far, and the terms that remain, AndNots last. *)
AndRest(cand, rest, thres, tables) ==
  IF rest = <<>> THEN cand
  ELSE LET neg   == IsAndNot(Head(rest))
           inter == Filter2Idl(IF neg THEN Head(rest).f ELSE Head(rest), thres, tables)
           kind  == Join(cand.k, inter.k)
           s     == IF neg THEN cand.s \ inter.s ELSE cand.s \cap inter.s
           Go(x) == AndRest(x, Tail(rest), thres, tables)
       IN IF inter.k = "panic" THEN Panic
          ELSE IF "all" \in {cand.k, inter.k}
            THEN Go(IF neg THEN AllIds
                      ELSE IF cand.k = "all" THEN ToBeTested(inter) ELSE ToBeTested(cand))
          ELSE IF Below(s, thres) /\ Tail(rest) # <<>> /\ ~(neg /\ kind = "indexed")
            THEN Idl("thres", s)
          ELSE IF ~neg /\ kind = "indexed" /\ s = {}
            THEN NoIds
          ELSE Go(Idl(kind, s))

AndIdl(l, thres, tables) ==
  LET pos   == SelectSeq(l, LAMBDA f : ~IsAndNot(f))
      neg   == SelectSeq(l, IsAndNot)
      rest  == Tail(pos) \o neg
      first == Filter2Idl(Head(pos), thres, tables)
  IN IF pos = <<>> THEN NoIds
     ELSE IF first.k = "panic" THEN Panic
     ELSE IF first.k # "all" /\ Below(first.s, thres) /\ rest # <<>> THEN Idl("thres", first.s)
     ELSE IF first.k # "all" /\ first.s = {} THEN NoIds
     ELSE AndRest(first, rest, thres, tables)

(* The first term that is all ids, or panics, ends an Or. *)
OrIdl(idls) ==
  LET kinds == {idls[i].k : i \in DOMAIN idls}
      ends  == {i \in DOMAIN idls : idls[i].k \in {"all", "panic"}}
  IN IF ends # {} THEN idls[Min(ends)]
     ELSE Idl(IF "thres" \in kinds THEN "thres" ELSE IF "partial" \in kinds THEN "partial" ELSE "indexed",
              UNION {idls[i].s : i \in DOMAIN idls})

(* Every term must be settled by an index and have an id, and the first     *)
(* that does not ends an Inclusion; OrIdl, as its mutant, asks for one.     *)
InclusionIdl(idls) ==
  LET failed == {i \in DOMAIN idls : idls[i].k # "indexed" \/ idls[i].s = {}}
  IN IF failed = {} THEN OrIdl(idls)
     ELSE IF idls[Min(failed)].k \in {"indexed", "panic"} THEN idls[Min(failed)]
     ELSE Idl("partial", {})

Filter2Idl(f, thres, tables) ==
  LET Idls == [i \in DOMAIN f.l |-> Filter2Idl(f.l[i], thres, tables)]
  IN CASE f.op = "and"    -> AndIdl(f.l, thres, tables)
       [] f.op = "or"     -> OrIdl(Idls)
       [] f.op = "inc"    -> InclusionIdl(Idls)
       [] f.op = "andnot" -> NoIds
       [] f.op = "lt"     -> AllIds
       [] OTHER           -> IF f.sf = 0 THEN AllIds
                             ELSE IF f.op = "sub" THEN Panic
                             ELSE Lookup(tables, <<f.a, f.op>>, IF f.op = "pres" THEN "_" ELSE f.v)

-----------------------------------------------------------------------------
(* Answers *)

(* entry_match_no_index *)
RECURSIVE Match(_, _)
Match(e, f) ==
  CASE f.op = "eq"     -> f.v \in e[f.a]
    [] f.op = "sub"    -> e[f.a] \cap f.vs # {}
    [] f.op = "pres"   -> e[f.a] # {}
    [] f.op = "lt"     -> \E v \in e[f.a] : v < f.v
    [] f.op = "and"    -> \A i \in DOMAIN f.l : Match(e, f.l[i])
    [] f.op = "or"     -> \E i \in DOMAIN f.l : Match(e, f.l[i])
    [] f.op = "inc"    -> FALSE
    [] f.op = "andnot" -> ~Match(e, f.f)

(* The entries get_identry loads for an IdList, tested unless it is exact. *)
Candidates(idl, es) == IF idl.k = "all" THEN DOMAIN es ELSE idl.s \cap DOMAIN es
Tested(idl, f, es) ==
  IF idl.k = "indexed" THEN Candidates(idl, es)
  ELSE {i \in Candidates(idl, es) : Match(es[i], f)}

Failed == [ok |-> FALSE, ids |-> {}]

(* be::search of a resolved filter, once filter2idl has given its list, under *)
(* the resource limits lim.                                                   *)
Answered(f, idl, lim, es) ==
  LET ids == Tested(idl, f, es)
  IN IF \/ idl.k = "panic"
        \/ idl.k = "all" /\ ~lim.unindexed
        \/ idl.k = "partial" /\ ~Below(idl.s, lim.test)
        \/ idl.k = "indexed" /\ ~Below(idl.s, lim.results)
        \/ Cardinality(ids) > lim.results
     THEN Failed ELSE [ok |-> TRUE, ids |-> ids]

(* be::exists, which the server itself asks without limits. *)
Exists(f, thres, tables, es) ==
  LET idl == Filter2Idl(f, thres, tables)
  IN IF idl.k = "indexed" THEN idl.s # {} ELSE Tested(idl, f, es) # {}

=============================================================================
