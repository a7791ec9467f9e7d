------------------------------ MODULE MCIndex -------------------------------
(***************************************************************************)
(* Indexes over two entries.  The schema may declare a presence index on   *)
(* "tag" and a substring index on "name", drop them and declare them       *)
(* again.  The queries join terms, with an index and without, by And, Or   *)
(* and AndNot, nested lists among them.                                    *)
(***************************************************************************)
EXTENDS IndexSearch, TLC

CONSTANTS u1, u2

MCOrder == <<"class", "name", "tag", "uuid">>

MCBase == {<<"uuid", "eq">>, <<"class", "eq">>, <<"name", "eq">>, <<"tag", "eq">>}
MCLater == MCBase \cup {<<"tag", "pres">>, <<"name", "sub">>}

MCChanges == {<<MCBase, MCLater>>, <<MCLater, MCBase>>}
MCMetas == {MCBase, MCLater}

(* One slope for all, and name better than tag with class the worst. *)
MCSlopes == {[k \in MCLater |-> 255],
             [k \in MCLater |-> CASE k[1] \in {"uuid", "name"} -> 1 [] k[1] = "tag" -> 60 [] OTHER -> 200]}

MCLimits == {[ample |-> TRUE, unindexed |-> TRUE, test |-> 9, results |-> 9],
             [ample |-> FALSE, unindexed |-> FALSE, test |-> 2, results |-> 1]}

(* Terms with an index, and the others: the presence of a tag and a part of *)
(* a name may have one.                                                     *)
Indexed == {Eq("name", 1), Eq("tag", 1)}
Terms == Indexed \cup {Pres("tag"), Sub("name", {2}), LessThan("name", 2), LessThan("tag", 2)}
Pairs(F(_), S, T) == {F(<<f, g>>) : f \in S, g \in T}

MCQueries ==
  Terms \cup Pairs(And, Indexed, Terms) \cup Pairs(Or, Indexed, Terms)
        \cup Pairs(And, Terms, {AndNot(f) : f \in {Eq("tag", 1), Pres("tag"), Sub("name", {2}), LessThan("name", 2)}})
        \cup Pairs(And, {Eq("tag", 1)}, Pairs(Or, {Eq("name", 1), LessThan("tag", 2)}, Terms))
        \cup Pairs(Or, {Eq("name", 2), LessThan("name", 2)}, Pairs(And, Indexed, {Eq("tag", 2), Pres("tag")}))
        \cup Pairs(And, {Eq("name", 1), Pres("tag")},
                   {AndNot(f) : f \in Pairs(Or, {Eq("tag", 1)}, {Eq("name", 2), LessThan("tag", 2)})
                                      \cup Pairs(And, {Eq("tag", 1)}, {Eq("tag", 2), LessThan("name", 2)})})

Symmetry == Permutations({u1, u2})

=============================================================================
