------------------------------- MODULE MCTags -------------------------------
EXTENDS TagQueries, TLC
CONSTANTS d1, d2, f1, f2, x, y, tag, person, r1
MCDeskOf == (f1 :> d1) @@ (f2 :> d2)
MCTypeOf == (x :> tag) @@ (y :> tag)
MCEntities == 1 :> [name |-> x, by |-> "user"] @@ 2 :> [name |-> y, by |-> "machine"]
MCVocabulary == {<<1, d1>>}
MCLinks == {[e |-> 2, f |-> f1, region |-> FALSE, run |-> r1, by |-> "machine", desk |-> d1]}

\* All that does not break a property.
TagOps == Namers \cup Linkers \cup Removers
TypeOps == {"createType", "deleteType"}
Overlaps == ({{a, b} : a, b \in TagOps} \ Breaking)
              \cup {{a, b} : a \in TypeOps, b \in TypeOps \cup {"createInDesk"}}
CallSymmetry == Permutations(Calls)
=============================================================================
