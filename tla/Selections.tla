----------------------------- MODULE Selections -----------------------------
(***************************************************************************)
(* Array.prototype.filter and lodash's filter, omit, pick and find, as the *)
(* components use them: what is kept of a sequence, in its order.  In      *)
(* closed form, by the places kept, and not by recursion, so that it can   *)
(* be proved about.                                                        *)
(***************************************************************************)
EXTENDS Integers, FiniteSets

\* The places of a sequence that hold something of a set, and which of them one is.
Places(seq, set) == {i \in DOMAIN seq : seq[i] \in set}
RankIn(places, i) == Cardinality({k \in places : k <= i})

\* The elements of the sequence that are in the set, in the order of the sequence.
Among(seq, set) ==
    LET places == Places(seq, set)
    IN  [j \in 1 .. Cardinality(places) |-> seq[CHOOSE i \in places : RankIn(places, i) = j]]
=============================================================================
