----------------------------- MODULE MCExecutor -----------------------------
(* Instances of Executor for TLC. *)
EXTENDS Executor, TLC

CONSTANTS e1, e2, w1, w2, f1, f2, f3

\* Two workers on one executor.
HomeOne == w1 :> e1 @@ w2 :> e1
\* One worker on each of two executors.
HomeTwo == w1 :> e1 @@ w2 :> e2
HomeSingle == w1 :> e1

\* f3 overtakes the others.
PriorityMixed == [f \in Futures |-> IF f = f3 THEN 1 ELSE 0]
PriorityEqual == [f \in Futures |-> 0]

\* Any shape of dependency.
AnyAntecedent == [f \in Futures |-> (Futures \ {f}) \cup {None}]

\* Any shape, the futures being numbered so that an antecedent comes first.
EarlierAntecedent == f1 :> {None} @@ f2 :> {None, f1} @@ f3 :> {None, f1, f2}

\* The shape of fviz_algorithm_update_async_chain: f1, then f2, then f3, whose
\* user-data destructor destroys the links f1 and f2.
ChainAntecedent == f1 :> {None} @@ f2 :> {f1} @@ f3 :> {f2}
ChainFrees == [f \in Futures |-> IF f = f3 THEN <<f1, f2>> ELSE <<>>]
NoFrees == [f \in Futures |-> <<>>]

Symmetric == Permutations({f1, f2}) \cup Permutations({w1, w2})
=============================================================================
