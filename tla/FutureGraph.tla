----------------------------- MODULE FutureGraph -----------------------------
(***************************************************************************)
(* What the futures of include/FViz/Parallel/FVizExecutor.h promise,       *)
(* whatever threads, queues and locks stand behind them: a graph of tasks  *)
(* in which a continuation starts only after its antecedent is done, is    *)
(* given the antecedent's final result, and keeps the antecedent allocated *)
(* until then; every task starts at most once and ends once.               *)
(***************************************************************************)
CONSTANTS Futures, Results, None

VARIABLES status, parent, outcome, heard
vars == <<status, parent, outcome, heard>>

Init ==
    /\ status = [f \in Futures |-> "none"]
    /\ parent = [f \in Futures |-> None]
    /\ outcome = [f \in Futures |-> "BUSY"]
    /\ heard = [f \in Futures |-> "BUSY"]

\* A task, or a continuation of d, is submitted.
Submit(f, d) ==
    /\ status[f] = "none"
    /\ d # None => status[d] \notin {"none", "gone"}
    /\ status' = [status EXCEPT ![f] = "waiting"]
    /\ parent' = [parent EXCEPT ![f] = d]
    /\ UNCHANGED <<outcome, heard>>

\* The task starts; a continuation hears the result of its antecedent.
Begin(f) ==
    /\ status[f] = "waiting"
    /\ status' = [status EXCEPT ![f] = "running"]
    /\ IF parent[f] = None THEN heard' = heard
       ELSE /\ status[parent[f]] = "done"
            /\ heard' = [heard EXCEPT ![f] = outcome[parent[f]]]
    /\ UNCHANGED <<parent, outcome>>

\* A cancelled continuation gives up its antecedent without hearing it.
Skip(f) ==
    /\ status[f] = "waiting" /\ parent[f] # None
    /\ status' = [status EXCEPT ![f] = "skipped"]
    /\ UNCHANGED <<parent, outcome, heard>>

\* The future becomes ready: with any result if its task ran, else cancelled.
Finish(f, r) ==
    /\ \/ status[f] = "running"
       \/ status[f] = "skipped" /\ r = "CANCELLED"
       \/ status[f] = "waiting" /\ parent[f] = None /\ r = "CANCELLED"
    /\ status' = [status EXCEPT ![f] = "done"]
    /\ outcome' = [outcome EXCEPT ![f] = r]
    /\ UNCHANGED <<parent, heard>>

\* The future is freed, when no continuation waits for it any more.
Forget(f) ==
    /\ status[f] = "done"
    /\ \A g \in Futures : parent[g] = f => status[g] # "waiting"
    /\ status' = [status EXCEPT ![f] = "gone"]
    /\ UNCHANGED <<parent, outcome, heard>>

Next ==
    \E f \in Futures :
        \/ \E d \in Futures \cup {None} : Submit(f, d)
        \/ Begin(f) \/ Skip(f) \/ Forget(f)
        \/ \E r \in Results : Finish(f, r)

Spec == Init /\ [][Next]_vars
=============================================================================
