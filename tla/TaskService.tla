---------------------------- MODULE TaskService ----------------------------
(***************************************************************************)
(* What the task pool promises to a module, without workers, contexts or   *)
(* locks: jobs start in the order they were accepted, each is run or       *)
(* dropped once, and after a drain nothing of the module runs any more.    *)
(***************************************************************************)
EXTENDS Sequences

CONSTANTS Modules, Jobs

VARIABLES
    pending,    \* accepted jobs that have not started, in order
    active,     \* jobs being run
    outcome,    \* what became of each job
    gate        \* whether a module still accepts jobs, or anything at all

vars == <<pending, active, outcome, gate>>

Init ==
    /\ pending = [m \in Modules |-> <<>>]
    /\ active = [m \in Modules |-> {}]
    /\ outcome = [j \in Jobs |-> "new"]
    /\ gate = [m \in Modules |-> "open"]

Accept(m, j) ==
    /\ gate[m] = "open"
    /\ outcome[j] = "new"
    /\ outcome' = [outcome EXCEPT ![j] = "accepted"]
    /\ pending' = [pending EXCEPT ![m] = Append(@, j)]
    /\ UNCHANGED <<active, gate>>

\* A job submitted by a job runs at once; a drain in progress waits for it too.
AcceptInline(m, j) ==
    /\ gate[m] # "closed"
    /\ outcome[j] = "new"
    /\ outcome' = [outcome EXCEPT ![j] = "accepted"]
    /\ active' = [active EXCEPT ![m] = @ \cup {j}]
    /\ UNCHANGED <<pending, gate>>

Start(m) ==
    /\ pending[m] # <<>>
    /\ pending' = [pending EXCEPT ![m] = Tail(@)]
    /\ active' = [active EXCEPT ![m] = @ \cup {Head(pending[m])}]
    /\ UNCHANGED <<outcome, gate>>

Finish(m, j) ==
    /\ j \in active[m]
    /\ active' = [active EXCEPT ![m] = @ \ {j}]
    /\ \E result \in {"ran", "dropped"} : outcome' = [outcome EXCEPT ![j] = result]
    /\ UNCHANGED <<pending, gate>>

\* Modules stop accepting; one is closed for good only when it is idle.
Shut ==
    /\ gate' \in [Modules -> {"open", "sealed", "closed"}]
    /\ \A m \in Modules :
           gate'[m] # gate[m] =>
               /\ gate[m] # "closed" /\ gate'[m] # "open"
               /\ gate'[m] = "closed" => pending[m] = <<>> /\ active[m] = {}
    /\ UNCHANGED <<pending, active, outcome>>

Next ==
    \/ Shut
    \/ \E m \in Modules : \/ Start(m)
                          \/ \E j \in Jobs : Accept(m, j) \/ AcceptInline(m, j) \/ Finish(m, j)

Spec == Init /\ [][Next]_vars

=============================================================================
