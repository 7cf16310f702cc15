----------------------------- MODULE Deployment -----------------------------
(***************************************************************************)
(* What an operator may rely on about the parts of a deployment that need  *)
(* each other, however often the bring-up script of OnapAutomation is      *)
(* started and wherever it stops: in each run first all policy models are  *)
(* recorded, at once, then one network service is created, then that one   *)
(* is instantiated, and nothing is done any more about an earlier run.     *)
(***************************************************************************)
EXTENDS Naturals

CONSTANT MaxRuns

Run == 1..MaxRuns

VARIABLES
    models,     \* whether the policy models of each run are recorded
    service     \* what has become of the network service of each run

deployVars == <<models, service>>

Init ==
    /\ models = [r \in Run |-> "none"]
    /\ service = [r \in Run |-> "none"]

(* No run after r has left anything behind.                                *)
Latest(r) ==
    \A q \in Run : q > r => models[q] = "none" /\ service[q] = "none"

Record(r) ==
    /\ Latest(r) /\ models[r] = "none" /\ service[r] = "none"
    /\ models' = [models EXCEPT ![r] = "all"]
    /\ UNCHANGED service

Create(r) ==
    /\ Latest(r) /\ models[r] = "all" /\ service[r] = "none"
    /\ service' = [service EXCEPT ![r] = "created"]
    /\ UNCHANGED models

Instantiate(r) ==
    /\ Latest(r) /\ service[r] = "created"
    /\ service' = [service EXCEPT ![r] = "instantiated"]
    /\ UNCHANGED models

Next == \E r \in Run : Record(r) \/ Create(r) \/ Instantiate(r)

Spec == Init /\ [][Next]_deployVars
=============================================================================
