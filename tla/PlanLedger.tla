----------------------------- MODULE PlanLedger -----------------------------
(***************************************************************************)
(* What the planning gateway promises to a client that only looks at       *)
(* GET /tasks/{id} and at "active_task_id" of GET /robot/status: every     *)
(* task has one history  absent -> planning -> terminal,  the gateway      *)
(* plans for one task at a time, and a restart leaves no task planning.    *)
(* Nothing is said of threads, connections, locks or timeouts: PlanGateway *)
(* is shown to implement this module.                                      *)
(***************************************************************************)
CONSTANTS Tasks,      \* the identifiers the gateway hands out
          NoTask      \* "no task": not one of them

VARIABLES record,     \* the stored status of every task
          live,       \* the task the gateway works on, or NoTask
          serving     \* the gateway accepts work

ledger == <<record, live, serving>>

Terminal == {"planned", "failed", "interrupted"}

Init == /\ record = [t \in Tasks |-> "absent"]
        /\ live = NoTask
        /\ serving = FALSE

(* A start: whatever an earlier run left unfinished is interrupted.        *)
Start == /\ ~serving
         /\ serving' = TRUE
         /\ record' = [t \in Tasks |-> IF record[t] = "planning"
                                       THEN "interrupted" ELSE record[t]]
         /\ UNCHANGED live

(* The gateway takes a task nobody has seen, and only when it has none.    *)
Take(t) == /\ serving
           /\ live = NoTask
           /\ record[t] = "absent"
           /\ live' = t
           /\ UNCHANGED <<record, serving>>

(* Only the task taken can become visible.                                 *)
Publish(t) == /\ serving
              /\ live = t
              /\ record[t] = "absent"
              /\ record' = [record EXCEPT ![t] = "planning"]
              /\ UNCHANGED <<live, serving>>

(* A result is stored once; the task may be let go in the same step.       *)
Settle(t) == /\ record[t] = "planning"
             /\ \E s \in Terminal : record' = [record EXCEPT ![t] = s]
             /\ live' \in {live, IF live = t THEN NoTask ELSE live}
             /\ UNCHANGED serving

Release == /\ live # NoTask
           /\ live' = NoTask
           /\ UNCHANGED <<record, serving>>

Stop == /\ serving
        /\ serving' = FALSE
        /\ live' = NoTask
        /\ UNCHANGED record

Next == \/ Start
        \/ Stop
        \/ Release
        \/ \E t \in Tasks : Take(t) \/ Publish(t) \/ Settle(t)

Spec == Init /\ [][Next]_ledger
=============================================================================
