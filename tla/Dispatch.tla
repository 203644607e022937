------------------------------ MODULE Dispatch ------------------------------
(***************************************************************************)
(* DispatchService as the gateway runs it: a task_start of the frontend     *)
(* becomes a capture_cmd, the detection_result a plan of RobotService, and  *)
(* the end of the plan a task_result.                                       *)
(*                                                                          *)
(* The algorithm module is seen through the sessions of the dispatch        *)
(* server, RobotService through submit, on_finished and status()["busy"]:   *)
(* PlanGateway has the rest of it.  One action is one message handler, one  *)
(* callback, or one step of a background coroutine.                         *)
(***************************************************************************)
EXTENDS Naturals

CONSTANTS Names,      \* task_id values the frontend uses, again and again
          Objs,       \* identities of TaskState objects (reused when free)
          NoObj,
          Http,       \* a plan of POST /robot/plan
          NoPlan,
          MaxFaults   \* bound on the SQLite errors of a behaviour

ASSUME DispatchAssumption == /\ Names # {} /\ NoObj \notin Objs
                             /\ {Http, NoPlan} \cap Objs = {} /\ Http # NoPlan
                             /\ MaxFaults \in Nat

VARIABLES
  table,      \* _tasks: the TaskState of every task_id seen, or NoObj
  name,       \* its task_id
  finished,   \* is_finished
  awaiting,   \* awaiting_plan
  phase,      \* phase
  stopped,    \* ghost: terminated by an emergency stop while unfinished
  results,    \* ghost: task_result messages pushed for the object
  capture,    \* its capture_cmd and the answer to it
  plan,       \* its _plan_target coroutine and the plan it submitted
  live,       \* RobotService._active_id: whose plan it is
  locked,     \* _submission_lock: a submit() creates its row
  algorithm,  \* the session: "online", "closing" (is_closing()), "offline"
  shutdown,   \* "no", "robot" (RobotService.close began), "all"
  faults

tasks == <<table, name, finished, awaiting, phase, stopped, results>>
robot == <<live, locked>>
vars  == <<tasks, capture, plan, robot, algorithm, shutdown, faults>>

InPlan == {"scheduled", "creating", "running"}
Asking == {"due", "asked", "replied"}

TypeOK ==
  /\ table \in [Names -> Objs \cup {NoObj}]
  /\ name \in [Objs -> Names]
  /\ finished \in SUBSET Objs /\ awaiting \in SUBSET Objs
  /\ stopped \in SUBSET Objs
  /\ phase \in [Objs -> {"sorting", "planned", "failed", "interrupted"}]
  /\ results \in [Objs -> Nat]
  /\ capture \in [Objs -> {"none", "over"} \cup Asking]
  /\ plan \in [Objs -> {"none", "done", "lost"} \cup InPlan]
  /\ live \in Objs \cup {Http, NoPlan} /\ locked \in BOOLEAN
  /\ algorithm \in {"online", "closing", "offline"}
  /\ shutdown \in {"no", "robot", "all"}
  /\ faults \in Nat

someName == CHOOSE n \in Names : TRUE    \* of an object not in use

Init ==
  /\ table = [n \in Names |-> NoObj]
  /\ name = [o \in Objs |-> someName]
  /\ finished = Objs /\ awaiting = {} /\ stopped = {}
  /\ phase = [o \in Objs |-> "sorting"] /\ results = [o \in Objs |-> 0]
  /\ capture = [o \in Objs |-> "none"] /\ plan = [o \in Objs |-> "none"]
  /\ live = NoPlan /\ locked = FALSE
  /\ algorithm = "offline" /\ shutdown = "no" /\ faults = 0

known == {o \in Objs : table[name[o]] = o}

unfinished == known \ finished

Fault == faults < MaxFaults /\ faults' = faults + 1

(* Definitions named ..._M are mutants: the definition that follows with a  *)
(* plausible bug.  No action uses them; they test the properties.           *)

(* task_start is refused with ROBOT_BUSY.                                   *)
busy_M == live # NoPlan
busy == live # NoPlan \/ unfinished # {}

(* _push_task_result of tasks that have just ended in phase p.              *)
Verdict(S, p) ==
  /\ finished' = finished \cup S
  /\ phase' = [o \in Objs |-> IF o \in S THEN p ELSE phase[o]]
  /\ results' = [o \in Objs |-> results[o] + IF o \in S THEN 1 ELSE 0]
  /\ UNCHANGED <<table, name, awaiting, stopped>>

on_disconnect_M == Verdict(unfinished, "failed")

(* on_disconnect("algorithm"): tasks with no detection yet fail.            *)
on_disconnect == Verdict(unfinished \ awaiting, "failed")
-----------------------------------------------------------------------------
(* Messages of the frontend                                                 *)

(* Nothing refers to the object any more.                                   *)
Free(o) == o \notin known /\ capture[o] \notin Asking /\ plan[o] \notin InPlan

(* _on_task_start, when it is not refused.                                  *)
TaskStart(n) ==
  /\ ~busy /\ algorithm = "online"
  /\ \E o \in Objs :
       /\ Free(o)
       /\ table' = [table EXCEPT ![n] = o] /\ name' = [name EXCEPT ![o] = n]
       /\ finished' = finished \ {o} /\ awaiting' = awaiting \ {o}
       /\ stopped' = stopped \ {o}
       /\ phase' = [phase EXCEPT ![o] = "sorting"]
       /\ results' = [results EXCEPT ![o] = 0]
       /\ capture' = [capture EXCEPT ![o] = "due"]
       /\ plan' = [plan EXCEPT ![o] = "none"]
  /\ UNCHANGED <<robot, algorithm, shutdown, faults>>

(* _on_error_report with EMERGENCY_STOP from the frontend or the algorithm. *)
EmergencyStop ==
  /\ unfinished # {}
  /\ finished' = finished \cup known
  /\ stopped' = stopped \cup unfinished
  /\ UNCHANGED <<table, name, awaiting, phase, results, capture, plan, robot,
                 algorithm, shutdown, faults>>
-----------------------------------------------------------------------------
(* The algorithm module                                                     *)

(* send_to(capture_cmd): to whatever session there is by now.               *)
SendCapture(o) ==
  /\ capture[o] = "due"
  /\ capture' = [capture EXCEPT ![o] = IF algorithm = "online" THEN "asked"
                                                              ELSE "over"]
  /\ UNCHANGED <<tasks, plan, robot, algorithm, shutdown, faults>>

(* AlgorithmService.on_message answers every capture_cmd.                   *)
AlgorithmAnswers(o) ==
  /\ algorithm = "online" /\ capture[o] = "asked"
  /\ capture' = [capture EXCEPT ![o] = "replied"]
  /\ UNCHANGED <<tasks, plan, robot, algorithm, shutdown, faults>>

(* A connection ends; what the server has read into its buffer may still be *)
(* handled.                                                                 *)
hung_up(S) == [o \in Objs |-> IF \/ capture[o] = "asked"
                                 \/ capture[o] = "replied" /\ o \in S
                              THEN "over" ELSE capture[o]]

AlgorithmBreaks ==
  /\ algorithm = "online"
  /\ algorithm' = "closing"
  /\ \E S \in SUBSET Objs : capture' = hung_up(S)
  /\ UNCHANGED <<tasks, plan, robot, shutdown, faults>>

(* _unregister: the handler ends, a send fails, or the patrol finds no      *)
(* heartbeat.                                                               *)
AlgorithmLost ==
  /\ algorithm # "offline"
  /\ algorithm' = "offline"
  /\ \E S \in SUBSET Objs : capture' = hung_up(S)
  /\ on_disconnect
  /\ UNCHANGED <<plan, robot, shutdown, faults>>

AlgorithmRegisters_M ==
  /\ algorithm # "online"
  /\ algorithm' = "online"
  /\ UNCHANGED <<tasks, capture, plan, robot, shutdown, faults>>

(* _handle_register: a closing session of the same name is unregistered.    *)
AlgorithmRegisters ==
  /\ algorithm # "online"
  /\ algorithm' = "online"
  /\ IF algorithm = "closing" THEN on_disconnect ELSE UNCHANGED tasks
  /\ UNCHANGED <<capture, plan, robot, shutdown, faults>>

(* What a detection_result finds under its task_id.                         *)
detected_M(o) == table[name[o]]
detected(o) == IF table[name[o]] \in unfinished \ awaiting
               THEN table[name[o]] ELSE NoObj

(* _on_detection_result: ignored, or no target, or a target to plan for.    *)
DetectionIgnored(o) ==
  /\ capture[o] = "replied" /\ detected(o) = NoObj
  /\ capture' = [capture EXCEPT ![o] = "over"]
  /\ UNCHANGED <<tasks, plan, robot, algorithm, shutdown, faults>>

DetectionEmpty(o) ==
  /\ capture[o] = "replied" /\ detected(o) # NoObj
  /\ capture' = [capture EXCEPT ![o] = "over"]
  /\ Verdict({detected(o)}, "sorting")
  /\ UNCHANGED <<plan, robot, algorithm, shutdown, faults>>

DetectionTarget(o) ==
  /\ capture[o] = "replied" /\ detected(o) # NoObj
  /\ capture' = [capture EXCEPT ![o] = "over"]
  /\ awaiting' = awaiting \cup {detected(o)}
  /\ plan' = [plan EXCEPT ![detected(o)] = "scheduled"]
  /\ UNCHANGED <<table, name, finished, phase, stopped, results, robot,
                 algorithm, shutdown, faults>>
-----------------------------------------------------------------------------
(* _plan_target and RobotService                                            *)

refused_M(o) == UNCHANGED tasks

(* except Exception: the task fails.                                        *)
refused(o) == Verdict({o}, "failed")

(* The target is no valid request: submit() does not get to its lock.       *)
PlanInvalid(o) ==
  /\ plan[o] = "scheduled"
  /\ plan' = [plan EXCEPT ![o] = "done"]
  /\ refused(o)
  /\ UNCHANGED <<capture, robot, algorithm, shutdown, faults>>

(* submit() gets the lock and refuses: closing, busy, or motion offline.    *)
PlanRefused(o) ==
  /\ plan[o] = "scheduled" /\ ~locked
  /\ plan' = [plan EXCEPT ![o] = "done"]
  /\ refused(o)
  /\ UNCHANGED <<capture, robot, algorithm, shutdown, faults>>

PlanAdmitted(o) ==
  /\ plan[o] = "scheduled" /\ ~locked
  /\ live = NoPlan /\ shutdown = "no"
  /\ plan' = [plan EXCEPT ![o] = "creating"]
  /\ live' = o /\ locked' = TRUE
  /\ UNCHANGED <<tasks, capture, algorithm, shutdown, faults>>

HttpAdmitted ==
  /\ ~locked /\ live = NoPlan /\ shutdown = "no"
  /\ live' = Http /\ locked' = TRUE
  /\ UNCHANGED <<tasks, capture, plan, algorithm, shutdown, faults>>

(* The row is there, the worker started.                                    *)
RobotCreates ==
  /\ locked
  /\ locked' = FALSE
  /\ plan' = IF live \in Objs THEN [plan EXCEPT ![live] = "running"] ELSE plan
  /\ UNCHANGED <<tasks, capture, live, algorithm, shutdown, faults>>

(* The INSERT raises, or the HTTP client cancels, and submit() raises.      *)
RobotCreateError ==
  /\ locked
  /\ IF live \in Objs THEN Fault ELSE UNCHANGED faults
  /\ locked' = FALSE /\ live' = NoPlan
  /\ IF live \in Objs
     THEN refused(live) /\ plan' = [plan EXCEPT ![live] = "done"]
     ELSE UNCHANGED <<tasks, plan>>
  /\ UNCHANGED <<capture, algorithm, shutdown>>

RobotEnds_M ==
  /\ live # NoPlan /\ ~locked
  /\ live' = NoPlan
  /\ IF live \in Objs
     THEN \E p \in {"planned", "failed", "interrupted"} : Verdict({live}, p)
     ELSE UNCHANGED tasks
  /\ UNCHANGED <<capture, plan, locked, algorithm, shutdown, faults>>

(* _run has stored the outcome: finished(record), then _active_id = None.   *)
RobotEnds ==
  /\ live # NoPlan /\ ~locked
  /\ live' = NoPlan
  /\ IF live \in Objs
     THEN /\ \E p \in {"planned", "failed", "interrupted"} : Verdict({live}, p)
          /\ plan' = [plan EXCEPT ![live] = "done"]
     ELSE UNCHANGED <<tasks, plan>>
  /\ UNCHANGED <<capture, locked, algorithm, shutdown, faults>>

(* finish() or get() raises, or close() cancels the worker where no finally *)
(* calls the callback: _active_id is given back all the same.               *)
RobotForgets ==
  /\ live # NoPlan /\ ~locked
  /\ IF shutdown = "no" THEN Fault ELSE UNCHANGED faults
  /\ live' = NoPlan
  /\ plan' = IF live \in Objs THEN [plan EXCEPT ![live] = "lost"] ELSE plan
  /\ UNCHANGED <<tasks, capture, locked, algorithm, shutdown>>
-----------------------------------------------------------------------------
(* The exit stack of the lifespan: robot.close, dispatch.close, the end     *)

RobotCloses ==
  /\ shutdown = "no"
  /\ shutdown' = "robot"
  /\ UNCHANGED <<tasks, capture, plan, robot, algorithm, faults>>

(* Every background coroutine is cancelled.                                 *)
DispatchCloses ==
  /\ shutdown = "robot" /\ live = NoPlan /\ ~locked
  /\ shutdown' = "all"
  /\ plan' = [o \in Objs |-> IF plan[o] = "scheduled" THEN "lost" ELSE plan[o]]
  /\ capture' = [o \in Objs |-> IF capture[o] = "due" THEN "over" ELSE capture[o]]
  /\ UNCHANGED <<tasks, robot, algorithm, faults>>

(* The process ends and is started again: _tasks is not persistent.         *)
Restart ==
  /\ shutdown = "all"
  /\ shutdown' = "no" /\ algorithm' = "offline"
  /\ table' = [n \in Names |-> NoObj]
  /\ finished' = Objs /\ awaiting' = {} /\ stopped' = {}
  /\ phase' = [o \in Objs |-> "sorting"] /\ results' = [o \in Objs |-> 0]
  /\ capture' = [o \in Objs |-> "none"] /\ plan' = [o \in Objs |-> "none"]
  /\ name' = [o \in Objs |-> someName]
  /\ UNCHANGED <<robot, faults>>
-----------------------------------------------------------------------------
Detection(o) == DetectionIgnored(o) \/ DetectionEmpty(o) \/ DetectionTarget(o)

PlanTarget(o) == PlanRefused(o) \/ PlanAdmitted(o)

CaptureStep(o) == SendCapture(o) \/ AlgorithmAnswers(o)

SubmitStep(o) == PlanInvalid(o) \/ PlanTarget(o)

RobotRuns == RobotEnds \/ RobotForgets

AlgorithmStep == AlgorithmBreaks \/ AlgorithmLost \/ AlgorithmRegisters

RobotStep == HttpAdmitted \/ RobotCreates \/ RobotCreateError \/ RobotRuns

ShutdownStep == RobotCloses \/ DispatchCloses \/ Restart

Next == \/ \E n \in Names : TaskStart(n)
        \/ EmergencyStop
        \/ \E o \in Objs : CaptureStep(o) \/ Detection(o) \/ SubmitStep(o)
        \/ AlgorithmStep
        \/ RobotStep
        \/ ShutdownStep

Spec == Init /\ [][Next]_vars

(* The event loop runs what is ready, asyncio.Lock serves its waiters in    *)
(* turn, the algorithm answers a capture or loses its connection, a closing *)
(* connection's handler ends, and RobotService ends every plan (what        *)
(* PlanGateway shows).  Nothing is assumed of the frontend.                 *)
Fairness ==
  /\ \A o \in Objs : /\ WF_vars(CaptureStep(o)) /\ WF_vars(Detection(o))
                     /\ SF_vars(PlanTarget(o))
  /\ WF_vars(algorithm = "closing" /\ AlgorithmLost)
  /\ WF_vars(RobotCreates) /\ WF_vars(RobotRuns)

FairSpec == Spec /\ Fairness
-----------------------------------------------------------------------------
(* Properties                                                               *)

(* While a task waits for its detection, somebody will end the wait: its    *)
(* capture_cmd or the answer is on the way on the session registered now,   *)
(* or that session is about to be unregistered, which fails the task.  No   *)
(* order of task_start, disconnect, reconnect and delayed send misses it.   *)
PerceptionIsServed ==
  shutdown # "all" =>
    \A o \in unfinished \ awaiting :
      algorithm = "closing" \/ (algorithm = "online" /\ capture[o] \in Asking)

(* A task that waits for its plan has a coroutine or a plan that will end   *)
(* it; only a callback lost to SQLite or to a shutdown leaves it waiting.   *)
AwaitingIsServed ==
  \A o \in unfinished \cap awaiting : plan[o] \in InPlan \cup {"lost"}

(* One sorting task at a time, and one plan on the robot at a time, whoever *)
(* asked for it: two coroutines are never both past admission.              *)
OneAtATime ==
  /\ \A o, u \in unfinished : o = u
  /\ \A o \in Objs : plan[o] \in {"creating", "running"} => live = o

(* The frontend is told the end of a task once, whatever ends it first.     *)
OneResult == \A o \in Objs : results[o] <= 1

(* What the frontend was told of a task is what the task remains: no late   *)
(* detection, disconnect or plan changes it.                                *)
VerdictStands ==
  [][\A o \in Objs : results[o] > 0 /\ results'[o] > 0
       => /\ phase'[o] = phase[o] /\ o \in finished'
          /\ o \in awaiting' <=> o \in awaiting]_vars

(* Every task ends: the frontend can always start the next one.             *)
TaskEnds ==
  \A o \in Objs : (o \in unfinished) ~> (o \notin unfinished \/ shutdown # "no")

(* Every task ends, unless a SQLite error has swallowed its on_finished.     *)
TaskEndsUnlessFault ==
  \A o \in Objs : (o \in unfinished)
     ~> (o \notin unfinished \/ shutdown # "no" \/ faults > 0)

(* An emergency stop "marks all tasks terminated" (docstring of             *)
(* _on_error_report): a stopped task is not planned for afterwards.         *)
StopIsFinal == \A o \in stopped : phase[o] # "planned"
-----------------------------------------------------------------------------
(* The inductive invariant behind the safety properties                     *)

(* Only the task a task_id stands for can be unfinished.                    *)
TableInv == \A o \in Objs : o \notin known => o \in finished

(* The robot is held by the plan that is past admission, and a coroutine    *)
(* exists only for a task whose detection has come.                         *)
RobotInv ==
  /\ locked => live # NoPlan
  /\ shutdown = "all" => live = NoPlan
  /\ \A o \in Objs :
       /\ live = o => plan[o] = IF locked THEN "creating" ELSE "running"
       /\ o \notin awaiting => plan[o] = "none"

(* A task whose end is still to come has not been reported.                 *)
ResultInv ==
  \A o \in Objs : o \notin finished \/ plan[o] \in InPlan => results[o] = 0

DInv == /\ TypeOK /\ TableInv /\ RobotInv /\ ResultInv /\ PerceptionIsServed
        /\ AwaitingIsServed /\ OneAtATime /\ OneResult
=============================================================================
