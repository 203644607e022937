--------------------------- MODULE DispatchProofs ---------------------------
(***************************************************************************)
(* What Dispatch guarantees for every set of task ids and task objects and *)
(* any number of SQLite errors.  DInv is inductive: one lemma per group of *)
(* actions of Next, one step per conjunct.                                 *)
(***************************************************************************)
EXTENDS Dispatch, TLAPS

(* An object not in use bears some task_id.                                *)
LEMMA SomeName == someName \in Names
BY DispatchAssumption DEF someName

(* A verdict keeps the types of what it changes.                           *)
LEMMA VerdictTypes ==
  ASSUME TypeOK, NEW S \in SUBSET Objs,
         NEW p \in {"sorting", "planned", "failed", "interrupted"},
         Verdict(S, p)
  PROVE  /\ finished' \in SUBSET Objs
         /\ phase' \in [Objs -> {"sorting", "planned", "failed", "interrupted"}]
         /\ results' \in [Objs -> Nat]
BY DEF TypeOK, Verdict

(* A gateway that has just started knows no task and holds no plan.        *)
LEMMA InitHolds == Init => DInv
<1> SUFFICES ASSUME Init PROVE DInv
  OBVIOUS
<1> USE DispatchAssumption, SomeName
    DEF Init, known, unfinished, InPlan, Asking
<1>1. TypeOK
  BY DEF TypeOK
<1>2. TableInv /\ ResultInv /\ OneResult
  BY DEF TableInv, ResultInv, OneResult
<1>3. RobotInv
  BY DEF RobotInv
<1>4. PerceptionIsServed /\ AwaitingIsServed /\ OneAtATime
  BY DEF PerceptionIsServed, AwaitingIsServed, OneAtATime
<1> QED
  BY <1>1, <1>2, <1>3, <1>4 DEF DInv

(* task_start takes a free object.                                          *)
LEMMA StartKeeps ==
  ASSUME DInv, NEW n \in Names, TaskStart(n)
  PROVE  DInv'
<1> USE DispatchAssumption DEF TaskStart,
        busy, Free, Verdict, on_disconnect, known, unfinished, InPlan,
        Asking, Fault, tasks, robot, vars
<1>1. TypeOK'
  BY DEF DInv, TypeOK, TableInv, RobotInv, ResultInv
<1>2. TableInv'
  BY DEF DInv, TableInv, TypeOK, RobotInv, ResultInv
<1>3. RobotInv'
  BY DEF DInv, RobotInv, TypeOK, TableInv, ResultInv
<1>4. ResultInv'
  BY DEF DInv, ResultInv, TypeOK, TableInv, RobotInv
<1>5. PerceptionIsServed'
  BY DEF DInv, PerceptionIsServed, TypeOK, TableInv, RobotInv, ResultInv
<1>6. AwaitingIsServed'
  BY DEF DInv, AwaitingIsServed, TypeOK, TableInv, RobotInv, ResultInv
<1>7. OneAtATime'
  BY DEF DInv, OneAtATime, TypeOK, TableInv, RobotInv, ResultInv
<1>8. OneResult'
  BY DEF DInv, OneResult, TypeOK, TableInv, RobotInv, ResultInv
<1> QED
  BY <1>1, <1>2, <1>3, <1>4, <1>5, <1>6, <1>7, <1>8 DEF DInv

(* An emergency stop only ends tasks.                                       *)
LEMMA StopKeeps ==
  ASSUME DInv, EmergencyStop
  PROVE  DInv'
<1> USE DispatchAssumption DEF EmergencyStop,
        Verdict, on_disconnect, known, unfinished, InPlan, Asking, Fault,
        tasks, robot, vars
<1>1. TypeOK'
  BY DEF DInv, TypeOK, TableInv, RobotInv, ResultInv
<1>2. TableInv'
  BY DEF DInv, TableInv, TypeOK, RobotInv, ResultInv
<1>3. RobotInv'
  BY DEF DInv, RobotInv, TypeOK, TableInv, ResultInv
<1>4. ResultInv'
  BY DEF DInv, ResultInv, TypeOK, TableInv, RobotInv
<1>5. PerceptionIsServed'
  BY DEF DInv, PerceptionIsServed, TypeOK, TableInv, RobotInv, ResultInv
<1>6. AwaitingIsServed'
  BY DEF DInv, AwaitingIsServed, TypeOK, TableInv, RobotInv, ResultInv
<1>7. OneAtATime'
  BY DEF DInv, OneAtATime, TypeOK, TableInv, RobotInv, ResultInv
<1>8. OneResult'
  BY DEF DInv, OneResult, TypeOK, TableInv, RobotInv, ResultInv
<1> QED
  BY <1>1, <1>2, <1>3, <1>4, <1>5, <1>6, <1>7, <1>8 DEF DInv

(* capture_cmd and its answer.                                              *)
LEMMA CaptureKeeps ==
  ASSUME DInv, NEW c \in Objs, CaptureStep(c)
  PROVE  DInv'
<1> USE DispatchAssumption DEF CaptureStep,
        SendCapture, AlgorithmAnswers, Verdict, on_disconnect, known,
        unfinished, InPlan, Asking, Fault, tasks, robot, vars
<1>1. TypeOK'
  BY DEF DInv, TypeOK, TableInv, RobotInv, ResultInv
<1>2. TableInv'
  BY DEF DInv, TableInv, TypeOK, RobotInv, ResultInv
<1>3. RobotInv'
  BY DEF DInv, RobotInv, TypeOK, TableInv, ResultInv
<1>4. ResultInv'
  BY DEF DInv, ResultInv, TypeOK, TableInv, RobotInv
<1>5. PerceptionIsServed'
  BY DEF DInv, PerceptionIsServed, TypeOK, TableInv, RobotInv, ResultInv
<1>6. AwaitingIsServed'
  BY DEF DInv, AwaitingIsServed, TypeOK, TableInv, RobotInv, ResultInv
<1>7. OneAtATime'
  BY DEF DInv, OneAtATime, TypeOK, TableInv, RobotInv, ResultInv
<1>8. OneResult'
  BY DEF DInv, OneResult, TypeOK, TableInv, RobotInv, ResultInv
<1> QED
  BY <1>1, <1>2, <1>3, <1>4, <1>5, <1>6, <1>7, <1>8 DEF DInv

(* detection_result.                                                        *)
LEMMA DetectionKeeps ==
  ASSUME DInv, NEW c \in Objs, Detection(c)
  PROVE  DInv'
<1> USE DispatchAssumption DEF Detection,
        DetectionIgnored, DetectionEmpty, DetectionTarget, detected,
        Verdict, on_disconnect, known, unfinished, InPlan, Asking,
        Fault, tasks, robot, vars
<1>1. TypeOK'
  BY DEF DInv, TypeOK, TableInv, RobotInv, ResultInv
<1>2. TableInv'
  BY DEF DInv, TableInv, TypeOK, RobotInv, ResultInv
<1>3. RobotInv'
  BY DEF DInv, RobotInv, TypeOK, TableInv, ResultInv
<1>4. ResultInv'
  BY DEF DInv, ResultInv, TypeOK, TableInv, RobotInv
<1>5. PerceptionIsServed'
  BY DEF DInv, PerceptionIsServed, TypeOK, TableInv, RobotInv, ResultInv
<1>6. AwaitingIsServed'
  BY DEF DInv, AwaitingIsServed, TypeOK, TableInv, RobotInv, ResultInv
<1>7. OneAtATime'
  BY DEF DInv, OneAtATime, TypeOK, TableInv, RobotInv, ResultInv
<1>8. OneResult'
  BY DEF DInv, OneResult, TypeOK, TableInv, RobotInv, ResultInv
<1> QED
  BY <1>1, <1>2, <1>3, <1>4, <1>5, <1>6, <1>7, <1>8 DEF DInv

(* The algorithm session comes and goes.                                    *)
LEMMA AlgorithmKeeps ==
  ASSUME DInv, AlgorithmStep
  PROVE  DInv'
<1> USE DispatchAssumption DEF AlgorithmStep,
        AlgorithmBreaks, AlgorithmLost, AlgorithmRegisters, hung_up,
        Verdict, on_disconnect, known, unfinished, InPlan, Asking,
        Fault, tasks, robot, vars
<1>1. TypeOK'
  BY DEF DInv, TypeOK, TableInv, RobotInv, ResultInv
<1>2. TableInv'
  BY DEF DInv, TableInv, TypeOK, RobotInv, ResultInv
<1>3. RobotInv'
  BY DEF DInv, RobotInv, TypeOK, TableInv, ResultInv
<1>4. ResultInv'
  BY DEF DInv, ResultInv, TypeOK, TableInv, RobotInv
<1>5. PerceptionIsServed'
  BY DEF DInv, PerceptionIsServed, TypeOK, TableInv, RobotInv, ResultInv
<1>6. AwaitingIsServed'
  BY DEF DInv, AwaitingIsServed, TypeOK, TableInv, RobotInv, ResultInv
<1>7. OneAtATime'
  BY DEF DInv, OneAtATime, TypeOK, TableInv, RobotInv, ResultInv
<1>8. OneResult'
  BY DEF DInv, OneResult, TypeOK, TableInv, RobotInv, ResultInv
<1> QED
  BY <1>1, <1>2, <1>3, <1>4, <1>5, <1>6, <1>7, <1>8 DEF DInv

(* submit() from its call to its admission.                                 *)
LEMMA TargetKeeps ==
  ASSUME DInv, NEW c \in Objs, SubmitStep(c)
  PROVE  DInv'
<1> USE DispatchAssumption DEF SubmitStep,
        PlanInvalid, PlanTarget, PlanRefused, PlanAdmitted, refused,
        Verdict, on_disconnect, known, unfinished, InPlan, Asking,
        Fault, tasks, robot, vars
<1>1. TypeOK'
  <2>1. CASE PlanAdmitted(c)
    BY <2>1 DEF DInv, TypeOK
  <2>2. CASE PlanInvalid(c) \/ PlanRefused(c)
    BY <2>2 DEF DInv, TypeOK
  <2> QED
    BY <2>1, <2>2
<1>2. TableInv'
  BY DEF DInv, TableInv, TypeOK, RobotInv, ResultInv
<1>3. RobotInv'
  BY DEF DInv, RobotInv, TypeOK, TableInv, ResultInv
<1>4. ResultInv'
  BY DEF DInv, ResultInv, TypeOK, TableInv, RobotInv
<1>5. PerceptionIsServed'
  BY DEF DInv, PerceptionIsServed, TypeOK, TableInv, RobotInv, ResultInv
<1>6. AwaitingIsServed'
  BY DEF DInv, AwaitingIsServed, TypeOK, TableInv, RobotInv, ResultInv
<1>7. OneAtATime'
  BY DEF DInv, OneAtATime, TypeOK, TableInv, RobotInv, ResultInv
<1>8. OneResult'
  BY DEF DInv, OneResult, TypeOK, TableInv, RobotInv, ResultInv
<1> QED
  BY <1>1, <1>2, <1>3, <1>4, <1>5, <1>6, <1>7, <1>8 DEF DInv

(* RobotService runs and ends a plan.                                       *)
LEMMA RobotKeeps ==
  ASSUME DInv, RobotStep
  PROVE  DInv'
<1> USE DispatchAssumption DEF RobotStep,
        HttpAdmitted, RobotCreates, RobotCreateError, RobotRuns, RobotEnds,
        RobotForgets, refused, Verdict, on_disconnect, known,
        unfinished, InPlan, Asking, Fault, tasks, robot, vars
<1>1. TypeOK'
  <2>1. CASE HttpAdmitted \/ RobotCreates
    BY <2>1 DEF DInv, TypeOK
  <2>2. CASE RobotCreateError
    <3>1. CASE live \in Objs
      <4>1. Verdict({live}, "failed")
        BY <2>2, <3>1
      <4>2. /\ finished' \in SUBSET Objs
            /\ phase' \in [Objs -> {"sorting", "planned", "failed", "interrupted"}]
            /\ results' \in [Objs -> Nat]
        BY <3>1, <4>1, VerdictTypes DEF DInv
      <4>3. faults' \in Nat
        BY <2>2, <3>1 DEF DInv, TypeOK
      <4>4. /\ plan' \in [Objs -> {"none", "done", "lost"} \cup InPlan]
            /\ live' = NoPlan /\ locked' = FALSE
            /\ UNCHANGED <<table, name, awaiting, stopped, capture, algorithm,
                           shutdown>>
        BY <2>2, <3>1 DEF DInv, TypeOK
      <4> HIDE DEF RobotStep, RobotCreateError, RobotRuns, RobotEnds, Verdict,
                   refused, Fault
      <4> QED
        BY <4>2, <4>3, <4>4 DEF DInv, TypeOK
    <3>2. CASE live \notin Objs
      BY <2>2, <3>2 DEF DInv, TypeOK
    <3> QED  BY <3>1, <3>2
  <2>3. CASE RobotEnds
    BY <2>3 DEF DInv, TypeOK
  <2>4. CASE RobotForgets
    BY <2>4 DEF DInv, TypeOK
  <2> QED
    BY <2>1, <2>2, <2>3, <2>4
<1>2. TableInv'
  BY DEF DInv, TableInv, TypeOK, RobotInv, ResultInv
<1>3. RobotInv'
  BY DEF DInv, RobotInv, TypeOK, TableInv, ResultInv
<1>4. ResultInv'
  BY DEF DInv, ResultInv, TypeOK, TableInv, RobotInv
<1>5. PerceptionIsServed'
  BY DEF DInv, PerceptionIsServed, TypeOK, TableInv, RobotInv, ResultInv
<1>6. AwaitingIsServed'
  BY DEF DInv, AwaitingIsServed, TypeOK, TableInv, RobotInv, ResultInv
<1>7. OneAtATime'
  BY DEF DInv, OneAtATime, TypeOK, TableInv, RobotInv, ResultInv
<1>8. OneResult'
  BY DEF DInv, OneResult, TypeOK, TableInv, RobotInv, ResultInv
<1> QED
  BY <1>1, <1>2, <1>3, <1>4, <1>5, <1>6, <1>7, <1>8 DEF DInv

(* The exit stack and the next start.                                       *)
LEMMA ShutdownKeeps ==
  ASSUME DInv, ShutdownStep
  PROVE  DInv'
<1> USE DispatchAssumption DEF ShutdownStep,
        RobotCloses, DispatchCloses, Restart, Verdict, on_disconnect, known,
        unfinished, InPlan, Asking, Fault, tasks, robot, vars
<1>1. TypeOK'
  BY SomeName DEF DInv, TypeOK, TableInv, RobotInv, ResultInv
<1>2. TableInv'
  BY DEF DInv, TableInv, TypeOK, RobotInv, ResultInv
<1>3. RobotInv'
  BY DEF DInv, RobotInv, TypeOK, TableInv, ResultInv
<1>4. ResultInv'
  BY DEF DInv, ResultInv, TypeOK, TableInv, RobotInv
<1>5. PerceptionIsServed'
  BY DEF DInv, PerceptionIsServed, TypeOK, TableInv, RobotInv, ResultInv
<1>6. AwaitingIsServed'
  BY DEF DInv, AwaitingIsServed, TypeOK, TableInv, RobotInv, ResultInv
<1>7. OneAtATime'
  BY DEF DInv, OneAtATime, TypeOK, TableInv, RobotInv, ResultInv
<1>8. OneResult'
  BY DEF DInv, OneResult, TypeOK, TableInv, RobotInv, ResultInv
<1> QED
  BY <1>1, <1>2, <1>3, <1>4, <1>5, <1>6, <1>7, <1>8 DEF DInv

(* A step that changes nothing.                                             *)
LEMMA StutterKeeps ==
  ASSUME DInv, UNCHANGED vars
  PROVE  DInv'
BY DEF DInv, TypeOK, TableInv, RobotInv, ResultInv, PerceptionIsServed,
       AwaitingIsServed, OneAtATime, OneResult, known, unfinished, vars,
       tasks, robot

(* DInv is inductive: it holds in every reachable state, in which the code's *)
(* _tasks, its coroutines and the robot's one active plan agree.             *)
THEOREM Invariance == Spec => []DInv
<1>1. DInv /\ [Next]_vars => DInv'
  <2> SUFFICES ASSUME DInv, [Next]_vars PROVE DInv'
    OBVIOUS
  <2>1. CASE UNCHANGED vars
    BY <2>1, StutterKeeps
  <2>2. CASE Next
    BY <2>2, StartKeeps, StopKeeps, CaptureKeeps, DetectionKeeps,
       AlgorithmKeeps, TargetKeeps, RobotKeeps, ShutdownKeeps DEF Next
  <2> QED
    BY <2>1, <2>2
<1> QED
  BY <1>1, InitHolds, PTL DEF Spec

(* Every variable keeps its type.                                           *)
THEOREM TypeCorrect == Spec => []TypeOK
BY Invariance, PTL DEF DInv

(* Whatever the order of task_start, disconnect, reconnect and delayed send: *)
(* a task that waits for its detection will be served or failed.             *)
THEOREM NoPerceptionMissed == Spec => []PerceptionIsServed
BY Invariance, PTL DEF DInv

(* A task that waits for its plan has a coroutine or a plan that ends it,    *)
(* unless the callback was lost.                                             *)
THEOREM NoPlanForgotten == Spec => []AwaitingIsServed
BY Invariance, PTL DEF DInv

(* At most one sorting task is unfinished and at most one plan is on the     *)
(* robot.                                                                    *)
THEOREM NeverTwo == Spec => []OneAtATime
BY Invariance, PTL DEF DInv

(* The frontend is told the end of a task at most once.                      *)
THEOREM ToldOnce == Spec => []OneResult
BY Invariance, PTL DEF DInv

(* No late detection, disconnect or plan changes what the frontend was told. *)
THEOREM VerdictsStand == Spec => VerdictStands
<1> DEFINE Stands == \A o \in Objs : results[o] > 0 /\ results'[o] > 0
                       => /\ phase'[o] = phase[o] /\ o \in finished'
                          /\ o \in awaiting' <=> o \in awaiting
<1>1. DInv /\ [Next]_vars => [Stands]_vars
  <2> SUFFICES ASSUME DInv, Next, NEW o \in Objs,
                      results[o] > 0, results'[o] > 0
               PROVE  /\ phase'[o] = phase[o] /\ o \in finished'
                      /\ o \in awaiting' <=> o \in awaiting
    OBVIOUS
  <2>1. o \in finished /\ plan[o] \notin InPlan
    BY DEF DInv, ResultInv, TypeOK
  <2>2. o \notin unfinished
    BY <2>1 DEF unfinished
  <2>3. ASSUME NEW S, NEW p, Verdict(S, p), o \notin S
        PROVE  /\ phase'[o] = phase[o] /\ o \in finished'
               /\ o \in awaiting' <=> o \in awaiting
    BY <2>1, <2>3 DEF Verdict
  <2>4. CASE \E n \in Names : TaskStart(n)
    BY <2>1, <2>4 DEF TaskStart, DInv, TypeOK
  <2>5. CASE EmergencyStop
    BY <2>1, <2>5 DEF EmergencyStop
  <2>6. ASSUME NEW c \in Objs, CaptureStep(c) \/ Detection(c) \/ SubmitStep(c)
        PROVE  /\ phase'[o] = phase[o] /\ o \in finished'
               /\ o \in awaiting' <=> o \in awaiting
    <3>1. CASE CaptureStep(c) \/ DetectionIgnored(c) \/ PlanAdmitted(c)
      BY <2>1, <3>1 DEF CaptureStep, SendCapture, AlgorithmAnswers,
                        DetectionIgnored, PlanAdmitted, tasks
    <3>2. CASE DetectionEmpty(c) \/ DetectionTarget(c)
      <4>1. o # detected(c)
        BY <2>2, <3>2, DispatchAssumption
        DEF detected, DetectionEmpty, DetectionTarget
      <4> QED
        BY <2>1, <2>3, <3>2, <4>1 DEF DetectionEmpty, DetectionTarget
    <3>3. CASE PlanInvalid(c) \/ PlanRefused(c)
      <4>1. o # c /\ Verdict({c}, "failed")
        BY <2>1, <3>3 DEF PlanInvalid, PlanRefused, refused, InPlan
      <4> QED
        BY <2>3, <4>1
    <3> QED
      BY <2>6, <3>1, <3>2, <3>3 DEF Detection, SubmitStep, PlanTarget
  <2>7. CASE AlgorithmStep
    <3>1. CASE on_disconnect
      BY <2>2, <2>3, <3>1 DEF on_disconnect
    <3>2. CASE UNCHANGED tasks
      BY <2>1, <3>2 DEF tasks
    <3> QED
      BY <2>7, <3>1, <3>2
      DEF AlgorithmStep, AlgorithmBreaks, AlgorithmLost, AlgorithmRegisters
  <2>8. CASE RobotStep
    <3>1. CASE live = o
      BY <2>1, <2>8, <3>1, DispatchAssumption DEF RobotStep, HttpAdmitted, RobotCreates,
         RobotCreateError, RobotRuns, RobotEnds, RobotForgets, DInv, RobotInv,
         InPlan
    <3>2. CASE live # o
      <4>1. CASE UNCHANGED tasks
        BY <2>1, <4>1 DEF tasks
      <4>2. CASE \E p : Verdict({live}, p)
        BY <2>3, <3>2, <4>2
      <4> QED
        BY <2>8, <4>1, <4>2
        DEF RobotStep, HttpAdmitted, RobotCreates, RobotCreateError,
            RobotRuns, RobotEnds, RobotForgets, refused
    <3> QED
      BY <3>1, <3>2
  <2>9. CASE ShutdownStep
    BY <2>1, <2>9
    DEF ShutdownStep, RobotCloses, DispatchCloses, Restart, tasks
  <2> QED
    BY <2>4, <2>5, <2>6, <2>7, <2>8, <2>9 DEF Next
<1> QED
  BY <1>1, Invariance, PTL DEF Spec, VerdictStands
=============================================================================
