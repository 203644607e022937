-------------------------- MODULE PlanGatewayProofs --------------------------
(***************************************************************************)
(* What PlanGateway guarantees for every set of tasks and connections and  *)
(* every number of crashes and SQLite errors.  IInv is inductive: one lemma *)
(* per group of actions of Next shows that a step of the group keeps each   *)
(* of its conjuncts, citing the conjuncts that step needs.                  *)
(***************************************************************************)
EXTENDS PlanGateway, TLAPS

(* Nothing runs and nothing is stored before the first start.               *)
LEMMA InitHolds == Init => IInv
BY TasksAssumption, SessionsAssumption, BoundsAssumption
DEF Init, IInv, TypeOK, LockInv, ActiveInv, CloseInv, MemoryInv, RecordInv,
    AnswerInv, PlanningHasOwner, NoMissedDisconnect, PlannedIsAnswered,
    ToldIsRecorded, SinglePlan, Engaged, Live, InPlan, Replies, Terminal


(* A client calls submit() or is cancelled in it.                          *)
LEMMA ClientKeeps ==
  ASSUME IInv, NEW t \in Tasks, ClientStep(t)
  PROVE  IInv'
<1> USE TasksAssumption, SessionsAssumption, BoundsAssumption DEF ClientStep,
        Submit, SubmitCancelled, vars, process, service, running, network,
        Terminal, Replies, InPlan, Live, Fault, is_online, on_disconnect,
        hung_up, busy, recovered, resolved, outcome_of, timed, GiveBack,
        CloseGoesOn, gathered, EndPlan, EndRun, finish, Forget, HasOwner,
        Engaged, SinglePlan
<1>1. TypeOK'
  BY DEF IInv, TypeOK
<1>2. LockInv'
  BY DEF IInv, LockInv, TypeOK
<1>3. ActiveInv'
  BY DEF IInv, ActiveInv, TypeOK
<1>4. CloseInv'
  BY DEF IInv, CloseInv, TypeOK
<1>5. MemoryInv'
  BY DEF IInv, MemoryInv
<1>6. RecordInv'
  BY DEF IInv, RecordInv, TypeOK
<1>7. AnswerInv'
  BY DEF IInv, AnswerInv, TypeOK
<1>8. PlanningHasOwner'
  BY DEF IInv, PlanningHasOwner, TypeOK
<1>9. NoMissedDisconnect'
  BY DEF IInv, NoMissedDisconnect
<1>10. PlannedIsAnswered'
  BY DEF IInv, PlannedIsAnswered
<1>11. ToldIsRecorded'
  BY DEF IInv, ToldIsRecorded
<1> QED
  BY <1>1, <1>2, <1>3, <1>4, <1>5, <1>6, <1>7, <1>8, <1>9, <1>10, <1>11 DEF IInv

(* submit() between asking for the lock and giving it back.                *)
LEMMA SubmitKeeps ==
  ASSUME IInv, NEW t \in Tasks, SubmitStep(t)
  PROVE  IInv'
<1> USE TasksAssumption, SessionsAssumption, BoundsAssumption DEF SubmitStep,
        SubmitRefused, SubmitAdmitted, Created, CreatedForNobody, CreateError,
        Withdrawn, WithdrawError, vars, process, service, running, network,
        Terminal, Replies, InPlan, Live, Fault, is_online, on_disconnect,
        hung_up, busy, recovered, resolved, outcome_of, timed, GiveBack,
        CloseGoesOn, gathered, EndPlan, EndRun, finish, Forget, HasOwner,
        Engaged, SinglePlan
<1>1. TypeOK'
  BY DEF IInv, TypeOK
<1>2. LockInv'
  BY DEF IInv, LockInv, TypeOK
<1>3. ActiveInv'
  BY DEF IInv, ActiveInv, TypeOK
<1>4. CloseInv'
  BY DEF IInv, TypeOK, ActiveInv, CloseInv
<1>5. MemoryInv'
  BY DEF IInv, MemoryInv
<1>6. RecordInv'
  BY DEF IInv, TypeOK, ActiveInv, RecordInv
<1>7. AnswerInv'
  BY DEF IInv, AnswerInv, TypeOK
<1>8. PlanningHasOwner'
  BY DEF IInv, TypeOK, ActiveInv, PlanningHasOwner
<1>9. NoMissedDisconnect'
  BY DEF IInv, ActiveInv, NoMissedDisconnect
<1>10. PlannedIsAnswered'
  BY DEF IInv, PlannedIsAnswered, TypeOK
<1>11. ToldIsRecorded'
  BY DEF IInv, TypeOK, RecordInv, ToldIsRecorded
<1> QED
  BY <1>1, <1>2, <1>3, <1>4, <1>5, <1>6, <1>7, <1>8, <1>9, <1>10, <1>11 DEF IInv

(* _run() until the outcome is known.                                      *)
LEMMA PlanKeeps ==
  ASSUME IInv, NEW t \in Tasks, PlanStep(t)
  PROVE  IInv'
<1> USE TasksAssumption, SessionsAssumption, BoundsAssumption DEF PlanStep,
        RunStart, SendWrite, SendDone, SendError, RunTimeout, RunResumed,
        RunInterrupted, RunKilled, vars, process, service, running, network,
        Terminal, Replies, InPlan, Live, Fault, is_online, on_disconnect,
        hung_up, busy, recovered, resolved, outcome_of, timed, GiveBack,
        CloseGoesOn, gathered, EndPlan, EndRun, finish, Forget, HasOwner,
        Engaged, SinglePlan
<1>1. TypeOK'
  <2>1. CASE RunStart(t) \/ SendWrite(t) \/ SendDone(t)
    BY <2>1 DEF IInv, TypeOK
  <2>2. CASE SendError(t)
    <3>1. CASE session = sentOn[t]
      BY <2>2, <3>1 DEF IInv, TypeOK
    <3>2. CASE session # sentOn[t]
      BY <2>2, <3>2 DEF IInv, TypeOK
    <3> QED  BY <3>1, <3>2
  <2>3. CASE RunTimeout(t)
    BY <2>3 DEF IInv, TypeOK
  <2>4. CASE RunResumed(t) \/ RunInterrupted(t)
    BY <2>4 DEF IInv, TypeOK
  <2>5. CASE RunKilled(t)
    BY <2>5 DEF IInv, TypeOK
  <2> QED  BY <2>1, <2>2, <2>3, <2>4, <2>5
<1>2. LockInv'
  BY DEF IInv, LockInv
<1>3. ActiveInv'
  BY DEF IInv, TypeOK, ActiveInv, CloseInv
<1>4. CloseInv'
  BY DEF IInv, TypeOK, ActiveInv, CloseInv
<1>5. MemoryInv'
  BY DEF IInv, MemoryInv
<1>6. RecordInv'
  BY DEF IInv, TypeOK, ActiveInv, RecordInv
<1>7. AnswerInv'
  <2>1. CASE RunStart(t) \/ SendWrite(t) \/ SendDone(t)
    BY <2>1 DEF IInv, TypeOK, AnswerInv, RecordInv
  <2>2. CASE SendError(t)
    <3>1. CASE session = sentOn[t]
      BY <2>2, <3>1 DEF IInv, TypeOK, AnswerInv, RecordInv
    <3>2. CASE session # sentOn[t]
      BY <2>2, <3>2 DEF IInv, TypeOK, AnswerInv, RecordInv
    <3> QED  BY <3>1, <3>2
  <2>3. CASE RunTimeout(t)
    BY <2>3 DEF IInv, TypeOK, AnswerInv, RecordInv
  <2>4. CASE RunResumed(t) \/ RunInterrupted(t)
    BY <2>4 DEF IInv, TypeOK, AnswerInv, RecordInv
  <2>5. CASE RunKilled(t)
    BY <2>5 DEF IInv, TypeOK, AnswerInv, RecordInv
  <2> QED  BY <2>1, <2>2, <2>3, <2>4, <2>5
<1>8. PlanningHasOwner'
  BY DEF IInv, TypeOK, ActiveInv, CloseInv, PlanningHasOwner
<1>9. NoMissedDisconnect'
  <2>1. CASE RunStart(t) \/ SendWrite(t) \/ SendDone(t)
    BY <2>1 DEF IInv, TypeOK, NoMissedDisconnect
  <2>2. CASE SendError(t)
    <3>1. CASE session = sentOn[t]
      BY <2>2, <3>1 DEF IInv, TypeOK, NoMissedDisconnect
    <3>2. CASE session # sentOn[t]
      BY <2>2, <3>2 DEF IInv, TypeOK, NoMissedDisconnect
    <3> QED  BY <3>1, <3>2
  <2>3. CASE RunTimeout(t)
    BY <2>3 DEF IInv, TypeOK, NoMissedDisconnect
  <2>4. CASE RunResumed(t) \/ RunInterrupted(t)
    BY <2>4 DEF IInv, TypeOK, NoMissedDisconnect
  <2>5. CASE RunKilled(t)
    BY <2>5 DEF IInv, TypeOK, NoMissedDisconnect
  <2> QED  BY <2>1, <2>2, <2>3, <2>4, <2>5
<1>10. PlannedIsAnswered'
  BY DEF IInv, TypeOK, AnswerInv, PlannedIsAnswered
<1>11. ToldIsRecorded'
  BY DEF IInv, ToldIsRecorded
<1> QED
  BY <1>1, <1>2, <1>3, <1>4, <1>5, <1>6, <1>7, <1>8, <1>9, <1>10, <1>11 DEF IInv

(* _run() from the outcome on, and the UPDATE threads left behind.         *)
LEMMA SaveKeeps ==
  ASSUME IInv, NEW t \in Tasks, SaveStep(t) \/ OrphanEnds(t)
  PROVE  IInv'
<1> USE TasksAssumption, SessionsAssumption, BoundsAssumption DEF SaveStep,
        Saved, SaveError, Notified, ReadError, OrphanEnds, vars, process,
        service, running, network, Terminal, Replies, InPlan, Live, Fault,
        is_online, on_disconnect, hung_up, busy, recovered, resolved, outcome_of, timed, GiveBack,
        CloseGoesOn, gathered, EndPlan, EndRun, finish, Forget,
        HasOwner, Engaged, SinglePlan
<1>1. TypeOK'
  BY DEF IInv, TypeOK, RecordInv
<1>2. LockInv'
  BY DEF IInv, LockInv
<1>3. ActiveInv'
  BY DEF IInv, TypeOK, ActiveInv, CloseInv
<1>4. CloseInv'
  BY DEF IInv, TypeOK, ActiveInv, CloseInv
<1>5. MemoryInv'
  BY DEF IInv, MemoryInv
<1>6. RecordInv'
  BY DEF IInv, RecordInv, TypeOK
<1>7. AnswerInv'
  BY DEF IInv, AnswerInv, TypeOK
<1>8. PlanningHasOwner'
  BY DEF IInv, TypeOK, ActiveInv, PlanningHasOwner
<1>9. NoMissedDisconnect'
  BY DEF IInv, NoMissedDisconnect, TypeOK
<1>10. PlannedIsAnswered'
  BY DEF IInv, TypeOK, AnswerInv, PlannedIsAnswered
<1>11. ToldIsRecorded'
  BY DEF IInv, TypeOK, RecordInv, ToldIsRecorded
<1> QED
  BY <1>1, <1>2, <1>3, <1>4, <1>5, <1>6, <1>7, <1>8, <1>9, <1>10, <1>11 DEF IInv

(* The motion session and the motion service.                              *)
LEMMA MotionKeeps ==
  ASSUME IInv, MotionStep
  PROVE  IInv'
<1> USE TasksAssumption, SessionsAssumption, BoundsAssumption DEF MotionStep,
        MotionRegister, MotionReplies, Deliver, LinkBroken, SessionLost,
        EmergencyStop, vars, process, service, running, network, Terminal,
        Replies, InPlan, Live, Fault, is_online, on_disconnect, hung_up, busy, recovered,
        resolved, outcome_of, timed, GiveBack, CloseGoesOn, gathered,
        EndPlan, EndRun, finish, Forget, HasOwner, Engaged, SinglePlan
<1>1. TypeOK'
  BY DEF IInv, TypeOK, AnswerInv
<1>2. LockInv'
  BY DEF IInv, LockInv
<1>3. ActiveInv'
  BY DEF IInv, ActiveInv
<1>4. CloseInv'
  BY DEF IInv, CloseInv
<1>5. MemoryInv'
  BY DEF IInv, MemoryInv
<1>6. RecordInv'
  BY DEF IInv, RecordInv
<1>7. AnswerInv'
  BY DEF IInv, AnswerInv, TypeOK
<1>8. PlanningHasOwner'
  BY DEF IInv, PlanningHasOwner
<1>9. NoMissedDisconnect'
  BY DEF IInv, NoMissedDisconnect, TypeOK
<1>10. PlannedIsAnswered'
  BY DEF IInv, PlannedIsAnswered, TypeOK
<1>11. ToldIsRecorded'
  BY DEF IInv, ToldIsRecorded
<1> QED
  BY <1>1, <1>2, <1>3, <1>4, <1>5, <1>6, <1>7, <1>8, <1>9, <1>10, <1>11 DEF IInv

(* RobotService.close.                                                     *)
LEMMA CloseKeeps ==
  ASSUME IInv, CloseStep
  PROVE  IInv'
<1> USE TasksAssumption, SessionsAssumption, BoundsAssumption DEF CloseStep,
        CloseLocked, CloseGathered, CloseFinished, CloseError, vars, process,
        service, running, network, Terminal, Replies, InPlan, Live, Fault,
        is_online, on_disconnect, hung_up, busy, recovered, resolved, outcome_of, timed, GiveBack,
        CloseGoesOn, gathered, EndPlan, EndRun, finish, Forget,
        HasOwner, Engaged, SinglePlan
<1>1. TypeOK'
  BY DEF IInv, TypeOK, CloseInv
<1>2. LockInv'
  BY DEF IInv, LockInv
<1>3. ActiveInv'
  BY DEF IInv, ActiveInv, CloseInv
<1>4. CloseInv'
  <2>1. CASE CloseLocked
    <3>1. CASE worker # NoTask /\ run[worker] \in Live
      BY <2>1, <3>1 DEF IInv, TypeOK, CloseInv, ActiveInv, LockInv
    <3>2. CASE ~(worker # NoTask /\ run[worker] \in Live)
      <4>1. \A t \in Tasks : run[t] \notin Live /\ ~Engaged(t)
        BY <2>1, <3>2 DEF IInv, TypeOK, ActiveInv, LockInv
      <4>2. active = NoTask
        BY <2>1, <4>1 DEF IInv, TypeOK, ActiveInv
      <4> QED  BY <2>1, <3>2, <4>1, <4>2 DEF IInv, TypeOK, CloseInv
    <3> QED  BY <3>1, <3>2
  <2>2. CASE CloseGathered
    <3>1. \A t \in Tasks : run[t] \notin Live /\ ~Engaged(t)
      BY <2>2 DEF IInv, TypeOK, ActiveInv, LockInv, CloseInv
    <3> QED  BY <2>2, <3>1 DEF IInv, TypeOK, CloseInv
  <2>3. CASE CloseFinished \/ CloseError
    <3>1. \A t \in Tasks : run[t] \notin Live /\ ~Engaged(t)
      BY <2>3 DEF IInv, TypeOK, LockInv, CloseInv
    <3> QED  BY <2>3, <3>1 DEF IInv, TypeOK, CloseInv
  <2> QED  BY <2>1, <2>2, <2>3
<1>5. MemoryInv'
  BY DEF IInv, MemoryInv
<1>6. RecordInv'
  BY DEF IInv, TypeOK, CloseInv, RecordInv
<1>7. AnswerInv'
  BY DEF IInv, AnswerInv
<1>8. PlanningHasOwner'
  BY DEF IInv, PlanningHasOwner, TypeOK
<1>9. NoMissedDisconnect'
  BY DEF IInv, NoMissedDisconnect
<1>10. PlannedIsAnswered'
  BY DEF IInv, PlannedIsAnswered, TypeOK
<1>11. ToldIsRecorded'
  BY DEF IInv, ToldIsRecorded, TypeOK
<1> QED
  BY <1>1, <1>2, <1>3, <1>4, <1>5, <1>6, <1>7, <1>8, <1>9, <1>10, <1>11 DEF IInv

(* A start of the gateway.                                                 *)
LEMMA BootKeeps ==
  ASSUME IInv, BootStep
  PROVE  IInv'
<1> USE TasksAssumption, SessionsAssumption, BoundsAssumption DEF BootStep,
        Boot, Recover, RecoverError, vars, process, service, running, network,
        Terminal, Replies, InPlan, Live, Fault, is_online, on_disconnect,
        hung_up, busy, recovered, resolved, outcome_of, timed, GiveBack,
        CloseGoesOn, gathered, EndPlan, EndRun, finish, Forget, HasOwner,
        Engaged, SinglePlan
<1>1. TypeOK'
  BY DEF IInv, TypeOK
<1>2. LockInv'
  BY DEF IInv, LockInv
<1>3. ActiveInv'
  BY DEF IInv, ActiveInv
<1>4. CloseInv'
  BY DEF IInv, CloseInv
<1>5. MemoryInv'
  BY DEF IInv, MemoryInv
<1>6. RecordInv'
  BY DEF IInv, MemoryInv, RecordInv
<1>7. AnswerInv'
  BY DEF IInv, AnswerInv
<1>8. PlanningHasOwner'
  BY DEF IInv, PlanningHasOwner
<1>9. NoMissedDisconnect'
  BY DEF IInv, NoMissedDisconnect
<1>10. PlannedIsAnswered'
  BY DEF IInv, PlannedIsAnswered
<1>11. ToldIsRecorded'
  BY DEF IInv, ToldIsRecorded
<1> QED
  BY <1>1, <1>2, <1>3, <1>4, <1>5, <1>6, <1>7, <1>8, <1>9, <1>10, <1>11 DEF IInv

(* Shutdown begins, the process ends or crashes.                           *)
LEMMA ProcessKeeps ==
  ASSUME IInv, ProcessStep
  PROVE  IInv'
<1> USE TasksAssumption, SessionsAssumption, BoundsAssumption DEF ProcessStep,
        CloseBegins, Exit, Crash, vars, process, service, running, network,
        Terminal, Replies, InPlan, Live, Fault, is_online, on_disconnect,
        hung_up, busy, recovered, resolved, outcome_of, timed, GiveBack,
        CloseGoesOn, gathered, EndPlan, EndRun, finish, Forget, HasOwner,
        Engaged, SinglePlan
<1>1. TypeOK'
  BY DEF IInv, TypeOK
<1>2. LockInv'
  BY DEF IInv, LockInv
<1>3. ActiveInv'
  BY DEF IInv, ActiveInv
<1>4. CloseInv'
  BY DEF IInv, CloseInv
<1>5. MemoryInv'
  BY DEF IInv, MemoryInv
<1>6. RecordInv'
  BY DEF IInv, RecordInv
<1>7. AnswerInv'
  BY DEF IInv, AnswerInv
<1>8. PlanningHasOwner'
  BY DEF IInv, PlanningHasOwner
<1>9. NoMissedDisconnect'
  BY DEF IInv, NoMissedDisconnect
<1>10. PlannedIsAnswered'
  BY DEF IInv, PlannedIsAnswered
<1>11. ToldIsRecorded'
  BY DEF IInv, ToldIsRecorded
<1> QED
  BY <1>1, <1>2, <1>3, <1>4, <1>5, <1>6, <1>7, <1>8, <1>9, <1>10, <1>11 DEF IInv

LEMMA StutterKeeps ==
  ASSUME IInv, UNCHANGED vars
  PROVE  IInv'
BY DEF vars, process, service, running, network, IInv, TypeOK, LockInv,
       ActiveInv, CloseInv, MemoryInv, RecordInv, AnswerInv, PlanningHasOwner,
       NoMissedDisconnect, PlannedIsAnswered, ToldIsRecorded, SinglePlan,
       Engaged, HasOwner

LEMMA Inductive == IInv /\ [Next]_vars => IInv'
<1> SUFFICES ASSUME IInv, [Next]_vars PROVE IInv'
  OBVIOUS
<1>1. ASSUME NEW t \in Tasks,
             ClientStep(t) \/ SubmitStep(t) \/ RunStep(t) \/ OrphanEnds(t)
      PROVE  IInv'
  BY <1>1, ClientKeeps, SubmitKeeps, PlanKeeps, SaveKeeps DEF RunStep
<1>2. CASE MotionStep
  BY <1>2, MotionKeeps
<1>3. CASE CloseStep
  BY <1>3, CloseKeeps
<1>4. CASE BootStep
  BY <1>4, BootKeeps
<1>5. CASE ProcessStep
  BY <1>5, ProcessKeeps
<1>6. CASE UNCHANGED vars
  BY <1>6, StutterKeeps
<1> QED
  BY <1>1, <1>2, <1>3, <1>4, <1>5, <1>6 DEF Next

(* The gateway's state always satisfies the inductive invariant.            *)
THEOREM Invariance == Spec => []IInv
BY InitHolds, Inductive, PTL DEF Spec

(* Every variable stays in its type.                                        *)
THEOREM TypeCorrect == Spec => []TypeOK
<1>1. IInv => TypeOK  BY DEF IInv
<1> QED  BY <1>1, Invariance, PTL

(* A row that says "planning" in a gateway that is up has an owner that     *)
(* will close it, unless its final UPDATE raised.                           *)
THEOREM OwnerOfPlanning == Spec => []PlanningHasOwner
<1>1. IInv => PlanningHasOwner  BY DEF IInv
<1> QED  BY <1>1, Invariance, PTL

(* Two tasks are never planned at the same time.                            *)
THEOREM OnePlanAtATime == Spec => []SinglePlan
<1>1. IInv => SinglePlan  BY DEF IInv, ActiveInv
<1> QED  BY <1>1, Invariance, PTL

(* An open future belongs to the registered session: no disconnect is       *)
(* missed by a plan that waits for it.                                      *)
THEOREM DisconnectReachesPlan == Spec => []NoMissedDisconnect
<1>1. IInv => NoMissedDisconnect  BY DEF IInv
<1> QED  BY <1>1, Invariance, PTL

(* "planned" is only stored for a task that was answered with a valid plan. *)
THEOREM PlannedOnlyIfAnswered == Spec => []PlannedIsAnswered
<1>1. IInv => PlannedIsAnswered  BY DEF IInv
<1> QED  BY <1>1, Invariance, PTL

(* What a callback was told stays what the table says.                      *)
THEOREM CallbackAgreesWithTable == Spec => []ToldIsRecorded
<1>1. IInv => ToldIsRecorded  BY DEF IInv
<1> QED  BY <1>1, Invariance, PTL

(* close() leaves nothing running and no row open but those in a thread or  *)
(* with an UPDATE that raised.                                              *)
THEOREM CloseLeavesNothing == Spec => []ClosedIsQuiet
<1>1. IInv => ClosedIsQuiet
  <2> SUFFICES ASSUME IInv, closing = "closed"
               PROVE  /\ holder = NoTask
                      /\ \A t \in Tasks :
                           /\ ~Engaged(t) /\ pending[t] # "open"
                           /\ record[t] = "planning" => t \in orphans \cup unsaved
    BY DEF ClosedIsQuiet
  <2>1. holder = NoTask /\ \A t \in Tasks : ~Engaged(t)
    BY DEF IInv, CloseInv
  <2>2. phase = "up"
    BY DEF IInv, MemoryInv
  <2>3. ASSUME NEW t \in Tasks
        PROVE  /\ pending[t] # "open"
               /\ record[t] = "planning" => t \in orphans \cup unsaved
    BY <2>1, <2>2
    DEF IInv, NoMissedDisconnect, PlanningHasOwner, HasOwner, Engaged, Live
  <2> QED  BY <2>1, <2>3
<1> QED  BY <1>1, Invariance, PTL

(* The table's history is never rewritten.                                  *)
LEMMA StepKeepsHistory ==
  ASSUME IInv, [Next]_vars, NEW t \in Tasks
  PROVE  /\ record[t] \in Terminal => record'[t] = record[t]
         /\ record[t] = "planning" => record'[t] # "absent"
<1> USE DEF Terminal, finish, recovered
<1>1. ASSUME NEW u \in Tasks, ClientStep(u) \/ PlanStep(u)
      PROVE  record' = record
  BY <1>1 DEF ClientStep, Submit, SubmitCancelled, PlanStep, RunStart, SendWrite,
              SendDone, SendError, RunTimeout, RunResumed, RunInterrupted,
              RunKilled
<1>2. ASSUME NEW u \in Tasks, SubmitStep(u)
      PROVE  record[t] # "absent" => record'[t] \in {record[t], "interrupted"}
                                    /\ (record[t] \in Terminal => record'[t] = record[t])
  BY <1>2 DEF SubmitStep, SubmitRefused, SubmitAdmitted, Created,
              CreatedForNobody, CreateError, Withdrawn, WithdrawError,
              IInv, TypeOK, RecordInv
<1>3. ASSUME NEW u \in Tasks, SaveStep(u) \/ OrphanEnds(u)
      PROVE  /\ record[t] \in Terminal => record'[t] = record[t]
             /\ record[t] = "planning" => record'[t] # "absent"
  BY <1>3 DEF SaveStep, Saved, SaveError, Notified, ReadError, OrphanEnds,
              IInv, TypeOK, RecordInv
<1>4. MotionStep => record' = record
  BY DEF MotionStep, MotionRegister, MotionReplies, Deliver, LinkBroken,
         SessionLost, EmergencyStop
<1>5. ASSUME CloseStep \/ BootStep \/ ProcessStep \/ UNCHANGED vars
      PROVE  /\ record[t] \in Terminal => record'[t] = record[t]
             /\ record[t] = "planning" => record'[t] # "absent"
  BY <1>5 DEF CloseStep, CloseLocked, CloseGathered, CloseFinished, CloseError,
              BootStep, Boot, Recover, RecoverError, ProcessStep, CloseBegins,
              Exit, Crash, Forget, vars, IInv, TypeOK
<1> QED
  BY <1>1, <1>2, <1>3, <1>4, <1>5 DEF Next, RunStep

(* A terminal status is final, and a row never disappears.                  *)
THEOREM HistoryIsFinal == Spec => TerminalIsFinal
<1>1. IInv /\ [Next]_vars =>
        [\A t \in Tasks : /\ record[t] \in Terminal => record'[t] = record[t]
                          /\ record[t] = "planning" => record'[t] # "absent"]_vars
  BY StepKeepsHistory
<1> QED  BY <1>1, Invariance, PTL DEF Spec, TerminalIsFinal

(* The detailed gateway implements the ledger: every step is one of the     *)
(* ledger's or changes nothing a client of it sees.                         *)
LEMMA StepKeepsLedger ==
  ASSUME IInv, IInv', [Next]_vars
  PROVE  [Ledger!Next]_(Ledger!ledger)
<1> USE TasksAssumption
    DEF Ledger!ledger, Ledger!Next, Ledger!Terminal, Terminal, finish, busy,
        recovered, GiveBack, CloseGoesOn
<1>1. ASSUME NEW t \in Tasks, ClientStep(t)
      PROVE  UNCHANGED Ledger!ledger
  BY <1>1 DEF ClientStep, Submit, SubmitCancelled, process, service
<1>2. ASSUME NEW t \in Tasks, SubmitStep(t)
      PROVE  [Ledger!Next]_(Ledger!ledger)
  <2>0. phase = "up" /\ phase' = "up"
    BY <1>2 DEF SubmitStep, SubmitRefused, SubmitAdmitted, Created,
                CreatedForNobody, CreateError, Withdrawn, WithdrawError, process,
                IInv, MemoryInv
  <2>1. CASE SubmitRefused(t)
    BY <2>1 DEF SubmitRefused, process
  <2>2. CASE SubmitAdmitted(t)
    BY <2>0, <2>2 DEF SubmitAdmitted, Ledger!Take, IInv, RecordInv
  <2>3. CASE Created(t) \/ CreatedForNobody(t)
    BY <2>0, <2>3 DEF Created, CreatedForNobody, service, Ledger!Publish, IInv,
                      ActiveInv, SinglePlan, Engaged, RecordInv
  <2>4. CASE CreateError(t) \/ WithdrawError(t)
    BY <2>0, <2>4 DEF CreateError, WithdrawError, Ledger!Release, IInv, ActiveInv,
                      SinglePlan, Engaged
  <2>5. CASE Withdrawn(t)
    <3>1. active = t /\ active' = NoTask
      BY <2>5 DEF Withdrawn, IInv, ActiveInv, SinglePlan, Engaged
    <3>2. CASE record[t] = "planning"
      <4>1. record' = [record EXCEPT ![t] = "interrupted"]
        BY <2>5, <3>2 DEF Withdrawn, IInv, TypeOK
      <4> QED  BY <2>0, <3>1, <3>2, <4>1 DEF Ledger!Settle
    <3>3. CASE record[t] # "planning"
      <4>1. record' = record
        BY <2>5, <3>3 DEF Withdrawn, IInv, TypeOK
      <4> QED  BY <2>0, <3>1, <4>1 DEF Ledger!Release
    <3> QED  BY <3>2, <3>3
  <2> QED  BY <1>2, <2>1, <2>2, <2>3, <2>4, <2>5 DEF SubmitStep
<1>3. ASSUME NEW t \in Tasks, PlanStep(t)
      PROVE  [Ledger!Next]_(Ledger!ledger)
  BY <1>3 DEF PlanStep, RunStart, SendWrite, SendDone, SendError, RunTimeout,
              RunResumed, RunInterrupted, RunKilled, process, service,
              Ledger!Release, IInv, ActiveInv, SinglePlan, Engaged, Live, InPlan
<1>4. ASSUME NEW t \in Tasks, SaveStep(t) \/ OrphanEnds(t)
      PROVE  [Ledger!Next]_(Ledger!ledger)
  <2>1. CASE Saved(t)
    <3>1. record[t] = "planning" /\ outcome[t] \in Terminal /\ active = t
      BY <2>1 DEF Saved, IInv, RecordInv, ActiveInv, SinglePlan, Engaged, Live
    <3>2. record' = [record EXCEPT ![t] = outcome[t]]
      BY <2>1, <3>1 DEF Saved, IInv, TypeOK
    <3>3. active' \in {active, NoTask} /\ phase' = phase
      BY <2>1 DEF Saved, EndRun, process
    <3> QED  BY <3>1, <3>2, <3>3 DEF Ledger!Settle
  <2>2. CASE SaveError(t) \/ Notified(t) \/ ReadError(t)
    BY <2>2 DEF SaveError, Notified, ReadError, EndRun, process, Ledger!Release,
                IInv, ActiveInv, SinglePlan, Engaged, Live
  <2>3. CASE OrphanEnds(t)
    BY <2>3 DEF OrphanEnds, service, Ledger!Settle, IInv, TypeOK, RecordInv
  <2> QED  BY <1>4, <2>1, <2>2, <2>3 DEF SaveStep
<1>5. CASE MotionStep
  BY <1>5 DEF MotionStep, MotionRegister, MotionReplies, Deliver, LinkBroken,
              SessionLost, EmergencyStop, process, service
<1>6. CASE CloseStep
  BY <1>6 DEF CloseStep, CloseLocked, CloseGathered, CloseFinished, CloseError,
              process, Ledger!Settle, Ledger!Release, IInv, TypeOK, CloseInv
<1>7. CASE BootStep
  BY <1>7 DEF BootStep, Boot, Recover, RecoverError, service, Ledger!Start
<1>8. CASE ProcessStep
  BY <1>8 DEF ProcessStep, CloseBegins, Exit, Crash, Forget, process, service,
              Ledger!Stop, IInv, TypeOK, MemoryInv
<1>9. CASE UNCHANGED vars
  BY <1>9 DEF vars, process, service
<1> QED
  BY <1>1, <1>2, <1>3, <1>4, <1>5, <1>6, <1>7, <1>8, <1>9 DEF Next, RunStep

(* PlanGateway implements PlanLedger.                                       *)
THEOREM ImplementsLedger == Spec => KeepsLedger
<1>1. Init => Ledger!Init
  BY DEF Init, Ledger!Init
<1>2. IInv /\ IInv' /\ [Next]_vars => [Ledger!Next]_(Ledger!ledger)
  BY StepKeepsLedger
<1> QED
  BY <1>1, <1>2, Invariance, PTL DEF Spec, KeepsLedger, Ledger!Spec
=============================================================================
