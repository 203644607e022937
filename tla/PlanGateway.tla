----------------------------- MODULE PlanGateway ----------------------------
(***************************************************************************)
(* The planning gateway: RobotService, KinematicsAdapter and TaskRepository *)
(* of the Python backend, with the seam they have to the TCP dispatch       *)
(* server (the motion session) and to the process that runs them.           *)
(*                                                                          *)
(* One action is what runs without giving up control: a coroutine from one  *)
(* await to the next, a callback, or one SQLite transaction in a worker     *)
(* thread.  A thread's transaction and the resumption of the coroutine that *)
(* awaits it are one step, except where cancellation can come in between.   *)
(***************************************************************************)
EXTENDS FiniteSets, Naturals

CONSTANTS Tasks,       \* task ids (uuid4: one per admitted request)
          Callers,     \* the tasks submitted with an on_finished callback
          Sessions,    \* identities of motion connections (reused when free)
          NoTask, NoSession,
          CloseTask,   \* the coroutine RobotService.close, as a lock holder
          MaxCrashes,  \* bound on the crashes of a behaviour
          MaxFaults    \* bound on the SQLite errors of a behaviour

ASSUME TasksAssumption == /\ NoTask \notin Tasks
                          /\ CloseTask \notin Tasks
                          /\ CloseTask # NoTask
                          /\ Callers \subseteq Tasks
ASSUME SessionsAssumption == NoSession \notin Sessions
ASSUME BoundsAssumption == MaxCrashes \in Nat /\ MaxFaults \in Nat

VARIABLES
  phase,      \* the process: "down", "booting" (lock held), "up"
  crashes, faults,
  record,     \* robot_tasks.status of every task; survives a crash
  unsaved,    \* ghost: tasks whose final UPDATE raised, since the last start
  request,    \* where each submit() call is
  cancelled,  \* submit() calls that were cancelled while creating the row
  holder,     \* _submission_lock
  active,     \* _active_id
  worker,     \* _worker: the last task a worker was started for
  run,        \* where each _run() coroutine is
  cancelRun,  \* the worker with a cancel() that is not yet delivered
  outcome,    \* the local "state" of each _run()
  pending,    \* adapter._pending: the future of each task
  sentOn,     \* the session send_to() picked for each task
  session,    \* server._sessions["motion"]
  link,       \* "broken": its writer.is_closing(), handler not yet run
  motion,     \* what the motion service does with each command
  transit,    \* replies on the wire or in the server's read buffer
  closing,    \* where RobotService.close() is
  orphans,    \* UPDATE threads whose coroutine was cancelled
  told        \* what on_finished was called with

process == <<phase, crashes, faults>>
service == <<request, cancelled, holder, active, worker>>
running == <<run, cancelRun, outcome, orphans, told>>
network == <<session, link, motion, transit>>
vars == <<process, record, unsaved, service, running, pending, sentOn,
          network, closing>>

Terminal  == {"planned", "failed", "interrupted"}
Replies   == {"valid", "invalid", "error"}
InPlan    == {"sending", "draining", "waiting"}
Live      == {"scheduled", "saving", "reading"} \cup InPlan

TypeOK ==
  /\ phase \in {"down", "booting", "up"}
  /\ crashes \in Nat /\ faults \in Nat
  /\ record \in [Tasks -> {"absent", "planning"} \cup Terminal]
  /\ unsaved \in SUBSET Tasks
  /\ request \in [Tasks -> {"new", "waiting", "creating", "withdrawing",
                            "accepted", "refused"}]
  /\ cancelled \in SUBSET Tasks
  /\ holder \in Tasks \cup {NoTask, CloseTask}
  /\ active \in Tasks \cup {NoTask}
  /\ worker \in Tasks \cup {NoTask}
  /\ run \in [Tasks -> {"none", "done"} \cup Live]
  /\ cancelRun \in Tasks \cup {NoTask}
  /\ outcome \in [Tasks -> {"none"} \cup Terminal]
  /\ pending \in [Tasks -> {"none", "open", "offline"} \cup Replies]
  /\ sentOn \in [Tasks -> Sessions \cup {NoSession}]
  /\ session \in Sessions \cup {NoSession}
  /\ link \in {"ok", "broken"}
  /\ motion \in [Tasks -> {"idle", "commanded", "lost"} \cup Replies]
  /\ transit \in SUBSET Tasks
  /\ closing \in {"open", "locking", "gathering", "finishing", "closed"}
  /\ orphans \in SUBSET Tasks
  /\ told \in [Tasks -> {"none"} \cup Terminal \cup {"planning", "absent"}]

Init ==
  /\ phase = "down" /\ crashes = 0 /\ faults = 0
  /\ record = [t \in Tasks |-> "absent"] /\ unsaved = {}
  /\ request = [t \in Tasks |-> "new"] /\ cancelled = {}
  /\ holder = NoTask /\ active = NoTask /\ worker = NoTask
  /\ run = [t \in Tasks |-> "none"] /\ cancelRun = NoTask
  /\ outcome = [t \in Tasks |-> "none"]
  /\ pending = [t \in Tasks |-> "none"]
  /\ sentOn = [t \in Tasks |-> NoSession]
  /\ session = NoSession /\ link = "ok"
  /\ motion = [t \in Tasks |-> "idle"] /\ transit = {}
  /\ closing = "open" /\ orphans = {}
  /\ told = [t \in Tasks |-> "none"]
-----------------------------------------------------------------------------
(* Helpers: what the code's small functions do.                            *)

(* Definitions named ..._M are mutants: the definition that follows with a  *)
(* plausible bug.  No action uses them; they test the properties.           *)

(* TaskRepository.finish: UPDATE ... WHERE task_id=? AND status='planning'. *)
finish(t, s) == [record EXCEPT ![t] = IF @ = "planning" THEN s ELSE @]

recovered_M == record

(* TaskRepository.recover_interrupted.                                      *)
recovered == [t \in Tasks |-> IF record[t] = "planning" THEN "interrupted"
                                                        ELSE record[t]]

(* A SQLite error (disk full, the 1 s lock timeout) hits this transaction.  *)
Fault == faults < MaxFaults /\ faults' = faults + 1

is_online == session # NoSession /\ link = "ok"

(* _active_id is taken.                                                     *)
busy_M == FALSE

busy == active # NoTask

on_disconnect_M == pending

(* KinematicsAdapter.on_disconnect: every open future fails with 4000.      *)
on_disconnect == [t \in Tasks |-> IF pending[t] = "open" THEN "offline"
                                                         ELSE pending[t]]

resolved_M(t) == [u \in Tasks |-> IF pending[u] = "open" THEN motion[t]
                                                         ELSE pending[u]]

(* KinematicsAdapter.on_message: the reply for task t wakes the future of   *)
(* that task, if it is still open.                                          *)
resolved(t) == [pending EXCEPT ![t] = IF @ = "open" THEN motion[t] ELSE @]

(* What _run makes of a resolved future: _validate_result accepts "valid".  *)
outcome_of(reply) == IF reply = "valid" THEN "planned" ELSE "failed"

timed_M == {"sending", "draining"}

(* Where wait_for covers plan().                                            *)
timed == InPlan

(* A command the motion service has on a connection that ends stays         *)
(* unanswered.                                                              *)
hung_up == [t \in Tasks |-> IF motion[t] = "commanded" THEN "lost"
                                                       ELSE motion[t]]

(* The finally clause of plan() and the end of _run's first try statement.  *)
EndPlan(t, s, futures) ==
  /\ outcome' = [outcome EXCEPT ![t] = s]
  /\ pending' = [u \in Tasks |-> IF u = t THEN "none" ELSE futures[u]]
  /\ sentOn' = [sentOn EXCEPT ![t] = NoSession]
  /\ run' = [run EXCEPT ![t] = "saving"]

EndRun_M(t) == run' = [run EXCEPT ![t] = "done"] /\ UNCHANGED active

(* The finally clause of _run.                                              *)
EndRun(t) == run' = [run EXCEPT ![t] = "done"] /\ active' = NoTask

GiveBack_M == active' = NoTask /\ UNCHANGED holder

(* submit() ends with an error: except BaseException, then the end of the   *)
(* async with.                                                              *)
GiveBack == active' = NoTask /\ holder' = NoTask
-----------------------------------------------------------------------------
(* RobotService.submit                                                      *)

(* The call: parameters are validated before the lock is asked for.         *)
Submit(t) ==
  /\ phase = "up" /\ request[t] = "new"
  /\ \E r \in {"waiting", "refused"} : request' = [request EXCEPT ![t] = r]
  /\ UNCHANGED <<process, record, unsaved, cancelled, holder, active, worker,
                 running, pending, sentOn, network, closing>>

(* async with _submission_lock: closing 503, busy 409, motion offline 503.  *)
SubmitRefused(t) ==
  /\ request[t] = "waiting" /\ holder = NoTask
  /\ closing # "open" \/ busy \/ ~is_online
  /\ request' = [request EXCEPT ![t] = "refused"]
  /\ UNCHANGED <<process, record, unsaved, cancelled, holder, active, worker,
                 running, pending, sentOn, network, closing>>

(* The checks pass: the id is taken, and the INSERT goes to a thread while  *)
(* the lock stays held.                                                     *)
SubmitAdmitted(t) ==
  /\ request[t] = "waiting" /\ holder = NoTask
  /\ closing = "open" /\ ~busy /\ is_online
  /\ request' = [request EXCEPT ![t] = "creating"]
  /\ active' = t /\ holder' = t
  /\ UNCHANGED <<process, record, unsaved, cancelled, worker, running, pending,
                 sentOn, network, closing>>

(* The row is there; the worker is created and the id returned.             *)
Created(t) ==
  /\ request[t] = "creating" /\ t \notin cancelled
  /\ record' = [record EXCEPT ![t] = "planning"]
  /\ request' = [request EXCEPT ![t] = "accepted"]
  /\ worker' = t /\ run' = [run EXCEPT ![t] = "scheduled"]
  /\ holder' = NoTask
  /\ UNCHANGED <<process, unsaved, cancelled, active, cancelRun, outcome,
                 orphans, told, pending, sentOn, network, closing>>

(* The caller was cancelled: the shielded INSERT is awaited all the same,   *)
(* and the row is closed again by a second thread.                          *)
CreatedForNobody(t) ==
  /\ request[t] = "creating" /\ t \in cancelled
  /\ record' = [record EXCEPT ![t] = "planning"]
  /\ request' = [request EXCEPT ![t] = "withdrawing"]
  /\ UNCHANGED <<process, unsaved, cancelled, holder, active, worker, running,
                 pending, sentOn, network, closing>>

(* except BaseException: the id is given back and the error raised.         *)
CreateError(t) ==
  /\ request[t] = "creating" /\ Fault
  /\ request' = [request EXCEPT ![t] = "refused"]
  /\ GiveBack
  /\ UNCHANGED <<phase, crashes, record, unsaved, cancelled, worker, running,
                 pending, sentOn, network, closing>>

Withdrawn(t) ==
  /\ request[t] = "withdrawing"
  /\ record' = finish(t, "interrupted")
  /\ request' = [request EXCEPT ![t] = "refused"]
  /\ GiveBack
  /\ UNCHANGED <<process, unsaved, cancelled, worker, running, pending, sentOn,
                 network, closing>>

WithdrawError(t) ==
  /\ request[t] = "withdrawing" /\ Fault
  /\ unsaved' = unsaved \cup {t}
  /\ request' = [request EXCEPT ![t] = "refused"]
  /\ GiveBack
  /\ UNCHANGED <<phase, crashes, record, cancelled, worker, running, pending,
                 sentOn, network, closing>>

(* The task that awaits submit() is cancelled, once: an HTTP handler, or    *)
(* _plan_target by DispatchService.close.                                   *)
SubmitCancelled(t) ==
  /\ \/ /\ request[t] = "waiting"
        /\ request' = [request EXCEPT ![t] = "refused"]
        /\ UNCHANGED cancelled
     \/ /\ request[t] = "creating" /\ t \notin cancelled
        /\ cancelled' = cancelled \cup {t}
        /\ UNCHANGED request
  /\ UNCHANGED <<process, record, unsaved, holder, active, worker, running,
                 pending, sentOn, network, closing>>
-----------------------------------------------------------------------------
(* RobotService._run around KinematicsAdapter.plan                          *)

(* plan() up to its first suspension: the future is registered, then        *)
(* send_to() looks the session up; offline fails at once.                   *)
RunStart(t) ==
  /\ run[t] = "scheduled" /\ cancelRun = NoTask
  /\ IF is_online
     THEN /\ pending' = [pending EXCEPT ![t] = "open"]
          /\ sentOn' = [sentOn EXCEPT ![t] = session]
          /\ run' = [run EXCEPT ![t] = "sending"]
          /\ UNCHANGED outcome
     ELSE EndPlan(t, "failed", pending)
  /\ UNCHANGED <<process, record, unsaved, service, cancelRun, orphans, told,
                 network, closing>>

(* The session's send_lock is free: the frame is written.  On a connection  *)
(* that has gone meanwhile the bytes are dropped.                           *)
SendWrite(t) ==
  /\ run[t] = "sending" /\ cancelRun = NoTask
  /\ run' = [run EXCEPT ![t] = "draining"]
  /\ motion' = [motion EXCEPT ![t] = IF session = sentOn[t] /\ link = "ok"
                                     THEN "commanded" ELSE "lost"]
  /\ UNCHANGED <<process, record, unsaved, service, cancelRun, outcome, orphans,
                 told, pending, sentOn, session, link, transit, closing>>

SendDone(t) ==
  /\ run[t] = "draining" /\ cancelRun = NoTask
  /\ run' = [run EXCEPT ![t] = "waiting"]
  /\ UNCHANGED <<process, record, unsaved, service, cancelRun, outcome, orphans,
                 told, pending, sentOn, network, closing>>

(* drain() fails or takes 3 s: the session is closed and, if it is still    *)
(* the registered one, unregistered, which fails every open future.         *)
SendError(t) ==
  /\ run[t] = "draining" /\ cancelRun = NoTask
  /\ IF session = sentOn[t]
     THEN /\ session' = NoSession /\ link' = "ok" /\ motion' = hung_up
          /\ EndPlan(t, "failed", on_disconnect)
     ELSE UNCHANGED <<session, link, motion>> /\ EndPlan(t, "failed", pending)
  /\ UNCHANGED <<process, record, unsaved, service, cancelRun, orphans, told,
                 transit, closing>>

(* wait_for expires, whether or not a reply is already in the future.       *)
RunTimeout(t) ==
  /\ run[t] \in timed /\ cancelRun = NoTask
  /\ EndPlan(t, "failed", pending)
  /\ UNCHANGED <<process, record, unsaved, service, cancelRun, orphans, told,
                 network, closing>>

(* The future is resolved.  Up to Python 3.11 wait_for may swallow a        *)
(* cancellation here.                                                       *)
RunResumed(t) ==
  /\ run[t] = "waiting" /\ pending[t] \notin {"none", "open"}
  /\ EndPlan(t, outcome_of(pending[t]), pending)
  /\ cancelRun' = NoTask
  /\ UNCHANGED <<process, record, unsaved, service, orphans, told, network,
                 closing>>

(* CancelledError inside wait_for is an outcome like the others.            *)
RunInterrupted(t) ==
  /\ cancelRun = t /\ run[t] \in InPlan
  /\ EndPlan(t, "interrupted", pending)
  /\ cancelRun' = NoTask
  /\ UNCHANGED <<process, record, unsaved, service, orphans, told, network,
                 closing>>

(* Cancelled before its first step the coroutine never runs, not even its   *)
(* finally; cancelled in a to_thread the thread goes on without it (a       *)
(* transaction that ends between cancel() and here is an orphan's, too).    *)
RunKilled(t) ==
  /\ cancelRun = t /\ run[t] \in {"scheduled", "saving", "reading"}
  /\ run' = [run EXCEPT ![t] = "done"]
  /\ active' = IF run[t] = "scheduled" THEN active ELSE NoTask
  /\ orphans' = IF run[t] = "saving" THEN orphans \cup {t} ELSE orphans
  /\ cancelRun' = NoTask
  /\ UNCHANGED <<process, record, unsaved, request, cancelled, holder, worker,
                 outcome, told, pending, sentOn, network, closing>>

(* repository.finish; a caller with a callback then reads the row back.     *)
Saved(t) ==
  /\ run[t] = "saving" /\ cancelRun = NoTask
  /\ record' = finish(t, outcome[t])
  /\ IF t \in Callers
     THEN run' = [run EXCEPT ![t] = "reading"] /\ UNCHANGED active
     ELSE EndRun(t)
  /\ UNCHANGED <<process, unsaved, request, cancelled, holder, worker,
                 cancelRun, outcome, orphans, told, pending, sentOn, network,
                 closing>>

SaveError_M(t) ==
  /\ run[t] = "saving" /\ cancelRun = NoTask /\ Fault
  /\ unsaved' = unsaved \cup {t}
  /\ told' = [told EXCEPT ![t] = outcome[t]]
  /\ EndRun(t)
  /\ UNCHANGED <<phase, crashes, record, request, cancelled, holder, worker,
                 cancelRun, outcome, orphans, pending, sentOn, network, closing>>

(* except Exception: logged; the callback is not called.                    *)
SaveError(t) ==
  /\ run[t] = "saving" /\ cancelRun = NoTask /\ Fault
  /\ unsaved' = unsaved \cup {t}
  /\ EndRun(t)
  /\ UNCHANGED <<phase, crashes, record, request, cancelled, holder, worker,
                 cancelRun, outcome, orphans, told, pending, sentOn, network,
                 closing>>

Notified(t) ==
  /\ run[t] = "reading" /\ cancelRun = NoTask
  /\ told' = [told EXCEPT ![t] = record[t]]
  /\ EndRun(t)
  /\ UNCHANGED <<process, record, unsaved, request, cancelled, holder, worker,
                 cancelRun, outcome, orphans, pending, sentOn, network, closing>>

ReadError(t) ==
  /\ run[t] = "reading" /\ cancelRun = NoTask /\ Fault
  /\ EndRun(t)
  /\ UNCHANGED <<phase, crashes, record, unsaved, request, cancelled, holder,
                 worker, cancelRun, outcome, orphans, told, pending, sentOn,
                 network, closing>>

(* A thread nobody awaits ends: its UPDATE has the same guard.              *)
OrphanEnds(t) ==
  /\ t \in orphans
  /\ orphans' = orphans \ {t}
  /\ \/ record' = finish(t, outcome[t]) /\ UNCHANGED <<faults, unsaved>>
     \/ Fault /\ unsaved' = unsaved \cup {t} /\ UNCHANGED record
  /\ UNCHANGED <<phase, crashes, service, run, cancelRun, outcome, told, pending,
                 sentOn, network, closing>>
-----------------------------------------------------------------------------
(* The motion session, as the adapter sees it, and the motion service       *)

(* TcpDispatchServer._handle_register for "motion": a session whose writer  *)
(* is closing is unregistered first; a healthy one stays (ROBOT_BUSY).      *)
MotionRegister(s) ==
  /\ phase = "up" /\ ~is_online
  /\ s # session /\ \A t \in Tasks : sentOn[t] # s
  /\ pending' = IF session # NoSession THEN on_disconnect ELSE pending
  /\ session' = s /\ link' = "ok"
  /\ UNCHANGED <<process, record, unsaved, service, running, sentOn, motion,
                 transit, closing>>

(* The transport breaks; the session stays registered until its reader      *)
(* notices.                                                                 *)
LinkBroken ==
  /\ is_online
  /\ link' = "broken"
  /\ motion' = hung_up
  /\ UNCHANGED <<process, record, unsaved, service, running, pending, sentOn,
                 session, transit, closing>>

(* _unregister: end of _handle_client, or the heartbeat patrol.             *)
SessionLost ==
  /\ session # NoSession
  /\ session' = NoSession /\ link' = "ok"
  /\ pending' = on_disconnect
  /\ motion' = hung_up
  /\ UNCHANGED <<process, record, unsaved, service, running, sentOn, transit,
                 closing>>

(* The motion service answers a command once, if at all.                    *)
MotionReplies(t) ==
  /\ motion[t] = "commanded"
  /\ \E k \in Replies : motion' = [motion EXCEPT ![t] = k]
  /\ transit' = transit \cup {t}
  /\ UNCHANGED <<process, record, unsaved, service, running, pending, sentOn,
                 session, link, closing>>

(* A reply is read; the read buffer of a session that is gone is still      *)
(* served.                                                                  *)
Deliver(t) ==
  /\ t \in transit
  /\ transit' = transit \ {t}
  /\ pending' = resolved(t)
  /\ UNCHANGED <<process, record, unsaved, service, running, sentOn, session,
                 link, motion, closing>>

(* ... and EMERGENCY_STOP from motion fails every open future.              *)
EmergencyStop ==
  /\ session # NoSession
  /\ \E t \in Tasks : pending[t] = "open"
  /\ pending' = on_disconnect
  /\ UNCHANGED <<process, record, unsaved, service, running, sentOn, network,
                 closing>>
-----------------------------------------------------------------------------
(* RobotService.close                                                       *)

CloseBegins ==
  /\ phase = "up" /\ closing = "open"
  /\ closing' = "locking"
  /\ UNCHANGED <<process, record, unsaved, service, running, pending, sentOn,
                 network>>

CloseGoesOn_M == closing' = "closed" /\ holder' = NoTask

(* The second if of close(): an id still taken is that of a worker that was *)
(* cancelled before its first step.                                         *)
CloseGoesOn ==
  /\ closing' = IF busy THEN "finishing" ELSE "closed"
  /\ holder' = IF busy THEN CloseTask ELSE NoTask

(* gather returns early, or waits for the id instead of the worker.         *)
gathered_M == TRUE
gathered_by_id_M == ~busy

gathered == run[worker] \notin Live

(* The lock is free, so no submit is between its checks and its worker.     *)
CloseLocked ==
  /\ closing = "locking" /\ holder = NoTask
  /\ IF worker # NoTask /\ run[worker] \in Live
     THEN /\ cancelRun' = worker /\ closing' = "gathering"
          /\ holder' = CloseTask
     ELSE CloseGoesOn /\ UNCHANGED cancelRun
  /\ UNCHANGED <<process, record, unsaved, request, cancelled, active, worker,
                 run, outcome, orphans, told, pending, sentOn, network>>

CloseGathered ==
  /\ closing = "gathering" /\ gathered
  /\ CloseGoesOn
  /\ UNCHANGED <<process, record, unsaved, request, cancelled, active, worker,
                 running, pending, sentOn, network>>

CloseFinished ==
  /\ closing = "finishing"
  /\ record' = finish(active, "interrupted")
  /\ active' = NoTask /\ holder' = NoTask /\ closing' = "closed"
  /\ UNCHANGED <<process, unsaved, request, cancelled, worker, running, pending,
                 sentOn, network>>

(* The error leaves close(); the exit stack goes on with the other parts.   *)
CloseError ==
  /\ closing = "finishing" /\ Fault
  /\ unsaved' = unsaved \cup {active}
  /\ holder' = NoTask /\ closing' = "closed"
  /\ UNCHANGED <<phase, crashes, record, request, cancelled, active, worker,
                 running, pending, sentOn, network>>
-----------------------------------------------------------------------------
(* The process: create_app's lifespan, and the crash of it                  *)

(* What is only in memory is gone; requests in flight get no answer.        *)
Forget ==
  /\ phase' = "down"
  /\ request' = [t \in Tasks |-> IF request[t] \in {"new", "accepted"}
                                 THEN request[t] ELSE "refused"]
  /\ cancelled' = {} /\ holder' = NoTask /\ active' = NoTask
  /\ worker' = NoTask /\ run' = [t \in Tasks |-> "none"] /\ cancelRun' = NoTask
  /\ pending' = [t \in Tasks |-> "none"]
  /\ sentOn' = [t \in Tasks |-> NoSession]
  /\ session' = NoSession /\ link' = "ok"
  /\ motion' = hung_up
  /\ transit' = {} /\ closing' = "open"
  /\ UNCHANGED <<record, unsaved, outcome, told>>

(* lock.acquire and initialize: the previous instance has released the      *)
(* file lock.                                                               *)
Boot ==
  /\ phase = "down"
  /\ phase' = "booting"
  /\ UNCHANGED <<crashes, faults, record, unsaved, service, running, pending,
                 sentOn, network, closing>>

(* recover_interrupted, then the server listens.                            *)
Recover ==
  /\ phase = "booting"
  /\ phase' = "up"
  /\ record' = recovered
  /\ unsaved' = {}
  /\ UNCHANGED <<crashes, faults, service, running, pending, sentOn,
                 network, closing>>

RecoverError ==
  /\ phase = "booting" /\ Fault
  /\ phase' = "down"
  /\ UNCHANGED <<crashes, record, unsaved, service, running, pending, sentOn,
                 network, closing>>

(* The rest of the exit stack; a thread still in its UPDATE outlives the    *)
(* release of the file lock.                                                *)
Exit ==
  /\ phase = "up" /\ closing = "closed"
  /\ Forget
  /\ UNCHANGED <<crashes, faults, orphans>>

Crash ==
  /\ phase # "down" /\ crashes < MaxCrashes
  /\ crashes' = crashes + 1
  /\ orphans' = {}
  /\ Forget
  /\ UNCHANGED faults
-----------------------------------------------------------------------------
SubmitStep(t) == \/ SubmitRefused(t) \/ SubmitAdmitted(t)
                 \/ Created(t) \/ CreatedForNobody(t) \/ CreateError(t)
                 \/ Withdrawn(t) \/ WithdrawError(t)

PlanStep(t) == \/ RunStart(t) \/ SendWrite(t) \/ SendDone(t) \/ SendError(t)
               \/ RunTimeout(t) \/ RunResumed(t) \/ RunInterrupted(t)
               \/ RunKilled(t)

SaveStep(t) == Saved(t) \/ SaveError(t) \/ Notified(t) \/ ReadError(t)

RunStep(t) == PlanStep(t) \/ SaveStep(t)

CloseStep == CloseLocked \/ CloseGathered \/ CloseFinished \/ CloseError

BootStep == Boot \/ Recover \/ RecoverError

ClientStep(t) == Submit(t) \/ SubmitCancelled(t)

MotionStep == \/ \E s \in Sessions : MotionRegister(s)
              \/ \E t \in Tasks : MotionReplies(t) \/ Deliver(t)
              \/ LinkBroken \/ SessionLost \/ EmergencyStop

ProcessStep == CloseBegins \/ Exit \/ Crash

Next == \/ \E t \in Tasks : \/ ClientStep(t) \/ SubmitStep(t) \/ RunStep(t)
                            \/ OrphanEnds(t)
        \/ MotionStep
        \/ CloseStep
        \/ BootStep
        \/ ProcessStep

Spec == Init /\ [][Next]_vars

(* The event loop runs what is ready, the timer of wait_for fires, a        *)
(* transaction ends within SQLite's 1 s timeout, and a stopped gateway is   *)
(* started again.  Nothing is assumed of clients or of the motion service.  *)
Fairness == /\ \A t \in Tasks : /\ WF_vars(SubmitStep(t))
                                /\ WF_vars(RunStep(t))
                                /\ WF_vars(OrphanEnds(t))
            /\ WF_vars(CloseStep)
            /\ WF_vars(BootStep)

FairSpec == Spec /\ Fairness
-----------------------------------------------------------------------------
(* Properties                                                               *)

(* A row that says "planning" while the gateway is up has somebody who will *)
(* close it: the submit() or _run() of the active task, a cancelled UPDATE  *)
(* thread, or close() itself.  The one exception is a row whose final       *)
(* UPDATE raised.                                                           *)
HasOwner(t) ==
  \/ /\ active = t
     /\ \/ request[t] = "withdrawing"
        \/ run[t] \in Live \ {"reading"}
        \/ run[t] = "done" /\ closing \in {"gathering", "finishing"}
  \/ t \in orphans
  \/ t \in unsaved

PlanningHasOwner ==
  phase = "up" => \A t \in Tasks : record[t] = "planning" => HasOwner(t)

(* The robot is planned for by one task at a time: two coroutines are never *)
(* both between admission and release, whatever interleaving of submit,     *)
(* cancellation, worker and close led there.                                *)
Engaged(t) == request[t] \in {"creating", "withdrawing"} \/ run[t] \in Live

SinglePlan ==
  \A t \in Tasks : Engaged(t) => active = t

(* No missed wake-up: a future still open belongs to the session that is    *)
(* registered now, so the next disconnect fails it at once and no plan has  *)
(* to sit out its timeout for a connection that has gone.                   *)
NoMissedDisconnect ==
  \A t \in Tasks : pending[t] = "open" =>
    run[t] \in InPlan /\ session # NoSession /\ sentOn[t] = session

(* "planned" is only stored for a task the motion service answered with a   *)
(* valid plan: a late reply to an earlier task never completes a later one. *)
PlannedIsAnswered ==
  \A t \in Tasks : record[t] = "planned" => motion[t] = "valid"

(* What on_finished was told is terminal and is what the table says ever    *)
(* after.                                                                   *)
ToldIsRecorded ==
  \A t \in Tasks : told[t] # "none" => told[t] \in Terminal /\ told[t] = record[t]

(* After close() nothing of a plan is left running and the lock is free;    *)
(* only rows whose UPDATE failed or is still in a thread can say planning.  *)
ClosedIsQuiet ==
  closing = "closed" =>
    /\ holder = NoTask
    /\ \A t \in Tasks : /\ ~Engaged(t) /\ pending[t] # "open"
                        /\ record[t] = "planning" => t \in orphans \cup unsaved

(* History is never rewritten, and nothing is planned twice.                *)
TerminalIsFinal ==
  [][\A t \in Tasks : /\ record[t] \in Terminal => record'[t] = record[t]
                      /\ record[t] = "planning" => record'[t] # "absent"]_vars

(* The gateway keeps the promise of PlanLedger.                             *)
Ledger == INSTANCE PlanLedger WITH live <- active, serving <- (phase = "up")
KeepsLedger == Ledger!Spec

(* Every row reaches a terminal status: through its worker, its timeout,    *)
(* close(), or the recovery of the next start.                              *)
EventuallyTerminal ==
  \A t \in Tasks : (record[t] = "planning") ~> (record[t] \in Terminal)

(* submit() answers: the lock is always given back.                         *)
SubmitAnswers ==
  \A t \in Tasks : (request[t] \in {"waiting", "creating"})
                     ~> (request[t] \in {"accepted", "refused"})

(* A shutdown is not blocked by a plan, whatever the motion service does.   *)
CloseEnds == (closing # "open") ~> (closing = "closed" \/ phase = "down")
-----------------------------------------------------------------------------
(* The inductive invariant behind the safety properties                     *)

(* The submission lock is held exactly by a submit() that creates or        *)
(* withdraws a row, or by close() while it waits or writes.                 *)
LockInv ==
  /\ \A t \in Tasks : request[t] \in {"creating", "withdrawing"} <=> holder = t
  /\ closing \in {"gathering", "finishing"} <=> holder = CloseTask

(* _active_id names the one task that is engaged, and a worker that lives   *)
(* is the one _worker points to.  Before close() has the lock, an id is     *)
(* only taken while somebody is engaged in it.                              *)
ActiveInv ==
  /\ SinglePlan
  /\ closing \in {"open", "locking"} /\ active # NoTask => Engaged(active)
  /\ \A t \in Tasks : run[t] \in Live => worker = t /\ request[t] = "accepted"
  /\ \A t \in Tasks : run[t] # "none" => request[t] = "accepted"

(* close(): a cancellation is under way only while gather waits for it, and *)
(* the row close() itself has to write is that of a worker that never ran.  *)
CloseInv ==
  /\ cancelRun # NoTask => /\ closing = "gathering" /\ cancelRun = worker
                          /\ run[worker] \in Live
  /\ closing = "gathering" => /\ worker # NoTask /\ run[worker] # "none"
                              /\ active \in {NoTask, worker}
  /\ closing = "finishing" => /\ active # NoTask /\ run[active] = "done"
                              /\ \A t \in Tasks : run[t] \notin Live
  /\ closing = "closed" => holder = NoTask /\ \A t \in Tasks : ~Engaged(t)

(* A process that is not up has nothing in memory.                          *)
MemoryInv ==
  phase # "up" =>
    /\ active = NoTask /\ session = NoSession /\ closing = "open"
    /\ \A t \in Tasks : /\ request[t] \in {"new", "accepted", "refused"}
                        /\ run[t] = "none"

(* What is stored follows what the coroutines have done.                    *)
RecordInv ==
  \A t \in Tasks :
    /\ request[t] \in {"new", "waiting", "creating"} => record[t] = "absent"
    /\ run[t] \in Live \ {"reading"} => record[t] = "planning"
    /\ run[t] = "reading" => record[t] \in Terminal
    /\ run[t] = "saving" => outcome[t] \in Terminal
    /\ t \in orphans => /\ run[t] \in {"none", "done"}
                        /\ request[t] = "accepted"
                        /\ record[t] # "absent"
                        /\ outcome[t] \in Terminal
    /\ request[t] \in {"withdrawing", "accepted"} => record[t] # "absent"

(* A "planned" on its way to the table stands for a valid answer.           *)
AnswerInv ==
  \A t \in Tasks :
    /\ \/ request[t] \in {"new", "waiting", "creating"}
       \/ run[t] \in {"scheduled", "sending"}
       => motion[t] = "idle"
    /\ t \in transit => motion[t] \in Replies
    /\ pending[t] \in Replies => motion[t] = pending[t]
    /\ outcome[t] = "planned" /\ (run[t] = "saving" \/ t \in orphans)
       => motion[t] = "valid"

IInv == /\ TypeOK /\ LockInv /\ ActiveInv /\ CloseInv /\ MemoryInv /\ RecordInv
        /\ AnswerInv /\ PlanningHasOwner /\ NoMissedDisconnect
        /\ PlannedIsAnswered /\ ToldIsRecorded
=============================================================================
