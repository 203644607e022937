-------------------------- MODULE GatewayLifeProofs --------------------------
(***************************************************************************)
(* The safety of GatewayLife for any number of processes and connections,   *)
(* any number of faults, and both behaviours of wait_closed().  LInv is     *)
(* inductive: the lock alone does not say that a plan is over when it is    *)
(* released, nor that every handler has ended; PlanInv and ConnInv tie both *)
(* to the stages of the exit stack.                                         *)
(***************************************************************************)
EXTENDS GatewayLife, TLAPS

(* What the invariant says of a process that runs nothing under the lock.   *)
LEMMA Idle ==
  ASSUME LInv, NEW p \in Procs, lock # p
  PROVE  /\ stage[p] = "off" /\ worker[p] \notin {"waiting", "saving"}
         /\ Served(p) = {}
BY LifeAssumption DEF LInv, AloneOnDatabase, Served

LEMMA InitHolds == ASSUME Init PROVE LInv
BY LifeAssumption
   DEF Init, LInv, TypeOK, Stages, AloneOnDatabase, RunningIsPlanning, LockIsOwned,
       ConnInv, PlanInv

LEMMA StartKeeps ==
  ASSUME LInv, NEW p \in Procs, StartStep(p)
  PROVE  LInv'
<1>0. LInv /\ TypeOK /\ TypeOK'
  BY LifeAssumption DEF LInv, TypeOK, StartStep, Acquire, Recover, StartFails, Open,
                        Goto, release, Stages
<1>1. CASE Acquire(p)
  <2>1. lock = NoProc /\ lock' = p /\ stage' = [stage EXCEPT ![p] = "locked"]
    BY <1>1 DEF Acquire, Goto
  <2>2. \A q \in Procs : stage[q] = "off" /\ worker[q] \notin {"waiting", "saving"}
    BY <2>1, Idle, LifeAssumption
  <2>3. \A c \in Conns : peer[c] = NoProc
    BY <1>0, <2>1, LifeAssumption DEF LInv, AloneOnDatabase
  <2>4. AloneOnDatabase' /\ RunningIsPlanning' /\ LockIsOwned' /\ ConnInv' /\ PlanInv'
    BY <1>0, <1>1, <2>1, <2>2, <2>3, LifeAssumption
       DEF Acquire, TypeOK, LInv, AloneOnDatabase, RunningIsPlanning, LockIsOwned,
           ConnInv, PlanInv
  <2> QED BY <1>0, <2>4 DEF LInv
<1>2. CASE Recover(p)
  <2>1. \A q \in Procs : worker[q] \notin {"waiting", "saving"}
    BY <1>0, <1>2, Idle DEF Recover, LInv, PlanInv, AloneOnDatabase
  <2>2. AloneOnDatabase' /\ RunningIsPlanning' /\ LockIsOwned' /\ ConnInv' /\ PlanInv'
    BY <1>0, <1>2, <2>1, LifeAssumption
       DEF Recover, Goto, TypeOK, LInv, AloneOnDatabase, RunningIsPlanning, LockIsOwned,
           ConnInv, PlanInv, Closing
  <2> QED BY <1>0, <2>2 DEF LInv
<1>3. CASE StartFails(p)
  <2>1. lock = p /\ worker[p] \notin {"waiting", "saving"}
    BY <1>0, <1>3 DEF StartFails, LInv, PlanInv, AloneOnDatabase
  <2>2. \A c \in Conns : peer[c] = NoProc
    BY <1>0, <1>3, <2>1 DEF StartFails, LInv, ConnInv, AloneOnDatabase, Closing
  <2>3. AloneOnDatabase' /\ RunningIsPlanning' /\ LockIsOwned' /\ ConnInv' /\ PlanInv'
    BY <1>0, <1>3, <2>1, <2>2, Idle, LifeAssumption
       DEF StartFails, Goto, release, TypeOK, LInv, AloneOnDatabase, RunningIsPlanning,
           LockIsOwned, ConnInv, PlanInv
  <2> QED BY <1>0, <2>3 DEF LInv
<1>4. CASE Open(p)
  <2>1. AloneOnDatabase' /\ RunningIsPlanning' /\ LockIsOwned' /\ ConnInv' /\ PlanInv'
    BY <1>0, <1>4, LifeAssumption
       DEF Open, Goto, TypeOK, LInv, AloneOnDatabase, RunningIsPlanning, LockIsOwned,
           ConnInv, PlanInv, Closing
  <2> QED BY <1>0, <2>1 DEF LInv
<1> QED BY <1>1, <1>2, <1>3, <1>4 DEF StartStep

LEMMA PlanKeeps ==
  ASSUME LInv, NEW p \in Procs, PlanStep(p)
  PROVE  LInv'
<1>0. LInv /\ TypeOK /\ TypeOK'
  BY LifeAssumption DEF LInv, TypeOK, PlanStep, Plan, Planned, Saved, OrphanEnds, Fault,
                        Goto, Stages, Closing
<1>1. /\ lock' = lock /\ peer' = peer /\ handler' = handler
      /\ \A q \in Procs : stage'[q] = stage[q]
                          \/ (stage[q] = "saving" /\ stage'[q] = "dispatch")
  BY <1>0 DEF PlanStep, Plan, Planned, Saved, OrphanEnds, Goto, TypeOK
<1>2. AloneOnDatabase' /\ PlanInv'
  BY <1>0, <1>1 DEF PlanStep, Plan, Planned, Saved, OrphanEnds, Goto, TypeOK, LInv,
                    AloneOnDatabase, PlanInv
<1>3. RunningIsPlanning'
  BY <1>0, LifeAssumption
     DEF PlanStep, Plan, Planned, Saved, OrphanEnds, TypeOK, LInv, RunningIsPlanning
<1>4. LockIsOwned' /\ ConnInv'
  BY <1>0, <1>1, LifeAssumption DEF TypeOK, LInv, LockIsOwned, ConnInv, Closing
<1> QED BY <1>0, <1>2, <1>3, <1>4 DEF LInv

LEMMA CloseKeeps ==
  ASSUME LInv, NEW p \in Procs, ExitBegins(p) \/ CloseStep(p)
  PROVE  LInv'
<1>0. LInv /\ TypeOK
  BY DEF LInv
<1>1. CASE ExitBegins(p) \/ DispatchCloses(p)
  BY <1>0, <1>1, LifeAssumption
     DEF ExitBegins, DispatchCloses, Goto, LInv, TypeOK, Stages, Closing, AloneOnDatabase,
         RunningIsPlanning, LockIsOwned, ConnInv, PlanInv
<1>2. CASE RobotCloses(p)
  <2>1. TypeOK'
    BY <1>0, <1>2 DEF RobotCloses, Goto, TypeOK, Stages, Closing
  <2>2. AloneOnDatabase' /\ RunningIsPlanning' /\ PlanInv'
    BY <1>0, <1>2 DEF RobotCloses, Goto, LInv, TypeOK, AloneOnDatabase, RunningIsPlanning, PlanInv
  <2>3. LockIsOwned' /\ ConnInv'
    BY <1>0, <1>2, LifeAssumption
       DEF RobotCloses, Goto, LInv, TypeOK, LockIsOwned, ConnInv, Closing
  <2> QED BY <2>1, <2>2, <2>3 DEF LInv
<1>3. CASE ServerCloses(p)
  <2>1. /\ stage' = [stage EXCEPT ![p] = "clients"] /\ handler' = cancelled(p)
        /\ \A c \in Conns : peer'[c] = IF peer[c] = p /\ handler[c] # "reading"
                                       THEN NoProc ELSE peer[c]
        /\ UNCHANGED <<lock, worker, planning, faults>>
    BY <1>0, <1>3 DEF ServerCloses, Goto, Gone, cancelled, Served
  <2>2. TypeOK'
    BY <1>0, <1>3, <2>1, LifeAssumption
       DEF ServerCloses, Gone, cancelled, TypeOK, Stages, Closing
  <2>3. ConnInv'
    BY <1>0, <2>1, LifeAssumption
       DEF cancelled, Served, LInv, TypeOK, ConnInv, Closing
  <2>4. AloneOnDatabase' /\ RunningIsPlanning' /\ LockIsOwned' /\ PlanInv'
    BY <1>0, <1>3, <2>1, LifeAssumption
       DEF ServerCloses, LInv, TypeOK, AloneOnDatabase, RunningIsPlanning, LockIsOwned, PlanInv
  <2> QED BY <2>2, <2>3, <2>4 DEF LInv
<1>4. CASE Released(p)
  <2>1. lock = p /\ worker[p] \notin {"waiting", "saving"}
    BY <1>0, <1>4 DEF Released, LInv, PlanInv, AloneOnDatabase
  <2>2. \A c \in Conns : peer[c] = NoProc
    BY <1>0, <1>4, <2>1 DEF Released, Served, LInv, AloneOnDatabase
  <2>3. AloneOnDatabase' /\ RunningIsPlanning' /\ LockIsOwned' /\ ConnInv' /\ PlanInv'
    BY <1>0, <1>4, <2>1, <2>2, Idle, LifeAssumption
       DEF Released, Goto, release, TypeOK, LInv, AloneOnDatabase, RunningIsPlanning,
           LockIsOwned, ConnInv, PlanInv
  <2>4. TypeOK'
    BY <1>0, <1>4 DEF Released, Goto, release, TypeOK, Stages
  <2> QED BY <2>3, <2>4 DEF LInv
<1> QED BY <1>1, <1>2, <1>3, <1>4 DEF CloseStep

LEMMA CrashKeeps ==
  ASSUME LInv, NEW p \in Procs, Crash(p)
  PROVE  LInv'
<1>0. LInv /\ TypeOK
  BY DEF LInv
<1>1. /\ stage' = [stage EXCEPT ![p] = "off"] /\ worker' = [worker EXCEPT ![p] = "none"]
      /\ lock' = IF lock = p THEN NoProc ELSE lock
      /\ \A q \in Procs : q # p => (q \in planning' <=> q \in planning)
      /\ \A c \in Conns : /\ peer'[c] = IF peer[c] = p THEN NoProc ELSE peer[c]
                          /\ handler'[c] = IF peer[c] = p THEN "none" ELSE handler[c]
  BY <1>0, LifeAssumption DEF Crash, Goto, Gone, Served
<1>2. TypeOK'
  BY <1>0, <1>1, LifeAssumption DEF Crash, Gone, Fault, TypeOK, Stages
<1>3. AloneOnDatabase'
  BY <1>0, <1>1, Idle, LifeAssumption DEF LInv, TypeOK, AloneOnDatabase
<1>4. RunningIsPlanning' /\ PlanInv'
  BY <1>0, <1>1 DEF LInv, TypeOK, RunningIsPlanning, PlanInv
<1>5. LockIsOwned' /\ ConnInv'
  BY <1>0, <1>1, LifeAssumption DEF LInv, TypeOK, LockIsOwned, ConnInv
<1> QED BY <1>2, <1>3, <1>4, <1>5 DEF LInv

LEMMA ConnKeeps ==
  ASSUME LInv, NEW c \in Conns, ConnStep(c) \/ \E p \in Procs : Accept(p, c)
  PROVE  LInv'
<1>0. LInv /\ TypeOK
  BY DEF LInv
<1>1. UNCHANGED <<lock, stage, worker, planning>>
  BY DEF ConnStep, HandlerLeaves, PeerJams, PeerReads, HandlerGone, Accept
<1>2. TypeOK'
  BY <1>0, LifeAssumption
     DEF ConnStep, HandlerLeaves, PeerJams, PeerReads, HandlerGone, Accept, Gone, Fault, TypeOK
<1>3. \A d \in Conns : /\ (peer'[d] = NoProc) = (handler'[d] = "none")
                       /\ peer'[d] \in {NoProc, peer[d]}
                          \/ stage[peer'[d]] \in {"serving"} \cup Closing
  BY <1>0, LifeAssumption
     DEF ConnStep, HandlerLeaves, PeerJams, PeerReads, HandlerGone, Accept, Gone, LInv,
         TypeOK, ConnInv, Closing
<1>4. AloneOnDatabase' /\ ConnInv'
  BY <1>0, <1>1, <1>2, <1>3, LifeAssumption DEF LInv, TypeOK, AloneOnDatabase, ConnInv, Closing
<1>5. RunningIsPlanning' /\ LockIsOwned' /\ PlanInv'
  BY <1>0, <1>1 DEF LInv, RunningIsPlanning, LockIsOwned, PlanInv
<1> QED BY <1>2, <1>4, <1>5 DEF LInv

(* The inductive invariant holds in every reachable state, whatever crashes *)
(* and whoever starts while another instance runs.                          *)
THEOREM Invariance == Spec => []LInv
<1>1. Init => LInv
  BY InitHolds
<1>2. LInv /\ [Next]_vars => LInv'
  <2> SUFFICES ASSUME LInv, [Next]_vars PROVE LInv' OBVIOUS
  <2>1. CASE UNCHANGED vars
    BY <2>1 DEF vars, LInv, TypeOK, AloneOnDatabase, RunningIsPlanning, LockIsOwned,
                ConnInv, PlanInv
  <2>2. CASE Next
    BY <2>2, StartKeeps, PlanKeeps, CloseKeeps, CrashKeeps, ConnKeeps DEF Next
  <2> QED BY <2>1, <2>2
<1> QED BY <1>1, <1>2, PTL DEF Spec

(* Whatever of an instance runs, a stage of its lifespan, a plan or the     *)
(* handler of a connection, runs under the lock file of the database.       *)
THEOREM LockCoversAll == Spec => []AloneOnDatabase
<1>1. LInv => AloneOnDatabase BY DEF LInv
<1> QED BY Invariance, <1>1, PTL

(* Recovery by another instance never interrupts a plan that runs.          *)
THEOREM RecoveryIsAlone == Spec => []RunningIsPlanning
<1>1. LInv => RunningIsPlanning BY DEF LInv
<1> QED BY Invariance, <1>1, PTL
=============================================================================
