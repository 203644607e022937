----------------------------- MODULE GatewayLife -----------------------------
(***************************************************************************)
(* Gateway processes that share one database: the lifespan of the HTTP      *)
(* application, the lock file that excludes a second instance, the recovery *)
(* of planning rows, and the exit stack down to TcpDispatchServer.close(),  *)
(* which ends the handlers of all connections.                              *)
(*                                                                          *)
(* An instance has at most one plan (PlanGateway shows why); its row and    *)
(* its worker are what remains of it here.  The submission lock, the        *)
(* messages and the registry are left to the other modules.                 *)
(***************************************************************************)
EXTENDS Naturals

CONSTANTS Procs,      \* gateway processes started on the database
          NoProc,
          Conns,      \* identities of TCP connections (reused when free)
          Waits,      \* Server.wait_closed() waits for every connection:
                      \* FALSE up to Python 3.11, TRUE since Python 3.12
          MaxFaults   \* bound on crashes, jammed peers and SQLite errors

ASSUME LifeAssumption == /\ NoProc \notin Procs /\ Waits \in BOOLEAN
                         /\ MaxFaults \in Nat

VARIABLES
  lock,       \* the process that holds the lock file
  stage,      \* how far the lifespan of each process is
  worker,     \* RobotService._worker: "waiting" for motion, "saving" its
              \* outcome, or cancelled while a thread still saves: "orphan"
  planning,   \* rows with status planning: whose they are, NoProc: nobody's
  peer,       \* the process a connection goes to
  handler,    \* _handle_client of it: "reading", or "leaving" in finally
  jammed,     \* connections whose peer does not read what is buffered
  faults

vars == <<lock, stage, worker, planning, peer, handler, jammed, faults>>

(* The stages of the exit stack are named for what is awaited in them.      *)
Closing == {"robot", "saving", "dispatch", "server", "clients"}
Stages  == {"off", "locked", "recovered", "serving"} \cup Closing

Fault == faults < MaxFaults /\ faults' = faults + 1

Init ==
  /\ lock = NoProc
  /\ stage = [p \in Procs |-> "off"] /\ worker = [p \in Procs |-> "none"]
  /\ planning \in SUBSET {NoProc}
  /\ peer = [c \in Conns |-> NoProc] /\ handler = [c \in Conns |-> "none"]
  /\ jammed = {} /\ faults = 0

Goto(p, s) == stage' = [stage EXCEPT ![p] = s]

(* Definitions named ..._M are mutants: the definition that follows with a  *)
(* plausible bug.  No action uses them; they test the properties.           *)
-----------------------------------------------------------------------------
(* Start                                                                    *)

Acquire_M(p) ==
  /\ stage[p] = "off" /\ worker[p] = "none"
  /\ lock' = p /\ Goto(p, "locked")
  /\ UNCHANGED <<worker, planning, peer, handler, jammed, faults>>

(* lock.acquire(): it raises, and the process ends, where it is taken.      *)
Acquire(p) ==
  /\ stage[p] = "off" /\ worker[p] = "none"
  /\ lock = NoProc
  /\ lock' = p /\ Goto(p, "locked")
  /\ UNCHANGED <<worker, planning, peer, handler, jammed, faults>>

(* repository.initialize, recover_interrupted: every planning row ends.     *)
Recover(p) ==
  /\ stage[p] = "locked"
  /\ planning' = {} /\ Goto(p, "recovered")
  /\ UNCHANGED <<lock, worker, peer, handler, jammed, faults>>

release_M == UNCHANGED lock

(* The last callback of the exit stack.                                     *)
release == lock' = NoProc

(* SQLite raises, or the port is taken: the exit stack unwinds.             *)
StartFails(p) ==
  /\ stage[p] \in {"locked", "recovered"}
  /\ Goto(p, "off") /\ release
  /\ UNCHANGED <<worker, planning, peer, handler, jammed, faults>>

(* server.open() *)
Open(p) ==
  /\ stage[p] = "recovered"
  /\ Goto(p, "serving")
  /\ UNCHANGED <<lock, worker, planning, peer, handler, jammed, faults>>
-----------------------------------------------------------------------------
(* Connections                                                              *)

(* Accepted, and _handle_client in its loop.                                *)
Accept(p, c) ==
  /\ stage[p] \in {"serving", "robot", "saving", "dispatch"}
  /\ peer[c] = NoProc
  /\ peer' = [peer EXCEPT ![c] = p]
  /\ handler' = [handler EXCEPT ![c] = "reading"]
  /\ UNCHANGED <<lock, stage, worker, planning, jammed, faults>>

(* End of file, an error, or the patrol's close(): the loop ends.           *)
HandlerLeaves(c) ==
  /\ handler[c] = "reading"
  /\ handler' = [handler EXCEPT ![c] = "leaving"]
  /\ UNCHANGED <<lock, stage, worker, planning, peer, jammed, faults>>

(* What the peer has not read stays in the transport's buffer ...           *)
PeerJams(c) ==
  /\ handler[c] # "none" /\ c \notin jammed /\ Fault
  /\ jammed' = jammed \cup {c}
  /\ UNCHANGED <<lock, stage, worker, planning, peer, handler>>

(* ... until it reads again or is reset.                                    *)
PeerReads(c) ==
  /\ c \in jammed
  /\ jammed' = jammed \ {c}
  /\ UNCHANGED <<lock, stage, worker, planning, peer, handler, faults>>

(* The handlers of S have ended.                                            *)
Gone(S) == /\ peer' = [c \in Conns |-> IF c \in S THEN NoProc ELSE peer[c]]
           /\ jammed' = jammed \ S

(* writer.wait_closed() of the finally clause: the buffer must be empty.    *)
HandlerGone(c) ==
  /\ handler[c] = "leaving" /\ c \notin jammed
  /\ Gone({c}) /\ handler' = [handler EXCEPT ![c] = "none"]
  /\ UNCHANGED <<lock, stage, worker, planning, faults>>
-----------------------------------------------------------------------------
(* The plan                                                                 *)

(* submit(): the row and the worker.                                        *)
Plan(p) ==
  /\ stage[p] = "serving" /\ worker[p] = "none"
  /\ planning' = planning \cup {p} /\ worker' = [worker EXCEPT ![p] = "waiting"]
  /\ UNCHANGED <<lock, stage, peer, handler, jammed, faults>>

(* An answer, a disconnect or the time limit.                               *)
Planned(p) ==
  /\ worker[p] = "waiting"
  /\ worker' = [worker EXCEPT ![p] = "saving"]
  /\ UNCHANGED <<lock, stage, planning, peer, handler, jammed, faults>>

(* finish() ends the row, or raises and leaves it to nobody.                *)
Saved(p) ==
  /\ worker[p] = "saving"
  /\ worker' = [worker EXCEPT ![p] = "none"]
  /\ \/ planning' = planning \ {p} /\ UNCHANGED faults
     \/ planning' = (planning \ {p}) \cup {NoProc} /\ Fault
  /\ IF stage[p] = "saving" THEN Goto(p, "dispatch") ELSE UNCHANGED stage
  /\ UNCHANGED <<lock, peer, handler, jammed>>

(* The same in a thread nobody waits for; recovery may have come first.     *)
OrphanEnds(p) ==
  /\ worker[p] = "orphan"
  /\ worker' = [worker EXCEPT ![p] = "none"]
  /\ \/ planning' = planning \ {p} /\ UNCHANGED faults
     \/ planning' = {IF q = p THEN NoProc ELSE q : q \in planning} /\ Fault
  /\ UNCHANGED <<lock, stage, peer, handler, jammed>>
-----------------------------------------------------------------------------
(* The exit stack, last in first out                                        *)

ExitBegins(p) ==
  /\ stage[p] = "serving"
  /\ Goto(p, "robot")
  /\ UNCHANGED <<lock, worker, planning, peer, handler, jammed, faults>>

(* robot.close(): a waiting worker saves "interrupted" before it ends; one  *)
(* that is saving leaves its thread behind.                                 *)
RobotCloses(p) ==
  /\ stage[p] = "robot"
  /\ Goto(p, IF worker[p] = "waiting" THEN "saving" ELSE "dispatch")
  /\ worker' = [worker EXCEPT ![p] = CASE @ = "waiting" -> "saving"
                                        [] @ = "saving"  -> "orphan"
                                        [] OTHER         -> @]
  /\ UNCHANGED <<lock, planning, peer, handler, jammed, faults>>

(* dispatch.close() *)
DispatchCloses(p) ==
  /\ stage[p] = "dispatch"
  /\ Goto(p, "server")
  /\ UNCHANGED <<lock, worker, planning, peer, handler, jammed, faults>>

Served(p) == {c \in Conns : peer[c] = p}

cancelled_M(p) == [c \in Conns |-> IF handler[c] = "leaving" THEN "none" ELSE handler[c]]

(* task.cancel() of every handler: a reading one goes to its finally        *)
(* clause, a leaving one is thrown out of its wait_closed().                *)
cancelled(p) ==
  [c \in Conns |-> IF c \notin Served(p) THEN handler[c]
                   ELSE IF handler[c] = "reading" THEN "leaving" ELSE "none"]

(* server.close(): no more connections, wait_closed(), the handlers.        *)
ServerCloses(p) ==
  /\ stage[p] = "server"
  /\ Waits => Served(p) = {}
  /\ Goto(p, "clients")
  /\ handler' = cancelled(p)
  /\ Gone({c \in Served(p) : cancelled(p)[c] = "none"})
  /\ UNCHANGED <<lock, worker, planning, faults>>

Released_M(p) ==
  /\ stage[p] = "clients"
  /\ Goto(p, "off") /\ release
  /\ UNCHANGED <<worker, planning, peer, handler, jammed, faults>>

(* gather() of the handlers, then lock.release().                           *)
Released(p) ==
  /\ stage[p] = "clients" /\ Served(p) = {}
  /\ Goto(p, "off") /\ release
  /\ UNCHANGED <<worker, planning, peer, handler, jammed, faults>>

(* The process is killed: the system closes its files and sockets.          *)
Crash(p) ==
  /\ stage[p] # "off" \/ worker[p] = "orphan"
  /\ Fault
  /\ Goto(p, "off")
  /\ lock' = IF lock = p THEN NoProc ELSE lock
  /\ worker' = [worker EXCEPT ![p] = "none"]
  /\ planning' = IF p \in planning THEN (planning \ {p}) \cup {NoProc} ELSE planning
  /\ Gone(Served(p))
  /\ handler' = [c \in Conns |-> IF c \in Served(p) THEN "none" ELSE handler[c]]
-----------------------------------------------------------------------------
StartStep(p) == Acquire(p) \/ Recover(p) \/ StartFails(p) \/ Open(p)

PlanStep(p) == Plan(p) \/ Planned(p) \/ Saved(p) \/ OrphanEnds(p)

CloseStep(p) == \/ RobotCloses(p) \/ DispatchCloses(p) \/ ServerCloses(p)
                \/ Released(p)

ConnStep(c) == HandlerLeaves(c) \/ PeerJams(c) \/ PeerReads(c) \/ HandlerGone(c)

Next == \/ \E p \in Procs : \/ StartStep(p) \/ PlanStep(p) \/ CloseStep(p)
                            \/ ExitBegins(p) \/ Crash(p)
                            \/ \E c \in Conns : Accept(p, c)
        \/ \E c \in Conns : ConnStep(c)

Spec == Init /\ [][Next]_vars

(* The event loop of a closing instance runs what is ready, its threads     *)
(* end (SQLite waits a second for a lock), and a handler whose buffer is    *)
(* empty ends.  Peers owe nothing: a module may stay connected for ever.    *)
Fairness ==
  /\ \A p \in Procs : WF_vars(CloseStep(p)) /\ WF_vars(Saved(p))
  /\ \A c \in Conns : WF_vars(HandlerGone(c))

FairSpec == Spec /\ Fairness
-----------------------------------------------------------------------------
(* Properties                                                               *)

TypeOK ==
  /\ lock \in Procs \cup {NoProc}
  /\ stage \in [Procs -> Stages]
  /\ worker \in [Procs -> {"none", "waiting", "saving", "orphan"}]
  /\ planning \in SUBSET (Procs \cup {NoProc})
  /\ peer \in [Conns -> Procs \cup {NoProc}]
  /\ handler \in [Conns -> {"none", "reading", "leaving"}]
  /\ jammed \in SUBSET Conns
  /\ faults \in Nat

(* A running instance is alone on the database: whatever of it still runs,  *)
(* a stage of its lifespan, a plan or a handler, runs under its lock.  No   *)
(* failed start, exit or crash gives the lock back too early.               *)
AloneOnDatabase ==
  /\ \A p \in Procs : stage[p] # "off" \/ worker[p] \in {"waiting", "saving"} => lock = p
  /\ \A c \in Conns : peer[c] # NoProc => lock = peer[c]

(* "Prevents a second process from marking active tasks interrupted": the   *)
(* row of a running plan is planning until its own worker ends it.          *)
RunningIsPlanning ==
  \A p \in Procs : worker[p] \in {"waiting", "saving"} => p \in planning

(* A lock that is held has an instance that will release it.                *)
LockIsOwned == lock # NoProc => stage[lock] # "off"

(* The invariant behind them: a connection has a handler exactly while it   *)
(* goes to a process, one that has been opened; a plan runs only between    *)
(* the start and the end of robot.close().                                  *)
ConnInv == \A c \in Conns :
  /\ (peer[c] = NoProc) = (handler[c] = "none")
  /\ peer[c] # NoProc => stage[peer[c]] \in {"serving"} \cup Closing

PlanInv == \A p \in Procs :
  /\ worker[p] = "waiting" => stage[p] \in {"serving", "robot"}
  /\ worker[p] = "saving" => stage[p] \in {"serving", "robot", "saving"}

LInv == /\ TypeOK /\ AloneOnDatabase /\ RunningIsPlanning /\ LockIsOwned
        /\ ConnInv /\ PlanInv

(* "The lifespan closes the listener, the clients, the tasks and the lock": *)
(* an exit that has begun ends with the lock released, unless a peer that   *)
(* does not read holds up writer.wait_closed().                             *)
CloseReturns ==
  \A p \in Procs :
     stage[p] \in Closing ~> (stage[p] = "off" \/ Served(p) \cap jammed # {})
=============================================================================
