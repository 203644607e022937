----------------------------- MODULE SortingLoop -----------------------------
(***************************************************************************)
(* The sorting loop of the simulation: DispatchService without a            *)
(* RobotService, the mock perception of AlgorithmService, and an executor   *)
(* that reports objects as placed, all over TcpDispatchServer.              *)
(*                                                                          *)
(* With it the routing the production gateway uses as well: the server      *)
(* decodes a frame, checks who may send it, and answers what it refuses     *)
(* with an error_report; each client has its own way with a frame it does   *)
(* not expect.  Connections stay up and heartbeats are left out:            *)
(* SessionRegistry has both.  What a handler sends by a coroutine of its    *)
(* own, a turn of the event loop later, is part of the handler here; only   *)
(* a register read in that turn could tell the two apart.                   *)
(***************************************************************************)
EXTENDS Naturals, Sequences, FiniteSets, Functions

CONSTANTS Names,      \* task_id values of the frontend
          NoTask,
          MockTotal,  \* MOCK_OBJECT_TOTAL
          MaxStarts,  \* bound on the task_start messages
          MaxNoise    \* bound on bad frames and emergency stops

ASSUME LoopAssumption == /\ Names # {} /\ IsFiniteSet(Names) /\ NoTask \notin Names
                         /\ MockTotal \in Nat \ {0}
                         /\ MaxStarts \in Nat /\ MaxNoise \in Nat

Modules == {"frontend", "algorithm", "motion"}

VARIABLES
  joined,      \* modules that have sent their register
  registered,  \* modules whose session has its module_id
  up, down,    \* frames on the wire from, and to, each module
  state,       \* _tasks by task_id: "none", "running", "finished"
  count,       \* sorted_count
  remaining,   \* FruitDetector._mock_remaining
  scenes,      \* ghost: how often the scene was found empty and refilled
  retired,     \* ghost: objects counted for a task that was started anew
  left,        \* ghost: objects nobody will report, or count, as sorted
  unplaced,    \* ghost: those of them whose placing was reported as failed
  forged,      \* ghost: placed statuses that no grasp_command asked for
  starts, noise

server == <<registered, state, count, retired>>
sorted == <<state, count, retired>>
bounds == <<joined, forged, starts, noise>>
vars   == <<up, down, server, remaining, scenes, left, unplaced, bounds>>

Frame(type, n) == [type |-> type, task |-> n]
Plain(type)    == Frame(type, NoTask)

(* A frame decode_message rejects, one that names another source or target  *)
(* than it should, and a task_start without a usable task_id.               *)
Noise == {"garbage", "foreign", "nameless"}

(* What motion says of a grasp; "planned" is any phase but placed.          *)
reports == {"placed", "not_placed", "planned"}

(* The business a module may send.                                          *)
allowed == [frontend  |-> {"task_start", "nameless", "error_report", "stop"},
            algorithm |-> {"detection", "empty", "error_report", "stop"},
            motion    |-> reports \cup {"error_report", "stop"}]

UpTypes   == Noise \cup {"register"} \cup UNION {allowed[m] : m \in Modules}
DownTypes == {"register_ack", "error_report", "stray_report", "capture_cmd",
              "grasp_command", "task_result"}

UpFrames   == [type : UpTypes, task : Names \cup {NoTask}]
DownFrames == [type : DownTypes, task : Names \cup {NoTask}]

Init ==
  /\ joined = {} /\ registered = {}
  /\ up = [m \in Modules |-> <<>>] /\ down = [m \in Modules |-> <<>>]
  /\ state = [n \in Names |-> "none"] /\ count = [n \in Names |-> 0]
  /\ remaining = MockTotal /\ scenes = 0 /\ retired = 0 /\ left = 0 /\ unplaced = 0
  /\ forged = 0 /\ starts = 0 /\ noise = 0

(* Definitions named ..._M are mutants: the definition that follows with a  *)
(* plausible bug.  No action uses them; they test the properties.           *)

Sends(m, f) == up' = [up EXCEPT ![m] = Append(@, f)]
-----------------------------------------------------------------------------
(* What clients send on their own                                           *)

Join(m) ==
  /\ m \notin joined
  /\ joined' = joined \cup {m}
  /\ Sends(m, Plain("register"))
  /\ UNCHANGED <<down, server, remaining, scenes, left, unplaced, forged, starts, noise>>

SendNoise(m) ==
  /\ noise < MaxNoise /\ noise' = noise + 1
  /\ \E t \in Noise : Sends(m, Plain(t))
  /\ UNCHANGED <<down, server, remaining, scenes, left, unplaced, joined, forged, starts>>

SendStart(n) ==
  /\ "frontend" \in joined /\ starts < MaxStarts /\ starts' = starts + 1
  /\ Sends("frontend", Frame("task_start", n))
  /\ UNCHANGED <<down, server, remaining, scenes, left, unplaced, joined, forged, noise>>

(* error_report with EMERGENCY_STOP                                         *)
SendStop(m) ==
  /\ m \in joined /\ noise < MaxNoise /\ noise' = noise + 1
  /\ Sends(m, Plain("stop"))
  /\ UNCHANGED <<down, server, remaining, scenes, left, unplaced, joined, forged, starts>>

(* A status that is repeated, or that nothing asked for.                    *)
SendPlaced ==
  /\ "motion" \in joined /\ noise < MaxNoise /\ noise' = noise + 1
  /\ \E n \in Names : Sends("motion", Frame("placed", n))
  /\ forged' = forged + 1
  /\ UNCHANGED <<down, server, remaining, scenes, left, unplaced, joined, starts>>
-----------------------------------------------------------------------------
(* The server                                                               *)

(* readline and decode_message of the handler of m.                         *)
Reads(m, types) ==
  /\ up[m] # <<>> /\ Head(up[m]).type \in types
  /\ up' = [up EXCEPT ![m] = Tail(@)]
  /\ UNCHANGED <<remaining, scenes, unplaced, bounds>>

(* A message for m; send_to drops it where there is no session of m.        *)
Answer(m, type) == down' = [down EXCEPT ![m] = Append(@, Plain(type))]

wire(m, f, d) == IF m \in registered THEN [d EXCEPT ![m] = Append(@, f)] ELSE d

(* An error report goes to the session's module_id; before the register to  *)
(* "unknown", or to the source of what came before: another name, maybe.    *)
addressed(m) == IF m \in registered THEN {"error_report"}
                                    ELSE {"error_report", "stray_report"}

(* INVALID_MESSAGE                                                          *)
Undecodable(m) ==
  /\ Reads(m, {"garbage"})
  /\ \E t \in addressed(m) : Answer(m, t)
  /\ UNCHANGED <<server, left>>

HandleRegister(m) ==
  /\ Reads(m, {"register"})
  /\ registered' = registered \cup {m}
  /\ Answer(m, "register_ack")
  /\ UNCHANGED <<sorted, left>>

(* _route_message: not registered, another source, a type the module may    *)
(* not send, or another target.                                             *)
RouteRefused(m) ==
  /\ Reads(m, UpTypes \ {"garbage", "register"})
  /\ m \in registered => Head(up[m]).type \notin allowed[m]
  /\ \E t \in IF Head(up[m]).type = "foreign" THEN addressed(m) ELSE {"error_report"} :
       Answer(m, t)
  /\ UNCHANGED <<server, left>>

(* What on_business_message gets.                                           *)
Business(m, types) == m \in registered /\ Reads(m, types)

(* INVALID_PARAM                                                            *)
TaskIdRefused ==
  /\ Business("frontend", {"nameless"})
  /\ Answer("frontend", "error_report")
  /\ UNCHANGED <<server, left>>

(* _on_task_start: no check of an earlier task, nor of the algorithm.       *)
OnTaskStart ==
  /\ Business("frontend", {"task_start"})
  /\ LET n == Head(up["frontend"]).task
     IN /\ state' = [state EXCEPT ![n] = "running"]
        /\ count' = [count EXCEPT ![n] = 0]
        /\ retired' = retired + count[n]
        /\ down' = wire("algorithm", Frame("capture_cmd", n), down)
  /\ UNCHANGED <<registered, left>>

(* _on_detection_result for a task that is unknown or finished.             *)
DetectionIgnored ==
  /\ Business("algorithm", {"detection", "empty"})
  /\ state[Head(up["algorithm"]).task] # "running"
  /\ left' = left + IF Head(up["algorithm"]).type = "detection" THEN 1 ELSE 0
  /\ UNCHANGED <<server, down>>

SceneEmpty ==
  /\ Business("algorithm", {"empty"})
  /\ LET n == Head(up["algorithm"]).task
     IN /\ state[n] = "running"
        /\ state' = [state EXCEPT ![n] = "finished"]
        /\ down' = wire("frontend", Frame("task_result", n), down)
  /\ UNCHANGED <<registered, count, retired, left>>

Grasp ==
  /\ Business("algorithm", {"detection"})
  /\ LET n == Head(up["algorithm"]).task
     IN /\ state[n] = "running"
        /\ down' = wire("motion", Frame("grasp_command", n), down)
  /\ left' = left + IF "motion" \in registered THEN 0 ELSE 1
  /\ UNCHANGED server

Counted_M(f) == [count EXCEPT ![f.task] = @ + 1]

(* sorted_count, of what the motion side reports with is_success.           *)
Counted(f) == IF f.type = "placed" THEN [count EXCEPT ![f.task] = @ + 1] ELSE count

(* _on_motion_status: phase placed, is_success or not, finished or not.     *)
OnPlaced ==
  /\ Business("motion", {"placed", "not_placed"})
  /\ LET f == Head(up["motion"])
     IN /\ state[f.task] # "none"
        /\ count' = Counted(f)
        /\ down' = wire("algorithm", Frame("capture_cmd", f.task),
                        wire("frontend", Frame("task_result", f.task), down))
  /\ UNCHANGED <<registered, state, retired, left>>

PlacedUnknown ==
  /\ Business("motion", {"placed", "not_placed"})
  /\ state[Head(up["motion"]).task] = "none"
  /\ left' = left + IF Head(up["motion"]).type = "placed" THEN 1 ELSE 0
  /\ UNCHANGED <<server, down>>

(* Any other phase, and error reports, are logged.                          *)
Logged(m) ==
  /\ Business(m, {"planned", "error_report"} \cap allowed[m])
  /\ UNCHANGED <<server, down, left>>

(* _on_error_report with EMERGENCY_STOP, from any module                    *)
OnStop(m) ==
  /\ Business(m, {"stop"})
  /\ state' = [n \in Names |-> IF state[n] = "none" THEN "none" ELSE "finished"]
  /\ UNCHANGED <<registered, count, retired, down, left>>
-----------------------------------------------------------------------------
(* How the clients answer                                                   *)

ClientReads(m, types) ==
  /\ down[m] # <<>> /\ Head(down[m]).type \in types
  /\ down' = [down EXCEPT ![m] = Tail(@)]
  /\ UNCHANGED <<server, bounds>>

(* The Python clients log what is neither protocol nor a capture_cmd, and   *)
(* skip what their decode_message rejects.                                  *)
FrontendReads ==
  /\ ClientReads("frontend", DownTypes)
  /\ UNCHANGED <<up, remaining, scenes, left, unplaced>>

AlgorithmSkips ==
  /\ ClientReads("algorithm", DownTypes \ {"capture_cmd"})
  /\ UNCHANGED <<up, remaining, scenes, left, unplaced>>

mock_detect_M == IF remaining = 1 THEN <<"empty", MockTotal>>
                                  ELSE <<"detection", remaining - 1>>

(* _mock_detect: one object less, or none and the scene is filled again.    *)
mock_detect == IF remaining = 0 THEN <<"empty", MockTotal>>
                                ELSE <<"detection", remaining - 1>>

AlgorithmAnswers ==
  /\ ClientReads("algorithm", {"capture_cmd"})
  /\ Sends("algorithm", Frame(mock_detect[1], Head(down["algorithm"]).task))
  /\ remaining' = mock_detect[2]
  /\ scenes' = scenes + IF mock_detect[1] = "empty" THEN 1 ELSE 0
  /\ UNCHANGED <<left, unplaced>>

(* The simulated executor reports an object as placed or not; the planning  *)
(* service answers with a plan or a failure, which moves nothing.           *)
MotionAnswers ==
  /\ ClientReads("motion", {"grasp_command"})
  /\ \E t \in reports \cup {"error_report"} :
       /\ Sends("motion", Frame(t, Head(down["motion"]).task))
       /\ left' = left + IF t = "placed" THEN 0 ELSE 1
       /\ unplaced' = unplaced + IF t = "not_placed" THEN 1 ELSE 0
  /\ UNCHANGED <<remaining, scenes>>

skipped_M == {"register_ack"}

(* What handle_line does not answer.                                        *)
skipped == {"register_ack", "error_report"}

MotionSkips ==
  /\ ClientReads("motion", skipped)
  /\ UNCHANGED <<up, remaining, scenes, left, unplaced>>

(* valid_envelope fails, for one that is not addressed to "motion".         *)
MotionComplains ==
  /\ ClientReads("motion", {"stray_report", "error_report"} \ skipped)
  /\ Sends("motion", Plain("error_report"))
  /\ UNCHANGED <<remaining, scenes, left, unplaced>>
-----------------------------------------------------------------------------
Handler(m) == \/ Undecodable(m) \/ HandleRegister(m) \/ RouteRefused(m) \/ Logged(m) \/ OnStop(m)
              \/ m = "frontend" /\ (TaskIdRefused \/ OnTaskStart)
              \/ m = "algorithm" /\ (DetectionIgnored \/ SceneEmpty \/ Grasp)
              \/ m = "motion" /\ (OnPlaced \/ PlacedUnknown)

AlgorithmStep == AlgorithmSkips \/ AlgorithmAnswers

MotionStep == MotionAnswers \/ MotionSkips \/ MotionComplains

Next == \/ \E m \in Modules : Join(m) \/ SendNoise(m) \/ SendStop(m) \/ Handler(m)
        \/ \E n \in Names : SendStart(n)
        \/ SendPlaced \/ FrontendReads \/ AlgorithmStep \/ MotionStep

Spec == Init /\ [][Next]_vars

(* Every handler and every client reads on; nobody has to send anything     *)
(* that is not an answer.                                                   *)
Fairness == /\ \A m \in Modules : WF_vars(Handler(m))
            /\ WF_vars(FrontendReads) /\ WF_vars(AlgorithmStep) /\ WF_vars(MotionStep)

FairSpec == Spec /\ Fairness
-----------------------------------------------------------------------------
(* Properties                                                               *)

TypeOK ==
  /\ joined \subseteq Modules /\ registered \subseteq joined
  /\ up \in [Modules -> Seq(UpFrames)] /\ down \in [Modules -> Seq(DownFrames)]
  /\ state \in [Names -> {"none", "running", "finished"}]
  /\ count \in [Names -> Nat] /\ remaining \in 0..MockTotal
  /\ scenes \in Nat /\ retired \in Nat /\ left \in Nat /\ unplaced \in Nat /\ forged \in Nat
  /\ starts \in 0..MaxStarts /\ noise \in 0..MaxNoise

(* How many frames of a type are on a wire.                                 *)
carried(w, type) == Cardinality({i \in DOMAIN w : w[i].type = type})

Started  == carried(up["frontend"], "task_start")
Wanted   == carried(down["algorithm"], "capture_cmd")
Detected == carried(up["algorithm"], "detection")
Emptied  == carried(up["algorithm"], "empty")
Ordered  == carried(down["motion"], "grasp_command")
Placed   == carried(up["motion"], "placed")
Missed   == carried(up["motion"], "not_placed")

(* The objects, and the loops, that are under way.                          *)
inFlight == Detected + Ordered + Placed
tokens   == Started + Wanted + Detected + Emptied + Ordered + Placed + Missed

(* The sum of the counts: every object counted, by the number it got.       *)
total == Cardinality(UNION {{n} \X (1..count[n]) : n \in Names})

(* Every object the detector has taken from a scene is on its way, counted  *)
(* once, for one task, or left for a reason, whatever tasks are started,    *)
(* started anew or stopped meanwhile; a repeated placed status counts one   *)
(* too many, and that is all it does to the count.                          *)
CountIsTrue ==
  /\ TypeOK
  /\ scenes * MockTotal + (MockTotal - remaining) + forged
       = total + retired + left + inFlight

(* "All objects of the scene are sorted and the count is right" (the test   *)
(* of the full loop): a single task that is not disturbed ends only when    *)
(* all of them have been counted, but those the motion side could not       *)
(* place.  No object of it is lost on the way.                              *)
SceneIsSorted ==
  starts = 1 /\ noise = 0 =>
    \A n \in Names : state[n] = "finished" => count[n] + unplaced = MockTotal

(* A finite number of tasks and bad frames is followed by silence: every    *)
(* loop meets its empty scene, and no error_report is answered with another *)
(* for ever, registered or not.                                             *)
GoesQuiet == []<>(\A m \in Modules : up[m] = <<>> /\ down[m] = <<>>)
-----------------------------------------------------------------------------
(* The inductive invariant behind CountIsTrue and SceneIsSorted             *)

(* Every message of a loop names its task.                                  *)
Tasked == {"task_start", "detection", "empty", "placed", "not_placed",
           "capture_cmd", "grasp_command"}

TaskInv == \A m \in Modules : \A f \in Range(up[m]) \cup Range(down[m]) :
             f.type \in Tasked => f.task \in Names

(* A client registers before it sends what counts, and is asked for it only  *)
(* then: no such frame meets a session without module_id.                   *)
Weighty      == {"detection", "empty", "placed"}
Announced(w) == \E k \in DOMAIN w : w[k].type = "register"
Late(w)      == \A i \in DOMAIN w : w[i].type \in Weighty =>
                                     \E k \in 1..i : w[k].type = "register"

RegisterInv ==
  /\ \A m \in Modules \ registered : /\ Late(up[m])
                                     /\ m \in joined <=> Announced(up[m])
  /\ "algorithm" \notin registered => Wanted = 0
  /\ "motion" \notin registered => Ordered = 0

(* A loop that is under way belongs to a task that is running.              *)
Runs(f)    == state[f.task] = "running"
RunningInv ==
  /\ \A f \in Range(down["algorithm"]) : f.type = "capture_cmd" => Runs(f)
  /\ \A f \in Range(up["algorithm"]) : f.type \in {"detection", "empty"} => Runs(f)
  /\ \A f \in Range(down["motion"]) : f.type = "grasp_command" => Runs(f)
  /\ \A f \in Range(up["motion"]) : f.type \in {"placed", "not_placed"} => Runs(f)

Ended == \E n \in Names : state[n] = "finished"

(* The loop of the only task has lost an object, and goes no further.       *)
Broken == ~Ended /\ tokens = 0 /\ starts = 1

(* One task that nothing disturbs: no step splits its loop, which meets one  *)
(* empty scene and ends there, or loses an object and never ends.           *)
QuietInv ==
  starts <= 1 /\ noise = 0 =>
    /\ forged = 0 /\ retired = 0 /\ tokens <= starts
    /\ \A m \in Modules : \A f \in Range(up[m]) : f.type # "stop"
    /\ starts = 0 \/ Started > 0 => \A n \in Names : state[n] = "none"
    /\ \A n \in Names : state[n] = "none" => count[n] = 0
    /\ \A n, k \in Names : state[n] # "none" /\ state[k] # "none" => n = k
    /\ RunningInv
    /\ scenes = Emptied + IF Ended THEN 1 ELSE 0
    /\ scenes > 0 => remaining = MockTotal
    /\ Ended => tokens = 0
    /\ unplaced = left \/ Broken

SInv == CountIsTrue /\ TaskInv /\ RegisterInv /\ QuietInv
=============================================================================
