---------------------------- MODULE PlanContract ----------------------------
(***************************************************************************)
(* What one planning request means to the two programs that handle it: the  *)
(* gateway (Python) admits it and later accepts or rejects the plan, the    *)
(* planner (C++) lifts the analytic solutions into the joint limits, picks  *)
(* one and samples a trajectory.  Each reads the limits and the             *)
(* configuration by itself and compares with tolerances of its own.         *)
(*                                                                         *)
(* Angles and times are integers, in ticks; a sample of a trajectory with   *)
(* n steps is a multiple of 1/n^5, and is kept multiplied by Unit(n).  The  *)
(* rounding of floating-point numbers is left out, except that a period is  *)
(* rounded up to a tick.  The geometry is a choice: any angles of Raw may   *)
(* be a branch of the inverse kinematics.                                   *)
(***************************************************************************)
EXTENDS Integers, Sequences, FiniteSets

CONSTANTS Joints,
          Turn,                \* TWO_PI
          Lo, Hi,              \* the limits of the model file
          Config,              \* base.json merged with each environment's file
          AlgTol, DupTol,      \* the planner's tolerances
          GateTol, MatchTol,   \* the gateway's
          References, NoRef,   \* reference angles a request may carry, or none
          Forces,              \* force limits a request may carry
          Raw, MaxRoots,       \* angles of the branches, bound on the branches
          MaxPeriod            \* bound on the sample period

Envs   == {"dev", "sim", "real"}
Sides  == {"gateway", "planner"}
Angles == [Joints -> Int]
Strict(q)   == \A j \in Joints : Lo[j] <= q[j] /\ q[j] <= Hi[j]
Band(q, t)  == \A j \in Joints : Lo[j] - t <= q[j] /\ q[j] <= Hi[j] + t

ASSUME ContractAssumption ==
  /\ IsFiniteSet(Joints)
  /\ Turn \in Nat \ {0} /\ MaxRoots \in Nat /\ MaxPeriod \in Nat
  /\ Lo \in Angles /\ Hi \in Angles
  /\ AlgTol \in Nat /\ GateTol \in Nat /\ AlgTol <= GateTol
  /\ MatchTol \in Nat /\ DupTol \in Nat
  /\ Config \in [Envs -> [hardware : BOOLEAN, home : Angles, force : Int,
                          steps : Int, speed : Angles, accel : Angles,
                          shortest : Int]]
  /\ NoRef \notin Angles /\ References \subseteq Angles \cup {NoRef}
  /\ Forces \subseteq Int /\ Raw \subseteq Angles

(* 1e-10, 1e-9, 1e-7 and 1e-6 of a radian in the code.                      *)
ASSUME ToleranceOrder ==
  AlgTol < GateTol /\ GateTol < MatchTol /\ MatchTol < DupTol

VARIABLES
  env,        \* the environment each program runs with, or "off"
  stage,      \* where the request is
  request,    \* the payload: ref (the current joint angles) and force
  roots,      \* ghost: the branches found so far
  solutions,  \* those lifted into the limits, without duplicates
  reply,      \* the planner's motion_status or error_report
  verdict     \* what the gateway records

vars == <<env, stage, request, roots, solutions, reply, verdict>>

Running == \A s \in Sides : env[s] # "off"
Of(s)   == Config[env[s]]

(* Where planning starts, for each of the two programs.                     *)
Reference(s) == IF request.ref = NoRef THEN Of(s).home ELSE request.ref
-----------------------------------------------------------------------------
(* Lifting a branch into the limits                                         *)

Floor(a, b) == a \div b
Ceil(a, b)  == -((-a) \div b)
(* std::round: halves away from zero.                                       *)
Round(a, b) == IF a >= 0 THEN Floor(2 * a + b, 2 * b)
                         ELSE Ceil(2 * a - b, 2 * b)
(* std::fmod: the sign of the dividend.                                     *)
Fmod(a, b)  == IF a >= 0 THEN a % b ELSE -((-a) % b)
Clamp(x, low, high) == IF x < low THEN low ELSE IF x > high THEN high ELSE x
Abs(x) == IF x < 0 THEN -x ELSE x
Square(x) == x * x

Wrap(a) == LET r == Fmod(a, Turn)
           IN  CASE 2 * r > Turn  -> r - Turn
                 [] 2 * r < -Turn -> r + Turn
                 [] OTHER         -> r

FirstTurn_M(j, a) == Ceil(Lo[j] - a, Turn)
FirstTurn(j, a) == Ceil(Lo[j] - a - AlgTol, Turn)
LastTurn(j, a)  == Floor(Hi[j] - a + AlgTol, Turn)
Turns(j, a, r)  == Clamp(Round(r - a, Turn), FirstTurn(j, a), LastTurn(j, a))

LiftJoint(j, a, r) == Wrap(a) + Turns(j, Wrap(a), r) * Turn
Lift(q, ref)       == [j \in Joints |-> LiftJoint(j, q[j], ref[j])]

Liftable(q, ref) ==
  /\ \A j \in Joints : FirstTurn(j, Wrap(q[j])) <= LastTurn(j, Wrap(q[j]))
  /\ Band(Lift(q, ref), AlgTol)

Same_M(p, q) == \E j \in Joints : Abs(Wrap(p[j] - q[j])) < DupTol
Same(p, q) == \A j \in Joints : Abs(Wrap(p[j] - q[j])) < DupTol
Known(q)   == \E i \in DOMAIN solutions : Same(q, solutions[i])

(* squaredNorm of the way to go: the unit squares in the square over each    *)
(* joint's way, counted.                                                    *)
Cells(j, way)    == {j} \X ((1..way) \X (1..way))
Distance(q, ref) == Cardinality(UNION {Cells(j, Abs(q[j] - ref[j])) : j \in Joints})

(* The first of the nearest solutions.                                      *)
Nearest(i, ref) ==
  \A k \in DOMAIN solutions :
    LET d == Distance(solutions[k], ref) - Distance(solutions[i], ref)
    IN  d > 0 \/ (d = 0 /\ i <= k)
-----------------------------------------------------------------------------
(* The trajectory                                                           *)

Unit(n) == n * n * n * n * n

(* Unit(n) times the quintic r^3 (10 - 15 r + 6 r^2) at r = i/n.            *)
Smooth(i, n) == i * i * i * (10 * n * n - 15 * i * n + 6 * i * i)

JointPolyTraj_M(start, end, n) ==
  [i \in 1..n |-> [j \in Joints |->
     start[j] * Unit(n) + Smooth(i, n) * (end[j] - start[j])]]

JointPolyTraj(start, end, n) ==
  [i \in 0..n |-> [j \in Joints |->
     start[j] * Unit(n) + Smooth(i, n) * (end[j] - start[j])]]

LongEnough_M(d, start, end, config) ==
  /\ d >= config.shortest
  /\ \A j \in Joints :
       LET travel == Abs(end[j] - start[j])
       IN  /\ 2 * d * config.speed[j] >= 3 * travel
           /\ 3 * Square(d * d * config.accel[j]) >= 100 * Square(travel)

(* A duration of at least the minimum, of 15/8 travel/speed and of          *)
(* sqrt(10/sqrt(3) travel/accel).                                           *)
LongEnough(d, start, end, config) ==
  /\ d >= config.shortest
  /\ \A j \in Joints :
       LET travel == Abs(end[j] - start[j])
       IN  /\ 8 * d * config.speed[j] >= 15 * travel
           /\ 3 * Square(d * d * config.accel[j]) >= 100 * Square(travel)
-----------------------------------------------------------------------------
NoReply    == [phase |-> "none"]
Failure(c) == [phase |-> "failed", code |-> c]
INVALID_PARAM      == 1000
MOTION_EXEC_FAILED == 3001

Source(req) == IF req.ref = NoRef THEN "config" ELSE "request"

IsReply(r) ==
  \/ r = NoReply
  \/ r \in {Failure(c) : c \in {INVALID_PARAM, MOTION_EXEC_FAILED}}
  \/ /\ DOMAIN r = {"phase", "source", "target", "samples", "steps",
                     "period", "force", "count"}
     /\ r.phase = "planned" /\ r.source \in {"request", "config"}
     /\ r.target \in Angles /\ r.steps \in 1..4095
     /\ r.samples \in [0..r.steps -> Angles]
     /\ r.period \in Nat /\ r.force \in Nat /\ r.count \in Nat

TypeOK ==
  /\ env \in [Sides -> Envs \cup {"off"}]
  /\ stage \in {"idle", "sent", "solving", "replied", "ended"}
  /\ request \in [ref : References, force : Forces]
       \cup {[ref |-> NoRef, force |-> 0]}
  /\ roots \subseteq Raw
  /\ solutions \in Seq(Angles)
  /\ verdict \in {"none", "refused", "planned", "failed"}
  /\ IsReply(reply)

Init ==
  /\ env = [s \in Sides |-> "off"]
  /\ stage = "idle"
  /\ request = [ref |-> NoRef, force |-> 0]
  /\ roots = {} /\ solutions = <<>>
  /\ reply = NoReply /\ verdict = "none"

AtRest == stage \in {"idle", "ended"}

LegalLimits == \A j \in Joints : Lo[j] < Hi[j]

(* from_config of the gateway: plan_only, a legal home, a positive force.    *)
GatewayLoads(c) ==
  ~c.hardware /\ LegalLimits /\ Strict(c.home) /\ c.force > 0

(* MotionConfig::load, RobotModel::load, the constructor of MotionProcessor. *)
PlannerLoads(c) ==
  /\ ~c.hardware /\ LegalLimits /\ Strict(c.home) /\ c.force > 0
  /\ c.steps \in 1..4095 /\ c.shortest > 0
  /\ \A j \in Joints : c.speed[j] > 0 /\ c.accel[j] > 0

(* A program starts, with the VISRL_ENV of its own process; it may have run  *)
(* with another before.  Without one the gateway takes "sim", the planner    *)
(* "dev".                                                                   *)
Boot(s, e) ==
  /\ AtRest
  /\ IF s = "gateway" THEN GatewayLoads(Config[e]) ELSE PlannerLoads(Config[e])
  /\ env' = [env EXCEPT ![s] = e]
  /\ stage' = "idle"
  /\ roots' = {} /\ solutions' = <<>>
  /\ reply' = NoReply /\ verdict' = "none"
  /\ UNCHANGED request

(* PlanRequest and RobotService.submit                                       *)
Admissible(r, f) ==
  /\ f > 0 /\ f <= Of("gateway").force
  /\ r # NoRef => Band(r, GateTol)

Submit(r, f) ==
  /\ AtRest /\ Running
  /\ request' = [ref |-> r, force |-> f]
  /\ IF Admissible(r, f) THEN stage' = "sent" /\ verdict' = "none"
                         ELSE stage' = "ended" /\ verdict' = "refused"
  /\ roots' = {} /\ solutions' = <<>> /\ reply' = NoReply
  /\ UNCHANGED env

(* plan_grasp up to compute_ik.  The reference is compared with the limits   *)
(* exactly, so that one the gateway's tolerance let through is refused here. *)
Readable ==
  /\ request.force > 0 /\ request.force <= Of("planner").force
  /\ Strict(Reference("planner"))

ReadCommand ==
  /\ stage = "sent"
  /\ IF Readable THEN stage' = "solving" /\ UNCHANGED reply
                 ELSE stage' = "replied" /\ reply' = Failure(INVALID_PARAM)
  /\ UNCHANGED <<env, request, roots, solutions, verdict>>

(* compute_ik reaches a branch that stands the check by forward kinematics   *)
(* (append_verified); one that does not leaves no trace.                     *)
Branch(q) ==
  /\ stage = "solving"
  /\ Cardinality(roots) < MaxRoots
  /\ roots' = roots \cup {q}
  /\ LET lifted == Lift(q, Reference("planner"))
     IN  solutions' = IF Liftable(q, Reference("planner")) /\ ~Known(lifted)
                      THEN Append(solutions, lifted) ELSE solutions
  /\ UNCHANGED <<env, stage, request, reply, verdict>>

Unreachable ==
  /\ stage = "solving" /\ solutions = <<>>
  /\ stage' = "replied" /\ reply' = Failure(MOTION_EXEC_FAILED)
  /\ UNCHANGED <<env, request, roots, solutions, verdict>>

(* select_nearest_solution, calculate_duration, joint_poly_traj and reply    *)
Plan(i, p) ==
  LET ref   == Reference("planner")
      steps == Of("planner").steps
      Enough(k) == LongEnough(k * steps, ref, solutions[i], Of("planner"))
  IN  /\ stage = "solving"
      /\ Nearest(i, ref)
      /\ Enough(p) /\ (p = 1 \/ ~Enough(p - 1))
      /\ stage' = "replied"
      /\ reply' = [phase |-> "planned", source |-> Source(request),
                   target |-> solutions[i], steps |-> steps,
                   samples |-> JointPolyTraj(ref, solutions[i], steps),
                   period |-> p, force |-> request.force,
                   count |-> Len(solutions)]
      /\ UNCHANGED <<env, request, roots, solutions, verdict>>

InLimits_M(q, unit) ==
  \A j \in Joints : Lo[j] * unit <= q[j] /\ q[j] <= Hi[j] * unit

(* _validate_limits, on a sample that stands for q/unit                      *)
InLimits(q, unit) ==
  \A j \in Joints : /\ (Lo[j] - GateTol) * unit <= q[j]
                    /\ q[j] <= (Hi[j] + GateTol) * unit

Matches(sample, q, unit) ==
  \A j \in Joints : Abs(sample[j] - q[j] * unit) <= MatchTol * unit

(* _validate_result; the period is exact by construction.                   *)
TargetFits == InLimits(reply.target, 1)
SamplesFit ==
  LET unit == Unit(reply.steps)
  IN  /\ \A i \in 0..reply.steps : InLimits(reply.samples[i], unit)
      /\ Matches(reply.samples[0], Reference("gateway"), unit)
      /\ Matches(reply.samples[reply.steps], reply.target, unit)

Accepts ==
  /\ reply.steps \in 1..4095 /\ reply.count > 0 /\ reply.period > 0
  /\ reply.source = Source(request)
  /\ TargetFits /\ SamplesFit
  /\ reply.force = request.force

(* on_message and _run: an error_report fails the task, a plan is validated. *)
Record ==
  /\ stage = "replied"
  /\ stage' = "ended"
  /\ verdict' = IF reply.phase = "planned" /\ Accepts THEN "planned"
                                                     ELSE "failed"
  /\ UNCHANGED <<env, request, roots, solutions, reply>>

Next ==
  \/ \E s \in Sides, e \in Envs : Boot(s, e)
  \/ \E r \in References, f \in Forces : Submit(r, f)
  \/ ReadCommand
  \/ \E q \in Raw : Branch(q)
  \/ Unreachable
  \/ \E i \in DOMAIN solutions, p \in 1..MaxPeriod : Plan(i, p)
  \/ Record

Spec == Init /\ [][Next]_vars
-----------------------------------------------------------------------------
(* Properties                                                               *)

(* Both programs plan from the same angles, as closely as the gateway       *)
(* compares them: the request has them, or the homes of the two agree.      *)
Agreed ==
  \A j \in Joints :
    Abs(Reference("planner")[j] - Reference("gateway")[j]) <= MatchTol

(* A plan of the planner is rejected by the gateway when it starts at a home *)
(* the gateway does not have, and for nothing else: the lift, the selection  *)
(* and the sampling of the planner and its tolerances fit the limits, the    *)
(* end points and the tolerances that _validate_result checks, and a planner *)
(* that runs with another environment does not go unnoticed.                *)
PlannedIsAccepted ==
  reply.phase = "planned" /\ stage = "ended" => (verdict = "planned" <=> Agreed)

(* The angles inside the limits that put joint j where a does.              *)
Options(j, a) == {x \in Lo[j] - AlgTol .. Hi[j] + AlgTol : (x - a) % Turn = 0}
Configurations(q) ==
  {c \in [Joints -> UNION {Options(j, q[j]) : j \in Joints}] :
     \A j \in Joints : c[j] \in Options(j, q[j])}

(* Branches that are one within the tolerance for duplicates.               *)
Twin(p, q) ==
  \A j \in Joints : \E d \in 1 - DupTol .. DupTol - 1 :
    (p[j] - q[j] - d) % Turn = 0

(* Lift, removal of duplicates and selection together lead to the nearest:   *)
(* for every branch that fits the limits the target is no farther than any   *)
(* configuration, whole turns included, of this branch or of a twin found    *)
(* earlier.  More does not hold: of two twins on either side of a point a    *)
(* turn away from a limit, one can be turned to the other limit and one      *)
(* cannot, and append_verified keeps the first, which may be the farther.    *)
NearestPlan ==
  reply.phase = "planned" =>
    \A q \in roots : Configurations(q) # {} =>
      \E r \in roots :
        /\ r = q \/ Twin(r, q)
        /\ Configurations(r) # {}
        /\ \A c \in Configurations(r) :
             Distance(reply.target, Reference("planner"))
               <= Distance(c, Reference("planner"))

(* "Unreachable" is said only when no branch has a configuration within the  *)
(* limits: the lift of compute_ik loses none.                               *)
UnreachableIsTrue ==
  reply = Failure(MOTION_EXEC_FAILED) => \A q \in roots : Configurations(q) = {}

(* The duration calculate_duration derives from the peaks of the quintic     *)
(* holds for the samples of joint_poly_traj: between two samples no joint is  *)
(* faster than max_velocity (nor jumps across pi), around a sample, and from  *)
(* and to rest, none accelerates more than max_acceleration.                *)
RespectsPeaks ==
  reply.phase = "planned" =>
    LET n       == reply.steps
        x(i, j) == reply.samples[i][j]
        top     == reply.period * Unit(n)
        pace(j) == Of("planner").speed[j] * top
        push(j) == Of("planner").accel[j] * reply.period * top
    IN  \A j \in Joints :
          /\ \A i \in 1..n : Abs(x(i, j) - x(i-1, j)) <= pace(j)
          /\ \A i \in 1..n-1 :
               Abs(x(i+1, j) - 2 * x(i, j) + x(i-1, j)) <= push(j)
          /\ 2 * Abs(x(1, j) - x(0, j)) <= push(j)
          /\ 2 * Abs(x(n, j) - x(n-1, j)) <= push(j)
-----------------------------------------------------------------------------
(* The inductive invariant behind these properties                          *)

(* A program runs only with a configuration it loads, and keeps it while a   *)
(* request is under way.                                                    *)
EnvInv ==
  /\ env["gateway"] # "off" => GatewayLoads(Of("gateway"))
  /\ env["planner"] # "off" => PlannerLoads(Of("planner"))
  /\ ~AtRest => Running

SolvingInv ==
  /\ stage = "solving" => Readable
  /\ \A i \in DOMAIN solutions : Band(solutions[i], AlgTol)

(* A plan leads from the planner's reference to angles within the limits.    *)
ReplyInv ==
  reply.phase = "planned" =>
    /\ stage \in {"replied", "ended"} /\ Running /\ Readable
    /\ reply.steps = Of("planner").steps
    /\ Band(reply.target, AlgTol)
    /\ reply.samples =
         JointPolyTraj(Reference("planner"), reply.target, reply.steps)
    /\ reply.source = Source(request) /\ reply.force = request.force
    /\ reply.count > 0 /\ reply.period > 0
    /\ LongEnough(reply.period * reply.steps, Reference("planner"),
                  reply.target, Of("planner"))

(* Solution i is the nearest configuration of branch r, joint by joint.     *)
From(i, r) ==
  /\ solutions[i] \in Configurations(r)
  /\ \A c \in Configurations(r), j \in Joints :
       Abs(solutions[i][j] - Reference("planner")[j])
         <= Abs(c[j] - Reference("planner")[j])

(* Each solution is that of a branch, and a branch with a configuration has  *)
(* left its own or that of a twin.                                          *)
LiftedInv == \A i \in DOMAIN solutions : \E r \in roots : From(i, r)

NearInv ==
  \A q \in roots : Configurations(q) # {} =>
    \E i \in DOMAIN solutions, r \in roots : From(i, r) /\ (r = q \/ Twin(r, q))

(* The reply comes last, and tells the truth about the solutions.           *)
ChoiceInv ==
  /\ stage \notin {"replied", "ended"} => reply = NoReply
  /\ UnreachableIsTrue
  /\ NearestPlan

CInv == /\ TypeOK /\ EnvInv /\ SolvingInv /\ ReplyInv /\ PlannedIsAccepted
        /\ LiftedInv /\ NearInv /\ ChoiceInv
=============================================================================
