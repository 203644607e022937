------------------------- MODULE PlanContractProofs -------------------------
(***************************************************************************)
(* What PlanContract guarantees for any number of joints, any limits,      *)
(* configurations, branches and number of samples: a plan the planner      *)
(* makes passes the gateway's check unless it starts at another home, leads *)
(* to the nearest configuration of every branch or of a twin of it, and its *)
(* samples respect the speed and the acceleration of the configuration;    *)
(* what the planner calls unreachable is so.  The first part is about the   *)
(* quintic alone, the second about angles, whole turns and the lifting of   *)
(* one joint.                                                              *)
(***************************************************************************)
EXTENDS PlanContract, SequenceTheorems, FiniteSetTheorems, TLAPS

-----------------------------------------------------------------------------
(* The quintic                                                              *)

(* Smooth and Unit stay among the integers.                                *)
LEMMA SmoothType ==
  ASSUME NEW n \in Int, NEW i \in Int
  PROVE  Smooth(i, n) \in Int /\ Unit(n) \in Int
BY DEF Smooth, Unit

(* The quintic is symmetric about its middle.                              *)
LEMMA Symmetry ==
  ASSUME NEW n \in Int, NEW i \in Int
  PROVE  Smooth(n - i, n) = Unit(n) - Smooth(i, n)
BY DEF Smooth, Unit

(* It starts at 0 and ends at 1.                                           *)
LEMMA EndPoints ==
  ASSUME NEW n \in Int
  PROVE  Smooth(0, n) = 0 /\ Smooth(n, n) = Unit(n)
BY DEF Smooth, Unit

(* It is never negative: its quadratic factor has no root.                 *)
LEMMA Positive ==
  ASSUME NEW n \in Int, NEW i \in Nat
  PROVE  Smooth(i, n) >= 0
<1>1. 10 * n * n - 15 * i * n + 6 * i * i >= 0
  OBVIOUS
<1>2. i * i * i >= 0
  OBVIOUS
<1> QED
  BY <1>1, <1>2 DEF Smooth

(* Its values lie between 0 and 1.                                         *)
LEMMA Bounds ==
  ASSUME NEW n \in Nat, NEW i \in 0..n
  PROVE  0 <= Smooth(i, n) /\ Smooth(i, n) <= Unit(n)
<1>1. Smooth(i, n) >= 0 /\ Smooth(n - i, n) >= 0
  BY Positive
<1>2. Smooth(n - i, n) = Unit(n) - Smooth(i, n)
  BY Symmetry
<1>3. Smooth(i, n) \in Int /\ Unit(n) \in Int
  BY SmoothType
<1> QED
  BY <1>1, <1>2, <1>3

(* It rises, by at most 15/8 of a step of time: the peak of the first       *)
(* derivative that calculate_duration uses.                                *)
LEMMA Rise ==
  ASSUME NEW n \in Nat \ {0}, NEW i \in 1..n
  PROVE  /\ Smooth(i - 1, n) <= Smooth(i, n)
         /\ 8 * (Smooth(i, n) - Smooth(i - 1, n)) <= 15 * (n * n * n * n)
<1> DEFINE w == 2 * i - 1 - n
           d == n * n - w * w - 1
           m == n * n
<1>1. 8 * (Smooth(i, n) - Smooth(i - 1, n)) = 15 * (d * d) + 20 * m - 12
  BY DEF Smooth, w, d, m
<1>2. m \in Nat /\ m >= 1 /\ d \in Int /\ 0 <= d /\ d <= m - 1
  BY DEF d, w, m
<1>3. n * n * n * n = m * m
  BY DEF m
<1>4. Smooth(i, n) \in Int /\ Smooth(i - 1, n) \in Int
  BY SmoothType
<1> HIDE DEF d, m
<1>5. 0 <= d * d /\ d * d <= (m - 1) * (m - 1)
  BY <1>2
<1>6. 15 * (d * d) + 20 * m - 12 <= 15 * (m * m)
  BY <1>2, <1>5
<1> QED
  BY <1>1, <1>2, <1>3, <1>4, <1>5, <1>6

(* The second difference of it is at most 10/sqrt(3) of a step squared, the  *)
(* peak of the second derivative that calculate_duration uses.             *)
LEMMA Bend ==
  ASSUME NEW n \in Nat \ {0}, NEW i \in 1..(n-1)
  PROVE  3 * Square(Smooth(i + 1, n) - 2 * Smooth(i, n) + Smooth(i - 1, n))
           <= 100 * Square(n * n * n)
<1> DEFINE v == n - 2 * i
           m == n * n - 2
           x == v * v
           b == Smooth(i + 1, n) - 2 * Smooth(i, n) + Smooth(i - 1, n)
<1>1. b = 15 * v * (m - x)
  BY DEF Smooth, b, v, m, x
<1>2. /\ v \in Int /\ m \in Int /\ x \in Int
      /\ 0 <= x /\ x <= m /\ 0 <= m /\ m <= n * n
  BY DEF v, m, x
<1>3. b * b = 225 * (x * ((m - x) * (m - x)))
  <2> HIDE DEF m, v, b
  <2> QED
    BY <1>1, <1>2 DEF x
<1> HIDE DEF v, m, x, b
<1>4. 27 * (x * ((m - x) * (m - x))) <= 4 * (m * m * m)
  <2>1. 4 * (m * m * m) - 27 * (x * ((m - x) * (m - x)))
          = ((m - 3 * x) * (m - 3 * x)) * (4 * m - 3 * x)
    BY <1>2
  <2>2. (m - 3 * x) * (m - 3 * x) >= 0 /\ 4 * m - 3 * x >= 0
    BY <1>2
  <2>3. ((m - 3 * x) * (m - 3 * x)) * (4 * m - 3 * x) >= 0
    BY <2>2, <1>2
  <2> QED
    BY <2>1, <2>3, <1>2
<1>5. m * m * m <= (n * n * n) * (n * n * n)
  <2>1. m * m <= (n * n) * (n * n)
    BY <1>2
  <2>2. (m * m) * m <= ((n * n) * (n * n)) * (n * n)
    BY <1>2, <2>1
  <2> QED
    BY <2>2, <1>2
<1>6. x * ((m - x) * (m - x)) \in Int /\ m * m * m \in Int
  BY <1>2
<1>7. 3 * (b * b) <= 100 * ((n * n * n) * (n * n * n))
  BY <1>3, <1>4, <1>5, <1>6
<1> QED
  BY <1>7 DEF Square, b

(* From rest, the first step is one of that acceleration at most.          *)
LEMMA Start ==
  ASSUME NEW n \in Nat \ {0}
  PROVE  3 * Square(2 * Smooth(1, n)) <= 100 * Square(n * n * n)
<1>1. Smooth(1, n) = 10 * n * n - 15 * n + 6
  BY DEF Smooth
<1>2. 0 <= Smooth(1, n) /\ Smooth(1, n) <= 2 * (n * n * n)
  <2>1. CASE n <= 4
    <3>1. n = 1 \/ n = 2 \/ n = 3 \/ n = 4
      BY <2>1
    <3> QED
      BY <3>1, <1>1
  <2>2. CASE n >= 5
    <3>1. 5 * (n * n) <= n * n * n
      BY <2>2
    <3> QED
      BY <3>1, <1>1
  <2> QED
    BY <2>1, <2>2
<1>3. Smooth(1, n) \in Int
  BY SmoothType
<1> DEFINE s == Smooth(1, n)
           c == n * n * n
<1>4. s \in Nat /\ c \in Nat /\ s <= 2 * c
  BY <1>2, <1>3
<1> HIDE DEF s, c
<1>5. s * s <= 4 * (c * c)
  BY <1>4
<1>6. 3 * ((2 * s) * (2 * s)) <= 100 * (c * c)
  BY <1>4, <1>5
<1> QED
  BY <1>6 DEF s, c, Square
-----------------------------------------------------------------------------
(* Trajectories                                                             *)

(* A weighted mean of two numbers within bounds is within them.            *)
LEMMA Between ==
  ASSUME NEW a \in Int, NEW b \in Int, NEW lo \in Int, NEW hi \in Int,
         NEW s \in Int, NEW u \in Int, 0 <= s, s <= u,
         lo <= a, a <= hi, lo <= b, b <= hi
  PROVE  lo * u <= a * u + s * (b - a) /\ a * u + s * (b - a) <= hi * u
<1>1. (a - lo) * (u - s) >= 0 /\ (b - lo) * s >= 0
  OBVIOUS
<1>2. (hi - a) * (u - s) >= 0 /\ (hi - b) * s >= 0
  OBVIOUS
<1>3. a * u + s * (b - a) - lo * u = (a - lo) * (u - s) + (b - lo) * s
  OBVIOUS
<1>4. hi * u - (a * u + s * (b - a)) = (hi - a) * (u - s) + (hi - b) * s
  OBVIOUS
<1> QED
  BY <1>1, <1>2, <1>3, <1>4

(* A trajectory is a function from its samples to angles.                  *)
LEMMA TrajectoryType ==
  ASSUME NEW start \in Angles, NEW end \in Angles, NEW n \in Nat \ {0}
  PROVE  JointPolyTraj(start, end, n) \in [0..n -> Angles]
<1> SUFFICES ASSUME NEW i \in 0..n, NEW j \in Joints
             PROVE  start[j] * Unit(n) + Smooth(i, n) * (end[j] - start[j])
                      \in Int
  BY DEF JointPolyTraj, Angles
<1>1. start[j] \in Int /\ end[j] \in Int
  BY DEF Angles
<1>2. Smooth(i, n) \in Int /\ Unit(n) \in Int
  BY SmoothType
<1> QED
  BY <1>1, <1>2

(* Between angles the gateway accepts every sample is one it accepts.      *)
LEMMA SamplesInLimits ==
  ASSUME NEW start \in Angles, NEW end \in Angles, NEW n \in Nat \ {0},
         Band(start, GateTol), Band(end, GateTol), NEW i \in 0..n
  PROVE  InLimits(JointPolyTraj(start, end, n)[i], Unit(n))
<1> SUFFICES ASSUME NEW j \in Joints
             PROVE  LET x == start[j] * Unit(n)
                               + Smooth(i, n) * (end[j] - start[j])
                    IN  /\ (Lo[j] - GateTol) * Unit(n) <= x
                        /\ x <= (Hi[j] + GateTol) * Unit(n)
  BY DEF InLimits, JointPolyTraj
<1>1. /\ start[j] \in Int /\ end[j] \in Int
      /\ Lo[j] - GateTol \in Int /\ Hi[j] + GateTol \in Int
  BY ContractAssumption DEF Angles
<1>2. /\ Lo[j] - GateTol <= start[j] /\ start[j] <= Hi[j] + GateTol
      /\ Lo[j] - GateTol <= end[j] /\ end[j] <= Hi[j] + GateTol
  BY DEF Band
<1>3. Smooth(i, n) \in Int /\ Unit(n) \in Int
  BY SmoothType
<1>4. 0 <= Smooth(i, n) /\ Smooth(i, n) <= Unit(n)
  BY Bounds
<1> QED
  BY <1>1, <1>2, <1>3, <1>4, Between

(* Multiples are ordered as what they are multiples of.                    *)
LEMMA ScaledOrder ==
  ASSUME NEW x \in Nat, NEW m \in Nat, NEW u \in Nat \ {0}
  PROVE  x * u <= m * u <=> x <= m
<1>1. CASE x <= m
  BY <1>1
<1>2. CASE m + 1 <= x
  <2>1. (m + 1) * u <= x * u
    BY <1>2
  <2> QED
    BY <1>2, <2>1
<1> QED
  BY <1>1, <1>2

(* It ends exactly where it should, and its start matches what is within    *)
(* MatchTol of it.                                                         *)
LEMMA MatchesEnds ==
  ASSUME NEW start \in Angles, NEW end \in Angles, NEW n \in Nat \ {0},
         NEW q \in Angles
  PROVE  /\ Matches(JointPolyTraj(start, end, n)[0], q, Unit(n))
              <=> \A j \in Joints : Abs(start[j] - q[j]) <= MatchTol
         /\ Matches(JointPolyTraj(start, end, n)[n], end, Unit(n))
<1>1. 0 \in 0..n /\ n \in 0..n
  OBVIOUS
<1>2. Smooth(0, n) = 0 /\ Smooth(n, n) = Unit(n) /\ Unit(n) \in Nat \ {0}
  <2>1. Smooth(0, n) = 0 /\ Smooth(n, n) = Unit(n) /\ Unit(n) \in Int
    BY EndPoints, SmoothType
  <2>2. n * n >= 1
    OBVIOUS
  <2>3. (n * n) * (n * n) >= 1
    BY <2>2
  <2>4. Unit(n) >= 1
    BY <2>3 DEF Unit
  <2> QED
    BY <2>1, <2>4
<1>3. MatchTol \in Nat
  BY ContractAssumption
<1>4. \A j \in Joints : start[j] \in Int /\ end[j] \in Int /\ q[j] \in Int
  BY DEF Angles
<1>5. \A j \in Joints :
        /\ JointPolyTraj(start, end, n)[0][j]
             = start[j] * Unit(n) + 0 * (end[j] - start[j])
        /\ JointPolyTraj(start, end, n)[n][j]
             = start[j] * Unit(n) + Unit(n) * (end[j] - start[j])
  BY <1>1, <1>2 DEF JointPolyTraj
<1> DEFINE u == Unit(n)
<1> HIDE DEF u
<1>6. u \in Nat \ {0}
  BY <1>2 DEF u
<1>7. ASSUME NEW j \in Joints
      PROVE  /\ Abs(JointPolyTraj(start, end, n)[0][j] - q[j] * u) <= MatchTol * u
                  <=> Abs(start[j] - q[j]) <= MatchTol
             /\ Abs(JointPolyTraj(start, end, n)[n][j] - end[j] * u) <= MatchTol * u
  <2> DEFINE a == start[j] - q[j]
             x == JointPolyTraj(start, end, n)[0][j]
             y == JointPolyTraj(start, end, n)[n][j]
  <2>1. a \in Int /\ x - q[j] * u = a * u /\ y - end[j] * u = 0
    BY <1>4, <1>5, <1>6 DEF u
  <2> HIDE DEF a, x, y
  <2>2. Abs(a * u) = Abs(a) * u /\ Abs(a) \in Nat
    BY <2>1, <1>6 DEF Abs
  <2>3. Abs(a) * u <= MatchTol * u <=> Abs(a) <= MatchTol
    BY <2>2, <1>3, <1>6, ScaledOrder
  <2>4. Abs(0) <= MatchTol * u
    BY <1>3, <1>6 DEF Abs
  <2> QED
    BY <2>1, <2>2, <2>3, <2>4 DEF a, x, y
<1> QED
  BY <1>7 DEF Matches, u
-----------------------------------------------------------------------------
(* Peaks                                                                    *)

(* The absolute value of a product.                                        *)
LEMMA AbsTimes ==
  ASSUME NEW a \in Int, NEW b \in Int
  PROVE  Abs(a * b) = Abs(a) * Abs(b) /\ Abs(a) \in Nat
BY DEF Abs

(* Natural numbers are ordered as their squares are.                       *)
LEMMA SquareOrder ==
  ASSUME NEW a \in Nat, NEW b \in Nat, a * a <= b * b
  PROVE  a <= b
<1>1. CASE a > b
  <2>1. a * a >= a * b /\ a * b >= b * b /\ (b + 1) * (b + 1) <= a * a
    BY <1>1
  <2> QED
    BY <2>1
<1> QED
  BY <1>1

(* A step of the quintic times the travel t, when the duration p * n allows *)
(* the speed v.                                                            *)
LEMMA SpeedBound ==
  ASSUME NEW r \in Nat, NEW t \in Nat, NEW v \in Nat,
         NEW p \in Nat, NEW n \in Nat,
         8 * r <= 15 * (n * n * n * n), 8 * (p * n) * v >= 15 * t
  PROVE  r * t <= v * (p * Unit(n))
<1> DEFINE f == n * n * n * n
           q == (p * n) * v
<1>1. f \in Nat /\ q \in Nat /\ 8 * r <= 15 * f /\ 15 * t <= 8 * q
  BY DEF f, q
<1>2. v * (p * Unit(n)) = f * q
  BY DEF Unit, f, q
<1> HIDE DEF f, q
<1>3. (8 * r) * t <= (15 * f) * t
  BY <1>1
<1>4. f * (15 * t) <= f * (8 * q)
  BY <1>1
<1>5. r * t \in Nat /\ f * t \in Nat /\ f * q \in Nat
  BY <1>1
<1>6. 8 * (r * t) <= 8 * (f * q)
  BY <1>1, <1>3, <1>4, <1>5
<1> QED
  BY <1>2, <1>5, <1>6

(* A bend of it times the travel t, when the duration p * n allows the      *)
(* acceleration a.                                                         *)
LEMMA AccelBound ==
  ASSUME NEW b \in Nat, NEW t \in Nat, NEW a \in Nat,
         NEW p \in Nat, NEW n \in Nat,
         3 * Square(b) <= 100 * Square(n * n * n),
         3 * Square((p * n) * (p * n) * a) >= 100 * Square(t)
  PROVE  b * t <= a * p * (p * Unit(n))
<1> DEFINE c == n * n * n
           q == (p * n) * (p * n) * a
<1>1. /\ c \in Nat /\ q \in Nat
      /\ 3 * (b * b) <= 100 * (c * c) /\ 100 * (t * t) <= 3 * (q * q)
  BY DEF c, q, Square
<1>2. a * p * (p * Unit(n)) = c * q
  BY DEF Unit, c, q
<1> HIDE DEF c, q
<1> DEFINE bb == b * b  cc == c * c  tt == t * t  qq == q * q
<1>3. /\ bb \in Nat /\ cc \in Nat /\ tt \in Nat /\ qq \in Nat
      /\ 3 * bb <= 100 * cc /\ 100 * tt <= 3 * qq
      /\ (b * t) * (b * t) = bb * tt /\ (c * q) * (c * q) = cc * qq
  BY <1>1
<1> HIDE DEF bb, cc, tt, qq
<1>4. (3 * bb) * tt <= (100 * cc) * tt /\ cc * (100 * tt) <= cc * (3 * qq)
  BY <1>3
<1>5. bb * tt \in Nat /\ cc * tt \in Nat /\ cc * qq \in Nat
  BY <1>3
<1>6. 3 * (bb * tt) <= 3 * (cc * qq)
  BY <1>3, <1>4, <1>5
<1>7. b * t \in Nat /\ c * q \in Nat /\ (b * t) * (b * t) <= (c * q) * (c * q)
  BY <1>1, <1>3, <1>5, <1>6
<1> QED
  BY <1>2, <1>7, SquareOrder

(* Samples x of one joint, a duration that is long enough for it, and what   *)
(* RespectsPeaks asks of it.                                               *)
Quintic(x, start, end, n) ==
  \A i \in 0..n : x[i] = start * Unit(n) + Smooth(i, n) * (end - start)

Allows(p, n, v, a, start, end) ==
  /\ 8 * (p * n) * v >= 15 * Abs(end - start)
  /\ 3 * Square((p * n) * (p * n) * a) >= 100 * Square(Abs(end - start))

Calm(x, n, p, v, a) ==
  /\ \A i \in 1..n : Abs(x[i] - x[i-1]) <= v * (p * Unit(n))
  /\ \A i \in 1..(n-1) :
       Abs(x[i+1] - 2 * x[i] + x[i-1]) <= a * p * (p * Unit(n))
  /\ 2 * Abs(x[1] - x[0]) <= a * p * (p * Unit(n))
  /\ 2 * Abs(x[n] - x[n-1]) <= a * p * (p * Unit(n))

(* One joint of a trajectory whose duration calculate_duration has chosen.  *)
LEMMA JointPeaks ==
  ASSUME NEW start \in Int, NEW end \in Int, NEW n \in Nat \ {0}, NEW p \in Nat,
         NEW v \in Nat, NEW a \in Nat, NEW x,
         Quintic(x, start, end, n), Allows(p, n, v, a, start, end)
  PROVE  Calm(x, n, p, v, a)
<1> DEFINE way == end - start
           t   == Abs(way)
<1>1. way \in Int /\ t \in Nat /\ Unit(n) \in Int
  <2>1. Unit(n) \in Int
    BY SmoothType
  <2> QED
    BY <2>1 DEF Abs, way, t
<1>2. ASSUME NEW i \in 0..n
      PROVE  x[i] = start * Unit(n) + Smooth(i, n) * way /\ Smooth(i, n) \in Int
  <2>1. Smooth(i, n) \in Int
    BY SmoothType
  <2>2. x[i] = start * Unit(n) + Smooth(i, n) * way
    BY DEF way, Quintic
  <2> QED
    BY <2>1, <2>2
<1>a. /\ 8 * (p * n) * v >= 15 * t
      /\ 3 * Square((p * n) * (p * n) * a) >= 100 * Square(t)
  BY DEF Allows
<1> HIDE DEF way, t
<1>3. ASSUME NEW i \in 1..n
      PROVE  Abs(x[i] - x[i-1]) = (Smooth(i, n) - Smooth(i - 1, n)) * t
               /\ Smooth(i, n) - Smooth(i - 1, n) \in Nat
  <2> DEFINE r == Smooth(i, n) - Smooth(i - 1, n)
  <2>1. i \in 0..n /\ i - 1 \in 0..n
    OBVIOUS
  <2>2. r \in Nat
    BY <2>1, <1>2, Rise
  <2>3. x[i] - x[i-1] = r * way
    BY <2>1, <1>1, <1>2
  <2> HIDE DEF r
  <2>4. Abs(r * way) = r * t
    BY <2>2, <1>1, AbsTimes DEF Abs, t
  <2> QED
    BY <2>2, <2>3, <2>4 DEF r
<1>4. ASSUME NEW i \in 1..n
      PROVE  Abs(x[i] - x[i-1]) <= v * (p * Unit(n))
  <2> DEFINE r == Smooth(i, n) - Smooth(i - 1, n)
  <2>1. r \in Nat /\ 8 * r <= 15 * (n * n * n * n)
    BY <1>3, Rise
  <2> HIDE DEF r
  <2>2. r * t <= v * (p * Unit(n))
    BY <2>1, <1>1, <1>a, SpeedBound
  <2> QED
    BY <2>2, <1>3 DEF r
<1>5. ASSUME NEW i \in 1..(n-1)
      PROVE  Abs(x[i+1] - 2 * x[i] + x[i-1]) <= a * p * (p * Unit(n))
  <2> DEFINE b == Smooth(i + 1, n) - 2 * Smooth(i, n) + Smooth(i - 1, n)
  <2>1. i \in 0..n /\ i - 1 \in 0..n /\ i + 1 \in 0..n
    OBVIOUS
  <2>2. b \in Int /\ 3 * Square(b) <= 100 * Square(n * n * n)
    BY <2>1, <1>2, Bend
  <2>3. x[i+1] - 2 * x[i] + x[i-1] = b * way
    BY <2>1, <1>1, <1>2
  <2> HIDE DEF b
  <2>4. Abs(b * way) = Abs(b) * t /\ Abs(b) \in Nat
    BY <2>2, <1>1, AbsTimes DEF t
  <2>5. Square(Abs(b)) = Square(b)
    BY <2>2 DEF Square, Abs
  <2>6. Abs(b) * t <= a * p * (p * Unit(n))
    BY <2>2, <2>4, <2>5, <1>1, <1>a, AccelBound
  <2> QED
    BY <2>3, <2>4, <2>6
<1>6. /\ 2 * (Smooth(1, n) * t) <= a * p * (p * Unit(n))
      /\ Smooth(1, n) * t \in Int
  <2> DEFINE s == Smooth(1, n)
  <2>1. s \in Nat /\ 3 * Square(2 * s) <= 100 * Square(n * n * n)
    BY Positive, SmoothType, Start
  <2> HIDE DEF s
  <2>2. 2 * s \in Nat
    BY <2>1
  <2>3. (2 * s) * t <= a * p * (p * Unit(n))
    BY <2>1, <2>2, <1>1, <1>a, AccelBound
  <2>4. (2 * s) * t = 2 * (s * t) /\ s * t \in Int
    BY <2>1, <1>1
  <2> QED
    BY <2>3, <2>4 DEF s
<1>7. Smooth(1, n) - Smooth(0, n) = Smooth(1, n)
        /\ Smooth(n, n) - Smooth(n - 1, n) = Smooth(1, n)
  <2>1. Smooth(0, n) = 0 /\ Smooth(n, n) = Unit(n)
    BY EndPoints
  <2>2. Smooth(n - 1, n) = Unit(n) - Smooth(1, n)
    BY Symmetry
  <2>3. Smooth(1, n) \in Int /\ Unit(n) \in Int
    BY DEF Smooth, Unit
  <2> QED
    BY <2>1, <2>2, <2>3
<1>8. 2 * Abs(x[1] - x[0]) <= a * p * (p * Unit(n))
  <2>1. Abs(x[1] - x[1-1]) = (Smooth(1, n) - Smooth(1 - 1, n)) * t
    BY <1>3
  <2> QED
    BY <2>1, <1>6, <1>7
<1>9. 2 * Abs(x[n] - x[n-1]) <= a * p * (p * Unit(n))
  <2>1. Abs(x[n] - x[n-1]) = (Smooth(n, n) - Smooth(n - 1, n)) * t
    BY <1>3
  <2> QED
    BY <2>1, <1>6, <1>7
<1> QED
  BY <1>4, <1>5, <1>8, <1>9 DEF Calm
-----------------------------------------------------------------------------
(* Whole turns, and the lift into the limits                               *)

(* Longer sums of turns are longer.                                        *)
LEMMA TurnsOrder ==
  ASSUME NEW b \in Nat, NEW k \in Int, NEW n \in Int, k <= n
  PROVE  k * b <= n * b
OBVIOUS

(* Whole turns apart by more than none are apart by a turn.                 *)
LEMMA TurnsApart ==
  ASSUME NEW b \in Nat \ {0}, NEW k \in Int, NEW n \in Int, k * b < n * b + b
  PROVE  k <= n
<1> SUFFICES ASSUME n + 1 <= k
             PROVE  FALSE
  OBVIOUS
<1>1. (n + 1) * b <= k * b
  BY TurnsOrder
<1> QED
  BY <1>1

(* What is below, and above, the quotient of two integers.                 *)
LEMMA FloorBounds ==
  ASSUME NEW a \in Int, NEW b \in Nat \ {0}
  PROVE  /\ Floor(a, b) \in Int
         /\ Floor(a, b) * b <= a /\ a < Floor(a, b) * b + b
BY DEF Floor

LEMMA CeilBounds ==
  ASSUME NEW a \in Int, NEW b \in Nat \ {0}
  PROVE  /\ Ceil(a, b) \in Int
         /\ a <= Ceil(a, b) * b /\ Ceil(a, b) * b < a + b
<1> DEFINE f == Floor(-a, b)
<1>1. f \in Int /\ f * b <= -a /\ -a < f * b + b
  BY FloorBounds
<1>2. Ceil(a, b) = -f
  BY DEF Ceil, Floor
<1> HIDE DEF f
<1> QED
  BY <1>1, <1>2

(* std::round is off by half a turn at most.                               *)
LEMMA RoundBounds ==
  ASSUME NEW a \in Int, NEW b \in Nat \ {0}
  PROVE  /\ Round(a, b) \in Int
         /\ 2 * a - b <= 2 * (Round(a, b) * b)
         /\ 2 * (Round(a, b) * b) <= 2 * a + b
<1>1. 2 * b \in Nat \ {0} /\ 2 * a + b \in Int /\ 2 * a - b \in Int
  OBVIOUS
<1>2. CASE a >= 0
  <2> DEFINE f == Floor(2 * a + b, 2 * b)
  <2>1. f \in Int /\ f * (2 * b) <= 2 * a + b /\ 2 * a + b < f * (2 * b) + 2 * b
    BY <1>1, FloorBounds
  <2>2. Round(a, b) = f
    BY <1>2 DEF Round
  <2> HIDE DEF f
  <2> QED
    BY <2>1, <2>2
<1>3. CASE a < 0
  <2> DEFINE f == Ceil(2 * a - b, 2 * b)
  <2>1. f \in Int /\ 2 * a - b <= f * (2 * b) /\ f * (2 * b) < 2 * a - b + 2 * b
    BY <1>1, CeilBounds
  <2>2. Round(a, b) = f
    BY <1>3 DEF Round
  <2> HIDE DEF f
  <2> QED
    BY <2>1, <2>2
<1> QED
  BY <1>2, <1>3

(* A remainder differs by whole turns from what it is the remainder of.    *)
LEMMA ModTurns ==
  ASSUME NEW a \in Int, NEW b \in Nat \ {0}
  PROVE  \E m \in Int : a % b = a + m * b
<1> DEFINE m == -(a \div b)
<1>1. a % b = a - (a \div b) * b /\ a \div b \in Int
  OBVIOUS
<1>2. m \in Int /\ a % b = a + m * b
  BY <1>1
<1> QED
  BY <1>2

(* And one that is a number of whole turns leaves none.                    *)
LEMMA NoRemainder ==
  ASSUME NEW a \in Int, NEW b \in Nat \ {0}
  PROVE  (a % b = 0) <=> \E m \in Int : a = m * b
<1>1. a \div b \in Int /\ a % b = a - (a \div b) * b
  OBVIOUS
<1>2. ASSUME NEW m \in Int, a = m * b
      PROVE  a % b = 0
  <2> DEFINE f == Floor(a, b)
  <2>1. f \in Int /\ f * b <= m * b /\ m * b < f * b + b
    BY <1>2, FloorBounds
  <2>2. m <= f
    BY <2>1, TurnsApart
  <2>3. f <= m
    BY <2>1, TurnsApart
  <2>4. f = m
    BY <2>1, <2>2, <2>3
  <2>5. a % b = a - f * b
    BY DEF Floor
  <2> QED
    BY <2>4, <2>5, <1>2
<1>3. a % b = 0 => a = (a \div b) * b
  BY <1>1
<1> QED
  BY <1>1, <1>2, <1>3

(* wrap_angle takes away whole turns.                                      *)
LEMMA WrapTurns ==
  ASSUME NEW a \in Int
  PROVE  \E m \in Int : Wrap(a) = a + m * Turn
<1>1. Turn \in Nat \ {0}
  BY ContractAssumption
<1>2. PICK m \in Int : Fmod(a, Turn) = a + m * Turn
  <2>1. CASE a >= 0
    BY <2>1, <1>1, ModTurns DEF Fmod
  <2>2. CASE a < 0
    <3>1. -a \in Int
      OBVIOUS
    <3>2. PICK m \in Int : (-a) % Turn = -a + m * Turn
      BY <1>1, <3>1, ModTurns
    <3>3. -m \in Int /\ Fmod(a, Turn) = a + (-m) * Turn
      BY <2>2, <1>1, <3>2 DEF Fmod
    <3> QED
      BY <3>3
  <2> QED
    BY <2>1, <2>2
<1>3. \/ Wrap(a) = a + m * Turn
      \/ Wrap(a) = a + (m - 1) * Turn
      \/ Wrap(a) = a + (m + 1) * Turn
  BY <1>1, <1>2 DEF Wrap
<1> QED
  BY <1>2, <1>3

(* Where std::round leads, or the limit it is clamped to, is as near as any *)
(* number of turns between the limits.                                      *)
LEMMA ClampNearest ==
  ASSUME NEW b \in Nat \ {0}, NEW d \in Int,
         NEW first \in Int, NEW last \in Int, NEW k \in first..last
  PROVE  LET t == Clamp(Round(d, b), first, last)
         IN  /\ t \in first..last
             /\ Abs(t * b - d) <= Abs(k * b - d)
<1> DEFINE n == Round(d, b)
           t == Clamp(n, first, last)
<1>1. n \in Int /\ 2 * d - b <= 2 * (n * b) /\ 2 * (n * b) <= 2 * d + b
  BY RoundBounds
<1> SUFFICES t \in first..last /\ Abs(t * b - d) <= Abs(k * b - d)
  OBVIOUS
<1> HIDE DEF n
<1> DEFINE N == n * b
           K == k * b
<1>2. N \in Int /\ K \in Int /\ 2 * d - b <= 2 * N /\ 2 * N <= 2 * d + b
  BY <1>1
<1>3. CASE n < first
  <2> DEFINE F == first * b
  <2>1. t = first /\ n + 1 <= first
    BY <1>1, <1>3 DEF Clamp
  <2>2. (n + 1) * b <= F /\ F <= K
    BY <1>1, <2>1, TurnsOrder
  <2>5. t \in first..last
    BY <2>1
  <2>3. F \in Int /\ N + b <= F /\ F <= K /\ t * b = F
    BY <1>1, <2>1, <2>2
  <2> HIDE DEF N, K, F, t
  <2>4. Abs(t * b - d) <= Abs(K - d)
    BY <1>2, <2>3 DEF Abs
  <2> QED
    BY <2>4, <2>5 DEF K
<1>4. CASE n > last
  <2> DEFINE L == last * b
  <2>1. t = last /\ last + 1 <= n
    BY <1>1, <1>4 DEF Clamp
  <2>2. (last + 1) * b <= N /\ K <= L
    BY <1>1, <2>1, TurnsOrder
  <2>5. t \in first..last
    BY <2>1
  <2>3. L \in Int /\ L + b <= N /\ K <= L /\ t * b = L
    BY <1>1, <2>1, <2>2
  <2> HIDE DEF N, K, L, t
  <2>4. Abs(t * b - d) <= Abs(K - d)
    BY <1>2, <2>3 DEF Abs
  <2> QED
    BY <2>4, <2>5 DEF K
<1>5. CASE first <= n /\ n <= last
  <2>1. t = n
    BY <1>1, <1>5 DEF Clamp
  <2>2. K = N \/ N + b <= K \/ K + b <= N
    <3>1. CASE k = n
      BY <3>1
    <3>2. CASE n + 1 <= k
      <4>1. (n + 1) * b <= K
        BY <1>1, <3>2, TurnsOrder
      <4> QED
        BY <1>1, <4>1
    <3>3. CASE k + 1 <= n
      <4>1. (k + 1) * b <= N
        BY <1>1, <3>3, TurnsOrder
      <4> QED
        BY <1>1, <4>1
    <3> QED
      BY <1>1, <3>1, <3>2, <3>3
  <2>5. t \in first..last
    BY <1>1, <1>5, <2>1
  <2>3. t * b = N
    BY <2>1
  <2> HIDE DEF N, K, t
  <2>4. Abs(t * b - d) <= Abs(K - d)
    BY <1>2, <2>2, <2>3 DEF Abs
  <2> QED
    BY <2>4, <2>5 DEF K
<1> QED
  BY <1>1, <1>3, <1>4, <1>5

(* Angles whole turns apart have the same options.                         *)
LEMMA OptionsShift ==
  ASSUME NEW j \in Joints, NEW a \in Int, NEW m \in Int
  PROVE  Options(j, a + m * Turn) = Options(j, a)
<1> DEFINE b == a + m * Turn
<1>1. Turn \in Nat \ {0} /\ m * Turn \in Int /\ b \in Int
  BY ContractAssumption
<1>2. \A x \in Int : (x - b) % Turn = 0 <=> (x - a) % Turn = 0
  <2> TAKE x \in Int
  <2>1. x - a \in Int /\ x - b \in Int
    BY <1>1
  <2>2. ASSUME NEW k \in Int, x - b = k * Turn
        PROVE  k + m \in Int /\ x - a = (k + m) * Turn
    BY <1>1, <2>2
  <2>3. ASSUME NEW k \in Int, x - a = k * Turn
        PROVE  k - m \in Int /\ x - b = (k - m) * Turn
    BY <1>1, <2>3
  <2> HIDE DEF b
  <2>4. (x - b) % Turn = 0 <=> \E k \in Int : x - b = k * Turn
    BY <1>1, <2>1, NoRemainder
  <2>5. (x - a) % Turn = 0 <=> \E k \in Int : x - a = k * Turn
    BY <1>1, <2>1, NoRemainder
  <2> QED
    BY <2>2, <2>3, <2>4, <2>5
<1>3. Lo[j] - AlgTol \in Int /\ Hi[j] + AlgTol \in Int
  BY ContractAssumption DEF Angles
<1> HIDE DEF b
<1>4. Options(j, b) = Options(j, a)
  BY <1>2, <1>3 DEF Options
<1> QED
  BY <1>4 DEF b

(* lift_to_limits loses no joint that can be turned into the limits, and    *)
(* turns it to where it is nearest to the reference.                       *)
LEMMA JointLift ==
  ASSUME NEW j \in Joints, NEW a \in Int, NEW r \in Int, NEW x \in Options(j, a)
  PROVE  /\ FirstTurn(j, Wrap(a)) <= LastTurn(j, Wrap(a))
         /\ LiftJoint(j, a, r) \in Lo[j] - AlgTol .. Hi[j] + AlgTol
         /\ Abs(LiftJoint(j, a, r) - r) <= Abs(x - r)
<1>1. /\ Turn \in Nat \ {0} /\ AlgTol \in Nat
      /\ Lo[j] \in Int /\ Hi[j] \in Int
  BY ContractAssumption DEF Angles
<1>2. PICK m \in Int : Wrap(a) = a + m * Turn
  BY WrapTurns
<1> DEFINE w     == Wrap(a)
           first == FirstTurn(j, w)
           last  == LastTurn(j, w)
           t     == Turns(j, w, r)
<1>3. w \in Int
  BY <1>1, <1>2
<1> HIDE DEF w
<1>4. x \in Options(j, w)
  BY <1>2, OptionsShift DEF w
<1>5. x \in Int /\ Lo[j] - AlgTol <= x /\ x <= Hi[j] + AlgTol /\ (x - w) % Turn = 0
  BY <1>1, <1>4 DEF Options
<1>6. PICK k \in Int : x - w = k * Turn
  <2>1. x - w \in Int
    BY <1>3, <1>5
  <2> QED
    BY <1>1, <1>5, <2>1, NoRemainder
<1>7. /\ first \in Int /\ Lo[j] - w - AlgTol <= first * Turn
      /\ first * Turn < Lo[j] - w - AlgTol + Turn
  <2>1. Lo[j] - w - AlgTol \in Int
    BY <1>1, <1>3
  <2> QED
    BY <1>1, <2>1, CeilBounds DEF FirstTurn
<1>8. /\ last \in Int /\ last * Turn <= Hi[j] - w + AlgTol
      /\ Hi[j] - w + AlgTol < last * Turn + Turn
  <2>1. Hi[j] - w + AlgTol \in Int
    BY <1>1, <1>3
  <2> QED
    BY <1>1, <2>1, FloorBounds DEF LastTurn
<1>9. k \in first..last
  <2> HIDE DEF first, last
  <2>1. first * Turn < k * Turn + Turn /\ k * Turn < last * Turn + Turn
    BY <1>1, <1>3, <1>5, <1>6, <1>7, <1>8
  <2>2. first <= k /\ k <= last
    BY <1>1, <1>7, <1>8, <2>1, TurnsApart
  <2> QED
    BY <1>7, <1>8, <2>2
<1>10. /\ t \in first..last
       /\ Abs(t * Turn - (r - w)) <= Abs(k * Turn - (r - w))
  <2>1. t = Clamp(Round(r - w, Turn), first, last) /\ r - w \in Int
    BY <1>3 DEF Turns
  <2> HIDE DEF t, first, last
  <2> QED
    BY <1>1, <1>7, <1>8, <1>9, <2>1, ClampNearest
<1> HIDE DEF first, last, t
<1>11. first * Turn <= t * Turn /\ t * Turn <= last * Turn /\ t * Turn \in Int
  BY <1>1, <1>7, <1>8, <1>10, TurnsOrder
<1>12. LiftJoint(j, a, r) = w + t * Turn
  BY DEF LiftJoint, w, t
<1> DEFINE y == LiftJoint(j, a, r)
<1>13. y \in Int /\ y = w + t * Turn
  BY <1>3, <1>11, <1>12
<1> HIDE DEF y
<1>14. y \in Lo[j] - AlgTol .. Hi[j] + AlgTol
  BY <1>1, <1>3, <1>7, <1>8, <1>11, <1>13
<1>15. Abs(y - r) <= Abs(x - r)
  <2>1. y - r = t * Turn - (r - w) /\ x - r = k * Turn - (r - w)
    BY <1>3, <1>5, <1>6, <1>11, <1>13
  <2> QED
    BY <1>10, <2>1
<1>16. first <= last
  BY <1>7, <1>8, <1>9
<1>17. FirstTurn(j, Wrap(a)) <= LastTurn(j, Wrap(a))
  BY <1>16 DEF w, first, last
<1> QED
  BY <1>14, <1>15, <1>17 DEF y

(* What a branch is lifted to is nearest to the reference in every joint.  *)
LEMMA LiftNearest ==
  ASSUME NEW q \in Angles, NEW ref \in Angles, NEW j \in Joints,
         NEW x \in Options(j, q[j])
  PROVE  Abs(Lift(q, ref)[j] - ref[j]) <= Abs(x - ref[j])
<1>1. q[j] \in Int /\ ref[j] \in Int
  BY DEF Angles
<1>2. Abs(LiftJoint(j, q[j], ref[j]) - ref[j]) <= Abs(x - ref[j])
  BY <1>1, JointLift
<1> QED
  BY <1>2 DEF Lift

(* And one that has a configuration is lifted.                             *)
LEMMA LiftLosesNone ==
  ASSUME NEW q \in Angles, NEW ref \in Angles, NEW c \in Configurations(q)
  PROVE  Liftable(q, ref)
<1>1. \A j \in Joints : c[j] \in Options(j, q[j]) /\ q[j] \in Int /\ ref[j] \in Int
                          /\ Lo[j] \in Int /\ Hi[j] \in Int /\ AlgTol \in Nat
  BY ContractAssumption DEF Configurations, Angles
<1>2. ASSUME NEW j \in Joints
      PROVE  /\ FirstTurn(j, Wrap(q[j])) <= LastTurn(j, Wrap(q[j]))
             /\ LiftJoint(j, q[j], ref[j]) \in Lo[j] - AlgTol .. Hi[j] + AlgTol
  <2>1. c[j] \in Options(j, q[j]) /\ q[j] \in Int /\ ref[j] \in Int
    BY <1>1
  <2> QED
    BY <2>1, JointLift
<1>3. \A j \in Joints : Lift(q, ref)[j] = LiftJoint(j, q[j], ref[j])
  BY DEF Lift
<1>4. Band(Lift(q, ref), AlgTol)
  BY <1>1, <1>2, <1>3 DEF Band
<1> QED
  BY <1>2, <1>4 DEF Liftable

(* The number of turns is one.                                             *)
LEMMA TurnsType ==
  ASSUME NEW j \in Joints, NEW a \in Int, NEW r \in Int
  PROVE  Turns(j, Wrap(a), r) \in Int
<1>1. /\ Turn \in Nat \ {0} /\ AlgTol \in Nat
      /\ Lo[j] \in Int /\ Hi[j] \in Int
  BY ContractAssumption DEF Angles
<1> DEFINE w == Wrap(a)
<1>2. w \in Int
  BY <1>1, WrapTurns
<1> HIDE DEF w
<1>3. FirstTurn(j, w) \in Int
  <2>1. Lo[j] - w - AlgTol \in Int
    BY <1>1, <1>2
  <2> QED
    BY <1>1, <2>1, CeilBounds DEF FirstTurn
<1>4. LastTurn(j, w) \in Int
  <2>1. Hi[j] - w + AlgTol \in Int
    BY <1>1, <1>2
  <2> QED
    BY <1>1, <2>1, FloorBounds DEF LastTurn
<1>5. Round(r - w, Turn) \in Int
  BY <1>1, <1>2, RoundBounds
<1>6. Turns(j, w, r) \in Int
  BY <1>3, <1>4, <1>5 DEF Turns, Clamp
<1> QED
  BY <1>6 DEF w

(* A configuration has an option of every joint.                           *)
LEMMA ConfigurationType ==
  ASSUME NEW q, NEW c \in Configurations(q)
  PROVE  c \in Angles /\ \A j \in Joints : c[j] \in Options(j, q[j])
<1>1. /\ c \in [Joints -> UNION {Options(j, q[j]) : j \in Joints}]
      /\ \A j \in Joints : c[j] \in Options(j, q[j])
  BY DEF Configurations
<1>2. \A j \in Joints : c[j] \in Int
  <2>1. \A j \in Joints : Lo[j] - AlgTol \in Int /\ Hi[j] + AlgTol \in Int
    BY ContractAssumption DEF Angles
  <2> QED
    BY <1>1, <2>1 DEF Options
<1> QED
  BY <1>1, <1>2 DEF Angles

(* And angles with an option of every joint are a configuration.           *)
LEMMA IsConfiguration ==
  ASSUME NEW q, NEW c \in Angles, \A j \in Joints : c[j] \in Options(j, q[j])
  PROVE  c \in Configurations(q)
<1>1. c \in [Joints -> UNION {Options(j, q[j]) : j \in Joints}]
  BY DEF Angles
<1> QED
  BY <1>1 DEF Configurations

(* Lifting leads from angles to angles.                                    *)
LEMMA LiftType ==
  ASSUME NEW q \in Angles, NEW ref \in Angles
  PROVE  Lift(q, ref) \in Angles
<1> SUFFICES ASSUME NEW j \in Joints
             PROVE  LiftJoint(j, q[j], ref[j]) \in Int
  BY DEF Lift, Angles
<1>1. q[j] \in Int /\ ref[j] \in Int /\ Turn \in Int
  BY ContractAssumption DEF Angles
<1>2. Wrap(q[j]) \in Int
  BY <1>1, WrapTurns
<1>3. Turns(j, Wrap(q[j]), ref[j]) \in Int
  BY <1>1, TurnsType
<1> QED
  BY <1>1, <1>2, <1>3 DEF LiftJoint

(* What a branch is lifted to is one of its configurations.                *)
LEMMA LiftConfigured ==
  ASSUME NEW q \in Angles, NEW ref \in Angles, Liftable(q, ref)
  PROVE  Lift(q, ref) \in Configurations(q)
<1>1. Lift(q, ref) \in Angles
  BY LiftType
<1>2. ASSUME NEW j \in Joints
      PROVE  Lift(q, ref)[j] \in Options(j, q[j])
  <2>1. /\ q[j] \in Int /\ ref[j] \in Int /\ Turn \in Nat \ {0}
        /\ Lo[j] - AlgTol \in Int /\ Hi[j] + AlgTol \in Int
    BY ContractAssumption DEF Angles
  <2>2. PICK m \in Int : Wrap(q[j]) = q[j] + m * Turn
    BY <2>1, WrapTurns
  <2>3. Turns(j, Wrap(q[j]), ref[j]) \in Int
    BY <2>1, TurnsType
  <2> DEFINE t == Turns(j, Wrap(q[j]), ref[j])
             x == Lift(q, ref)[j]
  <2>4. x = Wrap(q[j]) + t * Turn /\ x \in Int
    BY <1>1 DEF Lift, LiftJoint, Angles
  <2>5. Lo[j] - AlgTol <= x /\ x <= Hi[j] + AlgTol
    BY DEF Liftable, Band
  <2> HIDE DEF t, x
  <2>6. m + t \in Int /\ x - q[j] \in Int /\ x - q[j] = (m + t) * Turn
    BY <2>1, <2>2, <2>3, <2>4 DEF t
  <2>7. (x - q[j]) % Turn = 0
    BY <2>1, <2>6, NoRemainder
  <2> QED
    BY <2>1, <2>4, <2>5, <2>7 DEF Options, x
<1> QED
  BY <1>1, <1>2, IsConfiguration

(* What append_verified takes for known is a twin of the branch that what   *)
(* it knows comes from.                                                    *)
LEMMA SameTwins ==
  ASSUME NEW q \in Angles, NEW r \in Angles,
         NEW p \in Configurations(q), NEW s \in Configurations(r), Same(p, s)
  PROVE  Twin(r, q)
<1> SUFFICES ASSUME NEW j \in Joints
             PROVE  \E d \in 1 - DupTol .. DupTol - 1 : (r[j] - q[j] - d) % Turn = 0
  BY DEF Twin
<1>1. /\ q[j] \in Int /\ r[j] \in Int /\ p[j] \in Int /\ s[j] \in Int
      /\ Turn \in Nat \ {0} /\ DupTol \in Nat
  BY ConfigurationType, ContractAssumption DEF Angles
<1>2. (p[j] - q[j]) % Turn = 0 /\ (s[j] - r[j]) % Turn = 0
  BY ConfigurationType DEF Options
<1>3. PICK k \in Int : p[j] - q[j] = k * Turn
  <2>1. p[j] - q[j] \in Int
    BY <1>1
  <2> QED
    BY <1>1, <1>2, <2>1, NoRemainder
<1>4. PICK l \in Int : s[j] - r[j] = l * Turn
  <2>1. s[j] - r[j] \in Int
    BY <1>1
  <2> QED
    BY <1>1, <1>2, <2>1, NoRemainder
<1> DEFINE w == Wrap(p[j] - s[j])
<1>5. PICK m \in Int : w = p[j] - s[j] + m * Turn
  <2>1. p[j] - s[j] \in Int
    BY <1>1
  <2> QED
    BY <2>1, WrapTurns
<1>6. Abs(w) < DupTol
  BY DEF Same
<1> HIDE DEF w
<1>7. w \in Int
  BY <1>1, <1>5
<1>8. -w \in 1 - DupTol .. DupTol - 1
  BY <1>1, <1>6, <1>7 DEF Abs
<1>9. /\ k + m - l \in Int /\ r[j] - q[j] - (-w) \in Int
      /\ r[j] - q[j] - (-w) = (k + m - l) * Turn
  BY <1>1, <1>3, <1>4, <1>5, <1>7
<1>10. (r[j] - q[j] - (-w)) % Turn = 0
  BY <1>1, <1>9, NoRemainder
<1> QED
  BY <1>8, <1>10

(* Well inside the limits a configuration has one of a twin beside it.     *)
Inner(q) ==
  {c \in Configurations(q) :
     \A j \in Joints : /\ Lo[j] - AlgTol + DupTol <= c[j]
                       /\ c[j] <= Hi[j] + AlgTol - DupTol}

LEMMA TwinBeside ==
  ASSUME NEW q \in Angles, NEW r \in Angles, Twin(r, q), NEW c \in Inner(q)
  PROVE  \E e \in Configurations(r) : \A j \in Joints : Abs(e[j] - c[j]) <= DupTol
<1> DEFINE D == 1 - DupTol .. DupTol - 1
           P(j, d) == (r[j] - q[j] - d) % Turn = 0
           off(j) == CHOOSE d \in D : P(j, d)
           e == [j \in Joints |-> c[j] + off(j)]
<1>1. c \in Configurations(q) /\ c \in Angles
  BY ConfigurationType DEF Inner
<1>2. ASSUME NEW j \in Joints
      PROVE  e[j] \in Int /\ e[j] \in Options(j, r[j]) /\ Abs(e[j] - c[j]) <= DupTol
  <2>1. /\ q[j] \in Int /\ r[j] \in Int /\ c[j] \in Int
        /\ Turn \in Nat \ {0} /\ DupTol \in Nat
        /\ Lo[j] - AlgTol \in Int /\ Hi[j] + AlgTol \in Int
        /\ Lo[j] - AlgTol + DupTol \in Int /\ Hi[j] + AlgTol - DupTol \in Int
    BY <1>1, ContractAssumption DEF Angles
  <2>2. off(j) \in D /\ P(j, off(j))
    <3>1. \E d \in D : P(j, d)
      BY DEF Twin
    <3> HIDE DEF D, P
    <3> QED
      BY <3>1
  <2> DEFINE o == off(j)
  <2>3. o \in Int /\ 1 - DupTol <= o /\ o <= DupTol - 1 /\ e[j] = c[j] + o
    BY <2>1, <2>2
  <2>4. (c[j] - q[j]) % Turn = 0
    BY <1>1, ConfigurationType DEF Options
  <2>5. (r[j] - q[j] - o) % Turn = 0
    BY <2>2
  <2> HIDE DEF o, e
  <2>6. PICK k \in Int : c[j] - q[j] = k * Turn
    <3>1. c[j] - q[j] \in Int
      BY <2>1
    <3> QED
      BY <2>1, <2>4, <3>1, NoRemainder
  <2>7. PICK l \in Int : r[j] - q[j] - o = l * Turn
    <3>1. r[j] - q[j] - o \in Int
      BY <2>1, <2>3
    <3> QED
      BY <2>1, <2>5, <3>1, NoRemainder
  <2>8. /\ k - l \in Int /\ e[j] - r[j] \in Int
        /\ e[j] - r[j] = (k - l) * Turn
    BY <2>1, <2>3, <2>6, <2>7
  <2>9. (e[j] - r[j]) % Turn = 0
    BY <2>1, <2>8, NoRemainder
  <2>10. Lo[j] - AlgTol + DupTol <= c[j] /\ c[j] <= Hi[j] + AlgTol - DupTol
    BY DEF Inner
  <2>11. e[j] \in Int /\ Lo[j] - AlgTol <= e[j] /\ e[j] <= Hi[j] + AlgTol
    <3>1. Lo[j] \in Int /\ Hi[j] \in Int /\ AlgTol \in Nat
      BY ContractAssumption DEF Angles
    <3> QED
      BY <2>1, <2>3, <2>10, <3>1
  <2>12. Abs(e[j] - c[j]) <= DupTol
    BY <2>1, <2>3 DEF Abs
  <2> QED
    BY <2>1, <2>9, <2>11, <2>12 DEF Options
<1>3. e \in Angles
  BY <1>2 DEF Angles
<1> HIDE DEF e
<1>4. e \in Configurations(r)
  BY <1>2, <1>3, IsConfiguration
<1> QED
  BY <1>2, <1>4

(* A square over each way is a finite number of cells.                     *)
LEMMA CellsFinite ==
  ASSUME NEW way \in [Joints -> Nat]
  PROVE  IsFiniteSet(UNION {Cells(j, way[j]) : j \in Joints})
<1> DEFINE f  == [j \in Joints |-> Cells(j, way[j])]
           CC == {Cells(j, way[j]) : j \in Joints}
<1>1. IsFiniteSet(CC)
  <2>1. f \in Surjection(Joints, CC)
    BY DEF Surjection
  <2> QED
    BY <2>1, FS_Surjection, ContractAssumption
<1>2. ASSUME NEW j \in Joints
      PROVE  IsFiniteSet(Cells(j, way[j]))
  <2>1. IsFiniteSet(1..way[j]) /\ IsFiniteSet({j})
    <3>1. 1 \in Int /\ way[j] \in Int
      OBVIOUS
    <3> QED
      BY <3>1, FS_Interval, FS_Singleton
  <2>2. IsFiniteSet((1..way[j]) \X (1..way[j]))
    BY <2>1, FS_Product
  <2> QED
    BY <2>1, <2>2, FS_Product DEF Cells
<1> QED
  BY <1>1, <1>2, FS_UNION

(* And a distance is a number.                                             *)
LEMMA DistanceType ==
  ASSUME NEW p \in Angles, NEW ref \in Angles
  PROVE  Distance(p, ref) \in Nat
<1> DEFINE way == [j \in Joints |-> Abs(p[j] - ref[j])]
<1>1. way \in [Joints -> Nat]
  BY DEF Angles, Abs
<1>2. Distance(p, ref) = Cardinality(UNION {Cells(j, way[j]) : j \in Joints})
  BY DEF Distance
<1> HIDE DEF way
<1> QED
  BY <1>1, <1>2, CellsFinite, FS_CardinalityType

(* What is shorter in every joint is shorter.                              *)
LEMMA WaysOrder ==
  ASSUME NEW near \in [Joints -> Nat], NEW far \in [Joints -> Nat],
         \A j \in Joints : near[j] <= far[j]
  PROVE  Cardinality(UNION {Cells(j, near[j]) : j \in Joints})
           <= Cardinality(UNION {Cells(j, far[j]) : j \in Joints})
<1> DEFINE N == UNION {Cells(j, near[j]) : j \in Joints}
           F == UNION {Cells(j, far[j]) : j \in Joints}
<1>1. IsFiniteSet(N) /\ IsFiniteSet(F)
  BY CellsFinite
<1>2. N \subseteq F
  <2>1. ASSUME NEW j \in Joints
        PROVE  Cells(j, near[j]) \subseteq Cells(j, far[j])
    BY DEF Cells
  <2> QED
    BY <2>1
<1> QED
  BY <1>1, <1>2, FS_Subset, FS_CardinalityType

(* What is as near in every joint is as near.                              *)
LEMMA DistanceOrder ==
  ASSUME NEW ref \in Angles, NEW p \in Angles, NEW c \in Angles,
         \A j \in Joints : Abs(p[j] - ref[j]) <= Abs(c[j] - ref[j])
  PROVE  /\ Distance(p, ref) \in Nat /\ Distance(c, ref) \in Nat
         /\ Distance(p, ref) <= Distance(c, ref)
<1> DEFINE near == [j \in Joints |-> Abs(p[j] - ref[j])]
           far  == [j \in Joints |-> Abs(c[j] - ref[j])]
<1>1. /\ near \in [Joints -> Nat] /\ far \in [Joints -> Nat]
      /\ \A j \in Joints : near[j] <= far[j]
  BY DEF Angles, Abs
<1>2. /\ Distance(p, ref) = Cardinality(UNION {Cells(j, near[j]) : j \in Joints})
      /\ Distance(c, ref) = Cardinality(UNION {Cells(j, far[j]) : j \in Joints})
  BY DEF Distance
<1> HIDE DEF near, far
<1> QED
  BY <1>1, <1>2, WaysOrder, DistanceType

(* The distance of c, each way longer by the tolerance for duplicates.     *)
Slack(c, ref) ==
  Cardinality(UNION {Cells(j, Abs(c[j] - ref[j]) + DupTol) : j \in Joints})

(* What lies beside c is no farther than that.                             *)
LEMMA SlackOrder ==
  ASSUME NEW ref \in Angles, NEW e \in Angles, NEW c \in Angles,
         \A j \in Joints : Abs(e[j] - c[j]) <= DupTol
  PROVE  Distance(e, ref) <= Slack(c, ref) /\ Slack(c, ref) \in Nat
<1> DEFINE near == [j \in Joints |-> Abs(e[j] - ref[j])]
           far  == [j \in Joints |-> Abs(c[j] - ref[j]) + DupTol]
<1>1. DupTol \in Nat
  BY ContractAssumption
<1>2. ASSUME NEW j \in Joints
      PROVE  near[j] \in Nat /\ far[j] \in Nat /\ near[j] <= far[j]
  <2>1. e[j] \in Int /\ c[j] \in Int /\ ref[j] \in Int
    BY DEF Angles
  <2> QED
    BY <1>1, <2>1 DEF Abs
<1>3. near \in [Joints -> Nat] /\ far \in [Joints -> Nat]
  BY <1>2
<1>4. /\ Distance(e, ref) = Cardinality(UNION {Cells(j, near[j]) : j \in Joints})
      /\ Slack(c, ref) = Cardinality(UNION {Cells(j, far[j]) : j \in Joints})
  BY DEF Distance, Slack
<1> HIDE DEF near, far
<1>5. IsFiniteSet(UNION {Cells(j, far[j]) : j \in Joints})
  BY <1>3, CellsFinite
<1> QED
  BY <1>2, <1>3, <1>4, <1>5, WaysOrder, FS_CardinalityType
-----------------------------------------------------------------------------
(* The invariant                                                            *)

(* A configuration has the fields it should.                               *)
LEMMA ConfigType ==
  ASSUME NEW e \in Envs
  PROVE  /\ Config[e].home \in Angles /\ Config[e].force \in Int
         /\ Config[e].steps \in Int
         /\ Config[e].speed \in Angles /\ Config[e].accel \in Angles
BY ContractAssumption

(* Where planning starts is a vector of angles.                            *)
LEMMA ReferenceType ==
  ASSUME TypeOK, NEW s \in Sides, env[s] # "off"
  PROVE  Reference(s) \in Angles
<1>1. env[s] \in Envs
  BY DEF TypeOK
<1>2. request.ref \in Angles \cup {NoRef}
  BY ContractAssumption DEF TypeOK
<1> QED
  BY <1>1, <1>2, ConfigType DEF Reference, Of

(* A wider tolerance accepts more.                                         *)
LEMMA Widen ==
  ASSUME NEW q \in Angles, Band(q, AlgTol) \/ Strict(q)
  PROVE  Band(q, GateTol)
BY ContractAssumption DEF Band, Strict, Angles

(* A plan has the parts of one.                                            *)
LEMMA PlanParts ==
  ASSUME IsReply(reply), reply.phase = "planned"
  PROVE  reply.target \in Angles /\ reply.steps \in 1..4095
           /\ reply.period \in Nat
<1>1. reply # NoReply
  BY DEF NoReply
<1>2. \A c : reply # Failure(c)
  BY DEF Failure
<1> QED
  BY <1>1, <1>2 DEF IsReply

(* The gateway accepts what the planner makes, if the two start alike.     *)
LEMMA GatewayAccepts ==
  ASSUME TypeOK, EnvInv, ReplyInv, reply.phase = "planned"
  PROVE  Accepts <=> Agreed
<1> DEFINE start == Reference("planner")
           end   == reply.target
           n     == reply.steps
<1>1. end \in Angles /\ n \in 1..4095
  BY PlanParts DEF TypeOK
<1>2. start \in Angles /\ Reference("gateway") \in Angles
  BY ReferenceType DEF ReplyInv, Running, Sides
<1>3. /\ Band(end, AlgTol) /\ Strict(start)
      /\ reply.samples = JointPolyTraj(start, end, n)
  BY DEF ReplyInv, Readable
<1> HIDE DEF start, end, n
<1>4. Band(end, GateTol) /\ Band(start, GateTol)
  BY <1>1, <1>2, <1>3, Widen
<1>5. n \in Nat \ {0}
  BY <1>1
<1>6. InLimits(end, 1)
  BY <1>1, <1>4, ContractAssumption DEF InLimits, Band, Angles
<1>7. \A i \in 0..n : InLimits(reply.samples[i], Unit(n))
  BY <1>1, <1>2, <1>3, <1>4, <1>5, SamplesInLimits
<1>8. /\ Matches(reply.samples[0], Reference("gateway"), Unit(n)) <=> Agreed
      /\ Matches(reply.samples[n], end, Unit(n))
  <2>1. /\ Matches(reply.samples[0], Reference("gateway"), Unit(n))
             <=> \A j \in Joints :
                   Abs(start[j] - Reference("gateway")[j]) <= MatchTol
        /\ Matches(reply.samples[n], end, Unit(n))
    BY <1>1, <1>2, <1>3, <1>5, MatchesEnds
  <2> QED
    BY <2>1 DEF Agreed, start
<1>9. /\ reply.steps \in 1..4095 /\ reply.count > 0 /\ reply.period > 0
      /\ reply.source = Source(request) /\ reply.force = request.force
  BY <1>1 DEF ReplyInv, n
<1>10. TargetFits
  BY <1>6 DEF TargetFits, end
<1>11. SamplesFit <=> Agreed
  BY <1>7, <1>8 DEF SamplesFit, end, n
<1> QED
  BY ONLY <1>9, <1>10, <1>11 DEF Accepts

(* What is said of the solutions stays true as long as they, the request   *)
(* and the programs do.                                                    *)
LEMMA SolutionsKept ==
  ASSUME CInv, UNCHANGED <<env, request, roots, solutions>>
  PROVE  LiftedInv' /\ NearInv'
<1>1. Reference("planner")' = Reference("planner")
  BY DEF Reference, Of
<1> QED
  BY <1>1 DEF CInv, LiftedInv, NearInv, From

(* Without branches and an answer there is nothing to be said of them.     *)
LEMMA NothingFound ==
  ASSUME roots' = {}, solutions' = <<>>, reply' = NoReply
  PROVE  LiftedInv' /\ NearInv' /\ ChoiceInv'
<1>1. LiftedInv'
  BY DEF LiftedInv
<1>2. NearInv'
  BY DEF NearInv
<1>3. ChoiceInv'
  BY DEF ChoiceInv, UnreachableIsTrue, NearestPlan
<1> QED
  BY <1>1, <1>2, <1>3

(* Programs that have not started yet have promised nothing.               *)
LEMMA InitHolds == Init => CInv
<1> SUFFICES ASSUME Init
             PROVE  CInv
  OBVIOUS
<1> USE DEF Init
<1>1. IsReply(reply)
  BY DEF IsReply
<1>2. TypeOK
  BY <1>1, ContractAssumption DEF TypeOK
<1>3. EnvInv
  BY DEF EnvInv, AtRest, Sides
<1>4. SolvingInv /\ ReplyInv /\ PlannedIsAccepted
  BY DEF SolvingInv, ReplyInv, PlannedIsAccepted, NoReply
<1>5. LiftedInv /\ NearInv
  BY DEF LiftedInv, NearInv
<1>6. ChoiceInv
  BY DEF ChoiceInv, UnreachableIsTrue, NearestPlan
<1> QED
  BY <1>2, <1>3, <1>4, <1>5, <1>6 DEF CInv

(* A program starts with a configuration it loads, and no answer.          *)
LEMMA BootStep ==
  ASSUME CInv, NEW s \in Sides, NEW e \in Envs, Boot(s, e)
  PROVE  CInv'
<1> USE DEF Boot
<1>1. TypeOK'
  <2>1. IsReply(reply')
    BY DEF IsReply
  <2> QED
    BY <2>1 DEF CInv, TypeOK
<1>2. EnvInv'
  BY DEF CInv, TypeOK, EnvInv, Of, AtRest, Running, Sides
<1>3. SolvingInv' /\ ReplyInv' /\ PlannedIsAccepted'
  BY DEF SolvingInv, ReplyInv, PlannedIsAccepted, NoReply
<1>4. LiftedInv' /\ NearInv' /\ ChoiceInv'
  BY NothingFound
<1> QED
  BY <1>1, <1>2, <1>3, <1>4 DEF CInv

(* Submit clears the last answer, too, and keeps the environments.         *)
LEMMA SubmitStep ==
  ASSUME CInv, NEW r \in References, NEW f \in Forces, Submit(r, f)
  PROVE  CInv'
<1> USE DEF Submit
<1>1. TypeOK'
  <2>1. IsReply(reply')
    BY DEF IsReply
  <2> QED
    BY <2>1 DEF CInv, TypeOK
<1>2. EnvInv'
  BY DEF CInv, EnvInv, Of, Running
<1>3. SolvingInv' /\ ReplyInv' /\ PlannedIsAccepted'
  BY DEF SolvingInv, ReplyInv, PlannedIsAccepted, NoReply
<1>4. LiftedInv' /\ NearInv' /\ ChoiceInv'
  BY NothingFound
<1> QED
  BY <1>1, <1>2, <1>3, <1>4 DEF CInv

(* plan_grasp goes on only with a reference inside the limits.             *)
LEMMA ReadStep ==
  ASSUME CInv, ReadCommand
  PROVE  CInv'
<1> USE DEF ReadCommand
<1>1. TypeOK'
  <2>1. IsReply(reply')
    <3>1. CASE reply' = reply
      BY <3>1 DEF CInv, TypeOK
    <3>2. CASE reply' = Failure(INVALID_PARAM)
      BY <3>2 DEF IsReply
    <3> QED
      BY <3>1, <3>2
  <2>2. stage' \in {"solving", "replied"}
    OBVIOUS
  <2> QED
    BY <2>1, <2>2 DEF CInv, TypeOK
<1>2. EnvInv'
  BY DEF CInv, EnvInv, Of, AtRest, Running
<1>3. SolvingInv'
  BY DEF CInv, SolvingInv, Readable, Reference, Of
<1>4. ReplyInv' /\ PlannedIsAccepted'
  BY DEF CInv, ReplyInv, PlannedIsAccepted, Failure
<1>5. LiftedInv' /\ NearInv'
  BY SolutionsKept
<1>6. ChoiceInv'
  <2>1. reply = NoReply
    BY DEF CInv, ChoiceInv
  <2>2. reply' \in {NoReply, Failure(INVALID_PARAM)}
    BY <2>1
  <2>3. reply' # Failure(MOTION_EXEC_FAILED) /\ reply'.phase # "planned"
    BY <2>2 DEF NoReply, Failure, INVALID_PARAM, MOTION_EXEC_FAILED
  <2>4. stage' \notin {"replied", "ended"} => reply' = NoReply
    BY <2>1
  <2> QED
    BY <2>3, <2>4 DEF ChoiceInv, UnreachableIsTrue, NearestPlan
<1> QED
  BY <1>1, <1>2, <1>3, <1>4, <1>5, <1>6 DEF CInv

(* append_verified keeps what NearInv says: a branch that has a            *)
(* configuration is lifted, and dropped only for a twin.                   *)
LEMMA BranchFound ==
  ASSUME CInv, NEW q \in Raw, Branch(q)
  PROVE  LiftedInv' /\ NearInv'
<1> DEFINE ref    == Reference("planner")
           lifted == Lift(q, ref)
           at(p, r) ==
             /\ p \in Configurations(r)
             /\ \A c \in Configurations(r), j \in Joints :
                  Abs(p[j] - ref[j]) <= Abs(c[j] - ref[j])
<1>1. ref \in Angles /\ q \in Angles /\ solutions \in Seq(Angles) /\ roots \subseteq Angles
  BY ReferenceType, ContractAssumption
     DEF CInv, TypeOK, EnvInv, AtRest, Running, Sides, Branch
<1>2. ref' = ref /\ roots' = roots \cup {q}
  BY DEF Branch, Reference, Of
<1>3. lifted \in Angles
  BY <1>1, LiftType
<1>4. \/ Liftable(q, ref) /\ ~Known(lifted) /\ solutions' = Append(solutions, lifted)
      \/ ~(Liftable(q, ref) /\ ~Known(lifted)) /\ solutions' = solutions
  BY DEF Branch
<1>5. Liftable(q, ref) => at(lifted, q)
  <2> SUFFICES ASSUME Liftable(q, ref)
               PROVE  at(lifted, q)
    OBVIOUS
  <2>1. lifted \in Configurations(q)
    BY <1>1, LiftConfigured
  <2>2. ASSUME NEW c \in Configurations(q), NEW j \in Joints
        PROVE  Abs(lifted[j] - ref[j]) <= Abs(c[j] - ref[j])
    <3>1. c[j] \in Options(j, q[j])
      BY ConfigurationType
    <3> QED
      BY <1>1, <3>1, LiftNearest
  <2> QED
    BY <2>1, <2>2
<1>6. Configurations(q) # {} => Liftable(q, ref)
  BY <1>1, LiftLosesNone
<1>7. \A i \in DOMAIN solutions : \E r \in roots : at(solutions[i], r)
  BY DEF CInv, LiftedInv, From
<1>8. \A r \in roots : Configurations(r) # {} =>
        \E i \in DOMAIN solutions, b \in roots :
          at(solutions[i], b) /\ (b = r \/ Twin(b, r))
  BY DEF CInv, NearInv, From
<1>9. (\A i \in DOMAIN solutions' : \E r \in roots' : at(solutions'[i], r))
        => LiftedInv'
  BY <1>2 DEF LiftedInv, From
<1>10. (\A r \in roots' : Configurations(r) # {} =>
          \E i \in DOMAIN solutions', b \in roots' :
            at(solutions'[i], b) /\ (b = r \/ Twin(b, r)))
         => NearInv'
  BY <1>2 DEF NearInv, From
<1>11. CASE Liftable(q, ref) /\ ~Known(lifted) /\ solutions' = Append(solutions, lifted)
  <2> HIDE DEF lifted, ref, at
  <2>1. /\ Len(solutions) + 1 \in DOMAIN solutions'
        /\ solutions'[Len(solutions) + 1] = lifted
        /\ \A i \in DOMAIN solutions : i \in DOMAIN solutions' /\ solutions'[i] = solutions[i]
        /\ \A i \in DOMAIN solutions' : i \in DOMAIN solutions \/ i = Len(solutions) + 1
    BY <1>1, <1>3, <1>11
  <2>2. at(lifted, q)
    BY <1>5, <1>11
  <2>3. ASSUME NEW i \in DOMAIN solutions'
        PROVE  \E r \in roots' : at(solutions'[i], r)
    <3>1. CASE i \in DOMAIN solutions
      BY <1>2, <1>7, <2>1, <3>1
    <3>2. CASE i = Len(solutions) + 1
      BY <1>2, <2>1, <2>2, <3>2
    <3> QED
      BY <2>1, <3>1, <3>2
  <2>4. ASSUME NEW r \in roots', Configurations(r) # {}
        PROVE  \E i \in DOMAIN solutions', b \in roots' :
                 at(solutions'[i], b) /\ (b = r \/ Twin(b, r))
    <3>1. CASE r \in roots
      <4>1. PICK i \in DOMAIN solutions, b \in roots :
              at(solutions[i], b) /\ (b = r \/ Twin(b, r))
        BY <1>8, <2>4, <3>1
      <4> QED
        BY <1>2, <2>1, <4>1
    <3>2. CASE r = q
      BY <1>2, <2>1, <2>2, <3>2
    <3> QED
      BY <1>2, <3>1, <3>2
  <2> QED
    BY <1>9, <1>10, <2>3, <2>4
<1>12. CASE ~(Liftable(q, ref) /\ ~Known(lifted)) /\ solutions' = solutions
  <2>1. ASSUME Configurations(q) # {}
        PROVE  \E i \in DOMAIN solutions, b \in roots :
                 at(solutions[i], b) /\ Twin(b, q)
    <3>1. Liftable(q, ref) /\ lifted \in Configurations(q)
      BY <1>5, <1>6, <2>1
    <3>2. PICK i \in DOMAIN solutions : Same(lifted, solutions[i])
      BY <1>12, <3>1 DEF Known
    <3>3. PICK b \in roots : at(solutions[i], b)
      BY <1>7
    <3>4. Twin(b, q)
      <4>1. b \in Angles /\ solutions[i] \in Configurations(b)
        BY <1>1, <3>3
      <4> HIDE DEF lifted, ref, at
      <4> QED
        BY <1>1, <3>1, <3>2, <4>1, SameTwins
    <3> QED
      BY <3>3, <3>4
  <2> HIDE DEF lifted, ref, at
  <2>2. ASSUME NEW r \in roots', Configurations(r) # {}
        PROVE  \E i \in DOMAIN solutions', b \in roots' :
                 at(solutions'[i], b) /\ (b = r \/ Twin(b, r))
    <3>1. CASE r \in roots
      <4>1. PICK i \in DOMAIN solutions, b \in roots :
              at(solutions[i], b) /\ (b = r \/ Twin(b, r))
        BY <1>8, <2>2, <3>1
      <4> QED
        BY <1>2, <1>12, <4>1
    <3>2. CASE r = q
      BY <1>2, <1>12, <2>1, <2>2, <3>2
    <3> QED
      BY <1>2, <3>1, <3>2
  <2>3. \A i \in DOMAIN solutions' : \E r \in roots' : at(solutions'[i], r)
    BY <1>2, <1>7, <1>12
  <2> QED
    BY <1>9, <1>10, <2>2, <2>3
<1> QED
  BY <1>4, <1>11, <1>12

(* Every solution append_verified keeps is within its tolerance.           *)
LEMMA BranchStep ==
  ASSUME CInv, NEW q \in Raw, Branch(q)
  PROVE  CInv'
<1> USE DEF Branch
<1> DEFINE lifted == Lift(q, Reference("planner"))
<1>1. lifted \in Angles
  <2>1. Reference("planner") \in Angles
    BY ReferenceType DEF CInv, EnvInv, AtRest, Running, Sides
  <2> QED
    BY <2>1, LiftType, ContractAssumption
<1>2. \/ solutions' = solutions
      \/ solutions' = Append(solutions, lifted) /\ Band(lifted, AlgTol)
  BY DEF Liftable
<1> HIDE DEF lifted
<1>3. solutions' \in Seq(Angles)
  BY <1>1, <1>2 DEF CInv, TypeOK
<1>4. TypeOK'
  <2>1. IsReply(reply')
    BY DEF CInv, TypeOK
  <2>2. roots' \subseteq Raw
    BY DEF CInv, TypeOK
  <2> QED
    BY <1>3, <2>1, <2>2 DEF CInv, TypeOK
<1>5. EnvInv'
  BY DEF CInv, EnvInv, Of, AtRest, Running
<1>6. SolvingInv'
  <2>1. \A i \in DOMAIN solutions' : Band(solutions'[i], AlgTol)
    BY <1>1, <1>2 DEF CInv, TypeOK, SolvingInv
  <2> QED
    BY <2>1 DEF CInv, SolvingInv, Readable, Reference, Of, Band, Strict
<1>7. ReplyInv' /\ PlannedIsAccepted'
  BY DEF CInv, ReplyInv, PlannedIsAccepted
<1>8. LiftedInv' /\ NearInv'
  BY BranchFound
<1>9. ChoiceInv'
  <2>1. reply' = NoReply /\ stage' = "solving"
    BY DEF CInv, ChoiceInv
  <2>2. reply' # Failure(MOTION_EXEC_FAILED) /\ reply'.phase # "planned"
    BY <2>1 DEF NoReply, Failure
  <2> QED
    BY <2>1, <2>2 DEF ChoiceInv, UnreachableIsTrue, NearestPlan
<1> QED
  BY <1>4, <1>5, <1>6, <1>7, <1>8, <1>9 DEF CInv

(* A refusal of the planner says nothing of a plan.                        *)
LEMMA UnreachableStep ==
  ASSUME CInv, Unreachable
  PROVE  CInv'
<1> USE DEF Unreachable
<1>1. TypeOK'
  <2>1. IsReply(reply')
    BY DEF IsReply
  <2> QED
    BY <2>1 DEF CInv, TypeOK
<1>2. EnvInv'
  BY DEF CInv, EnvInv, Of, AtRest, Running
<1>3. SolvingInv' /\ ReplyInv' /\ PlannedIsAccepted'
  BY DEF CInv, SolvingInv, ReplyInv, PlannedIsAccepted, Failure
<1>4. LiftedInv' /\ NearInv'
  BY SolutionsKept
<1>5. ChoiceInv'
  <2>1. \A q \in roots : Configurations(q) = {}
    BY DEF CInv, NearInv
  <2>2. reply'.phase # "planned"
    BY DEF Failure
  <2> QED
    BY <2>1, <2>2 DEF ChoiceInv, UnreachableIsTrue, NearestPlan
<1> QED
  BY <1>1, <1>2, <1>3, <1>4, <1>5 DEF CInv

(* What select_nearest_solution chooses is no farther than any             *)
(* configuration of a branch or of a twin of it.                           *)
LEMMA NearestIsNearest ==
  ASSUME CInv, Reference("planner") \in Angles,
         NEW i \in DOMAIN solutions, Nearest(i, Reference("planner")),
         NEW q \in roots, Configurations(q) # {}
  PROVE  \E r \in roots :
           /\ r = q \/ Twin(r, q)
           /\ Configurations(r) # {}
           /\ \A c \in Configurations(r) :
                Distance(solutions[i], Reference("planner"))
                  <= Distance(c, Reference("planner"))
<1> DEFINE ref == Reference("planner")
<1>1. PICK k \in DOMAIN solutions, r \in roots : From(k, r) /\ (r = q \/ Twin(r, q))
  BY DEF CInv, NearInv
<1>2. /\ solutions[i] \in Angles /\ solutions[k] \in Angles /\ ref \in Angles
      /\ solutions[k] \in Configurations(r)
  BY <1>1 DEF CInv, TypeOK, From
<1>3. ASSUME NEW c \in Configurations(r)
      PROVE  Distance(solutions[i], ref) <= Distance(c, ref)
  <2>1. c \in Angles
    BY ConfigurationType
  <2>2. \A j \in Joints : Abs(solutions[k][j] - ref[j]) <= Abs(c[j] - ref[j])
    BY <1>1 DEF From
  <2>3. \/ Distance(solutions[k], ref) - Distance(solutions[i], ref) > 0
        \/ Distance(solutions[k], ref) - Distance(solutions[i], ref) = 0
    BY DEF Nearest
  <2> HIDE DEF ref
  <2>4. /\ Distance(solutions[k], ref) \in Nat /\ Distance(c, ref) \in Nat
        /\ Distance(solutions[k], ref) <= Distance(c, ref)
    BY <1>2, <2>1, <2>2, DistanceOrder
  <2>5. Distance(solutions[i], ref) \in Nat
    BY <1>2, DistanceType
  <2> QED
    BY <2>3, <2>4, <2>5
<1> QED
  BY <1>1, <1>2, <1>3

(* The reply of plan_grasp is the trajectory ReplyInv speaks of.           *)
LEMMA PlanStep ==
  ASSUME CInv, NEW i \in DOMAIN solutions, NEW p \in 1..MaxPeriod, Plan(i, p)
  PROVE  CInv'
<1> DEFINE ref   == Reference("planner")
           end   == solutions[i]
           steps == Of("planner").steps
<1>1. /\ stage = "solving" /\ stage' = "replied"
      /\ reply' = [phase |-> "planned", source |-> Source(request),
                   target |-> end, steps |-> steps,
                   samples |-> JointPolyTraj(ref, end, steps),
                   period |-> p, force |-> request.force,
                   count |-> Len(solutions)]
      /\ LongEnough(p * steps, ref, end, Of("planner"))
      /\ UNCHANGED <<env, request, roots, solutions, verdict>>
  BY DEF Plan
<1>2. Running /\ PlannerLoads(Of("planner")) /\ Readable
  BY <1>1 DEF CInv, EnvInv, SolvingInv, AtRest, Running, Sides
<1>3. ref \in Angles /\ end \in Angles /\ Band(end, AlgTol)
  BY <1>2, ReferenceType DEF CInv, TypeOK, SolvingInv, Running, Sides
<1>4. steps \in 1..4095
  BY ONLY <1>2 DEF PlannerLoads
<1>5. /\ Len(solutions) \in Nat /\ Len(solutions) > 0
      /\ p \in Nat /\ p > 0
  BY ContractAssumption DEF CInv, TypeOK
<1>6. request.force \in Nat /\ Source(request) \in {"request", "config"}
  <2>1. request.force \in Int
    <3>1. CASE request \in [ref : References, force : Forces]
      BY <3>1, ContractAssumption
    <3>2. CASE request = [ref |-> NoRef, force |-> 0]
      BY <3>2
    <3> QED
      BY <3>1, <3>2 DEF CInv, TypeOK
  <2>2. request.force > 0
    BY <1>2 DEF Readable
  <2> QED
    BY <2>1, <2>2 DEF Source
<1>7. TypeOK'
  <2> HIDE DEF ref, end, steps
  <2>1. steps \in Nat \ {0}
    BY <1>4
  <2>2. JointPolyTraj(ref, end, steps) \in [0..steps -> Angles]
    BY <1>3, <2>1, TrajectoryType
  <2>3. IsReply(reply')
    BY <2>2, <1>1, <1>3, <1>4, <1>5, <1>6 DEF IsReply
  <2> QED
    BY <2>3, <1>1 DEF CInv, TypeOK
<1>8. EnvInv'
  BY <1>1 DEF CInv, EnvInv, Of, AtRest, Running
<1>9. SolvingInv'
  BY <1>1 DEF CInv, SolvingInv
<1>10. ReplyInv'
  <2>1. ref' = ref /\ Of("planner")' = Of("planner") /\ Readable' /\ Running'
    BY <1>1, <1>2 DEF Reference, Of, Readable, Running
  <2> QED
    BY <2>1, <1>1, <1>3, <1>5 DEF ReplyInv, Source
<1>11. PlannedIsAccepted'
  BY <1>1 DEF PlannedIsAccepted
<1>12. LiftedInv' /\ NearInv'
  BY <1>1, SolutionsKept
<1>13. ChoiceInv'
  <2>1. reply' # Failure(MOTION_EXEC_FAILED)
    BY <1>1 DEF Failure
  <2>2. NearestPlan'
    <3>1. reply'.target = end /\ Reference("planner")' = ref /\ roots' = roots
      BY <1>1 DEF Reference, Of
    <3>2. ASSUME NEW q \in roots, Configurations(q) # {}
          PROVE  \E r \in roots :
                   /\ r = q \/ Twin(r, q)
                   /\ Configurations(r) # {}
                   /\ \A c \in Configurations(r) : Distance(end, ref) <= Distance(c, ref)
      BY <1>3, <3>2, NearestIsNearest DEF CInv, Plan
    <3> HIDE DEF ref, end
    <3> QED
      BY <3>1, <3>2 DEF NearestPlan
  <2> QED
    BY <1>1, <2>1, <2>2 DEF ChoiceInv, UnreachableIsTrue
<1> QED
  BY <1>7, <1>8, <1>9, <1>10, <1>11, <1>12, <1>13 DEF CInv

(* _run records a plan as planned, for _validate_result accepts it.        *)
LEMMA RecordStep ==
  ASSUME CInv, Record
  PROVE  CInv'
<1> USE DEF Record
<1>1. TypeOK'
  <2>1. IsReply(reply')
    BY DEF CInv, TypeOK
  <2> QED
    BY <2>1 DEF CInv, TypeOK
<1>2. EnvInv'
  BY DEF CInv, EnvInv, Of, AtRest, Running
<1>3. SolvingInv'
  BY DEF CInv, SolvingInv
<1>4. ReplyInv'
  BY DEF CInv, ReplyInv, Readable, Reference, Of, Running, Source
<1>5. PlannedIsAccepted'
  <2>1. Agreed' <=> Agreed
    BY DEF Agreed, Reference, Of
  <2> QED
    BY <2>1, GatewayAccepts DEF CInv, PlannedIsAccepted
<1>6. LiftedInv' /\ NearInv'
  BY SolutionsKept
<1>7. ChoiceInv'
  BY DEF CInv, ChoiceInv, UnreachableIsTrue, NearestPlan, Reference, Of
<1> QED
  BY <1>1, <1>2, <1>3, <1>4, <1>5, <1>6, <1>7 DEF CInv

(* CInv holds in every reachable state.                                    *)
THEOREM Invariance == Spec => []CInv
<1>1. CInv /\ [Next]_vars => CInv'
  <2> SUFFICES ASSUME CInv, [Next]_vars
               PROVE  CInv'
    OBVIOUS
  <2>1. CASE UNCHANGED vars
    <3> USE <2>1 DEF vars
    <3>1. TypeOK'
      <4>1. IsReply(reply')
        BY DEF CInv, TypeOK
      <4> QED
        BY <4>1 DEF CInv, TypeOK
    <3>2. EnvInv' /\ SolvingInv'
      BY DEF CInv, EnvInv, SolvingInv, Of, AtRest, Running, Readable, Reference
    <3>3. ReplyInv'
      BY DEF CInv, ReplyInv, Of, Running, Readable, Reference, Source
    <3>4. PlannedIsAccepted'
      BY DEF CInv, PlannedIsAccepted, Agreed, Reference, Of
    <3>5. LiftedInv' /\ NearInv'
      BY SolutionsKept
    <3>6. ChoiceInv'
      BY DEF CInv, ChoiceInv, UnreachableIsTrue, NearestPlan, Reference, Of
    <3> QED
      BY <3>1, <3>2, <3>3, <3>4, <3>5, <3>6 DEF CInv
  <2>2. CASE Next
    BY <2>2, BootStep, SubmitStep, ReadStep, BranchStep, UnreachableStep,
       PlanStep, RecordStep DEF Next
  <2> QED
    BY <2>1, <2>2
<1> QED
  BY InitHolds, <1>1, PTL DEF Spec

(* Every variable keeps its type.                                          *)
THEOREM TypeCorrect == Spec => []TypeOK
BY Invariance, PTL DEF CInv

(* The gateway accepts a plan if and only if it starts where the gateway    *)
(* would start.                                                            *)
THEOREM NoPlanRejected == Spec => []PlannedIsAccepted
BY Invariance, PTL DEF CInv

(* A plan leads to the nearest configuration of every branch, or of a twin  *)
(* of it.                                                                  *)
THEOREM NearestChosen == Spec => []NearestPlan
<1>1. CInv => NearestPlan
  BY DEF CInv, ChoiceInv
<1> QED
  BY Invariance, <1>1, PTL

(* What dropping twins costs: away from the limits no configuration of any  *)
(* branch is nearer than the target by more than the tolerance for          *)
(* duplicates in every joint.                                              *)
MissIsSmall ==
  reply.phase = "planned" =>
    \A q \in roots : \A c \in Inner(q) :
      Distance(reply.target, Reference("planner"))
        <= Slack(c, Reference("planner"))

THEOREM MissBounded == Spec => []MissIsSmall
<1>1. CInv => MissIsSmall
  <2> SUFFICES ASSUME CInv, reply.phase = "planned", NEW q \in roots, NEW c \in Inner(q)
               PROVE  Distance(reply.target, Reference("planner"))
                        <= Slack(c, Reference("planner"))
    BY DEF MissIsSmall
  <2> DEFINE ref == Reference("planner")
             goal == reply.target
  <2>1. ref \in Angles /\ goal \in Angles /\ roots \subseteq Angles
    BY ReferenceType, PlanParts, ContractAssumption
       DEF CInv, TypeOK, ReplyInv, Running, Sides
  <2>2. c \in Configurations(q) /\ c \in Angles
    BY ConfigurationType DEF Inner
  <2>3. PICK r \in roots :
          /\ r = q \/ Twin(r, q)
          /\ \A e \in Configurations(r) : Distance(goal, ref) <= Distance(e, ref)
    BY <2>2 DEF CInv, ChoiceInv, NearestPlan
  <2>4. PICK e \in Configurations(r) : \A j \in Joints : Abs(e[j] - c[j]) <= DupTol
    <3>1. CASE r = q
      <4>1. \A j \in Joints : Abs(c[j] - c[j]) <= DupTol
        BY <2>2, ContractAssumption DEF Angles, Abs
      <4> QED
        BY <2>2, <3>1, <4>1
    <3>2. CASE Twin(r, q)
      BY <2>1, <3>2, TwinBeside
    <3> QED
      BY <2>3, <3>1, <3>2
  <2>5. e \in Angles
    BY ConfigurationType
  <2> HIDE DEF ref, goal
  <2>6. Distance(e, ref) <= Slack(c, ref) /\ Slack(c, ref) \in Nat
    BY <2>1, <2>2, <2>4, <2>5, SlackOrder
  <2>7. Distance(goal, ref) \in Nat /\ Distance(e, ref) \in Nat
    BY <2>1, <2>5, DistanceType
  <2>8. Distance(goal, ref) <= Distance(e, ref)
    BY <2>3
  <2>9. Distance(goal, ref) <= Slack(c, ref)
    BY <2>6, <2>7, <2>8
  <2> QED
    BY <2>9 DEF ref, goal
<1> QED
  BY Invariance, <1>1, PTL

(* Nothing the planner calls unreachable can be reached by a branch.       *)
THEOREM UnreachableRightly == Spec => []UnreachableIsTrue
<1>1. CInv => UnreachableIsTrue
  BY DEF CInv, ChoiceInv
<1> QED
  BY Invariance, <1>1, PTL

(* Samples respect the speed and the acceleration of the configuration.    *)
THEOREM PeaksRespected == Spec => []RespectsPeaks
<1>1. CInv => RespectsPeaks
  <2> SUFFICES ASSUME CInv, reply.phase = "planned", NEW j \in Joints
               PROVE
         LET n       == reply.steps
             x(i)    == reply.samples[i][j]
             top     == reply.period * Unit(n)
             push    == Of("planner").accel[j] * reply.period * top
         IN  /\ \A i \in 1..n :
                  Abs(x(i) - x(i-1)) <= Of("planner").speed[j] * top
             /\ \A i \in 1..n-1 : Abs(x(i+1) - 2 * x(i) + x(i-1)) <= push
             /\ 2 * Abs(x(1) - x(0)) <= push
             /\ 2 * Abs(x(n) - x(n-1)) <= push
    BY DEF RespectsPeaks
  <2> DEFINE n     == reply.steps
             p     == reply.period
             start == Reference("planner")
             end   == reply.target
             v     == Of("planner").speed[j]
             a     == Of("planner").accel[j]
             x     == [i \in 0..n |-> reply.samples[i][j]]
  <2>1. end \in Angles /\ n \in 1..4095 /\ p \in Nat
    BY PlanParts DEF CInv, TypeOK
  <2>2. start \in Angles
    BY ReferenceType DEF CInv, ReplyInv, Running, Sides
  <2>3. v \in Nat /\ a \in Nat
    <3>1. PlannerLoads(Of("planner")) /\ env["planner"] \in Envs
      BY DEF CInv, TypeOK, EnvInv, ReplyInv, Running, Sides
    <3> HIDE DEF n, p, start, end, x
    <3>2. Of("planner").speed \in Angles /\ Of("planner").accel \in Angles
      BY ONLY <3>1, ConfigType DEF Of
    <3>3. v \in Int /\ a \in Int
      BY ONLY <3>2, j \in Joints DEF Angles
    <3>4. v > 0 /\ a > 0
      BY ONLY <3>1, j \in Joints DEF PlannerLoads
    <3> QED
      BY ONLY <3>3, <3>4
  <2>4. /\ reply.samples = JointPolyTraj(start, end, n)
        /\ LongEnough(p * n, start, end, Of("planner"))
    BY DEF CInv, ReplyInv
  <2>5. Allows(p, n, v, a, start[j], end[j])
    BY <2>4 DEF LongEnough, Allows
  <2>6. Quintic(x, start[j], end[j], n)
    BY <2>4 DEF JointPolyTraj, Quintic
  <2> HIDE DEF n, p, start, end, v, a, x
  <2>7. start[j] \in Int /\ end[j] \in Int /\ n \in Nat \ {0}
    BY <2>1, <2>2 DEF Angles
  <2>8. Calm(x, n, p, v, a)
    BY <2>1, <2>3, <2>5, <2>6, <2>7, JointPeaks
  <2>9. \A i \in 0..n : x[i] = reply.samples[i][j]
    BY DEF x
  <2> QED
    BY <2>7, <2>8, <2>9 DEF Calm, n, p, v, a
<1> QED
  BY Invariance, <1>1, PTL
=============================================================================
