-------------------------- MODULE SortingLoopProofs --------------------------
(***************************************************************************)
(* SInv is an inductive invariant of the sorting loop; from it follow that  *)
(* no object is lost or counted twice (CountIsTrue), and that a task that   *)
(* nothing disturbs sorts its whole scene (SceneIsSorted).                  *)
(*                                                                          *)
(* The balance of the objects is kept by every step because a frame is      *)
(* never refused once it counts: a module asks for its session first        *)
(* (RegisterInv), and every frame of a loop names its task (TaskInv).  That *)
(* an undisturbed task ends in order needs more: its loop is the only one,  *)
(* its task runs as long as anything of it is under way, and ends with the  *)
(* one scene it empties; where an object of it gets lost, it never ends     *)
(* (QuietInv).                                                              *)
(*                                                                          *)
(* Sums and numbers of frames are cardinalities: what a step does to them   *)
(* follows from the facts about finite sets, without induction.             *)
(***************************************************************************)
EXTENDS SortingLoop, SequenceTheorems, FiniteSetTheorems, TLAPS
-----------------------------------------------------------------------------
(* Frames on a wire                                                         *)

(* One for a frame of the type, none for another.                          *)
Is(f, type) == IF f.type = type THEN 1 ELSE 0

(* A wire carries a number of frames of a type.                            *)
LEMMA CarriedType ==
  ASSUME NEW S, NEW w \in Seq(S), NEW type
  PROVE  /\ IsFiniteSet({i \in DOMAIN w : w[i].type = type})
         /\ carried(w, type) \in Nat
<1>1. DOMAIN w = 1..Len(w) /\ Len(w) \in Nat
  BY LenProperties
<1>2. IsFiniteSet(1..Len(w))
  <2>1. 1 \in Int /\ Len(w) \in Int
    BY <1>1
  <2> QED
    BY <2>1, FS_Interval
<1>3. IsFiniteSet({i \in DOMAIN w : w[i].type = type})
  <2>1. {i \in DOMAIN w : w[i].type = type} \in SUBSET (1..Len(w))
    BY <1>1
  <2> QED
    BY <1>2, <2>1, FS_Subset
<1> QED
  BY <1>3, FS_CardinalityType DEF carried

(* A frame that is sent is carried after those that were.                  *)
LEMMA CarriedAppend ==
  ASSUME NEW S, NEW w \in Seq(S), NEW f \in S, NEW type
  PROVE  carried(Append(w, f), type) = carried(w, type) + Is(f, type)
<1> DEFINE v == Append(w, f)
           n == Len(w) + 1
           A == {i \in DOMAIN w : w[i].type = type}
           B == {i \in DOMAIN v : v[i].type = type}
<1>1. /\ DOMAIN w = 1..Len(w) /\ Len(w) \in Nat /\ DOMAIN v = 1..n
      /\ v[n] = f /\ \A i \in 1..Len(w) : v[i] = w[i]
  BY AppendProperties, LenProperties
<1>2. IsFiniteSet(A) /\ Cardinality(A) \in Nat
  BY CarriedType, FS_CardinalityType
<1>3. n \notin A /\ n \in Nat
  BY <1>1
<1>4. carried(w, type) = Cardinality(A) /\ carried(v, type) = Cardinality(B)
  BY DEF carried
<1> HIDE DEF v, n
<1>5. CASE f.type = type
  <2>1. B = A \cup {n}
    <3>1. \A i \in 1..n : i = n \/ i \in 1..Len(w)
      BY <1>1 DEF n
    <3>2. \A i \in 1..Len(w) : i \in 1..n
      BY <1>1 DEF n
    <3>3. n \in 1..n
      BY <1>1 DEF n
    <3> QED
      BY <1>1, <1>5, <3>1, <3>2, <3>3
  <2>2. Cardinality(A \cup {n}) = Cardinality(A) + 1
    BY <1>2, <1>3, FS_AddElement
  <2> HIDE DEF A, B
  <2> QED
    BY <1>2, <1>4, <1>5, <2>1, <2>2 DEF Is, v
<1>6. CASE f.type # type
  <2>1. B = A
    <3>1. \A i \in 1..n : i = n \/ i \in 1..Len(w)
      BY <1>1 DEF n
    <3>2. \A i \in 1..Len(w) : i \in 1..n
      BY <1>1 DEF n
    <3> QED
      BY <1>1, <1>6, <3>1, <3>2
  <2> HIDE DEF A, B
  <2> QED
    BY <1>2, <1>4, <1>6, <2>1 DEF Is, v
<1> QED
  BY <1>5, <1>6

(* And one that is read is carried no more.                                *)
LEMMA CarriedTail ==
  ASSUME NEW S, NEW w \in Seq(S), w # <<>>, NEW type
  PROVE  carried(w, type) = carried(Tail(w), type) + Is(Head(w), type)
<1> DEFINE v == Tail(w)
           n == Len(w)
           A == {i \in DOMAIN w : w[i].type = type}
           B == {i \in DOMAIN v : v[i].type = type}
           C == {i \in 2..n : w[i].type = type}
           g == [i \in B |-> i + 1]
<1>1. /\ n \in Nat /\ n # 0 /\ DOMAIN w = 1..n /\ DOMAIN v = 1..(n - 1) /\ v \in Seq(S)
      /\ Head(w) = w[1] /\ \A i \in 1..(n - 1) : v[i] = w[i + 1]
  BY HeadTailProperties, LenProperties, EmptySeq
<1>3. carried(w, type) = Cardinality(A) /\ carried(v, type) = Cardinality(B)
  BY DEF carried
<1> HIDE DEF v, n
<1>2. IsFiniteSet(B) /\ Cardinality(B) \in Nat
  <2>1. v \in Seq(S)
    BY <1>1
  <2>2. IsFiniteSet(B)
    BY ONLY <2>1, CarriedType
  <2> QED
    BY <2>2, FS_CardinalityType
<1>4. g \in Bijection(B, C)
  <2>1. \A i \in B : i \in Nat /\ i + 1 \in C
    BY <1>1
  <2>2. g \in [B -> C]
    BY <2>1
  <2>3. \A i, k \in B : g[i] = g[k] => i = k
    BY <2>1
  <2>4. \A c \in C : \E i \in B : g[i] = c
    <3> TAKE c \in C
    <3>1. c - 1 \in B /\ c - 1 + 1 = c
      BY <1>1
    <3>2. g[c - 1] = c
      BY <3>1
    <3> QED
      BY <3>1, <3>2
  <2> HIDE DEF B, C, g
  <2> QED
    BY <2>2, <2>3, <2>4 DEF Bijection, Injection, Surjection, IsInjective
<1>5. IsFiniteSet(C) /\ Cardinality(C) = Cardinality(B)
  <2>1. ExistsBijection(B, C)
    BY <1>4 DEF ExistsBijection
  <2> QED
    BY <1>2, <2>1, FS_Bijection
<1>6. CASE w[1].type = type
  <2>1. A = C \cup {1} /\ 1 \notin C
    BY <1>1, <1>6
  <2>2. Cardinality(C \cup {1}) = Cardinality(C) + 1
    BY <1>5, <2>1, FS_AddElement
  <2> HIDE DEF A, B, C
  <2> QED
    BY <1>1, <1>2, <1>3, <1>5, <1>6, <2>1, <2>2 DEF Is, v
<1>7. CASE w[1].type # type
  <2>1. A = C
    BY <1>1, <1>7
  <2> HIDE DEF A, B, C
  <2> QED
    BY <1>1, <1>2, <1>3, <1>5, <1>7, <2>1 DEF Is, v
<1> QED
  BY <1>6, <1>7

(* A wire without frames of a type has none.                               *)
LEMMA CarriedNone ==
  ASSUME NEW S, NEW w \in Seq(S), NEW type, carried(w, type) = 0
  PROVE  \A f \in Range(w) : f.type # type
<1> DEFINE A == {i \in DOMAIN w : w[i].type = type}
<1>1. IsFiniteSet(A) /\ Cardinality(A) = 0
  BY CarriedType DEF carried
<1>2. A = {}
  BY <1>1, FS_EmptySet
<1> QED
  BY <1>2 DEF Range

(* What is on a wire after a frame is sent, or read.                       *)
LEMMA RangeAppend ==
  ASSUME NEW S, NEW w \in Seq(S), NEW f \in S
  PROVE  Append(w, f) \in Seq(S) /\ Range(Append(w, f)) = Range(w) \cup {f}
<1>1. /\ Append(w, f) \in Seq(S)
      /\ DOMAIN w = 1..Len(w) /\ Len(w) \in Nat
      /\ DOMAIN Append(w, f) = 1..(Len(w) + 1)
      /\ Append(w, f)[Len(w) + 1] = f /\ \A i \in 1..Len(w) : Append(w, f)[i] = w[i]
  BY AppendProperties, LenProperties
<1>2. \A i \in 1..(Len(w) + 1) : i = Len(w) + 1 \/ i \in 1..Len(w)
  BY <1>1
<1>3. \A i \in 1..Len(w) : i \in 1..(Len(w) + 1)
  BY <1>1
<1>4. Len(w) + 1 \in 1..(Len(w) + 1)
  BY <1>1
<1> QED
  BY <1>1, <1>2, <1>3, <1>4 DEF Range

(* The frame that is read was on the wire, and so are those that are left. *)
LEMMA RangeTail ==
  ASSUME NEW S, NEW w \in Seq(S), w # <<>>
  PROVE  /\ Head(w) \in S /\ Tail(w) \in Seq(S)
         /\ Head(w) \in Range(w) /\ Range(Tail(w)) \subseteq Range(w)
<1> DEFINE v == Tail(w)
           n == Len(w)
<1>1. /\ n \in Nat /\ n # 0 /\ DOMAIN w = 1..n /\ DOMAIN v = 1..(n - 1) /\ v \in Seq(S)
      /\ Head(w) \in S /\ Head(w) = w[1] /\ \A i \in 1..(n - 1) : v[i] = w[i + 1]
  BY HeadTailProperties, LenProperties, EmptySeq
<1> HIDE DEF v, n
<1>2. 1 \in 1..n /\ \A i \in 1..(n - 1) : i + 1 \in 1..n
  BY <1>1
<1>3. Head(w) \in Range(w)
  BY <1>1, <1>2 DEF Range
<1>4. Range(v) \subseteq Range(w)
  BY <1>1, <1>2 DEF Range
<1> QED
  BY <1>1, <1>3, <1>4 DEF v

(* A register stays ahead of what is sent after it, and of what counts as   *)
(* long as it is not read.                                                 *)
LEMMA LateAppend ==
  ASSUME NEW S, NEW w \in Seq(S), NEW f \in S, Late(w),
         f.type \notin Weighty \/ Announced(w)
  PROVE  /\ Late(Append(w, f))
         /\ Announced(Append(w, f)) <=> Announced(w) \/ f.type = "register"
<1> DEFINE v == Append(w, f)
           n == Len(w)
<1>1. /\ DOMAIN w = 1..n /\ n \in Nat /\ DOMAIN v = 1..(n + 1)
      /\ v[n + 1] = f /\ \A i \in 1..n : v[i] = w[i]
  BY AppendProperties, LenProperties
<1> HIDE DEF v, n
<1>2. /\ \A i \in 1..(n + 1) : i = n + 1 \/ i \in 1..n
      /\ \A i \in 1..n : i \in 1..(n + 1) /\ \A k \in 1..i : k \in 1..n
      /\ n + 1 \in 1..(n + 1)
  BY <1>1
<1>3. Announced(v) <=> Announced(w) \/ f.type = "register"
  BY <1>1, <1>2 DEF Announced
<1>4. Late(v)
  <2> SUFFICES ASSUME NEW i \in 1..(n + 1), v[i].type \in Weighty
               PROVE  \E k \in 1..i : v[k].type = "register"
    BY <1>1 DEF Late
  <2>1. CASE i = n + 1
    BY <1>1, <1>2, <2>1 DEF Announced
  <2>2. CASE i \in 1..n
    BY <1>1, <1>2, <2>2 DEF Late
  <2> QED
    BY <1>2, <2>1, <2>2
<1> QED
  BY <1>3, <1>4 DEF v

(* Nothing that counts is ahead of the register.                           *)
LEMMA LateTail ==
  ASSUME NEW S, NEW w \in Seq(S), w # <<>>, Late(w), Head(w).type # "register"
  PROVE  /\ Head(w).type \notin Weighty
         /\ Late(Tail(w))
         /\ Announced(w) <=> Announced(Tail(w))
<1> DEFINE v == Tail(w)
           n == Len(w)
<1>1. /\ n \in Nat /\ n # 0 /\ DOMAIN w = 1..n /\ DOMAIN v = 1..(n - 1)
      /\ Head(w) = w[1] /\ \A i \in 1..(n - 1) : v[i] = w[i + 1]
  BY HeadTailProperties, LenProperties, EmptySeq
<1> HIDE DEF v, n
<1>2. w[1].type \notin Weighty
  <2>1. \A k \in 1..1 : k = 1
    OBVIOUS
  <2> QED
    BY <1>1, <2>1 DEF Late
<1>3. ASSUME NEW i \in 1..n, NEW k \in 1..i, w[k].type = "register"
      PROVE  k - 1 \in 1..(i - 1) /\ k - 1 \in 1..(n - 1) /\ v[k - 1].type = "register"
  <2>1. k # 1
    BY <1>1, <1>3
  <2>2. k - 1 \in 1..(i - 1) /\ k - 1 \in 1..(n - 1) /\ k - 1 + 1 = k
    BY <1>1, <2>1
  <2>3. v[k - 1] = w[k - 1 + 1]
    BY <1>1, <2>2
  <2> QED
    BY <1>3, <2>2, <2>3
<1>4. Late(v)
  <2> SUFFICES ASSUME NEW i \in 1..(n - 1), v[i].type \in Weighty
               PROVE  \E k \in 1..i : v[k].type = "register"
    BY <1>1 DEF Late
  <2>1. i + 1 \in 1..n /\ v[i] = w[i + 1] /\ i + 1 - 1 = i
    BY <1>1
  <2>2. PICK k \in 1..(i + 1) : w[k].type = "register"
    BY <1>1, <2>1 DEF Late
  <2> QED
    BY <1>3, <2>1, <2>2
<1>6. Announced(v) => Announced(w)
  <2>1. \A i \in 1..(n - 1) : i + 1 \in 1..n
    BY <1>1
  <2> QED
    BY <1>1, <2>1 DEF Announced
<1>5. Announced(w) => Announced(v)
  <2> SUFFICES ASSUME NEW k \in 1..n, w[k].type = "register"
               PROVE  Announced(v)
    BY <1>1 DEF Announced
  <2>1. k \in 1..k
    OBVIOUS
  <2>2. k - 1 \in 1..(n - 1) /\ v[k - 1].type = "register"
    BY <1>3, <2>1
  <2> QED
    BY <1>1, <2>2 DEF Announced
<1> QED
  BY <1>1, <1>2, <1>4, <1>5, <1>6 DEF v
-----------------------------------------------------------------------------
(* The sum of the counts                                                    *)

(* The objects counted for a task, and for all.                            *)
Tally(c, n) == {n} \X (1..c[n])
Tallies(c)  == UNION {Tally(c, n) : n \in Names}

(* A task has finitely many objects, as many as it counts.                 *)
LEMMA TallyFinite ==
  ASSUME NEW c \in [Names -> Nat], NEW n \in Names
  PROVE  IsFiniteSet(Tally(c, n)) /\ Cardinality(Tally(c, n)) = c[n]
<1>1. 1 \in Int /\ c[n] \in Nat
  OBVIOUS
<1>2. IsFiniteSet(1..c[n]) /\ Cardinality(1..c[n]) = c[n]
  BY <1>1, FS_Interval
<1>3. IsFiniteSet({n}) /\ Cardinality({n}) = 1
  BY FS_Singleton
<1>4. /\ IsFiniteSet({n} \X (1..c[n]))
      /\ Cardinality({n} \X (1..c[n])) = Cardinality({n}) * Cardinality(1..c[n])
  BY ONLY <1>2, <1>3, FS_Product
<1> QED
  BY <1>1, <1>2, <1>3, <1>4 DEF Tally

(* There are finitely many in all, too.                                   *)
LEMMA TalliesFinite ==
  ASSUME NEW c \in [Names -> Nat]
  PROVE  IsFiniteSet(Tallies(c)) /\ Cardinality(Tallies(c)) \in Nat
<1> DEFINE g == [n \in Names |-> Tally(c, n)]
           T == {Tally(c, n) : n \in Names}
<1>1. IsFiniteSet(T)
  <2>1. g \in Surjection(Names, T)
    BY DEF Surjection
  <2> QED
    BY <2>1, FS_Surjection, LoopAssumption
<1>2. \A A \in T : IsFiniteSet(A)
  BY TallyFinite
<1>3. IsFiniteSet(Tallies(c))
  BY <1>1, <1>2, FS_UNION DEF Tallies
<1> QED
  BY <1>3, FS_CardinalityType

(* An object more for one task is one more in all.                         *)
LEMMA OneMore ==
  ASSUME NEW c \in [Names -> Nat], NEW n \in Names
  PROVE  LET d == [c EXCEPT ![n] = @ + 1]
         IN  Cardinality(Tallies(d)) = Cardinality(Tallies(c)) + 1
<1> DEFINE d == [c EXCEPT ![n] = @ + 1]
           x == <<n, c[n] + 1>>
<1>1. x \notin Tallies(c)
  BY DEF Tallies, Tally
<1>2. Tallies(d) = Tallies(c) \cup {x}
  <2>1. ASSUME NEW k \in Names, k # n
        PROVE  Tally(d, k) = Tally(c, k)
    BY <2>1 DEF Tally
  <2>2. Tally(d, n) = Tally(c, n) \cup {x}
    <3>1. d[n] = c[n] + 1 /\ c[n] \in Nat
      OBVIOUS
    <3>2. 1..d[n] = (1..c[n]) \cup {c[n] + 1}
      BY <3>1
    <3> HIDE DEF d
    <3> QED
      BY <3>2 DEF Tally
  <2> HIDE DEF d, x
  <2> QED
    BY <2>1, <2>2 DEF Tallies
<1>3. Cardinality(Tallies(c) \cup {x}) = Cardinality(Tallies(c)) + 1
  BY <1>1, TalliesFinite, FS_AddElement
<1> QED
  BY <1>2, <1>3

(* A task that starts anew takes its count with it.                        *)
LEMMA StartedAnew ==
  ASSUME NEW c \in [Names -> Nat], NEW n \in Names
  PROVE  LET d == [c EXCEPT ![n] = 0]
         IN  Cardinality(Tallies(d)) = Cardinality(Tallies(c)) - c[n]
<1> DEFINE d == [c EXCEPT ![n] = 0]
<1>1. Tallies(d) = Tallies(c) \ Tally(c, n)
  <2>1. ASSUME NEW k \in Names, k # n
        PROVE  Tally(d, k) = Tally(c, k) \ Tally(c, n)
    BY <2>1 DEF Tally
  <2>2. Tally(d, n) = {}
    <3>1. d[n] = 0 /\ 1..0 = {}
      OBVIOUS
    <3> HIDE DEF d
    <3> QED
      BY <3>1 DEF Tally
  <2> HIDE DEF d
  <2> QED
    BY <2>1, <2>2 DEF Tallies
<1>2. Tallies(c) \cap Tally(c, n) = Tally(c, n)
  BY DEF Tallies
<1>3. /\ Cardinality(Tallies(c) \ Tally(c, n))
           = Cardinality(Tallies(c)) - Cardinality(Tallies(c) \cap Tally(c, n))
      /\ Cardinality(Tally(c, n)) = c[n]
  BY TalliesFinite, TallyFinite, FS_Difference
<1> QED
  BY <1>1, <1>2, <1>3

(* Where only one task has a count, it is the sum.                         *)
LEMMA OnlyOne ==
  ASSUME NEW c \in [Names -> Nat], NEW n \in Names,
         \A k \in Names : k # n => c[k] = 0
  PROVE  Cardinality(Tallies(c)) = c[n]
<1>1. \A k \in Names : k # n => Tally(c, k) = {}
  <2>1. 1..0 = {}
    OBVIOUS
  <2> QED
    BY <2>1 DEF Tally
<1>2. Tallies(c) = Tally(c, n)
  BY <1>1 DEF Tallies
<1> QED
  BY <1>2, TallyFinite

(* total is the sum.                                                       *)
LEMMA TotalIs == total = Cardinality(Tallies(count))
BY DEF total, Tallies, Tally

(* The sum is a number.                                                    *)
LEMMA TotalType ==
  ASSUME count \in [Names -> Nat]
  PROVE  total \in Nat
BY TotalIs, TalliesFinite
-----------------------------------------------------------------------------
(* What the steps do to the wires                                           *)

(* The names of the modules, and of the types.                             *)
LEMMA UpTypesAre ==
  UpTypes = {"garbage", "foreign", "nameless", "register", "task_start", "error_report", "stop",
             "detection", "empty", "placed", "not_placed", "planned"}
BY DEF UpTypes, Noise, Modules, allowed, reports

(* Wires to and from all modules; a frame more, or less, on that of m.     *)
Wires(d, S)         == d \in [Modules -> Seq(S)]
More(d, e, m, f)    == /\ \A k \in Modules : k # m => e[k] = d[k]
                       /\ e[m] = Append(d[m], f)
Less(d, e, m)       == /\ \A k \in Modules : k # m => e[k] = d[k]
                       /\ d[m] # <<>> /\ e[m] = Tail(d[m])

(* A wire with a frame more is a wire.                                     *)
LEMMA MoreFrames ==
  ASSUME NEW S, NEW d, Wires(d, S), NEW m \in Modules, NEW f \in S
  PROVE  LET e == [d EXCEPT ![m] = Append(@, f)]
         IN  Wires(e, S) /\ More(d, e, m, f)
<1>1. Append(d[m], f) \in Seq(S)
  BY RangeAppend DEF Wires
<1> QED
  BY <1>1 DEF Wires, More

(* So is one with a frame less.                                            *)
LEMMA LessFrames ==
  ASSUME NEW S, NEW d, Wires(d, S), NEW m \in Modules, d[m] # <<>>
  PROVE  LET e == [d EXCEPT ![m] = Tail(@)]
         IN  Wires(e, S) /\ Less(d, e, m)
<1>1. Tail(d[m]) \in Seq(S)
  BY RangeTail DEF Wires
<1> QED
  BY <1>1 DEF Wires, Less

(* A frame that is sent is counted, and no other.                                  *)
LEMMA MoreMeans ==
  ASSUME NEW S, NEW d, Wires(d, S), NEW e, NEW m \in Modules, NEW f \in S,
         More(d, e, m, f), NEW k \in Modules
  PROVE  /\ \A type : carried(d[k], type) \in Nat
         /\ \A type : carried(e[k], type)
                        = carried(d[k], type) + (IF k = m THEN Is(f, type) ELSE 0)
         /\ Range(e[k]) = Range(d[k]) \cup (IF k = m THEN {f} ELSE {})
<1>1. d[k] \in Seq(S)
  BY DEF Wires
<1>2. \A type : carried(d[k], type) \in Nat
  BY <1>1, CarriedType
<1>3. CASE k = m
  <2>1. \A type : carried(Append(d[k], f), type) = carried(d[k], type) + Is(f, type)
    BY <1>1, CarriedAppend
  <2>2. Range(Append(d[k], f)) = Range(d[k]) \cup {f}
    BY <1>1, RangeAppend
  <2> QED
    BY <1>2, <1>3, <2>1, <2>2 DEF More
<1>4. CASE k # m
  <2>1. e[k] = d[k]
    BY <1>4 DEF More
  <2>2. \A type : carried(d[k], type) + 0 = carried(d[k], type)
    BY <1>2
  <2> QED
    BY <1>2, <1>4, <2>1, <2>2
<1> QED
  BY <1>3, <1>4

(* A frame that is read was counted, and no other was.                     *)
LEMMA LessMeans ==
  ASSUME NEW S, NEW d, Wires(d, S), NEW e, Wires(e, S), NEW m \in Modules,
         Less(d, e, m), NEW k \in Modules
  PROVE  /\ \A type : carried(d[k], type) \in Nat /\ carried(e[k], type) \in Nat
         /\ \A type : carried(d[k], type)
                        = carried(e[k], type) + (IF k
                          = m THEN Is(Head(d[m]), type) ELSE 0)
         /\ Range(e[k]) \subseteq Range(d[k])
         /\ Head(d[m]) \in Range(d[m]) /\ Head(d[m]) \in S
<1>1. d[k] \in Seq(S) /\ e[k] \in Seq(S) /\ d[m] \in Seq(S) /\ d[m] # <<>>
  BY DEF Wires, Less
<1>2. \A type : carried(d[k], type) \in Nat /\ carried(e[k], type) \in Nat
  BY <1>1, CarriedType
<1>3. Head(d[m]) \in Range(d[m]) /\ Head(d[m]) \in S
  BY <1>1, RangeTail
<1>4. CASE k = m
  <2>1. \A type : carried(d[k], type) = carried(Tail(d[k]), type) + Is(Head(d[k]), type)
    BY <1>1, <1>4, CarriedTail
  <2>2. Range(Tail(d[k])) \subseteq Range(d[k])
    BY <1>1, <1>4, RangeTail
  <2> QED
    BY <1>2, <1>3, <1>4, <2>1, <2>2 DEF Less
<1>5. CASE k # m
  <2>1. e[k] = d[k]
    BY <1>5 DEF Less
  <2>2. \A type : carried(d[k], type) + 0 = carried(d[k], type)
    BY <1>2
  <2> QED
    BY <1>2, <1>3, <1>5, <2>1, <2>2
<1> QED
  BY <1>4, <1>5

(* The wires of the model have their types.                                *)
LEMMA WireTypes ==
  ASSUME TypeOK
  PROVE  /\ Wires(up, UpFrames) /\ Wires(down, DownFrames)
         /\ Started \in Nat /\ Wanted \in Nat /\ Detected \in Nat /\ Emptied \in Nat
         /\ Ordered \in Nat /\ Placed \in Nat /\ Missed \in Nat
<1>1. Wires(up, UpFrames) /\ Wires(down, DownFrames)
  BY DEF TypeOK, Wires
<1>2. \A m \in Modules : up[m] \in Seq(UpFrames) /\ down[m] \in Seq(DownFrames)
  BY <1>1 DEF Wires
<1>3. \A m \in Modules : \A type : /\ carried(up[m], type) \in Nat
                                   /\ carried(down[m], type) \in Nat
  BY <1>2, CarriedType
<1> QED
  BY <1>1, <1>3 DEF Modules, Started, Wanted, Detected, Emptied, Ordered, Placed, Missed

(* The same after a step.                                                  *)
LEMMA WireTypesNext ==
  ASSUME TypeOK'
  PROVE  /\ Started' \in Nat /\ Wanted' \in Nat /\ Detected' \in Nat /\ Emptied' \in Nat
         /\ Ordered' \in Nat /\ Placed' \in Nat /\ Missed' \in Nat
<1>1. \A m \in Modules : up'[m] \in Seq(UpFrames) /\ down'[m] \in Seq(DownFrames)
  BY DEF TypeOK
<1>2. \A m \in Modules : \A type : /\ carried(up'[m], type) \in Nat
                                   /\ carried(down'[m], type) \in Nat
  BY <1>1, CarriedType
<1> QED
  BY <1>2 DEF Modules, Started, Wanted, Detected, Emptied, Ordered, Placed, Missed

(* A frame that a client sends ...                                         *)
LEMMA UpMore ==
  ASSUME TypeOK, NEW m \in Modules, NEW f \in UpFrames, Sends(m, f)
  PROVE  /\ Wires(up', UpFrames) /\ More(up, up', m, f)
         /\ Started' = Started + (IF m = "frontend" THEN Is(f, "task_start") ELSE 0)
         /\ Detected' = Detected + (IF m = "algorithm" THEN Is(f, "detection") ELSE 0)
         /\ Emptied' = Emptied + (IF m = "algorithm" THEN Is(f, "empty") ELSE 0)
         /\ Placed' = Placed + (IF m = "motion" THEN Is(f, "placed") ELSE 0)
         /\ Missed' = Missed + (IF m = "motion" THEN Is(f, "not_placed") ELSE 0)
         /\ \A k \in Modules : Range(up'[k])
              = Range(up[k]) \cup (IF k = m THEN {f} ELSE {})
<1>1. Wires(up, UpFrames)
  BY WireTypes
<1>2. Wires(up', UpFrames) /\ More(up, up', m, f)
  BY <1>1, MoreFrames DEF Sends
<1>3. \A k \in Modules :
        /\ \A type : carried(up'[k], type)
                       = carried(up[k], type) + (IF k = m THEN Is(f, type) ELSE 0)
        /\ Range(up'[k]) = Range(up[k]) \cup (IF k = m THEN {f} ELSE {})
  BY <1>1, <1>2, MoreMeans
<1> QED
  BY <1>2, <1>3 DEF Modules, Started, Detected, Emptied, Placed, Missed

(* ... and that the server reads.                                          *)
LEMMA UpLess ==
  ASSUME TypeOK, NEW m \in Modules, NEW types, Reads(m, types)
  PROVE  /\ Wires(up', UpFrames) /\ Less(up, up', m)
         /\ Head(up[m]).type \in types /\ Head(up[m]) \in UpFrames
         /\ Head(up[m]) \in Range(up[m])
         /\ Started
              = Started' + (IF m = "frontend" THEN Is(Head(up[m]), "task_start") ELSE 0)
         /\ Detected
              = Detected' + (IF m = "algorithm" THEN Is(Head(up[m]), "detection") ELSE 0)
         /\ Emptied = Emptied' + (IF m = "algorithm" THEN Is(Head(up[m]), "empty") ELSE 0)
         /\ Placed = Placed' + (IF m = "motion" THEN Is(Head(up[m]), "placed") ELSE 0)
         /\ Missed = Missed' + (IF m = "motion" THEN Is(Head(up[m]), "not_placed") ELSE 0)
         /\ \A k \in Modules : Range(up'[k]) \subseteq Range(up[k])
<1>1. Wires(up, UpFrames) /\ up[m] # <<>> /\ Head(up[m]).type \in types
  BY WireTypes DEF Reads
<1>2. Wires(up', UpFrames) /\ Less(up, up', m)
  BY <1>1, LessFrames DEF Reads
<1>3. Head(up[m]) \in UpFrames /\ Head(up[m]) \in Range(up[m])
  BY <1>1, <1>2, LessMeans
<1>4. \A k \in Modules :
        /\ \A type : carried(up[k], type)
                       = carried(up'[k], type) + (IF k
                         = m THEN Is(Head(up[m]), type) ELSE 0)
        /\ Range(up'[k]) \subseteq Range(up[k])
  BY <1>1, <1>2, LessMeans
<1> QED
  BY <1>1, <1>2, <1>3, <1>4 DEF Modules, Started, Detected, Emptied, Placed, Missed

(* A frame that a client reads, ...                                        *)
LEMMA DownLess ==
  ASSUME TypeOK, NEW m \in Modules, NEW types, ClientReads(m, types)
  PROVE  /\ Wires(down', DownFrames)
         /\ Head(down[m]).type \in types /\ Head(down[m]) \in DownFrames
         /\ Head(down[m]) \in Range(down[m])
         /\ Wanted
              = Wanted' + (IF m = "algorithm" THEN Is(Head(down[m]), "capture_cmd") ELSE 0)
         /\ Ordered
              = Ordered' + (IF m = "motion" THEN Is(Head(down[m]), "grasp_command") ELSE 0)
         /\ \A k \in Modules : Range(down'[k]) \subseteq Range(down[k])
<1>1. Wires(down, DownFrames) /\ down[m] # <<>> /\ Head(down[m]).type \in types
  BY WireTypes DEF ClientReads
<1>2. Wires(down', DownFrames) /\ Less(down, down', m)
  BY <1>1, LessFrames DEF ClientReads
<1>3. Head(down[m]) \in DownFrames /\ Head(down[m]) \in Range(down[m])
  BY <1>1, <1>2, LessMeans
<1>4. \A k \in Modules :
        /\ \A type : carried(down[k], type)
                       = carried(down'[k], type) + (IF k
                         = m THEN Is(Head(down[m]), type) ELSE 0)
        /\ Range(down'[k]) \subseteq Range(down[k])
  BY <1>1, <1>2, LessMeans
<1> QED
  BY <1>1, <1>2, <1>3, <1>4 DEF Modules, Wanted, Ordered

(* ... and that the server answers with, which is never of a loop.         *)
LEMMA DownAnswer ==
  ASSUME TypeOK, NEW m \in Modules,
         NEW type \in {"register_ack", "error_report", "stray_report"}, Answer(m, type)
  PROVE  /\ Wires(down', DownFrames) /\ Wanted' = Wanted /\ Ordered' = Ordered
         /\ \A k \in Modules : Range(down'[k]) \subseteq Range(down[k]) \cup {Plain(type)}
<1>1. Wires(down, DownFrames)
  BY WireTypes
<1>2. Plain(type) \in DownFrames /\ Plain(type).type = type
  BY DEF Plain, Frame, DownFrames, DownTypes
<1>3. Wires(down', DownFrames) /\ More(down, down', m, Plain(type))
  BY <1>1, <1>2, MoreFrames DEF Answer
<1>4. \A k \in Modules :
        /\ \A t : carried(down[k], t) \in Nat
        /\ \A t : carried(down'[k], t)
                    = carried(down[k], t) + (IF k = m THEN Is(Plain(type), t) ELSE 0)
        /\ Range(down'[k]) = Range(down[k]) \cup (IF k = m THEN {Plain(type)} ELSE {})
  BY <1>1, <1>2, <1>3, MoreMeans
<1>5. Is(Plain(type), "capture_cmd") = 0 /\ Is(Plain(type), "grasp_command") = 0
  BY <1>2 DEF Is
<1> QED
  BY <1>3, <1>4, <1>5 DEF Modules, Wanted, Ordered

(* send_to adds a frame to the wire of a registered module, and to no other. *)
LEMMA WireMeans ==
  ASSUME NEW d, Wires(d, DownFrames), NEW m \in Modules, NEW f \in DownFrames
  PROVE  /\ Wires(wire(m, f, d), DownFrames)
         /\ m \in registered =>
              \A type : carried(wire(m, f, d)[m], type)
                = carried(d[m], type) + Is(f, type)
         /\ \A k \in Modules : k # m \/ m \notin registered => wire(m, f, d)[k] = d[k]
         /\ \A k \in Modules : Range(wire(m, f, d)[k]) \subseteq Range(d[k]) \cup {f}
<1> DEFINE v == wire(m, f, d)
<1>1. CASE m \in registered
  <2>1. Wires(v, DownFrames) /\ More(d, v, m, f)
    BY <1>1, MoreFrames DEF wire
  <2> HIDE DEF v
  <2>2. \A type : carried(v[m], type) = carried(d[m], type) + Is(f, type)
    BY <2>1, MoreMeans
  <2>3. \A k \in Modules : Range(v[k]) \subseteq Range(d[k]) \cup {f}
    BY <2>1, MoreMeans
  <2>4. \A k \in Modules : k # m => v[k] = d[k]
    BY <2>1 DEF More
  <2> QED
    BY <1>1, <2>1, <2>2, <2>3, <2>4 DEF v
<1>2. CASE m \notin registered
  <2>1. v = d
    BY <1>2 DEF wire
  <2> QED
    BY <1>2, <2>1
<1> QED
  BY <1>1, <1>2
-----------------------------------------------------------------------------
(* The parts of the invariant                                               *)

(* CountIsTrue without the types.                                          *)
Balanced == scenes * MockTotal + (MockTotal - remaining) + forged
              = total + retired + left + inFlight

(* Frames that name their task may join those that do.                     *)
LEMMA TaskKept ==
  ASSUME TaskInv,
         \A k \in Modules : \A g \in Range(up'[k]) \cup Range(down'[k]) :
           \/ g \in Range(up[k]) \cup Range(down[k])
           \/ g.type \in Tasked => g.task \in Names
  PROVE  TaskInv'
BY DEF TaskInv

(* A client that sends what counts has sent its register before.           *)
LEMMA RegisterSend ==
  ASSUME TypeOK, RegisterInv, NEW m \in Modules, NEW f \in UpFrames, Sends(m, f),
         registered' = registered,
         \/ joined' = joined /\ f.type # "register"
         \/ joined' = joined \cup {m} /\ f.type = "register",
         f.type \notin Weighty \/ m \in joined
  PROVE  \A k \in Modules \ registered' : /\ Late(up'[k])
                                          /\ k \in joined' <=> Announced(up'[k])
<1> SUFFICES ASSUME NEW k \in Modules, k \notin registered
             PROVE  Late(up'[k]) /\ (k \in joined' <=> Announced(up'[k]))
  OBVIOUS
<1>1. up[k] \in Seq(UpFrames) /\ Late(up[k]) /\ (k \in joined <=> Announced(up[k]))
  BY WireTypes DEF RegisterInv, Wires
<1>2. More(up, up', m, f)
  BY UpMore
<1>3. CASE k = m
  <2>1. up'[k] = Append(up[k], f)
    BY <1>2, <1>3 DEF More
  <2>2. f.type \notin Weighty \/ Announced(up[k])
    BY <1>1, <1>3
  <2>3. /\ Late(Append(up[k], f))
        /\ Announced(Append(up[k], f)) <=> Announced(up[k]) \/ f.type = "register"
    BY <1>1, <2>2, LateAppend
  <2> QED
    BY <1>1, <1>3, <2>1, <2>3
<1>4. CASE k # m
  BY <1>1, <1>2, <1>4 DEF More
<1> QED
  BY <1>3, <1>4

(* Before the register is read, nothing that counts is.                    *)
LEMMA RegisterRead ==
  ASSUME TypeOK, RegisterInv, NEW m \in Modules, NEW types, Reads(m, types),
         \/ registered' = registered /\ "register" \notin types
         \/ registered' = registered \cup {m} /\ Head(up[m]).type = "register"
  PROVE  /\ \A k \in Modules \ registered' : /\ Late(up'[k])
                                             /\ k \in joined' <=> Announced(up'[k])
         /\ m \notin registered' => Head(up[m]).type \notin Weighty
         /\ registered' \subseteq joined'
<1>1. Less(up, up', m) /\ Head(up[m]).type \in types /\ joined' = joined
  BY UpLess DEF Reads, bounds
<1>2. ASSUME NEW k \in Modules, k \notin registered'
      PROVE  /\ Late(up'[k]) /\ (k \in joined' <=> Announced(up'[k]))
             /\ k = m => Head(up[m]).type \notin Weighty
  <2>1. /\ up[k] \in Seq(UpFrames) /\ Late(up[k])
        /\ k \in joined <=> Announced(up[k])
    BY <1>2, WireTypes DEF RegisterInv, Wires
  <2>2. CASE k = m
    <3>1. up[k] # <<>> /\ up'[k] = Tail(up[k]) /\ Head(up[k]).type # "register"
      BY <1>1, <1>2, <2>2 DEF Less
    <3>2. /\ Head(up[k]).type \notin Weighty
          /\ Late(Tail(up[k]))
          /\ Announced(up[k]) <=> Announced(Tail(up[k]))
      BY <2>1, <3>1, LateTail
    <3> QED
      BY <1>1, <2>1, <2>2, <3>1, <3>2
  <2>3. CASE k # m
    BY <1>1, <2>1, <2>3 DEF Less
  <2> QED
    BY <2>2, <2>3
<1>3. registered' \subseteq joined'
  <2>1. registered \subseteq joined
    BY DEF TypeOK
  <2>2. ASSUME m \notin registered, Head(up[m]).type = "register"
        PROVE  m \in joined
    <3>1. up[m] \in Seq(UpFrames) /\ up[m] # <<>>
      BY <1>1, WireTypes DEF Wires, Less
    <3>2. Announced(up[m])
      BY <2>2, <3>1, EmptySeq, HeadTailProperties, LenProperties DEF Announced
    <3> QED
      BY <2>2, <3>2 DEF RegisterInv
  <2> QED
    BY <1>1, <2>1, <2>2
<1> QED
  BY <1>2, <1>3

(* A frame of a loop that runs, or of none.                                *)
Harmless(g) == (g.type \in Tasked => Runs(g)) /\ g.type # "stop"

(* A loop that passes on, or stays away, stays the loop of its task.       *)
LEMMA QuietKept ==
  ASSUME TypeOK, TypeOK', QuietInv, state' = state, starts' = starts,
         starts <= 1 /\ noise' = 0 =>
           /\ noise = 0 /\ forged' = forged /\ retired' = retired
           /\ Started' <= Started /\ tokens' <= tokens
           /\ scenes' = Emptied' + (scenes - Emptied)
           /\ scenes' > 0 => remaining' = MockTotal
           /\ \A n \in Names : state[n] = "none" => count'[n] = 0
           /\ unplaced = left => unplaced' = left' \/ Broken'
           /\ \A k \in Modules :
                /\ \A g \in Range(up'[k]) : g \in Range(up[k]) \/ Harmless(g)
                /\ \A g \in Range(down'[k]) : g \in Range(down[k]) \/ Harmless(g)
  PROVE  QuietInv'
<1> SUFFICES ASSUME starts <= 1, noise' = 0
             PROVE  /\ forged' = 0 /\ retired' = 0 /\ tokens' <= starts
                    /\ \A m \in Modules : \A f \in Range(up'[m]) : f.type # "stop"
                    /\ starts = 0 \/ Started' > 0 => \A n \in Names : state[n] = "none"
                    /\ \A n \in Names : state[n] = "none" => count'[n] = 0
                    /\ \A n, k \in Names : state[n] # "none" /\ state[k] # "none" => n = k
                    /\ RunningInv'
                    /\ scenes' = Emptied' + IF Ended THEN 1 ELSE 0
                    /\ scenes' > 0 => remaining' = MockTotal
                    /\ Ended => tokens' = 0
                    /\ unplaced' = left' \/ (~Ended /\ tokens' = 0 /\ starts = 1)
  BY DEF QuietInv, Ended, Broken
<1>1. /\ forged = 0 /\ retired = 0 /\ tokens <= starts
      /\ \A m \in Modules : \A f \in Range(up[m]) : f.type # "stop"
      /\ starts = 0 \/ Started > 0 => \A n \in Names : state[n] = "none"
      /\ \A n, k \in Names : state[n] # "none" /\ state[k] # "none" => n = k
      /\ RunningInv
      /\ scenes = Emptied + IF Ended THEN 1 ELSE 0
      /\ Ended => tokens = 0
      /\ unplaced = left \/ (~Ended /\ tokens = 0 /\ starts = 1)
  BY DEF QuietInv, Broken
<1>2. /\ Started \in Nat /\ Started' \in Nat /\ tokens \in Nat /\ tokens' \in Nat
      /\ Emptied \in Nat /\ Emptied' \in Nat /\ starts \in Nat
  <2>1. tokens \in Nat /\ Started \in Nat /\ Emptied \in Nat
    BY WireTypes DEF tokens
  <2>3. starts \in Nat
    BY LoopAssumption DEF TypeOK
  <2>2. tokens' \in Nat /\ Started' \in Nat /\ Emptied' \in Nat
    BY WireTypesNext DEF tokens
  <2> QED
    BY <2>1, <2>2, <2>3
<1>3. RunningInv'
  <2>3. {"capture_cmd", "detection", "empty", "grasp_command", "placed", "not_placed"}
          \subseteq Tasked
    BY DEF Tasked
  <2> QED
    BY <1>1, <2>3 DEF RunningInv, Runs, Modules, Harmless
<1>4. \A m \in Modules : \A f \in Range(up'[m]) : f.type # "stop"
  BY <1>1 DEF Harmless
<1>5. /\ forged' = 0 /\ retired' = 0 /\ tokens' <= starts
      /\ Started' > 0 => Started > 0
      /\ scenes' = Emptied' + IF Ended THEN 1 ELSE 0
      /\ Ended => tokens' = 0
  BY <1>1, <1>2
<1>6. unplaced' = left' \/ (~Ended /\ tokens' = 0 /\ starts = 1)
  <2>1. CASE unplaced = left
    BY <2>1 DEF Broken, Ended
  <2>2. CASE ~Ended /\ tokens = 0 /\ starts = 1
    BY <1>2, <2>2
  <2> QED
    BY <1>1, <2>1, <2>2
<1> QED
  BY <1>1, <1>3, <1>4, <1>5, <1>6

(* What is counted is a number.                                            *)
LEMMA NumberTypes ==
  ASSUME TypeOK
  PROVE  /\ tokens \in Nat /\ inFlight \in Nat /\ total \in Nat /\ scenes \in Nat
         /\ retired \in Nat /\ left \in Nat /\ unplaced \in Nat
         /\ forged \in Nat /\ remaining \in 0..MockTotal
         /\ starts \in Nat /\ noise \in Nat /\ MockTotal \in Nat \ {0}
<1>1. tokens \in Nat /\ inFlight \in Nat
  BY WireTypes DEF tokens, inFlight
<1>2. total \in Nat
  BY TotalType DEF TypeOK
<1>3. starts \in Nat /\ noise \in Nat
  BY LoopAssumption DEF TypeOK
<1> QED
  BY <1>1, <1>2, <1>3, LoopAssumption DEF TypeOK

(* The invariant, part by part.                                            *)
LEMMA Parts == SInv <=> TypeOK /\ Balanced /\ TaskInv /\ RegisterInv /\ QuietInv
BY DEF SInv, CountIsTrue, Balanced

(* The same after a step, the types first.                                 *)
LEMMA PartsNext ==
  ASSUME TypeOK', Balanced', TaskInv', RegisterInv', QuietInv'
  PROVE  SInv'
BY DEF SInv, CountIsTrue, Balanced

(* Nothing is on its way, and nothing counted, at first.                   *)
LEMMA InitHolds == Init => SInv
<1> SUFFICES ASSUME Init
             PROVE  SInv
  OBVIOUS
<1>1. /\ \A m \in Modules : up[m] = <<>> /\ down[m] = <<>>
      /\ state = [n \in Names |-> "none"] /\ count = [n \in Names |-> 0]
      /\ remaining = MockTotal /\ scenes = 0 /\ retired = 0 /\ left = 0 /\ unplaced = 0
      /\ forged = 0 /\ starts = 0 /\ noise = 0 /\ joined = {} /\ registered = {}
  BY DEF Init
<1>2. TypeOK
  BY EmptySeq, LoopAssumption DEF Init, TypeOK
<1>3. \A type : carried(<<>>, type) = 0
  <2>1. \A type : {i \in DOMAIN <<>> : <<>>[i].type = type} = {}
    OBVIOUS
  <2> QED
    BY <2>1, FS_EmptySet DEF carried
<1>4. /\ Started = 0 /\ Wanted = 0 /\ Detected = 0 /\ Emptied = 0
      /\ Ordered = 0 /\ Placed = 0 /\ Missed = 0
  BY <1>1, <1>3 DEF Modules, Started, Wanted, Detected, Emptied, Ordered, Placed, Missed
<1>5. Range(<<>>) = {}
  BY DEF Range
<1>6. Balanced
  <2>1. count \in [Names -> Nat]
    BY <1>1
  <2>2. PICK n \in Names : TRUE
    BY LoopAssumption
  <2>3. Cardinality(Tallies(count)) = count[n]
    BY <1>1, <2>1, OnlyOne
  <2>4. total = 0
    BY <1>1, <2>3, TotalIs
  <2> QED
    BY <1>1, <1>4, <2>4, LoopAssumption DEF Balanced, inFlight
<1>7. TaskInv
  BY <1>1, <1>5 DEF TaskInv
<1>8. RegisterInv
  BY <1>1, <1>4 DEF RegisterInv, Late, Announced
<1>9. QuietInv
  <2>1. ~Ended /\ RunningInv
    BY <1>1, <1>5 DEF Ended, RunningInv, Modules
  <2>2. tokens = 0
    BY <1>4 DEF tokens
  <2> QED
    BY <1>1, <1>4, <1>5, <2>1, <2>2 DEF QuietInv, Modules
<1> QED
  BY <1>2, <1>6, <1>7, <1>8, <1>9, Parts

(* A frame that belongs to no loop changes nothing.                        *)
LEMMA IdleSend ==
  ASSUME SInv, NEW m \in Modules, NEW f \in UpFrames, Sends(m, f), f.type \notin Tasked,
         \/ joined' = joined /\ f.type # "register"
         \/ joined' = joined \cup {m} /\ f.type = "register",
         \/ noise' = noise /\ f.type # "stop"
         \/ noise' = noise + 1 /\ noise < MaxNoise,
         UNCHANGED <<down, server, remaining, scenes, left, unplaced, forged, starts>>
  PROVE  SInv'
<1>1. TypeOK /\ Balanced /\ TaskInv /\ RegisterInv /\ QuietInv
  BY Parts
<1>2. noise \in Nat /\ noise' \in 0..MaxNoise
  BY <1>1, LoopAssumption DEF TypeOK
<1>3. /\ Wires(up', UpFrames) /\ Wires(down, DownFrames)
      /\ Started' = Started /\ Detected' = Detected /\ Emptied' = Emptied
      /\ Placed' = Placed /\ Missed' = Missed
      /\ \A k \in Modules : Range(up'[k]) \subseteq Range(up[k]) \cup {f}
  <2>1. /\ Is(f, "task_start") = 0 /\ Is(f, "detection") = 0 /\ Is(f, "empty") = 0
        /\ Is(f, "placed") = 0 /\ Is(f, "not_placed") = 0
    BY DEF Is, Tasked
  <2> QED
    BY <1>1, <2>1, UpMore, WireTypes
<1>4. Wanted' = Wanted /\ Ordered' = Ordered
  BY DEF Wanted, Ordered
<1>5. TypeOK'
  BY <1>1, <1>2, <1>3 DEF TypeOK, Wires, server
<1>6. Balanced'
  BY <1>1, <1>3, <1>4 DEF Balanced, inFlight, server, total
<1>7. TaskInv'
  BY <1>1, <1>3, TaskKept
<1>8. RegisterInv'
  <2>1. f.type \notin Weighty
    BY DEF Weighty, Tasked
  <2> QED
    BY <1>1, <1>4, <2>1, RegisterSend DEF RegisterInv, server
<1>9. QuietInv'
  <2>1. starts <= 1 /\ noise' = 0 =>
          /\ noise = 0 /\ forged' = forged /\ retired' = retired
          /\ Started' <= Started /\ tokens' <= tokens
          /\ scenes' = Emptied' + (scenes - Emptied)
          /\ scenes' > 0 => remaining' = MockTotal
          /\ \A n \in Names : state[n] = "none" => count'[n] = 0
          /\ unplaced = left => unplaced' = left' \/ Broken'
          /\ Harmless(f)
    <3>1. tokens' = tokens
      BY <1>3, <1>4 DEF tokens
    <3>2. tokens \in Nat /\ Started \in Nat /\ Emptied \in Nat /\ scenes \in Nat
      BY <1>1, WireTypes, NumberTypes
    <3> QED
      BY <1>1, <1>2, <1>3, <3>1, <3>2 DEF QuietInv, server, Harmless
  <2>2. \A k \in Modules : /\ \A g \in Range(up'[k]) : g \in Range(up[k]) \/ g = f
                           /\ down'[k] = down[k]
    BY <1>3
  <2> QED
    BY <1>1, <1>5, <2>1, <2>2, QuietKept DEF server
<1> QED
  BY <1>5, <1>6, <1>7, <1>8, <1>9, PartsNext

(* Clients register, send bad frames and a stop.                           *)
LEMMA JoinStep ==
  ASSUME SInv, NEW m \in Modules, Join(m) \/ SendNoise(m)
  PROVE  SInv'
<1> USE DEF Plain, Frame, UpFrames, UpTypes, Noise, Tasked
<1>1. CASE Join(m)
  <2>1. Plain("register") \in UpFrames
    OBVIOUS
  <2> QED
    BY <1>1, <2>1, IdleSend DEF Join
<1>2. CASE SendNoise(m)
  <2>1. PICK t \in Noise : Sends(m, Plain(t))
    BY <1>2 DEF SendNoise
  <2>2. /\ Plain(t) \in UpFrames /\ Plain(t).type = t
        /\ t \notin {"task_start", "detection", "empty", "placed", "not_placed",
                     "capture_cmd", "grasp_command"}
    OBVIOUS
  <2> QED
    BY <1>2, <2>1, <2>2, IdleSend DEF SendNoise
<1> QED
  BY <1>1, <1>2

(* A stop is noise, too.                                                   *)
LEMMA SendStopStep ==
  ASSUME SInv, NEW m \in Modules, SendStop(m)
  PROVE  SInv'
<1>1. /\ Plain("stop") \in UpFrames /\ Plain("stop").type = "stop" /\ "stop" \notin Tasked
  BY UpTypesAre DEF Plain, Frame, UpFrames, Tasked
<1> QED
  BY <1>1, IdleSend DEF SendStop

(* A task that is started before any other finds everything idle.          *)
LEMMA SendStartStep ==
  ASSUME SInv, NEW n \in Names, SendStart(n)
  PROVE  SInv'
<1> DEFINE sent == Frame("task_start", n)
<1>1. TypeOK /\ Balanced /\ TaskInv /\ RegisterInv /\ QuietInv
  BY Parts
<1>2. /\ sent \in UpFrames /\ sent.type
           = "task_start" /\ sent.task = n /\ "frontend" \in Modules
      /\ Sends("frontend", sent)
  BY UpTypesAre DEF Frame, UpFrames, Modules, SendStart
<1> HIDE DEF sent
<1>3. /\ Wires(up', UpFrames) /\ Wires(down, DownFrames)
      /\ Started' = Started + 1 /\ Detected' = Detected /\ Emptied' = Emptied
      /\ Placed' = Placed /\ Missed' = Missed
      /\ \A k \in Modules : Range(up'[k]) \subseteq Range(up[k]) \cup {sent}
      /\ \A k \in Modules : k # "frontend" => Range(up'[k]) = Range(up[k])
  <2>1. /\ Is(sent, "task_start")
             = 1 /\ Is(sent, "detection") = 0 /\ Is(sent, "empty") = 0
        /\ Is(sent, "placed") = 0 /\ Is(sent, "not_placed") = 0
    BY <1>2 DEF Is
  <2>2. /\ Started \in Nat /\ Detected \in Nat /\ Emptied \in Nat
        /\ Placed \in Nat /\ Missed \in Nat
    BY <1>1, WireTypes
  <2>3. /\ Wires(up', UpFrames)
        /\ Started' = Started + Is(sent, "task_start") /\ Detected' = Detected + 0
        /\ Emptied' = Emptied + 0 /\ Placed' = Placed + 0 /\ Missed' = Missed + 0
        /\ \A k \in Modules :
             Range(up'[k]) = Range(up[k]) \cup (IF k = "frontend" THEN {sent} ELSE {})
    BY <1>1, <1>2, UpMore
  <2>4. /\ Started' = Started + 1 /\ Detected' = Detected /\ Emptied' = Emptied
        /\ Placed' = Placed /\ Missed' = Missed
    BY <2>1, <2>2, <2>3
  <2>5. Wires(down, DownFrames)
    BY <1>1, WireTypes
  <2> QED
    BY <2>3, <2>4, <2>5
<1>4. Wanted' = Wanted /\ Ordered' = Ordered
  BY DEF SendStart, Wanted, Ordered
<1>5. TypeOK'
  <2>1. starts' \in 0..MaxStarts
    BY <1>1, LoopAssumption DEF SendStart, TypeOK
  <2> QED
    BY <1>1, <1>3, <2>1 DEF SendStart, TypeOK, Wires, server
<1>6. Balanced'
  BY <1>1, <1>3, <1>4 DEF SendStart, Balanced, inFlight, server, total
<1>7. TaskInv'
  <2>1. \A k \in Modules : /\ \A g \in Range(up'[k]) : g \in Range(up[k]) \/ g = sent
                           /\ down'[k] = down[k]
    BY <1>3 DEF SendStart
  <2> QED
    BY <1>1, <1>2, <2>1, TaskKept
<1>8. RegisterInv'
  <2>1. sent.type \notin Weighty
    BY <1>2 DEF Weighty
  <2>2. registered' = registered /\ joined' = joined
    BY DEF SendStart, server
  <2> QED
    BY <1>1, <1>2, <1>4, <2>1, <2>2, RegisterSend DEF RegisterInv
<1>9. QuietInv'
  <2> SUFFICES ASSUME starts' <= 1, noise' = 0
               PROVE  QuietInv'
    BY DEF QuietInv
  <2>1. starts = 0 /\ starts' = 1 /\ noise = 0
    BY <1>1, NumberTypes DEF SendStart
  <2>2. tokens = 0 /\ tokens' = 1
    <3>1. tokens \in Nat /\ tokens <= 0
      BY <1>1, <2>1, NumberTypes DEF QuietInv
    <3>2. tokens' = tokens + 1
      BY <1>1, <1>3, <1>4, WireTypes DEF tokens
    <3> QED
      BY <3>1, <3>2
  <2>3. /\ Started = 0 /\ Wanted = 0 /\ Detected = 0 /\ Emptied = 0 /\ Ordered = 0
        /\ Placed = 0 /\ Missed = 0
    <3>1. /\ Started \in Nat /\ Wanted \in Nat /\ Detected \in Nat /\ Emptied \in Nat
          /\ Ordered \in Nat /\ Placed \in Nat /\ Missed \in Nat
      BY <1>1, WireTypes
    <3> QED
      BY <2>2, <3>1 DEF tokens
  <2>4. /\ \A k \in Names : state[k] = "none" /\ count[k] = 0
        /\ forged = 0 /\ retired = 0 /\ RunningInv
        /\ \A m \in Modules : \A g \in Range(up[m]) : g.type # "stop"
        /\ unplaced = left
        /\ scenes = Emptied + IF Ended THEN 1 ELSE 0
    BY <1>1, <2>1 DEF QuietInv, Broken
  <2>5. ~Ended /\ ~Ended' /\ scenes' = 0 /\ Emptied' = 0
    BY <1>3, <2>3, <2>4 DEF Ended, SendStart, server
  <2>6. RunningInv'
    BY <1>3, <2>4 DEF RunningInv, Runs, SendStart, server, Modules
  <2>7. \A m \in Modules : \A g \in Range(up'[m]) : g.type # "stop"
    BY <1>2, <1>3, <2>4
  <2> QED
    BY <2>1, <2>2, <2>4, <2>5, <2>6, <2>7 DEF QuietInv, SendStart, server
<1> QED
  BY <1>5, <1>6, <1>7, <1>8, <1>9, PartsNext

(* A placed status that nothing asked for counts as forged.                *)
LEMMA SendPlacedStep ==
  ASSUME SInv, SendPlaced
  PROVE  SInv'
<1>0. PICK n \in Names : Sends("motion", Frame("placed", n))
  BY DEF SendPlaced
<1> DEFINE sent == Frame("placed", n)
<1>1. TypeOK /\ Balanced /\ TaskInv /\ RegisterInv /\ QuietInv
  BY Parts
<1>2. /\ sent \in UpFrames /\ sent.type
           = "placed" /\ sent.task = n /\ "motion" \in Modules
      /\ Sends("motion", sent)
  BY <1>0, UpTypesAre DEF Frame, UpFrames, Modules
<1> HIDE DEF sent
<1>3. /\ Wires(up', UpFrames) /\ Wires(down, DownFrames)
      /\ Detected' = Detected /\ Ordered' = Ordered /\ Placed' = Placed + 1
      /\ Wanted' = Wanted
      /\ \A k \in Modules : Range(up'[k]) \subseteq Range(up[k]) \cup {sent}
  <2>1. Is(sent, "placed") = 1
    BY <1>2 DEF Is
  <2>2. Detected \in Nat /\ Placed \in Nat
    BY <1>1, WireTypes
  <2>3. /\ Wires(up', UpFrames)
        /\ Detected' = Detected + 0 /\ Placed' = Placed + Is(sent, "placed")
        /\ \A k \in Modules :
             Range(up'[k]) = Range(up[k]) \cup (IF k = "motion" THEN {sent} ELSE {})
    BY <1>1, <1>2, UpMore
  <2>4. Detected' = Detected /\ Placed' = Placed + 1
    BY <2>1, <2>2, <2>3
  <2>5. Ordered' = Ordered /\ Wanted' = Wanted
    BY DEF SendPlaced, Ordered, Wanted
  <2> QED
    BY <1>1, <2>3, <2>4, <2>5, WireTypes
<1>4. noise \in Nat /\ noise' \in 0..MaxNoise /\ noise' # 0 /\ forged' = forged + 1
  BY <1>1, LoopAssumption DEF TypeOK, SendPlaced
<1>5. TypeOK'
  <2>1. forged' \in Nat
    BY <1>1, <1>4 DEF TypeOK
  <2> QED
    BY <1>1, <1>3, <1>4, <2>1 DEF TypeOK, Wires, server, SendPlaced
<1>6. Balanced'
  <2>1. /\ scenes * MockTotal \in Nat /\ MockTotal - remaining \in Int /\ forged \in Nat
        /\ total + retired + left \in Nat
        /\ Detected \in Nat /\ Ordered \in Nat /\ Placed \in Nat
    BY <1>1, WireTypes, NumberTypes
  <2>2. /\ total' = total /\ scenes' = scenes /\ remaining' = remaining
        /\ retired' = retired /\ left' = left
    BY DEF SendPlaced, server, total
  <2>3. inFlight' = inFlight + 1 /\ inFlight \in Nat
    BY <1>3, <2>1 DEF inFlight
  <2> QED
    BY <1>1, <1>4, <2>1, <2>2, <2>3 DEF Balanced
<1>7. TaskInv'
  <2>1. \A k \in Modules : /\ \A g \in Range(up'[k]) : g \in Range(up[k]) \/ g = sent
                           /\ down'[k] = down[k]
    BY <1>3 DEF SendPlaced
  <2> QED
    BY <1>1, <1>2, <2>1, TaskKept
<1>8. RegisterInv'
  <2>2. registered' = registered /\ joined' = joined /\ "motion" \in joined
    BY DEF SendPlaced, server
  <2> QED
    BY <1>1, <1>2, <1>3, <2>2, RegisterSend DEF RegisterInv
<1>9. QuietInv'
  BY <1>4 DEF QuietInv
<1> QED
  BY <1>5, <1>6, <1>7, <1>8, <1>9, PartsNext

(* A frame that the server refuses, or only logs, takes no object with it: *)
(* what counts is never refused, for the client has registered by then.    *)
LEMMA IdleRead ==
  ASSUME SInv, NEW m \in Modules, NEW types, Reads(m, types),
         \/ registered' = registered /\ "register" \notin types
         \/ registered' = registered \cup {m} /\ Head(up[m]).type = "register",
         m \in registered' => Head(up[m]).type \notin Weighty \cap allowed[m],
         \/ down' = down
         \/ \E t \in {"register_ack", "error_report", "stray_report"} : Answer(m, t),
         UNCHANGED <<sorted, left>>
  PROVE  SInv'
<1> DEFINE got == Head(up[m])
<1>1. TypeOK /\ Balanced /\ TaskInv /\ RegisterInv /\ QuietInv
  BY Parts
<1>2. /\ \A k \in Modules \ registered' : /\ Late(up'[k])
                                          /\ k \in joined' <=> Announced(up'[k])
      /\ got.type \notin Weighty \cap allowed[m]
      /\ registered' \subseteq joined' /\ registered \subseteq registered'
  BY <1>1, RegisterRead
<1> HIDE DEF got
<1>3. /\ Wires(up', UpFrames)
      /\ Detected' = Detected /\ Emptied' = Emptied /\ Placed' = Placed
      /\ Started' <= Started /\ Missed' <= Missed
      /\ Started' \in Nat /\ Missed' \in Nat
      /\ \A k \in Modules : Range(up'[k]) \subseteq Range(up[k])
  <2>1. /\ Wires(up', UpFrames) /\ \A k \in Modules : Range(up'[k]) \subseteq Range(up[k])
        /\ Started = Started' + (IF m = "frontend" THEN Is(got, "task_start") ELSE 0)
        /\ Detected = Detected' + (IF m = "algorithm" THEN Is(got, "detection") ELSE 0)
        /\ Emptied = Emptied' + (IF m = "algorithm" THEN Is(got, "empty") ELSE 0)
        /\ Placed = Placed' + (IF m = "motion" THEN Is(got, "placed") ELSE 0)
        /\ Missed = Missed' + (IF m = "motion" THEN Is(got, "not_placed") ELSE 0)
    BY <1>1, UpLess DEF got
  <2>2. /\ Started' \in Nat /\ Detected' \in Nat /\ Emptied' \in Nat
        /\ Placed' \in Nat /\ Missed' \in Nat
    <3>1. \A k \in Modules : up'[k] \in Seq(UpFrames)
      BY <2>1 DEF Wires
    <3>2. \A k \in Modules : \A type : carried(up'[k], type) \in Nat
      BY <3>1, CarriedType
    <3> QED
      BY <3>2 DEF Modules, Started, Detected, Emptied, Placed, Missed
  <2>3. /\ m = "algorithm" => Is(got, "detection") = 0 /\ Is(got, "empty") = 0
        /\ m = "motion" => Is(got, "placed") = 0
    BY <1>2 DEF Is, Weighty, allowed, reports
  <2>4. Is(got, "task_start") \in Nat /\ Is(got, "not_placed") \in Nat
    BY DEF Is
  <2>5. Detected = Detected' + 0 /\ Emptied = Emptied' + 0 /\ Placed = Placed' + 0
    BY <2>1, <2>3
  <2>6. /\ Started = Started' + 0 \/ Started = Started' + Is(got, "task_start")
        /\ Missed = Missed' + 0 \/ Missed = Missed' + Is(got, "not_placed")
    BY <2>1
  <2>7. Detected' = Detected /\ Emptied' = Emptied /\ Placed' = Placed
    <3>1. \A x : \A y \in Nat : x = y + 0 => y = x
      OBVIOUS
    <3> QED
      BY <2>2, <2>5, <3>1
  <2>8. Started' <= Started /\ Missed' <= Missed
    BY <2>2, <2>4, <2>6
  <2> QED
    BY <2>1, <2>2, <2>7, <2>8
<1>4. /\ Wires(down', DownFrames) /\ Wanted' = Wanted /\ Ordered' = Ordered
      /\ \A k \in Modules : \A g \in Range(down'[k]) :
           g \in Range(down[k]) \/ (g.type \notin Tasked /\ g.type # "stop")
  <2>1. CASE down' = down
    BY <1>1, <2>1, WireTypes DEF Wanted, Ordered
  <2>2. ASSUME NEW t \in {"register_ack", "error_report", "stray_report"}, Answer(m, t)
        PROVE  /\ Wires(down', DownFrames) /\ Wanted' = Wanted /\ Ordered' = Ordered
               /\ \A k \in Modules : \A g \in Range(down'[k]) :
                    g \in Range(down[k]) \/ (g.type \notin Tasked /\ g.type # "stop")
    <3>1. /\ Wires(down', DownFrames) /\ Wanted' = Wanted /\ Ordered' = Ordered
          /\ \A k \in Modules : Range(down'[k]) \subseteq Range(down[k]) \cup {Plain(t)}
      BY <1>1, <2>2, DownAnswer
    <3>2. Plain(t).type \notin Tasked /\ Plain(t).type # "stop"
      BY DEF Plain, Frame, Tasked
    <3> QED
      BY <3>1, <3>2
  <2> QED
    BY <2>1, <2>2
<1>5. TypeOK'
  BY <1>1, <1>2, <1>3, <1>4 DEF TypeOK, Wires, Reads, bounds, sorted
<1>6. Balanced'
  BY <1>1, <1>3, <1>4 DEF Balanced, inFlight, Reads, bounds, sorted, total
<1>7. TaskInv'
  BY <1>1, <1>3, <1>4, TaskKept
<1>8. RegisterInv'
  <2>1. /\ "algorithm" \notin registered' => Wanted' = 0
        /\ "motion" \notin registered' => Ordered' = 0
    BY <1>1, <1>2, <1>4 DEF RegisterInv
  <2> QED
    BY <1>2, <2>1 DEF RegisterInv
<1>9. QuietInv'
  <2>1. tokens' <= tokens
    <3>1. /\ Started \in Nat /\ Wanted \in Nat /\ Detected \in Nat /\ Emptied \in Nat
          /\ Ordered \in Nat /\ Placed \in Nat /\ Missed \in Nat
      BY <1>1, WireTypes
    <3> QED
      BY <1>3, <1>4, <3>1 DEF tokens
  <2>2. Emptied \in Nat /\ scenes \in Nat
    BY <1>1, WireTypes, NumberTypes
  <2>3. starts <= 1 /\ noise' = 0 =>
          /\ noise = 0 /\ forged' = forged /\ retired' = retired
          /\ Started' <= Started /\ tokens' <= tokens
          /\ scenes' = Emptied' + (scenes - Emptied)
          /\ scenes' > 0 => remaining' = MockTotal
          /\ \A n \in Names : state[n] = "none" => count'[n] = 0
          /\ unplaced = left => unplaced' = left' \/ Broken'
    BY <1>1, <1>3, <2>1, <2>2 DEF QuietInv, Reads, bounds, sorted
  <2> QED
    BY <1>1, <1>3, <1>4, <1>5, <2>3, QuietKept DEF Reads, bounds, sorted, Harmless
<1> QED
  BY <1>5, <1>6, <1>7, <1>8, <1>9, PartsNext

(* The server refuses a frame, takes a register, or logs a report.         *)
LEMMA IdleHandler ==
  ASSUME SInv, NEW m \in Modules,
         \/ Undecodable(m) \/ HandleRegister(m) \/ RouteRefused(m) \/ Logged(m)
         \/ m = "frontend" /\ TaskIdRefused
  PROVE  SInv'
<1>1. addressed(m) \subseteq {"register_ack", "error_report", "stray_report"}
  BY DEF addressed
<1>2. CASE Undecodable(m)
  <2>1. PICK t \in addressed(m) : Answer(m, t)
    BY <1>2 DEF Undecodable
  <2>2. Reads(m, {"garbage"}) /\ registered' = registered /\ UNCHANGED <<sorted, left>>
    BY <1>2 DEF Undecodable, server, sorted
  <2>3. Head(up[m]).type \notin Weighty
    BY <2>2 DEF Reads, Weighty
  <2> QED
    BY <1>1, <2>1, <2>2, <2>3, IdleRead
<1>3. CASE HandleRegister(m)
  <2>1. Reads(m, {"register"}) /\ Head(up[m]).type = "register"
    BY <1>3 DEF HandleRegister, Reads
  <2>2. Head(up[m]).type \notin Weighty
    BY <2>1 DEF Weighty
  <2> QED
    BY <1>3, <2>1, <2>2, IdleRead DEF HandleRegister
<1>4. CASE RouteRefused(m)
  <2>1. PICK t \in {"register_ack", "error_report", "stray_report"} : Answer(m, t)
    BY <1>1, <1>4 DEF RouteRefused
  <2>2. /\ Reads(m, UpTypes \ {"garbage", "register"}) /\ registered' = registered
        /\ m \in registered => Head(up[m]).type \notin allowed[m]
        /\ UNCHANGED <<sorted, left>>
    BY <1>4 DEF RouteRefused, server, sorted
  <2> QED
    BY <2>1, <2>2, IdleRead
<1>5. CASE Logged(m)
  <2>1. /\ Reads(m, {"planned", "error_report"} \cap allowed[m]) /\ registered'
             = registered
        /\ UNCHANGED <<sorted, left>> /\ down' = down
    BY <1>5 DEF Logged, Business, server, sorted
  <2>2. Head(up[m]).type \notin Weighty
    BY <2>1 DEF Reads, Weighty
  <2> QED
    BY <2>1, <2>2, IdleRead
<1>6. CASE m = "frontend" /\ TaskIdRefused
  <2>1. /\ Reads(m, {"nameless"}) /\ registered' = registered
        /\ UNCHANGED <<sorted, left>> /\ Answer(m, "error_report")
    BY <1>6 DEF TaskIdRefused, Business, server, sorted
  <2>2. Head(up[m]).type \notin Weighty
    BY <2>1 DEF Reads, Weighty
  <2>3. \E t \in {"register_ack", "error_report", "stray_report"} : Answer(m, t)
    BY <2>1
  <2> QED
    BY <2>1, <2>2, <2>3, IdleRead
<1> QED
  BY <1>2, <1>3, <1>4, <1>5, <1>6

(* What the server reads of a registered module.                           *)
LEMMA BusinessRead ==
  ASSUME SInv, NEW m \in Modules, NEW types, Business(m, types), "register" \notin types,
         registered' = registered
  PROVE  /\ TypeOK /\ Balanced /\ TaskInv /\ RegisterInv /\ QuietInv
         /\ Wires(up', UpFrames) /\ Wires(down, DownFrames)
         /\ \A k \in Modules : Range(up'[k]) \subseteq Range(up[k])
         /\ \A k \in Modules \ registered' : /\ Late(up'[k])
                                             /\ k \in joined' <=> Announced(up'[k])
         /\ Head(up[m]).type \in types /\ Head(up[m]) \in Range(up[m])
         /\ Head(up[m]).type \in Tasked => Head(up[m]).task \in Names
         /\ m \in registered
         /\ UNCHANGED <<remaining, scenes, unplaced, joined, forged, starts, noise>>
<1>1. TypeOK /\ Balanced /\ TaskInv /\ RegisterInv /\ QuietInv
  BY Parts
<1>2. Reads(m, types) /\ m \in registered /\ UNCHANGED <<remaining, scenes, unplaced, bounds>>
  BY DEF Business, Reads
<1>3. /\ Wires(up', UpFrames) /\ \A k \in Modules : Range(up'[k]) \subseteq Range(up[k])
      /\ Head(up[m]).type \in types /\ Head(up[m]) \in Range(up[m])
  BY <1>1, <1>2, UpLess
<1>4. \A k \in Modules \ registered' : /\ Late(up'[k])
                                       /\ k \in joined' <=> Announced(up'[k])
  BY <1>1, <1>2, RegisterRead
<1>5. Head(up[m]).type \in Tasked => Head(up[m]).task \in Names
  BY <1>1, <1>3 DEF TaskInv
<1>6. Wires(down, DownFrames)
  BY <1>1, WireTypes
<1> QED
  BY <1>1, <1>2, <1>3, <1>4, <1>5, <1>6 DEF bounds

(* And how it changes the numbers of frames.                               *)
LEMMA ReadCounts ==
  ASSUME TypeOK, NEW m \in Modules, NEW types, Reads(m, types)
  PROVE  /\ Started' \in Nat /\ Detected' \in Nat /\ Emptied' \in Nat
         /\ Placed' \in Nat /\ Missed' \in Nat
         /\ Started'
              = Started - (IF m = "frontend" THEN Is(Head(up[m]), "task_start") ELSE 0)
         /\ Detected'
              = Detected - (IF m = "algorithm" THEN Is(Head(up[m]), "detection") ELSE 0)
         /\ Emptied' = Emptied - (IF m = "algorithm" THEN Is(Head(up[m]), "empty") ELSE 0)
         /\ Placed' = Placed - (IF m = "motion" THEN Is(Head(up[m]), "placed") ELSE 0)
         /\ Missed' = Missed - (IF m = "motion" THEN Is(Head(up[m]), "not_placed") ELSE 0)
<1>1. Wires(up', UpFrames)
  BY UpLess
<1>2. /\ Started' \in Nat /\ Detected' \in Nat /\ Emptied' \in Nat
      /\ Placed' \in Nat /\ Missed' \in Nat
  <2>1. \A k \in Modules : up'[k] \in Seq(UpFrames)
    BY <1>1 DEF Wires
  <2>2. \A k \in Modules : \A type : carried(up'[k], type) \in Nat
    BY <2>1, CarriedType
  <2> QED
    BY <2>2 DEF Modules, Started, Detected, Emptied, Placed, Missed
<1>3. \A type : Is(Head(up[m]), type) \in Nat
  BY DEF Is
<1>4. \A x : \A y, z \in Nat : x = y + z => y = x - z
  OBVIOUS
<1>5. /\ (IF m = "frontend" THEN Is(Head(up[m]), "task_start") ELSE 0) \in Nat
      /\ (IF m = "algorithm" THEN Is(Head(up[m]), "detection") ELSE 0) \in Nat
      /\ (IF m = "algorithm" THEN Is(Head(up[m]), "empty") ELSE 0) \in Nat
      /\ (IF m = "motion" THEN Is(Head(up[m]), "placed") ELSE 0) \in Nat
      /\ (IF m = "motion" THEN Is(Head(up[m]), "not_placed") ELSE 0) \in Nat
  BY <1>3
<1>6. /\ Started
           = Started' + (IF m = "frontend" THEN Is(Head(up[m]), "task_start") ELSE 0)
      /\ Detected
           = Detected' + (IF m = "algorithm" THEN Is(Head(up[m]), "detection") ELSE 0)
      /\ Emptied = Emptied' + (IF m = "algorithm" THEN Is(Head(up[m]), "empty") ELSE 0)
      /\ Placed = Placed' + (IF m = "motion" THEN Is(Head(up[m]), "placed") ELSE 0)
      /\ Missed = Missed' + (IF m = "motion" THEN Is(Head(up[m]), "not_placed") ELSE 0)
  BY UpLess
<1> QED
  BY <1>2, <1>4, <1>5, <1>6

(* An emergency stop ends the tasks; a loop that nothing disturbs meets     *)
(* none.                                                                   *)
LEMMA OnStopStep ==
  ASSUME SInv, NEW m \in Modules, OnStop(m)
  PROVE  SInv'
<1> DEFINE got == Head(up[m])
<1>0. /\ Business(m, {"stop"})
      /\ UNCHANGED <<registered, count, retired, down, left>>
      /\ state' = [n \in Names |-> IF state[n] = "none" THEN "none" ELSE "finished"]
  BY DEF OnStop
<1>1. /\ TypeOK /\ Balanced /\ TaskInv /\ RegisterInv /\ QuietInv
      /\ Wires(up', UpFrames)
      /\ \A k \in Modules : Range(up'[k]) \subseteq Range(up[k])
      /\ \A k \in Modules \ registered' : /\ Late(up'[k])
                                          /\ k \in joined' <=> Announced(up'[k])
      /\ got.type = "stop" /\ got \in Range(up[m])
      /\ UNCHANGED <<remaining, scenes, unplaced, joined, forged, starts, noise>>
  BY <1>0, BusinessRead
<1>2. Detected' = Detected /\ Placed' = Placed /\ Ordered' = Ordered /\ Wanted' = Wanted
  <2>3. Is(got, "detection") = 0 /\ Is(got, "placed") = 0
    BY <1>1 DEF Is
  <2>4. /\ Detected' = Detected - (IF m = "algorithm" THEN Is(got, "detection") ELSE 0)
        /\ Placed' = Placed - (IF m = "motion" THEN Is(got, "placed") ELSE 0)
    BY <1>0, <1>1, ReadCounts DEF Business
  <2>1. Detected' = Detected - 0 /\ Placed' = Placed - 0
    BY <2>3, <2>4
  <2>2. Detected \in Nat /\ Placed \in Nat
    BY <1>1, WireTypes
  <2> QED
    BY <1>0, <2>1, <2>2 DEF Ordered, Wanted
<1> HIDE DEF got
<1>3. TypeOK'
  <2>1. state' \in [Names -> {"none", "running", "finished"}]
    BY <1>0
  <2> QED
    BY <1>0, <1>1, <2>1 DEF TypeOK, Wires
<1>4. Balanced'
  BY <1>0, <1>1, <1>2 DEF Balanced, inFlight, total
<1>5. TaskInv'
  BY <1>0, <1>1, TaskKept
<1>6. RegisterInv'
  BY <1>0, <1>1, <1>2 DEF RegisterInv
<1>7. QuietInv'
  BY <1>1 DEF QuietInv
<1> QED
  BY <1>3, <1>4, <1>5, <1>6, <1>7, PartsNext

(* A detection for a task that does not run leaves its object where it is.  *)
LEMMA DetectionIgnoredStep ==
  ASSUME SInv, DetectionIgnored
  PROVE  SInv'
<1> DEFINE got == Head(up["algorithm"])
<1>0. /\ Business("algorithm", {"detection", "empty"}) /\ "algorithm" \in Modules
      /\ UNCHANGED <<registered, state, count, retired, down>>
      /\ state[got.task] # "running"
      /\ left' = left + IF got.type = "detection" THEN 1 ELSE 0
  BY DEF DetectionIgnored, Modules, server
<1>1. /\ TypeOK /\ Balanced /\ TaskInv /\ RegisterInv /\ QuietInv
      /\ Wires(up', UpFrames)
      /\ \A k \in Modules : Range(up'[k]) \subseteq Range(up[k])
      /\ \A k \in Modules \ registered' : /\ Late(up'[k])
                                          /\ k \in joined' <=> Announced(up'[k])
      /\ got.type \in {"detection", "empty"} /\ got \in Range(up["algorithm"])
      /\ UNCHANGED <<remaining, scenes, unplaced, joined, forged, starts, noise>>
  BY <1>0, BusinessRead
<1>2. /\ Detected' = Detected - Is(got, "detection") /\ Placed' = Placed
      /\ Ordered' = Ordered /\ Wanted' = Wanted
  <2>1. Detected' = Detected - Is(got, "detection") /\ Placed' = Placed - 0
    BY <1>0, <1>1, ReadCounts DEF Business
  <2>2. Placed \in Nat
    BY <1>1, WireTypes
  <2> QED
    BY <1>0, <2>1, <2>2 DEF Ordered, Wanted
<1> HIDE DEF got
<1>3. TypeOK'
  <2>1. left' \in Nat
    BY <1>0, <1>1, NumberTypes
  <2> QED
    BY <1>0, <1>1, <2>1 DEF TypeOK, Wires
<1>4. Balanced'
  <2>1. /\ left' = left + Is(got, "detection") /\ Is(got, "detection") \in Nat
        /\ total' = total
    BY <1>0 DEF Is, total
  <2>2. /\ total \in Nat /\ retired \in Nat /\ left \in Nat
        /\ Detected \in Nat /\ Ordered \in Nat /\ Placed \in Nat
    BY <1>1, NumberTypes, WireTypes
  <2>3. total' + retired' + left' + inFlight' = total + retired + left + inFlight
    BY <1>0, <1>2, <2>1, <2>2 DEF inFlight
  <2> QED
    BY <1>0, <1>1, <2>2, <2>3 DEF Balanced
<1>5. TaskInv'
  BY <1>0, <1>1, TaskKept
<1>6. RegisterInv'
  BY <1>0, <1>1, <1>2 DEF RegisterInv
<1>7. QuietInv'
  BY <1>0, <1>1 DEF QuietInv, RunningInv, Runs
<1> QED
  BY <1>3, <1>4, <1>5, <1>6, <1>7, PartsNext

(* So does a status for a task that nobody started.                        *)
LEMMA PlacedUnknownStep ==
  ASSUME SInv, PlacedUnknown
  PROVE  SInv'
<1> DEFINE got == Head(up["motion"])
<1>0. /\ Business("motion", {"placed", "not_placed"}) /\ "motion" \in Modules
      /\ UNCHANGED <<registered, state, count, retired, down>>
      /\ state[got.task] = "none"
      /\ left' = left + IF got.type = "placed" THEN 1 ELSE 0
  BY DEF PlacedUnknown, Modules, server
<1>1. /\ TypeOK /\ Balanced /\ TaskInv /\ RegisterInv /\ QuietInv
      /\ Wires(up', UpFrames)
      /\ \A k \in Modules : Range(up'[k]) \subseteq Range(up[k])
      /\ \A k \in Modules \ registered' : /\ Late(up'[k])
                                          /\ k \in joined' <=> Announced(up'[k])
      /\ got.type \in {"placed", "not_placed"} /\ got \in Range(up["motion"])
      /\ UNCHANGED <<remaining, scenes, unplaced, joined, forged, starts, noise>>
  BY <1>0, BusinessRead
<1>2. /\ Detected' = Detected /\ Placed' = Placed - Is(got, "placed")
      /\ Ordered' = Ordered /\ Wanted' = Wanted
  <2>1. Detected' = Detected - 0 /\ Placed' = Placed - Is(got, "placed")
    BY <1>0, <1>1, ReadCounts DEF Business
  <2>2. Detected \in Nat
    BY <1>1, WireTypes
  <2> QED
    BY <1>0, <2>1, <2>2 DEF Ordered, Wanted
<1> HIDE DEF got
<1>3. TypeOK'
  <2>1. left' \in Nat
    BY <1>0, <1>1, NumberTypes
  <2> QED
    BY <1>0, <1>1, <2>1 DEF TypeOK, Wires
<1>4. Balanced'
  <2>1. /\ left' = left + Is(got, "placed") /\ Is(got, "placed") \in Nat
        /\ total' = total
    BY <1>0 DEF Is, total
  <2>2. /\ total \in Nat /\ retired \in Nat /\ left \in Nat
        /\ Detected \in Nat /\ Ordered \in Nat /\ Placed \in Nat
    BY <1>1, NumberTypes, WireTypes
  <2>3. total' + retired' + left' + inFlight' = total + retired + left + inFlight
    BY <1>0, <1>2, <2>1, <2>2 DEF inFlight
  <2> QED
    BY <1>0, <1>1, <2>2, <2>3 DEF Balanced
<1>5. TaskInv'
  BY <1>0, <1>1, TaskKept
<1>6. RegisterInv'
  BY <1>0, <1>1, <1>2 DEF RegisterInv
<1>7. QuietInv'
  BY <1>0, <1>1 DEF QuietInv, RunningInv, Runs
<1> QED
  BY <1>3, <1>4, <1>5, <1>6, <1>7, PartsNext

(* send_to adds to what a registered module gets, and to nothing else.     *)
LEMMA SendsTo ==
  ASSUME TypeOK, NEW m \in Modules, NEW f \in DownFrames, down' = wire(m, f, down)
  PROVE  /\ Wires(down', DownFrames)
         /\ Wanted' = Wanted + (IF m = "algorithm" /\ m \in registered
                                THEN Is(f, "capture_cmd") ELSE 0)
         /\ Ordered' = Ordered + (IF m = "motion" /\ m \in registered
                                  THEN Is(f, "grasp_command") ELSE 0)
         /\ \A k \in Modules : \A g \in Range(down'[k]) :
              g \in Range(down[k]) \/ (k = m /\ g = f)
<1> DEFINE v == wire(m, f, down)
<1>1. Wires(down, DownFrames) /\ Wanted \in Nat /\ Ordered \in Nat
  BY WireTypes
<1>2. /\ Wires(v, DownFrames)
      /\ m \in registered =>
           \A type : carried(v[m], type) = carried(down[m], type) + Is(f, type)
      /\ \A k \in Modules : k # m \/ m \notin registered => v[k] = down[k]
      /\ \A k \in Modules : Range(v[k]) \subseteq Range(down[k]) \cup {f}
  BY <1>1, WireMeans
<1>3. down' = v /\ "algorithm" \in Modules /\ "motion" \in Modules
  BY DEF Modules
<1> HIDE DEF v
<1>4. Wanted' = Wanted + (IF m = "algorithm" /\ m \in registered
                          THEN Is(f, "capture_cmd") ELSE 0)
  <2>1. CASE m = "algorithm" /\ m \in registered
    BY <1>2, <1>3, <2>1 DEF Wanted
  <2>2. CASE ~(m = "algorithm" /\ m \in registered)
    <3>1. Wanted' = Wanted
      BY <1>2, <1>3, <2>2 DEF Wanted
    <3> QED
      BY <1>1, <2>2, <3>1
  <2> QED
    BY <2>1, <2>2
<1>5. Ordered' = Ordered + (IF m = "motion" /\ m \in registered
                            THEN Is(f, "grasp_command") ELSE 0)
  <2>1. CASE m = "motion" /\ m \in registered
    BY <1>2, <1>3, <2>1 DEF Ordered
  <2>2. CASE ~(m = "motion" /\ m \in registered)
    <3>1. Ordered' = Ordered
      BY <1>2, <1>3, <2>2 DEF Ordered
    <3> QED
      BY <1>1, <2>2, <3>1
  <2> QED
    BY <2>1, <2>2
<1>6. \A k \in Modules : \A g \in Range(v[k]) : g \in Range(down[k]) \/ (k = m /\ g = f)
  <2>1. \A k \in Modules : k # m => Range(v[k]) \subseteq Range(down[k])
    BY <1>2
  <2> QED
    BY <1>2, <2>1
<1> QED
  BY <1>2, <1>3, <1>4, <1>5, <1>6

(* Where nothing of a loop is counted, there is nothing of a loop.         *)
LEMMA NoLoops ==
  ASSUME TypeOK
  PROVE  /\ Wanted = 0 => \A f \in Range(down["algorithm"]) : f.type # "capture_cmd"
         /\ Detected = 0 => \A f \in Range(up["algorithm"]) : f.type # "detection"
         /\ Emptied = 0 => \A f \in Range(up["algorithm"]) : f.type # "empty"
         /\ Ordered = 0 => \A f \in Range(down["motion"]) : f.type # "grasp_command"
         /\ Placed = 0 => \A f \in Range(up["motion"]) : f.type # "placed"
         /\ Missed = 0 => \A f \in Range(up["motion"]) : f.type # "not_placed"
<1>1. \A m \in Modules : up[m] \in Seq(UpFrames) /\ down[m] \in Seq(DownFrames)
  BY WireTypes DEF Wires
<1>2. \A m \in Modules : \A type :
        /\ carried(up[m], type) = 0 => \A f \in Range(up[m]) : f.type # type
        /\ carried(down[m], type) = 0 => \A f \in Range(down[m]) : f.type # type
  BY <1>1, CarriedNone
<1> QED
  BY <1>2 DEF Modules, Wanted, Detected, Emptied, Ordered, Placed, Missed

(* A task that starts finds its objects counted nowhere else.              *)
LEMMA OnTaskStartStep ==
  ASSUME SInv, OnTaskStart
  PROVE  SInv'
<1> DEFINE got == Head(up["frontend"])
           n == got.task
           sent == Frame("capture_cmd", n)
<1>0. /\ Business("frontend", {"task_start"}) /\ "frontend" \in Modules
      /\ "algorithm" \in Modules
      /\ UNCHANGED <<registered, left>>
      /\ state' = [state EXCEPT ![n] = "running"]
      /\ count' = [count EXCEPT ![n] = 0]
      /\ retired' = retired + count[n]
      /\ down' = wire("algorithm", sent, down)
  BY DEF OnTaskStart, Modules
<1>1. /\ TypeOK /\ Balanced /\ TaskInv /\ RegisterInv /\ QuietInv
      /\ Wires(up', UpFrames)
      /\ \A k \in Modules : Range(up'[k]) \subseteq Range(up[k])
      /\ \A k \in Modules \ registered' : /\ Late(up'[k])
                                          /\ k \in joined' <=> Announced(up'[k])
      /\ got.type = "task_start" /\ n \in Names
      /\ UNCHANGED <<remaining, scenes, unplaced, joined, forged, starts, noise>>
  <2>1. "register" \notin {"task_start"} /\ "task_start" \in Tasked
    BY DEF Tasked
  <2> QED
    BY <1>0, <2>1, BusinessRead
<1>2. /\ sent \in DownFrames /\ sent.type = "capture_cmd" /\ sent.task = n
      /\ Is(sent, "capture_cmd") = 1 /\ Is(sent, "grasp_command") = 0
      /\ Is(got, "task_start") = 1
  BY <1>1 DEF Frame, DownFrames, DownTypes, Is
<1>3. /\ Started' = Started - 1 /\ Detected' = Detected /\ Emptied' = Emptied
      /\ Placed' = Placed /\ Missed' = Missed /\ Started' \in Nat
  <2>1. /\ Started' = Started - Is(got, "task_start") /\ Started' \in Nat
        /\ Detected' = Detected - 0 /\ Emptied' = Emptied - 0
        /\ Placed' = Placed - 0 /\ Missed' = Missed - 0
    BY <1>0, <1>1, ReadCounts DEF Business
  <2>2. Detected \in Nat /\ Emptied \in Nat /\ Placed \in Nat /\ Missed \in Nat
    BY <1>1, WireTypes
  <2> QED
    BY <1>2, <2>1, <2>2
<1> HIDE DEF got, n, sent
<1>4. /\ Wires(down', DownFrames)
      /\ Wanted' = Wanted + (IF "algorithm" \in registered THEN 1 ELSE 0)
      /\ Ordered' = Ordered
      /\ \A k \in Modules : \A g \in Range(down'[k]) : g \in Range(down[k]) \/ g = sent
      /\ \A k \in Modules \ {"algorithm"} : \A g \in Range(down'[k]) :
           g \in Range(down[k])
  <2>1. /\ Wires(down', DownFrames)
        /\ Wanted' = Wanted + (IF "algorithm" \in registered
                               THEN Is(sent, "capture_cmd") ELSE 0)
        /\ Ordered' = Ordered + 0
        /\ \A k \in Modules : \A g \in Range(down'[k]) :
             g \in Range(down[k]) \/ (k = "algorithm" /\ g = sent)
    BY <1>0, <1>1, <1>2, SendsTo
  <2>2. Ordered \in Nat
    BY <1>1, WireTypes
  <2> QED
    BY <1>2, <2>1, <2>2
<1>5. TypeOK'
  <2>1. /\ state' \in [Names -> {"none", "running", "finished"}]
        /\ count' \in [Names -> Nat] /\ retired' \in Nat
    BY <1>0, <1>1 DEF TypeOK
  <2> QED
    BY <1>0, <1>1, <1>4, <2>1 DEF TypeOK, Wires
<1>6. Balanced'
  <2>1. count \in [Names -> Nat]
    BY <1>1 DEF TypeOK
  <2>2. total' = total - count[n]
    <3>1. Cardinality(Tallies([count EXCEPT ![n]
            = 0])) = Cardinality(Tallies(count)) - count[n]
      BY <1>1, <2>1, StartedAnew
    <3>2. total' = Cardinality(Tallies(count'))
      BY DEF total, Tallies, Tally
    <3> QED
      BY <1>0, <3>1, <3>2, TotalIs
  <2>3. /\ total \in Nat /\ retired \in Nat /\ left \in Nat /\ count[n] \in Nat
        /\ Detected \in Nat /\ Ordered \in Nat /\ Placed \in Nat
    BY <1>1, <2>1, NumberTypes, WireTypes
  <2>4. inFlight' = inFlight /\ inFlight \in Nat
    BY <1>3, <1>4, <2>3 DEF inFlight
  <2>5. total' + retired' + left' + inFlight' = total + retired + left + inFlight
    BY <1>0, <2>2, <2>3, <2>4
  <2> QED
    BY <1>1, <2>5 DEF Balanced
<1>7. TaskInv'
  BY <1>1, <1>2, <1>4, TaskKept
<1>8. RegisterInv'
  <2>1. Wanted \in Nat
    BY <1>1, WireTypes
  <2>2. /\ "algorithm" \notin registered' => Wanted' = 0
        /\ "motion" \notin registered' => Ordered' = 0
    BY <1>0, <1>1, <1>4, <2>1 DEF RegisterInv
  <2> QED
    BY <1>1, <2>2 DEF RegisterInv
<1>9. QuietInv'
  <2> SUFFICES ASSUME starts' <= 1, noise' = 0
               PROVE  QuietInv'
    BY DEF QuietInv
  <2>0. starts <= 1 /\ noise = 0 /\ starts \in Nat /\ starts' = starts
    BY <1>1, NumberTypes
  <2>1. /\ Started \in Nat /\ Wanted \in Nat /\ Detected \in Nat /\ Emptied \in Nat
        /\ Ordered \in Nat /\ Placed \in Nat /\ Missed \in Nat
    BY <1>1, WireTypes
  <2>2. tokens <= starts
    BY <1>1, <2>0 DEF QuietInv
  <2>3. /\ Started = 1 /\ Wanted = 0 /\ Detected = 0 /\ Emptied = 0 /\ Ordered = 0
        /\ Placed = 0 /\ Missed = 0 /\ starts = 1
    <3>1. Started > 0
      BY <1>3, <2>1
    <3> QED
      BY <2>0, <2>1, <2>2, <3>1 DEF tokens
  <2>4. /\ \A k \in Names : state[k] = "none" /\ count[k] = 0
        /\ forged = 0 /\ retired = 0
        /\ \A m \in Modules : \A g \in Range(up[m]) : g.type # "stop"
        /\ scenes = Emptied + IF Ended THEN 1 ELSE 0
        /\ unplaced = left \/ Broken
    BY <1>1, <2>0, <2>3 DEF QuietInv
  <2>11. unplaced' = left'
    BY <1>0, <1>1, <2>3, <2>4 DEF Broken, tokens
  <2>5. /\ state'[n] = "running" /\ \A k \in Names \ {n} : state'[k] = "none"
        /\ \A k \in Names : count'[k] = 0
    BY <1>0, <1>1, <2>4 DEF TypeOK
  <2>6. ~Ended /\ ~Ended' /\ scenes' = 0 /\ Emptied' = 0 /\ Started' = 0
    BY <1>1, <1>3, <2>3, <2>4, <2>5 DEF Ended
  <2>7. retired' = 0 /\ forged' = 0
    BY <1>0, <1>1, <2>4
  <2>8. tokens' <= starts
    BY <1>3, <1>4, <2>3 DEF tokens
  <2>9. RunningInv'
    <3>1. /\ \A g \in Range(down["algorithm"]) : g.type # "capture_cmd"
          /\ \A g \in Range(up["algorithm"]) : g.type \notin {"detection", "empty"}
          /\ \A g \in Range(down["motion"]) : g.type # "grasp_command"
          /\ \A g \in Range(up["motion"]) : g.type \notin {"placed", "not_placed"}
      BY <1>1, <2>3, NoLoops
    <3> QED
      BY <1>1, <1>2, <1>4, <2>5, <3>1 DEF RunningInv, Runs, Modules
  <2>10. \A m \in Modules : \A g \in Range(up'[m]) : g.type # "stop"
    BY <1>1, <2>4
  <2> QED
    BY <2>0, <2>3, <2>5, <2>6, <2>7, <2>8, <2>9, <2>10, <2>11 DEF QuietInv
<1> QED
  BY <1>5, <1>6, <1>7, <1>8, <1>9, PartsNext

(* The empty scene ends the task: its loop was the last one.               *)
LEMMA SceneEmptyStep ==
  ASSUME SInv, SceneEmpty
  PROVE  SInv'
<1> DEFINE got == Head(up["algorithm"])
           n == got.task
           sent == Frame("task_result", n)
<1>0. /\ Business("algorithm", {"empty"}) /\ "algorithm" \in Modules
      /\ "frontend" \in Modules
      /\ UNCHANGED <<registered, count, retired, left>>
      /\ state[n] = "running"
      /\ state' = [state EXCEPT ![n] = "finished"]
      /\ down' = wire("frontend", sent, down)
  BY DEF SceneEmpty, Modules
<1>1. /\ TypeOK /\ Balanced /\ TaskInv /\ RegisterInv /\ QuietInv
      /\ Wires(up', UpFrames)
      /\ \A k \in Modules : Range(up'[k]) \subseteq Range(up[k])
      /\ \A k \in Modules \ registered' : /\ Late(up'[k])
                                          /\ k \in joined' <=> Announced(up'[k])
      /\ got.type = "empty" /\ n \in Names
      /\ UNCHANGED <<remaining, scenes, unplaced, joined, forged, starts, noise>>
  <2>1. "register" \notin {"empty"} /\ "empty" \in Tasked
    BY DEF Tasked
  <2> QED
    BY <1>0, <2>1, BusinessRead
<1>2. /\ sent \in DownFrames /\ sent.type = "task_result" /\ sent.type \notin Tasked
      /\ Is(sent, "capture_cmd") = 0 /\ Is(sent, "grasp_command") = 0
      /\ Is(got, "empty") = 1 /\ Is(got, "detection") = 0
  BY <1>1 DEF Frame, DownFrames, DownTypes, Is, Tasked
<1>3. /\ Started' = Started /\ Detected' = Detected /\ Emptied' = Emptied - 1
      /\ Placed' = Placed /\ Missed' = Missed /\ Emptied' \in Nat
  <2>1. /\ Emptied' = Emptied - Is(got, "empty") /\ Emptied' \in Nat
        /\ Detected' = Detected - Is(got, "detection") /\ Started' = Started - 0
        /\ Placed' = Placed - 0 /\ Missed' = Missed - 0
    BY <1>0, <1>1, ReadCounts DEF Business
  <2>2. Detected \in Nat /\ Started \in Nat /\ Placed \in Nat /\ Missed \in Nat
    BY <1>1, WireTypes
  <2> QED
    BY <1>2, <2>1, <2>2
<1> HIDE DEF got, n, sent
<1>4. /\ Wires(down', DownFrames) /\ Wanted' = Wanted /\ Ordered' = Ordered
      /\ \A k \in Modules : \A g \in Range(down'[k]) : g \in Range(down[k]) \/ g = sent
  <2>1. /\ Wires(down', DownFrames) /\ Wanted' = Wanted + 0 /\ Ordered' = Ordered + 0
        /\ \A k \in Modules : \A g \in Range(down'[k]) :
             g \in Range(down[k]) \/ (k = "frontend" /\ g = sent)
    BY <1>0, <1>1, <1>2, SendsTo
  <2>2. Ordered \in Nat /\ Wanted \in Nat
    BY <1>1, WireTypes
  <2> QED
    BY <2>1, <2>2
<1>5. TypeOK'
  <2>1. state' \in [Names -> {"none", "running", "finished"}]
    BY <1>0, <1>1 DEF TypeOK
  <2> QED
    BY <1>0, <1>1, <1>4, <2>1 DEF TypeOK, Wires
<1>6. Balanced'
  BY <1>0, <1>1, <1>3, <1>4 DEF Balanced, inFlight, total
<1>7. TaskInv'
  BY <1>1, <1>2, <1>4, TaskKept
<1>8. RegisterInv'
  <2>1. /\ "algorithm" \notin registered' => Wanted' = 0
        /\ "motion" \notin registered' => Ordered' = 0
    BY <1>0, <1>1, <1>4 DEF RegisterInv
  <2> QED
    BY <1>1, <2>1 DEF RegisterInv
<1>9. QuietInv'
  <2> SUFFICES ASSUME starts' <= 1, noise' = 0
               PROVE  QuietInv'
    BY DEF QuietInv
  <2>0. starts <= 1 /\ noise = 0 /\ starts \in Nat /\ starts' = starts
    BY <1>1, NumberTypes
  <2>1. /\ Started \in Nat /\ Wanted \in Nat /\ Detected \in Nat /\ Emptied \in Nat
        /\ Ordered \in Nat /\ Placed \in Nat /\ Missed \in Nat
    BY <1>1, WireTypes
  <2>2. tokens <= starts
    BY <1>1, <2>0 DEF QuietInv
  <2>3. /\ Started = 0 /\ Wanted = 0 /\ Detected = 0 /\ Emptied = 1 /\ Ordered = 0
        /\ Placed = 0 /\ Missed = 0 /\ starts = 1 /\ tokens = 1
    <3>1. Emptied > 0
      BY <1>3, <2>1
    <3> QED
      BY <2>0, <2>1, <2>2, <3>1 DEF tokens
  <2>4. /\ \A k \in Names : state[k] = "none" => count[k] = 0
        /\ \A j, k \in Names : state[j] # "none" /\ state[k] # "none" => j = k
        /\ forged = 0 /\ retired = 0
        /\ \A m \in Modules : \A g \in Range(up[m]) : g.type # "stop"
        /\ scenes = Emptied + IF Ended THEN 1 ELSE 0
        /\ scenes > 0 => remaining = MockTotal
        /\ Ended => tokens = 0
        /\ unplaced = left
    BY <1>1, <2>0, <2>3 DEF QuietInv, Broken
  <2>5. /\ state'[n] = "finished" /\ \A k \in Names \ {n} : state'[k] = state[k]
        /\ \A k \in Names : state'[k] = "none" => state[k] = "none"
        /\ \A j, k \in Names : state'[j] # "none" /\ state'[k] # "none" => j = k
    BY <1>0, <1>1, <2>4 DEF TypeOK
  <2>6. ~Ended /\ Ended' /\ scenes = 1 /\ Emptied' = 0 /\ Started' = 0
    BY <1>1, <1>3, <2>3, <2>4, <2>5 DEF Ended
  <2>8. tokens' = 0
    BY <1>3, <1>4, <2>3 DEF tokens
  <2>9. RunningInv'
    <3>1. /\ \A g \in Range(down["algorithm"]) : g.type # "capture_cmd"
          /\ \A g \in Range(up["algorithm"]) : g.type # "detection"
          /\ \A g \in Range(down["motion"]) : g.type # "grasp_command"
          /\ \A g \in Range(up["motion"]) : g.type \notin {"placed", "not_placed"}
      BY <1>1, <2>3, NoLoops
    <3>2. \A g \in Range(up'["algorithm"]) : g.type # "empty"
      BY <1>0, <1>1, <2>6, CarriedNone DEF Wires, Emptied
    <3> QED
      BY <1>0, <1>1, <1>2, <1>4, <3>1, <3>2 DEF RunningInv, Modules
  <2>10. \A m \in Modules : \A g \in Range(up'[m]) : g.type # "stop"
    BY <1>1, <2>4
  <2> QED
    BY <1>0, <1>1, <2>0, <2>3, <2>4, <2>5, <2>6, <2>8, <2>9, <2>10 DEF QuietInv
<1> QED
  BY <1>5, <1>6, <1>7, <1>8, <1>9, PartsNext

(* A detection that starts a grasp hands its object to the motion side.     *)
LEMMA GraspStep ==
  ASSUME SInv, Grasp
  PROVE  SInv'
<1> DEFINE got == Head(up["algorithm"])
           n == got.task
           sent == Frame("grasp_command", n)
<1>0. /\ Business("algorithm", {"detection"}) /\ "algorithm" \in Modules
      /\ "motion" \in Modules
      /\ UNCHANGED <<registered, state, count, retired>>
      /\ state[n] = "running"
      /\ left' = left + IF "motion" \in registered THEN 0 ELSE 1
      /\ down' = wire("motion", sent, down)
  BY DEF Grasp, Modules, server
<1>1. /\ TypeOK /\ Balanced /\ TaskInv /\ RegisterInv /\ QuietInv
      /\ Wires(up', UpFrames)
      /\ \A k \in Modules : Range(up'[k]) \subseteq Range(up[k])
      /\ \A k \in Modules \ registered' : /\ Late(up'[k])
                                          /\ k \in joined' <=> Announced(up'[k])
      /\ got.type = "detection" /\ n \in Names
      /\ UNCHANGED <<remaining, scenes, unplaced, joined, forged, starts, noise>>
  <2>1. "register" \notin {"detection"} /\ "detection" \in Tasked
    BY DEF Tasked
  <2> QED
    BY <1>0, <2>1, BusinessRead
<1>2. /\ sent \in DownFrames /\ sent.type = "grasp_command" /\ sent.task = n
      /\ Is(sent, "capture_cmd") = 0 /\ Is(sent, "grasp_command") = 1
      /\ Is(got, "detection") = 1 /\ Is(got, "empty") = 0
  BY <1>1 DEF Frame, DownFrames, DownTypes, Is
<1>3. /\ Started' = Started /\ Detected' = Detected - 1 /\ Emptied' = Emptied
      /\ Placed' = Placed /\ Missed' = Missed
  <2>1. /\ Detected' = Detected - Is(got, "detection")
        /\ Emptied' = Emptied - Is(got, "empty") /\ Started' = Started - 0
        /\ Placed' = Placed - 0 /\ Missed' = Missed - 0
    BY <1>0, <1>1, ReadCounts DEF Business
  <2>2. Emptied \in Nat /\ Started \in Nat /\ Placed \in Nat /\ Missed \in Nat
    BY <1>1, WireTypes
  <2> QED
    BY <1>2, <2>1, <2>2
<1>10. Harmless(sent)
  BY <1>0, <1>2 DEF Harmless, Runs
<1> HIDE DEF got, n, sent
<1>4. /\ Wires(down', DownFrames) /\ Wanted' = Wanted
      /\ Ordered' = Ordered + (IF "motion" \in registered THEN 1 ELSE 0)
      /\ \A k \in Modules : \A g \in Range(down'[k]) : g \in Range(down[k]) \/ g = sent
  <2>1. /\ Wires(down', DownFrames) /\ Wanted' = Wanted + 0
        /\ Ordered' = Ordered + (IF "motion" \in registered
                                 THEN Is(sent, "grasp_command") ELSE 0)
        /\ \A k \in Modules : \A g \in Range(down'[k]) :
             g \in Range(down[k]) \/ (k = "motion" /\ g = sent)
    BY <1>0, <1>1, <1>2, SendsTo
  <2>2. Wanted \in Nat
    BY <1>1, WireTypes
  <2> QED
    BY <1>2, <2>1, <2>2
<1>5. TypeOK'
  <2>1. left' \in Nat
    BY <1>0, <1>1, NumberTypes
  <2> QED
    BY <1>0, <1>1, <1>4, <2>1 DEF TypeOK, Wires
<1>6. Balanced'
  <2>1. /\ total \in Nat /\ retired \in Nat /\ left \in Nat
        /\ Detected \in Nat /\ Ordered \in Nat /\ Placed \in Nat
    BY <1>1, NumberTypes, WireTypes
  <2>2. total' = total
    BY <1>0 DEF total
  <2>3. total' + retired' + left' + inFlight' = total + retired + left + inFlight
    BY <1>0, <1>3, <1>4, <2>1, <2>2 DEF inFlight
  <2> QED
    BY <1>1, <2>3 DEF Balanced
<1>7. TaskInv'
  BY <1>1, <1>2, <1>4, TaskKept
<1>8. RegisterInv'
  <2>1. Ordered \in Nat
    BY <1>1, WireTypes
  <2>2. /\ "algorithm" \notin registered' => Wanted' = 0
        /\ "motion" \notin registered' => Ordered' = 0
    BY <1>0, <1>1, <1>4, <2>1 DEF RegisterInv
  <2> QED
    BY <1>1, <2>2 DEF RegisterInv
<1>9. QuietInv'
  <2>1. tokens' <= tokens /\ Started' <= Started
    <3>1. /\ Started \in Nat /\ Wanted \in Nat /\ Detected \in Nat /\ Emptied \in Nat
          /\ Ordered \in Nat /\ Placed \in Nat /\ Missed \in Nat
      BY <1>1, WireTypes
    <3> QED
      BY <1>3, <1>4, <3>1 DEF tokens
  <2>5. starts <= 1 /\ noise' = 0 => left' = left \/ Broken'
    <3> SUFFICES ASSUME starts <= 1, noise = 0, "motion" \notin registered
                 PROVE  Broken'
      BY <1>0, <1>1, NumberTypes
    <3>1. /\ Started \in Nat /\ Wanted \in Nat /\ Detected \in Nat /\ Emptied \in Nat
          /\ Ordered \in Nat /\ Placed \in Nat /\ Missed \in Nat /\ Detected' \in Nat
          /\ starts \in Nat
      BY <1>1, <1>5, WireTypes, WireTypesNext, NumberTypes
    <3>2. tokens <= starts /\ (Ended => tokens = 0)
      BY <1>1 DEF QuietInv
    <3>3. Detected > 0
      BY <1>3, <3>1
    <3>4. tokens = 1 /\ starts = 1 /\ tokens' = 0
      BY <1>3, <1>4, <3>1, <3>2, <3>3 DEF tokens
    <3>5. ~Ended'
      BY <1>0, <3>2, <3>4 DEF Ended
    <3> QED
      BY <1>1, <3>4, <3>5 DEF Broken
  <2>2. Emptied \in Nat /\ scenes \in Nat
    BY <1>1, WireTypes, NumberTypes
  <2>3. starts <= 1 /\ noise' = 0 =>
          /\ noise = 0 /\ forged' = forged /\ retired' = retired
          /\ Started' <= Started /\ tokens' <= tokens
          /\ scenes' = Emptied' + (scenes - Emptied)
          /\ scenes' > 0 => remaining' = MockTotal
          /\ \A k \in Names : state[k] = "none" => count'[k] = 0
          /\ unplaced = left => unplaced' = left' \/ Broken'
    BY <1>0, <1>1, <1>3, <2>1, <2>2, <2>5 DEF QuietInv
  <2>4. \A k \in Modules :
          /\ \A g \in Range(up'[k]) : g \in Range(up[k]) \/ Harmless(g)
          /\ \A g \in Range(down'[k]) : g \in Range(down[k]) \/ Harmless(g)
    BY <1>1, <1>4, <1>10
  <2> QED
    BY <1>0, <1>1, <1>5, <2>3, <2>4, QuietKept
<1> QED
  BY <1>5, <1>6, <1>7, <1>8, <1>9, PartsNext

(* A status is answered with a result for the frontend and a capture_cmd.   *)
LEMMA SendsBoth ==
  ASSUME TypeOK, NEW result \in DownFrames, result.type = "task_result",
         NEW capture \in DownFrames, capture.type = "capture_cmd",
         down' = wire("algorithm", capture, wire("frontend", result, down))
  PROVE  /\ Wires(down', DownFrames)
         /\ Wanted' = Wanted + (IF "algorithm" \in registered THEN 1 ELSE 0)
         /\ Ordered' = Ordered
         /\ \A k \in Modules : \A g \in Range(down'[k]) :
              g \in Range(down[k]) \/ g \in {result, capture}
<1>1. Wires(down, DownFrames)
  BY WireTypes
<1>2. "frontend" \in Modules /\ "algorithm" \in Modules /\ "motion" \in Modules
  BY DEF Modules
<1>10. PICK a \in Modules : a = "frontend"
  BY <1>2
<1>11. PICK b \in Modules : b = "algorithm"
  BY <1>2
<1> DEFINE v == wire(a, result, down)
           w == wire(b, capture, v)
<1>3. /\ Wires(v, DownFrames) /\ \A k \in Modules : k # "frontend" => v[k] = down[k]
      /\ \A k \in Modules : Range(v[k]) \subseteq Range(down[k]) \cup {result}
  <2>1. Wires(v, DownFrames)
    BY <1>1, WireMeans
  <2>2. \A k \in Modules : k # a \/ a \notin registered => v[k] = down[k]
    BY <1>1, WireMeans
  <2>3. \A k \in Modules : Range(v[k]) \subseteq Range(down[k]) \cup {result}
    BY <1>1, WireMeans
  <2> HIDE DEF v
  <2> QED
    BY <1>10, <2>1, <2>2, <2>3
<1> HIDE DEF v
<1>4. /\ Wires(w, DownFrames) /\ \A k \in Modules : k # "algorithm" => w[k] = v[k]
      /\ "algorithm" \notin registered => w["algorithm"] = v["algorithm"]
      /\ "algorithm" \in registered =>
           carried(w["algorithm"], "capture_cmd")
             = carried(v["algorithm"], "capture_cmd") + Is(capture, "capture_cmd")
      /\ \A k \in Modules : Range(w[k]) \subseteq Range(v[k]) \cup {capture}
  <2>1. Wires(w, DownFrames)
    BY <1>3, WireMeans
  <2>2. \A k \in Modules : k # b \/ b \notin registered => w[k] = v[k]
    BY <1>3, WireMeans
  <2>3. b \in registered =>
          \A type : carried(w[b], type) = carried(v[b], type) + Is(capture, type)
    BY <1>3, WireMeans
  <2>4. \A k \in Modules : Range(w[k]) \subseteq Range(v[k]) \cup {capture}
    BY <1>3, WireMeans
  <2> HIDE DEF w
  <2> QED
    BY <1>2, <1>11, <2>1, <2>2, <2>3, <2>4
<1>5. down' = w
  BY <1>10, <1>11 DEF v
<1> HIDE DEF w
<1>6. Is(capture, "capture_cmd") = 1 /\ Wanted \in Nat
  BY WireTypes DEF Is
<1>7. Wanted' = Wanted + (IF "algorithm" \in registered THEN 1 ELSE 0)
  <2>1. v["algorithm"] = down["algorithm"]
    BY <1>2, <1>3
  <2>2. CASE "algorithm" \in registered
    BY <1>4, <1>5, <1>6, <2>1, <2>2 DEF Wanted
  <2>3. CASE "algorithm" \notin registered
    <3>1. Wanted' = Wanted
      BY <1>4, <1>5, <2>1, <2>3 DEF Wanted
    <3> QED
      BY <1>6, <2>3, <3>1
  <2> QED
    BY <2>2, <2>3
<1>8. Ordered' = Ordered
  <2>1. w["motion"] = down["motion"]
    BY <1>2, <1>3, <1>4
  <2> QED
    BY <1>5, <2>1 DEF Ordered
<1>9. \A k \in Modules : \A g \in Range(w[k]) :
        g \in Range(down[k]) \/ g \in {result, capture}
  BY <1>3, <1>4
<1> QED
  BY <1>4, <1>5, <1>7, <1>8, <1>9

(* A placed object goes from the wire to the count, and the loop goes on.   *)
LEMMA OnPlacedStep ==
  ASSUME SInv, OnPlaced
  PROVE  SInv'
<1> DEFINE got == Head(up["motion"])
           n == got.task
           result == Frame("task_result", n)
           capture == Frame("capture_cmd", n)
<1>0. /\ Business("motion", {"placed", "not_placed"}) /\ "motion" \in Modules
      /\ UNCHANGED <<registered, state, retired, left>>
      /\ state[n] # "none"
      /\ count' = Counted(got)
      /\ down' = wire("algorithm", capture, wire("frontend", result, down))
  BY DEF OnPlaced, Modules
<1>1. /\ TypeOK /\ Balanced /\ TaskInv /\ RegisterInv /\ QuietInv
      /\ Wires(up', UpFrames)
      /\ \A k \in Modules : Range(up'[k]) \subseteq Range(up[k])
      /\ \A k \in Modules \ registered' : /\ Late(up'[k])
                                          /\ k \in joined' <=> Announced(up'[k])
      /\ got.type \in {"placed", "not_placed"} /\ n \in Names
      /\ got \in Range(up["motion"])
      /\ UNCHANGED <<remaining, scenes, unplaced, joined, forged, starts, noise>>
  <2>1. /\ "register" \notin {"placed", "not_placed"}
        /\ {"placed", "not_placed"} \subseteq Tasked
    BY DEF Tasked
  <2> QED
    BY <1>0, <2>1, BusinessRead
<1>2. /\ result \in DownFrames /\ result.type = "task_result" /\ result.type \notin Tasked
      /\ capture \in DownFrames /\ capture.type = "capture_cmd" /\ capture.task = n
      /\ Is(got, "placed") \in {0, 1} /\ Is(got, "placed") + Is(got, "not_placed") = 1
      /\ Is(got, "not_placed") \in {0, 1}
  BY <1>1 DEF Frame, DownFrames, DownTypes, Is, Tasked
<1>3. /\ Started' = Started /\ Detected' = Detected /\ Emptied' = Emptied
      /\ Placed' = Placed - Is(got, "placed") /\ Missed' = Missed - Is(got, "not_placed")
  <2>1. /\ Detected' = Detected - 0 /\ Emptied' = Emptied - 0 /\ Started' = Started - 0
        /\ Placed'
             = Placed - Is(got, "placed") /\ Missed' = Missed - Is(got, "not_placed")
    BY <1>0, <1>1, ReadCounts DEF Business
  <2>2. Emptied \in Nat /\ Started \in Nat /\ Detected \in Nat
    BY <1>1, WireTypes
  <2> QED
    BY <2>1, <2>2
<1>4. count' = IF Is(got, "placed") = 1 THEN [count EXCEPT ![n] = @ + 1] ELSE count
  BY <1>0 DEF Counted, Is
<1>5. starts <= 1 /\ noise' = 0 => Runs(got)
  BY <1>1 DEF QuietInv, RunningInv
<1>10. /\ starts <= 1 /\ noise' = 0 => Harmless(capture)
       /\ Harmless(result)
  BY <1>0, <1>2, <1>5 DEF Harmless, Runs
<1> HIDE DEF got, n, result, capture
<1>6. /\ Wires(down', DownFrames)
      /\ Wanted' = Wanted + (IF "algorithm" \in registered THEN 1 ELSE 0)
      /\ Ordered' = Ordered
      /\ \A k \in Modules : \A g \in Range(down'[k]) :
           g \in Range(down[k]) \/ g \in {result, capture}
  BY <1>0, <1>1, <1>2, SendsBoth
<1>7. /\ count \in [Names -> Nat] /\ count' \in [Names -> Nat]
      /\ \A k \in Names : state[k] = "none" => count'[k] = count[k]
  <2>1. count \in [Names -> Nat]
    BY <1>1 DEF TypeOK
  <2> QED
    BY <1>0, <1>1, <1>4, <2>1
<1>8. TypeOK'
  BY <1>0, <1>1, <1>6, <1>7 DEF TypeOK, Wires
<1>9. Balanced'
  <2>1. total' = total + Is(got, "placed")
    <3>1. total \in Nat /\ total = Cardinality(Tallies(count))
      BY <1>1, NumberTypes, TotalIs
    <3>2. Cardinality(Tallies([count EXCEPT ![n]
            = @ + 1])) = Cardinality(Tallies(count)) + 1
      BY <1>1, <1>7, OneMore
    <3>3. total' = Cardinality(Tallies(count'))
      BY DEF total, Tallies, Tally
    <3> QED
      BY <1>2, <1>4, <3>1, <3>2, <3>3
  <2>2. /\ total \in Nat /\ retired \in Nat /\ left \in Nat
        /\ Detected \in Nat /\ Ordered \in Nat /\ Placed \in Nat
    BY <1>1, NumberTypes, WireTypes
  <2>3. total' + retired' + left' + inFlight' = total + retired + left + inFlight
    BY <1>0, <1>2, <1>3, <1>6, <2>1, <2>2 DEF inFlight
  <2> QED
    BY <1>1, <2>3 DEF Balanced
<1>11. TaskInv'
  <2>1. capture.type \in Tasked => capture.task \in Names
    BY <1>1, <1>2
  <2> QED
    BY <1>1, <1>2, <1>6, <2>1, TaskKept
<1>12. RegisterInv'
  <2>1. Wanted \in Nat
    BY <1>1, WireTypes
  <2>2. /\ "algorithm" \notin registered' => Wanted' = 0
        /\ "motion" \notin registered' => Ordered' = 0
    BY <1>0, <1>1, <1>6, <2>1 DEF RegisterInv
  <2> QED
    BY <1>1, <2>2 DEF RegisterInv
<1>13. QuietInv'
  <2>1. tokens' <= tokens /\ Started' <= Started
    <3>1. /\ Started \in Nat /\ Wanted \in Nat /\ Detected \in Nat /\ Emptied \in Nat
          /\ Ordered \in Nat /\ Placed \in Nat /\ Missed \in Nat
      BY <1>1, WireTypes
    <3> QED
      BY <1>2, <1>3, <1>6, <3>1 DEF tokens
  <2>2. Emptied \in Nat /\ scenes \in Nat
    BY <1>1, WireTypes, NumberTypes
  <2>3. starts <= 1 /\ noise' = 0 =>
          /\ noise = 0 /\ forged' = forged /\ retired' = retired
          /\ Started' <= Started /\ tokens' <= tokens
          /\ scenes' = Emptied' + (scenes - Emptied)
          /\ scenes' > 0 => remaining' = MockTotal
          /\ \A k \in Names : state[k] = "none" => count'[k] = 0
          /\ unplaced = left => unplaced' = left' \/ Broken'
    BY <1>0, <1>1, <1>3, <1>7, <2>1, <2>2 DEF QuietInv
  <2>4. starts <= 1 /\ noise' = 0 =>
          \A k \in Modules :
            /\ \A g \in Range(up'[k]) : g \in Range(up[k]) \/ Harmless(g)
            /\ \A g \in Range(down'[k]) : g \in Range(down[k]) \/ Harmless(g)
    BY <1>1, <1>6, <1>10
  <2> QED
    BY <1>0, <1>1, <1>8, <2>3, <2>4, QuietKept
<1> QED
  BY <1>8, <1>9, <1>11, <1>12, <1>13, PartsNext

(* What a client reads.                                                    *)
LEMMA ClientRead ==
  ASSUME SInv, NEW m \in Modules, NEW types, ClientReads(m, types)
  PROVE  /\ TypeOK /\ Balanced /\ TaskInv /\ RegisterInv /\ QuietInv
         /\ Wires(up, UpFrames) /\ Wires(down', DownFrames)
         /\ \A k \in Modules : Range(down'[k]) \subseteq Range(down[k])
         /\ Head(down[m]).type \in types /\ Head(down[m]) \in Range(down[m])
         /\ Head(down[m]).type \in Tasked => Head(down[m]).task \in Names
         /\ Wanted' = Wanted - (IF m = "algorithm"
                                THEN Is(Head(down[m]), "capture_cmd") ELSE 0)
         /\ Ordered' = Ordered - (IF m = "motion"
                                  THEN Is(Head(down[m]), "grasp_command") ELSE 0)
         /\ Wanted' \in Nat /\ Ordered' \in Nat
         /\ UNCHANGED <<registered, state, count, retired, joined, forged, starts, noise>>
<1>1. TypeOK /\ Balanced /\ TaskInv /\ RegisterInv /\ QuietInv
  BY Parts
<1>2. /\ Wires(down', DownFrames)
      /\ Head(down[m]).type \in types /\ Head(down[m]) \in Range(down[m])
      /\ Wanted
           = Wanted' + (IF m = "algorithm" THEN Is(Head(down[m]), "capture_cmd") ELSE 0)
      /\ Ordered
           = Ordered' + (IF m = "motion" THEN Is(Head(down[m]), "grasp_command") ELSE 0)
      /\ \A k \in Modules : Range(down'[k]) \subseteq Range(down[k])
  BY <1>1, DownLess
<1>3. Wanted' \in Nat /\ Ordered' \in Nat
  <2>1. \A k \in Modules : down'[k] \in Seq(DownFrames)
    BY <1>2 DEF Wires
  <2>2. \A k \in Modules : \A type : carried(down'[k], type) \in Nat
    BY <2>1, CarriedType
  <2> QED
    BY <2>2 DEF Modules, Wanted, Ordered
<1>4. /\ Wanted' = Wanted - (IF m = "algorithm"
                             THEN Is(Head(down[m]), "capture_cmd") ELSE 0)
      /\ Ordered' = Ordered - (IF m = "motion"
                               THEN Is(Head(down[m]), "grasp_command") ELSE 0)
  <2>1. \A x : \A y, z \in Nat : x = y + z => y = x - z
    OBVIOUS
  <2>2. /\ (IF m = "algorithm" THEN Is(Head(down[m]), "capture_cmd") ELSE 0) \in Nat
        /\ (IF m = "motion" THEN Is(Head(down[m]), "grasp_command") ELSE 0) \in Nat
    BY DEF Is
  <2> QED
    BY <1>2, <1>3, <2>1, <2>2
<1>5. Head(down[m]).type \in Tasked => Head(down[m]).task \in Names
  BY <1>1, <1>2 DEF TaskInv
<1>6. Wires(up, UpFrames)
  BY <1>1, WireTypes
<1> QED
  BY <1>1, <1>2, <1>3, <1>4, <1>5, <1>6 DEF ClientReads, server, bounds

(* A client may skip what asks for nothing.                                *)
LEMMA IdleClient ==
  ASSUME SInv, NEW m \in Modules, NEW types, ClientReads(m, types),
         m = "algorithm" => "capture_cmd" \notin types,
         m = "motion" => "grasp_command" \notin types,
         UNCHANGED <<up, remaining, scenes, left, unplaced>>
  PROVE  SInv'
<1> DEFINE got == Head(down[m])
<1>1. /\ TypeOK /\ Balanced /\ TaskInv /\ RegisterInv /\ QuietInv
      /\ Wires(up, UpFrames) /\ Wires(down', DownFrames)
      /\ \A k \in Modules : Range(down'[k]) \subseteq Range(down[k])
      /\ got.type \in types
      /\ UNCHANGED <<registered, state, count, retired, joined, forged, starts, noise>>
  BY ClientRead
<1>2. Wanted' = Wanted /\ Ordered' = Ordered
  <2>1. Wanted \in Nat /\ Ordered \in Nat
    BY <1>1, WireTypes
  <2>2. /\ m = "algorithm" => Is(got, "capture_cmd") = 0
        /\ m = "motion" => Is(got, "grasp_command") = 0
    BY <1>1 DEF Is
  <2>3. /\ Wanted' = Wanted - (IF m = "algorithm" THEN Is(got, "capture_cmd") ELSE 0)
        /\ Ordered' = Ordered - (IF m = "motion" THEN Is(got, "grasp_command") ELSE 0)
    BY ClientRead
  <2> QED
    BY <2>1, <2>2, <2>3
<1> HIDE DEF got
<1>3. /\ Started' = Started /\ Detected' = Detected /\ Emptied' = Emptied
      /\ Placed' = Placed /\ Missed' = Missed
  BY DEF Started, Detected, Emptied, Placed, Missed
<1>4. TypeOK'
  BY <1>1 DEF TypeOK, Wires
<1>5. Balanced'
  BY <1>1, <1>2, <1>3 DEF Balanced, inFlight, total
<1>6. TaskInv'
  BY <1>1, TaskKept
<1>7. RegisterInv'
  BY <1>1, <1>2 DEF RegisterInv
<1>8. QuietInv'
  <2>1. tokens' = tokens /\ tokens \in Nat /\ Started \in Nat
    BY <1>1, <1>2, <1>3, NumberTypes, WireTypes DEF tokens
  <2>2. Emptied \in Nat /\ scenes \in Nat
    BY <1>1, WireTypes, NumberTypes
  <2>3. starts <= 1 /\ noise' = 0 =>
          /\ noise = 0 /\ forged' = forged /\ retired' = retired
          /\ Started' <= Started /\ tokens' <= tokens
          /\ scenes' = Emptied' + (scenes - Emptied)
          /\ scenes' > 0 => remaining' = MockTotal
          /\ \A k \in Names : state[k] = "none" => count'[k] = 0
          /\ unplaced = left => unplaced' = left' \/ Broken'
    BY <1>1, <1>3, <2>1, <2>2 DEF QuietInv
  <2> QED
    BY <1>1, <1>4, <2>3, QuietKept
<1> QED
  BY <1>4, <1>5, <1>6, <1>7, <1>8, PartsNext

(* The frames that the clients log or skip are of this kind.               *)
LEMMA SkipStep ==
  ASSUME SInv, FrontendReads \/ AlgorithmSkips \/ MotionSkips
  PROVE  SInv'
<1>1. "frontend" \in Modules /\ "algorithm" \in Modules /\ "motion" \in Modules
  BY DEF Modules
<1>2. CASE FrontendReads
  BY <1>1, <1>2, IdleClient DEF FrontendReads
<1>3. CASE AlgorithmSkips
  BY <1>1, <1>3, IdleClient DEF AlgorithmSkips
<1>4. CASE MotionSkips
  BY <1>1, <1>4, IdleClient DEF MotionSkips, skipped
<1> QED
  BY <1>2, <1>3, <1>4

(* The planning service complains about a frame that is not for it.        *)
LEMMA MotionComplainsStep ==
  ASSUME SInv, MotionComplains
  PROVE  SInv'
<1> DEFINE got  == Head(down["motion"])
           sent == Plain("error_report")
           types == {"stray_report", "error_report"} \ skipped
<1>0. /\ ClientReads("motion", types) /\ "motion" \in Modules
      /\ Sends("motion", sent) /\ UNCHANGED <<remaining, scenes, left, unplaced>>
      /\ types = {"stray_report"}
  BY DEF MotionComplains, Modules, skipped
<1>1. /\ TypeOK /\ Balanced /\ TaskInv /\ RegisterInv /\ QuietInv
      /\ Wires(down', DownFrames)
      /\ \A k \in Modules : Range(down'[k]) \subseteq Range(down[k])
      /\ got.type \in types
      /\ Wanted' = Wanted - 0 /\ Ordered' = Ordered - Is(got, "grasp_command")
      /\ UNCHANGED <<registered, state, count, retired, joined, forged, starts, noise>>
  BY <1>0, ClientRead
<1>2. /\ sent \in UpFrames /\ sent.type = "error_report" /\ sent.type \notin Tasked
      /\ sent.type \notin Weighty
      /\ Is(got, "grasp_command") = 0
      /\ Is(sent, "detection") = 0 /\ Is(sent, "empty") = 0
      /\ Is(sent, "placed") = 0 /\ Is(sent, "not_placed") = 0
  BY <1>0, <1>1, UpTypesAre DEF Plain, Frame, UpFrames, Tasked, Weighty, Is
<1>3. Wanted' = Wanted /\ Ordered' = Ordered
  BY <1>1, <1>2, WireTypes
<1> HIDE DEF got, sent, types
<1>4. /\ Wires(up', UpFrames)
      /\ Started' = Started /\ Detected' = Detected /\ Emptied' = Emptied
      /\ Placed' = Placed /\ Missed' = Missed
      /\ \A k \in Modules : Range(up'[k]) \subseteq Range(up[k]) \cup {sent}
  <2>1. /\ Wires(up', UpFrames)
        /\ Started' = Started + 0 /\ Detected' = Detected + 0 /\ Emptied' = Emptied + 0
        /\ Placed'
             = Placed + Is(sent, "placed") /\ Missed' = Missed + Is(sent, "not_placed")
        /\ \A k \in Modules :
             Range(up'[k]) = Range(up[k]) \cup (IF k = "motion" THEN {sent} ELSE {})
    BY <1>0, <1>1, <1>2, UpMore
  <2>2. /\ Started \in Nat /\ Detected \in Nat /\ Emptied \in Nat
        /\ Placed \in Nat /\ Missed \in Nat
    BY <1>1, WireTypes
  <2> QED
    BY <1>2, <2>1, <2>2
<1>5. TypeOK'
  BY <1>0, <1>1, <1>4 DEF TypeOK, Wires
<1>6. Balanced'
  BY <1>0, <1>1, <1>3, <1>4 DEF Balanced, inFlight, total
<1>7. TaskInv'
  BY <1>1, <1>2, <1>4, TaskKept
<1>8. RegisterInv'
  <2>1. \A k \in Modules \ registered' : /\ Late(up'[k])
                                         /\ k \in joined' <=> Announced(up'[k])
    BY <1>0, <1>1, <1>2, RegisterSend
  <2> QED
    BY <1>1, <1>3, <2>1 DEF RegisterInv
<1>9. QuietInv'
  <2>1. tokens' = tokens /\ tokens \in Nat /\ Started \in Nat
    BY <1>1, <1>3, <1>4, NumberTypes, WireTypes DEF tokens
  <2>2. Emptied \in Nat /\ scenes \in Nat
    BY <1>1, WireTypes, NumberTypes
  <2>3. starts <= 1 /\ noise' = 0 =>
          /\ noise = 0 /\ forged' = forged /\ retired' = retired
          /\ Started' <= Started /\ tokens' <= tokens
          /\ scenes' = Emptied' + (scenes - Emptied)
          /\ scenes' > 0 => remaining' = MockTotal
          /\ \A k \in Names : state[k] = "none" => count'[k] = 0
          /\ unplaced = left => unplaced' = left' \/ Broken'
    BY <1>0, <1>1, <1>4, <2>1, <2>2 DEF QuietInv
  <2>4. Harmless(sent)
    BY <1>2 DEF Harmless
  <2> QED
    BY <1>1, <1>4, <1>5, <2>3, <2>4, QuietKept
<1> QED
  BY <1>5, <1>6, <1>7, <1>8, <1>9, PartsNext

(* The detector takes an object from the scene, or fills it again.         *)
LEMMA AlgorithmAnswersStep ==
  ASSUME SInv, AlgorithmAnswers
  PROVE  SInv'
<1> DEFINE got  == Head(down["algorithm"])
           sent == Frame(mock_detect[1], got.task)
<1>0. /\ ClientReads("algorithm", {"capture_cmd"}) /\ "algorithm" \in Modules
      /\ Sends("algorithm", sent) /\ left' = left /\ unplaced' = unplaced
      /\ remaining' = mock_detect[2]
      /\ scenes' = scenes + IF mock_detect[1] = "empty" THEN 1 ELSE 0
  BY DEF AlgorithmAnswers, Modules
<1>1. /\ TypeOK /\ Balanced /\ TaskInv /\ RegisterInv /\ QuietInv
      /\ Wires(down', DownFrames)
      /\ \A k \in Modules : Range(down'[k]) \subseteq Range(down[k])
      /\ got.type
           = "capture_cmd" /\ got \in Range(down["algorithm"]) /\ got.task \in Names
      /\ Wanted' = Wanted - Is(got, "capture_cmd") /\ Ordered' = Ordered - 0
      /\ Wanted' \in Nat
      /\ UNCHANGED <<registered, state, count, retired, joined, forged, starts, noise>>
  <2>1. "capture_cmd" \in Tasked
    BY DEF Tasked
  <2> QED
    BY <1>0, <2>1, ClientRead
<1>2. \/ /\ remaining = 0 /\ sent.type = "empty"
         /\ remaining' = MockTotal /\ scenes' = scenes + 1
      \/ /\ remaining # 0 /\ sent.type = "detection"
         /\ remaining' = remaining - 1 /\ scenes' = scenes
  <2>1. scenes \in Nat
    BY <1>1, NumberTypes
  <2> QED
    BY <1>0, <2>1 DEF mock_detect, Frame
<1>3. sent \in UpFrames /\ sent.task = got.task /\ sent.type \in {"detection", "empty"}
  BY <1>1, <1>2, UpTypesAre DEF Frame, UpFrames
<1>4. Wanted' = Wanted - 1 /\ Ordered' = Ordered /\ Wanted > 0
  <2>1. Is(got, "capture_cmd") = 1
    BY <1>1 DEF Is
  <2>2. Wanted \in Nat /\ Ordered \in Nat
    BY <1>1, WireTypes
  <2> QED
    BY <1>1, <2>1, <2>2
<1>5. "algorithm" \in registered /\ "algorithm" \in joined
  BY <1>1, <1>4 DEF RegisterInv, TypeOK
<1>6. starts <= 1 /\ noise' = 0 => Runs(got)
  BY <1>1 DEF QuietInv, RunningInv
<1> HIDE DEF got, sent
<1>7. /\ Wires(up', UpFrames)
      /\ Started' = Started /\ Placed' = Placed /\ Missed' = Missed
      /\ Detected' = Detected + Is(sent, "detection")
      /\ Emptied' = Emptied + Is(sent, "empty")
      /\ \A k \in Modules : Range(up'[k]) \subseteq Range(up[k]) \cup {sent}
  <2>1. /\ Wires(up', UpFrames)
        /\ Started' = Started + 0 /\ Placed' = Placed + 0 /\ Missed' = Missed + 0
        /\ Detected' = Detected + Is(sent, "detection")
        /\ Emptied' = Emptied + Is(sent, "empty")
        /\ \A k \in Modules :
             Range(up'[k]) = Range(up[k]) \cup (IF k = "algorithm" THEN {sent} ELSE {})
    BY <1>0, <1>1, <1>3, UpMore
  <2>2. Started \in Nat /\ Placed \in Nat /\ Missed \in Nat
    BY <1>1, WireTypes
  <2> QED
    BY <2>1, <2>2
<1>8. /\ scenes \in Nat /\ remaining \in 0..MockTotal /\ MockTotal \in Nat
      /\ total \in Nat /\ retired \in Nat /\ left \in Nat /\ forged \in Nat
      /\ Started \in Nat /\ Wanted \in Nat /\ Detected \in Nat /\ Emptied \in Nat
      /\ Ordered \in Nat /\ Placed \in Nat /\ Missed \in Nat
  BY <1>1, NumberTypes, WireTypes
<1>9. TypeOK'
  <2>1. remaining' \in 0..MockTotal /\ scenes' \in Nat
    BY <1>2, <1>8
  <2> QED
    BY <1>0, <1>1, <1>7, <2>1 DEF TypeOK, Wires
<1>10. Balanced'
  <2>1. total' = total
    BY <1>1 DEF total
  <2>2. inFlight' = inFlight + Is(sent, "detection") /\ inFlight \in Nat
    BY <1>3, <1>4, <1>7, <1>8 DEF inFlight, Is
  <2>3. /\ scenes * MockTotal \in Nat
        /\ (scenes + 1) * MockTotal = scenes * MockTotal + MockTotal
    BY <1>8
  <2>4. CASE remaining = 0
    <3>1. /\ Is(sent, "detection") = 0 /\ remaining' = MockTotal
          /\ scenes' * MockTotal = scenes * MockTotal + MockTotal
      BY <1>2, <2>3, <2>4 DEF Is
    <3> QED
      BY <1>0, <1>1, <1>8, <2>1, <2>2, <2>3, <2>4, <3>1 DEF Balanced
  <2>5. CASE remaining # 0
    <3>1. Is(sent, "detection") = 1 /\ remaining' = remaining - 1 /\ scenes' = scenes
      BY <1>2, <2>5 DEF Is
    <3> QED
      BY <1>0, <1>1, <1>8, <2>1, <2>2, <2>3, <3>1 DEF Balanced
  <2> QED
    BY <2>4, <2>5
<1>11. TaskInv'
  BY <1>1, <1>3, <1>7, TaskKept
<1>12. RegisterInv'
  <2>1. \A k \in Modules \ registered' : /\ Late(up'[k])
                                         /\ k \in joined' <=> Announced(up'[k])
    BY <1>0, <1>1, <1>3, <1>5, RegisterSend
  <2>2. /\ "algorithm" \notin registered' => Wanted' = 0
        /\ "motion" \notin registered' => Ordered' = 0
    BY <1>1, <1>4, <1>5 DEF RegisterInv
  <2> QED
    BY <2>1, <2>2 DEF RegisterInv
<1>13. QuietInv'
  <2>1. tokens' <= tokens /\ Started' <= Started
    BY <1>3, <1>4, <1>7, <1>8 DEF tokens, Is
  <2>2. starts <= 1 /\ noise' = 0 => scenes = 0
    <3> SUFFICES ASSUME starts <= 1, noise = 0
                 PROVE  scenes = 0
      BY <1>1
    <3>1. tokens <= starts /\ scenes = Emptied + (IF Ended THEN 1 ELSE 0)
      BY <1>1 DEF QuietInv
    <3>2. Ended => tokens = 0
      BY <1>1 DEF QuietInv
    <3>3. starts \in Nat
      BY <1>1, NumberTypes
    <3>4. tokens >= 1 /\ Emptied = 0
      BY <1>4, <1>8, <3>1, <3>3 DEF tokens
    <3> QED
      BY <3>1, <3>2, <3>4
  <2>3. scenes' = Emptied' + (scenes - Emptied)
    BY <1>2, <1>7, <1>8 DEF Is
  <2>4. starts <= 1 /\ noise' = 0 =>
          /\ noise = 0 /\ forged' = forged /\ retired' = retired
          /\ Started' <= Started /\ tokens' <= tokens
          /\ scenes' = Emptied' + (scenes - Emptied)
          /\ scenes' > 0 => remaining' = MockTotal
          /\ \A k \in Names : state[k] = "none" => count'[k] = 0
          /\ unplaced = left => unplaced' = left' \/ Broken'
    BY <1>0, <1>1, <1>2, <2>1, <2>2, <2>3 DEF QuietInv
  <2>5. starts <= 1 /\ noise' = 0 => Harmless(sent)
    BY <1>3, <1>6 DEF Harmless, Runs
  <2>6. starts <= 1 /\ noise' = 0 =>
          \A k \in Modules :
            /\ \A g \in Range(up'[k]) : g \in Range(up[k]) \/ Harmless(g)
            /\ \A g \in Range(down'[k]) : g \in Range(down[k]) \/ Harmless(g)
    BY <1>1, <1>7, <2>5
  <2> QED
    BY <1>1, <1>9, <2>4, <2>6, QuietKept
<1> QED
  BY <1>9, <1>10, <1>11, <1>12, <1>13, PartsNext

(* The motion side reports the object of a grasp as placed, or leaves it.   *)
LEMMA MotionAnswersStep ==
  ASSUME SInv, MotionAnswers
  PROVE  SInv'
<1> DEFINE got == Head(down["motion"])
<1>0. PICK t \in reports \cup {"error_report"} :
        /\ Sends("motion", Frame(t, got.task))
        /\ left' = left + IF t = "placed" THEN 0 ELSE 1
        /\ unplaced' = unplaced + IF t = "not_placed" THEN 1 ELSE 0
  BY DEF MotionAnswers
<1> DEFINE sent == Frame(t, got.task)
<1>1. /\ ClientReads("motion", {"grasp_command"}) /\ "motion" \in Modules
      /\ UNCHANGED <<remaining, scenes>>
  BY DEF MotionAnswers, Modules
<1>2. /\ TypeOK /\ Balanced /\ TaskInv /\ RegisterInv /\ QuietInv
      /\ Wires(down', DownFrames)
      /\ \A k \in Modules : Range(down'[k]) \subseteq Range(down[k])
      /\ got.type = "grasp_command" /\ got \in Range(down["motion"]) /\ got.task \in Names
      /\ Wanted' = Wanted - 0 /\ Ordered' = Ordered - Is(got, "grasp_command")
      /\ Ordered' \in Nat
      /\ UNCHANGED <<registered, state, count, retired, joined, forged, starts, noise>>
  <2>1. "grasp_command" \in Tasked
    BY DEF Tasked
  <2> QED
    BY <1>1, <2>1, ClientRead
<1>3. /\ sent \in UpFrames /\ sent.task = got.task /\ sent.type = t
      /\ t \in {"placed", "not_placed", "planned", "error_report"}
      /\ Sends("motion", sent)
  BY <1>0, <1>2, UpTypesAre DEF Frame, UpFrames, reports
<1>4. Wanted' = Wanted /\ Ordered' = Ordered - 1 /\ Ordered > 0
  <2>1. Is(got, "grasp_command") = 1
    BY <1>2 DEF Is
  <2>2. Wanted \in Nat /\ Ordered \in Nat
    BY <1>2, WireTypes
  <2> QED
    BY <1>2, <2>1, <2>2
<1>5. "motion" \in registered /\ "motion" \in joined
  BY <1>2, <1>4 DEF RegisterInv, TypeOK
<1>6. starts <= 1 /\ noise' = 0 => Runs(got)
  BY <1>2 DEF QuietInv, RunningInv
<1> HIDE DEF got, sent
<1>7. /\ Wires(up', UpFrames)
      /\ Started' = Started /\ Detected' = Detected /\ Emptied' = Emptied
      /\ Placed' = Placed + Is(sent, "placed")
      /\ Missed' = Missed + Is(sent, "not_placed")
      /\ \A k \in Modules : Range(up'[k]) \subseteq Range(up[k]) \cup {sent}
  <2>1. /\ Wires(up', UpFrames)
        /\ Started' = Started + 0 /\ Detected' = Detected + 0 /\ Emptied' = Emptied + 0
        /\ Placed' = Placed + Is(sent, "placed")
        /\ Missed' = Missed + Is(sent, "not_placed")
        /\ \A k \in Modules :
             Range(up'[k]) = Range(up[k]) \cup (IF k = "motion" THEN {sent} ELSE {})
    BY <1>1, <1>2, <1>3, UpMore
  <2>2. Started \in Nat /\ Detected \in Nat /\ Emptied \in Nat
    BY <1>2, WireTypes
  <2> QED
    BY <2>1, <2>2
<1>8. /\ scenes \in Nat /\ total \in Nat /\ retired \in Nat /\ left \in Nat
      /\ unplaced \in Nat /\ Started \in Nat /\ Wanted \in Nat /\ Detected \in Nat /\ Emptied \in Nat
      /\ Ordered \in Nat /\ Placed \in Nat /\ Missed \in Nat
  BY <1>2, NumberTypes, WireTypes
<1>9. TypeOK'
  <2>1. left' \in Nat /\ unplaced' \in Nat
    BY <1>0, <1>8
  <2> QED
    BY <1>1, <1>2, <1>7, <2>1 DEF TypeOK, Wires
<1>10. Balanced'
  <2>1. total' = total
    BY <1>2 DEF total
  <2>2. left' = left + (IF t = "placed" THEN 0 ELSE 1)
    BY <1>0
  <2>3. Is(sent, "placed") = IF t = "placed" THEN 1 ELSE 0
    BY <1>3 DEF Is
  <2>4. total' + retired' + left' + inFlight' = total + retired + left + inFlight
    BY <1>2, <1>4, <1>7, <1>8, <2>1, <2>2, <2>3 DEF inFlight
  <2> QED
    BY <1>1, <1>2, <2>4 DEF Balanced
<1>11. TaskInv'
  BY <1>2, <1>3, <1>7, TaskKept
<1>12. RegisterInv'
  <2>1. \A k \in Modules \ registered' : /\ Late(up'[k])
                                         /\ k \in joined' <=> Announced(up'[k])
    BY <1>1, <1>2, <1>3, <1>5, RegisterSend
  <2>2. /\ "algorithm" \notin registered' => Wanted' = 0
        /\ "motion" \notin registered' => Ordered' = 0
    BY <1>2, <1>4, <1>5 DEF RegisterInv
  <2> QED
    BY <2>1, <2>2 DEF RegisterInv
<1>13. QuietInv'
  <2>1. tokens' <= tokens /\ Started' <= Started
    BY <1>3, <1>4, <1>7, <1>8 DEF tokens, Is
  <2>5. starts <= 1 /\ noise' = 0 => (unplaced = left => unplaced' = left' \/ Broken')
    <3>1. CASE t = "placed" \/ t = "not_placed"
      BY <1>0, <1>8, <3>1
    <3>2. CASE t # "placed" /\ t # "not_placed"
      <4> SUFFICES ASSUME starts <= 1, noise = 0
                   PROVE  Broken'
        BY <1>2
      <4>1. tokens <= starts /\ (Ended => tokens = 0)
        BY <1>2 DEF QuietInv
      <4>2. starts \in Nat
        BY <1>2, NumberTypes
      <4>3. Is(sent, "placed") = 0 /\ Is(sent, "not_placed") = 0
        BY <1>3, <3>2 DEF Is
      <4>4. tokens = 1 /\ starts = 1 /\ tokens' = 0
        BY <1>4, <1>7, <1>8, <4>1, <4>2, <4>3 DEF tokens
      <4>5. ~Ended'
        BY <1>2, <4>1, <4>4 DEF Ended
      <4> QED
        BY <1>2, <4>4, <4>5 DEF Broken
    <3> QED
      BY <3>1, <3>2
  <2>2. starts <= 1 /\ noise' = 0 =>
          /\ noise = 0 /\ forged' = forged /\ retired' = retired
          /\ Started' <= Started /\ tokens' <= tokens
          /\ scenes' = Emptied' + (scenes - Emptied)
          /\ scenes' > 0 => remaining' = MockTotal
          /\ \A k \in Names : state[k] = "none" => count'[k] = 0
          /\ unplaced = left => unplaced' = left' \/ Broken'
    BY <1>1, <1>2, <1>7, <1>8, <2>1, <2>5 DEF QuietInv
  <2>3. starts <= 1 /\ noise' = 0 => Harmless(sent)
    BY <1>3, <1>6 DEF Harmless, Runs
  <2>4. starts <= 1 /\ noise' = 0 =>
          \A k \in Modules :
            /\ \A g \in Range(up'[k]) : g \in Range(up[k]) \/ Harmless(g)
            /\ \A g \in Range(down'[k]) : g \in Range(down[k]) \/ Harmless(g)
    BY <1>2, <1>7, <2>3
  <2> QED
    BY <1>2, <1>9, <2>2, <2>4, QuietKept
<1> QED
  BY <1>9, <1>10, <1>11, <1>12, <1>13, PartsNext
-----------------------------------------------------------------------------
(* Theorems                                                                 *)

(* A step that changes nothing.                                            *)
LEMMA Stutter ==
  ASSUME SInv, UNCHANGED vars
  PROVE  SInv'
<1>1. /\ TypeOK' = TypeOK /\ TaskInv' = TaskInv /\ RegisterInv' = RegisterInv
      /\ total' = total /\ inFlight' = inFlight /\ tokens' = tokens
  BY DEF vars, server, bounds, TypeOK, TaskInv, RegisterInv, total, inFlight, tokens,
         Started, Wanted, Detected, Emptied, Ordered, Placed, Missed
<1>2. CountIsTrue'
  BY <1>1 DEF SInv, CountIsTrue, vars, server, bounds
<1>3. QuietInv' = QuietInv
  BY <1>1 DEF QuietInv, RunningInv, Runs, Ended, Broken, Started, Emptied, vars, server, bounds
<1> QED
  BY <1>1, <1>2, <1>3 DEF SInv

(* Every step of the loop keeps the invariant.                             *)
LEMMA StepHolds == SInv /\ [Next]_vars => SInv'
<1> SUFFICES ASSUME SInv, [Next]_vars
             PROVE  SInv'
  OBVIOUS
<1>1. CASE UNCHANGED vars
  BY <1>1, Stutter
<1>2. ASSUME NEW m \in Modules, Join(m) \/ SendNoise(m) \/ SendStop(m) \/ Handler(m)
      PROVE  SInv'
  <2>1. CASE Join(m) \/ SendNoise(m)
    BY <2>1, JoinStep
  <2>6. CASE SendStop(m)
    BY <2>6, SendStopStep
  <2>2. CASE \/ Undecodable(m) \/ HandleRegister(m) \/ RouteRefused(m) \/ Logged(m)
             \/ m = "frontend" /\ TaskIdRefused
    BY <2>2, IdleHandler
  <2>3. CASE OnTaskStart \/ OnStop(m)
    BY <2>3, OnTaskStartStep, OnStopStep
  <2>4. CASE DetectionIgnored \/ SceneEmpty \/ Grasp
    BY <2>4, DetectionIgnoredStep, SceneEmptyStep, GraspStep
  <2>5. CASE OnPlaced \/ PlacedUnknown
    BY <2>5, OnPlacedStep, PlacedUnknownStep
  <2> QED
    BY <1>2, <2>1, <2>2, <2>3, <2>4, <2>5, <2>6 DEF Handler
<1>3. ASSUME NEW n \in Names, SendStart(n)
      PROVE  SInv'
  BY <1>3, SendStartStep
<1>4. CASE SendPlaced
  BY <1>4, SendPlacedStep
<1>5. CASE FrontendReads \/ AlgorithmStep \/ MotionStep
  BY <1>5, SkipStep, AlgorithmAnswersStep, MotionAnswersStep, MotionComplainsStep
     DEF AlgorithmStep, MotionStep
<1> QED
  BY <1>1, <1>2, <1>3, <1>4, <1>5 DEF Next

(* The invariant holds, for any number of tasks, objects and bad frames.    *)
THEOREM Invariance == Spec => []SInv
BY InitHolds, StepHolds, PTL DEF Spec

(* Every object is on its way, counted once, or left for a reason.          *)
THEOREM EveryObjectCounted == Spec => []CountIsTrue
<1>1. SInv => CountIsTrue
  BY DEF SInv
<1> QED
  BY <1>1, Invariance, PTL

(* A task that ends alone and undisturbed has sorted the whole scene, but   *)
(* what the motion side could not place.                                   *)
THEOREM SceneSorted == Spec => []SceneIsSorted
<1>1. SInv => SceneIsSorted
  <2> SUFFICES ASSUME SInv, starts = 1, noise = 0,
                      NEW n \in Names, state[n] = "finished"
               PROVE  count[n] + unplaced = MockTotal
    BY DEF SceneIsSorted
  <2>1. TypeOK /\ Balanced /\ QuietInv
    BY Parts
  <2>2. /\ forged = 0 /\ retired = 0 /\ tokens = 0 /\ Ended
        /\ \A k \in Names : state[k] = "none" => count[k] = 0
        /\ \A j, k \in Names : state[j] # "none" /\ state[k] # "none" => j = k
        /\ scenes = Emptied + (IF Ended THEN 1 ELSE 0)
        /\ scenes > 0 => remaining = MockTotal
        /\ unplaced = left
    BY <2>1 DEF QuietInv, Ended, Broken
  <2>3. Detected = 0 /\ Emptied = 0 /\ Ordered = 0 /\ Placed = 0
    <3>1. /\ Started \in Nat /\ Wanted \in Nat /\ Detected \in Nat /\ Emptied \in Nat
          /\ Ordered \in Nat /\ Placed \in Nat /\ Missed \in Nat
      BY <2>1, WireTypes
    <3>2. tokens = 0
      BY <2>2
    <3> QED
      BY <3>1, <3>2 DEF tokens
  <2>4. total = count[n] /\ count[n] \in Nat
    <3>1. count \in [Names -> Nat]
      BY <2>1 DEF TypeOK
    <3>2. \A k \in Names : k # n => count[k] = 0
      BY <2>2
    <3> QED
      BY <3>1, <3>2, OnlyOne, TotalIs
  <2>5. /\ scenes = 1 /\ remaining = MockTotal /\ inFlight = 0
        /\ MockTotal \in Nat /\ left \in Nat
    BY <2>1, <2>2, <2>3, NumberTypes DEF inFlight
  <2> QED
    BY <2>1, <2>2, <2>4, <2>5 DEF Balanced
<1> QED
  BY <1>1, Invariance, PTL
=============================================================================
