--------------------------- MODULE SendRampProofs ---------------------------
(***************************************************************************)
(* Theorems about SendRamp, for any messages and domains, any sizes, any   *)
(* succession of configured schedules, any number of days and any windows  *)
(* that satisfy RetentionAssumption.                                       *)
(***************************************************************************)
EXTENDS SendRamp, FiniteSetTheorems, WellFoundedInduction, TLAPS

(* Sums over reservations.  The units of a set of messages are counted as  *)
(* the elements of a disjoint union, whose cardinality the library's       *)
(* theorems are about.                                                     *)

Total(S) == MapThenSumSet(LAMBDA m : Units[m], S)

Boxes(S) == {p \in S \X Nat : p[2] \in 1..Units[p[1]]}
Box(m) == {m} \X (1..Units[m])

\* The recursion of MapThenSumSet, as it unfolds.
SumBody(g, s) == IF s = {} THEN 0 ELSE Units[CHOOSE x \in s : TRUE] + g[s \ {CHOOSE x \in s : TRUE}]
SumIter(S) == CHOOSE g : g = [s \in SUBSET S |-> SumBody(g, s)]

\* Total is the iteration of one function over the subsets of the set.
LEMMA TotalUnfolds ==
  ASSUME NEW S
  PROVE  Total(S) = SumIter(S)[S]
  BY DEF Total, MapThenSumSet, MapThenFoldSet, SumIter, SumBody

\* The size of the union of two finite disjoint sets.
LEMMA DisjointUnion ==
  ASSUME NEW A, NEW B, IsFiniteSet(A), IsFiniteSet(B), A \cap B = {}
  PROVE  IsFiniteSet(A \cup B) /\ Cardinality(A \cup B) = Cardinality(A) + Cardinality(B)
<1>1. Cardinality(A \cup B) = Cardinality(A) + Cardinality(B) - Cardinality(A \cap B) /\ IsFiniteSet(A \cup B)
  BY FS_Union
<1>2. Cardinality(A \cap B) = 0
  BY FS_EmptySet
<1>3. Cardinality(A) \in Nat /\ Cardinality(B) \in Nat
  BY FS_CardinalityType
<1> QED
  BY <1>1, <1>2, <1>3

\* A message of n units is a box of n elements.
LEMMA BoxFact ==
  ASSUME NEW m \in Messages
  PROVE  Units[m] \in Nat /\ Units[m] > 0 /\ IsFiniteSet(Box(m)) /\ Cardinality(Box(m)) = Units[m]
<1>1. Units[m] \in Nat /\ Units[m] > 0
  BY UnitsAssumption
<1>2. IsFiniteSet(1..Units[m]) /\ Cardinality(1..Units[m]) = Units[m]
  <2> DEFINE n == Units[m]
  <2>1. n \in Int /\ 1 \in Int /\ n \in Nat /\ n > 0
    BY <1>1
  <2> HIDE DEF n
  <2>2. IsFiniteSet(1..n) /\ Cardinality(1..n) = IF 1 > n THEN 0 ELSE n - 1 + 1
    BY <2>1, FS_Interval
  <2>3. IsFiniteSet(1..n) /\ Cardinality(1..n) = n
    BY <2>1, <2>2
  <2> QED
    BY <2>3 DEF n
<1>3. IsFiniteSet({m}) /\ Cardinality({m}) = 1
  BY FS_Singleton
<1>4. IsFiniteSet(Box(m)) /\ Cardinality(Box(m)) = 1 * Units[m]
  <2> DEFINE S == {m}
             T == 1..Units[m]
  <2>1. IsFiniteSet(S) /\ IsFiniteSet(T) /\ Cardinality(S) = 1 /\ Cardinality(T) = Units[m] /\ Box(m) = S \X T
    BY <1>2, <1>3 DEF Box
  <2> HIDE DEF S, T
  <2>2. IsFiniteSet(S \X T) /\ Cardinality(S \X T) = Cardinality(S) * Cardinality(T)
    BY <2>1, FS_Product
  <2> QED
    BY <2>1, <2>2, Zenon
<1> QED
  BY <1>1, <1>4

\* The boxes of a set are those of the rest and of one member, apart.
LEMMA BoxesSplit ==
  ASSUME NEW S \in SUBSET Messages, NEW m \in S
  PROVE  Boxes(S) = Boxes(S \ {m}) \cup Box(m) /\ Boxes(S \ {m}) \cap Box(m) = {}
  BY UnitsAssumption DEF Boxes, Box

\* An induction over the subsets of Messages: a smallest one that is bad would
\* not be bad.
LEMMA SmallestSet ==
  ASSUME NEW Bad \in SUBSET (SUBSET Messages), Bad # {}
  PROVE  \E s \in Bad : \A x \in s : s \ {x} \notin Bad
<1>1. Bad \subseteq FiniteSubsetsOf(Messages)
  BY MessagesAssumption, FS_Subset DEF FiniteSubsetsOf
<1>2. IsWellFoundedOn(StrictSubsetOrdering(Messages), FiniteSubsetsOf(Messages))
  BY FS_StrictSubsetOrderingWellFounded
<1>3. PICK s \in Bad : \A t \in Bad : ~(<<t, s>> \in StrictSubsetOrdering(Messages))
  BY <1>1, <1>2, WFMin, Zenon
<1>4. ASSUME NEW x \in s, s \ {x} \in Bad PROVE FALSE
  <2>1. s \ {x} \in SUBSET Messages /\ s \in SUBSET Messages /\ s \ {x} \subseteq s /\ s \ {x} # s
    BY <1>4
  <2>2. <<s \ {x}, s>> \in StrictSubsetOrdering(Messages)
    BY <2>1 DEF StrictSubsetOrdering
  <2> QED
    BY <1>3, <1>4, <2>2
<1> QED
  BY <1>4

\* Finitely many messages fill finitely many boxes (no least set has infinitely many).
LEMMA BoxesAreFinite ==
  ASSUME NEW S \in SUBSET Messages
  PROVE  IsFiniteSet(Boxes(S))
<1> DEFINE Bad == {s \in SUBSET Messages : ~IsFiniteSet(Boxes(s))}
<1>1. SUFFICES ASSUME Bad # {} PROVE FALSE
  OBVIOUS
<1>2. PICK s \in Bad : \A x \in s : s \ {x} \notin Bad
  <2>1. Bad \in SUBSET (SUBSET Messages)
    OBVIOUS
  <2> HIDE DEF Bad
  <2> QED
    BY <1>1, <2>1, SmallestSet
<1>3. CASE s = {}
  BY <1>2, <1>3, FS_EmptySet DEF Boxes
<1>4. ASSUME NEW x \in s PROVE FALSE
  <2>1. s \in SUBSET Messages /\ x \in Messages
    BY <1>2, <1>4
  <2>2. IsFiniteSet(Boxes(s \ {x}))
    BY <1>2, <1>4
  <2>3. IsFiniteSet(Boxes(s \ {x}) \cup Box(x))
    BY <2>1, <2>2, BoxFact, FS_Union
  <2> QED
    BY <1>2, <1>4, <2>1, <2>3, BoxesSplit
<1> QED
  BY <1>3, <1>4

\* Taking one message out of a set takes out its units.
LEMMA BoxesCount ==
  ASSUME NEW S \in SUBSET Messages, NEW m \in S
  PROVE  Cardinality(Boxes(S)) = Units[m] + Cardinality(Boxes(S \ {m}))
<1>0. S \ {m} \in SUBSET Messages /\ m \in Messages
  OBVIOUS
<1>1. /\ IsFiniteSet(Boxes(S \ {m})) /\ IsFiniteSet(Box(m)) /\ Cardinality(Box(m)) = Units[m] /\ Units[m] \in Nat
      /\ Cardinality(Boxes(S \ {m})) \in Nat
  BY <1>0, BoxesAreFinite, BoxFact, FS_CardinalityType
<1>2. Cardinality(Boxes(S \ {m}) \cup Box(m)) = Cardinality(Boxes(S \ {m})) + Cardinality(Box(m))
  BY <1>1, BoxesSplit, DisjointUnion
<1>3. Cardinality(Boxes(S)) = Cardinality(Boxes(S \ {m}) \cup Box(m))
  BY BoxesSplit
<1> QED
  BY <1>1, <1>2, <1>3

\* Total counts boxes: a least set on which it did not would lose a member.
LEMMA TotalIsCount ==
  ASSUME NEW S \in SUBSET Messages
  PROVE  Total(S) = Cardinality(Boxes(S))
<1> DEFINE count == [s \in SUBSET S |-> Cardinality(Boxes(s))]
           iter == SumIter(S)
<1>1. count = [s \in SUBSET S |-> SumBody(count, s)]
  <2>1. ASSUME NEW s \in SUBSET S PROVE count[s] = SumBody(count, s)
    <3>1. CASE s = {}
      BY <3>1, FS_EmptySet DEF SumBody, Boxes
    <3>2. CASE s # {}
      <4> DEFINE x == CHOOSE y \in s : TRUE
      <4>1. x \in s /\ s \in SUBSET Messages /\ s \ {x} \in SUBSET S
        BY <3>2
      <4> HIDE DEF x
      <4>2. count[s] = Units[x] + count[s \ {x}]
        BY <4>1, BoxesCount
      <4> QED
        BY <3>2, <4>2 DEF SumBody, x
    <3> QED
      BY <3>1, <3>2
  <2> QED
    BY <2>1
<1>2. iter = [s \in SUBSET S |-> SumBody(iter, s)]
  BY <1>1 DEF SumIter
<1> HIDE DEF iter
<1> DEFINE Bad == {s \in SUBSET S : iter[s] # Cardinality(Boxes(s))}
<1>3. SUFFICES Bad = {}
  BY TotalUnfolds DEF iter
<1>4. SUFFICES ASSUME Bad # {} PROVE FALSE
  OBVIOUS
<1>5. PICK s \in Bad : \A x \in s : s \ {x} \notin Bad
  <2>1. Bad \in SUBSET (SUBSET Messages)
    OBVIOUS
  <2> HIDE DEF Bad
  <2> QED
    BY <1>4, <2>1, SmallestSet
<1>6. iter[s] = SumBody(iter, s)
  BY <1>2, <1>5
<1>7. CASE s = {}
  BY <1>5, <1>6, <1>7, FS_EmptySet DEF SumBody, Boxes
<1>8. CASE s # {}
  <2> DEFINE x == CHOOSE y \in s : TRUE
  <2>1. x \in s /\ s \in SUBSET Messages /\ s \ {x} \in SUBSET S
    BY <1>5, <1>8
  <2>2. iter[s] = Units[x] + iter[s \ {x}]
    BY <1>6, <1>8 DEF SumBody
  <2> HIDE DEF x
  <2>3. iter[s \ {x}] = Cardinality(Boxes(s \ {x}))
    BY <1>5, <2>1
  <2> QED
    BY <1>5, <2>1, <2>2, <2>3, BoxesCount
<1> QED
  BY <1>7, <1>8

\* A sum of units is a number.
LEMMA TotalNat ==
  ASSUME NEW S \in SUBSET Messages
  PROVE  Total(S) \in Nat
  BY TotalIsCount, BoxesAreFinite, FS_CardinalityType

\* Nothing weighs nothing.
LEMMA TotalEmpty == Total({}) = 0
<1>1. Boxes({}) = {}
  BY DEF Boxes
<1> QED
  BY <1>1, TotalIsCount, FS_EmptySet

\* The sums of two disjoint sets add up.
LEMMA TotalUnion ==
  ASSUME NEW S \in SUBSET Messages, NEW T \in SUBSET Messages, S \cap T = {}
  PROVE  Total(S \cup T) = Total(S) + Total(T)
<1>1. Boxes(S \cup T) = Boxes(S) \cup Boxes(T) /\ Boxes(S) \cap Boxes(T) = {}
  BY DEF Boxes
<1>2. IsFiniteSet(Boxes(S)) /\ IsFiniteSet(Boxes(T))
  BY BoxesAreFinite
<1>3. Cardinality(Boxes(S \cup T)) = Cardinality(Boxes(S)) + Cardinality(Boxes(T))
  BY <1>1, <1>2, DisjointUnion
<1>4. S \cup T \in SUBSET Messages
  OBVIOUS
<1> QED
  BY <1>3, <1>4, TotalIsCount

\* One more message adds its units.
LEMMA TotalAdd ==
  ASSUME NEW S \in SUBSET Messages, NEW m \in Messages, m \notin S
  PROVE  Total(S \cup {m}) = Total(S) + Units[m]
<1>1. (S \cup {m}) \ {m} = S /\ S \cup {m} \in SUBSET Messages /\ m \in S \cup {m}
  OBVIOUS
<1>2. Cardinality(Boxes(S \cup {m})) = Units[m] + Cardinality(Boxes(S))
  BY <1>1, BoxesCount
<1>3. Total(S \cup {m}) = Units[m] + Total(S)
  BY <1>1, <1>2, TotalIsCount
<1> QED
  BY <1>3, TotalNat, BoxFact

\* Two sets of messages that differ in one.
LEMMA TotalChange ==
  ASSUME NEW P \in SUBSET Messages, NEW Q \in SUBSET Messages, NEW m \in Messages, P \ {m} = Q \ {m}
  PROVE  Total(Q) + (IF m \in P THEN Units[m] ELSE 0) = Total(P) + (IF m \in Q THEN Units[m] ELSE 0)
<1> DEFINE R == P \ {m}
<1>1. R \in SUBSET Messages /\ m \notin R /\ Total(R) \in Nat /\ Units[m] \in Nat
  BY TotalNat, BoxFact
<1>2. Total(R \cup {m}) = Total(R) + Units[m]
  BY <1>1, TotalAdd
<1>3. P = (IF m \in P THEN R \cup {m} ELSE R) /\ Q = (IF m \in Q THEN R \cup {m} ELSE R)
  OBVIOUS
<1> HIDE DEF R
<1>4. Total(P) = Total(R) + (IF m \in P THEN Units[m] ELSE 0)
  <2>1. CASE m \in P
    <3>1. P = R \cup {m}
      BY <1>3, <2>1
    <3> QED
      BY <1>2, <2>1, <3>1
  <2>2. CASE m \notin P
    <3>1. P = R
      BY <1>3, <2>2
    <3> QED
      BY <1>1, <2>2, <3>1
  <2> QED
    BY <2>1, <2>2
<1>5. Total(Q) = Total(R) + (IF m \in Q THEN Units[m] ELSE 0)
  <2>1. CASE m \in Q
    <3>1. Q = R \cup {m}
      BY <1>3, <2>1
    <3> QED
      BY <1>2, <2>1, <3>1
  <2>2. CASE m \notin Q
    <3>1. Q = R
      BY <1>3, <2>2
    <3> QED
      BY <1>1, <2>2, <3>1
  <2> QED
    BY <2>1, <2>2
<1> QED
  BY <1>1, <1>4, <1>5

\* A part of a set of messages, and the rest of it.
LEMMA TotalParts ==
  ASSUME NEW P \in SUBSET Messages, NEW M
  PROVE  /\ Total(P) = Total(P \ M) + Total(P \cap M)
         /\ Total(P) \in Nat /\ Total(P \ M) \in Nat /\ Total(P \cap M) \in Nat
<1>1. P \ M \in SUBSET Messages /\ P \cap M \in SUBSET Messages /\ (P \ M) \cap (P \cap M) = {}
  OBVIOUS
<1>2. (P \ M) \cup (P \cap M) = P
  OBVIOUS
<1>3. Total((P \ M) \cup (P \cap M)) = Total(P \ M) + Total(P \cap M)
  BY <1>1, TotalUnion
<1> QED
  BY <1>1, <1>2, <1>3, TotalNat

\* A smaller set weighs no more.
LEMMA TotalSubset ==
  ASSUME NEW P \in SUBSET Messages, NEW Q \in SUBSET P
  PROVE  Total(Q) <= Total(P)
<1>1. P \cap Q = Q
  OBVIOUS
<1>2. Total(P) = Total(P \ Q) + Total(P \cap Q) /\ Total(P \ Q) \in Nat /\ Total(P \cap Q) \in Nat
  BY TotalParts
<1>3. Total(P) = Total(P \ Q) + Total(Q) /\ Total(Q) \in Nat
  BY <1>1, <1>2
<1> QED
  BY <1>2, <1>3
-----------------------------------------------------------------------------
(* Schedules and types.                                                    *)

Schedule == [start : Int, target : Int, days : Int]
Counters == [reserved : Nat, confirmed : Nat, limit : Nat]
Reservations == [state : {"none", "reserved", "confirmed", "released"}, day : Days, upd : Days]
Scopes == [status : {"none", "ramping", "complete"}, activeDays : Nat, lastQ : Days \cup {-1}, sched : Schedule]

TypeInv ==
  /\ dom \in [Domains -> {"inactive", "ramping", "complete", "exempt"}]
  /\ verified \in [Domains -> BOOLEAN]
  /\ scope \in Scopes
  /\ scope.status # "none" => NewSchedule(scope.sched) = scope.sched
  /\ ctr \in [Days -> Counters]
  /\ resv \in [Messages -> Reservations]
  /\ gone \subseteq Messages /\ today \in Days
  /\ orphan \in [Days -> [reserved : Nat, confirmed : Nat]] /\ corrected \in [Days -> Nat]

\* NewSchedule yields a schedule it would not change.
LEMMA ScheduleFact ==
  ASSUME NEW s \in Schedule
  PROVE  /\ NewSchedule(s) \in Schedule
         /\ NewSchedule(s).start >= 50 /\ NewSchedule(s).target >= NewSchedule(s).start /\ NewSchedule(s).days >= 1
         /\ NewSchedule(NewSchedule(s)) = NewSchedule(s)
  BY DEF Schedule, NewSchedule, AtLeast, MinimumStartDaily

\* Quotients of natural numbers.
LEMMA DivFact ==
  ASSUME NEW a \in Nat, NEW k \in Nat, k > 0
  PROVE  a \div k \in Nat /\ k * (a \div k) <= a /\ a < k * (a \div k) + k
  BY Z3

\* Integer division is monotone.
LEMMA DivMonotone ==
  ASSUME NEW a \in Nat, NEW b \in Nat, a <= b, NEW k \in Nat, k > 0
  PROVE  a \div k <= b \div k
<1> DEFINE p == a \div k
           q == b \div k
<1>1. p \in Nat /\ q \in Nat /\ k * p <= a /\ b < k * q + k
  BY DivFact
<1> HIDE DEF p, q
<1>2. k * p < k * (q + 1)
  BY <1>1
<1>3. p < q + 1
  BY <1>1, <1>2
<1> QED
  BY <1>1, <1>3 DEF p, q

\* The allowance is at least the minimum and grows with every active day.
LEMMA CapFact ==
  ASSUME NEW s \in Schedule, NEW a \in Nat
  PROVE  /\ CapForActiveDay(s, a) \in Nat /\ CapForActiveDay(s, a) >= 50
         /\ CapForActiveDay(s, a) <= CapForActiveDay(s, a + 1)
         /\ CapForActiveDay(NewSchedule(s), a) = CapForActiveDay(s, a)
<1> DEFINE n == NewSchedule(s)
           x == n.target - n.start
           k == n.days - 1
           Mid(d) == (x * d) \div k
<1>1. n.start \in Nat /\ n.start >= 50 /\ n.target \in Nat /\ n.target >= n.start /\ n.days \in Nat /\ n.days >= 1
  BY ScheduleFact DEF Schedule
<1>2. x \in Nat /\ k \in Nat /\ n.target = n.start + x /\ n.days - 1 = k
  BY <1>1
<1>3. \A d \in Nat : CapForActiveDay(s, d) =
        CASE d >= k -> n.target [] d <= 0 -> n.start [] OTHER -> n.start + Mid(d)
  BY DEF CapForActiveDay
<1>4. CapForActiveDay(NewSchedule(s), a) = CapForActiveDay(s, a)
  BY ScheduleFact, Zenon DEF CapForActiveDay
<1> HIDE DEF n, x, k
<1>5. ASSUME NEW d \in Nat, d < k PROVE Mid(d) \in Nat /\ Mid(d) <= x
  <2>1. k > 0 /\ x * d \in Nat
    BY <1>2, <1>5
  <2>2. x * d <= x * k
    BY <1>2, <1>5
  <2>3. Mid(d) \in Nat /\ k * Mid(d) <= x * d
    BY <1>2, <2>1, DivFact
  <2> DEFINE v == Mid(d)
  <2> HIDE DEF v
  <2>4. k * v <= k * x /\ v \in Nat
    BY <1>2, <2>1, <2>2, <2>3 DEF v
  <2>5. v <= x
    BY <1>2, <2>1, <2>4
  <2> QED
    BY <2>3, <2>5 DEF v
<1>6. ASSUME NEW d \in Nat, d < k PROVE Mid(d) <= Mid(d + 1)
  <2>1. k > 0 /\ x * d \in Nat /\ x * (d + 1) \in Nat /\ x * d <= x * (d + 1)
    BY <1>2, <1>6
  <2> QED
    BY <1>2, <2>1, DivMonotone
<1> HIDE DEF Mid
<1>7. CapForActiveDay(s, a) \in Nat /\ CapForActiveDay(s, a) >= 50
  BY <1>1, <1>2, <1>3, <1>5
<1>8. CapForActiveDay(s, a) <= CapForActiveDay(s, a + 1)
  <2>1. CASE a >= k
    <3>1. a + 1 >= k /\ a + 1 \in Nat
      BY <1>2, <2>1
    <3> QED
      BY <1>1, <1>3, <2>1, <3>1
  <2>2. CASE a < k /\ a + 1 >= k
    <3>1. CapForActiveDay(s, a + 1) = n.target
      BY <1>2, <1>3, <2>2
    <3>2. Mid(a) \in Nat /\ Mid(a) <= x
      BY <1>5, <2>2
    <3>3. CapForActiveDay(s, a) = n.start \/ CapForActiveDay(s, a) = n.start + Mid(a)
      BY <1>2, <1>3, <2>2
    <3> QED
      BY <1>1, <1>2, <3>1, <3>2, <3>3
  <2>3. CASE a < k /\ a + 1 < k
    <3>1. CapForActiveDay(s, a + 1) = n.start + Mid(a + 1)
      BY <1>2, <1>3, <2>3
    <3>2. Mid(a) \in Nat /\ Mid(a + 1) \in Nat /\ Mid(a) <= Mid(a + 1)
      BY <1>5, <1>6, <2>3
    <3>3. CapForActiveDay(s, a) = n.start \/ CapForActiveDay(s, a) = n.start + Mid(a)
      BY <1>2, <1>3, <2>3
    <3> QED
      BY <1>1, <3>1, <3>2, <3>3
  <2> QED
    BY <1>2, <2>1, <2>2, <2>3
<1> QED
  BY <1>4, <1>7, <1>8
-----------------------------------------------------------------------------
(* What the steps do, without their local definitions.                     *)

\* The days and the retention periods are numbers, and a counter outlives what is open on its day.
LEMMA DayFacts == /\ MaxDay \in Nat /\ Days = 0..MaxDay /\ Days \subseteq Nat
                  /\ KeepResv \in Nat /\ KeepCounter \in Nat /\ KeepCounter >= 1 /\ OpenDays \in Nat
                  /\ OpenDays + KeepResv <= KeepCounter
  BY DaysAssumption, RetentionAssumption DEF Days

\* armRampScope: a scope that exists keeps its schedule and its progress.
LEMMA ArmedFact ==
  ASSUME TypeInv, NEW config \in Schedules
  PROVE  /\ ArmedScope(config) \in Scopes
         /\ ArmedScope(config).status # "none"
         /\ NewSchedule(ArmedScope(config).sched) = ArmedScope(config).sched
         /\ ArmedScope(config).activeDays = scope.activeDays
         /\ ArmedScope(config).lastQ = scope.lastQ
         /\ scope.status # "none" => ArmedScope(config) = scope
<1>1. config \in Schedule
  BY SchedulesAssumption DEF Schedule
<1>2. CASE scope.status = "none"
  BY <1>1, <1>2, ScheduleFact DEF ArmedScope, TypeInv, Scopes
<1>3. CASE scope.status # "none"
  BY <1>3 DEF ArmedScope, TypeInv, Scopes
<1> QED
  BY <1>2, <1>3

Cap(config) == CapForActiveDay(ArmedScope(config).sched, scope.activeDays)

\* What Reserve leaves behind, in each of its ways out.
LEMMA ReserveFacts ==
  ASSUME TypeInv, NEW m \in Messages, NEW d \in Domains, NEW config \in Schedules,
         NEW day \in {today - 1, today} \cap Nat, Reserve(m, d, day, config)
  PROVE  /\ day \in Days /\ day >= today - 1
         /\ \/ dom' = [dom EXCEPT ![d] = "ramping"] /\ scope' = ArmedScope(config)
            \/ /\ dom' = [dom EXCEPT ![d] = "complete"] /\ scope' = [ArmedScope(config) EXCEPT !.status = "complete"]
               /\ RampDone(ArmedScope(config), day)
         /\ UNCHANGED <<verified, gone, today, orphan, corrected>>
         /\ \/ UNCHANGED <<ctr, resv>>
            \/ /\ resv[m].state \in {"none", "reserved"}
               /\ Admits(WithoutPrior(m), day, Units[m], Cap(config))
               /\ ctr' = Upserted(WithoutPrior(m), day, Units[m], Cap(config))
               /\ resv' = [resv EXCEPT ![m] = [state |-> "reserved", day |-> day, upd |-> today]]
            \/ /\ resv[m].state \in {"none", "reserved"}
               /\ ctr' = WithoutPrior(m)
               /\ resv' = [resv EXCEPT ![m] = NoResv]
<1>1. day \in Days /\ day >= today - 1
  BY DayFacts DEF TypeInv
<1>2. ArmedScope(config).activeDays = scope.activeDays /\ resv[m].state \in {"none", "reserved", "confirmed", "released"}
  BY ArmedFact DEF TypeInv, Reservations
<1> QED
  BY <1>1, <1>2 DEF Reserve, Cap

\* Capacity that is given back leaves everything else in the counters.
LEMMA GiveBackFact ==
  ASSUME NEW c \in [Days -> Counters], NEW day \in Days, NEW n \in Nat
  PROVE  /\ GiveBack(c, day, n) \in [Days -> Counters]
         /\ \A e \in Days : /\ GiveBack(c, day, n)[e].limit = c[e].limit
                            /\ GiveBack(c, day, n)[e].confirmed = c[e].confirmed
                            /\ GiveBack(c, day, n)[e].reserved <= c[e].reserved
         /\ \A e \in Days \ {day} : GiveBack(c, day, n)[e] = c[e]
         /\ c[day].reserved >= n => GiveBack(c, day, n)[day].reserved = c[day].reserved - n
<1>1. CASE c[day].reserved >= n
  BY <1>1 DEF GiveBack, Counters
<1>2. CASE ~(c[day].reserved >= n)
  BY <1>2 DEF GiveBack, Counters
<1> QED
  BY <1>1, <1>2

\* Taking back a prior reservation never raises a counter.
LEMMA WithoutPriorFact ==
  ASSUME TypeInv, NEW m \in Messages
  PROVE  /\ WithoutPrior(m) \in [Days -> Counters]
         /\ \A e \in Days : /\ WithoutPrior(m)[e].limit = ctr[e].limit
                            /\ WithoutPrior(m)[e].confirmed = ctr[e].confirmed
                            /\ WithoutPrior(m)[e].reserved <= ctr[e].reserved
<1>1. ctr \in [Days -> Counters] /\ resv[m].day \in Days /\ Units[m] \in Nat
  BY UnitsAssumption DEF TypeInv, Reservations
<1>2. \A e \in Days : ctr[e].reserved \in Nat
  BY <1>1 DEF Counters
<1>3. CASE resv[m].state = "reserved"
  BY <1>1, <1>3, GiveBackFact DEF WithoutPrior
<1>4. CASE resv[m].state # "reserved"
  BY <1>1, <1>2, <1>4 DEF WithoutPrior
<1> QED
  BY <1>3, <1>4

\* The upsert changes one day's counter and fixes its limit once.
LEMMA UpsertedFact ==
  ASSUME NEW c \in [Days -> Counters], NEW day \in Days, NEW n \in Nat, NEW cap \in Nat, cap > 0
  PROVE  /\ Upserted(c, day, n, cap) \in [Days -> Counters]
         /\ \A e \in Days \ {day} : Upserted(c, day, n, cap)[e] = c[e]
         /\ Exists(Upserted(c, day, n, cap)[day])
         /\ Exists(c[day]) => /\ Upserted(c, day, n, cap)[day].reserved = c[day].reserved + n
                              /\ Upserted(c, day, n, cap)[day].confirmed = c[day].confirmed
                              /\ Upserted(c, day, n, cap)[day].limit = c[day].limit
         /\ ~Exists(c[day]) => /\ Upserted(c, day, n, cap)[day].reserved = n
                               /\ Upserted(c, day, n, cap)[day].confirmed = 0
                               /\ Upserted(c, day, n, cap)[day].limit = cap
<1>1. c[day] \in Counters /\ c[day].limit \in Nat /\ c[day].reserved \in Nat
  BY DEF Counters
<1>2. CASE Exists(c[day])
  <2> DEFINE a == c[day].reserved + n
             r == [c[day] EXCEPT !.reserved = a]
  <2>1. Upserted(c, day, n, cap) = [c EXCEPT ![day] = r]
    BY <1>2 DEF Upserted
  <2>2. a \in Nat
    BY <1>1
  <2> HIDE DEF a
  <2>3. r \in Counters /\ r.reserved = a /\ r.confirmed = c[day].confirmed /\ r.limit = c[day].limit
    BY <1>1, <2>2 DEF Counters
  <2> HIDE DEF r
  <2>4. Upserted(c, day, n, cap) \in [Days -> Counters] /\ Upserted(c, day, n, cap)[day] = r
        /\ \A e \in Days \ {day} : Upserted(c, day, n, cap)[e] = c[e]
    BY <2>1, <2>3
  <2> QED
    BY <1>2, <2>3, <2>4 DEF Exists, a
<1>3. CASE ~Exists(c[day])
  <2> DEFINE r == [reserved |-> n, confirmed |-> 0, limit |-> cap]
  <2>1. Upserted(c, day, n, cap) = [c EXCEPT ![day] = r]
    BY <1>3 DEF Upserted
  <2>2. r \in Counters /\ r.reserved = n /\ r.confirmed = 0 /\ r.limit = cap
    BY DEF Counters
  <2> HIDE DEF r
  <2>3. Upserted(c, day, n, cap) \in [Days -> Counters] /\ Upserted(c, day, n, cap)[day] = r
        /\ \A e \in Days \ {day} : Upserted(c, day, n, cap)[e] = c[e]
    BY <2>1, <2>2
  <2> QED
    BY <1>3, <2>2, <2>3 DEF Exists
<1> QED
  BY <1>2, <1>3

\* The day cap is at least the 50 of the first stage.
LEMMA CapIsPositive ==
  ASSUME TypeInv, NEW config \in Schedules
  PROVE  Cap(config) \in Nat /\ Cap(config) >= 50
  BY ArmedFact, CapFact DEF Cap, TypeInv, Scopes

\* A reservation that changes its state keeps its day.
LEMMA SettledRecord ==
  ASSUME NEW r \in Reservations, NEW to \in {"confirmed", "released"}, NEW at \in Days
  PROVE  /\ [r EXCEPT !.state = to, !.upd = at] = [state |-> to, day |-> r.day, upd |-> at]
         /\ [state |-> to, day |-> r.day, upd |-> at] \in Reservations
<1> DEFINE p == [r EXCEPT !.state = to, !.upd = at]
           q == [state |-> to, day |-> r.day, upd |-> at]
<1>1. p \in Reservations /\ p.state = to /\ p.day = r.day /\ p.upd = at
  BY DEF Reservations
<1>2. q \in Reservations /\ q.state = to /\ q.day = r.day /\ q.upd = at
  BY DEF Reservations
<1> HIDE DEF p, q
<1>3. p = q
  BY <1>1, <1>2 DEF Reservations
<1> QED
  BY <1>2, <1>3 DEF p, q

\* What Confirm makes of a counter, and what it may make of the scope.
LEMMA ConsumedRecord ==
  ASSUME NEW c \in Counters, NEW n \in Nat
  PROVE  /\ [c EXCEPT !.confirmed = @ + n] \in Counters
         /\ [c EXCEPT !.confirmed = @ + n].confirmed = c.confirmed + n
         /\ [c EXCEPT !.confirmed = @ + n].reserved = c.reserved
         /\ [c EXCEPT !.confirmed = @ + n].limit = c.limit
         /\ [c EXCEPT !.reserved = @ + n, !.confirmed = @ + n] \in Counters
         /\ [c EXCEPT !.reserved = @ + n, !.confirmed = @ + n].confirmed = c.confirmed + n
         /\ [c EXCEPT !.reserved = @ + n, !.confirmed = @ + n].reserved = c.reserved + n
         /\ [c EXCEPT !.reserved = @ + n, !.confirmed = @ + n].limit = c.limit
<1> DEFINE a == c.reserved + n
           b == c.confirmed + n
<1>1. a \in Nat /\ b \in Nat
  BY DEF Counters
<1> HIDE DEF a, b
<1>2. /\ [c EXCEPT !.confirmed = b] \in Counters
      /\ [c EXCEPT !.confirmed = b].confirmed = b
      /\ [c EXCEPT !.confirmed = b].reserved = c.reserved
      /\ [c EXCEPT !.confirmed = b].limit = c.limit
  BY <1>1 DEF Counters
<1>3. /\ [c EXCEPT !.reserved = a, !.confirmed = b] \in Counters
      /\ [c EXCEPT !.reserved = a, !.confirmed = b].confirmed = b
      /\ [c EXCEPT !.reserved = a, !.confirmed = b].reserved = a
      /\ [c EXCEPT !.reserved = a, !.confirmed = b].limit = c.limit
  BY <1>1 DEF Counters
<1> QED
  BY <1>2, <1>3, Zenon DEF a, b

\* The scope after a qualifying day.
LEMMA ProgressRecord ==
  ASSUME NEW sc \in Scopes, NEW day \in Days
  PROVE  /\ [sc EXCEPT !.activeDays = @ + 1, !.lastQ = day] \in Scopes
         /\ [sc EXCEPT !.activeDays = @ + 1, !.lastQ = day].status = sc.status
         /\ [sc EXCEPT !.activeDays = @ + 1, !.lastQ = day].sched = sc.sched
         /\ [sc EXCEPT !.activeDays = @ + 1, !.lastQ = day].activeDays = sc.activeDays + 1
         /\ [sc EXCEPT !.activeDays = @ + 1, !.lastQ = day].lastQ = day
<1> DEFINE a == sc.activeDays + 1
           new == [sc EXCEPT !.activeDays = a, !.lastQ = day]
<1>1. a \in Nat
  BY DEF Scopes
<1> HIDE DEF a
<1>2. /\ new \in Scopes /\ new.status = sc.status /\ new.sched = sc.sched
      /\ new.activeDays = a /\ new.lastQ = day
  BY <1>1 DEF Scopes
<1> QED
  BY <1>2, Zenon DEF a

\* What Confirm leaves behind, for a held and for a released reservation.
LEMMA ConfirmFacts ==
  ASSUME TypeInv, NEW m \in Messages, Confirm(m)
  PROVE  LET day == resv[m].day
             n == Units[m]
             c == ctr[day]
         IN /\ day \in Days /\ n \in Nat /\ c \in Counters /\ Exists(c)
            /\ \/ /\ resv[m].state = "reserved" /\ UNCHANGED corrected
                  /\ ctr' = [ctr EXCEPT ![day] = [c EXCEPT !.confirmed = @ + n]]
               \/ /\ resv[m].state = "released" /\ corrected' = [corrected EXCEPT ![day] = @ + n]
                  /\ ctr' = [ctr EXCEPT ![day] = [c EXCEPT !.reserved = @ + n, !.confirmed = @ + n]]
            /\ resv' = [resv EXCEPT ![m] = [state |-> "confirmed", day |-> day, upd |-> today]]
            /\ \/ UNCHANGED scope
               \/ /\ scope' = [scope EXCEPT !.activeDays = @ + 1, !.lastQ = day] /\ scope.lastQ < day
                  /\ Qualifies(ctr'[day].confirmed, c.limit)
            /\ UNCHANGED <<dom, verified, gone, today, orphan>>
<1> DEFINE day == resv[m].day
           n == Units[m]
           c == ctr[day]
<1>1. day \in Days /\ n \in Nat /\ c \in Counters /\ resv[m] \in Reservations
  BY UnitsAssumption DEF TypeInv, Reservations
<1>2. resv' = [resv EXCEPT ![m] = [state |-> "confirmed", day |-> day, upd |-> today]]
  <2>1. resv' = [resv EXCEPT ![m] = [resv[m] EXCEPT !.state = "confirmed", !.upd = today]]
    BY DEF Confirm, TypeInv
  <2>2. [resv[m] EXCEPT !.state = "confirmed", !.upd = today] = [state |-> "confirmed", day |-> day, upd |-> today]
    BY <1>1, SettledRecord DEF TypeInv
  <2> QED
    BY <2>1, <2>2
<1>3. CASE resv[m].state = "reserved"
  <2>1. Consumed(c, m) = [c EXCEPT !.confirmed = @ + n]
    BY <1>3 DEF Consumed
  <2>2. ctr' = [ctr EXCEPT ![day] = [c EXCEPT !.confirmed = @ + n]] /\ UNCHANGED corrected /\ Exists(c)
    BY <1>3, <2>1 DEF Confirm
  <2>3. UNCHANGED scope \/ /\ scope' = [scope EXCEPT !.activeDays = @ + 1, !.lastQ = day] /\ scope.lastQ < day
                           /\ Qualifies([c EXCEPT !.confirmed = @ + n].confirmed, [c EXCEPT !.confirmed = @ + n].limit)
    BY <2>1 DEF Confirm, Progress
  <2>4. ctr'[day] = [c EXCEPT !.confirmed = @ + n] /\ [c EXCEPT !.confirmed = @ + n].limit = c.limit
    BY <1>1, <2>2 DEF TypeInv, Counters
  <2> QED
    BY <1>1, <1>2, <1>3, <2>2, <2>3, <2>4 DEF Confirm
<1>4. CASE resv[m].state = "released"
  <2> DEFINE e == [c EXCEPT !.reserved = @ + n, !.confirmed = @ + n]
  <2>1. Consumed(c, m) = e
    BY <1>4 DEF Consumed
  <2>2. ctr' = [ctr EXCEPT ![day] = e] /\ corrected' = [corrected EXCEPT ![day] = @ + n] /\ Exists(c)
    BY <1>4, <2>1 DEF Confirm
  <2>3. UNCHANGED scope \/ /\ scope' = [scope EXCEPT !.activeDays = @ + 1, !.lastQ = day] /\ scope.lastQ < day
                           /\ Qualifies(e.confirmed, e.limit)
    BY <2>1 DEF Confirm, Progress
  <2>4. ctr'[day] = e /\ e.limit = c.limit
    BY <1>1, <2>2 DEF TypeInv, Counters
  <2> QED
    BY <1>1, <1>2, <1>4, <2>2, <2>3, <2>4 DEF Confirm
<1> QED
  BY <1>3, <1>4 DEF Confirm

\* The same, field by field.
LEMMA ConfirmEffect ==
  ASSUME TypeInv, NEW m \in Messages, Confirm(m)
  PROVE  LET day == resv[m].day
         IN /\ day \in Days /\ Exists(ctr[day]) /\ resv[m].state \in {"reserved", "released"}
            /\ \A e \in Days \ {day} : ctr'[e] = ctr[e] /\ corrected'[e] = corrected[e]
            /\ ctr'[day].limit = ctr[day].limit /\ ctr'[day].confirmed = ctr[day].confirmed + Units[m]
            /\ resv[m].state = "reserved" =>
                 ctr'[day].reserved = ctr[day].reserved /\ corrected'[day] = corrected[day]
            /\ resv[m].state = "released" =>
                 ctr'[day].reserved = ctr[day].reserved + Units[m] /\ corrected'[day] = corrected[day] + Units[m]
            /\ \A k \in Messages \ {m} : resv'[k] = resv[k]
            /\ resv'[m].state = "confirmed" /\ resv'[m].day = day /\ resv'[m].upd = today
            /\ \/ UNCHANGED scope
               \/ /\ scope'.status = scope.status /\ scope'.sched = scope.sched
                  /\ scope'.activeDays = scope.activeDays + 1 /\ scope'.lastQ = day /\ scope.lastQ < day
                  /\ Qualifies(ctr'[day].confirmed, ctr[day].limit)
            /\ UNCHANGED <<dom, verified, gone, today, orphan>>
<1> DEFINE day == resv[m].day
           n == Units[m]
           c == ctr[day]
           one == [c EXCEPT !.confirmed = @ + n]
           both == [c EXCEPT !.reserved = @ + n, !.confirmed = @ + n]
           new == [scope EXCEPT !.activeDays = @ + 1, !.lastQ = day]
           r == [state |-> "confirmed", day |-> day, upd |-> today]
<1>1. /\ day \in Days /\ n \in Nat /\ c \in Counters /\ Exists(c)
      /\ \/ resv[m].state = "reserved" /\ UNCHANGED corrected /\ ctr' = [ctr EXCEPT ![day] = one]
         \/ /\ resv[m].state = "released" /\ corrected' = [corrected EXCEPT ![day] = corrected[day] + n]
            /\ ctr' = [ctr EXCEPT ![day] = both]
      /\ resv' = [resv EXCEPT ![m] = r]
      /\ UNCHANGED scope \/ (scope' = new /\ scope.lastQ < day /\ Qualifies(ctr'[day].confirmed, c.limit))
      /\ UNCHANGED <<dom, verified, gone, today, orphan>>
  BY ConfirmFacts
<1>2. /\ one.confirmed = c.confirmed + n /\ one.reserved = c.reserved /\ one.limit = c.limit
      /\ both.confirmed = c.confirmed + n /\ both.reserved = c.reserved + n /\ both.limit = c.limit
  BY <1>1, ConsumedRecord, Zenon
<1>3. /\ new.status = scope.status /\ new.sched = scope.sched
      /\ new.activeDays = scope.activeDays + 1 /\ new.lastQ = day
  <2>1. scope \in Scopes /\ day \in Days
    BY <1>1 DEF TypeInv
  <2> HIDE DEF day
  <2> QED
    BY <2>1, ProgressRecord, Zenon
<1>4. r.state = "confirmed" /\ r.day = day /\ r.upd = today
  OBVIOUS
<1> HIDE DEF one, both, new, r
<1>5. \A k \in Messages \ {m} : resv'[k] = resv[k]
  BY <1>1 DEF TypeInv
<1>6. resv'[m] = r
  BY <1>1 DEF TypeInv
<1>7. \A e \in Days \ {day} : ctr'[e] = ctr[e] /\ corrected'[e] = corrected[e]
  BY <1>1, Zenon DEF TypeInv
<1>8. \/ resv[m].state = "reserved" /\ corrected'[day] = corrected[day] /\ ctr'[day] = one
      \/ resv[m].state = "released" /\ corrected'[day] = corrected[day] + n /\ ctr'[day] = both
  BY <1>1, Zenon DEF TypeInv
<1> QED
  BY <1>1, <1>2, <1>3, <1>4, <1>5, <1>6, <1>7, <1>8

\* The messages whose units a day holds, and those of them the provider accepted.
Holding(r, day) == {m \in Messages : r[m].day = day /\ r[m].state \in {"reserved", "confirmed"}}
Accepted(r, day) == {m \in Messages : r[m].day = day /\ r[m].state \in {"confirmed"}}

\* What Release leaves behind.
LEMMA ReleaseFacts ==
  ASSUME TypeInv, NEW m \in Messages, Release(m)
  PROVE  /\ resv[m].state = "reserved" /\ today <= resv[m].day + OpenDays
         /\ ctr' = GiveBack(ctr, resv[m].day, Units[m])
         /\ resv' = [resv EXCEPT ![m] = [state |-> "released", day |-> resv[m].day, upd |-> today]]
         /\ UNCHANGED <<dom, verified, scope, gone, today, orphan, corrected>>
<1>1. resv[m] \in Reservations /\ today \in Days /\ resv[m].day \in Days
  BY DEF TypeInv, Reservations
<1>2. today <= resv[m].day + OpenDays
  BY <1>1, DayFacts DEF Release
<1>3. resv' = [resv EXCEPT ![m] = [resv[m] EXCEPT !.state = "released", !.upd = today]]
  BY DEF Release, TypeInv
<1>4. [resv[m] EXCEPT !.state = "released", !.upd = today] = [state |-> "released", day |-> resv[m].day, upd |-> today]
  BY <1>1, SettledRecord
<1> QED
  BY <1>2, <1>3, <1>4 DEF Release

\* Deleted reservations move their units to the history variable.
LEMMA DeletedFacts ==
  ASSUME TypeInv, NEW M \in SUBSET Messages, Deleted(M)
  PROVE  /\ resv' \in [Messages -> Reservations]
         /\ \A m \in Messages : resv'[m] = IF m \in M THEN NoResv ELSE resv[m]
         /\ orphan' \in [Days -> [reserved : Nat, confirmed : Nat]]
         /\ \A day \in Days :
              /\ orphan'[day].reserved = orphan[day].reserved + Total(Holding(resv, day) \cap M)
              /\ orphan'[day].confirmed = orphan[day].confirmed + Total(Accepted(resv, day) \cap M)
<1> DEFINE H(day) == Holding(resv, day) \cap M
           A(day) == Accepted(resv, day) \cap M
<1>1. 0 \in Days
  BY DayFacts
<1>2. NoResv \in Reservations
  BY <1>1 DEF NoResv, Reservations
<1>3. resv' = [m \in Messages |-> IF m \in M THEN NoResv ELSE resv[m]]
  BY DEF Deleted
<1>4. ASSUME NEW day \in Days
      PROVE  /\ Total(H(day)) \in Nat /\ Total(A(day)) \in Nat
             /\ {m \in M : resv[m].day = day /\ resv[m].state \in {"reserved", "confirmed"}} = H(day)
             /\ {m \in M : resv[m].day = day /\ resv[m].state \in {"confirmed"}} = A(day)
  <2>1. H(day) \in SUBSET Messages /\ A(day) \in SUBSET Messages
    OBVIOUS
  <2>2. Total(H(day)) \in Nat /\ Total(A(day)) \in Nat
    BY <2>1, TotalNat
  <2> QED
    BY <2>2 DEF Holding, Accepted
<1>5. orphan' = [day \in Days |->
        [reserved  |-> orphan[day].reserved
            + Total({m \in M : resv[m].day = day /\ resv[m].state \in {"reserved", "confirmed"}}),
         confirmed |-> orphan[day].confirmed
            + Total({m \in M : resv[m].day = day /\ resv[m].state \in {"confirmed"}})]]
  BY Zenon DEF Deleted, Total
<1>6. ASSUME NEW day \in Days
      PROVE  orphan'[day] = [reserved  |-> orphan[day].reserved + Total(H(day)),
                             confirmed |-> orphan[day].confirmed + Total(A(day))]
  BY <1>4, <1>5, Zenon
<1> HIDE DEF H, A
<1>7. ASSUME NEW day \in Days
      PROVE  /\ orphan'[day].reserved = orphan[day].reserved + Total(H(day))
             /\ orphan'[day].confirmed = orphan[day].confirmed + Total(A(day))
             /\ orphan'[day] \in [reserved : Nat, confirmed : Nat]
  <2>1. orphan[day].reserved \in Nat /\ orphan[day].confirmed \in Nat
    BY DEF TypeInv
  <2> DEFINE h == orphan[day].reserved + Total(H(day))
             a == orphan[day].confirmed + Total(A(day))
  <2>2. h \in Nat /\ a \in Nat
    BY <1>4, <2>1
  <2>3. orphan'[day] = [reserved |-> h, confirmed |-> a]
    BY <1>6
  <2> HIDE DEF h, a
  <2>4. orphan'[day].reserved = h /\ orphan'[day].confirmed = a /\ orphan'[day] \in [reserved : Nat, confirmed : Nat]
    BY <2>2, <2>3
  <2> QED
    BY <2>4 DEF h, a
<1>8. orphan' \in [Days -> [reserved : Nat, confirmed : Nat]]
  BY <1>5, <1>7
<1>9. resv' \in [Messages -> Reservations] /\ \A m \in Messages : resv'[m] = IF m \in M THEN NoResv ELSE resv[m]
  BY <1>2, <1>3 DEF TypeInv
<1> QED
  BY <1>7, <1>8, <1>9 DEF H, A
-----------------------------------------------------------------------------
(* Types.                                                                  *)

\* The types hold at first.
LEMMA TypeInit == Init => TypeInv
<1> SUFFICES ASSUME Init PROVE TypeInv
  OBVIOUS
<1>1. 0 \in Days
  BY DayFacts
<1>2. scope \in Scopes /\ scope.status = "none"
  BY DEF Init, Scopes, Schedule
<1>3. ctr \in [Days -> Counters] /\ resv \in [Messages -> Reservations]
  BY <1>1 DEF Init, NoCounter, NoResv, Counters, Reservations
<1> QED
  BY <1>1, <1>2, <1>3 DEF Init, TypeInv

\* One step per action.
LEMMA TypeStep ==
  ASSUME TypeInv, [Next]_vars
  PROVE  TypeInv'
<1>0. 0 \in Days /\ NoResv \in Reservations /\ NoCounter \in Counters
  BY DayFacts DEF NoResv, Reservations, NoCounter, Counters
<1>1. ASSUME NEW m \in Messages, NEW d \in Domains, NEW config \in Schedules,
             NEW day \in {today - 1, today} \cap Nat, Reserve(m, d, day, config)
      PROVE  TypeInv'
  <2>1. scope' \in Scopes /\ (scope'.status # "none" => NewSchedule(scope'.sched) = scope'.sched)
    <3> DEFINE sc == ArmedScope(config)
    <3>1. sc \in Scopes /\ NewSchedule(sc.sched) = sc.sched
      BY ArmedFact
    <3>2. scope' = sc \/ scope' = [sc EXCEPT !.status = "complete"]
      BY <1>1, ReserveFacts
    <3> HIDE DEF sc
    <3> QED
      BY <3>1, <3>2 DEF Scopes
  <2>2. dom' \in [Domains -> {"inactive", "ramping", "complete", "exempt"}]
    BY <1>1, ReserveFacts DEF TypeInv
  <2>3. ctr' \in [Days -> Counters]
    <3>1. Units[m] \in Nat /\ day \in Days /\ Cap(config) \in Nat /\ Cap(config) > 0
      BY <1>1, ReserveFacts, UnitsAssumption, CapIsPositive
    <3>2. UNCHANGED ctr \/ ctr' = WithoutPrior(m) \/ ctr' = Upserted(WithoutPrior(m), day, Units[m], Cap(config))
      BY <1>1, ReserveFacts
    <3>3. WithoutPrior(m) \in [Days -> Counters]
      BY WithoutPriorFact
    <3>4. Upserted(WithoutPrior(m), day, Units[m], Cap(config)) \in [Days -> Counters]
      BY <3>1, <3>3, UpsertedFact
    <3> QED
      BY <3>2, <3>3, <3>4 DEF TypeInv
  <2>4. resv' \in [Messages -> Reservations]
    <3>1. day \in Days /\ today \in Days
      BY <1>1, ReserveFacts DEF TypeInv
    <3>2. [state |-> "reserved", day |-> day, upd |-> today] \in Reservations
      BY <3>1 DEF Reservations
    <3>3. \/ UNCHANGED resv \/ resv' = [resv EXCEPT ![m] = NoResv]
          \/ resv' = [resv EXCEPT ![m] = [state |-> "reserved", day |-> day, upd |-> today]]
      BY <1>1, ReserveFacts
    <3> QED
      BY <1>0, <3>2, <3>3, Zenon DEF TypeInv
  <2> QED
    BY <1>1, <2>1, <2>2, <2>3, <2>4, ReserveFacts DEF TypeInv
<1>2. ASSUME NEW m \in Messages, Confirm(m)
      PROVE  TypeInv'
  <2> DEFINE day == resv[m].day
             n == Units[m]
             c == ctr[day]
  <2>1. /\ day \in Days /\ n \in Nat /\ c \in Counters
        /\ \/ UNCHANGED corrected /\ ctr' = [ctr EXCEPT ![day] = [c EXCEPT !.confirmed = @ + n]]
           \/ /\ corrected' = [corrected EXCEPT ![day] = @ + n]
              /\ ctr' = [ctr EXCEPT ![day] = [c EXCEPT !.reserved = @ + n, !.confirmed = @ + n]]
        /\ resv' = [resv EXCEPT ![m] = [state |-> "confirmed", day |-> day, upd |-> today]]
        /\ UNCHANGED scope \/ scope' = [scope EXCEPT !.activeDays = @ + 1, !.lastQ = day]
        /\ UNCHANGED <<dom, verified, gone, today, orphan>>
    BY <1>2, ConfirmFacts
  <2>2. /\ [c EXCEPT !.confirmed = @ + n] \in Counters
        /\ [c EXCEPT !.reserved = @ + n, !.confirmed = @ + n] \in Counters
    BY <2>1, ConsumedRecord
  <2>3. [state |-> "confirmed", day |-> day, upd |-> today] \in Reservations
    BY <2>1, SettledRecord DEF TypeInv
  <2> HIDE DEF day, n, c
  <2>4. ctr' \in [Days -> Counters] /\ resv' \in [Messages -> Reservations]
    BY <2>1, <2>2, <2>3, Zenon DEF TypeInv
  <2>5. corrected' \in [Days -> Nat]
    BY <2>1 DEF TypeInv
  <2>6. scope' \in Scopes /\ scope'.status = scope.status /\ scope'.sched = scope.sched
    <3>1. scope \in Scopes /\ day \in Days
      BY <2>1 DEF TypeInv
    <3> DEFINE new == [scope EXCEPT !.activeDays = @ + 1, !.lastQ = day]
    <3>2. new \in Scopes /\ new.status = scope.status /\ new.sched = scope.sched
      BY <3>1, ProgressRecord, Zenon
    <3>3. scope' = scope \/ scope' = new
      BY <2>1
    <3> HIDE DEF new
    <3> QED
      BY <3>1, <3>2, <3>3
  <2> QED
    BY <2>1, <2>4, <2>5, <2>6 DEF TypeInv
<1>3. ASSUME NEW m \in Messages, Release(m)
      PROVE  TypeInv'
  <2>1. resv[m].day \in Days /\ Units[m] \in Nat /\ today \in Days /\ resv[m] \in Reservations
    BY UnitsAssumption DEF TypeInv, Reservations
  <2>2. ctr' \in [Days -> Counters]
    <3>1. GiveBack(ctr, resv[m].day, Units[m]) \in [Days -> Counters]
      BY <2>1, GiveBackFact DEF TypeInv
    <3> QED
      BY <1>3, <3>1, ReleaseFacts
  <2>3. resv' \in [Messages -> Reservations]
    <3>1. [state |-> "released", day |-> resv[m].day, upd |-> today] \in Reservations
      BY <2>1, SettledRecord
    <3> QED
      BY <1>3, <3>1, ReleaseFacts, Zenon DEF TypeInv
  <2> QED
    BY <1>3, <2>2, <2>3, ReleaseFacts DEF TypeInv
<1>4. ASSUME NEW m \in Messages, Purge(m)
      PROVE  TypeInv'
  <2>1. {m} \in SUBSET Messages /\ Deleted({m}) /\ gone' = gone \cup {m}
        /\ UNCHANGED <<dom, verified, scope, ctr, today, corrected>>
    BY <1>4 DEF Purge
  <2> QED
    BY <2>1, DeletedFacts DEF TypeInv
<1>5. ASSUME NEW d \in Domains, Exempt(d) \/ SetVerified(d)
      PROVE  TypeInv'
  BY <1>5 DEF Exempt, SetVerified, TypeInv
<1>6. ASSUME Sweep
      PROVE  TypeInv'
  <2> DEFINE M == {m \in Messages : resv[m].state \in {"confirmed", "released"} /\ resv[m].upd < today - KeepResv}
  <2>1. M \in SUBSET Messages /\ Deleted(M) /\ UNCHANGED <<dom, verified, scope, gone, today, corrected>>
        /\ ctr' = [day \in Days |-> IF Expired(day) THEN NoCounter ELSE ctr[day]]
    BY <1>6 DEF Sweep
  <2> HIDE DEF M
  <2>2. ctr' \in [Days -> Counters]
    BY <1>0, <2>1 DEF TypeInv
  <2> QED
    BY <2>1, <2>2, DeletedFacts DEF TypeInv
<1>7. ASSUME NextDay
      PROVE  TypeInv'
  <2>1. today' \in Days
    BY <1>7, DayFacts DEF NextDay, TypeInv
  <2> QED
    BY <1>7, <2>1 DEF NextDay, TypeInv
<1>8. CASE UNCHANGED vars
  BY <1>8 DEF vars, TypeInv
<1> QED
  BY <1>1, <1>2, <1>3, <1>4, <1>5, <1>6, <1>7, <1>8 DEF Next

\* TypeOK: what a scope has stored is a schedule NewSchedule could produce, for
\* every succession of deployed configurations, and no counter goes below zero.
THEOREM Types == Spec => []TypeOK
<1>1. TypeInv => TypeOK
  BY DEF TypeInv, TypeOK, Scopes, Counters, Reservations
<1> QED
  BY <1>1, TypeInit, TypeStep, PTL DEF Spec
-----------------------------------------------------------------------------
(* Completion and overrun: inductive as they stand.                        *)

\* One step per action.
LEMMA CompletionStep ==
  ASSUME TypeInv, CompletionIsEarned, [Next]_vars
  PROVE  CompletionIsEarned'
<1> USE DEF CompletionIsEarned
<1>1. ASSUME NEW m \in Messages, NEW d \in Domains, NEW config \in Schedules,
             NEW day \in {today - 1, today} \cap Nat, Reserve(m, d, day, config)
      PROVE  CompletionIsEarned'
  <2> DEFINE sc == ArmedScope(config)
  <2>1. /\ sc \in Scopes /\ sc.status # "none" /\ sc.activeDays = scope.activeDays
        /\ scope.status # "none" => sc = scope
    BY ArmedFact
  <2>2. sc.status = "complete" => scope.status = "complete"
    BY DEF ArmedScope, TypeInv, Scopes
  <2>3. dom \in [Domains -> {"inactive", "ramping", "complete", "exempt"}]
    BY DEF TypeInv
  <2>4. CASE dom' = [dom EXCEPT ![d] = "ramping"] /\ scope' = sc
    <3> HIDE DEF sc
    <3> QED
      BY <2>1, <2>2, <2>3, <2>4
  <2>5. CASE dom' = [dom EXCEPT ![d] = "complete"] /\ scope' = [sc EXCEPT !.status = "complete"] /\ RampDone(sc, day)
    <3>1. sc.activeDays >= sc.sched.days
      BY <2>1, <2>2, <2>5 DEF RampDone
    <3> HIDE DEF sc
    <3>2. scope'.status = "complete" /\ scope'.activeDays = sc.activeDays /\ scope'.sched = sc.sched
      BY <2>1, <2>5 DEF Scopes
    <3> QED
      BY <3>1, <3>2
  <2> QED
    BY <1>1, <2>4, <2>5, ReserveFacts
<1>2. ASSUME NEW m \in Messages, Confirm(m)
      PROVE  CompletionIsEarned'
  <2>1. UNCHANGED dom /\ \/ UNCHANGED scope
                         \/ /\ scope'.status = scope.status /\ scope'.sched = scope.sched
                            /\ scope'.activeDays = scope.activeDays + 1
    BY <1>2, ConfirmEffect
  <2>2. scope.activeDays \in Nat /\ scope.sched.days \in Int
    BY DEF TypeInv, Scopes, Schedule
  <2> QED
    BY <2>1, <2>2
<1>3. ASSUME NEW d \in Domains, Exempt(d)
      PROVE  CompletionIsEarned'
  BY <1>3 DEF Exempt, TypeInv
<1>4. CASE \/ \E m \in Messages : Release(m) \/ Purge(m)
           \/ \E d \in Domains : SetVerified(d)
           \/ Sweep \/ NextDay \/ UNCHANGED vars
  BY <1>4 DEF Release, Purge, SetVerified, Sweep, NextDay, vars
<1> QED
  BY <1>1, <1>2, <1>3, <1>4 DEF Next

\* One step per action.
LEMMA OverrunStep ==
  ASSUME TypeInv, OverrunOnlyByCorrection, [Next]_vars
  PROVE  OverrunOnlyByCorrection'
<1> USE DEF OverrunOnlyByCorrection
<1>0. ASSUME NEW e \in Days
      PROVE  ctr[e].reserved \in Nat /\ ctr[e].limit \in Nat /\ ctr[e].confirmed \in Nat /\ corrected[e] \in Nat
  BY DEF TypeInv, Counters
<1>1. ASSUME NEW m \in Messages, NEW d \in Domains, NEW config \in Schedules,
             NEW day \in {today - 1, today} \cap Nat, Reserve(m, d, day, config)
      PROVE  OverrunOnlyByCorrection'
  <2> DEFINE free == WithoutPrior(m)
             n == Units[m]
             cap == Cap(config)
  <2>1. /\ free \in [Days -> Counters]
        /\ \A e \in Days : free[e].limit = ctr[e].limit /\ free[e].reserved <= ctr[e].reserved
    BY WithoutPriorFact
  <2>2. day \in Days /\ UNCHANGED corrected /\ n \in Nat /\ cap \in Nat /\ cap > 0
    BY <1>1, ReserveFacts, UnitsAssumption, CapIsPositive
  <2>3. UNCHANGED ctr \/ ctr' = free \/ (ctr' = Upserted(free, day, n, cap) /\ Admits(free, day, n, cap))
    BY <1>1, ReserveFacts
  <2> HIDE DEF free, n, cap
  <2>4. \A e \in Days : free[e].reserved \in Nat /\ free[e].limit \in Nat
    BY <2>1 DEF Counters
  <2>5. CASE UNCHANGED ctr \/ ctr' = free
    BY <1>0, <2>1, <2>2, <2>4, <2>5 DEF Exists
  <2>6. CASE ctr' = Upserted(free, day, n, cap) /\ Admits(free, day, n, cap)
    <3>1. ASSUME NEW e \in Days \ {day}
          PROVE  Exists(ctr'[e]) => ctr'[e].reserved <= ctr'[e].limit + corrected[e]
      <4>1. ctr'[e] = free[e]
        <5>1. \A x \in Days \ {day} : Upserted(free, day, n, cap)[x] = free[x]
          BY <2>1, <2>2, UpsertedFact
        <5> QED
          BY <2>6, <5>1
      <4> QED
        BY <1>0, <2>1, <2>4, <4>1 DEF Exists
    <3>2. ctr'[day].reserved <= ctr'[day].limit + corrected[day]
      <4>1. CASE Exists(free[day])
        <5>1. ctr'[day].reserved = free[day].reserved + n /\ ctr'[day].limit = free[day].limit
          BY <2>1, <2>2, <2>6, <4>1, UpsertedFact
        <5>2. free[day].reserved + n <= free[day].limit
          BY <2>6, <4>1 DEF Admits
        <5> QED
          BY <1>0, <2>2, <2>4, <5>1, <5>2
      <4>2. CASE ~Exists(free[day])
        <5>1. ctr'[day].reserved = n /\ ctr'[day].limit = cap
          BY <2>1, <2>2, <2>6, <4>2, UpsertedFact
        <5>2. n <= cap
          BY <2>6 DEF Admits
        <5> QED
          BY <1>0, <2>2, <5>1, <5>2
      <4> QED
        BY <4>1, <4>2
    <3> QED
      BY <2>2, <3>1, <3>2
  <2> QED
    BY <2>3, <2>5, <2>6
<1>2. ASSUME NEW m \in Messages, Confirm(m)
      PROVE  OverrunOnlyByCorrection'
  <2> DEFINE day == resv[m].day
             n == Units[m]
  <2>1. /\ day \in Days /\ Exists(ctr[day]) /\ n \in Nat
        /\ \A e \in Days \ {day} : ctr'[e] = ctr[e] /\ corrected'[e] = corrected[e]
        /\ ctr'[day].limit = ctr[day].limit
        /\ \/ ctr'[day].reserved = ctr[day].reserved /\ corrected'[day] = corrected[day]
           \/ ctr'[day].reserved = ctr[day].reserved + n /\ corrected'[day] = corrected[day] + n
    BY <1>2, ConfirmEffect, UnitsAssumption
  <2> HIDE DEF day, n
  <2> QED
    BY <1>0, <2>1
<1>3. ASSUME NEW m \in Messages, Release(m)
      PROVE  OverrunOnlyByCorrection'
  <2>1. ctr' = GiveBack(ctr, resv[m].day, Units[m]) /\ UNCHANGED corrected
    BY <1>3, ReleaseFacts
  <2>2. resv[m].day \in Days /\ Units[m] \in Nat /\ ctr \in [Days -> Counters]
    BY UnitsAssumption DEF TypeInv, Reservations
  <2>3. \A e \in Days : ctr'[e].limit = ctr[e].limit /\ ctr'[e].reserved <= ctr[e].reserved /\ ctr'[e] \in Counters
    BY <2>1, <2>2, GiveBackFact
  <2> QED
    BY <1>0, <2>1, <2>3 DEF Exists, Counters
<1>4. ASSUME Sweep
      PROVE  OverrunOnlyByCorrection'
  <2>1. UNCHANGED corrected /\ \A e \in Days : ctr'[e] = NoCounter \/ ctr'[e] = ctr[e]
    BY <1>4 DEF Sweep
  <2>2. ~Exists(NoCounter)
    BY DEF Exists, NoCounter
  <2> QED
    BY <2>1, <2>2
<1>5. CASE \/ \E m \in Messages : Purge(m)
           \/ \E d \in Domains : Exempt(d) \/ SetVerified(d)
           \/ NextDay \/ UNCHANGED vars
  <2>1. UNCHANGED <<ctr, corrected>>
    BY <1>5 DEF Purge, Exempt, SetVerified, NextDay, vars
  <2> QED
    BY <2>1
<1> QED
  BY <1>1, <1>2, <1>3, <1>4, <1>5 DEF Next

\* CompletionIsEarned: a domain leaves the ramp only with its scope, and the
\* scope only after the qualified days its stored schedule asks for, whichever
\* sibling armed it and whatever was deployed since.
THEOREM Completion == Spec => []CompletionIsEarned
<1>1. Init => CompletionIsEarned
  BY DEF Init, CompletionIsEarned
<1> QED
  BY <1>1, TypeInit, TypeStep, CompletionStep, PTL DEF Spec

\* OverrunOnlyByCorrection: concurrent reservations, retries on a later day and
\* releases never take a day over its allowance; only corrected releases do.
THEOREM Overrun == Spec => []OverrunOnlyByCorrection
<1>1. Init => OverrunOnlyByCorrection
  BY DEF Init, OverrunOnlyByCorrection, NoCounter, Exists
<1> QED
  BY <1>1, TypeInit, TypeStep, OverrunStep, PTL DEF Spec
-----------------------------------------------------------------------------
(* Retention: no counter disappears, and so none is created anew, while    *)
(* units of its day are held.  A counter outlives a released reservation   *)
(* because OpenDays + KeepResv <= KeepCounter, and cannot be created again *)
(* once swept because KeepCounter is at least a day.                       *)

Kept ==
  /\ \A m \in Messages :
       /\ resv[m].state # "none" => Exists(ctr[resv[m].day]) \/ resv[m].day < today - 1
       /\ resv[m].state \in {"reserved", "released"} => Exists(ctr[resv[m].day])
       /\ resv[m].state = "released" => resv[m].upd <= resv[m].day + OpenDays
  /\ \A day \in Days :
       /\ orphan[day].reserved # 0 => Exists(ctr[day]) \/ day < today - 1
       /\ orphan[day].confirmed <= orphan[day].reserved

\* Reserve keeps every counter and leaves one for the day it reserves.
LEMMA ReserveCounters ==
  ASSUME TypeInv, NEW m \in Messages, NEW d \in Domains, NEW config \in Schedules,
         NEW day \in {today - 1, today} \cap Nat, Reserve(m, d, day, config)
  PROVE  /\ \A e \in Days : Exists(ctr[e]) => Exists(ctr'[e])
         /\ \A k \in Messages \ {m} : resv'[k] = resv[k]
         /\ \/ resv'[m] = resv[m] \/ resv'[m].state = "none"
            \/ resv'[m].state = "reserved" /\ resv'[m].day = day /\ Exists(ctr'[day])
<1> DEFINE free == WithoutPrior(m)
           n == Units[m]
           cap == Cap(config)
           r == [state |-> "reserved", day |-> day, upd |-> today]
<1>1. free \in [Days -> Counters] /\ \A e \in Days : free[e].limit = ctr[e].limit
  BY WithoutPriorFact
<1>2. day \in Days /\ n \in Nat /\ cap \in Nat /\ cap > 0
  BY ReserveFacts, UnitsAssumption, CapIsPositive
<1>3. /\ Exists(Upserted(free, day, n, cap)[day])
      /\ \A e \in Days \ {day} : Upserted(free, day, n, cap)[e] = free[e]
  <2> HIDE DEF free, n, cap
  <2> QED
    BY ONLY <1>1, <1>2, UpsertedFact
<1>4. \/ UNCHANGED <<ctr, resv>>
      \/ ctr' = Upserted(free, day, n, cap) /\ resv' = [resv EXCEPT ![m] = r]
      \/ ctr' = free /\ resv' = [resv EXCEPT ![m] = NoResv]
  BY ReserveFacts
<1>5. r.state = "reserved" /\ r.day = day /\ NoResv.state = "none"
  BY DEF NoResv
<1>6. resv \in [Messages -> Reservations]
  BY DEF TypeInv
<1> HIDE DEF free, n, cap, r
<1>7. \A e \in Days : Exists(ctr[e]) => Exists(ctr'[e])
  BY <1>1, <1>3, <1>4 DEF Exists
<1>8. \/ resv' = resv
      \/ resv' = [resv EXCEPT ![m] = r] /\ Exists(ctr'[day])
      \/ resv' = [resv EXCEPT ![m] = NoResv]
  BY <1>3, <1>4
<1>9. \/ resv'[m] = resv[m]
      \/ resv'[m] = r /\ Exists(ctr'[day])
      \/ resv'[m] = NoResv
  BY <1>6, <1>8, Zenon
<1>10. \A k \in Messages \ {m} : resv'[k] = resv[k]
  BY <1>6, <1>8
<1> QED
  BY <1>5, <1>7, <1>9, <1>10

\* Nothing is reserved at first.
LEMMA KeptInit == Init => Kept
  BY DEF Init, Kept, NoResv, NoCounter

\* Deleting messages and old counters leaves a counter under every reservation.
LEMMA DeletedKept ==
  ASSUME TypeInv, Kept, NEW M \in SUBSET Messages, Deleted(M), today' = today,
         \A day \in Days : Exists(ctr[day]) => Exists(ctr'[day]) \/ day < today - 1,
         \A m \in Messages \ M : resv[m].state \in {"reserved", "released"} => Exists(ctr'[resv[m].day])
  PROVE  Kept'
<1>1. /\ \A m \in Messages : resv'[m] = IF m \in M THEN NoResv ELSE resv[m]
      /\ \A day \in Days :
           /\ orphan'[day].reserved = orphan[day].reserved + Total(Holding(resv, day) \cap M)
           /\ orphan'[day].confirmed = orphan[day].confirmed + Total(Accepted(resv, day) \cap M)
  BY DeletedFacts
<1>2. \A m \in Messages : resv[m].day \in Days /\ resv[m].upd \in Days
  BY DEF TypeInv, Reservations
<1>3. NoResv.state = "none"
  BY DEF NoResv
<1>4. ASSUME NEW m \in Messages
      PROVE  /\ resv'[m].state # "none" => Exists(ctr'[resv'[m].day]) \/ resv'[m].day < today - 1
             /\ resv'[m].state \in {"reserved", "released"} => Exists(ctr'[resv'[m].day])
             /\ resv'[m].state = "released" => resv'[m].upd <= resv'[m].day + OpenDays
  <2>1. CASE m \in M
    BY <1>1, <1>3, <2>1
  <2>2. CASE m \notin M
    BY <1>1, <1>2, <2>2 DEF Kept
  <2> QED
    BY <2>1, <2>2
<1>5. ASSUME NEW day \in Days
      PROVE  /\ orphan'[day].reserved # 0 => Exists(ctr'[day]) \/ day < today - 1
             /\ orphan'[day].confirmed <= orphan'[day].reserved
  <2> DEFINE H == Holding(resv, day) \cap M
             A == Accepted(resv, day) \cap M
  <2>1. H \in SUBSET Messages /\ A \in SUBSET H
    BY DEF Holding, Accepted
  <2>2. A \in SUBSET Messages
    BY <2>1
  <2>3. Total(A) <= Total(H) /\ Total(A) \in Nat /\ Total(H) \in Nat
    BY <2>1, <2>2, TotalSubset, TotalNat
  <2>4. orphan[day].reserved \in Nat /\ orphan[day].confirmed \in Nat
    BY DEF TypeInv
  <2>5. orphan'[day].confirmed <= orphan'[day].reserved
    <3>1. orphan[day].confirmed <= orphan[day].reserved
      BY DEF Kept
    <3> HIDE DEF H, A
    <3>2. orphan'[day].reserved = orphan[day].reserved + Total(H) /\ orphan'[day].confirmed = orphan[day].confirmed + Total(A)
      BY <1>1 DEF H, A
    <3> QED
      BY <2>3, <2>4, <3>1, <3>2
  <2>6. ASSUME orphan'[day].reserved # 0
        PROVE  Exists(ctr'[day]) \/ day < today - 1
    <3>1. CASE orphan[day].reserved # 0
      BY <3>1 DEF Kept
    <3>2. CASE orphan[day].reserved = 0
      <4>1. Total(H) # 0
        <5> HIDE DEF H, A
        <5>1. orphan'[day].reserved = orphan[day].reserved + Total(H)
          BY <1>1 DEF H
        <5> QED
          BY <2>3, <2>6, <3>2, <5>1
      <4>2. H # {}
        BY <4>1, TotalEmpty
      <4>3. PICK m \in H : TRUE
        BY <4>2
      <4>4. m \in Messages /\ resv[m].day = day /\ resv[m].state # "none"
        BY <4>3 DEF Holding
      <4> QED
        BY <4>4 DEF Kept
    <3> QED
      BY <3>1, <3>2
  <2> QED
    BY <2>5, <2>6
<1> QED
  BY <1>4, <1>5 DEF Kept

\* One step per action.
LEMMA KeptStep ==
  ASSUME TypeInv, Kept, [Next]_vars
  PROVE  Kept'
<1>0. /\ \A m \in Messages : resv[m].day \in Days /\ resv[m].upd \in Days
      /\ today \in Nat /\ Days \subseteq Nat /\ OpenDays \in Nat
  BY DayFacts DEF TypeInv, Reservations
<1>1. ASSUME NEW m \in Messages, NEW d \in Domains, NEW config \in Schedules,
             NEW day \in {today - 1, today} \cap Nat, Reserve(m, d, day, config)
      PROVE  Kept'
  <2>1. UNCHANGED <<today, orphan>>
    BY <1>1, ReserveFacts
  <2>2. \A e \in Days : Exists(ctr[e]) => Exists(ctr'[e])
    BY <1>1, ReserveCounters
  <2>3. \A k \in Messages : \/ resv'[k] = resv[k] \/ resv'[k].state = "none"
                            \/ resv'[k].state = "reserved" /\ Exists(ctr'[resv'[k].day])
    BY <1>1, ReserveCounters
  <2> QED
    BY <1>0, <2>1, <2>2, <2>3 DEF Kept
<1>2. ASSUME NEW m \in Messages, Confirm(m)
      PROVE  Kept'
  <2>1. /\ UNCHANGED <<today, orphan>> /\ resv[m].day \in Days /\ Exists(ctr[resv[m].day])
        /\ \A e \in Days \ {resv[m].day} : ctr'[e] = ctr[e]
        /\ ctr'[resv[m].day].limit = ctr[resv[m].day].limit
        /\ \A k \in Messages \ {m} : resv'[k] = resv[k]
        /\ resv'[m].state = "confirmed" /\ resv'[m].day = resv[m].day
    BY <1>2, ConfirmEffect
  <2>2. \A e \in Days : Exists(ctr[e]) => Exists(ctr'[e])
    BY <2>1 DEF Exists
  <2> QED
    BY <1>0, <2>1, <2>2 DEF Kept
<1>3. ASSUME NEW m \in Messages, Release(m)
      PROVE  Kept'
  <2> DEFINE r == [state |-> "released", day |-> resv[m].day, upd |-> today]
  <2>1. /\ UNCHANGED <<today, orphan>> /\ resv[m].state = "reserved" /\ today <= resv[m].day + OpenDays
        /\ ctr' = GiveBack(ctr, resv[m].day, Units[m]) /\ resv' = [resv EXCEPT ![m] = r]
    BY <1>3, ReleaseFacts
  <2>2. Units[m] \in Nat /\ ctr \in [Days -> Counters] /\ resv \in [Messages -> Reservations]
    BY UnitsAssumption DEF TypeInv
  <2>3. \A e \in Days : Exists(ctr[e]) => Exists(ctr'[e])
    BY <1>0, <2>1, <2>2, GiveBackFact DEF Exists
  <2>4. r.state = "released" /\ r.day = resv[m].day /\ r.upd = today
    OBVIOUS
  <2> HIDE DEF r
  <2>5. resv'[m] = r /\ \A k \in Messages \ {m} : resv'[k] = resv[k]
    BY <2>1, <2>2
  <2> QED
    BY <1>0, <2>1, <2>3, <2>4, <2>5 DEF Kept
<1>4. ASSUME NEW m \in Messages, Purge(m)
      PROVE  Kept'
  <2>1. {m} \in SUBSET Messages /\ Deleted({m}) /\ UNCHANGED <<ctr, today>>
    BY <1>4 DEF Purge
  <2>2. /\ \A day \in Days : Exists(ctr[day]) => Exists(ctr'[day]) \/ day < today - 1
        /\ \A k \in Messages \ {m} : resv[k].state \in {"reserved", "released"} => Exists(ctr'[resv[k].day])
    BY <2>1 DEF Kept
  <2> QED
    BY <2>1, <2>2, DeletedKept
<1>5. ASSUME Sweep
      PROVE  Kept'
  <2> DEFINE M == {m \in Messages : resv[m].state \in {"confirmed", "released"} /\ resv[m].upd < today - KeepResv}
  <2>1. M \in SUBSET Messages /\ Deleted(M) /\ UNCHANGED today
    BY <1>5 DEF Sweep
  <2>2. \A day \in Days : ctr'[day] = IF Expired(day) THEN NoCounter ELSE ctr[day]
    BY <1>5 DEF Sweep
  <2>3. ASSUME NEW day \in Days, Exists(ctr[day])
        PROVE  Exists(ctr'[day]) \/ day < today - 1
    BY <1>0, <2>2, <2>3, DayFacts DEF Expired
  <2>4. ASSUME NEW m \in Messages \ M, resv[m].state \in {"reserved", "released"}
        PROVE  Exists(ctr'[resv[m].day])
    <3>1. Exists(ctr[resv[m].day])
      BY <2>4 DEF Kept
    <3>2. CASE resv[m].state = "reserved"
      <4>1. ~Expired(resv[m].day)
        BY <3>2 DEF Expired
      <4> QED
        BY <1>0, <2>2, <3>1, <4>1
    <3>3. CASE resv[m].state = "released"
      <4>1. ~(resv[m].upd < today - KeepResv) /\ resv[m].upd <= resv[m].day + OpenDays
        BY <2>4, <3>3 DEF Kept
      <4>2. ~(resv[m].day < today - KeepCounter)
        BY <1>0, <4>1, DayFacts
      <4> QED
        BY <1>0, <2>2, <3>1, <4>2 DEF Expired
    <3> QED
      BY <2>4, <3>2, <3>3
  <2> HIDE DEF M
  <2> QED
    BY <2>1, <2>3, <2>4, DeletedKept
<1>6. ASSUME NextDay
      PROVE  Kept'
  <2>1. today' = today + 1 /\ UNCHANGED <<ctr, resv, orphan>>
    BY <1>6 DEF NextDay
  <2>2. \A day \in Days : day < today - 1 => day < today' - 1
    BY <1>0, <2>1
  <2> QED
    BY <1>0, <2>1, <2>2, Zenon DEF Kept
<1>7. CASE (\E d \in Domains : Exempt(d) \/ SetVerified(d)) \/ UNCHANGED vars
  <2>1. UNCHANGED <<today, ctr, resv, orphan>>
    BY <1>7 DEF Exempt, SetVerified, vars
  <2> QED
    BY <2>1 DEF Kept
<1> QED
  BY <1>1, <1>2, <1>3, <1>4, <1>5, <1>6, <1>7 DEF Next

\* CounterOutlivesReservation: whatever the order of releases, corrections and
\* sweeps, what may still be confirmed has its counter.
THEOREM Retention == Spec => []CounterOutlivesReservation
<1>1. Kept => CounterOutlivesReservation
  BY DEF Kept, CounterOutlivesReservation
<1> QED
  BY <1>1, TypeInit, TypeStep, KeptInit, KeptStep, PTL DEF Spec
-----------------------------------------------------------------------------
(* The accounts.  They are stated of any counters, reservations and        *)
(* history, so that what Reserve does in two steps (give back, take) can   *)
(* be followed in two.                                                     *)

Accounts(c, r, o) ==
  \A day \in Days : Exists(c[day]) =>
     /\ c[day].reserved = Total(Holding(r, day)) + o[day].reserved
     /\ c[day].confirmed = Total(Accepted(r, day)) + o[day].confirmed

Orphans == [Days -> [reserved : Nat, confirmed : Nat]]

\* One reservation changes.
LEMMA HeldChange ==
  ASSUME NEW r, NEW q, NEW m \in Messages, NEW day \in Days, \A k \in Messages \ {m} : q[k] = r[k]
  PROVE  /\ Total(Holding(r, day)) \in Nat /\ Total(Holding(q, day)) \in Nat
         /\ Total(Accepted(r, day)) \in Nat /\ Total(Accepted(q, day)) \in Nat
         /\ Total(Holding(q, day)) + (IF m \in Holding(r, day) THEN Units[m] ELSE 0)
              = Total(Holding(r, day)) + (IF m \in Holding(q, day) THEN Units[m] ELSE 0)
         /\ Total(Accepted(q, day)) + (IF m \in Accepted(r, day) THEN Units[m] ELSE 0)
              = Total(Accepted(r, day)) + (IF m \in Accepted(q, day) THEN Units[m] ELSE 0)
<1>1. /\ Holding(r, day) \in SUBSET Messages /\ Holding(q, day) \in SUBSET Messages
      /\ Accepted(r, day) \in SUBSET Messages /\ Accepted(q, day) \in SUBSET Messages
      /\ Holding(r, day) \ {m} = Holding(q, day) \ {m}
      /\ Accepted(r, day) \ {m} = Accepted(q, day) \ {m}
  BY DEF Holding, Accepted
<1> QED
  BY <1>1, TotalNat, TotalChange

\* The conditional UPDATE of GiveBack always finds the units it gives back.
LEMMA Withdraw ==
  ASSUME NEW c \in [Days -> Counters], NEW r, NEW q, NEW o \in Orphans, NEW m \in Messages, Accounts(c, r, o),
         r[m].day \in Days, r[m].state = "reserved", Exists(c[r[m].day]),
         \A k \in Messages \ {m} : q[k] = r[k], q[m].state \in {"none", "released"}
  PROVE  Accounts(GiveBack(c, r[m].day, Units[m]), q, o)
<1> DEFINE n == Units[m]
           day == r[m].day
           g == GiveBack(c, day, n)
<1>1. n \in Nat
  BY UnitsAssumption
<1>2. ASSUME NEW e \in Days
      PROVE  /\ Total(Holding(r, e)) \in Nat /\ Total(Holding(q, e)) \in Nat
             /\ Total(Holding(q, e)) + (IF e = day THEN n ELSE 0) = Total(Holding(r, e))
             /\ Total(Accepted(q, e)) = Total(Accepted(r, e))
  <2>1. /\ m \notin Holding(q, e) /\ m \notin Accepted(q, e) /\ m \notin Accepted(r, e)
        /\ m \in Holding(r, e) <=> e = day
    BY DEF Holding, Accepted
  <2> HIDE DEF day, n
  <2> QED
    BY <1>1, <2>1, HeldChange DEF n
<1>3. ASSUME NEW e \in Days
      PROVE  o[e].reserved \in Nat /\ c[e].reserved \in Nat
  BY DEF Orphans, Counters
<1>4. c[day].reserved >= n
  BY <1>1, <1>2, <1>3 DEF Accounts
<1>5. /\ \A e \in Days : g[e].limit = c[e].limit /\ g[e].confirmed = c[e].confirmed
      /\ \A e \in Days \ {day} : g[e] = c[e]
      /\ g[day].reserved = c[day].reserved - n
  BY <1>1, <1>4, GiveBackFact
<1> HIDE DEF g, day, n
<1>6. ASSUME NEW e \in Days, Exists(g[e])
      PROVE  /\ g[e].reserved = Total(Holding(q, e)) + o[e].reserved
             /\ g[e].confirmed = Total(Accepted(q, e)) + o[e].confirmed
  <2>1. Exists(c[e])
    BY <1>5, <1>6 DEF Exists
  <2>2. /\ c[e].reserved = Total(Holding(r, e)) + o[e].reserved
        /\ c[e].confirmed = Total(Accepted(r, e)) + o[e].confirmed
    BY <2>1 DEF Accounts
  <2>3. CASE e = day
    BY <1>1, <1>2, <1>3, <1>5, <2>2, <2>3
  <2>4. CASE e # day
    BY <1>1, <1>2, <1>3, <1>5, <2>2, <2>4
  <2> QED
    BY <2>3, <2>4
<1> QED
  BY <1>6 DEF Accounts, g, day, n

\* A reservation that holds nothing is replaced by another one.
LEMMA Forget ==
  ASSUME NEW c, NEW r, NEW q, NEW o, NEW m \in Messages, Accounts(c, r, o),
         r[m].state \in {"none", "released"}, q[m].state \in {"none", "released"},
         \A k \in Messages \ {m} : q[k] = r[k]
  PROVE  Accounts(c, q, o)
<1>1. \A day \in Days : Holding(q, day) = Holding(r, day) /\ Accepted(q, day) = Accepted(r, day)
  BY DEF Holding, Accepted
<1> QED
  BY <1>1 DEF Accounts

\* New units are taken out of a day that has a counter, or that nothing is held for.
LEMMA Take ==
  ASSUME NEW c \in [Days -> Counters], NEW r, NEW q, NEW o \in Orphans, NEW m \in Messages, Accounts(c, r, o),
         NEW day \in Days, NEW cap \in Nat, cap > 0,
         r[m].state \in {"none", "released"}, q[m].state = "reserved", q[m].day = day,
         \A k \in Messages \ {m} : q[k] = r[k],
         Exists(c[day]) \/ (Holding(r, day) = {} /\ o[day].reserved = 0 /\ o[day].confirmed = 0)
  PROVE  Accounts(Upserted(c, day, Units[m], cap), q, o)
<1> DEFINE n == Units[m]
           u == Upserted(c, day, n, cap)
<1>1. n \in Nat
  BY UnitsAssumption
<1>2. ASSUME NEW e \in Days
      PROVE  /\ Total(Holding(r, e)) \in Nat /\ Total(Holding(q, e)) \in Nat
             /\ Total(Holding(q, e)) = Total(Holding(r, e)) + (IF e = day THEN n ELSE 0)
             /\ Total(Accepted(q, e)) = Total(Accepted(r, e))
  <2>1. /\ m \notin Holding(r, e) /\ m \notin Accepted(q, e) /\ m \notin Accepted(r, e)
        /\ m \in Holding(q, e) <=> e = day
    BY DEF Holding, Accepted
  <2> HIDE DEF n
  <2> QED
    BY <1>1, <2>1, HeldChange DEF n
<1>3. ASSUME NEW e \in Days
      PROVE  o[e].reserved \in Nat /\ c[e].reserved \in Nat
  BY DEF Orphans, Counters
<1>4. /\ \A e \in Days \ {day} : u[e] = c[e]
      /\ Exists(c[day]) => u[day].reserved = c[day].reserved + n /\ u[day].confirmed = c[day].confirmed
      /\ ~Exists(c[day]) => u[day].reserved = n /\ u[day].confirmed = 0
  BY <1>1, UpsertedFact
<1> HIDE DEF u, n
<1>5. ASSUME NEW e \in Days, Exists(u[e])
      PROVE  /\ u[e].reserved = Total(Holding(q, e)) + o[e].reserved
             /\ u[e].confirmed = Total(Accepted(q, e)) + o[e].confirmed
  <2>1. CASE e # day
    BY <1>2, <1>3, <1>4, <1>5, <2>1 DEF Accounts
  <2>2. CASE e = day /\ Exists(c[day])
    <3>1. /\ c[day].reserved = Total(Holding(r, day)) + o[day].reserved
          /\ c[day].confirmed = Total(Accepted(r, day)) + o[day].confirmed
      BY <2>2 DEF Accounts
    <3> QED
      BY <1>1, <1>2, <1>3, <1>4, <2>2, <3>1
  <2>3. CASE e = day /\ ~Exists(c[day])
    <3>1. Accepted(r, day) = {} /\ Holding(r, day) = {}
      BY <2>3 DEF Accepted, Holding
    <3>2. Total(Holding(r, day)) = 0 /\ Total(Accepted(r, day)) = 0
      BY <3>1, TotalEmpty
    <3> QED
      BY <1>1, <1>2, <1>3, <1>4, <2>3, <3>2
  <2> QED
    BY <2>1, <2>2, <2>3
<1> QED
  BY <1>5 DEF Accounts, u, n

Account == Accounts(ctr, resv, orphan)

\* A deleted reservation's units stay in the counter and go to the history.
LEMMA DeletedAccount ==
  ASSUME TypeInv, Account, NEW M \in SUBSET Messages, Deleted(M),
         \A day \in Days : Exists(ctr'[day]) => ctr'[day] = ctr[day]
  PROVE  Account'
<1>1. /\ \A m \in Messages : resv'[m] = IF m \in M THEN NoResv ELSE resv[m]
      /\ \A day \in Days :
           /\ orphan'[day].reserved = orphan[day].reserved + Total(Holding(resv, day) \cap M)
           /\ orphan'[day].confirmed = orphan[day].confirmed + Total(Accepted(resv, day) \cap M)
  BY DeletedFacts
<1>2. ASSUME NEW day \in Days, Exists(ctr'[day])
      PROVE  /\ ctr'[day].reserved = Total(Holding(resv', day)) + orphan'[day].reserved
             /\ ctr'[day].confirmed = Total(Accepted(resv', day)) + orphan'[day].confirmed
  <2> DEFINE H == Holding(resv, day)
             A == Accepted(resv, day)
  <2>1. Holding(resv', day) = H \ M /\ Accepted(resv', day) = A \ M
    BY <1>1 DEF Holding, Accepted, NoResv
  <2>2. H \in SUBSET Messages /\ A \in SUBSET Messages
    BY DEF Holding, Accepted
  <2>3. /\ ctr'[day].reserved = Total(H) + orphan[day].reserved
        /\ ctr'[day].confirmed = Total(A) + orphan[day].confirmed
    <3>1. ctr'[day] = ctr[day] /\ Exists(ctr[day])
      BY <1>2
    <3> QED
      BY <3>1 DEF Account, Accounts
  <2>4. orphan[day].reserved \in Nat /\ orphan[day].confirmed \in Nat
    BY DEF TypeInv
  <2>5. /\ orphan'[day].reserved = orphan[day].reserved + Total(H \cap M)
        /\ orphan'[day].confirmed = orphan[day].confirmed + Total(A \cap M)
    BY <1>1
  <2> HIDE DEF H, A
  <2>6. /\ Total(H) = Total(H \ M) + Total(H \cap M) /\ Total(H \ M) \in Nat /\ Total(H \cap M) \in Nat
        /\ Total(A) = Total(A \ M) + Total(A \cap M) /\ Total(A \ M) \in Nat /\ Total(A \cap M) \in Nat
    BY <2>2, TotalParts
  <2> QED
    BY <2>1, <2>3, <2>4, <2>5, <2>6
<1> QED
  BY <1>2 DEF Account, Accounts

\* One step per action.
LEMMA AccountStep ==
  ASSUME TypeInv, Kept, Account, [Next]_vars
  PROVE  Account'
<1>0. ctr \in [Days -> Counters] /\ orphan \in Orphans /\ resv \in [Messages -> Reservations]
  BY DEF TypeInv, Orphans
<1>1. ASSUME NEW m \in Messages, NEW d \in Domains, NEW config \in Schedules,
             NEW day \in {today - 1, today} \cap Nat, Reserve(m, d, day, config)
      PROVE  Account'
  <2> DEFINE free == WithoutPrior(m)
             cap == Cap(config)
             q == [resv EXCEPT ![m] = NoResv]
             r == [state |-> "reserved", day |-> day, upd |-> today]
  <2>1. day \in Days /\ day >= today - 1 /\ UNCHANGED orphan /\ cap \in Nat /\ cap > 0
    BY <1>1, ReserveFacts, CapIsPositive
  <2>2. \/ UNCHANGED <<ctr, resv>>
        \/ /\ resv[m].state \in {"none", "reserved"}
           /\ \/ ctr' = Upserted(free, day, Units[m], cap) /\ resv' = [resv EXCEPT ![m] = r]
              \/ ctr' = free /\ resv' = q
    BY <1>1, ReserveFacts
  <2>3. CASE UNCHANGED <<ctr, resv>>
    BY <2>1, <2>3 DEF Account
  <2>4. CASE resv[m].state \in {"none", "reserved"}
    <3>1. (\A k \in Messages \ {m} : q[k] = resv[k]) /\ q[m] = NoResv /\ NoResv.state = "none"
      BY <1>0 DEF NoResv
    <3> HIDE DEF q
    <3>2. Accounts(free, q, orphan)
      <4>1. CASE resv[m].state = "none"
        <5>1. free = ctr
          BY <4>1 DEF WithoutPrior
        <5> QED
          BY <3>1, <4>1, <5>1, Forget DEF Account
      <4>2. CASE resv[m].state = "reserved"
        <5>1. free = GiveBack(ctr, resv[m].day, Units[m])
          BY <4>2 DEF WithoutPrior
        <5>2. resv[m].day \in Days /\ Exists(ctr[resv[m].day])
          BY <1>0, <4>2 DEF Reservations, Kept
        <5> QED
          BY <1>0, <3>1, <4>2, <5>1, <5>2, Withdraw DEF Account
      <4> QED
        BY <2>4, <4>1, <4>2
    <3>3. CASE ctr' = free /\ resv' = q
      BY <2>1, <3>2, <3>3 DEF Account
    <3>4. CASE ctr' = Upserted(free, day, Units[m], cap) /\ resv' = [resv EXCEPT ![m] = r]
      <4>1. r.state = "reserved" /\ r.day = day
        OBVIOUS
      <4> HIDE DEF r
      <4>2. resv'[m] = r /\ \A k \in Messages \ {m} : resv'[k] = q[k]
        BY <1>0, <3>1, <3>4
      <4>3. free \in [Days -> Counters] /\ free[day].limit = ctr[day].limit
        BY <2>1, WithoutPriorFact
      <4>4. ASSUME ~Exists(free[day])
            PROVE  Holding(q, day) = {} /\ orphan[day].reserved = 0 /\ orphan[day].confirmed = 0
        <5>1. ~Exists(ctr[day]) /\ ~(day < today - 1)
          <6>1. today \in Nat /\ day \in Nat
            BY <2>1, DayFacts DEF TypeInv
          <6> QED
            BY <2>1, <4>3, <4>4, <6>1 DEF Exists
        <5>2. \A k \in Messages : resv[k].day = day => resv[k].state = "none"
          BY <5>1 DEF Kept
        <5>3. Holding(q, day) = {}
          BY <3>1, <5>2 DEF Holding
        <5>4. orphan[day].reserved = 0 /\ orphan[day].confirmed <= orphan[day].reserved
          BY <2>1, <5>1 DEF Kept
        <5>5. orphan[day].confirmed \in Nat
          BY <2>1 DEF TypeInv
        <5> QED
          BY <5>3, <5>4, <5>5
      <4> HIDE DEF free, cap
      <4>5. Accounts(Upserted(free, day, Units[m], cap), resv', orphan)
        BY <1>0, <2>1, <3>1, <3>2, <4>1, <4>2, <4>3, <4>4, Take
      <4> QED
        BY <2>1, <3>4, <4>5 DEF Account
    <3> QED
      BY <2>2, <2>3, <3>3, <3>4 DEF q
  <2> QED
    BY <2>2, <2>3, <2>4
<1>2. ASSUME NEW m \in Messages, Confirm(m)
      PROVE  Account'
  <2> DEFINE day == resv[m].day
             n == Units[m]
  <2>1. /\ day \in Days /\ Exists(ctr[day]) /\ resv[m].state \in {"reserved", "released"} /\ UNCHANGED orphan
        /\ \A e \in Days \ {day} : ctr'[e] = ctr[e]
        /\ ctr'[day].limit = ctr[day].limit /\ ctr'[day].confirmed = ctr[day].confirmed + n
        /\ resv[m].state = "reserved" => ctr'[day].reserved = ctr[day].reserved
        /\ resv[m].state = "released" => ctr'[day].reserved = ctr[day].reserved + n
        /\ \A k \in Messages \ {m} : resv'[k] = resv[k]
        /\ resv'[m].state = "confirmed" /\ resv'[m].day = day
    BY <1>2, ConfirmEffect
  <2>2. n \in Nat
    BY UnitsAssumption
  <2>3. ASSUME NEW e \in Days
        PROVE  /\ Total(Holding(resv, e)) \in Nat /\ Total(Accepted(resv, e)) \in Nat
               /\ Total(Holding(resv', e)) = Total(Holding(resv, e))
                    + (IF e = day /\ resv[m].state = "released" THEN n ELSE 0)
               /\ Total(Accepted(resv', e)) = Total(Accepted(resv, e)) + (IF e = day THEN n ELSE 0)
    <3>1. /\ m \in Holding(resv, e) <=> (e = day /\ resv[m].state = "reserved")
          /\ m \notin Accepted(resv, e)
          /\ m \in Holding(resv', e) <=> e = day
          /\ m \in Accepted(resv', e) <=> e = day
      BY <2>1 DEF Holding, Accepted
    <3> DEFINE p == resv
               q == resv'
    <3>2. \A k \in Messages \ {m} : q[k] = p[k]
      BY <2>1
    <3> HIDE DEF p, q
    <3>3. /\ Total(Holding(p, e)) \in Nat /\ Total(Holding(q, e)) \in Nat
          /\ Total(Accepted(p, e)) \in Nat /\ Total(Accepted(q, e)) \in Nat
          /\ Total(Holding(q, e)) + (IF m \in Holding(p, e) THEN Units[m] ELSE 0)
               = Total(Holding(p, e)) + (IF m \in Holding(q, e) THEN Units[m] ELSE 0)
          /\ Total(Accepted(q, e)) + (IF m \in Accepted(p, e) THEN Units[m] ELSE 0)
               = Total(Accepted(p, e)) + (IF m \in Accepted(q, e) THEN Units[m] ELSE 0)
      BY <3>2, HeldChange
    <3> HIDE DEF day
    <3> QED
      BY <2>1, <2>2, <3>1, <3>3 DEF p, q
  <2>4. ASSUME NEW e \in Days
        PROVE  ctr[e].reserved \in Nat /\ ctr[e].confirmed \in Nat /\ orphan[e].reserved \in Nat /\ orphan[e].confirmed \in Nat
    BY <1>0 DEF Counters, Orphans
  <2> HIDE DEF day, n
  <2>5. ASSUME NEW e \in Days, Exists(ctr'[e])
        PROVE  /\ ctr'[e].reserved = Total(Holding(resv', e)) + orphan'[e].reserved
               /\ ctr'[e].confirmed = Total(Accepted(resv', e)) + orphan'[e].confirmed
    <3>1. Exists(ctr[e])
      BY <2>1, <2>5
    <3>2. /\ ctr[e].reserved = Total(Holding(resv, e)) + orphan[e].reserved
          /\ ctr[e].confirmed = Total(Accepted(resv, e)) + orphan[e].confirmed
      BY <3>1 DEF Account, Accounts
    <3>3. CASE e # day
      BY <2>1, <2>3, <2>4, <3>2, <3>3
    <3>4. CASE e = day
      BY <2>1, <2>2, <2>3, <2>4, <3>2, <3>4
    <3> QED
      BY <3>3, <3>4
  <2> QED
    BY <2>5 DEF Account, Accounts
<1>3. ASSUME NEW m \in Messages, Release(m)
      PROVE  Account'
  <2> DEFINE r == [state |-> "released", day |-> resv[m].day, upd |-> today]
  <2>1. /\ UNCHANGED orphan /\ resv[m].state = "reserved"
        /\ ctr' = GiveBack(ctr, resv[m].day, Units[m]) /\ resv' = [resv EXCEPT ![m] = r]
    BY <1>3, ReleaseFacts
  <2>2. r.state = "released"
    OBVIOUS
  <2> HIDE DEF r
  <2>3. resv'[m] = r /\ \A k \in Messages \ {m} : resv'[k] = resv[k]
    BY <1>0, <2>1
  <2>4. resv[m].day \in Days /\ Exists(ctr[resv[m].day])
    BY <1>0, <2>1 DEF Reservations, Kept
  <2>5. Accounts(GiveBack(ctr, resv[m].day, Units[m]), resv', orphan)
    BY <1>0, <2>1, <2>2, <2>3, <2>4, Withdraw DEF Account
  <2> QED
    BY <2>1, <2>5 DEF Account
<1>4. ASSUME NEW m \in Messages, Purge(m)
      PROVE  Account'
  <2>1. {m} \in SUBSET Messages /\ Deleted({m}) /\ UNCHANGED ctr
    BY <1>4 DEF Purge
  <2> QED
    BY <2>1, DeletedAccount
<1>5. ASSUME Sweep
      PROVE  Account'
  <2> DEFINE M == {m \in Messages : resv[m].state \in {"confirmed", "released"} /\ resv[m].upd < today - KeepResv}
  <2>1. M \in SUBSET Messages /\ Deleted(M)
    BY <1>5 DEF Sweep
  <2>2. \A day \in Days : Exists(ctr'[day]) => ctr'[day] = ctr[day]
    BY <1>5 DEF Sweep, NoCounter, Exists
  <2> HIDE DEF M
  <2> QED
    BY <2>1, <2>2, DeletedAccount
<1>6. CASE (\E d \in Domains : Exempt(d) \/ SetVerified(d)) \/ NextDay \/ UNCHANGED vars
  <2>1. UNCHANGED <<ctr, resv, orphan>>
    BY <1>6 DEF Exempt, SetVerified, NextDay, vars
  <2> QED
    BY <2>1 DEF Account
<1> QED
  BY <1>1, <1>2, <1>3, <1>4, <1>5, <1>6 DEF Next

\* CountersAccount: through every interleaving of retries, releases, late
\* corrections, purges and sweeps a day's counter is the sum of what its
\* reservations hold and what deleted ones left, and confirmed <= reserved.
THEOREM ExactCounters == Spec => []CountersAccount
<1>1. Init => Account
  BY DEF Init, Account, Accounts, NoCounter, Exists
<1>2. ASSUME TypeInv, Kept, Account
      PROVE  CountersAccount
  <2> SUFFICES ASSUME NEW day \in Days, Exists(ctr[day])
               PROVE  /\ ctr[day].reserved = HeldUnits(day, {"reserved", "confirmed"}) + orphan[day].reserved
                      /\ ctr[day].confirmed = HeldUnits(day, {"confirmed"}) + orphan[day].confirmed
                      /\ ctr[day].confirmed <= ctr[day].reserved
    BY DEF CountersAccount
  <2> DEFINE H == Holding(resv, day)
             A == Accepted(resv, day)
  <2>1. HeldUnits(day, {"reserved", "confirmed"}) = Total(H) /\ HeldUnits(day, {"confirmed"}) = Total(A)
    BY Zenon DEF HeldUnits, Total, Holding, Accepted
  <2>2. H \in SUBSET Messages /\ A \in SUBSET H
    BY DEF Holding, Accepted
  <2>3. Total(H) \in Nat /\ Total(A) \in Nat /\ Total(A) <= Total(H)
    <3>1. A \in SUBSET Messages
      BY <2>2
    <3> HIDE DEF H, A
    <3> QED
      BY <2>2, <3>1, TotalNat, TotalSubset
  <2>4. /\ ctr[day].reserved = Total(H) + orphan[day].reserved
        /\ ctr[day].confirmed = Total(A) + orphan[day].confirmed
    BY <1>2 DEF Account, Accounts
  <2>5. /\ orphan[day].reserved \in Nat /\ orphan[day].confirmed \in Nat
        /\ orphan[day].confirmed <= orphan[day].reserved
    BY <1>2 DEF TypeInv, Kept
  <2> HIDE DEF H, A
  <2> QED
    BY <2>1, <2>3, <2>4, <2>5
<1> QED
  BY <1>1, <1>2, TypeInit, TypeStep, KeptInit, KeptStep, AccountStep, PTL DEF Spec
-----------------------------------------------------------------------------
(* Progress.                                                               *)

\* The days that can account for the scope's active days.  A day without a
\* counter counts only once no reservation can be taken on it any more.
EarnedDays ==
  {day \in 0..scope.lastQ : IF Exists(ctr[day]) THEN Qualifies(ctr[day].confirmed, ctr[day].limit)
                                                ELSE day < today - 1}

Earned ==
  /\ scope.activeDays <= Cardinality(EarnedDays)
  /\ \A day \in Days : ctr[day].limit <= CapForActiveDay(scope.sched, scope.activeDays)
  /\ scope.status = "none" => \A day \in Days : ~Exists(ctr[day])

\* The days that qualified are finitely many.
LEMMA EarnedDaysFact ==
  ASSUME TypeInv
  PROVE  IsFiniteSet(EarnedDays) /\ Cardinality(EarnedDays) \in Nat /\ EarnedDays \subseteq Days
<1>1. scope.lastQ \in Int /\ 0..scope.lastQ \subseteq Days
  BY DayFacts DEF TypeInv, Scopes
<1>2. IsFiniteSet(0..scope.lastQ)
  BY <1>1, FS_Interval
<1>3. EarnedDays \subseteq 0..scope.lastQ
  BY DEF EarnedDays
<1>4. IsFiniteSet(EarnedDays)
  BY <1>2, <1>3, FS_Subset
<1> QED
  BY <1>1, <1>3, <1>4, FS_CardinalityType

\* The same of the next state.
LEMMA EarnedDaysLater ==
  ASSUME TypeInv'
  PROVE  IsFiniteSet(EarnedDays') /\ Cardinality(EarnedDays') \in Nat
<1>1. scope' \in Scopes
  BY DEF TypeInv
<1>2. scope'.lastQ \in Int
  BY <1>1, DayFacts DEF Scopes
<1>3. IsFiniteSet(0..scope'.lastQ)
  BY <1>2, FS_Interval
<1>4. EarnedDays' \in SUBSET (0..scope'.lastQ)
  BY DEF EarnedDays
<1> QED
  BY <1>3, <1>4, FS_Subset, FS_CardinalityType

\* An accepted volume that qualifies still does when it grows.
LEMMA QualifiesGrows ==
  ASSUME NEW limit \in Nat, NEW a \in Nat, NEW b \in Nat, a <= b, Qualifies(a, limit)
  PROVE  Qualifies(b, limit)
<1>1. (limit + 1) \div 2 \in Nat
  BY DivFact
<1> QED
  BY <1>1 DEF Qualifies

\* Counters with the same limits and at least the same accepted volume.
LEMMA EarnedDaysGrow ==
  ASSUME TypeInv, TypeInv', today' >= today, scope'.lastQ >= scope.lastQ,
         \A e \in Days : \/ /\ Exists(ctr[e])
                            /\ \/ ctr'[e].limit = ctr[e].limit /\ ctr'[e].confirmed >= ctr[e].confirmed
                               \/ ~Exists(ctr'[e]) /\ e < today - 1
                         \/ ~Exists(ctr[e]) /\ (~Exists(ctr'[e]) \/ ~(e < today - 1))
  PROVE  EarnedDays \subseteq EarnedDays'
<1> SUFFICES ASSUME NEW e \in EarnedDays PROVE e \in EarnedDays'
  OBVIOUS
<1>1. e \in Days /\ e \in 0..scope.lastQ
  BY EarnedDaysFact DEF EarnedDays
<1>2. scope.lastQ \in Int /\ scope'.lastQ \in Int /\ today \in Nat /\ today' \in Nat
  <2>1. scope \in Scopes /\ scope' \in Scopes /\ today \in Days /\ today' \in Days
    BY DEF TypeInv
  <2> QED
    BY <2>1, DayFacts DEF Scopes
<1>3. e \in 0..scope'.lastQ
  BY <1>1, <1>2
<1>4. e < today - 1 => e < today' - 1
  <2> DEFINE t == today
             u == today'
  <2>1. e \in Nat /\ t \in Nat /\ u \in Nat /\ u >= t
    BY <1>1, <1>2, DayFacts
  <2> HIDE DEF t, u
  <2>2. e < t - 1 => e < u - 1
    BY <2>1
  <2> QED
    BY <2>2 DEF t, u
<1>5. /\ ctr[e].limit \in Nat /\ ctr[e].confirmed \in Nat
      /\ ctr'[e].limit \in Nat /\ ctr'[e].confirmed \in Nat
  BY <1>1 DEF TypeInv, Counters
<1>6. IF Exists(ctr'[e]) THEN Qualifies(ctr'[e].confirmed, ctr'[e].limit) ELSE e < today' - 1
  <2>1. CASE Exists(ctr[e]) /\ ctr'[e].limit = ctr[e].limit /\ ctr'[e].confirmed >= ctr[e].confirmed
    <3>1. Qualifies(ctr[e].confirmed, ctr[e].limit) /\ Exists(ctr'[e])
      BY <2>1 DEF EarnedDays, Exists
    <3> QED
      BY <1>5, <2>1, <3>1, QualifiesGrows
  <2>2. CASE Exists(ctr[e]) /\ ~Exists(ctr'[e]) /\ e < today - 1
    BY <1>4, <2>2
  <2>3. CASE ~Exists(ctr[e])
    <3>1. e < today - 1
      BY <2>3 DEF EarnedDays
    <3> QED
      BY <1>1, <1>4, <2>3, <3>1
  <2> QED
    BY <1>1, <2>1, <2>2, <2>3
<1> QED
  BY <1>3, <1>6 DEF EarnedDays

\* Reserve keeps the limits and the accepted volumes; a new counter gets the
\* allowance of the current progress.
LEMMA ReserveLimits ==
  ASSUME TypeInv, NEW m \in Messages, NEW d \in Domains, NEW config \in Schedules,
         NEW day \in {today - 1, today} \cap Nat, Reserve(m, d, day, config)
  PROVE  \A e \in Days : \/ ctr'[e].limit = ctr[e].limit /\ ctr'[e].confirmed = ctr[e].confirmed
                         \/ ~Exists(ctr[e]) /\ e = day /\ ctr'[e].limit = Cap(config)
<1> DEFINE free == WithoutPrior(m)
           n == Units[m]
           cap == Cap(config)
<1>1. free \in [Days -> Counters] /\ \A e \in Days : free[e].limit = ctr[e].limit /\ free[e].confirmed = ctr[e].confirmed
  BY WithoutPriorFact
<1>2. day \in Days /\ n \in Nat /\ cap \in Nat /\ cap > 0
  BY ReserveFacts, UnitsAssumption, CapIsPositive
<1>3. UNCHANGED ctr \/ ctr' = free \/ ctr' = Upserted(free, day, n, cap)
  BY ReserveFacts
<1> HIDE DEF free, n, cap
<1>4. /\ Exists(free[day]) => /\ Upserted(free, day, n, cap)[day].confirmed = free[day].confirmed
                              /\ Upserted(free, day, n, cap)[day].limit = free[day].limit
      /\ ~Exists(free[day]) => Upserted(free, day, n, cap)[day].limit = cap
  <2>1. CASE Exists(free[day])
    BY <1>1, <1>2, <2>1, UpsertedFact
  <2>2. CASE ~Exists(free[day])
    BY <1>1, <1>2, <2>2, UpsertedFact
  <2> QED
    BY <2>1, <2>2
<1>8. \A e \in Days \ {day} : Upserted(free, day, n, cap)[e] = free[e]
  BY <1>1, <1>2, UpsertedFact
<1>5. Exists(free[day]) <=> Exists(ctr[day])
  BY <1>1, <1>2 DEF Exists
<1>6. CASE UNCHANGED ctr \/ ctr' = free
  BY <1>1, <1>6
<1>7. CASE ctr' = Upserted(free, day, n, cap)
  BY <1>1, <1>4, <1>5, <1>7, <1>8 DEF cap
<1> QED
  BY <1>3, <1>6, <1>7

\* Steps after which the progress is the same.
LEMMA EarnedSame ==
  ASSUME TypeInv, TypeInv', Earned, scope'.activeDays = scope.activeDays, EarnedDays \subseteq EarnedDays'
  PROVE  scope'.activeDays <= Cardinality(EarnedDays')
<1>1. IsFiniteSet(EarnedDays') /\ Cardinality(EarnedDays') \in Nat
  BY EarnedDaysLater
<1>2. Cardinality(EarnedDays) <= Cardinality(EarnedDays') /\ Cardinality(EarnedDays) \in Nat
  BY <1>1, FS_Subset, EarnedDaysFact
<1>3. scope.activeDays \in Nat
  BY DEF TypeInv, Scopes
<1> QED
  BY <1>1, <1>2, <1>3 DEF Earned

\* One step per action.
LEMMA EarnedStep ==
  ASSUME TypeInv, TypeInv', Earned, [Next]_vars
  PROVE  Earned'
<1>0. /\ scope \in Scopes /\ scope.activeDays \in Nat /\ scope.lastQ \in Int /\ scope.sched \in Schedule
      /\ today \in Nat /\ \A e \in Days : ctr[e].limit \in Nat /\ ctr[e].confirmed \in Nat /\ e \in Nat
  <2>1. scope \in Scopes /\ today \in Days /\ ctr \in [Days -> Counters]
    BY DEF TypeInv
  <2>2. scope.activeDays \in Nat /\ scope.lastQ \in Int /\ scope.sched \in Schedule
    BY <2>1, DayFacts DEF Scopes
  <2> QED
    BY <2>1, <2>2, DayFacts DEF Counters
<1>1. ASSUME NEW m \in Messages, NEW d \in Domains, NEW config \in Schedules,
             NEW day \in {today - 1, today} \cap Nat, Reserve(m, d, day, config)
      PROVE  Earned'
  <2> DEFINE sc == ArmedScope(config)
  <2>1. /\ sc \in Scopes /\ sc.status # "none" /\ sc.activeDays = scope.activeDays /\ sc.lastQ = scope.lastQ
        /\ scope.status # "none" => sc = scope
    BY ArmedFact
  <2>2. day \in Days /\ day >= today - 1 /\ UNCHANGED today
    BY <1>1, ReserveFacts
  <2>3. /\ scope'.status # "none" /\ scope'.activeDays = scope.activeDays /\ scope'.lastQ = scope.lastQ
        /\ scope'.sched = sc.sched
    <3>1. scope' = sc \/ scope' = [sc EXCEPT !.status = "complete"]
      BY <1>1, ReserveFacts
    <3> HIDE DEF sc
    <3> QED
      BY <2>1, <3>1 DEF Scopes
  <2>4. Cap(config) = CapForActiveDay(scope'.sched, scope'.activeDays) /\ Cap(config) \in Nat
    BY <2>3, CapIsPositive DEF Cap
  <2>5. \A e \in Days : \/ ctr'[e].limit = ctr[e].limit /\ ctr'[e].confirmed = ctr[e].confirmed
                        \/ ~Exists(ctr[e]) /\ e = day /\ ctr'[e].limit = Cap(config)
    BY <1>1, ReserveLimits
  <2>6. ASSUME NEW e \in Days
        PROVE  ctr'[e].limit <= CapForActiveDay(scope'.sched, scope'.activeDays)
    <3>1. CASE ctr'[e].limit = Cap(config)
      BY <2>4, <3>1
    <3>2. CASE ctr'[e].limit = ctr[e].limit /\ scope.status = "none"
      <4>1. ctr[e].limit = 0
        BY <1>0, <3>2 DEF Earned, Exists
      <4> QED
        BY <2>4, <3>2, <4>1, CapIsPositive
    <3>3. CASE ctr'[e].limit = ctr[e].limit /\ scope.status # "none"
      BY <2>1, <2>3, <3>3 DEF Earned
    <3> QED
      BY <2>5, <3>1, <3>2, <3>3
  <2>7. EarnedDays \subseteq EarnedDays'
    <3>1. ASSUME NEW e \in Days
          PROVE  \/ /\ Exists(ctr[e])
                    /\ \/ ctr'[e].limit = ctr[e].limit /\ ctr'[e].confirmed >= ctr[e].confirmed
                       \/ ~Exists(ctr'[e]) /\ e < today - 1
                 \/ ~Exists(ctr[e]) /\ (~Exists(ctr'[e]) \/ ~(e < today - 1))
      <4>1. CASE ctr'[e].limit = ctr[e].limit /\ ctr'[e].confirmed = ctr[e].confirmed
        BY <1>0, <4>1 DEF Exists
      <4>2. CASE ~Exists(ctr[e]) /\ e = day
        BY <1>0, <2>2, <4>2
      <4> QED
        BY <2>5, <4>1, <4>2
    <3>2. today' >= today /\ scope'.lastQ >= scope.lastQ
      BY <1>0, <2>2, <2>3
    <3> QED
      BY <3>1, <3>2, EarnedDaysGrow
  <2>8. scope'.activeDays <= Cardinality(EarnedDays')
    BY <2>3, <2>7, EarnedSame
  <2> QED
    BY <2>3, <2>6, <2>8 DEF Earned
<1>2. ASSUME NEW m \in Messages, Confirm(m)
      PROVE  Earned'
  <2> DEFINE day == resv[m].day
             n == Units[m]
  <2>1. /\ day \in Days /\ Exists(ctr[day]) /\ UNCHANGED today
        /\ \A e \in Days \ {day} : ctr'[e] = ctr[e]
        /\ ctr'[day].limit = ctr[day].limit /\ ctr'[day].confirmed = ctr[day].confirmed + n
        /\ \/ UNCHANGED scope
           \/ /\ scope'.status = scope.status /\ scope'.sched = scope.sched
              /\ scope'.activeDays = scope.activeDays + 1 /\ scope'.lastQ = day /\ scope.lastQ < day
              /\ Qualifies(ctr'[day].confirmed, ctr[day].limit)
    BY <1>2, ConfirmEffect
  <2>2. n \in Nat
    BY UnitsAssumption
  <2> HIDE DEF day, n
  <2>3. \A e \in Days : ctr'[e].limit = ctr[e].limit /\ ctr'[e].confirmed >= ctr[e].confirmed
    BY <1>0, <2>1, <2>2
  <2>4. \A e \in Days : Exists(ctr'[e]) <=> Exists(ctr[e])
    BY <2>3 DEF Exists
  <2>5. today' >= today /\ scope'.lastQ >= scope.lastQ
    BY <1>0, <2>1, DayFacts
  <2>6. EarnedDays \subseteq EarnedDays'
    <3>1. \A e \in Days : \/ /\ Exists(ctr[e])
                             /\ \/ ctr'[e].limit = ctr[e].limit /\ ctr'[e].confirmed >= ctr[e].confirmed
                                \/ ~Exists(ctr'[e]) /\ e < today - 1
                          \/ ~Exists(ctr[e]) /\ (~Exists(ctr'[e]) \/ ~(e < today - 1))
      BY <2>3, <2>4
    <3> QED
      BY <2>5, <3>1, EarnedDaysGrow
  <2>7. CASE UNCHANGED scope
    <3>1. scope'.activeDays <= Cardinality(EarnedDays')
      BY <2>6, <2>7, EarnedSame
    <3> QED
      BY <2>3, <2>4, <2>7, <3>1 DEF Earned
  <2>8. CASE /\ scope'.status = scope.status /\ scope'.sched = scope.sched
             /\ scope'.activeDays = scope.activeDays + 1 /\ scope'.lastQ = day /\ scope.lastQ < day
             /\ Qualifies(ctr'[day].confirmed, ctr[day].limit)
    <3>1. day \notin EarnedDays /\ day \in Nat
      BY <1>0, <2>1, <2>8 DEF EarnedDays
    <3>2. day \in EarnedDays'
      <4>1. Exists(ctr'[day]) /\ Qualifies(ctr'[day].confirmed, ctr'[day].limit) /\ day \in 0..scope'.lastQ
        BY <2>1, <2>4, <2>8, <3>1
      <4> QED
        BY <4>1 DEF EarnedDays
    <3>3. IsFiniteSet(EarnedDays) /\ Cardinality(EarnedDays) \in Nat
      BY EarnedDaysFact
    <3>4. Cardinality(EarnedDays \cup {day}) = Cardinality(EarnedDays) + 1
      BY <3>1, <3>3, FS_AddElement
    <3>5. IsFiniteSet(EarnedDays') /\ Cardinality(EarnedDays') \in Nat
      BY EarnedDaysLater
    <3>6. EarnedDays \cup {day} \in SUBSET EarnedDays'
      BY <2>6, <3>2
    <3>7. Cardinality(EarnedDays \cup {day}) <= Cardinality(EarnedDays')
      BY <3>5, <3>6, FS_Subset
    <3>8. scope'.activeDays <= Cardinality(EarnedDays')
      BY <1>0, <2>8, <3>3, <3>4, <3>5, <3>7 DEF Earned
    <3>9. ASSUME NEW e \in Days
          PROVE  ctr'[e].limit <= CapForActiveDay(scope'.sched, scope'.activeDays)
      <4>1. /\ CapForActiveDay(scope.sched, scope.activeDays) \in Nat
            /\ CapForActiveDay(scope.sched, scope.activeDays + 1) \in Nat
            /\ CapForActiveDay(scope.sched, scope.activeDays) <= CapForActiveDay(scope.sched, scope.activeDays + 1)
        BY <1>0, CapFact
      <4>2. ctr[e].limit <= CapForActiveDay(scope.sched, scope.activeDays)
        BY DEF Earned
      <4> QED
        BY <1>0, <2>3, <2>8, <4>1, <4>2
    <3> QED
      BY <2>4, <2>8, <3>8, <3>9 DEF Earned
  <2> QED
    BY <2>1, <2>7, <2>8
<1>3. ASSUME UNCHANGED scope, today' >= today,
             \A e \in Days : \/ ctr'[e].limit = ctr[e].limit /\ ctr'[e].confirmed = ctr[e].confirmed
                             \/ ctr'[e] = NoCounter /\ e < today - 1
      PROVE  Earned'
  <2>1. ~Exists(NoCounter) /\ NoCounter.limit = 0
    BY DEF NoCounter, Exists
  <2>2. EarnedDays \subseteq EarnedDays'
    <3>1. ASSUME NEW e \in Days
          PROVE  \/ /\ Exists(ctr[e])
                    /\ \/ ctr'[e].limit = ctr[e].limit /\ ctr'[e].confirmed >= ctr[e].confirmed
                       \/ ~Exists(ctr'[e]) /\ e < today - 1
                 \/ ~Exists(ctr[e]) /\ (~Exists(ctr'[e]) \/ ~(e < today - 1))
      <4>1. CASE ctr'[e].limit = ctr[e].limit /\ ctr'[e].confirmed = ctr[e].confirmed
        BY <1>0, <4>1 DEF Exists
      <4>2. CASE ctr'[e] = NoCounter /\ e < today - 1
        BY <2>1, <4>2
      <4> QED
        BY <1>3, <4>1, <4>2
    <3>2. scope'.lastQ >= scope.lastQ
      BY <1>0, <1>3
    <3> QED
      BY <1>3, <3>1, <3>2, EarnedDaysGrow
  <2>3. scope'.activeDays <= Cardinality(EarnedDays')
    BY <1>3, <2>2, EarnedSame
  <2>4. \A e \in Days : ctr'[e].limit <= CapForActiveDay(scope.sched, scope.activeDays)
    <3>1. CapForActiveDay(scope.sched, scope.activeDays) \in Nat
      BY <1>0, CapFact
    <3> QED
      BY <1>3, <2>1, <3>1 DEF Earned
  <2>5. scope.status = "none" => \A e \in Days : ~Exists(ctr'[e])
    BY <1>3, <2>1 DEF Earned, Exists
  <2> QED
    BY <1>3, <2>3, <2>4, <2>5 DEF Earned
<1>4. ASSUME NEW m \in Messages, Release(m)
      PROVE  Earned'
  <2>1. ctr' = GiveBack(ctr, resv[m].day, Units[m]) /\ UNCHANGED <<scope, today>>
    BY <1>4, ReleaseFacts
  <2>2. resv[m].day \in Days /\ Units[m] \in Nat /\ ctr \in [Days -> Counters]
    BY UnitsAssumption DEF TypeInv, Reservations
  <2>3. \A e \in Days : ctr'[e].limit = ctr[e].limit /\ ctr'[e].confirmed = ctr[e].confirmed
    BY <2>1, <2>2, GiveBackFact
  <2> QED
    BY <1>0, <1>3, <2>1, <2>3
<1>5. ASSUME Sweep
      PROVE  Earned'
  <2>1. UNCHANGED <<scope, today>> /\ \A e \in Days : ctr'[e] = IF Expired(e) THEN NoCounter ELSE ctr[e]
    BY <1>5 DEF Sweep
  <2>2. \A e \in Days : Expired(e) => e < today - 1
    BY <1>0, DayFacts DEF Expired
  <2>3. \A e \in Days : \/ ctr'[e].limit = ctr[e].limit /\ ctr'[e].confirmed = ctr[e].confirmed
                        \/ ctr'[e] = NoCounter /\ e < today - 1
    BY <2>1, <2>2
  <2> QED
    BY <1>0, <1>3, <2>1, <2>3
<1>6. CASE \/ \E m \in Messages : Purge(m)
           \/ \E d \in Domains : Exempt(d) \/ SetVerified(d)
           \/ NextDay \/ UNCHANGED vars
  <2>1. UNCHANGED <<scope, ctr>> /\ today' \in {today, today + 1}
    BY <1>6 DEF Purge, Exempt, SetVerified, NextDay, vars
  <2>2. today' >= today
    BY <1>0, <2>1
  <2> QED
    BY <1>3, <2>1, <2>2
<1> QED
  BY <1>1, <1>2, <1>4, <1>5, <1>6 DEF Next

\* ProgressIsEarned: late confirmations, corrections of releases and sweeps
\* never count a day twice, and no day's limit exceeds what the qualified days
\* so far entitle to, for every schedule.
THEOREM Progressing == Spec => []ProgressIsEarned
<1>1. Init => Earned
  <2> SUFFICES ASSUME Init PROVE Earned
    OBVIOUS
  <2>1. TypeInv
    BY TypeInit
  <2>2. scope.activeDays = 0 /\ \A day \in Days : ctr[day].limit = 0 /\ ~Exists(ctr[day])
    BY DEF Init, NoCounter, Exists
  <2>3. CapForActiveDay(scope.sched, scope.activeDays) \in Nat /\ Cardinality(EarnedDays) \in Nat
    <3>1. scope.sched \in Schedule /\ scope.activeDays \in Nat
      BY <2>1 DEF TypeInv, Scopes
    <3> QED
      BY <2>1, <3>1, CapFact, EarnedDaysFact
  <2> QED
    BY <2>2, <2>3 DEF Earned
<1>2. ASSUME TypeInv, Earned
      PROVE  ProgressIsEarned
  <2> DEFINE D == {day \in 0..scope.lastQ :
                     ~Exists(ctr[day]) \/ Qualifies(ctr[day].confirmed, ctr[day].limit)}
  <2>1. EarnedDays \in SUBSET D
    BY DEF EarnedDays
  <2>2. IsFiniteSet(D)
    <3>1. scope.lastQ \in Int
      BY <1>2, DayFacts DEF TypeInv, Scopes
    <3>2. IsFiniteSet(0..scope.lastQ) /\ D \in SUBSET (0..scope.lastQ)
      BY <3>1, FS_Interval
    <3> QED
      BY <3>2, FS_Subset
  <2> HIDE DEF D
  <2>3. Cardinality(EarnedDays) <= Cardinality(D) /\ Cardinality(EarnedDays) \in Nat /\ Cardinality(D) \in Nat
    BY <1>2, <2>1, <2>2, FS_Subset, FS_CardinalityType
  <2>4. scope.activeDays \in Nat
    BY <1>2 DEF TypeInv, Scopes
  <2>5. scope.activeDays <= Cardinality(D)
    BY <1>2, <2>3, <2>4 DEF Earned
  <2> QED
    BY <1>2, <2>5 DEF ProgressIsEarned, Earned, D
<1>3. TypeInv /\ Earned /\ [Next]_vars => TypeInv' /\ Earned'
  BY TypeStep, EarnedStep
<1> QED
  BY <1>1, <1>2, <1>3, TypeInit, PTL DEF Spec
=============================================================================
