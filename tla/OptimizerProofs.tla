-------------------------- MODULE OptimizerProofs --------------------------
(***************************************************************************)
(* Proofs about Optimizer for every set of parameters, goals and outcomes: *)
(* nothing is measured twice, the best is the best measured when the       *)
(* objectives are an order, and a search that converges ends at a local    *)
(* optimum of everything within three steps.                               *)
(***************************************************************************)
EXTENDS Optimizer, FiniteSetTheorems, WellFoundedInduction, TLAPS

(* The metrics of a measurement, as far as the goals look at them.           *)
Comparable(gs, m) == \A g \in DOMAIN gs : m[gs[g].metric] \in Nat

(* One measurement beats another on a goal; it beats it on the first goal on *)
(* which they differ.                                                        *)
Beats(gs, g, a, b) ==
    StrictlyBetter(gs[g].direction, a[gs[g].metric], b[gs[g].metric])

BeatsInOrder(gs, a, b) ==
    \E g \in DOMAIN gs :
        /\ Beats(gs, g, a, b)
        /\ \A h \in DOMAIN gs : h < g => a[gs[h].metric] = b[gs[h].metric]

(* When comparing by the objectives is an order.                             *)
IsAnOrder(gs, tol) == Len(gs) = 1 \/ tol = 0

-----------------------------------------------------------------------------

(* A nonempty set of natural numbers has a least element, the one that       *)
(* IsBetter chooses.                                                         *)
LEMMA LeastElement ==
    ASSUME NEW S, S \subseteq Nat, S # {}
    PROVE  \E x \in S : \A y \in S : x <= y
<1> DEFINE T == {0..x : x \in S}
<1>0. ASSUME NEW x \in S PROVE 0..x \in FiniteSubsetsOf(Nat)
  <2>1. IsFiniteSet(0..x) /\ 0..x \in SUBSET Nat
    BY FS_Interval
  <2>2. QED
    BY <2>1 DEF FiniteSubsetsOf
<1>1. T \subseteq FiniteSubsetsOf(Nat) /\ T # {}
  BY <1>0
<1>2. PICK U \in T : \A V \in T : ~(<<V, U>> \in StrictSubsetOrdering(Nat))
  BY <1>1, FS_StrictSubsetOrderingWellFounded, WFMin
<1>3. PICK x \in S : U = 0..x
  BY <1>2
<1>4. ASSUME NEW y \in S, y < x
      PROVE  FALSE
  <2>1. 0..y \subseteq 0..x /\ x \in 0..x /\ x \notin 0..y
    BY <1>4
  <2>2. <<0..y, 0..x>> \in StrictSubsetOrdering(Nat)
    BY <2>1 DEF StrictSubsetOrdering
  <2>3. QED
    BY <1>2, <1>3, <2>2
<1>5. QED
  BY <1>4

(* Beyond the tolerance is better, and the other way round without one.      *)
LEMMA SignificantIsStrict ==
    ASSUME NEW a \in Nat, NEW b \in Nat, NEW tol \in 0..100,
           NEW direction \in {"maximize", "minimize"}
    PROVE  /\ SignificantlyBetter(direction, a, b, tol) => StrictlyBetter(direction, a, b)
           /\ tol = 0 => (SignificantlyBetter(direction, a, b, tol)
                            <=> StrictlyBetter(direction, a, b))
<1>1. b * tol \in Nat
  OBVIOUS
<1>2. b * (100 + tol) = b * 100 + b * tol /\ b * (100 - tol) = b * 100 - b * tol
  OBVIOUS
<1>3. tol = 0 => b * tol = 0
  OBVIOUS
<1>4. QED
  BY <1>1, <1>2, <1>3 DEF SignificantlyBetter, StrictlyBetter

(* Without a tolerance, or with one goal, is_better looks at the bounds      *)
(* first and then at the first goal on which the two differ.                 *)
LEMMA IsBetterInOrder ==
    ASSUME NEW gs \in Seq(Goal), gs # <<>>, NEW tol \in 0..100, IsAnOrder(gs, tol),
           NEW a, NEW b, Comparable(gs, a), Comparable(gs, b),
           BoundsSatisfied(gs, a), BoundsSatisfied(gs, b)
    PROVE  IsBetter(gs, tol, a, b) <=> BeatsInOrder(gs, a, b)
<1> DEFINE decisive == {g \in DOMAIN gs : Wins(gs[g], tol, a, b) \/ Wins(gs[g], tol, b, a)}
           first == CHOOSE g \in decisive : \A h \in decisive : g <= h
<1>1. DOMAIN gs = 1..Len(gs) /\ Len(gs) \in Nat /\ 1 \in DOMAIN gs
  OBVIOUS
<1>2. ASSUME NEW g \in DOMAIN gs
      PROVE  /\ a[gs[g].metric] \in Nat /\ b[gs[g].metric] \in Nat
             /\ gs[g].direction \in {"maximize", "minimize"}
             /\ Wins(gs[g], tol, a, b) => Beats(gs, g, a, b)
             /\ Wins(gs[g], tol, b, a) => Beats(gs, g, b, a)
             /\ tol = 0 => (Wins(gs[g], tol, a, b) <=> Beats(gs, g, a, b))
             /\ tol = 0 => (Wins(gs[g], tol, b, a) <=> Beats(gs, g, b, a))
  <2>1. gs[g] \in Goal
    BY <1>1
  <2>2. a[gs[g].metric] \in Nat /\ b[gs[g].metric] \in Nat
    BY DEF Comparable
  <2>3. gs[g].direction \in {"maximize", "minimize"}
    BY <2>1 DEF Goal
  <2>4. QED
    BY <2>2, <2>3, SignificantIsStrict DEF Wins, Beats
<1>3. ASSUME NEW g \in DOMAIN gs
      PROVE  /\ ~(Beats(gs, g, a, b) /\ Beats(gs, g, b, a))
             /\ Beats(gs, g, a, b) \/ Beats(gs, g, b, a) <=> a[gs[g].metric] # b[gs[g].metric]
  BY <1>2 DEF Beats, StrictlyBetter
<1>4. IsBetter(gs, tol, a, b) <=> IF decisive # {} THEN Wins(gs[first], tol, a, b)
                                  ELSE Beats(gs, 1, a, b)
  BY DEF IsBetter, Beats
<1>5. decisive # {} => first \in decisive /\ \A h \in decisive : first <= h
  <2>1. decisive \subseteq Nat
    BY <1>1
  <2>2. decisive # {} => \E g \in decisive : \A h \in decisive : g <= h
    BY <2>1, LeastElement
  <2>3. QED
    BY <2>2
<1> HIDE DEF first
<1>6. CASE Len(gs) = 1
  <2>1. \A g \in DOMAIN gs : g = 1
    BY <1>1, <1>6
  <2>2. BeatsInOrder(gs, a, b) <=> Beats(gs, 1, a, b)
    BY <1>1, <2>1 DEF BeatsInOrder
  <2>3. decisive # {} => first = 1 /\ 1 \in decisive
    BY <1>5, <2>1
  <2>4. QED
    BY <1>1, <1>2, <1>3, <1>4, <2>2, <2>3
<1>7. CASE tol = 0
  <2>1. \A g \in DOMAIN gs : g \in decisive <=> a[gs[g].metric] # b[gs[g].metric]
    BY <1>2, <1>3, <1>7
  <2>2. CASE decisive = {}
    <3>1. ~Beats(gs, 1, a, b) /\ ~BeatsInOrder(gs, a, b)
      BY <1>1, <1>3, <2>1, <2>2 DEF BeatsInOrder
    <3>2. QED
      BY <1>4, <2>2, <3>1
  <2>3. CASE decisive # {}
    <3>1. first \in DOMAIN gs /\ (Wins(gs[first], tol, a, b) <=> Beats(gs, first, a, b))
      BY <1>2, <1>5, <1>7, <2>3
    <3>2. Beats(gs, first, a, b) => BeatsInOrder(gs, a, b)
      <4>1. \A h \in DOMAIN gs : h < first => h \notin decisive
        BY <1>1, <1>5, <2>3, <3>1
      <4>2. QED
        BY <2>1, <3>1, <4>1 DEF BeatsInOrder
    <3>3. ASSUME BeatsInOrder(gs, a, b)
          PROVE  Beats(gs, first, a, b)
      <4>1. PICK g \in DOMAIN gs : /\ Beats(gs, g, a, b)
                                   /\ \A h \in DOMAIN gs : h < g => h \notin decisive
        BY <2>1, <3>3 DEF BeatsInOrder
      <4>2. g \in decisive
        BY <1>3, <2>1, <4>1
      <4>3. first <= g /\ ~(first < g)
        BY <1>1, <1>5, <2>3, <3>1, <4>1, <4>2
      <4>4. first = g
        BY <1>1, <3>1, <4>3
      <4>5. QED
        BY <4>1, <4>4
    <3>4. QED
      BY <1>4, <2>3, <3>1, <3>2, <3>3
  <2>4. QED
    BY <2>2, <2>3
<1>8. QED
  BY <1>6, <1>7 DEF IsAnOrder

(* How is_better answers, in all cases of the bounds.                        *)
LEMMA IsBetterByBounds ==
    ASSUME NEW gs \in Seq(Goal), gs # <<>>, NEW tol \in 0..100, IsAnOrder(gs, tol),
           NEW a, NEW b, Comparable(gs, a), Comparable(gs, b)
    PROVE  IsBetter(gs, tol, a, b) <=>
              IF BoundsSatisfied(gs, a) # BoundsSatisfied(gs, b) THEN BoundsSatisfied(gs, a)
              ELSE IF BoundsSatisfied(gs, a) THEN BeatsInOrder(gs, a, b) ELSE Beats(gs, 1, a, b)
<1>1. CASE BoundsSatisfied(gs, a) /\ BoundsSatisfied(gs, b)
  BY <1>1, IsBetterInOrder
<1>2. CASE BoundsSatisfied(gs, a) # BoundsSatisfied(gs, b)
  BY <1>2 DEF IsBetter, BoundsSatisfied
<1>3. CASE ~BoundsSatisfied(gs, a) /\ ~BoundsSatisfied(gs, b)
  BY <1>3 DEF IsBetter, Beats
<1>4. QED
  BY <1>1, <1>2, <1>3 DEF BoundsSatisfied

(* The values on one goal are ordered.                                       *)
LEMMA BeatsIsStrictOrder ==
    ASSUME NEW gs \in Seq(Goal), NEW g \in DOMAIN gs, NEW a, NEW b, NEW c,
           Comparable(gs, a), Comparable(gs, b), Comparable(gs, c)
    PROVE  /\ ~Beats(gs, g, a, a)
           /\ Beats(gs, g, a, b) /\ Beats(gs, g, b, c) => Beats(gs, g, a, c)
           /\ Beats(gs, g, a, b) /\ b[gs[g].metric] = c[gs[g].metric] => Beats(gs, g, a, c)
           /\ a[gs[g].metric] = b[gs[g].metric] /\ Beats(gs, g, b, c) => Beats(gs, g, a, c)
<1>1. a[gs[g].metric] \in Nat /\ b[gs[g].metric] \in Nat /\ c[gs[g].metric] \in Nat
  BY DEF Comparable
<1>2. QED
  BY <1>1 DEF Beats, StrictlyBetter

(* No measurement is better than itself. *)
LEMMA BetterIsIrreflexive ==
    ASSUME NEW gs \in Seq(Goal), gs # <<>>, NEW tol \in 0..100, IsAnOrder(gs, tol),
           NEW a, Comparable(gs, a)
    PROVE  ~IsBetter(gs, tol, a, a)
<1>1. 1 \in DOMAIN gs
  OBVIOUS
<1>2. \A g \in DOMAIN gs : ~Beats(gs, g, a, a)
  BY BeatsIsStrictOrder
<1>3. ~BeatsInOrder(gs, a, a)
  BY <1>2 DEF BeatsInOrder
<1>4. QED
  BY <1>1, <1>2, <1>3, IsBetterByBounds

LEMMA InOrderIsTransitive ==
    ASSUME NEW gs \in Seq(Goal), NEW a, NEW b, NEW c,
           Comparable(gs, a), Comparable(gs, b), Comparable(gs, c),
           BeatsInOrder(gs, a, b), BeatsInOrder(gs, b, c)
    PROVE  BeatsInOrder(gs, a, c)
<1>1. PICK g \in DOMAIN gs : /\ Beats(gs, g, a, b)
                             /\ \A h \in DOMAIN gs : h < g => a[gs[h].metric] = b[gs[h].metric]
  BY DEF BeatsInOrder
<1>2. PICK k \in DOMAIN gs : /\ Beats(gs, k, b, c)
                             /\ \A h \in DOMAIN gs : h < k => b[gs[h].metric] = c[gs[h].metric]
  BY DEF BeatsInOrder
<1>3. DOMAIN gs \subseteq Nat
  OBVIOUS
<1>4. CASE g < k
  <2>1. Beats(gs, g, a, c)
    BY <1>1, <1>2, <1>4, BeatsIsStrictOrder
  <2>2. \A h \in DOMAIN gs : h < g => h < k
    BY <1>3, <1>4
  <2>3. QED
    BY <1>1, <1>2, <2>1, <2>2 DEF BeatsInOrder
<1>5. CASE g = k
  <2>1. Beats(gs, g, a, c)
    BY <1>1, <1>2, <1>5, BeatsIsStrictOrder
  <2>2. QED
    BY <1>1, <1>2, <1>5, <2>1 DEF BeatsInOrder
<1>6. CASE k < g
  <2>1. Beats(gs, k, a, c)
    BY <1>1, <1>2, <1>6, BeatsIsStrictOrder
  <2>2. \A h \in DOMAIN gs : h < k => h < g
    BY <1>3, <1>6
  <2>3. QED
    BY <1>1, <1>2, <2>1, <2>2 DEF BeatsInOrder
<1>7. QED
  BY <1>3, <1>4, <1>5, <1>6

(* Better than something better is better.  With several goals and a         *)
(* tolerance this fails, and with it BestIsBest.                             *)
LEMMA BetterIsTransitive ==
    ASSUME NEW gs \in Seq(Goal), gs # <<>>, NEW tol \in 0..100, IsAnOrder(gs, tol),
           NEW a, NEW b, NEW c, Comparable(gs, a), Comparable(gs, b), Comparable(gs, c),
           IsBetter(gs, tol, a, b), IsBetter(gs, tol, b, c)
    PROVE  IsBetter(gs, tol, a, c)
<1>1. 1 \in DOMAIN gs
  OBVIOUS
<1>2. /\ BoundsSatisfied(gs, a) \in BOOLEAN /\ BoundsSatisfied(gs, b) \in BOOLEAN
      /\ BoundsSatisfied(gs, c) \in BOOLEAN
  BY DEF BoundsSatisfied
<1>3. CASE BoundsSatisfied(gs, a) /\ BoundsSatisfied(gs, b) /\ BoundsSatisfied(gs, c)
  BY <1>3, IsBetterByBounds, InOrderIsTransitive
<1>4. CASE ~BoundsSatisfied(gs, a) /\ ~BoundsSatisfied(gs, b) /\ ~BoundsSatisfied(gs, c)
  BY ZenonT(40), <1>1, <1>4, IsBetterByBounds, BeatsIsStrictOrder
<1>5. /\ BoundsSatisfied(gs, b) => BoundsSatisfied(gs, a)
      /\ BoundsSatisfied(gs, c) => BoundsSatisfied(gs, b)
  <2>1. ~(~BoundsSatisfied(gs, a) /\ BoundsSatisfied(gs, b))
    BY ZenonT(40), IsBetterByBounds
  <2>2. ~(~BoundsSatisfied(gs, b) /\ BoundsSatisfied(gs, c))
    BY ZenonT(40), IsBetterByBounds
  <2>3. QED
    BY <2>1, <2>2
<1>6. CASE BoundsSatisfied(gs, a) /\ ~BoundsSatisfied(gs, c)
  BY <1>6, IsBetterByBounds
<1>7. QED
  BY <1>2, <1>3, <1>4, <1>5, <1>6

-----------------------------------------------------------------------------

(* One benchmark at a time, started within the limit and only by a search    *)
(* that goes on; an error ends it before it is complete.                     *)
OneAtATime ==
    /\ testing = {} \/ \E c : testing = {c}
    /\ testing # {} => iteration < setup.maxIterations
    /\ phase = "complete" \/ failed => testing = {}
    /\ ~(phase = "complete" /\ failed)
    /\ hitLimit => phase = "complete"
    /\ phase = "feasibility" => Tested = {}

(* The part of the grid that has been looked at has been measured, or is     *)
(* being measured; the climb starts when it has all been looked at.          *)
GridCovered ==
    /\ ~failed => \A i \in 1..gridIndex : grid[i] \in Tested \cup testing
    /\ phase = "exploitation" \/ (phase = "complete" /\ ~hitLimit) => gridIndex = Len(grid)

(* The attempts made since the last new best all led from that best; the     *)
(* search is complete without the limit only when they are used up.          *)
ClimbCovered ==
    /\ ~failed => \A b \in best : \A k \in 0..(attempts - 1) :
                     Neighbour(params, b, k) \in Tested \cup testing
    /\ phase = "complete" /\ ~hitLimit /\ best # {} => attempts = AttemptsFor(params)

IInv ==
    /\ TypeOK
    /\ NeverRepeats
    /\ OneAtATime
    /\ GridCovered
    /\ ClimbCovered
    /\ BestIsBest

-----------------------------------------------------------------------------

LEMMA SetupFacts ==
    ASSUME TypeOK
    PROVE  /\ Len(grid) \in Nat /\ DOMAIN grid = 1..Len(grid)
           /\ setup.maxIterations \in Nat /\ AttemptsFor(params) \in Nat
           /\ iteration \in Nat /\ gridIndex \in Nat /\ attempts \in Nat
<1>1. setup.params \in Seq(Parameter) /\ setup.maxIterations \in Nat /\ grid = Grid(setup.params)
  BY SetupsAssumption DEF TypeOK, params
<1>2. AttemptsFor(params) \in Nat
  BY <1>1 DEF AttemptsFor, StepsPerParam, params
<1>3. iteration \in Nat
  BY FS_CardinalityType DEF TypeOK
<1>4. grid \in Seq(TestConfig(setup.params))
  BY <1>1, SetupsAssumption DEF TypeOK
<1>5. Len(grid) \in Nat /\ DOMAIN grid = 1..Len(grid)
  BY <1>4
<1>6. QED
  BY <1>1, <1>2, <1>3, <1>5 DEF TypeOK

LEMMA InitIInv == Init => IInv
<1> SUFFICES ASSUME Init PROVE IInv
  OBVIOUS
<1>1. Tested = {} /\ Cardinality({}) = 0 /\ IsFiniteSet({})
  BY FS_EmptySet DEF Init, Built, Tested
<1>2. setup.params \in Seq(Parameter) /\ Len(grid) \in Nat /\ setup.maxIterations \in Nat
  <2>1. grid \in Seq(TestConfig(setup.params))
    BY SetupsAssumption DEF Init, Built, params
  <2>2. QED
    BY <2>1, SetupsAssumption DEF Init, Built
<1>3. AttemptsFor(params) \in Nat
  BY <1>2 DEF AttemptsFor, StepsPerParam, params
<1>4. TypeOK
  <2>1. iteration = Cardinality(Tested) /\ IsFiniteSet(Tested) /\ \A c \in Tested : FALSE
    BY <1>1 DEF Init, Built
  <2>2. iteration <= setup.maxIterations /\ gridIndex \in 0..Len(grid)
    BY <1>2 DEF Init, Built
  <2>3. attempts \in 0..AttemptsFor(params)
    BY <1>3 DEF Init, Built
  <2>4. QED
    BY <2>1, <2>2, <2>3 DEF Init, Built, TypeOK, Phases
<1>5. NeverRepeats /\ OneAtATime /\ GridCovered /\ ClimbCovered /\ BestIsBest
  BY <1>1 DEF Init, Built, NeverRepeats, OneAtATime, GridCovered, ClimbCovered, BestIsBest
<1>6. QED
  BY <1>4, <1>5 DEF IInv

(* What a step that records nothing leaves as it is. *)
LEMMA NothingRecorded ==
    ASSUME IInv, UNCHANGED <<setup, iteration, measured, best, grid>>
    PROVE  BestIsBest' /\ Tested' = Tested /\ params' = params
  BY DEF IInv, BestIsBest, Tested, params, goals, tolerance

LEMMA LimitReachedStep ==
    ASSUME IInv, LimitReached
    PROVE  IInv'
<1>1. BestIsBest' /\ Tested' = Tested /\ params' = params
  BY NothingRecorded DEF LimitReached
<1>2. TypeOK'
  BY <1>1 DEF IInv, TypeOK, LimitReached, Phases, Outcomes
<1>3. NeverRepeats' /\ OneAtATime' /\ GridCovered' /\ ClimbCovered'
  BY <1>1 DEF IInv, NeverRepeats, OneAtATime, GridCovered, ClimbCovered, LimitReached, Deciding
<1>4. QED
  BY <1>1, <1>2, <1>3 DEF IInv

LEMMA TryCeilingStep ==
    ASSUME IInv, TryCeiling
    PROVE  IInv'
<1>1. BestIsBest' /\ Tested' = Tested /\ params' = params
  BY NothingRecorded DEF TryCeiling
<1>2. TypeOK'
  BY <1>1 DEF IInv, TypeOK, TryCeiling, Outcomes
<1>3. NeverRepeats' /\ OneAtATime'
  BY <1>1 DEF IInv, NeverRepeats, OneAtATime, TryCeiling, Searching, Deciding
<1>4. GridCovered' /\ ClimbCovered'
  BY <1>1 DEF IInv, GridCovered, ClimbCovered, TryCeiling, Searching, Deciding
<1>5. QED
  BY <1>1, <1>2, <1>3, <1>4 DEF IInv

(* The grid's next configuration not measured is the first not measured: the *)
(* ones it passes over are.                                                  *)
LEMMA TryGridStep ==
    ASSUME IInv, TryGrid
    PROVE  IInv'
<1>1. BestIsBest' /\ Tested' = Tested /\ params' = params
  BY NothingRecorded DEF TryGrid
<1>2. Len(grid) \in Nat /\ gridIndex \in Nat
  BY SetupFacts DEF IInv
<1>3. PICK i \in GridLeft : /\ \A j \in GridLeft : i <= j
                            /\ gridIndex' = i
                            /\ testing' = {grid[i]}
  BY DEF TryGrid
<1>4. i \in (gridIndex + 1)..Len(grid) /\ grid[i] \notin Tested
  BY DEF GridLeft
<1>5. TypeOK'
  BY <1>1, <1>2, <1>3, <1>4 DEF IInv, TypeOK, TryGrid, Outcomes
<1>6. NeverRepeats' /\ OneAtATime'
  BY <1>1, <1>3, <1>4 DEF IInv, NeverRepeats, OneAtATime, TryGrid, Searching, Deciding
<1>7. \A j \in 1..i : grid[j] \in Tested \cup {grid[i]}
  <2>1. ASSUME NEW j \in 1..i, j # i, j > gridIndex
        PROVE  grid[j] \in Tested
    <3>1. j \in (gridIndex + 1)..Len(grid) /\ j < i
      BY <1>2, <1>4, <2>1
    <3>2. j \notin GridLeft
      BY <1>2, <1>3, <1>4, <3>1
    <3>3. QED
      BY <3>1, <3>2 DEF GridLeft
  <2>2. ASSUME NEW j \in 1..i, ~(j > gridIndex)
        PROVE  grid[j] \in Tested
    <3>1. j \in 1..gridIndex
      BY <1>2, <2>2
    <3>2. QED
      BY <3>1 DEF IInv, GridCovered, TryGrid, Searching, Deciding
  <2>3. QED
    BY <2>1, <2>2
<1>8. GridCovered'
  BY <1>1, <1>3, <1>7 DEF IInv, GridCovered, OneAtATime, TryGrid
<1>9. ClimbCovered'
  BY <1>1 DEF IInv, ClimbCovered, TryGrid, Searching, Deciding
<1>10. QED
  BY <1>1, <1>5, <1>6, <1>8, <1>9 DEF IInv

(* When the climb goes on or begins, all of the grid has been measured.      *)
LEMMA GridAllLooked ==
    ASSUME IInv, Climbing
    PROVE  gridIndex' = Len(grid) /\ \A i \in 1..Len(grid) : grid[i] \in Tested
<1>1. Len(grid) \in Nat /\ gridIndex \in Nat
  BY SetupFacts DEF IInv
<1>2. \A i \in 1..gridIndex : grid[i] \in Tested
  BY DEF IInv, GridCovered, Climbing, Searching, Deciding
<1>3. CASE phase = "exploitation"
  BY <1>2, <1>3 DEF IInv, GridCovered, Climbing
<1>4. CASE GridLeft = {}
  <2>1. ASSUME NEW i \in 1..Len(grid), i > gridIndex
        PROVE  grid[i] \in Tested
    <3>1. i \in (gridIndex + 1)..Len(grid)
      BY <1>1, <2>1
    <3>2. QED
      BY <1>4, <3>1 DEF GridLeft
  <2>2. \A i \in 1..Len(grid) : i > gridIndex \/ i \in 1..gridIndex
    BY <1>1
  <2>3. QED
    BY <1>2, <2>1, <2>2 DEF Climbing
<1>5. QED
  BY <1>3, <1>4 DEF Climbing

(* The attempts passed over lead to what has been measured, or, at the end   *)
(* of a range, back to the best itself.                                      *)
LEMMA TryNeighbourStep ==
    ASSUME IInv, TryNeighbour
    PROVE  IInv'
<1>1. BestIsBest' /\ Tested' = Tested /\ params' = params
  BY NothingRecorded DEF TryNeighbour
<1>2. Len(grid) \in Nat /\ AttemptsFor(params) \in Nat /\ attempts \in Nat
  BY SetupFacts DEF IInv
<1>3. PICK b \in best : \E k \in NeighboursLeft(b) :
        /\ \A j \in NeighboursLeft(b) : k <= j
        /\ attempts' = k + 1
        /\ testing' = {Neighbour(params, b, k)}
  BY DEF TryNeighbour
<1>4. PICK k \in NeighboursLeft(b) :
        /\ \A j \in NeighboursLeft(b) : k <= j
        /\ attempts' = k + 1
        /\ testing' = {Neighbour(params, b, k)}
  BY <1>3
<1>5. best = {b} /\ b \in Tested
  BY <1>4 DEF IInv, TypeOK
<1>6. k \in attempts..(AttemptsFor(params) - 1) /\ Neighbour(params, b, k) \notin Tested
  BY DEF NeighboursLeft
<1>7. TypeOK'
  <2>1. attempts' \in 0..AttemptsFor(params) /\ gridIndex' \in 0..Len(grid)
    BY <1>2, <1>4, <1>6 DEF TryNeighbour, Climbing
  <2>2. QED
    BY <1>1, <2>1 DEF IInv, TypeOK, TryNeighbour, Phases, Outcomes
<1>8. NeverRepeats' /\ OneAtATime'
  BY <1>1, <1>4, <1>6
     DEF IInv, NeverRepeats, OneAtATime, TryNeighbour, Climbing, Searching, Deciding
<1>9. \A j \in 0..k : Neighbour(params, b, j) \in Tested \cup {Neighbour(params, b, k)}
  <2>1. ASSUME NEW j \in 0..k, j # k, j >= attempts
        PROVE  Neighbour(params, b, j) \in Tested
    <3>1. j \in attempts..(AttemptsFor(params) - 1) /\ j < k
      BY <1>2, <1>6, <2>1
    <3>2. j \notin NeighboursLeft(b)
      BY <1>2, <1>4, <1>6, <3>1
    <3>3. QED
      BY <1>5, <3>1, <3>2 DEF NeighboursLeft
  <2>2. ASSUME NEW j \in 0..k, ~(j >= attempts)
        PROVE  Neighbour(params, b, j) \in Tested
    <3>1. j \in 0..(attempts - 1)
      BY <1>2, <2>2
    <3>2. QED
      BY <1>4, <3>1 DEF IInv, ClimbCovered, TryNeighbour, Climbing, Searching, Deciding
  <2>3. QED
    BY <2>1, <2>2
<1>10. GridCovered'
  BY <1>1, <1>2, GridAllLooked DEF IInv, GridCovered, OneAtATime, TryNeighbour
<1>11. ClimbCovered'
  <2>1. attempts' - 1 = k
    BY <1>2, <1>4, <1>6
  <2>2. QED
    BY <1>1, <1>4, <1>5, <1>9, <2>1 DEF ClimbCovered, TryNeighbour
<1>12. QED
  BY <1>1, <1>7, <1>8, <1>10, <1>11 DEF IInv

LEMMA ConvergeStep ==
    ASSUME IInv, Converge
    PROVE  IInv'
<1>1. BestIsBest' /\ Tested' = Tested /\ params' = params
  BY NothingRecorded DEF Converge
<1>2. Len(grid) \in Nat /\ AttemptsFor(params) \in Nat /\ attempts \in Nat
  BY SetupFacts DEF IInv
<1>3. TypeOK'
  <2>1. attempts' \in 0..AttemptsFor(params) /\ gridIndex' \in 0..Len(grid)
    BY <1>2 DEF IInv, TypeOK, Converge, Climbing
  <2>2. QED
    BY <1>1, <2>1 DEF IInv, TypeOK, Converge, Phases, Outcomes
<1>4. NeverRepeats' /\ OneAtATime'
  BY <1>1 DEF IInv, NeverRepeats, OneAtATime, Converge, Climbing, Searching, Deciding
<1>5. GridCovered'
  BY <1>1, <1>2, GridAllLooked DEF IInv, GridCovered, OneAtATime, Converge
<1>6. ASSUME NEW b \in best, NEW k \in 0..(AttemptsFor(params) - 1)
      PROVE  Neighbour(params, b, k) \in Tested
  <2>1. b \in Tested
    BY <1>6 DEF IInv, TypeOK
  <2>2. CASE k >= attempts
    <3>1. k \in attempts..(AttemptsFor(params) - 1) /\ k \notin NeighboursLeft(b)
      BY <1>2, <1>6, <2>2 DEF Converge
    <3>2. QED
      BY <2>1, <3>1 DEF NeighboursLeft
  <2>3. CASE ~(k >= attempts)
    <3>1. k \in 0..(attempts - 1)
      BY <1>2, <1>6, <2>3
    <3>2. QED
      BY <1>6, <3>1 DEF IInv, ClimbCovered, Converge, Climbing, Searching, Deciding
  <2>4. QED
    BY <2>2, <2>3
<1>7. ClimbCovered'
  BY <1>1, <1>6 DEF ClimbCovered, Converge
<1>8. QED
  BY <1>1, <1>3, <1>4, <1>5, <1>7 DEF IInv

(* A new outcome that improves on the best is, with an order, better than    *)
(* all the others.                                                           *)
LEMMA RecordedBestIsBest ==
    ASSUME IInv, NEW c \in testing, NEW outcome \in Outcomes, Record(c, outcome)
    PROVE  BestIsBest'
<1> SUFFICES /\ \A b \in best' : measured'[b].met
             /\ \A x \in Tested' : measured'[x].met =>
                   /\ best' # {}
                   /\ IsAnOrder(goals, tolerance) =>
                         \A b \in best' : ~IsBetter(goals, tolerance, measured'[x].metrics,
                                                   measured'[b].metrics)
  <2>1. goals' = goals /\ tolerance' = tolerance
    BY DEF Record, RecordAs, goals, tolerance
  <2>2. QED
    BY <2>1 DEF BestIsBest, IsAnOrder
<1>1. goals \in Seq(Goal) /\ goals # <<>> /\ tolerance \in 0..100
  BY SetupsAssumption DEF IInv, TypeOK, goals, tolerance
<1>2. \A o \in Outcomes : o.met \in BOOLEAN /\ Comparable(goals, o.metrics)
  <2>1. setup \in Setups
    BY DEF IInv, TypeOK
  <2>2. \A metrics \in setup.metrics : Comparable(goals, metrics)
    BY <2>1, SetupsAssumption DEF goals, Comparable
  <2>3. \A metrics : /\ Measurement(setup.constraints, metrics).met \in BOOLEAN
                      /\ Measurement(setup.constraints, metrics).metrics = metrics
    BY DEF Measurement
  <2>4. QED
    BY <2>2, <2>3 DEF Outcomes
<1>3. Tested' = Tested \cup {c} /\ c \notin Tested
  BY DEF Record, RecordAs, Tested, IInv, NeverRepeats
<1>4. /\ measured'[c] = outcome
      /\ \A x \in Tested : measured'[x] = measured[x]
  BY <1>3 DEF Record, RecordAs
<1>5. \A x \in Tested : measured[x] \in Outcomes
  BY DEF IInv, TypeOK
<1>6. best = {} \/ \E b \in Tested : best = {b}
  BY DEF IInv, TypeOK
<1>7. /\ \A b \in best : measured[b].met
      /\ \A x \in Tested : measured[x].met =>
            /\ best # {}
            /\ IsAnOrder(goals, tolerance) =>
                  \A b \in best :
                      ~IsBetter(goals, tolerance, measured[x].metrics, measured[b].metrics)
  BY DEF IInv, BestIsBest, IsAnOrder
<1>8. CASE Improves(outcome)
  <2>1. best' = {c} /\ outcome.met
    BY <1>8 DEF Record, RecordAs, Improves
  <2>2. ASSUME IsAnOrder(goals, tolerance), NEW x \in Tested, measured[x].met
        PROVE  ~IsBetter(goals, tolerance, measured[x].metrics, outcome.metrics)
    <3>1. PICK b \in Tested : best = {b}
      BY <1>6, <1>7, <2>2
    <3>2. IsBetter(goals, tolerance, outcome.metrics, measured[b].metrics)
      BY <1>8, <3>1 DEF Improves
    <3>3. ~IsBetter(goals, tolerance, measured[x].metrics, measured[b].metrics)
      BY <1>7, <2>2, <3>1
    <3>4. QED
      BY <1>1, <1>2, <1>5, <2>2, <3>2, <3>3, BetterIsTransitive
  <2>3. IsAnOrder(goals, tolerance) =>
            ~IsBetter(goals, tolerance, outcome.metrics, outcome.metrics)
    BY <1>1, <1>2, BetterIsIrreflexive
  <2>4. QED
    BY <1>3, <1>4, <2>1, <2>2, <2>3
<1>9. CASE ~Improves(outcome)
  <2>1. best' = best
    BY <1>9 DEF Record, RecordAs
  <2>2. outcome.met => \E b \in best :
                          ~IsBetter(goals, tolerance, outcome.metrics, measured[b].metrics)
    BY <1>9 DEF Improves
  <2>3. \A b \in best : b \in Tested
    BY <1>6
  <2>4. QED
    BY <1>3, <1>4, <1>6, <1>7, <2>1, <2>2, <2>3
<1>10. QED
  BY <1>8, <1>9

LEMMA RecordStep ==
    ASSUME IInv, NEW c \in testing, NEW outcome \in Outcomes, Record(c, outcome)
    PROVE  IInv'
<1>1. Tested' = Tested \cup {c} /\ c \notin Tested /\ params' = params /\ testing = {c}
  BY DEF Record, RecordAs, Tested, IInv, NeverRepeats, OneAtATime, params
<1>2. Len(grid) \in Nat /\ AttemptsFor(params) \in Nat /\ iteration \in Nat
      /\ setup.maxIterations \in Nat
  BY SetupFacts DEF IInv
<1>3. TypeOK'
  <2>1. IsFiniteSet(Tested') /\ iteration' = Cardinality(Tested')
    <3>1. iteration = Cardinality(Tested) /\ IsFiniteSet(Tested)
      BY DEF IInv, TypeOK
    <3>2. iteration' = iteration + 1
      BY DEF Record, RecordAs
    <3>3. QED
      BY <1>1, <3>1, <3>2, FS_AddElement
  <2>2. iteration' <= setup.maxIterations
    BY <1>2 DEF IInv, OneAtATime, Record, RecordAs
  <2>3. \A x \in Tested' : measured'[x] \in Outcomes
    BY <1>1 DEF IInv, TypeOK, Record, RecordAs, Outcomes
  <2>4. best' = {} \/ \E x \in Tested' : best' = {x}
    BY <1>1 DEF IInv, TypeOK, Record, RecordAs
  <2>5. attempts' \in 0..AttemptsFor(params)
    BY <1>2 DEF IInv, TypeOK, Record
  <2>6. phase' \in Phases
    BY DEF IInv, TypeOK, Record, RecordAs, PhaseAfter, Phases
  <2>7. QED
    BY <1>1, <2>1, <2>2, <2>3, <2>4, <2>5, <2>6 DEF IInv, TypeOK, Record, RecordAs, Outcomes
<1>4. NeverRepeats'
  BY DEF NeverRepeats, Record, RecordAs
<1>5. OneAtATime'
  BY <1>1 DEF IInv, TypeOK, OneAtATime, Record, RecordAs, PhaseAfter, Phases
<1>6. GridCovered'
  <2>1. \A i \in 1..gridIndex : grid[i] \in Tested'
    BY <1>1 DEF IInv, GridCovered, OneAtATime
  <2>2. phase' = "exploitation" => gridIndex = Len(grid)
    BY <1>2 DEF IInv, TypeOK, GridCovered, Record, RecordAs, PhaseAfter
  <2>3. phase' # "complete"
    BY <1>1 DEF IInv, OneAtATime, Record, RecordAs, PhaseAfter
  <2>4. QED
    BY <2>1, <2>2, <2>3 DEF GridCovered, Record, RecordAs
<1>7. ClimbCovered'
  <2>1. phase' # "complete"
    BY <1>1 DEF IInv, OneAtATime, Record, RecordAs, PhaseAfter
  <2>2. CASE Improves(outcome)
    <3>1. attempts' = 0 /\ 0..(attempts' - 1) = {}
      BY <2>2 DEF Record
    <3>2. QED
      BY <2>1, <3>1 DEF ClimbCovered
  <2>3. CASE ~Improves(outcome)
    <3>1. best' = best /\ attempts' = attempts
      BY <2>3 DEF Record, RecordAs
    <3>2. QED
      BY <1>1, <2>1, <3>1 DEF IInv, ClimbCovered, OneAtATime
  <2>4. QED
    BY <2>2, <2>3
<1>8. BestIsBest'
  BY RecordedBestIsBest
<1>9. QED
  BY <1>3, <1>4, <1>5, <1>6, <1>7, <1>8 DEF IInv

LEMMA RunFailsStep ==
    ASSUME IInv, RunFails
    PROVE  IInv'
<1>1. BestIsBest' /\ Tested' = Tested /\ params' = params
  BY NothingRecorded DEF RunFails
<1>2. TypeOK'
  BY <1>1 DEF IInv, TypeOK, RunFails, Outcomes
<1>3. NeverRepeats' /\ OneAtATime' /\ GridCovered' /\ ClimbCovered'
  BY <1>1 DEF IInv, NeverRepeats, OneAtATime, GridCovered, ClimbCovered, RunFails
<1>4. QED
  BY <1>1, <1>2, <1>3 DEF IInv

LEMMA NextIInv == IInv /\ [Next]_optimizerVars => IInv'
<1> SUFFICES ASSUME IInv, [Next]_optimizerVars PROVE IInv'
  OBVIOUS
<1>1. CASE LimitReached
  BY <1>1, LimitReachedStep
<1>2. CASE TryCeiling
  BY <1>2, TryCeilingStep
<1>3. CASE TryGrid
  BY <1>3, TryGridStep
<1>4. CASE TryNeighbour
  BY <1>4, TryNeighbourStep
<1>5. CASE Converge
  BY <1>5, ConvergeStep
<1>6. CASE \E c \in testing, outcome \in Outcomes : Record(c, outcome)
  BY <1>6, RecordStep
<1>7. CASE RunFails
  BY <1>7, RunFailsStep
<1>8. CASE UNCHANGED optimizerVars
  <2>1. BestIsBest' /\ Tested' = Tested /\ params' = params
    BY <1>8, NothingRecorded DEF optimizerVars
  <2>2. TypeOK'
    BY <1>8, <2>1 DEF IInv, TypeOK, optimizerVars, Outcomes
  <2>3. NeverRepeats' /\ OneAtATime' /\ GridCovered' /\ ClimbCovered'
    BY <1>8, <2>1
       DEF IInv, NeverRepeats, OneAtATime, GridCovered, ClimbCovered, optimizerVars
  <2>4. QED
    BY <2>1, <2>2, <2>3 DEF IInv
<1>9. QED
  BY <1>1, <1>2, <1>3, <1>4, <1>5, <1>6, <1>7, <1>8 DEF Next

THEOREM InvariantHolds == Spec => []IInv
<1>1. QED
  BY InitIInv, NextIInv, PTL DEF Spec

-----------------------------------------------------------------------------

(* The iterations are the configurations measured and stay within            *)
(* --max-optimize-iterations; the indices of next_config stay in range.      *)
THEOREM TypeCorrect == Spec => []TypeOK
<1>1. IInv => TypeOK
  BY DEF IInv
<1>2. QED
  BY <1>1, InvariantHolds, PTL

(* No configuration is benchmarked twice, whatever parameters are tuned.     *)
THEOREM NothingTwice == Spec => []NeverRepeats
<1>1. IInv => NeverRepeats
  BY DEF IInv
<1>2. QED
  BY <1>1, InvariantHolds, PTL

(* The best of record_result meets the constraints whenever a configuration  *)
(* did and, with one goal or without a tolerance, is the best of all that    *)
(* met them, for any metrics and bounds.                                     *)
THEOREM BestOfAll == Spec => []BestIsBest
<1>1. IInv => BestIsBest
  BY DEF IInv
<1>2. QED
  BY <1>1, InvariantHolds, PTL

(* converged() implies that the grid and all neighbours of the best have     *)
(* been measured, with any number of goals and any tolerance.                *)
THEOREM ConvergenceIsLocalOptimum == Spec => []ConvergedIsLocalOptimum
<1>1. IInv => ConvergedIsLocalOptimum
  <2> SUFFICES ASSUME IInv, phase = "complete", ~hitLimit
               PROVE  /\ ToSet(grid) \subseteq Tested
                      /\ \A b \in best : \A k \in 0..(AttemptsFor(params) - 1) :
                            Neighbour(params, b, k) \in Tested
    BY DEF ConvergedIsLocalOptimum
  <2>1. testing = {} /\ ~failed
    BY DEF IInv, OneAtATime
  <2>2. \A i \in 1..Len(grid) : grid[i] \in Tested
    BY <2>1 DEF IInv, GridCovered
  <2>3. DOMAIN grid = 1..Len(grid)
    BY SetupFacts DEF IInv
  <2>4. ToSet(grid) \subseteq Tested
    BY <2>2, <2>3 DEF ToSet
  <2>5. QED
    BY <2>1, <2>4 DEF IInv, ClimbCovered
<1>2. QED
  BY <1>1, InvariantHolds, PTL
=============================================================================
