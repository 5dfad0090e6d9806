----------------------------- MODULE Optimizer -----------------------------
(***************************************************************************)
(* The search of --optimize: Optimizer in src/optimizer/optimizer.rs,      *)
(* driven by the loop of run_optimization in src/main.rs.  It measures the *)
(* configuration with all maxima, then a grid, then climbs from the best   *)
(* until no neighbour is left or the iterations are used up.  What a       *)
(* benchmark measures is arbitrary.                                        *)
(***************************************************************************)
EXTENDS SearchSpace, FiniteSets

CONSTANT
    Setups      \* the command lines to look at: params, goals, tolerance, constraints,
                \* maxIterations, and the metrics that a benchmark may measure

Parameter == {p \in [kind : STRING, min : Nat, max : Nat, step : Nat \ {0}] : p.min <= p.max}
CompareOp == {"gt", "gte", "lt", "lte", "eq"}
Constraint == [metric : STRING, op : CompareOp, value : Nat]
Goal == [direction : {"maximize", "minimize"}, metric : STRING,
         bound : SUBSET [op : CompareOp, value : Nat]]

TestConfig(ps) == [{ps[i].kind : i \in DOMAIN ps} -> Nat]

(* What the command line parser lets through; metrics are never negative.    *)
(* That the grid, a fold, is a sequence of configurations is assumed here    *)
(* because no prover can unfold it; every run evaluates it.                  *)
ASSUME SetupsAssumption ==
    \A s \in Setups :
        /\ s.params \in Seq(Parameter)
        /\ Grid(s.params) \in Seq(TestConfig(s.params))
        /\ s.goals \in Seq(Goal) /\ s.goals # <<>>
        /\ s.constraints \in Seq(Constraint)
        /\ s.tolerance \in 0..100
        /\ s.maxIterations \in Nat
        /\ \A metrics \in s.metrics : \A g \in DOMAIN s.goals : metrics[s.goals[g].metric] \in Nat

VARIABLES
    setup,      \* one of Setups
    phase,      \* OptimizerPhase
    iteration,  \* results recorded
    measured,   \* tested_configs and history: the Measurement of each configuration
    best,       \* best_result: none or one configuration
    grid,       \* grid_configs, computed once
    gridIndex,  \* grid_index: how much of the grid has been looked at
    attempts,   \* exploit_attempts since the last new best
    hitLimit,   \* hit_iteration_limit
    testing,    \* none, or the configuration whose benchmark is running
    failed      \* run_optimization has returned an error

optimizerVars == <<setup, phase, iteration, measured, best, grid, gridIndex, attempts,
                   hitLimit, testing, failed>>

Phases == {"feasibility", "exploration", "exploitation", "complete"}

params == setup.params
goals == setup.goals
tolerance == setup.tolerance
Tested == DOMAIN measured
Outcomes == {Measurement(setup.constraints, metrics) : metrics \in setup.metrics}

-----------------------------------------------------------------------------

(* Optimizer::with_objectives. *)
Built ==
    /\ grid = Grid(params)
    /\ phase = "feasibility"
    /\ iteration = 0 /\ gridIndex = 0 /\ attempts = 0
    /\ measured = <<>>
    /\ best = {} /\ testing = {}
    /\ hitLimit = FALSE /\ failed = FALSE

(* The options have been parsed; no parameter to tune would be an error. *)
Init ==
    /\ setup \in Setups /\ params # <<>>
    /\ Built

(* next_config is called. *)
Deciding == testing = {} /\ phase # "complete" /\ ~failed
Searching == Deciding /\ iteration < setup.maxIterations

LimitReached ==
    /\ Deciding
    /\ iteration >= setup.maxIterations
    /\ hitLimit' = TRUE
    /\ phase' = "complete"
    /\ UNCHANGED <<setup, grid, iteration, measured, best, gridIndex, attempts, testing, failed>>

TryCeiling ==
    /\ Searching
    /\ phase = "feasibility"
    /\ testing' = {MaxConfig(params)}
    /\ UNCHANGED <<setup, phase, iteration, measured, best, grid, gridIndex, attempts, hitLimit,
                   failed>>

(* The grid from grid_index on, less what has been tested. *)
GridRetested == (gridIndex + 1)..Len(grid)     \* mutant: tested or not
GridLeft == {i \in (gridIndex + 1)..Len(grid) : grid[i] \notin Tested}

TryGrid ==
    /\ Searching
    /\ phase = "exploration"
    /\ \E i \in GridLeft :
          /\ \A j \in GridLeft : i <= j
          /\ gridIndex' = i
          /\ testing' = {grid[i]}
    /\ UNCHANGED <<setup, grid, phase, iteration, measured, best, attempts, hitLimit, failed>>

(* The grid may turn out to be used up when the next configuration is asked  *)
(* for; the same call then goes on with the climb.                           *)
Climbing ==
    /\ Searching
    /\ phase = "exploitation" \/ (phase = "exploration" /\ GridLeft = {})
    /\ gridIndex' = Len(grid)

(* The attempts not yet made that lead from the best to something new. *)
NeighboursLeft(b) ==
    {k \in attempts..(AttemptsFor(params) - 1) :
        Neighbour(params, b, k) # b /\ Neighbour(params, b, k) \notin Tested}

TryNeighbour ==
    /\ Climbing
    /\ \E b \in best : \E k \in NeighboursLeft(b) :
          /\ \A j \in NeighboursLeft(b) : k <= j
          /\ attempts' = k + 1
          /\ testing' = {Neighbour(params, b, k)}
    /\ phase' = "exploitation"
    /\ UNCHANGED <<setup, grid, iteration, measured, best, hitLimit, failed>>

(* generate_exploit_config finds nothing, or no result met the constraints.  *)
Converge ==
    /\ Climbing
    /\ \A b \in best : NeighboursLeft(b) = {}
    /\ attempts' = IF best = {} THEN attempts ELSE AttemptsFor(params)
    /\ phase' = "complete"
    /\ UNCHANGED <<setup, grid, iteration, measured, best, hitLimit, testing, failed>>

-----------------------------------------------------------------------------

(* Mutant: the constraints are not looked at. *)
ImprovesUnconstrained(outcome) ==
    \A b \in best : IsBetter(goals, tolerance, outcome.metrics, measured[b].metrics)

Improves(outcome) ==
    /\ outcome.met
    /\ \A b \in best : IsBetter(goals, tolerance, outcome.metrics, measured[b].metrics)

PhaseAfter ==
    IF phase = "feasibility" THEN "exploration"
    ELSE IF phase = "exploration" /\ gridIndex >= Len(grid) THEN "exploitation" ELSE phase

(* What record_result does besides the climb's attempts. *)
RecordAs(c, outcome) ==
    /\ measured' = [x \in Tested \cup {c} |-> IF x = c THEN outcome ELSE measured[x]]
    /\ best' = IF Improves(outcome) THEN {c} ELSE best
    /\ iteration' = iteration + 1
    /\ phase' = PhaseAfter
    /\ testing' = {}
    /\ UNCHANGED <<setup, grid, gridIndex, hitLimit, failed>>

(* Mutants: the climb is not restarted; a result that does not meet the      *)
(* constraints is dropped.                                                   *)
RecordNoRestart(c, outcome) == RecordAs(c, outcome) /\ UNCHANGED attempts
RecordOnlyMet(c, outcome) ==
    IF outcome.met
    THEN RecordAs(c, outcome) /\ attempts' = IF Improves(outcome) THEN 0 ELSE attempts
    ELSE /\ testing' = {}
         /\ UNCHANGED <<setup, phase, iteration, measured, best, grid, gridIndex, attempts,
                        hitLimit, failed>>

(* The benchmark ends and its first result is recorded. *)
Record(c, outcome) ==
    /\ RecordAs(c, outcome)
    /\ attempts' = IF Improves(outcome) THEN 0 ELSE attempts

(* run_all returns an error, which ends the optimization without a summary.  *)
RunFails ==
    /\ testing # {}
    /\ failed' = TRUE
    /\ testing' = {}
    /\ UNCHANGED <<setup, grid, phase, iteration, measured, best, gridIndex, attempts, hitLimit>>

Next ==
    \/ LimitReached \/ TryCeiling \/ TryGrid \/ TryNeighbour \/ Converge
    \/ \E c \in testing, outcome \in Outcomes : Record(c, outcome)
    \/ RunFails

Spec == Init /\ [][Next]_optimizerVars

(* run_optimization is a sequential loop, and every benchmark ends.          *)
FairSpec == Spec /\ WF_optimizerVars(Next)

-----------------------------------------------------------------------------

(* The iterations are the configurations measured, never more than allowed;  *)
(* the indices stay within the grid and the attempts, and there is at most   *)
(* one best configuration, which has been measured.                          *)
TypeOK ==
    /\ setup \in Setups
    /\ grid = Grid(params)
    /\ phase \in Phases
    /\ IsFiniteSet(Tested)
    /\ iteration = Cardinality(Tested)
    /\ iteration <= setup.maxIterations
    /\ \A c \in Tested : measured[c] \in Outcomes
    /\ best = {} \/ \E c \in Tested : best = {c}
    /\ gridIndex \in 0..Len(grid)
    /\ attempts \in 0..AttemptsFor(params)
    /\ hitLimit \in BOOLEAN /\ failed \in BOOLEAN

(* A configuration is never benchmarked twice: not the ceiling when the grid *)
(* comes to it, nor a neighbour that a previous best has led to.             *)
NeverRepeats == testing \cap Tested = {}

(* The best is a configuration that met the constraints, and there is one as *)
(* soon as any has met them; when the order of the objectives is one (a      *)
(* single goal, or no tolerance), no measured one that met them is better.   *)
(* With several goals and a tolerance the best may leave an earlier one      *)
(* behind by more than the tolerance, in steps of less.                      *)
BestIsBest ==
    /\ \A b \in best : measured[b].met
    /\ \A c \in Tested : measured[c].met =>
          /\ best # {}
          /\ Len(goals) = 1 \/ tolerance = 0 =>
                \A b \in best :
                    ~IsBetter(goals, tolerance, measured[c].metrics, measured[b].metrics)

(* converged() means that the whole grid has been measured and, around the   *)
(* best, every configuration up to three steps away in one parameter: no     *)
(* attempt is lost when the best changes in the middle of a climb.           *)
ConvergedIsLocalOptimum ==
    phase = "complete" /\ ~hitLimit =>
        /\ ToSet(grid) \subseteq Tested
        /\ \A b \in best : \A k \in 0..(AttemptsFor(params) - 1) :
              Neighbour(params, b, k) \in Tested

(* The search ends, whatever is measured. *)
SearchEnds == <>(phase = "complete" \/ failed)

=============================================================================
