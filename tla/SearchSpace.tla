---------------------------- MODULE SearchSpace ----------------------------
(***************************************************************************)
(* What an optimization searches and how it compares, src/optimizer/       *)
(* optimizer.rs: the values of a parameter, the grid, the neighbours of a  *)
(* configuration, and the order of the objectives.                         *)
(*   parameter      [kind, min, max, step], min <= max, 0 < step           *)
(*   configuration  a function from the tuned kinds to values (TestConfig) *)
(*   constraint     [metric, op, value]                                    *)
(*   goal           [direction, metric, bound], bound a set of at most one *)
(*                  [op, value]                                            *)
(* Metrics are natural numbers, a tolerance is in percent (0.04 is 4).     *)
(***************************************************************************)
EXTENDS Integers, SequencesExt

NumValues(p) == ((p.max - p.min) \div p.step) + 1

ValueAt(p, index) == Min({p.min + index * p.step, p.max})

(* TunableParameter::values: max is one of them only if the steps meet it.   *)
ParamValues(p) == [i \in 1..NumValues(p) |-> ValueAt(p, i - 1)]

(* All values of a short parameter; the ends and quartiles of a long one.    *)
Samples(p) ==
    LET all == ParamValues(p)
        n == Len(all)
    IN IF n <= 5 THEN all
       ELSE SetToSortSeq({p.min, p.max, all[(n \div 4) + 1], all[(n \div 2) + 1],
                          all[((3 * n) \div 4) + 1]}, <)

(* Every configuration with every sample of one more parameter. *)
Extended(configs, p) ==
    LET samples == Samples(p)
        n == Len(samples)
    IN [i \in 1..(Len(configs) * n) |->
            (p.kind :> samples[((i - 1) % n) + 1]) @@ configs[((i - 1) \div n) + 1]]

Grid(params) == FoldLeft(Extended, << <<>> >>, params)

(* The first configuration tried: every parameter at its maximum. *)
MaxConfig(params) == FoldLeft(LAMBDA config, p : (p.kind :> p.max) @@ config, <<>>, params)

(* The hill climb has six attempts per parameter: one, two and three steps   *)
(* up and down.  A step past the end of the range stops there.               *)
StepsPerParam == 6
AttemptsFor(params) == Len(params) * StepsPerParam

Neighbour(params, config, attempt) ==
    LET p == params[(attempt \div StepsPerParam) + 1]
        turn == attempt % StepsPerParam
        size == p.step * ((turn \div 2) + 1)
        from == config[p.kind]
    IN [config EXCEPT ![p.kind] = IF turn % 2 = 0 THEN Min({from + size, p.max})
                                  ELSE Max({from - size, p.min})]

-----------------------------------------------------------------------------

StrictlyBetter(direction, a, b) == IF direction = "maximize" THEN a > b ELSE a < b

SignificantlyBetter(direction, a, b, tolerance) ==
    IF direction = "maximize" THEN a * 100 > b * (100 + tolerance)
    ELSE a * 100 < b * (100 - tolerance)

(* CompareOp::evaluate.  Its epsilon is below the unit of a metric here.     *)
Evaluate(op, actual, target) ==
    \/ op \in {"gt", "gte"} /\ actual > target
    \/ op \in {"lt", "lte"} /\ actual < target
    \/ op \in {"gte", "lte", "eq"} /\ actual = target

(* What is recorded of a benchmark: its metrics, and whether they meet every *)
(* constraint.                                                               *)
Measurement(constraints, metrics) ==
    [metrics |-> metrics,
     met |-> \A c \in ToSet(constraints) : Evaluate(c.op, metrics[c.metric], c.value)]

BoundsSatisfied(goals, metrics) ==
    \A g \in DOMAIN goals : \A b \in goals[g].bound :
        Evaluate(b.op, metrics[goals[g].metric], b.value)

Wins(goal, tolerance, a, b) ==
    SignificantlyBetter(goal.direction, a[goal.metric], b[goal.metric], tolerance)

(* Objectives::is_better.  The first goal on which the two differ beyond the *)
(* tolerance decides; without one, and when both violate a bound, the        *)
(* primary goal does, without tolerance.                                     *)
IsBetter(goals, tolerance, a, b) ==
    LET decisive == {g \in DOMAIN goals : \/ Wins(goals[g], tolerance, a, b)
                                          \/ Wins(goals[g], tolerance, b, a)}
        first == CHOOSE g \in decisive : \A h \in decisive : g <= h
    IN IF BoundsSatisfied(goals, a) # BoundsSatisfied(goals, b) THEN BoundsSatisfied(goals, a)
       ELSE IF BoundsSatisfied(goals, a) /\ decisive # {}
            THEN Wins(goals[first], tolerance, a, b)
            ELSE StrictlyBetter(goals[1].direction, a[goals[1].metric], b[goals[1].metric])
=============================================================================
