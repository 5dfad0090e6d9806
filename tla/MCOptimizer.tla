---------------------------- MODULE MCOptimizer ----------------------------
(* Instances of Optimizer.  Every result that exceeds a p99 of 9 violates a  *)
(* constraint.                                                               *)
EXTENDS Optimizer

Param(kind, min, max, step) == [kind |-> kind, min |-> min, max |-> max, step |-> step]
GoalOf(direction, metric, bound) == [direction |-> direction, metric |-> metric, bound |-> bound]

Metrics(qps, p99) == [qps |-> qps, p99 |-> p99]
TooSlow == Metrics(120, 10)
MaxP99 == [metric |-> "p99", op |-> "lte", value |-> 9]
MinQps == [metric |-> "qps", op |-> "gt", value |-> 89]
Levels == {90, 100, 103}

(* One parameter with eight values: the grid leaves three to the climb. *)
OneParam ==
    [params |-> <<Param("clients", 1, 8, 1)>>,
     goals |-> <<GoalOf("maximize", "qps", {})>>, constraints |-> <<MaxP99>>,
     tolerance |-> 4, maxIterations |-> 50,
     metrics |-> {TooSlow} \cup {Metrics(q, 9) : q \in Levels}]

(* Two parameters; the steps of the first miss its maximum. *)
TwoParams ==
    [params |-> <<Param("clients", 1, 4, 2), Param("pipeline", 1, 2, 1)>>,
     goals |-> <<GoalOf("minimize", "p99", {})>>, constraints |-> <<MinQps, MaxP99>>,
     tolerance |-> 4, maxIterations |-> 50,
     metrics |-> {TooSlow, Metrics(89, 1)} \cup {Metrics(100, l) : l \in {2, 5}}]

(* Two goals without tolerance, one bounded, and few iterations. *)
TwoGoals ==
    [params |-> <<Param("clients", 1, 4, 1)>>,
     goals |-> <<GoalOf("maximize", "qps", {[op |-> "lt", value |-> 103]}),
                 GoalOf("minimize", "p99", {})>>,
     constraints |-> <<MaxP99>>, tolerance |-> 0, maxIterations |-> 3,
     metrics |-> {TooSlow} \cup {Metrics(q, l) : q \in Levels, l \in {2, 5}}]

(* Two goals and a tolerance: each of three results is within the tolerance  *)
(* of the next.                                                              *)
Drifting ==
    [params |-> <<Param("clients", 1, 4, 1)>>,
     goals |-> <<GoalOf("maximize", "qps", {}), GoalOf("minimize", "p99", {})>>,
     constraints |-> <<MaxP99>>, tolerance |-> 4, maxIterations |-> 50,
     metrics |-> {TooSlow, Metrics(103, 5), Metrics(100, 4), Metrics(97, 3)}]

MCSetups == {OneParam, TwoParams, TwoGoals, Drifting}

=============================================================================
