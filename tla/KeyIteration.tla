---------------------------- MODULE KeyIteration ----------------------------
(***************************************************************************)
(* IterationStrategy::next_key (src/workload/iteration.rs): the key of a   *)
(* counter value.  A strategy is the list of the subset ranges it is       *)
(* wrapped in, outermost first, around a sequential, random or zipfian     *)
(* one.  The 64-bit mixing of the last two is the parameter Mix.           *)
(***************************************************************************)
EXTENDS Integers, SequencesExt

CONSTANT Mix(_, _, _)   \* splitmix64(seed, index, keyspace_len); zipfian_key

ASSUME MixAssumption ==
    \A seed \in 0 .. 3, index \in 0 .. 7, len \in 1 .. 4 : Mix(seed, index, len) \in 0 .. len - 1

Size(range) == IF range.end > range.start THEN range.end - range.start ELSE 0

Base(strategy, counter, len) ==
    IF strategy.kind = "sequential" THEN counter % len ELSE Mix(strategy.seed, counter, len)

(* A subset adds its start to the key its inner strategy finds in a keyspace *)
(* of the subset's size; inside an empty range there is no key but its start.*)
(* The size that counts is thus the innermost range's, and the starts add up.*)
Used(ranges) ==
    IF \E i \in DOMAIN ranges : Size(ranges[i]) = 0
    THEN SubSeq(ranges, 1, CHOOSE i \in DOMAIN ranges :
                              Size(ranges[i]) = 0 /\ \A j \in 1 .. i - 1 : Size(ranges[j]) > 0)
    ELSE ranges
SumOfStarts(ranges) ==
    LET used == Used(ranges)
        sum[i \in 0 .. Len(used)] == IF i = 0 THEN 0 ELSE sum[i - 1] + used[i].start
    IN  sum[Len(used)]

NextKey(strategy, counter, len) ==
    LET ranges == strategy.within
        inner == IF ranges = <<>> THEN len ELSE Size(Last(Used(ranges)))
    IN  SumOfStarts(ranges) + IF inner = 0 THEN 0 ELSE Base(strategy, counter, inner)

=============================================================================
