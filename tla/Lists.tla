-------------------------------- MODULE Lists -------------------------------
(* What modules of the program do with lists alike. *)
EXTENDS Naturals, Sequences

(* iter().filter(): the elements of seq that are in set, in their order.       *)
Kept(seq, set) ==
    LET kept[i \in 0 .. Len(seq)] ==
            IF i = 0 THEN <<>>
            ELSE IF seq[i] \in set THEN Append(kept[i - 1], seq[i]) ELSE kept[i - 1]
    IN  kept[Len(seq)]

(* iter().sum(). *)
SumUp(numbers) ==
    LET sum[i \in 0 .. Len(numbers)] == IF i = 0 THEN 0 ELSE sum[i - 1] + numbers[i]
    IN  sum[Len(numbers)]

=============================================================================
