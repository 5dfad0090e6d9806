---------------------------- MODULE MCEventClient ----------------------------
(* Pipelines of two queries; the answers match their ground truth in part,   *)
(* and one of them is shorter than asked for.                                *)
EXTENDS EventClient, TLC

CONSTANTS q1, q2

MCTruth == (q1 :> <<1, 2, 3>>) @@ (q2 :> <<4, 5>>)
MCAnswerTo == (q1 :> <<2, 4, 3>>) @@ (q2 :> <<4>>)

=============================================================================
