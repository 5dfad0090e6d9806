------------------------ MODULE MCControlConnection ------------------------
(* The interactive mode with a login, a batch after a command, and both kinds *)
(* of connection.                                                            *)
EXTENDS ControlConnection

One(kind) == [kind |-> kind, size |-> 1]

MCInteractive == <<One("AUTH"), One("SELECT"), One("PING"), One("INFO"), One("command"), One("command")>>
MCBatches == <<One("command"), [kind |-> "batch", size |-> 2]>>

MCSetups == {[tls |-> secure, plan |-> p] : secure \in BOOLEAN, p \in {MCInteractive, MCBatches}}

=============================================================================
