------------------------- MODULE ControlConnection -------------------------
(***************************************************************************)
(* A blocking connection and what is sent over it: RawConnection and       *)
(* ConnectionFactory of src/client/raw_connection.rs, the commands of      *)
(* src/client/control_plane.rs, RespDecoder of src/utils/resp.rs, and two  *)
(* users, the interactive mode of src/cli_mode.rs and BenchmarkClient of   *)
(* src/client/benchmark_client.rs.                                         *)
(*                                                                         *)
(* A reply is a sequence of pieces: a line that is a value, the header of  *)
(* an array and then its elements, the header of a bulk string and then    *)
(* the lines of its body.  Pieces arrive one by one, or bit by bit.  A     *)
(* read that gets nothing for too long fails the command, but the          *)
(* connection is kept, and the reply still comes.  A write that fails may  *)
(* leave commands in the buffer of the writer, to be sent with the next    *)
(* one, or drop them.                                                      *)
(***************************************************************************)
EXTENDS Integers, Sequences

CONSTANTS
    Setups,         \* what is sent, over which kind of connection
    StrayCounts     \* how many elements a line that is no header may announce

(* A setup: tls; plan, the batches to send, each with a kind and a size.     *)
(* A user of the connection sends a batch when the one before it has ended.  *)
Kinds == {"AUTH", "SELECT", "PING", "INFO", "command", "batch"}
Logins == {"AUTH", "SELECT"}
ASSUME SetupsAssumption ==
    \A s \in Setups : s.tls \in BOOLEAN /\ s.plan \in Seq([kind : Kinds, size : Nat \ {0}])

(* The factory logs in, one command at a time, before it hands out the       *)
(* connection; nobody else sends these commands.                             *)
ASSUME LoginsComeFirst ==
    \A s \in Setups : \A b \in 1 .. Len(s.plan) :
        s.plan[b].kind \in Logins =>
            \A c \in 1 .. b : s.plan[c].kind \in Logins /\ s.plan[c].size = 1

ASSUME CountsAssumption == StrayCounts \subseteq Nat \ {0}

VARIABLES
    setup,
    pc,         \* ready, reading, exited or panicked
    batch,      \* the number of batches sent
    commands,   \* the kinds of the commands sent
    reading,    \* the command whose reply is read
    need,       \* decode: how many values are missing
    body,       \* decode: how many lines of a bulk string come next, or Loose
    parts,      \* decode: the commands that the pieces read so far answer; history
    answers,    \* per command: the commands its answer was made of; history
    failures,   \* the commands that ended in an I/O error, or the first of their batch; history
    torn,       \* the commands whose end left part of a value behind; history
    flushed,    \* the number of commands that have left the buffer of the writer
    session,    \* the server's side: the commands in force for this connection
    served,     \* the number of commands the server has dealt with
    lost,       \* commands that do not arrive whole
    connected,  \* the server has not closed the connection
    coming,     \* pieces on their way
    wire,       \* pieces that have arrived
    arriving    \* of the next piece: nothing, part of it, or part of it and more keeps arriving

callerVars == <<setup, pc, batch, commands, reading, need, body, parts, answers,
                failures, torn, flushed>>
remoteVars == <<session, served, lost, connected>>
controlVars == <<callerVars, remoteVars, coming, wire, arriving>>

Plan == setup.plan
BatchSize(b) == Plan[b].size
sent == Len(commands)

ControlInit ==
    /\ setup \in Setups
    /\ pc = "ready" /\ batch = 0 /\ commands = <<>> /\ reading = 0
    /\ need = 0 /\ body = 0 /\ parts = {}
    /\ answers = <<>> /\ failures = {} /\ torn = {} /\ flushed = 0
    /\ session = {} /\ served = 0 /\ lost = {} /\ connected = TRUE
    /\ coming = <<>> /\ wire = <<>> /\ arriving = "nothing"

-----------------------------------------------------------------------------
(* The server executes commands in turn.  Its replies arrive in order.      *)

Piece(k, form, count, ok) == [command |-> k, form |-> form, count |-> count, ok |-> ok]
Line(k, ok) == Piece(k, "line", 0, ok)

Shapes(k) ==
    LET bulk == <<Piece(k, "bulk", 2, TRUE), Piece(k, "body", 0, TRUE), Piece(k, "body", 0, TRUE)>>
        array == <<Piece(k, "array", 2, TRUE), Line(k, TRUE)>> \o bulk
    IN  CASE commands[k] \in {"AUTH", "SELECT", "PING"} -> {<<Line(k, TRUE)>>, <<Line(k, FALSE)>>}
          [] commands[k] = "INFO" -> {bulk, <<Line(k, FALSE)>>}
          [] OTHER -> {<<Line(k, TRUE)>>, bulk, array}

Serve ==
    /\ connected /\ served < flushed /\ served + 1 \notin lost
    /\ \E reply \in Shapes(served + 1) :
          /\ coming' = coming \o reply
          /\ session' = IF reply[1].ok THEN session \cup {commands[served + 1]} ELSE session
    /\ served' = served + 1
    /\ UNCHANGED <<callerVars, connected, lost, wire, arriving>>

(* Of a command that was not written whole the server gets nothing, or its   *)
(* beginning, which it completes with bytes of the next: it may execute that *)
(* or complain, take the next command's bytes for it, and hang up.           *)
RepliesToPart(k) ==
    {<<>>, <<Line(k, FALSE), Line(k, FALSE)>>} \cup
        {reply \in Shapes(k) : commands[k] \in Logins => ~reply[1].ok}

ServeLost ==
    /\ connected /\ served + 1 < flushed /\ served + 1 \in lost
    /\ \E reply \in RepliesToPart(served + 1) : coming' = coming \o reply
    /\ lost' \in {lost, lost \cup {served + 2}}
    /\ connected' \in BOOLEAN
    /\ served' = served + 1
    /\ UNCHANGED <<callerVars, session, wire, arriving>>

Deliver ==
    /\ coming # <<>>
    /\ wire' = Append(wire, Head(coming))
    /\ coming' = Tail(coming)
    /\ arriving' = "nothing"
    /\ UNCHANGED <<callerVars, remoteVars>>

(* What is read at once need not be a piece: bits of a line or a string may  *)
(* arrive, each within the timeout, for as long as it pleases the server.    *)
Drip ==
    /\ pc = "reading" /\ wire = <<>> /\ coming # <<>>
    /\ arriving' = "more"
    /\ UNCHANGED <<callerVars, remoteVars, coming, wire>>

Stall ==
    /\ arriving = "more"
    /\ arriving' = "part"
    /\ UNCHANGED <<callerVars, remoteVars, coming, wire>>

HangUp ==
    /\ connected
    /\ connected' = FALSE
    /\ UNCHANGED <<callerVars, session, served, lost, coming, wire, arriving>>

-----------------------------------------------------------------------------
(* execute_encoded, and send of BenchmarkClient: write and flush.  The      *)
(* replies are read next.                                                   *)

Encode ==
    /\ pc = "ready" /\ batch < Len(Plan)
    /\ batch' = batch + 1
    /\ commands' = commands \o [i \in 1 .. BatchSize(batch + 1) |-> Plan[batch + 1].kind]
    /\ answers' = answers \o [i \in 1 .. BatchSize(batch + 1) |-> {}]
    /\ UNCHANGED <<setup, torn, session, served, connected, coming, wire, arriving>>

Send ==
    /\ Encode
    /\ flushed' = sent + BatchSize(batch + 1)
    /\ reading' = sent + 1
    /\ pc' = "reading" /\ need' = 1 /\ body' = 0 /\ parts' = {}
    /\ UNCHANGED <<failures, lost>>

(* The factory gives up when AUTH or SELECT is not answered with OK, and the *)
(* interactive mode when PING fails.  Everybody else goes on as if nothing   *)
(* had happened to the connection.                                          *)
MustSucceed(b) == Plan[b].kind \in {"AUTH", "SELECT", "PING"}
ExitIfLost(b, succeeded) == "ready"     \* mutant
After(b, succeeded) == IF MustSucceed(b) /\ ~succeeded THEN "exited" ELSE "ready"

(* A write fails or times out: commands up to n have been written, those up  *)
(* to k stay in the BufWriter, which TLS has none of, the others are dropped.*)
FailSend ==
    /\ Encode
    /\ pc' = After(batch + 1, FALSE)
    /\ failures' = failures \cup {sent + 1}
    /\ \E m \in flushed .. sent' - 1 : \E k \in m .. sent' :
          /\ setup.tls => k = m
          /\ flushed' = m /\ lost' = lost \cup k + 1 .. sent'
    /\ UNCHANGED <<reading, need, body, parts>>

(* A failed read fails the batch: what is left of its replies is not read.   *)
FailBatch ==
    /\ pc' = After(batch, FALSE)
    /\ failures' = failures \cup {reading}
    /\ need' = 0 /\ body' = 0 /\ parts' = {}
    /\ UNCHANGED <<setup, batch, commands, reading, answers, flushed>>

Made == parts \cup {wire[1].command}     \* the commands answered, with this piece

CutFirst(pieces) == [pieces EXCEPT ![1].form = "rest"]

(* A call of decode ends, with a value or not.  Over TLS the buffer of its   *)
(* reader is dropped with what it has read ahead: rest, and maybe the        *)
(* beginning of the piece behind it.                                         *)
EndDecode(rest) ==
    \/ ~setup.tls /\ wire' = rest /\ UNCHANGED <<torn, coming>>
    \/ /\ setup.tls /\ wire' = <<>>
       /\ \/ torn' = (IF rest = <<>> THEN torn ELSE torn \cup {reading}) /\ UNCHANGED coming
          \/ coming # <<>> /\ torn' = torn \cup {reading} /\ coming' = CutFirst(coming)

(* decode has a value; read_responses goes on to the next one.               *)
EndValue(rest, ok, made) ==
    /\ answers' = [answers EXCEPT ![reading] = made]
    /\ EndDecode(rest)
    /\ body' = 0 /\ parts' = {}
    /\ IF reading < sent
       THEN reading' = reading + 1 /\ need' = 1 /\ UNCHANGED pc
       ELSE pc' = After(batch, ok) /\ need' = 0 /\ UNCHANGED reading
    /\ UNCHANGED <<setup, batch, commands, failures, flushed>>

GoOn(rest, missing, lines) ==
    /\ need' = missing /\ body' = lines /\ parts' = Made
    /\ wire' = rest
    /\ UNCHANGED <<setup, pc, batch, commands, reading, answers, failures, torn, flushed, coming>>

(* RespDecoder::decode, piece by piece: a value completes the ones around it *)
(* when it is the last that they need.                                       *)
ReadValue(rest, ok) ==
    IF need = 1 THEN EndValue(rest, ok, Made) ELSE GoOn(rest, need - 1, 0)

ReadBody ==
    /\ body > 0
    /\ IF body = 1 THEN ReadValue(Tail(wire), TRUE) ELSE GoOn(Tail(wire), need, body - 1)

(* A line of a string, or the rest of a line, may look like anything where a *)
(* value should begin: a value, the header of an array or of a string of any *)
(* length, or none of these.  Its first character may have several bytes,    *)
(* and it may announce more than there is memory for.                        *)
Loose == -1

Panic ==
    /\ pc' = "panicked" /\ need' = 0 /\ body' = 0 /\ parts' = {}
    /\ wire' = Tail(wire)
    /\ UNCHANGED <<setup, batch, commands, reading, answers, failures, torn, flushed, coming>>

ReadStray ==
    \/ \E ok \in BOOLEAN : ReadValue(Tail(wire), ok)
    \/ \E count \in StrayCounts : GoOn(Tail(wire), need - 1 + count, 0)
    \/ GoOn(Tail(wire), need, Loose)
    \/ FailBatch /\ EndDecode(Tail(wire))
    \/ Panic

(* A string of any length takes what comes: it goes on, or ends with this    *)
(* piece or within it.                                                       *)
ReadLoose ==
    /\ body = Loose
    /\ \/ GoOn(Tail(wire), need, Loose)
       \/ ReadValue(Tail(wire), TRUE)
       \/ ReadValue(CutFirst(wire), TRUE)

ReadPieceNoBody ==      \* mutant: a bulk string ends with its header
    /\ pc = "reading" /\ wire # <<>>
    /\ CASE wire[1].form \in {"line", "bulk"} -> ReadValue(Tail(wire), wire[1].ok)
         [] wire[1].form = "array" -> GoOn(Tail(wire), need - 1 + wire[1].count, 0)
         [] wire[1].form \in {"body", "rest"} -> ReadStray
    /\ UNCHANGED <<remoteVars, arriving>>
ReadPiece ==
    /\ pc = "reading" /\ wire # <<>>
    /\ \/ ReadBody \/ ReadLoose
       \/ /\ body = 0
          /\ CASE wire[1].form = "line" -> ReadValue(Tail(wire), wire[1].ok)
               [] wire[1].form = "bulk" -> GoOn(Tail(wire), need, wire[1].count)
               [] wire[1].form = "array" -> GoOn(Tail(wire), need - 1 + wire[1].count, 0)
               [] wire[1].form \in {"body", "rest"} -> ReadStray
    /\ UNCHANGED <<remoteVars, arriving>>

TimeoutUnset ==         \* mutant
    /\ pc = "reading" /\ wire = <<>> /\ ~connected
    /\ FailBatch
    /\ UNCHANGED <<torn, remoteVars, coming, wire, arriving>>
(* The read timeout, which every bit that arrives starts again.  What has    *)
(* been read of a piece or a string by then is lost.                         *)
Timeout ==
    /\ pc = "reading" /\ wire = <<>> /\ arriving # "more"
    /\ FailBatch
    /\ torn' = IF body # 0 \/ arriving = "part" THEN torn \cup {reading} ELSE torn
    /\ coming' = IF arriving = "part" THEN CutFirst(coming) ELSE coming
    /\ arriving' = "nothing"
    /\ UNCHANGED <<remoteVars, wire>>

EndOfStream ==
    /\ pc = "reading" /\ ~connected /\ coming = <<>> /\ wire = <<>>
    /\ FailBatch
    /\ UNCHANGED <<torn, remoteVars, coming, wire, arriving>>

-----------------------------------------------------------------------------

Client == Send \/ FailSend \/ ReadPiece \/ Timeout \/ EndOfStream
Remote == Serve \/ ServeLost \/ Deliver \/ Drip \/ Stall \/ HangUp

ControlNext == Client \/ Remote

ControlSpec == ControlInit /\ [][ControlNext]_controlVars

(* The program keeps running, and a read ends after the timeout at the       *)
(* latest.  Neither the server nor the network owes anything.                *)
ControlFairSpec == ControlSpec /\ WF_controlVars(ReadPiece \/ Timeout \/ EndOfStream)

-----------------------------------------------------------------------------

Forms == {"line", "array", "bulk", "body", "rest"}
ReplyPieces == [command : Nat, form : Forms, count : Nat, ok : BOOLEAN]

ControlTypeOK ==
    /\ setup \in Setups
    /\ pc \in {"ready", "reading", "exited", "panicked"}
    /\ batch \in 0 .. Len(Plan) /\ commands \in Seq(Kinds) /\ reading \in 0 .. sent
    /\ need \in Nat /\ (pc = "reading" <=> need > 0)
    /\ body \in Nat \cup {Loose} /\ parts \subseteq Nat
    /\ answers \in Seq(SUBSET Nat) /\ Len(answers) = sent
    /\ failures \subseteq 1 .. sent /\ torn \subseteq 1 .. sent
    /\ flushed \in 0 .. sent /\ served \in 0 .. flushed /\ lost \subseteq 1 .. sent
    /\ session \subseteq Kinds /\ connected \in BOOLEAN
    /\ coming \in Seq(ReplyPieces) /\ wire \in Seq(ReplyPieces)
    /\ arriving \in {"nothing", "part", "more"} /\ (arriving # "nothing" => coming # <<>>)

(* Until a command fails with an I/O error, every answer is the reply to its *)
(* own command.  Afterwards it may be anybody's.  (Not claimed of batches    *)
(* over TLS, where replies that arrive together are lost.)                   *)
InStepUntilFailure ==
    \A k \in 1 .. sent :
        (answers[k] # {} /\ (setup.tls => \A b \in DOMAIN Plan : BatchSize(b) = 1)) =>
            answers[k] = {k} \/ \E j \in failures : j < k

(* An answer is never put together from the replies to several commands,     *)
(* even when the connection is out of step, unless a read had failed inside  *)
(* of a line or a string, or a buffer was dropped: an array that is cut      *)
(* between its elements leaves whole values behind.                          *)
AnswersAreWhole ==
    \A k \in 1 .. sent : (\E i, j \in answers[k] : i # j) => \E f \in torn : f < k

(* Answers belong to their commands, or at least to one command.             *)
AnswersBelong == InStepUntilFailure /\ AnswersAreWhole

(* Whoever gets a connection from the factory gets one that the server has   *)
(* authenticated and switched to the database.                               *)
HandedOutReady ==
    pc # "exited" =>
        \A b \in 1 .. batch :
            Plan[b].kind \in Logins /\ (b < batch \/ pc = "ready") => Plan[b].kind \in session

(* The decoder panics, or asks for more memory than there is, only over what *)
(* an earlier command left behind of its reply: never over a reply that is   *)
(* read from its beginning.                                                  *)
PanicsAreOfLeftovers == pc = "panicked" => \E f \in torn : f < reading

(* Whatever becomes of a reply, it does no harm but after a failure: no      *)
(* answer that belongs to another command, and no panic.                     *)
OnlyFailuresConfuse == AnswersBelong /\ PanicsAreOfLeftovers

(* A command that waits for its replies ends, with an answer, an error or a  *)
(* panic, whether the server answers, hangs up or falls silent, and whatever *)
(* is left of earlier replies.  Not if the server goes on for ever sending   *)
(* bits of a line or a string that it never completes: only reads time out.  *)
CommandsReturn == []<>(arriving = "more") \/ (pc = "reading" ~> pc # "reading")

=============================================================================
