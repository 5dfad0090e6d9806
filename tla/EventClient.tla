----------------------------- MODULE EventClient -----------------------------
(***************************************************************************)
(* EventClient (src/benchmark/event_worker.rs): one non-blocking           *)
(* connection of an event loop, with its buffers, during a vec-query run.  *)
(* EventWorker takes a pipeline to be written, answered and counted as a   *)
(* whole; here it travels in pieces: a write may take a part of a command, *)
(* a read may end inside a reply, and replies arrive while the rest of the *)
(* pipeline is being written.  Which query each command asks is remembered *)
(* in query_indices, and used, when all replies are in, to score them.     *)
(***************************************************************************)
EXTENDS DatasetFile

CONSTANTS
    Queries,     \* query vectors of the dataset
    Truth,       \* the ground truth of each: ids, nearest first
    AnswerTo,    \* the ids that the server finds for each
    K,           \* hits asked for
    Pipeline,    \* commands per request
    Pieces,      \* pieces that a command or a reply may arrive in
    MaxRequests  \* bound on the requests of the run

ASSUME ClientAssumption ==
    /\ K \in Nat \ {0} /\ Pipeline \in Nat \ {0} /\ Pieces \in Nat \ {0} /\ MaxRequests \in Nat
    /\ Truth \in [Queries -> Seq(Nat)] /\ AnswerTo \in [Queries -> Seq(Nat)]
    /\ \A q \in Queries : IsInjective(AnswerTo[q])
    /\ "does not parse" \notin Queries

VARIABLES
    state,       \* ClientState
    writeBuf,    \* the queries asked by the commands in write_buf
    written,     \* write_pos, in pieces
    asked,       \* query_indices
    readBuf,     \* pieces in read_buf
    responses,   \* replies parsed: the query that each is an answer to
    received,    \* the server: commands received and not yet answered
    answered,    \* pieces sent of the reply to the first of them
    socket,      \* pieces that wait to be read
    open,        \* the connection is open
    garbled,     \* history: a reply did not parse
    requests,    \* started
    processed, errors,  \* commands counted by the event loop
    recorded, recall,   \* RecallStats: total_queries and sum_recall
    due          \* history: the recall of the queries whose request was counted

bufferVars == <<writeBuf, written, asked, readBuf, responses>>
serverVars == <<received, answered, socket, open>>
countVars == <<requests, processed, errors, recorded, recall, due>>
clientVars == <<state, bufferVars, serverVars, garbled, countVars>>

-----------------------------------------------------------------------------
(* Recall: what a reply to one query scores for another.                  *)

Score(query, reply) == RecallOf(AnswerTo[reply], Truth[query], K)

(* The responses are scored against the queries asked, pairwise in order. *)
ScoreSum(queries, replies) ==
    LET pairs == Zip(queries, replies)
    IN  Sum([i \in DOMAIN pairs |-> Score(pairs[i][1], pairs[i][2])])

(* Recall, at a rank that is K if so many neighbours are known and found,    *)
(* and that both lists reach: the neighbours found, out of so many.          *)
Rank(query) == Min({K, Len(Truth[query]), Len(AnswerTo[query])})
RecallAtRank(query) ==
    LET firstOf(s) == {s[i] : i \in 1 .. Rank(query)}
    IN  IF Rank(query) = 0 THEN 0
        ELSE (Unit * Cardinality(firstOf(AnswerTo[query]) \cap firstOf(Truth[query]))) \div Rank(query)

-----------------------------------------------------------------------------
(* The event loop.                                                         *)

(* fill_placeholders_for chooses a query for each command; start_request     *)
(* resets the buffers, but leaves query_indices, which were just filled.     *)
Start ==
    /\ state = "Idle"
    /\ requests < MaxRequests
    /\ \E queries \in [1 .. Pipeline -> Queries] :
          writeBuf' = queries /\ asked' = asked \o queries
    /\ written' = 0
    /\ readBuf' = <<>>
    /\ responses' = <<>>
    /\ state' = "Writing"
    /\ requests' = requests + 1
    /\ UNCHANGED <<serverVars, garbled, processed, errors, recorded, recall, due>>

Size == Pipeline * Pieces

(* try_write: the socket takes some of what is left.                         *)
Write ==
    /\ state = "Writing" /\ open
    /\ \E upTo \in written .. Size :
          /\ written' = upTo
          /\ received' = received \o SubSeq(writeBuf, (written \div Pieces) + 1, upTo \div Pieces)
          /\ state' = IF upTo = Size THEN "Reading" ELSE "Writing"
    /\ UNCHANGED <<writeBuf, asked, readBuf, responses, answered, socket, open, garbled, countVars>>

(* A closed socket may take bytes that nobody will read. *)
WriteInVain ==
    /\ state = "Writing" /\ ~open
    /\ written' = Size
    /\ state' = "Reading"
    /\ UNCHANGED <<writeBuf, asked, readBuf, responses, serverVars, garbled, countVars>>

(* try_write or try_read returns an error: the event loop counts the batch   *)
(* and makes the client idle, with all its buffers as they are.              *)
Fail ==
    /\ state' = "Idle"
    /\ errors' = errors + Pipeline
    /\ UNCHANGED <<requests, processed, recorded, recall, due>>

WriteFails ==
    /\ state = "Writing" /\ ~open
    /\ Fail
    /\ UNCHANGED <<bufferVars, serverVars, garbled>>

(* All responses are in: count them, score them, and forget the queries.     *)
Count(replies, left) ==
    /\ state' = "Idle"
    /\ responses' = replies
    /\ processed' = processed + Len(replies)
    /\ recorded' = recorded + Len(Zip(asked, replies))
    /\ recall' = recall + ScoreSum(asked, replies)
    /\ due' = due + Sum([i \in DOMAIN writeBuf |-> RecallAtRank(writeBuf[i])])
    /\ asked' = left
    /\ UNCHANGED <<requests, errors>>

Wait(replies) ==
    /\ responses' = replies
    /\ UNCHANGED <<state, asked, countVars>>

(* parse_responses on the pieces in read_buf: whole replies are taken off    *)
(* the front, as many as are pending, and what is left moves there.          *)
Bad == "does not parse"
Good(pieces) ==
    IF Bad \in Range(pieces) THEN SelectInSeq(pieces, LAMBDA piece : piece = Bad) - 1 ELSE Len(pieces)
Whole(pieces) == Min({Good(pieces) \div Pieces, Pipeline - Len(responses)})

ReadAs(kept(_, _), left) ==
    /\ state = "Reading" /\ open /\ ~garbled
    /\ socket' = <<>>
    /\ LET pieces == readBuf \o socket
           taken == Whole(pieces)
           rest == SubSeq(pieces, taken * Pieces + 1, Len(pieces))
           replies == responses \o [i \in 1 .. taken |-> pieces[i * Pieces]]
           bad == Len(replies) < Pipeline /\ rest # <<>> /\ rest[1] = Bad
       IN  /\ readBuf' = IF bad THEN pieces ELSE kept(pieces, rest)
           /\ garbled' = bad
           /\ IF Len(replies) = Pipeline THEN Count(replies, left)
              ELSE IF bad THEN Fail /\ responses' = replies /\ UNCHANGED asked
              ELSE Wait(replies)
    /\ UNCHANGED <<writeBuf, written, received, answered, open>>

(* Mutants: the part of a reply that was read is dropped; query_indices are  *)
(* not drained.                                                              *)
ReadDropsRest == ReadAs(LAMBDA pieces, rest : <<>>, <<>>)
ReadKeepsQueries == ReadAs(LAMBDA pieces, rest : rest, asked)

Read == ReadAs(LAMBDA pieces, rest : rest, <<>>)

(* After a reply that did not parse, the rest of the stream is taken for     *)
(* anything: replies to other queries, an error, or the start of something.  *)
ReadOutOfStep ==
    /\ state = "Reading" /\ open /\ garbled
    /\ socket' = <<>> /\ readBuf' = <<>>
    /\ \/ \E replies \in [1 .. Pipeline -> Queries] : Count(replies, <<>>)
       \/ Fail /\ UNCHANGED <<asked, responses>>
       \/ Wait(responses)
    /\ UNCHANGED <<writeBuf, written, received, answered, open, garbled>>

(* The end of the stream is an error, even when all replies were before it.  *)
ReadFails ==
    /\ state = "Reading" /\ ~open
    /\ Fail
    /\ UNCHANGED <<bufferVars, serverVars, garbled>>

-----------------------------------------------------------------------------
(* The server.  A piece of a reply says which query it is an answer to.    *)

Reply ==
    /\ open /\ received # <<>>
    /\ socket' = Append(socket, received[1])
    /\ answered' = (answered + 1) % Pieces
    /\ received' = IF answered' = 0 THEN Tail(received) ELSE received
    /\ UNCHANGED <<state, bufferVars, open, garbled, countVars>>

ReplyGarbled ==
    /\ open /\ received # <<>> /\ answered = 0
    /\ socket' = Append(socket, Bad)
    /\ received' = Tail(received)
    /\ UNCHANGED <<state, bufferVars, answered, open, garbled, countVars>>

Close ==
    /\ open
    /\ open' = FALSE
    /\ received' = <<>> /\ answered' = 0 /\ socket' = <<>>
    /\ UNCHANGED <<state, bufferVars, garbled, countVars>>

-----------------------------------------------------------------------------

Init ==
    /\ state = "Idle"
    /\ writeBuf = <<>> /\ written = 0 /\ asked = <<>>
    /\ readBuf = <<>> /\ responses = <<>>
    /\ received = <<>> /\ answered = 0 /\ socket = <<>>
    /\ open = TRUE /\ garbled = FALSE
    /\ requests = 0 /\ processed = 0 /\ errors = 0
    /\ recorded = 0 /\ recall = 0 /\ due = 0

Next ==
    \/ Start \/ Write \/ WriteInVain \/ WriteFails \/ Read \/ ReadOutOfStep \/ ReadFails
    \/ Reply \/ ReplyGarbled \/ Close

Spec == Init /\ [][Next]_clientVars

(* The event loop visits a busy client again and again; a server that keeps  *)
(* the connection open reads and answers.                                    *)
FairSpec ==
    /\ Spec
    /\ WF_clientVars(Write \/ WriteInVain \/ WriteFails)
    /\ WF_clientVars(Read \/ ReadFails)
    /\ WF_clientVars(Reply)

-----------------------------------------------------------------------------

TypeOK ==
    /\ state \in {"Idle", "Writing", "Reading"}
    /\ writeBuf \in [1 .. Pipeline -> Queries] \/ writeBuf = <<>>
    /\ written \in 0 .. Size
    /\ asked \in Seq(Queries)
    /\ readBuf \in Seq(Queries \cup {Bad}) /\ socket \in Seq(Queries \cup {Bad})
    /\ responses \in Seq(Queries) /\ Len(responses) <= Pipeline
    /\ received \in Seq(Queries) /\ answered \in 0 .. Pieces - 1
    /\ open \in BOOLEAN /\ garbled \in BOOLEAN
    /\ requests \in 0 .. MaxRequests
    /\ processed \in Nat /\ errors \in Nat /\ recorded \in Nat /\ recall \in Nat /\ due \in Nat

(* "Compute recall for vector queries": as long as every reply parses, each  *)
(* command that counts as processed has had its own reply scored against its *)
(* own query, once: the sum that the run reports is what the queries         *)
(* deserve.  That is recall@K for a query of which K neighbours are known    *)
(* and found; a shorter answer is scored at its own length, which may be     *)
(* more or less than its recall@K.                                           *)
RecallIsOfItsQueries == ~garbled => recorded = processed /\ recall = due

(* A request that was started is answered or fails, however its commands and *)
(* replies are cut up; a reply that does not parse may leave the client      *)
(* waiting for more of what it is not.                                       *)
RequestEnds == state # "Idle" ~> (state = "Idle" \/ garbled)

=============================================================================
