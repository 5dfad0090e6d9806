----------------------------- MODULE EventWorker -----------------------------
(***************************************************************************)
(* EventWorker (src/benchmark/event_worker.rs): the benchmark threads and  *)
(* their non-blocking connections.  Each thread runs one event loop: it    *)
(* drains its ready queue into new requests, then repeatedly looks whether *)
(* the run is over, visits every client, and drains the queue again.  The  *)
(* threads meet only in GlobalCounters, whose claims are RequestQuota's    *)
(* steps.  A request is a pipeline of Batch commands: it is written,       *)
(* answered and counted as one.  The server's side of a connection, "wire",*)
(* is the environment: it may be slow, answer with bytes that do not parse,*)
(* or close.                                                               *)
(***************************************************************************)
EXTENDS Integers, FiniteSets, SequencesExt

CONSTANTS
    Workers,    \* threads that run an event loop
    ClientsOf,  \* the clients of each worker, in the order they were created
    Cluster,    \* a topology was given: one ready queue per node
    NodeOf,     \* the address each client is connected to
    SlotOwners, \* clients whose owned_slots holds a slot: those of primaries
    Flaky,      \* clients whose connection may break or deliver garbage
    NoConnect,  \* workers that may fail to connect when they are created
    Batch, Total, MaxClaims,  \* as in RequestQuota
    NoClient

Clients == UNION {ToSet(ClientsOf[w]) : w \in Workers}

(* A worker opens its own connections, each of them once. *)
ASSUME WorkerAssumption ==
    /\ IsFiniteSet(Workers)
    /\ Batch \in Nat \ {0}
    /\ Total \in Nat
    /\ MaxClaims \in Nat
    /\ ClientsOf \in [Workers -> Seq(Clients)]
    /\ \A w \in Workers : IsInjective(ClientsOf[w])
    /\ \A v, w \in Workers : v # w => ToSet(ClientsOf[v]) \cap ToSet(ClientsOf[w]) = {}
    /\ NoClient \notin Clients

VARIABLES
    countMode, issued, expired, claim, tickets, onTime,  \* as in RequestQuota
    finished,   \* requests_finished
    shutdown,   \* the flag the orchestrator raises
    pc,         \* where each worker is in run()
    at,         \* client_idx of its scan over the clients
    cur,        \* the client it holds outside the ready queue
    ready,      \* its ready queues, as one sequence
    state,      \* ClientState
    wire,       \* what the socket of each client would do next
    processed,  \* requests_processed of each worker
    errors      \* error_count of each worker

clientVars == <<pc, at, cur, ready, state, wire>>
tallyVars == <<finished, processed, errors>>

Quota == INSTANCE RequestQuota
counterVars == <<countMode, issued, expired, claim, tickets, onTime>>
workerVars == <<counterVars, clientVars, tallyVars, shutdown>>

OwnerOf(c) == CHOOSE w \in Workers : c \in ToSet(ClientsOf[w])
Busy(c) == state[c] # "Idle"

(* The sum of a tally over the workers. *)
SumOver(f) ==
    LET workers == SetToSeq(Workers)
        sum[i \in 0 .. Len(workers)] == IF i = 0 THEN 0 ELSE sum[i - 1] + f[workers[i]]
    IN  sum[Len(workers)]

-----------------------------------------------------------------------------
(* The ready queues.                                                       *)

(* Mutants: the client is not queued, or is queued twice.                    *)
Dropped(q, c) == q
QueuedTwice(q, c) == q \o <<c, c>>

(* return_client_to_ready: in cluster mode the queue is looked up through    *)
(* the first slot the client owns; a client that owns none is not queued.    *)
Requeued(q, c) == IF Cluster /\ c \notin SlotOwners THEN q ELSE Append(q, c)

(* pop_any_ready_client: the front of the one queue, or of any node's queue. *)
Fronts(q) ==
    {i \in DOMAIN q : IF Cluster
                      THEN \A j \in 1 .. i - 1 : NodeOf[q[j]] # NodeOf[q[i]]
                      ELSE i = 1}

-----------------------------------------------------------------------------
(* Creating a worker.                                                      *)

(* with_templates: connect every client and queue it. *)
Create(w) ==
    /\ pc[w] = "create"
    /\ pc' = [pc EXCEPT ![w] = "initial"]
    /\ ready' = [ready EXCEPT ![w] = ClientsOf[w]]
    /\ UNCHANGED <<counterVars, tallyVars, shutdown, at, cur, state, wire>>

(* A connection is refused: the thread returns one error and no requests. *)
CreateFails(w) ==
    /\ pc[w] = "create"
    /\ w \in NoConnect
    /\ pc' = [pc EXCEPT ![w] = "failed"]
    /\ errors' = [errors EXCEPT ![w] = 1]
    /\ UNCHANGED <<counterVars, finished, processed, shutdown, at, cur, ready, state, wire>>

-----------------------------------------------------------------------------
(* Claiming a batch for the client in hand, and starting it.               *)

(* The two drain loops pop a client and then claim. *)
TakeReady(w) ==
    /\ pc[w] \in {"initial", "drain"}
    /\ cur[w] = NoClient
    /\ \E i \in Fronts(ready[w]) :
          /\ cur' = [cur EXCEPT ![w] = ready[w][i]]
          /\ ready' = [ready EXCEPT ![w] = RemoveAt(@, i)]
    /\ Quota!BeginClaim(w)
    /\ UNCHANGED <<finished, processed, errors, shutdown, pc, at, state, wire>>

QueueEmpty(w) ==
    /\ pc[w] \in {"initial", "drain"}
    /\ cur[w] = NoClient
    /\ ready[w] = <<>>
    /\ pc' = [pc EXCEPT ![w] = "head"]
    /\ UNCHANGED <<counterVars, tallyVars, shutdown, at, cur, ready, state, wire>>

(* A client whose responses are all in is given the next request at once. *)
ClaimForReuse(w) ==
    /\ pc[w] = "answered"
    /\ pc' = [pc EXCEPT ![w] = "reuse"]
    /\ Quota!BeginClaim(w)
    /\ UNCHANGED <<tallyVars, shutdown, at, cur, ready, state, wire>>

Claiming(w) ==
    /\ cur[w] # NoClient
    /\ pc[w] # "answered"
    /\ Quota!FetchAdd(w) \/ Quota!FetchSub(w)
    /\ UNCHANGED <<clientVars, tallyVars, shutdown>>

(* What the socket looks like when a request is put in the write buffer.     *)
Outgoing(c) == IF wire[c] = "closed" THEN {"closed"} ELSE {"clear", "blocked"}

(* try_write on a socket in condition s: a closed one may still take bytes.  *)
AfterWrite(s) ==
    CASE s = "clear"   -> {"Reading"}
      [] s = "blocked" -> {"Writing"}
      [] s = "closed"  -> {"Reading", "Writing"}

(* start_request; except in the initial drain, try_write at once, ignoring   *)
(* its result.                                                               *)
StartRequest(w) ==
    /\ cur[w] # NoClient
    /\ pc[w] # "answered"
    /\ claim[w] = "granted"
    /\ LET c == cur[w] IN
          \E s \in Outgoing(c) :
             /\ wire' = [wire EXCEPT ![c] = s]
             /\ \E st \in (IF pc[w] = "initial" THEN {"Writing"} ELSE AfterWrite(s)) :
                   state' = [state EXCEPT ![c] = st]
    /\ cur' = [cur EXCEPT ![w] = NoClient]
    /\ IF pc[w] = "reuse"
          THEN pc' = [pc EXCEPT ![w] = "scan"] /\ at' = [at EXCEPT ![w] = @ + 1]
          ELSE UNCHANGED <<pc, at>>
    /\ UNCHANGED <<counterVars, tallyVars, shutdown, ready>>

(* claim_batch returned None: queue the client and leave the loop, or go on  *)
(* with the scan.                                                            *)
NoMoreWork(w) ==
    /\ cur[w] # NoClient
    /\ pc[w] # "answered"
    /\ claim[w] = "refused"
    /\ ready' = [ready EXCEPT ![w] = Requeued(@, cur[w])]
    /\ cur' = [cur EXCEPT ![w] = NoClient]
    /\ IF pc[w] = "reuse"
          THEN pc' = [pc EXCEPT ![w] = "scan"] /\ at' = [at EXCEPT ![w] = @ + 1]
          ELSE pc' = [pc EXCEPT ![w] = "head"] /\ UNCHANGED at
    /\ UNCHANGED <<counterVars, tallyVars, shutdown, state, wire>>

-----------------------------------------------------------------------------
(* The event loop.                                                         *)

AllIdle(w) == \A c \in ToSet(ClientsOf[w]) : ~Busy(c)

(* Mutant: the loop leaves the clock to the quota. *)
LoopTopUntimed(w) ==
    /\ pc[w] = "head"
    /\ IF shutdown \/ (Quota!IsComplete /\ AllIdle(w))
          THEN pc' = [pc EXCEPT ![w] = "done"] /\ UNCHANGED at
          ELSE pc' = [pc EXCEPT ![w] = "scan"] /\ at' = [at EXCEPT ![w] = 1]
    /\ UNCHANGED <<counterVars, tallyVars, shutdown, cur, ready, state, wire>>

(* The top of the loop. *)
LoopTop(w) ==
    /\ pc[w] = "head"
    /\ IF shutdown \/ expired \/ (Quota!IsComplete /\ AllIdle(w))
          THEN pc' = [pc EXCEPT ![w] = "done"] /\ UNCHANGED at
          ELSE pc' = [pc EXCEPT ![w] = "scan"] /\ at' = [at EXCEPT ![w] = 1]
    /\ UNCHANGED <<counterVars, tallyVars, shutdown, cur, ready, state, wire>>

(* The end of the scan: all clients visited, or the duration is over. *)
ScanEnds(w) ==
    /\ pc[w] = "scan"
    /\ at[w] > Len(ClientsOf[w]) \/ expired
    /\ pc' = [pc EXCEPT ![w] = "drain"]
    /\ UNCHANGED <<counterVars, tallyVars, shutdown, at, cur, ready, state, wire>>

Scanning(w, c) ==
    /\ pc[w] = "scan"
    /\ at[w] <= Len(ClientsOf[w])
    /\ ~expired
    /\ c = ClientsOf[w][at[w]]

(* The client is idle, or its socket would block. *)
VisitNothing(w) ==
    \E c \in Clients :
        /\ Scanning(w, c)
        /\ \/ ~Busy(c)
           \/ state[c] = "Writing" /\ wire[c] = "blocked"
           \/ state[c] = "Reading" /\ wire[c] = "clear"
        /\ at' = [at EXCEPT ![w] = @ + 1]
        /\ UNCHANGED <<counterVars, tallyVars, shutdown, pc, cur, ready, state, wire>>

VisitWriting(w) ==
    \E c \in Clients :
        /\ Scanning(w, c)
        /\ state[c] = "Writing"
        /\ "Reading" \in AfterWrite(wire[c])
        /\ state' = [state EXCEPT ![c] = "Reading"]
        /\ at' = [at EXCEPT ![w] = @ + 1]
        /\ UNCHANGED <<counterVars, tallyVars, shutdown, pc, cur, ready, wire>>

(* All responses are in: they are counted here and in the shared counter.    *)
VisitAnswered(w) ==
    \E c \in Clients :
        /\ Scanning(w, c)
        /\ state[c] = "Reading"
        /\ wire[c] = "answered"
        /\ state' = [state EXCEPT ![c] = "Idle"]
        /\ wire' = [wire EXCEPT ![c] = "clear"]
        /\ processed' = [processed EXCEPT ![w] = @ + Batch]
        /\ finished' = finished + Batch
        /\ cur' = [cur EXCEPT ![w] = c]
        /\ pc' = [pc EXCEPT ![w] = "answered"]
        /\ UNCHANGED <<counterVars, errors, shutdown, at, ready>>

(* Mutant: the failed batch counts as one error. *)
VisitFailedOnce(w) ==
    \E c \in Clients :
        /\ Scanning(w, c)
        /\ \/ state[c] = "Writing" /\ wire[c] = "closed"
           \/ state[c] = "Reading" /\ wire[c] \in {"garbled", "closed"}
        /\ errors' = [errors EXCEPT ![w] = @ + 1]
        /\ state' = [state EXCEPT ![c] = "Idle"]
        /\ wire' = [wire EXCEPT ![c] = IF @ = "garbled" THEN "clear" ELSE @]
        /\ ready' = [ready EXCEPT ![w] = Requeued(@, c)]
        /\ at' = [at EXCEPT ![w] = @ + 1]
        /\ UNCHANGED <<counterVars, finished, processed, shutdown, pc, cur>>

(* A write or read error: the whole batch counts as errors, the client goes  *)
(* back to the ready queue with the same socket.  Answers that had arrived   *)
(* before the connection was closed are lost with it.                        *)
VisitFailed(w) ==
    \E c \in Clients :
        /\ Scanning(w, c)
        /\ \/ state[c] = "Writing" /\ wire[c] = "closed"
           \/ state[c] = "Reading" /\ wire[c] \in {"garbled", "closed"}
        /\ errors' = [errors EXCEPT ![w] = @ + Batch]
        /\ state' = [state EXCEPT ![c] = "Idle"]
        /\ wire' = [wire EXCEPT ![c] = IF @ = "garbled" THEN "clear" ELSE @]
        /\ ready' = [ready EXCEPT ![w] = Requeued(@, c)]
        /\ at' = [at EXCEPT ![w] = @ + 1]
        /\ UNCHANGED <<counterVars, finished, processed, shutdown, pc, cur>>

WorkerStep(w) ==
    \/ Create(w) \/ CreateFails(w)
    \/ TakeReady(w) \/ QueueEmpty(w) \/ ClaimForReuse(w)
    \/ Claiming(w) \/ StartRequest(w) \/ NoMoreWork(w)
    \/ LoopTop(w) \/ ScanEnds(w) \/ VisitNothing(w)
    \/ VisitWriting(w) \/ VisitAnswered(w) \/ VisitFailed(w)

-----------------------------------------------------------------------------
(* The sockets and the clock.                                              *)

Wire(c, from, to) ==
    /\ wire[c] = from
    /\ wire' = [wire EXCEPT ![c] = to]
    /\ UNCHANGED <<counterVars, tallyVars, shutdown, pc, at, cur, ready, state>>

(* The server reads on and the socket takes bytes again. *)
Unblock(c) == Wire(c, "blocked", "clear")

(* The server answers the whole pipeline. *)
Answer(c) == state[c] = "Reading" /\ Wire(c, "clear", "answered")

(* The answer does not parse: try_read returns InvalidData. *)
Garble(c) == c \in Flaky /\ state[c] = "Reading" /\ Wire(c, "clear", "garbled")

(* The connection is closed; nothing reconnects it. *)
Close(c) ==
    /\ c \in Flaky
    /\ pc[OwnerOf(c)] \notin {"create", "done", "failed"}
    /\ \E from \in {"clear", "blocked", "answered"} : Wire(c, from, "closed")

Tick == Quota!Expire /\ UNCHANGED <<clientVars, tallyVars, shutdown>>

Environment ==
    Tick \/ \E c \in Clients : Unblock(c) \/ Answer(c) \/ Garble(c) \/ Close(c)

-----------------------------------------------------------------------------

WorkerInit ==
    /\ Quota!Init
    /\ finished = 0
    /\ shutdown = FALSE
    /\ pc = [w \in Workers |-> "create"]
    /\ at = [w \in Workers |-> 1]
    /\ cur = [w \in Workers |-> NoClient]
    /\ ready = [w \in Workers |-> <<>>]
    /\ state = [c \in Clients |-> "Idle"]
    /\ wire = [c \in Clients |-> "clear"]
    /\ processed = [w \in Workers |-> 0]
    /\ errors = [w \in Workers |-> 0]

Running(w) == pc[w] \notin {"create", "done", "failed"}

TypeOK ==
    /\ Quota!TypeOK
    /\ finished \in Nat
    /\ shutdown \in BOOLEAN
    /\ pc \in [Workers -> {"create", "initial", "head", "scan", "answered",
                           "reuse", "drain", "done", "failed"}]
    /\ at \in [Workers -> Nat \ {0}]
    /\ cur \in [Workers -> Clients \cup {NoClient}]
    /\ DOMAIN ready = Workers /\ \A w \in Workers : ready[w] \in Seq(ToSet(ClientsOf[w]))
    /\ state \in [Clients -> {"Idle", "Writing", "Reading"}]
    /\ wire \in [Clients -> {"clear", "blocked", "answered", "garbled", "closed"}]
    /\ processed \in [Workers -> Nat]
    /\ errors \in [Workers -> Nat]

(* "Idle clients are in the ready queue": a client of a running worker is    *)
(* in a ready queue at most once, and just when it is idle and not in hand.  *)
(* A client outside it is never used again: in a cluster that is the fate of *)
(* one that owns no slot, after its first failure or refused claim.          *)
IdleAreReady(w) ==
    /\ IsInjective(ready[w])
    /\ \A c \in ToSet(ClientsOf[w]) :
          /\ c \in ToSet(ready[w]) => ~Busy(c) /\ cur[w] # c
          /\ ~Busy(c) /\ cur[w] # c /\ (Cluster => c \in SlotOwners) => c \in ToSet(ready[w])

(* A worker never starts a request on a client whose previous request is     *)
(* outstanding: start_request would drop its buffers and its batch.          *)
NothingOverwritten(w) == cur[w] # NoClient => ~Busy(cur[w])

(* A connection is in one place at a time: in a queue, in hand or under way, *)
(* so that none is lost for the run and none is used twice at once.          *)
ClientsKeepTheirPlace ==
    \A w \in Workers : (Running(w) => IdleAreReady(w)) /\ NothingOverwritten(w)

=============================================================================
