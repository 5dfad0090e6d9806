---------------------------- MODULE KeyspaceRuns ----------------------------
(***************************************************************************)
(* A SET run followed by a GET run of the same keyspace, in one process or *)
(* in two, or by a parallel run, in another process, whose requests are    *)
(* SETs and GETs mixed at random by weight (run_parallel_test).            *)
(* Every request takes the next value of a counter shared by the           *)
(* threads (SimpleContext::claim_next_id, src/workload/context.rs), makes  *)
(* a key of it with its thread's strategy, and in cluster mode puts a tag  *)
(* in the key whose slot its connection's node owns                        *)
(* (deterministic_cluster_tag, src/benchmark/event_worker.rs).  The slots  *)
(* are those of the topology that the process read when it started; the    *)
(* server's may move, and a node answers MOVED to commands for slots it    *)
(* does not own.  The quota answers in one step, as RequestQuota shows.    *)
(***************************************************************************)
EXTENDS KeyIteration, FiniteSets

CONSTANTS
    Clients,      \* connections
    Primaries,    \* nodes that may own slots; one of them when there is no cluster
    SlotOf,       \* the slot of each tag
    Fallback,     \* the tag {AAA}
    Attempts,     \* how many tags are tried for a key
    Candidate(_, _), \* the tag of a key and an attempt
    Keyspace,     \* keyspace_len
    Setups        \* the servers and command lines to look at

Tags == DOMAIN SlotOf
Slots == {SlotOf[tag] : tag \in Tags}

(* A setup: ownerOf, of each slot at the start; strategyOf and nodeOf, of    *)
(* each connection; sequential and seedOf, of a mix; batch; second; restarts,*)
(* whether another process makes the second run; set and get, the requests of*)
(* the two runs; migrations.                                                 *)
ASSUME KeyspaceAssumption ==
    /\ Keyspace \in Nat \ {0} /\ IsFiniteSet(Clients)
    /\ Fallback \in Tags
    /\ Attempts \in Nat
    /\ \A key \in 0 .. Keyspace - 1, i \in 1 .. Attempts : Candidate(key, i) \in Tags
    /\ \A s \in Setups :
          /\ s.batch \in Nat \ {0} /\ s.set \in Nat /\ s.get \in Nat /\ s.migrations \in Nat
          /\ s.second \in {"get", "mix"} /\ s.restarts \in BOOLEAN /\ (s.second = "mix" => s.restarts)
          /\ s.ownerOf \in [Slots -> Primaries]

VARIABLES
    setup,      \* one of Setups, for both runs
    run,        \* "set", "get", "mix" or "end"
    sold,       \* batches claimed in this run
    counter,    \* GlobalCounters.seq_key_counter
    client,     \* "idle", "claimed" or "sent"
    buffer,     \* the command and the key in each client's command buffer
    owner,      \* the node that owns each slot
    known,      \* the same as the process knows it
    migrated,   \* migrations so far
    store,      \* keys on the server
    missed,     \* GETs that found nothing
    moved,      \* batches answered MOVED
    processed   \* batches counted as processed

keyspaceVars == <<setup, run, sold, counter, client, buffer, owner, known, migrated,
                  store, missed, moved, processed>>

StrategyOf == setup.strategyOf  \* the strategy of each connection's thread
Second == setup.second          \* the run after the SET run
NodeOf == setup.nodeOf          \* the node each is connected to
Batch == setup.batch            \* commands per pipeline
SetRequests == setup.set
GetRequests == setup.get
Migrations == setup.migrations  \* bound on the slot migrations

Requests == IF run = "set" THEN SetRequests ELSE GetRequests

(* A mix does not look at --iteration: SimpleContext::new is sequential with *)
(* --sequential and random without, seeded for each thread.                  *)
Plain(c) == IF setup.sequential THEN [kind |-> "sequential", seed |-> 0, within |-> <<>>]
            ELSE [kind |-> "random", seed |-> setup.seedOf[c], within |-> <<>>]
Strategy(c) == IF run = "mix" THEN Plain(c) ELSE StrategyOf[c]

(* ParallelWorkload: the workloads of a mix, each with some of the weight.   *)
Components == {"get", "set"}

(* WeightedTemplates: any of them may be drawn for the next request, for its *)
(* whole pipeline.  Without a mix there is one.                              *)
Templates == IF run = "mix" THEN Components ELSE {run}

(* set_owned_slots, owns_slot: a connection owns the slots of its node; one  *)
(* to a replica, which is not among the primaries, accepts any.              *)
Owns(c, slot) == NodeOf[c] \in Primaries => known[slot] = NodeOf[c]

(* deterministic_cluster_tag: the first candidate with a slot the connection *)
(* owns, or {AAA}, whoever owns its slot.                                    *)
TagFirst(c, key) == Candidate(key, 1)  \* mutant: no look at the slots
TagFor(c, key) ==
    LET owned == {i \in 1 .. Attempts : Owns(c, SlotOf[Candidate(key, i)])}
    IN  IF owned = {} THEN Fallback
        ELSE Candidate(key, CHOOSE i \in owned : \A j \in owned : i <= j)

-----------------------------------------------------------------------------

Init ==
    /\ setup \in Setups
    /\ run = "set"
    /\ sold = 0 /\ counter = 0
    /\ client = [c \in Clients |-> "idle"]
    /\ buffer = [c \in Clients |-> <<>>]
    /\ owner = setup.ownerOf /\ known = owner
    /\ migrated = 0
    /\ store = {}
    /\ missed = 0 /\ moved = 0 /\ processed = 0

Claim(c) ==
    /\ run # "end"
    /\ client[c] = "idle"
    /\ sold * Batch < Requests
    /\ sold' = sold + 1
    /\ client' = [client EXCEPT ![c] = "claimed"]
    /\ UNCHANGED <<run, counter, buffer, owner, known, migrated, store, missed, moved, processed>>

(* Mutants: the counter is read and not advanced; the key of a GET is        *)
(* another.                                                                  *)
TakeKeyAs(c, key, next) ==
    /\ client[c] = "claimed"
    /\ counter' = next
    /\ \E command \in Templates :
          buffer' = [buffer EXCEPT ![c] = <<command, TagFor(c, key), key>>]
    /\ client' = [client EXCEPT ![c] = "sent"]
    /\ UNCHANGED <<run, sold, owner, known, migrated, store, missed, moved, processed>>
TakeKeyStuck(c) == TakeKeyAs(c, NextKey(Strategy(c), counter, Keyspace), counter)
TakeKeyShifted(c) ==
    LET at == IF run = "set" THEN counter ELSE counter + 1
    IN  TakeKeyAs(c, NextKey(Strategy(c), at, Keyspace), counter + 1)

(* fill_placeholders_for: one command and one key for the whole pipeline.    *)
TakeKey(c) ==
    /\ client[c] = "claimed"
    /\ counter' = counter + 1
    /\ \E command \in Templates :
          LET key == NextKey(Strategy(c), counter, Keyspace) IN
          buffer' = [buffer EXCEPT ![c] = <<command, TagFor(c, key), key>>]
    /\ client' = [client EXCEPT ![c] = "sent"]
    /\ UNCHANGED <<run, sold, owner, known, migrated, store, missed, moved, processed>>

Command(c) == buffer[c][1]
Key(c) == Tail(buffer[c])    \* with its tag
OwnerOf(c) == owner[SlotOf[buffer[c][2]]]

(* The node executes the commands. *)
Execute(c) ==
    /\ client[c] = "sent"
    /\ OwnerOf(c) = NodeOf[c]
    /\ store' = IF Command(c) = "set" THEN store \cup {Key(c)} ELSE store
    /\ missed' = IF Command(c) = "get" /\ Key(c) \notin store THEN missed + 1 ELSE missed
    /\ processed' = processed + 1
    /\ client' = [client EXCEPT ![c] = "idle"]
    /\ UNCHANGED <<run, sold, counter, buffer, owner, known, migrated, moved>>

(* The node answers MOVED: the worker counts a response like any other.      *)
Moved(c) ==
    /\ client[c] = "sent"
    /\ OwnerOf(c) # NodeOf[c]
    /\ moved' = moved + 1
    /\ processed' = processed + 1
    /\ client' = [client EXCEPT ![c] = "idle"]
    /\ UNCHANGED <<run, sold, counter, buffer, owner, known, migrated, store, missed>>

(* A slot moves to another primary, with its keys. *)
Migrate ==
    /\ migrated < Migrations
    /\ migrated' = migrated + 1
    /\ \E slot \in Slots, to \in Primaries :
          owner[slot] # to /\ owner' = [owner EXCEPT ![slot] = to]
    /\ UNCHANGED <<run, sold, counter, client, buffer, known, store, missed, moved, processed>>

(* All workers have left.  The next run has new counters; another process    *)
(* reads the topology anew, the same one connects again with the old one.    *)
EndRun ==
    /\ run # "end"
    /\ sold * Batch >= Requests
    /\ \A c \in Clients : client[c] = "idle"
    /\ run' = IF run = "set" THEN Second ELSE "end"
    /\ sold' = 0
    /\ counter' = 0
    /\ known' = IF run = "set" /\ setup.restarts THEN owner ELSE known
    /\ UNCHANGED <<client, buffer, owner, migrated, store, missed, moved, processed>>

Next ==
    /\ \/ Migrate \/ EndRun
       \/ \E c \in Clients : Claim(c) \/ TakeKey(c) \/ Execute(c) \/ Moved(c)
    /\ UNCHANGED setup

Spec == Init /\ [][Next]_keyspaceVars

-----------------------------------------------------------------------------

(* "The key index within [0, keyspace_len)". *)
TypeOK ==
    /\ setup \in Setups
    /\ run \in {"set", "get", "mix", "end"}
    /\ sold \in Nat /\ counter \in Nat
    /\ client \in [Clients -> {"idle", "claimed", "sent"}]
    /\ \A c \in Clients : buffer[c] = <<>> \/ buffer[c] \in {"set", "get"} \X Tags \X (0 .. Keyspace - 1)
    /\ owner \in [Slots -> Primaries] /\ known \in [Slots -> Primaries]
    /\ migrated \in Nat
    /\ store \subseteq Tags \X (0 .. Keyspace - 1)
    /\ missed \in Nat /\ moved \in Nat /\ processed \in Nat

(* "GET the same 3M keys (100% hit rate guaranteed)": a run of no more       *)
(* requests than the SET run GETs only keys that exist, however the threads  *)
(* interleave in the two runs; it misses only keys whose SET was redirected. *)
(* Guaranteed it is only when all connections go to one node and all threads *)
(* iterate in the same way, in both runs, and the second run knows the slots *)
(* that the first one knew.                                                  *)
Alike ==
    /\ \A c, d \in Clients : /\ NodeOf[c] = NodeOf[d]
                             /\ StrategyOf[c] = StrategyOf[d]
                             /\ Second = "mix" => StrategyOf[c] = Plain(d)
    /\ known = setup.ownerOf
GetsHitWhenAlike == Alike /\ GetRequests <= SetRequests => missed <= moved

(* A sequential SET run of a whole keyspace leaves no key out, in whichever  *)
(* order the threads take and answer them, if none of them was redirected.   *)
SequentialCoversKeyspace ==
    /\ run # "set" /\ moved = 0
    /\ SetRequests >= Keyspace * Batch
    /\ \A c \in Clients : StrategyOf[c].kind = "sequential" /\ StrategyOf[c].within = <<>>
    => \A key \in 0 .. Keyspace - 1 : \E tag \in Tags : <<tag, key>> \in store

(* A batch is counted as processed without having been executed only if its  *)
(* connection is one to a replica, or its key's slot has moved since the     *)
(* process read the topology, or its node owns none of the candidates: not   *)
(* because of how the threads divide the keys, nor, in a second process, of  *)
(* what had moved before.                                                    *)
Excused(c) ==
    LET slot == SlotOf[buffer[c][2]]
        key == buffer[c][3]
    IN  \/ NodeOf[c] \notin Primaries
        \/ known[slot] # owner[slot]
        \/ \A i \in 1 .. Attempts : ~Owns(c, SlotOf[Candidate(key, i)])
CountedIsExecuted ==
    [][moved' # moved => \E c \in Clients : client'[c] # client[c] /\ Excused(c)]_keyspaceVars

=============================================================================
