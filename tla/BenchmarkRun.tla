---------------------------- MODULE BenchmarkRun ----------------------------
(***************************************************************************)
(* Orchestrator::run_test_event and run_parallel_test (src/benchmark/      *)
(* orchestrator.rs) around the event workers: the main thread spawns them, *)
(* and for a single test a detached thread that reports progress, joins    *)
(* the workers, signals shutdown and merges their results.                 *)
(***************************************************************************)
EXTENDS EventWorker

CONSTANT ReportTotal    \* effective_requests(), which the reporter counts to

VARIABLES
    parallel,   \* the test is a weighted mix of workloads
    main,       \* the orchestrator: "joining", "joined" or "merged"
    reporter,   \* the progress thread: "running" or "gone"
    merged      \* <<total_requests, error_count>> of merge_event_results

runVars == <<workerVars, parallel, main, reporter, merged>>

TestInit == ~parallel /\ reporter = "running"

(* run_parallel_test is its own copy of run_test_event, without a reporter.  *)
ParallelInit == parallel /\ reporter = "gone"

Init ==
    /\ WorkerInit
    /\ parallel \in BOOLEAN
    /\ TestInit \/ ParallelInit
    /\ main = "joining"
    /\ merged = <<>>

(* h.join() for every worker, and the snapshots after the run. *)
Join ==
    /\ main = "joining"
    /\ \A w \in Workers : pc[w] \in {"done", "failed"}
    /\ main' = "joined"
    /\ UNCHANGED <<workerVars, parallel, reporter, merged>>

(* signal_shutdown and merge_event_results. *)
Merge ==
    /\ main = "joined" /\ ~parallel
    /\ main' = "merged"
    /\ shutdown' = TRUE
    /\ merged' = <<SumOver(processed), SumOver(errors)>>
    /\ UNCHANGED <<counterVars, clientVars, tallyVars, parallel, reporter>>

(* Of a mix, the results are merged as they are joined, and nobody is told.  *)
MergeParallel ==
    /\ main = "joined" /\ parallel
    /\ main' = "merged"
    /\ merged' = <<SumOver(processed), SumOver(errors)>>
    /\ UNCHANGED <<workerVars, parallel, reporter>>

(* report_progress: it also stops by itself, in count mode when everything   *)
(* asked for has finished, in duration mode on the clock.                    *)
ReporterEnds ==
    /\ reporter = "running"
    /\ \/ shutdown
       \/ countMode /\ finished >= ReportTotal
       \/ expired
    /\ reporter' = "gone"
    /\ UNCHANGED <<workerVars, parallel, main, merged>>

Next ==
    \/ (Environment \/ \E w \in Workers : WorkerStep(w))
          /\ UNCHANGED <<parallel, main, reporter, merged>>
    \/ Join \/ Merge \/ MergeParallel \/ ReporterEnds

Spec == Init /\ [][Next]_runVars

(* Threads keep running and the clock advances.  Nothing is assumed of       *)
(* errors, nor of the servers: the event loop gives no response a deadline.  *)
Fairness ==
    /\ \A w \in Workers :
          WF_runVars(WorkerStep(w) /\ UNCHANGED <<parallel, main, reporter, merged>>)
    /\ WF_runVars(Join) /\ WF_runVars(Merge \/ MergeParallel) /\ WF_runVars(ReporterEnds)
    /\ WF_runVars(Tick /\ UNCHANGED <<parallel, main, reporter, merged>>)

FairSpec == Spec /\ Fairness

-----------------------------------------------------------------------------

(* A server that holds a connection open reads what was written to it and    *)
(* answers.                                                                  *)
ServersAnswer ==
    \A c \in Clients :
        WF_runVars((Unblock(c) \/ Answer(c)) /\ UNCHANGED <<parallel, main, reporter, merged>>)

(* A thread that could connect goes on issuing after any failure: outside of *)
(* a cluster every client does, in a cluster only one that owns a slot.      *)
(* Nothing is left to issue for when no thread could connect.                *)
SomeoneGoesOn ==
    \/ \A w \in Workers : pc[w] = "failed"
    \/ \E w \in Workers :
          /\ pc[w] # "failed"
          /\ \E c \in ToSet(ClientsOf[w]) : Cluster => c \in SlotOwners

(* The run ends: the results are merged and the progress thread is gone.  A  *)
(* run for a time always does, even when servers never answer and clients    *)
(* are lost, because the loop looks at the clock between polls.  A run for a *)
(* count needs the answers, and a thread with a client of a primary: threads *)
(* of replicas' clients lose each client at its first failure, and then wait *)
(* for each other to issue what is left.                                     *)
RunTerminates ==
    (~countMode \/ (ServersAnswer /\ <>[]SomeoneGoesOn))
    => <>(main = "merged" /\ reporter = "gone")

(* Batches claimed and not yet answered or failed. *)
InFlight ==
    Cardinality({c \in Clients : Busy(c)})
    + Cardinality({w \in Workers : cur[w] # NoClient /\ pc[w] # "answered"
                                   /\ claim[w] = "granted"})

(* Errors that stand for a batch; a worker that could not connect has one    *)
(* error of its own.                                                         *)
BatchErrors == SumOver([w \in Workers |-> IF pc[w] = "failed" THEN 0 ELSE errors[w]])
ConnectErrors == Cardinality({w \in Workers : pc[w] = "failed"})

(* The threads, queues and counters together do what a run promises: every   *)
(* batch that was granted is answered or fails exactly once.                 *)
Load == INSTANCE LoadRun WITH
    inFlight <- InFlight,
    succeeded <- finished,
    failed <- BatchErrors,
    report <- IF main = "merged" THEN <<merged[1], merged[2] - ConnectErrors>> ELSE <<>>

ImplementsLoadRun == Load!Spec

=============================================================================
