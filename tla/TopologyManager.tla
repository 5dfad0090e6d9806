-------------------------- MODULE TopologyManager --------------------------
(***************************************************************************)
(* The shared topology of src/cluster/topology_manager.rs: threads that    *)
(* are told MOVED refresh it, one at a time; redirected commands use       *)
(* connections kept in a cache.                                            *)
(*                                                                         *)
(* The cluster goes through a sequence of configurations, of which each    *)
(* server learns in its own time.  The threads that call the manager are   *)
(* external: they send a command to the node of a slot and follow what it  *)
(* answers.                                                                *)
(***************************************************************************)
EXTENDS Topology

CONSTANTS
    Threads,
    Replies,        \* the reply to CLUSTER NODES of each configuration, in turn
    SeedLists,      \* seed addresses to look at
    CutOffs,        \* sets of servers that an outage makes unreachable
    MaxOutages,     \* bound on the number of outages
    MaxVersion      \* the version is counted up to this

Configurations == DOMAIN Replies

ASSUME ManagerAssumption ==
    /\ Replies \in Seq(Seq(Lines))
    /\ Replies # <<>>
    /\ SeedLists \subseteq Seq(Nodes)
    /\ CutOffs \subseteq SUBSET Nodes
    /\ MaxOutages \in Nat /\ MaxVersion \in Nat \ {0}

VARIABLES
    seedAddresses,
    topology,       \* the configuration whose topology is held
    isRefreshing,
    lastUpdate,
    cache,          \* redirect_connections: the addresses with a connection
    pc,             \* per thread: where it is
    candidates,     \* per thread: the addresses its refresh has yet to try
    inSeeds,        \* per thread: these are seed addresses
    fetched,        \* per thread: the configuration it was told
    succeeded,      \* per thread: what its refresh returns
    failed,         \* per thread: the addresses that failed it; history
    target,         \* per thread: where it was redirected
    config,         \* the configuration of the cluster
    view,           \* the configuration each server knows
    up,
    outages

managerVars == <<seedAddresses, topology, isRefreshing, lastUpdate, cache>>
refreshVars == <<candidates, inSeeds, fetched, succeeded, failed>>
serverVars == <<config, view, up, outages>>
vars == <<managerVars, pc, refreshVars, target, serverVars>>

Topologies == [c \in Configurations |-> FromClusterNodes(Replies[c])]
Owner(c, s) == NodeForSlot(Topologies[c], s)

(* TopologyManager::new: the initial topology has been discovered before.   *)
Init ==
    /\ seedAddresses \in SeedLists
    /\ topology = 1 /\ isRefreshing = FALSE /\ lastUpdate = 1 /\ cache = {}
    /\ pc = [t \in Threads |-> "idle"]
    /\ candidates = [t \in Threads |-> <<>>]
    /\ inSeeds = [t \in Threads |-> FALSE]
    /\ fetched = [t \in Threads |-> 1]
    /\ succeeded = [t \in Threads |-> FALSE]
    /\ failed = [t \in Threads |-> {}]
    /\ target = [t \in Threads |-> NoPrimary]
    /\ config = 1 /\ view = [n \in Nodes |-> 1] /\ up = Nodes /\ outages = 0

-----------------------------------------------------------------------------
(* The servers.  A new configuration is known to some server first; the     *)
(* others learn of it.  An outage takes some servers away, until it is over.*)

Reconfigure(n) ==
    /\ n \in up /\ config + 1 \in Configurations
    /\ config' = config + 1
    /\ view' = [view EXCEPT ![n] = config + 1]
    /\ UNCHANGED <<managerVars, pc, refreshVars, target, up, outages>>

Learn(n) ==
    /\ n \in up /\ view[n] < config
    /\ view' = [view EXCEPT ![n] = config]
    /\ UNCHANGED <<managerVars, pc, refreshVars, target, config, up, outages>>

Fail(cutOff) ==
    /\ up = Nodes /\ outages < MaxOutages
    /\ up' = up \ cutOff /\ outages' = outages + 1
    /\ UNCHANGED <<managerVars, pc, refreshVars, target, config, view>>

Recover ==
    /\ up # Nodes
    /\ up' = Nodes
    /\ UNCHANGED <<managerVars, pc, refreshVars, target, config, view, outages>>

(* What server n makes of a command for slot s, by its own view.  An owner  *)
(* that is losing the slot may ask to follow it.                            *)
Answers(n, s) ==
    LET owner == Owner(view[n], s)
    IN  CASE owner = n /\ view[n] = config -> {[word |-> "OK", address |-> n]}
          [] owner = n /\ view[n] < config -> {[word |-> "OK", address |-> n],
                                              [word |-> "ASK", address |-> Owner(config, s)]}
          [] owner = NoPrimary -> {[word |-> "CLUSTERDOWN", address |-> n]}
          [] OTHER -> {[word |-> "MOVED", address |-> owner]}

-----------------------------------------------------------------------------
(* A thread that has nothing to do sends a command to the node that         *)
(* get_node_for_slot names.  RedirectInfo::parse: MOVED and ASK with an     *)
(* address are redirects, of which MOVED calls for a refresh, too.          *)

IsRedirect(answer) == answer.word \in {"MOVED", "ASK"} /\ answer.address # NoPrimary

Send(t, s) ==
    /\ pc[t] = "idle" /\ Owner(topology, s) \in up
    /\ \E answer \in Answers(Owner(topology, s), s) :
          /\ IsRedirect(answer)
          /\ target' = [target EXCEPT ![t] = answer.address]
          /\ pc' = [pc EXCEPT ![t] = IF answer.word = "ASK" THEN "redirect" ELSE "moved"]
    /\ UNCHANGED <<managerVars, refreshVars, serverVars>>

(* get_redirect_connection: a connection from the cache, else a new one.    *)
(* The cache is not locked while a connection is created.                   *)
UseCached(t) ==
    /\ pc[t] = "redirect" /\ target[t] \in cache
    /\ pc' = [pc EXCEPT ![t] = "idle"]
    /\ target' = [target EXCEPT ![t] = NoPrimary]
    /\ UNCHANGED <<managerVars, refreshVars, serverVars>>

MissCache(t) ==
    /\ pc[t] = "redirect" /\ target[t] \notin cache
    /\ pc' = [pc EXCEPT ![t] = "create"]
    /\ UNCHANGED <<managerVars, refreshVars, target, serverVars>>

CreateRedirect(t) ==
    /\ pc[t] = "create"
    /\ cache' = IF target[t] \in up THEN cache \cup {target[t]} ELSE cache
    /\ pc' = [pc EXCEPT ![t] = "idle"]
    /\ target' = [target EXCEPT ![t] = NoPrimary]
    /\ UNCHANGED <<seedAddresses, topology, isRefreshing, lastUpdate, refreshVars, serverVars>>

-----------------------------------------------------------------------------
(* refresh_topology, by one thread at a time.                               *)

RefreshUnguarded(t) ==      \* mutant
    /\ pc[t] = "moved"
    /\ isRefreshing' = TRUE
    /\ pc' = [pc EXCEPT ![t] = "fetch"]
    /\ candidates' = [candidates EXCEPT ![t] = seedAddresses]
    /\ inSeeds' = [inSeeds EXCEPT ![t] = TRUE]
    /\ failed' = [failed EXCEPT ![t] = {}]
    /\ UNCHANGED <<seedAddresses, topology, lastUpdate, cache, fetched, succeeded, target, serverVars>>
BeginRefresh(t) ==
    /\ pc[t] = "moved" /\ ~isRefreshing
    /\ isRefreshing' = TRUE
    /\ pc' = [pc EXCEPT ![t] = "fetch"]
    /\ candidates' = [candidates EXCEPT ![t] = seedAddresses]
    /\ inSeeds' = [inSeeds EXCEPT ![t] = TRUE]
    /\ failed' = [failed EXCEPT ![t] = {}]
    /\ UNCHANGED <<seedAddresses, topology, lastUpdate, cache, fetched, succeeded, target, serverVars>>

RefreshElsewhere(t) ==
    /\ pc[t] = "moved" /\ isRefreshing
    /\ pc' = [pc EXCEPT ![t] = "redirect"]
    /\ UNCHANGED <<managerVars, refreshVars, target, serverVars>>

(* do_refresh: fetch_topology_from_node of one address after the other.     *)
FetchSucceeds(t) ==
    /\ pc[t] = "fetch" /\ candidates[t] # <<>>
    /\ Head(candidates[t]) \in up
    /\ Topologies[view[Head(candidates[t])]] # NoTopology
    /\ fetched' = [fetched EXCEPT ![t] = view[Head(candidates[t])]]
    /\ pc' = [pc EXCEPT ![t] = "install"]
    /\ UNCHANGED <<managerVars, candidates, inSeeds, succeeded, failed, target, serverVars>>

FetchFails(t) ==
    /\ pc[t] = "fetch" /\ candidates[t] # <<>>
    /\ \/ Head(candidates[t]) \notin up
       \/ Topologies[view[Head(candidates[t])]] = NoTopology
    /\ candidates' = [candidates EXCEPT ![t] = Tail(@)]
    /\ failed' = [failed EXCEPT ![t] = @ \cup {Head(candidates[t])}]
    /\ UNCHANGED <<managerVars, pc, inSeeds, fetched, succeeded, target, serverVars>>

(* When all seeds have failed: the primaries held that are not among them.  *)
PrimariesHeld == Primaries(Topologies[topology])
OtherPrimariesOfSeeds == Kept(PrimariesHeld, ToSet(seedAddresses))     \* mutant
OtherPrimaries == Kept(PrimariesHeld, ToSet(PrimariesHeld) \ ToSet(seedAddresses))

TryPrimaries(t) ==
    /\ pc[t] = "fetch" /\ candidates[t] = <<>> /\ inSeeds[t]
    /\ candidates' = [candidates EXCEPT ![t] = OtherPrimaries]
    /\ inSeeds' = [inSeeds EXCEPT ![t] = FALSE]
    /\ UNCHANGED <<managerVars, pc, fetched, succeeded, failed, target, serverVars>>

(* The topology, its version and the cache change under the topology's lock. *)
Install(t) ==
    /\ pc[t] = "install"
    /\ topology' = fetched[t]
    /\ lastUpdate' = IF lastUpdate < MaxVersion THEN lastUpdate + 1 ELSE lastUpdate
    /\ cache' = {}
    /\ succeeded' = [succeeded EXCEPT ![t] = TRUE]
    /\ pc' = [pc EXCEPT ![t] = "release"]
    /\ UNCHANGED <<seedAddresses, isRefreshing, candidates, inSeeds, fetched, failed, target, serverVars>>

GiveUp(t) ==
    /\ pc[t] = "fetch" /\ candidates[t] = <<>> /\ ~inSeeds[t]
    /\ succeeded' = [succeeded EXCEPT ![t] = FALSE]
    /\ pc' = [pc EXCEPT ![t] = "release"]
    /\ UNCHANGED <<managerVars, candidates, inSeeds, fetched, failed, target, serverVars>>

(* The locals of a refresh are gone when it returns.                        *)
ReleaseAfterSuccess(t) ==       \* mutant
    /\ pc[t] = "release"
    /\ isRefreshing' = ~succeeded[t]
    /\ pc' = [pc EXCEPT ![t] = "redirect"]
    /\ UNCHANGED <<seedAddresses, topology, lastUpdate, cache, refreshVars, target, serverVars>>
Release(t) ==
    /\ pc[t] = "release"
    /\ isRefreshing' = FALSE
    /\ pc' = [pc EXCEPT ![t] = "redirect"]
    /\ failed' = [failed EXCEPT ![t] = {}]
    /\ fetched' = [fetched EXCEPT ![t] = 1]
    /\ candidates' = [candidates EXCEPT ![t] = <<>>]
    /\ inSeeds' = [inSeeds EXCEPT ![t] = FALSE]
    /\ succeeded' = [succeeded EXCEPT ![t] = FALSE]
    /\ UNCHANGED <<seedAddresses, topology, lastUpdate, cache, target, serverVars>>

-----------------------------------------------------------------------------

Refresh(t) ==
    \/ BeginRefresh(t) \/ RefreshElsewhere(t)
    \/ FetchSucceeds(t) \/ FetchFails(t) \/ TryPrimaries(t)
    \/ Install(t) \/ GiveUp(t) \/ Release(t)

Call(t) == Refresh(t) \/ UseCached(t) \/ MissCache(t) \/ CreateRedirect(t)

Servers ==
    \/ \E n \in Nodes : Reconfigure(n) \/ Learn(n)
    \/ \E cutOff \in CutOffs : Fail(cutOff)
    \/ Recover

Next ==
    \/ \E t \in Threads : Call(t) \/ \E s \in Slots : Send(t, s)
    \/ Servers

Spec == Init /\ [][Next]_vars

(* A call returns: its thread keeps running, connecting and CLUSTER NODES   *)
(* have timeouts, and locks are held for a moment only.  A thread goes on   *)
(* sending commands for every slot.  Servers owe nothing.                   *)
FairSpec ==
    /\ Spec
    /\ \A t \in Threads : WF_vars(Call(t))
    /\ \A t \in Threads, s \in Slots : SF_vars(Send(t, s))

-----------------------------------------------------------------------------

Refreshing == {"fetch", "install", "release"}

TypeOK ==
    /\ seedAddresses \in SeedLists
    /\ topology \in Configurations /\ isRefreshing \in BOOLEAN
    /\ lastUpdate \in 1 .. MaxVersion /\ cache \subseteq Nodes
    /\ pc \in [Threads -> {"idle", "moved", "redirect", "create"} \cup Refreshing]
    /\ fetched \in [Threads -> Configurations]
    /\ inSeeds \in [Threads -> BOOLEAN] /\ succeeded \in [Threads -> BOOLEAN]
    /\ config \in Configurations /\ view \in [Nodes -> Configurations]
    /\ up \subseteq Nodes /\ outages \in 0 .. MaxOutages

(* At most one thread is refreshing, and the flag tells: a thread that is   *)
(* turned away may rely on another one being at it.                         *)
OneRefreshAtATime ==
    /\ \A t, u \in Threads : (pc[t] \in Refreshing /\ pc[u] \in Refreshing) => t = u
    /\ isRefreshing <=> \E t \in Threads : pc[t] \in Refreshing

(* A refresh fails only after every seed and every primary of the topology  *)
(* that is held has failed it.                                              *)
FailsOnlyWhenCutOff ==
    \A t \in Threads :
        (pc[t] = "release" /\ ~succeeded[t]) =>
            ToSet(seedAddresses) \cup ToSet(PrimariesHeld) \subseteq failed[t]

(* Commands sent to the wrong node repair the routing: once every server    *)
(* is up and knows the configuration, whatever failed before, the topology  *)
(* held is in the end the current one, or routes every slot alike.          *)
Settled == up = Nodes /\ \A n \in Nodes : view[n] = config
RoutesRight == \A s \in Slots : Owner(topology, s) = Owner(config, s)
RoutingIsRepaired == <>[]Settled => <>[]RoutesRight

=============================================================================
