-------------------------- MODULE RuntimeSettings --------------------------
(***************************************************************************)
(* The settings file: RuntimeConfigManager in src/config/runtime_config.rs *)
(* and its use in src/benchmark/orchestrator.rs.  Every entry is sent to   *)
(* every node with CONFIG SET, node by node; then every entry is read back *)
(* from every node.                                                        *)
(***************************************************************************)
EXTENDS Deployment

VARIABLES
    settings,       \* the value of each setting on each node
    entry,          \* the entry being sent to the node, or 0 before the connection
    applyFailed,    \* an entry has failed somewhere: total_failed > 0
    verified        \* what verify_runtime_config is going to answer

settingVars == <<settings, entry, applyFailed, verified>>

Entries == setup.entries
SettingKeys == {Entries[i].key : i \in DOMAIN Entries}

InitSettings ==
    /\ settings = [n \in Nodes |-> [k \in SettingKeys |-> "default"]]
    /\ entry = 0
    /\ applyFailed = FALSE
    /\ verified = TRUE

(* get_node_addresses: replicas too, and nodes that are not available. *)
PrimariesConfigured == IF clustered THEN AvailablePrimaries ELSE setup.seeds    \* mutant
ConfiguredNodes == IF clustered THEN setup.nodes ELSE setup.seeds

ThisNode == ConfiguredNodes[at]
ThisEntry == Entries[entry]

NextEntry ==
    IF entry < Len(Entries)
    THEN entry' = entry + 1 /\ UNCHANGED <<at, conn>>
    ELSE entry' = 0 /\ at' = at + 1 /\ conn' = NoNode

Start(phase) == pc = phase /\ entry = 0 /\ at <= Len(ConfiguredNodes)

(* The connection to a node, for apply_to_node and verify_on_node. *)
OpenNode(phase) ==
    /\ Start(phase) /\ ThisNode \in up
    /\ conn' = ThisNode /\ entry' = 1
    /\ UNCHANGED <<setup, pc, at, clustered, available, serverVars,
                   settings, applyFailed, verified>>

(* Without a connection all entries of the node have failed. *)
SkipNode(phase) ==
    /\ Start(phase) /\ ThisNode \notin up
    /\ at' = at + 1
    /\ applyFailed' = (applyFailed \/ phase = "apply")
    /\ verified' = (verified /\ phase # "verify")
    /\ UNCHANGED <<setup, pc, conn, clustered, available, serverVars, settings, entry>>

(* apply_config: CONFIG SET.  It fails if it is refused, or if the connection *)
(* is lost, with the command or after the server has executed it.             *)
Accepted == conn = ThisNode /\ <<ThisNode, ThisEntry.key>> \notin setup.refused

Applied == [settings EXCEPT ![ThisNode][ThisEntry.key] = ThisEntry.value]

ApplyEntry ==
    /\ pc = "apply" /\ entry > 0
    /\ IF conn = ThisNode
       THEN settings' = IF Accepted THEN Applied ELSE settings
       ELSE settings' \in {settings, Applied}
    /\ applyFailed' = (applyFailed \/ ~Accepted)
    /\ NextEntry
    /\ UNCHANGED <<setup, pc, clustered, available, serverVars, verified>>

ApplyDone ==
    /\ pc = "apply" /\ at > Len(ConfiguredNodes)
    /\ pc' = IF applyFailed THEN "failed" ELSE "verify"
    /\ at' = 1
    /\ UNCHANGED <<setup, conn, clustered, available, serverVars, settingVars>>

(* get_config and values_match; a lost connection is an error. *)
Matches == conn = ThisNode /\ settings[ThisNode][ThisEntry.key] = ThisEntry.value
LastEntryVerified == Matches    \* mutant
StillVerified == verified /\ Matches

VerifyEntry ==
    /\ pc = "verify" /\ entry > 0
    /\ verified' = StillVerified
    /\ NextEntry
    /\ UNCHANGED <<setup, pc, clustered, available, serverVars, settings, applyFailed>>

(* A mismatch is only a warning. *)
VerifyDone(next) ==
    /\ pc = "verify" /\ at > Len(ConfiguredNodes)
    /\ pc' = next /\ at' = 1
    /\ UNCHANGED <<setup, conn, clustered, available, serverVars, settingVars>>

ConfigureNext(next) ==
    \/ \E phase \in {"apply", "verify"} : OpenNode(phase) \/ SkipNode(phase)
    \/ ApplyEntry
    \/ ApplyDone
    \/ VerifyEntry
    \/ VerifyDone(next)

-----------------------------------------------------------------------------

KnownNodes == IF clustered THEN ToSet(setup.nodes) ELSE ToSet(setup.seeds)

(* What a file says of a key is the last entry it has for it: of its first   *)
(* so many entries, those in force on a node.                                *)
InForceUpTo(n, last) ==
    \A e \in 1 .. last :
        (\A j \in 1 .. last : Entries[j].key = Entries[e].key => j <= e) =>
            settings[n][Entries[e].key] = Entries[e].value

InForce == \A n \in KnownNodes : InForceUpTo(n, Len(Entries))
EachEntryInForce ==
    \A n \in KnownNodes, i \in DOMAIN Entries :
       settings[n][Entries[i].key] = Entries[i].value

Values == STRING \cup {"default"}
SettingsTypeOK ==
    /\ settings \in [Nodes -> [SettingKeys -> Values]]
    /\ entry \in 0..Len(Entries)
    /\ {applyFailed, verified} \subseteq BOOLEAN

=============================================================================
