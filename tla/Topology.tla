------------------------------ MODULE Topology ------------------------------
(***************************************************************************)
(* What the program makes of a CLUSTER NODES reply: src/cluster/node.rs    *)
(* for its lines, ClusterTopology of src/cluster/topology.rs for the whole.*)
(* Operators only; a topology is a record that its users keep.             *)
(*                                                                         *)
(* A line says: address, id (the address stands for it), flags, primary of *)
(* a replica or "none", link, slots in the order listed (without those in  *)
(* brackets), wellFormed (at least eight words and an address).            *)
(***************************************************************************)
EXTENDS Naturals, SequencesExt, Lists

CONSTANTS
    Nodes,      \* addresses
    Slots

NoSlots == 16384        \* sorts behind every slot: u16::MAX in the code
NoPrimary == "none"
Unknown == 0

ASSUME TopologyAssumption == Slots \subseteq 0 .. NoSlots - 1 /\ NoPrimary \notin Nodes

Lines == [address : Nodes, flags : SUBSET STRING, primary : Nodes \cup {NoPrimary},
          link : STRING, slots : Seq(Slots), wellFormed : BOOLEAN]

(* parse_cluster_node_line: a line that is too short or has no address is   *)
(* dropped; slots count for a primary only, those being migrated do not.    *)
Role(line) ==
    CASE "master" \in line.flags -> "primary"
      [] "slave" \in line.flags \/ "replica" \in line.flags -> "replica"
      [] OTHER -> "other"

ParseLine(line) ==
    [address |-> line.address, role |-> Role(line), flags |-> line.flags,
     primary |-> IF Role(line) = "replica" THEN line.primary ELSE NoPrimary,
     slots |-> IF Role(line) = "primary" THEN line.slots ELSE <<>>,
     connected |-> line.link = "connected"]

ParseLines(lines) ==
    LET wellFormed == Kept(lines, {line \in ToSet(lines) : line.wellFormed})
    IN  [i \in DOMAIN wellFormed |-> ParseLine(wellFormed[i])]

IsAvailable(node) == node.connected /\ node.flags \cap {"fail", "handshake"} = {}

-----------------------------------------------------------------------------
(* from_cluster_nodes.  The last primary that lists a slot gets it.         *)

PrimariesOf(nodes) == {i \in DOMAIN nodes : nodes[i].role = "primary"}

SlotOwner(nodes, s) ==
    LET claim == {i \in PrimariesOf(nodes) : s \in ToSet(nodes[i].slots)}
    IN  IF claim = {} THEN Unknown ELSE Max(claim)

ReplicasBehind(nodes, p) == {i \in DOMAIN nodes : nodes[i].role = "replica" /\ i = p + 1}  \* mutant
ReplicasOf(nodes, p) ==
    {i \in DOMAIN nodes : nodes[i].role = "replica" /\ nodes[i].primary = nodes[p].address}

(* shard_id: shards are numbered in the order of their first slots, primaries *)
(* without slots last, by a stable sort.                                      *)
FirstSlot(node) == IF node.slots = <<>> THEN NoSlots ELSE Head(node.slots)
SortsBefore(nodes, p, q) ==
    \/ FirstSlot(nodes[p]) < FirstSlot(nodes[q])
    \/ FirstSlot(nodes[p]) = FirstSlot(nodes[q]) /\ p < q
ShardOf(nodes, p) == 1 + Cardinality({q \in PrimariesOf(nodes) : SortsBefore(nodes, q, p)})

(* shard_index: 1 for the primary, then its replicas in the order listed.   *)
NoShard == [shard |-> 0, index |-> 0]
ShardPlace(nodes, p, i) ==
    [shard |-> ShardOf(nodes, p),
     index |-> IF i = p THEN 1 ELSE 1 + Cardinality({j \in ReplicasOf(nodes, p) : j <= i})]
ShardPlaces(nodes) ==
    LET heads(i) == {p \in PrimariesOf(nodes) : i = p \/ i \in ReplicasOf(nodes, p)}
    IN  [i \in DOMAIN nodes |->
            IF heads(i) = {} THEN NoShard ELSE ShardPlace(nodes, CHOOSE p \in heads(i) : TRUE, i)]

(* Without a primary the reply is refused.                                  *)
NoTopology == [nodes |-> <<>>, slotMap |-> [s \in Slots |-> Unknown], place |-> <<>>]
FromClusterNodes(lines) ==
    LET nodes == ParseLines(lines)
    IN  IF PrimariesOf(nodes) = {}
        THEN NoTopology
        ELSE [nodes |-> nodes,
              slotMap |-> [s \in Slots |-> SlotOwner(nodes, s)],
              place |-> ShardPlaces(nodes)]

-----------------------------------------------------------------------------
(* Queries of a topology t. *)

AddressOf(t, i) == t.nodes[i].address

(* get_node_for_slot: the address, or none when no primary has the slot.    *)
NodeForSlot(t, s) == IF t.slotMap[s] = Unknown THEN NoPrimary ELSE AddressOf(t, t.slotMap[s])

(* primaries(), in the order of the reply.                                  *)
Primaries(t) ==
    LET primaries == Kept(t.nodes, {node \in ToSet(t.nodes) : node.role = "primary"})
    IN  [i \in DOMAIN primaries |-> primaries[i].address]

(* select_nodes: the addresses of the available nodes that are read from.   *)
SelectNodes(t, readFrom) ==
    LET available(roles) ==
            LET chosen == Kept(t.nodes, {node \in ToSet(t.nodes) : node.role \in roles /\ IsAvailable(node)})
            IN  [i \in DOMAIN chosen |-> chosen[i].address]
        primaries == available({"primary"})
        replicas == available({"replica"})
    IN  CASE readFrom = "primary" -> primaries
          [] readFrom = "preferReplica" -> IF replicas = <<>> THEN primaries ELSE replicas
          [] readFrom = "all" -> available({"primary", "replica", "other"})

(* get_node_by_address, and display_name: the shard, the place in it and    *)
(* the role; else a shortened address.                                      *)
NodesAt(t, address) == {i \in DOMAIN t.nodes : AddressOf(t, i) = address}
DisplayName(t, address) ==
    IF NodesAt(t, address) = {} THEN <<0, 0, address>>
    ELSE LET i == Min(NodesAt(t, address))
         IN  IF t.place[i] = NoShard THEN <<0, 0, address>>
             ELSE <<t.place[i].shard, t.place[i].index, t.nodes[i].role>>

=============================================================================
