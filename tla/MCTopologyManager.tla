------------------------- MODULE MCTopologyManager -------------------------
(* A shard with a replica and a shard without; the replica takes over, then  *)
(* a slot moves.  Nodes that failed or are being met are in the replies.     *)
EXTENDS TopologyManager

MCNodes == {"a", "b", "c"}
MCThreads == {1, 2}
MCSlots == 0 .. 1

Line(n, marks, primary, state, held) ==
    [address |-> n, flags |-> marks, primary |-> primary, link |-> state,
     slots |-> held, wellFormed |-> TRUE]

MCReplies ==
    <<(* as it was discovered *)
      <<Line("a", {"myself", "master"}, NoPrimary, "connected", <<0>>),
        Line("b", {"master"}, NoPrimary, "connected", <<1>>),
        Line("c", {"slave"}, "a", "connected", <<>>)>>,
      (* c has taken over from a *)
      <<Line("a", {"master", "fail"}, NoPrimary, "disconnected", <<>>),
        Line("b", {"master"}, NoPrimary, "connected", <<1>>),
        Line("c", {"myself", "master"}, NoPrimary, "connected", <<0>>)>>,
      (* slot 1 has moved to a *)
      <<Line("b", {"slave"}, "a", "connected", <<>>),
        Line("c", {"myself", "master"}, NoPrimary, "connected", <<0>>),
        Line("a", {"master"}, NoPrimary, "connected", <<1>>)>>>>

MCSeedLists == {<<"a">>, <<"c", "b">>}

MCCutOffs == {{"a"}, MCNodes}

=============================================================================
