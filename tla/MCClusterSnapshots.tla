------------------------ MODULE MCClusterSnapshots ------------------------
(* Two shards, one with a replica; the reply lists the replica first.        *)
EXTENDS ClusterSnapshots, TLC

MCNodes == {"a", "b", "c"}
MCSlots == 0 .. 3

Line(n, flags, primary, slots) ==
    [address |-> n, flags |-> flags, primary |-> primary, link |-> "connected",
     slots |-> slots, wellFormed |-> TRUE]

MCLines == <<Line("c", {"slave"}, "a", <<>>), Line("b", {"master"}, NoPrimary, <<2, 3>>),
             Line("a", {"myself", "master"}, NoPrimary, <<0, 1>>)>>

(* A primary without slots, whose replica is listed before it.               *)
MCEmptyPrimary == <<Line("c", {"slave", "noflags"}, "a", <<>>), Line("a", {"master"}, NoPrimary, <<>>),
                    Line("b", {"myself", "master"}, NoPrimary, <<3, 0, 1, 2>>)>>

Count(get, search) == "GET" :> get @@ "FT.SEARCH" :> search

MCRan == "a" :> Count(1, 0) @@ "b" :> Count(2, 1) @@ "c" :> Count(0, 0)

Setup(reply, from, followed) ==
    [lines |-> reply, addresses |-> <<"a", "b">>, readFrom |-> from,
     fields |-> followed, ran |-> MCRan]

MCSetups ==
    {Setup(MCLines, "all", DefaultInfoFields),
     Setup(MCLines, "primary", DefaultSearchInfoFields),
     Setup(MCLines, "all", DefaultSearchInfoFields),
     Setup(MCEmptyPrimary, "all", DefaultInfoFields),
     Setup(<<>>, "all", DefaultInfoFields)}

=============================================================================
