--------------------------- MODULE SessionProofs ---------------------------
(***************************************************************************)
(* Proofs about Session for any nodes, seeds and settings files, duplicate *)
(* nodes and duplicate keys included: what apply and verify have done to   *)
(* the node and the entry they have reached, and what that leaves when     *)
(* they are through.                                                       *)
(***************************************************************************)
EXTENDS Session, SequenceTheorems, WellFoundedInduction, TLAPS

Discovering == {"start", "discover"}
Configuring == {"apply", "verify"}

(* Where the loops over nodes and entries are.                               *)
LoopsOK ==
    /\ setup \in Setups
    /\ settings \in [Nodes -> [SettingKeys -> Values]]
    /\ pc \in Discovering => at = 1 /\ entry = 0
    /\ pc \in Configuring =>
          /\ Entries # <<>>
          /\ at \in 1 .. Len(ConfiguredNodes) + 1
          /\ entry \in 0 .. Len(Entries)
          /\ entry > 0 => at <= Len(ConfiguredNodes)

(* The nodes that apply_config has passed are configured, unless the one it  *)
(* is at is among them for a second time; that one has the entries so far.   *)
AppliedSoFar ==
    pc = "apply" /\ ~applyFailed =>
        /\ \A i \in 1 .. Len(ConfiguredNodes) :
              (i < at /\ (entry = 0 \/ ConfiguredNodes[i] # ConfiguredNodes[at])) =>
                  InForceUpTo(ConfiguredNodes[i], Len(Entries))
        /\ entry > 0 => InForceUpTo(ConfiguredNodes[at], entry - 1)

(* Without a warning, every entry read back so far was the one in the file.  *)
VerifiedSoFar ==
    pc = "verify" /\ verified =>
        \A i \in 1 .. Len(ConfiguredNodes), e \in 1 .. Len(Entries) :
            (i < at \/ (i = at /\ e < entry)) =>
                settings[ConfiguredNodes[i]][Entries[e].key] = Entries[e].value

Configured ==
    pc \notin Discovering \cup {"apply", "failed"} /\ ~setup.optimize =>
        /\ InForce
        /\ pc # "verify" /\ verified => EachEntryInForce

SInv == LoopsOK /\ AppliedSoFar /\ VerifiedSoFar /\ Configured

settled == <<setup, clustered, settingVars>>

-----------------------------------------------------------------------------

(* The nodes that are configured are nodes, and the entries have keys.       *)
LEMMA NodesAndEntries ==
    ASSUME setup \in Setups
    PROVE  /\ ConfiguredNodes \in Seq(Nodes)
           /\ Entries \in Seq([key : STRING, value : STRING])
           /\ Len(ConfiguredNodes) \in Nat /\ Len(Entries) \in Nat
           /\ \A i \in 1 .. Len(ConfiguredNodes) : ConfiguredNodes[i] \in Nodes
           /\ \A e \in 1 .. Len(Entries) : /\ Entries[e].key \in SettingKeys
                                           /\ Entries[e].value \in STRING
           /\ KnownNodes = {ConfiguredNodes[i] : i \in 1 .. Len(ConfiguredNodes)}
           /\ DOMAIN Entries = 1 .. Len(Entries)
<1>1. ConfiguredNodes \in Seq(Nodes) /\ Entries \in Seq([key : STRING, value : STRING])
  BY DeploymentAssumption DEF ConfiguredNodes, Entries
<1>2. DOMAIN Entries = 1 .. Len(Entries) /\ Len(ConfiguredNodes) \in Nat /\ Len(Entries) \in Nat
  BY <1>1
<1>3. \A i \in 1 .. Len(ConfiguredNodes) : ConfiguredNodes[i] \in Nodes
  BY <1>1
<1>4. \A e \in 1 .. Len(Entries) : Entries[e] \in [key : STRING, value : STRING]
  BY <1>1, ElementOfSeq, Zenon
<1>5. \A e \in 1 .. Len(Entries) : Entries[e].key \in SettingKeys
  BY <1>2 DEF SettingKeys
<1>6. KnownNodes = {ConfiguredNodes[i] : i \in 1 .. Len(ConfiguredNodes)}
  <2>1. KnownNodes = ToSet(ConfiguredNodes)
    BY DEF KnownNodes, ConfiguredNodes
  <2>2. DOMAIN ConfiguredNodes = 1 .. Len(ConfiguredNodes)
    BY <1>1
  <2>3. QED
    BY <2>1, <2>2 DEF ToSet
<1>7. QED
  BY <1>1, <1>2, <1>3, <1>4, <1>5, <1>6

LEMMA InitSInv == SessionInit => SInv
<1> SUFFICES ASSUME SessionInit PROVE SInv
  OBVIOUS
<1>1. setup \in Setups /\ pc = "start" /\ at = 1 /\ entry = 0
      /\ settings = [n \in Nodes |-> [k \in SettingKeys |-> "default"]]
  BY DEF SessionInit, Init, InitSettings
<1>2. "default" \in Values
  BY DEF Values
<1>3. [k \in SettingKeys |-> "default"] \in [SettingKeys -> Values]
  BY <1>2
<1>4. settings \in [Nodes -> [SettingKeys -> Values]]
  BY <1>1, <1>3
<1>5. QED
  BY <1>1, <1>4
  DEF SInv, LoopsOK, AppliedSoFar, VerifiedSoFar, Configured, Discovering, Configuring

(* Servers do not touch what the main thread knows of settings.              *)
LEMMA ServersKeepSInv ==
    ASSUME SInv, UNCHANGED settled, UNCHANGED <<pc, at>>
    PROVE  SInv'
<1>1. UNCHANGED <<setup, clustered, settings, entry, applyFailed, verified, pc, at>>
  BY DEF settled, settingVars
<1>2. /\ ConfiguredNodes' = ConfiguredNodes /\ Entries' = Entries /\ SettingKeys' = SettingKeys
      /\ KnownNodes' = KnownNodes
  BY <1>1 DEF ConfiguredNodes, Entries, SettingKeys, KnownNodes
<1>3. \A n, last : InForceUpTo(n, last)' <=> InForceUpTo(n, last)
  BY <1>1, <1>2 DEF InForceUpTo
<1>4. LoopsOK'
  BY <1>1, <1>2 DEF SInv, LoopsOK
<1>5. AppliedSoFar'
  BY <1>1, <1>2, <1>3 DEF SInv, AppliedSoFar
<1>6. VerifiedSoFar'
  BY <1>1, <1>2 DEF SInv, VerifiedSoFar
<1>7. Configured'
  BY <1>1, <1>2, <1>3 DEF SInv, Configured, InForce, EachEntryInForce
<1>8. QED
  BY <1>4, <1>5, <1>6, <1>7 DEF SInv

(* Once the settings are behind it, the main thread leaves them alone.       *)
LEMMA LaterKeepsSInv ==
    ASSUME SInv, UNCHANGED settled,
           pc \notin Discovering \cup Configuring \cup {"failed"},
           pc' \notin Discovering \cup Configuring
    PROVE  SInv'
<1>1. LoopsOK'
  BY DEF SInv, LoopsOK, settled, settingVars, SettingKeys, Entries
<1>2. AppliedSoFar' /\ VerifiedSoFar'
  BY DEF AppliedSoFar, VerifiedSoFar, Configuring
<1>3. Configured'
  BY DEF SInv, Configured, Discovering, Configuring, settled, settingVars,
         InForce, InForceUpTo, EachEntryInForce, KnownNodes, ConfiguredNodes, Entries
<1>4. QED
  BY <1>1, <1>2, <1>3 DEF SInv

(* A process that gives up promises nothing.                                 *)
LEMMA FailureKeepsSInv ==
    ASSUME SInv, pc' = "failed", UNCHANGED setup,
           settings' \in [Nodes -> [SettingKeys -> Values]]
    PROVE  SInv'
<1>1. SettingKeys' = SettingKeys
  BY DEF SettingKeys, Entries
<1>2. QED
  BY <1>1 DEF SInv, LoopsOK, AppliedSoFar, VerifiedSoFar, Configured, Discovering, Configuring

-----------------------------------------------------------------------------
(* Discovery and what follows it.                                            *)

LEMMA DiscoveryKeepsSInv ==
    ASSUME SInv, Connect \/ DiscoverCluster(AfterDiscovery) \/ DiscoverStandalone(AfterDiscovery),
           UNCHANGED settingVars
    PROVE  SInv'
<1>0. setup \in Setups /\ setup' = setup /\ settings' = settings /\ SettingKeys' = SettingKeys
      /\ settings \in [Nodes -> [SettingKeys -> Values]] /\ Entries' = Entries
  BY DEF SInv, LoopsOK, Connect, DiscoverCluster, DiscoverStandalone, settingVars, SettingKeys, Entries
<1>1. pc \in Discovering /\ at = 1 /\ entry = 0 /\ at' = 1 /\ entry' = 0
  BY DEF SInv, LoopsOK, Connect, DiscoverCluster, DiscoverStandalone, Discovering, settingVars
<1>2. pc' \in {"discover", "failed", "configured", "apply"}
  BY DEF Connect, DiscoverCluster, DiscoverStandalone, AfterDiscovery
<1>3. CASE pc' = "failed"
  BY <1>0, <1>3, FailureKeepsSInv
<1>4. CASE pc' = "discover"
  BY <1>0, <1>1, <1>4
  DEF SInv, LoopsOK, AppliedSoFar, VerifiedSoFar, Configured, Discovering, Configuring
<1>5. CASE pc' = "configured"
  <2>1. setup.optimize \/ Entries = <<>>
    BY <1>5 DEF Connect, DiscoverCluster, DiscoverStandalone, AfterDiscovery
  <2>2. Entries = <<>> => InForce' /\ EachEntryInForce'
    BY <1>0 DEF InForce, InForceUpTo, EachEntryInForce
  <2>3. QED
    BY <1>0, <1>5, <2>1, <2>2
    DEF SInv, LoopsOK, AppliedSoFar, VerifiedSoFar, Configured, Discovering, Configuring
<1>6. CASE pc' = "apply"
  <2>1. Entries # <<>>
    BY <1>6 DEF Connect, DiscoverCluster, DiscoverStandalone, AfterDiscovery
  <2>2. Len(ConfiguredNodes') \in Nat /\ Len(Entries') \in Nat
    BY <1>0, NodesAndEntries, DeploymentAssumption DEF ConfiguredNodes, Entries
  <2>3. LoopsOK'
    BY <1>0, <1>1, <1>6, <2>1, <2>2 DEF LoopsOK, Discovering, Configuring
  <2>4. AppliedSoFar'
    BY <1>1, <2>2 DEF AppliedSoFar
  <2>5. QED
    BY <1>6, <2>3, <2>4 DEF SInv, VerifiedSoFar, Configured
<1>7. QED
  BY <1>2, <1>3, <1>4, <1>5, <1>6

-----------------------------------------------------------------------------
(* apply_config and verify_runtime_config.                                   *)

LEMMA OpenNodeKeepsSInv ==
    ASSUME SInv, NEW phase \in Configuring, OpenNode(phase)
    PROVE  SInv'
<1>0. setup \in Setups /\ Len(Entries) \in Nat /\ Len(ConfiguredNodes) \in Nat
  BY NodesAndEntries DEF SInv, LoopsOK
<1>1. /\ UNCHANGED <<setup, pc, at, clustered, settings, applyFailed, verified>>
      /\ entry = 0 /\ entry' = 1 /\ pc = phase /\ at <= Len(ConfiguredNodes)
  BY DEF OpenNode, Start
<1>2. Entries # <<>> /\ Len(Entries) >= 1 /\ at \in 1 .. Len(ConfiguredNodes)
  BY <1>0, <1>1, NodesAndEntries DEF SInv, LoopsOK, Configuring
<1>3. ConfiguredNodes' = ConfiguredNodes /\ Entries' = Entries /\ SettingKeys' = SettingKeys
  BY <1>1 DEF ConfiguredNodes, Entries, SettingKeys
<1>4. \A n, last : InForceUpTo(n, last)' <=> InForceUpTo(n, last)
  BY <1>1, <1>3 DEF InForceUpTo
<1>5. LoopsOK'
  BY <1>0, <1>1, <1>2, <1>3 DEF SInv, LoopsOK, Discovering, Configuring
<1>6. AppliedSoFar'
  <2>1. InForceUpTo(ConfiguredNodes[at], 0)
    BY DEF InForceUpTo
  <2>2. QED
    BY <1>0, <1>1, <1>3, <1>4, <2>1 DEF SInv, AppliedSoFar
<1>7. VerifiedSoFar'
  BY <1>0, <1>1, <1>3 DEF SInv, VerifiedSoFar
<1>8. Configured'
  BY <1>1, <1>3, <1>4 DEF SInv, Configured, InForce, EachEntryInForce, KnownNodes
<1>9. QED
  BY <1>5, <1>6, <1>7, <1>8 DEF SInv

LEMMA SkipNodeKeepsSInv ==
    ASSUME SInv, NEW phase \in Configuring, SkipNode(phase)
    PROVE  SInv'
<1>0. setup \in Setups /\ Len(Entries) \in Nat /\ Len(ConfiguredNodes) \in Nat
  BY NodesAndEntries DEF SInv, LoopsOK
<1>1. /\ UNCHANGED <<setup, pc, clustered, settings, entry>>
      /\ at' = at + 1 /\ entry = 0 /\ pc = phase /\ at <= Len(ConfiguredNodes)
      /\ phase = "apply" => applyFailed'
      /\ phase = "verify" => ~verified'
  BY DEF SkipNode, Start
<1>3. ConfiguredNodes' = ConfiguredNodes /\ Entries' = Entries /\ SettingKeys' = SettingKeys
  BY <1>1 DEF ConfiguredNodes, Entries, SettingKeys
<1>4. \A n, last : InForceUpTo(n, last)' <=> InForceUpTo(n, last)
  BY <1>1, <1>3 DEF InForceUpTo
<1>5. LoopsOK'
  BY <1>0, <1>1, <1>3 DEF SInv, LoopsOK, Discovering, Configuring
<1>6. AppliedSoFar' /\ VerifiedSoFar'
  BY <1>1 DEF AppliedSoFar, VerifiedSoFar
<1>7. Configured'
  BY <1>1, <1>3, <1>4 DEF SInv, Configured, InForce, KnownNodes, Configuring
<1>8. QED
  BY <1>5, <1>6, <1>7 DEF SInv

(* The next entry of the node, or the first of the next one.                 *)
LEMMA NextEntryMoves ==
    ASSUME NEW last \in Nat, last = Len(Entries), NEW nodes \in Nat, nodes = Len(ConfiguredNodes),
           at \in 1 .. nodes, entry \in 1 .. last, NextEntry
    PROVE  \/ at' = at /\ entry' = entry + 1 /\ entry' \in 1 .. last
           \/ at' = at + 1 /\ entry' = 0 /\ entry = last
BY DEF NextEntry

LEMMA ApplyEntryKeepsSInv ==
    ASSUME SInv, ApplyEntry
    PROVE  SInv'
<1> DEFINE N == ConfiguredNodes
           last == Len(Entries)
           key == Entries[entry].key
           value == Entries[entry].value
           NowUpTo(n, l) ==
             \A e \in 1 .. l : (\A j \in 1 .. l : Entries[j].key = Entries[e].key => j <= e) =>
                                 settings'[n][Entries[e].key] = Entries[e].value
<1>0. /\ setup \in Setups /\ last \in Nat /\ Len(N) \in Nat
      /\ \A i \in 1 .. Len(N) : N[i] \in Nodes
  BY NodesAndEntries DEF SInv, LoopsOK
<1>1. /\ pc = "apply" /\ pc' = "apply" /\ UNCHANGED <<setup, clustered, verified>>
      /\ entry > 0 /\ NextEntry
  BY DEF ApplyEntry
<1>2. /\ at \in 1 .. Len(N) /\ entry \in 1 .. last /\ Entries # <<>>
      /\ settings \in [Nodes -> [SettingKeys -> Values]]
  BY <1>0, <1>1 DEF SInv, LoopsOK, Configuring
<1>3. N' = N /\ Entries' = Entries /\ SettingKeys' = SettingKeys
  BY <1>1 DEF ConfiguredNodes, Entries, SettingKeys
<1>4. N[at] \in Nodes /\ key \in SettingKeys /\ value \in Values
  BY <1>0, <1>2, NodesAndEntries DEF Values
<1>5. /\ Applied = [settings EXCEPT ![N[at]][key] = value]
      /\ Applied \in [Nodes -> [SettingKeys -> Values]]
  BY <1>2, <1>4 DEF Applied, ThisNode, ThisEntry
<1>6. settings' \in {settings, Applied}
  BY DEF ApplyEntry
<1>7. \/ at' = at /\ entry' = entry + 1 /\ entry' \in 1 .. last
      \/ at' = at + 1 /\ entry' = 0 /\ entry = last
  BY <1>0, <1>1, <1>2, NextEntryMoves
<1>8. LoopsOK'
  <2>1. settings' \in [Nodes -> [SettingKeys' -> Values]]
    BY <1>2, <1>3, <1>5, <1>6
  <2>2. QED
    BY <1>0, <1>1, <1>2, <1>3, <1>7, <2>1 DEF LoopsOK, Discovering, Configuring
<1>9. AppliedSoFar'
  <2> SUFFICES ASSUME ~applyFailed' PROVE AppliedSoFar'
    BY DEF AppliedSoFar
  <2>1. ~applyFailed /\ settings' = Applied
    BY DEF ApplyEntry, Accepted
  <2>2. \A n \in Nodes, k \in SettingKeys :
           settings'[n][k] = IF n = N[at] /\ k = key THEN value ELSE settings[n][k]
    BY <1>2, <1>4, <1>5, <2>1
  <2>3. InForceUpTo(N[at], entry - 1)
    BY <1>1, <2>1 DEF SInv, AppliedSoFar
  <2>4. NowUpTo(N[at], entry)
    <3> SUFFICES ASSUME NEW e \in 1 .. entry,
                        \A j \in 1 .. entry : Entries[j].key = Entries[e].key => j <= e
                 PROVE  settings'[N[at]][Entries[e].key] = Entries[e].value
      OBVIOUS
    <3>1. Entries[e].key \in SettingKeys
      BY <1>0, <1>2, NodesAndEntries
    <3>2. CASE e = entry
      BY <1>4, <2>2, <3>2
    <3>3. CASE e < entry
      <4>1. Entries[e].key # key
        BY <1>2, <3>3
      <4>2. e \in 1 .. entry - 1 /\ \A j \in 1 .. entry - 1 : Entries[j].key = Entries[e].key => j <= e
        BY <1>0, <1>2, <3>3
      <4>3. settings[N[at]][Entries[e].key] = Entries[e].value
        BY <2>3, <4>2 DEF InForceUpTo
      <4>4. QED
        BY <1>4, <2>2, <3>1, <4>1, <4>3
    <3>4. QED
      BY <1>0, <1>2, <3>2, <3>3
  <2>5. \A i \in 1 .. Len(N) : i < at /\ N[i] # N[at] => NowUpTo(N[i], last)
    <3> SUFFICES ASSUME NEW i \in 1 .. Len(N), i < at, N[i] # N[at],
                        NEW e \in 1 .. last,
                        \A j \in 1 .. last : Entries[j].key = Entries[e].key => j <= e
                 PROVE  settings'[N[i]][Entries[e].key] = Entries[e].value
      OBVIOUS
    <3>1. InForceUpTo(N[i], last)
      BY <1>1, <2>1 DEF SInv, AppliedSoFar
    <3>2. settings[N[i]][Entries[e].key] = Entries[e].value
      BY <3>1 DEF InForceUpTo
    <3>3. N[i] \in Nodes /\ Entries[e].key \in SettingKeys
      BY <1>0, NodesAndEntries
    <3>4. QED
      BY <2>2, <3>2, <3>3
  <2>6. \A n, l : InForceUpTo(n, l)' <=> NowUpTo(n, l)
    BY <1>3 DEF InForceUpTo
  <2>7. CASE at' = at /\ entry' = entry + 1
    <3>1. entry' - 1 = entry /\ entry' # 0
      BY <1>2, <2>7
    <3>2. NowUpTo(N[at], entry' - 1)
      BY <2>4, <3>1
    <3>3. QED
      BY <1>3, <2>5, <2>6, <2>7, <3>1, <3>2 DEF AppliedSoFar
  <2>8. CASE at' = at + 1 /\ entry' = 0 /\ entry = last
    <3>1. ASSUME NEW i \in 1 .. Len(N), i < at' PROVE NowUpTo(N[i], last)
      <4>1. CASE N[i] = N[at]
        BY <2>4, <2>8, <4>1
      <4>2. CASE N[i] # N[at]
        BY SMTT(30), <1>2, <2>5, <2>8, <3>1, <4>2
      <4>3. QED
        BY <4>1, <4>2
    <3>2. QED
      BY <1>3, <2>6, <2>8, <3>1 DEF AppliedSoFar
  <2>9. QED
    BY <1>7, <2>7, <2>8
<1>10. QED
  BY <1>1, <1>8, <1>9 DEF SInv, VerifiedSoFar, Configured

LEMMA ApplyDoneKeepsSInv ==
    ASSUME SInv, ApplyDone
    PROVE  SInv'
<1> DEFINE N == ConfiguredNodes
<1>0. /\ setup \in Setups /\ Len(Entries) \in Nat /\ Len(N) \in Nat
      /\ KnownNodes = {N[i] : i \in 1 .. Len(N)}
  BY NodesAndEntries DEF SInv, LoopsOK
<1>1. /\ pc = "apply" /\ at > Len(N) /\ at' = 1 /\ UNCHANGED settled
      /\ pc' = IF applyFailed THEN "failed" ELSE "verify"
  BY DEF ApplyDone, settled
<1>2. /\ entry = 0 /\ entry' = 0 /\ Entries # <<>> /\ at \in Nat
      /\ settings \in [Nodes -> [SettingKeys -> Values]]
  BY <1>0, <1>1 DEF SInv, LoopsOK, Configuring, settled, settingVars
<1>3. /\ N' = N /\ Entries' = Entries /\ SettingKeys' = SettingKeys /\ settings' = settings
      /\ KnownNodes' = KnownNodes /\ setup' = setup
  BY <1>1 DEF ConfiguredNodes, Entries, SettingKeys, KnownNodes, settled, settingVars
<1>4. CASE applyFailed
  BY <1>1, <1>2, <1>3, <1>4, FailureKeepsSInv
<1>5. CASE ~applyFailed
  <2>1. \A i \in 1 .. Len(N) : InForceUpTo(N[i], Len(Entries))
    BY <1>0, <1>1, <1>2, <1>5 DEF SInv, AppliedSoFar
  <2>2. InForce'
    <3>1. InForce
      BY <1>0, <2>1 DEF InForce
    <3>2. QED
      BY <1>3, <3>1 DEF InForce, InForceUpTo
  <2>3. LoopsOK'
    BY <1>0, <1>1, <1>2, <1>3, <1>5 DEF LoopsOK, Discovering, Configuring
  <2>4. VerifiedSoFar'
    BY <1>0, <1>1, <1>2, <1>3 DEF VerifiedSoFar
  <2>5. QED
    BY <1>1, <1>5, <2>2, <2>3, <2>4 DEF SInv, AppliedSoFar, Configured
<1>6. QED
  BY <1>4, <1>5

LEMMA VerifyEntryKeepsSInv ==
    ASSUME SInv, VerifyEntry
    PROVE  SInv'
<1> DEFINE N == ConfiguredNodes
           last == Len(Entries)
<1>0. setup \in Setups /\ last \in Nat /\ Len(N) \in Nat
  BY NodesAndEntries DEF SInv, LoopsOK
<1>1. /\ pc = "verify" /\ pc' = "verify" /\ UNCHANGED <<setup, clustered, settings, applyFailed>>
      /\ entry > 0 /\ NextEntry /\ verified' = (verified /\ Matches)
  BY DEF VerifyEntry, StillVerified
<1>2. /\ at \in 1 .. Len(N) /\ entry \in 1 .. last /\ Entries # <<>>
  BY <1>0, <1>1 DEF SInv, LoopsOK, Configuring
<1>3. N' = N /\ Entries' = Entries /\ SettingKeys' = SettingKeys
  BY <1>1 DEF ConfiguredNodes, Entries, SettingKeys
<1>4. \/ at' = at /\ entry' = entry + 1 /\ entry' \in 1 .. last
      \/ at' = at + 1 /\ entry' = 0 /\ entry = last
  BY <1>0, <1>1, <1>2, NextEntryMoves
<1>5. LoopsOK'
  BY <1>0, <1>1, <1>2, <1>3, <1>4 DEF SInv, LoopsOK, Discovering, Configuring
<1>6. VerifiedSoFar'
  <2> SUFFICES ASSUME verified', NEW i \in 1 .. Len(N), NEW e \in 1 .. last,
                      i < at' \/ (i = at' /\ e < entry')
               PROVE  settings[N[i]][Entries[e].key] = Entries[e].value
    BY <1>1, <1>3 DEF VerifiedSoFar
  <2>1. verified /\ settings[N[at]][Entries[entry].key] = Entries[entry].value
    BY <1>1 DEF Matches, ThisNode, ThisEntry
  <2>2. i < at \/ (i = at /\ e < entry) \/ (i = at /\ e = entry)
    BY <1>0, <1>2, <1>4
  <2>3. QED
    BY <1>1, <2>1, <2>2 DEF SInv, VerifiedSoFar
<1>7. Configured'
  BY <1>1, <1>3 DEF SInv, Configured, InForce, InForceUpTo, KnownNodes, Discovering
<1>8. QED
  BY <1>1, <1>5, <1>6, <1>7 DEF SInv, AppliedSoFar

LEMMA VerifyDoneKeepsSInv ==
    ASSUME SInv, VerifyDone("configured")
    PROVE  SInv'
<1> DEFINE N == ConfiguredNodes
<1>0. /\ setup \in Setups /\ Len(Entries) \in Nat /\ Len(N) \in Nat
      /\ KnownNodes = {N[i] : i \in 1 .. Len(N)}
      /\ DOMAIN Entries = 1 .. Len(Entries)
  BY NodesAndEntries DEF SInv, LoopsOK
<1>1. pc = "verify" /\ pc' = "configured" /\ at > Len(N) /\ UNCHANGED settled
  BY DEF VerifyDone, settled
<1>2. /\ N' = N /\ Entries' = Entries /\ SettingKeys' = SettingKeys /\ KnownNodes' = KnownNodes
      /\ UNCHANGED <<settings, setup, verified>>
  BY <1>1 DEF ConfiguredNodes, Entries, SettingKeys, KnownNodes, settled, settingVars
<1>3. verified => EachEntryInForce
  <2>1. at \in Nat
    BY <1>0, <1>1 DEF SInv, LoopsOK, Configuring
  <2>2. QED
    BY <1>0, <1>1, <2>1 DEF SInv, VerifiedSoFar, EachEntryInForce
<1>4. EachEntryInForce' <=> EachEntryInForce
  BY <1>2 DEF EachEntryInForce
<1>5. InForce' <=> InForce
  BY <1>2 DEF InForce, InForceUpTo
<1>6. Configured'
  BY <1>1, <1>2, <1>3, <1>4, <1>5 DEF SInv, Configured, Discovering
<1>7. LoopsOK'
  BY <1>1, <1>2 DEF SInv, LoopsOK, Discovering, Configuring
<1>8. QED
  BY <1>1, <1>6, <1>7 DEF SInv, AppliedSoFar, VerifiedSoFar

-----------------------------------------------------------------------------

LEMMA MainThreadKeepsSInv ==
    ASSUME SInv, MainThread
    PROVE  SInv'
<1>1. CASE (Connect \/ DiscoverCluster(AfterDiscovery) \/ DiscoverStandalone(AfterDiscovery))
           /\ UNCHANGED <<settingVars, indexVars, sessionVars>>
  BY <1>1, DiscoveryKeepsSInv
<1>2. CASE ConfigureNext("configured")
  BY <1>2, OpenNodeKeepsSInv, SkipNodeKeepsSInv, ApplyEntryKeepsSInv, ApplyDoneKeepsSInv,
     VerifyEntryKeepsSInv, VerifyDoneKeepsSInv DEF ConfigureNext, Configuring
<1>3. CASE BeginIndex /\ UNCHANGED settingVars
  BY <1>3, LaterKeepsSInv DEF BeginIndex, Discovering, Configuring, settled
<1>4. CASE IndexNext /\ UNCHANGED settingVars
  <2>1. CASE CheckForDrop \/ CheckForCreate
    BY <1>4, <2>1, LaterKeepsSInv
    DEF CheckForDrop, CheckForCreate, CheckIndex, Discovering, Configuring, settled
  <2>2. CASE DropFails \/ CreateFails
    BY <1>4, <2>2, LaterKeepsSInv DEF DropFails, CreateFails, Fails, Discovering, Configuring, settled
  <2>3. CASE Drop \/ Create
    BY <1>4, <2>3, LaterKeepsSInv DEF Drop, Create, Discovering, Configuring, settled
  <2>4. CASE StartWait \/ DetectEngine
    BY <1>4, <2>4, LaterKeepsSInv DEF StartWait, DetectEngine, Discovering, Configuring, settled
  <2>5. CASE PollServer
    BY <1>4, <2>5, LaterKeepsSInv DEF PollServer, Discovering, Configuring, settled
  <2>6. CASE PollNode \/ PollDone
    BY <1>4, <2>6, LaterKeepsSInv DEF PollNode, PollDone, Discovering, Configuring, settled
  <2>7. QED
    BY <1>4, <2>1, <2>2, <2>3, <2>4, <2>5, <2>6 DEF IndexNext
<1>5. CASE (BeginTest \/ CaptureBefore \/ StartWorkers \/ JoinWorkers \/ CaptureAfter \/ EndTest)
           /\ UNCHANGED settingVars
  BY <1>5, LaterKeepsSInv
  DEF BeginTest, CaptureBefore, StartWorkers, JoinWorkers, CaptureAfter, EndTest,
      Discovering, Configuring, settled
<1>6. QED
  BY <1>1, <1>2, <1>3, <1>4, <1>5 DEF MainThread

LEMMA NextKeepsSInv ==
    ASSUME SInv, [Next]_vars
    PROVE  SInv'
<1>1. CASE MainThread
  BY <1>1, MainThreadKeepsSInv
<1>2. ASSUME NEW n \in Nodes, Server(n) PROVE SInv'
  BY <1>2, ServersKeepSInv
  DEF Server, Fail, Recover, Learn, Build, Serve, settled, settingVars, deploymentVars
<1>3. CASE UNCHANGED vars
  BY <1>3, ServersKeepSInv DEF vars, deploymentVars, settled
<1>4. QED
  BY <1>1, <1>2, <1>3 DEF Next

LEMMA Invariance == Spec => []SInv
<1>1. QED
  BY InitSInv, NextKeepsSInv, PTL DEF Spec

(* Whatever the cluster, the file and the outages: when a test runs, the last *)
(* value of every key of the settings file is in force on every node that    *)
(* apply_config of src/config/runtime_config.rs configures.                  *)
THEOREM ConfiguredTests == Spec => []TestsRunConfigured
<1>1. SInv => TestsRunConfigured
  BY DEF SInv, Configured, TestsRunConfigured, InTest, Discovering
<1>2. QED
  BY <1>1, Invariance, PTL

(* A verification without a warning means that each entry is in force on each *)
(* node, a key with two values included: verify_runtime_config.              *)
THEOREM SilenceIsForce == Spec => []NoWarningMeansInForce
<1>1. SInv => NoWarningMeansInForce
  BY DEF SInv, Configured, NoWarningMeansInForce, InTest, Discovering
<1>2. QED
  BY <1>1, Invariance, PTL

-----------------------------------------------------------------------------
(* Induction, and what Kept returns.  The existence of the function that it  *)
(* is computed with is proved step by step.                                  *)

LEMMA Least ==
    ASSUME NEW S \in SUBSET Nat, S # {}
    PROVE  \E m \in S : \A n \in S : m <= n
<1> DEFINE Less == {p \in Nat \X Nat : p[1] < p[2]}
<1>1. IsWellFoundedOn({p \in Nat \X Nat : p[1] < p[2]}, Nat)
  BY NatLessThanWellFounded, Zenon DEF OpToRel
<1>2. PICK m \in S : \A n \in S : <<n, m>> \notin Less
  BY <1>1, WFMin
<1>3. ASSUME NEW n \in S PROVE m <= n
  <2>1. n \in Nat /\ m \in Nat
    OBVIOUS
  <2>2. <<n, m>> \notin Less
    BY <1>2
  <2>3. ~(n < m)
    BY <2>1, <2>2
  <2>4. QED
    BY <2>1, <2>3
<1>4. QED
  BY <1>3

LEMMA Induction ==
    ASSUME NEW N \in Nat, NEW T, 0 \in T, \A n \in 0 .. N - 1 : n \in T => n + 1 \in T
    PROVE  0 .. N \subseteq T
<1> DEFINE S == (0 .. N) \ T
<1>1. SUFFICES ASSUME S # {} PROVE FALSE
  OBVIOUS
<1>2. S \in SUBSET Nat
  OBVIOUS
<1>3. PICK m \in S : \A n \in S : m <= n
  <2> HIDE DEF S
  <2>1. QED
    BY <1>1, <1>2, Least
<1>4. m \in 1 .. N /\ m \notin T
  BY <1>3
<1>5. m - 1 \in 0 .. N - 1 /\ (m - 1) + 1 = m
  BY <1>4
<1>6. m - 1 \notin S
  BY <1>3, <1>4
<1>7. QED
  BY <1>4, <1>5, <1>6

Longer(seq, set, k, i) == IF seq[i] \in set THEN Append(k[i - 1], seq[i]) ELSE k[i - 1]
KeepsUpTo(seq, set, S, k, n) ==
    /\ k \in [0 .. n -> Seq(S)] /\ k[0] = <<>>
    /\ \A i \in 1 .. n : k[i] = Longer(seq, set, k, i)
KeepsAll(seq, set, k) ==
    k = [i \in 0 .. Len(seq) |-> IF i = 0 THEN <<>> ELSE Longer(seq, set, k, i)]

LEMMA KeptExists ==
    ASSUME NEW S, NEW seq \in Seq(S), NEW set
    PROVE  \E k : KeepsAll(seq, set, k)
<1> DEFINE N == Len(seq)
           Done == {n \in 0 .. N : \E k : KeepsUpTo(seq, set, S, k, n)}
<1>1. N \in Nat /\ \A i \in 1 .. N : seq[i] \in S
  BY LenProperties, ElementOfSeq
<1>2. 0 \in Done
  <2>1. KeepsUpTo(seq, set, S, [i \in 0 .. 0 |-> <<>>], 0)
    BY EmptySeq DEF KeepsUpTo
  <2>2. QED
    BY <1>1, <2>1
<1>3. ASSUME NEW n \in 0 .. N - 1, n \in Done PROVE n + 1 \in Done
  <2>1. PICK k : KeepsUpTo(seq, set, S, k, n)
    BY <1>3
  <2> DEFINE next == IF seq[n + 1] \in set THEN Append(k[n], seq[n + 1]) ELSE k[n]
             longer == [i \in 0 .. n + 1 |-> IF i <= n THEN k[i] ELSE next]
  <2>2. n \in 0 .. n /\ n + 1 \in 1 .. N
    BY <1>1
  <2>3. next \in Seq(S)
    BY <1>1, <2>1, <2>2, AppendProperties DEF KeepsUpTo
  <2> HIDE DEF next
  <2>4. longer \in [0 .. n + 1 -> Seq(S)] /\ longer[0] = <<>>
    BY <2>1, <2>3 DEF KeepsUpTo
  <2>5. ASSUME NEW i \in 1 .. n + 1 PROVE longer[i] = Longer(seq, set, longer, i)
    <3>1. CASE i <= n
      <4>1. longer[i] = k[i] /\ longer[i - 1] = k[i - 1] /\ k[i] = Longer(seq, set, k, i)
        BY <2>1, <3>1 DEF KeepsUpTo
      <4>2. QED
        BY <4>1 DEF Longer
    <3>2. CASE i = n + 1
      <4>1. longer[i] = next /\ longer[i - 1] = k[n]
        BY <3>2
      <4>2. QED
        BY <3>2, <4>1 DEF Longer, next
    <3>3. QED
      BY <3>1, <3>2
  <2>6. KeepsUpTo(seq, set, S, longer, n + 1)
    BY <2>4, <2>5 DEF KeepsUpTo
  <2>7. QED
    BY <1>1, <2>2, <2>6
<1>4. N \in Done
  <2> HIDE DEF Done
  <2>1. \A n \in 0 .. N - 1 : n \in Done => n + 1 \in Done
    BY <1>3
  <2> HIDE DEF N
  <2>2. 0 .. N \subseteq Done
    BY <1>1, <1>2, <2>1, Induction
  <2>3. QED
    BY <1>1, <2>2
<1>5. PICK k : KeepsUpTo(seq, set, S, k, N)
  BY <1>4
<1>6. KeepsAll(seq, set, k)
  <2>1. k = [i \in 0 .. N |-> k[i]]
    BY <1>5 DEF KeepsUpTo
  <2>2. \A i \in 0 .. N : k[i] = IF i = 0 THEN <<>> ELSE Longer(seq, set, k, i)
    BY <1>1, <1>5 DEF KeepsUpTo
  <2>3. QED
    BY <2>1, <2>2 DEF KeepsAll
<1>7. QED
  BY <1>6

Has(s, x) == \E i \in 1 .. Len(s) : s[i] = x

LEMMA HasAppend ==
    ASSUME NEW S, NEW s \in Seq(S), NEW e \in S, NEW x
    PROVE  Has(Append(s, e), x) <=> Has(s, x) \/ x = e
<1> DEFINE t == Append(s, e)
<1>1. /\ Len(s) \in Nat /\ Len(t) = Len(s) + 1
      /\ \A i \in 1 .. Len(s) : t[i] = s[i]
      /\ t[Len(s) + 1] = e
  BY AppendProperties, LenProperties
<1> HIDE DEF t
<1>2. QED
  BY <1>1 DEF Has, t

LEMMA KeptIsFilter ==
    ASSUME NEW S, NEW seq \in Seq(S), NEW set
    PROVE  /\ Kept(seq, set) \in Seq(S)
           /\ \A x : Has(Kept(seq, set), x) <=> x \in set /\ Has(seq, x)
<1> DEFINE N == Len(seq)
           kept == CHOOSE k : KeepsAll(seq, set, k)
           Right(n) == /\ kept[n] \in Seq(S)
                       /\ \A x : Has(kept[n], x) <=> x \in set /\ \E i \in 1 .. n : seq[i] = x
           Done == {n \in 0 .. N : Right(n)}
<1>1. N \in Nat /\ \A i \in 1 .. N : seq[i] \in S
  BY LenProperties, ElementOfSeq
<1>2. KeepsAll(seq, set, kept)
  BY KeptExists
<1>3. Kept(seq, set) = kept[N]
  BY DEF Kept, KeepsAll, Longer
<1> HIDE DEF kept
<1>4. kept[0] = <<>> /\ \A i \in 1 .. N : kept[i] = Longer(seq, set, kept, i)
  <2>1. \A i \in 0 .. N : kept[i] = IF i = 0 THEN <<>> ELSE Longer(seq, set, kept, i)
    BY <1>2 DEF KeepsAll
  <2>2. QED
    BY <1>1, <2>1
<1>5. 0 \in Done
  <2>1. kept[0] \in Seq(S) /\ Len(kept[0]) = 0
    BY <1>4, EmptySeq
  <2>2. \A x : ~Has(kept[0], x)
    BY <2>1 DEF Has
  <2>3. QED
    BY <1>1, <2>1, <2>2
<1>6. ASSUME NEW n \in 0 .. N - 1, n \in Done PROVE n + 1 \in Done
  <2>1. Right(n)
    BY <1>6
  <2>2. kept[n + 1] = Longer(seq, set, kept, n + 1) /\ n + 1 \in 1 .. N /\ (n + 1) - 1 = n
    BY <1>1, <1>4
  <2>3. seq[n + 1] \in S
    BY <1>1, <2>2
  <2>4. \A x : (\E i \in 1 .. n + 1 : seq[i] = x) <=> (\E i \in 1 .. n : seq[i] = x) \/ x = seq[n + 1]
    BY <2>2
  <2>5. CASE seq[n + 1] \in set
    <3>1. kept[n + 1] = Append(kept[n], seq[n + 1])
      BY <2>2, <2>5 DEF Longer
    <3>2. kept[n + 1] \in Seq(S)
      BY <2>1, <2>3, <3>1, AppendProperties
    <3>3. \A x : Has(kept[n + 1], x) <=> Has(kept[n], x) \/ x = seq[n + 1]
      BY <2>1, <2>3, <3>1, HasAppend
    <3>4. QED
      BY <1>1, <2>1, <2>2, <2>4, <2>5, <3>2, <3>3
  <2>6. CASE seq[n + 1] \notin set
    <3>1. kept[n + 1] = kept[n]
      BY <2>2, <2>6 DEF Longer
    <3>2. QED
      BY <1>1, <2>1, <2>2, <2>4, <2>6, <3>1
  <2>7. QED
    BY <2>5, <2>6
<1>7. N \in Done
  <2> HIDE DEF Done
  <2>1. \A n \in 0 .. N - 1 : n \in Done => n + 1 \in Done
    BY <1>6
  <2> HIDE DEF N
  <2>2. 0 .. N \subseteq Done
    BY <1>1, <1>5, <2>1, Induction
  <2>3. QED
    BY <1>1, <2>2
<1>8. QED
  BY <1>3, <1>7 DEF Has

-----------------------------------------------------------------------------
(* Types.                                                                    *)

(* The main thread is at the first node unless it goes through them, and a    *)
(* test that is under way is one of those asked for.                         *)
Looping == {"apply", "verify", "pollCluster", "before", "after", "failed"}
Places ==
    /\ pc \notin Looping => at = 1
    /\ pc \in {"before", "running", "after"} => test < setup.tests

Steps == {"start", "discover", "apply", "verify", "configured", "checkForDrop", "drop",
          "checkForCreate", "create", "wait", "detect", "pollServer", "pollCluster",
          "prepared", "before", "running", "after", "done", "failed"}
SessionTypeOK ==
    /\ pc \in Steps
    /\ test \in 0..setup.tests
    /\ hits \in [Nodes -> Nat] /\ served \in 0..MaxHits /\ reported \in Nat
    /\ {before, after} \subseteq [hits : Nat, missing : BOOLEAN]

TInv == TypeOK /\ Places

LEMMA TypeParts ==
    /\ TypeOK <=> DeploymentTypeOK /\ SettingsTypeOK /\ IndexTypeOK /\ SessionTypeOK
    /\ TypeOK' <=> DeploymentTypeOK' /\ SettingsTypeOK' /\ IndexTypeOK' /\ SessionTypeOK'
BY DEF TypeOK, SessionTypeOK, Steps

LEMMA SetupParts ==
    ASSUME setup \in Setups
    PROVE  /\ setup.nodes \in Seq(Nodes) /\ setup.seeds \in Seq(Nodes)
           /\ setup.seeds[1] \in Nodes
           /\ setup.tests \in Nat /\ setup.oldHits \in Nat
           /\ setup.existing \in IndexStates /\ setup.engine \in {"memorydb", "other"}
           /\ setup.cluster \in BOOLEAN
<1>1. /\ setup.nodes \in Seq(Nodes) /\ setup.seeds \in Seq(Nodes) /\ setup.seeds # <<>>
      /\ setup.tests \in Nat /\ setup.oldHits \in Nat
      /\ setup.existing \in IndexStates /\ setup.engine \in {"memorydb", "other"}
      /\ setup.cluster \in BOOLEAN
  BY DeploymentAssumption
<1>2. Len(setup.seeds) \in Nat /\ Len(setup.seeds) # 0
  BY <1>1, EmptySeq, LenProperties
<1>3. setup.seeds[1] \in Nodes
  BY <1>1, <1>2, ElementOfSeq
<1>4. QED
  BY <1>1, <1>3

LEMMA InitTInv == SessionInit => TInv
<1> SUFFICES ASSUME SessionInit PROVE TInv
  OBVIOUS
<1>1. setup \in Setups
  BY DEF SessionInit, Init
<1>2. DeploymentTypeOK
  <2>1. [id |-> wanted, state |-> setup.existing] \in [id : {None, Old, New}, state : IndexStates]
    BY <1>1, SetupParts DEF SessionInit, Init
  <2>2. QED
    <3>1. index \in [Nodes -> [id : {None, Old, New}, state : IndexStates]]
      BY <2>1 DEF SessionInit, Init
    <3>2. outages \in 0 .. MaxOutages
      BY DeploymentAssumption DEF SessionInit, Init
    <3>3. wanted \in {None, Old, New}
      BY DEF SessionInit, Init
    <3>4. at = 1 /\ conn = NoNode /\ clustered = FALSE /\ available = {} /\ up = Nodes
      BY DEF SessionInit, Init
    <3>5. at \in Nat \ {0} /\ conn \in up \cup {NoNode}
      BY <3>4
    <3>6. clustered \in BOOLEAN /\ available \subseteq Nodes /\ up \subseteq Nodes
      BY <3>4, Zenon
    <3>7. QED
      BY <1>1, <3>1, <3>2, <3>3, <3>5, <3>6, Zenon DEF DeploymentTypeOK
<1>3. SettingsTypeOK
  <2>1. Len(Entries) \in Nat
    BY <1>1, NodesAndEntries
  <2>2. settings = [n \in Nodes |-> [k \in SettingKeys |-> "default"]]
    BY DEF SessionInit, InitSettings
  <2>3. "default" \in Values
    BY DEF Values
  <2>4. settings \in [Nodes -> [SettingKeys -> Values]]
    BY <2>2, <2>3
  <2>5. QED
    <3>1. entry \in 0 .. Len(Entries)
      BY <2>1 DEF SessionInit, InitSettings
    <3>2. {applyFailed, verified} \subseteq BOOLEAN
      BY Zenon DEF SessionInit, InitSettings
    <3>3. QED
      BY <2>4, <3>1, <3>2, Zenon DEF SettingsTypeOK
<1>4. IndexTypeOK
  <2>1. <<>> \in Seq([node : Nodes, state : {"open", "broken", "taken"}])
    OBVIOUS
  <2>2. 0 \in 0 .. (MaxPolls - 1)
    BY PollsAssumption
  <2>3. detected = "other" /\ links = <<>> /\ busy = FALSE /\ polls = 0 /\ unsure = FALSE
    BY DEF SessionInit, InitIndex
  <2>4. QED
    BY <2>1, <2>2, <2>3 DEF IndexTypeOK
<1>5. SessionTypeOK
  BY <1>1, SetupParts, HitsAssumption DEF SessionInit, Init, NoSnapshot, SessionTypeOK, Steps
<1>6. Places
  BY DEF SessionInit, Init, Places
<1>7. QED
  BY <1>2, <1>3, <1>4, <1>5, <1>6, TypeParts DEF TInv

(* The parts that a step does not touch stay as they are.                    *)
LEMMA UntouchedTypes ==
    /\ DeploymentTypeOK /\ UNCHANGED <<setup, at, conn, clustered, available, serverVars>> => DeploymentTypeOK'
    /\ SettingsTypeOK /\ UNCHANGED <<setup, settingVars>> => SettingsTypeOK'
    /\ IndexTypeOK /\ UNCHANGED indexVars => IndexTypeOK'
    /\ SessionTypeOK /\ UNCHANGED <<setup, pc, sessionVars>> => SessionTypeOK'
<1>1. DeploymentTypeOK /\ UNCHANGED <<setup, at, conn, clustered, available, serverVars>> => DeploymentTypeOK'
  BY DEF DeploymentTypeOK, serverVars
<1>2. SettingsTypeOK /\ UNCHANGED <<setup, settingVars>> => SettingsTypeOK'
  BY DEF SettingsTypeOK, settingVars, SettingKeys, Entries
<1>3. IndexTypeOK /\ UNCHANGED indexVars => IndexTypeOK'
  BY DEF IndexTypeOK, indexVars
<1>4. SessionTypeOK /\ UNCHANGED <<setup, pc, sessionVars>> => SessionTypeOK'
  BY DEF SessionTypeOK, sessionVars
<1>5. QED
  BY <1>1, <1>2, <1>3, <1>4

LEMMA DiscoveryKeepsTInv ==
    ASSUME TInv, Connect \/ DiscoverCluster(AfterDiscovery) \/ DiscoverStandalone(AfterDiscovery),
           UNCHANGED <<settingVars, indexVars, sessionVars>>
    PROVE  TInv'
<1>0. DeploymentTypeOK /\ SettingsTypeOK /\ IndexTypeOK /\ SessionTypeOK /\ Places
  BY TypeParts DEF TInv
<1>1. setup' = setup /\ at' = at /\ pc \in {"start", "discover"}
      /\ pc' \in {"discover", "failed", "configured", "apply"} /\ UNCHANGED serverVars
  BY DEF Connect, DiscoverCluster, DiscoverStandalone, AfterDiscovery
<1>2. conn' \in up \cup {NoNode} /\ clustered' \in BOOLEAN /\ available' \subseteq Nodes
  BY <1>0 DEF DeploymentTypeOK, Connect, DiscoverCluster, DiscoverStandalone
<1>3. DeploymentTypeOK'
  BY <1>0, <1>1, <1>2 DEF DeploymentTypeOK, serverVars
<1>4. SettingsTypeOK' /\ IndexTypeOK'
  BY <1>0, <1>1, UntouchedTypes
<1>5. SessionTypeOK'
  BY <1>0, <1>1 DEF SessionTypeOK, sessionVars, Steps
<1>6. Places'
  BY <1>0, <1>1 DEF Places, Looping
<1>7. QED
  BY <1>3, <1>4, <1>5, <1>6, TypeParts DEF TInv

LEMMA ConfigureKeepsTInv ==
    ASSUME SInv, TInv, ConfigureNext("configured"), UNCHANGED <<indexVars, sessionVars>>
    PROVE  TInv'
<1>0. /\ DeploymentTypeOK /\ SettingsTypeOK /\ IndexTypeOK /\ SessionTypeOK /\ Places
      /\ setup \in Setups /\ LoopsOK
  BY TypeParts DEF TInv, SInv, DeploymentTypeOK
<1>1. /\ Len(Entries) \in Nat /\ Len(ConfiguredNodes) \in Nat
      /\ \A i \in 1 .. Len(ConfiguredNodes) : ConfiguredNodes[i] \in Nodes
      /\ \A e \in 1 .. Len(Entries) : Entries[e].key \in SettingKeys /\ Entries[e].value \in STRING
      /\ pc \in Configuring => Entries # <<>> /\ Len(Entries) >= 1
  BY <1>0, NodesAndEntries DEF LoopsOK
<1>2. setup' = setup /\ clustered' = clustered /\ available' = available /\ UNCHANGED serverVars
      /\ pc \in Configuring /\ Entries' = Entries /\ SettingKeys' = SettingKeys
  BY DEF ConfigureNext, OpenNode, Start, SkipNode, ApplyEntry, ApplyDone, VerifyEntry, VerifyDone,
         Configuring, Entries, SettingKeys
<1>3. at' \in Nat \ {0} /\ conn' \in up \cup {NoNode}
  BY <1>0 DEF ConfigureNext, OpenNode, Start, SkipNode, ApplyEntry, ApplyDone, VerifyEntry, VerifyDone,
              NextEntry, DeploymentTypeOK
<1>4. DeploymentTypeOK'
  BY <1>0, <1>2, <1>3 DEF DeploymentTypeOK, serverVars
<1>5. entry' \in 0 .. Len(Entries)
  BY <1>0, <1>1, <1>2
  DEF ConfigureNext, OpenNode, Start, SkipNode, ApplyEntry, ApplyDone, VerifyEntry, VerifyDone,
      NextEntry, SettingsTypeOK, settingVars
<1>6. settings' \in [Nodes -> [SettingKeys -> Values]]
  <2>1. CASE ApplyEntry
    <3>1. ThisNode \in Nodes /\ ThisEntry.key \in SettingKeys /\ ThisEntry.value \in Values
      BY <1>0, <1>1, <1>2, <2>1 DEF Values, ApplyEntry, LoopsOK, ThisNode, ThisEntry, Configuring
    <3>2. Applied \in [Nodes -> [SettingKeys -> Values]]
      BY <1>0, <3>1 DEF Applied, SettingsTypeOK
    <3>3. QED
      BY <1>0, <2>1, <3>2 DEF ApplyEntry, SettingsTypeOK
  <2>2. CASE ~ApplyEntry
    BY <1>0, <2>2 DEF ConfigureNext, OpenNode, SkipNode, ApplyDone, VerifyEntry, VerifyDone,
                      SettingsTypeOK, settingVars
  <2>3. QED
    BY <2>1, <2>2
<1>7. applyFailed' \in BOOLEAN /\ verified' \in BOOLEAN
  BY <1>0, Zenon
  DEF ConfigureNext, OpenNode, SkipNode, ApplyEntry, ApplyDone, VerifyEntry, VerifyDone,
      SettingsTypeOK, settingVars, StillVerified
<1>8. SettingsTypeOK'
  BY <1>2, <1>5, <1>6, <1>7 DEF SettingsTypeOK
<1>9. IndexTypeOK'
  BY <1>0, UntouchedTypes
<1>10. SessionTypeOK' /\ Places'
  <2>1. pc' \in Configuring \cup {"failed"} \/ (pc' = "configured" /\ at' = 1)
    BY <1>2 DEF ConfigureNext, OpenNode, SkipNode, ApplyEntry, ApplyDone, VerifyEntry, VerifyDone, Configuring
  <2>2. QED
    BY <1>0, <1>2, <2>1 DEF SessionTypeOK, sessionVars, Steps, Places, Looping, Configuring
<1>11. QED
  BY <1>4, <1>8, <1>9, <1>10, TypeParts DEF TInv

(* The lists of nodes and of connections.                                    *)
LEMMA AddressesAreNodes ==
    ASSUME setup \in Setups
    PROVE  Addresses \in Seq(Nodes) /\ Len(Addresses) \in Nat /\ DOMAIN Addresses = 1 .. Len(Addresses)
<1>1. Addresses \in Seq(Nodes)
  <2>1. \A set : Kept(setup.nodes, set) \in Seq(Nodes)
    BY SetupParts, KeptIsFilter
  <2>2. setup.readFrom \in {"primary", "preferReplica", "all"}
    BY DeploymentAssumption
  <2>3. SelectedNodes \in Seq(Nodes)
    BY <2>1, <2>2 DEF SelectedNodes, AvailablePrimaries, AvailableReplicas
  <2>4. QED
    BY <2>3, SetupParts DEF Addresses
<1>2. QED
  BY <1>1, LenProperties

LEMMA NewAddresses ==
    ASSUME setup \in Setups, setup' = setup
    PROVE  Addresses' \in Seq(Nodes)
<1>1. \A set : Kept(setup.nodes, set) \in Seq(Nodes)
  BY SetupParts, KeptIsFilter
<1>2. SelectedNodes' \in Seq(Nodes)
  BY <1>1, DeploymentAssumption DEF SelectedNodes, AvailablePrimaries, AvailableReplicas
<1>3. QED
  BY <1>2, SetupParts DEF Addresses

Link == [node : Nodes, state : {"open", "broken", "taken"}]

LEMMA LinksTyped ==
    ASSUME setup \in Setups, NEW set
    PROVE  LET ns == Kept(setup.nodes, set)
               ls == [i \in DOMAIN ns |-> [node |-> ns[i], state |-> "open"]]
           IN  ls \in Seq(Link) /\ DOMAIN ls = 1 .. Len(ls) /\ \A i \in DOMAIN ls : ls[i].state = "open"
<1> DEFINE ns == Kept(setup.nodes, set)
           ls == [i \in DOMAIN ns |-> [node |-> ns[i], state |-> "open"]]
<1>1. ns \in Seq(Nodes)
  BY SetupParts, KeptIsFilter
<1> HIDE DEF ns
<1>2. DOMAIN ns = 1 .. Len(ns) /\ Len(ns) \in Nat /\ \A i \in 1 .. Len(ns) : ns[i] \in Nodes
  BY <1>1, LenProperties, ElementOfSeq
<1>3. ls \in [1 .. Len(ns) -> Link]
  BY <1>2 DEF Link
<1>4. ls \in Seq(Link) /\ DOMAIN ls = 1 .. Len(ls)
  BY <1>2, <1>3
<1>5. QED
  BY <1>4 DEF ns

LEMMA BrokenTyped ==
    ASSUME links \in Seq(Link), NEW n, BreakLinks(n)
    PROVE  /\ links' \in Seq(Link) /\ Len(links') = Len(links)
           /\ \A i \in 1 .. Len(links) :
                 /\ links'[i].node = links[i].node
                 /\ links'[i].state = "taken" => links[i].state = "taken"
<1>1. /\ DOMAIN links = 1 .. Len(links) /\ Len(links) \in Nat
      /\ \A i \in 1 .. Len(links) : links[i] \in Link
  BY LenProperties, ElementOfSeq
<1> DEFINE broken(i) == IF links[i] = [node |-> n, state |-> "open"]
                        THEN [links[i] EXCEPT !.state = "broken"] ELSE links[i]
<1>2. ASSUME NEW i \in 1 .. Len(links)
      PROVE  broken(i) \in Link /\ broken(i).node = links[i].node
             /\ (broken(i).state = "taken" => links[i].state = "taken")
  BY <1>1 DEF Link
<1>3. links' = [i \in 1 .. Len(links) |-> broken(i)]
  BY <1>1 DEF BreakLinks
<1> HIDE DEF broken
<1>4. links' \in [1 .. Len(links) -> Link]
  BY <1>2, <1>3
<1>5. links' \in Seq(Link) /\ Len(links') = Len(links)
  BY <1>1, <1>4
<1>6. QED
  BY <1>2, <1>3, <1>5

LEMMA TakenTyped ==
    ASSUME links \in Seq(Link), at \in Nat \ {0}, at <= Len(links),
           links' = [links EXCEPT ![at].state = "taken"]
    PROVE  /\ links' \in Seq(Link) /\ Len(links') = Len(links)
           /\ \A i \in 1 .. Len(links) : /\ links'[i].node = links[i].node
                                         /\ i # at => links'[i] = links[i]
<1>1. /\ DOMAIN links = 1 .. Len(links) /\ Len(links) \in Nat /\ at \in 1 .. Len(links)
      /\ \A i \in 1 .. Len(links) : links[i] \in Link
  BY LenProperties, ElementOfSeq
<1>2. links' = [links EXCEPT ![at] = [links[at] EXCEPT !.state = "taken"]]
  OBVIOUS
<1>3. /\ [links[at] EXCEPT !.state = "taken"] \in Link
      /\ [links[at] EXCEPT !.state = "taken"].node = links[at].node
  BY <1>1 DEF Link
<1>4. links' \in Seq(Link) /\ Len(links') = Len(links)
  BY <1>1, <1>2, <1>3, ExceptSeq
<1>5. QED
  BY <1>1, <1>2, <1>3, <1>4

LEMMA SnapshotTyped ==
    ASSUME DeploymentTypeOK, hits \in [Nodes -> Nat], at <= Len(Addresses),
           NEW s \in [hits : Nat, missing : BOOLEAN]
    PROVE  Snapshot(s) \in [hits : Nat, missing : BOOLEAN]
<1>1. Addresses \in Seq(Nodes) /\ Len(Addresses) \in Nat /\ at \in 1 .. Len(Addresses)
  BY AddressesAreNodes DEF DeploymentTypeOK
<1>2. Addresses[at] \in Nodes
  BY <1>1, ElementOfSeq
<1>3. CASE Addresses[at] \in up
  <2>1. Snapshot(s) = [s EXCEPT !.hits = @ + hits[Addresses[at]]]
    BY <1>3 DEF Snapshot
  <2>2. s.hits + hits[Addresses[at]] \in Nat
    BY <1>2
  <2>3. QED
    BY <2>1, <2>2
<1>4. CASE Addresses[at] \notin up
  BY <1>4 DEF Snapshot
<1>5. QED
  BY <1>3, <1>4

LEMMA BeginIndexKeepsTInv ==
    ASSUME TInv, BeginIndex, UNCHANGED <<settingVars, indexVars, sessionVars>>
    PROVE  TInv'
<1>0. DeploymentTypeOK /\ SettingsTypeOK /\ IndexTypeOK /\ SessionTypeOK /\ Places
  BY TypeParts DEF TInv
<1>1. /\ UNCHANGED <<setup, at, conn, clustered, available, serverVars>> /\ pc = "configured"
      /\ pc' \in {"prepared", "checkForDrop", "checkForCreate"}
  BY DEF BeginIndex
<1>2. DeploymentTypeOK' /\ SettingsTypeOK' /\ IndexTypeOK'
  BY <1>0, <1>1, UntouchedTypes
<1>3. SessionTypeOK' /\ Places'
  BY <1>0, <1>1 DEF SessionTypeOK, sessionVars, Steps, Places, Looping
<1>4. QED
  BY <1>2, <1>3, TypeParts DEF TInv

(* All records of an index are states of one.                                *)
LEMMA FreshTyped ==
    ASSUME NEW id \in {None, Old, New}
    PROVE  /\ Fresh(id) \in [id : {None, Old, New}, state : IndexStates]
           /\ Fresh(id).id = id /\ Fresh(id).state \in {"queued", "building"}
           /\ Absent \in [id : {None, Old, New}, state : IndexStates]
BY DEF Fresh, Absent, IndexStates

LEMMA IndexKeepsTInv ==
    ASSUME TInv, IndexNext, UNCHANGED <<settingVars, sessionVars>>
    PROVE  TInv'
<1>0. /\ DeploymentTypeOK /\ SettingsTypeOK /\ IndexTypeOK /\ SessionTypeOK /\ Places
      /\ setup \in Setups
  BY TypeParts DEF TInv, DeploymentTypeOK
<1>1. /\ setup' = setup /\ clustered' = clustered /\ available' = available
      /\ up' = up /\ outages' = outages
  BY DEF IndexNext, CheckForDrop, CheckForCreate, CheckIndex, DropFails, CreateFails, Fails,
         Drop, Create, StartWait, DetectEngine, PollServer, PollNode, PollDone, serverVars
<1>2. SettingsTypeOK'
  BY <1>0, <1>1, UntouchedTypes
<1>3. pc \in Steps \ {"before", "running", "after"} /\ pc' \in Steps \ {"before", "running", "after"}
  BY <1>0 DEF IndexNext, CheckForDrop, CheckForCreate, CheckIndex, DropFails, CreateFails, Fails,
         Drop, Create, StartWait, DetectEngine, PollServer, PollNode, PollDone, Steps
<1>4. SessionTypeOK'
  BY <1>0, <1>1, <1>3 DEF SessionTypeOK, sessionVars
<1>5. at' \in Nat \ {0} /\ Places'
  <2>1. CASE PollNode
    BY <1>0, <2>1 DEF PollNode, DeploymentTypeOK, Places, Looping
  <2>2. CASE PollDone
    BY <2>2 DEF PollDone, Places, Looping
  <2>3. CASE ~PollNode /\ ~PollDone
    <3>1. at' = at /\ pc \notin Looping
      BY <2>3 DEF IndexNext, CheckForDrop, CheckForCreate, CheckIndex, DropFails, CreateFails, Fails,
                  Drop, Create, StartWait, DetectEngine, PollServer, Looping
    <3>2. QED
      BY <1>0, <1>3, <3>1 DEF Places, DeploymentTypeOK
  <2>4. QED
    BY <2>1, <2>2, <2>3
<1>6. conn' \in up \cup {NoNode}
  BY <1>0 DEF IndexNext, CheckForDrop, CheckForCreate, CheckIndex, DropFails, CreateFails, Fails,
         Drop, Create, StartWait, DetectEngine, PollServer, PollNode, PollDone,
         DeploymentTypeOK, FirstReachable
<1>7. /\ wanted' \in {None, Old, New}
      /\ index' \in [Nodes -> [id : {None, Old, New}, state : IndexStates]]
  <2>1. CASE Drop
    BY <1>0, <2>1, FreshTyped DEF Drop, DeploymentTypeOK
  <2>2. CASE Create
    BY <1>0, <2>2, FreshTyped DEF Create, DeploymentTypeOK
  <2>3. CASE ~Drop /\ ~Create
    BY <1>0, <2>3 DEF IndexNext, CheckForDrop, CheckForCreate, CheckIndex, DropFails, CreateFails, Fails,
                      StartWait, DetectEngine, PollServer, PollNode, PollDone, serverVars, DeploymentTypeOK
  <2>4. QED
    BY <2>1, <2>2, <2>3
<1>8. DeploymentTypeOK'
  BY <1>0, <1>1, <1>5, <1>6, <1>7 DEF DeploymentTypeOK
<1>9. IndexTypeOK'
  <2>1. CASE CheckForDrop \/ CheckForCreate
    BY <1>0, <2>1, Zenon DEF CheckForDrop, CheckForCreate, CheckIndex, IndexTypeOK
  <2>2. CASE DetectEngine
    <3>1. detected' \in {"memorydb", "other"} /\ UNCHANGED <<busy, polls, unsure>>
      BY <1>0, <2>2, SetupParts DEF DetectEngine
    <3>2. links' \in Seq(Link)
      BY <1>0, <2>2, LinksTyped DEF DetectEngine, IndexTypeOK, Link
    <3>3. QED
      BY <1>0, <3>1, <3>2 DEF IndexTypeOK, Link
  <2>3. CASE PollServer
    <3>1. polls' \in 0 .. (MaxPolls - 1)
      BY <1>0, <2>3, PollsAssumption DEF PollServer, IndexTypeOK, PollAgain, TimedOut
    <3>2. QED
      BY <1>0, <2>3, <3>1 DEF PollServer, IndexTypeOK
  <2>4. CASE PollNode
    <3>1. links' \in Seq(Link)
      BY <1>0, <2>4, TakenTyped DEF Link, PollNode, IndexTypeOK, DeploymentTypeOK
    <3>2. busy' \in BOOLEAN
      BY <2>4, Zenon DEF PollNode
    <3>3. QED
      BY <1>0, <2>4, <3>1, <3>2 DEF PollNode, IndexTypeOK, Link
  <2>5. CASE PollDone
    <3>1. polls' \in 0 .. (MaxPolls - 1)
      BY <1>0, <2>5, PollsAssumption DEF PollDone, IndexTypeOK, PollAgain, TimedOut
    <3>2. busy' \in BOOLEAN
      BY <1>0, <2>5 DEF PollDone, IndexTypeOK, PollAgain
    <3>3. QED
      BY <1>0, <2>5, <3>1, <3>2 DEF PollDone, IndexTypeOK
  <2>6. CASE UNCHANGED indexVars
    BY <1>0, <2>6, UntouchedTypes
  <2>7. QED
    BY <2>1, <2>2, <2>3, <2>4, <2>5, <2>6
    DEF IndexNext, DropFails, CreateFails, Fails, Drop, Create, StartWait
<1>10. QED
  BY <1>2, <1>4, <1>5, <1>8, <1>9, TypeParts DEF TInv

LEMMA TestsKeepTInv ==
    ASSUME TInv, BeginTest \/ CaptureBefore \/ StartWorkers \/ JoinWorkers \/ CaptureAfter \/ EndTest,
           UNCHANGED <<settingVars, indexVars>>
    PROVE  TInv'
<1>0. /\ DeploymentTypeOK /\ SettingsTypeOK /\ IndexTypeOK /\ SessionTypeOK /\ Places
      /\ setup \in Setups
  BY TypeParts DEF TInv, DeploymentTypeOK
<1>1. UNCHANGED <<setup, conn, clustered, available, serverVars>>
  BY DEF BeginTest, CaptureBefore, StartWorkers, JoinWorkers, CaptureAfter, EndTest
<1>2. at' \in Nat \ {0} /\ Places'
  BY <1>0 DEF BeginTest, CaptureBefore, StartWorkers, JoinWorkers, CaptureAfter, EndTest,
              Places, Looping, DeploymentTypeOK, sessionVars
<1>3. DeploymentTypeOK'
  BY <1>0, <1>1, <1>2 DEF DeploymentTypeOK, serverVars
<1>4. SettingsTypeOK' /\ IndexTypeOK'
  BY <1>0, <1>1, UntouchedTypes
<1>5. SessionTypeOK'
  <2>1. pc' \in Steps
    BY <1>0 DEF BeginTest, CaptureBefore, StartWorkers, JoinWorkers, CaptureAfter, EndTest,
                SessionTypeOK, Steps
  <2>2. test' \in 0 .. setup.tests
    BY <1>0, SetupParts DEF BeginTest, CaptureBefore, StartWorkers, JoinWorkers, CaptureAfter, EndTest,
                SessionTypeOK, Places, sessionVars
  <2>3. hits' = hits /\ served' \in 0 .. MaxHits
    BY <1>0, HitsAssumption DEF BeginTest, CaptureBefore, StartWorkers, JoinWorkers, CaptureAfter, EndTest,
                SessionTypeOK, sessionVars
  <2>4. before' \in [hits : Nat, missing : BOOLEAN] /\ after' \in [hits : Nat, missing : BOOLEAN]
    <3>1. NoSnapshot \in [hits : Nat, missing : BOOLEAN]
      BY DEF NoSnapshot
    <3>2. CASE CaptureBefore \/ CaptureAfter
      BY <1>0, <3>2, SnapshotTyped DEF CaptureBefore, CaptureAfter, SessionTypeOK
    <3>3. CASE ~CaptureBefore /\ ~CaptureAfter
      BY <1>0, <3>1, <3>3 DEF BeginTest, StartWorkers, JoinWorkers, EndTest, SessionTypeOK, sessionVars
    <3>4. QED
      BY <3>2, <3>3
  <2>5. reported' \in Nat
    BY <1>0 DEF BeginTest, CaptureBefore, StartWorkers, JoinWorkers, CaptureAfter, EndTest,
                SessionTypeOK, sessionVars, Difference
  <2>6. QED
    BY <1>0, <1>1, <2>1, <2>2, <2>3, <2>4, <2>5 DEF SessionTypeOK
<1>6. QED
  BY <1>2, <1>3, <1>4, <1>5, TypeParts DEF TInv

LEMMA ServersKeepTInv ==
    ASSUME TInv, NEW n \in Nodes, Server(n)
    PROVE  TInv'
<1>0. /\ DeploymentTypeOK /\ SettingsTypeOK /\ IndexTypeOK /\ SessionTypeOK /\ Places
      /\ setup \in Setups
  BY TypeParts DEF TInv, DeploymentTypeOK
<1>1. UNCHANGED <<setup, pc, at, test>> /\ UNCHANGED settingVars
  BY DEF Server, Fail, Recover, Learn, Build, Serve, sessionVars, deploymentVars
<1>2. SettingsTypeOK' /\ Places'
  BY <1>0, <1>1, UntouchedTypes DEF Places
<1>3. CASE Fail(n) /\ BreakLinks(n) /\ UNCHANGED <<detected, busy, polls, unsure, sessionVars>>
  <2>1. DeploymentTypeOK'
    BY <1>0, <1>3, DeploymentAssumption DEF Fail, DeploymentTypeOK
  <2>2. links' \in Seq(Link)
    BY <1>0, <1>3, BrokenTyped DEF IndexTypeOK, Link
  <2>3. IndexTypeOK'
    BY <1>0, <1>3, <2>2 DEF IndexTypeOK, Link
  <2>4. SessionTypeOK'
    BY <1>0, <1>1, <1>3, UntouchedTypes
  <2>5. QED
    BY <1>2, <2>1, <2>3, <2>4, TypeParts DEF TInv
<1>4. CASE (Recover(n) \/ Learn(n) \/ Build(n)) /\ UNCHANGED <<indexVars, sessionVars>>
  <2>1. index' \in [Nodes -> [id : {None, Old, New}, state : IndexStates]]
    <3>1. CASE Recover(n)
      BY <1>0, <3>1 DEF Recover, DeploymentTypeOK
    <3>2. CASE Learn(n)
      BY <1>0, <3>2, FreshTyped DEF Learn, DeploymentTypeOK
    <3>3. CASE Build(n)
      BY <1>0, <3>3 DEF Build, DeploymentTypeOK, IndexStates
    <3>4. QED
      BY <1>4, <3>1, <3>2, <3>3
  <2>2. DeploymentTypeOK'
    BY <1>0, <1>4, <2>1 DEF Recover, Learn, Build, DeploymentTypeOK
  <2>3. IndexTypeOK' /\ SessionTypeOK'
    BY <1>0, <1>1, <1>4, UntouchedTypes
  <2>4. QED
    BY <1>2, <2>2, <2>3, TypeParts DEF TInv
<1>5. CASE Serve(n) /\ UNCHANGED indexVars
  <2>1. DeploymentTypeOK' /\ IndexTypeOK'
    BY <1>0, <1>5, UntouchedTypes DEF Serve, deploymentVars, serverVars
  <2>2. SessionTypeOK'
    BY <1>0, <1>1, <1>5, HitsAssumption DEF Serve, SessionTypeOK
  <2>3. QED
    BY <1>2, <2>1, <2>2, TypeParts DEF TInv
<1>6. QED
  BY <1>3, <1>4, <1>5 DEF Server

LEMMA NextKeepsTInv ==
    ASSUME SInv, TInv, [Next]_vars
    PROVE  TInv'
<1>1. CASE MainThread
  BY <1>1, DiscoveryKeepsTInv, ConfigureKeepsTInv, BeginIndexKeepsTInv, IndexKeepsTInv, TestsKeepTInv
  DEF MainThread
<1>2. ASSUME NEW n \in Nodes, Server(n) PROVE TInv'
  BY <1>2, ServersKeepTInv
<1>3. CASE UNCHANGED vars
  <2>1. DeploymentTypeOK' /\ SettingsTypeOK' /\ IndexTypeOK' /\ SessionTypeOK'
    BY <1>3, TypeParts, UntouchedTypes DEF TInv, vars, deploymentVars, serverVars
  <2>2. Places'
    BY <1>3 DEF TInv, Places, vars, deploymentVars, sessionVars
  <2>3. QED
    BY <2>1, <2>2, TypeParts DEF TInv
<1>4. QED
  BY <1>1, <1>2, <1>3 DEF Next

(* Every variable has its type in every reachable state of the process.       *)
THEOREM TypeCorrect == Spec => []TypeOK
<1>1. Spec => [](SInv /\ TInv)
  BY InitSInv, NextKeepsSInv, InitTInv, NextKeepsTInv, PTL DEF Spec
<1>2. TInv => TypeOK
  BY DEF TInv
<1>3. QED
  BY <1>1, <1>2, PTL

-----------------------------------------------------------------------------
(* Hits.  The sums that a snapshot passes through are those of the addresses  *)
(* up to each node; a hit adds one to all sums from its server on.           *)

Sums(sum, n, counts, nodes) ==
    /\ sum \in [0 .. n -> Nat] /\ sum[0] = 0
    /\ \A i \in 1 .. n : sum[i] = sum[i - 1] + counts[nodes[i]]

BeforeTests == Steps \ {"before", "running", "after", "prepared", "done", "failed"}

Passing ==
    /\ pc \in BeforeTests => test = 0
    /\ pc \in {"before", "after"} => at \in 1 .. Len(Addresses) + 1
    /\ pc \in {"before", "running"} => after = NoSnapshot

SummedBefore ==
    pc = "before" =>
        /\ served = 0
        /\ ~before.missing => \E sum : Sums(sum, at - 1, hits, Addresses) /\ sum[at - 1] = before.hits

SummedRunning ==
    pc = "running" /\ ~before.missing /\ IsInjective(Addresses) =>
        \E sum : Sums(sum, Len(Addresses), hits, Addresses) /\ sum[Len(Addresses)] = before.hits + served

SummedAfter ==
    pc = "after" /\ ~before.missing /\ IsInjective(Addresses) =>
        \E sum : /\ Sums(sum, Len(Addresses), hits, Addresses) /\ sum[Len(Addresses)] = before.hits + served
                 /\ after.hits <= sum[at - 1]
                 /\ ~after.missing => after.hits = sum[at - 1]

HInv == Passing /\ SummedBefore /\ SummedRunning /\ SummedAfter /\ HitsAreOfThisTest

LEMMA SameAddresses ==
    ASSUME UNCHANGED <<setup, clustered, available>>
    PROVE  Addresses' = Addresses /\ (IsInjective(Addresses)' <=> IsInjective(Addresses))
<1>1. Addresses' = Addresses
  BY DEF Addresses, SelectedNodes, AvailablePrimaries, AvailableReplicas
<1>2. QED
  BY <1>1 DEF IsInjective

LEMMA InitHInv == SessionInit => HInv
BY DEF SessionInit, Init, HInv, Passing, SummedBefore, SummedRunning, SummedAfter, HitsAreOfThisTest

(* Whatever leaves the addresses and the counters alone.                     *)
LEMMA UntouchedHInv ==
    ASSUME HInv, UNCHANGED <<setup, pc, at, clustered, available, sessionVars>>
    PROVE  HInv'
<1>1. UNCHANGED <<pc, at, test, hits, before, after, served, reported>> /\ Addresses' = Addresses
  BY SameAddresses DEF sessionVars
<1>2. IsInjective(Addresses)' <=> IsInjective(Addresses)
  BY SameAddresses
<1>4. Passing'
  BY <1>1 DEF HInv, Passing
<1>5. SummedBefore'
  BY <1>1 DEF HInv, SummedBefore
<1>6. SummedRunning'
  BY <1>1, <1>2 DEF HInv, SummedRunning
<1>7. SummedAfter'
  BY <1>1, <1>2 DEF HInv, SummedAfter
<1>8. HitsAreOfThisTest'
  BY <1>1, <1>2 DEF HInv, HitsAreOfThisTest
<1>9. QED
  BY <1>4, <1>5, <1>6, <1>7, <1>8 DEF HInv

(* Before the tests nothing has been counted.                                *)
LEMMA EarlyKeepsHInv ==
    ASSUME HInv, pc \in BeforeTests, pc' \in BeforeTests \cup {"prepared", "failed"},
           UNCHANGED sessionVars
    PROVE  HInv'
<1>1. test = 0 /\ test' = 0
  BY DEF HInv, Passing, sessionVars
<1>2. pc' \notin {"before", "running", "after"}
  BY DEF BeforeTests
<1>3. QED
  BY <1>1, <1>2 DEF HInv, Passing, SummedBefore, SummedRunning, SummedAfter, HitsAreOfThisTest

LEMMA BeginTestKeepsHInv ==
    ASSUME TInv, HInv, BeginTest
    PROVE  HInv'
<1>0. setup \in Setups /\ at = 1 /\ at' = 1 /\ hits \in [Nodes -> Nat]
  BY DEF TInv, TypeOK, DeploymentTypeOK, Places, Looping, BeginTest
<1>1. Addresses' = Addresses /\ Len(Addresses) \in Nat
  BY <1>0, AddressesAreNodes, SameAddresses DEF BeginTest
<1>2. CASE pc' = "failed"
  BY <1>2 DEF HInv, Passing, SummedBefore, SummedRunning, SummedAfter, HitsAreOfThisTest, BeforeTests
<1>3. CASE pc' = "before"
  <2>1. Passing'
    BY <1>0, <1>1, <1>3 DEF Passing, BeforeTests, BeginTest
  <2>2. SummedBefore'
    <3>1. Sums([i \in 0 .. 0 |-> 0], 0, hits', Addresses')
      BY DEF Sums
    <3>2. at' - 1 = 0 /\ before'.hits = 0 /\ served' = 0
      BY <1>0 DEF BeginTest, NoSnapshot
    <3>3. \E sum : Sums(sum, 0, hits', Addresses') /\ sum[0] = 0
      BY <3>1 DEF Sums
    <3>4. QED
      BY <3>2, <3>3 DEF SummedBefore
  <2>3. QED
    BY <1>3, <2>1, <2>2 DEF HInv, SummedRunning, SummedAfter, HitsAreOfThisTest
<1>4. QED
  BY <1>2, <1>3 DEF BeginTest

LEMMA CaptureBeforeKeepsHInv ==
    ASSUME TInv, HInv, CaptureBefore
    PROVE  HInv'
<1>0. /\ setup \in Setups /\ hits \in [Nodes -> Nat] /\ before \in [hits : Nat, missing : BOOLEAN]
      /\ pc = "before" /\ pc' = "before" /\ at <= Len(Addresses) /\ at' = at + 1
  BY DEF TInv, TypeOK, DeploymentTypeOK, CaptureBefore
<1>a. /\ Addresses' = Addresses /\ Addresses \in Seq(Nodes) /\ Len(Addresses) \in Nat
      /\ IsInjective(Addresses)' <=> IsInjective(Addresses)
  BY <1>0, AddressesAreNodes, SameAddresses DEF CaptureBefore
<1>1. /\ Addresses' = Addresses /\ Addresses \in Seq(Nodes) /\ Len(Addresses) \in Nat
      /\ at \in 1 .. Len(Addresses) /\ (at + 1) - 1 = at /\ at - 1 \in 0 .. Len(Addresses)
  BY <1>0, <1>a DEF HInv, Passing
<1>2. Passing'
  BY <1>0, <1>1 DEF HInv, Passing, CaptureBefore, BeforeTests
<1>3. SummedBefore'
  <2> SUFFICES ASSUME ~before'.missing
               PROVE  \E sum : Sums(sum, at, hits', Addresses) /\ sum[at] = before'.hits
    BY <1>0, <1>1 DEF SummedBefore, HInv, CaptureBefore
  <2>1. Addresses[at] \in up /\ ~before.missing /\ before'.hits = before.hits + hits[Addresses[at]]
    BY <1>0 DEF CaptureBefore, Snapshot
  <2>2. PICK sum : Sums(sum, at - 1, hits, Addresses) /\ sum[at - 1] = before.hits
    BY <1>0, <2>1 DEF HInv, SummedBefore
  <2> DEFINE longer == [i \in 0 .. at |-> IF i < at THEN sum[i] ELSE before'.hits]
  <2>3. Addresses[at] \in Nodes
    BY <1>1, ElementOfSeq
  <2>4. before'.hits \in Nat
    BY <1>0, <2>1, <2>3
  <2>5. longer \in [0 .. at -> Nat] /\ longer[0] = 0
    BY <1>1, <2>2, <2>4 DEF Sums
  <2>6. ASSUME NEW i \in 1 .. at PROVE longer[i] = longer[i - 1] + hits[Addresses[i]]
    <3>1. longer[i - 1] = sum[i - 1]
      BY <1>1
    <3>2. CASE i < at
      <4>1. longer[i] = sum[i] /\ sum[i] = sum[i - 1] + hits[Addresses[i]]
        BY <1>1, <2>2, <3>2 DEF Sums
      <4>2. QED
        BY <3>1, <4>1
    <3>3. CASE i = at
      <4>1. longer[i] = before'.hits
        BY <1>1, <3>3
      <4>2. QED
        BY <2>1, <2>2, <3>1, <3>3, <4>1
    <3>4. QED
      BY <1>1, <3>2, <3>3
  <2>7. longer[at] = before'.hits
    BY <1>1
  <2> HIDE DEF longer
  <2>8. Sums(longer, at, hits', Addresses)
    BY <1>1, <2>5, <2>6 DEF Sums, CaptureBefore
  <2>9. QED
    BY <2>7, <2>8
<1>4. QED
  BY <1>0, <1>2, <1>3 DEF HInv, SummedRunning, SummedAfter, HitsAreOfThisTest

LEMMA StartWorkersKeepsHInv ==
    ASSUME TInv, HInv, StartWorkers
    PROVE  HInv'
<1>0. /\ pc = "before" /\ pc' = "running" /\ at > Len(Addresses) /\ setup \in Setups
      /\ UNCHANGED <<test, hits, before, after, served, reported>>
      /\ before.hits \in Nat
  BY DEF TInv, TypeOK, DeploymentTypeOK, StartWorkers, sessionVars
<1>1. Addresses' = Addresses /\ Len(Addresses) \in Nat
  BY <1>0, AddressesAreNodes, SameAddresses DEF StartWorkers
<1>2. at - 1 = Len(Addresses) /\ served = 0
  BY <1>0, <1>1 DEF HInv, Passing, SummedBefore
<1>4. SummedRunning'
  <2> SUFFICES ASSUME ~before.missing
               PROVE  \E sum : Sums(sum, Len(Addresses), hits, Addresses) /\ sum[Len(Addresses)] = before.hits + served
    BY <1>0, <1>1 DEF SummedRunning
  <2>1. PICK sum : Sums(sum, at - 1, hits, Addresses) /\ sum[at - 1] = before.hits
    BY <1>0 DEF HInv, SummedBefore
  <2>2. before.hits + served = before.hits
    BY <1>0, <1>2
  <2>3. QED
    BY <1>2, <2>1, <2>2
<1>5. QED
  BY <1>0, <1>4 DEF HInv, Passing, SummedBefore, SummedAfter, HitsAreOfThisTest, BeforeTests

LEMMA ServeKeepsHInv ==
    ASSUME TInv, HInv, NEW n \in Nodes, Serve(n)
    PROVE  HInv'
<1> DEFINE N == Len(Addresses)
<1>0. /\ pc = "running" /\ pc' = "running" /\ setup \in Setups
      /\ hits \in [Nodes -> Nat] /\ hits' = [hits EXCEPT ![n] = @ + 1] /\ served' = served + 1
      /\ UNCHANGED <<test, before, after, reported>>
      /\ before.hits \in Nat /\ served \in Nat
  BY HitsAssumption DEF TInv, TypeOK, DeploymentTypeOK, Serve, deploymentVars
<1>1. /\ Addresses' = Addresses /\ Addresses \in Seq(Nodes) /\ N \in Nat
      /\ DOMAIN Addresses = 1 .. N /\ \A i \in 1 .. N : Addresses[i] \in Nodes
  BY <1>0, AddressesAreNodes, ElementOfSeq, SameAddresses DEF Serve, deploymentVars
<1>2. SummedRunning'
  <2> SUFFICES ASSUME ~before.missing, IsInjective(Addresses)
               PROVE  \E sum : Sums(sum, N, hits', Addresses) /\ sum[N] = before.hits + served + 1
    <3>1. IsInjective(Addresses)' <=> IsInjective(Addresses)
      BY <1>1 DEF IsInjective
    <3>2. before.hits + served + 1 = before'.hits + served'
      BY <1>0
    <3>3. QED
      BY <1>0, <1>1, <3>1, <3>2 DEF SummedRunning
  <2>1. PICK sum : Sums(sum, N, hits, Addresses) /\ sum[N] = before.hits + served
    BY <1>0 DEF HInv, SummedRunning
  <2>2. PICK k \in 1 .. N : Addresses[k] = n
    BY <1>1 DEF Serve, ToSet
  <2>3. \A i \in 1 .. N : hits'[Addresses[i]] = hits[Addresses[i]] + (IF i = k THEN 1 ELSE 0)
    <3> SUFFICES ASSUME NEW i \in 1 .. N
                 PROVE  hits'[Addresses[i]] = hits[Addresses[i]] + (IF i = k THEN 1 ELSE 0)
      OBVIOUS
    <3>1. Addresses[i] = n <=> i = k
      BY <1>1, <2>2 DEF IsInjective
    <3>2. QED
      BY <1>0, <1>1, <3>1
  <2> DEFINE more == [i \in 0 .. N |-> sum[i] + (IF i < k THEN 0 ELSE 1)]
  <2>4. \A i \in 0 .. N : sum[i] \in Nat
    BY <2>1 DEF Sums
  <2>5. more \in [0 .. N -> Nat] /\ more[0] = 0
    BY <1>1, <2>1, <2>2, <2>4 DEF Sums
  <2>6. ASSUME NEW i \in 1 .. N PROVE more[i] = more[i - 1] + hits'[Addresses[i]]
    <3>1. i - 1 \in 0 .. N /\ i \in 0 .. N /\ i \in Int /\ k \in Int
      BY <1>1
    <3>2. /\ more[i] = sum[i] + (IF i < k THEN 0 ELSE 1)
          /\ more[i - 1] = sum[i - 1] + (IF i - 1 < k THEN 0 ELSE 1)
      BY <3>1
    <3>3. sum[i] = sum[i - 1] + hits[Addresses[i]] /\ sum[i - 1] \in Nat /\ hits[Addresses[i]] \in Nat
      BY <1>0, <1>1, <2>1, <2>4, <3>1 DEF Sums
    <3>4. hits'[Addresses[i]] = hits[Addresses[i]] + (IF i = k THEN 1 ELSE 0)
      BY <2>3
    <3> HIDE DEF more
    <3>5. QED
      BY <3>1, <3>2, <3>3, <3>4
  <2>7. more[N] = before.hits + served + 1
    BY <1>0, <1>1, <2>1, <2>2
  <2> HIDE DEF more
  <2>8. Sums(more, N, hits', Addresses)
    BY <1>1, <2>5, <2>6 DEF Sums
  <2>9. QED
    BY <2>7, <2>8
<1>3. Passing'
  BY <1>0 DEF HInv, Passing, BeforeTests
<1>4. QED
  BY <1>0, <1>2, <1>3 DEF HInv, SummedBefore, SummedAfter, HitsAreOfThisTest

LEMMA JoinWorkersKeepsHInv ==
    ASSUME TInv, HInv, JoinWorkers
    PROVE  HInv'
<1>0. /\ pc = "running" /\ pc' = "after" /\ at = 1 /\ at' = 1 /\ setup \in Setups
      /\ UNCHANGED <<test, hits, before, after, served, reported>>
      /\ after = NoSnapshot
  BY DEF TInv, TypeOK, DeploymentTypeOK, Places, Looping, JoinWorkers, sessionVars, HInv, Passing
<1>1. Addresses' = Addresses /\ Len(Addresses) \in Nat
  BY <1>0, AddressesAreNodes, SameAddresses DEF JoinWorkers
<1>3. SummedAfter'
  <2> SUFFICES ASSUME ~before.missing, IsInjective(Addresses)
               PROVE  \E sum : /\ Sums(sum, Len(Addresses), hits, Addresses)
                               /\ sum[Len(Addresses)] = before.hits + served
                               /\ after.hits <= sum[0]
                               /\ after.hits = sum[0]
    BY <1>0, <1>1 DEF SummedAfter, IsInjective
  <2>1. PICK sum : Sums(sum, Len(Addresses), hits, Addresses) /\ sum[Len(Addresses)] = before.hits + served
    BY <1>0 DEF HInv, SummedRunning
  <2>2. after.hits = 0 /\ sum[0] = 0
    BY <1>0, <2>1 DEF NoSnapshot, Sums
  <2>3. QED
    BY <2>1, <2>2
<1>4. QED
  BY <1>0, <1>1, <1>3 DEF HInv, Passing, SummedBefore, SummedRunning, HitsAreOfThisTest, BeforeTests

LEMMA CaptureAfterKeepsHInv ==
    ASSUME TInv, HInv, CaptureAfter
    PROVE  HInv'
<1> DEFINE N == Len(Addresses)
<1>0. /\ setup \in Setups /\ hits \in [Nodes -> Nat] /\ after \in [hits : Nat, missing : BOOLEAN]
      /\ pc = "after" /\ pc' = "after" /\ at <= N /\ at' = at + 1
      /\ UNCHANGED <<test, hits, before, served, reported>>
  BY DEF TInv, TypeOK, DeploymentTypeOK, CaptureAfter
<1>a. /\ Addresses' = Addresses /\ Addresses \in Seq(Nodes) /\ N \in Nat
      /\ IsInjective(Addresses)' <=> IsInjective(Addresses)
  BY <1>0, AddressesAreNodes, SameAddresses DEF CaptureAfter
<1>1. /\ Addresses' = Addresses /\ Addresses \in Seq(Nodes) /\ N \in Nat
      /\ at \in 1 .. N /\ (at + 1) - 1 = at /\ at - 1 \in 0 .. N
  BY <1>0, <1>a DEF HInv, Passing
<1>3. Passing'
  BY <1>0, <1>1 DEF HInv, Passing, BeforeTests
<1>4. SummedAfter'
  <2> SUFFICES ASSUME ~before.missing, IsInjective(Addresses)
               PROVE  \E sum : /\ Sums(sum, N, hits, Addresses) /\ sum[N] = before.hits + served
                               /\ after'.hits <= sum[at]
                               /\ ~after'.missing => after'.hits = sum[at]
    BY <1>0, <1>1 DEF SummedAfter, IsInjective
  <2>1. PICK sum : /\ Sums(sum, N, hits, Addresses) /\ sum[N] = before.hits + served
                   /\ after.hits <= sum[at - 1]
                   /\ ~after.missing => after.hits = sum[at - 1]
    BY <1>0 DEF HInv, SummedAfter
  <2>2. Addresses[at] \in Nodes
    BY <1>1, ElementOfSeq
  <2>3. /\ sum[at] = sum[at - 1] + hits[Addresses[at]] /\ sum[at - 1] \in Nat /\ sum[at] \in Nat
        /\ hits[Addresses[at]] \in Nat
    <3>1. sum \in [0 .. N -> Nat] /\ at \in 0 .. N /\ at - 1 \in 0 .. N
      BY <1>1, <2>1 DEF Sums
    <3>2. hits[Addresses[at]] \in Nat
      BY <1>0, <2>2
    <3>3. sum[at] = sum[at - 1] + hits[Addresses[at]]
      BY <1>1, <2>1 DEF Sums
    <3>4. QED
      BY <3>1, <3>2, <3>3
  <2>4. \/ after'.hits = after.hits + hits[Addresses[at]] /\ after'.missing = after.missing
        \/ after'.hits = after.hits /\ after'.missing
    BY <1>0 DEF CaptureAfter, Snapshot
  <2>5. QED
    BY <1>0, <2>1, <2>3, <2>4
<1>5. QED
  BY <1>0, <1>3, <1>4 DEF HInv, SummedBefore, SummedRunning, HitsAreOfThisTest

LEMMA EndTestKeepsHInv ==
    ASSUME TInv, HInv, EndTest
    PROVE  HInv'
<1> DEFINE N == Len(Addresses)
<1>0. /\ setup \in Setups /\ before.hits \in Nat /\ after.hits \in Nat /\ served \in Nat
      /\ pc = "after" /\ pc' \in {"prepared", "done"} /\ at > N
      /\ reported' = Difference
      /\ UNCHANGED <<hits, before, after, served>>
  BY HitsAssumption DEF TInv, TypeOK, DeploymentTypeOK, EndTest
<1>1. Addresses' = Addresses /\ N \in Nat
  BY <1>0, AddressesAreNodes, SameAddresses DEF EndTest
<1>2. at - 1 = N
  BY <1>0, <1>1 DEF HInv, Passing
<1>3. HitsAreOfThisTest'
  <2> SUFFICES ASSUME ~before.missing, IsInjective(Addresses)
               PROVE  /\ Difference <= served
                      /\ ~after.missing => Difference = served
    BY <1>0, <1>1 DEF HitsAreOfThisTest, IsInjective
  <2>1. /\ after.hits <= before.hits + served
        /\ ~after.missing => after.hits = before.hits + served
    BY <1>0, <1>2 DEF HInv, SummedAfter
  <2>2. QED
    BY <1>0, <2>1 DEF Difference
<1>4. QED
  BY <1>0, <1>3 DEF HInv, Passing, SummedBefore, SummedRunning, SummedAfter, BeforeTests

LEMMA NextKeepsHInv ==
    ASSUME TInv, HInv, [Next]_vars
    PROVE  HInv'
<1>1. CASE /\ Connect \/ DiscoverCluster(AfterDiscovery) \/ DiscoverStandalone(AfterDiscovery)
              \/ ConfigureNext("configured") \/ BeginIndex \/ IndexNext
           /\ UNCHANGED sessionVars
  <2>1. pc \in BeforeTests /\ pc' \in BeforeTests \cup {"prepared", "failed"}
    BY <1>1
    DEF TInv, TypeOK, BeforeTests, Steps,
        Connect, DiscoverCluster, DiscoverStandalone, AfterDiscovery,
        ConfigureNext, OpenNode, Start, SkipNode, ApplyEntry, ApplyDone, VerifyEntry, VerifyDone,
        BeginIndex, IndexNext, CheckForDrop, CheckForCreate, CheckIndex, DropFails, CreateFails, Fails,
        Drop, Create, StartWait, DetectEngine, PollServer, PollNode, PollDone
  <2>2. QED
    BY <1>1, <2>1, EarlyKeepsHInv
<1>2. CASE BeginTest \/ CaptureBefore \/ StartWorkers \/ JoinWorkers \/ CaptureAfter \/ EndTest
  BY <1>2, BeginTestKeepsHInv, CaptureBeforeKeepsHInv, StartWorkersKeepsHInv, JoinWorkersKeepsHInv,
     CaptureAfterKeepsHInv, EndTestKeepsHInv
<1>3. ASSUME NEW n \in Nodes, Server(n) PROVE HInv'
  <2>1. CASE Serve(n)
    BY <2>1, ServeKeepsHInv
  <2>2. CASE ~Serve(n)
    BY <1>3, <2>2, UntouchedHInv DEF Server, Fail, Recover, Learn, Build
  <2>3. QED
    BY <2>1, <2>2
<1>4. CASE UNCHANGED vars
  BY <1>4, UntouchedHInv DEF vars, deploymentVars
<1>5. QED
  BY <1>1, <1>2, <1>3, <1>4 DEF Next, MainThread

(* The hits that capture_snapshot and the difference of two snapshots report *)
(* for a test are the test's, for any number of servers that are counted     *)
(* once, whichever of them fail between any two commands.                    *)
THEOREM ReportedHits == Spec => []HitsAreOfThisTest
<1>1. Spec => [](SInv /\ TInv /\ HInv)
  BY InitSInv, NextKeepsSInv, InitTInv, NextKeepsTInv, InitHInv, NextKeepsHInv, PTL DEF Spec
<1>2. HInv => HitsAreOfThisTest
  BY DEF HInv
<1>3. QED
  BY <1>1, <1>2, PTL

-----------------------------------------------------------------------------
(* The index.  Nodes agree before it is changed, and the first address agrees *)
(* with the cluster from then on; what is ready stays so, as no node that has *)
(* the index that is wanted learns of another.                               *)

AfterIndex == {"prepared", "before", "running", "after", "done"}
AfterCreate == {"wait", "detect", "pollServer", "pollCluster"} \cup AfterIndex

Agreed ==
    /\ pc \in Discovering => \A n \in Nodes : index[n].id = wanted
    /\ pc \notin Discovering /\ Addresses # <<>> => index[First].id = wanted
    /\ \A n \in Nodes : index[n].id = None <=> index[n].state = "absent"
    /\ ~setup.dropindex => \A n \in Nodes : index[n].id \in {None, wanted}

Replaced ==
    /\ pc \in {"checkForDrop", "drop"} => setup.dropindex
    /\ pc = "drop" => Addresses # <<>>
    /\ setup.dropindex /\ ~unsure =>
          /\ pc \in {"checkForCreate", "create"} => Addresses # <<>> /\ wanted = None
          /\ pc \in AfterCreate /\ setup.vec => Addresses # <<>> /\ wanted = New

Waited ==
    /\ pc \in {"detect", "pollServer"} => Addresses # <<>> /\ conn \in {First, NoNode}
    /\ pc = "pollServer" => ~clustered
    /\ pc = "pollCluster" => clustered
    /\ pc \in AfterIndex /\ setup.vec /\ ~clustered =>
          Addresses # <<>> /\ index[First].state = "ready"

Telling == polls = 0 /\ detected = "memorydb" /\ ~setup.dropindex
Polled ==
    /\ pc = "pollCluster" /\ polls = 0 =>
          \A i \in 1 .. Len(links) : i >= at => links[i].state # "taken"
    /\ pc = "pollCluster" /\ Telling /\ ~busy =>
          \A i \in 1 .. Len(links) : i < at => index[links[i].node].state = "ready"
    /\ pc \in AfterIndex /\ setup.vec /\ clustered /\ Telling =>
          \A i \in 1 .. Len(links) : index[links[i].node].state = "ready"

XInv == Agreed /\ Replaced /\ Waited /\ Polled

LEMMA TInvParts ==
    ASSUME TInv
    PROVE  /\ setup \in Setups /\ at \in Nat \ {0} /\ pc \in Steps
           /\ index \in [Nodes -> [id : {None, Old, New}, state : IndexStates]]
           /\ links \in Seq(Link) /\ Len(links) \in Nat /\ polls \in Nat
           /\ \A i \in 1 .. Len(links) : links[i] \in Link
           /\ pc \notin Looping => at = 1
           /\ Addresses \in Seq(Nodes)
           /\ Addresses # <<>> => First \in Nodes
           /\ conn \in up \cup {NoNode} /\ up \subseteq Nodes
<1>1. /\ setup \in Setups /\ at \in Nat \ {0} /\ pc \in Steps
      /\ index \in [Nodes -> [id : {None, Old, New}, state : IndexStates]]
      /\ links \in Seq(Link) /\ polls \in Nat
      /\ pc \notin Looping => at = 1
      /\ conn \in up \cup {NoNode} /\ up \subseteq Nodes
  BY PollsAssumption DEF TInv, TypeOK, DeploymentTypeOK, IndexTypeOK, Steps, Places, Link
<1>2. Len(links) \in Nat /\ \A i \in 1 .. Len(links) : links[i] \in Link
  BY <1>1, LenProperties, ElementOfSeq
<1>3. Addresses \in Seq(Nodes) /\ Len(Addresses) \in Nat
  BY <1>1, AddressesAreNodes
<1>4. Addresses # <<>> => First \in Nodes
  <2> SUFFICES ASSUME Addresses # <<>> PROVE Addresses[1] \in Nodes
    BY DEF First
  <2>1. 1 \in 1 .. Len(Addresses)
    BY <1>3, EmptySeq, LenProperties
  <2>2. QED
    BY <1>3, <2>1, ElementOfSeq
<1>5. QED
  BY <1>1, <1>2, <1>3, <1>4

LEMMA InitXInv == SessionInit => XInv
<1> SUFFICES ASSUME SessionInit PROVE XInv
  OBVIOUS
<1>1. setup \in Setups /\ pc = "start"
      /\ index = [n \in Nodes |-> [id |-> wanted, state |-> setup.existing]]
      /\ wanted = IF setup.existing = "absent" THEN None ELSE Old
  BY DEF SessionInit, Init
<1>2. \A n \in Nodes : index[n].id = wanted /\ (index[n].id = None <=> index[n].state = "absent")
  BY <1>1 DEF None, Old
<1>3. Agreed
  BY <1>1, <1>2 DEF Agreed, Discovering
<1>4. Replaced /\ Waited /\ Polled
  BY <1>1 DEF Replaced, Waited, Polled, AfterCreate, AfterIndex
<1>5. QED
  BY <1>3, <1>4 DEF XInv

(* What the servers tell each other.                                         *)
LEMMA LearnOrBuild ==
    ASSUME TInv, XInv, NEW n \in Nodes, Learn(n) \/ Build(n)
    PROVE  /\ index' \in [Nodes -> [id : {None, Old, New}, state : IndexStates]]
           /\ \A m \in Nodes :
                 /\ index[m].id = wanted => index'[m].id = wanted
                 /\ index'[m].id \in {index[m].id, wanted}
                 /\ index'[m].id = None <=> index'[m].state = "absent"
                 /\ index[m].id = wanted /\ index[m].state = "ready" => index'[m].state = "ready"
<1> USE DEF IndexStates, None, Old, New
<1>0. /\ index \in [Nodes -> [id : {None, Old, New}, state : IndexStates]]
      /\ wanted \in {None, Old, New}
      /\ \A m \in Nodes : index[m].id = None <=> index[m].state = "absent"
  BY DEF XInv, Agreed, TInv, TypeOK, DeploymentTypeOK
<1>1. CASE Learn(n)
  <2> DEFINE new == IF wanted = None THEN Absent ELSE Fresh(wanted)
  <2>1. /\ new \in [id : {None, Old, New}, state : IndexStates]
        /\ new.id = wanted /\ (new.id = None <=> new.state = "absent")
    BY <1>0 DEF Absent, Fresh
  <2>2. index' = [index EXCEPT ![n] = new] /\ index[n].id # wanted
    BY <1>1 DEF Learn
  <2> HIDE DEF new
  <2>3. QED
    BY <1>0, <2>1, <2>2
<1>2. CASE Build(n)
  <2>1. PICK step \in {<<"queued", "building">>, <<"building", "degraded">>,
                       <<"building", "ready">>, <<"degraded", "ready">>} :
           index[n].state = step[1] /\ index' = [index EXCEPT ![n].state = step[2]]
    BY <1>2 DEF Build
  <2>2. step[1] \in {"queued", "building", "degraded"} /\ step[2] \in {"building", "degraded", "ready"}
    BY <2>1
  <2>3. /\ index' = [index EXCEPT ![n] = [index[n] EXCEPT !.state = step[2]]]
        /\ [index[n] EXCEPT !.state = step[2]] \in [id : {None, Old, New}, state : IndexStates]
        /\ [index[n] EXCEPT !.state = step[2]].id = index[n].id
        /\ [index[n] EXCEPT !.state = step[2]].state = step[2]
    BY <1>0, <2>1, <2>2
  <2>4. QED
    BY <1>0, <2>1, <2>2, <2>3
<1>3. QED
  BY <1>1, <1>2

LEMMA ServersKeepXInv ==
    ASSUME TInv, XInv, NEW n \in Nodes, Server(n)
    PROVE  XInv'
<1>0. UNCHANGED <<setup, pc, at, clustered, available, wanted, detected, busy, polls, unsure>>
      /\ Addresses' = Addresses /\ First' = First
  <2>1. UNCHANGED <<setup, pc, at, clustered, available, wanted, detected, busy, polls, unsure>>
    BY DEF Server, Fail, Recover, Learn, Build, Serve, deploymentVars, indexVars
  <2>2. QED
    BY <2>1, SameAddresses DEF First
<1>1. /\ conn' \in {conn, NoNode} /\ Len(links') = Len(links)
      /\ \A i \in 1 .. Len(links) : /\ links'[i].node = links[i].node
                                    /\ links'[i].state = "taken" => links[i].state = "taken"
  <2>1. CASE Fail(n) /\ BreakLinks(n)
    BY <2>1, TInvParts, BrokenTyped DEF Fail
  <2>2. CASE UNCHANGED <<conn, links>>
    BY <2>2
  <2>3. QED
    BY <2>1, <2>2 DEF Server, Recover, Learn, Build, Serve, deploymentVars, indexVars
<1>2. /\ \A m \in Nodes :
            /\ index[m].id = wanted => index'[m].id = wanted
            /\ index'[m].id \in {index[m].id, wanted}
            /\ index'[m].id = None <=> index'[m].state = "absent"
            /\ index[m].id = wanted /\ index[m].state = "ready" => index'[m].state = "ready"
  <2>1. CASE Learn(n) \/ Build(n)
    BY <2>1, LearnOrBuild
  <2>2. CASE index' = index
    BY <2>2 DEF XInv, Agreed
  <2>3. QED
    BY <2>1, <2>2 DEF Server, Fail, Recover, Serve, deploymentVars
<1>3. Agreed'
  BY <1>0, <1>2, TInvParts DEF XInv, Agreed
<1>4. Replaced'
  BY <1>0 DEF XInv, Replaced
<1>5. Waited'
  <2>1. pc \in AfterIndex => pc \notin Discovering
    BY DEF AfterIndex, Discovering
  <2>2. QED
    BY <1>0, <1>1, <1>2, <2>1, TInvParts DEF XInv, Waited, Agreed
<1>6. Polled'
  <2>1. \A i \in 1 .. Len(links) : links[i].node \in Nodes
    BY TInvParts DEF Link
  <2>2. \A m \in Nodes : ~setup.dropindex /\ index[m].state = "ready" => index[m].id = wanted
    BY DEF XInv, Agreed
  <2>3. QED
    BY <1>0, <1>1, <1>2, <2>1, <2>2 DEF XInv, Polled, Telling
<1>7. QED
  BY <1>3, <1>4, <1>5, <1>6 DEF XInv

(* Before the index, and in the tests.                                       *)
LEMMA DiscoveryKeepsXInv ==
    ASSUME TInv, XInv, Connect \/ DiscoverCluster(AfterDiscovery) \/ DiscoverStandalone(AfterDiscovery),
           UNCHANGED indexVars
    PROVE  XInv'
<1>0. setup' = setup /\ wanted' = wanted /\ index' = index /\ pc \in Discovering
      /\ pc' \in {"discover", "failed", "configured", "apply"}
  BY DEF Connect, DiscoverCluster, DiscoverStandalone, AfterDiscovery, serverVars, Discovering
<1>1. Addresses' # <<>> => First' \in Nodes
  <2> SUFFICES ASSUME Addresses' # <<>> PROVE Addresses'[1] \in Nodes
    BY DEF First
  <2>1. Addresses' \in Seq(Nodes)
    BY <1>0, TInvParts, NewAddresses
  <2>2. 1 \in 1 .. Len(Addresses')
    BY <2>1, EmptySeq, LenProperties
  <2>3. QED
    BY <2>1, <2>2, ElementOfSeq
<1>2. Agreed'
  BY <1>0, <1>1 DEF XInv, Agreed, Discovering
<1>3. Replaced' /\ Waited' /\ Polled'
  BY <1>0 DEF Replaced, Waited, Polled, AfterCreate, AfterIndex
<1>4. QED
  BY <1>2, <1>3 DEF XInv

LEMMA ConfigureKeepsXInv ==
    ASSUME TInv, XInv, ConfigureNext("configured"), UNCHANGED indexVars
    PROVE  XInv'
<1>0. /\ UNCHANGED <<setup, clustered, available, wanted, index>>
      /\ pc \in Configuring /\ pc' \in Configuring \cup {"failed", "configured"}
  BY DEF ConfigureNext, OpenNode, Start, SkipNode, ApplyEntry, ApplyDone, VerifyEntry, VerifyDone,
         Configuring, serverVars
<1>1. Addresses' = Addresses /\ First' = First
  BY <1>0, SameAddresses DEF First
<1>2. Agreed'
  BY <1>0, <1>1 DEF XInv, Agreed, Discovering, Configuring
<1>3. Replaced' /\ Waited' /\ Polled'
  BY <1>0 DEF Replaced, Waited, Polled, AfterCreate, AfterIndex, Configuring
<1>4. QED
  BY <1>2, <1>3 DEF XInv

LEMMA TestsKeepXInv ==
    ASSUME TInv, XInv, BeginTest \/ CaptureBefore \/ StartWorkers \/ JoinWorkers \/ CaptureAfter \/ EndTest,
           UNCHANGED indexVars
    PROVE  XInv'
<1>0. /\ UNCHANGED <<setup, clustered, available, wanted, index, detected, links, polls, unsure>>
      /\ pc \in AfterIndex /\ pc' \in AfterIndex \cup {"failed"}
  BY DEF BeginTest, CaptureBefore, StartWorkers, JoinWorkers, CaptureAfter, EndTest,
         AfterIndex, serverVars, indexVars
<1>1. Addresses' = Addresses /\ First' = First
  BY <1>0, SameAddresses DEF First
<1>2. Agreed' /\ Replaced' /\ Waited' /\ Polled'
  BY <1>0, <1>1 DEF XInv, Agreed, Replaced, Waited, Polled, Telling, Discovering, AfterCreate, AfterIndex
<1>3. QED
  BY <1>2 DEF XInv

-----------------------------------------------------------------------------

LEMMA CheckKeepsXInv ==
    ASSUME TInv, XInv, (BeginIndex /\ UNCHANGED indexVars) \/ CheckForDrop \/ CheckForCreate
                       \/ DropFails \/ CreateFails
    PROVE  XInv'
<1>0. /\ UNCHANGED <<setup, clustered, available, wanted, index, links, detected, busy, polls>>
      /\ pc \notin Discovering \cup AfterCreate
      /\ pc' \in {"prepared", "checkForDrop", "checkForCreate", "drop", "wait", "create", "failed"}
      /\ pc' = "prepared" => ~setup.vec
      /\ pc' = "checkForDrop" => setup.dropindex
  BY DEF BeginIndex, CheckForDrop, CheckForCreate, CheckIndex, DropFails, CreateFails, Fails,
         serverVars, indexVars, Discovering, AfterCreate, AfterIndex
<1>1. Addresses' = Addresses /\ First' = First
  BY <1>0, SameAddresses DEF First
<1>2. Agreed'
  BY <1>0, <1>1 DEF XInv, Agreed, Discovering
<1>3. Waited' /\ Polled'
  BY <1>0 DEF Waited, Polled, AfterIndex
<1>4. Replaced'
  <2>1. CASE BeginIndex /\ UNCHANGED indexVars
    BY <2>1 DEF BeginIndex, Replaced, AfterCreate, AfterIndex
  <2>2. CASE CheckForDrop
    <3>0. pc = "checkForDrop" /\ (~unsure' => FirstReachable)
      BY <2>2, Zenon DEF CheckForDrop, CheckIndex
    <3>1. (pc' = "drop" /\ IndexExists) \/ (pc' = "checkForCreate" /\ ~IndexExists)
      BY <2>2 DEF CheckForDrop, CheckIndex
    <3>2. ~unsure' /\ ~IndexExists => Addresses # <<>> /\ wanted = None
      BY <3>0 DEF XInv, Agreed, Discovering, IndexExists, FirstReachable
    <3>3. IndexExists => Addresses # <<>>
      BY DEF IndexExists, FirstReachable
    <3>4. setup.dropindex
      BY <3>0 DEF XInv, Replaced
    <3>5. QED
      BY <1>0, <3>0, <1>1, <3>1, <3>2, <3>3, <3>4 DEF Replaced, AfterCreate, AfterIndex
  <2>3. CASE CheckForCreate
    <3>0. pc = "checkForCreate" /\ (~unsure' => ~unsure)
      BY <2>3, Zenon DEF CheckForCreate, CheckIndex
    <3>1. (pc' = "wait" /\ IndexExists) \/ pc' = "create"
      BY <2>3 DEF CheckForCreate, CheckIndex
    <3>2. setup.dropindex /\ ~unsure => Addresses # <<>> /\ wanted = None /\ ~IndexExists
      BY <3>0 DEF XInv, Replaced, Agreed, Discovering, IndexExists
    <3>3. QED
      BY <1>0, <1>1, <3>0, <3>1, <3>2 DEF Replaced, AfterCreate, AfterIndex
  <2>4. CASE DropFails \/ CreateFails
    BY <2>4 DEF DropFails, CreateFails, Fails, Replaced, AfterCreate, AfterIndex
  <2>5. QED
    BY <2>1, <2>2, <2>3, <2>4
<1>5. QED
  BY <1>2, <1>3, <1>4 DEF XInv

LEMMA DropKeepsXInv ==
    ASSUME TInv, XInv, Drop
    PROVE  XInv'
<1>0. /\ UNCHANGED <<setup, clustered, available, links, detected, busy, polls, unsure>>
      /\ pc = "drop" /\ pc' = "checkForCreate" /\ wanted' = None
      /\ index' = [index EXCEPT ![First] = Absent] /\ Addresses # <<>>
      /\ index \in [Nodes -> [id : {None, Old, New}, state : IndexStates]] /\ First \in Nodes
      /\ setup.dropindex
  BY TInvParts DEF Drop, indexVars, XInv, Replaced
<1>1. Addresses' = Addresses /\ First' = First
  BY <1>0, SameAddresses DEF First
<1>2. Agreed'
  BY <1>0, <1>1 DEF XInv, Agreed, Absent, Discovering
<1>3. Replaced' /\ Waited' /\ Polled'
  BY <1>0, <1>1 DEF Replaced, Waited, Polled, AfterCreate, AfterIndex
<1>4. QED
  BY <1>2, <1>3 DEF XInv

LEMMA CreateKeepsXInv ==
    ASSUME TInv, XInv, Create
    PROVE  XInv'
<1>0. /\ UNCHANGED <<setup, clustered, available, links, detected, busy, polls, unsure>>
      /\ pc = "create" /\ pc' = "wait" /\ Addresses # <<>>
      /\ index \in [Nodes -> [id : {None, Old, New}, state : IndexStates]] /\ First \in Nodes
      /\ \/ index[First].id = None /\ wanted' = New /\ index' = [index EXCEPT ![First] = Fresh(New)]
         \/ index[First].id # None /\ UNCHANGED <<wanted, index>>
  BY TInvParts DEF Create, CanCreate, FirstReachable, indexVars
<1>1. Addresses' = Addresses /\ First' = First
  BY <1>0, SameAddresses DEF First
<1>2. index[First].id = wanted
  BY <1>0 DEF XInv, Agreed, Discovering
<1>3. Fresh(New).id = New /\ Fresh(New).state \in {"queued", "building"}
  BY DEF Fresh
<1>4. Agreed'
  <2>1. CASE UNCHANGED <<wanted, index>>
    BY <1>0, <1>1, <2>1 DEF XInv, Agreed, Discovering
  <2>2. CASE wanted = None /\ wanted' = New /\ index' = [index EXCEPT ![First] = Fresh(New)]
    BY <1>0, <1>1, <1>3, <2>2 DEF XInv, Agreed, Discovering, None, New
  <2>3. QED
    BY <1>0, <1>2, <2>1, <2>2
<1>5. Replaced'
  BY <1>0, <1>1, <1>2 DEF XInv, Replaced, AfterCreate, AfterIndex
<1>6. Waited' /\ Polled'
  BY <1>0 DEF Waited, Polled, AfterIndex
<1>7. QED
  BY <1>4, <1>5, <1>6 DEF XInv

LEMMA WaitKeepsXInv ==
    ASSUME TInv, XInv, StartWait \/ DetectEngine \/ PollServer \/ PollNode \/ PollDone
    PROVE  XInv'
<1>0. /\ UNCHANGED <<setup, clustered, available, wanted, index, unsure>>
      /\ pc \in AfterCreate \ AfterIndex /\ pc' \in AfterCreate \cup {"failed"}
  BY DEF StartWait, DetectEngine, PollServer, PollNode, PollDone, AfterCreate, AfterIndex,
         serverVars, indexVars
<1>1. Addresses' = Addresses /\ First' = First
  BY <1>0, SameAddresses DEF First
<1>2. Agreed' /\ Replaced'
  BY <1>0, <1>1 DEF XInv, Agreed, Replaced, Discovering, AfterCreate, AfterIndex
<1>3. CASE StartWait
  BY <1>1, <1>2, <1>3 DEF StartWait, FirstReachable, XInv, Waited, Polled, AfterIndex
<1>4. CASE DetectEngine
  <2>1. /\ pc = "detect" /\ at = 1 /\ at' = 1
        /\ clustered => pc' = "pollCluster"
        /\ ~clustered => pc' = "pollServer" /\ UNCHANGED conn
    BY <1>4, TInvParts DEF DetectEngine, Looping
  <2>2. clustered => \A i \in 1 .. Len(links') : links'[i].state = "open"
    <3> DEFINE set == setup.primaries \cap up
    <3>1. clustered => links' = LET ns == Kept(setup.nodes, set)
                                IN  [i \in DOMAIN ns |-> [node |-> ns[i], state |-> "open"]]
      BY <1>4 DEF DetectEngine
    <3> HIDE DEF set
    <3>2. QED
      BY <3>1, TInvParts, LinksTyped
  <2>3. Waited'
    BY <1>0, <1>1, <2>1 DEF XInv, Waited, AfterIndex
  <2>4. Polled'
    BY <1>0, <2>1, <2>2 DEF Polled, AfterIndex
  <2>5. QED
    BY <1>2, <2>3, <2>4 DEF XInv
<1>5. CASE PollServer
  <2>1. pc = "pollServer" /\ ~clustered /\ Addresses # <<>> /\ conn \in {First, NoNode}
    BY <1>5 DEF PollServer, XInv, Waited
  <2>2. pc' \in {"failed", "prepared", "pollServer"} /\ (pc' = "pollServer" => conn' = conn)
    BY <1>5, <2>1 DEF PollServer
  <2>3. pc' = "prepared" => index[First].state = "ready"
    BY <1>5, <2>1 DEF PollServer, ServerReady
  <2>4. Waited' /\ Polled'
    BY <1>0, <1>1, <2>1, <2>2, <2>3 DEF Waited, Polled, AfterIndex
  <2>5. QED
    BY <1>2, <2>4 DEF XInv
<1>6. CASE PollNode
  <2>1. /\ pc = "pollCluster" /\ pc' = "pollCluster" /\ at' = at + 1 /\ clustered /\ at \in Nat \ {0}
        /\ polls' = polls /\ detected' = detected /\ at <= Len(links)
        /\ busy' = (busy \/ (links[at].state # "taken" /\ InProgress(links[at])))
    BY <1>6, TInvParts DEF PollNode, XInv, Waited
  <2>2. /\ Len(links') = Len(links) /\ Len(links) \in Nat
        /\ \A i \in 1 .. Len(links) : /\ links'[i].node = links[i].node
                                      /\ i # at => links'[i] = links[i]
    BY <1>6, <2>1, TInvParts, TakenTyped DEF PollNode
  <2>3. Telling /\ ~busy' => index[links[at].node].state = "ready"
    <3>1. polls = 0 => links[at].state # "taken"
      BY <2>1, <2>2 DEF XInv, Polled
    <3>2. QED
      BY <2>1, <3>1 DEF Telling, InProgress
  <2>4. Polled'
    <3>1. polls' = 0 => \A i \in 1 .. Len(links') : i >= at' => links'[i].state # "taken"
      BY <2>1, <2>2 DEF XInv, Polled
    <3>2. Telling' /\ ~busy' => \A i \in 1 .. Len(links') : i < at' => index'[links'[i].node].state = "ready"
      <4> SUFFICES ASSUME Telling', ~busy', NEW i \in 1 .. Len(links), i < at'
                   PROVE  index[links[i].node].state = "ready"
        BY <1>0, <2>2
      <4>1. Telling /\ ~busy
        BY <1>0, <2>1 DEF Telling
      <4>2. CASE i < at
        BY <2>1, <4>1, <4>2 DEF XInv, Polled
      <4>3. CASE i = at
        BY <2>3, <4>1, <4>3
      <4>4. QED
        BY <2>1, <4>2, <4>3
    <3>3. QED
      BY <2>1, <3>1, <3>2 DEF Polled, AfterIndex
  <2>5. Waited'
    BY <1>0, <2>1 DEF Waited, AfterIndex
  <2>6. QED
    BY <1>2, <2>4, <2>5 DEF XInv
<1>7. CASE PollDone
  <2>1. /\ pc = "pollCluster" /\ clustered /\ at > Len(links) /\ links' = links /\ detected' = detected
        /\ pc' \in {"prepared", "failed", "pollCluster"} /\ (pc' = "prepared" => ~busy)
        /\ Len(links) \in Nat /\ at \in Nat /\ polls \in Nat
    BY <1>7, TInvParts DEF PollDone, XInv, Waited
  <2>2. /\ pc' = "pollCluster" => polls' = polls + 1
        /\ pc' # "pollCluster" => polls' = polls
    BY <1>7, <2>1 DEF PollDone, PollAgain
  <2>3. CASE pc' = "pollCluster"
    BY <1>0, <1>2, <2>1, <2>2, <2>3 DEF XInv, Waited, Polled, Telling, AfterIndex
  <2>4. CASE pc' = "prepared"
    BY <1>0, <1>2, <2>1, <2>2, <2>4 DEF XInv, Waited, Polled, Telling, AfterIndex
  <2>5. CASE pc' = "failed"
    BY <1>2, <2>5 DEF XInv, Waited, Polled, AfterIndex
  <2>6. QED
    BY <2>1, <2>3, <2>4, <2>5
<1>8. QED
  BY <1>3, <1>4, <1>5, <1>6, <1>7

LEMMA NextKeepsXInv ==
    ASSUME TInv, XInv, [Next]_vars
    PROVE  XInv'
<1>1. CASE MainThread
  BY <1>1, DiscoveryKeepsXInv, ConfigureKeepsXInv, CheckKeepsXInv, DropKeepsXInv, CreateKeepsXInv,
     WaitKeepsXInv, TestsKeepXInv DEF MainThread, IndexNext
<1>2. ASSUME NEW n \in Nodes, Server(n) PROVE XInv'
  BY <1>2, ServersKeepXInv
<1>3. CASE UNCHANGED vars
  <2>1. UNCHANGED <<setup, pc, at, conn, clustered, available, wanted, index,
                    detected, links, busy, polls, unsure>>
    BY <1>3 DEF vars, deploymentVars, indexVars
  <2>2. Addresses' = Addresses /\ First' = First
    BY <2>1, SameAddresses DEF First
  <2>3. QED
    BY <2>1, <2>2 DEF XInv, Agreed, Replaced, Waited, Polled, Telling
<1>4. QED
  BY <1>1, <1>2, <1>3 DEF Next

(* Vector tests search an index that this process created if --dropindex     *)
(* asked for that, and one that is built as far as the waits of              *)
(* src/benchmark/orchestrator.rs and src/metrics/backfill.rs can tell.       *)
THEOREM SearchedIndex == Spec => []IndexIsRight
<1>1. Spec => [](SInv /\ TInv /\ XInv)
  BY InitSInv, NextKeepsSInv, InitTInv, NextKeepsTInv, InitXInv, NextKeepsXInv, PTL DEF Spec
<1>2. TInv /\ XInv => IndexIsRight
  <2> SUFFICES ASSUME TInv, XInv, InTest, setup.vec PROVE IndexIsRight
    BY DEF IndexIsRight, DroppedIndexIsReplaced, IndexBuiltForTests
  <2>1. pc \in AfterIndex /\ pc \in AfterCreate /\ pc \notin Discovering
    BY DEF InTest, AfterIndex, AfterCreate, Discovering
  <2>2. DroppedIndexIsReplaced
    BY <2>1 DEF XInv, Agreed, Replaced, DroppedIndexIsReplaced
  <2>3. ~clustered => index[First].state = "ready"
    BY <2>1 DEF XInv, Waited
  <2>4. clustered /\ ReliableWait => \A n \in setup.primaries : index[n].state = "ready"
    <3> SUFFICES ASSUME clustered, ReliableWait, NEW n \in setup.primaries
                 PROVE  index[n].state = "ready"
      OBVIOUS
    <3>1. DOMAIN links = 1 .. Len(links)
      BY TInvParts, LenProperties
    <3>2. PICK i \in 1 .. Len(links) : n = links[i].node
      BY <3>1 DEF ReliableWait
    <3>3. QED
      BY <2>1, <3>2 DEF XInv, Polled, Telling, ReliableWait
  <2>5. QED
    BY <2>2, <2>3, <2>4 DEF IndexIsRight, IndexBuiltForTests
<1>3. QED
  BY <1>1, <1>2, PTL

=============================================================================
