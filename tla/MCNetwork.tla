----------------------------- MODULE MCNetwork -----------------------------
(***************************************************************************)
(* Model of what surrounds the daemon's own protocol: the links to peers,  *)
(* the table of known peers, the relay, the shims with their daemons, Tor  *)
(* and the children.  They share no state, so one behaviour follows one of *)
(* them (focus) while the others rest.                                     *)
(***************************************************************************)
EXTENDS PeerLink, Discovery, Relay, RpcBridge, TorProcess, SpawnLifecycle, TLC

CONSTANTS ag1, ag2, p1, p2, p3, r1, r2, r3, r4, r5

MCAuthorOf == r1 :> ag1 @@ r2 :> ag1 @@ r3 :> ag1 @@ r4 :> ag2 @@ r5 :> ag2
MCKindOf == r1 :> "online" @@ r2 :> "publishable" @@ r3 :> "publishable"
            @@ r4 :> "online" @@ r5 :> "other"
MCStampOf == r1 :> 1 @@ r2 :> 3 @@ r3 :> 2 @@ r4 :> 1 @@ r5 :> 2
MCUsernameOf == ag1 :> "rird_prefix" @@ ag2 :> "rird_prefix"
MCBootstrapLists == {<<>>, <<p1, p2>>, <<p2, p3, p1>>}

VARIABLE focus  \* the component this behaviour is about

Foci == {"links", "discovery", "relay", "bridge", "tor", "children"}

Init ==
  /\ focus \in Foci
  /\ ClockInit
  /\ LinkInit
  /\ DiscoveryInit
  /\ RelayInit
  /\ BridgeInit
  /\ TorInit
  /\ SpawnInit

LinkStep ==
  /\ focus = "links" /\ LinkNext
  /\ UNCHANGED <<focus, discoveryVars, relayVars, bridgeVars, torVars, spawnVars,
                 now>>

DiscoveryStep ==
  /\ focus = "discovery" /\ DiscoveryNext
  /\ UNCHANGED <<focus, linkVars, relayVars, bridgeVars, torVars, spawnVars>>

RelayStep ==
  /\ focus = "relay" /\ RelayNext
  /\ UNCHANGED <<focus, linkVars, discoveryVars, bridgeVars, torVars, spawnVars, now>>

BridgeStep ==
  /\ focus = "bridge" /\ BridgeNext
  /\ UNCHANGED <<focus, linkVars, discoveryVars, relayVars, torVars, spawnVars, now>>

TorStep ==
  /\ focus = "tor" /\ TorNext
  /\ UNCHANGED <<focus, linkVars, discoveryVars, relayVars, bridgeVars, spawnVars,
                 now>>

SpawnStep ==
  /\ focus = "children" /\ SpawnNext
  /\ UNCHANGED <<focus, linkVars, discoveryVars, relayVars, bridgeVars, torVars, now>>

Next ==
  \/ LinkStep
  \/ DiscoveryStep
  \/ RelayStep
  \/ BridgeStep
  \/ TorStep
  \/ SpawnStep

vars ==
  <<focus, now, linkVars, discoveryVars, relayVars, bridgeVars, torVars,
    spawnVars>>

Spec == Init /\ [][Next]_vars
        /\ WF_linkVars(focus = "links" /\ LinkEvents)
        /\ \A s \in Shims : /\ WF_bridgeVars(focus = "bridge" /\ SpawnEnds(s))
                          /\ WF_bridgeVars(focus = "bridge" /\ CallEnds(s))
        /\ \A p \in TorRuns : WF_torVars(focus = "tor" /\ TorProgress(p))
        /\ WF_spawnVars(focus = "children" /\ TerminateProgress)
        /\ WF_spawnVars(focus = "children" /\ DayPasses)
        /\ \A k \in SweepSlots : WF_spawnVars(focus = "children" /\ MonitorCheck(k))

-----------------------------------------------------------------------------
\* The types of all components.
NetworkTypeOK ==
  /\ LinkTypeOK
  /\ DiscoveryTypeOK
  /\ RelayTypeOK
  /\ BridgeTypeOK
  /\ TorTypeOK
  /\ SpawnTypeOK

\* No caller of the machine's own processes waits for ever: the calls of a shim
\* end (call, spawnDaemon of pi-shim.ts) and so does every start of Tor (tor.ts).
CallsSettle == BridgeSettles /\ TorStartSettles
=============================================================================
