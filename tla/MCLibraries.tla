---------------------------- MODULE MCLibraries ----------------------------
(***************************************************************************)
(* Model of the libraries a daemon is built from.  Each has its own state  *)
(* and only the clock is common, so one behaviour follows one of them      *)
(* (focus) while the others rest.                                          *)
(***************************************************************************)
EXTENDS RateLimiter, Flagging, Governance, Gossip, StreamPipeline, Killswitch,
        Attestation, OperatorIdentity, Board, Autonomy, Negotiation,
        KeyFile, Inbox

CONSTANTS ag1, d1, d2, k1, k2, k3, r1, r2, r3, t1, t2

\* d1 is authored here, with a signature collected in the first second; the string
\* that d2 carries is that of a suspension.
Suspend(duration, ts) ==
  [type |-> "governance.suspend", target |-> ag1, duration |-> duration, ts |-> ts]

MCDecree ==
  d1 :> [type |-> "governance.suspend", target |-> ag1, duration |-> 1,
         says |-> Suspend(1, 1), signers |-> {k2}]
  @@ d2 :> [type |-> "governance.kill", target |-> ag1, duration |-> 0,
            says |-> Suspend(0, 0), signers |-> {k1, k3}]
MCStampedAt == r1 :> 0 @@ r2 :> 1
MCTypeOfRecord == r1 :> "pub" @@ r2 :> "priv" @@ r3 :> "pub"
MCStampOfRecord == r1 :> 1 @@ r2 :> 0 @@ r3 :> 1
MCKillStamp == r1 :> 1 @@ r2 :> 3
MCDeadlineOf == t1 :> 2 @@ t2 :> 0

VARIABLE focus  \* the component this behaviour is about

Foci == {"limiter", "flagging", "governance", "gossip", "pipeline", "kill", "attestation", "identity", "board", "autonomy", "negotiation", "keyfile", "inbox"}

Init ==
  /\ focus \in Foci
  /\ ClockInit
  /\ LimiterInit
  /\ FlaggingInit
  /\ GovernanceInit
  /\ GossipInit
  /\ PipelineInit
  /\ KillInit
  /\ AttestationInit
  /\ IdentityInit
  /\ BoardInit
  /\ AutonomyInit
  /\ NegotiationInit
  /\ KeyFileInit
  /\ InboxInit

LimiterStep ==
  /\ focus = "limiter" /\ LimiterNext
  /\ UNCHANGED <<focus, flaggingVars, governanceVars, gossipVars, pipelineVars,
                 killVars, attestationVars, identityVars, boardVars,
                 autonomyVars, negotiations, keyFileVars, inboxVars>>

FlaggingStep ==
  /\ focus = "flagging" /\ FlaggingNext
  /\ UNCHANGED <<focus, limiterVars, governanceVars, gossipVars, pipelineVars,
                 killVars, attestationVars, identityVars, boardVars,
                 autonomyVars, negotiations, keyFileVars, inboxVars>>

GovernanceStep ==
  /\ focus = "governance" /\ GovernanceNext
  /\ UNCHANGED <<focus, limiterVars, flaggingVars, gossipVars, pipelineVars,
                 killVars, attestationVars, identityVars, boardVars,
                 autonomyVars, negotiations, keyFileVars, inboxVars>>

GossipStep ==
  /\ focus = "gossip" /\ GossipNext
  /\ UNCHANGED <<focus, limiterVars, flaggingVars, governanceVars, pipelineVars,
                 killVars, attestationVars, identityVars, boardVars,
                 autonomyVars, negotiations, keyFileVars, inboxVars>>

PipelineStep ==
  /\ focus = "pipeline" /\ PipelineNext
  /\ UNCHANGED <<focus, limiterVars, flaggingVars, governanceVars, gossipVars,
                 killVars, attestationVars, identityVars, boardVars,
                 autonomyVars, negotiations, keyFileVars, inboxVars>>

KillStep ==
  /\ focus = "kill" /\ KillNext
  /\ UNCHANGED <<focus, limiterVars, flaggingVars, governanceVars, gossipVars,
                 pipelineVars, attestationVars, identityVars, boardVars,
                 autonomyVars, negotiations, keyFileVars, inboxVars>>

AttestationStep ==
  /\ focus = "attestation" /\ AttestationNext
  /\ UNCHANGED <<focus, limiterVars, flaggingVars, governanceVars, gossipVars,
                 pipelineVars, killVars, identityVars, boardVars,
                 autonomyVars, negotiations, keyFileVars, inboxVars>>

IdentityStep ==
  /\ focus = "identity" /\ IdentityNext
  /\ UNCHANGED <<focus, limiterVars, flaggingVars, governanceVars, gossipVars,
                 pipelineVars, killVars, attestationVars, boardVars,
                 autonomyVars, negotiations, keyFileVars, inboxVars>>

BoardStep ==
  /\ focus = "board" /\ BoardNext
  /\ UNCHANGED <<focus, limiterVars, flaggingVars, governanceVars, gossipVars,
                 pipelineVars, killVars, attestationVars, identityVars,
                 autonomyVars, negotiations, keyFileVars, inboxVars>>

AutonomyStep ==
  /\ focus = "autonomy" /\ AutonomyNext
  /\ UNCHANGED <<focus, limiterVars, flaggingVars, governanceVars, gossipVars,
                 pipelineVars, killVars, attestationVars, identityVars,
                 boardVars, negotiations, keyFileVars, inboxVars>>

NegotiationStep ==
  /\ focus = "negotiation" /\ NegotiationNext
  /\ UNCHANGED <<focus, limiterVars, flaggingVars, governanceVars, gossipVars,
                 pipelineVars, killVars, attestationVars, identityVars,
                 boardVars, autonomyVars, keyFileVars, inboxVars, now>>

KeyFileStep ==
  /\ focus = "keyfile" /\ KeyFileNext
  /\ UNCHANGED <<focus, limiterVars, flaggingVars, governanceVars, gossipVars,
                 pipelineVars, killVars, attestationVars, identityVars,
                 boardVars, autonomyVars, negotiations, inboxVars, now>>

InboxStep ==
  /\ focus = "inbox" /\ InboxNext
  /\ UNCHANGED <<focus, limiterVars, flaggingVars, governanceVars, gossipVars,
                 pipelineVars, killVars, attestationVars, identityVars,
                 boardVars, autonomyVars, negotiations, keyFileVars, now>>

Next ==
  \/ LimiterStep
  \/ FlaggingStep
  \/ GovernanceStep
  \/ GossipStep
  \/ PipelineStep
  \/ KillStep
  \/ AttestationStep
  \/ IdentityStep
  \/ BoardStep
  \/ AutonomyStep
  \/ NegotiationStep
  \/ KeyFileStep
  \/ InboxStep

vars ==
  <<focus, now, limiterVars, flaggingVars, governanceVars, gossipVars,
    pipelineVars, killVars, attestationVars, identityVars, boardVars,
    autonomyVars, negotiations, keyFileVars, inboxVars>>

Spec == Init /\ [][Next]_vars

-----------------------------------------------------------------------------
\* The types of all components.
LibrariesTypeOK ==
  /\ LimiterTypeOK
  /\ FlaggingTypeOK
  /\ GovernanceTypeOK
  /\ GossipTypeOK
  /\ PipelineTypeOK
  /\ KillTypeOK
  /\ AttestationTypeOK
  /\ IdentityTypeOK
  /\ BoardTypeOK
  /\ AutonomyTypeOK
  /\ NegotiationTypeOK
  /\ KeyFileTypeOK
  /\ InboxTypeOK
=============================================================================
