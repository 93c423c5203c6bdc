----------------------------- MODULE RpcBridge -----------------------------
(***************************************************************************)
(* The shims that start and stop the daemon and call it over a socket in   *)
(* the file system (src/src/pi-shim.ts), and the server at the other end   *)
(* (src/src/daemon/rpc.ts).  Several shims may run; each daemon process    *)
(* binds the one path, and whoever binds it first removes what is there.   *)
(* That a daemon starts the server at all is up to its host: Bind need not *)
(* happen, and a shim then waits for its timeout.                          *)
(***************************************************************************)
EXTENDS Naturals, FiniteSets

CONSTANTS Shims, Daemons, NoDaemon, MaxCalls  \* bound: calls of all shims

ASSUME BridgeAssumption == NoDaemon \notin Daemons /\ MaxCalls \in Nat

VARIABLES
  spawning,   \* [shim -> where its spawnDaemon call stands]
  child,      \* [shim -> daemonProcess]
  daemonIs,   \* [daemon -> state of the process]
  sockFile,   \* the daemon that bound the path last, NoDaemon when the file is gone
  pidFile,    \* the daemon the pid file names
  rpcCall,    \* [shim -> its call: step, method and the daemon it is connected to]
  rpcCalls    \* calls made

bridgeVars == <<spawning, child, daemonIs, sockFile, pidFile, rpcCall, rpcCalls>>

NoCall == [step |-> "none", method |-> "none", peer |-> NoDaemon]

BridgeInit ==
  /\ spawning = [s \in Shims |-> "idle"]
  /\ child = [s \in Shims |-> NoDaemon]
  /\ daemonIs = [d \in Daemons |-> "off"]
  /\ sockFile = NoDaemon /\ pidFile = NoDaemon
  /\ rpcCall = [s \in Shims |-> NoCall]
  /\ rpcCalls = 0

Listening(d) == d # NoDaemon /\ daemonIs[d] \in {"listening", "exiting"}

-----------------------------------------------------------------------------
(* spawnDaemon.                                                            *)

\* isDaemonRunning: without the file the answer is no at once.
SpawnCall(s) ==
  /\ spawning[s] \in {"idle", "returned", "threw"} /\ rpcCalls < MaxCalls
  /\ rpcCalls' = rpcCalls + 1
  /\ spawning' = [spawning EXCEPT ![s] = IF sockFile = NoDaemon THEN "absent" ELSE "probing"]
  /\ UNCHANGED <<child, daemonIs, sockFile, pidFile, rpcCall>>

\* The probe connects, is refused or takes more than two seconds.
Probed(s) ==
  /\ spawning[s] = "probing"
  /\ \/ Listening(sockFile) /\ spawning' = [spawning EXCEPT ![s] = "returned"]
     \/ spawning' = [spawning EXCEPT ![s] = "absent"]
  /\ UNCHANGED <<child, daemonIs, sockFile, pidFile, rpcCall, rpcCalls>>

\* The process is started, after other waits, whatever has started meanwhile.
StartProcess(s, d) ==
  /\ spawning[s] = "absent" /\ daemonIs[d] = "off"
  /\ daemonIs' = [daemonIs EXCEPT ![d] = "starting"]
  /\ child' = [child EXCEPT ![s] = d]
  /\ pidFile' = d
  /\ spawning' = [spawning EXCEPT ![s] = "waiting"]
  /\ UNCHANGED <<sockFile, rpcCall, rpcCalls>>

\* Mutant of WaitedEnough: the time only counts while the file is there.
WaitedAtFile(s) == spawning[s] = "waiting" /\ sockFile # NoDaemon

\* Whether waitForSocket may have waited for its ten seconds.
WaitedEnough(s) == spawning[s] = "waiting"

\* waitForSocket finds a listener, or throws after ten seconds.
WaitForSocket(s) ==
  /\ spawning[s] = "waiting"
  /\ \/ Listening(sockFile) /\ spawning' = [spawning EXCEPT ![s] = "returned"]
     \/ WaitedEnough(s) /\ spawning' = [spawning EXCEPT ![s] = "threw"]
  /\ UNCHANGED <<child, daemonIs, sockFile, pidFile, rpcCall, rpcCalls>>

-----------------------------------------------------------------------------
(* The daemon.                                                             *)

\* startRpcServer removes the file that is there and listens.
Bind(d) ==
  /\ daemonIs[d] = "starting"
  /\ daemonIs' = [daemonIs EXCEPT ![d] = "listening"]
  /\ sockFile' = d
  /\ UNCHANGED <<spawning, child, pidFile, rpcCall, rpcCalls>>

\* stopRpcServer removes whatever file is there.
StopServer(d) ==
  /\ daemonIs[d] = "listening"
  /\ daemonIs' = [daemonIs EXCEPT ![d] = "gone"]
  /\ sockFile' = NoDaemon
  /\ UNCHANGED <<spawning, child, pidFile, rpcCall, rpcCalls>>

\* The process ends without stopRpcServer: it crashes, is killed, or exits half a
\* second after it took a shutdown request.
Exit(d) ==
  /\ daemonIs[d] \in {"starting", "listening", "exiting"}
  /\ daemonIs' = [daemonIs EXCEPT ![d] = "gone"]
  /\ UNCHANGED <<spawning, child, sockFile, pidFile, rpcCall, rpcCalls>>

-----------------------------------------------------------------------------
(* RpcClient.call and stopDaemon, whose first step is a shutdown call.     *)

RpcStart(s, method) ==
  /\ rpcCall[s].step \notin {"connecting", "sent"} /\ rpcCalls < MaxCalls
  /\ rpcCalls' = rpcCalls + 1
  /\ rpcCall' = [rpcCall EXCEPT ![s] =
                   [step |-> "connecting", method |-> method, peer |-> sockFile]]
  /\ UNCHANGED <<spawning, child, daemonIs, sockFile, pidFile>>

Connected(s) ==
  /\ rpcCall[s].step = "connecting" /\ Listening(rpcCall[s].peer)
  /\ rpcCall' = [rpcCall EXCEPT ![s].step = "sent"]
  /\ UNCHANGED <<spawning, child, daemonIs, sockFile, pidFile, rpcCalls>>

\* processRequest answers; the shutdown handler arms the exit of the process.
\* The handlers of this server touch nothing else.
Answered(s) ==
  LET c == rpcCall[s] IN
  /\ c.step = "sent" /\ Listening(c.peer)
  /\ rpcCall' = [rpcCall EXCEPT ![s].step = "resolved"]
  /\ daemonIs' = [daemonIs EXCEPT ![c.peer] = IF c.method = "shutdown" THEN "exiting" ELSE @]
  /\ child' = IF c.method = "shutdown" THEN [child EXCEPT ![s] = NoDaemon] ELSE child
  /\ UNCHANGED <<spawning, sockFile, pidFile, rpcCalls>>

\* Whom stopDaemon signals when its call failed.
Victim(s) == IF child[s] # NoDaemon THEN child[s] ELSE pidFile

\* The call is rejected: by an error of the connection (no file, nobody there), an
\* error answer (always for an unknown method), or the timeout, which alone ends a
\* call whose server went away without an error, for the close of the connection
\* has no handler.  stopDaemon then kills its process, or the one of the pid file.
RpcRejected(s) ==
  LET c == rpcCall[s] IN
  /\ c.step \in {"connecting", "sent"}
  /\ rpcCall' = [rpcCall EXCEPT ![s].step = "rejected"]
  /\ IF c.method = "shutdown"
       THEN /\ daemonIs' = IF Victim(s) \in Daemons /\ daemonIs[Victim(s)] # "off"
                             THEN [daemonIs EXCEPT ![Victim(s)] = "gone"] ELSE daemonIs
            /\ child' = [child EXCEPT ![s] = NoDaemon]
       ELSE UNCHANGED <<daemonIs, child>>
  /\ UNCHANGED <<spawning, sockFile, pidFile, rpcCalls>>

ShimProgress(s) ==
  \/ Probed(s) \/ (\E d \in Daemons : StartProcess(s, d)) \/ WaitForSocket(s)
  \/ Connected(s) \/ Answered(s) \/ RpcRejected(s)

BridgeNext ==
  \/ \E s \in Shims :
       \/ SpawnCall(s) \/ ShimProgress(s)
       \/ \E method \in {"status", "shutdown"} : RpcStart(s, method)
  \/ \E d \in Daemons : Bind(d) \/ StopServer(d) \/ Exit(d)

\* The waits of a shim end: their timers fire.
SpawnEnds(s) == Probed(s) \/ (\E d \in Daemons : StartProcess(s, d)) \/ WaitForSocket(s)
CallEnds(s) == Connected(s) \/ Answered(s) \/ RpcRejected(s)

BridgeFairness ==
  \A s \in Shims : WF_bridgeVars(SpawnEnds(s)) /\ WF_bridgeVars(CallEnds(s))

BridgeSpec == BridgeInit /\ [][BridgeNext]_bridgeVars
BridgeFairSpec == BridgeSpec /\ BridgeFairness

-----------------------------------------------------------------------------
(* Properties.                                                             *)

BridgeTypeOK ==
  /\ spawning \in [Shims -> {"idle", "probing", "absent", "waiting", "returned", "threw"}]
  /\ child \in [Shims -> Daemons \cup {NoDaemon}]
  /\ daemonIs \in [Daemons -> {"off", "starting", "listening", "exiting", "gone"}]
  /\ sockFile \in Daemons \cup {NoDaemon} /\ pidFile \in Daemons \cup {NoDaemon}
  /\ rpcCall \in [Shims -> [step : {"none", "connecting", "sent", "resolved", "rejected"},
                            method : {"none", "status", "shutdown"},
                            peer : Daemons \cup {NoDaemon}]]
  /\ rpcCalls \in 0..MaxCalls

\* Nobody waits for ever on the other end: every call of a shim is answered or
\* rejected, and every spawnDaemon returns or throws, even when the daemon never
\* binds the socket, dies in the middle, leaves a dead file behind, or another
\* daemon takes or removes the path (call, waitForSocket, isDaemonRunning).
BridgeSettles ==
  \A s \in Shims :
    /\ rpcCall[s].step = "connecting" ~> rpcCall[s].step \in {"resolved", "rejected"}
    /\ spawning[s] = "waiting" ~> spawning[s] \in {"returned", "threw"}
=============================================================================
