----------------------------- MODULE TorProcess -----------------------------
(***************************************************************************)
(* The Tor manager (src/src/network/tor.ts).  Each call of start runs a    *)
(* process of its own but all calls share one reference to "the" process,  *)
(* which any exit clears.  A start that times out leaves its process       *)
(* running, and stop gives up on a process that does not end.              *)
(***************************************************************************)
EXTENDS Naturals

CONSTANTS
  TorRuns,        \* the calls of start, each with its process
  NoTor,
  HostnameTries   \* how often readOnionHostname looks, 30

ASSUME TorAssumption == NoTor \notin TorRuns /\ HostnameTries \in Nat \ {0}

VARIABLES
  torStep,       \* [run -> where its start call stands]
  torTries,      \* [run -> looks at the hostname file so far]
  torProc,       \* [run -> its process: "none", "running", "failed" or "exited"]
  torKilled,     \* the processes a signal was sent to
  torProcess,    \* the process the manager refers to
  torStops,      \* the processes whose exit a stop call waits for
  hostnameFile,  \* whether Tor has written its hostname
  onionSaved,    \* whether the address file of an earlier run is there
  onionAddress   \* whether the manager knows the address

torVars ==
  <<torStep, torTries, torProc, torKilled, torProcess, torStops, hostnameFile, onionSaved,
    onionAddress>>

TorInit ==
  /\ torStep = [p \in TorRuns |-> "idle"]
  /\ torTries = [p \in TorRuns |-> 0]
  /\ torProc = [p \in TorRuns |-> "none"]
  /\ torKilled = {} /\ torStops = {} /\ torProcess = NoTor
  /\ hostnameFile = FALSE /\ onionSaved = FALSE /\ onionAddress = FALSE

\* start: directories, the saved address, and torrc.
TorStart(p) ==
  /\ torStep[p] = "idle"
  /\ torStep' = [torStep EXCEPT ![p] = "preparing"]
  /\ onionAddress' = (onionAddress \/ onionSaved)
  /\ UNCHANGED <<torTries, torProc, torKilled, torProcess, torStops, hostnameFile, onionSaved>>

\* The process is spawned; that it cannot be is reported later.
TorSpawned(p, state) ==
  /\ torStep[p] = "preparing"
  /\ torStep' = [torStep EXCEPT ![p] = "waiting"]
  /\ torProc' = [torProc EXCEPT ![p] = state]
  /\ torProcess' = p
  /\ UNCHANGED <<torTries, torKilled, torStops, hostnameFile, onionSaved, onionAddress>>

\* Bootstrapped 100%: the 60 seconds are cleared.
Bootstrapped(p) ==
  /\ torStep[p] = "waiting" /\ torProc[p] = "running"
  /\ torStep' = [torStep EXCEPT ![p] = "reading"]
  /\ UNCHANGED <<torTries, torProc, torKilled, torProcess, torStops, hostnameFile,
                 onionSaved, onionAddress>>

\* The 60 seconds pass, or the process reports that it could not be spawned.
StartRejected(p) ==
  /\ torStep[p] = "waiting"
  /\ torStep' = [torStep EXCEPT ![p] = "rejected"]
  /\ UNCHANGED <<torTries, torProc, torKilled, torProcess, torStops, hostnameFile,
                 onionSaved, onionAddress>>

\* Mutant of LooksOver: it looks until the file is there.
LooksOverNever(p) == torTries[p] > HostnameTries

LooksOver(p) == torTries[p] = HostnameTries

\* readOnionHostname looks once a second; its end settles start.
ReadHostname(p) ==
  /\ torStep[p] = "reading"
  /\ IF LooksOver(p)
       THEN /\ torStep' = [torStep EXCEPT ![p] = "rejected"]
            /\ UNCHANGED <<torTries, onionSaved, onionAddress>>
       ELSE IF hostnameFile
         THEN /\ torStep' = [torStep EXCEPT ![p] = "resolved"]
              /\ onionSaved' = TRUE /\ onionAddress' = TRUE
              /\ UNCHANGED torTries
         ELSE /\ torTries[p] < HostnameTries
              /\ torTries' = [torTries EXCEPT ![p] = @ + 1]
              /\ UNCHANGED <<torStep, onionSaved, onionAddress>>
  /\ UNCHANGED <<torProc, torKilled, torProcess, torStops, hostnameFile>>

\* The exit handler; it clears the reference whatever process that is, and ends
\* the stop calls that wait for this one.
TorExit(p) ==
  /\ torProc[p] = "running"
  /\ torProc' = [torProc EXCEPT ![p] = "exited"]
  /\ torStep' = [torStep EXCEPT ![p] = IF @ = "waiting" THEN "rejected" ELSE @]
  /\ torProcess' = NoTor
  /\ torStops' = torStops \ {p}
  /\ UNCHANGED <<torTries, torKilled, hostnameFile, onionSaved, onionAddress>>

WriteHostname ==
  /\ ~hostnameFile /\ (\E p \in TorRuns : torProc[p] = "running")
  /\ hostnameFile' = TRUE
  /\ UNCHANGED <<torStep, torTries, torProc, torKilled, torProcess, torStops, onionSaved,
                 onionAddress>>

\* stop: SIGTERM, which a process that could not be spawned never gets.
TorStop ==
  /\ torProcess # NoTor /\ torProcess \notin torKilled
  /\ torKilled' = IF torProc[torProcess] = "running" THEN torKilled \cup {torProcess}
                  ELSE torKilled
  /\ torStops' = torStops \cup {torProcess}
  /\ UNCHANGED <<torStep, torTries, torProc, torProcess, hostnameFile, onionSaved,
                 onionAddress>>

\* The five seconds pass.  SIGKILL is for a process no signal was sent to, so never
\* for one that got the SIGTERM.
StopTimeout(p) ==
  /\ p \in torStops
  /\ torStops' = torStops \ {p}
  /\ torKilled' = IF torProcess # NoTor /\ torProc[torProcess] = "running"
                  THEN torKilled \cup {torProcess} ELSE torKilled
  /\ torProcess' = NoTor
  /\ UNCHANGED <<torStep, torTries, torProc, hostnameFile, onionSaved, onionAddress>>

TorProgress(p) ==
  \/ \E state \in {"running", "failed"} : TorSpawned(p, state)
  \/ Bootstrapped(p) \/ StartRejected(p) \/ ReadHostname(p)

TorNext ==
  \/ \E p \in TorRuns : TorStart(p) \/ TorProgress(p) \/ TorExit(p) \/ StopTimeout(p)
  \/ WriteHostname
  \/ TorStop

\* Timers fire and the file system answers; nothing is assumed of Tor.
TorFairness == \A p \in TorRuns : WF_torVars(TorProgress(p))

TorSpec == TorInit /\ [][TorNext]_torVars
TorFairSpec == TorSpec /\ TorFairness

-----------------------------------------------------------------------------
(* Properties.                                                             *)

TorTypeOK ==
  /\ torStep \in [TorRuns -> {"idle", "preparing", "waiting", "reading", "resolved",
                              "rejected"}]
  /\ torTries \in [TorRuns -> 0..HostnameTries]
  /\ torProc \in [TorRuns -> {"none", "running", "failed", "exited"}]
  /\ torKilled \subseteq TorRuns /\ torStops \subseteq TorRuns
  /\ torProcess \in TorRuns \cup {NoTor}
  /\ {hostnameFile, onionSaved, onionAddress} \subseteq BOOLEAN

\* Whatever Tor does - it cannot be spawned, hangs before it has bootstrapped, is
\* stopped or dies in the middle, never writes its hostname - and however the
\* calls overlap, every start resolves or rejects (start, readOnionHostname).
TorStartSettles ==
  \A p \in TorRuns : torStep[p] = "preparing" ~> torStep[p] \in {"resolved", "rejected"}
=============================================================================
