----------------------------- MODULE Killswitch -----------------------------
(***************************************************************************)
(* The kill switch (src/src/killswitch/kill.ts).  killReceived is read     *)
(* when a record comes in and set when its signature has been verified;    *)
(* then the handler runs, and may fail, which ends the process at once.    *)
(* Records whose signature is wrong are left out of what is in progress:   *)
(* their verification changes nothing.                                     *)
(***************************************************************************)
EXTENDS Clock, Integers, FiniteSets

CONSTANTS
  KillRecords,     \* the kill records the root key has signed
  KillStamp,       \* [record -> its ts]
  KillValidity,    \* the age up to which a record is accepted
  KillMaxTime,     \* bound: the clock
  MaxKillCopies    \* bound: copies that come in

ASSUME KillAssumption == KillValidity \in Nat /\ KillMaxTime \in Nat /\ MaxKillCopies \in Nat

VARIABLES
  rootKeySet,      \* handleKillSignal was called: the root key and the handler are there
  killReceived,
  killChecks,      \* the copies whose signature is being verified
  handlersRunning, \* kill handlers that have been called and have not ended
  handlerCalls,    \* how often the handler was called
  killCopies,      \* copies that came in
  processUp,       \* the process has not exited
  killsOverlapped  \* two copies were being verified at the same time

killVars == <<rootKeySet, killReceived, killChecks, handlersRunning, handlerCalls,
              killCopies, processUp, killsOverlapped>>

KillInit ==
  /\ ClockInit
  /\ rootKeySet = FALSE /\ killReceived = FALSE
  /\ killChecks = {}
  /\ handlersRunning = 0 /\ handlerCalls = 0 /\ killCopies = 0
  /\ processUp = TRUE /\ killsOverlapped = FALSE

handleKillSignal ==
  /\ processUp
  /\ rootKeySet' = TRUE
  /\ UNCHANGED <<killReceived, killChecks, handlersRunning, handlerCalls, killCopies,
                 processUp, killsOverlapped>>

\* Mutant of Awaited: what was received is not remembered.
AwaitedAnew == rootKeySet

Awaited == ~killReceived /\ rootKeySet

KillFresh(r) == now - KillStamp[r] \in (-KillValidity)..KillValidity

\* processKillRecord up to the verification.
processKillRecord(r) ==
  /\ processUp /\ killCopies < MaxKillCopies
  /\ Awaited /\ KillFresh(r)
  /\ killCopies' = killCopies + 1
  /\ killChecks' = killChecks \cup {killCopies}
  /\ killsOverlapped' = (killsOverlapped \/ killChecks # {})
  /\ UNCHANGED <<rootKeySet, killReceived, handlersRunning, handlerCalls, processUp>>

\* The signature is valid; whether a kill was received meanwhile is not asked.
KillVerified(c) ==
  /\ processUp /\ c \in killChecks
  /\ killChecks' = killChecks \ {c}
  /\ killReceived' = TRUE
  /\ handlersRunning' = handlersRunning + 1
  /\ handlerCalls' = handlerCalls + 1
  /\ UNCHANGED <<rootKeySet, killCopies, processUp, killsOverlapped>>

KillHandlerEnds ==
  /\ processUp /\ handlersRunning > 0
  /\ handlersRunning' = handlersRunning - 1
  /\ UNCHANGED <<rootKeySet, killReceived, killChecks, handlerCalls, killCopies,
                 processUp, killsOverlapped>>

\* process.exit(1) after a handler that throws.
KillHandlerFails ==
  /\ processUp /\ handlersRunning > 0
  /\ processUp' = FALSE
  /\ UNCHANGED <<rootKeySet, killReceived, killChecks, handlersRunning, handlerCalls,
                 killCopies, killsOverlapped>>

KillSteps ==
  \/ handleKillSignal
  \/ \E r \in KillRecords : processKillRecord(r)
  \/ \E c \in killChecks : KillVerified(c)
  \/ KillHandlerEnds
  \/ KillHandlerFails

KillNext ==
  \/ KillSteps /\ UNCHANGED now
  \/ TickUpTo(KillMaxTime) /\ UNCHANGED killVars

KillSpec == KillInit /\ [][KillNext]_<<killVars, now>>

-----------------------------------------------------------------------------
(* Properties.                                                             *)

KillTypeOK ==
  /\ rootKeySet \in BOOLEAN /\ killReceived \in BOOLEAN /\ processUp \in BOOLEAN
  /\ killChecks \subseteq 0..killCopies /\ killCopies \in 0..MaxKillCopies
  /\ handlersRunning \in 0..handlerCalls /\ handlerCalls \in 0..killCopies
  /\ killsOverlapped \in BOOLEAN

\* The handler is called at most once, however many signed records come in and
\* however often, unless one came in while another was being verified
\* (processKillRecord).
KillHandlerOnce == handlerCalls > 1 => killsOverlapped

\* A second kill is ignored (processKillRecord, "Kill already received, ignoring
\* duplicate").  One that came in while the first was being verified is not.
KillHandlerNeverAgain == handlerCalls <= 1
=============================================================================
