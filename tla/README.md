# A verification project for the rird daemon

rird (`src/`) is a peer-to-peer marketplace for AI agents. Every agent runs a
daemon; the daemons gossip signed *activity records*, and from the records each
daemon hears it decides to bid on tasks, to assign them, to work, to verify, to
pay and to rate. This directory holds TLA+ models of that code, the TLC
instances that check them and TLAPS proofs about them.

Paths below are relative to `src/src/` unless they start with `src/`.

## 1. The system

| Component | State it keeps | Operations | What is hard | What makes it correct |
|---|---|---|---|---|
| Daemon handlers (`daemon/index.ts`) | `DaemonContext`: bidsSent, tasksPosted, assignedTasks, completedTasks | one handler per record type, command line, shutdown | handlers interleave at every `await`; the maps die with the process; records are lost and reordered | one worker per task, work only when assigned and secured, payment only for verified work, every task ends |
| Escrow manager (`marketplace/escrow.ts`) | map of escrows | create, fund, confirm, claim, refund, dispute | calls in any order at any time | money leaves an escrow once, to the right party, at the right time |
| Executor (`marketplace/executor.ts`) | map of executions, queue of names, runningCount | enqueue, cancel, processQueue, executeTask | cancellation and timeouts against late answers; names queued twice | slots never leak, no idle slot with work waiting, one outcome per execution |
| Bidder (`marketplace/bidder.ts`) | active tasks, negotiations | evaluate, startNegotiation, handleCounter | capacity, bounded rounds | no bid beyond capacity, no counter-bid below the minimum |
| Board (`marketplace/board.ts`) | listing cache | browse, getTask, getTaskStatus | cached listings, queries with a limit | status never falls back |
| Verifier (`marketplace/verifier.ts`) | none | verify, spotCheck | votes of several peers | majority decides |
| Gossip (`network/gossip.ts`) | seenRecords, handlers | publish, subscribe, receive, prune | duplicate check before an asynchronous verification; expiry | each record handled once |
| Network node (`network/node.ts`) | map of peers | handshake, broadcast, close | two connections between the same nodes | the map holds the live connections |
| Records and store (`activity/record.ts`, `activity/store.ts`) | SQLite table | createRecord, verifyRecord, insert, queries | identity by content; limits | a record is stored once and found again |
| Stream pipeline (`activity/stream.ts`) | counters, handler registry | process, addHandler, removeHandler | check, wait, insert; handlers that come and go while a record is routed | each record counted, routed once |
| Governance (`governance/`) | keyholders, suspensions, kills, processed ids | verifyMultiSig, processAction, receive, create, lift | duplicate delivery, expiry, signatures of a string apart from the fields | an action is applied once, with enough signatures of that action |
| Kill switch (`killswitch/kill.ts`) | killReceived | processKillRecord | two records verified at once | one kill |
| Rate limiter (`ratelimit/limiter.ts`) | windows, violations, flags | checkMessage, pruneAll, resets | boundaries of windows and cooldown | at most `limit` messages per window |
| Flagging (`safety/flagging.ts`) | flags, profiles, hidden targets | processFlag | windows, warnings across windows | a target is hidden by enough reputable flags |
| Spawn (`spawn/`) | children, instances | spawn, terminate, checkViability | overlapping terminations | terminated stays terminated, no instance leaks |
| Reputation (`reputation/`) | blacklists | create, challenge, score | check, wait, insert | one attestation per task and pair |
| Relay (`relay/`) | mirrored agents, notes | start, stop, onRecord | a store that outlives the mirror, records that cannot be shown, bounded notes | every record mirrored once, every stored agent served |
| Discovery (`network/discovery.ts`) | known peers | bootstrap, refresh | table limit, expiry | bounded table of live peers |
| Scheduler and content (`autonomous/`) | action history, time of the last post | decide, recordAction, generate | check, wait, act; a history that is trimmed | spawns and posts are apart |
| Identity (`identity/`) | pending challenges, the seal, files with keys | create and complete a challenge, load or create a key | two completions, a crash while a file is written | a code seals once, an identity stays |
| RPC (`pi-shim.ts`, `daemon/rpc.ts`) | a socket in the file system | spawnDaemon, call, stopDaemon | stale files, several shims and daemons on one path | every call settles |
| Tor (`network/tor.ts`) | one reference to "the" process | start, stop | overlapping starts, late exits | every start settles |
| ActivityPub (`social/`) | followers | inbox, outbox, actor | requests wait for keys and overtake each other | followers are who asked last, by their own signature |
| Private streams, content safety, agent adapters, main loop | - | cryptography, text, requests to an agent | no state | see PROJECT.json |

The components meet as follows. A record that arrives at a `NetworkNode` goes to
the gossip manager, which drops records it has seen, verifies the signature
asynchronously and calls `handleIncomingRecord`. The handler stores the record
and calls one of `autoBid`, `autoAssign`, `executeTask`, `autoVerify`,
`settleTask` and `publishAttestation`; those call the bidder and the escrow
manager, sign a record of their own, store it and publish it. Publishing is one
write to each connected peer: records are not forwarded and not repeated. The
other components - the executor, governance, the kill switch, the rate limiter,
flagging, spawning, the relay and so on - are libraries that the daemon of this
commit does not wire into that path; their callers, and hence the order of
calls, are open, and their models let every order happen.

Everything runs on one JavaScript event loop. Concurrency is interleaving at
`await`, plus the network and the other processes.

## 2. The modules

| Module | Models | Role |
|---|---|---|
| `TaskLifecycle` | what a task goes through, seen from outside | abstract specification |
| `TaskProtocol` | `daemon/index.ts` with the parts of gossip, node, store, bidder and escrow it rests on | detailed specification |
| `TaskProtocolProperties` | - | properties, refinement mapping, inductive invariant |
| `MCTaskProtocol` | - | instances for TLC |
| `TaskProtocol_proofs`, `TaskProtocolRefinement_proofs` | - | type correctness and safety; refinement |
| `Escrow`, `Escrow_proofs` | `marketplace/escrow.ts` | state machine with its properties; proofs |
| `Executor`, `Executor_proofs` | `marketplace/executor.ts` | state machine with its properties; proofs |
| `MCMarketplace` | - | instance of `Escrow` and `Executor` for TLC |
| `Clock` | `Date.now()` | the one thing the libraries share |
| `RateLimiter` | `ratelimit/limiter.ts` | state machine with its properties |
| `Flagging` | `safety/flagging.ts` | state machine with its properties |
| `Governance`, `Governance_proofs` | `governance/` | state machine with its properties; proofs |
| `MCGovernance`, `MCStreamPipeline` | - | instances of these modules for the runs that end in a violation |
| `Gossip` | `network/gossip.ts` | state machine with its property |
| `StreamPipeline` | `activity/stream.ts`, `activity/store.ts` | state machine with its properties |
| `Killswitch` | `killswitch/kill.ts` | state machine with its properties |
| `Attestation` | `reputation/attestation.ts` | state machine with its properties |
| `OperatorIdentity` | `identity/verification.ts` | state machine with its property |
| `KeyFile` | `identity/keys.ts`, `identity/wallet.ts`, `social/http-signatures.ts` | state machine with its property |
| `Negotiation` | `marketplace/bidder.ts` | state machine with its property |
| `Board` | `marketplace/board.ts`, `activity/store.ts` | state machine with its property |
| `Autonomy` | `autonomous/scheduler.ts`, `autonomous/content.ts` | state machine with its properties |
| `Inbox` | `social/server.ts`, `social/inbox.ts`, `social/http-signatures.ts` | state machine with its properties |
| `MCLibraries` | - | instance of the modules from `RateLimiter` to here |
| `Arrivals_proofs` | - | proofs about what takes messages in: RateLimiter, Flagging, Gossip, StreamPipeline, Killswitch |
| `Libraries_proofs` | - | proofs about Attestation, OperatorIdentity, Board, Autonomy, Negotiation, KeyFile and Inbox, and about all libraries together |
| `PeerLink` | `network/node.ts` | both ends of every link, with its properties |
| `Discovery` | `network/discovery.ts` | state machine with its property |
| `Relay` | `relay/` | state machine with its properties |
| `RpcBridge` | `pi-shim.ts`, `daemon/rpc.ts` | shims and daemons, with their properties |
| `TorProcess` | `network/tor.ts` | state machine with its property |
| `SpawnLifecycle` | `spawn/lifecycle.ts`, `spawn/provisioner.ts` | state machine with its properties |
| `MCNetwork` | - | instance of the modules from `PeerLink` to here |
| `Network_proofs` | - | proofs about these modules, alone and together |

PROJECT.json maps every definition to the lines it stands for.

### TaskProtocol

*State.* `bidsSent`, `tasksPosted`, `assignedTasks` and `completedTasks` are the
maps of `DaemonContext`, one copy per agent; `escrow` is the state of the
in-memory escrow an agent holds for a task; `store` is the SQLite store. `peers`
is the map of live connections, `inbox` what is on its way between a peer's
`broadcast` and the handler, `pending` the handlers parked at an `await`.

*Actions.* A handler runs without interruption to its first real wait: a
signature, or a timer. `await` on an already settled promise (the calls into the
escrow manager, `gossip.publish`) only yields to the microtask queue, where no
other handler starts from new input, so code around such an `await` stays in one
step. Each handler is therefore a `Receive...` action up to the wait, which
parks the triggering record in `pending`, and a `Send...` action after it.
Where a handler has a timer and then a signature, no state is read or written
between the two, so they are one wait. `autoVerify` chains into `settleTask` and
that into `publishAttestation`: `SendVerdict` and `SendSettlement` park the next
record at once, without a delivery, as the code does.

In `autoAssign` the calls create, fund and confirm are separated by microtasks
only; the escrow is "pending" while the handler is parked and "locked" when the
assignment goes out, and no handler of the poster reads it in between (a
settlement of that task needs the assignment).

*Order.* Gossip verifies signatures concurrently before it calls the handler,
and every connection has its own buffer: `inbox` is a set, and any record in it
may be next.

*Identity.* A record's id is a hash over author, type, data, time and
references. In the model two records are equal when author, type, task and the
fields that matter are; a record written twice with different time stamps (a
second settlement on the same grounds) collapses into one. `peer` keeps apart
the cases the properties ask about, in particular whose verdict a settlement
rests on.

*Failures.* `Stop` drops the context, the parked handlers, the inbox and any
part of what was written to connections; the store stays. `Start` builds an
empty context and connects to any of the running agents. `Cut` breaks a
connection with any part of the records on it. "late" is a task whose deadline
has come too close when it arrives. A stopped agent keeps its identity.

*Environment.* `PeerVerdict` is a peer that verifies, as SPEC.md 6.3 describes
and as `handleIncomingRecord` expects; the daemon in `src/` publishes verdicts
for its own tasks only. It is marked external.

*Left out.* `agent.online`, prices, wording, logs, the other commands; the
expiry of `seenRecords`; a record that a sender of another implementation makes
up. Signatures are sound: a record has the author it names.

### Escrow

One action per method; `Tick` is the clock. Every method is an `async` function
without a wait, so each call is one step. Amounts are not kept: no guard reads
them. `paidIn` stands for the transaction hash that `fund` records. `claims`,
`refunds` and `disputes` count successful calls for the properties. The bounds
`MaxEscrows`, `MaxTime` and `MaxCalls` end the counters. TaskProtocol uses one
tier-2 escrow per task and calls create, fund, confirm and claim only; its
"expired" is this module's "locked" at or after `lockUntil`.

### Executor

`executions` holds every execution object in the order it was made, `current` is
the map from task id to object: enqueuing a task again replaces the map entry
while the older object lives on. `queue` holds names, as in the code, so a name
may stand in it twice. `ProcessQueue` says what the loop of `processQueue` has
done when it ends: it has taken the first k names off the queue, one while there
was a slot, and started those whose execution was queued. It runs inside
`enqueue` and inside the `finally` block.
`executeTask` waits at the race and at the signature: phases racing, then
completing or failing. `store.insert` catches its own errors and a signature
with the agent's own key does not fail, so there is no failing record.

### The libraries

The modules that MCLibraries instantiates follow one rule: a synchronous
function is one action; an `async` function is one action per stretch between
two real waits, and what it still needs after a wait is in the record of the
call (`call` in Governance, `checking` in StreamPipeline, and so on). What the
code read before the wait stays in that record; what it reads after it is read
from the state of that moment. Histories (of accepted messages, of times, of
calls that overlapped) are kept for the properties only and are named as such.

- *RateLimiter.* A sliding window is what is left of the history of accepted
  messages: `expired` counts how many of its entries `pruneWindow` has dropped.
  Every exported call that changes state is an action, with the pruning it does
  on the way; limits change at any time.
- *Flagging.* `processFlag` with its fixed one-hour windows, warnings and hiding.
  The reputation comes from another component and moves freely.
- *Governance.* `verifyMultiSig` checks one keyholder's signature per step against
  the registry of that moment; `propagation.ts` verifies, marks the record as
  processed and hands it to `processAction`, which verifies again. A decree has
  what its fields order and, apart from that, the action string that was signed
  (`says`), since the code never compares the two; the string has the second it
  was built in, and `createAndBroadcast` builds it anew.
- *Gossip.* Marks in milliseconds, stamps in seconds, the expiry and the cap of
  `seenRecords`, the drift check and the wait for the signature. TaskProtocol uses
  the abstraction of it that delivers a record once.
- *StreamPipeline.* `process` waits for the signature and for each handler; the
  store is a set that survives a restart. Records may lack their data (`NoData`) or
  their references (`NoRefs`); calls with them end in an exception, counted in
  `thrown`. Handlers are added and removed at any time: the registry has an array
  per type, routing walks the array it found by its index (so a handler added
  meanwhile is called, and after a removal the old array is walked to its end),
  and then the wildcard's as it is at that moment. A handler is a place in an
  array; a function registered twice is two of them.
- *Inbox.* A request has a signer, whose key is verified, and a body, which names an
  actor; the code compares neither the two nor the digest with the body.
- *Killswitch, Attestation, OperatorIdentity, KeyFile.* Each looks whether
  something was done, waits, and does it.
- *Negotiation, Board, Autonomy.* Rounds and prices on a grid, with the rounding of
  `toFixed` and first bids of any size; a cache over queries with a limit; a scheduler whose caller acts
  between `decide` and `recordAction`.

### The surroundings

- *PeerLink.* A connection has two ends, each with a socket, what is on its way to
  it, and whether it has its peer's handshake. Destroying a socket and its close
  event are two steps, as in Node.
- *Discovery.* One table per process; `bootstrap` has a wait in it.
- *Relay.* The store is on disk; the mirror and its counters start empty at every
  start, also offline. A record is stored, then its author mirrored, then its note
  made; one that is `Garbled` throws before the last of these.
- *RpcBridge.* The socket path, several shims and several daemon processes; `Bind`
  removes what is there, `WaitedEnough` is the timer of `waitForSocket`.
- *TorProcess.* A process per call of `start`, one reference for all of them.
- *SpawnLifecycle.* `terminate` has two waits and no guard, so calls overlap;
  `checkViability` judges first and terminates afterwards. The catch around
  `provisioner.terminate` (`lifecycle.ts:184-190`) is left out: the provisioner of
  this repository fails only for an instance it does not have.

## 3. The runs

All runs are instances of the modules above; the constants are in the `.cfg`
files.

| Run | Instance | Checks | Shows |
|---|---|---|---|
| restart | poster p (may stop and start), workers w1 and w2, one task | SingleAssignment, WorkOnlyWhenAssigned, PaymentFollowsWork | forgetting the context never leads to a second assignment: the new process does not know the task as its own |
| faults | two agents, both may stop, cuts, late records | WorkIsEscrowed | the assignment is published after the escrow is locked; lost records stall a task but never misdirect work |
| peer_verdict | w2 also publishes verdicts, for or against | PaymentFollowsWork, ImplementsLifecycle | the protocol implements TaskLifecycle |
| live | p and w1 post one task each | EventuallySettled | every task is settled and rated if nothing fails |
| marketplace | escrow manager: two escrows, all tiers, clock 1..8; or executor: two tasks, two slots, five enqueues | ClaimedOnce, ClaimIsBacked, UndisputedPaidOnce; RunningCountIsExact, NoIdleSlot, OutcomeMatchesState, QueuedIsServed | what the escrow state machine does guarantee; slots and outcomes are exact through cancellation, timeout and re-enqueue, and timers alone keep the queue moving |
| libraries | the libraries, one per behaviour | LibrariesTypeOK and the properties below | what their limits, tables, counters and once-only effects guarantee |
| network | the surroundings, one per behaviour | NetworkTypeOK and the properties below | links, tables, mirrors, children are kept right, and no call is left hanging |

The components in `libraries`, `network` and `marketplace` share no state but the
clock (the two of `marketplace` not even that), so the variable `focus` picks the
component that a behaviour follows while the others rest: the product of their state
spaces adds nothing to any property, and each component still makes all its steps.

| Property of `libraries` | Says |
|---|---|
| WindowHoldsLimit | wherever a window is laid, it holds no more accepted messages than the highest limit in force, through pruning, forgetting and changes of the limit |
| FlagHasGrounds | a flagged peer had enough refusals within one cooldown |
| HidesOnlyBacked | a target is hidden by different agents that are reputable at that moment |
| AppliedOnce | a decree is applied once unless two calls for it overlap |
| EffectsHaveQuorum | kills and suspensions rest on a logged decree that orders them and whose action string a quorum signed, though the registry changes during the verification |
| BlockedByDecreeOnly | nothing but a decree blocks an agent; the killed stay killed |
| HeardOnce | a handler hears a record once per topic though marks expire; the two limits of the argument are in the comment |
| BooksBalance | the counters of the pipeline add up with records under way and calls that threw |
| RoutedOnce | a handler hears a record once though handlers come and go while it is routed; only records of a public type of which two copies were verified together are exempt, and unsaved ones |
| KillHandlerOnce | the kill handler runs once unless two kill records were verified together |
| AttestedOnce | a pair is attested once unless two calls overlapped or LatestLimit newer attestations came in |
| SealedOnce | a code seals once, over expiry, retries and restarts, unless two completions waited for its answer together |
| KeyStays | a key that was returned is the one in the file from then on, through failures and crashes |
| FollowersInOrder | the followers are what the last requests in the actors' names say, although keys arrive out of order |
| ListingLagsBriefly | a listing is at least as far on as the store was when the cache could last be rebuilt |
| AgentPaced | SpawnsApart and PostsApart: spawns and posts keep their distance |
| PriceFloor | whatever the first bid was, no counter-bid is below the minimum and no offer below it accepted, however often a negotiation is reopened |

| Property of `network` | Says |
|---|---|
| EntryIsOpen | an entry in the map of peers is an open connection to that peer |
| DialLinks | one dial without failures ends with both in each other's map |
| OnlyStaleForgotten | only peers that are gone and stale, or removed by hand, leave the table |
| MirrorFollowsMesh | the outbox is the latest notes first heard since the relay came up, in order, those left out that cannot be translated; what it lacks after a restart is StoredAgentsMirrored below |
| StoppedWithChild | a child is terminated exactly when its instance is stopped |
| LosersEnd | a child that stays unprofitable is given up and its death published |
| CallsSettle | every call of a shim and every start of Tor ends |

Five runs end in a violation; each is a disagreement between the code and what
the repository says of it (findings in PROJECT.json, with the lines):

| Run | Property | Disagreement |
|---|---|---|
| escrow_paid_twice | NoRefundAfterClaim | refund does not look whether the escrow was claimed (comment in `refund`): TLC funds, confirms, claims and then refunds one |
| mutual_dial | MutualDialKeepsLink | of two nodes whose dials cross each destroys one connection as a duplicate, and its close event removes the entry of the other ("Avoid duplicate connections to same node" in `network/node.ts`); nobody dials again |
| governance_text | SignedAsOrdered | a suspension is applied whose signed string is that of a warning ("The action string is the deterministic JSON of the governance payload") |
| stream_twice | NeverRoutedAgain | a record whose copies are verified together is routed twice ("deduplicates") |
| relay_restart | StoredAgentsMirrored | a relay that is up again serves nobody it has stored ("serving cached records", SPEC.md 5.5) |

MutualDialKeepsLink asks that at least one of two nodes keeps the other. That both do
is more than the code does for any second dial: when a link is complete and one end
dials again, the end that destroys the late connection loses its entry.

The modules state thirteen more promises that the code does not keep. They are
gaps one can read off the code, so they have no run of their own; to see a
counterexample, put the property in the place of those of the named `.cfg`:
BothPartiesAttest and EscrowResolved as a PROPERTY, the others as an INVARIANT.

| Property | `.cfg` | Gap |
|---|---|---|
| SingleSettlement | MCTaskProtocolPeerVerdict | the passing verdict of a peer starts a settlement of its own (6.3) |
| SettledMeansClaimed | MCTaskProtocolRestart | a refused claim is ignored and the settlement published (6.3, steps 11 and 13) |
| BothPartiesAttest | MCTaskProtocolLive | only the requester attests (8.3) |
| EscrowResolved | MCTaskProtocolLive, with `MayStop = {w1}` | no daemon ever refunds (6.4) |
| CapacityRespected | MCTaskProtocolLive, with `Poster <- SamePoster` and `MaxConcurrentTasks = 1` | the set of active tasks is never filled (skill/SKILL.md, the capacity test) |
| RefundableInTime | MCMarketplace | the doubled value is a date, not a period (comment in `refund`, 6.4) |
| CollectedSignaturesCount | MCGovernanceText | signatures collected beforehand are of a string with another second in it ("Pre-collected signatures from other keyholders") |
| LevelDecides | MCGovernanceText | one threshold for the three levels of response (16) |
| NeverAppliedAgain | MCGovernanceText | a decree whose calls overlap is applied twice ("Duplicate governance record") |
| LackingIsRejected | MCStreamPipelineTwice | a record without references throws instead of being rejected ("missing required fields") |
| KillHandlerNeverAgain | MCLibraries | two kill records verified together both run the handler ("ignoring duplicate") |
| NeverAttestedAgain | MCLibraries | two overlapping calls attest twice ("Check for duplicate attestation") |
| FollowersSigned | MCLibraries | a Follow is accepted in the name of an actor that did not sign it ("Verify HTTP signature for authenticity") |

The passing properties AppliedOnce, RoutedOnce, KillHandlerOnce and AttestedOnce say
what is left when the overlaps of NeverAppliedAgain, NeverRoutedAgain,
KillHandlerNeverAgain and NeverAttestedAgain are exempted: that nothing but an
overlap repeats an effect.

The type invariants of TaskProtocol, Escrow and Executor, StartsOnlyQueued of
Executor and FlagsPerHour of Flagging (fixed windows let twice the limit through in
an hour, and never more) are in no run: the theorems of section 4 establish them for
every instance.

*Bounds.* Three agents are the smallest number with two competing bids and with
a verdict by a third party; the handlers of one task read and write only the
entries of that task, so one task is enough for the safety of a task, and two
tasks are used where tasks interact (capacity, liveness). The escrows of a
manager are independent; two show that calls on one leave the other alone, and
the clock runs past the doubled lock time of every tier. Five enqueues of two
tasks with two slots reach a name queued twice behind a cancelled execution with
both slots taken.

In `libraries` and `network` every length of time is one or two ticks and every
table holds one or two entries, while the clock runs past the end of each of
them, and past two windows where one window follows another: what matters is which of two events comes first, and that a limit is
reached with something left over. Two calls (of governance, of a shim, of `start`)
are the smallest number that overlaps; the key file has four, since a third call
must find what two others left. Two flaggers and three targets
reach the hourly limit and the hiding; three keyholders with a threshold of two
allow one to leave while a decree is verified. Three records (public, private,
and public without references) with two handlers reach every path of `process`, a
handler that is added and one that is removed while a record is routed; a type may
have two arrays (`MaxArrays`), so each is dropped once. Two notes per outbox
(`NoteCap`) of up to four records per start make the order within an outbox and its
trimming visible. Three first bids lie below, above and far above the minimum.
`libraries` has some 1.5 million distinct states, `network` some 230,000.
MCGovernance has the five keyholders and the threshold of three of the development
genesis. The bounds of counters
(`MaxMessages`, `MaxRecordsIn`, `MaxCompletions`, ...) are in the `.cfg` files and
declared as bounds in the modules.

*Deadlock.* TLC checks for deadlock in the runs where a process may stop or
start for ever (restart, faults). Elsewhere the system may come to rest with all
work done, and the `.cfg` says so.

*Fairness.* `FairSpec` of TaskProtocol makes deliveries and continuations
weakly fair, per agent: the event loop handles what has arrived, timers fire and
signatures are computed. A set of records under weak fairness may keep one of
them waiting while others are handled, but every record is handled once and
finitely many are made, so each has its turn. Nothing obliges users to post,
locks to expire at any particular moment, or failures to happen. In `marketplace`
fairness obliges the timer of every race (`Deadline`) and the signature at the end
of every execution (`SignatureMade`); agents and callers owe nothing.

In `network` weak fairness stands for what the operating system owes: sockets
deliver what was written and report that they closed (`LinkEvents`); the timers
and the events of each shim's own calls come (`SpawnEnds`, `CallEnds`); Tor's
timers and exits come (`TorProgress`); a terminate call that runs goes on, days
pass and the monitor checks (`TerminateProgress`, `DayPasses`, `MonitorCheck`).
Nobody is obliged to dial, to bind a socket, to answer a call or to bootstrap.
`libraries` needs no fairness.

Every property of a passing run has a mutant: a definition of the model changed
the way a bug in that code would change it, which makes TLC find the property
violated. The mutants stand before the definitions they change.

## 4. The proofs

TLAPS proves, for any sets of agents and tasks, any capacity, any agents that
may stop and any faults (only `ConstantsAssumption`: the poster of a task is an
agent, willing and verifying agents are agents, NoAgent is none):

- `TypeCorrect`, `AssignedOnce`, `WorkIsAssigned`, `WorkerIsSecured`,
  `PaymentIsEarned`: the safety properties of the runs;
- `Implements`: TaskProtocol implements TaskLifecycle.

The properties are not inductive. That a task is assigned once, for instance,
follows from the entry in `assignedTasks` only as long as the poster lives; after
a restart it follows from `tasksPosted`, which no longer has the task. `IInv`
says what is needed:

- `Ledger`: every published record was written by the right author and rests on
  published records (a result on an assignment, an assignment on a bid, a
  settlement on a passing verdict); assignments of a task are equal. Stores never
  lose records, so this survives every failure.
- `Stored`: what is under way or parked was published, and authors keep what
  they wrote.
- `Desk`: the maps of a poster agree with what it has published; a poster that
  has forgotten a task no longer counts it as its own.
- `Parked`: a parked handler still has the grounds for which it was parked: the
  state read before the wait is still true after it. This is the part that would
  fail if two bids could both pass the check in `autoAssign`.

`InvariantHolds` is proved action by action; the safety properties follow from
the invariant, and the refinement uses it to show that the status read off the
published records moves along the steps of TaskLifecycle or stutters.

For the escrow manager, `TypeCorrect`, `WorkerPaidOnce`, `WorkerPaidFromLock`
and `PaysOneParty` hold for any timeouts, any number of escrows and any calls
(`EscrowAssumption`: the parameters are natural numbers). The invariant
`History` records that an escrow which can still come to be claimed was not
claimed, that a locked escrow was paid in, and that every refund had a dispute
or the auto-refund time as its cause.

For the executor, `TypeCorrect`, `SlotsAreCounted`, `SlotsAreUsed`, `OneOutcome`
and `StartedOnce` hold for any number of slots, tasks and calls. The invariant
adds to the properties which states go with which phase (`Coherent`: cancel may
write "failed" over "running", never over a result), that every name in the queue
has an execution (`Named`), and that the queue lists every task whose execution
waits (`Listed`). The argument about the loop of `processQueue`
is in `StartedAreQueued`, `LoopStaysWithin` and `ProcessQueueStep`: the calling
step hands it a state that is right but for idle slots, and it hands back one that
is right.

For the rate limiter, `LimitIsKept` and `FlagIsEarned` hold for any limits,
windows, cooldowns, threshold and clock (`LimiterAssumption`). The invariant says
that histories are in the order of the clock (`Chronicle`), that what was pruned
has left the window and will not come back into it (`Passed`), and therefore that
any limit + 1 accepted messages span more than the window (`SpacedOut`); for the
flag, that the counter of violations is the length of a stretch of refusals that
began at `firstViolationAt` (`FlagInv`).

For governance, `QuorumStandsBehindEffects`, `DecreesApplyOnce` and `DecreesBlock`
hold for any registry, threshold, decrees and number of calls
(`GovernanceAssumption`), also for decrees whose fields order something else than
their action string. The invariant says that the signatures counted so far
are of that string, by keys that are or were keyholders (`CallInv`), that the log is of
processed decrees with a quorum and repeats only those that overlapped
(`LogInv`), and that a suspension belongs to an agent that is not killed and to a
logged decree about it (`SuspensionInv`). That a decree still under way is not in
the log unless its calls overlapped is what carries `AppliedOnce`; that keyholders
are deactivated but never removed is what carries the quorum. What the quorum signed
is not what the decree orders (SignedAsOrdered), and no theorem says so.

The libraries and the surroundings are proved module by module, and then together.
Each row names the theorem and what the inductive invariant adds to the property,
that is, why the property holds.

| Theorem | Holds for any | Because |
|---|---|---|
| FlagsAreLimited | limit, window, warnings, reputations | `Windowed`: the flags before the current window were accepted by its start, and those followed by a full window more than FlagWindow before that start |
| HidingIsBacked | threshold, reputations | a list of flags holds no name twice, so its reputable places count different agents |
| RecordsAreHeardOnce | drift, expiry equal to it, cap, topics, handlers | `Tracked`: while the first mark of a record stands one copy of it is under way at most; when it has gone, every further copy has drifted |
| CountersBalance | records (those without data or references too), handlers, restarts | BooksBalance is inductive with the types: a call leaves `checking` in the step that counts it or throws |
| HandlersHearOnce | records, handlers that come and go, restarts | `OnceSoFar`: a record that was not raced is checked before it is in the table and routed after that, once; `BehindIt`: what heard it is behind its place in the array that it walks, and the wildcard's come last |
| KilledOnce | number of copies | without an overlap one copy is under way, and none once the handler was called |
| AttestsOnlyOnce | limit of the query | `AttestsOnce`: a pair is stored or being signed, not both; `RecentIsFound`: a record among the latest LatestLimit is seen by the query |
| SealsOnce | keys, expiry, restarts | `OneKeyPerCode`, `SpentCodes`, and `SealsBacked`: the seals of a code and the completions in hand come to one |
| BoardKeepsUp | limits, deadlines | `Listed`: the cache agrees with the store as it was just before the last refresh; new records only add to what it may show |
| AgentKeepsPace | pause, interval, history | `RemembersLatest`: the history is the tail of what was done; `SpawnInTime` holds from `decide` until the action is recorded |
| PriceStaysUp | prices, first bids, grid, rounds | a midpoint is offered only when it is not below the minimum, so only rounding takes a counter-bid below |
| IdentityStays | number of calls | `Making`: a call that makes a key found no file and is the only one to do so; `Returned`: whoever returned has what is in the file |
| FollowersAsTold | actors, signers, number of requests | `OneAtATime`: an actor in whose name nothing overlapped has one request under way, its latest, so the table changes in the order of the requests; who signed plays no part |
| EntriesAreOpen | nodes, connections, handshakes | `Wired`: an entry is made on an open socket of its two nodes, and the step that closes or destroys an entered socket leaves no entry for that peer (the close of another connection may remove an entry early, which the theorem allows) |
| BooksAgreeWithCloud | children, sweeps, overlapping calls | `BornInstalled`: a child is in the books from the moment its instance is installed; the status is set in the step in which the instance stops |
| NobodyForgotten | peers, expiry | what was seen is never later than the clock |
| MirrorIsTheMesh | agents, records, cap | `Latest`: the notes of an agent are the tail of its publishable records in `heard`; the store keeps a record from being heard twice |

`LinkTyping`, `SpawnTyping`, `DiscoveryTyping`, `RelayTyping` and `NetworkTyping`
are the type invariants; those of the libraries are part of their theorems.

*Together.* The components of `MCNetwork` share nothing, so the composed
specification implies the specification of each of them (`NetworkComponents`),
and their theorems carry over (`NetworkTyping`, `NetworkSafety`). Those of
`MCLibraries` share the clock, which each of them may move: a library that rests
sees steps that are not its own, and the composed specification does not imply
theirs. Hence `LibrariesInvariant`: the conjunction of the thirteen inductive
invariants is inductive, because each of them also survives any step of the clock
forwards (`LimiterRests`, `FlaggingRests`, ..., collected in `Resting`).
`LibrariesTyping`, `DoneOnce`, `LimitsHoldTogether` and `GroundsInEveryStep` state
from it the properties of the run `libraries`, and FlagsPerHour. The proofs do not use `focus`: they
would hold if the libraries took turns.

*Assumptions.* A module assumes of its constants that limits, periods and bounds
are natural numbers, that windows, thresholds and caps which divide or are waited
for are not zero, and what the code fixes: the expiry of gossip is its drift in
milliseconds, stamps are whole seconds and the topics are finitely many
(`GossipAssumption`), and a negotiation has at least one round
(`NegotiationAssumption`, `maxRounds` in `bidder.ts`). The runs evaluate every one of them.

*Bounds.* The bounds of counters (`MaxMessages`, `MaxCalls`, ...) are constants, so a
theorem holds whatever they are; a behaviour with finitely many calls is covered.

*Only model-checked.* Liveness: EventuallySettled, QueuedIsServed, CallsSettle,
DialLinks, LosersEnd; the fairness they rest on is out of the prover's reach. Of
RpcBridge and TorProcess only the types are proved: what matters there is that
calls end. What a recursive definition or a fold over a sequence computes needs
induction over data, which is out of reach as well; where the code loops over a
list, the models say with sets of places what the loop has done
(`countReputableFlags`, the sweeps of SpawnLifecycle, `addPeers` of Discovery), and
the proofs are about that.

## 5. Not modelled, and the plan

PROJECT.json lists every component with its state of coverage. Left out, and why:

- *Verifier*: the daemon never calls it. Its tiers keep no state, and with the one
  vote this version collects the third never passes. What other agents' verdicts
  do is in TaskProtocol.
- *Private streams*: `openStream` returns null and nothing registers the handler
  of incoming ones, so there is no behaviour yet.
- *Reputation score, strategy, viability prices*: functions of records and prices in
  floating point, without state. Flagging lets the reputation of an agent move
  freely, SpawnLifecycle the earnings of a child; nothing calls the strategy.
- *Challenges* (`reputation/`): a table of templates.
- *Records of a shape that no check of the code sees*: a pipeline or relay record whose
  time stamp is missing or no number, and prices of a negotiation that are no numbers.
  Records without data or references, and those that cannot be translated, are modelled
  (the runs have records without references; those without data are covered by the
  theorems, which hold for any `NoData`).
- *The catch of `spawn/lifecycle.ts:184-190`*: see SpawnLifecycle in section 2.
- *Main loop*: two timers that print.
- *Content safety*: pattern tables whose correctness is about texts.
- *HTTP servers of the relay and ActivityPub, outbox, actor, WebFinger, translator*:
  they read and format what Relay and Inbox keep.
- *Wallet*: derivation, addresses and balances are cryptography or remote;
  KeyFile has its file.
- *Commitments, agent adapters, RPC methods*: a hash, a request, an answer;
  Autonomy and RpcBridge have the waits.
- `resetKillState` and other helpers for tests.

Still worth doing, in this order:

| Module | Code | Question |
|---|---|---|
| `DeskEscrow` | `daemon/index.ts` with `escrow.ts` | the escrow of TaskProtocol is one of Escrow's: a refinement |
| `Verifier`, `PrivateStream` | as named | once the daemon wires them |
