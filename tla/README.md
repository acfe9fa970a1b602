# Loong in TLA+

TLA+ models of the stateful core of Loong (a Rust workspace: an agent runtime
with a governed kernel, a daemon and a CLI), TLC configurations that check
them on small instances, and TLAPS proofs of the properties that matter most.

## 1. The system and its parts

| Part | Source (under `src/crates/`) | State it keeps | Operations | What makes it correct |
|---|---|---|---|---|
| Work units | `app/src/work/repository.rs`, `contracts/src/work_types.rs` | SQLite rows: status, lease columns, retry counters, dependency edges | create, claim, start, heartbeat, complete, recover, archive, update, assign, note, add/remove dependency | one holder per unit; lease columns coherent; retry budget; acyclic dependencies |
| ACP session manager | `app/src/acp/manager*.rs`, `store.rs`, `backend.rs` | session store, per-actor FIFO locks with reference counts, active turns with abort handles | ensure, run turn, cancel, close, set mode, status, idle eviction | turns of one actor never overlap; the lock registry never splits a lock; a cancelled turn is reported as such; a session stays Busy only with its turn |
| Audit journal | `kernel/src/audit.rs` | a file of lines, each sealed with the hash of the one before; each sink's last hash | open, record, verify, repair | verification fails when an event was changed, and not because of restarts or failed writes |
| Kernel policy | `kernel/src/policy.rs`, `policy_ext.rs` | token and generation counters, revocation set and threshold | issue, authorize, revoke token, revoke generation | a revoked token is never authorized |
| Kernel core | `kernel/src/kernel.rs` | the registries of packs and adapters | issue, revoke, eight plane operations, execute task | the trail says what happened, in order |
| Kernel task supervisor and mailbox | `kernel/src/task_supervisor.rs`, `mailbox.rs`, `contracts/src/task_state.rs` | task FSM; bounded queue with a watch sequence | submit, transitions; send, receive, wait | terminal states stay; a waiter does not miss a message |
| Connector circuit breaker | `spec/src/spec_runtime/connector_circuit.rs` | phase, failure counters, half-open probes, cooldown | acquire, record outcome | the fields agree with the phase; an open circuit admits nothing until the cooldown; it is probed again |
| Programmatic batches | `spec/src/programmatic.rs` | priority queues, round-robin cursor, in-flight calls, adaptive budget | dispatch, retry, record, report | the budget stays in its limits; no class starves; every call is reported |
| Gateway events | `daemon/src/gateway/event_bus.rs`, `api_events.rs` | sequence number, retained events, broadcast channel, per-stream cursor | publish, subscribe, replay, receive, lag | once, in order, nothing retained is skipped |
| Control plane | `app/src/control_plane.rs` | turn registry, event ring, challenges, connections, pairing | issue, push event, complete; record event; consume; evaluate, resolve | a terminal turn is immutable; a challenge is used once; events in order |
| Gateway owner | `daemon/src/gateway/state.rs` | owner file, status file, stop-request file | acquire, heartbeat, finalize, request stop | one serving owner; a stop request stops the owner it was meant for |
| Supervisor | `daemon/src/supervisor.rs` | per-surface state, shutdown reason | running, stopped, failed, shutdown, exit result | one failure stops all surfaces; the last phase tells whether one failed |
| Protocol | `protocol/src/lib.rs` | transports with a closed flag and bounded queues | send, receive, close; route resolve and authorize | order kept; nothing sent after close |
| Session store | `app/src/session/repository.rs`, `recovery.rs` | sessions, events, terminal outcomes, approvals | create, transition, finalize, recover | a terminal outcome is written once |
| Tool approval | `app/src/tools/approval.rs` | approval requests | request, decide, execute | a decision is used once |
| Channels | `app/src/channel/` | per-channel runtime tracker files, webhook and websocket loops | start, heartbeat, stop | one live runtime per account |
| Providers | `app/src/provider/` | profile health, request retries | failover, cool down | bounded retries |
| Memory, MCP, migration, plugins, bench, CLI, TUI, skills, vendored patches | the rest | files, caches, rendering | mostly I/O and formatting | outside a model checker's reach |

Components interact by direct calls inside one process (daemon -> app ->
kernel), through SQLite rows and JSON files shared by several processes (work
units, session store, gateway owner file, channel runtime files), through
tokio mutexes, watch channels and mpsc queues (ACP manager, mailbox,
transports), and through HTTP to the control plane.

What is hard in this code: independent CLI processes that bring their own
clocks to one table; async functions that read shared state, await a backend
and then write what they decided before; guards that decrement counters when
dropped, at any await point; an outcome that arrives after the state it
belonged to is gone; owner files taken over after a crash.

The hazards, each at its line, with the properties that cover it, are listed
in `PROJECT.json`.

## 2. Modules

| Module | Models | Shape |
|---|---|---|
| `WorkUnits` | the work-unit queue | state machine, one action per repository operation |
| `WorkLease` | what the queue promises: exclusive, bounded leases | abstract specification |
| `WorkUnitsProps` | its properties and the mapping to `WorkLease` | properties, refinement |
| `WorkUnitsProofs` | proofs about `WorkUnits` | 5 theorems |
| `AcpActor` | the ACP manager's lock registry | state machine, one step per map access |
| `AcpActorProofs` | proofs about `AcpActor` | 4 theorems |
| `AcpSessions`, `AcpSessionsProps` | the ACP session manager | state machine split at awaits and lock acquisitions; properties |
| `AcpSessionsProofs` | proofs about `AcpSessions` | 6 theorems |
| `ConnectorCircuit` | the two functions of the circuit breaker | operators on the breaker's state |
| `CircuitCalls` | concurrent calls through one breaker | state machine over `ConnectorCircuit` |
| `CircuitProofs` | proofs about `CircuitCalls` | 4 theorems |
| `ProgrammaticBatch` | the parallel batch scheduler, retries and a breaker | composition: extends `ConnectorCircuit` |
| `ProgrammaticBatchProofs` | proofs about `ProgrammaticBatch` | 5 theorems |
| `GatewayEvents` | the gateway's event bus and SSE streams | state machine |
| `AuditJournal` | the hash-chained audit journal | state machine over the lines of a file |
| `Kernel` | tokens, revocation, authorized operations and tasks, and their audit records | composition: extends `AuditJournal` |
| `KernelProofs` | proofs about `Kernel` and its journal | 4 theorems |
| `ControlTurns` | the control plane's turn registry and turn streams | actions of one task per turn and of a client |
| `ControlPlane` | `record_event` and long polls | composition: extends `ControlTurns` |
| `ControlPlaneProofs` | proofs about `ControlPlane` and its turn streams | 3 theorems |
| `Supervisor` | `SupervisorState` | operators on the supervisor's state |
| `GatewayOwner` | owner file, status snapshot, stop request and heartbeat | actions of processes on a shared directory, with faults |
| `GatewayRun` | a gateway from start to end | composition: extends `GatewayOwner` and `Supervisor` |
| `GatewayRunProofs` | proofs about `GatewayRun` | 4 theorems |
| `MC...` | instances for TLC | |

Names of actions, variables and fields follow the source where TLA+ allows it.
Each module's header says what an action's atomicity is in the code, and what
it leaves out. Definitions whose names say what went wrong (`DropLockBlindly`,
`RepairedInPlace`) and that are commented `Mutant` stand directly before the
definition they distort; no specification uses them. Each shows that one
property notices one plausible bug.

### Work units

Every operation of `WorkUnitRepository` is one SQLite transaction and hence one
action. Callers bring their own clocks, so `now` is any member of `Times` in any
order. Rows become functions on `Units`; text columns and event rows are never
read back and are left out. A recovery pass (`recover_expired_leases`) handles
its expired units in one transaction and is one action: when the retry delay of one of
them does not fit in an `i64`, the transaction is rolled back and none is recovered
(`Retriable`).

### ACP lock registry and session manager

`AcpActor` takes `manager_actor.rs` apart at every access to one of its maps:
tasks run on several threads and no lock spans two maps. It covers the two
`Drop` implementations and tasks dropped while they wait.

`AcpSessions` models the operations of `AcpSessionManager` and uses the actor
lock as one atomic FIFO lock, which `AcpActorProofs` justifies (`ExclusionCorrect`).
An operation is a sequence of steps, cut where the code awaits or takes a lock;
`pc`, `meta` (its copy of the stored metadata), `todo` and `victim` (a sweep's
candidates) are the local variables that survive a cut. Backend answers are
nondeterministic: any state, or an error. `aborted` is the turn's abort flag as
its subscriber sees it.

A request is a session key with an optional conversation and an optional binding, and
the last two decide the actor key. The code takes the session key from the session id
and the binding from the optional channel scope of the request
(`derive_acp_conversation_route_for_address`), so that one session can be used under
two actor keys, and two locks; the binding upgrade and the "already bound" error of
`manager_sessions.rs` are reached that way and modelled. `actors` records under which
keys a session has been taken up, and the properties say what holds whatever the
requests, and what holds more when they are `Coherent`. The store is the SQLite file of
`runtime.rs`: a history begins with any state that an earlier process left of any of its
sessions. One process at a time uses it. `outside` marks a state that was last
written by such a process or by an `ensure_session` of its own, which takes no actor lock.
The session limit is enforced in the code's two reads: a session that is known by then
passes, and otherwise the sessions are counted.

### Circuit breaker and batches

`ConnectorCircuit` gives the state transformers `Acquired` and `Recorded`; the
deadline is kept as the time that is left. `CircuitCalls` interleaves callers:
an outcome is recorded in whatever phase the circuit has by then.
`ProgrammaticBatch` runs the same operators under the batch scheduler. Calls only
make progress while the scheduler awaits its `FuturesUnordered` (mode `await`),
since they are polled by the scheduler's own task. The circuit is shared with earlier
steps of the plan, so a batch begins with any state that these can leave (`LeftCircuits`);
each call has its own attempt limit.

### Gateway events

`publish` numbers, retains and broadcasts under one lock, so the retained events and the
channel's contents are functions of `next_seq`. A stream subscribes and reads the
retention in two steps; it may ask for the events after any number, also one from before
a restart, which is above all current ones. tokio's broadcast channel is external: it
keeps the last `Channel` events and tells a receiver that fell behind.

### Audit journal and kernel

In `AuditJournal` a line is a record of an event and its seal, and a hash is the
pair of the event and the hash before it, so that two hashes are equal when what they seal
is. A record may fail before anything is written, after part of the line, or after the
whole line, when the flush or the unlock fails (`Faults`); the sink does not remember the
hash of a line whose record failed. A line of an older release has no seal; `Damage`
changes the event of one line from outside. A sink remembers the last hash from when it
opened the file on. `stray` and `forked` are history: a sink has written a line that it does
not remember, and has then written another one.

`Kernel` puts the callers of one kernel over the journal. An operation begins,
passes the two checks of `authorize` (the list of revoked tokens, under a lock, and
the threshold of generations, an atomic), calls its adapter and records its events
one by one. `revoke_generation` raises the threshold and then moves the counter, in
two steps. A future may be dropped while its adapter works (`Abandon`); when the
process ends only the journal stays. What `authorize` decides from the request alone
is one nondeterministic denial, which is recorded; what the pack manifest forbids
(an unknown pack, a connector or capability outside of it) is a refusal without a record,
as in the code.

### Control plane

A turn's task retains an event under the registry's lock and broadcasts it after the
lock is free. The client subscribes, replays what is retained, asks for the turn's
status and receives, a step each, and comes back until it has the terminal event. Sending
and receiving an event are one step; a broken connection takes back any number of the
events that were last sent (`Detach`), which stands for what was still in transit.
`ControlPlane` adds the manager's own events, which take their number before the lock
that retains them (`Number`, `Retain`), and a long poll. A history is watched by a
stream or by a poll (`audience`): neither affects the other, and the product of both
would only multiply the states.

### Gateway owner and supervisor

Gateways are processes that share a directory and nothing else. A start creates the
owner file exclusively, or finds one, reads it and removes it when it is stale. Each
file has an identity of its own (`inode`), since a process goes on writing the file it
opened, also when the path names another. Every write of the owner file truncates it
first, which other processes can see. The heartbeat is a second task with no await
between its copy of the state and its writes, so an abort does not reach it there. What it
copies is the state at that moment: a heartbeat that has passed its test of the flag can
copy and write `running = false` after `finalize` has begun, and the owner file then says
"stopped", which the next start takes for free. Requests to stop are read and written in
two steps with no lock, by any number of processes (`wanted` are the owners read so far).
Faults are a crash at any step, a write that fails, and a suspension that lets the
heartbeat become stale; `raced` and `lapsed` are history variables for the two ways in
which the code lets two gateways serve at once. `GatewayRun` drives `Supervisor` by the
`select!` loop: a signal, a stop request, the end of the control surface, of a channel
surface or of the CLI host. A surface's end and its join are one step. In attached mode
the production CLI host blocks the loop from its first poll on (`PollCli`).

## 3. Runs

| Run | Instance | Shows |
|---|---|---|
| `work_units` | 3 units (the third only while nothing is leased), one with a retry delay that does not fit, 2 owners, 2 clock values, 3 leases and 1 revival per unit | coherent lease columns, retry budget, no dependency cycle, refinement of `WorkLease` |
| `acp_actor` | 3 tasks, 2 keys | one lock per key, exact counts, no forgotten waiter |
| `acp_sessions` | 4 kinds of traffic: 2 callers on two session keys of one conversation, 3 on one bound session, 2 on it with separate `ensure_session` calls, 2 on a session with and without its scope; stores left empty, Busy or Cancelling | turns on a session overlap only under two actor keys; the active-turn registry is exact but for a close under another key; Busy does not outlive its turn; a draining turn is visible |
| `acp_close_live` | 2 callers, one session, fair | close returns |
| `circuit` | 4 callers, 3 probes, 3 successes needed, cooldown 3 | coherent state, no orphaned window, full cooldown, probed again |
| `batch` | 5 calls, weights 2:1:1, budget 1..4, 1 or 2 attempts, every circuit that earlier steps leave | bounds, no starvation, nothing lost, every slot recorded, the step ends |
| `gateway_events` | 1 client that asks for any number, 10 events, retention 3, channel 4, replay limits 1 and 3 | once and in order, nothing retained is skipped, catches up |
| `gateway_run` | 2 starts after a crashed gateway, 2 surfaces, both modes, one fault, stop requests in flight | one serving owner, a stop stops its target and only that, the last snapshot is true, a request that is not lost ends a headless gateway |
| `kernel` | 2 callers, 1 token, 1 task, 3 lines, 2 processes, the three kinds of write failure | verification is exact but for a fork, revoked tokens reach no adapter, new tokens are valid, the trail is true |
| `audit_two_sinks` | violation: 2 sinks on one path, no faults | two contexts break each other's chain |
| `control_plane` | 2 turns of 4 and 1 events, retention 3, channel 2, replay limit 2, 1 terminal turn kept, 1 broken connection, 2 polls | streams in order, nothing twice, no unexplained gaps, no lost wake-up, the terminal event arrives |
| `turn_stream_end` | violation: the same turns, no broken connection | a stream ends without its terminal event |

Bounds, and why they are enough:

- `MaxLeases = 3` reaches every unit's `max_attempts` plus revival, so budgets are
  used up; `I64Max = 2` makes clocks and leases saturate; two clock values give
  expired and fresh leases and clocks that go back, and a lease time of 3 and the second
  unit's retry delay do not fit. Three units are the fewest
  with an indirect dependency cycle, which leases have no part in: a `CONSTRAINT`
  follows the third unit only while nothing has been leased.
- Three tasks on an actor key are a holder, a waiter and a newcomer, which is
  what the removal race needs; the theorems cover any number. Four mutexes are
  enough: when a task allocates one, at most one other key's entry and two tasks
  refer to others.
- In `AcpSessions`, two session keys of one conversation are what leads two
  requests to one session, and a bootstrap with and one without a binding are what gives
  a session two actor keys; three callers are a turn, its canceller and a third party.
  Each traffic leaves out what would only multiply the states of another (`kinds`,
  `width`). An operation starts over when it is done, so histories are unbounded. The
  theorems cover every traffic.
- The circuit has more callers than probes, thresholds above one, and a cooldown
  longer than a step. The theorems cover every policy the validator accepts.
- The batch has more calls than budget in every class mix, step sizes that overshoot
  both limits, and a guarded connector whose circuit opens at the first failure and
  half-opens within the batch. `streak` is counted up to `RecoverySuccesses`, as far
  as the code compares it.
- Ten events are more than three times the retention and twice the channel, so a
  stream lags more than once, and reconnects in between. Streams share nothing but
  the bus, so one client suffices.
- One token is enough for a revocation that races its use, and two processes for a
  restart; three lines are an old one, a sealed one and one after it. All four properties
  are proved for any number of tokens, callers, tasks, lines and restarts.
- The watched turn has more events than are retained, replayed at once or held by the
  channel, so a stream lags, is cut and is pruned; the other turn's completion is what
  prunes it. The code's limits (256, 50 and so on) differ only in size.
- Two starts and the file of a third, crashed gateway give a takeover, two starts that
  race for one stale file, and a start during a shutdown; two surfaces give a failure
  before and after another surface's end. One fault per history (`MaxTrouble`) is
  placed at every step. A `CONSTRAINT` (`Tame`) checks but does not extend states in
  which one gateway has taken the place of a living one (`raced`, `lapsed`). A second
  (`Few`) bounds the second gateway, which is headless and follows one that stopped without a
  failure or crashed: the first does everything that it does. The theorems about
  `GatewayRun` need none of these bounds.

`CHECK_DEADLOCK FALSE` is said where the system may stop: a queue whose units are all
archived (`WorkUnits.cfg`), a journal whose bounds are used up (`Kernel.cfg`,
`AuditTwoSinks.cfg`), turns that are over and a client that is content
(`ControlPlane.cfg`, `TurnStreamEnd.cfg`), and gateways that have ended
(`GatewayRun.cfg`).

Fairness:

- `AcpActor`, `AcpSessions`: tasks of a tokio runtime keep being polled, so every
  step but the arrival of a request is weakly fair; tokio's mutex is first come,
  first served, hence strong fairness of taking it. Backend calls end: they have
  timeouts.
- `CircuitCalls`: time passes, callers go on calling and calls end.
- `ProgrammaticBatch`: the scheduler's task is polled and connector calls end; a call
  need not succeed.
- `GatewayEvents`: a stream is polled while its connection lasts. Nothing obliges a
  client to connect or an event to be published.
- `ControlPlane`: a turn's task goes on once it has begun to push an event, and the
  client goes on and comes back until it has got the terminal event; turns need not
  produce or end.
- `GatewayRun`: a gateway's tasks are polled and file operations end. A surface and a CLI
  host end when they are told to (they watch a stop handle); a user need not leave. The
  owner file's mutex is free for seconds between two heartbeats, hence strong fairness
  of the main task's write.

## 4. Findings

Each is a violation run; the counterexample is a short interleaving.

- `audit_two_sinks`: every kernel context opens the journal with a sink of its own, and
  a sink seals with the hash it remembers; the second one's first record breaks the
  chain.
- `turn_stream_end`: a turn stream asks whether the turn is terminal before it looks at
  its channel, and ends with the terminal event still queued. A client that comes back
  gets it (`ReaderGetsTerminal`).

What the models show not to hold, and no property claims:

- One expired unit whose retry delay does not fit in an `i64` keeps
  `recover_expired_leases` from recovering any other (`repository.rs:2254`): the policy
  validator does not bound the delays.
- Requests of one session with and without a channel scope take two actor locks, and their
  turns overlap in the backend (`manager.rs:151`). The test
  `run_turn_serializes_concurrent_turns_for_same_session` (`manager.rs:1798`) sends both
  turns with one key. A `close` that waited for one key reads the metadata again after a
  binding upgrade, and clears the active turn of the other key (`manager.rs:481`).
- A session that a crash left Busy is removed by no sweep; it stays Busy until an
  operation on it writes another state. A separate `ensure_session`, which takes no
  lock, can write an older state over that of a turn or over Cancelling
  (`manager_sessions.rs:84`).
- A cancel can find a turn that is registered and not yet subscribed to its abort
  channel; `AcpAbortController::abort` (`backend.rs:542`) then loses the abort.
- An idle sweep that awaits the backend's close may remove a session which has been
  taken into use meanwhile (`manager_sessions.rs:148`), and concurrent
  `ensure_session` calls exceed the session limit (`manager.rs:108`).
- A second caller that comes during every probe keeps a healthy connector's circuit
  from closing (`connector_circuit.rs:130`).
- A lagging gateway stream with a replay limit below the retention, and a turn stream
  whose replay is cut at 50, pass over retained events. `record_event` numbers events
  before it takes the lock, so a poll that has seen the later one never gets the
  earlier (`control_plane.rs:763`).
- A record whose line was written and whose unlock failed returns an error and leaves the
  remembered hash as it was; the sink's next record breaks the chain of a journal that
  nobody touched (`audit.rs:782`). Verification does not see lines removed from the end, or
  a journal whose seals were all stripped: it takes unsealed lines for those of an older
  release. `VerifyExact` excepts the first and says nothing of the others.
- Repairing a journal that a daemon has open loses what it records from then on
  (`audit.rs:711`); the model repairs only while no sink is open.
- Two starts that find one stale owner file can both become owner (`state.rs:590`). A
  heartbeat that writes `running = false` lets the next gateway start while the old one is
  still putting its files away (`state.rs:172`); it no longer serves, which is what
  `SlotExclusive` says of it (`Finished`), but it removes the stop request, also one for its
  successor (`state.rs:282`). A stop requester that read an earlier owner can write its
  request over a newer one (`state.rs:404`): that stop is lost although it was acknowledged.
  `StopHonoured` excepts requests that are lost in these two ways (`Missed`). A
  crash or a failed write after the truncation leaves an owner file that is never taken
  over. A heartbeat under way when the gateway halts can overwrite the last snapshot
  with an older one; `LastPhaseTrue` is about snapshots that claim an end. In attached
  mode a stop request is not noticed before the CLI ends (`supervisor.rs:726`).

## 5. Proofs

All theorems hold for every value of the constants under the modules' named
assumptions, which TLC evaluates on every instance.

- `WorkUnitsProofs`: `TypeCorrect`; `LeaseCorrect` (`LeaseCoherent` is inductive
  together with the types: an action touches the lease columns of one unit, or of
  the expired ones, together); `BudgetCorrect` (`RetryBudget` says of waiting units
  that they have an attempt left, which is what makes a grant keep the bound);
  `AcyclicCorrect` and the step-by-step refinement of `WorkLease`. Acyclicity is stated
  with closed sets rather than paths, so that it needs no induction: adding an edge
  whose end does not reach its start keeps every unit outside its own closure.
- `AcpActorProofs`: the inductive invariant is `TypeOK`, `TurnsOnly` (only turns count
  themselves as pending), `CountsExact` (each count is the number of tasks in the steps
  that are counted), `RegistryCurrent` (a task with a mutex that still counts itself has
  the registered one) and `HolderInside`. `CountsExact` is needed because `DropLock`
  trusts a count of zero; exclusion follows since all holders of a key hold the one
  registered mutex.
- `CircuitProofs`: the inductive invariant is `TypeOK`, `CircuitCoherent`,
  `NoOrphanWindow` (which leans on the fields' agreement), and `DeadlineWhole`, which
  ties the deadline that is left to the time since the opening: `CooldownKept` is not
  inductive without it. Inside one acquire call a new window briefly holds all its
  probes, so the lemmas about the operators carry that bound as a parameter.
- `KernelProofs`, in three parts.
  Revocation: the inductive invariant is `Types`, `Covered` (what a finished revocation
  covers is in the list of revoked tokens or at most at the threshold), `Stopped` (an
  operation whose token was covered when it began is not past the check that stops it),
  `Raised` and `Ordered` (the counter is where the threshold is, or a revocation that
  stands between its two steps will bring it there). `RevokedNeverRuns` alone is not
  inductive: it says nothing of an operation between the two checks. The journal takes
  part only through the events that are still to be recorded, so this part holds
  whatever the file system does.
  Journal (`VerifyCorrect`): `JournalInv` is `LinesTrue` (what kinds of lines there are),
  `ChainContinues` (while every line can be decoded, none was changed and no sink has
  forked, the chain holds, and the open sink remembers the hash of the last line unless it is
  stray) and `ForgeryStays` (a line was
  changed if and only if one has a hash that is not its own). `VerifyExact` alone does not
  say what the sink remembers, and so not that the next record keeps the chain.
  Trail (`TrailCorrect`): `TrailInv` says of each task that at most one caller has it, that
  this caller has not recorded it, that its adapter was called exactly when the caller is
  past the checks, and that it is in the journal at most once. `TrailTrue` alone does not
  exclude two callers on one task.
  The proof uses of the constants that this kernel's events differ from the unsealed ones
  of older releases and from the mark of a cut line (`KernelAssumption`,
  `JournalAssumption`).
- `AcpSessionsProofs`, for any requests and any store left by an earlier process: the
  inductive invariant is `TypeOK`, `AllPlaced` (at which steps an operation has which local
  values, and which lock), `AllTakenUp` (a copy that is held under a lock was taken up under
  it), `AllSourced` (when the requests are coherent, whatever metadata is stored or copied
  stems from a request, with its actor key), `LockExclusive`, `ActiveTracked` and
  `ForgottenRun`. `TurnsSerial` follows because two turns on one session either have one
  lock, which is exclusive, or have taken it up under two keys. No assumption says that a
  session has one actor key; that coherent requests give it one is part of what is proved.
  `BusyCorrect` has a hypothesis about the backend, which is external: asked for the status
  of a session no turn runs on (the manager asks under the actor lock), it does not answer
  Busy. The acpx backend passes on what its program says (`acpx_events.rs:220`), and a wrong
  answer would be stored. The proof adds that no operation holds a Busy copy while it calls
  the backend, unless it comes from outside or the session is split (`Harmless`).
  `DrainingVisible` is said of the session that a turn was aborted through: the proof attempt
  showed that cancelling one of two session keys of a conversation says nothing of the
  other's stored state.
- `ProgrammaticBatchProofs`: the inductive invariant is `Types`, `InFlightBounded`,
  `NothingLost`, `NoOrphanProbe` and `TurnAhead`: of each class, the places it has been
  passed over at and those before its next turn are together fewer than the cycle has.
  `NoStarvation` follows from `TurnAhead` and is not inductive without it, as it does not
  say where the cursor is. That calls are queued once each is assumed of the queues the
  batch begins with, as `group_programmatic_calls_by_priority` builds them.
- `ControlPlaneProofs`: `WakeupCorrect` follows from an invariant that also covers the poll
  between its look and its sleep: as long as nothing was notified since it registered,
  nothing later is retained. `StreamCorrect`, an action property (nothing twice, no
  unexplained gap), needs an invariant about
  what a stream has still before it: the replayed events it holds (`PendingFits`) and the
  channel (`Broadcast`, `Caught`) together contain every retained event above its cursor,
  unless a replay was cut.
- `GatewayRunProofs`: `SlotInv` says that whoever owns the slot has its file at the
  path, unless gateways raced, a live one lapsed, or it has finished serving (`Held`),
  that a gateway which has not filled its file has no heartbeat (`Blank`), that the
  gateway of a stale or stopped file is gone or has finished (`StaleGone`) and that so
  is the one a start has looked at and is about to remove (`SeenGone`). `StopInv` says
  that the file of a stop request names a gateway that a requester had read as the
  owner. `RunInv` relates the supervisor's state to whether the run has failed at every
  step from the loop to the last snapshot, and says that no step replaces a snapshot
  that claims an end by one that is wrong, also not with the state that a late heartbeat
  has copied (`CopyKept`).

What repair writes is a recursive function over the lines. The library's induction
theorems cannot be instantiated by the installed provers, but a set of counterexamples
can be named, and its least member contradicted (`RepairedIs`); the round robin's first
pending class is found in the same way.

Only model-checked: all liveness (`WaiterServed`, `CloseReturns`, `Reprobed`, `BatchEnds`,
`CatchesUp`, `ReaderGetsTerminal`, `StopHonoured`), which the prover does not do, and the
two safety properties of `GatewayEvents`. That an instance of an assumption exists is
shown by TLC, which evaluates them all.

## 6. Plan

In order of importance:

1. Theorems: the safety properties of `GatewayEvents` (nothing twice, nothing retained
   skipped); the refinement of an abstract event log by `GatewayEvents` and `ControlTurns`.
2. Session store and tool approval: terminal outcomes and decisions are used once,
   with recovery after a crash.
3. Kernel mailbox; channel runtime trackers; protocol transports.
4. A dropped `run_turn` future in `AcpSessions`; serial batches and the rate limiter
   in `ProgrammaticBatch`; pairing requests and their persisted copies.

Abstract specifications worth stating next: an event log with at-most-once, in-order
readers, implemented by `GatewayEvents` and `ControlTurns`; a single-owner slot with
takeover, for the owner file and the channel trackers.

## 7. Not modelled

Providers, memory retrieval, conversation assembly, MCP configuration, migration,
plugin bridges, benchmarks, the CLI and TUI, skills and channel protocols: text, formats
and network I/O, with little shared state of their own. `PROJECT.json` gives the reason
for each. Of the modelled parts, left out are error texts, payloads, statistics and
lock poisoning.
