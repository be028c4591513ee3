# A TLA+ model of the case execution engine

The `execution-engine` accepts requests to run test cases, stores an execution
record and an outbox message per case in MySQL, publishes a task per case to
RabbitMQ, and has outbox relays repair what a crash or a lost confirmation left
open. This directory specifies the engine in TLA+, checks it with TLC and
proves its main properties with TLAPS. Paths are relative to
`src/execution-engine/` unless they start with `src/`.

## The system

| Part | State | Operations | Hard because |
| --- | --- | --- | --- |
| Dispatch use case `internal/usecase/dispatch_app_service.go` | none of its own; the locals of each call | `ExecuteCase` for one case; `dispatchOneBatch` for a chunk of a batch RPC: insert, publish, write back | the three phases are separate, anything may run or crash between them; callers retry with the same `request_id` |
| Batch pipeline `dispatchStream` (same file) | two bounded Go channels, an errgroup, `batchSlots` | producer, workers, closer, aggregator with the caller's callback | cancellation, full channels, errors from every side |
| Outbox relay `internal/usecase/outbox_relay.go` | the lease of its pass | `Run`, `DispatchOnce`, `retryBackoff` | several instances; leases run out under their holder |
| Repositories `internal/infrastructure/persistence/mysql` | tables `execution_record`, `dispatch_outbox` | idempotent inserts, `ClaimPending`, compare-and-update by state and token, conditional status update | the whole protocol rests on their `WHERE` clauses |
| Case repository `mysql/ut_case_repository.go`, `ScanByCursor` | the table `ut_case`, owned by another application | pages in the order of the key, a query each | the table changes between the pages |
| RabbitMQ client `internal/infrastructure/mq/rabbitmq/executor_client.go` | `conn`, `pool`, `connReady`, `closed`; per channel confirms, returns, `broken` | `BatchRun`/`waitConfirms`, `borrow`/`release`, the reconnect loop, `Close` | two event streams read in any order; network calls outside the lock |
| Domain `internal/domain` | state machines of record and message | `CanTransitTo`, `ReplayStatus`, `DispatchBatch` | executors move the same record concurrently |
| gRPC server `internal/infrastructure/grpcserver`, `cmd/server/main.go` | the calls that are running, the shutdown's deadline | handlers and their streams, start of the relay, `GracefulStop` or `Stop`, `Close` of the client | all turns of the shutdown share one deadline; calls that do not end hold slots and channels |
| Executors and Python Web (external) | - | take messages, report `RUNNING`, `SUCCESS`, `FAILED` | at any speed |

Calls use the repositories inside transactions and the client outside of them;
relays do the same. They never talk to each other: the two tables and the
broker are all they share. The client's workers, reconnect loop and `Close`
share the client's fields under a mutex.

What makes each part correct: a message that was accepted is settled once, as
`PUBLISHED` only if it was queued; records and outbox agree; a lease has one
owner; callers are told the truth; a batch result partitions its batch and
trusts no confirmation of another run; the pool neither shrinks nor leaks; a
batch call that ends well has reported every chunk; slots of batch calls do not
leak; nothing is closed under a call. `PROJECT.json` lists the
hazards behind these, each at its line with the properties that cover it.

## The modules

| Module | What it is |
| --- | --- |
| `Repository` | the two tables and their statements, without behaviour of its own |
| `Dispatch` | EXTENDS `Repository`: calls, relays, broker queue, executors, crashes, time |
| `Delivery` | the abstract promise per idempotency key; `Dispatch` implements it (`KeepsPromise`) |
| `PublishConfirm` | one pooled AMQP channel and the `BatchRun`s that use it in turn |
| `BatchRunPort` | the contract of the port `BatchRun`; `PublishConfirm` implements it (`KeepsContract`), `Dispatch` uses it and nothing else (`UsesBatchRun`) |
| `RelayResult` | EXTENDS `Dispatch`: what is computed between `BatchRun` and write-back, `completeBatchResult` and `retryBackoff` |
| `ChannelPool` | borrow, release, reconnect loop and `Close` around the pool |
| `PoolPort` | the contract of the pool, in numbers; `ChannelPool` implements it (`KeepsPort`), `Lifecycle` uses it |
| `CaseScan` | the table `ut_case` and its paging, without behaviour of its own except that it changes |
| `Pipeline` | EXTENDS `CaseScan`: the goroutines of one `dispatchStream` |
| `Lifecycle` | one process: calls, `batchSlots`, relay, the shutdown of `main`, and the client by its contract |
| `MCDispatch`, `MCRelays`, `MCPublishConfirm`, `MCChannelPool`, `MCPipeline`, `MCLifecycle` | instances for TLC |
| `DispatchProofs`, `OutboxProofs` (EXTENDS it), `RelayResultProofs`, `PublishConfirmProofs`, `ChannelPoolProofs`, `PipelineProofs`, `LifecycleProofs` | theorems and their proofs |

`Dispatch` and `Lifecycle` are composed with the client by contract: what they
assume of it (`BatchRunPort`, `PoolPort`) is what `PublishConfirm` and
`ChannelPool` are shown to keep. `Lifecycle` takes the actions of `PoolPort`
as they are; for `Dispatch`, which has actions of its own for them, it is a
theorem that each actor's runs are runs of the contract. `Lifecycle` and `Pipeline` share the view of a
batch call from two sides: how many calls there are, and how one runs.

A definition keeps the name of the Go function where it stands for one;
`PROJECT.json` maps each to its lines. Definitions marked `mutant` are not part
of a specification: each is a plausible bug that makes one property fail.

### Dispatch and Repository

A row is named by its idempotency key `(request_id, case_id)`; both tables have
at most one per key. `status`/`version` are the record's columns,
`state`/`attempts`/`token` the outbox row's. Times are abstracted to the set
`due`: a row is in it when its `available_at` (PENDING) or `lease_until`
(PROCESSING) has passed.

- *Phase one*: `Insert`, `InsertConflict`, `InsertFails`. The inserts, the
  read-back and the decision from `ReplayStatus` are one step: they are one
  transaction, and what it decides on can only have been overtaken later,
  which later steps allow anyhow. A version conflict is found after the
  commit, so `InsertConflict` inserts.
- *Phase two*: `Publish` per message, then `Confirm` with any subset of what
  was sent, as `BatchRunPort` allows. An unroutable message is a success only
  if the run stopped early.
- *Phase three*: `CallWriteBack`, `RelayWriteBack`, `RollBack` when one row of
  the batch no longer matches (`updateByExecutionIDs` compares the number of
  rows), `FailWriteBack` when the database fails. A single call that failed
  reads its record in a step of its own before (`FindByID`).
- *Relays*: `Claim` any part of the claimable rows (`SKIP LOCKED`) under a
  fresh token. Tokens are random 128-bit values; the model draws any that no
  row and no relay holds, so names are used again without two holders sharing
  one by chance.
- *Environment*: `Elapse`, `Overrun` (a lease runs out under its holder),
  `Crash`, `Callback` (executors that have the message).

Only the deployment with an outbox is modelled. A message the broker takes
after `BatchRun` has given up on it is taken before in the model; nothing the
engine can see distinguishes the two.

### RelayResult

`Dispatch` says that what was not acked has `Failed`, and that a row that is
retried comes due later. `RelayResult` computes both for the batches that come
up: `completeBatchResult` for every pair of lists a port may return that
confirms what was acked (ids twice, in both lists, missing, or of no record),
and the delay by `retryBackoff` from the attempts of the failed rows. The delay
is that of the most tried message, also when that one is given up. When the
initial delay is configured to be longer than the cap the relay keeps the
initial one; the client's reconnect loop shrinks to the cap after its first
failure.

### PublishConfirm

`BatchRun` is `Borrow`, `PublishTask` per task, `LoopEnds` or `PublishFails`,
then the cases of `waitConfirms`' select: `GiveUp` (context, timer, closed
channel or closed confirms), `ReadReturn`, `ReadConfirm`, and `AllAnswered`
with the final drain of returns. Delivery tags are named by run and task, as
tags grow while a channel lives. RabbitMQ sends a return before its ack
(comment at `executor_client.go:703`), so `BrokerAck` delivers both at once;
the select reads them in any order. A payload that cannot be marshalled does
not occur for an id and two strings and is left out. Go buffers are not
bounded: the library blocks, it does not drop.

### ChannelPool

Each lock region is an action, each network call happens between two. `Shut`
is a closed channel, `up` the connections that are open. A `BatchRun` may mark
its channel broken (`ReleaseBroken`) or not (`ReleaseSound`). The second can
happen on a dead connection too: the connection may die after the last confirm,
and `borrow` may hand out a channel although the context is done, in which case
`BatchRun` publishes nothing and notices nothing. `Fill` puts in as many of the
new channels as fit. A refused dial only lengthens `backoff` (`DialFails`).
`Close` takes a poolful of channels out of the pool, but channels that workers
hold are closed by them and never come back (`ReleaseSound`), nor do those of
a broken connection. `CloseEnd` stands for both ends of its loop, the whole pool
or the end of the context, which is possible at any time; what the two mean for
the process is told apart in `Lifecycle` (`Exit`, `CleanExit`).

`PoolPort` is the pool in numbers: idle, borrowed, taken out by `Close`. Its
rules are that borrowed channels may or may not come back and that nothing is
put into the pool once the client is closed.

### CaseScan and Pipeline

A page is a set of keys; each query starts after the last key of the page
before and a page that is not full is the last one. `Upstream` adds or removes
cases while the call runs; `steady` are the cases that were there all along,
and `NilMeansComplete` says of those that each is in one reported chunk.

`first` is errgroup's first error, `Cancelled` its context. Each select is a
choice of the enabled actions. `DispatchOneBatch` is one step here and module
`Dispatch` there: it ends in `Emit`, whatever happened to the chunk, or in
`WorkerStops`. The slot of `batchSlots` is a wait here that `Start` ends;
`Lifecycle` says when it does.

### Lifecycle

A client has one call at a time. A batch call waits for a slot (`TakeSlot`,
`LeaveQueue`) and holds it until every goroutine of it has ended (`CallEnds`);
while it is alive it goes through chunks, borrowing one channel at a time (a
call with several workers borrows more, which changes no wait). `more` is the
number of chunks it may still take, the rest of its catalogue; a call whose
catalogue is shorter ends before (`CallEnds`). A call
that `Stop` cancels may go on: the selects of its workers, of its producer and of
`borrow` choose at random between the context and what else is ready, so it may
still take a slot, a channel or a further chunk (`Reported`). `Silent`
clients neither read their stream nor leave: their calls end only when the
server cancels them. `main` is where `run` in `cmd/server/main.go` has come:

| `main` | the code |
| --- | --- |
| `listening`, `serving` | before and in `srv.Serve`; the relay is started once the listener is there |
| `draining` | `GracefulStop` waits for the calls, new ones may still arrive on open connections |
| `forced` | the deadline is over: `Stop` cancels the calls and the wait goes on |
| `joining` | `relayCancel`, then the relay's end or the deadline |
| `closing` | `Close` of the client, with what is left of the deadline |
| `exited` | after the connections are closed |

The order that `docs/architecture.md` gives for the shutdown is kept for calls
whatever happens (`ClosedBehindLastUser`): after `Stop` the code still waits for
them. For the relay it is kept only in time: once the deadline is over the
client and the database are closed although a pass may still run. Its rows
stay leased and come due again, which is a `Crash` in `Dispatch`.

## Runs

| Run | Instance | Shows |
| --- | --- | --- |
| `fast_path` | 1 single call, 1 chunk of 2 keys that share a key, 1 relay, 2 attempts, 1 fault | `TablesAgree`, `HonestReply`, `SettledForGood`, `StatusOnlyAdvances` |
| `relays` | 1 chunk of 2 keys, 2 relays, 3 attempts, 1 fault | `TypeOK`, `PublishedWasQueued`, `ClaimsAccounted`, `OnlyHolderSettles`, `LeaseExclusive`, `ResultCoversBatch`, `BackoffIsCapped` |
| `conflict` | the calls of `fast_path` ask for different versions, one unroutable; fairness | `RightVersion`, `KeepsPromise`, `EverySettled`, `EveryCallAnswered` |
| `confirms` | 3 tasks, one unroutable, 3 runs in turn; fairness | `ResultPartitionsBatch`, `SuccessWasTaken`, `ReturnsAreFailures`, `CleanHandOver`, `KeepsContract`, `RunReturns` |
| `pool` | 2 workers, pool of 2, 3 connections; fairness | `TypeOK`, `PoolNeverShrinks`, `NoChannelForgotten`, `NothingLeftOpen`, `WokenByRefill`, `BorrowersServed`, `KeepsPort` |
| `stream` | 2 workers, up to 9 cases in pages of 2, one change to the table; fairness | `TypeOK`, `NilMeansComplete`, `CauseIsReported`, `StreamProceeds`, `StreamEnds` |
| `lifecycle` | 1 client of `ExecuteCase`, 3 of batch calls of up to 2 chunks, one of them silent, 2 slots, pool of 2; fairness | `TypeOK`, `SlotsBalanced`, `ClosedBehindLastUser`, `CleanExit`, `ShutdownProceeds`, `ShutdownEnds`, `SlotsServed` |

Five more runs expect a violation; each shows a place where a comment or a
document promises more than the code keeps:

| Run | What is said | What the code does |
| --- | --- | --- |
| `undelivered` | `vo/execution_status.go:5`: DISPATCH_FAILED means certainly not delivered | a confirm timeout on the fast path makes a delivered message DEAD and DISPATCH_FAILED |
| `advanced` | `docs/architecture.md:62`, `execution_repository.go:135`: a record the executor has moved on is no error | `ExecuteCase` reads the record first and returns the illegal transition as an error, leaving the message PENDING |
| `returned` | `executor_client.go:571`: an unroutable message is a dispatch failure | a run that gives up does not drain the returns, a message whose ack was read first stays a success |
| `stale` | `executor_client.go:300`: channels in use are dropped on release while `conn` is nil | a channel that is not marked broken is put into the pool |
| `cut_short` | `dispatch_app_service.go:334`: errgroup has the cancellation as its main error | errgroup does not record its parent's cancellation: a cancelled call can return nil |

Two divergences of the same kind are visible in the definitions and have no
run: `ReplayStatus` answers WAIT for a PROCESSING row, which the proto file
(`task_execution.proto:25`) describes as confirmed, and the comment at
`outbox_repository.go:138` restricts the fast path to messages never claimed,
while `Matches` accepts those a relay has put back.

### Bounds

- *Keys, calls, relays.* Two keys make a batch whose rows settle differently,
  which is what a roll-back needs; two actors beside each call make every
  pairwise race; a third actor of one kind only repeats them. The theorems
  hold for any number.
- `MaxAttempts`: 2 or 3, so that rows go back to PENDING, are claimed again and
  exhausted. Three are needed for a lease to change hands twice.
- `MaxFaults`: crashes, failed write-backs and overrun leases together. One is
  enough to make every other actor step in. It also keeps `attempts` finite.
- `MaxRuns`: 3, so that a channel is used, used again and replaced.
- `MaxConns`: 3, so that the pool is refilled twice, the second time with
  replacements of the first still under way. The last connection stays up.
- `InitialBackoff`, `MaxBackoff`: so that the backoff doubles once and is cut
  once.
- `Cases`, `BatchSize`: 8 cases and one that may come make 5 pages for two
  workers, one more than `batchCh` holds, and with 8 the last page is full, so
  that an empty one ends the scan. `Changing`: a case at the beginning, in the
  middle or at the end; with `MaxChanges` 1 a page boundary moves once.
- `MaxDelay`: 6 units for the initial delay and for the cap, either the longer
  one; with up to 4 attempts every initial delay passes every cap.
- `lifecycle`: more batch clients than slots and a slot less for a silent one,
  so that readers have to wait for each other; a pool as large as `Close` needs
  to be cut short half-way; `MaxMore` 1, so that calls end after a chunk or go
  round once, cancelled or not. `LifecycleProofs` covers any number.

Deadlock is not checked where a behaviour has an end: the calls are done, the
last run is over, the client is closed.

### Fairness

- `Dispatch`: relays poll for ever (`Run`); each `BatchRun` returns, which
  `RunReturns` shows for the client; a call goes on by itself; time passes.
  Not assumed: that the broker answers, that a database step fails or does
  not, that executors report. A relay's claim is fair although other relays
  may lock rows: a pass comes every poll interval.
- `PublishConfirm`: the publishing loop runs and the confirm timer fires.
- `ChannelPool`: the reconnect loop runs and its dial succeeds in the end
  (it retries for ever), a `BatchRun` ends and releases its channel, and
  waiting for the pool is fair among workers, because Go serves the receivers
  of a channel in order.
- `Pipeline`: goroutines run and what they call returns. That a callback
  returns is an assumption on the client: a stream whose client neither reads
  nor goes away blocks it, until the shutdown cancels it, see `Lifecycle`.
- `Lifecycle`: the database answers, a `BatchRun` ends (`RunReturns`), a call
  that has no chunk left ends, a cancelled one does not wait for a slot or a
  channel for ever, and the deadline passes; `batchSlots` and the pool are Go
  channels, which serve their waiters in turn. That a cancelled call ends early
  is not assumed, only that its catalogue has an end (`more`). Silent clients never read,
  clients need not leave, the broker need not be there, the relay need not do
  anything. `SlotsServed` therefore has a premise, that channels keep coming
  into the pool: without the broker every call waits in `borrow`, and the
  slots with them.

## Proofs

TLAPS proves, for every value of the constants that meets the assumptions:

- `DispatchProofs`: type correctness, `TablesAgree`, `PublishedWasQueued`,
  `HonestReply`, `RightVersion`, `LeaseExclusive`, `OnlyHolderSettles`,
  `ClaimsAccounted`, `SettledForGood`, `StatusOnlyAdvances`, that `Dispatch`
  implements `Delivery`, that it uses `BatchRun` by its contract
  (`UsesBatchRun`) and goes on with whatever that allows (`AnyRunIsPossible`).
- `OutboxProofs`: `RowsComeToRest`, `NoRowStranded` and `CallsGoAhead`, which
  it defines: what the liveness of `Dispatch` rests on.
- `RelayResultProofs`: `ResultCoversBatch` and `BackoffIsCapped`.
- `PublishConfirmProofs`: `ResultPartitionsBatch`, `SuccessWasTaken`,
  `ReturnsAreFailures`, `CleanHandOver`, that `PublishConfirm` implements
  `BatchRunPort`, and `RunProceeds`.
- `ChannelPoolProofs`: type correctness, `PoolNeverShrinks`,
  `NoChannelForgotten`, `NothingLeftOpen`, `WokenByRefill`, that `ChannelPool`
  implements `PoolPort`, and `NobodyWaitsInVain`.
- `PipelineProofs`: type correctness, that is, the capacity of the channels,
  `CauseIsReported`, `NilMeansComplete` and `StreamProceeds`.
- `LifecycleProofs`: type correctness, `SlotsBalanced`,
  `ClosedBehindLastUser`, `CleanExit`, `ShutdownProceeds` and `SlotsComeBack`.

*The argument for Dispatch.* No property is inductive by itself. `IInv` adds
`BatchesInOrder` (what is confirmed was written, what was written is queued if
routable) and `LeasesInOrder` (a token belongs to one relay, which has every
row with that token in its batch). From the first, `PublishedWasQueued` holds
when a write-back marks rows; from the second, the compare-and-update on state
and token identifies one relay, hence `LeaseExclusive` and `OnlyHolderSettles`.
`TablesAgree` holds since the same transaction writes both tables. `HonestReply`
and `RightVersion` need `RepliesInOrder`, which says how replayed and published
keys make up a call's work; it is proved on top of `IInv`, and so is
`AttemptsInOrder` behind `ClaimsAccounted`. A lease is sound while its relay has
all of its batch and none of it is due; a relay with a sound lease settles its
rows, as dead when they have had `MaxAttempts` claims. So a row past the limit
was claimed from a lease that was not sound; each fault (a lease that runs out,
a crash, an overrun) spoils one relay's lease at most, and `faults` counts it.
The action
properties and the refinement follow from the step that `IInv` holds before,
and so does `UsesBatchRun`: what an actor sees of its run is moved by its own
steps only. A crash ends a run without a report, which the contract, being about
a live caller, does not have. `AnyRunIsPossible` is the other direction. The
two together compose `Dispatch` with `PublishConfirm`: whichever run of the
contract `PublishConfirm` produces, `Dispatch` has a step for it.

*The argument for the outbox.* `EverySettled` needs fairness; what it needs
beside fairness is proved. `RowsComeToRest`: a row changes by an insert, a
claim, a write-back that settles it, one that puts it back for a retry, or its
time running out (`RowSteps`). `ChangesLeft`, computed from the row's columns,
falls with each of them: claims count in `attempts`, which `AttemptsInOrder`
bounds by `MaxAttempts + MaxFaults`, and a claim is followed by three changes at
most before the next. So a row changes at most `4 * (MaxAttempts + MaxFaults) +
6` times. `NoRowStranded`: until it is settled something can happen to it. It
is due and can be claimed, or its time has yet to run out, or a relay holds its
lease, and then has it in its batch (`LeasesInOrder`) and can settle it. That a
relay that is idle finds a token is counting: a row has one token, a relay that
is not idle one lease (`LocalsInOrder`), hence the premise that there are as
many tokens as rows and relays, finitely many of each; the tokens of the code are
random and never used up. `CallsGoAhead` is the same for `EveryCallAnswered`:
the stages of a call are ordered, no step of a relay or of another call moves
it, and one that is marking is one whose publication failed, so that
`CallWriteBack` or `RollBack` has its turn.

*The argument for RelayResult.* `ResultCoversBatch` is about lists: a list
picked by a set of ids has each message of the set once and in order, because
the n-th of the picked positions is the one with n picked positions up to it
(`PickProperties`), and that position exists because counting grows by at most
one from position to position. `BackoffIsCapped` compares a loop with its
closed form, the doubled delay cut at the cap. No induction scheme can be cited
(each has an operator as a parameter), so both argue by the least
counterexample: a set of numbers has a least element (`LeastNumber`, from the
well-foundedness of `<`), and the least number at which loop and closed form
differ is refuted by the one before. That only these batches and attempts come
up is `TriedInOrder`: a row that a relay publishes was claimed at least once, and
faults, hence attempts, are bounded.

*The argument for PublishConfirm.* `ResultInOrder` says how published tasks are
divided during a run, `ChannelInOrder` that a channel in use carries only
confirms of this run's unresolved tasks and that a taken unroutable task has a
return that is read or on its way. The second is why skipping a run's leftover
confirms is safe: a run that leaves any has marked the channel broken.
`RunProceeds` is the part of `RunReturns` that needs no fairness: what is still
to be written, answered and read of a run, and the ends of loop, context and
channel, are sets that shrink with every step, of the broker's and the caller's
too. It needs that a message is answered once (`TakenAnswered`).

*The argument for ChannelPool.* `IInv` has five parts beside the types.
`PlacesInOrder`: a channel is open exactly if it is in the pool, with the
reconnect loop or with one worker. That there are always enough identities to
open a channel under follows from it by counting. `LoopInOrder`: the loop works
on a new connection only while there is none, and what it has built is a
poolful. `ConnectionsInOrder`: an open connection is the current one, the one
`Close` is to close, or the one that was just dialled. `SignalsInOrder`: all
signals but the latest are closed, the latest is open exactly from a
disconnection to the end of the refill, nobody waits for one of the future, and
the loop ends only in a closed client; `WokenByRefill` follows. `PoolKept` strengthens
`PoolNeverShrinks`: it counts only the workers that serve the current
connection (`Serving`), because one that comes back to a connection that has
been replaced puts nothing into the pool. A worker joins `Serving` when it takes
a channel and leaves it when it puts one back or finds the pool full; `Fill`
makes the pool full whoever else is under way; a replacement that fails kills
the connection, and with it the premise. `NobodyWaitsInVain` follows from
`PoolNeverShrinks` and `WokenByRefill`, with `Reconnecting`: without a connection
the loop is always on its way to the next one.

*The argument for Pipeline.* `NilMeansComplete` needs three parts. `PagesInOrder`:
each page lies behind the one before, and a case that was there all the time is
in a page or behind them all, whatever the table does; a page that is not full
contains all of the rest. The last is shown by counting: how many cases lie below
a case maps the rest one to one onto 0, 1, 2, ..., so one of them is behind
exactly `BatchSize` others. `ChunksInPlace`: each chunk is in one place between
scan and callback, and reported once if it is in none. `EndsInOrder`: a goroutine
ends with nothing left before it. The last two hold only while nothing has
failed (`Quiet`), which is why `CutShortIsAnError` is violated: a call whose
client is gone can end without an error and with chunks on their way.

`StreamProceeds` is the part of `StreamEnds` that needs no fairness: the
goroutines are never all blocked (`NeverStuck`), and `StepsLeft`, a weighted
count of what is left of the scan, the channels and the goroutines, falls with
every step of theirs and never rises. With fairness to each goroutine the call
ends, since a natural number cannot fall for ever; that last step is temporal
and left to TLC (`StreamEnds`). `NeverStuck` needs `EarlyEndsCancel`: whoever
ends before its input has ended leaves the group cancelled, so that nobody is
blocked by a full channel that is no longer read.

*The argument for Lifecycle.* `SlotsBalanced` counts; each action moves one call
into or out of `Holding` together with its token. `OutAccounted` says that the
channels that are out are those of publishing calls and of the relay. `InOrder`
says that `main` is only past a wait when the wait is over, and that the pool
and what `Close` took out of it are no more than a poolful; so if it ends in
time it has all of it, and nobody holds any.

`ShutdownProceeds` is to `ShutdownEnds` what `StreamProceeds` is to
`StreamEnds`: once the deadline is over `main`, or a call it waits for, can go
on (a call that gives a channel back has one that is out, by `OutAccounted`),
and from `Stop` on each step of a call or of `main` shrinks a finite set, the
stages that are left (`CallsLeft`, `MainLeft`), or takes a channel out of the
pool. A cancelled call that takes a further chunk enters its stages again, but
for one chunk less: `CallsLeft` has each stage once per chunk. Nothing the
relay or the broker does makes the sets grow, and no call comes in.
`SlotsComeBack`, behind `SlotsServed`, is `SlotsBalanced` and counting: if all
slots were with silent clients there would be no more slots than those.

`SlotsComeBack`, `NobodyWaitsInVain`, `RunProceeds`, and the three of
`OutboxProofs` are stated for the proof and not among the properties of
a run; the runs check the liveness that rests on them.

*Assumptions.* The named ASSUMEs: constants have their types, calls, relays and
singles are disjoint, limits are positive, `NoToken` is no token; `ChannelPool` has enough identities
for two poolfuls and a channel per worker; `RelayResult` has finitely many keys,
the (task, case) pairs of two columns of bounded width. `NoRowStranded` has the
premise above; no other theorem about `Spec` has one.

Checked by TLC only: what holds under fairness, which is beyond the prover:
`EverySettled`, `EveryCallAnswered`, `RunReturns`, `BorrowersServed`,
`StreamEnds`, `ShutdownEnds`, `SlotsServed`. Every invariant and
action property that a run finds to hold is also proved.

## Not modelled

- The mode without an outbox, in which nothing repairs a lost message.
- MySQL's snapshot rules. `ExecuteCase` reads the case before it inserts, so
  under REPEATABLE READ the read-back after a duplicate key may not see a row
  a concurrent retry has just committed; the model only lets the call fail.
- In the gRPC handlers: argument checks and the translation of errors into
  codes. They keep no state. `NormalizeRequestID` likewise.
- In `main`: reading the configuration, logging, and connecting to MySQL and
  RabbitMQ, which fails before anything runs.
- MySQL and RabbitMQ themselves, beyond what the engine sees of them.
- Generated code, `cmd/bench`, `cmd/envinit`, and the Python service under
  `src/before_reactoring`, which the engine replaced.

## Plan

Done, in this order: `Repository` and `Dispatch` with the promise `Delivery`;
`PublishConfirm` with the contract `BatchRunPort`; `ChannelPool`; `Pipeline`;
their proofs; then the backoff and `Close` in `ChannelPool` with the contract
`PoolPort`, `CaseScan` under `Pipeline`, `Lifecycle` with its proofs,
`RelayResult`, `ChannelPoolProofs`, and the proofs of `ClaimsAccounted` and
`NilMeansComplete`; then `RelayResultProofs`, `StreamProceeds`, `ShutdownProceeds`,
`WokenByRefill` and the composition of `Dispatch` with its port; then
`OutboxProofs`, `RunProceeds`, `NobodyWaitsInVain` and `SlotsComeBack`.

Left, all of it to deepen the model: a read-back that may be older than the
insert, to find the calls that the snapshot rules make fail; the mode without an
outbox.
