# Thornhill: a verification development

Thornhill is a Go server that puts one operator in front of an agent
runtime. The operator speaks (OpenAI Realtime, `internal/desk`) or clicks (the
browser, `web/`); what he asks for becomes a *job*, which River delivers to a
worker, which starts a *run* on an external Hermes server and follows its event
stream. A run may ask for authority to use a tool. The operator, or a policy he
left standing, decides; an unanswered request is parked.

This directory holds TLA+ modules of that system, the TLC configurations that
check them and TLAPS proofs about them. `PROJECT.json` maps every modelled
definition to the lines it stands for.

1. [Inventory](#1-inventory)
2. [What is modelled](#2-what-is-modelled)
3. [The runs](#3-the-runs)
4. [Fairness](#4-fairness)
5. [What is proved](#5-what-is-proved)
6. [Where code and documents disagree](#6-where-code-and-documents-disagree)
7. [Abstractions and what is left out](#7-abstractions-and-what-is-left-out)
8. [Plan](#8-plan)

## 1. Inventory

| component | state it keeps | operations | hard behaviour | what makes it correct |
|---|---|---|---|---|
| **Job store** `internal/store` | `jobs` row (status, Hermes run id, approvals as JSON, session id), standing approval policies, attention events and their leases, push subscriptions and deliveries, the dispatch-pause switch | `UpdateJob` (read-modify-write under `FOR UPDATE`), `ClaimApproval`, `ParkApproval`, attention claim/release/spoken, push claim/deliver/fail, `UnresolvedRunJobs`, `PendingApprovalRuns` | every caller's mutation races every other; leases expire while their holder works | a mutation whose guard is false changes nothing; an approval is consumed once; an attention event is announced until it was heard |
| **Dispatcher** `internal/dispatch/dispatch.go` | none (the row and the River row are one transaction) | Dispatch, Answer, Cancel, Resume, DecideApproval, Rename | Resume releases the old run *outside* the transaction that requeues the job | the row and its delivery commit together; only an operator puts a finished job back |
| **River queue** `internal/dispatch/queue_river.go` | River's rows: state, attempt | enqueue, fetch, retry, rescue, discard; four workers, two attempts, no job timeout | duplicate and late deliveries; a worker held by a silent run | a job on the board has a delivery that will act on it |
| **Hermes bridge** `internal/bridge/hermes.go` | per job: owner generation with its cancel function and run id, session policies; per run: approval lock, parking timer, cleanup goroutine | Run and its event loop, approval handler, DecideApproval, parking, the indeterminate fence, Cancel, ReleaseRun, ReconcileOrphans | the largest concentration of races in the program: delivery, operators, timer, cleanup goroutine, restart and a remote server act on one job | one POST of authority per request, no decision on a parked request, no live run forgotten, no outcome of an old turn written over a new one |
| **Process** `cmd/thornhill` | lifetime of everything in memory | start (reconcile, then River, then HTTP), stop | a crash at any point | reconciliation leaves no job without an owner |
| **Session state machine** `internal/desk/fsm.go` | LIVE, QUIET, PARKING, PARKED; busy flags; grace and drain deadlines | audio, speech, tool, mute and park events; Tick | timers against events in any order | a requested park happens, within its deadline, and not over audible output |
| **Desk** `internal/desk/desk.go` | response in flight, tool batch, urgent and normal injection queues, the attention lease and its single retry slot | server events, tool results, job announcements | responses are serialized; an acknowledgement needs the response done *and* its audio started *and* stopped | an announcement is acknowledged only if it was heard and is never lost |
| **Gateway** `internal/gateway` | current desk and its cancel function, closing flag, budget breaker | new call, publish desk state, shutdown, HTTP and WebSocket handlers | an old desk outlives its successor's start | the published state is the current desk's; shutdown waits for all |
| **Event bus** `internal/events` | sequence number, ring of 256, subscribers (64 each), persistence queue (256) | Publish, PublishSync, Subscribe with replay, Close | bounded channels drop; replay overlaps live events | order of sequence numbers; a synchronous event is persisted or the caller is told |
| **Push worker** `internal/notify` | live flag, cancel of the active send; leases and attempts in the store | claim, send, mark, release, retry with back-off | the voice session turns live in the middle of a batch | no push while voice is live, bounded attempts, no delivery lost to a lease |
| **Summarizer** `internal/summarize` | debounced pending events | fold | limits on delay and on size | every event is folded within the maximal wait |
| **Browser** `web/` | a view of server state, WebSocket reconnection, service worker | parse, reconnect, subscribe to push | stale and reordered views | the view never runs backwards |
| **Deployment** `scripts/` | pause switch, transition journal, receipt | pause, drain, switch, verify, roll back, recover | power failure between any two steps | dispatch is not left paused after a verified end, nor resumed on an unverified one |
| others | | Realtime client, speech prebake, configuration, CI policy checker, dummy OpenAI server | | I/O, parsing and test doubles |

How they interact: the desk and the browser call the dispatcher; the dispatcher
writes the store and enqueues a River row in one transaction; River calls the
bridge's `Run`; the bridge mutates the row through the store, publishes on the
bus, and exchanges HTTP with Hermes; `Cancel`, `Resume` and `DecideApproval`
reach the bridge through the dispatcher while `Run` is going on. The bus feeds
the browser, the desk (announcements), the push worker and the summarizer; a
status change of the row writes an attention event in the same transaction.
The deployment scripts flip the pause switch that a database trigger enforces.

The project started where most can go wrong and least can be tested: one job
and everything that acts on it at the same time. Its second part is the voice
side: the session, the calls that supersede one another, the event bus that
carries what they publish, and the notifications that stand in for a session
that is absent.

## 2. What is modelled

| module | stands for |
|---|---|
| **one job** | |
| `JobRow` | the durable row and each mutation passed to `UpdateJob`, guard included, as an operator from a row to a row |
| `HermesBridge` | the concurrent system around one row: River's deliveries, operator calls, cleanup goroutines, restart, the Hermes server |
| `JobLifecycle` | what a job promises its operator: the abstract specification |
| `MCHermesBridge` | sets of policies and symmetries for TLC |
| `HermesBridgeProofs`, `LifecycleProofs`, `StrandProofs` | theorems and their lemmas |
| **the voice side** | |
| `SessionFSM` | every method of the session state machine, as an operator from a machine to a machine |
| `SessionTimers` | that machine against a clock, with every event the desk lets through |
| `VoiceDesk`, `MCVoiceDesk` | one desk: response serialization, injection lanes, tools, attention rows, park, against the Realtime server |
| `EventBus` | the bus: publication, persistence queue, subscriptions, replay |
| `VoiceCalls`, `MCVoiceCalls` | the gateway's desks, one superseding the other, publishing over `EventBus` |
| `AttentionPush`, `MCAttentionPush` | the Web Push outbox, its worker and the store operations under it |
| `SessionTimersProofs`, `VoiceDeskProofs`, `EventBusProofs`, `VoiceCallsProofs`, `AttentionPushProofs` | theorems and their lemmas |

The parts meet at narrow places, and each module takes the others' side of such
a place as its environment. `VoiceDesk` composes `SessionFSM` (its ticks
may find any timer expired; `SessionTimers` says which may expire when).
`VoiceCalls` composes `EventBus` with the published life of a desk, which is what
`VoiceDesk` and `SessionTimers` allow and less. `AttentionPush` receives the
session states `VoiceCalls` publishes. Attention rows are where one job meets the
voice side: a status change of the row inserts one (`JobChanges` in `VoiceDesk`
and `AttentionPush`), in the transaction that `HermesBridge` models as one step.

`HermesBridge` extends `JobRow`. Its variables:

| variable | in the code |
|---|---|
| `job` | the `jobs` row: `Status`, `HermesRunID`, `Approvals`, and whether `HermesSessionID` was set (a resumed turn loads the session's history before it starts a run) |
| `rows` | `river_job` rows of this job: available or running, and the attempt |
| `standing` | `approval_allows` and `approval_denials` for the job's pattern keys; other jobs write them too (`OtherJobRemembers`) |
| `upstream` | Hermes: each run's state, the requests its agent waits on, the events not yet read |
| `proc` | the program counter and local variables of every goroutine: a delivery in `Run`, an operator's call, the start-up pass |
| `turn` | a delivery's context (`ended`), its parking timer (`armed`), its `hermesRunOwner.runID` |
| `mem` | `h.cancels`, `h.runIDs`, and the session allow and deny maps |
| `locked` | `h.approvalLocks`, one mutex per run key |
| `janitor` | `retryParkedRunStop`: tries left, and where it is |
| `life` | up, shutting down, down, reconciling |
| `spent` | use of each bound |
| `hist` | history that only properties read |

Each action is one store transaction, one HTTP exchange or one section under
`h.mu`; between any two of them every other process may run. The places of a
process (`proc[p].pc`) name the next step of the code:

- *Delivery.* `RiverFetch` `RunRead` `Claim` `Install` `Recheck` `Start`
  `SetRun` `Persist` (hermes.go `Run`, up to the published run); then the event
  loop: `ReadTerminal` `HandleRequest` `ParkTimer` `LeaveStream`; the
  handler's lanes `AutoDecide` (a standing policy answers), `Collide`
  `CollideStop` `CollideWrite` (a second request), `Admit` `Arm` (ask the
  operator); then the outcome: `ReadOwnedRun` `ContextEnded` `Fail` `Succeed`
  and the deferred cleanup `Finish`.
- *Operator.* `Dispatch` `Answer`; `Cancel` `CancelRead` `CancelStop`
  `CancelSignal`; `Resume` `Release` `ReleaseSignal` `ResumeCommit`;
  `DecideApproval` `DecideCheck` `Spend` `DenyPolicy` `Post` `AllowPolicy`
  `Settle`.
- *Shared.* Parking (`ParkWrite` `ParkStop` `ParkClear`) runs on behalf of a
  timer, of a decider that finds the run not owned by this process, and of the
  start-up pass. The indeterminate fence (`FenceStop`, `AutoFence`,
  `CallerFence`) runs for automatic and for operator decisions.
- *Cleanup.* `JanitorRead` `JanitorStop` `JanitorClear`.
- *Process.* `Crash` at any step, `Shutdown` and `Exit`, `Restart`, then
  `Reconcile` with `OrphanStop` and `OrphanWrite`.
- *Hermes.* `RunAsks` and `RunEnds`; within the code's own exchanges,
  `StopRun`, `StopAndConfirm` and `PostApproval` allow every combination of an
  effect and its answer the network permits.
- *Other jobs.* `OtherJobRemembers`.

A store call may fail (`StoreFault`), up to a bound; a call made with an ended
context fails without using that bound.

`JobLifecycle` is seen through the row alone (`status`, `slot`): a job is
queued before every turn; only a turn in progress finishes, fails or asks; a
request is decided or parked, never both; an undecided request is evidence
(`parked`, `indeterminate`), never an implied allow or deny; done and cancelled
are final; only the operator requeues. `ImplementsLifecycle` is the refinement.

### The session state machine and its timers

`SessionFSM` has one operator for each method of `FSM`, over the record of its
fields: `CallStarted` `SpeechStarted` `SpeechStopped` `ResponseStarted`
`ResponseDone` `AudioStarted` `AudioStopped` `ToolPending` `QuestionVoiced`
`SetClientState` `RequestPark` `ForcePark`, and `Expired` / `Ticked` /
`TickParks`, which are `Tick` cut in three: which deadlines have passed, what
becomes of the state, and for which reason the session parks.

`SessionTimers` has the machine, the clock `now`, the ticker's channel of one
(`due`), where `Run` is and why it ended. Each action is one event of the desk;
`Advance` lets a second pass, `Tick` is the event loop taking the tick.

### One desk

| variable of `VoiceDesk` | in the code |
|---|---|
| `fsm` | `d.fsm` |
| `phase`, `session` | where `Run` is: dialing, in its loop, between the lull check and the write of `response.create`, closing; the claim token |
| `desk` | `pendingUserTurn`, `pendingContinuation`, `responseCreateEventID`, `activeResponse*`, `responseAttention`, `attention*`, the injection in hand |
| `lanes` | `d.urgent` and `d.inject` with their capacities |
| `tools` | the batch in execution |
| `server`, `events` | the Realtime session, and its events not handled yet |
| `rows` | `attention_events`: state, claim token, lease |

The event loop handles one thing at a time, and each handler with all it calls
is one action: `NewSession` `Materialize` (start-up), `HandleCreated`
`HandleAudioStarted` `HandleAudioStopped` `HandleAudioCleared` `HandleDone`
`HandleError` and `Stale` (server events), `BusEvent` (an announcement is
claimed and offered), `TickInject` and `TickRespond` (the tick, cut where the
code writes to the socket without a lock against `RequestPark`), `TickLadder`,
`Forced`, `Release` (the exit). Beside it run `ToolPark` and `ToolsReturn` (the
tool goroutine), `Park` and `UserText` (the browser). The server answers late:
`ServerAccepts`, `ServerSpeaks`, `ServerDrains`, `ServerCompletes` put events on a
queue the desk reads later; `ServerRejects`, `ServerClears`, `ServerFails`,
`ServerRepeats` are its misfortunes. Leases lapse and another desk claims rows.

### Calls and the bus

`EventBus` has the sequence of events (`log`), who holds `publishMu` between two
steps (`mutex`), the publication each goroutine is in (`calls`), `persistQ`, the
event in `persistOne`, the durable log, `persistClosed`, and per subscriber the
replay and channel contents. `Publish` is one step. `PublishSync` is up to three: a
full queue is waited for under `publishMu` (`Admit`), then the write is waited
for (`Awaited`); each wait may time out. `TakeItem` and `SaveItem` are the
persister, `Close` the shutdown, `Subscribe` `Receive` `Unsubscribe` a
subscriber with the goroutine that pumps the replay before the live events.

`VoiceCalls` adds `g.current`, `g.closing`, what `Shutdown` returned, and for
each desk where its `Run` is and what it is about to publish. `StartDesk`
supersedes, `Attach` `Refresh` `Land` `DialFails` are the desk, `Post` its
`publishDeskState` under `g.mu` and the generation check, `DeskGone` the end of
its goroutine; `ReadCurrent`, `RequestPark` and `PostPark` are a request to park
whose three steps may have a new call, a parked desk or a shutdown between them;
`Shutdown`, `ShutdownReturns` and `CloseBus` are `main`'s deferred calls.

### Push

| variable of `AttentionPush` | in the code |
|---|---|
| `attention`, `sub`, `entitled`, `outbox` | `attention_events`, `push_subscriptions`, which deliveries are no older than the opt-in, `push_deliveries` with attempts, token, lease, back-off |
| `voice`, `inbox` | the session: none, attached, or forgotten (gone, though the last state on the bus says LIVE); the states the worker has not read yet |
| `up`, `live`, `step`, `wake` | the process; `w.live`; `Run` between `live` and `cancelActive`; the wake channel |
| `worker` | the `deliver` goroutine: its claimed batch, the delivery at hand, whether its send was cancelled, the answer |

`Run` is `TakeEvent` `CancelActive` `Ticker`; `deliver` is `Wake` `Claim`
`NextDelivery` `Send` `Answered` `Release`; the provider is `Answer`; the store is
changed by `JobChanges` `Spoken` `Enrol` `Revoke`; time passes in `Backoff` and
`Lapse`; the process goes through `Stop` `Down` `Restart`, a crash being a `Down`
without a `Stop`. A store call may fail where the code handles it. A session comes
with `CallStarts` and is over in one of three ways, those `VoiceCalls` has: its desk
publishes PARKED (`CallEnds`); it does, and a late request to park publishes PARKING
after it (`ParkComesLate`); or a new call supersedes it, so that its PARKED is
suppressed (`Superseded`), and LIVE stays the last state until the new call's desk
attaches, if it does.

Operators whose comment begins with *Mutant* stand beside the definition they
alter and are used by no specification: each is a plausible slip, kept to show
that the property it breaks depends on the code being right.

## 3. The runs

All runs have `CHECK_DEADLOCK FALSE`, because every instance may stop where it
should: a job that is done or cancelled with no call under way, a session that is
over with no session left, an outbox with nothing to send, a closed bus. That
nothing stops earlier is what the liveness properties say.

| run | instance | checks |
|---|---|---|
| `Authority` | 1 delivery, 2 callers, 1 run, 2 requests, session decisions, permanent policies of other jobs, no faults | `TypeOK` `OneUseAuthority` `SingleApproval` `ImplementsLifecycle` |
| `Failures` | 1 delivery, 2 callers, 1 run, 1 request, permanent decisions, 1 store fault, 1 crash or shutdown | `OneUseAuthority` `ParkedNeverDecided` `ActiveRunTracked` `StrandedOnlyByFaults` `ImplementsLifecycle` |
| `Turnover` | 2 deliveries, 1 caller, 2 runs, 1 request | `ActiveRunTracked` `NoStrandedJob` |
| `Progress` | 1 delivery, 1 caller, 1 run, 2 requests, fairness | `ApprovalSettles` `CancelReleasesWorker` |
| `StaleTurn` | as `Turnover` | violation of `OwnTurnOnly` |
| `LostDecision` | as `Authority`, 1 request | violation of `UnknownOutcomeRecorded` |
| `Stranded` | 1 delivery, 2 callers, 1 store fault | violation of `NoStrandedJob` |
| `Ladder` | timers of 1 to 5 seconds, events in the first 3, the clock to 8, fairness | `TypeOK` `StateAgrees` `DrainAdmitsNothing` `GraceHolds` `RequestedParkLands` `SilenceParks` |
| `Session` | 1 session, 2 attention rows, lanes of one, 2 responses, 1 operator request, 1 misfortune, 2 unread server events | `TypeOK` `SpokenWasHeard` `SingleWriter` `ParkCutsNothing` `HeldRowsAreQueued` `RetryKept` |
| `Push` | 2 notices, 1 browser, 2 attempts, 1 upset (call, new enrolment, failed store call, stop or crash), fairness | `TypeOK` `QuietWhileVoice` `RecordIsTrue` `RetryBudget` `OptInEpoch` `SettledStays` `DeliverySettles` |
| `Calls` | 2 calls, 1 subscriber, queue and channel of one, ring of two, 2 optional events, fairness | `TypeOK` `CallsInOrder` `StatesFenced` `SubscriberSeesAll` `LogIsFaithful` `SilentAfterShutdown` `ShutdownEndsDesks` |
| `AbsentParked` | as `Calls`, no optional event | violation of `AbsentSaysParked` |

What the properties say:

- **`OneUseAuthority`** No request is ever named by two authority POSTs,
  whoever sends them: two operators, a standing policy, a retry, a restarted
  process. The POST is not idempotent, and the nonce that protects it lives in
  the row, so the property joins the row, the locals of every goroutine and the
  provider. The `Authority` run has two requests, so that a decision on the
  first can meet the arrival of the second.
- **`ParkedNeverDecided`** Parking is not a decision, and nothing is sent for a
  parked request afterwards: the timer may fire at any point of a decision.
- **`SingleApproval`** The row never shows two approvals: the second request
  collides, and a fence does not join a pending one. It holds of the
  combination of the handler's lock and the re-read under it, not of the
  mutation, which appends.
- **`ActiveRunTracked`** A run the row has named and that is still active
  upstream is still named, so that somebody can stop it. Handles are cleared on
  proof of a terminal status only, by five different paths.
- **`NoStrandedJob`**, **`StrandedOnlyByFaults`** A job the board shows as
  queued, running or waiting has a delivery on its way to it. With two turns
  this rests on the owner-scoped cleanup and on row and River row committing
  together; over crashes it rests on reconciliation and on River's rescue.
- **`ImplementsLifecycle`** See above; two of the hardest cases are a fence
  that arrives after the delivery already failed the turn and a park that
  arrives after the decision was claimed.
- **`ApprovalSettles`**, **`CancelReleasesWorker`** A worker is held neither by
  an unanswered request nor by a cancelled job.

- **`StateAgrees`**, **`DrainAdmitsNothing`** A requested park survives everything
  the operator and the model do afterwards: speech that would make the session
  live again, playback, tool output, another request. While it is pending,
  nothing new is admitted.
- **`GraceHolds`** Silence and a muted, hidden tab do not end a session within
  the thinking time of a voiced question, while the rollover and a requested park do.
  The ladder tests its rungs one after the other, and which of them grace holds
  back depends on their order.
- **`RequestedParkLands`**, **`SilenceParks`** The park happens even when what is
  drained never finishes, and a session in which nothing happens closes.
- **`SpokenWasHeard`** A row is acknowledged only if a response that carried it
  completed and its audio was played to the end. Completion and audio arrive as
  separate events in either order, and late ones of earlier responses arrive too.
- **`SingleWriter`** What the desk knows of the server lags. Still it never asks
  for a response over another one that is generating or audible.
- **`ParkCutsNothing`** The check for a lull and the write of `response.create`
  are two steps, and a park may be requested between them or by a tool of the
  very response.
- **`HeldRowsAreQueued`**, **`RetryKept`** A claimed row is always somewhere on its
  way to the operator, through rejection, silence, a cleared playback and a full
  lane, and the one retry slot never loses what it holds.
- **`QuietWhileVoice`** The flag is set, then the send is cancelled, while the
  other goroutine registers its send between its own checks of the flag.
- **`RecordIsTrue`**, **`RetryBudget`**, **`SettledStays`** Attempts are counted by the
  claim, not by the send, and a release does not give them back. Through crashes,
  lapsed leases and interruptions the record stays true to what was sent, and a
  delivery is sent no more often than attempts and misfortunes allow.
- **`OptInEpoch`** A browser that was disabled and enrols again inherits no
  row of its former subscription: neither waiting nor given up, whatever the worker
  has claimed meanwhile. Of the batch it holds in memory see section 6.
- **`DeliverySettles`** The wake channel holds one signal; signals are dropped
  while the worker is busy or the session live. No notice waits for ever, as long as
  the bus tells the worker the truth. While it tells of a session that is gone
  (finding 4 of section 6) the worker stays silent, and nothing is claimed; a call
  that follows, and is heard to end, or a restart brings the promise back. Without
  this exception TLC finds a notice that waits for ever after `Superseded`.
- **`CallsInOrder`** A desk outlives its successor's start by as long as its
  parking takes; none of its states is published over the successor's. It takes two
  desks, a late publication and the generation check under `g.mu` to keep it.
- **`StatesFenced`** Before anything else can happen under `g.mu`, the state just
  published is durable, or its write failed or timed out.
- **`SubscriberSeesAll`** The replay and the live channel overlap. Together they
  hold every event exactly once and in order, save what lagging made it miss.
- **`LogIsFaithful`** The durable log is in the order of the bus and lacks only
  what a full queue, a failed or late write, or the closed bus accounts for.
- **`SilentAfterShutdown`**, **`ShutdownEndsDesks`** `Shutdown` waits for desks
  that may wait for the bus; it comes to an end, and then nobody speaks.

Why the bounds are enough. The bridge is per job: jobs share worker slots, which
only delay, and permanent policies, which `OtherJobRemembers` lets appear at any
moment. Two callers are what a race of operators needs; a third would
queue on the same lock and the same row. Two deliveries and two runs are what
an old turn meeting a new one needs. Two requests are what a collision needs.
One fault and one crash can fall on any step; two faults at different steps
are not covered by a run. `ParkTries` is 1 where the code has a small constant:
each try is the same step, and the last one is the one that ends. The instances
have between 55 thousand (`Progress`) and 1.5 million (`Authority`) distinct
states; `Turnover` has one caller, since two callers with two turns take too
long to be checked with every change.

Timers of the `Ladder` instance are small but keep the order and the coincidences of
the real ones: park after quiet, grace longer than the drain, the mute limit equal
to the grace, the rollover last. Events may happen at each of the first three
instants, the clock then runs until every timer has expired. The desk has two rows,
so that one is retried while another is claimed, and lanes of one, so that each can
be full; two responses, so that a late event can meet the next one; one misfortune
of any kind at any step. The outbox has two notices, so that a batch is interrupted
between them, two attempts, so that there is a last one, and one browser, since
deliveries of two are independent rows of one batch. The bus has queue and channel
of one and a ring of two, so that all of them overflow within the five or six events
of two calls; a third call would supersede the second as the second does the first.
Two misfortunes in one instance (a crash during a retry after a crash) are
model-checked for the bus only; the safety properties of bridge, desk and outbox are
proved for any number of them (section 5; not stranding a job, for as many crashes
as River makes attempts, less one). `Session` has 2.7 million distinct states,
`Push` 400 thousand, `Calls` 340 thousand, `Ladder` 250 thousand. `Push` has one
upset, so that no call follows a forgotten one; with two upsets and one notice all
its properties were checked too.

`hist.stale` is the exception `ActiveRunTracked` and `NoStrandedJob` make: once
a delivery has written over another's turn (the first finding) nothing more
can be promised of that job. It never holds in an instance with one delivery,
so `Authority` and `Failures` check the properties without the exception.

## 4. Fairness

Every module with a liveness property states its own fairness.

`LiveSpec` of `HermesBridge` assumes

- weak fairness of the steps a delivery, a call under way or a cleanup
  goroutine takes by itself: a Go goroutine that can run does, and HTTP and
  store calls are bounded by their own timeouts, so each ends one way or another;
- strong fairness of the steps that wait for an approval lock: `sync.Mutex`
  hands itself to a waiter that has starved for a millisecond, so a goroutine
  cannot be overtaken for ever;
- weak fairness of leaving the stream once the turn's context has ended
  (`LeaveStream` is otherwise the network's choice).

It assumes nothing of the operators, the agent or the network: no call needs to
start, no run needs to end, no stream needs to break. In particular a pending
approval must settle though nobody ever answers it, by the parking timer alone.

`SessionTimers` assumes that the clock runs and that the event loop takes its ticks
(each turn of the loop is bounded, so a tick is taken before its successor comes).
Speech need not stop, a response or tool need not end.

`AttentionPush` assumes that both goroutines run, that requests and store calls end
(they carry timeouts), that a call is over at some time, in whichever of the three
ways, and that a process that went down is started again. That a call follows one
that was forgotten is not assumed. Time is let pass only between two rounds of the
worker (a batch is sent within its lease), so back-off and lease have strong
fairness: time does not stop while the worker is busy. The browser, the jobs and the
operator owe nothing.

`VoiceCalls` assumes that every desk's goroutine runs on, that a *cancelled* desk
comes to the end of its dial or its loop (the context reaches both), that a
request to park gets through the bus, and that the persister works, since each
write has two seconds (`persistOne`). A desk that nobody cancelled need not end, no
subscriber need read, and nobody need call `Shutdown`.

## 5. What is proved

`HermesBridgeProofs` proves, for every number of deliveries, callers, runs,
requests, tries, faults and crashes that satisfies the assumptions of `JobRow`
and `HermesBridge` (`BoundsAssumption`, `ParametersAssumption`; finiteness is not
assumed):

- `TypeCorrect`: `Spec => []TypeOK`;
- `TypeInductive`: `Spec => []TypeInv`, the invariant behind it.

`TypeOK` is not inductive. That a fetch stays within River's attempts needs
*an available row has an attempt left* (`AttemptLeft`); that a cleanup try does
not count below zero needs *a cleanup goroutine at work has a try left*
(`TryLeft`); that the row mutations get a request and a run to write needs *a
process past the point where it took an approval or started a run holds one*
(`InHand`). `TypeInv` is their conjunction. The proof has a lemma for every
shared helper (a process moves, a row is settled, a stop is sent, a lock changes
hands), a lemma for every group of actions, and one step per action.
Its first lemmas are about the mutations: each takes a row to a row.

It also proves, under the same assumptions (`ProcessesAssumption`, that a delivery
is no operator's call and not the start-up pass, is used here):

- `AuthorityIsOneUse`: `Spec => []OneUseAuthority`;
- `ParkingIsNoDecision`: `Spec => []ParkedNeverDecided`.

Neither property is inductive, since the count of POSTs says nothing of who may
send the next one. The argument is one of custody. A request that may still be
decided is in exactly one place: unread on one run's event stream, in the hands
of one process on its way to a POST (or to the row), or pending on the row
(`SoleCustody`). As long as it is carried, nothing was sent for it and it was
not parked; a request not asked yet is nowhere (`Custody`). Each step is then of
one of two kinds. Most steps are `Quiet`: no stream, no hand and no row gains a
request and no ledger moves, so custody is kept (`QuietKeeps`). Six steps hand
one request on, and each is proved by itself: the handler takes it off the
stream (`CustodyRequested`), admits it to the row (`CustodyAdmitted`), a decider
claims it from the row (`CustodyClaimed`), a standing policy or an operator sends
it (`CustodySent`), parking turns it into evidence (`CustodyParked`), and the
agent asks for a new one (`CustodyAsked`). The rest of the invariant is
`FollowInv`: a delivery reading events follows a run that exists. `CustodyInv`
was model-checked on the instances of `Authority`, `Failures` and `Turnover`
before it was proved.

`LifecycleProofs` builds on it and proves, under the same assumptions:

- `OneApprovalShown`: `Spec => []SingleApproval`;
- `BridgeImplementsLifecycle`: `Spec => ImplementsLifecycle`, the refinement of
  `JobLifecycle`;
- `LifecycleInductive`, the invariant behind both;
- `RunsAreTracked`: `Spec => []ActiveRunTracked`, and `TrackInductive`, the invariant
  behind it.

The argument is one of exclusion. A request is judged and admitted, decided and
settled, or fenced under the approval lock of its run, and only an admission can
add an approval to a row whose run is owned. So what a process found out when it
took the lock holds when it writes, or the row is no longer its run's and the
fence refuses. `LifecycleInv` has four parts. `Shape`: the status tells what
authority the row shows (none while running, one while it needs an approval).
`Exclusive`: a lock has one holder, a process or the cleanup goroutine of that
run. `Minded`: a request judged alone on its row stays alone until it is
admitted, and one whose nonce was consumed is what the row shows until it is
settled or fenced; without this, settling could remove somebody else's request.
`Boot`: until a restart's reconciliation is over nobody else runs, so that the
row it read is the row it writes, although it takes no lock. The proof looks at
each mutation once (`Orderly`: from a well-shaped row, a mutation is a step of the
abstract job or leaves it alone, and adds an approval only where an admission
does) and then shows, action by action, that the process which writes holds the
lock and knows what the mutation needs. Most actions do not write and only move
one process; they are shown to keep the exclusion. `LifecycleInv`, too, was
model-checked on the instances of `Authority`, `Failures` and `Turnover`.

That the row forgets no active run rests on proof of an end, not on exclusion:
most steps that clear a handle come long after the stop that justified them; much may
happen in between, but a run that is over does not come back. `TrackInv`
has one part for each way of knowing. `Proven` and `Confirmed`: a resume, a park, a
fence, a collision, a reconciliation or a cleanup goroutine that is about to clear
the handle of a run has seen that run's end. `Attends`: the delivery that claimed the
turn asks for input only for the run the row names, and after it read the end of its
stream; it does not compare the handle with its own run, it reads the owner's run id
(`ReadOwnedRun`), so this needs the turn to be its own (`hist.stale` is the
exception). `Recovers`: a restart stops the run it read from the row. `Begun`: runs
are started in order and only end, so starting one brings no old run back.
`Vacant`: a job that waits for a turn names no run, so dispatching and claiming forget
none. A step then owes an account of the handle (`Accountable`: cleared only over a
run that is over, set only by the turn's delivery), and `TrackKeeps` shows that an
accountable step keeps what everybody else knows. `TrackInv` was model-checked on the
instances of `Failures` and `Turnover`.

`StrandProofs` proves, from the same assumptions and `LifecycleInv`, that no job is
stranded:

- `StrandedByFaultsOnly`: `Spec => [](spent.crashes < MaxAttempts =>
  StrandedOnlyByFaults)`;
- `NobodyStranded`: `Spec => []NoStrandedJob` where `MaxStoreFaults = 0` and
  `MaxCrashes < MaxAttempts`;
- `StrandInductive`, the invariant behind both.

The argument is one of hand-over: from the row that queues the job, to the delivery
that claims the turn, to the outcome it writes. `StrandInv` says who has the job in
hand at each of these places.

- `Underway`: a queued job has a River row that is available, due for rescue, or with
  a worker that has not claimed yet (`Bound`). Every attempt such a row has used up
  was cut short by a crash of its own, so it has used no more attempts than there were
  crashes (one more while the worker runs). This is the account that makes the row
  survive: River discards it only after `MaxAttempts`.
- `Attended`: an engaged job (running, or waiting for approval) is in the charge of
  the delivery that claimed the turn (`InCharge`): it is about to install itself as
  the owner, is the owner and about to start or name its run, or follows the run
  the row names until the outcome is written. Its context is not ended.
- `Installed` and `Installing`: nobody else takes the ownership away, because the
  owner in memory is a delivery that has installed itself, and who is about to install
  itself is the claimant of a turn that has no run yet.
- `Named` and `Fresh`: a run is named by the row once, by the delivery that started it,
  so a resume that holds the run of a former turn does not meet it again.
- `Excused`: a call that is about to end a delivery's context has cancelled the job, or
  releases a run the row no longer names.
- `Undertaken`: a delivery that has not claimed yet goes back to River when the
  process stops, and start-up stops only the run of an approval it has parked.

`Underway` and `Attended` hold of a system that was spared (`Spared`): no store call
failed, which is what the third finding of section 6 is about, and fewer crashes
happened than River makes attempts. The second condition cannot be weakened: with
`MaxAttempts = 2` (`src/internal/dispatch/queue_river.go:51`), a job that is fetched and
interrupted before its claim twice is left queued with its row discarded, a
behaviour TLC finds with one delivery and two crashes. `StrandInv` was
model-checked on the instances of `Failures` and `Turnover`.

`SessionTimersProofs` proves, for all timers (`TimersAssumption`) and every bound
on the clock (`ClockAssumption`), `TimersTypeCorrect`, `StatesAgree`,
`DrainingAdmitsNothing` and `ThinkingTimeHolds`, which state `TypeOK`,
`StateAgrees`, `DrainAdmitsNothing` and `GraceHolds`. The invariant `TimersInv` adds
to the first two that only the operator asks to park and that, while a session
runs, the end of the thinking time is that of the question voiced last
(`GraceKept`). Most events are `Steady`: they change neither the state (but for
QUIET becoming LIVE) nor what was promised. Admission to a response needs LIVE or
QUIET, which a requested park rules out; a tick parks for silence or mute only past
the thinking time (`TickReason`).

`VoiceDeskProofs` proves, for any number of rows, sessions, responses, events in
flight and mishaps, and for lanes of any capacity, `DeskInductive`,
`VoiceDeskTypes` (`TypeOK`), `SpokenOnlyWhenHeard` (`SpokenWasHeard`),
`OneResponseAtATime` (`SingleWriter`), `ParksInSilence` (`ParkCutsNothing`),
`NoHeldRowForgotten` (`HeldRowsAreQueued`) and `RetrySlotIsKept` (`RetryKept`).
What the desk knows of the server is older than the server; the events it has not
handled yet tell the difference. `DeskInv` says how:

- `Follows`, `Informed`: while the server generates or plays, the desk has that
  response requested or active, or the event that will tell it so is on its way,
  ahead of the one that would make it forget; `Truthful`: what the events say of the
  current response is so, and the others are history;
- `Engaged`, `Parks`: so the state machine is busy as long as the desk waits for a
  response or follows one, and a session that parks unforced cuts nothing;
- `Briefed`, `Heard`, `Spoken`: a briefing is that of one response, and the three
  marks its acknowledgement waits for (complete, started, stopped) were each set by
  an event of that response;
- `Kept`, `Handed`: a row this desk has claimed is lined up, in hand, under way, in
  the retry slot or excused. The retry slot is free while a briefing is under way,
  so a failed briefing never overwrites one; and nothing is under way between an
  injection's message and the response it asks for.

A handler passes through several desks before it returns, so the invariant speaks of
a handler's own state as well as of the module's variables, and there is a lemma for
each piece a handler is made of (a request, a failure, an acknowledgement).
`DeskInv` was model-checked on the instance of `Session` (2.7 million states) before
it was proved.

`EventBusProofs` has the lemmas on increasing sequences, on one subscriber's
channel and on each step of the bus: they keep `BusInv`, which says that
*durable, being saved, queued* is one increasing sequence of which nothing is
missing unexcused, and that a subscriber's *replay, channel and lost* partition
what was announced since it came. `VoiceCallsProofs` composes them with the gateway
and proves, under `BusAssumption` and `CallsAssumption`, `CallsInductive`,
`CallsTypeCorrect`, `CallsFollow` (`CallsInOrder`), `StatesAreFenced`
(`StatesFenced`), `DurableLogIsFaithful`, `SubscribersSeeAll` and
`ShutdownSilences`. `CallsInv` is `BusInv` with two invariants of the gateway.
`GateInv`: generations are unique and the current desk has the greatest, and who
publishes holds `g.mu`. `StateInv`: since `g.mu` is held across a publication
there is one publisher at a time; what it publishes is of the current desk, the
latest one started; so the published states are in the order of the calls, and the
state last announced is durable or excused before the lock is free.

`AttentionPushProofs` proves, for any number of notices, browsers, attempts and
upsets (`PushAssumption`), `PushInductive`, `PushTypeCorrect`, `VoiceSilencesPush`
(`QuietWhileVoice`), `OutboxIsTrue` (`RecordIsTrue`), `EpochsHold` (`OptInEpoch`) and
`VerdictsStand` (`SettledStays`). The invariant `PushInv` says what the deliver
goroutine relies on: it holds one delivery exactly when it deals with one, a
process that is down holds none (`OneInHand`); what it holds or has in its batch is
not settled unless its enrolment ended (`OpenInHand`); it was sent when its answer
is awaited and accepted when the answer is yes (`Tried`); and a process is started
only after an upset (`Started`), which bounds the claim tokens. Most steps are
`Calm`, they settle nothing and send nothing; the claim, the send, the answer and
the verdict are proved one by one. `PushInv` was model-checked on the instance of
`Push` first.

Two more of its theorems bound the retries: `BudgetInductive` and `TriesAreBounded`
(`RetryBudget`). The argument is one of accounts. The attempts a row has recorded
leave `maxDeliveryAttempts` tries; each try beyond them is paid by an upset of its
own: a store call that failed, the end of a process, or the call that cancelled the
try. `BudgetInv` keeps the account: every try was preceded by a claim that counted
it (`ClaimedFor`), a delivery comes in hand for the first time but once
(`MadeOnce`), and a delivery that may still be sent can pay for it (`Affordable`).
An upset that may still cost a try is not spent before: `Reserve` sets it aside. A
call costs at most one try, since nothing is sent while it is known to be live; its
upset is owed (`Owed`) while the session is attached and while its PARKED is on its
way to the worker, and allows for one try more (`Allowed`) when the worker hears
that it is over. A session that is forgotten owes nothing. A stop is set aside until
it has ended. What a queue of states holds is counted by `ParkedAppended` and
`ParkedTaken`; a process that is down has no session, an empty queue and nothing in
hand (`Asleep`). The account needs at least one attempt, which `PushAssumption`
states (the code has six, `src/internal/notify/notify.go:29`). `BudgetInv` was
model-checked on the instance of `Push`, with more upsets and one notice, and with a
single attempt.

Only model-checked: the liveness properties (under fairness, outside the prover's
reach). The stranding properties are proved up to the bound on crashes above; beyond
it they are false.

## 6. Where code and documents disagree

The four `violation` runs each show a behaviour of the code that a document or
comment of the repository rules out.

1. **An old delivery can write over a newer turn** (`StaleTurn`,
   `OwnTurnOnly`). `Run` asks for the run id the job has *in memory now*
   (`h.ownedRunID(jobID)`, hermes.go:458), after its stream ended. If a resume
   has meanwhile released the run, requeued the job, and a new delivery has
   installed itself, the old delivery reads the newer turn's id, or none while
   that turn has not started its run, and the fence of its final write
   (`runOwnsState`) holds for it. `docs/architecture/reliability-boundaries.md`
   lines 18-19: "Subsequent writes require the same run identity and an active
   status so an old stream cannot overwrite cancellation or a newer turn."
2. **A decision whose outcome is unknown may leave no trace** (`LostDecision`,
   `UnknownOutcomeRecorded`). After an unacknowledged POST the decider stops
   the run and then records the request as indeterminate. The delivery sees the
   run end, and fails its turn, clearing the approvals (hermes.go:498-503);
   `recordIndeterminateApproval` (hermes.go:1484) then finds the job no longer
   active and writes nothing.
   `docs/operational-issues/voice-approvals-and-run-lifetime.md` lines 150-153
   promise that it "records the operator's requested decision as
   `indeterminate` with explicit resume instructions".
3. **A transient store error after the claim strands the job** (`Stranded`,
   `NoStrandedJob`). The second `ResolveJob` (hermes.go:425) returns an
   ordinary error, River retries, and the retry finds the job `running`
   instead of `queued` and returns nil (hermes.go:373-375), which completes
   the River row. Nothing drives the job until the process restarts.
   `internal/dispatch/queue_river.go` lines 48-50: "One retry for transients,
   then park the failure on the board."
4. **After a failed call the bus may say that a session is live when none is**
   (`AbsentParked`, `AbsentSaysParked`). `startDesk` makes the new desk current and
   cancels the live one, whose PARKED the generation check then suppresses
   (gateway.go:775). If the new desk fails to dial or to update its session it
   returns without a state (desk.go:149-162), and `g.current` becomes nil. The last
   state stays LIVE, so the push worker stays quiet (notify.go:226) until the next
   call, which is the exception `DeliverySettles` makes. `README.md` lines 131-132:
   "When parked or absent, delivery uses a PostgreSQL outbox";
   `internal/desk/desk.go` line 146: "crash-only: any exit is a park". With optional
   events the model reaches the same end in a second way: a request to park that
   read the desk before `Run` published PARKED, and whose own publication comes
   after it but before `g.current` is cleared, publishes PARKING last.

Seen on the way, none of them a violation of a property:

- `internal/events/bus.go` lines 157-158 say that a slow persister cannot stall
  the desk. `PublishSync` waits for room under `publishMu`, so while
  one session state waits up to two seconds, every `Publish` does.
- The push worker takes a send that failed because a call cancelled it for a
  failed try if the call is over before the error is looked at (`Interrupted`
  requires `live`): a flicker of a call costs an attempt.
- A state published as a refresh is chosen before the lock is taken: LIVE may
  follow the PARKING a concurrent request published. The next state corrects it.
- A batch the worker holds in memory is sent from its copy, so a re-enrolment does
  not call back a notification that was claimed under the former opt-in and comes
  next in the batch (store.go:849-850: "must not replay"). What `OptInEpoch`
  shows is that the rows are clean: the outcome of such a send is not recorded.

## 7. Abstractions and what is left out

- One job, and one set of pattern keys for its requests. What may be remembered
  about a request is its scope: nothing, the session, or also permanently.
- An approval's id and decision nonce are generated together and never reused;
  they are one identity. The provider's request ids are the same numbers.
- Progress events, prompts, replies, summaries, error texts and `StateVersion`
  are data no modelled property reads. Whether a reply is a question is a choice.
- A failed store call is one that was not applied. A commit whose answer was lost
  is not modelled.
- Taking an approval lock is part of the first step under it and releasing it of
  the last one. `stopAndConfirmTerminalOutcome` (status, stop, status) is one
  step, since a terminal status is stable. The two reads at the head of
  `DecideApproval` are one, since what counts is read again under the lock.
  `Cancel`'s two reads are one, since the row of a cancelled job no longer moves.
- A parking timer whose look-up fails stays armed, so that failure is a stutter.
- Events arrive in order: requests as they were raised, then the end.
- River's fetch and rescue, the process's death and Hermes are external: modelled
  from what the code in `src/` relies on. River's back-off and its four workers
  only delay the steps of one job.
- `SessionTimers` keeps the deadlines but not their lengths in seconds, and has no
  server: an event may come wherever the desk lets it through, in more orders
  than a real server would send.
- `VoiceDesk` has no clock: any timer may have expired at any tick. It has neither
  QUIET (the desk does in it what it does in LIVE) nor mute and grace. Texts, briefings, transcripts
  and what the tools do to jobs are left out; an injection is the set of rows it
  briefs. Handlers are atomic save where the code gives way to another goroutine
  in a manner that matters: the response request and the tool batch.
- In `VoiceCalls` a desk is its published life. The check of the generation and the
  first step of the publication are one step, since both are under `g.mu`. QUIET
  is published as LIVE is. Several refreshes, park requests and job events are as
  many as `MaxExtras` allows; timeouts and failed writes draw on the same bound.
- The subscriber's second channel (between the pump and the reader) is counted in
  `SubCap`. A bus without a persister is not modelled.
- In `AttentionPush` one process runs at a time, and the worker hears every state
  the session publishes (what a subscriber may miss is `SubscriberSeesAll`). LIVE
  stands for LIVE, QUIET and PARKING, which are the same to the worker; a session
  publishes it once, and a call that fails before it attaches publishes nothing. The
  order of claims within a batch is free. What a notification says, VAPID and HTTP
  are left out; an answer is one of four classes.

Not modelled, and why:

| part | reason |
|---|---|
| Summarizer | a debounced fold of the event log into one text by an external model; nothing decides on its result |
| Stub runner | development substitute for Hermes; its unconditional writes over a cancellation are listed as a hazard |
| Realtime client, speech prebake, HTTP and SDP plumbing, dummy server | I/O and wire formats; what the desk relies on is the server of `VoiceDesk` |
| Configuration, build information, CI policy checker | parsing and static checks, no state |
| Browser | views of server state; its WebSocket's reconnection would be a second client of `Subscribe` |
| Deployment scripts | a protocol of its own over files, systemd and the pause switch: the next part of the plan |
| Job store: pause trigger, usage ledger, pruning, summaries | the trigger belongs to the deployment protocol; the rest has one writer |

Hazards without a property carry a note in `PROJECT.json`.

## 8. Plan

Each module is written so that it can be proved about (constants with named
assumptions, one action per operation, invariants as conjunctions of named parts,
no recursive operator).

| step | modules | abstract statement | theorems |
|---|---|---|---|
| done | `JobRow`, `HermesBridge` | `JobLifecycle` | `TypeCorrect`, `TypeInductive`, `AuthorityIsOneUse`, `ParkingIsNoDecision`, `OneApprovalShown`, `BridgeImplementsLifecycle`, `RunsAreTracked`, `StrandedByFaultsOnly`, `NobodyStranded` |
| done | `SessionFSM`, `SessionTimers`, `VoiceDesk` | acknowledged implies heard; a requested park lands | `TimersTypeCorrect`, `StatesAgree`, `DrainingAdmitsNothing`, `ThinkingTimeHolds`, `VoiceDeskTypes`, `SpokenOnlyWhenHeard`, `OneResponseAtATime`, `ParksInSilence`, `NoHeldRowForgotten`, `RetrySlotIsKept` |
| done | `EventBus`, `VoiceCalls` | published states follow the calls; the durable log follows the bus | `CallsTypeCorrect`, `CallsFollow`, `StatesAreFenced`, `DurableLogIsFaithful`, `SubscribersSeeAll`, `ShutdownSilences` |
| done | `AttentionPush` | sent or given up, truly recorded, not over a voice | `PushTypeCorrect`, `VoiceSilencesPush`, `OutboxIsTrue`, `EpochsHold`, `VerdictsStand`, `TriesAreBounded` |
| next | `DeployDrain`: pause, drain, journal phases, rollback, recovery | never unpaused on an unverified revision | type; phase order |
| then | `StubRunner`, approval policy as pure operators, the browser's reconnection | | small |

