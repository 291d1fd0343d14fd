# Verification of the dainframe

TLA+ models of the dainframe, a library on which applications build companions
that answer their users and sometimes speak first. The models follow the Python
code of `src/dainframe`; TLC checks them on small instances, and TLAPS proves
the invariants that matter most for every value of their constants.
`PROJECT.json` lists the runs, maps every definition to the lines it models, and
lists the hazards the properties are for.

## The system

| component | state it keeps | operations |
|---|---|---|
| delivery ledger (`core/delivery.py`) | `_pending`, `_confirmed`, one lock | `stage`, `get`, `confirm`, eviction by two FIFO caps |
| activation engine (`core/engine.py`, `core/types.py`) | nothing of its own; the event log of the stream, the ledger | `handle(stimulus)`, `confirm_delivery(receipt)` |
| stream coordination (`core/coordination.py`) | one `asyncio.Lock` per stream | `hold(stream)` |
| event store and queries (`core/events.py`) | the events of a stream, append-only | `append`, `read`, `latest`, visibility and windows |
| agents, directors, hooks (`core/agent.py`, `director.py`, `hooks.py`) | the application's | `act`, `script`, observation hooks |
| agent loop (`loop/agent_loop.py`, `loop/usage.py`) | the locals of one `run()` | iterations over a provider and its tools |
| tools (`tools/registry.py`, `tools/context.py`) | the tools registered | `execute`, `is_terminal`, `should_record`, `view` |
| provider resolver (`providers/resolver.py`) | the instances built, by provider and model | `resolve(hints)` |
| concurrency limiter (`providers/limits.py`) | a semaphore | `async with` around a call |
| provider adapters (`providers/openai.py`, `anthropic.py`, `base.py`, `types.py`) | none | `create_message`, strict tool schemas and the way back |
| pulse store (`pulse/store.py`, `pulse/types.py`) | a state and a lease per rhythm | `claim_due`, `complete`, `abandon` |
| pulse loop (`pulse/loop.py`) | the locals of a firing; `_running`, the stop event | `run`, `stop`, `tick`, `_process`, `_conclude` |
| rhythms (`pulse/rhythms.py`) | none | `evaluate` for intervals, calendars and deciders |
| gates (`pulse/gates.py`, `pulse/cadence.py`) | none; they read the log | backoff, quiet hours, cadence, `NoNewerEvent` |
| conformance suites (`testing/`) | none | tests that adapters of the three stores run |

How they interact. An application, or a rhythm that fires, hands a stimulus to
`Orchestrator.handle()`. It holds the stream, checks preconditions, records the
inbound message, asks the director for a script and runs its lines one after the
other: an agent is briefed with a window of the log, acts (usually through the
agent loop, which calls a provider and tools), its actions are recorded, and its
prose is kept private, delivered and recorded, or frozen in the ledger as a
pending delivery. The application sends pending texts itself and calls
`confirm_delivery()`, by which the ledger appends the message, once. The pulse
loop polls its rhythms, claims the due ones in the pulse store, evaluates, asks
the gates, calls `handle()`, dispatches and confirms what is pending, and
completes the claim with the rhythm's next horizon. Several processes may share
one pulse store.

What is hard, and what makes each part correct:

- *Ledger.* Confirmations are retried, race each other and race evictions; the
  append may fail with the lock held; a restart loses everything but the log. A
  delivery must be recorded at most once, a retry must get the same event, and
  the caps must not open a window for a second recording.
- *Engine.* User turns, firings and confirmations interleave at every await.
  The log must read as turns, an agent must answer the conversation it was
  briefed with, stale outreach must leave no trace, what tools did must be
  recorded whatever becomes of the prose, and the result must tell the truth.
- *Agent loop.* Tools end in any order, the provider fails after tools ran,
  budgets run out. The trail must be complete and in order, no text may replace
  another, no result may be dropped unseen, the cost must be bounded.
- *Resolver, limiter, adapters.* Runs with different hints share instances and one
  ceiling, calls err and are cancelled in the queue. A hint is honoured or refused
  before the first call, the ceiling is one, no permit is lost, and what a handler
  gets is what the model meant, though strict schemas make it say more.
- *Pulse store.* Leases expire under slow workers and workers die. At most one
  owner per firing, no update from a stale snapshot, orphans reclaimed.
- *Pulse loop and rhythms.* A firing may be denied, cancelled, fail, deliver
  partly, or raise, and is retried. The record must not claim a delivery that
  did not happen, a local time fires once though the clocks are set back, outreach
  keeps its distance, and every firing leaves the rhythm free with a horizon in the
  future. The loop itself must stop at once when told to, and must not let one
  rhythm, or a source that fails, silence the others.
- *Gates.* They judge a log that goes on growing, by a clock read before, and
  another process judges beside them. Caps may be passed by no more than the
  processes that race, ignored messages must space out, the night stays quiet, and
  the horizon of a denial must be neither early nor late.

## The modules

| module | what it is |
|---|---|
| `ConfirmedHistory` | abstract: deliveries are confirmed by the platform, and each confirmed one may be recorded once, for ever |
| `DeliveryLedger` | `BoundedDeliveryLedger`: its dicts, lock, caps, callers, failed appends, restarts; implements `ConfirmedHistory` |
| `Engine`, `MCEngine` | `Orchestrator` with stream locks, logs and the in-memory ledger; implements `ConfirmedHistory` |
| `AgentLoop`, `MCAgentLoop` | one `AgentLoop._run` with its tool registry |
| `Providers` | `AgentLoop._route`, `ProviderTable` and the limiters, under concurrent runs |
| `StrictSchema` | `strict_schema`, `_nullable` and `prune_introduced_nulls` as operators on documents, with the values a schema accepts |
| `ToolCalls`, `MCToolCalls` | `Providers` composed with `StrictSchema`: the tool calls the answers bring |
| `PulseStore` | the leased store, with workers that claim, finish late or die |
| `PulseLifecycle`, `MCPulseLifecycle` | `run`, `stop` and `tick` of several loops over `PulseStore` |
| `Pulse`, `MCPulse` | `_process` and `_conclude` over an instance of `PulseStore`, with `evaluate` |
| `Outreach`, `MCOutreach` | the gates over a stream's log, with the rhythms that consult them |
| `DeliveryLedgerProofs`, `EngineProofs`, `AgentLoopProofs`, `ProvidersProofs`, `PulseStoreProofs`, `PulseProofs`, `PulseLifecycleProofs`, `OutreachProofs` | the theorems |

### From the code to the model

**DeliveryLedger.** A pending id is a uuid that is only compared; the k-th id
staged is the number k, so the order of the numbers is the insertion order of
the dict. `_confirmed` maps an id to the position of its event. `Stage` is the
whole of `stage()` with its pruning. `confirm()` is the steps of a caller:
`Confirm` (called), `ReturnAlready` / `RaiseUnknown` / `BeginAppend` (the lock is
free and is entered), `FinishAppend` / `FailAppend` (the store answered or
raised) and `Return`. `Send` is the application's platform: a text that was sent
has a receipt, and only those are confirmed. `Restart` empties the ledger and
kills its callers; the history and the receipts stay.

**Engine.** A task is one `handle()` or one `confirm_delivery()`, and a step runs
from one await to the next. `Acquire` and `Release` are the FIFO hand-over of
`asyncio.Lock`. `Plan`/`Call` submit a stimulus, which may carry a `NoNewerEvent`
precondition over what its plan had seen. `Cancel` or `Admit`, `RecordInbound`,
`Direct`, then per line `UnknownSpeaker` or `Brief`, `Act`, `RecordAction` for each
recordable action, and `KeepQuiet`, `Deliver`, `DeliveryFails`, `AppendMessage` or
`Stage` by the policies of the line; `Close` returns. `Raise` is an exception that
leaves `handle()` at any point of `RaisesAt`. What `_run_line` records of a turn is
`Reported`, by its two `except` branches: an `AgentExecutionError` (`after_tools`)
brings its trail along, a bare `ProviderError` (`provider`) nothing. That an agent
never raises the bare one after a recordable action is the contract of
`AgentOutcome` (`TrailAssumption`); that `AgentLoop` keeps it is `TrailSurvives`.
The ledger is the in-memory one without caps, whose entries stay. Texts and
formatting are left out: a line is named by its activation and its index.

**AgentLoop.** A call is named by its answer and its place. `Refuse`,
`RetryBudget`, `Reply` and `CallTools` are the branches of an iteration, `Execute`
is the end of one handler, in any order, `Gather` is the code after
`asyncio.gather`, with the short-circuit; `RetryFinal` and `FinalAnswer` are the
forced answer at the cap, and `ProviderFails` is `_create_message`'s wrapping. A
text is None, blank or words, since `_join` and the two retry conditions tell
these apart. An answer weighs one unit of usage.

**Providers.** Routing is synchronous, so a run begins (`StartAtHome`,
`StartResolved`, `StartRefused`) with its first call to the limiter in one step. A
limiter is the table's, which the application may also give to the loop's own
provider, or that provider's private one. `Acquire`, `WakeNext`, `Unqueue` and
`Release` are `asyncio.Semaphore` as Python 3.11 has it: a release gives its permit to
the first waiter, which is `granted` until its task runs (`Resume`) and passes the
permit on if it is cancelled instead. `Answer`, `AnswerWithTools` and `Fail` are the
ends of a call; `Cancel` is a cancellation at any await. The effort stands for both
dials of a hint; `max_tokens` takes the same way and is never refused.

**StrictSchema, ToolCalls.** A schema, or a value, is a function from its positions
(the names and items that lead to a place) to what is there: for a schema its types,
enum, `anyOf`, properties and required names. So the recursions of `strict_schema` and
`prune_introduced_nulls` become `Strict` and `Prune` without recursion: what each does
at a place depends on that place and the one before it, and a null that is dropped takes
along what is below it. `IsSchema` and `IsValue` say what the documents are: the
branches of an `anyOf` and the members of an enum are scalars, and an `anyOf` stands
alone (`_nullable` widens only one of a type, with its enum, and an `anyOf`). The model's
side is external: it may mean any value of a tool's own schema that has only properties
the schema names (`Fits`; strict mode forbids others) and no null of its own on an
optional one, says it with null for the optional fields it leaves alone, and can say only
what the strict schema accepts. Its arguments come through whole or break off, as when
the budget runs out: then they do not parse, and the call is built with none (`Parsed`,
`NoFields`). `Hear` puts this on top of `AnswerWithTools` for the providers with strict
tools.

**PulseStore.** The methods never suspend inside the lock, so each is one step.
`ClaimDue`, `Complete`, `Abandon` and `Refused` (`StaleClaimError`) are the store's;
`Lose` is the death of a worker, and the clock is shared.

**PulseLifecycle.** A loop is in `tick` (the source is asked: `List`, `ListFails`), in
`walk` (`Poll` the next rhythm, `Fire`: any end of a firing the store allows, an
exception that leaves the claim behind among them), or `asleep` (`Doze` to `Wake`).
`Stop` clears the flag and sets the event of the present `run()`; `Over` and `Begin`
give the next one an event of its own; `Crash` ends the process with its claim.

**Pulse.** A worker walks `decide`, `plan`, `act`, `conclude`. Evaluations are
operators (`Interval`, `Calendar`, `Dynamic`). A cron is abstracted to a period and
marks: it matches the local readings that are one of the marks modulo the period.
`Wall` is the local reading, with one change of the clocks, back (a fold) or forward
(a gap). Jitter is any of its values, baked into the horizon. The engine is what `handle()` returns:
the status, whether lines were delivered, how many are pending, whether some
errored. `Forgo` covers no plan and a gate's denial with either horizon; `Fail` is
the `except` that abandons; `DispatchRaises` is an exception in `_conclude`, which
is outside it.

**Outreach.** The gates are operators over the log, with the filters and windows of
the queries they send. A firing is `Claim`, which captures `now`; `Deny` or `Pass`,
the verdict of `AllOf` on the log as it is by then; `Speak` for each line of its
script, all of them under that one verdict, by any agent of its cast; and `Finish`,
after all of the lines or before, as when it is cancelled or fails. Between any of
these `UserSpeaks`, `UserActs` records something done now or synced from the past,
and `AgentTalks` is what agents say that is no outreach: answers, and talk of other
activations, which fills the windows of the backoff. A tick is an hour and `Day` is
six of them; a rhythm is due again an hour after it fired, so that nothing but the
gates holds it back. A setup is a gate stack, the actor and the cast of each rhythm,
the number of processes, the lines of a script, a zone, and what user and agents do
besides.

## Runs

| run | instance | shows |
|---|---|---|
| `ledger` | 2 callers, 4 ids, caps 2 and 2, 1 restart | `RecordedAtMostOnce`, `EvictsOldestFirst` (the caps hold, the newest confirmations stay answerable, the newest pendings stay), `RepliesNameTheEvent`, the refinement `ImplementsContract`, `ConfirmReturns` |
| `engine_turns` | 3 activations, 1 stream, exceptions at 3 points | `Serialized`, `LogReadsAsTurns`, `BriefingIsCurrent`, `NoStaleOutreach` |
| `engine_lines` | 2 activations with every kind of outcome and of policy, 2 confirmations, exceptions at every await of `handle()` and at its end | `ActionTruth`, `ResultsTellTheTruth`, `ImplementsContract`, `EveryCallEnds` |
| `agent_loop` | 3 iterations, 3 tool names, 24 kinds of answer | `TrailSurvives`, `RequestAnswersCalls`, `ResultsAreSeen`, `NothingSaidIsLost`, `CostBounded`, `ReplyStands`, `RunEnds` |
| `providers` | 3 runs, 2 providers, 4 hints, with and without a resolver, a ceiling of 2, 3 tool schemas, arguments whole or broken off | `CeilingHolds`, `RouteIsHonoured`, `ToolInputIsMeant`, `EveryRunEnds` |
| `pulse_lifecycle` | 2 loops, 2 rhythms, 3 claims, clock to 3 | `OneOwner`, `SnapshotCurrent`, `StopIsPrompt`, `StopEnds`, `RhythmsAreServed` |
| `pulse_firing` | 2 prompt workers, a brief on three kinds of days or a check-in with jitter, clock to 12, 9 claims | `FireOnce`, `OutreachSpaced`, `EndsCleanly` |
| `pulse_hostile` | 2 workers that are slow, die and lose exceptions, 2 rhythms | `HonestRecord`, `OccurrencesAdvance` |
| `pulse_forgets` | 1 worker whose engine raises after a delivery | violated: `OutreachSpaced` |
| `pulse_drops` | 1 worker whose dispatcher raises | violated: `EndsCleanly` |
| `calendar_fold` | 1 worker, a cron with two times in the repeated hour | violated: `FireOnce` |
| `outreach` | 2 rhythms, 7 deployments with 1 or 2 processes and scripts of 1 or 2 lines, up to 7 hours | `CapsHold`, `NoNagging`, `NightIsQuiet`, `HorizonsAreExact` |

`ledger` and `engine_lines` also check their type invariants; those of all the components are
theorems. Every property has a
mutant of the model, beside the definition it changes and marked as such, that
violates it.

### Bounds

- `StageLimit`, `RestartLimit`: four ids overflow both caps, so an id is
  evicted while pending, while being confirmed and after; a second restart would
  find the same empty ledger as the first.
- Handles and confirmers: three tasks are the least for a queue of two waiters
  whose order matters; two confirmers are the least for a race on one id. A task
  makes one call; more calls would be more tasks.
- `RaisesAt`: in `engine_turns` exceptions leave `handle()` at the entry, in an
  agent's turn or in an append, for the size of the run; in `engine_lines` at every
  await with the stream held (the inbound append, the director, the briefing, the
  turn, the record of an action, the delivery and its append) and at the entry and
  the end.
- The scripts of `engine_lines` have at most one turn of an agent, beside unknown
  speakers, for the size of the run; two turns in one activation are in
  `engine_turns`. Its outcomes are one of each kind.
- `MaxIterations = 3` lets a retry, a tool round and a further tool round precede
  the cap, with both places of the retry.
- Three runs under a ceiling of two are the least for a waiter behind full permits
  while another is granted; `MaxCalls = 2` lets a run come back for a second call
  behind others. The hints are one of each kind: routed with a default model, routed
  with a model and no effort, an effort its provider lacks, a provider without a
  builder. The tools have required and optional, nullable, enumerated, nested and
  listed fields, and `anyOf`s with and without null; lists have no items or two.
- `pulse_lifecycle`: two loops and two rhythms are the least for one loop to serve
  what another leaves; three claims are a takeover with a late return and one more.
  A property about a waiting rhythm excludes the model's own bound on claims, so a
  rhythm that raises each time it is claimed is followed for three claims only.
- `MaxTime`, `ClaimLimit`: the clock covers three periods of the longest rhythm
  with a retry in between; five ticks with a lease of one or two cover expiry,
  takeover and the late return.
- `Prompt` (in `pulse_firing` and the two runs of findings) says that a firing
  ends before its lease: without it, a slow worker and its successor both send,
  which leases cannot prevent; `pulse_hostile` drops it. `pulse_firing` has a brief
  of one line: a longer one whose last line fails keeps its occurrence open, and
  the retry, by the design of the loop, sends its first lines again.
- `Think = 2`: two hours from the claim to the last word are shorter than every
  wait (three hours and more), as minutes are to the three hours of the default, and
  leave time for others between the lines of a script. `until` (at most
  `MaxTime = 7`) is the clock of a deployment: those with a night see a whole day of
  six hours, the others a wait and the firings after it. `lines = 2` is the least
  for a line that its own firing preceded. `Ahead` stands for the "never" of a
  denial without horizon: it is later than any horizon such a log can produce.
  `visits` bounds the user: one event resets a chain between any two messages, two
  (in one deployment) put a synced event beside a newer one. `chatter` bounds the
  agents' talk: two messages crowd the outreach out of a window of three.

### Fairness

- `DeliveryLedger`: strong fairness of each caller's steps, since the FIFO of
  `asyncio.Lock` serves every waiter though the lock is free only now and then,
  and weak fairness of the end of an append: the application's store answers or
  raises.
- `Engine`: weak fairness of each task. The FIFO of waiters is in the state, so
  nothing stronger is needed; agents, platforms and stores answer or raise.
- `AgentLoop`: weak fairness of the run: providers and handlers answer or raise.
  Neither the loop nor the registry has a timeout, so a handler that hangs hangs
  the run and, with it, the stream.
- `PulseLifecycle`: weak fairness of the clock and of each loop's steps, since asyncio
  runs a task that can go on and a firing ends; strong fairness of `List`, since a
  source that failed for ever would end every service. Nothing is assumed of the
  order of a walk, of claims or of the application: that a rhythm is claimed follows
  from the walks. `StaysUp` is a hypothesis of `RhythmsAreServed`, not fairness.
- `ToolCalls`: weak fairness of each run's steps: the API answers or the SDK times
  out, and a waiter that was given a permit is scheduled. It is stated on the variables
  of `Providers`; what is heard hinders no step. The FIFO of the semaphore is in the
  state. Cancellation is never owed.

## Proofs

All for arbitrary constants under the named assumptions of the modules.

- `PulseStoreProofs`: `TypeCorrect`, `AtMostOneOwner`, `NoLostUpdate`. The
  invariant ties each unexpired claim to the lease with its id and to the state
  its snapshot copied; ids are fresh, so no other claim can match.
- `PulseLifecycleProofs`: `LoopsUseTheStore` shows that each step of the loops is one
  of `PulseStore` or leaves it alone, so that `LoopsOwnAlone` and `LoopsLoseNoUpdate`
  follow from the theorems above; `PromptStop` needs that during a
  run() the flag is down exactly when the event is set.
- `PulseProofs`: `HonestBooks` holds whatever workers do: a claim the store would
  accept is newer than all it recorded (`Fresh`), and a firing that says it delivered
  has spoken (`Told`). `SpacedOutreach` assumes `Careful` (firings end within their
  leases, nobody dies, no exception is lost; `pulse_forgets` shows that it fails
  without): a rhythm then has one firing at a time, which holds the lease (`Leased`,
  `Alone`), went ahead only if the recorded delivery lies `every` back (`Timely`), and
  every text sent is recorded or will be by the firing that sent it (`Remembered`).
  `OccurrencesOnlyAdvance` assumes nothing of the workers: what a firing will write
  comes after all that the state it read had dealt with, and a state that changed
  since refuses it. `FiringsEndCleanly` assumes that nobody dies and that no
  exception of the dispatcher is lost (`pulse_drops` shows why).
  `FiresOnce` assumes `Careful` and, of each calendar, that none of its local times
  comes back with another of its times between and that its text is one line; without
  the first `calendar_fold` violates it, without the second a failed last line sends
  the first ones again. `OnceAPeriod` shows that a cron of one time satisfies the
  first wherever clocks are set back by at most its period. The lemmas about
  `Backlog` do their induction through sets of numbers, which have a least member, and
  show that its recursion has a value before they use it.
  `FiringsUseTheStore` is the refinement of `PulseStore`, with every outcome, horizon
  and occurrence open (`AnyStore`): `complete()` and `abandon()`, accepted or refused,
  are steps of the store, and what a firing reports is an outcome, its horizons and
  occurrences times, by `EvaluationIsSound`. Through it `OneFiring`, `FiringsAreCurrent`
  and the store's part of `TypeCorrect` follow from the theorems of `PulseStoreProofs`.
- `ProvidersProofs`: `TypeCorrect`, `SharedCeiling` and `HintsAreHonoured`.
  `CeilingHolds` is not inductive: the invariant counts, for each limiter, the free
  permits, the calls in flight and the waiters already granted, which together are
  `MaxConcurrent`. `RouteIsHonoured` needs that what is cached under a key is what the
  key names. `ToolCallsRefine`: `ToolCalls` makes the steps of `Providers`, so these hold
  of the specification that the run checks. `InputsAreMeant` is, for any tools with
  `IsSchema` and inputs with `IsValue`, that `Prune` undoes what `Said` adds
  (`PruneInvertsSaid`: each added field is optional and null, and nothing of the meaning
  is) and that the strict schema accepts it (`SaidIsAccepted`: at each place of the
  meaning `MeantTaken`, at each added one `NullTaken`, by what `Nullable` leaves of a
  node). No induction over documents is needed, since they are functions on positions.
  Of arguments that broke off the handler gets no field (`InputOfFragment`), for pruning
  leaves an empty object alone (`NoFieldsStay`).
  `InputsConform` is the converse for a model that means nothing in particular: whatever
  the strict schema accepts, the tool's own schema accepts once it is pruned. It assumes
  that required properties are described, since strict mode forbids to say others.
- `DeliveryLedgerProofs`: `TypeCorrect`, `Idempotence`, `HonestReplies` and
  `Refinement` to `ConfirmedHistory`. `RecordedAtMostOnce` alone is not inductive:
  the invariant adds that an id still pending and not confirmed has no event
  (`UnconfirmedUnrecorded`), that every event is of an id that was issued, that
  `_confirmed` points at the event of its id, that the caller in an append holds
  the lock for such an id, and that callers confirm only what was sent.
  `FIFORetention`: `EvictsOldestFirst` is inductive together with the fact that a
  confirmed entry is pending too, for pruning spares it and eviction takes both;
  that `Kept` and `Pruned` leave the newest is a matter of counting finite sets.
- `EngineProofs`: `TypeCorrect` and `Serialisation`. A task inside a stream's block
  is its holder (`HolderInside`); every kind of step keeps that. Typing needs that
  a confirmer works on a delivery that was staged and sent. `WInv` follows the logs:
  who writes is known (`Authors`), nobody else writes after the first event of a task
  inside (`Contiguous`, by serialisation), and what a task has written lies before what
  it will write next (`Ordered`); `LogInTurns`, `BriefedRight` and `OutreachStandsDown`
  are its consequences. `AInv` says where the record of each effect is while its line
  goes on, and needs that nothing an agent did is missing from what it reports
  (`ReportedIsDone`, by `TrailAssumption`), for `ActionsAreTrue`. `RInv` ties the status of each line to the log, the
  platform and the ledger: a text that was sent is pending, said or in its append
  (`Sent`), a staged one is reported as pending (`StagedOnly`), and what is recorded is
  reported as delivered or was confirmed (`Said`), for `ResultsAreTrue`, of a ledger
  that keeps what was staged (what eviction does is in `DeliveryLedgerProofs`); with it
  `EngineImplements` maps each step to one of `ConfirmedHistory` or to a stutter.
- `AgentLoopProofs`: `TypeCorrect`, `HardCap`, `RoundTrips`, `ReplyIsKept`, `ActionTruth`,
  `RequestsAreAnswered` and `RepliesAreComplete`. The count of answers is tied to the iteration; the trail's
  invariant (`Trail`) says that each effect has its result among those kept or those
  still gathered, that all of them are honest and one per call, and that what is kept
  is in the order of the calls and older than the batch in flight. The conversation's
  (`Conversation`) says that only its last answer may be open, and that the batch in
  flight is what that answer asked for. What is collected names the answers with words,
  in their order (`Tells`), and `Join`, written as a recursive function because the
  provers know nothing of `SelectSeq`, keeps those and their order (`Joined`).
- `OutreachProofs`: `TypeCorrect`, `NightsAreQuiet`, `CapsAreKept`, `ExactHorizons` and
  `NobodyNags`.
  What passed a stack passed each
  of its gates (`AllAgree`, from the library's definition of `SelectInSeq`), a firing
  that was let through read the clock by day (`Rested`) and says all its lines within
  `Think` (`Timed`, `Heard`), and by the arithmetic of `%` the hours that `InHours`
  compares are those of `Night`, which is written out hour by hour. The caps rest on
  the order of the log (`Told`: messages are recorded in the order of their times;
  synced actions may come late): what is newer than a message of a chain is chain or
  talk, so a window with room for the crew's cap beside the talk (`HasRoom`) holds the
  chain or is full of it (`BackoffSees`), and a gate that says yes has counted it
  (`BackoffCaps`, `CadenceCaps`). The inductive part (`CInv`) counts what a chain says
  together with the lines still to be said under a verdict (`Load`): only a yes raises
  it, and what waits is no more than a script for each process, or for each rhythm that
  may cast an author (`FewAreWaiting`, `LoadAtPass`). `HasRoom` is a hypothesis of the
  two properties, since nothing in `BackoffGate` enforces it: with a window smaller than
  the cap, or crowded with talk, the gate does not see the chain and lets it grow.
  Horizons are exact because the hour of a time is its remainder: the hours from now to
  the next hour named are those of a stretch shorter than a day (`NextTime`,
  `HoursLast`), of which delivery hours and quiet hours are complementary parts; powers
  of two are positive as the numbers of subsets of finite sets (`Powers`), `^` having
  no meaning to the provers. For `NobodyNags` a gate's yes comes after the quiet of
  every message of the chain (`YesAfterQuiet`), since that quiet grows with the chain
  (`QuietRises`) and what a gate counts covers the chain (`BackoffSees`,
  `CadenceSees`). A wait is longer than a firing takes, so whoever
  passes does so after all that was said since any firing under way began (`PassIsFine`):
  each firing that was let through began after the quiet of all that is older than its
  claim (`BegunAfterQuiet`), and what is newer, with the lines that wait, is no more than
  the scripts of the processes (`RoomToSpeak`). It assumes
  `LaddersRise`: no rung waits less than the one before it, as in every ladder that
  the docs and tests write. Without it the property fails for a reason of its wording:
  an action synced late cuts the first message off a chain, the second becomes the
  first, and a ladder of four hours and then two asks for more before the third than
  it did when that was sent.

Every safety and action property of the runs is stated by a theorem. Only
model-checked: the liveness properties (`ConfirmReturns`, `EveryCallEnds`, `RunEnds`,
`EveryRunEnds`, `StopEnds`, `RhythmsAreServed`), which are out of the provers' reach as
ENABLED and induction over recursive data are, and the properties in `findings` where
the assumptions of their theorems fail.

## Findings

- `pulse_forgets`: an exception of a later line that is not a provider's error
  leaves `handle()` with the results of the lines already delivered; the claim is
  abandoned without recording the delivery, and a rhythm anchored on it repeats its
  outreach early.
- `pulse_drops`: `_conclude()` runs outside the `try`, so an exception of the
  dispatcher or of the confirmation neither completes nor abandons the claim.
- `calendar_fold`: an occurrence is compared with the one before it only, so a cron
  with two times in the hour that the clocks repeat (`*/30 1 * * *` in New York on
  2025-11-02) fires both of them twice.

## Not modelled, and why

- Cancellation of a task (`CancelledError`) inside the engine, the ledger and the
  pulse loop, and re-entrant calls of the engine from its own hooks or tools (they
  deadlock by construction). `Providers` has cancellation at every await.
- Evictions between the look-up of `confirm_delivery()` and the ledger's `confirm()`:
  the `Engine`'s ledger has no caps, `DeliveryLedger` has them and no engine.
- Agents that raise a bare `ProviderError` after their tools did something recordable,
  against the contract of `AgentOutcome`: the engine records none of it.
- A rhythm that raises at every claim for longer than three claims, the bound of
  `pulse_lifecycle`.
- The caps and the quiet of a backoff whose window is crowded (`HasRoom`): the gate
  counts messages of every kind in a window that the application sets, and by design
  does not see what lies before it.
- `events_for` in the pulse loop, outside the `try` like `_conclude`: its failure is
  covered by `Crash`.
- A second `run()` of one `Pulse` that begins before the first returned: it replaces
  the event the first one waits on. A `stop()` before `run()` is lost, and leaves no
  state to speak of.
- The text of a cron (`parse_cron`) and event-query anchors of intervals; changes of
  the offset of a zone within delivery and quiet hours.
- Viewers of event queries; the text form of a cadence (`parse`, `str`).
- In the adapters, the rendering of messages, prompts and cache marks, the usage, and
  the mapping of SDK errors, which `AgentLoop` sees as a provider's failure; briefing
  text. In tool schemas, `oneOf`, `allOf`, `$defs` and `const`, objects below an `anyOf`,
  into which `prune_introduced_nulls` does not go, and an `anyOf` beside a type, an enum
  or properties, which `_nullable` does not make accept null.
- `asyncio.Semaphore` before Python 3.11, which lets newcomers pass waiters.

## Plan

Done, in order of importance: the ledger and its contract, the engine over it,
the pulse store, the pulse loop over the store, its life cycle, the agent loop, the
providers and tool calls, the gates, local time; the proofs above.

1. One module of which both `Pulse` (what a firing does) and `PulseLifecycle` (when
   firings come) are refinements; today each refines `PulseStore`.
2. More of `Outreach`: a rhythm's own interval anchored on an event query, and
   cadence specs that change while a denial sleeps.
