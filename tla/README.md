# Conditioned Kernel: a verification project

TLA+ modules that model the stateful parts of the Conditioned Kernel, TLC
configurations that check them on small instances, and TLAPS proofs that carry
the most important results over to every instance. Paths below are relative to
the repository; `ck/` abbreviates `src/conditioned_kernel/`.

Conditioned Kernel runs a small local language model as a replaceable
transducer inside a deterministic substrate: the substrate compiles a packet
from files, the model answers, and deterministic code decides what becomes
state and what only becomes a log row. Almost everything that can go wrong
between two pure functions goes wrong in files: several processes share plain
JSON files without locks, a process may die between any two writes, and later
readers must be able to trust what they find.

## Reading order

| Module | What it is |
| --- | --- |
| `ContinuityEvents` | The continuity history and the pure functions over it: validation, listing, next sequence, materialized state, replay. |
| `ContinuityLog` | Abstract specification: a set of relations that grows by whole, new, admissible candidates. |
| `ContinuityGate` | The store on disk, Episode A workers, Episode B readers. Refines `ContinuityLog` with one worker at a time. |
| `TerminalLedger` | The append-only ledger of a commissioning run and the executors that fill it. |
| `SubstrateTurn` | A state directory, its logs, and the processes that run conditioned turns, begin sessions and trace turns over it. |
| `Selections` | Sequences cut and sorted by the places they take. Functions. |
| `ContextField`, `ReturnPath` | What happens inside one pass of such a turn: which lines travel in the packet, what a state question is owed, what is a violation, what the second pass is told. Functions. |
| `CompanionSession` | A session of turns over those functions and the ring of accepted exchanges they feed. |
| `FlowField` | The living field of Flow mode: composition, integration, eviction. Functions. |
| `Dashboard` | The dashboard process with its request threads, stores and event stream, the flow chat beside it, browsers, restarts. Uses `FlowField`. |
| `Outcomes` | Typed outcomes and the in-memory terminal ledger. Functions. |
| `ExperimentRun` | The two experiment orchestrators over `Outcomes`. |
| `GovernedCell` | What becomes of one planned cell once its request is sent. Functions. |
| `GovernedRun` | A commissioning run over `GovernedCell`, its run directory, git, and the verifier. |
| `HarnessGates` | Gate chain, measurement, probes and barrier of the ECS harness. Functions. |
| `HarnessPilot` | A pilot: arms, cells, candidates and the calibration gate over `HarnessGates`. |
| `MC...` and `MC..._*.cfg` | Instances for TLC. |
| `...Proofs` | Theorems and their proofs, described under *What is proved*. |

The compositions are `GovernedRun` over `GovernedCell`, `ExperimentRun` over
`Outcomes`, `HarnessPilot` over `HarnessGates`, `CompanionSession` over
`ReturnPath` over `ContextField`, `Dashboard` over `FlowField`, and
`ContinuityGate` over `ContinuityEvents` with `ContinuityLog` as its abstraction.
`SubstrateTurn` and `CompanionSession` are the same turn seen twice: the first
keeps every file access and leaves the verdict open, the second computes the
verdict and lets one process run undisturbed.

## Inventory

State, operations, what is hard, and what would make it correct.

**Continuity store, gate, replay** (`ck/continuity_store.py`,
`continuity_gate.py`, `continuity_replay.py`, `continuity_events.py`; modelled
in `ContinuityEvents`, `ContinuityGate`). State: a directory with
`genesis.json`, `universe.json`, one file per event, one per receipt, and `.tmp`
files of writes under way. Operations: create, open, gate a candidate
(parse, validate, compute the next state, write event then receipt, read both
back), reject, list, quarantine partial files, replay. Hard: no lock; the
listing is read several times per call; a crash between any two writes; a
six-digit sequence; receipts found again by hash. Correct when the history is
one hash chain, no relation is accepted twice, receipts agree with events,
readers see only states the history reached.

**Live episodes** (`ck/continuity_live.py`; partly modelled in
`ContinuityGate`, by their results in `ExperimentRun`). Episode A runs an
inference and hands its output to the gate; Episode B opens the store in a fresh
process and replays it three times while it assembles a packet. Hard: the three
replays may see three histories.

**Experiment orchestrators** (`experiments/run_continuity.py`,
`experiments/run_matrix.py`, `ck/outcomes.py`, `score.py`; modelled in
`Outcomes`, `ExperimentRun`). State: the plan, one outcome and one row per cell,
the task file, the live state and its frozen snapshot. Operations: plan, one
worker or inference per cell, classification, report. Hard: a failed inference
is not an empty answer and not a zero; a task file edited and a state changed
while the run goes on; a worker that reports no gate. Correct when a report is
about every planned cell and a comparison about answers given on one state.

**Persistent terminal ledger and commissioning executor**
(`ck/persistent_terminal_ledger.py`, `commissioning_executor.py`; modelled in
`TerminalLedger`). State: a meta file binding the directory to a manifest, a
JSONL file, and per process the rows it loaded and the session it fills.
Operations: open (check or create meta, create or load the file), run a cell,
append, admit. Hard: torn writes, restart under another manifest, two processes
with private copies of the rows, an append that fails after the session took the
cell. Correct when a cell is acknowledged once, nothing is rewritten, and an
admission verdict speaks about the file.

**Commissioning run and its publication** (`ck/ollama_commissioning.py`,
`commissioning_plan.py`, `generate.py`, `response_scoring_adapter.py`,
`m0_ledger_integration.py`, `evidence_verification.py`,
`artifact_publication.py`, `governed_run_finalization.py`; modelled in
`GovernedCell`, `GovernedRun`). State: a run directory, its ledger, report, hash
manifest and receipt; git's ignore rules, index and commits. Operations: start,
the writes of each cell, report, manifest, staged finalization; verification by
hand of staged files or of a commit. Hard: a crash between the send and the
terminal row; files edited, added or committed while one verification looks at
them one by one; files written after they were hashed; an empty reply, an empty
list and no reply. Correct when no cell is sent twice, a report rests on what is
on disk, and "published" means in the commit, byte for byte.

**Substrate state and turn pipeline** (`ck/state.py`, `pipeline.py`,
`return_path/accept.py`, `executable_authority.py`; modelled in
`SubstrateTurn`). State: `current.json` (session, recent turns, receipt counter),
`threads.json`, four JSONL logs, and each process's snapshot of the first two.
Operations: begin a session, run a turn: load, compile, infer, judge, repair
once or not, apply, log. Hard: every save writes a whole file from a snapshot
that is an inference old; five writes per accepted turn with a possible crash
between any two. Correct when what the logs say was applied is applied, memory
is of one conversation, and every turn ends once.

**Context, packet, return path** (`ck/context_field.py`, `compile.py`,
`edge.py`, `authoritative_state.py`, `return_path/`; modelled in
`ContextField`, `ReturnPath`, `CompanionSession`). State: the ring of accepted
exchanges; everything else is computed per turn. Operations: detect intents,
collect and select contributions, build and trim the packet, resolve what a
state question is owed, parse, enforce, ground, validate, assess, plan the
repair. Hard: selection, trims, evidence pool and validation each have their own
idea of what the model was shown, and the ring feeds all of them a turn later.
Correct when a state question gets the substrate's answer whatever the model
sends, accepted evidence was held, and a stale answer is not accepted again.

**Flow mode** (`ck/flow.py`; modelled in `FlowField`, `Dashboard`). State: a
living field of elements with salience and momentum, the last three replies, a
turn counter; saved after each inference. Hard: load, inference and save without
a lock of its own; a reply without words is a legal turn; merging, decay, floor
and cap in a fixed order. Correct when the field stays bounded and without
duplicates, no integration is lost, and what is said is shown.

**Dashboard and turn traces** (`ck/observatory/`, `ck/cli.py`; modelled in
`Dashboard` and `SubstrateTurn`). State: two trace stores with their directories,
the turn lock, the list of subscribers and their queues. Operations: post a turn,
trace it, publish its events, connect and leave a stream, fetch a trace, stop,
start again. Hard: the chat writes to the same directories; events are published
after the lock is released, to a copy of the list of subscribers. Correct when a
trace holds its own turn's rows, a turn that was broadcast can be fetched, and a
connected browser hears the end of every turn.

**ECS harness** (`harness/runner.py`, `arm.py`, `contract_probe.py`,
`gates/chain.py`, `device/eviction_barrier.py`, `analysis/`; modelled in
`HarnessGates`, `HarnessPilot`). State: arm state (infrastructure aborts, served
names), cell receipts, the candidate under repair. Hard: repair attempts inside
infrastructure retries inside refilled slots inside an arm that may be
invalidated, with a calibration gate before the other arms; an instrument that
cannot answer is no verdict. Correct when a scored candidate earned its verdict,
a complete arm is whole and of one served model, nothing opens behind a failed
calibration, and a pilot ends.

**Not modelled** is listed with its reasons further down.

The components talk through files more than through calls: the orchestrator
and the dashboard read what gate and pipeline wrote, and the admission reads
what the executor wrote. So each module models the files as shared variables
and every process as a program counter with its private copies.

## What the models say, and how they correspond to the code

One action stands for what the code does between two accesses to shared files,
with everything it does there; an access that several processes can contend for
is an action of its own. `PROJECT.json` gives the source lines of every
definition.

**Continuity.** A relation atom is a triple; a canonical state is the sorted,
duplicate-free list of its atoms, so the model uses the set, and the set also
stands for its SHA-256. Random ids are drawn from `Ids` in any order, because
file names order events and receipts. The gate call of a worker runs

    OpenStore [CreateGenesis CreateUniverse] ReadState Validate
      accepted: ComputeResult StageEvent CommitEvent WriteReceipt CheckVisible ReturnAccepted
      rejected: WriteRejection ReturnRejected

with `StagingLost`, `NotVisible`, `UniverseMissing` for its exceptions,
`WriteFails` for an `OSError` in any write and `Kill` for the end of the process
between any two steps. `parent_state_hash` is taken in `ReadState`, the known
relations in `Validate`, the result in `ComputeResult` and the sequence in
`StageEvent`, each from a listing of its own, as in the code. Receipts are
written in one step: a `.tmp` file in `receipts/` is invisible to every reader,
and `quarantine_partials` moves only those of `events/`. A reader runs
`OpenForReplay`, then three times `ListPartials MovePartial* PartialsMoved
ReplayOk`, and ends early in `PartialGone` or `ReplayFails`.

**Terminal ledger.** The file is a sequence of *pieces*: a whole line, a row
whose newline is missing, or the beginning of a row. `Parses` says when
`json.loads` accepts every line of it. Opening is `OpenMeta [WriteMetaTmp
ReplaceMeta] CheckFile [CreateFile] Load`; running a cell is `RunCell Terminalize
WriteRow AckRow`, with `TerminalizeRaises` for the session's refusals,
`WriteRowFails` and `CrashInWrite` for a write cut anywhere. `acks` is a history
variable: how often a caller was told that a cell is terminal.

**Substrate turn.** `current.json`, `threads.json` and the four logs are
variables; a process holds its own copy of the first two from `LoadCurrent` and
`LoadThreads` on, and every save writes the copy back whole. `Judge` is one pass
of compile, infer, parse, validate, authority and assess: whether the candidate
is ready, overruled by an executable gate, touches a thread or is worth keeping
is a free choice, the decision follows from it by the code's rules. An accepted
pass goes through `TouchCurrent TouchThreads Keep Count LogReceipt LogCandidate
LogHistory`, a rejected one through the last three, a repaired one through
`LogRepairCandidate LogRepairReceipt` and back to `Judge`; `TurnFails` is the
budget error or an inference without an answer. A dashboard's turn begins with
`TraceSession CountCandidates CountReceipts` and ends with `TraceCandidates
TraceReceipts`. `Abandon` is a kill, an interrupt or an exception anywhere.
An exchange carries the session it was had in, which the file does not store:
the property about conversations needs it and no action reads it.

**Companion session.** A message is a record of the cues its words match, the
state questions it asks and its topics; an answer of the model a record of its
words, topics, the claims it states or denies and its stale phrases. A regular
expression of the code is membership of a cue, and the similarity of two texts
is overlap of their topics, so the classifiers are modelled from the matches on.
Where the code asks whether one text occurs in another, `Within` says which lines do
and `Brief` which lines have less than 12 characters, too few to be cited: alignment
keeps a citation when a line of the pool of any length occurs in it or it in one,
the evidence check wants the line that occurs to be of 12 characters (`Occurs`,
`Usable`). Only lines of the state whose texts contain one another are one
line. Threads come in the order of their ids, `IdOrder`. `leak` marks a text with
one of the schema's names, which only the obligation's test looks for, `template` a
text with an instruction's words, which the validator refuses too.
`Ask` loads the state and resolves the obligation, `CompileTurn` builds the
packet and trims it, `Reply` or `InferenceFails` ends the pass, and an accepted
exchange enters the ring. Sizes are tens of bytes.

**Flow field and dashboard.** Saliences are counted in the ten-thousandths they
are saved with; a text is its set of words of four letters or more, which is what
the code compares, and its bytes. A turn of a request thread is `Post RunTurn
Exchange SaveField StoreTurn` in flow mode, `Post RunTurn RunPipeline StoreTurn`
in pipeline mode (the pipeline itself is `SubstrateTurn`'s), then `Publish` and
`Put` until every event went to every subscriber that was copied. The chat runs
`ChatTurn Exchange SaveField ChatTrace`. `WriteFails` is an `OSError` in either
write, `Stop` the end of the process with its daemon threads where they are,
`Start` the next one, which reads the trace directories again. A watcher's
connection has a number, so that a queue nobody reads any more is told from the
one of its next connection. `traces` is in order of modification time, which is
the order of writing; `life` and `clears` are history variables.

**Experiments.** One action per cell: what a worker returns, and what it left in
the store, is a free choice among what the worker can return; the outcome, the
row and every figure of the report are computed from it by the code's rules. How
the program was called (mode, dry, injected receipts, conditions, frozen
snapshot, named tasks) is chosen in `Init`. A condition that raises is recorded as a
transport error of its cell and the matrix goes on (`Raises`). A task without a name
ends the matrix when its turn comes; the three-arm experiment spawns Episode A for it
first. `EditTasks` and `OtherTurn` are somebody else.

**Governed run.** A file's content is its version. The files of a cell written
before a send, after it and with its record are one path each. The verifier's
look at one declared file (hash on disk, ignore rule, index, commit) is one
action, so that edits, adds, commits and ignore rules come between two looks. A
verification by hand is of a commit, HEAD's when none is named, or of a branch
(`moving`), which git resolves at every look and which a commit moves meanwhile.
Ignore rules are modelled as git applies them. The reply's transport, shape,
reasoning and text decide the client's status, the parse and the score.

**Harness.** A *bench* says how every instrument answers for one attempt, and
the gate chain is a function of it. A pilot is one process: `OpenArm`, per cell
`Barrier`, per candidate `StartCandidate`, per attempt `Generate` or
`GenerateFails` and `Judge`, then `CloseArm` and, behind the calibration arm,
`CalibrationGate`. Providers re-point an alias or change a contract at any
moment; an exception that is not the chain's own ends the process.

## What the runs check

All runs are exhaustive searches over the stated instance.

| Run | Instance | What holds |
| --- | --- | --- |
| `continuity_single` | 1 worker, 1 reader, 2 gate calls, 6 candidates (new, pair, overlapping, repeated inside, forbidden, outside the universe), kill and failed write anywhere | `HistoryReplays`, `AcceptedOnce`, `ReceiptHasEvent`, `ReplaySeesPrefixes`; the store implements `ContinuityLog` (`LogSpec`); every call ends (`CallsSettle`) |
| `continuity_race` | 2 workers, 3 gate calls, sequence names for 2 events, then 1 reader | `ReplayedOnce`, `AcceptedIsListed`, `RefusalIsFinal` |
| `ledger_single` | 1 executor, 2 cells, 2 manifests, 3 failures, fresh directory | `AckedOnce`, `OneManifest` |
| `ledger_shared` | 2 executors, 2 cells, 2 failures, existing ledger | `DoubleAckFailsClosed`, `AdmittedIsOnDisk` |
| `turn_single` | 1 dashboard, 2 turns, 2 new sessions, `max_repair` 2 | `ReceiptIsApplied`, `CountCoversReceipts`, `TraceIsOwn`, `TurnsEnd` |
| `turn_shared` | 2 processes that trace nothing, 2 turns, 2 new sessions, `max_repair` 2 | `OneConversation`, `HistoryIsLast`, `RepairedOnce` |
| `companion_session` | 3 turns over a ring of 2 exchanges: small talk, things told and recalled, state questions under trims, in both modes and with a full and an empty state; replies cite lines, pieces of lines, padded lines and inventions, one with a short line of the session in it | `StateIsAnswered`, `EvidenceIsHeld`, `RepeatIsAskedAgain` |
| `dashboard_run` | 2 request threads, 1 browser with 2 connections, 1 stop and restart, 2 turns, the flow chat beside them in half of the behaviours, 1 clear | `FieldIsLean`, `FieldKeepsTurns`, `ToldIsFound`, `WatcherIsTold` |
| `dashboard_muted` | the same | `SpokenIsShown` does not hold |
| `experiments_run` | 2 tasks, every way the two programs are called, an edit of the task file, 2 turns of another process | `ReportIsWhole`, `HeadlineIsComparable`, `MeansAreObserved` |
| `governed_run` | 2 cells with every kind of reply, gold and pair matched or not, 2 starts; and 1 cell published while it runs, with 2 adds, 2 commits and 1 edit, or 1 commit and 1 ignore rule, and 1 verification by hand | `PublishedIsCommitted`, `InvokedOnce`, `ReportIsBacked` |
| `harness_pilot` | 3 arms, a frontier and a local generator, 2 samples, 1 repair, 2 retries, 1 abort, 3 refills, 1 change of a provider, every bench with at most two departures from a sound one | `ScoredIsEarned`, `CompleteIsWhole`, `CalibrationFirst`, `PilotEnds` |

The first run of each of the first three components also checks its type
invariant.

Why these bounds. The chain and duplicate properties are about two events and one
candidate too many: two gate calls give an accepted and a conflicting one, three
with two workers give two tips and a later append. `MaxListed` is the six digits of
the file name, shrunk to 2 so that the listing really runs out. In the race the
reader starts when the calls are over (the constraint `ReadersComeAfter`): what it
meets between the steps of a call is in the single instance, what two workers leave
behind is what it has to find here. The ledger needs two cells, so that one can be
torn and another appended after it, and three failures, so that an append can fail,
its executor restart and fail again. Two turns are what a stale snapshot and a
shifted trace need, two sessions are what a session lost and one kept need, and
`max_repair` 2 is the smallest value at which the validator's own bound on repairs
(only the first pass) matters. Three companion turns over a ring of two let an
exchange be told, pushed out and asked for again, and let a repeated answer meet a
line older than the last. Two flow turns are what a stale save needs; the field
starts empty or with an old element near its floor, and holds three, so that
merging, eviction and the cap all happen within two turns. Two connections of one
browser are what a queue left behind needs. Two tasks and three conditions give a
pair with one side missing. Two cells of a governed run are what a second start can
confuse; the busy setups have one cell, because the verifier looks at its files one by
one, and two commits with an edit between them are what a branch that moves under the
verifier needs. In a pilot two samples are what an alias moved between samples needs, a second
packet what one moved between cells needs, and the caps differ so that each trips
alone.
Bounds whose names begin with `Max`, and those of the `Setups`, limit only how
long a behaviour is; when they are used up the system stops, so the runs in which
nothing else can go on forever do not check for deadlock: `continuity_race`, the
turns, the session, the dashboard, the governed run and the pilot. The ledger
runs, the single continuity run with its reader, and the experiments, whose end
is a step of its own, check it.

### Disagreements between the code and what it says

The run `dashboard_muted` ends in a counterexample to a sentence of the
repository. A flow turn whose inference found no server, or no words, keeps a
blank reply; if every kept reply is blank, the repetition observation of the next
reply that has words takes the maximum of nothing and raises. The chat process
dies, the dashboard answers 400, and the reply is neither shown nor integrated nor
traced, for every later turn until the field is cleared. `flow.py` says that
"every nonempty generation reaches the terminal".

The modules also define properties that the code states of itself and does not
have. No run lists them; each is violated within seconds when it is added to the
configuration named here.

- `EventHasReceipt` (`MCContinuityGate_single.cfg`): the event is published before
  its receipt, and a crash or failed write in between leaves an accepted event
  without one for good, though the gate promises "exactly one continuity event +
  one terminal receipt".
- `ReturnedIsPersisted` (`MCContinuityGate_single.cfg`): a candidate rejected as a
  duplicate of its own acceptance is answered with the acceptance receipt, though
  the "returned receipt is the same object that was persisted".
- `AckLeavesLoadable` (`MCTerminalLedger_single.cfg`): a crash that loses only a
  row's newline goes unnoticed at the next open; the next acknowledged row is glued
  to it and the ledger cannot be opened again, though it is "crash-safe" and
  "survives process restart".
- `ClearedStaysCleared` (`MCSubstrateTurn_shared.cfg`): a turn in flight when
  another process begins a new session writes the old session and its memory back.
  `turn_api.py` admits that concurrent turns race on the state directory;
  `begin_new_session` promises a cleared memory.
- `ManifestIsTrue` (`MCGovernedRun_run.cfg`): `ollama_commissioning.py` rewrites
  `terminal_report.json` (l. 795) after its hash went into the artifact manifest
  (l. 753), so no verification of a finished run ever completes; the comment at
  l. 744 names the files that are left out, and the report is not among them.
- `DryRunReports` (`MCExperimentRun_run.cfg`): a live-plumbing run asked to run
  dry calls `.get` on a null gate after its first task and ends without a report
  (`run_continuity.py` l. 632, and l. 501 after a failed Episode A), though
  `--dry` "exercises plumbing only".
- `StaleIsRefused` (`MCCompanionSession_session.cfg`): in companion mode the
  selected turns are ordered oldest last, so the guard against a repeated answer
  compares the human's line with an older one than the last (`validate.py` l. 378,
  `context_field.py` l. 627); the last answer is accepted again for another line.

Further differences met while modelling, without a property:

- Two tracing processes on the same logs: a trace may hold the other turn's rows
  though `trace.py` claims a "byte-exact" recovery (`TraceRowsAreOwn` with two
  members in `Tracers`). Two executors on a fresh ledger directory: the creation of
  the file truncates what the other wrote since it looked.
- After a greeting whose lines are all too short to cite, every follow-up is
  rejected for evidence the substrate itself supplied (`validate.py` l. 435), until
  the session is cleared. A short line does more: alignment keeps an invented citation
  such a line occurs in (`validate.py` l. 538, no length asked), so the substrate
  supplies nothing, and the evidence check refuses it (l. 296, 12 characters). After
  "hi" and a codeword, "what was the codeword again?" answered rightly with "from this
  conversation" as evidence is rejected on both passes, as "hi" is in "this".
  `StateIsAnswered` says that evidence costs a state question its answer in no other
  way. A short follow-up is shown the oldest selected exchange
  instead of the one it follows (`context_field.py` l. 627 says newer ones rank
  higher). The evidence pool survives the trims of the packet. A recalled line that
  holds a link makes the substrate's own answer a forbidden one.
- Threads are never materialized in the flow field, though `integrate_field` says
  so; texts without a word of four letters are similar to nothing, themselves
  included, so each repetition makes a topic; a topic just made may be the one the
  cap evicts. With `ck chat --mode flow` beside a dashboard the later save undoes
  the earlier integration, which is why `FieldKeepsTurns` speaks of a dashboard
  alone. A pipeline turn whose trace could not be written is listed until the next
  restart.
- A staged receipt of a governed run says complete without a look at any commit,
  while the run's specification counts all checks. A receipt for a branch that moved
  during the verification may be complete though no single commit holds every file
  (`artifact_publication.py` l. 248 resolves the name per file); `PublishedIsCommitted`
  says what it does mean. `git_check_ignore` is described
  as if it ignored tracked files too; the model does what git does.

What holds in spite of the missing locks is as telling. Racing workers can fork the
continuity chain, but then replay refuses the history for good
(`RefusalIsFinal`), and what it does accept holds no relation twice
(`ReplayedOnce`). Two executors can both be told they terminalized one
cell, and then nobody can open the ledger again (`DoubleAckFailsClosed`). The
state directory loses updates, but because a session and its memory are saved in one
file, memory is never a mixture of two conversations (`OneConversation`). A crashed
governed run cannot be resumed, and just that keeps it from sending a cell twice
(`InvokedOnce`). Two turns' events interleave in one stream, but each says which
turn it is of, the turn is on disk before the first, and the last one arrives
(`ToldIsFound`, `WatcherIsTold`).

### Fairness

Safety runs use `Spec` without fairness. `CallsSettle` assumes weak fairness of
each worker's and each reader's own steps: they are sequential programs without
waits, so the operating system's scheduling is enough. Submissions, new readers,
failures and kills are the environment's and have no fairness. `TurnsEnd` assumes
weak fairness of each process's `Advance`: the only wait in a turn is the
inference, which the client bounds by the profile's `timeout_s`. Starting turns and
sessions, and abandoning them, is not fair. `WatcherIsTold` assumes it of a request
thread that is broadcasting, which waits for nothing but the subscriber lock, held
for a list copy, and of each stream thread; the turn itself may take for ever.
`PilotEnds` assumes that the harness process keeps running: every call it makes
has a timeout, and how the call ends stays open, so that all of them may fail.
The experiments are fair in the same sense, which only `DryRunReports` needs.

## What is proved

Forty theorems, each for every value of the constants: any number of
processes, candidates, cells, any universe, any bound. Their assumptions are named,
stand in the module that declares the constants, and are evaluated by the runs. Most
only type the constants. Those that say more, and why the code justifies it:

- `CellsAssumption` (`GovernedRun`), `PlanAssumption` (`ExperimentRun`): a plan names
  a cell once. The ledger refuses a plan that repeats one; the matrix, which has no ledger,
  loops over distinct tasks and conditions, and has no dry run.
- `ArmsAssumption`, `BenchesAssumption` (`HarnessPilot`): an arm lists a generator and a
  packet once, the first arm of a pilot is its calibration, and a bench measures what its kernel runs.
- `CalibrationAssumption` (`HarnessPilot`): the calibration arm judges fewer than a hundred
  artifacts. The barrier reads `f"{agreement:.0%}"`, which rounds 199 of 200 up to
  100%; the frozen arm has four generators, one kernel and ten samples.
- `FailuresAssumption` (`ExperimentRun`): the failures of a client are among those it defines.
- `PlanAssumption` also says that a call is of one of the three programs.
- `FlowBoundsAssumption` (`FlowField`): the canonical contributions are a list.
- `EarlierFieldAssumption` (`Dashboard`): the field found at the start is what earlier
  sessions left, so its elements were made before, none twice, and it is lean. It is the
  theorem `FieldsAreLean` about those sessions; the first one finds no file.
- `TextsAssumption` (`ContextField`): the ring keeps one exchange at least, as
  `fit_recent_turns` does. `LinesAssumption`: containment of texts is an order, and what
  contains a line of 12 characters has as many.

| Theorem | Property | For | Argument |
| --- | --- | --- | --- |
| `ContinuityGateProofs!TypeCorrect` | `TypeOK` | any workers and readers | `TypeInv`: types, and the histories are finite with a largest sequence, since `NextSequence` is typed only then |
| `ContinuityGateProofs!ReceiptsAgree` | `ReceiptHasEvent` | any workers and readers | `PairInv` |
| `ContinuityGateProofs!ReplayIsSingular` | `ReplayedOnce` | any workers and readers | `FreshInv` |
| `ContinuityGateProofs!AcceptedStaysListed` | `AcceptedIsListed` | any workers and readers | `ShownInv` |
| `ContinuityGateProofs!ReplaysSeePrefixes` | `ReplaySeesPrefixes` | any workers and readers | `SeenInv` |
| `ContinuityGateProofs!RefusalsAreFinal` | `RefusalIsFinal` | any workers and readers | `OriginInv` |
| `ContinuityGateProofs!OneWorkerReplays` | `HistoryReplays` | one worker, any readers | `ChainInv` |
| `ContinuityGateProofs!OneWorkerAcceptsOnce` | `AcceptedOnce` | one worker, any readers | `OneWorkerReplays` and `ReplayIsSingular` |
| `ContinuityGateProofs!OneWorkerRefines` | `LogSpec` | one worker, any readers | `ChainInv`, step simulation |
| `TerminalLedgerProofs!LedgerTypeCorrect` | `TypeOK` | any executors | inductive as it stands |
| `TerminalLedgerProofs!DoubleAckClosesLedger` | `DoubleAckFailsClosed` | any executors, existing ledger | `SharedInv` |
| `TerminalLedgerProofs!AdmissionIsEarned` | `AdmittedIsOnDisk` | any executors, existing ledger | `SharedInv`, `RowsOnDisk` |
| `TerminalLedgerProofs!OneProcessAcksOnce` | `AckedOnce` | one executor | `LedgerInv` |
| `TerminalLedgerProofs!OneProcessOneManifest` | `OneManifest` | one executor | `LedgerInv` |
| `TerminalLedgerProofs!OneProcessAppendsOnly` | (`AppendOnly`) | one executor | `LedgerInv` |
| `SubstrateTurnProofs!TypeCorrect` | `TypeOK` | any processes, any `max_repair` | `TypeOK /\ PassInv` |
| `SubstrateTurnProofs!MemoryIsOneConversation` | `OneConversation` | any processes | `ConvInv` |
| `SubstrateTurnProofs!HistoryAgrees` | `HistoryIsLast` | any processes | `LogInv` |
| `SubstrateTurnProofs!TurnsEndOnce` | (`EndsOnce`) | any processes | `LogInv` |
| `SubstrateTurnProofs!TurnsRepairedOnce` | `RepairedOnce` | any processes, any `max_repair` | `LogInv` |
| `SubstrateTurnProofs!ClearedForGood` | (`ClearedStaysCleared`) | one process | `HeldInv` |
| `SubstrateTurnProofs!CounterCovers` | `CountCoversReceipts` | one process | `HeldInv`, `CountInv` |
| `SubstrateTurnProofs!ReceiptsAreApplied` | `ReceiptIsApplied` | one process | `HeldInv`, `LogInv`, `MemoryInv` |
| `SubstrateTurnProofs!TracesAreOwn` | `TraceIsOwn` | one process | `HeldInv`, `LogInv`, `MarkInv` |
| `GovernedRunProofs!CellsAreInvokedOnce` | `InvokedOnce` | any verifiers, cells, crashes and starts | `OrderInv`, `CallInv` |
| `GovernedRunProofs!PublishedAreCommitted` | `PublishedIsCommitted` | the same, and any edits | `OrderInv`, `PublishInv` |
| `GovernedRunProofs!ReportsAreBacked` | `ReportIsBacked` | the same | `OrderInv`, `ResultInv` |
| `HarnessPilotProofs!ScoresAreEarned` | `ScoredIsEarned` | any arms, limits, benches, providers | `EarnedInv` |
| `HarnessPilotProofs!CompleteArmsAreWhole` | `CompleteIsWhole` | the same | `CellsInv`, `ArmsInv` |
| `HarnessPilotProofs!CalibrationComesFirst` | `CalibrationFirst` | the same | `CellsInv`, `ArmsInv` |
| `ExperimentRunProofs!ReportsAreWhole` | `ReportIsWhole` | any tasks and conditions, both orchestrators | `IInv` |
| `ExperimentRunProofs!HeadlinesAreComparable` | `HeadlineIsComparable` | the same | `IInv` |
| `ExperimentRunProofs!MeansWereObserved` | `MeansAreObserved` | the same | `IInv`, `SumIs` |
| `CompanionSessionProofs!StateGetsAnswered` | `StateIsAnswered` | any lines, containments, replies, ring and profile | `SessionInv` |
| `CompanionSessionProofs!EvidenceWasHeld` | `EvidenceIsHeld` | the same | `SessionInv` |
| `CompanionSessionProofs!RepeatsWereAsked` | `RepeatIsAskedAgain` | the same | `SessionInv` |
| `DashboardProofs!DashboardTyped` | | any threads, browsers, texts | inductive as it stands |
| `DashboardProofs!FieldKept` | `FieldKeepsTurns` | any threads, browsers, texts, no chat | `KeepInv` |
| `DashboardProofs!ToldTurnsAreFound` | `ToldIsFound` | any threads, browsers, restarts | `FoundInv` |
| `DashboardProofs!FieldsAreLean` | `FieldIsLean` | any threads, browsers, texts, bounds, and the chat process | `LeanInv` |

`TurnsEndOnce`, `ClearedForGood` and `OneProcessAppendsOnly` state properties that no
run repeats. `ClearedStaysCleared` is the property above that two processes violate:
with one it holds.

None of these properties is inductive, except the types of ledger and dashboard. What each
strengthening adds:

- `PairInv`. Between staging an event and writing its receipt, a call's locals
  still describe the staged, then the committed event. It holds among any number
  of workers because an id is drawn once, although other calls append between
  the two steps.
- `FreshInv`. What another worker appends between a call's listings only widens
  the state, so the parent a call read first lies within every later listing and the batch
  it admits is disjoint from that parent. Hence in a history that replays, where parents
  are the states of the prefixes, each batch is new. It does not say that the
  history replays; with two workers it may not.
- `ShownInv`. The listing only grows, so what a call saw in it at its visibility
  check is there when its caller is told, and afterwards.
- `SeenInv`. In a listing that replays, the last file's claimed result is the state of
  the whole, so each answer is a result the history reached; as the listing only
  grows, every earlier answer lies within it. That there is a last file is
  `HasLast`, which is inductive where finiteness is awkward.
- `OriginInv`. Every event, staged ones included, extends the state of files that were
  listed before it, and a parent a call has read is such a state. So what comes
  later never repairs a listing that is refused: take the first event in it that does not
  continue the state before it (a least counterexample, `WFMin`); every later event
  extends some state that files of the listing had, and none changes the order of those before it.
- `ChainInv`. With one worker what a call read is still true when it is used
  (`CallInv`), and the event it stages continues the chain (`AppendReplays`).
  Its claim is about the listing, so it covers events past the six-digit names.
- `SharedInv`. A cell acknowledged twice has two rows: a process about to
  acknowledge has a row of its own, and two of them for one cell have two. Most
  steps are `Quiet`: they start no acknowledgement. It needs an existing file: the
  creation of a fresh one truncates what another process wrote since it looked.
- `RowsOnDisk`. The rows an executor counts are rows of the file, which only grows once
  it exists; so the cells counted at an admission are on disk, and a second row for
  one of them is found by the same call. On a fresh directory the truncation by
  another creator would take counted rows away again.
- `LedgerInv` is `FilesInv` (which manifest each stage of opening has
  established) and `AcksInv`, whose core is `Known`: a cell on disk was loaded,
  or is in the session because its append failed late. Either stops a second row.
- `PassInv` ties where a turn is to how many candidates it has judged, which bounds
  them by two for any `max_repair`; the types need it.
- `ConvInv`. Not only the file but every snapshot a process holds is of one
  conversation, so whichever is saved last is too.
- `LogInv`. `Owns`: a turn that runs has no terminal row, its receipts are those
  of the passes below `Logged`, and past each log it has the row it wrote;
  `Apart`: no two processes run one turn; `RowInv`: rows are of turns begun, one
  receipt per turn and pass, and only the first pass is repaired.
- `KeepInv`. `Reads`: a turn in progress holds the turn lock, so what it loaded is
  the field on disk, and what it will save counts more than every trace of this
  field so far. The field is cleared only while no server runs, and then no turn is
  in progress.
- `FoundInv`. A turn is traced, and listed by the server, before its first event
  leaves, so every event queued, on its way or read is of a turn that is found. A
  stop ends every stream and a start lists every trace on disk again.
- `LeanInv`. Two writers of the field overwrite each other, so the one on disk is no
  function of the turns so far. But every field, on disk or in a turn's hands, is tidy and
  has no topic of a later turn than the one that may add to it; so a topic made by a turn has
  an id of its own, and whichever field is saved last is lean. Within one
  integration, decay and strengthening keep ids and words (`StepsKeepElements`), relevant
  canonical state joins once (`MaterializedIsTidy`), a topic merges with the
  first on its subject or has none (`UpsertIsTidy`), and eviction takes distinct places (`KeptIsLean`).

- `HeldInv`, `CountInv`, `MemoryInv`, `MarkInv`. With one process at a time, killed
  anywhere: the snapshot it holds is the file, and the session it began in is still the
  one on disk; the counter is raised before the receipt is
  logged, so between the two it is strictly ahead; threads and memory are saved before
  the receipt says so, and what the ring has dropped was followed by as many younger
  exchanges as it holds; and the marks a trace takes are the lengths the logs had when its turn
  began, so the rows behind them are this turn's.
- `OrderInv`, `CallInv`. A run directory is used once: the ledger file is created first and
  never goes away, so after a crash no second run gets as far as a cell, and from the
  cell a runner is at no cell was sent, but for that one and after its request was written.
- `PublishInv`. A manifest names one version of a file; a verification under way has
  found each declared file that it has no more to look at in the one commit it looks
  at, or in one its branch named meanwhile; commits do not change and are only added. `OrderInv` adds that the manifest is there before a
  verification begins.
- `ResultInv`. The results collected so far are those of the cells before the current
  one, in order, each of a reply that was received, with its row in the ledger and its files on disk.
- `EarnedInv`. What the next attempt is fed is how the last one stopped, and no more attempts
  were made than the limit. The rest is the lemmas of `HarnessGates`' verdicts: a
  measurement that passes proves each constraint the packet declares.
- `CellsInv`, `ArmsInv`. The receipts of an open arm are, pair by pair, those of the generators and
  packets that come before the current one, each whole; all samples of one generator carry
  the name the arm pinned for it. Closing compares their number with the plan's, which
  decides completeness only because no pair is counted twice.
- `IInv` of `ExperimentRun`. `LedgerInv`: ledger, rows and what the workers saw are about the same cells, and
  outcomes are of one kind. `QueueInv`: the conditions still to do of a task are an end of
  the list, and those before it are recorded. `StateInv`: in the matrix as it runs by default
  the kernel's cell is the last of its task, and while every kernel cell is
  completed the frozen state is the one the live cells of the current task load.
  `ReportInv` says what a written report is. Its sums are those of the library, whose definition is a
  recursive function over the subsets: `SumIs` proves that over a finite set it has one
  solution, by a subset of least size on which two would differ.
- `SessionInv`. While a reply is awaited, the packet is the trimmed one of this ring, and
  the obligation was resolved from the same ring. So the evidence pool holds what was in the ring, the
  state and the obligation, and the first claim of the obligation always: the trims
  stop short of it. `StateGetsAnswered` rests on that claim: alignment leaves a citation
  that is refused only when a line too short to be cited occurs in it, and no citation
  at all only when every line of the selected pool is too short. `EvidenceWasHeld`
  follows reply by reply through the
  validator, `RepeatsWereAsked` because the line compared is of the packet, and the
  packet's turns are of the ring.

`OneWorker` and `OneProcess` are assumptions of theorems, not of modules. They are
how the code is meant to run (the orchestrator waits for each worker, a
commissioning run is one process), and nothing in the code enforces them; the
theorems without them say what still holds when it is not so.

Two more things the proofs asked of the models. The sequences of `ContextField`,
`ReturnPath` and `FlowField` are cut and sorted with `At`, `Filter` and `Arranged`, defined in `Selections` by the
places they take, and the byte count is a recursive function: about the library's
`SelectSeq`, `SortSeq` and folds the provers know nothing. A disjunct that the code
reaches through an `elif` states the negation of the tests before it.

Only model-checked: `CallsSettle`, `TurnsEnd`, `WatcherIsTold` and `PilotEnds`, as
liveness is out of the prover's reach. Every other property of a passing run is a
theorem, those of the single-worker and single-process runs for one worker or process. Apart from
sums nothing here proves what a recursive definition computes, such as the byte count of a
prompt; no module uses `RECURSIVE`.

## What is abstracted, and why that is sound here

- Hashes are what they hash. A collision, or an event file edited by hand, is
  outside the model. The rows of `LEDGER_CORRUPT_LINE` come only from torn writes.
- A step sees a directory listing or a file at one instant. The code lists a
  directory and reads its files afterwards; published files of the store never
  change, so a listing that is read later yields the same events.
- The recent turns are cut to 1200 bytes; the model lets any non-empty suffix
  remain. The last resort of `fit_recent_turns`, an empty list, is not modelled: the
  loop first drops older turns and then halves the last one's answer and user text
  to 40 characters or less, and an exchange that short fits the cap.
- Rows of the turn logs are appended whole. The append is one short buffered write,
  flushed and synced; a row torn by a crash would be skipped by its readers.
- One thread stands for all of `threads.json`. `methods.json` is never written.
- Sessions are numbered; the code names them by the second. Two begun within one
  second would share a name, and for the properties would be one session.
- A negative `max_repair` gives a turn without a pass (`exhausted_passes`), and is
  not modelled: profiles and command lines start at 0.
- The gate's `dry_run` argument takes the same steps in a store of its own.
- Each `verify_integrity` error other than an undecodable line or a duplicate
  needs a row no executor writes.
- A companion session is one process on a state nobody else writes, and declares no
  executable gate; both are in `SubstrateTurn`. The ring is capped by a count of
  exchanges instead of 1200 bytes. What an accepted reply proposes for the state is
  judged here and applied in `SubstrateTurn`.
- A flow field that cannot be parsed would be taken as a fresh one; it is written
  atomically, so no write of the program leaves one. The code rounds a
  salience when the field is saved, the model at each scaling: a value may differ in its
  last decimal.
- After a stop the model's request threads end at once. The code's keep running until
  the interpreter exits, which is earlier or later than any of their steps.
- A pilot's provider changes an alias once per run; a second change is the first for
  the property's purposes, since the arm is over by then.

## Not modelled

- **ACT-1 live session** (`ck/act1/`): a runner thread and a terminal display share
  flags (pause, stop, finished) and counters; its result is a screen, and the turns it
  takes are the pipeline's.
- **M0 scientific contract, preregistration, eligibility, leakage analysis, relational
  scorer** (`ck/m0_*.py`, `relational_scorer.py`) and **packet sufficiency and matched
  controls** (`control_contract.py`): functions from frozen data to data. Padding a
  control to exact equality and the accounting of an admission are loops over numbers and
  strings, whose interest is in the strings.
- **The dashboard's derivations** (`observatory/compute.py`, `brief.py`, `replay.py`,
  feedback, observer pane, static files): they read traces and write answers; feedback
  appends one line to a file of its own.
- **Harness scripts around a pilot** (seed guard, pre-arm checks, packet validation,
  bring-up of the device), **qualification and benchmark scripts**, the telemetry of the
  client, profiles, recorded evidence, papers and documents.
- Of the modelled parts: the wording of packets, prompts and messages, identifiers and
  timestamps, command line parsing.

Proofs still wanted: that a browser's queue holds the events of a turn in order and none
twice (the safety part of `WatcherIsTold`), and what a composed flow field keeps to (at most
`MaxLive` elements within the byte budget), which is a recursive function over a sequence.

## Running

    tlc -workers 2 -config MCSubstrateTurn_single.cfg MCSubstrateTurn
    tlc -workers 2 -config MCDashboard_run.cfg MCDashboard
    tlapm SubstrateTurnProofs.tla

The proof modules are `ContinuityGateProofs`, `TerminalLedgerProofs`,
`SubstrateTurnProofs`, `DashboardProofs`, `HarnessPilotProofs`, `GovernedRunProofs`,
`ExperimentRunProofs` and `CompanionSessionProofs`; each extends the module it is about.

Every property of a passing run has a mutant in `PROJECT.json`: an operator beside
the original, marked *Mutant*, that changes it the way a plausible bug would.
Put in its place it makes TLC find the property violated.
