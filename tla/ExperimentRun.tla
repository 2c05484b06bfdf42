---------------------------- MODULE ExperimentRun ----------------------------
(***************************************************************************)
(* The two experiment orchestrators, run_continuity.py (the three-arm      *)
(* experiment and live plumbing) and run_matrix.py: they plan cells, start *)
(* one worker or one inference per cell, turn what comes back into one     *)
(* outcome per cell, and write a report.  Beside them somebody edits the   *)
(* task file, and another process takes turns on the live state.           *)
(*                                                                         *)
(* A cell is <<task, condition, episode>>.  Which program runs, and how it *)
(* was called, is chosen in Init and never changes.                        *)
(***************************************************************************)
EXTENDS Outcomes, SequencesExt

CONSTANTS
  Setups,      \* how a program is called: mode, dry, inject, conditions, frozen, named, store
  Tasks,       \* the tasks (or probes), in the order of their file
  Failures,    \* the inference failures that happen
  MaxEdits,    \* how often the task file is edited during the run
  MaxTurns     \* how many turns another process takes on the live state

ASSUME FailuresAssumption == Failures \subseteq InferenceFailures

(* The ledger refuses a plan with a cell in it twice, and the matrix has   *)
(* no dry run.                                                             *)
Distinct(names) ==
  names \in Seq(ToSet(names)) /\ \A i, j \in DOMAIN names : names[i] = names[j] => i = j
ASSUME PlanAssumption ==
  /\ Distinct(Tasks)
  /\ \A call \in Setups :
       /\ call.mode \in {"legacy", "live", "matrix"}
       /\ Distinct(call.conditions) /\ {call.dry, call.frozen} \subseteq BOOLEAN
       /\ call.mode = "matrix" => ~call.dry

VARIABLES
  setup,
  pc,          \* plan, tasks, cells, report, done, refused, died
  at,          \* the task at hand
  todo,        \* the cells of that task still to do
  epA,         \* what Episode A's worker of that task returned
  ledger, rows, report,
  corpus,      \* version of the task file, of the one that was loaded
  live,        \* version of the live state, of the snapshot, of the state loaded from it
  store,       \* what the continuity store of a task holds
  seen         \* what each cell's worker observed, and on which state

vars == <<setup, pc, at, todo, epA, ledger, rows, report, corpus, live, store, seen>>
world == <<corpus, live, store>>

TaskSet == ToSet(Tasks)
Conditions == ToSet(setup.conditions)
Episodes == IF setup.mode = "live" THEN {"A", "B"} ELSE {"B"}
Planned == BuildManifest(TaskSet, Conditions, Episodes)
NoReport == [written |-> FALSE]
NoRow == [status |-> "none", output |-> Unseen, score |-> 0, dry |-> FALSE]

(* The scorers give more to a text than to an empty answer.                *)
ScoreOutput(output) == IF output = "text" THEN 1 ELSE 0

Results == {[status |-> f, output |-> Unseen] : f \in Failures}
           \cup {[status |-> "completed", output |-> o] : o \in {"", "text"}}

Init ==
  /\ setup \in Setups
  /\ pc = "plan" /\ at = 0 /\ todo = <<>> /\ epA = NoRow
  /\ ledger = EmptyLedger /\ rows = EmptyLedger /\ report = NoReport
  /\ corpus = [file |-> 0, loaded |-> 0]
  /\ live = [now |-> 0, frozen |-> 0, loaded |-> 0]
  /\ store = [t \in TaskSet |-> setup.store]
  /\ seen = EmptyLedger

(* --- planning ---------------------------------------------------------- *)

(* An empty plan is refused before anything is sent.  Live plumbing does   *)
(* not catch the refusal.                                                  *)
Plan ==
  /\ pc = "plan"
  /\ corpus' = [corpus EXCEPT !.loaded = corpus.file]
  /\ live' = [live EXCEPT !.frozen = live.now, !.loaded = live.now]
  /\ pc' = IF Planned # {} THEN "tasks"
           ELSE IF setup.mode = "live" THEN "died"
           ELSE "refused"
  /\ UNCHANGED <<setup, at, todo, epA, ledger, rows, report, store, seen>>

(* A task without a name is planned under one name and looked up under     *)
(* another: the matrix looks its cell up first, the three-arm experiment   *)
(* once Episode A is over.                                                 *)
NextTask ==
  /\ pc = "tasks"
  /\ IF at = Len(Tasks)
     THEN pc' = "report" /\ UNCHANGED <<at, todo>>
     ELSE IF setup.mode = "matrix" /\ ~setup.named
     THEN pc' = "died" /\ UNCHANGED <<at, todo>>
     ELSE /\ at' = at + 1
          /\ todo' = [i \in DOMAIN setup.conditions |-> <<Tasks[at + 1], setup.conditions[i], "B">>]
          /\ pc' = IF setup.mode = "matrix" THEN "cells" ELSE "episode a"
  /\ UNCHANGED <<setup, epA, ledger, rows, report, world, seen>>

Done(c, outcome, row, saw) ==
  /\ MayExist(outcome) /\ MayRecord(ledger, Planned, c)
  /\ ledger' = Record(ledger, c, outcome)
  /\ rows' = Record(rows, c, row)
  /\ seen' = Record(seen, c, saw)

Row(status, output, dry) ==
  [status |-> status, output |-> output, score |-> ScoreOutput(output), dry |-> dry]
Saw(r, state) == [status |-> r.status, output |-> r.output, state |-> state]

(* The next cell of this task, or the next task.                           *)
Advance ==
  /\ todo' = Tail(todo)
  /\ pc' = IF Len(todo) = 1 THEN "tasks" ELSE "cells"

Nothing == [status |-> "none", output |-> Unseen]

(* --- the three-arm experiment ------------------------------------------ *)

(* An inference that fails leaves an empty text and no error.              *)
EpisodeA ==
  /\ setup.mode = "legacy" /\ pc = "episode a"
  /\ \E died \in BOOLEAN :
       /\ epA' = [NoRow EXCEPT !.status = IF died THEN "error" ELSE "ok"]
       /\ pc' = IF ~setup.named THEN "died" ELSE IF died THEN "blocked" ELSE "cells"
  /\ UNCHANGED <<setup, at, todo, ledger, rows, report, world, seen>>

RecordAll(ledger0, cells, o) ==
  [c \in DOMAIN ledger0 \cup cells |-> IF c \in cells THEN o ELSE ledger0[c]]

(* A failed Episode A does not erase planned cells.                        *)
BlockedRow == Row(IF setup.dry THEN "dry_run_only" ELSE "not_run", Unseen, setup.dry)
Block ==
  /\ pc = "blocked"
  /\ ledger' = RecordAll(ledger, ToSet(todo), IF setup.dry THEN DryRunOnly ELSE NotRun)
  /\ rows' = RecordAll(rows, ToSet(todo), BlockedRow)
  /\ seen' = RecordAll(seen, ToSet(todo), Saw(Nothing, 0))
  /\ todo' = <<>> /\ pc' = "tasks"
  /\ UNCHANGED <<setup, at, epA, report, world>>

(* What an Episode B worker returns: nothing when it died, its inference   *)
(* unless it ran dry.                                                      *)
WorkerResults == IF setup.dry THEN {Nothing} ELSE Results

OutcomeOfB(died, r) ==
  IF setup.dry THEN DryRunOnly
  ELSE IF died THEN FromLifecycle("transport_error", Unseen, "none")
  ELSE IF r.status = "completed" THEN OutcomeFromInference(r.status, r.output)
  ELSE FromLifecycle(r.status, Unseen, "none")

RowOfBCoerced(o) ==
  IF o.status = "dry_run_only" THEN Row(o.status, Unseen, o.dry)
  ELSE Row("completed", IF o.output = Unseen THEN "" ELSE o.output, o.dry)

(* The row keeps the word of the inference when an answer was observed.    *)
RowOfB(o) ==
  IF o.status \in Unobserved THEN Row(o.status, Unseen, o.dry)
  ELSE Row("completed", o.output, o.dry)

EpisodeB ==
  /\ setup.mode = "legacy" /\ pc = "cells"
  /\ \E died \in BOOLEAN, r \in WorkerResults :
       /\ died => r = CHOOSE q \in WorkerResults : TRUE
       /\ LET o == OutcomeOfB(died, r)
          IN  Done(Head(todo), o, RowOfB(o), Saw(IF died THEN Nothing ELSE r, 0))
  /\ Advance
  /\ UNCHANGED <<setup, at, epA, report, world>>

(* --- live plumbing ----------------------------------------------------- *)

CellA == <<Tasks[at], "live_ck", "A">>
CellB == <<Tasks[at], "live_ck", "B">>

(* What the worker does to the store and what it returns; it may die on    *)
(* the way.  Only a completed inference reaches the gate, and an injected  *)
(* text completes without a model.                                         *)
Gated(t, decision) ==
  store' = [store EXCEPT ![t] = @ \cup
              (IF decision = "accepted" THEN {"made", "event", "accepted"} ELSE {"made", "rejected"})]

LiveEpisodeA ==
  /\ setup.mode = "live" /\ pc = "episode a"
  /\ \/ \E part \in {{}, {"made"}, {"made", "event"}} :
          /\ store' = [store EXCEPT ![Tasks[at]] = @ \cup part]
          /\ epA' = [NoRow EXCEPT !.status = "error"]
     \/ /\ setup.dry /\ ~setup.inject
        /\ store' = [store EXCEPT ![Tasks[at]] = @ \cup {"made"}]
        /\ epA' = [NoRow EXCEPT !.status = "dry_run_only", !.dry = TRUE]
     \/ /\ ~setup.dry /\ ~setup.inject
        /\ \E f \in Failures : epA' = [NoRow EXCEPT !.status = f]
        /\ store' = [store EXCEPT ![Tasks[at]] = @ \cup {"made"}]
     \/ /\ setup.dry => setup.inject
        /\ \E decision \in {"accepted", "rejected"} :
             /\ epA' = Row(decision, "text", setup.dry)
             /\ Gated(Tasks[at], decision)
  /\ pc' = "classify a"
  /\ UNCHANGED <<setup, at, todo, ledger, rows, report, corpus, live, seen>>

GateIsNull == epA.status \in InferenceFailures \cup {"dry_run_only"}

(* The decision is asked of the gate before the inference status is, and   *)
(* the gate is null when the inference failed: the orchestrator raises.    *)
ClassifyRaises == epA.status \in InferenceFailures

OutcomeOfA ==
  CASE epA.status = "error"        -> NotRun
    [] epA.status = "dry_run_only" -> DryRunOnly
    [] epA.status = "accepted"     -> Outcome("completed_invalid", epA.output, FALSE, TRUE, "none")
    [] OTHER                       -> CompletedInvalid(epA.output, "none")

ClassifyA ==
  /\ pc = "classify a"
  /\ IF ClassifyRaises
     THEN pc' = "died" /\ UNCHANGED <<ledger, rows, seen>>
     ELSE /\ Done(CellA, OutcomeOfA, Row(epA.status, epA.output, epA.dry), Saw(epA, 0))
          /\ pc' = "receipts"
  /\ UNCHANGED <<setup, at, todo, epA, report, world>>

(* The receipts on disk must not claim science and must have their events. *)
ReceiptsHold(t) == "accepted" \in store[t] => "event" \in store[t]

CheckReceipts ==
  /\ pc = "receipts"
  /\ pc' = IF ReceiptsHold(Tasks[at]) THEN "episode b" ELSE "died"
  /\ UNCHANGED <<setup, at, todo, epA, ledger, rows, report, world, seen>>

(* Episode B opens the store alone and replays it.  The line printed after *)
(* it asks the gate again.                                                 *)
LiveReplies(t) ==
  {"error"} \cup (IF "made" \in store[t] THEN {"replayed"} ELSE {})
            \cup (IF "event" \in store[t] THEN {"refused"} ELSE {})

OutcomeOfLiveB(reply, t) ==
  IF setup.dry THEN DryRunOnly
  ELSE IF reply = "refused" THEN FromLifecycle("completed_invalid", Unseen, "none")
  ELSE IF reply = "replayed"
  THEN Outcome("completed_invalid", Unseen, FALSE, "event" \in store[t], "none")
  ELSE NotRun

LiveEpisodeB ==
  /\ setup.mode = "live" /\ pc = "episode b"
  /\ \E reply \in LiveReplies(Tasks[at]) :
       Done(CellB, OutcomeOfLiveB(reply, Tasks[at]), Row(reply, Unseen, setup.dry),
            [status |-> reply, output |-> Unseen, state |-> 0])
  /\ pc' = IF GateIsNull THEN "died" ELSE "tasks"
  /\ UNCHANGED <<setup, at, todo, epA, report, world>>

(* --- the matrix -------------------------------------------------------- *)

(* What run_turn may come back with, or raise.                             *)
TurnOf(inf, output, decision, parsed, violations) ==
  [dry |-> FALSE, inf |-> inf, output |-> output, decision |-> decision,
   parsed |-> parsed, violations |-> violations]
Turns ==
  {TurnOf(f, Unseen, "error", TRUE, {}) : f \in Failures}
  \cup {TurnOf("completed", "text", "accept", TRUE, {}), TurnOf("completed", "", "reject", FALSE, {"parse_failed"})}
  \cup {TurnOf("completed", "text", "reject", TRUE, V) :
          V \in {{"goal_echo"}, {"goal_echo", "missing_answer"}, {"stale_response_repeat"}}}

ControlOutcome(r) == OutcomeFromInference(r.status, r.output)

(* The typed inference of the row, or what stands for it.                  *)
InferenceOf(o) == IF o.inf # "none" THEN o.inf ELSE o.status
MatrixRow(o) == Row(InferenceOf(o), o.output, FALSE)

(* What a condition raises becomes the outcome of its cell.                *)
Raises(c, state) ==
  Done(c, FromLifecycle("transport_error", Unseen, "none"), Row("transport_error", Unseen, FALSE),
       Saw(Nothing, state))

(* A control sees the state that was loaded before this probe.             *)
Control ==
  /\ setup.mode = "matrix" /\ pc = "cells"
  /\ Head(todo)[2] \in {"bare", "budget_matched_bare"}
  /\ \/ \E r \in Results :
          Done(Head(todo), ControlOutcome(r), MatrixRow(ControlOutcome(r)), Saw(r, live.loaded))
     \/ Raises(Head(todo), live.loaded)
  /\ Advance
  /\ UNCHANGED <<setup, at, epA, report, world>>

(* The kernel turn runs on the snapshot, which is taken anew after it; or  *)
(* on the live state itself, and nothing is loaded again.  A turn that     *)
(* raises may have written the snapshot, and it is not taken anew.         *)
Dirty == -1
KernelStateLive == live.now
KernelState == IF setup.frozen THEN live.frozen ELSE live.now
AfterKernel(accepted) ==
  IF setup.frozen THEN [live EXCEPT !.frozen = live.now, !.loaded = live.now]
  ELSE [live EXCEPT !.now = IF accepted THEN @ + 1 ELSE @]

Kernel ==
  /\ setup.mode = "matrix" /\ pc = "cells" /\ Head(todo)[2] = "ck_strict"
  /\ \/ \E turn \in Turns :
          LET o == ClassifyProductDecision(turn)
          IN  /\ Done(Head(todo), o, MatrixRow(o), Saw([status |-> turn.inf, output |-> turn.output], KernelState))
              /\ live' = AfterKernel(turn.decision = "accept")
     \/ /\ Raises(Head(todo), KernelState)
        /\ \/ UNCHANGED live
           \/ setup.frozen /\ live' = [live EXCEPT !.frozen = Dirty]
  /\ Advance
  /\ UNCHANGED <<setup, at, epA, report, corpus, store>>

UnknownCondition ==
  /\ setup.mode = "matrix" /\ pc = "cells"
  /\ Head(todo)[2] \notin {"bare", "budget_matched_bare", "ck_strict"}
  /\ Done(Head(todo), NotRun, Row("not_run", Unseen, FALSE), Saw(Nothing, live.loaded))
  /\ Advance
  /\ UNCHANGED <<setup, at, epA, report, world>>

(* --- score.py: what the rows of one or two conditions are worth -------- *)

RowIsValidMeasurement(r) == r.status = "completed"

Of(condition) == {c \in DOMAIN rows : c[2] = condition}
ValidOf(condition) == {c \in Of(condition) : RowIsValidMeasurement(rows[c])}
TotalOf(cells) == SumFunction([c \in cells |-> rows[c].score])

(* A mean is a sum and a number; of nothing there is none.                 *)
AggregateAll(condition) ==
  [n |-> Cardinality(Of(condition)), valid_n |-> Cardinality(Of(condition)),
   total |-> TotalOf(Of(condition))]

Aggregate(condition) ==
  [n |-> Cardinality(Of(condition)), valid_n |-> Cardinality(ValidOf(condition)),
   total |-> TotalOf(ValidOf(condition))]

GainIsValid(ck, control) == ck.valid_n > 0 /\ control.valid_n > 0

CellOf(t, condition) == <<t, condition, "B">>
Probes(ck, control) == {t \in TaskSet : {CellOf(t, ck), CellOf(t, control)} \cap DOMAIN rows # {}}
PairIsValid(t, ck, control) ==
  \A c \in {CellOf(t, ck), CellOf(t, control)} : c \in DOMAIN rows /\ RowIsValidMeasurement(rows[c])
Delta(t, ck, control) == rows[CellOf(t, ck)].score - rows[CellOf(t, control)].score
TotalDelta(pairs, ck, control) == SumFunction([t \in pairs |-> Delta(t, ck, control)])

(* Both sides of a pair are told apart, so that a failure of both is not   *)
(* counted as one of them.                                                 *)
Dropouts(condition) == Cardinality(Of(condition) \ ValidOf(condition))

MissingnessBounds(total, observed, expected) ==
  [low |-> total - (expected - observed), high |-> total + (expected - observed)]

(* A headline is given only when every probe was observed on both sides.   *)
PairedGain(ck, control) ==
  LET expected == Probes(ck, control)
      pairs    == {t \in expected : PairIsValid(t, ck, control)}
      total    == TotalDelta(pairs, ck, control)
  IN  [headline  |-> expected # {} /\ pairs = expected,
       pairs     |-> pairs, total |-> total,
       bounds    |-> MissingnessBounds(total, Cardinality(pairs), Cardinality(expected)),
       symmetric |-> Dropouts(ck) = Dropouts(control)]

(* Under the edge budget what was not observed scores nothing.             *)
BudgetConditionalGain(ck, control) ==
  TotalOf(ValidOf(ck)) - TotalOf(ValidOf(control))

(* --- the reports ------------------------------------------------------- *)

(* The task file is read once more, and its hash goes into the report.     *)
Mean(condition) ==
  IF setup.dry THEN [n |-> 0, valid_n |-> 0, total |-> 0] ELSE Aggregate(condition)

LegacyReport ==
  [written |-> TRUE, counts |-> DiagnosticCounts(ledger, Planned), corpus |-> corpus.file,
   means |-> [k \in Conditions |-> Mean(k)],
   m1 |-> GainIsValid(Mean("ck_packet"), Mean("broken_packet")),
   m2 |-> GainIsValid(Mean("ck_packet"), Mean("bare_serialized"))]

MatrixReport ==
  [written |-> TRUE, counts |-> DiagnosticCounts(ledger, Planned),
   means |-> [k \in Conditions |-> Aggregate(k)],
   gain  |-> IF {"ck_strict", "budget_matched_bare"} \subseteq Conditions
             THEN <<PairedGain("ck_strict", "budget_matched_bare"),
                    BudgetConditionalGain("ck_strict", "budget_matched_bare")>>
             ELSE <<>>]

(* Every store that exists gives its receipts, those of earlier runs too.  *)
LiveReport ==
  [written |-> TRUE, counts |-> DiagnosticCounts(ledger, Planned),
   receipts |-> [t \in {u \in TaskSet : "made" \in store[u]} |-> store[t] \cap {"accepted", "rejected"}]]

(* A cell without its row stops the program before anything is written.    *)
WriteReport ==
  /\ pc = "report"
  /\ IF Validates(ledger, Planned)
     THEN /\ report' = CASE setup.mode = "legacy" -> LegacyReport
                         [] setup.mode = "matrix" -> MatrixReport
                         [] OTHER                 -> LiveReport
          /\ pc' = "done"
     ELSE pc' = "died" /\ UNCHANGED report
  /\ UNCHANGED <<setup, at, todo, epA, ledger, rows, world, seen>>

(* --- the others -------------------------------------------------------- *)

Running == pc \notin {"done", "refused", "died"}

EditTasks ==
  /\ Running /\ setup.mode = "legacy" /\ corpus.file < MaxEdits
  /\ corpus' = [corpus EXCEPT !.file = @ + 1]
  /\ UNCHANGED <<setup, pc, at, todo, epA, ledger, rows, report, live, store, seen>>

OtherTurn ==
  /\ Running /\ setup.mode = "matrix" /\ live.now < MaxTurns
  /\ live' = [live EXCEPT !.now = @ + 1]
  /\ UNCHANGED <<setup, pc, at, todo, epA, ledger, rows, report, corpus, store, seen>>

Ended == ~Running /\ UNCHANGED vars

Step ==
  \/ Plan \/ NextTask
  \/ EpisodeA \/ Block \/ EpisodeB
  \/ LiveEpisodeA \/ ClassifyA \/ CheckReceipts \/ LiveEpisodeB
  \/ Control \/ Kernel \/ UnknownCondition
  \/ WriteReport

Next == Step \/ EditTasks \/ OtherTurn \/ Ended

(* The orchestrator is one sequential program with a timeout around every  *)
(* inference; a worker that never returns is the one thing it waits for.   *)
Spec == Init /\ [][Next]_vars /\ WF_vars(Step)

(* ----------------------------------------------------------------------- *)

Observed(c) == seen[c].status = "completed"

(* A report is about every planned cell, and about what happened in it: a  *)
(* row says completed exactly when its worker saw an answer, the outcome   *)
(* carries that answer and no other, and the counts add up to the plan.    *)
(* (_outcome_from_episode_b, the row's status, outcome_from_inference,     *)
(* classify_product_decision, TerminalLedger.)                             *)
ReportIsWhole ==
  report.written =>
    /\ DOMAIN ledger = Planned /\ DOMAIN rows = Planned
    /\ setup.mode # "live" => \A c \in Planned :
         /\ RowIsValidMeasurement(rows[c]) <=> Observed(c) /\ ~setup.dry
         /\ ledger[c].output = seen[c].output /\ rows[c].output = seen[c].output
    /\ report.counts.failed_n + report.counts.dry_n
         + Cardinality({c \in Planned : ledger[c].admitted}) = report.counts.planned_n

(* The paired headline compares like with like: every probe was answered   *)
(* on both sides, and the two answers were given on the same state         *)
(* although other turns change it meanwhile.  It is promised for the       *)
(* frozen snapshot and controls that run before the kernel, which is how   *)
(* the matrix runs by default.                                             *)
KernelIsLast == setup.conditions[Len(setup.conditions)] = "ck_strict"
HeadlineGiven == report.written /\ setup.mode = "matrix" /\ report.gain # <<>> /\ report.gain[1].headline

HeadlineIsComparable ==
  HeadlineGiven /\ setup.frozen /\ KernelIsLast =>
    \A t \in TaskSet :
      LET ck == seen[CellOf(t, "ck_strict")]
          control == seen[CellOf(t, "budget_matched_bare")]
      IN  /\ ck.status = "completed" /\ control.status = "completed"
          /\ ck.state = control.state

(* A mean rests on the answers that were seen: failures are not zeros in   *)
(* it, an empty answer is, a dry run has none.  Under a headline the       *)
(* bounds have closed on the total, which is the edge gain.                *)
MeansAreObserved ==
  /\ report.written /\ setup.mode # "live" =>
       \A k \in Conditions :
         LET answered == {c \in Planned : c[2] = k /\ Observed(c) /\ ~setup.dry}
         IN  /\ report.means[k].valid_n = Cardinality(answered)
             /\ report.means[k].total = Cardinality({c \in answered : seen[c].output = "text"})
  /\ HeadlineGiven =>
       /\ report.gain[1].bounds.low = report.gain[1].bounds.high
       /\ report.gain[1].total = report.gain[2]

(* "no inference; exercises plumbing only" (--dry), and "exactly one       *)
(* terminal row per planned cell": a dry run of named tasks gets to its    *)
(* report.                                                                 *)
DryRunReports == (setup.dry /\ setup.named /\ Planned # {}) ~> report.written
=============================================================================
