------------------------------ MODULE Outcomes ------------------------------
(***************************************************************************)
(* The typed outcomes every experiment speaks in (outcomes.py): how an     *)
(* inference, a validator's verdict or a worker's word becomes a terminal  *)
(* status, what an outcome may carry, and the in-memory ledger that wants  *)
(* exactly one of them per planned cell.                                   *)
(*                                                                         *)
(* An output is "" , "text" or Unseen: an answer that was never observed   *)
(* is not an empty answer.                                                 *)
(***************************************************************************)
EXTENDS Integers, Sequences, FiniteSets, FiniteSetsExt

CONSTANT Unseen

InferenceFailures == {"timeout", "transport_error", "invalid_response", "no_final_response"}
TerminalStatus == InferenceFailures
  \cup {"completed_valid", "completed_invalid", "parse_failed", "schema_failed",
        "semantic_failed", "not_run", "dry_run_only"}

(* What never carries an answer.                                           *)
Unobserved == InferenceFailures \cup {"not_run", "dry_run_only"}

(* --- statuses ---------------------------------------------------------- *)

(* A completed inference is not terminal: the lifecycle goes on.           *)
ClassifyInference(status) == IF status = "completed" THEN {} ELSE {status} \cap InferenceFailures

ClassifyUnknownStatus(token) ==
  IF token \in TerminalStatus THEN {token}
  ELSE IF token = "completed" THEN {"completed_invalid"}
  ELSE IF token = "error" THEN {"transport_error"}
  ELSE IF token \in {"dry", "dry_run"} THEN {"dry_run_only"}
  ELSE {}

(* A violation is known by its category; one in neither list is not        *)
(* guessed.  The validator's stale_response_repeat is such a one.          *)
SchemaViolations == {"missing_answer", "template_echo", "required_section", "parse_failed",
                     "max_words_exceeded"}
SemanticViolations == {"goal_echo", "intent_echo", "invented_assistant_history", "not_responsive",
                       "goal_not_referenced", "template_echo_evidence", "evidence_used_empty",
                       "evidence_too_short", "evidence_not_in_packet", "forbidden",
                       "contradicts_facts", "unknown_thread_touch"}

ClassifyViolationToken(v) ==
  CASE v \in SchemaViolations   -> "schema_failed"
    [] v \in SemanticViolations -> "semantic_failed"
    [] OTHER                    -> "unknown"

ClassifyViolations(V) ==
  LET found == {ClassifyViolationToken(v) : v \in V}
  IN  IF "unknown" \in found THEN "unknown"
      ELSE IF "schema_failed" \in found THEN "schema_failed"
      ELSE "semantic_failed"

(* --- outcomes ---------------------------------------------------------- *)

(* inf is the status of the inference behind it, "none" when there is none *)
Outcome(status, output, dry, admitted, inf) ==
  [status |-> status, output |-> output, dry |-> dry, admitted |-> admitted, inf |-> inf,
   science |-> status = "completed_valid"]

(* The constructor raises on anything else.                                *)
MayExist(o) ==
  /\ o.status = "dry_run_only" => o.dry
  /\ o.science => o.status = "completed_valid"
  /\ o.status = "completed_valid" => ~o.dry
  /\ o.status \in Unobserved => o.output = Unseen

DryRunOnly == Outcome("dry_run_only", Unseen, TRUE, FALSE, "none")
NotRun == Outcome("not_run", Unseen, FALSE, FALSE, "none")
CompletedValid(output, inf) == Outcome("completed_valid", output, FALSE, TRUE, inf)
CompletedInvalid(output, inf) == Outcome("completed_invalid", output, FALSE, FALSE, inf)

FromLifecycle(status, output, inf) ==
  CASE status = "dry_run_only"    -> DryRunOnly
    [] status = "completed_valid" -> CompletedValid(output, inf)
    [] OTHER -> Outcome(status, IF status \in Unobserved THEN Unseen ELSE output, FALSE, FALSE, inf)

(* An observed answer is provisional until it is accepted.                 *)
OutcomeFromInference(status, output) ==
  IF ClassifyInference(status) # {}
  THEN Outcome(status, Unseen, FALSE, FALSE, status)
  ELSE Outcome("completed_invalid", output, FALSE, TRUE, status)

MayBeAccepted(o) ==
  ~o.dry /\ o.status \notin Unobserved \cup {"parse_failed", "schema_failed", "semantic_failed"}
FinalizeAccepted(o, output) == CompletedValid(output, o.inf)

(* What a turn's decision means.  turn is [dry, inf, output, decision,     *)
(* parsed, violations].                                                    *)
ClassifyProductDecision(turn) ==
  LET status == IF ~turn.parsed THEN "parse_failed" ELSE ClassifyViolations(turn.violations)
  IN  IF turn.dry THEN DryRunOnly
      ELSE IF turn.inf \in InferenceFailures THEN OutcomeFromInference(turn.inf, Unseen)
      ELSE IF turn.decision = "accept" THEN CompletedValid(turn.output, turn.inf)
      ELSE IF turn.parsed /\ turn.violations = {} THEN CompletedInvalid(turn.output, turn.inf)
      ELSE IF status = "unknown" THEN CompletedInvalid(turn.output, turn.inf)
      ELSE FromLifecycle(status, turn.output, turn.inf)

(* --- the ledger in memory ---------------------------------------------- *)

(* A ledger is a function from the cells recorded so far to their          *)
(* outcomes.                                                               *)
EmptyLedger == [c \in {} |-> NotRun]

MayRecord(ledger, planned, c) == c \in planned \ DOMAIN ledger
Record(ledger, c, o) == [d \in DOMAIN ledger \cup {c} |-> IF d = c THEN o ELSE ledger[d]]
Missing(ledger, planned) == planned \ DOMAIN ledger
Validates(ledger, planned) == Missing(ledger, planned) = {}

CountOf(ledger, P(_)) == Cardinality({c \in DOMAIN ledger : P(ledger[c])})
InferenceCompleted(o) == ~o.dry /\ (o.admitted \/ o.status = "completed_valid" \/ o.inf = "completed")

DiagnosticCounts(ledger, planned) ==
  [planned_n    |-> Cardinality(planned),
   terminal_n   |-> Cardinality(DOMAIN ledger),
   completed_n  |-> CountOf(ledger, InferenceCompleted),
   present_n    |-> CountOf(ledger, LAMBDA o : ~o.dry /\ o.output # Unseen),
   accepted_n   |-> CountOf(ledger, LAMBDA o : ~o.dry /\ o.status = "completed_valid"),
   science_n    |-> CountOf(ledger, LAMBDA o : o.science),
   dry_n        |-> CountOf(ledger, LAMBDA o : o.dry),
   failed_n     |-> CountOf(ledger, LAMBDA o : /\ ~o.dry /\ o.status # "completed_valid"
                                              /\ ~(InferenceCompleted(o) /\ o.admitted))]

(* Every combination of a task, a condition and an episode, once.          *)
BuildManifest(tasks, conditions, episodes) == tasks \X conditions \X episodes
=============================================================================
