---------------------------- MODULE GovernedCell ----------------------------
(***************************************************************************)
(* What becomes of one planned cell of a governed run once its request is  *)
(* sent: the inference client classifies the reply, the scoring adapter    *)
(* parses and scores it, the evidence receipts are verified, and the M0    *)
(* session turns it all into one terminal record.                          *)
(*                                                                         *)
(* A reply is [transport, shape, thinking, text]: how the request ended,   *)
(* whether a text can be taken from the answer, whether reasoning came     *)
(* with it, and what the text is.                                          *)
(***************************************************************************)
EXTENDS Integers, Sequences, FiniteSets

Texts == {"blank", "prose", "broken", "not an object", "no key", "not a list",
          "empty list", "bad item", "assertions"}
Replies == [transport : {"timeout", "refused", "answered"}, shape : {"read", "unreadable"},
            thinking : BOOLEAN, text : Texts]

(* --- OllamaClient.run -------------------------------------------------- *)

(* A timeout that the client wrapped is still told by its message.         *)
RunStatus(r) ==
  IF r.transport = "timeout" THEN "timeout"
  ELSE IF r.transport = "refused" THEN "transport_error"
  ELSE IF r.shape = "unreadable" THEN "invalid_response"
  ELSE IF r.text = "blank" /\ r.thinking THEN "no_final_response"
  ELSE "completed"

(* --- the scoring adapter ----------------------------------------------- *)

ParseKind(status, text) ==
  IF status = "timeout" THEN "INFERENCE_TIMEOUT"
  ELSE IF status = "transport_error" THEN "INFERENCE_TRANSPORT"
  ELSE IF status = "invalid_response" THEN "INFERENCE_INVALID"
  ELSE IF status = "no_final_response" THEN "INFERENCE_NO_FINAL"
  ELSE IF text = "blank" THEN "EMPTY_FINAL_RESPONSE"
  ELSE IF text = "prose" THEN "PROSE_ONLY"
  ELSE IF text \in {"broken", "bad item"} THEN "MALFORMED_JSON"
  ELSE IF text \in {"not an object", "no key", "not a list"} THEN "WRONG_SCHEMA_KEY"
  ELSE IF text = "empty list" THEN "EMPTY_ASSERTION_LIST"
  ELSE "STRUCTURED_ASSERTIONS"

Scorable == {"STRUCTURED_ASSERTIONS", "EMPTY_ASSERTION_LIST"}
Malformed == {"MALFORMED_JSON", "WRONG_SCHEMA_KEY", "PROSE_ONLY"}

ParseToClass(kind) ==
  CASE kind \in Scorable             -> "SCORED"
    [] kind \in Malformed            -> "MALFORMED_ASSERTIONS"
    [] kind = "INFERENCE_TIMEOUT"    -> "TIMEOUT"
    [] kind = "INFERENCE_TRANSPORT"  -> "TRANSPORT_ERROR"
    [] kind = "INFERENCE_INVALID"    -> "INVALID_RESPONSE"
    [] OTHER                         -> "NO_FINAL_RESPONSE"

(* A score is bound to the expected relations the plan froze; goldHolds    *)
(* says the scorer saw the same.  No score is not a score of zero.         *)
ScoreUnbound(kind, goldHolds) ==
  [class |-> ParseToClass(kind), record |-> ParseToClass(kind) = "SCORED"]

Score(kind, goldHolds) ==
  CASE ParseToClass(kind) = "SCORED" /\ goldHolds  -> [class |-> "SCORED", record |-> TRUE]
    [] ParseToClass(kind) = "SCORED" /\ ~goldHolds -> [class |-> "TASK_CONTRACT_ERROR", record |-> FALSE]
    [] OTHER -> [class |-> ParseToClass(kind), record |-> FALSE]

(* --- evidence receipts ------------------------------------------------- *)

PacketReceipt(cell) == [cell |-> cell, verdict |-> "PASS", sealed |-> TRUE]

ControlReceipt(cell, pairHolds) ==
  [cell |-> cell, verdict |-> IF pairHolds THEN "PASS" ELSE "FAIL", sealed |-> TRUE]

(* Schema, cell, task, condition, hash and labels, then the verdict.       *)
VerifyPacketReceipt(receipt, cell) ==
  receipt.cell = cell /\ receipt.sealed /\ receipt.verdict = "PASS"

VerifyControlReceipt(receipt, cell) ==
  receipt.cell = cell /\ receipt.sealed /\ receipt.verdict = "PASS"

(* --- runtime provenance ------------------------------------------------ *)

RequiredProvenance == {"model", "digest", "version", "host", "requested", "confirmed",
                       "request hash", "response hash", "started", "ended", "process"}

(* Ollama confirms no options: what it was asked for is never complete.    *)
BuildProvenance(digest) ==
  RequiredProvenance \ ({"confirmed"} \cup (IF digest THEN {} ELSE {"digest"}))

ProvenanceMissing(fields) ==
  (RequiredProvenance \ fields)
  \cup (IF "requested" \in fields /\ "confirmed" \notin fields THEN {"RUNTIME_PROVENANCE_FAILURE"} ELSE {})

(* --- M0LedgerSession.terminalize --------------------------------------- *)

(* Packet evidence decides before control evidence, both before the score. *)
Classified(scored, packet, control, cell) ==
  IF ~VerifyPacketReceipt(packet, cell) THEN "PACKET_CONTRACT_FAILED"
  ELSE IF ~VerifyControlReceipt(control, cell) THEN "CONTROL_CONTRACT_FAILED"
  ELSE scored.class

(* claimed: what the caller says of its provenance, or "derive".           *)
ProvenanceHolds(claimed, fields) ==
  IF claimed = "derive" THEN ProvenanceMissing(fields) = {} ELSE claimed = "complete"

FinalClass(class, claimed, fields) ==
  IF class # "SCORED" \/ ProvenanceHolds(claimed, fields) THEN class
  ELSE IF claimed = "derive" /\ "RUNTIME_PROVENANCE_FAILURE" \in ProvenanceMissing(fields)
  THEN "RUNTIME_PROVENANCE_FAILURE"
  ELSE "PROVENANCE_INCOMPLETE"

Terminalize(scored, packet, control, cell, claimed, fields) ==
  LET class == FinalClass(Classified(scored, packet, control, cell), claimed, fields)
  IN  [cell |-> cell, class |-> class, scored |-> class = "SCORED" /\ scored.record,
       missing |-> ProvenanceMissing(fields)]
=============================================================================
