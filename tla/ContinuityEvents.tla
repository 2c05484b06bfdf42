-------------------------- MODULE ContinuityEvents --------------------------
(***************************************************************************)
(* The continuity history of conditioned_kernel and the functions the      *)
(* store, the gate and the replayer compute from it                        *)
(* (continuity_events.py, continuity_replay.py, the pure half of           *)
(* continuity_gate.py).                                                    *)
(*                                                                         *)
(* A relation atom is a triple <<subject, relation, object>>.  The         *)
(* canonical state is its sorted, duplicate-free list of atoms; sorting    *)
(* makes it a set, and the SHA-256 of its canonical JSON identifies it, so *)
(* a state and its hash are both modelled by the set of triples.           *)
(***************************************************************************)
EXTENDS Naturals, Sequences, FiniteSets, Functions, FiniteSetsExt

CONSTANTS
  Candidates,          (* candidate texts a model may return              *)
  AssertionsOf,        (* the assertion list each one parses to; the      *)
                       (* empty list when it fails to parse               *)
  Triples,             (* every triple named by a candidate or the seed   *)
  Scopes,              (* execution scopes the caller may resolve to      *)
  SeedRelations,       (* genesis.seed_relations                          *)
  SubjectIds, ObjectIds, UniverseRelations, AllowedRelations,
  ValidCombinations, ForbiddenAssertions,     (* the task's universe       *)
  Ids,                 (* identifiers make_id can draw, in name order     *)
  MaxListed            (* largest sequence the six-digit name can hold    *)

ASSUME ContinuityAssumptions ==
  /\ AssertionsOf \in [Candidates -> Seq(Triples)]
  /\ SeedRelations \subseteq Triples
  /\ Ids \subseteq Nat \ {0}
  /\ MaxListed \in Nat

Scientific == "scientific_experiment"

(* One file of events/.  id and seq form its name; parent and result stand *)
(* for parent_state_hash and resulting_state_hash.                         *)
Event == [id : Ids, seq : Nat, parent : SUBSET Triples, result : SUBSET Triples,
          atoms : SUBSET Triples, cand : Candidates, scope : Scopes]

(* One file of receipts/.  An accepted receipt is named after its event, a *)
(* rejection after its own receipt id.  event is 0 for a rejection.        *)
Receipt == [id : Ids, decision : {"accepted", "rejected"}, event : Ids \cup {0},
            cand : Candidates, parent : SUBSET Triples, result : SUBSET Triples,
            scope : Scopes, sci : BOOLEAN]

-----------------------------------------------------------------------------
(* Candidate checks of the gate.                                           *)

Batch(c) == Range(AssertionsOf[c])

(* parse_continuity_candidate returned assertions, and                     *)
(* detect_intra_candidate_duplicates found no repeated triple.             *)
WellFormed(c) == AssertionsOf[c] # <<>> /\ IsInjective(AssertionsOf[c])

KnownRelations ==
  LET both == UniverseRelations \cap AllowedRelations
  IN  IF both = {} THEN AllowedRelations ELSE both

InUniverse(t) ==
  /\ t[1] \in SubjectIds
  /\ t[3] \in ObjectIds
  /\ t[2] \in KnownRelations
  /\ ValidCombinations # {} => t \in ValidCombinations

(* Mutants of ValidBatch: the durable history, or the forbidden list, is   *)
(* not consulted.                                                          *)
ValidBatchForgetsHistory(batch, existing) ==
  \A t \in batch : InUniverse(t) /\ t \notin ForbiddenAssertions
ValidBatchForgetsForbidden(batch, existing) ==
  \A t \in batch : InUniverse(t) /\ t \notin existing

(* validate_assertions returns no reason code: all-or-nothing.             *)
ValidBatch(batch, existing) ==
  \A t \in batch : InUniverse(t) /\ t \notin ForbiddenAssertions /\ t \notin existing

ScientificCompletion(scope, accepted) == accepted /\ scope = Scientific

(* verify_event_receipt_pair.                                              *)
PairAgrees(e, r) ==
  /\ r.cand = e.cand /\ r.event = e.id /\ r.scope = e.scope
  /\ r.parent = e.parent /\ r.result = e.result
  /\ r.sci => r.scope = Scientific

-----------------------------------------------------------------------------
(* Histories.                                                              *)

(* list_events only lists names with a six-digit sequence ...              *)
Listed(evs) == {e \in evs : e.seq <= MaxListed}

(* Mutant of Precedes: the file name does not break ties.                  *)
PrecedesBySequenceOnly(e, f) == e.seq < f.seq

(* ... and returns them by sequence, then by file name.                    *)
Precedes(e, f) == e.seq < f.seq \/ (e.seq = f.seq /\ e.id < f.id)

MaterializeState(evs) == SeedRelations \cup UNION {e.atoms : e \in evs}

(* Mutant of NextSequence: the increment is missing.                       *)
NextSequenceOffByOne(evs) ==
  IF evs = {} THEN 1 ELSE Max({e.seq : e \in evs})

NextSequence(evs) ==
  IF evs = {} THEN 1 ELSE Max({e.seq : e \in evs}) + 1

StateBefore(evs, e) == MaterializeState({f \in evs : Precedes(f, e)})

(* Mutant of ReplayAccepts: only the tip of the chain is verified.         *)
ReplayAcceptsTip(evs, e) ==
  \/ \E f \in evs : Precedes(e, f)
  \/ e.parent = StateBefore(evs, e) /\ e.result = StateBefore(evs, e) \cup e.atoms

(* replay_events on the listing raises no ReplayError.  The loop compares  *)
(* each parent with the hash of the prefix applied so far, re-validates    *)
(* the batch (without the forbidden list) and recomputes the claimed       *)
(* result.                                                                 *)
ReplayAccepts(evs, e) ==
  /\ \A f \in evs : f.id = e.id => f = e
  /\ e.parent = StateBefore(evs, e)
  /\ e.atoms # {} /\ \A t \in e.atoms : InUniverse(t)
  /\ e.result = StateBefore(evs, e) \cup e.atoms

Replays(evs) == \A e \in evs : ReplayAccepts(evs, e)

(* terminal_receipts returns receipts in file-name order: "cevt_..." names *)
(* of accepted receipts sort before "reject_..." names.                    *)
NamedBefore(r, q) ==
  \/ r.decision = "accepted" /\ q.decision = "rejected"
  \/ r.decision = q.decision /\ r.id < q.id

IsFirstReceipt(r, recs) == r \in recs /\ \A q \in recs : r = q \/ NamedBefore(r, q)
=============================================================================
