--------------------------- MODULE ContinuityGate ---------------------------
(***************************************************************************)
(* The continuity store on disk, the Episode A workers that push candidate *)
(* texts through the gate into it, and the Episode B readers that rebuild  *)
(* the state by replay (continuity_store.py, continuity_gate.py,           *)
(* continuity_replay.py, continuity_live.py).  Workers and readers are     *)
(* processes; nothing locks the store.  A step is what lies between two    *)
(* accesses to the store's directories; a process may die between any two. *)
(***************************************************************************)
EXTENDS ContinuityEvents

CONSTANTS Workers, Readers,
          NoCandidate,     (* what a worker holds between gate calls       *)
          MaxSubmissions   (* bound: Episode A runs in a behaviour         *)

ASSUME GateAssumptions == NoCandidate \notin Candidates

VARIABLES
  hasGenesis, hasUniverse, (* genesis.json, universe.json                 *)
  events,                  (* complete files of events/                   *)
  staged,                  (* *.tmp files of events/                      *)
  receipts,                (* files of receipts/                          *)
  usedIds, submissions,    (* ids drawn so far; Episode A runs so far     *)
  pc, cand, scope, before, result, draft, outcome,   (* workers' locals   *)
  rpc, partials, seen, answer                        (* readers' locals   *)

storeVars  == <<hasGenesis, hasUniverse, events, staged, receipts>>
idVars     == <<usedIds, submissions>>
workerVars == <<pc, cand, scope, before, result, draft, outcome>>
readerVars == <<rpc, partials, seen, answer>>
vars == <<storeVars, idVars, workerVars, readerVars>>

History == Listed(events)

(* Mutant of CurrentState: .tmp files count as history.                    *)
CurrentStateWithPartials == MaterializeState(Listed(events \cup staged))

CurrentState == MaterializeState(History)

WorkerSteps == {"idle", "open", "create", "genesis", "read", "parsed", "valid", "resulted", "staged",
                "committed", "receipted", "visible", "reject", "rejected"}
ReaderSteps == {"idle", "list", "move", "replay"}

(* How a gate call ended for its caller: the receipt it wrote and the one  *)
(* it returned, by id (0: none).                                           *)
Outcome == [status : {"none", "accepted", "rejected", "raised", "killed"},
            wrote : Ids \cup {0}, loaded : Ids \cup {0}]
NoOutcome == [status |-> "none", wrote |-> 0, loaded |-> 0]

TypeOK ==
  /\ hasGenesis \in BOOLEAN /\ hasUniverse \in BOOLEAN
  /\ events \subseteq Event /\ staged \subseteq Event /\ receipts \subseteq Receipt
  /\ usedIds \subseteq Ids /\ submissions \in Nat
  /\ pc \in [Workers -> WorkerSteps]
  /\ cand \in [Workers -> Candidates \cup {NoCandidate}] /\ scope \in [Workers -> Scopes]
  /\ before \in [Workers -> SUBSET Triples] /\ result \in [Workers -> SUBSET Triples]
  /\ draft \in [Workers -> Ids \cup {0}]
  /\ outcome \in [Workers -> Outcome]
  /\ rpc \in [Readers -> ReaderSteps]
  /\ partials \in [Readers -> SUBSET Ids]
  /\ seen \in [Readers -> Seq(SUBSET Triples)]
  /\ answer \in [Readers -> {"none", "ok", "replay_failed", "raised"}]

Init ==
  /\ hasGenesis = FALSE /\ hasUniverse = FALSE
  /\ events = {} /\ staged = {} /\ receipts = {}
  /\ usedIds = {} /\ submissions = 0
  /\ pc = [w \in Workers |-> "idle"]
  /\ cand = [w \in Workers |-> NoCandidate]
  /\ scope \in {[w \in Workers |-> s] : s \in Scopes}
  /\ before = [w \in Workers |-> {}] /\ result = [w \in Workers |-> {}]
  /\ draft = [w \in Workers |-> 0]
  /\ outcome = [w \in Workers |-> NoOutcome]
  /\ rpc = [r \in Readers |-> "idle"]
  /\ partials = [r \in Readers |-> {}]
  /\ seen = [r \in Readers |-> <<>>]
  /\ answer = [r \in Readers |-> "none"]

-----------------------------------------------------------------------------
(* Episode A: run_episode_a_live and process_episode_a_candidate.          *)

Goto(w, from, to) == pc[w] = from /\ pc' = [pc EXCEPT ![w] = to]

(* The call ends; its locals die with it.                                  *)
Finish(w, status, wrote, loaded) ==
  /\ pc' = [pc EXCEPT ![w] = "idle"]
  /\ cand' = [cand EXCEPT ![w] = NoCandidate]
  /\ before' = [before EXCEPT ![w] = {}] /\ result' = [result EXCEPT ![w] = {}]
  /\ draft' = [draft EXCEPT ![w] = 0]
  /\ outcome' = [outcome EXCEPT ![w] =
                   [status |-> status, wrote |-> wrote, loaded |-> loaded]]
  /\ UNCHANGED scope

(* A COMPLETED inference hands a candidate to the gate (any other status   *)
(* never reaches the store).                                               *)
Submit(w, c, s) ==
  /\ submissions < MaxSubmissions
  /\ Goto(w, "idle", "open")
  /\ submissions' = submissions + 1
  /\ cand' = [cand EXCEPT ![w] = c] /\ scope' = [scope EXCEPT ![w] = s]
  /\ outcome' = [outcome EXCEPT ![w] = NoOutcome]
  /\ UNCHANGED <<storeVars, usedIds, before, result, draft, readerVars>>

(* A store is one that has a genesis.json; otherwise it is created ...     *)
OpenStore(w) ==
  /\ Goto(w, "open", IF hasGenesis THEN "read" ELSE "create")
  /\ UNCHANGED <<storeVars, idVars, cand, scope, before, result, draft, outcome, readerVars>>

(* ... by ContinuityStore.create: genesis.json, then universe.json.        *)
CreateGenesis(w) ==
  /\ Goto(w, "create", "genesis")
  /\ hasGenesis' = TRUE
  /\ UNCHANGED <<hasUniverse, events, staged, receipts, idVars, cand, scope, before, result,
                 draft, outcome, readerVars>>

CreateUniverse(w) ==
  /\ Goto(w, "genesis", "read")
  /\ hasUniverse' = TRUE
  /\ UNCHANGED <<hasGenesis, events, staged, receipts, idVars, cand, scope, before, result,
                 draft, outcome, readerVars>>

(* state_hash_before is read; parsing and the duplicate check follow.      *)
ReadState(w) ==
  /\ Goto(w, "read", IF WellFormed(cand[w]) THEN "parsed" ELSE "reject")
  /\ before' = [before EXCEPT ![w] = CurrentState]
  /\ UNCHANGED <<storeVars, idVars, cand, scope, result, draft, outcome, readerVars>>

(* The durable history is read again for the existing atoms.               *)
Validate(w) ==
  /\ hasUniverse
  /\ Goto(w, "parsed", IF ValidBatch(Batch(cand[w]), CurrentState) THEN "valid" ELSE "reject")
  /\ UNCHANGED <<storeVars, idVars, cand, scope, before, result, draft, outcome, readerVars>>

(* load_universe fails on a store whose creation was cut short.            *)
UniverseMissing(w) ==
  /\ pc[w] = "parsed" /\ ~hasUniverse
  /\ Finish(w, "raised", 0, 0)
  /\ UNCHANGED <<storeVars, idVars, readerVars>>

(* The history is read a third time for the resulting state.               *)
ComputeResult(w) ==
  /\ Goto(w, "valid", "resulted")
  /\ result' = [result EXCEPT ![w] = CurrentState \cup Batch(cand[w])]
  /\ UNCHANGED <<storeVars, idVars, cand, scope, before, draft, outcome, readerVars>>

NewEvent(w, id) ==
  [id |-> id, seq |-> NextSequence(History), parent |-> before[w], result |-> result[w],
   atoms |-> Batch(cand[w]), cand |-> cand[w], scope |-> scope[w]]

(* ... and a fourth time for the sequence; make_id; build_event; the event *)
(* file is written under a .tmp name.                                      *)
StageEvent(w) ==
  /\ Goto(w, "resulted", "staged")
  /\ \E id \in Ids \ usedIds :
       /\ usedIds' = usedIds \cup {id}
       /\ draft' = [draft EXCEPT ![w] = id]
       /\ staged' = staged \cup {NewEvent(w, id)}
  /\ UNCHANGED <<hasGenesis, hasUniverse, events, receipts, submissions, cand, scope, before,
                 result, outcome, readerVars>>

(* Mutant of CommitEvent: a vanished .tmp file goes unnoticed.             *)
CommitEventUnchecked(w) ==
  /\ Goto(w, "staged", "committed")
  /\ events' = events \cup {e \in staged : e.id = draft[w]}
  /\ staged' = {e \in staged : e.id # draft[w]}
  /\ UNCHANGED <<hasGenesis, hasUniverse, receipts, idVars, cand, scope, before, result, draft,
                 outcome, readerVars>>

(* Read-back, then os.replace onto the final name.                         *)
CommitEvent(w) ==
  /\ Goto(w, "staged", "committed")
  /\ \E e \in staged : /\ e.id = draft[w]
                       /\ events' = events \cup {e}
                       /\ staged' = staged \ {e}
  /\ UNCHANGED <<hasGenesis, hasUniverse, receipts, idVars, cand, scope, before, result, draft,
                 outcome, readerVars>>

(* A reader moved the .tmp file away: the read-back or the replace raises. *)
StagingLost(w) ==
  /\ pc[w] = "staged" /\ \A e \in staged : e.id # draft[w]
  /\ Finish(w, "raised", 0, 0)
  /\ UNCHANGED <<storeVars, idVars, readerVars>>

(* Mutant of AcceptReceipt: the decision is the file prefix.               *)
AcceptReceiptMislabelled(w) ==
  [id |-> draft[w], decision |-> "accept", event |-> draft[w], cand |-> cand[w],
   parent |-> before[w], result |-> result[w], scope |-> scope[w],
   sci |-> ScientificCompletion(scope[w], TRUE)]

AcceptReceipt(w) ==
  [id |-> draft[w], decision |-> "accepted", event |-> draft[w], cand |-> cand[w],
   parent |-> before[w], result |-> result[w], scope |-> scope[w],
   sci |-> ScientificCompletion(scope[w], TRUE)]

WriteReceipt(w) ==
  /\ Goto(w, "committed", "receipted")
  /\ receipts' = receipts \cup {AcceptReceipt(w)}
  /\ UNCHANGED <<hasGenesis, hasUniverse, events, staged, idVars, cand, scope, before, result,
                 draft, outcome, readerVars>>

(* Mutant of IsLast: the file's existence is taken for its visibility.     *)
IsOnDisk(id) == \E e \in events : e.id = id

IsLast(id) == \E e \in History : e.id = id /\ \A f \in History : f = e \/ Precedes(f, e)

(* append_event_and_receipt lists the events again and wants its own last. *)
CheckVisible(w) ==
  /\ IsLast(draft[w])
  /\ Goto(w, "receipted", "visible")
  /\ UNCHANGED <<storeVars, idVars, cand, scope, before, result, draft, outcome, readerVars>>

NotVisible(w) ==
  /\ pc[w] = "receipted" /\ ~IsLast(draft[w])
  /\ Finish(w, "raised", draft[w], 0)
  /\ UNCHANGED <<storeVars, idVars, readerVars>>

(* _load_persisted_receipt with the event id.                              *)
ReturnAccepted(w) ==
  /\ pc[w] = "visible"
  /\ \E r \in receipts :
       /\ IsFirstReceipt(r, {q \in receipts : q.cand = cand[w] /\ q.event = draft[w]})
       /\ Finish(w, "accepted", draft[w], r.id)
  /\ UNCHANGED <<storeVars, idVars, readerVars>>

RejectReceipt(w, id) ==
  [id |-> id, decision |-> "rejected", event |-> 0, cand |-> cand[w],
   parent |-> before[w], result |-> before[w], scope |-> scope[w],
   sci |-> ScientificCompletion(scope[w], FALSE)]

WriteRejection(w) ==
  /\ Goto(w, "reject", "rejected")
  /\ \E id \in Ids \ usedIds :
       /\ usedIds' = usedIds \cup {id}
       /\ draft' = [draft EXCEPT ![w] = id]
       /\ receipts' = receipts \cup {RejectReceipt(w, id)}
  /\ UNCHANGED <<hasGenesis, hasUniverse, events, staged, submissions, cand, scope, before,
                 result, outcome, readerVars>>

(* _load_persisted_receipt without an event id: the first receipt of this  *)
(* candidate, whatever its decision.                                       *)
ReturnRejected(w) ==
  /\ pc[w] = "rejected"
  /\ \E r \in receipts :
       /\ IsFirstReceipt(r, {q \in receipts : q.cand = cand[w]})
       /\ Finish(w, "rejected", draft[w], r.id)
  /\ UNCHANGED <<storeVars, idVars, readerVars>>

(* A write fails (disk full, permission): _atomic_write_bytes unlinks its  *)
(* own .tmp file and the OSError leaves the gate.                          *)
WriteFails(w) ==
  /\ pc[w] \in {"create", "genesis", "staged", "committed", "reject"}
  /\ staged' = IF pc[w] = "staged" THEN {e \in staged : e.id # draft[w]} ELSE staged
  /\ Finish(w, "raised", 0, 0)
  /\ UNCHANGED <<hasGenesis, hasUniverse, events, receipts, idVars, readerVars>>

(* The process dies: whatever it has staged stays behind.                  *)
Kill(w) ==
  /\ pc[w] # "idle"
  /\ Finish(w, "killed", 0, 0)
  /\ UNCHANGED <<storeVars, idVars, readerVars>>

-----------------------------------------------------------------------------
(* Episode B: run_episode_b_live opens the store and replays it three      *)
(* times (for its own state hash, for the packet's, for the relations).    *)

ReaderGoto(r, from, to) == rpc[r] = from /\ rpc' = [rpc EXCEPT ![r] = to]

Answer(r, a) ==
  /\ rpc' = [rpc EXCEPT ![r] = "idle"]
  /\ partials' = [partials EXCEPT ![r] = {}]
  /\ answer' = [answer EXCEPT ![r] = a]

OpenForReplay(r) ==
  /\ hasGenesis
  /\ ReaderGoto(r, "idle", "list")
  /\ seen' = [seen EXCEPT ![r] = <<>>]
  /\ answer' = [answer EXCEPT ![r] = "none"]
  /\ UNCHANGED <<storeVars, idVars, workerVars, partials>>

(* ContinuityStore.open without a genesis.json.                            *)
NoStore(r) ==
  /\ rpc[r] = "idle" /\ ~hasGenesis
  /\ Answer(r, "raised")
  /\ seen' = [seen EXCEPT ![r] = <<>>]
  /\ UNCHANGED <<storeVars, idVars, workerVars>>

(* quarantine_partials lists the directory once ...                        *)
ListPartials(r) ==
  /\ ReaderGoto(r, "list", "move")
  /\ partials' = [partials EXCEPT ![r] = {e.id : e \in staged}]
  /\ UNCHANGED <<storeVars, idVars, workerVars, seen, answer>>

(* ... and moves the .tmp files of that listing one by one;                *)
MovePartial(r) ==
  /\ rpc[r] = "move"
  /\ \E e \in staged : /\ e.id \in partials[r]
                       /\ staged' = staged \ {e}
                       /\ partials' = [partials EXCEPT ![r] = @ \ {e.id}]
  /\ UNCHANGED <<hasGenesis, hasUniverse, events, receipts, idVars, workerVars, rpc, seen, answer>>

(* Mutant of PartialGone: the vanished file is tried again.                *)
PartialGoneRetried(r) ==
  /\ rpc[r] = "move"
  /\ \E id \in partials[r] : \A e \in staged : e.id # id
  /\ UNCHANGED vars

(* one that its writer has meanwhile renamed or removed raises.            *)
PartialGone(r) ==
  /\ rpc[r] = "move"
  /\ \E id \in partials[r] : \A e \in staged : e.id # id
  /\ Answer(r, "raised")
  /\ UNCHANGED <<storeVars, idVars, workerVars, seen>>

PartialsMoved(r) ==
  /\ partials[r] = {}
  /\ ReaderGoto(r, "move", "replay")
  /\ UNCHANGED <<storeVars, idVars, workerVars, partials, seen, answer>>

ReplayOk(r) ==
  /\ rpc[r] = "replay" /\ Replays(History)
  /\ seen' = [seen EXCEPT ![r] = Append(@, CurrentState)]
  /\ IF Len(seen[r]) = 2
       THEN Answer(r, "ok")
       ELSE /\ rpc' = [rpc EXCEPT ![r] = "list"]
            /\ UNCHANGED <<partials, answer>>
  /\ UNCHANGED <<storeVars, idVars, workerVars>>

(* Only the first replay's ReplayError is turned into a result.            *)
ReplayFails(r) ==
  /\ rpc[r] = "replay" /\ ~Replays(History)
  /\ Answer(r, IF seen[r] = <<>> THEN "replay_failed" ELSE "raised")
  /\ UNCHANGED <<storeVars, idVars, workerVars, seen>>

-----------------------------------------------------------------------------
GateStep(w) ==
  \/ OpenStore(w) \/ CreateGenesis(w) \/ CreateUniverse(w)
  \/ ReadState(w) \/ Validate(w) \/ UniverseMissing(w)
  \/ ComputeResult(w) \/ StageEvent(w) \/ CommitEvent(w) \/ StagingLost(w)
  \/ WriteReceipt(w) \/ CheckVisible(w) \/ NotVisible(w) \/ ReturnAccepted(w)
  \/ WriteRejection(w) \/ ReturnRejected(w)

ReplayStep(r) ==
  \/ ListPartials(r) \/ MovePartial(r) \/ PartialGone(r) \/ PartialsMoved(r)
  \/ ReplayOk(r) \/ ReplayFails(r)

Next ==
  \/ \E w \in Workers : \E c \in Candidates, s \in Scopes : Submit(w, c, s)
  \/ \E w \in Workers : GateStep(w)
  \/ \E w \in Workers : WriteFails(w)
  \/ \E w \in Workers : Kill(w)
  \/ \E r \in Readers : OpenForReplay(r) \/ NoStore(r)
  \/ \E r \in Readers : ReplayStep(r)

Spec == Init /\ [][Next]_vars

(* A process that has work to do is scheduled; submissions, failures and   *)
(* kills are the environment's and are not fair.                           *)
Fairness ==
  /\ \A w \in Workers : WF_vars(GateStep(w))
  /\ \A r \in Readers : WF_vars(ReplayStep(r))

FairSpec == Spec /\ Fairness

-----------------------------------------------------------------------------
(* Properties.                                                             *)

(* The listed history is one hash chain: replaying it raises no            *)
(* ReplayError, whatever was killed, failed or quarantined on the way.     *)
HistoryReplays == Replays(History)

(* No relation is accepted twice, and none of the seed again.              *)
AcceptedOnce ==
  \A e \in History : /\ e.atoms \cap SeedRelations = {}
                      /\ \A f \in History : e = f \/ e.atoms \cap f.atoms = {}

(* Workers racing on one store may fork the chain; replay then refuses it. *)
(* What replay does accept never holds a relation twice.                   *)
ReplayedOnce == HistoryReplays => AcceptedOnce

(* A receipt that says accepted names an event file that exists and agrees *)
(* with it on every bound field, so no receipt can claim a scientific      *)
(* completion its event does not carry.                                    *)
ReceiptHasEvent ==
  \A r \in receipts : r.decision = "accepted" => \E e \in events : PairAgrees(e, r)

(* A caller told ACCEPTED finds its event in the listing, at once and from *)
(* then on.                                                                *)
AcceptedIsListed ==
  \A w \in Workers : outcome[w].status = "accepted" =>
                        \E e \in History : e.id = outcome[w].wrote

(* The packet an Episode B run answers with, and the hashes beside it, are *)
(* states some prefix of the history reached, oldest first: a batch is     *)
(* seen whole or not at all, and what one replay saw the next still sees.  *)
ReplaySeesPrefixes ==
  \A r \in Readers :
    /\ \A i \in DOMAIN seen[r] :
         seen[r][i] = SeedRelations \/ \E e \in History : seen[r][i] = e.result
    /\ \A i, j \in DOMAIN seen[r] : i < j => seen[r][i] \subseteq seen[r][j]

(* A history replay has refused stays refused: nothing appended later can  *)
(* make a forked chain look whole again.                                   *)
RefusalIsFinal == [][~HistoryReplays => ~HistoryReplays']_vars

(* Every gate call comes to an end for its caller, and every Episode B run *)
(* too, as long as the processes are scheduled.                            *)
CallsSettle ==
  /\ \A w \in Workers : (pc[w] # "idle") ~> (pc[w] = "idle")
  /\ \A r \in Readers : (rpc[r] # "idle") ~> (rpc[r] = "idle")

(* process_episode_a_candidate, "ACCEPTED: exactly one continuity event +  *)
(* one terminal receipt": outside the call that is writing the pair, no    *)
(* event is without its receipt.                                           *)
EventHasReceipt ==
  \A e \in events : \/ \E r \in receipts : r.event = e.id
                     \/ \E w \in Workers : pc[w] = "committed" /\ draft[w] = e.id

(* process_episode_a_candidate, "returned receipt is the same object that  *)
(* was persisted".                                                         *)
ReturnedIsPersisted ==
  \A w \in Workers : outcome[w].status \in {"accepted", "rejected"} =>
                        outcome[w].loaded = outcome[w].wrote

(* One worker at a time: the store is the abstract log of whole, new and   *)
(* admissible candidates.                                                  *)
Log == INSTANCE ContinuityLog WITH
         Seed       <- SeedRelations,
         Contents   <- [c \in Candidates |-> Batch(c)],
         Admissible <- {t \in Triples : InUniverse(t) /\ t \notin ForbiddenAssertions},
         relations  <- CurrentState,
         accepted   <- {e.cand : e \in History}

LogSpec == Log!Spec
=============================================================================
