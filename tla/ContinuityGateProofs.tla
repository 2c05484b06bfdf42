------------------------ MODULE ContinuityGateProofs ------------------------
(***************************************************************************)
(* Proofs about ContinuityGate for every set of workers, readers,          *)
(* candidates and identifiers and every universe: types, what the store's  *)
(* files say about each other with any number of workers, and that the     *)
(* history replays and refines ContinuityLog with one.                     *)
(***************************************************************************)
EXTENDS ContinuityGate, WellFoundedInduction, TLAPS

-----------------------------------------------------------------------------
(* Operators of ContinuityEvents.                                          *)

(* A finite history has a last sequence; stated without finiteness, it is  *)
(* inductive.                                                              *)
HasTop(evs) == evs = {} \/ \E m \in evs : \A e \in evs : e.seq <= m.seq

LEMMA NextSequenceFollows ==
  ASSUME NEW evs \in SUBSET Event, HasTop(evs)
  PROVE  /\ NextSequence(evs) \in Nat
         /\ \A e \in evs : e.seq < NextSequence(evs)
<1>1. CASE evs = {}
  BY <1>1 DEF NextSequence
<1>2. CASE evs # {}
  <2> DEFINE S == {e.seq : e \in evs}
  <2>1. \A n \in S : n \in Nat
    BY DEF Event
  <2>2. \E x \in S : \A y \in S : x >= y
    <3>1. PICK m \in evs : \A e \in evs : e.seq <= m.seq
      BY <1>2 DEF HasTop
    <3>2. m.seq \in S /\ \A y \in S : m.seq >= y
      BY <3>1, <2>1
    <3> QED BY <3>2
  <2>3. Max(S) \in S /\ \A y \in S : Max(S) >= y
    BY <2>2 DEF Max
  <2>4. NextSequence(evs) = Max(S) + 1
    BY <1>2 DEF NextSequence
  <2>5. \A e \in evs : e.seq \in S
    OBVIOUS
  <2> HIDE DEF S
  <2> QED BY <2>1, <2>3, <2>4, <2>5
<1> QED BY <1>1, <1>2

LEMMA HasTopInsert ==
  ASSUME NEW A, HasTop(A), \A f \in A : f.seq \in Nat, NEW e, e.seq \in Nat
  PROVE  HasTop(A \cup {e})
<1>1. CASE A = {}
  <2>1. \A f \in A \cup {e} : f.seq <= e.seq
    BY <1>1
  <2> QED BY <2>1 DEF HasTop
<1>2. CASE A # {}
  <2>1. PICK m \in A : \A f \in A : f.seq <= m.seq
    BY <1>2 DEF HasTop
  <2>2. CASE e.seq <= m.seq
    <3>1. \A f \in A \cup {e} : f.seq <= m.seq
      BY <2>1, <2>2
    <3> QED BY <3>1 DEF HasTop
  <2>3. CASE m.seq < e.seq
    <3>1. \A f \in A \cup {e} : f.seq <= e.seq
      BY <2>1, <2>3
    <3> QED BY <3>1 DEF HasTop
  <2> QED BY <2>2, <2>3
<1> QED BY <1>1, <1>2

LEMMA ListedAdd ==
  ASSUME NEW evs \in SUBSET Event, NEW e \in Event
  PROVE  Listed(evs \cup {e}) = IF e.seq <= MaxListed THEN Listed(evs) \cup {e} ELSE Listed(evs)
BY DEF Listed

LEMMA HasTopAdd ==
  ASSUME NEW evs \in SUBSET Event, HasTop(Listed(evs)), NEW e \in Event
  PROVE  HasTop(Listed(evs \cup {e}))
<1>1. (\A f \in Listed(evs) : f.seq \in Nat) /\ e.seq \in Nat
  BY DEF Listed, Event
<1>2. HasTop(Listed(evs) \cup {e})
  BY <1>1, HasTopInsert
<1>3. Listed(evs \cup {e}) \in {Listed(evs), Listed(evs) \cup {e}}
  BY ListedAdd
<1> QED BY <1>2, <1>3

LEMMA BatchType ==
  ASSUME NEW c \in Candidates
  PROVE  Batch(c) \subseteq Triples
BY ContinuityAssumptions DEF Batch, Range

-----------------------------------------------------------------------------
(* Types.                                                                  *)

Busy == {"staged", "committed", "receipted", "visible", "rejected"}

(* What TypeOK needs to be inductive: a call in progress has a candidate,  *)
(* one that has drawn an id holds it, and the listing has a last sequence. *)
TypeInv ==
  /\ TypeOK
  /\ \A w \in Workers : pc[w] # "idle" => cand[w] \in Candidates
  /\ \A w \in Workers : pc[w] \in Busy => draft[w] \in Ids
  /\ HasTop(History)

LEMMA TypeInvInit == Init => TypeInv
<1> SUFFICES ASSUME Init PROVE TypeInv
  OBVIOUS
<1>1. <<>> \in Seq(SUBSET Triples)
  OBVIOUS
<1>2. NoOutcome \in Outcome
  BY DEF NoOutcome, Outcome
<1>3. TypeOK
  BY <1>1, <1>2 DEF Init, TypeOK, WorkerSteps, ReaderSteps
<1>4. HasTop(History)
  BY DEF Init, HasTop, History, Listed
<1> QED BY <1>3, <1>4 DEF Init, TypeInv, Busy

LEMMA FinishType ==
  ASSUME TypeInv, NEW w \in Workers,
         NEW s \in {"none", "accepted", "rejected", "raised", "killed"},
         NEW x \in Ids \cup {0}, NEW y \in Ids \cup {0}, Finish(w, s, x, y)
  PROVE  /\ pc' \in [Workers -> WorkerSteps]
         /\ cand' \in [Workers -> Candidates \cup {NoCandidate}]
         /\ scope' \in [Workers -> Scopes]
         /\ before' \in [Workers -> SUBSET Triples] /\ result' \in [Workers -> SUBSET Triples]
         /\ draft' \in [Workers -> Ids \cup {0}]
         /\ outcome' \in [Workers -> Outcome]
         /\ \A v \in Workers : pc'[v] # "idle" => cand'[v] \in Candidates
         /\ \A v \in Workers : pc'[v] \in Busy => draft'[v] \in Ids
<1>1. [status |-> s, wrote |-> x, loaded |-> y] \in Outcome
  BY DEF Outcome
<1> QED BY <1>1 DEF Finish, TypeInv, TypeOK, WorkerSteps, Busy

LEMMA SubmitType ==
  ASSUME TypeInv, NEW w \in Workers, NEW c \in Candidates, NEW s \in Scopes, Submit(w, c, s)
  PROVE  TypeInv'
<1>1. NoOutcome \in Outcome
  BY DEF NoOutcome, Outcome
<1>2. TypeOK'
  BY <1>1 DEF TypeInv, TypeOK, Submit, Goto, WorkerSteps, storeVars, readerVars
<1> QED
  BY <1>2 DEF TypeInv, TypeOK, Submit, Goto, Busy, storeVars, readerVars, History, Listed

(* Steps that only move a worker's program counter.                        *)
LEMMA MoveType ==
  ASSUME TypeInv, NEW w \in Workers, NEW to \in WorkerSteps \ Busy,
         pc[w] # "idle", pc' = [pc EXCEPT ![w] = to],
         UNCHANGED <<events, staged, receipts, idVars, cand, scope, before, result, draft,
                     outcome, readerVars>>,
         hasGenesis' \in BOOLEAN, hasUniverse' \in BOOLEAN
  PROVE  TypeInv'
BY DEF TypeInv, TypeOK, WorkerSteps, Busy, idVars, readerVars, History, Listed

LEMMA CurrentStateType ==
  ASSUME TypeInv
  PROVE  CurrentState \subseteq Triples
<1>1. \A e \in History : e.atoms \subseteq Triples
  BY DEF TypeInv, TypeOK, History, Listed, Event
<1> QED
  BY <1>1, ContinuityAssumptions DEF CurrentState, MaterializeState

LEMMA NewEventType ==
  ASSUME TypeInv, NEW w \in Workers, pc[w] = "resulted", NEW id \in Ids
  PROVE  NewEvent(w, id) \in Event
<1>1. cand[w] \in Candidates
  BY DEF TypeInv
<1>2. History \in SUBSET Event
  BY DEF TypeInv, TypeOK, History, Listed
<1>3. NextSequence(History) \in Nat
  BY <1>2, NextSequenceFollows DEF TypeInv
<1>4. Batch(cand[w]) \in SUBSET Triples
  BY <1>1, BatchType
<1> QED
  BY <1>1, <1>3, <1>4 DEF TypeInv, TypeOK, NewEvent, Event

LEMMA AcceptReceiptType ==
  ASSUME TypeInv, NEW w \in Workers, pc[w] = "committed"
  PROVE  AcceptReceipt(w) \in Receipt
BY DEF TypeInv, TypeOK, Busy, AcceptReceipt, Receipt, ScientificCompletion

LEMMA RejectReceiptType ==
  ASSUME TypeInv, NEW w \in Workers, pc[w] = "reject", NEW id \in Ids
  PROVE  RejectReceipt(w, id) \in Receipt
BY DEF TypeInv, TypeOK, RejectReceipt, Receipt, ScientificCompletion

(* Calls that end leave the types alone, whatever else they keep.          *)
LEMMA FinishKeepsType ==
  ASSUME TypeInv, NEW w \in Workers,
         NEW s \in {"none", "accepted", "rejected", "raised", "killed"},
         NEW x \in Ids \cup {0}, NEW y \in Ids \cup {0}, Finish(w, s, x, y),
         UNCHANGED <<hasGenesis, hasUniverse, events, receipts, idVars, readerVars>>,
         staged' \subseteq staged
  PROVE  TypeInv'
<1>1. TypeOK'
  BY FinishType DEF TypeInv, TypeOK, idVars, readerVars
<1>2. HasTop(History)'
  BY DEF TypeInv, History, Listed
<1> QED
  BY <1>1, <1>2, FinishType DEF TypeInv

LEMMA GateType ==
  ASSUME TypeInv, NEW w \in Workers, GateStep(w)
  PROVE  TypeInv'
<1> USE DEF storeVars, idVars, readerVars
<1>1. CASE OpenStore(w)
  BY <1>1, MoveType DEF OpenStore, Goto, TypeInv, TypeOK, WorkerSteps, Busy
<1>2. CASE CreateGenesis(w)
  BY <1>2, MoveType DEF CreateGenesis, Goto, TypeInv, TypeOK, WorkerSteps, Busy
<1>3. CASE CreateUniverse(w)
  BY <1>3, MoveType DEF CreateUniverse, Goto, TypeInv, TypeOK, WorkerSteps, Busy
<1>4. CASE ReadState(w)
  BY <1>4, CurrentStateType DEF ReadState, Goto, TypeInv, TypeOK, WorkerSteps, Busy, History, Listed
<1>5. CASE Validate(w)
  BY <1>5, MoveType DEF Validate, Goto, TypeInv, TypeOK, WorkerSteps, Busy
<1>6. CASE UniverseMissing(w)
  BY <1>6, FinishKeepsType DEF UniverseMissing
<1>7. CASE ComputeResult(w)
  <2>1. CurrentState \cup Batch(cand[w]) \in SUBSET Triples
    BY <1>7, CurrentStateType, BatchType DEF ComputeResult, Goto, TypeInv
  <2> QED
    BY <1>7, <2>1 DEF ComputeResult, Goto, TypeInv, TypeOK, WorkerSteps, Busy, History, Listed
<1>8. CASE StageEvent(w)
  <2>1. PICK id \in Ids \ usedIds : /\ usedIds' = usedIds \cup {id}
                                    /\ draft' = [draft EXCEPT ![w] = id]
                                    /\ staged' = staged \cup {NewEvent(w, id)}
    BY <1>8 DEF StageEvent
  <2>2. NewEvent(w, id) \in Event
    BY <1>8, NewEventType DEF StageEvent, Goto
  <2>3. TypeOK'
    BY <1>8, <2>1, <2>2 DEF StageEvent, Goto, TypeInv, TypeOK, WorkerSteps
  <2> QED
    BY <1>8, <2>1, <2>3 DEF StageEvent, Goto, TypeInv, TypeOK, Busy, History, Listed
<1>9. CASE CommitEvent(w)
  <2>1. PICK e \in staged : e.id = draft[w] /\ events' = events \cup {e} /\ staged' = staged \ {e}
    BY <1>9 DEF CommitEvent
  <2>2. HasTop(History)'
    BY <2>1, HasTopAdd DEF TypeInv, TypeOK, History
  <2>3. TypeOK'
    BY <1>9, <2>1 DEF CommitEvent, Goto, TypeInv, TypeOK, WorkerSteps
  <2> QED
    BY <1>9, <2>2, <2>3 DEF CommitEvent, Goto, TypeInv, TypeOK, Busy
<1>10. CASE StagingLost(w)
  BY <1>10, FinishKeepsType DEF StagingLost
<1>11. CASE WriteReceipt(w)
  <2>1. AcceptReceipt(w) \in Receipt
    BY <1>11, AcceptReceiptType DEF WriteReceipt, Goto
  <2> QED
    BY <1>11, <2>1 DEF WriteReceipt, Goto, TypeInv, TypeOK, WorkerSteps, Busy, History, Listed
<1>12. CASE CheckVisible(w)
  BY <1>12 DEF CheckVisible, Goto, TypeInv, TypeOK, WorkerSteps, Busy, History, Listed
<1>13. CASE NotVisible(w)
  <2>1. draft[w] \in Ids
    BY <1>13 DEF NotVisible, TypeInv, Busy
  <2> QED BY <1>13, <2>1, FinishKeepsType DEF NotVisible
<1>14. CASE ReturnAccepted(w)
  <2>1. draft[w] \in Ids
    BY <1>14 DEF ReturnAccepted, TypeInv, Busy
  <2>2. \A r \in receipts : r.id \in Ids
    BY DEF TypeInv, TypeOK, Receipt
  <2> QED BY <1>14, <2>1, <2>2, FinishKeepsType DEF ReturnAccepted
<1>15. CASE WriteRejection(w)
  <2>1. PICK id \in Ids \ usedIds : /\ usedIds' = usedIds \cup {id}
                                    /\ draft' = [draft EXCEPT ![w] = id]
                                    /\ receipts' = receipts \cup {RejectReceipt(w, id)}
    BY <1>15 DEF WriteRejection
  <2>2. RejectReceipt(w, id) \in Receipt
    BY <1>15, RejectReceiptType DEF WriteRejection, Goto
  <2>3. TypeOK'
    BY <1>15, <2>1, <2>2 DEF WriteRejection, Goto, TypeInv, TypeOK, WorkerSteps
  <2> QED
    BY <1>15, <2>1, <2>3 DEF WriteRejection, Goto, TypeInv, TypeOK, Busy, History, Listed
<1>16. CASE ReturnRejected(w)
  <2>1. draft[w] \in Ids
    BY <1>16 DEF ReturnRejected, TypeInv, Busy
  <2>2. \A r \in receipts : r.id \in Ids
    BY DEF TypeInv, TypeOK, Receipt
  <2> QED BY <1>16, <2>1, <2>2, FinishKeepsType DEF ReturnRejected
<1> QED
  BY <1>1, <1>2, <1>3, <1>4, <1>5, <1>6, <1>7, <1>8, <1>9, <1>10, <1>11, <1>12, <1>13, <1>14,
     <1>15, <1>16 DEF GateStep

LEMMA ReadersType ==
  ASSUME TypeInv, NEW r \in Readers, OpenForReplay(r) \/ NoStore(r) \/ ReplayStep(r)
  PROVE  TypeInv'
<1> USE DEF storeVars, idVars, workerVars
<1>1. CASE OpenForReplay(r)
  BY <1>1 DEF OpenForReplay, ReaderGoto, TypeInv, TypeOK, ReaderSteps, History, Listed
<1>2. CASE NoStore(r)
  BY <1>2 DEF NoStore, Answer, TypeInv, TypeOK, ReaderSteps, History, Listed
<1>3. CASE ListPartials(r)
  <2>1. {e.id : e \in staged} \subseteq Ids
    BY DEF TypeInv, TypeOK, Event
  <2> QED
    BY <1>3, <2>1 DEF ListPartials, ReaderGoto, TypeInv, TypeOK, ReaderSteps, History, Listed
<1>4. CASE MovePartial(r)
  BY <1>4 DEF MovePartial, TypeInv, TypeOK, ReaderSteps, History, Listed
<1>5. CASE PartialGone(r)
  BY <1>5 DEF PartialGone, Answer, TypeInv, TypeOK, ReaderSteps, History, Listed
<1>6. CASE PartialsMoved(r)
  BY <1>6 DEF PartialsMoved, ReaderGoto, TypeInv, TypeOK, ReaderSteps, History, Listed
<1>7. CASE ReplayOk(r)
  <2>1. Append(seen[r], CurrentState) \in Seq(SUBSET Triples)
    BY CurrentStateType DEF TypeInv, TypeOK
  <2> QED
    BY <1>7, <2>1 DEF ReplayOk, Answer, TypeInv, TypeOK, ReaderSteps, History, Listed
<1>8. CASE ReplayFails(r)
  BY <1>8 DEF ReplayFails, Answer, TypeInv, TypeOK, ReaderSteps, History, Listed
<1> QED
  BY <1>1, <1>2, <1>3, <1>4, <1>5, <1>6, <1>7, <1>8 DEF ReplayStep

LEMMA TypeInvStep == TypeInv /\ [Next]_vars => TypeInv'
<1> SUFFICES ASSUME TypeInv, [Next]_vars PROVE TypeInv'
  OBVIOUS
<1>1. ASSUME NEW w \in Workers, NEW c \in Candidates, NEW s \in Scopes, Submit(w, c, s)
      PROVE  TypeInv'
  BY <1>1, SubmitType
<1>2. ASSUME NEW w \in Workers, GateStep(w) PROVE TypeInv'
  BY <1>2, GateType
<1>3. ASSUME NEW w \in Workers, WriteFails(w) PROVE TypeInv'
  BY <1>3, FinishKeepsType DEF WriteFails
<1>4. ASSUME NEW w \in Workers, Kill(w) PROVE TypeInv'
  BY <1>4, FinishKeepsType DEF Kill, storeVars
<1>5. ASSUME NEW r \in Readers, OpenForReplay(r) \/ NoStore(r) PROVE TypeInv'
  BY <1>5, ReadersType
<1>6. ASSUME NEW r \in Readers, ReplayStep(r) PROVE TypeInv'
  BY <1>6, ReadersType
<1>7. CASE UNCHANGED vars
  BY <1>7 DEF vars, storeVars, idVars, workerVars, readerVars, TypeInv, TypeOK, History, Listed
<1> QED
  BY <1>1, <1>2, <1>3, <1>4, <1>5, <1>6, <1>7 DEF Next

LEMMA TypeInvariance == Spec => []TypeInv
BY TypeInvInit, TypeInvStep, PTL DEF Spec

(* Every variable keeps its type in every behaviour, for every instance.   *)
THEOREM TypeCorrect == Spec => []TypeOK
<1>1. TypeInv => TypeOK
  BY DEF TypeInv
<1> QED BY <1>1, TypeInvariance, PTL


-----------------------------------------------------------------------------
(* Receipts and events, any number of workers.                             *)

Carries(e, w) ==
  /\ e.id = draft[w] /\ e.cand = cand[w] /\ e.scope = scope[w]
  /\ e.parent = before[w] /\ e.result = result[w]

(* The event a call has staged, and then committed, is still the one its   *)
(* locals describe when the receipt is written: nobody else draws its id.  *)
PairInv ==
  /\ TypeInv
  /\ \A e \in staged : e.id \in usedIds
  /\ \A w \in Workers : pc[w] \in Busy => draft[w] \in usedIds
  /\ \A w \in Workers : pc[w] = "staged" =>
       \A e \in staged : e.id = draft[w] => Carries(e, w)
  /\ \A w \in Workers : pc[w] = "committed" => \E e \in events : Carries(e, w)
  /\ ReceiptHasEvent

LEMMA PairInvInit == Init => PairInv
BY TypeInvInit DEF Init, PairInv, Busy, ReceiptHasEvent

(* Steps that touch no file of receipts/ and start nothing.                *)
LEMMA FinishKeepsPair ==
  ASSUME PairInv, TypeInv', NEW w \in Workers, NEW s, NEW x, NEW y, Finish(w, s, x, y),
         UNCHANGED <<events, receipts, usedIds>>, staged' \subseteq staged
  PROVE  PairInv'
<1>1. \A v \in Workers : pc'[v] # "idle" =>
        /\ v # w /\ pc'[v] = pc[v] /\ draft'[v] = draft[v] /\ cand'[v] = cand[v]
        /\ scope'[v] = scope[v] /\ before'[v] = before[v] /\ result'[v] = result[v]
  BY DEF Finish, PairInv, TypeInv, TypeOK
<1>2. \A e \in staged' : e.id \in usedIds'
  BY DEF PairInv
<1>3. \A v \in Workers : pc'[v] \in Busy => draft'[v] \in usedIds'
  BY <1>1 DEF PairInv, Busy
<1>4. \A v \in Workers : pc'[v] = "staged" => \A e \in staged' : e.id = draft'[v] => Carries(e, v)'
  BY <1>1 DEF PairInv, Carries
<1>5. \A v \in Workers : pc'[v] = "committed" => \E e \in events' : Carries(e, v)'
  BY <1>1 DEF PairInv, Carries
<1>6. ReceiptHasEvent'
  BY DEF PairInv, ReceiptHasEvent
<1> QED BY <1>2, <1>3, <1>4, <1>5, <1>6 DEF PairInv

(* Steps of a call that write nothing.                                     *)
LEMMA MoveKeepsPair ==
  ASSUME PairInv, TypeInv', NEW w \in Workers, pc[w] \notin {"staged", "committed"},
         NEW to \in WorkerSteps \ {"staged", "committed"}, pc' = [pc EXCEPT ![w] = to],
         to \in Busy => pc[w] \in Busy,
         \A v \in Workers : v # w => /\ cand'[v] = cand[v] /\ scope'[v] = scope[v]
                                     /\ before'[v] = before[v] /\ result'[v] = result[v],
         UNCHANGED <<events, staged, receipts, usedIds, draft>>
  PROVE  PairInv'
<1>1. \A v \in Workers : v # w => pc'[v] = pc[v]
  BY DEF PairInv, TypeInv, TypeOK
<1>2. pc'[w] = to
  BY DEF PairInv, TypeInv, TypeOK
<1>3. \A v \in Workers : pc'[v] \in Busy => draft'[v] \in usedIds'
  BY <1>1, <1>2 DEF PairInv
<1>4. \A v \in Workers : pc'[v] = "staged" => \A e \in staged' : e.id = draft'[v] => Carries(e, v)'
  BY <1>1, <1>2 DEF PairInv, Carries
<1>5. \A v \in Workers : pc'[v] = "committed" => \E e \in events' : Carries(e, v)'
  BY <1>1, <1>2 DEF PairInv, Carries
<1>6. ReceiptHasEvent'
  BY DEF PairInv, ReceiptHasEvent
<1> QED BY <1>3, <1>4, <1>5, <1>6 DEF PairInv

LEMMA GateKeepsPair ==
  ASSUME PairInv, TypeInv', NEW w \in Workers, GateStep(w)
  PROVE  PairInv'
<1> USE DEF storeVars, idVars, readerVars
<1>1. ASSUME OpenStore(w) \/ CreateGenesis(w) \/ CreateUniverse(w) \/ ReadState(w)
             \/ Validate(w) \/ ComputeResult(w) \/ CheckVisible(w)
      PROVE  PairInv'
  BY <1>1, MoveKeepsPair
  DEF OpenStore, CreateGenesis, CreateUniverse, ReadState, Validate, ComputeResult, CheckVisible,
      Goto, WorkerSteps, Busy, PairInv, TypeInv, TypeOK
<1>2. ASSUME UniverseMissing(w) \/ StagingLost(w) \/ NotVisible(w) \/ ReturnAccepted(w)
             \/ ReturnRejected(w)
      PROVE  PairInv'
  BY <1>2, FinishKeepsPair
  DEF UniverseMissing, StagingLost, NotVisible, ReturnAccepted, ReturnRejected
<1>3. CASE StageEvent(w)
  <2>1. PICK id \in Ids \ usedIds : /\ usedIds' = usedIds \cup {id}
                                    /\ draft' = [draft EXCEPT ![w] = id]
                                    /\ staged' = staged \cup {NewEvent(w, id)}
    BY <1>3 DEF StageEvent
  <2>2. /\ pc[w] = "resulted" /\ pc' = [pc EXCEPT ![w] = "staged"]
        /\ UNCHANGED <<events, receipts, cand, scope, before, result>>
    BY <1>3 DEF StageEvent, Goto
  <2>3. /\ draft'[w] = id /\ pc'[w] = "staged"
        /\ \A v \in Workers : v # w => draft'[v] = draft[v] /\ pc'[v] = pc[v]
    BY <2>1, <2>2 DEF PairInv, TypeInv, TypeOK
  <2>4. /\ NewEvent(w, id).id = id /\ NewEvent(w, id).cand = cand[w]
        /\ NewEvent(w, id).scope = scope[w] /\ NewEvent(w, id).parent = before[w]
        /\ NewEvent(w, id).result = result[w]
    BY DEF NewEvent
  <2>5. \A e \in staged' : e.id \in usedIds'
    BY <2>1, <2>4 DEF PairInv
  <2>6. \A v \in Workers : pc'[v] \in Busy => draft'[v] \in usedIds'
    BY <2>1, <2>3 DEF PairInv
  <2>7. ASSUME NEW v \in Workers, pc'[v] = "staged", NEW e \in staged', e.id = draft'[v]
        PROVE  Carries(e, v)'
    <3>1. CASE v = w
      <4>1. e = NewEvent(w, id)
        BY <2>1, <2>3, <2>7, <3>1 DEF PairInv
      <4> QED BY <2>2, <2>3, <2>4, <3>1, <4>1 DEF Carries
    <3>2. CASE v # w
      <4>1. draft[v] \in usedIds /\ pc[v] = "staged" /\ e.id = draft[v]
        BY <2>3, <2>7, <3>2 DEF PairInv, Busy
      <4>2. e \in staged
        BY <2>1, <2>4, <2>7, <4>1
      <4> QED BY <2>2, <2>3, <3>2, <4>1, <4>2 DEF PairInv, Carries
    <3> QED BY <3>1, <3>2
  <2>8. \A v \in Workers : pc'[v] = "committed" => \E e \in events' : Carries(e, v)'
    BY <2>2, <2>3 DEF PairInv, Carries
  <2>9. ReceiptHasEvent'
    BY <2>2 DEF PairInv, ReceiptHasEvent
  <2> QED BY <2>5, <2>6, <2>7, <2>8, <2>9 DEF PairInv
<1>4. CASE CommitEvent(w)
  <2>1. PICK e \in staged : e.id = draft[w] /\ events' = events \cup {e} /\ staged' = staged \ {e}
    BY <1>4 DEF CommitEvent
  <2>2. /\ pc[w] = "staged" /\ pc' = [pc EXCEPT ![w] = "committed"]
        /\ UNCHANGED <<receipts, usedIds, cand, scope, before, result, draft>>
    BY <1>4 DEF CommitEvent, Goto
  <2>3. pc'[w] = "committed" /\ \A v \in Workers : v # w => pc'[v] = pc[v]
    BY <2>2 DEF PairInv, TypeInv, TypeOK
  <2>4. Carries(e, w)
    BY <2>1, <2>2 DEF PairInv
  <2>5. (\A f \in staged' : f.id \in usedIds') /\ ReceiptHasEvent'
    BY <2>1, <2>2 DEF PairInv, ReceiptHasEvent
  <2>6. \A v \in Workers : pc'[v] \in Busy => draft'[v] \in usedIds'
    BY <2>2, <2>3 DEF PairInv, Busy
  <2>7. \A v \in Workers : pc'[v] = "staged" => \A f \in staged' : f.id = draft'[v] => Carries(f, v)'
    BY <2>1, <2>2, <2>3 DEF PairInv, Carries
  <2>8. \A v \in Workers : pc'[v] = "committed" => \E f \in events' : Carries(f, v)'
    BY <2>1, <2>2, <2>3, <2>4 DEF PairInv, Carries
  <2> QED BY <2>5, <2>6, <2>7, <2>8 DEF PairInv
<1>5. CASE WriteReceipt(w)
  <2>1. /\ pc[w] = "committed" /\ pc' = [pc EXCEPT ![w] = "receipted"]
        /\ receipts' = receipts \cup {AcceptReceipt(w)}
        /\ UNCHANGED <<events, staged, usedIds, cand, scope, before, result, draft>>
    BY <1>5 DEF WriteReceipt, Goto
  <2>2. pc'[w] = "receipted" /\ \A v \in Workers : v # w => pc'[v] = pc[v]
    BY <2>1 DEF PairInv, TypeInv, TypeOK
  <2>3. PICK e \in events : Carries(e, w)
    BY <2>1 DEF PairInv
  <2>4. PairAgrees(e, AcceptReceipt(w))
    BY <2>3 DEF Carries, PairAgrees, AcceptReceipt, ScientificCompletion
  <2>5. ReceiptHasEvent'
    BY <2>1, <2>4 DEF PairInv, ReceiptHasEvent
  <2>6. \A v \in Workers : pc'[v] \in Busy => draft'[v] \in usedIds'
    BY <2>1, <2>2 DEF PairInv, Busy
  <2>7. \A v \in Workers : pc'[v] = "staged" => \A f \in staged' : f.id = draft'[v] => Carries(f, v)'
    BY <2>1, <2>2 DEF PairInv, Carries
  <2>8. \A v \in Workers : pc'[v] = "committed" => \E f \in events' : Carries(f, v)'
    BY <2>1, <2>2 DEF PairInv, Carries
  <2> QED BY <2>1, <2>5, <2>6, <2>7, <2>8 DEF PairInv
<1>6. CASE WriteRejection(w)
  <2>1. PICK id \in Ids \ usedIds : /\ usedIds' = usedIds \cup {id}
                                    /\ draft' = [draft EXCEPT ![w] = id]
                                    /\ receipts' = receipts \cup {RejectReceipt(w, id)}
    BY <1>6 DEF WriteRejection
  <2>2. /\ pc[w] = "reject" /\ pc' = [pc EXCEPT ![w] = "rejected"]
        /\ UNCHANGED <<events, staged, cand, scope, before, result>>
    BY <1>6 DEF WriteRejection, Goto
  <2>3. /\ draft'[w] = id /\ pc'[w] = "rejected"
        /\ \A v \in Workers : v # w => draft'[v] = draft[v] /\ pc'[v] = pc[v]
    BY <2>1, <2>2 DEF PairInv, TypeInv, TypeOK
  <2>4. RejectReceipt(w, id).decision # "accepted"
    BY DEF RejectReceipt
  <2>5. ReceiptHasEvent'
    BY <2>1, <2>2, <2>4 DEF PairInv, ReceiptHasEvent
  <2>6. \A v \in Workers : pc'[v] \in Busy => draft'[v] \in usedIds'
    BY <2>1, <2>3 DEF PairInv
  <2>7. \A v \in Workers : pc'[v] = "staged" => \A f \in staged' : f.id = draft'[v] => Carries(f, v)'
    BY <2>2, <2>3 DEF PairInv, Carries
  <2>8. \A v \in Workers : pc'[v] = "committed" => \E f \in events' : Carries(f, v)'
    BY <2>2, <2>3 DEF PairInv, Carries
  <2>9. \A e \in staged' : e.id \in usedIds'
    BY <2>1, <2>2 DEF PairInv
  <2> QED BY <2>5, <2>6, <2>7, <2>8, <2>9 DEF PairInv
<1> QED
  BY <1>1, <1>2, <1>3, <1>4, <1>5, <1>6 DEF GateStep

(* Readers only take files of staged away.                                 *)
LEMMA ReaderFrame ==
  ASSUME NEW r \in Readers, OpenForReplay(r) \/ NoStore(r) \/ ReplayStep(r)
  PROVE  /\ staged' \subseteq staged
         /\ UNCHANGED <<events, receipts, idVars, workerVars>>
BY DEF OpenForReplay, NoStore, ReplayStep, ListPartials, MovePartial, PartialGone, PartialsMoved,
       ReplayOk, ReplayFails, storeVars, idVars, workerVars

LEMMA PairInvStep == PairInv /\ [Next]_vars => PairInv'
<1> SUFFICES ASSUME PairInv, [Next]_vars PROVE PairInv'
  OBVIOUS
<1>0. TypeInv'
  BY TypeInvStep DEF PairInv
<1>1. ASSUME NEW w \in Workers, NEW c \in Candidates, NEW s \in Scopes, Submit(w, c, s)
      PROVE  PairInv'
  BY <1>0, <1>1, MoveKeepsPair
  DEF Submit, Goto, storeVars, WorkerSteps, Busy, PairInv, TypeInv, TypeOK
<1>2. ASSUME NEW w \in Workers, GateStep(w) PROVE PairInv'
  BY <1>0, <1>2, GateKeepsPair
<1>3. ASSUME NEW w \in Workers, WriteFails(w) PROVE PairInv'
  BY <1>0, <1>3, FinishKeepsPair DEF WriteFails, idVars
<1>4. ASSUME NEW w \in Workers, Kill(w) PROVE PairInv'
  BY <1>0, <1>4, FinishKeepsPair DEF Kill, storeVars, idVars
<1>5. ASSUME staged' \subseteq staged, UNCHANGED <<events, receipts, idVars, workerVars>>
      PROVE  PairInv'
  BY <1>0, <1>5 DEF PairInv, Carries, ReceiptHasEvent, idVars, workerVars
<1>6. ASSUME NEW r \in Readers, OpenForReplay(r) \/ NoStore(r) \/ ReplayStep(r) PROVE PairInv'
  BY <1>5, <1>6, ReaderFrame
<1>7. CASE UNCHANGED vars
  BY <1>5, <1>7 DEF vars, storeVars
<1> QED
  BY <1>1, <1>2, <1>3, <1>4, <1>6, <1>7 DEF Next

(* No receipt ever claims an acceptance its event file does not carry,     *)
(* however many workers race, die or lose their staged files to a reader.  *)
THEOREM ReceiptsAgree == Spec => []ReceiptHasEvent
<1>1. PairInv => ReceiptHasEvent
  BY DEF PairInv
<1> QED BY <1>1, PairInvInit, PairInvStep, PTL DEF Spec

-----------------------------------------------------------------------------
(* Racing workers: what replay accepts holds no relation twice.            *)

Deciding == {"parsed", "valid", "resulted"}

(* Whatever another worker appends meanwhile, a call only ever extends the *)
(* state it read first by relations that were not in it.                   *)
FreshInv ==
  /\ TypeInv
  /\ \A e \in events \cup staged : SeedRelations \subseteq e.parent /\ e.atoms \cap e.parent = {}
  /\ \A w \in Workers : pc[w] \in Deciding =>
       SeedRelations \subseteq before[w] /\ before[w] \subseteq CurrentState
  /\ \A w \in Workers : pc[w] \in Deciding \ {"parsed"} => Batch(cand[w]) \cap before[w] = {}

LEMMA FreshInvInit == Init => FreshInv
BY TypeInvInit DEF Init, FreshInv, Deciding

LEMMA SeedInState == SeedRelations \subseteq CurrentState
BY DEF CurrentState, MaterializeState

LEMMA StateGrows ==
  ASSUME events \subseteq events'
  PROVE  CurrentState \subseteq CurrentState'
BY DEF CurrentState, MaterializeState, History, Listed

LEMMA FreshFrame ==
  ASSUME FreshInv, TypeInv', events \subseteq events',
         events' \cup staged' \subseteq events \cup staged,
         \A v \in Workers : pc'[v] \in Deciding =>
           pc[v] \in Deciding /\ before'[v] = before[v] /\ cand'[v] = cand[v],
         \A v \in Workers : pc'[v] \in Deciding \ {"parsed"} => pc[v] # "parsed"
  PROVE  FreshInv'
<1>1. \A e \in events' \cup staged' :
         SeedRelations \subseteq e.parent /\ e.atoms \cap e.parent = {}
  BY DEF FreshInv
<1>2. \A w \in Workers : pc'[w] \in Deciding =>
         SeedRelations \subseteq before'[w] /\ before'[w] \subseteq CurrentState'
  BY StateGrows DEF FreshInv
<1>3. \A w \in Workers : pc'[w] \in Deciding \ {"parsed"} => Batch(cand'[w]) \cap before'[w] = {}
  BY DEF FreshInv
<1> QED BY <1>1, <1>2, <1>3 DEF FreshInv

LEMMA FinishFrame ==
  ASSUME TypeInv, NEW w \in Workers, NEW s, NEW x, NEW y, Finish(w, s, x, y)
  PROVE  \A v \in Workers : pc'[v] # "idle" =>
           /\ v # w /\ pc'[v] = pc[v] /\ draft'[v] = draft[v] /\ cand'[v] = cand[v]
           /\ before'[v] = before[v] /\ result'[v] = result[v]
BY DEF Finish, TypeInv, TypeOK

LEMMA FinishKeepsFresh ==
  ASSUME FreshInv, TypeInv', NEW w \in Workers, NEW s, NEW x, NEW y, Finish(w, s, x, y),
         UNCHANGED events, staged' \subseteq staged
  PROVE  FreshInv'
<1>1. TypeInv
  BY DEF FreshInv
<1> QED BY <1>1, FreshFrame, FinishFrame DEF Deciding

LEMMA GateKeepsFresh ==
  ASSUME FreshInv, TypeInv', NEW w \in Workers, GateStep(w)
  PROVE  FreshInv'
<1> USE DEF storeVars, idVars, readerVars
<1>1. ASSUME OpenStore(w) \/ CreateGenesis(w) \/ CreateUniverse(w) \/ ComputeResult(w)
             \/ WriteReceipt(w) \/ CheckVisible(w) \/ WriteRejection(w)
      PROVE  FreshInv'
  <2>1. \A v \in Workers : pc'[v] \in Deciding =>
          /\ pc[v] \in Deciding /\ before'[v] = before[v] /\ cand'[v] = cand[v]
          /\ pc'[v] # "parsed" => pc[v] # "parsed"
    BY <1>1
    DEF OpenStore, CreateGenesis, CreateUniverse, ComputeResult, WriteReceipt, CheckVisible,
        WriteRejection, Goto, Deciding, FreshInv, TypeInv, TypeOK
  <2>2. UNCHANGED <<events, staged>>
    BY <1>1
    DEF OpenStore, CreateGenesis, CreateUniverse, ComputeResult, WriteReceipt, CheckVisible,
        WriteRejection
  <2> QED BY <2>1, <2>2, FreshFrame DEF Deciding
<1>2. ASSUME UniverseMissing(w) \/ StagingLost(w) \/ NotVisible(w) \/ ReturnAccepted(w)
             \/ ReturnRejected(w)
      PROVE  FreshInv'
  BY <1>2, FinishKeepsFresh
  DEF UniverseMissing, StagingLost, NotVisible, ReturnAccepted, ReturnRejected
<1>3. CASE ReadState(w)
  <2>1. /\ before'[w] = CurrentState /\ pc'[w] \in {"parsed", "reject"}
        /\ UNCHANGED <<events, staged, cand>>
        /\ \A v \in Workers : v # w => pc'[v] = pc[v] /\ before'[v] = before[v]
    BY <1>3 DEF ReadState, Goto, FreshInv, TypeInv, TypeOK
  <2>2. CurrentState' = CurrentState
    BY <2>1 DEF CurrentState, MaterializeState, History, Listed
  <2> QED BY <2>1, <2>2, SeedInState DEF FreshInv, Deciding
<1>4. CASE Validate(w)
  <2>1. /\ UNCHANGED <<events, staged, cand, before>>
        /\ pc[w] = "parsed" /\ \A v \in Workers : v # w => pc'[v] = pc[v]
        /\ pc'[w] \in {"valid", "reject"}
        /\ pc'[w] = "valid" => ValidBatch(Batch(cand[w]), CurrentState)
    BY <1>4 DEF Validate, Goto, FreshInv, TypeInv, TypeOK
  <2>2. CurrentState' = CurrentState
    BY <2>1 DEF CurrentState, MaterializeState, History, Listed
  <2>3. pc'[w] = "valid" => Batch(cand[w]) \cap before[w] = {}
    BY <2>1 DEF FreshInv, Deciding, ValidBatch
  <2> QED BY <2>1, <2>2, <2>3 DEF FreshInv, Deciding
<1>5. CASE StageEvent(w)
  <2>1. PICK id \in Ids \ usedIds : staged' = staged \cup {NewEvent(w, id)}
    BY <1>5 DEF StageEvent
  <2>2. /\ pc[w] = "resulted" /\ UNCHANGED <<events, cand, before>>
        /\ \A v \in Workers : v # w => pc'[v] = pc[v]
        /\ pc'[w] = "staged"
    BY <1>5 DEF StageEvent, Goto, FreshInv, TypeInv, TypeOK
  <2>3. NewEvent(w, id).parent = before[w] /\ NewEvent(w, id).atoms = Batch(cand[w])
    BY DEF NewEvent
  <2>4. CurrentState' = CurrentState
    BY <2>2 DEF CurrentState, MaterializeState, History, Listed
  <2> QED BY <2>1, <2>2, <2>3, <2>4 DEF FreshInv, Deciding
<1>6. CASE CommitEvent(w)
  <2>1. PICK e \in staged : e.id = draft[w] /\ events' = events \cup {e} /\ staged' = staged \ {e}
    BY <1>6 DEF CommitEvent
  <2>2. /\ UNCHANGED <<cand, before>> /\ pc'[w] = "committed"
        /\ \A v \in Workers : v # w => pc'[v] = pc[v]
    BY <1>6 DEF CommitEvent, Goto, FreshInv, TypeInv, TypeOK
  <2> QED BY <2>1, <2>2, FreshFrame DEF Deciding
<1> QED
  BY <1>1, <1>2, <1>3, <1>4, <1>5, <1>6 DEF GateStep

LEMMA FreshInvStep == FreshInv /\ [Next]_vars => FreshInv'
<1> SUFFICES ASSUME FreshInv, [Next]_vars PROVE FreshInv'
  OBVIOUS
<1>0. TypeInv /\ TypeInv'
  BY TypeInvStep DEF FreshInv
<1>1. ASSUME NEW w \in Workers, NEW c \in Candidates, NEW s \in Scopes, Submit(w, c, s)
      PROVE  FreshInv'
  <2>1. \A v \in Workers : pc'[v] \in Deciding =>
          pc[v] = pc'[v] /\ before'[v] = before[v] /\ cand'[v] = cand[v]
    BY <1>1 DEF Submit, Goto, Deciding, FreshInv, TypeInv, TypeOK
  <2> QED BY <1>0, <1>1, <2>1, FreshFrame DEF Submit, storeVars, Deciding
<1>2. ASSUME NEW w \in Workers, GateStep(w) PROVE FreshInv'
  BY <1>0, <1>2, GateKeepsFresh
<1>3. ASSUME NEW w \in Workers, WriteFails(w) PROVE FreshInv'
  BY <1>0, <1>3, FinishKeepsFresh DEF WriteFails
<1>4. ASSUME NEW w \in Workers, Kill(w) PROVE FreshInv'
  BY <1>0, <1>4, FinishKeepsFresh DEF Kill, storeVars
<1>5. ASSUME staged' \subseteq staged, UNCHANGED <<events, receipts, idVars, workerVars>>
      PROVE  FreshInv'
  BY <1>0, <1>5, FreshFrame DEF workerVars, Deciding
<1>6. ASSUME NEW r \in Readers, OpenForReplay(r) \/ NoStore(r) \/ ReplayStep(r) PROVE FreshInv'
  BY <1>5, <1>6, ReaderFrame
<1>7. CASE UNCHANGED vars
  BY <1>5, <1>7 DEF vars, storeVars
<1> QED
  BY <1>1, <1>2, <1>3, <1>4, <1>6, <1>7 DEF Next

(* File names order a history totally.                                     *)
LEMMA PrecedesTotal ==
  ASSUME NEW evs \in SUBSET Event, Replays(evs), NEW e \in evs, NEW f \in evs, e # f
  PROVE  Precedes(e, f) \/ Precedes(f, e)
<1>1. e.seq \in Nat /\ f.seq \in Nat /\ e.id \in Nat /\ f.id \in Nat
  BY ContinuityAssumptions DEF Event
<1>2. e.id # f.id
  BY DEF Replays, ReplayAccepts
<1> QED BY <1>1, <1>2 DEF Precedes

LEMMA FreshOnce ==
  ASSUME FreshInv, HistoryReplays, NEW e \in History, NEW f \in History, Precedes(e, f)
  PROVE  e.atoms \cap f.atoms = {}
<1>1. e.atoms \subseteq f.parent
  BY DEF HistoryReplays, Replays, ReplayAccepts, StateBefore, MaterializeState
<1> QED BY <1>1 DEF FreshInv, History, Listed

(* Racing workers may fork the chain, but a history that still replays has *)
(* accepted no relation twice.                                             *)
THEOREM ReplayIsSingular == Spec => []ReplayedOnce
<1>1. FreshInv => ReplayedOnce
  <2> SUFFICES ASSUME FreshInv, HistoryReplays PROVE AcceptedOnce
    BY DEF ReplayedOnce
  <2>1. History \in SUBSET Event
    BY DEF FreshInv, TypeInv, TypeOK, History, Listed
  <2>2. ASSUME NEW e \in History PROVE e.atoms \cap SeedRelations = {}
    BY DEF FreshInv, History, Listed
  <2>3. ASSUME NEW e \in History, NEW f \in History, e # f PROVE e.atoms \cap f.atoms = {}
    <3>1. Precedes(e, f) \/ Precedes(f, e)
      BY <2>1, <2>3, PrecedesTotal DEF HistoryReplays
    <3>2. e.atoms \cap f.atoms = {} \/ f.atoms \cap e.atoms = {}
      BY <3>1, FreshOnce
    <3> QED BY <3>2
  <2> QED BY <2>2, <2>3 DEF AcceptedOnce
<1> QED BY <1>1, FreshInvInit, FreshInvStep, PTL DEF Spec

-----------------------------------------------------------------------------
(* What a caller and a reader were shown stays in the listing.             *)

LEMMA EventsStay == [Next]_vars => events \subseteq events'
BY DEF Next, Submit, GateStep, OpenStore, CreateGenesis, CreateUniverse, ReadState, Validate,
       UniverseMissing, ComputeResult, StageEvent, CommitEvent, StagingLost, WriteReceipt,
       CheckVisible, NotVisible, ReturnAccepted, WriteRejection, ReturnRejected, WriteFails, Kill,
       OpenForReplay, NoStore, ReplayStep, ListPartials, MovePartial, PartialGone, PartialsMoved,
       ReplayOk, ReplayFails, vars, storeVars

LEMMA ListingGrows ==
  ASSUME events \subseteq events'
  PROVE  History \subseteq History'
BY DEF History, Listed

InListing(id) == \E e \in History : e.id = id

(* A call past its visibility check, and a caller told ACCEPTED.           *)
ShownInv ==
  /\ TypeInv
  /\ \A w \in Workers : pc[w] = "visible" => InListing(draft[w])
  /\ AcceptedIsListed

LEMMA ShownInvInit == Init => ShownInv
BY TypeInvInit DEF Init, ShownInv, AcceptedIsListed, NoOutcome

(* Steps that show no new event to anyone.                                 *)
LEMMA ShownFrame ==
  ASSUME ShownInv, TypeInv', events \subseteq events',
         \A v \in Workers : pc'[v] = "visible" => pc[v] = "visible" /\ draft'[v] = draft[v],
         \A v \in Workers : outcome'[v].status = "accepted" => outcome'[v] = outcome[v]
  PROVE  ShownInv'
<1>1. \A w \in Workers : pc'[w] = "visible" => InListing(draft[w])'
  BY ListingGrows DEF ShownInv, InListing
<1>2. AcceptedIsListed'
  BY ListingGrows DEF ShownInv, AcceptedIsListed
<1> QED BY <1>1, <1>2 DEF ShownInv, InListing

LEMMA FinishShows ==
  ASSUME ShownInv, TypeInv', events \subseteq events', NEW w \in Workers, NEW s, NEW x, NEW y,
         Finish(w, s, x, y), s = "accepted" => InListing(x)
  PROVE  ShownInv'
<1>1. TypeInv
  BY DEF ShownInv
<1>2. \A v \in Workers : pc'[v] = "visible" => pc[v] = "visible" /\ draft'[v] = draft[v]
  BY <1>1, FinishFrame
<1>3. /\ outcome'[w].status = s /\ outcome'[w].wrote = x
      /\ \A v \in Workers : v # w => outcome'[v] = outcome[v]
  BY <1>1 DEF Finish, TypeInv, TypeOK
<1>4. ASSUME NEW v \in Workers, outcome'[v].status = "accepted"
      PROVE  \E e \in History' : e.id = outcome'[v].wrote
  BY <1>3, <1>4, ListingGrows DEF ShownInv, AcceptedIsListed, InListing
<1> QED BY <1>2, <1>4, ListingGrows DEF ShownInv, AcceptedIsListed, InListing

LEMMA ShownInvStep == ShownInv /\ [Next]_vars => ShownInv'
<1> SUFFICES ASSUME ShownInv, [Next]_vars PROVE ShownInv'
  OBVIOUS
<1>0. TypeInv /\ TypeInv' /\ events \subseteq events'
  BY TypeInvStep, EventsStay DEF ShownInv
<1>1. ASSUME NEW w \in Workers, NEW c \in Candidates, NEW s \in Scopes, Submit(w, c, s)
      PROVE  ShownInv'
  <2>1. /\ \A v \in Workers : pc'[v] = "visible" => pc[v] = "visible" /\ draft'[v] = draft[v]
        /\ \A v \in Workers : outcome'[v].status = "accepted" => outcome'[v] = outcome[v]
    BY <1>0, <1>1 DEF Submit, Goto, NoOutcome, TypeInv, TypeOK
  <2> QED BY <1>0, <2>1, ShownFrame
<1>2. ASSUME NEW w \in Workers,
             \/ OpenStore(w) \/ CreateGenesis(w) \/ CreateUniverse(w) \/ ReadState(w)
             \/ Validate(w) \/ ComputeResult(w) \/ StageEvent(w) \/ CommitEvent(w)
             \/ WriteReceipt(w) \/ WriteRejection(w)
      PROVE  ShownInv'
  <2>1. /\ UNCHANGED outcome
        /\ \A v \in Workers : pc'[v] = "visible" => pc[v] = "visible" /\ draft'[v] = draft[v]
    BY <1>0, <1>2
    DEF OpenStore, CreateGenesis, CreateUniverse, ReadState, Validate, ComputeResult, StageEvent,
        CommitEvent, WriteReceipt, WriteRejection, Goto, TypeInv, TypeOK
  <2> QED BY <1>0, <2>1, ShownFrame
<1>3. ASSUME NEW w \in Workers, CheckVisible(w) PROVE ShownInv'
  <2>1. /\ UNCHANGED <<events, draft, outcome>> /\ InListing(draft[w])
        /\ \A v \in Workers : v # w => pc'[v] = pc[v]
    BY <1>0, <1>3 DEF CheckVisible, Goto, IsLast, InListing, storeVars, TypeInv, TypeOK
  <2> QED BY <1>0, <2>1 DEF ShownInv, InListing, AcceptedIsListed, History, Listed
<1>4. ASSUME NEW w \in Workers, ReturnAccepted(w) PROVE ShownInv'
  BY <1>0, <1>4, FinishShows DEF ReturnAccepted, ShownInv
<1>5. ASSUME NEW w \in Workers,
             \/ UniverseMissing(w) \/ StagingLost(w) \/ NotVisible(w) \/ ReturnRejected(w)
             \/ WriteFails(w) \/ Kill(w)
      PROVE  ShownInv'
  BY <1>0, <1>5, FinishShows
  DEF UniverseMissing, StagingLost, NotVisible, ReturnRejected, WriteFails, Kill
<1>6. ASSUME UNCHANGED workerVars PROVE ShownInv'
  BY <1>0, <1>6, ShownFrame DEF workerVars
<1>7. ASSUME NEW r \in Readers, OpenForReplay(r) \/ NoStore(r) \/ ReplayStep(r) PROVE ShownInv'
  BY <1>6, <1>7, ReaderFrame
<1>8. CASE UNCHANGED vars
  BY <1>6, <1>8 DEF vars
<1> QED
  BY <1>1, <1>2, <1>3, <1>4, <1>5, <1>7, <1>8 DEF Next, GateStep

(* A caller told ACCEPTED finds its event in the listing from then on,     *)
(* whoever else writes, dies or quarantines.                               *)
THEOREM AcceptedStaysListed == Spec => []AcceptedIsListed
<1>1. ShownInv => AcceptedIsListed
  BY DEF ShownInv
<1> QED BY <1>1, ShownInvInit, ShownInvStep, PTL DEF Spec

(* A listing has a last file; stated without finiteness, it is inductive.  *)
HasLast(evs) == evs = {} \/ \E m \in evs : \A e \in evs : ~Precedes(m, e)

LEMMA HasLastAdd ==
  ASSUME NEW evs \in SUBSET Event, HasLast(evs), NEW e \in Event
  PROVE  HasLast(evs \cup {e})
<1>1. \A f \in evs \cup {e} : f.seq \in Nat /\ f.id \in Nat
  BY ContinuityAssumptions DEF Event
<1>2. CASE evs = {}
  <2>1. ~Precedes(e, e)
    BY <1>1 DEF Precedes
  <2> QED BY <1>2, <2>1 DEF HasLast
<1>3. CASE evs # {}
  <2>1. PICK m \in evs : \A f \in evs : ~Precedes(m, f)
    BY <1>3 DEF HasLast
  <2>2. CASE ~Precedes(m, e)
    <3>1. \A f \in evs \cup {e} : ~Precedes(m, f)
      BY <2>1, <2>2
    <3> QED BY <3>1 DEF HasLast
  <2>3. CASE Precedes(m, e)
    <3>1. \A f \in evs \cup {e} : ~Precedes(e, f)
      BY <1>1, <2>1, <2>3 DEF Precedes
    <3> QED BY <3>1 DEF HasLast
  <2> QED BY <2>2, <2>3
<1> QED BY <1>2, <1>3

(* What some prefix of the listing came to.                                *)
Reached(x) == x = SeedRelations \/ \E e \in History : x = e.result

(* What a listing that replays comes to is what its last event claims.     *)
LEMMA StateIsReached ==
  ASSUME TypeInv, HasLast(History), Replays(History)
  PROVE  Reached(CurrentState)
<1>1. CASE History = {}
  BY <1>1 DEF Reached, CurrentState, MaterializeState
<1>2. CASE History # {}
  <2>1. PICK m \in History : \A e \in History : ~Precedes(m, e)
    BY <1>2 DEF HasLast
  <2>2. History \in SUBSET Event
    BY DEF TypeInv, TypeOK, History, Listed
  <2>3. \A e \in History : e # m => Precedes(e, m)
    BY <2>1, <2>2, PrecedesTotal
  <2>4. m.result = StateBefore(History, m) \cup m.atoms
    BY DEF Replays, ReplayAccepts
  <2>5. StateBefore(History, m) \cup m.atoms = CurrentState
    BY <2>3 DEF StateBefore, MaterializeState, CurrentState
  <2> QED BY <2>4, <2>5 DEF Reached
<1> QED BY <1>1, <1>2

(* The replays of an Episode B run, whatever is appended between them.     *)
SeenInv ==
  /\ TypeInv
  /\ HasLast(History)
  /\ \A r \in Readers : \A i \in DOMAIN seen[r] :
       Reached(seen[r][i]) /\ seen[r][i] \subseteq CurrentState
  /\ \A r \in Readers : \A i, j \in DOMAIN seen[r] : i < j => seen[r][i] \subseteq seen[r][j]

LEMMA SeenInvInit == Init => SeenInv
<1> SUFFICES ASSUME Init PROVE SeenInv
  OBVIOUS
<1>1. \A r \in Readers : seen[r] = <<>>
  BY DEF Init
<1>2. History = {}
  BY DEF Init, History, Listed
<1> QED BY <1>1, <1>2, TypeInvInit DEF SeenInv, HasLast

LEMMA SeenFrame ==
  ASSUME SeenInv, TypeInv', events \subseteq events', HasLast(History)',
         \A r \in Readers : seen'[r] \in {seen[r], <<>>}
  PROVE  SeenInv'
<1>1. ASSUME NEW r \in Readers, NEW i \in DOMAIN seen'[r]
      PROVE  Reached(seen[r][i])' /\ seen'[r][i] \subseteq CurrentState'
  <2>1. seen'[r] = seen[r]
    BY <1>1
  <2> QED BY <1>1, <2>1, ListingGrows, StateGrows DEF SeenInv, Reached
<1>2. \A r \in Readers : \A i, j \in DOMAIN seen'[r] : i < j => seen'[r][i] \subseteq seen'[r][j]
  BY DEF SeenInv
<1> QED BY <1>1, <1>2 DEF SeenInv

LEMMA ReplaySees ==
  ASSUME SeenInv, TypeInv', NEW r \in Readers, ReplayOk(r)
  PROVE  SeenInv'
<1>1. /\ UNCHANGED events /\ Replays(History)
      /\ seen'[r] = Append(seen[r], CurrentState)
      /\ \A q \in Readers : q # r => seen'[q] = seen[q]
      /\ seen[r] \in Seq(SUBSET Triples)
  BY DEF ReplayOk, storeVars, SeenInv, TypeInv, TypeOK
<1>2. History' = History /\ CurrentState' = CurrentState
  BY <1>1 DEF CurrentState, History, Listed
<1>3. Reached(CurrentState)
  BY <1>1, StateIsReached DEF SeenInv
<1>4. /\ DOMAIN seen'[r] = DOMAIN seen[r] \cup {Len(seen[r]) + 1}
      /\ seen'[r][Len(seen[r]) + 1] = CurrentState
      /\ \A i \in DOMAIN seen[r] : seen'[r][i] = seen[r][i] /\ i < Len(seen[r]) + 1
      /\ \A i \in DOMAIN seen[r] : ~(Len(seen[r]) + 1 < i)
  BY <1>1
<1>5. ASSUME NEW q \in Readers, NEW i \in DOMAIN seen'[q]
      PROVE  Reached(seen[q][i])' /\ seen'[q][i] \subseteq CurrentState'
  <2>1. Reached(seen'[q][i]) /\ seen'[q][i] \subseteq CurrentState
    BY <1>1, <1>3, <1>4, <1>5 DEF SeenInv
  <2> QED BY <1>2, <2>1 DEF Reached
<1>6. ASSUME NEW q \in Readers, NEW i \in DOMAIN seen'[q], NEW j \in DOMAIN seen'[q], i < j
      PROVE  seen'[q][i] \subseteq seen'[q][j]
  <2>1. CASE q # r
    BY <1>1, <1>6, <2>1 DEF SeenInv
  <2>2. CASE q = r
    <3>1. i \in DOMAIN seen[r]
      BY <1>1, <1>4, <1>6, <2>2
    <3>2. CASE j \in DOMAIN seen[r]
      BY <1>4, <1>6, <2>2, <3>1, <3>2 DEF SeenInv
    <3>3. CASE j = Len(seen[r]) + 1
      BY <1>4, <2>2, <3>1, <3>3 DEF SeenInv
    <3> QED BY <1>4, <1>6, <2>2, <3>2, <3>3
  <2> QED BY <2>1, <2>2
<1>7. HasLast(History)'
  BY <1>2 DEF SeenInv, HasLast
<1> QED BY <1>5, <1>6, <1>7 DEF SeenInv

LEMMA LastStays == SeenInv /\ [Next]_vars => HasLast(History)'
<1> SUFFICES ASSUME SeenInv, [Next]_vars PROVE HasLast(History)'
  OBVIOUS
<1>1. ASSUME NEW w \in Workers, CommitEvent(w) PROVE HasLast(History)'
  <2>1. PICK e \in staged : events' = events \cup {e}
    BY <1>1 DEF CommitEvent
  <2>2. events \in SUBSET Event /\ e \in Event /\ History \in SUBSET Event
    BY <2>1 DEF SeenInv, TypeInv, TypeOK, History, Listed
  <2>3. History' \in {History, History \cup {e}}
    BY <2>1, <2>2, ListedAdd DEF History
  <2> QED BY <2>2, <2>3, HasLastAdd DEF SeenInv
<1>2. CASE UNCHANGED events
  <2>1. History' = History
    BY <1>2 DEF History, Listed
  <2> QED BY <2>1 DEF SeenInv
<1>3. (\E w \in Workers : CommitEvent(w)) \/ UNCHANGED events
  BY DEF Next, Submit, GateStep, OpenStore, CreateGenesis, CreateUniverse, ReadState, Validate,
         UniverseMissing, ComputeResult, StageEvent, StagingLost, WriteReceipt, CheckVisible,
         NotVisible, ReturnAccepted, WriteRejection, ReturnRejected, WriteFails, Kill,
         OpenForReplay, NoStore, ReplayStep, ListPartials, MovePartial, PartialGone, PartialsMoved,
         ReplayOk, ReplayFails, vars, storeVars
<1> QED BY <1>1, <1>2, <1>3

LEMMA SeenInvStep == SeenInv /\ [Next]_vars => SeenInv'
<1> SUFFICES ASSUME SeenInv, [Next]_vars PROVE SeenInv'
  OBVIOUS
<1>0. TypeInv /\ TypeInv' /\ events \subseteq events' /\ HasLast(History)'
  BY TypeInvStep, EventsStay, LastStays DEF SeenInv
<1>1. ASSUME NEW r \in Readers, ReplayOk(r) PROVE SeenInv'
  BY <1>0, <1>1, ReplaySees
<1>2. CASE \A r \in Readers : ~ReplayOk(r)
  <2>1. \A r \in Readers : seen'[r] \in {seen[r], <<>>}
    BY <1>0, <1>2
    DEF Next, Submit, GateStep, OpenStore, CreateGenesis, CreateUniverse, ReadState, Validate,
        UniverseMissing, ComputeResult, StageEvent, CommitEvent, StagingLost, WriteReceipt,
        CheckVisible, NotVisible, ReturnAccepted, WriteRejection, ReturnRejected, WriteFails, Kill,
        OpenForReplay, NoStore, ReplayStep, ListPartials, MovePartial, PartialGone, PartialsMoved,
        ReplayFails, vars, readerVars, TypeInv, TypeOK
  <2> QED BY <1>0, <2>1, SeenFrame
<1> QED BY <1>1, <1>2

(* With any number of workers racing beside it, an Episode B run answers   *)
(* with states the history reached, whole and oldest first.                *)
THEOREM ReplaysSeePrefixes == Spec => []ReplaySeesPrefixes
<1>1. SeenInv => ReplaySeesPrefixes
  BY DEF SeenInv, ReplaySeesPrefixes, Reached
<1> QED BY <1>1, SeenInvInit, SeenInvStep, PTL DEF Spec

-----------------------------------------------------------------------------
(* A history that replay has refused.                                      *)

(* The state e says it extends was that of files named before it.          *)
ExtendsSome(e, evs) ==
  \E P \in SUBSET evs : (\A f \in P : f.seq < e.seq) /\ e.parent = MaterializeState(P)

ReadSome(state, evs) == \E P \in SUBSET evs : state = MaterializeState(P)

LEMMA LeastSequence ==
  ASSUME NEW evs \in SUBSET Event, evs # {}
  PROVE  \E g \in evs : \A f \in evs : ~(f.seq < g.seq)
<1> DEFINE R == {ss \in Nat \X Nat : ss[1] < ss[2]}
           T == {g.seq : g \in evs}
<1>1. IsWellFoundedOn(R, Nat)
  BY NatLessThanWellFounded DEF OpToRel
<1>2. T \subseteq Nat /\ T # {}
  BY DEF Event
<1>3. PICK n \in T : \A m \in T : ~(<<m, n>> \in R)
  <2> HIDE DEF R, T
  <2> QED BY <1>1, <1>2, WFMin
<1>4. PICK g \in evs : n = g.seq
  BY <1>3
<1>5. ASSUME NEW f \in evs PROVE ~(f.seq < g.seq)
  <2>1. f.seq \in Nat /\ g.seq \in Nat
    BY DEF Event
  <2>2. ~(<<f.seq, g.seq>> \in R)
    BY <1>3, <1>4
  <2> QED BY <2>1, <2>2
<1> QED BY <1>5

(* A file that lands in the middle of a listing has atoms of its own: a    *)
(* later file can only have read them from another one between the two,    *)
(* and the earliest such file from none.  So one that lands in a listing   *)
(* which then replays has landed at its end.                               *)
LEMMA LandsLast ==
  ASSUME NEW evs \in SUBSET Event, NEW e \in Event, e \notin evs,
         SeedRelations \subseteq e.parent, e.atoms \cap e.parent = {},
         \A g \in evs : ExtendsSome(g, evs),
         Replays(evs \cup {e})
  PROVE  \A g \in evs : ~Precedes(e, g)
<1> DEFINE all == evs \cup {e}
           After == {g \in evs : Precedes(e, g)}
<1> SUFFICES ASSUME After # {} PROVE FALSE
  OBVIOUS
<1>1. PICK g \in After : \A f \in After : ~(f.seq < g.seq)
  BY LeastSequence
<1>2. PICK t : t \in e.atoms
  BY DEF Replays, ReplayAccepts
<1>3. t \in g.parent
  <2>1. g.parent = StateBefore(all, g)
    BY DEF Replays, ReplayAccepts
  <2> QED BY <1>2, <2>1 DEF StateBefore, MaterializeState
<1>4. PICK P \in SUBSET evs : (\A f \in P : f.seq < g.seq) /\ g.parent = MaterializeState(P)
  BY DEF ExtendsSome
<1>5. PICK f \in P : t \in f.atoms
  <2>1. t \notin SeedRelations
    BY <1>2
  <2> QED BY <1>3, <1>4, <2>1 DEF MaterializeState
<1>6. f \in evs /\ f # e /\ f.seq < g.seq
  BY <1>4
<1>7. CASE Precedes(f, e)
  <2>1. e.parent = StateBefore(all, e)
    BY DEF Replays, ReplayAccepts
  <2>2. t \in e.parent
    BY <1>5, <1>6, <1>7, <2>1 DEF StateBefore, MaterializeState
  <2> QED BY <1>2, <2>2
<1>8. CASE Precedes(e, f)
  BY <1>1, <1>6, <1>8
<1>9. Precedes(f, e) \/ Precedes(e, f)
  <2>1. all \in SUBSET Event /\ e \in all /\ f \in all
    BY <1>6
  <2> QED BY <1>6, <2>1, PrecedesTotal
<1> QED BY <1>7, <1>8, <1>9

LEMMA RefusedStays ==
  ASSUME NEW evs \in SUBSET Event, NEW e \in Event,
         SeedRelations \subseteq e.parent, e.atoms \cap e.parent = {},
         \A g \in evs : ExtendsSome(g, evs),
         Replays(evs \cup {e})
  PROVE  Replays(evs)
<1>1. CASE e \in evs
  <2>1. evs \cup {e} = evs
    BY <1>1
  <2> QED BY <2>1
<1>2. CASE e \notin evs
  <2>1. ASSUME NEW g \in evs PROVE ReplayAccepts(evs, g)
    <3>1. ReplayAccepts(evs \cup {e}, g)
      BY DEF Replays
    <3>2. ~Precedes(e, g)
      BY <1>2, LandsLast
    <3>3. {f \in evs \cup {e} : Precedes(f, g)} = {f \in evs : Precedes(f, g)}
      BY <3>2
    <3>4. StateBefore(evs \cup {e}, g) = StateBefore(evs, g)
      BY <3>3 DEF StateBefore
    <3> QED BY <3>1, <3>4 DEF ReplayAccepts
  <2> QED BY <2>1 DEF Replays
<1> QED BY <1>1, <1>2

(* Every event extends a state that files named before it came to, and so  *)
(* will the one a call is about to stage.                                  *)
OriginInv ==
  /\ FreshInv
  /\ \A e \in events \cup staged : ExtendsSome(e, History)
  /\ \A w \in Workers : pc[w] \in Deciding => ReadSome(before[w], History)

LEMMA OriginInvInit == Init => OriginInv
BY FreshInvInit DEF Init, OriginInv, Deciding

LEMMA OriginFrame ==
  ASSUME OriginInv, FreshInv', events \subseteq events',
         events' \cup staged' \subseteq events \cup staged,
         \A v \in Workers : pc'[v] \in Deciding => pc[v] \in Deciding /\ before'[v] = before[v]
  PROVE  OriginInv'
<1>1. History \subseteq History'
  BY ListingGrows
<1>2. \A e \in events' \cup staged' : ExtendsSome(e, History')
  BY <1>1 DEF OriginInv, ExtendsSome
<1>3. \A w \in Workers : pc'[w] \in Deciding => ReadSome(before'[w], History')
  BY <1>1 DEF OriginInv, ReadSome
<1> QED BY <1>2, <1>3 DEF OriginInv

LEMMA FinishKeepsOrigin ==
  ASSUME OriginInv, FreshInv', NEW w \in Workers, NEW s, NEW x, NEW y, Finish(w, s, x, y),
         UNCHANGED events, staged' \subseteq staged
  PROVE  OriginInv'
<1>1. TypeInv
  BY DEF OriginInv, FreshInv
<1> QED BY <1>1, OriginFrame, FinishFrame DEF Deciding

LEMMA GateKeepsOrigin ==
  ASSUME OriginInv, FreshInv', NEW w \in Workers, GateStep(w)
  PROVE  OriginInv'
<1> USE DEF storeVars, idVars, readerVars
<1>0. TypeInv
  BY DEF OriginInv, FreshInv
<1>1. ASSUME OpenStore(w) \/ CreateGenesis(w) \/ CreateUniverse(w) \/ Validate(w)
             \/ ComputeResult(w) \/ CommitEvent(w) \/ WriteReceipt(w) \/ CheckVisible(w)
             \/ WriteRejection(w)
      PROVE  OriginInv'
  <2>1. \A v \in Workers : pc'[v] \in Deciding => pc[v] \in Deciding /\ before'[v] = before[v]
    BY <1>0, <1>1
    DEF OpenStore, CreateGenesis, CreateUniverse, Validate, ComputeResult, CommitEvent,
        WriteReceipt, CheckVisible, WriteRejection, Goto, Deciding, TypeInv, TypeOK
  <2>2. events \subseteq events' /\ events' \cup staged' \subseteq events \cup staged
    BY <1>1
    DEF OpenStore, CreateGenesis, CreateUniverse, Validate, ComputeResult, CommitEvent,
        WriteReceipt, CheckVisible, WriteRejection
  <2> QED BY <2>1, <2>2, OriginFrame
<1>2. ASSUME UniverseMissing(w) \/ StagingLost(w) \/ NotVisible(w) \/ ReturnAccepted(w)
             \/ ReturnRejected(w)
      PROVE  OriginInv'
  BY <1>2, FinishKeepsOrigin
  DEF UniverseMissing, StagingLost, NotVisible, ReturnAccepted, ReturnRejected
<1>3. CASE ReadState(w)
  <2>1. /\ before'[w] = MaterializeState(History) /\ UNCHANGED <<events, staged>>
        /\ \A v \in Workers : v # w => pc'[v] = pc[v] /\ before'[v] = before[v]
    BY <1>0, <1>3 DEF ReadState, Goto, CurrentState, TypeInv, TypeOK
  <2>2. ReadSome(before'[w], History)
    BY <2>1 DEF ReadSome
  <2>3. History' = History
    BY <2>1 DEF History, Listed
  <2> QED BY <2>1, <2>2, <2>3 DEF OriginInv
<1>4. CASE StageEvent(w)
  <2>1. PICK id \in Ids \ usedIds : staged' = staged \cup {NewEvent(w, id)}
    BY <1>4 DEF StageEvent
  <2>2. /\ pc[w] = "resulted" /\ UNCHANGED <<events, before>>
        /\ \A v \in Workers : v # w => pc'[v] = pc[v]
        /\ pc'[w] = "staged"
    BY <1>0, <1>4 DEF StageEvent, Goto, TypeInv, TypeOK
  <2>3. NewEvent(w, id).parent = before[w] /\ NewEvent(w, id).seq = NextSequence(History)
    BY DEF NewEvent
  <2>4. PICK P \in SUBSET History : before[w] = MaterializeState(P)
    BY <2>2 DEF OriginInv, ReadSome, Deciding
  <2>5. \A f \in History : f.seq < NextSequence(History)
    BY <1>0, NextSequenceFollows DEF TypeInv, TypeOK, History, Listed
  <2>6. ExtendsSome(NewEvent(w, id), History)
    BY <2>3, <2>4, <2>5 DEF ExtendsSome
  <2>7. History' = History
    BY <2>2 DEF History, Listed
  <2> QED BY <2>1, <2>2, <2>6, <2>7 DEF OriginInv, Deciding
<1> QED
  BY <1>1, <1>2, <1>3, <1>4 DEF GateStep

LEMMA OriginInvStep == OriginInv /\ [Next]_vars => OriginInv'
<1> SUFFICES ASSUME OriginInv, [Next]_vars PROVE OriginInv'
  OBVIOUS
<1>0. TypeInv /\ FreshInv'
  BY FreshInvStep DEF OriginInv, FreshInv
<1>1. ASSUME NEW w \in Workers, NEW c \in Candidates, NEW s \in Scopes, Submit(w, c, s)
      PROVE  OriginInv'
  <2>1. \A v \in Workers : pc'[v] \in Deciding => pc[v] \in Deciding /\ before'[v] = before[v]
    BY <1>0, <1>1 DEF Submit, Goto, Deciding, TypeInv, TypeOK
  <2> QED BY <1>0, <1>1, <2>1, OriginFrame DEF Submit, storeVars
<1>2. ASSUME NEW w \in Workers, GateStep(w) PROVE OriginInv'
  BY <1>0, <1>2, GateKeepsOrigin
<1>3. ASSUME NEW w \in Workers, WriteFails(w) PROVE OriginInv'
  BY <1>0, <1>3, FinishKeepsOrigin DEF WriteFails
<1>4. ASSUME NEW w \in Workers, Kill(w) PROVE OriginInv'
  BY <1>0, <1>4, FinishKeepsOrigin DEF Kill, storeVars
<1>5. ASSUME staged' \subseteq staged, UNCHANGED <<events, receipts, idVars, workerVars>>
      PROVE  OriginInv'
  BY <1>0, <1>5, OriginFrame DEF workerVars
<1>6. ASSUME NEW r \in Readers, OpenForReplay(r) \/ NoStore(r) \/ ReplayStep(r) PROVE OriginInv'
  BY <1>5, <1>6, ReaderFrame
<1>7. CASE UNCHANGED vars
  BY <1>5, <1>7 DEF vars, storeVars
<1> QED
  BY <1>1, <1>2, <1>3, <1>4, <1>6, <1>7 DEF Next

LEMMA RefusalStep == OriginInv /\ [Next]_vars => [~HistoryReplays => ~HistoryReplays']_vars
<1> SUFFICES ASSUME OriginInv, [Next]_vars, HistoryReplays' PROVE HistoryReplays
  OBVIOUS
<1>1. CASE UNCHANGED events
  <2>1. History' = History
    BY <1>1 DEF History, Listed
  <2> QED BY <2>1 DEF HistoryReplays
<1>2. ASSUME NEW w \in Workers, CommitEvent(w) PROVE HistoryReplays
  <2>1. PICK e \in staged : events' = events \cup {e}
    BY <1>2 DEF CommitEvent
  <2>2. events \in SUBSET Event /\ e \in Event /\ History \in SUBSET Event
    BY <2>1 DEF OriginInv, FreshInv, TypeInv, TypeOK, History, Listed
  <2>3. SeedRelations \subseteq e.parent /\ e.atoms \cap e.parent = {}
    BY DEF OriginInv, FreshInv
  <2>4. \A g \in History : ExtendsSome(g, History)
    BY DEF OriginInv, History, Listed
  <2>5. History' \in {History, History \cup {e}}
    BY <2>1, <2>2, ListedAdd DEF History
  <2>6. Replays(History')
    BY DEF HistoryReplays
  <2>7. Replays(History)
    BY <2>2, <2>3, <2>4, <2>5, <2>6, RefusedStays
  <2> QED BY <2>7 DEF HistoryReplays
<1>3. (\E w \in Workers : CommitEvent(w)) \/ UNCHANGED events
  BY DEF Next, Submit, GateStep, OpenStore, CreateGenesis, CreateUniverse, ReadState, Validate,
         UniverseMissing, ComputeResult, StageEvent, StagingLost, WriteReceipt, CheckVisible,
         NotVisible, ReturnAccepted, WriteRejection, ReturnRejected, WriteFails, Kill,
         OpenForReplay, NoStore, ReplayStep, ListPartials, MovePartial, PartialGone, PartialsMoved,
         ReplayOk, ReplayFails, vars, storeVars
<1> QED BY <1>1, <1>2, <1>3

(* A history that replay has refused is refused for good: no event a       *)
(* racing or late worker commits can make a forked chain look whole again. *)
THEOREM RefusalsAreFinal == Spec => RefusalIsFinal
<1>1. OriginInv /\ [Next]_vars => OriginInv'
  BY OriginInvStep
<1> QED BY <1>1, OriginInvInit, RefusalStep, PTL DEF Spec, RefusalIsFinal

-----------------------------------------------------------------------------
(* One worker at a time: the listing is one hash chain and the store       *)
(* implements the abstract log, whatever is killed, fails or is moved away *)
(* by readers.                                                             *)

(* Appending to a chain that replays.                                      *)

(* e continues the listing evs.                                            *)
Continues(e, evs) ==
  /\ \A f \in evs : f.seq < e.seq
  /\ e.parent = MaterializeState(evs)
  /\ e.atoms # {} /\ ValidBatch(e.atoms, MaterializeState(evs))
  /\ e.result = MaterializeState(evs) \cup e.atoms

LEMMA AppendReplays ==
  ASSUME NEW evs \in SUBSET Event, NEW e \in Event, Replays(evs), Continues(e, evs),
         \A f \in evs : f.id # e.id
  PROVE  Replays(evs \cup {e})
<1> DEFINE all == evs \cup {e}
<1>1. (\A f \in evs : f.seq \in Nat) /\ e.seq \in Nat
  BY DEF Event
<1>2. ASSUME NEW f \in evs PROVE ReplayAccepts(all, f)
  <2>1. ~Precedes(e, f)
    BY <1>1 DEF Precedes, Continues
  <2>2. {g \in all : Precedes(g, f)} = {g \in evs : Precedes(g, f)}
    BY <2>1
  <2>3. StateBefore(all, f) = StateBefore(evs, f)
    BY <2>2 DEF StateBefore
  <2>4. ReplayAccepts(evs, f)
    BY DEF Replays
  <2>5. \A g \in all : g.id = f.id => g = f
    BY <2>4 DEF ReplayAccepts
  <2> HIDE DEF all
  <2> QED BY <2>3, <2>4, <2>5 DEF ReplayAccepts
<1>3. ReplayAccepts(all, e)
  <2>0. e.id \in Nat
    BY ContinuityAssumptions DEF Event
  <2>1. ~Precedes(e, e) /\ \A f \in evs : Precedes(f, e)
    BY <1>1, <2>0 DEF Precedes, Continues
  <2>2. {g \in all : Precedes(g, e)} = evs
    BY <2>1
  <2>3. StateBefore(all, e) = MaterializeState(evs)
    BY <2>2 DEF StateBefore
  <2>4. \A g \in all : g.id = e.id => g = e
    OBVIOUS
  <2> HIDE DEF all
  <2> QED BY <2>3, <2>4 DEF ReplayAccepts, Continues, ValidBatch
<1> QED BY <1>2, <1>3 DEF Replays

LEMMA MaterializeAdd ==
  ASSUME NEW evs, NEW e
  PROVE  MaterializeState(evs \cup {e}) = MaterializeState(evs) \cup e.atoms
BY DEF MaterializeState

-----------------------------------------------------------------------------
(* The inductive invariant.                                                *)

OneWorker == \A v, w \in Workers : v = w

(* What the call in progress knows is still true of the store when it      *)
(* uses it, because no other call appends in between.                      *)
CallInv(w) ==
  /\ pc[w] \in Deciding => before[w] = CurrentState /\ Batch(cand[w]) # {}
  /\ pc[w] \in Deciding \ {"parsed"} => ValidBatch(Batch(cand[w]), CurrentState)
  /\ pc[w] = "resulted" => result[w] = CurrentState \cup Batch(cand[w])
  /\ pc[w] = "staged" => \A e \in staged : e.id = draft[w] => Continues(e, History)

ChainInv ==
  /\ TypeInv
  /\ \A e \in events \cup staged : e.id \in usedIds /\ e.atoms = Batch(e.cand)
  /\ \A e, f \in events \cup staged : e.id = f.id => e = f
  /\ Replays(History)
  /\ \A w \in Workers : CallInv(w)

LEMMA ChainInvInit == Init => ChainInv
BY TypeInvInit DEF Init, ChainInv, CallInv, Deciding, History, Listed, Replays

LEMMA SameHistory ==
  ASSUME UNCHANGED events
  PROVE  History' = History /\ CurrentState' = CurrentState
BY DEF History, Listed, CurrentState

(* Steps that leave the events alone and at most remove staged files.      *)
LEMMA ChainFrame ==
  ASSUME ChainInv, TypeInv', UNCHANGED events, staged' \subseteq staged,
         usedIds \subseteq usedIds', \A w \in Workers : CallInv(w)'
  PROVE  ChainInv'
BY SameHistory DEF ChainInv

LEMMA FinishKeepsChain ==
  ASSUME ChainInv, TypeInv', NEW w \in Workers, NEW s, NEW x, NEW y, Finish(w, s, x, y),
         UNCHANGED <<events, usedIds>>, staged' \subseteq staged
  PROVE  ChainInv'
<1>1. TypeInv
  BY DEF ChainInv
<1>2. ASSUME NEW v \in Workers PROVE CallInv(v)'
  BY <1>1, FinishFrame, SameHistory DEF ChainInv, CallInv, Deciding
<1> QED BY <1>2, ChainFrame

LEMMA WellFormedBatch ==
  ASSUME NEW c \in Candidates, WellFormed(c)
  PROVE  Batch(c) # {}
<1>1. AssertionsOf[c] \in Seq(Triples) /\ AssertionsOf[c] # <<>>
  BY ContinuityAssumptions DEF WellFormed
<1>2. 1 \in DOMAIN AssertionsOf[c]
  BY <1>1
<1> QED BY <1>2 DEF Batch, Range

LEMMA GateKeepsChain ==
  ASSUME OneWorker, ChainInv, TypeInv', NEW w \in Workers, GateStep(w)
  PROVE  ChainInv'
<1> USE DEF storeVars, idVars, readerVars
<1>0. TypeInv /\ \A v \in Workers : v = w
  BY DEF ChainInv, OneWorker
<1>1. ASSUME OpenStore(w) \/ CreateGenesis(w) \/ CreateUniverse(w) \/ WriteReceipt(w)
             \/ CheckVisible(w) \/ WriteRejection(w)
      PROVE  ChainInv'
  <2>1. pc'[w] \notin Deciding \cup {"staged"}
    BY <1>1
    DEF OpenStore, CreateGenesis, CreateUniverse, WriteReceipt, CheckVisible, WriteRejection, Goto,
        Deciding, ChainInv, TypeInv, TypeOK
  <2>2. UNCHANGED <<events, staged>> /\ usedIds \subseteq usedIds'
    BY <1>1
    DEF OpenStore, CreateGenesis, CreateUniverse, WriteReceipt, CheckVisible, WriteRejection
  <2>3. CallInv(w)'
    BY <2>1 DEF CallInv, Deciding
  <2> QED BY <1>0, <2>2, <2>3, ChainFrame
<1>2. ASSUME UniverseMissing(w) \/ StagingLost(w) \/ NotVisible(w) \/ ReturnAccepted(w)
             \/ ReturnRejected(w)
      PROVE  ChainInv'
  BY <1>2, FinishKeepsChain
  DEF UniverseMissing, StagingLost, NotVisible, ReturnAccepted, ReturnRejected
<1>3. CASE ReadState(w)
  <2>1. /\ before'[w] = CurrentState /\ cand' = cand /\ UNCHANGED <<events, staged, usedIds>>
        /\ pc[w] = "read" /\ pc'[w] = IF WellFormed(cand[w]) THEN "parsed" ELSE "reject"
    BY <1>0, <1>3 DEF ReadState, Goto, TypeInv, TypeOK
  <2>2. cand[w] \in Candidates
    BY <1>0, <2>1 DEF TypeInv
  <2>3. pc'[w] = "parsed" => Batch(cand[w]) # {}
    BY <2>1, <2>2, WellFormedBatch
  <2>4. CallInv(w)'
    BY <2>1, <2>3, SameHistory DEF CallInv, Deciding
  <2> QED BY <1>0, <2>1, <2>4, ChainFrame
<1>4. CASE Validate(w)
  <2>1. /\ UNCHANGED <<events, staged, usedIds, cand, before>>
        /\ pc[w] = "parsed" /\ pc'[w] \in {"valid", "reject"}
        /\ pc'[w] = "valid" => ValidBatch(Batch(cand[w]), CurrentState)
    BY <1>0, <1>4 DEF Validate, Goto, TypeInv, TypeOK
  <2>2. CallInv(w)'
    BY <2>1, SameHistory DEF ChainInv, CallInv, Deciding
  <2> QED BY <1>0, <2>1, <2>2, ChainFrame
<1>5. CASE ComputeResult(w)
  <2>1. /\ UNCHANGED <<events, staged, usedIds, cand, before>>
        /\ pc[w] = "valid" /\ pc'[w] = "resulted"
        /\ result'[w] = CurrentState \cup Batch(cand[w])
    BY <1>0, <1>5 DEF ComputeResult, Goto, TypeInv, TypeOK
  <2>2. CallInv(w)'
    BY <2>1, SameHistory DEF ChainInv, CallInv, Deciding
  <2> QED BY <1>0, <2>1, <2>2, ChainFrame
<1>6. CASE StageEvent(w)
  <2>1. PICK id \in Ids \ usedIds : /\ usedIds' = usedIds \cup {id}
                                    /\ draft' = [draft EXCEPT ![w] = id]
                                    /\ staged' = staged \cup {NewEvent(w, id)}
    BY <1>6 DEF StageEvent
  <2>2. pc[w] = "resulted" /\ pc'[w] = "staged" /\ draft'[w] = id /\ UNCHANGED events
    BY <1>0, <1>6, <2>1 DEF StageEvent, Goto, TypeInv, TypeOK
  <2>3. /\ before[w] = CurrentState /\ Batch(cand[w]) # {}
        /\ ValidBatch(Batch(cand[w]), CurrentState)
        /\ result[w] = CurrentState \cup Batch(cand[w])
    BY <2>2 DEF ChainInv, CallInv, Deciding
  <2>4. \A f \in History : f.seq < NextSequence(History)
    BY <1>0, NextSequenceFollows DEF TypeInv, TypeOK, History, Listed
  <2>5. Continues(NewEvent(w, id), History)
    BY <2>3, <2>4 DEF Continues, NewEvent, CurrentState
  <2>6. /\ NewEvent(w, id).id = id /\ NewEvent(w, id).atoms = Batch(NewEvent(w, id).cand)
    BY DEF NewEvent
  <2>7. \A e \in events' \cup staged' : e.id \in usedIds' /\ e.atoms = Batch(e.cand)
    BY <2>1, <2>2, <2>6 DEF ChainInv
  <2>8. \A e, f \in events' \cup staged' : e.id = f.id => e = f
    BY <2>1, <2>2, <2>6 DEF ChainInv
  <2>9. \A e \in staged' : e.id = id => e = NewEvent(w, id)
    BY <2>1 DEF ChainInv
  <2>10. CallInv(w)'
    BY <2>2, <2>5, <2>9, SameHistory DEF CallInv, Deciding
  <2> QED BY <1>0, <2>2, <2>7, <2>8, <2>10, SameHistory DEF ChainInv
<1>7. CASE CommitEvent(w)
  <2>1. PICK e \in staged : e.id = draft[w] /\ events' = events \cup {e} /\ staged' = staged \ {e}
    BY <1>7 DEF CommitEvent
  <2>2. pc[w] = "staged" /\ pc'[w] = "committed" /\ UNCHANGED usedIds
    BY <1>0, <1>7 DEF CommitEvent, Goto, TypeInv, TypeOK
  <2>3. Continues(e, History)
    BY <2>1, <2>2 DEF ChainInv, CallInv
  <2>4. CASE e \in events
    <3>1. events' = events
      BY <2>1, <2>4
    <3>2. Replays(History)'
      BY <3>1, SameHistory DEF ChainInv
    <3>3. CallInv(w)'
      BY <2>2 DEF CallInv, Deciding
    <3> QED BY <1>0, <2>1, <2>2, <3>1, <3>3, ChainFrame
  <2>5. CASE e \notin events
    <3>1. \A f \in History : f.id # e.id
      BY <2>1, <2>5 DEF ChainInv, History, Listed
    <3>2. events \in SUBSET Event /\ e \in Event /\ History \in SUBSET Event
      BY <1>0, <2>1 DEF TypeInv, TypeOK, History, Listed
    <3>3. History' = IF e.seq <= MaxListed THEN History \cup {e} ELSE History
      BY <2>1, <3>2, ListedAdd DEF History
    <3>4. Replays(History \cup {e})
      BY <2>3, <3>1, <3>2, AppendReplays DEF ChainInv
    <3>5. Replays(History)'
      BY <3>3, <3>4 DEF ChainInv
    <3>6. CallInv(w)'
      BY <2>2 DEF CallInv, Deciding
    <3>7. events' \cup staged' = events \cup staged
      BY <2>1
    <3> QED BY <1>0, <2>2, <3>5, <3>6, <3>7 DEF ChainInv
  <2> QED BY <2>4, <2>5
<1> QED
  BY <1>1, <1>2, <1>3, <1>4, <1>5, <1>6, <1>7 DEF GateStep

LEMMA ChainInvStep == OneWorker => (ChainInv /\ [Next]_vars => ChainInv')
<1> SUFFICES ASSUME OneWorker, ChainInv, [Next]_vars PROVE ChainInv'
  OBVIOUS
<1>0. TypeInv /\ TypeInv'
  BY TypeInvStep DEF ChainInv
<1>1. ASSUME NEW w \in Workers, NEW c \in Candidates, NEW s \in Scopes, Submit(w, c, s)
      PROVE  ChainInv'
  <2>1. pc'[w] = "open" /\ \A v \in Workers : v = w
    BY <1>0, <1>1 DEF Submit, Goto, TypeInv, TypeOK, OneWorker
  <2>2. \A v \in Workers : CallInv(v)'
    BY <2>1 DEF CallInv, Deciding
  <2> QED BY <1>0, <1>1, <2>2, ChainFrame DEF Submit, storeVars
<1>2. ASSUME NEW w \in Workers, GateStep(w) PROVE ChainInv'
  BY <1>0, <1>2, GateKeepsChain
<1>3. ASSUME NEW w \in Workers, WriteFails(w) PROVE ChainInv'
  BY <1>0, <1>3, FinishKeepsChain DEF WriteFails, idVars
<1>4. ASSUME NEW w \in Workers, Kill(w) PROVE ChainInv'
  BY <1>0, <1>4, FinishKeepsChain DEF Kill, storeVars, idVars
<1>5. ASSUME staged' \subseteq staged, UNCHANGED <<events, receipts, idVars, workerVars>>
      PROVE  ChainInv'
  <2>1. \A v \in Workers : CallInv(v)'
    BY <1>5, SameHistory DEF ChainInv, CallInv, workerVars
  <2> QED BY <1>0, <1>5, <2>1, ChainFrame DEF idVars
<1>6. ASSUME NEW r \in Readers, OpenForReplay(r) \/ NoStore(r) \/ ReplayStep(r) PROVE ChainInv'
  BY <1>5, <1>6, ReaderFrame
<1>7. CASE UNCHANGED vars
  BY <1>5, <1>7 DEF vars, storeVars
<1> QED
  BY <1>1, <1>2, <1>3, <1>4, <1>6, <1>7 DEF Next

LEMMA ChainInvariance ==
  ASSUME OneWorker
  PROVE  Spec => []ChainInv
<1>1. ChainInv /\ [Next]_vars => ChainInv'
  BY ChainInvStep
<1> QED BY <1>1, ChainInvInit, PTL DEF Spec

(* With one Episode A process at a time, no kill, failed write or          *)
(* quarantine ever leaves a history that Episode B cannot replay.          *)
THEOREM OneWorkerReplays ==
  ASSUME OneWorker
  PROVE  Spec => []HistoryReplays
<1>1. ChainInv => HistoryReplays
  BY DEF ChainInv, HistoryReplays
<1> QED BY <1>1, ChainInvariance, PTL

(* With one Episode A process at a time no relation is accepted twice, nor *)
(* one of the seed again.                                                  *)
THEOREM OneWorkerAcceptsOnce ==
  ASSUME OneWorker
  PROVE  Spec => []AcceptedOnce
<1>1. HistoryReplays /\ ReplayedOnce => AcceptedOnce
  BY DEF ReplayedOnce
<1> QED BY <1>1, OneWorkerReplays, ReplayIsSingular, PTL

-----------------------------------------------------------------------------
(* Refinement of ContinuityLog.                                            *)

LEMMA LogInit == Init => Log!Init
BY DEF Init, Log!Init, CurrentState, MaterializeState, History, Listed

LEMMA LogStep ==
  ASSUME OneWorker, ChainInv, ChainInv', [Next]_vars
  PROVE  [Log!Next]_<<CurrentState, {e.cand : e \in History}>>
<1>1. CASE UNCHANGED events
  BY <1>1, SameHistory
<1>2. ASSUME NEW w \in Workers, CommitEvent(w)
      PROVE  [Log!Next]_<<CurrentState, {e.cand : e \in History}>>
  <2>1. PICK e \in staged : e.id = draft[w] /\ events' = events \cup {e}
    BY <1>2 DEF CommitEvent
  <2>2. Continues(e, History)
    BY <1>2, <2>1 DEF CommitEvent, Goto, ChainInv, CallInv
  <2>3. events \in SUBSET Event /\ e \in Event
    BY <2>1 DEF ChainInv, TypeInv, TypeOK
  <2>4. CASE e.seq <= MaxListed
    <3>1. History' = History \cup {e}
      BY <2>1, <2>3, <2>4, ListedAdd DEF History
    <3>2. CurrentState' = CurrentState \cup e.atoms
      BY <3>1, MaterializeAdd DEF CurrentState
    <3>3. {f.cand : f \in History'} = {f.cand : f \in History} \cup {e.cand}
      BY <3>1
    <3>4. e.atoms = Batch(e.cand) /\ \A f \in History : f.atoms = Batch(f.cand)
      BY <2>1 DEF ChainInv, History, Listed
    <3>5. /\ e.atoms # {} /\ e.atoms \cap CurrentState = {}
          /\ \A t \in e.atoms : InUniverse(t) /\ t \notin ForbiddenAssertions
      BY <2>2 DEF Continues, ValidBatch, CurrentState
    <3>6. e.cand \in Candidates /\ e.atoms \subseteq Triples
      BY <2>3 DEF Event
    <3>7. e.cand \notin {f.cand : f \in History}
      <4>1. \A f \in History : f.atoms \subseteq CurrentState
        BY DEF CurrentState, MaterializeState
      <4> QED BY <3>4, <3>5, <4>1
    <3>8. Log!Accept(e.cand)
      BY <3>2, <3>3, <3>4, <3>5, <3>6, <3>7 DEF Log!Accept
    <3> QED BY <3>6, <3>8 DEF Log!Next
  <2>5. CASE ~(e.seq <= MaxListed)
    <3>1. History' = History
      BY <2>1, <2>3, <2>5, ListedAdd DEF History
    <3> QED BY <3>1 DEF CurrentState
  <2> QED BY <2>4, <2>5
<1>3. (\E w \in Workers : CommitEvent(w)) \/ UNCHANGED events
  BY DEF Next, Submit, GateStep, OpenStore, CreateGenesis, CreateUniverse, ReadState, Validate,
         UniverseMissing, ComputeResult, StageEvent, StagingLost, WriteReceipt, CheckVisible,
         NotVisible, ReturnAccepted, WriteRejection, ReturnRejected, WriteFails, Kill,
         OpenForReplay, NoStore, ReplayStep, ListPartials, MovePartial, PartialGone, PartialsMoved,
         ReplayOk, ReplayFails, vars, storeVars
<1> QED BY <1>1, <1>2, <1>3

(* With one Episode A process at a time the store implements the abstract  *)
(* log: its state grows only by whole, new and admissible candidates.      *)
THEOREM OneWorkerRefines ==
  ASSUME OneWorker
  PROVE  Spec => LogSpec
<1>1. ChainInv /\ ChainInv' /\ [Next]_vars => [Log!Next]_<<CurrentState, {e.cand : e \in History}>>
  BY LogStep
<1> QED BY <1>1, LogInit, ChainInvariance, PTL DEF Spec, LogSpec, Log!Spec
=============================================================================
