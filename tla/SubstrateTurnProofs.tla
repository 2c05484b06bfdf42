------------------------- MODULE SubstrateTurnProofs -------------------------
(***************************************************************************)
(* Proofs about SubstrateTurn for every set of processes and dashboards,   *)
(* every max_repair and any number of turns and sessions: the types, that  *)
(* the memory is of one conversation, and that the logs agree with each    *)
(* other about every turn; with one process, also that they agree with     *)
(* what was applied.                                                       *)
(***************************************************************************)
EXTENDS SubstrateTurn, FiniteSetTheorems, TLAPS

-----------------------------------------------------------------------------
(* Operators.                                                              *)

LEMMA Appended ==
  ASSUME NEW S, NEW log \in Seq(S), NEW r \in S
  PROVE  LET g == Append(log, r) IN
         /\ g \in Seq(S)
         /\ DOMAIN g = DOMAIN log \cup {Len(log) + 1} /\ Len(log) + 1 \notin DOMAIN log
         /\ \A i \in DOMAIN log : g[i] = log[i]
         /\ g[Len(log) + 1] = r
OBVIOUS

(* What is kept of the memory are exchanges that were in it.               *)
LEMMA FittedKeeps ==
  ASSUME NEW recent \in Seq(Exchange), NEW kept \in Fitted(recent)
  PROVE  /\ kept \in Seq(Exchange)
         /\ \A i \in DOMAIN kept : \E j \in DOMAIN recent : kept[i] = recent[j]
<1>1. PICK k \in 1..Len(recent) : kept = SubSeq(recent, k, Len(recent))
  BY DEF Fitted
<1>2. Len(recent) \in Nat /\ DOMAIN recent = 1..Len(recent)
  OBVIOUS
<1>3. kept \in Seq(Exchange)
  BY <1>1, <1>2
<1>4. /\ DOMAIN kept = 1..(Len(recent) - k + 1)
      /\ \A i \in 1..(Len(recent) - k + 1) : kept[i] = recent[k + i - 1]
  BY <1>1, <1>2
<1>5. \A i \in DOMAIN kept : k + i - 1 \in DOMAIN recent
  BY <1>1, <1>2, <1>4
<1> QED BY <1>3, <1>4, <1>5

(* A slice of a log is rows of it.                                         *)
LEMMA NewLinesTyped ==
  ASSUME NEW S, NEW log \in Seq(S), NEW from \in Nat, NEW n \in Nat
  PROVE  NewLines(log, from, n) \in Seq(S)
<1>1. Len(log) \in Nat
  OBVIOUS
<1>2. CASE from + n < Len(log)
  <2>1. SubSeq(log, from + 1, from + n) \in Seq(S)
    BY <1>1, <1>2
  <2> QED BY <1>2, <2>1 DEF NewLines
<1>3. CASE ~(from + n < Len(log))
  <2>1. SubSeq(log, from + 1, Len(log)) \in Seq(S)
    BY <1>1
  <2> QED BY <1>3, <2>1 DEF NewLines
<1> QED BY <1>2, <1>3

LEMMA DecisionCases ==
  ASSUME NEW ready \in BOOLEAN, NEW overruled \in BOOLEAN, NEW pass \in Nat
  PROVE  /\ Decision(ready, overruled, pass) \in {"accept", "repair", "reject"}
         /\ Decision(ready, overruled, pass) = "repair" => pass = 0
BY DEF Decision, Repairable

-----------------------------------------------------------------------------
(* Where a turn stands and how many candidates it has judged.              *)

Fresh == {"session", "countC", "countR", "load", "loadT"}
Final == {"touch", "touchT", "keep", "count", "receipt", "candidate", "history"}
Repairing == {"repair", "repairR"}

PassInv ==
  \A p \in Procs :
    /\ proc[p].pc \in Fresh => proc[p].judged = 0
    /\ proc[p].pc = "infer" => proc[p].judged \in {0, 1}
    /\ proc[p].pc \in Final => /\ proc[p].judged \in {1, 2}
                               /\ proc[p].verdict.decision \in {"accept", "reject"}
    /\ proc[p].pc \in Repairing => /\ proc[p].judged = 1
                                   /\ proc[p].verdict.decision = "repair"

Good(new) ==
  /\ new \in Proc
  /\ new.pc \in Fresh => new.judged = 0
  /\ new.pc = "infer" => new.judged \in {0, 1}
  /\ new.pc \in Final => new.judged \in {1, 2} /\ new.verdict.decision \in {"accept", "reject"}
  /\ new.pc \in Repairing => new.judged = 1 /\ new.verdict.decision = "repair"

LEMMA Becomes ==
  ASSUME TypeOK, NEW p \in Procs, NEW new, Become(p, new)
  PROVE  proc'[p] = new /\ \A q \in Procs : q # p => proc'[q] = proc[q]
BY DEF TypeOK, Become

LEMMA BecomesGood ==
  ASSUME TypeOK, PassInv, NEW p \in Procs, NEW new, Good(new), Become(p, new)
  PROVE  proc' \in [Procs -> Proc] /\ PassInv'
<1>1. proc'[p] = new /\ \A q \in Procs : q # p => proc'[q] = proc[q]
  BY Becomes
<1>2. proc' \in [Procs -> Proc]
  BY DEF TypeOK, Become, Good
<1>3. PassInv'
  BY <1>1 DEF PassInv, Good
<1> QED BY <1>2, <1>3

LEMMA IdleGood == Good(Idle)
BY TurnAssumptions
DEF Good, Idle, Proc, Steps, Snapshot, Seed, Verdict, NoVerdict, Mark, Fresh, Final, Repairing

LEMMA AfterTurnGood ==
  ASSUME TypeOK, NEW p \in Procs
  PROVE  Good(AfterTurn(p))
<1>1. proc[p] \in Proc
  BY DEF TypeOK
<1>2. Good([proc[p] EXCEPT !.pc = "readC"])
  BY <1>1 DEF Good, Proc, Steps, Fresh, Final, Repairing
<1> QED BY <1>2, IdleGood DEF AfterTurn

-----------------------------------------------------------------------------
(* Types.                                                                  *)

TypeInv == TypeOK /\ PassInv

(* A step that only moves one process.                                     *)
LEMMA LocalStep ==
  ASSUME TypeInv, NEW p \in Procs, NEW new, Good(new), Become(p, new),
         UNCHANGED <<current, threads, logs, traces, counters>>
  PROVE  TypeInv'
<1>1. UNCHANGED <<current, threads, candidates, receipts, history, errors, traces, turns, sessions>>
  BY DEF logs, counters
<1>2. proc' \in [Procs -> Proc] /\ PassInv'
  BY BecomesGood DEF TypeInv
<1> QED BY <1>1, <1>2 DEF TypeInv, TypeOK

(* A turn judges its next candidate.                                       *)
LEMMA JudgedGood ==
  ASSUME TypeInv, NEW p \in Procs, At(p, "infer"),
         NEW d \in {"accept", "repair", "reject"}, d = "repair" => proc[p].judged = 0,
         NEW touch \in BOOLEAN, NEW keep \in BOOLEAN,
         NEW v, v = [decision |-> d, touch |-> touch /\ d = "accept", keep |-> keep /\ d = "accept"]
  PROVE  Good([proc[p] EXCEPT !.judged = @ + 1, !.verdict = v, !.pc = StepAfter(v)])
<1> DEFINE new == [proc[p] EXCEPT !.judged = @ + 1, !.verdict = v, !.pc = StepAfter(v)]
<1>1. proc[p] \in Proc /\ proc[p].judged \in {0, 1}
  BY DEF TypeInv, TypeOK, PassInv, At
<1>2. v \in Verdict /\ v.decision = d
  BY DEF Verdict
<1>3. /\ StepAfter(v) \in {"repair", "receipt", "touch", "keep", "count"}
      /\ StepAfter(v) = "repair" <=> d = "repair"
  BY <1>2 DEF StepAfter
<1>4. proc[p].judged + 1 \in {1, 2} /\ (d = "repair" => proc[p].judged + 1 = 1)
  BY <1>1
<1>5. /\ new.pc = StepAfter(v) /\ new.verdict = v /\ new.judged = proc[p].judged + 1
      /\ new \in Proc
  <2> DEFINE j == proc[p].judged + 1
             s == StepAfter(v)
  <2>1. j \in 0..2 /\ s \in Steps
    BY <1>3, <1>4 DEF Steps
  <2>2. new = [proc[p] EXCEPT !.judged = j, !.verdict = v, !.pc = s]
    OBVIOUS
  <2> HIDE DEF j, s, new
  <2>3. new.pc = s /\ new.verdict = v /\ new.judged = j /\ new \in Proc
    BY <1>1, <1>2, <2>1, <2>2 DEF Proc
  <2> QED BY <2>3 DEF j, s
<1> HIDE DEF new
<1>6. Good(new)
  BY <1>2, <1>3, <1>4, <1>5 DEF Good, Fresh, Final, Repairing
<1> QED BY <1>6 DEF new

(* The rows of a candidate that was judged.                                *)
LEMMA RowsTyped ==
  ASSUME TypeOK, NEW p \in Procs, proc[p].judged \in {1, 2}
  PROVE  Row(p) \in CandidateRow /\ ReceiptOf(p) \in ReceiptRow
<1>1. /\ proc[p].turn \in Nat /\ proc[p].cur.session \in Nat /\ proc[p].verdict \in Verdict
  BY TurnAssumptions DEF TypeOK, Proc, Snapshot
<1>2. proc[p].judged - 1 \in Nat
  OBVIOUS
<1> QED BY <1>1, <1>2 DEF Row, ReceiptOf, CandidateRow, ReceiptRow

LEMMA TypeStep == TypeInv /\ [Next]_vars => TypeInv'
<1> SUFFICES ASSUME TypeInv, [Next]_vars PROVE TypeInv'
  OBVIOUS
<1> USE DEF TypeInv
<1>0. /\ turns \in Nat /\ sessions \in Nat /\ MaxTurns \in Nat /\ MaxSessions \in Nat
      /\ current \in Snapshot /\ threads \in Nat
  BY TurnAssumptions DEF TypeOK
<1>1. CASE UNCHANGED vars
  BY <1>1 DEF vars, logs, counters, TypeOK, PassInv
<1>2. ASSUME NEW p \in Procs, OpenSession(p) PROVE TypeInv'
  <2> DEFINE cur == [current EXCEPT !.session = sessions + 1, !.recent = <<>>]
             new == [Idle EXCEPT !.pc = "clear", !.cur = cur]
  <2>1. cur \in Snapshot
    <3>1. <<>> \in Seq(Exchange) /\ sessions + 1 \in Nat
      BY <1>0
    <3> QED BY <1>0, <3>1 DEF Snapshot
  <2>2. Good(new)
    BY <2>1, IdleGood DEF Good, Proc, Steps, Idle, Fresh, Final, Repairing
  <2>3. Become(p, new) /\ sessions' = sessions + 1 /\ sessions < MaxSessions
        /\ UNCHANGED <<current, threads, candidates, receipts, history, errors, traces, turns>>
    BY <1>2 DEF OpenSession, logs
  <2>4. proc' \in [Procs -> Proc] /\ PassInv'
    BY <2>2, <2>3, BecomesGood
  <2> QED BY <1>0, <2>3, <2>4 DEF TypeOK
<1>3. ASSUME NEW p \in Procs, SaveSession(p) PROVE TypeInv'
  <2>1. proc' \in [Procs -> Proc] /\ PassInv'
    BY <1>3, IdleGood, BecomesGood DEF SaveSession
  <2>2. current' \in Snapshot
    BY <1>3 DEF SaveSession, TypeOK, Proc
  <2> QED BY <1>3, <2>1, <2>2 DEF SaveSession, TypeOK, logs, counters
<1>4. ASSUME NEW p \in Procs, StartTurn(p) PROVE TypeInv'
  <2> DEFINE new == [Idle EXCEPT !.pc = IF p \in Tracers THEN "session" ELSE "load",
                                 !.turn = turns + 1]
  <2>1. Become(p, new) /\ turns' = turns + 1 /\ turns < MaxTurns
        /\ UNCHANGED <<current, threads, candidates, receipts, history, errors, traces, sessions>>
    BY <1>4 DEF StartTurn, logs
  <2>2. turns + 1 \in 0..MaxTurns
    BY <1>0, <2>1
  <2>3. Good(new)
    BY <2>2, IdleGood DEF Good, Proc, Steps, Idle, Fresh, Final, Repairing
  <2>4. proc' \in [Procs -> Proc] /\ PassInv'
    BY <2>1, <2>3, BecomesGood
  <2> QED BY <2>1, <2>2, <2>4 DEF TypeOK
<1>5. ASSUME NEW p \in Procs, TraceSession(p) PROVE TypeInv'
  <2> DEFINE new == [proc[p] EXCEPT !.pc = "countC", !.mark.session = current.session]
  <2>1. current.session \in Nat /\ proc[p] \in Proc /\ proc[p].judged = 0
    BY <1>0, <1>5 DEF Snapshot, TypeOK, PassInv, TraceSession, At, Fresh
  <2>2. Good(new)
    BY <2>1 DEF Good, Proc, Steps, Mark, Fresh, Final, Repairing
  <2> QED BY <1>5, <2>2, LocalStep DEF TraceSession
<1>6. ASSUME NEW p \in Procs, CountCandidates(p) PROVE TypeInv'
  <2> DEFINE new == [proc[p] EXCEPT !.pc = "countR", !.mark.candidates = Len(candidates)]
  <2>1. Len(candidates) \in Nat /\ proc[p] \in Proc /\ proc[p].judged = 0
    BY <1>6 DEF TypeOK, PassInv, CountCandidates, At, Fresh
  <2>2. Good(new)
    BY <2>1 DEF Good, Proc, Steps, Mark, Fresh, Final, Repairing
  <2> QED BY <1>6, <2>2, LocalStep DEF CountCandidates
<1>7. ASSUME NEW p \in Procs, CountReceipts(p) PROVE TypeInv'
  <2> DEFINE new == [proc[p] EXCEPT !.pc = "load", !.mark.receipts = Len(receipts)]
  <2>1. Len(receipts) \in Nat /\ proc[p] \in Proc /\ proc[p].judged = 0
    BY <1>7 DEF TypeOK, PassInv, CountReceipts, At, Fresh
  <2>2. Good(new)
    BY <2>1 DEF Good, Proc, Steps, Mark, Fresh, Final, Repairing
  <2> QED BY <1>7, <2>2, LocalStep DEF CountReceipts
<1>8. ASSUME NEW p \in Procs, LoadCurrent(p) PROVE TypeInv'
  <2> DEFINE new == [proc[p] EXCEPT !.pc = "loadT", !.cur = current, !.judged = 0]
  <2>1. proc[p] \in Proc
    BY DEF TypeOK
  <2>2. "loadT" \in Steps /\ 0 \in 0..2
    BY DEF Steps
  <2>3. new \in Proc /\ new.pc = "loadT" /\ new.judged = 0
    BY <1>0, <2>1, <2>2 DEF Proc
  <2>4. Good(new)
    BY <2>3 DEF Good, Fresh, Final, Repairing
  <2> QED BY <1>8, <2>4, LocalStep DEF LoadCurrent
<1>9. ASSUME NEW p \in Procs, LoadThreads(p) PROVE TypeInv'
  <2> DEFINE new == [proc[p] EXCEPT !.pc = "infer", !.thr = threads]
  <2>1. proc[p] \in Proc /\ proc[p].judged = 0
    BY <1>9 DEF TypeOK, PassInv, LoadThreads, At, Fresh
  <2>2. Good(new)
    BY <1>0, <2>1 DEF Good, Proc, Steps, Fresh, Final, Repairing
  <2> QED BY <1>9, <2>2, LocalStep DEF LoadThreads
<1>10. ASSUME NEW p \in Procs, TurnFails(p) PROVE TypeInv'
  <2>1. proc' \in [Procs -> Proc] /\ PassInv'
    BY <1>10, AfterTurnGood, BecomesGood DEF TurnFails
  <2>2. proc[p].turn \in Nat
    BY <1>0 DEF TypeOK, Proc
  <2>3. errors' \in Seq(Nat)
    BY <1>10, <2>2, Appended DEF TurnFails, TypeOK
  <2> QED BY <1>10, <2>1, <2>3 DEF TurnFails, TypeOK, counters
<1>11. ASSUME NEW p \in Procs, Judge(p) PROVE TypeInv'
  <2>1. PICK ready \in BOOLEAN, overruled \in BOOLEAN, touch \in BOOLEAN, keep \in BOOLEAN :
          LET d == Decision(ready, overruled, proc[p].judged)
              v == [decision |-> d, touch |-> touch /\ d = "accept", keep |-> keep /\ d = "accept"]
          IN Become(p, [proc[p] EXCEPT !.judged = @ + 1, !.verdict = v, !.pc = StepAfter(v)])
    BY <1>11 DEF Judge
  <2> DEFINE d == Decision(ready, overruled, proc[p].judged)
             v == [decision |-> d, touch |-> touch /\ d = "accept", keep |-> keep /\ d = "accept"]
             new == [proc[p] EXCEPT !.judged = @ + 1, !.verdict = v, !.pc = StepAfter(v)]
  <2>2. At(p, "infer") /\ proc[p].judged \in Nat
    <3>1. At(p, "infer")
      BY <1>11 DEF Judge
    <3> QED BY <3>1 DEF PassInv, At
  <2>3. d \in {"accept", "repair", "reject"} /\ (d = "repair" => proc[p].judged = 0)
    BY <2>2, DecisionCases
  <2> HIDE DEF d
  <2>4. Good(new)
    BY <2>2, <2>3, JudgedGood
  <2>5. Become(p, new)
    BY <2>1 DEF d
  <2> HIDE DEF new
  <2>6. UNCHANGED <<current, threads, logs, traces, counters>>
    BY <1>11 DEF Judge
  <2> QED BY <2>4, <2>5, <2>6, LocalStep
<1>12. ASSUME NEW p \in Procs, TouchCurrent(p) PROVE TypeInv'
  <2> DEFINE new == [proc[p] EXCEPT !.pc = "touchT", !.thr = proc[p].turn]
  <2>1. /\ proc[p] \in Proc /\ proc[p].turn \in Nat /\ proc[p].judged \in {1, 2}
        /\ proc[p].verdict.decision \in {"accept", "reject"}
    BY <1>0, <1>12 DEF TypeOK, PassInv, TouchCurrent, At, Final, Proc
  <2>2. Good(new)
    BY <2>1 DEF Good, Proc, Steps, Fresh, Final, Repairing
  <2>3. proc' \in [Procs -> Proc] /\ PassInv'
    BY <1>12, <2>2, BecomesGood DEF TouchCurrent
  <2>4. current' \in Snapshot
    BY <1>12, <2>1 DEF TouchCurrent, Proc
  <2> QED BY <1>12, <2>3, <2>4 DEF TouchCurrent, TypeOK, logs, counters
<1>13. ASSUME NEW p \in Procs, TouchThreads(p) PROVE TypeInv'
  <2> DEFINE step == IF proc[p].verdict.keep THEN "keep" ELSE "count"
             new == [proc[p] EXCEPT !.pc = step]
  <2>1. /\ proc[p] \in Proc /\ proc[p].judged \in {1, 2} /\ step \in {"keep", "count"}
        /\ proc[p].verdict.decision \in {"accept", "reject"}
    BY <1>13 DEF TypeOK, PassInv, TouchThreads, At, Final
  <2>2. Become(p, new)
    BY <1>13 DEF TouchThreads, Goto
  <2> HIDE DEF step
  <2>3. Good(new)
    BY <2>1 DEF Good, Proc, Steps, Fresh, Final, Repairing
  <2>4. proc' \in [Procs -> Proc] /\ PassInv'
    BY <2>2, <2>3, BecomesGood
  <2>5. threads' \in Nat
    BY <1>13, <2>1 DEF TouchThreads, Proc
  <2> QED BY <1>13, <2>4, <2>5 DEF TouchThreads, TypeOK, logs, counters
<1>14. ASSUME NEW p \in Procs, Keep(p) PROVE TypeInv'
  <2> DEFINE exchange == [turn |-> proc[p].turn, session |-> proc[p].cur.session]
  <2>1. /\ proc[p] \in Proc /\ proc[p].judged \in {1, 2} /\ proc[p].cur \in Snapshot
        /\ proc[p].verdict.decision \in {"accept", "reject"}
    BY <1>14 DEF TypeOK, PassInv, Keep, At, Final, Proc
  <2>2. proc[p].cur.recent \in Seq(Exchange) /\ exchange \in Exchange
    BY <1>0, <2>1 DEF Snapshot, Exchange, Proc
  <2>3. PICK kept \in Fitted(Append(proc[p].cur.recent, exchange)) :
          /\ Become(p, [proc[p] EXCEPT !.pc = "count", !.cur.recent = kept])
          /\ current' = [proc[p].cur EXCEPT !.recent = kept]
    BY <1>14 DEF Keep
  <2>4. kept \in Seq(Exchange)
    BY <2>2, FittedKeeps, Appended
  <2>5. Good([proc[p] EXCEPT !.pc = "count", !.cur.recent = kept])
    BY <2>1, <2>4 DEF Good, Proc, Snapshot, Steps, Fresh, Final, Repairing
  <2>6. proc' \in [Procs -> Proc] /\ PassInv'
    BY <2>3, <2>5, BecomesGood
  <2>7. current' \in Snapshot
    BY <2>1, <2>3, <2>4 DEF Snapshot
  <2> QED BY <1>14, <2>6, <2>7 DEF Keep, TypeOK, logs, counters
<1>15. ASSUME NEW p \in Procs, Count(p) PROVE TypeInv'
  <2>1. /\ proc[p] \in Proc /\ proc[p].judged \in {1, 2} /\ proc[p].cur \in Snapshot
        /\ proc[p].verdict.decision \in {"accept", "reject"}
    BY <1>15 DEF TypeOK, PassInv, Count, At, Final, Proc
  <2> DEFINE cur == [proc[p].cur EXCEPT !.count = @ + 1]
             new == [proc[p] EXCEPT !.pc = "receipt", !.cur.count = @ + 1]
  <2>2. cur \in Snapshot
    BY <2>1 DEF Snapshot
  <2>3. new = [proc[p] EXCEPT !.pc = "receipt", !.cur = cur]
    BY <2>1 DEF Proc, Snapshot
  <2>4. Become(p, new) /\ current' = cur
    BY <1>15 DEF Count
  <2> HIDE DEF cur, new
  <2>5. Good(new)
    BY <2>1, <2>2, <2>3 DEF Good, Proc, Steps, Fresh, Final, Repairing
  <2>6. proc' \in [Procs -> Proc] /\ PassInv'
    BY <2>4, <2>5, BecomesGood
  <2> QED BY <1>15, <2>2, <2>4, <2>6 DEF Count, TypeOK, logs, counters
<1>16. ASSUME NEW p \in Procs, LogReceipt(p) PROVE TypeInv'
  <2>1. /\ proc[p] \in Proc /\ proc[p].judged \in {1, 2}
        /\ proc[p].verdict.decision \in {"accept", "reject"}
    BY <1>16 DEF TypeOK, PassInv, LogReceipt, At, Final
  <2>2. Good([proc[p] EXCEPT !.pc = "candidate"])
    BY <2>1 DEF Good, Proc, Steps, Fresh, Final, Repairing
  <2>3. proc' \in [Procs -> Proc] /\ PassInv'
    BY <1>16, <2>2, BecomesGood DEF LogReceipt, Goto
  <2>4. receipts' \in Seq(ReceiptRow)
    BY <1>16, <2>1, RowsTyped, Appended DEF LogReceipt, TypeOK
  <2> QED BY <1>16, <2>3, <2>4 DEF LogReceipt, TypeOK, counters
<1>17. ASSUME NEW p \in Procs, LogCandidate(p) PROVE TypeInv'
  <2>1. /\ proc[p] \in Proc /\ proc[p].judged \in {1, 2}
        /\ proc[p].verdict.decision \in {"accept", "reject"}
    BY <1>17 DEF TypeOK, PassInv, LogCandidate, At, Final
  <2>2. Good([proc[p] EXCEPT !.pc = "history"])
    BY <2>1 DEF Good, Proc, Steps, Fresh, Final, Repairing
  <2>3. proc' \in [Procs -> Proc] /\ PassInv'
    BY <1>17, <2>2, BecomesGood DEF LogCandidate, Goto
  <2>4. candidates' \in Seq(CandidateRow)
    BY <1>17, <2>1, RowsTyped, Appended DEF LogCandidate, TypeOK
  <2> QED BY <1>17, <2>3, <2>4 DEF LogCandidate, TypeOK, counters
<1>18. ASSUME NEW p \in Procs, LogHistory(p) PROVE TypeInv'
  <2> DEFINE row == [turn |-> proc[p].turn, pass |-> proc[p].judged - 1,
                     decision |-> proc[p].verdict.decision]
  <2>1. /\ proc[p] \in Proc /\ proc[p].judged \in {1, 2} /\ proc[p].turn \in Nat
        /\ proc[p].verdict.decision \in {"accept", "reject"}
    BY <1>0, <1>18 DEF TypeOK, PassInv, LogHistory, At, Final, Proc
  <2>2. row \in HistoryRow
    BY <2>1 DEF HistoryRow
  <2>3. proc' \in [Procs -> Proc] /\ PassInv'
    BY <1>18, AfterTurnGood, BecomesGood DEF LogHistory
  <2>4. history' \in Seq(HistoryRow)
    BY <1>18, <2>2, Appended DEF LogHistory, TypeOK
  <2> QED BY <1>18, <2>3, <2>4 DEF LogHistory, TypeOK, counters
<1>19. ASSUME NEW p \in Procs, LogRepairCandidate(p) PROVE TypeInv'
  <2>1. /\ proc[p] \in Proc /\ proc[p].judged = 1 /\ proc[p].verdict.decision = "repair"
    BY <1>19 DEF TypeOK, PassInv, LogRepairCandidate, At, Repairing
  <2>2. Good([proc[p] EXCEPT !.pc = "repairR"])
    BY <2>1 DEF Good, Proc, Steps, Fresh, Final, Repairing
  <2>3. proc' \in [Procs -> Proc] /\ PassInv'
    BY <1>19, <2>2, BecomesGood DEF LogRepairCandidate, Goto
  <2>4. candidates' \in Seq(CandidateRow)
    BY <1>19, <2>1, RowsTyped, Appended DEF LogRepairCandidate, TypeOK
  <2> QED BY <1>19, <2>3, <2>4 DEF LogRepairCandidate, TypeOK, counters
<1>20. ASSUME NEW p \in Procs, LogRepairReceipt(p) PROVE TypeInv'
  <2>1. proc[p] \in Proc /\ proc[p].judged = 1
    BY <1>20 DEF TypeOK, PassInv, LogRepairReceipt, At, Repairing
  <2>2. NoVerdict \in Verdict
    BY DEF NoVerdict, Verdict
  <2>3. Good([proc[p] EXCEPT !.pc = "infer", !.verdict = NoVerdict])
    BY <2>1, <2>2 DEF Good, Proc, Steps, Fresh, Final, Repairing
  <2>4. proc' \in [Procs -> Proc] /\ PassInv'
    BY <1>20, <2>3, BecomesGood DEF LogRepairReceipt
  <2>5. receipts' \in Seq(ReceiptRow)
    BY <1>20, <2>1, RowsTyped, Appended DEF LogRepairReceipt, TypeOK
  <2> QED BY <1>20, <2>4, <2>5 DEF LogRepairReceipt, TypeOK, counters
<1>21. ASSUME NEW p \in Procs, TraceCandidates(p) PROVE TypeInv'
  <2> DEFINE seen == NewLines(candidates, proc[p].mark.candidates, proc[p].judged)
             new == [proc[p] EXCEPT !.pc = "readR", !.seen = seen]
  <2>1. proc[p] \in Proc /\ proc[p].mark.candidates \in Nat /\ proc[p].judged \in Nat
    BY DEF TypeOK, Proc, Mark
  <2>2. seen \in Seq(CandidateRow)
    BY <2>1, NewLinesTyped DEF TypeOK
  <2> HIDE DEF seen
  <2>3. Good(new)
    BY <2>1, <2>2 DEF Good, Proc, Steps, Fresh, Final, Repairing
  <2>4. Become(p, new)
    BY <1>21 DEF TraceCandidates, seen
  <2> QED BY <1>21, <2>3, <2>4, LocalStep DEF TraceCandidates
<1>22. ASSUME NEW p \in Procs, TraceReceipts(p) PROVE TypeInv'
  <2> DEFINE new == NewLines(receipts, proc[p].mark.receipts, proc[p].judged)
             trace == [turn |-> proc[p].turn, judged |-> proc[p].judged,
                       session |-> proc[p].mark.session, loaded |-> proc[p].cur.session,
                       candidates |-> proc[p].seen, receipts |-> new]
  <2>1. /\ proc[p].turn \in Nat /\ proc[p].judged \in Nat /\ proc[p].mark.session \in Nat
        /\ proc[p].cur.session \in Nat /\ proc[p].seen \in Seq(CandidateRow)
        /\ proc[p].mark.receipts \in Nat
    <3>1. proc[p] \in Proc
      BY DEF TypeOK
    <3>2. /\ proc[p].turn \in Nat /\ proc[p].judged \in Nat /\ proc[p].mark \in Mark
          /\ proc[p].cur \in Snapshot /\ proc[p].seen \in Seq(CandidateRow)
      BY <1>0, <3>1 DEF Proc
    <3> QED BY <3>2 DEF Mark, Snapshot
  <2>2. new \in Seq(ReceiptRow)
    BY <2>1, NewLinesTyped DEF TypeOK
  <2> HIDE DEF new
  <2>3. trace \in Trace
    BY <2>1, <2>2 DEF Trace
  <2>4. traces' = traces \cup {trace}
    BY <1>22 DEF TraceReceipts, new
  <2>5. proc' \in [Procs -> Proc] /\ PassInv'
    BY <1>22, IdleGood, BecomesGood DEF TraceReceipts
  <2> QED BY <1>22, <2>3, <2>4, <2>5 DEF TraceReceipts, TypeOK, logs, counters
<1>23. ASSUME NEW p \in Procs, Abandon(p) PROVE TypeInv'
  BY <1>23, IdleGood, LocalStep DEF Abandon
<1> QED BY <1>1, <1>2, <1>3, <1>4, <1>5, <1>6, <1>7, <1>8, <1>9, <1>10, <1>11, <1>12, <1>13,
           <1>14, <1>15, <1>16, <1>17, <1>18, <1>19, <1>20, <1>21, <1>22, <1>23
        DEF Next, Advance

LEMMA InitTyped == Init => TypeInv
<1> SUFFICES ASSUME Init PROVE TypeInv
  OBVIOUS
<1>1. Idle \in Proc /\ Idle.pc = "idle" /\ Seed \in Snapshot
  BY IdleGood DEF Good, Idle, Seed, Snapshot
<1>2. TypeOK
  BY <1>1, TurnAssumptions DEF Init, TypeOK, Seed
<1>3. PassInv
  BY <1>1 DEF Init, PassInv, Fresh, Final, Repairing
<1> QED BY <1>2, <1>3 DEF TypeInv

(* The files, the logs and the processes keep their types, and a turn      *)
(* judges two candidates at most, however high max_repair is.              *)
THEOREM TypeCorrect == Spec => []TypeOK
<1>1. TypeInv => TypeOK
  BY DEF TypeInv
<1> QED BY <1>1, InitTyped, TypeStep, PTL DEF Spec
-----------------------------------------------------------------------------
(* One conversation.                                                       *)

Consistent(c) == \A i \in DOMAIN c.recent : c.recent[i].session = c.session

ConvInv == Consistent(current) /\ \A p \in Procs : Consistent(proc[p].cur)

LEMMA ConvKept ==
  ASSUME TypeInv, ConvInv, NEW p \in Procs, NEW new, Become(p, new), Consistent(new.cur),
         Consistent(current)'
  PROVE  ConvInv'
<1>1. proc'[p] = new /\ \A q \in Procs : q # p => proc'[q] = proc[q]
  BY Becomes DEF TypeInv
<1> QED BY <1>1 DEF ConvInv, Consistent

(* Dropping the oldest exchanges mixes nothing in.                         *)
LEMMA KeptConsistent ==
  ASSUME NEW c \in Snapshot, Consistent(c), NEW e \in Exchange, e.session = c.session,
         NEW kept \in Fitted(Append(c.recent, e))
  PROVE  \A i \in DOMAIN kept : kept[i].session = c.session
<1> DEFINE g == Append(c.recent, e)
<1>1. c.recent \in Seq(Exchange)
  BY DEF Snapshot
<1>2. /\ g \in Seq(Exchange) /\ g[Len(c.recent) + 1] = e
      /\ DOMAIN g = DOMAIN c.recent \cup {Len(c.recent) + 1}
      /\ \A i \in DOMAIN c.recent : g[i] = c.recent[i]
  BY <1>1, Appended
<1>3. \A j \in DOMAIN g : g[j].session = c.session
  BY <1>2 DEF Consistent
<1> HIDE DEF g
<1>4. \A i \in DOMAIN kept : \E j \in DOMAIN g : kept[i] = g[j]
  BY <1>2, FittedKeeps DEF g
<1> QED BY <1>3, <1>4

LEMMA ConvStep == TypeInv /\ ConvInv /\ [Next]_vars => ConvInv'
<1> SUFFICES ASSUME TypeInv, ConvInv, [Next]_vars PROVE ConvInv'
  OBVIOUS
<1>0. Consistent(Idle.cur) /\ Consistent(current) /\ \A p \in Procs : Consistent(proc[p].cur)
  BY DEF ConvInv, Consistent, Idle, Seed
<1>1. CASE UNCHANGED vars
  BY <1>1 DEF vars, ConvInv, Consistent
<1>2. ASSUME NEW p \in Procs, NEW new, Become(p, new), current' = current,
             new.cur \in {Idle.cur, current, proc[p].cur}
      PROVE  ConvInv'
  <2>1. Consistent(new.cur) /\ Consistent(current)'
    BY <1>0, <1>2 DEF Consistent
  <2> QED BY <1>2, <2>1, ConvKept
<1>3. ASSUME NEW p \in Procs, NEW new, Become(p, new), current' = proc[p].cur,
             new.cur \in {Idle.cur, proc[p].cur}
      PROVE  ConvInv'
  <2>1. Consistent(new.cur) /\ Consistent(current)'
    BY <1>0, <1>3 DEF Consistent
  <2> QED BY <1>3, <2>1, ConvKept
<1>4. ASSUME NEW p \in Procs, OpenSession(p) PROVE ConvInv'
  <2> DEFINE cur == [current EXCEPT !.session = sessions + 1, !.recent = <<>>]
             new == [Idle EXCEPT !.pc = "clear", !.cur = cur]
  <2>1. new.cur = cur /\ cur.recent = <<>>
    BY DEF Idle, TypeInv, TypeOK, Snapshot
  <2>2. Become(p, new) /\ current' = current
    BY <1>4 DEF OpenSession
  <2> HIDE DEF new, cur
  <2>3. Consistent(new.cur) /\ Consistent(current)'
    BY <1>0, <2>1, <2>2 DEF Consistent
  <2> QED BY <2>2, <2>3, ConvKept
<1>5. ASSUME NEW p \in Procs, SaveSession(p) PROVE ConvInv'
  BY <1>3, <1>5 DEF SaveSession
<1>6. ASSUME NEW p \in Procs, StartTurn(p) PROVE ConvInv'
  <2> DEFINE new == [Idle EXCEPT !.pc = IF p \in Tracers THEN "session" ELSE "load",
                                 !.turn = turns + 1]
  <2>1. Become(p, new) /\ current' = current
    BY <1>6 DEF StartTurn
  <2>2. new.cur = Idle.cur
    BY DEF Idle
  <2> QED BY <1>2, <2>1, <2>2
<1>7. ASSUME NEW p \in Procs,
             TraceSession(p) \/ CountCandidates(p) \/ CountReceipts(p) \/ LoadThreads(p)
               \/ TraceCandidates(p) \/ LogReceipt(p) \/ LogCandidate(p)
               \/ LogRepairCandidate(p) \/ LogRepairReceipt(p) \/ TouchThreads(p)
      PROVE  ConvInv'
  <2>1. proc[p] \in Proc
    BY DEF TypeInv, TypeOK
  <2>2. \E new : Become(p, new) /\ new.cur = proc[p].cur
    <3>1. \A s : [proc[p] EXCEPT !.pc = s].cur = proc[p].cur
      BY <2>1 DEF Proc
    <3>2. CASE \E s : Goto(p, s)
      BY <3>1, <3>2 DEF Goto
    <3>3. CASE LogReceipt(p) \/ LogCandidate(p) \/ LogRepairCandidate(p) \/ TouchThreads(p)
      BY <3>2, <3>3 DEF LogReceipt, LogCandidate, LogRepairCandidate, TouchThreads
    <3>4. CASE TraceSession(p)
      <4>1. [proc[p] EXCEPT !.pc = "countC", !.mark.session = current.session].cur = proc[p].cur
        BY <2>1 DEF Proc
      <4> QED BY <3>4, <4>1 DEF TraceSession
    <3>5. CASE CountCandidates(p)
      <4>1. [proc[p] EXCEPT !.pc = "countR", !.mark.candidates = Len(candidates)].cur
              = proc[p].cur
        BY <2>1 DEF Proc
      <4> QED BY <3>5, <4>1 DEF CountCandidates
    <3>6. CASE CountReceipts(p)
      <4>1. [proc[p] EXCEPT !.pc = "load", !.mark.receipts = Len(receipts)].cur = proc[p].cur
        BY <2>1 DEF Proc
      <4> QED BY <3>6, <4>1 DEF CountReceipts
    <3>7. CASE LoadThreads(p)
      <4>1. [proc[p] EXCEPT !.pc = "infer", !.thr = threads].cur = proc[p].cur
        BY <2>1 DEF Proc
      <4> QED BY <3>7, <4>1 DEF LoadThreads
    <3>8. CASE TraceCandidates(p)
      <4>1. \A x : [proc[p] EXCEPT !.pc = "readR", !.seen = x].cur = proc[p].cur
        BY <2>1 DEF Proc
      <4> QED BY <3>8, <4>1 DEF TraceCandidates
    <3>9. CASE LogRepairReceipt(p)
      <4>1. [proc[p] EXCEPT !.pc = "infer", !.verdict = NoVerdict].cur = proc[p].cur
        BY <2>1 DEF Proc
      <4> QED BY <3>9, <4>1 DEF LogRepairReceipt
    <3> QED BY <1>7, <3>3, <3>4, <3>5, <3>6, <3>7, <3>8, <3>9
  <2>3. current' = current
    BY <1>7
       DEF TraceSession, CountCandidates, CountReceipts, LoadThreads, TraceCandidates,
           LogReceipt, LogCandidate, LogRepairCandidate, LogRepairReceipt, TouchThreads
  <2> QED BY <1>2, <2>2, <2>3
<1>8. ASSUME NEW p \in Procs, LoadCurrent(p) PROVE ConvInv'
  <2> DEFINE new == [proc[p] EXCEPT !.pc = "loadT", !.cur = current, !.judged = 0]
  <2>1. new.cur = current
    BY DEF TypeInv, TypeOK, Proc
  <2> QED BY <1>2, <1>8, <2>1 DEF LoadCurrent
<1>9. ASSUME NEW p \in Procs, TurnFails(p) \/ LogHistory(p) PROVE ConvInv'
  <2>1. AfterTurn(p).cur \in {Idle.cur, proc[p].cur}
    BY DEF AfterTurn, TypeInv, TypeOK, Proc
  <2> QED BY <1>2, <1>9, <2>1 DEF TurnFails, LogHistory
<1>10. ASSUME NEW p \in Procs, Judge(p) PROVE ConvInv'
  <2>1. \E j, v, s : Become(p, [proc[p] EXCEPT !.judged = j, !.verdict = v, !.pc = s])
    BY <1>10 DEF Judge
  <2>2. PICK j, v, s : Become(p, [proc[p] EXCEPT !.judged = j, !.verdict = v, !.pc = s])
    BY <2>1
  <2>3. [proc[p] EXCEPT !.judged = j, !.verdict = v, !.pc = s].cur = proc[p].cur
    BY DEF TypeInv, TypeOK, Proc
  <2> QED BY <1>2, <1>10, <2>2, <2>3 DEF Judge
<1>11. ASSUME NEW p \in Procs, TouchCurrent(p) PROVE ConvInv'
  <2>1. [proc[p] EXCEPT !.pc = "touchT", !.thr = proc[p].turn].cur = proc[p].cur
    BY DEF TypeInv, TypeOK, Proc
  <2> QED BY <1>3, <1>11, <2>1 DEF TouchCurrent
<1>12. ASSUME NEW p \in Procs, Keep(p) PROVE ConvInv'
  <2> DEFINE e == [turn |-> proc[p].turn, session |-> proc[p].cur.session]
  <2>1. PICK kept \in Fitted(Append(proc[p].cur.recent, e)) :
          /\ Become(p, [proc[p] EXCEPT !.pc = "count", !.cur.recent = kept])
          /\ current' = [proc[p].cur EXCEPT !.recent = kept]
    BY <1>12 DEF Keep
  <2>2. proc[p] \in Proc /\ proc[p].cur \in Snapshot /\ proc[p].turn \in Nat
    BY TurnAssumptions DEF TypeInv, TypeOK, Proc
  <2>3. e \in Exchange /\ e.session = proc[p].cur.session
    BY <2>2 DEF Exchange, Snapshot
  <2>4. \A i \in DOMAIN kept : kept[i].session = proc[p].cur.session
    BY <1>0, <2>2, <2>3, KeptConsistent
  <2>5. /\ current'.recent = kept /\ current'.session = proc[p].cur.session
        /\ [proc[p] EXCEPT !.pc = "count", !.cur.recent = kept].cur.recent = kept
        /\ [proc[p] EXCEPT !.pc = "count", !.cur.recent = kept].cur.session = proc[p].cur.session
    BY <2>1, <2>2 DEF Snapshot, Proc
  <2>6. /\ Consistent([proc[p] EXCEPT !.pc = "count", !.cur.recent = kept].cur)
        /\ Consistent(current)'
    BY <2>4, <2>5 DEF Consistent
  <2> QED BY <2>1, <2>6, ConvKept
<1>13. ASSUME NEW p \in Procs, Count(p) PROVE ConvInv'
  <2> DEFINE new == [proc[p] EXCEPT !.pc = "receipt", !.cur.count = @ + 1]
  <2>1. Become(p, new) /\ current' = [proc[p].cur EXCEPT !.count = @ + 1]
    BY <1>13 DEF Count
  <2>2. proc[p] \in Proc /\ proc[p].cur \in Snapshot
    BY DEF TypeInv, TypeOK, Proc
  <2>3. /\ new.cur.recent = proc[p].cur.recent /\ new.cur.session = proc[p].cur.session
        /\ current'.recent = proc[p].cur.recent /\ current'.session = proc[p].cur.session
    BY <2>1, <2>2 DEF Snapshot, Proc
  <2> HIDE DEF new
  <2>4. Consistent(new.cur) /\ Consistent(current)'
    BY <1>0, <2>3 DEF Consistent
  <2> QED BY <2>1, <2>4, ConvKept
<1>14. ASSUME NEW p \in Procs, TraceReceipts(p) \/ Abandon(p) PROVE ConvInv'
  BY <1>2, <1>14 DEF TraceReceipts, Abandon
<1> QED BY <1>1, <1>4, <1>5, <1>6, <1>7, <1>8, <1>9, <1>10, <1>11, <1>12, <1>13, <1>14
        DEF Next, Advance

(* However many processes load and save current.json over each other, the  *)
(* memory it holds is of the session it names.                             *)
THEOREM MemoryIsOneConversation == Spec => []OneConversation
<1>1. Init => ConvInv
  BY DEF Init, ConvInv, Consistent, Seed, Idle
<1>2. ConvInv => OneConversation
  BY DEF ConvInv, Consistent, OneConversation
<1> QED BY <1>1, <1>2, InitTyped, TypeStep, ConvStep, PTL DEF Spec

-----------------------------------------------------------------------------
(* The logs.  A turn is running until its last record is written; the      *)
(* receipts it has logged are those of the passes below Logged.            *)

Running == Fresh \cup {"infer"} \cup Final \cup Repairing
Unlogged == (Final \ {"candidate", "history"}) \cup Repairing

Logged(x) == IF x.pc \in Unlogged THEN x.judged - 1 ELSE x.judged

RowInv ==
  /\ \A i \in DOMAIN receipts :
       /\ receipts[i].turn <= turns
       /\ receipts[i].verdict.decision = "repair" => receipts[i].pass = 0
  /\ \A i, j \in DOMAIN receipts :
       receipts[i].turn = receipts[j].turn /\ receipts[i].pass = receipts[j].pass => i = j
  /\ \A i \in DOMAIN history : history[i].turn <= turns
  /\ \A i \in DOMAIN errors : errors[i] <= turns

(* A running turn has no last record, and its receipts are where it says.  *)
Owns(x) ==
  /\ x.pc \in Running =>
       /\ x.turn <= turns
       /\ \A i \in DOMAIN history : history[i].turn # x.turn
       /\ \A i \in DOMAIN errors : errors[i] # x.turn
       /\ \A i \in DOMAIN receipts : receipts[i].turn = x.turn => receipts[i].pass < Logged(x)
  /\ x.pc \in {"candidate", "history"} =>
       \E i \in DOMAIN receipts : /\ receipts[i].turn = x.turn /\ receipts[i].pass = x.judged - 1
                                 /\ receipts[i].verdict.decision = x.verdict.decision
  /\ x.pc = "history" =>
       \E i \in DOMAIN candidates : candidates[i].turn = x.turn /\ candidates[i].pass = x.judged - 1

(* Two processes run two turns.                                            *)
Apart == \A p, q \in Procs :
  p # q /\ proc[p].pc \in Running /\ proc[q].pc \in Running => proc[p].turn # proc[q].turn

LogInv == RowInv /\ HistoryIsLast /\ EndsOnce /\ Apart /\ \A p \in Procs : Owns(proc[p])

LEMMA RowTypes ==
  ASSUME TypeInv
  PROVE  /\ turns \in Nat
         /\ \A i \in DOMAIN receipts : receipts[i].turn \in Nat /\ receipts[i].pass \in Nat
         /\ \A i \in DOMAIN candidates : candidates[i].pass \in Nat
         /\ \A i \in DOMAIN history : history[i].turn \in Nat /\ history[i].pass \in Nat
         /\ \A i \in DOMAIN errors : errors[i] \in Nat
         /\ \A q \in Procs : proc[q].turn \in Nat
<1>1. MaxTurns \in Nat /\ turns \in 0..MaxTurns
  BY TurnAssumptions DEF TypeInv, TypeOK
<1>2. \A i \in DOMAIN receipts : receipts[i] \in ReceiptRow
  BY DEF TypeInv, TypeOK
<1>3. \A i \in DOMAIN candidates : candidates[i] \in CandidateRow
  BY DEF TypeInv, TypeOK
<1>4. \A i \in DOMAIN history : history[i] \in HistoryRow
  BY DEF TypeInv, TypeOK
<1>5. \A i \in DOMAIN errors : errors[i] \in Nat
  BY DEF TypeInv, TypeOK
<1>6. \A q \in Procs : proc[q].turn \in 0..MaxTurns
  BY DEF TypeInv, TypeOK, Proc
<1> QED BY <1>1, <1>2, <1>3, <1>4, <1>5, <1>6 DEF ReceiptRow, CandidateRow, HistoryRow

(* A step that logs nothing and at most stops the turn.                    *)
LEMMA QuietStep ==
  ASSUME TypeInv, LogInv, NEW p \in Procs, NEW new, Become(p, new),
         UNCHANGED <<logs, turns>>,
         new.pc \notin {"candidate", "history"},
         new.pc \in Running => /\ proc[p].pc \in Running /\ new.turn = proc[p].turn
                              /\ Logged(new) = Logged(proc[p])
  PROVE  LogInv'
<1>1. proc'[p] = new /\ \A q \in Procs : q # p => proc'[q] = proc[q]
  BY Becomes DEF TypeInv
<1>2. UNCHANGED <<candidates, receipts, history, errors, turns>>
  BY DEF logs
<1>3. RowInv' /\ HistoryIsLast' /\ EndsOnce'
  BY <1>2 DEF LogInv, RowInv, HistoryIsLast, EndsOnce, RowsOf
<1>4. Apart'
  BY <1>1 DEF LogInv, Apart
<1>5. \A q \in Procs : Owns(proc[q])
  BY DEF LogInv
<1>6. ASSUME NEW q \in Procs, q # p PROVE Owns(proc[q])'
  BY <1>1, <1>2, <1>5, <1>6 DEF Owns, Logged
<1>7. Owns(new)'
  <2>1. Logged(new)' = Logged(new)
    BY DEF Logged
  <2> QED BY <1>2, <1>5, <2>1 DEF Owns
<1>8. Owns(proc[p])'
  BY <1>1, <1>7 DEF Owns, Logged
<1> QED BY <1>3, <1>4, <1>6, <1>8 DEF LogInv

(* Steps before or after the logs of a turn are written.                   *)
LEMMA QuietSteps ==
  ASSUME TypeInv, LogInv, NEW p \in Procs,
         OpenSession(p) \/ SaveSession(p) \/ TraceSession(p) \/ CountCandidates(p)
           \/ CountReceipts(p) \/ LoadCurrent(p) \/ LoadThreads(p) \/ TouchCurrent(p)
           \/ TouchThreads(p) \/ Keep(p) \/ Count(p) \/ TraceCandidates(p)
           \/ TraceReceipts(p) \/ Abandon(p)
  PROVE  LogInv'
<1>0. /\ proc[p] \in Proc
      /\ proc[p].pc \in Fresh => proc[p].judged = 0
  BY DEF TypeInv, TypeOK, PassInv
<1>1. Idle.pc = "idle"
  BY DEF Idle
<1>2. CASE OpenSession(p)
  <2> DEFINE new == [Idle EXCEPT !.pc = "clear",
                         !.cur = [current EXCEPT !.session = sessions + 1, !.recent = <<>>]]
  <2>1. new.pc = "clear" /\ Become(p, new) /\ UNCHANGED <<logs, turns>>
    BY <1>2 DEF OpenSession, Idle
  <2> HIDE DEF new
  <2> QED BY <2>1, QuietStep DEF Running, Fresh, Final, Repairing
<1>3. CASE SaveSession(p) \/ TraceReceipts(p) \/ Abandon(p)
  <2>1. Become(p, Idle) /\ UNCHANGED <<logs, turns>>
    BY <1>3 DEF SaveSession, TraceReceipts, Abandon, counters
  <2> QED BY <1>1, <2>1, QuietStep DEF Running, Fresh, Final, Repairing
<1>4. ASSUME NEW new, Become(p, new), UNCHANGED <<logs, turns>>, new.turn = proc[p].turn,
             \/ /\ new.judged = proc[p].judged /\ new.pc \in Fresh \cup {"infer"}
                /\ proc[p].pc \in Fresh
             \/ /\ new.judged = proc[p].judged /\ proc[p].pc \in Unlogged /\ new.pc \in Unlogged
             \/ new.pc = "readR"
      PROVE  LogInv'
  <2>1. new.pc \notin {"candidate", "history"}
    BY <1>4 DEF Unlogged, Fresh, Final, Repairing
  <2>2. new.pc \in Running => proc[p].pc \in Running /\ Logged(new) = Logged(proc[p])
    BY <1>4 DEF Running, Unlogged, Logged, Fresh, Final, Repairing
  <2> QED BY <1>4, <2>1, <2>2, QuietStep
<1>5. CASE TraceSession(p)
  <2> DEFINE new == [proc[p] EXCEPT !.pc = "countC", !.mark.session = current.session]
  <2>1. new.turn = proc[p].turn /\ new.judged = proc[p].judged /\ new.pc = "countC"
    BY <1>0 DEF Proc
  <2> QED BY <1>4, <1>5, <2>1 DEF TraceSession, At, Fresh, counters
<1>6. CASE CountCandidates(p)
  <2> DEFINE new == [proc[p] EXCEPT !.pc = "countR", !.mark.candidates = Len(candidates)]
  <2>1. new.turn = proc[p].turn /\ new.judged = proc[p].judged /\ new.pc = "countR"
    BY <1>0 DEF Proc
  <2> QED BY <1>4, <1>6, <2>1 DEF CountCandidates, At, Fresh, counters
<1>7. CASE CountReceipts(p)
  <2> DEFINE new == [proc[p] EXCEPT !.pc = "load", !.mark.receipts = Len(receipts)]
  <2>1. new.turn = proc[p].turn /\ new.judged = proc[p].judged /\ new.pc = "load"
    BY <1>0 DEF Proc
  <2> QED BY <1>4, <1>7, <2>1 DEF CountReceipts, At, Fresh, counters
<1>8. CASE LoadCurrent(p)
  <2> DEFINE new == [proc[p] EXCEPT !.pc = "loadT", !.cur = current, !.judged = 0]
  <2>1. proc[p].pc \in Fresh /\ proc[p].judged = 0
    BY <1>0, <1>8 DEF LoadCurrent, At, Fresh
  <2>2. new.turn = proc[p].turn /\ new.judged = proc[p].judged /\ new.pc = "loadT"
    BY <1>0, <2>1 DEF Proc
  <2> QED BY <1>4, <1>8, <2>1, <2>2 DEF LoadCurrent, Fresh, counters
<1>9. CASE LoadThreads(p)
  <2> DEFINE new == [proc[p] EXCEPT !.pc = "infer", !.thr = threads]
  <2>1. new.turn = proc[p].turn /\ new.judged = proc[p].judged /\ new.pc = "infer"
    BY <1>0 DEF Proc
  <2> QED BY <1>4, <1>9, <2>1 DEF LoadThreads, At, Fresh, counters
<1>10. CASE TouchCurrent(p)
  <2> DEFINE new == [proc[p] EXCEPT !.pc = "touchT", !.thr = proc[p].turn]
  <2>1. new.turn = proc[p].turn /\ new.judged = proc[p].judged /\ new.pc = "touchT"
    BY <1>0 DEF Proc
  <2> QED BY <1>4, <1>10, <2>1 DEF TouchCurrent, At, Unlogged, Final, counters
<1>11. CASE TouchThreads(p)
  <2> DEFINE step == IF proc[p].verdict.keep THEN "keep" ELSE "count"
             new == [proc[p] EXCEPT !.pc = step]
  <2>1. new.turn = proc[p].turn /\ new.judged = proc[p].judged /\ new.pc \in {"keep", "count"}
    BY <1>0 DEF Proc
  <2> QED BY <1>4, <1>11, <2>1 DEF TouchThreads, Goto, At, Unlogged, Final, counters
<1>12. CASE Keep(p)
  <2>1. PICK kept : Become(p, [proc[p] EXCEPT !.pc = "count", !.cur.recent = kept])
    BY <1>12 DEF Keep
  <2> DEFINE new == [proc[p] EXCEPT !.pc = "count", !.cur.recent = kept]
  <2>2. new.turn = proc[p].turn /\ new.judged = proc[p].judged /\ new.pc = "count"
    BY <1>0 DEF Proc
  <2> QED BY <1>4, <1>12, <2>1, <2>2 DEF Keep, At, Unlogged, Final, counters
<1>13. CASE Count(p)
  <2> DEFINE new == [proc[p] EXCEPT !.pc = "receipt", !.cur.count = @ + 1]
  <2>1. new.turn = proc[p].turn /\ new.judged = proc[p].judged /\ new.pc = "receipt"
    BY <1>0 DEF Proc
  <2> QED BY <1>4, <1>13, <2>1 DEF Count, At, Unlogged, Final, counters
<1>14. CASE TraceCandidates(p)
  <2> DEFINE seen == NewLines(candidates, proc[p].mark.candidates, proc[p].judged)
             new == [proc[p] EXCEPT !.pc = "readR", !.seen = seen]
  <2>1. new.turn = proc[p].turn /\ new.pc = "readR"
    BY <1>0 DEF Proc
  <2> QED BY <1>4, <1>14, <2>1 DEF TraceCandidates, counters
<1> QED BY <1>2, <1>3, <1>5, <1>6, <1>7, <1>8, <1>9, <1>10, <1>11, <1>12, <1>13, <1>14

(* A judged candidate is not logged yet.                                   *)
LEMMA JudgeStep ==
  ASSUME TypeInv, LogInv, NEW p \in Procs, Judge(p)
  PROVE  LogInv'
<1>1. PICK ready \in BOOLEAN, overruled \in BOOLEAN, touch \in BOOLEAN, keep \in BOOLEAN :
        LET d == Decision(ready, overruled, proc[p].judged)
            v == [decision |-> d, touch |-> touch /\ d = "accept", keep |-> keep /\ d = "accept"]
        IN Become(p, [proc[p] EXCEPT !.judged = @ + 1, !.verdict = v, !.pc = StepAfter(v)])
  BY DEF Judge
<1> DEFINE d == Decision(ready, overruled, proc[p].judged)
           v == [decision |-> d, touch |-> touch /\ d = "accept", keep |-> keep /\ d = "accept"]
           new == [proc[p] EXCEPT !.judged = @ + 1, !.verdict = v, !.pc = StepAfter(v)]
<1>2. proc[p] \in Proc /\ proc[p].pc = "infer" /\ proc[p].judged \in {0, 1}
  BY DEF Judge, At, TypeInv, TypeOK, PassInv
<1>3. StepAfter(v) \in Unlogged
  BY DEF StepAfter, Unlogged, Final, Repairing
<1>4. /\ new.pc = StepAfter(v) /\ new.turn = proc[p].turn
      /\ new.judged = proc[p].judged + 1
  BY <1>2 DEF Proc
<1>5. Become(p, new) /\ UNCHANGED <<logs, turns>>
  BY <1>1 DEF Judge, counters
<1> HIDE DEF new, v
<1>6. Logged(new) = Logged(proc[p])
  BY <1>2, <1>3, <1>4 DEF Logged, Unlogged, Final, Repairing
<1>7. new.pc \notin {"candidate", "history"} /\ proc[p].pc \in Running
  BY <1>2, <1>3, <1>4 DEF Unlogged, Running, Final, Repairing
<1> QED BY <1>4, <1>5, <1>6, <1>7, QuietStep

LEMMA StartStep ==
  ASSUME TypeInv, LogInv, NEW p \in Procs, StartTurn(p)
  PROVE  LogInv'
<1> DEFINE new == [Idle EXCEPT !.pc = IF p \in Tracers THEN "session" ELSE "load",
                               !.turn = turns + 1]
<1>1. /\ new.pc \in Fresh /\ new.turn = turns + 1 /\ new.judged = 0
      /\ new.pc \notin {"candidate", "history"} /\ Logged(new) = 0
  BY DEF Idle, Fresh, Logged, Unlogged, Final, Repairing
<1>2. Become(p, new) /\ turns' = turns + 1
      /\ UNCHANGED <<candidates, receipts, history, errors>>
  BY DEF StartTurn, logs
<1> HIDE DEF new
<1>3. proc'[p] = new /\ \A q \in Procs : q # p => proc'[q] = proc[q]
  BY <1>2, Becomes DEF TypeInv
<1>4. /\ turns \in Nat
      /\ \A i \in DOMAIN receipts : receipts[i].turn \in Nat
      /\ \A i \in DOMAIN history : history[i].turn \in Nat
      /\ \A i \in DOMAIN errors : errors[i] \in Nat
      /\ \A q \in Procs : proc[q].turn \in Nat
  BY RowTypes
<1>5. RowInv /\ HistoryIsLast /\ EndsOnce /\ Apart /\ \A q \in Procs : Owns(proc[q])
  BY DEF LogInv
<1>6. RowInv'
  BY <1>2, <1>4, <1>5 DEF RowInv
<1>7. HistoryIsLast' /\ EndsOnce'
  BY <1>2, <1>5 DEF HistoryIsLast, EndsOnce, RowsOf
<1>8. \A q \in Procs : proc[q].pc \in Running => proc[q].turn # turns + 1
  BY <1>4, <1>5 DEF Owns
<1>9. Apart'
  BY <1>1, <1>3, <1>5, <1>8 DEF Apart
<1>10. ASSUME NEW q \in Procs, q # p PROVE Owns(proc[q])'
  BY <1>2, <1>3, <1>4, <1>5, <1>10 DEF Owns, Logged
<1>11. Owns(proc[p])'
  <2>1. /\ \A i \in DOMAIN receipts : receipts[i].turn # turns + 1
        /\ \A i \in DOMAIN history : history[i].turn # turns + 1
        /\ \A i \in DOMAIN errors : errors[i] # turns + 1
    BY <1>4, <1>5 DEF RowInv
  <2>2. /\ proc'[p].pc \in Fresh /\ proc'[p].turn = turns + 1
        /\ proc'[p].pc \notin {"candidate", "history"}
    BY <1>1, <1>3
  <2> QED BY <1>2, <1>4, <2>1, <2>2 DEF Owns
<1> QED BY <1>6, <1>7, <1>9, <1>10, <1>11 DEF LogInv

-----------------------------------------------------------------------------
(* Steps that write a log.                                                 *)

(* The receipt of the pass just judged, repaired or last.                  *)
LEMMA ReceiptStep ==
  ASSUME TypeInv, LogInv, NEW p \in Procs, LogReceipt(p) \/ LogRepairReceipt(p)
  PROVE  LogInv'
<1> DEFINE x == proc[p]
           n == Len(receipts) + 1
<1>1. /\ x \in Proc /\ x.judged \in {1, 2} /\ x.pc \in {"receipt", "repairR"}
      /\ x.verdict.decision = "repair" => x.judged = 1
  BY DEF LogReceipt, LogRepairReceipt, At, TypeInv, TypeOK, PassInv, Final, Repairing
<1>2. x.pc \in Running /\ Logged(x) = x.judged - 1
  BY <1>1 DEF Running, Logged, Unlogged, Final, Repairing
<1>3. /\ proc'[p].turn = x.turn /\ proc'[p].judged = x.judged
      /\ \/ proc'[p].pc = "candidate" /\ proc'[p].verdict = x.verdict
         \/ proc'[p].pc = "infer"
      /\ \A q \in Procs : q # p => proc'[q] = proc[q]
  <2>1. CASE LogReceipt(p)
    <3>1. /\ proc'[p] = [x EXCEPT !.pc = "candidate"]
          /\ \A q \in Procs : q # p => proc'[q] = proc[q]
      BY <2>1, Becomes DEF LogReceipt, Goto, TypeInv
    <3> QED BY <1>1, <3>1 DEF Proc
  <2>2. CASE LogRepairReceipt(p)
    <3>1. /\ proc'[p] = [x EXCEPT !.pc = "infer", !.verdict = NoVerdict]
          /\ \A q \in Procs : q # p => proc'[q] = proc[q]
      BY <2>2, Becomes DEF LogRepairReceipt, TypeInv
    <3> QED BY <1>1, <3>1 DEF Proc
  <2> QED BY <2>1, <2>2
<1>4. UNCHANGED <<candidates, history, errors, turns>>
  BY DEF LogReceipt, LogRepairReceipt, counters
<1>5. /\ DOMAIN receipts' = DOMAIN receipts \cup {n} /\ n \notin DOMAIN receipts
      /\ \A i \in DOMAIN receipts : receipts'[i] = receipts[i]
      /\ receipts'[n].turn = x.turn /\ receipts'[n].pass = x.judged - 1
      /\ receipts'[n].verdict = x.verdict
  <2>1. receipts' = Append(receipts, ReceiptOf(p)) /\ receipts \in Seq(ReceiptRow)
        /\ ReceiptOf(p) \in ReceiptRow
    BY <1>1, RowsTyped DEF LogReceipt, LogRepairReceipt, TypeInv, TypeOK
  <2>2. /\ DOMAIN receipts' = DOMAIN receipts \cup {n} /\ n \notin DOMAIN receipts
        /\ \A i \in DOMAIN receipts : receipts'[i] = receipts[i]
        /\ receipts'[n] = ReceiptOf(p)
    BY <2>1, Appended
  <2> QED BY <2>2 DEF ReceiptOf
<1> HIDE DEF n
<1>6. RowInv /\ HistoryIsLast /\ EndsOnce /\ Apart /\ \A q \in Procs : Owns(proc[q])
  BY DEF LogInv
<1>7. /\ x.turn <= turns
      /\ \A i \in DOMAIN history : history[i].turn # x.turn
      /\ \A i \in DOMAIN errors : errors[i] # x.turn
      /\ \A i \in DOMAIN receipts : receipts[i].turn = x.turn => receipts[i].pass < x.judged - 1
  BY <1>2, <1>6 DEF Owns
<1>8. \A i \in DOMAIN receipts : receipts[i].pass \in Nat
  BY RowTypes
<1>9. RowInv'
  <2>1. ASSUME NEW i \in DOMAIN receipts'
        PROVE  /\ receipts'[i].turn <= turns'
               /\ receipts'[i].verdict.decision = "repair" => receipts'[i].pass = 0
    BY <1>1, <1>4, <1>5, <1>6, <1>7 DEF RowInv
  <2>2. \A i \in DOMAIN receipts :
          ~(receipts[i].turn = x.turn /\ receipts[i].pass = x.judged - 1)
    BY <1>1, <1>7, <1>8
  <2>3. ASSUME NEW i \in DOMAIN receipts', NEW j \in DOMAIN receipts',
               receipts'[i].turn = receipts'[j].turn, receipts'[i].pass = receipts'[j].pass
        PROVE  i = j
    BY <1>5, <1>6, <2>2, <2>3 DEF RowInv
  <2>4. ASSUME NEW i \in DOMAIN history' PROVE history'[i].turn <= turns'
    BY <1>4, <1>6 DEF RowInv
  <2>5. ASSUME NEW i \in DOMAIN errors' PROVE errors'[i] <= turns'
    BY <1>4, <1>6 DEF RowInv
  <2> QED BY <2>1, <2>3, <2>4, <2>5 DEF RowInv
<1>10. HistoryIsLast'
  <2> SUFFICES ASSUME NEW h \in DOMAIN history
               PROVE  LET t == history[h].turn IN
                      /\ \E i \in RowsOf(receipts', t) :
                            /\ receipts'[i].pass = history[h].pass
                            /\ receipts'[i].verdict.decision = history[h].decision
                      /\ \E i \in RowsOf(candidates, t) : candidates[i].pass = history[h].pass
                      /\ \A i \in RowsOf(receipts', t) : receipts'[i].pass <= history[h].pass
    BY <1>4 DEF HistoryIsLast, RowsOf
  <2>1. RowsOf(receipts', history[h].turn) = RowsOf(receipts, history[h].turn)
    BY <1>5, <1>7 DEF RowsOf
  <2>2. \A i \in RowsOf(receipts, history[h].turn) : receipts'[i] = receipts[i]
    BY <1>5 DEF RowsOf
  <2> QED BY <1>6, <2>1, <2>2 DEF HistoryIsLast
<1>11. EndsOnce'
  BY <1>4, <1>6 DEF EndsOnce
<1>12. Apart'
  BY <1>2, <1>3, <1>6 DEF Apart
<1>13. ASSUME NEW q \in Procs, q # p PROVE Owns(proc[q])'
  <2>1. proc'[q] = proc[q]
    BY <1>3, <1>13
  <2>2. proc[q].pc \in Running => proc[q].turn # x.turn
    BY <1>2, <1>6, <1>13 DEF Apart
  <2>3. Owns(proc[q])
    BY <1>6
  <2> QED BY <1>4, <1>5, <2>1, <2>2, <2>3 DEF Owns, Logged
<1>14. Owns(proc[p])'
  <2>1. Logged(proc[p])' = x.judged
    BY <1>3 DEF Logged, Unlogged, Final, Repairing
  <2>2. \A i \in DOMAIN receipts' : receipts'[i].turn = x.turn => receipts'[i].pass < x.judged
    BY <1>1, <1>5, <1>7, <1>8
  <2>3. \E i \in DOMAIN receipts' : /\ receipts'[i].turn = x.turn
                                   /\ receipts'[i].pass = x.judged - 1
                                   /\ receipts'[i].verdict.decision = x.verdict.decision
    BY <1>5
  <2> QED BY <1>3, <1>4, <1>7, <2>1, <2>2, <2>3 DEF Owns
<1> QED BY <1>9, <1>10, <1>11, <1>12, <1>13, <1>14 DEF LogInv

(* The candidate of that pass.                                             *)
LEMMA CandidateStep ==
  ASSUME TypeInv, LogInv, NEW p \in Procs, LogCandidate(p) \/ LogRepairCandidate(p)
  PROVE  LogInv'
<1> DEFINE x == proc[p]
           n == Len(candidates) + 1
<1>1. /\ x \in Proc /\ x.judged \in {1, 2} /\ x.pc \in {"candidate", "repair"}
  BY DEF LogCandidate, LogRepairCandidate, At, TypeInv, TypeOK, PassInv, Final, Repairing
<1>2. /\ proc'[p].turn = x.turn /\ proc'[p].judged = x.judged /\ proc'[p].verdict = x.verdict
      /\ \/ x.pc = "candidate" /\ proc'[p].pc = "history"
         \/ x.pc = "repair" /\ proc'[p].pc = "repairR"
      /\ \A q \in Procs : q # p => proc'[q] = proc[q]
  <2>1. CASE LogCandidate(p)
    <3>1. /\ proc'[p] = [x EXCEPT !.pc = "history"] /\ x.pc = "candidate"
          /\ \A q \in Procs : q # p => proc'[q] = proc[q]
      BY <2>1, Becomes DEF LogCandidate, At, Goto, TypeInv
    <3> QED BY <1>1, <3>1 DEF Proc
  <2>2. CASE LogRepairCandidate(p)
    <3>1. /\ proc'[p] = [x EXCEPT !.pc = "repairR"] /\ x.pc = "repair"
          /\ \A q \in Procs : q # p => proc'[q] = proc[q]
      BY <2>2, Becomes DEF LogRepairCandidate, At, Goto, TypeInv
    <3> QED BY <1>1, <3>1 DEF Proc
  <2> QED BY <2>1, <2>2
<1>3. UNCHANGED <<receipts, history, errors, turns>>
  BY DEF LogCandidate, LogRepairCandidate, counters
<1>4. /\ DOMAIN candidates' = DOMAIN candidates \cup {n} /\ n \notin DOMAIN candidates
      /\ \A i \in DOMAIN candidates : candidates'[i] = candidates[i]
      /\ candidates'[n].turn = x.turn /\ candidates'[n].pass = x.judged - 1
  <2>1. candidates' = Append(candidates, Row(p)) /\ candidates \in Seq(CandidateRow)
        /\ Row(p) \in CandidateRow
    BY <1>1, RowsTyped DEF LogCandidate, LogRepairCandidate, TypeInv, TypeOK
  <2>2. /\ DOMAIN candidates' = DOMAIN candidates \cup {n} /\ n \notin DOMAIN candidates
        /\ \A i \in DOMAIN candidates : candidates'[i] = candidates[i]
        /\ candidates'[n] = Row(p)
    BY <2>1, Appended
  <2> QED BY <2>2 DEF Row
<1> HIDE DEF n
<1>5. RowInv /\ HistoryIsLast /\ EndsOnce /\ Apart /\ \A q \in Procs : Owns(proc[q])
  BY DEF LogInv
<1>6. RowInv' /\ EndsOnce'
  BY <1>3, <1>5 DEF RowInv, EndsOnce
<1>7. HistoryIsLast'
  <2> SUFFICES ASSUME NEW h \in DOMAIN history
               PROVE  LET t == history[h].turn IN
                      /\ \E i \in RowsOf(receipts, t) :
                            /\ receipts[i].pass = history[h].pass
                            /\ receipts[i].verdict.decision = history[h].decision
                      /\ \E i \in RowsOf(candidates', t) : candidates'[i].pass = history[h].pass
                      /\ \A i \in RowsOf(receipts, t) : receipts[i].pass <= history[h].pass
    BY <1>3 DEF HistoryIsLast, RowsOf
  <2> QED BY <1>4, <1>5 DEF HistoryIsLast, RowsOf
<1>8. Apart'
  BY <1>1, <1>2, <1>5 DEF Apart, Running, Final, Repairing
<1>9. ASSUME NEW q \in Procs, q # p PROVE Owns(proc[q])'
  BY <1>2, <1>3, <1>4, <1>5, <1>9 DEF Owns, Logged
<1>10. Owns(proc[p])'
  <2>1. Owns(x) /\ x.pc \in Running /\ Logged(proc[p])' = Logged(x)
    BY <1>1, <1>2, <1>5 DEF Logged, Unlogged, Running, Final, Repairing
  <2>2. \E i \in DOMAIN candidates' : /\ candidates'[i].turn = x.turn
                                     /\ candidates'[i].pass = x.judged - 1
    BY <1>4
  <2> QED BY <1>2, <1>3, <2>1, <2>2 DEF Owns
<1> QED BY <1>6, <1>7, <1>8, <1>9, <1>10 DEF LogInv

(* The last record, in history.jsonl ...                                   *)
LEMMA HistoryStep ==
  ASSUME TypeInv, LogInv, NEW p \in Procs, LogHistory(p)
  PROVE  LogInv'
<1> DEFINE x == proc[p]
           n == Len(history) + 1
           row == [turn |-> x.turn, pass |-> x.judged - 1, decision |-> x.verdict.decision]
<1>1. /\ x \in Proc /\ x.judged \in {1, 2} /\ x.pc = "history" /\ x.turn \in Nat
      /\ x.verdict.decision \in {"accept", "reject"}
  BY RowTypes DEF LogHistory, At, TypeInv, TypeOK, PassInv, Final
<1>2. /\ proc'[p].pc \in {"idle", "readC"}
      /\ \A q \in Procs : q # p => proc'[q] = proc[q]
  <2>1. AfterTurn(p).pc \in {"idle", "readC"}
    BY <1>1 DEF AfterTurn, Idle, Proc
  <2> QED BY <2>1, Becomes DEF LogHistory, TypeInv
<1>3. UNCHANGED <<receipts, candidates, errors, turns>>
  BY DEF LogHistory, counters
<1>4. /\ DOMAIN history' = DOMAIN history \cup {n} /\ n \notin DOMAIN history
      /\ \A i \in DOMAIN history : history'[i] = history[i]
      /\ history'[n] = row
  <2>1. history' = Append(history, row) /\ history \in Seq(HistoryRow) /\ row \in HistoryRow
    BY <1>1 DEF LogHistory, TypeInv, TypeOK, HistoryRow
  <2> QED BY <2>1, Appended
<1> HIDE DEF n
<1>5. RowInv /\ HistoryIsLast /\ EndsOnce /\ Apart /\ \A q \in Procs : Owns(proc[q])
  BY DEF LogInv
<1>6. x.pc \in Running /\ Logged(x) = x.judged
  BY <1>1 DEF Running, Logged, Unlogged, Final, Repairing
<1>7. /\ x.turn <= turns
      /\ \A i \in DOMAIN history : history[i].turn # x.turn
      /\ \A i \in DOMAIN errors : errors[i] # x.turn
      /\ \A i \in DOMAIN receipts : receipts[i].turn = x.turn => receipts[i].pass < x.judged
      /\ \E i \in DOMAIN receipts : /\ receipts[i].turn = x.turn
                                    /\ receipts[i].pass = x.judged - 1
                                    /\ receipts[i].verdict.decision = x.verdict.decision
      /\ \E i \in DOMAIN candidates : /\ candidates[i].turn = x.turn
                                      /\ candidates[i].pass = x.judged - 1
  BY <1>1, <1>5, <1>6 DEF Owns
<1>8. RowInv'
  BY <1>3, <1>4, <1>5, <1>7 DEF RowInv
<1>9. HistoryIsLast'
  <2> SUFFICES ASSUME NEW h \in DOMAIN history'
               PROVE  LET t == history'[h].turn IN
                      /\ \E i \in RowsOf(receipts, t) :
                            /\ receipts[i].pass = history'[h].pass
                            /\ receipts[i].verdict.decision = history'[h].decision
                      /\ \E i \in RowsOf(candidates, t) : candidates[i].pass = history'[h].pass
                      /\ \A i \in RowsOf(receipts, t) : receipts[i].pass <= history'[h].pass
    BY <1>3 DEF HistoryIsLast, RowsOf
  <2>1. CASE h \in DOMAIN history
    BY <1>4, <1>5, <2>1 DEF HistoryIsLast
  <2>2. CASE h = n
    <3>1. \A i \in DOMAIN receipts : receipts[i].turn = x.turn => receipts[i].pass <= x.judged - 1
      BY <1>1, <1>7, RowTypes
    <3> QED BY <1>4, <1>7, <2>2, <3>1 DEF RowsOf
  <2> QED BY <1>4, <2>1, <2>2
<1>10. EndsOnce'
  BY <1>3, <1>4, <1>5, <1>7 DEF EndsOnce
<1>11. Apart'
  BY <1>2, <1>5 DEF Apart, Running, Fresh, Final, Repairing
<1>12. ASSUME NEW q \in Procs, q # p PROVE Owns(proc[q])'
  <2>1. proc[q].pc \in Running => proc[q].turn # x.turn
    BY <1>5, <1>6, <1>12 DEF Apart
  <2>2. proc'[q] = proc[q] /\ Owns(proc[q])
    BY <1>2, <1>5, <1>12
  <2> QED BY <1>3, <1>4, <2>1, <2>2 DEF Owns, Logged
<1>13. Owns(proc[p])'
  BY <1>2 DEF Owns, Running, Fresh, Final, Repairing
<1> QED BY <1>8, <1>9, <1>10, <1>11, <1>12, <1>13 DEF LogInv

(* ... or in errors.jsonl.                                                 *)
LEMMA FailStep ==
  ASSUME TypeInv, LogInv, NEW p \in Procs, TurnFails(p)
  PROVE  LogInv'
<1> DEFINE x == proc[p]
           n == Len(errors) + 1
<1>1. x \in Proc /\ x.pc = "infer" /\ x.turn \in Nat
  BY RowTypes DEF TurnFails, At, TypeInv, TypeOK
<1>2. /\ proc'[p].pc \in {"idle", "readC"}
      /\ \A q \in Procs : q # p => proc'[q] = proc[q]
  <2>1. AfterTurn(p).pc \in {"idle", "readC"}
    BY <1>1 DEF AfterTurn, Idle, Proc
  <2> QED BY <2>1, Becomes DEF TurnFails, TypeInv
<1>3. UNCHANGED <<receipts, candidates, history, turns>>
  BY DEF TurnFails, counters
<1>4. /\ DOMAIN errors' = DOMAIN errors \cup {n} /\ n \notin DOMAIN errors
      /\ \A i \in DOMAIN errors : errors'[i] = errors[i]
      /\ errors'[n] = x.turn
  BY <1>1, Appended DEF TurnFails, TypeInv, TypeOK
<1> HIDE DEF n
<1>5. RowInv /\ HistoryIsLast /\ EndsOnce /\ Apart /\ \A q \in Procs : Owns(proc[q])
  BY DEF LogInv
<1>6. x.pc \in Running
  BY <1>1 DEF Running
<1>7. /\ x.turn <= turns
      /\ \A i \in DOMAIN history : history[i].turn # x.turn
      /\ \A i \in DOMAIN errors : errors[i] # x.turn
  BY <1>5, <1>6 DEF Owns
<1>8. RowInv'
  BY <1>3, <1>4, <1>5, <1>7 DEF RowInv
<1>9. HistoryIsLast'
  BY <1>3, <1>5 DEF HistoryIsLast, RowsOf
<1>10. EndsOnce'
  BY <1>3, <1>4, <1>5, <1>7 DEF EndsOnce
<1>11. Apart'
  BY <1>2, <1>5 DEF Apart, Running, Fresh, Final, Repairing
<1>12. ASSUME NEW q \in Procs, q # p PROVE Owns(proc[q])'
  <2>1. proc[q].pc \in Running => proc[q].turn # x.turn
    BY <1>5, <1>6, <1>12 DEF Apart
  <2>2. proc'[q] = proc[q] /\ Owns(proc[q])
    BY <1>2, <1>5, <1>12
  <2> QED BY <1>3, <1>4, <2>1, <2>2 DEF Owns, Logged
<1>13. Owns(proc[p])'
  BY <1>2 DEF Owns, Running, Fresh, Final, Repairing
<1> QED BY <1>8, <1>9, <1>10, <1>11, <1>12, <1>13 DEF LogInv

-----------------------------------------------------------------------------
(* The logs agree.                                                         *)

LEMMA LogStep == TypeInv /\ LogInv /\ [Next]_vars => LogInv'
<1> SUFFICES ASSUME TypeInv, LogInv, [Next]_vars PROVE LogInv'
  OBVIOUS
<1>1. CASE UNCHANGED vars
  BY <1>1 DEF vars, logs, counters, LogInv, RowInv, HistoryIsLast, EndsOnce, Apart, Owns, RowsOf,
              Logged
<1> QED BY <1>1, QuietSteps, JudgeStep, StartStep, ReceiptStep, CandidateStep, HistoryStep,
           FailStep DEF Next, Advance

LEMMA InitLogs == Init => LogInv
BY DEF Init, LogInv, RowInv, HistoryIsLast, EndsOnce, Apart, Owns, RowsOf, Idle, Running, Fresh,
       Final, Repairing

(* Every record of a turn's end in history.jsonl has the receipt and the   *)
(* candidate it speaks of, and nothing later, whoever else is logging.     *)
THEOREM HistoryAgrees == Spec => []HistoryIsLast
<1>1. LogInv => HistoryIsLast
  BY DEF LogInv
<1> QED BY <1>1, InitTyped, InitLogs, TypeStep, LogStep, PTL DEF Spec

(* A turn leaves one last record, in one of the two logs.                  *)
THEOREM TurnsEndOnce == Spec => []EndsOnce
<1>1. LogInv => EndsOnce
  BY DEF LogInv
<1> QED BY <1>1, InitTyped, InitLogs, TypeStep, LogStep, PTL DEF Spec

(* A turn is repaired at most once for every max_repair.                   *)
THEOREM TurnsRepairedOnce == Spec => []RepairedOnce
<1>1. LogInv => RepairedOnce
  BY DEF LogInv, RowInv, RepairedOnce
<1> QED BY <1>1, InitTyped, InitLogs, TypeStep, LogStep, PTL DEF Spec

-----------------------------------------------------------------------------
(* One process at a time on a state directory, killed and started again    *)
(* anywhere: what is logged is what was applied, and traces are of their   *)
(* own turn.                                                               *)

OneProcess == \A p, q \in Procs : p = q

-----------------------------------------------------------------------------
(* What an action makes of the fields of the process that takes it.        *)

(* y is x but for its place.                                               *)
Moved(x, y) ==
  /\ y.turn = x.turn /\ y.judged = x.judged /\ y.cur = x.cur
  /\ y.verdict = x.verdict /\ y.mark = x.mark /\ y.seen = x.seen

LEMMA BeforeTurn ==
  ASSUME TypeInv, NEW p \in Procs
  PROVE  LET x == proc[p]
             y == proc'[p]
         IN /\ OpenSession(p) => /\ x.pc = "idle" /\ y.pc = "clear"
                                 /\ y.cur.session = sessions + 1 /\ y.cur.recent = <<>>
                                 /\ y.cur.count = current.count
            /\ SaveSession(p) \/ TraceReceipts(p) \/ Abandon(p) => y = Idle
            /\ StartTurn(p) => /\ x.pc = "idle" /\ y.pc \in {"session", "load"} /\ y.judged = 0
                               /\ y.turn = turns + 1 /\ (y.pc = "session" <=> p \in Tracers)
            /\ TraceSession(p) => /\ x.pc = "session" /\ y.pc = "countC" /\ y.turn = x.turn
                                  /\ y.judged = x.judged /\ y.mark.session = current.session
            /\ CountCandidates(p) =>
                 /\ x.pc = "countC" /\ y.pc = "countR" /\ y.turn = x.turn /\ y.judged = x.judged
                 /\ y.mark.session = x.mark.session /\ y.mark.candidates = Len(candidates)
            /\ CountReceipts(p) =>
                 /\ x.pc = "countR" /\ y.pc = "load" /\ y.turn = x.turn /\ y.judged = x.judged
                 /\ y.mark.session = x.mark.session /\ y.mark.candidates = x.mark.candidates
                 /\ y.mark.receipts = Len(receipts)
            /\ LoadCurrent(p) => /\ x.pc = "load" /\ y.pc = "loadT" /\ y.cur = current
                                 /\ y.turn = x.turn /\ y.judged = 0 /\ y.mark = x.mark
            /\ LoadThreads(p) => x.pc = "loadT" /\ y.pc = "infer" /\ Moved(x, y)
<1>0. proc[p] \in Proc /\ current \in Snapshot
  BY DEF TypeInv, TypeOK
<1>1. ASSUME NEW new, Become(p, new) PROVE proc'[p] = new
  BY <1>1, Becomes DEF TypeInv
<1>2. ASSUME OpenSession(p)
      PROVE  /\ proc[p].pc = "idle" /\ proc'[p].pc = "clear"
             /\ proc'[p].cur.session = sessions + 1 /\ proc'[p].cur.recent = <<>>
             /\ proc'[p].cur.count = current.count
  <2>1. proc'[p] = [Idle EXCEPT !.pc = "clear",
                        !.cur = [current EXCEPT !.session = sessions + 1, !.recent = <<>>]]
    BY <1>1, <1>2 DEF OpenSession
  <2>2. proc'[p].cur = [current EXCEPT !.session = sessions + 1, !.recent = <<>>]
        /\ proc'[p].pc = "clear"
    BY <2>1 DEF Idle
  <2> QED BY <1>0, <1>2, <2>2 DEF OpenSession, At, Snapshot
<1>3. ASSUME SaveSession(p) \/ TraceReceipts(p) \/ Abandon(p) PROVE proc'[p] = Idle
  BY <1>1, <1>3 DEF SaveSession, TraceReceipts, Abandon
<1>4. ASSUME StartTurn(p)
      PROVE  /\ proc[p].pc = "idle" /\ proc'[p].pc \in {"session", "load"} /\ proc'[p].judged = 0
             /\ proc'[p].turn = turns + 1 /\ (proc'[p].pc = "session" <=> p \in Tracers)
  <2>1. proc'[p] = [Idle EXCEPT !.pc = IF p \in Tracers THEN "session" ELSE "load",
                                !.turn = turns + 1]
    BY <1>1, <1>4 DEF StartTurn
  <2> QED BY <1>4, <2>1 DEF StartTurn, At, Idle
<1>5. ASSUME TraceSession(p)
      PROVE  /\ proc[p].pc = "session" /\ proc'[p].pc = "countC" /\ proc'[p].turn = proc[p].turn
             /\ proc'[p].judged = proc[p].judged /\ proc'[p].mark.session = current.session
  <2>1. proc'[p] = [proc[p] EXCEPT !.pc = "countC", !.mark.session = current.session]
    BY <1>1, <1>5 DEF TraceSession
  <2> QED BY <1>0, <1>5, <2>1 DEF TraceSession, At, Proc, Mark
<1>6. ASSUME CountCandidates(p)
      PROVE  /\ proc[p].pc = "countC" /\ proc'[p].pc = "countR" /\ proc'[p].turn = proc[p].turn
             /\ proc'[p].judged = proc[p].judged /\ proc'[p].mark.session = proc[p].mark.session
             /\ proc'[p].mark.candidates = Len(candidates)
  <2>1. proc'[p] = [proc[p] EXCEPT !.pc = "countR", !.mark.candidates = Len(candidates)]
    BY <1>1, <1>6 DEF CountCandidates
  <2> QED BY <1>0, <1>6, <2>1 DEF CountCandidates, At, Proc, Mark
<1>7. ASSUME CountReceipts(p)
      PROVE  /\ proc[p].pc = "countR" /\ proc'[p].pc = "load" /\ proc'[p].turn = proc[p].turn
             /\ proc'[p].judged = proc[p].judged /\ proc'[p].mark.session = proc[p].mark.session
             /\ proc'[p].mark.candidates = proc[p].mark.candidates
             /\ proc'[p].mark.receipts = Len(receipts)
  <2>1. proc'[p] = [proc[p] EXCEPT !.pc = "load", !.mark.receipts = Len(receipts)]
    BY <1>1, <1>7 DEF CountReceipts
  <2> QED BY <1>0, <1>7, <2>1 DEF CountReceipts, At, Proc, Mark
<1>8. ASSUME LoadCurrent(p)
      PROVE  /\ proc[p].pc = "load" /\ proc'[p].pc = "loadT" /\ proc'[p].cur = current
             /\ proc'[p].turn = proc[p].turn /\ proc'[p].judged = 0
             /\ proc'[p].mark = proc[p].mark
  <2>1. proc'[p] = [proc[p] EXCEPT !.pc = "loadT", !.cur = current, !.judged = 0]
    BY <1>1, <1>8 DEF LoadCurrent
  <2> QED BY <1>0, <1>8, <2>1 DEF LoadCurrent, At, Proc
<1>9. ASSUME LoadThreads(p)
      PROVE  proc[p].pc = "loadT" /\ proc'[p].pc = "infer" /\ Moved(proc[p], proc'[p])
  <2>1. proc'[p] = [proc[p] EXCEPT !.pc = "infer", !.thr = threads]
    BY <1>1, <1>9 DEF LoadThreads
  <2> QED BY <1>0, <1>9, <2>1 DEF LoadThreads, At, Proc, Moved
<1> QED BY <1>2, <1>3, <1>4, <1>5, <1>6, <1>7, <1>8, <1>9

LEMMA InTurn ==
  ASSUME TypeInv, NEW p \in Procs
  PROVE  LET x == proc[p]
             y == proc'[p]
         IN /\ TurnFails(p) => /\ x.pc = "infer"
                               /\ y = Idle \/ (p \in Tracers /\ y.pc = "readC" /\ Moved(x, y))
            /\ Judge(p) =>
                 /\ x.pc = "infer" /\ y.judged = x.judged + 1 /\ y.turn = x.turn
                 /\ y.cur = x.cur /\ y.mark = x.mark /\ y.pc = StepAfter(y.verdict)
                 /\ y.verdict.touch \/ y.verdict.keep => y.verdict.decision = "accept"
                 /\ y.verdict.decision \in {"accept", "repair", "reject"}
                 /\ y.verdict.touch \in BOOLEAN /\ y.verdict.keep \in BOOLEAN
            /\ TouchCurrent(p) => /\ x.pc = "touch" /\ y.pc = "touchT" /\ y.thr = x.turn
                                  /\ Moved(x, y)
            /\ TouchThreads(p) => /\ x.pc = "touchT" /\ y.pc = IF x.verdict.keep THEN "keep" ELSE "count"
                                  /\ Moved(x, y)
            /\ LogReceipt(p) => x.pc = "receipt" /\ y.pc = "candidate" /\ Moved(x, y)
            /\ LogCandidate(p) => x.pc = "candidate" /\ y.pc = "history" /\ Moved(x, y)
            /\ LogHistory(p) => /\ x.pc = "history"
                                /\ y = Idle \/ (p \in Tracers /\ y.pc = "readC" /\ Moved(x, y))
            /\ LogRepairCandidate(p) => x.pc = "repair" /\ y.pc = "repairR" /\ Moved(x, y)
            /\ LogRepairReceipt(p) =>
                 /\ x.pc = "repairR" /\ y.pc = "infer" /\ y.turn = x.turn /\ y.judged = x.judged
                 /\ y.cur = x.cur /\ y.mark = x.mark
            /\ TraceCandidates(p) =>
                 /\ x.pc = "readC" /\ y.pc = "readR" /\ y.turn = x.turn /\ y.judged = x.judged
                 /\ y.cur = x.cur /\ y.mark = x.mark
                 /\ y.seen = NewLines(candidates, x.mark.candidates, x.judged)
<1>0. proc[p] \in Proc
  BY DEF TypeInv, TypeOK
<1>1. ASSUME NEW new, Become(p, new) PROVE proc'[p] = new
  BY <1>1, Becomes DEF TypeInv
<1>2. ASSUME NEW s, Goto(p, s) PROVE proc'[p].pc = s /\ Moved(proc[p], proc'[p])
  <2>1. proc'[p] = [proc[p] EXCEPT !.pc = s]
    BY <1>1, <1>2 DEF Goto
  <2> QED BY <1>0, <2>1 DEF Proc, Moved
<1>3. AfterTurn(p) = Idle \/ (p \in Tracers /\ AfterTurn(p).pc = "readC" /\ Moved(proc[p], AfterTurn(p)))
  BY <1>0 DEF AfterTurn, Proc, Moved
<1>4. ASSUME TurnFails(p)
      PROVE  /\ proc[p].pc = "infer"
             /\ \/ proc'[p] = Idle
                \/ p \in Tracers /\ proc'[p].pc = "readC" /\ Moved(proc[p], proc'[p])
  BY <1>1, <1>3, <1>4 DEF TurnFails, At
<1>5. ASSUME LogHistory(p)
      PROVE  /\ proc[p].pc = "history"
             /\ \/ proc'[p] = Idle
                \/ p \in Tracers /\ proc'[p].pc = "readC" /\ Moved(proc[p], proc'[p])
  BY <1>1, <1>3, <1>5 DEF LogHistory, At
<1>6. ASSUME Judge(p)
      PROVE  LET x == proc[p]
                 y == proc'[p]
             IN /\ x.pc = "infer" /\ y.judged = x.judged + 1 /\ y.turn = x.turn
                /\ y.cur = x.cur /\ y.mark = x.mark /\ y.pc = StepAfter(y.verdict)
                /\ y.verdict.touch \/ y.verdict.keep => y.verdict.decision = "accept"
                /\ y.verdict.decision \in {"accept", "repair", "reject"}
                /\ y.verdict.touch \in BOOLEAN /\ y.verdict.keep \in BOOLEAN
  <2>1. PICK ready \in BOOLEAN, overruled \in BOOLEAN, touch \in BOOLEAN, keep \in BOOLEAN :
          LET d == Decision(ready, overruled, proc[p].judged)
              v == [decision |-> d, touch |-> touch /\ d = "accept", keep |-> keep /\ d = "accept"]
          IN Become(p, [proc[p] EXCEPT !.judged = @ + 1, !.verdict = v, !.pc = StepAfter(v)])
    BY <1>6 DEF Judge
  <2> DEFINE d == Decision(ready, overruled, proc[p].judged)
             v == [decision |-> d, touch |-> touch /\ d = "accept", keep |-> keep /\ d = "accept"]
  <2>2. proc'[p] = [proc[p] EXCEPT !.judged = @ + 1, !.verdict = v, !.pc = StepAfter(v)]
    BY <1>1, <2>1
  <2>3. d \in {"accept", "repair", "reject"}
    BY DEF Decision
  <2> HIDE DEF d
  <2>4. /\ v.touch \in BOOLEAN /\ v.keep \in BOOLEAN /\ v.decision = d
        /\ v.touch \/ v.keep => v.decision = "accept"
    OBVIOUS
  <2> HIDE DEF v
  <2>5. LET y == proc'[p] IN
        /\ y.judged = proc[p].judged + 1 /\ y.turn = proc[p].turn /\ y.cur = proc[p].cur
        /\ y.mark = proc[p].mark /\ y.verdict = v /\ y.pc = StepAfter(v)
    BY <1>0, <2>2 DEF Proc
  <2> QED BY <1>6, <2>3, <2>4, <2>5 DEF Judge, At
<1>7. ASSUME TouchCurrent(p)
      PROVE  /\ proc[p].pc = "touch" /\ proc'[p].pc = "touchT" /\ proc'[p].thr = proc[p].turn
             /\ Moved(proc[p], proc'[p])
  <2>1. proc'[p] = [proc[p] EXCEPT !.pc = "touchT", !.thr = proc[p].turn]
    BY <1>1, <1>7 DEF TouchCurrent
  <2> QED BY <1>0, <1>7, <2>1 DEF TouchCurrent, At, Proc, Moved
<1>8. ASSUME TouchThreads(p)
      PROVE  /\ proc[p].pc = "touchT" /\ Moved(proc[p], proc'[p])
             /\ proc'[p].pc = IF proc[p].verdict.keep THEN "keep" ELSE "count"
  BY <1>2, <1>8 DEF TouchThreads, At
<1>9. /\ LogReceipt(p) => proc[p].pc = "receipt" /\ proc'[p].pc = "candidate" /\ Moved(proc[p], proc'[p])
      /\ LogCandidate(p) => proc[p].pc = "candidate" /\ proc'[p].pc = "history" /\ Moved(proc[p], proc'[p])
      /\ LogRepairCandidate(p) => proc[p].pc = "repair" /\ proc'[p].pc = "repairR" /\ Moved(proc[p], proc'[p])
  BY <1>2 DEF LogReceipt, LogCandidate, LogRepairCandidate, At
<1>10. ASSUME LogRepairReceipt(p)
       PROVE  /\ proc[p].pc = "repairR" /\ proc'[p].pc = "infer" /\ proc'[p].turn = proc[p].turn
              /\ proc'[p].judged = proc[p].judged /\ proc'[p].cur = proc[p].cur
              /\ proc'[p].mark = proc[p].mark
  <2>1. proc'[p] = [proc[p] EXCEPT !.pc = "infer", !.verdict = NoVerdict]
    BY <1>1, <1>10 DEF LogRepairReceipt
  <2> QED BY <1>0, <1>10, <2>1 DEF LogRepairReceipt, At, Proc
<1>11. ASSUME TraceCandidates(p)
       PROVE  /\ proc[p].pc = "readC" /\ proc'[p].pc = "readR" /\ proc'[p].turn = proc[p].turn
              /\ proc'[p].judged = proc[p].judged /\ proc'[p].cur = proc[p].cur
              /\ proc'[p].mark = proc[p].mark
              /\ proc'[p].seen = NewLines(candidates, proc[p].mark.candidates, proc[p].judged)
  <2> DEFINE lines == NewLines(candidates, proc[p].mark.candidates, proc[p].judged)
  <2>1. proc'[p] = [proc[p] EXCEPT !.pc = "readR", !.seen = lines]
    BY <1>1, <1>11 DEF TraceCandidates
  <2> HIDE DEF lines
  <2>2. /\ proc'[p].pc = "readR" /\ proc'[p].turn = proc[p].turn /\ proc'[p].seen = lines
        /\ proc'[p].judged = proc[p].judged /\ proc'[p].cur = proc[p].cur
        /\ proc'[p].mark = proc[p].mark
    BY <1>0, <2>1 DEF Proc
  <2> QED BY <1>11, <2>2 DEF TraceCandidates, At, lines
<1> QED BY <1>4, <1>5, <1>6, <1>7, <1>8, <1>9, <1>10, <1>11

LEMMA InMemory ==
  ASSUME TypeInv, NEW p \in Procs
  PROVE  LET x == proc[p]
             y == proc'[p]
         IN /\ Keep(p) =>
                 /\ x.pc = "keep" /\ y.pc = "count" /\ y.turn = x.turn /\ y.judged = x.judged
                 /\ y.verdict = x.verdict /\ y.mark = x.mark
                 /\ y.cur.recent \in Fitted(Append(x.cur.recent,
                                       [turn |-> x.turn, session |-> x.cur.session]))
                 /\ y.cur.session = x.cur.session /\ y.cur.count = x.cur.count
                 /\ current' = y.cur
            /\ Count(p) =>
                 /\ x.pc = "count" /\ y.pc = "receipt" /\ y.turn = x.turn /\ y.judged = x.judged
                 /\ y.verdict = x.verdict /\ y.mark = x.mark
                 /\ y.cur.recent = x.cur.recent /\ y.cur.session = x.cur.session
                 /\ y.cur.count = x.cur.count + 1
                 /\ current' = y.cur
<1>0. proc[p] \in Proc /\ proc[p].cur \in Snapshot
  BY DEF TypeInv, TypeOK, Proc
<1>1. ASSUME NEW new, Become(p, new) PROVE proc'[p] = new
  BY <1>1, Becomes DEF TypeInv
<1>2. ASSUME Keep(p)
      PROVE  LET x == proc[p]
                 y == proc'[p]
             IN /\ x.pc = "keep" /\ y.pc = "count" /\ y.turn = x.turn /\ y.judged = x.judged
                /\ y.verdict = x.verdict /\ y.mark = x.mark
                /\ y.cur.recent \in Fitted(Append(x.cur.recent,
                                      [turn |-> x.turn, session |-> x.cur.session]))
                /\ y.cur.session = x.cur.session /\ y.cur.count = x.cur.count
                /\ current' = y.cur
  <2> DEFINE all == Fitted(Append(proc[p].cur.recent,
                                  [turn |-> proc[p].turn, session |-> proc[p].cur.session]))
  <2>1. PICK kept \in all : /\ Become(p, [proc[p] EXCEPT !.pc = "count", !.cur.recent = kept])
                            /\ current' = [proc[p].cur EXCEPT !.recent = kept]
    BY <1>2 DEF Keep
  <2> HIDE DEF all
  <2>2. proc'[p] = [proc[p] EXCEPT !.pc = "count", !.cur.recent = kept]
    BY <1>1, <2>1
  <2>3. LET y == proc'[p] IN
        /\ y.pc = "count" /\ y.turn = proc[p].turn /\ y.judged = proc[p].judged
        /\ y.verdict = proc[p].verdict /\ y.mark = proc[p].mark
        /\ y.cur = [proc[p].cur EXCEPT !.recent = kept]
    BY <1>0, <2>2 DEF Proc
  <2>4. LET c == [proc[p].cur EXCEPT !.recent = kept] IN
        c.recent = kept /\ c.session = proc[p].cur.session /\ c.count = proc[p].cur.count
    BY <1>0 DEF Snapshot
  <2> QED BY <1>2, <2>1, <2>3, <2>4 DEF Keep, At, all
<1>3. ASSUME Count(p)
      PROVE  LET x == proc[p]
                 y == proc'[p]
             IN /\ x.pc = "count" /\ y.pc = "receipt" /\ y.turn = x.turn /\ y.judged = x.judged
                /\ y.verdict = x.verdict /\ y.mark = x.mark
                /\ y.cur.recent = x.cur.recent /\ y.cur.session = x.cur.session
                /\ y.cur.count = x.cur.count + 1
                /\ current' = y.cur
  <2>1. proc'[p] = [proc[p] EXCEPT !.pc = "receipt", !.cur.count = @ + 1]
    BY <1>1, <1>3 DEF Count
  <2>2. LET y == proc'[p] IN
        /\ y.pc = "receipt" /\ y.turn = proc[p].turn /\ y.judged = proc[p].judged
        /\ y.verdict = proc[p].verdict /\ y.mark = proc[p].mark
        /\ y.cur = [proc[p].cur EXCEPT !.count = @ + 1]
    BY <1>0, <2>1 DEF Proc
  <2>3. LET c == [proc[p].cur EXCEPT !.count = @ + 1] IN
        /\ c.recent = proc[p].cur.recent /\ c.session = proc[p].cur.session
        /\ c.count = proc[p].cur.count + 1
    BY <1>0 DEF Snapshot
  <2> QED BY <1>3, <2>2, <2>3 DEF Count, At
<1> QED BY <1>2, <1>3

-----------------------------------------------------------------------------
(* What the process holds is what is on disk.                              *)

Between == {"idle", "clear"}
Tracing == {"session", "countC", "countR", "readC", "readR"}
Holding == {"loadT", "infer", "readC", "readR"} \cup Final \cup Repairing

HeldBy(p) ==
  /\ proc[p].pc \notin Between => proc[p].turn = turns
  /\ proc[p].pc \in Holding => proc[p].cur = current
  /\ proc[p].pc = "clear" =>
       /\ proc[p].cur.recent = <<>> /\ proc[p].cur.count = current.count
       /\ proc[p].cur.session = sessions /\ current.session < sessions
  /\ proc[p].pc \in Tracing => p \in Tracers
  /\ p \in Tracers /\ proc[p].pc \notin Between \cup {"session"} =>
       proc[p].mark.session = current.session

HeldInv == current.session <= sessions /\ \A p \in Procs : HeldBy(p)

(* Nobody else writes, so what is saved is what was loaded, but for what   *)
(* the turn itself changed; and a turn keeps the session it began in.      *)
LEMMA HeldStep ==
  ASSUME OneProcess, TypeInv, HeldInv, [Next]_vars
  PROVE  /\ HeldInv'
         /\ current'.session >= current.session
<1>0. /\ current \in Snapshot /\ current.session \in Nat /\ sessions \in Nat /\ turns \in Nat
      /\ current.session <= sessions
  BY DEF TypeInv, TypeOK, Snapshot, HeldInv
<1>1. CASE UNCHANGED vars
  BY <1>0, <1>1 DEF vars, logs, counters, HeldInv, HeldBy
<1>2. CASE Next
  <2>1. PICK p \in Procs : OpenSession(p) \/ StartTurn(p) \/ Advance(p) \/ Abandon(p)
    BY <1>2 DEF Next
  <2> DEFINE x == proc[p]
             y == proc'[p]
  <2>2. /\ HeldBy(p) /\ \A q \in Procs : q = p
    BY DEF OneProcess, HeldInv
  <2>3. SUFFICES HeldBy(p)' /\ current'.session <= sessions' /\ current'.session >= current.session
    BY <2>2 DEF HeldInv
  <2> USE DEF HeldBy, Between, Tracing, Holding, Final, Repairing
  <2>4. CASE OpenSession(p)
    BY <1>0, <2>2, <2>4, BeforeTurn DEF OpenSession
  <2>5. CASE SaveSession(p)
    <3>1. At(p, "clear") /\ current' = x.cur /\ UNCHANGED counters
      BY <2>5 DEF SaveSession
    <3>2. y.pc = "idle"
      BY <2>5, BeforeTurn DEF Idle
    <3> QED BY <1>0, <2>2, <3>1, <3>2 DEF At, counters
  <2>6. CASE StartTurn(p)
    <3>1. UNCHANGED <<current, sessions>> /\ turns' = turns + 1
      BY <2>6 DEF StartTurn
    <3> QED BY <1>0, <2>2, <2>6, <3>1, BeforeTurn
  <2>7. CASE TraceSession(p) \/ CountCandidates(p) \/ CountReceipts(p) \/ LoadCurrent(p) \/ LoadThreads(p)
    <3>1. UNCHANGED <<current, counters>>
      BY <2>7 DEF TraceSession, CountCandidates, CountReceipts, LoadCurrent, LoadThreads
    <3> QED BY <1>0, <2>2, <2>7, <3>1, BeforeTurn DEF counters, Moved
  <2>8. CASE TraceReceipts(p) \/ Abandon(p)
    <3>1. UNCHANGED <<current, counters>>
      BY <2>8 DEF TraceReceipts, Abandon
    <3> QED BY <1>0, <2>2, <2>8, <3>1, BeforeTurn DEF counters, Idle
  <2>9. CASE TurnFails(p) \/ LogHistory(p)
    <3>1. UNCHANGED <<current, counters>>
      BY <2>9 DEF TurnFails, LogHistory
    <3>2. /\ x.pc \in {"infer", "history"}
          /\ y = Idle \/ (p \in Tracers /\ y.pc = "readC" /\ Moved(x, y))
      BY <2>9, InTurn
    <3> QED BY <1>0, <2>2, <3>1, <3>2 DEF counters, Idle, Moved
  <2>10. CASE Judge(p)
    <3>1. UNCHANGED <<current, counters>>
      BY <2>10 DEF Judge
    <3>2. y.pc \in {"repair", "receipt", "touch", "keep", "count"}
      BY <2>10, InTurn DEF StepAfter
    <3> QED BY <1>0, <2>2, <2>10, <3>1, <3>2, InTurn DEF counters
  <2>11. CASE TouchCurrent(p)
    <3>1. UNCHANGED counters /\ current' = x.cur
      BY <2>11 DEF TouchCurrent
    <3> QED BY <1>0, <2>2, <2>11, <3>1, InTurn DEF counters, Moved
  <2>12. CASE TouchThreads(p) \/ LogReceipt(p) \/ LogCandidate(p) \/ LogRepairCandidate(p)
             \/ LogRepairReceipt(p) \/ TraceCandidates(p)
    <3>1. UNCHANGED <<current, counters>>
      BY <2>12 DEF TouchThreads, LogReceipt, LogCandidate, LogRepairCandidate, LogRepairReceipt,
                   TraceCandidates
    <3>2. /\ y.turn = x.turn /\ y.cur = x.cur /\ y.mark = x.mark
          /\ x.pc \in Holding /\ y.pc \in Holding /\ (y.pc \in Tracing => x.pc \in Tracing)
      BY <2>12, InTurn DEF Moved
    <3> QED BY <1>0, <2>2, <3>1, <3>2 DEF counters
  <2>13. CASE Keep(p) \/ Count(p)
    <3>1. UNCHANGED counters
      BY <2>13 DEF Keep, Count
    <3>2. /\ x.pc \in {"keep", "count"} /\ y.pc \in {"count", "receipt"} /\ y.turn = x.turn
          /\ y.mark = x.mark /\ y.cur.session = x.cur.session /\ current' = y.cur
      BY <2>13, InMemory
    <3> QED BY <1>0, <2>2, <3>1, <3>2 DEF counters
  <2> QED BY <2>1, <2>4, <2>5, <2>6, <2>7, <2>8, <2>9, <2>10, <2>11, <2>12, <2>13 DEF Advance
<1> QED BY <1>1, <1>2

LEMMA InitHeld == Init => HeldInv
BY DEF Init, HeldInv, HeldBy, Seed, Idle, Between, Tracing, Holding, Final, Repairing

(* With one process no save brings an older session back.                  *)
THEOREM ClearedForGood ==
  ASSUME OneProcess
  PROVE  Spec => ClearedStaysCleared
<1>1. TypeInv /\ HeldInv /\ [Next]_vars => HeldInv' /\ [current'.session >= current.session]_vars
  BY HeldStep
<1> QED BY <1>1, InitTyped, InitHeld, TypeStep, PTL DEF Spec, ClearedStaysCleared

-----------------------------------------------------------------------------
(* The receipt counter covers what was accepted.                           *)

Accepted == {i \in DOMAIN receipts : receipts[i].verdict.decision = "accept"}

(* An acceptance is counted before its receipt is logged.                  *)
CountInv ==
  /\ CountCoversReceipts
  /\ \A p \in Procs : proc[p].pc = "receipt" /\ proc[p].verdict.decision = "accept" =>
       Cardinality(Accepted) < current.count

LEMMA AcceptedFinite ==
  ASSUME TypeInv
  PROVE  IsFiniteSet(Accepted) /\ Cardinality(Accepted) \in Nat
<1>1. IsFiniteSet(1..Len(receipts)) /\ DOMAIN receipts = 1..Len(receipts)
  BY FS_Interval DEF TypeInv, TypeOK
<1>2. IsFiniteSet(Accepted)
  BY <1>1, FS_Subset DEF Accepted
<1> QED BY <1>2, FS_CardinalityType

LEMMA CountStep ==
  ASSUME OneProcess, TypeInv, HeldInv, CountInv, [Next]_vars
  PROVE  CountInv'
<1>0. /\ Cardinality(Accepted) <= current.count /\ current.count \in Nat
      /\ IsFiniteSet(Accepted) /\ Cardinality(Accepted) \in Nat
  BY AcceptedFinite DEF TypeInv, TypeOK, Snapshot, CountInv, CountCoversReceipts, Accepted
<1>1. CASE UNCHANGED vars
  BY <1>1 DEF vars, logs, CountInv, CountCoversReceipts, Accepted
<1>2. CASE Next
  <2>1. PICK p \in Procs : OpenSession(p) \/ StartTurn(p) \/ Advance(p) \/ Abandon(p)
    BY <1>2 DEF Next
  <2> DEFINE x == proc[p]
             y == proc'[p]
  <2>2. \A q \in Procs : q = p
    BY DEF OneProcess
  <2>3. /\ HeldBy(p) /\ x \in Proc
        /\ (x.pc = "receipt" /\ x.verdict.decision = "accept" =>
             Cardinality(Accepted) < current.count)
    BY DEF HeldInv, CountInv, TypeInv, TypeOK
  <2>4. SUFFICES /\ Cardinality(Accepted') <= current'.count
                 /\ y.pc = "receipt" /\ y.verdict.decision = "accept" =>
                      Cardinality(Accepted') < current'.count
    BY <2>2 DEF CountInv, CountCoversReceipts, Accepted
  <2>5. ASSUME receipts' = receipts PROVE Accepted' = Accepted
    BY <2>5 DEF Accepted
  <2> USE DEF HeldBy, Between, Holding, Final, Repairing
  <2>6. CASE OpenSession(p) \/ StartTurn(p) \/ TraceSession(p) \/ CountCandidates(p)
               \/ CountReceipts(p) \/ LoadCurrent(p) \/ LoadThreads(p)
    <3>1. UNCHANGED <<current, receipts>>
      BY <2>6 DEF OpenSession, StartTurn, TraceSession, CountCandidates, CountReceipts,
                  LoadCurrent, LoadThreads, logs
    <3>2. y.pc # "receipt"
      BY <2>6, BeforeTurn
    <3> QED BY <1>0, <2>5, <3>1, <3>2
  <2>7. CASE SaveSession(p) \/ TraceReceipts(p) \/ Abandon(p)
    <3>1. y.pc # "receipt" /\ receipts' = receipts
      BY <2>7, BeforeTurn DEF Idle, SaveSession, TraceReceipts, Abandon, logs
    <3>2. current'.count = current.count
      BY <2>3, <2>7 DEF SaveSession, TraceReceipts, Abandon, At
    <3> QED BY <1>0, <2>5, <3>1, <3>2
  <2>8. CASE TurnFails(p) \/ LogHistory(p) \/ TouchThreads(p) \/ LogCandidate(p)
               \/ LogRepairCandidate(p) \/ TraceCandidates(p)
    <3>1. UNCHANGED <<current, receipts>>
      BY <2>8 DEF TurnFails, LogHistory, TouchThreads, LogCandidate, LogRepairCandidate,
                  TraceCandidates, logs
    <3>2. y.pc # "receipt"
      BY <2>8, InTurn DEF Idle
    <3> QED BY <1>0, <2>5, <3>1, <3>2
  <2>9. CASE Judge(p)
    <3>1. UNCHANGED <<current, receipts>>
      BY <2>9 DEF Judge, logs
    <3>2. y.pc = "receipt" => y.verdict.decision # "accept"
      BY <2>9, InTurn DEF StepAfter
    <3> QED BY <1>0, <2>5, <3>1, <3>2
  <2>10. CASE TouchCurrent(p)
    <3>1. current' = x.cur /\ receipts' = receipts
      BY <2>10 DEF TouchCurrent, logs
    <3>2. x.pc = "touch" /\ y.pc = "touchT"
      BY <2>10, InTurn
    <3> QED BY <1>0, <2>3, <2>5, <3>1, <3>2
  <2>11. CASE Keep(p) \/ Count(p)
    <3>1. receipts' = receipts
      BY <2>11 DEF Keep, Count, logs
    <3>2. /\ x.pc \in {"keep", "count"} /\ current' = y.cur
          /\ \/ y.pc = "count" /\ y.cur.count = x.cur.count
             \/ y.pc = "receipt" /\ y.cur.count = x.cur.count + 1
      BY <2>11, InMemory
    <3> QED BY <1>0, <2>3, <2>5, <3>1, <3>2
  <2>12. CASE LogReceipt(p) \/ LogRepairReceipt(p)
    <3> DEFINE n == Len(receipts) + 1
    <3>1. /\ receipts' = Append(receipts, ReceiptOf(p)) /\ current' = current
          /\ y.pc # "receipt" /\ x.pc \in {"receipt", "repairR"}
      BY <2>12, InTurn DEF LogReceipt, LogRepairReceipt
    <3>2. x.judged \in {1, 2} /\ (x.pc = "repairR" => x.verdict.decision # "accept")
      BY <3>1 DEF TypeInv, PassInv
    <3>3. receipts \in Seq(ReceiptRow) /\ ReceiptOf(p) \in ReceiptRow
      BY <3>2, RowsTyped DEF TypeInv, TypeOK
    <3>4. /\ DOMAIN receipts' = DOMAIN receipts \cup {n} /\ n \notin DOMAIN receipts
          /\ \A i \in DOMAIN receipts : receipts'[i] = receipts[i]
          /\ receipts'[n] = ReceiptOf(p)
      BY <3>1, <3>3, Appended
    <3>5. receipts'[n].verdict = x.verdict
      BY <3>4 DEF ReceiptOf
    <3> HIDE DEF n
    <3>6. CASE x.verdict.decision = "accept"
      <4>1. Accepted' = Accepted \cup {n} /\ n \notin Accepted
        BY <3>4, <3>5, <3>6 DEF Accepted
      <4>2. Cardinality(Accepted') = Cardinality(Accepted) + 1
        BY <1>0, <4>1, FS_AddElement
      <4> QED BY <1>0, <2>3, <3>1, <3>2, <3>6, <4>2
    <3>7. CASE x.verdict.decision # "accept"
      <4>1. Accepted' = Accepted
        BY <3>4, <3>5, <3>7 DEF Accepted
      <4> QED BY <1>0, <3>1, <4>1
    <3> QED BY <3>6, <3>7
  <2> QED BY <2>1, <2>6, <2>7, <2>8, <2>9, <2>10, <2>11, <2>12 DEF Advance
<1> QED BY <1>1, <1>2

LEMMA InitCount == Init => CountInv
<1> SUFFICES ASSUME Init PROVE CountInv
  OBVIOUS
<1>1. Accepted = {} /\ current.count = 0
  BY DEF Init, Accepted, Seed
<1>2. Cardinality(Accepted) = 0
  BY <1>1, FS_EmptySet
<1> QED BY <1>1, <1>2 DEF Init, CountInv, CountCoversReceipts, Accepted, Idle

(* With one process, killed anywhere, no acceptance is on record that the  *)
(* receipt counter of current.json does not count.                         *)
THEOREM CounterCovers ==
  ASSUME OneProcess
  PROVE  Spec => []CountCoversReceipts
<1>1. CountInv => CountCoversReceipts
  BY DEF CountInv
<1>2. TypeInv /\ HeldInv /\ [Next]_vars => HeldInv'
  BY HeldStep
<1>3. TypeInv /\ HeldInv /\ CountInv /\ [Next]_vars => CountInv'
  BY CountStep
<1> QED BY <1>1, <1>2, <1>3, InitTyped, InitHeld, InitCount, TypeStep, PTL DEF Spec

-----------------------------------------------------------------------------
(* What is logged was applied.                                             *)

Ascending(recent) ==
  \A i, j \in DOMAIN recent : i < j => recent[i].turn < recent[j].turn

(* An exchange is recalled, or was dropped as older than what is.          *)
Recalled(t, recent) ==
  /\ recent # <<>>
  /\ (\E k \in DOMAIN recent : recent[k].turn = t) \/ t < Head(recent).turn

LEMMA SuffixRecalls ==
  ASSUME NEW recent \in Seq(Exchange), NEW e \in Exchange, Ascending(recent),
         \A i \in DOMAIN recent : recent[i].turn < e.turn,
         NEW kept \in Fitted(Append(recent, e))
  PROVE  /\ Ascending(kept)
         /\ \A i \in DOMAIN kept : kept[i].turn <= e.turn
         /\ \E i \in DOMAIN kept : kept[i].turn = e.turn
         /\ \A t \in Nat : Recalled(t, recent) => Recalled(t, kept)
<1> DEFINE g == Append(recent, e)
           n == Len(recent) + 1
<1>1. /\ g \in Seq(Exchange) /\ Len(g) = n /\ DOMAIN g = 1..n /\ n \in Nat \ {0}
      /\ DOMAIN recent = 1..(n - 1)
      /\ \A i \in 1..(n - 1) : g[i] = recent[i]
      /\ g[n] = e
  BY Appended
<1>2. PICK k \in 1..n : kept = SubSeq(g, k, n)
  BY <1>1 DEF Fitted
<1>3. \A i \in 1..n : g[i].turn \in Nat
  <2>1. \A i \in 1..n : g[i] \in Exchange
    BY <1>1
  <2> QED BY <2>1 DEF Exchange
<1>4. \A i, j \in 1..n : i < j => g[i].turn < g[j].turn
  <2>1. ASSUME NEW i \in 1..n, NEW j \in 1..n, i < j PROVE g[i].turn < g[j].turn
    <3>1. i \in 1..(n - 1) /\ (j \in 1..(n - 1) \/ j = n)
      BY <2>1, <1>1
    <3> QED BY <1>1, <2>1, <3>1 DEF Ascending
  <2> QED BY <2>1
<1>5. \A t \in Nat : Recalled(t, recent) => (\E i \in 1..n : g[i].turn = t) \/ t < g[1].turn
  <2>1. ASSUME NEW t \in Nat, Recalled(t, recent)
        PROVE  (\E i \in 1..n : g[i].turn = t) \/ t < g[1].turn
    <3>1. 1 \in 1..(n - 1) /\ Head(recent) = recent[1]
      BY <1>1, <2>1 DEF Recalled
    <3> QED BY <1>1, <2>1, <3>1 DEF Recalled
  <2> QED BY <2>1
<1> HIDE DEF g, n
<1>6. /\ DOMAIN kept = 1..(n - k + 1) /\ \A i \in 1..(n - k + 1) : kept[i] = g[k + i - 1]
      /\ kept # <<>> /\ Head(kept) = kept[1] /\ 1 \in 1..(n - k + 1)
  BY <1>1, <1>2
<1>7. \A i \in 1..(n - k + 1) : k + i - 1 \in 1..n
  BY <1>1, <1>2
<1>8. Ascending(kept)
  <2>1. ASSUME NEW i \in DOMAIN kept, NEW j \in DOMAIN kept, i < j
        PROVE  kept[i].turn < kept[j].turn
    <3>1. k + i - 1 < k + j - 1 /\ k + i - 1 \in 1..n /\ k + j - 1 \in 1..n
      BY <1>1, <1>2, <1>6, <1>7, <2>1, SMTT(30)
    <3> QED BY <1>4, <1>6, <2>1, <3>1
  <2> QED BY <2>1 DEF Ascending
<1>9. \A i \in DOMAIN kept : kept[i].turn <= e.turn
  <2>1. ASSUME NEW i \in DOMAIN kept PROVE kept[i].turn <= e.turn
    <3>1. k + i - 1 \in 1..n /\ kept[i] = g[k + i - 1]
      BY <1>6, <1>7
    <3> QED BY <1>1, <1>3, <1>4, <3>1
  <2> QED BY <2>1
<1>10. \E i \in DOMAIN kept : kept[i].turn = e.turn
  <2>1. n - k + 1 \in 1..(n - k + 1) /\ k + (n - k + 1) - 1 = n
    BY <1>1, <1>2
  <2>2. kept[n - k + 1] = g[n]
    BY <1>6, <2>1
  <2> QED BY <1>1, <1>6, <2>1, <2>2
<1>11. ASSUME NEW t \in Nat, Recalled(t, recent) PROVE Recalled(t, kept)
  <2>1. kept[1] = g[k] /\ k \in 1..n /\ 1 \in 1..n
    BY <1>1, <1>2, <1>6
  <2>2. CASE \E i \in 1..n : g[i].turn = t
    <3>1. PICK i \in 1..n : g[i].turn = t
      BY <2>2
    <3>2. CASE i < k
      <4>1. t < g[k].turn
        BY <1>2, <1>4, <3>1, <3>2
      <4> QED BY <1>6, <2>1, <4>1 DEF Recalled
    <3>3. CASE ~(i < k)
      <4>1. i - k + 1 \in 1..(n - k + 1) /\ k + (i - k + 1) - 1 = i
        BY <1>1, <1>2, <3>1, <3>3
      <4>2. kept[i - k + 1] = g[i]
        BY <1>6, <4>1
      <4> QED BY <1>6, <3>1, <4>1, <4>2 DEF Recalled
    <3> QED BY <3>2, <3>3
  <2>3. CASE t < g[1].turn
    <3>1. g[1].turn <= g[k].turn
      BY <1>2, <1>3, <1>4, <2>1
    <3>2. t < g[k].turn
      BY <1>3, <2>1, <2>3, <3>1
    <3> QED BY <1>6, <2>1, <3>2 DEF Recalled
  <2> QED BY <1>5, <1>11, <2>2, <2>3
<1> QED BY <1>8, <1>9, <1>10, <1>11

(* Before its own exchange is kept, a turn is newer than all it recalls.   *)
Unkept == Fresh \cup {"infer", "touch", "touchT", "keep"} \cup Repairing

AppliedBy(p) ==
  /\ proc[p].pc \in Unkept => \A i \in DOMAIN current.recent : current.recent[i].turn < turns
  /\ proc[p].pc = "touchT" => proc[p].thr = proc[p].turn
  /\ proc[p].pc \in {"keep", "count", "receipt"} /\ proc[p].verdict.touch =>
       threads >= proc[p].turn
  /\ proc[p].pc \in {"count", "receipt"} /\ proc[p].verdict.keep =>
       \E k \in DOMAIN current.recent : current.recent[k].turn = proc[p].turn
  /\ proc[p].pc \in Repairing => ~proc[p].verdict.touch /\ ~proc[p].verdict.keep

Applied(r) ==
  /\ r.session <= current.session
  /\ r.verdict.touch => threads >= r.turn
  /\ r.verdict.keep /\ r.session = current.session => Recalled(r.turn, current.recent)

MemoryInv ==
  /\ \A i \in DOMAIN receipts : Applied(receipts[i])
  /\ Ascending(current.recent)
  /\ \A i \in DOMAIN current.recent : current.recent[i].turn <= turns
  /\ \A p \in Procs : AppliedBy(p)

(* The step of a process after which every receipt is still applied.       *)
LEMMA MemoryStep ==
  ASSUME OneProcess, TypeInv, HeldInv, LogInv, MemoryInv, [Next]_vars
  PROVE  MemoryInv'
<1>0. /\ current \in Snapshot /\ current.recent \in Seq(Exchange) /\ current.session \in Nat
      /\ turns \in Nat /\ threads \in Nat
      /\ \A i \in DOMAIN current.recent : current.recent[i].turn \in Nat
  <2>1. current \in Snapshot /\ current.recent \in Seq(Exchange) /\ current.session \in Nat
        /\ turns \in Nat /\ threads \in Nat
    BY DEF TypeInv, TypeOK, Snapshot
  <2>2. \A i \in DOMAIN current.recent : current.recent[i] \in Exchange
    BY <2>1
  <2> QED BY <2>1, <2>2 DEF Exchange
<1>00. \A i \in DOMAIN receipts : /\ receipts[i].turn \in Nat /\ receipts[i].turn <= turns
                                  /\ receipts[i].session \in Nat
  <2>1. \A i \in DOMAIN receipts : receipts[i] \in ReceiptRow
    BY DEF TypeInv, TypeOK
  <2> QED BY <2>1, RowTypes DEF ReceiptRow, LogInv, RowInv
<1>1. CASE UNCHANGED vars
  BY <1>1 DEF vars, logs, counters, MemoryInv, Applied, AppliedBy, Ascending, Recalled
<1>2. CASE Next
  <2>1. PICK p \in Procs : OpenSession(p) \/ StartTurn(p) \/ Advance(p) \/ Abandon(p)
    BY <1>2 DEF Next
  <2> DEFINE x == proc[p]
             y == proc'[p]
  <2>2. \A q \in Procs : q = p
    BY DEF OneProcess
  <2>3. /\ HeldBy(p) /\ AppliedBy(p) /\ x \in Proc /\ x.turn \in Nat
        /\ \A i \in DOMAIN receipts : Applied(receipts[i])
        /\ Ascending(current.recent)
        /\ \A i \in DOMAIN current.recent : current.recent[i].turn <= turns
    BY TurnAssumptions DEF HeldInv, MemoryInv, TypeInv, TypeOK, Proc
  <2>4. ASSUME /\ AppliedBy(p)' /\ Ascending(current'.recent)
               /\ \A i \in DOMAIN current'.recent : current'.recent[i].turn <= turns'
               /\ \A i \in DOMAIN receipts' : Applied(receipts[i])'
        PROVE  MemoryInv'
    BY <2>2, <2>4 DEF MemoryInv, Ascending
  (* Nothing of the memory changes. *)
  <2>5. ASSUME UNCHANGED <<current, threads, receipts>>, turns' >= turns, AppliedBy(p)',
               turns' \in Nat
        PROVE  MemoryInv'
    <3>1. \A i \in DOMAIN current'.recent : current'.recent[i].turn <= turns'
      BY <1>0, <2>3, <2>5
    <3>2. \A i \in DOMAIN receipts' : Applied(receipts[i])'
      BY <2>3, <2>5 DEF Applied, Recalled
    <3> QED BY <2>3, <2>4, <2>5, <3>1, <3>2
  <2> USE DEF HeldBy, AppliedBy, Between, Holding, Unkept, Fresh, Final, Repairing
  <2>6. CASE OpenSession(p)
    <3>1. UNCHANGED <<current, threads, receipts, turns>>
      BY <2>6 DEF OpenSession, logs
    <3>2. y.pc = "clear"
      BY <2>6, BeforeTurn
    <3> QED BY <1>0, <2>5, <3>1, <3>2
  <2>7. CASE StartTurn(p)
    <3>1. UNCHANGED <<current, threads, receipts>> /\ turns' = turns + 1
      BY <2>7 DEF StartTurn, logs
    <3>2. y.pc \in {"session", "load"}
      BY <2>7, BeforeTurn
    <3>3. AppliedBy(p)'
      BY <1>0, <2>3, <3>1, <3>2
    <3> QED BY <1>0, <2>5, <3>1, <3>3
  <2>8. CASE TraceSession(p) \/ CountCandidates(p) \/ CountReceipts(p) \/ LoadCurrent(p) \/ LoadThreads(p)
    <3>1. UNCHANGED <<current, threads, receipts, turns>>
      BY <2>8 DEF TraceSession, CountCandidates, CountReceipts, LoadCurrent, LoadThreads, logs, counters
    <3>2. x.pc \in Fresh /\ y.pc \in Fresh \cup {"infer"}
      BY <2>8, BeforeTurn
    <3>3. AppliedBy(p)'
      BY <2>3, <3>1, <3>2
    <3> QED BY <1>0, <2>5, <3>1, <3>3
  <2>9. CASE TraceReceipts(p) \/ Abandon(p)
    <3>1. UNCHANGED <<current, threads, receipts, turns>>
      BY <2>9 DEF TraceReceipts, Abandon, logs, counters
    <3>2. y.pc = "idle"
      BY <2>9, BeforeTurn DEF Idle
    <3> QED BY <1>0, <2>5, <3>1, <3>2
  <2>10. CASE TurnFails(p) \/ LogHistory(p) \/ LogCandidate(p) \/ TraceCandidates(p)
    <3>1. UNCHANGED <<current, threads, receipts, turns>>
      BY <2>10 DEF TurnFails, LogHistory, LogCandidate, TraceCandidates, logs, counters
    <3>2. y.pc \in {"idle", "readC", "history", "readR"}
      BY <2>10, InTurn DEF Idle
    <3> QED BY <1>0, <2>5, <3>1, <3>2
  <2>11. CASE LogRepairCandidate(p)
    <3>1. UNCHANGED <<current, threads, receipts, turns>>
      BY <2>11 DEF LogRepairCandidate, logs, counters
    <3>2. x.pc = "repair" /\ y.pc = "repairR" /\ y.verdict = x.verdict
      BY <2>11, InTurn DEF Moved
    <3>3. AppliedBy(p)'
      BY <2>3, <3>1, <3>2
    <3> QED BY <1>0, <2>5, <3>1, <3>3
  <2>12. CASE Judge(p)
    <3>1. UNCHANGED <<current, threads, receipts, turns>>
      BY <2>12 DEF Judge, logs, counters
    <3>2. /\ x.pc = "infer"
          /\ y.pc \in {"repair", "receipt", "touch", "keep", "count"}
          /\ y.pc \in {"keep", "count", "receipt"} => ~y.verdict.touch
          /\ y.pc \in {"count", "receipt"} => ~y.verdict.keep
          /\ y.pc = "repair" => ~y.verdict.touch /\ ~y.verdict.keep
      <4>1. /\ x.pc = "infer" /\ y.pc = StepAfter(y.verdict)
            /\ y.verdict.touch \/ y.verdict.keep => y.verdict.decision = "accept"
            /\ y.verdict.decision \in {"accept", "repair", "reject"}
            /\ y.verdict.touch \in BOOLEAN /\ y.verdict.keep \in BOOLEAN
        BY <2>12, InTurn
      <4>2. /\ y.verdict.decision = "repair" => y.pc = "repair"
            /\ y.verdict.decision = "reject" => y.pc = "receipt"
            /\ y.verdict.decision = "accept" =>
                 \/ y.verdict.touch /\ y.pc = "touch"
                 \/ ~y.verdict.touch /\ y.verdict.keep /\ y.pc = "keep"
                 \/ ~y.verdict.touch /\ ~y.verdict.keep /\ y.pc = "count"
        BY <4>1 DEF StepAfter
      <4> QED BY <4>1, <4>2
    <3>3. AppliedBy(p)'
      BY <2>3, <3>1, <3>2
    <3> QED BY <1>0, <2>5, <3>1, <3>3
  <2>13. CASE SaveSession(p)
    <3>1. /\ x.pc = "clear" /\ y.pc = "idle" /\ current' = x.cur
          /\ UNCHANGED <<threads, receipts, turns>>
      BY <2>13, BeforeTurn DEF SaveSession, At, Idle, logs, counters
    <3>2. current'.recent = <<>> /\ current'.session > current.session /\ current'.session \in Nat
      BY <1>0, <2>3, <3>1 DEF TypeInv, TypeOK
    <3>3. \A i \in DOMAIN receipts' : Applied(receipts[i])'
      BY <1>0, <1>00, <2>3, <3>1, <3>2 DEF Applied
    <3>4. AppliedBy(p)' /\ Ascending(current'.recent)
      BY <3>1, <3>2 DEF Ascending
    <3> QED BY <2>4, <3>2, <3>3, <3>4
  <2>14. CASE TouchCurrent(p)
    <3>1. /\ x.pc = "touch" /\ y.pc = "touchT" /\ y.turn = x.turn /\ y.thr = x.turn
          /\ current' = x.cur /\ UNCHANGED <<threads, receipts, turns>>
      BY <2>14, InTurn DEF TouchCurrent, logs, counters, Moved
    <3>2. current' = current
      BY <2>3, <3>1
    <3>3. AppliedBy(p)'
      BY <2>3, <3>1, <3>2
    <3> QED BY <1>0, <2>5, <3>1, <3>2, <3>3
  <2>15. CASE TouchThreads(p)
    <3>1. /\ x.pc = "touchT" /\ y.pc = IF x.verdict.keep THEN "keep" ELSE "count"
          /\ Moved(x, y) /\ threads' = x.thr /\ UNCHANGED <<current, receipts, turns>>
      BY <2>15, InTurn DEF TouchThreads, logs, counters
    <3>2. threads' = turns /\ x.turn = turns
      BY <2>3, <3>1
    <3>3. \A i \in DOMAIN receipts' : Applied(receipts[i])'
      BY <1>00, <2>3, <3>1, <3>2 DEF Applied, Recalled
    <3>4. AppliedBy(p)'
      BY <1>0, <2>3, <3>1, <3>2 DEF Moved
    <3> QED BY <2>3, <2>4, <3>1, <3>3, <3>4
  <2>16. CASE Keep(p)
    <3> DEFINE e == [turn |-> x.turn, session |-> x.cur.session]
    <3>1. /\ x.pc = "keep" /\ y.pc = "count" /\ y.turn = x.turn /\ y.verdict = x.verdict
          /\ y.cur.recent \in Fitted(Append(x.cur.recent, e)) /\ y.cur.session = x.cur.session
          /\ current' = y.cur
      BY <2>16, InMemory
    <3>2. UNCHANGED <<threads, receipts, turns>>
      BY <2>16 DEF Keep, logs, counters
    <3>3. x.cur = current /\ x.turn = turns
      BY <2>3, <3>1
    <3>4. e \in Exchange /\ e.turn = turns
      BY <1>0, <3>3 DEF Exchange
    <3>5. current'.recent \in Fitted(Append(current.recent, e)) /\ current'.session = current.session
      BY <3>1, <3>3
    <3>6. \A i \in DOMAIN current.recent : current.recent[i].turn < e.turn
      BY <2>3, <3>1, <3>4
    <3> HIDE DEF e
    <3>7. /\ Ascending(current'.recent)
          /\ \A i \in DOMAIN current'.recent : current'.recent[i].turn <= turns
          /\ \E i \in DOMAIN current'.recent : current'.recent[i].turn = turns
          /\ \A t \in Nat : Recalled(t, current.recent) => Recalled(t, current'.recent)
      BY <1>0, <2>3, <3>4, <3>5, <3>6, SuffixRecalls, SMTT(30)
    <3>8. \A i \in DOMAIN receipts' : Applied(receipts[i])'
      BY <1>00, <2>3, <3>2, <3>5, <3>7 DEF Applied, Recalled
    <3>9. AppliedBy(p)'
      BY <2>3, <3>1, <3>2, <3>3, <3>7
    <3> QED BY <2>4, <3>2, <3>7, <3>8, <3>9
  <2>17. CASE Count(p)
    <3>1. /\ x.pc = "count" /\ y.pc = "receipt" /\ y.turn = x.turn /\ y.verdict = x.verdict
          /\ y.cur.recent = x.cur.recent /\ y.cur.session = x.cur.session /\ current' = y.cur
      BY <2>17, InMemory
    <3>2. UNCHANGED <<threads, receipts, turns>>
      BY <2>17 DEF Count, logs, counters
    <3>3. current'.recent = current.recent /\ current'.session = current.session
      BY <2>3, <3>1
    <3>4. \A i \in DOMAIN receipts' : Applied(receipts[i])'
      BY <2>3, <3>2, <3>3 DEF Applied, Recalled
    <3>5. AppliedBy(p)'
      BY <2>3, <3>1, <3>2, <3>3
    <3> QED BY <2>3, <2>4, <3>2, <3>3, <3>4, <3>5
  <2>18. CASE LogReceipt(p) \/ LogRepairReceipt(p)
    <3>1. /\ receipts' = Append(receipts, ReceiptOf(p)) /\ UNCHANGED <<current, threads, turns>>
      BY <2>18 DEF LogReceipt, LogRepairReceipt, counters
    <3>2. /\ y.turn = x.turn /\ ((x.pc = "receipt" /\ y.pc = "candidate") \/ (x.pc = "repairR" /\ y.pc = "infer"))
      BY <2>18, InTurn DEF Moved
    <3>3. x.judged \in {1, 2}
      BY <3>2 DEF TypeInv, PassInv
    <3>4. receipts \in Seq(ReceiptRow) /\ ReceiptOf(p) \in ReceiptRow
      BY <3>3, RowsTyped DEF TypeInv, TypeOK
    <3>5. PICK n : /\ DOMAIN receipts' = DOMAIN receipts \cup {n}
                   /\ \A i \in DOMAIN receipts : receipts'[i] = receipts[i]
                   /\ receipts'[n] = ReceiptOf(p)
      BY <3>1, <3>4, Appended
    <3>6. Applied(receipts[n])'
      <4>1. /\ receipts'[n].turn = x.turn /\ receipts'[n].session = current.session
            /\ receipts'[n].verdict = x.verdict
        BY <2>3, <3>2, <3>5 DEF ReceiptOf
      <4>2. x.verdict.touch => threads >= x.turn
        BY <2>3, <3>2
      <4>3. x.verdict.keep => \E k \in DOMAIN current.recent : current.recent[k].turn = x.turn
        BY <2>3, <3>2
      <4>4. x.verdict.keep => Recalled(x.turn, current.recent)
        BY <4>3 DEF Recalled
      <4> QED BY <1>0, <3>1, <4>1, <4>2, <4>4 DEF Applied, Recalled
    <3>7. \A i \in DOMAIN receipts' : Applied(receipts[i])'
      BY <2>3, <3>1, <3>5, <3>6 DEF Applied, Recalled
    <3>8. AppliedBy(p)'
      BY <2>3, <3>1, <3>2
    <3> QED BY <2>3, <2>4, <3>1, <3>7, <3>8
  <2> QED BY <2>1, <2>6, <2>7, <2>8, <2>9, <2>10, <2>11, <2>12, <2>13, <2>14, <2>15, <2>16,
             <2>17, <2>18 DEF Advance
<1> QED BY <1>1, <1>2

LEMMA InitMemory == Init => MemoryInv
BY DEF Init, MemoryInv, AppliedBy, Ascending, Seed, Idle, Unkept, Fresh, Repairing

(* With one process, killed anywhere, a receipt that says its turn touched *)
(* the thread or was kept is on record only when the files say so too.     *)
THEOREM ReceiptsAreApplied ==
  ASSUME OneProcess
  PROVE  Spec => []ReceiptIsApplied
<1>1. MemoryInv => ReceiptIsApplied
  BY DEF MemoryInv, Applied, Recalled, ReceiptIsApplied
<1>2. TypeInv /\ HeldInv /\ [Next]_vars => HeldInv'
  BY HeldStep
<1>3. TypeInv /\ HeldInv /\ LogInv /\ MemoryInv /\ [Next]_vars => MemoryInv'
  BY MemoryStep
<1> QED BY <1>1, <1>2, <1>3, InitTyped, InitHeld, InitLogs, InitMemory, TypeStep, LogStep, PTL
        DEF Spec

-----------------------------------------------------------------------------
(* A trace is of its own turn.                                             *)

LEMMA WholeSlice ==
  ASSUME NEW S, NEW log \in Seq(S), NEW from \in Nat, NEW n \in Nat, Len(log) = from + n
  PROVE  /\ Len(NewLines(log, from, n)) = n
         /\ \A i \in 1..n : NewLines(log, from, n)[i] = log[from + i]
<1>1. NewLines(log, from, n) = SubSeq(log, from + 1, from + n)
  BY DEF NewLines
<1>2. Len(SubSeq(log, from + 1, from + n)) = n
  OBVIOUS
<1>3. ASSUME NEW i \in 1..n PROVE SubSeq(log, from + 1, from + n)[i] = log[from + i]
  OBVIOUS
<1> QED BY <1>1, <1>2, <1>3

LEMMA LongerSlice ==
  ASSUME NEW S, NEW log \in Seq(S), NEW r \in S, NEW from \in Nat, NEW n \in Nat,
         Len(log) = from + n
  PROVE  LET g == Append(log, r) IN
         /\ Len(g) = from + (n + 1) /\ g[from + (n + 1)] = r
         /\ \A i \in 1..n : g[from + i] = log[from + i]
<1>1. ASSUME NEW i \in 1..n PROVE from + i \in 1..Len(log)
  OBVIOUS
<1> QED BY <1>1

Marked == {"countR", "load", "loadT", "infer", "readC", "readR"} \cup Final \cup Repairing

(* The candidates a turn has logged; its receipts are Logged.              *)
Unlisted == (Final \ {"history"}) \cup {"repair"}
Listed(x) == IF x.pc \in Unlisted THEN x.judged - 1 ELSE x.judged

(* What is in the logs past the marks of a turn are its own rows.          *)
OwnCandidates(x) ==
  /\ Len(candidates) = x.mark.candidates + Listed(x)
  /\ \A i \in 1..Listed(x) :
       candidates[x.mark.candidates + i] = [turn |-> x.turn, pass |-> i - 1]

OwnReceipts(x) ==
  /\ Len(receipts) = x.mark.receipts + Logged(x)
  /\ \A i \in 1..Logged(x) : /\ receipts[x.mark.receipts + i].turn = x.turn
                              /\ receipts[x.mark.receipts + i].pass = i - 1

OwnSeen(x) ==
  Len(x.seen) = x.judged /\ \A i \in 1..x.judged : x.seen[i] = [turn |-> x.turn, pass |-> i - 1]

MarkBy(p) ==
  /\ proc[p].pc \in Marked => OwnCandidates(proc[p])
  /\ proc[p].pc \in Marked \ {"countR"} => OwnReceipts(proc[p])
  /\ proc[p].pc = "readR" => OwnSeen(proc[p])

MarkInv == TraceIsOwn /\ \A p \in Tracers : MarkBy(p)

LEMMA MarkTypes ==
  ASSUME TypeInv, NEW p \in Procs
  PROVE  /\ proc[p].mark.candidates \in Nat /\ proc[p].mark.receipts \in Nat
         /\ proc[p].judged \in Nat /\ proc[p].turn \in Nat
         /\ Listed(proc[p]) \in Nat /\ Logged(proc[p]) \in Nat
<1>1. proc[p] \in Proc /\ proc[p].mark \in Mark /\ proc[p].judged \in {0, 1, 2}
  BY DEF TypeInv, TypeOK, Proc
<1>2. proc[p].pc \in Final \cup Repairing => proc[p].judged \in {1, 2}
  BY DEF TypeInv, PassInv
<1> QED BY <1>1, <1>2, TurnAssumptions
        DEF Mark, Proc, Listed, Logged, Unlisted, Unlogged, Final, Repairing

(* A step that leaves logs and traces alone and stands for the same rows.  *)
LEMMA UnmarkedStep ==
  ASSUME OneProcess, TypeInv, MarkInv, NEW p \in Procs, UNCHANGED <<candidates, receipts, traces>>,
         proc'[p].pc \in Marked =>
           /\ proc[p].pc \in Marked /\ proc'[p].pc # "readR"
           /\ proc[p].pc = "countR" => proc'[p].pc = "countR"
           /\ proc'[p].turn = proc[p].turn /\ proc'[p].mark = proc[p].mark
           /\ Listed(proc'[p]) = Listed(proc[p]) /\ Logged(proc'[p]) = Logged(proc[p])
  PROVE  MarkInv'
<1>1. TraceIsOwn'
  BY DEF MarkInv, TraceIsOwn, TraceRowsAreOwn
<1>2. ASSUME p \in Tracers PROVE MarkBy(p)'
  <2>1. MarkBy(p)
    BY <1>2 DEF MarkInv
  <2>2. proc'[p].pc \in Marked => OwnCandidates(proc[p])'
    BY <2>1 DEF MarkBy, OwnCandidates, Listed
  <2>3. proc'[p].pc \in Marked \ {"countR"} => OwnReceipts(proc[p])'
    BY <2>1 DEF MarkBy, OwnReceipts, Logged
  <2>4. proc'[p].pc # "readR"
    BY DEF Marked
  <2> QED BY <2>2, <2>3, <2>4 DEF MarkBy
<1>3. \A q \in Tracers : q = p
  BY TurnAssumptions DEF OneProcess
<1> QED BY <1>1, <1>2, <1>3 DEF MarkInv

LEMMA MarkStep ==
  ASSUME OneProcess, TypeInv, HeldInv, MarkInv, [Next]_vars
  PROVE  MarkInv'
<1>1. CASE UNCHANGED vars
  BY <1>1 DEF vars, logs, MarkInv, TraceIsOwn, TraceRowsAreOwn, MarkBy, OwnCandidates, OwnReceipts,
              OwnSeen, Listed, Logged
<1>2. CASE Next
  <2>1. PICK p \in Procs : OpenSession(p) \/ StartTurn(p) \/ Advance(p) \/ Abandon(p)
    BY <1>2 DEF Next
  <2> DEFINE x == proc[p]
             y == proc'[p]
  <2>2. /\ \A q \in Tracers : q = p
        /\ p \in Tracers => MarkBy(p)
        /\ TraceIsOwn
    BY TurnAssumptions DEF OneProcess, MarkInv
  <2>3. ASSUME UNCHANGED traces, p \in Tracers => MarkBy(p)' PROVE MarkInv'
    BY <2>2, <2>3 DEF MarkInv, TraceIsOwn, TraceRowsAreOwn
  <2>4. /\ x.pc \in Fresh => x.judged = 0
        /\ x.mark.candidates \in Nat /\ x.mark.receipts \in Nat /\ x.judged \in Nat /\ x.turn \in Nat
        /\ Listed(x) \in Nat /\ Logged(x) \in Nat
        /\ candidates \in Seq(CandidateRow) /\ receipts \in Seq(ReceiptRow)
        /\ x.pc \in Final \cup Repairing => x.judged \in {1, 2}
    BY MarkTypes DEF TypeInv, TypeOK, PassInv
  <2>5. CASE OpenSession(p) \/ SaveSession(p) \/ Abandon(p) \/ StartTurn(p) \/ TraceSession(p)
    <3>1. UNCHANGED <<candidates, receipts, traces>>
      BY <2>5 DEF OpenSession, SaveSession, Abandon, StartTurn, TraceSession, logs
    <3>2. y.pc \notin Marked \/ (StartTurn(p) /\ y.pc = "load" /\ p \notin Tracers)
      BY <2>5, BeforeTurn DEF Marked, Idle, Final, Repairing
    <3>3. CASE y.pc \notin Marked
      BY <3>1, <3>3, UnmarkedStep
    <3>4. CASE p \notin Tracers
      BY <2>3, <3>1, <3>4
    <3> QED BY <3>2, <3>3, <3>4
  <2>6. CASE CountCandidates(p)
    <3>1. UNCHANGED <<candidates, receipts, traces>>
      BY <2>6 DEF CountCandidates, logs
    <3>2. /\ x.pc = "countC" /\ y.pc = "countR" /\ y.judged = 0
          /\ y.mark.candidates = Len(candidates)
      BY <2>4, <2>6, BeforeTurn DEF Fresh
    <3>3. OwnCandidates(x)'
      BY <2>4, <3>1, <3>2 DEF OwnCandidates, Listed, Unlisted, Final
    <3>4. MarkBy(p)'
      BY <3>2, <3>3 DEF MarkBy
    <3> QED BY <2>3, <3>1, <3>4
  <2>7. CASE CountReceipts(p)
    <3>1. UNCHANGED <<candidates, receipts, traces>>
      BY <2>7 DEF CountReceipts, logs
    <3>2. /\ x.pc = "countR" /\ y.pc = "load" /\ y.judged = 0 /\ x.judged = 0
          /\ y.mark.candidates = x.mark.candidates /\ y.mark.receipts = Len(receipts)
      BY <2>4, <2>7, BeforeTurn DEF Fresh
    <3>3. ASSUME p \in Tracers PROVE OwnCandidates(x)'
      BY <2>2, <2>4, <3>1, <3>2, <3>3 DEF MarkBy, Marked, OwnCandidates, Listed, Unlisted, Final
    <3>4. OwnReceipts(x)'
      BY <2>4, <3>1, <3>2 DEF OwnReceipts, Logged, Unlogged, Final, Repairing
    <3>5. p \in Tracers => MarkBy(p)'
      BY <3>2, <3>3, <3>4 DEF MarkBy
    <3> QED BY <2>3, <3>1, <3>5
  <2>8. CASE LoadCurrent(p) \/ LoadThreads(p)
    <3>1. UNCHANGED <<candidates, receipts, traces>>
      BY <2>8 DEF LoadCurrent, LoadThreads, logs
    <3>2. /\ x.pc \in {"load", "loadT"} /\ y.pc \in {"loadT", "infer"} /\ y.turn = x.turn
          /\ y.judged = x.judged /\ y.mark = x.mark
      BY <2>4, <2>8, BeforeTurn DEF Moved, Fresh
    <3>3. Listed(y) = Listed(x) /\ Logged(y) = Logged(x)
      BY <3>2 DEF Listed, Unlisted, Logged, Unlogged, Final, Repairing
    <3> QED BY <3>1, <3>2, <3>3, UnmarkedStep DEF Marked
  <2>9. CASE TurnFails(p) \/ LogHistory(p)
    <3>1. UNCHANGED <<candidates, receipts, traces>>
      BY <2>9 DEF TurnFails, LogHistory
    <3>2. /\ x.pc \in {"infer", "history"}
          /\ y.pc \in Marked => y.pc = "readC" /\ Moved(x, y)
      BY <2>9, InTurn DEF Idle, Marked, Final, Repairing
    <3>3. y.pc \in Marked => Listed(y) = Listed(x) /\ Logged(y) = Logged(x)
      BY <3>2 DEF Moved, Listed, Unlisted, Logged, Unlogged, Final, Repairing
    <3> QED BY <3>1, <3>2, <3>3, UnmarkedStep DEF Moved, Marked, Final
  <2>10. CASE Judge(p)
    <3>1. UNCHANGED <<candidates, receipts, traces>>
      BY <2>10 DEF Judge, logs
    <3>2. /\ x.pc = "infer" /\ y.judged = x.judged + 1 /\ y.turn = x.turn /\ y.mark = x.mark
          /\ y.pc \in {"repair", "receipt", "touch", "keep", "count"}
      BY <2>10, InTurn DEF StepAfter
    <3>3. Listed(y) = Listed(x) /\ Logged(y) = Logged(x)
      BY <2>4, <3>2 DEF Listed, Unlisted, Logged, Unlogged, Final, Repairing
    <3> QED BY <3>1, <3>2, <3>3, UnmarkedStep DEF Marked, Final, Repairing
  <2>11. CASE TouchCurrent(p) \/ TouchThreads(p) \/ Keep(p) \/ Count(p)
    <3>1. UNCHANGED <<candidates, receipts, traces>>
      BY <2>11 DEF TouchCurrent, TouchThreads, Keep, Count, logs
    <3>2. /\ x.pc \in {"touch", "touchT", "keep", "count"}
          /\ y.pc \in {"touchT", "keep", "count", "receipt"}
          /\ y.turn = x.turn /\ y.judged = x.judged /\ y.mark = x.mark
      BY <2>11, InTurn, InMemory DEF Moved
    <3>3. Listed(y) = Listed(x) /\ Logged(y) = Logged(x)
      BY <3>2 DEF Listed, Unlisted, Logged, Unlogged, Final, Repairing
    <3> QED BY <3>1, <3>2, <3>3, UnmarkedStep DEF Marked, Final
  <2>12. CASE LogReceipt(p) \/ LogRepairReceipt(p)
    <3>1. UNCHANGED <<candidates, traces>> /\ receipts' = Append(receipts, ReceiptOf(p))
      BY <2>12 DEF LogReceipt, LogRepairReceipt
    <3>2. /\ (x.pc = "receipt" /\ y.pc = "candidate") \/ (x.pc = "repairR" /\ y.pc = "infer")
          /\ y.turn = x.turn /\ y.judged = x.judged /\ y.mark = x.mark
      BY <2>12, InTurn DEF Moved
    <3>3. ReceiptOf(p) \in ReceiptRow /\ ReceiptOf(p).turn = x.turn /\ ReceiptOf(p).pass = x.judged - 1
      BY <2>4, <3>2, RowsTyped DEF TypeInv, Final, Repairing, ReceiptOf
    <3>4. ASSUME p \in Tracers PROVE MarkBy(p)'
      <4>1. OwnCandidates(x) /\ OwnReceipts(x)
        BY <2>2, <3>2, <3>4 DEF MarkBy, Marked, Final, Repairing
      <4>2. Listed(y) = Listed(x)
        BY <3>2 DEF Listed, Unlisted, Final
      <4>3. OwnCandidates(x)'
        BY <3>1, <3>2, <4>1, <4>2 DEF OwnCandidates
      <4>4. PICK m \in Nat, n \in Nat : m = x.mark.receipts /\ n = Logged(x)
        BY <2>4
      <4>5. Logged(y) = n + 1 /\ n = x.judged - 1
        <5>1. x.judged \in {1, 2}
          BY <2>4, <3>2 DEF Final, Repairing
        <5>2. Logged(x) = x.judged - 1 /\ Logged(y) = x.judged
          BY <3>2 DEF Logged, Unlogged, Final, Repairing
        <5> QED BY <4>4, <5>1, <5>2
      <4>6. Len(receipts) = m + n
        BY <4>1, <4>4 DEF OwnReceipts
      <4>7. /\ Len(receipts') = m + (n + 1) /\ receipts'[m + (n + 1)] = ReceiptOf(p)
            /\ \A i \in 1..n : receipts'[m + i] = receipts[m + i]
        <5>1. ASSUME NEW S, NEW log \in Seq(S), NEW r \in S, Len(log) = m + n
              PROVE  /\ Len(Append(log, r)) = m + (n + 1) /\ Append(log, r)[m + (n + 1)] = r
                     /\ \A i \in 1..n : Append(log, r)[m + i] = log[m + i]
          BY <5>1, LongerSlice
        <5> QED BY <2>4, <3>1, <3>3, <4>6, <5>1
      <4>8. \A i \in 1..n : receipts[m + i].turn = x.turn /\ receipts[m + i].pass = i - 1
        BY <4>1, <4>4 DEF OwnReceipts
      <4>9. \A i \in 1..(n + 1) : receipts'[m + i].turn = y.turn /\ receipts'[m + i].pass = i - 1
        <5> SUFFICES ASSUME NEW i \in 1..(n + 1)
                     PROVE  receipts'[m + i].turn = y.turn /\ receipts'[m + i].pass = i - 1
          OBVIOUS
        <5>1. CASE i \in 1..n
          BY <3>2, <4>7, <4>8, <5>1
        <5>2. CASE i = n + 1
          BY <3>2, <3>3, <4>5, <4>7, <5>2, SMTT(30)
        <5> QED BY <5>1, <5>2
      <4>10. OwnReceipts(x)'
        BY <3>2, <4>4, <4>5, <4>7, <4>9 DEF OwnReceipts
      <4> QED BY <3>2, <4>3, <4>10 DEF MarkBy
    <3> QED BY <2>3, <3>1, <3>4
  <2>13. CASE LogCandidate(p) \/ LogRepairCandidate(p)
    <3>1. UNCHANGED <<receipts, traces>> /\ candidates' = Append(candidates, Row(p))
      BY <2>13 DEF LogCandidate, LogRepairCandidate
    <3>2. /\ (x.pc = "candidate" /\ y.pc = "history") \/ (x.pc = "repair" /\ y.pc = "repairR")
          /\ y.turn = x.turn /\ y.judged = x.judged /\ y.mark = x.mark
      BY <2>13, InTurn DEF Moved
    <3>3. Row(p) \in CandidateRow /\ Row(p) = [turn |-> x.turn, pass |-> x.judged - 1]
      BY <2>4, <3>2 DEF Final, Repairing, Row, CandidateRow
    <3>4. ASSUME p \in Tracers PROVE MarkBy(p)'
      <4>1. OwnCandidates(x) /\ OwnReceipts(x)
        BY <2>2, <3>2, <3>4 DEF MarkBy, Marked, Final, Repairing
      <4>2. Logged(y) = Logged(x)
        BY <3>2 DEF Logged, Unlogged, Final, Repairing
      <4>3. OwnReceipts(x)'
        BY <3>1, <3>2, <4>1, <4>2 DEF OwnReceipts
      <4>4. PICK m \in Nat, n \in Nat : m = x.mark.candidates /\ n = Listed(x)
        BY <2>4
      <4>5. Listed(y) = n + 1 /\ n = x.judged - 1
        <5>1. x.judged \in {1, 2}
          BY <2>4, <3>2 DEF Final, Repairing
        <5>2. Listed(x) = x.judged - 1 /\ Listed(y) = x.judged
          BY <3>2 DEF Listed, Unlisted, Final, Repairing
        <5> QED BY <4>4, <5>1, <5>2
      <4>6. Len(candidates) = m + n
        BY <4>1, <4>4 DEF OwnCandidates
      <4>7. /\ Len(candidates') = m + (n + 1) /\ candidates'[m + (n + 1)] = Row(p)
            /\ \A i \in 1..n : candidates'[m + i] = candidates[m + i]
        <5>1. ASSUME NEW S, NEW log \in Seq(S), NEW r \in S, Len(log) = m + n
              PROVE  /\ Len(Append(log, r)) = m + (n + 1) /\ Append(log, r)[m + (n + 1)] = r
                     /\ \A i \in 1..n : Append(log, r)[m + i] = log[m + i]
          BY <5>1, LongerSlice
        <5> QED BY <2>4, <3>1, <3>3, <4>6, <5>1
      <4>8. \A i \in 1..n : candidates[m + i] = [turn |-> x.turn, pass |-> i - 1]
        BY <4>1, <4>4 DEF OwnCandidates
      <4>9. \A i \in 1..(n + 1) : candidates'[m + i] = [turn |-> y.turn, pass |-> i - 1]
        <5> SUFFICES ASSUME NEW i \in 1..(n + 1)
                     PROVE  candidates'[m + i] = [turn |-> y.turn, pass |-> i - 1]
          OBVIOUS
        <5>1. CASE i \in 1..n
          BY <3>2, <4>7, <4>8, <5>1
        <5>2. CASE i = n + 1
          <6>1. i - 1 = x.judged - 1
            BY <4>5, <5>2
          <6>2. candidates'[m + i] = [turn |-> x.turn, pass |-> x.judged - 1]
            BY <3>3, <4>7, <5>2
          <6> QED BY <3>2, <6>1, <6>2
        <5> QED BY <5>1, <5>2
      <4>10. OwnCandidates(x)'
        BY <3>2, <4>4, <4>5, <4>7, <4>9 DEF OwnCandidates
      <4> QED BY <3>2, <4>3, <4>10 DEF MarkBy
    <3> QED BY <2>3, <3>1, <3>4
  <2>14. CASE TraceCandidates(p)
    <3>1. UNCHANGED <<candidates, receipts, traces>>
      BY <2>14 DEF TraceCandidates, logs
    <3>2. /\ x.pc = "readC" /\ y.pc = "readR" /\ y.turn = x.turn /\ y.judged = x.judged
          /\ y.mark = x.mark
          /\ y.seen = NewLines(candidates, x.mark.candidates, x.judged)
      BY <2>14, InTurn
    <3>3. ASSUME p \in Tracers PROVE MarkBy(p)'
      <4>1. OwnCandidates(x) /\ OwnReceipts(x)
        BY <2>2, <3>2, <3>3 DEF MarkBy, Marked
      <4>2. /\ Listed(x) = x.judged /\ Listed(y) = x.judged
            /\ Logged(x) = x.judged /\ Logged(y) = x.judged
        BY <3>2 DEF Listed, Unlisted, Logged, Unlogged, Final, Repairing
      <4>3. OwnCandidates(x)' /\ OwnReceipts(x)'
        BY <3>1, <3>2, <4>1, <4>2 DEF OwnCandidates, OwnReceipts
      <4>4. Len(candidates) = x.mark.candidates + x.judged
        BY <4>1, <4>2 DEF OwnCandidates
      <4>5. Len(y.seen) = x.judged
            /\ \A i \in 1..x.judged : y.seen[i] = candidates[x.mark.candidates + i]
        <5>1. PICK m \in Nat, n \in Nat : m = x.mark.candidates /\ n = x.judged
          BY <2>4
        <5>2. /\ Len(NewLines(candidates, m, n)) = n
              /\ \A i \in 1..n : NewLines(candidates, m, n)[i] = candidates[m + i]
          <6>1. Len(candidates) = m + n /\ candidates \in Seq(CandidateRow)
            BY <2>4, <4>4, <5>1
          <6> QED BY <6>1, WholeSlice
        <5> QED BY <3>2, <5>1, <5>2
      <4>6. OwnSeen(x)'
        BY <3>2, <4>1, <4>2, <4>5 DEF OwnSeen, OwnCandidates
      <4> QED BY <4>3, <4>6 DEF MarkBy
    <3> QED BY <2>3, <3>1, <3>3
  <2>15. CASE TraceReceipts(p)
    <3> DEFINE rows == NewLines(receipts, x.mark.receipts, x.judged)
               t == [turn |-> x.turn, judged |-> x.judged, session |-> x.mark.session,
                     loaded |-> x.cur.session, candidates |-> x.seen, receipts |-> rows]
    <3>1. UNCHANGED <<candidates, receipts>> /\ traces' = traces \cup {t} /\ x.pc = "readR"
      BY <2>15 DEF TraceReceipts, logs, At
    <3>2. y.pc = "idle"
      BY <2>15, BeforeTurn DEF Idle
    <3>3. p \in Tracers /\ x.mark.session = x.cur.session
      BY <3>1 DEF HeldInv, HeldBy, Between, Tracing, Holding
    <3>4. OwnReceipts(x) /\ OwnSeen(x)
      BY <2>2, <3>1, <3>3 DEF MarkBy, Marked
    <3>5. Logged(x) = x.judged
      BY <3>1 DEF Logged, Unlogged, Final, Repairing
    <3>6. Len(rows) = x.judged /\ \A i \in 1..x.judged : rows[i] = receipts[x.mark.receipts + i]
      <4>1. Len(receipts) = x.mark.receipts + x.judged
        BY <3>4, <3>5 DEF OwnReceipts
      <4>2. PICK m \in Nat, n \in Nat : m = x.mark.receipts /\ n = x.judged
        BY <2>4
      <4>3. /\ Len(NewLines(receipts, m, n)) = n
            /\ \A i \in 1..n : NewLines(receipts, m, n)[i] = receipts[m + i]
        <5>1. Len(receipts) = m + n /\ receipts \in Seq(ReceiptRow)
          BY <2>4, <4>1, <4>2
        <5> QED BY <5>1, WholeSlice
      <4> QED BY <4>2, <4>3
    <3> HIDE DEF rows
    <3>7. /\ t.turn = x.turn /\ t.judged = x.judged /\ t.session = t.loaded
          /\ t.candidates = x.seen /\ t.receipts = rows
      BY <3>3
    <3> HIDE DEF t
    <3>8. /\ Len(t.candidates) = t.judged /\ Len(t.receipts) = t.judged
          /\ \A i \in 1..t.judged :
               /\ t.candidates[i] = [turn |-> t.turn, pass |-> i - 1]
               /\ t.receipts[i].turn = t.turn /\ t.receipts[i].pass = i - 1
      BY <3>4, <3>5, <3>6, <3>7 DEF OwnSeen, OwnReceipts
    <3>9. TraceIsOwn'
      BY <2>2, <3>1, <3>7, <3>8 DEF TraceIsOwn, TraceRowsAreOwn
    <3> QED BY <2>2, <3>2, <3>9 DEF MarkInv, MarkBy, Marked, Final, Repairing
  <2> QED BY <2>1, <2>5, <2>6, <2>7, <2>8, <2>9, <2>10, <2>11, <2>12, <2>13, <2>14, <2>15
          DEF Advance
<1> QED BY <1>1, <1>2

LEMMA InitMark == Init => MarkInv
<1> SUFFICES ASSUME Init PROVE MarkInv
  OBVIOUS
<1>1. \A p \in Tracers : proc[p].pc = "idle"
  BY TurnAssumptions DEF Init, Idle
<1> QED BY <1>1 DEF Init, MarkInv, TraceIsOwn, TraceRowsAreOwn, MarkBy, Marked, Final, Repairing

(* With one process, a trace taken around a turn holds that turn's rows,   *)
(* all of them and no others, under the session the turn was run in.       *)
THEOREM TracesAreOwn ==
  ASSUME OneProcess
  PROVE  Spec => []TraceIsOwn
<1>1. MarkInv => TraceIsOwn
  BY DEF MarkInv
<1>2. TypeInv /\ HeldInv /\ [Next]_vars => HeldInv'
  BY HeldStep
<1>3. TypeInv /\ HeldInv /\ MarkInv /\ [Next]_vars => MarkInv'
  BY MarkStep
<1> QED BY <1>1, <1>2, <1>3, InitTyped, InitHeld, InitMark, TypeStep, PTL DEF Spec
=============================================================================
