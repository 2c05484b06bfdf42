---------------------------- MODULE SubstrateTurn ----------------------------
(***************************************************************************)
(* One conditioned turn after another over a state directory: pipeline.py's *)
(* run_turn with what it loads, judges, persists and logs (state.py,        *)
(* return_path/), the sessions the CLI begins, and the trace the dashboard  *)
(* takes around a turn (observatory/trace.py).  A process runs one turn at  *)
(* a time (chat is a loop, the dashboard holds a lock); several processes   *)
(* may share the directory, and nothing locks it.                           *)
(***************************************************************************)
EXTENDS Naturals, Sequences, FiniteSets

CONSTANTS
  Procs,           (* ck chat, ck ask and ck dashboard processes            *)
  Tracers,         (* those of them that are dashboards                     *)
  MaxRepair,       (* the profile's or the command line's max_repair        *)
  MaxTurns,        (* bound: turns begun in a behaviour                     *)
  MaxSessions      (* bound: sessions begun in a behaviour                  *)

ASSUME TurnAssumptions ==
  /\ Tracers \subseteq Procs
  /\ MaxRepair \in Nat /\ MaxTurns \in Nat /\ MaxSessions \in Nat

VARIABLES
  current,         (* current.json: session_id, recent_turns, receipt count *)
  threads,         (* threads.json: the turn that last touched the thread   *)
  candidates, receipts, history, errors,    (* the logs/*.jsonl             *)
  traces,          (* logs/dashboard/turns: the turns traced                *)
  turns, sessions, (* how many were begun; both are numbered from 1         *)
  proc             (* what each process is at, and its snapshot             *)

logs == <<candidates, receipts, history, errors>>
counters == <<turns, sessions>>
vars == <<current, threads, logs, traces, counters, proc>>

-----------------------------------------------------------------------------
(* An exchange of recent_turns carries the session its turn was loaded in  *)
(* (history, not in the file).                                             *)
Exchange == [turn : Nat, session : Nat]
Snapshot == [session : Nat, recent : Seq(Exchange), count : Nat]

Seed == [session |-> 0, recent |-> <<>>, count |-> 0]

(* Mutant of Fitted: the newest exchanges are dropped.                     *)
FittedFromTheEnd(recent) == {SubSeq(recent, 1, i) : i \in 1..Len(recent)}

(* fit_recent_turns drops the oldest exchanges until the rest fits in a    *)
(* number of bytes the model does not count; the newest one, clipped when  *)
(* it is too long by itself, stays.                                        *)
Fitted(recent) == {SubSeq(recent, i, Len(recent)) : i \in 1..Len(recent)}

(* Mutant of Repairable: any pass may be repaired.                         *)
RepairableAnyPass(ready, pass) == ~ready

(* validate_candidate: only the first pass is repairable.                  *)
Repairable(ready, pass) == ~ready /\ pass = 0

(* validate, apply_executable_authority, assess, finalize: an overruled    *)
(* claim is a violation of a candidate that was otherwise ready.           *)
Decision(ready, overruled, pass) ==
  CASE ready /\ ~overruled                              -> "accept"
    [] pass < MaxRepair /\ Repairable(ready, pass)      -> "repair"
    [] OTHER                                            -> "reject"

Verdict == [decision : {"none", "accept", "repair", "reject"}, touch : BOOLEAN, keep : BOOLEAN]
NoVerdict == [decision |-> "none", touch |-> FALSE, keep |-> FALSE]
Mark == [session : Nat, candidates : Nat, receipts : Nat]

CandidateRow == [turn : Nat, pass : Nat]
ReceiptRow == [turn : Nat, pass : Nat, session : Nat, verdict : Verdict]
HistoryRow == [turn : Nat, pass : Nat, decision : {"accept", "reject"}]
Trace == [turn : Nat, judged : Nat, session : Nat, loaded : Nat,
          candidates : Seq(CandidateRow), receipts : Seq(ReceiptRow)]

(* Lines from + 1 .. from + n of a log, as many as it has.                 *)
NewLines(log, from, n) ==
  SubSeq(log, from + 1, IF from + n < Len(log) THEN from + n ELSE Len(log))

Steps == {"idle", "clear", "session", "countC", "countR", "load", "loadT", "infer", "touch",
          "touchT", "keep", "count", "receipt", "candidate", "history", "repair", "repairR",
          "readC", "readR"}

(* A turn judges two candidates at most, see Repairable.                   *)
Proc == [pc : Steps, turn : 0..MaxTurns, judged : 0..2, cur : Snapshot, thr : Nat,
         verdict : Verdict, mark : Mark, seen : Seq(CandidateRow)]

Idle == [pc |-> "idle", turn |-> 0, judged |-> 0, cur |-> Seed, thr |-> 0, verdict |-> NoVerdict,
         mark |-> [session |-> 0, candidates |-> 0, receipts |-> 0], seen |-> <<>>]

TypeOK ==
  /\ current \in Snapshot /\ threads \in Nat
  /\ candidates \in Seq(CandidateRow) /\ receipts \in Seq(ReceiptRow)
  /\ history \in Seq(HistoryRow) /\ errors \in Seq(Nat)
  /\ traces \in SUBSET Trace
  /\ turns \in 0..MaxTurns /\ sessions \in 0..MaxSessions
  /\ proc \in [Procs -> Proc]

Init ==
  /\ current = Seed /\ threads = 0
  /\ candidates = <<>> /\ receipts = <<>> /\ history = <<>> /\ errors = <<>>
  /\ traces = {} /\ turns = 0 /\ sessions = 0
  /\ proc = [p \in Procs |-> Idle]

At(p, step) == proc[p].pc = step
Become(p, new) == proc' = [proc EXCEPT ![p] = new]
Goto(p, step) == Become(p, [proc[p] EXCEPT !.pc = step])

(* The row of the pass just judged.                                        *)
Row(p) == [turn |-> proc[p].turn, pass |-> proc[p].judged - 1]

(* run_turn returns: to run_traced_turn in a dashboard.                    *)
AfterTurn(p) == IF p \in Tracers THEN [proc[p] EXCEPT !.pc = "readC"] ELSE Idle

-----------------------------------------------------------------------------
(* A session: load, then begin_new_session and its save.                   *)

(* Mutant of OpenSession: the memory is kept.                              *)
OpenSessionKeeping(p) ==
  /\ At(p, "idle") /\ sessions < MaxSessions
  /\ sessions' = sessions + 1
  /\ Become(p, [Idle EXCEPT !.pc = "clear", !.cur = [current EXCEPT !.session = sessions + 1]])
  /\ UNCHANGED <<current, threads, logs, traces, turns>>

OpenSession(p) ==
  /\ At(p, "idle") /\ sessions < MaxSessions
  /\ sessions' = sessions + 1
  /\ Become(p, [Idle EXCEPT !.pc = "clear",
                            !.cur = [current EXCEPT !.session = sessions + 1, !.recent = <<>>]])
  /\ UNCHANGED <<current, threads, logs, traces, turns>>

SaveSession(p) ==
  /\ At(p, "clear")
  /\ current' = proc[p].cur
  /\ Become(p, Idle)
  /\ UNCHANGED <<threads, logs, traces, counters>>

-----------------------------------------------------------------------------
(* A turn: the user's text arrives; a dashboard first takes its marks.     *)

StartTurn(p) ==
  /\ At(p, "idle") /\ turns < MaxTurns
  /\ turns' = turns + 1
  /\ Become(p, [Idle EXCEPT !.pc = IF p \in Tracers THEN "session" ELSE "load",
                            !.turn = turns + 1])
  /\ UNCHANGED <<current, threads, logs, traces, sessions>>

(* The shadow state of run_traced_turn names the trace's session.          *)
TraceSession(p) ==
  /\ At(p, "session")
  /\ Become(p, [proc[p] EXCEPT !.pc = "countC", !.mark.session = current.session])
  /\ UNCHANGED <<current, threads, logs, traces, counters>>

CountCandidates(p) ==
  /\ At(p, "countC")
  /\ Become(p, [proc[p] EXCEPT !.pc = "countR", !.mark.candidates = Len(candidates)])
  /\ UNCHANGED <<current, threads, logs, traces, counters>>

(* Mutant of CountReceipts: the last line is counted as new.               *)
CountReceiptsShort(p) ==
  /\ At(p, "countR")
  /\ Become(p, [proc[p] EXCEPT !.pc = "load",
       !.mark.receipts = IF receipts = <<>> THEN 0 ELSE Len(receipts) - 1])
  /\ UNCHANGED <<current, threads, logs, traces, counters>>

CountReceipts(p) ==
  /\ At(p, "countR")
  /\ Become(p, [proc[p] EXCEPT !.pc = "load", !.mark.receipts = Len(receipts)])
  /\ UNCHANGED <<current, threads, logs, traces, counters>>

LoadCurrent(p) ==
  /\ At(p, "load")
  /\ Become(p, [proc[p] EXCEPT !.pc = "loadT", !.cur = current, !.judged = 0])
  /\ UNCHANGED <<current, threads, logs, traces, counters>>

LoadThreads(p) ==
  /\ At(p, "loadT")
  /\ Become(p, [proc[p] EXCEPT !.pc = "infer", !.thr = threads])
  /\ UNCHANGED <<current, threads, logs, traces, counters>>

(* The packet is over budget, or the inference ends without an answer.     *)
TurnFails(p) ==
  /\ At(p, "infer")
  /\ errors' = Append(errors, proc[p].turn)
  /\ Become(p, AfterTurn(p))
  /\ UNCHANGED <<current, threads, candidates, receipts, history, traces, counters>>

(* Mutant of StepAfter: a rejected turn is run again.                      *)
StepAfterAgain(v) ==
  IF v.decision = "repair" THEN "repair"
  ELSE IF v.decision = "reject" THEN "load"
  ELSE IF v.touch THEN "touch"
  ELSE IF v.keep THEN "keep"
  ELSE "count"

StepAfter(v) ==
  IF v.decision = "repair" THEN "repair"
  ELSE IF v.decision = "reject" THEN "receipt"
  ELSE IF v.touch THEN "touch"
  ELSE IF v.keep THEN "keep"
  ELSE "count"

(* A pass of compile, infer, parse and judge.  An accepted candidate may   *)
(* touch the thread, and is kept unless it is empty or an echo.            *)
Judge(p) ==
  /\ At(p, "infer")
  /\ \E ready, overruled, touch, keep \in BOOLEAN :
       LET d == Decision(ready, overruled, proc[p].judged)
           v == [decision |-> d, touch |-> touch /\ d = "accept", keep |-> keep /\ d = "accept"]
       IN Become(p, [proc[p] EXCEPT
            !.judged = @ + 1, !.verdict = v, !.pc = StepAfter(v)])
  /\ UNCHANGED <<current, threads, logs, traces, counters>>

-----------------------------------------------------------------------------
(* accept_candidate.  Each save writes a whole file from the snapshot.     *)

(* Mutant of TouchCurrent: threads.json is left for later.                 *)
TouchCurrentOnly(p) ==
  /\ At(p, "touch")
  /\ current' = proc[p].cur
  /\ Goto(p, IF proc[p].verdict.keep THEN "keep" ELSE "count")
  /\ UNCHANGED <<threads, logs, traces, counters>>

TouchCurrent(p) ==
  /\ At(p, "touch")
  /\ current' = proc[p].cur
  /\ Become(p, [proc[p] EXCEPT !.pc = "touchT", !.thr = proc[p].turn])
  /\ UNCHANGED <<threads, logs, traces, counters>>

TouchThreads(p) ==
  /\ At(p, "touchT")
  /\ threads' = proc[p].thr
  /\ Goto(p, IF proc[p].verdict.keep THEN "keep" ELSE "count")
  /\ UNCHANGED <<current, logs, traces, counters>>

(* append_recent_turn                                                      *)
Keep(p) ==
  /\ At(p, "keep")
  /\ LET exchange == [turn |-> proc[p].turn, session |-> proc[p].cur.session]
     IN \E kept \in Fitted(Append(proc[p].cur.recent, exchange)) :
          /\ Become(p, [proc[p] EXCEPT !.pc = "count", !.cur.recent = kept])
          /\ current' = [proc[p].cur EXCEPT !.recent = kept]
  /\ UNCHANGED <<threads, logs, traces, counters>>

(* Mutant of Count: the counter is bumped after it is saved.               *)
CountUnsaved(p) ==
  /\ At(p, "count")
  /\ current' = proc[p].cur
  /\ Goto(p, "receipt")
  /\ UNCHANGED <<threads, logs, traces, counters>>

Count(p) ==
  /\ At(p, "count")
  /\ current' = [proc[p].cur EXCEPT !.count = @ + 1]
  /\ Become(p, [proc[p] EXCEPT !.pc = "receipt", !.cur.count = @ + 1])
  /\ UNCHANGED <<threads, logs, traces, counters>>

ReceiptOf(p) ==
  [turn |-> proc[p].turn, pass |-> proc[p].judged - 1,
   session |-> proc[p].cur.session, verdict |-> proc[p].verdict]

(* Mutant of LogReceipt: only acceptances are logged.                      *)
LogReceiptAccepted(p) ==
  /\ At(p, "receipt")
  /\ receipts' = IF proc[p].verdict.decision = "accept" THEN Append(receipts, ReceiptOf(p))
                 ELSE receipts
  /\ Goto(p, "candidate")
  /\ UNCHANGED <<current, threads, candidates, history, errors, traces, counters>>

(* Accepted and rejected passes both get here.                             *)
LogReceipt(p) ==
  /\ At(p, "receipt")
  /\ receipts' = Append(receipts, ReceiptOf(p))
  /\ Goto(p, "candidate")
  /\ UNCHANGED <<current, threads, candidates, history, errors, traces, counters>>

LogCandidate(p) ==
  /\ At(p, "candidate")
  /\ candidates' = Append(candidates, Row(p))
  /\ Goto(p, "history")
  /\ UNCHANGED <<current, threads, receipts, history, errors, traces, counters>>

LogHistory(p) ==
  /\ At(p, "history")
  /\ history' = Append(history, [turn |-> proc[p].turn, pass |-> proc[p].judged - 1,
                                 decision |-> proc[p].verdict.decision])
  /\ Become(p, AfterTurn(p))
  /\ UNCHANGED <<current, threads, candidates, receipts, errors, traces, counters>>

(* A pass to be repaired logs the other way round, and tries again.        *)
LogRepairCandidate(p) ==
  /\ At(p, "repair")
  /\ candidates' = Append(candidates, Row(p))
  /\ Goto(p, "repairR")
  /\ UNCHANGED <<current, threads, receipts, history, errors, traces, counters>>

LogRepairReceipt(p) ==
  /\ At(p, "repairR")
  /\ receipts' = Append(receipts, ReceiptOf(p))
  /\ Become(p, [proc[p] EXCEPT !.pc = "infer", !.verdict = NoVerdict])
  /\ UNCHANGED <<current, threads, candidates, history, errors, traces, counters>>

-----------------------------------------------------------------------------
(* The rest of run_traced_turn, and TurnStore.add.                         *)

TraceCandidates(p) ==
  /\ At(p, "readC")
  /\ Become(p, [proc[p] EXCEPT !.pc = "readR",
       !.seen = NewLines(candidates, proc[p].mark.candidates, proc[p].judged)])
  /\ UNCHANGED <<current, threads, logs, traces, counters>>

TraceReceipts(p) ==
  /\ At(p, "readR")
  /\ traces' = traces \cup
       {[turn |-> proc[p].turn, judged |-> proc[p].judged,
         session |-> proc[p].mark.session, loaded |-> proc[p].cur.session,
         candidates |-> proc[p].seen,
         receipts |-> NewLines(receipts, proc[p].mark.receipts, proc[p].judged)]}
  /\ Become(p, Idle)
  /\ UNCHANGED <<current, threads, logs, counters>>

(* The process is killed or interrupted, or a save or an append raises:    *)
(* nothing catches it inside the turn, and the snapshot is dropped.        *)
Abandon(p) ==
  /\ ~At(p, "idle")
  /\ Become(p, Idle)
  /\ UNCHANGED <<current, threads, logs, traces, counters>>

-----------------------------------------------------------------------------
Advance(p) ==
  \/ SaveSession(p)
  \/ TraceSession(p) \/ CountCandidates(p) \/ CountReceipts(p)
  \/ LoadCurrent(p) \/ LoadThreads(p) \/ TurnFails(p) \/ Judge(p)
  \/ TouchCurrent(p) \/ TouchThreads(p) \/ Keep(p) \/ Count(p)
  \/ LogReceipt(p) \/ LogCandidate(p) \/ LogHistory(p)
  \/ LogRepairCandidate(p) \/ LogRepairReceipt(p)
  \/ TraceCandidates(p) \/ TraceReceipts(p)

Next == \E p \in Procs : OpenSession(p) \/ StartTurn(p) \/ Advance(p) \/ Abandon(p)

Spec == Init /\ [][Next]_vars

(* A turn under way keeps running: its inference has a timeout.            *)
FairSpec == Spec /\ \A p \in Procs : WF_vars(Advance(p))

-----------------------------------------------------------------------------
RowsOf(log, t) == {i \in DOMAIN log : log[i].turn = t}

(* Memory on disk never mixes two conversations, whoever writes it last:   *)
(* every exchange recalled was had in the session the file names.          *)
OneConversation ==
  \A i \in DOMAIN current.recent : current.recent[i].session = current.session

(* A turn in history.jsonl has its receipt and its candidate in the other  *)
(* logs, for the same pass and decision, and no later pass anywhere.       *)
HistoryIsLast ==
  \A h \in DOMAIN history :
    LET t == history[h].turn IN
    /\ \E i \in RowsOf(receipts, t) : receipts[i].pass = history[h].pass
                                   /\ receipts[i].verdict.decision = history[h].decision
    /\ \E i \in RowsOf(candidates, t) : candidates[i].pass = history[h].pass
    /\ \A i \in RowsOf(receipts, t) : receipts[i].pass <= history[h].pass

(* A turn ends once, in history.jsonl or in errors.jsonl, however many     *)
(* passes it takes.                                                        *)
EndsOnce ==
  /\ \A i, j \in DOMAIN history : history[i].turn = history[j].turn => i = j
  /\ \A i, j \in DOMAIN errors : errors[i] = errors[j] => i = j
  /\ \A i \in DOMAIN history, j \in DOMAIN errors : history[i].turn # errors[j]

(* However high max_repair is set, a turn is repaired at most once: "one   *)
(* repair pass is allowed".                                                *)
RepairedOnce ==
  \A i, j \in DOMAIN receipts :
    /\ receipts[i].turn = receipts[j].turn
    /\ receipts[i].verdict.decision = "repair" /\ receipts[j].verdict.decision = "repair"
    => i = j

(* One process: a logged receipt of acceptance describes what is on disk,  *)
(* wherever the process was killed: its touch is in threads.json (or a     *)
(* later one is), and its exchange is recalled unless it was dropped as    *)
(* the oldest or a session was begun since.                                *)
ReceiptIsApplied ==
  \A i \in DOMAIN receipts :
    LET r == receipts[i] IN
    /\ r.verdict.touch => threads >= r.turn
    /\ r.verdict.keep /\ r.session = current.session =>
         /\ current.recent # <<>>
         /\ \/ \E k \in DOMAIN current.recent : current.recent[k].turn = r.turn
            \/ r.turn < Head(current.recent).turn

(* One process: the receipt counter covers the acceptances on record.      *)
CountCoversReceipts ==
  Cardinality({i \in DOMAIN receipts : receipts[i].verdict.decision = "accept"}) <= current.count

(* A trace holds the candidates and receipts its own turn logged, pass by  *)
(* pass.                                                                   *)
TraceRowsAreOwn ==
  \A t \in traces :
    /\ Len(t.candidates) = t.judged /\ Len(t.receipts) = t.judged
    /\ \A i \in 1..t.judged :
         /\ t.candidates[i] = [turn |-> t.turn, pass |-> i - 1]
         /\ t.receipts[i].turn = t.turn /\ t.receipts[i].pass = i - 1

(* One process: that, and a trace names the session its turn was run in.   *)
TraceIsOwn == TraceRowsAreOwn /\ \A t \in traces : t.session = t.loaded

(* Beginning a session clears the memory for good: no later save brings an *)
(* older session back.  It holds while one process runs at a time.         *)
ClearedStaysCleared == [][current'.session >= current.session]_vars

(* Every turn and every new session under way comes to an end.             *)
TurnsEnd == \A p \in Procs : ~At(p, "idle") ~> At(p, "idle")
=============================================================================
