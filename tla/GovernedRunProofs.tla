-------------------------- MODULE GovernedRunProofs --------------------------
(***************************************************************************)
(* Proofs about GovernedRun for every plan, every set of replies and any   *)
(* number of starts, edits, ignore rules, adds, commits and verifications. *)
(***************************************************************************)
EXTENDS GovernedRun, TLAPS

-----------------------------------------------------------------------------
(* Types.                                                                  *)

Sent == {"raw", "terminal", "record"}
AtCell == {"intent", "invoke", "raw", "terminal", "record"}
Writing == {"open", "report", "manifest"} \cup AtCell
Closing == {"stage", "verify", "rewrite", "done"}
Kinds == {"request", "raw", "record"}

Classes == {"SCORED", "MALFORMED_ASSERTIONS", "TIMEOUT", "TRANSPORT_ERROR", "INVALID_RESPONSE",
            "NO_FINAL_RESPONSE", "TASK_CONTRACT_ERROR", "PACKET_CONTRACT_FAILED",
            "CONTROL_CONTRACT_FAILED", "PROVENANCE_INCOMPLETE", "RUNTIME_PROVENANCE_FAILURE"}
Outcome == [cell : ToSet(Cells), class : Classes, scored : BOOLEAN,
            missing : SUBSET (RequiredProvenance \cup {"RUNTIME_PROVENANCE_FAILURE"})]

Versions == [Paths -> Nat]
Running == [pc : {"idle"} \cup Writing \cup Closing, at : Nat,
            reply : Replies \cup {NoReply}, results : Seq(Outcome)]
Git == [adds : Nat, index : Versions, commits : Seq(Versions), ignored : SUBSET Paths]
Check == [pc : {"none", "paths", "ended"}, staging : BOOLEAN, writes : BOOLEAN, ref : Nat, moving : BOOLEAN,
          manifest : SUBSET (Paths \X Nat), todo : SUBSET Paths, bad : BOOLEAN, complete : BOOLEAN]
Receipt == [written : BOOLEAN, complete : BOOLEAN, staging : BOOLEAN, ref : Nat, moving : BOOLEAN]
World == [calls : [Planned -> Nat], replies : [Planned -> Replies \cup {NoReply}],
          starts : Nat, edits : Nat, begun : Nat]

Typed ==
  /\ setup \in Setups
  /\ runner \in Running /\ runner.at \in 1..setup.cells
  /\ runner.pc \in Sent => runner.reply \in setup.replies
  /\ disk \in Versions /\ rows \in Seq(Outcome) /\ manifest \in SUBSET (Paths \X Nat)
  /\ git \in Git /\ checks \in [Verifiers -> Check] /\ receipt \in Receipt /\ world \in World

-----------------------------------------------------------------------------
(* Operators.                                                              *)

(* Every cell of the plan has its three paths.                             *)
LEMMA PathsOfCells ==
  ASSUME Typed, NEW i \in 1..setup.cells
  PROVE  /\ i \in DOMAIN Cells /\ Cells[i] \in ToSet(Cells) /\ Cells[i] \in Planned
         /\ \A kind \in Kinds : /\ CellPath(Cells[i], kind) \in Paths
                                /\ CellPath(Cells[i], kind) \notin {Plan, Ledger, Report}
<1>1. i \in 1..Len(Cells) /\ Len(Cells) \in Nat /\ DOMAIN Cells = 1..Len(Cells)
  BY CellsAssumption, SetupsAssumption DEF Typed
<1>2. Cells[i] \in ToSet(Cells) /\ Cells[i] \in Planned
  BY <1>1 DEF ToSet, Planned
<1>3. ASSUME NEW kind \in Kinds
      PROVE  /\ CellPath(Cells[i], kind) \in Paths
             /\ CellPath(Cells[i], kind) \notin {Plan, Ledger, Report}
  BY <1>2 DEF Kinds, Paths, CellPath, Plan, Ledger, Report
<1> QED BY <1>1, <1>2, <1>3

LEMMA PathsOfRun == {Plan, Ledger, Report} \subseteq Paths /\ Plan # Ledger /\ Plan # Report /\ Ledger # Report
BY DEF Paths, Plan, Ledger, Report

(* Two cells of a plan share no path.                                      *)
LEMMA Written ==
  ASSUME Typed, NEW p \in Paths
  PROVE  /\ Write(p) \in Versions /\ Write(p)[p] = disk[p] + 1
         /\ \A q \in Paths : q # p => Write(p)[q] = disk[q]
         /\ \A q \in Paths : disk[q] \in Nat /\ Write(p)[q] \in Nat /\ Write(p)[q] >= disk[q]
         /\ Write(p)[p] > 0
BY DEF Typed, Versions, Write

(* What a cell ends as, and what a score rests on.                         *)
LEMMA Terminals ==
  ASSUME Typed, NEW c \in ToSet(Cells), NEW r \in Replies
  PROVE  LET t == TerminalOf(c, r)
         IN  /\ t \in Outcome /\ t.cell = c
             /\ t.scored => /\ setup.gold /\ PairHolds(c) /\ RunStatus(r) = "completed"
                            /\ r.text \in {"assertions", "empty list"}
<1> DEFINE kind == ParseKind(RunStatus(r), r.text)
           score == Score(kind, setup.gold)
           fields == BuildProvenance(TRUE)
           class == Classified(score, PacketReceipt(c), ControlReceipt(c, PairHolds(c)), c)
           t == TerminalOf(c, r)
<1>1. setup.gold \in BOOLEAN /\ PairHolds(c) \in BOOLEAN /\ r.text \in Texts
  BY SetupsAssumption DEF Typed, Replies, PairHolds
<1>2. kind \in Scorable => RunStatus(r) = "completed" /\ r.text \in {"assertions", "empty list"}
  BY <1>1 DEF ParseKind, Scorable, RunStatus, Texts
<1> HIDE DEF kind
<1>3. /\ score.class \in Classes /\ score.record \in BOOLEAN
      /\ score.class = "SCORED" <=> score.record
      /\ score.record => setup.gold /\ kind \in Scorable
  BY <1>1 DEF Score, ParseToClass, Scorable, Malformed, Classes
<1> HIDE DEF score
<1>4. /\ class \in Classes
      /\ class = "SCORED" => score.class = "SCORED" /\ PairHolds(c)
  BY <1>1, <1>3 DEF Classified, VerifyPacketReceipt, VerifyControlReceipt, PacketReceipt, ControlReceipt, Classes
<1> HIDE DEF class
<1>5. FinalClass(class, "complete", fields) = class
  BY DEF FinalClass, ProvenanceHolds
<1>6. ProvenanceMissing(fields) \subseteq RequiredProvenance \cup {"RUNTIME_PROVENANCE_FAILURE"}
  BY DEF ProvenanceMissing
<1> HIDE DEF fields
<1>7. t = [cell |-> c, class |-> class, scored |-> class = "SCORED" /\ score.record,
           missing |-> ProvenanceMissing(fields)]
  BY <1>5 DEF TerminalOf, Terminalize, kind, score, class, fields
<1> HIDE DEF t
<1>8. t \in Outcome /\ t.cell = c /\ (t.scored => score.record /\ class = "SCORED")
  BY <1>3, <1>4, <1>6, <1>7 DEF Outcome
<1> QED BY <1>2, <1>3, <1>4, <1>8 DEF t

-----------------------------------------------------------------------------
(* What an action makes of the runner.                                     *)

(* y is x at another place.                                                *)
Moved(x, y) == y.at = x.at /\ y.reply = x.reply /\ y.results = x.results

Result(i) == TerminalOf(Cells[i], world.replies[Cells[i]])

LEMMA AtIdle == Idle.pc = "idle" /\ Idle.at = 1 /\ Idle.reply = NoReply /\ Idle.results = <<>>
BY DEF Idle

LEMMA Moves ==
  ASSUME Typed
  PROVE  LET x == runner
             y == runner'
         IN /\ Start => x.pc = "idle" /\ (y = x \/ (/\ y.pc = "open" /\ y.at = 1 /\ y.reply = NoReply
                                                    /\ y.results = <<>>))
            /\ OpenLedger => x.pc = "open" /\ y.pc = "intent" /\ Moved(x, y)
            /\ Intent => x.pc = "intent" /\ y.pc = "invoke" /\ Moved(x, y)
            /\ Invoke => /\ x.pc = "invoke" /\ y.pc = "raw" /\ y.at = x.at /\ y.results = x.results
                         /\ y.reply \in setup.replies
                         /\ world' = [world EXCEPT !.calls[Cell] = @ + 1, !.replies[Cell] = y.reply]
            /\ WriteRaw => x.pc = "raw" /\ y.pc = "terminal" /\ Moved(x, y)
            /\ Terminal => x.pc = "terminal" /\ y.pc = "record" /\ Moved(x, y)
            /\ RecordTerminal =>
                 /\ x.pc = "record" /\ y.results = Append(x.results, TerminalOf(Cell, x.reply))
                 /\ IF x.at < setup.cells
                    THEN y.pc = "intent" /\ y.at = x.at + 1 /\ y.reply = NoReply
                    ELSE y.pc = "report" /\ y.at = x.at /\ y.reply = x.reply
            /\ WriteReport => x.pc = "report" /\ y.pc = "manifest" /\ Moved(x, y)
            /\ WriteManifest => x.pc = "manifest" /\ y.pc = "stage" /\ Moved(x, y)
            /\ BeginStaging => x.pc = "stage" /\ y.pc = "verify" /\ Moved(x, y)
            /\ RewriteReport => x.pc = "rewrite" /\ y.pc = "done" /\ Moved(x, y)
            /\ Crash => y = Idle
            /\ \A v \in Verifiers : EndCheck(v) =>
                 y = x \/ (v = "runner" /\ y.pc = "rewrite" /\ Moved(x, y))
<1>0. runner \in Running
  BY DEF Typed
<1>1. ASSUME NEW s, runner' = [runner EXCEPT !.pc = s] PROVE runner'.pc = s /\ Moved(runner, runner')
  BY <1>0, <1>1 DEF Running, Moved
<1>2. Start => runner.pc = "idle" /\ (runner' = runner \/ (/\ runner'.pc = "open" /\ runner'.at = 1
                 /\ runner'.reply = NoReply /\ runner'.results = <<>>))
  BY DEF Start, Idle
<1>3. ASSUME Invoke
      PROVE  /\ runner.pc = "invoke" /\ runner'.pc = "raw" /\ runner'.at = runner.at
             /\ runner'.results = runner.results /\ runner'.reply \in setup.replies
             /\ world' = [world EXCEPT !.calls[Cell] = @ + 1, !.replies[Cell] = runner'.reply]
  <2>1. PICK r \in setup.replies :
          /\ runner' = [runner EXCEPT !.pc = "raw", !.reply = r]
          /\ world' = [world EXCEPT !.calls[Cell] = @ + 1, !.replies[Cell] = r]
    BY <1>3 DEF Invoke
  <2>2. runner'.reply = r /\ runner'.pc = "raw" /\ runner'.at = runner.at
        /\ runner'.results = runner.results
    BY <1>0, <2>1 DEF Running
  <2> QED BY <1>3, <2>1, <2>2 DEF Invoke
<1>4. ASSUME RecordTerminal
      PROVE  /\ runner.pc = "record"
             /\ runner'.results = Append(runner.results, TerminalOf(Cell, runner.reply))
             /\ IF runner.at < setup.cells
                THEN runner'.pc = "intent" /\ runner'.at = runner.at + 1 /\ runner'.reply = NoReply
                ELSE runner'.pc = "report" /\ runner'.at = runner.at /\ runner'.reply = runner.reply
  <2> DEFINE results == Append(runner.results, TerminalOf(Cell, runner.reply))
  <2>1. runner.pc = "record"
        /\ runner' = IF runner.at < setup.cells
                     THEN [Idle EXCEPT !.pc = "intent", !.at = runner.at + 1, !.results = results]
                     ELSE [runner EXCEPT !.pc = "report", !.results = results]
    BY <1>4 DEF RecordTerminal
  <2> HIDE DEF results
  <2>2. CASE runner.at < setup.cells
    BY <2>1, <2>2 DEF Idle, results
  <2>3. CASE ~(runner.at < setup.cells)
    BY <1>0, <2>1, <2>3 DEF Running, results
  <2> QED BY <2>2, <2>3
<1>5. ASSUME NEW v \in Verifiers, EndCheck(v)
      PROVE  runner' = runner \/ (v = "runner" /\ runner'.pc = "rewrite" /\ Moved(runner, runner'))
  BY <1>1, <1>5 DEF EndCheck
<1>6. OpenLedger => runner.pc = "open" /\ runner'.pc = "intent" /\ Moved(runner, runner')
  BY <1>1 DEF OpenLedger
<1>7. Intent => runner.pc = "intent" /\ runner'.pc = "invoke" /\ Moved(runner, runner')
  BY <1>1 DEF Intent
<1>8. WriteRaw => runner.pc = "raw" /\ runner'.pc = "terminal" /\ Moved(runner, runner')
  BY <1>1 DEF WriteRaw
<1>9. Terminal => runner.pc = "terminal" /\ runner'.pc = "record" /\ Moved(runner, runner')
  BY <1>1 DEF Terminal
<1>10. WriteReport => runner.pc = "report" /\ runner'.pc = "manifest" /\ Moved(runner, runner')
  BY <1>1 DEF WriteReport
<1>11. WriteManifest => runner.pc = "manifest" /\ runner'.pc = "stage" /\ Moved(runner, runner')
  BY <1>1 DEF WriteManifest
<1>12. BeginStaging => runner.pc = "stage" /\ runner'.pc = "verify" /\ Moved(runner, runner')
  BY <1>1 DEF BeginStaging
<1>13. RewriteReport => runner.pc = "rewrite" /\ runner'.pc = "done" /\ Moved(runner, runner')
  BY <1>1 DEF RewriteReport
<1>14. Crash => runner' = Idle
  BY DEF Crash
<1> QED BY <1>2, <1>3, <1>4, <1>5, <1>6, <1>7, <1>8, <1>9, <1>10, <1>11, <1>12, <1>13, <1>14

-----------------------------------------------------------------------------
(* Type correctness.                                                       *)

(* A step keeps the types of all it does not write.                        *)
LEMMA TypedKept ==
  ASSUME Typed, UNCHANGED setup, runner' \in Running, runner'.at \in 1..setup.cells,
         runner'.pc \in Sent => runner'.reply \in setup.replies,
         disk' \in Versions, rows' \in Seq(Outcome), manifest' \in SUBSET (Paths \X Nat),
         git' \in Git, checks' \in [Verifiers -> Check], receipt' \in Receipt, world' \in World
  PROVE  Typed'
BY DEF Typed, World, Planned

LEMMA IdleTyped == ASSUME Typed PROVE Idle \in Running /\ Idle.at \in 1..setup.cells
BY SetupsAssumption DEF Idle, Running, Typed

LEMMA CellPaths ==
  ASSUME Typed
  PROVE  /\ Cell \in Planned /\ Cell \in ToSet(Cells)
         /\ Ledger \in Paths /\ Plan \in Paths /\ Report \in Paths
         /\ \A kind \in Kinds : /\ CellPath(Cell, kind) \in Paths
                                /\ CellPath(Cell, kind) \notin {Plan, Ledger, Report}
BY PathsOfCells, PathsOfRun DEF Cell, Typed

(* A record with one field set to a value of its type is of its type.      *)
LEMMA FieldsTyped ==
  /\ \A w \in World, n \in Nat : /\ [w EXCEPT !.starts = n] \in World /\ [w EXCEPT !.edits = n] \in World
                                /\ [w EXCEPT !.begun = n] \in World
  /\ \A w \in World : w.starts + 1 \in Nat /\ w.edits + 1 \in Nat /\ w.begun + 1 \in Nat
  /\ \A g \in Git, n \in Nat, f \in Versions : [g EXCEPT !.adds = n, !.index = f] \in Git
  /\ \A g \in Git, p \in Paths : [g EXCEPT !.ignored = @ \cup {p}] \in Git
  /\ \A g \in Git, s \in Seq(Versions) : [g EXCEPT !.commits = s] \in Git
  /\ \A k \in Check, p \in Paths, b \in BOOLEAN : [k EXCEPT !.todo = @ \ {p}, !.bad = b] \in Check
  /\ \A k \in Check, b \in BOOLEAN : [k EXCEPT !.pc = "ended", !.complete = b] \in Check
<1>1. \A w \in World, n \in Nat : /\ [w EXCEPT !.starts = n] \in World /\ [w EXCEPT !.edits = n] \in World
                                 /\ [w EXCEPT !.begun = n] \in World
  BY DEF World
<1>2. \A w \in World : w.starts + 1 \in Nat /\ w.edits + 1 \in Nat /\ w.begun + 1 \in Nat
  BY DEF World
<1>3. \A g \in Git, n \in Nat, f \in Versions : [g EXCEPT !.adds = n, !.index = f] \in Git
  BY DEF Git
<1>4. \A g \in Git, p \in Paths : [g EXCEPT !.ignored = @ \cup {p}] \in Git
  BY DEF Git
<1>5. \A g \in Git, s \in Seq(Versions) : [g EXCEPT !.commits = s] \in Git
  BY DEF Git
<1>6. \A k \in Check, p \in Paths, b \in BOOLEAN : [k EXCEPT !.todo = @ \ {p}, !.bad = b] \in Check
  BY DEF Check
<1>7. \A k \in Check, b \in BOOLEAN : [k EXCEPT !.pc = "ended", !.complete = b] \in Check
  BY DEF Check
<1> QED BY <1>1, <1>2, <1>3, <1>4, <1>5, <1>6, <1>7

LEMMA BeginTyped ==
  ASSUME Typed, NEW v \in Verifiers, NEW staging \in BOOLEAN, NEW writes \in BOOLEAN,
         NEW ref \in Nat, NEW moving \in BOOLEAN, Begin(v, staging, writes, ref, moving)
  PROVE  checks' \in [Verifiers -> Check]
<1>1. {d[1] : d \in manifest} \subseteq Paths
  BY DEF Typed
<1> QED BY <1>1 DEF Begin, Check, Typed

LEMMA RunnerTyped ==
  ASSUME Typed, UNCHANGED setup, Runner \/ Crash
  PROVE  Typed'
<1>0. /\ runner \in Running /\ runner.at \in 1..setup.cells /\ disk \in Versions /\ rows \in Seq(Outcome)
      /\ manifest \in SUBSET (Paths \X Nat) /\ git \in Git /\ checks \in [Verifiers -> Check]
      /\ receipt \in Receipt /\ world \in World
      /\ runner.pc \in Sent => runner.reply \in setup.replies
      /\ setup.replies \subseteq Replies /\ setup.cells \in Nat
  BY SetupsAssumption, CellsAssumption DEF Typed
<1>1. \A p \in Paths : Write(p) \in Versions
  BY Written
<1>2. ASSUME NEW s \in {"idle"} \cup Writing \cup Closing, runner' = [runner EXCEPT !.pc = s],
             s \in Sent => runner.pc \in Sent \/ runner.reply \in setup.replies
      PROVE  /\ runner' \in Running /\ runner'.at \in 1..setup.cells
             /\ runner'.pc \in Sent => runner'.reply \in setup.replies
  <2>1. runner' \in Running /\ runner'.pc = s /\ Moved(runner, runner')
    BY <1>0, <1>2 DEF Running, Moved
  <2> QED BY <1>0, <1>2, <2>1 DEF Moved
<1>3. CASE Start
  <2>1. \/ runner' = runner
        \/ runner' = [Idle EXCEPT !.pc = "open"]
    BY <1>3 DEF Start
  <2>2. /\ runner' \in Running /\ runner'.at \in 1..setup.cells
        /\ runner'.pc \in Sent => runner'.reply \in setup.replies
    BY <1>0, <2>1, IdleTyped DEF Running, Writing, Sent
  <2>3. disk' \in Versions /\ UNCHANGED <<rows, manifest, git, checks, receipt>>
    BY <1>0, <1>1, <1>3, CellPaths DEF Start
  <2>4. world' = [world EXCEPT !.starts = world.starts + 1]
    BY <1>3 DEF Start
  <2>5. world' \in World
    BY <1>0, <2>4, FieldsTyped
  <2> QED BY <1>0, <2>2, <2>3, <2>5, TypedKept
<1>4. CASE OpenLedger \/ Intent \/ WriteRaw \/ WriteReport \/ RewriteReport
  <2>1. disk' \in Versions /\ UNCHANGED <<rows, manifest, git, checks, receipt, world>>
    BY <1>1, <1>4, CellPaths DEF OpenLedger, Intent, WriteRaw, WriteReport, RewriteReport, Kinds
  <2>2. PICK s \in {"intent", "invoke", "terminal", "manifest", "done"} :
          runner' = [runner EXCEPT !.pc = s] /\ (s = "terminal" => runner.pc = "raw")
    BY <1>4 DEF OpenLedger, Intent, WriteRaw, WriteReport, RewriteReport
  <2>3. /\ runner' \in Running /\ runner'.at \in 1..setup.cells
        /\ runner'.pc \in Sent => runner'.reply \in setup.replies
    BY <1>2, <2>2 DEF Writing, Closing, AtCell, Sent
  <2> QED BY <1>0, <2>1, <2>3, TypedKept
<1>5. CASE Invoke
  <2>1. PICK r \in setup.replies : /\ runner' = [runner EXCEPT !.pc = "raw", !.reply = r]
                                   /\ world' = [world EXCEPT !.calls[Cell] = @ + 1, !.replies[Cell] = r]
    BY <1>5 DEF Invoke
  <2>2. runner' \in Running /\ runner'.at = runner.at /\ runner'.reply = r
    BY <1>0, <2>1 DEF Running, Writing, AtCell
  <2>3. world' \in World
    <3>1. /\ [world.calls EXCEPT ![Cell] = @ + 1] \in [Planned -> Nat]
          /\ [world.replies EXCEPT ![Cell] = r] \in [Planned -> Replies \cup {NoReply}]
      BY <1>0, CellPaths DEF World
    <3>2. world' = [world EXCEPT !.calls = [world.calls EXCEPT ![Cell] = @ + 1],
                                 !.replies = [world.replies EXCEPT ![Cell] = r]]
      BY <1>0, <2>1, FieldsTyped
    <3> QED BY <1>0, <3>1, <3>2 DEF World
  <2>4. UNCHANGED <<disk, rows, manifest, git, checks, receipt>>
    BY <1>5 DEF Invoke
  <2> QED BY <1>0, <2>1, <2>2, <2>3, <2>4, TypedKept
<1>6. CASE Terminal
  <2>1. /\ runner' = [runner EXCEPT !.pc = "record"] /\ runner.pc = "terminal"
        /\ rows' = Append(rows, TerminalOf(Cell, runner.reply)) /\ disk' = Write(Ledger)
        /\ UNCHANGED <<manifest, git, checks, receipt, world>>
    BY <1>6 DEF Terminal
  <2>2. TerminalOf(Cell, runner.reply) \in Outcome
    BY <1>0, <2>1, CellPaths, Terminals DEF Sent
  <2>3. /\ runner' \in Running /\ runner'.at \in 1..setup.cells
        /\ runner'.pc \in Sent => runner'.reply \in setup.replies
    BY <1>2, <2>1 DEF Writing, AtCell, Sent
  <2>4. rows' \in Seq(Outcome)
    BY <1>0, <2>1, <2>2
  <2>5. disk' \in Versions
    BY <1>1, <2>1, CellPaths
  <2> QED BY <1>0, <2>1, <2>3, <2>4, <2>5, TypedKept
<1>7. CASE RecordTerminal
  <2>1. PICK results : results = Append(runner.results, TerminalOf(Cell, runner.reply))
    OBVIOUS
  <2>2. /\ runner' = IF runner.at < setup.cells
                     THEN [Idle EXCEPT !.pc = "intent", !.at = runner.at + 1, !.results = results]
                     ELSE [runner EXCEPT !.pc = "report", !.results = results]
        /\ runner.pc = "record" /\ disk' = Write(CellPath(Cell, "record"))
        /\ UNCHANGED <<rows, manifest, git, checks, receipt, world>>
    BY <1>7, <2>1 DEF RecordTerminal
  <2>3. TerminalOf(Cell, runner.reply) \in Outcome /\ runner.results \in Seq(Outcome)
    BY <1>0, <2>2, CellPaths, Terminals DEF Sent, Running
  <2>4. results \in Seq(Outcome)
    BY <2>1, <2>3
  <2>5. /\ runner' \in Running /\ runner'.at \in 1..setup.cells
        /\ runner'.pc \in Sent => runner'.reply \in setup.replies
    <3>1. CASE runner.at < setup.cells
      <4>1. runner' = [Idle EXCEPT !.pc = "intent", !.at = runner.at + 1, !.results = results]
        BY <2>2, <3>1
      <4>2. Idle \in Running /\ runner.at + 1 \in Nat
        BY <1>0, IdleTyped DEF Running
      <4>3. runner' \in Running /\ runner'.pc = "intent" /\ runner'.at = runner.at + 1
        <5>1. PICK n \in Nat : n = runner.at + 1
          BY <4>2
        <5>2. runner' = [Idle EXCEPT !.pc = "intent", !.at = n, !.results = results]
          BY <4>1, <5>1
        <5> QED BY <2>4, <4>2, <5>1, <5>2 DEF Running, Writing, AtCell
      <4>4. runner.at + 1 \in 1..setup.cells
        BY <1>0, <3>1
      <4> QED BY <4>3, <4>4 DEF Sent
    <3>2. CASE ~(runner.at < setup.cells)
      <4>1. runner' = [runner EXCEPT !.pc = "report", !.results = results]
        BY <2>2, <3>2
      <4>2. /\ runner' \in Running /\ runner'.pc = "report" /\ runner'.at = runner.at
        BY <1>0, <2>4, <4>1 DEF Running, Writing
      <4> QED BY <1>0, <4>2 DEF Sent
    <3> QED BY <3>1, <3>2
  <2>6. disk' \in Versions
    BY <1>1, <2>2, CellPaths DEF Kinds
  <2> QED BY <1>0, <2>2, <2>5, <2>6, TypedKept
<1>8. CASE WriteManifest
  <2>1. /\ runner' = [runner EXCEPT !.pc = "stage"]
        /\ manifest' = {<<p, disk[p]>> : p \in {q \in Paths : disk[q] > 0}}
        /\ UNCHANGED <<disk, rows, git, checks, receipt, world>>
    BY <1>8 DEF WriteManifest
  <2>2. /\ runner' \in Running /\ runner'.at \in 1..setup.cells
        /\ runner'.pc \in Sent => runner'.reply \in setup.replies
    BY <1>2, <2>1 DEF Closing, Sent
  <2>3. manifest' \in SUBSET (Paths \X Nat)
    BY <1>0, <2>1 DEF Versions
  <2> QED BY <1>0, <2>1, <2>2, <2>3, TypedKept
<1>9. CASE BeginStaging
  <2>1. /\ runner' = [runner EXCEPT !.pc = "verify"] /\ Begin("runner", TRUE, TRUE, 0, FALSE)
        /\ UNCHANGED <<disk, rows, manifest, git, receipt, world>>
    BY <1>9 DEF BeginStaging
  <2>2. /\ runner' \in Running /\ runner'.at \in 1..setup.cells
        /\ runner'.pc \in Sent => runner'.reply \in setup.replies
    BY <1>2, <2>1 DEF Closing, Sent
  <2>3. checks' \in [Verifiers -> Check]
    BY <1>0, <2>1, BeginTyped DEF Verifiers
  <2> QED BY <1>0, <2>1, <2>2, <2>3, TypedKept
<1>10. CASE Crash
  <2>1. /\ runner' = Idle /\ checks' = [checks EXCEPT !["runner"] = NoCheck]
        /\ UNCHANGED <<disk, rows, manifest, git, receipt, world>>
    BY <1>10 DEF Crash
  <2>2. checks' \in [Verifiers -> Check]
    <3>1. NoCheck \in Check
      BY DEF NoCheck, Check
    <3> QED BY <1>0, <2>1, <3>1
  <2>3. Idle.pc \notin Sent
    BY DEF Idle, Sent
  <2> QED BY <1>0, <2>1, <2>2, <2>3, IdleTyped, TypedKept
<1> QED BY <1>3, <1>4, <1>5, <1>6, <1>7, <1>8, <1>9, <1>10 DEF Runner

LEMMA OthersTyped ==
  ASSUME Typed, UNCHANGED setup,
         \/ Add \/ Commit
         \/ \E p \in Paths : Edit(p) \/ Ignore(p)
         \/ \E staging, writes, moving \in BOOLEAN : BeginByHand(staging, writes, moving)
         \/ \E v \in Verifiers : Verify(v)
  PROVE  Typed'
<1>0. /\ runner \in Running /\ runner.at \in 1..setup.cells /\ disk \in Versions /\ rows \in Seq(Outcome)
      /\ manifest \in SUBSET (Paths \X Nat) /\ git \in Git /\ checks \in [Verifiers -> Check]
      /\ receipt \in Receipt /\ world \in World
      /\ runner.pc \in Sent => runner.reply \in setup.replies
  BY DEF Typed
<1>1. CASE Add
  <2> DEFINE index == [p \in Paths |-> IF p \in git.ignored /\ git.index[p] = 0 THEN 0 ELSE disk[p]]
  <2>1. git' = [git EXCEPT !.adds = git.adds + 1, !.index = index]
        /\ UNCHANGED <<runner, disk, rows, manifest, checks, receipt, world>>
    BY <1>1 DEF Add
  <2>2. index \in Versions
    BY <1>0 DEF Versions
  <2> HIDE DEF index
  <2>3. git.adds + 1 \in Nat
    BY <1>0 DEF Git
  <2>4. git' \in Git
    BY <1>0, <2>1, <2>2, <2>3, FieldsTyped
  <2> QED BY <1>0, <2>1, <2>4, TypedKept
<1>2. CASE Commit
  <2>1. git' = [git EXCEPT !.commits = Append(git.commits, git.index)]
        /\ UNCHANGED <<runner, disk, rows, manifest, checks, receipt, world>>
    BY <1>2 DEF Commit
  <2>2. Append(git.commits, git.index) \in Seq(Versions)
    BY <1>0 DEF Git
  <2>3. git' \in Git
    BY <1>0, <2>1, <2>2, FieldsTyped
  <2> QED BY <1>0, <2>1, <2>3, TypedKept
<1>3. ASSUME NEW p \in Paths, Edit(p) PROVE Typed'
  <2>1. disk' = Write(p) /\ world' = [world EXCEPT !.edits = world.edits + 1]
        /\ UNCHANGED <<runner, rows, manifest, git, checks, receipt>>
    BY <1>3 DEF Edit
  <2>2. world' \in World
    BY <1>0, <2>1, FieldsTyped
  <2> QED BY <1>0, <2>1, <2>2, Written, TypedKept
<1>4. ASSUME NEW p \in Paths, Ignore(p) PROVE Typed'
  <2>1. git' = [git EXCEPT !.ignored = @ \cup {p}]
        /\ UNCHANGED <<runner, disk, rows, manifest, checks, receipt, world>>
    BY <1>4 DEF Ignore
  <2>2. git' \in Git
    BY <1>0, <2>1, FieldsTyped
  <2> QED BY <1>0, <2>1, <2>2, TypedKept
<1>5. ASSUME NEW staging \in BOOLEAN, NEW writes \in BOOLEAN, NEW moving \in BOOLEAN,
             BeginByHand(staging, writes, moving)
      PROVE  Typed'
  <2>1. Begin("cli", staging, writes, Len(git.commits), moving) /\ world' = [world EXCEPT !.begun = world.begun + 1]
        /\ UNCHANGED <<runner, disk, rows, manifest, git, receipt>>
    BY <1>5 DEF BeginByHand
  <2>2. world' \in World
    BY <1>0, <2>1, FieldsTyped
  <2>3. Len(git.commits) \in Nat
    BY <1>0 DEF Git
  <2>4. checks' \in [Verifiers -> Check]
    BY <1>0, <2>1, <2>3, BeginTyped DEF Verifiers
  <2> QED BY <1>0, <2>1, <2>2, <2>4, TypedKept
<1>6. ASSUME NEW v \in Verifiers, CheckPath(v) PROVE Typed'
  <2>1. PICK p \in checks[v].todo :
          checks' = [checks EXCEPT ![v].todo = @ \ {p}, ![v].bad = @ \/ ~PathHolds(v, p)]
    BY <1>6 DEF CheckPath
  <2>2. checks[v] \in Check /\ p \in Paths
    BY <1>0 DEF Check
  <2>3. PICK bad \in BOOLEAN : bad = (checks[v].bad \/ ~PathHolds(v, p))
    OBVIOUS
  <2>4. checks' = [checks EXCEPT ![v] = [checks[v] EXCEPT !.todo = @ \ {p}, !.bad = bad]]
    <3>1. checks' = [checks EXCEPT ![v] = [checks[v] EXCEPT !.todo = @ \ {p},
                                                           !.bad = checks[v].bad \/ ~PathHolds(v, p)]]
      BY <1>0, <2>1
    <3> QED BY <2>3, <3>1
  <2>5. checks' \in [Verifiers -> Check]
    BY <1>0, <2>2, <2>4, FieldsTyped
  <2>6. UNCHANGED <<runner, disk, rows, manifest, git, receipt, world>>
    BY <1>6 DEF CheckPath
  <2> QED BY <1>0, <2>5, <2>6, TypedKept
<1>7. ASSUME NEW v \in Verifiers, EndCheck(v) PROVE Typed'
  <2>1. PICK complete \in BOOLEAN :
          complete = (~checks[v].bad /\ checks[v].manifest # {} /\ ClaimsHold(v))
    OBVIOUS
  <2>2. /\ checks' = [checks EXCEPT ![v].pc = "ended", ![v].complete = complete]
        /\ receipt' = IF checks[v].writes
                      THEN [written |-> TRUE, complete |-> complete,
                            staging |-> checks[v].staging, ref |-> checks[v].ref,
                            moving |-> checks[v].moving]
                      ELSE receipt
    BY <1>7, <2>1 DEF EndCheck
  <2>3. checks[v] \in Check
    BY <1>0
  <2>4. checks' = [checks EXCEPT ![v] = [checks[v] EXCEPT !.pc = "ended", !.complete = complete]]
    BY <1>0, <2>2
  <2>5. checks' \in [Verifiers -> Check]
    BY <1>0, <2>3, <2>4, FieldsTyped
  <2>6. receipt' \in Receipt
    BY <1>0, <2>2, <2>3 DEF Check, Receipt
  <2>7. runner' = runner \/ runner' = [runner EXCEPT !.pc = "rewrite"]
    BY <1>7 DEF EndCheck
  <2>8. /\ runner' \in Running /\ runner'.at \in 1..setup.cells
        /\ runner'.pc \in Sent => runner'.reply \in setup.replies
    BY <1>0, <2>7 DEF Running, Closing, Sent
  <2>9. UNCHANGED <<disk, rows, manifest, git, world>>
    BY <1>7 DEF EndCheck
  <2> QED BY <1>0, <2>5, <2>6, <2>8, <2>9, TypedKept
<1> QED BY <1>1, <1>2, <1>3, <1>4, <1>5, <1>6, <1>7 DEF Verify

(* What may happen in a run is settled before it starts.                   *)
LEMMA SetupKept == Next => UNCHANGED setup
<1>1. Runner \/ Crash => UNCHANGED setup
  <2>1. Start \/ OpenLedger \/ Intent \/ Invoke \/ WriteRaw \/ Terminal => UNCHANGED setup
    BY DEF Start, OpenLedger, Intent, Invoke, WriteRaw, Terminal
  <2>2. RecordTerminal => UNCHANGED setup
    BY DEF RecordTerminal
  <2>3. WriteReport => UNCHANGED setup
    BY DEF WriteReport
  <2>4. WriteManifest \/ BeginStaging \/ RewriteReport \/ Crash => UNCHANGED setup
    BY DEF WriteManifest, BeginStaging, RewriteReport, Crash
  <2> QED BY <2>1, <2>2, <2>3, <2>4 DEF Runner
<1>2. Add \/ Commit => UNCHANGED setup
  BY DEF Add, Commit
<1>3. ASSUME NEW p \in Paths PROVE Edit(p) \/ Ignore(p) => UNCHANGED setup
  BY DEF Edit, Ignore
<1>4. ASSUME NEW staging \in BOOLEAN, NEW writes \in BOOLEAN, NEW moving \in BOOLEAN
      PROVE  BeginByHand(staging, writes, moving) => UNCHANGED setup
  BY DEF BeginByHand
<1>5. ASSUME NEW v \in Verifiers PROVE Verify(v) => UNCHANGED setup
  BY DEF Verify, CheckPath, EndCheck
<1> QED BY <1>1, <1>2, <1>3, <1>4, <1>5 DEF Next

LEMMA TypeStep == Typed /\ [Next]_vars => Typed'
<1>1. ASSUME Typed, UNCHANGED vars PROVE Typed'
  BY <1>1 DEF vars, Typed, World, Planned
<1>2. ASSUME Typed, Next PROVE Typed'
  <2>1. UNCHANGED setup
    BY <1>2, SetupKept
  <2> QED BY <1>2, <2>1, RunnerTyped, OthersTyped DEF Next
<1> QED BY <1>1, <1>2

LEMMA InitTyped == Init => Typed
<1> SUFFICES ASSUME Init PROVE Typed
  OBVIOUS
<1>1. setup \in Setups /\ setup.cells \in 1..Len(Cells)
  BY SetupsAssumption DEF Init
<1>2. [p \in Paths |-> 0] \in Versions /\ <<>> \in Seq(Outcome) /\ <<>> \in Seq(Versions)
  BY DEF Versions
<1>3. runner \in Running /\ runner.at \in 1..setup.cells /\ runner.pc \notin Sent
  BY <1>1, <1>2 DEF Init, Idle, Running, Sent
<1>4. git \in Git /\ disk \in Versions
  BY <1>2 DEF Init, Git
<1>5. checks \in [Verifiers -> Check] /\ receipt \in Receipt
  BY DEF Init, NoCheck, Check, Receipt
<1>6. world \in World
  BY DEF Init, World
<1> QED BY <1>1, <1>2, <1>3, <1>4, <1>5, <1>6 DEF Init, Typed

-----------------------------------------------------------------------------
(* The order of a run.  Nothing is sent before there is a ledger, no run   *)
(* begins where there is one, so a run writes one report and one manifest. *)

Others ==
  \/ Add \/ Commit
  \/ \E p \in Paths : Edit(p) \/ Ignore(p)
  \/ \E staging, writes, moving \in BOOLEAN : BeginByHand(staging, writes, moving)
  \/ \E v \in Verifiers : Verify(v)

(* Who shares the directory makes no file and takes none away; only the    *)
(* runner's own verification moves the runner.                             *)
LEMMA Aside ==
  ASSUME Typed, Others
  PROVE  /\ UNCHANGED <<rows, manifest, reported, setup>>
         /\ world'.calls = world.calls /\ world'.replies = world.replies
         /\ \A q \in Paths : disk'[q] > 0 <=> disk[q] > 0
         /\ \/ runner' = runner
            \/ /\ checks["runner"].pc = "paths" /\ runner'.pc = "rewrite" /\ Moved(runner, runner')
<1>0. world \in World
  BY DEF Typed
<1>1. CASE Add \/ Commit
  BY <1>1 DEF Add, Commit
<1>2. ASSUME NEW p \in Paths, Edit(p)
      PROVE  /\ UNCHANGED <<runner, rows, manifest, reported, setup>>
             /\ world'.calls = world.calls /\ world'.replies = world.replies
             /\ \A q \in Paths : disk'[q] > 0 <=> disk[q] > 0
  <2>1. /\ disk[p] > 0 /\ disk' = Write(p) /\ world' = [world EXCEPT !.edits = @ + 1]
        /\ UNCHANGED <<runner, rows, manifest, reported, setup>>
    BY <1>2 DEF Edit
  <2>2. world'.calls = world.calls /\ world'.replies = world.replies
    BY <1>0, <2>1 DEF World
  <2>3. \A q \in Paths : disk'[q] > 0 <=> disk[q] > 0
    BY <2>1, Written
  <2> QED BY <2>1, <2>2, <2>3
<1>3. ASSUME NEW p \in Paths, Ignore(p) PROVE UNCHANGED <<runner, disk, rows, manifest, reported, world, setup>>
  BY <1>3 DEF Ignore
<1>4. ASSUME NEW staging \in BOOLEAN, NEW writes \in BOOLEAN, NEW moving \in BOOLEAN,
             BeginByHand(staging, writes, moving)
      PROVE  /\ UNCHANGED <<runner, disk, rows, manifest, reported, setup>>
             /\ world'.calls = world.calls /\ world'.replies = world.replies
  <2>1. world' = [world EXCEPT !.begun = @ + 1]
        /\ UNCHANGED <<runner, disk, rows, manifest, reported, setup>>
    BY <1>4 DEF BeginByHand
  <2> QED BY <1>0, <2>1 DEF World
<1>5. ASSUME NEW v \in Verifiers, CheckPath(v)
      PROVE  UNCHANGED <<runner, disk, rows, manifest, reported, world, setup>>
  BY <1>5 DEF CheckPath
<1>6. ASSUME NEW v \in Verifiers, EndCheck(v)
      PROVE  /\ UNCHANGED <<disk, rows, manifest, reported, world, setup>>
             /\ \/ runner' = runner
                \/ /\ checks["runner"].pc = "paths" /\ runner'.pc = "rewrite" /\ Moved(runner, runner')
  <2>1. UNCHANGED <<disk, rows, manifest, reported, world, setup>> /\ checks[v].pc = "paths"
    BY <1>6 DEF EndCheck
  <2> QED BY <1>6, <2>1, Moves
<1> QED BY <1>1, <1>2, <1>3, <1>4, <1>5, <1>6 DEF Others, Verify

OrderInv ==
  /\ disk[Ledger] = 0 => /\ runner.pc \in {"idle", "open"} /\ manifest = {} /\ disk[Report] = 0
                         /\ \A c \in Planned : world.calls[c] = 0
  /\ runner.pc = "open" => disk[Ledger] = 0
  /\ runner.pc \in Writing => manifest = {}
  /\ runner.pc \in Closing => manifest # {}
  /\ runner.pc \in AtCell \cup {"report"} => disk[Report] = 0
  /\ checks["runner"].pc = "paths" => runner.pc = "verify"

(* The runner's own verification is begun and ended with the runner.       *)
LEMMA OwnCheck ==
  ASSUME Typed, OrderInv, Next
  PROVE  checks'["runner"].pc = "paths" => runner'.pc = "verify"
<1>0. /\ checks \in [Verifiers -> Check] /\ runner \in Running
      /\ "runner" \in Verifiers /\ "cli" \in Verifiers /\ "runner" # "cli"
  BY DEF Typed, Verifiers
<1>1. CASE Runner \/ Crash
  <2>1. CASE BeginStaging
    BY <2>1, Moves
  <2>2. CASE Crash
    BY <1>0, <2>2 DEF Crash, NoCheck
  <2>3. CASE Start \/ OpenLedger \/ Intent \/ Invoke \/ WriteRaw \/ Terminal \/ RecordTerminal
    <3>1. UNCHANGED checks
      BY <2>3 DEF Start, OpenLedger, Intent, Invoke, WriteRaw, Terminal, RecordTerminal
    <3>2. runner.pc # "verify"
      BY <2>3, Moves
    <3> QED BY <3>1, <3>2 DEF OrderInv
  <2>4. CASE WriteReport \/ WriteManifest \/ RewriteReport
    <3>1. UNCHANGED checks
      BY <2>4 DEF WriteReport, WriteManifest, RewriteReport
    <3>2. runner.pc # "verify"
      BY <2>4, Moves
    <3> QED BY <3>1, <3>2 DEF OrderInv
  <2> QED BY <1>1, <2>1, <2>2, <2>3, <2>4 DEF Runner
<1>2. CASE Add \/ Commit \/ \E p \in Paths : Edit(p) \/ Ignore(p)
  BY <1>2 DEF Add, Commit, Edit, Ignore, OrderInv
<1>3. ASSUME NEW staging \in BOOLEAN, NEW writes \in BOOLEAN, NEW moving \in BOOLEAN,
             BeginByHand(staging, writes, moving)
      PROVE  checks'["runner"] = checks["runner"] /\ UNCHANGED runner
  BY <1>0, <1>3 DEF BeginByHand, Begin
<1>4. ASSUME NEW v \in Verifiers, CheckPath(v)
      PROVE  checks'["runner"].pc = checks["runner"].pc /\ UNCHANGED runner
  <2>1. PICK p \in checks[v].todo :
          checks' = [checks EXCEPT ![v].todo = @ \ {p}, ![v].bad = @ \/ ~PathHolds(v, p)]
    BY <1>4 DEF CheckPath
  <2> QED BY <1>0, <1>4, <2>1 DEF CheckPath, Check
<1>5. ASSUME NEW v \in Verifiers, EndCheck(v)
      PROVE  /\ checks'["runner"].pc = "paths" => checks["runner"].pc = "paths" /\ UNCHANGED runner
  <2>1. PICK complete :
          checks' = [checks EXCEPT ![v].pc = "ended", ![v].complete = complete]
    BY <1>5 DEF EndCheck
  <2>2. CASE v = "runner"
    BY <1>0, <2>1, <2>2 DEF Check
  <2>3. CASE v # "runner"
    BY <1>0, <1>5, <2>1, <2>3 DEF EndCheck
  <2> QED BY <2>2, <2>3
<1> QED BY <1>1, <1>2, <1>3, <1>4, <1>5 DEF Next, Verify, OrderInv

LEMMA OrderStep == ASSUME Typed, OrderInv, [Next]_vars PROVE OrderInv'
<1>0. /\ disk \in Versions /\ runner \in Running /\ world \in World
      /\ Ledger \in Paths /\ Report \in Paths /\ Plan \in Paths /\ Ledger # Report /\ Plan # Ledger /\ Plan # Report
      /\ \A kind \in Kinds : /\ CellPath(Cell, kind) \in Paths
                             /\ CellPath(Cell, kind) # Ledger /\ CellPath(Cell, kind) # Report
      /\ disk[Ledger] \in Nat /\ disk[Report] \in Nat
  BY CellPaths, PathsOfRun DEF Typed, Versions
<1>1. CASE UNCHANGED vars
  BY <1>1 DEF vars, OrderInv, Planned
<1>2. CASE Next
  <2>1. UNCHANGED setup /\ Planned' = Planned
    BY <1>2, SetupKept DEF Planned
  <2>2. checks'["runner"].pc = "paths" => runner'.pc = "verify"
    BY <1>2, OwnCheck
  <2>3. SUFFICES
          /\ disk'[Ledger] = 0 => /\ runner'.pc \in {"idle", "open"} /\ manifest' = {} /\ disk'[Report] = 0
                                  /\ \A c \in Planned : world'.calls[c] = 0
          /\ runner'.pc = "open" => disk'[Ledger] = 0
          /\ runner'.pc \in Writing => manifest' = {}
          /\ runner'.pc \in Closing => manifest' # {}
          /\ runner'.pc \in AtCell \cup {"report"} => disk'[Report] = 0
    BY <2>1, <2>2 DEF OrderInv
  <2> USE DEF OrderInv, Writing, Closing, AtCell
  <2>4. CASE Others
    <3>1. UNCHANGED manifest /\ world'.calls = world.calls
      BY <2>4, Aside
    <3>2. /\ disk'[Ledger] > 0 <=> disk[Ledger] > 0
          /\ disk'[Report] > 0 <=> disk[Report] > 0
          /\ disk'[Ledger] \in Nat /\ disk'[Report] \in Nat
      BY <1>0, <2>1, <2>4, Aside, OthersTyped DEF Typed, Versions, Others
    <3>3. runner' = runner \/ (runner.pc = "verify" /\ runner'.pc = "rewrite")
      BY <2>4, Aside
    <3> QED BY <1>0, <3>1, <3>2, <3>3
  <2>5. CASE Start
    <3>1. UNCHANGED manifest /\ world'.calls = world.calls
      BY <1>0, <2>5 DEF Start, World
    <3>2. \/ runner' = runner /\ disk' = disk
          \/ disk[Ledger] = 0 /\ runner'.pc = "open" /\ disk' = Write(Plan)
      BY <2>5 DEF Start, Preflight, Idle
    <3>3. disk'[Ledger] = disk[Ledger] /\ disk'[Report] = disk[Report]
      BY <1>0, <3>2, Written
    <3> QED BY <3>1, <3>2, <3>3
  <2>6. CASE OpenLedger
    <3>1. disk' = Write(Ledger) /\ UNCHANGED <<manifest, world>>
      BY <2>6 DEF OpenLedger
    <3>2. disk'[Ledger] > 0 /\ disk'[Report] = disk[Report]
      BY <1>0, <3>1, Written
    <3> QED BY <1>0, <2>6, <3>1, <3>2, Moves
  <2>7. CASE Intent \/ WriteRaw \/ RecordTerminal
    <3>1. /\ \E kind \in Kinds : disk' = Write(CellPath(Cell, kind))
          /\ UNCHANGED <<manifest, world>>
      BY <2>7 DEF Intent, WriteRaw, RecordTerminal, Kinds
    <3>2. disk'[Ledger] = disk[Ledger] /\ disk'[Report] = disk[Report]
      BY <1>0, <3>1, Written
    <3>3. runner.pc \in {"intent", "raw", "record"} /\ runner'.pc \in {"invoke", "terminal", "intent", "report"}
      BY <2>7, Moves
    <3> QED BY <3>1, <3>2, <3>3
  <2>8. CASE Invoke
    <3>1. UNCHANGED <<disk, manifest>>
      BY <2>8 DEF Invoke
    <3>2. runner.pc = "invoke" /\ runner'.pc = "raw"
      BY <2>8, Moves
    <3> QED BY <3>1, <3>2
  <2>9. CASE Terminal
    <3>1. disk' = Write(Ledger) /\ UNCHANGED <<manifest, world>>
      BY <2>9 DEF Terminal
    <3>2. disk'[Ledger] > 0 /\ disk'[Report] = disk[Report]
      BY <1>0, <3>1, Written
    <3> QED BY <1>0, <2>9, <3>1, <3>2, Moves
  <2>10. CASE WriteReport \/ RewriteReport
    <3>1. disk' = Write(Report) /\ UNCHANGED <<manifest, world>>
      BY <2>10 DEF WriteReport, RewriteReport
    <3>2. disk'[Ledger] = disk[Ledger]
      BY <1>0, <3>1, Written
    <3>3. \/ runner.pc = "report" /\ runner'.pc = "manifest"
          \/ runner.pc = "rewrite" /\ runner'.pc = "done"
      BY <2>10, Moves
    <3> QED BY <3>1, <3>2, <3>3
  <2>11. CASE WriteManifest
    <3>1. /\ manifest' = {<<p, disk[p]>> : p \in {q \in Paths : disk[q] > 0}}
          /\ UNCHANGED disk
      BY <2>11 DEF WriteManifest
    <3>2. runner.pc = "manifest" /\ runner'.pc = "stage"
      BY <2>11, Moves
    <3>3. disk[Ledger] > 0
      BY <1>0, <3>2
    <3>4. manifest' # {}
      BY <1>0, <3>1, <3>3
    <3> QED BY <3>1, <3>2, <3>3, <3>4
  <2>12. CASE BeginStaging
    <3>1. UNCHANGED <<disk, manifest>>
      BY <2>12 DEF BeginStaging
    <3>2. runner.pc = "stage" /\ runner'.pc = "verify"
      BY <2>12, Moves
    <3> QED BY <3>1, <3>2
  <2>13. CASE Crash
    <3>1. UNCHANGED <<disk, manifest, world>> /\ runner'.pc = "idle"
      BY <2>13, AtIdle DEF Crash
    <3> QED BY <3>1
  <2> QED BY <1>2, <2>4, <2>5, <2>6, <2>7, <2>8, <2>9, <2>10, <2>11, <2>12, <2>13
          DEF Next, Runner, Others
<1> QED BY <1>1, <1>2

LEMMA InitOrder == Init => OrderInv
<1> SUFFICES ASSUME Init PROVE OrderInv
  OBVIOUS
<1>1. disk[Ledger] = 0 /\ disk[Report] = 0
  BY PathsOfRun DEF Init
<1>2. runner.pc = "idle" /\ manifest = {} /\ checks["runner"].pc = "none"
  BY DEF Init, Idle, NoCheck, Verifiers
<1>3. \A c \in Planned : world.calls[c] = 0
  BY DEF Init
<1> QED BY <1>1, <1>2, <1>3 DEF OrderInv, Writing, Closing, AtCell

-----------------------------------------------------------------------------
(* No cell is sent twice.                                                  *)

(* A file that is there stays there.                                       *)
LEMMA Grows ==
  ASSUME Typed, [Next]_vars
  PROVE  \A q \in Paths : disk[q] > 0 => disk'[q] > 0
<1>1. ASSUME NEW p \in Paths, disk' = Write(p) PROVE \A q \in Paths : disk[q] > 0 => disk'[q] > 0
  <2> TAKE q \in Paths
  <2>1. disk[q] \in Nat /\ disk'[q] \in Nat /\ disk'[q] >= disk[q]
    BY <1>1, Written
  <2> QED BY <2>1
<1>2. Ledger \in Paths /\ Plan \in Paths /\ Report \in Paths
      /\ \A kind \in Kinds : CellPath(Cell, kind) \in Paths
  BY CellPaths
<1>3. CASE Others
  BY <1>3, Aside
<1>4. CASE Start \/ OpenLedger \/ Intent \/ WriteRaw \/ Terminal
  <2>1. disk' = disk \/ \E p \in Paths : disk' = Write(p)
    BY <1>2, <1>4 DEF Start, OpenLedger, Intent, WriteRaw, Terminal, Kinds
  <2> QED BY <1>1, <2>1
<1>5. CASE RecordTerminal \/ WriteReport \/ RewriteReport
  <2>1. \E p \in Paths : disk' = Write(p)
    BY <1>2, <1>5 DEF RecordTerminal, WriteReport, RewriteReport, Kinds
  <2> QED BY <1>1, <2>1
<1>6. CASE Invoke \/ WriteManifest \/ BeginStaging \/ Crash
  BY <1>6 DEF Invoke, WriteManifest, BeginStaging, Crash
<1>7. CASE UNCHANGED vars
  BY <1>7 DEF vars
<1> QED BY <1>3, <1>4, <1>5, <1>6, <1>7 DEF Next, Runner, Others

(* From the runner's cell on no cell was sent, but for the one it is at.   *)
CallInv ==
  /\ InvokedOnce
  /\ runner.pc \in AtCell => \A i \in runner.at..setup.cells :
       world.calls[Cells[i]] = 0 \/ (i = runner.at /\ runner.pc \in Sent)
  /\ runner.pc = "invoke" => disk[CellPath(Cell, "request")] > 0

LEMMA CallStep == ASSUME Typed, OrderInv, CallInv, [Next]_vars PROVE CallInv'
<1>0. /\ runner \in Running /\ runner.at \in 1..setup.cells /\ world \in World /\ disk \in Versions
      /\ world.calls \in [Planned -> Nat]
      /\ setup.cells \in 1..Len(Cells) /\ Len(Cells) \in Nat /\ DOMAIN Cells = 1..Len(Cells)
  BY SetupsAssumption, CellsAssumption DEF Typed, World
<1>1. \A q \in Paths : disk[q] > 0 => disk'[q] > 0
  BY Grows
<1>2. \A c \in Planned, kind \in Kinds : CellPath(c, kind) \in Paths
  BY PathsOfCells DEF Planned
<1>3. Cell \in Planned /\ \A i \in 1..setup.cells : Cells[i] \in Planned
  BY CellPaths, PathsOfCells
<1>4. CASE UNCHANGED vars
  BY <1>4 DEF vars, CallInv, InvokedOnce, Planned, Cell
<1>5. ASSUME UNCHANGED setup, world'.calls = world.calls,
             runner'.pc \in AtCell =>
               \A i \in runner'.at..setup.cells :
                 world.calls[Cells[i]] = 0 \/ (i = runner'.at /\ runner'.pc \in Sent),
             runner'.pc = "invoke" => disk'[CellPath(Cells[runner'.at], "request")] > 0
      PROVE  CallInv'
  <2>1. Planned' = Planned
    BY <1>5 DEF Planned
  <2>2. InvokedOnce'
    BY <1>1, <1>2, <1>5, <2>1 DEF CallInv, InvokedOnce, Kinds
  <2> QED BY <1>5, <2>2 DEF CallInv, Cell
<1>6. CASE Next
  <2>1. UNCHANGED setup
    BY <1>6, SetupKept
  <2>2. CASE Others
    <3>1. world'.calls = world.calls /\ (runner' = runner \/ runner'.pc = "rewrite")
      BY <2>2, Aside
    <3>2. runner.pc = "invoke" => disk'[CellPath(Cell, "request")] > 0
      BY <1>1, <1>2, <1>3 DEF CallInv, Kinds
    <3> QED BY <1>5, <2>1, <3>1, <3>2 DEF CallInv, AtCell, Cell
  <2>3. CASE Start \/ Crash
    <3>1. world'.calls = world.calls
      BY <1>0, <2>3 DEF Start, Crash, World
    <3>2. runner'.pc \in {"idle", "open"}
      BY <2>3, Moves, AtIdle
    <3> QED BY <1>5, <2>1, <3>1, <3>2 DEF AtCell
  <2>4. CASE OpenLedger
    <3>1. UNCHANGED world /\ runner'.pc = "intent"
      BY <2>4, Moves DEF OpenLedger
    <3>2. \A c \in Planned : world.calls[c] = 0
      BY <2>4, Moves DEF OrderInv
    <3>3. runner'.at \in 1..setup.cells
      BY <1>0, <2>4, Moves DEF Moved
    <3>4. \A i \in runner'.at..setup.cells : world.calls[Cells[i]] = 0
      BY <1>0, <1>3, <3>2, <3>3
    <3> QED BY <1>5, <2>1, <3>1, <3>4
  <2>5. CASE Intent
    <3>1. UNCHANGED world /\ disk' = Write(CellPath(Cell, "request"))
          /\ runner.pc = "intent" /\ runner'.pc = "invoke" /\ runner'.at = runner.at
      BY <2>5, Moves DEF Intent, Moved
    <3>2. disk'[CellPath(Cell, "request")] > 0
      BY <1>2, <1>3, <3>1, Written DEF Kinds
    <3> QED BY <1>5, <2>1, <3>1, <3>2 DEF CallInv, AtCell, Sent, Cell
  <2>6. CASE Invoke
    <3>1. /\ runner.pc = "invoke" /\ runner'.pc = "raw" /\ runner'.at = runner.at
          /\ UNCHANGED disk
      BY <2>6, Moves DEF Invoke
    <3>2. world'.calls = [world.calls EXCEPT ![Cell] = @ + 1]
      <4>1. PICK r : world' = [world EXCEPT !.calls[Cell] = @ + 1, !.replies[Cell] = r]
        BY <2>6 DEF Invoke
      <4> QED BY <1>0, <4>1 DEF World
    <3>3. world.calls[Cell] = 0
      BY <1>0, <3>1 DEF CallInv, AtCell, Sent, Cell
    <3>4. world'.calls[Cell] = 1 /\ \A c \in Planned : c # Cell => world'.calls[c] = world.calls[c]
      BY <1>0, <1>3, <3>2, <3>3
    <3>5. InvokedOnce'
      <4>1. Planned' = Planned
        BY <2>1 DEF Planned
      <4>2. ASSUME NEW c \in Planned
            PROVE  /\ world'.calls[c] <= 1
                   /\ world'.calls[c] = 1 => disk[CellPath(c, "request")] > 0
        BY <3>1, <3>4 DEF CallInv, InvokedOnce
      <4> QED BY <3>1, <4>1, <4>2 DEF InvokedOnce
    <3>6. ASSUME NEW i \in runner.at..setup.cells, i # runner.at PROVE world'.calls[Cells[i]] = 0
      <4>1. i \in 1..setup.cells /\ i \in DOMAIN Cells /\ runner.at \in DOMAIN Cells
        BY <1>0
      <4>2. Cells[i] # Cell
        BY <3>6, <4>1, CellsAssumption DEF Cell
      <4>3. world.calls[Cells[i]] = 0
        BY <3>1, <3>6 DEF CallInv, AtCell
      <4> QED BY <1>3, <3>4, <4>1, <4>2, <4>3
    <3> QED BY <2>1, <3>1, <3>5, <3>6 DEF CallInv, Sent
  <2>7. CASE WriteRaw \/ Terminal
    <3>1. UNCHANGED world
      BY <2>7 DEF WriteRaw, Terminal
    <3>2. runner.pc \in Sent /\ runner'.pc \in {"terminal", "record"} /\ runner'.at = runner.at
      BY <2>7, Moves DEF Moved, Sent
    <3> QED BY <1>5, <2>1, <3>1, <3>2 DEF CallInv, AtCell, Sent
  <2>8. CASE RecordTerminal
    <3>1. UNCHANGED world
      BY <2>8 DEF RecordTerminal
    <3>2. /\ runner.pc = "record"
          /\ runner'.pc = "report" \/ (runner'.pc = "intent" /\ runner'.at = runner.at + 1)
      BY <2>8, Moves
    <3>3. \A i \in (runner.at + 1)..setup.cells : i \in runner.at..setup.cells /\ i # runner.at
      BY <1>0
    <3>4. \A i \in (runner.at + 1)..setup.cells : world.calls[Cells[i]] = 0
      BY <3>2, <3>3 DEF CallInv, AtCell
    <3> QED BY <1>5, <2>1, <3>1, <3>2, <3>4 DEF AtCell
  <2>9. CASE WriteReport \/ WriteManifest \/ BeginStaging \/ RewriteReport
    <3>1. UNCHANGED world
      <4>1. WriteReport => UNCHANGED world
        BY DEF WriteReport
      <4>2. WriteManifest \/ BeginStaging \/ RewriteReport => UNCHANGED world
        BY DEF WriteManifest, BeginStaging, RewriteReport
      <4> QED BY <2>9, <4>1, <4>2
    <3>2. runner'.pc \in {"manifest", "stage", "verify", "done"}
      BY <2>9, Moves
    <3> QED BY <1>5, <2>1, <3>1, <3>2 DEF AtCell
  <2> QED BY <1>6, <2>2, <2>3, <2>4, <2>5, <2>6, <2>7, <2>8, <2>9 DEF Next, Runner, Others
<1> QED BY <1>4, <1>6

LEMMA InitCalls == Init => CallInv
BY DEF Init, CallInv, InvokedOnce, Idle, AtCell

(* Whatever crashes and however often the run is started again, no cell is *)
(* sent twice, and none before its request is on disk.                     *)
THEOREM CellsAreInvokedOnce == Spec => []InvokedOnce
<1>1. CallInv => InvokedOnce
  BY DEF CallInv
<1>2. Typed /\ OrderInv /\ [Next]_vars => OrderInv'
  BY OrderStep
<1>3. Typed /\ OrderInv /\ CallInv /\ [Next]_vars => CallInv'
  BY CallStep
<1> QED BY <1>1, <1>2, <1>3, InitTyped, InitOrder, InitCalls, TypeStep, PTL DEF Spec

-----------------------------------------------------------------------------
(* What a verification that ended complete found.                          *)

(* Of a commit it looks at, a verification has found every declared file   *)
(* that is no more to do, or found one to be bad.                          *)
CheckInv(v) ==
  LET k == checks[v] IN
  /\ k.pc = "none" => ~k.complete
  /\ k.pc = "paths" => k.manifest = manifest /\ manifest # {} /\ ~k.complete
  /\ k.pc = "paths" /\ ~k.staging =>
       /\ k.ref \in DOMAIN git.commits
       /\ k.bad \/ \A d \in k.manifest : d[1] \in k.todo \/ Found(k, d)
  /\ k.complete /\ ~k.staging => k.ref \in DOMAIN git.commits /\ InCommit(k, k.manifest)

(* A manifest declares one version of a file.                              *)
OneVersion == \A d, e \in manifest : d[1] = e[1] => d = e

ReceiptInv ==
  receipt.written /\ receipt.complete /\ ~receipt.staging =>
    receipt.ref \in DOMAIN git.commits /\ InCommit(receipt, manifest)

PublishInv == OneVersion /\ ReceiptInv /\ \A v \in Verifiers : CheckInv(v)

(* A commit is never changed.                                              *)
LEMMA CommitsKept ==
  ASSUME Typed, Next
  PROVE  /\ git'.commits = git.commits \/ Commit
         /\ \A r \in DOMAIN git.commits : r \in DOMAIN git'.commits /\ git'.commits[r] = git.commits[r]
<1>0. git \in Git /\ git.commits \in Seq(Versions) /\ git.index \in Versions
  BY DEF Typed, Git
<1>1. CASE Commit
  <2>1. git' = [git EXCEPT !.commits = Append(git.commits, git.index)]
    BY <1>1 DEF Commit
  <2>2. git'.commits = Append(git.commits, git.index)
    BY <1>0, <2>1 DEF Git
  <2> QED BY <1>0, <1>1, <2>2
<1>2. CASE Add \/ \E p \in Paths : Ignore(p)
  BY <1>0, <1>2 DEF Add, Ignore, Git
<1>3. CASE \E p \in Paths : Edit(p)
  BY <1>3 DEF Edit
<1>4. CASE \E staging, writes, moving \in BOOLEAN : BeginByHand(staging, writes, moving)
  BY <1>4 DEF BeginByHand
<1>5. CASE \E v \in Verifiers : Verify(v)
  <2>1. ASSUME NEW v \in Verifiers, CheckPath(v) PROVE UNCHANGED git
    BY <2>1 DEF CheckPath
  <2>2. ASSUME NEW v \in Verifiers, EndCheck(v) PROVE UNCHANGED git
    BY <2>2 DEF EndCheck
  <2> QED BY <1>5, <2>1, <2>2 DEF Verify
<1>6. CASE Runner \/ Crash
  <2>1. Start \/ OpenLedger \/ Intent \/ Invoke \/ WriteRaw \/ Terminal => UNCHANGED git
    BY DEF Start, OpenLedger, Intent, Invoke, WriteRaw, Terminal
  <2>2. RecordTerminal => UNCHANGED git
    BY DEF RecordTerminal
  <2>3. WriteReport => UNCHANGED git
    BY DEF WriteReport
  <2>4. WriteManifest \/ BeginStaging \/ RewriteReport \/ Crash => UNCHANGED git
    BY DEF WriteManifest, BeginStaging, RewriteReport, Crash
  <2> QED BY <1>6, <2>1, <2>2, <2>3, <2>4 DEF Runner
<1> QED BY <1>1, <1>2, <1>3, <1>4, <1>5, <1>6 DEF Next

(* What a verification or a receipt found stays found.                     *)
LEMMA FoundKept ==
  ASSUME Typed, Next, NEW k, k.ref \in DOMAIN git.commits
  PROVE  /\ k.ref \in DOMAIN git'.commits
         /\ \A d : Found(k, d) => Found(k, d)'
<1>1. git.commits \in Seq(Versions) /\ k.ref \in 1..Len(git.commits) /\ Len(git.commits) \in Nat
  BY DEF Typed, Git
<1>2. \A r \in DOMAIN git.commits : r \in DOMAIN git'.commits /\ git'.commits[r] = git.commits[r]
  BY CommitsKept
<1>3. DOMAIN git.commits = 1..Len(git.commits)
  BY <1>1
<1>4. Len(git'.commits) \in Nat /\ Len(git'.commits) >= Len(git.commits)
  <2>1. CASE git'.commits = git.commits
    BY <1>1, <2>1
  <2>2. CASE Commit
    <3>1. git' = [git EXCEPT !.commits = Append(git.commits, git.index)] /\ git \in Git /\ git.index \in Versions
      BY <2>2 DEF Commit, Typed, Git
    <3>2. git'.commits = Append(git.commits, git.index)
      BY <3>1 DEF Git
    <3> QED BY <1>1, <3>1, <3>2
  <2> QED BY <2>1, <2>2, CommitsKept
<1>5. ASSUME NEW i \in Named(k) PROVE i \in DOMAIN git.commits /\ i \in Named(k)'
  BY <1>1, <1>3, <1>4, <1>5 DEF Named
<1>6. ASSUME NEW d, Found(k, d) PROVE Found(k, d)'
  <2>1. PICK i \in Named(k) : git.commits[i][d[1]] = d[2]
    BY <1>6 DEF Found
  <2>2. i \in Named(k)' /\ git'.commits[i] = git.commits[i]
    BY <1>2, <1>5
  <2> QED BY <2>1, <2>2 DEF Found
<1> QED BY <1>2, <1>6

LEMMA InCommitKept ==
  ASSUME Typed, Next, NEW k, k.ref \in DOMAIN git.commits, NEW declared, InCommit(k, declared)
  PROVE  k.ref \in DOMAIN git'.commits /\ InCommit(k, declared)'
BY FoundKept DEF InCommit

(* A verification that a step leaves alone, while it leaves the manifest.  *)
LEMMA CheckKept ==
  ASSUME Typed, Next, UNCHANGED manifest, NEW v \in Verifiers, CheckInv(v), checks'[v] = checks[v]
  PROVE  CheckInv(v)'
<1>1. PICK k : k = checks[v]
  OBVIOUS
<1>2. k.complete /\ ~k.staging => k.ref \in DOMAIN git'.commits /\ InCommit(k, k.manifest)'
  BY <1>1, InCommitKept DEF CheckInv
<1>3. k.pc = "paths" /\ ~k.staging =>
        /\ k.ref \in DOMAIN git'.commits
        /\ k.bad \/ \A d \in k.manifest : d[1] \in k.todo \/ Found(k, d)'
  BY <1>1, FoundKept DEF CheckInv
<1>4. checks'[v] = k
  BY <1>1
<1> QED BY <1>1, <1>2, <1>3, <1>4 DEF CheckInv, InCommit, Found, Named

LEMMA ReceiptKept ==
  ASSUME Typed, Next, UNCHANGED <<manifest, receipt>>, ReceiptInv
  PROVE  ReceiptInv'
<1>1. PICK k : k = receipt
  OBVIOUS
<1>2. k.written /\ k.complete /\ ~k.staging => k.ref \in DOMAIN git'.commits /\ InCommit(k, manifest)'
  BY <1>1, InCommitKept DEF ReceiptInv, InCommit
<1>3. receipt' = k
  BY <1>1
<1> QED BY <1>2, <1>3 DEF ReceiptInv, InCommit, Found, Named

(* A verification begins with everything to do.                            *)
LEMMA BeginKeeps ==
  ASSUME Typed, PublishInv, Next, manifest # {}, UNCHANGED <<manifest, receipt, git>>,
         NEW v \in Verifiers, NEW staging \in BOOLEAN, NEW writes \in BOOLEAN, NEW ref \in Nat,
         NEW moving \in BOOLEAN,
         staging \/ ref \in DOMAIN git.commits, Begin(v, staging, writes, ref, moving)
  PROVE  PublishInv'
<1> DEFINE todo == {d[1] : d \in manifest}
           new == [pc |-> "paths", staging |-> staging, writes |-> writes, ref |-> ref,
                   moving |-> moving, manifest |-> manifest, todo |-> todo, bad |-> FALSE, complete |-> FALSE]
<1>1. /\ checks'[v] = new
      /\ \A w \in Verifiers : w # v => checks'[w] = checks[w]
  BY DEF Begin, Typed
<1>2. \A d \in manifest : d[1] \in todo
  OBVIOUS
<1>3. CheckInv(v)'
  BY <1>1, <1>2 DEF CheckInv
<1>4. \A w \in Verifiers : w # v => CheckInv(w)'
  BY <1>1, CheckKept DEF PublishInv
<1>5. ReceiptInv' /\ OneVersion'
  BY ReceiptKept DEF PublishInv, OneVersion
<1> QED BY <1>3, <1>4, <1>5 DEF PublishInv

(* A file that held is in the commit as declared.                          *)
LEMMA PathKeeps ==
  ASSUME Typed, PublishInv, Next, NEW v \in Verifiers, CheckPath(v)
  PROVE  PublishInv'
<1> DEFINE k == checks[v]
<1>1. PICK p \in k.todo :
        checks' = [checks EXCEPT ![v].todo = @ \ {p}, ![v].bad = @ \/ ~PathHolds(v, p)]
  BY DEF CheckPath
<1>2. k.pc = "paths" /\ UNCHANGED <<manifest, receipt, git>> /\ checks \in [Verifiers -> Check] /\ k \in Check
  BY DEF CheckPath, Typed
<1>3. \A w \in Verifiers : w # v => checks'[w] = checks[w]
  BY <1>1, <1>2
<1>4. /\ checks'[v].pc = "paths" /\ checks'[v].staging = k.staging /\ checks'[v].ref = k.ref
      /\ checks'[v].moving = k.moving
      /\ checks'[v].manifest = k.manifest /\ checks'[v].complete = k.complete
      /\ checks'[v].todo = k.todo \ {p}
      /\ checks'[v].bad = (k.bad \/ ~PathHolds(v, p))
  <2>1. checks'[v] = [k EXCEPT !.todo = @ \ {p}, !.bad = @ \/ ~PathHolds(v, p)]
    BY <1>1, <1>2
  <2> QED BY <1>2, <2>1 DEF Check
<1>5. /\ k.manifest = manifest /\ manifest # {} /\ ~k.complete
      /\ ~k.staging => /\ k.ref \in DOMAIN git.commits
                       /\ k.bad \/ \A d \in manifest : d[1] \in k.todo \/ Found(k, d)
  BY <1>2 DEF PublishInv, CheckInv
<1>6. ASSUME ~k.staging, PathHolds(v, p), NEW d \in manifest, d[1] = p
      PROVE  Found(k, d)
  <2>1. (CHOOSE e \in k.manifest : e[1] = p) = d
    BY <1>5, <1>6 DEF PublishInv, OneVersion
  <2>2. git.commits[Resolved(k)][d[1]] = d[2]
    BY <1>6, <2>1 DEF PathHolds, GitBlobAtCommit
  <2>3. git.commits \in Seq(Versions) /\ k.ref \in 1..Len(git.commits) /\ Len(git.commits) \in Nat
    BY <1>5, <1>6 DEF Typed, Git
  <2>4. Resolved(k) \in Named(k)
    BY <2>3 DEF Resolved, Named
  <2> QED BY <2>2, <2>4 DEF Found
<1>7. CheckInv(v)'
  <2>1. ASSUME ~k.staging
        PROVE  \/ checks'[v].bad
               \/ \A d \in manifest : d[1] \in checks'[v].todo \/ Found(k, d)
    BY <1>4, <1>5, <1>6, <2>1
  <2>2. \A d \in manifest : Found(k, d) => Found(checks[v], d)'
    BY <1>2, <1>4 DEF Found, Named
  <2> QED BY <1>2, <1>4, <1>5, <2>1, <2>2 DEF CheckInv
<1>8. \A w \in Verifiers : w # v => CheckInv(w)'
  BY <1>2, <1>3, CheckKept DEF PublishInv
<1>9. ReceiptInv' /\ OneVersion'
  BY <1>2, ReceiptKept DEF PublishInv, OneVersion
<1> QED BY <1>7, <1>8, <1>9 DEF PublishInv

LEMMA EndKeeps ==
  ASSUME Typed, PublishInv, Next, NEW v \in Verifiers, EndCheck(v)
  PROVE  PublishInv'
<1> DEFINE k == checks[v]
<1>1. PICK complete \in BOOLEAN : complete = (~k.bad /\ k.manifest # {} /\ ClaimsHold(v))
  OBVIOUS
<1>2. /\ checks' = [checks EXCEPT ![v].pc = "ended", ![v].complete = complete]
      /\ receipt' = IF k.writes
                    THEN [written |-> TRUE, complete |-> complete, staging |-> k.staging,
                          ref |-> k.ref, moving |-> k.moving]
                    ELSE receipt
      /\ k.pc = "paths" /\ k.todo = {} /\ UNCHANGED <<manifest, git>>
      /\ checks \in [Verifiers -> Check] /\ k \in Check
  BY <1>1 DEF EndCheck, Typed
<1>3. \A w \in Verifiers : w # v => checks'[w] = checks[w]
  BY <1>2
<1>4. /\ checks'[v].pc = "ended" /\ checks'[v].staging = k.staging /\ checks'[v].ref = k.ref
      /\ checks'[v].moving = k.moving
      /\ checks'[v].manifest = k.manifest /\ checks'[v].complete = complete
  <2>1. checks'[v] = [k EXCEPT !.pc = "ended", !.complete = complete]
    BY <1>2
  <2> QED BY <1>2, <2>1 DEF Check
<1>5. k.manifest = manifest
  BY <1>2 DEF PublishInv, CheckInv
<1>6. complete /\ ~k.staging => k.ref \in DOMAIN git.commits /\ InCommit(k, manifest)
  BY <1>1, <1>2, <1>5 DEF PublishInv, CheckInv, InCommit
<1>7. CheckInv(v)'
  BY <1>2, <1>4, <1>5, <1>6 DEF CheckInv, InCommit, Found, Named
<1>8. \A w \in Verifiers : w # v => CheckInv(w)'
  BY <1>2, <1>3, CheckKept DEF PublishInv
<1>9. ReceiptInv'
  <2>1. CASE receipt' = receipt
    BY <1>2, <2>1, ReceiptKept DEF PublishInv
  <2>2. CASE receipt' = [written |-> TRUE, complete |-> complete, staging |-> k.staging,
                         ref |-> k.ref, moving |-> k.moving]
    BY <1>2, <1>6, <2>2 DEF ReceiptInv, InCommit, Found, Named
  <2> QED BY <1>2, <2>1, <2>2
<1>10. OneVersion'
  BY <1>2 DEF PublishInv, OneVersion
<1> QED BY <1>7, <1>8, <1>9, <1>10 DEF PublishInv

LEMMA PublishStep == ASSUME Typed, OrderInv, PublishInv, [Next]_vars PROVE PublishInv'
<1>1. CASE UNCHANGED vars
  BY <1>1 DEF vars, PublishInv, OneVersion, ReceiptInv, CheckInv, InCommit, Found, Named
<1>2. CASE Next
  <2>1. ASSUME UNCHANGED <<manifest, checks, receipt>> PROVE PublishInv'
    BY <1>2, <2>1, CheckKept, ReceiptKept DEF PublishInv, OneVersion
  <2>2. CASE Start \/ OpenLedger \/ Intent \/ Invoke \/ WriteRaw \/ Terminal \/ RecordTerminal
    <3>1. Start \/ OpenLedger \/ Intent \/ Invoke \/ WriteRaw \/ Terminal
            => UNCHANGED <<manifest, checks, receipt>>
      BY DEF Start, OpenLedger, Intent, Invoke, WriteRaw, Terminal
    <3>2. RecordTerminal => UNCHANGED <<manifest, checks, receipt>>
      BY DEF RecordTerminal
    <3> QED BY <2>1, <2>2, <3>1, <3>2
  <2>3. CASE WriteReport \/ RewriteReport
    <3>1. WriteReport => UNCHANGED <<manifest, checks, receipt>>
      BY DEF WriteReport
    <3>2. RewriteReport => UNCHANGED <<manifest, checks, receipt>>
      BY DEF RewriteReport
    <3> QED BY <2>1, <2>3, <3>1, <3>2
  <2>4. CASE WriteManifest
    <3>1. /\ manifest' = {<<p, disk[p]>> : p \in {q \in Paths : disk[q] > 0}}
          /\ UNCHANGED <<checks, receipt, git>>
      BY <2>4 DEF WriteManifest
    <3>2. manifest = {}
      BY <2>4, Moves DEF OrderInv, Writing
    <3>3. OneVersion'
      BY <3>1 DEF OneVersion
    <3>4. ReceiptInv'
      BY <3>1, <3>2 DEF PublishInv, ReceiptInv, InCommit
    <3>5. \A v \in Verifiers : CheckInv(v)'
      BY <3>1, <3>2 DEF PublishInv, CheckInv, InCommit, Found, Named
    <3> QED BY <3>3, <3>4, <3>5 DEF PublishInv
  <2>5. CASE BeginStaging
    <3>1. Begin("runner", TRUE, TRUE, 0, FALSE) /\ UNCHANGED <<manifest, receipt, git>>
      BY <2>5 DEF BeginStaging
    <3>2. manifest # {} /\ "runner" \in Verifiers
      BY <2>5, Moves DEF OrderInv, Closing, Verifiers
    <3> QED BY <1>2, <3>1, <3>2, BeginKeeps
  <2>6. CASE Crash
    <3>1. checks' = [checks EXCEPT !["runner"] = NoCheck] /\ UNCHANGED <<manifest, receipt, git>>
      BY <2>6 DEF Crash
    <3>2. checks'["runner"] = NoCheck /\ \A v \in Verifiers : v # "runner" => checks'[v] = checks[v]
      BY <3>1 DEF Typed, Verifiers
    <3>3. CheckInv("runner")'
      BY <3>2 DEF CheckInv, NoCheck
    <3>4. \A v \in Verifiers : v # "runner" => CheckInv(v)'
      BY <1>2, <3>1, <3>2, CheckKept DEF PublishInv
    <3>5. ReceiptInv' /\ OneVersion'
      BY <1>2, <3>1, ReceiptKept DEF PublishInv, OneVersion
    <3> QED BY <3>3, <3>4, <3>5 DEF PublishInv
  <2>7. CASE Add \/ Commit \/ \E p \in Paths : Edit(p) \/ Ignore(p)
    <3>1. UNCHANGED <<manifest, checks, receipt>>
      BY <2>7 DEF Add, Commit, Edit, Ignore
    <3> QED BY <2>1, <3>1
  <2>8. ASSUME NEW staging \in BOOLEAN, NEW writes \in BOOLEAN, NEW moving \in BOOLEAN,
               BeginByHand(staging, writes, moving)
        PROVE  PublishInv'
    <3>1. /\ Begin("cli", staging, writes, Len(git.commits), moving) /\ manifest # {}
          /\ staging \/ git.commits # <<>>
          /\ UNCHANGED <<manifest, receipt, git>>
      BY <2>8 DEF BeginByHand
    <3>2. git.commits \in Seq(Versions) /\ "cli" \in Verifiers
      BY DEF Typed, Git, Verifiers
    <3>3. Len(git.commits) \in Nat /\ (staging \/ Len(git.commits) \in DOMAIN git.commits)
      BY <3>1, <3>2
    <3> QED BY <1>2, <3>1, <3>2, <3>3, BeginKeeps
  <2>9. ASSUME NEW v \in Verifiers, Verify(v) PROVE PublishInv'
    BY <1>2, <2>9, PathKeeps, EndKeeps DEF Verify
  <2> QED BY <1>2, <2>2, <2>3, <2>4, <2>5, <2>6, <2>7, <2>8, <2>9 DEF Next, Runner
<1> QED BY <1>1, <1>2

LEMMA InitPublish == Init => PublishInv
<1> SUFFICES ASSUME Init PROVE PublishInv
  OBVIOUS
<1>1. \A v \in Verifiers : checks[v].pc = "none" /\ ~checks[v].complete
  BY DEF Init, NoCheck
<1> QED BY <1>1 DEF Init, PublishInv, OneVersion, ReceiptInv, CheckInv

(* Whatever is edited, added, ignored or committed while a verification    *)
(* looks, one that ends complete for a commit, and a receipt that says so, *)
(* found every declared file in that commit as it is declared.             *)
THEOREM PublishedAreCommitted == Spec => []PublishedIsCommitted
<1>1. PublishInv => PublishedIsCommitted
  BY DEF PublishInv, CheckInv, ReceiptInv, PublishedIsCommitted
<1>2. Typed /\ OrderInv /\ [Next]_vars => OrderInv'
  BY OrderStep
<1>3. Typed /\ OrderInv /\ PublishInv /\ [Next]_vars => PublishInv'
  BY PublishStep
<1> QED BY <1>1, <1>2, <1>3, InitTyped, InitOrder, InitPublish, TypeStep, PTL DEF Spec

-----------------------------------------------------------------------------
(* What a report rests on.                                                 *)

Held(t) ==
  /\ t \in ToSet(rows)
  /\ \A kind \in Kinds : disk[CellPath(t.cell, kind)] > 0

(* results are of the first n cells, each as its reply makes it.           *)
Sound(results, n) ==
  /\ DOMAIN results = 1..n
  /\ \A i \in 1..n : /\ world.replies[Cells[i]] \in setup.replies
                     /\ results[i] = Result(i) /\ Held(results[i])

ResultInv ==
  /\ runner.pc = "open" => runner.at = 1 /\ runner.results = <<>>
  /\ runner.pc \in {"manifest"} \cup Closing => disk[Report] > 0
  /\ runner.pc \in AtCell => Sound(runner.results, runner.at - 1)
  /\ runner.pc = "report" => Sound(runner.results, setup.cells)
  /\ runner.pc \in Sent => runner.reply = world.replies[Cell]
  /\ runner.pc \in Sent \cup {"invoke"} => disk[CellPath(Cell, "request")] > 0
  /\ runner.pc \in {"terminal", "record"} => disk[CellPath(Cell, "raw")] > 0
  /\ runner.pc = "record" => TerminalOf(Cell, runner.reply) \in ToSet(rows)
  /\ disk[Report] > 0 => Sound(reported, setup.cells)

LEMMA RowsKept ==
  ASSUME Typed, Next
  PROVE  /\ ToSet(rows) \subseteq ToSet(rows')
         /\ Terminal => TerminalOf(Cell, runner.reply) \in ToSet(rows')
         /\ ~Terminal => rows' = rows
<1>1. CASE Terminal
  <2>1. PICK t : t = TerminalOf(Cell, runner.reply)
    OBVIOUS
  <2>2. rows' = Append(rows, t) /\ rows \in Seq(Outcome) /\ runner.pc = "terminal"
    BY <1>1, <2>1 DEF Terminal, Typed
  <2>3. t \in Outcome
    BY <2>1, <2>2, Terminals, CellPaths, SetupsAssumption DEF Typed, Sent
  <2>4. /\ DOMAIN rows' = 1..(Len(rows) + 1) /\ rows'[Len(rows) + 1] = t
        /\ \A i \in DOMAIN rows : i \in DOMAIN rows' /\ rows'[i] = rows[i]
    BY <2>2, <2>3
  <2>5. Len(rows) + 1 \in DOMAIN rows'
    BY <2>2, <2>4
  <2> QED BY <1>1, <2>1, <2>4, <2>5 DEF ToSet
<1>2. CASE Others
  BY <1>2, Aside, Moves DEF Terminal
<1>3. CASE (Runner \/ Crash) /\ ~Terminal
  <2>1. Start \/ OpenLedger \/ Intent \/ Invoke \/ WriteRaw => UNCHANGED rows
    BY DEF Start, OpenLedger, Intent, Invoke, WriteRaw
  <2>2. RecordTerminal => UNCHANGED rows
    BY DEF RecordTerminal
  <2>3. WriteReport => UNCHANGED rows
    BY DEF WriteReport
  <2>4. WriteManifest \/ BeginStaging \/ RewriteReport \/ Crash => UNCHANGED rows
    BY DEF WriteManifest, BeginStaging, RewriteReport, Crash
  <2> QED BY <1>3, <2>1, <2>2, <2>3, <2>4 DEF Runner
<1> QED BY <1>1, <1>2, <1>3 DEF Next, Others

(* Results of cells whose replies stay as they are remain sound.           *)
LEMMA SoundKept ==
  ASSUME Typed, Next, NEW s, NEW n \in Nat, n <= setup.cells, Sound(s, n),
         \A i \in 1..n : world'.replies[Cells[i]] = world.replies[Cells[i]]
  PROVE  Sound(s, n)'
<1>1. UNCHANGED setup /\ setup.replies \subseteq Replies /\ setup.cells \in Nat
  BY SetupKept, SetupsAssumption DEF Typed
<1>2. ASSUME NEW i \in 1..n
      PROVE  world'.replies[Cells[i]] \in setup.replies /\ s[i] = Result(i)' /\ Held(s[i])'
  <2>1. i \in 1..setup.cells
    BY <1>1
  <2>2. world.replies[Cells[i]] \in setup.replies /\ s[i] = Result(i) /\ Held(s[i])
    BY DEF Sound
  <2>3. s[i].cell = Cells[i]
    <3>1. world.replies[Cells[i]] \in Replies /\ Cells[i] \in ToSet(Cells)
      BY <1>1, <2>1, <2>2, PathsOfCells
    <3>2. TerminalOf(Cells[i], world.replies[Cells[i]]).cell = Cells[i]
      BY <3>1, Terminals
    <3> QED BY <2>2, <3>2 DEF Result
  <2>4. s[i] = Result(i)'
    BY <1>1, <2>2 DEF Result, TerminalOf, PairHolds
  <2>5. \A kind \in Kinds : disk'[CellPath(s[i].cell, kind)] > 0
    BY <2>1, <2>2, <2>3, PathsOfCells, Grows DEF Held
  <2>6. s[i] \in ToSet(rows')
    BY <2>2, RowsKept DEF Held
  <2> QED BY <2>2, <2>4, <2>5, <2>6 DEF Held
<1> QED BY <1>1, <1>2 DEF Sound

LEMMA SoundHere ==
  ASSUME Typed, Next, NEW s, NEW n \in Nat, n <= setup.cells, Sound(s, n), world'.replies = world.replies
  PROVE  Sound(s, n)'
BY SoundKept

LEMMA ResultStep == ASSUME Typed, OrderInv, ResultInv, [Next]_vars PROVE ResultInv'
<1>0. /\ runner \in Running /\ runner.at \in 1..setup.cells /\ setup.cells \in Nat /\ disk \in Versions
      /\ runner.at \in Nat /\ runner.at - 1 \in Nat /\ runner.at - 1 <= setup.cells
      /\ world \in World /\ runner.results \in Seq(Outcome)
  BY SetupsAssumption, CellsAssumption DEF Typed, Running
<1>1. CASE UNCHANGED vars
  BY <1>1, ZenonT(30) DEF vars, ResultInv, Sound, Held, Result, TerminalOf, PairHolds, Cell
<1>2. CASE Next
  <2>1. UNCHANGED setup /\ \A q \in Paths : disk[q] > 0 => disk'[q] > 0
    BY <1>2, SetupKept, Grows
  <2>2. /\ Report \in Paths /\ \A kind \in Kinds : CellPath(Cell, kind) \in Paths
        /\ \A kind \in Kinds : CellPath(Cell, kind) # Report
    BY CellPaths
  <2>3. runner.pc \in {"manifest"} \cup Closing => disk'[Report] > 0
    BY <2>1, <2>2 DEF ResultInv
  (* The report, of a step that sends nothing and writes none. *)
  <2>4. ASSUME world'.replies = world.replies, reported' = reported, disk'[Report] > 0 => disk[Report] > 0
        PROVE  disk'[Report] > 0 => Sound(reported, setup.cells)'
    <3>1. PICK s, n : s = reported /\ n = setup.cells
      OBVIOUS
    <3>2. disk'[Report] > 0 => Sound(s, n)'
      BY <1>0, <1>2, <2>4, <3>1, SoundHere DEF ResultInv
    <3> QED BY <2>1, <2>4, <3>1, <3>2 DEF Sound
  (* The results, of a step that sends nothing and keeps them. *)
  <2>5. ASSUME world'.replies = world.replies, runner'.results = runner.results, runner'.at = runner.at
        PROVE  /\ runner.pc \in AtCell => Sound(runner.results, runner.at - 1)'
               /\ runner.pc = "report" => Sound(runner.results, setup.cells)'
               /\ runner.pc = "report" => Sound(runner'.results, setup.cells)
    <3>1. PICK s, m, n : s = runner.results /\ m = runner.at - 1 /\ n = setup.cells
      OBVIOUS
    <3>2. runner.pc \in AtCell => Sound(s, m)'
      BY <1>0, <1>2, <2>5, <3>1, SoundHere DEF ResultInv
    <3>3. runner.pc = "report" => Sound(s, n)'
      BY <1>0, <1>2, <2>5, <3>1, SoundHere DEF ResultInv
    <3>4. s = runner'.results /\ m = runner'.at - 1 /\ n = setup'.cells
      BY <2>1, <2>5, <3>1
    <3>5. runner.pc \in AtCell => Sound(runner.results, runner.at - 1)'
      BY <3>2, <3>4 DEF Sound
    <3>6. runner.pc = "report" => Sound(runner.results, setup.cells)'
      BY <3>3, <3>4 DEF Sound
    <3> QED BY <2>5, <3>5, <3>6 DEF ResultInv
  <2>6. CASE Others
    <3>1. /\ reported' = reported /\ world'.replies = world.replies
          /\ \A q \in Paths : disk'[q] > 0 <=> disk[q] > 0
          /\ \/ runner' = runner
             \/ runner'.pc = "rewrite" /\ checks["runner"].pc = "paths"
          /\ rows' = rows
      BY <2>6, Aside
    <3>2. disk'[Report] > 0 => Sound(reported, setup.cells)'
      BY <2>2, <2>4, <3>1
    <3>3. CASE runner' = runner
      <4>1. /\ runner.pc \in AtCell => Sound(runner.results, runner.at - 1)'
            /\ runner.pc = "report" => Sound(runner.results, setup.cells)'
        BY <2>5, <3>1, <3>3
      <4>2. Cell' = Cell
        BY <3>3 DEF Cell
      <4>3. TerminalOf(Cell, runner.reply)' = TerminalOf(Cell, runner.reply)
        BY <2>1, <3>3, <4>2 DEF TerminalOf, PairHolds
      <4> QED BY <2>1, <2>2, <3>1, <3>2, <3>3, <4>1, <4>2, <4>3 DEF ResultInv, Kinds
    <3>4. CASE runner'.pc = "rewrite" /\ checks["runner"].pc = "paths"
      BY <2>3, <3>2, <3>4 DEF ResultInv, OrderInv, AtCell, Sent, Closing
    <3> QED BY <3>1, <3>3, <3>4
  <2>7. CASE Start \/ Crash
    <3>1. /\ world'.replies = world.replies /\ reported' = reported
          /\ disk' = disk \/ disk' = Write(Plan)
      BY <1>0, <2>7 DEF Start, Crash, World
    <3>2. disk'[Report] = disk[Report]
      BY <2>2, <3>1, PathsOfRun, Written
    <3>3. \/ runner'.pc = "idle"
          \/ runner'.pc = "open" /\ runner'.at = 1 /\ runner'.results = <<>>
      BY <2>7, Moves, AtIdle
    <3> QED BY <2>4, <3>1, <3>2, <3>3 DEF ResultInv, AtCell, Sent, Closing
  <2>8. CASE OpenLedger
    <3>1. /\ UNCHANGED <<world, reported>> /\ disk' = Write(Ledger)
          /\ runner.pc = "open" /\ runner'.pc = "intent" /\ runner'.at = runner.at
          /\ runner'.results = runner.results
      BY <2>8, Moves DEF OpenLedger, Moved
    <3>2. disk'[Report] = disk[Report]
      BY <2>2, <3>1, PathsOfRun, Written
    <3>3. runner'.at - 1 = 0 /\ runner'.results = <<>>
      BY <3>1 DEF ResultInv
    <3>4. Sound(runner.results, runner.at - 1)'
      BY <3>3 DEF Sound
    <3> QED BY <2>4, <3>1, <3>2, <3>4 DEF ResultInv, AtCell, Sent, Closing
  <2>9. CASE Intent
    <3>1. /\ UNCHANGED <<world, reported>> /\ disk' = Write(CellPath(Cell, "request"))
          /\ runner.pc = "intent" /\ runner'.pc = "invoke" /\ runner'.at = runner.at
          /\ runner'.results = runner.results
      BY <2>9, Moves DEF Intent, Moved
    <3>2. disk'[Report] = disk[Report] /\ disk'[CellPath(Cell, "request")] > 0
      BY <2>2, <3>1, Written DEF Kinds
    <3>3. Cell' = Cell
      BY <3>1 DEF Cell
    <3> QED BY <2>4, <2>5, <3>1, <3>2, <3>3 DEF ResultInv, AtCell, Sent, Closing
  <2>10. CASE Invoke
    <3>1. /\ runner.pc = "invoke" /\ runner'.pc = "raw" /\ runner'.at = runner.at
          /\ runner'.results = runner.results
          /\ world' = [world EXCEPT !.calls[Cell] = @ + 1, !.replies[Cell] = runner'.reply]
          /\ UNCHANGED <<disk, reported>> /\ Cell' = Cell
      BY <2>10, Moves DEF Invoke, Cell
    <3>2. world'.replies = [world.replies EXCEPT ![Cell] = runner'.reply]
      BY <1>0, <3>1 DEF World
    <3>3. world'.replies[Cell] = runner'.reply
      BY <1>0, <3>2, CellPaths DEF World
    <3>4. disk[Report] = 0
      BY <3>1 DEF OrderInv, AtCell
    <3>5. ASSUME NEW i \in 1..(runner.at - 1)
          PROVE  world'.replies[Cells[i]] = world.replies[Cells[i]]
      <4>1. i \in 1..setup.cells /\ i # runner.at
        BY <1>0
      <4>2. i \in DOMAIN Cells /\ runner.at \in DOMAIN Cells /\ Cells[i] \in Planned
        BY <1>0, <4>1, PathsOfCells
      <4>3. Cells[i] # Cell
        BY <4>1, <4>2, CellsAssumption DEF Cell
      <4> QED BY <1>0, <3>2, <4>2, <4>3 DEF World
    <3>6. Sound(runner.results, runner.at - 1)'
      <4>1. PICK s, n : s = runner.results /\ n = runner.at - 1
        OBVIOUS
      <4>2. Sound(s, n)
        BY <3>1, <4>1 DEF ResultInv, AtCell
      <4>3. Sound(s, n)'
        BY <1>0, <1>2, <3>5, <4>1, <4>2, SoundKept
      <4>4. s = runner'.results /\ n = runner'.at - 1
        BY <3>1, <4>1
      <4> QED BY <4>3, <4>4 DEF Sound
    <3> QED BY <3>1, <3>3, <3>4, <3>6 DEF ResultInv, AtCell, Sent, Closing
  <2>11. CASE WriteRaw
    <3>1. /\ UNCHANGED <<world, reported, rows>> /\ disk' = Write(CellPath(Cell, "raw"))
          /\ runner.pc = "raw" /\ runner'.pc = "terminal" /\ runner'.at = runner.at
          /\ runner'.results = runner.results /\ runner'.reply = runner.reply
      BY <2>11, Moves DEF WriteRaw, Moved
    <3>2. disk'[Report] = disk[Report] /\ disk'[CellPath(Cell, "raw")] > 0
      BY <2>2, <3>1, Written DEF Kinds
    <3>3. Cell' = Cell /\ disk'[CellPath(Cell, "request")] > 0
      BY <2>1, <2>2, <3>1 DEF Cell, ResultInv, Sent, Kinds
    <3> QED BY <2>4, <2>5, <3>1, <3>2, <3>3 DEF ResultInv, AtCell, Sent, Closing
  <2>12. CASE Terminal
    <3>1. /\ UNCHANGED <<world, reported>> /\ disk' = Write(Ledger)
          /\ runner.pc = "terminal" /\ runner'.pc = "record" /\ runner'.at = runner.at
          /\ runner'.results = runner.results /\ runner'.reply = runner.reply
      BY <2>12, Moves DEF Terminal, Moved
    <3>2. disk'[Report] = disk[Report]
      BY <2>2, <3>1, PathsOfRun, Written
    <3>3. /\ Cell' = Cell
          /\ disk'[CellPath(Cell, "request")] > 0 /\ disk'[CellPath(Cell, "raw")] > 0
      BY <2>1, <2>2, <3>1 DEF Cell, ResultInv, Sent, Kinds
    <3>4. TerminalOf(Cell, runner.reply)' = TerminalOf(Cell, runner.reply)
      BY <2>1, <3>1, <3>3 DEF TerminalOf, PairHolds
    <3>5. TerminalOf(Cell, runner.reply)' \in ToSet(rows')
      BY <1>2, <2>12, <3>4, RowsKept
    <3> QED BY <2>4, <2>5, <3>1, <3>2, <3>3, <3>5 DEF ResultInv, AtCell, Sent, Closing
  <2>13. CASE RecordTerminal
    <3>1. UNCHANGED <<world, reported>> /\ disk' = Write(CellPath(Cell, "record"))
      BY <2>13 DEF RecordTerminal
    <3>2. /\ runner.pc = "record" /\ runner'.results = Append(runner.results, TerminalOf(Cell, runner.reply))
          /\ IF runner.at < setup.cells
             THEN runner'.pc = "intent" /\ runner'.at = runner.at + 1
             ELSE runner'.pc = "report" /\ runner'.at = runner.at
      BY <2>13, Moves
    <3>3. disk'[Report] = disk[Report] /\ disk'[CellPath(Cell, "record")] > 0
      BY <2>2, <3>1, Written DEF Kinds
    <3>4. \A kind \in Kinds : disk'[CellPath(Cell, kind)] > 0
      BY <2>1, <2>2, <3>2, <3>3 DEF ResultInv, Sent, Kinds
    <3>5. PICK s, n, t : s = runner.results /\ n = runner.at /\ t = TerminalOf(Cell, runner.reply)
      OBVIOUS
    <3>6. /\ world.replies[Cells[n]] \in setup.replies /\ t = Result(n) /\ t \in ToSet(rows) /\ t.cell = Cell
      <4>1. runner.reply = world.replies[Cell] /\ runner.reply \in setup.replies /\ runner.reply \in Replies
        BY <3>2, SetupsAssumption DEF ResultInv, Typed, Sent
      <4>2. TerminalOf(Cell, runner.reply).cell = Cell
        BY <4>1, CellPaths, Terminals
      <4> QED BY <3>2, <3>5, <4>1, <4>2 DEF ResultInv, Result, Cell
    <3>7. Sound(s, n - 1) /\ s \in Seq(Outcome) /\ n \in Nat /\ n - 1 \in Nat /\ n - 1 <= setup.cells
      BY <1>0, <3>2, <3>5 DEF ResultInv, AtCell
    <3>8. Sound(s, n - 1)'
      BY <1>2, <3>1, <3>7, SoundHere
    <3>9. t = Result(n)' /\ Held(t)'
      <4>1. t = Result(n)'
        BY <2>1, <3>1, <3>6 DEF Result, TerminalOf, PairHolds
      <4>2. t \in ToSet(rows')
        BY <1>2, <3>6, RowsKept
      <4> QED BY <3>4, <3>6, <4>1, <4>2 DEF Held
    <3>10. Sound(Append(s, t), n)'
      <4>1. Len(s) = n - 1
        BY <3>7 DEF Sound
      <4>2. DOMAIN Append(s, t) = 1..n /\ Append(s, t)[n] = t /\ \A i \in 1..(n - 1) : Append(s, t)[i] = s[i]
        BY <3>7, <4>1
      <4>3. \A i \in 1..n : i = n \/ i \in 1..(n - 1)
        BY <3>7
      <4>4. world'.replies[Cells[n]] \in setup'.replies
        BY <2>1, <3>1, <3>6
      <4> QED BY <3>8, <3>9, <4>2, <4>3, <4>4 DEF Sound
    <3>11. PICK u : u = Append(s, t)
      OBVIOUS
    <3>12. CASE runner.at < setup.cells
      <4>1. u = runner'.results /\ n = runner'.at - 1 /\ runner'.pc = "intent"
        BY <1>0, <3>2, <3>5, <3>11, <3>12
      <4>2. Sound(runner.results, runner.at - 1)'
        BY <3>10, <3>11, <4>1 DEF Sound
      <4> QED BY <2>4, <3>1, <3>3, <4>1, <4>2 DEF ResultInv, AtCell, Sent, Closing
    <3>13. CASE ~(runner.at < setup.cells)
      <4>1. u = runner'.results /\ n = setup'.cells /\ runner'.pc = "report"
        BY <1>0, <2>1, <3>2, <3>5, <3>11, <3>13
      <4>2. Sound(runner.results, setup.cells)'
        BY <3>10, <3>11, <4>1 DEF Sound
      <4> QED BY <2>4, <3>1, <3>3, <4>1, <4>2 DEF ResultInv, AtCell, Sent, Closing
    <3> QED BY <3>12, <3>13
  <2>14. CASE WriteReport
    <3>1. UNCHANGED world /\ reported' = runner.results /\ disk' = Write(Report)
      BY <2>14 DEF WriteReport
    <3>2. runner.pc = "report" /\ runner'.pc = "manifest" /\ runner'.at = runner.at
          /\ runner'.results = runner.results
      BY <2>14, Moves DEF Moved
    <3>3. disk'[Report] > 0
      BY <2>2, <3>1, Written
    <3>4. Sound(runner.results, setup.cells)'
      BY <2>5, <3>1, <3>2
    <3>5. Sound(reported, setup.cells)'
      BY <3>1, <3>2, <3>4 DEF Sound
    <3> QED BY <3>2, <3>3, <3>5 DEF ResultInv, AtCell, Sent, Closing
  <2>15. CASE WriteManifest \/ BeginStaging \/ RewriteReport
    <3>1. UNCHANGED <<world, reported>>
      BY <2>15 DEF WriteManifest, BeginStaging, RewriteReport
    <3>2. /\ runner.pc \in {"manifest", "stage", "rewrite"} /\ runner'.pc \in {"stage", "verify", "done"}
      BY <2>15, Moves
    <3>3. disk[Report] > 0 /\ disk'[Report] > 0
      BY <2>3, <3>2 DEF ResultInv, Closing
    <3> QED BY <2>4, <3>1, <3>2, <3>3 DEF ResultInv, AtCell, Sent, Closing
  <2> QED BY <1>2, <2>6, <2>7, <2>8, <2>9, <2>10, <2>11, <2>12, <2>13, <2>14, <2>15 DEF Next, Runner, Others
<1> QED BY <1>1, <1>2

LEMMA InitResults == Init => ResultInv
<1> SUFFICES ASSUME Init PROVE ResultInv
  OBVIOUS
<1>1. disk[Report] = 0 /\ runner.pc = "idle"
  BY PathsOfRun DEF Init, Idle
<1> QED BY <1>1 DEF ResultInv, AtCell, Sent, Closing

(* A report lists each planned cell once, with what its ledger row, its    *)
(* request, its reply and its record back, whatever crashed before it and  *)
(* whatever is edited after it.                                            *)
THEOREM ReportsAreBacked == Spec => []ReportIsBacked
<1>1. ASSUME Typed, ResultInv PROVE ReportIsBacked
  <2> SUFFICES ASSUME disk[Report] > 0
               PROVE  /\ [i \in DOMAIN reported |-> reported[i].cell] = SubSeq(Cells, 1, setup.cells)
                      /\ \A i \in DOMAIN reported : Backed(reported[i])
    BY DEF ReportIsBacked
  <2>1. /\ DOMAIN reported = 1..setup.cells
        /\ \A i \in 1..setup.cells : /\ world.replies[Cells[i]] \in setup.replies
                                     /\ reported[i] = Result(i) /\ Held(reported[i])
    BY <1>1 DEF ResultInv, Sound
  <2>2. ASSUME NEW i \in 1..setup.cells
        PROVE  /\ reported[i].cell = Cells[i]
               /\ reported[i].scored => /\ setup.gold /\ PairHolds(Cells[i])
                                        /\ RunStatus(world.replies[Cells[i]]) = "completed"
                                        /\ world.replies[Cells[i]].text \in {"assertions", "empty list"}
    <3>1. world.replies[Cells[i]] \in Replies /\ Cells[i] \in ToSet(Cells)
      BY <1>1, <2>1, PathsOfCells, SetupsAssumption DEF Typed
    <3>2. PICK r \in Replies, c \in ToSet(Cells) : r = world.replies[Cells[i]] /\ c = Cells[i]
      BY <3>1
    <3>3. reported[i] = TerminalOf(c, r)
      BY <2>1, <3>2 DEF Result
    <3>4. /\ TerminalOf(c, r).cell = c
          /\ TerminalOf(c, r).scored => /\ setup.gold /\ PairHolds(c) /\ RunStatus(r) = "completed"
                                        /\ r.text \in {"assertions", "empty list"}
      BY <1>1, Terminals
    <3> QED BY <3>2, <3>3, <3>4
  <2>3. setup.cells \in 1..Len(Cells) /\ Cells \in Seq(ToSet(Cells))
    BY <1>1, SetupsAssumption, CellsAssumption DEF Typed
  <2>4. [i \in DOMAIN reported |-> reported[i].cell] = SubSeq(Cells, 1, setup.cells)
    <3>1. PICK n : n = setup.cells
      OBVIOUS
    <3>2. SubSeq(Cells, 1, n) = [i \in 1..n |-> Cells[i]]
      BY <2>3, <3>1
    <3> QED BY <2>1, <2>2, <3>1, <3>2
  <2>5. \A i \in DOMAIN reported : Backed(reported[i])
    BY <2>1, <2>2 DEF Backed, Held, Kinds
  <2> QED BY <2>4, <2>5
<1>2. Typed /\ OrderInv /\ [Next]_vars => OrderInv'
  BY OrderStep
<1>3. Typed /\ OrderInv /\ ResultInv /\ [Next]_vars => ResultInv'
  BY ResultStep
<1>4. Typed /\ ResultInv => ReportIsBacked
  BY <1>1
<1> QED BY <1>2, <1>3, <1>4, InitTyped, InitOrder, InitResults, TypeStep, PTL DEF Spec
=============================================================================
