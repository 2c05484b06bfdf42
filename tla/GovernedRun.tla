----------------------------- MODULE GovernedRun -----------------------------
(***************************************************************************)
(* A governed run and its publication: execute_commissioning_run writes    *)
(* its artifacts into a run directory, may stop anywhere and be started    *)
(* again there; somebody adds, commits, ignores or edits files of the      *)
(* directory meanwhile; the verifier, called by the runner on staged files *)
(* and by hand on a commit, looks at one declared file after the other.    *)
(*                                                                         *)
(* The content of a file is its version, 0 while it does not exist; the    *)
(* files written before a send, after it, and around them are one path.    *)
(***************************************************************************)
EXTENDS GovernedCell, SequencesExt

CONSTANTS Cells,       \* cells a plan may hold, in execution order
          Unpaired,    \* those with no control pair (C0)
          NoReply,     \* no request sent yet
          Setups       \* what may happen in a run: [cells, replies, gold, pair]
                       \* and bounds [starts, edits, ignores, adds, commits, checks]

(* A plan holds a cell once.                                               *)
ASSUME CellsAssumption ==
  Cells \in Seq(ToSet(Cells)) /\ \A i, j \in DOMAIN Cells : Cells[i] = Cells[j] => i = j

ASSUME SetupsAssumption ==
  \A s \in Setups : /\ s.cells \in 1..Len(Cells) /\ s.gold \in BOOLEAN /\ s.pair \in BOOLEAN
                    /\ s.replies # {} /\ s.replies \subseteq Replies /\ NoReply \notin s.replies
                    /\ {s.starts, s.edits, s.ignores, s.adds, s.commits, s.checks} \subseteq Nat

Ledger == <<"run", "ledger">>
Plan == <<"run", "plan">>
Report == <<"run", "report">>
CellPath(c, kind) == <<c, kind>>
Paths == {Plan, Ledger, Report}
         \cup {CellPath(c, kind) : c \in ToSet(Cells), kind \in {"request", "raw", "record"}}

(* The order of their names.                                               *)
PathOrder ==
  FlattenSeq([i \in DOMAIN Cells |-> <<CellPath(Cells[i], "request"), CellPath(Cells[i], "raw"),
                                       CellPath(Cells[i], "record")>>])
  \o <<Plan, Ledger, Report>>
Earliest(paths) ==
  LET i == CHOOSE j \in DOMAIN PathOrder :
             PathOrder[j] \in paths /\ \A k \in 1..(j - 1) : PathOrder[k] \notin paths
  IN  PathOrder[i]
Verifiers == {"runner", "cli"}

VARIABLES runner,    \* the running process: pc, cell, reply and results
          disk,      \* version of every path
          rows,      \* terminal rows of the ledger on disk
          manifest,  \* artifact_manifest_hashes.json, a set of <<path, version>>
          claims,    \* the evidence hashes the report on disk names
          reported,  \* the cells the report on disk lists
          git,       \* [adds, index, commits, ignored]
          checks,    \* the verification each verifier is in or ended last
          receipt,   \* the publication receipt on disk
          world,     \* [calls, replies, starts, edits, begun]
          setup      \* what may happen in this run
vars == <<runner, disk, rows, manifest, claims, reported, git, checks, receipt, world, setup>>

Planned == {Cells[i] : i \in 1..setup.cells}

Idle == [pc |-> "idle", at |-> 1, reply |-> NoReply, results |-> <<>>]
NoCheck == [pc |-> "none", staging |-> TRUE, writes |-> FALSE, ref |-> 0, moving |-> FALSE,
            manifest |-> {}, todo |-> {}, bad |-> FALSE, complete |-> FALSE]

Init ==
  /\ runner = Idle /\ disk = [p \in Paths |-> 0] /\ rows = <<>>
  /\ manifest = {} /\ claims = {} /\ reported = <<>>
  /\ git = [adds |-> 0, index |-> disk, commits |-> <<>>, ignored |-> {}]
  /\ checks = [v \in Verifiers |-> NoCheck]
  /\ receipt = [written |-> FALSE, complete |-> FALSE, staging |-> TRUE, ref |-> 0, moving |-> FALSE]
  /\ setup \in Setups
  /\ world = [calls |-> [c \in Planned |-> 0], replies |-> [c \in Planned |-> NoReply],
              starts |-> 0, edits |-> 0, begun |-> 0]

Write(p) == [disk EXCEPT ![p] = @ + 1]
Cell == Cells[runner.at]

(* --- the runner -------------------------------------------------------- *)

PreflightRows == rows = <<>>

(* The ledger directory must be empty, of rows and of its meta file.       *)
Preflight == disk[Ledger] = 0

Start ==
  /\ runner.pc = "idle" /\ world.starts < setup.starts
  /\ world' = [world EXCEPT !.starts = @ + 1]
  /\ IF Preflight
     THEN runner' = [Idle EXCEPT !.pc = "open"] /\ disk' = Write(Plan)
     ELSE UNCHANGED <<runner, disk>>
  /\ UNCHANGED <<rows, manifest, claims, reported, git, checks, receipt, setup>>

OpenLedger ==
  /\ runner.pc = "open"
  /\ disk' = Write(Ledger) /\ runner' = [runner EXCEPT !.pc = "intent"]
  /\ UNCHANGED <<rows, manifest, claims, reported, git, checks, receipt, world, setup>>

(* Packet, receipts, intent and request, before anything is sent.          *)
Intent ==
  /\ runner.pc = "intent"
  /\ disk' = Write(CellPath(Cell, "request")) /\ runner' = [runner EXCEPT !.pc = "invoke"]
  /\ UNCHANGED <<rows, manifest, claims, reported, git, checks, receipt, world, setup>>

Invoke ==
  /\ runner.pc = "invoke"
  /\ \E r \in setup.replies :
       /\ runner' = [runner EXCEPT !.pc = "raw", !.reply = r]
       /\ world' = [world EXCEPT !.calls[Cell] = @ + 1, !.replies[Cell] = r]
  /\ UNCHANGED <<disk, rows, manifest, claims, reported, git, checks, receipt, setup>>

WriteRaw ==
  /\ runner.pc = "raw"
  /\ disk' = Write(CellPath(Cell, "raw")) /\ runner' = [runner EXCEPT !.pc = "terminal"]
  /\ UNCHANGED <<rows, manifest, claims, reported, git, checks, receipt, world, setup>>

PairHolds(c) == c \in Unpaired \/ setup.pair

TerminalOf(cell, reply) ==
  LET kind == ParseKind(RunStatus(reply), reply.text)
  IN  Terminalize(Score(kind, setup.gold), PacketReceipt(cell), ControlReceipt(cell, PairHolds(cell)),
                  cell, "complete", BuildProvenance(TRUE))

Terminal ==
  /\ runner.pc = "terminal"
  /\ rows' = Append(rows, TerminalOf(Cell, runner.reply)) /\ disk' = Write(Ledger)
  /\ runner' = [runner EXCEPT !.pc = "record"]
  /\ UNCHANGED <<manifest, claims, reported, git, checks, receipt, world, setup>>

RecordTerminal ==
  /\ runner.pc = "record"
  /\ disk' = Write(CellPath(Cell, "record"))
  /\ LET results == Append(runner.results, TerminalOf(Cell, runner.reply))
     IN  runner' = IF runner.at < setup.cells
                   THEN [Idle EXCEPT !.pc = "intent", !.at = runner.at + 1, !.results = results]
                   ELSE [runner EXCEPT !.pc = "report", !.results = results]
  /\ UNCHANGED <<rows, manifest, claims, reported, git, checks, receipt, world, setup>>

(* The ledger opened again, its rows admitted; the report names what was   *)
(* sent and received under the hashes taken then.                          *)
WriteReport ==
  /\ runner.pc = "report"
  /\ disk' = Write(Report) /\ reported' = runner.results
  /\ claims' = {<<CellPath(c, kind), 1>> : c \in Planned, kind \in {"request", "raw"}}
  /\ runner' = [runner EXCEPT !.pc = "manifest"]
  /\ UNCHANGED <<rows, manifest, git, checks, receipt, world, setup>>

WriteManifest ==
  /\ runner.pc = "manifest"
  /\ manifest' = {<<p, disk[p]>> : p \in {q \in Paths : disk[q] > 0}}
  /\ runner' = [runner EXCEPT !.pc = "stage"]
  /\ UNCHANGED <<disk, rows, claims, reported, git, checks, receipt, world, setup>>

(* The report is written once more, with what the finalization said.       *)
RewriteReport ==
  /\ runner.pc = "rewrite"
  /\ disk' = Write(Report) /\ runner' = [runner EXCEPT !.pc = "done"]
  /\ UNCHANGED <<rows, manifest, claims, reported, git, checks, receipt, world, setup>>

(* The process dies, or an exception of a call it makes ends it.           *)
Crash ==
  /\ runner.pc \notin {"idle", "done"}
  /\ runner' = Idle /\ checks' = [checks EXCEPT !["runner"] = NoCheck]
  /\ UNCHANGED <<disk, rows, manifest, claims, reported, git, receipt, world, setup>>

(* --- those who share the directory ------------------------------------- *)

Edit(p) ==
  /\ world.edits < setup.edits /\ disk[p] > 0
  /\ disk' = Write(p) /\ world' = [world EXCEPT !.edits = @ + 1]
  /\ UNCHANGED <<runner, rows, manifest, claims, reported, git, checks, receipt, setup>>

Ignore(p) ==
  /\ Cardinality(git.ignored) < setup.ignores
  /\ git' = [git EXCEPT !.ignored = @ \cup {p}]
  /\ UNCHANGED <<runner, disk, rows, manifest, claims, reported, checks, receipt, world, setup>>

Add ==
  /\ git.adds < setup.adds
  /\ git' = [git EXCEPT !.adds = @ + 1, !.index = [p \in Paths |->
               IF p \in git.ignored /\ git.index[p] = 0 THEN 0 ELSE disk[p]]]
  /\ UNCHANGED <<runner, disk, rows, manifest, claims, reported, checks, receipt, world, setup>>

Commit ==
  /\ Len(git.commits) < setup.commits
  /\ git' = [git EXCEPT !.commits = Append(@, git.index)]
  /\ UNCHANGED <<runner, disk, rows, manifest, claims, reported, checks, receipt, world, setup>>

(* --- the verifier ------------------------------------------------------ *)

GitCheckIgnore(p) == p \in git.ignored /\ git.index[p] = 0
GitIsTracked(p) == git.index[p] > 0
GitBlobAtCommit(ref, p) == git.commits[ref][p]
Resolved(k) == IF k.moving THEN Len(git.commits) ELSE k.ref

(* finalize_governed_run with receipts, or verify_publication_only.        *)
Begin(v, staging, writes, ref, moving) ==
  checks' = [checks EXCEPT ![v] =
    [pc |-> "paths", staging |-> staging, writes |-> writes, ref |-> ref, moving |-> moving,
     manifest |-> manifest, todo |-> {d[1] : d \in manifest}, bad |-> FALSE, complete |-> FALSE]]

BeginStaging ==
  /\ runner.pc = "stage" /\ runner' = [runner EXCEPT !.pc = "verify"]
  /\ Begin("runner", TRUE, TRUE, 0, FALSE)
  /\ UNCHANGED <<disk, rows, manifest, claims, reported, git, receipt, world, setup>>

(* Without a manifest there is nothing to verify against: an error.  The   *)
(* ref is a commit, HEAD's by default, or the name of a branch that git    *)
(* resolves at every look, so that it moves with the branch.               *)
BeginByHand(staging, writes, moving) ==
  /\ checks["cli"].pc \in {"none", "ended"} /\ manifest # {}
  /\ world.begun < setup.checks /\ world' = [world EXCEPT !.begun = @ + 1]
  /\ staging \/ git.commits # <<>>
  /\ moving => ~staging
  /\ Begin("cli", staging, writes, Len(git.commits), moving)
  /\ UNCHANGED <<runner, disk, rows, manifest, claims, reported, git, receipt, setup>>

PathHoldsByPresence(v, p) ==
  LET d == CHOOSE e \in checks[v].manifest : e[1] = p
  IN  /\ disk[p] = d[2] /\ ~GitCheckIgnore(p) /\ GitIsTracked(p)
      /\ checks[v].staging \/ GitBlobAtCommit(Resolved(checks[v]), p) > 0

PathHolds(v, p) ==
  LET d == CHOOSE e \in checks[v].manifest : e[1] = p
  IN  /\ disk[p] = d[2] /\ ~GitCheckIgnore(p) /\ GitIsTracked(p)
      /\ checks[v].staging \/ GitBlobAtCommit(Resolved(checks[v]), p) = d[2]

CheckPath(v) ==
  /\ checks[v].pc = "paths"
  /\ \E p \in checks[v].todo :
       /\ p = Earliest(checks[v].todo)
       /\ checks' = [checks EXCEPT ![v].todo = @ \ {p}, ![v].bad = @ \/ ~PathHolds(v, p)]
  /\ UNCHANGED <<runner, disk, rows, manifest, claims, reported, git, receipt, world, setup>>

ClaimsHold(v) == claims \subseteq checks[v].manifest

EndCheck(v) ==
  /\ checks[v].pc = "paths" /\ checks[v].todo = {}
  /\ LET complete == ~checks[v].bad /\ checks[v].manifest # {} /\ ClaimsHold(v)
     IN  /\ checks' = [checks EXCEPT ![v].pc = "ended", ![v].complete = complete]
         /\ receipt' = IF checks[v].writes
                       THEN [written |-> TRUE, complete |-> complete,
                             staging |-> checks[v].staging, ref |-> checks[v].ref,
                             moving |-> checks[v].moving]
                       ELSE receipt
  /\ runner' = IF v = "runner" THEN [runner EXCEPT !.pc = "rewrite"] ELSE runner
  /\ UNCHANGED <<disk, rows, manifest, claims, reported, git, world, setup>>

Runner == Start \/ OpenLedger \/ Intent \/ Invoke \/ WriteRaw \/ Terminal \/ RecordTerminal
          \/ WriteReport \/ WriteManifest \/ BeginStaging \/ RewriteReport
Verify(v) == CheckPath(v) \/ EndCheck(v)
Next ==
  \/ Runner \/ Crash \/ Add \/ Commit
  \/ \E p \in Paths : Edit(p) \/ Ignore(p)
  \/ \E staging, writes, moving \in BOOLEAN : BeginByHand(staging, writes, moving)
  \/ \E v \in Verifiers : Verify(v)
Spec == Init /\ [][Next]_vars

(* --- properties -------------------------------------------------------- *)

(* A verification of a commit that ends complete found every file of the   *)
(* manifest it read in that commit, with the bytes the manifest declares,  *)
(* whatever was edited, added, ignored or committed while it looked; one   *)
(* of a branch, which may move meanwhile, found each of them in a commit   *)
(* the branch named since the verification began; and a receipt that says  *)
(* so for a commit or a branch is of such a verification.                  *)
Named(k) == IF k.moving THEN k.ref..Len(git.commits) ELSE {k.ref}
Found(k, d) == \E i \in Named(k) : git.commits[i][d[1]] = d[2]
InCommit(k, declared) == declared # {} /\ \A d \in declared : Found(k, d)

PublishedIsCommitted ==
  /\ \A v \in Verifiers : checks[v].complete /\ ~checks[v].staging => InCommit(checks[v], checks[v].manifest)
  /\ receipt.written /\ receipt.complete /\ ~receipt.staging => InCommit(receipt, manifest)

(* Whatever crashes and however often the run is started again in its      *)
(* directory, no cell is sent to the model twice, and none is sent before  *)
(* its request is on disk.                                                 *)
InvokedOnce ==
  \A c \in Planned :
    /\ world.calls[c] <= 1
    /\ world.calls[c] = 1 => disk[CellPath(c, "request")] > 0

(* A report lists each planned cell once, as the ledger holds it, with the *)
(* request, the reply and the record on disk; it scores a cell only if the *)
(* reply was a list of assertions, the gold is the frozen one and the      *)
(* cell's packets are matched.                                             *)
Backed(t) ==
  /\ t \in ToSet(rows)
  /\ \A kind \in {"request", "raw", "record"} : disk[CellPath(t.cell, kind)] > 0
  /\ t.scored => /\ setup.gold /\ PairHolds(t.cell)
                 /\ RunStatus(world.replies[t.cell]) = "completed"
                 /\ world.replies[t.cell].text \in {"assertions", "empty list"}

ReportIsBacked ==
  disk[Report] > 0 =>
    /\ [i \in DOMAIN reported |-> reported[i].cell] = SubSeq(Cells, 1, setup.cells)
    /\ \A i \in DOMAIN reported : Backed(reported[i])

(* The comment on the manifest says what it leaves out: itself and the     *)
(* receipts written after the verification.  So once a run has ended, and  *)
(* nobody edited a file, each declared file is as declared.                *)
ManifestIsTrue ==
  runner.pc = "done" /\ world.edits = 0 => \A d \in manifest : disk[d[1]] = d[2]
=============================================================================
