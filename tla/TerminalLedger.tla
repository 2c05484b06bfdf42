--------------------------- MODULE TerminalLedger ---------------------------
(***************************************************************************)
(* The persistent terminal ledger of a commissioning run, an append-only   *)
(* JSONL file bound to a manifest by a meta file, and the executors that   *)
(* terminalize planned cells into it (persistent_terminal_ledger.py,       *)
(* commissioning_executor.py).  An executor is a process: it keeps the     *)
(* rows it has loaded and the session it is filling in memory, and dies    *)
(* with both.                                                              *)
(***************************************************************************)
EXTENDS Naturals, Sequences

CONSTANTS
  Procs,           (* executor processes sharing one ledger directory      *)
  Cells,           (* the planned cells                                    *)
  Manifests, NoManifest,
  Existing,        (* TRUE: the directory already holds an empty ledger    *)
  MaxFailures      (* bound: crashes and failed writes in a behaviour      *)

ASSUME LedgerAssumptions ==
  /\ NoManifest \notin Manifests
  /\ Existing \in BOOLEAN
  /\ MaxFailures \in Nat

VARIABLES
  meta, metaTmp,   (* terminal_ledger.meta.json and its .tmp               *)
  exists, file,    (* terminal_ledger.jsonl, as the pieces written to it   *)
  acks,            (* history: acknowledged append_terminal calls, by cell *)
  failures,
  pc, man, rows, session, cell, verdict      (* per process                *)

diskVars == <<meta, metaTmp, exists, file>>
procVars == <<pc, man, rows, session, cell, verdict>>
vars == <<diskVars, acks, failures, procVars>>

-----------------------------------------------------------------------------
(* The file.  Every write appends a piece: a whole line, a row without its *)
(* newline, or the beginning of a row.  A piece that lacks its newline is  *)
(* glued to the next one.                                                  *)

Piece == [cell : Cells, man : Manifests, part : {"line", "row", "torn"}]

WrittenParts == {"nothing", "torn", "row", "line"}

Extended(f, c, m, part) ==
  IF part = "nothing" THEN f ELSE Append(f, [cell |-> c, man |-> m, part |-> part])

(* json.loads succeeds on every line.                                      *)
Parses(f) ==
  \A i \in DOMAIN f : f[i].part = "line" \/ (i = Len(f) /\ f[i].part = "row")

NoDuplicates(f) == \A i, j \in DOMAIN f : f[i].cell = f[j].cell => i = j

CellsOf(f) == {f[i].cell : i \in DOMAIN f}

(* Mutant of Loads: of two rows of a cell the last one counts.             *)
LoadsLastRow(f, m) == Parses(f) /\ \A i \in DOMAIN f : f[i].man = m

(* _load raises no PersistentLedgerError.                                  *)
Loads(f, m) == Parses(f) /\ NoDuplicates(f) /\ \A i \in DOMAIN f : f[i].man = m

-----------------------------------------------------------------------------
Steps == {"down", "meta", "tmp", "file", "create", "load", "ready", "running", "terminal",
          "written"}

TypeOK ==
  /\ meta \in Manifests \cup {NoManifest} /\ metaTmp \in Manifests \cup {NoManifest}
  /\ exists \in BOOLEAN /\ file \in Seq(Piece)
  /\ acks \in [Cells -> Nat] /\ failures \in 0..MaxFailures
  /\ pc \in [Procs -> Steps] /\ man \in [Procs -> Manifests]
  /\ rows \in [Procs -> SUBSET Cells] /\ session \in [Procs -> SUBSET Cells]
  /\ cell \in [Procs -> Cells]
  /\ verdict \in [Procs -> {"none", "ok", "not_ok", "raised"}]

Init ==
  /\ exists = Existing /\ file = <<>>
  /\ meta \in (IF Existing THEN Manifests ELSE {NoManifest}) /\ metaTmp = NoManifest
  /\ acks = [c \in Cells |-> 0] /\ failures = 0
  /\ pc = [p \in Procs |-> "down"] /\ man \in [Procs -> Manifests]
  /\ rows = [p \in Procs |-> {}] /\ session = [p \in Procs |-> {}]
  /\ cell \in [Procs -> Cells]
  /\ verdict = [p \in Procs |-> "none"]

Goto(p, from, to) == pc[p] = from /\ pc' = [pc EXCEPT ![p] = to]

-----------------------------------------------------------------------------
(* PersistentTerminalLedger.open.                                          *)

(* Mutant of OpenMeta: the meta file's manifest is not compared.           *)
OpenMetaUnbound(p, m) ==
  /\ Goto(p, "down", IF meta = NoManifest THEN "meta" ELSE "file")
  /\ man' = [man EXCEPT ![p] = m]
  /\ UNCHANGED <<diskVars, acks, failures, rows, session, cell, verdict>>

(* A ledger of another manifest is refused (LEDGER_MANIFEST_MISMATCH).     *)
OpenMeta(p, m) ==
  /\ meta \in {NoManifest, m}
  /\ Goto(p, "down", IF meta = NoManifest THEN "meta" ELSE "file")
  /\ man' = [man EXCEPT ![p] = m]
  /\ UNCHANGED <<diskVars, acks, failures, rows, session, cell, verdict>>

(* _write_meta: the .tmp name is the same for every process ...            *)
WriteMetaTmp(p) ==
  /\ Goto(p, "meta", "tmp")
  /\ metaTmp' = man[p]
  /\ UNCHANGED <<meta, exists, file, acks, failures, man, rows, session, cell, verdict>>

(* ... so os.replace may publish another's, or find none.                  *)
ReplaceMeta(p) ==
  /\ Goto(p, "tmp", IF metaTmp = NoManifest THEN "down" ELSE "file")
  /\ meta' = IF metaTmp = NoManifest THEN meta ELSE metaTmp
  /\ metaTmp' = NoManifest
  /\ UNCHANGED <<exists, file, acks, failures, man, rows, session, cell, verdict>>

CheckFile(p) ==
  /\ Goto(p, "file", IF exists THEN "load" ELSE "create")
  /\ UNCHANGED <<diskVars, acks, failures, man, rows, session, cell, verdict>>

(* write_text("") truncates whatever has appeared since CheckFile.         *)
CreateFile(p) ==
  /\ Goto(p, "create", "ready")
  /\ exists' = TRUE /\ file' = <<>>
  /\ UNCHANGED <<meta, metaTmp, acks, failures, man, rows, session, cell, verdict>>

Load(p) ==
  /\ Loads(file, man[p])
  /\ Goto(p, "load", "ready")
  /\ rows' = [rows EXCEPT ![p] = CellsOf(file)]
  /\ UNCHANGED <<diskVars, acks, failures, man, session, cell, verdict>>

(* LEDGER_CORRUPT_LINE, LEDGER_DUPLICATE_ON_DISK or a row of another       *)
(* manifest.                                                               *)
LoadFails(p) ==
  /\ ~Loads(file, man[p])
  /\ Goto(p, "load", "down")
  /\ UNCHANGED <<diskVars, acks, failures, man, rows, session, cell, verdict>>

-----------------------------------------------------------------------------
(* CommissioningExecutor.run_cell.                                         *)

(* Mutant of RunCell: the durable rows are not consulted.                  *)
RunCellUnchecked(p, c) ==
  /\ Goto(p, "ready", "running")
  /\ cell' = [cell EXCEPT ![p] = c]
  /\ UNCHANGED <<diskVars, acks, failures, man, rows, session, verdict>>

(* A cell already in the loaded rows raises before anything is done (so    *)
(* append_terminal, which looks again, never finds it there).              *)
RunCell(p, c) ==
  /\ c \notin rows[p]
  /\ Goto(p, "ready", "running")
  /\ cell' = [cell EXCEPT ![p] = c]
  /\ UNCHANGED <<diskVars, acks, failures, man, rows, session, verdict>>

(* The response is scored and M0LedgerSession.terminalize records it.      *)
Terminalize(p) ==
  /\ cell[p] \notin session[p]
  /\ Goto(p, "running", "terminal")
  /\ session' = [session EXCEPT ![p] = @ \cup {cell[p]}]
  /\ UNCHANGED <<diskVars, acks, failures, man, rows, cell, verdict>>

(* It raises for a cell the session already holds, and for evidence that   *)
(* does not bind to the cell.                                              *)
TerminalizeRaises(p) ==
  /\ Goto(p, "running", "ready")
  /\ UNCHANGED <<diskVars, acks, failures, man, rows, session, cell, verdict>>

(* append_terminal: the line is written and fsynced ...                    *)
WriteRow(p) ==
  /\ Goto(p, "terminal", "written")
  /\ file' = Extended(file, cell[p], man[p], "line")
  /\ UNCHANGED <<meta, metaTmp, exists, acks, failures, man, rows, session, cell, verdict>>

(* Mutant of AckRow: the row is remembered, but not under its cell id.     *)
AckRowUnkeyed(p) ==
  /\ Goto(p, "written", "ready")
  /\ rows' = [rows EXCEPT ![p] = @ \cup {[row |-> cell[p]]}]
  /\ acks' = [acks EXCEPT ![cell[p]] = @ + 1]
  /\ UNCHANGED <<diskVars, failures, man, session, cell, verdict>>

(* ... and only then is the row known in memory and the call acknowledged. *)
AckRow(p) ==
  /\ Goto(p, "written", "ready")
  /\ rows' = [rows EXCEPT ![p] = @ \cup {cell[p]}]
  /\ acks' = [acks EXCEPT ![cell[p]] = @ + 1]
  /\ UNCHANGED <<diskVars, failures, man, session, cell, verdict>>

(* The write raises OSError after any part of the line; the executor       *)
(* lives on.                                                               *)
WriteRowFails(p, part) ==
  /\ failures < MaxFailures /\ failures' = failures + 1
  /\ Goto(p, "terminal", "ready")
  /\ file' = Extended(file, cell[p], man[p], part)
  /\ UNCHANGED <<meta, metaTmp, exists, acks, man, rows, session, cell, verdict>>

(* Mutant of Integrity: a second row for a cell is not looked for.         *)
IntegrityWithoutDuplicates(f) ==
  IF ~Parses(f) THEN "raised" ELSE "ok"

(* verify_integrity on a fresh read of the file: an undecodable line       *)
(* raises JSONDecodeError, which admit does not catch.                     *)
Integrity(f) ==
  IF ~Parses(f) THEN "raised" ELSE IF NoDuplicates(f) THEN "ok" ELSE "not_ok"

(* admit: ledger_integrity_ok of the admission report, from the loaded     *)
(* rows and the file.                                                      *)
Admit(p) ==
  /\ pc[p] = "ready"
  /\ verdict' = [verdict EXCEPT ![p] =
       IF Integrity(file) = "ok" /\ rows[p] # Cells THEN "not_ok" ELSE Integrity(file)]
  /\ UNCHANGED <<diskVars, acks, failures, pc, man, rows, session, cell>>

-----------------------------------------------------------------------------
(* The process dies; in append_terminal, after any part of the line.       *)

Die(p) ==
  /\ failures < MaxFailures /\ failures' = failures + 1
  /\ pc' = [pc EXCEPT ![p] = "down"]
  /\ rows' = [rows EXCEPT ![p] = {}] /\ session' = [session EXCEPT ![p] = {}]
  /\ verdict' = [verdict EXCEPT ![p] = "none"]
  /\ UNCHANGED <<meta, metaTmp, exists, acks, man, cell>>

Crash(p) ==
  /\ pc[p] # "down" /\ Die(p) /\ UNCHANGED file

CrashInWrite(p, part) ==
  /\ pc[p] = "terminal" /\ Die(p)
  /\ file' = Extended(file, cell[p], man[p], part)

Next ==
  \E p \in Procs :
    \/ \E m \in Manifests : OpenMeta(p, m)
    \/ WriteMetaTmp(p) \/ ReplaceMeta(p) \/ CheckFile(p) \/ CreateFile(p)
    \/ Load(p) \/ LoadFails(p)
    \/ \E c \in Cells : RunCell(p, c)
    \/ Terminalize(p) \/ TerminalizeRaises(p) \/ WriteRow(p) \/ AckRow(p)
    \/ \E part \in WrittenParts : WriteRowFails(p, part)
    \/ Admit(p)
    \/ Crash(p) \/ \E part \in WrittenParts : CrashInWrite(p, part)

Spec == Init /\ [][Next]_vars

-----------------------------------------------------------------------------
(* Properties.                                                             *)

(* One process at a time: a cell is acknowledged at most once, however     *)
(* often the executor crashes, fails to write and is restarted.            *)
AckedOnce == \A c \in Cells : acks[c] <= 1

(* One process at a time: nothing that was written is ever rewritten or    *)
(* truncated ("No silent truncate/overwrite").                             *)
AppendOnly == [][\A i \in DOMAIN file : i \in DOMAIN file' /\ file'[i] = file[i]]_vars

(* One process at a time: every row belongs to the manifest the meta file  *)
(* binds the ledger to, under whichever manifest it was opened.            *)
OneManifest == \A i \in DOMAIN file : file[i].man = meta

(* An admission report that finds the ledger intact was written when the   *)
(* file held each planned cell exactly once, even though it counts cells   *)
(* in memory and reads the file only for duplicates.                       *)
AdmittedIsOnDisk ==
  [][\A p \in Procs : verdict[p] # "ok" /\ verdict'[p] = "ok" =>
       /\ CellsOf(file) = Cells /\ Len(file) = Len(file') /\ NoDuplicates(file)
       /\ Parses(file)]_vars

(* Two executors on one ledger can both be told that they terminalized the *)
(* same cell, since each checks only the rows it loaded; from then on the  *)
(* ledger fails closed: nobody can open it again.                          *)
DoubleAckFailsClosed ==
  \A c \in Cells : acks[c] > 1 => \A m \in Manifests : ~Loads(file, m)

(* "Crash-safe append", "Survives process restart": an acknowledged append *)
(* leaves a ledger that the next process can open.                         *)
AckLeavesLoadable == [][\A p \in Procs : AckRow(p) => Loads(file, man[p])]_vars
=============================================================================
