------------------------ MODULE TerminalLedgerProofs ------------------------
(***************************************************************************)
(* Proofs about TerminalLedger for every set of processes, cells and       *)
(* manifests and any number of failures.                                   *)
(***************************************************************************)
EXTENDS TerminalLedger, TLAPS

-----------------------------------------------------------------------------
(* The file only grows.                                                    *)

Grows(f, g) ==
  /\ \A i \in DOMAIN f : i \in DOMAIN g /\ g[i] = f[i]
  /\ CellsOf(f) \subseteq CellsOf(g)

LEMMA ExtendedFile ==
  ASSUME NEW f \in Seq(Piece), NEW c \in Cells, NEW m \in Manifests, NEW part \in WrittenParts
  PROVE  LET g == Extended(f, c, m, part) IN
         /\ g \in Seq(Piece) /\ Grows(f, g)
         /\ CellsOf(g) \subseteq CellsOf(f) \cup {c}
         /\ part # "nothing" => /\ Len(g) \in DOMAIN g /\ g[Len(g)].cell = c
                                /\ Len(g) \notin DOMAIN f
         /\ (\A i \in DOMAIN f : f[i].man = m) => \A i \in DOMAIN g : g[i].man = m
<1> DEFINE r == [cell |-> c, man |-> m, part |-> part]
           g == Extended(f, c, m, part)
<1>1. CASE part = "nothing"
  BY <1>1 DEF Extended, Grows, CellsOf
<1>2. CASE part # "nothing"
  <2>1. r \in Piece /\ g = Append(f, r)
    BY <1>2 DEF Piece, WrittenParts, Extended
  <2>2. /\ g \in Seq(Piece) /\ Len(g) = Len(f) + 1 /\ Len(f) \in Nat
        /\ DOMAIN f = 1..Len(f) /\ DOMAIN g = 1..(Len(f) + 1)
        /\ \A i \in DOMAIN f : g[i] = f[i]
        /\ g[Len(f) + 1] = r
    BY <2>1
  <2> HIDE DEF g
  <2>3. \A i \in DOMAIN f : i \in DOMAIN g
    BY <2>2
  <2>4. \A i \in DOMAIN g : i \in DOMAIN f \/ i = Len(f) + 1
    BY <2>2
  <2>5. Grows(f, g)
    BY <2>2, <2>3 DEF Grows, CellsOf
  <2>6. CellsOf(g) \subseteq CellsOf(f) \cup {c}
    BY <2>2, <2>4 DEF CellsOf
  <2>7. Len(g) \in DOMAIN g /\ g[Len(g)].cell = c /\ Len(g) \notin DOMAIN f
    BY <2>2
  <2>8. (\A i \in DOMAIN f : f[i].man = m) => \A i \in DOMAIN g : g[i].man = m
    BY <2>2, <2>4
  <2> QED BY <2>2, <2>5, <2>6, <2>7, <2>8 DEF g
<1> QED BY <1>1, <1>2

-----------------------------------------------------------------------------
(* Types.                                                                  *)

LEMMA GotoTyped ==
  ASSUME TypeOK, NEW p \in Procs, NEW from, NEW to \in Steps, Goto(p, from, to)
  PROVE  pc' \in [Procs -> Steps]
BY DEF TypeOK, Goto

LEMMA TypeStep == TypeOK /\ [Next]_vars => TypeOK'
<1> SUFFICES ASSUME TypeOK, [Next]_vars PROVE TypeOK'
  OBVIOUS
<1>1. CASE UNCHANGED vars
  <2>1. UNCHANGED diskVars /\ UNCHANGED <<acks, failures>> /\ UNCHANGED procVars
    BY <1>1 DEF vars
  <2> QED BY <2>1 DEF TypeOK, diskVars, procVars
<1>2. ASSUME NEW p \in Procs, NEW m \in Manifests, OpenMeta(p, m) PROVE TypeOK'
  <2>1. pc' \in [Procs -> Steps]
    BY <1>2, GotoTyped DEF OpenMeta, Steps
  <2> QED BY <1>2, <2>1 DEF TypeOK, OpenMeta, diskVars
<1>3. ASSUME NEW p \in Procs, WriteMetaTmp(p) \/ ReplaceMeta(p) PROVE TypeOK'
  <2>1. pc' \in [Procs -> Steps]
    BY <1>3, GotoTyped DEF WriteMetaTmp, ReplaceMeta, Steps
  <2> QED BY <1>3, <2>1 DEF TypeOK, WriteMetaTmp, ReplaceMeta
<1>4. ASSUME NEW p \in Procs, CheckFile(p) \/ CreateFile(p) PROVE TypeOK'
  <2>1. pc' \in [Procs -> Steps]
    BY <1>4, GotoTyped DEF CheckFile, CreateFile, Steps
  <2>2. CASE CheckFile(p)
    BY <2>1, <2>2 DEF TypeOK, CheckFile, diskVars
  <2>3. CASE CreateFile(p)
    <3>1. file' = <<>> /\ <<>> \in Seq(Piece)
      BY <2>3 DEF CreateFile
    <3>2. file' \in Seq(Piece) /\ exists' \in BOOLEAN
      BY <2>3, <3>1 DEF CreateFile
    <3> QED BY <2>1, <2>3, <3>2 DEF TypeOK, CreateFile
  <2> QED BY <1>4, <2>2, <2>3
<1>5. ASSUME NEW p \in Procs, Load(p) \/ LoadFails(p) PROVE TypeOK'
  <2>1. CellsOf(file) \subseteq Cells
    <3>1. file \in Seq(Piece)
      BY DEF TypeOK
    <3>2. \A i \in DOMAIN file : file[i] \in Piece
      BY <3>1
    <3> QED BY <3>2 DEF CellsOf, Piece
  <2>2. pc' \in [Procs -> Steps]
    BY <1>5, GotoTyped DEF Load, LoadFails, Steps
  <2>3. rows' \in [Procs -> SUBSET Cells]
    BY <1>5, <2>1 DEF TypeOK, Load, LoadFails
  <2> QED BY <1>5, <2>2, <2>3 DEF TypeOK, Load, LoadFails, diskVars
<1>6. ASSUME NEW p \in Procs, NEW c \in Cells, RunCell(p, c) PROVE TypeOK'
  BY <1>6 DEF TypeOK, RunCell, Goto, Steps, diskVars
<1>7. ASSUME NEW p \in Procs, Terminalize(p) \/ TerminalizeRaises(p) PROVE TypeOK'
  <2>1. pc' \in [Procs -> Steps]
    BY <1>7, GotoTyped DEF Terminalize, TerminalizeRaises, Steps
  <2>2. cell[p] \in Cells /\ session \in [Procs -> SUBSET Cells]
    BY DEF TypeOK
  <2>3. session' = [session EXCEPT ![p] = @ \cup {cell[p]}] \/ session' = session
    BY <1>7 DEF Terminalize, TerminalizeRaises
  <2>4. session' \in [Procs -> SUBSET Cells]
    BY <2>2, <2>3
  <2> QED BY <1>7, <2>1, <2>4 DEF TypeOK, Terminalize, TerminalizeRaises, diskVars
<1>8. ASSUME NEW p \in Procs, WriteRow(p) PROVE TypeOK'
  <2>1. file' \in Seq(Piece)
    BY <1>8, ExtendedFile DEF TypeOK, WriteRow, WrittenParts
  <2> QED BY <1>8, <2>1 DEF TypeOK, WriteRow, Goto, Steps
<1>9. ASSUME NEW p \in Procs, AckRow(p) PROVE TypeOK'
  BY <1>9 DEF TypeOK, AckRow, Goto, Steps, diskVars
<1>10. ASSUME NEW p \in Procs, NEW part \in WrittenParts, WriteRowFails(p, part) PROVE TypeOK'
  <2>1. file' \in Seq(Piece)
    BY <1>10, ExtendedFile DEF TypeOK, WriteRowFails
  <2> QED BY <1>10, <2>1, LedgerAssumptions DEF TypeOK, WriteRowFails, Goto, Steps
<1>11. ASSUME NEW p \in Procs, Admit(p) PROVE TypeOK'
  BY <1>11 DEF TypeOK, Admit, Integrity, diskVars
<1>12. ASSUME NEW p \in Procs, Crash(p) PROVE TypeOK'
  BY <1>12, LedgerAssumptions DEF TypeOK, Crash, Die, Steps
<1>13. ASSUME NEW p \in Procs, NEW part \in WrittenParts, CrashInWrite(p, part) PROVE TypeOK'
  <2>1. file' \in Seq(Piece)
    BY <1>13, ExtendedFile DEF TypeOK, CrashInWrite
  <2> QED BY <1>13, <2>1, LedgerAssumptions DEF TypeOK, CrashInWrite, Die, Steps
<1> QED
  BY <1>1, <1>2, <1>3, <1>4, <1>5, <1>6, <1>7, <1>8, <1>9, <1>10, <1>11, <1>12, <1>13 DEF Next

(* Every variable of the ledger's model keeps its type.                    *)
THEOREM LedgerTypeCorrect == Spec => []TypeOK
<1>1. Init => TypeOK
  BY LedgerAssumptions DEF Init, TypeOK, Steps
<1> QED BY <1>1, TypeStep, PTL DEF Spec

-----------------------------------------------------------------------------
(* Any number of executors on an existing ledger.  Executors count on rows *)
(* they have loaded, so a cell may be written twice; but each              *)
(* acknowledgement stands on a row of its own.                             *)

TwoRows(c) ==
  \E i, j \in DOMAIN file : i # j /\ file[i].cell = c /\ file[j].cell = c

SharedInv ==
  /\ exists /\ \A p \in Procs : pc[p] # "create"
  /\ \A c \in Cells : acks[c] > 0 => c \in CellsOf(file)
  /\ \A c \in Cells : acks[c] > 1 => TwoRows(c)
  /\ \A p \in Procs : pc[p] = "written" =>
       /\ cell[p] \in CellsOf(file)
       /\ acks[cell[p]] > 0 => TwoRows(cell[p])
  /\ \A p, q \in Procs :
       p # q /\ pc[p] = "written" /\ pc[q] = "written" /\ cell[p] = cell[q] => TwoRows(cell[p])

LEMMA TwoRowsGrow ==
  ASSUME Grows(file, file'), NEW c, TwoRows(c)
  PROVE  TwoRows(c)'
<1>1. PICK i, j \in DOMAIN file : i # j /\ file[i].cell = c /\ file[j].cell = c
  BY DEF TwoRows
<1>2. /\ i \in DOMAIN file' /\ file'[i] = file[i]
      /\ j \in DOMAIN file' /\ file'[j] = file[j]
  BY DEF Grows
<1> QED BY <1>1, <1>2 DEF TwoRows

(* A step that neither writes a row it goes on to acknowledge nor          *)
(* acknowledges one.                                                       *)
Quiet ==
  /\ Grows(file, file') /\ UNCHANGED <<exists, acks>>
  /\ \A q \in Procs : /\ pc'[q] # "create"
                      /\ pc'[q] = "written" => pc[q] = "written" /\ cell'[q] = cell[q]

LEMMA QuietKeeps == SharedInv /\ Quiet => SharedInv'
<1> SUFFICES ASSUME SharedInv, Quiet PROVE SharedInv'
  OBVIOUS
<1>1. \A c : TwoRows(c) => TwoRows(c)'
  BY TwoRowsGrow DEF Quiet
<1>2. CellsOf(file) \subseteq CellsOf(file')
  BY DEF Quiet, Grows
<1> HIDE DEF TwoRows
<1>3. /\ exists' /\ \A p \in Procs : pc'[p] # "create"
      /\ \A c \in Cells : acks'[c] > 0 => c \in CellsOf(file')
  <2>1. exists' /\ \A p \in Procs : pc'[p] # "create"
    BY DEF Quiet, SharedInv
  <2>2. \A c \in Cells : acks'[c] > 0 => c \in CellsOf(file')
    BY <1>2 DEF Quiet, SharedInv
  <2> QED BY <2>1, <2>2
<1>4. \A c \in Cells : acks'[c] > 1 => TwoRows(c)'
  BY <1>1 DEF Quiet, SharedInv
<1>5. ASSUME NEW p \in Procs, pc'[p] = "written"
      PROVE  /\ cell'[p] \in CellsOf(file')
             /\ acks'[cell'[p]] > 0 => TwoRows(cell[p])' 
  BY <1>1, <1>2, <1>5 DEF Quiet, SharedInv
<1>6. ASSUME NEW p \in Procs, NEW q \in Procs,
             p # q, pc'[p] = "written", pc'[q] = "written", cell'[p] = cell'[q]
      PROVE  TwoRows(cell[p])'
  <2>1. /\ pc[p] = "written" /\ pc[q] = "written" 
        /\ cell[p] = cell[q] /\ cell'[p] = cell[p]
    BY <1>6 DEF Quiet
  <2>2. TwoRows(cell[p])
    BY <1>6, <2>1 DEF SharedInv
  <2> QED BY <1>1, <2>1, <2>2
<1> QED BY <1>3, <1>4, <1>5, <1>6 DEF SharedInv

LEMMA SharedWrite ==
  ASSUME TypeOK, SharedInv, NEW p \in Procs, WriteRow(p)
  PROVE  SharedInv'
<1> DEFINE k == cell[p]
<1>0. k \in Cells /\ file \in Seq(Piece) /\ man[p] \in Manifests
  BY DEF TypeOK
<1>1. /\ Grows(file, file')
      /\ Len(file') \in DOMAIN file' /\ file'[Len(file')].cell = k
      /\ Len(file') \notin DOMAIN file
  <2>1. file' = Extended(file, k, man[p], "line") /\ "line" \in WrittenParts
    BY DEF WriteRow, WrittenParts
  <2> QED BY <1>0, <2>1, ExtendedFile
<1>2. /\ UNCHANGED <<exists, acks, cell>> /\ pc[p] = "terminal"
      /\ \A q \in Procs : q # p => pc'[q] = pc[q]
      /\ pc'[p] = "written"
  BY DEF WriteRow, Goto, TypeOK
<1>3. \A c : TwoRows(c) => TwoRows(c)'
  BY <1>1, TwoRowsGrow
<1>4. k \in CellsOf(file) => TwoRows(k)'
  <2>1. ASSUME NEW i \in DOMAIN file, file[i].cell = k PROVE TwoRows(k)'
    BY <1>1, <1>2, <2>1 DEF Grows, TwoRows
  <2> QED BY <2>1 DEF CellsOf
<1>5. CellsOf(file) \subseteq CellsOf(file') /\ k \in CellsOf(file')
  BY <1>1 DEF Grows, CellsOf
<1>6. /\ exists' /\ \A q \in Procs : pc'[q] # "create"
      /\ \A c \in Cells : acks'[c] > 0 => c \in CellsOf(file')
      /\ \A c \in Cells : acks'[c] > 1 => TwoRows(c)'
  BY <1>2, <1>3, <1>5 DEF SharedInv
<1>7. ASSUME NEW q \in Procs, pc'[q] = "written"
      PROVE  /\ cell'[q] \in CellsOf(file')
             /\ acks'[cell'[q]] > 0 => TwoRows(cell[q])'
  <2>1. CASE q = p
    BY <1>0, <1>2, <1>4, <1>5, <2>1 DEF SharedInv
  <2>2. CASE q # p
    BY <1>2, <1>3, <1>5, <1>7, <2>2 DEF SharedInv
  <2> QED BY <2>1, <2>2
<1>8. ASSUME NEW q \in Procs, NEW s \in Procs,
             q # s, pc'[q] = "written", pc'[s] = "written", cell'[q] = cell'[s]
      PROVE  TwoRows(cell[q])'
  <2>1. cell[q] = cell[s] /\ cell' = cell
    BY <1>2, <1>8
  <2>2. CASE q = p \/ s = p
    <3>1. cell[q] = k /\ k \in CellsOf(file)
      BY <1>2, <1>8, <2>1, <2>2 DEF SharedInv
    <3> QED BY <1>4, <2>1, <3>1
  <2>3. CASE q # p /\ s # p
    <3>1. TwoRows(cell[q])
      BY <1>2, <1>8, <2>1, <2>3 DEF SharedInv
    <3> QED BY <1>3, <2>1, <3>1
  <2> QED BY <2>2, <2>3
<1> QED BY <1>6, <1>7, <1>8 DEF SharedInv

LEMMA SharedAck ==
  ASSUME TypeOK, SharedInv, NEW p \in Procs, AckRow(p)
  PROVE  SharedInv'
<1> DEFINE k == cell[p]
<1>1. /\ UNCHANGED <<exists, file, cell>> /\ pc[p] = "written" /\ pc'[p] = "ready"
      /\ \A q \in Procs : q # p => pc'[q] = pc[q]
      /\ k \in Cells /\ acks'[k] = acks[k] + 1
      /\ \A c \in Cells : c # k => acks'[c] = acks[c]
      /\ \A c \in Cells : acks[c] \in Nat
  BY DEF AckRow, Goto, TypeOK, diskVars
<1>2. \A c : TwoRows(c) => TwoRows(c)'
  BY <1>1 DEF TwoRows
<1>3. k \in CellsOf(file) /\ (acks[k] > 0 => TwoRows(k))
  BY <1>1 DEF SharedInv
<1>4. /\ exists' /\ \A q \in Procs : pc'[q] # "create"
      /\ \A c \in Cells : acks'[c] > 0 => c \in CellsOf(file')
  BY <1>1, <1>3 DEF SharedInv
<1>5. ASSUME NEW c \in Cells, acks'[c] > 1 PROVE TwoRows(c)'
  <2>1. CASE c = k
    BY <1>1, <1>2, <1>3, <1>5, <2>1
  <2>2. CASE c # k
    BY <1>1, <1>2, <1>5, <2>2 DEF SharedInv
  <2> QED BY <2>1, <2>2
<1>6. ASSUME NEW q \in Procs, pc'[q] = "written"
      PROVE  /\ cell'[q] \in CellsOf(file')
             /\ acks'[cell'[q]] > 0 => TwoRows(cell[q])'
  <2>1. q # p /\ pc[q] = "written" /\ cell'[q] = cell[q] /\ cell[q] \in Cells
    BY <1>1, <1>6 DEF TypeOK
  <2>2. cell[q] \in CellsOf(file) /\ (acks[cell[q]] > 0 => TwoRows(cell[q]))
    BY <2>1 DEF SharedInv
  <2>3. CASE cell[q] = k
    <3>1. TwoRows(cell[q])
      BY <1>1, <2>1, <2>3 DEF SharedInv
    <3> QED BY <1>1, <1>2, <2>1, <2>2, <3>1
  <2>4. CASE cell[q] # k
    BY <1>1, <1>2, <2>1, <2>2, <2>4
  <2> QED BY <2>3, <2>4
<1>7. ASSUME NEW q \in Procs, NEW s \in Procs,
             q # s, pc'[q] = "written", pc'[s] = "written", cell'[q] = cell'[s]
      PROVE  TwoRows(cell[q])'
  <2>1. pc[q] = "written" /\ pc[s] = "written" /\ cell' = cell
    BY <1>1, <1>7
  <2>2. TwoRows(cell[q])
    BY <1>7, <2>1 DEF SharedInv
  <2> QED BY <1>2, <2>1, <2>2
<1> QED BY <1>4, <1>5, <1>6, <1>7 DEF SharedInv

LEMMA SharedStep == TypeOK /\ SharedInv /\ [Next]_vars => SharedInv'
<1> SUFFICES ASSUME TypeOK, SharedInv, [Next]_vars PROVE SharedInv'
  OBVIOUS
<1>0. Grows(file, file) /\ file \in Seq(Piece)
  BY DEF Grows, TypeOK
<1>1. CASE UNCHANGED vars
  <2>1. UNCHANGED diskVars /\ UNCHANGED acks /\ UNCHANGED procVars
    BY <1>1 DEF vars
  <2>2. Quiet
    BY <1>0, <2>1 DEF Quiet, diskVars, procVars, SharedInv
  <2> QED BY <2>2, QuietKeeps
<1>2. ASSUME NEW p \in Procs, NEW m \in Manifests, OpenMeta(p, m) PROVE SharedInv'
  <2>1. Quiet
    BY <1>0, <1>2 DEF Quiet, OpenMeta, Goto, diskVars, SharedInv, TypeOK
  <2> QED BY <2>1, QuietKeeps
<1>3. ASSUME NEW p \in Procs, WriteMetaTmp(p) \/ ReplaceMeta(p) PROVE SharedInv'
  <2>1. Quiet
    BY <1>0, <1>3 DEF Quiet, WriteMetaTmp, ReplaceMeta, Goto, SharedInv, TypeOK
  <2> QED BY <2>1, QuietKeeps
<1>4. ASSUME NEW p \in Procs, CheckFile(p) \/ CreateFile(p) PROVE SharedInv'
  <2>1. ~CreateFile(p)
    BY DEF CreateFile, Goto, SharedInv
  <2>2. Quiet
    BY <1>0, <1>4, <2>1 DEF Quiet, CheckFile, Goto, diskVars, SharedInv, TypeOK
  <2> QED BY <2>2, QuietKeeps
<1>5. ASSUME NEW p \in Procs, Load(p) \/ LoadFails(p) PROVE SharedInv'
  <2>1. Quiet
    BY <1>0, <1>5 DEF Quiet, Load, LoadFails, Goto, diskVars, SharedInv, TypeOK
  <2> QED BY <2>1, QuietKeeps
<1>6. ASSUME NEW p \in Procs, NEW c \in Cells, RunCell(p, c) PROVE SharedInv'
  <2>1. Quiet
    BY <1>0, <1>6 DEF Quiet, RunCell, Goto, diskVars, SharedInv, TypeOK
  <2> QED BY <2>1, QuietKeeps
<1>7. ASSUME NEW p \in Procs, Terminalize(p) \/ TerminalizeRaises(p) PROVE SharedInv'
  <2>1. Quiet
    BY <1>0, <1>7 DEF Quiet, Terminalize, TerminalizeRaises, Goto, diskVars, SharedInv, TypeOK
  <2> QED BY <2>1, QuietKeeps
<1>8. ASSUME NEW p \in Procs, WriteRow(p) PROVE SharedInv'
  BY <1>8, SharedWrite
<1>9. ASSUME NEW p \in Procs, AckRow(p) PROVE SharedInv'
  BY <1>9, SharedAck
<1>10. ASSUME NEW p \in Procs, NEW part \in WrittenParts, WriteRowFails(p, part)
       PROVE  SharedInv'
  <2>1. Grows(file, file')
    BY <1>10, <1>0, ExtendedFile DEF WriteRowFails, TypeOK
  <2>2. Quiet
    BY <1>10, <2>1 DEF Quiet, WriteRowFails, Goto, SharedInv, TypeOK
  <2> QED BY <2>2, QuietKeeps
<1>11. ASSUME NEW p \in Procs, Admit(p) PROVE SharedInv'
  <2>1. Quiet
    BY <1>0, <1>11 DEF Quiet, Admit, diskVars, SharedInv
  <2> QED BY <2>1, QuietKeeps
<1>12. ASSUME NEW p \in Procs, Crash(p) PROVE SharedInv'
  <2>1. Quiet
    BY <1>0, <1>12 DEF Quiet, Crash, Die, SharedInv, TypeOK
  <2> QED BY <2>1, QuietKeeps
<1>13. ASSUME NEW p \in Procs, NEW part \in WrittenParts, CrashInWrite(p, part)
       PROVE  SharedInv'
  <2>1. Grows(file, file')
    BY <1>13, <1>0, ExtendedFile DEF CrashInWrite, TypeOK
  <2>2. Quiet
    BY <1>13, <2>1 DEF Quiet, CrashInWrite, Die, SharedInv, TypeOK
  <2> QED BY <2>2, QuietKeeps
<1> QED
  BY <1>1, <1>2, <1>3, <1>4, <1>5, <1>6, <1>7, <1>8, <1>9, <1>10, <1>11, <1>12, <1>13 DEF Next

(* On an existing ledger, whatever executors share it and however they     *)
(* fail, a cell that two append_terminal calls were acknowledged for       *)
(* leaves a file no process can load any more.                             *)
THEOREM DoubleAckClosesLedger ==
  ASSUME Existing PROVE Spec => []DoubleAckFailsClosed
<1>1. Init => SharedInv
  BY DEF Init, SharedInv
<1>2. SharedInv => DoubleAckFailsClosed
  BY DEF SharedInv, DoubleAckFailsClosed, TwoRows, Loads, NoDuplicates
<1> QED BY <1>1, <1>2, SharedStep, LedgerTypeCorrect, PTL DEF Spec

-----------------------------------------------------------------------------
(* On an existing ledger the rows an executor counts are rows of the file. *)

RowsOnDisk == \A p \in Procs : rows[p] \subseteq CellsOf(file)

(* A step at which no executor learns of a row.                            *)
LEMMA RowsStay ==
  ASSUME RowsOnDisk, Grows(file, file'), \A q \in Procs : rows'[q] \subseteq rows[q]
  PROVE  RowsOnDisk'
<1> SUFFICES ASSUME NEW q \in Procs PROVE rows'[q] \subseteq CellsOf(file)'
  BY DEF RowsOnDisk
<1>1. rows'[q] \subseteq rows[q] /\ rows[q] \subseteq CellsOf(file)
  BY DEF RowsOnDisk
<1>2. CellsOf(file) \subseteq CellsOf(file)'
  BY DEF Grows, CellsOf
<1> QED BY <1>1, <1>2

LEMMA RowsStep == TypeOK /\ SharedInv /\ RowsOnDisk /\ [Next]_vars => RowsOnDisk'
<1> SUFFICES ASSUME TypeOK, SharedInv, RowsOnDisk, [Next]_vars PROVE RowsOnDisk'
  OBVIOUS
<1>0. Grows(file, file) /\ file \in Seq(Piece) /\ rows \in [Procs -> SUBSET Cells]
  BY DEF Grows, TypeOK
<1>1. CASE UNCHANGED vars
  <2>1. UNCHANGED <<file, rows>>
    BY <1>1 DEF vars, diskVars, procVars
  <2> QED BY <1>0, <2>1, RowsStay
<1>2. ASSUME NEW p \in Procs, NEW m \in Manifests, NEW c \in Cells,
             \/ OpenMeta(p, m) \/ WriteMetaTmp(p) \/ ReplaceMeta(p) \/ CheckFile(p) \/ LoadFails(p)
             \/ RunCell(p, c) \/ Terminalize(p) \/ TerminalizeRaises(p) \/ Admit(p)
      PROVE  RowsOnDisk'
  <2>1. UNCHANGED <<file, rows>>
    BY <1>2 DEF OpenMeta, WriteMetaTmp, ReplaceMeta, CheckFile, LoadFails, RunCell, Terminalize,
                TerminalizeRaises, Admit, diskVars
  <2> QED BY <1>0, <2>1, RowsStay
<1>3. ASSUME NEW p \in Procs, CreateFile(p) PROVE RowsOnDisk'
  BY <1>3 DEF CreateFile, Goto, SharedInv
<1>4. ASSUME NEW p \in Procs, Load(p) PROVE RowsOnDisk'
  <2>1. file' = file /\ rows' = [rows EXCEPT ![p] = CellsOf(file)]
    BY <1>4 DEF Load, diskVars
  <2>2. \A q \in Procs : rows'[q] \subseteq CellsOf(file)
    BY <1>0, <2>1 DEF RowsOnDisk
  <2> QED BY <2>1, <2>2 DEF RowsOnDisk
<1>5. ASSUME NEW p \in Procs, WriteRow(p) PROVE RowsOnDisk'
  <2>1. Grows(file, file')
    BY <1>5, <1>0, ExtendedFile DEF WriteRow, TypeOK, WrittenParts
  <2>2. rows' = rows
    BY <1>5 DEF WriteRow
  <2> QED BY <2>1, <2>2, RowsStay
<1>6. ASSUME NEW p \in Procs, AckRow(p) PROVE RowsOnDisk'
  <2>1. file' = file /\ rows' = [rows EXCEPT ![p] = @ \cup {cell[p]}] /\ pc[p] = "written"
    BY <1>6 DEF AckRow, Goto, diskVars
  <2>2. cell[p] \in CellsOf(file)
    BY <2>1 DEF SharedInv
  <2>3. \A q \in Procs : rows'[q] \subseteq CellsOf(file)
    BY <1>0, <2>1, <2>2 DEF RowsOnDisk
  <2> QED BY <2>1, <2>3 DEF RowsOnDisk
<1>7. ASSUME NEW p \in Procs, NEW part \in WrittenParts, WriteRowFails(p, part) PROVE RowsOnDisk'
  <2>1. Grows(file, file')
    BY <1>7, <1>0, ExtendedFile DEF WriteRowFails, TypeOK
  <2>2. rows' = rows
    BY <1>7 DEF WriteRowFails
  <2> QED BY <2>1, <2>2, RowsStay
<1>8. ASSUME NEW p \in Procs, Crash(p) PROVE RowsOnDisk'
  <2>1. file' = file /\ \A q \in Procs : rows'[q] \subseteq rows[q]
    BY <1>0, <1>8 DEF Crash, Die
  <2> QED BY <1>0, <2>1, RowsStay
<1>9. ASSUME NEW p \in Procs, NEW part \in WrittenParts, CrashInWrite(p, part) PROVE RowsOnDisk'
  <2>1. Grows(file, file')
    BY <1>9, <1>0, ExtendedFile DEF CrashInWrite, TypeOK
  <2>2. \A q \in Procs : rows'[q] \subseteq rows[q]
    BY <1>0, <1>9 DEF CrashInWrite, Die
  <2> QED BY <2>1, <2>2, RowsStay
<1>10. \A p \in Procs : cell[p] \in Cells /\ man[p] \in Manifests
  BY DEF TypeOK
<1> QED
  BY <1>1, <1>2, <1>3, <1>4, <1>5, <1>6, <1>7, <1>8, <1>9, <1>10 DEF Next

(* Only admit gives a verdict of "ok".                                     *)
LEMMA AdmitFindsAll ==
  ASSUME TypeOK, RowsOnDisk, [Next]_vars, NEW p \in Procs, verdict[p] # "ok", verdict'[p] = "ok"
  PROVE  /\ CellsOf(file) = Cells /\ Len(file) = Len(file') /\ NoDuplicates(file) /\ Parses(file)
<1>1. PICK q \in Procs : Admit(q)
  <2>1. ASSUME NEW q \in Procs, Crash(q) \/ \E part \in WrittenParts : CrashInWrite(q, part) PROVE FALSE
    BY <2>1 DEF Crash, CrashInWrite, Die, TypeOK
  <2> QED BY <2>1 DEF Next, vars, procVars, OpenMeta, WriteMetaTmp, ReplaceMeta, CheckFile, CreateFile, Load,
               LoadFails, RunCell, Terminalize, TerminalizeRaises, WriteRow, AckRow, WriteRowFails
<1>2. q = p /\ file' = file
  BY <1>1 DEF Admit, diskVars, TypeOK
<1>3. Integrity(file) = "ok" /\ rows[p] = Cells
  BY <1>1, <1>2 DEF Admit, TypeOK
<1>4. NoDuplicates(file) /\ Parses(file)
  BY <1>3 DEF Integrity
<1>5. CellsOf(file) \subseteq Cells
  <2>1. file \in Seq(Piece)
    BY DEF TypeOK
  <2>2. \A i \in DOMAIN file : file[i] \in Piece
    BY <2>1
  <2> QED BY <2>2 DEF CellsOf, Piece
<1>6. Cells \subseteq CellsOf(file)
  BY <1>3 DEF RowsOnDisk
<1> QED BY <1>2, <1>4, <1>5, <1>6

(* On an existing ledger, whatever executors share it and however they     *)
(* fail, an admission that finds it intact is given when every planned     *)
(* cell has exactly one row on disk, though admit counts rows in memory.   *)
THEOREM AdmissionIsEarned ==
  ASSUME Existing PROVE Spec => AdmittedIsOnDisk
<1>1. Init => SharedInv /\ RowsOnDisk
  BY DEF Init, SharedInv, RowsOnDisk
<1>2. TypeOK /\ RowsOnDisk /\ [Next]_vars =>
        \A p \in Procs : verdict[p] # "ok" /\ verdict'[p] = "ok" =>
          /\ CellsOf(file) = Cells /\ Len(file) = Len(file') /\ NoDuplicates(file)
          /\ Parses(file)
  BY AdmitFindsAll
<1> QED BY <1>1, <1>2, SharedStep, RowsStep, LedgerTypeCorrect, PTL DEF Spec, AdmittedIsOnDisk

-----------------------------------------------------------------------------
(* One executor at a time, crashing and restarting any number of times.    *)

OneProcess == \A p, q \in Procs : p = q

InCell == {"running", "terminal", "written"}
Loaded == {"ready"} \cup InCell
Opened == {"file", "create", "load"} \cup Loaded

(* A cell on disk is one the executor has loaded, or one its session holds *)
(* because the append that wrote it failed late: either stops a second row.*)
Known(p) == CellsOf(file) \subseteq rows[p] \cup session[p]

(* The part of the strengthening about the files.                          *)
FilesInv ==
  /\ ~exists => file = <<>>
  /\ meta = NoManifest => file = <<>>
  /\ \A i \in DOMAIN file : file[i].man = meta
  /\ \A p \in Procs :
       /\ pc[p] \in {"meta", "tmp"} => meta = NoManifest
       /\ pc[p] = "tmp" => metaTmp = man[p]
       /\ pc[p] \in Opened => meta = man[p]
       /\ pc[p] = "create" => ~exists
       /\ pc[p] \in {"load"} \cup Loaded => exists

(* The part about acknowledgements.                                        *)
AcksInv ==
  /\ \A c \in Cells : acks[c] > 0 => acks[c] = 1 /\ c \in CellsOf(file)
  /\ \A p \in Procs :
       /\ pc[p] \in Loaded => Known(p)
       /\ pc[p] = "running" => cell[p] \notin rows[p]
       /\ pc[p] = "terminal" => cell[p] \in session[p] /\ cell[p] \notin CellsOf(file)
       /\ pc[p] = "written" => /\ cell[p] \in session[p] /\ cell[p] \in CellsOf(file)
                               /\ acks[cell[p]] = 0

LedgerInv == FilesInv /\ AcksInv

LEMMA EmptyFile == CellsOf(<<>>) = {} /\ DOMAIN <<>> = {}
BY DEF CellsOf

LEMMA LedgerStep ==
  ASSUME OneProcess, TypeOK, LedgerInv, [Next]_vars
  PROVE  LedgerInv'
<1> USE DEF LedgerInv
<1>0. \A p, q \in Procs : p = q
  BY DEF OneProcess
<1>a. NoManifest \notin Manifests
  BY LedgerAssumptions
<1>1. CASE UNCHANGED vars
  <2>1. UNCHANGED diskVars /\ UNCHANGED acks /\ UNCHANGED procVars
    BY <1>1 DEF vars
  <2>2. FilesInv'
    BY <2>1 DEF diskVars, procVars, FilesInv
  <2>3. AcksInv'
    BY <2>1 DEF diskVars, procVars, AcksInv, Known
  <2> QED BY <2>2, <2>3
<1>2. ASSUME NEW p \in Procs, NEW m \in Manifests, OpenMeta(p, m) PROVE LedgerInv'
  <2>1. FilesInv'
    BY <1>0, <1>2 DEF TypeOK, FilesInv, OpenMeta, Goto, diskVars, Opened, Loaded, InCell
  <2>2. AcksInv'
    BY <1>0, <1>2 DEF TypeOK, AcksInv, Known, OpenMeta, Goto, diskVars, Loaded, InCell
  <2> QED BY <2>1, <2>2
<1>3. ASSUME NEW p \in Procs, WriteMetaTmp(p) PROVE LedgerInv'
  <2>1. FilesInv'
    BY <1>0, <1>3 DEF TypeOK, FilesInv, WriteMetaTmp, Goto, Opened, Loaded, InCell
  <2>2. AcksInv'
    BY <1>0, <1>3 DEF TypeOK, AcksInv, Known, WriteMetaTmp, Goto, Loaded, InCell
  <2> QED BY <2>1, <2>2
<1>4. ASSUME NEW p \in Procs, ReplaceMeta(p) PROVE LedgerInv'
  <2>1. FilesInv'
    <3>1. /\ meta = NoManifest /\ file = <<>> /\ metaTmp = man[p] /\ man[p] \in Manifests
          /\ pc[p] = "tmp"
      BY <1>4 DEF TypeOK, FilesInv, ReplaceMeta, Goto
    <3>2. /\ file' = <<>> /\ exists' = exists /\ man' = man /\ meta' = man[p] 
          /\ pc' = [pc EXCEPT ![p] = "file"]
      BY <1>a, <1>4, <3>1 DEF ReplaceMeta, Goto
    <3> QED BY <1>0, <1>a, <3>1, <3>2, EmptyFile
          DEF TypeOK, FilesInv, Opened, Loaded, InCell
  <2>2. AcksInv'
    BY <1>0, <1>4 DEF TypeOK, AcksInv, Known, ReplaceMeta, Goto, Loaded, InCell
  <2> QED BY <2>1, <2>2
<1>5. ASSUME NEW p \in Procs, CheckFile(p) PROVE LedgerInv'
  <2>1. FilesInv'
    BY <1>0, <1>5 DEF TypeOK, FilesInv, CheckFile, Goto, diskVars, Opened, Loaded, InCell
  <2>2. AcksInv'
    BY <1>0, <1>5 DEF TypeOK, AcksInv, Known, CheckFile, Goto, diskVars, Loaded, InCell
  <2> QED BY <2>1, <2>2
<1>6. ASSUME NEW p \in Procs, CreateFile(p) PROVE LedgerInv'
  <2>1. file = <<>> /\ file' = <<>> /\ CellsOf(file') = {} /\ meta = man[p]
    BY <1>6, EmptyFile DEF FilesInv, CreateFile, Goto, Opened
  <2>2. FilesInv'
    BY <1>0, <1>6, <2>1, EmptyFile
       DEF TypeOK, FilesInv, CreateFile, Goto, Opened, Loaded, InCell
  <2>3. AcksInv'
    BY <1>0, <1>6, <2>1 DEF TypeOK, AcksInv, Known, CreateFile, Goto, Loaded, InCell
  <2> QED BY <2>2, <2>3
<1>7. ASSUME NEW p \in Procs, Load(p) \/ LoadFails(p) PROVE LedgerInv'
  <2>1. FilesInv'
    <3>1. CASE Load(p)
      BY <1>0, <3>1 DEF TypeOK, FilesInv, Load, Goto, diskVars, Opened, Loaded, InCell
    <3>2. CASE LoadFails(p)
      BY <1>0, <3>2 DEF TypeOK, FilesInv, LoadFails, Goto, diskVars, Opened, Loaded, InCell
    <3> QED BY <1>7, <3>1, <3>2
  <2>2. AcksInv'
    BY <1>0, <1>7 DEF TypeOK, AcksInv, Known, Load, LoadFails, Goto, diskVars, Loaded, InCell
  <2> QED BY <2>1, <2>2
<1>8. ASSUME NEW p \in Procs, NEW c \in Cells, RunCell(p, c) PROVE LedgerInv'
  <2>1. FilesInv'
    BY <1>0, <1>8 DEF TypeOK, FilesInv, RunCell, Goto, diskVars, Opened, Loaded, InCell
  <2>2. AcksInv'
    BY <1>0, <1>8 DEF TypeOK, AcksInv, Known, RunCell, Goto, diskVars, Loaded, InCell
  <2> QED BY <2>1, <2>2
<1>9. ASSUME NEW p \in Procs, Terminalize(p) \/ TerminalizeRaises(p) PROVE LedgerInv'
  <2>1. FilesInv'
    BY <1>0, <1>9 DEF TypeOK, FilesInv, Terminalize, TerminalizeRaises, Goto, diskVars, Opened,
                      Loaded, InCell
  <2>2. AcksInv'
    <3>1. CASE Terminalize(p)
      BY <1>0, <3>1 DEF TypeOK, AcksInv, Known, Terminalize, Goto, diskVars, Loaded, InCell
    <3>2. CASE TerminalizeRaises(p)
      BY <1>0, <3>2 DEF TypeOK, AcksInv, Known, TerminalizeRaises, Goto, diskVars, Loaded,
                        InCell
    <3> QED BY <1>9, <3>1, <3>2
  <2> QED BY <2>1, <2>2
<1>b. ASSUME NEW p \in Procs, NEW part \in WrittenParts, pc[p] = "terminal",
             file' = Extended(file, cell[p], man[p], part)
      PROVE  /\ CellsOf(file) \subseteq CellsOf(file')
             /\ CellsOf(file') \subseteq CellsOf(file) \cup {cell[p]}
             /\ part # "nothing" => cell[p] \in CellsOf(file')
             /\ \A i \in DOMAIN file' : file'[i].man = meta
             /\ exists /\ meta = man[p] /\ meta \in Manifests
  <2>1. /\ file \in Seq(Piece) /\ cell[p] \in Cells /\ man[p] \in Manifests
        /\ exists /\ meta = man[p]
    BY <1>b DEF TypeOK, FilesInv, Opened, Loaded, InCell
  <2>2. \A i \in DOMAIN file : file[i].man = man[p]
    BY <2>1 DEF FilesInv
  <2>3. part # "nothing" => cell[p] \in CellsOf(file')
    BY <1>b, <2>1, ExtendedFile DEF CellsOf
  <2>4. /\ Grows(file, file') /\ CellsOf(file') \subseteq CellsOf(file) \cup {cell[p]}
        /\ \A i \in DOMAIN file' : file'[i].man = man[p]
    BY <1>b, <2>1, <2>2, ExtendedFile
  <2> QED BY <2>1, <2>3, <2>4 DEF Grows
<1>10. ASSUME NEW p \in Procs, WriteRow(p) PROVE LedgerInv'
  <2>1. /\ CellsOf(file) \subseteq CellsOf(file')
        /\ CellsOf(file') \subseteq CellsOf(file) \cup {cell[p]}
        /\ cell[p] \in CellsOf(file')
        /\ \A i \in DOMAIN file' : file'[i].man = meta
        /\ exists /\ meta = man[p] /\ meta \in Manifests
    <3>1. /\ file' = Extended(file, cell[p], man[p], "line") /\ pc[p] = "terminal"
          /\ "line" \in WrittenParts
      BY <1>10 DEF WriteRow, Goto, WrittenParts
    <3> QED BY <3>1, <1>b
  <2>2. FilesInv'
    BY <1>0, <1>a, <1>10, <2>1 DEF TypeOK, FilesInv, WriteRow, Goto, Opened, Loaded, InCell
  <2>3. cell[p] \in session[p] /\ cell[p] \notin CellsOf(file) /\ cell[p] \in Cells /\ Known(p)
    BY <1>10 DEF TypeOK, AcksInv, WriteRow, Goto, Loaded, InCell
  <2>4. acks[cell[p]] = 0
    BY <2>3 DEF TypeOK, AcksInv
  <2>5. AcksInv'
    BY <1>0, <1>10, <2>1, <2>3, <2>4 DEF TypeOK, AcksInv, Known, WriteRow, Goto, Loaded, InCell
  <2> QED BY <2>2, <2>5
<1>11. ASSUME NEW p \in Procs, AckRow(p) PROVE LedgerInv'
  <2>1. FilesInv'
    BY <1>0, <1>11 DEF TypeOK, FilesInv, AckRow, Goto, diskVars, Opened, Loaded, InCell
  <2>2. AcksInv'
    <3>1. /\ cell[p] \in CellsOf(file) /\ acks[cell[p]] = 0 /\ Known(p) /\ cell[p] \in Cells
      BY <1>11 DEF TypeOK, AcksInv, AckRow, Goto, Loaded, InCell
    <3>2. \A c \in Cells : acks'[c] > 0 => acks'[c] = 1 /\ c \in CellsOf(file')
      BY <1>11, <3>1 DEF TypeOK, AcksInv, AckRow, diskVars
    <3>3. \A q \in Procs : pc'[q] = "ready" /\ Known(q)'
      BY <1>0, <1>11, <3>1 DEF TypeOK, Known, AckRow, Goto, diskVars
    <3> QED BY <3>2, <3>3 DEF AcksInv
  <2> QED BY <2>1, <2>2
<1>12. ASSUME NEW p \in Procs, NEW part \in WrittenParts, WriteRowFails(p, part)
       PROVE  LedgerInv'
  <2>1. /\ CellsOf(file) \subseteq CellsOf(file')
        /\ CellsOf(file') \subseteq CellsOf(file) \cup {cell[p]}
        /\ \A i \in DOMAIN file' : file'[i].man = meta
        /\ exists /\ meta = man[p] /\ meta \in Manifests
    BY <1>b, <1>12 DEF WriteRowFails, Goto
  <2>2. FilesInv'
    BY <1>0, <1>a, <1>12, <2>1 DEF TypeOK, FilesInv, WriteRowFails, Goto, Opened, Loaded, InCell
  <2>3. cell[p] \in session[p] /\ Known(p)
    BY <1>12 DEF TypeOK, AcksInv, WriteRowFails, Goto, Loaded, InCell
  <2>4. AcksInv'
    BY <1>0, <1>12, <2>1, <2>3 DEF TypeOK, AcksInv, Known, WriteRowFails, Goto, Loaded, InCell
  <2> QED BY <2>2, <2>4
<1>13. ASSUME NEW p \in Procs, Admit(p) PROVE LedgerInv'
  <2>1. FilesInv'
    BY <1>13 DEF FilesInv, Admit, diskVars
  <2>2. AcksInv'
    BY <1>13 DEF AcksInv, Known, Admit, diskVars
  <2> QED BY <2>1, <2>2
<1>14. ASSUME NEW p \in Procs, Crash(p) PROVE LedgerInv'
  <2>1. FilesInv'
    BY <1>0, <1>14 DEF TypeOK, FilesInv, Crash, Die, Opened, Loaded, InCell
  <2>2. AcksInv'
    BY <1>0, <1>14 DEF TypeOK, AcksInv, Known, Crash, Die, Loaded, InCell
  <2> QED BY <2>1, <2>2
<1>15. ASSUME NEW p \in Procs, NEW part \in WrittenParts, CrashInWrite(p, part)
       PROVE  LedgerInv'
  <2>1. /\ CellsOf(file) \subseteq CellsOf(file')
        /\ \A i \in DOMAIN file' : file'[i].man = meta
        /\ exists /\ meta \in Manifests
    BY <1>b, <1>15 DEF CrashInWrite
  <2>2. FilesInv'
    BY <1>0, <1>a, <1>15, <2>1 DEF TypeOK, FilesInv, CrashInWrite, Die, Opened, Loaded, InCell
  <2>3. AcksInv'
    BY <1>0, <1>15, <2>1 DEF TypeOK, AcksInv, Known, CrashInWrite, Die, Loaded, InCell
  <2> QED BY <2>2, <2>3
<1> QED
  BY <1>1, <1>2, <1>3, <1>4, <1>5, <1>6, <1>7, <1>8, <1>9, <1>10, <1>11, <1>12, <1>13, <1>14,
     <1>15 DEF Next

LEMMA LedgerInvariant == ASSUME OneProcess PROVE Spec => []LedgerInv
<1>1. Init => LedgerInv
  BY EmptyFile, LedgerAssumptions
     DEF Init, LedgerInv, FilesInv, AcksInv, Known, Opened, Loaded, InCell
<1>2. TypeOK /\ LedgerInv /\ [Next]_vars => LedgerInv'
  BY LedgerStep
<1> QED BY <1>1, <1>2, LedgerTypeCorrect, PTL DEF Spec

(* With one executor at a time, append_terminal acknowledges a cell at     *)
(* most once over all crashes, failed writes and restarts.                 *)
THEOREM OneProcessAcksOnce == ASSUME OneProcess PROVE Spec => []AckedOnce
<1>1. TypeOK /\ LedgerInv => AckedOnce
  <2> SUFFICES ASSUME TypeOK, LedgerInv, NEW c \in Cells PROVE acks[c] <= 1
    BY DEF AckedOnce
  <2>1. acks[c] \in Nat
    BY DEF TypeOK
  <2>2. acks[c] > 0 => acks[c] = 1
    BY DEF LedgerInv, AcksInv
  <2> QED BY <2>1, <2>2
<1> QED BY <1>1, LedgerInvariant, LedgerTypeCorrect, PTL

(* With one executor at a time, every row of the file carries the manifest *)
(* of the meta file, under whichever manifests the directory is opened.    *)
THEOREM OneProcessOneManifest == ASSUME OneProcess PROVE Spec => []OneManifest
<1>1. LedgerInv => OneManifest
  BY DEF LedgerInv, FilesInv, OneManifest
<1> QED BY <1>1, LedgerInvariant, PTL

(* With one executor at a time, the ledger file is never rewritten or cut  *)
(* short.                                                                  *)
THEOREM OneProcessAppendsOnly == ASSUME OneProcess PROVE Spec => AppendOnly
<1> DEFINE Kept == \A i \in DOMAIN file : i \in DOMAIN file' /\ file'[i] = file[i]
<1>1. ASSUME TypeOK, LedgerInv, Next PROVE Kept
  <2>1. CASE UNCHANGED file
    BY <2>1
  <2>2. ASSUME NEW p \in Procs, CreateFile(p) PROVE Kept
    BY <1>1, <2>2, EmptyFile DEF LedgerInv, FilesInv, CreateFile, Goto
  <2>3. ASSUME NEW p \in Procs, NEW part \in WrittenParts,
               file' = Extended(file, cell[p], man[p], part)
        PROVE  Kept
    <3>1. file \in Seq(Piece) /\ cell[p] \in Cells /\ man[p] \in Manifests
      BY <1>1 DEF TypeOK
    <3>2. Grows(file, file')
      BY <2>3, <3>1, ExtendedFile
    <3> QED BY <3>2 DEF Grows
  <2>4. "line" \in WrittenParts
    BY DEF WrittenParts
  <2> HIDE DEF Kept
  <2> QED
    BY <1>1, <2>1, <2>2, <2>3, <2>4
       DEF Next, OpenMeta, WriteMetaTmp, ReplaceMeta, CheckFile, Load, LoadFails, RunCell,
           Terminalize, TerminalizeRaises, WriteRow, AckRow, WriteRowFails, Admit, Crash,
           CrashInWrite, diskVars
<1>2. TypeOK /\ LedgerInv /\ [Next]_vars => [Kept]_vars
  BY <1>1
<1> QED BY <1>2, LedgerInvariant, LedgerTypeCorrect, PTL DEF Spec, AppendOnly
=============================================================================
