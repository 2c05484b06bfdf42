------------------------- MODULE HarnessPilotProofs -------------------------
(***************************************************************************)
(* Proofs about HarnessPilot and HarnessGates for any arms, benches, limits *)
(* and number of samples, against any provider changes and bench failures. *)
(***************************************************************************)
EXTENDS HarnessPilot, FiniteSetTheorems, TLAPS

-----------------------------------------------------------------------------
(* The gate chain.                                                         *)

GateNames == {"lint", "compile", "sanitize", "cbmc", "vectors", "budget"}

LEMMA GatesInOrder ==
  /\ DOMAIN Gates = 1..6 /\ \A i \in 1..6 : Gates[i] \in GateNames
  /\ \A g \in GateNames : \E i \in 1..6 : Gates[i] = g
<1>1. /\ Gates[1] = "lint" /\ Gates[2] = "compile" /\ Gates[3] = "sanitize" /\ Gates[4] = "cbmc"
      /\ Gates[5] = "vectors" /\ Gates[6] = "budget" /\ DOMAIN Gates = 1..6
  BY DEF Gates
<1> QED BY <1>1 DEF GateNames

LEMMA GateOf ==
  ASSUME NEW b
  PROVE  /\ Gate("lint", b) = Lint(b) /\ Gate("compile", b) = Compile(b)
         /\ Gate("sanitize", b) = Sanitize(b) /\ Gate("cbmc", b) = Cbmc(b)
         /\ Gate("vectors", b) = Vectors(b) /\ Gate("budget", b) = Budget(b)
BY DEF Gate

(* The vectors of a packet's own that a candidate gets wrong.              *)
Missed(b) == {v \in Select(b.weak) : InDomain(v)} \cap b.wrong

(* What a run of the vectors on the device says.                           *)
LEMMA VectorRuns ==
  ASSUME NEW b \in Bench, NEW ssh \in Ssh
  PROVE  /\ VectorRun(b, ssh) = "pass" <=> ssh = "answered" /\ Missed(b) = {}
         /\ VectorRun(b, ssh) = "fail" <=> ssh = "answered" /\ Missed(b) # {}
         /\ VectorRun(b, ssh) \in {"pass", "fail", "infra"}
<1>1. CASE ssh = "torn"
  BY <1>1 DEF VectorRun, VectorCheck, OnDevice
<1>2. CASE ssh = "unreachable"
  BY <1>2 DEF VectorRun, VectorCheck, OnDevice
<1>3. CASE ssh = "answered"
  BY <1>3 DEF VectorRun, VectorCheck, OnDevice, DriverExit, Missed
<1> QED BY <1>1, <1>2, <1>3 DEF Ssh

LEMMA CbmcOutcomes ==
  ASSUME NEW b \in Bench
  PROVE  /\ Cbmc(b) \in {"pass", "skipped"} <=>
              b.kernel = "intractable" \/ (b.kernel = "tractable" /\ b.cbmc = "successful")
         /\ Cbmc(b) = "fail" <=> b.kernel = "tractable" /\ b.cbmc \in {"failure", "timeout", "no verdict"}
         /\ Cbmc(b) \in {"pass", "skipped", "fail", "infra"}
BY DEF Cbmc, Bench

LEMMA CyclesOutcomes ==
  ASSUME NEW b \in Bench
  PROVE  /\ Cycles(b) = "infra" \/ (/\ b.pair /\ b.base = "clean" /\ b.time = "clean"
                                    /\ Cycles(b) = b.ratio)
         /\ Cycles(b) \in {"infra", "within", "above"}
BY DEF Cycles, Measure, Bench, Timings

LEMMA SizesOutcomes ==
  ASSUME NEW b \in Bench
  PROVE  SizesMet(b) <=> /\ "text" \in b.caps => b.text = "within"
                         /\ "stack" \in b.caps => b.stack = "within"
BY DEF SizesMet, Bench

LEMMA BudgetOutcomes ==
  ASSUME NEW b \in Bench
  PROVE  /\ Budget(b) \in {"pass", "fail", "infra"}
         /\ Budget(b) = "pass" =>
              /\ b.caps # {} => b.build = "built"
              /\ "text" \in b.caps => b.text = "within"
              /\ "stack" \in b.caps => b.stack = "within"
              /\ "cycles" \in b.caps => /\ b.pair /\ b.base = "clean" /\ b.time = "clean"
                                        /\ b.ratio = "within"
         /\ Budget(b) = "fail" =>
              \/ b.caps # {} /\ b.build = "broken"
              \/ "text" \in b.caps /\ b.text # "within"
              \/ "stack" \in b.caps /\ b.stack # "within"
              \/ "cycles" \in b.caps /\ b.ratio = "above"
BY CyclesOutcomes, SizesOutcomes, ZenonT(30) DEF Budget, Bench

(* A candidate that passed the chain has shown all its packet declares.    *)
LEMMA AcceptedMeets ==
  ASSUME NEW b \in Bench, Chain(b).accepted
  PROVE  Meets(b)
<1> DEFINE stop == {i \in DOMAIN Gates : Gate(Gates[i], b) \in Stops}
<1>1. b.committed /\ stop = {}
  BY DEF Chain, Faulted, StoppedAt
<1>2. \A g \in GateNames : Gate(g, b) \notin Stops
  BY <1>1, GatesInOrder
<1>3. /\ Lint(b) \notin Stops /\ Compile(b) \notin Stops /\ Sanitize(b) \notin Stops
      /\ Cbmc(b) \notin Stops /\ Vectors(b) \notin Stops /\ Budget(b) \notin Stops
  BY <1>2, GateOf DEF GateNames
<1>4. b.lint /\ b.cc
  BY <1>3 DEF Lint, Compile, Stops
<1>5. b.ssh3 = "answered" /\ b.ssh5 = "answered" /\ Missed(b) = {}
  <2>1. b.ssh3 \in Ssh /\ b.ssh5 \in Ssh
    BY DEF Bench
  <2>2. VectorRun(b, b.ssh3) \notin Stops /\ VectorRun(b, b.ssh5) \notin Stops
    BY <1>3 DEF Sanitize, Vectors
  <2> QED BY <2>1, <2>2, VectorRuns DEF Stops
<1>6. \A v \in Committed : (v \in b.wrong /\ InDomain(v)) => (b.weak /\ v % 2 = 1)
  <2> SUFFICES ASSUME NEW v \in Committed, v \in b.wrong, InDomain(v) PROVE b.weak /\ v % 2 = 1
    OBVIOUS
  <2>1. v \notin Select(b.weak)
    BY <1>5 DEF Missed
  <2>2. v \in Nat
    BY VectorsAssumption DEF Committed
  <2> QED BY <2>1, <2>2 DEF Select
<1>7. b.kernel = "intractable" \/ (b.kernel = "tractable" /\ b.cbmc = "successful")
  BY <1>3, CbmcOutcomes DEF Stops
<1>8. Budget(b) = "pass"
  BY <1>3, BudgetOutcomes DEF Stops
<1> QED BY <1>1, <1>4, <1>5, <1>6, <1>7, <1>8, BudgetOutcomes DEF Meets

(* A candidate that the chain stopped is itself to blame.                  *)
LEMMA StoppedIsGuilty ==
  ASSUME NEW b \in Bench, ~Chain(b).accepted, ~Chain(b).infra
  PROVE  Guilty(b)
<1> DEFINE stop == {i \in DOMAIN Gates : Gate(Gates[i], b) \in Stops}
           i == CHOOSE j \in stop : \A k \in stop : j <= k
<1>1. b.committed /\ stop # {} /\ Gate(Gates[i], b) # "infra"
  BY DEF Chain, Faulted, Accepted, Bench
<1>2. i \in stop
  <2>1. stop \subseteq 1..6
    BY GatesInOrder
  <2>2. \E j \in stop : \A k \in stop : j <= k
    BY <1>1, <2>1
  <2> QED BY <2>2
<1>3. Gate(Gates[i], b) = "fail" /\ Gates[i] \in GateNames
  BY <1>1, <1>2, GatesInOrder DEF Stops
<1> HIDE DEF i
<1>4. CASE Gates[i] \in {"lint", "compile"}
  BY <1>3, <1>4, GateOf DEF Lint, Compile, Guilty
<1>5. CASE Gates[i] \in {"sanitize", "vectors"}
  <2>1. VectorRun(b, b.ssh3) = "fail" \/ VectorRun(b, b.ssh5) = "fail"
    BY <1>3, <1>5, GateOf DEF Sanitize, Vectors
  <2>2. Missed(b) # {}
    <3>1. b.ssh3 \in Ssh /\ b.ssh5 \in Ssh
      BY DEF Bench
    <3> QED BY <2>1, <3>1, VectorRuns
  <2>3. PICK v \in Select(b.weak) : InDomain(v) /\ v \in b.wrong
    BY <2>2 DEF Missed
  <2>4. b.weak => v % 2 = 0
    BY DEF Select
  <2> QED BY <2>3, <2>4 DEF Guilty
<1>6. CASE Gates[i] = "cbmc"
  BY <1>3, <1>6, GateOf, CbmcOutcomes DEF Guilty
<1>7. CASE Gates[i] = "budget"
  BY <1>3, <1>7, GateOf, BudgetOutcomes DEF Guilty
<1> QED BY <1>3, <1>4, <1>5, <1>6, <1>7 DEF GateNames

-----------------------------------------------------------------------------
(* Types.                                                                  *)

InCell == {"barrier", "slot", "generate", "judge"}
Phases == InCell \cup {"open", "close", "gate", "closed", "raised"}
Stopped == {"none"} \cup GateNames
Alias == {"v1", "v2", NoAlias}
Contracts == {"accepted", "rejected", "cannot_evaluate"}

Candidate == [verdict : {"accepted", "rejected", "moved"}, trials : Nat, served : Alias,
              outputs : Outputs \cup {"none"}, met : BOOLEAN, guilty : BOOLEAN]
Receipt == [generator : Generators, packet : Packets, cands : Seq(Candidate), halts : BOOLEAN]
CellState == [scored : Nat, refills : Nat, cands : Seq(Candidate), invalidated : BOOLEAN,
              aborted : BOOLEAN]
CandState == [tries : Nat, fed : Stopped, trace : Seq([fed : Stopped, stopped : Stopped])]
State == [aborts : Nat, invalidated : BOOLEAN, served : [Generators -> Alias]]
World == [alias : [Generators -> {"v1", "v2"}], moves : Nat,
          policy : [Frontier -> {"accepted", "rejected"}]]

Typed ==
  /\ phase \in Phases
  /\ at \in [arm : Nat, gen : Nat, packet : Nat] /\ at.arm \in DOMAIN Arms
  /\ phase \in InCell => at.gen \in DOMAIN GeneratorsOf[Arm] /\ at.packet \in DOMAIN PacketsOf[Arm]
  /\ armState \in State /\ contracts \in [Frontier -> Contracts]
  /\ cells \in Seq(Receipt) /\ cell \in CellState /\ cand \in CandState
  /\ arms \in Seq({"complete", "invalidated", "cannot_evaluate"})
  /\ pilot \in {"running", "halted", "complete"} /\ world \in World

(* What a verdict rests on, and what the next attempt is told.             *)
EarnedInv ==
  /\ ScoredIsEarned
  /\ cand.fed = IF cand.trace = <<>> THEN "none" ELSE cand.trace[Len(cand.trace)].stopped
  /\ Len(cand.trace) <= MaxRepairs

(* The cells of the arm that come before the one in progress.              *)
Pairs(receipts) == {<<receipts[i].generator, receipts[i].packet>> : i \in DOMAIN receipts}
Places == {x \in (DOMAIN GeneratorsOf[Arm]) \X (DOMAIN PacketsOf[Arm]) :
             x[1] < at.gen \/ (x[1] = at.gen /\ x[2] < at.packet)}
Before == {<<GeneratorsOf[Arm][x[1]], PacketsOf[Arm][x[2]]>> : x \in Places}

Counted(receipts) == IsFiniteSet(Pairs(receipts)) /\ Cardinality(Pairs(receipts)) = Len(receipts)

(* All of a generator's samples were served under the name the arm keeps.  *)
Named(cands, name) == \A j \in DOMAIN cands : cands[j].served = name /\ cands[j].served # NoAlias

CellsInv ==
  /\ phase \in InCell =>
       /\ Pairs(cells) = Before /\ Counted(cells) /\ ~Halted /\ ~armState.invalidated
       /\ \A i \in DOMAIN cells : WholeCell(cells[i])
       /\ cell.scored = Len(cell.cands) /\ cell.scored < NSamples
       /\ ~cell.invalidated /\ ~cell.aborted
       /\ \A j \in DOMAIN cell.cands : cell.cands[j].verdict # "moved"
       /\ Named(cell.cands, armState.served[Gen])
  /\ phase = "judge" => armState.served[Gen] # NoAlias
  /\ phase \in InCell \cup {"close"} => \A i \in DOMAIN cells : Named(cells[i].cands, armState.served[cells[i].generator])
  /\ phase = "close" =>
       \/ Halted
       \/ /\ Pairs(cells) = Expected(Arm) /\ Counted(cells)
          /\ \A i \in DOMAIN cells : WholeCell(cells[i])
  /\ phase \in {"open", "barrier", "close", "gate"} => cell = NewCell

(* The arms closed so far.                                                 *)
ArmsInv ==
  /\ phase \in InCell \cup {"open", "close"} => Len(arms) = at.arm - 1
  /\ phase = "gate" => at.arm = 1 /\ arms = <<"complete">>
  /\ phase = "closed" => Len(arms) = at.arm
  /\ CompleteIsWhole

-----------------------------------------------------------------------------
(* Operators.                                                              *)

Verdicts == [accepted : BOOLEAN, infra : BOOLEAN, stopped : Stopped]

LEMMA JudgementsAreSound ==
  ASSUME NEW j \in Judgements
  PROVE  /\ j.chain \in Verdicts /\ j.met \in BOOLEAN /\ j.guilty \in BOOLEAN
         /\ j.chain.accepted => j.met
         /\ ~j.chain.accepted /\ ~j.chain.infra => j.guilty
<1>1. PICK b \in Benches : j = [chain |-> Chain(b), after |-> PostAccept(b), met |-> Meets(b), guilty |-> Guilty(b)]
  BY DEF Judgements
<1>2. b \in Bench
  BY BenchesAssumption
<1>3. Meets(b) \in BOOLEAN /\ Guilty(b) \in BOOLEAN
  BY DEF Meets, Guilty
<1>4. Chain(b) \in Verdicts
  <2> DEFINE stop == {i \in DOMAIN Gates : Gate(Gates[i], b) \in Stops}
             i == CHOOSE j2 \in stop : \A k \in stop : j2 <= k
  <2>1. stop # {} => i \in stop
    <3>1. stop \subseteq 1..6
      BY GatesInOrder
    <3>2. stop # {} => \E m \in stop : \A k \in stop : m <= k
      BY <3>1
    <3> QED BY <3>2
  <2>2. stop # {} => Gates[i] \in GateNames
    BY <2>1, GatesInOrder
  <2>3. Chain(b) = Faulted \/ Chain(b) = Accepted \/ (stop # {} /\ Chain(b) = StoppedAt(Gates[i]))
    BY DEF Chain
  <2>4. Chain(b) = Faulted \/ Chain(b) = Accepted \/ \E g \in GateNames : Chain(b) = StoppedAt(g)
    BY <2>2, <2>3
  <2>5. Faulted \in Verdicts /\ Accepted \in Verdicts /\ \A g \in GateNames : StoppedAt(g) \in Verdicts
    BY DEF Faulted, Accepted, StoppedAt, Verdicts, Stopped
  <2> HIDE DEF i, stop
  <2> QED BY <2>4, <2>5
<1> QED BY <1>1, <1>2, <1>3, <1>4, AcceptedMeets, StoppedIsGuilty

LEMMA ArmLists ==
  ASSUME Typed
  PROVE  /\ Arm \in ArmNames
         /\ GeneratorsOf[Arm] \in Seq(Generators) /\ PacketsOf[Arm] \in Seq(Packets)
         /\ Len(GeneratorsOf[Arm]) \in Nat \ {0} /\ Len(PacketsOf[Arm]) \in Nat \ {0}
         /\ DOMAIN GeneratorsOf[Arm] = 1..Len(GeneratorsOf[Arm])
         /\ DOMAIN PacketsOf[Arm] = 1..Len(PacketsOf[Arm])
         /\ \A i, j \in DOMAIN GeneratorsOf[Arm] : GeneratorsOf[Arm][i] = GeneratorsOf[Arm][j] => i = j
         /\ \A i, j \in DOMAIN PacketsOf[Arm] : PacketsOf[Arm][i] = PacketsOf[Arm][j] => i = j
<1>1. Arm \in ArmNames
  BY DEF Typed, Arm, ArmNames
<1>2. Lists(GeneratorsOf[Arm], Generators) /\ Lists(PacketsOf[Arm], Packets)
  BY <1>1, ArmsAssumption
<1>3. PICK s, t : s = GeneratorsOf[Arm] /\ t = PacketsOf[Arm]
  OBVIOUS
<1>4. s \in Seq(Generators) /\ s # <<>> /\ t \in Seq(Packets) /\ t # <<>>
  BY <1>2, <1>3 DEF Lists
<1>5. Len(s) \in Nat \ {0} /\ Len(t) \in Nat \ {0} /\ DOMAIN s = 1..Len(s) /\ DOMAIN t = 1..Len(t)
  BY <1>4
<1> QED BY <1>1, <1>2, <1>3, <1>4, <1>5 DEF Lists

LEMMA InPlace ==
  ASSUME Typed, phase \in InCell
  PROVE  /\ at.gen \in 1..Len(GeneratorsOf[Arm]) /\ at.packet \in 1..Len(PacketsOf[Arm])
         /\ Gen \in Generators /\ PacketsOf[Arm][at.packet] \in Packets
BY ArmLists DEF Typed, Gen

(* The receipt a cell leaves.                                              *)
Closed(c, state) == [generator |-> Gen, packet |-> PacketsOf[Arm][at.packet],
                     cands |-> c.cands, halts |-> Halts(c, state)]

LEMMA Closes ==
  ASSUME Typed, phase \in InCell, NEW c \in CellState, NEW state \in State, CloseCell(c, state)
  PROVE  /\ cells' = Append(cells, Closed(c, state)) /\ Closed(c, state) \in Receipt
         /\ armState' = state /\ cell' = NewCell /\ cand' = NewCand
         /\ \/ phase' = "close" /\ at' = at /\ (Halts(c, state) \/ LastCell)
            \/ phase' = "barrier" /\ at' = NextCell /\ ~Halts(c, state) /\ ~LastCell
         /\ at' \in [arm : Nat, gen : Nat, packet : Nat] /\ at'.arm = at.arm
         /\ phase' \in InCell => at'.gen \in DOMAIN GeneratorsOf[Arm] /\ at'.packet \in DOMAIN PacketsOf[Arm]
<1>1. /\ cells' = Append(cells, Closed(c, state))
      /\ armState' = state /\ cell' = NewCell /\ cand' = NewCand
      /\ \/ phase' = "close" /\ at' = at /\ (Halts(c, state) \/ LastCell)
         \/ phase' = "barrier" /\ at' = NextCell /\ ~Halts(c, state) /\ ~LastCell
  BY DEF CloseCell, Closed
<1>2. Halts(c, state) \in BOOLEAN
  BY DEF Halts, CellState, State
<1>3. Closed(c, state) \in Receipt
  BY <1>2, InPlace DEF Closed, Receipt, CellState
<1>4. at \in [arm : Nat, gen : Nat, packet : Nat]
  BY DEF Typed
<1>5. PICK ng, np : ng = Len(GeneratorsOf[Arm]) /\ np = Len(PacketsOf[Arm])
  OBVIOUS
<1>6. /\ at.gen \in 1..ng /\ at.packet \in 1..np /\ ng \in Nat \ {0} /\ np \in Nat \ {0}
      /\ DOMAIN GeneratorsOf[Arm] = 1..ng /\ DOMAIN PacketsOf[Arm] = 1..np
  BY <1>5, InPlace, ArmLists
<1>7. CASE at' = at /\ phase' = "close"
  BY <1>1, <1>3, <1>4, <1>7 DEF InCell
<1>8. CASE at' = NextCell /\ phase' = "barrier" /\ ~LastCell
  <2>1. CASE at.packet < np
    <3>1. at' = [at EXCEPT !.packet = at.packet + 1]
      BY <1>5, <1>8, <2>1 DEF NextCell
    <3>2. at'.arm = at.arm /\ at'.gen = at.gen /\ at'.packet = at.packet + 1
          /\ at' \in [arm : Nat, gen : Nat, packet : Nat]
      BY <1>4, <3>1
    <3>3. at'.packet \in 1..np
      BY <1>6, <2>1, <3>2
    <3> QED BY <1>1, <1>3, <1>6, <3>2, <3>3
  <2>2. CASE ~(at.packet < np)
    <3>0. PICK next \in Nat : next = at.gen + 1
      BY <1>6
    <3>1. at' = [at EXCEPT !.gen = next, !.packet = 1]
      BY <1>5, <1>8, <2>2, <3>0 DEF NextCell
    <3>2. at'.arm = at.arm /\ at'.gen = at.gen + 1 /\ at'.packet = 1
          /\ at' \in [arm : Nat, gen : Nat, packet : Nat]
      BY <1>4, <3>0, <3>1
    <3>3. at.packet = np
      BY <1>6, <2>2
    <3>4. at.gen # ng
      BY <1>5, <1>8, <3>3 DEF LastCell
    <3>5. at'.gen \in 1..ng /\ at'.packet \in 1..np
      BY <1>6, <3>2, <3>4
    <3> QED BY <1>1, <1>3, <1>6, <3>2, <3>5
  <2> QED BY <2>1, <2>2
<1> QED BY <1>1, <1>7, <1>8

(* The cell goes on with the next candidate.                               *)
GoesOn(c, state) ==
  cell' = c /\ armState' = state /\ phase' = "slot" /\ cand' = NewCand /\ UNCHANGED <<at, cells>>

LEMMA Aborts ==
  ASSUME Typed, Aborted(armState)
  PROVE  \E c \in CellState, state \in State :
           /\ c.cands = cell.cands /\ c.scored = cell.scored /\ c.aborted = cell.aborted
           /\ state.served = armState.served /\ state.invalidated = armState.invalidated
           /\ \/ c.invalidated /\ CloseCell(c, state)
              \/ c.invalidated = cell.invalidated /\ GoesOn(c, state)
<1>1. cell \in CellState /\ armState \in State
  BY DEF Typed
<1>2. PICK r \in Nat, a \in Nat : r = cell.refills + 1 /\ a = armState.aborts + 1
  BY <1>1 DEF CellState, State
<1>3. PICK c : c = [cell EXCEPT !.refills = r]
  OBVIOUS
<1>4. PICK state : state = [armState EXCEPT !.aborts = a]
  OBVIOUS
<1>5. /\ c \in CellState /\ c.cands = cell.cands /\ c.scored = cell.scored /\ c.aborted = cell.aborted
      /\ c.invalidated = cell.invalidated /\ c.refills = r
  BY <1>1, <1>3 DEF CellState
<1>6. state \in State /\ state.served = armState.served /\ state.invalidated = armState.invalidated
  BY <1>1, <1>4 DEF State
<1>7. c = [cell EXCEPT !.refills = @ + 1] /\ state = CountAbort(armState)
  BY <1>2, <1>3, <1>4 DEF CountAbort
<1>8. CloseCell([c EXCEPT !.invalidated = TRUE], state) \/ GoesOn(c, state)
  BY <1>7 DEF Aborted, GoesOn
<1>9. PICK d : d = [c EXCEPT !.invalidated = TRUE]
  OBVIOUS
<1>10. /\ d \in CellState /\ d.cands = cell.cands /\ d.scored = cell.scored /\ d.aborted = cell.aborted
       /\ d.invalidated
  BY <1>5, <1>9 DEF CellState
<1>11. CloseCell(d, state) \/ GoesOn(c, state)
  BY <1>8, <1>9
<1> QED BY <1>5, <1>6, <1>10, <1>11

LEMMA Scores ==
  ASSUME Typed, NEW record \in Candidate, NEW state \in State, Scored(record, state)
  PROVE  \E c \in CellState :
           /\ c.cands = Append(cell.cands, record) /\ c.scored = cell.scored + 1
           /\ c.invalidated = state.invalidated /\ c.aborted = cell.aborted
           /\ \/ (c.scored = NSamples \/ state.invalidated) /\ CloseCell(c, state)
              \/ c.scored # NSamples /\ ~state.invalidated /\ GoesOn(c, state)
<1>1. cell \in CellState
  BY DEF Typed
<1>2. PICK n, s, v : n = cell.scored + 1 /\ s = Append(cell.cands, record) /\ v = state.invalidated
  OBVIOUS
<1>3. n \in Nat /\ s \in Seq(Candidate) /\ v \in BOOLEAN
  <2>1. cell.scored \in Nat /\ cell.cands \in Seq(Candidate) /\ state.invalidated \in BOOLEAN
    BY <1>1 DEF CellState, State
  <2>2. n \in Nat
    BY <1>2, <2>1
  <2>3. s \in Seq(Candidate)
    BY <1>2, <2>1
  <2> QED BY <1>2, <2>1, <2>2, <2>3
<1>4. PICK c : c = [cell EXCEPT !.cands = s, !.scored = n, !.invalidated = v]
  OBVIOUS
<1>5. c \in CellState /\ c.cands = s /\ c.scored = n /\ c.invalidated = v /\ c.aborted = cell.aborted
  BY <1>1, <1>3, <1>4 DEF CellState
<1>6. c = [cell EXCEPT !.cands = Append(@, record), !.scored = @ + 1, !.invalidated = state.invalidated]
  BY <1>2, <1>4
<1>7. IF c.scored = NSamples \/ state.invalidated THEN CloseCell(c, state) ELSE GoesOn(c, state)
  BY <1>6 DEF Scored, GoesOn
<1> QED BY <1>2, <1>5, <1>7

-----------------------------------------------------------------------------
(* Type correctness.                                                       *)

LEMMA NewTyped ==
  /\ NewCell \in CellState /\ NewCell.cands = <<>> /\ NewCell.scored = 0
  /\ ~NewCell.invalidated /\ ~NewCell.aborted
  /\ NewCand \in CandState /\ NewCand.fed = "none" /\ NewCand.trace = <<>>
  /\ NewArmState \in State /\ ~NewArmState.invalidated
  /\ \A g \in Generators : NewArmState.served[g] = NoAlias
<1>1. <<>> \in Seq(Candidate) /\ <<>> \in Seq([fed : Stopped, stopped : Stopped])
  OBVIOUS
<1>2. NewCell \in CellState /\ NewCell.cands = <<>> /\ NewCell.scored = 0
      /\ ~NewCell.invalidated /\ ~NewCell.aborted
  BY <1>1 DEF NewCell, CellState
<1>3. NewCand \in CandState /\ NewCand.fed = "none" /\ NewCand.trace = <<>>
  BY <1>1 DEF NewCand, CandState, Stopped
<1>4. NewArmState \in State /\ ~NewArmState.invalidated
      /\ \A g \in Generators : NewArmState.served[g] = NoAlias
  BY DEF NewArmState, State, Alias
<1> QED BY <1>2, <1>3, <1>4

LEMMA CellTyped ==
  ASSUME Typed, phase \in InCell, UNCHANGED <<contracts, arms, pilot, world>>,
         NEW c \in CellState, NEW state \in State, CloseCell(c, state) \/ GoesOn(c, state)
  PROVE  Typed'
<1>1. CASE CloseCell(c, state)
  <2>1. cells' \in Seq(Receipt)
    <3>1. cells' = Append(cells, Closed(c, state)) /\ Closed(c, state) \in Receipt
      BY <1>1, Closes
    <3>2. PICK r \in Receipt : r = Closed(c, state)
      BY <3>1
    <3>3. cells' = Append(cells, r) /\ cells \in Seq(Receipt)
      BY <3>1, <3>2 DEF Typed
    <3> QED BY <3>3
  <2>2. phase' \in Phases /\ armState' \in State /\ cell' \in CellState /\ cand' \in CandState
    BY <1>1, Closes, NewTyped DEF Phases, InCell
  <2> QED BY <1>1, <2>1, <2>2, Closes DEF Typed, Arm
<1>2. CASE GoesOn(c, state)
  BY <1>2, NewTyped DEF Typed, GoesOn, Phases, InCell, Arm
<1> QED BY <1>1, <1>2

(* What Generate makes of the arm's state.                                 *)
LEMMA ServedTyped ==
  ASSUME Typed, phase \in InCell
  PROVE  LET state == Served(armState)
         IN  /\ state \in State /\ state.served[Gen] # NoAlias
             /\ state.aborts = armState.aborts /\ state.invalidated = armState.invalidated
             /\ \A g \in Generators : state.served[g] = armState.served[g] \/ armState.served[g] = NoAlias
             /\ [state EXCEPT !.invalidated = TRUE] \in State
             /\ [state EXCEPT !.invalidated = TRUE].served = state.served
             /\ [state EXCEPT !.invalidated = TRUE].invalidated
             /\ armState.served[Gen] = NoAlias => state.served[Gen] = world.alias[Gen]
             /\ armState.served[Gen] # NoAlias => state = armState
<1>1. Gen \in Generators /\ armState \in State /\ world.alias[Gen] \in {"v1", "v2"}
  BY InPlace DEF Typed, World
<1>2. PICK state : state = Served(armState)
  OBVIOUS
<1>3. CASE armState.served[Gen] = NoAlias
  <2>1. PICK f : f = [armState.served EXCEPT ![Gen] = world.alias[Gen]]
    OBVIOUS
  <2>2. f \in [Generators -> Alias] /\ f[Gen] = world.alias[Gen]
        /\ \A g \in Generators : f[g] = armState.served[g] \/ armState.served[g] = NoAlias
    BY <1>1, <1>3, <2>1 DEF State, Alias
  <2>3. state = [armState EXCEPT !.served = f]
    BY <1>2, <1>3, <2>1 DEF Served
  <2>4. /\ state \in State /\ state.served = f /\ state.aborts = armState.aborts
        /\ state.invalidated = armState.invalidated
    BY <1>1, <2>2, <2>3 DEF State
  <2>5. /\ [state EXCEPT !.invalidated = TRUE] \in State
        /\ [state EXCEPT !.invalidated = TRUE].served = state.served
        /\ [state EXCEPT !.invalidated = TRUE].invalidated
    BY <2>4 DEF State
  <2> QED BY <1>1, <1>2, <1>3, <2>2, <2>4, <2>5 DEF NoAlias
<1>4. CASE armState.served[Gen] # NoAlias
  <2>1. state = armState
    BY <1>2, <1>4 DEF Served
  <2>2. /\ [state EXCEPT !.invalidated = TRUE] \in State
        /\ [state EXCEPT !.invalidated = TRUE].served = state.served
        /\ [state EXCEPT !.invalidated = TRUE].invalidated
    BY <1>1, <2>1 DEF State
  <2> QED BY <1>1, <1>2, <1>4, <2>1, <2>2
<1> QED BY <1>3, <1>4

Entry == [fed : Stopped, stopped : Stopped]

LEMMA RecordTyped ==
  ASSUME Typed, phase \in InCell, NEW verdict \in {"accepted", "rejected", "moved"}, NEW trace \in Seq(Entry),
         NEW out \in Outputs \cup {"none"}, NEW j, j.met \in BOOLEAN, j.guilty \in BOOLEAN
  PROVE  LET r == Record(verdict, trace, out, j)
         IN  /\ r \in Candidate /\ r.verdict = verdict /\ r.trials = Len(trace) /\ r.outputs = out
             /\ r.met = j.met /\ r.guilty = j.guilty /\ r.served = armState.served[Gen]
<1>1. armState.served[Gen] \in Alias /\ Len(trace) \in Nat
  BY InPlace DEF Typed, State
<1> QED BY <1>1 DEF Record, Candidate

(* A judged attempt is aborted, scored, or told what stopped it.           *)
Repairs(stopped) ==
  /\ stopped \in Stopped /\ Len(cand.trace) + 1 <= MaxRepairs
  /\ cand' \in CandState /\ cand'.fed = stopped
  /\ cand'.trace = Append(cand.trace, [fed |-> cand.fed, stopped |-> stopped])
  /\ phase' = "generate" /\ UNCHANGED <<at, armState, cells, cell>>

Deserved(r) ==
  /\ r.verdict = "accepted" => r.met /\ r.outputs # "none"
  /\ r.verdict = "rejected" => r.guilty /\ r.trials = Len(cand.trace) + 1 /\ r.trials > MaxRepairs

LEMMA Judged ==
  ASSUME Typed, Judge
  PROVE  /\ phase = "judge" /\ UNCHANGED <<contracts, arms, pilot, world>>
         /\ \/ Aborted(armState)
            \/ \E r \in Candidate : /\ Scored(r, armState) /\ Deserved(r) /\ r.verdict # "moved"
                                    /\ r.served = armState.served[Gen]
            \/ \E stopped \in Stopped : Repairs(stopped)
<1>1. phase = "judge" /\ UNCHANGED <<contracts, arms, pilot, world>>
  BY DEF Judge
<1>2. PICK j \in Judgements, out \in Outputs :
        LET trace == Append(cand.trace, [fed |-> cand.fed, stopped |-> j.chain.stopped])
            rejected == [cand EXCEPT !.trace = trace, !.fed = Feedback(j.chain.stopped)]
        IN IF j.chain.infra \/ (j.chain.accepted /\ j.after = "infra")
           THEN Aborted(armState)
           ELSE IF j.chain.accepted THEN Scored(Record("accepted", trace, out, j), armState)
           ELSE IF Len(trace) > MaxRepairs
           THEN Scored(Record("rejected", trace, "none", j), armState)
           ELSE /\ cand' = rejected /\ phase' = "generate"
                /\ UNCHANGED <<at, armState, cells, cell>>
  BY DEF Judge
<1>3. /\ j.chain \in Verdicts /\ j.met \in BOOLEAN /\ j.guilty \in BOOLEAN
      /\ j.chain.accepted => j.met
      /\ ~j.chain.accepted /\ ~j.chain.infra => j.guilty
  BY JudgementsAreSound
<1>4. j.chain.stopped \in Stopped /\ cand \in CandState /\ out # "none" /\ phase \in InCell
  BY <1>1, <1>3, BenchesAssumption DEF Verdicts, Typed, InCell
<1>5. cand.fed \in Stopped /\ cand.trace \in Seq(Entry)
  BY <1>4 DEF CandState, Entry
<1>6. PICK entry \in Entry : entry = [fed |-> cand.fed, stopped |-> j.chain.stopped]
  BY <1>4, <1>5 DEF Entry
<1>7. PICK trace : trace = Append(cand.trace, entry)
  OBVIOUS
<1>8. trace \in Seq(Entry) /\ Len(trace) = Len(cand.trace) + 1 /\ Len(cand.trace) \in Nat
  BY <1>5, <1>7
<1>9. CASE j.chain.infra \/ (j.chain.accepted /\ j.after = "infra")
  BY <1>1, <1>2, <1>9
<1>10. CASE ~(j.chain.infra \/ (j.chain.accepted /\ j.after = "infra")) /\ j.chain.accepted
  <2>1. PICK r : r = Record("accepted", trace, out, j)
    OBVIOUS
  <2>2. Scored(r, armState)
    BY <1>2, <1>6, <1>7, <1>10, <2>1
  <2>3. r \in Candidate /\ r.verdict = "accepted" /\ r.outputs = out /\ r.met = j.met
        /\ r.served = armState.served[Gen]
    <3>1. PICK v \in {"accepted", "rejected", "moved"} : v = "accepted"
      OBVIOUS
    <3>2. r = Record(v, trace, out, j)
      BY <2>1, <3>1
    <3>3. trace \in Seq(Entry) /\ phase \in InCell /\ out \in Outputs \cup {"none"}
      BY <1>4, <1>8
    <3>4. /\ r \in Candidate /\ r.verdict = v /\ r.outputs = out /\ r.met = j.met
          /\ r.served = armState.served[Gen]
      BY <1>3, <3>1, <3>2, <3>3, RecordTyped
    <3> QED BY <3>1, <3>4
  <2> QED BY <1>1, <1>3, <1>4, <1>10, <2>2, <2>3 DEF Deserved
<1>11. CASE ~j.chain.infra /\ ~j.chain.accepted /\ Len(trace) > MaxRepairs
  <2>1. PICK r : r = Record("rejected", trace, "none", j)
    OBVIOUS
  <2>2. Scored(r, armState)
    BY <1>2, <1>6, <1>7, <1>11, <2>1
  <2>3. r \in Candidate /\ r.verdict = "rejected" /\ r.trials = Len(trace) /\ r.guilty = j.guilty
        /\ r.served = armState.served[Gen]
    <3>1. PICK none \in Outputs \cup {"none"}, v \in {"accepted", "rejected", "moved"} :
            none = "none" /\ v = "rejected"
      OBVIOUS
    <3>2. r = Record(v, trace, none, j)
      BY <2>1, <3>1
    <3>3. trace \in Seq(Entry) /\ phase \in InCell
      BY <1>4, <1>8
    <3>4. /\ r \in Candidate /\ r.verdict = v /\ r.trials = Len(trace)
          /\ r.guilty = j.guilty /\ r.served = armState.served[Gen]
      BY <1>3, <3>1, <3>2, <3>3, RecordTyped
    <3> QED BY <3>1, <3>4
  <2> QED BY <1>1, <1>3, <1>8, <1>11, <2>2, <2>3 DEF Deserved
<1>12. CASE ~j.chain.infra /\ ~j.chain.accepted /\ ~(Len(trace) > MaxRepairs)
  <2>1. /\ cand' = [cand EXCEPT !.trace = trace, !.fed = j.chain.stopped] /\ phase' = "generate"
        /\ UNCHANGED <<at, armState, cells, cell>>
    BY <1>2, <1>6, <1>7, <1>12 DEF Feedback
  <2>2. cand' \in CandState /\ cand'.trace = trace /\ cand'.fed = j.chain.stopped
    BY <1>4, <1>8, <2>1 DEF CandState, Entry
  <2>3. Len(cand.trace) + 1 <= MaxRepairs
    BY <1>8, <1>12, BoundsAssumption
  <2>4. Repairs(j.chain.stopped)
    BY <1>4, <1>6, <1>7, <2>1, <2>2, <2>3 DEF Repairs
  <2> QED BY <1>1, <1>4, <2>4
<1>13. j.chain.infra \in BOOLEAN /\ j.chain.accepted \in BOOLEAN
  BY <1>3 DEF Verdicts
<1> QED BY <1>9, <1>10, <1>11, <1>12, <1>13

(* A generation is served under the arm's name, or the arm is invalid.     *)
Moves(r) ==
  /\ r.verdict = "moved" /\ r.served = armState.served[Gen] /\ r.served # NoAlias
  /\ Scored(r, [armState EXCEPT !.invalidated = TRUE])

LEMMA Generated ==
  ASSUME Typed, Generate
  PROVE  /\ phase = "generate" /\ UNCHANGED <<contracts, arms, pilot, world>>
         /\ \/ /\ armState' = Served(armState) /\ phase' = "judge"
               /\ cand' \in CandState /\ cand'.trace = cand.trace /\ cand'.fed = cand.fed
               /\ UNCHANGED <<at, cells, cell>>
            \/ \E r \in Candidate : Moves(r)
<1>1. phase = "generate" /\ phase \in InCell /\ UNCHANGED <<contracts, arms, pilot, world>>
  BY DEF Generate, InCell
<1>2. PICK state : state = Served(armState)
  OBVIOUS
<1>3. cand \in CandState /\ Gen \in Generators /\ armState \in State
  BY <1>1, InPlace DEF Typed
<1>4. CASE state.served[Gen] = world.alias[Gen]
  <2>1. /\ armState' = Served(armState) /\ phase' = "judge" /\ cand' = [cand EXCEPT !.tries = 0]
        /\ UNCHANGED <<at, cells, cell>>
    BY <1>2, <1>4 DEF Generate
  <2>2. cand' \in CandState /\ cand'.trace = cand.trace /\ cand'.fed = cand.fed
    BY <1>3, <2>1 DEF CandState
  <2> QED BY <1>1, <2>1, <2>2
<1>5. CASE state.served[Gen] # world.alias[Gen]
  <2>1. state = armState /\ armState.served[Gen] # NoAlias
    BY <1>1, <1>2, <1>5, ServedTyped
  <2>2. PICK r : r = Record("moved", cand.trace, "none", Unjudged)
    OBVIOUS
  <2>3. Scored(r, [armState EXCEPT !.invalidated = TRUE])
    BY <1>2, <1>5, <2>1, <2>2 DEF Generate
  <2>4. Unjudged.met \in BOOLEAN /\ Unjudged.guilty \in BOOLEAN /\ cand.trace \in Seq(Entry)
    BY <1>3 DEF Unjudged, CandState, Entry
  <2>5. r \in Candidate /\ r.verdict = "moved" /\ r.served = armState.served[Gen]
    <3>1. PICK none \in Outputs \cup {"none"}, v \in {"accepted", "rejected", "moved"} :
            none = "none" /\ v = "moved"
      OBVIOUS
    <3>2. r = Record(v, cand.trace, none, Unjudged)
      BY <2>2, <3>1
    <3> QED BY <1>1, <2>2, <2>4, <3>1, <3>2, RecordTyped
  <2>6. Moves(r)
    BY <2>1, <2>3, <2>5 DEF Moves
  <2> QED BY <1>1, <2>5, <2>6
<1> QED BY <1>4, <1>5

LEMMA Failed ==
  ASSUME Typed, GenerateFails
  PROVE  /\ phase = "generate" /\ UNCHANGED <<contracts, arms, pilot, world>>
         /\ \/ Aborted(armState)
            \/ /\ cand' \in CandState /\ cand'.trace = cand.trace /\ cand'.fed = cand.fed
               /\ UNCHANGED <<phase, at, armState, cells, cell>>
<1>1. phase = "generate" /\ UNCHANGED <<contracts, arms, pilot, world>>
  BY DEF GenerateFails
<1>2. cand \in CandState
  BY DEF Typed
<1>3. PICK n \in Nat : n = cand.tries + 1
  BY <1>2 DEF CandState
<1>4. CASE ~Aborted(armState)
  <2>1. cand' = [cand EXCEPT !.tries = n] /\ UNCHANGED <<phase, at, armState, cells, cell>>
    BY <1>3, <1>4 DEF GenerateFails
  <2>2. cand' \in CandState /\ cand'.trace = cand.trace /\ cand'.fed = cand.fed
    BY <1>2, <2>1 DEF CandState
  <2> QED BY <1>1, <2>1, <2>2
<1> QED BY <1>1, <1>4

LEMMA Barred ==
  ASSUME Typed, Barrier
  PROVE  /\ phase = "barrier" /\ UNCHANGED <<contracts, arms, pilot, world>>
         /\ \/ \E c \in CellState : c.cands = <<>> /\ c.aborted /\ CloseCell(c, armState)
            \/ phase' = "slot" /\ cell' = NewCell /\ UNCHANGED <<at, armState, cells, cand>>
<1>1. PICK c : c = [NewCell EXCEPT !.aborted = TRUE]
  OBVIOUS
<1>2. c \in CellState /\ c.cands = <<>> /\ c.aborted
  BY <1>1, NewTyped DEF CellState
<1>3. \/ CloseCell(c, armState)
      \/ phase' = "slot" /\ cell' = NewCell /\ UNCHANGED <<at, armState, cells, cand>>
  BY <1>1 DEF Barrier
<1> QED BY <1>2, <1>3 DEF Barrier

(* The steps that are about no cell.                                       *)
LEMMA Between ==
  ASSUME Typed, Next
  PROVE  /\ StartCandidate => /\ phase = "slot" /\ phase' = "generate" /\ cand' = NewCand
                              /\ UNCHANGED <<at, armState, contracts, cells, cell, arms, pilot, world>>
         /\ OpenArm => /\ phase = "open" /\ phase' = "barrier" /\ armState' = NewArmState /\ cells' = <<>>
                       /\ at'.arm = at.arm /\ at'.gen = 1 /\ at'.packet = 1
                       /\ UNCHANGED <<cell, cand, arms, pilot, world>>
         /\ CloseArm => /\ phase = "close" /\ UNCHANGED <<armState, contracts, cells, cell, cand, world>>
                        /\ phase' \in {"gate", "open", "closed"}
         /\ CalibrationGate => /\ phase = "gate" /\ phase' \in {"open", "closed"}
                               /\ UNCHANGED <<armState, contracts, cells, cell, cand, arms, world>>
         /\ Raise => /\ phase \in InCell /\ phase' = "raised"
                     /\ UNCHANGED <<at, armState, contracts, cells, cell, cand, arms, pilot, world>>
         /\ (\E g \in Generators : Repoint(g)) \/ (\E g \in Frontier : ChangeContract(g)) =>
              UNCHANGED <<phase, at, armState, contracts, cells, cell, cand, arms, pilot>>
<1>1. OpenArm => at'.arm = at.arm /\ at'.gen = 1 /\ at'.packet = 1
  BY DEF OpenArm, Typed
<1>2. OpenArm => /\ phase = "open" /\ phase' = "barrier" /\ armState' = NewArmState /\ cells' = <<>>
                 /\ UNCHANGED <<cell, cand, arms, pilot, world>>
  BY DEF OpenArm
<1>3. StartCandidate => /\ phase = "slot" /\ phase' = "generate" /\ cand' = NewCand
                        /\ UNCHANGED <<at, armState, contracts, cells, cell, arms, pilot, world>>
  BY DEF StartCandidate
<1>4. CloseArm => /\ phase = "close" /\ UNCHANGED <<armState, contracts, cells, cell, cand, world>>
                  /\ phase' \in {"gate", "open", "closed"}
  BY DEF CloseArm, ClosePilot
<1>5. CalibrationGate => /\ phase = "gate" /\ phase' \in {"open", "closed"}
                         /\ UNCHANGED <<armState, contracts, cells, cell, cand, arms, world>>
  BY DEF CalibrationGate, ClosePilot
<1>6. Raise => /\ phase \in InCell /\ phase' = "raised"
               /\ UNCHANGED <<at, armState, contracts, cells, cell, cand, arms, pilot, world>>
  BY DEF Raise, InCell
<1>7. (\E g \in Generators : Repoint(g)) \/ (\E g \in Frontier : ChangeContract(g)) =>
        UNCHANGED <<phase, at, armState, contracts, cells, cell, cand, arms, pilot>>
  BY DEF Repoint, ChangeContract
<1> QED BY <1>1, <1>2, <1>3, <1>4, <1>5, <1>6, <1>7

LEMMA TypeStep == Typed /\ [Next]_vars => Typed'
<1> SUFFICES ASSUME Typed, [Next]_vars PROVE Typed'
  OBVIOUS
<1>1. CASE UNCHANGED vars
  BY <1>1 DEF vars, Typed, Arm
<1>2. CASE Next
  <2>1. CASE Barrier
    <3>1. CASE \E c \in CellState : CloseCell(c, armState)
      BY <2>1, <3>1, Barred, CellTyped DEF Typed, InCell
    <3>2. CASE phase' = "slot" /\ cell' = NewCell /\ UNCHANGED <<at, armState, cells, cand>>
      BY <2>1, <3>2, Barred, NewTyped DEF Typed, Phases, InCell, Arm
    <3> QED BY <2>1, <3>1, <3>2, Barred
  <2>2. CASE StartCandidate
    BY <1>2, <2>2, Between, NewTyped DEF Typed, Phases, InCell, Arm
  <2>3. CASE GenerateFails
    <3>1. CASE Aborted(armState)
      <4>1. PICK c \in CellState, state \in State : CloseCell(c, state) \/ GoesOn(c, state)
        BY <3>1, Aborts
      <4> QED BY <2>3, <4>1, Failed, CellTyped DEF InCell
    <3>2. CASE ~Aborted(armState)
      BY <2>3, <3>2, Failed DEF Typed, Arm
    <3> QED BY <3>1, <3>2
  <2>4. CASE Generate
    <3>1. CASE armState' = Served(armState) /\ phase' = "judge" /\ cand' \in CandState
               /\ UNCHANGED <<at, cells, cell>>
      <4>1. armState' \in State
        BY <2>4, <3>1, Generated, ServedTyped DEF InCell
      <4> QED BY <2>4, <3>1, <4>1, Generated DEF Typed, Phases, InCell, Arm
    <3>2. CASE \E r \in Candidate : Moves(r)
      <4>1. PICK r \in Candidate : Scored(r, [armState EXCEPT !.invalidated = TRUE])
        BY <3>2 DEF Moves
      <4>2. PICK state : state = [armState EXCEPT !.invalidated = TRUE]
        OBVIOUS
      <4>3. state \in State
        BY <4>2 DEF Typed, State
      <4>4. PICK c \in CellState : CloseCell(c, state) \/ GoesOn(c, state)
        BY <4>1, <4>2, <4>3, Scores
      <4> QED BY <2>4, <4>3, <4>4, Generated, CellTyped DEF InCell
    <3> QED BY <2>4, <3>1, <3>2, Generated
  <2>5. CASE Judge
    <3>1. CASE Aborted(armState)
      <4>1. PICK c \in CellState, state \in State : CloseCell(c, state) \/ GoesOn(c, state)
        BY <3>1, Aborts
      <4> QED BY <2>5, <4>1, Judged, CellTyped DEF InCell
    <3>2. CASE \E r \in Candidate : Scored(r, armState)
      <4>1. armState \in State
        BY DEF Typed
      <4>2. PICK c \in CellState : CloseCell(c, armState) \/ GoesOn(c, armState)
        BY <3>2, <4>1, Scores
      <4> QED BY <2>5, <4>1, <4>2, Judged, CellTyped DEF InCell
    <3>3. CASE \E stopped \in Stopped : Repairs(stopped)
      BY <2>5, <3>3, Judged DEF Repairs, Typed, Phases, InCell, Arm
    <3> QED BY <2>5, <3>1, <3>2, <3>3, Judged
  <2>6. CASE OpenArm
    <3>1. contracts' \in [Frontier -> Contracts]
      <4>1. contracts' \in Probed
        BY <2>6 DEF OpenArm
      <4> QED BY <4>1 DEF Probed, Classify, Contracts, Typed, World
    <3>2. at' \in [arm : Nat, gen : Nat, packet : Nat] /\ at'.gen \in DOMAIN GeneratorsOf[Arm]
          /\ at'.packet \in DOMAIN PacketsOf[Arm]
      <4>1. at' = [at EXCEPT !.gen = 1, !.packet = 1]
        BY <2>6 DEF OpenArm
      <4>2. at' \in [arm : Nat, gen : Nat, packet : Nat] /\ at'.gen = 1 /\ at'.packet = 1
        BY <4>1 DEF Typed
      <4>3. 1 \in DOMAIN GeneratorsOf[Arm] /\ 1 \in DOMAIN PacketsOf[Arm]
        BY ArmLists
      <4> QED BY <4>2, <4>3
    <3>3. cells' \in Seq(Receipt)
      BY <1>2, <2>6, Between
    <3> QED BY <1>2, <2>6, <3>1, <3>2, <3>3, Between, NewTyped DEF Typed, Phases, InCell, Arm
  <2>7. CASE CloseArm
    <3>1. PICK close \in Probed :
            /\ arms' = Append(arms, ArmState(close))
            /\ \/ ClosePilot("halted") \/ ClosePilot("complete")
               \/ phase' = "gate" /\ UNCHANGED <<at, pilot>>
               \/ at.arm # Len(Arms) /\ phase' = "open" /\ at' = [at EXCEPT !.arm = @ + 1] /\ UNCHANGED pilot
      BY <2>7 DEF CloseArm
    <3>2. PICK state \in {"complete", "invalidated", "cannot_evaluate"} : state = ArmState(close)
      BY DEF ArmState
    <3>3. arms' = Append(arms, state) /\ arms \in Seq({"complete", "invalidated", "cannot_evaluate"})
      BY <3>1, <3>2 DEF Typed
    <3>4. arms' \in Seq({"complete", "invalidated", "cannot_evaluate"})
      BY <3>3
    <3>5. at' \in [arm : Nat, gen : Nat, packet : Nat] /\ at'.arm \in DOMAIN Arms
      <4>1. /\ at \in [arm : Nat, gen : Nat, packet : Nat] /\ at.arm \in 1..Len(Arms) /\ Len(Arms) \in Nat
            /\ DOMAIN Arms = 1..Len(Arms)
        BY ArmsAssumption DEF Typed, Lists
      <4>2. PICK next \in Nat : next = at.arm + 1
        BY <4>1
      <4>3. at' = at \/ (at.arm # Len(Arms) /\ at' = [at EXCEPT !.arm = next])
        BY <3>1, <4>2 DEF ClosePilot
      <4>4. at.arm # Len(Arms) => next \in 1..Len(Arms)
        BY <4>1, <4>2
      <4> QED BY <4>1, <4>3, <4>4
    <3>6. pilot' \in {"running", "halted", "complete"}
      BY <3>1 DEF ClosePilot, Typed
    <3> QED BY <1>2, <2>7, <3>4, <3>5, <3>6, Between DEF Typed, Phases, InCell, Arm
  <2>8. CASE CalibrationGate
    <3>1. at' = at \/ at' = [at EXCEPT !.arm = 2]
      BY <2>8 DEF CalibrationGate, ClosePilot
    <3>2. at' \in [arm : Nat, gen : Nat, packet : Nat] /\ at'.arm \in DOMAIN Arms
      <4>1. at \in [arm : Nat, gen : Nat, packet : Nat] /\ at.arm \in DOMAIN Arms /\ 2 \in DOMAIN Arms
        BY ArmsAssumption DEF Typed, Lists
      <4> QED BY <3>1, <4>1
    <3>3. pilot' \in {"running", "halted", "complete"}
      BY <2>8 DEF CalibrationGate, ClosePilot, Typed
    <3> QED BY <1>2, <2>8, <3>2, <3>3, Between DEF Typed, Phases, InCell, Arm
  <2>9. CASE Raise
    BY <1>2, <2>9, Between DEF Typed, Phases, InCell, Arm
  <2>10. CASE (\E g \in Generators : Repoint(g)) \/ (\E g \in Frontier : ChangeContract(g))
    <3>1. world' \in World
      <4>1. PICK n \in Nat : n = world.moves + 1
        BY DEF Typed, World
      <4>2. world \in World
        BY DEF Typed
      <4>3. ASSUME NEW g \in Generators, Repoint(g) PROVE world' \in World
        <5>1. PICK f : f = [world.alias EXCEPT ![g] = "v2"]
          OBVIOUS
        <5>2. f \in [Generators -> {"v1", "v2"}]
          BY <4>2, <5>1 DEF World
        <5>3. world' = [world EXCEPT !.alias = f, !.moves = n]
          BY <4>1, <4>3, <5>1 DEF Repoint
        <5> QED BY <4>2, <5>2, <5>3 DEF World
      <4>4. ASSUME NEW g \in Frontier, ChangeContract(g) PROVE world' \in World
        <5>1. PICK f : f = [world.policy EXCEPT ![g] = "rejected"]
          OBVIOUS
        <5>2. f \in [Frontier -> {"accepted", "rejected"}]
          BY <4>2, <5>1 DEF World
        <5>3. world' = [world EXCEPT !.policy = f, !.moves = n]
          BY <4>1, <4>4, <5>1 DEF ChangeContract
        <5> QED BY <4>2, <5>2, <5>3 DEF World
      <4> QED BY <2>10, <4>3, <4>4
    <3> QED BY <1>2, <2>10, <3>1, Between DEF Typed, Arm
  <2> QED BY <1>2, <2>1, <2>2, <2>3, <2>4, <2>5, <2>6, <2>7, <2>8, <2>9, <2>10 DEF Next, Steps
<1> QED BY <1>1, <1>2

LEMMA InitTyped == Init => Typed
<1> SUFFICES ASSUME Init PROVE Typed
  OBVIOUS
<1>1. 1 \in DOMAIN Arms
  BY ArmsAssumption DEF Lists
<1>2. cells \in Seq(Receipt) /\ arms \in Seq({"complete", "invalidated", "cannot_evaluate"})
  BY DEF Init
<1>3. world \in World /\ contracts \in [Frontier -> Contracts]
  BY DEF Init, World, Contracts
<1> QED BY <1>1, <1>2, <1>3, NewTyped DEF Init, Typed, Phases, InCell

-----------------------------------------------------------------------------
(* Scored candidates have earned their verdict.                            *)

Earned(r) ==
  /\ r.verdict = "accepted" => r.met /\ r.outputs # "none"
  /\ r.verdict = "rejected" => r.guilty /\ r.trials = MaxRepairs + 1

LEMMA EarnedAll == AcceptedIsProven /\ RejectedIsEarned <=> \A r \in Candidates : Earned(r)
BY DEF AcceptedIsProven, RejectedIsEarned, Earned

(* The candidates of a cell in progress or of a receipt.                   *)
LEMMA InCandidates ==
  ASSUME Typed
  PROVE  /\ \A j \in DOMAIN cell.cands : cell.cands[j] \in Candidates
         /\ \A i \in DOMAIN cells : \A j \in DOMAIN cells[i].cands : cells[i].cands[j] \in Candidates
BY DEF Candidates

(* No candidate comes up but those of the cell.                            *)
LEMMA NoOther ==
  ASSUME Typed, phase \in InCell, NEW c \in CellState, NEW state \in State,
         CloseCell(c, state) \/ GoesOn(c, state)
  PROVE  /\ Candidates' \subseteq Candidates \cup {c.cands[j] : j \in DOMAIN c.cands}
         /\ cand' = NewCand
<1> DEFINE P == Candidates \cup {c.cands[j] : j \in DOMAIN c.cands}
<1>1. CASE CloseCell(c, state)
  <2>1. PICK r \in Receipt : r = Closed(c, state)
    BY <1>1, Closes
  <2>2. cells' = Append(cells, r) /\ cells \in Seq(Receipt) /\ cell' = NewCell /\ cand' = NewCand
    BY <1>1, <2>1, Closes DEF Typed
  <2>3. r.cands = c.cands
    BY <2>1 DEF Closed
  <2>4. /\ \A i \in DOMAIN cells' : i \in DOMAIN cells \/ i = Len(cells) + 1
        /\ \A i \in DOMAIN cells : cells'[i] = cells[i]
        /\ cells'[Len(cells) + 1] = r
    BY <2>2
  <2>5. \A i \in DOMAIN cells' : \A j \in DOMAIN cells'[i].cands : cells'[i].cands[j] \in P
    <3> SUFFICES ASSUME NEW i \in DOMAIN cells', NEW j \in DOMAIN cells'[i].cands
                 PROVE  cells'[i].cands[j] \in P
      OBVIOUS
    <3>1. CASE i \in DOMAIN cells
      BY <2>4, <3>1, InCandidates
    <3>2. CASE i = Len(cells) + 1
      BY <2>3, <2>4, <3>2
    <3> QED BY <2>4, <3>1, <3>2
  <2>6. \A j \in DOMAIN cell'.cands : cell'.cands[j] \in P
    BY <2>2, NewTyped
  <2> HIDE DEF P
  <2>7. Candidates' \subseteq P
    BY <2>5, <2>6 DEF Candidates
  <2> QED BY <2>2, <2>7 DEF P
<1>2. CASE GoesOn(c, state)
  <2>1. cell' = c /\ cand' = NewCand /\ UNCHANGED cells
    BY <1>2 DEF GoesOn
  <2>2. \A i \in DOMAIN cells' : \A j \in DOMAIN cells'[i].cands : cells'[i].cands[j] \in P
    BY <2>1, InCandidates
  <2>3. \A j \in DOMAIN cell'.cands : cell'.cands[j] \in P
    BY <2>1
  <2> HIDE DEF P
  <2>4. Candidates' \subseteq P
    BY <2>2, <2>3 DEF Candidates
  <2> QED BY <2>1, <2>4 DEF P
<1> QED BY <1>1, <1>2

LEMMA NewAttempt ==
  ASSUME cand' = NewCand
  PROVE  /\ FeedbackIsOwn'
         /\ cand'.fed = IF cand'.trace = <<>> THEN "none" ELSE cand'.trace[Len(cand'.trace)].stopped
         /\ Len(cand'.trace) <= MaxRepairs
BY NewTyped, BoundsAssumption DEF FeedbackIsOwn

LEMMA EarnedStep == ASSUME Typed, EarnedInv, [Next]_vars PROVE EarnedInv'
<1>0. /\ \A r \in Candidates : Earned(r)
      /\ FeedbackIsOwn /\ cand \in CandState
  BY EarnedAll DEF EarnedInv, ScoredIsEarned, Typed
<1>1. ASSUME \A r \in Candidates' : Earned(r), cand' = NewCand PROVE EarnedInv'
  <2>1. AcceptedIsProven' /\ RejectedIsEarned'
    BY <1>1 DEF AcceptedIsProven, RejectedIsEarned, Earned
  <2> QED BY <1>1, <2>1, NewAttempt DEF EarnedInv, ScoredIsEarned
<1>2. ASSUME UNCHANGED <<cells, cell>> PROVE AcceptedIsProven' /\ RejectedIsEarned'
  <2>1. Candidates' = Candidates
    BY <1>2 DEF Candidates
  <2> QED BY <1>0, <2>1 DEF AcceptedIsProven, RejectedIsEarned, Earned
<1>3. ASSUME UNCHANGED <<cells, cell>>, cand'.trace = cand.trace, cand'.fed = cand.fed PROVE EarnedInv'
  BY <1>2, <1>3 DEF EarnedInv, ScoredIsEarned, FeedbackIsOwn
<1>4. CASE UNCHANGED vars
  BY <1>3, <1>4 DEF vars
<1>5. CASE Next
  <2>1. ASSUME phase \in InCell, Aborted(armState) PROVE EarnedInv'
    <3>1. PICK c \in CellState, state \in State :
            c.cands = cell.cands /\ (CloseCell(c, state) \/ GoesOn(c, state))
      BY <2>1, Aborts
    <3>2. Candidates' \subseteq Candidates /\ cand' = NewCand
      BY <2>1, <3>1, NoOther, InCandidates
    <3> QED BY <1>0, <1>1, <3>2
  <2>2. ASSUME phase \in InCell, NEW r \in Candidate, NEW state \in State, Earned(r), Scored(r, state)
        PROVE  EarnedInv'
    <3>1. PICK c \in CellState :
            c.cands = Append(cell.cands, r) /\ (CloseCell(c, state) \/ GoesOn(c, state))
      BY <2>2, Scores
    <3>2. cell.cands \in Seq(Candidate)
      BY DEF Typed, CellState
    <3>3. \A j \in DOMAIN c.cands : c.cands[j] = r \/ (j \in DOMAIN cell.cands /\ c.cands[j] = cell.cands[j])
      BY <3>1, <3>2
    <3>4. Candidates' \subseteq Candidates \cup {r} /\ cand' = NewCand
      BY <2>2, <3>1, <3>3, NoOther, InCandidates
    <3> QED BY <1>0, <1>1, <2>2, <3>4
  <2>3. CASE Barrier
    <3>1. CASE \E c \in CellState : c.cands = <<>> /\ CloseCell(c, armState)
      <4>1. PICK c \in CellState : c.cands = <<>> /\ CloseCell(c, armState)
        BY <3>1
      <4>2. armState \in State /\ phase \in InCell
        BY <2>3, Barred DEF Typed, InCell
      <4>3. Candidates' \subseteq Candidates /\ cand' = NewCand
        BY <4>1, <4>2, NoOther
      <4> QED BY <1>0, <1>1, <4>3
    <3>2. CASE cell' = NewCell /\ UNCHANGED <<cells, cand>>
      <4>1. Candidates' \subseteq Candidates
        BY <3>2, NewTyped DEF Candidates
      <4>2. AcceptedIsProven' /\ RejectedIsEarned'
        BY <1>0, <4>1 DEF AcceptedIsProven, RejectedIsEarned, Earned
      <4> QED BY <3>2, <4>2 DEF EarnedInv, ScoredIsEarned, FeedbackIsOwn
    <3> QED BY <2>3, <3>1, <3>2, Barred
  <2>4. CASE StartCandidate
    <3>1. cand' = NewCand /\ UNCHANGED <<cells, cell>>
      BY <1>5, <2>4, Between
    <3> QED BY <1>2, <3>1, NewAttempt DEF EarnedInv, ScoredIsEarned
  <2>5. CASE GenerateFails
    <3>1. phase \in InCell
      BY <2>5, Failed DEF InCell
    <3> QED BY <1>3, <2>1, <2>5, <3>1, Failed
  <2>6. CASE Generate
    <3>1. CASE \E r \in Candidate : Moves(r)
      <4>1. PICK r \in Candidate : r.verdict = "moved" /\ Scored(r, [armState EXCEPT !.invalidated = TRUE])
        BY <3>1 DEF Moves
      <4>2. PICK state : state = [armState EXCEPT !.invalidated = TRUE]
        OBVIOUS
      <4>3. state \in State /\ phase \in InCell
        BY <2>6, <4>2, Generated DEF Typed, State, InCell
      <4> QED BY <2>2, <4>1, <4>2, <4>3 DEF Earned
    <3>2. CASE ~\E r \in Candidate : Moves(r)
      BY <1>3, <2>6, <3>2, Generated
    <3> QED BY <3>1, <3>2
  <2>7. CASE Judge
    <3>0. phase \in InCell /\ armState \in State
      BY <2>7, Judged DEF InCell, Typed
    <3>1. CASE Aborted(armState)
      BY <2>1, <3>0, <3>1
    <3>2. CASE \E r \in Candidate : Scored(r, armState) /\ Deserved(r)
      <4>1. PICK r \in Candidate : Scored(r, armState) /\ Deserved(r)
        BY <3>2
      <4>2. Earned(r)
        <5>1. Len(cand.trace) \in Nat /\ Len(cand.trace) <= MaxRepairs
          BY <1>0 DEF EarnedInv, CandState
        <5> QED BY <4>1, <5>1, BoundsAssumption DEF Deserved, Earned
      <4> QED BY <2>2, <3>0, <4>1, <4>2
    <3>3. CASE \E stopped \in Stopped : Repairs(stopped)
      <4>1. PICK stopped \in Stopped : Repairs(stopped)
        BY <3>3
      <4>2. /\ Len(cand.trace) + 1 <= MaxRepairs /\ cand'.fed = stopped
            /\ cand'.trace = Append(cand.trace, [fed |-> cand.fed, stopped |-> stopped])
            /\ UNCHANGED <<cells, cell>>
        BY <4>1 DEF Repairs
      <4>3. cand.trace \in Seq(Entry) /\ cand.fed \in Stopped
        BY <1>0 DEF CandState, Entry
      <4>e. PICK e \in Entry : e = [fed |-> cand.fed, stopped |-> stopped]
        BY <4>3 DEF Entry
      <4>4. PICK s, t : e = [fed |-> cand.fed, stopped |-> stopped] /\ s = cand.trace /\ t = cand'.trace
        BY <4>e
      <4>5. t = Append(s, e) /\ s \in Seq(Entry)
        BY <4>2, <4>3, <4>4
      <4>6. /\ Len(t) = Len(s) + 1 /\ Len(s) \in Nat /\ t # <<>> /\ t[Len(t)] = e
            /\ DOMAIN t = 1..(Len(s) + 1) /\ \A k \in DOMAIN s : t[k] = s[k]
        BY <4>5
      <4>7. e.fed = IF Len(t) = 1 THEN "none" ELSE t[Len(t) - 1].stopped
        <5>1. cand.fed = IF s = <<>> THEN "none" ELSE s[Len(s)].stopped
          BY <4>4 DEF EarnedInv
        <5>2. s = <<>> <=> Len(s) = 0
          BY <4>5
        <5>3. s # <<>> => t[Len(s)] = s[Len(s)]
          BY <4>5, <4>6
        <5> QED BY <4>4, <4>6, <5>1, <5>2, <5>3
      <4>8. \A k \in DOMAIN t : t[k].fed = IF k = 1 THEN "none" ELSE t[k - 1].stopped
        <5> TAKE k \in DOMAIN t
        <5>1. CASE k = Len(t)
          BY <4>6, <4>7, <5>1
        <5>2. CASE k # Len(t)
          <6>1. k \in 1..Len(s) /\ DOMAIN s = 1..Len(s)
            BY <4>5, <4>6, <5>2
          <6>2. k # 1 => k - 1 \in 1..Len(s)
            BY <4>6, <6>1
          <6>3. s[k].fed = IF k = 1 THEN "none" ELSE s[k - 1].stopped
            BY <1>0, <4>4, <6>1 DEF FeedbackIsOwn
          <6> QED BY <4>6, <6>1, <6>2, <6>3
        <5> QED BY <5>1, <5>2
      <4>9. FeedbackIsOwn'
        BY <4>4, <4>8 DEF FeedbackIsOwn
      <4>10. cand'.fed = IF cand'.trace = <<>> THEN "none" ELSE cand'.trace[Len(cand'.trace)].stopped
        BY <4>2, <4>4, <4>6
      <4>11. Len(cand'.trace) <= MaxRepairs
        BY <4>2, <4>4, <4>6
      <4> QED BY <1>2, <4>2, <4>9, <4>10, <4>11 DEF EarnedInv, ScoredIsEarned
    <3> QED BY <2>7, <3>1, <3>2, <3>3, Judged
  <2>8. CASE OpenArm
    <3>1. UNCHANGED <<cell, cand>> /\ cells' = <<>>
      BY <1>5, <2>8, Between
    <3>2. Candidates' \subseteq Candidates
      BY <3>1 DEF Candidates
    <3>3. AcceptedIsProven' /\ RejectedIsEarned'
      BY <1>0, <3>2 DEF AcceptedIsProven, RejectedIsEarned, Earned
    <3> QED BY <3>1, <3>3 DEF EarnedInv, ScoredIsEarned, FeedbackIsOwn
  <2>9. CASE CloseArm \/ CalibrationGate \/ Raise
             \/ (\E g \in Generators : Repoint(g)) \/ (\E g \in Frontier : ChangeContract(g))
    <3>1. UNCHANGED <<cells, cell, cand>>
      BY <1>5, <2>9, Between
    <3> QED BY <1>3, <3>1
  <2> QED BY <1>5, <2>3, <2>4, <2>5, <2>6, <2>7, <2>8, <2>9 DEF Next, Steps
<1> QED BY <1>4, <1>5

LEMMA InitEarned == Init => EarnedInv
<1> SUFFICES ASSUME Init PROVE EarnedInv
  OBVIOUS
<1>1. Candidates = {}
  BY NewTyped DEF Init, Candidates
<1>2. cand = NewCand
  BY DEF Init
<1> QED BY <1>1, <1>2, NewTyped, BoundsAssumption
        DEF EarnedInv, ScoredIsEarned, AcceptedIsProven, RejectedIsEarned, FeedbackIsOwn

(* With any benches, limits and providers, a scored candidate carries a    *)
(* verdict of its own: accepted, every constraint its packet declares was  *)
(* measured and met; rejected, it was tried as often as the limit says,    *)
(* and the last verdict has a cause in it; and a repair prompt carries the *)
(* feedback of the attempt before it.                                      *)
THEOREM ScoresAreEarned == Spec => []ScoredIsEarned
<1>1. EarnedInv => ScoredIsEarned
  BY DEF EarnedInv
<1>2. Typed /\ EarnedInv /\ [Next]_vars => EarnedInv'
  BY EarnedStep
<1> QED BY <1>1, <1>2, InitTyped, InitEarned, TypeStep, PTL DEF Spec
-----------------------------------------------------------------------------
(* The receipts of an arm in progress are those of the cells before.       *)

Here == <<Gen, PacketsOf[Arm][at.packet]>>

LEMMA NotYet == ASSUME Typed, phase \in InCell PROVE Here \notin Before
<1> SUFFICES ASSUME Here \in Before PROVE FALSE
  OBVIOUS
<1>1. PICK x \in Places : Here = <<GeneratorsOf[Arm][x[1]], PacketsOf[Arm][x[2]]>>
  BY DEF Before
<1>2. PICK g, p : x = <<g, p>> /\ g \in DOMAIN GeneratorsOf[Arm] /\ p \in DOMAIN PacketsOf[Arm]
                  /\ (g < at.gen \/ (g = at.gen /\ p < at.packet))
  BY DEF Places
<1>3. GeneratorsOf[Arm][g] = GeneratorsOf[Arm][at.gen] /\ PacketsOf[Arm][p] = PacketsOf[Arm][at.packet]
  BY <1>1, <1>2 DEF Here, Gen
<1>4. g = at.gen /\ p = at.packet
  BY <1>2, <1>3, ArmLists DEF Typed
<1>5. at.gen \in Nat /\ at.packet \in Nat
  BY DEF Typed
<1> QED BY <1>2, <1>4, <1>5

(* A pair is of a place, and the places up to this one are those before    *)
(* and this one.                                                           *)
LEMMA Covered ==
  ASSUME Typed, phase \in InCell, LastCell
  PROVE  Before \cup {Here} = Expected(Arm)
<1>1. PICK ng, np : ng = Len(GeneratorsOf[Arm]) /\ np = Len(PacketsOf[Arm])
  OBVIOUS
<1>2. /\ DOMAIN GeneratorsOf[Arm] = 1..ng /\ DOMAIN PacketsOf[Arm] = 1..np
      /\ ng \in Nat \ {0} /\ np \in Nat \ {0} /\ at.gen = ng /\ at.packet = np
  BY <1>1, ArmLists DEF LastCell
<1>3. PICK G, P : G = GeneratorsOf[Arm] /\ P = PacketsOf[Arm]
  OBVIOUS
<1>4. Here = <<G[ng], P[np]>> /\ Here \in Expected(Arm)
  BY <1>2, <1>3 DEF Here, Gen, Expected
<1>5. ASSUME NEW e \in Before PROVE e \in Expected(Arm)
  BY <1>5 DEF Before, Places, Expected
<1>6. ASSUME NEW e \in Expected(Arm) PROVE e \in Before \cup {Here}
  <2>1. PICK g \in 1..ng, p \in 1..np : e = <<G[g], P[p]>>
    BY <1>2, <1>3 DEF Expected
  <2>2. CASE g = ng /\ p = np
    BY <1>4, <2>1, <2>2
  <2>3. CASE ~(g = ng /\ p = np)
    <3>1. PICK x : x = <<g, p>>
      OBVIOUS
    <3>2. g < ng \/ (g = ng /\ p < np)
      BY <1>2, <2>1, <2>3
    <3>3. x \in Places /\ x[1] = g /\ x[2] = p
      BY <1>2, <2>1, <3>1, <3>2 DEF Places
    <3> QED BY <1>3, <2>1, <3>3 DEF Before
  <2> QED BY <2>2, <2>3
<1> QED BY <1>4, <1>5, <1>6

LEMMA Onwards ==
  ASSUME Typed, phase \in InCell, ~LastCell, at' = NextCell
  PROVE  Before' = Before \cup {Here}
<1>1. PICK ng, np : ng = Len(GeneratorsOf[Arm]) /\ np = Len(PacketsOf[Arm])
  OBVIOUS
<1>2. PICK g \in 1..ng, p \in 1..np : g = at.gen /\ p = at.packet
  BY <1>1, InPlace
<1>3. /\ DOMAIN GeneratorsOf[Arm] = 1..ng /\ DOMAIN PacketsOf[Arm] = 1..np
      /\ ng \in Nat \ {0} /\ np \in Nat \ {0} /\ at \in [arm : Nat, gen : Nat, packet : Nat]
  BY <1>1, ArmLists DEF Typed
<1>4. PICK G, P : G = GeneratorsOf[Arm] /\ P = PacketsOf[Arm]
  OBVIOUS
<1>5. Here = <<G[g], P[p]>>
  BY <1>2, <1>4 DEF Here, Gen
<1>6. PICK h \in Nat, q \in Nat : h = g + 1 /\ q = p + 1
  OBVIOUS
<1>7. at'.arm = at.arm /\ IF p < np THEN at'.gen = g /\ at'.packet = q ELSE at'.gen = h /\ at'.packet = 1
  <2>1. CASE p < np
    <3>1. at' = [at EXCEPT !.packet = q]
      BY <1>1, <1>2, <1>6, <2>1 DEF NextCell
    <3> QED BY <1>2, <1>3, <2>1, <3>1
  <2>2. CASE ~(p < np)
    <3>1. at' = [at EXCEPT !.gen = h, !.packet = 1]
      BY <1>1, <1>2, <1>6, <2>2 DEF NextCell
    <3> QED BY <1>3, <2>2, <3>1
  <2> QED BY <2>1, <2>2
<1>8. Arm' = Arm
  BY <1>7 DEF Arm
<1>9. PICK h2, q2 : h2 = at'.gen /\ q2 = at'.packet
  OBVIOUS
<1>10. \A k \in 1..ng, l \in 1..np :
         (k < h2 \/ (k = h2 /\ l < q2)) <=> (k < g \/ (k = g /\ l < p)) \/ (k = g /\ l = p)
  BY <1>2, <1>3, <1>6, <1>7, <1>9, SMTT(30)
<1>11. Places' = Places \cup {<<g, p>>}
  BY <1>2, <1>3, <1>8, <1>9, <1>10, SMTT(30) DEF Places
<1>12. Before' = {<<G[x[1]], P[x[2]]>> : x \in Places'}
  BY <1>4, <1>8 DEF Before
<1>13. Before = {<<G[x[1]], P[x[2]]>> : x \in Places}
  BY <1>4 DEF Before
<1>14. PICK S, T : S = Places /\ T = Places'
  OBVIOUS
<1>15. PICK y : y = <<g, p>>
  OBVIOUS
<1>16. T = S \cup {y} /\ Here = <<G[y[1]], P[y[2]]>>
  BY <1>5, <1>11, <1>14, <1>15
<1>17. \A e : e \in Before' <=> \E x \in T : e = <<G[x[1]], P[x[2]]>>
  BY <1>12, <1>14
<1>18. \A e : e \in Before <=> \E x \in S : e = <<G[x[1]], P[x[2]]>>
  BY <1>13, <1>14
<1> QED BY <1>16, <1>17, <1>18

LEMMA OneMore ==
  ASSUME NEW s \in Seq(Receipt), NEW r \in Receipt, <<r.generator, r.packet>> \notin Pairs(s), Counted(s)
  PROVE  /\ Pairs(Append(s, r)) = Pairs(s) \cup {<<r.generator, r.packet>>}
         /\ Counted(Append(s, r))
<1>1. PICK t : t = Append(s, r)
  OBVIOUS
<1>2. /\ t \in Seq(Receipt) /\ Len(t) = Len(s) + 1 /\ DOMAIN t = DOMAIN s \cup {Len(s) + 1}
      /\ \A i \in DOMAIN s : t[i] = s[i]
      /\ t[Len(s) + 1] = r
  BY <1>1
<1>3. Pairs(t) = Pairs(s) \cup {<<r.generator, r.packet>>}
  BY <1>2 DEF Pairs
<1>4. IsFiniteSet(Pairs(t)) /\ Cardinality(Pairs(t)) = Cardinality(Pairs(s)) + 1
  BY <1>3, FS_AddElement DEF Counted
<1> QED BY <1>1, <1>2, <1>3, <1>4 DEF Counted
(* The cell in progress holds what it should for its receipt.              *)
Sound(c, state) ==
  /\ Named(c.cands, state.served[Gen])
  /\ ~Halts(c, state) => /\ Len(c.cands) = NSamples
                         /\ \A j \in DOMAIN c.cands : c.cands[j].verdict # "moved"

LEMMA CellCloses ==
  ASSUME Typed, phase \in InCell, CellsInv, NEW c \in CellState, NEW state \in State,
         state.served = armState.served, CloseCell(c, state), Sound(c, state)
  PROVE  CellsInv'
<1>1. PICK r \in Receipt : r = Closed(c, state)
  BY Closes
<1>2. /\ r.generator = Gen /\ <<r.generator, r.packet>> = Here /\ r.cands = c.cands
      /\ r.halts = Halts(c, state)
  BY <1>1 DEF Closed, Here
<1>3. /\ cells' = Append(cells, r) /\ cells \in Seq(Receipt) /\ armState' = state /\ cell' = NewCell
      /\ at'.arm = at.arm /\ Arm' = Arm
  BY <1>1, Closes DEF Typed, Arm
<1>4. /\ \A i \in DOMAIN cells' : i \in DOMAIN cells \/ i = Len(cells) + 1
      /\ \A i \in DOMAIN cells : cells'[i] = cells[i]
      /\ Len(cells) + 1 \in DOMAIN cells' /\ cells'[Len(cells) + 1] = r
  BY <1>3
<1>5. /\ Pairs(cells) = Before /\ Counted(cells) /\ ~Halted
      /\ \A i \in DOMAIN cells : WholeCell(cells[i])
      /\ \A i \in DOMAIN cells : Named(cells[i].cands, armState.served[cells[i].generator])
  BY DEF CellsInv, InCell
<1>6. Pairs(cells') = Before \cup {Here} /\ Counted(cells')
  BY <1>2, <1>3, <1>5, NotYet, OneMore
<1>7. \A i \in DOMAIN cells' : Named(cells'[i].cands, armState'.served[cells'[i].generator])
  <2> TAKE i \in DOMAIN cells'
  <2>1. CASE i \in DOMAIN cells
    BY <1>3, <1>4, <1>5, <2>1 DEF Named
  <2>2. CASE i = Len(cells) + 1
    BY <1>2, <1>3, <1>4, <2>2 DEF Named, Sound
  <2> QED BY <1>4, <2>1, <2>2
<1>8. ~Halts(c, state) => ~Halted' /\ \A i \in DOMAIN cells' : WholeCell(cells'[i])
  <2> SUFFICES ASSUME ~Halts(c, state), NEW i \in DOMAIN cells'
               PROVE  ~cells'[i].halts /\ WholeCell(cells'[i])
    BY DEF Halted
  <2>1. CASE i \in DOMAIN cells
    BY <1>4, <1>5, <2>1 DEF Halted
  <2>2. CASE i = Len(cells) + 1
    BY <1>2, <1>4, <2>2 DEF Sound, WholeCell
  <2> QED BY <1>4, <2>1, <2>2
<1>9. CASE phase' = "close" /\ Halts(c, state)
  <2>1. Halted'
    BY <1>2, <1>4, <1>9 DEF Halted
  <2> QED BY <1>3, <1>7, <1>9, <2>1 DEF CellsInv, InCell
<1>10. CASE phase' = "close" /\ ~Halts(c, state) /\ LastCell
  <2>1. Pairs(cells') = Expected(Arm)'
    BY <1>3, <1>6, <1>10, Covered
  <2> QED BY <1>3, <1>6, <1>7, <1>8, <1>10, <2>1 DEF CellsInv, InCell, Counted, Pairs, WholeCell
<1>11. CASE phase' = "barrier" /\ at' = NextCell /\ ~Halts(c, state) /\ ~LastCell
  <2>1. Pairs(cells') = Before'
    BY <1>6, <1>11, Onwards
  <2>2. ~armState'.invalidated
    BY <1>3, <1>11 DEF Halts
  <2>3. /\ cell'.scored = Len(cell'.cands) /\ cell'.scored < NSamples /\ ~cell'.invalidated /\ ~cell'.aborted
        /\ \A j \in DOMAIN cell'.cands : FALSE
    BY <1>3, NewTyped, BoundsAssumption
  <2> QED BY <1>3, <1>6, <1>7, <1>8, <1>11, <2>1, <2>2, <2>3
          DEF CellsInv, InCell, Counted, Pairs, WholeCell, Named
<1> QED BY <1>9, <1>10, <1>11, Closes

LEMMA CellGoesOn ==
  ASSUME Typed, phase \in InCell, CellsInv, NEW c \in CellState, NEW state \in State,
         state.served = armState.served, GoesOn(c, state), ~state.invalidated,
         c.scored = Len(c.cands), c.scored < NSamples, ~c.invalidated, ~c.aborted,
         \A j \in DOMAIN c.cands : c.cands[j].verdict # "moved", Named(c.cands, state.served[Gen])
  PROVE  CellsInv'
<1>1. cell' = c /\ armState' = state /\ phase' = "slot" /\ at' = at /\ cells' = cells
  BY DEF GoesOn
<1>2. Arm' = Arm /\ Gen' = Gen /\ Before' = Before /\ Halted' = Halted
  BY <1>1 DEF Arm, Gen, Before, Places, Halted
<1>3. /\ Pairs(cells) = Before /\ Counted(cells) /\ ~Halted
      /\ \A i \in DOMAIN cells : WholeCell(cells[i])
      /\ \A i \in DOMAIN cells : Named(cells[i].cands, armState.served[cells[i].generator])
  BY DEF CellsInv, InCell
<1>4. \A i \in DOMAIN cells' : Named(cells'[i].cands, armState'.served[cells'[i].generator])
  BY <1>1, <1>3 DEF Named
<1>5. Named(c.cands, armState'.served[Gen'])
  BY <1>1, <1>2 DEF Named
<1> QED BY <1>1, <1>2, <1>3, <1>4, <1>5 DEF CellsInv, InCell, Counted, Pairs, WholeCell, Named
LEMMA CellsScored ==
  ASSUME Typed, phase \in InCell, CellsInv, NEW r \in Candidate, NEW state \in State,
         state.served = armState.served, r.served = armState.served[Gen], r.served # NoAlias,
         r.verdict = "moved" => state.invalidated, Scored(r, state)
  PROVE  CellsInv'
<1>1. PICK c \in CellState :
        /\ c.cands = Append(cell.cands, r) /\ c.scored = cell.scored + 1
        /\ c.invalidated = state.invalidated /\ c.aborted = cell.aborted
        /\ \/ (c.scored = NSamples \/ state.invalidated) /\ CloseCell(c, state)
           \/ c.scored # NSamples /\ ~state.invalidated /\ GoesOn(c, state)
  BY Scores
<1>2. /\ cell.scored = Len(cell.cands) /\ cell.scored < NSamples /\ ~cell.aborted
      /\ \A j \in DOMAIN cell.cands : cell.cands[j].verdict # "moved"
      /\ Named(cell.cands, armState.served[Gen])
  BY DEF CellsInv
<1>3. PICK s \in Seq(Candidate) : s = cell.cands
  BY DEF Typed, CellState
<1>4. /\ Len(c.cands) = Len(s) + 1 /\ Len(s) \in Nat /\ c.scored = Len(c.cands)
      /\ \A j \in DOMAIN c.cands : c.cands[j] = r \/ (j \in DOMAIN s /\ c.cands[j] = s[j])
  BY <1>1, <1>2, <1>3
<1>5. Named(c.cands, state.served[Gen])
  BY <1>2, <1>3, <1>4 DEF Named
<1>6. ~state.invalidated => \A j \in DOMAIN c.cands : c.cands[j].verdict # "moved"
  BY <1>2, <1>3, <1>4
<1>7. CASE (c.scored = NSamples \/ state.invalidated) /\ CloseCell(c, state)
  <2>1. Sound(c, state)
    BY <1>4, <1>5, <1>6, <1>7 DEF Sound, Halts
  <2> QED BY <1>7, <2>1, CellCloses
<1>8. CASE c.scored # NSamples /\ ~state.invalidated /\ GoesOn(c, state)
  <2>1. c.scored < NSamples /\ ~c.invalidated /\ ~c.aborted
    BY <1>1, <1>2, <1>3, <1>4, <1>8, BoundsAssumption
  <2> QED BY <1>4, <1>5, <1>6, <1>8, <2>1, CellGoesOn
<1> QED BY <1>1, <1>7, <1>8

LEMMA CellsAborted ==
  ASSUME Typed, phase \in InCell, CellsInv, Aborted(armState)
  PROVE  CellsInv'
<1>1. PICK c \in CellState, state \in State :
        /\ c.cands = cell.cands /\ c.scored = cell.scored /\ c.aborted = cell.aborted
        /\ state.served = armState.served /\ state.invalidated = armState.invalidated
        /\ \/ c.invalidated /\ CloseCell(c, state)
           \/ c.invalidated = cell.invalidated /\ GoesOn(c, state)
  BY Aborts
<1>2. /\ cell.scored = Len(cell.cands) /\ cell.scored < NSamples /\ ~cell.aborted /\ ~cell.invalidated
      /\ ~armState.invalidated /\ \A j \in DOMAIN cell.cands : cell.cands[j].verdict # "moved"
      /\ Named(cell.cands, armState.served[Gen])
  BY DEF CellsInv
<1>3. CASE c.invalidated /\ CloseCell(c, state)
  <2>1. Sound(c, state)
    BY <1>1, <1>2, <1>3 DEF Sound, Halts
  <2> QED BY <1>1, <1>3, <2>1, CellCloses
<1>4. CASE c.invalidated = cell.invalidated /\ GoesOn(c, state)
  BY <1>1, <1>2, <1>4, CellGoesOn
<1> QED BY <1>1, <1>3, <1>4

(* A step that leaves the cell and the receipts as they are.               *)
LEMMA CellsKept ==
  ASSUME CellsInv, UNCHANGED <<at, cells, cell, armState>>, phase \in InCell,
         phase' \in InCell \cup {"raised"}, phase' = "barrier" => phase = "barrier",
         phase' = "judge" => armState.served[Gen] # NoAlias
  PROVE  CellsInv'
<1>1. Gen' = Gen /\ Before' = Before /\ Halted' = Halted
  BY DEF Arm, Gen, Before, Places, Halted
<1>2. CASE phase' \in InCell
  BY <1>1, <1>2 DEF CellsInv, InCell, Counted, Pairs, WholeCell, Named
<1>3. CASE phase' = "raised"
  BY <1>3 DEF CellsInv, InCell
<1> QED BY <1>2, <1>3

LEMMA CellsStep == ASSUME Typed, CellsInv, [Next]_vars PROVE CellsInv'
<1>1. ASSUME UNCHANGED <<phase, at, cells, cell, armState>> PROVE CellsInv'
  <2>1. Arm' = Arm /\ Gen' = Gen /\ Before' = Before /\ Halted' = Halted
    BY <1>1 DEF Arm, Gen, Before, Places, Halted
  <2> QED BY <1>1, <2>1 DEF CellsInv, InCell, Counted, Pairs, WholeCell, Named
<1>2. CASE UNCHANGED vars
  BY <1>1, <1>2 DEF vars
<1>3. CASE Next
  <2>1. CASE Barrier
    <3>0. phase = "barrier" /\ phase \in InCell /\ armState \in State
      BY <2>1, Barred DEF InCell, Typed
    <3>1. CASE \E c \in CellState : c.cands = <<>> /\ c.aborted /\ CloseCell(c, armState)
      <4>1. PICK c \in CellState : c.cands = <<>> /\ c.aborted /\ CloseCell(c, armState)
        BY <3>1
      <4>2. Sound(c, armState)
        BY <4>1 DEF Sound, Halts, Named
      <4> QED BY <3>0, <4>1, <4>2, CellCloses
    <3>2. CASE phase' = "slot" /\ cell' = NewCell /\ UNCHANGED <<at, armState, cells, cand>>
      <4>1. cell = NewCell
        BY <3>0 DEF CellsInv
      <4> QED BY <3>0, <3>2, <4>1, CellsKept DEF InCell
    <3> QED BY <2>1, <3>1, <3>2, Barred
  <2>2. CASE StartCandidate
    BY <1>3, <2>2, Between, CellsKept DEF InCell
  <2>3. CASE GenerateFails
    <3>1. phase \in InCell
      BY <2>3, Failed DEF InCell
    <3> QED BY <1>1, <2>3, <3>1, Failed, CellsAborted
  <2>4. CASE Generate
    <3>0. phase = "generate" /\ phase \in InCell /\ armState \in State /\ Gen \in Generators
      BY <2>4, Generated, InPlace DEF InCell, Typed
    <3>1. CASE armState' = Served(armState) /\ phase' = "judge" /\ UNCHANGED <<at, cells, cell>>
      <4>1. PICK state : state = Served(armState)
        OBVIOUS
      <4>2. /\ armState' = state /\ state.served[Gen] # NoAlias /\ state.invalidated = armState.invalidated
            /\ \A g \in Generators : state.served[g] = armState.served[g] \/ armState.served[g] = NoAlias
        BY <3>0, <3>1, <4>1, ServedTyped
      <4>3. Arm' = Arm /\ Gen' = Gen /\ Before' = Before /\ Halted' = Halted
        BY <3>1 DEF Arm, Gen, Before, Places, Halted
      <4>4. Named(cell.cands, state.served[Gen])
        BY <3>0, <4>2 DEF CellsInv, Named
      <4>5. \A i \in DOMAIN cells : Named(cells[i].cands, state.served[cells[i].generator])
        <5> TAKE i \in DOMAIN cells
        <5>1. cells[i].generator \in Generators
          <6>1. cells[i] \in Receipt
            BY DEF Typed
          <6> QED BY <6>1 DEF Receipt
        <5>2. Named(cells[i].cands, armState.served[cells[i].generator])
          BY <3>0 DEF CellsInv
        <5> QED BY <4>2, <5>1, <5>2 DEF Named
      <4>6. ~armState.invalidated
        BY <3>0 DEF CellsInv
      <4> QED BY <3>0, <3>1, <4>2, <4>3, <4>4, <4>5, <4>6 DEF CellsInv, InCell, Counted, Pairs, WholeCell
    <3>2. CASE \E r \in Candidate : Moves(r)
      <4>1. PICK r \in Candidate : Moves(r)
        BY <3>2
      <4>2. PICK state : state = [armState EXCEPT !.invalidated = TRUE]
        OBVIOUS
      <4>3. state \in State /\ state.served = armState.served /\ state.invalidated
        BY <3>0, <4>2 DEF State
      <4> QED BY <3>0, <4>1, <4>2, <4>3, CellsScored DEF Moves
    <3> QED BY <2>4, <3>1, <3>2, Generated
  <2>5. CASE Judge
    <3>0. phase = "judge" /\ phase \in InCell /\ armState \in State /\ armState.served[Gen] # NoAlias
      BY <2>5, Judged DEF InCell, Typed, CellsInv
    <3>1. CASE Aborted(armState)
      BY <3>0, <3>1, CellsAborted
    <3>2. CASE \E r \in Candidate : Scored(r, armState) /\ r.verdict # "moved" /\ r.served = armState.served[Gen]
      <4>1. PICK r \in Candidate : Scored(r, armState) /\ r.verdict # "moved" /\ r.served = armState.served[Gen]
        BY <3>2
      <4> QED BY <3>0, <4>1, CellsScored
    <3>3. CASE \E stopped \in Stopped : Repairs(stopped)
      BY <3>0, <3>3, CellsKept DEF Repairs, InCell
    <3> QED BY <2>5, <3>1, <3>2, <3>3, Judged
  <2>6. CASE OpenArm
    <3>1. /\ phase' = "barrier" /\ armState' = NewArmState /\ cells' = <<>> /\ cell' = cell /\ cell = NewCell
          /\ at'.arm = at.arm /\ at'.gen = 1 /\ at'.packet = 1
      BY <1>3, <2>6, Between DEF CellsInv
    <3>2. Arm' = Arm
      BY <3>1 DEF Arm
    <3>3. /\ DOMAIN GeneratorsOf[Arm] \subseteq Nat \ {0} /\ DOMAIN PacketsOf[Arm] \subseteq Nat \ {0}
      BY ArmLists
    <3>4. Places' = {}
      BY <3>1, <3>2, <3>3 DEF Places
    <3>5. Before' = {} /\ Pairs(cells') = {} /\ ~Halted'
      BY <3>1, <3>4 DEF Before, Pairs, Halted
    <3>6. Counted(cells')
      BY <3>1, <3>5, FS_EmptySet DEF Counted
    <3>7. Named(cell'.cands, armState'.served[Gen'])
      BY <3>1, NewTyped DEF Named
    <3> QED BY <3>1, <3>5, <3>6, <3>7, NewTyped, BoundsAssumption DEF CellsInv, InCell, Counted, Pairs
  <2>7. CASE CloseArm
    <3>1. phase = "close" /\ UNCHANGED cell /\ phase' \in {"gate", "open", "closed"}
      BY <1>3, <2>7, Between
    <3> QED BY <3>1 DEF CellsInv, InCell
  <2>8. CASE CalibrationGate
    <3>1. phase = "gate" /\ UNCHANGED cell /\ phase' \in {"open", "closed"}
      BY <1>3, <2>8, Between
    <3> QED BY <3>1 DEF CellsInv, InCell
  <2>9. CASE Raise
    BY <1>3, <2>9, Between DEF CellsInv, InCell
  <2>10. CASE (\E g \in Generators : Repoint(g)) \/ (\E g \in Frontier : ChangeContract(g))
    BY <1>1, <1>3, <2>10, Between
  <2> QED BY <1>3, <2>1, <2>2, <2>3, <2>4, <2>5, <2>6, <2>7, <2>8, <2>9, <2>10 DEF Next, Steps
<1> QED BY <1>2, <1>3
LEMMA InitCells == Init => CellsInv
BY DEF Init, CellsInv, InCell

-----------------------------------------------------------------------------
(* A complete arm is whole.                                                *)

(* The receipts of an arm that was not halted are all it asked for.        *)
LEMMA Whole ==
  ASSUME Typed, CellsInv, phase = "close", ~Halted
  PROVE  /\ Pairs(cells) = Expected(Arm) /\ Len(cells) = Cardinality(Expected(Arm))
         /\ \A i \in DOMAIN cells : WholeCell(cells[i]) /\ OneName(cells[i].generator)
<1>1. /\ Pairs(cells) = Expected(Arm) /\ Counted(cells) /\ \A i \in DOMAIN cells : WholeCell(cells[i])
      /\ \A i \in DOMAIN cells : Named(cells[i].cands, armState.served[cells[i].generator])
  BY DEF CellsInv, InCell
<1>2. ASSUME NEW i \in DOMAIN cells PROVE OneName(cells[i].generator)
  <2>1. PICK g, name : g = cells[i].generator /\ name = armState.served[g]
    OBVIOUS
  <2> DEFINE cs == {cells[k] : k \in {l \in DOMAIN cells : cells[l].generator = g}}
             names == UNION {{c.cands[j].served : j \in DOMAIN c.cands} : c \in cs}
  <2>2. \A n \in names : n = name
    BY <1>1, <2>1 DEF Named
  <2>3. name \in names
    <3>1. cells[i] \in Receipt
      BY DEF Typed
    <3>2. PICK s \in Seq(Candidate) : s = cells[i].cands
      BY <3>1 DEF Receipt
    <3>3. Len(s) = NSamples
      BY <1>1, <3>2 DEF WholeCell
    <3>4. 1 \in DOMAIN s
      BY <3>2, <3>3, BoundsAssumption
    <3>5. cells[i].cands[1].served = name /\ 1 \in DOMAIN cells[i].cands
      BY <1>1, <2>1, <3>2, <3>4 DEF Named
    <3>6. cells[i] \in cs
      BY <2>1
    <3> QED BY <3>5, <3>6
  <2>4. names = {name}
    BY <2>2, <2>3
  <2>5. Cardinality(names) = 1
    BY <2>4, FS_Singleton
  <2> QED BY <2>1, <2>5 DEF OneName
<1> QED BY <1>1, <1>2 DEF Counted

LEMMA ArmsStep == ASSUME Typed, CellsInv, ArmsInv, [Next]_vars PROVE ArmsInv'
<1>1. ASSUME UNCHANGED <<cells, arms>>, phase' \in {"gate", "open", "closed"} => phase \in {"gate", "open", "closed"}
      PROVE  CompleteIsWhole'
  <2>1. CompleteIsWhole
    BY DEF ArmsInv
  <2>2. \A g : OneName(g)' = OneName(g)
    BY <1>1 DEF OneName
  <2> QED BY <1>1, <2>1, <2>2 DEF CompleteIsWhole, JustCompleted, WholeCell
<1>2. ASSUME phase' \notin {"gate", "open", "closed"} PROVE CompleteIsWhole'
  BY <1>2 DEF CompleteIsWhole, JustCompleted
<1>3. CASE UNCHANGED vars
  BY <1>1, <1>3 DEF vars, ArmsInv
<1>4. CASE Next
  <2>1. ASSUME phase \in InCell, UNCHANGED arms, at'.arm = at.arm, phase' \in InCell \cup {"close", "raised"}
        PROVE  ArmsInv'
    BY <1>2, <2>1 DEF ArmsInv, InCell
  <2>2. ASSUME phase \in InCell, UNCHANGED arms, NEW c \in CellState, NEW state \in State,
               CloseCell(c, state) \/ GoesOn(c, state)
        PROVE  ArmsInv'
    <3>1. at'.arm = at.arm /\ phase' \in {"close", "barrier", "slot"}
      BY <2>2, Closes DEF GoesOn
    <3> QED BY <2>1, <2>2, <3>1 DEF InCell
  <2>3. ASSUME phase \in InCell, UNCHANGED arms, Aborted(armState) PROVE ArmsInv'
    BY <2>2, <2>3, Aborts
  <2>4. ASSUME phase \in InCell, UNCHANGED arms, NEW r \in Candidate, NEW state \in State, Scored(r, state)
        PROVE  ArmsInv'
    BY <2>2, <2>4, Scores
  <2>5. CASE Barrier
    <3>1. phase \in InCell /\ UNCHANGED arms /\ armState \in State
      BY <2>5, Barred DEF Typed, InCell
    <3> QED BY <2>1, <2>2, <2>5, <3>1, Barred DEF InCell
  <2>6. CASE StartCandidate
    BY <1>4, <2>1, <2>6, Between DEF InCell
  <2>7. CASE GenerateFails
    BY <2>1, <2>3, <2>7, Failed DEF InCell
  <2>8. CASE Generate
    <3>1. phase \in InCell /\ UNCHANGED arms
      BY <2>8, Generated DEF InCell
    <3>2. CASE phase' = "judge" /\ UNCHANGED at
      BY <2>1, <3>1, <3>2 DEF InCell
    <3>3. CASE \E r \in Candidate : Moves(r)
      <4>1. PICK r \in Candidate : Moves(r)
        BY <3>3
      <4>2. PICK state : state = [armState EXCEPT !.invalidated = TRUE]
        OBVIOUS
      <4>3. state \in State
        BY <4>2 DEF State, Typed
      <4> QED BY <2>4, <3>1, <4>1, <4>2, <4>3 DEF Moves
    <3> QED BY <2>8, <3>2, <3>3, Generated
  <2>9. CASE Judge
    <3>1. phase \in InCell /\ UNCHANGED arms /\ armState \in State
      BY <2>9, Judged DEF InCell, Typed
    <3>2. CASE \E stopped \in Stopped : Repairs(stopped)
      BY <2>1, <3>1, <3>2 DEF Repairs, InCell
    <3> QED BY <2>3, <2>4, <2>9, <3>1, <3>2, Judged
  <2>10. CASE OpenArm
    <3>1. phase = "open" /\ phase' = "barrier" /\ at'.arm = at.arm /\ arms' = arms
      BY <1>4, <2>10, Between
    <3> QED BY <1>2, <3>1 DEF ArmsInv, InCell
  <2>11. CASE CloseArm
    <3>1. PICK close \in Probed :
            /\ arms' = Append(arms, ArmState(close))
            /\ IF ArmState(close) # "complete" THEN ClosePilot("halted")
               ELSE IF at.arm = 1 THEN phase' = "gate" /\ UNCHANGED <<at, pilot>>
               ELSE IF at.arm = Len(Arms) THEN ClosePilot("complete")
               ELSE phase' = "open" /\ at' = [at EXCEPT !.arm = @ + 1] /\ UNCHANGED pilot
      BY <2>11 DEF CloseArm
    <3>2. PICK state \in {"complete", "invalidated", "cannot_evaluate"} : state = ArmState(close)
      BY DEF ArmState
    <3>3. phase = "close" /\ cells' = cells /\ Len(arms) = at.arm - 1
      BY <1>4, <2>11, Between DEF ArmsInv
    <3>4. /\ arms \in Seq({"complete", "invalidated", "cannot_evaluate"}) /\ at.arm \in Nat
          /\ at \in [arm : Nat, gen : Nat, packet : Nat]
      BY DEF Typed
    <3>5. Len(arms') = at.arm /\ arms'[at.arm] = state /\ arms' # <<>>
      BY <3>1, <3>2, <3>3, <3>4
    <3>6. CompleteIsWhole'
      <4>1. CASE state # "complete"
        BY <3>5, <4>1 DEF CompleteIsWhole, JustCompleted
      <4>2. CASE state = "complete"
        <5>1. ~Halted
          BY <3>2, <4>2 DEF ArmState
        <5>2. Arms[Len(arms')] = Arm
          BY <3>5 DEF Arm
        <5>3. \A g : OneName(g)' = OneName(g)
          BY <3>3 DEF OneName
        <5> QED BY <3>3, <5>1, <5>2, <5>3, Whole DEF CompleteIsWhole, Pairs, WholeCell
      <4> QED BY <4>1, <4>2
    <3>7. CASE state = "complete" /\ at.arm = 1
      <4>1. arms' = <<"complete">>
        BY <3>1, <3>2, <3>3, <3>4, <3>7
      <4> QED BY <3>1, <3>2, <3>6, <3>7, <4>1 DEF ArmsInv, InCell
    <3>8. CASE phase' = "closed" /\ at' = at
      BY <3>5, <3>6, <3>8 DEF ArmsInv, InCell
    <3>9. CASE phase' = "open" /\ at' = [at EXCEPT !.arm = @ + 1]
      <4>1. at'.arm = at.arm + 1
        BY <3>4, <3>9
      <4>2. Len(arms') = at'.arm - 1
        BY <3>4, <3>5, <4>1
      <4> QED BY <3>6, <3>9, <4>2 DEF ArmsInv, InCell
    <3> QED BY <3>1, <3>2, <3>7, <3>8, <3>9 DEF ClosePilot
  <2>12. CASE CalibrationGate
    <3>1. phase = "gate" /\ phase' \in {"open", "closed"} /\ UNCHANGED <<cells, arms>>
      BY <1>4, <2>12, Between
    <3>2. at.arm = 1 /\ arms = <<"complete">> /\ Len(arms) = 1
      BY <3>1 DEF ArmsInv
    <3>3. (phase' = "open" /\ at' = [at EXCEPT !.arm = 2]) \/ (phase' = "closed" /\ at' = at)
      BY <2>12 DEF CalibrationGate, ClosePilot
    <3>4. phase' = "open" => at'.arm = 2
      BY <3>3 DEF Typed
    <3>5. phase' = "open" => Len(arms') = at'.arm - 1
      BY <3>1, <3>2, <3>4
    <3>6. phase' = "closed" => Len(arms') = at'.arm
      BY <3>1, <3>2, <3>3
    <3> QED BY <1>1, <3>1, <3>5, <3>6 DEF ArmsInv, InCell
  <2>13. CASE Raise
    BY <1>2, <1>4, <2>13, Between DEF ArmsInv, InCell
  <2>14. CASE (\E g \in Generators : Repoint(g)) \/ (\E g \in Frontier : ChangeContract(g))
    BY <1>1, <1>4, <2>14, Between DEF ArmsInv
  <2> QED BY <1>4, <2>5, <2>6, <2>7, <2>8, <2>9, <2>10, <2>11, <2>12, <2>13, <2>14 DEF Next, Steps
<1> QED BY <1>3, <1>4

LEMMA InitArms == Init => ArmsInv
BY DEF Init, ArmsInv, InCell, CompleteIsWhole, JustCompleted

(* With any arms, limits, benches and providers, an arm recorded complete  *)
(* holds a receipt for each of its generators and packets, each with the   *)
(* samples asked for, and all of a generator under one served name.        *)
THEOREM CompleteArmsAreWhole == Spec => []CompleteIsWhole
<1>1. ArmsInv => CompleteIsWhole
  BY DEF ArmsInv
<1>2. Typed /\ CellsInv /\ [Next]_vars => CellsInv'
  BY CellsStep
<1>3. Typed /\ CellsInv /\ ArmsInv /\ [Next]_vars => ArmsInv'
  BY ArmsStep
<1> QED BY <1>1, <1>2, <1>3, InitTyped, InitCells, InitArms, TypeStep, PTL DEF Spec
-----------------------------------------------------------------------------
(* The gate behind the calibration arm.                                    *)

(* A bounded set of numbers that is not empty has a largest.               *)
LEMMA Topmost ==
  ASSUME NEW k \in Nat, NEW S \in SUBSET (0..k), S # {}
  PROVE  Max(S) \in S /\ \A x \in S : x <= Max(S)
<1> DEFINE R == {ss \in Nat \X Nat : ss[1] < ss[2]}
           T == {k - x : x \in S}
<1>1. IsWellFoundedOn(R, Nat)
  BY NatLessThanWellFounded DEF OpToRel
<1>2. T \subseteq Nat
  <2>1. \A x \in S : x \in Nat /\ x <= k
    OBVIOUS
  <2> QED BY <2>1
<1>3. T # {}
  <2>1. PICK x : x \in S
    OBVIOUS
  <2>2. k - x \in T
    BY <2>1
  <2> QED BY <2>2
<1>4. PICK n \in T : \A m \in T : ~(<<m, n>> \in R)
  <2> HIDE DEF R, T
  <2> QED BY <1>1, <1>2, <1>3, WFMin
<1>5. PICK x \in S : n = k - x
  BY <1>4
<1>6. \A y \in S : x >= y
  <2> TAKE y \in S
  <2>1. PICK m \in Nat, l \in Nat : m = k - y /\ l = k - x
    OBVIOUS
  <2>2. ~(<<m, l>> \in R)
    BY <1>4, <1>5, <2>1
  <2>3. ~(m < l)
    BY <2>2
  <2> QED BY <2>1, <2>3
<1> QED BY <1>6 DEF Max

LEMMA ArtifactsBounded ==
  ASSUME NEW s \in Seq(Receipt)
  PROVE  /\ IsFiniteSet(Artifacts(s)) /\ Cardinality(Artifacts(s)) \in Nat
         /\ Cardinality(Artifacts(s)) <= Len(s) * NSamples
         /\ \A a \in Artifacts(s) : OutputOf(s, a) \in Outputs \cup {"none"}
<1>1. PICK n \in Nat, m \in Nat : n = Len(s) /\ m = NSamples /\ DOMAIN s = 1..n
  BY BoundsAssumption
<1>2. IsFiniteSet(1..n) /\ Cardinality(1..n) = n /\ IsFiniteSet(1..m) /\ Cardinality(1..m) = m
  BY FS_Interval
<1>3. IsFiniteSet((1..n) \X (1..m)) /\ Cardinality((1..n) \X (1..m)) = n * m
  BY <1>2, FS_Product, ZenonT(30)
<1>4. Artifacts(s) \in SUBSET ((1..n) \X (1..m))
  BY <1>1 DEF Artifacts
<1>5. IsFiniteSet(Artifacts(s)) /\ Cardinality(Artifacts(s)) <= n * m
  BY <1>3, <1>4, FS_Subset
<1>6. ASSUME NEW a \in Artifacts(s) PROVE OutputOf(s, a) \in Outputs \cup {"none"}
  <2>1. a[1] \in DOMAIN s /\ a[2] \in DOMAIN s[a[1]].cands
    BY DEF Artifacts
  <2>2. s[a[1]].cands \in Seq(Candidate)
    <3>1. s[a[1]] \in Receipt
      BY <2>1
    <3> QED BY <3>1 DEF Receipt
  <2>3. s[a[1]].cands[a[2]] \in Candidate
    BY <2>1, <2>2
  <2> QED BY <2>3 DEF Candidate, OutputOf
<1> QED BY <1>1, <1>5, <1>6, FS_CardinalityType

(* Where fewer than a hundred artifacts are, a share of one in a hundred   *)
(* outside the largest cluster is none.                                    *)
LEMMA PassAgrees ==
  ASSUME NEW s \in Seq(Receipt), Len(s) * NSamples < 100, Evaluate(s) = "pass"
  PROVE  /\ Cardinality(Artifacts(s)) >= 2
         /\ \A a, b \in Artifacts(s) : OutputOf(s, a) = OutputOf(s, b)
<1> DEFINE A == Artifacts(s)
           Cluster(o) == {a \in A : OutputOf(s, a) = o}
           counts == {Cardinality(Cluster(o)) : o \in Outputs}
<1>1. PICK k \in Nat : k = Cardinality(A)
  BY ArtifactsBounded
<1>2. IsFiniteSet(A) /\ k < 100 /\ \A a \in A : OutputOf(s, a) \in Outputs \cup {"none"}
  <2>1. k <= Len(s) * NSamples /\ Len(s) * NSamples \in Nat
    BY <1>1, ArtifactsBounded, BoundsAssumption
  <2> QED BY <2>1, ArtifactsBounded
<1>3. PICK d : d = ComputeD(s)
  OBVIOUS
<1>4. d.ok /\ d.k # 1 /\ 100 * d.num <= d.k
  BY <1>3 DEF Evaluate
<1>5. /\ k # 0 /\ \A a \in A : OutputOf(s, a) # "none"
      /\ d.k = k /\ d.num = k - Largest(s)
  BY <1>1, <1>3, <1>4 DEF ComputeD
<1>6. \A o \in Outputs : Cardinality(Cluster(o)) \in 0..k
  <2> TAKE o \in Outputs
  <2>1. Cluster(o) \in SUBSET A
    OBVIOUS
  <2>2. IsFiniteSet(Cluster(o)) /\ Cardinality(Cluster(o)) <= k
    BY <1>1, <1>2, <2>1, FS_Subset
  <2> QED BY <1>1, <2>2, FS_CardinalityType
<1>7. counts \in SUBSET (0..k) /\ counts # {}
  <2>1. PICK a : a \in A
    BY <1>1, <1>2, <1>5, FS_EmptySet
  <2>2. OutputOf(s, a) \in Outputs
    BY <1>2, <1>5, <2>1
  <2> QED BY <1>6, <2>2
<1>8. Max(counts) \in counts
  <2> HIDE DEF counts
  <2> QED BY <1>7, Topmost
<1>9. Largest(s) \in counts
  BY <1>8 DEF Largest
<1>10. PICK o \in Outputs : Largest(s) = Cardinality(Cluster(o))
  BY <1>9
<1>11. Cardinality(Cluster(o)) = k
  <2>1. PICK l \in 0..k : l = Largest(s)
    BY <1>6, <1>10
  <2>2. 100 * (k - l) <= k
    BY <1>4, <1>5, <2>1
  <2> QED BY <1>2, <1>10, <2>1, <2>2
<1>12. Cluster(o) = A
  <2>1. Cluster(o) \in SUBSET A
    OBVIOUS
  <2> QED BY <1>1, <1>2, <1>11, <2>1, FS_Subset
<1>13. \A a \in A : OutputOf(s, a) = o
  BY <1>12
<1>14. k >= 2
  BY <1>4, <1>5
<1> QED BY <1>1, <1>13, <1>14

(* What the run checks of a step past the calibration arm.                 *)
Calibrated ==
  at.arm = 1 /\ at'.arm = 2 =>
    /\ arms = <<"complete">>
    /\ Cardinality(Artifacts(cells)) >= 2
    /\ \A a, b \in Artifacts(cells) : OutputOf(cells, a) = OutputOf(cells, b)

LEMMA CalibrationStep == ASSUME Typed, ArmsInv, [Next]_vars PROVE Calibrated
<1> SUFFICES ASSUME at.arm = 1, at'.arm = 2 PROVE Calibrated
  BY DEF Calibrated
<1>1. Next
  BY DEF vars
<1>2. CASE CalibrationGate
  <2>1. phase = "gate" /\ Evaluate(cells) = "pass"
    BY <1>2 DEF CalibrationGate, ClosePilot
  <2>2. arms = <<"complete">> /\ JustCompleted /\ Len(arms) = 1
    <3>1. arms = <<"complete">>
      BY <2>1 DEF ArmsInv
    <3>2. Len(arms) = 1 /\ arms # <<>> /\ arms[1] = "complete"
      BY <3>1
    <3> QED BY <2>1, <3>1, <3>2 DEF JustCompleted
  <2>3. Len(cells) = Cardinality(Expected(Arms[1]))
    BY <2>2 DEF ArmsInv, CompleteIsWhole
  <2>4. Len(cells) * NSamples < 100 /\ cells \in Seq(Receipt)
    BY <2>3, CalibrationAssumption DEF Typed
  <2> QED BY <2>1, <2>2, <2>4, PassAgrees DEF Calibrated
<1>3. CASE CloseArm
  <2>1. at' = at \/ at.arm # 1
    BY <1>3 DEF CloseArm, ClosePilot
  <2> QED BY <2>1
<1>4. ASSUME phase \in InCell, NEW c \in CellState, NEW state \in State, CloseCell(c, state) \/ GoesOn(c, state)
      PROVE  FALSE
  BY <1>4, Closes DEF GoesOn
<1>5. ASSUME phase \in InCell, Aborted(armState) PROVE FALSE
  BY <1>4, <1>5, Aborts
<1>6. ASSUME phase \in InCell, NEW r \in Candidate, NEW state \in State, Scored(r, state) PROVE FALSE
  BY <1>4, <1>6, Scores
<1>7. CASE Barrier
  <2>1. phase \in InCell /\ armState \in State
    BY <1>7, Barred DEF Typed, InCell
  <2> QED BY <1>4, <1>7, <2>1, Barred
<1>8. CASE GenerateFails
  BY <1>5, <1>8, Failed DEF InCell
<1>9. CASE Generate
  <2>1. PICK r \in Candidate : Moves(r)
    BY <1>9, Generated
  <2>2. PICK state : state = [armState EXCEPT !.invalidated = TRUE]
    OBVIOUS
  <2>3. state \in State /\ phase \in InCell
    BY <1>9, <2>2, Generated DEF State, Typed, InCell
  <2> QED BY <1>6, <2>1, <2>2, <2>3 DEF Moves
<1>10. CASE Judge
  <2>1. phase \in InCell /\ armState \in State
    BY <1>10, Judged DEF InCell, Typed
  <2>2. CASE \E stopped \in Stopped : Repairs(stopped)
    BY <2>2 DEF Repairs
  <2>3. CASE \E r \in Candidate : Scored(r, armState)
    BY <1>6, <2>1, <2>3
  <2> QED BY <1>5, <1>10, <2>1, <2>2, <2>3, Judged
<1>11. CASE StartCandidate \/ OpenArm \/ Raise
            \/ (\E g \in Generators : Repoint(g)) \/ (\E g \in Frontier : ChangeContract(g))
  BY <1>1, <1>11, Between
<1> QED BY <1>1, <1>2, <1>3, <1>7, <1>8, <1>9, <1>10, <1>11 DEF Next, Steps

(* With any arms, limits, benches and providers, and fewer than a hundred  *)
(* artifacts to calibrate on, nothing opens behind the calibration arm     *)
(* unless that arm is complete and its two accepted artifacts or more all  *)
(* agree on the probe.                                                     *)
THEOREM CalibrationComesFirst == Spec => CalibrationFirst
<1>1. Typed /\ CellsInv /\ [Next]_vars => CellsInv'
  BY CellsStep
<1>2. Typed /\ CellsInv /\ ArmsInv /\ [Next]_vars => ArmsInv'
  BY ArmsStep
<1>3. Typed /\ ArmsInv /\ [Next]_vars =>
        [ at.arm = 1 /\ at'.arm = 2 =>
            /\ arms = <<"complete">>
            /\ Cardinality(Artifacts(cells)) >= 2
            /\ \A a, b \in Artifacts(cells) : OutputOf(cells, a) = OutputOf(cells, b) ]_vars
  BY CalibrationStep DEF Calibrated
<1> QED BY <1>1, <1>2, <1>3, InitTyped, InitCells, InitArms, TypeStep, PTL DEF Spec, CalibrationFirst
=============================================================================
