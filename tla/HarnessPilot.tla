---------------------------- MODULE HarnessPilot ----------------------------
(***************************************************************************)
(* A pilot of the ECS harness: run_pilot over run_arm over run_cell over   *)
(* run_candidate, one process, while the providers may re-point an alias   *)
(* or change a contract at any moment and the bench answers each stage as  *)
(* HarnessGates says.                                                      *)
(*                                                                         *)
(* cells is rec["cells"] of the arm in progress, with the candidates each  *)
(* receipt holds; a repair trace is kept entry by entry while its          *)
(* candidate runs and as a count of verdicts afterwards.                   *)
(***************************************************************************)
EXTENDS HarnessGates, FiniteSetsExt

CONSTANTS Arms,               \* names, in order; the first is the calibration
          GeneratorsOf, PacketsOf,   \* per arm, in order
          Frontier, Local,    \* generators probed for their contract; behind the barrier
          Benches,            \* the benches a candidate may meet
          Outputs,            \* output classes of one probe
          NSamples, MaxRepairs, MaxInfraRetries, MaxInfraAborts, MaxSlotRefills,
          MaxMoves            \* bound on what the providers change

ArmNames == {Arms[i] : i \in DOMAIN Arms}
Generators == UNION {{GeneratorsOf[a][i] : i \in DOMAIN GeneratorsOf[a]} : a \in ArmNames}
Packets == UNION {{PacketsOf[a][i] : i \in DOMAIN PacketsOf[a]} : a \in ArmNames}

(* The cells of an arm.                                                    *)
Expected(arm) == {GeneratorsOf[arm][i] : i \in DOMAIN GeneratorsOf[arm]}
                 \X {PacketsOf[arm][i] : i \in DOMAIN PacketsOf[arm]}

Lists(s, S) == s \in Seq(S) /\ s # <<>> /\ \A i, j \in DOMAIN s : s[i] = s[j] => i = j

ASSUME ArmsAssumption ==
  /\ Lists(Arms, ArmNames) /\ Len(Arms) >= 2
  /\ \A a \in ArmNames : Lists(GeneratorsOf[a], Generators) /\ Lists(PacketsOf[a], Packets)
ASSUME GeneratorsAssumption == Frontier \cup Local \subseteq Generators
ASSUME BoundsAssumption ==
  /\ NSamples \in Nat \ {0} /\ MaxRepairs \in Nat /\ MaxInfraRetries \in Nat \ {0}
  /\ MaxInfraAborts \in Nat /\ MaxSlotRefills \in Nat /\ MaxMoves \in Nat
ASSUME BenchesAssumption == Benches \subseteq Bench /\ "none" \notin Outputs

(* One artifact in a hundred may disagree: four generators, one kernel    *)
(* and ten samples leave no room for it.                                   *)
ASSUME CalibrationAssumption == Cardinality(Expected(Arms[1])) * NSamples < 100

VARIABLES phase,      \* what the process does next
          at,         \* arm, generator and packet in progress, by index
          armState,   \* runner.new_arm_state()
          contracts,  \* what the contract probe saw when the arm opened
          cells,      \* rec["cells"]
          cell,       \* the cell in progress
          cand,       \* the candidate in progress
          arms,       \* pilot["arms"]: the states of the arms closed so far
          pilot,      \* pilot["state"]
          world       \* what the providers serve and accept
vars == <<phase, at, armState, contracts, cells, cell, cand, arms, pilot, world>>

NoAlias == "none"

Arm == Arms[at.arm]
Gen == GeneratorsOf[Arm][at.gen]

NewArmState == [aborts |-> 0, invalidated |-> FALSE, served |-> [g \in Generators |-> NoAlias]]
NewCell == [scored |-> 0, refills |-> 0, cands |-> <<>>, invalidated |-> FALSE, aborted |-> FALSE]
NewCand == [tries |-> 0, fed |-> "none", trace |-> <<>>]

Init ==
  /\ phase = "open" /\ at = [arm |-> 1, gen |-> 1, packet |-> 1]
  /\ armState = NewArmState /\ contracts = [g \in Frontier |-> "accepted"]
  /\ cells = <<>> /\ cell = NewCell /\ cand = NewCand
  /\ arms = <<>> /\ pilot = "running"
  /\ world = [alias |-> [g \in Generators |-> "v1"], moves |-> 0,
              policy |-> [g \in Frontier |-> "accepted"]]

(* --- the providers ----------------------------------------------------- *)

Repoint(g) ==
  /\ world.moves < MaxMoves /\ phase \notin {"closed", "raised"}
  /\ world' = [world EXCEPT !.alias[g] = "v2", !.moves = @ + 1]
  /\ UNCHANGED <<phase, at, armState, contracts, cells, cell, cand, arms, pilot>>

ChangeContract(g) ==
  /\ world.moves < MaxMoves /\ phase \notin {"closed", "raised"}
  /\ world' = [world EXCEPT !.policy[g] = "rejected", !.moves = @ + 1]
  /\ UNCHANGED <<phase, at, armState, contracts, cells, cell, cand, arms, pilot>>

(* --- the contract probe ------------------------------------------------ *)

(* A transport that fails says nothing about the contract.                 *)
Classify(g, answers) == IF answers THEN world.policy[g] ELSE "cannot_evaluate"

Probed == {[g \in Frontier |-> Classify(g, up[g])] : up \in [Frontier -> BOOLEAN]}

Compare(open, close) ==
  LET known == {g \in Frontier : "cannot_evaluate" \notin {open[g], close[g]}}
  IN  IF \E g \in known : open[g] # close[g] THEN "changed"
      ELSE IF known # Frontier THEN "cannot_evaluate"
      ELSE "unchanged"

OpenArm ==
  /\ phase = "open"
  /\ contracts' \in Probed
  /\ armState' = NewArmState /\ cells' = <<>>
  /\ at' = [at EXCEPT !.gen = 1, !.packet = 1] /\ phase' = "barrier"
  /\ UNCHANGED <<cell, cand, arms, pilot, world>>

(* --- cells ------------------------------------------------------------- *)

LastCell == at.gen = Len(GeneratorsOf[Arm]) /\ at.packet = Len(PacketsOf[Arm])

NextCell ==
  IF at.packet < Len(PacketsOf[Arm]) THEN [at EXCEPT !.packet = @ + 1]
  ELSE [at EXCEPT !.gen = @ + 1, !.packet = 1]

(* The receipt of the cell is written, and the arm goes on or is halted.   *)
Halts(c, state) == c.invalidated \/ c.aborted \/ state.invalidated

CloseCell(c, state) ==
  /\ cells' = Append(cells, [generator |-> Gen, packet |-> PacketsOf[Arm][at.packet],
                             cands |-> c.cands, halts |-> Halts(c, state)])
  /\ armState' = state /\ cell' = NewCell /\ cand' = NewCand
  /\ IF Halts(c, state) \/ LastCell
     THEN phase' = "close" /\ UNCHANGED at
     ELSE phase' = "barrier" /\ at' = NextCell

Barrier ==
  /\ phase = "barrier"
  /\ \E d \in Devices :
       IF Gen \in Local /\ ~BarrierOK(d)
       THEN CloseCell([NewCell EXCEPT !.aborted = TRUE], armState)
       ELSE /\ phase' = "slot" /\ cell' = NewCell
            /\ UNCHANGED <<at, armState, cells, cand>>
  /\ UNCHANGED <<contracts, arms, pilot, world>>

CapTripped(state, refills) == state.aborts > MaxInfraAborts \/ refills > MaxSlotRefills

(* What run_cell does with the record run_candidate returned.              *)
CountAbort(state) == [state EXCEPT !.aborts = @ + 1]

Aborted(state) ==
  LET c == [cell EXCEPT !.refills = @ + 1]
  IN  IF CapTripped(CountAbort(state), c.refills)
      THEN CloseCell([c EXCEPT !.invalidated = TRUE], CountAbort(state))
      ELSE /\ cell' = c /\ armState' = CountAbort(state)
           /\ phase' = "slot" /\ cand' = NewCand /\ UNCHANGED <<at, cells>>

Scored(record, state) ==
  LET c == [cell EXCEPT !.cands = Append(@, record), !.scored = @ + 1,
                        !.invalidated = state.invalidated]
  IN  IF c.scored = NSamples \/ state.invalidated
      THEN CloseCell(c, state)
      ELSE /\ cell' = c /\ armState' = state
           /\ phase' = "slot" /\ cand' = NewCand /\ UNCHANGED <<at, cells>>

(* --- a candidate ------------------------------------------------------- *)

StartCandidate ==
  /\ phase = "slot"
  /\ cand' = NewCand /\ phase' = "generate"
  /\ UNCHANGED <<at, armState, contracts, cells, cell, arms, pilot, world>>

Record(verdict, trace, outputs, judged) ==
  [verdict |-> verdict, trials |-> Len(trace), served |-> armState.served[Gen],
   outputs |-> outputs, met |-> judged.met, guilty |-> judged.guilty]

Unjudged == [met |-> FALSE, guilty |-> FALSE]

(* Mutant: the arm expects the name it was served last.                    *)
ServedLatest(state) == [state EXCEPT !.served[Gen] = world.alias[Gen]]

Served(state) ==
  IF state.served[Gen] = NoAlias
  THEN [state EXCEPT !.served[Gen] = world.alias[Gen]] ELSE state

(* Mutant: a slot whose retries are spent is refilled and counted nowhere. *)
GenerateFailsUncounted ==
  /\ phase = "generate"
  /\ IF cand.tries + 1 < MaxInfraRetries
     THEN cand' = [cand EXCEPT !.tries = @ + 1] /\ UNCHANGED phase
     ELSE cand' = NewCand /\ phase' = "slot"
  /\ UNCHANGED <<at, armState, cells, cell, contracts, arms, pilot, world>>

GenerateFails ==
  /\ phase = "generate"
  /\ IF cand.tries + 1 < MaxInfraRetries
     THEN /\ cand' = [cand EXCEPT !.tries = @ + 1]
          /\ UNCHANGED <<phase, at, armState, cells, cell>>
     ELSE Aborted(armState)
  /\ UNCHANGED <<contracts, arms, pilot, world>>

Generate ==
  /\ phase = "generate"
  /\ LET state == Served(armState)
     IN  IF state.served[Gen] = world.alias[Gen]
         THEN /\ armState' = state /\ phase' = "judge" /\ cand' = [cand EXCEPT !.tries = 0]
              /\ UNCHANGED <<at, cells, cell>>
         ELSE Scored(Record("moved", cand.trace, "none", Unjudged),
                     [state EXCEPT !.invalidated = TRUE])
  /\ UNCHANGED <<contracts, arms, pilot, world>>

(* What the benches make of a candidate, beside what is true of it.        *)
Judgements == {[chain |-> Chain(b), after |-> PostAccept(b),
                met |-> Meets(b), guilty |-> Guilty(b)] : b \in Benches}

Feedback(gate) == gate

Judge ==
  /\ phase = "judge"
  /\ \E j \in Judgements, out \in Outputs :
       LET trace == Append(cand.trace, [fed |-> cand.fed, stopped |-> j.chain.stopped])
           rejected == [cand EXCEPT !.trace = trace, !.fed = Feedback(j.chain.stopped)]
       IN IF j.chain.infra \/ (j.chain.accepted /\ j.after = "infra")
          THEN Aborted(armState)
          ELSE IF j.chain.accepted THEN Scored(Record("accepted", trace, out, j), armState)
          ELSE IF Len(trace) > MaxRepairs
          THEN Scored(Record("rejected", trace, "none", j), armState)
          ELSE /\ cand' = rejected /\ phase' = "generate"
               /\ UNCHANGED <<at, armState, cells, cell>>
  /\ UNCHANGED <<contracts, arms, pilot, world>>

(* --- arms and the pilot ------------------------------------------------ *)

Halted == \E i \in DOMAIN cells : cells[i].halts

ArmState(close) ==
  IF Halted THEN "invalidated"
  ELSE IF Compare(contracts, close) = "changed" THEN "invalidated"
  ELSE IF Compare(contracts, close) = "cannot_evaluate" THEN "cannot_evaluate"
  ELSE "complete"

ClosePilot(state) == pilot' = state /\ phase' = "closed" /\ UNCHANGED at

CloseArm ==
  /\ phase = "close"
  /\ \E close \in Probed :
       /\ arms' = Append(arms, ArmState(close))
       /\ IF ArmState(close) # "complete" THEN ClosePilot("halted")
          ELSE IF at.arm = 1 THEN phase' = "gate" /\ UNCHANGED <<at, pilot>>
          ELSE IF at.arm = Len(Arms) THEN ClosePilot("complete")
          ELSE phase' = "open" /\ at' = [at EXCEPT !.arm = @ + 1] /\ UNCHANGED pilot
  /\ UNCHANGED <<armState, contracts, cells, cell, cand, world>>

(* The accepted artifacts of the receipts, and D over their one probe: the *)
(* share outside the largest cluster, as a pair of integers.               *)
Artifacts(receipts) ==
  {a \in (DOMAIN receipts) \X (1..NSamples) :
     a[2] \in DOMAIN receipts[a[1]].cands /\ receipts[a[1]].cands[a[2]].verdict = "accepted"}

OutputOf(receipts, a) == receipts[a[1]].cands[a[2]].outputs

Largest(receipts) ==
  Max({Cardinality({a \in Artifacts(receipts) : OutputOf(receipts, a) = o}) : o \in Outputs})

ComputeD(receipts) ==
  LET k == Cardinality(Artifacts(receipts))
  IN  IF k = 0 \/ \E a \in Artifacts(receipts) : OutputOf(receipts, a) = "none"
      THEN [ok |-> FALSE, num |-> 0, k |-> k]
      ELSE [ok |-> TRUE, num |-> k - Largest(receipts), k |-> k]

(* Mutant: one artifact agrees with itself.                                *)
EvaluateAlone(receipts) ==
  LET d == ComputeD(receipts)
  IN  IF ~d.ok THEN "cannot_evaluate"
      ELSE IF 100 * d.num <= d.k THEN "pass"
      ELSE "fail"

Evaluate(receipts) ==
  LET d == ComputeD(receipts)
  IN  IF ~d.ok \/ d.k = 1 THEN "cannot_evaluate"
      ELSE IF 100 * d.num <= d.k THEN "pass"
      ELSE "fail"

CalibrationGate ==
  /\ phase = "gate"
  /\ IF Evaluate(cells) = "pass"
     THEN phase' = "open" /\ at' = [at EXCEPT !.arm = 2] /\ UNCHANGED pilot
     ELSE ClosePilot("halted")
  /\ UNCHANGED <<armState, contracts, cells, cell, cand, arms, world>>

(* An exception that is not Infra leaves run_pilot with no pilot receipt.  *)
Raise ==
  /\ phase \in {"judge", "generate", "barrier"}
  /\ phase' = "raised"
  /\ UNCHANGED <<at, armState, contracts, cells, cell, cand, arms, pilot, world>>

Steps == OpenArm \/ Barrier \/ StartCandidate \/ GenerateFails \/ Generate \/ Judge
         \/ CloseArm \/ CalibrationGate
Next == Steps \/ Raise \/ (\E g \in Generators : Repoint(g)) \/ (\E g \in Frontier : ChangeContract(g))
Spec == Init /\ [][Next]_vars
(* The process keeps running; the providers and exceptions need not come.  *)
FairSpec == Spec /\ WF_vars(Steps)

(* --- properties -------------------------------------------------------- *)

Candidates ==
  UNION {{c.cands[j] : j \in DOMAIN c.cands} : c \in {cell} \cup {cells[i] : i \in DOMAIN cells}}

(* A scored candidate carries a verdict of its own.  Accepted: every       *)
(* constraint its packet declares was measured and met, and it was probed. *)
(* Rejected: the generation and every repair were really judged, and the   *)
(* last verdict has a cause in the candidate.  An instrument that could    *)
(* not answer is in neither, wherever in the chain it failed.              *)
AcceptedIsProven == \A c \in Candidates : c.verdict = "accepted" => c.met /\ c.outputs # "none"
RejectedIsEarned == \A c \in Candidates : c.verdict = "rejected" => c.guilty /\ c.trials = MaxRepairs + 1
(* A repair prompt carries the feedback of the gate that stopped the       *)
(* attempt before it, a first prompt none from an earlier candidate.       *)
FeedbackIsOwn ==
  \A k \in DOMAIN cand.trace :
    cand.trace[k].fed = IF k = 1 THEN "none" ELSE cand.trace[k - 1].stopped
ScoredIsEarned == AcceptedIsProven /\ RejectedIsEarned /\ FeedbackIsOwn

(* An arm recorded complete has a receipt for each of its generators and   *)
(* packets, each with exactly the samples asked for, none scored after the *)
(* alias was served under another name, all of a generator under one name. *)
JustCompleted ==
  /\ phase \in {"gate", "open", "closed"} /\ arms # <<>> /\ arms[Len(arms)] = "complete"

WholeCell(c) == Len(c.cands) = NSamples /\ \A j \in DOMAIN c.cands : c.cands[j].verdict # "moved"

OneName(g) ==
  Cardinality(UNION {{c.cands[j].served : j \in DOMAIN c.cands} :
                       c \in {cells[i] : i \in {k \in DOMAIN cells : cells[k].generator = g}}}) = 1

CompleteIsWhole ==
  JustCompleted =>
    /\ {<<cells[i].generator, cells[i].packet>> : i \in DOMAIN cells} = Expected(Arms[Len(arms)])
    /\ Len(cells) = Cardinality(Expected(Arms[Len(arms)]))
    /\ \A i \in DOMAIN cells : WholeCell(cells[i]) /\ OneName(cells[i].generator)

(* Nothing opens behind the calibration arm unless that arm is complete    *)
(* and holds two accepted artifacts or more, which all agree on the probe. *)
CalibrationFirst ==
  [][ at.arm = 1 /\ at'.arm = 2 =>
        /\ arms = <<"complete">>
        /\ Cardinality(Artifacts(cells)) >= 2
        /\ \A a, b \in Artifacts(cells) : OutputOf(cells, a) = OutputOf(cells, b) ]_vars

(* However often providers, device and probes fail, a pilot ends: infra    *)
(* aborts are counted over the whole arm, refills over the cell.           *)
PilotEnds == <>(phase \in {"closed", "raised"})
=============================================================================
