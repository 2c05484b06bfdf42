---------------------------- MODULE HarnessGates ----------------------------
(***************************************************************************)
(* The gate chain of the ECS harness, the measurement and probe stages     *)
(* behind it and the eviction barrier before it, as functions of what the  *)
(* bench does: what the device answers, what the candidate is, which       *)
(* budgets its packet declares.  A stage answers "pass", "fail", "skipped" *)
(* (a declared exemption) or "infra" (chain.Infra: the instrument's fault).*)
(*                                                                         *)
(* A bench is a record:                                                    *)
(*   committed    the kernel's vector file exists                          *)
(*   kernel       "tractable", "intractable" or "undeclared" for CBMC      *)
(*   weak         the packet is of the dose-response arm                   *)
(*   lint, cc     no forbidden construct, the host build succeeds          *)
(*   wrong        indices of the vectors the candidate gets wrong          *)
(*   ssh3, ssh5   how the device run of gates 3 and 5 ends                 *)
(*   cbmc         how the bounded equivalence ends                         *)
(*   caps         the budgets declared; build, text, stack: gate 6         *)
(*   pair         both sealed oracles are present                          *)
(*   base, time   how a timing run ends, of the oracles and the candidate  *)
(*   ratio        the measured cycles against the cap                      *)
(*   probes       how the probe battery ends                               *)
(***************************************************************************)
EXTENDS Integers, Sequences, FiniteSets

CONSTANTS NVectors,     \* committed vectors of a kernel, by index from 0
          OutOfDomain   \* those the packet's domain does not pin

ASSUME VectorsAssumption == NVectors \in Nat /\ OutOfDomain \subseteq 0..(NVectors - 1)

Gates == <<"lint", "compile", "sanitize", "cbmc", "vectors", "budget">>
Ssh == {"answered", "torn", "unreachable"}
Timings == {"clean", "drifted", "torn", "broken", "silent"}
Sizes == {"within", "above", "unreadable"}
Bench ==
  [committed : BOOLEAN, kernel : {"tractable", "intractable", "undeclared"}, weak : BOOLEAN,
   lint : BOOLEAN, cc : BOOLEAN, wrong : SUBSET (0..(NVectors - 1)), ssh3 : Ssh, ssh5 : Ssh,
   cbmc : {"no harness", "no oracle", "not installed", "successful", "failure", "timeout", "no verdict"},
   caps : SUBSET {"text", "stack", "cycles"}, build : {"built", "broken", "torn", "unreachable"},
   text : Sizes, stack : Sizes, pair : BOOLEAN, base : Timings, time : Timings, ratio : {"within", "above"},
   probes : {"counted", "miscounted", "no manifest", "absent", "mutated", "torn", "unreachable",
             "silent", "unreadable", "no build", "truncated"}]

(* --- vectors ----------------------------------------------------------- *)

Committed == 0..(NVectors - 1)

Select(weak) == IF weak THEN {v \in Committed : v % 2 = 0} ELSE Committed

InDomain(v) == v \notin OutOfDomain

(* The driver calls the candidate on every vector it was built with.       *)
DriverExit(used, wrong) == IF used \cap wrong = {} THEN 0 ELSE 1

OnDevice(ssh, exit) ==
  CASE ssh = "torn" -> 91 [] ssh = "unreachable" -> 255 [] OTHER -> exit

VectorCheck(b, ssh) ==
  OnDevice(ssh, DriverExit({v \in Select(b.weak) : InDomain(v)}, b.wrong))

VectorRun(b, ssh) ==
  LET rc == VectorCheck(b, ssh)
  IN  CASE rc \in {91, 255} -> "infra" [] rc = 0 -> "pass" [] OTHER -> "fail"

(* --- the gates --------------------------------------------------------- *)

Lint(b) == IF b.lint THEN "pass" ELSE "fail"

Compile(b) == IF b.cc THEN "pass" ELSE "fail"

Sanitize(b) == VectorRun(b, b.ssh3)

(* Mutant: an equivalence check that times out is skipped.                 *)
CbmcTimeoutSkips(b) ==
  IF b.kernel = "intractable" \/ b.cbmc = "timeout" THEN "skipped"
  ELSE IF b.kernel = "undeclared" THEN "infra"
  ELSE IF b.cbmc \in {"no harness", "no oracle", "not installed"} THEN "infra"
  ELSE IF b.cbmc = "successful" THEN "pass"
  ELSE "fail"

Cbmc(b) ==
  IF b.kernel = "intractable" THEN "skipped"
  ELSE IF b.kernel = "undeclared" THEN "infra"
  ELSE IF b.cbmc \in {"no harness", "no oracle", "not installed"} THEN "infra"
  ELSE IF b.cbmc = "successful" THEN "pass"
  ELSE "fail"  \* failure, timeout, no verdict

Vectors(b) == VectorRun(b, b.ssh5)

Measure(timing) ==
  CASE timing = "clean" -> "ok" [] timing = "drifted" -> "discard_refreq"
    [] OTHER -> "infra_fault"

SizesMet(b) == \A c \in b.caps \ {"cycles"} : b[c] = "within"

(* The faster oracle is the baseline; an instrument fault under a declared *)
(* cycle cap outranks a size already found too large.                      *)
Cycles(b) ==
  IF b.pair /\ Measure(b.base) = "ok" /\ Measure(b.time) = "ok" THEN b.ratio ELSE "infra"

Budget(b) ==
  IF b.caps = {} THEN "pass"
  ELSE IF b.build \in {"torn", "unreachable"} THEN "infra"
  ELSE IF b.build = "broken" THEN "fail"
  ELSE IF "cycles" \in b.caps /\ Cycles(b) = "infra" THEN "infra"
  ELSE IF ("cycles" \in b.caps => Cycles(b) = "within") /\ SizesMet(b) THEN "pass"
  ELSE "fail"

Gate(g, b) ==
  CASE g = "lint" -> Lint(b) [] g = "compile" -> Compile(b) [] g = "sanitize" -> Sanitize(b)
    [] g = "cbmc" -> Cbmc(b) [] g = "vectors" -> Vectors(b) [] OTHER -> Budget(b)

(* chain.run: the first gate that does not let the candidate on decides.   *)
Stops == {"fail", "infra"}

Accepted == [accepted |-> TRUE, infra |-> FALSE, stopped |-> "none"]
Faulted == [accepted |-> FALSE, infra |-> TRUE, stopped |-> "none"]
StoppedAt(g) == [accepted |-> FALSE, infra |-> FALSE, stopped |-> g]

Chain(b) ==
  LET stop == {i \in DOMAIN Gates : Gate(Gates[i], b) \in Stops}
      i == CHOOSE j \in stop : \A k \in stop : j <= k
  IN  IF ~b.committed THEN Faulted
      ELSE IF stop = {} THEN Accepted
      ELSE IF Gate(Gates[i], b) = "infra" THEN Faulted ELSE StoppedAt(Gates[i])

(* --- after acceptance -------------------------------------------------- *)

(* A clean timing of gate 6 is reused; without one the stage times anew.   *)
MeasureStage(b) ==
  IF ("cycles" \in b.caps /\ Measure(b.time) = "ok") \/ Cycles(b) # "infra"
  THEN "pass" ELSE "infra"

(* What the battery reports of itself, once it could be started.           *)
ProbeRun(probes) ==
  CASE probes = "silent" -> "nothing" [] probes \in {"unreadable", "no build", "truncated"} -> "cannot_evaluate"
    [] OTHER -> "ok"

Battery(b) ==
  IF /\ b.probes \notin {"no manifest", "absent", "mutated", "torn", "unreachable"}
     /\ ProbeRun(b.probes) = "ok"
     /\ b.probes # "miscounted"
  THEN "pass" ELSE "infra"

PostAccept(b) == IF MeasureStage(b) = "pass" THEN Battery(b) ELSE "infra"

(* --- the barrier before a local model ---------------------------------- *)

Devices == [api : BOOLEAN, evicted : BOOLEAN, readable : BOOLEAN, free : BOOLEAN,
            reclaims : BOOLEAN, known : BOOLEAN, shipped : Ssh]

Reclaimed(d) == d.free \/ d.reclaims

BarrierState(d) ==
  IF ~d.known THEN "CLOSED"  \* no threshold of record
  ELSE IF ~d.api THEN "CANNOT_EVALUATE"
  ELSE IF ~d.readable THEN "CANNOT_EVALUATE"
  ELSE IF ~d.evicted THEN "REFUSED"
  ELSE IF ~Reclaimed(d) THEN "REFUSED"
  ELSE "OK"

BarrierOK(d) == d.shipped = "answered" /\ BarrierState(d) = "OK"

(* --- the benches of an instance ---------------------------------------- *)

(* What a candidate must have shown to be called accepted, from the packet *)
(* and the bench alone: every constraint declared, measured and met.       *)
Meets(b) ==
  /\ b.committed /\ b.lint /\ b.cc
  /\ \A v \in Committed : (v \in b.wrong /\ InDomain(v)) => (b.weak /\ v % 2 = 1)
  /\ b.ssh3 = "answered" /\ b.ssh5 = "answered"
  /\ b.kernel = "intractable" \/ (b.kernel = "tractable" /\ b.cbmc = "successful")
  /\ b.caps # {} => b.build = "built"
  /\ "text" \in b.caps => b.text = "within"
  /\ "stack" \in b.caps => b.stack = "within"
  /\ "cycles" \in b.caps => /\ b.pair /\ b.base = "clean" /\ b.time = "clean"
                            /\ b.ratio = "within"

(* What speaks against the candidate itself, whatever the instrument did.  *)
Guilty(b) ==
  \/ ~b.lint \/ ~b.cc
  \/ \E v \in b.wrong : InDomain(v) /\ (b.weak => v % 2 = 0)
  \/ b.kernel = "tractable" /\ b.cbmc \in {"failure", "timeout", "no verdict"}
  \/ b.caps # {} /\ b.build = "broken"
  \/ "text" \in b.caps /\ b.text # "within"
  \/ "stack" \in b.caps /\ b.stack # "within"
  \/ "cycles" \in b.caps /\ b.ratio = "above"
=============================================================================
