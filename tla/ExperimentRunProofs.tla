------------------------ MODULE ExperimentRunProofs ------------------------
(***************************************************************************)
(* Proofs about ExperimentRun for any tasks, conditions, failures, edits   *)
(* and turns of other processes.                                           *)
(***************************************************************************)
EXTENDS ExperimentRun, FiniteSetTheorems, WellFoundedInduction, TLAPS

-----------------------------------------------------------------------------
(* Outcomes.                                                               *)

(* An outcome is of one kind: a dry run, admitted, or failed.              *)
OfOneKind(o) ==
  /\ o.dry \in BOOLEAN /\ o.admitted \in BOOLEAN /\ ~(o.dry /\ o.admitted)
  /\ o.status = "completed_valid" => o.admitted

LEMMA KindsOfOutcomes ==
  /\ OfOneKind(DryRunOnly) /\ OfOneKind(NotRun)
  /\ \A output, inf : OfOneKind(CompletedValid(output, inf)) /\ OfOneKind(CompletedInvalid(output, inf))
  /\ \A status, output, inf : OfOneKind(FromLifecycle(status, output, inf))
  /\ \A status, output : status # "completed_valid" => OfOneKind(OutcomeFromInference(status, output))
  /\ \A turn : OfOneKind(ClassifyProductDecision(turn))
<1>1. ASSUME NEW status, NEW output, NEW dry \in BOOLEAN, NEW admitted \in BOOLEAN, NEW inf,
             ~(dry /\ admitted), status = "completed_valid" => admitted
      PROVE  OfOneKind(Outcome(status, output, dry, admitted, inf))
  BY <1>1 DEF OfOneKind, Outcome
<1>2. OfOneKind(DryRunOnly) /\ OfOneKind(NotRun)
  BY <1>1 DEF DryRunOnly, NotRun
<1>3. ASSUME NEW output, NEW inf
      PROVE  OfOneKind(CompletedValid(output, inf)) /\ OfOneKind(CompletedInvalid(output, inf))
  BY <1>1 DEF CompletedValid, CompletedInvalid
<1>4. ASSUME NEW status, NEW output, NEW inf PROVE OfOneKind(FromLifecycle(status, output, inf))
  <2>1. CASE status = "dry_run_only"
    BY <1>2, <2>1 DEF FromLifecycle
  <2>2. CASE status = "completed_valid"
    BY <1>3, <2>2 DEF FromLifecycle
  <2>3. CASE status \notin {"dry_run_only", "completed_valid"}
    <3>1. FromLifecycle(status, output, inf)
            = Outcome(status, IF status \in Unobserved THEN Unseen ELSE output, FALSE, FALSE, inf)
      BY <2>3 DEF FromLifecycle
    <3> QED BY <1>1, <2>3, <3>1
  <2> QED BY <2>1, <2>2, <2>3
<1>5. ASSUME NEW status, NEW output
      PROVE  status # "completed_valid" => OfOneKind(OutcomeFromInference(status, output))
  BY <1>1 DEF OutcomeFromInference
<1>6. ASSUME NEW turn PROVE OfOneKind(ClassifyProductDecision(turn))
  <2>1. turn.inf \in InferenceFailures => turn.inf # "completed_valid"
    BY DEF InferenceFailures
  <2> QED BY <1>2, <1>3, <1>4, <1>5, <2>1 DEF ClassifyProductDecision
<1> QED BY <1>2, <1>3, <1>4, <1>5, <1>6

(* What is counted adds up to what was planned.                            *)
LEMMA CountsAddUp ==
  ASSUME NEW l, NEW planned, IsFiniteSet(planned), DOMAIN l = planned,
         \A c \in planned : OfOneKind(l[c])
  PROVE  DiagnosticCounts(l, planned).failed_n + DiagnosticCounts(l, planned).dry_n
           + Cardinality({c \in planned : l[c].admitted}) = DiagnosticCounts(l, planned).planned_n
<1> DEFINE dry == {c \in planned : l[c].dry}
           adm == {c \in planned : l[c].admitted}
           bad == {c \in planned : ~l[c].dry /\ ~l[c].admitted}
<1>1. DiagnosticCounts(l, planned).planned_n = Cardinality(planned)
  BY DEF DiagnosticCounts
<1>2. DiagnosticCounts(l, planned).dry_n = Cardinality(dry)
  BY DEF DiagnosticCounts, CountOf
<1>3. DiagnosticCounts(l, planned).failed_n = Cardinality(bad)
  <2>1. DiagnosticCounts(l, planned).failed_n
          = Cardinality({c \in planned : /\ ~l[c].dry /\ l[c].status # "completed_valid"
                                         /\ ~(InferenceCompleted(l[c]) /\ l[c].admitted)})
    BY DEF DiagnosticCounts, CountOf
  <2>2. ASSUME NEW c \in planned
        PROVE  (/\ ~l[c].dry /\ l[c].status # "completed_valid"
                /\ ~(InferenceCompleted(l[c]) /\ l[c].admitted)) <=> ~l[c].dry /\ ~l[c].admitted
    BY DEF OfOneKind, InferenceCompleted
  <2>3. {c \in planned : /\ ~l[c].dry /\ l[c].status # "completed_valid"
                         /\ ~(InferenceCompleted(l[c]) /\ l[c].admitted)} = bad
    BY <2>2
  <2> QED BY <2>1, <2>3
<1>4. /\ dry \in SUBSET planned /\ adm \in SUBSET planned /\ bad \in SUBSET planned
      /\ planned = (bad \cup dry) \cup adm /\ (bad \cup dry) \cap adm = {} /\ bad \cap dry = {}
  BY DEF OfOneKind
<1> HIDE DEF dry, adm, bad
<1>5. IsFiniteSet(dry) /\ IsFiniteSet(adm) /\ IsFiniteSet(bad) /\ IsFiniteSet(bad \cup dry)
  BY <1>4, FS_Subset, FS_Union
<1>6. Cardinality({}) = 0
  BY FS_EmptySet
<1>7. Cardinality(bad \cup dry) = Cardinality(bad) + Cardinality(dry) - Cardinality(bad \cap dry)
  BY <1>5, FS_Union
<1>8. Cardinality((bad \cup dry) \cup adm)
        = Cardinality(bad \cup dry) + Cardinality(adm) - Cardinality((bad \cup dry) \cap adm)
  BY <1>5, FS_Union
<1>9. Cardinality(bad) \in Nat /\ Cardinality(dry) \in Nat /\ Cardinality(adm) \in Nat
      /\ Cardinality(bad \cup dry) \in Nat
  BY <1>5, FS_CardinalityType
<1>10. Cardinality(planned) = Cardinality(bad) + Cardinality(dry) + Cardinality(adm)
  <2>1. Cardinality(bad \cap dry) = 0 /\ Cardinality((bad \cup dry) \cap adm) = 0
    BY <1>4, <1>6
  <2>2. Cardinality(planned) = Cardinality((bad \cup dry) \cup adm)
    BY <1>4
  <2>3. PICK b, d, a, bd \in Nat : /\ b = Cardinality(bad) /\ d = Cardinality(dry)
                                  /\ a = Cardinality(adm) /\ bd = Cardinality(bad \cup dry)
    BY <1>9
  <2>4. bd = b + d
    BY <1>7, <2>1, <2>3
  <2>5. Cardinality(planned) = bd + a
    BY <1>8, <2>1, <2>2, <2>3
  <2> QED BY <2>3, <2>4, <2>5
<1> QED BY <1>1, <1>2, <1>3, <1>10 DEF adm

LEMMA NamesAreFinite == ASSUME NEW s, Distinct(s) PROVE IsFiniteSet(ToSet(s))
<1>1. s \in Seq(ToSet(s))
  BY DEF Distinct
<1>2. PICK n \in Nat : n = Len(s) /\ DOMAIN s = 1..n
  BY <1>1
<1>3. s \in Surjection(1..n, ToSet(s))
  BY <1>1, <1>2 DEF Surjection, ToSet
<1>4. IsFiniteSet(1..n)
  BY FS_Interval
<1> QED BY <1>3, <1>4, FS_Surjection

LEMMA PlannedIsFinite == ASSUME setup \in Setups PROVE IsFiniteSet(Planned)
<1>1. IsFiniteSet(TaskSet) /\ IsFiniteSet(Conditions)
  BY NamesAreFinite, PlanAssumption DEF TaskSet, Conditions
<1>2. IsFiniteSet(Episodes)
  <2>1. IsFiniteSet({"B"}) /\ IsFiniteSet({"A"}) /\ {"A"} \cup {"B"} = {"A", "B"}
    BY FS_Singleton
  <2>2. IsFiniteSet({"A", "B"})
    BY <2>1, FS_Union
  <2> QED BY <2>1, <2>2 DEF Episodes
<1>3. PICK ts, cs, es : ts = TaskSet /\ cs = Conditions /\ es = Episodes
  OBVIOUS
<1>4. IsFiniteSet((ts \X cs) \X es)
  <2>1. IsFiniteSet(ts \X cs)
    BY <1>1, <1>3, FS_Product
  <2> QED BY <1>2, <1>3, <2>1, FS_Product
<1>5. IsFiniteSet(ts \X cs \X es)
  <2> DEFINE f == [x \in (ts \X cs) \X es |-> <<x[1][1], x[1][2], x[2]>>]
  <2>1. ASSUME NEW y \in ts \X cs \X es PROVE \E x \in (ts \X cs) \X es : f[x] = y
    <3>1. PICK t \in ts, c \in cs, e \in es : y = <<t, c, e>>
      BY <2>1
    <3>2. <<<<t, c>>, e>> \in (ts \X cs) \X es
      OBVIOUS
    <3> QED BY <3>1, <3>2
  <2>2. f \in [(ts \X cs) \X es -> ts \X cs \X es]
    OBVIOUS
  <2>3. f \in Surjection((ts \X cs) \X es, ts \X cs \X es)
    <3> HIDE DEF f
    <3> QED BY <2>1, <2>2 DEF Surjection
  <2> QED BY <1>4, <2>3, FS_Surjection
<1> QED BY <1>3, <1>5 DEF Planned, BuildManifest

-----------------------------------------------------------------------------
(* Sums.                                                                   *)

(* A sum over a finite set is whatever adds up element by element: its     *)
(* definition has that for a solution and, over a finite set, no other.    *)
SumEquation(f, S, g) ==
  g = [s \in SUBSET S |-> IF s = {} THEN 0
                          ELSE f[CHOOSE x \in s : TRUE] + g[s \ {CHOOSE x \in s : TRUE}]]

AddsUp(f, S, G) ==
  /\ G = [s \in SUBSET S |-> G[s]] /\ G[{}] = 0
  /\ \A s \in SUBSET S : \A x \in s : G[s] = f[x] + G[s \ {x}]

LEMMA SumIs ==
  ASSUME NEW S, IsFiniteSet(S), NEW f, DOMAIN f = S, NEW G, AddsUp(f, S, G)
  PROVE  SumFunction(f) = G[S]
<1> DEFINE h == CHOOSE g : SumEquation(f, S, g)
           R == {ss \in Nat \X Nat : ss[1] < ss[2]}
           B == {s \in SUBSET S : h[s] # G[s]}
           N == {Cardinality(s) : s \in B}
<1>1. SumEquation(f, S, G)
  <2>1. ASSUME NEW s \in SUBSET S
        PROVE  G[s] = IF s = {} THEN 0
                      ELSE f[CHOOSE x \in s : TRUE] + G[s \ {CHOOSE x \in s : TRUE}]
    BY DEF AddsUp
  <2> QED BY <2>1 DEF SumEquation, AddsUp
<1>2. SumEquation(f, S, h)
  BY <1>1
<1>3. SumFunction(f) = h[S]
  BY DEF SumFunction, SumFunctionOnSet, FoldFunctionOnSet, MapThenFoldSet, SumEquation
<1> HIDE DEF h
<1>4. ASSUME NEW s \in SUBSET S
      PROVE  h[s] = IF s = {} THEN 0
                    ELSE f[CHOOSE x \in s : TRUE] + h[s \ {CHOOSE x \in s : TRUE}]
  BY <1>2 DEF SumEquation
<1>5. \A s \in SUBSET S : IsFiniteSet(s) /\ Cardinality(s) \in Nat
  BY FS_Subset, FS_CardinalityType
<1>6. B = {}
  <2> SUFFICES ASSUME B # {} PROVE FALSE
    OBVIOUS
  <2>1. N \subseteq Nat /\ N # {}
    <3>1. B \in SUBSET (SUBSET S)
      OBVIOUS
    <3> HIDE DEF B
    <3>2. PICK s : s \in B
      OBVIOUS
    <3>3. Cardinality(s) \in N
      BY <3>2
    <3> QED BY <1>5, <3>1, <3>3
  <2>2. IsWellFoundedOn(R, Nat)
    BY NatLessThanWellFounded DEF OpToRel
  <2>3. PICK n \in N : \A m \in N : ~(<<m, n>> \in R)
    <3> HIDE DEF R, N
    <3> QED BY <2>1, <2>2, WFMin
  <2>4. PICK s \in SUBSET S : h[s] # G[s] /\ n = Cardinality(s)
    BY <2>3
  <2>5. s # {}
    <3>1. {} \in SUBSET S /\ h[{}] = 0
      BY <1>4
    <3>2. G[{}] = 0
      BY DEF AddsUp
    <3> QED BY <2>4, <3>1, <3>2
  <2>6. PICK x : x = CHOOSE y \in s : TRUE
    OBVIOUS
  <2>7. x \in s
    BY <2>5, <2>6
  <2>8. s \ {x} \in SUBSET S /\ Cardinality(s \ {x}) = n - 1 /\ n \in Nat /\ Cardinality(s \ {x}) \in Nat
    BY <1>5, <2>4, <2>7, FS_RemoveElement
  <2>9. Cardinality(s \ {x}) \notin N
    <3>1. PICK m \in Nat : m = Cardinality(s \ {x}) /\ m < n
      BY <2>8
    <3>2. <<m, n>> \in R
      BY <2>8, <3>1
    <3> HIDE DEF R, N
    <3> QED BY <2>3, <3>1, <3>2
  <2>10. h[s \ {x}] = G[s \ {x}]
    BY <2>8, <2>9
  <2>11. h[s] = f[x] + h[s \ {x}]
    BY <1>4, <2>5, <2>6
  <2> QED BY <2>4, <2>7, <2>10, <2>11 DEF AddsUp
<1>7. S \in SUBSET S
  OBVIOUS
<1> QED BY <1>3, <1>6, <1>7

(* Ones less ones.                                                         *)
LEMMA SumOfSigns ==
  ASSUME NEW S, IsFiniteSet(S), NEW P \in SUBSET S, NEW Q \in SUBSET S, NEW f, DOMAIN f = S,
         \A x \in S : f[x] = (IF x \in P THEN 1 ELSE 0) - (IF x \in Q THEN 1 ELSE 0)
  PROVE  SumFunction(f) = Cardinality(P) - Cardinality(Q)
<1> DEFINE G == [s \in SUBSET S |-> Cardinality(s \cap P) - Cardinality(s \cap Q)]
<1>1. ASSUME NEW T \in SUBSET S, NEW s \in SUBSET S, NEW x \in s
      PROVE  /\ Cardinality(s \cap T) \in Int
             /\ Cardinality((s \ {x}) \cap T) = Cardinality(s \cap T) - (IF x \in T THEN 1 ELSE 0)
  <2>1. s \cap T \in SUBSET S /\ (s \ {x}) \cap T = (s \cap T) \ {x}
    OBVIOUS
  <2>2. IsFiniteSet(s \cap T) /\ Cardinality(s \cap T) \in Nat
    BY <2>1, FS_Subset, FS_CardinalityType
  <2>3. Cardinality((s \cap T) \ {x})
          = IF x \in s \cap T THEN Cardinality(s \cap T) - 1 ELSE Cardinality(s \cap T)
    BY <2>2, FS_RemoveElement
  <2>4. PICK k \in Int, l \in Int : k = Cardinality(s \cap T) /\ l = Cardinality((s \cap T) \ {x})
    BY <2>2, <2>3
  <2>5. l = IF x \in T THEN k - 1 ELSE k
    BY <2>3, <2>4
  <2>6. l = k - (IF x \in T THEN 1 ELSE 0)
    BY <2>5
  <2> QED BY <2>1, <2>4, <2>6
<1>2. G[{}] = 0
  <2>1. {} \cap P = {} /\ {} \cap Q = {} /\ Cardinality({}) = 0
    BY FS_EmptySet
  <2> QED BY <2>1
<1>3. ASSUME NEW s \in SUBSET S, NEW x \in s PROVE G[s] = f[x] + G[s \ {x}]
  <2>1. PICK p \in Int, q \in Int : p = Cardinality(s \cap P) /\ q = Cardinality(s \cap Q)
    BY <1>1
  <2>2. /\ Cardinality((s \ {x}) \cap P) = p - (IF x \in P THEN 1 ELSE 0)
        /\ Cardinality((s \ {x}) \cap Q) = q - (IF x \in Q THEN 1 ELSE 0)
    BY <1>1, <2>1
  <2>3. G[s] = p - q
    BY <2>1
  <2>4. G[s \ {x}] = (p - (IF x \in P THEN 1 ELSE 0)) - (q - (IF x \in Q THEN 1 ELSE 0))
    BY <2>2
  <2>5. f[x] = (IF x \in P THEN 1 ELSE 0) - (IF x \in Q THEN 1 ELSE 0)
    OBVIOUS
  <2> HIDE DEF G
  <2> QED BY <2>3, <2>4, <2>5
<1>4. G = [s \in SUBSET S |-> G[s]] /\ G[S] = Cardinality(P) - Cardinality(Q)
  <2>1. S \cap P = P /\ S \cap Q = Q
    OBVIOUS
  <2> QED BY <2>1
<1> HIDE DEF G
<1>5. AddsUp(f, S, G)
  BY <1>2, <1>3, <1>4 DEF AddsUp
<1> QED BY <1>4, <1>5, SumIs

LEMMA SumOfOnes ==
  ASSUME NEW S, IsFiniteSet(S), NEW P \in SUBSET S, NEW f, DOMAIN f = S,
         \A x \in S : f[x] = IF x \in P THEN 1 ELSE 0
  PROVE  SumFunction(f) = Cardinality(P)
<1>1. {} \in SUBSET S /\ \A x \in S : f[x] = (IF x \in P THEN 1 ELSE 0) - (IF x \in {} THEN 1 ELSE 0)
  OBVIOUS
<1>2. SumFunction(f) = Cardinality(P) - Cardinality({})
  BY <1>1, SumOfSigns
<1>3. Cardinality({}) = 0 /\ Cardinality(P) \in Nat
  BY FS_EmptySet, FS_Subset, FS_CardinalityType
<1> QED BY <1>2, <1>3

LEMMA ColumnCount ==
  ASSUME NEW S, IsFiniteSet(S), NEW name
  PROVE  Cardinality({CellOf(t, name) : t \in S}) = Cardinality(S)
<1> DEFINE T == {CellOf(t, name) : t \in S}
           f == [t \in S |-> CellOf(t, name)]
<1>1. f \in [S -> T] /\ \A t \in S : f[t] = CellOf(t, name)
  OBVIOUS
<1>2. \A t, u \in S : f[t] = f[u] => t = u
  BY DEF CellOf
<1>3. \A c \in T : \E t \in S : f[t] = c
  OBVIOUS
<1> HIDE DEF f
<1>4. f \in Bijection(S, T)
  <2> HIDE DEF T
  <2> QED BY <1>1, <1>2, <1>3 DEF Bijection, Injection, Surjection, IsInjective
<1> QED BY <1>4, FS_Bijection DEF ExistsBijection

-----------------------------------------------------------------------------
(* The strengthening.                                                      *)

(* A cell of the two programs that have rows is told as it was seen.       *)
Scored(row) == row.score = ScoreOutput(row.output)
Told(dry, o, row, saw) ==
  /\ row.status = "completed" <=> saw.status = "completed" /\ ~dry
  /\ o.output = saw.output /\ row.output = saw.output
  /\ Scored(row)

LedgerInv ==
  /\ setup \in Setups
  /\ DOMAIN ledger \subseteq Planned /\ DOMAIN rows = DOMAIN ledger /\ DOMAIN seen = DOMAIN ledger
  /\ \A c \in DOMAIN ledger : OfOneKind(ledger[c])
  /\ setup.mode # "live" => \A c \in DOMAIN ledger : Told(setup.dry, ledger[c], rows[c], seen[c])

(* What is left to do of a task is an end of the conditions, and what is   *)
(* not left is recorded.                                                   *)
Left == Len(setup.conditions) - Len(todo)

QueueInv ==
  /\ at \in 0..Len(Tasks) /\ todo \in Seq(Planned) /\ Len(todo) <= Len(setup.conditions)
  /\ pc \notin {"plan", "refused", "died"} => Planned # {}
  /\ pc = "blocked" => setup.mode = "legacy"
  /\ \A i \in 1..Len(todo) : todo[i] = CellOf(Tasks[at], setup.conditions[Left + i])
  /\ setup.mode # "live" =>
       /\ pc \in {"plan", "tasks", "report", "done"} => todo = <<>>
       /\ pc \in {"episode a", "blocked", "cells"} =>
            /\ at > 0 /\ todo # <<>>
            /\ \A j \in 1..Left : CellOf(Tasks[at], setup.conditions[j]) \in DOMAIN ledger

(* The matrix as it runs by default.                                       *)
Ck(t) == CellOf(t, "ck_strict")
Budget(t) == CellOf(t, "budget_matched_bare")
ByDefault ==
  /\ setup.mode = "matrix" /\ setup.frozen
  /\ {"ck_strict", "budget_matched_bare"} \subseteq Conditions /\ KernelIsLast
Answered == \A t \in TaskSet : Ck(t) \in DOMAIN ledger => seen[Ck(t)].status = "completed"

Versions == [now : Int, frozen : Int, loaded : Int]

StateInv ==
  /\ live \in Versions
  /\ ByDefault =>
    /\ \A t \in TaskSet : Ck(t) \in DOMAIN ledger => Budget(t) \in DOMAIN ledger
    /\ \A t \in TaskSet : Budget(t) \in DOMAIN ledger /\ Ck(t) \notin DOMAIN ledger =>
         at > 0 /\ t = Tasks[at] /\ todo # <<>>
    /\ Answered =>
         /\ live.frozen = live.loaded
         /\ \A t \in TaskSet : Budget(t) \in DOMAIN ledger =>
              seen[Budget(t)].state = IF Ck(t) \in DOMAIN ledger THEN seen[Ck(t)].state ELSE live.loaded

ReportInv == report.written => pc = "done" /\ ReportIsWhole /\ HeadlineIsComparable /\ MeansAreObserved

-----------------------------------------------------------------------------
(* The cells.                                                              *)

LEMMA RowsAreScored ==
  /\ \A status, output, dry : Scored(Row(status, output, dry))
  /\ \A o : Scored(MatrixRow(o)) /\ Scored(RowOfB(o))
  /\ Scored(BlockedRow)
<1>1. ASSUME NEW status, NEW output, NEW dry PROVE Scored(Row(status, output, dry))
  BY DEF Scored, Row
<1> QED BY <1>1 DEF MatrixRow, RowOfB, BlockedRow

LEMMA RecordingKeeps ==
  ASSUME LedgerInv, UNCHANGED setup, NEW c, NEW o, NEW row, NEW saw,
         Done(c, o, row, saw), OfOneKind(o), setup.mode # "live" => Told(setup.dry, o, row, saw)
  PROVE  LedgerInv'
<1>1. c \in Planned /\ c \notin DOMAIN ledger
  BY DEF Done, MayRecord
<1>2. /\ ledger' = [d \in DOMAIN ledger \cup {c} |-> IF d = c THEN o ELSE ledger[d]]
      /\ rows' = [d \in DOMAIN rows \cup {c} |-> IF d = c THEN row ELSE rows[d]]
      /\ seen' = [d \in DOMAIN seen \cup {c} |-> IF d = c THEN saw ELSE seen[d]]
  BY DEF Done, Record
<1>3. Planned' = Planned
  BY DEF Planned, Conditions, Episodes
<1>4. DOMAIN ledger' = DOMAIN ledger \cup {c} /\ DOMAIN rows' = DOMAIN ledger \cup {c}
      /\ DOMAIN seen' = DOMAIN ledger \cup {c}
  BY <1>2 DEF LedgerInv
<1>5. ASSUME NEW d \in DOMAIN ledger \cup {c}
      PROVE  /\ OfOneKind(ledger'[d])
             /\ setup.mode # "live" => Told(setup.dry, ledger'[d], rows'[d], seen'[d])
  <2>1. CASE d = c
    <3>1. ledger'[d] = o /\ rows'[d] = row /\ seen'[d] = saw
      BY <1>2, <2>1 DEF LedgerInv
    <3> QED BY <3>1
  <2>2. CASE d # c
    <3>1. d \in DOMAIN ledger /\ ledger'[d] = ledger[d] /\ rows'[d] = rows[d] /\ seen'[d] = seen[d]
      BY <1>2, <2>2 DEF LedgerInv
    <3> QED BY <3>1 DEF LedgerInv
  <2> QED BY <2>1, <2>2
<1>6. setup' \in Setups /\ DOMAIN ledger' \subseteq Planned' /\ DOMAIN rows' = DOMAIN ledger' /\ DOMAIN seen' = DOMAIN ledger'
  BY <1>1, <1>3, <1>4 DEF LedgerInv
<1>7. \A d \in DOMAIN ledger' : OfOneKind(ledger'[d])
  BY <1>4, <1>5
<1>8. setup'.mode # "live" => \A d \in DOMAIN ledger' : Told(setup'.dry, ledger'[d], rows'[d], seen'[d])
  BY <1>4, <1>5
<1> QED BY <1>6, <1>7, <1>8 DEF LedgerInv

(* A block of cells gets the word for what was not run.                    *)
LEMMA BlockKeeps == ASSUME LedgerInv, QueueInv, Block PROVE LedgerInv'
<1>1. PICK cells, o, row, saw :
        /\ cells = ToSet(todo) /\ o = (IF setup.dry THEN DryRunOnly ELSE NotRun)
        /\ row = BlockedRow /\ saw = Saw(Nothing, 0)
  OBVIOUS
<1>2. cells \subseteq Planned
  <2>1. todo \in Seq(Planned) /\ cells = {todo[i] : i \in DOMAIN todo}
    BY <1>1 DEF QueueInv, ToSet
  <2>2. \A i \in DOMAIN todo : todo[i] \in Planned
    BY <2>1
  <2> QED BY <2>1, <2>2
<1>3. /\ ledger' = [c \in DOMAIN ledger \cup cells |-> IF c \in cells THEN o ELSE ledger[c]]
      /\ rows' = [c \in DOMAIN rows \cup cells |-> IF c \in cells THEN row ELSE rows[c]]
      /\ seen' = [c \in DOMAIN seen \cup cells |-> IF c \in cells THEN saw ELSE seen[c]]
      /\ setup' = setup
  BY <1>1 DEF Block, RecordAll
<1>4. OfOneKind(o)
  BY <1>1, KindsOfOutcomes
<1>5. Told(setup.dry, o, row, saw)
  BY <1>1, RowsAreScored DEF Told, BlockedRow, Row, Saw, Nothing, DryRunOnly, NotRun, Outcome
<1>6. Planned' = Planned
  BY <1>3 DEF Planned, Conditions, Episodes
<1>7. DOMAIN ledger' = DOMAIN ledger \cup cells /\ DOMAIN rows' = DOMAIN ledger \cup cells
      /\ DOMAIN seen' = DOMAIN ledger \cup cells
  BY <1>3 DEF LedgerInv
<1>8. ASSUME NEW d \in DOMAIN ledger \cup cells
      PROVE  /\ OfOneKind(ledger'[d])
             /\ setup.mode # "live" => Told(setup.dry, ledger'[d], rows'[d], seen'[d])
  <2>1. CASE d \in cells
    <3>1. ledger'[d] = o /\ rows'[d] = row /\ seen'[d] = saw
      BY <1>3, <2>1 DEF LedgerInv
    <3> QED BY <3>1, <1>4, <1>5
  <2>2. CASE d \notin cells
    <3>1. d \in DOMAIN ledger /\ ledger'[d] = ledger[d] /\ rows'[d] = rows[d] /\ seen'[d] = seen[d]
      BY <1>3, <2>2 DEF LedgerInv
    <3> QED BY <3>1 DEF LedgerInv
  <2> QED BY <2>1, <2>2
<1>9. setup' \in Setups /\ DOMAIN ledger' \subseteq Planned' /\ DOMAIN rows' = DOMAIN ledger' /\ DOMAIN seen' = DOMAIN ledger'
  BY <1>2, <1>3, <1>6, <1>7 DEF LedgerInv
<1>10. \A d \in DOMAIN ledger' : OfOneKind(ledger'[d])
  BY <1>7, <1>8
<1>11. setup'.mode # "live" => \A d \in DOMAIN ledger' : Told(setup'.dry, ledger'[d], rows'[d], seen'[d])
  BY <1>3, <1>7, <1>8
<1> QED BY <1>9, <1>10, <1>11 DEF LedgerInv

(* What is not recorded by a step stays.                                   *)
LEMMA LedgerUntouched ==
  ASSUME LedgerInv, UNCHANGED <<setup, ledger, rows, seen>> PROVE LedgerInv'
BY DEF LedgerInv, Planned, Conditions, Episodes, Told

(* What an inference returns was observed when it completed.               *)
LEMMA ResultsAreTyped ==
  ASSUME NEW r \in Results
  PROVE  r.status = "completed" \/ (r.status \in InferenceFailures /\ r.output = Unseen)
<1>1. CASE r \in {[status |-> f, output |-> Unseen] : f \in Failures}
  <2>1. PICK f \in Failures : r = [status |-> f, output |-> Unseen]
    BY <1>1
  <2> QED BY <2>1, FailuresAssumption
<1>2. CASE r \in {[status |-> "completed", output |-> q] : q \in {"", "text"}}
  <2>1. PICK q \in {"", "text"} : r = [status |-> "completed", output |-> q]
    BY <1>2
  <2> QED BY <2>1
<1> QED BY <1>1, <1>2 DEF Results

LEMMA TurnsAreTyped ==
  ASSUME NEW turn \in Turns
  PROVE  ~turn.dry /\ (turn.inf = "completed" \/ (turn.inf \in InferenceFailures /\ turn.output = Unseen))
<1>1. CASE turn \in {TurnOf(f, Unseen, "error", TRUE, {}) : f \in Failures}
  <2>1. PICK f \in Failures : turn = TurnOf(f, Unseen, "error", TRUE, {})
    BY <1>1
  <2> QED BY <2>1, FailuresAssumption DEF TurnOf
<1>2. CASE \E output, decision, parsed, V : turn = TurnOf("completed", output, decision, parsed, V)
  BY <1>2 DEF TurnOf
<1> QED BY <1>1, <1>2 DEF Turns

LEMMA EpisodeBKeeps == ASSUME LedgerInv, EpisodeB PROVE LedgerInv'
<1>1. PICK died \in BOOLEAN, r \in WorkerResults :
        Done(Head(todo), OutcomeOfB(died, r), RowOfB(OutcomeOfB(died, r)),
             Saw(IF died THEN Nothing ELSE r, 0))
  BY DEF EpisodeB
<1>2. PICK c, o, row, saw :
        /\ c = Head(todo) /\ o = OutcomeOfB(died, r) /\ row = RowOfB(o)
        /\ saw = Saw(IF died THEN Nothing ELSE r, 0)
  OBVIOUS
<1>3. Done(c, o, row, saw) /\ UNCHANGED setup
  BY <1>1, <1>2 DEF EpisodeB
<1>4. Scored(row)
  BY <1>2, RowsAreScored
<1>5. OfOneKind(o) /\ Told(setup.dry, o, row, saw)
  <2>1. CASE setup.dry
    <3>1. o = DryRunOnly /\ r = Nothing
      BY <1>2, <2>1 DEF OutcomeOfB, WorkerResults
    <3>2. o.status = "dry_run_only" /\ o.output = Unseen /\ saw.output = Unseen
      BY <1>2, <3>1 DEF DryRunOnly, Outcome, Saw, Nothing
    <3>3. row.status = "dry_run_only" /\ row.output = Unseen
      BY <1>2, <3>2 DEF RowOfB, Unobserved, Row
    <3> QED BY <1>4, <2>1, <3>1, <3>2, <3>3, KindsOfOutcomes DEF Told
  <2>2. CASE ~setup.dry /\ died
    <3>1. o = FromLifecycle("transport_error", Unseen, "none") /\ saw = Saw(Nothing, 0)
      BY <1>2, <2>2 DEF OutcomeOfB
    <3>2. o.status = "transport_error" /\ o.output = Unseen
      BY <3>1 DEF FromLifecycle, Outcome, Unobserved, InferenceFailures
    <3>3. row.status = "transport_error" /\ row.output = Unseen
      BY <1>2, <3>2 DEF RowOfB, Unobserved, InferenceFailures, Row
    <3>4. saw.status = "none" /\ saw.output = Unseen
      BY <3>1 DEF Saw, Nothing
    <3> QED BY <1>4, <3>1, <3>2, <3>3, <3>4, KindsOfOutcomes DEF Told
  <2>3. CASE ~setup.dry /\ ~died /\ r.status = "completed"
    <3>1. o = OutcomeFromInference("completed", r.output) /\ saw = Saw(r, 0)
      BY <1>2, <2>3 DEF OutcomeOfB
    <3>2. o = Outcome("completed_invalid", r.output, FALSE, TRUE, "completed")
      BY <3>1 DEF OutcomeFromInference, ClassifyInference
    <3>3. o.status = "completed_invalid" /\ o.output = r.output
      BY <3>2 DEF Outcome
    <3>4. row.status = "completed" /\ row.output = r.output
      BY <1>2, <3>3 DEF RowOfB, Unobserved, InferenceFailures, Row
    <3>5. saw.status = "completed" /\ saw.output = r.output
      BY <2>3, <3>1 DEF Saw
    <3>6. OfOneKind(o)
      BY <3>1, KindsOfOutcomes
    <3> QED BY <1>4, <2>3, <3>3, <3>4, <3>5, <3>6 DEF Told
  <2>4. CASE ~setup.dry /\ ~died /\ r.status # "completed"
    <3>1. r \in Results
      BY <2>4 DEF WorkerResults
    <3>2. r.status \in InferenceFailures /\ r.output = Unseen
      BY <2>4, <3>1, ResultsAreTyped
    <3>3. o = FromLifecycle(r.status, Unseen, "none") /\ saw = Saw(r, 0)
      BY <1>2, <2>4 DEF OutcomeOfB
    <3>4. o.status = r.status /\ o.output = Unseen
      BY <3>2, <3>3 DEF FromLifecycle, Outcome, InferenceFailures
    <3>5. row.status = r.status /\ row.output = Unseen
      BY <1>2, <3>2, <3>4 DEF RowOfB, Unobserved, Row
    <3>6. saw.status = r.status /\ saw.output = Unseen
      BY <3>2, <3>3 DEF Saw
    <3> QED BY <1>4, <2>4, <3>3, <3>4, <3>5, <3>6, KindsOfOutcomes DEF Told
  <2> QED BY <2>1, <2>2, <2>3, <2>4
<1> QED BY <1>3, <1>5, RecordingKeeps

LEMMA LiveKeeps == ASSUME LedgerInv, ClassifyA \/ LiveEpisodeB PROVE LedgerInv'
<1>1. CASE ClassifyA
  <2>1. CASE UNCHANGED <<setup, ledger, rows, seen>>
    BY <2>1, LedgerUntouched
  <2>2. CASE Done(CellA, OutcomeOfA, Row(epA.status, epA.output, epA.dry), Saw(epA, 0)) /\ pc = "classify a"
    <3>1. PICK c, o, row, saw : /\ c = CellA /\ o = OutcomeOfA
                                /\ row = Row(epA.status, epA.output, epA.dry) /\ saw = Saw(epA, 0)
      OBVIOUS
    <3>2. Done(c, o, row, saw) /\ UNCHANGED setup
      BY <1>1, <2>2, <3>1 DEF ClassifyA
    <3>3. c \in Planned
      BY <3>2 DEF Done, MayRecord
    <3>4. "A" \in Episodes
      BY <3>1, <3>3 DEF CellA, Planned, BuildManifest
    <3>5. setup.mode = "live"
      BY <3>4 DEF Episodes
    <3>6. OfOneKind(o)
      <4>1. OfOneKind(Outcome("completed_invalid", epA.output, FALSE, TRUE, "none"))
        BY DEF OfOneKind, Outcome
      <4> QED BY <3>1, <4>1, KindsOfOutcomes DEF OutcomeOfA
    <3> QED BY <3>2, <3>5, <3>6, RecordingKeeps
  <2> QED BY <1>1, <2>1, <2>2 DEF ClassifyA
<1>2. CASE LiveEpisodeB
  <2>1. PICK reply \in LiveReplies(Tasks[at]) :
          Done(CellB, OutcomeOfLiveB(reply, Tasks[at]), Row(reply, Unseen, setup.dry),
               [status |-> reply, output |-> Unseen, state |-> 0])
    BY <1>2 DEF LiveEpisodeB
  <2>2. PICK c, o, row, saw :
          /\ c = CellB /\ o = OutcomeOfLiveB(reply, Tasks[at]) /\ row = Row(reply, Unseen, setup.dry)
          /\ saw = [status |-> reply, output |-> Unseen, state |-> 0]
    OBVIOUS
  <2>3. Done(c, o, row, saw) /\ UNCHANGED setup /\ setup.mode = "live"
    BY <1>2, <2>1, <2>2 DEF LiveEpisodeB
  <2>4. ASSUME NEW S PROVE OfOneKind(Outcome("completed_invalid", Unseen, FALSE, "event" \in S, "none"))
    BY DEF OfOneKind, Outcome
  <2>5. OfOneKind(o)
    BY <2>2, <2>4, KindsOfOutcomes DEF OutcomeOfLiveB
  <2> QED BY <2>3, <2>5, RecordingKeeps
<1> QED BY <1>1, <1>2

(* A row of the matrix has the word of the inference, not the verdict.     *)
LEMMA OutcomeKeepsInference ==
  /\ \A r \in Results : LET o == ControlOutcome(r) IN
       o.inf = r.status /\ o.inf # "none" /\ o.output = (IF r.status = "completed" THEN r.output ELSE Unseen)
  /\ \A turn \in Turns : LET o == ClassifyProductDecision(turn) IN
       o.inf = turn.inf /\ o.inf # "none" /\ o.output = turn.output
<1>1. ASSUME NEW r \in Results
      PROVE  LET o == ControlOutcome(r) IN
               o.inf = r.status /\ o.inf # "none" /\ o.output = (IF r.status = "completed" THEN r.output ELSE Unseen)
  BY ResultsAreTyped DEF ControlOutcome, OutcomeFromInference, ClassifyInference, InferenceFailures, Outcome
<1>2. ASSUME NEW turn \in Turns
      PROVE  LET o == ClassifyProductDecision(turn) IN
               o.inf = turn.inf /\ o.inf # "none" /\ o.output = turn.output
  <2>1. CASE turn.inf \in InferenceFailures
    <3>1. ClassifyProductDecision(turn) = Outcome(turn.inf, Unseen, FALSE, FALSE, turn.inf)
      <4>1. ClassifyProductDecision(turn) = OutcomeFromInference(turn.inf, Unseen)
        BY <2>1, TurnsAreTyped DEF ClassifyProductDecision
      <4> QED BY <2>1, <4>1 DEF OutcomeFromInference, ClassifyInference, InferenceFailures
    <3>2. turn.output = Unseen /\ turn.inf # "none"
      BY <2>1, TurnsAreTyped DEF InferenceFailures
    <3> QED BY <3>1, <3>2 DEF Outcome
  <2>2. CASE turn.inf = "completed"
    <3>1. ASSUME NEW status \in {"parse_failed", "schema_failed", "semantic_failed"}
          PROVE  FromLifecycle(status, turn.output, turn.inf) = Outcome(status, turn.output, FALSE, FALSE, turn.inf)
      BY <3>1 DEF FromLifecycle, Unobserved, InferenceFailures
    <3>2. PICK status \in {"unknown", "parse_failed", "schema_failed", "semantic_failed"} :
            status = IF ~turn.parsed THEN "parse_failed" ELSE ClassifyViolations(turn.violations)
      BY DEF ClassifyViolations
    <3>3. \/ ClassifyProductDecision(turn) = CompletedValid(turn.output, turn.inf)
          \/ ClassifyProductDecision(turn) = CompletedInvalid(turn.output, turn.inf)
          \/ status # "unknown" /\ ClassifyProductDecision(turn) = FromLifecycle(status, turn.output, turn.inf)
      BY <2>2, <3>2, TurnsAreTyped DEF ClassifyProductDecision, InferenceFailures
    <3>4. \E st, admitted : ClassifyProductDecision(turn) = Outcome(st, turn.output, FALSE, admitted, turn.inf)
      BY <3>1, <3>2, <3>3 DEF CompletedValid, CompletedInvalid
    <3> QED BY <2>2, <3>4 DEF Outcome
  <2> QED BY <2>1, <2>2, TurnsAreTyped
<1> QED BY <1>1, <1>2

(* A cell whose condition raised has no answer and no inference.           *)
LEMMA RaisingKeeps ==
  ASSUME LedgerInv, setup.mode = "matrix", ~setup.dry, UNCHANGED setup, NEW state,
         Raises(Head(todo), state)
  PROVE  LedgerInv'
<1>1. PICK c, o, row, saw : /\ c = Head(todo) /\ o = FromLifecycle("transport_error", Unseen, "none")
                            /\ row = Row("transport_error", Unseen, FALSE) /\ saw = Saw(Nothing, state)
  OBVIOUS
<1>2. Done(c, o, row, saw)
  BY <1>1 DEF Raises
<1>3. OfOneKind(o) /\ o.output = Unseen
  BY <1>1, KindsOfOutcomes DEF FromLifecycle, Outcome
<1>4. row.status = "transport_error" /\ row.output = Unseen /\ saw.status = "none" /\ saw.output = Unseen
  BY <1>1 DEF Row, Saw, Nothing
<1>5. Told(setup.dry, o, row, saw)
  BY <1>1, <1>3, <1>4, RowsAreScored DEF Told
<1> QED BY <1>2, <1>3, <1>5, RecordingKeeps

LEMMA MatrixKeeps == ASSUME LedgerInv, Control \/ Kernel \/ UnknownCondition PROVE LedgerInv'
<1>1. setup.mode = "matrix" /\ ~setup.dry /\ UNCHANGED setup
  <2>1. setup.mode = "matrix" /\ UNCHANGED setup
    BY DEF Control, Kernel, UnknownCondition
  <2> QED BY <2>1, PlanAssumption DEF LedgerInv
<1>2. CASE Control /\ ~Raises(Head(todo), live.loaded)
  <2>1. PICK r \in Results :
          Done(Head(todo), ControlOutcome(r), MatrixRow(ControlOutcome(r)), Saw(r, live.loaded))
    BY <1>2 DEF Control
  <2>2. PICK c, o, row, saw : /\ c = Head(todo) /\ o = ControlOutcome(r) /\ row = MatrixRow(o)
                              /\ saw = Saw(r, live.loaded)
    OBVIOUS
  <2>3. Done(c, o, row, saw)
    BY <2>1, <2>2
  <2>4. o.inf = r.status /\ o.inf # "none" /\ o.output = r.output
    BY <2>2, OutcomeKeepsInference, ResultsAreTyped
  <2>5. row.status = r.status /\ row.output = r.output /\ saw.status = r.status /\ saw.output = r.output
    BY <2>2, <2>4 DEF MatrixRow, InferenceOf, Row, Saw
  <2>6. OfOneKind(o)
    <3>1. r.status # "completed_valid"
      BY ResultsAreTyped DEF InferenceFailures
    <3> QED BY <2>2, <3>1, KindsOfOutcomes DEF ControlOutcome
  <2>7. Told(setup.dry, o, row, saw)
    BY <1>1, <2>2, <2>4, <2>5, RowsAreScored DEF Told
  <2> QED BY <1>1, <2>3, <2>6, <2>7, RecordingKeeps
<1>3. CASE Kernel
  <2>1. CASE \E turn \in Turns : LET o == ClassifyProductDecision(turn) IN
               Done(Head(todo), o, MatrixRow(o), Saw([status |-> turn.inf, output |-> turn.output], KernelState))
    <3>1. PICK turn \in Turns : LET o == ClassifyProductDecision(turn) IN
            Done(Head(todo), o, MatrixRow(o), Saw([status |-> turn.inf, output |-> turn.output], KernelState))
      BY <2>1
    <3>2. PICK c, o, row, saw : /\ c = Head(todo) /\ o = ClassifyProductDecision(turn) /\ row = MatrixRow(o)
                                /\ saw = Saw([status |-> turn.inf, output |-> turn.output], KernelState)
      OBVIOUS
    <3>3. Done(c, o, row, saw)
      BY <3>1, <3>2
    <3>4. o.inf = turn.inf /\ o.inf # "none" /\ o.output = turn.output
      BY <3>2, OutcomeKeepsInference
    <3>5. row.status = turn.inf /\ row.output = turn.output /\ saw.status = turn.inf /\ saw.output = turn.output
      BY <3>2, <3>4 DEF MatrixRow, InferenceOf, Row, Saw
    <3>6. OfOneKind(o)
      BY <3>2, KindsOfOutcomes
    <3>7. Told(setup.dry, o, row, saw)
      BY <1>1, <3>2, <3>4, <3>5, RowsAreScored DEF Told
    <3> QED BY <1>1, <3>3, <3>6, <3>7, RecordingKeeps
  <2>2. CASE Raises(Head(todo), KernelState)
    BY <1>1, <2>2, RaisingKeeps
  <2> QED BY <1>3, <2>1, <2>2 DEF Kernel
<1>4. CASE UnknownCondition
  <2>1. PICK c, o, row, saw : /\ c = Head(todo) /\ o = NotRun /\ row = Row("not_run", Unseen, FALSE)
                              /\ saw = Saw(Nothing, live.loaded)
    OBVIOUS
  <2>2. Done(c, o, row, saw)
    BY <1>4, <2>1 DEF UnknownCondition
  <2>3. OfOneKind(o) /\ o.output = Unseen
    BY <2>1, KindsOfOutcomes DEF NotRun, Outcome
  <2>4. row.status = "not_run" /\ row.output = Unseen /\ saw.status = "none" /\ saw.output = Unseen
    BY <2>1 DEF Row, Saw, Nothing
  <2>5. Told(setup.dry, o, row, saw)
    BY <2>1, <2>3, <2>4, RowsAreScored DEF Told
  <2> QED BY <1>1, <2>2, <2>3, <2>5, RecordingKeeps
<1>5. CASE Control /\ Raises(Head(todo), live.loaded)
  BY <1>1, <1>5, RaisingKeeps
<1> QED BY <1>2, <1>3, <1>4, <1>5

LEMMA LedgerStep == ASSUME LedgerInv, QueueInv, [Next]_vars PROVE LedgerInv'
<1>1. CASE Block
  BY <1>1, BlockKeeps
<1>2. CASE EpisodeB
  BY <1>2, EpisodeBKeeps
<1>3. CASE ClassifyA \/ LiveEpisodeB
  BY <1>3, LiveKeeps
<1>4. CASE Control \/ Kernel \/ UnknownCondition
  BY <1>4, MatrixKeeps
<1>5. CASE \/ Plan \/ NextTask \/ EpisodeA \/ LiveEpisodeA \/ CheckReceipts \/ WriteReport
           \/ EditTasks \/ OtherTurn \/ Ended \/ UNCHANGED vars
  <2>1. UNCHANGED <<setup, ledger, rows, seen>>
    BY <1>5 DEF Plan, NextTask, EpisodeA, LiveEpisodeA, CheckReceipts, WriteReport,
                EditTasks, OtherTurn, Ended, vars
  <2> QED BY <2>1, LedgerUntouched
<1> QED BY <1>1, <1>2, <1>3, <1>4, <1>5 DEF Next, Step

-----------------------------------------------------------------------------
(* The queue.                                                              *)

LEMMA PlanIsFixed == ASSUME LedgerInv, [Next]_vars PROVE UNCHANGED <<setup, Planned, Conditions>>
<1>1. UNCHANGED setup
  BY DEF Next, Step, Plan, NextTask, EpisodeA, Block, EpisodeB, LiveEpisodeA, ClassifyA, CheckReceipts,
         LiveEpisodeB, Control, Kernel, UnknownCondition, WriteReport, EditTasks, OtherTurn, Ended, vars
<1> QED BY <1>1 DEF Planned, Conditions, Episodes

LEMMA CellIsPlanned ==
  ASSUME LedgerInv, NEW i \in 1..Len(Tasks), NEW j \in 1..Len(setup.conditions)
  PROVE  CellOf(Tasks[i], setup.conditions[j]) \in Planned
<1>1. Tasks[i] \in TaskSet
  BY PlanAssumption DEF Distinct, TaskSet, ToSet
<1>2. setup.conditions \in Seq(Conditions)
  BY PlanAssumption DEF LedgerInv, Distinct, Conditions
<1>3. setup.conditions[j] \in Conditions
  BY <1>2
<1>4. "B" \in Episodes
  BY DEF Episodes
<1> QED BY <1>1, <1>3, <1>4 DEF CellOf, Planned, BuildManifest

(* The next cell is done: it moves from what is left to what is recorded.  *)
LEMMA AdvanceKeeps ==
  ASSUME LedgerInv, QueueInv, setup.mode # "live", pc = "cells", Advance, UNCHANGED <<setup, at>>,
         NEW o, NEW row, NEW saw, Done(Head(todo), o, row, saw)
  PROVE  QueueInv'
<1>1. PICK m, n \in Nat : m = Len(todo) /\ n = Len(setup.conditions)
  BY PlanAssumption DEF QueueInv, LedgerInv, Distinct
<1>2. /\ at \in 0..Len(Tasks) /\ todo \in Seq(Planned) /\ m <= n /\ todo # <<>> /\ at > 0 /\ Planned # {}
      /\ \A i \in 1..m : todo[i] = CellOf(Tasks[at], setup.conditions[n - m + i])
      /\ \A j \in 1..(n - m) : CellOf(Tasks[at], setup.conditions[j]) \in DOMAIN ledger
  BY <1>1 DEF QueueInv, Left
<1>3. m > 0
  BY <1>1, <1>2
<1>4. todo' = Tail(todo) /\ pc' = (IF m = 1 THEN "tasks" ELSE "cells") /\ Planned' = Planned
      /\ setup' = setup /\ at' = at
  BY <1>1 DEF Advance, Planned, Conditions, Episodes
<1>5. todo' \in Seq(Planned) /\ Len(todo') = m - 1 /\ \A i \in 1..(m - 1) : todo'[i] = todo[i + 1]
  BY <1>1, <1>2, <1>3, <1>4
<1>6. DOMAIN ledger' = DOMAIN ledger \cup {Head(todo)}
  BY DEF Done, Record
<1>7. Head(todo) = CellOf(Tasks[at], setup.conditions[n - m + 1])
  <2>1. Head(todo) = todo[1]
    BY <1>2
  <2> QED BY <1>1, <1>2, <1>3, <2>1
<1>8. ASSUME NEW i \in 1..(m - 1)
      PROVE  todo'[i] = CellOf(Tasks[at], setup.conditions[n - (m - 1) + i])
  <2>1. i + 1 \in 1..m /\ n - m + (i + 1) = n - (m - 1) + i
    OBVIOUS
  <2> QED BY <1>2, <1>5, <2>1
<1>9. ASSUME NEW j \in 1..(n - (m - 1))
      PROVE  CellOf(Tasks[at], setup.conditions[j]) \in DOMAIN ledger'
  <2>1. j \in 1..(n - m) \/ j = n - m + 1
    OBVIOUS
  <2> QED BY <1>2, <1>6, <1>7, <2>1
<1>10. todo' = <<>> <=> m = 1
  BY <1>1, <1>3, <1>5
<1>11. Left' = n - (m - 1)
  BY <1>1, <1>4, <1>5 DEF Left
<1>12. /\ at' \in 0..Len(Tasks) /\ todo' \in Seq(Planned') /\ Len(todo') <= Len(setup'.conditions)
       /\ Planned' # {} /\ at' > 0
  BY <1>1, <1>2, <1>4, <1>5
<1>13. \A i \in 1..Len(todo') : todo'[i] = CellOf(Tasks[at'], setup'.conditions[Left' + i])
  BY <1>4, <1>5, <1>8, <1>11
<1>14. \A j \in 1..Left' : CellOf(Tasks[at'], setup'.conditions[j]) \in DOMAIN ledger'
  BY <1>4, <1>9, <1>11
<1> QED BY <1>4, <1>10, <1>12, <1>13, <1>14 DEF QueueInv

LEMMA QueueStep == ASSUME LedgerInv, QueueInv, [Next]_vars PROVE QueueInv'
<1>1. UNCHANGED <<setup, Planned>>
  BY PlanIsFixed
<1>2. CASE EpisodeB \/ Control \/ Kernel \/ UnknownCondition
  <2>1. /\ setup.mode # "live" /\ pc = "cells" /\ Advance /\ UNCHANGED <<setup, at>>
        /\ \E o, row, saw : Done(Head(todo), o, row, saw)
    BY <1>2 DEF EpisodeB, Control, Kernel, UnknownCondition, Raises
  <2> QED BY <2>1, AdvanceKeeps
<1>3. CASE NextTask
  <2>1. CASE UNCHANGED <<at, todo>> /\ pc = "tasks" /\ pc' \in {"report", "died"}
    BY <1>1, <1>3, <2>1 DEF NextTask, QueueInv, Left
  <2>2. CASE /\ at # Len(Tasks) /\ at' = at + 1 /\ pc = "tasks" /\ pc' \in {"cells", "episode a"}
             /\ todo' = [i \in DOMAIN setup.conditions |-> <<Tasks[at + 1], setup.conditions[i], "B">>]
    <3>1. PICK n, k \in Nat : n = Len(setup.conditions) /\ DOMAIN setup.conditions = 1..n /\ k = Len(Tasks)
      BY PlanAssumption DEF LedgerInv, Distinct
    <3>2. at' \in 1..k
      <4>1. at \in 0..k /\ at # k /\ at' = at + 1
        BY <2>2, <3>1 DEF QueueInv
      <4> QED BY <4>1
    <3>3. ASSUME NEW i \in 1..n
          PROVE  todo'[i] = CellOf(Tasks[at'], setup.conditions[i]) /\ todo'[i] \in Planned
      <4>1. todo'[i] = CellOf(Tasks[at'], setup.conditions[i])
        BY <2>2, <3>1 DEF CellOf
      <4> QED BY <3>1, <3>2, <4>1, CellIsPlanned
    <3>4. todo' \in Seq(Planned) /\ Len(todo') = n
      <4>1. todo' = [i \in 1..n |-> todo'[i]]
        BY <2>2, <3>1
      <4> QED BY <3>1, <3>3, <4>1
    <3>5. Left' = 0
      BY <1>1, <3>1, <3>4 DEF Left
    <3>6. n > 0
      <4>1. PICK c \in Planned : TRUE
        BY <2>2 DEF QueueInv
      <4>2. Conditions # {}
        BY <4>1 DEF Planned, BuildManifest
      <4> QED BY <3>1, <4>2 DEF Conditions, ToSet
    <3>7. Planned # {}
      BY <2>2 DEF QueueInv
    <3>8. /\ at' \in 0..Len(Tasks) /\ todo' \in Seq(Planned') /\ Len(todo') <= Len(setup'.conditions)
          /\ Planned' # {} /\ at' > 0 /\ todo' # <<>>
      BY <1>1, <3>1, <3>2, <3>4, <3>6, <3>7
    <3>9. \A i \in 1..Len(todo') : todo'[i] = CellOf(Tasks[at'], setup'.conditions[Left' + i])
      BY <1>1, <3>1, <3>3, <3>4, <3>5
    <3>10. \A j \in 1..Left' : CellOf(Tasks[at'], setup'.conditions[j]) \in DOMAIN ledger'
      BY <3>5
    <3> QED BY <2>2, <3>8, <3>9, <3>10 DEF QueueInv
  <2> QED BY <1>3, <2>1, <2>2 DEF NextTask
<1>4. CASE Block
  <2>1. todo' = <<>> /\ pc' = "tasks" /\ at' = at /\ pc = "blocked"
    BY <1>4 DEF Block
  <2>2. Len(todo') = 0 /\ todo' \in Seq(Planned') /\ Len(setup.conditions) \in Nat
    BY <2>1, PlanAssumption DEF LedgerInv, Distinct
  <2> QED BY <1>1, <2>1, <2>2 DEF QueueInv
<1>5. CASE EpisodeA
  <2>1. pc = "episode a" /\ pc' \in {"blocked", "cells", "died"} /\ UNCHANGED <<at, todo, ledger>>
        /\ setup.mode = "legacy"
    BY <1>5 DEF EpisodeA
  <2> QED BY <1>1, <2>1 DEF QueueInv, Left
<1>6. CASE Plan
  <2>1. pc = "plan" /\ ((pc' = "tasks" /\ Planned # {}) \/ pc' \in {"died", "refused"}) /\ UNCHANGED <<at, todo, ledger>>
    BY <1>6 DEF Plan
  <2> QED BY <1>1, <2>1 DEF QueueInv, Left
<1>7. CASE LiveEpisodeA \/ ClassifyA \/ CheckReceipts \/ LiveEpisodeB
  <2>1. /\ pc \in {"episode a", "classify a", "receipts", "episode b"} /\ UNCHANGED <<at, todo>>
        /\ pc' \in {"classify a", "receipts", "episode b", "tasks", "died"}
        /\ setup.mode = "live" \/ pc' # "tasks"
    BY <1>7 DEF LiveEpisodeA, ClassifyA, CheckReceipts, LiveEpisodeB
  <2> QED BY <1>1, <2>1 DEF QueueInv, Left
<1>8. CASE WriteReport
  <2>1. pc = "report" /\ pc' \in {"done", "died"} /\ UNCHANGED <<at, todo, ledger>>
    BY <1>8 DEF WriteReport
  <2> QED BY <1>1, <2>1 DEF QueueInv, Left
<1>9. CASE EditTasks \/ OtherTurn \/ Ended \/ UNCHANGED vars
  <2>1. UNCHANGED <<pc, at, todo, ledger>>
    BY <1>9 DEF EditTasks, OtherTurn, Ended, vars
  <2> QED BY <1>1, <2>1 DEF QueueInv, Left
<1> QED BY <1>2, <1>3, <1>4, <1>5, <1>6, <1>7, <1>8, <1>9 DEF Next, Step

-----------------------------------------------------------------------------
(* The states the answers were given on.                                   *)

(* The kernel is the last cell of its task, and its control was answered   *)
(* before.                                                                 *)
LEMMA TheNextCell ==
  ASSUME LedgerInv, QueueInv, ByDefault, pc = "cells"
  PROVE  /\ Tasks[at] \in TaskSet /\ at > 0 /\ Len(todo) \in Nat \ {0}
         /\ Head(todo) = CellOf(Tasks[at], Head(todo)[2])
         /\ Len(todo) = 1 <=> Head(todo)[2] = "ck_strict"
         /\ Head(todo)[2] = "ck_strict" => Budget(Tasks[at]) \in DOMAIN ledger
<1>1. PICK conds : conds = setup.conditions
  OBVIOUS
<1>2. conds \in Seq(Conditions) /\ \A i, j \in DOMAIN conds : conds[i] = conds[j] => i = j
  BY <1>1, PlanAssumption DEF LedgerInv, Distinct, Conditions
<1>3. PICK n \in Nat : n = Len(conds) /\ DOMAIN conds = 1..n
  BY <1>2
<1>4. PICK m \in Nat : m = Len(todo)
  BY DEF QueueInv
<1>5. /\ m <= n /\ todo # <<>> /\ at > 0 /\ at \in 0..Len(Tasks) /\ todo \in Seq(Planned)
      /\ \A i \in 1..m : todo[i] = CellOf(Tasks[at], conds[n - m + i])
      /\ \A j \in 1..(n - m) : CellOf(Tasks[at], conds[j]) \in DOMAIN ledger
  BY <1>1, <1>3, <1>4 DEF QueueInv, Left, ByDefault
<1>6. m > 0
  BY <1>4, <1>5
<1>7. Head(todo) = CellOf(Tasks[at], conds[n - m + 1])
  <2>1. Head(todo) = todo[1]
    BY <1>5
  <2> QED BY <1>5, <1>6, <2>1
<1>8. Head(todo)[2] = conds[n - m + 1]
  BY <1>7 DEF CellOf
<1>9. conds[n] = "ck_strict"
  BY <1>1, <1>3 DEF ByDefault, KernelIsLast
<1>10. m <= n /\ m > 0
  BY <1>5, <1>6
<1>11. n - m + 1 \in 1..n /\ n \in 1..n /\ (n - m + 1 = n <=> m = 1)
  BY ONLY <1>10, m \in Nat, n \in Nat
<1>12. m = 1 <=> conds[n - m + 1] = "ck_strict"
  BY <1>2, <1>3, <1>9, <1>11
<1>13. ASSUME m = 1 PROVE Budget(Tasks[at]) \in DOMAIN ledger
  <2>1. PICK j \in 1..n : conds[j] = "budget_matched_bare"
    BY <1>1, <1>3 DEF ByDefault, Conditions, ToSet
  <2>2. j # n
    BY <1>9, <2>1
  <2>3. j \in 1..(n - m)
    BY <1>13, <2>2
  <2>4. CellOf(Tasks[at], conds[j]) \in DOMAIN ledger
    BY <1>5, <2>3
  <2>5. CellOf(Tasks[at], conds[j]) = Budget(Tasks[at])
    BY <2>1 DEF Budget
  <2> QED BY <2>4, <2>5
<1>14. Tasks[at] \in TaskSet
  <2>1. at \in 1..Len(Tasks) /\ Tasks \in Seq(TaskSet)
    BY <1>5, PlanAssumption DEF Distinct, TaskSet
  <2> QED BY <2>1
<1> QED BY <1>4, <1>5, <1>6, <1>7, <1>8, <1>12, <1>13, <1>14

LEMMA VersionsMove ==
  ASSUME NEW l \in Versions
  PROVE  /\ [l EXCEPT !.frozen = l.now, !.loaded = l.now] \in Versions
         /\ [l EXCEPT !.frozen = Dirty] \in Versions
         /\ [l EXCEPT !.now = l.now + 1] \in Versions /\ [l EXCEPT !.now = l.now] \in Versions
<1>1. PICK n, f, d \in Int : l = [now |-> n, frozen |-> f, loaded |-> d]
  BY DEF Versions
<1>2. PICK x \in Int : x = Dirty
  BY DEF Dirty
<1>3. PICK y \in Int : y = l.now + 1
  BY <1>1
<1>4. l.now = n
  BY <1>1
<1>5. [l EXCEPT !.frozen = n, !.loaded = n] \in Versions
  <2>1. l \in Versions
    OBVIOUS
  <2> QED BY <2>1 DEF Versions
<1>6. [l EXCEPT !.frozen = x] = [now |-> n, frozen |-> x, loaded |-> d]
  BY <1>1
<1>7. [l EXCEPT !.now = y] = [now |-> y, frozen |-> f, loaded |-> d]
  BY <1>1
<1>8. [l EXCEPT !.now = n] = l
  BY <1>1
<1>9. /\ [now |-> n, frozen |-> x, loaded |-> d] \in Versions
      /\ [now |-> y, frozen |-> f, loaded |-> d] \in Versions
  BY DEF Versions
<1> QED BY <1>2, <1>3, <1>4, <1>5, <1>6, <1>7, <1>8, <1>9

LEMMA Apart ==
  /\ \A t, u : Ck(t) # Budget(u)
  /\ \A t, u : (Ck(t) = Ck(u) <=> t = u) /\ (Budget(t) = Budget(u) <=> t = u)
  /\ \A t, u, k : (k # "ck_strict" => Ck(t) # CellOf(u, k)) /\ (k # "budget_matched_bare" => Budget(t) # CellOf(u, k))
BY DEF Ck, Budget, CellOf

(* Everything but the kernel sees what was loaded.                         *)
LEMMA ControlKeepsState ==
  ASSUME LedgerInv, QueueInv, StateInv, ByDefault, ByDefault', Control \/ UnknownCondition
  PROVE  StateInv'
<1>1. PICK k, T : k = Head(todo)[2] /\ T = Tasks[at]
  OBVIOUS
<1>2. /\ pc = "cells" /\ k # "ck_strict" /\ todo' = Tail(todo) /\ UNCHANGED <<at, live>>
      /\ \E o, row, r : Done(Head(todo), o, row, Saw(r, live.loaded))
  <2>1. CASE Control
    <3>1. pc = "cells" /\ k \in {"bare", "budget_matched_bare"} /\ todo' = Tail(todo) /\ UNCHANGED <<at, live>>
      BY <1>1, <2>1 DEF Control, Advance, world
    <3>2. \/ \E r \in Results :
               Done(Head(todo), ControlOutcome(r), MatrixRow(ControlOutcome(r)), Saw(r, live.loaded))
          \/ Done(Head(todo), FromLifecycle("transport_error", Unseen, "none"),
                  Row("transport_error", Unseen, FALSE), Saw(Nothing, live.loaded))
      BY <2>1 DEF Control, Raises
    <3> QED BY <3>1, <3>2
  <2>2. CASE UnknownCondition
    <3>1. pc = "cells" /\ k # "ck_strict" /\ todo' = Tail(todo) /\ UNCHANGED <<at, live>>
      BY <1>1, <2>2 DEF UnknownCondition, Advance, world
    <3>2. Done(Head(todo), NotRun, Row("not_run", Unseen, FALSE), Saw(Nothing, live.loaded))
      BY <2>2 DEF UnknownCondition
    <3> QED BY <3>1, <3>2
  <2> QED BY <2>1, <2>2
<1>3. PICK saw : /\ saw.state = live.loaded
                 /\ seen' = [d \in DOMAIN seen \cup {Head(todo)} |-> IF d = Head(todo) THEN saw ELSE seen[d]]
                 /\ DOMAIN ledger' = DOMAIN ledger \cup {Head(todo)} /\ Head(todo) \notin DOMAIN ledger
  <2>1. PICK o, row, r : Done(Head(todo), o, row, Saw(r, live.loaded))
    BY <1>2
  <2>2. Saw(r, live.loaded).state = live.loaded
    BY DEF Saw
  <2> QED BY <2>1, <2>2 DEF Done, Record, MayRecord
<1>4. Head(todo) = CellOf(T, k) /\ todo' # <<>> /\ T \in TaskSet /\ at > 0
  <2>0. PICK m \in Nat : m = Len(todo) /\ m # 0 /\ m # 1 /\ todo \in Seq(Planned)
    <3>1. Len(todo) \in Nat \ {0} /\ Len(todo) # 1
      BY <1>1, <1>2, TheNextCell
    <3> QED BY <3>1 DEF QueueInv
  <2>1. Tail(todo) \in Seq(Planned) /\ Len(Tail(todo)) = m - 1
    BY <2>0
  <2>2. Tail(todo) # <<>>
    BY <2>0, <2>1
  <2> QED BY <1>1, <1>2, <2>2, TheNextCell
<1>5. DOMAIN seen = DOMAIN ledger
  BY DEF LedgerInv
<1>6. ASSUME NEW t \in TaskSet
      PROVE  /\ Ck(t) \in DOMAIN ledger' <=> Ck(t) \in DOMAIN ledger
             /\ Ck(t) \in DOMAIN ledger => seen'[Ck(t)] = seen[Ck(t)]
             /\ Budget(t) \in DOMAIN ledger => Budget(t) \in DOMAIN ledger' /\ seen'[Budget(t)] = seen[Budget(t)]
             /\ Budget(t) \in DOMAIN ledger' /\ Budget(t) \notin DOMAIN ledger =>
                  t = T /\ Ck(t) \notin DOMAIN ledger /\ seen'[Budget(t)].state = live.loaded
  <2>1. Ck(t) # Head(todo)
    <3>1. Ck(t) # CellOf(T, k)
      BY <1>2, Apart
    <3> QED BY <1>4, <3>1
  <2>2. Budget(t) = Head(todo) => t = T
    BY <1>4, Apart DEF Budget, CellOf
  <2>3. Ck(t) \in DOMAIN ledger => Budget(t) \in DOMAIN ledger
    BY DEF StateInv
  <2> QED BY <1>3, <1>5, <2>1, <2>2, <2>3
<1>7. \A t \in TaskSet : Ck(t) \in DOMAIN ledger' => Budget(t) \in DOMAIN ledger'
  BY <1>6 DEF StateInv
<1>8. \A t \in TaskSet : Budget(t) \in DOMAIN ledger' /\ Ck(t) \notin DOMAIN ledger' =>
        at' > 0 /\ t = Tasks[at'] /\ todo' # <<>>
  BY <1>1, <1>2, <1>4, <1>6 DEF StateInv
<1>9. Answered' => Answered
  BY <1>6 DEF Answered
<1>10. ASSUME Answered', NEW t \in TaskSet, Budget(t) \in DOMAIN ledger'
       PROVE  seen'[Budget(t)].state = IF Ck(t) \in DOMAIN ledger' THEN seen'[Ck(t)].state ELSE live'.loaded
  <2>1. CASE Budget(t) \in DOMAIN ledger
    <3>1. seen[Budget(t)].state = IF Ck(t) \in DOMAIN ledger THEN seen[Ck(t)].state ELSE live.loaded
      BY <1>9, <1>10, <2>1 DEF StateInv
    <3> QED BY <1>2, <1>6, <2>1, <3>1
  <2>2. CASE Budget(t) \notin DOMAIN ledger
    BY <1>2, <1>6, <1>10, <2>2
  <2> QED BY <2>1, <2>2
<1>11. live' \in Versions /\ (Answered' => live'.frozen = live'.loaded)
  BY <1>2, <1>9 DEF StateInv
<1> QED BY <1>7, <1>8, <1>10, <1>11 DEF StateInv

(* The kernel sees the snapshot, which is then taken anew; when it raised, *)
(* its cell has no answer.                                                 *)
LEMMA KernelKeepsState ==
  ASSUME LedgerInv, QueueInv, StateInv, ByDefault, ByDefault', Kernel PROVE StateInv'
<1>1. PICK T : T = Tasks[at]
  OBVIOUS
<1>2. pc = "cells" /\ Head(todo)[2] = "ck_strict" /\ UNCHANGED at
  BY DEF Kernel
<1>3. Head(todo) = Ck(T) /\ T \in TaskSet /\ Budget(T) \in DOMAIN ledger
  BY <1>1, <1>2, TheNextCell DEF Ck
<1>4. setup.frozen
  BY DEF ByDefault
<1>5. /\ \E o, row, s : Done(Head(todo), o, row, Saw(s, live.frozen)) /\
           (\/ live' = [live EXCEPT !.frozen = live.now, !.loaded = live.now]
            \/ s.status = "none" /\ live' \in {live, [live EXCEPT !.frozen = Dirty]})
  <2>1. CASE \E turn \in Turns :
               LET o == ClassifyProductDecision(turn)
               IN  /\ Done(Head(todo), o, MatrixRow(o), Saw([status |-> turn.inf, output |-> turn.output], KernelState))
                   /\ live' = AfterKernel(turn.decision = "accept")
    BY <1>4, <2>1 DEF AfterKernel, KernelState
  <2>2. CASE /\ Done(Head(todo), FromLifecycle("transport_error", Unseen, "none"),
                     Row("transport_error", Unseen, FALSE), Saw(Nothing, KernelState))
             /\ live' \in {live, [live EXCEPT !.frozen = Dirty]}
    <3>1. Nothing.status = "none"
      BY DEF Nothing
    <3> QED BY <1>4, <2>2, <3>1 DEF KernelState
  <2> QED BY <2>1, <2>2 DEF Kernel, Raises
<1>6. PICK saw : /\ saw.state = live.frozen
                 /\ \/ live' = [live EXCEPT !.frozen = live.now, !.loaded = live.now]
                    \/ saw.status = "none" /\ live' \in {live, [live EXCEPT !.frozen = Dirty]}
                 /\ seen' = [d \in DOMAIN seen \cup {Head(todo)} |-> IF d = Head(todo) THEN saw ELSE seen[d]]
                 /\ DOMAIN ledger' = DOMAIN ledger \cup {Head(todo)} /\ Head(todo) \notin DOMAIN ledger
  <2>1. PICK o, row, s : Done(Head(todo), o, row, Saw(s, live.frozen)) /\
           (\/ live' = [live EXCEPT !.frozen = live.now, !.loaded = live.now]
            \/ s.status = "none" /\ live' \in {live, [live EXCEPT !.frozen = Dirty]})
    BY <1>5
  <2>2. Saw(s, live.frozen).state = live.frozen /\ Saw(s, live.frozen).status = s.status
    BY DEF Saw
  <2> QED BY <2>1, <2>2 DEF Done, Record, MayRecord
<1>7. DOMAIN seen = DOMAIN ledger
  BY DEF LedgerInv
<1>8. /\ Ck(T) \notin DOMAIN ledger /\ Ck(T) \in DOMAIN ledger' /\ seen'[Ck(T)] = saw
      /\ \A t \in TaskSet : Ck(t) \in DOMAIN ledger' => t = T \/ Ck(t) \in DOMAIN ledger
      /\ \A t \in TaskSet : Ck(t) \in DOMAIN ledger => Ck(t) \in DOMAIN ledger' /\ seen'[Ck(t)] = seen[Ck(t)]
      /\ \A t \in TaskSet : Budget(t) \in DOMAIN ledger' <=> Budget(t) \in DOMAIN ledger
      /\ \A t \in TaskSet : Budget(t) \in DOMAIN ledger => seen'[Budget(t)] = seen[Budget(t)]
  BY <1>3, <1>6, <1>7, Apart
<1>9. \A t \in TaskSet : Ck(t) \in DOMAIN ledger' => Budget(t) \in DOMAIN ledger'
  BY <1>3, <1>8 DEF StateInv
<1>10. \A t \in TaskSet : Budget(t) \in DOMAIN ledger' => Ck(t) \in DOMAIN ledger'
  BY <1>1, <1>8 DEF StateInv
<1>11. Answered' => Answered
  BY <1>8 DEF Answered
<1>12. live' \in Versions
  <2>1. PICK l \in Versions : l = live
    BY DEF StateInv
  <2>2. [l EXCEPT !.frozen = l.now, !.loaded = l.now] \in Versions /\ [l EXCEPT !.frozen = Dirty] \in Versions
    BY VersionsMove
  <2> QED BY <1>6, <2>1, <2>2
<1>13. Answered' => live' = [live EXCEPT !.frozen = live.now, !.loaded = live.now] /\ saw.status = "completed"
  BY <1>3, <1>6, <1>8 DEF Answered
<1>14. Answered' => live'.frozen = live'.loaded
  BY <1>13 DEF StateInv, Versions
<1>15. ASSUME Answered', NEW t \in TaskSet, Budget(t) \in DOMAIN ledger'
       PROVE  seen'[Budget(t)].state = IF Ck(t) \in DOMAIN ledger' THEN seen'[Ck(t)].state ELSE live'.loaded
  <2>1. /\ seen[Budget(t)].state = IF Ck(t) \in DOMAIN ledger THEN seen[Ck(t)].state ELSE live.loaded
        /\ live.frozen = live.loaded
    BY <1>8, <1>11, <1>15 DEF StateInv
  <2>2. Ck(t) \in DOMAIN ledger'
    BY <1>10, <1>15
  <2>3. CASE t = T
    <3>1. seen[Budget(T)].state = saw.state
      BY <1>6, <1>8, <2>1, <2>3
    <3> QED BY <1>8, <1>15, <2>2, <2>3, <3>1
  <2>4. CASE t # T
    <3>1. Ck(t) \in DOMAIN ledger
      BY <1>8, <2>2, <2>4
    <3> QED BY <1>8, <1>15, <2>1, <2>2, <3>1
  <2> QED BY <2>3, <2>4
<1>16. \A t \in TaskSet : Budget(t) \in DOMAIN ledger' /\ Ck(t) \notin DOMAIN ledger' =>
         at' > 0 /\ t = Tasks[at'] /\ todo' # <<>>
  BY <1>10
<1> QED BY <1>9, <1>12, <1>14, <1>15, <1>16 DEF StateInv

LEMMA StateStep == ASSUME LedgerInv, QueueInv, StateInv, [Next]_vars PROVE StateInv'
<1>1. UNCHANGED setup /\ (ByDefault' <=> ByDefault)
  BY PlanIsFixed DEF ByDefault, KernelIsLast, Conditions
<1>2. live' \in Versions
  <2>0. PICK l \in Versions : l = live
    BY DEF StateInv
  <2>a. /\ [l EXCEPT !.frozen = l.now, !.loaded = l.now] \in Versions
        /\ [l EXCEPT !.frozen = Dirty] \in Versions /\ [l EXCEPT !.now = l.now + 1] \in Versions
        /\ [l EXCEPT !.now = l.now] \in Versions
    BY VersionsMove
  <2>1. CASE Kernel
    <3>1. live' \in {l, [l EXCEPT !.frozen = Dirty], [l EXCEPT !.frozen = l.now, !.loaded = l.now],
                     [l EXCEPT !.now = l.now + 1], [l EXCEPT !.now = l.now]}
      BY <2>0, <2>1 DEF Kernel, AfterKernel
    <3> QED BY <2>a, <3>1
  <2>2. CASE Plan
    BY <2>0, <2>a, <2>2 DEF Plan
  <2>3. CASE OtherTurn
    BY <2>0, <2>a, <2>3 DEF OtherTurn
  <2>4. CASE UNCHANGED live
    BY <2>4 DEF StateInv
  <2> QED
    BY <2>1, <2>2, <2>3, <2>4
       DEF Next, Step, NextTask, EpisodeA, Block, EpisodeB, LiveEpisodeA, ClassifyA, CheckReceipts,
           LiveEpisodeB, Control, UnknownCondition, WriteReport, EditTasks, Ended, vars, world
<1>3. CASE ~ByDefault
  BY <1>1, <1>2, <1>3 DEF StateInv
<1>4. CASE ByDefault
  <2>1. CASE Control \/ UnknownCondition
    BY <1>1, <1>4, <2>1, ControlKeepsState
  <2>2. CASE Kernel
    BY <1>1, <1>4, <2>2, KernelKeepsState
  <2>3. CASE Plan \/ NextTask
    <3>1. pc \in {"plan", "tasks"} /\ UNCHANGED <<ledger, seen>>
          /\ (UNCHANGED live \/ live' = [live EXCEPT !.frozen = live.now, !.loaded = live.now])
      BY <2>3 DEF Plan, NextTask, world
    <3>2. todo = <<>>
      BY <1>4, <3>1 DEF QueueInv, ByDefault
    <3>3. \A t \in TaskSet : Budget(t) \in DOMAIN ledger => Ck(t) \in DOMAIN ledger
      BY <1>4, <3>2 DEF StateInv
    <3>4. live'.frozen = live'.loaded \/ UNCHANGED live
      BY <3>1 DEF StateInv, Versions
    <3>5. (Answered' <=> Answered)
      BY <3>1 DEF Answered
    <3> QED BY <1>2, <1>4, <3>1, <3>3, <3>4, <3>5 DEF StateInv
  <2>4. CASE OtherTurn \/ EditTasks \/ WriteReport \/ CheckReceipts \/ Ended \/ UNCHANGED vars
    <3>1. UNCHANGED <<ledger, seen, at, todo>>
      BY <2>4 DEF OtherTurn, EditTasks, WriteReport, CheckReceipts, Ended, vars
    <3>2. live'.frozen = live.frozen /\ live'.loaded = live.loaded
      BY <2>4 DEF OtherTurn, EditTasks, WriteReport, CheckReceipts, Ended, vars, world, StateInv, Versions
    <3>3. (Answered' <=> Answered)
      BY <3>1 DEF Answered
    <3> QED BY <1>2, <1>4, <3>1, <3>2, <3>3 DEF StateInv
  <2>5. CASE ClassifyA
    <3>1. CASE UNCHANGED <<ledger, seen, at, todo, live>>
      <4>1. (Answered' <=> Answered)
        BY <3>1 DEF Answered
      <4> QED BY <1>2, <1>4, <3>1, <4>1 DEF StateInv
    <3>2. CASE CellA \in Planned
      BY <1>4, <3>2 DEF CellA, Planned, BuildManifest, Episodes, ByDefault
    <3> QED BY <2>5, <3>1, <3>2 DEF ClassifyA, Done, MayRecord, world
  <2>6. CASE EpisodeA \/ Block \/ EpisodeB \/ LiveEpisodeA \/ LiveEpisodeB
    BY <1>4, <2>6 DEF EpisodeA, Block, EpisodeB, LiveEpisodeA, LiveEpisodeB, ByDefault, QueueInv
  <2> QED BY <2>1, <2>2, <2>3, <2>4, <2>5, <2>6 DEF Next, Step
<1> QED BY <1>3, <1>4

-----------------------------------------------------------------------------
(* The report.                                                             *)

LEMMA ReportWritten ==
  ASSUME LedgerInv, WriteReport, Validates(ledger, Planned)
  PROVE  ReportIsWhole'
<1>1. DOMAIN ledger = Planned /\ DOMAIN rows = Planned
  BY DEF LedgerInv, Validates, Missing
<1>2. UNCHANGED <<setup, ledger, rows, seen, Planned>>
  BY DEF WriteReport, Planned, Conditions, Episodes
<1>3. report'.counts = DiagnosticCounts(ledger, Planned)
  BY DEF WriteReport, LegacyReport, MatrixReport, LiveReport
<1>4. report'.counts.failed_n + report'.counts.dry_n + Cardinality({c \in Planned : ledger[c].admitted})
        = report'.counts.planned_n
  <2>1. PICK l, planned : l = ledger /\ planned = Planned
    OBVIOUS
  <2>2. IsFiniteSet(planned) /\ DOMAIN l = planned /\ \A c \in planned : OfOneKind(l[c])
    BY <1>1, <2>1, PlannedIsFinite DEF LedgerInv
  <2> QED BY <1>3, <2>1, <2>2, CountsAddUp
<1>5. ASSUME setup.mode # "live", NEW c \in Planned
      PROVE  /\ RowIsValidMeasurement(rows[c]) <=> Observed(c) /\ ~setup.dry
             /\ ledger[c].output = seen[c].output /\ rows[c].output = seen[c].output
  BY <1>1, <1>5 DEF LedgerInv, Told, RowIsValidMeasurement, Observed
<1>6. setup'.mode # "live" => \A c \in Planned' :
         /\ RowIsValidMeasurement(rows'[c]) <=> seen'[c].status = "completed" /\ ~setup'.dry
         /\ ledger'[c].output = seen'[c].output /\ rows'[c].output = seen'[c].output
  BY <1>2, <1>5 DEF Observed
<1> QED BY <1>1, <1>2, <1>4, <1>6 DEF ReportIsWhole, Observed

LEMMA HeadlineWritten ==
  ASSUME LedgerInv, StateInv, WriteReport, Validates(ledger, Planned)
  PROVE  HeadlineIsComparable'
<1>1. DOMAIN ledger = Planned /\ DOMAIN rows = Planned
  BY DEF LedgerInv, Validates, Missing
<1>2. UNCHANGED <<setup, seen>> /\ (KernelIsLast' <=> KernelIsLast)
  BY DEF WriteReport, KernelIsLast
<1> SUFFICES ASSUME setup.mode = "matrix", setup.frozen, KernelIsLast,
                    report'.gain # <<>>, report'.gain[1].headline, NEW t \in TaskSet
             PROVE  /\ seen[Ck(t)].status = "completed" /\ seen[Budget(t)].status = "completed"
                    /\ seen[Ck(t)].state = seen[Budget(t)].state
  BY <1>2 DEF HeadlineIsComparable, HeadlineGiven, Ck, Budget
<1>3. report' = MatrixReport
  BY DEF WriteReport
<1>4. /\ {"ck_strict", "budget_matched_bare"} \subseteq Conditions
      /\ PairedGain("ck_strict", "budget_matched_bare").headline
  BY <1>3 DEF MatrixReport
<1>5. LET expected == Probes("ck_strict", "budget_matched_bare")
      IN  {u \in expected : PairIsValid(u, "ck_strict", "budget_matched_bare")} = expected
  BY <1>4 DEF PairedGain
<1>6. ASSUME NEW u \in TaskSet
      PROVE  /\ Ck(u) \in DOMAIN ledger /\ Budget(u) \in DOMAIN ledger
             /\ seen[Ck(u)].status = "completed" /\ seen[Budget(u)].status = "completed"
  <2>1. Ck(u) \in Planned /\ Budget(u) \in Planned
    BY <1>4 DEF Ck, Budget, CellOf, Planned, BuildManifest, Episodes
  <2>2. u \in Probes("ck_strict", "budget_matched_bare")
    BY <1>1, <2>1 DEF Probes, Ck, Budget
  <2>3. PairIsValid(u, "ck_strict", "budget_matched_bare")
    BY <1>5, <2>2
  <2>4. rows[Ck(u)].status = "completed" /\ rows[Budget(u)].status = "completed"
    BY <2>3 DEF PairIsValid, RowIsValidMeasurement, Ck, Budget
  <2> QED BY <1>1, <2>1, <2>4 DEF LedgerInv, Told
<1>7. ByDefault /\ Answered
  BY <1>4, <1>6 DEF ByDefault, Answered
<1>8. seen[Budget(t)].state = seen[Ck(t)].state
  BY <1>6, <1>7 DEF StateInv
<1> QED BY <1>6, <1>8

(* The rows that count are those of the cells that were answered, and      *)
(* their scores are one for each text.                                     *)
Answers(name) == {c \in Planned : c[2] = name /\ Observed(c) /\ ~setup.dry}
TextsOf(name) == {c \in Answers(name) : seen[c].output = "text"}

LEMMA ValidAreAnswers ==
  ASSUME LedgerInv, DOMAIN ledger = Planned, setup.mode # "live", NEW name
  PROVE  /\ ValidOf(name) = Answers(name) /\ IsFiniteSet(Answers(name))
         /\ TotalOf(ValidOf(name)) = Cardinality(TextsOf(name))
         /\ \A c \in Planned : rows[c].score = IF seen[c].output = "text" THEN 1 ELSE 0
<1>1. \A c \in Planned : Told(setup.dry, ledger[c], rows[c], seen[c])
  BY DEF LedgerInv
<1>2. ValidOf(name) = Answers(name)
  BY <1>1 DEF LedgerInv, ValidOf, Of, RowIsValidMeasurement, Answers, Observed, Told
<1>3. IsFiniteSet(Answers(name))
  <2>1. IsFiniteSet(Planned) /\ Answers(name) \in SUBSET Planned
    BY PlannedIsFinite DEF LedgerInv, Answers
  <2> QED BY <2>1, FS_Subset
<1>4. \A c \in Planned : rows[c].score = IF seen[c].output = "text" THEN 1 ELSE 0
  BY <1>1 DEF Told, Scored, ScoreOutput
<1>5. PICK S, P, f : /\ S = Answers(name) /\ P = TextsOf(name) /\ f = [c \in S |-> rows[c].score]
  OBVIOUS
<1>6. /\ IsFiniteSet(S) /\ P \in SUBSET S /\ DOMAIN f = S
      /\ \A c \in S : f[c] = IF c \in P THEN 1 ELSE 0
  <2>1. \A c \in S : f[c] = rows[c].score /\ c \in Planned /\ (c \in P <=> seen[c].output = "text")
    BY <1>5 DEF TextsOf, Answers
  <2> QED BY <1>3, <1>4, <1>5, <2>1 DEF TextsOf
<1>7. SumFunction(f) = Cardinality(P)
  BY <1>6, SumOfOnes
<1>8. TotalOf(ValidOf(name)) = SumFunction(f)
  BY <1>2, <1>5 DEF TotalOf
<1> QED BY <1>2, <1>3, <1>4, <1>5, <1>7, <1>8

(* When every probe was answered on both sides, the total of the pairs is  *)
(* the difference of the texts.                                            *)
LEMMA HeadlineTotals ==
  ASSUME LedgerInv, DOMAIN ledger = Planned, setup.mode = "matrix", NEW ck \in Conditions, NEW control \in Conditions,
         PairedGain(ck, control).headline
  PROVE  /\ PairedGain(ck, control).bounds.low = PairedGain(ck, control).bounds.high
         /\ PairedGain(ck, control).total = BudgetConditionalGain(ck, control)
<1> DEFINE expected == Probes(ck, control)
           pairs == {t \in expected : PairIsValid(t, ck, control)}
           total == TotalDelta(pairs, ck, control)
           P == {t \in TaskSet : seen[CellOf(t, ck)].output = "text"}
           Q == {t \in TaskSet : seen[CellOf(t, control)].output = "text"}
           f == [t \in TaskSet |-> Delta(t, ck, control)]
<1>1. /\ PairedGain(ck, control).headline = (expected # {} /\ pairs = expected)
      /\ PairedGain(ck, control).total = total
      /\ PairedGain(ck, control).bounds
           = MissingnessBounds(total, Cardinality(pairs), Cardinality(expected))
  BY DEF PairedGain
<1>2. pairs = expected
  BY <1>1
<1>3. DOMAIN rows = Planned /\ \A t \in TaskSet : CellOf(t, ck) \in Planned /\ CellOf(t, control) \in Planned
  BY DEF LedgerInv, CellOf, Planned, BuildManifest, Episodes
<1>4. expected = TaskSet
  BY <1>3 DEF Probes
<1>5. \A t \in TaskSet : PairIsValid(t, ck, control)
  BY <1>2, <1>4
<1>6. IsFiniteSet(TaskSet)
  BY NamesAreFinite, PlanAssumption DEF TaskSet
<1>7. ASSUME NEW t \in TaskSet
      PROVE  Delta(t, ck, control) = (IF t \in P THEN 1 ELSE 0) - (IF t \in Q THEN 1 ELSE 0)
  <2>1. /\ rows[CellOf(t, ck)].score = IF t \in P THEN 1 ELSE 0
        /\ rows[CellOf(t, control)].score = IF t \in Q THEN 1 ELSE 0
    BY <1>3, ValidAreAnswers
  <2> HIDE DEF P, Q
  <2> QED BY <2>1 DEF Delta
<1>8. total = Cardinality(P) - Cardinality(Q)
  <2>1. P \in SUBSET TaskSet /\ Q \in SUBSET TaskSet
    OBVIOUS
  <2>2. PICK S, p, q, g : S = TaskSet /\ p = P /\ q = Q /\ g = f
    OBVIOUS
  <2>3. /\ IsFiniteSet(S) /\ p \in SUBSET S /\ q \in SUBSET S /\ DOMAIN g = S
        /\ \A t \in S : g[t] = (IF t \in p THEN 1 ELSE 0) - (IF t \in q THEN 1 ELSE 0)
    <3> HIDE DEF P, Q
    <3> QED BY <1>6, <1>7, <2>1, <2>2
  <2>4. SumFunction(g) = Cardinality(p) - Cardinality(q)
    BY <2>3, SumOfSigns
  <2>5. total = SumFunction(g)
    BY <1>2, <1>4, <2>2 DEF TotalDelta
  <2> QED BY <2>2, <2>4, <2>5
<1>9. ASSUME NEW name \in {ck, control}
      PROVE  Cardinality(TextsOf(name)) = Cardinality({t \in TaskSet : seen[CellOf(t, name)].output = "text"})
  <2> DEFINE T == {t \in TaskSet : seen[CellOf(t, name)].output = "text"}
  <2>1. \A t \in TaskSet : CellOf(t, name) \in Planned /\ Observed(CellOf(t, name)) /\ ~setup.dry
    <3>1. \A t \in TaskSet : CellOf(t, name) \in Planned /\ rows[CellOf(t, name)].status = "completed"
      BY <1>3, <1>5 DEF PairIsValid, RowIsValidMeasurement
    <3> QED BY <3>1 DEF LedgerInv, Told, Observed
  <2>2. TextsOf(name) = {CellOf(t, name) : t \in T}
    <3>1. ASSUME NEW c \in TextsOf(name) PROVE c \in {CellOf(t, name) : t \in T}
      <4>1. c \in Planned /\ c[2] = name /\ seen[c].output = "text"
        BY DEF TextsOf, Answers
      <4>2. PICK t \in TaskSet : c = CellOf(t, name)
        BY <4>1 DEF Planned, BuildManifest, Episodes, CellOf
      <4> QED BY <4>1, <4>2
    <3>2. ASSUME NEW t \in T PROVE CellOf(t, name) \in TextsOf(name)
      BY <2>1 DEF TextsOf, Answers, CellOf
    <3> QED BY <3>1, <3>2
  <2>3. PICK S : S = T /\ IsFiniteSet(S)
    BY <1>6, FS_Subset
  <2>4. Cardinality({CellOf(t, name) : t \in S}) = Cardinality(S)
    BY <2>3, ColumnCount
  <2> QED BY <2>2, <2>3, <2>4
<1>10. BudgetConditionalGain(ck, control) = Cardinality(P) - Cardinality(Q)
  BY <1>9, ValidAreAnswers DEF BudgetConditionalGain
<1>11. PairedGain(ck, control).bounds.low = PairedGain(ck, control).bounds.high
  <2>1. PICK n \in Nat : n = Cardinality(TaskSet)
    BY <1>6, FS_CardinalityType
  <2>2. Cardinality(P) \in Int /\ Cardinality(Q) \in Int
    BY <1>6, FS_Subset, FS_CardinalityType
  <2>3. PICK d \in Int : d = total
    <3>1. PICK a \in Int, b \in Int : a = Cardinality(P) /\ b = Cardinality(Q)
      BY <2>2
    <3>2. total = a - b /\ a - b \in Int
      BY <1>8, <3>1
    <3> HIDE DEF total
    <3> QED BY <3>2
  <2>4. MissingnessBounds(d, n, n).low = MissingnessBounds(d, n, n).high
    BY DEF MissingnessBounds
  <2>5. PairedGain(ck, control).bounds = MissingnessBounds(d, n, n)
    BY <1>1, <1>2, <1>4, <2>1, <2>3
  <2> QED BY <2>4, <2>5
<1> QED BY <1>1, <1>8, <1>10, <1>11

LEMMA MeansWritten ==
  ASSUME LedgerInv, WriteReport, Validates(ledger, Planned)
  PROVE  MeansAreObserved'
<1>1. DOMAIN ledger = Planned
  BY DEF LedgerInv, Validates, Missing
<1>2. UNCHANGED <<setup, ledger, rows, seen, Planned, Conditions>>
  BY DEF WriteReport, Planned, Conditions, Episodes
<1>3. ASSUME setup.mode # "live", NEW k \in Conditions
      PROVE  /\ report'.means[k].valid_n = Cardinality(Answers(k))
             /\ report'.means[k].total = Cardinality(TextsOf(k))
  <2>1. setup.mode \in {"legacy", "matrix"} /\ (setup.mode = "matrix" => ~setup.dry)
    BY <1>3, PlanAssumption DEF LedgerInv
  <2>2. report'.means[k] = Mean(k)
    BY <2>1 DEF WriteReport, LegacyReport, MatrixReport, Mean
  <2>3. CASE setup.dry
    <3>1. Answers(k) = {} /\ TextsOf(k) = {} /\ Cardinality({}) = 0
      BY <2>3, FS_EmptySet DEF Answers, TextsOf
    <3> QED BY <2>2, <2>3, <3>1 DEF Mean
  <2>4. CASE ~setup.dry
    <3>1. /\ report'.means[k].valid_n = Cardinality(ValidOf(k))
          /\ report'.means[k].total = TotalOf(ValidOf(k))
      BY <2>2, <2>4 DEF Mean, Aggregate
    <3> QED BY <1>1, <1>3, <3>1, ValidAreAnswers
  <2> QED BY <2>3, <2>4
<1>4. ASSUME setup.mode = "matrix", report'.gain # <<>>, report'.gain[1].headline
      PROVE  /\ report'.gain[1].bounds.low = report'.gain[1].bounds.high
             /\ report'.gain[1].total = report'.gain[2]
  <2>1. report' = MatrixReport
    BY <1>4 DEF WriteReport
  <2>2. /\ "ck_strict" \in Conditions /\ "budget_matched_bare" \in Conditions
        /\ report'.gain = <<PairedGain("ck_strict", "budget_matched_bare"),
                            BudgetConditionalGain("ck_strict", "budget_matched_bare")>>
    BY <1>4, <2>1 DEF MatrixReport
  <2>3. /\ report'.gain[1] = PairedGain("ck_strict", "budget_matched_bare")
        /\ report'.gain[2] = BudgetConditionalGain("ck_strict", "budget_matched_bare")
    BY <2>2
  <2>4. PairedGain("ck_strict", "budget_matched_bare").headline
    BY <1>4, <2>3
  <2> QED BY <1>1, <1>4, <2>2, <2>3, <2>4, HeadlineTotals
<1>5. setup'.mode # "live" => \A k \in Conditions' :
        LET answered == {c \in Planned' : c[2] = k /\ Observed(c)' /\ ~setup'.dry}
        IN  /\ report'.means[k].valid_n = Cardinality(answered)
            /\ report'.means[k].total = Cardinality({c \in answered : seen'[c].output = "text"})
  BY <1>2, <1>3 DEF Answers, TextsOf, Observed
<1> QED BY <1>2, <1>4, <1>5 DEF MeansAreObserved, HeadlineGiven

LEMMA ReportStep ==
  ASSUME LedgerInv, StateInv, ReportInv, [Next]_vars PROVE ReportInv'
<1>1. CASE WriteReport
  <2>1. CASE Validates(ledger, Planned)
    <3>1. pc' = "done"
      BY <1>1, <2>1 DEF WriteReport
    <3> QED BY <1>1, <2>1, <3>1, ReportWritten, HeadlineWritten, MeansWritten DEF ReportInv
  <2>2. CASE ~Validates(ledger, Planned)
    <3>1. pc = "report" /\ UNCHANGED report
      BY <1>1, <2>2 DEF WriteReport
    <3> QED BY <3>1 DEF ReportInv
  <2> QED BY <2>1, <2>2
<1>2. CASE UNCHANGED vars
  <2>1. UNCHANGED <<setup, pc, ledger, rows, report, seen, Planned, Conditions>>
    BY <1>2 DEF vars, Planned, Conditions, Episodes
  <2>2. ReportIsWhole => ReportIsWhole'
    BY <2>1 DEF ReportIsWhole, Observed
  <2>3. HeadlineIsComparable => HeadlineIsComparable'
    BY <2>1 DEF HeadlineIsComparable, HeadlineGiven, KernelIsLast
  <2>4. MeansAreObserved => MeansAreObserved'
    <3> DEFINE Rests == setup.mode # "live" => \A k \in Conditions :
                          /\ report.means[k].valid_n = Cardinality(Answers(k))
                          /\ report.means[k].total = Cardinality(TextsOf(k))
               Closes == HeadlineGiven => /\ report.gain[1].bounds.low = report.gain[1].bounds.high
                                          /\ report.gain[1].total = report.gain[2]
    <3>1. MeansAreObserved <=> (report.written => Rests) /\ Closes
      BY DEF MeansAreObserved, Answers, TextsOf
    <3>2. MeansAreObserved' <=> (report'.written => Rests') /\ Closes'
      BY DEF MeansAreObserved, Answers, TextsOf
    <3>3. ASSUME NEW k PROVE Answers(k)' = Answers(k) /\ TextsOf(k)' = TextsOf(k)
      BY <2>1 DEF Answers, TextsOf, Observed
    <3>4. (Rests <=> Rests') /\ (Closes <=> Closes')
      BY <2>1, <3>3 DEF HeadlineGiven
    <3> HIDE DEF Rests, Closes
    <3> QED BY <2>1, <3>1, <3>2, <3>4
  <2> QED BY <2>1, <2>2, <2>3, <2>4 DEF ReportInv
<1>3. CASE (Step /\ ~WriteReport) \/ EditTasks \/ OtherTurn
  <2>1. pc # "done" /\ UNCHANGED report
    BY <1>3 DEF Step, Plan, NextTask, EpisodeA, Block, EpisodeB, LiveEpisodeA, ClassifyA, CheckReceipts,
                LiveEpisodeB, Control, Kernel, UnknownCondition, EditTasks, OtherTurn, Running
  <2> QED BY <2>1 DEF ReportInv
<1> QED BY <1>1, <1>2, <1>3 DEF Next, Ended

-----------------------------------------------------------------------------
(* Theorems.                                                               *)

IInv == LedgerInv /\ QueueInv /\ StateInv /\ ReportInv

LEMMA InitInv == Init => IInv
<1> SUFFICES ASSUME Init PROVE IInv
  OBVIOUS
<1>1. DOMAIN ledger = {} /\ DOMAIN rows = {} /\ DOMAIN seen = {} /\ setup \in Setups
  BY DEF Init, EmptyLedger
<1>2. LedgerInv
  BY <1>1 DEF LedgerInv
<1>3. QueueInv
  <2>1. Len(Tasks) \in Nat /\ Len(setup.conditions) \in Nat
    BY <1>1, PlanAssumption DEF Distinct
  <2>2. at = 0 /\ todo = <<>> /\ pc = "plan" /\ Len(todo) = 0
    BY DEF Init
  <2> QED BY <2>1, <2>2 DEF QueueInv
<1>4. StateInv
  <2>1. live \in Versions /\ live.frozen = live.loaded
    BY DEF Init, Versions
  <2> QED BY <1>1, <2>1 DEF StateInv
<1>5. ReportInv
  BY DEF Init, NoReport, ReportInv
<1> QED BY <1>2, <1>3, <1>4, <1>5 DEF IInv

LEMMA StepInv == IInv /\ [Next]_vars => IInv'
BY LedgerStep, QueueStep, StateStep, ReportStep DEF IInv

LEMMA Invariance == Spec => []IInv
BY InitInv, StepInv, PTL DEF Spec

(* In every run of either orchestrator, for any tasks and conditions, a    *)
(* report that was written is about every planned cell and says of each    *)
(* what its worker saw; the failed, the dry and the admitted add up to the *)
(* plan.                                                                   *)
THEOREM ReportsAreWhole == Spec => []ReportIsWhole
<1>1. IInv => ReportIsWhole
  BY DEF IInv, ReportInv, ReportIsWhole
<1> QED BY <1>1, Invariance, PTL

(* However often other processes take turns on the live state, a paired    *)
(* headline of the matrix as it runs by default compares answers given on  *)
(* the same state, one for one.                                            *)
THEOREM HeadlinesAreComparable == Spec => []HeadlineIsComparable
<1>1. IInv => HeadlineIsComparable
  BY DEF IInv, ReportInv, HeadlineIsComparable, HeadlineGiven
<1> QED BY <1>1, Invariance, PTL

(* In every run of either orchestrator, for any tasks and conditions, the  *)
(* means of a report rest on the answers that were seen and on no failure, *)
(* and under a headline the bounds of score.py have closed on a total that *)
(* is the edge gain too.                                                   *)
THEOREM MeansWereObserved == Spec => []MeansAreObserved
<1>1. IInv => MeansAreObserved
  BY DEF IInv, ReportInv, MeansAreObserved, HeadlineGiven
<1> QED BY <1>1, Invariance, PTL
=============================================================================
