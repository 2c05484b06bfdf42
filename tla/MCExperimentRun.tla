-------------------------- MODULE MCExperimentRun --------------------------
(***************************************************************************)
(* Instances of ExperimentRun for TLC: every way the two programs are      *)
(* called that changes what they do, over two tasks.                       *)
(***************************************************************************)
EXTENDS ExperimentRun

CONSTANTS t1, t2

MCTasks == <<t1, t2>>
MCCall(mode, dry, inject, conditions, frozen, named, made) ==
  [mode |-> mode, dry |-> dry, inject |-> inject, conditions |-> conditions,
   frozen |-> frozen, named |-> named, store |-> made]

MCArms == <<"ck_packet", "broken_packet", "bare_serialized">>
MCMatrix == {<<"bare", "budget_matched_bare", "ck_strict">>, <<"ck_strict", "budget_matched_bare">>, <<"ck_strict", "bare">>, <<"ck_strict", "other">>}
MCLive == {MCCall("live", dry, inject, <<"live_ck">>, TRUE, TRUE, made) :
             dry, inject \in BOOLEAN, made \in {{}, {"made", "event", "accepted"}}}
MCSetups ==
  {MCCall("legacy", dry, FALSE, MCArms, TRUE, named, {}) : dry, named \in BOOLEAN}
  \cup MCLive
  \cup {MCCall("matrix", FALSE, FALSE, cs, frozen, TRUE, {}) : cs \in MCMatrix, frozen \in BOOLEAN}
  \cup {MCCall("matrix", FALSE, FALSE, <<"bare", "ck_strict">>, TRUE, FALSE, {})}
  \cup {MCCall(mode, FALSE, FALSE, <<>>, TRUE, TRUE, {}) : mode \in {"legacy", "matrix"}}

(* Status tokens resolve to the status they name, a bare completed never   *)
(* to a scientific one, and a verdict that may be accepted is admissible.  *)
ASSUME /\ \A s \in TerminalStatus : ClassifyUnknownStatus(s) = {s}
       /\ ClassifyUnknownStatus("completed") # {"completed_valid"}
       /\ \A turn \in Turns :
            LET o == ClassifyProductDecision(turn)
            IN  MayExist(o) /\ (MayBeAccepted(o) => MayExist(FinalizeAccepted(o, "text")))
=============================================================================
