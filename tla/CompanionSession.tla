-------------------------- MODULE CompanionSession --------------------------
(***************************************************************************)
(* One session of turns over one substrate: a line is asked in companion   *)
(* or measurement mode, compiled into a packet, answered by the model in   *)
(* whatever form, and the candidate accepted, sent back once for repair,   *)
(* or rejected; accepted exchanges enter the byte capped ring that later   *)
(* packets are made of.  Nobody else writes the state meanwhile (that is   *)
(* SubstrateTurn), and the state declares no executable gate.              *)
(***************************************************************************)
EXTENDS ReturnPath

CONSTANTS Setups,      \* [substrate, messages, modes, answers, shapes, invents]
          MaxTurns     \* bound: turns asked

(* Lines are asked in one of two modes.                                    *)
ASSUME SetupsAssumption ==
  \A given \in Setups :
    /\ given.substrate.threads \in Seq(STRING)
    /\ given.messages \subseteq DOMAIN Messages /\ given.answers \subseteq DOMAIN Answers
    /\ given.modes \subseteq {"companion", "measurement"}

VARIABLES ring,        \* accepted exchanges of this session: [user, answer]
          turn,        \* the turn a reply is awaited for
          last,        \* how the last turn ended
          asked,       \* turns asked so far
          setup        \* the substrate, and what may be said in this session
vars == <<ring, turn, last, asked, setup>>

NoTurn == [pc |-> "idle"]
NoPacket == [mode |-> "none"]
NoPlan == [evidence |-> <<>>, threads |-> {}]
NoResult == [decision |-> "none"]

Init == ring = <<>> /\ turn = NoTurn /\ last = NoResult /\ asked = 0 /\ setup \in Setups

s == setup.substrate
Ended(decision) ==
  [m |-> turn.m, mode |-> turn.mode, decision |-> decision, kind |-> turn.ob.kind,
   text |-> NoText, fallback |-> FALSE, evidence |-> <<>>, violations |-> {}, before |-> ring]

(* The state is loaded once, and the obligation resolved from it.          *)
Ask(m, mode) ==
  /\ turn.pc = "idle" /\ asked < MaxTurns
  /\ asked' = asked + 1
  /\ turn' = [pc |-> "compile", m |-> m, mode |-> mode, pass |-> 0, plan |-> NoPlan, packet |-> NoPacket,
              ob |-> IF mode = "companion" THEN ResolveObligation(s, ring, m) ELSE NoObligation]
  /\ last' = NoResult
  /\ UNCHANGED <<ring, setup>>

(* A packet that still does not fit after every trim ends the turn.        *)
Send(packet) ==
  /\ IF Fits(packet)
     THEN /\ turn' = [turn EXCEPT !.pc = "infer", !.packet = packet]
          /\ UNCHANGED last
     ELSE turn' = NoTurn /\ last' = Ended("error")
  /\ UNCHANGED <<ring, asked, setup>>

CompileTurn ==
  /\ turn.pc = "compile"
  /\ Send(EnforcePacketBudget(BuildArrivalPacket(s, ring, turn.m, turn.mode, turn.ob.claims,
                                                 turn.pass > 0)))

(* A timeout, a transport error, an invalid or a missing final response.   *)
InferenceFails ==
  /\ turn.pc = "infer"
  /\ turn' = NoTurn /\ last' = Ended("error")
  /\ UNCHANGED <<ring, asked, setup>>

(* The newest exchanges the cap holds; a template echo is never kept.      *)
AppendRecentTurn(text) ==
  LET turns == Append(ring, [user |-> turn.m, answer |-> text])
  IN IF Messages[turn.m].words = 0 \/ Said(text).template THEN ring
     ELSE SubSeq(turns, IF Len(turns) > RingTurns THEN Len(turns) - RingTurns + 1 ELSE 1, Len(turns))

Decide(c, violations, decision) ==
  /\ IF decision = "repair"
     THEN /\ turn' = [pc |-> "compile", m |-> turn.m, mode |-> turn.mode, pass |-> turn.pass + 1,
                      plan |-> RepairPlan(turn.packet, violations), packet |-> NoPacket, ob |-> turn.ob]
          /\ UNCHANGED <<ring, last>>
     ELSE /\ turn' = NoTurn
          /\ last' = [Ended(decision) EXCEPT
                        !.text = c.text, !.fallback = c.fallback, !.evidence = c.evidence,
                        !.violations = violations]
          /\ ring' = IF decision = "accept" THEN AppendRecentTurn(c.text) ELSE ring
  /\ UNCHANGED <<asked, setup>>

Judge(receipt) ==
  Decide(receipt.candidate, receipt.violations, Assess(receipt.violations, turn.pass))

Answer(reply) ==
  Judge(ValidateCandidate(EnforceAuthoritativeCandidate(ParseCandidate(reply), turn.ob, turn.m),
                          turn.packet, s))

(* Nothing, a line that was shown, one of the repair plan, an invention,   *)
(* or the human's own line and an invention.                               *)
Cited ==
  {<<>>} \cup {<<l>> : l \in ModelInput(turn.packet) \cup ToSet(turn.plan.evidence) \cup setup.invents}
  \cup {<<<<"user", turn.m>>, l>> : l \in setup.invents}

(* Companion mode filters an unknown thread, so none is told there.        *)
Touched == IF turn.mode = "measurement" THEN {turn.plan.threads, {"invented"}} ELSE {{}}

Reply ==
  /\ turn.pc = "infer"
  /\ \E shape \in setup.shapes, a \in setup.answers, evidence \in Cited,
        touches \in Touched :
       Answer([shape |-> shape, text |-> <<"model", a>>, evidence |-> evidence, touches |-> touches])

NewSession ==
  /\ turn.pc = "idle" /\ ring # <<>>
  /\ ring' = <<>> /\ last' = NoResult
  /\ UNCHANGED <<turn, asked, setup>>

Next ==
  \/ \E m \in setup.messages, mode \in setup.modes : Ask(m, mode)
  \/ CompileTurn
  \/ Reply
  \/ InferenceFails
  \/ NewSession

Spec == Init /\ [][Next]_vars

-----------------------------------------------------------------------------
(* The lines of the state and of this session's dialogue, and the claims.  *)
Held(m, mode, r) ==
  {<<"user", r[i].user>> : i \in DOMAIN r} \cup {r[i].answer : i \in DOMAIN r}
  \cup {c.line : c \in ToSet(StateContributions(s))} \cup ToSet(FactList(s))
  \cup {<<"thread", s.threads[i]>> : i \in DOMAIN s.threads}
  \cup (IF mode = "companion" THEN ToSet(ResolveObligation(s, r, m).claims) ELSE {})

(* A state question that a reply arrived for is never rejected because the *)
(* reply did not parse or was empty; for instruction text only when the    *)
(* human line it was answered with has some; and for its evidence only on  *)
(* account of a line too short to be cited: the alignment keeps a citation *)
(* in which such a line of the pool occurs, and the check refuses it.      *)
(* (What else rejects it is in the text: a link, a contradiction, a stale  *)
(* phrase, too many words.)                                                *)
StateIsAnswered ==
  last.decision = "reject" /\ last.kind # "none" =>
    /\ last.violations \cap {"parse_failed", "missing_answer"} = {}
    /\ "template_echo" \in last.violations => last.fallback /\ Quoted(last.text).template
    /\ "evidence" \in last.violations =>
         \E t \in Held(last.m, last.mode, last.before) :
           /\ ~Usable(t)
           /\ last.evidence = <<>> \/ \E l \in ToSet(last.evidence) : Occurs(t, l)

(* Every citation of an accepted answer is a piece of a line the substrate *)
(* held when the question was asked, in the state or in this session's     *)
(* dialogue, or has such a line of at least 12 characters in it: none was  *)
(* invented, and none survives from a session that was cleared.            *)
EvidenceIsHeld ==
  last.decision = "accept" =>
    \A l \in ToSet(last.evidence) : \E h \in Held(last.m, last.mode, last.before) :
      Occurs(l, h) \/ (Usable(h) /\ Occurs(h, l))

(* A model answers with the very words of the last answer only when the    *)
(* human had said the same line before, in the session as it is kept.      *)
RepeatIsAskedAgain ==
  /\ last.decision = "accept" /\ last.mode = "companion" /\ ~last.fallback
  /\ last.before # <<>> /\ last.text = Last(last.before).answer
  => \E i \in DOMAIN last.before : last.before[i].user = last.m

(* A repetition of the last answer is accepted only when the human's last  *)
(* line is repeated as well.                                               *)
StaleIsRefused ==
  /\ last.decision = "accept" /\ last.mode = "companion" /\ ~last.fallback
  /\ last.before # <<>> /\ last.text = Last(last.before).answer
  => Last(last.before).user = last.m
=============================================================================
