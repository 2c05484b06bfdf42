----------------------------- MODULE ReturnPath -----------------------------
(***************************************************************************)
(* What becomes of a model's reply: the obligation a state question puts   *)
(* on it, the substrate's own answer when the reply does not meet it, the  *)
(* grounding and validation of the candidate, and the decision.            *)
(***************************************************************************)
EXTENDS ContextField

(* --- obligations ------------------------------------------------------- *)

QuestionOrder == <<"cloud_policy", "operator", "prove", "design_intent", "goal", "edge_or_model",
                   "open_threads", "store", "recent_recall">>

(* The kind of the first cue in this order; an order to remember a         *)
(* codeword is no question.                                                *)
ClassifyStateQuestion(m) ==
  LET i == SelectInSeq(QuestionOrder, LAMBDA k : k \in Messages[m].asks)
  IN IF i = 0 THEN "none"
     ELSE CASE QuestionOrder[i] = "prove" -> "goal"
            [] QuestionOrder[i] = "store" -> "none"
            [] OTHER -> QuestionOrder[i]

(* Newest first: a code when one is asked for, a line about the human, an  *)
(* answer that recalls, a line that introduces a value, any code.          *)
PickRememberSource(ring, m) ==
  LET q == Messages[m].cues
      User(Test(_)) == SelectLastInSeq(ring, LAMBDA t : Test(Messages[t.user]))
      code == User(LAMBDA u : u.code)
      self == User(LAMBDA u : u.chars >= 20 /\ "asking" \notin u.cues /\ u.values # {})
      told == SelectLastInSeq(ring, LAMBDA t : Said(t.answer).recalls)
      named == User(LAMBDA u : "introduces" \in u.cues /\ u.values # {})
  IN IF "token" \in q /\ code # 0 THEN <<"user", ring[code].user>>
     ELSE IF ("self" \in q \/ "token" \notin q) /\ self # 0 THEN <<"user", ring[self].user>>
     ELSE IF told # 0 THEN <<"assistant">> \o ring[told].answer
     ELSE IF named # 0 THEN <<"user", ring[named].user>>
     ELSE IF code # 0 THEN <<"user", ring[code].user>>
     ELSE <<"nothing">>

(* The code alone when there is one.  An answer of the substrate's own     *)
(* recorded before is traced to what it quoted.                            *)
RecallText(source) ==
  CASE source[1] = "user" ->
         <<"fallback", IF Messages[source[2]].code THEN "code" ELSE "quote", source[2]>>
    [] source[1] = "assistant" /\ source[2] = "fallback" -> Tail(source)
    [] source[1] = "assistant" /\ source[2] = "model" ->
         <<"fallback", IF Answers[source[3]].code THEN "code told" ELSE "recorded", source[3]>>
    [] OTHER -> <<"fallback", "nothing">>

RecallObligation(ring, m) ==
  LET source == PickRememberSource(ring, m)
      text == RecallText(source)
      recent == SubSeq(ring, IF Len(ring) > 3 THEN Len(ring) - 2 ELSE 1, Len(ring))
  IN IF ring = <<>>
     THEN [kind |-> "recent_recall", claims |-> <<<<"no recent dialogue">>>>,
           required |-> {"no dialogue"}, text |-> <<"fallback", "no dialogue">>,
           evidence |-> <<<<"no recent turns">>>>]
     ELSE [kind |-> "recent_recall", claims |-> <<<<"recent">> \o Tail(text)>>,
           required |-> IF text[2] = "nothing" THEN {}
                        ELSE IF text[2] \in {"code", "quote"} THEN Messages[text[3]].values
                        ELSE Quoted(text).topics,
           text |-> text,
           evidence |-> [i \in DOMAIN recent |-> <<"user", recent[i].user>>]]

(* The canonical claims, and the evidence shown for them, of a kind.       *)
Claims(s, kind) ==
  CASE kind = "goal" -> <<IF s.goal THEN <<"goal">> ELSE <<"no goal">>>>
    [] kind = "design_intent" -> <<IF s.design_intent THEN <<"intent">> ELSE <<"no intent">>>>
    [] kind = "operator" -> <<IF s.person THEN <<"operator">> ELSE <<"no operator">>>>
    [] kind = "edge_or_model" -> <<<<"edge">>, <<"model">>, <<"active profile">>>>
    [] kind = "cloud_policy" -> IF s.cloud THEN <<<<"cloud configured">>>>
                                ELSE <<<<"local">>, <<"local only">>>>
    [] kind = "open_threads" ->
         IF s.threads = <<>> THEN <<<<"no threads">>>>
         ELSE [i \in DOMAIN s.threads |-> <<"thread", s.threads[i]>>]
ClaimEvidence(s, kind) ==
  CASE kind = "goal" /\ ~s.goal -> <<<<"goal empty">>>>
    [] kind = "design_intent" /\ ~s.design_intent -> <<<<"intent empty">>>>
    [] kind = "operator" /\ ~s.person -> <<<<"operator empty">>>>
    [] kind = "edge_or_model" -> <<<<"edge">>, <<"active profile">>>>
    [] kind = "cloud_policy" /\ s.cloud -> <<<<"cloud enabled short">>>>
    [] kind = "cloud_policy" /\ ~s.cloud -> <<<<"local">>>>
    [] kind = "open_threads" /\ s.threads = <<>> -> <<<<"thread count">>>>
    [] kind = "open_threads" /\ s.threads # <<>> -> AtMost(4, Claims(s, kind))
    [] OTHER -> Claims(s, kind)

NoObligation == [kind |-> "none", claims |-> <<>>, required |-> {}, text |-> NoText,
                 evidence |-> <<>>]

ResolveObligation(s, ring, m) ==
  LET kind == ClassifyStateQuestion(m)
  IN CASE kind = "none" -> NoObligation
       [] kind = "recent_recall" -> RecallObligation(ring, m)
       [] OTHER -> [kind |-> kind, claims |-> Claims(s, kind), required |-> {kind},
                    text |-> <<"fallback", kind>>, evidence |-> ClaimEvidence(s, kind)]

HasRequired(found, required) ==
  \/ required = {}
  \/ LET hits == Cardinality(found \cap required)
     IN hits >= (IF Cardinality(required) <= 2 THEN 1 ELSE (Cardinality(required) + 1) \div 2)

(* Empty, an echo of the question, a leak of the schema or of the          *)
(* instructions, a missing or a reversed claim, the goal for the intent.   *)
Preserves(text, ob, m) ==
  LET said == Said(text)
  IN /\ said.words > 0 /\ m \notin said.echoes /\ ~said.leak /\ ~said.template
     /\ HasRequired(IF ob.kind = "recent_recall" THEN said.topics ELSE said.states, ob.required)
     /\ ob.kind \notin said.denies
     /\ ob.kind = "design_intent" => said.echoes \cap {"goal", "intent"} = {}

(* --- the candidate ----------------------------------------------------- *)

(* A reply is [shape, text, evidence, touches]; prose and cut off JSON are *)
(* taken as the answer of a candidate that did not parse.                  *)
ParseCandidate(reply) ==
  [ok |-> reply.shape = "object", text |-> reply.text, fallback |-> FALSE, source |-> "model",
   evidence |-> IF reply.shape \in {"object", "bad state"} THEN reply.evidence ELSE <<>>,
   touches |-> IF reply.shape \in {"object", "bad evidence"} THEN reply.touches ELSE {}]

RenderFallbackCandidate(ob) ==
  [ok |-> TRUE, text |-> ob.text, fallback |-> TRUE, source |-> "substrate",
   evidence |-> ob.evidence, touches |-> {}]

EnforceAuthoritativeCandidate(c, ob, m) ==
  CASE ob.kind = "none" -> c
    [] ob.kind # "none" /\ ~(c.ok /\ Preserves(c.text, ob, m)) -> RenderFallbackCandidate(ob)
    [] OTHER -> IF c.evidence = <<>> THEN [c EXCEPT !.evidence = ob.evidence, !.source = "substrate"]
                ELSE c

(* --- validation -------------------------------------------------------- *)

(* Evidence of less than 12 characters is no evidence.                     *)
Usable(l) == Core(l) \notin Brief
Occurs(l, k) == Core(l) = Core(k) \/ <<Core(l), Core(k)>> \in Within

PacketEvidencePool(p, s) ==
  IF p.mode = "companion"
  THEN {Core(l) : l \in ToSet(p.pool) \cup ToSet(p.claims) \cup ToSet(p.facts)}
  ELSE ToSet(p.facts) \cup {<<"thread", p.threads[i]>> : i \in DOMAIN p.threads}
       \cup {<<"user", p.turns[i].user>> : i \in DOMAIN p.turns}
       \cup {p.turns[i].answer : i \in DOMAIN p.turns}
       \cup {l \in {<<"goal">>} : s.goal} \cup {l \in {<<"intent">>} : s.design_intent}

(* The facts that share most with the answer, at most two; else the first; *)
(* without facts the goal; without a goal a sentence of its own.           *)
SubstrateSupplyEvidence(p, s, text) ==
  LET facts == IF p.facts = <<>> /\ s.goal THEN <<<<"goal">>>> ELSE p.facts
      shared == Filter(facts, LAMBDA l : Core(l)[1] \in Said(text).states \cup Said(text).topics)
  IN IF facts = <<>> THEN <<<<"fully local">>>>
     ELSE IF shared = <<>> THEN <<facts[1]>> ELSE AtMost(2, shared)

CompanionGrounding(c, p, s) ==
  LET usable == Filter(c.evidence, Usable)
  IN IF usable # <<>> THEN [c EXCEPT !.evidence = usable]
     ELSE [c EXCEPT !.evidence = SubstrateSupplyEvidence(p, s, c.text),
                    !.source = "substrate supplied"]

UncheckedCitations(c, p) == c

(* A citation stays that occurs in a line of the selected pool or in which *)
(* one occurs, be that line as short as it may; when none is left the      *)
(* first line of the pool that is long enough is cited.                    *)
AlignCitations(c, p) ==
  LET items == IF p.pool # <<>> THEN p.pool ELSE p.facts
      Selected(l) == \E i \in ToSet(items) : Occurs(l, i) \/ Occurs(i, l)
      cited == Filter(c.evidence, LAMBDA l : Usable(l) /\ Selected(l))
      supply == SelectInSeq(items, Usable)
  IN CASE cited # <<>> -> [c EXCEPT !.evidence = cited]
       [] cited = <<>> /\ supply # 0 -> [c EXCEPT !.evidence = <<items[supply]>>,
                                                 !.source = "substrate supplied"]
       [] OTHER -> [c EXCEPT !.evidence = <<>>]

EvidenceLongEnough(evidence, pool) == evidence # <<>> /\ \A l \in ToSet(evidence) : Usable(l)

(* Here a line of the pool that occurs in the citation has to be long      *)
(* enough itself.                                                          *)
EvidenceOk(evidence, pool) ==
  /\ evidence # <<>>
  /\ \A l \in ToSet(evidence) :
       Usable(l) /\ \E k \in pool : Occurs(l, k) \/ (Usable(k) /\ Occurs(k, l))

IsSubstantialRepeat(text, prior) ==
  LET new == Said(text).topics
      old == Said(prior).topics
  IN text = prior \/ (old # {} /\ old \subseteq new /\ Cardinality(new \ old) <= 3)

UserPromptKnownToChange(p) == p.turns # <<>> /\ Last(p.turns).user # p.user

(* The line is compared with the last turn of the packet.                  *)
UserPromptChanged(p) == p.turns = <<>> \/ Last(p.turns).user # p.user

InventedAssistantHistory(text, p) ==
  /\ Said(text).past # ""
  /\ \A t \in ToSet(p.turns) : Said(t.answer).past # Said(text).past

IsResponsive(text, m) ==
  LET asked == Messages[m].topics
  IN IF asked = {} THEN Said(text).words >= 4
     ELSE Cardinality(asked \cap Said(text).topics) >= (IF Cardinality(asked) <= 3 THEN 1 ELSE 2)

(* What a line of the facts denies.                                        *)
DeniedBy(l) ==
  CASE Core(l)[1] \in {"local", "local only", "fully local"} -> "cloud"
    [] Core(l)[1] \in {"sensors", "tools"} -> Core(l)[1]
    [] OTHER -> "nothing"
FactContradictions(text, p) ==
  {a \in Said(text).asserts : \E l \in ToSet(p.facts) : DeniedBy(l) = a}

Violations(c, p, s) ==
  LET said == Said(c.text)
      companion == p.mode = "companion"
      pool == PacketEvidencePool(p, s)
      quiet == companion /\ pool = {} /\ c.evidence = <<>>
      own == ~c.fallback
      When(v, holds) == IF holds THEN {v} ELSE {}
  IN When("parse_failed", ~c.ok)
     \cup When("missing_answer", said.words = 0)
     \cup When("template_echo", said.template)
     \cup When("goal_echo", own /\ s.goal /\ "goal" \in said.echoes)
     \cup When("intent_echo", own /\ s.design_intent /\ "intent" \in said.echoes)
     \cup When("invented_assistant_history", own /\ InventedAssistantHistory(c.text, p))
     \cup When("not_responsive", own /\ ~companion /\ said.words > 0 /\ ~IsResponsive(c.text, p.user))
     \cup When("stale_response_repeat",
               /\ companion /\ own /\ said.words > 0 /\ p.prior # NoText
               /\ UserPromptChanged(p) /\ IsSubstantialRepeat(c.text, p.prior))
     \cup When("max_words_exceeded", said.words > Profile.words)
     \cup When("evidence", ~quiet /\ ~EvidenceOk(c.evidence, pool))
     \cup When("goal_not_referenced",
               ~companion /\ said.words > 0 /\ s.goal /\ "goal" \notin said.states)
     \cup When("forbidden", said.link)
     \cup When("contradicts_facts", FactContradictions(c.text, p) # {})
     \cup When("unknown_thread_touch", ~companion /\ ~(c.touches \subseteq ToSet(p.threads)))

(* --- the decision ------------------------------------------------------ *)

ValidateCandidate(c, p, s) ==
  LET grounded == IF p.mode = "companion" THEN AlignCitations(CompanionGrounding(c, p, s), p) ELSE c
  IN [candidate |-> grounded, violations |-> Violations(grounded, p, s)]

Assess(violations, pass) ==
  IF violations = {} THEN "accept"
  ELSE IF pass < Profile.repairs /\ pass = 0 THEN "repair" ELSE "reject"

(* What a repair plan lets the model cite and touch.                       *)
RepairPlan(p, violations) ==
  [evidence |-> AtMost(4, IF p.pool # <<>> THEN p.pool ELSE p.facts),
   threads |-> IF p.mode = "companion" /\ "unknown_thread_touch" \notin violations THEN {}
               ELSE ToSet(p.threads)]
=============================================================================
