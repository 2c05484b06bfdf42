---------------------------- MODULE ContextField ----------------------------
(***************************************************************************)
(* What a turn's model is shown: the intents of a line, the contributions  *)
(* of the substrate, their selection under a byte budget (companion mode)  *)
(* or the whole fact list (measurement mode), and the arrival packet with  *)
(* its trims.  A line is a tuple of strings: <<"goal">>, <<"user", m>>,    *)
(* <<"thread", t>>, <<"invented", i>>, and <<"must">> \o l is l after      *)
(* "[must preserve]".  Lines of the state whose texts contain one another  *)
(* are one line; every other containment is a pair of Within.              *)
(***************************************************************************)
EXTENDS Selections

CONSTANTS Messages,    \* human lines: [words, chars, cues, asks, topics, values, code, link,
                       \*               template, asserts]
          Answers,     \* model texts: [words, topics, states, denies, asserts, echoes, link, code,
                       \*               template, leak, past, boiler, recalls]
          Within,      \* pairs of lines: the text of the first occurs in that of the second
          Brief,       \* lines of less than 12 characters
          IdOrder,     \* thread ids in the order of their texts
          Bytes,       \* bytes of a line, by kind of contribution
          Profile,     \* [selected, facts, threads, bytes, words, repairs]
          RingTurns    \* exchanges the byte cap of the ring holds

ASSUME TextsAssumption ==
  /\ DOMAIN Messages \subseteq STRING /\ DOMAIN Answers \subseteq STRING
  /\ \A a \in DOMAIN Answers : Answers[a].words \in Nat
  /\ \A m \in DOMAIN Messages : Messages[m].words \in Nat
  /\ IdOrder \in Seq(STRING)
  /\ Profile.facts \in Nat /\ Profile.threads \in Nat
  /\ RingTurns \in Nat \ {0}

(* What contains a longer line is longer, and containment is an order.     *)
ASSUME LinesAssumption ==
  /\ \A m \in DOMAIN Messages : <<"user", m>> \in Brief <=> Messages[m].chars < 12
  /\ \A w \in Within : w[1] # w[2] /\ (w[2] \in Brief => w[1] \in Brief)
  /\ \A v, w \in Within : v[2] = w[1] => <<v[1], w[2]>> \in Within

SystemIntents == {"purpose", "person", "runtime", "edge", "policy", "threads"}
NoText == <<"none">>

(* --- texts ------------------------------------------------------------- *)

(* The substrate's own answers are <<"fallback", how, quoted id>>: a human *)
(* line or an answer recorded before as it was, or the one code of either. *)
Quoted(text) ==
  LET none == [words |-> 0, topics |-> {text[2]}, link |-> FALSE, template |-> FALSE, asserts |-> {}]
  IN CASE text[2] = "quote" -> Messages[text[3]]
       [] text[2] = "recorded" -> Answers[text[3]]
       [] text[2] = "code" -> [none EXCEPT !.topics = Messages[text[3]].values]
       [] text[2] = "code told" -> [none EXCEPT !.topics = Answers[text[3]].topics]
       [] OTHER -> none

Said(text) ==
  CASE text[1] = "model" -> Answers[text[2]]
    [] text[1] = "fallback" ->
         [words |-> 8 + Quoted(text).words, topics |-> Quoted(text).topics, states |-> {text[2]},
          denies |-> {}, asserts |-> Quoted(text).asserts, echoes |-> {}, link |-> Quoted(text).link,
          template |-> Quoted(text).template, leak |-> FALSE, past |-> "", boiler |-> FALSE,
          recalls |-> text[2] \in {"code", "code told", "recorded"}]
    [] OTHER -> [words |-> 0, topics |-> {}, states |-> {}, denies |-> {}, asserts |-> {},
                 echoes |-> {}, link |-> FALSE, template |-> FALSE, leak |-> FALSE, past |-> "",
                 boiler |-> FALSE, recalls |-> FALSE]

(* --- intents ----------------------------------------------------------- *)

IsTaskOrInquiry(q) ==
  /\ "checkin" \notin q.cues
  /\ q.cues \cap {"task", "wh", "mark", "opener"} # {} \/ {"want", "object"} \subseteq q.cues

IsPresenceOrAffect(q) ==
  /\ ~IsTaskOrInquiry(q)
  /\ \/ "greeting" \in q.cues /\ ~(q.words > 5 /\ "directive" \in q.cues)
     \/ "ack" \in q.cues /\ q.words <= 2
     \/ "affect" \in q.cues /\ ~({"ambiguous", "noun"} \subseteq q.cues)
     \/ q.words <= 3 /\ q.cues \cap {"mark", "probe", "terse"} = {}
     \/ "particle" \in q.cues /\ q.words <= 10

DetectIntents(m) ==
  LET q == Messages[m]
      system == q.cues \cap SystemIntents
      found == system
               \cup {i \in {"social"} : system = {} /\ IsPresenceOrAffect(q)}
               \cup {i \in {"dialogue_followup"} : q.words <= 6 /\ "react" \in q.cues}
  IN IF q.words = 0 THEN {"social"} ELSE IF found = {} THEN {"open"} ELSE found

SocialOnly(intents) == intents \subseteq {"social", "dialogue_followup"}
Openish(intents) ==
  "open" \in intents /\ intents \cap {"purpose", "runtime", "edge", "policy", "threads"} = {}

(* --- contributions ----------------------------------------------------- *)

Contribution(kind, tags, priority, line) ==
  [kind |-> kind, tags |-> tags, priority |-> priority, line |-> line, answer |-> NoText]

(* The lines of a substrate s, a record [person, design_intent, goal,      *)
(* cloud, threads], in the order they are collected.                       *)
StateContributions(s) ==
  LET always ==
        <<Contribution("durable_fact", {"purpose", "identity", "project"}, 25, <<"identity">>),
          Contribution("constraint", {"policy", "cloud", "local"}, 30,
                       IF s.cloud THEN <<"cloud enabled">> ELSE <<"local">>),
          Contribution("constraint", {"policy", "sensors"}, 40, <<"sensors">>),
          Contribution("constraint", {"policy", "tools"}, 45, <<"tools">>),
          Contribution("runtime", {"runtime", "model"}, 15, <<"model">>),
          Contribution("runtime", {"runtime", "profile"}, 18, <<"profile">>),
          Contribution("runtime", {"edge", "hardware", "jetson", "orin"}, 22, <<"edge">>),
          Contribution("constraint", {"repair", "runtime", "experiment"}, 50, <<"repair budget">>)>>
      given ==
        <<Contribution("person", {"person", "operator", "identity"}, 12, <<"operator">>),
          Contribution("design_intent", {"purpose", "intent", "design", "project"}, 15, <<"intent">>),
          Contribution("goal", {"purpose", "goal", "project"}, 20, <<"purpose">>)>>
  IN Filter(given, LAMBDA c : s[c.kind])
     \o always
     \o [i \in DOMAIN s.threads |->
           Contribution("thread", {"threads", "experiment"}, 55, <<"thread", s.threads[i]>>)]

(* "newer slightly higher": but it is the oldest exchange that gets the    *)
(* highest number, and lower numbers come first in the packet.             *)
DialoguePriority(ring, i) == 10 + (Len(ring) - (i - 1))

DialogueContributions(ring) ==
  [i \in DOMAIN ring |->
     [Contribution("recent_dialogue", {"dialogue"}, DialoguePriority(ring, i), <<"user", ring[i].user>>)
        EXCEPT !.answer = ring[i].answer]]

CollectContributions(s, ring) == StateContributions(s) \o DialogueContributions(ring)

TagsMatch(c, intents) ==
  \/ "purpose" \in intents
     /\ c.tags \cap {"purpose", "goal", "project", "identity", "intent", "design"} # {}
  \/ "person" \in intents /\ c.tags \cap {"person", "operator", "identity"} # {}
  \/ "runtime" \in intents /\ c.tags \cap {"runtime", "model", "profile"} # {}
  \/ "edge" \in intents /\ c.tags \cap {"edge", "hardware", "jetson", "orin"} # {}
  \/ "policy" \in intents /\ c.tags \cap {"policy", "cloud", "local", "sensors", "tools"} # {}
  \/ "threads" \in intents /\ c.tags \cap {"threads", "experiment"} # {}

(* --- selection --------------------------------------------------------- *)

Latest(c, available) ==
  \A d \in ToSet(available) : d.kind = "recent_dialogue" => d.priority <= c.priority

DialogueWanted(c, m, intents, available) ==
  LET user == Messages[c.line[2]]
      spoken == Said(c.answer)
      overlap == Messages[m].topics \cap (user.topics \cup spoken.topics)
      latest == Latest(c, available)
  IN /\ ~(/\ spoken.boiler /\ intents \cap {"purpose", "dialogue_followup"} = {}
          /\ ~latest \/ SocialOnly(intents) \/ Openish(intents))
     /\ \/ "dialogue_followup" \in intents /\ latest
        \/ Cardinality(overlap) >= 2 /\ ~SocialOnly(intents)
        \/ latest /\ ~SocialOnly(intents) /\ "open" \in intents

StateWanted(c, intents) ==
  /\ ~SocialOnly(intents) /\ TagsMatch(c, intents)
  /\ c.kind = "thread" => "threads" \in intents
  /\ c.line = <<"repair budget">> => "runtime" \in intents

(* An answer is told once.  First come, first served: a contribution that  *)
(* does not fit any more is left out, a later and shorter one may still be *)
(* taken.                                                                  *)
Choose(available, intents, m) ==
  LET Dialogue(i) == available[i].kind = "recent_dialogue"
      Wanted(i) == IF Dialogue(i) THEN DialogueWanted(available[i], m, intents, available)
                   ELSE StateWanted(available[i], intents)
      Told(i) == \E j \in 1..(i - 1) :
                   Dialogue(j) /\ available[j].answer = available[i].answer /\ Wanted(j)
      Cost(i) == Bytes[available[i].kind]
      Takes(i, used) ==
        Wanted(i) /\ ~(Dialogue(i) /\ Told(i)) /\ used + Cost(i) <= Profile.selected
      used[i \in 0..Len(available)] ==
        IF i = 0 THEN Bytes["current_input"]
        ELSE LET before == used[i - 1]
             IN before + (IF Takes(i, before) THEN Cost(i) ELSE 0)
  IN At(available, {i \in DOMAIN available : Takes(i, used[i - 1])})

(* By priority, then by id: "dialogue..." before "state...", and threads,  *)
(* which are all of one priority, by their own ids.                        *)
IdRank(c) ==
  IF c.kind = "thread" THEN SelectInSeq(IdOrder, LAMBDA t : t = c.line[2]) ELSE 0

Ordered(chosen) ==
  LET Group(c) == IF c.kind = "recent_dialogue" THEN 0 ELSE 1
      Place(c) == (2 * c.priority + Group(c)) * (Len(IdOrder) + 1) + IdRank(c)
  IN Arranged(chosen, DOMAIN chosen,
              [i \in DOMAIN chosen |-> Place(chosen[i]) * (Len(chosen) + 1) + i])

SelectContributions(s, ring, m) ==
  Ordered(Choose(CollectContributions(s, ring), DetectIntents(m), m))

SelectedFacts(chosen) ==
  LET told == Filter(chosen, LAMBDA c : c.kind # "recent_dialogue")
  IN [i \in DOMAIN told |-> told[i].line]
SelectedRecentTurns(chosen) ==
  LET told == Filter(chosen, LAMBDA c : c.kind = "recent_dialogue")
  IN [i \in DOMAIN told |-> [user |-> told[i].line[2], answer |-> told[i].answer]]
SelectedOpenThreads(chosen) ==
  LET told == Filter(chosen, LAMBDA c : c.kind = "thread")
  IN [i \in DOMAIN told |-> told[i].line[2]]
EvidencePoolFromSelected(chosen) ==
  LET both == [k \in 1..(2 * Len(chosen)) |->
                 LET c == chosen[(k + 1) \div 2] IN IF k % 2 = 1 THEN c.line ELSE c.answer]
  IN At(both, {k \in DOMAIN both :
                 k % 2 = 1 \/ chosen[(k + 1) \div 2].kind = "recent_dialogue"})

(* --- the arrival packet ------------------------------------------------ *)

(* state.fact_list: told in measurement mode, whatever the line says.      *)
FactList(s) ==
  <<<<"fully local">>, <<"sensors">>, <<"transducer">>, <<"edge">>, <<"repair budget">>,
    <<"active profile">>, <<"goal">>>>
  \o (IF s.design_intent THEN <<<<"intent">>>> ELSE <<>>)
  \o (IF s.person THEN <<<<"operator">>>> ELSE <<>>)

Must(l) == <<"must">> \o l
Core(l) == IF l[1] = "must" THEN Tail(l) ELSE l

AtMost(n, s) == SubSeq(s, 1, IF Len(s) < n THEN Len(s) ELSE n)

PriorAnswer(ring) == IF ring = <<>> THEN NoText ELSE Last(ring).answer

(* What is chosen, and the first four claims as lines that must be kept.   *)
CompanionContext(chosen, pool, kept) ==
  [facts |-> SelectedFacts(chosen) \o [i \in DOMAIN kept |-> Must(kept[i])],
   threads |-> SelectedOpenThreads(chosen), turns |-> SelectedRecentTurns(chosen),
   pool |-> pool \o Filter(kept, LAMBDA l : l \notin ToSet(pool))]
CompanionBlock(chosen, claims) ==
  CompanionContext(chosen, EvidencePoolFromSelected(chosen), AtMost(4, claims))

MeasurementBlock(s, ring) ==
  [facts |-> FactList(s), threads |-> s.threads, turns |-> ring, pool |-> FactList(s)]

BuildArrivalPacket(s, ring, m, mode, claims, repair) ==
  LET companion == mode = "companion"
      block == IF companion THEN CompanionBlock(SelectContributions(s, ring, m), claims)
               ELSE MeasurementBlock(s, ring)
  IN [mode |-> mode, user |-> m, claims |-> claims, prior |-> PriorAnswer(ring), repair |-> repair,
      facts |-> block.facts, threads |-> block.threads, turns |-> block.turns, pool |-> block.pool]

PacketByteSize(p) ==
  Bytes["packet"] + Bytes["fact"] * Len(p.facts) + Bytes["thread"] * Len(p.threads)
  + Bytes["recent_dialogue"] * Len(p.turns) + Bytes["fact"] * Len(p.claims)
  + (IF p.repair THEN Bytes["repair"] ELSE 0)

Fits(p) == PacketByteSize(p) <= Profile.bytes

(* The fewest of at most n drops after which the packet fits, of the       *)
(* numbers that are enough; all n when none is.                            *)
Drops(n, enough) == IF enough = {} THEN n ELSE Min(enough)

Least(n) == IF n < 0 THEN 0 ELSE n

(* The turns go from the front, "oldest first"; the selected ones of a     *)
(* companion packet are newest first.                                      *)
DropTurns(p) ==
  LET Dropped(k) == [p EXCEPT !.turns = SubSeq(@, k + 1, Len(@))]
      n == Len(p.turns)
  IN Dropped(Drops(n, {k \in 0..n : Fits(Dropped(k))}))
DropFacts(p) ==
  LET Dropped(k) == [p EXCEPT !.facts = SubSeq(@, 1, Len(@) - k)]
      n == Least(Len(p.facts) - 2)
  IN Dropped(Drops(n, {k \in 0..n : Fits(Dropped(k))}))
DropThreads(p) ==
  LET Dropped(k) == [p EXCEPT !.threads = SubSeq(@, 1, Len(@) - k)]
      n == Least(Len(p.threads) - 1)
  IN Dropped(Drops(n, {k \in 0..n : Fits(Dropped(k))}))

(* The evidence pool is set aside before the trims and put back after.     *)
EnforcePacketBudget(p) ==
  DropThreads(DropFacts(DropTurns(
    [p EXCEPT !.facts = AtMost(Profile.facts, @), !.threads = AtMost(Profile.threads, @)])))

(* What the model reads of the packet: the lines of the context block.     *)
ModelInput(p) ==
  ToSet(p.facts) \cup {<<"thread", p.threads[i]>> : i \in DOMAIN p.threads}
  \cup {<<"user", p.turns[i].user>> : i \in DOMAIN p.turns}
  \cup {p.turns[i].answer : i \in DOMAIN p.turns}
  \cup {Must(p.claims[i]) : i \in 1..Len(AtMost(4, p.claims))}
=============================================================================
