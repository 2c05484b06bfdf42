------------------------- MODULE MCCompanionSession -------------------------
(***************************************************************************)
(* Instances of CompanionSession for TLC: a session of small talk, one in  *)
(* which something is told and asked for again, and one of state questions *)
(* against packets that have to be trimmed.  The lines are ones whose      *)
(* intents and question kinds the code's classifiers give as written here. *)
(***************************************************************************)
EXTENDS CompanionSession

MCMessage(words, chars, cues, asks, topics) ==
  [words |-> words, chars |-> chars, cues |-> cues, asks |-> asks, topics |-> topics,
   values |-> {}, code |-> FALSE, link |-> FALSE, template |-> FALSE, asserts |-> {}]

MCMessages ==
  [hi |-> MCMessage(1, 2, {"greeting"}, {}, {}),
   yo |-> MCMessage(1, 2, {"greeting"}, {}, {}),
   \* and why is that?
   why |-> MCMessage(4, 16, {"react", "wh", "mark", "task"}, {}, {}),
   \* the riverbed holds the water when it rains
   river |-> [MCMessage(8, 42, {}, {}, {"riverbed", "water"}) EXCEPT !.values = {"riverbed", "water"}],
   \* remember the codeword FALCON-9-DELTA for later today
   store |-> [MCMessage(7, 52, {"introduces", "token", "probe"}, {"store"}, {"falcon"})
                EXCEPT !.values = {"falcon"}, !.code = TRUE],
   \* the notes keep cloud storage at https://example.org
   link |-> [MCMessage(7, 51, {"policy"}, {}, {"notes", "storage"})
               EXCEPT !.values = {"notes", "storage"}, !.link = TRUE],
   \* my notes prefer exact strings from facts
   marker |-> [MCMessage(7, 40, {}, {}, {"notes", "strings"})
                 EXCEPT !.values = {"notes", "strings"}, !.template = TRUE],
   \* what was the codeword again?
   recall |-> MCMessage(5, 28, {"react", "wh", "mark", "task", "token", "probe"},
                        {"recent_recall"}, {"codeword"}),
   \* what did i tell you about myself
   self |-> MCMessage(7, 32, {"task", "wh", "self", "asking"}, {"recent_recall"}, {}),
   \* what is our current goal?
   goal |-> MCMessage(5, 25, {"purpose", "task", "wh", "mark", "probe"}, {"goal"}, {"goal"}),
   \* design intent
   intent |-> MCMessage(2, 13, {"purpose"}, {"design_intent"}, {"intent"}),
   \* who am i
   who |-> MCMessage(3, 8, {"person", "wh"}, {"operator"}, {}),
   \* is cloud allowed, which board, what model, what is this system's goal, any open threads?
   wide |-> MCMessage(15, 88, {"purpose", "runtime", "edge", "policy", "threads", "task", "wh", "mark"},
                      {"cloud_policy", "goal", "edge_or_model", "open_threads"}, {"cloud", "board"}),
   \* list the open threads
   threads |-> MCMessage(4, 21, {"threads", "task", "opener"}, {"open_threads"}, {"threads"})]

MCAnswer(words, topics, states) ==
  [words |-> words, topics |-> topics, states |-> states, denies |-> {}, asserts |-> {},
   echoes |-> {}, link |-> FALSE, code |-> FALSE, template |-> FALSE, leak |-> FALSE, past |-> "",
   boiler |-> FALSE, recalls |-> FALSE]

MCAnswers ==
  [blank |-> MCAnswer(0, {}, {}),
   \* oh hi you
   warm |-> MCAnswer(3, {}, {}),
   \* the riverbed holds the water and FALCON-9-DELTA was kept
   water |-> [MCAnswer(9, {"riverbed", "water", "falcon"}, {}) EXCEPT !.code = TRUE],
   \* noted, FALCON-9-DELTA is the codeword then
   noted |-> [MCAnswer(6, {"falcon"}, {}) EXCEPT !.recalls = TRUE, !.code = TRUE],
   offered |-> [MCAnswer(8, {"goal"}, {}) EXCEPT !.past = "offered"],
   \* a short helpful reply grounded in the packet is what
   echo |-> [MCAnswer(10, {}, {}) EXCEPT !.template = TRUE, !.leak = TRUE],
   \* the state_digest holds FALCON-9-DELTA
   schema |-> [MCAnswer(4, {"falcon"}, {}) EXCEPT !.leak = TRUE, !.code = TRUE],
   cloudy |-> [MCAnswer(6, {"cloud", "board"}, {"cloud_policy", "goal", "operator"})
                 EXCEPT !.asserts = {"cloud"}, !.link = TRUE],
   status |-> [MCAnswer(40, {"goal", "intent"}, {"goal", "design_intent", "open_threads"})
                 EXCEPT !.boiler = TRUE],
   paste |-> [MCAnswer(12, {"goal"}, {"goal", "design_intent"}) EXCEPT !.echoes = {"goal"}]]

\* What a model may cite that is no line: "from this conversation" (conversation), "as told,
\* the riverbed holds the water when it rains" (padded), "holds the water" (part), "water" (stub).
MCBrief == {<<"user", "hi">>, <<"user", "yo">>, <<"user", "who">>, <<"model", "blank">>,
            <<"model", "warm">>, <<"invented", "stub">>}

\* What of the lines above occurs in a line of the state ("This system ..."), in another of
\* the lines above or in an answer that quotes one ("You previously said: ...").
MCContainers ==
  {<<<<"user", "hi">>, {<<"cloud enabled">>, <<"profile">>, <<"fully local">>, <<"cloud configured">>,
                        <<"no recent dialogue">>, <<"fallback", "no dialogue">>, <<"model", "warm">>,
                        <<"invented", "conversation">>}>>,
   <<<<"user", "yo">>, {<<"user", "self">>, <<"model", "warm">>} \cup
                       {<<"fallback", "quote", m>> : m \in {"river", "link", "marker"}}>>,
   <<<<"user", "intent">>, {<<"intent">>, <<"no intent">>, <<"intent empty">>}>>,
   <<<<"user", "river">>, {<<"invented", "padded">>, <<"fallback", "quote", "river">>}>>,
   <<<<"invented", "part">>, {<<"user", "river">>, <<"model", "water">>, <<"invented", "padded">>,
                              <<"fallback", "quote", "river">>}>>,
   <<<<"invented", "stub">>, {<<"user", "river">>, <<"model", "water">>, <<"invented", "padded">>,
                              <<"invented", "part">>, <<"fallback", "quote", "river">>}>>}
  \cup {<<<<"user", m>>, {<<"fallback", "quote", m>>}>> : m \in {"link", "marker"}}
MCWithin == UNION {{<<c[1], l>> : l \in c[2]} : c \in MCContainers}

\* In tens of bytes, as long as such lines are.
MCBytes ==
  [current_input |-> 8, durable_fact |-> 14, constraint |-> 6, runtime |-> 6, person |-> 24,
   design_intent |-> 42, goal |-> 32, thread |-> 10, recent_dialogue |-> 36, fact |-> 8,
   packet |-> 120, repair |-> 80]
MCProfile == [selected |-> 180, facts |-> 8, threads |-> 2, bytes |-> 230, words |-> 30, repairs |-> 1]

MCFull == [person |-> TRUE, design_intent |-> TRUE, goal |-> TRUE, cloud |-> FALSE,
           threads |-> <<"size", "order", "third">>]
MCEmpty == [person |-> FALSE, design_intent |-> FALSE, goal |-> FALSE, cloud |-> TRUE,
            threads |-> <<>>]

MCIdOrder == <<"order", "size", "third">>

MCSetup(substrate, messages, modes, answers, shapes, invents) ==
  [substrate |-> substrate, messages |-> messages, modes |-> modes, answers |-> answers,
   shapes |-> shapes, invents |-> {<<"invented", i>> : i \in invents}]

MCShapes == {"object", "prose", "bad evidence", "bad state"}
MCSetups ==
  {MCSetup(MCFull, {"hi", "yo", "why", "river"}, {"companion"}, {"warm", "water", "echo"},
           {"object", "prose"}, {"conversation", "padded", "part", "stub"}),
   MCSetup(MCFull, {"hi", "store", "link", "marker", "recall", "self"}, {"companion"},
           {"water", "noted", "blank", "schema"}, MCShapes, {"conversation"})}
  \cup {MCSetup(sub, {"goal", "intent", "who", "wide", "threads"}, {"companion", "measurement"},
                {"cloudy", "status", "paste", "offered"}, {"object", "bad evidence"},
                {"conversation"}) :
          sub \in {MCFull, MCEmpty}}
=============================================================================
