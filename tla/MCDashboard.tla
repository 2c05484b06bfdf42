----------------------------- MODULE MCDashboard -----------------------------
(***************************************************************************)
(* Instances of Dashboard for TLC: two request threads, one browser, one   *)
(* restart, and the chat process beside them in half of the behaviours.    *)
(***************************************************************************)
EXTENDS Dashboard

MCText(words, bytes) == [words |-> words, head |-> words, bytes |-> bytes]
MCTexts ==
  [blank |-> MCText({}, 0),
   rain |-> MCText({"rain", "river", "stone"}, 40),
   goal |-> MCText({"goal", "river"}, 30),
   \* a reply long enough to be cut: what is kept of it is a reply about rain
   long |-> [words |-> {"rain", "river", "stone", "delta", "ocean"}, head |-> {"rain", "river", "stone"}, bytes |-> 400],
   \* the goal, verbatim
   echo |-> MCText({"goal", "kernel"}, 20)]
MCRelevant == [rain |-> {}, goal |-> {1}]
MCCanonical == <<[words |-> {"goal", "kernel"}, bytes |-> 20]>>
MCThreads == <<[words |-> {"thread"}, bytes |-> 20]>>
MCOldField ==
  [elements |-> <<FlowElement(<<"topic", "model", 0>>, {"moon", "tide"}, 20, 832, 1)>>,
   recent |-> <<"echo">>, turns |-> 4]
MCWatched(mode, connections, stops) ==
  [mode |-> mode, chatting |-> FALSE, watching |-> Watchers, connections |-> connections, stops |-> stops,
   lines |-> {"rain"}, replies |-> {"long"}, field |-> NoFile]
MCSetups ==
  {MCWatched("flow", 1, 1), MCWatched("pipeline", MaxConnections, 0)}
  \cup [mode : {"flow"}, chatting : {FALSE}, watching : {{}}, connections : {0}, stops : {1},
        lines : {{"rain", "goal"}}, replies : {{"blank", "long", "echo"}}, field : {NoFile, MCOldField}]
  \cup [mode : {"flow"}, chatting : {TRUE}, watching : {{}}, connections : {0}, stops : {1},
        lines : {{"goal"}}, replies : {{"blank", "long"}, {"echo"}}, field : {MCOldField}]
MCStages == <<"accept">>
=============================================================================
