---------------------------- MODULE MCGovernedRun ----------------------------
(***************************************************************************)
(* Instances of GovernedRun for TLC.  In the first setup two cells meet a  *)
(* reply of each kind the client and the adapter tell apart, and the run   *)
(* crashes and is started again; in the second one cell is published while *)
(* the run goes on and crashes, under edits and two commits, which a       *)
(* branch that is verified follows, or under an ignore rule.               *)
(***************************************************************************)
EXTENDS GovernedRun

CONSTANTS c0, c1

MCCells == <<c0, c1>>
MCReply(transport, shape, thinking, text) ==
  [transport |-> transport, shape |-> shape, thinking |-> thinking, text |-> text]
MCReplies ==
  {MCReply("timeout", "read", FALSE, "blank"), MCReply("refused", "read", FALSE, "blank"),
   MCReply("answered", "unreadable", FALSE, "blank")}
  \cup {MCReply("answered", "read", thinking, text) : thinking \in BOOLEAN, text \in Texts}

MCQuiet(gold, pair) ==
  [cells |-> 2, replies |-> MCReplies, gold |-> gold, pair |-> pair,
   starts |-> 2, edits |-> 0, ignores |-> 0, adds |-> 0, commits |-> 0, checks |-> 0]
MCBusy(edits, ignores, commits) ==
  [cells |-> 1, replies |-> {MCReply("answered", "read", FALSE, "assertions")}, gold |-> TRUE,
   pair |-> TRUE, starts |-> 1, edits |-> edits, ignores |-> ignores, adds |-> 2,
   commits |-> commits, checks |-> 1]
MCSetups ==
  {MCQuiet(gold, pair) : gold, pair \in BOOLEAN}
  \cup {MCBusy(1, 0, 2), MCBusy(0, 1, 1)}
=============================================================================
