---------------------------- MODULE ContinuityLog ----------------------------
(***************************************************************************)
(* What the continuity subsystem promises to its readers: a state that     *)
(* only ever grows, by whole candidates, each admissible and each entirely *)
(* new when it is accepted.                                                *)
(***************************************************************************)
CONSTANTS Candidates, Seed, Contents, Admissible

VARIABLES relations,    (* the canonical state                             *)
          accepted      (* the candidates that made it                     *)

Init == relations = Seed /\ accepted = {}

Accept(c) ==
  /\ c \notin accepted
  /\ Contents[c] # {}
  /\ Contents[c] \subseteq Admissible \ relations
  /\ relations' = relations \cup Contents[c]
  /\ accepted' = accepted \cup {c}

Next == \E c \in Candidates : Accept(c)

Spec == Init /\ [][Next]_<<relations, accepted>>
=============================================================================
