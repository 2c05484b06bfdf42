--------------------------- MODULE MCSubstrateTurn ---------------------------
(***************************************************************************)
(* Instances of SubstrateTurn for TLC.                                     *)
(***************************************************************************)
EXTENDS SubstrateTurn, TLC

CONSTANTS chat, dashboard

(* Two chats do the same things.                                           *)
Alike == Permutations({chat, dashboard})
=============================================================================
