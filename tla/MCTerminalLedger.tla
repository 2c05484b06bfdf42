-------------------------- MODULE MCTerminalLedger --------------------------
(***************************************************************************)
(* Instances of TerminalLedger for TLC.                                    *)
(***************************************************************************)
EXTENDS TerminalLedger

CONSTANTS c1, c2, p1, p2, m1, m2
=============================================================================
