--------------------------- MODULE MCTrapListener ---------------------------
(***************************************************************************)
(* Small instances of TrapListener: the panel of traps and the settings    *)
(* give commands, and alice sends an INFORM.                               *)
(***************************************************************************)
EXTENDS TrapListener

CONSTANTS panel, settings, alice, bob, inform

MCFrom == [m \in Messages |-> alice]
=============================================================================
