--------------------------- MODULE MCPollClock ---------------------------
(***************************************************************************)
(* Small instances of PollClock.                                           *)
(***************************************************************************)
EXTENDS PollClock

CONSTANTS core, edge, window, tray
=============================================================================
