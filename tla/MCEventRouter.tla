--------------------------- MODULE MCEventRouter ---------------------------
(***************************************************************************)
(* Small instances of EventRouter.                                         *)
(***************************************************************************)
EXTENDS EventRouter, TLC

CONSTANTS trap, poll, dead, pool, mail, syslog

\* The first event is for the mail, the second for both, the others for syslog.
MCWanted == [s \in Seqs |-> IF s = 1 THEN {mail}
                            ELSE IF s = 2 THEN {mail, syslog} ELSE {syslog}]
=============================================================================
