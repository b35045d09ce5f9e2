------------------------------- MODULE MCUpkeep -------------------------------
(* Small instances of what a process does by the clock.                    *)
EXTENDS Upkeep
=============================================================================
