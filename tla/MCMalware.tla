------------------------------ MODULE MCMalware ------------------------------
(* Small instances of the malware worker's scan windows.                   *)
EXTENDS Malware
=============================================================================
