------------------------------- MODULE MCSites -------------------------------
(* Small instances of the writers of instances.status.                     *)
EXTENDS Sites

CONSTANT owner

MCOwnerOf == [s \in Sites |-> owner]
=============================================================================
