--------------------------- MODULE MCProvisioning ---------------------------
(* Small instances of the provisioning worker.                             *)
EXTENDS Provisioning, TLC

\* A job to provision a site, one to purge its cache and one of a type the worker does not
\* know, all of one server.
CONSTANTS site, cache, odd, server, i1, i2

MCServerOf   == [j \in Jobs |-> server]
MCInstanceOf == [j \in Jobs |-> IF j = odd THEN i2 ELSE i1]
MCJobType    == [j \in Jobs |-> CASE j = site  -> "provision_php"
                                  [] j = cache -> "purge_cache"
                                  [] OTHER     -> "unknown"]

ProcSymmetry == Permutations(Procs)
=============================================================================
