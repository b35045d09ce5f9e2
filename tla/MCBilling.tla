------------------------------ MODULE MCBilling ------------------------------
(* Small instances of the billing worker.                                  *)
EXTENDS Billing
=============================================================================
