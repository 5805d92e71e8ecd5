------------------------------ MODULE MCPoller ------------------------------
(* Poller on small instances: see the .cfg files for the values.           *)
EXTENDS Poller
=============================================================================
