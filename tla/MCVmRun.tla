------------------------------ MODULE MCVmRun ------------------------------
(* VmRun for TLC; the instances are in the MCVmRun*.cfg files.             *)
EXTENDS VmRun
=============================================================================
