---------------------------- MODULE MCHypervisor ----------------------------
(* The life of one process, on small command lines.                        *)
EXTENDS Hypervisor
=============================================================================
