----------------------------- MODULE MCHazardPtr ----------------------------
(* Instance of HazardPtr: a scan and a thread that holds two records. *)
EXTENDS HazardPtr
=============================================================================
