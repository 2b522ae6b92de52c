------------------------------ MODULE MCPanel ------------------------------
(* Instances of Panel: two filesystems. *)
EXTENDS Panel
=============================================================================
