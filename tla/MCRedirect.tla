----------------------------- MODULE MCRedirect -----------------------------
(* A small instance of Redirect for TLC. *)
EXTENDS Redirect

MCProgram == <<"store", "branch", "load", "store", "load", "load">>
=============================================================================
