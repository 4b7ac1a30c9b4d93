----------------------------- MODULE MCDispatch -----------------------------
(* A small instance of Dispatch for TLC. *)
EXTENDS Dispatch

\* One more instruction than the skid buffer holds, and the one in the queue.
MCProgram == <<"other", "load", "store", "other", "load", "store", "other", "load">>
=============================================================================
