---------------------------- MODULE MCTimingCPU ----------------------------
(* Instances of TimingCPU for TLC: programs of every form of instruction.  *)
EXTENDS TimingCPU

EveryForm  == AllForms
WholeForms == AllForms \ Split
SplitForms == {"alu", "barrier"} \cup Split
=============================================================================
