--------------------------- MODULE MCOverageBilling ---------------------------
(***************************************************************************)
(* OverageBilling with a bound on what disturbs a behaviour.  Liveness is  *)
(* checked, which symmetry would make unsound, so none is declared.        *)
(***************************************************************************)
EXTENDS OverageBilling

CONSTANT MaxDisturbances  \* bound: cap changes and crashes together

\* Two cycles of at most two events each, or one of three.
MCNext ==
  /\ Next
  /\ changes' + crashes' <= MaxDisturbances
  /\ (\E c \in Cycles : usage'[c] > 2) => cycle' = 1

MCSpec == Init /\ [][MCNext]_vars /\ Fairness
===============================================================================
