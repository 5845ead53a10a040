--------------------------- MODULE MCAgentController ---------------------------
(* Instances of AgentController for TLC. *)
EXTENDS AgentControllerInv

NoFinalizers == <<>>
ForeignFinalizer == <<Foreign>>
===============================================================================
