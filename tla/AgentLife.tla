------------------------------- MODULE AgentLife -------------------------------
(***************************************************************************)
(* The process of a pod as the controller sees it: proc[p] of              *)
(* AgentController, one action for each of those that move it there.       *)
(* AgentProcess shows that the code of pkg/agent does nothing else.        *)
(***************************************************************************)

VARIABLES
  proc,    \* "registering", "configuring", "running", "finished", "halted", "exited"
  sigterm  \* the pod is being deleted

vars == <<proc, sigterm>>

Init == proc = "registering" /\ sigterm = FALSE

AnnotateNew == proc = "registering" /\ proc' = "configuring" /\ UNCHANGED sigterm

ConfigureRunner == proc = "configuring" /\ proc' = "running" /\ UNCHANGED sigterm

ProcessHalts ==
  /\ \/ proc = "configuring" /\ proc' = "exited"
     \/ proc = "running" /\ proc' = "halted"
  /\ UNCHANGED sigterm

JobDone == proc = "running" /\ proc' \in {"finished", "halted"} /\ UNCHANGED sigterm

DeleteRequest == proc = "finished" /\ proc' = "exited" /\ UNCHANGED sigterm

EvictPod == ~ sigterm /\ sigterm' = TRUE /\ UNCHANGED proc

Interrupt ==
  sigterm /\ proc \in {"running", "halted"} /\ proc' = "finished" /\ UNCHANGED sigterm

KillProcess == sigterm /\ proc # "exited" /\ proc' = "exited" /\ UNCHANGED sigterm

Next ==
  \/ AnnotateNew \/ ConfigureRunner \/ ProcessHalts \/ JobDone \/ DeleteRequest
  \/ EvictPod \/ Interrupt \/ KillProcess

Spec == Init /\ [][Next]_vars
===============================================================================
