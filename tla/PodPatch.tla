------------------------------- MODULE PodPatch -------------------------------
(***************************************************************************)
(* The controller keeps no store of its own: what it knows of an agent is  *)
(* an annotation of the agent's pod, written by JSON patches that carry no *)
(* resourceVersion.  This module has the values of one pod object, the     *)
(* patches pkg/kube builds from the copy of the pod it has READ, and what  *)
(* the API server does with such a patch on the pod it HOLDS.              *)
(***************************************************************************)
EXTENDS Integers, Sequences, SequencesExt

(* The finalizer of the controller, and one of somebody else. *)
Own     == "own"
Foreign == "foreign"

(* controller.AgentState *)
AgentState == {"pending", "configuring", "starting", "ready", "terminating"}

(***************************************************************************)
(* controller.Agent as decoded from the runner-state annotation.  rid is   *)
(* RunnerID, 0 for nil; late stands for LastTransitionTime: it says that   *)
(* TransitionTimeout has passed since.  NoAgent is the annotation absent.  *)
(***************************************************************************)
NoAgent == [name |-> <<>>, state |-> "none", rid |-> 0, late |-> FALSE]

Transition(agent, state) == [agent EXCEPT !.state = state, !.late = FALSE]

(* A pod nobody has created yet, or one that is gone; and one just created. *)
AbsentPod(uid) == [uid |-> uid, exists |-> FALSE, deleting |-> FALSE,
                   finalizers |-> <<>>, agent |-> NoAgent, busy |-> FALSE]
FreshPod(uid, finalizers) ==
  [uid |-> uid, exists |-> TRUE, deleting |-> FALSE,
   finalizers |-> finalizers, agent |-> NoAgent, busy |-> FALSE]

-------------------------------------------------------------------------------
(***************************************************************************)
(* A patch: the new agent annotation (NoAgent: untouched); what becomes of *)
(* the three busy annotations, which always change together; what becomes  *)
(* of the finalizer list, at the index `at` where it is to be removed.     *)
(***************************************************************************)
NoPatch == [agent |-> NoAgent, busy |-> "keep", fin |-> "keep", at |-> 0]

FirstOwn(finalizers) ==
  CHOOSE i \in DOMAIN finalizers :
    finalizers[i] = Own /\ \A j \in 1..(i - 1) : finalizers[j] # Own

AddFinalizerPatch(pod) ==
  IF Own \in ToSet(pod.finalizers) THEN "keep"
  ELSE IF pod.finalizers = <<>> THEN "create" ELSE "append"

UpdatePatch(agent) == [NoPatch EXCEPT !.agent = agent]

RegisterPatch(pod, agent) ==
  [NoPatch EXCEPT !.agent = agent, !.fin = AddFinalizerPatch(pod)]

(* Mutant of AnnotatePatch: idle and busy are swapped. *)
AnnotatePatchSwapped(pod, isBusy) ==
  [NoPatch EXCEPT !.busy = IF pod.busy = isBusy THEN "keep"
                           ELSE IF isBusy THEN "clear" ELSE "set",
                  !.fin  = AddFinalizerPatch(pod)]

(* updateAgentPod: only what differs from the pod that was read. *)
AnnotatePatch(pod, isBusy) ==
  [NoPatch EXCEPT !.busy = IF pod.busy = isBusy THEN "keep"
                           ELSE IF isBusy THEN "set" ELSE "clear",
                  !.fin  = AddFinalizerPatch(pod)]

(* Mutant of ReleasePatch: the index is off by one. *)
ReleasePatchOffByOne(pod) ==
  IF Own \in ToSet(pod.finalizers)
    THEN [NoPatch EXCEPT !.fin = "remove", !.at = FirstOwn(pod.finalizers) + 1]
    ELSE NoPatch

ReleasePatch(pod) ==
  IF Own \in ToSet(pod.finalizers)
    THEN [NoPatch EXCEPT !.fin = "remove", !.at = FirstOwn(pod.finalizers)]
    ELSE NoPatch

-------------------------------------------------------------------------------
(***************************************************************************)
(* The API server.  Every operation of a patch must succeed or none takes  *)
(* effect: `remove` needs the annotation, `test` the finalizer list or its *)
(* entry as it was read, and an object being deleted gets no new finalizer *)
(***************************************************************************)
Applies(patch, pod) ==
  /\ pod.exists
  /\ patch.busy = "clear"  => pod.busy
  /\ patch.fin  = "create" => pod.finalizers = <<>>
  /\ patch.fin  = "append" => pod.finalizers # <<>>
  /\ patch.fin \in {"create", "append"} /\ pod.deleting
       => Own \in ToSet(pod.finalizers)
  /\ patch.fin = "remove" => /\ patch.at \in DOMAIN pod.finalizers
                             /\ pod.finalizers[patch.at] = Own

PatchedFinalizers(patch, finalizers) ==
  CASE patch.fin = "keep"               -> finalizers
    [] patch.fin \in {"create","append"} -> Append(finalizers, Own)
    [] patch.fin = "remove"             -> RemoveAt(finalizers, patch.at)

Patched(patch, pod) ==
  [pod EXCEPT !.agent      = IF patch.agent = NoAgent THEN @ ELSE patch.agent,
              !.busy       = IF patch.busy = "keep" THEN @ ELSE patch.busy = "set",
              !.finalizers = PatchedFinalizers(patch, pod.finalizers)]
===============================================================================
