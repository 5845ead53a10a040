--------------------------- MODULE AgentProcessProofs --------------------------
(***************************************************************************)
(* Proofs about AgentProcess, for any number of retries and of faults:     *)
(* what its two goroutines promise each other, and that the process does   *)
(* nothing that AgentLife does not allow for.                              *)
(***************************************************************************)
EXTENDS AgentProcess, TLAPS

(* Who has to do with the agent (the channel, the watcher, DELETE /agent)  *)
(* does so after the executer has sent it.                                 *)
SentFirst ==
  \/ ch.full \/ ch.closed \/ asked
  \/ watch \in {"watch", "get", "terminate", "lost"}
  => exec \in {"start", "run"} \/ (exec \in {"shutdown", "done"} /\ runner = "down")

(* There is no runner before config.sh, and none is up before run.sh. *)
RunnerLater ==
  /\ exec \in {"post", "sleep"} => runner = "none"
  /\ exec = "configure" => runner \in {"none", "configured"}

(* Once it asks for termination the watcher does nothing else. *)
AskedLast == asked => watch \in {"terminate", "done"}

(* An executer that leaves is registered, and waits, or was told to stop.  *)
HaltsOrTold ==
  /\ exec \in {"configure", "send", "start", "run"} => halt
  /\ exec = "shutdown" => halt \/ ended
  /\ exec = "done" => ended

IInv == TypeOK /\ SentFirst /\ RunnerLater /\ AskedLast /\ HaltsOrTold

LEMMA InitIInv == Init => IInv
<1> SUFFICES ASSUME Init PROVE IInv
  OBVIOUS
<1>1. {halt, asked, ended} \subseteq BOOLEAN /\ ch \in [full : BOOLEAN, closed : BOOLEAN]
  BY Zenon DEF Init
<1>2. TypeOK
  BY <1>1, ProcessBounds DEF Init, TypeOK
<1>3. SentFirst /\ RunnerLater /\ AskedLast /\ HaltsOrTold
  BY DEF Init, SentFirst, RunnerLater, AskedLast, HaltsOrTold
<1> QED
  BY <1>2, <1>3 DEF IInv

LEMMA StepIInv == IInv /\ [Next]_vars => IInv'
<1> SUFFICES ASSUME IInv, [Next]_vars PROVE IInv'
  OBVIOUS
<1> USE ProcessBounds
        DEF IInv, TypeOK, SentFirst, RunnerLater, AskedLast, HaltsOrTold
<1>1. CASE Register
  <2>1. halt' \in {halt, TRUE} /\ UNCHANGED <<retry, watch, ch, runner, cached, asked, ended>>
    BY <1>1, Zenon DEF Register
  <2>2. {halt, asked, ended}' \subseteq BOOLEAN
    BY <2>1, Zenon
  <2>3. TypeOK'
    BY <1>1, <2>1, <2>2 DEF Register, Fault
  <2> QED
    BY <1>1, <2>1, <2>3 DEF Register
<1>2. CASE Sleep
  BY <1>2 DEF Sleep
<1>3. CASE Configure
  BY <1>3 DEF Configure
<1>4. CASE Send
  BY <1>4 DEF Send
<1>5. CASE Start
  BY <1>5 DEF Start, watcherVars
<1>6. CASE RunnerExits
  BY <1>6 DEF RunnerExits, watcherVars
<1>7. CASE Shutdown
  BY <1>7 DEF Shutdown, watcherVars
<1>8. CASE Receive
  BY <1>8 DEF Receive, executerVars
<1>9. CASE NeedTermination
  BY <1>9 DEF NeedTermination, executerVars
<1>10. CASE Poll
  BY <1>10 DEF Poll, executerVars
<1>11. CASE GetAgent
  BY <1>11 DEF GetAgent, Fault, executerVars
<1>12. CASE TerminateAgent
  BY <1>12 DEF TerminateAgent, Fault, executerVars
<1>13. CASE Deliver \/ Terminating
  BY <1>13 DEF Deliver, Terminating, executerVars, watcherVars
<1>14. CASE Sigterm
  <2>1. /\ {halt, asked, ended}' \subseteq BOOLEAN
        /\ UNCHANGED <<exec, retry, halt, runner, watch, asked, ch, agent, cached, faults>>
    BY <1>14, Zenon DEF Sigterm, executerVars, watcherVars
  <2> QED
    BY <1>14, <2>1 DEF Sigterm
<1>15. CASE UNCHANGED vars
  BY <1>15 DEF vars
<1> QED
  BY <1>1, <1>2, <1>3, <1>4, <1>5, <1>6, <1>7, <1>8, <1>9, <1>10, <1>11,
     <1>12, <1>13, <1>14, <1>15 DEF Next, Executer, Watcher

(* The two goroutines, the channel and the agent keep their types. *)
THEOREM ProcessTypes == Spec => []TypeOK
<1>1. IInv => TypeOK
  BY DEF IInv
<1> QED
  BY InitIInv, StepIInv, <1>1, PTL DEF Spec

(* Nobody is asked to terminate an agent whose runner may yet be           *)
(* registered (executer.go:76-83).                                         *)
THEOREM ConfiguredFirstCorrect == Spec => []ConfiguredFirst
<1>1. IInv => ConfiguredFirst
  BY DEF IInv, SentFirst, ConfiguredFirst
<1> QED
  BY InitIInv, StepIInv, <1>1, PTL DEF Spec

(* A process that is gone was told to stop (kube/agent.go:37-46). *)
THEOREM StaysUntilToldCorrect == Spec => []StaysUntilTold
<1>1. IInv => StaysUntilTold
  BY DEF IInv, HaltsOrTold, StaysUntilTold, Gone
<1> QED
  BY InitIInv, StepIInv, <1>1, PTL DEF Spec

-------------------------------------------------------------------------------
(* AgentProcess implements AgentLife *)

(* What the process looks like from outside, by the state it is in. *)
Looks ==
  /\ Gone => proc = "exited"
  /\ exec \in {"post", "sleep"} => proc = "registering"
  /\ exec = "configure" => proc = "configuring"
  /\ Failed => proc = "exited"
  /\ Sent /\ ~ Gone =>
       /\ watch = "terminate" => proc = "finished"
       /\ watch # "terminate" /\ asked => proc = "exited"
       /\ watch # "terminate" /\ ~ asked =>
            /\ ch.closed => proc = "finished"
            /\ ~ ch.closed /\ exec \in {"shutdown", "done"} => proc = "halted"
            /\ ~ ch.closed /\ exec \notin {"shutdown", "done"} => proc = "running"

LEMMA LooksLike == IInv => Looks
BY DEF IInv, TypeOK, proc, Gone, Failed, Sent, Looks

LEMMA LooksLikeNext == IInv' => Looks'
BY DEF IInv, TypeOK, proc, Gone, Failed, Sent, Looks

(* Every step of the process is one of AgentLife or leaves it as it is. *)
LEMMA StepRefines == IInv /\ IInv' /\ [Next]_vars => [TheLife!Next]_(TheLife!vars)
<1> SUFFICES ASSUME IInv, IInv', [Next]_vars
             PROVE  TheLife!Next \/ UNCHANGED <<proc, ended>>
  BY DEF TheLife!vars
<1>1. Looks /\ Looks'
  BY LooksLike, LooksLikeNext
<1> USE <1>1
    DEF IInv, TypeOK, SentFirst, RunnerLater, AskedLast, HaltsOrTold,
        Looks, Gone, Failed, Sent
<1>2. CASE Register
  <2>1. proc = "registering" /\ proc' \in {"registering", "configuring"}
    BY <1>2 DEF Register
  <2>2. ended' = ended
    BY <1>2 DEF Register
  <2> QED
    BY <2>1, <2>2, Zenon DEF TheLife!Next, TheLife!AnnotateNew
<1>3. CASE Sleep
  BY <1>3 DEF Sleep, TheLife!Next, TheLife!KillProcess
<1>4. CASE Configure
  BY <1>4 DEF Configure, TheLife!Next, TheLife!ConfigureRunner, TheLife!ProcessHalts
<1>5. CASE Send
  BY <1>5 DEF Send
<1>6. CASE Start
  BY <1>6 DEF Start, watcherVars, TheLife!Next, TheLife!ProcessHalts
<1>7. CASE RunnerExits
  BY <1>7 DEF RunnerExits, watcherVars, TheLife!Next, TheLife!JobDone
<1>8. CASE Shutdown
  BY <1>8 DEF Shutdown, watcherVars, TheLife!Next, TheLife!KillProcess,
              TheLife!DeleteRequest
<1>9. CASE Receive
  BY <1>9 DEF Receive, executerVars, TheLife!Next, TheLife!KillProcess,
              TheLife!DeleteRequest
<1>10. CASE NeedTermination
  BY <1>10 DEF NeedTermination, executerVars, TheLife!Next, TheLife!Interrupt
<1>11. CASE Poll
  BY <1>11 DEF Poll, executerVars
<1>12. CASE GetAgent
  BY <1>12 DEF GetAgent, Fault, executerVars, TheLife!Next, TheLife!KillProcess
<1>13. CASE TerminateAgent
  BY <1>13 DEF TerminateAgent, Fault, executerVars, TheLife!Next,
               TheLife!DeleteRequest
<1>14. CASE Deliver \/ Terminating
  BY <1>14 DEF Deliver, Terminating, executerVars, watcherVars
<1>15. CASE Sigterm
  <2>1. UNCHANGED <<exec, halt, watch, asked, ch, runner>>
    BY <1>15, Zenon DEF Sigterm, executerVars, watcherVars
  <2>2. proc' = proc
    BY <2>1 DEF proc
  <2> QED
    BY <1>15, <2>2, Zenon DEF Sigterm, TheLife!Next, TheLife!EvictPod
<1>16. CASE UNCHANGED vars
  BY <1>16 DEF vars
<1> QED
  BY <1>2, <1>3, <1>4, <1>5, <1>6, <1>7, <1>8, <1>9, <1>10, <1>11, <1>12,
     <1>13, <1>14, <1>15, <1>16 DEF Next, Executer, Watcher

(* The process does what AgentController takes the process of a pod to do  *)
(* (executer.go:53-160, watcher.go:31-100).                                *)
THEOREM ProcessRefinesLife == Spec => Refinement
<1>1. Init => TheLife!Init
  <2> SUFFICES ASSUME Init PROVE TheLife!Init
    OBVIOUS
  <2>1. proc = "registering"
    BY InitIInv, LooksLike DEF Init, Looks
  <2>2. ended = FALSE
    BY Zenon DEF Init
  <2> QED
    BY <2>1, <2>2, Zenon DEF TheLife!Init
<1> QED
  BY InitIInv, StepIInv, StepRefines, <1>1, PTL DEF Spec, Refinement, TheLife!Spec
===============================================================================
