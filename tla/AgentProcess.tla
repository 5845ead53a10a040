------------------------------ MODULE AgentProcess ------------------------------
(***************************************************************************)
(* The process in a pod (pkg/agent): the executer registers, configures a  *)
(* runner and runs it; the watcher is sent the agent over a channel once   *)
(* the runner is configured, asks the controller about it from time to     *)
(* time, and asks for its termination when the channel is closed or the    *)
(* process is told to stop.                                                *)
(*                                                                         *)
(* The controller answers from its cache, which may be behind.             *)
(***************************************************************************)
EXTENDS Naturals

CONSTANTS
  MaxRetries,  \* times config.sh is run again
  MaxFaults    \* calls to the controller that fail or whose answer is lost

ASSUME ProcessBounds == {MaxRetries, MaxFaults} \subseteq Nat

VARIABLES
  exec,    \* where the executer is
  retry,   \* what is left of its retries
  halt,    \* AgentProvider.shouldHalt
  watch,   \* where the watcher is
  ch,      \* the channel between them: an agent in its buffer; closed
  runner,  \* the runner: "none", "configured", "up" or "down"
  agent,   \* the agent at the controller: "none", "live" or "terminating"
  cached,  \* the same in the controller's cache
  asked,   \* DELETE /agent was sent
  ended,   \* the context is done: SIGTERM
  faults   \* calls that have failed

vars == <<exec, retry, halt, watch, ch, runner, agent, cached, asked, ended, faults>>
executerVars == <<exec, retry, halt, runner>>
watcherVars == <<watch, asked>>

Fault == faults < MaxFaults /\ faults' = faults + 1

-------------------------------------------------------------------------------
(* The executer *)

(* POST /agent.  It is refused if the pod is an agent already, by the      *)
(* cached pod or, if that is behind, by the API server (see                *)
(* AcceptsOnlyUnregistered of AgentController); if its answer is lost the  *)
(* agent may be registered all the same.                                   *)
Register ==
  /\ exec = "post"
  /\ \/ /\ ~ ended /\ agent = "none"
        /\ agent' = "live" /\ exec' = "configure" /\ halt' = TRUE
        /\ UNCHANGED faults
     \/ /\ ended \/ agent # "none"
        /\ exec' = "sleep"
        /\ UNCHANGED <<agent, halt, faults>>
     \/ /\ Fault
        /\ agent' \in {agent, IF agent = "none" THEN "live" ELSE agent}
        /\ exec' = "sleep"
        /\ UNCHANGED halt
  /\ UNCHANGED <<retry, watch, ch, runner, cached, asked, ended>>

Sleep ==
  /\ exec = "sleep"
  /\ exec' = IF ended THEN "shutdown" ELSE "post"
  /\ UNCHANGED <<retry, halt, watch, ch, runner, agent, cached, asked, ended, faults>>

(* Mutant of Configure: one time too many. *)
ConfigureOnceMore ==
  /\ exec = "configure"
  /\ \/ exec' = "send" /\ runner' = "configured" /\ UNCHANGED retry
     \/ /\ runner' \in {runner, "configured"}
        /\ \/ retry >= 0 /\ retry' = retry - 1 /\ UNCHANGED exec
           \/ retry < 0 /\ exec' = "shutdown" /\ UNCHANGED retry
  /\ UNCHANGED <<halt, watch, ch, agent, cached, asked, ended, faults>>

(* config.sh, which may fail after it registered the runner. *)
Configure ==
  /\ exec = "configure"
  /\ \/ exec' = "send" /\ runner' = "configured" /\ UNCHANGED retry
     \/ /\ runner' \in {runner, "configured"}
        /\ \/ retry > 0 /\ retry' = retry - 1 /\ UNCHANGED exec
           \/ retry = 0 /\ exec' = "shutdown" /\ UNCHANGED retry
  /\ UNCHANGED <<halt, watch, ch, agent, cached, asked, ended, faults>>

(* Mutant of Send: the agent is sent while config.sh runs. *)
SendTooSoon ==
  /\ exec \in {"configure", "send"} /\ ~ ch.full
  /\ ch' = [ch EXCEPT !.full = TRUE]
  /\ exec' = IF exec = "send" THEN "start" ELSE exec
  /\ UNCHANGED <<retry, halt, runner, watch, asked, agent, cached, ended, faults>>

(* The channel holds one agent: this never waits. *)
Send ==
  /\ exec = "send" /\ ~ ch.full
  /\ ch' = [ch EXCEPT !.full = TRUE]
  /\ exec' = "start"
  /\ UNCHANGED <<retry, halt, runner, watch, asked, agent, cached, ended, faults>>

(* run.sh starts, or cannot be started. *)
Start ==
  /\ exec = "start"
  /\ \/ exec' = "run" /\ runner' = "up"
     \/ exec' = "shutdown" /\ runner' = "down"
  /\ UNCHANGED <<retry, halt, ch, watcherVars, agent, cached, ended, faults>>

(* run.sh ends, with success or not. *)
RunnerExits ==
  /\ exec = "run"
  /\ exec' = "shutdown" /\ runner' = "down"
  /\ \/ ch' = [ch EXCEPT !.closed = TRUE]
     \/ UNCHANGED ch
  /\ UNCHANGED <<retry, halt, watcherVars, agent, cached, ended, faults>>

(* Mutant of Shutdown: the provider does not wait. *)
ShutdownAtOnce ==
  /\ exec = "shutdown"
  /\ exec' = "done"
  /\ UNCHANGED <<retry, halt, runner, ch, watcherVars, agent, cached, ended, faults>>

(* The deferred Shutdown waits for SIGTERM if the agent is registered. *)
Shutdown ==
  /\ exec = "shutdown" /\ (halt => ended)
  /\ exec' = "done"
  /\ UNCHANGED <<retry, halt, runner, ch, watcherVars, agent, cached, ended, faults>>

Executer ==
  \/ Register \/ Sleep \/ Configure \/ Send \/ Start \/ Shutdown

-------------------------------------------------------------------------------
(* The watcher *)

(* The first select; if the context is done, either case may be taken. *)
Receive ==
  /\ watch = "idle"
  /\ \/ ch.full /\ ch' = [ch EXCEPT !.full = FALSE] /\ watch' = "watch"
     \/ ended /\ watch' = "done" /\ UNCHANGED ch
  /\ UNCHANGED <<executerVars, agent, cached, asked, ended, faults>>

(* The second: a closed channel or the end of the context end the wait. *)
NeedTermination ==
  /\ watch = "watch" /\ (ended \/ ch.closed)
  /\ watch' = "terminate"
  /\ UNCHANGED <<executerVars, ch, agent, cached, asked, ended, faults>>

(* watchInterval is over; it may be at the very moment of the others. *)
Poll ==
  /\ watch = "watch"
  /\ watch' = "get"
  /\ UNCHANGED <<executerVars, ch, agent, cached, asked, ended, faults>>

(* Mutant of GetAgent: an agent that is terminating is asked for again. *)
GetAgentAsks ==
  /\ watch = "get"
  /\ \/ ~ ended /\ cached = "live" /\ watch' = "watch" /\ UNCHANGED faults
     \/ ~ ended /\ cached = "terminating" /\ watch' = "terminate" /\ UNCHANGED faults
     \/ (ended \/ cached = "none") /\ watch' = "lost" /\ UNCHANGED faults
     \/ Fault /\ watch' = "lost"
  /\ UNCHANGED <<executerVars, ch, agent, cached, asked, ended>>

(* GET /agent/{id}.  An error leaves the name empty, which does not match  *)
(* the agent's: the watcher is done then as it is when there is no agent.  *)
GetAgent ==
  /\ watch = "get"
  /\ \/ ~ ended /\ cached = "live" /\ watch' = "watch" /\ UNCHANGED faults
     \/ ~ ended /\ cached = "terminating" /\ watch' = "done" /\ UNCHANGED faults
     \/ (ended \/ cached = "none") /\ watch' = "lost" /\ UNCHANGED faults
     \/ Fault /\ watch' = "lost"
  /\ UNCHANGED <<executerVars, ch, agent, cached, asked, ended>>

(* Mutant of TerminateAgent: "not found" is an error like any other. *)
TerminateAgentAgain ==
  /\ watch = "terminate"
  /\ asked' = TRUE
  /\ \/ cached # "none" /\ agent' = "terminating" /\ watch' = "done" /\ UNCHANGED faults
     \/ cached = "none" /\ watch' = "terminate" /\ UNCHANGED <<agent, faults>>
     \/ Fault /\ agent' \in {agent, "terminating"} /\ watch' = "terminate"
  /\ UNCHANGED <<executerVars, ch, cached, ended>>

(* Mutant of TerminateAgent: it is tried once. *)
TerminateAgentOnce ==
  /\ watch = "terminate"
  /\ asked' = TRUE
  /\ \/ cached # "none" /\ agent' = "terminating" /\ watch' = "done" /\ UNCHANGED faults
     \/ cached = "none" /\ watch' = "done" /\ UNCHANGED <<agent, faults>>
     \/ Fault /\ agent' \in {agent, "terminating"} /\ watch' = "done"
  /\ UNCHANGED <<executerVars, ch, cached, ended>>

(* DELETE /agent/{id}, again after an error but for "not found". *)
TerminateAgent ==
  /\ watch = "terminate"
  /\ asked' = TRUE
  /\ \/ cached # "none" /\ agent' = "terminating" /\ watch' = "done" /\ UNCHANGED faults
     \/ cached = "none" /\ watch' = "done" /\ UNCHANGED <<agent, faults>>
     \/ Fault /\ agent' \in {agent, "terminating"} /\ watch' = "terminate"
  /\ UNCHANGED <<executerVars, ch, cached, ended>>

Watcher == Receive \/ NeedTermination \/ GetAgent \/ TerminateAgent

-------------------------------------------------------------------------------
(* The controller and the kubelet *)

Deliver ==
  /\ cached # agent /\ cached' = agent
  /\ UNCHANGED <<executerVars, watcherVars, ch, agent, ended, faults>>

(* The monitor asks the agent to go. *)
Terminating ==
  /\ agent = "live" /\ agent' = "terminating"
  /\ UNCHANGED <<executerVars, watcherVars, ch, cached, ended, faults>>

Sigterm ==
  /\ ~ ended /\ ended' = TRUE
  /\ UNCHANGED <<executerVars, watcherVars, ch, agent, cached, faults>>

-------------------------------------------------------------------------------
Init ==
  /\ exec = "post" /\ retry = MaxRetries /\ halt = FALSE
  /\ watch = "idle" /\ asked = FALSE
  /\ ch = [full |-> FALSE, closed |-> FALSE]
  /\ runner = "none"
  /\ agent = "none" /\ cached = "none"
  /\ ended = FALSE /\ faults = 0

Next ==
  \/ Executer \/ RunnerExits \/ Watcher \/ Poll
  \/ Deliver \/ Terminating \/ Sigterm

Spec == Init /\ [][Next]_vars

(* Both goroutines go on; a select does not pass over a case for ever; the *)
(* runner ends when it is interrupted, and otherwise when it likes.        *)
Fairness ==
  /\ WF_vars(Executer) /\ WF_vars(Watcher) /\ SF_vars(NeedTermination)
  /\ WF_vars(ended /\ RunnerExits)

FairSpec == Spec /\ Fairness

-------------------------------------------------------------------------------
(* Properties *)

(* The values of the two goroutines, the channel and the controller. *)
TypeOK ==
  /\ exec \in {"post", "sleep", "configure", "send", "start", "run", "shutdown", "done"}
  /\ retry \in 0..MaxRetries
  /\ watch \in {"idle", "watch", "get", "terminate", "done", "lost"}
  /\ ch \in [full : BOOLEAN, closed : BOOLEAN]
  /\ runner \in {"none", "configured", "up", "down"}
  /\ {agent, cached} \subseteq {"none", "live", "terminating"}
  /\ {halt, asked, ended} \subseteq BOOLEAN
  /\ faults \in 0..MaxFaults

Gone == exec = "done" /\ watch \in {"done", "lost"}

(* "Ensure runner is configured before termination": nobody is asked to    *)
(* terminate an agent whose runner config.sh may still register            *)
(* (executer.go:76-83).                                                    *)
ConfiguredFirst == asked => exec \notin {"post", "sleep", "configure"}

(* A registered process is there until the controller deletes its pod: a   *)
(* container that ends before would be restarted in a pod that is an agent *)
(* already (kube/agent.go:37-46).                                          *)
StaysUntilTold == Gone => ended

(* When the runner has ended well while the watcher watches an agent the   *)
(* controller's cache has, the agent is terminated, whatever happens to    *)
(* the request; only an error of a GET on the way there may prevent it     *)
(* (executer.go:93, watcher.go:50-63,88-94).                               *)
EndReported ==
  ch.closed /\ watch \in {"watch", "get", "terminate"} /\ cached = "live"
    ~> agent = "terminating" \/ watch = "lost"

(* Told to stop the process ends, in whatever state its two goroutines are *)
(* (executer.go:61-65,149-153, watcher.go:40-100).                         *)
EndsWhenTold == ended ~> Gone

(* The executer left without a runner, or has sent the agent. *)
Failed == exec \in {"shutdown", "done"} /\ runner \in {"none", "configured"}
Sent   == exec \in {"send", "start", "run", "shutdown", "done"} /\ ~ Failed

(* The process as the controller knows it: finished while it may ask for   *)
(* termination, halted when only SIGTERM would make it ask.                *)
proc ==
  CASE Gone -> "exited"
    [] ~ Gone /\ exec \in {"post", "sleep"} -> "registering"
    [] ~ Gone /\ exec = "configure" -> "configuring"
    [] ~ Gone /\ Failed -> "exited"
    [] ~ Gone /\ Sent /\ watch = "terminate" -> "finished"
    [] ~ Gone /\ Sent /\ watch # "terminate" /\ asked -> "exited"
    [] ~ Gone /\ Sent /\ watch # "terminate" /\ ~ asked ->
         IF ch.closed THEN "finished"
         ELSE IF exec \in {"shutdown", "done"} THEN "halted" ELSE "running"

TheLife == INSTANCE AgentLife WITH proc <- proc, sigterm <- ended

(* The process does what AgentController takes it to do. *)
Refinement == TheLife!Spec
===============================================================================
