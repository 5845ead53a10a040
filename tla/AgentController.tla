---------------------------- MODULE AgentController ----------------------------
(***************************************************************************)
(* kube-controller: the monitor loop (pkg/controller/monitor.go) and the   *)
(* HTTP handlers agents call (pkg/controller/server_agent.go), on top of   *)
(* the Kubernetes provider (pkg/kube).  Both read pods from an informer's  *)
(* cache and write them by patches; the monitor also reads the runners the *)
(* manager has synchronised from GitHub (pkg/github/runners, pkg/api).     *)
(*                                                                         *)
(* timeline[p] is the history of pod p the cache has yet to see: its first *)
(* version is the cached pod, its last the one the API server holds.       *)
(***************************************************************************)
EXTENDS PodPatch

CONSTANTS
  Pods,               \* pods of the runner workload
  Handlers,           \* HTTP requests the controller serves at a time
  MaxUid,             \* incarnations of a pod name (1: Deployment, 2: StatefulSet)
  PodFinalizers,      \* finalizers a pod is created with
  MaxRunners,         \* runner ids GitHub hands out
  MaxLag,             \* versions of a pod the cache may be behind the API server
  MaxEpoch,           \* epochs are counted modulo this
  MaxFaults,          \* API calls that fail or whose answer is lost
  MaxFlaps,           \* times a runner loses its connection
  MaxCrashes,         \* restarts of the controller
  MaxShifts,          \* runners a listing passes over (0: one page has them all)
  MaxManagerRestarts, \* restarts of the manager
  MaxTroubles,        \* all of these together
  LongJobs            \* whether some jobs last long enough to be seen

ASSUME BoundsAssumption ==
  /\ {MaxUid, MaxEpoch} \subseteq Nat \ {0}
  /\ {MaxLag, MaxRunners, MaxFaults, MaxFlaps, MaxCrashes, MaxShifts,
      MaxManagerRestarts, MaxTroubles} \subseteq Nat
ASSUME PodsAssumption == Pods # {}
ASSUME FinalizersAssumption == PodFinalizers \in {<<>>, <<Foreign>>}
ASSUME JobsAssumption == LongJobs \in BOOLEAN

VARIABLES
  timeline,   \* [Pods -> Seq of pod versions]
  proc,       \* [Pods -> the agent process in the pod]
  github,     \* [runner id -> the runner registered at GitHub]
  listing,    \* the manager's epoch in progress (syncWork)
  published,  \* the manager's last complete epoch (runners.State)
  mon,        \* the monitor goroutine and its locals
  req,        \* [Handlers -> a request being served]
  spent       \* the failures that have happened

vars == <<timeline, proc, github, listing, published, mon, req, spent>>

-------------------------------------------------------------------------------
(* Values *)

Names     == Pods \X (1..MaxUid)
RunnerIds == 1..MaxRunners

(* runners.Instance; Nobody: the map has no entry. *)
Nobody      == [id |-> 0, online |-> FALSE, busy |-> FALSE]
NoInstances == [n \in Names |-> Nobody]

NoRunner == [name |-> <<>>, status |-> "none", busy |-> FALSE]

IdleMonitor == [pc |-> "idle", epoch |-> 0, newEpoch |-> FALSE,
                instances |-> NoInstances, passed |-> {},
                agents |-> [p \in Pods |-> NoAgent],
                pod |-> CHOOSE p \in Pods : TRUE, patch |-> NoPatch]

IdleRequest == [pc |-> "idle", pod |-> CHOOSE p \in Pods : TRUE,
                copy |-> AbsentPod(0), patch |-> NoPatch, heard |-> FALSE]

Cached(p) == Head(timeline[p])
Server(p) == Last(timeline[p])

Registered(id) == github[id].status \in {"offline", "online"}

(* syncWork.reset: unread are the runners the pages have yet to bring;     *)
(* passed, kept for the properties only, those that they will not.         *)
EmptyListing == [unread |-> {id \in RunnerIds : Registered(id)}, passed |-> {},
                 instances |-> NoInstances]

(* Mutant of Instance: runners that are offline are filtered out. *)
InstanceIfOnline(name) ==
  IF \E id \in RunnerIds : github[id].status = "online" /\ github[id].name = name
    THEN LET id == CHOOSE i \in RunnerIds : Registered(i) /\ github[i].name = name
         IN  [id |-> id, online |-> TRUE, busy |-> github[id].busy]
    ELSE Nobody

(* The runner registered under a name, if there is one. *)
Instance(name) ==
  IF \E id \in RunnerIds : Registered(id) /\ github[id].name = name
    THEN LET id == CHOOSE i \in RunnerIds : Registered(i) /\ github[i].name = name
         IN  [id |-> id, online |-> github[id].status = "online",
              busy |-> github[id].busy]
    ELSE Nobody

(* The instance of an agent: same name, and same id once one is recorded. *)
Lookup(instances, agent) ==
  LET i == instances[agent.name]
  IN  IF agent.rid \in {0, i.id} THEN i ELSE Nobody

(* An agent that is bound to a runner and waits for nothing else. *)
Live == {"starting", "ready"}

-------------------------------------------------------------------------------
(* Calls to the API server *)

(* A write is a new version; one that changes nothing is none.  With no    *)
(* lag at all the cache has it at once.                                    *)
Write(p, pod) ==
  \/ pod = Server(p) /\ UNCHANGED timeline
  \/ /\ pod # Server(p)
     /\ \/ /\ Len(timeline[p]) <= MaxLag /\ MaxLag > 0
           /\ timeline' = [timeline EXCEPT ![p] = Append(@, pod)]
        \/ MaxLag = 0 /\ timeline' = [timeline EXCEPT ![p] = <<pod>>]

Trouble ==
  spent.faults + spent.flaps + spent.crashes + spent.shifts + spent.restarts < MaxTroubles

Fault == /\ spent.faults < MaxFaults /\ Trouble
         /\ spent' = [spent EXCEPT !.faults = @ + 1]

PatchApplied(p, patch) ==
  /\ Applies(patch, Server(p))
  /\ Write(p, Patched(patch, Server(p)))
  /\ UNCHANGED spent

PatchRejected(p, patch) ==
  /\ ~ Applies(patch, Server(p))
  /\ UNCHANGED <<timeline, spent>>

(* The caller sees an error: the call was lost, or its answer was. *)
PatchFailed(p, patch) ==
  /\ Fault
  /\ \/ UNCHANGED timeline
     \/ /\ Applies(patch, Server(p))
        /\ Write(p, Patched(patch, Server(p)))

PatchSent(p, patch) ==
  PatchApplied(p, patch) \/ PatchRejected(p, patch) \/ PatchFailed(p, patch)

-------------------------------------------------------------------------------
(* The monitor *)

(* Mutant of NewEpoch: compared after the monitor's epoch is assigned. *)
NewEpochNever == published.epoch # published.epoch

(* Whether the manager has listed the runners since the last check. *)
NewEpoch == published.epoch # mon.epoch

(* check: GetRunners answers with the manager's last complete epoch. *)
CheckBegin ==
  /\ mon.pc = "idle"
  /\ mon' = [mon EXCEPT !.pc        = "list",
                        !.epoch     = published.epoch,
                        !.newEpoch  = NewEpoch,
                        !.instances = published.instances,
                        !.passed    = published.passed]
  /\ UNCHANGED <<timeline, proc, github, listing, published, req, spent>>

(* State().Agents(): local copies of what the cache holds. *)
ListAgents ==
  /\ mon.pc = "list"
  /\ mon' = [mon EXCEPT !.pc     = "pick",
                        !.agents = [p \in Pods |-> Cached(p).agent]]
  /\ UNCHANGED <<timeline, proc, github, listing, published, req, spent>>

Copy == mon.agents[mon.pod]

MonInstance(agent) == Lookup(mon.instances, agent)

(* The monitor at its next label with a patch to send (NoPatch: none). *)
MonitorAt(pc, patch) == mon' = [mon EXCEPT !.pc = pc, !.patch = patch]

(* Done with this agent, whatever came of it. *)
NextAgent == mon' = [mon EXCEPT !.pc = "pick", !.patch = NoPatch,
                                !.agents[mon.pod] = NoAgent]

(* State.UpdateAgent: the updater is applied to the agent the cache holds  *)
(* NOW, not to the copy the decision was made on.                          *)
Updating(p) == Cached(p).exists /\ Cached(p).agent # NoAgent

(* provider.CheckAgent up to the patch it sends, if any. *)
ProviderCheckAgent(p) ==
  LET pod == Cached(p)
      a   == mon.agents[p]
      i   == MonInstance(a)
      at(pc, patch, agents) ==
        mon' = [mon EXCEPT !.pc = pc, !.pod = p, !.patch = patch,
                           !.agents = agents]
  IN  /\ mon.pc = "pick"
      /\ a # NoAgent
      /\ \/ /\ ~ pod.exists
            /\ at("pick", NoPatch, [mon.agents EXCEPT ![p] = NoAgent])
         \/ /\ pod.exists /\ pod.deleting /\ a.state # "terminating"
            /\ IF Updating(p)
                 THEN at("provider", UpdatePatch(Transition(pod.agent, "terminating")),
                         mon.agents)
                 ELSE at("check", NoPatch, mon.agents)
         \/ /\ pod.exists /\ (pod.deleting => a.state = "terminating")
            /\ LET patch == IF i = Nobody THEN NoPatch ELSE AnnotatePatch(pod, i.busy)
               IN  at(IF patch = NoPatch THEN "check" ELSE "provider", patch, mon.agents)
      /\ UNCHANGED <<timeline, proc, github, listing, published, req, spent>>

(* UpdateAgent takes NotFound for success, updateAgentPod does not. *)
ProviderAccepts ==
  \/ PatchApplied(mon.pod, mon.patch)
  \/ /\ mon.patch.agent # NoAgent /\ ~ Server(mon.pod).exists
     /\ PatchRejected(mon.pod, mon.patch)

ProviderRefuses ==
  \/ /\ mon.patch.agent # NoAgent => Server(mon.pod).exists
     /\ PatchRejected(mon.pod, mon.patch)
  \/ PatchFailed(mon.pod, mon.patch)

SendProviderPatch ==
  /\ mon.pc = "provider"
  /\ \/ ProviderAccepts /\ MonitorAt("check", NoPatch)
     \/ ProviderRefuses /\ NextAgent
  /\ UNCHANGED <<proc, github, listing, published, req>>

(* checkAgent decides on the copy; UpdateAgent may then find no agent. *)
MoveTo(agent) ==
  IF Updating(mon.pod)
    THEN MonitorAt("update", UpdatePatch(agent))
    ELSE NextAgent

Current == Cached(mon.pod).agent

Deciding(states) ==
  /\ mon.pc = "check"
  /\ Copy.state \in states
  /\ UNCHANGED <<timeline, proc, github, listing, published, req, spent>>

BindRunner ==
  LET i == MonInstance(Copy)
  IN  /\ Deciding({"configuring"})
      /\ i # Nobody
      /\ MoveTo(Transition([Current EXCEPT !.rid = i.id],
                           IF i.online THEN "ready" ELSE "starting"))

FollowStatus ==
  LET i == MonInstance(Copy)
  IN  /\ Deciding(Live)
      /\ i # Nobody
      /\ i.online = (Copy.state = "starting")
      /\ MoveTo(Transition(Current, IF i.online THEN "ready" ELSE "starting"))

AgentGone ==
  /\ Deciding(Live)
  /\ MonInstance(Copy) = Nobody
  /\ MoveTo(Transition(Current, "terminating"))

(* The decision falls to checkTimeout. *)
Waiting ==
  LET i == MonInstance(Copy)
  IN  \/ Copy.state = "pending"
      \/ Copy.state = "configuring" /\ i = Nobody
      \/ Copy.state = "starting" /\ i # Nobody /\ ~ i.online

TimedOut == Copy.late /\ mon.newEpoch

CheckTimeout ==
  /\ Deciding({"pending", "configuring", "starting"})
  /\ Waiting /\ TimedOut
  /\ MoveTo(Transition(Current, "terminating"))

NothingToDo ==
  /\ Deciding(AgentState)
  /\ \/ Waiting /\ ~ TimedOut
     \/ Copy.state = "ready" /\ MonInstance(Copy) # Nobody /\ MonInstance(Copy).online
     \/ Copy.state = "terminating" /\ MonInstance(Copy) # Nobody /\ ~ mon.newEpoch
  /\ NextAgent

(* Mutant of RunnerAbsent: the finalizer comes off before the pod is deleted. *)
RunnerAbsentReleases ==
  /\ Deciding({"terminating"})
  /\ MonInstance(Copy) = Nobody
  /\ MonitorAt("release", NoPatch)

RunnerAbsent ==
  /\ Deciding({"terminating"})
  /\ MonInstance(Copy) = Nobody
  /\ MonitorAt("terminate", NoPatch)

(* Mutant of NotDeleted: the pod goes although the runner could not. *)
NotDeletedGoesOn == MonitorAt("terminate", NoPatch)

(* The runner could not be deleted: wait for it, but not for ever. *)
NotDeleted == IF Copy.late THEN MonitorAt("terminate", NoPatch) ELSE NextAgent

(* GitHub refuses to delete a runner that has a job, or that is not there. *)
DeleteRunner ==
  LET id == MonInstance(Copy).id
  IN  /\ mon.pc = "check"
      /\ Copy.state = "terminating"
      /\ id # 0 /\ mon.newEpoch
      /\ \/ /\ Registered(id) /\ ~ github[id].busy
            /\ github' = [github EXCEPT ![id].status = "gone"]
            /\ MonitorAt("terminate", NoPatch)
            /\ UNCHANGED spent
         \/ /\ \/ ~ Registered(id) \/ github[id].busy
               /\ UNCHANGED <<github, spent>>
            /\ NotDeleted
         \/ /\ Fault
            /\ \/ UNCHANGED github
               \/ /\ Registered(id) /\ ~ github[id].busy
                  /\ github' = [github EXCEPT ![id].status = "gone"]
            /\ NotDeleted
      /\ UNCHANGED <<timeline, proc, listing, published, req>>

(* provider.TerminateAgent: Pods.Delete by name, NotFound is success. *)
TerminateAgent ==
  LET p == mon.pod
  IN  /\ mon.pc = "terminate"
      /\ \/ ~ Cached(p).exists /\ NextAgent /\ UNCHANGED <<timeline, spent>>
         \/ /\ Cached(p).exists
            /\ IF Server(p).exists
                 THEN Write(p, [Server(p) EXCEPT !.deleting = TRUE])
                 ELSE UNCHANGED timeline
            /\ MonitorAt("release", NoPatch)
            /\ UNCHANGED spent
         \/ /\ Cached(p).exists
            /\ Fault
            /\ \/ UNCHANGED timeline
               \/ /\ Server(p).exists
                  /\ Write(p, [Server(p) EXCEPT !.deleting = TRUE])
            /\ NextAgent
      /\ UNCHANGED <<proc, github, listing, published, req>>

(* State.DeleteAgent: take the finalizer off, as the cache shows it. *)
DeleteAgent ==
  LET pod == Cached(mon.pod)
  IN  /\ mon.pc = "release"
      /\ IF pod.exists /\ ReleasePatch(pod) # NoPatch
           THEN MonitorAt("update", ReleasePatch(pod))
           ELSE NextAgent
      /\ UNCHANGED <<timeline, proc, github, listing, published, req, spent>>

(* The patch of UpdateAgent or DeleteAgent; its error is only logged. *)
SendUpdate ==
  /\ mon.pc = "update"
  /\ PatchSent(mon.pod, mon.patch)
  /\ NextAgent
  /\ UNCHANGED <<proc, github, listing, published, req>>

CheckEnd ==
  /\ mon.pc = "pick"
  /\ \A p \in Pods : mon.agents[p] = NoAgent
  /\ mon' = [IdleMonitor EXCEPT !.epoch = mon.epoch]
  /\ UNCHANGED <<timeline, proc, github, listing, published, req, spent>>

MonitorStep ==
  \/ CheckBegin \/ ListAgents \/ CheckEnd
  \/ \E p \in Pods : ProviderCheckAgent(p)
  \/ SendProviderPatch
  \/ BindRunner \/ FollowStatus \/ AgentGone \/ CheckTimeout \/ NothingToDo
  \/ RunnerAbsent \/ DeleteRunner \/ TerminateAgent \/ DeleteAgent
  \/ SendUpdate

-------------------------------------------------------------------------------
(* The HTTP handlers *)

(* A process has one request out at a time, until it gives up on it. *)
NotCalling(p) == \A h \in Handlers : req[h].pod = p => ~ req[h].heard

Finish(h) == req' = [req EXCEPT ![h] = IdleRequest]

(* Mutant of Authenticated: the pod the token names is not looked up. *)
AuthenticatedAlways(p) == TRUE

(* The token review names the pod and its uid; the cache must agree. *)
Authenticated(p) == Cached(p).exists /\ Cached(p).uid = Server(p).uid

(* Mutant of Unregistered: makeAgent without the check of the annotation. *)
UnregisteredAlways(p) == Cached(p).exists

(* makeAgent wants a pod that is not registered. *)
Unregistered(p) == Cached(p).agent = NoAgent

(***************************************************************************)
(* POST /agent by the process of pod p.  The pod is the cached one; if it  *)
(* carries an agent, makeAgent answers with an error, which changes        *)
(* nothing: the process tries again.                                       *)
(***************************************************************************)
PostAgent(h, p) ==
  /\ req[h].pc = "idle"
  /\ proc[p] = "registering" /\ NotCalling(p)
  /\ Authenticated(p)
  /\ Unregistered(p)
  /\ req' = [req EXCEPT ![h] =
       [pc |-> "register", pod |-> p, copy |-> Cached(p), heard |-> TRUE,
        patch |-> RegisterPatch(Cached(p),
                    [name |-> <<p, Cached(p).uid>>, state |-> "configuring",
                     rid |-> 0, late |-> FALSE])]]
  /\ UNCHANGED <<timeline, proc, github, listing, published, mon, spent>>

(* makeAgent's patch; its error is the answer. *)
Register(h) ==
  LET p == req[h].pod
  IN  /\ req[h].pc = "register"
      /\ \/ /\ PatchApplied(p, req[h].patch)
            /\ req' = [req EXCEPT ![h] =
                 [@ EXCEPT !.pc = "annotate", !.copy = AbsentPod(0),
                           !.patch = AnnotatePatch(req[h].copy, FALSE)]]
         \/ PatchRejected(p, req[h].patch) /\ Finish(h)
         \/ PatchFailed(p, req[h].patch) /\ Finish(h)
      /\ UNCHANGED <<proc, github, listing, published, mon>>

(* updateAgentPod with the pod read before the registration; result ignored. *)
AnnotateNew(h) ==
  LET p == req[h].pod
  IN  /\ req[h].pc = "annotate"
      /\ PatchSent(p, req[h].patch)
      /\ Finish(h)
      /\ proc' = IF req[h].heard /\ proc[p] = "registering"
                   THEN [proc EXCEPT ![p] = "configuring"] ELSE proc
      /\ UNCHANGED <<github, listing, published, mon>>

(* DELETE /agent/{id}: 404 or an agent already terminating ends the watcher. *)
DeleteRequest(h, p) ==
  LET a == Cached(p).agent
  IN  /\ req[h].pc = "idle"
      /\ proc[p] = "finished" /\ NotCalling(p)
      /\ Authenticated(p)
      /\ \/ /\ a = NoAgent \/ a.state = "terminating"
            /\ proc' = [proc EXCEPT ![p] = "exited"]
            /\ UNCHANGED req
         \/ /\ a # NoAgent /\ a.state # "terminating"
            /\ req' = [req EXCEPT ![h] =
                 [pc |-> "terminate", pod |-> p, copy |-> AbsentPod(0), heard |-> TRUE,
                  patch |-> UpdatePatch(Transition(a, "terminating"))]]
            /\ UNCHANGED proc
      /\ UNCHANGED <<timeline, github, listing, published, mon, spent>>

FinishDelete(h) ==
  LET p == req[h].pod
  IN  /\ req[h].pc = "terminate"
      /\ \/ /\ \/ PatchApplied(p, req[h].patch)
               \/ ~ Server(p).exists /\ PatchRejected(p, req[h].patch)
            /\ proc' = IF req[h].heard /\ proc[p] = "finished"
                         THEN [proc EXCEPT ![p] = "exited"] ELSE proc
         \/ PatchFailed(p, req[h].patch) /\ UNCHANGED proc
      /\ Finish(h)
      /\ UNCHANGED <<github, listing, published, mon>>

(* The process stops waiting; the handler goes on. *)
GiveUp(h) ==
  /\ req[h].heard
  /\ Fault
  /\ req' = [req EXCEPT ![h].heard = FALSE]
  /\ UNCHANGED <<timeline, proc, github, listing, published, mon>>

HandlerStep(h) == Register(h) \/ AnnotateNew(h) \/ FinishDelete(h)

-------------------------------------------------------------------------------
(* The manager: runners.Synchronizer and GET /runners *)

(* One page of GitHub's list.  A runner that registers meanwhile may be on *)
(* a page to come or on one before, and move others there that were read.  *)
SyncFetch(page) ==
  /\ \A id \in page : Registered(id)
  /\ listing' = [unread |-> {id \in listing.unread \ page : Registered(id)},
                 passed |-> listing.passed \ page,
                 instances |-> [n \in Names |->
                   IF \E id \in page : github[id].name = n THEN Instance(n)
                   ELSE listing.instances[n]]]
  /\ UNCHANGED <<timeline, proc, github, published, mon, req, spent>>

(* Pages are numbered: a runner, of these pods or of anybody's, has left a *)
(* page already read, and another moved up into a page already read.       *)
ListShifts(id) ==
  /\ spent.shifts < MaxShifts /\ Trouble
  /\ spent' = [spent EXCEPT !.shifts = @ + 1]
  /\ id \in listing.unread
  /\ listing' = [listing EXCEPT !.unread = @ \ {id}, !.passed = @ \cup {id}]
  /\ UNCHANGED <<timeline, proc, github, published, mon, req>>

NextEpoch(epoch) == (epoch % MaxEpoch) + 1

(* Counting modulo MaxEpoch, an epoch must not lap the one the monitor saw;  *)
(* the first one after a restart may well have the number of that one.       *)
SyncPublish ==
  /\ listing.unread = {}
  /\ published.epoch # 0 => NextEpoch(published.epoch) # mon.epoch
  /\ published' = [epoch |-> NextEpoch(published.epoch),
                   instances |-> listing.instances, passed |-> listing.passed]
  /\ listing' = EmptyListing
  /\ UNCHANGED <<timeline, proc, github, mon, req, spent>>

NewState == [epoch |-> 0, instances |-> NoInstances, passed |-> {}]

(* A new process starts at epoch 0 with no instances and serves them. *)
ManagerRestart ==
  /\ spent.restarts < MaxManagerRestarts /\ Trouble
  /\ spent' = [spent EXCEPT !.restarts = @ + 1]
  /\ published' = NewState
  /\ listing' = EmptyListing
  /\ UNCHANGED <<timeline, proc, github, mon, req>>

-------------------------------------------------------------------------------
(* The controller restarts; the informer lists the pods anew. *)

ControllerRestart ==
  /\ spent.crashes < MaxCrashes /\ Trouble
  /\ spent' = [spent EXCEPT !.crashes = @ + 1]
  /\ mon' = IdleMonitor
  /\ req' = [h \in Handlers |-> IdleRequest]
  /\ timeline' = [p \in Pods |->
       IF Server(p).exists /\ MaxLag > 0
         THEN <<AbsentPod(Server(p).uid), Server(p)>> ELSE <<Server(p)>>]
  /\ UNCHANGED <<proc, github, listing, published>>

-------------------------------------------------------------------------------
(* Kubernetes and time *)

(* The informer delivers the next version of a pod. *)
Deliver(p) ==
  /\ Len(timeline[p]) > 1
  /\ timeline' = [timeline EXCEPT ![p] = Tail(@)]
  /\ UNCHANGED <<proc, github, listing, published, mon, req, spent>>

CreatePod(p) ==
  LET uid == Server(p).uid + 1
  IN  /\ ~ Server(p).exists
      /\ uid \in 1..MaxUid
      /\ Write(p, FreshPod(uid, PodFinalizers))
      /\ proc' = [proc EXCEPT ![p] = "registering"]
      /\ UNCHANGED <<github, listing, published, mon, req, spent>>

(* A user, a scale-down or an eviction deletes the pod. *)
EvictPod(p) ==
  /\ Server(p).exists /\ ~ Server(p).deleting
  /\ Write(p, [Server(p) EXCEPT !.deleting = TRUE])
  /\ UNCHANGED <<proc, github, listing, published, mon, req, spent>>

(* The owner of the other finalizer lets go of a pod being deleted. *)
ForeignRelease(p) ==
  /\ Server(p).deleting
  /\ \E i \in DOMAIN Server(p).finalizers :
       /\ Server(p).finalizers[i] = Foreign
       /\ Write(p, [Server(p) EXCEPT !.finalizers = RemoveAt(@, i)])
  /\ UNCHANGED <<proc, github, listing, published, mon, req, spent>>

RemovePod(p) ==
  /\ Server(p).deleting /\ Server(p).finalizers = <<>>
  /\ proc[p] = "exited"
  /\ Write(p, AbsentPod(Server(p).uid))
  /\ UNCHANGED <<proc, github, listing, published, mon, req, spent>>

(* TransitionTimeout passes for version k and for those before it. *)
Expire(p) ==
  LET waits(pod) == pod.agent # NoAgent /\ pod.agent.state # "ready"
                    /\ ~ pod.agent.late
  IN  /\ \E k \in DOMAIN timeline[p] :
           /\ waits(timeline[p][k])
           /\ timeline' = [timeline EXCEPT ![p] = [j \in DOMAIN @ |->
                IF j <= k /\ waits(@[j]) THEN [@[j] EXCEPT !.agent.late = TRUE]
                ELSE @[j]]]
      /\ UNCHANGED <<proc, github, listing, published, mon, req, spent>>

-------------------------------------------------------------------------------
(* The agent process (pkg/agent) and its runner at GitHub *)

ProcName(p) == <<p, Server(p).uid>>

OwnedBy(p, id) == Registered(id) /\ github[id].name = ProcName(p)

Flap == /\ spent.flaps < MaxFlaps /\ Trouble
        /\ spent' = [spent EXCEPT !.flaps = @ + 1]

(* config.sh --replace: a runner of the same name makes room for a new id. *)
(* It may fail after that, and is then run again.                          *)
ConfigureRunner(p) ==
  /\ proc[p] = "configuring" /\ Server(p).exists
  /\ \E id \in RunnerIds :
       /\ github[id].status = "none"
       /\ \A i \in 1..(id - 1) : github[i].status # "none"
       /\ github' = [i \in RunnerIds |->
            IF i = id THEN [name |-> ProcName(p), status |-> "offline", busy |-> FALSE]
            ELSE IF OwnedBy(p, i) THEN [github[i] EXCEPT !.status = "gone", !.busy = FALSE]
            ELSE github[i]]
  /\ \/ proc' = [proc EXCEPT ![p] = "running"] /\ UNCHANGED spent
     \/ Fault /\ UNCHANGED proc
  /\ UNCHANGED <<timeline, listing, published, mon, req>>

(* config.sh failed for good, or run.sh did: the process halts in silence. *)
(* Only in the second case is there a watcher that would hear of SIGTERM.  *)
ProcessHalts(p) ==
  /\ Fault
  /\ \/ proc[p] = "configuring" /\ proc' = [proc EXCEPT ![p] = "exited"]
     \/ proc[p] = "running" /\ proc' = [proc EXCEPT ![p] = "halted"]
  /\ UNCHANGED <<timeline, github, listing, published, mon, req>>

RunnerOnline(p, id) ==
  /\ proc[p] = "running" /\ OwnedBy(p, id)
  /\ github[id].status = "offline"
  /\ github' = [github EXCEPT ![id].status = "online"]
  /\ UNCHANGED <<timeline, proc, listing, published, mon, req, spent>>

RunnerOffline(p, id) ==
  /\ OwnedBy(p, id) /\ github[id].status = "online"
  /\ IF proc[p] = "running" THEN Flap ELSE UNCHANGED spent
  /\ github' = [github EXCEPT ![id].status = "offline"]
  /\ UNCHANGED <<timeline, proc, listing, published, mon, req>>

JobStart(p, id) ==
  /\ LongJobs
  /\ proc[p] = "running" /\ OwnedBy(p, id)
  /\ github[id].status = "online" /\ ~ github[id].busy
  /\ github' = [github EXCEPT ![id].busy = TRUE]
  /\ UNCHANGED <<timeline, proc, listing, published, mon, req, spent>>

(* --ephemeral: GitHub forgets the runner after its job, which may be over *)
(* before anybody saw it; run.sh exits and the watcher asks for            *)
(* termination, unless it has stopped watching.                            *)
JobDone(p, id) ==
  /\ proc[p] = "running" /\ OwnedBy(p, id) /\ github[id].status = "online"
  /\ github' = [github EXCEPT ![id].status = "gone", ![id].busy = FALSE]
  /\ \E state \in {"finished", "halted"} : proc' = [proc EXCEPT ![p] = state]
  /\ UNCHANGED <<timeline, listing, published, mon, req, spent>>

(* GitHub drops the job of a runner that went away, and then the runner. *)
GitHubForgets(p, id) ==
  /\ OwnedBy(p, id) /\ github[id].status = "offline" /\ proc[p] \in {"halted", "exited"}
  /\ github' = [github EXCEPT ![id].status = "gone", ![id].busy = FALSE]
  /\ UNCHANGED <<timeline, proc, listing, published, mon, req, spent>>

(* SIGTERM: the runner stops, and a watcher asks for termination. *)
Interrupt(p) ==
  /\ Server(p).deleting /\ proc[p] \in {"running", "halted"}
  /\ proc' = [proc EXCEPT ![p] = "finished"]
  /\ UNCHANGED <<timeline, github, listing, published, mon, req, spent>>

(* The end of the grace period. *)
KillProcess(p) ==
  /\ Server(p).deleting /\ proc[p] # "exited"
  /\ proc' = [proc EXCEPT ![p] = "exited"]
  /\ UNCHANGED <<timeline, github, listing, published, mon, req, spent>>

RunnerStep(p, id) ==
  \/ RunnerOnline(p, id) \/ RunnerOffline(p, id)
  \/ JobStart(p, id) \/ JobDone(p, id) \/ GitHubForgets(p, id)

-------------------------------------------------------------------------------
Init ==
  /\ timeline  = [p \in Pods |-> <<AbsentPod(0)>>]
  /\ proc      = [p \in Pods |-> "exited"]
  /\ github    = [id \in RunnerIds |-> NoRunner]
  /\ listing   = EmptyListing
  /\ published = NewState
  /\ mon       = IdleMonitor
  /\ req       = [h \in Handlers |-> IdleRequest]
  /\ spent     = [faults |-> 0, flaps |-> 0, crashes |-> 0, shifts |-> 0,
                restarts |-> 0]

Next ==
  \/ MonitorStep
  \/ \E h \in Handlers : HandlerStep(h) \/ GiveUp(h)
  \/ \E h \in Handlers, p \in Pods : PostAgent(h, p) \/ DeleteRequest(h, p)
  \/ \E page \in SUBSET RunnerIds : SyncFetch(page)
  \/ \E id \in RunnerIds : ListShifts(id)
  \/ SyncPublish \/ ManagerRestart \/ ControllerRestart
  \/ \E p \in Pods :
       \/ Deliver(p) \/ CreatePod(p) \/ EvictPod(p) \/ ForeignRelease(p)
       \/ RemovePod(p) \/ Expire(p)
       \/ ConfigureRunner(p) \/ ProcessHalts(p) \/ Interrupt(p) \/ KillProcess(p)
  \/ \E p \in Pods, id \in RunnerIds : RunnerStep(p, id)

Spec == Init /\ [][Next]_vars

(* What goes on without anybody's leave: the loops of the controller and   *)
(* the manager, the informer, the clock, the kubelet, the other finalizer; *)
(* and GitHub notices when a runner's process is no more.                  *)
Fairness ==
  /\ WF_vars(MonitorStep)
  /\ \A h \in Handlers : WF_vars(HandlerStep(h))
  /\ WF_vars(SyncPublish \/ \E page \in SUBSET RunnerIds : SyncFetch(page))
  /\ \A p \in Pods : /\ WF_vars(Deliver(p)) /\ WF_vars(Expire(p))
                     /\ WF_vars(KillProcess(p) \/ RemovePod(p))
                     /\ WF_vars(ForeignRelease(p))
                     /\ \A id \in RunnerIds :
                          WF_vars(proc[p] # "running" /\ RunnerOffline(p, id))

FairSpec == Spec /\ Fairness

-------------------------------------------------------------------------------
(* Properties *)

Agents == [name : Names, state : AgentState, rid : 0..MaxRunners,
           late : BOOLEAN] \cup {NoAgent}

Versions == {v \in [uid : 0..MaxUid, exists : BOOLEAN, deleting : BOOLEAN,
                    finalizers : Seq({Own, Foreign}), agent : Agents,
                    busy : BOOLEAN] : v.exists => v.uid # 0}

Patches == [agent : Agents, busy : {"keep", "set", "clear"},
            fin : {"keep", "create", "append", "remove"}, at : Nat]

InstanceMaps == [Names -> [id : 0..MaxRunners, online : BOOLEAN, busy : BOOLEAN]]

Processes == {"registering", "configuring", "running", "finished", "halted", "exited"}

Runners == [name : Names \cup {<<>>}, busy : BOOLEAN,
            status : {"none", "offline", "online", "gone"}]

Monitors == [pc : {"idle", "list", "pick", "provider", "check", "update",
                   "terminate", "release"},
             epoch : 0..MaxEpoch, newEpoch : BOOLEAN, instances : InstanceMaps,
             passed : SUBSET RunnerIds, agents : [Pods -> Agents], pod : Pods, patch : Patches]

Requests == [pc : {"idle", "register", "annotate", "terminate"}, pod : Pods,
             copy : Versions, patch : Patches, heard : BOOLEAN]

Failures == [faults : 0..MaxFaults, flaps : 0..MaxFlaps, crashes : 0..MaxCrashes,
             shifts : 0..MaxShifts, restarts : 0..MaxManagerRestarts]

(* The values each variable of the controller and its surroundings takes. *)
TypeOK ==
  /\ timeline \in [Pods -> Seq(Versions) \ {<<>>}]
  /\ proc \in [Pods -> Processes]
  /\ github \in [RunnerIds -> Runners]
  /\ listing \in [unread : SUBSET RunnerIds, passed : SUBSET RunnerIds,
                  instances : InstanceMaps]
  /\ published \in [epoch : 0..MaxEpoch, instances : InstanceMaps,
                    passed : SUBSET RunnerIds]
  /\ mon \in Monitors
  /\ req \in [Handlers -> Requests]
  /\ spent \in Failures

(* When the monitor logs "agent is gone" and is about to terminate a live  *)
(* agent, GitHub has indeed no runner with the id the agent is bound to    *)
(* (monitor.go:160,173); or it was passed over by the very list the        *)
(* monitor holds.  The evidence is a list of runners assembled page by     *)
(* page, published, served, and compared with an agent read later.         *)
GoneIsGone ==
  mon.pc = "check" /\ Copy.state \in Live /\ Copy.rid # 0
    /\ MonInstance(Copy) = Nobody
  => ~ Registered(Copy.rid) \/ Copy.rid \in mon.passed

(* The monitor deletes the pod of an agent bound to a runner only once the *)
(* runner is off GitHub, or after deleting it there was refused, in an     *)
(* epoch of its own and past the timeout (monitor.go:186-216), or if the   *)
(* list passed it over.                                                    *)
PodKilledSafely ==
  mon.pc = "terminate" /\ Copy.rid # 0
  => \/ ~ Registered(Copy.rid) \/ Copy.rid \in mon.passed
     \/ Copy.late /\ mon.newEpoch /\ MonInstance(Copy).id = Copy.rid

(* makeAgent tells a process that it is the agent of its pod only if the   *)
(* pod had none (controller_state.go:86-88).                               *)
AcceptsOnlyUnregistered ==
  [][\A h \in Handlers :
       req[h].pc = "register" /\ req'[h].pc = "annotate"
       => Server(req[h].pod).agent = NoAgent]_vars

(* The controller's finalizer comes off a pod only once it is being        *)
(* deleted: before, the pod could go without the monitor noticing          *)
(* (controller_state.go:134-153).                                          *)
FinalizerHeld ==
  [][\A p \in Pods :
       Own \in ToSet(Server(p).finalizers) /\ Own \notin ToSet(Server(p)'.finalizers)
       => Server(p).deleting]_vars

(* A deleted pod is not kept for ever by the controller's finalizer. *)
DeletedPodGoes ==
  \A p \in Pods : Server(p).exists /\ Server(p).deleting ~> ~ Server(p).exists

(* A busy runner is shown on its pod, so that nobody scales it down, unless *)
(* the job is over first (controller.go:171-217).                           *)
BusyShown ==
  \A p \in Pods, id \in RunnerIds :
    OwnedBy(p, id) /\ github[id].busy
    ~> Server(p).busy \/ ~ github[id].busy \/ ~ Server(p).exists

(* An agent whose process runs no runner is reaped, unless it gets to run  *)
(* one: registered but never told so, configured in vain, ended without a  *)
(* word, or asked to go (monitor.go:133-239).                              *)
IdleAgentReaped ==
  \A p \in Pods : Server(p).agent # NoAgent /\ proc[p] # "running"
                  ~> ~ Server(p).exists \/ proc[p] = "running"
===============================================================================
