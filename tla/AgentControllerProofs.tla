------------------------ MODULE AgentControllerProofs ------------------------
(***************************************************************************)
(* Proofs about AgentController, for every value of its constants.         *)
(***************************************************************************)
EXTENDS AgentControllerInv, TLAPS, NaturalsInduction, WellFoundedInduction,
        SequenceTheorems

-------------------------------------------------------------------------------
(* Patches *)

(* A finalizer list with the controller's finalizer has a first such entry. *)
LEMMA FirstOwnLemma ==
  ASSUME NEW S, NEW f \in Seq(S), Own \in ToSet(f)
  PROVE  FirstOwn(f) \in DOMAIN f /\ f[FirstOwn(f)] = Own
<1> DEFINE T == {i \in DOMAIN f : f[i] = Own}
<1>1. T \subseteq Nat /\ T # {}
  BY DEF ToSet
<1>2. PICK i \in T : \A j \in T : ~ (<<j, i>> \in OpToRel(<, Nat))
  <2>1. IsWellFoundedOn(OpToRel(<, Nat), Nat)
    BY NatLessThanWellFounded
  <2> QED
    BY <1>1, <2>1, WFMin, Zenon
<1>3. \A j \in 1..(i - 1) : f[j] # Own
  <2> SUFFICES ASSUME NEW j \in 1..(i - 1), f[j] = Own
               PROVE  FALSE
    OBVIOUS
  <2>1. i \in Nat /\ i \in DOMAIN f /\ j \in Nat /\ j < i
    BY <1>1
  <2>2. DOMAIN f = 1..Len(f) /\ Len(f) \in Nat
    OBVIOUS
  <2>3. j \in T
    BY <2>1, <2>2
  <2> QED
    BY <1>2, <2>1, <2>3 DEF OpToRel
<1> QED
  BY <1>2, <1>3 DEF FirstOwn

(* What the patch builders return is a patch. *)
LEMMA PatchTypes ==
  /\ NoAgent \in Agents /\ NoPatch \in Patches
  /\ \A a \in Agents : UpdatePatch(a) \in Patches
  /\ \A v \in Versions, b \in BOOLEAN : AnnotatePatch(v, b) \in Patches
  /\ \A v \in Versions, a \in Agents : RegisterPatch(v, a) \in Patches
  /\ \A v \in Versions : ReleasePatch(v) \in Patches
<1>1. NoAgent \in Agents
  BY DEF Agents
<1>2. NoPatch \in Patches
  BY <1>1 DEF NoPatch, Patches
<1>3. \A v \in Versions : ReleasePatch(v) \in Patches
  <2> SUFFICES ASSUME NEW v \in Versions, Own \in ToSet(v.finalizers)
               PROVE  ReleasePatch(v) \in Patches
    BY <1>2 DEF ReleasePatch
  <2>1. v.finalizers \in Seq({Own, Foreign})
    BY DEF Versions
  <2>2. FirstOwn(v.finalizers) \in Nat
    BY <2>1, FirstOwnLemma
  <2> QED
    BY <1>2, <2>2 DEF ReleasePatch, NoPatch, Patches
<1> QED
  BY <1>1, <1>2, <1>3 DEF UpdatePatch, AnnotatePatch, RegisterPatch, NoPatch,
     Patches, AddFinalizerPatch

(* What the API server makes of a pod with a patch is a pod. *)
LEMMA PatchedType ==
  ASSUME NEW patch \in Patches, NEW pod \in Versions, Applies(patch, pod)
  PROVE  Patched(patch, pod) \in Versions
<1>1. PatchedFinalizers(patch, pod.finalizers) \in Seq({Own, Foreign})
  <2>1. pod.finalizers \in Seq({Own, Foreign})
    BY DEF Versions
  <2>2. CASE patch.fin = "keep"
    BY <2>1, <2>2 DEF PatchedFinalizers
  <2>3. CASE patch.fin \in {"create", "append"}
    BY <2>1, <2>3 DEF PatchedFinalizers
  <2>4. CASE patch.fin = "remove"
    <3>1. patch.at \in DOMAIN pod.finalizers
      BY <2>4 DEF Applies
    <3>2. RemoveAt(pod.finalizers, patch.at) \in Seq({Own, Foreign})
      BY <2>1, <3>1 DEF RemoveAt
    <3> QED
      BY <2>4, <3>2 DEF PatchedFinalizers
  <2> QED
    BY <2>2, <2>3, <2>4 DEF Patches
<1> QED
  BY <1>1 DEF Patched, Patches, Versions

(* A transition of an agent is an agent; so is binding it to a runner. *)
LEMMA TransitionType ==
  /\ \A a \in Agents, s \in AgentState : a # NoAgent => Transition(a, s) \in Agents
  /\ \A a \in Agents, s \in AgentState, id \in 0..MaxRunners :
       a # NoAgent => Transition([a EXCEPT !.rid = id], s) \in Agents
BY DEF Transition, Agents

-------------------------------------------------------------------------------
(* Pods and the calls that write them *)

(* The cached and the stored pod are versions of the pod. *)
LEMMA PodTypes ==
  ASSUME timeline \in [Pods -> Seq(Versions) \ {<<>>}], NEW p \in Pods
  PROVE  /\ timeline[p] \in Seq(Versions) /\ timeline[p] # <<>>
         /\ Len(timeline[p]) \in Nat \ {0}
         /\ Cached(p) \in Versions /\ Cached(p) = timeline[p][1]
         /\ Server(p) \in Versions /\ Server(p) = timeline[p][Len(timeline[p])]
<1>1. timeline[p] \in Seq(Versions) /\ timeline[p] # <<>>
  OBVIOUS
<1>2. Len(timeline[p]) \in Nat \ {0}
  BY <1>1, EmptySeq
<1> QED
  BY <1>1, <1>2 DEF Cached, Server, Last

(* Absent pods and pods being deleted are versions. *)
LEMMA VersionTypes ==
  /\ \A uid \in 0..MaxUid : AbsentPod(uid) \in Versions
  /\ \A uid \in 1..MaxUid : FreshPod(uid, PodFinalizers) \in Versions
  /\ \A v \in Versions : /\ v.agent \in Agents /\ v.uid \in 0..MaxUid
                         /\ v.finalizers \in Seq({Own, Foreign})
                         /\ v.exists => v.uid \in 1..MaxUid
                         /\ [v EXCEPT !.deleting = TRUE] \in Versions
<1>1. /\ NoAgent \in Agents /\ MaxUid \in Nat
      /\ <<>> \in Seq({Own, Foreign}) /\ <<Foreign>> \in Seq({Own, Foreign})
  BY PatchTypes, BoundsAssumption
<1>2. PodFinalizers \in Seq({Own, Foreign})
  BY <1>1, FinalizersAssumption
<1>3. \A uid \in 0..MaxUid : AbsentPod(uid) \in Versions
  BY <1>1 DEF AbsentPod, Versions
<1>4. ASSUME NEW uid \in 1..MaxUid
      PROVE  FreshPod(uid, PodFinalizers) \in Versions
  <2>1. uid \in 0..MaxUid /\ uid # 0
    BY <1>1
  <2> QED
    BY <1>1, <1>2, <2>1 DEF FreshPod, Versions
<1>5. ASSUME NEW v \in Versions
      PROVE  /\ v.agent \in Agents /\ v.uid \in 0..MaxUid
             /\ v.finalizers \in Seq({Own, Foreign})
             /\ v.exists => v.uid \in 1..MaxUid
             /\ [v EXCEPT !.deleting = TRUE] \in Versions
  <2>1. /\ v.agent \in Agents /\ v.uid \in 0..MaxUid
        /\ v.finalizers \in Seq({Own, Foreign})
        /\ v.exists => v.uid # 0
    BY DEF Versions
  <2>2. v.exists => v.uid \in 1..MaxUid
    BY <1>1, <2>1
  <2>3. [v EXCEPT !.deleting = TRUE] \in Versions
    BY DEF Versions
  <2> QED
    BY <2>1, <2>2, <2>3
<1> QED
  BY <1>3, <1>4, <1>5

(* A write adds a version at most, and leaves the other pods alone. *)
LEMMA WriteType ==
  ASSUME timeline \in [Pods -> Seq(Versions) \ {<<>>}],
         NEW p \in Pods, NEW pod \in Versions, Write(p, pod)
  PROVE  /\ timeline' \in [Pods -> Seq(Versions) \ {<<>>}]
         /\ \A q \in Pods : \A k \in DOMAIN timeline'[q] :
              \/ q = p /\ timeline'[q][k] = pod
              \/ \E j \in DOMAIN timeline[q] : timeline'[q][k] = timeline[q][j]
<1>1. CASE UNCHANGED timeline
  BY <1>1
<1>2. CASE timeline' = [timeline EXCEPT ![p] = Append(@, pod)]
  <2>1. timeline[p] \in Seq(Versions)
    OBVIOUS
  <2>2. /\ Append(timeline[p], pod) \in Seq(Versions)
        /\ Append(timeline[p], pod) # <<>>
        /\ \A k \in DOMAIN Append(timeline[p], pod) :
             \/ Append(timeline[p], pod)[k] = pod
             \/ k \in DOMAIN timeline[p] /\ Append(timeline[p], pod)[k] = timeline[p][k]
    BY <2>1, AppendProperties, EmptySeq
  <2> QED
    BY <1>2, <2>2
<1>3. CASE timeline' = [timeline EXCEPT ![p] = <<pod>>]
  BY <1>3
<1> QED
  BY <1>1, <1>2, <1>3 DEF Write

(* So does a patch, whatever becomes of it. *)
LEMMA PatchSentType ==
  ASSUME timeline \in [Pods -> Seq(Versions) \ {<<>>}],
         NEW p \in Pods, NEW patch \in Patches,
         PatchSent(p, patch)
  PROVE  /\ timeline' \in [Pods -> Seq(Versions) \ {<<>>}]
         /\ \A q \in Pods : \A k \in DOMAIN timeline'[q] :
              \/ q = p /\ timeline'[q][k].agent = patch.agent
              \/ \E j \in DOMAIN timeline[q] :
                   timeline'[q][k].agent = timeline[q][j].agent
<1>1. CASE UNCHANGED timeline
  BY <1>1
<1>2. CASE Applies(patch, Server(p)) /\ Write(p, Patched(patch, Server(p)))
  <2>1. Server(p) \in Versions /\ \E j \in DOMAIN timeline[p] : Server(p) = timeline[p][j]
    BY PodTypes
  <2>2. Patched(patch, Server(p)) \in Versions
    BY <1>2, <2>1, PatchedType
  <2>3. \/ Patched(patch, Server(p)).agent = patch.agent
        \/ Patched(patch, Server(p)).agent = Server(p).agent
    BY <2>1 DEF Patched, Versions
  <2> QED
    BY <1>2, <2>1, <2>2, <2>3, WriteType
<1> QED
  BY <1>1, <1>2 DEF PatchSent, PatchApplied, PatchRejected, PatchFailed

(* ... and counts a failure within its bound, or none. *)
LEMMA SpentType ==
  ASSUME spent \in Failures,
         \/ Fault \/ Flap \/ ManagerRestart \/ ControllerRestart
         \/ (\E id \in RunnerIds : ListShifts(id)) \/ UNCHANGED spent
  PROVE  spent' \in Failures
<1>1. /\ MaxFaults \in Nat /\ MaxFlaps \in Nat
      /\ MaxCrashes \in Nat /\ MaxShifts \in Nat /\ MaxManagerRestarts \in Nat
  BY BoundsAssumption
<1>2. CASE Fault
  BY <1>1, <1>2 DEF Failures, Fault
<1>3. CASE Flap
  BY <1>1, <1>3 DEF Failures, Flap
<1>4. CASE ManagerRestart
  BY <1>1, <1>4 DEF Failures, ManagerRestart
<1>5. CASE ControllerRestart
  BY <1>1, <1>5 DEF Failures, ControllerRestart
<1>6. CASE \E id \in RunnerIds : ListShifts(id)
  <2>1. spent.shifts < MaxShifts /\ spent' = [spent EXCEPT !.shifts = @ + 1]
    BY <1>6 DEF ListShifts
  <2> QED
    BY <1>1, <2>1 DEF Failures
<1> QED
  BY <1>2, <1>3, <1>4, <1>5, <1>6

-------------------------------------------------------------------------------
(* The monitor's and the handlers' locals *)

LEMMA IdleTypes ==
  /\ IdleMonitor \in Monitors /\ IdleRequest \in Requests
  /\ NoInstances \in InstanceMaps
  /\ EmptyListing \in [unread : SUBSET RunnerIds, passed : SUBSET RunnerIds,
                       instances : InstanceMaps]
  /\ NewState \in [epoch : 0..MaxEpoch, instances : InstanceMaps,
                   passed : SUBSET RunnerIds]
<1>1. (CHOOSE p \in Pods : TRUE) \in Pods
  BY PodsAssumption
<1>2. 0 \in 0..MaxEpoch /\ 0 \in 0..MaxRunners /\ 0 \in 0..MaxUid
  BY BoundsAssumption
<1>3. NoInstances \in InstanceMaps
  BY <1>2 DEF NoInstances, InstanceMaps, Nobody
<1>4. IdleMonitor \in Monitors
  BY <1>1, <1>2, <1>3, PatchTypes DEF IdleMonitor, Monitors
<1>5. IdleRequest \in Requests
  BY <1>1, <1>2, PatchTypes, VersionTypes DEF IdleRequest, Requests
<1> QED
  BY <1>2, <1>3, <1>4, <1>5 DEF EmptyListing, NewState

(* Leaving an agent: its copy and the patch are dropped, all else is kept. *)
LEMMA NextAgentType ==
  ASSUME mon \in Monitors, NextAgent
  PROVE  /\ mon' \in Monitors
         /\ mon'.pc = "pick" /\ mon'.patch = NoPatch /\ mon'.pod = mon.pod
         /\ mon'.instances = mon.instances /\ mon'.passed = mon.passed
         /\ mon'.newEpoch = mon.newEpoch
         /\ \A p \in Pods : mon'.agents[p] \in {mon.agents[p], NoAgent}
<1>1. mon.agents \in [Pods -> Agents] /\ mon.pod \in Pods
  BY DEF Monitors
<1>2. [mon.agents EXCEPT ![mon.pod] = NoAgent] \in [Pods -> Agents]
  BY <1>1, PatchTypes
<1> QED
  BY <1>1, <1>2, PatchTypes DEF NextAgent, Monitors

(* Going on with an agent: the label and the patch change, all else is kept. *)
LEMMA MonitorAtType ==
  ASSUME mon \in Monitors, NEW patch \in Patches,
         NEW pc \in {"check", "update", "terminate", "release"},
         MonitorAt(pc, patch)
  PROVE  /\ mon' \in Monitors
         /\ mon'.pc = pc /\ mon'.patch = patch /\ mon'.pod = mon.pod
         /\ mon'.instances = mon.instances /\ mon'.passed = mon.passed
         /\ mon'.newEpoch = mon.newEpoch
         /\ mon'.agents = mon.agents
BY DEF MonitorAt, Monitors

(* UpdateAgent either finds the cached agent and patches it or gives up. *)
LEMMA MoveToType ==
  ASSUME mon \in Monitors, NEW agent, MoveTo(agent),
         Updating(mon.pod) => agent \in Agents
  PROVE  /\ mon' \in Monitors /\ mon'.pc \in {"pick", "update"}
         /\ mon'.pod = mon.pod /\ mon'.newEpoch = mon.newEpoch
         /\ mon'.instances = mon.instances /\ mon'.passed = mon.passed
         /\ \A p \in Pods : mon'.agents[p] \in {mon.agents[p], NoAgent}
         /\ mon'.patch.agent \in {NoAgent, agent}
         /\ ~ Updating(mon.pod) => mon'.patch.agent = NoAgent
<1>1. CASE Updating(mon.pod)
  <2>1. UpdatePatch(agent) \in Patches /\ UpdatePatch(agent).agent = agent
    BY <1>1, PatchTypes DEF UpdatePatch, NoPatch
  <2> QED
    BY <1>1, <2>1, MonitorAtType DEF MoveTo
<1>2. CASE ~ Updating(mon.pod)
  BY <1>2, NextAgentType DEF MoveTo, NoPatch
<1> QED
  BY <1>1, <1>2

(* The instance of an agent is an entry of the list, or nobody. *)
LEMMA LookupType ==
  ASSUME NEW instances \in InstanceMaps, NEW a \in Agents, a # NoAgent
  PROVE  /\ Lookup(instances, a) \in [id : 0..MaxRunners, online : BOOLEAN,
                                      busy : BOOLEAN]
         /\ Lookup(instances, a) # Nobody =>
              Lookup(instances, a) = instances[a.name] /\ a.rid \in {0, instances[a.name].id}
<1>1. a.name \in Names /\ 0 \in 0..MaxRunners
  BY BoundsAssumption DEF Agents
<1>2. instances[a.name] \in [id : 0..MaxRunners, online : BOOLEAN, busy : BOOLEAN]
  BY <1>1 DEF InstanceMaps
<1> QED
  BY <1>1, <1>2 DEF Lookup, Nobody

-------------------------------------------------------------------------------
(* Type correctness *)

LEMMA MonitorTypes ==
  ASSUME TypeOK, MonitorStep
  PROVE  /\ mon' \in Monitors
         /\ timeline' \in [Pods -> Seq(Versions) \ {<<>>}]
         /\ github' \in [RunnerIds -> Runners]
         /\ spent' \in Failures
         /\ UNCHANGED <<proc, listing, published, req>>
<1> USE DEF TypeOK
<1>1. /\ mon.pod \in Pods /\ mon.patch \in Patches /\ mon.agents \in [Pods -> Agents]
      /\ mon.instances \in InstanceMaps /\ mon.epoch \in 0..MaxEpoch
      /\ mon.newEpoch \in BOOLEAN
  BY DEF Monitors
<1>2. /\ published.epoch \in 0..MaxEpoch /\ published.instances \in InstanceMaps
      /\ published.passed \in SUBSET RunnerIds
  OBVIOUS
<1>3. ASSUME NEW p \in Pods
      PROVE  /\ Cached(p) \in Versions /\ Cached(p).agent \in Agents
             /\ Server(p) \in Versions /\ mon.agents[p] \in Agents
  BY <1>1, PodTypes, VersionTypes
<1>4. Current \in Agents /\ (Updating(mon.pod) => Current # NoAgent)
  BY <1>1, <1>3 DEF Current, Updating
<1>5. CASE CheckBegin
  BY <1>2, <1>5 DEF CheckBegin, NewEpoch, Monitors
<1>6. CASE ListAgents
  BY <1>1, <1>3, <1>6 DEF ListAgents, Monitors
<1>7. CASE CheckEnd
  BY <1>1, <1>7, IdleTypes DEF CheckEnd, Monitors
<1>8. ASSUME NEW p \in Pods, ProviderCheckAgent(p)
      PROVE  mon' \in Monitors /\ UNCHANGED <<timeline, github, spent, proc, listing,
                                              published, req>>
  <2> DEFINE i == MonInstance(mon.agents[p])
  <2>1. UNCHANGED <<timeline, github, spent, proc, listing, published, req>>
    BY <1>8 DEF ProviderCheckAgent
  <2>2. mon.agents[p] # NoAgent
    BY <1>8 DEF ProviderCheckAgent
  <2>3. i.busy \in BOOLEAN
    BY <1>1, <1>3, <2>2, LookupType DEF MonInstance
  <2>4. CASE mon' = [mon EXCEPT !.pc = "pick", !.pod = p, !.patch = NoPatch,
                                !.agents = [mon.agents EXCEPT ![p] = NoAgent]]
    BY <1>1, <2>1, <2>4, PatchTypes DEF Monitors
  <2>5. CASE Updating(p) /\ mon' = [mon EXCEPT !.pc = "provider", !.pod = p,
               !.patch = UpdatePatch(Transition(Cached(p).agent, "terminating")),
               !.agents = mon.agents]
    <3>1. UpdatePatch(Transition(Cached(p).agent, "terminating")) \in Patches
      BY <1>3, <2>5, PatchTypes, TransitionType DEF Updating, AgentState
    <3> QED
      BY <1>1, <2>1, <2>5, <3>1 DEF Monitors
  <2>6. CASE mon' = [mon EXCEPT !.pc = "check", !.pod = p, !.patch = NoPatch,
                                !.agents = mon.agents]
    BY <1>1, <2>1, <2>6, PatchTypes DEF Monitors
  <2>7. CASE mon' = [mon EXCEPT !.pc = "provider", !.pod = p,
                                !.patch = AnnotatePatch(Cached(p), i.busy),
                                !.agents = mon.agents]
    <3>1. AnnotatePatch(Cached(p), i.busy) \in Patches
      BY <1>3, <2>3, PatchTypes
    <3> QED
      BY <1>1, <2>1, <2>7, <3>1 DEF Monitors
  <2> QED
    BY <1>8, <2>1, <2>4, <2>5, <2>6, <2>7 DEF ProviderCheckAgent
<1>9. CASE SendProviderPatch
  <2>1. PatchSent(mon.pod, mon.patch)
    BY <1>9 DEF SendProviderPatch, ProviderAccepts, ProviderRefuses, PatchSent
  <2>2. mon' \in Monitors
    BY <1>9, NextAgentType, MonitorAtType, PatchTypes DEF SendProviderPatch
  <2>3. timeline' \in [Pods -> Seq(Versions) \ {<<>>}] /\ spent' \in Failures
    BY <1>1, <2>1, PatchSentType, SpentType
       DEF PatchSent, PatchApplied, PatchRejected, PatchFailed
  <2> QED
    BY <1>9, <2>2, <2>3 DEF SendProviderPatch
<1>10. CASE BindRunner \/ FollowStatus \/ AgentGone \/ CheckTimeout
  <2>1. UNCHANGED <<timeline, github, spent, proc, listing, published, req>>
    BY <1>10 DEF BindRunner, FollowStatus, AgentGone, CheckTimeout, Deciding
  <2>2. Copy \in Agents /\ Copy # NoAgent
    BY <1>1, <1>3, <1>10 DEF BindRunner, FollowStatus, AgentGone, CheckTimeout,
       Deciding, Copy, NoAgent, Live
  <2>3. MonInstance(Copy).id \in 0..MaxRunners
    BY <1>1, <2>2, LookupType DEF MonInstance
  <2>4. PICK a : MoveTo(a) /\ (Updating(mon.pod) => a \in Agents)
    BY <1>4, <1>10, <2>3, TransitionType
       DEF BindRunner, FollowStatus, AgentGone, CheckTimeout, AgentState
  <2> QED
    BY <2>1, <2>4, MoveToType
<1>11. CASE NothingToDo
  BY <1>11, NextAgentType DEF NothingToDo, Deciding
<1>12. CASE RunnerAbsent
  BY <1>12, MonitorAtType, PatchTypes DEF RunnerAbsent, Deciding
<1>13. CASE DeleteRunner
  <2>1. mon' \in Monitors
    BY <1>13, NextAgentType, MonitorAtType, PatchTypes DEF DeleteRunner, NotDeleted
  <2>2. spent' \in Failures
    BY <1>13, SpentType DEF DeleteRunner, NotDeleted
  <2>3. github' \in [RunnerIds -> Runners]
    <3>1. CASE UNCHANGED github
      BY <3>1
    <3>2. CASE github' = [github EXCEPT ![MonInstance(Copy).id].status = "gone"]
      BY <3>2 DEF Runners
    <3> QED
      BY <1>13, <3>1, <3>2 DEF DeleteRunner, NotDeleted
  <2> QED
    BY <1>13, <2>1, <2>2, <2>3 DEF DeleteRunner, NotDeleted
<1>14. CASE TerminateAgent
  <2>1. mon' \in Monitors
    BY <1>14, NextAgentType, MonitorAtType, PatchTypes DEF TerminateAgent
  <2>2. timeline' \in [Pods -> Seq(Versions) \ {<<>>}]
    BY <1>1, <1>3, <1>14, WriteType, VersionTypes DEF TerminateAgent
  <2>3. spent' \in Failures
    BY <1>14, SpentType DEF TerminateAgent
  <2> QED
    BY <1>14, <2>1, <2>2, <2>3 DEF TerminateAgent
<1>15. CASE DeleteAgent
  <2>1. ReleasePatch(Cached(mon.pod)) \in Patches
    BY <1>1, <1>3, PatchTypes
  <2> QED
    BY <1>15, <2>1, NextAgentType, MonitorAtType DEF DeleteAgent
<1>16. CASE SendUpdate
  <2>1. timeline' \in [Pods -> Seq(Versions) \ {<<>>}] /\ spent' \in Failures
    BY <1>1, <1>16, PatchSentType, SpentType
       DEF SendUpdate, PatchSent, PatchApplied, PatchRejected, PatchFailed
  <2> QED
    BY <1>16, <2>1, NextAgentType DEF SendUpdate
<1> QED
  BY <1>5, <1>6, <1>7, <1>8, <1>9, <1>10, <1>11, <1>12, <1>13, <1>14, <1>15,
     <1>16 DEF MonitorStep

LEMMA HandlerTypes ==
  ASSUME TypeOK, NEW h \in Handlers,
         \/ HandlerStep(h) \/ GiveUp(h)
         \/ \E p \in Pods : PostAgent(h, p) \/ DeleteRequest(h, p)
  PROVE  /\ req' \in [Handlers -> Requests]
         /\ timeline' \in [Pods -> Seq(Versions) \ {<<>>}]
         /\ proc' \in [Pods -> Processes]
         /\ spent' \in Failures
         /\ UNCHANGED <<github, listing, published, mon>>
<1> USE DEF TypeOK
<1>1. /\ req[h] \in Requests /\ req[h].pod \in Pods /\ req[h].patch \in Patches
      /\ req[h].copy \in Versions
  BY DEF Requests
<1>2. ASSUME Finish(h)
      PROVE  req' \in [Handlers -> Requests]
  BY <1>2, IdleTypes DEF Finish
<1>3. AbsentPod(0) \in Versions
  <2>1. 0 \in 0..MaxUid
    BY BoundsAssumption
  <2> QED
    BY <2>1, VersionTypes
<1>4. PatchSent(req[h].pod, req[h].patch)
        => timeline' \in [Pods -> Seq(Versions) \ {<<>>}] /\ spent' \in Failures
  BY <1>1, PatchSentType, SpentType
     DEF PatchSent, PatchApplied, PatchRejected, PatchFailed
<1>5. CASE Register(h)
  <2>1. AnnotatePatch(req[h].copy, FALSE) \in Patches
    BY <1>1, PatchTypes
  <2>2. [req[h] EXCEPT !.pc = "annotate", !.copy = AbsentPod(0),
                       !.patch = AnnotatePatch(req[h].copy, FALSE)] \in Requests
    BY <1>1, <1>3, <2>1 DEF Requests
  <2>3. req' \in [Handlers -> Requests]
    BY <1>2, <1>5, <2>2 DEF Register
  <2> QED
    BY <1>4, <1>5, <2>3 DEF Register, PatchSent
<1>6. CASE AnnotateNew(h)
  <2>1. proc' \in [Pods -> Processes]
    BY <1>6 DEF AnnotateNew, Processes
  <2> QED
    BY <1>2, <1>4, <1>6, <2>1 DEF AnnotateNew
<1>7. CASE FinishDelete(h)
  <2>1. proc' \in [Pods -> Processes]
    BY <1>7 DEF FinishDelete, Processes
  <2> QED
    BY <1>2, <1>4, <1>7, <2>1 DEF FinishDelete, PatchSent
<1>8. CASE GiveUp(h)
  <2>1. req' \in [Handlers -> Requests]
    BY <1>1, <1>8 DEF GiveUp, Requests
  <2> QED
    BY <1>8, <2>1, SpentType DEF GiveUp
<1>9. ASSUME NEW p \in Pods, PostAgent(h, p)
      PROVE  req' \in [Handlers -> Requests] /\ UNCHANGED <<timeline, proc, spent>>
  <2> DEFINE a == [name |-> <<p, Cached(p).uid>>, state |-> "configuring",
                   rid |-> 0, late |-> FALSE]
  <2>1. Cached(p) \in Versions /\ Cached(p).uid \in 1..MaxUid
    BY <1>9, PodTypes, VersionTypes DEF PostAgent, Authenticated
  <2>2. a \in Agents
    BY <2>1, BoundsAssumption DEF Agents, Names, AgentState
  <2>3. RegisterPatch(Cached(p), a) \in Patches
    BY <2>1, <2>2, PatchTypes
  <2> QED
    BY <1>9, <2>1, <2>3 DEF PostAgent, Requests
<1>10. ASSUME NEW p \in Pods, DeleteRequest(h, p)
       PROVE  /\ req' \in [Handlers -> Requests] /\ proc' \in [Pods -> Processes]
              /\ UNCHANGED <<timeline, spent>>
  <2> DEFINE a == Cached(p).agent
  <2>1. a \in Agents
    BY PodTypes, VersionTypes
  <2>2. a # NoAgent => UpdatePatch(Transition(a, "terminating")) \in Patches
    BY <2>1, PatchTypes, TransitionType DEF AgentState
  <2>3. proc' \in [Pods -> Processes]
    BY <1>10 DEF DeleteRequest, Processes
  <2>4. req' \in [Handlers -> Requests]
    <3>1. CASE UNCHANGED req
      BY <3>1
    <3>2. CASE /\ a # NoAgent
               /\ req' = [req EXCEPT ![h] =
                    [pc |-> "terminate", pod |-> p, copy |-> AbsentPod(0),
                     heard |-> TRUE,
                     patch |-> UpdatePatch(Transition(a, "terminating"))]]
      BY <1>3, <2>2, <3>2 DEF Requests
    <3> QED
      BY <1>10, <3>1, <3>2 DEF DeleteRequest
  <2> QED
    BY <1>10, <2>3, <2>4 DEF DeleteRequest
<1> QED
  BY <1>5, <1>6, <1>7, <1>8, <1>9, <1>10
     DEF HandlerStep, Register, AnnotateNew, FinishDelete, GiveUp, PostAgent,
         DeleteRequest

(* A runner GitHub has is an instance of the list it returns. *)
LEMMA InstanceType ==
  ASSUME github \in [RunnerIds -> Runners], NEW n \in Names
  PROVE  /\ Instance(n) \in [id : 0..MaxRunners, online : BOOLEAN, busy : BOOLEAN]
         /\ Instance(n).id # 0 => /\ Instance(n).id \in RunnerIds
                                  /\ Registered(Instance(n).id)
                                  /\ github[Instance(n).id].name = n
         /\ (\E id \in RunnerIds : Registered(id) /\ github[id].name = n)
              => Instance(n).id # 0
<1>1. CASE \E id \in RunnerIds : Registered(id) /\ github[id].name = n
  <2> DEFINE id == CHOOSE i \in RunnerIds : Registered(i) /\ github[i].name = n
  <2>1. id \in RunnerIds /\ Registered(id) /\ github[id].name = n
    BY <1>1
  <2>2. Instance(n) = [id |-> id, online |-> github[id].status = "online",
                       busy |-> github[id].busy]
    BY <1>1 DEF Instance
  <2> HIDE DEF id
  <2>3. id \in 1..MaxRunners /\ MaxRunners \in Nat
    BY <2>1, BoundsAssumption DEF RunnerIds
  <2>4. id \in 0..MaxRunners /\ id # 0
    BY <2>3
  <2>5. github[id].busy \in BOOLEAN
    BY <2>1 DEF Runners
  <2> QED
    BY <2>1, <2>2, <2>4, <2>5
<1>2. CASE ~ \E id \in RunnerIds : Registered(id) /\ github[id].name = n
  BY <1>2, BoundsAssumption DEF Instance, Nobody
<1> QED
  BY <1>1, <1>2

(* What the manager does, and what happens to the list it reads. *)
ManagerStep ==
  \/ \E page \in SUBSET RunnerIds : SyncFetch(page)
  \/ \E id \in RunnerIds : ListShifts(id)
  \/ SyncPublish \/ ManagerRestart

LEMMA ManagerTypes ==
  ASSUME TypeOK, ManagerStep
  PROVE  /\ listing' \in [unread : SUBSET RunnerIds, passed : SUBSET RunnerIds,
                          instances : InstanceMaps]
         /\ published' \in [epoch : 0..MaxEpoch, instances : InstanceMaps,
                            passed : SUBSET RunnerIds]
         /\ spent' \in Failures
         /\ UNCHANGED <<timeline, proc, github, mon, req>>
<1> USE DEF TypeOK
<1>1. ASSUME NEW page \in SUBSET RunnerIds, SyncFetch(page)
      PROVE  listing' \in [unread : SUBSET RunnerIds, passed : SUBSET RunnerIds,
                           instances : InstanceMaps]
  <2> DEFINE read(n) == IF \E id \in page : github[id].name = n THEN Instance(n)
                        ELSE listing.instances[n]
  <2>1. \A n \in Names :
          read(n) \in [id : 0..MaxRunners, online : BOOLEAN, busy : BOOLEAN]
    BY InstanceType DEF InstanceMaps
  <2>2. listing'.instances = [n \in Names |-> read(n)]
    BY <1>1 DEF SyncFetch
  <2>3. listing'.instances \in InstanceMaps
    <3> HIDE DEF read
    <3> QED
      BY <2>1, <2>2 DEF InstanceMaps
  <2> QED
    BY <1>1, <2>3 DEF SyncFetch
<1>2. CASE SyncPublish
  <2>1. NextEpoch(published.epoch) \in 0..MaxEpoch
    BY BoundsAssumption DEF NextEpoch
  <2> QED
    BY <1>2, <2>1, IdleTypes DEF SyncPublish
<1>3. CASE ManagerRestart
  <2>1. spent' \in Failures
    BY <1>3, SpentType
  <2> QED
    BY <1>3, <2>1, IdleTypes DEF ManagerRestart
<1>4. ASSUME NEW id \in RunnerIds, ListShifts(id)
      PROVE  /\ listing' \in [unread : SUBSET RunnerIds, passed : SUBSET RunnerIds,
                              instances : InstanceMaps]
             /\ spent' \in Failures
  BY <1>4, SpentType DEF ListShifts
<1> QED
  BY <1>1, <1>2, <1>3, <1>4
     DEF ManagerStep, SyncFetch, SyncPublish, ManagerRestart, ListShifts

LEMMA RestartTypes ==
  ASSUME TypeOK, ControllerRestart
  PROVE  /\ mon' \in Monitors /\ req' \in [Handlers -> Requests]
         /\ timeline' \in [Pods -> Seq(Versions) \ {<<>>}]
         /\ spent' \in Failures
         /\ \A p \in Pods : \A k \in DOMAIN timeline'[p] :
              \/ timeline'[p][k].agent = NoAgent
              \/ \E j \in DOMAIN timeline[p] :
                   timeline'[p][k].agent = timeline[p][j].agent
         /\ UNCHANGED <<proc, github, listing, published>>
<1> USE DEF TypeOK
<1>1. mon' \in Monitors /\ req' \in [Handlers -> Requests]
  BY IdleTypes DEF ControllerRestart
<1>3. spent' \in Failures
  BY SpentType
<1>4. ASSUME NEW p \in Pods
      PROVE  /\ timeline'[p] \in Seq(Versions) \ {<<>>}
             /\ \A k \in DOMAIN timeline'[p] :
                  \/ timeline'[p][k].agent = NoAgent
                  \/ \E j \in DOMAIN timeline[p] :
                       timeline'[p][k].agent = timeline[p][j].agent
  <2>1. /\ Server(p) \in Versions
        /\ \E j \in DOMAIN timeline[p] : Server(p) = timeline[p][j]
    BY PodTypes
  <2>2. /\ AbsentPod(Server(p).uid) \in Versions
        /\ AbsentPod(Server(p).uid).agent = NoAgent
    BY <2>1, VersionTypes DEF AbsentPod
  <2> DEFINE absent == AbsentPod(Server(p).uid)
             stored == Server(p)
  <2>3. timeline'[p] = <<absent, stored>> \/ timeline'[p] = <<stored>>
    BY DEF ControllerRestart
  <2> HIDE DEF absent, stored
  <2>4. absent \in Versions /\ absent.agent = NoAgent /\ stored \in Versions
        /\ \E j \in DOMAIN timeline[p] : stored = timeline[p][j]
    BY <2>1, <2>2 DEF absent, stored
  <2>5. CASE timeline'[p] = <<absent, stored>>
    BY <2>4, <2>5
  <2>6. CASE timeline'[p] = <<stored>>
    BY <2>4, <2>6
  <2> QED
    BY <2>3, <2>5, <2>6
<1>5. timeline' \in [Pods -> Seq(Versions) \ {<<>>}]
  BY <1>4 DEF ControllerRestart
<1> QED
  BY <1>1, <1>3, <1>4, <1>5 DEF ControllerRestart

LEMMA FunctionIsSeq ==
  ASSUME NEW S, NEW n \in Nat, NEW f \in [1..n -> S]
  PROVE  f \in Seq(S) /\ Len(f) = n
<1>1. f \in Seq(S)
  BY SeqDef
<1>2. DOMAIN f = 1..n /\ DOMAIN f = 1..Len(f) /\ Len(f) \in Nat
  BY <1>1, LenProperties
<1> QED
  BY <1>1, <1>2

(* What Kubernetes and the clock do to a pod. *)
LEMMA PodStepTypes ==
  ASSUME TypeOK, NEW p \in Pods,
         \/ Deliver(p) \/ CreatePod(p) \/ EvictPod(p) \/ ForeignRelease(p)
         \/ RemovePod(p) \/ Expire(p)
  PROVE  /\ timeline' \in [Pods -> Seq(Versions) \ {<<>>}]
         /\ proc' \in [Pods -> Processes]
         /\ UNCHANGED <<github, listing, published, mon, req, spent>>
<1> USE DEF TypeOK
<1>1. /\ Server(p) \in Versions /\ timeline[p] \in Seq(Versions)
      /\ timeline[p] # <<>> /\ Len(timeline[p]) \in Nat \ {0}
      /\ Server(p).finalizers \in Seq({Own, Foreign})
  BY PodTypes, VersionTypes
<1>2. CASE Deliver(p)
  <2>1. Tail(timeline[p]) \in Seq(Versions) /\ Len(Tail(timeline[p])) = Len(timeline[p]) - 1
    BY <1>1, HeadTailProperties
  <2>2. Len(timeline[p]) - 1 # 0
    BY <1>1, <1>2 DEF Deliver
  <2>3. Tail(timeline[p]) # <<>>
    BY <2>1, <2>2, EmptySeq
  <2> QED
    BY <1>2, <2>1, <2>3 DEF Deliver
<1>3. CASE CreatePod(p)
  <2>1. FreshPod(Server(p).uid + 1, PodFinalizers) \in Versions
    BY <1>3, VersionTypes DEF CreatePod
  <2>2. timeline' \in [Pods -> Seq(Versions) \ {<<>>}]
    BY <1>3, <2>1, WriteType DEF CreatePod
  <2>3. proc' \in [Pods -> Processes]
    BY <1>3 DEF CreatePod, Processes
  <2> QED
    BY <1>3, <2>2, <2>3 DEF CreatePod
<1>4. CASE EvictPod(p)
  <2>1. [Server(p) EXCEPT !.deleting = TRUE] \in Versions
    BY <1>1, VersionTypes
  <2> QED
    BY <1>4, <2>1, WriteType DEF EvictPod
<1>5. CASE ForeignRelease(p)
  <2>1. PICK i \in DOMAIN Server(p).finalizers :
          Write(p, [Server(p) EXCEPT !.finalizers = RemoveAt(@, i)])
    BY <1>5 DEF ForeignRelease
  <2>2. RemoveAt(Server(p).finalizers, i) \in Seq({Own, Foreign})
    BY <1>1 DEF RemoveAt
  <2>3. [Server(p) EXCEPT !.finalizers = RemoveAt(@, i)] \in Versions
    BY <1>1, <2>2 DEF Versions
  <2> QED
    BY <1>5, <2>1, <2>3, WriteType DEF ForeignRelease
<1>6. CASE RemovePod(p)
  <2>1. AbsentPod(Server(p).uid) \in Versions
    BY <1>1, VersionTypes
  <2> QED
    BY <1>6, <2>1, WriteType DEF RemovePod
<1>7. CASE Expire(p)
  <2> DEFINE waits(pod) == pod.agent # NoAgent /\ pod.agent.state # "ready"
                           /\ ~ pod.agent.late
  <2>1. PICK k \in DOMAIN timeline[p] :
          timeline' = [timeline EXCEPT ![p] = [j \in DOMAIN @ |->
                IF j <= k /\ waits(@[j]) THEN [@[j] EXCEPT !.agent.late = TRUE]
                ELSE @[j]]]
    BY <1>7 DEF Expire
  <2>2. ASSUME NEW v \in Versions, waits(v)
        PROVE  [v EXCEPT !.agent.late = TRUE] \in Versions
    <3>1. v.agent \in Agents /\ v.agent # NoAgent
      BY <2>2, VersionTypes
    <3>2. [v.agent EXCEPT !.late = TRUE] \in Agents
      BY <3>1 DEF Agents
    <3> QED
      BY <3>2 DEF Versions
  <2>3. timeline'[p] \in Seq(Versions) /\ Len(timeline'[p]) = Len(timeline[p])
    <3>1. timeline'[p] = [j \in 1..Len(timeline[p]) |->
                IF j <= k /\ waits(timeline[p][j])
                  THEN [timeline[p][j] EXCEPT !.agent.late = TRUE]
                  ELSE timeline[p][j]]
      BY <1>1, <2>1
    <3>2. \A j \in 1..Len(timeline[p]) : timeline[p][j] \in Versions
      BY <1>1
    <3>3. timeline'[p] \in [1..Len(timeline[p]) -> Versions]
      BY <2>2, <3>1, <3>2
    <3> QED
      BY <1>1, <3>3, FunctionIsSeq
  <2>4. timeline'[p] # <<>>
    BY <1>1, <2>3, EmptySeq
  <2> QED
    BY <1>7, <2>1, <2>3, <2>4 DEF Expire
<1> QED
  BY <1>2, <1>3, <1>4, <1>5, <1>6, <1>7
     DEF Deliver, CreatePod, EvictPod, ForeignRelease, RemovePod, Expire

(* What the agent process and GitHub do. *)
LEMMA RunnerTypes ==
  ASSUME TypeOK, NEW p \in Pods,
         \/ ConfigureRunner(p) \/ ProcessHalts(p) \/ Interrupt(p) \/ KillProcess(p)
         \/ \E id \in RunnerIds : RunnerStep(p, id)
  PROVE  /\ github' \in [RunnerIds -> Runners]
         /\ proc' \in [Pods -> Processes]
         /\ spent' \in Failures
         /\ UNCHANGED <<timeline, listing, published, mon, req>>
<1> USE DEF TypeOK
<1>1. CASE ConfigureRunner(p)
  <2>1. PICK new \in RunnerIds :
          github' = [i \in RunnerIds |->
            IF i = new THEN [name |-> ProcName(p), status |-> "offline", busy |-> FALSE]
            ELSE IF OwnedBy(p, i) THEN [github[i] EXCEPT !.status = "gone", !.busy = FALSE]
            ELSE github[i]]
    BY <1>1 DEF ConfigureRunner
  <2>2. ProcName(p) \in Names
    BY <1>1, PodTypes, VersionTypes DEF ConfigureRunner, ProcName, Names
  <2>3. github' \in [RunnerIds -> Runners]
    BY <2>1, <2>2 DEF Runners
  <2>4. proc' \in [Pods -> Processes]
    BY <1>1 DEF ConfigureRunner, Processes
  <2>5. spent' \in Failures
    BY <1>1, SpentType DEF ConfigureRunner
  <2> QED
    BY <1>1, <2>3, <2>4, <2>5 DEF ConfigureRunner
<1>2. CASE ProcessHalts(p) \/ Interrupt(p) \/ KillProcess(p)
  <2>1. proc' \in [Pods -> Processes]
    BY <1>2 DEF ProcessHalts, Interrupt, KillProcess, Processes
  <2>2. spent' \in Failures
    BY <1>2, SpentType DEF ProcessHalts, Interrupt, KillProcess
  <2> QED
    BY <1>2, <2>1, <2>2 DEF ProcessHalts, Interrupt, KillProcess
<1>3. ASSUME NEW id \in RunnerIds, RunnerStep(p, id)
      PROVE  /\ github' \in [RunnerIds -> Runners]
             /\ proc' \in [Pods -> Processes]
             /\ spent' \in Failures
             /\ UNCHANGED <<timeline, listing, published, mon, req>>
  <2> USE DEF RunnerStep, RunnerOnline, RunnerOffline, JobStart, JobDone, GitHubForgets
  <2>1. github' \in [RunnerIds -> Runners]
    <3>1. PICK r \in {[github[id] EXCEPT !.status = "online"],
                      [github[id] EXCEPT !.status = "offline"],
                      [github[id] EXCEPT !.busy = TRUE],
                      [github[id] EXCEPT !.status = "gone", !.busy = FALSE]} :
            github' = [github EXCEPT ![id] = r]
      BY <1>3
    <3>2. r \in Runners
      <4>1. github[id] \in Runners
        OBVIOUS
      <4>2. /\ [github[id] EXCEPT !.status = "online"] \in Runners
            /\ [github[id] EXCEPT !.status = "offline"] \in Runners
            /\ [github[id] EXCEPT !.busy = TRUE] \in Runners
        BY <4>1 DEF Runners
      <4>3. [github[id] EXCEPT !.status = "gone", !.busy = FALSE] \in Runners
        BY <4>1 DEF Runners
      <4> QED
        BY <3>1, <4>2, <4>3
    <3> QED
      BY <3>1, <3>2
  <2>2. proc' \in [Pods -> Processes]
    BY <1>3 DEF Processes
  <2>3. spent' \in Failures
    BY <1>3, SpentType
  <2> QED
    BY <1>3, <2>1, <2>2, <2>3
<1> QED
  BY <1>1, <1>2, <1>3

LEMMA TypeStep ==
  ASSUME TypeOK, [Next]_vars
  PROVE  TypeOK'
<1>1. CASE MonitorStep
  BY <1>1, MonitorTypes DEF TypeOK
<1>2. ASSUME NEW h \in Handlers,
             \/ HandlerStep(h) \/ GiveUp(h)
             \/ \E p \in Pods : PostAgent(h, p) \/ DeleteRequest(h, p)
      PROVE  TypeOK'
  BY <1>2, HandlerTypes DEF TypeOK
<1>3. CASE ManagerStep
  BY <1>3, ManagerTypes DEF TypeOK
<1>4. CASE ControllerRestart
  BY <1>4, RestartTypes DEF TypeOK
<1>5. ASSUME NEW p \in Pods,
             \/ Deliver(p) \/ CreatePod(p) \/ EvictPod(p) \/ ForeignRelease(p)
             \/ RemovePod(p) \/ Expire(p)
      PROVE  TypeOK'
  BY <1>5, PodStepTypes DEF TypeOK
<1>6. ASSUME NEW p \in Pods,
             \/ ConfigureRunner(p) \/ ProcessHalts(p) \/ Interrupt(p) \/ KillProcess(p)
             \/ \E id \in RunnerIds : RunnerStep(p, id)
      PROVE  TypeOK'
  BY <1>6, RunnerTypes DEF TypeOK
<1>7. CASE UNCHANGED vars
  BY <1>7 DEF TypeOK, vars
<1> QED
  BY <1>1, <1>2, <1>3, <1>4, <1>5, <1>6, <1>7 DEF Next, ManagerStep

LEMMA TypeInit ==
  ASSUME Init
  PROVE  TypeOK
<1>1. /\ 0 \in 0..MaxEpoch /\ 0 \in 0..MaxUid /\ 0 \in 0..MaxFaults /\ 0 \in 0..MaxFlaps
      /\ 0 \in 0..MaxCrashes /\ 0 \in 0..MaxShifts /\ 0 \in 0..MaxManagerRestarts
  BY BoundsAssumption
<1>2. AbsentPod(0) \in Versions
  BY <1>1, VersionTypes
<1>3. timeline \in [Pods -> Seq(Versions) \ {<<>>}]
  <2> DEFINE absent == AbsentPod(0)
  <2>1. timeline = [p \in Pods |-> <<absent>>]
    BY DEF Init
  <2> HIDE DEF absent
  <2>2. absent \in Versions
    BY <1>2 DEF absent
  <2> QED
    BY <2>1, <2>2
<1>4. github \in [RunnerIds -> Runners]
  BY DEF Init, NoRunner, Runners
<1>5. spent \in Failures
  BY <1>1 DEF Init, Failures
<1> QED
  BY <1>1, <1>3, <1>4, <1>5, IdleTypes DEF Init, TypeOK, Processes

(* Every variable keeps its type, however many pods, handlers and runners   *)
(* there are and whatever fails.                                            *)
THEOREM TypeCorrect == Spec => []TypeOK
<1>1. Init => TypeOK
  BY TypeInit
<1>2. TypeOK /\ [Next]_vars => TypeOK'
  BY TypeStep
<1> QED
  BY <1>1, <1>2, PTL DEF Spec

-------------------------------------------------------------------------------
(* The evidence the monitor acts on *)

(* No agent is no claim; an agent of the same name and runner claims the    *)
(* same.                                                                    *)
LEMMA FitSame ==
  /\ \A p \in Pods : Fit(p, NoAgent)
  /\ \A p \in Pods, a \in Agents, b \in Agents :
       /\ a # NoAgent /\ a.name = b.name /\ a.rid = b.rid
       /\ Fit(p, a)
       => Fit(p, b)
BY DEF Fit, OwnName, Known, Shows, Accounts

(* A transition changes neither, nor does the clock. *)
LEMMA FitTransition ==
  ASSUME NEW p \in Pods, NEW a \in Agents, a # NoAgent, Fit(p, a)
  PROVE  /\ \A s \in AgentState : /\ Transition(a, s) \in Agents
                                  /\ Fit(p, Transition(a, s))
         /\ [a EXCEPT !.late = TRUE] \in Agents /\ Fit(p, [a EXCEPT !.late = TRUE])
<1>1. ASSUME NEW s \in AgentState
      PROVE  /\ Transition(a, s) \in Agents
             /\ Transition(a, s).name = a.name /\ Transition(a, s).rid = a.rid
  BY DEF Transition, Agents
<1>2. /\ [a EXCEPT !.late = TRUE] \in Agents
      /\ [a EXCEPT !.late = TRUE].name = a.name /\ [a EXCEPT !.late = TRUE].rid = a.rid
  BY DEF Agents
<1> QED
  BY <1>1, <1>2, FitSame

(* What a step may do to GitHub's runners without upsetting any list: no   *)
(* runner comes back or changes its name.                                  *)
RunnersAge ==
  \A id \in RunnerIds :
    github[id].status # "none" =>
      /\ github'[id].status # "none" /\ github'[id].name = github[id].name
      /\ Registered(id)' => Registered(id)

(* ... and to the lists: the monitor may drop its own. *)
ListsKept ==
  /\ UNCHANGED <<published, listing>>
  /\ mon'.pc # "idle"
       => mon.pc # "idle" /\ mon'.instances = mon.instances /\ mon'.passed = mon.passed
  /\ mon'.instances = mon.instances \/ mon'.instances = NoInstances
  /\ mon'.passed \in {mon.passed, {}}

(* The ids a list holds are those of runners. *)
LEMMA ListedIds ==
  ASSUME TypeOK, NEW n \in Names
  PROVE  /\ mon.instances[n].id # 0 => mon.instances[n].id \in RunnerIds
         /\ published.instances[n].id # 0 => published.instances[n].id \in RunnerIds
         /\ listing.instances[n].id # 0 => listing.instances[n].id \in RunnerIds
<1>1. /\ published.instances \in InstanceMaps /\ listing.instances \in InstanceMaps
      /\ mon.instances \in InstanceMaps
  BY DEF TypeOK, Monitors
<1>2. ASSUME NEW m \in InstanceMaps
      PROVE  m[n].id # 0 => m[n].id \in RunnerIds
  BY BoundsAssumption DEF InstanceMaps, RunnerIds
<1> QED
  BY <1>1, <1>2

LEMMA StableEvidence ==
  ASSUME TypeOK, TypeOK', ListsOrdered, RunnersAge, ListsKept
  PROVE  /\ ListsOrdered'
         /\ \A p \in Pods, a \in Agents : Fit(p, a) => Fit(p, a)'
<1>1. ASSUME NEW m, NEW n \in Names, m[n].id # 0 => m[n].id \in RunnerIds,
             Genuine(m, n)
      PROVE  m[n].id # 0 => /\ github'[m[n].id].status # "none"
                            /\ Registered(m[n].id)' =>
                                 Registered(m[n].id) /\ github'[m[n].id].name = n
  BY <1>1 DEF RunnersAge, Genuine
<1>2. ASSUME NEW n \in Names
      PROVE  NoInstances[n].id = 0
  BY DEF NoInstances, Nobody
<1>3. ASSUME NEW n \in Names
      PROVE  /\ Genuine(published.instances, n)' /\ Genuine(listing.instances, n)'
             /\ Coming(published, n)'
  BY <1>1, ListedIds DEF ListsOrdered, ListsKept, Genuine, Coming, Accounts
<1>4. ASSUME NEW n \in Names
      PROVE  Genuine(mon.instances, n)' /\ Persists(mon, n)' /\ Coming(mon, n)'
  <2>1. CASE mon'.instances = NoInstances
    BY <1>2, <2>1 DEF Genuine, Persists, Coming
  <2>2. CASE mon'.instances = mon.instances
    BY <1>1, <2>2, ListedIds
       DEF ListsOrdered, ListsKept, Genuine, Persists, Coming, Accounts
  <2> QED
    BY <2>1, <2>2 DEF ListsKept
<1>5. ASSUME NEW p \in Pods, NEW a \in Agents, Fit(p, a)
      PROVE  Fit(p, a)'
  <2>1. CASE a = NoAgent \/ a.rid = 0
    BY <1>5, <2>1 DEF Fit, OwnName, Known
  <2>2. CASE a # NoAgent /\ a.rid # 0
    <3>1. a.rid \in RunnerIds
      BY <2>2, BoundsAssumption DEF Agents, RunnerIds
    <3>2. /\ github'[a.rid].status # "none" /\ github'[a.rid].name = github[a.rid].name
          /\ Registered(a.rid)' => Registered(a.rid)
      BY <1>5, <2>2, <3>1 DEF Fit, Known, RunnersAge
    <3>3. Known(a)'
      BY <1>5, <2>2, <3>2 DEF Fit, Known, Shows, Accounts, ListsKept
    <3> QED
      BY <1>5, <3>3 DEF Fit, OwnName
  <2> QED
    BY <2>1, <2>2
<1> QED
  BY <1>3, <1>4, <1>5 DEF ListsOrdered

(* The monitor takes over the manager's last epoch. *)
LEMMA CheckBeginEvidence ==
  ASSUME TypeOK, TypeOK', ListsOrdered, CheckBegin
  PROVE  /\ ListsOrdered'
         /\ \A p \in Pods, a \in Agents : Fit(p, a) => Fit(p, a)'
<1>1. /\ mon'.instances = published.instances /\ mon'.passed = published.passed
      /\ mon'.pc = "list" /\ UNCHANGED <<github, listing, published>>
  BY DEF CheckBegin, NewEpoch, TypeOK, Monitors
<1>2. ListsOrdered'
  BY <1>1 DEF ListsOrdered, Genuine, Persists, Coming, Accounts, Registered
<1>3. \A p \in Pods, a \in Agents : Fit(p, a) => Fit(p, a)'
  BY <1>1 DEF Fit, OwnName, Known, Shows, Accounts, Registered
<1> QED
  BY <1>2, <1>3

(* A page brings what is registered under a name, which is what an older   *)
(* list shows under it if GitHub still has that.                           *)
LEMMA SyncFetchEvidence ==
  ASSUME TypeOK, TypeOK', ListsOrdered, UniqueNames,
         NEW page \in SUBSET RunnerIds, SyncFetch(page)
  PROVE  /\ ListsOrdered'
         /\ \A p \in Pods, a \in Agents : Fit(p, a) => Fit(p, a)'
<1>1. /\ UNCHANGED <<github, published, mon>>
      /\ \A id \in page : Registered(id)
      /\ listing'.unread = {id \in listing.unread \ page : Registered(id)}
      /\ listing'.passed = listing.passed \ page
      /\ \A n \in Names : listing'.instances[n] =
           IF \E id \in page : github[id].name = n THEN Instance(n)
           ELSE listing.instances[n]
  BY DEF SyncFetch
<1>2. ASSUME NEW n \in Names, NEW id \in RunnerIds, Registered(id), github[id].name = n
      PROVE  Instance(n).id = id
  BY <1>2, InstanceType DEF TypeOK, UniqueNames
<1>3. ASSUME NEW n \in Names, NEW id \in RunnerIds, Registered(id), github[id].name = n,
             id \in listing.unread \/ Accounts(listing, n, id)
      PROVE  id \in listing'.unread \/ Accounts(listing', n, id)
  <2>1. CASE id \in page
    BY <1>1, <1>2, <1>3, <2>1 DEF Accounts
  <2>2. CASE id \notin page
    <3>1. listing.instances[n].id = id => listing'.instances[n].id = id
      BY <1>1, <1>2, <1>3
    <3> QED
      BY <1>1, <1>3, <2>2, <3>1 DEF Accounts
  <2> QED
    BY <2>1, <2>2
<1>4. ASSUME NEW n \in Names
      PROVE  Genuine(listing.instances, n)'
  <2>1. CASE \E id \in page : github[id].name = n
    BY <1>1, <2>1, InstanceType DEF Genuine, Registered, TypeOK
  <2>2. CASE ~ \E id \in page : github[id].name = n
    BY <1>1, <2>2 DEF ListsOrdered, Genuine, Registered
  <2> QED
    BY <2>1, <2>2
<1>5. ASSUME NEW n \in Names
      PROVE  Coming(mon, n)' /\ Coming(published, n)'
  <2>1. /\ Genuine(mon.instances, n) /\ Genuine(published.instances, n)
        /\ Coming(mon, n) /\ Coming(published, n)
    BY DEF ListsOrdered
  <2> QED
    BY <1>1, <1>3, <2>1, ListedIds DEF Genuine, Coming, Accounts, Registered
<1>6. ListsOrdered'
  BY <1>1, <1>4, <1>5 DEF ListsOrdered, Genuine, Persists, Accounts, Registered
<1>7. ASSUME NEW p \in Pods, NEW a \in Agents, Fit(p, a)
      PROVE  Fit(p, a)'
  <2>1. CASE a = NoAgent \/ a.rid = 0
    BY <1>7, <2>1 DEF Fit, OwnName, Known
  <2>2. CASE a # NoAgent /\ a.rid # 0
    <3>1. a.rid \in RunnerIds /\ a.name \in Names
      BY <2>2, BoundsAssumption DEF Agents, RunnerIds
    <3>2. Registered(a.rid) => a.rid \in listing'.unread \/ Shows(listing', a)
      BY <1>3, <1>7, <2>2, <3>1 DEF Fit, Known, Shows
    <3> QED
      BY <1>1, <1>7, <2>2, <3>2 DEF Fit, OwnName, Known, Shows, Accounts, Registered
  <2> QED
    BY <2>1, <2>2
<1> QED
  BY <1>6, <1>7

(* A runner the pages pass over is marked in the list that misses it. *)
LEMMA ListShiftsEvidence ==
  ASSUME TypeOK, TypeOK', ListsOrdered, NEW id \in RunnerIds, ListShifts(id)
  PROVE  /\ ListsOrdered'
         /\ \A p \in Pods, a \in Agents : Fit(p, a) => Fit(p, a)'
<1>1. /\ UNCHANGED <<github, published, mon>>
      /\ listing'.unread = listing.unread \ {id}
      /\ listing'.passed = listing.passed \cup {id}
      /\ listing'.instances = listing.instances
  BY DEF ListShifts, TypeOK
<1>2. ASSUME NEW n, NEW i, i \in listing.unread \/ Accounts(listing, n, i)
      PROVE  i \in listing'.unread \/ Accounts(listing', n, i)
  BY <1>1, <1>2 DEF Accounts
<1>3. ListsOrdered'
  BY <1>1, <1>2 DEF ListsOrdered, Genuine, Persists, Coming, Accounts, Registered
<1>4. \A p \in Pods, a \in Agents : Fit(p, a) => Fit(p, a)'
  BY <1>1, <1>2 DEF Fit, OwnName, Known, Shows, Accounts, Registered
<1> QED
  BY <1>3, <1>4

(* A complete epoch accounts for what the one before it shows; all of it   *)
(* the next one has yet to read.                                           *)
LEMMA SyncPublishEvidence ==
  ASSUME TypeOK, TypeOK', ListsOrdered, SyncPublish
  PROVE  /\ ListsOrdered'
         /\ \A p \in Pods, a \in Agents : Fit(p, a) => Fit(p, a)'
<1>1. /\ UNCHANGED <<github, mon>>
      /\ listing.unread = {} /\ listing'.instances = NoInstances
      /\ listing'.unread = {id \in RunnerIds : Registered(id)}
      /\ published'.instances = listing.instances /\ published'.passed = listing.passed
  BY DEF SyncPublish, EmptyListing
<1>2. ASSUME NEW n \in Names
      PROVE  Genuine(listing.instances, n)'
  BY <1>1 DEF Genuine, NoInstances, Nobody
<1>3. ASSUME NEW n \in Names
      PROVE  Genuine(published.instances, n)' /\ Persists(mon, n)'
  BY <1>1 DEF ListsOrdered, Genuine, Persists, Coming, Accounts, Registered
<1>4. ASSUME NEW n \in Names
      PROVE  Coming(mon, n)' /\ Coming(published, n)'
  BY <1>1, ListedIds DEF Coming, Registered
<1>5. ListsOrdered'
  BY <1>1, <1>2, <1>3, <1>4 DEF ListsOrdered, Genuine, Registered
<1>6. ASSUME NEW p \in Pods, NEW a \in Agents, Fit(p, a)
      PROVE  Fit(p, a)'
  <2>1. a # NoAgent /\ a.rid # 0 => a.rid \in RunnerIds
    BY BoundsAssumption DEF Agents, RunnerIds
  <2> QED
    BY <1>1, <1>6, <2>1 DEF Fit, OwnName, Known, Shows, Accounts, Registered
<1> QED
  BY <1>5, <1>6

(* The agents after a step are known if they were before it, given that    *)
(* the step upsets no claim.                                               *)
NewAgentsFit ==
  /\ \A p \in Pods : \A k \in DOMAIN timeline'[p] : Fit(p, timeline'[p][k].agent)
  /\ \A p \in Pods : Fit(p, mon'.agents[p])
  /\ Fit(mon'.pod, mon'.patch.agent)
  /\ \A h \in Handlers : Fit(req'[h].pod, req'[h].patch.agent)

LEMMA AgentsStayKnown ==
  ASSUME TypeOK', NewAgentsFit,
         \A p \in Pods, a \in Agents : Fit(p, a) => Fit(p, a)'
  PROVE  AgentsKnown'
<1>1. /\ \A p \in Pods : \A k \in DOMAIN timeline'[p] : timeline'[p][k].agent \in Agents
      /\ \A p \in Pods : mon'.agents[p] \in Agents
      /\ mon'.pod \in Pods /\ mon'.patch.agent \in Agents
      /\ \A h \in Handlers : req'[h].pod \in Pods /\ req'[h].patch.agent \in Agents
  <2>1. ASSUME NEW p \in Pods, NEW k \in DOMAIN timeline'[p]
        PROVE  timeline'[p][k].agent \in Agents
    <3>1. timeline'[p] \in Seq(Versions)
      BY DEF TypeOK
    <3>2. timeline'[p][k] \in Versions
      BY <3>1
    <3> QED
      BY <3>2, VersionTypes
  <2> QED
    BY <2>1 DEF TypeOK, Monitors, Requests, Patches
<1>2. ASSUME NEW p \in Pods, NEW k \in DOMAIN timeline'[p]
      PROVE  Fit(p, timeline[p][k].agent)'
  <2>1. PICK a \in Agents : a = timeline'[p][k].agent
    BY <1>1
  <2>2. Fit(p, a)'
    BY <2>1 DEF NewAgentsFit
  <2> QED
    BY <2>1, <2>2 DEF Fit, OwnName, Known, Shows, Accounts, Registered
<1>3. ASSUME NEW p \in Pods
      PROVE  Fit(p, mon.agents[p])'
  <2>1. PICK a \in Agents : a = mon'.agents[p]
    BY <1>1
  <2>2. Fit(p, a)'
    BY <2>1 DEF NewAgentsFit
  <2> QED
    BY <2>1, <2>2 DEF Fit, OwnName, Known, Shows, Accounts, Registered
<1>4. Fit(mon.pod, mon.patch.agent)'
  <2>1. PICK a \in Agents, p \in Pods : a = mon'.patch.agent /\ p = mon'.pod
    BY <1>1
  <2>2. Fit(p, a)'
    BY <2>1 DEF NewAgentsFit
  <2> QED
    BY <2>1, <2>2 DEF Fit, OwnName, Known, Shows, Accounts, Registered
<1>5. ASSUME NEW h \in Handlers
      PROVE  Fit(req[h].pod, req[h].patch.agent)'
  <2>1. PICK a \in Agents, p \in Pods : a = req'[h].patch.agent /\ p = req'[h].pod
    BY <1>1
  <2>2. Fit(p, a)'
    BY <2>1 DEF NewAgentsFit
  <2> QED
    BY <2>1, <2>2 DEF Fit, OwnName, Known, Shows, Accounts, Registered
<1> QED
  BY <1>2, <1>3, <1>4, <1>5 DEF AgentsKnown

(* Versions, copies and patches before the step, by the names they are used *)
(* under.                                                                   *)
LEMMA KnownAgents ==
  ASSUME TypeOK, AgentsKnown, NEW p \in Pods
  PROVE  /\ Fit(p, Cached(p).agent) /\ Fit(p, Server(p).agent)
         /\ Fit(p, mon.agents[p]) /\ Fit(p, NoAgent)
<1>1. /\ 1 \in DOMAIN timeline[p] /\ Len(timeline[p]) \in DOMAIN timeline[p]
      /\ Cached(p) = timeline[p][1] /\ Server(p) = timeline[p][Len(timeline[p])]
  BY PodTypes DEF TypeOK
<1> QED
  BY <1>1, FitSame DEF AgentsKnown

LEMMA WriteFits ==
  ASSUME TypeOK, AgentsKnown, NEW p \in Pods, NEW pod \in Versions,
         Fit(p, pod.agent), Write(p, pod)
  PROVE  \A q \in Pods : \A k \in DOMAIN timeline'[q] : Fit(q, timeline'[q][k].agent)
<1>1. \A q \in Pods : \A k \in DOMAIN timeline'[q] :
        \/ q = p /\ timeline'[q][k] = pod
        \/ \E j \in DOMAIN timeline[q] : timeline'[q][k] = timeline[q][j]
  BY WriteType DEF TypeOK
<1> QED
  BY <1>1 DEF AgentsKnown

LEMMA PatchFits ==
  ASSUME TypeOK, AgentsKnown, NEW p \in Pods, NEW patch \in Patches,
         Fit(p, patch.agent), PatchSent(p, patch)
  PROVE  \A q \in Pods : \A k \in DOMAIN timeline'[q] : Fit(q, timeline'[q][k].agent)
<1>1. \A q \in Pods : \A k \in DOMAIN timeline'[q] :
        \/ q = p /\ timeline'[q][k].agent = patch.agent
        \/ \E j \in DOMAIN timeline[q] :
             timeline'[q][k].agent = timeline[q][j].agent
  BY PatchSentType DEF TypeOK
<1> QED
  BY <1>1 DEF AgentsKnown

(* Binding an agent to the runner of its name.  Names are not used again,   *)
(* so the agent the cache holds now has the name of the copy.               *)
LEMMA BindFits ==
  ASSUME TypeOK, Evidence, MaxUid = 1,
         Copy # NoAgent, MonInstance(Copy) # Nobody,
         Updating(mon.pod), NEW s \in AgentState
  PROVE  Fit(mon.pod, Transition([Current EXCEPT !.rid = MonInstance(Copy).id], s))
<1> DEFINE n == Copy.name
           id == mon.instances[n].id
           b  == Transition([Current EXCEPT !.rid = MonInstance(Copy).id], s)
<1>1. mon.pod \in Pods /\ Copy \in Agents /\ Current \in Agents /\ Current # NoAgent
  BY PodTypes, VersionTypes DEF TypeOK, Monitors, Copy, Current, Updating
<1>2. n \in Names /\ Copy.name = <<mon.pod, 1>> /\ Current.name = <<mon.pod, 1>>
  BY <1>1, KnownAgents DEF Evidence, Fit, OwnName, Copy, Current, Agents
<1>3. MonInstance(Copy).id = id /\ id \in 0..MaxRunners
  <2>1. mon.instances \in InstanceMaps
    BY DEF TypeOK, Monitors
  <2>2. Lookup(mon.instances, Copy) = mon.instances[n]
    BY <1>1, <2>1, LookupType DEF MonInstance
  <2> QED
    BY <1>2, <2>1, <2>2 DEF MonInstance, InstanceMaps
<1>4. b.name = n /\ b.rid = id
  BY <1>1, <1>2, <1>3 DEF Transition, Agents
<1>5. id # 0 =>
        /\ github[id].status # "none"
        /\ Registered(id) =>
             /\ github[id].name = n
             /\ Accounts(published, n, id) /\ mon.instances[n].id = id
             /\ id \in listing.unread \/ Accounts(listing, n, id)
  BY <1>2 DEF Evidence, ListsOrdered, Genuine, Persists, Coming
<1> HIDE DEF n, id, b
<1>6. Known(b)
  BY <1>4, <1>5 DEF Known, Shows, Accounts
<1>7. OwnName(mon.pod, b)
  BY <1>2, <1>4 DEF OwnName, n
<1> QED
  BY <1>6, <1>7 DEF Fit, b

(* What the monitor has in hand after a step is known: it comes from the    *)
(* cache, or is bound to the runner the monitor's list shows.               *)
LEMMA MonitorFits ==
  ASSUME TypeOK, Evidence, MaxUid = 1, MonitorStep
  PROVE  /\ \A p \in Pods : Fit(p, mon'.agents[p])
         /\ Fit(mon'.pod, mon'.patch.agent)
<1>1. /\ mon \in Monitors /\ mon.pod \in Pods /\ mon.patch \in Patches
      /\ mon.agents \in [Pods -> Agents] /\ AgentsKnown
      /\ Fit(mon.pod, mon.patch.agent)
  BY DEF TypeOK, Monitors, Evidence, AgentsKnown
<1>2. \A p \in Pods : /\ Fit(p, mon.agents[p]) /\ Fit(p, Cached(p).agent)
                      /\ Fit(p, NoAgent) /\ mon.agents[p] \in Agents
                      /\ Cached(p).agent \in Agents
  BY <1>1, KnownAgents, PodTypes, VersionTypes DEF TypeOK
<1>3. NoPatch \in Patches /\ NoPatch.agent = NoAgent
  BY PatchTypes DEF NoPatch
<1>4. ASSUME NEW pc \in {"check", "update", "terminate", "release"},
             NEW patch \in Patches, patch.agent = NoAgent,
             MonitorAt(pc, patch) \/ NextAgent
      PROVE  /\ \A p \in Pods : Fit(p, mon'.agents[p])
             /\ Fit(mon'.pod, mon'.patch.agent)
  BY <1>1, <1>2, <1>3, <1>4, MonitorAtType, NextAgentType
<1>5. ASSUME NEW agent, MoveTo(agent),
             Updating(mon.pod) => agent \in Agents /\ Fit(mon.pod, agent)
      PROVE  /\ \A p \in Pods : Fit(p, mon'.agents[p])
             /\ Fit(mon'.pod, mon'.patch.agent)
  BY <1>1, <1>2, <1>5, MoveToType
<1>6. /\ Current \in Agents /\ (Updating(mon.pod) => Current # NoAgent)
      /\ Copy \in Agents /\ Fit(mon.pod, Current)
  BY <1>1, <1>2 DEF Current, Updating, Copy
<1>7. CASE CheckBegin
  BY <1>1, <1>2, <1>7 DEF CheckBegin, NewEpoch, Monitors
<1>8. CASE ListAgents
  BY <1>1, <1>2, <1>8 DEF ListAgents, Monitors
<1>9. CASE CheckEnd
  BY <1>2, <1>3, <1>9, PodsAssumption DEF CheckEnd, IdleMonitor
<1>10. ASSUME NEW p \in Pods, ProviderCheckAgent(p)
       PROVE  /\ \A q \in Pods : Fit(q, mon'.agents[q])
              /\ Fit(mon'.pod, mon'.patch.agent)
  <2> DEFINE t == Transition(Cached(p).agent, "terminating")
             dropped == [mon.agents EXCEPT ![p] = NoAgent]
  <2>1. \A q \in Pods : Fit(q, dropped[q])
    BY <1>1, <1>2
  <2>2. /\ UpdatePatch(t).agent = t
        /\ \A b : AnnotatePatch(Cached(p), b).agent = NoAgent
    BY DEF UpdatePatch, AnnotatePatch, NoPatch
  <2>3. Cached(p).agent # NoAgent => Fit(p, t)
    BY <1>2, FitTransition DEF AgentState
  <2>4. /\ mon'.pod = p
        /\ mon'.agents \in {mon.agents, dropped}
        /\ \/ mon'.patch = NoPatch
           \/ mon'.patch = UpdatePatch(t) /\ Cached(p).agent # NoAgent
           \/ \E b : mon'.patch = AnnotatePatch(Cached(p), b)
    BY <1>1, <1>10 DEF ProviderCheckAgent, Monitors, Updating
  <2> HIDE DEF t, dropped
  <2> QED
    BY <1>2, <1>3, <2>1, <2>2, <2>3, <2>4
<1>11. CASE SendProviderPatch
  BY <1>3, <1>4, <1>11 DEF SendProviderPatch
<1>12. CASE BindRunner
  <2>1. MonInstance(Copy) # Nobody /\ Copy # NoAgent
    BY <1>12 DEF BindRunner, Deciding, NoAgent
  <2>2. MonInstance(Copy).id \in 0..MaxRunners
    BY <1>1, <1>6, <2>1, LookupType DEF Monitors, MonInstance
  <2> DEFINE id   == MonInstance(Copy).id
             s    == IF MonInstance(Copy).online THEN "ready" ELSE "starting"
             b    == Transition([Current EXCEPT !.rid = id], s)
  <2>3. s \in AgentState
    BY DEF AgentState
  <2>4. Updating(mon.pod) => b \in Agents /\ Fit(mon.pod, b)
    <3> HIDE DEF s
    <3> QED
      BY <1>6, <2>1, <2>2, <2>3, BindFits, TransitionType
  <2>5. MoveTo(b)
    BY <1>12 DEF BindRunner
  <2> HIDE DEF b
  <2> QED
    BY <1>5, <2>4, <2>5
<1>13. CASE FollowStatus \/ AgentGone \/ CheckTimeout
  <2>1. PICK s \in AgentState : MoveTo(Transition(Current, s))
    <3>1. {"ready", "starting", "terminating"} \subseteq AgentState
      BY DEF AgentState
    <3> QED
      BY <1>13, <3>1 DEF FollowStatus, AgentGone, CheckTimeout
  <2>2. Updating(mon.pod) => /\ Transition(Current, s) \in Agents
                             /\ Fit(mon.pod, Transition(Current, s))
    BY <1>1, <1>6, FitTransition
  <2> QED
    BY <1>5, <2>1, <2>2
<1>14. CASE NothingToDo \/ RunnerAbsent \/ SendUpdate
  BY <1>3, <1>4, <1>14 DEF NothingToDo, RunnerAbsent, SendUpdate
<1>15. CASE DeleteRunner
  BY <1>3, <1>4, <1>15 DEF DeleteRunner, NotDeleted
<1>16. CASE TerminateAgent
  BY <1>3, <1>4, <1>16 DEF TerminateAgent
<1>17. CASE DeleteAgent
  <2>1. Cached(mon.pod) \in Versions
    BY <1>1, PodTypes DEF TypeOK
  <2>2. ReleasePatch(Cached(mon.pod)) \in Patches
    BY <2>1, PatchTypes
  <2>3. ReleasePatch(Cached(mon.pod)).agent = NoAgent
    BY DEF ReleasePatch, NoPatch
  <2> QED
    BY <1>4, <1>17, <2>2, <2>3 DEF DeleteAgent
<1> QED
  BY <1>7, <1>8, <1>9, <1>10, <1>11, <1>12, <1>13, <1>14, <1>15, <1>16, <1>17
     DEF MonitorStep

(* The versions of the pods after a step are known: no step writes an agent *)
(* but by a patch, and time and Kubernetes invent none.                     *)
LEMMA TimelineFits ==
  ASSUME TypeOK, AgentsKnown, Next
  PROVE  \A q \in Pods : \A k \in DOMAIN timeline'[q] : Fit(q, timeline'[q][k].agent)
<1> DEFINE Goal == \A q \in Pods : \A k \in DOMAIN timeline'[q] :
                     Fit(q, timeline'[q][k].agent)
<1>1. ASSUME UNCHANGED timeline
      PROVE  Goal
  BY <1>1 DEF AgentsKnown
<1>2. ASSUME NEW p \in Pods, NEW patch \in Patches, Fit(p, patch.agent),
             PatchSent(p, patch)
      PROVE  Goal
  BY <1>2, PatchFits
<1>3. ASSUME NEW p \in Pods, Write(p, [Server(p) EXCEPT !.deleting = TRUE])
      PROVE  Goal
  <2>1. Server(p) \in Versions /\ Fit(p, Server(p).agent)
    BY KnownAgents, PodTypes DEF TypeOK
  <2>2. /\ [Server(p) EXCEPT !.deleting = TRUE] \in Versions
        /\ [Server(p) EXCEPT !.deleting = TRUE].agent = Server(p).agent
    BY <2>1, VersionTypes DEF Versions
  <2> QED
    BY <1>3, <2>1, <2>2, WriteFits
<1> HIDE DEF Goal
<1>4. CASE MonitorStep
  <2>1. mon.pod \in Pods /\ mon.patch \in Patches /\ Fit(mon.pod, mon.patch.agent)
    BY DEF TypeOK, Monitors, AgentsKnown
  <2>2. CASE SendProviderPatch \/ SendUpdate
    <3>1. PatchSent(mon.pod, mon.patch)
      BY <2>2 DEF SendProviderPatch, ProviderAccepts, ProviderRefuses, SendUpdate,
         PatchSent
    <3> QED
      BY <1>2, <2>1, <3>1 DEF Goal
  <2>3. CASE TerminateAgent
    <3>1. UNCHANGED timeline \/ Write(mon.pod, [Server(mon.pod) EXCEPT !.deleting = TRUE])
      BY <2>3 DEF TerminateAgent
    <3> QED
      BY <1>1, <1>3, <2>1, <3>1 DEF Goal
  <2>4. CASE ~ (SendProviderPatch \/ SendUpdate \/ TerminateAgent)
    <3>1. ASSUME NEW p \in Pods, ProviderCheckAgent(p)
          PROVE  UNCHANGED timeline
      BY <3>1 DEF ProviderCheckAgent
    <3>2. ASSUME CheckBegin \/ ListAgents \/ CheckEnd
          PROVE  UNCHANGED timeline
      BY <3>2 DEF CheckBegin, ListAgents, CheckEnd
    <3>3. ASSUME BindRunner \/ FollowStatus \/ AgentGone \/ CheckTimeout \/ NothingToDo
          PROVE  UNCHANGED timeline
      BY <3>3 DEF BindRunner, FollowStatus, AgentGone, CheckTimeout, NothingToDo,
         Deciding
    <3>4. ASSUME RunnerAbsent \/ DeleteRunner \/ DeleteAgent
          PROVE  UNCHANGED timeline
      BY <3>4 DEF RunnerAbsent, DeleteRunner, DeleteAgent, Deciding
    <3>5. UNCHANGED timeline
      BY <1>4, <2>4, <3>1, <3>2, <3>3, <3>4 DEF MonitorStep
    <3> QED
      BY <1>1, <3>5 DEF Goal
  <2> QED
    BY <2>2, <2>3, <2>4
<1>5. ASSUME NEW h \in Handlers, HandlerStep(h)
      PROVE  Goal
  <2>1. req[h].pod \in Pods /\ req[h].patch \in Patches
        /\ Fit(req[h].pod, req[h].patch.agent)
    BY DEF TypeOK, Requests, AgentsKnown
  <2>2. PatchSent(req[h].pod, req[h].patch)
    BY <1>5 DEF HandlerStep, Register, AnnotateNew, FinishDelete, PatchSent
  <2> QED
    BY <1>2, <2>1, <2>2
<1>6. CASE ControllerRestart
  <2>1. \A p \in Pods : \A k \in DOMAIN timeline'[p] :
          \/ timeline'[p][k].agent = NoAgent
          \/ \E j \in DOMAIN timeline[p] : timeline'[p][k].agent = timeline[p][j].agent
    BY <1>6, RestartTypes
  <2> QED
    BY <2>1, FitSame DEF AgentsKnown, Goal
<1>7. ASSUME NEW p \in Pods,
             \/ Deliver(p) \/ CreatePod(p) \/ EvictPod(p) \/ ForeignRelease(p)
             \/ RemovePod(p) \/ Expire(p)
      PROVE  Goal
  <2>1. /\ Server(p) \in Versions /\ timeline[p] \in Seq(Versions)
        /\ timeline[p] # <<>> /\ Fit(p, Server(p).agent) /\ Fit(p, NoAgent)
        /\ Server(p).finalizers \in Seq({Own, Foreign})
        /\ timeline \in [Pods -> Seq(Versions) \ {<<>>}]
    BY PodTypes, VersionTypes, KnownAgents DEF TypeOK
  <2>2. CASE Deliver(p)
    <3>1. \A k \in DOMAIN Tail(timeline[p]) :
            k + 1 \in DOMAIN timeline[p] /\ Tail(timeline[p])[k] = timeline[p][k + 1]
      BY <2>1, HeadTailProperties
    <3>2. timeline' = [timeline EXCEPT ![p] = Tail(timeline[p])]
      BY <2>2 DEF Deliver
    <3> QED
      BY <2>1, <3>1, <3>2 DEF AgentsKnown, Goal
  <2>3. CASE CreatePod(p)
    <3> DEFINE fresh == FreshPod(Server(p).uid + 1, PodFinalizers)
    <3>1. fresh \in Versions /\ fresh.agent = NoAgent
      BY <2>3, VersionTypes DEF CreatePod, FreshPod
    <3>2. Write(p, fresh)
      BY <2>3 DEF CreatePod
    <3> HIDE DEF fresh
    <3> QED
      BY <2>1, <3>1, <3>2, WriteFits DEF Goal
  <2>4. CASE EvictPod(p)
    BY <1>3, <2>4 DEF EvictPod
  <2>5. CASE ForeignRelease(p)
    <3>1. PICK i \in DOMAIN Server(p).finalizers :
            Write(p, [Server(p) EXCEPT !.finalizers = RemoveAt(@, i)])
      BY <2>5 DEF ForeignRelease
    <3> DEFINE kept == [Server(p) EXCEPT !.finalizers = RemoveAt(@, i)]
    <3>2. RemoveAt(Server(p).finalizers, i) \in Seq({Own, Foreign})
      BY <2>1 DEF RemoveAt
    <3>3. kept \in Versions /\ kept.agent = Server(p).agent
      BY <2>1, <3>2 DEF Versions
    <3>4. Write(p, kept)
      BY <3>1
    <3> HIDE DEF kept
    <3> QED
      BY <2>1, <3>3, <3>4, WriteFits DEF Goal
  <2>6. CASE RemovePod(p)
    <3>1. /\ AbsentPod(Server(p).uid) \in Versions
          /\ AbsentPod(Server(p).uid).agent = NoAgent
      BY <2>1, VersionTypes DEF AbsentPod
    <3> QED
      BY <2>1, <2>6, <3>1, WriteFits DEF RemovePod, Goal
  <2>7. CASE Expire(p)
    <3>1. ASSUME NEW q \in Pods, NEW k \in DOMAIN timeline'[q]
          PROVE  Fit(q, timeline'[q][k].agent)
      <4>1. k \in DOMAIN timeline[q]
        BY <2>1, <2>7 DEF Expire
      <4>2. \/ timeline'[q][k] = timeline[q][k]
            \/ /\ timeline[q][k].agent # NoAgent
               /\ timeline'[q][k] = [timeline[q][k] EXCEPT !.agent.late = TRUE]
        <5>1. CASE q # p
          BY <2>1, <2>7, <5>1 DEF Expire
        <5>2. CASE q = p
          BY <2>1, <2>7, <4>1, <5>2 DEF Expire
        <5> QED
          BY <5>1, <5>2
      <4>3. timeline[q][k] \in Versions
        BY <2>1, <4>1
      <4>4. /\ timeline[q][k].agent \in Agents /\ Fit(q, timeline[q][k].agent)
            /\ [timeline[q][k] EXCEPT !.agent.late = TRUE].agent
                 = [timeline[q][k].agent EXCEPT !.late = TRUE]
        BY <4>1, <4>3, VersionTypes DEF AgentsKnown, Versions
      <4> QED
        BY <4>2, <4>4, FitTransition
    <3> QED
      BY <3>1 DEF Goal
  <2> QED
    BY <1>7, <2>2, <2>3, <2>4, <2>5, <2>6, <2>7
<1>8. CASE /\ ~ (MonitorStep \/ ControllerRestart \/ \E h \in Handlers : HandlerStep(h))
           /\ ~ \E p \in Pods : \/ Deliver(p) \/ CreatePod(p) \/ EvictPod(p)
                                \/ ForeignRelease(p) \/ RemovePod(p) \/ Expire(p)
  <2>1. ASSUME NEW g \in Handlers,
               GiveUp(g) \/ \E p \in Pods : PostAgent(g, p) \/ DeleteRequest(g, p)
        PROVE  UNCHANGED timeline
    BY <2>1 DEF GiveUp, PostAgent, DeleteRequest
  <2>2. ASSUME ManagerStep
        PROVE  UNCHANGED timeline
    BY <2>2, ManagerTypes
  <2>3. ASSUME NEW p \in Pods,
               \/ ConfigureRunner(p) \/ ProcessHalts(p) \/ Interrupt(p) \/ KillProcess(p)
               \/ \E id \in RunnerIds : RunnerStep(p, id)
        PROVE  UNCHANGED timeline
    BY <2>3, RunnerTypes
  <2>4. UNCHANGED timeline
    BY <1>8, <2>1, <2>2, <2>3 DEF Next, ManagerStep
  <2> QED
    BY <1>1, <2>4 DEF Goal
<1> QED
  BY <1>4, <1>5, <1>6, <1>7, <1>8 DEF Goal

(* A registration is sent for the name of its pod, and binds no runner. *)
LEMMA RequestsFit ==
  ASSUME TypeOK, AgentsKnown, MaxUid = 1, Next
  PROVE  \A g \in Handlers : Fit(req'[g].pod, req'[g].patch.agent)
<1> DEFINE Goal == \A g \in Handlers : Fit(req'[g].pod, req'[g].patch.agent)
<1>1. ASSUME UNCHANGED req
      PROVE  Goal
  BY <1>1 DEF AgentsKnown
<1>2. IdleRequest.pod \in Pods /\ IdleRequest.patch.agent = NoAgent
  BY PodsAssumption DEF IdleRequest, NoPatch
<1>3. ASSUME NEW h \in Handlers, NEW r,
             req' = [req EXCEPT ![h] = r], Fit(r.pod, r.patch.agent)
      PROVE  Goal
  BY <1>3 DEF AgentsKnown, TypeOK
<1> HIDE DEF Goal
<1>4. ASSUME NEW h \in Handlers, Finish(h)
      PROVE  Goal
  BY <1>2, <1>3, <1>4, FitSame DEF Finish
<1>5. ASSUME NEW h \in Handlers,
             HandlerStep(h) \/ GiveUp(h)
      PROVE  Goal
  <2>1. req[h].pod \in Pods /\ Fit(req[h].pod, req[h].patch.agent)
    BY DEF TypeOK, Requests, AgentsKnown
  <2>2. CASE GiveUp(h)
    <3> DEFINE r == [req[h] EXCEPT !.heard = FALSE]
    <3>1. req' = [req EXCEPT ![h] = r] /\ r.pod = req[h].pod /\ r.patch = req[h].patch
      BY <2>2 DEF GiveUp, TypeOK, Requests
    <3> HIDE DEF r
    <3> QED
      BY <1>3, <2>1, <3>1
  <2>3. CASE Register(h)
    <3> DEFINE r == [req[h] EXCEPT !.pc = "annotate", !.copy = AbsentPod(0),
                                   !.patch = AnnotatePatch(req[h].copy, FALSE)]
    <3>1. r.pod = req[h].pod /\ r.patch.agent = NoAgent
      BY DEF TypeOK, Requests, AnnotatePatch, NoPatch
    <3>2. Finish(h) \/ req' = [req EXCEPT ![h] = r]
      BY <2>3 DEF Register
    <3> HIDE DEF r
    <3> QED
      BY <1>3, <1>4, <2>1, <3>1, <3>2, FitSame
  <2>4. CASE AnnotateNew(h) \/ FinishDelete(h)
    BY <1>4, <2>4 DEF AnnotateNew, FinishDelete
  <2> QED
    BY <1>5, <2>2, <2>3, <2>4 DEF HandlerStep
<1>6. ASSUME NEW h \in Handlers, NEW p \in Pods, PostAgent(h, p)
      PROVE  Goal
  <2> DEFINE a == [name |-> <<p, Cached(p).uid>>, state |-> "configuring",
                   rid |-> 0, late |-> FALSE]
             r == [pc |-> "register", pod |-> p, copy |-> Cached(p), heard |-> TRUE,
                   patch |-> RegisterPatch(Cached(p), a)]
  <2>1. Cached(p) \in Versions /\ Cached(p).exists
    BY <1>6, PodTypes DEF PostAgent, Authenticated, TypeOK
  <2>5. Cached(p).uid = 1
    <3>1. Cached(p).uid \in 1..1
      BY <2>1, VersionTypes
    <3> QED
      BY <3>1
  <2>2. Fit(p, a)
    BY <2>5 DEF Fit, OwnName, Known
  <2>3. r.pod = p /\ r.patch.agent = a
    BY DEF RegisterPatch, NoPatch
  <2>4. req' = [req EXCEPT ![h] = r]
    BY <1>6 DEF PostAgent
  <2> HIDE DEF a, r
  <2> QED
    BY <1>3, <2>2, <2>3, <2>4
<1>7. ASSUME NEW h \in Handlers, NEW p \in Pods, DeleteRequest(h, p)
      PROVE  Goal
  <2> DEFINE a == Cached(p).agent
             patch == UpdatePatch(Transition(a, "terminating"))
  <2>1. a \in Agents /\ Fit(p, a)
    BY PodTypes, VersionTypes, KnownAgents DEF TypeOK
  <2>2. patch.agent = Transition(a, "terminating")
    BY DEF UpdatePatch, NoPatch
  <2>3. a # NoAgent => Fit(p, Transition(a, "terminating"))
    BY <2>1, FitTransition DEF AgentState
  <2>4. CASE UNCHANGED req
    BY <1>1, <2>4
  <2>5. CASE /\ a # NoAgent
             /\ req' = [req EXCEPT ![h] =
                  [pc |-> "terminate", pod |-> p, copy |-> AbsentPod(0),
                   heard |-> TRUE, patch |-> patch]]
    <3> HIDE DEF a, patch
    <3> QED
      BY <1>3, <2>2, <2>3, <2>5
  <2> QED
    BY <1>7, <2>4, <2>5 DEF DeleteRequest
<1>8. ASSUME ControllerRestart
      PROVE  Goal
  <2>1. \A g \in Handlers : req'[g] = IdleRequest
    BY <1>8 DEF ControllerRestart
  <2> QED
    BY <1>2, <2>1, FitSame DEF Goal
<1>9. ASSUME MonitorStep
      PROVE  Goal
  BY <1>1, <1>9, MonitorTypes
<1>10. ASSUME ManagerStep
       PROVE  Goal
  BY <1>1, <1>10, ManagerTypes
<1>11. ASSUME NEW p \in Pods,
              \/ Deliver(p) \/ CreatePod(p) \/ EvictPod(p) \/ ForeignRelease(p)
              \/ RemovePod(p) \/ Expire(p)
       PROVE  Goal
  BY <1>1, <1>11, PodStepTypes
<1>12. ASSUME NEW p \in Pods,
              \/ ConfigureRunner(p) \/ ProcessHalts(p) \/ Interrupt(p) \/ KillProcess(p)
              \/ \E id \in RunnerIds : RunnerStep(p, id)
       PROVE  Goal
  BY <1>1, <1>12, RunnerTypes
<1>13. Goal
  BY <1>5, <1>6, <1>7, <1>8, <1>9, <1>10, <1>11, <1>12 DEF Next, ManagerStep
<1> QED
  BY <1>13 DEF Goal

(* GitHub's runners age, whatever step is taken, and a name is given to a   *)
(* new runner only as it is taken from the one that had it.                 *)
LEMMA RunnersDoAge ==
  ASSUME TypeOK, Next, UniqueNames
  PROVE  RunnersAge /\ UniqueNames'
<1>1. ASSUME UNCHANGED github
      PROVE  RunnersAge /\ UniqueNames'
  BY <1>1 DEF RunnersAge, UniqueNames, Registered
<1>2. ASSUME NEW id \in RunnerIds, Registered(id), NEW r,
             r.name = github[id].name, r.status \in {"offline", "online", "gone"},
             github' = [github EXCEPT ![id] = r]
      PROVE  RunnersAge /\ UniqueNames'
  <2>1. \A i \in RunnerIds : /\ github'[i].name = github[i].name
                             /\ github'[i].status # "none" <=> github[i].status # "none"
                             /\ Registered(i)' => Registered(i)
    BY <1>2 DEF TypeOK, Registered
  <2> QED
    BY <2>1 DEF RunnersAge, UniqueNames
<1>3. CASE DeleteRunner
  <2>1. ASSUME NEW id, github' = [github EXCEPT ![id].status = "gone"], Registered(id)
        PROVE  RunnersAge /\ UniqueNames'
    <3>1. CASE id \in RunnerIds
      <4>1. /\ [github[id] EXCEPT !.status = "gone"].name = github[id].name
            /\ [github[id] EXCEPT !.status = "gone"].status = "gone"
        BY <3>1 DEF TypeOK, Runners
      <4> QED
        BY <1>2, <2>1, <3>1, <4>1
    <3>2. CASE id \notin RunnerIds
      <4>1. UNCHANGED github
        BY <2>1, <3>2 DEF TypeOK
      <4> QED
        BY <1>1, <4>1
    <3> QED
      BY <3>1, <3>2
  <2> DEFINE id == MonInstance(Copy).id
  <2>2. \/ UNCHANGED github
        \/ github' = [github EXCEPT ![id].status = "gone"] /\ Registered(id)
    BY <1>3 DEF DeleteRunner, NotDeleted
  <2> HIDE DEF id
  <2> QED
    BY <1>1, <2>1, <2>2
<1>4. ASSUME NEW p \in Pods, ConfigureRunner(p)
      PROVE  RunnersAge /\ UniqueNames'
  <2>1. PICK id \in RunnerIds :
          /\ github[id].status = "none"
          /\ github' = [i \in RunnerIds |->
               IF i = id THEN [name |-> ProcName(p), status |-> "offline", busy |-> FALSE]
               ELSE IF OwnedBy(p, i) THEN [github[i] EXCEPT !.status = "gone", !.busy = FALSE]
               ELSE github[i]]
    BY <1>4, Zenon DEF ConfigureRunner
  <2>2. /\ github'[id].name = ProcName(p) /\ Registered(id)'
        /\ github[id].status = "none"
    <3>1. github'[id] = [name |-> ProcName(p), status |-> "offline", busy |-> FALSE]
      BY <2>1, Zenon
    <3>2. github[id].status = "none"
      BY <2>1, Zenon
    <3> QED
      BY <3>1, <3>2 DEF Registered
  <2>3. ASSUME NEW i \in RunnerIds \ {id}
        PROVE  /\ github'[i].name = github[i].name
               /\ github'[i].status \in {github[i].status, "gone"}
               /\ github'[i].status = "gone" \/ ~ OwnedBy(p, i)
    <3>1. github[i] \in Runners /\ i \in RunnerIds /\ i # id
      BY DEF TypeOK
    <3>2. /\ [github[i] EXCEPT !.status = "gone", !.busy = FALSE].name = github[i].name
          /\ [github[i] EXCEPT !.status = "gone", !.busy = FALSE].status = "gone"
      BY <3>1 DEF Runners
    <3> DEFINE gone == [github[i] EXCEPT !.status = "gone", !.busy = FALSE]
    <3>3. github'[i] = IF OwnedBy(p, i) THEN gone ELSE github[i]
      BY <2>1, <3>1, Zenon
    <3> HIDE DEF gone
    <3>4. gone.name = github[i].name /\ gone.status = "gone"
      BY <3>2 DEF gone
    <3> QED
      BY <3>3, <3>4
  <2>4. \A i \in RunnerIds \ {id} :
          Registered(i)' => Registered(i) /\ github'[i].name # ProcName(p)
    BY <2>3 DEF Registered, OwnedBy
  <2>5. RunnersAge
    <3>1. ASSUME NEW i \in RunnerIds, github[i].status # "none"
          PROVE  i # id
      BY <2>2, <3>1
    <3> QED
      BY <2>2, <2>3, <2>4, <3>1 DEF RunnersAge
  <2>6. UniqueNames'
    BY <2>2, <2>3, <2>4 DEF UniqueNames
  <2> QED
    BY <2>5, <2>6
<1>5. ASSUME NEW p \in Pods, NEW id \in RunnerIds, RunnerStep(p, id)
      PROVE  RunnersAge /\ UniqueNames'
  <2> USE DEF RunnerStep, RunnerOnline, RunnerOffline, JobStart, JobDone, GitHubForgets
  <2>1. PICK r \in {[github[id] EXCEPT !.status = "online"],
                    [github[id] EXCEPT !.status = "offline"],
                    [github[id] EXCEPT !.busy = TRUE],
                    [github[id] EXCEPT !.status = "gone", !.busy = FALSE]} :
          github' = [github EXCEPT ![id] = r]
    BY <1>5 DEF TypeOK
  <2>2. Registered(id)
    BY <1>5 DEF OwnedBy
  <2>3. r.name = github[id].name /\ r.status \in {"offline", "online", "gone"}
    <3>1. github[id] \in Runners /\ github[id].status \in {"offline", "online"}
      BY <2>2 DEF TypeOK, Registered
    <3>2. /\ [github[id] EXCEPT !.status = "online"].name = github[id].name
          /\ [github[id] EXCEPT !.status = "online"].status = "online"
          /\ [github[id] EXCEPT !.status = "offline"].name = github[id].name
          /\ [github[id] EXCEPT !.status = "offline"].status = "offline"
          /\ [github[id] EXCEPT !.busy = TRUE].name = github[id].name
          /\ [github[id] EXCEPT !.busy = TRUE].status = github[id].status
      BY <3>1 DEF Runners
    <3>3. /\ [github[id] EXCEPT !.status = "gone", !.busy = FALSE].name = github[id].name
          /\ [github[id] EXCEPT !.status = "gone", !.busy = FALSE].status = "gone"
      BY <3>1 DEF Runners
    <3> QED
      BY <2>1, <3>1, <3>2, <3>3
  <2> QED
    BY <1>2, <2>1, <2>2, <2>3
<1>6. ASSUME MonitorStep, ~ DeleteRunner
      PROVE  UNCHANGED github
  <2>1. ASSUME NEW p \in Pods, ProviderCheckAgent(p)
        PROVE  UNCHANGED github
    BY <2>1 DEF ProviderCheckAgent
  <2>2. ASSUME \/ CheckBegin \/ ListAgents \/ CheckEnd \/ BindRunner \/ FollowStatus
               \/ AgentGone \/ CheckTimeout \/ NothingToDo \/ RunnerAbsent \/ DeleteAgent
        PROVE  UNCHANGED github
    BY <2>2 DEF CheckBegin, ListAgents, CheckEnd, BindRunner, FollowStatus, AgentGone,
       CheckTimeout, NothingToDo, RunnerAbsent, DeleteAgent, Deciding
  <2>3. ASSUME SendProviderPatch \/ TerminateAgent \/ SendUpdate
        PROVE  UNCHANGED github
    BY <2>3 DEF SendProviderPatch, TerminateAgent, SendUpdate
  <2> QED
    BY <1>6, <2>1, <2>2, <2>3 DEF MonitorStep
<1>7. ASSUME NEW h \in Handlers,
             \/ HandlerStep(h) \/ GiveUp(h)
             \/ \E p \in Pods : PostAgent(h, p) \/ DeleteRequest(h, p)
      PROVE  UNCHANGED github
  BY <1>7, HandlerTypes
<1>8. ASSUME ManagerStep \/ ControllerRestart
      PROVE  UNCHANGED github
  BY <1>8, ManagerTypes, RestartTypes
<1>9. ASSUME NEW p \in Pods,
             \/ Deliver(p) \/ CreatePod(p) \/ EvictPod(p) \/ ForeignRelease(p)
             \/ RemovePod(p) \/ Expire(p)
             \/ ProcessHalts(p) \/ Interrupt(p) \/ KillProcess(p)
      PROVE  UNCHANGED github
  BY <1>9, PodStepTypes DEF ProcessHalts, Interrupt, KillProcess
<1> QED
  BY <1>1, <1>3, <1>4, <1>5, <1>6, <1>7, <1>8, <1>9 DEF Next, ManagerStep

(* Only the manager, and the monitor at the start of a check, renew a list. *)
LEMMA OthersKeepLists ==
  ASSUME TypeOK, Next, ~ CheckBegin, ~ ManagerStep
  PROVE  ListsKept
<1>1. ASSUME UNCHANGED <<published, listing, mon>>
      PROVE  ListsKept
  BY <1>1 DEF ListsKept
<1>2. CASE MonitorStep
  <2>1. mon \in Monitors /\ mon.patch \in Patches /\ UNCHANGED <<published, listing>>
    BY <1>2, MonitorTypes DEF TypeOK, Monitors
  <2>2. ASSUME mon.pc # "idle", mon'.instances = mon.instances,
               mon'.passed = mon.passed
        PROVE  ListsKept
    BY <2>1, <2>2 DEF ListsKept
  <2>3. ASSUME mon.pc # "idle", NextAgent
        PROVE  ListsKept
    BY <2>1, <2>2, <2>3, NextAgentType
  <2>4. ASSUME mon.pc # "idle", NEW pc, NEW patch, MonitorAt(pc, patch)
        PROVE  ListsKept
    <3>1. mon'.instances = mon.instances /\ mon'.passed = mon.passed
      BY <2>1, <2>4 DEF MonitorAt, Monitors
    <3> QED
      BY <2>2, <2>4, <3>1
  <2>5. CASE CheckEnd
    <3>1. mon'.pc = "idle" /\ mon'.instances = NoInstances /\ mon'.passed = {}
      BY <2>5 DEF CheckEnd, IdleMonitor
    <3> QED
      BY <2>1, <3>1 DEF ListsKept
  <2>6. CASE ListAgents
    BY <2>1, <2>2, <2>6 DEF ListAgents, Monitors
  <2>7. ASSUME NEW p \in Pods, ProviderCheckAgent(p)
        PROVE  ListsKept
    <3>1. mon.pc = "pick"
      BY <2>7 DEF ProviderCheckAgent
    <3>2. mon'.instances = mon.instances /\ mon'.passed = mon.passed
      BY <2>1, <2>7 DEF ProviderCheckAgent, Monitors
    <3> QED
      BY <2>2, <3>1, <3>2
  <2>8. CASE SendProviderPatch \/ SendUpdate
    BY <2>3, <2>4, <2>8 DEF SendProviderPatch, SendUpdate
  <2>9. ASSUME NEW agent, MoveTo(agent), mon.pc = "check"
        PROVE  ListsKept
    BY <2>3, <2>4, <2>9 DEF MoveTo
  <2>10. CASE BindRunner \/ FollowStatus \/ AgentGone \/ CheckTimeout
    <3>1. mon.pc = "check" /\ \E agent : MoveTo(agent)
      BY <2>10 DEF BindRunner, FollowStatus, AgentGone, CheckTimeout, Deciding
    <3> QED
      BY <2>9, <3>1
  <2>11. CASE NothingToDo \/ RunnerAbsent
    BY <2>3, <2>4, <2>11 DEF NothingToDo, RunnerAbsent, Deciding
  <2>12. CASE DeleteRunner
    BY <2>3, <2>4, <2>12 DEF DeleteRunner, NotDeleted
  <2>13. CASE TerminateAgent
    BY <2>3, <2>4, <2>13 DEF TerminateAgent
  <2>14. CASE DeleteAgent
    BY <2>3, <2>4, <2>14 DEF DeleteAgent
  <2> QED
    BY <1>2, <2>5, <2>6, <2>7, <2>8, <2>10, <2>11, <2>12, <2>13, <2>14
       DEF MonitorStep
<1>3. CASE ControllerRestart
  <2>1. UNCHANGED <<published, listing>>
    BY <1>3, RestartTypes
  <2>2. mon'.pc = "idle" /\ mon'.instances = NoInstances /\ mon'.passed = {}
    BY <1>3 DEF ControllerRestart, IdleMonitor
  <2> QED
    BY <2>1, <2>2 DEF ListsKept
<1>4. ASSUME NEW h \in Handlers,
             \/ HandlerStep(h) \/ GiveUp(h)
             \/ \E p \in Pods : PostAgent(h, p) \/ DeleteRequest(h, p)
      PROVE  ListsKept
  BY <1>1, <1>4, HandlerTypes
<1>5. ASSUME NEW p \in Pods,
             \/ Deliver(p) \/ CreatePod(p) \/ EvictPod(p) \/ ForeignRelease(p)
             \/ RemovePod(p) \/ Expire(p)
      PROVE  ListsKept
  BY <1>1, <1>5, PodStepTypes
<1>6. ASSUME NEW p \in Pods,
             \/ ConfigureRunner(p) \/ ProcessHalts(p) \/ Interrupt(p) \/ KillProcess(p)
             \/ \E id \in RunnerIds : RunnerStep(p, id)
      PROVE  ListsKept
  BY <1>1, <1>6, RunnerTypes
<1> QED
  BY <1>2, <1>3, <1>4, <1>5, <1>6 DEF Next, ManagerStep

(* The monitor's hands are empty after a restart, and as they were after a  *)
(* step of another.                                                         *)
LEMMA AllAgentsFit ==
  ASSUME TypeOK, Evidence, MaxUid = 1, Next
  PROVE  NewAgentsFit
<1>1. AgentsKnown
  BY DEF Evidence
<1>2. /\ \A p \in Pods : Fit(p, mon'.agents[p])
      /\ Fit(mon'.pod, mon'.patch.agent)
  <2>1. CASE UNCHANGED mon
    BY <1>1, <2>1 DEF AgentsKnown
  <2>2. CASE MonitorStep
    BY <2>2, MonitorFits
  <2>3. CASE ControllerRestart
    <3>1. /\ \A p \in Pods : mon'.agents[p] = NoAgent
          /\ mon'.pod \in Pods /\ mon'.patch.agent = NoAgent
      BY <2>3, PodsAssumption DEF ControllerRestart, IdleMonitor, NoPatch
    <3> QED
      BY <3>1, FitSame
  <2>4. ASSUME ~ MonitorStep, ~ ControllerRestart
        PROVE  UNCHANGED mon
    BY <2>4, HandlerTypes, ManagerTypes, PodStepTypes, RunnerTypes
       DEF Next, ManagerStep
  <2> QED
    BY <2>1, <2>2, <2>3, <2>4
<1> QED
  BY <1>1, <1>2, TimelineFits, RequestsFit DEF NewAgentsFit

LEMMA EvidenceStep ==
  ASSUME TypeOK, TypeOK', Evidence, MaxUid = 1, MaxManagerRestarts = 0, [Next]_vars
  PROVE  Evidence'
<1>1. CASE Next
  <2>1. AgentsKnown /\ UniqueNames /\ ListsOrdered
    BY DEF Evidence
  <2>2. RunnersAge /\ UniqueNames'
    BY <1>1, <2>1, RunnersDoAge
  <2>3. ~ ManagerRestart
    <3>1. spent.restarts \in 0..0
      BY DEF TypeOK, Failures
    <3> QED
      BY <3>1 DEF ManagerRestart
  <2>4. /\ ListsOrdered'
        /\ \A p \in Pods, a \in Agents : Fit(p, a) => Fit(p, a)'
    <3>1. CASE CheckBegin
      BY <2>1, <3>1, CheckBeginEvidence
    <3>2. CASE \E page \in SUBSET RunnerIds : SyncFetch(page)
      BY <2>1, <3>2, SyncFetchEvidence
    <3>3. CASE SyncPublish
      BY <2>1, <3>3, SyncPublishEvidence
    <3>4. CASE \E id \in RunnerIds : ListShifts(id)
      BY <2>1, <3>4, ListShiftsEvidence
    <3>5. CASE ~ CheckBegin /\ ~ ManagerStep
      <4>1. ListsKept
        BY <1>1, <3>5, OthersKeepLists
      <4> QED
        BY <2>1, <2>2, <4>1, StableEvidence
    <3> QED
      BY <2>3, <3>1, <3>2, <3>3, <3>4, <3>5 DEF ManagerStep
  <2>5. AgentsKnown'
    BY <1>1, <2>4, AllAgentsFit, AgentsStayKnown
  <2> QED
    BY <2>2, <2>4, <2>5 DEF Evidence
<1>2. CASE UNCHANGED vars
  <2>1. AgentsKnown /\ UniqueNames /\ ListsOrdered
    BY DEF Evidence
  <2>2. RunnersAge /\ ListsKept /\ UniqueNames'
    BY <1>2, <2>1 DEF vars, RunnersAge, ListsKept, UniqueNames, Registered
  <2>3. NewAgentsFit
    BY <1>2, <2>1 DEF vars, AgentsKnown, NewAgentsFit
  <2> QED
    BY <2>1, <2>2, <2>3, StableEvidence, AgentsStayKnown DEF Evidence
<1> QED
  BY <1>1, <1>2

LEMMA EvidenceInit ==
  ASSUME Init
  PROVE  Evidence
<1>1. \A n \in Names : NoInstances[n].id = 0
  BY DEF NoInstances, Nobody
<1>2. ListsOrdered
  BY <1>1 DEF Init, ListsOrdered, Genuine, Persists, Coming, IdleMonitor,
              EmptyListing, NewState
<1>3. UniqueNames
  BY DEF Init, UniqueNames, Registered, NoRunner
<1>4. AgentsKnown
  <2>1. \A p \in Pods : \A k \in DOMAIN timeline[p] : timeline[p][k].agent = NoAgent
    <3>1. AbsentPod(0).agent = NoAgent
      BY DEF AbsentPod
    <3> DEFINE absent == AbsentPod(0)
    <3>2. \A p \in Pods : timeline[p] = <<absent>>
      BY DEF Init
    <3> HIDE DEF absent
    <3> QED
      BY <3>1, <3>2 DEF absent
  <2>2. /\ \A p \in Pods : mon.agents[p] = NoAgent
        /\ mon.pod \in Pods /\ mon.patch.agent = NoAgent
    BY PodsAssumption DEF Init, IdleMonitor, NoPatch
  <2>3. \A h \in Handlers : req[h].pod \in Pods /\ req[h].patch.agent = NoAgent
    BY PodsAssumption DEF Init, IdleRequest, NoPatch
  <2> QED
    BY <2>1, <2>2, <2>3, FitSame DEF AgentsKnown
<1> QED
  BY <1>2, <1>3, <1>4 DEF Evidence

(* The evidence is sound in every reachable state, if pod names are not     *)
(* used again and the manager is not restarted: a list accounts for every   *)
(* runner an agent is bound to, but for those its pages passed over.        *)
THEOREM EvidenceIsSound ==
  ASSUME MaxUid = 1, MaxManagerRestarts = 0
  PROVE  Spec => []Evidence
<1>1. Init => Evidence
  BY EvidenceInit
<1>2. TypeOK /\ TypeOK' /\ Evidence /\ [Next]_vars => Evidence'
  BY EvidenceStep
<1> QED
  BY <1>1, <1>2, TypeCorrect, PTL DEF Spec

(* A list that does not show the runner of an agent shows that it is gone,  *)
(* or passed it over.                                                       *)
LEMMA NotShown ==
  ASSUME TypeOK, Evidence, mon.pc # "idle", Copy.rid # 0
  PROVE  /\ Copy \in Agents /\ Copy # NoAgent /\ Copy.rid \in RunnerIds
         /\ github[Copy.rid].status # "none"
         /\ MonInstance(Copy).id # Copy.rid =>
              ~ Registered(Copy.rid) \/ Copy.rid \in mon.passed
<1>1. mon.pod \in Pods /\ Copy \in Agents /\ Fit(mon.pod, Copy)
  BY DEF TypeOK, Monitors, Evidence, AgentsKnown, Copy
<1>2. Copy # NoAgent
  BY DEF NoAgent
<1>3. Copy.rid \in RunnerIds
  BY <1>1, <1>2, BoundsAssumption DEF Agents, RunnerIds
<1>4. /\ github[Copy.rid].status # "none"
      /\ Registered(Copy.rid) =>
           mon.instances[Copy.name].id = Copy.rid \/ Copy.rid \in mon.passed
  BY <1>1, <1>2 DEF Fit, Known, Shows, Accounts
<1>5. Registered(Copy.rid) =>
        MonInstance(Copy).id = Copy.rid \/ Copy.rid \in mon.passed
  BY <1>4 DEF MonInstance, Lookup
<1> QED
  BY <1>1, <1>2, <1>3, <1>4, <1>5

LEMMA EvidenceSuffices ==
  ASSUME TypeOK, Evidence
  PROVE  GoneIsGone
BY NotShown DEF GoneIsGone, Nobody

(* No live agent is taken for gone, but one that the list the monitor holds *)
(* passed over when its pages shifted: however far behind the cache is, in  *)
(* whatever order the runners are listed, and whatever fails.               *)
THEOREM GoneIsGoneCorrect ==
  ASSUME MaxUid = 1, MaxManagerRestarts = 0
  PROVE  Spec => []GoneIsGone
<1>1. TypeOK /\ Evidence => GoneIsGone
  BY EvidenceSuffices
<1> QED
  BY <1>1, TypeCorrect, EvidenceIsSound, PTL

-------------------------------------------------------------------------------
(* The pods the monitor terminates *)

(* The monitor's locals while it is about to terminate an agent's pod, and  *)
(* the only steps that bring it there.                                      *)
LEMMA OnTheWay ==
  ASSUME TypeOK, Next, mon'.pc = "terminate"
  PROVE  /\ Copy' = Copy /\ mon'.newEpoch = mon.newEpoch
         /\ mon'.instances = mon.instances /\ mon'.passed = mon.passed
         /\ \/ UNCHANGED mon
            \/ RunnerAbsent
            \/ DeleteRunner
<1>1. mon \in Monitors /\ mon.patch \in Patches /\ NoPatch \in Patches
  BY PatchTypes DEF TypeOK, Monitors
<1>2. CASE UNCHANGED mon
  BY <1>2 DEF Copy
<1>3. ASSUME MonitorAt("terminate", NoPatch)
      PROVE  /\ Copy' = Copy /\ mon'.newEpoch = mon.newEpoch
             /\ mon'.instances = mon.instances /\ mon'.passed = mon.passed
  BY <1>1, <1>3, MonitorAtType DEF Copy
<1>4. ~ NextAgent
  BY <1>1, NextAgentType
<1>5. ASSUME NEW pc \in {"check", "update", "release"}, NEW patch
      PROVE  ~ MonitorAt(pc, patch)
  BY <1>1 DEF MonitorAt, Monitors
<1>6. ~ \E agent : MoveTo(agent)
  BY <1>4, <1>5 DEF MoveTo
<1>7. CASE RunnerAbsent \/ DeleteRunner
  BY <1>3, <1>4, <1>7 DEF RunnerAbsent, DeleteRunner, NotDeleted
<1>8. ASSUME MonitorStep
      PROVE  RunnerAbsent \/ DeleteRunner
  <2>1. ~ CheckBegin /\ ~ ListAgents
    BY <1>1 DEF CheckBegin, ListAgents, Monitors
  <2>2. ~ CheckEnd
    BY DEF CheckEnd, IdleMonitor
  <2>3. ASSUME NEW p \in Pods
        PROVE  ~ ProviderCheckAgent(p)
    BY <1>1 DEF ProviderCheckAgent, Monitors
  <2>4. ~ (SendProviderPatch \/ NothingToDo \/ TerminateAgent \/ SendUpdate)
    BY <1>4, <1>5 DEF SendProviderPatch, NothingToDo, TerminateAgent, SendUpdate
  <2>5. ~ DeleteAgent
    BY <1>4, <1>5 DEF DeleteAgent
  <2>6. ~ (BindRunner \/ FollowStatus \/ AgentGone \/ CheckTimeout)
    BY <1>6 DEF BindRunner, FollowStatus, AgentGone, CheckTimeout
  <2> QED
    BY <1>8, <2>1, <2>2, <2>3, <2>4, <2>5, <2>6 DEF MonitorStep
<1>9. ~ ControllerRestart
  BY DEF ControllerRestart, IdleMonitor
<1>10. ASSUME ~ MonitorStep
       PROVE  UNCHANGED mon
  BY <1>9, <1>10, HandlerTypes, ManagerTypes, PodStepTypes, RunnerTypes
     DEF Next, ManagerStep
<1> QED
  BY <1>2, <1>7, <1>8, <1>10

LEMMA KilledSafelyStep ==
  ASSUME TypeOK, Evidence, PodKilledSafely, [Next]_vars
  PROVE  PodKilledSafely'
<1>1. CASE UNCHANGED vars
  BY <1>1 DEF vars, PodKilledSafely, Copy, MonInstance, Registered
<1>2. SUFFICES ASSUME Next, mon'.pc = "terminate", Copy'.rid # 0
               PROVE  \/ (~ Registered(Copy.rid) \/ Copy.rid \in mon.passed)'
                      \/ (Copy.late /\ mon.newEpoch /\ MonInstance(Copy).id = Copy.rid)'
  BY <1>1 DEF PodKilledSafely
<1>3. /\ Copy' = Copy /\ mon'.newEpoch = mon.newEpoch
      /\ mon'.instances = mon.instances /\ mon'.passed = mon.passed
  BY <1>2, OnTheWay
<1>4. MonInstance(Copy)' = MonInstance(Copy) /\ Copy.rid # 0
  BY <1>2, <1>3 DEF MonInstance
<1>5. ASSUME mon.pc # "idle", ~ Registered(Copy.rid) \/ Copy.rid \in mon.passed
      PROVE  (~ Registered(Copy.rid) \/ Copy.rid \in mon.passed)'
  <2>1. Copy.rid \in RunnerIds /\ github[Copy.rid].status # "none"
    BY <1>4, <1>5, NotShown
  <2>2. RunnersAge
    BY <1>2, RunnersDoAge DEF Evidence
  <2> QED
    BY <1>3, <1>5, <2>1, <2>2 DEF RunnersAge, Registered
<1>6. CASE UNCHANGED mon
  BY <1>2, <1>3, <1>4, <1>5, <1>6 DEF PodKilledSafely
<1>7. CASE RunnerAbsent
  <2>1. mon.pc = "check" /\ MonInstance(Copy).id # Copy.rid
    BY <1>4, <1>7 DEF RunnerAbsent, Deciding, Nobody
  <2> QED
    BY <1>4, <1>5, <2>1, NotShown
<1>8. CASE DeleteRunner
  <2>1. mon.pc = "check" /\ mon.newEpoch
    BY <1>8 DEF DeleteRunner
  <2>2. CASE MonInstance(Copy).id # Copy.rid
    BY <1>4, <1>5, <2>1, <2>2, NotShown
  <2>3. CASE MonInstance(Copy).id = Copy.rid /\ NotDeleted
    <3>1. Copy.late
      <4>1. ~ NextAgent
        BY <1>2, NextAgentType DEF TypeOK
      <4> QED
        BY <2>3, <4>1 DEF NotDeleted
    <3> QED
      BY <1>3, <1>4, <2>1, <2>3, <3>1
  <2>4. CASE /\ MonInstance(Copy).id = Copy.rid
             /\ github' = [github EXCEPT ![MonInstance(Copy).id].status = "gone"]
    <3>1. Copy.rid \in RunnerIds
      BY <1>4, <2>1, NotShown
    <3>2. github'[Copy.rid].status = "gone"
      BY <2>4, <3>1 DEF TypeOK, Runners
    <3> QED
      BY <1>3, <3>2 DEF Registered
  <2> QED
    BY <1>8, <2>2, <2>3, <2>4 DEF DeleteRunner
<1> QED
  BY <1>2, <1>6, <1>7, <1>8, OnTheWay

(* The monitor deletes the pod of an agent bound to a runner only once the  *)
(* runner is off GitHub, or after its deletion was refused, in an epoch of  *)
(* its own and past the timeout (monitor.go:186-216), or if the list the    *)
(* monitor holds passed the runner over when its pages shifted.             *)
THEOREM PodKilledSafelyCorrect ==
  ASSUME MaxUid = 1, MaxManagerRestarts = 0
  PROVE  Spec => []PodKilledSafely
<1>1. Init => PodKilledSafely
  BY DEF Init, IdleMonitor, PodKilledSafely
<1>2. TypeOK /\ Evidence /\ PodKilledSafely /\ [Next]_vars => PodKilledSafely'
  BY KilledSafelyStep
<1> QED
  BY <1>1, <1>2, TypeCorrect, EvidenceIsSound, PTL DEF Spec

-------------------------------------------------------------------------------
(* Lists of one page *)

(* No list has passed a runner over. *)
NobodyPassed == listing.passed = {} /\ published.passed = {} /\ mon.passed = {}

LEMMA NobodyPassedStep ==
  ASSUME TypeOK, NobodyPassed, MaxShifts = 0, [Next]_vars
  PROVE  NobodyPassed'
<1>1. CASE Next
  <2>1. CASE CheckBegin
    BY <2>1 DEF CheckBegin, NobodyPassed, TypeOK, Monitors
  <2>2. ASSUME NEW page \in SUBSET RunnerIds, SyncFetch(page)
        PROVE  NobodyPassed'
    BY <2>2 DEF SyncFetch, NobodyPassed
  <2>3. ASSUME NEW id \in RunnerIds
        PROVE  ~ ListShifts(id)
    <3>1. spent.shifts \in 0..0
      BY DEF TypeOK, Failures
    <3>2. ~ (spent.shifts < MaxShifts)
      BY <3>1
    <3> QED
      BY <3>2 DEF ListShifts
  <2>4. CASE SyncPublish
    BY <2>4 DEF SyncPublish, EmptyListing, NobodyPassed
  <2>5. CASE ManagerRestart
    BY <2>5 DEF ManagerRestart, EmptyListing, NewState, NobodyPassed
  <2>6. CASE ~ CheckBegin /\ ~ ManagerStep
    <3>1. ListsKept
      BY <1>1, <2>6, OthersKeepLists
    <3> QED
      BY <3>1 DEF ListsKept, NobodyPassed
  <2> QED
    BY <2>1, <2>2, <2>3, <2>4, <2>5, <2>6 DEF ManagerStep
<1>2. CASE UNCHANGED vars
  BY <1>2 DEF vars, NobodyPassed
<1> QED
  BY <1>1, <1>2

(* The two properties above without their exception. *)
GoneForSure ==
  mon.pc = "check" /\ Copy.state \in Live /\ Copy.rid # 0
    /\ MonInstance(Copy) = Nobody
  => ~ Registered(Copy.rid)

KilledForSure ==
  mon.pc = "terminate" /\ Copy.rid # 0
  => \/ ~ Registered(Copy.rid)
     \/ Copy.late /\ mon.newEpoch /\ MonInstance(Copy).id = Copy.rid

(* With a list of one page the monitor takes no live agent for gone         *)
(* (monitor.go:160,173), and deletes the pod of no registered runner but    *)
(* after a refusal and past the timeout (monitor.go:186-216).               *)
THEOREM OnePageSuffices ==
  ASSUME MaxUid = 1, MaxManagerRestarts = 0, MaxShifts = 0
  PROVE  Spec => [](GoneForSure /\ KilledForSure)
<1>1. Init => NobodyPassed
  BY DEF Init, NobodyPassed, EmptyListing, NewState, IdleMonitor
<1>2. TypeOK /\ NobodyPassed /\ [Next]_vars => NobodyPassed'
  BY NobodyPassedStep
<1>3. NobodyPassed /\ GoneIsGone /\ PodKilledSafely => GoneForSure /\ KilledForSure
  BY DEF NobodyPassed, GoneIsGone, PodKilledSafely, GoneForSure, KilledForSure
<1> QED
  BY <1>1, <1>2, <1>3, TypeCorrect, GoneIsGoneCorrect, PodKilledSafelyCorrect, PTL
     DEF Spec
===============================================================================
