----------------------------- MODULE AgentPodProofs -----------------------------
(***************************************************************************)
(* Proofs of the two action properties of AgentController about its pods:  *)
(* what becomes of their finalizer, and of their registration.             *)
(***************************************************************************)
EXTENDS AgentControllerProofs

-------------------------------------------------------------------------------
(* What a step does to the pods *)

(* Two versions that differ in the agent's state or the busy marks only.    *)
Like(v, w) ==
  /\ v.uid = w.uid /\ v.exists = w.exists /\ v.deleting = w.deleting
  /\ v.finalizers = w.finalizers
  /\ v.agent = NoAgent <=> w.agent = NoAgent

Blank(v) == ~ v.exists /\ v.agent = NoAgent /\ v.finalizers = <<>>

(* Who sends a patch: the monitor or a handler. *)
Sender(p, patch) ==
  \/ mon.pod = p /\ mon.patch = patch /\ (SendProviderPatch \/ SendUpdate)
  \/ \E h \in Handlers : req[h].pod = p /\ req[h].patch = patch /\ HandlerStep(h)

(* What is written over the pod the API server holds. *)
Change(p, new) ==
  \/ \E patch \in Patches : /\ Sender(p, patch) /\ Applies(patch, Server(p))
                            /\ new = Patched(patch, Server(p))
  \/ Server(p).exists /\ new = [Server(p) EXCEPT !.deleting = TRUE]
  \/ CreatePod(p) /\ new = FreshPod(Server(p).uid + 1, PodFinalizers)
  \/ /\ Server(p).deleting
     /\ \E i \in DOMAIN Server(p).finalizers :
          /\ Server(p).finalizers[i] = Foreign
          /\ new = [Server(p) EXCEPT !.finalizers = RemoveAt(@, i)]
  \/ /\ Server(p).deleting /\ Server(p).finalizers = <<>>
     /\ new = AbsentPod(Server(p).uid)

(* The step on a pod: at the API server, and in what the cache has to see.  *)
ServerMoves(p) == Like(Server(p)', Server(p)) \/ Change(p, Server(p)')

HistoryMoves(p) ==
  \A k \in DOMAIN timeline'[p] :
    \/ Like(timeline'[p][k], Server(p)')
    \/ \E j \in DOMAIN timeline[p] : Like(timeline'[p][k], timeline[p][j])
    \/ Blank(timeline'[p][k])

LEMMA WrittenLast ==
  ASSUME TypeOK, NEW p \in Pods, NEW pod \in Versions, Write(p, pod)
  PROVE  Last(timeline'[p]) = pod
<1>1. timeline[p] \in Seq(Versions)
  BY DEF TypeOK
<1>2. CASE timeline' = [timeline EXCEPT ![p] = Append(@, pod)]
  <2>1. timeline'[p] = Append(timeline[p], pod)
    BY <1>2 DEF TypeOK
  <2>2. Append(timeline[p], pod)[Len(Append(timeline[p], pod))] = pod
    BY <1>1, AppendProperties
  <2> QED
    BY <2>1, <2>2 DEF Last
<1>3. CASE timeline' = [timeline EXCEPT ![p] = <<pod>>]
  BY <1>3 DEF Last, TypeOK
<1> QED
  BY <1>2, <1>3 DEF Write, Server

LEMMA ServerTypeNext ==
  ASSUME TypeOK', NEW p \in Pods
  PROVE  Server(p)' \in Versions
<1>1. timeline'[p] \in Seq(Versions) /\ timeline'[p] # <<>>
  BY DEF TypeOK
<1>2. Len(timeline'[p]) \in Nat \ {0}
  BY <1>1, EmptySeq
<1> QED
  BY <1>1, <1>2 DEF Server, Last

LEMMA WriteMoves ==
  ASSUME TypeOK, NEW p \in Pods, NEW pod \in Versions, Write(p, pod), Change(p, pod)
  PROVE  \A q \in Pods : ServerMoves(q) /\ HistoryMoves(q)
<1>1. /\ timeline' \in [Pods -> Seq(Versions) \ {<<>>}]
      /\ \A q \in Pods : \A k \in DOMAIN timeline'[q] :
           \/ q = p /\ timeline'[q][k] = pod
           \/ \E j \in DOMAIN timeline[q] : timeline'[q][k] = timeline[q][j]
  BY WriteType DEF TypeOK
<1>2. Server(p)' = pod
  BY WrittenLast DEF Server
<1>3. \A q \in Pods : q # p => timeline'[q] = timeline[q]
  BY DEF Write, TypeOK
<1>4. \A q \in Pods : ServerMoves(q)
  BY <1>2, <1>3 DEF ServerMoves, Server, Like
<1>5. ASSUME NEW q \in Pods, NEW k \in DOMAIN timeline'[q]
      PROVE  \/ Like(timeline'[q][k], Server(q)')
             \/ \E j \in DOMAIN timeline[q] : Like(timeline'[q][k], timeline[q][j])
  <2>1. CASE q = p /\ timeline'[q][k] = pod
    BY <2>1, <1>2 DEF Like
  <2>2. CASE \E j \in DOMAIN timeline[q] : timeline'[q][k] = timeline[q][j]
    BY <2>2 DEF Like
  <2> QED
    BY <2>1, <2>2, <1>1
<1>6. \A q \in Pods : HistoryMoves(q)
  BY <1>5, Zenon DEF HistoryMoves
<1> QED
  BY <1>4, <1>6

LEMMA StillMoves ==
  ASSUME TypeOK, UNCHANGED timeline
  PROVE  \A q \in Pods : ServerMoves(q) /\ HistoryMoves(q)
BY DEF ServerMoves, HistoryMoves, Server, Like

(* A patch is written as its sender meant it, if it is written at all. *)
LEMMA PatchMoves ==
  ASSUME TypeOK, NEW p \in Pods, NEW patch \in Patches, PatchSent(p, patch),
         Sender(p, patch)
  PROVE  \A q \in Pods : ServerMoves(q) /\ HistoryMoves(q)
<1>1. CASE UNCHANGED timeline
  BY <1>1, StillMoves
<1>2. CASE Applies(patch, Server(p)) /\ Write(p, Patched(patch, Server(p)))
  <2>1. Patched(patch, Server(p)) \in Versions
    BY <1>2, PodTypes, PatchedType DEF TypeOK
  <2>2. Change(p, Patched(patch, Server(p)))
    BY <1>2 DEF Change
  <2> QED
    BY <1>2, <2>1, <2>2, WriteMoves
<1> QED
  BY <1>1, <1>2 DEF PatchSent, PatchApplied, PatchRejected, PatchFailed

LEMMA DeletionMoves ==
  ASSUME TypeOK, NEW p \in Pods, Server(p).exists,
         Write(p, [Server(p) EXCEPT !.deleting = TRUE])
  PROVE  \A q \in Pods : ServerMoves(q) /\ HistoryMoves(q)
<1>1. [Server(p) EXCEPT !.deleting = TRUE] \in Versions
  BY PodTypes, VersionTypes DEF TypeOK
<1>2. Change(p, [Server(p) EXCEPT !.deleting = TRUE])
  BY DEF Change
<1> QED
  BY <1>1, <1>2, WriteMoves

(* Only the informer, the clock and a restart touch older versions. *)
LEMMA OlderVersions ==
  ASSUME TypeOK, NEW p \in Pods, Deliver(p) \/ Expire(p)
  PROVE  \A q \in Pods : ServerMoves(q) /\ HistoryMoves(q)
<1>1. /\ timeline[p] \in Seq(Versions) /\ Len(timeline[p]) \in Nat \ {0}
      /\ \A q \in Pods \ {p} : timeline'[q] = timeline[q]
  BY PodTypes DEF TypeOK, Deliver, Expire
<1>2. \A q \in Pods \ {p} : ServerMoves(q) /\ HistoryMoves(q)
  BY <1>1 DEF ServerMoves, HistoryMoves, Server, Like
<1>3. CASE Deliver(p)
  <2>1. timeline'[p] = Tail(timeline[p])
    BY <1>3 DEF Deliver, TypeOK
  <2>2. /\ Len(Tail(timeline[p])) = Len(timeline[p]) - 1
        /\ \A k \in DOMAIN Tail(timeline[p]) :
             k + 1 \in DOMAIN timeline[p] /\ Tail(timeline[p])[k] = timeline[p][k + 1]
    BY <1>1, HeadTailProperties
  <2>3. Len(timeline[p]) > 1
    BY <1>3 DEF Deliver
  <2>4. Server(p)' = Server(p)
    <3>1. Len(timeline[p]) - 1 \in DOMAIN Tail(timeline[p])
      BY <1>1, <2>2, <2>3, HeadTailProperties
    <3> QED
      BY <1>1, <2>1, <2>2, <3>1 DEF Server, Last
  <2>5. HistoryMoves(p)
    BY <2>1, <2>2 DEF HistoryMoves, Like
  <2> QED
    BY <1>2, <2>4, <2>5 DEF ServerMoves, Like
<1>4. CASE Expire(p)
  <2>1. DOMAIN timeline'[p] = DOMAIN timeline[p]
    BY <1>1, <1>4 DEF Expire, TypeOK
  <2>2. ASSUME NEW k \in DOMAIN timeline[p]
        PROVE  Like(timeline'[p][k], timeline[p][k])
    <3>1. \/ timeline'[p][k] = timeline[p][k]
          \/ /\ timeline[p][k].agent # NoAgent
             /\ timeline[p][k].agent.state # "ready"
             /\ timeline'[p][k] = [timeline[p][k] EXCEPT !.agent.late = TRUE]
      BY <1>4, <2>2 DEF Expire, TypeOK
    <3>2. timeline[p][k] \in Versions
      BY <1>1
    <3>3. timeline[p][k].agent # NoAgent
            => [timeline[p][k] EXCEPT !.agent.late = TRUE].agent # NoAgent
      BY <3>2 DEF Versions, Agents, NoAgent
    <3> QED
      BY <3>1, <3>2, <3>3 DEF Like, Versions
  <2>3. Like(Server(p)', Server(p))
    <3>1. Len(timeline'[p]) = Len(timeline[p])
      BY <1>1, <2>1, PodStepTypes, <1>4, LenProperties DEF TypeOK
    <3> QED
      BY <1>1, <2>2, <3>1 DEF Server, Last
  <2>4. HistoryMoves(p)
    BY <2>1, <2>2 DEF HistoryMoves
  <2> QED
    BY <1>2, <2>3, <2>4 DEF ServerMoves
<1> QED
  BY <1>3, <1>4

LEMMA RestartMoves ==
  ASSUME TypeOK, ControllerRestart
  PROVE  \A q \in Pods : ServerMoves(q) /\ HistoryMoves(q)
<1> SUFFICES ASSUME NEW q \in Pods
             PROVE  ServerMoves(q) /\ HistoryMoves(q)
  OBVIOUS
<1> DEFINE absent == AbsentPod(Server(q).uid)
           stored == Server(q)
<1>1. timeline'[q] = <<absent, stored>> \/ timeline'[q] = <<stored>>
  BY DEF ControllerRestart
<1>2. Blank(absent)
  BY DEF Blank, AbsentPod
<1> HIDE DEF absent
<1>3. Server(q)' = stored
  <2>1. Last(timeline'[q]) = stored
    <3> HIDE DEF stored
    <3>1. CASE timeline'[q] = <<absent, stored>>
      BY <3>1 DEF Last
    <3>2. CASE timeline'[q] = <<stored>>
      BY <3>2 DEF Last
    <3> QED
      BY <3>1, <3>2, <1>1
  <2> QED
    BY <2>1 DEF Server
<1>4. \A k \in DOMAIN timeline'[q] : timeline'[q][k] \in {absent, stored}
  <2> HIDE DEF stored
  <2> QED
    BY <1>1
<1> QED
  BY <1>2, <1>3, <1>4 DEF ServerMoves, HistoryMoves, Like

(* Every step of the system. *)
LEMMA PodsMove ==
  ASSUME TypeOK, Next
  PROVE  \A q \in Pods : ServerMoves(q) /\ HistoryMoves(q)
<1> DEFINE Goal == \A q \in Pods : ServerMoves(q) /\ HistoryMoves(q)
<1>1. ASSUME UNCHANGED timeline
      PROVE  Goal
  BY <1>1, StillMoves
<1>2. mon.pod \in Pods /\ mon.patch \in Patches
  BY DEF TypeOK, Monitors
<1> HIDE DEF Goal
<1>3. CASE MonitorStep
  <2>1. CASE SendProviderPatch \/ SendUpdate
    <3>1. PatchSent(mon.pod, mon.patch)
      BY <2>1 DEF SendProviderPatch, ProviderAccepts, ProviderRefuses, SendUpdate,
         PatchSent
    <3> QED
      BY <1>2, <2>1, <3>1, PatchMoves DEF Sender, Goal
  <2>2. CASE TerminateAgent
    <3>1. \/ UNCHANGED timeline
          \/ /\ Server(mon.pod).exists
             /\ Write(mon.pod, [Server(mon.pod) EXCEPT !.deleting = TRUE])
      BY <2>2 DEF TerminateAgent
    <3> QED
      BY <1>1, <1>2, <3>1, DeletionMoves DEF Goal
  <2>3. CASE ~ (SendProviderPatch \/ SendUpdate \/ TerminateAgent)
    <3>1. ASSUME NEW p \in Pods, ProviderCheckAgent(p)
          PROVE  UNCHANGED timeline
      BY <3>1 DEF ProviderCheckAgent
    <3>2. ASSUME CheckBegin \/ ListAgents \/ CheckEnd
          PROVE  UNCHANGED timeline
      BY <3>2 DEF CheckBegin, ListAgents, CheckEnd
    <3>3. ASSUME BindRunner \/ FollowStatus \/ AgentGone \/ CheckTimeout \/ NothingToDo
          PROVE  UNCHANGED timeline
      BY <3>3 DEF BindRunner, FollowStatus, AgentGone, CheckTimeout, NothingToDo,
         Deciding
    <3>4. ASSUME RunnerAbsent \/ DeleteRunner \/ DeleteAgent
          PROVE  UNCHANGED timeline
      BY <3>4 DEF RunnerAbsent, DeleteRunner, DeleteAgent, Deciding
    <3>5. UNCHANGED timeline
      BY <1>3, <2>3, <3>1, <3>2, <3>3, <3>4 DEF MonitorStep
    <3> QED
      BY <1>1, <3>5 DEF Goal
  <2> QED
    BY <2>1, <2>2, <2>3
<1>4. ASSUME NEW h \in Handlers, HandlerStep(h)
      PROVE  Goal
  <2>1. req[h].pod \in Pods /\ req[h].patch \in Patches
    BY DEF TypeOK, Requests
  <2>2. PatchSent(req[h].pod, req[h].patch)
    BY <1>4 DEF HandlerStep, Register, AnnotateNew, FinishDelete, PatchSent
  <2>3. Sender(req[h].pod, req[h].patch)
    BY <1>4 DEF Sender
  <2> QED
    BY <2>1, <2>2, <2>3, PatchMoves DEF Goal
<1>5. CASE ControllerRestart
  BY <1>5, RestartMoves DEF Goal
<1>6. ASSUME NEW p \in Pods, Deliver(p) \/ Expire(p)
      PROVE  Goal
  BY <1>6, OlderVersions DEF Goal
<1>7. ASSUME NEW p \in Pods,
             CreatePod(p) \/ EvictPod(p) \/ ForeignRelease(p) \/ RemovePod(p)
      PROVE  Goal
  <2>1. /\ Server(p) \in Versions /\ Server(p).finalizers \in Seq({Own, Foreign})
        /\ Server(p).uid \in 0..MaxUid
    BY PodTypes, VersionTypes DEF TypeOK
  <2>2. CASE CreatePod(p)
    <3> DEFINE fresh == FreshPod(Server(p).uid + 1, PodFinalizers)
    <3>1. fresh \in Versions /\ Write(p, fresh)
      BY <2>2, VersionTypes DEF CreatePod
    <3>2. Change(p, fresh)
      BY <2>2 DEF Change
    <3> HIDE DEF fresh
    <3> QED
      BY <3>1, <3>2, WriteMoves DEF Goal
  <2>3. CASE EvictPod(p)
    BY <2>3, DeletionMoves DEF EvictPod, Goal
  <2>4. CASE ForeignRelease(p)
    <3>1. PICK i \in DOMAIN Server(p).finalizers :
            /\ Server(p).deleting /\ Server(p).finalizers[i] = Foreign
            /\ Write(p, [Server(p) EXCEPT !.finalizers = RemoveAt(@, i)])
      BY <2>4 DEF ForeignRelease
    <3> DEFINE kept == [Server(p) EXCEPT !.finalizers = RemoveAt(@, i)]
    <3>2. RemoveAt(Server(p).finalizers, i) \in Seq({Own, Foreign})
      BY <2>1 DEF RemoveAt
    <3>3. kept \in Versions
      BY <2>1, <3>2 DEF Versions
    <3>4. Write(p, kept) /\ Change(p, kept)
      BY <3>1 DEF Change
    <3> HIDE DEF kept
    <3> QED
      BY <3>3, <3>4, WriteMoves DEF Goal
  <2>5. CASE RemovePod(p)
    <3>1. AbsentPod(Server(p).uid) \in Versions
      BY <2>1, VersionTypes
    <3>2. Write(p, AbsentPod(Server(p).uid)) /\ Change(p, AbsentPod(Server(p).uid))
      BY <2>5 DEF RemovePod, Change
    <3> QED
      BY <3>1, <3>2, WriteMoves DEF Goal
  <2> QED
    BY <1>7, <2>2, <2>3, <2>4, <2>5
<1>8. ASSUME NEW h \in Handlers,
             GiveUp(h) \/ \E p \in Pods : PostAgent(h, p) \/ DeleteRequest(h, p)
      PROVE  Goal
  BY <1>1, <1>8 DEF GiveUp, PostAgent, DeleteRequest, Goal
<1>9. ASSUME ManagerStep
      PROVE  Goal
  BY <1>1, <1>9, ManagerTypes DEF Goal
<1>10. ASSUME NEW p \in Pods,
              \/ ConfigureRunner(p) \/ ProcessHalts(p) \/ Interrupt(p) \/ KillProcess(p)
              \/ \E id \in RunnerIds : RunnerStep(p, id)
       PROVE  Goal
  BY <1>1, <1>10, RunnerTypes DEF Goal
<1>11. Goal
  BY <1>3, <1>4, <1>5, <1>6, <1>7, <1>8, <1>9, <1>10
     DEF Next, ManagerStep, Goal
<1> QED
  BY <1>11 DEF Goal

-------------------------------------------------------------------------------
(* What the monitor and the handlers hold after a step *)

(* The patches say what becomes of the finalizer list. *)
LEMMA PatchFins ==
  /\ NoPatch.fin = "keep" /\ NoPatch.agent = NoAgent
  /\ \A a : UpdatePatch(a).fin = "keep"
  /\ \A v, b : /\ AnnotatePatch(v, b).fin \in {"keep", "create", "append"}
               /\ AnnotatePatch(v, b).agent = NoAgent
  /\ \A v, a : /\ RegisterPatch(v, a).fin = AddFinalizerPatch(v)
               /\ RegisterPatch(v, a).agent = a
               /\ RegisterPatch(v, a).fin \in {"keep", "create", "append"}
  /\ \A v : /\ ReleasePatch(v).fin \in {"keep", "remove"}
            /\ ReleasePatch(v).agent = NoAgent
BY DEF UpdatePatch, AnnotatePatch, RegisterPatch, ReleasePatch, NoPatch,
   AddFinalizerPatch

(* The monitor drops what it has, or goes on with it. *)
FewerAgents == \A p \in Pods : mon'.agents[p] \in {mon.agents[p], NoAgent}

(* Where the monitor's label and patch come from. *)
MonitorMoves ==
  /\ mon'.pod \in Pods
  /\ FewerAgents \/ \A p \in Pods : mon'.agents[p] = Cached(p).agent
  /\ \/ mon'.pc # "release" /\ mon'.patch = NoPatch
     \/ /\ mon'.pc = "release" => mon.pc = "release"
        /\ mon'.pod = mon.pod /\ mon'.patch = mon.patch
     \/ /\ TerminateAgent /\ Cached(mon.pod).exists
        /\ \/ Server(mon.pod).exists
              /\ Write(mon.pod, [Server(mon.pod) EXCEPT !.deleting = TRUE])
           \/ ~ Server(mon.pod).exists /\ UNCHANGED timeline
        /\ mon'.pod = mon.pod /\ mon'.patch = NoPatch
     \/ /\ mon.pc = "release" /\ mon'.pc # "release"
        /\ mon'.pod = mon.pod /\ \E v : mon'.patch = ReleasePatch(v)
     \/ /\ mon'.pc # "release"
        /\ Updating(mon'.pod) /\ \E a : mon'.patch = UpdatePatch(a)
     \/ /\ mon'.pc # "release"
        /\ mon.agents[mon'.pod] # NoAgent
        /\ \E v, b : mon'.patch = AnnotatePatch(v, b)

LEMMA MonitorDoesMove ==
  ASSUME TypeOK, Next
  PROVE  MonitorMoves
<1>1. /\ mon \in Monitors /\ mon.pod \in Pods /\ mon.patch \in Patches
      /\ mon.agents \in [Pods -> Agents] /\ NoPatch \in Patches
      /\ IdleMonitor \in Monitors
  BY PatchTypes, IdleTypes DEF TypeOK, Monitors
<1>2. CASE UNCHANGED mon
  BY <1>1, <1>2 DEF MonitorMoves, FewerAgents
<1>3. ASSUME NextAgent
      PROVE  MonitorMoves
  BY <1>1, <1>3, NextAgentType DEF MonitorMoves, FewerAgents
<1>4. ASSUME NEW pc \in {"check", "terminate"}, MonitorAt(pc, NoPatch)
      PROVE  MonitorMoves
  BY <1>1, <1>4, MonitorAtType DEF MonitorMoves, FewerAgents
<1>5. ASSUME NEW agent, MoveTo(agent)
      PROVE  MonitorMoves
  <2>1. CASE Updating(mon.pod)
    <3> DEFINE patch == UpdatePatch(agent)
    <3>1. mon' = [mon EXCEPT !.pc = "update", !.patch = patch]
      BY <1>5, <2>1 DEF MoveTo, MonitorAt
    <3>2. mon'.pc = "update" /\ mon'.patch = patch /\ mon'.pod = mon.pod
          /\ mon'.agents = mon.agents
      <4> HIDE DEF patch
      <4> QED
        BY <1>1, <3>1 DEF Monitors
    <3> QED
      BY <1>1, <2>1, <3>2 DEF MonitorMoves, FewerAgents
  <2>2. CASE ~ Updating(mon.pod)
    BY <1>3, <1>5, <2>2 DEF MoveTo
  <2> QED
    BY <2>1, <2>2
<1>6. CASE CheckEnd \/ ControllerRestart
  <2>1. /\ IdleMonitor.pc = "idle" /\ IdleMonitor.patch = NoPatch
        /\ IdleMonitor.pod \in Pods
        /\ \A p \in Pods : IdleMonitor.agents[p] = NoAgent
    BY PodsAssumption DEF IdleMonitor
  <2>2. /\ mon'.pc = IdleMonitor.pc /\ mon'.patch = IdleMonitor.patch
        /\ mon'.pod = IdleMonitor.pod /\ mon'.agents = IdleMonitor.agents
    BY <1>1, <1>6 DEF CheckEnd, ControllerRestart, Monitors
  <2> QED
    BY <2>1, <2>2 DEF MonitorMoves, FewerAgents
<1>7. CASE MonitorStep
  <2>1. CASE CheckBegin
    <3>1. mon'.pc = "list" /\ mon'.pod = mon.pod /\ mon'.patch = mon.patch
          /\ mon'.agents = mon.agents
      BY <1>1, <2>1 DEF CheckBegin, Monitors
    <3> QED
      BY <1>1, <3>1 DEF MonitorMoves, FewerAgents
  <2>2. CASE ListAgents
    <3>1. mon'.pc = "pick" /\ mon'.pod = mon.pod /\ mon'.patch = mon.patch
          /\ \A p \in Pods : mon'.agents[p] = Cached(p).agent
      BY <1>1, <2>2 DEF ListAgents, Monitors
    <3> QED
      BY <1>1, <3>1 DEF MonitorMoves
  <2>3. ASSUME NEW p \in Pods, ProviderCheckAgent(p)
        PROVE  MonitorMoves
    <3> DEFINE u == UpdatePatch(Transition(Cached(p).agent, "terminating"))
               w == AnnotatePatch(Cached(p), MonInstance(mon.agents[p]).busy)
               dropped == [mon.agents EXCEPT ![p] = NoAgent]
    <3>1. mon.agents[p] # NoAgent
      BY <2>3 DEF ProviderCheckAgent
    <3>2. \A q \in Pods : dropped[q] \in {mon.agents[q], NoAgent}
      BY <1>1
    <3>3. /\ mon'.pod = p /\ mon'.pc \in {"pick", "check", "provider"}
          /\ mon'.agents \in {mon.agents, dropped}
          /\ \/ mon'.patch = NoPatch
             \/ Updating(p) /\ mon'.patch = u
             \/ mon'.patch = w
      BY <1>1, <2>3 DEF ProviderCheckAgent, Monitors
    <3>4. FewerAgents
      <4> HIDE DEF dropped, u, w
      <4> QED
        BY <3>2, <3>3 DEF FewerAgents
    <3>5. /\ \E a : u = UpdatePatch(a)
          /\ \E v, b : w = AnnotatePatch(v, b)
      OBVIOUS
    <3> HIDE DEF dropped, u, w
    <3> QED
      BY <3>1, <3>3, <3>4, <3>5 DEF MonitorMoves
  <2>4. CASE SendProviderPatch \/ NothingToDo \/ RunnerAbsent \/ DeleteRunner \/ SendUpdate
    BY <1>3, <1>4, <2>4
       DEF SendProviderPatch, NothingToDo, RunnerAbsent, DeleteRunner, NotDeleted,
           SendUpdate
  <2>5. CASE BindRunner \/ FollowStatus \/ AgentGone \/ CheckTimeout
    BY <1>5, <2>5 DEF BindRunner, FollowStatus, AgentGone, CheckTimeout
  <2>6. CASE TerminateAgent
    <3>1. CASE NextAgent
      BY <1>3, <3>1
    <3>2. CASE ~ NextAgent
      <4>1. /\ Cached(mon.pod).exists
            /\ \/ Server(mon.pod).exists
                  /\ Write(mon.pod, [Server(mon.pod) EXCEPT !.deleting = TRUE])
               \/ ~ Server(mon.pod).exists /\ UNCHANGED timeline
            /\ MonitorAt("release", NoPatch)
        BY <2>6, <3>2 DEF TerminateAgent
      <4>2. mon'.pod = mon.pod /\ mon'.patch = NoPatch /\ mon'.agents = mon.agents
        BY <1>1, <4>1, MonitorAtType
      <4> QED
        BY <1>1, <2>6, <4>1, <4>2 DEF MonitorMoves, FewerAgents
    <3> QED
      BY <3>1, <3>2
  <2>7. CASE DeleteAgent
    <3>1. CASE NextAgent
      BY <1>3, <3>1
    <3>2. CASE MonitorAt("update", ReleasePatch(Cached(mon.pod)))
      <4> DEFINE patch == ReleasePatch(Cached(mon.pod))
      <4>1. mon.pc = "release"
        BY <2>7 DEF DeleteAgent
      <4>2. \E v : patch = ReleasePatch(v)
        OBVIOUS
      <4>3. mon'.pc = "update" /\ mon'.patch = patch /\ mon'.pod = mon.pod
            /\ mon'.agents = mon.agents
        <5>1. MonitorAt("update", patch)
          BY <3>2
        <5> HIDE DEF patch
        <5> QED
          BY <1>1, <5>1 DEF MonitorAt, Monitors
      <4> HIDE DEF patch
      <4> QED
        BY <1>1, <4>1, <4>2, <4>3 DEF MonitorMoves, FewerAgents
    <3> QED
      BY <2>7, <3>1, <3>2 DEF DeleteAgent
  <2> QED
    BY <1>7, <1>6, <2>1, <2>2, <2>3, <2>4, <2>5, <2>6, <2>7 DEF MonitorStep
<1>8. ASSUME ~ MonitorStep, ~ ControllerRestart
      PROVE  UNCHANGED mon
  BY <1>8, HandlerTypes, ManagerTypes, PodStepTypes, RunnerTypes
     DEF Next, ManagerStep
<1> QED
  BY <1>2, <1>6, <1>7, <1>8

(* What a handler has in hand: its request runs, is over, or has just been  *)
(* taken; a request beyond its first patch has had it applied.              *)
RequestMoves(h) ==
  \/ /\ req'[h].pod = req[h].pod /\ req'[h].pc = req[h].pc
     /\ req'[h].patch = req[h].patch
  \/ req'[h].pc = "idle" /\ req'[h].patch = NoPatch
  \/ /\ req[h].pc = "register" /\ PatchApplied(req[h].pod, req[h].patch)
     /\ req'[h].pc = "annotate" /\ req'[h].pod = req[h].pod
     /\ \E v : req'[h].patch = AnnotatePatch(v, FALSE)
  \/ \E p \in Pods :
       /\ req'[h].pod = p /\ req'[h].pc = "register"
       /\ Authenticated(p) /\ Unregistered(p)
       /\ \E a : a # NoAgent /\ req'[h].patch = RegisterPatch(Cached(p), a)
  \/ \E p \in Pods :
       /\ req'[h].pod = p /\ req'[h].pc = "terminate"
       /\ Cached(p).agent # NoAgent /\ \E a : req'[h].patch = UpdatePatch(a)

LEMMA RequestsMove ==
  ASSUME TypeOK, Next
  PROVE  \A h \in Handlers : RequestMoves(h)
<1> SUFFICES ASSUME NEW h \in Handlers
             PROVE  RequestMoves(h)
  OBVIOUS
<1>1. req \in [Handlers -> Requests]
  BY DEF TypeOK
<1>2. ASSUME req'[h] = req[h]
      PROVE  RequestMoves(h)
  BY <1>2 DEF RequestMoves
<1>3. ASSUME req'[h] = IdleRequest
      PROVE  RequestMoves(h)
  BY <1>3 DEF RequestMoves, IdleRequest
<1>4. ASSUME NEW g \in Handlers, Finish(g)
      PROVE  RequestMoves(h)
  BY <1>1, <1>2, <1>3, <1>4 DEF Finish
<1>5. ASSUME NEW g \in Handlers, Register(g)
      PROVE  RequestMoves(h)
  <2> DEFINE r == [req[g] EXCEPT !.pc = "annotate", !.copy = AbsentPod(0),
                                 !.patch = AnnotatePatch(req[g].copy, FALSE)]
  <2>1. /\ r.pc = "annotate" /\ r.pod = req[g].pod
        /\ \E v : r.patch = AnnotatePatch(v, FALSE)
    BY <1>1 DEF Requests
  <2>2. \/ Finish(g)
        \/ /\ req[g].pc = "register" /\ PatchApplied(req[g].pod, req[g].patch)
           /\ req' = [req EXCEPT ![g] = r]
    BY <1>5 DEF Register
  <2> HIDE DEF r
  <2> QED
    BY <1>1, <1>2, <1>4, <2>1, <2>2 DEF RequestMoves
<1>6. ASSUME NEW g \in Handlers, AnnotateNew(g) \/ FinishDelete(g)
      PROVE  RequestMoves(h)
  BY <1>4, <1>6 DEF AnnotateNew, FinishDelete
<1>7. ASSUME NEW g \in Handlers, GiveUp(g)
      PROVE  RequestMoves(h)
  <2> DEFINE r == [req[g] EXCEPT !.heard = FALSE]
  <2>1. r.pc = req[g].pc /\ r.pod = req[g].pod /\ r.patch = req[g].patch
    BY <1>1 DEF Requests
  <2>2. req' = [req EXCEPT ![g] = r]
    BY <1>7 DEF GiveUp
  <2> HIDE DEF r
  <2> QED
    BY <1>1, <1>2, <2>1, <2>2 DEF RequestMoves
<1>8. ASSUME NEW g \in Handlers, NEW p \in Pods, PostAgent(g, p)
      PROVE  RequestMoves(h)
  <2> DEFINE a == [name |-> <<p, Cached(p).uid>>, state |-> "configuring",
                   rid |-> 0, late |-> FALSE]
             patch == RegisterPatch(Cached(p), a)
  <2>1. \E b : b # NoAgent /\ patch = RegisterPatch(Cached(p), b)
    BY DEF NoAgent
  <2>2. /\ Authenticated(p) /\ Unregistered(p)
        /\ req' = [req EXCEPT ![g] =
             [pc |-> "register", pod |-> p, copy |-> Cached(p), heard |-> TRUE,
              patch |-> patch]]
    BY <1>8 DEF PostAgent
  <2> HIDE DEF patch
  <2> QED
    BY <1>1, <1>2, <2>1, <2>2 DEF RequestMoves
<1>9. ASSUME NEW g \in Handlers, NEW p \in Pods, DeleteRequest(g, p)
      PROVE  RequestMoves(h)
  <2> DEFINE patch == UpdatePatch(Transition(Cached(p).agent, "terminating"))
  <2>1. \E b : patch = UpdatePatch(b)
    OBVIOUS
  <2>2. \/ UNCHANGED req
        \/ /\ Cached(p).agent # NoAgent
           /\ req' = [req EXCEPT ![g] =
                [pc |-> "terminate", pod |-> p, copy |-> AbsentPod(0), heard |-> TRUE,
                 patch |-> patch]]
    BY <1>9 DEF DeleteRequest
  <2> HIDE DEF patch
  <2>3. CASE UNCHANGED req \/ h # g
    BY <1>1, <1>2, <2>2, <2>3
  <2>4. CASE h = g /\ ~ UNCHANGED req
    <3>1. /\ Cached(p).agent # NoAgent
          /\ req'[h].pod = p /\ req'[h].pc = "terminate" /\ req'[h].patch = patch
      BY <1>1, <2>2, <2>4
    <3> QED
      BY <2>1, <3>1 DEF RequestMoves
  <2> QED
    BY <2>3, <2>4
<1>10. CASE ControllerRestart
  BY <1>3, <1>10 DEF ControllerRestart
<1>11. ASSUME MonitorStep
       PROVE  RequestMoves(h)
  BY <1>2, <1>11, MonitorTypes
<1>12. ASSUME ManagerStep
       PROVE  RequestMoves(h)
  BY <1>2, <1>12, ManagerTypes
<1>13. ASSUME NEW p \in Pods,
              \/ Deliver(p) \/ CreatePod(p) \/ EvictPod(p) \/ ForeignRelease(p)
              \/ RemovePod(p) \/ Expire(p)
       PROVE  RequestMoves(h)
  BY <1>2, <1>13, PodStepTypes
<1>14. ASSUME NEW p \in Pods,
              \/ ConfigureRunner(p) \/ ProcessHalts(p) \/ Interrupt(p) \/ KillProcess(p)
              \/ \E id \in RunnerIds : RunnerStep(p, id)
       PROVE  RequestMoves(h)
  BY <1>2, <1>14, RunnerTypes
<1> QED
  BY <1>5, <1>6, <1>7, <1>8, <1>9, <1>10, <1>11, <1>12, <1>13, <1>14
     DEF Next, HandlerStep, ManagerStep

-------------------------------------------------------------------------------
(* The finalizer *)

(* A pod that is being deleted, or was the last of its name, stays so; and  *)
(* once there was a pod there always has been.                              *)
LEMMA DoomStays ==
  ASSUME TypeOK, TypeOK', ReleasedLast, MaxUid = 1, Next, NEW p \in Pods
  PROVE  /\ Server(p).uid # 0 => Server(p)'.uid # 0
         /\ Doomed(p) => Doomed(p)'
         /\ Over(p) => Over(p)'
         /\ (Server(p).deleting \/ Server(p).finalizers # <<>> => Server(p).exists)'
<1>1. /\ Server(p) \in Versions /\ Server(p)' \in Versions
      /\ Server(p).exists => Server(p).uid # 0
  BY PodTypes, ServerTypeNext DEF TypeOK, Versions
<1>2. Server(p).deleting \/ Server(p).finalizers # <<>> => Server(p).exists
  BY DEF ReleasedLast
<1>3. CASE Like(Server(p)', Server(p))
  BY <1>2, <1>3 DEF Like, Doomed, Over
<1>4. CASE CreatePod(p) /\ Server(p)' = FreshPod(Server(p).uid + 1, PodFinalizers)
  <2>1. Server(p).uid = 0 /\ ~ Server(p).exists
    BY <1>1, <1>4 DEF CreatePod, Versions
  <2>2. Server(p)'.uid = Server(p).uid + 1 /\ Server(p)'.exists
    BY <1>4 DEF FreshPod
  <2> QED
    BY <1>2, <2>1, <2>2 DEF Doomed, Over
<1>5. CASE \E patch : /\ Applies(patch, Server(p))
                      /\ Server(p)' = Patched(patch, Server(p))
  <2>1. Server(p).exists
    BY <1>5 DEF Applies
  <2>2. /\ Server(p)'.exists = Server(p).exists /\ Server(p)'.uid = Server(p).uid
        /\ Server(p)'.deleting = Server(p).deleting
    BY <1>1, <1>5 DEF Patched, Versions
  <2> QED
    BY <1>2, <2>1, <2>2 DEF Doomed, Over
<1>6. CASE Server(p).exists /\ Server(p)' = [Server(p) EXCEPT !.deleting = TRUE]
  <2>1. /\ Server(p)'.exists = Server(p).exists /\ Server(p)'.uid = Server(p).uid
        /\ Server(p)'.deleting
    BY <1>1, <1>6 DEF Versions
  <2> QED
    BY <1>1, <1>6, <2>1 DEF Doomed, Over
<1>7. ASSUME NEW f, Server(p).deleting,
             Server(p)' = [Server(p) EXCEPT !.finalizers = f]
      PROVE  /\ Server(p)'.exists = Server(p).exists
             /\ Server(p)'.uid = Server(p).uid
             /\ Server(p)'.deleting = Server(p).deleting
  BY <1>1, <1>7 DEF Versions
<1>8. CASE /\ Server(p).deleting
           /\ \E f : Server(p)' = [Server(p) EXCEPT !.finalizers = f]
  BY <1>1, <1>2, <1>7, <1>8 DEF Doomed, Over
<1>9. CASE /\ Server(p).deleting /\ Server(p).finalizers = <<>>
           /\ Server(p)' = AbsentPod(Server(p).uid)
  <2>1. /\ Server(p)'.uid = Server(p).uid /\ ~ Server(p)'.exists
        /\ ~ Server(p)'.deleting /\ Server(p)'.finalizers = <<>>
    BY <1>9 DEF AbsentPod
  <2> QED
    BY <1>1, <1>2, <1>9, <2>1 DEF Doomed, Over
<1>10. ServerMoves(p)
  BY PodsMove
<1> QED
  BY <1>3, <1>4, <1>5, <1>6, <1>8, <1>9, <1>10 DEF ServerMoves, Change

LEMMA ReleasedLastStep ==
  ASSUME TypeOK, TypeOK', ReleasedLast, MaxUid = 1, [Next]_vars
  PROVE  ReleasedLast'
<1>1. CASE UNCHANGED vars
  BY <1>1 DEF vars, ReleasedLast, Server, Doomed, Over
<1>2. CASE Next
  <2>1. \A p \in Pods :
          (Server(p).deleting \/ Server(p).finalizers # <<>> => Server(p).exists)'
    BY <1>2, DoomStays
  <2>2. ASSUME NEW p \in Pods, NEW k \in DOMAIN timeline'[p], timeline'[p][k].exists
        PROVE  Server(p)'.uid # 0
    <3>1. Server(p)' \in Versions
      BY ServerTypeNext
    <3>2. Server(p).uid # 0 => Server(p)'.uid # 0
      BY <1>2, DoomStays
    <3>3. HistoryMoves(p)
      BY <1>2, PodsMove
    <3> QED
      BY <2>2, <3>1, <3>2, <3>3 DEF HistoryMoves, Like, Blank, ReleasedLast, Versions
  <2>3. (mon.pc = "release" \/ mon.patch.fin = "remove" => Doomed(mon.pod))'
    <3>1. MonitorMoves /\ mon.pod \in Pods
      BY <1>2, MonitorDoesMove DEF TypeOK, Monitors
    <3>2. Doomed(mon.pod) => Doomed(mon.pod)' \/ mon'.pod # mon.pod
      <4>1. ASSUME NEW p \in Pods, Doomed(p)
            PROVE  Doomed(p)'
        BY <1>2, <4>1, DoomStays
      <4> QED
        BY <3>1, <4>1 DEF Doomed, Over, Server
    <3>3. mon.pc = "release" \/ mon.patch.fin = "remove" => Doomed(mon.pod)
      BY DEF ReleasedLast
    <3>4. ASSUME TerminateAgent, Cached(mon.pod).exists, mon'.pod = mon.pod,
                 \/ /\ Server(mon.pod).exists
                    /\ Write(mon.pod, [Server(mon.pod) EXCEPT !.deleting = TRUE])
                 \/ ~ Server(mon.pod).exists /\ UNCHANGED timeline
          PROVE  Doomed(mon.pod)'
      <4>1. CASE /\ Server(mon.pod).exists
                 /\ Write(mon.pod, [Server(mon.pod) EXCEPT !.deleting = TRUE])
        <5> DEFINE new == [Server(mon.pod) EXCEPT !.deleting = TRUE]
        <5>1. new \in Versions /\ new.deleting
          <6>1. Server(mon.pod) \in Versions
            BY <3>1, PodTypes DEF TypeOK
          <6> QED
            BY <6>1, VersionTypes DEF Versions
        <5>2. Last(timeline'[mon.pod]) = new
          <6> HIDE DEF new
          <6> QED
            BY <3>1, <4>1, <5>1, WrittenLast DEF new
        <5> QED
          BY <3>4, <5>1, <5>2 DEF Doomed, Server
      <4>2. CASE ~ Server(mon.pod).exists /\ UNCHANGED timeline
        <5>1. 1 \in DOMAIN timeline[mon.pod] /\ timeline[mon.pod][1].exists
          BY <3>1, <3>4, PodTypes DEF TypeOK
        <5>2. Server(mon.pod).uid # 0
          BY <3>1, <5>1 DEF ReleasedLast
        <5> QED
          BY <3>4, <4>2, <5>2 DEF Doomed, Over, Server
      <4> QED
        BY <3>4, <4>1, <4>2
    <3> QED
      BY <3>1, <3>2, <3>3, <3>4, PatchFins DEF MonitorMoves
  <2>4. \A h \in Handlers : req'[h].patch.fin # "remove"
    <3> SUFFICES ASSUME NEW h \in Handlers
                 PROVE  req'[h].patch.fin # "remove"
      OBVIOUS
    <3>1. RequestMoves(h) /\ req[h].patch.fin # "remove"
      BY <1>2, RequestsMove DEF ReleasedLast
    <3>2. \/ req'[h].patch \in {req[h].patch, NoPatch}
          \/ \E v, b : req'[h].patch = AnnotatePatch(v, b)
          \/ \E v, a : req'[h].patch = RegisterPatch(v, a)
          \/ \E a : req'[h].patch = UpdatePatch(a)
      BY <3>1 DEF RequestMoves
    <3> QED
      BY <3>1, <3>2, PatchFins
  <2> QED
    BY <2>1, <2>2, <2>3, <2>4 DEF ReleasedLast
<1> QED
  BY <1>1, <1>2

LEMMA ReleasedLastInit ==
  ASSUME Init
  PROVE  ReleasedLast
<1> DEFINE absent == AbsentPod(0)
<1>1. ~ absent.exists /\ ~ absent.deleting /\ absent.finalizers = <<>>
  BY DEF AbsentPod
<1>2. \A p \in Pods : timeline[p] = <<absent>>
  BY DEF Init
<1> HIDE DEF absent
<1>3. \A p \in Pods : /\ Server(p) = absent
                     /\ \A k \in DOMAIN timeline[p] : timeline[p][k] = absent
  BY <1>2 DEF Server, Last
<1>4. mon.pc = "idle" /\ mon.patch.fin = "keep"
  BY DEF Init, IdleMonitor, NoPatch
<1>5. \A h \in Handlers : req[h].patch.fin = "keep"
  BY DEF Init, IdleRequest, NoPatch
<1> QED
  BY <1>1, <1>3, <1>4, <1>5 DEF ReleasedLast

(* DeleteAgent takes the finalizer off a pod that the monitor has deleted   *)
(* before, in every reachable state (monitor.go:209-221).                   *)
THEOREM ReleasedLastCorrect ==
  ASSUME MaxUid = 1
  PROVE  Spec => []ReleasedLast
<1>1. Init => ReleasedLast
  BY ReleasedLastInit
<1>2. TypeOK /\ TypeOK' /\ ReleasedLast /\ [Next]_vars => ReleasedLast'
  BY ReleasedLastStep
<1> QED
  BY <1>1, <1>2, TypeCorrect, PTL DEF Spec

(* What a list has after an entry is put at its end. *)
LEMMA AppendedOwn ==
  ASSUME NEW S, NEW f \in Seq(S), NEW e
  PROVE  /\ e \in ToSet(Append(f, e))
         /\ \A x : x \in ToSet(f) => x \in ToSet(Append(f, e))
<1>1. /\ Append(f, e) \in Seq(S \cup {e})
      /\ Len(Append(f, e)) = Len(f) + 1 /\ Len(f) \in Nat
      /\ Append(f, e)[Len(f) + 1] = e
      /\ \A k \in 1..Len(f) : Append(f, e)[k] = f[k]
      /\ DOMAIN f = 1..Len(f) /\ DOMAIN Append(f, e) = 1..(Len(f) + 1)
  OBVIOUS
<1>2. e \in ToSet(Append(f, e))
  BY <1>1 DEF ToSet
<1>3. ASSUME NEW x \in ToSet(f)
      PROVE  x \in ToSet(Append(f, e))
  <2>1. PICK k \in DOMAIN f : f[k] = x
    BY <1>3 DEF ToSet
  <2> QED
    BY <1>1, <2>1 DEF ToSet
<1> QED
  BY <1>2, <1>3

LEMMA HeldStep ==
  ASSUME TypeOK, ReleasedLast, Next, NEW p \in Pods,
         Own \in ToSet(Server(p).finalizers), Own \notin ToSet(Server(p)'.finalizers)
  PROVE  Server(p).deleting
<1>1. Server(p) \in Versions /\ Server(p).finalizers \in Seq({Own, Foreign})
  BY PodTypes, VersionTypes DEF TypeOK
<1>2. Server(p).finalizers # <<>> /\ Server(p).exists
  BY DEF ToSet, ReleasedLast
<1>3. ~ Like(Server(p)', Server(p))
  BY DEF Like
<1>4. ASSUME NEW patch \in Patches, Sender(p, patch), Applies(patch, Server(p)),
             Server(p)' = Patched(patch, Server(p))
      PROVE  Server(p).deleting
  <2>1. Server(p)'.finalizers = PatchedFinalizers(patch, Server(p).finalizers)
    BY <1>1, <1>4 DEF Patched, Versions
  <2>2. patch.fin # "keep"
    BY <2>1 DEF PatchedFinalizers
  <2>3. patch.fin \notin {"create", "append"}
    <3>1. ASSUME patch.fin \in {"create", "append"}
          PROVE  FALSE
      <4>1. Server(p)'.finalizers = Append(Server(p).finalizers, Own)
        BY <2>1, <3>1 DEF PatchedFinalizers
      <4> QED
        BY <1>1, <4>1, AppendedOwn
    <3> QED
      BY <3>1
  <2>4. patch.fin = "remove"
    BY <2>2, <2>3 DEF Patches
  <2>5. mon.pod = p /\ mon.patch.fin = "remove"
    BY <1>4, <2>4 DEF Sender, ReleasedLast
  <2> QED
    BY <1>2, <2>5 DEF ReleasedLast, Doomed, Over
<1>5. Server(p)' # [Server(p) EXCEPT !.deleting = TRUE]
  <2>1. [Server(p) EXCEPT !.deleting = TRUE].finalizers = Server(p).finalizers
    BY <1>1 DEF Versions
  <2> QED
    BY <2>1
<1>6. ~ CreatePod(p)
  BY <1>2 DEF CreatePod
<1>7. ServerMoves(p)
  BY PodsMove
<1> QED
  BY <1>3, <1>4, <1>5, <1>6, <1>7 DEF ServerMoves, Change

(* The controller's finalizer comes off a pod only once the pod is being    *)
(* deleted, however far behind the cache is and whichever calls fail        *)
(* (controller_state.go:134-153), if pod names are not used again.          *)
THEOREM FinalizerHeldCorrect ==
  ASSUME MaxUid = 1
  PROVE  Spec => FinalizerHeld
<1>1. TypeOK /\ ReleasedLast /\ [Next]_vars =>
        [\A p \in Pods :
           Own \in ToSet(Server(p).finalizers) /\ Own \notin ToSet(Server(p)'.finalizers)
           => Server(p).deleting]_vars
  BY HeldStep
<1> QED
  BY <1>1, TypeCorrect, ReleasedLastCorrect, PTL DEF Spec, FinalizerHeld

-------------------------------------------------------------------------------
(* The registration *)

(* A pod that has been registered is never without its agent again.         *)
LEMMA TakenStays ==
  ASSUME TypeOK, TypeOK', ReleasedLast, RegisteredOnce, MaxUid = 1, Next,
         NEW p \in Pods, Taken(p)
  PROVE  Taken(p)'
<1>1. CASE Over(p)
  BY <1>1, DoomStays DEF Taken
<1>2. CASE Server(p).agent # NoAgent
  <2>1. Server(p) \in Versions /\ Server(p).exists
    BY <1>2, PodTypes DEF TypeOK, RegisteredOnce
  <2>2. CASE Like(Server(p)', Server(p))
    BY <1>2, <2>2 DEF Like, Taken
  <2>3. CASE \E patch : Server(p)' = Patched(patch, Server(p))
    <3>1. Server(p)'.agent # NoAgent
      BY <1>2, <2>1, <2>3 DEF Patched, Versions
    <3> QED
      BY <3>1 DEF Taken
  <2>4. CASE \/ Server(p)' = [Server(p) EXCEPT !.deleting = TRUE]
             \/ \E f : Server(p)' = [Server(p) EXCEPT !.finalizers = f]
    <3>1. Server(p)'.agent = Server(p).agent
      BY <2>1, <2>4 DEF Versions
    <3> QED
      BY <1>2, <3>1 DEF Taken
  <2>5. CASE Server(p)' = AbsentPod(Server(p).uid)
    <3>1. Server(p)'.uid = Server(p).uid /\ ~ Server(p)'.exists
      BY <2>5 DEF AbsentPod
    <3>2. Server(p).uid # 0
      BY <2>1 DEF Versions
    <3> QED
      BY <3>1, <3>2 DEF Taken, Over
  <2>6. ~ CreatePod(p)
    BY <2>1 DEF CreatePod
  <2>7. ServerMoves(p)
    BY PodsMove
  <2> QED
    BY <2>2, <2>3, <2>4, <2>5, <2>6, <2>7 DEF ServerMoves, Change
<1> QED
  BY <1>1, <1>2 DEF Taken

(* Who may write to a pod without an agent: a registration.                 *)
LEMMA OnlyRegistrations ==
  ASSUME TypeOK, RegisteredOnce, NEW p \in Pods, NEW patch \in Patches,
         Sender(p, patch), Applies(patch, Server(p)), Server(p).agent = NoAgent
  PROVE  \/ patch.fin \in {"keep", "remove"} /\ patch.agent = NoAgent
         \/ patch.fin = "create" /\ patch.agent # NoAgent
<1>1. ~ Taken(p)
  BY DEF Taken, Over, Applies
<1>2. CASE mon.pod = p /\ mon.patch = patch
  BY <1>1, <1>2 DEF RegisteredOnce, Patches
<1>3. ASSUME NEW h \in Handlers, req[h].pod = p, req[h].patch = patch, HandlerStep(h)
      PROVE  patch.fin = "create" /\ patch.agent # NoAgent
  <2>1. req[h].pc \in {"register", "annotate", "terminate"}
    BY <1>3 DEF HandlerStep, Register, AnnotateNew, FinishDelete
  <2> QED
    BY <1>1, <1>3, <2>1 DEF RegisteredOnce
<1> QED
  BY <1>2, <1>3 DEF Sender

(* The pod the API server holds after a step: it is registered and has the  *)
(* finalizer, or neither, unless it is being deleted.                       *)
LEMMA ServerRegistered ==
  ASSUME TypeOK, TypeOK', ReleasedLast, RegisteredOnce, MaxUid = 1,
         PodFinalizers = <<>>, Next, NEW p \in Pods
  PROVE  /\ (Server(p).agent = NoAgent => Server(p).finalizers = <<>>)'
         /\ (Server(p).agent # NoAgent
               => /\ Server(p).exists
                  /\ Own \in ToSet(Server(p).finalizers) \/ Server(p).deleting)'
<1>1. /\ Server(p) \in Versions /\ Server(p).finalizers \in Seq({Own, Foreign})
  BY PodTypes, VersionTypes DEF TypeOK
<1>2. /\ Server(p).agent = NoAgent => Server(p).finalizers = <<>>
      /\ Server(p).agent # NoAgent
           => /\ Server(p).exists
              /\ Own \in ToSet(Server(p).finalizers) \/ Server(p).deleting
      /\ Server(p).deleting => Server(p).exists
  <2>1. Len(timeline[p]) \in DOMAIN timeline[p] /\ Server(p) = timeline[p][Len(timeline[p])]
    BY PodTypes DEF TypeOK
  <2> QED
    BY <2>1 DEF RegisteredOnce, ReleasedLast
<1>3. CASE Like(Server(p)', Server(p))
  BY <1>2, <1>3 DEF Like
<1>4. ASSUME NEW patch \in Patches, Sender(p, patch), Applies(patch, Server(p)),
             Server(p)' = Patched(patch, Server(p))
      PROVE  /\ (Server(p).agent = NoAgent => Server(p).finalizers = <<>>)'
             /\ (Server(p).agent # NoAgent
                   => /\ Server(p).exists
                      /\ Own \in ToSet(Server(p).finalizers) \/ Server(p).deleting)'
  <2>1. /\ Server(p).exists /\ Server(p)'.exists = Server(p).exists
        /\ Server(p)'.deleting = Server(p).deleting
        /\ Server(p)'.finalizers = PatchedFinalizers(patch, Server(p).finalizers)
        /\ Server(p)'.agent = IF patch.agent = NoAgent THEN Server(p).agent
                              ELSE patch.agent
    BY <1>1, <1>4 DEF Patched, Versions, Applies
  <2>2. CASE Server(p).agent # NoAgent
    <3>1. Server(p)'.agent # NoAgent
      BY <2>1, <2>2
    <3>2. Own \in ToSet(Server(p)'.finalizers) \/ Server(p).deleting
      BY <1>2, <2>2, HeldStep
    <3> QED
      BY <2>1, <3>1, <3>2
  <2>3. CASE Server(p).agent = NoAgent
    <3>1. Server(p).finalizers = <<>>
      BY <1>2, <2>3
    <3>2. patch.fin # "remove"
      BY <1>4, <3>1 DEF Applies
    <3>3. CASE patch.fin = "keep" /\ patch.agent = NoAgent
      BY <2>1, <2>3, <3>1, <3>3 DEF PatchedFinalizers
    <3>4. CASE patch.fin = "create" /\ patch.agent # NoAgent
      <4>1. Own \in ToSet(Server(p)'.finalizers)
        <5>1. Server(p)'.finalizers = Append(Server(p).finalizers, Own)
          BY <2>1, <3>4 DEF PatchedFinalizers
        <5> QED
          BY <1>1, <5>1, AppendedOwn
      <4> QED
        BY <2>1, <3>4, <4>1
    <3> QED
      BY <1>4, <2>3, <3>2, <3>3, <3>4, OnlyRegistrations
  <2> QED
    BY <2>2, <2>3
<1>5. CASE Server(p).exists /\ Server(p)' = [Server(p) EXCEPT !.deleting = TRUE]
  <2>1. /\ Server(p)'.deleting /\ Server(p)'.exists
        /\ Server(p)'.agent = Server(p).agent
        /\ Server(p)'.finalizers = Server(p).finalizers
    BY <1>1, <1>5 DEF Versions
  <2> QED
    BY <1>2, <2>1
<1>6. CASE \/ Server(p)' = FreshPod(Server(p).uid + 1, PodFinalizers)
           \/ Server(p)' = AbsentPod(Server(p).uid)
  <2>1. Server(p)'.agent = NoAgent /\ Server(p)'.finalizers = <<>>
    BY <1>6 DEF FreshPod, AbsentPod
  <2> QED
    BY <2>1
<1>7. ASSUME NEW i \in DOMAIN Server(p).finalizers, Server(p).deleting,
             Server(p)' = [Server(p) EXCEPT !.finalizers = RemoveAt(@, i)]
      PROVE  /\ (Server(p).agent = NoAgent => Server(p).finalizers = <<>>)'
             /\ (Server(p).agent # NoAgent
                   => /\ Server(p).exists
                      /\ Own \in ToSet(Server(p).finalizers) \/ Server(p).deleting)'
  <2>1. /\ Server(p)'.deleting = Server(p).deleting
        /\ Server(p)'.exists = Server(p).exists
        /\ Server(p)'.agent = Server(p).agent
    BY <1>1, <1>7 DEF Versions
  <2>2. Server(p).finalizers # <<>>
    BY <1>7
  <2> QED
    BY <1>2, <1>7, <2>1, <2>2
<1>8. ServerMoves(p)
  BY PodsMove
<1> QED
  BY <1>3, <1>4, <1>5, <1>6, <1>7, <1>8 DEF ServerMoves, Change

LEMMA RegisteredOnceStep ==
  ASSUME TypeOK, TypeOK', ReleasedLast, RegisteredOnce, MaxUid = 1,
         PodFinalizers = <<>>, [Next]_vars
  PROVE  RegisteredOnce'
<1>1. CASE UNCHANGED vars
  BY <1>1 DEF vars, RegisteredOnce, Server, Taken, Over
<1>2. CASE Next
  <2>1. ASSUME NEW p \in Pods, Taken(p)
        PROVE  Taken(p)'
    BY <1>2, <2>1, TakenStays
  <2>2. ASSUME NEW p \in Pods, Cached(p).agent # NoAgent
        PROVE  Taken(p)
    <3>1. 1 \in DOMAIN timeline[p] /\ Cached(p) = timeline[p][1]
      BY PodTypes DEF TypeOK
    <3> QED
      BY <2>2, <3>1 DEF RegisteredOnce
  <2>3. ASSUME NEW p \in Pods, NEW k \in DOMAIN timeline'[p]
        PROVE  IF timeline'[p][k].agent = NoAgent THEN timeline'[p][k].finalizers = <<>>
               ELSE Taken(p)'
    <3>1. HistoryMoves(p)
      BY <1>2, PodsMove
    <3>2. CASE Like(timeline'[p][k], Server(p)')
      <4>1. (Server(p).agent = NoAgent => Server(p).finalizers = <<>>)'
        BY <1>2, ServerRegistered
      <4> QED
        BY <3>2, <4>1 DEF Like, Taken
    <3>3. ASSUME NEW j \in DOMAIN timeline[p], Like(timeline'[p][k], timeline[p][j])
          PROVE  IF timeline'[p][k].agent = NoAgent
                   THEN timeline'[p][k].finalizers = <<>> ELSE Taken(p)'
      BY <2>1, <3>3 DEF Like, RegisteredOnce
    <3>4. CASE Blank(timeline'[p][k])
      BY <3>4 DEF Blank
    <3> QED
      BY <3>1, <3>2, <3>3, <3>4 DEF HistoryMoves
  <2>4. ASSUME NEW p \in Pods
        PROVE  (Server(p).agent # NoAgent
                 => /\ Server(p).exists
                    /\ Own \in ToSet(Server(p).finalizers) \/ Server(p).deleting)'
    BY <1>2, ServerRegistered
  <2>5. MonitorMoves /\ mon.pod \in Pods
    BY <1>2, MonitorDoesMove DEF TypeOK, Monitors
  <2>6. ASSUME NEW p \in Pods, mon'.agents[p] # NoAgent
        PROVE  Taken(p)'
    BY <2>1, <2>2, <2>5, <2>6 DEF MonitorMoves, FewerAgents, RegisteredOnce
  <2>7. ASSUME mon'.patch.fin \in {"create", "append"} \/ mon'.patch.agent # NoAgent
        PROVE  Taken(mon'.pod) /\ mon'.pod \in Pods
    <3>1. mon'.pod \in Pods
      BY <2>5 DEF MonitorMoves
    <3>2. ~ (mon'.patch = NoPatch \/ \E v : mon'.patch = ReleasePatch(v))
      BY <2>7, PatchFins
    <3>3. CASE mon'.pod = mon.pod /\ mon'.patch = mon.patch
      BY <2>7, <3>1, <3>3 DEF RegisteredOnce
    <3>4. CASE Updating(mon'.pod)
      BY <2>2, <3>1, <3>4 DEF Updating
    <3>5. CASE mon.agents[mon'.pod] # NoAgent
      BY <3>1, <3>5 DEF RegisteredOnce
    <3> QED
      BY <2>5, <3>1, <3>2, <3>3, <3>4, <3>5 DEF MonitorMoves
  <2>8. (mon.patch.fin \in {"create", "append"} \/ mon.patch.agent # NoAgent
          => Taken(mon.pod))'
    <3>1. \A p \in Pods : Taken(p) => Taken(p)'
      BY <2>1
    <3> QED
      BY <2>7, <3>1 DEF Taken, Over, Server
  <2>9. ASSUME NEW h \in Handlers
        PROVE  /\ req'[h].pc = "register" => /\ req'[h].patch.fin = "create"
                                             /\ req'[h].patch.agent # NoAgent
               /\ (req[h].pc \in {"annotate", "terminate"} => Taken(req[h].pod))'
    <3>1. RequestMoves(h) /\ req[h] \in Requests /\ req[h].pod \in Pods
          /\ req[h].patch \in Patches
      BY <1>2, RequestsMove DEF TypeOK, Requests
    <3>2. /\ req[h].pc = "register" => /\ req[h].patch.fin = "create"
                                       /\ req[h].patch.agent # NoAgent
          /\ req[h].pc \in {"annotate", "terminate"} => Taken(req[h].pod)
      BY DEF RegisteredOnce
    <3>3. ASSUME NEW p \in Pods, Taken(p) \/ Taken(p)', req'[h].pod = p
          PROVE  Taken(req[h].pod)'
      <4>1. Taken(p)'
        BY <2>1, <3>3
      <4> QED
        BY <3>3, <4>1 DEF Taken, Over, Server
    <3>4. CASE /\ req'[h].pod = req[h].pod /\ req'[h].pc = req[h].pc
               /\ req'[h].patch = req[h].patch
      BY <3>1, <3>2, <3>3, <3>4
    <3>5. CASE req'[h].pc = "idle"
      BY <3>5
    <3>6. CASE /\ req[h].pc = "register" /\ PatchApplied(req[h].pod, req[h].patch)
               /\ req'[h].pc = "annotate" /\ req'[h].pod = req[h].pod
      <4> DEFINE p == req[h].pod
                 new == Patched(req[h].patch, Server(p))
      <4>1. Server(p) \in Versions /\ Applies(req[h].patch, Server(p)) /\ Write(p, new)
        BY <3>1, <3>6, PodTypes DEF PatchApplied, TypeOK
      <4>2. new \in Versions /\ new.agent = req[h].patch.agent
        <5>1. new \in Versions
          BY <3>1, <4>1, PatchedType
        <5>2. req[h].patch.agent # NoAgent
          BY <3>2, <3>6
        <5> QED
          BY <4>1, <5>1, <5>2 DEF Patched, Versions
      <4> HIDE DEF new
      <4>3. Last(timeline'[p]) = new
        BY <3>1, <4>1, <4>2, WrittenLast
      <4>4. Last(timeline'[p]).agent # NoAgent
        BY <3>2, <3>6, <4>2, <4>3
      <4> QED
        BY <3>6, <4>4 DEF Taken, Server
    <3>7. ASSUME NEW p \in Pods, req'[h].pod = p, req'[h].pc = "register",
                 Unregistered(p),
                 \E a : a # NoAgent /\ req'[h].patch = RegisterPatch(Cached(p), a)
          PROVE  req'[h].patch.fin = "create" /\ req'[h].patch.agent # NoAgent
      <4>1. req'[h].patch.fin = AddFinalizerPatch(Cached(p)) /\ req'[h].patch.agent # NoAgent
        BY <3>7, PatchFins
      <4>2. 1 \in DOMAIN timeline[p] /\ Cached(p) = timeline[p][1]
        BY PodTypes DEF TypeOK
      <4>3. Cached(p).finalizers = <<>>
        BY <3>7, <4>2 DEF RegisteredOnce, Unregistered
      <4> QED
        BY <4>1, <4>3 DEF AddFinalizerPatch, ToSet
    <3>8. ASSUME NEW p \in Pods, req'[h].pod = p, req'[h].pc = "terminate",
                 Cached(p).agent # NoAgent
          PROVE  Taken(req[h].pod)'
      BY <2>2, <3>3, <3>8
    <3> QED
      BY <3>1, <3>4, <3>5, <3>6, <3>7, <3>8 DEF RequestMoves
  <2> QED
    BY <2>3, <2>4, <2>6, <2>8, <2>9 DEF RegisteredOnce
<1> QED
  BY <1>1, <1>2

LEMMA RegisteredOnceInit ==
  ASSUME Init
  PROVE  RegisteredOnce
<1> DEFINE absent == AbsentPod(0)
<1>1. absent.agent = NoAgent /\ absent.finalizers = <<>>
  BY DEF AbsentPod
<1>2. \A p \in Pods : timeline[p] = <<absent>>
  BY DEF Init
<1> HIDE DEF absent
<1>3. \A p \in Pods : /\ Server(p) = absent
                     /\ \A k \in DOMAIN timeline[p] : timeline[p][k] = absent
  BY <1>2 DEF Server, Last
<1>4. /\ mon.patch.fin = "keep" /\ mon.patch.agent = NoAgent
      /\ \A p \in Pods : mon.agents[p] = NoAgent
  BY DEF Init, IdleMonitor, NoPatch
<1>5. \A h \in Handlers : req[h].pc = "idle"
  BY DEF Init, IdleRequest
<1> QED
  BY <1>1, <1>3, <1>4, <1>5 DEF RegisteredOnce

(* A pod is registered once, and keeps its agent and its finalizer until it *)
(* is being deleted (controller_state.go:71-106, 134-153).                  *)
THEOREM RegisteredOnceCorrect ==
  ASSUME MaxUid = 1, PodFinalizers = <<>>
  PROVE  Spec => []RegisteredOnce
<1>1. Init => RegisteredOnce
  BY RegisteredOnceInit
<1>2. TypeOK /\ TypeOK' /\ ReleasedLast /\ RegisteredOnce /\ [Next]_vars => RegisteredOnce'
  BY RegisteredOnceStep
<1> QED
  BY <1>1, <1>2, TypeCorrect, ReleasedLastCorrect, PTL DEF Spec

LEMMA AcceptsStep ==
  ASSUME TypeOK, RegisteredOnce, Next, NEW h \in Handlers,
         req[h].pc = "register", req'[h].pc = "annotate"
  PROVE  Server(req[h].pod).agent = NoAgent
<1>1. req[h].pod \in Pods /\ RequestMoves(h)
  BY RequestsMove DEF TypeOK, Requests
<1>2. req[h].patch.fin = "create" /\ Applies(req[h].patch, Server(req[h].pod))
  BY <1>1 DEF RequestMoves, RegisteredOnce, PatchApplied
<1>3. Server(req[h].pod).finalizers = <<>> /\ Own \notin ToSet(<<>>)
  BY <1>2 DEF Applies, ToSet
<1>4. ~ Server(req[h].pod).deleting
  BY <1>2, <1>3 DEF Applies
<1> QED
  BY <1>1, <1>3, <1>4 DEF RegisteredOnce

(* makeAgent answers that the process is the agent of its pod only if the   *)
(* pod the API server holds had none, whatever the cache showed and however *)
(* many requests for the pod are under way (controller_state.go:71-106).    *)
THEOREM AcceptsOnlyUnregisteredCorrect ==
  ASSUME MaxUid = 1, PodFinalizers = <<>>
  PROVE  Spec => AcceptsOnlyUnregistered
<1>1. TypeOK /\ RegisteredOnce /\ [Next]_vars =>
        [\A h \in Handlers :
           req[h].pc = "register" /\ req'[h].pc = "annotate"
           => Server(req[h].pod).agent = NoAgent]_vars
  BY AcceptsStep
<1> QED
  BY <1>1, TypeCorrect, RegisteredOnceCorrect, PTL DEF Spec, AcceptsOnlyUnregistered
===============================================================================
