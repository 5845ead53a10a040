-------------------------- MODULE AgentControllerInv --------------------------
(***************************************************************************)
(* Why the monitor's evidence is sound: the inductive invariant behind     *)
(* GoneIsGone and PodKilledSafely, for a manager that is not restarted and *)
(* pods whose names are not used again (a Deployment).                     *)
(*                                                                         *)
(* A runner id reaches an agent only through a published epoch.  From then *)
(* on every list of runners shows it, until GitHub forgets it: the epoch   *)
(* in progress, the next ones, and the one the monitor holds; or the pages *)
(* shifted and the list is marked as one that passed it over.              *)
(***************************************************************************)
EXTENDS AgentController

(* An agent carries the name its pod was registered under.                 *)
OwnName(p, a) == a # NoAgent => a.name = <<p, 1>>

(* A list has a runner under this name, or has passed it over. *)
Accounts(list, n, id) == list.instances[n].id = id \/ id \in list.passed

Shows(list, a) == Accounts(list, a.name, a.rid)

(* A recorded runner was registered, and as long as it is, every list of   *)
(* runners the monitor has or will get shows it under the agent's name,    *)
(* unless that list has passed it over.                                    *)
Known(a) ==
  a # NoAgent /\ a.rid # 0 =>
    /\ github[a.rid].status # "none"
    /\ Registered(a.rid) =>
         /\ github[a.rid].name = a.name
         /\ Shows(published, a)
         /\ a.rid \in listing.unread \/ Shows(listing, a)
         /\ mon.pc # "idle" => Shows(mon, a)

Fit(p, a) == OwnName(p, a) /\ Known(a)

(* Every agent value: in a version of a pod, in the monitor's copies, in a *)
(* patch on its way.                                                       *)
AgentsKnown ==
  /\ \A p \in Pods : \A k \in DOMAIN timeline[p] : Fit(p, timeline[p][k].agent)
  /\ \A p \in Pods : Fit(p, mon.agents[p])
  /\ Fit(mon.pod, mon.patch.agent)
  /\ \A h \in Handlers : Fit(req[h].pod, req[h].patch.agent)

(* GitHub has one runner of a name at a time. *)
UniqueNames ==
  \A i, j \in RunnerIds :
    Registered(i) /\ Registered(j) /\ github[i].name = github[j].name => i = j

(* An instance was a runner of that name. *)
Genuine(instances, n) ==
  LET id == instances[n].id
  IN  id # 0 => /\ github[id].status # "none"
                /\ Registered(id) => github[id].name = n

(* What an older list shows and GitHub still has, a newer one accounts for, *)
(* and the one in progress does or comes to it.                             *)
Persists(older, n) ==
  LET id == older.instances[n].id
  IN  id # 0 /\ Registered(id) => Accounts(published, n, id)

Coming(older, n) ==
  LET id == older.instances[n].id
  IN  id # 0 /\ Registered(id) => id \in listing.unread \/ Accounts(listing, n, id)

ListsOrdered ==
  \A n \in Names :
    /\ Genuine(mon.instances, n)
    /\ Genuine(published.instances, n)
    /\ Genuine(listing.instances, n)
    /\ Persists(mon, n)
    /\ Coming(mon, n) /\ Coming(published, n)

Evidence == AgentsKnown /\ UniqueNames /\ ListsOrdered
-------------------------------------------------------------------------------
(***************************************************************************)
(* Why the finalizer stays on a pod until the pod is being deleted, and    *)
(* why no process is registered on a pod that is: the inductive invariants *)
(* behind FinalizerHeld and AcceptsOnlyUnregistered, for pods whose names  *)
(* are not used again (the second also for pods with no other finalizer).  *)
(***************************************************************************)

(* The only pod of this name is gone. *)
Over(p) == ~ Server(p).exists /\ Server(p).uid # 0

Doomed(p) == Over(p) \/ Server(p).deleting

(* The finalizer is taken off only by the monitor, after it deleted the pod *)
(* it saw; a pod that was seen has been there.                              *)
ReleasedLast ==
  /\ \A p \in Pods :
       Server(p).deleting \/ Server(p).finalizers # <<>> => Server(p).exists
  /\ \A p \in Pods : \A k \in DOMAIN timeline[p] :
       timeline[p][k].exists => Server(p).uid # 0
  /\ mon.pc = "release" \/ mon.patch.fin = "remove" => Doomed(mon.pod)
  /\ \A h \in Handlers : req[h].patch.fin # "remove"

(* A pod that is registered stays so; whoever has seen its agent knows. *)
Taken(p) == Over(p) \/ Server(p).agent # NoAgent

(* Only a registration takes a pod without an agent, and asks for it to     *)
(* have no finalizers: what is registered has one, until it is deleted.     *)
RegisteredOnce ==
  /\ \A p \in Pods : \A k \in DOMAIN timeline[p] :
       IF timeline[p][k].agent = NoAgent THEN timeline[p][k].finalizers = <<>>
       ELSE Taken(p)
  /\ \A p \in Pods :
       Server(p).agent # NoAgent
       => /\ Server(p).exists
          /\ Own \in ToSet(Server(p).finalizers) \/ Server(p).deleting
  /\ \A p \in Pods : mon.agents[p] # NoAgent => Taken(p)
  /\ mon.patch.fin \in {"create", "append"} \/ mon.patch.agent # NoAgent
       => Taken(mon.pod)
  /\ \A h \in Handlers :
       req[h].pc = "register" => /\ req[h].patch.fin = "create"
                                 /\ req[h].patch.agent # NoAgent
  /\ \A h \in Handlers : req[h].pc \in {"annotate", "terminate"} => Taken(req[h].pod)
===============================================================================
