-------------------------------- MODULE RegToken -------------------------------
(***************************************************************************)
(* The manager's store of registration tokens (pkg/github/reg_token.go)    *)
(* behind GET /token, and the agents that ask for one: through the         *)
(* controller, again after every error, until they have one to give to     *)
(* config.sh.                                                              *)
(*                                                                         *)
(* Time is counted in units far longer than a request may take: whatever   *)
(* is under way, a fetch, a request or the use of a token, is over before  *)
(* a second unit has passed.  A token is the time it expires at.           *)
(***************************************************************************)
EXTENDS Integers

CONSTANTS
  Agents,      \* agents that register
  Validity,    \* how long GitHub accepts a token: an hour
  Margin,      \* what must be left of it: half an hour
  MaxTime,     \* the last unit of time
  MaxFaults,   \* fetches that fail
  MaxRestarts  \* restarts of the manager

ASSUME TokenBounds == {MaxTime, MaxFaults, MaxRestarts, Margin} \subseteq Nat
ASSUME ValidityAssumption == Validity \in Nat /\ Validity >= Margin + 2

VARIABLES
  now,      \* the time
  token,    \* RegistrationTokenStore.token
  flights,  \* the fetches of renew under way, with those that wait for each
  agents,   \* [Agents -> how far its request is]
  spent     \* what has failed

vars == <<now, token, flights, agents, spent>>

-------------------------------------------------------------------------------
(* regToken{}: before any time. *)
NoToken == 0

(* Mutant of RenewAt: the token is renewed when it is no longer accepted. *)
RenewAtExpiry(t) == t

RenewAt(t) == t - Margin

Idle      == [pc |-> "idle"]
Trying    == [pc |-> "trying"]
Has(t)    == [pc |-> "has", begun |-> now, token |-> t]
Waiting   == [pc |-> "wait", begun |-> now]
Asked(ws) == [stage |-> "asked", begun |-> now, token |-> NoToken, waiting |-> ws]

(* Nothing that is under way began before this unit of time. *)
Prompt ==
  /\ \A f \in flights : f.begun = now
  /\ \A a \in Agents : agents[a].pc \notin {"idle", "trying"} => agents[a].begun = now

Tick ==
  /\ now < MaxTime /\ Prompt
  /\ now' = now + 1
  /\ UNCHANGED <<token, flights, agents, spent>>

-------------------------------------------------------------------------------
(* Get *)

(* An agent that starts asks for a token. *)
Start(a) ==
  /\ agents[a].pc = "idle"
  /\ agents' = [agents EXCEPT ![a] = Trying]
  /\ UNCHANGED <<now, token, flights, spent>>

(* get: under the read lock. *)
Get(a) ==
  /\ agents[a].pc = "trying"
  /\ agents' = [agents EXCEPT ![a] = [pc |-> "check", begun |-> now, token |-> token]]
  /\ UNCHANGED <<now, token, flights, spent>>

Fresh(a) ==
  /\ agents[a].pc = "check" /\ now < RenewAt(agents[a].token)
  /\ agents' = [agents EXCEPT ![a] = Has(agents[a].token)]
  /\ UNCHANGED <<now, token, flights, spent>>

(* Mutant of DoChan: every caller fetches. *)
DoChanAlone(a) == flights' = flights \cup {Asked({a})}

(* group.DoChan: whoever comes while renew runs waits for its result. *)
DoChan(a) ==
  flights' = IF flights = {} THEN {Asked({a})}
             ELSE {[f EXCEPT !.waiting = @ \cup {a}] : f \in flights}

Stale(a) ==
  /\ agents[a].pc = "check" /\ now >= RenewAt(agents[a].token)
  /\ DoChan(a)
  /\ agents' = [agents EXCEPT ![a] = Waiting]
  /\ UNCHANGED <<now, token, spent>>

(* Mutant of Cancel: the fetch ends with the request that began it. *)
CancelFetch(a) ==
  /\ agents[a].pc = "wait"
  /\ agents' = [b \in Agents |->
                  IF agents[b].pc = "wait" THEN Trying ELSE agents[b]]
  /\ flights' = {}
  /\ UNCHANGED <<now, token, spent>>

(* ctx.Done(): the controller or the agent gave up.  renew goes on.        *)
Cancel(a) ==
  /\ agents[a].pc = "wait"
  /\ agents' = [agents EXCEPT ![a] = Trying]
  /\ flights' = {[f EXCEPT !.waiting = @ \ {a}] : f \in flights}
  /\ UNCHANGED <<now, token, spent>>

(* config.sh has taken the token, or the agent is gone. *)
Use(a) ==
  /\ agents[a].pc = "has"
  /\ agents' = [agents EXCEPT ![a] = Idle]
  /\ UNCHANGED <<now, token, flights, spent>>

-------------------------------------------------------------------------------
(* renew *)

(* GitHub issues a token; the answer is on its way. *)
Issue(f) ==
  /\ f.stage = "asked"
  /\ flights' = (flights \ {f})
                \cup {[f EXCEPT !.stage = "issued", !.token = now + Validity]}
  /\ UNCHANGED <<now, token, agents, spent>>

Store(f) ==
  /\ f.stage = "issued"
  /\ token' = f.token
  /\ flights' = (flights \ {f}) \cup {[f EXCEPT !.stage = "stored"]}
  /\ UNCHANGED <<now, agents, spent>>

(* Mutant of Finish: only those that came first have the result. *)
FinishFirst(f, result) ==
  /\ flights' = flights \ {f}
  /\ agents' = [a \in Agents |->
                  IF a \in f.waiting /\ agents[a].begun = f.begun THEN result ELSE agents[a]]
  /\ UNCHANGED <<now, token>>

(* Each of those that wait has the result; singleflight forgets the call.  *)
Finish(f, result) ==
  /\ flights' = flights \ {f}
  /\ agents' = [a \in Agents |-> IF a \in f.waiting THEN result ELSE agents[a]]
  /\ UNCHANGED <<now, token>>

Deliver(f) == f.stage = "stored" /\ Finish(f, Has(f.token)) /\ UNCHANGED spent

Fail(f) ==
  /\ f.stage \in {"asked", "issued"}
  /\ spent.faults < MaxFaults
  /\ spent' = [spent EXCEPT !.faults = @ + 1]
  /\ Finish(f, Trying)

(* NewRegistrationTokenStore: a manager that restarts has no token, and    *)
(* the requests to the old one end with an error.                          *)
Restart ==
  /\ spent.restarts < MaxRestarts
  /\ spent' = [spent EXCEPT !.restarts = @ + 1]
  /\ token' = NoToken /\ flights' = {}
  /\ agents' = [a \in Agents |->
                  IF agents[a].pc \in {"check", "wait"} THEN Trying ELSE agents[a]]
  /\ UNCHANGED now

-------------------------------------------------------------------------------
Init ==
  /\ now = 0 /\ token = NoToken /\ flights = {}
  /\ agents = [a \in Agents |-> Idle]
  /\ spent = [faults |-> 0, restarts |-> 0]

Progress(a) == Get(a) \/ Fresh(a) \/ Stale(a)

Renew == \E f \in flights : Issue(f) \/ Store(f) \/ Deliver(f)

Next ==
  \/ Tick \/ Restart \/ Renew
  \/ \E f \in flights : Fail(f)
  \/ \E a \in Agents : Start(a) \/ Progress(a) \/ Cancel(a) \/ Use(a)

Spec == Init /\ [][Next]_vars

(* Requests are handled, fetches are answered; an agent may give up any    *)
(* number of times, and none has to start.                                 *)
FairSpec == Spec /\ WF_vars(Renew) /\ \A a \in Agents : WF_vars(Progress(a))

-------------------------------------------------------------------------------
(* Properties *)

Tokens == 0..(MaxTime + Validity)
Times  == 0..MaxTime

Fetches  == [stage : {"asked", "issued", "stored"}, begun : Times,
             token : Tokens, waiting : SUBSET Agents]
Requests == {Idle, Trying} \cup [pc : {"wait"}, begun : Times]
              \cup [pc : {"check", "has"}, begun : Times, token : Tokens]

(* The values of the store, of the fetches and of those who ask; whoever   *)
(* waits is known to a fetch. *)
TypeOK ==
  /\ now \in Times /\ token \in Tokens
  /\ flights \subseteq Fetches
  /\ agents \in [Agents -> Requests]
  /\ \A a \in Agents : agents[a].pc = "wait" <=> \E f \in flights : a \in f.waiting
  /\ spent \in [faults : 0..MaxFaults, restarts : 0..MaxRestarts]

(* A token that is given out is accepted for Margin longer, when it is     *)
(* used at last: though it was checked a while ago, or was fetched for     *)
(* somebody who came earlier (reg_token.go:37-53 and 70-76).               *)
TokenFresh ==
  \A a \in Agents : agents[a].pc = "has" => agents[a].token >= now + Margin

(* No token is replaced by an older one: of fetches that overlap the       *)
(* answers could come in any order (reg_token.go:47 and 79-83).            *)
StoreGrows == [][token' >= token \/ token' = NoToken]_vars

(* An agent that keeps asking gets a token, though every request of its    *)
(* gives up before it is answered: the fetch goes on without it, and the   *)
(* next request finds the token stored (reg_token.go:43-65).               *)
EveryoneServed == \A a \in Agents : agents[a].pc = "trying" ~> agents[a].pc = "has"
===============================================================================
