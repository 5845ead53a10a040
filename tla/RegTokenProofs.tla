----------------------------- MODULE RegTokenProofs ----------------------------
(***************************************************************************)
(* Proofs about RegToken, for any number of agents, faults and restarts,   *)
(* and any Validity and Margin that leave two units of time between them.  *)
(***************************************************************************)
EXTENDS RegToken, TLAPS

(* One fetch at a time: singleflight. *)
OneFetch == \A f, g \in flights : f = g

(* A fetch began in this unit of time or the one before; what it brings is *)
(* as young, and not older than what is stored.                            *)
FetchesPrompt ==
  /\ token <= now + Validity
  /\ \A f \in flights :
       /\ f.begun <= now /\ now <= f.begun + 1
       /\ f.stage # "asked" =>
            /\ f.begun + Validity <= f.token /\ f.token <= now + Validity
            /\ f.stage = "issued" => token <= f.token

(* Who was given a token in the unit before has Margin left of it still.   *)
HoldersPrompt ==
  \A a \in Agents : agents[a].pc = "has" =>
    /\ agents[a].begun <= now /\ now <= agents[a].begun + 1
    /\ agents[a].begun + Margin + 1 <= agents[a].token

IInv == TypeOK /\ OneFetch /\ FetchesPrompt /\ HoldersPrompt

(* Nothing is fetched or given out at first.                               *)
LEMMA InitIInv == Init => IInv
BY TokenBounds, ValidityAssumption
   DEF Init, IInv, TypeOK, OneFetch, FetchesPrompt, HoldersPrompt, NoToken,
       Requests, Tokens, Times, Idle

(* A tick comes only when nothing is left of the unit before (Prompt); the *)
(* steps of a fetch have the one fetch there is to replace by another.     *)
LEMMA StepIInv == IInv /\ [Next]_vars => IInv'
<1> SUFFICES ASSUME IInv, [Next]_vars PROVE IInv'
  OBVIOUS
<1> USE DEF IInv
<1>1. CASE Tick
  BY <1>1, TokenBounds, ValidityAssumption
     DEF Tick, Prompt, TypeOK, Fetches, Requests, OneFetch, FetchesPrompt,
         HoldersPrompt, Tokens, Times, Idle, Trying
<1>2. CASE Restart
  BY <1>2, TokenBounds, ValidityAssumption
     DEF Restart, TypeOK, Fetches, Requests, OneFetch, FetchesPrompt,
         HoldersPrompt, Tokens, Times, Idle, Trying, NoToken
<1>3. ASSUME NEW f \in flights, Issue(f) PROVE IInv'
  <2> DEFINE g == [f EXCEPT !.stage = "issued", !.token = now + Validity]
  <2>1. flights = {f} /\ flights' = {g}
    BY <1>3 DEF Issue, OneFetch
  <2>2. f \in Fetches /\ UNCHANGED <<now, token, agents, spent>>
    BY <1>3 DEF Issue, TypeOK, Fetches
  <2>3. now + Validity \in Tokens /\ now \in Nat
    BY TokenBounds, ValidityAssumption DEF TypeOK, Tokens, Times
  <2>4. g \in Fetches /\ g.stage = "issued" /\ g.begun = f.begun /\ g.token = now + Validity
           /\ g.waiting = f.waiting
    BY <2>2, <2>3 DEF Fetches
  <2> HIDE DEF g
  <2>5. TypeOK'
    BY <2>1, <2>2, <2>4 DEF TypeOK, Fetches
  <2>6. OneFetch'
    BY <2>1 DEF OneFetch
  <2>7. FetchesPrompt'
    <3>1. f.begun \in Nat /\ f.begun <= now /\ now <= f.begun + 1 /\ token <= now + Validity
      BY <2>2 DEF FetchesPrompt, Fetches, Times
    <3> QED
      BY <2>1, <2>2, <2>3, <2>4, <3>1, ValidityAssumption, TokenBounds
         DEF FetchesPrompt
  <2>8. HoldersPrompt'
    BY <2>2 DEF HoldersPrompt
  <2> QED
    BY <2>5, <2>6, <2>7, <2>8
<1>4. ASSUME NEW f \in flights, Store(f) PROVE IInv'
  <2> DEFINE g == [f EXCEPT !.stage = "stored"]
  <2>1. flights = {f} /\ flights' = {g} /\ f.stage = "issued" /\ token' = f.token
    BY <1>4 DEF Store, OneFetch
  <2>2. f \in Fetches /\ UNCHANGED <<now, agents, spent>>
    BY <1>4 DEF Store, TypeOK, Fetches
  <2>3. g \in Fetches /\ g.stage = "stored" /\ g.begun = f.begun /\ g.token = f.token
           /\ g.waiting = f.waiting
    BY <2>2 DEF Fetches
  <2> HIDE DEF g
  <2>4. TypeOK'
    BY <2>1, <2>2, <2>3 DEF TypeOK, Fetches
  <2>5. OneFetch'
    BY <2>1 DEF OneFetch
  <2>6. FetchesPrompt'
    BY <2>1, <2>2, <2>3 DEF FetchesPrompt
  <2>7. HoldersPrompt'
    BY <2>2 DEF HoldersPrompt
  <2> QED
    BY <2>4, <2>5, <2>6, <2>7
<1>5. ASSUME NEW f \in flights, Deliver(f) PROVE IInv'
  BY <1>5, TokenBounds, ValidityAssumption
     DEF Deliver, Finish, Has, TypeOK, Fetches, Requests, OneFetch,
         FetchesPrompt, HoldersPrompt, Tokens, Times, Idle, Trying
<1>6. ASSUME NEW f \in flights, Fail(f) PROVE IInv'
  BY <1>6, TokenBounds, ValidityAssumption
     DEF Fail, Finish, TypeOK, Fetches, Requests, OneFetch, FetchesPrompt,
         HoldersPrompt, Tokens, Times, Idle, Trying
<1>7. ASSUME NEW a \in Agents, Start(a) PROVE IInv'
  BY <1>7, TokenBounds, ValidityAssumption
     DEF Start, TypeOK, Fetches, Requests, OneFetch, FetchesPrompt,
         HoldersPrompt, Tokens, Times, Idle, Trying
<1>8. ASSUME NEW a \in Agents, Get(a) PROVE IInv'
  BY <1>8, TokenBounds, ValidityAssumption
     DEF Get, TypeOK, Fetches, Requests, OneFetch, FetchesPrompt,
         HoldersPrompt, Tokens, Times, Idle, Trying
<1>9. ASSUME NEW a \in Agents, Fresh(a) PROVE IInv'
  BY <1>9, TokenBounds, ValidityAssumption
     DEF Fresh, Has, RenewAt, TypeOK, Fetches, Requests, OneFetch,
         FetchesPrompt, HoldersPrompt, Tokens, Times, Idle, Trying
<1>10. ASSUME NEW a \in Agents, Stale(a) PROVE IInv'
  <2>1. UNCHANGED <<now, token, spent>> /\ agents' = [agents EXCEPT ![a] = Waiting]
    BY <1>10 DEF Stale
  <2>2. agents[a].pc = "check"
    BY <1>10 DEF Stale
  <2>3. CASE flights = {}
    <3>1. flights' = {Asked({a})}
      BY <1>10, <2>3 DEF Stale, DoChan
    <3>2. Asked({a}) \in Fetches
      BY ValidityAssumption, TokenBounds
         DEF Asked, Fetches, TypeOK, NoToken, Tokens, Times
    <3>3. TypeOK'
      BY <2>1, <2>2, <2>3, <3>1, <3>2
         DEF TypeOK, Fetches, Requests, Asked, Waiting, Idle, Trying
    <3>4. OneFetch'
      BY <3>1 DEF OneFetch
    <3>5. FetchesPrompt'
      BY <2>1, <3>1 DEF FetchesPrompt, Asked, TypeOK, Times
    <3> QED
      BY <2>1, <3>3, <3>4, <3>5 DEF HoldersPrompt, TypeOK, Waiting
  <2>4. ASSUME NEW f \in flights PROVE IInv'
    <3> DEFINE g == [f EXCEPT !.waiting = @ \cup {a}]
    <3>1. flights = {f} /\ flights' = {g}
      BY <1>10 DEF Stale, DoChan, OneFetch
    <3>2. f \in Fetches
      BY DEF TypeOK, Fetches
    <3>3. g \in Fetches /\ g.stage = f.stage /\ g.begun = f.begun /\ g.token = f.token
             /\ g.waiting = f.waiting \cup {a}
      BY <3>2 DEF Fetches
    <3> HIDE DEF g
    <3>4. TypeOK'
      BY <2>1, <2>2, <3>1, <3>3 DEF TypeOK, Fetches, Requests, Waiting, Idle, Trying
    <3>5. OneFetch'
      BY <3>1 DEF OneFetch
    <3>6. FetchesPrompt'
      BY <2>1, <3>1, <3>3 DEF FetchesPrompt
    <3> QED
      BY <2>1, <3>4, <3>5, <3>6 DEF HoldersPrompt, TypeOK, Waiting
  <2> QED
    BY <2>3, <2>4
<1>11. ASSUME NEW a \in Agents, Cancel(a) PROVE IInv'
  <2>1. UNCHANGED <<now, token, spent>> /\ agents' = [agents EXCEPT ![a] = Trying]
    BY <1>11 DEF Cancel
  <2>2. PICK f \in flights : a \in f.waiting
    BY <1>11 DEF Cancel, TypeOK
  <2> DEFINE g == [f EXCEPT !.waiting = @ \ {a}]
  <2>3. flights = {f} /\ flights' = {g}
    BY <1>11, <2>2 DEF Cancel, OneFetch
  <2>4. f \in Fetches
    BY DEF TypeOK, Fetches
  <2>5. g \in Fetches /\ g.stage = f.stage /\ g.begun = f.begun /\ g.token = f.token
           /\ g.waiting = f.waiting \ {a}
    BY <2>4 DEF Fetches
  <2> HIDE DEF g
  <2>6. TypeOK'
    BY <2>1, <2>2, <2>3, <2>5 DEF TypeOK, Fetches, Requests, Idle, Trying
  <2>7. OneFetch'
    BY <2>3 DEF OneFetch
  <2>8. FetchesPrompt'
    BY <2>1, <2>3, <2>5 DEF FetchesPrompt
  <2>9. HoldersPrompt'
    BY <2>1 DEF HoldersPrompt, TypeOK, Trying
  <2> QED
    BY <2>6, <2>7, <2>8, <2>9
<1>12. ASSUME NEW a \in Agents, Use(a) PROVE IInv'
  BY <1>12, TokenBounds, ValidityAssumption
     DEF Use, TypeOK, Fetches, Requests, OneFetch, FetchesPrompt,
         HoldersPrompt, Tokens, Times, Idle, Trying
<1>13. CASE UNCHANGED vars
  BY <1>13 DEF vars, TypeOK, OneFetch, FetchesPrompt, HoldersPrompt
<1> QED
  BY <1>1, <1>2, <1>3, <1>4, <1>5, <1>6, <1>7, <1>8, <1>9, <1>10, <1>11, <1>12, <1>13
     DEF Next, Renew, Progress

(* The store, the fetches and the callers keep their types (TypeOK).       *)
THEOREM TokenTypes == Spec => []TypeOK
<1>1. IInv => TypeOK
  BY DEF IInv
<1> QED
  BY InitIInv, StepIInv, <1>1, PTL DEF Spec

(* A token that is given out is accepted for Margin longer, until it is    *)
(* used (reg_token.go:37-53), however many ask and whoever's fetch it was. *)
THEOREM TokenFreshCorrect == Spec => []TokenFresh
<1>1. IInv => TokenFresh
  <2> SUFFICES ASSUME IInv, NEW a \in Agents, agents[a].pc = "has"
               PROVE  agents[a].token >= now + Margin
    BY DEF TokenFresh
  <2>1. agents[a].begun \in Nat /\ agents[a].token \in Int /\ now \in Nat
    BY ValidityAssumption, TokenBounds
       DEF IInv, TypeOK, Requests, Tokens, Times, Idle, Trying
  <2>2. now <= agents[a].begun + 1 /\ agents[a].begun + Margin + 1 <= agents[a].token
    BY DEF IInv, HoldersPrompt
  <2> QED
    BY <2>1, <2>2, TokenBounds
<1> QED
  BY InitIInv, StepIInv, <1>1, PTL DEF Spec

(* The stored token is replaced by younger ones only, or lost at a restart *)
(* (reg_token.go:79-83): there is one fetch at a time.                     *)
THEOREM StoreGrowsCorrect == Spec => StoreGrows
<1>1. IInv /\ [Next]_vars => [token' >= token \/ token' = NoToken]_vars
  <2> SUFFICES ASSUME IInv, Next PROVE token' >= token \/ token' = NoToken
    OBVIOUS
  <2>1. token \in Int
    BY DEF IInv, TypeOK, Tokens
  <2>2. CASE \E f \in flights : Store(f)
    BY <2>1, <2>2 DEF Store, IInv, TypeOK, Tokens, FetchesPrompt
  <2>3. CASE Restart
    BY <2>3 DEF Restart
  <2>4. CASE UNCHANGED token
    BY <2>1, <2>4
  <2>5. Restart \/ (\E f \in flights : Store(f)) \/ UNCHANGED token
    BY DEF Next, Renew, Progress, Tick, Issue, Deliver, Fail, Finish, Start, Get, Fresh, Stale,
           Cancel, Use
  <2> QED
    BY <2>2, <2>3, <2>4, <2>5
<1> QED
  BY InitIInv, StepIInv, <1>1, PTL DEF Spec, StoreGrows
===============================================================================
