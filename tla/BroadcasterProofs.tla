-------------------------- MODULE BroadcasterProofs --------------------------
(***************************************************************************)
(* A Broadcaster is a Feed, for any subscribers and any number of values.  *)
(***************************************************************************)
EXTENDS Broadcaster, TLAPS

(* What a goroutine offers is newer than what its consumer has; so is what *)
(* Publish is about to send it.                                            *)
Newer ==
  \A s \in Subs :
    /\ con[s].got <= value /\ sub[s].val <= value
    /\ sub[s].pc \in {"none", "start"} => con[s].got = 0 /\ sub[s].val = 0
    /\ sub[s].pc \in {"idle", "offer"} => con[s].got < sub[s].val
    /\ s \in todo => con[s].got < value /\ sub[s].val < value

(* Nothing is left to send without the lock. *)
Locked == todo # {} => pub = "sending"

(* A goroutine that runs is one the broadcaster knows. *)
Known == \A s \in subscribers : sub[s].pc \notin {"none", "gone"}

Inv == TypeOK /\ Newer /\ Locked /\ Known

LEMMA InitInv == Init => Inv
<1> SUFFICES ASSUME Init PROVE Inv
  OBVIOUS
<1>0. \A s \in Subs : /\ sub[s] = [pc |-> "none", val |-> 0]
                      /\ con[s] = [pc |-> "none", got |-> 0, times |-> 0]
  BY DEF Init
<1>1. TypeOK
  <2>1. /\ sub \in [Subs -> [pc : {"none", "start", "idle", "offer", "taken",
                                 "leaving", "gone"}, val : Nat]]
        /\ con \in [Subs -> [pc : {"none", "away", "waiting", "receiving",
                                 "stopped"}, got : Nat, times : Nat]]
    BY DEF Init
  <2>2. ended \in BOOLEAN
    BY Zenon DEF Init
  <2> QED
    BY <2>1, <2>2 DEF Init, TypeOK
<1>2. Newer
  <2>1. value = 1 /\ todo = {}
    BY DEF Init
  <2>2. ASSUME NEW s \in Subs
        PROVE  con[s].got = 0 /\ sub[s].val = 0 /\ sub[s].pc = "none"
    <3>1. con[s] = [pc |-> "none", got |-> 0, times |-> 0]
      BY <1>0
    <3>2. sub[s] = [pc |-> "none", val |-> 0]
      BY <1>0
    <3> QED
      BY <3>1, <3>2
  <2>3. 0 <= 1 /\ 0 < 1
    OBVIOUS
  <2> QED
    BY <2>1, <2>2, <2>3, Zenon DEF Newer
<1>3. Locked /\ Known
  BY DEF Init, Locked, Known
<1> QED
  BY <1>1, <1>2, <1>3 DEF Inv

LEMMA SubscriberInv ==
  ASSUME Inv, NEW s \in Subs, Subscriber(s)
  PROVE  Inv'
<1> USE DEF Inv, TypeOK
<1>1. CASE FirstValue(s)
  BY <1>1 DEF FirstValue, Unlocked, Newer, Locked, Known
<1>2. CASE Ask(s)
  BY <1>2 DEF Ask, Newer, Locked, Known
<1>3. CASE Give(s)
  BY <1>3 DEF Give, Newer, Locked, Known
<1>4. CASE Withdraw(s)
  BY <1>4 DEF Withdraw, Newer, Locked, Known
<1>5. CASE LeaveLoop(s)
  BY <1>5 DEF LeaveLoop, Newer, Locked, Known
<1>6. CASE Remove(s)
  <2>1. todo = {}
    BY <1>6 DEF Remove, Unlocked, Locked
  <2> QED
    BY <1>6, <2>1 DEF Remove, Newer, Locked, Known
<1> QED
  BY <1>1, <1>2, <1>3, <1>4, <1>5, <1>6 DEF Subscriber

LEMMA NextInv == Inv /\ [Next]_vars => Inv'
<1> SUFFICES ASSUME Inv, [Next]_vars PROVE Inv'
  OBVIOUS
<1> USE DEF Inv, TypeOK
<1>1. CASE Publish
  BY <1>1 DEF Publish, Newer, Locked, Known
<1>2. CASE Published \/ StopPublisher
  BY <1>2 DEF Published, StopPublisher, Newer, Locked, Known
<1>9. CASE End
  <2>1. ended' \in BOOLEAN
    BY <1>9, Zenon DEF End
  <2>2. UNCHANGED <<value, pub, todo, subscribers, sub, con, reading>>
    BY <1>9 DEF End
  <2> QED
    BY <2>1, <2>2 DEF Newer, Locked, Known
<1>3. ASSUME NEW s \in Subs, Send(s) PROVE Inv'
  BY <1>3 DEF Send, Newer, Locked, Known
<1>4. ASSUME NEW s \in Subs, NewSubscriber(s) PROVE Inv'
  <2>1. todo = {}
    BY <1>4 DEF NewSubscriber, Unlocked, Locked
  <2> QED
    BY <1>4, <2>1 DEF NewSubscriber, Newer, Locked, Known
<1>5. ASSUME NEW s \in Subs, Subscriber(s) PROVE Inv'
  BY <1>5, SubscriberInv
<1>6. ASSUME NEW s \in Subs, Consumer(s) PROVE Inv'
  <2>1. CASE Wait(s)
    BY <2>1 DEF Wait, Newer, Locked, Known
  <2>2. CASE StopConsumer(s)
    BY <2>2 DEF StopConsumer, Newer, Locked, Known
  <2> QED
    BY <1>6, <2>1, <2>2 DEF Consumer
<1>7. ASSUME NEW r \in Readers, Read(r) \/ Value(r) PROVE Inv'
  BY <1>7 DEF Read, Value, Newer, Locked, Known
<1>8. CASE UNCHANGED vars
  BY <1>8 DEF vars, Newer, Locked, Known
<1> QED
  BY <1>1, <1>2, <1>3, <1>4, <1>5, <1>6, <1>7, <1>8, <1>9 DEF Next

(* The map, the publisher, the goroutines and the consumers keep their     *)
(* types.                                                                  *)
THEOREM BroadcasterTypes == Spec => []TypeOK
<1>1. Inv => TypeOK
  BY DEF Inv
<1> QED
  BY <1>1, InitInv, NextInv, PTL DEF Spec

(* Every step is one of the Feed's or none. *)
LEMMA StepRefines == Inv /\ [Next]_vars => [TheFeed!Next]_(TheFeed!vars)
<1> SUFFICES ASSUME Inv, [Next]_vars PROVE [TheFeed!Next]_(TheFeed!vars)
  OBVIOUS
<1> USE DEF TheFeed!Next, TheFeed!vars
<1>1. CASE Publish
  BY <1>1 DEF Publish, TheFeed!Publish
<1>2. ASSUME NEW s \in Subs, Give(s) PROVE TheFeed!Next
  <2>1. sub[s].val \in (con[s].got + 1)..value
    BY <1>2 DEF Give, Inv, TypeOK, Newer
  <2>2. /\ con' = [con EXCEPT ![s] = [pc |-> "away", got |-> sub[s].val,
                                      times |-> con[s].times + 1]]
        /\ value' = value
    BY <1>2 DEF Give
  <2>3. con \in [Subs -> [pc : {"none", "away", "waiting", "receiving", "stopped"},
                          got : Nat, times : Nat]]
    BY DEF Inv, TypeOK
  <2>4. [t \in Subs |-> con'[t].got]
          = [[t \in Subs |-> con[t].got] EXCEPT ![s] = sub[s].val]
    BY <2>2, <2>3
  <2>5. [t \in Subs |-> con'[t].times]
          = [[t \in Subs |-> con[t].times] EXCEPT ![s] = @ + 1]
    BY <2>2, <2>3
  <2>6. TheFeed!Give(s)
    BY <2>1, <2>2, <2>4, <2>5 DEF TheFeed!Give
  <2> QED
    BY <2>6
<1>3. CASE /\ value' = value
           /\ \A s \in Subs : con'[s].got = con[s].got /\ con'[s].times = con[s].times
  BY <1>3
<1>4. ASSUME NEW s \in Subs,
             Send(s) \/ NewSubscriber(s) \/ FirstValue(s) \/ Ask(s) \/ Withdraw(s)
               \/ LeaveLoop(s) \/ Remove(s) \/ Consumer(s)
      PROVE  /\ value' = value
             /\ \A t \in Subs : con'[t].got = con[t].got /\ con'[t].times = con[t].times
  BY <1>4 DEF Send, NewSubscriber, FirstValue, Ask, Withdraw, LeaveLoop, Remove,
              Consumer, Wait, StopConsumer, Inv, TypeOK
<1>5. ASSUME Published \/ StopPublisher \/ End \/ (\E r \in Readers : Read(r) \/ Value(r))
               \/ UNCHANGED vars
      PROVE  value' = value /\ con' = con
  BY <1>5 DEF Published, StopPublisher, End, Read, Value, vars
<1> QED
  BY <1>1, <1>2, <1>3, <1>4, <1>5 DEF Next, Subscriber

(* Consumers are given values in order and none twice, however many        *)
(* subscribers, values and readers there are, and whenever they come.      *)
THEOREM BroadcasterRefinesFeed == Spec => Refinement
<1>1. Init => TheFeed!Init
  BY DEF Init, TheFeed!Init
<1>2. Inv /\ [Next]_vars => [TheFeed!Next]_(TheFeed!vars)
  BY StepRefines
<1> QED
  BY <1>1, <1>2, InitInv, NextInv, PTL DEF Spec, Refinement, TheFeed!Spec
===============================================================================
