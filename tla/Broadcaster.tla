----------------------------- MODULE Broadcaster -----------------------------
(***************************************************************************)
(* pkg/utils/channels/broadcaster.go: a value that one goroutine publishes,*)
(* that requests read, and that subscribers wait for.  Every subscriber    *)
(* has a goroutine between the publisher and its consumer; the channels    *)
(* are not buffered, so that both ends of one take part in a step.         *)
(*                                                                         *)
(* The lock: Value, NewSubscriber and a goroutine's removal hold it for    *)
(* one step that waits for nothing.  Only Publish waits with it, so it is  *)
(* taken when pub = "sending" and free otherwise.                          *)
(***************************************************************************)
EXTENDS Naturals

CONSTANTS
  Subs,       \* subscribers
  Readers,    \* requests that read the value
  MaxPublish  \* values published after the first

ASSUME PublishAssumption == MaxPublish \in Nat

VARIABLES
  value,        \* the broadcaster's value, by its number
  pub,          \* the publisher: "idle", "sending", "stopped"
  todo,         \* subscribers Publish has yet to send to
  subscribers,  \* the broadcaster's map
  sub,          \* [Subs -> the subscriber's goroutine and its value]
  con,          \* [Subs -> its consumer, the last value it was given, how many]
  reading,      \* requests that wait for the value
  ended         \* the context is done

vars == <<value, pub, todo, subscribers, sub, con, reading, ended>>

Unlocked == pub # "sending"

-------------------------------------------------------------------------------
(* The publisher: a synchronizer's loop *)

Publish ==
  /\ pub = "idle" /\ value <= MaxPublish
  /\ value' = value + 1
  /\ pub' = "sending"
  /\ todo' = subscribers
  /\ UNCHANGED <<subscribers, sub, con, reading, ended>>

(* Mutants of Send: the goroutine does not keep what it is sent, once its  *)
(* value is taken or while it is offered; or takes no value once it gave.  *)
SendTakenLost(s) ==
  /\ pub = "sending" /\ s \in todo
  /\ sub[s].pc \in {"offer", "taken"}
  /\ sub' = [sub EXCEPT ![s] = IF @.pc = "taken" THEN [pc |-> "idle", val |-> @.val]
                               ELSE [pc |-> "offer", val |-> value]]
  /\ todo' = todo \ {s}
  /\ UNCHANGED <<value, pub, subscribers, con, reading, ended>>

SendOfferLost(s) ==
  /\ pub = "sending" /\ s \in todo
  /\ sub[s].pc \in {"offer", "taken"}
  /\ sub' = [sub EXCEPT ![s] = IF @.pc = "taken" THEN [pc |-> "idle", val |-> value]
                               ELSE @]
  /\ todo' = todo \ {s}
  /\ UNCHANGED <<value, pub, subscribers, con, reading, ended>>

SendOfferOnly(s) ==
  /\ pub = "sending" /\ s \in todo
  /\ sub[s].pc = "offer"
  /\ sub' = [sub EXCEPT ![s].val = value]
  /\ todo' = todo \ {s}
  /\ UNCHANGED <<value, pub, subscribers, con, reading, ended>>

(* A goroutine takes a new value while it offers the last one, or after it *)
(* gave it; one that no consumer waits for takes none.                     *)
Send(s) ==
  /\ pub = "sending" /\ s \in todo
  /\ sub[s].pc \in {"offer", "taken"}
  /\ sub' = [sub EXCEPT ![s] = [pc  |-> IF @.pc = "taken" THEN "idle" ELSE "offer",
                                val |-> value]]
  /\ todo' = todo \ {s}
  /\ UNCHANGED <<value, pub, subscribers, con, reading, ended>>

Published ==
  /\ pub = "sending" /\ todo = {}
  /\ pub' = "idle"
  /\ UNCHANGED <<value, todo, subscribers, sub, con, reading, ended>>

StopPublisher ==
  /\ ended /\ pub = "idle"
  /\ pub' = "stopped"
  /\ UNCHANGED <<value, todo, subscribers, sub, con, reading, ended>>

-------------------------------------------------------------------------------
(* A subscriber: its goroutine and its consumer *)

NewSubscriber(s) ==
  /\ sub[s].pc = "none" /\ Unlocked
  /\ subscribers' = subscribers \cup {s}
  /\ sub' = [sub EXCEPT ![s].pc = "start"]
  /\ con' = [con EXCEPT ![s].pc = "away"]
  /\ UNCHANGED <<value, pub, todo, reading, ended>>

FirstValue(s) ==
  /\ sub[s].pc = "start" /\ Unlocked
  /\ sub' = [sub EXCEPT ![s] = [pc |-> "idle", val |-> value]]
  /\ UNCHANGED <<value, pub, todo, subscribers, con, reading, ended>>

(* Wait, up to the channel it hands to the goroutine. *)
Wait(s) ==
  /\ con[s].pc = "away"
  /\ con' = [con EXCEPT ![s].pc = "waiting"]
  /\ UNCHANGED <<value, pub, todo, subscribers, sub, reading, ended>>

Ask(s) ==
  /\ sub[s].pc = "idle" /\ con[s].pc = "waiting"
  /\ sub' = [sub EXCEPT ![s].pc = "offer"]
  /\ con' = [con EXCEPT ![s].pc = "receiving"]
  /\ UNCHANGED <<value, pub, todo, subscribers, reading, ended>>

Give(s) ==
  /\ sub[s].pc = "offer" /\ con[s].pc = "receiving"
  /\ sub' = [sub EXCEPT ![s].pc = "taken"]
  /\ con' = [con EXCEPT ![s] = [pc    |-> "away",
                                got   |-> sub[s].val,
                                times |-> @.times + 1]]
  /\ UNCHANGED <<value, pub, todo, subscribers, reading, ended>>

(* The context is done: the channel is closed without a value. *)
Withdraw(s) ==
  /\ ended /\ sub[s].pc = "offer"
  /\ sub' = [sub EXCEPT ![s].pc = "taken"]
  /\ con' = [con EXCEPT ![s].pc = IF @ = "receiving" THEN "away" ELSE @]
  /\ UNCHANGED <<value, pub, todo, subscribers, reading, ended>>

LeaveLoop(s) ==
  /\ ended /\ sub[s].pc \in {"idle", "taken"}
  /\ sub' = [sub EXCEPT ![s].pc = "leaving"]
  /\ UNCHANGED <<value, pub, todo, subscribers, con, reading, ended>>

(* Mutant of Remove: without the lock. *)
RemoveUnlocked(s) ==
  /\ sub[s].pc = "leaving"
  /\ subscribers' = subscribers \ {s}
  /\ sub' = [sub EXCEPT ![s].pc = "gone"]
  /\ UNCHANGED <<value, pub, todo, con, reading, ended>>

Remove(s) ==
  /\ sub[s].pc = "leaving" /\ Unlocked
  /\ subscribers' = subscribers \ {s}
  /\ sub' = [sub EXCEPT ![s].pc = "gone"]
  /\ UNCHANGED <<value, pub, todo, con, reading, ended>>

StopConsumer(s) ==
  /\ ended /\ con[s].pc \in {"waiting", "receiving"}
  /\ con' = [con EXCEPT ![s].pc = "stopped"]
  /\ UNCHANGED <<value, pub, todo, subscribers, sub, reading, ended>>

-------------------------------------------------------------------------------
(* Requests, and the end of the process *)

Read(r) ==
  /\ r \notin reading
  /\ reading' = reading \cup {r}
  /\ UNCHANGED <<value, pub, todo, subscribers, sub, con, ended>>

Value(r) ==
  /\ r \in reading /\ Unlocked
  /\ reading' = reading \ {r}
  /\ UNCHANGED <<value, pub, todo, subscribers, sub, con, ended>>

End ==
  /\ ~ ended /\ ended' = TRUE
  /\ UNCHANGED <<value, pub, todo, subscribers, sub, con, reading>>

-------------------------------------------------------------------------------
Init ==
  /\ value = 1 /\ pub = "idle" /\ todo = {} /\ subscribers = {}
  /\ sub = [s \in Subs |-> [pc |-> "none", val |-> 0]]
  /\ con = [s \in Subs |-> [pc |-> "none", got |-> 0, times |-> 0]]
  /\ reading = {} /\ ended = FALSE

Subscriber(s) ==
  \/ FirstValue(s) \/ Ask(s) \/ Give(s) \/ Withdraw(s) \/ LeaveLoop(s) \/ Remove(s)

Consumer(s) == Wait(s) \/ StopConsumer(s)

Next ==
  \/ Publish \/ Published \/ StopPublisher \/ End
  \/ \E s \in Subs : Send(s) \/ NewSubscriber(s) \/ Subscriber(s) \/ Consumer(s)
  \/ \E r \in Readers : Read(r) \/ Value(r)

Spec == Init /\ [][Next]_vars

(* Goroutines run when they can; consumers come back for the next value.   *)
(* Nobody has to publish, to subscribe, to read or to end the process.     *)
Fairness ==
  /\ WF_vars(Published) /\ WF_vars(StopPublisher)
  /\ \A s \in Subs : WF_vars(Send(s)) /\ WF_vars(Subscriber(s)) /\ WF_vars(Consumer(s))
  /\ \A r \in Readers : WF_vars(Value(r))

FairSpec == Spec /\ Fairness

-------------------------------------------------------------------------------
(* Properties *)

TypeOK ==
  /\ value \in Nat \ {0}
  /\ pub \in {"idle", "sending", "stopped"}
  /\ todo \subseteq subscribers /\ subscribers \subseteq Subs
  /\ sub \in [Subs -> [pc : {"none", "start", "idle", "offer", "taken", "leaving", "gone"},
                       val : Nat]]
  /\ con \in [Subs -> [pc : {"none", "away", "waiting", "receiving", "stopped"},
                       got : Nat, times : Nat]]
  /\ reading \subseteq Readers
  /\ ended \in BOOLEAN

(* Consumers are given values in order, none twice (broadcaster.go:64-104). *)
TheFeed == INSTANCE Feed WITH latest <- value,
                               got    <- [s \in Subs |-> con[s].got],
                               times  <- [s \in Subs |-> con[s].times]

Refinement == TheFeed!Spec

(* Publish came between NewSubscriber and the goroutine's first look: one  *)
(* waits for the other's send, the other for the lock.                     *)
Stuck == pub = "sending" /\ \E s \in todo : sub[s].pc = "start"

(* Publish, and every read of the value, return while the process runs,    *)
(* but for that one race: a consumer that is busy holds up the publisher   *)
(* and with it the readers, but none of them for ever                      *)
(* (broadcaster.go:23-38).                                                 *)
PublishReturns == pub = "sending" ~> pub = "idle" \/ Stuck \/ ended
ReadReturns    == \A r \in Readers : r \in reading ~> r \notin reading \/ Stuck \/ ended
CallsReturn    == PublishReturns /\ ReadReturns

(* Whatever a consumer missed, it is given the last value published        *)
(* (broadcaster.go:84-102).                                                *)
LatestReaches ==
  \A s \in Subs : \A v \in 1..(MaxPublish + 1) :
    value = v /\ s \in subscribers ~> con[s].got >= v \/ Stuck \/ ended

(* At the end of the context a goroutine left its loop and waits for the   *)
(* lock Publish holds, and Publish for it to receive: nobody goes on, and  *)
(* the process does not exit.                                              *)
Caught == pub = "sending" /\ \E s \in todo : sub[s].pc = "leaving"

(* After the signal the process says "exiting..." and waits for its        *)
(* goroutines, the publisher's among them (cmd/run.go:30-36): those two    *)
(* races aside it exits.                                                   *)
Exits == ended ~> pub = "stopped" \/ Stuck \/ Caught
===============================================================================
