------------------------------- MODULE SlackApp -------------------------------
(***************************************************************************)
(* The Slack app (pkg/slack/app.go): one loop handles the slash commands,  *)
(* subscribe and unsubscribe, that change a repository's list of channels  *)
(* in the key-value store (pkg/kv); the notifier reads it at any moment.   *)
(*                                                                         *)
(* A stored value is the list it encodes: "<channel>:<conclusions>" joined *)
(* by semicolons, the empty string being both no value and no channel.     *)
(***************************************************************************)
EXTENDS Naturals, Sequences, SequencesExt

CONSTANTS
  Backends,     \* the stores the manager may be configured with
  Channels,     \* Slack channels
  Conclusions,  \* conclusions of runs
  Silent,       \* those that notify has no words for: "skipped"
  MaxLag,       \* versions of the ConfigMap the informer has yet to deliver
  MaxFaults,    \* calls to the store that fail
  MaxCrashes    \* restarts of the manager

ASSUME BackendAssumption == Backends \subseteq {"InMemory", "FS", "KubeConfigMap"}
ASSUME SlackBounds == {MaxLag, MaxFaults, MaxCrashes} \subseteq Nat
ASSUME SilentAssumption == Silent \subseteq Conclusions

VARIABLES
  backend,  \* the store in use
  stored,   \* the value in memory, in the file or at the API server
  cached,   \* KubeConfigMapStore.values
  pending,  \* versions of the ConfigMap on their way to the informer
  command,  \* the command being handled
  acked,    \* [Channels -> the filter its users were last told of, {} for none]
  unsure,   \* channels whose last command failed
  mishap,   \* what befell the list, kept for the properties (see below)
  spent     \* what has failed

vars == <<backend, stored, cached, pending, command, acked, unsure, mishap, spent>>

-------------------------------------------------------------------------------
(* Lists of channels *)

(* The conclusions a channel wants to hear of; none named means all. *)
Filters == SUBSET Conclusions

ChannelInfo(c, filter) == [channel |-> c, conclusions |-> filter]

(* Mutant of Others: nothing is taken out. *)
OthersAll(infos, c) == infos

(* The loop over the list read, which leaves out the channel. *)
Others(infos, c) ==
  LET kept[k \in 0..Len(infos)] ==
        IF k = 0 THEN <<>>
        ELSE IF infos[k].channel = c THEN kept[k - 1]
        ELSE Append(kept[k - 1], infos[k])
  IN  kept[Len(infos)]

(* Mutant of WithChannel: the list read is not kept. *)
WithChannelOnly(infos, c, filter) == <<ChannelInfo(c, filter)>>

WithChannel(infos, c, filter) == Append(Others(infos, c), ChannelInfo(c, filter))

Matches(info, conclusion) == info.conclusions = {} \/ conclusion \in info.conclusions

(* An earlier filter does not match: notify returns there. *)
CutOff(infos, k, conclusion) == \E m \in 1..(k - 1) : ~ Matches(infos[m], conclusion)

(* The channels notify sends a message to. *)
Told(infos, conclusion) ==
  IF conclusion \in Silent THEN {}
  ELSE {infos[i].channel :
          i \in {k \in DOMAIN infos : /\ Matches(infos[k], conclusion)
                                       /\ ~ CutOff(infos, k, conclusion)}}

-------------------------------------------------------------------------------
(* The stores *)

(* What may befall a list, as far as the properties name it:               *)
(*   seen     versions on their way to the informer that Set has loaded    *)
(*   rewound  the informer has put an older version than that in the cache *)
(*   misread  a command was worked out from such a version                 *)
(*   torn     a file was truncated and not written any more                *)
NoMishap == [seen |-> 0, rewound |-> FALSE, misread |-> FALSE, torn |-> FALSE]

Get == IF backend = "KubeConfigMap" THEN cached ELSE stored

Idle == [pc |-> "idle"]

Fault == /\ spent.faults < MaxFaults
         /\ spent' = [spent EXCEPT !.faults = @ + 1]

(* The users are told what became of their command. *)
Ack == /\ command' = Idle
       /\ acked' = [acked EXCEPT ![command.channel] = command.answer]
       /\ unsure' = unsure \ {command.channel}

Refuse == /\ command' = Idle
          /\ unsure' = unsure \cup {command.channel}
          /\ UNCHANGED acked

(* InMemoryStore.Set *)
SetInMemory ==
  /\ command.pc = "set" /\ backend = "InMemory"
  /\ stored' = command.value
  /\ Ack
  /\ UNCHANGED <<backend, cached, pending, mishap, spent>>

(* FSStore.Set: os.WriteFile truncates the file, then writes it; either    *)
(* may fail.                                                               *)
Truncate ==
  /\ command.pc = "set" /\ backend = "FS"
  /\ \/ /\ stored' = <<>>
        /\ command' = [command EXCEPT !.pc = "write"]
        /\ UNCHANGED <<acked, unsure, spent>>
     \/ Fault /\ Refuse /\ UNCHANGED stored
  /\ UNCHANGED <<backend, cached, pending, mishap>>

WriteFile ==
  /\ command.pc = "write"
  /\ \/ stored' = command.value /\ Ack /\ UNCHANGED <<mishap, spent>>
     \/ Fault /\ Refuse /\ mishap' = [mishap EXCEPT !.torn = TRUE] /\ UNCHANGED stored
  /\ UNCHANGED <<backend, cached, pending>>

(* KubeConfigMapStore.Set: the patch, which may fail or lose its answer,   *)
(* and then loadConfig with the ConfigMap it returned.                     *)
Patch ==
  /\ command.pc = "set" /\ backend = "KubeConfigMap"
  /\ \/ /\ command' = [command EXCEPT !.pc = "load"]
        /\ UNCHANGED <<acked, unsure, spent>>
     \/ Fault /\ Refuse
  /\ \/ stored' = command.value /\ Len(pending) < MaxLag
        /\ pending' = Append(pending, command.value)
     \/ command'.pc = "idle" /\ UNCHANGED <<stored, pending>>
  /\ UNCHANGED <<backend, cached, mishap>>

(* Mutant of LoadConfig: the cache waits for the informer. *)
LoadConfigLater ==
  /\ command.pc = "load"
  /\ Ack
  /\ UNCHANGED <<backend, stored, cached, pending, mishap, spent>>

LoadConfig ==
  /\ command.pc = "load"
  /\ cached' = command.value
  /\ Ack
  /\ mishap' = [mishap EXCEPT !.seen = Len(pending), !.rewound = FALSE]
  /\ UNCHANGED <<backend, stored, pending, spent>>

(* The informer's AddFunc or UpdateFunc: loadConfig with the next version. *)
Deliver ==
  /\ pending # <<>>
  /\ cached' = Head(pending)
  /\ pending' = Tail(pending)
  /\ mishap' = [mishap EXCEPT !.seen = IF @ = 0 THEN 0 ELSE @ - 1,
                              !.rewound = mishap.seen > 1]
  /\ UNCHANGED <<backend, stored, command, acked, unsure, spent>>

-------------------------------------------------------------------------------
(* The commands *)

Set(c, value, answer) ==
  /\ command' = [pc |-> "set", channel |-> c, value |-> value, answer |-> answer]
  /\ mishap' = [mishap EXCEPT !.misread = @ \/ mishap.rewound]
  /\ UNCHANGED <<backend, stored, cached, pending, acked, unsure, spent>>

(* AddChannel; a filter with an unknown conclusion is refused before. *)
Subscribe(c, filter) ==
  /\ command.pc = "idle"
  /\ Set(c, WithChannel(Get, c, filter), {filter})

(* DelChannel; a channel that is not found is told so. *)
Unsubscribe(c) ==
  /\ command.pc = "idle"
  /\ \E i \in DOMAIN Get : Get[i].channel = c
  /\ Set(c, Others(Get, c), {})

Busy(c) == command.pc # "idle" /\ command.channel = c

(* KubeConfigMapStore.Start loads the ConfigMap; the informer's first list *)
(* brings that version once more.                                          *)
Started(list) == IF backend = "KubeConfigMap" THEN <<list>> ELSE <<>>

(* The manager restarts: memory and cache are lost. *)
Restart ==
  /\ spent.crashes < MaxCrashes
  /\ spent' = [spent EXCEPT !.crashes = @ + 1]
  /\ stored' = IF backend = "InMemory" THEN <<>> ELSE stored
  /\ acked' = IF backend = "InMemory" THEN [c \in Channels |-> {}] ELSE acked
  /\ unsure' = IF backend = "InMemory" THEN {}
               ELSE unsure \cup {c \in Channels : Busy(c)}
  /\ cached' = stored'
  /\ pending' = Started(stored')
  /\ command' = Idle
  /\ mishap' = [mishap EXCEPT !.seen = Len(pending'), !.rewound = FALSE,
                              !.torn = @ \/ command.pc = "write"]
  /\ UNCHANGED backend

-------------------------------------------------------------------------------
Init ==
  /\ backend \in Backends
  /\ stored = <<>> /\ cached = <<>> /\ pending = Started(<<>>)
  /\ command = Idle
  /\ acked = [c \in Channels |-> {}] /\ unsure = {}
  /\ mishap = [NoMishap EXCEPT !.seen = Len(pending)]
  /\ spent = [faults |-> 0, crashes |-> 0]

Next ==
  \/ \E c \in Channels : Unsubscribe(c) \/ \E filter \in Filters : Subscribe(c, filter)
  \/ SetInMemory \/ Truncate \/ WriteFile \/ Patch \/ LoadConfig \/ Deliver
  \/ Restart

Spec == Init /\ [][Next]_vars

-------------------------------------------------------------------------------
(* Properties *)

(* What the users of the channel know. *)
Certain(c) == c \notin unsure /\ ~ Busy(c)

(* A subscription that was acknowledged ("Subscribed to ...") is stored    *)
(* until its own channel changes it, and no other is, across lost patches  *)
(* and restarts (app.go:89-143): unless a command read a cache that the    *)
(* informer had put back (kube_configmap.go:113), or a file was truncated  *)
(* but not written, after a stop or an error in between (fs.go:51).  The   *)
(* store in memory promises nothing beyond the process: a restart ends its *)
(* subscriptions and what was acknowledged of them (in_memory.go).         *)
SubscriptionKept ==
  \/ command.pc = "write" \/ mishap.misread \/ mishap.torn
  \/ \A c \in Channels :
       Certain(c) => acked[c] = {i.conclusions : i \in {s \in ToSet(stored) : s.channel = c}}

(* No channel is told what it did not ask for, or no longer wants,         *)
(* whenever the notifier reads the list (notifier.go:161-172), unless the  *)
(* list is an older one, put back by the informer.                         *)
OnlyMatchesTold ==
  \/ mishap.misread \/ mishap.rewound
  \/ \A conclusion \in Conclusions : \A c \in Told(Get, conclusion) :
       Certain(c) => \E filter \in acked[c] : filter = {} \/ conclusion \in filter

(* From the moment a channel is told it is subscribed (app.go:237-245), it *)
(* is notified of what matches its filter, whichever command is under way; *)
(* unless the filter of an earlier subscriber ends the loop                *)
(* (notifier.go:163), the conclusion is one that notify has no words for   *)
(* (notifier.go:126), the file is being written, or one of the mishaps.    *)
EveryMatchTold ==
  \/ command.pc = "write" \/ mishap.rewound \/ mishap.misread \/ mishap.torn
  \/ \A conclusion \in Conclusions \ Silent : \A c \in Channels : \A filter \in acked[c] :
       Certain(c) /\ (filter = {} \/ conclusion \in filter) =>
         \/ c \in Told(Get, conclusion)
         \/ \E k \in DOMAIN Get : Get[k].channel = c /\ CutOff(Get, k, conclusion)
===============================================================================
