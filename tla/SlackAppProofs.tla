----------------------------- MODULE SlackAppProofs ----------------------------
(***************************************************************************)
(* Proofs about SlackApp, for any stores, channels, conclusions, failures, *)
(* restarts and lag of the informer: what the stored and the cached list   *)
(* have to do with what the users of each channel were told.               *)
(***************************************************************************)
EXTENDS SlackApp, TLAPS, NaturalsInduction, WellFoundedInduction, SequenceTheorems

-------------------------------------------------------------------------------
(* What the loop over a list leaves *)

(* Induction, for a set of numbers. *)
LEMMA SetInduction ==
  ASSUME NEW T, 0 \in T, \A n \in Nat : n \in T => n + 1 \in T
  PROVE  \A n \in Nat : n \in T
<1> DEFINE Rest == {n \in Nat : n \notin T}
<1> SUFFICES ASSUME Rest # {} PROVE FALSE
  OBVIOUS
<1>1. PICK n \in Rest : \A m \in Rest : ~ (<<m, n>> \in OpToRel(<, Nat))
  <2>1. IsWellFoundedOn(OpToRel(<, Nat), Nat)
    BY NatLessThanWellFounded
  <2>2. Rest \subseteq Nat
    OBVIOUS
  <2> QED
    BY <2>1, <2>2, WFMin, Zenon
<1>2. n \in Nat /\ n # 0 /\ n - 1 \in Nat /\ n - 1 < n /\ (n - 1) + 1 = n
  OBVIOUS
<1>3. n - 1 \in T
  BY <1>1, <1>2 DEF OpToRel
<1> QED
  BY <1>2, <1>3

(* The turns of the loop: what is kept after k of them. *)
Turns(list, c, n, kept) ==
  kept = [k \in 0..n |->
            IF k = 0 THEN <<>>
            ELSE IF list[k].channel = c THEN kept[k - 1]
            ELSE Append(kept[k - 1], list[k])]

LEMMA TurnsExist ==
  ASSUME NEW list, NEW c
  PROVE  \A n \in Nat : \E kept : Turns(list, c, n, kept)
<1> DEFINE T == {n \in Nat : \E kept : Turns(list, c, n, kept)}
<1>1. 0 \in T
  <2>1. Turns(list, c, 0, [k \in 0..0 |-> <<>>])
    BY DEF Turns
  <2> QED
    BY <2>1
<1>2. ASSUME NEW n \in Nat, n \in T PROVE n + 1 \in T
  <2>1. PICK kept : Turns(list, c, n, kept)
    BY <1>2
  <2> DEFINE more == [k \in 0..(n + 1) |->
                        IF k <= n THEN kept[k]
                        ELSE IF list[k].channel = c THEN kept[k - 1]
                        ELSE Append(kept[k - 1], list[k])]
  <2>2. ASSUME NEW k \in 0..(n + 1)
        PROVE  more[k] = IF k = 0 THEN <<>>
                         ELSE IF list[k].channel = c THEN more[k - 1]
                         ELSE Append(more[k - 1], list[k])
    <3>1. \A j \in 0..n : kept[j] = IF j = 0 THEN <<>>
                                   ELSE IF list[j].channel = c THEN kept[j - 1]
                                   ELSE Append(kept[j - 1], list[j])
      BY <2>1 DEF Turns
    <3>2. k # 0 => k - 1 \in 0..n /\ k - 1 \in 0..(n + 1)
      OBVIOUS
    <3>3. k # 0 => more[k - 1] = kept[k - 1]
      BY <3>2
    <3>4. CASE k <= n
      BY <3>1, <3>3, <3>4
    <3>5. CASE k = n + 1
      BY <3>3, <3>5
    <3> QED
      BY <3>4, <3>5
  <2>3. more = [k \in 0..(n + 1) |-> more[k]]
    OBVIOUS
  <2> HIDE DEF more
  <2>4. Turns(list, c, n + 1, more)
    BY <2>2, <2>3 DEF Turns
  <2> QED
    BY <2>4
<1> HIDE DEF T
<1>3. \A n \in Nat : n \in T
  BY <1>1, <1>2, SetInduction
<1> QED
  BY <1>3 DEF T

LEMMA AppendSet ==
  ASSUME NEW S, NEW s \in Seq(S), NEW e \in S
  PROVE  ToSet(Append(s, e)) = ToSet(s) \cup {e}
<1> DEFINE t == Append(s, e)
           n == Len(s)
<1>1. n \in Nat /\ DOMAIN s = 1..n
  BY LenProperties
<1>2. t \in Seq(S) /\ Len(t) = n + 1 /\ (\A i \in 1..n : t[i] = s[i]) /\ t[n + 1] = e
  BY AppendProperties
<1>3. DOMAIN t = 1..n \cup {n + 1}
  BY <1>1, <1>2, LenProperties
<1> HIDE DEF t, n
<1>4. ToSet(t) = {t[i] : i \in 1..n} \cup {t[n + 1]}
  BY <1>3 DEF ToSet
<1>5. {t[i] : i \in 1..n} = {s[i] : i \in 1..n}
  BY <1>2
<1> QED
  BY <1>1, <1>2, <1>4, <1>5 DEF ToSet, t

(* What is left is a list again, of the entries of the other channels. *)
LEMMA OthersFacts ==
  ASSUME NEW S, NEW list \in Seq(S), NEW c
  PROVE  /\ Others(list, c) \in Seq(S)
         /\ ToSet(Others(list, c)) = {i \in ToSet(list) : i.channel # c}
<1> DEFINE kept == CHOOSE f : Turns(list, c, Len(list), f)
           From(k) == {i \in {list[j] : j \in 1..k} : i.channel # c}
           T == {k \in Nat : k <= Len(list) =>
                               kept[k] \in Seq(S) /\ ToSet(kept[k]) = From(k)}
<1>1. Len(list) \in Nat /\ DOMAIN list = 1..Len(list)
  BY LenProperties
<1>2. Turns(list, c, Len(list), kept)
  BY <1>1, TurnsExist
<1>3. Others(list, c) = kept[Len(list)]
  BY DEF Others, Turns
<1> HIDE DEF kept
<1>4. 0 \in T
  <2>1. kept[0] = <<>>
    BY <1>1, <1>2 DEF Turns
  <2>2. ToSet(<<>>) = {} /\ <<>> \in Seq(S)
    BY EmptySeq DEF ToSet
  <2>3. From(0) = {}
    OBVIOUS
  <2> QED
    BY <2>1, <2>2, <2>3
<1>5. ASSUME NEW k \in Nat, k \in T, k + 1 <= Len(list)
      PROVE  kept[k + 1] \in Seq(S) /\ ToSet(kept[k + 1]) = From(k + 1)
  <2>1. kept[k] \in Seq(S) /\ ToSet(kept[k]) = From(k)
    BY <1>5, <1>1
  <2>2. k + 1 \in 1..Len(list) /\ list[k + 1] \in S
    BY <1>1, <1>5, ElementOfSeq
  <2>3. kept[k + 1] = IF list[k + 1].channel = c THEN kept[k]
                      ELSE Append(kept[k], list[k + 1])
    <3>1. \A j \in 0..Len(list) :
            kept[j] = IF j = 0 THEN <<>>
                      ELSE IF list[j].channel = c THEN kept[j - 1]
                      ELSE Append(kept[j - 1], list[j])
      BY <1>2 DEF Turns
    <3>2. k + 1 \in 0..Len(list) /\ k + 1 # 0 /\ (k + 1) - 1 = k
      BY <2>2, <1>1
    <3> QED
      BY <3>1, <3>2
  <2>4. 1..(k + 1) = 1..k \cup {k + 1}
    OBVIOUS
  <2>5. CASE list[k + 1].channel = c
    BY <2>1, <2>3, <2>4, <2>5
  <2>6. CASE list[k + 1].channel # c
    <3>1. ToSet(Append(kept[k], list[k + 1])) = ToSet(kept[k]) \cup {list[k + 1]}
      BY <2>1, <2>2, AppendSet
    <3>2. Append(kept[k], list[k + 1]) \in Seq(S)
      BY <2>1, <2>2, AppendProperties
    <3> QED
      BY <2>1, <2>3, <2>4, <2>6, <3>1, <3>2
  <2> QED
    BY <2>5, <2>6
<1>6. ASSUME NEW k \in Nat, k \in T PROVE k + 1 \in T
  <2>1. CASE k + 1 <= Len(list)
    <3>1. kept[k + 1] \in Seq(S) /\ ToSet(kept[k + 1]) = From(k + 1)
      BY <2>1, <1>5, <1>6, Zenon
    <3> HIDE DEF From
    <3> QED
      BY <3>1
  <2>2. CASE ~ (k + 1 <= Len(list))
    BY <2>2
  <2> QED
    BY <2>1, <2>2
<1> HIDE DEF T
<1>7. Len(list) \in T
  BY <1>1, <1>4, <1>6, SetInduction
<1>8. From(Len(list)) = {i \in ToSet(list) : i.channel # c}
  BY <1>1 DEF ToSet
<1> QED
  BY <1>1, <1>3, <1>7, <1>8 DEF T

-------------------------------------------------------------------------------
(* The inductive invariant *)

Infos == [channel : Channels, conclusions : Filters]

Lists == Seq(Infos)

(* What a list says of a channel. *)
Entries(list, c) == {i.conclusions : i \in {s \in ToSet(list) : s.channel = c}}

Commands == [pc : {"set", "write", "load"}, channel : Channels,
             value : Lists, answer : SUBSET Filters]

Mishaps == [seen : Nat, rewound : BOOLEAN, misread : BOOLEAN, torn : BOOLEAN]

Typed ==
  /\ backend \in Backends
  /\ stored \in Lists /\ cached \in Lists /\ pending \in Seq(Lists)
  /\ command \in Commands \cup {Idle}
  /\ acked \in [Channels -> SUBSET Filters] /\ unsure \subseteq Channels
  /\ mishap \in Mishaps
  /\ spent \in [faults : 0..MaxFaults, crashes : 0..MaxCrashes]

(* What is where, by the store in use and the command under way. *)
Placed ==
  /\ mishap.seen <= Len(pending)
  /\ backend # "KubeConfigMap" => pending = <<>> /\ ~ mishap.rewound
  /\ command.pc = "write" => backend = "FS" /\ stored = <<>>
  /\ command.pc = "load" =>
       /\ backend = "KubeConfigMap" /\ stored = command.value
       /\ pending # <<>> => pending[Len(pending)] = command.value

(* A list says of each channel what its users know; or nothing, once a     *)
(* file was torn.                                                          *)
Good(list) ==
  \A c \in Channels :
    Certain(c) => /\ Entries(list, c) \subseteq acked[c]
                  /\ mishap.torn \/ acked[c] \subseteq Entries(list, c)

(* Every list that is or will be read is good: the one stored, the one in  *)
(* the cache but when it was put back, those on their way from the version *)
(* that Set has loaded on, and the one that a command will store, which    *)
(* says of the command's own channel what its users will be told.          *)
AllGood ==
  /\ command.pc # "write" => Good(stored)
  /\ backend = "KubeConfigMap" /\ ~ mishap.rewound => Good(cached)
  /\ \A k \in DOMAIN pending : k >= mishap.seen => Good(pending[k])
  /\ command.pc # "idle" => Good(command.value)

Answered ==
  command.pc # "idle" => Entries(command.value, command.channel) = command.answer

IInv == Typed /\ Placed /\ Answered /\ (mishap.misread \/ AllGood)

(* What a command does to what the list says of a channel. *)
LEMMA EntriesFacts ==
  ASSUME NEW list \in Lists, NEW c \in Channels
  PROVE  /\ Others(list, c) \in Lists /\ Entries(Others(list, c), c) = {}
         /\ \A d \in Channels : d # c => Entries(Others(list, c), d) = Entries(list, d)
         /\ \A filter \in Filters :
              /\ WithChannel(list, c, filter) \in Lists
              /\ Entries(WithChannel(list, c, filter), c) = {filter}
              /\ \A d \in Channels :
                   d # c => Entries(WithChannel(list, c, filter), d) = Entries(list, d)
<1>1. Others(list, c) \in Lists /\ ToSet(Others(list, c)) = {i \in ToSet(list) : i.channel # c}
  BY OthersFacts DEF Lists
<1>2. Entries(Others(list, c), c) = {}
  BY <1>1 DEF Entries
<1>3. ASSUME NEW d \in Channels, d # c PROVE Entries(Others(list, c), d) = Entries(list, d)
  BY <1>1, <1>3 DEF Entries
<1>4. ASSUME NEW filter \in Filters
      PROVE  /\ WithChannel(list, c, filter) \in Lists
             /\ Entries(WithChannel(list, c, filter), c) = {filter}
             /\ \A d \in Channels :
                  d # c => Entries(WithChannel(list, c, filter), d) = Entries(list, d)
  <2> DEFINE info == ChannelInfo(c, filter)
             left == Others(list, c)
             new  == WithChannel(list, c, filter)
  <2>1. info \in Infos /\ info.channel = c /\ info.conclusions = filter
    BY DEF ChannelInfo, Infos
  <2>2. left \in Seq(Infos) /\ new = Append(left, info)
    BY <1>1 DEF Lists, WithChannel
  <2> HIDE DEF info, left, new
  <2>3. new \in Lists /\ ToSet(new) = ToSet(left) \cup {info}
    BY <2>1, <2>2, AppendSet, AppendProperties DEF Lists
  <2>4. Entries(new, c) = Entries(left, c) \cup {filter}
    BY <2>1, <2>3 DEF Entries
  <2>5. \A d \in Channels : d # c => Entries(new, d) = Entries(left, d)
    BY <2>1, <2>3 DEF Entries
  <2> QED
    BY <1>2, <1>3, <2>3, <2>4, <2>5 DEF left, new
<1> QED
  BY <1>1, <1>2, <1>3, <1>4

LEMMA EmptyList == <<>> \in Lists /\ \A c : Entries(<<>>, c) = {}
BY EmptySeq DEF Lists, Entries, ToSet

LEMMA InitIInv == Init => IInv
<1> SUFFICES ASSUME Init PROVE IInv
  OBVIOUS
<1>1. <<>> \in Lists /\ \A c : Entries(<<>>, c) = {}
  BY EmptyList
<1>2. /\ pending \in Seq(Lists) /\ Len(pending) \in Nat
      /\ \A k \in DOMAIN pending : pending[k] = <<>>
      /\ backend # "KubeConfigMap" => pending = <<>>
  BY <1>1, EmptySeq, LenProperties DEF Init, Started
<1>3. mishap = [seen |-> Len(pending), rewound |-> FALSE, misread |-> FALSE, torn |-> FALSE]
  BY DEF Init, NoMishap
<1>4. mishap \in Mishaps
  BY <1>2, <1>3, Zenon DEF Mishaps
<1>5. command = Idle /\ command.pc = "idle"
  BY DEF Init, Idle
<1>6. spent \in [faults : 0..MaxFaults, crashes : 0..MaxCrashes]
  BY SlackBounds DEF Init
<1>7. Typed
  BY <1>1, <1>2, <1>4, <1>5, <1>6 DEF Init, Typed
<1>8. Placed
  BY <1>2, <1>3, <1>5 DEF Placed
<1>9. AllGood
  BY <1>1, <1>2, <1>5 DEF Init, AllGood, Good
<1> QED
  BY <1>5, <1>7, <1>8, <1>9 DEF IInv, Answered

(* A command that is worked out from a good list would store a good one.   *)
LEMMA SetStep ==
  ASSUME IInv, command.pc = "idle",
         NEW c \in Channels, NEW value \in Lists, NEW answer \in SUBSET Filters,
         Set(c, value, answer), Entries(value, c) = answer,
         \A d \in Channels : d # c => Entries(value, d) = Entries(Get, d)
  PROVE  IInv'
<1>1. /\ command' = [pc |-> "set", channel |-> c, value |-> value, answer |-> answer]
      /\ UNCHANGED <<backend, stored, cached, pending, acked, unsure, spent>>
      /\ mishap' = [mishap EXCEPT !.misread = mishap.misread \/ mishap.rewound]
  BY DEF Set
<1>2. Typed /\ Placed /\ (mishap.misread \/ AllGood)
  BY DEF IInv
<1>3. mishap \in Mishaps
  BY <1>2 DEF Typed
<1>4. /\ mishap' \in Mishaps /\ mishap'.seen = mishap.seen /\ mishap'.torn = mishap.torn
      /\ mishap'.rewound = mishap.rewound
      /\ ~ mishap'.misread => ~ mishap.misread /\ ~ mishap.rewound
  BY <1>1, <1>3 DEF Mishaps
<1>5. command' \in Commands
  BY <1>1 DEF Commands
<1>6. Typed'
  BY <1>1, <1>2, <1>4, <1>5 DEF Typed
<1>7. Placed'
  BY <1>1, <1>2, <1>4 DEF Placed
<1>8. Answered'
  BY <1>1 DEF Answered, Entries
<1>9. ASSUME ~ mishap'.misread PROVE AllGood'
  <2>1. AllGood /\ ~ mishap.rewound
    BY <1>2, <1>4, <1>9
  <2>2. Good(Get) /\ Good(stored)
    BY <2>1 DEF AllGood, Get
  <2>3. \A d \in Channels : Certain(d)' => Certain(d) /\ d # c
    BY <1>1 DEF Certain, Busy
  <2>4. Good(command.value)'
    BY <2>2, <2>3, <1>1, <1>4 DEF Good, Entries
  <2>5. Good(stored)' /\ (backend = "KubeConfigMap" => Good(cached)')
    BY <2>1, <2>2, <2>3, <1>1, <1>4 DEF AllGood, Good, Entries
  <2>6. (\A k \in DOMAIN pending : k >= mishap.seen => Good(pending[k]))'
    BY <2>1, <2>3, <1>1, <1>4 DEF AllGood, Good, Entries
  <2> QED
    BY <2>4, <2>5, <2>6, <1>1 DEF AllGood
<1> QED
  BY <1>6, <1>7, <1>8, <1>9 DEF IInv

(* What users are told of a command is what its list says, and it says of  *)
(* the other channels what it did.                                         *)
LEMMA AckGood ==
  ASSUME Typed, Answered, AllGood, command.pc # "idle", Ack, mishap'.torn = mishap.torn
  PROVE  \A d \in Channels : Certain(d)' =>
           /\ Entries(command.value, d) \subseteq acked'[d]
           /\ mishap'.torn \/ acked'[d] \subseteq Entries(command.value, d)
<1> SUFFICES ASSUME NEW d \in Channels, Certain(d)'
             PROVE  /\ Entries(command.value, d) \subseteq acked'[d]
                    /\ mishap'.torn \/ acked'[d] \subseteq Entries(command.value, d)
  OBVIOUS
<1>1. /\ acked' = [acked EXCEPT ![command.channel] = command.answer]
      /\ unsure' = unsure \ {command.channel}
      /\ acked \in [Channels -> SUBSET Filters]
  BY DEF Ack, Typed
<1>2. CASE d = command.channel
  BY <1>1, <1>2 DEF Answered
<1>3. CASE d # command.channel
  <2>1. Certain(d)
    BY <1>1, <1>3 DEF Certain, Busy
  <2> QED
    BY <2>1, <1>1, <1>3 DEF AllGood, Good
<1> QED
  BY <1>2, <1>3

(* The types of what Ack and Refuse change. *)
LEMMA AnswerTypes ==
  ASSUME Typed, command.pc # "idle", Ack \/ Refuse
  PROVE  /\ command' = Idle /\ command'.pc = "idle"
         /\ acked' \in [Channels -> SUBSET Filters] /\ unsure' \subseteq Channels
         /\ command \in Commands
<1>1. command \in Commands
  BY DEF Typed, Idle
<1>2. command.channel \in Channels /\ command.answer \in SUBSET Filters
  BY <1>1 DEF Commands
<1>3. command' = Idle /\ command'.pc = "idle"
  BY DEF Ack, Refuse, Idle
<1>4. acked' \in [Channels -> SUBSET Filters] /\ unsure' \subseteq Channels
  BY <1>2 DEF Ack, Refuse, Typed
<1> QED
  BY <1>1, <1>3, <1>4

LEMMA InMemoryStep == ASSUME IInv, SetInMemory PROVE IInv'
<1>1. Typed /\ Placed /\ Answered /\ (mishap.misread \/ AllGood)
  BY DEF IInv
<1>2. /\ command.pc = "set" /\ backend = "InMemory" /\ stored' = command.value
      /\ Ack /\ UNCHANGED <<backend, cached, pending, mishap, spent>>
  BY DEF SetInMemory
<1>3. /\ command'.pc = "idle" /\ command' = Idle /\ command \in Commands
      /\ acked' \in [Channels -> SUBSET Filters] /\ unsure' \subseteq Channels
  BY <1>1, <1>2, AnswerTypes
<1>4. pending = <<>> /\ DOMAIN pending = {}
  BY <1>1, <1>2, EmptySeq DEF Placed
<1>5. Typed'
  BY <1>1, <1>2, <1>3 DEF Typed, Commands
<1>6. Placed' /\ Answered'
  BY <1>1, <1>2, <1>3 DEF Placed, Answered
<1>7. ASSUME AllGood PROVE AllGood'
  <2>1. Good(stored)'
    BY <1>1, <1>2, <1>7, AckGood DEF Good, Entries
  <2> QED
    BY <2>1, <1>2, <1>3, <1>4 DEF AllGood
<1> QED
  BY <1>1, <1>2, <1>5, <1>6, <1>7 DEF IInv

LEMMA TruncateStep == ASSUME IInv, Truncate PROVE IInv'
<1>1. Typed /\ Placed /\ Answered /\ (mishap.misread \/ AllGood)
  BY DEF IInv
<1>2. /\ command.pc = "set" /\ backend = "FS"
      /\ UNCHANGED <<backend, cached, pending, mishap>>
  BY DEF Truncate
<1>3. pending = <<>> /\ DOMAIN pending = {} /\ command \in Commands
  BY <1>1, <1>2, EmptySeq DEF Placed, Typed, Idle
<1>4. CASE /\ stored' = <<>> /\ command' = [command EXCEPT !.pc = "write"]
           /\ UNCHANGED <<acked, unsure, spent>>
  <2>1. /\ command' \in Commands /\ command'.pc = "write"
        /\ command'.channel = command.channel /\ command'.value = command.value
        /\ command'.answer = command.answer
    BY <1>3, <1>4 DEF Commands
  <2>2. Typed'
    BY <2>1, <1>1, <1>2, <1>4, EmptyList DEF Typed
  <2>3. Placed' /\ Answered'
    BY <2>1, <1>1, <1>2, <1>4 DEF Placed, Answered, Entries
  <2>4. ASSUME AllGood PROVE AllGood'
    <3>1. \A d \in Channels : Certain(d)' <=> Certain(d)
      BY <2>1, <1>2, <1>4 DEF Certain, Busy
    <3>2. Good(command.value)'
      BY <2>1, <2>4, <3>1, <1>2, <1>4 DEF AllGood, Good, Entries
    <3> QED
      BY <2>1, <3>2, <1>2, <1>3 DEF AllGood
  <2> QED
    BY <2>2, <2>3, <2>4, <1>1, <1>2 DEF IInv
<1>5. CASE Fault /\ Refuse /\ UNCHANGED stored
  <2>1. /\ command'.pc = "idle" /\ command' = Idle
        /\ acked' \in [Channels -> SUBSET Filters] /\ unsure' \subseteq Channels
    BY <1>1, <1>2, <1>5, AnswerTypes
  <2>2. spent' \in [faults : 0..MaxFaults, crashes : 0..MaxCrashes]
    BY <1>1, <1>5, SlackBounds DEF Fault, Typed
  <2>3. Typed'
    BY <2>1, <2>2, <1>1, <1>2, <1>5 DEF Typed
  <2>4. Placed' /\ Answered'
    BY <2>1, <1>1, <1>2, <1>5 DEF Placed, Answered
  <2>5. ASSUME AllGood PROVE AllGood'
    <3>1. \A d \in Channels : Certain(d)' => Certain(d)
      BY <2>1, <1>5 DEF Certain, Busy, Refuse
    <3>2. Good(stored)'
      BY <2>5, <3>1, <1>2, <1>5 DEF AllGood, Good, Entries, Refuse
    <3> QED
      BY <2>1, <3>2, <1>2, <1>3 DEF AllGood
  <2> QED
    BY <2>3, <2>4, <2>5, <1>1, <1>2 DEF IInv
<1> QED
  BY <1>4, <1>5 DEF Truncate

LEMMA WriteStep == ASSUME IInv, WriteFile PROVE IInv'
<1>1. Typed /\ Placed /\ Answered /\ (mishap.misread \/ AllGood)
  BY DEF IInv
<1>2. command.pc = "write" /\ UNCHANGED <<backend, cached, pending>>
  BY DEF WriteFile
<1>3. /\ backend = "FS" /\ pending = <<>> /\ DOMAIN pending = {} /\ stored = <<>>
      /\ mishap \in Mishaps
  BY <1>1, <1>2, EmptySeq DEF Placed, Typed
<1>4. Ack \/ Refuse
  BY DEF WriteFile
<1>5. /\ command'.pc = "idle" /\ command' = Idle /\ command \in Commands
      /\ acked' \in [Channels -> SUBSET Filters] /\ unsure' \subseteq Channels
  BY <1>1, <1>2, <1>4, AnswerTypes
<1>6. CASE stored' = command.value /\ Ack /\ UNCHANGED <<mishap, spent>>
  <2>1. Typed'
    BY <1>1, <1>2, <1>5, <1>6 DEF Typed, Commands
  <2>2. Placed' /\ Answered'
    BY <1>1, <1>2, <1>5, <1>6 DEF Placed, Answered
  <2>3. ASSUME AllGood PROVE AllGood'
    <3>1. Good(stored)'
      BY <2>3, <1>1, <1>2, <1>6, AckGood DEF Good, Entries
    <3> QED
      BY <3>1, <1>2, <1>3, <1>5 DEF AllGood
  <2> QED
    BY <2>1, <2>2, <2>3, <1>1, <1>6 DEF IInv
<1>7. CASE /\ Fault /\ Refuse /\ mishap' = [mishap EXCEPT !.torn = TRUE]
           /\ UNCHANGED stored
  <2>1. spent' \in [faults : 0..MaxFaults, crashes : 0..MaxCrashes]
    BY <1>1, <1>7, SlackBounds DEF Fault, Typed
  <2>2. /\ mishap' \in Mishaps /\ mishap'.seen = mishap.seen /\ mishap'.torn
        /\ mishap'.misread = mishap.misread /\ mishap'.rewound = mishap.rewound
    BY <1>3, <1>7 DEF Mishaps
  <2>3. Typed'
    BY <2>1, <2>2, <1>1, <1>2, <1>5, <1>7 DEF Typed
  <2>4. Placed' /\ Answered'
    BY <2>2, <1>1, <1>2, <1>5, <1>7 DEF Placed, Answered
  <2>5. AllGood'
    <3>1. Good(stored)'
      BY <2>2, <1>3, <1>7, EmptyList DEF Good, Entries
    <3> QED
      BY <3>1, <1>2, <1>3, <1>5 DEF AllGood
  <2> QED
    BY <2>3, <2>4, <2>5 DEF IInv
<1> QED
  BY <1>6, <1>7 DEF WriteFile

LEMMA PatchStep == ASSUME IInv, Patch PROVE IInv'
<1>1. Typed /\ Placed /\ Answered /\ (mishap.misread \/ AllGood)
  BY DEF IInv
<1>2. /\ command.pc = "set" /\ backend = "KubeConfigMap"
      /\ UNCHANGED <<backend, cached, mishap>>
  BY DEF Patch
<1>3. /\ command \in Commands /\ command.value \in Lists /\ pending \in Seq(Lists)
      /\ Len(pending) \in Nat /\ DOMAIN pending = 1..Len(pending)
      /\ mishap.seen \in Nat /\ mishap.seen <= Len(pending)
  BY <1>1, <1>2, LenProperties DEF Placed, Typed, Idle, Commands, Mishaps
(* The command goes on, or is refused. *)
<1>4. /\ command' \in Commands \cup {Idle}
      /\ acked' = acked /\ unsure \subseteq unsure' /\ unsure' \subseteq Channels
      /\ spent' \in [faults : 0..MaxFaults, crashes : 0..MaxCrashes]
      /\ command'.pc \in {"load", "idle"}
      /\ command'.pc = "load" =>
           /\ command'.value = command.value /\ command'.channel = command.channel
           /\ command'.answer = command.answer /\ unsure' = unsure
      /\ \A d \in Channels : Certain(d)' => Certain(d)
  <2>1. CASE command' = [command EXCEPT !.pc = "load"] /\ UNCHANGED <<acked, unsure, spent>>
    <3>1. /\ command' \in Commands /\ command'.pc = "load"
          /\ command'.value = command.value /\ command'.channel = command.channel
          /\ command'.answer = command.answer
      BY <2>1, <1>3 DEF Commands
    <3>2. \A d \in Channels : Certain(d)' => Certain(d)
      BY <3>1, <2>1, <1>2 DEF Certain, Busy
    <3> QED
      BY <3>1, <3>2, <2>1, <1>1 DEF Typed
  <2>2. CASE Fault /\ Refuse
    <3>1. command' = Idle /\ command'.pc = "idle" /\ unsure' \subseteq Channels
      BY <2>2, <1>1, <1>2, AnswerTypes
    <3>2. spent' \in [faults : 0..MaxFaults, crashes : 0..MaxCrashes]
      BY <2>2, <1>1, SlackBounds DEF Fault, Typed
    <3>3. acked' = acked /\ unsure \subseteq unsure'
      BY <2>2 DEF Refuse
    <3>4. \A d \in Channels : Certain(d)' => Certain(d)
      BY <2>2, <3>1 DEF Certain, Busy, Refuse
    <3> QED
      BY <3>1, <3>2, <3>3, <3>4
  <2> QED
    BY <2>1, <2>2 DEF Patch
<1>5. CASE stored' = command.value /\ pending' = Append(pending, command.value)
  <2>1. /\ pending' \in Seq(Lists) /\ Len(pending') = Len(pending) + 1
        /\ DOMAIN pending' = 1..(Len(pending) + 1)
        /\ \A k \in 1..Len(pending) : pending'[k] = pending[k]
        /\ pending'[Len(pending')] = command.value
    BY <1>3, <1>5, AppendProperties, LenProperties
  <2>2. Typed'
    BY <2>1, <1>1, <1>2, <1>3, <1>4, <1>5 DEF Typed
  <2>3. Placed'
    BY <2>1, <1>1, <1>2, <1>3, <1>4, <1>5 DEF Placed
  <2>4. Answered'
    BY <1>1, <1>2, <1>4 DEF Answered, Entries
  <2>5. ASSUME AllGood PROVE AllGood'
    <3>1. Good(stored)' /\ (command'.pc # "idle" => Good(command.value)')
      BY <2>5, <1>2, <1>4, <1>5 DEF AllGood, Good, Entries
    <3>2. ~ mishap.rewound => Good(cached)'
      BY <2>5, <1>2, <1>4 DEF AllGood, Good, Entries
    <3>3. ASSUME NEW k \in DOMAIN pending', k >= mishap'.seen PROVE Good(pending[k])'
      <4>1. Good(command.value)
        BY <2>5, <1>2 DEF AllGood
      <4>2. CASE k \in 1..Len(pending)
        BY <4>2, <3>3, <2>1, <2>5, <1>2, <1>3, <1>4 DEF AllGood, Good, Entries
      <4>3. CASE k = Len(pending')
        BY <4>1, <4>3, <2>1, <1>2, <1>4 DEF Good, Entries
      <4> QED
        BY <4>2, <4>3, <2>1, <1>3
    <3> QED
      BY <3>1, <3>2, <3>3, <1>2, <1>4 DEF AllGood
  <2> QED
    BY <2>2, <2>3, <2>4, <2>5, <1>1, <1>2 DEF IInv
<1>6. CASE command'.pc = "idle" /\ UNCHANGED <<stored, pending>>
  <2>1. Typed'
    BY <1>1, <1>2, <1>4, <1>6 DEF Typed
  <2>2. Placed' /\ Answered'
    BY <1>1, <1>2, <1>6 DEF Placed, Answered
  <2>3. ASSUME AllGood PROVE AllGood'
    <3>1. Good(stored)' /\ (~ mishap.rewound => Good(cached)')
      BY <2>3, <1>2, <1>4, <1>6 DEF AllGood, Good, Entries
    <3>2. (\A k \in DOMAIN pending : k >= mishap.seen => Good(pending[k]))'
      BY <2>3, <1>2, <1>4, <1>6 DEF AllGood, Good, Entries
    <3> QED
      BY <3>1, <3>2, <1>2, <1>6 DEF AllGood
  <2> QED
    BY <2>1, <2>2, <2>3, <1>1, <1>2 DEF IInv
<1> QED
  BY <1>5, <1>6 DEF Patch

LEMMA LoadStep == ASSUME IInv, LoadConfig PROVE IInv'
<1>1. Typed /\ Placed /\ Answered /\ (mishap.misread \/ AllGood)
  BY DEF IInv
<1>2. /\ command.pc = "load" /\ cached' = command.value /\ Ack
      /\ mishap' = [mishap EXCEPT !.seen = Len(pending), !.rewound = FALSE]
      /\ UNCHANGED <<backend, stored, pending, spent>>
  BY DEF LoadConfig
<1>3. /\ command'.pc = "idle" /\ command' = Idle /\ command \in Commands
      /\ acked' \in [Channels -> SUBSET Filters] /\ unsure' \subseteq Channels
  BY <1>1, <1>2, AnswerTypes
<1>4. /\ mishap \in Mishaps /\ Len(pending) \in Nat /\ DOMAIN pending = 1..Len(pending)
      /\ backend = "KubeConfigMap" /\ stored = command.value
      /\ pending # <<>> => pending[Len(pending)] = command.value
  BY <1>1, <1>2, LenProperties DEF Typed, Placed
<1>5. /\ mishap' \in Mishaps /\ mishap'.seen = Len(pending) /\ ~ mishap'.rewound
      /\ mishap'.misread = mishap.misread /\ mishap'.torn = mishap.torn
  BY <1>2, <1>4 DEF Mishaps
<1>6. Typed'
  BY <1>1, <1>2, <1>3, <1>5 DEF Typed, Commands
<1>7. Placed' /\ Answered'
  BY <1>1, <1>2, <1>3, <1>4, <1>5 DEF Placed, Answered
<1>8. ASSUME AllGood PROVE AllGood'
  <2>1. \A d \in Channels : Certain(d)' =>
          /\ Entries(command.value, d) \subseteq acked'[d]
          /\ mishap'.torn \/ acked'[d] \subseteq Entries(command.value, d)
    BY <1>1, <1>2, <1>5, <1>8, AckGood
  <2>2. Good(stored)' /\ Good(cached)'
    BY <2>1, <1>2, <1>4 DEF Good, Entries
  <2>3. ASSUME NEW k \in DOMAIN pending, k >= Len(pending) PROVE Good(pending[k])'
    <3>1. pending[k] = command.value
      BY <2>3, <1>4, EmptySeq
    <3> QED
      BY <3>1, <2>1, <1>2 DEF Good, Entries
  <2> QED
    BY <2>2, <2>3, <1>2, <1>3, <1>5 DEF AllGood
<1> QED
  BY <1>1, <1>5, <1>6, <1>7, <1>8 DEF IInv

LEMMA DeliverStep == ASSUME IInv, Deliver PROVE IInv'
<1>1. Typed /\ Placed /\ Answered /\ (mishap.misread \/ AllGood)
  BY DEF IInv
<1>2. /\ pending # <<>> /\ cached' = Head(pending) /\ pending' = Tail(pending)
      /\ mishap' = [mishap EXCEPT !.seen = IF mishap.seen = 0 THEN 0 ELSE mishap.seen - 1,
                                  !.rewound = mishap.seen > 1]
      /\ UNCHANGED <<backend, stored, command, acked, unsure, spent>>
  BY DEF Deliver
<1>3. /\ mishap \in Mishaps /\ pending \in Seq(Lists) /\ Len(pending) \in Nat
      /\ DOMAIN pending = 1..Len(pending) /\ 1 \in DOMAIN pending
      /\ mishap.seen \in Nat /\ mishap.seen <= Len(pending)
      /\ backend = "KubeConfigMap"
  BY <1>1, <1>2, LenProperties, EmptySeq DEF Typed, Placed, Mishaps
<1>4. /\ cached' = pending[1] /\ cached' \in Lists
      /\ pending' \in Seq(Lists) /\ Len(pending') = Len(pending) - 1
      /\ DOMAIN pending' = 1..(Len(pending) - 1)
      /\ \A k \in 1..(Len(pending) - 1) : pending'[k] = pending[k + 1]
  BY <1>2, <1>3, HeadTailProperties, LenProperties
<1>5. /\ mishap' \in Mishaps
      /\ mishap'.seen = IF mishap.seen = 0 THEN 0 ELSE mishap.seen - 1
      /\ ~ mishap'.rewound => mishap.seen <= 1
      /\ mishap'.misread = mishap.misread /\ mishap'.torn = mishap.torn
  <2> DEFINE seen == IF mishap.seen = 0 THEN 0 ELSE mishap.seen - 1
             rewound == mishap.seen > 1
  <2>1. seen \in Nat /\ mishap' = [mishap EXCEPT !.seen = seen, !.rewound = rewound]
    BY <1>2, <1>3
  <2>2. rewound \in BOOLEAN
    BY <1>3
  <2>3. ~ rewound => mishap.seen <= 1
    BY <1>3
  <2> HIDE DEF seen, rewound
  <2>4. /\ mishap' \in Mishaps /\ mishap'.seen = seen /\ mishap'.rewound = rewound
        /\ mishap'.misread = mishap.misread /\ mishap'.torn = mishap.torn
    BY <2>1, <2>2, <1>3 DEF Mishaps
  <2> QED
    BY <2>3, <2>4 DEF seen
<1>6. Typed'
  BY <1>1, <1>2, <1>4, <1>5 DEF Typed
<1>7. Placed'
  <2>1. pending' # <<>> => Len(pending) > 1 /\ pending'[Len(pending')] = pending[Len(pending)]
    BY <1>3, <1>4, EmptySeq
  <2>2. mishap'.seen <= Len(pending')
    BY <1>3, <1>4, <1>5
  <2> QED
    BY <2>1, <2>2, <1>1, <1>2, <1>3 DEF Placed
<1>8. Answered'
  BY <1>1, <1>2 DEF Answered, Entries
<1>9. ASSUME AllGood PROVE AllGood'
  <2>1. \A d \in Channels : Certain(d)' <=> Certain(d)
    BY <1>2 DEF Certain, Busy
  <2>2. command.pc # "write" => Good(stored)'
    BY <2>1, <1>2, <1>5, <1>9 DEF AllGood, Good, Entries
  <2>3. command.pc # "idle" => Good(command.value)'
    BY <2>1, <1>2, <1>5, <1>9 DEF AllGood, Good, Entries
  <2>4. ~ mishap'.rewound => Good(cached)'
    BY <2>1, <1>2, <1>3, <1>4, <1>5, <1>9 DEF AllGood, Good, Entries
  <2>5. ASSUME NEW k \in DOMAIN pending', k >= mishap'.seen PROVE Good(pending[k])'
    <3>1. k + 1 \in DOMAIN pending /\ k + 1 >= mishap.seen /\ pending'[k] = pending[k + 1]
      BY <2>5, <1>3, <1>4, <1>5
    <3>2. Good(pending[k + 1])
      BY <3>1, <1>9 DEF AllGood
    <3> QED
      BY <3>1, <3>2, <2>1, <1>2, <1>5 DEF Good, Entries
  <2> QED
    BY <2>2, <2>3, <2>4, <2>5, <1>2 DEF AllGood
<1> QED
  BY <1>1, <1>5, <1>6, <1>7, <1>8, <1>9 DEF IInv

LEMMA RestartStep == ASSUME IInv, Restart PROVE IInv'
<1>1. Typed /\ Placed /\ Answered /\ (mishap.misread \/ AllGood)
  BY DEF IInv
<1>2. /\ backend' = backend /\ cached' = stored' /\ pending' = Started(stored')
      /\ stored' = (IF backend = "InMemory" THEN <<>> ELSE stored)
      /\ acked' = (IF backend = "InMemory" THEN [c \in Channels |-> {}] ELSE acked)
      /\ unsure' = (IF backend = "InMemory" THEN {}
                    ELSE unsure \cup {c \in Channels : Busy(c)})
  BY DEF Restart, Started
<1>3. command' = Idle /\ command'.pc = "idle"
  BY DEF Restart, Idle
<1>4. mishap \in Mishaps /\ stored' \in Lists
  BY <1>1, <1>2, EmptyList DEF Typed
<1>5. /\ pending' \in Seq(Lists) /\ Len(pending') \in Nat
      /\ \A k \in DOMAIN pending' : pending'[k] = stored'
      /\ backend # "KubeConfigMap" => pending' = <<>>
  BY <1>2, <1>4, EmptySeq DEF Started
<1>6. /\ mishap' \in Mishaps /\ mishap'.seen = Len(pending') /\ ~ mishap'.rewound
      /\ mishap'.misread = mishap.misread
      /\ mishap'.torn <=> mishap.torn \/ command.pc = "write"
  <2> DEFINE torn == mishap.torn \/ command.pc = "write"
  <2>1. torn \in BOOLEAN
    BY <1>4
  <2>2. mishap' = [mishap EXCEPT !.seen = Len(pending'), !.rewound = FALSE, !.torn = torn]
    BY DEF Restart
  <2> HIDE DEF torn
  <2>3. /\ mishap' \in Mishaps /\ mishap'.seen = Len(pending') /\ ~ mishap'.rewound
        /\ mishap'.misread = mishap.misread /\ mishap'.torn = torn
    BY <2>1, <2>2, <1>4, <1>5 DEF Mishaps
  <2> QED
    BY <2>3 DEF torn
<1>7. spent' \in [faults : 0..MaxFaults, crashes : 0..MaxCrashes]
  BY <1>1, SlackBounds DEF Restart, Typed
<1>8. acked' \in [Channels -> SUBSET Filters] /\ unsure' \subseteq Channels
  BY <1>1, <1>2 DEF Typed
<1>9. Typed'
  BY <1>1, <1>2, <1>3, <1>4, <1>5, <1>6, <1>7, <1>8 DEF Typed
<1>10. Placed' /\ Answered'
  BY <1>2, <1>3, <1>5, <1>6 DEF Placed, Answered
<1>11. ASSUME AllGood PROVE AllGood'
  <2>1. Good(stored)'
    <3>1. CASE backend = "InMemory"
      BY <3>1, <1>2, EmptyList DEF Good, Entries
    <3>2. CASE backend # "InMemory" /\ command.pc = "write"
      <4>1. stored' = <<>> /\ mishap'.torn
        BY <3>2, <1>1, <1>2, <1>6 DEF Placed
      <4> QED
        BY <4>1, EmptyList DEF Good, Entries
    <3>3. CASE backend # "InMemory" /\ command.pc # "write"
      <4>1. \A d \in Channels : Certain(d)' => Certain(d)
        BY <3>3, <1>2 DEF Certain
      <4> QED
        BY <4>1, <3>3, <1>2, <1>6, <1>11 DEF AllGood, Good, Entries
    <3> QED
      BY <3>1, <3>2, <3>3
  <2>2. Good(cached)'
    BY <2>1, <1>2 DEF Good, Entries
  <2>3. (\A k \in DOMAIN pending : Good(pending[k]))'
    BY <2>1, <1>5 DEF Good, Entries
  <2> QED
    BY <2>1, <2>2, <2>3, <1>3 DEF AllGood
<1> QED
  BY <1>1, <1>6, <1>9, <1>10, <1>11 DEF IInv

LEMMA GetTypes == Typed => Get \in Lists
BY DEF Typed, Get

LEMMA StepIInv == IInv /\ [Next]_vars => IInv'
<1> SUFFICES ASSUME IInv, [Next]_vars PROVE IInv'
  OBVIOUS
<1>1. Get \in Lists
  BY GetTypes DEF IInv
<1>2. ASSUME NEW c \in Channels, Unsubscribe(c) PROVE IInv'
  <2>1. command.pc = "idle" /\ Set(c, Others(Get, c), {}) /\ {} \in SUBSET Filters
    BY <1>2 DEF Unsubscribe
  <2>2. /\ Others(Get, c) \in Lists /\ Entries(Others(Get, c), c) = {}
        /\ \A d \in Channels : d # c => Entries(Others(Get, c), d) = Entries(Get, d)
    BY <1>1, EntriesFacts
  <2> QED
    BY <2>1, <2>2, SetStep
<1>3. ASSUME NEW c \in Channels, NEW filter \in Filters, Subscribe(c, filter) PROVE IInv'
  <2> DEFINE new == WithChannel(Get, c, filter)
  <2>1. command.pc = "idle" /\ Set(c, new, {filter}) /\ {filter} \in SUBSET Filters
    BY <1>3 DEF Subscribe
  <2>2. /\ new \in Lists /\ Entries(new, c) = {filter}
        /\ \A d \in Channels : d # c => Entries(new, d) = Entries(Get, d)
    BY <1>1, EntriesFacts
  <2> QED
    BY <2>1, <2>2, SetStep
<1>4. CASE SetInMemory
  BY <1>4, InMemoryStep
<1>5. CASE Truncate
  BY <1>5, TruncateStep
<1>6. CASE WriteFile
  BY <1>6, WriteStep
<1>7. CASE Patch
  BY <1>7, PatchStep
<1>8. CASE LoadConfig
  BY <1>8, LoadStep
<1>9. CASE Deliver
  BY <1>9, DeliverStep
<1>10. CASE Restart
  BY <1>10, RestartStep
<1>11. CASE UNCHANGED vars
  BY <1>11 DEF vars, IInv, Typed, Placed, Answered, AllGood, Good, Entries, Certain, Busy
<1> QED
  BY <1>2, <1>3, <1>4, <1>5, <1>6, <1>7, <1>8, <1>9, <1>10, <1>11 DEF Next

LEMMA Invariant == Spec => []IInv
BY InitIInv, StepIInv, PTL DEF Spec

-------------------------------------------------------------------------------
(* The properties *)

(* An acknowledged subscription is stored until its own channel changes    *)
(* it, and no other is, unless a command read a cache the informer had put *)
(* back or a file was torn (app.go:89-143).                                *)
THEOREM SubscriptionKeptCorrect == Spec => []SubscriptionKept
<1>1. IInv => SubscriptionKept
  BY DEF IInv, AllGood, Good, Entries, SubscriptionKept
<1> QED
  BY Invariant, <1>1, PTL

(* What the notifier reads is good, or a file that is being written.       *)
LEMMA GetGood ==
  ASSUME IInv, ~ mishap.misread, ~ mishap.rewound
  PROVE  /\ Get \in Lists /\ DOMAIN Get = 1..Len(Get)
         /\ Good(Get) \/ (command.pc = "write" /\ Get = <<>>)
<1>1. Get \in Lists
  BY GetTypes DEF IInv
<1>2. DOMAIN Get = 1..Len(Get)
  BY <1>1, LenProperties DEF Lists
<1>3. Good(Get) \/ (command.pc = "write" /\ Get = <<>>)
  BY DEF IInv, AllGood, Placed, Get
<1> QED
  BY <1>1, <1>2, <1>3

(* No channel is told what it did not ask for, whenever the notifier reads *)
(* the list (notifier.go:161-172), unless the informer has put back an     *)
(* older one.                                                              *)
THEOREM OnlyMatchesToldCorrect == Spec => []OnlyMatchesTold
<1>1. IInv => OnlyMatchesTold
  <2> SUFFICES ASSUME IInv, ~ mishap.misread, ~ mishap.rewound,
                      NEW conclusion \in Conclusions, NEW c \in Told(Get, conclusion),
                      Certain(c)
               PROVE  \E filter \in acked[c] : filter = {} \/ conclusion \in filter
    BY DEF OnlyMatchesTold
  <2>1. PICK k \in DOMAIN Get : c = Get[k].channel /\ Matches(Get[k], conclusion)
    BY DEF Told
  <2>2. Get \in Lists /\ Good(Get)
    BY <2>1, GetGood, EmptySeq
  <2>3. Get[k] \in Infos
    BY <2>1, <2>2, GetGood, ElementOfSeq DEF Lists
  <2>4. Get[k].conclusions \in Entries(Get, c)
    BY <2>1 DEF Entries, ToSet
  <2>5. Get[k].conclusions \in acked[c]
    BY <2>1, <2>2, <2>3, <2>4 DEF Good, Infos
  <2> QED
    BY <2>1, <2>5 DEF Matches
<1> QED
  BY Invariant, <1>1, PTL

(* Once told it is subscribed a channel is notified of all that matches    *)
(* its filter (app.go:237-245), but for the mishaps and for the filter of  *)
(* an earlier subscriber that ends the loop (notifier.go:163).             *)
THEOREM EveryMatchToldCorrect == Spec => []EveryMatchTold
<1>1. IInv => EveryMatchTold
  <2> SUFFICES ASSUME IInv, command.pc # "write", ~ mishap.rewound, ~ mishap.misread,
                      ~ mishap.torn, NEW conclusion \in Conclusions \ Silent,
                      NEW c \in Channels, NEW filter \in acked[c], Certain(c),
                      filter = {} \/ conclusion \in filter
               PROVE  \/ c \in Told(Get, conclusion)
                      \/ \E k \in DOMAIN Get :
                           Get[k].channel = c /\ CutOff(Get, k, conclusion)
    BY DEF EveryMatchTold
  <2>1. filter \in Entries(Get, c)
    BY GetGood DEF Good
  <2>2. PICK k \in DOMAIN Get : Get[k].channel = c /\ Get[k].conclusions = filter
    BY <2>1 DEF Entries, ToSet
  <2>3. Matches(Get[k], conclusion)
    BY <2>2 DEF Matches
  <2>4. ~ CutOff(Get, k, conclusion) => c \in Told(Get, conclusion)
    BY <2>2, <2>3 DEF Told
  <2> QED
    BY <2>2, <2>4
<1> QED
  BY Invariant, <1>1, PTL
===============================================================================
