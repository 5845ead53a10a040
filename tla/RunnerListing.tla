----------------------------- MODULE RunnerListing -----------------------------
(***************************************************************************)
(* What a listing of GitHub's runners promises, however many pages it is   *)
(* read in: each runner is shown as GitHub had it while the list was read; *)
(* one that is there from beginning to end is shown, unless another has    *)
(* left meanwhile, and each that leaves makes the listing pass over one at *)
(* the most.                                                               *)
(***************************************************************************)
CONSTANT Instances  \* runners: a name and an id

VARIABLES
  runners,  \* those registered at GitHub
  reading,  \* what the listing in progress shows so far
  unread,   \* those the listing has yet to come to
  shown     \* the last listing that was finished

listingVars == <<runners, reading, unread, shown>>

AtMostOne(S) == {{}} \cup {{x} : x \in S}

(* A name is shown once, as it was read last. *)
Put(old, new) == {i \in old : \A j \in new : j.name # i.name} \cup new

Register(i) ==
  /\ i \notin runners /\ runners' = runners \cup {i}
  /\ \E mine \in SUBSET {i}, again \in AtMostOne(runners) : unread' = unread \cup mine \cup again
  /\ UNCHANGED <<reading, shown>>

Leave(i) ==
  /\ i \in runners /\ runners' = runners \ {i}
  /\ \E skipped \in AtMostOne(unread \ {i}) : unread' = unread \ ({i} \cup skipped)
  /\ UNCHANGED <<reading, shown>>

Read ==
  /\ \E page \in SUBSET unread : reading' = Put(reading, page) /\ unread' = unread \ page
  /\ UNCHANGED <<runners, shown>>

Finish ==
  /\ unread = {}
  /\ shown' = reading
  /\ reading' = {} /\ unread' = runners
  /\ UNCHANGED runners

(* Whoever lists starts again and shows nothing until it has read a list. *)
StartAgain ==
  /\ shown' = {} /\ reading' = {} /\ unread' = runners
  /\ UNCHANGED runners

Init == runners = {} /\ reading = {} /\ unread = {} /\ shown = {}

Next ==
  \/ \E i \in Instances : Register(i) \/ Leave(i)
  \/ Read \/ Finish \/ StartAgain

Spec == Init /\ [][Next]_listingVars
===============================================================================
