--------------------------------- MODULE Feed ---------------------------------
(***************************************************************************)
(* What a Broadcaster promises its subscribers (pkg/utils/channels): each  *)
(* is given values in the order of their publication, none of them twice,  *)
(* and may miss some.  Values are numbered as they are published.          *)
(***************************************************************************)
EXTENDS Naturals

CONSTANT Subs

VARIABLES
  latest,  \* the last value published
  got,     \* [Subs -> the last value the subscriber was given, 0 for none]
  times    \* [Subs -> how many it was given]

vars == <<latest, got, times>>

Init == latest = 1 /\ got = [s \in Subs |-> 0] /\ times = [s \in Subs |-> 0]

Publish == latest' = latest + 1 /\ UNCHANGED <<got, times>>

Give(s) ==
  /\ \E v \in (got[s] + 1)..latest : got' = [got EXCEPT ![s] = v]
  /\ times' = [times EXCEPT ![s] = @ + 1]
  /\ UNCHANGED latest

Next == Publish \/ \E s \in Subs : Give(s)

Spec == Init /\ [][Next]_vars
===============================================================================
