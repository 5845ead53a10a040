------------------------------- MODULE Notifier -------------------------------
(***************************************************************************)
(* The Slack notifier (pkg/slack/notifier.go) behind the synchronizer: it  *)
(* waits for the state, compares each run's status with the one it saw     *)
(* last and tells the channels when a run has become completed.            *)
(*                                                                         *)
(* The Broadcaster between the two is taken at its word (Feed): a slow     *)
(* notifier finds the last state only.  What a look at a state tells is    *)
(* one step: the next state waits for it, and nothing of it can be seen    *)
(* but the messages.                                                       *)
(***************************************************************************)
EXTENDS JobsSync

VARIABLES
  unseen,    \* a state was published that the notifier has not looked at
  statuses,  \* runStatuses: [Runs -> the status seen last, "none" if absent]
  told       \* [Jobs -> how often notify was called for the attempt's completion]

vars == <<syncVars, unseen, statuses, told>>
notifierVars == <<unseen, statuses, told>>

-------------------------------------------------------------------------------
PublishToNotifier == PublishState /\ unseen' = TRUE /\ UNCHANGED <<statuses, told>>

(* The runs whose status is not the one seen last, and are completed. *)
News == {r \in Runs : published[r].status = "completed" /\ statuses[r] # "completed"}

(* Mutant of Remember: runStatuses is never written. *)
RememberNothing == UNCHANGED statuses

Remember == statuses' = [r \in Runs |-> published[r].status]

(* notify is called for each of the news.  Whether Slack took the message  *)
(* is only logged; nothing is told again.                                  *)
Look ==
  /\ unseen /\ unseen' = FALSE
  /\ told' = [j \in Jobs |-> IF j[1] \in News /\ j[2] = published[j[1]].attempt
                              THEN told[j] + 1 ELSE told[j]]
  /\ Remember
  /\ UNCHANGED syncVars

(* The process as a whole: the notifier starts from nothing, too. *)
RestartManager ==
  /\ Restart
  /\ unseen' = FALSE
  /\ statuses' = [r \in Runs |-> "none"]
  /\ UNCHANGED told

-------------------------------------------------------------------------------
Init ==
  /\ SyncInit
  /\ unseen = FALSE
  /\ statuses = [r \in Runs |-> "none"]
  /\ told = [j \in Jobs |-> 0]

Elsewhere == GitHubStep \/ TakeRun \/ TakeJob \/ Turn \/ Refresh

Next ==
  \/ Elsewhere /\ UNCHANGED notifierVars
  \/ PublishToNotifier \/ Look \/ RestartManager

NotifierSpec == Init /\ [][Next]_vars

(* The loops turn.  A refresh is one of those left to do, picked at random  *)
(* (rand.Intn): each has its turn some day.  No webhook has to arrive, and *)
(* nothing has to happen at GitHub.                                        *)
Fairness ==
  /\ WF_vars(Turn /\ UNCHANGED notifierVars)
  /\ WF_vars(PublishToNotifier) /\ WF_vars(Look)
  /\ SF_vars(RefreshNothing /\ UNCHANGED notifierVars)
  /\ \A r \in Runs : SF_vars(RefreshRun(r) /\ UNCHANGED notifierVars)
  /\ \A j \in Jobs : SF_vars(RefreshJob(j) /\ UNCHANGED notifierVars)

FairNotifierSpec == NotifierSpec /\ Fairness

-------------------------------------------------------------------------------
(* Properties *)

(* The manager may have dropped one of the run's jobs for its age.         *)
Aged(r) == \E a \in Attempts : ghJobs[<<r, a>>].started \in 0..(now - Retention - 1)

(* Of one completion Slack is told once, and once more for every restart   *)
(* of the manager, unless the run left the state for its age and came back *)
(* (notifier.go:52-85).                                                    *)
ToldOnce == \A j \in Jobs : told[j] <= 1 + spent.crashes \/ Aged(j[1])

(* A completion of an attempt that the notifier saw active is told, though *)
(* the manager restarts, unless its run is not saved yet or cannot be      *)
(* fetched then, or it ages or is started again first (notifier.go:66-79). *)
CompletionTold ==
  \A r \in Runs : \A a \in Attempts :
    /\ ghRuns[r].attempt = a /\ ghRuns[r].status = "completed"
    /\ statuses[r] = "active" /\ published[r].attempt = a /\ r \in saved
    ~> \/ told[<<r, a>>] > 0
       \/ ghRuns[r].attempt # a \/ Aged(r)
       \/ spent.faults > 0 /\ spent.crashes > 0
===============================================================================
