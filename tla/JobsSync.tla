------------------------------- MODULE JobsSync -------------------------------
(***************************************************************************)
(* The manager's view of workflow runs and jobs (pkg/github/jobs): one     *)
(* goroutine takes webhooks and, when there are none for a while, fetches  *)
(* one run or job that is not completed; after each turn it drops what is  *)
(* old, publishes the rest and saves which runs it knows.                  *)
(*                                                                         *)
(* Every attempt of a run has one job, <<run, attempt>>.  "active" stands  *)
(* for every status but completed: nothing here asks which.  Time is       *)
(* counted in the seconds of GitHub's time stamps.                         *)
(***************************************************************************)
EXTENDS Integers, FiniteSets

CONSTANTS
  Runs,         \* workflow runs
  MaxAttempts,  \* times a run is started
  MaxTime,      \* the last second
  Retention,    \* RetentionPeriod, in seconds
  MaxHooks,     \* webhooks on their way at a time; GitHub may lose any
  MaxFaults,    \* calls that fail
  MaxCrashes,   \* restarts of the manager
  MaxTroubles   \* failed calls and restarts together

ASSUME JobsBounds ==
  {MaxAttempts, MaxTime, Retention, MaxHooks, MaxFaults, MaxCrashes, MaxTroubles}
    \subseteq Nat

VARIABLES
  now,        \* the time
  ghRuns,     \* [Runs -> the run, at GitHub]
  ghJobs,     \* [Jobs -> the job, at GitHub]
  hooks,      \* webhooks on their way
  runs,       \* workState.runs
  jobs,       \* workState.jobs
  turn,       \* where the goroutine is, and the runs it has yet to fetch
  published,  \* the last State
  saved,      \* the runs named in the key-value store
  spent       \* what has failed

syncVars == <<now, ghRuns, ghJobs, hooks, runs, jobs, turn, published, saved, spent>>

-------------------------------------------------------------------------------
(* Values *)

Attempts == 1..MaxAttempts
Jobs     == Runs \X Attempts

(* time.Time{}: before anything that is kept. *)
Zero == - (Retention + 1)

NoRun == [attempt |-> 0, status |-> "none", started |-> Zero, updated |-> Zero]
NoJob == [status |-> "none", started |-> Zero, completed |-> Zero]

(* When a job was last heard of, as far as the job itself says. *)
JobStamp(j) == IF j.completed # Zero THEN j.completed ELSE j.started

ToSelect  == [pc |-> "select",  fetch |-> {}]
ToPublish == [pc |-> "publish", fetch |-> {}]

NotShown == [attempt |-> 0, status |-> "none", jobs |-> {}]
Nothing  == [r \in Runs |-> NotShown]

CurrentJob(r) == <<r, ghRuns[r].attempt>>

-------------------------------------------------------------------------------
(* GitHub *)

RunHook(r, run) == [kind |-> "run", run |-> r, object |-> run]
JobHook(j, job) == [kind |-> "job", job |-> j, object |-> job]

(* Some of the webhooks are sent, the others are lost. *)
Emit(events) ==
  \E sent \in SUBSET events :
    /\ hooks' = hooks \cup sent
    /\ Cardinality(hooks') <= MaxHooks

(* A run starts, or is started again once its job has taken a second.      *)
BeginAttempt(r) ==
  LET a   == ghRuns[r].attempt + 1
      run == [attempt |-> a, status |-> "active", started |-> now, updated |-> now]
      job == [status |-> "active", started |-> now, completed |-> Zero]
  IN  /\ a \in Attempts /\ ghRuns[r].status # "active"
      /\ a > 1 => ghJobs[CurrentJob(r)].started < now
      /\ ghRuns' = [ghRuns EXCEPT ![r] = run]
      /\ ghJobs' = [ghJobs EXCEPT ![<<r, a>>] = job]
      /\ Emit({RunHook(r, run), JobHook(<<r, a>>, job)})
      /\ UNCHANGED <<now, runs, jobs, turn, published, saved, spent>>

EndJob(r) ==
  LET j   == CurrentJob(r)
      job == [ghJobs[j] EXCEPT !.status = "completed", !.completed = now]
  IN  /\ ghRuns[r].status = "active" /\ ghJobs[j].status = "active"
      /\ ghJobs' = [ghJobs EXCEPT ![j] = job]
      /\ Emit({JobHook(j, job)})
      /\ UNCHANGED <<now, ghRuns, runs, jobs, turn, published, saved, spent>>

EndRun(r) ==
  LET run == [ghRuns[r] EXCEPT !.status = "completed", !.updated = now]
  IN  /\ ghRuns[r].status = "active" /\ ghJobs[CurrentJob(r)].status = "completed"
      /\ ghRuns' = [ghRuns EXCEPT ![r] = run]
      /\ Emit({RunHook(r, run)})
      /\ UNCHANGED <<now, ghJobs, runs, jobs, turn, published, saved, spent>>

Tick ==
  /\ now < MaxTime /\ now' = now + 1
  /\ UNCHANGED <<ghRuns, ghJobs, hooks, runs, jobs, turn, published, saved, spent>>

Trouble == spent.faults + spent.crashes < MaxTroubles

Fault == /\ spent.faults < MaxFaults /\ Trouble
         /\ spent' = [spent EXCEPT !.faults = @ + 1]

-------------------------------------------------------------------------------
(* workState *)

(* Mutant of setRun: whatever comes last is believed. *)
setRunAlways(r, run, force) == runs' = [runs EXCEPT ![r] = run]

setRun(r, run, force) ==
  runs' = IF run.updated > runs[r].updated \/ force
            THEN [runs EXCEPT ![r] = run] ELSE runs

setJob(j, job, force) ==
  jobs' = IF JobStamp(job) > JobStamp(jobs[j]) \/ force
            THEN [jobs EXCEPT ![j] = job] ELSE jobs

-------------------------------------------------------------------------------
(* One turn of the loop: a webhook or a refresh, then publish and save.    *)

TakeRun ==
  /\ turn.pc = "select"
  /\ \E h \in hooks :
       /\ h.kind = "run"
       /\ hooks' = hooks \ {h}
       /\ setRun(h.run, h.object, FALSE)
  /\ turn' = ToPublish
  /\ UNCHANGED <<now, ghRuns, ghJobs, jobs, published, saved, spent>>

(* Mutant of TakeJob: the run is fetched by the id of the job. *)
TakeJobById ==
  /\ turn.pc = "select"
  /\ \E h \in hooks :
       /\ h.kind = "job"
       /\ hooks' = hooks \ {h}
       /\ setJob(h.job, h.object, FALSE)
       /\ turn' = [pc |-> "fetch", fetch |-> {h.job[2]}]
  /\ UNCHANGED <<now, ghRuns, ghJobs, runs, published, saved, spent>>

TakeJob ==
  /\ turn.pc = "select"
  /\ \E h \in hooks :
       /\ h.kind = "job"
       /\ hooks' = hooks \ {h}
       /\ setJob(h.job, h.object, FALSE)
       /\ turn' = [pc |-> "fetch", fetch |-> {h.job[1]}]
  /\ UNCHANGED <<now, ghRuns, ghJobs, runs, published, saved, spent>>

(* The run of that job, unless it cannot be fetched. *)
FetchRun ==
  /\ turn.pc = "fetch"
  /\ \/ \E r \in turn.fetch : setRun(r, ghRuns[r], FALSE) /\ UNCHANGED spent
     \/ Fault /\ UNCHANGED runs
  /\ turn' = ToPublish
  /\ UNCHANGED <<now, ghRuns, ghJobs, hooks, jobs, published, saved>>

(* Mutant of RefreshRun: the answer is compared as a webhook is. *)
RefreshRunIfNewer(r) ==
  /\ turn.pc = "select"
  /\ runs[r].status = "active"
  /\ \/ setRun(r, ghRuns[r], FALSE) /\ UNCHANGED spent
     \/ Fault /\ UNCHANGED runs
  /\ turn' = ToPublish
  /\ UNCHANGED <<now, ghRuns, ghJobs, hooks, jobs, published, saved>>

(* refreshState fetches one of the runs and jobs that are not completed.   *)
RefreshRun(r) ==
  /\ turn.pc = "select"
  /\ runs[r].status = "active"
  /\ \/ setRun(r, ghRuns[r], TRUE) /\ UNCHANGED spent
     \/ Fault /\ UNCHANGED runs
  /\ turn' = ToPublish
  /\ UNCHANGED <<now, ghRuns, ghJobs, hooks, jobs, published, saved>>

(* A job that cannot be fetched is stored as nil under the id 0, with no   *)
(* time stamp: the purge of the same turn drops it.                        *)
RefreshJob(j) ==
  /\ turn.pc = "select"
  /\ jobs[j].status = "active"
  /\ \/ setJob(j, ghJobs[j], TRUE) /\ UNCHANGED spent
     \/ Fault /\ UNCHANGED jobs
  /\ turn' = ToPublish
  /\ UNCHANGED <<now, ghRuns, ghJobs, hooks, runs, published, saved>>

RefreshNothing ==
  /\ turn.pc = "select"
  /\ \A r \in Runs : runs[r].status # "active"
  /\ \A j \in Jobs : jobs[j].status # "active"
  /\ turn' = ToPublish
  /\ UNCHANGED <<now, ghRuns, ghJobs, hooks, runs, jobs, published, saved, spent>>

KeptRuns == [r \in Runs |-> IF runs[r].updated < now - Retention THEN NoRun ELSE runs[r]]
KeptJobs == [j \in Jobs |-> IF JobStamp(jobs[j]) < now - Retention THEN NoJob ELSE jobs[j]]

(* Mutant of Belongs: jobs of every attempt. *)
BelongsAlways(job, run) == TRUE

(* newState tells the attempt of a job by its start. *)
Belongs(job, run) == job.started >= run.started

(* newState: runs with their jobs; a run without any is left out. *)
newState ==
  [r \in Runs |->
    LET run   == KeptRuns[r]
        mine  == {j \in Jobs : j[1] = r /\ KeptJobs[j] # NoJob /\ Belongs(KeptJobs[j], run)}
    IN  IF run = NoRun \/ mine = {} THEN NotShown
        ELSE [attempt |-> run.attempt, status |-> run.status,
              jobs |-> {[attempt |-> j[2], status |-> KeptJobs[j].status] : j \in mine}]]

PublishState ==
  /\ turn.pc = "publish"
  /\ runs' = KeptRuns
  /\ jobs' = KeptJobs
  /\ published' = newState
  /\ turn' = [pc |-> "save", fetch |-> {}]
  /\ UNCHANGED <<now, ghRuns, ghJobs, hooks, saved, spent>>

(* Mutant of SavedRuns: runs that are completed are not worth saving. *)
SavedActive == {r \in Runs : runs[r].status = "active"}

SavedRuns == {r \in Runs : runs[r] # NoRun}

saveState ==
  /\ turn.pc = "save"
  /\ \/ saved' = SavedRuns /\ UNCHANGED spent
     \/ Fault /\ UNCHANGED saved
  /\ turn' = ToSelect
  /\ UNCHANGED <<now, ghRuns, ghJobs, hooks, runs, jobs, published>>

-------------------------------------------------------------------------------
(* The manager restarts: nothing but the saved keys is left. *)

Restart ==
  /\ spent.crashes < MaxCrashes /\ Trouble
  /\ spent' = [spent EXCEPT !.crashes = @ + 1]
  /\ runs' = [r \in Runs |-> NoRun]
  /\ jobs' = [j \in Jobs |-> NoJob]
  /\ published' = Nothing
  /\ turn' = [pc |-> "load", fetch |-> saved]
  /\ UNCHANGED <<now, ghRuns, ghJobs, hooks, saved>>

(* loadState: each run and the jobs of its last attempt. *)
LoadRun(r) ==
  /\ turn.pc = "load" /\ r \in turn.fetch
  /\ \/ /\ setRun(r, ghRuns[r], TRUE)
        /\ setJob(CurrentJob(r), ghJobs[CurrentJob(r)], TRUE)
        /\ UNCHANGED spent
     \/ /\ Fault
        /\ setRun(r, ghRuns[r], TRUE) /\ UNCHANGED jobs
     \/ /\ Fault
        /\ UNCHANGED <<runs, jobs>>
  /\ turn' = [turn EXCEPT !.fetch = @ \ {r}]
  /\ UNCHANGED <<now, ghRuns, ghJobs, hooks, published, saved>>

(* All are loaded; or the saved keys cannot be read, and none is. *)
Loaded ==
  /\ turn.pc = "load"
  /\ \/ turn.fetch = {} /\ UNCHANGED spent
     \/ turn.fetch = saved /\ Fault
  /\ turn' = ToSelect
  /\ UNCHANGED <<now, ghRuns, ghJobs, hooks, runs, jobs, published, saved>>

-------------------------------------------------------------------------------
SyncInit ==
  /\ now = 0
  /\ ghRuns = [r \in Runs |-> NoRun]
  /\ ghJobs = [j \in Jobs |-> NoJob]
  /\ hooks = {}
  /\ runs = [r \in Runs |-> NoRun]
  /\ jobs = [j \in Jobs |-> NoJob]
  /\ turn = [pc |-> "load", fetch |-> {}]
  /\ published = Nothing
  /\ saved = {}
  /\ spent = [faults |-> 0, crashes |-> 0]

GitHubStep == Tick \/ \E r \in Runs : BeginAttempt(r) \/ EndJob(r) \/ EndRun(r)

(* What the goroutine does next, but for what it picks at random. *)
Turn ==
  \/ FetchRun \/ saveState \/ Loaded
  \/ \E r \in Runs : LoadRun(r)

Refresh ==
  \/ \E r \in Runs : RefreshRun(r)
  \/ \E j \in Jobs : RefreshJob(j)
  \/ RefreshNothing

SyncNext == GitHubStep \/ TakeRun \/ TakeJob \/ Turn \/ Refresh \/ PublishState \/ Restart

Spec == SyncInit /\ [][SyncNext]_syncVars

-------------------------------------------------------------------------------
(* Properties *)

RunObjects == [attempt : 0..MaxAttempts, status : {"none", "active", "completed"},
               started : {Zero} \cup 0..MaxTime, updated : {Zero} \cup 0..MaxTime]
JobObjects == [status : {"none", "active", "completed"},
               started : {Zero} \cup 0..MaxTime, completed : {Zero} \cup 0..MaxTime]
States     == [Runs -> [attempt : 0..MaxAttempts, status : {"none", "active", "completed"},
                        jobs : SUBSET [attempt : Attempts, status : {"active", "completed"}]]]

(* The values the synchronizer and GitHub's side of it take. *)
SyncTypeOK ==
  /\ now \in 0..MaxTime
  /\ ghRuns \in [Runs -> RunObjects] /\ ghJobs \in [Jobs -> JobObjects]
  /\ runs \in [Runs -> RunObjects] /\ jobs \in [Jobs -> JobObjects]
  /\ turn.pc \in {"load", "select", "fetch", "publish", "save"}
  /\ turn.fetch \subseteq Runs
  /\ published \in States
  /\ saved \subseteq Runs
  /\ spent \in [faults : 0..MaxFaults, crashes : 0..MaxCrashes]

Shown(r) == published[r] # NotShown

Stage(x) == 2 * x.attempt + IF x.status = "completed" THEN 1 ELSE 0

(* As long as a run is shown neither it nor any of its jobs goes back to   *)
(* what it was, in whatever order webhooks and answers come                *)
(* (synchronizer.go:27-50).                                                *)
NoStepBack ==
  [][\A r \in Runs :
       Shown(r) /\ published'[r] # NotShown =>
         /\ Stage(published'[r]) >= Stage(published[r])
         /\ \A old \in published[r].jobs, new \in published'[r].jobs :
              old.attempt = new.attempt => Stage(new) >= Stage(old)]_syncVars

(* A run is not shown with a job of an earlier attempt (state.go:110-113). *)
AttemptsApart ==
  \A r \in Runs : \A j \in published[r].jobs : j.attempt >= published[r].attempt

(* What is completed comes to be shown as completed, if it is shown at all,*)
(* whichever webhooks are lost, come late or say the same second, and      *)
(* whatever call fails (synchronizer.go:139-216).                          *)
CompletionShown ==
  \A r \in Runs :
    <>[](ghRuns[r].status = "completed" =>
           /\ Shown(r) => published[r].status = "completed"
           /\ \A j \in published[r].jobs : j.status = "completed")
===============================================================================
