----------------------------- MODULE NotifierProofs -----------------------------
(***************************************************************************)
(* Proofs about the jobs synchronizer and the Slack notifier behind it: for*)
(* any number of runs, attempts and webhooks, whatever order these come    *)
(* in, and whatever is lost, fails or is restarted.                        *)
(***************************************************************************)
EXTENDS Notifier, TLAPS

-------------------------------------------------------------------------------
(* The inductive invariant *)

(* A run, as some webhook or answer of GitHub's may show it: an attempt     *)
(* that has begun, when it began, and when it was last changed; the next    *)
(* attempt began no earlier.                                                *)
RunVersion(r, x) ==
  /\ x \in RunObjects
  /\ x.attempt \in 1..ghRuns[r].attempt
  /\ x.status \in {"active", "completed"}
  /\ x.started = ghJobs[<<r, x.attempt>>].started
  /\ x.started <= x.updated /\ x.updated <= now
  /\ x.status = "active" => x.updated = x.started
  /\ x.attempt < ghRuns[r].attempt => x.updated <= ghJobs[<<r, x.attempt + 1>>].started
  /\ x.attempt = ghRuns[r].attempt /\ x.status = "completed"
       => ghRuns[r].status = "completed"

(* A job, likewise: once completed it does not change. *)
JobVersion(j, y) ==
  /\ y \in JobObjects
  /\ y.status \in {"active", "completed"}
  /\ y.started = ghJobs[j].started /\ 0 <= y.started
  /\ y.status = "active" => y.completed = Zero
  /\ y.status = "completed" => y.started <= y.completed /\ ghJobs[j] = y

(* GitHub has a job for every attempt that began, one after the other.      *)
GitHubSound ==
  \A r \in Runs :
    /\ ghRuns[r] = NoRun \/ RunVersion(r, ghRuns[r])
    /\ \A b \in Attempts :
         IF b > ghRuns[r].attempt THEN ghJobs[<<r, b>>] = NoJob
         ELSE /\ JobVersion(<<r, b>>, ghJobs[<<r, b>>])
              /\ ghJobs[<<r, b>>].started <= now
              /\ \A c \in 1..(b - 1) :
                   ghJobs[<<r, c>>].started < ghJobs[<<r, b>>].started

HooksSound ==
  \A h \in hooks :
    \/ h.kind = "run" /\ h.run \in Runs /\ RunVersion(h.run, h.object)
    \/ h.kind = "job" /\ h.job \in Jobs /\ JobVersion(h.job, h.object)

LocalsSound ==
  /\ \A r \in Runs : runs[r] = NoRun \/ RunVersion(r, runs[r])
  /\ \A j \in Jobs : jobs[j] = NoJob \/ JobVersion(j, jobs[j])

(* Whoever shows an attempt of a run as completed gives the same time.      *)
SeenRuns(r) ==
  {ghRuns[r], runs[r]} \cup {h.object : h \in {g \in hooks : g.kind = "run" /\ g.run = r}}

Agreed ==
  \A r \in Runs : \A x, y \in SeenRuns(r) :
    x.attempt = y.attempt /\ x.status = "completed" /\ y.status = "completed"
    => x.updated = y.updated

(* What is shown is still known, or something later. *)
PublishedSound ==
  \A r \in Runs :
    Shown(r) =>
      /\ published[r].attempt \in Attempts
      /\ published[r].status \in {"active", "completed"}
      /\ Stage(runs[r]) >= Stage(published[r])
      /\ published[r].jobs # {}
      /\ \A o \in published[r].jobs :
           /\ o.attempt >= published[r].attempt
           /\ jobs[<<r, o.attempt>>] # NoJob
           /\ o.status = "completed" => jobs[<<r, o.attempt>>].status = "completed"
           /\ \A n \in published[r].jobs : n.attempt = o.attempt => n = o

Typed == SyncTypeOK /\ turn \in [pc : {"load", "select", "fetch", "publish", "save"},
                                 fetch : SUBSET Runs]

IInv == /\ Typed /\ GitHubSound /\ HooksSound /\ LocalsSound /\ Agreed
        /\ PublishedSound

(* A completion that has been told in this life of the manager: it stays    *)
(* known as told as long as it is shown, and then the run has moved on.     *)
Settled(r, a) ==
  LET done == published[r].attempt = a /\ published[r].status = "completed"
  IN  /\ Stage(runs[r]) >= 2 * a + 1
      /\ done => statuses[r] = "completed"
      /\ Stage(runs[r]) = 2 * a + 1 => done

ToldSound ==
  /\ told \in [Jobs -> Nat]
  /\ statuses \in [Runs -> {"none", "active", "completed"}]
  /\ \A r \in Runs : \A a \in Attempts :
       \/ Aged(r)
       \/ told[<<r, a>>] <= spent.crashes
       \/ told[<<r, a>>] = 1 + spent.crashes /\ Settled(r, a)

-------------------------------------------------------------------------------
(* Values *)

LEMMA Values ==
  /\ Zero \in Int /\ Zero < 0 /\ Retention \in Nat /\ MaxTime \in Nat
  /\ MaxAttempts \in Nat /\ Attempts = 1..MaxAttempts /\ 0 \in 0..MaxAttempts
  /\ NoRun \in RunObjects /\ NoJob \in JobObjects
  /\ \A r \in Runs, b \in Attempts : <<r, b>> \in Jobs
  /\ \A j \in Jobs : j[1] \in Runs /\ j[2] \in Attempts /\ j = <<j[1], j[2]>>
BY JobsBounds DEF Zero, NoRun, NoJob, RunObjects, JobObjects, Attempts, Jobs

(* What the fields of runs and jobs are. *)
LEMMA Fields ==
  /\ \A x \in RunObjects : /\ x.attempt \in Int /\ x.attempt \in 0..MaxAttempts
                           /\ x.started \in Int /\ x.updated \in Int
                           /\ Stage(x) \in Int
                           /\ x.started \in {Zero} \cup 0..MaxTime
                           /\ x.updated \in {Zero} \cup 0..MaxTime
                           /\ x.status \in {"none", "active", "completed"}
  /\ \A y \in JobObjects : /\ y.started \in Int /\ y.completed \in Int
                           /\ JobStamp(y) \in Int
                           /\ y.started \in {Zero} \cup 0..MaxTime
                           /\ y.completed \in {Zero} \cup 0..MaxTime
                           /\ y.status \in {"none", "active", "completed"}
<1>1. Zero \in Int /\ MaxTime \in Nat /\ MaxAttempts \in Nat
  BY Values
<1>2. ASSUME NEW x \in RunObjects
      PROVE  /\ x.attempt \in Int /\ x.attempt \in 0..MaxAttempts
             /\ x.started \in Int /\ x.updated \in Int
             /\ x.started \in {Zero} \cup 0..MaxTime
             /\ x.updated \in {Zero} \cup 0..MaxTime
             /\ x.status \in {"none", "active", "completed"}
  BY <1>1 DEF RunObjects
<1>3. ASSUME NEW y \in JobObjects
      PROVE  /\ y.started \in Int /\ y.completed \in Int
             /\ y.started \in {Zero} \cup 0..MaxTime
             /\ y.completed \in {Zero} \cup 0..MaxTime
             /\ y.status \in {"none", "active", "completed"}
  BY <1>1 DEF JobObjects
<1>4. \A x \in RunObjects : Stage(x) \in Int
  BY <1>2 DEF Stage
<1>5. \A y \in JobObjects : JobStamp(y) \in Int
  BY <1>3 DEF JobStamp
<1> QED
  BY <1>2, <1>3, <1>4, <1>5

(* Attempts begin one after the other. *)
LEMMA StartsRise ==
  ASSUME Typed, GitHubSound, NEW r \in Runs,
         NEW b \in 1..ghRuns[r].attempt, NEW c \in 1..ghRuns[r].attempt
  PROVE  /\ b \in Attempts /\ c \in Attempts
         /\ ghJobs[<<r, b>>] \in JobObjects /\ ghJobs[<<r, c>>] \in JobObjects
         /\ b < c => ghJobs[<<r, b>>].started < ghJobs[<<r, c>>].started
         /\ b <= c => ghJobs[<<r, b>>].started <= ghJobs[<<r, c>>].started
<1>1. ghRuns[r].attempt \in 0..MaxAttempts /\ MaxAttempts \in Nat
  BY Values DEF Typed, SyncTypeOK, RunObjects
<1>2. b \in Attempts /\ c \in Attempts /\ b \in Nat /\ c \in Nat
  BY <1>1 DEF Attempts
<1>3. ghJobs[<<r, b>>] \in JobObjects /\ ghJobs[<<r, c>>] \in JobObjects
  BY <1>2, Values DEF Typed, SyncTypeOK
<1>4. b < c => ghJobs[<<r, b>>].started < ghJobs[<<r, c>>].started
  <2>1. b < c => b \in 1..(c - 1) /\ ~ (c > ghRuns[r].attempt)
    BY <1>1, <1>2
  <2> QED
    BY <1>2, <2>1 DEF GitHubSound
<1>5. b = c => ghJobs[<<r, b>>].started <= ghJobs[<<r, c>>].started
  BY <1>3, Fields
<1>6. b <= c <=> b < c \/ b = c
  BY <1>2
<1> QED
  BY <1>2, <1>3, <1>4, <1>5, <1>6, Fields

(* Of two shapes of a run the later one was changed no earlier. *)
LEMMA RunOrder ==
  ASSUME Typed, GitHubSound, NEW r \in Runs, NEW x, NEW y,
         RunVersion(r, x), RunVersion(r, y),
         x.attempt = y.attempt /\ x.status = "completed" /\ y.status = "completed"
           => x.updated = y.updated,
         Stage(x) <= Stage(y)
  PROVE  x.updated <= y.updated
<1> DEFINE S(b) == ghJobs[<<r, b>>].started
           a == ghRuns[r].attempt
<1>1. /\ x.attempt \in 1..a /\ y.attempt \in 1..a /\ a \in Nat
      /\ x.updated \in Int /\ y.updated \in Int
      /\ x.started \in Int /\ y.started \in Int
      /\ x.started = S(x.attempt) /\ y.started = S(y.attempt)
      /\ y.started <= y.updated
      /\ x.status = "active" => x.updated = x.started
      /\ x.attempt < a => x.updated <= S(x.attempt + 1)
      /\ x.status \in {"active", "completed"} /\ y.status \in {"active", "completed"}
  BY Fields DEF RunVersion, Typed, SyncTypeOK, RunObjects
<1>2. CASE x.attempt < y.attempt
  <2>1. x.attempt + 1 \in 1..a /\ x.attempt + 1 <= y.attempt /\ x.attempt < a
    BY <1>1, <1>2
  <2>2. S(x.attempt + 1) <= S(y.attempt) /\ S(x.attempt + 1) \in Int
    BY <1>1, <2>1, StartsRise, Fields
  <2> HIDE DEF S
  <2> QED
    BY <1>1, <2>1, <2>2
<1>3. CASE x.attempt = y.attempt
  <2>1. x.status = "completed" => y.status = "completed"
    BY <1>1, <1>3 DEF Stage
  <2> HIDE DEF S
  <2> QED
    BY <1>1, <1>3, <2>1
<1>4. x.attempt <= y.attempt
  BY <1>1 DEF Stage
<1> QED
  BY <1>1, <1>2, <1>3, <1>4

(* GitHub's own shape of a run is the last. *)
LEMMA NewestRun ==
  ASSUME Typed, NEW r \in Runs, NEW x, RunVersion(r, x)
  PROVE  Stage(x) <= Stage(ghRuns[r])
<1>1. ghRuns[r] \in RunObjects /\ x \in RunObjects
  BY DEF Typed, SyncTypeOK, RunVersion
<1>2. /\ x.attempt \in Int /\ ghRuns[r].attempt \in Int
      /\ x.attempt <= ghRuns[r].attempt
      /\ x.attempt = ghRuns[r].attempt /\ x.status = "completed"
           => ghRuns[r].status = "completed"
  BY <1>1, Fields DEF RunVersion
<1> QED
  BY <1>2 DEF Stage

(* So is its shape of a job. *)
LEMMA NewestJob ==
  ASSUME Typed, GitHubSound, NEW j \in Jobs, NEW y, JobVersion(j, y)
  PROVE  /\ JobVersion(j, ghJobs[j]) /\ j[2] \in 1..ghRuns[j[1]].attempt
         /\ y.status = "completed" => ghJobs[j].status = "completed"
<1>1. j[1] \in Runs /\ j[2] \in Attempts /\ j = <<j[1], j[2]>> /\ Zero < 0
      /\ Attempts = 1..MaxAttempts /\ MaxAttempts \in Nat
  BY Values
<1>2. ghJobs[j].started # Zero
  BY Values DEF JobVersion
<1>3. ~ (j[2] > ghRuns[j[1]].attempt)
  BY <1>1, <1>2 DEF GitHubSound, NoJob
<1>4. ghRuns[j[1]].attempt \in Int
  BY <1>1, Fields DEF Typed, SyncTypeOK
<1>5. j[2] \in 1..ghRuns[j[1]].attempt
  BY <1>1, <1>3, <1>4
<1>6. JobVersion(j, ghJobs[j])
  BY <1>1, <1>3 DEF GitHubSound
<1> QED
  BY <1>5, <1>6 DEF JobVersion
-------------------------------------------------------------------------------
(* GitHub's steps *)

(* What every step keeps of the runs and jobs there are. *)
Grown ==
  /\ now' \in Int /\ now <= now'
  /\ ghRuns' \in [Runs -> RunObjects] /\ ghJobs' \in [Jobs -> JobObjects]
  /\ \A r \in Runs :
       \/ /\ ghRuns'[r].attempt = ghRuns[r].attempt
          /\ ghRuns[r].status = "completed" => ghRuns'[r].status = "completed"
       \/ /\ ghRuns'[r].attempt = ghRuns[r].attempt + 1
          /\ ghJobs'[<<r, ghRuns[r].attempt + 1>>].started = now
  /\ \A r \in Runs : \A b \in 1..ghRuns[r].attempt :
       /\ ghJobs'[<<r, b>>].started = ghJobs[<<r, b>>].started
       /\ ghJobs[<<r, b>>].status = "completed" => ghJobs'[<<r, b>>] = ghJobs[<<r, b>>]

(* The values GitHub makes. *)
LEMMA Made ==
  ASSUME Typed, NEW r \in Runs, ghRuns[r].attempt + 1 \in Attempts
  PROVE  /\ [attempt |-> ghRuns[r].attempt + 1, status |-> "active",
             started |-> now, updated |-> now] \in RunObjects
         /\ [status |-> "active", started |-> now, completed |-> Zero] \in JobObjects
BY Values DEF Typed, SyncTypeOK, RunObjects, JobObjects

LEMMA GrownByTick ==
  ASSUME Typed, Tick
  PROVE  Grown
<1>1. now' = now + 1 /\ now \in Int /\ ghRuns' = ghRuns /\ ghJobs' = ghJobs
  BY DEF Tick, Typed, SyncTypeOK
<1> QED
  BY <1>1 DEF Grown, Typed, SyncTypeOK

LEMMA GrownByBegin ==
  ASSUME Typed, NEW q \in Runs, BeginAttempt(q)
  PROVE  Grown
<1> DEFINE a == ghRuns[q].attempt + 1
           run == [attempt |-> a, status |-> "active", started |-> now, updated |-> now]
           job == [status |-> "active", started |-> now, completed |-> Zero]
<1>1. /\ a \in Attempts /\ ghRuns' = [ghRuns EXCEPT ![q] = run]
      /\ ghJobs' = [ghJobs EXCEPT ![<<q, a>>] = job] /\ now' = now /\ now \in Int
  BY DEF BeginAttempt, Typed, SyncTypeOK
<1>2. run \in RunObjects /\ job \in JobObjects /\ <<q, a>> \in Jobs
  BY <1>1, Made, Values
<1>3. ghRuns \in [Runs -> RunObjects] /\ ghJobs \in [Jobs -> JobObjects]
  BY DEF Typed, SyncTypeOK
<1>4. \A r \in Runs : ghRuns[r].attempt \in 0..MaxAttempts /\ MaxAttempts \in Nat
  BY <1>3, Fields, Values
<1>5. run.attempt = a /\ job.started = now
  OBVIOUS
<1>6. ghRuns' \in [Runs -> RunObjects] /\ ghJobs' \in [Jobs -> JobObjects]
  BY <1>1, <1>2, <1>3
<1>7. ASSUME NEW r \in Runs, NEW b \in 1..ghRuns[r].attempt
      PROVE  ghJobs'[<<r, b>>] = ghJobs[<<r, b>>]
  <2>1. b \in Attempts /\ <<r, b>> \in Jobs /\ <<r, b>> # <<q, a>>
    BY <1>4, Values
  <2> QED
    BY <1>1, <1>3, <2>1
<1>8. ghRuns'[q].attempt = a /\ ghJobs'[<<q, a>>].started = now
  BY <1>1, <1>2, <1>3, <1>5
<1>9. \A r \in Runs : r # q => ghRuns'[r] = ghRuns[r]
  BY <1>1, <1>3
<1> HIDE DEF run, job
<1> QED
  BY <1>1, <1>6, <1>7, <1>8, <1>9 DEF Grown

LEMMA GrownByEndJob ==
  ASSUME Typed, GitHubSound, NEW q \in Runs, EndJob(q)
  PROVE  Grown
<1> DEFINE j == CurrentJob(q)
           job == [ghJobs[j] EXCEPT !.status = "completed", !.completed = now]
<1>1. /\ ghRuns[q].status = "active" /\ ghJobs[j].status = "active"
      /\ ghJobs' = [ghJobs EXCEPT ![j] = job] /\ now' = now /\ now \in Int
      /\ ghRuns' = ghRuns /\ now \in 0..MaxTime
  BY DEF EndJob, Typed, SyncTypeOK
<1>2. ghRuns[q] # NoRun
  BY <1>1 DEF NoRun
<1>3. j \in Jobs
  <2>1. ghRuns[q].attempt \in 1..ghRuns[q].attempt
    BY <1>2 DEF GitHubSound, RunVersion
  <2>2. ghRuns[q].attempt \in 0..MaxAttempts
    BY Fields DEF Typed, SyncTypeOK
  <2>3. ghRuns[q].attempt \in Attempts
    BY <2>1, <2>2, Values
  <2> QED
    BY <2>3, Values DEF CurrentJob
<1>4. ghRuns \in [Runs -> RunObjects] /\ ghJobs \in [Jobs -> JobObjects]
  BY DEF Typed, SyncTypeOK
<1>5. job \in JobObjects /\ job.started = ghJobs[j].started
  BY <1>1, <1>3, <1>4 DEF JobObjects
<1>6. \A i \in Jobs : /\ ghJobs'[i].started = ghJobs[i].started
                      /\ ghJobs[i].status = "completed" => ghJobs'[i] = ghJobs[i]
  <2> HIDE DEF job
  <2> QED
    BY <1>1, <1>3, <1>4, <1>5
<1>7. ASSUME NEW r \in Runs, NEW b \in 1..ghRuns[r].attempt
      PROVE  <<r, b>> \in Jobs
  <2>1. ghRuns[r].attempt \in 0..MaxAttempts
    BY <1>4, Fields
  <2>2. b \in Attempts
    BY <2>1, Values
  <2> QED
    BY <2>2, Values
<1> HIDE DEF job, j
<1>8. ghJobs' \in [Jobs -> JobObjects]
  BY <1>1, <1>4, <1>5
<1> QED
  BY <1>1, <1>4, <1>6, <1>7, <1>8 DEF Grown

LEMMA GrownByEndRun ==
  ASSUME Typed, NEW q \in Runs, EndRun(q)
  PROVE  Grown
<1> DEFINE run == [ghRuns[q] EXCEPT !.status = "completed", !.updated = now]
<1>1. /\ ghRuns' = [ghRuns EXCEPT ![q] = run]
      /\ now' = now /\ now \in Int /\ now \in 0..MaxTime /\ ghJobs' = ghJobs
  BY DEF EndRun, Typed, SyncTypeOK
<1>2. ghRuns \in [Runs -> RunObjects] /\ ghJobs \in [Jobs -> JobObjects]
  BY DEF Typed, SyncTypeOK
<1>3. /\ run \in RunObjects /\ run.attempt = ghRuns[q].attempt
      /\ run.status = "completed"
  BY <1>1, <1>2 DEF RunObjects
<1> HIDE DEF run
<1> QED
  BY <1>1, <1>2, <1>3 DEF Grown

LEMMA GrownByStep ==
  ASSUME Typed, GitHubSound, SyncNext
  PROVE  Grown
<1>1. CASE GitHubStep
  BY <1>1, GrownByTick, GrownByBegin, GrownByEndJob, GrownByEndRun DEF GitHubStep
<1>2. CASE UNCHANGED <<now, ghRuns, ghJobs>>
  BY <1>2 DEF Grown, Typed, SyncTypeOK
<1>3. GitHubStep \/ UNCHANGED <<now, ghRuns, ghJobs>>
  BY DEF SyncNext, TakeRun, TakeJob, Turn, Refresh, PublishState, Restart, FetchRun,
         saveState, Loaded, LoadRun, RefreshRun, RefreshJob, RefreshNothing
<1> QED
  BY <1>1, <1>2, <1>3

(* A webhook stays true of the run or job it was sent for. *)
LEMMA VersionsStay ==
  ASSUME Typed, GitHubSound, Grown
  PROVE  /\ \A r \in Runs : \A x : RunVersion(r, x) => RunVersion(r, x)'
         /\ \A j \in Jobs : \A y : JobVersion(j, y) => JobVersion(j, y)'
<1>1. ASSUME NEW r \in Runs, NEW x, RunVersion(r, x)
      PROVE  RunVersion(r, x)'
  <2>1. /\ x \in RunObjects /\ x.attempt \in 1..ghRuns[r].attempt
        /\ ghRuns[r].attempt \in Nat /\ now \in Int /\ x.updated \in Int
    BY <1>1, Fields DEF RunVersion, Typed, SyncTypeOK
  <2>2. /\ now' \in Int /\ now <= now'
        /\ ghRuns'[r].attempt \in {ghRuns[r].attempt, ghRuns[r].attempt + 1}
        /\ ghJobs'[<<r, x.attempt>>].started = ghJobs[<<r, x.attempt>>].started
    BY <2>1 DEF Grown
  <2>3. ASSUME x.attempt < ghRuns[r].attempt
        PROVE  /\ ghJobs'[<<r, x.attempt + 1>>].started
                    = ghJobs[<<r, x.attempt + 1>>].started
               /\ x.attempt + 1 \in 1..ghRuns[r].attempt
    BY <2>1, <2>3 DEF Grown
  <2>4. ASSUME x.attempt = ghRuns[r].attempt, x.attempt < ghRuns'[r].attempt
        PROVE  ghJobs'[<<r, x.attempt + 1>>].started = now
    BY <2>1, <2>4 DEF Grown
  <2>5. ASSUME x.attempt = ghRuns[r].attempt, x.attempt = ghRuns'[r].attempt,
               ghRuns[r].status = "completed"
        PROVE  ghRuns'[r].status = "completed"
    <3>1. ghRuns'[r].attempt # ghRuns[r].attempt + 1
      BY <2>1, <2>5
    <3> QED
      BY <2>5, <3>1 DEF Grown
  <2>6. x.attempt \in 1..ghRuns'[r].attempt
    BY <2>1, <2>2
  <2>7. x.attempt < ghRuns'[r].attempt
          => x.updated <= ghJobs'[<<r, x.attempt + 1>>].started
    BY <1>1, <2>1, <2>2, <2>3, <2>4 DEF RunVersion
  <2>8. x.attempt = ghRuns'[r].attempt /\ x.status = "completed"
          => ghRuns'[r].status = "completed"
    BY <1>1, <2>1, <2>2, <2>5 DEF RunVersion
  <2>9. x.updated <= now'
    BY <1>1, <2>1, <2>2 DEF RunVersion
  <2> QED
    BY <1>1, <2>2, <2>6, <2>7, <2>8, <2>9 DEF RunVersion
<1>2. ASSUME NEW j \in Jobs, NEW y, JobVersion(j, y)
      PROVE  JobVersion(j, y)'
  <2>1. j[1] \in Runs /\ j[2] \in 1..ghRuns[j[1]].attempt /\ j = <<j[1], j[2]>>
    BY <1>2, NewestJob, Values
  <2>2. /\ ghJobs'[j].started = ghJobs[j].started
        /\ ghJobs[j].status = "completed" => ghJobs'[j] = ghJobs[j]
    BY <2>1 DEF Grown
  <2> QED
    BY <1>2, <2>2 DEF JobVersion
<1> QED
  BY <1>1, <1>2
(* A run that begins, and one that ends, are as GitHub will show them. *)
LEMMA NewestBegun ==
  ASSUME Typed, GitHubSound, NEW q \in Runs, BeginAttempt(q)
  PROVE  /\ RunVersion(q, ghRuns[q])' /\ ghRuns'[q].status = "active"
         /\ \A j \in Jobs : j = <<q, ghRuns'[q].attempt>> => JobVersion(j, ghJobs[j])'
         /\ ghJobs'[<<q, ghRuns'[q].attempt>>].started = now
         /\ now' = now
         /\ \A b \in Attempts : b > ghRuns'[q].attempt =>
              b > ghRuns[q].attempt /\ ghJobs'[<<q, b>>] = ghJobs[<<q, b>>]
         /\ \A c \in 1..ghRuns[q].attempt : ghJobs[<<q, c>>].started < now
         /\ ghRuns'[q].attempt = ghRuns[q].attempt + 1
<1> DEFINE a == ghRuns[q].attempt + 1
           run == [attempt |-> a, status |-> "active", started |-> now, updated |-> now]
           job == [status |-> "active", started |-> now, completed |-> Zero]
<1>1. /\ a \in Attempts /\ ghRuns' = [ghRuns EXCEPT ![q] = run]
      /\ ghJobs' = [ghJobs EXCEPT ![<<q, a>>] = job] /\ now' = now /\ now \in Nat
      /\ a > 1 => ghJobs[CurrentJob(q)].started < now
  BY DEF BeginAttempt, Typed, SyncTypeOK
<1>2. run \in RunObjects /\ job \in JobObjects /\ <<q, a>> \in Jobs
  BY <1>1, Made, Values
<1>3. ghRuns \in [Runs -> RunObjects] /\ ghJobs \in [Jobs -> JobObjects]
  BY DEF Typed, SyncTypeOK
<1>4. ghRuns[q].attempt \in Nat /\ a \in Nat /\ a \in 1..a
  BY <1>1, <1>3, Fields, Values
<1>5. ghRuns'[q] = run /\ ghJobs'[<<q, a>>] = job
  BY <1>1, <1>2, <1>3
<1>6. /\ run.attempt = a /\ run.status = "active"
      /\ run.started = now /\ run.updated = now
      /\ job.started = now /\ job.status = "active" /\ job.completed = Zero
  OBVIOUS
<1>7. ASSUME NEW c \in 1..ghRuns[q].attempt
      PROVE  ghJobs[<<q, c>>].started < now
  <2>1. ghJobs[<<q, ghRuns[q].attempt>>].started < now
    BY <1>1, <1>4 DEF CurrentJob
  <2>2. /\ ghJobs[<<q, c>>].started <= ghJobs[<<q, ghRuns[q].attempt>>].started
        /\ ghJobs[<<q, c>>].started \in Int
        /\ ghJobs[<<q, ghRuns[q].attempt>>].started \in Int
    BY <1>4, StartsRise, Fields
  <2> QED
    BY <1>1, <2>1, <2>2
<1>8. ASSUME NEW b \in Attempts, b > a
      PROVE  b > ghRuns[q].attempt /\ ghJobs'[<<q, b>>] = ghJobs[<<q, b>>]
  <2>1. b \in Int /\ <<q, b>> \in Jobs /\ <<q, b>> # <<q, a>>
    BY <1>4, <1>8, Values
  <2> QED
    BY <1>1, <1>3, <1>4, <1>8, <2>1
<1> HIDE DEF run, job
<1>9. RunVersion(q, ghRuns[q])'
  BY <1>1, <1>2, <1>4, <1>5, <1>6 DEF RunVersion
<1>10. ASSUME NEW j \in Jobs, j = <<q, a>>
       PROVE  JobVersion(j, ghJobs[j])'
  BY <1>1, <1>2, <1>5, <1>6, <1>10 DEF JobVersion
<1> QED
  BY <1>1, <1>4, <1>5, <1>6, <1>7, <1>8, <1>9, <1>10
LEMMA NewestEndedRun ==
  ASSUME Typed, GitHubSound, NEW q \in Runs, EndRun(q)
  PROVE  /\ RunVersion(q, ghRuns[q])' /\ ghRuns'[q].attempt = ghRuns[q].attempt
         /\ ghRuns[q].status = "active" /\ ghJobs' = ghJobs /\ now' = now
<1> DEFINE run == [ghRuns[q] EXCEPT !.status = "completed", !.updated = now]
<1>1. /\ ghRuns[q].status = "active" /\ ghRuns' = [ghRuns EXCEPT ![q] = run]
      /\ now' = now /\ now \in Int /\ now \in 0..MaxTime /\ ghJobs' = ghJobs
  BY DEF EndRun, Typed, SyncTypeOK
<1>2. ghRuns \in [Runs -> RunObjects]
  BY DEF Typed, SyncTypeOK
<1>3. /\ run \in RunObjects /\ run.attempt = ghRuns[q].attempt
      /\ run.status = "completed" /\ run.updated = now
      /\ run.started = ghRuns[q].started
  BY <1>1, <1>2 DEF RunObjects
<1>4. RunVersion(q, ghRuns[q])
  BY <1>1 DEF GitHubSound, NoRun
<1>5. /\ ghRuns[q].started \in Int /\ ghRuns[q].updated \in Int
      /\ ghRuns[q].attempt \in Int
  BY <1>2, Fields
<1>6. run.started <= run.updated
  BY <1>1, <1>3, <1>4, <1>5 DEF RunVersion
<1> HIDE DEF run
<1>7. ghRuns'[q] = run
  BY <1>1, <1>2
<1> QED
  BY <1>1, <1>3, <1>4, <1>5, <1>6, <1>7 DEF RunVersion

LEMMA NewestEndedJob ==
  ASSUME Typed, GitHubSound, NEW q \in Runs, EndJob(q)
  PROVE  /\ CurrentJob(q) \in Jobs /\ ghRuns' = ghRuns /\ now' = now
         /\ \A j \in Jobs : j # CurrentJob(q) => ghJobs'[j] = ghJobs[j]
         /\ \A j \in Jobs : j = CurrentJob(q) => JobVersion(j, ghJobs[j])'
         /\ \A j \in Jobs : ghJobs'[j].started = ghJobs[j].started
<1> DEFINE j == CurrentJob(q)
           job == [ghJobs[j] EXCEPT !.status = "completed", !.completed = now]
<1>1. /\ ghRuns[q].status = "active" /\ ghJobs[j].status = "active"
      /\ ghJobs' = [ghJobs EXCEPT ![j] = job] /\ now' = now /\ now \in Int
      /\ ghRuns' = ghRuns /\ now \in 0..MaxTime
  BY DEF EndJob, Typed, SyncTypeOK
<1>2. RunVersion(q, ghRuns[q])
  BY <1>1 DEF GitHubSound, NoRun
<1>3. ghRuns[q].attempt \in Attempts /\ ~ (ghRuns[q].attempt > ghRuns[q].attempt)
  BY <1>2, Values DEF RunVersion, RunObjects
<1>4. JobVersion(j, ghJobs[j]) /\ ghJobs[j].started <= now /\ j \in Jobs
  BY <1>3, Values DEF GitHubSound, CurrentJob
<1>5. ghJobs \in [Jobs -> JobObjects] /\ ghJobs[j].started \in Int
  BY <1>4, Fields DEF Typed, SyncTypeOK, JobVersion
<1>6. /\ job \in JobObjects /\ job.started = ghJobs[j].started
      /\ job.status = "completed" /\ job.completed = now
  BY <1>1, <1>4, <1>5 DEF JobObjects
<1>7. 0 <= job.started /\ job.started <= job.completed
  BY <1>4, <1>6 DEF JobVersion
<1> HIDE DEF job
<1>8. /\ ghJobs'[j] = job
      /\ \A i \in Jobs : i # j => ghJobs'[i] = ghJobs[i]
  BY <1>1, <1>4, <1>5
<1>9. ASSUME NEW i \in Jobs, i = j
      PROVE  JobVersion(i, ghJobs[i])'
  BY <1>6, <1>7, <1>8, <1>9 DEF JobVersion
<1> QED
  BY <1>1, <1>4, <1>6, <1>8, <1>9

(* One step of GitHub's concerns one run. *)
LEMMA GitHubSoundNext ==
  ASSUME Typed, GitHubSound, SyncNext
  PROVE  GitHubSound'
<1> USE DEF Attempts
<1>1. Grown
  BY GrownByStep
<1>2. /\ \A r \in Runs : \A x : RunVersion(r, x) => RunVersion(r, x)'
      /\ \A j \in Jobs : \A y : JobVersion(j, y) => JobVersion(j, y)'
  BY <1>1, VersionsStay
<1>3. /\ now \in Int /\ now' \in Int /\ now <= now' /\ MaxAttempts \in Nat
      /\ \A r \in Runs : ghRuns[r].attempt \in 0..MaxAttempts
      /\ \A j \in Jobs : ghJobs[j].started \in Int
      /\ \A r \in Runs, b \in Attempts : <<r, b>> \in Jobs
  BY <1>1, Values, Fields DEF Grown, Typed, SyncTypeOK
<1> DEFINE Runly(r) == ghRuns[r] = NoRun \/ RunVersion(r, ghRuns[r])
           Jobly(r, b) ==
             IF b > ghRuns[r].attempt THEN ghJobs[<<r, b>>] = NoJob
             ELSE /\ JobVersion(<<r, b>>, ghJobs[<<r, b>>])
                  /\ ghJobs[<<r, b>>].started <= now
                  /\ \A c \in 1..(b - 1) :
                       ghJobs[<<r, c>>].started < ghJobs[<<r, b>>].started
<1>4. \A r \in Runs : Runly(r) /\ \A b \in Attempts : Jobly(r, b)
  BY DEF GitHubSound
<1>5. ASSUME NEW r \in Runs, ghRuns'[r] = ghRuns[r]
      PROVE  Runly(r)'
  BY <1>2, <1>4, <1>5
<1>6. ASSUME NEW r \in Runs, NEW b \in Attempts, b > ghRuns'[r].attempt,
             ghJobs'[<<r, b>>] = ghJobs[<<r, b>>], b > ghRuns[r].attempt
      PROVE  Jobly(r, b)'
  BY <1>4, <1>6
<1>7. ASSUME NEW r \in Runs, NEW b \in Attempts, ~ (b > ghRuns[r].attempt),
             ghJobs'[<<r, b>>] = ghJobs[<<r, b>>]
      PROVE  Jobly(r, b)'
  <2>1. JobVersion(<<r, b>>, ghJobs[<<r, b>>]) /\ <<r, b>> \in Jobs
    BY <1>3, <1>4, <1>7
  <2>2. JobVersion(<<r, b>>, ghJobs[<<r, b>>])'
    BY <1>2, <1>7, <2>1
  <2>3. \A c \in 1..b : ghJobs'[<<r, c>>].started = ghJobs[<<r, c>>].started
    BY <1>1, <1>3, <1>7 DEF Grown
  <2>4. b \in 1..b /\ \A c \in 1..(b - 1) : c \in 1..b
    BY <1>3
  <2>5. ~ (b > ghRuns'[r].attempt)
    <3>1. ghRuns'[r].attempt \in {ghRuns[r].attempt, ghRuns[r].attempt + 1}
      BY <1>1 DEF Grown
    <3> QED
      BY <1>3, <1>7, <3>1
  <2>6. ghJobs'[<<r, b>>].started <= now'
    BY <1>3, <1>4, <1>7, <2>1
  <2>7. \A c \in 1..(b - 1) : ghJobs'[<<r, c>>].started < ghJobs'[<<r, b>>].started
    BY <1>4, <1>7, <2>3, <2>4
  <2> QED
    BY <2>2, <2>5, <2>6, <2>7
<1> HIDE DEF Runly, Jobly
<1>8. SUFFICES ASSUME NEW r \in Runs
               PROVE  Runly(r)' /\ \A b \in Attempts : Jobly(r, b)'
  BY DEF GitHubSound, Runly, Jobly
<1>9. ASSUME ghRuns'[r] = ghRuns[r],
             \A b \in Attempts : ghJobs'[<<r, b>>] = ghJobs[<<r, b>>]
      PROVE  Runly(r)' /\ \A b \in Attempts : Jobly(r, b)'
  BY <1>5, <1>6, <1>7, <1>9
<1>10. CASE UNCHANGED <<ghRuns, ghJobs>>
  BY <1>9, <1>10
<1>11. ASSUME NEW q \in Runs, BeginAttempt(q)
       PROVE  Runly(r)' /\ \A b \in Attempts : Jobly(r, b)'
  <2> DEFINE a == ghRuns[q].attempt + 1
  <2>1. ASSUME NEW b \in Attempts, <<r, b>> # <<q, a>>
        PROVE  ghJobs'[<<r, b>>] = ghJobs[<<r, b>>]
    BY <1>3, <1>11, <2>1 DEF BeginAttempt, Typed, SyncTypeOK
  <2>2. CASE r # q
    <3>1. ghRuns'[r] = ghRuns[r]
      BY <1>11, <2>2 DEF BeginAttempt, Typed, SyncTypeOK
    <3> QED
      BY <1>9, <2>1, <2>2, <3>1
  <2>3. CASE r = q
    <3>1. /\ RunVersion(q, ghRuns[q])' /\ ghRuns'[q].attempt = a
          /\ \A j \in Jobs : j = <<q, a>> => JobVersion(j, ghJobs[j])'
          /\ ghJobs'[<<q, a>>].started = now /\ now' = now
          /\ \A c \in 1..ghRuns[q].attempt : ghJobs[<<q, c>>].started < now
      BY <1>11, NewestBegun
    <3>2. Runly(r)'
      BY <2>3, <3>1 DEF Runly
    <3>3. ASSUME NEW b \in Attempts, b # a
          PROVE  Jobly(r, b)'
      <4>1. ghJobs'[<<r, b>>] = ghJobs[<<r, b>>]
        BY <2>1, <3>3
      <4>2. CASE b > ghRuns[r].attempt
        <5>1. b > ghRuns'[r].attempt
          BY <1>3, <2>3, <3>1, <3>3, <4>2
        <5> QED
          BY <1>6, <4>1, <4>2, <5>1
      <4> QED
        BY <1>7, <4>1, <4>2
    <3>4. ASSUME NEW b \in Attempts, b = a
          PROVE  Jobly(r, b)'
      <4>1. JobVersion(<<r, b>>, ghJobs[<<r, b>>])'
        BY <1>3, <2>3, <3>1, <3>4
      <4>2. \A c \in 1..(b - 1) : c \in 1..ghRuns[r].attempt
        BY <1>3, <2>3, <3>4
      <4>3. \A c \in 1..(b - 1) : ghJobs'[<<r, c>>].started = ghJobs[<<r, c>>].started
        BY <1>1, <4>2 DEF Grown
      <4>4. \A c \in 1..(b - 1) : ghJobs'[<<r, c>>].started < ghJobs'[<<r, b>>].started
        BY <2>3, <3>1, <3>4, <4>2, <4>3
      <4>5. ghJobs'[<<r, b>>].started <= now' /\ ~ (b > ghRuns'[r].attempt)
        BY <1>3, <2>3, <3>1, <3>4
      <4> QED
        BY <4>1, <4>4, <4>5 DEF Jobly
    <3> QED
      BY <3>2, <3>3, <3>4
  <2> QED
    BY <2>2, <2>3
<1>12. ASSUME NEW q \in Runs, EndJob(q)
       PROVE  Runly(r)' /\ \A b \in Attempts : Jobly(r, b)'
  <2>1. /\ ghRuns' = ghRuns /\ CurrentJob(q) \in Jobs
        /\ \A j \in Jobs : j # CurrentJob(q) => ghJobs'[j] = ghJobs[j]
        /\ \A j \in Jobs : j = CurrentJob(q) => JobVersion(j, ghJobs[j])'
        /\ \A j \in Jobs : ghJobs'[j].started = ghJobs[j].started
    BY <1>12, NewestEndedJob
  <2>2. ASSUME NEW b \in Attempts, <<r, b>> = CurrentJob(q)
        PROVE  Jobly(r, b)'
    <3>1. b = ghRuns[r].attempt /\ <<r, b>> \in Jobs
      BY <1>3, <2>2 DEF CurrentJob
    <3>2. ~ (b > ghRuns[r].attempt) /\ ~ (b > ghRuns'[r].attempt)
      BY <1>3, <2>1, <3>1
    <3>3. JobVersion(<<r, b>>, ghJobs[<<r, b>>])'
      BY <2>1, <2>2, <3>1
    <3>4. /\ ghJobs[<<r, b>>].started <= now
          /\ \A c \in 1..(b - 1) : ghJobs[<<r, c>>].started < ghJobs[<<r, b>>].started
      BY <1>4, <3>2 DEF Jobly
    <3>5. \A c \in 1..(b - 1) : ghJobs'[<<r, c>>].started = ghJobs[<<r, c>>].started
      <4>1. \A c \in 1..(b - 1) : c \in 1..ghRuns[r].attempt
        BY <1>3, <3>1
      <4> QED
        BY <1>1, <4>1 DEF Grown
    <3>6. ghJobs'[<<r, b>>].started = ghJobs[<<r, b>>].started
      BY <2>1, <3>1
    <3>7. ghJobs'[<<r, b>>].started <= now'
      BY <1>3, <3>1, <3>4, <3>6
    <3>8. \A c \in 1..(b - 1) : ghJobs'[<<r, c>>].started < ghJobs'[<<r, b>>].started
      BY <3>4, <3>5, <3>6
    <3> QED
      BY <3>2, <3>3, <3>7, <3>8 DEF Jobly
  <2>3. ASSUME NEW b \in Attempts, <<r, b>> # CurrentJob(q)
        PROVE  Jobly(r, b)'
    <3>1. ghJobs'[<<r, b>>] = ghJobs[<<r, b>>]
      BY <1>3, <2>1, <2>3
    <3> QED
      BY <1>6, <1>7, <2>1, <3>1
  <2> QED
    BY <1>5, <2>1, <2>2, <2>3
<1>13. ASSUME NEW q \in Runs, EndRun(q)
       PROVE  Runly(r)' /\ \A b \in Attempts : Jobly(r, b)'
  <2>1. /\ RunVersion(q, ghRuns[q])' /\ ghRuns'[q].attempt = ghRuns[q].attempt
        /\ ghJobs' = ghJobs
    BY <1>13, NewestEndedRun
  <2>2. r # q => ghRuns'[r] = ghRuns[r]
    BY <1>13 DEF EndRun, Typed, SyncTypeOK
  <2>3. Runly(r)'
    BY <1>5, <2>1, <2>2 DEF Runly
  <2>4. ghRuns'[r].attempt = ghRuns[r].attempt
    BY <2>1, <2>2
  <2> QED
    BY <1>6, <1>7, <2>1, <2>3, <2>4
<1>14. GitHubStep \/ UNCHANGED <<now, ghRuns, ghJobs>>
  BY DEF SyncNext, TakeRun, TakeJob, Turn, Refresh, PublishState, Restart, FetchRun,
         saveState, Loaded, LoadRun, RefreshRun, RefreshJob, RefreshNothing
<1> QED
  BY <1>10, <1>11, <1>12, <1>13, <1>14 DEF GitHubStep, Tick
-------------------------------------------------------------------------------
(* setRun and setJob *)

(* A run or a job is replaced by something newer or by GitHub's answer.     *)
RunTakes(r, x) ==
  \/ runs' = runs
  \/ /\ runs' = [runs EXCEPT ![r] = x]
     /\ x.updated > runs[r].updated \/ x = ghRuns[r]

JobTakes(j, y) ==
  \/ jobs' = jobs
  \/ /\ jobs' = [jobs EXCEPT ![j] = y]
     /\ JobStamp(y) > JobStamp(jobs[j]) \/ y = ghJobs[j]

(* What the goroutine knows is seen elsewhere, and goes forward. *)
RunsLater ==
  /\ runs' \in [Runs -> RunObjects]
  /\ \A r \in Runs : /\ runs'[r] \in SeenRuns(r)
                     /\ runs'[r] = NoRun \/ RunVersion(r, runs'[r])
                     /\ Stage(runs'[r]) >= Stage(runs[r])

JobsLater ==
  /\ jobs' \in [Jobs -> JobObjects]
  /\ \A j \in Jobs : /\ jobs'[j] = NoJob \/ JobVersion(j, jobs'[j])
                     /\ jobs[j] # NoJob => jobs'[j] # NoJob
                     /\ jobs[j].status = "completed" => jobs'[j].status = "completed"

LEMMA RunTaken ==
  ASSUME Typed, GitHubSound, LocalsSound, Agreed,
         NEW r \in Runs, NEW x \in SeenRuns(r), x = NoRun \/ RunVersion(r, x), RunTakes(r, x)
  PROVE  RunsLater
<1>1. runs \in [Runs -> RunObjects] /\ ghRuns \in [Runs -> RunObjects]
  BY DEF Typed, SyncTypeOK
<1>2. /\ \A q \in Runs : Stage(runs[q]) \in Int /\ runs[q] \in SeenRuns(q)
      /\ \A q \in Runs : runs[q] = NoRun \/ RunVersion(q, runs[q])
  BY <1>1, Fields DEF LocalsSound, SeenRuns
<1>3. CASE runs' = runs
  BY <1>1, <1>2, <1>3 DEF RunsLater
<1>4. CASE /\ runs' = [runs EXCEPT ![r] = x]
           /\ x.updated > runs[r].updated \/ x = ghRuns[r]
  <2>1. x \in RunObjects
    BY Values DEF RunVersion
  <2>2. /\ x.updated \in Int /\ runs[r].updated \in Int /\ Stage(x) \in Int
        /\ Stage(runs[r]) \in Int
    BY <1>1, <2>1, Fields
  <2>3. Stage(NoRun) = 0 /\ NoRun.updated = Zero
    BY DEF Stage, NoRun
  <2>4. ASSUME x = NoRun
        PROVE  Stage(x) >= Stage(runs[r])
    <3>1. runs[r].updated \in {Zero} \cup 0..MaxTime
      BY <1>1, Fields
    <3>2. ~ (Zero > runs[r].updated)
      BY <3>1, Values
    <3>3. ghRuns[r] = NoRun
      BY <1>4, <2>3, <2>4, <3>2
    <3>4. ~ RunVersion(r, runs[r])
      BY <3>3 DEF NoRun, RunVersion
    <3>5. Stage(x) = Stage(runs[r])
      BY <1>2, <2>4, <3>4, Zenon
    <3> QED
      BY <2>2, <3>5
  <2>5. ASSUME RunVersion(r, x), runs[r] = NoRun
        PROVE  Stage(x) >= Stage(runs[r])
    <3>1. x.attempt \in Int /\ x.attempt >= 1
      BY <1>1, <2>5, Fields DEF RunVersion
    <3>2. Stage(x) >= 0
      BY <3>1 DEF Stage
    <3>3. Stage(runs[r]) = 0
      BY <2>3, <2>5, Zenon
    <3> QED
      BY <3>2, <3>3
  <2>6. ASSUME RunVersion(r, x), RunVersion(r, runs[r])
        PROVE  Stage(x) >= Stage(runs[r])
    <3>1. x = ghRuns[r] => Stage(x) >= Stage(runs[r])
      BY <2>2, <2>6, NewestRun
    <3>2. x.attempt = runs[r].attempt /\ x.status = "completed"
            /\ runs[r].status = "completed" => x.updated = runs[r].updated
      BY <1>2 DEF Agreed
    <3>3. Stage(x) <= Stage(runs[r]) => x.updated <= runs[r].updated
      BY <2>6, <3>2, RunOrder
    <3>4. x.updated > runs[r].updated => Stage(x) >= Stage(runs[r])
      BY <2>2, <3>3
    <3> QED
      BY <1>4, <3>1, <3>4, Zenon
  <2>7. Stage(x) >= Stage(runs[r])
    BY <1>2, <2>4, <2>5, <2>6, Zenon
  <2>8. runs' \in [Runs -> RunObjects] /\ runs'[r] = x
        /\ \A q \in Runs : q # r => runs'[q] = runs[q]
    BY <1>1, <1>4, <2>1
  <2>9. ASSUME NEW q \in Runs
        PROVE  /\ runs'[q] \in SeenRuns(q)
               /\ runs'[q] = NoRun \/ RunVersion(q, runs'[q])
               /\ Stage(runs'[q]) >= Stage(runs[q])
    <3>1. CASE q = r
      BY <2>7, <2>8, <3>1
    <3>2. CASE q # r
      <4>1. runs'[q] = runs[q] /\ Stage(runs[q]) >= Stage(runs[q])
        BY <1>2, <2>8, <3>2
      <4> QED
        BY <1>2, <4>1
    <3> QED
      BY <3>1, <3>2
  <2> QED
    BY <2>8, <2>9 DEF RunsLater
<1> QED
  BY <1>3, <1>4 DEF RunTakes

LEMMA JobTaken ==
  ASSUME Typed, GitHubSound, LocalsSound, NEW j \in Jobs, NEW y,
         y = NoJob \/ JobVersion(j, y), JobTakes(j, y)
  PROVE  JobsLater
<1>1. jobs \in [Jobs -> JobObjects]
  BY DEF Typed, SyncTypeOK
<1>2. \A i \in Jobs : jobs[i] = NoJob \/ JobVersion(i, jobs[i])
  BY DEF LocalsSound
<1>3. CASE jobs' = jobs
  BY <1>1, <1>2, <1>3 DEF JobsLater
<1>4. CASE /\ jobs' = [jobs EXCEPT ![j] = y]
           /\ JobStamp(y) > JobStamp(jobs[j]) \/ y = ghJobs[j]
  <2>1. y \in JobObjects
    BY Values DEF JobVersion
  <2>2. /\ JobStamp(NoJob) = Zero /\ NoJob.status = "none"
        /\ Zero \in Int /\ Zero < 0
    BY Values DEF JobStamp, NoJob
  <2>3. ASSUME JobVersion(j, jobs[j])
        PROVE  /\ y # NoJob
               /\ jobs[j].status = "completed" => y.status = "completed"
    <3>1. /\ JobVersion(j, ghJobs[j])
          /\ jobs[j].status = "completed" => ghJobs[j].status = "completed"
      BY <2>3, NewestJob
    <3>2. ghJobs[j] # NoJob
      BY <2>2, <3>1 DEF JobVersion
    <3>3. /\ jobs[j].started \in Int /\ jobs[j].completed \in Int
          /\ y.started \in Int /\ y.completed \in Int
      BY <1>1, <2>1, Fields
    <3>4. JobStamp(jobs[j]) >= 0
      BY <2>2, <2>3, <3>3 DEF JobVersion, JobStamp
    <3>5. CASE JobStamp(y) > JobStamp(jobs[j])
      <4>1. y # NoJob
        <5>1. JobStamp(y) \in Int /\ JobStamp(jobs[j]) \in Int
          BY <1>1, <2>1, Fields
        <5>2. JobStamp(y) # JobStamp(NoJob)
          BY <2>2, <3>4, <3>5, <5>1
        <5> QED
          BY <5>2, Zenon
      <4>2. ASSUME jobs[j].status = "completed", y.status = "active"
            PROVE  FALSE
        <5>1. JobStamp(jobs[j]) >= ghJobs[j].started
          BY <2>2, <2>3, <3>3, <4>2 DEF JobVersion, JobStamp
        <5>2. JobStamp(y) = ghJobs[j].started
          BY <4>1, <4>2 DEF JobVersion, JobStamp
        <5>3. JobStamp(y) \in Int /\ JobStamp(jobs[j]) \in Int
          BY <1>1, <2>1, Fields
        <5> QED
          BY <3>5, <5>1, <5>2, <5>3
      <4> QED
        BY <4>1, <4>2 DEF JobVersion
    <3>6. CASE y = ghJobs[j]
      BY <3>1, <3>2, <3>6
    <3> QED
      BY <1>4, <3>5, <3>6
  <2>4. jobs' \in [Jobs -> JobObjects] /\ jobs'[j] = y
        /\ \A i \in Jobs : i # j => jobs'[i] = jobs[i]
    BY <1>1, <1>4, <2>1
  <2> QED
    BY <1>2, <2>2, <2>3, <2>4 DEF JobsLater
<1> QED
  BY <1>3, <1>4 DEF JobTakes
LEMMA LocalsKept ==
  ASSUME Typed, LocalsSound
  PROVE  /\ runs' = runs => RunsLater
         /\ jobs' = jobs => JobsLater
<1>1. /\ runs \in [Runs -> RunObjects] /\ jobs \in [Jobs -> JobObjects]
      /\ \A r \in Runs : Stage(runs[r]) \in Int
  BY Fields DEF Typed, SyncTypeOK
<1>2. runs' = runs => RunsLater
  BY <1>1 DEF RunsLater, LocalsSound, SeenRuns
<1>3. jobs' = jobs => JobsLater
  BY <1>1 DEF JobsLater, LocalsSound
<1> QED
  BY <1>2, <1>3

(* GitHub's answers *)
LEMMA RunAnswered ==
  ASSUME Typed, GitHubSound, LocalsSound, Agreed, NEW r \in Runs,
         setRun(r, ghRuns[r], TRUE) \/ setRun(r, ghRuns[r], FALSE)
  PROVE  RunsLater
<1>1. RunTakes(r, ghRuns[r])
  BY DEF setRun, RunTakes
<1>2. ghRuns[r] \in SeenRuns(r)
  BY DEF SeenRuns
<1>3. ghRuns[r] = NoRun \/ RunVersion(r, ghRuns[r])
  BY DEF GitHubSound
<1> QED
  BY <1>1, <1>2, <1>3, RunTaken

LEMMA JobAnswered ==
  ASSUME Typed, GitHubSound, LocalsSound, NEW j \in Jobs, setJob(j, ghJobs[j], TRUE)
  PROVE  JobsLater
<1>1. JobTakes(j, ghJobs[j])
  BY DEF setJob, JobTakes
<1>2. j[1] \in Runs /\ j[2] \in Attempts /\ j = <<j[1], j[2]>>
  BY Values
<1>3. ghJobs[j] = NoJob \/ JobVersion(j, ghJobs[j])
  BY <1>2 DEF GitHubSound
<1> QED
  BY <1>1, <1>3, JobTaken

(* What the goroutine knows goes forward, but for what it drops. *)
LEMMA LocalsMove ==
  ASSUME Typed, GitHubSound, HooksSound, LocalsSound, Agreed, SyncNext
  PROVE  (RunsLater /\ JobsLater) \/ PublishState \/ Restart
<1> DEFINE Goal == RunsLater /\ JobsLater
<1>1. /\ runs' = runs => RunsLater
      /\ jobs' = jobs => JobsLater
  BY LocalsKept
<1>2. ASSUME UNCHANGED <<runs, jobs>> PROVE Goal
  BY <1>1, <1>2
<1>3. GitHubStep => UNCHANGED <<runs, jobs>>
  BY DEF GitHubStep, Tick, BeginAttempt, EndJob, EndRun
<1>4. ASSUME TakeRun PROVE Goal
  <2>1. PICK h \in hooks : h.kind = "run" /\ setRun(h.run, h.object, FALSE)
    BY <1>4 DEF TakeRun
  <2>2. h.run \in Runs /\ RunVersion(h.run, h.object)
    BY <2>1 DEF HooksSound
  <2>3. h.object \in SeenRuns(h.run)
    BY <2>1 DEF SeenRuns
  <2>4. RunTakes(h.run, h.object)
    BY <2>1 DEF setRun, RunTakes
  <2>5. jobs' = jobs
    BY <1>4 DEF TakeRun
  <2> QED
    BY <1>1, <2>2, <2>3, <2>4, <2>5, RunTaken
<1>5. ASSUME TakeJob PROVE Goal
  <2>1. PICK h \in hooks : h.kind = "job" /\ setJob(h.job, h.object, FALSE)
    BY <1>5 DEF TakeJob
  <2>2. h.job \in Jobs /\ JobVersion(h.job, h.object)
    BY <2>1 DEF HooksSound
  <2>3. JobTakes(h.job, h.object)
    BY <2>1 DEF setJob, JobTakes
  <2>4. runs' = runs
    BY <1>5 DEF TakeJob
  <2> QED
    BY <1>1, <2>2, <2>3, <2>4, JobTaken
<1>6. ASSUME FetchRun PROVE Goal
  <2>1. turn.fetch \subseteq Runs /\ jobs' = jobs
    BY <1>6 DEF FetchRun, Typed, SyncTypeOK
  <2>2. (\E r \in Runs : setRun(r, ghRuns[r], FALSE)) \/ runs' = runs
    BY <1>6, <2>1 DEF FetchRun
  <2> QED
    BY <1>1, <2>1, <2>2, RunAnswered
<1>7. ASSUME NEW r \in Runs, LoadRun(r) PROVE Goal
  <2>1. setRun(r, ghRuns[r], TRUE) \/ runs' = runs
    BY <1>7 DEF LoadRun
  <2>2. setJob(CurrentJob(r), ghJobs[CurrentJob(r)], TRUE) \/ jobs' = jobs
    BY <1>7 DEF LoadRun
  <2>3. CurrentJob(r) \notin Jobs /\ setJob(CurrentJob(r), ghJobs[CurrentJob(r)], TRUE)
          => jobs' = jobs
    BY DEF setJob, Typed, SyncTypeOK
  <2>4. CurrentJob(r) \in Jobs /\ setJob(CurrentJob(r), ghJobs[CurrentJob(r)], TRUE)
          => JobsLater
    BY JobAnswered
  <2> QED
    BY <1>1, <2>1, <2>2, <2>3, <2>4, RunAnswered
<1>8. saveState \/ Loaded \/ RefreshNothing => UNCHANGED <<runs, jobs>>
  BY DEF saveState, Loaded, RefreshNothing
<1>9. ASSUME NEW r \in Runs, RefreshRun(r) PROVE Goal
  <2>1. (setRun(r, ghRuns[r], TRUE) \/ runs' = runs) /\ jobs' = jobs
    BY <1>9 DEF RefreshRun
  <2> QED
    BY <1>1, <2>1, RunAnswered
<1>10. ASSUME NEW j \in Jobs, RefreshJob(j) PROVE Goal
  <2>1. (setJob(j, ghJobs[j], TRUE) \/ jobs' = jobs) /\ runs' = runs
    BY <1>10 DEF RefreshJob
  <2> QED
    BY <1>1, <2>1, JobAnswered
<1> HIDE DEF Goal
<1>11. Goal \/ PublishState \/ Restart
  BY <1>2, <1>3, <1>4, <1>5, <1>6, <1>7, <1>8, <1>9, <1>10 DEF SyncNext, Turn,
     Refresh
<1> QED
  BY <1>11 DEF Goal
-------------------------------------------------------------------------------
(* What is kept and published *)

LEMMA Kept ==
  ASSUME Typed, PublishState
  PROVE  /\ runs' \in [Runs -> RunObjects] /\ jobs' \in [Jobs -> JobObjects]
         /\ \A r \in Runs : runs'[r] = KeptRuns[r] /\ runs'[r] \in {NoRun, runs[r]}
         /\ \A j \in Jobs : jobs'[j] = KeptJobs[j] /\ jobs'[j] \in {NoJob, jobs[j]}
<1>1. runs \in [Runs -> RunObjects] /\ jobs \in [Jobs -> JobObjects]
  BY DEF Typed, SyncTypeOK
<1>2. runs' = KeptRuns /\ jobs' = KeptJobs
  BY DEF PublishState
<1>3. /\ \A r \in Runs : KeptRuns[r] \in {NoRun, runs[r]}
      /\ \A j \in Jobs : KeptJobs[j] \in {NoJob, jobs[j]}
  BY DEF KeptRuns, KeptJobs
<1>4. KeptRuns \in [Runs -> RunObjects] /\ KeptJobs \in [Jobs -> JobObjects]
  BY <1>1, Values DEF KeptRuns, KeptJobs
<1> QED
  BY <1>2, <1>3, <1>4

(* The jobs newState gives to a run. *)
Mine(r) ==
  {j \in Jobs : j[1] = r /\ KeptJobs[j] # NoJob /\ Belongs(KeptJobs[j], KeptRuns[r])}

LEMMA Published ==
  ASSUME PublishState, NEW r \in Runs
  PROVE  published'[r] =
           IF KeptRuns[r] = NoRun \/ Mine(r) = {} THEN NotShown
           ELSE [attempt |-> KeptRuns[r].attempt, status |-> KeptRuns[r].status,
                 jobs |-> {[attempt |-> j[2], status |-> KeptJobs[j].status] :
                             j \in Mine(r)}]
BY DEF PublishState, newState, Mine

(* A run comes to be shown as it is known, with jobs as they are known, of  *)
(* its attempt or later ones.                                              *)
LEMMA ShownAsKnown ==
  ASSUME Typed, GitHubSound, LocalsSound, PublishState, NEW r \in Runs,
         published'[r] # NotShown
  PROVE  /\ runs'[r] = runs[r] /\ RunVersion(r, runs[r])
         /\ published'[r].attempt = runs[r].attempt
         /\ published'[r].status = runs[r].status
         /\ published'[r].jobs # {}
         /\ \A o \in published'[r].jobs :
              /\ o \in [attempt : Attempts, status : {"active", "completed"}]
              /\ o.attempt >= runs[r].attempt
              /\ jobs[<<r, o.attempt>>] # NoJob
              /\ jobs'[<<r, o.attempt>>] = jobs[<<r, o.attempt>>]
              /\ o = [attempt |-> o.attempt, status |-> jobs[<<r, o.attempt>>].status]
<1> DEFINE run  == KeptRuns[r]
           job(j) == [attempt |-> j[2], status |-> KeptJobs[j].status]
<1>1. /\ run # NoRun /\ Mine(r) # {}
      /\ published'[r] = [attempt |-> run.attempt, status |-> run.status,
                          jobs |-> {job(j) : j \in Mine(r)}]
  BY Published
<1>2. run = runs[r] /\ runs'[r] = runs[r]
  BY <1>1, Kept
<1>3. RunVersion(r, runs[r])
  BY <1>1, <1>2 DEF LocalsSound
<1>4. ASSUME NEW j \in Mine(r)
      PROVE  /\ job(j) \in [attempt : Attempts, status : {"active", "completed"}]
             /\ j[2] >= runs[r].attempt
             /\ j = <<r, j[2]>> /\ jobs[j] # NoJob /\ jobs'[j] = jobs[j]
             /\ KeptJobs[j] = jobs[j]
  <2>1. /\ j \in Jobs /\ j[1] = r /\ KeptJobs[j] # NoJob
        /\ KeptJobs[j].started >= run.started
    BY DEF Mine, Belongs
  <2>2. KeptJobs[j] = jobs[j] /\ jobs'[j] = jobs[j] /\ jobs[j] # NoJob
    BY <2>1, Kept
  <2>3. JobVersion(j, jobs[j])
    BY <2>1, <2>2 DEF LocalsSound
  <2>4. j[2] \in Attempts /\ j = <<r, j[2]>>
    BY <2>1, Values
  <2>5. j[2] \in 1..ghRuns[r].attempt
    BY <2>1, <2>3, NewestJob
  <2>6. /\ runs[r].attempt \in 1..ghRuns[r].attempt
        /\ runs[r].started = ghJobs[<<r, runs[r].attempt>>].started
        /\ jobs[j].started = ghJobs[<<r, j[2]>>].started
    BY <1>3, <2>3, <2>4 DEF RunVersion, JobVersion
  <2>7. j[2] < runs[r].attempt
          => ghJobs[<<r, j[2]>>].started < ghJobs[<<r, runs[r].attempt>>].started
    BY <2>5, <2>6, StartsRise
  <2>8. /\ ghJobs[<<r, j[2]>>].started \in Int
        /\ ghJobs[<<r, runs[r].attempt>>].started \in Int
    BY <2>5, <2>6, StartsRise, Fields
  <2>9. ~ (j[2] < runs[r].attempt)
    BY <1>2, <2>1, <2>2, <2>6, <2>7, <2>8
  <2>10. j[2] >= runs[r].attempt
    BY <2>5, <2>6, <2>9
  <2>11. KeptJobs[j].status \in {"active", "completed"}
    BY <2>2, <2>3 DEF JobVersion
  <2> QED
    BY <2>2, <2>4, <2>10, <2>11
<1>5. /\ published'[r].attempt = runs[r].attempt
      /\ published'[r].status = runs[r].status
      /\ published'[r].jobs = {job(j) : j \in Mine(r)}
  BY <1>1, <1>2
<1>6. published'[r].jobs # {}
  BY <1>1, <1>5
<1>7. ASSUME NEW o \in published'[r].jobs
      PROVE  /\ o \in [attempt : Attempts, status : {"active", "completed"}]
             /\ o.attempt >= runs[r].attempt
             /\ jobs[<<r, o.attempt>>] # NoJob
             /\ jobs'[<<r, o.attempt>>] = jobs[<<r, o.attempt>>]
             /\ o = [attempt |-> o.attempt, status |-> jobs[<<r, o.attempt>>].status]
  <2>1. PICK j \in Mine(r) : o = job(j)
    BY <1>5
  <2>2. o.attempt = j[2] /\ o.status = KeptJobs[j].status
    BY <2>1
  <2>3. /\ o \in [attempt : Attempts, status : {"active", "completed"}]
        /\ j[2] >= runs[r].attempt /\ j = <<r, j[2]>>
        /\ jobs[j] # NoJob /\ jobs'[j] = jobs[j] /\ KeptJobs[j] = jobs[j]
    BY <1>4, <2>1
  <2>4. o = [attempt |-> o.attempt, status |-> jobs[j].status]
    BY <2>1, <2>2, <2>3
  <2> QED
    BY <2>2, <2>3, <2>4
<1> QED
  BY <1>2, <1>3, <1>5, <1>6, <1>7
-------------------------------------------------------------------------------
(* The inductive invariant is kept *)

(* A webhook is sent for what GitHub has just changed. *)
LEMMA HooksFrom ==
  ASSUME Typed, GitHubSound, SyncNext, NEW h \in hooks'
  PROVE  \/ h \in hooks
         \/ \E r \in Runs : /\ h = RunHook(r, ghRuns'[r]) /\ RunVersion(r, ghRuns[r])'
                            /\ BeginAttempt(r) \/ EndRun(r)
         \/ \E j \in Jobs : h = JobHook(j, ghJobs'[j]) /\ JobVersion(j, ghJobs[j])'
<1> DEFINE Goal == \/ h \in hooks
                   \/ \E r \in Runs : /\ h = RunHook(r, ghRuns'[r])
                                      /\ RunVersion(r, ghRuns[r])'
                                      /\ BeginAttempt(r) \/ EndRun(r)
                   \/ \E j \in Jobs : /\ h = JobHook(j, ghJobs'[j])
                                      /\ JobVersion(j, ghJobs[j])'
<1>1. /\ ghRuns \in [Runs -> RunObjects] /\ ghJobs \in [Jobs -> JobObjects]
      /\ \A r \in Runs, b \in Attempts : <<r, b>> \in Jobs
  BY Values DEF Typed, SyncTypeOK
<1>2. ASSUME NEW q \in Runs, BeginAttempt(q) PROVE Goal
  <2> DEFINE a == ghRuns[q].attempt + 1
             run == [attempt |-> a, status |-> "active", started |-> now, updated |-> now]
             job == [status |-> "active", started |-> now, completed |-> Zero]
  <2>1. /\ a \in Attempts /\ ghRuns' = [ghRuns EXCEPT ![q] = run]
        /\ ghJobs' = [ghJobs EXCEPT ![<<q, a>>] = job]
        /\ h \in hooks \cup {RunHook(q, run), JobHook(<<q, a>>, job)}
    BY <1>2 DEF BeginAttempt, Emit
  <2>2. <<q, a>> \in Jobs
    BY <1>1, <2>1
  <2> HIDE DEF run, job
  <2>3. run = ghRuns'[q] /\ job = ghJobs'[<<q, a>>]
    BY <1>1, <2>1, <2>2
  <2>4. /\ RunVersion(q, ghRuns[q])' /\ ghRuns'[q].attempt = a
        /\ \A j \in Jobs : j = <<q, a>> => JobVersion(j, ghJobs[j])'
    BY <1>2, NewestBegun
  <2>5. ASSUME NEW j \in Jobs, j = <<q, a>>, h = JobHook(j, job)
        PROVE  Goal
    BY <2>3, <2>4, <2>5
  <2> QED
    BY <1>2, <2>1, <2>2, <2>3, <2>4, <2>5
<1>3. ASSUME NEW q \in Runs, EndJob(q) PROVE Goal
  <2> DEFINE job == [ghJobs[CurrentJob(q)] EXCEPT !.status = "completed",
                                                  !.completed = now]
  <2>1. /\ ghJobs' = [ghJobs EXCEPT ![CurrentJob(q)] = job]
        /\ h \in hooks \cup {JobHook(CurrentJob(q), job)}
    BY <1>3 DEF EndJob, Emit
  <2>2. /\ CurrentJob(q) \in Jobs
        /\ \A j \in Jobs : j = CurrentJob(q) => JobVersion(j, ghJobs[j])'
    BY <1>3, NewestEndedJob
  <2> HIDE DEF job
  <2>3. job = ghJobs'[CurrentJob(q)]
    BY <1>1, <2>1, <2>2
  <2>4. ASSUME NEW j \in Jobs, j = CurrentJob(q), h = JobHook(j, job)
        PROVE  Goal
    BY <2>2, <2>3, <2>4
  <2> QED
    BY <2>1, <2>2, <2>4
<1>4. ASSUME NEW q \in Runs, EndRun(q) PROVE Goal
  <2> DEFINE run == [ghRuns[q] EXCEPT !.status = "completed", !.updated = now]
  <2>1. /\ ghRuns' = [ghRuns EXCEPT ![q] = run]
        /\ h \in hooks \cup {RunHook(q, run)}
    BY <1>4 DEF EndRun, Emit
  <2>2. RunVersion(q, ghRuns[q])'
    BY <1>4, NewestEndedRun
  <2> HIDE DEF run
  <2>3. run = ghRuns'[q]
    BY <1>1, <2>1
  <2> QED
    BY <1>4, <2>1, <2>2, <2>3
<1>5. \/ hooks' \subseteq hooks
      \/ \E q \in Runs : BeginAttempt(q) \/ EndJob(q) \/ EndRun(q)
  BY DEF SyncNext, GitHubStep, Tick, TakeRun, TakeJob, Turn, Refresh,
         PublishState, Restart, FetchRun, saveState, Loaded, LoadRun, RefreshRun,
         RefreshJob, RefreshNothing
<1> HIDE DEF Goal
<1>6. hooks' \subseteq hooks => Goal
  BY DEF Goal
<1>7. Goal
  BY <1>2, <1>3, <1>4, <1>5, <1>6
<1> QED
  BY <1>7 DEF Goal

LEMMA HooksSoundNext ==
  ASSUME Typed, GitHubSound, HooksSound, SyncNext
  PROVE  HooksSound'
<1>1. /\ \A r \in Runs : \A x : RunVersion(r, x) => RunVersion(r, x)'
      /\ \A j \in Jobs : \A y : JobVersion(j, y) => JobVersion(j, y)'
  BY GrownByStep, VersionsStay
<1>2. ASSUME NEW h \in hooks'
      PROVE  \/ h.kind = "run" /\ h.run \in Runs /\ RunVersion(h.run, h.object)'
             \/ h.kind = "job" /\ h.job \in Jobs /\ JobVersion(h.job, h.object)'
  <2>1. CASE h \in hooks
    BY <1>1, <2>1 DEF HooksSound
  <2>2. ASSUME NEW r \in Runs, h = RunHook(r, ghRuns'[r]), RunVersion(r, ghRuns[r])'
        PROVE  h.kind = "run" /\ h.run \in Runs /\ RunVersion(h.run, h.object)'
    <3>1. h.kind = "run" /\ h.run = r /\ h.object = ghRuns'[r]
      BY <2>2 DEF RunHook
    <3> QED
      BY <2>2, <3>1
  <2>3. ASSUME NEW j \in Jobs, h = JobHook(j, ghJobs'[j]), JobVersion(j, ghJobs[j])'
        PROVE  h.kind = "job" /\ h.job \in Jobs /\ JobVersion(h.job, h.object)'
    <3>1. h.kind = "job" /\ h.job = j /\ h.object = ghJobs'[j]
      BY <2>3 DEF JobHook
    <3> QED
      BY <2>3, <3>1
  <2> QED
    BY <2>1, <2>2, <2>3, HooksFrom
<1> QED
  BY <1>2 DEF HooksSound

LEMMA LocalsSoundNext ==
  ASSUME Typed, GitHubSound, HooksSound, LocalsSound, Agreed, SyncNext
  PROVE  LocalsSound'
<1>1. /\ \A r \in Runs : \A x : RunVersion(r, x) => RunVersion(r, x)'
      /\ \A j \in Jobs : \A y : JobVersion(j, y) => JobVersion(j, y)'
  BY GrownByStep, VersionsStay
<1>2. CASE RunsLater /\ JobsLater
  BY <1>1, <1>2 DEF RunsLater, JobsLater, LocalsSound
<1>3. CASE PublishState
  BY <1>1, <1>3, Kept DEF LocalsSound
<1>4. CASE Restart
  BY <1>4 DEF Restart, LocalsSound
<1> QED
  BY <1>2, <1>3, <1>4, LocalsMove

LEMMA TypedNext ==
  ASSUME Typed, GitHubSound, HooksSound, LocalsSound, Agreed, SyncNext
  PROVE  Typed'
<1>1. ghRuns' \in [Runs -> RunObjects] /\ ghJobs' \in [Jobs -> JobObjects]
  BY GrownByStep DEF Grown
<1>2. now' \in 0..MaxTime
  <2>1. now \in 0..MaxTime
    BY DEF Typed, SyncTypeOK
  <2>2. Tick => now' \in 0..MaxTime
    BY <2>1, Values DEF Tick
  <2>3. Tick \/ now' = now
    BY DEF SyncNext, GitHubStep, BeginAttempt, EndJob, EndRun, TakeRun, TakeJob,
           Turn, Refresh, PublishState, Restart, FetchRun, saveState, Loaded,
           LoadRun, RefreshRun, RefreshJob, RefreshNothing
  <2> QED
    BY <2>1, <2>2, <2>3
<1>3. runs' \in [Runs -> RunObjects] /\ jobs' \in [Jobs -> JobObjects]
  <2>1. CASE Restart
    BY <2>1, Values DEF Restart
  <2> QED
    BY <2>1, Kept, LocalsMove DEF RunsLater, JobsLater
<1>4. turn' \in [pc : {"load", "select", "fetch", "publish", "save"},
                 fetch : SUBSET Runs]
  <2>1. ASSUME TakeJob
        PROVE  turn' \in [pc : {"load", "select", "fetch", "publish", "save"},
                          fetch : SUBSET Runs]
    <3>1. PICK h \in hooks : /\ h.kind = "job"
                             /\ turn' = [pc |-> "fetch", fetch |-> {h.job[1]}]
      BY <2>1 DEF TakeJob
    <3>2. h.job \in Jobs
      BY <3>1 DEF HooksSound
    <3> QED
      BY <3>1, <3>2, Values
  <2>2. ASSUME NEW r \in Runs, LoadRun(r)
        PROVE  turn' \in [pc : {"load", "select", "fetch", "publish", "save"},
                          fetch : SUBSET Runs]
    BY <2>2 DEF LoadRun, Typed, SyncTypeOK
  <2>3. \/ TakeJob \/ (\E r \in Runs : LoadRun(r)) \/ turn' = turn
        \/ turn' \in {ToSelect, ToPublish, [pc |-> "save", fetch |-> {}],
                      [pc |-> "load", fetch |-> saved]}
    BY DEF SyncNext, GitHubStep, Tick, BeginAttempt, EndJob, EndRun, TakeRun,
           Turn, Refresh, PublishState, Restart, FetchRun, saveState, Loaded,
           RefreshRun, RefreshJob, RefreshNothing
  <2> QED
    BY <2>1, <2>2, <2>3 DEF ToSelect, ToPublish, Typed, SyncTypeOK
<1>5. published' \in States
  <2>1. CASE PublishState
    <3>1. published' = [r \in Runs |-> published'[r]]
      BY <2>1 DEF PublishState, newState
    <3>2. NotShown \in [attempt : 0..MaxAttempts, status : {"none", "active", "completed"},
            jobs : SUBSET [attempt : Attempts, status : {"active", "completed"}]]
      BY Values DEF NotShown
    <3>3. ASSUME NEW r \in Runs, published'[r] # NotShown
          PROVE  published'[r] \in
                   [attempt : 0..MaxAttempts, status : {"none", "active", "completed"},
                    jobs : SUBSET [attempt : Attempts, status : {"active", "completed"}]]
      <4>1. /\ published'[r].attempt \in 0..MaxAttempts
            /\ published'[r].status \in {"none", "active", "completed"}
            /\ published'[r].jobs
                 \subseteq [attempt : Attempts, status : {"active", "completed"}]
        BY <2>1, <3>3, ShownAsKnown, Fields DEF RunVersion
      <4>2. published'[r] = [attempt |-> published'[r].attempt,
              status |-> published'[r].status, jobs |-> published'[r].jobs]
        <5>1. \E a, s, js : published'[r] = [attempt |-> a, status |-> s, jobs |-> js]
          BY <2>1, <3>3, Published
        <5> QED
          BY <5>1
      <4> QED
        BY <4>1, <4>2
    <3> QED
      BY <3>1, <3>2, <3>3 DEF States
  <2>2. CASE Restart
    BY <2>2, Values DEF Restart, Nothing, NotShown, States
  <2>3. CASE ~ PublishState /\ ~ Restart
    BY <2>3 DEF SyncNext, GitHubStep, Tick, BeginAttempt, EndJob, EndRun,
                TakeRun, TakeJob, Turn, Refresh, FetchRun, saveState, Loaded,
                LoadRun, RefreshRun, RefreshJob, RefreshNothing, Typed,
                SyncTypeOK
  <2> QED
    BY <2>1, <2>2, <2>3
<1>6. saved' \subseteq Runs
  BY DEF SyncNext, GitHubStep, Tick, BeginAttempt, EndJob, EndRun, TakeRun,
         TakeJob, Turn, Refresh, PublishState, Restart, FetchRun, saveState,
         SavedRuns, Loaded, LoadRun, RefreshRun, RefreshJob, RefreshNothing,
         Typed, SyncTypeOK
<1>7. spent' \in [faults : 0..MaxFaults, crashes : 0..MaxCrashes]
  <2>1. MaxFaults \in Nat /\ MaxCrashes \in Nat
    BY JobsBounds
  <2>2. spent \in [faults : 0..MaxFaults, crashes : 0..MaxCrashes]
    BY DEF Typed, SyncTypeOK
  <2>3. Fault => spent' \in [faults : 0..MaxFaults, crashes : 0..MaxCrashes]
    BY <2>1, <2>2 DEF Fault
  <2>4. Restart => spent' \in [faults : 0..MaxFaults, crashes : 0..MaxCrashes]
    BY <2>1, <2>2 DEF Restart
  <2>5. Fault \/ Restart \/ spent' = spent
    BY DEF SyncNext, GitHubStep, Tick, BeginAttempt, EndJob, EndRun, TakeRun,
           TakeJob, Turn, Refresh, PublishState, FetchRun, saveState, Loaded,
           LoadRun, RefreshRun, RefreshJob, RefreshNothing
  <2> QED
    BY <2>2, <2>3, <2>4, <2>5
<1> QED
  BY <1>1, <1>2, <1>3, <1>4, <1>5, <1>6, <1>7 DEF Typed, SyncTypeOK
LEMMA SeenFrom ==
  ASSUME Typed, GitHubSound, HooksSound, LocalsSound, Agreed, SyncNext,
         NEW r \in Runs, NEW x \in SeenRuns(r)'
  PROVE  \/ x \in SeenRuns(r) \/ x = NoRun
         \/ x = ghRuns'[r] /\ (BeginAttempt(r) \/ EndRun(r))
<1>1. ghRuns'[r] \in SeenRuns(r) \/ BeginAttempt(r) \/ EndRun(r)
  <2>1. ASSUME NEW q \in Runs, BeginAttempt(q) \/ EndRun(q), q # r
        PROVE  ghRuns'[r] = ghRuns[r]
    BY <2>1 DEF BeginAttempt, EndRun, Typed, SyncTypeOK
  <2>2. \/ ghRuns' = ghRuns
        \/ \E q \in Runs : BeginAttempt(q) \/ EndRun(q)
    BY DEF SyncNext, GitHubStep, Tick, EndJob, TakeRun, TakeJob, Turn, Refresh,
           PublishState, Restart, FetchRun, saveState, Loaded, LoadRun,
           RefreshRun, RefreshJob, RefreshNothing
  <2>3. ghRuns'[r] = ghRuns[r] \/ BeginAttempt(r) \/ EndRun(r)
    BY <2>1, <2>2
  <2> QED
    BY <2>3 DEF SeenRuns
<1>2. runs'[r] \in SeenRuns(r) \/ runs'[r] = NoRun
  <2>1. CASE RunsLater
    BY <2>1 DEF RunsLater
  <2>2. CASE PublishState
    BY <2>2, Kept DEF SeenRuns
  <2>3. CASE Restart
    BY <2>3 DEF Restart
  <2> QED
    BY <2>1, <2>2, <2>3, LocalsMove
<1>3. ASSUME NEW h \in hooks', h.kind = "run", h.run = r
      PROVE  h.object \in SeenRuns(r)
               \/ (h.object = ghRuns'[r] /\ (BeginAttempt(r) \/ EndRun(r)))
  <2>1. CASE h \in hooks
    <3>1. h \in {g \in hooks : g.kind = "run" /\ g.run = r}
      BY <1>3, <2>1
    <3> QED
      BY <3>1 DEF SeenRuns
  <2>2. ASSUME NEW q \in Runs, h = RunHook(q, ghRuns'[q]),
               BeginAttempt(q) \/ EndRun(q)
        PROVE  h.object = ghRuns'[r] /\ (BeginAttempt(r) \/ EndRun(r))
    <3>1. h.run = q /\ h.object = ghRuns'[q]
      BY <2>2 DEF RunHook
    <3> QED
      BY <1>3, <2>2, <3>1
  <2>3. ASSUME NEW j \in Jobs, h = JobHook(j, ghJobs'[j])
        PROVE  FALSE
    BY <1>3, <2>3 DEF JobHook
  <2> QED
    BY <2>1, <2>2, <2>3, HooksFrom
<1>4. \/ x = ghRuns'[r] \/ x = runs'[r]
      \/ \E h \in hooks' : h.kind = "run" /\ h.run = r /\ x = h.object
  BY DEF SeenRuns
<1> QED
  BY <1>1, <1>2, <1>3, <1>4

LEMMA AgreedNext ==
  ASSUME Typed, GitHubSound, HooksSound, LocalsSound, Agreed, SyncNext
  PROVE  Agreed'
<1>1. SUFFICES ASSUME NEW r \in Runs, NEW x \in SeenRuns(r)', NEW y \in SeenRuns(r)',
                      x.attempt = y.attempt,
                      x.status = "completed", y.status = "completed"
               PROVE  x.updated = y.updated
  BY DEF Agreed
<1>2. \A z \in SeenRuns(r) : z = NoRun \/ RunVersion(r, z)
  BY DEF SeenRuns, GitHubSound, HooksSound, LocalsSound
<1>3. x # NoRun /\ y # NoRun
  BY <1>1 DEF NoRun
<1>4. ASSUME BeginAttempt(r)
      PROVE  x # ghRuns'[r] /\ y # ghRuns'[r]
  BY <1>1, <1>4, NewestBegun
<1>5. ASSUME EndRun(r), NEW z \in SeenRuns(r), z.status = "completed", z # NoRun
      PROVE  z.attempt # ghRuns'[r].attempt
  <2>1. ghRuns[r].status = "active" /\ ghRuns'[r].attempt = ghRuns[r].attempt
    BY <1>5, NewestEndedRun
  <2> QED
    BY <1>2, <1>5, <2>1 DEF RunVersion
<1>6. /\ x \in SeenRuns(r) \/ (x = ghRuns'[r] /\ (BeginAttempt(r) \/ EndRun(r)))
      /\ y \in SeenRuns(r) \/ (y = ghRuns'[r] /\ (BeginAttempt(r) \/ EndRun(r)))
  <2>1. \/ x \in SeenRuns(r) \/ x = NoRun
        \/ x = ghRuns'[r] /\ (BeginAttempt(r) \/ EndRun(r))
    BY SeenFrom
  <2>2. \/ y \in SeenRuns(r) \/ y = NoRun
        \/ y = ghRuns'[r] /\ (BeginAttempt(r) \/ EndRun(r))
    BY SeenFrom
  <2> QED
    BY <1>3, <2>1, <2>2
<1>7. CASE x \in SeenRuns(r) /\ y \in SeenRuns(r)
  BY <1>1, <1>7 DEF Agreed
<1>8. (x = ghRuns'[r] \/ x \in SeenRuns(r)) /\ (y = ghRuns'[r] \/ y \in SeenRuns(r))
  BY <1>6
<1>9. CASE EndRun(r)
  BY <1>1, <1>3, <1>5, <1>7, <1>8, <1>9
<1> QED
  BY <1>4, <1>6, <1>7, <1>9

(* What is shown lags behind what is known. *)
LEMMA PublishedSoundNext ==
  ASSUME IInv, SyncNext
  PROVE  PublishedSound'
<1> USE DEF IInv
<1>1. SUFFICES ASSUME NEW r \in Runs, published'[r] # NotShown
               PROVE  /\ published'[r].attempt \in Attempts
                      /\ published'[r].status \in {"active", "completed"}
                      /\ Stage(runs'[r]) >= Stage(published'[r])
                      /\ published'[r].jobs # {}
                      /\ \A o \in published'[r].jobs :
                           /\ o.attempt >= published'[r].attempt
                           /\ jobs'[<<r, o.attempt>>] # NoJob
                           /\ o.status = "completed"
                                => jobs'[<<r, o.attempt>>].status = "completed"
                           /\ \A n \in published'[r].jobs : n.attempt = o.attempt => n = o
  BY DEF PublishedSound, Shown
<1>2. CASE PublishState
  <2>1. /\ runs'[r] = runs[r] /\ RunVersion(r, runs[r])
        /\ published'[r].attempt = runs[r].attempt
        /\ published'[r].status = runs[r].status
        /\ published'[r].jobs # {}
        /\ \A o \in published'[r].jobs :
             /\ o.attempt >= runs[r].attempt
             /\ jobs[<<r, o.attempt>>] # NoJob
             /\ jobs'[<<r, o.attempt>>] = jobs[<<r, o.attempt>>]
             /\ o = [attempt |-> o.attempt, status |-> jobs[<<r, o.attempt>>].status]
    BY <1>1, <1>2, ShownAsKnown
  <2>2. /\ runs[r].attempt \in Attempts /\ runs[r].status \in {"active", "completed"}
        /\ Stage(runs[r]) \in Int
    BY <2>1, Values, Fields DEF RunVersion, RunObjects
  <2>3. Stage(published'[r]) = Stage(runs[r])
    BY <2>1 DEF Stage
  <2>4. ASSUME NEW o \in published'[r].jobs
        PROVE  /\ o.status = "completed" => jobs'[<<r, o.attempt>>].status = "completed"
               /\ \A n \in published'[r].jobs : n.attempt = o.attempt => n = o
    BY <2>1
  <2> QED
    BY <2>1, <2>2, <2>3, <2>4
<1>3. CASE Restart
  BY <1>1, <1>3 DEF Restart, Nothing
<1>4. CASE RunsLater /\ JobsLater /\ published' = published
  <2>1. Shown(r)
    BY <1>1, <1>4 DEF Shown
  <2>2. /\ Stage(runs'[r]) \in Int /\ Stage(runs[r]) \in Int
        /\ Stage(published[r]) \in Int
        /\ Stage(runs'[r]) >= Stage(runs[r])
    <3>1. published[r].attempt \in Int
      BY <2>1, Values DEF PublishedSound
    <3>2. Stage(published[r]) \in Int
      BY <3>1 DEF Stage
    <3> QED
      BY <1>4, <3>2, Fields DEF RunsLater, Typed, SyncTypeOK
  <2>3. Stage(runs'[r]) >= Stage(published'[r])
    BY <1>4, <2>1, <2>2 DEF PublishedSound
  <2>4. ASSUME NEW o \in published[r].jobs
        PROVE  /\ jobs'[<<r, o.attempt>>] # NoJob
               /\ o.status = "completed" => jobs'[<<r, o.attempt>>].status = "completed"
    <3>1. o.attempt \in Attempts
      BY <2>4 DEF Typed, SyncTypeOK, States
    <3>2. <<r, o.attempt>> \in Jobs
      BY <3>1, Values
    <3> QED
      BY <1>4, <2>1, <2>4, <3>2 DEF PublishedSound, JobsLater
  <2> QED
    BY <1>4, <2>1, <2>3, <2>4 DEF PublishedSound
<1>5. PublishState \/ Restart \/ published' = published
  BY DEF SyncNext, GitHubStep, Tick, BeginAttempt, EndJob, EndRun, TakeRun,
         TakeJob, Turn, Refresh, FetchRun, saveState, Loaded, LoadRun,
         RefreshRun, RefreshJob, RefreshNothing
<1> QED
  BY <1>2, <1>3, <1>4, <1>5, LocalsMove
-------------------------------------------------------------------------------
(* Theorems *)

LEMMA InitIInv ==
  ASSUME SyncInit
  PROVE  IInv
<1> USE DEF SyncInit
<1>1. Typed
  BY Values, JobsBounds DEF Typed, SyncTypeOK, States, Nothing, NotShown
<1>2. GitHubSound
  BY Values DEF GitHubSound, NoRun
<1>3. HooksSound /\ LocalsSound /\ PublishedSound
  BY DEF HooksSound, LocalsSound, PublishedSound, Shown, Nothing
<1>4. Agreed
  BY DEF Agreed, SeenRuns, NoRun
<1> QED
  BY <1>1, <1>2, <1>3, <1>4 DEF IInv

LEMMA KeptIInv ==
  ASSUME IInv, SyncNext \/ UNCHANGED syncVars
  PROVE  IInv'
<1>1. CASE SyncNext
  BY <1>1, TypedNext, GitHubSoundNext, HooksSoundNext, LocalsSoundNext, AgreedNext,
     PublishedSoundNext DEF IInv
<1>2. CASE UNCHANGED syncVars
  BY <1>2 DEF syncVars, IInv, Typed, SyncTypeOK, GitHubSound, HooksSound,
              LocalsSound, Agreed, SeenRuns, PublishedSound, Shown, RunVersion,
              JobVersion
<1> QED
  BY <1>1, <1>2

(* The notifier leaves the synchronizer alone. *)
LEMMA NotifierSteps ==
  ASSUME [Next]_vars
  PROVE  SyncNext \/ UNCHANGED syncVars
BY DEF Next, vars, Elsewhere, SyncNext, PublishToNotifier, Look, RestartManager

LEMMA Invariant == NotifierSpec => []IInv
<1>1. Init => IInv
  BY InitIInv DEF Init
<1>2. IInv /\ [Next]_vars => IInv'
  BY NotifierSteps, KeptIInv
<1> QED
  BY <1>1, <1>2, PTL DEF NotifierSpec

(* The values the synchronizer takes are runs, jobs and states as the code  *)
(* declares them, and it fetches and saves only runs there are             *)
(* (pkg/github/jobs/state.go:13-46, synchronizer.go:22-51, 93-259).        *)
THEOREM SyncTypes == NotifierSpec => []SyncTypeOK
<1>1. IInv => SyncTypeOK
  BY DEF IInv, Typed
<1> QED
  BY <1>1, Invariant, PTL

(* No run is ever shown with a job of an earlier attempt: the start of the  *)
(* job, which is all newState looks at, tells the attempts apart           *)
(* (pkg/github/jobs/state.go:110-113).                                     *)
THEOREM AttemptsApartCorrect == NotifierSpec => []AttemptsApart
<1>1. IInv => AttemptsApart
  <2>1. NotShown.jobs = {}
    BY DEF NotShown
  <2> QED
    BY <2>1 DEF IInv, PublishedSound, AttemptsApart, Shown
<1> QED
  BY <1>1, Invariant, PTL

(* One step of the synchronizer takes nothing that is shown back. *)
LEMMA NoStepBackOnce ==
  ASSUME IInv, SyncNext \/ UNCHANGED syncVars, NEW r \in Runs,
         published[r] # NotShown, published'[r] # NotShown
  PROVE  /\ Stage(published'[r]) >= Stage(published[r])
         /\ \A old \in published[r].jobs, new \in published'[r].jobs :
              old.attempt = new.attempt => Stage(new) >= Stage(old)
<1> USE DEF IInv
<1>1. /\ published[r].attempt \in Int /\ Stage(runs[r]) >= Stage(published[r])
      /\ \A o \in published[r].jobs :
           /\ o.status = "completed" => jobs[<<r, o.attempt>>].status = "completed"
           /\ \A n \in published[r].jobs : n.attempt = o.attempt => n = o
  BY Values DEF PublishedSound, Shown
<1>2. \A o \in published[r].jobs : o.attempt \in Int
  BY Values DEF Typed, SyncTypeOK, States
<1>3. CASE PublishState
  <2>1. /\ published'[r].attempt = runs[r].attempt
        /\ published'[r].status = runs[r].status
        /\ \A o \in published'[r].jobs : o.status = jobs[<<r, o.attempt>>].status
    BY <1>3, ShownAsKnown
  <2>2. Stage(published'[r]) = Stage(runs[r])
    BY <2>1 DEF Stage
  <2>3. ASSUME NEW old \in published[r].jobs, NEW new \in published'[r].jobs,
               old.attempt = new.attempt
        PROVE  Stage(new) >= Stage(old)
    <3>1. old.status = "completed" => new.status = "completed"
      BY <1>1, <2>1, <2>3
    <3> QED
      BY <1>2, <2>3, <3>1 DEF Stage
  <2> QED
    BY <1>1, <2>2, <2>3
<1>4. CASE published' = published
  <2>1. /\ Stage(published[r]) \in Int
        /\ \A o \in published[r].jobs : Stage(o) \in Int
    BY <1>1, <1>2 DEF Stage
  <2>2. ASSUME NEW old \in published[r].jobs, NEW new \in published[r].jobs,
               old.attempt = new.attempt
        PROVE  Stage(new) >= Stage(old)
    <3>1. new = old
      BY <1>1, <2>2
    <3> QED
      BY <2>1, <3>1
  <2> QED
    BY <1>4, <2>1, <2>2
<1>5. CASE Restart
  BY <1>5 DEF Restart, Nothing
<1>6. PublishState \/ Restart \/ published' = published
  BY DEF SyncNext, GitHubStep, Tick, BeginAttempt, EndJob, EndRun, TakeRun,
         TakeJob, Turn, Refresh, FetchRun, saveState, Loaded, LoadRun,
         RefreshRun, RefreshJob, RefreshNothing, syncVars
<1> QED
  BY <1>3, <1>4, <1>5, <1>6

(* While a run is shown neither it nor a job of it goes back, whichever     *)
(* webhooks and answers come, in whatever order, for any number of runs     *)
(* and attempts (pkg/github/jobs/synchronizer.go:27-51, state.go:81-150).   *)
THEOREM NoStepBackCorrect == NotifierSpec => NoStepBack
<1>1. IInv /\ [Next]_vars =>
        [\A r \in Runs :
           Shown(r) /\ published'[r] # NotShown =>
             /\ Stage(published'[r]) >= Stage(published[r])
             /\ \A old \in published[r].jobs, new \in published'[r].jobs :
                  old.attempt = new.attempt => Stage(new) >= Stage(old)]_syncVars
  BY NotifierSteps, NoStepBackOnce DEF Shown
<1> QED
  BY <1>1, Invariant, PTL DEF NotifierSpec, NoStepBack
-------------------------------------------------------------------------------
(* Told once *)

(* What is old stays old: attempts keep the time they began.               *)
LEMMA AgedStays ==
  ASSUME Typed, GitHubSound, Grown, NEW r \in Runs, Aged(r)
  PROVE  Aged(r)'
<1>1. PICK b \in Attempts : ghJobs[<<r, b>>].started \in 0..(now - Retention - 1)
  BY DEF Aged
<1>2. /\ MaxAttempts \in Nat /\ Retention \in Nat /\ Zero < 0 /\ Zero \in Int
      /\ Attempts = 1..MaxAttempts
      /\ ghRuns[r].attempt \in Int /\ now \in Int /\ now' \in Int /\ now <= now'
  BY Values, Fields DEF Grown, Typed, SyncTypeOK
<1>3. ~ (b > ghRuns[r].attempt)
  BY <1>1, <1>2 DEF GitHubSound, NoJob
<1>4. ghJobs'[<<r, b>>].started = ghJobs[<<r, b>>].started
  BY <1>2, <1>3 DEF Grown
<1>5. ghJobs'[<<r, b>>].started \in 0..(now' - Retention - 1)
  BY <1>1, <1>2, <1>4
<1> QED
  BY <1>5 DEF Aged

(* A run none of whose jobs is old is neither dropped nor stripped of them. *)
LEMMA YoungKept ==
  ASSUME IInv, PublishState, NEW r \in Runs, ~ Aged(r),
         NEW a \in Attempts, Settled(r, a)
  PROVE  /\ runs'[r] = runs[r]
         /\ Stage(runs[r]) = 2 * a + 1 =>
              published'[r].attempt = a /\ published'[r].status = "completed"
<1> USE DEF IInv
<1>1. /\ Retention \in Nat /\ now \in Int /\ Zero \in Int /\ Zero < 0
      /\ Attempts = 1..MaxAttempts /\ MaxAttempts \in Nat /\ a \in Int /\ a >= 1
  BY Values DEF Typed, SyncTypeOK
<1>2. \A b \in Attempts : ghJobs[<<r, b>>].started \in Int
                            /\ ~ (ghJobs[<<r, b>>].started \in 0..(now - Retention - 1))
  BY Values, Fields DEF Aged, Typed, SyncTypeOK
<1>3. runs[r] # NoRun
  <2>1. Stage(NoRun) = 0 /\ Stage(runs[r]) >= 2 * a + 1
    BY DEF Settled, Stage, NoRun
  <2>2. Stage(runs[r]) # Stage(NoRun)
    BY <1>1, <2>1
  <2> QED
    BY <2>2, Zenon
<1>4. RunVersion(r, runs[r])
  BY <1>3 DEF LocalsSound
<1>5. /\ runs[r].attempt \in 1..ghRuns[r].attempt /\ runs[r].attempt \in Attempts
      /\ runs[r].started = ghJobs[<<r, runs[r].attempt>>].started
      /\ runs[r].started <= runs[r].updated
      /\ runs[r].updated \in Int
  BY <1>4, Values, Fields DEF RunVersion, RunObjects
<1>6. 0 <= runs[r].started
  <2>1. runs[r].attempt \in Int /\ ghRuns[r].attempt \in Int
    BY <1>4, Fields DEF RunVersion, Typed, SyncTypeOK
  <2>2. ~ (runs[r].attempt > ghRuns[r].attempt)
    BY <1>5, <2>1
  <2> QED
    BY <1>5, <2>2 DEF GitHubSound, JobVersion
<1>7. ~ (runs[r].updated < now - Retention)
  BY <1>1, <1>2, <1>5, <1>6
<1>8. KeptRuns[r] = runs[r]
  BY <1>7 DEF KeptRuns
<1>9. ASSUME Stage(runs[r]) = 2 * a + 1
      PROVE  published'[r].attempt = a /\ published'[r].status = "completed"
  <2>1. published[r].attempt = a /\ published[r].status = "completed"
    BY <1>9 DEF Settled
  <2>2. published[r] # NotShown
    BY <2>1 DEF NotShown
  <2>3. runs[r].attempt = a /\ runs[r].status = "completed"
    BY <1>1, <1>5, <1>9 DEF Stage
  <2>4. PICK o \in published[r].jobs : o.attempt >= a /\ jobs[<<r, o.attempt>>] # NoJob
    BY <2>1, <2>2 DEF PublishedSound, Shown
  <2>5. o.attempt \in Attempts /\ <<r, o.attempt>> \in Jobs
    <3>1. o.attempt \in Attempts
      BY <2>4 DEF Typed, SyncTypeOK, States
    <3> QED
      BY <3>1, Values
  <2> DEFINE j == <<r, o.attempt>>
  <2>6. JobVersion(j, jobs[j])
    BY <2>4, <2>5 DEF LocalsSound
  <2>7. /\ jobs[j].started = ghJobs[j].started /\ 0 <= jobs[j].started
        /\ jobs[j].status = "completed" => jobs[j].started <= jobs[j].completed
        /\ jobs[j].status = "active" => jobs[j].completed = Zero
        /\ jobs[j].status \in {"active", "completed"}
        /\ jobs[j].started \in Int /\ jobs[j].completed \in Int
    BY <2>6, Fields DEF JobVersion
  <2>8. ~ (JobStamp(jobs[j]) < now - Retention)
    <3>1. JobStamp(jobs[j]) >= jobs[j].started /\ JobStamp(jobs[j]) \in Int
      BY <1>1, <2>7 DEF JobStamp
    <3> QED
      BY <1>1, <1>2, <2>5, <2>7, <3>1
  <2>9. KeptJobs[j] = jobs[j]
    BY <2>5, <2>8 DEF KeptJobs
  <2>10. o.attempt \in 1..ghRuns[r].attempt
    BY <2>5, <2>6, NewestJob
  <2>11. ghJobs[<<r, a>>].started <= ghJobs[j].started
    BY <1>5, <2>3, <2>4, <2>10, StartsRise
  <2>12. Belongs(KeptJobs[j], KeptRuns[r])
    BY <1>2, <1>5, <1>8, <2>3, <2>5, <2>7, <2>9, <2>11 DEF Belongs
  <2>13. Mine(r) # {}
    BY <2>4, <2>5, <2>9, <2>12 DEF Mine
  <2>14. published'[r] # NotShown
    <3>1. published'[r].attempt = a
      <4>1. \E s, js :
              published'[r] = [attempt |-> runs[r].attempt, status |-> s, jobs |-> js]
        BY <1>2, <1>3, <1>8, <2>13, Published
      <4> QED
        BY <2>3, <4>1
    <3> QED
      BY <1>1, <3>1 DEF NotShown
  <2> QED
    BY <2>3, <2>14, ShownAsKnown
<1> QED
  BY <1>3, <1>8, <1>9, Kept

(* The synchronizer's steps, of which only a restart takes what is settled  *)
(* back.                                                                    *)
LEMMA SettledStays ==
  ASSUME IInv, SyncNext, ~ Restart, statuses' = statuses,
         NEW r \in Runs, ~ Aged(r), NEW a \in Attempts, Settled(r, a)
  PROVE  Settled(r, a)'
<1> USE DEF IInv
<1>1. /\ Stage(runs[r]) \in Int /\ a \in Int
      /\ runs' \in [Runs -> RunObjects] => Stage(runs'[r]) \in Int
  BY Values, Fields DEF Typed, SyncTypeOK
<1>2. CASE PublishState
  <2>1. /\ runs'[r] = runs[r]
        /\ Stage(runs[r]) = 2 * a + 1 =>
             published'[r].attempt = a /\ published'[r].status = "completed"
    BY <1>2, YoungKept
  <2>2. ASSUME published'[r].attempt = a, published'[r].status = "completed"
        PROVE  statuses[r] = "completed"
    <3>1. published'[r] # NotShown
      BY <2>2 DEF NotShown
    <3>2. runs[r].attempt = a /\ runs[r].status = "completed"
      BY <1>2, <2>2, <3>1, ShownAsKnown
    <3>3. Stage(runs[r]) = 2 * a + 1
      BY <3>2 DEF Stage
    <3> QED
      BY <3>3 DEF Settled
  <2> QED
    BY <2>1, <2>2 DEF Settled
<1>3. CASE RunsLater /\ published' = published
  BY <1>1, <1>3 DEF RunsLater, Settled
<1>4. PublishState \/ published' = published
  BY DEF SyncNext, GitHubStep, Tick, BeginAttempt, EndJob, EndRun, TakeRun,
         TakeJob, Turn, Refresh, FetchRun, saveState, Loaded, LoadRun,
         RefreshRun, RefreshJob, RefreshNothing
<1> QED
  BY <1>2, <1>3, <1>4, LocalsMove
LEMMA ToldSoundNext ==
  ASSUME IInv, ToldSound, [Next]_vars
  PROVE  ToldSound'
<1> USE DEF IInv
<1>1. /\ told \in [Jobs -> Nat] /\ spent.crashes \in Nat
      /\ statuses \in [Runs -> {"none", "active", "completed"}]
      /\ \A r \in Runs, b \in Attempts : <<r, b>> \in Jobs
  BY Values, JobsBounds DEF ToldSound, Typed, SyncTypeOK
<1>2. ASSUME SyncNext, ~ Restart, told' = told, statuses' = statuses
      PROVE  ToldSound'
  <2>1. spent'.crashes = spent.crashes
    <3>1. Fault \/ spent' = spent
      BY <1>2 DEF SyncNext, GitHubStep, Tick, BeginAttempt, EndJob, EndRun,
                  TakeRun, TakeJob, Turn, Refresh, PublishState, FetchRun,
                  saveState, Loaded, LoadRun, RefreshRun, RefreshJob,
                  RefreshNothing
    <3> QED
      BY <3>1 DEF Fault, Typed, SyncTypeOK
  <2>2. ASSUME NEW r \in Runs, NEW a \in Attempts
        PROVE  \/ Aged(r)'
               \/ told'[<<r, a>>] <= spent'.crashes
               \/ told'[<<r, a>>] = 1 + spent'.crashes /\ Settled(r, a)'
    <3>1. Aged(r) => Aged(r)'
      BY <1>2, GrownByStep, AgedStays
    <3>2. ~ Aged(r) /\ Settled(r, a) => Settled(r, a)'
      BY <1>2, SettledStays
    <3>3. \/ Aged(r)
          \/ told[<<r, a>>] <= spent.crashes
          \/ told[<<r, a>>] = 1 + spent.crashes /\ Settled(r, a)
      BY DEF ToldSound
    <3> QED
      BY <1>2, <2>1, <3>1, <3>2, <3>3
  <2> QED
    BY <1>1, <1>2, <2>2 DEF ToldSound
<1>3. ASSUME Look
      PROVE  ToldSound'
  <2>1. /\ told' = [j \in Jobs |-> IF j[1] \in News /\ j[2] = published[j[1]].attempt
                                     THEN told[j] + 1 ELSE told[j]]
        /\ statuses' = [r \in Runs |-> published[r].status]
        /\ UNCHANGED syncVars
    BY <1>3 DEF Look, Remember
  <2>2. told' \in [Jobs -> Nat]
    BY <1>1, <2>1
  <2>3. statuses' \in [Runs -> {"none", "active", "completed"}]
    BY <2>1 DEF Typed, SyncTypeOK, States
  <2>4. ASSUME NEW r \in Runs, NEW a \in Attempts
        PROVE  \/ Aged(r)'
               \/ told'[<<r, a>>] <= spent'.crashes
               \/ told'[<<r, a>>] = 1 + spent'.crashes /\ Settled(r, a)'
    <3>1. /\ Aged(r) => Aged(r)'
          /\ spent' = spent /\ published' = published /\ runs' = runs
      BY <2>1 DEF syncVars, Aged
    <3>2. told'[<<r, a>>] = IF r \in News /\ a = published[r].attempt
                              THEN told[<<r, a>>] + 1 ELSE told[<<r, a>>]
      BY <1>1, <2>1
    <3>3. /\ told[<<r, a>>] \in Nat
          /\ \/ Aged(r)
             \/ told[<<r, a>>] <= spent.crashes
             \/ told[<<r, a>>] = 1 + spent.crashes /\ Settled(r, a)
      BY <1>1 DEF ToldSound
    <3>4. ASSUME r \in News, a = published[r].attempt
          PROVE  ~ Settled(r, a) /\ Settled(r, a)'
      <4>1. published[r].status = "completed" /\ statuses[r] # "completed"
        BY <3>4 DEF News
      <4>2. Stage(runs[r]) >= Stage(published[r])
        <5>1. published[r] # NotShown
          BY <4>1 DEF NotShown
        <5> QED
          BY <5>1 DEF PublishedSound, Shown
      <4>3. Stage(published[r]) = 2 * a + 1
        BY <3>4, <4>1 DEF Stage
      <4>4. ~ Settled(r, a)
        BY <3>4, <4>1 DEF Settled
      <4>5. Settled(r, a)'
        BY <2>1, <3>1, <3>4, <4>1, <4>2, <4>3 DEF Settled
      <4> QED
        BY <4>4, <4>5
    <3>5. Settled(r, a) => Settled(r, a)'
      BY <2>1, <3>1 DEF Settled
    <3>6. CASE r \in News /\ a = published[r].attempt
      <4>1. told'[<<r, a>>] = told[<<r, a>>] + 1
        BY <3>2, <3>6
      <4>2. Aged(r) \/ told[<<r, a>>] <= spent.crashes
        BY <3>3, <3>4, <3>6
      <4> QED
        BY <1>1, <3>1, <3>3, <3>4, <3>6, <4>1, <4>2
    <3>7. CASE ~ (r \in News /\ a = published[r].attempt)
      BY <3>1, <3>2, <3>3, <3>5, <3>7
    <3> QED
      BY <3>6, <3>7
  <2> QED
    BY <2>2, <2>3, <2>4 DEF ToldSound
<1>4. ASSUME RestartManager
      PROVE  ToldSound'
  <2>1. /\ SyncNext /\ told' = told /\ statuses' = [r \in Runs |-> "none"]
        /\ spent' = [spent EXCEPT !.crashes = @ + 1]
    BY <1>4 DEF RestartManager, Restart, SyncNext
  <2>2. spent'.crashes = spent.crashes + 1
    BY <2>1 DEF Typed, SyncTypeOK
  <2>3. \A r \in Runs : Aged(r) => Aged(r)'
    BY <2>1, GrownByStep, AgedStays
  <2>4. ASSUME NEW r \in Runs, NEW a \in Attempts
        PROVE  Aged(r) \/ told[<<r, a>>] <= spent.crashes + 1
    <3>1. told[<<r, a>>] \in Nat
      BY <1>1
    <3>2. \/ Aged(r) \/ told[<<r, a>>] <= spent.crashes
          \/ told[<<r, a>>] = 1 + spent.crashes
      BY DEF ToldSound
    <3> QED
      BY <1>1, <3>1, <3>2
  <2> QED
    BY <1>1, <2>1, <2>2, <2>3, <2>4 DEF ToldSound
<1>5. ASSUME UNCHANGED vars
      PROVE  ToldSound'
  BY <1>5 DEF vars, syncVars, ToldSound, Aged, Settled
<1>6. \/ RestartManager \/ Look \/ UNCHANGED vars
      \/ SyncNext /\ ~ Restart /\ told' = told /\ statuses' = statuses
  <2>1. Elsewhere \/ PublishState => SyncNext
    BY DEF Elsewhere, SyncNext
  <2>2. Elsewhere \/ PublishState => ~ Restart
    <3>1. Restart => spent'.crashes = spent.crashes + 1
      BY DEF Restart, Typed, SyncTypeOK
    <3>2. Fault => spent'.crashes = spent.crashes
      BY DEF Fault, Typed, SyncTypeOK
    <3>3. Elsewhere \/ PublishState => Fault \/ spent' = spent
      BY DEF Elsewhere, GitHubStep, Tick, BeginAttempt, EndJob, EndRun, TakeRun,
             TakeJob, Turn, Refresh, PublishState, FetchRun, saveState, Loaded,
             LoadRun, RefreshRun, RefreshJob, RefreshNothing
    <3> QED
      BY <1>1, <3>1, <3>2, <3>3
  <2> QED
    BY <2>1, <2>2 DEF Next, PublishToNotifier, notifierVars
<1> QED
  BY <1>2, <1>3, <1>4, <1>5, <1>6

(* Of one completion Slack is told once, and at most once more for each     *)
(* restart of the manager, whatever webhooks are lost or late and whatever  *)
(* calls fail, as long as no job of the run is past the retention period    *)
(* (pkg/slack/notifier.go:52-85).                                          *)
THEOREM ToldOnceCorrect == NotifierSpec => []ToldOnce
<1>1. Init => ToldSound
  BY Values DEF Init, SyncInit, ToldSound
<1>2. IInv /\ ToldSound /\ [Next]_vars => ToldSound'
  BY ToldSoundNext
<1>3. IInv /\ ToldSound => ToldOnce
  <2>1. ASSUME IInv, ToldSound, NEW j \in Jobs
        PROVE  told[j] <= 1 + spent.crashes \/ Aged(j[1])
    <3>1. j[1] \in Runs /\ j[2] \in Attempts /\ j = <<j[1], j[2]>>
      BY Values
    <3>2. told[j] \in Nat /\ spent.crashes \in Nat
      BY <2>1, JobsBounds DEF ToldSound, IInv, Typed, SyncTypeOK
    <3>3. \/ Aged(j[1]) \/ told[j] <= spent.crashes
          \/ told[j] = 1 + spent.crashes
      BY <2>1, <3>1 DEF ToldSound
    <3> QED
      BY <3>2, <3>3
  <2> QED
    BY <2>1 DEF ToldOnce
<1> QED
  BY <1>1, <1>2, <1>3, Invariant, PTL DEF NotifierSpec
===============================================================================
