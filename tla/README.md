# GitHub Actions Manager: specifications and proofs

TLA+ specifications of github-actions-manager, which runs self-hosted GitHub
Actions runners in Kubernetes pods. TLC checks the specifications on small
instances (`*.cfg`) and TLAPS checks the proofs (`*Proofs.tla`) for every value
of the constants. Paths below are relative to `src/pkg`.

    tlc -config AgentSafety.cfg MCAgentController     # a run
    tlapm AgentControllerProofs.tla                   # a module of proofs

## 1. The system

Three programs:

* **github-actions-manager** (the manager) polls GitHub for runners, follows
  workflow runs and jobs by webhooks and polling, hands out registration
  tokens, serves an API and a dashboard, and tells Slack channels about
  completed runs;
* **kube-controller** (the controller) decides which pods are agents, watches
  the life of each agent, and deletes its runner and its pod at the end;
* **kube-agent** (the agent) runs in each pod: it registers with the
  controller, configures a runner, runs it, and asks to be terminated.

### Components

| component | state | operations | talks to |
|---|---|---|---|
| controller monitor (`controller/monitor.go`) | the last epoch seen | `check` every interval; per agent `checkAgent`, `checkTimeout`, `transition` | manager API (list, delete runners), Kubernetes provider |
| controller HTTP server (`controller/server_agent.go`) | none | `POST`, `GET`, `DELETE /agent` | provider, manager API (token) |
| Kubernetes provider (`kube/controller*.go`, `kube/patch.go`) | informer's cache; the agent as an annotation of its pod | `makeAgent`, `UpdateAgent`, `DeleteAgent`, `RegisterAgent`, `CheckAgent`, `TerminateAgent` | API server, by JSON patches |
| agent (`agent/`, `kube/agent.go`) | two goroutines, a channel | register, configure, start; watch, terminate | controller HTTP server, `config.sh`, `run.sh` |
| runners synchronizer (`github/runners`) | the epoch in progress, the one published | one page per interval; publish | GitHub API, a broadcaster |
| manager API (`api/`) | none | `GET /runners`, `DELETE /runners/{id}`, `GET /token` | synchronizer, GitHub API, tokens |
| registration tokens (`github/reg_token.go`) | a token | `Get`, `renew` (single flight) | GitHub API |
| broadcaster (`utils/channels`) | a value, subscribers | `Publish`, `Value`, `NewSubscriber`, `Wait` | its users' goroutines |
| jobs synchronizer (`github/jobs`) | runs and jobs, the keys saved | webhooks, `refreshState`, purge, `newState`, `saveState`, `loadState` | webhook server, GitHub API, a broadcaster, a store |
| Slack notifier (`slack/notifier.go`) | statuses seen | compare, `notify` | jobs broadcaster, Slack app |
| Slack app (`slack/app.go`) | none of its own | `subscribe`, `unsubscribe` | a store |
| stores (`kv/`) | values in memory, in files, in a ConfigMap | `Get`, `Set` | file system, API server |
| GitHub client, rate limits, caches, metrics, dashboard, programs | | | |

### What is hard

* *Nobody reads the present.* The monitor holds a list of runners that was
  assembled page by page, then published, then served; it compares it with
  agents read later from an informer's cache, and writes patches that carry no
  resource version. Meanwhile the process, GitHub, handlers and people who
  scale the workload go on.
* *Every call may fail after it took effect.* Deleting a runner, patching or
  deleting a pod, answering an agent.
* *State survives only as annotations and finalizers.* Controller and manager
  keep the rest in memory.
* *Webhooks* come late, out of order, twice in a second, or not at all.
* *Channels and locks*: the broadcaster sends with its lock held.
* *Stores*: a read, a change of the list and a write, over a cache that is
  written from two sides.

### What makes each component correct

* controller and provider: a runner that is registered is not taken for gone; a
  pod is deleted only when its runner is off GitHub or could not be taken off
  in time; a pod becomes an agent once; the finalizer stays until deletion;
  deleted pods go; agents that run nothing are reaped; busy pods are marked.
* broadcaster: values in order and once; the last one arrives; nobody waits
  for ever.
* jobs synchronizer: what is shown of a run never goes back, does not mix
  attempts, and comes to be complete.
* notifier: every completion is told, and once.
* Slack app and stores: what was acknowledged stays until it is taken back;
  those who asked are told, the others are not.
* runners synchronizer: a list lacks nobody who was there all along, shows
  nobody who was not, and comes to be what GitHub has.
* tokens: a token handed out is good for long enough; an older one never comes
  back; whoever keeps asking is served, though callers give up.

`PROJECT.json` lists the hazards line by line with the properties aimed at them.

## 2. Modules

    PodPatch <- AgentController <- AgentControllerInv <- MCAgentController
                                   AgentControllerInv <- AgentControllerProofs
                                                      <- AgentPodProofs
    Feed <. Broadcaster <- BroadcasterProofs          (<. by INSTANCE)
    AgentLife <. AgentProcess <- AgentProcessProofs
    RunnerListing <. RunnerSync <- RunnerSyncProofs
    RegToken <- RegTokenProofs
    JobsSync <- Notifier <- NotifierProofs
    SlackApp <- SlackAppProofs

**PodPatch**: a pod as the controller sees it (incarnation, deletion mark,
finalizers, the agent annotation, the busy annotation) and the JSON patches of
`kube/patch.go`, with the operations' order and the `test` operations that make
the API server refuse one.

**AgentController**: the monitor, the provider, the HTTP handlers, the
manager's listing, an agent's process, and what surrounds them: API server and
watch, GitHub, the workload controller, the kubelet.
- `timeline[p]` is the sequence of versions of pod *p* between the informer's
  cache (its head) and the API server (its last). A write appends, `Deliver`
  drops the head. All reads of the code are from the head.
- `mon.pc` follows `monitor.check`: `CheckBegin` (GET /runners), `ListAgents`,
  `NextAgent`, `ProviderCheckAgent` and `SendProviderPatch` (`CheckAgent`),
  `BindRunner`, `FollowStatus`, `CheckTimeout`, `DeleteRunner` (`checkAgent`),
  `TerminateAgent`, `DeleteAgent`, `SendUpdate`. A step ends at each call.
- `req[h].pc` follows a handler: `PostAgent`, `Register` and `AnnotateNew`
  (POST), `DeleteRequest` and `FinishDelete` (DELETE).
- `SyncFetch` and `SyncPublish` are the synchronizer, `ListShifts` what numbered
  pages do to a list that changes meanwhile (see "Abstractions");
  `ManagerRestart` and `ControllerRestart` lose what is kept in memory.
- `proc[p]` and `github` are the process and the runners.

**AgentControllerInv**: the inductive invariants behind `GoneIsGone` and what
becomes of pods (section 5).

**AgentProcess** is the process in a pod: the executer (`Register`, `Sleep`,
`Configure`, `Send`, `Start`, `RunnerExits`, `Shutdown`), the watcher (`Receive`,
`NeedTermination`, `Poll`, `GetAgent`, `TerminateAgent`) and the channel between
them. It implements **AgentLife**, which has one action for each action of
AgentController that moves `proc[p]`: what the controller's model takes a
process to do is all that its code does.

**Feed** is the abstract promise of a broadcaster; **Broadcaster** is
`broadcaster.go`: publisher, lock, the goroutine of each subscriber, consumers,
cancellation.

**RunnerListing** is what a listing of runners promises, in however many pages:
each runner is shown as it was while the list was read, and nobody is passed
over but one at a time, when another leaves. **RunnerSync** is
`github/runners/synchronizer.go` over the numbered pages of GitHub's list:
`Fetch` and `FetchFails` (`do`), `Publish` with the `reset` for the next epoch,
`Restart`; `Register` and `Leave` shift the pages meanwhile. It implements
RunnerListing, where what is left to read are the runners behind the pages read.
`steady` (the runners registered ever since the epoch began) and `shifted` (one
of a page already read has left) are kept for `WholeList`.

**RegToken** is `github/reg_token.go` and those who ask: `Get`, `Fresh` or
`Stale` (`Get`, where `Stale` joins or begins the one fetch, `DoChan`), `Cancel`
(the caller gives up), `Issue`, `Store`, `Deliver` and `Fail` (`renew` and its
result), `Restart`. An agent goes on asking until it has a token, as
`executer.execute` does, and `Use` ends its need of it.

**JobsSync** is the synchronizer of runs and jobs: `TakeRun`, `TakeJob` and
`FetchRun` for webhooks, `RefreshRun`, `RefreshJob` and `RefreshNothing` for
`refreshState`, then `PublishState` (purge and `newState`) and `saveState`;
after a restart `LoadRun` for each saved key, and `Loaded`, which also has the
case that the keys could not be read (`kv.Get` fails in `loadState`) and nothing is
loaded. **Notifier** extends it with the notifier.

**SlackApp** is the loop that handles slash commands, over each of the three
stores with their steps, failures and the informer, and `notify` reading the
list at any moment. `mishap` records what the properties have to except: see
"What the passing runs leave out".

### Abstractions

- *Labels, groups, tokens, URLs, messages* are left out. An agent is the name,
  state, runner id and, for its last transition time, whether the timeout is
  over (`late`, set by `Expire` at any time).
- *Epochs* are counted modulo `MaxEpoch`, as the code only compares them.
- *Runner listings.* In AgentController `listing.unread` are the runners that were
  registered when the epoch began and that no page has shown yet. `SyncFetch`
  reads a page: any set of registered runners, in part ones that were shown
  before or have come since, each as GitHub has it then. `SyncPublish` waits
  until nobody is unread. `ListShifts` takes a runner out of `unread` for good
  (unless a page shows it after all) and puts it among those the listing
  `passed` over, as happens when a runner of a page already read leaves; who left may be
  anybody's runner, so the action has no other cause. `passed` is published with
  the list and travels with the monitor's copy of it; no action reads it, only the
  properties do. `MaxShifts` bounds how often this happens: 0 is a list that
  fits a page (100 runners by default). RunnerSync has the pages themselves and
  bounds the damage: without such a leaver the list lacks nobody who stayed, with
  them it lacks one for each at most, and a later list has them again. Whether a
  runner is online or busy is left out of RunnerSync, as it does not bear on who
  is listed.
- *Time in RegToken* is counted in units far longer than a request (calls of
  GitHub and of the manager end after 10 seconds): whatever is under way is
  over before a second unit has passed (`Prompt`). A token is the time it
  expires at; a quarter of an hour makes GitHub's hour 4 units and the margin
  of 30 minutes 2.
- *GitHub* refuses to delete a runner that is busy; ephemeral runners go when
  their process ends.
- *JobsSync*: `active` stands for every status but `completed`, each attempt of
  a run has one job, and time is counted in the whole seconds of GitHub's time
  stamps. A run starts again only when its job has taken a second: two attempts
  whose jobs start in the same second cannot be told apart by any time stamp.
- *Notifier*: a look at a state is one step, and `told` counts calls of
  `notify`, not the messages Slack accepted.
- *Broadcaster*: only `Publish` waits with the lock held, so the lock is a
  function of `pub`. The publisher is any synchronizer's loop, the reader any
  request.
- *SlackApp*: one repository; a stored string is the list it encodes, where
  "no value" and "no channels" are both the empty list, as in the code.

## 3. Runs

All bounds are constants in the `.cfg` files. Distinct states in thousands.

| run (cfg) | states | what it asks | bounds |
|---|---|---|---|
| `AgentSafety` | 4229 | `TypeOK`, `GoneIsGone`, `FinalizerHeld` | one pod, handler, runner, page; cache 1 behind; 1 failed call |
| `AgentForeign` | 4457 | `FinalizerHeld` with another finalizer in the list, `PodKilledSafely`, and `Evidence`, the invariant of the proofs, which implies `GoneIsGone` | 2 runner ids, no lag; 1 failed call, a runner that flaps, a listing that shifts or a restart of the controller |
| `AgentLiveness` | 511 | `IdleAgentReaped`, `BusyShown`, and `PodKilledSafely` with jobs in progress | jobs that are seen, no failures |
| `RegistrationLiveness` | 74 | `AcceptsOnlyUnregistered`, `DeletedPodGoes`, `IdleAgentReaped` for agents that never get a runner | cache 1 behind, 1 failed call or restart (controller or manager) |
| `ManagerRestart` | violation | `GoneIsGone` | a restart of the manager |
| `AgentProcess` | 4 | `TypeOK`, `ConfiguredFirst`, `StaysUntilTold`, `EndReported`, `EndsWhenTold`, `Refinement` (of AgentLife) | 2 retries of `config.sh`, 2 failed calls |
| `Broadcaster` | 98 | `TypeOK`, `Refinement` (of Feed), `CallsReturn` (of `Publish` and of `Value`), `LatestReaches`, `Exits` | 2 subscribers, 1 reader, 2 values after the first |
| `Notifier` | 3195 | `SyncTypeOK`, `AttemptsApart`, `NoStepBack`, `ToldOnce` | 1 run, 2 attempts, 3 seconds, 2 webhooks on their way, 1 failed call and 1 restart |
| `NotifierLiveness` | 349 | `CompletionShown`, `CompletionTold` | as before, 1 webhook, 1 failed call or 1 restart |
| `RunnerSync` | 1372 | `TypeOK`, `WholeList`, `Refinement` (of RunnerListing), `ListCatchesUp` | 3 names, 4 ids, pages of 1 or 2, 1 failed call, 1 restart |
| `RegToken` | 68 | `TypeOK`, `TokenFresh`, `StoreGrows`, `EveryoneServed` | 2 agents, 6 units of time, 1 failed fetch, 1 restart |
| `Slack` | 6780 | `SubscriptionKept`, `OnlyMatchesTold`, `EveryMatchTold` | each of the 3 stores, 2 channels, 2 conclusions, informer 2 behind, 1 failed call, 1 restart |

*Why the bounds are enough.* Pods only meet in the manager's list, where each
has its own name, and in the monitor, which handles them one after another; so
one pod with every interleaving of monitor, handler, synchronizer, process and
cache covers the races of the code. A second runner matters only where
`config.sh --replace` gives a name a new id (`AgentForeign`). There a listing may
also pass a runner over (`MaxShifts = 1`); the other runs of the controller have
a list of one page. One fault or one
restart (`MaxTroubles` bounds their sum) and a cache one version behind are
enough to lose an answer and retry, to write from a stale copy and to pick up an
annotation half way; and for each property a plausible bug in the code makes its
run fail (`PROJECT.json`, "mutants"). The proofs then lift
every invariant and action property of these runs, and the three refinements, to
any number of pods, runners, handlers, subscribers, channels, runs, attempts,
faults and restarts, under the assumptions section 5 names.
In `JobsSync` the purge needs two seconds after a
retention of one, an overtaken webhook needs two on their way, and attempts
need two. In `RunnerSync` three names over pages of one or two are a page
read, a page being read and one behind them, so that a deletion in any of them
shifts the next; the fourth id is a name that comes back. In `RegToken` six
units are longer than a token lives, so it is renewed and a second one fetched.
In `Slack` the filter of one channel can cut off the other, and an informer two
versions behind is the least that puts back an older list than `Set` has loaded.

`CHECK_DEADLOCK FALSE` is set only for the broadcaster and the agent, which end,
and for `Notifier`, whose time and attempts are bounded.

*What the passing runs leave out, and why.* The liveness properties of the
broadcaster are stated but for two deadlocks that the code has: `Stuck`, when a
`Publish` comes between `NewSubscriber` and its goroutine's first read of the
value, and `Caught`, when a goroutine leaves its loop at shutdown and waits for
the lock that `Publish` holds while it waits to send to that goroutine; then the
process hangs after it has logged "exiting...". `EndReported` leaves out a
watcher that had an error of `GET /agent`, which gives up for good
(`agent/watcher.go:88`): the controller then reaps the agent by itself, which
`IdleAgentReaped` is about. `AcceptsOnlyUnregistered` holds for
pods created without finalizers: the patch that makes a pod an agent tests that
its list of finalizers is still empty. With another finalizer in the list
(`PodFinalizers <- ForeignFinalizer`) it tests nothing, and with `MaxLag = 1`
and `MaxFaults = 1` TLC finds a pod registered twice: a registration that was
stored and answered by an error is retried before the informer has seen it, and
`makeAgent` (`kube/controller_state.go:86`) reads the cached pod. Nothing else
guards it, as patches carry no resource version.

The properties of SlackApp name what they except, and each exception is one the
code needs: without it TLC refutes the property.
- *The informer puts back an older list* (`kv/kube_configmap.go:113`): `Set`
  loads the ConfigMap its patch returned, and events for versions before that
  one are loaded over it. Until they are through, `notify` reads the older list
  (`rewound`); a command handled then writes it back with its own change, and a
  subscription that was acknowledged is lost for good (`misread`).
- *`InMemory` keeps nothing* across a restart of the manager, so it promises
  nothing there (`acked` is emptied with it).
- *A file is truncated, then written* (`kv/fs.go:51`): in between `notify` reads
  an empty list, and if the process stops or the write fails every
  subscription of the repository is lost (`torn`).
- *The loop over channels returns* at the first filter that does not match
  (`slack/notifier.go:163`), where it would have to go on: the channels after it
  are not told (`CutOff`).
- *"skipped"* may be subscribed to (`slack/app.go:96`), but `notify` has no words
  for it (`slack/notifier.go:126`) and returns (`Silent`).

`WholeList` excepts an epoch in which a runner of a page already read has left:
the runner that moves up into its place is on no page that is read
(`github/runners/synchronizer.go:89`), and agents whose runners are passed over
are taken for gone. Listing from the last page, or comparing two epochs, would
be needed to tell. `GoneIsGone` and `PodKilledSafely` therefore except a runner
that the list in the monitor's hands passed over, and nothing else: without the
exception TLC finds, in the run of `AgentForeign`, the pod of a runner that is
registered being deleted after one page has shifted. What the agent had was a
runner in the list before, and the next list shows it again, but the decision is
made on the one in between.

### What the violation shows

`ManagerRestart`: a new manager publishes epoch 0 without runners before it has
asked GitHub for any (`github/runners/synchronizer.go:24`), and serves it. The
monitor sees a new epoch, finds no instance for its agents, logs "agent is gone"
and terminates agents that may be running jobs.

## 4. Fairness

`FairSpec` assumes only what the code or its platform schedules by itself:
- the monitor's loop (a ticker), a handler that has begun, the synchronizers'
  loops, the informer's delivery, the clock, the kubelet's end of the grace
  period, the API server's removal of pods without finalizers, the owner of the
  other finalizer: weak fairness of each. GitHub notices that a runner's process
  has ended.
- Not assumed: that a runner comes online, gets a job or finishes one, that a
  process configures anything or asks for its termination, that a request
  arrives, that anybody deletes a pod.
- Broadcaster: its goroutines, and consumers that come back for the next value
  (both loops of the code do). Nobody has to publish, read or stop. A
  subscriber's goroutine and a consumer may choose among their steps.
- AgentProcess: weak fairness of both goroutines, strong fairness of the
  watcher's `NeedTermination` (a closed channel is not passed over for ever by a
  `select` with a timer), and a runner that ends when it is interrupted. Nobody
  has to send SIGTERM, and the controller's cache may stay behind.
- RunnerSync: the loop turns (`Fetch`, `Publish`). GitHub does as it likes; its
  ids are bounded, so runners stop coming and going, which is when
  `ListCatchesUp` says something.
- RegToken: a request that was made is handled, and a fetch is answered. No
  fairness of `Use` or `Start`; a caller may give up any number of times, and
  `EveryoneServed` holds all the same, as the fetch goes on without it
  (`renew` has a context of its own).
- JobsSync: weak fairness of the loop. `refreshState` picks one item with
  `rand.Intn` each time, so each item that is there again and again is picked
  again and again: strong fairness of each refresh. No fairness of webhooks: a
  webhook that never arrives is a lost one. Failures are bounded, so that calls
  succeed in the end.

## 5. Proofs

`AgentControllerProofs` (constants under the assumptions of `AgentController`):

* **TypeCorrect**: `Spec => []TypeOK`.
* **EvidenceIsSound**: `Spec => []Evidence` if `MaxUid = 1` (pod names are not
  used again, as with a Deployment) and `MaxManagerRestarts = 0`.
* **GoneIsGoneCorrect**: `Spec => []GoneIsGone` under the same assumptions. The
  second is needed: `ManagerRestart` refutes the property without it.
* **PodKilledSafelyCorrect**: `Spec => []PodKilledSafely`, likewise.

All three hold for any number of runners, pages and shifts (`MaxShifts`), and say
for a list whose pages shifted only that the runners concerned are those marked
as passed over: for them the code gives no guarantee.

* **OnePageSuffices**: with `MaxShifts = 0`, the list of one page, both properties
  hold without the exception, as nobody is ever marked (*NobodyPassed*).

`GoneIsGone` is far from inductive: it speaks of one moment in the monitor, of
a list that came from the manager earlier and an agent read later. `Evidence`
says what holds in between. *AgentsKnown*: every agent value anywhere (a version
in a timeline, the monitor's copy, a patch on its way) carries its pod's name,
and a runner id it has recorded is accounted for, as long as GitHub has that
runner, by the published epoch, by the monitor's list, and by the epoch in
progress unless it is yet to be read there. A list *accounts* for a runner that
it shows under its name or is marked to have passed over. *UniqueNames*: GitHub
has one runner per name. *ListsOrdered*: entries are genuine, and what an older
list (the monitor's, the published one) shows and GitHub still has, the newer
one (published, in progress) accounts for, or has yet to read.
The step proofs go action by action; patches are handled by lemmas on
`Patched` (an agent value in the result comes from the old pod or the patch)
and on `Write` (every version in the new timeline is an old one or the written
one).

`PodKilledSafely` is inductive with `Evidence`: the monitor comes to terminate an
agent only from its check (*OnTheWay*), where a runner it does not see under the
agent's id is off GitHub or was passed over (*NotShown*), and a runner that has left does not come
back: who takes its name gets a new id (*RunnersAge*).

`AgentPodProofs` (`MaxUid = 1`: with names that are used again TLC refutes the
action properties, section 6):

* **FinalizerHeldCorrect**: `Spec => FinalizerHeld`. A patch removes a finalizer by
  an index counted on a version from the cache. *ReleasedLast*
  (**ReleasedLastCorrect**) is the invariant: such a patch is only made by the
  monitor, for a pod that it has deleted, and pods that are deleted stay so.
* **AcceptsOnlyUnregisteredCorrect**: `Spec => AcceptsOnlyUnregistered` if also
  `PodFinalizers = <<>>` (section 3 has the counterexample without). The
  invariant is *RegisteredOnce* (**RegisteredOnceCorrect**): every version anywhere
  has an agent or no finalizer, whoever has seen an agent knows that the pod is
  taken, and a pod with an agent has the controller's finalizer or is being
  deleted; so the `test` in the patch fails on it.

`BroadcasterProofs`:

* **BroadcasterTypes**: `Spec => []TypeOK`, with `todo` within `subscribers`.
* **BroadcasterRefinesFeed**: `Spec => Refinement`. The invariant: while a
  goroutine offers a value it is newer than what its consumer has (*Newer*),
  no value is from the future (*Known*), and a goroutine that `Publish` has yet
  to serve holds an older value than the one it will be sent (*Locked*). Every
  step is then a `Publish` or a `Give` of `Feed`, or a stutter.

`RegTokenProofs` (`Validity >= Margin + 2`, as an hour and half an hour are):

* **TokenTypes**, **TokenFreshCorrect**, **StoreGrowsCorrect**:
  `Spec => []TypeOK`, `Spec => []TokenFresh`, `Spec => StoreGrows`, for any
  number of agents, faults and restarts. `TokenFresh` is not inductive: the
  token was compared with an earlier time, or fetched for somebody else.
  *FetchesPrompt* bounds the age of a fetch and of what it brings,
  *HoldersPrompt* what is left of a token in terms of when it was given out, and
  *OneFetch* is the single flight, on which `StoreGrows` depends.

`AgentProcessProofs`:

* **ProcessTypes**, **ConfiguredFirstCorrect**, **StaysUntilToldCorrect**:
  `Spec => []TypeOK`, `[]ConfiguredFirst` and `[]StaysUntilTold`, for any number of
  retries and failed calls. The invariant says who may be where: the watcher is
  at work only once the executer has sent it the agent (*SentFirst*), and an
  executer that leaves was told to, by either side (*HaltsOrTold*).
* **ProcessRefinesLife**: `Spec => Refinement`, step by step: each action of the two
  goroutines is an action of AgentLife or a stutter.

`RunnerSyncProofs`, for any names, ids, page sizes, faults and restarts:

* **RunnerTypes**, **WholeListCorrect**: `Spec => []TypeOK`, `Spec => WholeList`. The
  invariant is *SteadyRead*: while nobody of a page already read has left,
  whoever is there since the epoch began was read or is behind the pages read.
  Its proof says what `InsertAt` and `RemoveAt` do to the positions behind one.
* **SyncRefinesListing**: `Spec => Refinement`. When a runner leaves, those behind
  the pages read lose at most the one that moves up over the boundary.

`SlackAppProofs`, for each store and any channels, conclusions and failures:

* **SubscriptionKeptCorrect**, **OnlyMatchesToldCorrect**,
  **EveryMatchToldCorrect**. None of the three is inductive: each speaks of the
  one list that is read now. The invariant (*AllGood*) is about every list that
  may be read later: the stored one, the cached one, the versions on their way
  to the informer from the one that `Set` has loaded on, and the one a command
  is about to write; each says of a channel what its users were last told, as
  long as no command read a list that was put back.
- What the loop over the list keeps is a recursive function. As theorems of
  induction cannot be applied here, *SetInduction* is proved from the
  well-foundedness of the numbers (a set that is not all of them has a least
  number outside), and the loop's result from that.

`NotifierProofs`, about `NotifierSpec`, for any number of runs, attempts, webhooks,
seconds, faults and restarts:

* **SyncTypes**, **AttemptsApartCorrect**, **NoStepBackCorrect**:
  `NotifierSpec => []SyncTypeOK`, `[]AttemptsApart` and `NoStepBack`. Webhooks,
  answers and what the goroutine holds are shapes a run or job had at GitHub
  (*RunVersion*, *JobVersion*). Of two shapes of a run the later one was changed
  no earlier, and two that are completed in one attempt agree on when
  (*RunOrder*, *Agreed*): so "updated after" means "later" in `setRun`, though
  different shapes may have one time stamp. Attempts begin one after the other
  (*StartsRise*), so that in `newState` the start of a job tells its attempt.
  What is shown is still known, or something later (*PublishedSound*).
* **ToldOnceCorrect**: `NotifierSpec => []ToldOnce`. The invariant (*ToldSound*)
  says of a completion that was told in this life of the manager that it is
  *Settled*: as long as the run has not moved on it is shown as completed, and
  remembered so. The step that matters is the purge: a run none of whose jobs
  is old is neither dropped nor stripped of its jobs (*YoungKept*), else the
  notifier would forget it and tell it again.

*Only model-checked*: the liveness properties (`IdleAgentReaped`, `BusyShown`,
`DeletedPodGoes`, `CallsReturn`, `LatestReaches`, `Exits`, `CompletionShown`,
`CompletionTold`, `ListCatchesUp`, `EveryoneServed`, `EndReported`, `EndsWhenTold`):
liveness under fairness needs ENABLED, which is out of the prover's reach. Every
invariant and every action property of a passing run is proved.
No module declares a RECURSIVE operator.

## 6. Not modelled

- *Wiring and I/O*: configuration, HTTP plumbing, key and signature checks, rate
  limits and cached transports, metrics, the dashboard's pages. They keep no
  state the rest depends on.
- *Token review*: a request is taken to come from the pod its token names.
- *A pod without a host name*, whose executer ends before it registers.
- *Whether Slack accepted a message* (`slack/notifier.go:165`): a failure is
  logged and nothing depends on it.
- `GET /agent` changes nothing; its effect on the watcher is in AgentProcess, and
  a choice of the process (`ProcessHalts`, `JobDone`) in AgentController.
- *Several incarnations of a pod name* (`MaxUid = 2`, a StatefulSet): the module
  has them, the runs do not. TLC then refutes `FinalizerHeld` without any lag,
  failure or runner: pods are patched by name (`kube/controller_state.go:82`),
  so the second patch of a registration, or the release of a finalizer, may
  reach the next pod of that name. With the other bounds of
  `RegistrationLiveness` it refutes `AcceptsOnlyUnregistered` and
  `DeletedPodGoes` as well. What a StatefulSet is promised is still to be
  stated.

## 7. Plan

Done, in this order: PodPatch, AgentController with its runs, its invariant and
proofs; Feed and Broadcaster with proofs; JobsSync, Notifier; SlackApp;
AgentProcess; RunnerSync; RegToken with proofs; proofs of AgentProcess,
RunnerSync, SlackApp, the controller's pods, JobsSync and Notifier.

Next:
1. which properties hold with `MaxUid = 2`, where a patch computed for one
   incarnation may reach the next, and what of `Evidence` survives there;
2. that a runner passed over by one list is in the next, stated for
   AgentController, and so how long an agent is at risk;
3. what a restart of the manager leaves true of `Evidence`, so that
   `PodKilledSafely` can be stated for the epochs that were read since.
