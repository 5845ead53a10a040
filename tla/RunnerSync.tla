------------------------------- MODULE RunnerSync ------------------------------
(***************************************************************************)
(* The manager's list of runners (pkg/github/runners/synchronizer.go): one *)
(* page after another is fetched from GitHub, by its number, and what was  *)
(* read is published when there is no next page; then the next epoch       *)
(* begins.  Meanwhile runners come and go, and the pages shift.            *)
(*                                                                         *)
(* GitHub's list is a sequence.  It documents no order: a new runner may   *)
(* appear anywhere.  config.sh --replace is a runner that leaves and one   *)
(* of the same name that registers.                                        *)
(***************************************************************************)
EXTENDS Naturals, Sequences, SequencesExt

CONSTANTS
  Names,        \* names of runners
  PageSizes,    \* the page sizes the manager may be configured with
  MaxId,        \* runners ever registered
  MaxEpoch,     \* epochs are counted 1..MaxEpoch and again from 1
  MaxFaults,    \* calls to GitHub that fail
  MaxRestarts   \* restarts of the manager

ASSUME PageAssumption == PageSizes \subseteq Nat \ {0}
ASSUME RunnerBounds ==
  {MaxId, MaxFaults, MaxRestarts} \subseteq Nat /\ MaxEpoch \in Nat \ {0, 1}

VARIABLES
  pageSize,   \* syncWork.pageSize
  list,       \* GitHub's list
  lastId,     \* the id given last
  work,       \* syncWork; page 0 when its list is complete
  published,  \* the last State
  steady,     \* runners registered ever since this epoch began
  shifted,    \* a runner on a page read in this epoch has left
  spent       \* what has failed

vars == <<pageSize, list, lastId, work, published, steady, shifted, spent>>

-------------------------------------------------------------------------------
Instance(name, id) == [name |-> name, id |-> id]
Instances == {Instance(n, i) : n \in Names, i \in 1..MaxId}

NewState == [epoch |-> 0, instances |-> {}]

(* Mutant of reset: what was read in the epoch before is not dropped. *)
resetKeepsRead(epoch) == [epoch |-> epoch, page |-> 1, instances |-> work.instances]

reset(epoch) == [epoch |-> epoch, page |-> 1, instances |-> {}]

NextEpoch(epoch) == IF epoch = MaxEpoch THEN 1 ELSE epoch + 1

(* Runners of the pages before the one to fetch. *)
BeforePage == (work.page - 1) * pageSize

Page == {list[k] : k \in {m \in DOMAIN list : m > BeforePage /\ m <= BeforePage + pageSize}}

(* resp.NextPage: 0 for the last page, and for one past the end. *)
NextPage == IF Len(list) > BeforePage + pageSize THEN work.page + 1 ELSE 0

(* Mutant of Inserted: what was read before under the name is kept, too. *)
InsertedTwice(old, page) == old \cup page

(* Mutant of Inserted: the first reading of a name is kept. *)
InsertedOnce(old, page) == old \cup {i \in page : \A j \in old : j.name # i.name}

(* s.instances[r.GetName()] = ... for each runner of the page. *)
Inserted(old, page) == {i \in old : \A j \in page : j.name # i.name} \cup page

-------------------------------------------------------------------------------
(* GitHub *)

Register(name) ==
  /\ lastId < MaxId /\ lastId' = lastId + 1
  /\ \A k \in DOMAIN list : list[k].name # name
  /\ \E k \in 1..(Len(list) + 1) : list' = InsertAt(list, k, Instance(name, lastId'))
  /\ UNCHANGED <<pageSize, work, published, steady, shifted, spent>>

(* An ephemeral runner ends, or DELETE /runners/{id} is called for it. *)
Leave(k) ==
  /\ k \in DOMAIN list
  /\ list' = RemoveAt(list, k)
  /\ steady' = steady \ {list[k]}
  /\ shifted' = (shifted \/ (work.page # 0 /\ k <= BeforePage))
  /\ UNCHANGED <<pageSize, lastId, work, published, spent>>

-------------------------------------------------------------------------------
(* The loop *)

Fetch ==
  /\ work.page # 0
  /\ work' = [work EXCEPT !.instances = Inserted(@, Page), !.page = NextPage]
  /\ UNCHANGED <<pageSize, list, lastId, published, steady, shifted, spent>>

(* Mutant of FetchFails: the page is passed over. *)
FetchFailsPassesOver ==
  /\ work.page # 0
  /\ spent.faults < MaxFaults
  /\ spent' = [spent EXCEPT !.faults = @ + 1]
  /\ work' = [work EXCEPT !.page = NextPage]
  /\ UNCHANGED <<pageSize, list, lastId, published, steady, shifted>>

(* The page is fetched again in the next turn. *)
FetchFails ==
  /\ work.page # 0
  /\ spent.faults < MaxFaults
  /\ spent' = [spent EXCEPT !.faults = @ + 1]
  /\ UNCHANGED <<pageSize, list, lastId, work, published, steady, shifted>>

BeginEpoch(epoch) ==
  /\ work' = reset(epoch)
  /\ steady' = ToSet(list)
  /\ shifted' = FALSE

Publish ==
  /\ work.page = 0
  /\ published' = [epoch |-> work.epoch, instances |-> work.instances]
  /\ BeginEpoch(NextEpoch(work.epoch))
  /\ UNCHANGED <<pageSize, list, lastId, spent>>

(* NewSynchronizer: epoch 0 is published before anything is read. *)
Restart ==
  /\ spent.restarts < MaxRestarts
  /\ spent' = [spent EXCEPT !.restarts = @ + 1]
  /\ published' = NewState
  /\ BeginEpoch(1)
  /\ UNCHANGED <<pageSize, list, lastId>>

-------------------------------------------------------------------------------
Init ==
  /\ pageSize \in PageSizes
  /\ list = <<>> /\ lastId = 0
  /\ work = [epoch |-> 1, page |-> 1, instances |-> {}]
  /\ published = NewState
  /\ steady = {} /\ shifted = FALSE
  /\ spent = [faults |-> 0, restarts |-> 0]

GitHubStep == (\E n \in Names : Register(n)) \/ (\E k \in DOMAIN list : Leave(k))

Next == GitHubStep \/ Fetch \/ FetchFails \/ Publish \/ Restart

Spec == Init /\ [][Next]_vars

(* The loop turns; GitHub does as it likes. *)
FairSpec == Spec /\ WF_vars(Fetch) /\ WF_vars(Publish)

-------------------------------------------------------------------------------
(* Properties *)

Listings == {S \in SUBSET Instances : \A i, j \in S : i.name = j.name => i = j}

(* The values of the synchronizer; a name is listed once. *)
TypeOK ==
  /\ pageSize \in PageSizes
  /\ list \in Seq(Instances) /\ ToSet(list) \in Listings
  /\ lastId \in 0..MaxId
  /\ work.epoch \in 1..MaxEpoch /\ work.page \in Nat /\ work.instances \in Listings
  /\ published.epoch \in 0..MaxEpoch /\ published.instances \in Listings
  /\ steady \subseteq ToSet(list) /\ shifted \in BOOLEAN
  /\ spent \in [faults : 0..MaxFaults, restarts : 0..MaxRestarts]

(* A published list lacks no runner that was registered from the beginning *)
(* of its epoch to the end, whatever comes, fails and is read again; but   *)
(* for one thing: a runner of a page already read has left, and the one    *)
(* that moved up into its place is on no page read (synchronizer.go:87-122 *)
(* and 80-85).                                                             *)
WholeList ==
  [][published'.epoch \notin {0, published.epoch} =>
       shifted \/ steady \subseteq published'.instances]_vars

(* The synchronizer is a listing (RunnerListing): what it has yet to read  *)
(* are the runners behind the pages it has read.                           *)
Behind == IF work.page = 0 THEN {} ELSE {list[k] : k \in {m \in DOMAIN list : m > BeforePage}}

Listing == INSTANCE RunnerListing WITH
  runners <- ToSet(list), reading <- work.instances,
  unread <- Behind, shown <- published.instances

(* Nothing published was not at GitHub during its epoch, nothing is passed *)
(* over but when a runner leaves (synchronizer.go:46-122).                 *)
Refinement == Listing!Spec

(* When runners come and go no more, GET /runners comes to serve the       *)
(* runners there are: who was passed over is in a later list, and who has  *)
(* left is not (synchronizer.go:51-68, api/server_runners.go:38-50).       *)
ListCatchesUp == <>[](published.instances = ToSet(list))
===============================================================================
