# Determined: specifications of the master and of its web interface

TLA+ models of the two parts of Determined in which the order of events decides
what is right: the master's actors that schedule trials and commands on agents,
decide what a trial runs next and recover when something fails; and the web
interface, whose pages poll, stream, edit and act on what the master has, with
answers that arrive late, out of order, or not at all. Each definition is
translated from the Go or TypeScript code; `PROJECT.json` maps definitions to lines.

Contents: [inventory](#1-inventory) · [modules](#2-modules) · [runs](#3-runs) ·
[fairness](#4-fairness) · [proofs](#5-proofs) · [what does not hold](#6-what-does-not-hold) ·
[not modelled](#7-what-is-not-modelled) · [plan](#8-plan)

## 1. Inventory

### The master

The master (`src/master`) is a tree of actors. An actor handles one message of
its inbox at a time; `Tell` appends to an inbox, `Ask` waits for an answer, a
message to a closed actor is dropped, a panic closes the actor, and an actor's
`PostStop` runs after its children have stopped.

| component | state it keeps | operations | talks to |
|---|---|---|---|
| trial workload sequencer (`trial_workload_sequencer.go`, `length.go`) | batch counters, current operation, cached checkpoints, a snapshot of all this at the latest checkpoint | `OperationRequested`, `Workload`, `WorkloadCompleted`, `CompleteCachedCheckpoints`, `PrecloseCheckpointWorkload`, `RollBackSequencer` | called by its trial |
| trial (`trial.go`) | run, task, allocations, containers, sockets, exits, restarts, flags of a run that is ending | one handler per message; after every message it may stop, request or release resources | resource manager, agents, containers' websockets, experiment, users, database |
| resource pool (`resource_pool.go`, `task_list.go`, `agent.go`) | agents, devices and their containers, zero-slot containers, requests, allocations, `reschedule` | add/remove agent, add/free/remove device, request, release, tick | agents' slots, tasks |
| placement and schedulers (`fitting*.go`, `round_robin.go`, `fair_share.go`, `priority.go`) | none: functions of the pool | `findFits`, `Schedule` | called by the tick |
| agents and slots of the master (`internal/agent`) | containers per agent, container and enabled flags per slot | connect, lose, start, kill, report, enable, disable | pool, tasks, agent daemons |
| commands, notebooks, shells, tensorboards (`command.go`) | task, allocation, container, exit | request, start, kill, exit, collect | resource manager, agents |
| experiment and searcher (`experiment.go`, `pkg/searcher`) | search method, event log and write buffer, trials, state | operations to trials, events from them, pause, cancel, restore after a restart | trials, database |
| read-write coordinator (`rw_coordinator.go`) | holders and waiters of a lock | lock requests over websockets | containers |
| provisioner (`provisioner`) | instances, idle and disconnected times | decide to launch and terminate | pools, cloud APIs |
| kubernetes resource manager (`kubernetes`) | pods, request queue | create, delete, cancel a creation | kubernetes API |
| agent daemon (`src/agent`) | containers of one machine | start, signal, report | master, docker |

`PROJECT.json` lists these and the rest (logs, database, API, harness) with what
is modelled of each.

**What is hard here.** Nothing is shared between actors, so the difficulty is in
the order of messages. A trial's run ends while a workload's completion, an
answer of the experiment (`sendNextWorkload`), a termination timeout and reports
of several containers are on their way, and a new run begins before they arrive.
A container can connect before or after the agent reports that it runs. The pool
learns of a container's end from the slot and, separately, of the release from
the task. Users disable slots and kill tasks in between. A failed run has to go
back to exactly the last checkpoint. `PROJECT.json` lists these hazards, each at
its line, with the properties that would catch it.

**What makes each component correct.**

* *Sequencer*: the counters account for every batch; a rollback returns to the
  state of the checkpoint that containers load and takes nothing back that the
  search relied on; periods are kept; every operation gets done.
* *Trial*: one run at a time; one workload in flight; the model in the container
  contains what the sequencer counts; only failures cost restarts; a stopped
  trial leaves nothing behind; it stops, releases and works when it should.
* *Pool*: a free device is idle; no message order makes it panic; no request
  that fits waits without a wake-up; the device of an ended container comes back.
* *Experiment* (planned): after a crash, replaying the event log brings back a
  state its trials can go on from.

### The web interface

The web interface (`src/webui/react/src`) is one JavaScript thread in each tab. A
handler, a promise that settles, or a timer runs to its next `await`; React then
renders and runs the effects of what changed. A function made in a render keeps
the values of that render, however late it runs: most of what can go wrong here
comes from that, from requests that nobody cancels, and from effects that run
when one of their dependencies is replaced.

| component | state it keeps | operations | talks to |
|---|---|---|---|
| session (`contexts/Auth.tsx`, `hooks/useAuthCheck.ts`, `pages/SignIn.tsx`, `SignOut.tsx`, `components/DeterminedAuth.tsx`, `Router.tsx`, `ErrorHandler.ts`, `services/apiConfig.ts`) | token in a cookie, in localStorage, in the context and in every API client; whether the visitor was checked; page, and where to return to | check, poll, submit, sign out, redirect, handle a 401 | master, other tabs through cookie and storage |
| `usePolling` | the id of one timer | start, settle, fire, stop, replace the function | pages |
| `useRestApi` | data, loading, error; one request under way | trigger (cancels the request before), set data, set error | pages, contexts |
| list of experiments (`pages/ExperimentList.tsx`, `components/TaskActionDropdown.tsx`) | filters, sorting, paging, search; rows and total as answered; selection; dialogue | change each of them, select, act on a row, act on the selection | `usePolling`, storage, master |
| list of tasks (`pages/TaskList.tsx`, `contexts/AppContexts.tsx` and the contexts of tasks) | one list per kind in a context; filters, selection, dialogue | poll, filter, select, kill one, kill the selection and wait for it | `useRestApi`, storage, master |
| log viewers (`components/LogViewer.tsx`, `pages/MasterLogs.tsx`, `TaskLogs.tsx`, `TrialLogs.tsx`) | entries, the range of ids held, in the viewer and again in the page; tailing; scrolling put off; stream and its buffer | page back, poll or stream, scroll, filter | `useRestApi` or a stream, master |
| pages of an experiment and a trial (`pages/ExperimentDetails.tsx`, `TrialDetails.tsx`, `components/ExperimentActions.tsx`, `TrialActions.tsx`, `CreateExperimentModal.tsx`, `ContinueTrial...`, `utils/step.ts`) | what was last answered, an error, the configuration being edited, metrics chosen | poll to the end, refetch after an action, fork, continue, choose metrics | `usePolling`, storage, master |
| learning curves (`pages/ExperimentDetails/*`, `components/LearningCurveChart.tsx`; `TrialsSample` and `MetricNames` of `api_experiment.go`) | the master: trials that are sent and a cursor in each; the page: all it was sent, metric, lines, focus | sample, send, receive, draw, change metric or number of trials | two streams |
| dashboard, cluster, waiting pages; labels; navigation, charts, formatting | lists from the contexts; the labels of one experiment; sizes and texts | show | contexts |

**What is hard here.** A routine of `usePolling` awaits an answer while the
function it polls is replaced. The list shows the answer to parameters that are no
longer set. A batch action works with the selection of the render in which its
dialogue was opened. A viewer of logs is fed by a tail and by pages of history
that overlap, while both keep a range of ids each. A page reads an experiment, its
trials and its validations one after another, and stops polling at what it reads.
Polling rewrites a configuration under the hands of the user. The master sends the
curves as differences, to a page that may have changed its mind.

**What makes each component correct.**

* *Session*: the user shown owns the key that is sent; a refusal, an expiry or
  another tab never leads into a loop, a blank page or a half sign-out.
* *Polling, requests*: one loop, which never dies and never doubles; answers do not go
  back in time.
* *Lists*: they settle on the current parameters; what is stored is what is set; a
  batch counts as done only if it is done.
* *Logs*: each entry once, in order, without gaps, from the start to the end.
* *Pages*: the end is shown, and with everything that belongs to it; edits survive.
* *Curves*: what is drawn is what the master sent, and what it has is sent.

## 2. Modules

| module | models | notes |
|---|---|---|
| `Length` | `pkg/model/length.go` | integer division and `EqualWithinBatch` are kept as they are |
| `CheckpointedProgress` | abstract specification | batches trained, batches durable; *Advance*, *Save*, *Lose* |
| `WorkloadSequencer` | the sequencer and the calls the trial makes to it | `state` and `snapshot` are `trialWorkloadSequencerState`; a Go index is a count of elements |
| `WorkloadSequencerProofs` | theorems about the above | section 5 |
| `Trial` | the trial actor and its environment | uses the operators of `WorkloadSequencer` on its own sequencer state through a parametrised `INSTANCE`; `TrialProofs` |
| `Fitting` | placement (best fit) and the round-robin scheduler | functions of a pool record |
| `ResourcePool` | pool, agent, slot and task actors with their inboxes | the tick uses `Fitting`; `ResourcePoolProofs` |
| `MCWorkloadSequencer`, `MCTrial`, `MCResourcePool` | small instances | configurations, operation batches, topology |
| `Session` | signing in and out in one tab | the master's sessions and the other tabs are its environment; `SessionProofs` |
| `Polling` | `usePolling` | operators on a record for the pages, and a specification of its own |
| `ExperimentState` | the master's handling of a request to activate, pause, cancel, kill or archive an experiment, and its end (`api_experiment.go`, `experiment.go`) | operators on a record |
| `ExperimentList` | the page of experiments | polls with `Polling`, the master with `ExperimentState`; `ExperimentListProofs` |
| `RestApi` | `useRestApi` | operators on a record |
| `TaskList` | the page of tasks and the contexts behind it; the commands' actors at the master (`command.go`) | requests with `RestApi`; `TaskListProofs` |
| `LogViewer` | the component of that name | operators on a record |
| `Logs` | the pages of logs around it, and what they ask of the master | uses `LogViewer` |
| `Workloads` | rows, metrics and data of a trial's workloads | functions |
| `Details` | the pages of an experiment and of a trial | polls with `Polling`, uses `ExperimentState` and `Workloads`; `DetailsProofs` |
| `MCDetails` | small instance | the workloads of one trial |
| `LearningCurve` | the master's streams of samples and names, and the page that draws them | both ends in one module; `LearningCurveProofs` |

**WorkloadSequencer.** Its environment is the trial reduced to its calls:
`Allocated` is `processAllocated`, `Completed` is `processCompletedWorkload`,
`Continue`, `Preclose` and `Terminate` are the outcomes of `sendNextWorkload`
(a suspension may be asked for at any time, so `Preclose` and `Terminate` are
not conditional on it), `RollBackSequencer` and `FailedForGood` are `terminated`.
A checkpoint is known by the workload that made it. Metrics are reduced to
whether a validation is the best so far.

**Trial.** `t` holds the actor's fields. A handler is an operator from fields to
fields; what it sends is collected in `t.out` and takes effect in the same step
(`Effects`), then `AfterMessage` is what `Receive` does after every message. The
environment appends to `inbox`: `rm` is the resource pool's entry, `boxes` the
containers with their harness and socket, `echoes` the `sendNextWorkload`
messages at the experiment, `timers` the pending timeouts. Details taken from
the code around the actor:

* a container killed while it is being pulled exits without an error, one
  killed while running exits with one (`agent/internal/container.go`); pulling
  and starting are one state;
* `Completed` and `ChildFailed` from a websocket actor that the trial killed are
  dropped by the actor system (`Context.Kill`, dead children);
* a websocket request may wait at the HTTP server past the exit of its container
  (`LateDial`); only the run about that has it;
* saving a new trial may fail (`DBMayFail`, in `trial_gang`): the trial then
  kills containers that were never started and waits;
* the search method closes a trial with its last operations or once they are
  complete; it never closes one it still wants work of;
* `allReadyTimeout` only logs, and is left out.

**ResourcePool.** Each actor has an inbox (`poolBox`, `agentBox`, `slotBox`,
`taskBox`). The `slots` actor and the resource manager pass messages on in order
and are left out, except that a message to a slot that is gone makes the `slots`
actor, and with it the agent, fail (`sendToSlots`). `rp` is the pool's record;
`host` is what really runs on the machines, which no actor can read and the
properties compare the books with. A task is allocated once, so the record
`[task, agent, devices]` stands for a container's ID. Users' requests are
handled directly. Reports before a container's termination only refresh a copy
and are left out. Where Go takes devices in map order or breaks a tie by a hash,
every choice is possible. The scheduler's rounds are given by the place each request has in its
group (`UpTo`, `Round`): a group offers one request per round until one has no fit. A tick
then allocates in that order, each request in what the ones before it have left
(`Allocating`). Labels and the worst-fit policy are left out.

**Session.** `tab` is everything a script of the page reads or writes in one go. The
server makes up its mind about a request at some moment and the tab hears of it
later; each is an action. A token is a number, and two more values tell the
absent header from the empty one. `push` includes what the page that it mounts does at
once, `Effects` what a new state leads to without anyone's doing. `streamKey` is the
key of the one client that is never renewed.

**Polling, ExperimentList.** A function that changes is a new function, so versions
are numbered, and `params` has the parameters of each. `Polling` has the hook's steps as
operators on a record and a specification built from them; `ExperimentList` and
`Details` apply the operators to a record of their own. That is composition and
not a refinement: an exception while an answer is being rendered settles the call
and unmounts the page in one step, which the hook alone would take in two. A request is
answered from the state in which the master is when it is served; requests of a
page that was left are served too. A row is what the list, the menus and the
batch depend on: state and archived.

**ExperimentState.** To cancel or kill is a request that the master answers as soon as the
experiment's state is a stopping one; the state in which it ends is written when the last
trial is gone (`ExperimentStops` of `ExperimentList`, `Works` of `Details`), and until then the page
sees neither a running nor an ended experiment. Nothing leads from stopping back to running, with one
exception in the code: `STOPPING_ERROR` may become `ACTIVE` (`ExperimentTransitions`). Experiments that
fail are left out, and with them that transition.

**RestApi, TaskList.** `own` stands for the four uses of `useRestApi` of the page
itself, of which it only reads `isLoading`; the table shows the contexts. A batch
keeps the tasks and the `isLoading` of the render its dialogue was opened in. `server` has the
commands' actors. A kill is answered at once (`ServeKill`): a command without a container exits
(`terminate`), one with a container is `"KILLED"`, which the lists go on calling running until its
container is reported terminated. `"EXITED"` is a command that exited while its allocation was under
way, and that is started all the same (`Allocated`, `revived`). `"RUNNING"` stands for every
state of a container before the last.

**LogViewer, Logs.** The two kinds of page share the viewer and differ in how they
ask. Pixels are left out: what counts is whether the user is at the top, at the bottom
or between. The layout effects (`scrolling`) run again when the tailing ends, and then restore
the position if older entries came last. Requests of the page of the master may fail, any number of them; `lost`
says which failures the page never makes up for. `disturbed` notes the four things after which the code makes no
promise about gaps (section 6); it is never reset. The master's buffer of log entries is
taken to hold all of them: that it forgets those beyond its capacity is left out.

**Workloads, Details.** `closures[v]` is what the `v`-th version of `fetchDetails`
was made with. `dlg.config` tells apart the configuration made by the page, the
form's, and text typed that can or cannot be read. A request for the experiment of
a trial is known by whether the defaults and the storage key were there when it
was made; equal ones are counted.

**LearningCurve.** The `n`-th value of a trial is at batch `n`. A series of more than
5000 values (the page's `MAX_DATAPOINTS`) that is sent for the first time is thinned by the master
(`lttb.Downsample`, `api_experiment.go:828`); the model sends every value, so what it shows is
about series below that length. Thinning moves no cursor and changes no message but for the
values in it. The stream's `phase` is where
the master's loop is: it samples, sends, then looks whether the experiment has
ended. Which trials are best may be different each time. `due` says that effects of a
render are still to run: a message of the old stream can come before them.

Operators whose comment calls them a mutated form or a mutant are deliberate
bugs, one for each property of the runs or part of one; `PROJECT.json` ("mutants") names the
definition each one replaces. TLC finds the property violated under every one, so
none of them holds vacuously.

## 3. Runs

A run is `tlc -config <cfg> <module>`. The project keeps to a dozen, one per question;
all pass.

| run | cfg | bounds | distinct states |
|---|---|---|---|
| `sequencer` | `WorkloadSequencer.cfg` | 6 configurations, 5 operations, 2 failures | 13 114 |
| `trial_restart` | `Trial.cfg` | 1 container per run, 1 restart, 1 crash, 1 preemption, 1 kill | 1 760 337 |
| `trial_gang` | `TrialGang.cfg` | 2 containers per run, 1 crash, failing database | 620 847 |
| `trial_live` | `TrialLive.cfg` | 1 container, a pause, a cancel or kill at any time | 217 825 |
| `pool` | `ResourcePool.cfg` | a command and a trial on 1 device; 1 lost agent, 1 toggle, 1 kill | 331 686 |
| `pool_gang` | `ResourcePoolGang.cfg` | a trial over 2 agents, a zero-slot command, 1 lost agent | 960 504 |
| `session` | `Session.cfg` | 2 tokens, 1 submission, 1 error, another tab | 88 182 |
| `experiments` | `ExperimentList.cfg` | 2 experiments, one of which others kill, 3 actions, 2 versions of the parameters, 1 action, 1 error | 574 089 |
| `tasks` | `TaskList.cfg` | 2 tasks, one of them waiting for a container and old enough to be collected, 1 kill, 1 error, no type of task to tick | 202 256 |
| `logs` | `Logs.cfg` | pages of 2, logs of 0 or 3 entries that grow by 1, any number of failures, 1 change of filter | 51 451 |
| `details` | `Details.cfg` | 1 trial of 2 workloads, 5 buttons, 1 request, 1 fault | 139 221 |
| `curve` | `LearningCurve.cfg` | 2 trials of 2 values, 2 metrics, 1 change, 1 broken stream | 96 084 |

Several properties are conjunctions of named parts: the cfg names the conjunction,
the paragraphs below its parts, and there is a mutant for each part.

**sequencer.** `SnapshotIsCheckpoint`: the snapshot is the state of the
checkpoint containers load. `StartsFromCheckpoint`: containers start only when no
counted batch is missing from it. `WorkAccounted`: the total is the sum of the
completed operations and the current one, whatever was rolled back. `OnlyTrainingTakenBack`: a
rollback takes back training, never a checkpoint operation, and a validation only
if `min_validation_period` made it due before the checkpoint.
`WorkloadsJustified`: no training beyond a period (`PeriodsRespected`), after an early
exit (`NoTrainingAfterGracefulStop`) or from a validated model that is still to be saved
(`ValidatedModelIsCheckpointed`). `ImplementsProgress`: refinement of
`CheckpointedProgress`. `OperationsComplete`: all requested work is done. The
configurations cover no periods, periods inside and at the end of an operation,
periods in records and epochs that are not whole batches, and the three policies.
Five operations let a second request arrive during the first, and let a cached
checkpoint meet a `Checkpoint` operation; two failures let a rollback follow another.

**trial_restart.** `CompletionsInOrder`: counting workloads at the leader,
completions on the way, and questions at the experiment there is never more than one
(`OneWorkloadInFlight`), and the trial never rejects a completion (`NeverFails`).
`ModelInStepUnlessCancelled`: the leader's model holds exactly the batches the
sequencer counts (the exception: `TrialFailuresCounted.cfg` in section 6).
`RestartsAreFailures`: preemption and late messages of an earlier run never cost a
restart. One crash and one preemption
give up to three runs, so each message of a run can arrive in the next.

**trial_gang.** `OneRunAtATime`: a container that exists belongs to the current
run and its resources are held, although containers start, connect, fail and are
killed one by one. Two ranks distinguish leader and follower; further ranks would
behave like the second.

**trial_live.** `StatesHonoured` (`StopsWhenTold` and `PausedReleases`), `WorkGetsDone`
and `StopsClean`, for a trial paused, activated and cancelled at any point of a run, with a harness
that may end it gracefully.

**pool, pool_gang.** `PoolNeverPanics`: the checks of `receiveAgentMsg`,
`deallocateDevice` and `containerStateChanged` hold in every message order.
`FreeDevicesAreIdle`: the pool never takes a device for free on which a container
runs or is about to. `QuiescentPoolIsFull`: if the pool is at rest, the first
request of each group fits nowhere. `EndedContainersFreeDevices`: the device of
an ended container is freed or leaves with its agent. One device is enough for
contention; two agents give a dedicated multi-agent fit that loses a part. The
first two hold as long as no disabled slot is enabled again, as is the case with one request
to a slot; with two they do not hold (`ResourcePoolToggle.cfg`).

**session.** `NeverStuck`: (`LoginReturns`) neither the sign-in page nor a sign-out under way
remembers `/login` or `/logout` as the place to return to, and (`BlankPageIsWaiting`) a
page that shows nothing waits for a check or a sign-out that is under way, unless the
only check failed with an error of the server. `ShownUserOwnsKey`: the key the clients
send is the shown user's, except between the two answers of a submission, or after
the second failed. `FollowsSession`: the sign-in page notices a session opened
elsewhere (`PicksUpSession`), and signing out ends whatever the master answers
(`SignOutEnds`). Two tokens give an old and a new
session; one submission, one error and another tab overlap in every order.

**experiments.** `PageWhole`: the hook's guarantees, in the page, with errors,
exceptions and the page being left (`OnePollLoop`, `NeverStopsPolling`), and storage that
agrees with what is set (`StoredSettings`). `KilledBatchStops`: a batch that ends its experiments counts as done only if every one of them is at
least stopping (`BatchStopped`), and what is stopping never runs again (`NeverRunsAgain`). That they
have ended when the batch is done is not so: the master answers before.
`SettlesOnCurrent`: if the loop of the current parameters is not displaced, their
answer is what stays. Two versions give an answer to the old parameters after
the new ones; a third would only repeat it.

**tasks.** `PageWhole`: nothing is loading without a request under way
(`LoadingIsAsked`), and the filters that are stored are the ones that are set (`FiltersStored`).
`NoGoingBack`: an ended task is not shown as running again, unless the master itself started
it after its end. `BatchEnds`: a batch is done only when each of its tasks has ended or
was told to (`WholeBatchTold`) and the wait after it ends (`DialogueReturns`).
`EndedIsShown`: a task that was told to end comes to be shown as ended, through the contexts, although each poll cancels the request before. Two notebooks are the least
of which one can be refused, and one of them is enough to be collected by the master before a
late kill arrives; another kind would add a second context that works alike.

**logs.** `TruePicture` (`NoDuplicates`, `NoGaps`, `RangesAgree`, `StopsAtTheStart`): what is
shown is a stretch of the log, under every overlap of tail, pages and streams.
`FollowsTheEnd` (`CatchesUp`, `TailingSticks`) and `ReachesTheStart`: the end is followed and
the start can be reached, although requests fail; the exceptions are a page both of whose first
requests failed, and, for the start, a request for older entries that failed. Pages of two
entries against a log of three that may grow to four give a first page, a whole or a short one
before it, pages that overlap because the log grew between them, and the start.

**details.** `PagesReliable`: until an end was shown there is a loop, and one only
(`PollsUntilEnd`); an experiment shown as ended is shown with all its trials
(`EndedShowsAllTrials`); nothing unreadable is posted (`PostsAreConfigs`);
`workloadsToSteps` agrees with a definition by quantifiers on every sequence of up to
three workloads (`StepsComplete`). `EditsSurvive`: polling and refusals leave an open
dialogue alone. `ComesToBeShown` (`EndIsSeen`, `ForkIsShown`, `StoredMetricsShown`): the end, the
fork and the chosen metrics come to be shown.

**curve.** `DrawsWhatWasSent`: no message makes the handler fail (`EventsRender`), and a
page that has caught up draws the trials the master holds to be the best, with every
value sent (`CurveMatchesMaster`). `ComesToBeDrawn` (`ShowsSelected`, `CurveGrows`,
`NamesStay`): the selected metric and new values come to be drawn, and names stay on offer. Two trials with room for one give promotions and
demotions; two values give a cursor between them.

Deadlock checking is off everywhere: a trial or a command that has ended, a
pool without requests, and a page that was left have nothing more to do.

## 4. Fairness

`WF_vars(Progress)` in `Trial` and `ResourcePool` covers what actors and machines
do by themselves: an actor with a message handles it (its goroutine runs until
the actor stops), the ticker ticks, timers fire, the harness of a running
container connects and works, a signalled container ends, the resource pool
places a trial that waits. It is one condition on all of them together, weaker
than one for each. Users' requests, crashes, lost connections and preemptions may
never happen. In `ResourcePool` containers need not end by themselves, nor tasks
be launched. In `WorkloadSequencer` fairness is on allocation, on sending and on the
normal completion of workloads; failures are bounded by `max_restarts`, and in the
runs so are operations.

In the web modules timers go off, effects run and the master answers or fails: weak
fairness on each of them. Users, other tabs and faults are never
forced, nor the end of a task that was not told to end; the containers of tasks that were
told to do end (the agent kills them). Kills, and what a batch does after them, are under one weak fairness condition. Strong fairness is assumed in three places, each a request that the next poll
aborts: the check of the sign-in page, the lists of the contexts, and the newer
entries of a log. A poll a second (or five) against an answer that takes
milliseconds is what justifies it: with an answer that is always slower than the
period the code would indeed never get one. Calls of `fetchExperiments` and
`fetchDetails` are not aborted, and weak fairness for each version is enough.

## 5. Proofs

TLAPS checks these for every value of the constants that the named assumption of the
module allows: the types of a configuration or of a script of workloads, bounds that are
natural numbers, sets of tasks, routes, experiments and page sizes of any size. The
inductive invariants (`IInv`, `FInv`, `WInv`) were checked with TLC on the instances of section 3
before they were proved. Each is a conjunction of parts that take the state they speak
of as parameters, so that a lemma can state a part of the state a handler leaves behind;
each action has its own lemma, and `Invariance` combines them.

| module | theorem | states |
|---|---|---|
| `WorkloadSequencerProofs` | `TypeCorrect` | `TypeOK` |
| | `RollbackSound` | `SnapshotIsCheckpoint` |
| | `ContainersStartSound` | `StartsFromCheckpoint` |
| | `RollbackTakesBackTraining` | `OnlyTrainingTakenBack` |
| | `Refinement` | `ImplementsProgress`: every step is an *Advance*, *Save*, *Lose* or stutter of `CheckpointedProgress` |
| `WorkloadSequencerProofs` | `WorkloadsAreJustified` | `WorkloadsJustified` |
| | `EveryBatchAccounted` | `WorkAccounted` |
| `TrialProofs` | `TrialTypeCorrect` | `TypeOK` |
| | `OneRunEver` | `OneRunAtATime` |
| | `AlwaysStopsClean` | `StopsClean` |
| | `OneWorkloadAtATime` | `OneWorkloadInFlight` |
| | `ModelStaysInStep` | `ModelInStepUnlessCancelled` |
| | `CompletionsStayInOrder` | `CompletionsInOrder`, given that no request of the search method ends with a checkpoint |
| | `OnlyFailuresCount` | `RestartsAreFailures`, of every behaviour in which containers ask for their websocket before they exit (`DialsInTime`) |
| `ExperimentListProofs` | `PollingSafe` | the operators of `OnePollLoop`, `NeverStopsPolling` and `PollsUntilEnd` |
| `SessionProofs` | `VisitorIsNeverStuck` | `NeverStuck` |
| | `ShownUserAlwaysOwnsKey` | `ShownUserOwnsKey` |
| `ExperimentListProofs` | `PageStaysWhole` | `PageWhole` |
| | `BatchStopsWhatItKills` | `KilledBatchStops` |
| `ResourcePoolProofs` | `PoolTypeCorrect` | `TypeOK` |
| | `QuietPoolIsFull` | `QuiescentPoolIsFull` |
| | `PoolKeepsUp` | `PoolNeverPanics`, given that no disabled slot is enabled again |
| | `FreeIsIdle` | `FreeDevicesAreIdle`, given the same |
| `TaskListProofs` | `PageIsWhole` | `PageWhole` |
| | `NeverGoesBack` | `NoGoingBack` |
| | `BatchIsToldWhole` | `WholeBatchTold`, the safety part of `BatchEnds` |
| `DetailsProofs` | `PagesAreReliable` | `PagesReliable` |
| | `EditsAreKept` | `EditsSurvive` |
| | `TableOfSteps` | what `StepsComplete` checks for three workloads, for any number |
| `LearningCurveProofs` | `CurveIsTrue` | `DrawsWhatWasSent` |

**Sequencer.** None of the properties is inductive alone. `Sound(state, snapshot)` adds
that no cached checkpoint is newer than the snapshot: `CompleteCachedCheckpoints` retakes
the snapshot with a cached checkpoint as the latest, which is right only if nothing was
trained since; the lemma `CachedSound` derives that from `Workload()` comparing the
batches of the cached workload with the current ones. `Chosen(running, state)` adds that
the workload in flight was chosen in the present state: without it a validation that
completes could be of a model that has not been checkpointed. `Untouched` adds that an
initial validation is only due before any training.

`WorkloadsJustified` needs `InStep` of the state *and of the snapshot* (a rollback
brings the counters of the snapshot back, which must be within their periods too), and
`Justified`: the workload in flight keeps them there when it completes. The arithmetic is
that of `batchesThisStep`, a minimum over the periods. `WorkAccounted` speaks of a
sum over the operations, the recursive function `BatchesAsked`. That such a function
exists, what it adds up to, and that an operation added at the end leaves earlier sums
alone are proved by induction: `SetInduction` derives induction over a *set* of natural
numbers from the well-foundedness of `<` (`WFMin`), which needs no operator as a
parameter.

**Trial.** `OneRunAtATime` speaks of containers and the pool, the code only of its own
fields; `IInv` says what ties them together. `RunOK`: request, allocations and ranks are
of one run, and what is terminated was allocated. `PlacedOK`: the pool's entry is the
trial's request, and of the answers to it in the inbox at most one is of the run that is
being waited for. `ReportsOK`: a container's exit is the last thing reported of it, and until
it is handled the run is not over; so `terminated()`, which is reached when every allocation
has an exit, finds no container alive. `ToldOK` and `StopOK`: nothing reopens a closed
trial, and the stop message is sent only by a trial that is closed and has no request. A
handler followed by `AfterMessage` is sorted by its outcome (the run goes on, is requested,
is placed, loses one container, ends), one lemma per handler; `Effects` then has one lemma per
part of the invariant over these outcomes, instead of one per handler and part.

`RestartsAreFailures` needs a second invariant, `FInv`. It holds trivially while there
were more failures than restarts; the hard case is the trial that has as many, and is not
ending its run itself (`Blameless`). `HealthyOK` says that for such a trial no container of
the run has exited, was signalled or was sent `TERMINATE`, and that no message on its way
will make the trial kill it: no timeout of this run, and no `ChildFailed` other than of a
socket it closed. The last needs `SocketsOK`: sockets are closed with their container. A
request that is handled after its container's exit opens one that is not, and its
failure is charged to the trial. The condition `DialsInTime` on the steps of a behaviour is needed: with `LateDial` TRUE,
TLC finds `RestartsAreFailures` violated in the instance of `TrialGang.cfg`.

`CompletionsInOrder` and `ModelInStepUnlessCancelled` share a third invariant, `WInv`, which follows
one workload around: written to the leader, done, relayed to the trial, put to the experiment
as a question, answered. `InOrder` says that of these five places at most one is taken, for the
leader of the current run, and that what lies there is `Legal`: the workload that is due in
the sequencer's state of now, or the checkpoint before a run ends; `InStep` adds that the leader's model is
what the sequencer counts, plus the batches of a workload that is done and not yet
recorded. `SeqCore` ties the sequencer to its checkpoint (the total is that of the latest checkpoint
and the batches since) and says when nothing has been trained since: while the trial has no
resources, once it was told to terminate, and after the leader's exit was judged to need no
checkpoint. So the leader of the next run, which loads the latest checkpoint, holds the model
the sequencer counts. `PendingOK` is about everything of earlier runs that is still
on its way: completions are of containers that existed, a question or an answer is of a run that was,
and what is relayed of a container whose exit was handled is relayed by a dead child, whose
messages are not heard. `Result` lists what each handler makes of the trial; there is one lemma for the soundness
of each (`Sound`), and `TakenStep`, `OtherStep`, `NextRunStep` and `NewRunStep` say what
becomes of the workload in flight when the message is its own, another one, the last of
the run, or the one that starts the run. `SequencerAssumption`, which these proofs use, gives the
configuration and the requested operations the types that `WorkloadSequencer` is made for.

That a trial never refuses a completion or starts a run with nothing to do (`NeverFails`) needs that
no request ends with a checkpoint (`LastOK`). Only population-based training requests
checkpoints, and follows each by a training and a validation of the same trial in the same
batch (`pbt.go:129-150`; `truncate_fraction` is at most one half, and the experiment sends a trial its
part of a batch in one message, `experiment.go:533-544`). Without the assumption the statement is
false, see section 6.

**Pool.** The pool's books, the inbox, the agents' reports and the containers each tell a part
of one life: a container is offered, sent to its agent, live, reported ended, and freed, one
after another, each message at most once. `LifeOK` says so, container by container;
`PoolOK` says that holders in the books are containers on that very device, that only devices
the pool was offered are held, and that zero-slot containers stay in their bound; `AgentsOK`
says that what the inbox holds about an agent lies between its `AddAgent` and its
`RemoveAgent`. `QuiescentPoolIsFull` rests on `FullOK`: no group's first request fits in a
pool that is not about to schedule. The tick is the hard step: fits are looked up in the pool
before the tick, and the allocations are then made one after another in what is left.
Allocating never creates a fit (`NoNewFits`), so a first request that was not offered, or
lost its fit to an earlier one, still has none afterwards; and every message that frees
room sets `reschedule`. The order in which a tick allocates is arbitrary, and the induction
over it is one over a set (`SetInduction`).

`PoolNeverPanics` and `FreeDevicesAreIdle` need `DeviceOK` of each device: every container
that is on it, or may still come onto it, is its holder in the books; `FreeDevice` is on its
way only for a device that is held and has no such container; and additions, frees and
removals of one device are in the order in which they happened. This is *false* when a disabled slot is
enabled again (`ResourcePoolToggle.cfg`): the slot is then added as free while its
container is still on its way. The theorems therefore speak of the behaviours in which no step does that
(`NeverReenabled`).

**usePolling.** `PollInv` adds `Rendered` to the three properties: only versions that were
rendered have routines. Without it the routine of a new version need not be new, and
`OneRoutine` would not survive `Change`. The pages apply the same operators to records
of their own.

**Session.** `Kept`: the sign-in page always has a page of the application to return to, and
whoever is signed in was checked. `Waits`: a blank page of the application has the
router's check due, under way, or failed for good. `Owned`: if the key is not the shown
user's, it is that of a submission that has its token and not yet its user. Three
quarters of the proof are the handlers that run one into another (`handleAuthError`,
`push`, the effects of what it mounts), each with a lemma on any tab in any state.

**Lists.** For `KilledBatchStops`, `BatchOK` says that every experiment of a batch under way
has its request among the calls *of that batch*, and that a request which was served has
made its experiment stop, which runs no more whatever others do. `WholeBatchTold` has the
same shape, with tasks that were told to end, and survives that a task was started after its end. For `NoGoingBack`, `Older`
orders three pictures of a task: what is shown is not ahead of the answer on its way,
which is not ahead of the master; and a context has at most one request, because `Trigger`
cancels the one before.

**Pages.** `LoopOK`: a routine that awaits has exactly one call of `fetchDetails` under way, so
a call that ends, fails or is overtaken by a new function takes its routine with it and
no other. `CallOK`: a call that has read the state of an experiment that ended reads the
trials it ended with, since what has ended stays as it is (`Onward`). `DlgOK`: the form never
holds a configuration that cannot be read, which is why it may post without a check.
`VersionsOK` counts: every function that is polled is owed to an error or to an experiment
that was made. `TableOfSteps` is proved by induction on the number of workloads
(`AddedRows` is its step).

**Curves.** What the page draws is put together from differences, so the invariant follows
the stream. `WireOK`: each message on the wire is the difference between the trials the
master chose then and the ones before, with the hyperparameters of those that are new, and
the last one leads to what the master takes for current. `KeptOK`: for every trial the page
lists it has the hyperparameters and the data, so that the handler never reads what is
not there. `CursorsOK`: every value up to a cursor of the master was sent, that is, kept or on
the wire, and a trial that was demoted starts again from nothing. `DrawnOK`: what is drawn is what
is kept, unless effects are still to run. The trials are drawn in the order of
their numbers; `SortedOK` proves that the sorted list has each of them exactly once
(the place of a trial is the number of trials up to it, and an injection between finite
sets of one size is onto).

**Only model-checked.** Liveness under fairness, for which there is no prover here
(`OperationsComplete`, `StatesHonoured`, `WorkGetsDone`, `EndedContainersFreeDevices`, `FollowsSession`,
`SettlesOnCurrent`, `BatchEnds`, `EndedIsShown`, `FollowsTheEnd`, `ReachesTheStart`, `ComesToBeShown`,
`ComesToBeDrawn`). `TruePicture` of `Logs`: the viewer's range is kept by sequence operations
(`SelectSeq`, concatenations of filtered pages) whose meaning for every length is an induction
over data.

## 6. What does not hold

The runs state what holds. These further configurations, in the same directory, each
check one statement that one would expect, or that a comment or a test of the
repository makes, and TLC shows a behaviour of the code against it:

* `WorkloadSequencerTinyPeriod.cfg` (`MCWorkloadSequencer`): a `min_validation_period`
  below one batch is due after zero batches, so the trial validates forever.
* `TrialFailuresCounted.cfg` (`MCTrial`): `cancelUnready` is not reset when a run ends; after a run
  was released before it was ready, later failures are not counted and the
  sequencer is not rolled back.
* `TrialNothingToFail.cfg` (`MCTrial`): a leader that fails after the last operation, with no
  restarts left, makes the trial panic with "had nothing to fail".
* `TrialStaleSocket.cfg` (`MCTrial`): a socket accepted from a container that has exited stays in
  the map, and the next run is taken for ready one container early.
* `ResourcePoolToggle.cfg` (`MCResourcePool`): a slot disabled and enabled between the allocation and the start
  of a container is offered as free; the end of the container panics the pool.
* `ResourcePoolLeak.cfg` (`MCResourcePool`): the devices of an allocation that arrives after its trial was killed
  are never freed.
* `TaskListRevived.cfg` (`TaskList`): "Ignore this message if the command has exited"
  (`command.go:282`), but `c.task`, which is looked at, is never cleared: a command killed while its
  allocation is on its way is listed as terminated, and then starts its container all the same (`NeverRevived`).
* `ExperimentListSelection.cfg` (`ExperimentList`): a selected row may drop out of the list by a poll; the
  page then reads a field of `undefined` and the application goes blank.
* `DetailsFork.cfg` (`MCDetails`): after a fork, the answer to a call for the old experiment sets
  its timer in place of the new one, and the page polls the old experiment.

Definitions whose comment begins "Not the case" say the same of smaller things; add
one to the cfg of its module to see it. `OnlySelectedDrawn`: a message of the old
stream is drawn under the new metric's name. `FocusIsDrawn` (`LearningCurveChart.tsx:162`): the
focused line may be of an earlier set of trials, and a click then opens no trial or another.
`FinalPointsShown` (`api_experiment.go:930`): values reported between the last sample and the
end of the experiment are never sent. `AllClientsRenewed` of `Session` does not hold either:
`updateDetApi` leaves `StreamingInternal` with the key of the time the page was loaded.

Met while modelling, and described here only:

* A trial that has nothing to do and is then asked for nothing but a checkpoint it already has
  requests resources, completes the operation when it gets them, and fails, because
  `sequencer.Workload()` is asked for a workload when there is none (`trial.go:566-576`). No
  search method makes such a request; with `OpBatches` of a lone training and a lone
  checkpoint, TLC finds `CompletionsInOrder` violated in the instance of `Trial.cfg`.
* A request to kill a trial that has no task is answered with success and dropped
  (`trial.go:327`).
* A validation due by a `min_validation_period` that coincides with the end of a training
  operation also completes the `Validate` operation before a checkpoint, so a failure takes it
  back after the search has used it (`trial_workload_sequencer.go:307`; the exception in
  `OnlyTrainingTakenBack`).
* Saving a new trial fails after the allocation: containers are killed that were never started,
  nothing is reported and the trial keeps its resources (`trial.go:544`, `DBMayFail`).
* A slot disabled before its container starts panics, and its agent is lost with it
  (`slot.go:60`); an agent lost between allocation and start takes the start with it, and
  the task hears nothing more (`resource_pool.go:361`).
* A group is deleted in no fixed order with the release of its tasks (`round_robin.go:31`).
  `preoffers` is zeroed before it is subtracted (`fair_share.go:178`), and a sort compares by
  another slice than it sorts (`fair_share.go:222`). Stopped instances count as terminated but
  not as instances (`scale_decider.go:184`). An actor that closes removes its own address once for
  each child (`ref.go:307`). Searcher events are buffered, so a crash may lose events of operations already
  begun (`experiment.go:570`).
* A page that is left while its routine awaits goes on polling in the background
  (`usePolling.ts:22`): the modules have that, and no property excludes it.
* The wait after a batch reads the `isLoading` of an older render, and its interval is not
  cleared once the promise is rejected (`TaskList.tsx:217`).
* A log that is empty when its page is opened is never polled (`MasterLogs.tsx:28`), the
  first entry of the master's log is reached only as part of the tail, and a change of
  filter leaves the offset of the trial's page where it was (`TrialLogs.tsx:186`). When both first
  requests of the master's page fail it stays empty; when a request for older entries fails, `oldestFetchedId`
  stays and the page never asks for them again (`MasterLogs.tsx:22`). These are the exceptions in
  `CatchesUp`, `ReachesTheStart` and `NoGaps`.
* `onSettled` is not called after a TensorBoard was opened from a page's buttons
  (`ExperimentActions.tsx:121`); a form submitted twice makes two experiments; the best
  validation is looked for from 1 on (`ExperimentDetails.tsx:90`).

## 7. What is not modelled

* Replaying a trial after a restart of the master, and with it the experiment, the
  searcher and the event log: planned. A trial whose state in the database is terminal before its
  actor has stopped comes about only by that (`trial.go:1018`): otherwise only the actor's own
  `PostStop` writes such a state.
* A resource manager that refuses a trial's request (`trial.go:362`): its one error is an unknown
  pool (`forwardToPool`), and an experiment for one is not created (`ValidateRP`, `experiment.go:104`).
* Experiments that fail (`STOPPING_ERROR`, `ERROR`) in `ExperimentState` and the pages that use it.
* The fair-share and priority schedulers and, with them, preemption inside
  `ResourcePool` (in `Trial` the pool may preempt at any time): planned.
* Groups that end before their tasks; group settings; scaling information.
* The sampling and the numeric side of search methods; SQL; the HTTP and gRPC
  surface; the writing of logs; cloud and kubernetes APIs; training itself. These are
  input and output, or have no protocol of their own.
* Of the web interface: the dashboard, the cluster page and the page that waits for a
  notebook show what the contexts hold or reload until an address answers; labels
  are planned. Layout, charts other than the curves, formatting, themes, analytics
  and notifications are presentation. The generated API client stands for its
  requests. Decoders are modelled by what the pages keep of their results; input a
  decoder rejects is a request that fails. Cookies that expire, a second tab that shows the same lists, and storage
  that is full are not modelled.
* Requests are answered or fail: an answer that never comes is a failed one that no
  fairness forces, and only the liveness properties exclude it.

## 8. Plan

Done, in this order: sequencer with its proofs; trial; placement, round-robin
and the pool; polling and the list of experiments; session; tasks; logs; pages of an
experiment and a trial; learning curves; the proofs about polling, the session, the two
lists, the pages, the trial, the pool and the curves. Next:

1. `FairShare`, `Priority`: the two other schedulers as functions of `Fitting`'s
   pool, with `ReleaseResources` added to `ResourcePool`'s tick. Properties: no
   over-subscription, a released task is one the new allocation needs, shares add up, no
   endless preemption between two groups. Bounds: 3 tasks in 2 groups on 3 slots.
2. `Experiment`: state machine, searcher event log with its write buffer, restore.
   Abstract specification: a log of which a crash loses only an unflushed suffix.
   Properties: after a restore, replay reaches a state that trials' checkpoints agree
   with; no operation is completed twice; an experiment ends. It takes over the
   environment part `exp` and `echoes` of `Trial`. Bounds: 2 trials, 1 crash.
3. `AsyncHalving` (`asha.go`, `sha.go`): promotions are of the best of a rung, no trial
   twice in a rung, every trial is closed.
4. `RWCoordinator`: mutual exclusion of writers and the order of waiters, with a
   proof of mutual exclusion for any number of containers.
5. `ScaleDecider` and the kubernetes request queue.

6. `Labels` (`TagList.tsx`, `useExperimentTags.ts`): an optimistic list whose updates are sent as a
   whole, so that of two quick edits one may be lost.

New questions replace or join existing runs, so that the project stays at a dozen.

Proofs: `TruePicture` of `Logs` (the viewer's range covers every entry it holds).
