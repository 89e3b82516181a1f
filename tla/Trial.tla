------------------------------- MODULE Trial -------------------------------
(***************************************************************************)
(* The trial actor (master/internal/trial.go) with the parties it talks to:*)
(* its workload sequencer (module WorkloadSequencer, whose operators are   *)
(* used on the trial's own sequencer state), the resource pool that        *)
(* allocates and preempts it, the containers that run it, the websockets   *)
(* they open, and the experiment and user that steer it.                   *)
(*                                                                         *)
(* The actor handles one message of its inbox at a time.  A handler is an  *)
(* operator from the trial's fields to the trial's fields; what it sends   *)
(* is collected in "out" and takes effect in the same step.  The           *)
(* environment's steps append to the inbox, so an interleaving of messages *)
(* is an order in which the inbox was filled.  Replaying a trial after a   *)
(* restart of the master is not modelled: replaying is FALSE.              *)
(***************************************************************************)
EXTENDS Sequences, FiniteSets, Integers

CONSTANTS
    Configs,        \* the experiment's configuration, a singleton
    OpBatches,      \* operation sequences one message of the searcher may request
    MaxOps,         \* bound: operations requested of the trial
    MaxRollbacks,   \* max_restarts
    Ranks,          \* ranks of the containers of one run, 0 is the leader
    ExitReasons,    \* reasons the harness may stop early with
    MaxCrashes,     \* bound: containers and websockets failing by themselves
    MaxPreempts,    \* bound: ReleaseResources sent by the resource pool
    MaxPauses,      \* bound: times the user pauses the experiment
    MaxKills,       \* bound: times the user kills the trial
    CanCancel,      \* whether the user may cancel or kill the experiment
    LateDial,       \* whether a websocket request may be handled after its container exited
    DBMayFail       \* whether saving the new trial may fail

ASSUME TrialAssumption ==
    /\ \E c \in Configs : Configs = {c}
    /\ 0 \in Ranks /\ Ranks \subseteq Nat /\ IsFiniteSet(Ranks)
    /\ ExitReasons \subseteq {"NONE", "USER_CANCELED", "INVALID_HP"}
    /\ {MaxRollbacks, MaxCrashes, MaxPreempts, MaxPauses, MaxKills} \subseteq Nat
    /\ {CanCancel, LateDial, DBMayFail} \subseteq BOOLEAN

VARIABLES
    t,          \* the trial actor's fields
    inbox,      \* messages the actor has not handled yet
    boxes,      \* the containers ever started, by ID
    rm,         \* the resource pool's entry for the trial
    echoes,     \* runIDs of sendNextWorkload messages at the experiment
    timers,     \* runIDs of terminateTimeout messages not fired yet
    exp,        \* what the experiment has told the trial
    used        \* how much of each bound is used

vars == <<t, inbox, boxes, rm, echoes, timers, exp, used>>

Config == CHOOSE c \in Configs : TRUE

\* The sequencer of a trial x.
Sequencer(x) == INSTANCE WorkloadSequencer
    WITH cfg <- Config, ops <- x.ops, state <- x.state, snapshot <- x.snapshot,
         trialIDValid <- x.idSet, earlyExit <- x.earlyExit, up <- x.allocations # {},
         running <- x.state.latestCheckpoint, rollbacks <- x.restarts

\* The configuration and the operations are such as the sequencer is made for.
ASSUME SequencerAssumption ==
    /\ Configs \subseteq Sequencer([ops |-> <<>>])!ConfigType
    /\ OpBatches \subseteq Seq(Sequencer([ops |-> <<>>])!Ops)

UpToDate(x) == Sequencer(x)!UpToDate(x.state)
Workload(x) == Sequencer(x)!Workload(x.state)
NeedsCheckpoint(x) == Sequencer(x)!PrecloseCheckpointNeeded(x.state)
PrecloseCheckpoint(x) == Sequencer(x)!checkpoint(x.state)

SequencerOf(x) == [state |-> x.state, snapshot |-> x.snapshot]
WithSequencer(x, r) == [x EXCEPT !.state = r.state, !.snapshot = r.snapshot]

\* A container is known by the allocation request it was started for and its rank.
Containers(task) == {task} \X Ranks
IsLeader(c) == c[2] = 0

TERMINATE == [Kind |-> "TERMINATE"]

Nothing == <<>>

Msg(type) == [type |-> type]
MsgFrom(type, c) == [type |-> type, from |-> c]
MsgOf(type, x) == [type |-> type, of |-> x]

Send(x, m) == [x EXCEPT !.out = @ \cup {m}]

Sent(x, type) == {m \in x.out : m.type = type}

-----------------------------------------------------------------------------
(* Ending a run. *)

\* How the leader's exit is judged; "none" is no failure.
classifyStatus(s) ==
    IF s.exit = "fail" \/ ~s.pendingGracefulTermination \/ s.needsCheckpoint
    THEN "failed" ELSE "none"

\* The status of a run: of its leader, if anything was started.
RunStatus(x) ==
    LET leaders == {c \in DOMAIN x.terminatedContainers : IsLeader(c)}
    IN  IF x.startedContainers = {} THEN "aborted"
        ELSE IF leaders = {} THEN "failed"
        ELSE classifyStatus(x.terminatedContainers[CHOOSE c \in leaders : TRUE])

\* Mutated form: the exits of the run are not forgotten.
ResetRunKeepsExits(x) ==
    [x EXCEPT !.runID = @ + 1, !.task = 0, !.allocations = {}, !.containerRanks = {},
              !.allReadySucceeded = FALSE, !.pendingGracefulTermination = FALSE,
              !.terminationSent = FALSE, !.startedContainers = {},
              !.out = @ \cup {Msg("ResourcesReleased")}]

\* The fields terminated() resets; cancelUnready is not among them.
ResetRun(x) ==
    [x EXCEPT !.runID = @ + 1, !.task = 0, !.allocations = {}, !.containerRanks = {},
              !.allReadySucceeded = FALSE, !.pendingGracefulTermination = FALSE,
              !.terminationSent = FALSE, !.terminatedContainers = Nothing,
              !.startedContainers = {}, !.out = @ \cup {Msg("ResourcesReleased")}]

\* Mutated form: the sequencer keeps what was trained since the checkpoint.
RestoreNothing(x) == x

\* The trial goes on from its latest checkpoint, if it is in the database.  That
\* its state there is terminal, which makes restore stop the actor, can only be
\* after a restart of the master: while the actor is up, only its own PostStop
\* writes such a state.
restore(x) == IF x.idSet THEN [x EXCEPT !.state = x.snapshot] ELSE x

\* A completed message whose workload is not the one that is due; a checkpoint
\* is always accepted.
Illegal(x, w) ==
    w.Kind # "CHECKPOINT_MODEL" /\ (UpToDate(x) \/ w # Workload(x))

\* WorkloadCompleted and CompleteCachedCheckpoints.
RecordCompleted(x, w, reason, isBest) ==
    LET r == Sequencer(x)!CompleteCachedCheckpoints(
                 Sequencer(x)!WorkloadCompleted(SequencerOf(x), w, reason, isBest))
    IN  [WithSequencer(x, r) EXCEPT !.earlyExit = @ \/ reason # "NONE"]

\* The last failure: what was due is recorded as errored, and the trial closes.
FailForGood(x) ==
    IF ~UpToDate(x) THEN RecordCompleted(x, Workload(x), "ERRORED", FALSE)
    ELSE IF NeedsCheckpoint(x) THEN RecordCompleted(x, PrecloseCheckpoint(x), "ERRORED", FALSE)
    ELSE [x EXCEPT !.status = "panicked"]

terminated(x) ==
    LET status  == RunStatus(x)
        y       == ResetRun(x)
        ignored == x.terminationSent \/ x.cancelUnready \/ x.killed \/ status = "aborted"
        z       == [y EXCEPT !.restarts = @ + 1]
    IN  IF status = "none" \/ ignored THEN y
        ELSE IF z.restarts <= MaxRollbacks THEN restore(z)
        ELSE FailForGood(z)

\* Mutated form: the actor is not woken up after it gave its resources back.
TerminateNoWakeup(x, kill) ==
    IF x.allocations = {} THEN terminated(x)
    ELSE IF kill THEN (IF x.task # 0 THEN Send(x, Msg("Kill")) ELSE x)
    ELSE [x EXCEPT !.pendingGracefulTermination = TRUE]

\* A signal to every container of the run, or a graceful stop after the
\* current workload; a run without resources ends at once.
terminate(x, kill) ==
    IF x.allocations = {} THEN Send(terminated(x), Msg("trialAborted"))
    ELSE IF kill THEN (IF x.task # 0 THEN Send(x, Msg("Kill")) ELSE x)
    ELSE [x EXCEPT !.pendingGracefulTermination = TRUE]

\* allReady: all containers are running and have connected.
allReady(x) ==
    \/ x.allReadySucceeded
    \/ /\ Cardinality(x.containers) >= Cardinality(x.allocations)
       /\ Cardinality(x.containerSockets) = Cardinality(x.allocations)

releaseResource(x) ==
    IF allReady(x) THEN terminate([x EXCEPT !.allReadySucceeded = TRUE], FALSE)
    ELSE terminate([x EXCEPT !.cancelUnready = TRUE], TRUE)

-----------------------------------------------------------------------------
(* Messages of the resource pool. *)

\* saved is what became of a trial that was not in the database yet: "yes", or
\* the trial ("no") or its zeroth step ("step") could not be saved.
processAllocated(x, task, saved) ==
    LET y == [x EXCEPT !.allocations = Containers(task)]
        i == [y EXCEPT !.idSet = TRUE]
        r == WithSequencer(i, Sequencer(i)!CompleteCachedCheckpoints(SequencerOf(i)))
    IN  IF task # x.task THEN x
        ELSE IF ~x.idSet /\ saved = "no" THEN terminate(y, TRUE)
        ELSE IF ~x.idSet /\ saved = "step" /\ Config.performInitialValidation
        THEN terminate(i, TRUE)
        ELSE IF UpToDate(r) THEN [r EXCEPT !.status = "failed"]
        ELSE Send([r EXCEPT !.containerRanks = Containers(task)], MsgOf("Start", Workload(r)))

-----------------------------------------------------------------------------
(* Workloads. *)

\* Mutated form: a run that is being suspended is not checkpointed.
SendNextNoPreclose(x) ==
    IF ~x.pendingGracefulTermination /\ ~UpToDate(x) THEN Send(x, MsgOf("Run", Workload(x)))
    ELSE LET y == [terminate(x, FALSE) EXCEPT !.terminationSent = TRUE]
         IN  Send(Send(y, MsgOf("Run", TERMINATE)), MsgOf("terminateTimeout", y.runID))

\* The next workload, a checkpoint before the run ends, or TERMINATE.
sendNextWorkload(x) ==
    IF ~x.pendingGracefulTermination /\ ~UpToDate(x) THEN Send(x, MsgOf("Run", Workload(x)))
    ELSE IF NeedsCheckpoint(x) THEN Send(x, MsgOf("Run", PrecloseCheckpoint(x)))
    ELSE LET y == [terminate(x, FALSE) EXCEPT !.terminationSent = TRUE]
         IN  Send(Send(y, MsgOf("Run", TERMINATE)), MsgOf("terminateTimeout", y.runID))

\* Mutated form: the search method is not asked before the run goes on.
ProcessCompletedNoSync(x, m, isBest) ==
    LET y == RecordCompleted(x, m.of, m.reason, isBest)
    IN  IF Illegal(x, m.of) THEN [x EXCEPT !.status = "failed"]
        ELSE IF y.state.curOpIdx # x.state.curOpIdx THEN y
        ELSE sendNextWorkload(y)

\* A completed operation is first synchronised with the searcher through the
\* experiment; otherwise the run goes on at once.
processCompletedWorkload(x, m, isBest) ==
    LET y == RecordCompleted(x, m.of, m.reason, isBest)
    IN  IF Illegal(x, m.of) THEN [x EXCEPT !.status = "failed"]
        ELSE IF y.state.curOpIdx # x.state.curOpIdx
        THEN Send(y, MsgOf("sendNextWorkload", y.runID))
        ELSE sendNextWorkload(y)

-----------------------------------------------------------------------------
(* Messages about containers. *)

\* Rendezvous information goes to every running container once all are ready;
\* writing to a container without a socket is a nil dereference.
pushRendezvous(x) ==
    IF ~allReady(x) THEN x
    ELSE IF x.containers \subseteq x.containerSockets
    THEN Send([x EXCEPT !.allReadySucceeded = TRUE], MsgOf("Rendezvous", x.containers))
    ELSE [x EXCEPT !.allReadySucceeded = TRUE, !.status = "panicked"]

\* A connection of a container that is not of this run is refused.
processContainerConnected(x, c) ==
    IF c \notin x.containerRanks THEN x
    ELSE pushRendezvous(
             Send([x EXCEPT !.containerSockets = @ \cup {c}], MsgFrom("Accept", c)))

\* Mutated form: only connections push the rendezvous information.
RunningNoRendezvous(x, c) ==
    [x EXCEPT !.startedContainers = @ \cup {c}, !.containers = @ \cup {c}]

processContainerRunning(x, c) ==
    pushRendezvous([x EXCEPT !.startedContainers = @ \cup {c}, !.containers = @ \cup {c}])

\* Mutated form: the socket is forgotten but its actor is not killed.
RemoveSocketOnly(x, c) == [x EXCEPT !.containerSockets = @ \ {c}]

\* The socket actor of a container is killed: its later messages are ignored.
killAndRemoveSocket(x, c) ==
    IF c \in x.containerSockets
    THEN [x EXCEPT !.containerSockets = @ \ {c}, !.deadChildren = @ \cup {c}]
    ELSE x

\* What the trial remembers of a container's exit.
TerminatedContainer(x, exit) ==
    [exit |-> exit, pendingGracefulTermination |-> x.pendingGracefulTermination,
     needsCheckpoint |-> NeedsCheckpoint(x)]

Put(f, c, v) == [d \in DOMAIN f \cup {c} |-> IF d = c THEN v ELSE f[d]]

\* Mutated form: the leader's exit ends the run, whatever still runs.
ProcessTerminatedLeaderOnly(x, c, exit) ==
    LET y == killAndRemoveSocket(
                 [x EXCEPT !.startedContainers = @ \cup {c},
                           !.terminatedContainers = Put(@, c, TerminatedContainer(x, exit)),
                           !.containers = @ \ {c}], c)
        z == IF c \notin x.containers \/ IsLeader(c) \/ exit = "fail"
             THEN terminate(y, TRUE) ELSE y
    IN  IF IsLeader(c) THEN terminated(z) ELSE z

\* The exit of the leader, a failure, or an exit before the container was seen
\* running takes the whole run down; the run ends with its last container.
processContainerTerminated(x, c, exit) ==
    LET y == killAndRemoveSocket(
                 [x EXCEPT !.startedContainers = @ \cup {c},
                           !.terminatedContainers = Put(@, c, TerminatedContainer(x, exit)),
                           !.containers = @ \ {c}], c)
        z == IF c \notin x.containers \/ IsLeader(c) \/ exit = "fail"
             THEN terminate(y, TRUE) ELSE y
    IN  IF Cardinality(DOMAIN z.terminatedContainers) = Cardinality(z.allocations)
        THEN terminated(z) ELSE z

-----------------------------------------------------------------------------
(* Receive. *)

\* The trial treats all of them alike.
StoppingStates == {"STOPPING_CANCELED", "STOPPING_COMPLETED", "STOPPING_ERROR"}

trialClosing(x) ==
    \/ x.earlyExit
    \/ x.killed
    \/ x.restarts > MaxRollbacks
    \/ x.close /\ UpToDate(x)
    \/ x.experimentState \in StoppingStates

\* Mutated form: a closing trial stops without waiting for its run.
AfterMessageNoWait(x) ==
    IF trialClosing(x) THEN Send(x, Msg("stop"))
    ELSE IF x.task = 0
    THEN IF ~UpToDate(x) /\ x.experimentState = "ACTIVE"
         THEN Send([x EXCEPT !.task = x.runID + 1], Msg("AllocateRequest"))
         ELSE x
    ELSE IF x.experimentState # "ACTIVE" THEN releaseResource(x)
    ELSE x

\* What follows every message the actor handles without an error.  Each run has
\* one request, so runID + 1 stands for a new task ID.  The request is accepted:
\* the manager's one error is for a pool it does not know (forwardToPool), and
\* newExperiment makes no trial for such a pool (ValidateRP).
AfterMessage(x) ==
    IF x.status # "up" THEN x
    ELSE IF x.task = 0
    THEN IF trialClosing(x) THEN Send(x, Msg("stop"))
         ELSE IF ~UpToDate(x) /\ x.experimentState = "ACTIVE"
         THEN Send([x EXCEPT !.task = x.runID + 1], Msg("AllocateRequest"))
         ELSE x
    ELSE IF x.experimentState # "ACTIVE" THEN releaseResource(x)
    ELSE x

NewBox(x, c, w) ==
    [st |-> "pulling", exit |-> "none", kill |-> FALSE, reports |-> <<>>,
     socket |-> "none", ready |-> FALSE, done |-> <<>>,
     jobs |-> IF IsLeader(c) THEN <<w>> ELSE <<>>,
     model |-> x.state.latestCheckpoint.TotalBatchesProcessed]

\* Container c after the trial x sent its messages.  A workload is written to
\* the sockets that are open; only the leader runs workloads, all terminate.  A
\* killed socket actor does not relay what it did not read.
BoxAfter(x, c, b) ==
    LET written == {m.of : m \in Sent(x, "Run")}
        gets    == {w \in written : IsLeader(c) \/ w = TERMINATE}
    IN  [b EXCEPT
            !.kill = @ \/ (Sent(x, "Kill") # {} /\ c \in t.allocations \cup x.allocations),
            !.socket = IF MsgFrom("Accept", c) \in x.out THEN "open" ELSE @,
            !.ready = b.st # "exited" /\ (@ \/ \E m \in Sent(x, "Rendezvous") : c \in m.of),
            !.done = IF c \in x.deadChildren THEN <<>> ELSE @,
            !.jobs = IF gets # {} /\ b.socket = "open" /\ c \in x.containerSockets
                     THEN Append(@, CHOOSE w \in gets : TRUE) ELSE @]

\* Everything the trial x sent takes effect: at the agents, at the resource
\* pool (a release before a new request), at the experiment, and in its inbox.
Effects(x) ==
    LET starts == Sent(x, "Start")
        fresh  == IF starts = {} THEN {} ELSE x.containerRanks
    IN  /\ boxes' = [c \in DOMAIN boxes \cup fresh |->
                        IF c \in DOMAIN boxes THEN BoxAfter(x, c, boxes[c])
                        ELSE NewBox(x, c, (CHOOSE m \in starts : TRUE).of)]
        /\ rm' = IF Sent(x, "AllocateRequest") # {} THEN [task |-> x.task, placed |-> FALSE]
                 ELSE IF Sent(x, "ResourcesReleased") # {} THEN [task |-> 0, placed |-> FALSE]
                 ELSE rm
        /\ echoes' = echoes \o [i \in 1 .. Cardinality(Sent(x, "sendNextWorkload")) |-> x.runID]
        /\ timers' = timers \cup {m.of : m \in Sent(x, "terminateTimeout")}
        /\ inbox' = Tail(inbox)
                    \o (IF Sent(x, "trialAborted") # {} THEN <<Msg("trialAborted")>> ELSE <<>>)
                    \o (IF Sent(x, "stop") # {} THEN <<Msg("stop")>> ELSE <<>>)
        /\ t' = [x EXCEPT !.out = {}]
        /\ UNCHANGED <<exp, used>>

\* The first message of the inbox is of a type, and not from a dead child.
Received(type) ==
    /\ t.status = "up" /\ inbox # <<>> /\ Head(inbox).type = type
    /\ type \in {"Completed", "ChildFailed"} => Head(inbox).from \notin t.deadChildren

\* The end of Receive: x is the trial after the message's own handler.
Handled(x) == \E y \in {x} : \E z \in {AfterMessage(y)} : Effects(z)

\* A message that is only looked at while the trial has a task.
RunningReceive(x) == Handled(IF t.task # 0 THEN x ELSE t)

ReceiveFromDeadChild ==
    /\ t.status = "up" /\ inbox # <<>>
    /\ Head(inbox).type \in {"Completed", "ChildFailed"}
    /\ Head(inbox).from \in t.deadChildren
    /\ inbox' = Tail(inbox)
    /\ UNCHANGED <<t, boxes, rm, echoes, timers, exp, used>>

ReceiveState ==
    /\ Received("State")
    /\ Handled([t EXCEPT !.experimentState = Head(inbox).of])

ReceiveOperations ==
    /\ Received("Operations")
    /\ Handled([t EXCEPT !.ops = @ \o Head(inbox).of])

ReceiveClose ==
    /\ Received("Close")
    /\ Handled([t EXCEPT !.close = TRUE])

ReceiveAborted ==
    /\ Received("trialAborted")
    /\ Handled(t)

ReceiveAllocated ==
    /\ Received("ResourcesAllocated")
    /\ \E saved \in IF DBMayFail THEN {"yes", "no", "step"} ELSE {"yes"} :
          RunningReceive(processAllocated(t, Head(inbox).of, saved))

ReceiveRelease ==
    /\ Received("ReleaseResources")
    /\ RunningReceive(releaseResource(t))

ReceiveConnected ==
    /\ Received("containerConnected")
    /\ RunningReceive(processContainerConnected(t, Head(inbox).from))

ReceiveStateChanged ==
    /\ Received("StateChanged")
    /\ LET m == Head(inbox)
       IN  RunningReceive(IF m.of = "running" THEN processContainerRunning(t, m.from)
                          ELSE processContainerTerminated(t, m.from, m.of))

ReceiveCompleted ==
    /\ Received("Completed")
    /\ \E isBest \in BOOLEAN : RunningReceive(processCompletedWorkload(t, Head(inbox), isBest))

\* Mutated form: an echo of an earlier run is obeyed.
ReceiveSendNextWorkloadAnyRun ==
    /\ Received("sendNextWorkload")
    /\ RunningReceive(sendNextWorkload(t))

ReceiveSendNextWorkload ==
    /\ Received("sendNextWorkload")
    /\ RunningReceive(IF Head(inbox).of = t.runID THEN sendNextWorkload(t) ELSE t)

ReceiveChildFailed ==
    /\ Received("ChildFailed")
    /\ RunningReceive(terminate(t, TRUE))

ReceiveKill ==
    /\ Received("killTrial")
    /\ RunningReceive(terminate([t EXCEPT !.killed = TRUE], TRUE))

\* Mutated form: the timeout of an earlier run kills this one.
ReceiveTerminateTimeoutAnyRun ==
    /\ Received("terminateTimeout")
    /\ RunningReceive(terminate(t, TRUE))

ReceiveTerminateTimeout ==
    /\ Received("terminateTimeout")
    /\ RunningReceive(IF Head(inbox).of = t.runID THEN terminate(t, TRUE) ELSE t)

ReceiveStop ==
    /\ Received("stop")
    /\ t' = [t EXCEPT !.status = "stopped"]
    /\ inbox' = <<>>
    /\ UNCHANGED <<boxes, rm, echoes, timers, exp, used>>

Receive ==
    \/ ReceiveFromDeadChild
    \/ ReceiveState \/ ReceiveOperations \/ ReceiveClose \/ ReceiveAborted
    \/ ReceiveAllocated \/ ReceiveRelease
    \/ ReceiveConnected \/ ReceiveStateChanged
    \/ ReceiveCompleted \/ ReceiveSendNextWorkload
    \/ ReceiveChildFailed \/ ReceiveKill \/ ReceiveTerminateTimeout
    \/ ReceiveStop

-----------------------------------------------------------------------------
(* The environment.  Nothing is looked at once the actor is gone. *)

Up == t.status = "up"

Deliver(m) == inbox' = Append(inbox, m)

Use(bound) == used' = [used EXCEPT ![bound] = @ + 1]

\* The resource pool places the request, and may preempt it once it is placed.
Allocate ==
    /\ Up /\ rm.task # 0 /\ ~rm.placed
    /\ rm' = [rm EXCEPT !.placed = TRUE]
    /\ Deliver(MsgOf("ResourcesAllocated", rm.task))
    /\ UNCHANGED <<t, boxes, echoes, timers, exp, used>>

Preempt ==
    /\ Up /\ rm.placed /\ used.preempts < MaxPreempts
    /\ Use("preempts")
    /\ Deliver(Msg("ReleaseResources"))
    /\ UNCHANGED <<t, boxes, rm, echoes, timers, exp>>

\* The agent: a container that was pulled runs, a signalled one exits (cleanly
\* when it was only being pulled), and both are reported in order.
BoxRuns(c) ==
    /\ Up /\ boxes[c].st = "pulling"
    /\ boxes' = [boxes EXCEPT ![c].st = "running", ![c].reports = Append(@, "running")]
    /\ UNCHANGED <<t, inbox, rm, echoes, timers, exp, used>>

BoxExits(c, exit) ==
    boxes' = [boxes EXCEPT ![c].st = "exited", ![c].exit = exit, ![c].reports = Append(@, exit),
                           ![c].jobs = <<>>, ![c].ready = FALSE, ![c].model = 0]

BoxKilled(c) ==
    /\ Up /\ boxes[c].kill /\ boxes[c].st # "exited"
    /\ BoxExits(c, IF boxes[c].st = "pulling" THEN "ok" ELSE "fail")
    /\ UNCHANGED <<t, inbox, rm, echoes, timers, exp, used>>

BoxCrashes(c, exit) ==
    /\ Up /\ boxes[c].st # "exited" /\ ~boxes[c].kill /\ used.crashes < MaxCrashes
    /\ boxes[c].st = "pulling" => exit = "fail"
    /\ Use("crashes")
    /\ BoxExits(c, exit)
    /\ UNCHANGED <<t, inbox, rm, echoes, timers, exp>>

Report(c) ==
    /\ Up /\ boxes[c].reports # <<>>
    /\ boxes' = [boxes EXCEPT ![c].reports = Tail(@)]
    /\ Deliver([type |-> "StateChanged", from |-> c, of |-> Head(boxes[c].reports)])
    /\ UNCHANGED <<t, rm, echoes, timers, exp, used>>

\* The harness in a container: it connects, the leader runs its workloads once
\* it has the rendezvous information, and TERMINATE makes it exit.
Dial(c) ==
    /\ Up /\ boxes[c].socket = "none"
    /\ \/ boxes[c].st = "running"
       \/ LateDial /\ boxes[c].st = "exited"
    /\ boxes' = [boxes EXCEPT ![c].socket = "dialed"]
    /\ Deliver(MsgFrom("containerConnected", c))
    /\ UNCHANGED <<t, rm, echoes, timers, exp, used>>

Work(c, reason) ==
    LET b == boxes[c]
    IN  /\ Up /\ b.st = "running" /\ b.ready /\ b.jobs # <<>>
        /\ Head(b.jobs) # TERMINATE
        /\ Head(b.jobs).Kind = "CHECKPOINT_MODEL" => reason = "NONE"
        /\ boxes' = [boxes EXCEPT
               ![c].jobs = Tail(@),
               ![c].done = Append(@, [of |-> Head(b.jobs), reason |-> reason]),
               ![c].model = @ + Head(b.jobs).NumBatches]
        /\ UNCHANGED <<t, inbox, rm, echoes, timers, exp, used>>

Quit(c) ==
    /\ Up /\ boxes[c].st = "running" /\ boxes[c].jobs # <<>>
    /\ Head(boxes[c].jobs) = TERMINATE
    /\ BoxExits(c, "ok")
    /\ UNCHANGED <<t, inbox, rm, echoes, timers, exp, used>>

\* The websocket actor of a container relays what it reads, and fails when the
\* connection breaks: with its container, or by itself.
Relay(c) ==
    /\ Up /\ boxes[c].socket = "open" /\ boxes[c].done # <<>> /\ c \notin t.deadChildren
    /\ boxes' = [boxes EXCEPT ![c].done = Tail(@)]
    /\ Deliver([type |-> "Completed", from |-> c,
                of |-> Head(boxes[c].done).of, reason |-> Head(boxes[c].done).reason])
    /\ UNCHANGED <<t, rm, echoes, timers, exp, used>>

SocketBreaks(c) ==
    /\ Up /\ boxes[c].socket = "open" /\ c \notin t.deadChildren
    /\ \/ boxes[c].st = "exited" /\ UNCHANGED used
       \/ boxes[c].st = "running" /\ used.crashes < MaxCrashes /\ Use("crashes")
    /\ boxes' = [boxes EXCEPT ![c].socket = "broken"]
    /\ Deliver(MsgFrom("ChildFailed", c))
    /\ UNCHANGED <<t, rm, echoes, timers, exp>>

\* The experiment: operations as the search method decides (it closes a trial with
\* the last operations or once they completed), state changes as the user asks, and sendNextWorkload sent back.
RequestOperations(batch, close) ==
    /\ Up /\ ~exp.closed /\ exp.ops + Len(batch) <= MaxOps
    /\ exp' = [exp EXCEPT !.ops = @ + Len(batch), !.closed = close]
    /\ inbox' = inbox \o <<MsgOf("Operations", batch)>>
                      \o (IF close THEN <<Msg("Close")>> ELSE <<>>)
    /\ UNCHANGED <<t, boxes, rm, echoes, timers, used>>

RequestClose ==
    /\ Up /\ ~exp.closed /\ exp.ops > 0 /\ t.state.curOpIdx = exp.ops
    /\ exp' = [exp EXCEPT !.closed = TRUE]
    /\ Deliver(Msg("Close"))
    /\ UNCHANGED <<t, boxes, rm, echoes, timers, used>>

Echo ==
    /\ Up /\ echoes # <<>>
    /\ echoes' = Tail(echoes)
    /\ Deliver(MsgOf("sendNextWorkload", Head(echoes)))
    /\ UNCHANGED <<t, boxes, rm, timers, exp, used>>

Pause ==
    /\ Up /\ exp.state = "ACTIVE" /\ used.pauses < MaxPauses
    /\ Use("pauses")
    /\ exp' = [exp EXCEPT !.state = "PAUSED"]
    /\ Deliver(MsgOf("State", "PAUSED"))
    /\ UNCHANGED <<t, boxes, rm, echoes, timers>>

Activate ==
    /\ Up /\ exp.state = "PAUSED"
    /\ exp' = [exp EXCEPT !.state = "ACTIVE"]
    /\ Deliver(MsgOf("State", "ACTIVE"))
    /\ UNCHANGED <<t, boxes, rm, echoes, timers, used>>

\* Cancelling the experiment tells the trial its state; killing it also kills the trial.
Cancel(kill) ==
    /\ Up /\ CanCancel /\ exp.state # "STOPPING_CANCELED"
    /\ exp' = [exp EXCEPT !.state = "STOPPING_CANCELED"]
    /\ inbox' = inbox \o <<MsgOf("State", "STOPPING_CANCELED")>>
                      \o (IF kill THEN <<Msg("killTrial")>> ELSE <<>>)
    /\ UNCHANGED <<t, boxes, rm, echoes, timers, used>>

\* A request names the trial by its ID.
Kill ==
    /\ Up /\ t.idSet /\ used.kills < MaxKills
    /\ Use("kills")
    /\ Deliver(Msg("killTrial"))
    /\ UNCHANGED <<t, boxes, rm, echoes, timers, exp>>

\* The delayed terminateTimeout of NotifyAfter.
TimeoutFires(r) ==
    /\ Up /\ r \in timers
    /\ timers' = timers \ {r}
    /\ Deliver(MsgOf("terminateTimeout", r))
    /\ UNCHANGED <<t, boxes, rm, echoes, exp, used>>

-----------------------------------------------------------------------------

\* newTrial
NewTrial ==
    LET new == Sequencer([ops |-> <<>>])!NewState(Config)
    IN  [status |-> "up", ops |-> <<>>, state |-> new,
         snapshot |-> new, idSet |-> FALSE, close |-> FALSE,
         experimentState |-> "ACTIVE", restarts |-> 0, runID |-> 0, earlyExit |-> FALSE,
         pendingGracefulTermination |-> FALSE, terminationSent |-> FALSE,
         cancelUnready |-> FALSE, killed |-> FALSE, task |-> 0, allocations |-> {},
         startedContainers |-> {}, containers |-> {}, containerRanks |-> {},
         containerSockets |-> {}, terminatedContainers |-> Nothing,
         allReadySucceeded |-> FALSE, deadChildren |-> {}, out |-> {}]

Init ==
    /\ t = NewTrial
    /\ inbox = <<>>
    /\ boxes = Nothing
    /\ rm = [task |-> 0, placed |-> FALSE]
    /\ echoes = <<>>
    /\ timers = {}
    /\ exp = [ops |-> 0, closed |-> FALSE, state |-> "ACTIVE"]
    /\ used = [crashes |-> 0, preempts |-> 0, pauses |-> 0, kills |-> 0]

Agents ==
    \E c \in DOMAIN boxes :
        \/ BoxRuns(c) \/ BoxKilled(c) \/ \E exit \in {"ok", "fail"} : BoxCrashes(c, exit)
        \/ Report(c)

Harnesses ==
    \E c \in DOMAIN boxes :
        \/ Dial(c) \/ Quit(c) \/ Relay(c) \/ SocketBreaks(c)
        \/ \E reason \in ExitReasons : Work(c, reason)

Experiment ==
    \/ \E batch \in OpBatches, close \in BOOLEAN : RequestOperations(batch, close)
    \/ RequestClose \/ Echo \/ Pause \/ Activate \/ Kill
    \/ \E kill \in BOOLEAN : Cancel(kill)

Next ==
    \/ Receive
    \/ Allocate \/ Preempt
    \/ Agents \/ Harnesses \/ Experiment
    \/ \E r \in timers : TimeoutFires(r)

Spec == Init /\ [][Next]_vars

\* Whoever has something to do and was not asked to by the user: the actor, the
\* experiment, the resource pool, agents, harnesses and timers.  Containers
\* crash, sockets break and the pool preempts at will.
Progress ==
    \/ Receive \/ Echo \/ Allocate
    \/ \E r \in timers : TimeoutFires(r)
    \/ \E c \in DOMAIN boxes :
          \/ BoxRuns(c) \/ BoxKilled(c) \/ Report(c) \/ Dial(c) \/ Quit(c) \/ Relay(c)
          \/ \E reason \in ExitReasons : Work(c, reason)

FairSpec == Spec /\ WF_vars(Progress)

-----------------------------------------------------------------------------
(* Properties. *)

Leader == <<t.task, 0>>

Alive(c) == boxes[c].st # "exited"

TypeOK ==
    /\ t.status \in {"up", "stopped", "failed", "panicked"}
    /\ t.task \in {0, t.runID + 1}
    /\ t.allocations \in {{}, Containers(t.task)}
    /\ t.containerRanks \subseteq t.allocations
    /\ t.containers \subseteq DOMAIN boxes
    /\ t.containerSockets \subseteq DOMAIN boxes
    /\ DOMAIN t.terminatedContainers \subseteq t.containerRanks
    /\ t.restarts \in 0 .. MaxRollbacks + 1
    /\ t.out = {}
    /\ rm.task \in {0, t.task}
    /\ timers \subseteq 0 .. t.runID
    /\ \A c \in DOMAIN boxes : boxes[c].st \in {"pulling", "running", "exited"}

\* A run is over for the trial only when its containers are: containers of two
\* runs of the trial never exist at the same time, and the resources of a
\* container that exists are not released.
OneRunAtATime == \A c \in DOMAIN boxes : Alive(c) => c \in t.allocations /\ rm.task = c[1]

\* The leader has one thing to do at a time: a workload, its completion on the
\* way to the trial, or the answer of the experiment that the trial waits for.
InFlight ==
    LET b == boxes[Leader]
        completions == {i \in 1 .. Len(inbox) : inbox[i].type = "Completed" /\ inbox[i].from = Leader}
        resyncs == {i \in 1 .. Len(inbox) : inbox[i] = MsgOf("sendNextWorkload", t.runID)}
        asked == {i \in 1 .. Len(echoes) : echoes[i] = t.runID}
    IN  Len(b.jobs) + Len(b.done) + Cardinality(completions)
           + Cardinality(resyncs) + Cardinality(asked)

OneWorkloadInFlight == Up /\ Leader \in DOMAIN boxes /\ Alive(Leader) => InFlight <= 1

\* The batches the sequencer counts are in the model the leader holds: the
\* leader loaded the sequencer's checkpoint and trained every batch counted
\* since, whatever failed, was suspended or preempted in between.
ModelInStep ==
    Up /\ Leader \in DOMAIN boxes /\ Alive(Leader) =>
        LET ahead == {i \in 1 .. Len(inbox) : inbox[i].type = "Completed" /\ inbox[i].from = Leader}
        IN  ahead = {} /\ boxes[Leader].done = <<>>
            => boxes[Leader].model = t.state.totalBatchesProcessed

\* As above, as long as no run was cancelled before it was ready.
ModelInStepUnlessCancelled == ~t.cancelUnready => ModelInStep

\* Only failures count against max_restarts: a trial that is suspended, preempted
\* and resumed, with its late echoes and timeouts, is not charged with a restart.
RestartsAreFailures == t.restarts <= used.crashes

\* A trial that stopped leaves no container running and holds no resources.
StopsClean == t.status = "stopped" => rm.task = 0 /\ \A c \in DOMAIN boxes : ~Alive(c)

\* The trial's own consistency checks hold: no completed workload is illegal, and
\* a run that is started has a workload.
NeverFails == t.status # "failed"

\* allReady holds "if and only if all the containers are reported to be started
\* and their sockets to be connected": it is never true of a run that has a
\* container that did not connect.
AllReadyMeansConnected ==
    t.allReadySucceeded => \A c \in t.containerRanks :
        c \in t.containerSockets \/ c \in DOMAIN t.terminatedContainers

\* "trial terminated due to failure but had nothing to fail" does not happen.
AlwaysSomethingToFail == t.status # "panicked"

\* A trial whose experiment is stopping ends.
StopsWhenTold == (t.experimentState \in StoppingStates) ~> (t.status # "up")

\* The resources of a trial that is not to run are given back.
PausedReleases == (t.experimentState = "PAUSED") ~> (t.task = 0 \/ t.experimentState # "PAUSED" \/ ~Up)

\* A trial that may run completes what is requested of it, or ends.
WorkGetsDone == <>[](~Up \/ UpToDate(t) \/ t.experimentState # "ACTIVE")

\* "restarts is essentially a failure count, it increments when the trial fails and
\* we retry it": so it does when the leader fails by itself in a run that was not
\* being terminated.
FailuresCounted ==
    [][/\ t.task # 0 /\ t'.runID # t.runID /\ ~t.terminationSent /\ ~t.killed
       /\ Leader \in DOMAIN boxes /\ boxes[Leader].exit = "fail" /\ ~boxes[Leader].kill
       => t'.restarts = t.restarts + 1]_vars

\* Workloads and their completions alternate, through restarts, echoes and late
\* messages: never two in flight, and no completion is refused as illegal.
CompletionsInOrder == OneWorkloadInFlight /\ NeverFails

\* What the experiment asks for, to stop or to pause, is done.
StatesHonoured == StopsWhenTold /\ PausedReleases
=============================================================================
