---------------------------- MODULE TrialProofs ----------------------------
(***************************************************************************)
(* Proofs about Trial, for every number of containers, every sequence of   *)
(* operations and every bound.                                             *)
(***************************************************************************)
EXTENDS Trial, FiniteSetTheorems, SequenceTheorems, TLAPS

(***************************************************************************)
(* The inductive invariant.                                                *)
(***************************************************************************)
TrialFields ==
    {"status", "ops", "state", "snapshot", "idSet", "close", "experimentState", "restarts",
     "runID", "earlyExit", "pendingGracefulTermination", "terminationSent", "cancelUnready",
     "killed", "task", "allocations", "startedContainers", "containers", "containerRanks",
     "containerSockets", "terminatedContainers", "allReadySucceeded", "deadChildren", "out"}

IsTrial(x) == DOMAIN x = TrialFields

BoxFields == {"st", "exit", "kill", "reports", "socket", "ready", "done", "jobs", "model"}

\* The elements of a sequence come from no set fixed beforehand.
IsSeq(s) == s \in Seq({s[i] : i \in DOMAIN s})

\* A run has one request; it has resources once, and then containers or none.
RunOK(x) ==
    /\ IsTrial(x)
    /\ x.status \in {"up", "stopped", "failed", "panicked"}
    /\ x.runID \in Nat
    /\ x.task \in {0, x.runID + 1}
    /\ x.allocations \in {{}, Containers(x.task)}
    /\ x.task = 0 => x.allocations = {}
    /\ x.containerRanks \in {{}, x.allocations}
    /\ DOMAIN x.terminatedContainers \subseteq x.containerRanks
    /\ x.restarts \in 0 .. MaxRollbacks + 1
    /\ x.restarts > MaxRollbacks => x.task = 0
    /\ x.status = "stopped" => x.task = 0

BoxOK(b) ==
    /\ DOMAIN b = BoxFields
    /\ b.st \in {"pulling", "running", "exited"}
    /\ b.reports \in Seq({"running", "ok", "fail"})

BoxesOK(x, B) ==
    \A c \in DOMAIN B :
       /\ c \in (1 .. x.runID + 1) \X Ranks
       /\ BoxOK(B[c])
       /\ c[1] = x.runID + 1 => c \in x.containerRanks

KnownOK(x, B) == x.containers \subseteq DOMAIN B /\ x.containerSockets \subseteq DOMAIN B

\* The pool has the request of the run, and says once that it is placed.
PlacedOK(x, q, r) ==
    /\ r = [task |-> x.task, placed |-> r.placed]
    /\ r.placed \in BOOLEAN
    /\ x.allocations # {} => r.placed
    /\ \A i \in 1 .. Len(q) : q[i].type = "ResourcesAllocated" =>
          /\ q[i].of \in 1 .. x.runID + 1
          /\ q[i].of = x.runID + 1 =>
                /\ x.task # 0 /\ x.allocations = {} /\ r.placed
                /\ \A j \in 1 .. Len(q) :
                      q[j].type = "ResourcesAllocated" /\ q[j].of = q[i].of => j = i

\* The container's exit was handled, or it is of an earlier run.
Over(x, c) == c \notin x.containerRanks \/ c \in DOMAIN x.terminatedContainers

ReportIn(q, i, c) == q[i].type = "StateChanged" /\ q[i].from = c
Exits == {"ok", "fail"}

\* A container's exit is the last thing reported of it, and its run lasts until
\* the trial has handled it.
ReportsOK(x, B, q) ==
    /\ \A c \in DOMAIN B :
          /\ Over(x, c) => B[c].st = "exited" /\ B[c].reports = <<>>
          /\ \A i \in 1 .. Len(B[c].reports) : B[c].reports[i] \in Exits =>
                B[c].st = "exited" /\ i = Len(B[c].reports)
    /\ \A i \in 1 .. Len(q) :
          /\ q[i].type = "containerConnected" => q[i].from \in DOMAIN B
          /\ q[i].type = "StateChanged" =>
                /\ q[i].from \in DOMAIN B /\ q[i].of \in {"running", "ok", "fail"}
                /\ ~Over(x, q[i].from)
                /\ q[i].of \in Exits =>
                      /\ B[q[i].from].st = "exited" /\ B[q[i].from].reports = <<>>
                      /\ \A j \in i + 1 .. Len(q) : ~ReportIn(q, j, q[i].from)

\* No operations are requested of a trial that was closed, and an experiment
\* that stops changes its state no more.
ToldOK(x, q, e) ==
    /\ DOMAIN e = {"ops", "closed", "state"}
    /\ x.close \in BOOLEAN /\ e.closed \in BOOLEAN
    /\ e.state \in {"ACTIVE", "PAUSED", "STOPPING_CANCELED"}
    /\ x.close => e.closed /\ \A i \in 1 .. Len(q) : q[i].type # "Operations"
    /\ x.experimentState \in StoppingStates =>
          /\ e.state \in StoppingStates
          /\ \A i \in 1 .. Len(q) : q[i].type # "State"
    /\ \A i \in 1 .. Len(q) :
          /\ q[i].type = "Close" =>
                e.closed /\ \A j \in i + 1 .. Len(q) : q[j].type # "Operations"
          /\ q[i].type = "State" /\ q[i].of \in StoppingStates =>
                e.state \in StoppingStates /\ \A j \in i + 1 .. Len(q) : q[j].type # "State"

\* The actor stops itself once it has no run and is never to have another.
StopOK(x, q) ==
    (\E i \in 1 .. Len(q) : q[i].type = "stop") => x.task = 0 /\ trialClosing(x)

IInv ==
    /\ RunOK(t) /\ t.out = {}
    /\ IsSeq(inbox)
    /\ BoxesOK(t, boxes)
    /\ KnownOK(t, boxes)
    /\ PlacedOK(t, inbox, rm)
    /\ ReportsOK(t, boxes, inbox)
    /\ ToldOK(t, inbox, exp)
    /\ StopOK(t, inbox)
    /\ timers \subseteq 0 .. t.runID

(***************************************************************************)
(* What the operators the handlers are made of do to a trial.              *)
(***************************************************************************)
Ignored(x) == x.terminationSent \/ x.cancelUnready \/ x.killed

SameRun(x, y) ==
    /\ y.runID = x.runID /\ y.task = x.task /\ y.restarts = x.restarts
    /\ y.allocations = x.allocations /\ y.containerRanks = x.containerRanks
    /\ y.startedContainers = x.startedContainers
    /\ y.terminatedContainers = x.terminatedContainers

SameLinks(x, y) ==
    /\ y.containers = x.containers /\ y.containerSockets = x.containerSockets
    /\ y.deadChildren = x.deadChildren

SameOrders(x, y) == y.close = x.close /\ y.experimentState = x.experimentState

\* x sent the messages of S on its way to y.
Sends(x, y, S) == y.out = x.out \cup S

\* The run goes on.
Keeps(x, y) ==
    /\ IsTrial(y) /\ SameRun(x, y) /\ SameLinks(x, y) /\ SameOrders(x, y)
    /\ y.status \in {x.status, "failed", "panicked"}
    /\ Ignored(x) => Ignored(y)

\* The run ends; a restart is counted only if a container was started and the
\* trial itself was not about to end the run.
Ends(x, y) ==
    /\ IsTrial(y) /\ SameLinks(x, y) /\ SameOrders(x, y)
    /\ y.status \in {x.status, "failed", "panicked"}
    /\ y.runID = x.runID + 1 /\ y.task = 0
    /\ y.allocations = {} /\ y.containerRanks = {}
    /\ y.startedContainers = {} /\ y.terminatedContainers = Nothing
    /\ \/ y.restarts = x.restarts
       \/ y.restarts = x.restarts + 1 /\ ~Ignored(x) /\ x.startedContainers # {}

LEMMA ResetRunEnds ==
    ASSUME NEW x, IsTrial(x)
    PROVE  Ends(x, ResetRun(x)) /\ Sends(x, ResetRun(x), {Msg("ResourcesReleased")})
BY DEF IsTrial, TrialFields, Ends, SameLinks, SameOrders, Sends, ResetRun

LEMMA RecordCompletedKeeps ==
    ASSUME NEW x, IsTrial(x), NEW w, NEW reason, NEW isBest
    PROVE  /\ Keeps(x, RecordCompleted(x, w, reason, isBest))
           /\ Sends(x, RecordCompleted(x, w, reason, isBest), {})
<1> DEFINE r == Sequencer(x)!CompleteCachedCheckpoints(
                   Sequencer(x)!WorkloadCompleted(SequencerOf(x), w, reason, isBest))
<1>1. RecordCompleted(x, w, reason, isBest)
         = [[x EXCEPT !.state = r.state, !.snapshot = r.snapshot]
              EXCEPT !.earlyExit = @ \/ reason # "NONE"]
  BY DEF RecordCompleted, WithSequencer
<1> HIDE DEF r
<1> QED BY <1>1 DEF IsTrial, TrialFields, Keeps, SameRun, SameLinks, SameOrders, Sends, Ignored

LEMMA TerminatedEnds ==
    ASSUME NEW x, IsTrial(x)
    PROVE  Ends(x, terminated(x)) /\ Sends(x, terminated(x), {Msg("ResourcesReleased")})
<1> DEFINE y == ResetRun(x)
           z == [y EXCEPT !.restarts = @ + 1]
<1>1. IsTrial(y) /\ Ends(x, y) /\ Sends(x, y, {Msg("ResourcesReleased")})
         /\ y.restarts = x.restarts
  BY ResetRunEnds DEF Ends, IsTrial, TrialFields, ResetRun
<1> HIDE DEF y
<1>2. IsTrial(z) /\ z.restarts = y.restarts + 1 /\ z.out = y.out
         /\ \A f \in TrialFields \ {"restarts"} : z[f] = y[f]
  BY <1>1 DEF IsTrial, TrialFields
<1>3. x.startedContainers = {} => RunStatus(x) = "aborted"
  BY DEF RunStatus
<1>4. CASE terminated(x) = y
  BY <1>1, <1>4
<1>5. CASE terminated(x) # y
  <2>1. ~Ignored(x) /\ x.startedContainers # {}
    BY <1>3, <1>5 DEF terminated, Ignored, y
  <2>2. terminated(x) \in {restore(z), FailForGood(z)}
    BY <1>5 DEF terminated, y
  <2>3. /\ Ends(x, z) /\ Sends(x, z, {Msg("ResourcesReleased")})
    BY <1>1, <1>2, <2>1 DEF Ends, Sends, TrialFields, SameLinks, SameOrders
  <2> HIDE DEF z
  <2>4. CASE terminated(x) = restore(z)
    BY <1>2, <2>3, <2>4 DEF restore, Ends, Sends, IsTrial, TrialFields, SameLinks, SameOrders
  <2>5. CASE terminated(x) = FailForGood(z)
    <3>1. \A w, reason, isBest :
             /\ Keeps(z, RecordCompleted(z, w, reason, isBest))
             /\ Sends(z, RecordCompleted(z, w, reason, isBest), {})
      BY <1>2, RecordCompletedKeeps
    <3>2. CASE FailForGood(z) = [z EXCEPT !.status = "panicked"]
      BY <1>2, <2>3, <2>5, <3>2 DEF Ends, Sends, IsTrial, TrialFields, SameLinks, SameOrders
    <3>3. CASE \E w : FailForGood(z) = RecordCompleted(z, w, "ERRORED", FALSE)
      <4>0. PICK w : FailForGood(z) = RecordCompleted(z, w, "ERRORED", FALSE)
        BY <3>3
      <4>1. PICK v : v = RecordCompleted(z, w, "ERRORED", FALSE) /\ v = terminated(x)
        BY <4>0, <2>5
      <4>2. Keeps(z, v) /\ Sends(z, v, {})
        BY <3>1, <4>1
      <4>3. v.status \in {z.status, "panicked"}
        BY <4>1, <1>2 DEF RecordCompleted, WithSequencer, IsTrial, TrialFields
      <4> QED BY <2>3, <4>1, <4>2, <4>3 DEF Keeps, SameRun, Ends, Sends, SameLinks, SameOrders
    <3> QED BY <3>2, <3>3 DEF FailForGood
  <2> QED BY <2>2, <2>4, <2>5
<1> QED BY <1>4, <1>5

LEMMA TerminateCases ==
    ASSUME NEW x, IsTrial(x), NEW kill \in BOOLEAN
    PROVE  \/ /\ x.allocations # {} /\ Keeps(x, terminate(x, kill))
              /\ \/ Sends(x, terminate(x, kill), {})
                 \/ kill /\ Sends(x, terminate(x, kill), {Msg("Kill")})
           \/ /\ x.allocations = {} /\ Ends(x, terminate(x, kill))
              /\ Sends(x, terminate(x, kill), {Msg("ResourcesReleased"), Msg("trialAborted")})
<1>1. CASE x.allocations = {}
  <2>1. PICK y : y = terminated(x)
    OBVIOUS
  <2>2. IsTrial(y) /\ Ends(x, y) /\ Sends(x, y, {Msg("ResourcesReleased")})
    BY <2>1, TerminatedEnds DEF Ends
  <2>3. terminate(x, kill) = [y EXCEPT !.out = @ \cup {Msg("trialAborted")}]
    BY <1>1, <2>1 DEF terminate, Send
  <2> QED BY <1>1, <2>2, <2>3 DEF Ends, Sends, IsTrial, TrialFields, SameLinks, SameOrders
<1>2. CASE x.allocations # {}
  BY <1>2 DEF terminate, Send, IsTrial, TrialFields, Keeps, SameRun, SameLinks, SameOrders,
              Sends, Ignored
<1> QED BY <1>1, <1>2

LEMMA ReleaseResourceCases ==
    ASSUME NEW x, IsTrial(x)
    PROVE  \/ /\ x.allocations # {} /\ Keeps(x, releaseResource(x))
              /\ \/ Sends(x, releaseResource(x), {})
                 \/ Ignored(releaseResource(x)) /\ Sends(x, releaseResource(x), {Msg("Kill")})
           \/ /\ x.allocations = {} /\ Ends(x, releaseResource(x))
              /\ Sends(x, releaseResource(x), {Msg("ResourcesReleased"), Msg("trialAborted")})
<1>1. CASE allReady(x)
  <2>1. PICK v : v = [x EXCEPT !.allReadySucceeded = TRUE]
    OBVIOUS
  <2>2. releaseResource(x) = terminate(v, FALSE)
    BY <1>1, <2>1 DEF releaseResource
  <2>3. /\ IsTrial(v) /\ SameRun(x, v) /\ SameLinks(x, v) /\ SameOrders(x, v) /\ v.out = x.out
        /\ v.status = x.status /\ (Ignored(x) <=> Ignored(v))
    BY <2>1 DEF IsTrial, TrialFields, SameRun, SameLinks, SameOrders, Ignored
  <2>4. \/ v.allocations # {} /\ Keeps(v, terminate(v, FALSE)) /\ Sends(v, terminate(v, FALSE), {})
        \/ /\ v.allocations = {} /\ Ends(v, terminate(v, FALSE))
           /\ Sends(v, terminate(v, FALSE), {Msg("ResourcesReleased"), Msg("trialAborted")})
    BY <2>3, TerminateCases
  <2> QED BY <2>2, <2>3, <2>4 DEF Keeps, Ends, Sends, SameRun, SameLinks, SameOrders
<1>2. CASE ~allReady(x)
  <2>1. PICK v : v = [x EXCEPT !.cancelUnready = TRUE]
    OBVIOUS
  <2>2. releaseResource(x) = terminate(v, TRUE)
    BY <1>2, <2>1 DEF releaseResource
  <2>3. /\ IsTrial(v) /\ SameRun(x, v) /\ SameLinks(x, v) /\ SameOrders(x, v) /\ v.out = x.out
        /\ v.status = x.status /\ Ignored(v)
    BY <2>1 DEF IsTrial, TrialFields, SameRun, SameLinks, SameOrders, Ignored
  <2>4. \/ /\ v.allocations # {} /\ Keeps(v, terminate(v, TRUE))
           /\ Sends(v, terminate(v, TRUE), {}) \/ Sends(v, terminate(v, TRUE), {Msg("Kill")})
        \/ /\ v.allocations = {} /\ Ends(v, terminate(v, TRUE))
           /\ Sends(v, terminate(v, TRUE), {Msg("ResourcesReleased"), Msg("trialAborted")})
    BY <2>3, TerminateCases
  <2> QED BY <2>2, <2>3, <2>4 DEF Keeps, Ends, Sends, SameRun, SameLinks, SameOrders
<1> QED BY <1>1, <1>2

\* A workload of the sequencer is not the message that ends a run.
LEMMA WorkloadGoesOn ==
    ASSUME NEW x
    PROVE  Workload(x) # TERMINATE /\ PrecloseCheckpoint(x) # TERMINATE
<1>1. Workload(x).Kind \in {"RUN_STEP", "COMPUTE_VALIDATION_METRICS", "CHECKPOINT_MODEL"}
  BY DEF Workload, Sequencer!Workload, Sequencer!OpWorkload, Sequencer!train,
         Sequencer!validate, Sequencer!checkpoint
<1>2. PrecloseCheckpoint(x).Kind = "CHECKPOINT_MODEL"
  BY DEF PrecloseCheckpoint, Sequencer!checkpoint
<1> QED BY <1>1, <1>2 DEF TERMINATE

LEMMA SendNextWorkloadCases ==
    ASSUME NEW x, IsTrial(x), NEW y, y = sendNextWorkload(x)
    PROVE  \/ /\ Keeps(x, y)
              /\ \E w : w # TERMINATE /\ Sends(x, y, {MsgOf("Run", w)})
           \/ /\ x.allocations # {} /\ Keeps(x, y) /\ y.terminationSent
              /\ Sends(x, y, {MsgOf("Run", TERMINATE), MsgOf("terminateTimeout", y.runID)})
           \/ /\ x.allocations = {} /\ Ends(x, y) /\ y.terminationSent
              /\ Sends(x, y, {Msg("ResourcesReleased"), Msg("trialAborted"),
                              MsgOf("Run", TERMINATE), MsgOf("terminateTimeout", y.runID)})
<1>1. CASE \E w : w # TERMINATE /\ y = Send(x, MsgOf("Run", w))
  <2>1. PICK w : w # TERMINATE /\ y = Send(x, MsgOf("Run", w))
    BY <1>1
  <2>2. Keeps(x, y) /\ Sends(x, y, {MsgOf("Run", w)})
    BY <2>1 DEF Send, IsTrial, TrialFields, Keeps, SameRun, SameLinks, SameOrders, Sends, Ignored
  <2> QED BY <2>1, <2>2
<1>2. CASE ~\E w : w # TERMINATE /\ y = Send(x, MsgOf("Run", w))
  <2>1. PICK v : v = terminate(x, FALSE)
    OBVIOUS
  <2>2. PICK u : u = [v EXCEPT !.terminationSent = TRUE]
    OBVIOUS
  <2>3. y = [[u EXCEPT !.out = @ \cup {MsgOf("Run", TERMINATE)}]
                EXCEPT !.out = @ \cup {MsgOf("terminateTimeout", u.runID)}]
    BY <1>2, <2>1, <2>2, WorkloadGoesOn DEF sendNextWorkload, Send
  <2>4. \/ x.allocations # {} /\ Keeps(x, v) /\ Sends(x, v, {})
        \/ /\ x.allocations = {} /\ Ends(x, v)
           /\ Sends(x, v, {Msg("ResourcesReleased"), Msg("trialAborted")})
    BY <2>1, TerminateCases
  <2>5. IsTrial(v)
    BY <2>4 DEF Keeps, Ends
  <2>6. /\ IsTrial(y) /\ SameRun(v, y) /\ SameLinks(v, y) /\ SameOrders(v, y)
        /\ y.status = v.status /\ y.terminationSent
        /\ Sends(v, y, {MsgOf("Run", TERMINATE), MsgOf("terminateTimeout", y.runID)})
    <3>1. /\ IsTrial(u) /\ SameRun(v, u) /\ SameLinks(v, u) /\ SameOrders(v, u)
          /\ u.status = v.status /\ u.terminationSent /\ u.out = v.out
      BY <2>2, <2>5 DEF IsTrial, TrialFields, SameRun, SameLinks, SameOrders
    <3>2. /\ IsTrial(y) /\ SameRun(u, y) /\ SameLinks(u, y) /\ SameOrders(u, y)
          /\ y.status = u.status /\ (u.terminationSent => y.terminationSent)
          /\ y.out = u.out \cup {MsgOf("Run", TERMINATE), MsgOf("terminateTimeout", u.runID)}
      BY <2>3, <3>1 DEF IsTrial, TrialFields, SameRun, SameLinks, SameOrders
    <3> QED BY <3>1, <3>2 DEF SameRun, SameLinks, SameOrders, Sends
  <2>7. CASE x.allocations # {} /\ Keeps(x, v) /\ Sends(x, v, {})
    BY <2>6, <2>7 DEF Keeps, Sends, SameRun, SameLinks, SameOrders, Ignored
  <2>8. CASE /\ x.allocations = {} /\ Ends(x, v)
             /\ Sends(x, v, {Msg("ResourcesReleased"), Msg("trialAborted")})
    <3>1. Ends(x, y)
      BY <2>6, <2>8 DEF Ends, SameRun, SameLinks, SameOrders
    <3> QED BY <2>6, <2>8, <3>1 DEF Sends, SameRun
  <2> QED BY <2>4, <2>7, <2>8
<1> QED BY <1>1, <1>2

(***************************************************************************)
(* The outcomes of a message.  The handlers are sorted by what they do to  *)
(* the run: it goes on, is requested, is placed, loses a container or ends.*)
(***************************************************************************)
Types(y) == {m.type : m \in y.out}

SameTrial(x, y) ==
    /\ IsTrial(y)
    /\ y.status \in {"up", "failed", "panicked"}
    /\ Ignored(x) => Ignored(y)
    /\ y.runID = x.runID /\ y.restarts = x.restarts

Going(x, y) ==
    /\ SameTrial(x, y)
    /\ y.task = x.task /\ y.allocations = x.allocations
    /\ y.containerRanks = x.containerRanks
    /\ y.terminatedContainers = x.terminatedContainers
    /\ y.startedContainers \subseteq x.startedContainers \cup x.containerRanks
    /\ x.containerSockets \subseteq y.containerSockets /\ y.deadChildren = x.deadChildren
    /\ Types(y) \cap {"Start", "AllocateRequest", "ResourcesReleased"} = {}

Requesting(x, y) ==
    /\ SameTrial(x, y)
    /\ x.task = 0 /\ y.task = y.runID + 1 /\ ~(y.restarts > MaxRollbacks)
    /\ y.allocations = {} /\ y.containerRanks = {}
    /\ y.terminatedContainers = x.terminatedContainers
    /\ y.startedContainers \subseteq x.startedContainers \cup x.containerRanks
    /\ x.containerSockets \subseteq y.containerSockets /\ y.deadChildren = x.deadChildren
    /\ "AllocateRequest" \in Types(y)
    /\ Types(y) \cap {"Start", "ResourcesReleased"} = {}

Placing(x, y) ==
    /\ SameTrial(x, y)
    /\ y.task = x.task /\ y.task # 0
    /\ x.allocations = {} /\ y.allocations = Containers(x.task)
    /\ \/ y.containerRanks = y.allocations /\ "Start" \in Types(y)
       \/ y.containerRanks = {} /\ "Start" \notin Types(y)
    /\ \A m \in y.out : m.type = "Start" => m.of # TERMINATE
    /\ y.terminatedContainers = x.terminatedContainers
    /\ y.startedContainers = x.startedContainers
    /\ y.containerSockets = x.containerSockets /\ y.deadChildren = x.deadChildren
    /\ Types(y) \cap {"AllocateRequest", "ResourcesReleased"} = {}

\* The exit of container c is handled.
Exiting(x, y, c) ==
    /\ SameTrial(x, y)
    /\ c \in x.containerRanks
    /\ y.task = x.task /\ y.allocations = x.allocations
    /\ y.containerRanks = x.containerRanks
    /\ DOMAIN y.terminatedContainers = DOMAIN x.terminatedContainers \cup {c}
    /\ y.startedContainers = x.startedContainers \cup {c}
    /\ x.containerSockets \subseteq y.containerSockets \cup {c}
    /\ y.deadChildren = x.deadChildren \cup (x.containerSockets \cap {c})
    /\ Types(y) \cap {"Start", "AllocateRequest", "ResourcesReleased"} = {}

\* The run is over: it had no resources, or its last container c exited.
LastExit(x, c) == x.allocations = DOMAIN x.terminatedContainers \cup {c}

Ending(x, y) ==
    /\ IsTrial(y)
    /\ y.status \in {"up", "failed", "panicked"}
    /\ y.runID = x.runID + 1 /\ x.task # 0
    /\ \/ y.task = 0 /\ "AllocateRequest" \notin Types(y)
       \/ y.task = y.runID + 1 /\ "AllocateRequest" \in Types(y) /\ ~(y.restarts > MaxRollbacks)
    /\ y.allocations = {} /\ y.containerRanks = {}
    /\ y.startedContainers = {} /\ y.terminatedContainers = Nothing
    /\ "ResourcesReleased" \in Types(y) /\ "Start" \notin Types(y)

EndingEmpty(x, y) ==
    /\ Ending(x, y)
    /\ x.allocations = {} /\ (y.restarts = x.restarts \/ y.restarts = x.restarts + 1)
    /\ y.restarts # x.restarts => x.startedContainers # {}
    /\ x.containerSockets \subseteq y.containerSockets /\ y.deadChildren = x.deadChildren

EndingLast(x, y, c) ==
    /\ Ending(x, y)
    /\ c \in x.containerRanks /\ LastExit(x, c)
    /\ \/ y.restarts = x.restarts
       \/ y.restarts = x.restarts + 1 /\ ~Ignored(x)
    /\ x.containerSockets \subseteq y.containerSockets \cup {c}
    /\ y.deadChildren = x.deadChildren \cup (x.containerSockets \cap {c})

\* The message that is handled.
Now == Head(inbox)

\* Only the experiment's messages change what the trial was told.
Orderly(y) ==
    /\ y.close = t.close \/ (y.close = TRUE /\ Now.type = "Close")
    /\ \/ y.experimentState = t.experimentState
       \/ Now.type = "State" /\ y.experimentState = Now.of

Linked(y) ==
    /\ y.containers \subseteq DOMAIN boxes /\ y.containerSockets \subseteq DOMAIN boxes
    /\ \A c : MsgFrom("Accept", c) \in y.out =>
          /\ Now.type = "containerConnected" /\ Now.from = c
          /\ c \in y.containerSockets /\ c \in t.containerRanks

\* Containers are killed when the trial is ending the run, or had a reason.
Caused(y) ==
    \A m \in y.out : m.type = "Kill" =>
       \/ Ignored(y)
       \/ Now.type = "StateChanged" /\ Now.of # "running"
       \/ Now.type = "ChildFailed"
       \/ Now.type = "terminateTimeout" /\ Now.of = t.runID
       \/ t.containerRanks = {}

\* The trial terminates the harness, and starts the timer, only with terminationSent.
Sober(y) ==
    \A m \in y.out :
       /\ m.type = "terminateTimeout" => y.terminationSent /\ m.of = y.runID
       /\ m.type = "Run" /\ m.of = TERMINATE => y.terminationSent

Closed(x) == x.task = 0 /\ trialClosing(x)

Outcome(y) ==
    /\ Orderly(y) /\ Linked(y) /\ Caused(y)
    /\ \/ Going(t, y) \/ Requesting(t, y) \/ EndingEmpty(t, y)
       \/ Now.type = "ResourcesAllocated" /\ Now.of = t.task /\ Placing(t, y)
       \/ /\ Now.type = "StateChanged" /\ Now.of # "running"
          /\ Exiting(t, y, Now.from) \/ EndingLast(t, y, Now.from)

\* After the message's own handler, and after what follows every message.
HandlerOutcome(y) ==
    Outcome(y) /\ Sober(y) /\ Types(y) \cap {"stop", "AllocateRequest"} = {}
       /\ (Closed(t) => Closed(y))
       /\ \A m \in y.out :
             m.type = "terminateTimeout" \/ (m.type = "Run" /\ m.of = TERMINATE) =>
                y.task = 0 \/ y.allocations # {}

MessageOutcome(z) ==
    Outcome(z) /\ Sober(z) /\ ("stop" \in Types(z) \/ Closed(t) => Closed(z))

\* Whether a trial is closing depends on what it was told and did, not on its run.
LEMMA ClosingDepends ==
    ASSUME NEW x, NEW y, y.ops = x.ops, y.state = x.state, y.earlyExit = x.earlyExit,
           y.killed = x.killed, y.restarts = x.restarts, y.close = x.close, y.experimentState = x.experimentState
    PROVE  trialClosing(y) <=> trialClosing(x)
<1>1. UpToDate(x) <=> UpToDate(y)
  BY DEF UpToDate, Sequencer!UpToDate, Sequencer!postGracefulStopCheckpointNeeded
<1> QED BY <1>1 DEF trialClosing

LEMMA AfterMessageCases ==
    ASSUME NEW y, IsTrial(y), NEW z, z = AfterMessage(y)
    PROVE  \/ z = y /\ ~(y.status = "up" /\ Closed(y))
           \/ /\ Closed(y) /\ Closed(z) /\ Keeps(y, z) /\ z.status = y.status
              /\ z.terminationSent = y.terminationSent
              /\ Sends(y, z, {Msg("stop")})
           \/ /\ y.task = 0 /\ ~trialClosing(y)
              /\ SameLinks(y, z) /\ SameOrders(y, z) /\ IsTrial(z)
              /\ z.status = y.status /\ (Ignored(y) <=> Ignored(z))
              /\ z.runID = y.runID /\ z.restarts = y.restarts /\ z.task = z.runID + 1
              /\ z.allocations = y.allocations /\ z.containerRanks = y.containerRanks
              /\ z.startedContainers = y.startedContainers
              /\ z.terminatedContainers = y.terminatedContainers
              /\ z.terminationSent = y.terminationSent
              /\ Sends(y, z, {Msg("AllocateRequest")})
           \/ /\ y.task # 0 /\ y.allocations # {} /\ Keeps(y, z)
              /\ Sends(y, z, {}) \/ (Ignored(z) /\ Sends(y, z, {Msg("Kill")}))
              /\ y.terminationSent => z.terminationSent
           \/ /\ y.task # 0 /\ y.allocations = {} /\ Ends(y, z)
              /\ Sends(y, z, {Msg("ResourcesReleased"), Msg("trialAborted")})
<1>1. CASE y.status # "up"
  BY <1>1 DEF AfterMessage
<1>2. CASE y.status = "up" /\ y.task # 0
  <2>1. CASE y.experimentState = "ACTIVE"
    BY <1>2, <2>1 DEF AfterMessage, Closed
  <2>2. CASE y.experimentState # "ACTIVE"
    <3>1. z = releaseResource(y)
      BY <1>2, <2>2 DEF AfterMessage
    <3>2. y.allocations # {} /\ y.terminationSent => z.terminationSent
      BY <3>1 DEF releaseResource, terminate, Send, IsTrial, TrialFields
    <3> QED BY <1>2, <3>1, <3>2, ReleaseResourceCases
  <2> QED BY <2>1, <2>2
<1>3. CASE y.status = "up" /\ y.task = 0
  <2>1. CASE trialClosing(y)
    <3>1. z = [y EXCEPT !.out = @ \cup {Msg("stop")}]
      BY <1>3, <2>1 DEF AfterMessage, Send
    <3>2. /\ Keeps(y, z) /\ z.status = y.status /\ Sends(y, z, {Msg("stop")})
          /\ z.ops = y.ops /\ z.state = y.state /\ z.earlyExit = y.earlyExit
          /\ z.killed = y.killed /\ z.terminationSent = y.terminationSent
      BY <3>1 DEF IsTrial, TrialFields, Keeps, SameRun, SameLinks, SameOrders, Sends, Ignored
    <3>3. Closed(z)
      BY <1>3, <2>1, <3>2, ClosingDepends DEF Keeps, SameRun, SameOrders, Closed
    <3> QED BY <1>3, <2>1, <3>2, <3>3 DEF Closed
  <2>2. CASE ~trialClosing(y) /\ z = y
    BY <2>2 DEF Closed
  <2>3. CASE ~trialClosing(y) /\ z # y
    <3>1. z = [[y EXCEPT !.task = y.runID + 1] EXCEPT !.out = @ \cup {Msg("AllocateRequest")}]
      BY <1>3, <2>3 DEF AfterMessage, Send
    <3> QED
      BY <1>3, <2>3, <3>1 DEF IsTrial, TrialFields, SameLinks, SameOrders, Sends, Ignored
  <2> QED BY <2>1, <2>2, <2>3
<1> QED BY <1>1, <1>2, <1>3

LEMMA MsgType ==
    /\ \A type : Msg(type).type = type
    /\ \A type, x : MsgOf(type, x).type = type /\ MsgOf(type, x).of = x
BY DEF Msg, MsgOf

LEMMA TypesSent ==
    ASSUME NEW y, NEW z, NEW a, NEW b, Sends(y, z, {Msg(a), Msg(b)})
    PROVE  Types(z) = Types(y) \cup {a, b}
<1>0. Msg(a).type = a /\ Msg(b).type = b /\ Msg(a) \in z.out /\ Msg(b) \in z.out
  BY DEF Sends, Msg
<1>1. ASSUME NEW type \in Types(z) PROVE type \in Types(y) \cup {a, b}
  BY <1>0 DEF Sends, Types
<1>2. ASSUME NEW type \in Types(y) PROVE type \in Types(z)
  BY DEF Sends, Types
<1>3. a \in Types(z) /\ b \in Types(z)
  BY <1>0 DEF Types
<1> QED BY <1>1, <1>2, <1>3

LEMMA ContainersOf ==
    ASSUME NEW task
    PROVE  /\ Containers(task) # {} /\ IsFiniteSet(Containers(task))
           /\ \A c \in Containers(task) : c = <<c[1], c[2]>> /\ c[1] = task /\ c[2] \in Ranks
<1>1. <<task, 0>> \in Containers(task)
  BY TrialAssumption DEF Containers
<1>2. IsFiniteSet({task} \X Ranks)
  BY FS_Singleton, FS_Product, TrialAssumption
<1> QED BY <1>1, <1>2 DEF Containers

\* What a message's handler did to the run is not undone by what follows.
LEMMA AfterMessageOutcome ==
    ASSUME RunOK(t), NEW y, HandlerOutcome(y), NEW z, z = AfterMessage(y)
    PROVE  MessageOutcome(z)
<1>1. IsTrial(y) /\ y.status \in {"up", "failed", "panicked"}
  BY DEF HandlerOutcome, Outcome, Going, Requesting, Placing, EndingEmpty, Exiting, EndingLast,
         Ending, SameTrial
<1>2. CASE z = y /\ ~(y.status = "up" /\ Closed(y))
  <2>1. Closed(t) => Closed(y)
    BY DEF HandlerOutcome
  <2> QED BY <1>2, <2>1 DEF HandlerOutcome, MessageOutcome
<1>3. CASE /\ Closed(y) /\ Closed(z) /\ Keeps(y, z) /\ z.status = y.status
           /\ z.terminationSent = y.terminationSent
           /\ Sends(y, z, {Msg("stop")})
  <2>1. Orderly(z) /\ Linked(z) /\ Caused(z) /\ Sober(z)
    BY <1>3 DEF HandlerOutcome, Outcome, Orderly, Linked, Caused, Sober, Keeps, SameLinks,
                SameOrders, SameRun, Sends, Msg, MsgFrom
  <2>2. Types(z) = Types(y) \cup {"stop"}
    <3>1. Sends(y, z, {Msg("stop"), Msg("stop")})
      BY <1>3 DEF Sends
    <3> QED BY <3>1, TypesSent
  <2>3. y.task = 0
    BY <1>3 DEF Closed
  <2>4. \/ Going(t, y) \/ EndingEmpty(t, y)
        \/ /\ Now.type = "StateChanged" /\ Now.of # "running"
           /\ EndingLast(t, y, Now.from)
    BY <2>3 DEF HandlerOutcome, Outcome, Requesting, Placing, Exiting, RunOK
  <2>5. Going(t, y) => Going(t, z)
    BY <1>3, <2>2 DEF Going, SameTrial, Keeps, SameRun, SameLinks
  <2>6. Ending(t, y) => Ending(t, z)
    BY <1>3, <2>2, <2>3 DEF Ending, Keeps, SameRun
  <2>7. EndingEmpty(t, y) => EndingEmpty(t, z)
    BY <1>3, <2>6 DEF EndingEmpty, Keeps, SameRun, SameLinks
  <2>8. EndingLast(t, y, Now.from) => EndingLast(t, z, Now.from)
    BY <1>3, <2>6 DEF EndingLast, Keeps, SameRun, SameLinks
  <2> QED BY <1>3, <2>1, <2>4, <2>5, <2>7, <2>8 DEF MessageOutcome, Outcome
<1>4. CASE /\ y.task = 0 /\ ~trialClosing(y)
           /\ SameLinks(y, z) /\ SameOrders(y, z) /\ IsTrial(z)
           /\ z.status = y.status /\ (Ignored(y) <=> Ignored(z))
           /\ z.runID = y.runID /\ z.restarts = y.restarts /\ z.task = z.runID + 1
           /\ z.allocations = y.allocations /\ z.containerRanks = y.containerRanks
           /\ z.startedContainers = y.startedContainers
           /\ z.terminatedContainers = y.terminatedContainers
           /\ z.terminationSent = y.terminationSent
           /\ Sends(y, z, {Msg("AllocateRequest")})
  <2>2. Types(z) = Types(y) \cup {"AllocateRequest"}
    <3>1. Sends(y, z, {Msg("AllocateRequest"), Msg("AllocateRequest")})
      BY <1>4 DEF Sends
    <3> QED BY <3>1, TypesSent
  <2>3. ~(y.restarts > MaxRollbacks)
    BY <1>4 DEF trialClosing
  <2>4. \/ Going(t, y) /\ y.allocations = {} /\ y.containerRanks = {}
        \/ EndingEmpty(t, y)
        \/ /\ Now.type = "StateChanged" /\ Now.of # "running"
           /\ EndingLast(t, y, Now.from)
    BY <1>4 DEF HandlerOutcome, Outcome, Requesting, Placing, Exiting, RunOK, Going
  <2>1. Orderly(z) /\ Linked(z) /\ Caused(z) /\ Sober(z)
    BY <1>4 DEF HandlerOutcome, Outcome, Orderly, Linked, Caused, Sober, SameLinks,
                SameOrders, Sends, Msg, MsgFrom
  <2>5. Going(t, y) /\ y.allocations = {} /\ y.containerRanks = {} => Requesting(t, z)
    BY <1>4, <2>2, <2>3 DEF Going, Requesting, SameTrial, SameLinks
  <2>6. Ending(t, y) => Ending(t, z)
    BY <1>4, <2>2, <2>3 DEF Ending
  <2>7. EndingEmpty(t, y) => EndingEmpty(t, z)
    BY <1>4, <2>6 DEF EndingEmpty, SameLinks
  <2>8. EndingLast(t, y, Now.from) => EndingLast(t, z, Now.from)
    BY <1>4, <2>6 DEF EndingLast, SameLinks
  <2>9. "stop" \notin Types(z) /\ ~Closed(t)
    BY <1>4, <2>2 DEF HandlerOutcome, Closed
  <2> QED BY <2>1, <2>4, <2>5, <2>7, <2>8, <2>9 DEF MessageOutcome, Outcome
<1>5. CASE /\ y.task # 0 /\ y.allocations # {} /\ Keeps(y, z)
           /\ Sends(y, z, {}) \/ (Ignored(z) /\ Sends(y, z, {Msg("Kill")}))
           /\ y.terminationSent => z.terminationSent
  <2>1. Orderly(z) /\ Linked(z) /\ Caused(z) /\ Sober(z)
    BY <1>5 DEF HandlerOutcome, Outcome, Orderly, Linked, Caused, Sober, Keeps, SameLinks,
                SameOrders, SameRun, Sends, Msg, MsgFrom
  <2>2. /\ Types(y) \subseteq Types(z) /\ Types(z) \subseteq Types(y) \cup {"Kill"}
        /\ \A m \in z.out : m.type = "Start" => m \in y.out
    BY <1>5 DEF Types, Sends, Msg
  <2>3. Going(t, y) => Going(t, z)
    BY <1>5, <2>2 DEF Going, SameTrial, Keeps, SameRun, SameLinks
  <2>4. Placing(t, y) => Placing(t, z)
    BY <1>5, <2>2 DEF Placing, SameTrial, Keeps, SameRun, SameLinks
  <2>5. ASSUME NEW c PROVE Exiting(t, y, c) => Exiting(t, z, c)
    BY <1>5, <2>2 DEF Exiting, SameTrial, Keeps, SameRun, SameLinks
  <2>6. \/ Going(t, y)
        \/ Now.type = "ResourcesAllocated" /\ Now.of = t.task /\ Placing(t, y)
        \/ /\ Now.type = "StateChanged" /\ Now.of # "running"
           /\ Exiting(t, y, Now.from)
    BY <1>5 DEF HandlerOutcome, Outcome, Requesting, EndingEmpty, EndingLast, Ending
  <2>7. "stop" \notin Types(z) /\ ~Closed(t)
    BY <1>5, <2>2 DEF HandlerOutcome, Closed
  <2> QED BY <2>1, <2>3, <2>4, <2>5, <2>6, <2>7 DEF MessageOutcome, Outcome
<1>6. CASE /\ y.task # 0 /\ y.allocations = {} /\ Ends(y, z)
           /\ Sends(y, z, {Msg("ResourcesReleased"), Msg("trialAborted")})
  <2>1. Orderly(z) /\ Linked(z)
    BY <1>6 DEF HandlerOutcome, Outcome, Orderly, Linked, Ends, SameLinks,
                SameOrders, Sends, Msg, MsgFrom
  <2>2. Types(z) = Types(y) \cup {"ResourcesReleased", "trialAborted"}
    BY <1>6, TypesSent
  <2>3. Going(t, y)
    BY <1>6, ContainersOf DEF HandlerOutcome, Outcome, Requesting, EndingEmpty, EndingLast,
                              Ending, Placing, Exiting, RunOK
  <2>4. t.containerRanks = {}
    BY <1>6, <2>3 DEF Going, RunOK
  <2>5. Caused(z)
    BY <2>4 DEF Caused
  <2>6. Sober(z)
    BY <1>6 DEF HandlerOutcome, Sober, Sends, Msg
  <2>7. EndingEmpty(t, z)
    <3>1. "AllocateRequest" \notin Types(z) /\ "Start" \notin Types(z)
             /\ "ResourcesReleased" \in Types(z)
      BY <2>2, <2>3 DEF HandlerOutcome, Going
    <3>2. Ending(t, z)
      BY <1>6, <2>3, <3>1 DEF Going, SameTrial, Ends, Ending
    <3> QED BY <1>6, <2>3, <2>4, <3>2 DEF Going, SameTrial, Ends, EndingEmpty, SameLinks
  <2>8. "stop" \notin Types(z) /\ ~Closed(t)
    BY <1>6, <2>2 DEF HandlerOutcome, Closed
  <2> QED BY <2>1, <2>5, <2>6, <2>7, <2>8 DEF MessageOutcome, Outcome
<1> QED BY <1>1, <1>2, <1>3, <1>4, <1>5, <1>6, AfterMessageCases

(***************************************************************************)
(* The handlers, one by one.                                               *)
(***************************************************************************)
LEMMA KeepsTransitive ==
    ASSUME NEW x, NEW y, NEW z, Keeps(x, y), Keeps(y, z)
    PROVE  Keeps(x, z)
BY DEF Keeps, SameRun, SameLinks, SameOrders

LEMMA KeepsThenEnds ==
    ASSUME NEW x, NEW y, NEW z, Keeps(x, y), Ends(y, z)
    PROVE  Ends(x, z)
BY DEF Keeps, Ends, SameRun, SameLinks, SameOrders

LEMMA NowIsFirst ==
    ASSUME IsSeq(inbox), inbox # <<>>
    PROVE  /\ Len(inbox) \in Nat \ {0} /\ DOMAIN inbox = 1 .. Len(inbox)
           /\ 1 \in 1 .. Len(inbox) /\ Now = inbox[1]
BY DEF IsSeq, Now

\* A handler that lets the run go on, and says nothing to the pool.
LEMMA GoingOutcome ==
    ASSUME IInv, t.status = "up", t.task # 0, NEW y, Keeps(t, y), Caused(y), Sober(y),
           \A m \in y.out : m.type \in {"Kill", "Run", "sendNextWorkload", "terminateTimeout"},
           \A m \in y.out :
              m.type = "terminateTimeout" \/ (m.type = "Run" /\ m.of = TERMINATE) =>
                 t.allocations # {}
    PROVE  HandlerOutcome(y)
<1>1. Types(y) \subseteq {"Kill", "Run", "sendNextWorkload", "terminateTimeout"}
  BY DEF Types
<1>2. Going(t, y)
  BY <1>1 DEF Going, SameTrial, Keeps, SameRun, SameLinks
<1>3. Orderly(y) /\ Linked(y)
  BY DEF Keeps, Orderly, Linked, SameOrders, SameLinks, IInv, KnownOK, MsgFrom
<1>4. ~Closed(t)
  BY DEF Closed
<1>5. Types(y) \cap {"stop", "AllocateRequest"} = {}
  BY <1>1
<1>6. y.allocations = t.allocations
  BY DEF Keeps, SameRun
<1> QED BY <1>2, <1>3, <1>4, <1>5, <1>6 DEF HandlerOutcome, Outcome

\* A handler that ends a run without resources.
LEMMA EndingOutcome ==
    ASSUME IInv, t.status = "up", t.task # 0, t.allocations = {}, NEW y, Ends(t, y), Sober(y),
           Msg("ResourcesReleased") \in y.out,
           \A m \in y.out :
              m.type \in {"ResourcesReleased", "trialAborted", "Run", "terminateTimeout"}
    PROVE  HandlerOutcome(y)
<1>1. Types(y) \subseteq {"ResourcesReleased", "trialAborted", "Run", "terminateTimeout"}
  BY DEF Types
<1>2. "ResourcesReleased" \in Types(y)
  BY DEF Types, Msg
<1>3. EndingEmpty(t, y)
  BY <1>1, <1>2 DEF EndingEmpty, Ending, Ends, SameLinks
<1>4. Orderly(y) /\ Linked(y)
  BY DEF Ends, Orderly, Linked, SameOrders, SameLinks, IInv, KnownOK, MsgFrom
<1>5. Caused(y)
  BY DEF Caused, Msg
<1>6. ~Closed(t)
  BY DEF Closed
<1>7. Types(y) \cap {"stop", "AllocateRequest"} = {}
  BY <1>1
<1>8. y.task = 0
  BY DEF Ends
<1> QED BY <1>3, <1>4, <1>5, <1>6, <1>7, <1>8 DEF HandlerOutcome, Outcome

LEMMA IgnoredMessage ==
    ASSUME IInv, t.status = "up"
    PROVE  HandlerOutcome(t)
<1>1. Types(t) = {}
  BY DEF IInv, Types
<1>2. Going(t, t)
  BY <1>1 DEF IInv, Going, SameTrial, RunOK
<1>3. Orderly(t) /\ Linked(t) /\ Caused(t) /\ Sober(t)
  BY DEF Orderly, Linked, Caused, Sober, IInv, KnownOK
<1> QED BY <1>1, <1>2, <1>3 DEF HandlerOutcome, Outcome, IInv

\* Messages of the experiment.
LEMMA ToldOutcome ==
    ASSUME IInv, t.status = "up", inbox # <<>>, NEW y,
           \/ Now.type = "State" /\ y = [t EXCEPT !.experimentState = Now.of]
           \/ Now.type = "Operations" /\ y = [t EXCEPT !.ops = @ \o Now.of]
           \/ Now.type = "Close" /\ y = [t EXCEPT !.close = TRUE]
    PROVE  HandlerOutcome(y)
<1>1. IsTrial(t) /\ t.out = {}
  BY DEF IInv, RunOK
<1>2. /\ IsTrial(y) /\ y.out = {} /\ SameRun(t, y) /\ SameLinks(t, y)
      /\ y.status = t.status /\ (Ignored(t) <=> Ignored(y))
      /\ y.state = t.state /\ y.earlyExit = t.earlyExit /\ y.killed = t.killed
  BY <1>1 DEF IsTrial, TrialFields, SameRun, SameLinks, Ignored
<1>3. Types(y) = {}
  BY <1>2 DEF Types
<1>4. Going(t, y)
  BY <1>2, <1>3 DEF Going, SameTrial, SameRun, SameLinks
<1>5. Orderly(y) /\ Linked(y) /\ Caused(y) /\ Sober(y)
  BY <1>1, <1>2 DEF Orderly, Linked, Caused, Sober, IInv, KnownOK, SameLinks, IsTrial, TrialFields
<1>6. Closed(t) => Closed(y)
  <2> SUFFICES ASSUME t.task = 0, trialClosing(t) PROVE trialClosing(y)
    BY <1>2 DEF Closed, SameRun
  <2>1. CASE t.earlyExit \/ t.killed \/ t.restarts > MaxRollbacks
    BY <1>2, <2>1 DEF trialClosing, SameRun
  <2>2. CASE t.close /\ UpToDate(t)
    <3>1. Now.type # "Operations"
      BY <2>2, NowIsFirst DEF IInv, ToldOK
    <3>2. y.ops = t.ops /\ y.close
      BY <1>1, <2>2, <3>1 DEF IsTrial, TrialFields
    <3>3. UpToDate(y) <=> UpToDate(t)
      BY <1>2, <3>2 DEF UpToDate, Sequencer!UpToDate, Sequencer!postGracefulStopCheckpointNeeded
    <3> QED BY <2>2, <3>2, <3>3 DEF trialClosing
  <2>3. CASE t.experimentState \in StoppingStates
    <3>1. Now.type # "State"
      BY <2>3, NowIsFirst DEF IInv, ToldOK
    <3>2. y.experimentState = t.experimentState
      BY <1>1, <3>1 DEF IsTrial, TrialFields
    <3> QED BY <2>3, <3>2 DEF trialClosing
  <2> QED BY <2>1, <2>2, <2>3 DEF trialClosing
<1> QED BY <1>2, <1>3, <1>4, <1>5, <1>6 DEF HandlerOutcome, Outcome

\* The two ends of terminate.
LEMMA SignalOutcome ==
    ASSUME IInv, t.status = "up", t.task # 0, NEW y, Keeps(t, y), Caused(y),
           y.out \subseteq {Msg("Kill")}
    PROVE  HandlerOutcome(y)
<1>1. \A m \in y.out : m.type = "Kill"
  BY MsgType
<1>2. Sober(y)
  BY <1>1 DEF Sober
<1> QED BY <1>1, <1>2, GoingOutcome

LEMMA AbortOutcome ==
    ASSUME IInv, t.status = "up", t.task # 0, t.allocations = {}, NEW y, Ends(t, y),
           y.out = {Msg("ResourcesReleased"), Msg("trialAborted")}
    PROVE  HandlerOutcome(y)
<1>1. /\ \A m \in y.out : m.type \in {"ResourcesReleased", "trialAborted"}
      /\ Msg("ResourcesReleased") \in y.out
  BY MsgType
<1>2. Sober(y)
  BY <1>1 DEF Sober
<1> QED BY <1>1, <1>2, EndingOutcome

\* A reason to end the run now.
LEMMA TerminateOutcome ==
    ASSUME IInv, t.status = "up", t.task # 0, NEW y, y = terminate(t, TRUE),
           Now.type = "ChildFailed" \/ (Now.type = "terminateTimeout" /\ Now.of = t.runID)
    PROVE  HandlerOutcome(y)
<1>1. IsTrial(t) /\ t.out = {}
  BY DEF IInv, RunOK
<1>2. \/ t.allocations # {} /\ Keeps(t, y) /\ (Sends(t, y, {}) \/ Sends(t, y, {Msg("Kill")}))
      \/ /\ t.allocations = {} /\ Ends(t, y)
         /\ Sends(t, y, {Msg("ResourcesReleased"), Msg("trialAborted")})
  BY <1>1, TerminateCases
<1>3. Caused(y)
  BY DEF Caused
<1> QED BY <1>1, <1>2, <1>3, SignalOutcome, AbortOutcome DEF Sends

LEMMA KillOutcome ==
    ASSUME IInv, t.status = "up", t.task # 0,
           NEW y, y = terminate([t EXCEPT !.killed = TRUE], TRUE)
    PROVE  HandlerOutcome(y)
<1>1. IsTrial(t) /\ t.out = {}
  BY DEF IInv, RunOK
<1>2. PICK x : x = [t EXCEPT !.killed = TRUE]
  OBVIOUS
<1>3. IsTrial(x) /\ x.out = {} /\ x.allocations = t.allocations /\ Keeps(t, x) /\ Ignored(x)
  BY <1>1, <1>2 DEF IsTrial, TrialFields, Keeps, SameRun, SameLinks, SameOrders, Ignored
<1>4. \/ x.allocations # {} /\ Keeps(x, y) /\ (Sends(x, y, {}) \/ Sends(x, y, {Msg("Kill")}))
      \/ /\ x.allocations = {} /\ Ends(x, y)
         /\ Sends(x, y, {Msg("ResourcesReleased"), Msg("trialAborted")})
  BY <1>2, <1>3, TerminateCases
<1>5. CASE x.allocations # {} /\ Keeps(x, y) /\ (Sends(x, y, {}) \/ Sends(x, y, {Msg("Kill")}))
  <2>1. Keeps(t, y) /\ Caused(y)
    BY <1>3, <1>5, KeepsTransitive, ZenonT(60) DEF Keeps, Caused
  <2> QED BY <1>3, <1>5, <2>1, SignalOutcome DEF Sends
<1>6. CASE /\ x.allocations = {} /\ Ends(x, y)
           /\ Sends(x, y, {Msg("ResourcesReleased"), Msg("trialAborted")})
  BY <1>3, <1>6, KeepsThenEnds, AbortOutcome DEF Sends
<1> QED BY <1>4, <1>5, <1>6

LEMMA ReleaseOutcome ==
    ASSUME IInv, t.status = "up", t.task # 0, NEW y, y = releaseResource(t)
    PROVE  HandlerOutcome(y)
<1>1. IsTrial(t) /\ t.out = {}
  BY DEF IInv, RunOK
<1>2. \/ /\ t.allocations # {} /\ Keeps(t, y)
         /\ Sends(t, y, {}) \/ (Ignored(y) /\ Sends(t, y, {Msg("Kill")}))
      \/ /\ t.allocations = {} /\ Ends(t, y)
         /\ Sends(t, y, {Msg("ResourcesReleased"), Msg("trialAborted")})
  BY <1>1, ReleaseResourceCases
<1>3. Sends(t, y, {}) \/ (Ignored(y) /\ Sends(t, y, {Msg("Kill")})) => Caused(y)
  BY <1>1 DEF Caused, Sends
<1> QED BY <1>1, <1>2, <1>3, SignalOutcome, AbortOutcome DEF Sends

\* The next workload is sent by a trial x that has only recorded a completed one.
LEMMA SendNextOutcome ==
    ASSUME IInv, t.status = "up", t.task # 0, NEW x, Keeps(t, x), x.out = {},
           NEW y, y = sendNextWorkload(x)
    PROVE  HandlerOutcome(y)
<1>1. IsTrial(x) /\ x.allocations = t.allocations
  BY DEF Keeps, SameRun
<1>2. CASE Keeps(x, y) /\ \E w : w # TERMINATE /\ Sends(x, y, {MsgOf("Run", w)})
  <2>1. PICK w : w # TERMINATE /\ Sends(x, y, {MsgOf("Run", w)})
    BY <1>2
  <2>2. \A m \in y.out : m.type = "Run" /\ m.of # TERMINATE
    BY <2>1, MsgType DEF Sends
  <2>3. Sober(y)
    BY <2>2 DEF Sober
  <2>4. Caused(y)
    BY <2>2, MsgType DEF Caused
  <2>5. Keeps(t, y)
    BY <1>2, KeepsTransitive
  <2> QED BY <2>2, <2>3, <2>4, <2>5, GoingOutcome
<1>3. CASE /\ x.allocations # {} /\ Keeps(x, y) /\ y.terminationSent
           /\ Sends(x, y, {MsgOf("Run", TERMINATE), MsgOf("terminateTimeout", y.runID)})
  <2>1. \A m \in y.out : \/ m.type = "Run"
                         \/ m.type = "terminateTimeout" /\ m.of = y.runID
    BY <1>3, MsgType DEF Sends
  <2>2. Sober(y)
    BY <1>3, <2>1 DEF Sober
  <2>3. Caused(y)
    BY <2>1, MsgType DEF Caused
  <2>4. Keeps(t, y)
    BY <1>3, KeepsTransitive
  <2> QED BY <1>1, <1>3, <2>1, <2>2, <2>3, <2>4, GoingOutcome
<1>4. CASE /\ x.allocations = {} /\ Ends(x, y) /\ y.terminationSent
           /\ Sends(x, y, {Msg("ResourcesReleased"), Msg("trialAborted"),
                           MsgOf("Run", TERMINATE), MsgOf("terminateTimeout", y.runID)})
  <2>1. /\ \A m \in y.out : \/ m.type \in {"ResourcesReleased", "trialAborted", "Run"}
                            \/ m.type = "terminateTimeout" /\ m.of = y.runID
        /\ Msg("ResourcesReleased") \in y.out
    BY <1>4, MsgType DEF Sends
  <2>2. Sober(y)
    BY <1>4, <2>1 DEF Sober
  <2>3. Ends(t, y)
    BY <1>4, KeepsThenEnds
  <2> QED BY <1>1, <1>4, <2>1, <2>2, <2>3, EndingOutcome
<1> QED BY <1>1, <1>2, <1>3, <1>4, SendNextWorkloadCases

LEMMA CompletedOutcome ==
    ASSUME IInv, t.status = "up", t.task # 0, NEW m, NEW isBest,
           NEW y, y = processCompletedWorkload(t, m, isBest)
    PROVE  HandlerOutcome(y)
<1>1. IsTrial(t) /\ t.out = {}
  BY DEF IInv, RunOK
<1>2. PICK x : x = RecordCompleted(t, m.of, m.reason, isBest)
  OBVIOUS
<1>3. Keeps(t, x) /\ x.out = {}
  BY <1>1, <1>2, RecordCompletedKeeps DEF Sends
<1>4. CASE y = [t EXCEPT !.status = "failed"]
  <2>1. Keeps(t, y) /\ y.out = {}
    BY <1>1, <1>4 DEF IsTrial, TrialFields, Keeps, SameRun, SameLinks, SameOrders, Ignored
  <2>2. Caused(y)
    BY <2>1 DEF Caused
  <2> QED BY <2>1, <2>2, SignalOutcome
<1>5. CASE y = Send(x, MsgOf("sendNextWorkload", x.runID))
  <2>1. Keeps(x, y) /\ y.out = {MsgOf("sendNextWorkload", x.runID)}
    BY <1>3, <1>5 DEF IsTrial, TrialFields, Keeps, SameRun, SameLinks, SameOrders, Ignored, Send
  <2>2. \A n \in y.out : n.type = "sendNextWorkload"
    BY <2>1, MsgType
  <2>3. Caused(y)
    BY <2>2, MsgType DEF Caused
  <2>4. Sober(y)
    BY <2>2 DEF Sober
  <2>5. Keeps(t, y)
    BY <1>3, <2>1, KeepsTransitive
  <2> QED BY <2>2, <2>3, <2>4, <2>5, GoingOutcome
<1>6. CASE y = sendNextWorkload(x)
  BY <1>3, <1>6, SendNextOutcome
<1> QED BY <1>2, <1>4, <1>5, <1>6 DEF processCompletedWorkload

LEMMA PushRendezvousKeeps ==
    ASSUME NEW x, IsTrial(x), NEW y, y = pushRendezvous(x)
    PROVE  /\ Keeps(x, y)
           /\ Sends(x, y, {}) \/ Sends(x, y, {MsgOf("Rendezvous", x.containers)})
BY DEF pushRendezvous, Send, IsTrial, TrialFields, Keeps, SameRun, SameLinks, SameOrders,
       Sends, Ignored

\* A container of the run connects or runs: x is the trial that has noted it.
LEMMA NotedOutcome ==
    ASSUME IInv, t.status = "up", t.task # 0, NEW x, NEW y, y = pushRendezvous(x), NEW c,
           c \in DOMAIN boxes, c \in t.containerRanks,
           \/ /\ Now.type = "containerConnected" /\ Now.from = c
              /\ x = [t EXCEPT !.containerSockets = @ \cup {c}, !.out = @ \cup {MsgFrom("Accept", c)}]
           \/ x = [t EXCEPT !.startedContainers = @ \cup {c}, !.containers = @ \cup {c}]
    PROVE  HandlerOutcome(y)
<1>1. IsTrial(t) /\ t.out = {} /\ ~Closed(t)
      /\ t.containers \subseteq DOMAIN boxes /\ t.containerSockets \subseteq DOMAIN boxes
  BY DEF IInv, RunOK, KnownOK, Closed
<1>2. /\ IsTrial(x) /\ SameOrders(t, x) /\ x.status = t.status /\ (Ignored(t) => Ignored(x))
      /\ x.runID = t.runID /\ x.task = t.task /\ x.restarts = t.restarts
      /\ x.allocations = t.allocations /\ x.containerRanks = t.containerRanks
      /\ x.terminatedContainers = t.terminatedContainers /\ x.deadChildren = t.deadChildren
      /\ x.startedContainers \subseteq t.startedContainers \cup {c}
      /\ x.containers \subseteq t.containers \cup {c}
      /\ x.containerSockets \subseteq t.containerSockets \cup {c}
      /\ t.containerSockets \subseteq x.containerSockets
      /\ \/ x.out = {}
         \/ /\ x.out = {MsgFrom("Accept", c)} /\ c \in x.containerSockets
            /\ Now.type = "containerConnected" /\ Now.from = c
  <2>1. CASE /\ Now.type = "containerConnected" /\ Now.from = c
             /\ x = [t EXCEPT !.containerSockets = @ \cup {c},
                              !.out = @ \cup {MsgFrom("Accept", c)}]
    <3>1. x.out = t.out \cup {MsgFrom("Accept", c)}
             /\ x.containerSockets = t.containerSockets \cup {c}
      BY <1>1, <2>1 DEF IsTrial, TrialFields
    <3> QED BY <1>1, <2>1, <3>1 DEF IsTrial, TrialFields, SameOrders, Ignored
  <2>2. CASE x = [t EXCEPT !.startedContainers = @ \cup {c}, !.containers = @ \cup {c}]
    BY <1>1, <2>2 DEF IsTrial, TrialFields, SameOrders, Ignored
  <2> QED BY <2>1, <2>2
<1>3. Keeps(x, y) /\ (Sends(x, y, {}) \/ Sends(x, y, {MsgOf("Rendezvous", x.containers)}))
  BY <1>2, PushRendezvousKeeps
<1>4. \A m \in y.out : m.type = "Rendezvous" \/ m.type = "Accept"
  BY <1>2, <1>3 DEF Sends, MsgOf, MsgFrom
<1>5. Types(y) \subseteq {"Rendezvous", "Accept"}
  BY <1>4 DEF Types
<1>6. Orderly(y)
  BY <1>2, <1>3 DEF Orderly, Keeps, SameOrders
<1>7. Linked(y)
  <2>1. y.containers \subseteq DOMAIN boxes /\ y.containerSockets \subseteq DOMAIN boxes
    BY <1>1, <1>2, <1>3 DEF Keeps, SameLinks
  <2>2. ASSUME NEW d, MsgFrom("Accept", d) \in y.out
        PROVE  /\ Now.type = "containerConnected" /\ Now.from = d
               /\ d \in y.containerSockets /\ d \in t.containerRanks
    <3>1. MsgFrom("Accept", d) # MsgOf("Rendezvous", x.containers)
      BY DEF MsgFrom, MsgOf
    <3>2. MsgFrom("Accept", d) \in x.out
      BY <1>3, <2>2, <3>1 DEF Sends
    <3>3. MsgFrom("Accept", d) = MsgFrom("Accept", c)
      BY <1>2, <3>2
    <3>4. d = c
      BY <3>3 DEF MsgFrom
    <3> QED BY <1>2, <1>3, <3>2, <3>4 DEF Keeps, SameLinks
  <2> QED BY <2>1, <2>2 DEF Linked
<1>8. Caused(y)
  BY <1>4, MsgType DEF Caused
<1>9. Sober(y)
  BY <1>4 DEF Sober
<1>10. Going(t, y)
  BY <1>2, <1>3, <1>5 DEF Going, SameTrial, Keeps, SameRun, SameLinks
<1> QED BY <1>1, <1>4, <1>5, <1>6, <1>7, <1>8, <1>9, <1>10 DEF HandlerOutcome, Outcome

LEMMA ConnectedOutcome ==
    ASSUME IInv, t.status = "up", t.task # 0, inbox # <<>>, Now.type = "containerConnected",
           NEW y, y = processContainerConnected(t, Now.from)
    PROVE  HandlerOutcome(y)
<1>1. IsTrial(t) /\ Now.from \in DOMAIN boxes
  BY NowIsFirst DEF IInv, RunOK, ReportsOK
<1>2. CASE Now.from \notin t.containerRanks
  BY <1>2, IgnoredMessage DEF processContainerConnected
<1>3. CASE Now.from \in t.containerRanks
  <2>1. PICK x : x = Send([t EXCEPT !.containerSockets = @ \cup {Now.from}],
                          MsgFrom("Accept", Now.from))
    OBVIOUS
  <2>2. x = [t EXCEPT !.containerSockets = @ \cup {Now.from},
                      !.out = @ \cup {MsgFrom("Accept", Now.from)}]
    BY <1>1, <2>1 DEF Send, IsTrial, TrialFields
  <2>3. y = pushRendezvous(x)
    BY <1>3, <2>1 DEF processContainerConnected
  <2> QED BY <1>1, <1>3, <2>2, <2>3, NotedOutcome
<1> QED BY <1>2, <1>3

LEMMA RunningOutcome ==
    ASSUME IInv, t.status = "up", t.task # 0, inbox # <<>>, Now.type = "StateChanged",
           NEW y, y = processContainerRunning(t, Now.from)
    PROVE  HandlerOutcome(y)
<1>1. Now.from \in DOMAIN boxes /\ Now.from \in t.containerRanks
  BY NowIsFirst DEF IInv, ReportsOK, Over
<1> QED BY <1>1, NotedOutcome DEF processContainerRunning

\* The exit of a container: y has noted it, z has taken the run down if need be.
LEMMA ExitOutcome ==
    ASSUME IInv, t.status = "up", t.task # 0, inbox # <<>>, Now.type = "StateChanged",
           Now.of # "running", NEW v, v = processContainerTerminated(t, Now.from, Now.of)
    PROVE  HandlerOutcome(v)
<1>1. /\ IsTrial(t) /\ t.out = {} /\ ~Closed(t)
      /\ t.containers \subseteq DOMAIN boxes /\ t.containerSockets \subseteq DOMAIN boxes
  BY DEF IInv, RunOK, KnownOK, Closed
<1>2. PICK c : c = Now.from
  OBVIOUS
<1>3. c \in t.containerRanks /\ c \notin DOMAIN t.terminatedContainers
  BY <1>2, NowIsFirst DEF IInv, ReportsOK, Over
<1>4. /\ c \in t.allocations /\ DOMAIN t.terminatedContainers \subseteq t.allocations
      /\ IsFiniteSet(t.allocations)
  BY <1>3, ContainersOf DEF IInv, RunOK
<1>5. PICK e : e = TerminatedContainer(t, Now.of)
  OBVIOUS
<1>6. PICK w : w = [t EXCEPT !.startedContainers = @ \cup {c},
                             !.terminatedContainers = Put(@, c, e),
                             !.containers = @ \ {c}]
  OBVIOUS
<1>7. /\ IsTrial(w) /\ w.out = {} /\ SameOrders(t, w) /\ w.status = t.status
      /\ (Ignored(t) <=> Ignored(w)) /\ w.runID = t.runID /\ w.task = t.task
      /\ w.restarts = t.restarts /\ w.allocations = t.allocations
      /\ w.containerRanks = t.containerRanks /\ w.containerSockets = t.containerSockets
      /\ w.deadChildren = t.deadChildren /\ w.containers \subseteq t.containers
      /\ w.startedContainers = t.startedContainers \cup {c}
      /\ w.terminatedContainers = Put(t.terminatedContainers, c, e)
  BY <1>1, <1>6 DEF IsTrial, TrialFields, SameOrders, Ignored
<1>8. DOMAIN w.terminatedContainers = DOMAIN t.terminatedContainers \cup {c}
  BY <1>7 DEF Put
<1>9. PICK y : y = killAndRemoveSocket(w, c)
  OBVIOUS
<1>10. /\ IsTrial(y) /\ y.out = {} /\ SameOrders(w, y) /\ y.status = w.status
       /\ (Ignored(w) <=> Ignored(y)) /\ SameRun(w, y) /\ y.containers = w.containers
       /\ y.containerSockets = w.containerSockets \ {c}
       /\ y.deadChildren = w.deadChildren \cup (w.containerSockets \cap {c})
  BY <1>7, <1>9 DEF killAndRemoveSocket, IsTrial, TrialFields, SameOrders, SameRun, Ignored
<1>11. PICK z : z = IF c \notin t.containers \/ IsLeader(c) \/ Now.of = "fail"
                    THEN terminate(y, TRUE) ELSE y
  OBVIOUS
<1>12. Keeps(y, z) /\ z.out \subseteq {Msg("Kill")} /\ (Ignored(z) => Ignored(y))
  <2>1. y.allocations # {}
    BY <1>4, <1>7, <1>10 DEF SameRun
  <2>2. CASE z = y
    BY <1>10, <2>2 DEF Keeps, SameRun, SameLinks, SameOrders
  <2>3. CASE z = terminate(y, TRUE)
    <3>1. Keeps(y, z) /\ (Sends(y, z, {}) \/ Sends(y, z, {Msg("Kill")}))
      BY <1>10, <2>1, <2>3, TerminateCases
    <3>2. Ignored(z) => Ignored(y)
      BY <1>10, <2>1, <2>3 DEF terminate, Send, IsTrial, TrialFields, Ignored
    <3> QED BY <1>10, <3>1, <3>2 DEF Sends
  <2> QED BY <1>11, <2>2, <2>3
<1>13. v = IF Cardinality(DOMAIN z.terminatedContainers) = Cardinality(z.allocations)
           THEN terminated(z) ELSE z
  BY <1>2, <1>5, <1>6, <1>9, <1>11 DEF processContainerTerminated
<1>14. /\ DOMAIN z.terminatedContainers = DOMAIN t.terminatedContainers \cup {c}
       /\ z.allocations = t.allocations
  BY <1>7, <1>8, <1>10, <1>12 DEF Keeps, SameRun
<1>15. Exiting(t, z, c)
  <2>1. \A m \in z.out : m.type = "Kill"
    BY <1>12, MsgType
  <2>2. Types(z) \cap {"Start", "AllocateRequest", "ResourcesReleased"} = {}
    BY <2>1 DEF Types
  <2>3. SameTrial(t, z)
    BY <1>7, <1>10, <1>12 DEF SameTrial, Keeps, SameRun
  <2> QED BY <1>3, <1>7, <1>8, <1>10, <1>12, <2>2, <2>3
          DEF Exiting, Keeps, SameRun, SameLinks
<1>16. CASE v = z
  <2>1. \A m \in v.out : m.type = "Kill"
    BY <1>12, <1>16, MsgType
  <2>2. Types(v) \cap {"stop", "AllocateRequest"} = {} /\ Sober(v)
    BY <2>1 DEF Types, Sober
  <2>3. Orderly(v) /\ Caused(v)
    BY <1>7, <1>10, <1>12, <1>16 DEF Orderly, SameOrders, Keeps, Caused
  <2>4. Linked(v)
    BY <1>1, <1>7, <1>10, <1>12, <1>16, <2>1 DEF Linked, Keeps, SameLinks, MsgFrom
  <2> QED BY <1>1, <1>2, <1>15, <1>16, <2>1, <2>2, <2>3, <2>4 DEF HandlerOutcome, Outcome
<1>17. CASE v # z
  <2>1. LastExit(t, c)
    <3>1. Cardinality(DOMAIN z.terminatedContainers) = Cardinality(t.allocations)
      BY <1>13, <1>14, <1>17
    <3>2. DOMAIN z.terminatedContainers \in SUBSET t.allocations
      BY <1>4, <1>14
    <3> QED BY <1>4, <1>14, <3>1, <3>2, FS_Subset DEF LastExit
  <2>2. v = terminated(z)
    BY <1>13, <1>17
  <2>3. Ends(z, v) /\ Sends(z, v, {Msg("ResourcesReleased")})
    BY <1>12, <2>2, TerminatedEnds DEF Keeps
  <2>4. /\ \A m \in v.out : m.type \in {"Kill", "ResourcesReleased"}
        /\ Msg("ResourcesReleased") \in v.out
    BY <1>12, <2>3, MsgType DEF Sends
  <2>5. /\ Types(v) \subseteq {"Kill", "ResourcesReleased"} /\ "ResourcesReleased" \in Types(v)
        /\ Sober(v)
    BY <2>4, MsgType DEF Types, Sober
  <2>6. Orderly(v) /\ Caused(v)
    BY <1>7, <1>10, <1>12, <2>3 DEF Orderly, SameOrders, Keeps, Caused, Ends
  <2>7. Linked(v)
    BY <1>1, <1>7, <1>10, <1>12, <2>3, <2>4 DEF Linked, Keeps, SameLinks, MsgFrom, Ends
  <2>8. Ending(t, v)
    BY <1>7, <1>10, <1>12, <2>3, <2>5 DEF Ending, Keeps, Ends, SameRun
  <2>9. EndingLast(t, v, c)
    BY <1>3, <1>7, <1>10, <1>12, <2>1, <2>3, <2>8 DEF EndingLast, Keeps, Ends, SameRun, SameLinks
  <2>10. v.task = 0
    BY <2>3 DEF Ends
  <2> QED BY <1>1, <1>2, <2>5, <2>6, <2>7, <2>9, <2>10 DEF HandlerOutcome, Outcome
<1> QED BY <1>16, <1>17

LEMMA AllocatedOutcome ==
    ASSUME IInv, t.status = "up", t.task # 0, inbox # <<>>, Now.type = "ResourcesAllocated",
           NEW saved, NEW v, v = processAllocated(t, Now.of, saved)
    PROVE  HandlerOutcome(v)
<1>1. /\ IsTrial(t) /\ t.out = {} /\ ~Closed(t) /\ t.task = t.runID + 1
      /\ t.containers \subseteq DOMAIN boxes /\ t.containerSockets \subseteq DOMAIN boxes
  BY DEF IInv, RunOK, KnownOK, Closed
<1>2. CASE Now.of # t.task
  BY <1>2, IgnoredMessage DEF processAllocated
<1>3. CASE Now.of = t.task
  <2>1. t.allocations = {} /\ t.containerRanks = {}
    BY <1>1, <1>3, NowIsFirst DEF IInv, PlacedOK, RunOK
  <2> DEFINE Got(x) ==
        /\ IsTrial(x) /\ SameLinks(t, x) /\ SameOrders(t, x)
        /\ x.status = t.status /\ (Ignored(t) => Ignored(x))
        /\ x.runID = t.runID /\ x.task = t.task /\ x.restarts = t.restarts
        /\ x.allocations = Containers(t.task) /\ x.containerRanks = {}
        /\ x.terminatedContainers = t.terminatedContainers
        /\ x.startedContainers = t.startedContainers /\ x.out = {}
  <2>2. PICK y : y = [t EXCEPT !.allocations = Containers(t.task)]
    OBVIOUS
  <2>3. Got(y)
    BY <1>1, <2>1, <2>2 DEF IsTrial, TrialFields, SameLinks, SameOrders, Ignored
  <2>4. PICK i : i = [y EXCEPT !.idSet = TRUE]
    OBVIOUS
  <2>5. Got(i)
    BY <2>3, <2>4 DEF IsTrial, TrialFields, SameLinks, SameOrders, Ignored
  <2>6. PICK q : q = Sequencer(i)!CompleteCachedCheckpoints(SequencerOf(i))
    OBVIOUS
  <2>7. PICK r : r = [i EXCEPT !.state = q.state, !.snapshot = q.snapshot]
    OBVIOUS
  <2>8. Got(r)
    BY <2>5, <2>7 DEF IsTrial, TrialFields, SameLinks, SameOrders, Ignored
  <2>9. \/ v = terminate(y, TRUE) \/ v = terminate(i, TRUE)
        \/ v = [r EXCEPT !.status = "failed"]
        \/ v = Send([r EXCEPT !.containerRanks = Containers(t.task)], MsgOf("Start", Workload(r)))
    BY <1>3, <2>2, <2>4, <2>6, <2>7 DEF processAllocated, WithSequencer
  <2>10. ASSUME NEW x, Got(x), Keeps(x, v), v.out \subseteq {Msg("Kill")}
         PROVE  HandlerOutcome(v)
    <3>1. \A m \in v.out : m.type = "Kill"
      BY <2>10, MsgType
    <3>2. Types(v) \subseteq {"Kill"} /\ Sober(v)
      BY <3>1 DEF Types, Sober
    <3>3. Orderly(v) /\ Caused(v)
      BY <2>1, <2>10 DEF Orderly, Caused, Keeps, SameOrders
    <3>4. Linked(v)
      BY <1>1, <2>10, <3>1 DEF Linked, Keeps, SameLinks, MsgFrom
    <3>5. Placing(t, v)
      BY <1>1, <2>1, <2>10, <3>1, <3>2 DEF Placing, SameTrial, Keeps, SameRun, SameLinks
    <3> QED BY <1>1, <1>3, <3>1, <3>2, <3>3, <3>4, <3>5 DEF HandlerOutcome, Outcome
  <2>11. ASSUME NEW x, Got(x), v = terminate(x, TRUE)
         PROVE  HandlerOutcome(v)
    <3>1. IsTrial(x) /\ x.allocations # {} /\ x.out = {}
      BY <2>11, ContainersOf
    <3>2. Keeps(x, v) /\ (Sends(x, v, {}) \/ Sends(x, v, {Msg("Kill")}))
      BY <2>11, <3>1, TerminateCases
    <3>3. v.out \subseteq {Msg("Kill")}
      BY <3>1, <3>2 DEF Sends
    <3> HIDE DEF Got
    <3> QED BY <2>10, <2>11, <3>2, <3>3
  <2>12. CASE v = [r EXCEPT !.status = "failed"]
    <3>1. Keeps(r, v) /\ v.out = {}
      BY <2>8, <2>12 DEF IsTrial, TrialFields, Keeps, SameRun, SameLinks, SameOrders, Ignored
    <3> HIDE DEF Got
    <3> QED BY <2>8, <2>10, <3>1
  <2>13. CASE v = Send([r EXCEPT !.containerRanks = Containers(t.task)],
                       MsgOf("Start", Workload(r)))
    <3>1. PICK x : x = [r EXCEPT !.containerRanks = Containers(t.task)]
      OBVIOUS
    <3>2. /\ IsTrial(x) /\ x.out = {} /\ x.containerRanks = Containers(t.task)
          /\ x.allocations = Containers(t.task)
          /\ SameLinks(t, x) /\ SameOrders(t, x)
          /\ x.status = t.status /\ (Ignored(t) => Ignored(x))
          /\ x.runID = t.runID /\ x.task = t.task /\ x.restarts = t.restarts
          /\ x.terminatedContainers = t.terminatedContainers
          /\ x.startedContainers = t.startedContainers
      BY <2>8, <3>1 DEF IsTrial, TrialFields, SameLinks, SameOrders, Ignored
    <3>3. v = [x EXCEPT !.out = @ \cup {MsgOf("Start", Workload(r))}]
      BY <2>13, <3>1 DEF Send
    <3>4. Keeps(x, v) /\ v.out = {MsgOf("Start", Workload(r))}
      BY <3>2, <3>3 DEF IsTrial, TrialFields, Keeps, SameRun, SameLinks, SameOrders, Ignored
    <3>5. \A m \in v.out : m.type = "Start" /\ m.of # TERMINATE
      BY <3>4, MsgType, WorkloadGoesOn
    <3>6. Types(v) = {"Start"} /\ Sober(v)
      <4>1. MsgOf("Start", Workload(r)) \in v.out
        BY <3>4
      <4> QED BY <4>1, <3>5 DEF Types, Sober
    <3>7. Orderly(v)
      BY <3>2, <3>4 DEF Orderly, Keeps, SameOrders
    <3>8. Caused(v)
      BY <2>1 DEF Caused
    <3>9. Linked(v)
      BY <1>1, <3>2, <3>4, <3>5 DEF Linked, Keeps, SameLinks, MsgFrom
    <3>10. Placing(t, v)
      BY <1>1, <2>1, <3>2, <3>4, <3>5, <3>6 DEF Placing, SameTrial, Keeps, SameRun, SameLinks
    <3> QED BY <1>1, <1>3, <3>5, <3>6, <3>7, <3>8, <3>9, <3>10 DEF HandlerOutcome, Outcome
  <2> HIDE DEF Got
  <2> QED BY <2>3, <2>5, <2>9, <2>11, <2>12, <2>13
<1> QED BY <1>2, <1>3

\* What the handler of the message makes of the trial.
Result(y) ==
    \/ /\ Now.type \notin {"Completed", "Operations"}
       /\ y \in {t, releaseResource(t), terminate(t, TRUE), terminate([t EXCEPT !.killed = TRUE], TRUE)}
    \/ Now.type = "State" /\ y = [t EXCEPT !.experimentState = Now.of]
    \/ Now.type = "Close" /\ y = [t EXCEPT !.close = TRUE]
    \/ Now.type = "Operations" /\ y = [t EXCEPT !.ops = @ \o Now.of]
    \/ t.task # 0 /\ Now.type = "containerConnected" /\ y = processContainerConnected(t, Now.from)
    \/ /\ t.task # 0 /\ Now.type = "StateChanged" /\ Now.of = "running"
       /\ y = processContainerRunning(t, Now.from)
    \/ /\ t.task # 0 /\ Now.type = "StateChanged" /\ Now.of # "running"
       /\ y = processContainerTerminated(t, Now.from, Now.of)
    \/ /\ t.task # 0 /\ Now.type = "ResourcesAllocated"
       /\ \E saved : y = processAllocated(t, Now.of, saved)
    \/ /\ Now.type = "Completed"
       /\ IF t.task # 0 THEN \E isBest : y = processCompletedWorkload(t, Now, isBest) ELSE y = t
    \/ Now.type = "sendNextWorkload" /\ Now.of = t.runID /\ y = sendNextWorkload(t)

\* Every message but a stop has one of the outcomes, with a handler's result.
LEMMA ReceiveHandles ==
    ASSUME IInv, Receive, ~ReceiveFromDeadChild, ~ReceiveStop
    PROVE  /\ t.status = "up" /\ inbox # <<>>
           /\ \E y : HandlerOutcome(y) /\ Result(y) /\ Handled(y)
           /\ Now.type \in {"Completed", "ChildFailed"} => Now.from \notin t.deadChildren
<1> DEFINE Goal == \E y : HandlerOutcome(y) /\ Result(y) /\ Handled(y)
<1>2. t.status = "up" => HandlerOutcome(t)
  BY IgnoredMessage
<1>3. ASSUME NEW y, t.task # 0 => HandlerOutcome(y) /\ Result(y), t.task = 0 => Result(t),
             t.status = "up", RunningReceive(y)
      PROVE  Goal
  <2>1. PICK x : x = (IF t.task # 0 THEN y ELSE t) /\ Handled(x)
    BY <1>3 DEF RunningReceive
  <2>2. HandlerOutcome(x) /\ Result(x)
    BY <1>2, <1>3, <2>1
  <2> QED BY <2>1, <2>2
<1>1. Now.type \notin {"Completed", "Operations"} => Result(t)
  BY DEF Result
<1> USE DEF Received
<1>4. CASE ReceiveState
  <2>1. PICK y : y = [t EXCEPT !.experimentState = Now.of] /\ Handled(y)
    BY <1>4 DEF ReceiveState, Now
  <2>2. t.status = "up" /\ inbox # <<>> /\ Now.type = "State"
    BY <1>4 DEF ReceiveState, Now
  <2>3. HandlerOutcome(y)
    BY <2>1, <2>2, ToldOutcome
  <2>4. Result(y)
    BY <2>1, <2>2 DEF Result
  <2> QED BY <2>1, <2>2, <2>3, <2>4
<1>5. CASE ReceiveOperations
  <2>1. PICK y : y = [t EXCEPT !.ops = @ \o Now.of] /\ Handled(y)
    BY <1>5 DEF ReceiveOperations, Now
  <2>2. t.status = "up" /\ inbox # <<>> /\ Now.type = "Operations"
    BY <1>5 DEF ReceiveOperations, Now
  <2>3. HandlerOutcome(y)
    BY <2>1, <2>2, ToldOutcome
  <2>4. Result(y)
    BY <2>1, <2>2 DEF Result
  <2> QED BY <2>1, <2>2, <2>3, <2>4
<1>6. CASE ReceiveClose
  <2>1. PICK y : y = [t EXCEPT !.close = TRUE] /\ Handled(y)
    BY <1>6 DEF ReceiveClose, Now
  <2>2. t.status = "up" /\ inbox # <<>> /\ Now.type = "Close"
    BY <1>6 DEF ReceiveClose, Now
  <2>3. HandlerOutcome(y)
    BY <2>1, <2>2, ToldOutcome
  <2>4. Result(y)
    BY <2>1, <2>2 DEF Result
  <2> QED BY <2>1, <2>2, <2>3, <2>4
<1>7. CASE ReceiveAborted
  <2>1. t.status = "up" /\ inbox # <<>> /\ Now.type = "trialAborted" /\ Handled(t)
    BY <1>7 DEF ReceiveAborted, Now
  <2> QED BY <1>2, <1>1, <2>1
<1>8. CASE ReceiveAllocated
  <2>1. PICK saved, y : y = processAllocated(t, Now.of, saved) /\ RunningReceive(y)
    BY <1>8 DEF ReceiveAllocated, Now
  <2>2. t.status = "up" /\ inbox # <<>> /\ Now.type = "ResourcesAllocated"
    BY <1>8 DEF ReceiveAllocated, Now
  <2>3. t.task # 0 => HandlerOutcome(y)
    BY <2>1, <2>2, AllocatedOutcome
  <2>4. t.task # 0 => Result(y)
    BY <2>1, <2>2 DEF Result
  <2>5. Goal
    BY <1>3, <1>1, <2>1, <2>2, <2>3, <2>4
  <2> QED BY <2>2, <2>5
<1>9. CASE ReceiveRelease
  <2>1. PICK y : y = releaseResource(t) /\ RunningReceive(y)
    BY <1>9 DEF ReceiveRelease
  <2>2. t.status = "up" /\ inbox # <<>> /\ Now.type = "ReleaseResources"
    BY <1>9 DEF ReceiveRelease, Now
  <2>3. t.task # 0 => HandlerOutcome(y)
    BY <2>1, <2>2, ReleaseOutcome
  <2>4. Result(y)
    BY <2>1, <2>2 DEF Result
  <2>5. Goal
    BY <1>3, <1>1, <2>1, <2>2, <2>3, <2>4
  <2> QED BY <2>2, <2>5
<1>10. CASE ReceiveConnected
  <2>1. PICK y : y = processContainerConnected(t, Now.from) /\ RunningReceive(y)
    BY <1>10 DEF ReceiveConnected, Now
  <2>2. t.status = "up" /\ inbox # <<>> /\ Now.type = "containerConnected"
    BY <1>10 DEF ReceiveConnected, Now
  <2>3. t.task # 0 => HandlerOutcome(y)
    BY <2>1, <2>2, ConnectedOutcome
  <2>4. t.task # 0 => Result(y)
    BY <2>1, <2>2 DEF Result
  <2>5. Goal
    BY <1>3, <1>1, <2>1, <2>2, <2>3, <2>4
  <2> QED BY <2>2, <2>5
<1>11. CASE ReceiveStateChanged
  <2>1. PICK y : /\ y = IF Now.of = "running" THEN processContainerRunning(t, Now.from)
                        ELSE processContainerTerminated(t, Now.from, Now.of)
                 /\ RunningReceive(y)
    BY <1>11 DEF ReceiveStateChanged, Now
  <2>2. t.status = "up" /\ inbox # <<>> /\ Now.type = "StateChanged"
    BY <1>11 DEF ReceiveStateChanged, Now
  <2>3. t.task # 0 => HandlerOutcome(y)
    BY <2>1, <2>2, RunningOutcome, ExitOutcome
  <2>4. t.task # 0 => Result(y)
    BY <2>1, <2>2 DEF Result
  <2>5. Goal
    BY <1>3, <1>1, <2>1, <2>2, <2>3, <2>4
  <2> QED BY <2>2, <2>5
<1>12. CASE ReceiveCompleted
  <2>1. PICK isBest, y : y = processCompletedWorkload(t, Now, isBest) /\ RunningReceive(y)
    BY <1>12 DEF ReceiveCompleted, Now
  <2>2. t.status = "up" /\ inbox # <<>> /\ Now.type = "Completed" /\ Now.from \notin t.deadChildren
    BY <1>12 DEF ReceiveCompleted, Now
  <2>3. t.task # 0 => HandlerOutcome(y)
    BY <2>1, <2>2, CompletedOutcome
  <2>4. (t.task # 0 => Result(y)) /\ (t.task = 0 => Result(t))
    BY <2>1, <2>2 DEF Result
  <2>5. Goal
    BY <1>3, <2>1, <2>2, <2>3, <2>4
  <2> QED BY <2>2, <2>5
<1>13. CASE ReceiveSendNextWorkload
  <2>1. PICK y : y = (IF Now.of = t.runID THEN sendNextWorkload(t) ELSE t) /\ RunningReceive(y)
    BY <1>13 DEF ReceiveSendNextWorkload, Now
  <2>2. t.status = "up" /\ inbox # <<>> /\ Now.type = "sendNextWorkload"
    BY <1>13 DEF ReceiveSendNextWorkload, Now
  <2>3. t.task # 0 => HandlerOutcome(y)
    <3>1. PICK x : x = t
      OBVIOUS
    <3>2. Keeps(t, x) /\ x.out = {}
      BY <3>1 DEF IInv, RunOK, Keeps, SameRun, SameLinks, SameOrders
    <3> QED BY <1>2, <2>1, <2>2, <3>1, <3>2, SendNextOutcome
  <2>4. Result(y)
    BY <1>1, <2>1, <2>2 DEF Result
  <2>5. Goal
    BY <1>3, <1>1, <2>1, <2>2, <2>3, <2>4
  <2> QED BY <2>2, <2>5
<1>14. CASE ReceiveChildFailed
  <2>1. PICK y : y = terminate(t, TRUE) /\ RunningReceive(y)
    BY <1>14 DEF ReceiveChildFailed
  <2>2. t.status = "up" /\ inbox # <<>> /\ Now.type = "ChildFailed" /\ Now.from \notin t.deadChildren
    BY <1>14 DEF ReceiveChildFailed, Now
  <2>3. t.task # 0 => HandlerOutcome(y)
    BY <2>1, <2>2, TerminateOutcome
  <2>4. Result(y)
    BY <2>1, <2>2 DEF Result
  <2>5. Goal
    BY <1>3, <1>1, <2>1, <2>2, <2>3, <2>4
  <2> QED BY <2>2, <2>5
<1>15. CASE ReceiveKill
  <2>1. PICK y : y = terminate([t EXCEPT !.killed = TRUE], TRUE) /\ RunningReceive(y)
    BY <1>15 DEF ReceiveKill
  <2>2. t.status = "up" /\ inbox # <<>> /\ Now.type = "killTrial"
    BY <1>15 DEF ReceiveKill, Now
  <2>3. t.task # 0 => HandlerOutcome(y)
    BY <2>1, <2>2, KillOutcome
  <2>4. Result(y)
    BY <2>1, <2>2 DEF Result
  <2>5. Goal
    BY <1>3, <1>1, <2>1, <2>2, <2>3, <2>4
  <2> QED BY <2>2, <2>5
<1>16. CASE ReceiveTerminateTimeout
  <2>1. PICK y : y = (IF Now.of = t.runID THEN terminate(t, TRUE) ELSE t) /\ RunningReceive(y)
    BY <1>16 DEF ReceiveTerminateTimeout, Now
  <2>2. t.status = "up" /\ inbox # <<>> /\ Now.type = "terminateTimeout"
    BY <1>16 DEF ReceiveTerminateTimeout, Now
  <2>3. t.task # 0 => HandlerOutcome(y)
    BY <1>2, <2>1, <2>2, TerminateOutcome
  <2>4. Result(y)
    BY <2>1, <2>2 DEF Result
  <2>5. Goal
    BY <1>3, <1>1, <2>1, <2>2, <2>3, <2>4
  <2> QED BY <2>2, <2>5
<1> QED
  BY <1>4, <1>5, <1>6, <1>7, <1>8, <1>9, <1>10, <1>11, <1>12, <1>13, <1>14, <1>15, <1>16
  DEF Receive

LEMMA ReceiveOutcome ==
    ASSUME IInv, Receive, ~ReceiveFromDeadChild, ~ReceiveStop
    PROVE  /\ t.status = "up" /\ inbox # <<>>
           /\ \E z : MessageOutcome(z) /\ Effects(z)
           /\ Now.type \in {"Completed", "ChildFailed"} => Now.from \notin t.deadChildren
<1>1. PICK y : HandlerOutcome(y) /\ Handled(y)
  BY ReceiveHandles
<1>2. t.status = "up" /\ inbox # <<>>
  BY ReceiveHandles
<1>3. PICK z : z = AfterMessage(y) /\ Effects(z)
  BY <1>1 DEF Handled
<1>4. MessageOutcome(z)
  BY <1>1, <1>2, <1>3, AfterMessageOutcome DEF IInv
<1> QED BY <1>3, <1>4, ReceiveHandles

(***************************************************************************)
(* Inboxes.                                                                *)
(***************************************************************************)
LEMMA SeqIsSeq ==
    ASSUME NEW S, NEW s \in Seq(S)
    PROVE  IsSeq(s) /\ Len(s) \in Nat /\ DOMAIN s = 1 .. Len(s)
<1>1. Len(s) \in Nat /\ s \in [1 .. Len(s) -> S] /\ DOMAIN s = 1 .. Len(s)
  OBVIOUS
<1> DEFINE T == {s[i] : i \in DOMAIN s}
<1>2. s \in [1 .. Len(s) -> T]
  BY <1>1
<1> HIDE DEF T
<1>3. s \in Seq(T)
  BY <1>1, <1>2, IsASeq
<1> USE DEF T
<1> QED BY <1>1, <1>3 DEF IsSeq

\* A message of q is one of p or is the message m after all of them.
Extends(p, m, q) ==
    /\ IsSeq(q) /\ Len(q) = Len(p) + 1 /\ Len(p) \in Nat /\ q # <<>>
    /\ \A i \in 1 .. Len(p) : q[i] = p[i]
    /\ q[Len(p) + 1] = m

LEMMA Appended ==
    ASSUME NEW p, NEW m, NEW q, IsSeq(p), q = Append(p, m)
    PROVE  Extends(p, m, q)
<1> DEFINE S == {p[i] : i \in DOMAIN p} \cup {m}
<1>1. p \in Seq(S) /\ m \in S
  <2>1. p \in Seq({p[i] : i \in DOMAIN p})
    BY DEF IsSeq
  <2>2. Len(p) \in Nat /\ p \in [1 .. Len(p) -> S] /\ m \in S
    BY <2>1
  <2> QED BY <2>2
<1> HIDE DEF S
<1>2. q \in Seq(S) /\ Len(p) \in Nat /\ Len(q) = Len(p) + 1
  BY <1>1
<1>3. (\A i \in 1 .. Len(p) : q[i] = p[i]) /\ q[Len(p) + 1] = m
  BY <1>1, <1>2
<1>4. IsSeq(q)
  BY <1>2, SeqIsSeq
<1>5. q # <<>>
  BY <1>2
<1> QED BY <1>2, <1>3, <1>4, <1>5 DEF Extends

LEMMA Popped ==
    ASSUME NEW p, IsSeq(p), p # <<>>, NEW q, q = Tail(p)
    PROVE  /\ IsSeq(q) /\ Len(q) = Len(p) - 1 /\ Len(p) \in Nat \ {0}
           /\ \A i \in 1 .. Len(q) : q[i] = p[i + 1] /\ i + 1 \in 1 .. Len(p)
<1> DEFINE S == {p[i] : i \in DOMAIN p}
<1>1. p \in Seq(S)
  BY DEF IsSeq
<1> HIDE DEF S
<1>2. q \in Seq(S) /\ Len(p) \in Nat \ {0} /\ Len(q) = Len(p) - 1
  BY <1>1
<1>3. \A i \in 1 .. Len(q) : q[i] = p[i + 1] /\ i + 1 \in 1 .. Len(p)
  BY <1>1, <1>2
<1>4. IsSeq(q)
  BY <1>2, SeqIsSeq
<1> QED BY <1>2, <1>3, <1>4

\* What the actor sends itself comes after what it had not handled yet.
LEMMA InboxAfter ==
    ASSUME IsSeq(inbox), inbox # <<>>, NEW z, Effects(z)
    PROVE  /\ IsSeq(inbox') /\ Len(inbox') \in Nat /\ Len(inbox) \in Nat
           /\ \A i \in 1 .. Len(inbox') :
                 \/ i + 1 \in 1 .. Len(inbox) /\ inbox'[i] = inbox[i + 1]
                 \/ inbox'[i].type = "trialAborted"
                 \/ inbox'[i].type = "stop" /\ "stop" \in Types(z)
<1>1. PICK p : p = Tail(inbox)
  OBVIOUS
<1>2. PICK a : a = (IF Sent(z, "trialAborted") # {} THEN <<Msg("trialAborted")>> ELSE <<>>)
  OBVIOUS
<1>3. PICK b : b = (IF Sent(z, "stop") # {} THEN <<Msg("stop")>> ELSE <<>>)
  OBVIOUS
<1>4. inbox' = p \o a \o b
  BY <1>1, <1>2, <1>3 DEF Effects
<1>5. /\ IsSeq(p) /\ Len(p) = Len(inbox) - 1 /\ Len(inbox) \in Nat \ {0}
      /\ \A i \in 1 .. Len(p) : p[i] = inbox[i + 1] /\ i + 1 \in 1 .. Len(inbox)
  BY <1>1, Popped
<1>6. PICK q : q = p \o a
  OBVIOUS
<1>7. /\ IsSeq(q) /\ Len(q) \in Nat
      /\ \A i \in 1 .. Len(q) : (i \in 1 .. Len(p) /\ q[i] = p[i]) \/ q[i].type = "trialAborted"
  <2>1. p \in Seq({p[i] : i \in DOMAIN p}) /\ Len(p) \in Nat
    BY <1>5 DEF IsSeq
  <2>2. CASE a = <<>>
    <3>1. q = p
      BY <1>6, <2>1, <2>2
    <3> QED BY <1>5, <2>1, <3>1
  <2>3. CASE a = <<Msg("trialAborted")>>
    <3>1. q = Append(p, Msg("trialAborted"))
      BY <1>6, <2>1, <2>3
    <3>2. /\ IsSeq(q) /\ Len(q) = Len(p) + 1
          /\ \A i \in 1 .. Len(p) : q[i] = p[i]
          /\ q[Len(p) + 1] = Msg("trialAborted")
      <4>1. Extends(p, Msg("trialAborted"), q)
        BY <1>5, <3>1, Appended
      <4> QED BY <4>1 DEF Extends
    <3>3. \A i \in 1 .. Len(q) : i \in 1 .. Len(p) \/ i = Len(p) + 1
      BY <2>1, <3>2
    <3> QED BY <2>1, <3>2, <3>3, MsgType
  <2> QED BY <1>2, <2>2, <2>3
<1>8. /\ IsSeq(inbox') /\ Len(inbox') \in Nat
      /\ \A i \in 1 .. Len(inbox') : \/ i \in 1 .. Len(q) /\ inbox'[i] = q[i]
                                     \/ inbox'[i].type = "stop" /\ "stop" \in Types(z)
  <2>0. inbox' = q \o b
    BY <1>4, <1>6
  <2>1. q \in Seq({q[i] : i \in DOMAIN q}) /\ Len(q) \in Nat
    BY <1>7 DEF IsSeq
  <2>2. CASE b = <<>>
    <3>1. inbox' = q
      BY <2>0, <2>1, <2>2
    <3> QED BY <1>7, <2>1, <3>1
  <2>3. CASE b = <<Msg("stop")>> /\ Sent(z, "stop") # {}
    <3>0. "stop" \in Types(z)
      BY <2>3 DEF Sent, Types
    <3>1. PICK r : r = Append(q, Msg("stop")) /\ r = inbox'
      <4>1. q \o <<Msg("stop")>> = Append(q, Msg("stop"))
        BY <2>1
      <4> QED BY <2>0, <2>3, <4>1
    <3>2. /\ IsSeq(r) /\ Len(r) = Len(q) + 1
          /\ \A i \in 1 .. Len(q) : r[i] = q[i]
          /\ r[Len(q) + 1] = Msg("stop")
      <4>1. Extends(q, Msg("stop"), r)
        BY <1>7, <3>1, Appended
      <4> QED BY <4>1 DEF Extends
    <3>3. \A i \in 1 .. Len(r) : i \in 1 .. Len(q) \/ i = Len(q) + 1
      BY <2>1, <3>2
    <3>4. \A i \in 1 .. Len(r) : \/ i \in 1 .. Len(q) /\ r[i] = q[i]
                                 \/ r[i].type = "stop"
      BY <3>2, <3>3, MsgType
    <3> QED BY <2>1, <3>0, <3>1, <3>2, <3>4
  <2> QED BY <1>3, <2>2, <2>3
<1> QED BY <1>5, <1>7, <1>8

(***************************************************************************)
(* What handling a message does to the invariant.                          *)
(***************************************************************************)
LEMMA EffectsTrial ==
    ASSUME NEW z, IsTrial(z), Effects(z)
    PROVE  /\ IsTrial(t') /\ t'.out = {} /\ t'.status = z.status
           /\ SameRun(z, t') /\ SameLinks(z, t') /\ SameOrders(z, t')
           /\ Ignored(t') <=> Ignored(z)
           /\ Closed(t)' <=> Closed(z)
<1>1. PICK y : y = [z EXCEPT !.out = {}] /\ t' = y
  BY DEF Effects
<1>2. /\ IsTrial(y) /\ y.out = {} /\ y.status = z.status
      /\ SameRun(z, y) /\ SameLinks(z, y) /\ SameOrders(z, y)
      /\ Ignored(y) <=> Ignored(z)
      /\ y.ops = z.ops /\ y.state = z.state /\ y.earlyExit = z.earlyExit /\ y.killed = z.killed
  BY <1>1 DEF IsTrial, TrialFields, SameRun, SameLinks, SameOrders, Ignored
<1>3. trialClosing(y) <=> trialClosing(z)
  BY <1>2, ClosingDepends DEF SameRun, SameOrders
<1>4. Closed(y) <=> Closed(z)
  BY <1>2, <1>3 DEF Closed, SameRun
<1> QED BY <1>1, <1>2, <1>4

LEMMA OutcomeIsTrial ==
    ASSUME NEW z, Outcome(z)
    PROVE  IsTrial(z) /\ z.status \in {"up", "failed", "panicked"}
BY DEF Outcome, Going, Requesting, Placing, EndingEmpty, Exiting, EndingLast, Ending, SameTrial

LEMMA SentTypes ==
    ASSUME NEW z, NEW type
    PROVE  Sent(z, type) # {} <=> type \in Types(z)
BY DEF Sent, Types

\* The containers of the run after a message, and the request at the pool.
LEMMA EffectsRun ==
    ASSUME IInv, NEW z, Outcome(z), Effects(z)
    PROVE  RunOK(t')
<1>1. /\ IsTrial(t') /\ t'.status = z.status /\ SameRun(z, t')
      /\ z.status \in {"up", "failed", "panicked"}
  BY EffectsTrial, OutcomeIsTrial
<1>2. RunOK(t) /\ MaxRollbacks \in Nat
  BY TrialAssumption DEF IInv
<1>3. CASE Going(t, z)
  BY <1>1, <1>2, <1>3 DEF RunOK, SameRun, Going, SameTrial
<1>4. CASE Requesting(t, z)
  BY <1>1, <1>2, <1>4 DEF RunOK, SameRun, Requesting, SameTrial
<1>5. CASE Placing(t, z)
  BY <1>1, <1>2, <1>5 DEF RunOK, SameRun, Placing, SameTrial
<1>6. CASE EndingEmpty(t, z) \/ EndingLast(t, z, Now.from)
  <2>1. /\ Ending(t, z) /\ z.restarts \in {t.restarts, t.restarts + 1}
    BY <1>6 DEF EndingEmpty, EndingLast
  <2>2. DOMAIN z.terminatedContainers = {}
    BY <2>1 DEF Ending, Nothing
  <2>3. t.restarts \in 0 .. MaxRollbacks
    BY <1>2, <2>1 DEF Ending, RunOK
  <2>4. z.restarts \in 0 .. MaxRollbacks + 1
    BY <1>2, <2>1, <2>3
  <2> QED BY <1>1, <1>2, <2>1, <2>2, <2>4 DEF RunOK, SameRun, Ending
<1>7. CASE Exiting(t, z, Now.from)
  BY <1>1, <1>2, <1>7 DEF RunOK, SameRun, Exiting, SameTrial
<1> QED BY <1>3, <1>4, <1>5, <1>6, <1>7 DEF Outcome

\* A container is over for the trial after a message only if it was before, or
\* if the message was its exit.
LEMMA OverAfter ==
    ASSUME IInv, NEW z, Outcome(z), NEW c \in DOMAIN boxes, Over(z, c)
    PROVE  Over(t, c) \/ (Now.type = "StateChanged" /\ Now.of # "running" /\ Now.from = c)
<1>1. RunOK(t)
  BY DEF IInv
<1>2. CASE Going(t, z)
  BY <1>2 DEF Going, Over
<1>3. CASE Requesting(t, z)
  BY <1>1, <1>3 DEF RunOK, Requesting, Over
<1>4. CASE Placing(t, z) \/ EndingEmpty(t, z)
  BY <1>1, <1>4 DEF RunOK, Placing, EndingEmpty, Over
<1>5. CASE Now.type = "StateChanged" /\ Now.of # "running" /\ Exiting(t, z, Now.from)
  BY <1>5 DEF Exiting, Over
<1>6. CASE Now.type = "StateChanged" /\ Now.of # "running" /\ EndingLast(t, z, Now.from)
  <2>1. t.containerRanks \subseteq DOMAIN t.terminatedContainers \cup {Now.from}
    BY <1>1, <1>6 DEF RunOK, EndingLast, LastExit
  <2> QED BY <1>6, <2>1 DEF Over
<1> QED BY <1>2, <1>3, <1>4, <1>5, <1>6 DEF Outcome

LEMMA EffectsBoxes ==
    ASSUME IInv, NEW z, Outcome(z), Effects(z)
    PROVE  /\ DOMAIN boxes \subseteq DOMAIN boxes'
           /\ \A c \in DOMAIN boxes :
                 /\ boxes'[c] = BoxAfter(z, c, boxes[c])
                 /\ DOMAIN boxes'[c] = BoxFields
                 /\ boxes'[c].st = boxes[c].st /\ boxes'[c].reports = boxes[c].reports
           /\ \A c \in DOMAIN boxes' \ DOMAIN boxes :
                 /\ Placing(t, z) /\ c \in z.containerRanks
                 /\ \E w : w # TERMINATE /\ boxes'[c] = NewBox(z, c, w)
<1> DEFINE starts == Sent(z, "Start")
           fresh  == IF starts = {} THEN {} ELSE z.containerRanks
           w      == (CHOOSE m \in starts : TRUE).of
<1>1. boxes' = [c \in DOMAIN boxes \cup fresh |->
                    IF c \in DOMAIN boxes THEN BoxAfter(z, c, boxes[c]) ELSE NewBox(z, c, w)]
  BY DEF Effects
<1>2. starts # {} => Placing(t, z) /\ w # TERMINATE
  <2> SUFFICES ASSUME starts # {} PROVE Placing(t, z) /\ w # TERMINATE
    OBVIOUS
  <2>1. "Start" \in Types(z)
    BY SentTypes
  <2>2. Placing(t, z)
    BY <2>1 DEF Outcome, Going, Requesting, EndingEmpty, EndingLast, Ending, Exiting
  <2>3. \A m \in starts : m \in z.out /\ m.type = "Start"
    BY DEF Sent
  <2>4. \A m \in starts : m.of # TERMINATE
    BY <2>2, <2>3 DEF Placing
  <2>5. (CHOOSE m \in starts : TRUE) \in starts
    OBVIOUS
  <2> QED BY <2>2, <2>4, <2>5
<1> HIDE DEF starts, w
<1>3. ASSUME NEW c \in DOMAIN boxes
      PROVE  /\ boxes'[c] = BoxAfter(z, c, boxes[c])
             /\ DOMAIN boxes'[c] = BoxFields
             /\ boxes'[c].st = boxes[c].st /\ boxes'[c].reports = boxes[c].reports
  <2>1. boxes'[c] = BoxAfter(z, c, boxes[c])
    BY <1>1, <1>3
  <2>2. DOMAIN boxes[c] = BoxFields
    BY DEF IInv, BoxesOK, BoxOK
  <2>3. /\ DOMAIN BoxAfter(z, c, boxes[c]) = BoxFields
        /\ BoxAfter(z, c, boxes[c]).st = boxes[c].st
        /\ BoxAfter(z, c, boxes[c]).reports = boxes[c].reports
    BY <2>2 DEF BoxAfter, BoxFields
  <2> QED BY <2>1, <2>3
<1>4. ASSUME NEW c \in DOMAIN boxes' \ DOMAIN boxes
      PROVE  /\ Placing(t, z) /\ c \in z.containerRanks
             /\ w # TERMINATE /\ boxes'[c] = NewBox(z, c, w)
  BY <1>1, <1>2, <1>4
<1> QED BY <1>1, <1>3, <1>4

LEMMA EffectsBoxesOK ==
    ASSUME IInv, NEW z, Outcome(z), Effects(z)
    PROVE  BoxesOK(t', boxes')
<1>1. /\ t'.runID = z.runID /\ t'.containerRanks = z.containerRanks
      /\ RunOK(t) /\ t.runID \in Nat /\ z.runID \in {t.runID, t.runID + 1}
  <2>1. z.runID \in {t.runID, t.runID + 1}
    BY DEF Outcome, Going, Requesting, Placing, EndingEmpty, EndingLast, Ending, Exiting, SameTrial
  <2> QED BY <2>1, EffectsTrial, OutcomeIsTrial DEF SameRun, IInv, RunOK
<1>2. ASSUME NEW c \in DOMAIN boxes
      PROVE  /\ c \in (1 .. z.runID + 1) \X Ranks
             /\ BoxOK(boxes'[c])
             /\ c[1] = z.runID + 1 => c \in z.containerRanks
  <2>1. /\ c \in (1 .. t.runID + 1) \X Ranks /\ BoxOK(boxes[c])
        /\ c[1] = t.runID + 1 => c \in t.containerRanks
    BY DEF IInv, BoxesOK
  <2>2. BoxOK(boxes'[c])
    BY <2>1, EffectsBoxes DEF BoxOK
  <2>3. c \in (1 .. z.runID + 1) \X Ranks
    BY <1>1, <2>1
  <2>4. ASSUME c[1] = z.runID + 1 PROVE c \in z.containerRanks
    <3>1. z.runID = t.runID
      BY <1>1, <2>1, <2>4
    <3>2. c \in t.containerRanks
      BY <2>1, <2>4, <3>1
    <3> QED
      BY <1>1, <3>1, <3>2 DEF Outcome, Going, Requesting, Placing, EndingEmpty, EndingLast, Ending,
                              Exiting, SameTrial, RunOK
  <2> QED BY <2>2, <2>3, <2>4
<1>3. ASSUME NEW c \in DOMAIN boxes' \ DOMAIN boxes
      PROVE  /\ c \in (1 .. z.runID + 1) \X Ranks
             /\ BoxOK(boxes'[c])
             /\ c \in z.containerRanks
  <2>1. PICK w : Placing(t, z) /\ c \in z.containerRanks /\ boxes'[c] = NewBox(z, c, w)
    BY <1>3, EffectsBoxes
  <2>2. c \in Containers(z.task) /\ z.task = z.runID + 1
    BY <1>1, <2>1 DEF Placing, SameTrial, RunOK
  <2>3. BoxOK(NewBox(z, c, w))
    <3>1. <<>> \in Seq({"running", "ok", "fail"})
      OBVIOUS
    <3> QED BY <3>1 DEF BoxOK, NewBox, BoxFields
  <2> QED BY <1>1, <2>1, <2>2, <2>3 DEF Containers
<1> QED BY <1>1, <1>2, <1>3 DEF BoxesOK

LEMMA EffectsKnown ==
    ASSUME IInv, NEW z, Outcome(z), Effects(z)
    PROVE  KnownOK(t', boxes')
<1>1. SameLinks(z, t') /\ DOMAIN boxes \subseteq DOMAIN boxes'
  BY EffectsTrial, OutcomeIsTrial, EffectsBoxes
<1> QED BY <1>1 DEF Outcome, Linked, KnownOK, SameLinks

\* A message of the inbox that the trial did not send itself was there before.
LEMMA InboxKept ==
    ASSUME IInv, inbox # <<>>, NEW z, Effects(z), NEW i \in 1 .. Len(inbox'),
           inbox'[i].type \notin {"trialAborted", "stop"}
    PROVE  i \in Nat \ {0} /\ i + 1 \in 1 .. Len(inbox) /\ inbox'[i] = inbox[i + 1]
<1>1. IsSeq(inbox)
  BY DEF IInv
<1>2. /\ Len(inbox') \in Nat
      /\ \/ i + 1 \in 1 .. Len(inbox) /\ inbox'[i] = inbox[i + 1]
         \/ inbox'[i].type = "trialAborted"
         \/ inbox'[i].type = "stop"
  BY <1>1, InboxAfter
<1> QED BY <1>2

LEMMA EffectsPlaced ==
    ASSUME IInv, inbox # <<>>, NEW z, Outcome(z), Effects(z)
    PROVE  PlacedOK(t', inbox', rm')
<1>1. /\ t'.task = z.task /\ t'.runID = z.runID /\ t'.allocations = z.allocations
  BY EffectsTrial, OutcomeIsTrial DEF SameRun
<1>2. /\ RunOK(t) /\ t.runID \in Nat /\ t.task \in {0, t.runID + 1}
      /\ t.allocations \in {{}, Containers(t.task)} /\ (t.task = 0 => t.allocations = {})
  BY DEF IInv, RunOK
<1>3. PlacedOK(t, inbox, rm)
  BY DEF IInv
<1>4. rm' = IF "AllocateRequest" \in Types(z) THEN [task |-> z.task, placed |-> FALSE]
            ELSE IF "ResourcesReleased" \in Types(z) THEN [task |-> 0, placed |-> FALSE]
            ELSE rm
  BY SentTypes DEF Effects
<1>5. ASSUME NEW i \in 1 .. Len(inbox'), inbox'[i].type = "ResourcesAllocated"
      PROVE  /\ i \in Nat \ {0} /\ i + 1 \in 1 .. Len(inbox) /\ inbox'[i] = inbox[i + 1]
             /\ inbox'[i].of \in 1 .. t.runID + 1
             /\ inbox'[i].of = t.runID + 1 =>
                   /\ t.task # 0 /\ t.allocations = {} /\ rm.placed
                   /\ \A j \in 1 .. Len(inbox) :
                         inbox[j].type = "ResourcesAllocated" /\ inbox[j].of = inbox'[i].of => j = i + 1
  <2>1. i \in Nat \ {0} /\ i + 1 \in 1 .. Len(inbox) /\ inbox'[i] = inbox[i + 1]
    BY <1>5, InboxKept
  <2> QED BY <1>3, <1>5, <2>1 DEF PlacedOK
<1>6. ASSUME z.runID = t.runID, z.task = t.task, rm' = rm, z.allocations = t.allocations
      PROVE  PlacedOK(t', inbox', rm')
  <2>1. \A i \in 1 .. Len(inbox') : inbox'[i].type = "ResourcesAllocated" =>
          /\ inbox'[i].of \in 1 .. t.runID + 1
          /\ inbox'[i].of = t.runID + 1 =>
                /\ t.task # 0 /\ t.allocations = {} /\ rm.placed
                /\ \A j \in 1 .. Len(inbox') :
                      inbox'[j].type = "ResourcesAllocated" /\ inbox'[j].of = inbox'[i].of => j = i
    <3>1. ASSUME NEW i \in 1 .. Len(inbox'), inbox'[i].type = "ResourcesAllocated",
                 inbox'[i].of = t.runID + 1, NEW j \in 1 .. Len(inbox'),
                 inbox'[j].type = "ResourcesAllocated", inbox'[j].of = inbox'[i].of
          PROVE  j = i
      <4>1. j \in Nat /\ i \in Nat /\ j + 1 \in 1 .. Len(inbox) /\ inbox'[j] = inbox[j + 1]
        BY <1>5, <3>1
      <4>2. j + 1 = i + 1
        BY <1>5, <3>1, <4>1
      <4> QED BY <4>1, <4>2
    <3> QED BY <1>5, <3>1
  <2> QED BY <1>1, <1>3, <1>6, <2>1 DEF PlacedOK
<1>7. ASSUME \A i \in 1 .. Len(inbox') : inbox'[i].type = "ResourcesAllocated" =>
                inbox'[i].of # z.runID + 1,
             z.runID \in {t.runID, t.runID + 1}
      PROVE  \A i \in 1 .. Len(inbox') : inbox'[i].type = "ResourcesAllocated" =>
                inbox'[i].of \in 1 .. z.runID + 1 /\ inbox'[i].of # z.runID + 1
  BY <1>2, <1>5, <1>7
<1>8. CASE Going(t, z)
  <2>1. rm' = rm
    BY <1>4, <1>8 DEF Going
  <2> QED BY <1>6, <1>8, <2>1 DEF Going, SameTrial
<1>9. CASE Exiting(t, z, Now.from)
  <2>1. rm' = rm
    BY <1>4, <1>9 DEF Exiting
  <2> QED BY <1>6, <1>9, <2>1 DEF Exiting, SameTrial
<1>10. CASE Requesting(t, z)
  <2>1. z.runID = t.runID /\ t.task = 0 /\ z.allocations = {}
        /\ rm' = [task |-> z.task, placed |-> FALSE]
    BY <1>4, <1>10 DEF Requesting, SameTrial
  <2>2. \A i \in 1 .. Len(inbox') : inbox'[i].type = "ResourcesAllocated" =>
                inbox'[i].of # z.runID + 1
    BY <1>5, <2>1
  <2> QED BY <1>1, <1>7, <2>1, <2>2 DEF PlacedOK
<1>11. CASE Now.type = "ResourcesAllocated" /\ Now.of = t.task /\ Placing(t, z)
  <2>1. z.runID = t.runID /\ z.task = t.task /\ t.task = t.runID + 1 /\ rm' = rm
    BY <1>2, <1>4, <1>11 DEF Placing, SameTrial
  <2>2. 1 \in 1 .. Len(inbox) /\ inbox[1] = Now
    BY NowIsFirst DEF IInv
  <2>3. rm.placed
    BY <1>3, <1>11, <2>1, <2>2 DEF PlacedOK
  <2>4. \A i \in 1 .. Len(inbox') : inbox'[i].type = "ResourcesAllocated" =>
                inbox'[i].of # z.runID + 1
    <3> SUFFICES ASSUME NEW i \in 1 .. Len(inbox'), inbox'[i].type = "ResourcesAllocated",
                        inbox'[i].of = t.runID + 1
                 PROVE  FALSE
      BY <2>1
    <3>1. 1 = i + 1 /\ i \in Nat \ {0}
      BY <1>5, <1>11, <2>1, <2>2
    <3> QED BY <3>1
  <2> QED BY <1>1, <1>3, <1>7, <2>1, <2>3, <2>4 DEF PlacedOK
<1>12. CASE EndingEmpty(t, z) \/ EndingLast(t, z, Now.from)
  <2>1. Ending(t, z)
    BY <1>12 DEF EndingEmpty, EndingLast
  <2>2. z.runID = t.runID + 1 /\ z.allocations = {} /\ rm' = [task |-> z.task, placed |-> FALSE]
    BY <1>4, <2>1 DEF Ending
  <2>3. \A i \in 1 .. Len(inbox') : inbox'[i].type = "ResourcesAllocated" =>
                inbox'[i].of # z.runID + 1
    BY <1>2, <1>5, <2>2
  <2> QED BY <1>1, <1>7, <2>2, <2>3 DEF PlacedOK
<1> QED BY <1>8, <1>9, <1>10, <1>11, <1>12 DEF Outcome

LEMMA EffectsReports ==
    ASSUME IInv, inbox # <<>>, NEW z, Outcome(z), Effects(z)
    PROVE  ReportsOK(t', boxes', inbox')
<1>1. ReportsOK(t, boxes, inbox) /\ RunOK(t) /\ IsSeq(inbox)
  BY DEF IInv
<1>2. \A c : Over(t', c) <=> Over(z, c)
  BY EffectsTrial, OutcomeIsTrial DEF SameRun, Over
<1>3. 1 \in 1 .. Len(inbox) /\ inbox[1] = Now /\ Len(inbox) \in Nat
  BY <1>1, NowIsFirst
<1>4. ASSUME Now.type = "StateChanged", Now.of # "running"
      PROVE  /\ boxes[Now.from].st = "exited" /\ boxes[Now.from].reports = <<>>
             /\ \A j \in 2 .. Len(inbox) : ~ReportIn(inbox, j, Now.from)
  <2>1. /\ Now.of \in {"running", "ok", "fail"}
        /\ Now.of \in Exits =>
              /\ boxes[Now.from].st = "exited" /\ boxes[Now.from].reports = <<>>
              /\ \A j \in 1 + 1 .. Len(inbox) : ~ReportIn(inbox, j, Now.from)
    BY <1>1, <1>3, <1>4 DEF ReportsOK
  <2> QED BY <1>4, <2>1 DEF Exits
<1>5. ASSUME NEW c \in DOMAIN boxes
      PROVE  /\ Over(t', c) => boxes'[c].st = "exited" /\ boxes'[c].reports = <<>>
             /\ \A i \in 1 .. Len(boxes'[c].reports) : boxes'[c].reports[i] \in Exits =>
                   boxes'[c].st = "exited" /\ i = Len(boxes'[c].reports)
  <2>1. boxes'[c].st = boxes[c].st /\ boxes'[c].reports = boxes[c].reports
    BY EffectsBoxes
  <2>2. Over(t', c) => boxes[c].st = "exited" /\ boxes[c].reports = <<>>
    BY <1>1, <1>2, <1>4, OverAfter DEF ReportsOK
  <2> QED BY <1>1, <2>1, <2>2 DEF ReportsOK
<1>6. ASSUME NEW c \in DOMAIN boxes' \ DOMAIN boxes
      PROVE  /\ Over(t', c) => boxes'[c].st = "exited" /\ boxes'[c].reports = <<>>
             /\ \A i \in 1 .. Len(boxes'[c].reports) : boxes'[c].reports[i] \in Exits =>
                   boxes'[c].st = "exited" /\ i = Len(boxes'[c].reports)
  <2>1. PICK w : Placing(t, z) /\ c \in z.containerRanks /\ boxes'[c] = NewBox(z, c, w)
    BY <1>6, EffectsBoxes
  <2>2. boxes'[c].reports = <<>>
    BY <2>1 DEF NewBox
  <2>3. ~Over(t', c)
    BY <1>1, <1>2, <2>1 DEF Placing, Over, RunOK
  <2>4. 1 .. Len(boxes'[c].reports) = {}
    BY <2>2
  <2> QED BY <2>3, <2>4
<1>7. ASSUME NEW i \in 1 .. Len(inbox'), inbox'[i].type = "containerConnected"
      PROVE  inbox'[i].from \in DOMAIN boxes'
  <2>1. i + 1 \in 1 .. Len(inbox) /\ inbox'[i] = inbox[i + 1]
    BY <1>7, InboxKept
  <2>2. inbox'[i].from \in DOMAIN boxes
    BY <1>1, <1>7, <2>1 DEF ReportsOK
  <2> QED BY <2>2, EffectsBoxes
<1>8. ASSUME NEW i \in 1 .. Len(inbox'), inbox'[i].type = "StateChanged"
      PROVE  /\ inbox'[i].from \in DOMAIN boxes' /\ inbox'[i].of \in {"running", "ok", "fail"}
             /\ ~Over(t', inbox'[i].from)
             /\ inbox'[i].of \in Exits =>
                   /\ boxes'[inbox'[i].from].st = "exited"
                   /\ boxes'[inbox'[i].from].reports = <<>>
                   /\ \A j \in i + 1 .. Len(inbox') : ~ReportIn(inbox', j, inbox'[i].from)
  <2>1. i \in Nat \ {0} /\ i + 1 \in 1 .. Len(inbox) /\ inbox'[i] = inbox[i + 1]
    BY <1>8, InboxKept
  <2>2. PICK c : c = inbox'[i].from
    OBVIOUS
  <2>3. /\ c \in DOMAIN boxes /\ inbox'[i].of \in {"running", "ok", "fail"}
        /\ ~Over(t, c)
        /\ inbox'[i].of \in Exits =>
              /\ boxes[c].st = "exited" /\ boxes[c].reports = <<>>
              /\ \A j \in (i + 1) + 1 .. Len(inbox) : ~ReportIn(inbox, j, c)
    BY <1>1, <1>8, <2>1, <2>2 DEF ReportsOK
  <2>4. ReportIn(inbox, i + 1, c) /\ i + 1 \in 2 .. Len(inbox)
    BY <1>8, <2>1, <2>2 DEF ReportIn
  <2>5. ~Over(t', c)
    BY <1>2, <1>4, <2>3, <2>4, OverAfter
  <2>6. ASSUME inbox'[i].of \in Exits, NEW j \in i + 1 .. Len(inbox'), ReportIn(inbox', j, c)
        PROVE  FALSE
    <3>1. Len(inbox') \in Nat
      BY <1>1, InboxAfter
    <3>2. j \in 1 .. Len(inbox') /\ j \in Int /\ j > i
      BY <2>1, <3>1
    <3>3. inbox'[j].type = "StateChanged" /\ inbox'[j].from = c
      BY <2>6 DEF ReportIn
    <3>4. j + 1 \in 1 .. Len(inbox) /\ inbox'[j] = inbox[j + 1]
      BY <3>2, <3>3, InboxKept
    <3>5. j + 1 \in (i + 1) + 1 .. Len(inbox) /\ ReportIn(inbox, j + 1, c)
      BY <1>3, <2>1, <3>2, <3>3, <3>4 DEF ReportIn
    <3> QED BY <2>3, <2>6, <3>5
  <2>7. c \in DOMAIN boxes' /\ boxes'[c].st = boxes[c].st /\ boxes'[c].reports = boxes[c].reports
    BY <2>3, EffectsBoxes
  <2> QED BY <2>2, <2>3, <2>5, <2>6, <2>7
<1> QED BY <1>5, <1>6, <1>7, <1>8 DEF ReportsOK

LEMMA EffectsTold ==
    ASSUME IInv, inbox # <<>>, NEW z, Outcome(z), Effects(z)
    PROVE  ToldOK(t', inbox', exp')
<1>1. t'.close = z.close /\ t'.experimentState = z.experimentState /\ exp' = exp
  BY EffectsTrial, OutcomeIsTrial DEF SameOrders, Effects
<1>2. ToldOK(t, inbox, exp) /\ IsSeq(inbox) /\ Orderly(z)
  BY DEF IInv, Outcome
<1>3. 1 \in 1 .. Len(inbox) /\ inbox[1] = Now /\ Len(inbox) \in Nat /\ Len(inbox') \in Nat
  BY <1>2, NowIsFirst, InboxAfter
<1>4. ASSUME NEW i \in 1 .. Len(inbox'), inbox'[i].type \in {"Operations", "State", "Close"}
      PROVE  i \in Nat \ {0} /\ i + 1 \in 2 .. Len(inbox) /\ inbox'[i] = inbox[i + 1]
  <2>1. i \in Nat \ {0} /\ i + 1 \in 1 .. Len(inbox) /\ inbox'[i] = inbox[i + 1]
    BY <1>4, InboxKept
  <2> QED BY <1>3, <2>1
<1>5. z.close \in BOOLEAN
  BY <1>2 DEF Orderly, ToldOK
<1>6. ASSUME z.close
      PROVE  exp.closed /\ \A i \in 1 .. Len(inbox') : inbox'[i].type # "Operations"
  <2>1. exp.closed /\ \A i \in 2 .. Len(inbox) : inbox[i].type # "Operations"
    <3>1. CASE t.close
      BY <1>2, <1>3, <3>1 DEF ToldOK
    <3>2. CASE Now.type = "Close"
      <4>1. exp.closed /\ \A j \in 1 + 1 .. Len(inbox) : inbox[j].type # "Operations"
        BY <1>2, <1>3, <3>2 DEF ToldOK
      <4> QED BY <4>1
    <3> QED BY <1>2, <1>6, <3>1, <3>2 DEF Orderly
  <2> QED BY <1>4, <2>1
<1>7. ASSUME z.experimentState \in StoppingStates
      PROVE  exp.state \in StoppingStates /\ \A i \in 1 .. Len(inbox') : inbox'[i].type # "State"
  <2>1. exp.state \in StoppingStates /\ \A i \in 2 .. Len(inbox) : inbox[i].type # "State"
    <3>1. CASE t.experimentState \in StoppingStates
      BY <1>2, <1>3, <3>1 DEF ToldOK
    <3>2. CASE Now.type = "State" /\ Now.of \in StoppingStates
      <4>1. exp.state \in StoppingStates /\ \A j \in 1 + 1 .. Len(inbox) : inbox[j].type # "State"
        BY <1>2, <1>3, <3>2 DEF ToldOK
      <4> QED BY <4>1
    <3> QED BY <1>2, <1>7, <3>1, <3>2 DEF Orderly
  <2> QED BY <1>4, <2>1
<1>8. ASSUME NEW i \in 1 .. Len(inbox'), inbox'[i].type = "Close"
      PROVE  exp.closed /\ \A j \in i + 1 .. Len(inbox') : inbox'[j].type # "Operations"
  <2>1. i \in Nat \ {0} /\ i + 1 \in 1 .. Len(inbox) /\ inbox[i + 1].type = "Close"
    BY <1>3, <1>4, <1>8
  <2>2. exp.closed /\ \A j \in (i + 1) + 1 .. Len(inbox) : inbox[j].type # "Operations"
    BY <1>2, <2>1 DEF ToldOK
  <2>3. ASSUME NEW j \in i + 1 .. Len(inbox'), inbox'[j].type = "Operations"
        PROVE  FALSE
    <3>1. j \in 1 .. Len(inbox') /\ j \in Int /\ j > i
      BY <1>3, <2>1
    <3>2. j + 1 \in 2 .. Len(inbox) /\ inbox'[j] = inbox[j + 1]
      BY <1>4, <2>3, <3>1
    <3>3. j + 1 \in (i + 1) + 1 .. Len(inbox)
      BY <1>3, <2>1, <3>1, <3>2
    <3> QED BY <2>2, <2>3, <3>2, <3>3
  <2> QED BY <2>2, <2>3
<1>9. ASSUME NEW i \in 1 .. Len(inbox'), inbox'[i].type = "State", inbox'[i].of \in StoppingStates
      PROVE  exp.state \in StoppingStates /\ \A j \in i + 1 .. Len(inbox') : inbox'[j].type # "State"
  <2>1. /\ i \in Nat \ {0} /\ i + 1 \in 1 .. Len(inbox) /\ inbox[i + 1].type = "State"
        /\ inbox[i + 1].of \in StoppingStates
    BY <1>3, <1>4, <1>9
  <2>2. exp.state \in StoppingStates /\ \A j \in (i + 1) + 1 .. Len(inbox) : inbox[j].type # "State"
    BY <1>2, <2>1 DEF ToldOK
  <2>3. ASSUME NEW j \in i + 1 .. Len(inbox'), inbox'[j].type = "State"
        PROVE  FALSE
    <3>1. j \in 1 .. Len(inbox') /\ j \in Int /\ j > i
      BY <1>3, <2>1
    <3>2. j + 1 \in 2 .. Len(inbox) /\ inbox'[j] = inbox[j + 1]
      BY <1>4, <2>3, <3>1
    <3>3. j + 1 \in (i + 1) + 1 .. Len(inbox)
      BY <1>3, <2>1, <3>1, <3>2
    <3> QED BY <2>2, <2>3, <3>2, <3>3
  <2> QED BY <2>2, <2>3
<1>10. /\ DOMAIN exp = {"ops", "closed", "state"} /\ exp.closed \in BOOLEAN
       /\ exp.state \in {"ACTIVE", "PAUSED", "STOPPING_CANCELED"}
  BY <1>2 DEF ToldOK
<1> QED BY <1>1, <1>5, <1>6, <1>7, <1>8, <1>9, <1>10 DEF ToldOK

LEMMA EffectsStop ==
    ASSUME IInv, inbox # <<>>, NEW z, MessageOutcome(z), Effects(z)
    PROVE  StopOK(t, inbox)'
<1> SUFFICES ASSUME NEW i \in 1 .. Len(inbox'), inbox'[i].type = "stop"
             PROVE  Closed(t)'
  BY DEF StopOK, Closed
<1>1. Closed(t)' <=> Closed(z)
  BY EffectsTrial, OutcomeIsTrial DEF MessageOutcome
<1>2. \/ i + 1 \in 1 .. Len(inbox) /\ inbox'[i] = inbox[i + 1]
      \/ "stop" \in Types(z)
  BY InboxAfter DEF IInv
<1>3. "stop" \in Types(z) \/ Closed(t)
  BY <1>2 DEF IInv, StopOK, Closed
<1> QED BY <1>1, <1>3 DEF MessageOutcome

LEMMA EffectsTimers ==
    ASSUME IInv, NEW z, Outcome(z), Sober(z), Effects(z)
    PROVE  timers' \subseteq 0 .. t'.runID
<1>1. t'.runID = z.runID
  BY EffectsTrial, OutcomeIsTrial DEF SameRun
<1>2. t.runID \in Nat /\ timers \subseteq 0 .. t.runID
  BY DEF IInv, RunOK
<1>3. z.runID \in {t.runID, t.runID + 1}
  BY DEF Outcome, Going, Requesting, Placing, EndingEmpty, EndingLast, Ending, Exiting, SameTrial
<1>4. \A m \in Sent(z, "terminateTimeout") : m.of = z.runID
  BY DEF Sober, Sent
<1>5. timers' = timers \cup {m.of : m \in Sent(z, "terminateTimeout")}
  BY DEF Effects
<1>6. \A r \in timers' : r \in timers \/ r = z.runID
  BY <1>4, <1>5
<1>7. \A r \in timers : r \in 0 .. z.runID
  BY <1>2, <1>3
<1>8. z.runID \in 0 .. z.runID
  BY <1>2, <1>3
<1>9. \A r \in timers' : r \in 0 .. z.runID
  BY <1>6, <1>7, <1>8
<1> QED BY <1>1, <1>9

\* Handling a message keeps the invariant.
LEMMA EffectsKeepInvariant ==
    ASSUME IInv, inbox # <<>>, NEW z, MessageOutcome(z), Effects(z)
    PROVE  IInv'
<1>1. Outcome(z) /\ Sober(z)
  BY DEF MessageOutcome
<1>2. t'.out = {} /\ IsSeq(inbox)'
  BY <1>1, EffectsTrial, OutcomeIsTrial, InboxAfter DEF IInv
<1> QED
  BY <1>1, <1>2, EffectsRun, EffectsBoxesOK, EffectsKnown, EffectsPlaced, EffectsReports,
     EffectsTold, EffectsStop, EffectsTimers DEF IInv

(***************************************************************************)
(* What the environment does to the invariant: m arrives behind p.         *)
(***************************************************************************)
LEMMA PlacedArrives ==
    ASSUME NEW x, NEW p, NEW r, NEW m, NEW q, PlacedOK(x, p, r), Extends(p, m, q),
           m.type # "ResourcesAllocated"
    PROVE  PlacedOK(x, q, r)
<1>1. /\ Len(p) \in Nat /\ Len(q) = Len(p) + 1
      /\ \A i \in 1 .. Len(q) : (i \in 1 .. Len(p) /\ q[i] = p[i]) \/ q[i] = m
  BY DEF Extends
<1> QED BY <1>1 DEF PlacedOK

LEMMA ReportsArrive ==
    ASSUME NEW x, NEW B, NEW p, NEW m, NEW q, ReportsOK(x, B, p), Extends(p, m, q),
           m.type # "StateChanged",
           m.type = "containerConnected" => m.from \in DOMAIN B
    PROVE  ReportsOK(x, B, q)
<1>1. /\ Len(p) \in Nat /\ Len(q) = Len(p) + 1
      /\ \A i \in 1 .. Len(q) : (i \in 1 .. Len(p) /\ q[i] = p[i]) \/ q[i] = m
  BY DEF Extends
<1>2. ASSUME NEW i \in 1 .. Len(q), q[i].type = "StateChanged"
      PROVE  /\ q[i].from \in DOMAIN B /\ q[i].of \in {"running", "ok", "fail"}
             /\ ~Over(x, q[i].from)
             /\ q[i].of \in Exits =>
                   /\ B[q[i].from].st = "exited" /\ B[q[i].from].reports = <<>>
                   /\ \A j \in i + 1 .. Len(q) : ~ReportIn(q, j, q[i].from)
  <2>1. i \in 1 .. Len(p) /\ q[i] = p[i]
    BY <1>1, <1>2
  <2>2. /\ q[i].from \in DOMAIN B /\ q[i].of \in {"running", "ok", "fail"}
        /\ ~Over(x, q[i].from)
        /\ q[i].of \in Exits =>
              /\ B[q[i].from].st = "exited" /\ B[q[i].from].reports = <<>>
              /\ \A j \in i + 1 .. Len(p) : ~ReportIn(p, j, q[i].from)
    BY <1>2, <2>1 DEF ReportsOK
  <2>3. ASSUME q[i].of \in Exits, NEW j \in i + 1 .. Len(q), ReportIn(q, j, q[i].from)
        PROVE  FALSE
    <3>1. j \in 1 .. Len(q)
      BY <1>1, <2>1
    <3>2. j \in 1 .. Len(p) /\ q[j] = p[j]
      BY <1>1, <2>3, <3>1 DEF ReportIn
    <3>3. j \in i + 1 .. Len(p) /\ ReportIn(p, j, q[i].from)
      BY <1>1, <2>1, <2>3, <3>2 DEF ReportIn
    <3> QED BY <2>2, <2>3, <3>3
  <2> QED BY <2>2, <2>3
<1>3. \A i \in 1 .. Len(q) : q[i].type = "containerConnected" => q[i].from \in DOMAIN B
  BY <1>1 DEF ReportsOK
<1> QED BY <1>2, <1>3 DEF ReportsOK

\* The experiment sends m, and is e afterwards.
LEMMA ToldArrives ==
    ASSUME NEW x, NEW p, NEW e, NEW m, NEW q, NEW f, ToldOK(x, p, e), Extends(p, m, q),
           DOMAIN f = {"ops", "closed", "state"}, f.closed \in BOOLEAN, e.closed => f.closed,
           f.state \in {"ACTIVE", "PAUSED", "STOPPING_CANCELED"},
           e.state \in StoppingStates => f.state \in StoppingStates,
           m.type = "Operations" => ~e.closed,
           m.type = "Close" => f.closed,
           m.type = "State" =>
              e.state \notin StoppingStates /\ (m.of \in StoppingStates => f.state \in StoppingStates)
    PROVE  ToldOK(x, q, f)
<1>1. /\ Len(p) \in Nat /\ Len(q) = Len(p) + 1
      /\ \A i \in 1 .. Len(q) :
            \/ i \in 1 .. Len(p) /\ q[i] = p[i]
            \/ i = Len(q) /\ q[i] = m
  BY DEF Extends
<1>2. x.close \in BOOLEAN
      /\ (x.close => f.closed /\ \A i \in 1 .. Len(q) : q[i].type # "Operations")
  BY <1>1 DEF ToldOK
<1>3. x.experimentState \in StoppingStates =>
          f.state \in StoppingStates /\ \A i \in 1 .. Len(q) : q[i].type # "State"
  BY <1>1 DEF ToldOK
<1>4. ASSUME NEW i \in 1 .. Len(q), q[i].type = "Close"
      PROVE  f.closed /\ \A j \in i + 1 .. Len(q) : q[j].type # "Operations"
  <2>1. CASE i = Len(q) /\ q[i] = m
    <3>1. i + 1 .. Len(q) = {}
      BY <1>1, <2>1
    <3> QED BY <1>4, <2>1, <3>1
  <2>2. CASE i \in 1 .. Len(p) /\ q[i] = p[i]
    <3>1. e.closed /\ \A j \in i + 1 .. Len(p) : p[j].type # "Operations"
      BY <1>4, <2>2 DEF ToldOK
    <3>2. \A j \in i + 1 .. Len(q) : j \in 1 .. Len(q) /\ (j \in 1 .. Len(p) => j \in i + 1 .. Len(p))
      BY <1>1, <2>2
    <3> QED BY <1>1, <3>1, <3>2
  <2> QED BY <1>1, <2>1, <2>2
<1>5. ASSUME NEW i \in 1 .. Len(q), q[i].type = "State", q[i].of \in StoppingStates
      PROVE  f.state \in StoppingStates /\ \A j \in i + 1 .. Len(q) : q[j].type # "State"
  <2>1. CASE i = Len(q) /\ q[i] = m
    <3>1. i + 1 .. Len(q) = {}
      BY <1>1, <2>1
    <3> QED BY <1>5, <2>1, <3>1
  <2>2. CASE i \in 1 .. Len(p) /\ q[i] = p[i]
    <3>1. e.state \in StoppingStates /\ \A j \in i + 1 .. Len(p) : p[j].type # "State"
      BY <1>5, <2>2 DEF ToldOK
    <3>2. \A j \in i + 1 .. Len(q) : j \in 1 .. Len(q) /\ (j \in 1 .. Len(p) => j \in i + 1 .. Len(p))
      BY <1>1, <2>2
    <3> QED BY <1>1, <3>1, <3>2
  <2> QED BY <1>1, <2>1, <2>2
<1> QED BY <1>2, <1>3, <1>4, <1>5 DEF ToldOK

LEMMA ToldNothing ==
    ASSUME NEW x, NEW p, NEW e, NEW m, NEW q, ToldOK(x, p, e), Extends(p, m, q),
           m.type \notin {"Operations", "Close", "State"}
    PROVE  ToldOK(x, q, e)
<1>1. /\ DOMAIN e = {"ops", "closed", "state"} /\ e.closed \in BOOLEAN
      /\ e.state \in {"ACTIVE", "PAUSED", "STOPPING_CANCELED"}
  BY DEF ToldOK
<1> QED BY <1>1, ToldArrives

LEMMA StopArrives ==
    ASSUME NEW x, NEW p, NEW m, NEW q, StopOK(x, p), Extends(p, m, q), m.type # "stop"
    PROVE  StopOK(x, q)
<1>1. \A i \in 1 .. Len(q) : (i \in 1 .. Len(p) /\ q[i] = p[i]) \/ q[i] = m
  BY DEF Extends
<1> QED BY <1>1 DEF StopOK

\* The messages that no part of the invariant speaks of.
Quiet == {"ReleaseResources", "Completed", "sendNextWorkload", "ChildFailed", "killTrial",
          "terminateTimeout"}

LEMMA QuietArrives ==
    ASSUME NEW p, NEW m, NEW q, NEW x, NEW B, NEW r, NEW e,
           IsSeq(p), q = Append(p, m), m.type \in Quiet,
           PlacedOK(x, p, r), ReportsOK(x, B, p), ToldOK(x, p, e), StopOK(x, p)
    PROVE  IsSeq(q) /\ PlacedOK(x, q, r) /\ ReportsOK(x, B, q) /\ ToldOK(x, q, e) /\ StopOK(x, q)
<1>1. Extends(p, m, q)
  BY Appended
<1>2. /\ m.type \notin {"ResourcesAllocated", "StateChanged", "containerConnected", "Operations",
                        "Close", "State", "stop"}
  BY DEF Quiet
<1>3. PlacedOK(x, q, r)
  BY <1>1, <1>2, PlacedArrives
<1>4. ReportsOK(x, B, q)
  BY <1>1, <1>2, ReportsArrive
<1>5. ToldOK(x, q, e)
  BY <1>1, <1>2, ToldNothing
<1>6. StopOK(x, q)
  BY <1>1, <1>2, StopArrives
<1> QED BY <1>1, <1>3, <1>4, <1>5, <1>6 DEF Extends

\* Something happens in container c.
Changes(c, b) ==
    /\ DOMAIN boxes' = DOMAIN boxes /\ boxes'[c] = b
    /\ \A d \in DOMAIN boxes \ {c} : boxes'[d] = boxes[d]

LEMMA BoxChanges ==
    ASSUME IInv, NEW c \in DOMAIN boxes, NEW b, Changes(c, b), BoxOK(b)
    PROVE  BoxesOK(t, boxes') /\ KnownOK(t, boxes')
<1>1. DOMAIN boxes' = DOMAIN boxes /\ boxes'[c] = b
      /\ \A d \in DOMAIN boxes \ {c} : boxes'[d] = boxes[d]
  BY DEF Changes
<1> QED BY <1>1 DEF IInv, BoxesOK, KnownOK

LEMMA BoxGoesOn ==
    ASSUME IInv, NEW c \in DOMAIN boxes, NEW b, Changes(c, b), BoxOK(b),
           b.st = boxes[c].st, b.reports = boxes[c].reports
    PROVE  ReportsOK(t, boxes', inbox)
<1>1. /\ DOMAIN boxes' = DOMAIN boxes
      /\ \A d \in DOMAIN boxes : boxes'[d].st = boxes[d].st /\ boxes'[d].reports = boxes[d].reports
  BY DEF Changes
<1>2. ReportsOK(t, boxes, inbox)
  BY DEF IInv
<1> QED BY <1>1, <1>2 DEF ReportsOK

\* A container that did not exit has something to report.
LEMMA BoxReports ==
    ASSUME IInv, NEW c \in DOMAIN boxes, NEW b, Changes(c, b), BoxOK(b),
           NEW r, boxes[c].st # "exited", b.reports = Append(boxes[c].reports, r),
           r \in Exits => b.st = "exited"
    PROVE  ReportsOK(t, boxes', inbox)
<1>1. /\ DOMAIN boxes' = DOMAIN boxes /\ boxes'[c] = b
      /\ \A d \in DOMAIN boxes \ {c} : boxes'[d] = boxes[d]
  BY DEF Changes
<1>2. ReportsOK(t, boxes, inbox) /\ boxes[c].reports \in Seq({"running", "ok", "fail"})
  BY DEF IInv, BoxesOK, BoxOK
<1>3. ~Over(t, c)
  BY <1>2 DEF ReportsOK
<1>4. \A i \in 1 .. Len(boxes[c].reports) : boxes[c].reports[i] \notin Exits
  BY <1>2 DEF ReportsOK
<1>5. /\ Len(b.reports) = Len(boxes[c].reports) + 1 /\ Len(boxes[c].reports) \in Nat
      /\ \A i \in 1 .. Len(b.reports) :
            \/ i \in 1 .. Len(boxes[c].reports) /\ b.reports[i] = boxes[c].reports[i]
            \/ i = Len(b.reports) /\ b.reports[i] = r
  BY <1>2
<1>6. \A i \in 1 .. Len(b.reports) : b.reports[i] \in Exits => b.st = "exited" /\ i = Len(b.reports)
  BY <1>4, <1>5
<1>7. ASSUME NEW i \in 1 .. Len(inbox), inbox[i].type = "StateChanged", inbox[i].of \in Exits
      PROVE  inbox[i].from # c
  BY <1>2, <1>7 DEF ReportsOK
<1>8. \A d \in DOMAIN boxes' :
          /\ Over(t, d) => boxes'[d].st = "exited" /\ boxes'[d].reports = <<>>
          /\ \A i \in 1 .. Len(boxes'[d].reports) : boxes'[d].reports[i] \in Exits =>
                boxes'[d].st = "exited" /\ i = Len(boxes'[d].reports)
  BY <1>1, <1>2, <1>3, <1>6 DEF ReportsOK
<1>9. \A i \in 1 .. Len(inbox) :
          /\ inbox[i].type = "containerConnected" => inbox[i].from \in DOMAIN boxes'
          /\ inbox[i].type = "StateChanged" =>
                /\ inbox[i].from \in DOMAIN boxes' /\ inbox[i].of \in {"running", "ok", "fail"}
                /\ ~Over(t, inbox[i].from)
                /\ inbox[i].of \in Exits =>
                      /\ boxes'[inbox[i].from].st = "exited" /\ boxes'[inbox[i].from].reports = <<>>
                      /\ \A j \in i + 1 .. Len(inbox) : ~ReportIn(inbox, j, inbox[i].from)
  BY <1>1, <1>2, <1>7 DEF ReportsOK
<1> QED BY <1>8, <1>9 DEF ReportsOK

\* What is reported first reaches the trial.
LEMMA BoxReported ==
    ASSUME IInv, NEW c \in DOMAIN boxes, NEW b, Changes(c, b), BoxOK(b),
           boxes[c].reports # <<>>, b.reports = Tail(boxes[c].reports), b.st = boxes[c].st,
           NEW m, m = [type |-> "StateChanged", from |-> c, of |-> Head(boxes[c].reports)],
           Extends(inbox, m, inbox')
    PROVE  ReportsOK(t, boxes', inbox')
<1>1. /\ DOMAIN boxes' = DOMAIN boxes /\ boxes'[c] = b
      /\ \A d \in DOMAIN boxes \ {c} : boxes'[d] = boxes[d]
  BY DEF Changes
<1>2. PICK s : s = boxes[c].reports /\ s \in Seq({"running", "ok", "fail"}) /\ s # <<>>
  BY DEF IInv, BoxesOK, BoxOK
<1>3. ReportsOK(t, boxes, inbox)
  BY DEF IInv
<1>4. ~Over(t, c)
  BY <1>3 DEF ReportsOK
<1>5. /\ Len(s) \in Nat \ {0} /\ Head(s) = s[1] /\ Head(s) \in {"running", "ok", "fail"}
      /\ 1 \in 1 .. Len(s)
      /\ Len(Tail(s)) = Len(s) - 1
      /\ \A i \in 1 .. Len(Tail(s)) : Tail(s)[i] = s[i + 1] /\ i + 1 \in 1 .. Len(s)
  BY <1>2
<1>6. \A i \in 1 .. Len(s) : s[i] \in Exits => boxes[c].st = "exited" /\ i = Len(s)
  BY <1>2, <1>3 DEF ReportsOK
<1>7. Head(s) \in Exits => boxes[c].st = "exited" /\ Tail(s) = <<>>
  <2> SUFFICES ASSUME Head(s) \in Exits PROVE boxes[c].st = "exited" /\ Tail(s) = <<>>
    OBVIOUS
  <2>1. boxes[c].st = "exited" /\ 1 = Len(s)
    BY <1>5, <1>6
  <2>2. Tail(s) \in Seq({"running", "ok", "fail"}) /\ Len(Tail(s)) = 0
    BY <1>2, <1>5, <2>1
  <2> QED BY <2>1, <2>2, EmptySeq
<1>8. \A i \in 1 .. Len(b.reports) : b.reports[i] \in Exits => b.st = "exited" /\ i = Len(b.reports)
  BY <1>2, <1>5, <1>6
<1>9. \A d \in DOMAIN boxes' :
          /\ Over(t, d) => boxes'[d].st = "exited" /\ boxes'[d].reports = <<>>
          /\ \A i \in 1 .. Len(boxes'[d].reports) : boxes'[d].reports[i] \in Exits =>
                boxes'[d].st = "exited" /\ i = Len(boxes'[d].reports)
  BY <1>1, <1>3, <1>4, <1>8, ZenonT(60) DEF ReportsOK
<1>10. /\ Len(inbox) \in Nat /\ Len(inbox') = Len(inbox) + 1
       /\ \A i \in 1 .. Len(inbox') :
             \/ i \in 1 .. Len(inbox) /\ inbox'[i] = inbox[i]
             \/ i = Len(inbox') /\ inbox'[i] = m
  BY DEF Extends
<1>11. ASSUME NEW i \in 1 .. Len(inbox'), inbox'[i].type = "containerConnected"
       PROVE  inbox'[i].from \in DOMAIN boxes'
  BY <1>1, <1>3, <1>10, <1>11 DEF ReportsOK
<1>12. ASSUME NEW i \in 1 .. Len(inbox'), inbox'[i].type = "StateChanged"
       PROVE  /\ inbox'[i].from \in DOMAIN boxes' /\ inbox'[i].of \in {"running", "ok", "fail"}
              /\ ~Over(t, inbox'[i].from)
              /\ inbox'[i].of \in Exits =>
                    /\ boxes'[inbox'[i].from].st = "exited"
                    /\ boxes'[inbox'[i].from].reports = <<>>
                    /\ \A j \in i + 1 .. Len(inbox') : ~ReportIn(inbox', j, inbox'[i].from)
  <2>1. CASE i = Len(inbox') /\ inbox'[i] = m
    <3>1. inbox'[i].from = c /\ inbox'[i].of = Head(s)
      BY <1>2, <2>1
    <3>2. i + 1 .. Len(inbox') = {}
      BY <1>10, <2>1
    <3> QED BY <1>1, <1>2, <1>4, <1>5, <1>7, <3>1, <3>2
  <2>2. CASE i \in 1 .. Len(inbox) /\ inbox'[i] = inbox[i]
    <3>1. PICK d : d = inbox'[i].from
      OBVIOUS
    <3>2. /\ d \in DOMAIN boxes /\ inbox'[i].of \in {"running", "ok", "fail"}
          /\ ~Over(t, d)
          /\ inbox'[i].of \in Exits =>
                /\ boxes[d].st = "exited" /\ boxes[d].reports = <<>>
                /\ \A j \in i + 1 .. Len(inbox) : ~ReportIn(inbox, j, d)
      BY <1>3, <1>12, <2>2, <3>1 DEF ReportsOK
    <3>3. inbox'[i].of \in Exits => d # c
      BY <3>2
    <3>4. ASSUME inbox'[i].of \in Exits, NEW j \in i + 1 .. Len(inbox'), ReportIn(inbox', j, d)
          PROVE  FALSE
      <4>1. j \in 1 .. Len(inbox') /\ inbox'[j].from = d
        BY <1>10, <2>2, <3>4 DEF ReportIn
      <4>2. j \in 1 .. Len(inbox) /\ inbox'[j] = inbox[j]
        BY <1>10, <3>3, <3>4, <4>1
      <4>3. j \in i + 1 .. Len(inbox) /\ ReportIn(inbox, j, d)
        BY <1>10, <2>2, <3>4, <4>2 DEF ReportIn
      <4> QED BY <3>2, <3>4, <4>3
    <3> QED BY <1>1, <3>1, <3>2, <3>3, <3>4
  <2> QED BY <1>10, <2>1, <2>2
<1> QED BY <1>9, <1>11, <1>12 DEF ReportsOK

LEMMA AgentsKeepInvariant ==
    ASSUME IInv, Agents
    PROVE  IInv'
<1>1. PICK c \in DOMAIN boxes :
         BoxRuns(c) \/ BoxKilled(c) \/ (\E exit \in Exits : BoxCrashes(c, exit)) \/ Report(c)
  BY DEF Agents, Exits
<1>2. BoxOK(boxes[c])
  BY DEF IInv, BoxesOK
<1>3. CASE BoxRuns(c)
  <2>1. PICK b : b = [boxes[c] EXCEPT !.st = "running", !.reports = Append(@, "running")]
    OBVIOUS
  <2>2. Changes(c, b)
    BY <1>2, <1>3, <2>1 DEF BoxRuns, Changes, BoxOK, BoxFields
  <2>3. /\ BoxOK(b) /\ b.st = "running" /\ b.reports = Append(boxes[c].reports, "running")
    <3>1. Append(boxes[c].reports, "running") \in Seq({"running", "ok", "fail"})
      BY <1>2 DEF BoxOK
    <3> QED BY <1>2, <2>1, <3>1 DEF BoxOK, BoxFields
  <2>4. boxes[c].st # "exited" /\ "running" \notin Exits
    BY <1>3 DEF BoxRuns, Exits
  <2>5. BoxesOK(t, boxes') /\ KnownOK(t, boxes') /\ ReportsOK(t, boxes', inbox)
    BY <2>2, <2>3, <2>4, BoxChanges, BoxReports
  <2> QED BY <1>3, <2>5 DEF BoxRuns, IInv
<1>4. ASSUME NEW exit \in Exits, BoxExits(c, exit), boxes[c].st # "exited",
             UNCHANGED <<t, inbox, rm, timers, exp>>
      PROVE  IInv'
  <2>1. PICK b : b = [boxes[c] EXCEPT !.st = "exited", !.exit = exit, !.reports = Append(@, exit),
                                      !.jobs = <<>>, !.ready = FALSE, !.model = 0]
    OBVIOUS
  <2>2. Changes(c, b)
    BY <1>2, <1>4, <2>1 DEF BoxExits, Changes, BoxOK, BoxFields
  <2>3. /\ BoxOK(b) /\ b.st = "exited" /\ b.reports = Append(boxes[c].reports, exit)
    <3>1. Append(boxes[c].reports, exit) \in Seq({"running", "ok", "fail"})
      BY <1>2 DEF BoxOK, Exits
    <3> QED BY <1>2, <2>1, <3>1 DEF BoxOK, BoxFields
  <2>5. BoxesOK(t, boxes') /\ KnownOK(t, boxes') /\ ReportsOK(t, boxes', inbox)
    BY <1>4, <2>2, <2>3, BoxChanges, BoxReports
  <2> QED BY <1>4, <2>5 DEF IInv
<1>5. CASE BoxKilled(c)
  BY <1>4, <1>5 DEF BoxKilled, Exits
<1>6. CASE \E exit \in Exits : BoxCrashes(c, exit)
  BY <1>4, <1>6 DEF BoxCrashes
<1>7. CASE Report(c)
  <2>1. PICK b : b = [boxes[c] EXCEPT !.reports = Tail(@)]
    OBVIOUS
  <2>2. Changes(c, b)
    BY <1>7, <2>1 DEF Report, Changes
  <2>3. /\ BoxOK(b) /\ b.st = boxes[c].st /\ b.reports = Tail(boxes[c].reports)
        /\ boxes[c].reports # <<>>
    <3>1. boxes[c].reports # <<>>
      BY <1>7 DEF Report
    <3>2. Tail(boxes[c].reports) \in Seq({"running", "ok", "fail"})
      BY <1>2, <3>1 DEF BoxOK
    <3> QED BY <1>2, <2>1, <3>1, <3>2 DEF BoxOK, BoxFields
  <2>4. PICK m : m = [type |-> "StateChanged", from |-> c, of |-> Head(boxes[c].reports)]
    OBVIOUS
  <2>5. Extends(inbox, m, inbox') /\ m.type = "StateChanged"
    BY <1>7, <2>4, Appended DEF Report, Deliver, IInv
  <2>6. BoxesOK(t, boxes') /\ KnownOK(t, boxes')
    BY <2>2, <2>3, BoxChanges
  <2>7. ReportsOK(t, boxes', inbox')
    BY <2>2, <2>3, <2>4, <2>5, BoxReported
  <2>8. PlacedOK(t, inbox', rm) /\ StopOK(t, inbox')
    BY <2>5, PlacedArrives, StopArrives DEF IInv
  <2>9. ToldOK(t, inbox', exp)
    BY <2>5, ToldNothing DEF IInv
  <2> QED BY <1>7, <2>5, <2>6, <2>7, <2>8, <2>9 DEF Report, Extends, IInv
<1> QED BY <1>1, <1>3, <1>5, <1>6, <1>7

LEMMA HarnessesKeepInvariant ==
    ASSUME IInv, Harnesses
    PROVE  IInv'
<1>1. PICK c \in DOMAIN boxes :
         \/ Dial(c) \/ Quit(c) \/ Relay(c) \/ SocketBreaks(c)
         \/ \E reason \in ExitReasons : Work(c, reason)
  BY DEF Harnesses
<1>2. BoxOK(boxes[c])
  BY DEF IInv, BoxesOK
<1>3. ASSUME NEW b, DOMAIN b = BoxFields, b.st = boxes[c].st, b.reports = boxes[c].reports
      PROVE  BoxOK(b)
  BY <1>2, <1>3 DEF BoxOK
<1>4. CASE Dial(c)
  <2>1. PICK b : b = [boxes[c] EXCEPT !.socket = "dialed"]
    OBVIOUS
  <2>2. Changes(c, b)
    BY <1>4, <2>1 DEF Dial, Changes
  <2>3. BoxOK(b) /\ b.st = boxes[c].st /\ b.reports = boxes[c].reports
    BY <1>2, <1>3, <2>1 DEF BoxOK, BoxFields
  <2>4. BoxesOK(t, boxes') /\ KnownOK(t, boxes') /\ ReportsOK(t, boxes', inbox)
    BY <2>2, <2>3, BoxChanges, BoxGoesOn
  <2>5. PICK m : m = MsgFrom("containerConnected", c)
    OBVIOUS
  <2>6. Extends(inbox, m, inbox') /\ m.type = "containerConnected" /\ m.from \in DOMAIN boxes'
    BY <1>4, <2>2, <2>5, Appended DEF Dial, Deliver, IInv, MsgFrom, Changes
  <2>7. PlacedOK(t, inbox', rm) /\ StopOK(t, inbox') /\ ReportsOK(t, boxes', inbox')
    BY <2>4, <2>6, PlacedArrives, StopArrives, ReportsArrive DEF IInv
  <2>8. ToldOK(t, inbox', exp)
    BY <2>6, ToldNothing DEF IInv
  <2> QED BY <1>4, <2>4, <2>6, <2>7, <2>8 DEF Dial, Extends, IInv
<1>5. CASE Quit(c)
  <2>1. PICK b : b = [boxes[c] EXCEPT !.st = "exited", !.exit = "ok", !.reports = Append(@, "ok"),
                                      !.jobs = <<>>, !.ready = FALSE, !.model = 0]
    OBVIOUS
  <2>2. Changes(c, b)
    BY <1>2, <1>5, <2>1 DEF Quit, BoxExits, Changes, BoxOK, BoxFields
  <2>3. /\ BoxOK(b) /\ b.st = "exited" /\ b.reports = Append(boxes[c].reports, "ok")
    <3>1. Append(boxes[c].reports, "ok") \in Seq({"running", "ok", "fail"})
      BY <1>2 DEF BoxOK
    <3> QED BY <1>2, <2>1, <3>1 DEF BoxOK, BoxFields
  <2>4. boxes[c].st # "exited"
    BY <1>5 DEF Quit
  <2>5. BoxesOK(t, boxes') /\ KnownOK(t, boxes') /\ ReportsOK(t, boxes', inbox)
    BY <2>2, <2>3, <2>4, BoxChanges, BoxReports
  <2> QED BY <1>5, <2>5 DEF Quit, IInv
<1>6. ASSUME NEW b, Changes(c, b), DOMAIN b = BoxFields, b.st = boxes[c].st,
             b.reports = boxes[c].reports, NEW m, m.type \in Quiet,
             inbox' = inbox \/ Deliver(m), UNCHANGED <<t, rm, timers, exp>>
      PROVE  IInv'
  <2>1. BoxesOK(t, boxes') /\ KnownOK(t, boxes') /\ ReportsOK(t, boxes', inbox)
    BY <1>3, <1>6, BoxChanges, BoxGoesOn
  <2>2. CASE inbox' = inbox
    BY <1>6, <2>1, <2>2 DEF IInv
  <2>3. CASE inbox' = Append(inbox, m)
    <3>1. /\ IsSeq(inbox') /\ PlacedOK(t, inbox', rm) /\ ReportsOK(t, boxes', inbox')
          /\ ToldOK(t, inbox', exp) /\ StopOK(t, inbox')
      BY <1>6, <2>1, <2>3, QuietArrives DEF IInv
    <3> QED BY <1>6, <2>1, <3>1 DEF IInv
  <2> QED BY <1>6, <2>2, <2>3 DEF Deliver
<1>7. CASE Relay(c)
  <2>1. PICK b : b = [boxes[c] EXCEPT !.done = Tail(@)]
    OBVIOUS
  <2>2. Changes(c, b)
    BY <1>7, <2>1 DEF Relay, Changes
  <2>3. DOMAIN b = BoxFields /\ b.st = boxes[c].st /\ b.reports = boxes[c].reports
    BY <1>2, <2>1 DEF BoxOK, BoxFields
  <2>4. PICK m : Deliver(m) /\ m.type \in Quiet
    BY <1>7 DEF Relay, Quiet
  <2> QED BY <1>6, <1>7, <2>2, <2>3, <2>4 DEF Relay
<1>8. CASE SocketBreaks(c)
  <2>1. PICK b : b = [boxes[c] EXCEPT !.socket = "broken"]
    OBVIOUS
  <2>2. Changes(c, b)
    BY <1>8, <2>1 DEF SocketBreaks, Changes
  <2>3. DOMAIN b = BoxFields /\ b.st = boxes[c].st /\ b.reports = boxes[c].reports
    BY <1>2, <2>1 DEF BoxOK, BoxFields
  <2>4. PICK m : Deliver(m) /\ m.type \in Quiet
    BY <1>8 DEF SocketBreaks, Quiet, MsgFrom
  <2> QED BY <1>6, <1>8, <2>2, <2>3, <2>4 DEF SocketBreaks
<1>9. CASE \E reason \in ExitReasons : Work(c, reason)
  <2>1. PICK reason \in ExitReasons : Work(c, reason)
    BY <1>9
  <2>2. PICK b : b = [boxes[c] EXCEPT !.jobs = Tail(@),
                         !.done = Append(@, [of |-> Head(boxes[c].jobs), reason |-> reason]),
                         !.model = @ + Head(boxes[c].jobs).NumBatches]
    OBVIOUS
  <2>3. Changes(c, b)
    BY <1>2, <2>1, <2>2 DEF Work, Changes, BoxOK, BoxFields
  <2>4. DOMAIN b = BoxFields /\ b.st = boxes[c].st /\ b.reports = boxes[c].reports
    BY <1>2, <2>2 DEF BoxOK, BoxFields
  <2>5. Msg("killTrial").type \in Quiet
    BY MsgType DEF Quiet
  <2> QED BY <1>6, <2>1, <2>3, <2>4, <2>5 DEF Work
<1> QED BY <1>1, <1>4, <1>5, <1>7, <1>8, <1>9

\* The experiment's messages say nothing of the run.
LEMMA OrderArrives ==
    ASSUME NEW p, NEW m, NEW q, NEW x, NEW B, NEW r,
           IsSeq(p), q = Append(p, m), m.type \in {"Operations", "Close", "State"},
           PlacedOK(x, p, r), ReportsOK(x, B, p), StopOK(x, p)
    PROVE  /\ Extends(p, m, q) /\ IsSeq(q)
           /\ PlacedOK(x, q, r) /\ ReportsOK(x, B, q) /\ StopOK(x, q)
<1>1. Extends(p, m, q)
  BY Appended
<1>2. m.type \notin {"ResourcesAllocated", "StateChanged", "containerConnected", "stop"}
  OBVIOUS
<1>3. PlacedOK(x, q, r)
  BY <1>1, <1>2, PlacedArrives
<1>4. ReportsOK(x, B, q)
  BY <1>1, <1>2, ReportsArrive
<1>5. StopOK(x, q)
  BY <1>1, <1>2, StopArrives
<1> QED BY <1>1, <1>3, <1>4, <1>5 DEF Extends

LEMMA ExperimentKeepsInvariant ==
    ASSUME IInv, Experiment
    PROVE  IInv'
<1>1. ASSUME NEW m, m.type \in Quiet, Deliver(m), UNCHANGED <<t, boxes, rm, timers, exp>>
      PROVE  IInv'
  <2>1. /\ IsSeq(inbox') /\ PlacedOK(t, inbox', rm) /\ ReportsOK(t, boxes, inbox')
        /\ ToldOK(t, inbox', exp) /\ StopOK(t, inbox')
    BY <1>1, QuietArrives DEF IInv, Deliver
  <2> QED BY <1>1, <2>1 DEF IInv
<1>3. /\ DOMAIN exp = {"ops", "closed", "state"} /\ exp.closed \in BOOLEAN
      /\ exp.state \in {"ACTIVE", "PAUSED", "STOPPING_CANCELED"}
      /\ ToldOK(t, inbox, exp)
  BY DEF IInv, ToldOK
<1>4. ASSUME NEW batch \in OpBatches, NEW close \in BOOLEAN, RequestOperations(batch, close)
      PROVE  IInv'
  <2>1. /\ DOMAIN exp' = {"ops", "closed", "state"} /\ exp'.closed = close
        /\ exp'.state = exp.state /\ ~exp.closed
    BY <1>3, <1>4 DEF RequestOperations
  <2>2. PICK m : m = MsgOf("Operations", batch)
    OBVIOUS
  <2>3. PICK q : q = Append(inbox, m)
    OBVIOUS
  <2>4. /\ Extends(inbox, m, q) /\ IsSeq(q) /\ m.type = "Operations"
        /\ PlacedOK(t, q, rm) /\ ReportsOK(t, boxes, q) /\ StopOK(t, q)
    BY <2>2, <2>3, MsgType, OrderArrives DEF IInv
  <2>5. ToldOK(t, q, exp')
    BY <1>3, <2>1, <2>4, ToldArrives
  <2>6. CASE ~close
    <3>1. inbox' = q
      BY <1>4, <2>2, <2>3, <2>6 DEF RequestOperations, IInv, IsSeq
    <3> QED BY <1>4, <2>4, <2>5, <3>1 DEF RequestOperations, IInv
  <2>7. CASE close
    <3>1. PICK n : n = Msg("Close")
      OBVIOUS
    <3>2. PICK r : r = Append(q, n)
      OBVIOUS
    <3>3. inbox' = r
      <4>1. inbox \o <<m>> = q
        BY <2>3 DEF IInv, IsSeq
      <4>2. q \o <<n>> = r
        BY <2>4, <3>2 DEF IsSeq
      <4> QED BY <1>4, <2>2, <2>7, <3>1, <4>1, <4>2 DEF RequestOperations
    <3>4. /\ Extends(q, n, r) /\ IsSeq(r) /\ n.type = "Close"
          /\ PlacedOK(t, r, rm) /\ ReportsOK(t, boxes, r) /\ StopOK(t, r)
      BY <2>4, <3>1, <3>2, MsgType, OrderArrives
    <3>5. ToldOK(t, r, exp')
      BY <1>3, <2>1, <2>5, <2>7, <3>4, ToldArrives
    <3> QED BY <1>4, <3>3, <3>4, <3>5 DEF RequestOperations, IInv
  <2> QED BY <2>6, <2>7
<1>5. ASSUME NEW m, m.type \in {"Operations", "Close", "State"}, Deliver(m),
             ToldOK(t, inbox, exp) /\ Extends(inbox, m, inbox') => ToldOK(t, inbox', exp'),
             UNCHANGED <<t, boxes, rm, timers>>
      PROVE  IInv'
  <2>1. /\ Extends(inbox, m, inbox') /\ IsSeq(inbox')
        /\ PlacedOK(t, inbox', rm) /\ ReportsOK(t, boxes, inbox') /\ StopOK(t, inbox')
    BY <1>5, OrderArrives DEF Deliver, IInv
  <2>2. ToldOK(t, inbox', exp')
    BY <1>3, <1>5, <2>1
  <2> QED BY <1>5, <2>1, <2>2 DEF IInv
<1>6. CASE RequestClose
  <2>1. PICK m : m = Msg("Close") /\ m.type = "Close"
    BY MsgType
  <2>2. /\ DOMAIN exp' = {"ops", "closed", "state"} /\ exp'.closed = TRUE /\ exp'.state = exp.state
    BY <1>3, <1>6 DEF RequestClose
  <2>3. ToldOK(t, inbox, exp) /\ Extends(inbox, m, inbox') => ToldOK(t, inbox', exp')
    BY <1>3, <2>1, <2>2, ToldArrives
  <2> QED BY <1>5, <1>6, <2>1, <2>3 DEF RequestClose
<1>7. CASE Pause
  <2>1. PICK m : m = MsgOf("State", "PAUSED") /\ m.type = "State" /\ m.of = "PAUSED"
    BY MsgType
  <2>2. /\ DOMAIN exp' = {"ops", "closed", "state"} /\ exp'.closed = exp.closed
        /\ exp'.state = "PAUSED" /\ exp.state = "ACTIVE"
    BY <1>3, <1>7 DEF Pause
  <2>3. ToldOK(t, inbox, exp) /\ Extends(inbox, m, inbox') => ToldOK(t, inbox', exp')
    BY <1>3, <2>1, <2>2, ToldArrives DEF StoppingStates
  <2> QED BY <1>5, <1>7, <2>1, <2>3 DEF Pause
<1>8. CASE Activate
  <2>1. PICK m : m = MsgOf("State", "ACTIVE") /\ m.type = "State" /\ m.of = "ACTIVE"
    BY MsgType
  <2>2. /\ DOMAIN exp' = {"ops", "closed", "state"} /\ exp'.closed = exp.closed
        /\ exp'.state = "ACTIVE" /\ exp.state = "PAUSED"
    BY <1>3, <1>8 DEF Activate
  <2>3. ToldOK(t, inbox, exp) /\ Extends(inbox, m, inbox') => ToldOK(t, inbox', exp')
    BY <1>3, <2>1, <2>2, ToldArrives DEF StoppingStates
  <2> QED BY <1>5, <1>8, <2>1, <2>3 DEF Activate
<1>9. CASE Echo
  <2>1. PICK m : Deliver(m) /\ m.type \in Quiet
    BY <1>9, MsgType DEF Echo, Quiet
  <2> QED BY <1>1, <1>9, <2>1 DEF Echo
<1>10. CASE Kill
  <2>1. PICK m : Deliver(m) /\ m.type \in Quiet
    BY <1>10, MsgType DEF Kill, Quiet
  <2> QED BY <1>1, <1>10, <2>1 DEF Kill
<1>11. ASSUME NEW kill \in BOOLEAN, Cancel(kill)
       PROVE  IInv'
  <2>1. /\ DOMAIN exp' = {"ops", "closed", "state"} /\ exp'.closed = exp.closed
        /\ exp'.state = "STOPPING_CANCELED" /\ exp.state # "STOPPING_CANCELED"
    BY <1>3, <1>11 DEF Cancel
  <2>2. PICK m : m = MsgOf("State", "STOPPING_CANCELED") /\ m.type = "State"
    BY MsgType
  <2>3. PICK q : q = Append(inbox, m)
    OBVIOUS
  <2>4. /\ Extends(inbox, m, q) /\ IsSeq(q)
        /\ PlacedOK(t, q, rm) /\ ReportsOK(t, boxes, q) /\ StopOK(t, q)
    BY <2>2, <2>3, OrderArrives DEF IInv
  <2>5. ToldOK(t, q, exp')
    BY <1>3, <2>1, <2>2, <2>4, ToldArrives DEF StoppingStates
  <2>6. inbox \o <<m>> = q
    BY <2>3 DEF IInv, IsSeq
  <2>7. CASE ~kill
    <3>1. inbox' = q
      BY <1>11, <2>2, <2>4, <2>6, <2>7 DEF Cancel, IsSeq
    <3> QED BY <1>11, <2>4, <2>5, <3>1 DEF Cancel, IInv
  <2>8. CASE kill
    <3>1. PICK n : n = Msg("killTrial") /\ n.type \in Quiet
      BY MsgType DEF Quiet
    <3>2. PICK r : r = Append(q, n)
      OBVIOUS
    <3>3. inbox' = r
      <4>1. q \o <<n>> = r
        BY <2>4, <3>2 DEF IsSeq
      <4> QED BY <1>11, <2>2, <2>6, <2>8, <3>1, <4>1 DEF Cancel
    <3>4. /\ IsSeq(r) /\ PlacedOK(t, r, rm) /\ ReportsOK(t, boxes, r)
          /\ ToldOK(t, r, exp') /\ StopOK(t, r)
      BY <2>4, <2>5, <3>1, <3>2, QuietArrives
    <3> QED BY <1>11, <3>3, <3>4 DEF Cancel, IInv
  <2> QED BY <2>7, <2>8
<1> QED BY <1>4, <1>6, <1>7, <1>8, <1>9, <1>10, <1>11 DEF Experiment

LEMMA PoolKeepsInvariant ==
    ASSUME IInv, Allocate \/ Preempt \/ \E r \in timers : TimeoutFires(r)
    PROVE  IInv'
<1>1. ASSUME NEW m, m.type \in Quiet, Deliver(m), UNCHANGED <<t, boxes, rm, exp>>,
             timers' \subseteq timers
      PROVE  IInv'
  <2>1. /\ IsSeq(inbox') /\ PlacedOK(t, inbox', rm) /\ ReportsOK(t, boxes, inbox')
        /\ ToldOK(t, inbox', exp) /\ StopOK(t, inbox')
    BY <1>1, QuietArrives DEF IInv, Deliver
  <2> QED BY <1>1, <2>1 DEF IInv
<1>2. CASE Preempt
  <2>1. PICK m : Deliver(m) /\ m.type \in Quiet
    BY <1>2, MsgType DEF Preempt, Quiet
  <2> QED BY <1>1, <1>2, <2>1 DEF Preempt
<1>3. CASE \E r \in timers : TimeoutFires(r)
  <2>1. PICK r \in timers : TimeoutFires(r)
    BY <1>3
  <2>2. PICK m : Deliver(m) /\ m.type \in Quiet
    BY <2>1, MsgType DEF TimeoutFires, Quiet
  <2> QED BY <1>1, <2>1, <2>2 DEF TimeoutFires
<1>4. CASE Allocate
  <2>1. PICK m : /\ m = MsgOf("ResourcesAllocated", rm.task)
                 /\ m.type = "ResourcesAllocated" /\ m.of = rm.task
    BY MsgType
  <2>2. Extends(inbox, m, inbox')
    BY <1>4, <2>1, Appended DEF Allocate, Deliver, IInv
  <2>3. PlacedOK(t, inbox', rm')
    <3>1. /\ PlacedOK(t, inbox, rm) /\ t.runID \in Nat /\ t.task \in {0, t.runID + 1}
      BY DEF IInv, RunOK
    <3>2. rm.task = t.task /\ rm.task # 0 /\ ~rm.placed /\ t.allocations = {}
          /\ rm' = [task |-> t.task, placed |-> TRUE]
      <4>1. rm.task = t.task /\ rm = [task |-> t.task, placed |-> rm.placed]
        BY <3>1 DEF PlacedOK
      <4>2. t.allocations # {} => rm.placed
        BY <3>1 DEF PlacedOK
      <4> QED BY <1>4, <4>1, <4>2 DEF Allocate
    <3>3. /\ Len(inbox) \in Nat /\ Len(inbox') = Len(inbox) + 1
          /\ \A i \in 1 .. Len(inbox') :
                \/ i \in 1 .. Len(inbox) /\ inbox'[i] = inbox[i]
                \/ i = Len(inbox') /\ inbox'[i] = m
      BY <2>2 DEF Extends
    <3>4. \A i \in 1 .. Len(inbox) : inbox[i].type = "ResourcesAllocated" =>
             inbox[i].of \in 1 .. t.runID + 1 /\ inbox[i].of # t.runID + 1
      BY <3>1, <3>2 DEF PlacedOK
    <3>5. m.of = t.runID + 1 /\ m.of \in 1 .. t.runID + 1
      BY <2>1, <3>1, <3>2
    <3> QED BY <3>2, <3>3, <3>4, <3>5 DEF PlacedOK
  <2>4. ReportsOK(t, boxes, inbox') /\ StopOK(t, inbox') /\ ToldOK(t, inbox', exp)
    BY <2>1, <2>2, ReportsArrive, StopArrives, ToldNothing DEF IInv
  <2> QED BY <1>4, <2>2, <2>3, <2>4 DEF Allocate, Extends, IInv
<1> QED BY <1>2, <1>3, <1>4

(***************************************************************************)
(* The trial itself, and the theorems.                                     *)
(***************************************************************************)
\* A message of a dead child is dropped.
LEMMA DeadChildKeepsInvariant ==
    ASSUME IInv, ReceiveFromDeadChild
    PROVE  IInv'
<1>1. inbox # <<>> /\ IsSeq(inbox) /\ inbox' = Tail(inbox) /\ UNCHANGED <<t, boxes, rm, timers, exp>>
  BY DEF ReceiveFromDeadChild, IInv
<1>2. PICK q : q = Tail(inbox) /\ q = inbox'
  BY <1>1
<1>3. /\ IsSeq(q) /\ Len(q) = Len(inbox) - 1 /\ Len(inbox) \in Nat \ {0}
      /\ \A i \in 1 .. Len(q) : q[i] = inbox[i + 1] /\ i + 1 \in 1 .. Len(inbox)
  BY <1>1, <1>2, Popped
<1>4. \A i \in 1 .. Len(q) : \A j \in i + 1 .. Len(q) :
         j \in 1 .. Len(q) /\ j + 1 \in (i + 1) + 1 .. Len(inbox)
  BY <1>3
<1>5. PlacedOK(t, q, rm)
  <2>0. PlacedOK(t, inbox, rm)
    BY DEF IInv
  <2>1. ASSUME NEW i \in 1 .. Len(q), q[i].type = "ResourcesAllocated"
        PROVE  /\ q[i].of \in 1 .. t.runID + 1
               /\ q[i].of = t.runID + 1 =>
                     /\ t.task # 0 /\ t.allocations = {} /\ rm.placed
                     /\ \A j \in 1 .. Len(q) :
                           q[j].type = "ResourcesAllocated" /\ q[j].of = q[i].of => j = i
    <3>1. /\ q[i].of \in 1 .. t.runID + 1
          /\ q[i].of = t.runID + 1 =>
                /\ t.task # 0 /\ t.allocations = {} /\ rm.placed
                /\ \A j \in 1 .. Len(inbox) :
                      inbox[j].type = "ResourcesAllocated" /\ inbox[j].of = q[i].of => j = i + 1
      BY <1>3, <2>0, <2>1 DEF PlacedOK
    <3>2. \A j \in 1 .. Len(q) : j + 1 = i + 1 => j = i
      BY <1>3
    <3> QED BY <1>3, <3>1, <3>2
  <2> QED BY <2>0, <2>1 DEF PlacedOK
<1>6. ReportsOK(t, boxes, q)
  <2>0. ReportsOK(t, boxes, inbox)
    BY DEF IInv
  <2>1. ASSUME NEW i \in 1 .. Len(q), q[i].type = "StateChanged"
        PROVE  /\ q[i].from \in DOMAIN boxes /\ q[i].of \in {"running", "ok", "fail"}
               /\ ~Over(t, q[i].from)
               /\ q[i].of \in Exits =>
                     /\ boxes[q[i].from].st = "exited" /\ boxes[q[i].from].reports = <<>>
                     /\ \A j \in i + 1 .. Len(q) : ~ReportIn(q, j, q[i].from)
    <3>1. /\ q[i].from \in DOMAIN boxes /\ q[i].of \in {"running", "ok", "fail"}
          /\ ~Over(t, q[i].from)
          /\ q[i].of \in Exits =>
                /\ boxes[q[i].from].st = "exited" /\ boxes[q[i].from].reports = <<>>
                /\ \A j \in (i + 1) + 1 .. Len(inbox) : ~ReportIn(inbox, j, q[i].from)
      BY <1>3, <2>0, <2>1, SMTT(20) DEF ReportsOK
    <3>2. \A j \in 1 .. Len(q) : ReportIn(q, j, q[i].from) => ReportIn(inbox, j + 1, q[i].from)
      BY <1>3 DEF ReportIn
    <3> QED BY <1>4, <3>1, <3>2
  <2>2. \A i \in 1 .. Len(q) : q[i].type = "containerConnected" => q[i].from \in DOMAIN boxes
    BY <1>3, <2>0 DEF ReportsOK
  <2> QED BY <2>0, <2>1, <2>2 DEF ReportsOK
<1>7. ToldOK(t, q, exp)
  <2>0. ToldOK(t, inbox, exp)
    BY DEF IInv
  <2>1. ASSUME NEW i \in 1 .. Len(q), q[i].type = "Close"
        PROVE  exp.closed /\ \A j \in i + 1 .. Len(q) : q[j].type # "Operations"
    <3>1. exp.closed /\ \A j \in (i + 1) + 1 .. Len(inbox) : inbox[j].type # "Operations"
      BY <1>3, <2>0, <2>1 DEF ToldOK
    <3> QED BY <1>3, <1>4, <3>1
  <2>2. ASSUME NEW i \in 1 .. Len(q), q[i].type = "State", q[i].of \in StoppingStates
        PROVE  exp.state \in StoppingStates /\ \A j \in i + 1 .. Len(q) : q[j].type # "State"
    <3>1. /\ exp.state \in StoppingStates
          /\ \A j \in (i + 1) + 1 .. Len(inbox) : inbox[j].type # "State"
      BY <1>3, <2>0, <2>2 DEF ToldOK
    <3> QED BY <1>3, <1>4, <3>1
  <2>3. (\A i \in 1 .. Len(inbox) : inbox[i].type # "Operations")
            => \A i \in 1 .. Len(q) : q[i].type # "Operations"
    BY <1>3
  <2>4. (\A i \in 1 .. Len(inbox) : inbox[i].type # "State")
            => \A i \in 1 .. Len(q) : q[i].type # "State"
    BY <1>3
  <2> QED BY <2>0, <2>1, <2>2, <2>3, <2>4 DEF ToldOK
<1>8. StopOK(t, q)
  BY <1>3 DEF IInv, StopOK
<1> QED BY <1>1, <1>2, <1>3, <1>5, <1>6, <1>7, <1>8 DEF IInv

LEMMA EmptyInbox == IsSeq(<<>>) /\ 1 .. Len(<<>>) = {}
<1>1. PICK s : s = <<>> /\ s \in Seq({}) /\ Len(s) = 0
  BY EmptySeq
<1>2. IsSeq(s)
  BY <1>1, SeqIsSeq
<1>3. 1 .. Len(s) = {}
  BY <1>1
<1> QED BY <1>1, <1>2, <1>3

\* The actor stops, and nothing it had not handled is kept.
LEMMA StopKeepsInvariant ==
    ASSUME IInv, ReceiveStop
    PROVE  IInv'
<1>1. inbox # <<>> /\ IsSeq(inbox) /\ Now.type = "stop"
  BY DEF ReceiveStop, Received, Now, IInv
<1>2. t.task = 0
  BY <1>1, NowIsFirst DEF IInv, StopOK
<1>3. PICK y : y = [t EXCEPT !.status = "stopped"] /\ y = t'
  BY DEF ReceiveStop
<1>4. inbox' = <<>> /\ UNCHANGED <<boxes, rm, timers, exp>>
  BY DEF ReceiveStop
<1>5. /\ IsTrial(y) /\ y.status = "stopped" /\ SameRun(t, y) /\ SameLinks(t, y)
      /\ SameOrders(t, y) /\ y.out = t.out
  BY <1>3 DEF IInv, RunOK, IsTrial, TrialFields, SameRun, SameLinks, SameOrders
<1>6. RunOK(y) /\ y.out = {}
  BY <1>2, <1>5 DEF IInv, RunOK, SameRun
<1>7. BoxesOK(y, boxes) /\ KnownOK(y, boxes)
  BY <1>5 DEF IInv, BoxesOK, KnownOK, SameRun, SameLinks
<1>8. IsSeq(<<>>) /\ 1 .. Len(<<>>) = {}
  BY EmptyInbox
<1>9. PlacedOK(y, <<>>, rm)
  <2>1. /\ rm = [task |-> t.task, placed |-> rm.placed] /\ rm.placed \in BOOLEAN
        /\ t.allocations # {} => rm.placed
    BY DEF IInv, PlacedOK
  <2> QED BY <1>5, <1>8, <2>1 DEF PlacedOK, SameRun
<1>10. ReportsOK(y, boxes, <<>>)
  <2>1. \A c : Over(y, c) <=> Over(t, c)
    BY <1>5 DEF Over, SameRun
  <2> QED BY <1>8, <2>1 DEF IInv, ReportsOK
<1>11. ToldOK(y, <<>>, exp)
  BY <1>5, <1>8 DEF IInv, ToldOK, SameOrders
<1>12. StopOK(y, <<>>)
  BY <1>8 DEF StopOK
<1>13. timers \subseteq 0 .. y.runID
  BY <1>5 DEF IInv, SameRun
<1> QED BY <1>3, <1>4, <1>6, <1>7, <1>8, <1>9, <1>10, <1>11, <1>12, <1>13 DEF IInv

LEMMA InitInvariant == Init => IInv
<1> SUFFICES ASSUME Init PROVE IInv
  OBVIOUS
<1>1. IsSeq(<<>>) /\ 1 .. Len(<<>>) = {}
  BY EmptyInbox
<1>2. /\ IsTrial(t) /\ t.status = "up" /\ t.runID = 0 /\ t.task = 0 /\ t.allocations = {}
      /\ t.containerRanks = {} /\ t.terminatedContainers = <<>> /\ t.restarts = 0
      /\ t.containers = {} /\ t.containerSockets = {} /\ t.close = FALSE
      /\ t.experimentState = "ACTIVE" /\ t.out = {}
  BY DEF Init, NewTrial, IsTrial, TrialFields, Nothing
<1>3. DOMAIN <<>> = {} /\ DOMAIN boxes = {} /\ inbox = <<>>
  BY DEF Init, Nothing
<1>4. MaxRollbacks \in Nat
  BY TrialAssumption
<1>5. RunOK(t)
  BY <1>2, <1>3, <1>4 DEF RunOK
<1>6. BoxesOK(t, boxes) /\ KnownOK(t, boxes) /\ ReportsOK(t, boxes, inbox) /\ StopOK(t, inbox)
  BY <1>1, <1>2, <1>3 DEF BoxesOK, KnownOK, ReportsOK, StopOK
<1>7. PlacedOK(t, inbox, rm)
  BY <1>1, <1>2, <1>3 DEF PlacedOK, Init
<1>8. ToldOK(t, inbox, exp)
  BY <1>1, <1>2, <1>3 DEF ToldOK, Init, StoppingStates
<1>9. timers \subseteq 0 .. t.runID
  BY DEF Init
<1> QED BY <1>1, <1>2, <1>3, <1>5, <1>6, <1>7, <1>8, <1>9 DEF IInv

LEMMA NextInvariant == IInv /\ [Next]_vars => IInv'
<1> SUFFICES ASSUME IInv, [Next]_vars PROVE IInv'
  OBVIOUS
<1>1. CASE UNCHANGED vars
  BY <1>1 DEF vars, IInv
<1>2. CASE Receive
  <2>1. CASE ReceiveFromDeadChild
    BY <2>1, DeadChildKeepsInvariant
  <2>2. CASE ReceiveStop
    BY <2>2, StopKeepsInvariant
  <2>3. CASE ~ReceiveFromDeadChild /\ ~ReceiveStop
    BY <1>2, <2>3, ReceiveOutcome, EffectsKeepInvariant
  <2> QED BY <2>1, <2>2, <2>3
<1>3. CASE Next /\ ~Receive
  BY <1>3, AgentsKeepInvariant, HarnessesKeepInvariant, ExperimentKeepsInvariant,
     PoolKeepsInvariant DEF Next
<1> QED BY <1>1, <1>2, <1>3

\* The inductive invariant holds in every state of the trial and its environment.
THEOREM TrialInvariant == Spec => []IInv
<1>1. Init => IInv
  BY InitInvariant
<1>2. IInv /\ [Next]_vars => IInv'
  BY NextInvariant
<1> QED BY <1>1, <1>2, PTL DEF Spec

\* The fields of the trial actor stay consistent with one another and with what
\* exists: the request, the allocations and the ranks are of one run, the
\* containers it knows were started, and the pool holds its request or none.
THEOREM TrialTypeCorrect == Spec => []TypeOK
<1>1. IInv => TypeOK
  <2> SUFFICES ASSUME IInv PROVE TypeOK
    OBVIOUS
  <2>1. rm.task = t.task
    BY DEF IInv, PlacedOK
  <2>2. \A c \in DOMAIN boxes : boxes[c].st \in {"pulling", "running", "exited"}
    BY DEF IInv, BoxesOK, BoxOK
  <2> QED BY <2>1, <2>2 DEF IInv, RunOK, KnownOK, TypeOK
<1> QED BY <1>1, TrialInvariant, PTL

\* Whatever order exits, kills, timeouts, preemptions and state changes arrive in,
\* terminated() is reached only when every container of the run has exited: the
\* containers of two runs never live together, and no live container has lost its
\* resources.
THEOREM OneRunEver == Spec => []OneRunAtATime
<1>1. IInv => OneRunAtATime
  <2> SUFFICES ASSUME IInv, NEW c \in DOMAIN boxes, Alive(c)
               PROVE  c \in t.allocations /\ rm.task = c[1]
    BY DEF OneRunAtATime
  <2>1. c \in t.containerRanks
    BY DEF IInv, ReportsOK, Over, Alive
  <2>2. c \in t.allocations /\ c \in Containers(t.task)
    BY <2>1 DEF IInv, RunOK
  <2>3. c[1] = t.task
    BY <2>2, ContainersOf
  <2>4. rm.task = t.task
    BY DEF IInv, PlacedOK
  <2> QED BY <2>2, <2>3, <2>4
<1> QED BY <1>1, TrialInvariant, PTL

\* The actor handles its own stop message only after its last run ended: then no
\* container of the trial is alive and the resource pool holds no request of it.
THEOREM AlwaysStopsClean == Spec => []StopsClean
<1>1. IInv => StopsClean
  <2> SUFFICES ASSUME IInv, t.status = "stopped"
               PROVE  rm.task = 0 /\ \A c \in DOMAIN boxes : ~Alive(c)
    BY DEF StopsClean
  <2>1. t.task = 0 /\ t.containerRanks = {}
    BY DEF IInv, RunOK
  <2>2. rm.task = 0
    BY <2>1 DEF IInv, PlacedOK
  <2>3. \A c \in DOMAIN boxes : ~Alive(c)
    BY <2>1 DEF IInv, ReportsOK, Over, Alive
  <2> QED BY <2>2, <2>3
<1> QED BY <1>1, TrialInvariant, PTL

(***************************************************************************)
(* Restarts are failures, as long as no container's websocket request is   *)
(* handled after it exited.  A second invariant says what a trial with as  *)
(* many restarts as there were failures cannot find in its inbox.          *)
(***************************************************************************)
\* A container that asks for its websocket is running.
DialsInTime ==
    \A c \in DOMAIN boxes :
        boxes[c].socket = "none" /\ boxes'[c].socket = "dialed" => boxes[c].st = "running"

\* Every failure so far was counted, and the trial is not ending the run itself.
Blameless(x, u) == x.restarts = u.crashes /\ ~Ignored(x)

CountOK(x, u) ==
    /\ DOMAIN u = {"crashes", "preempts", "pauses", "kills"}
    /\ u.crashes \in Nat /\ x.restarts <= u.crashes
    /\ x.startedContainers \subseteq x.containerRanks

JobsOK(B) == \A c \in DOMAIN B : IsSeq(B[c].jobs)

\* Nothing has happened to a container of the run, and nothing will.
HealthyBoxes(x, B) ==
    \A c \in DOMAIN B : c \in x.containerRanks =>
       /\ B[c].st # "exited" /\ ~B[c].kill
       /\ \A i \in 1 .. Len(B[c].jobs) : B[c].jobs[i] # TERMINATE

\* No message on its way will make the trial kill the run.
HealthyInbox(x, q, tm) ==
    /\ x.runID \notin tm
    /\ \A i \in 1 .. Len(q) :
          /\ q[i].type = "ChildFailed" => q[i].from \in x.deadChildren
          /\ q[i].type = "terminateTimeout" => q[i].of # x.runID

HealthyOK(x, B, q, tm, u) == Blameless(x, u) => HealthyBoxes(x, B) /\ HealthyInbox(x, q, tm)

TimeoutsOK(x, q) ==
    \A i \in 1 .. Len(q) : q[i].type = "terminateTimeout" => q[i].of \in 0 .. x.runID

\* A websocket is the trial's or was killed by it, and was killed with its
\* container; no request for one is older than its container's exit.
SocketsOK(x, B, q) ==
    /\ \A c \in DOMAIN B : B[c].socket \in {"open", "broken"} =>
          /\ c \in x.containerSockets \cup x.deadChildren
          /\ Over(x, c) => c \in x.deadChildren
    /\ \A i \in 1 .. Len(q) :
          /\ q[i].type = "ChildFailed" =>
                q[i].from \in DOMAIN B /\ B[q[i].from].socket \in {"open", "broken"}
          /\ q[i].type = "containerConnected" =>
                /\ ~Over(x, q[i].from)
                /\ \A j \in 1 .. i - 1 : ~(ReportIn(q, j, q[i].from) /\ q[j].of \in Exits)

FInv ==
    /\ CountOK(t, used) /\ JobsOK(boxes)
    /\ HealthyOK(t, boxes, inbox, timers, used)
    /\ TimeoutsOK(t, inbox)
    /\ SocketsOK(t, boxes, inbox)

\* Such a trial is not told of an exit, of a broken socket or of a timeout.
LEMMA BlamelessHears ==
    ASSUME IInv, FInv, inbox # <<>>, Blameless(t, used),
           Now.type \in {"Completed", "ChildFailed"} => Now.from \notin t.deadChildren
    PROVE  /\ ~(Now.type = "StateChanged" /\ Now.of # "running")
           /\ Now.type # "ChildFailed"
           /\ ~(Now.type = "terminateTimeout" /\ Now.of = t.runID)
<1>1. 1 \in 1 .. Len(inbox) /\ Now = inbox[1]
  BY NowIsFirst DEF IInv
<1>2. HealthyBoxes(t, boxes) /\ HealthyInbox(t, inbox, timers)
  BY DEF FInv, HealthyOK
<1>3. ASSUME Now.type = "StateChanged", Now.of # "running" PROVE FALSE
  <2>1. /\ Now.from \in DOMAIN boxes /\ Now.of \in {"running", "ok", "fail"} /\ ~Over(t, Now.from)
        /\ Now.of \in Exits => boxes[Now.from].st = "exited"
    BY <1>1, <1>3 DEF IInv, ReportsOK
  <2> QED BY <1>2, <1>3, <2>1 DEF Exits, Over, HealthyBoxes
<1>4. /\ Now.type = "ChildFailed" => Now.from \in t.deadChildren
      /\ Now.type = "terminateTimeout" => Now.of # t.runID
  BY <1>1, <1>2 DEF HealthyInbox
<1> QED BY <1>3, <1>4

\* A restart is counted when a container has exited by itself.
LEMMA EffectsCount ==
    ASSUME IInv, FInv, inbox # <<>>, NEW z, Outcome(z), Effects(z)
    PROVE  CountOK(t', used')
<1>1. /\ used' = used /\ t'.restarts = z.restarts /\ t'.startedContainers = z.startedContainers
      /\ t'.containerRanks = z.containerRanks
  BY EffectsTrial, OutcomeIsTrial DEF SameRun, Effects
<1>2. /\ CountOK(t, used) /\ RunOK(t) /\ t.restarts \in Int /\ used.crashes \in Nat
  BY TrialAssumption DEF FInv, IInv, RunOK, CountOK
<1>3. z.startedContainers \subseteq z.containerRanks
  <2>1. CASE Going(t, z)
    BY <1>2, <2>1 DEF Going, CountOK
  <2>2. CASE Requesting(t, z)
    BY <1>2, <2>2 DEF Requesting, CountOK, RunOK
  <2>3. CASE Placing(t, z)
    BY <1>2, <2>3 DEF Placing, CountOK, RunOK
  <2>4. CASE EndingEmpty(t, z) \/ EndingLast(t, z, Now.from)
    BY <2>4 DEF EndingEmpty, EndingLast, Ending
  <2>5. CASE Exiting(t, z, Now.from)
    BY <1>2, <2>5 DEF Exiting, CountOK
  <2> QED BY <2>1, <2>2, <2>3, <2>4, <2>5 DEF Outcome
<1>4. z.restarts <= used.crashes
  <2>1. CASE z.restarts = t.restarts
    BY <1>2, <2>1 DEF CountOK
  <2>2. CASE z.restarts # t.restarts
    <3>1. \/ EndingEmpty(t, z)
          \/ /\ Now.type = "StateChanged" /\ Now.of # "running" /\ EndingLast(t, z, Now.from)
      BY <2>2 DEF Outcome, Going, Requesting, Placing, Exiting, SameTrial
    <3>2. ~EndingEmpty(t, z)
      BY <1>2, <2>2 DEF EndingEmpty, CountOK, RunOK
    <3>3. z.restarts = t.restarts + 1 /\ ~Ignored(t)
      BY <2>2, <3>1, <3>2 DEF EndingLast
    <3>4. ~Blameless(t, used)
      BY <3>1, <3>2, BlamelessHears
    <3>5. t.restarts < used.crashes
      BY <1>2, <3>3, <3>4 DEF Blameless, CountOK
    <3> QED BY <1>2, <3>3, <3>5
  <2> QED BY <2>1, <2>2
<1> QED BY <1>1, <1>2, <1>3, <1>4 DEF CountOK

LEMMA EffectsTimeouts ==
    ASSUME IInv, FInv, inbox # <<>>, NEW z, Outcome(z), Effects(z)
    PROVE  TimeoutsOK(t', inbox')
<1>1. t'.runID = z.runID /\ t.runID \in Nat
  BY EffectsTrial, OutcomeIsTrial DEF SameRun, IInv, RunOK
<1>2. z.runID \in {t.runID, t.runID + 1}
  BY DEF Outcome, Going, Requesting, Placing, EndingEmpty, EndingLast, Ending, Exiting, SameTrial
<1>3. ASSUME NEW i \in 1 .. Len(inbox'), inbox'[i].type = "terminateTimeout"
      PROVE  inbox'[i].of \in 0 .. z.runID
  <2>1. i + 1 \in 1 .. Len(inbox) /\ inbox'[i] = inbox[i + 1]
    BY <1>3, InboxKept
  <2>2. inbox'[i].of \in 0 .. t.runID
    BY <1>3, <2>1 DEF FInv, TimeoutsOK
  <2> QED BY <1>1, <1>2, <2>2
<1> QED BY <1>1, <1>3 DEF TimeoutsOK

\* What is written to a container is added to its jobs.
LEMMA EffectsJobs ==
    ASSUME IInv, FInv, NEW z, Outcome(z), Effects(z)
    PROVE  /\ JobsOK(boxes')
           /\ \A c \in DOMAIN boxes :
                 \A i \in 1 .. Len(boxes'[c].jobs) : boxes'[c].jobs[i] = TERMINATE =>
                    \/ i \in 1 .. Len(boxes[c].jobs) /\ boxes[c].jobs[i] = TERMINATE
                    \/ \E m \in z.out : m.type = "Run" /\ m.of = TERMINATE
           /\ \A c \in DOMAIN boxes' \ DOMAIN boxes :
                 \A i \in 1 .. Len(boxes'[c].jobs) : boxes'[c].jobs[i] # TERMINATE
<1>1. ASSUME NEW c \in DOMAIN boxes
      PROVE  /\ IsSeq(boxes'[c].jobs)
             /\ \A i \in 1 .. Len(boxes'[c].jobs) : boxes'[c].jobs[i] = TERMINATE =>
                   \/ i \in 1 .. Len(boxes[c].jobs) /\ boxes[c].jobs[i] = TERMINATE
                   \/ \E m \in z.out : m.type = "Run" /\ m.of = TERMINATE
  <2>0. PICK p : p = boxes[c].jobs /\ IsSeq(p)
    BY DEF FInv, JobsOK
  <2> DEFINE written == {m.of : m \in Sent(z, "Run")}
             gets    == {w \in written : IsLeader(c) \/ w = TERMINATE}
             w       == CHOOSE w \in gets : TRUE
  <2>1. boxes'[c] = BoxAfter(z, c, boxes[c]) /\ DOMAIN boxes[c] = BoxFields
    BY EffectsBoxes DEF IInv, BoxesOK, BoxOK
  <2>2. PICK q : q = boxes'[c].jobs
    OBVIOUS
  <2>3. q = p \/ (gets # {} /\ q = Append(p, w))
    BY <2>0, <2>1, <2>2 DEF BoxAfter, BoxFields
  <2>4. gets # {} => \E m \in z.out : m.type = "Run" /\ m.of = w
    BY DEF Sent
  <2> HIDE DEF gets, w
  <2>5. CASE q = p
    BY <2>0, <2>2, <2>5
  <2>6. CASE gets # {} /\ q = Append(p, w)
    <3>1. Extends(p, w, q)
      BY <2>0, <2>6, Appended
    <3>2. /\ IsSeq(q) /\ \A i \in 1 .. Len(q) : (i \in 1 .. Len(p) /\ q[i] = p[i]) \/ q[i] = w
      BY <3>1 DEF Extends
    <3> QED BY <2>0, <2>2, <2>4, <2>6, <3>2
  <2> QED BY <2>3, <2>5, <2>6
<1>2. ASSUME NEW c \in DOMAIN boxes' \ DOMAIN boxes
      PROVE  /\ IsSeq(boxes'[c].jobs)
             /\ \A i \in 1 .. Len(boxes'[c].jobs) : boxes'[c].jobs[i] # TERMINATE
  <2>1. PICK w : w # TERMINATE /\ boxes'[c] = NewBox(z, c, w)
    BY <1>2, EffectsBoxes
  <2>2. boxes'[c].jobs = <<>> \/ boxes'[c].jobs = <<w>>
    BY <2>1 DEF NewBox
  <2>3. CASE boxes'[c].jobs = <<>>
    BY <2>3, EmptyInbox
  <2>4. CASE boxes'[c].jobs = <<w>>
    <3>0. <<w>> \in Seq({w})
      OBVIOUS
    <3>1. PICK s : s = <<w>> /\ s \in Seq({w})
      BY <3>0
    <3>2. IsSeq(s) /\ DOMAIN s = 1 .. Len(s)
      BY <3>1, SeqIsSeq
    <3>3. \A i \in 1 .. Len(s) : s[i] = w
      BY <3>1
    <3> QED BY <2>1, <2>4, <3>1, <3>2, <3>3
  <2> QED BY <2>2, <2>3, <2>4
<1>3. JobsOK(boxes')
  BY <1>1, <1>2 DEF JobsOK
<1> QED BY <1>1, <1>2, <1>3

\* The trial keeps its websockets until it kills them, each with its container.
LEMMA EffectsLinks ==
    ASSUME IInv, NEW z, Outcome(z)
    PROVE  /\ t.deadChildren \subseteq z.deadChildren
           /\ t.containerSockets \subseteq z.containerSockets \cup z.deadChildren
           /\ \A c \in DOMAIN boxes : c \in t.containerSockets /\ Over(z, c) =>
                 Over(t, c) \/ c \in z.deadChildren
<1>1. RunOK(t)
  BY DEF IInv
<1>2. CASE Going(t, z)
  BY <1>2 DEF Going, Over
<1>3. CASE Requesting(t, z)
  BY <1>1, <1>3 DEF RunOK, Requesting, Over
<1>4. CASE Placing(t, z)
  BY <1>1, <1>4 DEF RunOK, Placing, Over
<1>5. CASE EndingEmpty(t, z)
  BY <1>1, <1>5 DEF RunOK, EndingEmpty, Over
<1>6. CASE Exiting(t, z, Now.from)
  BY <1>6 DEF Exiting, Over
<1>7. CASE EndingLast(t, z, Now.from)
  <2>1. t.containerRanks \subseteq DOMAIN t.terminatedContainers \cup {Now.from}
    BY <1>1, <1>7 DEF RunOK, EndingLast, LastExit
  <2> QED BY <1>7, <2>1 DEF EndingLast, Over
<1> QED BY <1>2, <1>3, <1>4, <1>5, <1>6, <1>7 DEF Outcome

LEMMA EffectsSockets ==
    ASSUME IInv, FInv, inbox # <<>>, NEW z, Outcome(z), Effects(z)
    PROVE  SocketsOK(t', boxes', inbox')
<1>1. /\ t'.containerSockets = z.containerSockets /\ t'.deadChildren = z.deadChildren
      /\ \A c : Over(t', c) <=> Over(z, c)
  BY EffectsTrial, OutcomeIsTrial DEF SameRun, SameLinks, Over
<1>2. SocketsOK(t, boxes, inbox)
  BY DEF FInv
<1>3. 1 \in 1 .. Len(inbox) /\ Now = inbox[1] /\ Len(inbox) \in Nat
  BY NowIsFirst DEF IInv
<1>4. ASSUME NEW c \in DOMAIN boxes
      PROVE  /\ boxes'[c].socket = IF MsgFrom("Accept", c) \in z.out THEN "open" ELSE boxes[c].socket
             /\ boxes[c].socket \in {"open", "broken"} => boxes'[c].socket \in {"open", "broken"}
  <2>1. boxes'[c] = BoxAfter(z, c, boxes[c]) /\ DOMAIN boxes[c] = BoxFields
    BY EffectsBoxes DEF IInv, BoxesOK, BoxOK
  <2>2. BoxAfter(z, c, boxes[c]).socket
           = IF MsgFrom("Accept", c) \in z.out THEN "open" ELSE boxes[c].socket
    BY <2>1 DEF BoxAfter, BoxFields
  <2> QED BY <2>1, <2>2
<1>5. ASSUME NEW c \in DOMAIN boxes', boxes'[c].socket \in {"open", "broken"}
      PROVE  /\ c \in z.containerSockets \cup z.deadChildren
             /\ Over(z, c) => c \in z.deadChildren
  <2>1. c \in DOMAIN boxes
    <3> SUFFICES ASSUME c \notin DOMAIN boxes PROVE FALSE
      OBVIOUS
    <3>1. PICK w : boxes'[c] = NewBox(z, c, w)
      BY <1>5, EffectsBoxes
    <3> QED BY <1>5, <3>1 DEF NewBox
  <2>2. CASE MsgFrom("Accept", c) \in z.out
    <3>1. Now.type = "containerConnected" /\ Now.from = c /\ c \in z.containerSockets
      BY <2>2 DEF Outcome, Linked
    <3>2. ~Over(t, c)
      BY <1>2, <1>3, <3>1 DEF SocketsOK
    <3>3. ~Over(z, c)
      BY <2>1, <3>1, <3>2, OverAfter
    <3> QED BY <3>1, <3>3
  <2>3. CASE MsgFrom("Accept", c) \notin z.out
    <3>1. boxes[c].socket \in {"open", "broken"}
      BY <1>4, <1>5, <2>1, <2>3
    <3>2. /\ c \in t.containerSockets \cup t.deadChildren
          /\ Over(t, c) => c \in t.deadChildren
      BY <1>2, <2>1, <3>1 DEF SocketsOK
    <3> QED BY <2>1, <3>2, EffectsLinks
  <2> QED BY <2>2, <2>3
<1>6. ASSUME NEW i \in 1 .. Len(inbox'), inbox'[i].type = "ChildFailed"
      PROVE  inbox'[i].from \in DOMAIN boxes' /\ boxes'[inbox'[i].from].socket \in {"open", "broken"}
  <2>1. i + 1 \in 1 .. Len(inbox) /\ inbox'[i] = inbox[i + 1]
    BY <1>6, InboxKept
  <2>2. inbox'[i].from \in DOMAIN boxes /\ boxes[inbox'[i].from].socket \in {"open", "broken"}
    BY <1>2, <1>6, <2>1 DEF SocketsOK
  <2> QED BY <1>4, <2>2, EffectsBoxes
<1>7. ASSUME NEW i \in 1 .. Len(inbox'), inbox'[i].type = "containerConnected"
      PROVE  /\ ~Over(z, inbox'[i].from)
             /\ \A j \in 1 .. i - 1 : ~(ReportIn(inbox', j, inbox'[i].from) /\ inbox'[j].of \in Exits)
  <2>1. i \in Nat \ {0} /\ i + 1 \in 1 .. Len(inbox) /\ inbox'[i] = inbox[i + 1]
    BY <1>7, InboxKept
  <2>2. PICK c : c = inbox'[i].from
    OBVIOUS
  <2>3. /\ c \in DOMAIN boxes /\ ~Over(t, c)
        /\ \A j \in 1 .. (i + 1) - 1 : ~(ReportIn(inbox, j, c) /\ inbox[j].of \in Exits)
    BY <1>2, <1>7, <2>1, <2>2 DEF SocketsOK, IInv, ReportsOK
  <2>4. ASSUME Now.type = "StateChanged", Now.of # "running", Now.from = c
        PROVE  FALSE
    <3>1. Now.of \in Exits /\ ReportIn(inbox, 1, c)
      BY <1>3, <2>4 DEF IInv, ReportsOK, ReportIn, Exits
    <3>2. 1 \in 1 .. (i + 1) - 1
      BY <2>1
    <3> QED BY <1>3, <2>3, <3>1, <3>2
  <2>5. ~Over(z, c)
    BY <2>3, <2>4, OverAfter
  <2>6. ASSUME NEW j \in 1 .. i - 1, ReportIn(inbox', j, c), inbox'[j].of \in Exits
        PROVE  FALSE
    <3>1. j \in 1 .. Len(inbox') /\ inbox'[j].type = "StateChanged"
      <4>1. Len(inbox') \in Nat
        BY InboxAfter DEF IInv
      <4> QED BY <2>1, <2>6, <4>1 DEF ReportIn
    <3>2. j + 1 \in 1 .. Len(inbox) /\ inbox'[j] = inbox[j + 1]
      BY <3>1, InboxKept
    <3>3. j + 1 \in 1 .. (i + 1) - 1 /\ ReportIn(inbox, j + 1, c)
      BY <2>1, <2>6, <3>2 DEF ReportIn
    <3> QED BY <2>3, <2>6, <3>2, <3>3
  <2> QED BY <2>2, <2>5, <2>6
<1> QED BY <1>1, <1>5, <1>6, <1>7 DEF SocketsOK

LEMMA EffectsHealthy ==
    ASSUME IInv, FInv, inbox # <<>>, NEW z, MessageOutcome(z), Effects(z),
           Now.type \in {"Completed", "ChildFailed"} => Now.from \notin t.deadChildren
    PROVE  HealthyOK(t', boxes', inbox', timers', used')
<1> SUFFICES ASSUME Blameless(t', used')
             PROVE  HealthyBoxes(t', boxes') /\ HealthyInbox(t', inbox', timers')
  BY DEF HealthyOK
<1>1. Outcome(z) /\ Sober(z)
  BY DEF MessageOutcome
<1>2. /\ used' = used /\ t'.restarts = z.restarts /\ t'.containerRanks = z.containerRanks
      /\ t'.runID = z.runID /\ t'.deadChildren = z.deadChildren /\ (Ignored(t') <=> Ignored(z))
  BY <1>1, EffectsTrial, OutcomeIsTrial DEF SameRun, SameLinks, Effects
<1>3. ~Ignored(z) /\ z.restarts = used.crashes /\ ~z.terminationSent
  BY <1>2 DEF Blameless, Ignored
<1>4. \A m \in z.out : m.type # "terminateTimeout" /\ ~(m.type = "Run" /\ m.of = TERMINATE)
  BY <1>1, <1>3 DEF Sober
<1>5. timers' = timers
  <2>1. Sent(z, "terminateTimeout") = {}
    BY <1>4 DEF Sent
  <2> QED BY <2>1 DEF Effects
<1>6. CASE Ending(t, z)
  <2>1. z.containerRanks = {} /\ z.runID = t.runID + 1 /\ t.runID \in Nat
    BY <1>6 DEF Ending, IInv, RunOK
  <2>2. HealthyBoxes(t', boxes')
    BY <1>2, <2>1 DEF HealthyBoxes
  <2>3. z.runID \notin timers
    BY <2>1 DEF IInv
  <2>4. ASSUME NEW i \in 1 .. Len(inbox'), inbox'[i].type = "terminateTimeout"
        PROVE  inbox'[i].of # z.runID
    <3>1. i + 1 \in 1 .. Len(inbox) /\ inbox'[i] = inbox[i + 1]
      BY <2>4, InboxKept
    <3>2. inbox'[i].of \in 0 .. t.runID
      BY <2>4, <3>1 DEF FInv, TimeoutsOK
    <3> QED BY <2>1, <3>2
  <2>5. ASSUME NEW i \in 1 .. Len(inbox'), inbox'[i].type = "ChildFailed"
        PROVE  inbox'[i].from \in z.deadChildren
    <3>1. SocketsOK(t', boxes', inbox')
      BY <1>1, EffectsSockets
    <3>2. inbox'[i].from \in DOMAIN boxes' /\ boxes'[inbox'[i].from].socket \in {"open", "broken"}
      BY <2>5, <3>1 DEF SocketsOK
    <3>3. Over(t', inbox'[i].from)
      BY <1>2, <2>1 DEF Over
    <3> QED BY <1>2, <3>1, <3>2, <3>3 DEF SocketsOK
  <2> QED BY <1>2, <1>5, <2>2, <2>3, <2>4, <2>5 DEF HealthyInbox
<1>7. CASE ~Ending(t, z)
  <2>1. /\ SameTrial(t, z)
        /\ Going(t, z) \/ Requesting(t, z) \/ Placing(t, z)
              \/ (Now.type = "StateChanged" /\ Now.of # "running" /\ Exiting(t, z, Now.from))
    BY <1>1, <1>7 DEF Outcome, Going, Requesting, Placing, Exiting, EndingEmpty, EndingLast
  <2>2. Blameless(t, used)
    BY <1>3, <2>1 DEF SameTrial, Blameless
  <2>3. HealthyBoxes(t, boxes) /\ HealthyInbox(t, inbox, timers)
    BY <2>2 DEF FInv, HealthyOK
  <2>4. /\ ~(Now.type = "StateChanged" /\ Now.of # "running")
        /\ Now.type # "ChildFailed"
        /\ ~(Now.type = "terminateTimeout" /\ Now.of = t.runID)
    BY <2>2, BlamelessHears
  <2>5. /\ z.runID = t.runID /\ t.deadChildren \subseteq z.deadChildren
    BY <1>1, <2>1, EffectsLinks DEF SameTrial
  <2>6. HealthyInbox(t', inbox', timers')
    <3>1. ASSUME NEW i \in 1 .. Len(inbox'), inbox'[i].type \in {"ChildFailed", "terminateTimeout"}
          PROVE  /\ inbox'[i].type = "ChildFailed" => inbox'[i].from \in z.deadChildren
                 /\ inbox'[i].type = "terminateTimeout" => inbox'[i].of # z.runID
      <4>1. i + 1 \in 1 .. Len(inbox) /\ inbox'[i] = inbox[i + 1]
        BY <3>1, InboxKept
      <4> QED BY <2>3, <2>5, <4>1 DEF HealthyInbox
    <3> QED BY <1>2, <1>5, <2>3, <2>5, <3>1 DEF HealthyInbox
  <2>7. (\E m \in z.out : m.type = "Kill") => t.containerRanks = {}
    BY <1>1, <1>3, <2>4 DEF Outcome, Caused
  <2>8. ASSUME NEW c \in DOMAIN boxes, c \in z.containerRanks
        PROVE  c \in t.containerRanks
    BY <1>1, <2>1, <2>8, EffectsRun, EffectsBoxesOK
       DEF Going, Requesting, Placing, Exiting, IInv, BoxesOK, RunOK, Containers, SameTrial
  <2>9. ASSUME NEW c \in DOMAIN boxes, c \in z.containerRanks
        PROVE  /\ boxes'[c].st # "exited" /\ ~boxes'[c].kill
               /\ \A i \in 1 .. Len(boxes'[c].jobs) : boxes'[c].jobs[i] # TERMINATE
    <3>1. /\ boxes[c].st # "exited" /\ ~boxes[c].kill /\ c \in t.containerRanks
          /\ \A i \in 1 .. Len(boxes[c].jobs) : boxes[c].jobs[i] # TERMINATE
      BY <2>3, <2>8, <2>9 DEF HealthyBoxes
    <3>2. boxes'[c] = BoxAfter(z, c, boxes[c]) /\ DOMAIN boxes[c] = BoxFields
          /\ boxes'[c].st = boxes[c].st
      BY <1>1, EffectsBoxes DEF IInv, BoxesOK, BoxOK
    <3>3. Sent(z, "Kill") = {}
      BY <2>7, <3>1 DEF Sent
    <3>4. boxes'[c].kill = (boxes[c].kill \/ FALSE)
      BY <3>2, <3>3 DEF BoxAfter, BoxFields
    <3>5. \A i \in 1 .. Len(boxes'[c].jobs) : boxes'[c].jobs[i] # TERMINATE
      BY <1>1, <1>4, <3>1, EffectsJobs
    <3> QED BY <3>1, <3>2, <3>4, <3>5
  <2>10. ASSUME NEW c \in DOMAIN boxes' \ DOMAIN boxes
         PROVE  /\ boxes'[c].st # "exited" /\ ~boxes'[c].kill
                /\ \A i \in 1 .. Len(boxes'[c].jobs) : boxes'[c].jobs[i] # TERMINATE
    <3>1. PICK w : boxes'[c] = NewBox(z, c, w)
      BY <1>1, <2>10, EffectsBoxes
    <3>2. boxes'[c].st = "pulling" /\ boxes'[c].kill = FALSE
      BY <3>1 DEF NewBox
    <3> QED BY <1>1, <2>10, <3>2, EffectsJobs
  <2>11. HealthyBoxes(t', boxes')
    BY <1>2, <2>9, <2>10 DEF HealthyBoxes
  <2> QED BY <2>6, <2>11
<1> QED BY <1>6, <1>7

LEMMA EffectsKeepCount ==
    ASSUME IInv, FInv, inbox # <<>>, NEW z, MessageOutcome(z), Effects(z),
           Now.type \in {"Completed", "ChildFailed"} => Now.from \notin t.deadChildren
    PROVE  FInv'
<1>1. Outcome(z)
  BY DEF MessageOutcome
<1> QED BY <1>1, EffectsCount, EffectsJobs, EffectsHealthy, EffectsTimeouts, EffectsSockets DEF FInv

\* A message that is no reason to end the run arrives.
LEMMA HarmlessArrives ==
    ASSUME NEW p, NEW m, NEW q, NEW x, NEW B, NEW tm, NEW u, Extends(p, m, q),
           HealthyOK(x, B, p, tm, u), TimeoutsOK(x, p), SocketsOK(x, B, p),
           m.type = "ChildFailed" =>
              /\ ~Blameless(x, u)
              /\ m.from \in DOMAIN B /\ B[m.from].socket \in {"open", "broken"},
           m.type = "terminateTimeout" =>
              m.of \in 0 .. x.runID /\ (Blameless(x, u) => m.of # x.runID),
           m.type = "containerConnected" =>
              /\ ~Over(x, m.from)
              /\ \A j \in 1 .. Len(p) : ~(ReportIn(p, j, m.from) /\ p[j].of \in Exits)
    PROVE  HealthyOK(x, B, q, tm, u) /\ TimeoutsOK(x, q) /\ SocketsOK(x, B, q)
<1>1. /\ Len(p) \in Nat /\ Len(q) = Len(p) + 1
      /\ \A i \in 1 .. Len(p) : q[i] = p[i]
      /\ \A i \in 1 .. Len(q) :
            \/ i \in 1 .. Len(p) /\ q[i] = p[i]
            \/ i = Len(q) /\ q[i] = m
  BY DEF Extends
<1>2. HealthyOK(x, B, q, tm, u)
  BY <1>1 DEF HealthyOK, HealthyInbox
<1>3. TimeoutsOK(x, q)
  BY <1>1 DEF TimeoutsOK
<1>4. ASSUME NEW i \in 1 .. Len(q), q[i].type = "containerConnected"
      PROVE  /\ ~Over(x, q[i].from)
             /\ \A j \in 1 .. i - 1 : ~(ReportIn(q, j, q[i].from) /\ q[j].of \in Exits)
  <2>1. \A j \in 1 .. i - 1 : j \in 1 .. Len(p) /\ q[j] = p[j]
    BY <1>1
  <2>2. /\ ~Over(x, q[i].from)
        /\ \A j \in 1 .. i - 1 : ~(ReportIn(p, j, q[i].from) /\ p[j].of \in Exits)
    BY <1>1, <1>4, <2>1 DEF SocketsOK
  <2> QED BY <2>1, <2>2 DEF ReportIn
<1>5. \A i \in 1 .. Len(q) : q[i].type = "ChildFailed" =>
         q[i].from \in DOMAIN B /\ B[q[i].from].socket \in {"open", "broken"}
  BY <1>1 DEF SocketsOK
<1>6. SocketsOK(x, B, q)
  BY <1>4, <1>5 DEF SocketsOK
<1> QED BY <1>2, <1>3, <1>6

\* Types of which the second invariant says nothing.
Harmless == {"ResourcesAllocated", "ReleaseResources", "StateChanged", "Completed", "Operations",
             "Close", "State", "sendNextWorkload", "killTrial"}

LEMMA OthersArrive ==
    ASSUME NEW p, NEW m, NEW q, NEW x, NEW B, NEW tm, NEW u, IsSeq(p), q = Append(p, m),
           HealthyOK(x, B, p, tm, u), TimeoutsOK(x, p), SocketsOK(x, B, p), m.type \in Harmless
    PROVE  IsSeq(q) /\ HealthyOK(x, B, q, tm, u) /\ TimeoutsOK(x, q) /\ SocketsOK(x, B, q)
<1>1. Extends(p, m, q)
  BY Appended
<1>2. m.type \notin {"ChildFailed", "terminateTimeout", "containerConnected"}
  BY DEF Harmless
<1>3. HealthyOK(x, B, q, tm, u) /\ TimeoutsOK(x, q) /\ SocketsOK(x, B, q)
  BY <1>1, <1>2, HarmlessArrives
<1> QED BY <1>1, <1>3 DEF Extends

\* A failure leaves a trial that has not counted it.
LEMMA FailureUncounted ==
    ASSUME IInv, FInv, Use("crashes")
    PROVE  CountOK(t, used') /\ ~Blameless(t, used')
<1>1. /\ DOMAIN used = {"crashes", "preempts", "pauses", "kills"} /\ used.crashes \in Nat
      /\ t.restarts <= used.crashes /\ t.startedContainers \subseteq t.containerRanks
      /\ t.restarts \in Int
  BY TrialAssumption DEF FInv, CountOK, IInv, RunOK
<1>2. /\ DOMAIN used' = {"crashes", "preempts", "pauses", "kills"}
      /\ used'.crashes = used.crashes + 1
  BY <1>1 DEF Use
<1> QED BY <1>1, <1>2 DEF CountOK, Blameless

LEMMA NoFailure ==
    ASSUME FInv, NEW bound \in {"preempts", "pauses", "kills"}, used' = used \/ Use(bound)
    PROVE  CountOK(t, used') /\ (Blameless(t, used') <=> Blameless(t, used))
<1>1. /\ DOMAIN used = {"crashes", "preempts", "pauses", "kills"} /\ used.crashes \in Nat
      /\ CountOK(t, used)
  BY DEF FInv, CountOK
<1>2. DOMAIN used' = {"crashes", "preempts", "pauses", "kills"} /\ used'.crashes = used.crashes
  BY <1>1 DEF Use
<1> QED BY <1>1, <1>2 DEF CountOK, Blameless

\* A container changes that is not of a blameless run, or does not suffer.
LEMMA BoxStaysFine ==
    ASSUME IInv, FInv, NEW c \in DOMAIN boxes, NEW b, Changes(c, b), IsSeq(b.jobs),
           b.socket \in {"open", "broken"} <=> boxes[c].socket \in {"open", "broken"},
           Blameless(t, used') =>
              /\ Blameless(t, used)
              /\ c \in t.containerRanks =>
                    /\ b.st # "exited" /\ ~b.kill
                    /\ \A i \in 1 .. Len(b.jobs) : b.jobs[i] # TERMINATE
    PROVE  /\ JobsOK(boxes') /\ HealthyOK(t, boxes', inbox, timers, used')
           /\ TimeoutsOK(t, inbox) /\ SocketsOK(t, boxes', inbox)
<1>1. /\ DOMAIN boxes' = DOMAIN boxes /\ boxes'[c] = b
      /\ \A d \in DOMAIN boxes \ {c} : boxes'[d] = boxes[d]
  BY DEF Changes
<1>2. JobsOK(boxes')
  BY <1>1 DEF FInv, JobsOK
<1>3. HealthyOK(t, boxes', inbox, timers, used')
  BY <1>1 DEF FInv, HealthyOK, HealthyBoxes
<1>4. SocketsOK(t, boxes', inbox)
  <2>1. \A d \in DOMAIN boxes :
           boxes'[d].socket \in {"open", "broken"} <=> boxes[d].socket \in {"open", "broken"}
    BY <1>1
  <2> QED BY <1>1, <2>1 DEF FInv, SocketsOK
<1> QED BY <1>2, <1>3, <1>4 DEF FInv

\* The containers that have not exited are those of the run.
LEMMA LiveIsOfTheRun ==
    ASSUME IInv, NEW c \in DOMAIN boxes, boxes[c].st # "exited"
    PROVE  c \in t.containerRanks /\ ~Over(t, c)
BY DEF IInv, ReportsOK, Over

LEMMA AgentsKeepCount ==
    ASSUME IInv, FInv, Agents
    PROVE  FInv'
<1>1. PICK c \in DOMAIN boxes :
         BoxRuns(c) \/ BoxKilled(c) \/ (\E exit \in Exits : BoxCrashes(c, exit)) \/ Report(c)
  BY DEF Agents, Exits
<1>2. BoxOK(boxes[c]) /\ IsSeq(boxes[c].jobs)
  BY DEF IInv, BoxesOK, FInv, JobsOK
<1>3. Blameless(t, used) /\ c \in t.containerRanks =>
         /\ boxes[c].st # "exited" /\ ~boxes[c].kill
         /\ \A i \in 1 .. Len(boxes[c].jobs) : boxes[c].jobs[i] # TERMINATE
  BY DEF FInv, HealthyOK, HealthyBoxes
<1>4. CASE BoxRuns(c)
  <2>1. PICK b : b = [boxes[c] EXCEPT !.st = "running", !.reports = Append(@, "running")]
    OBVIOUS
  <2>2. Changes(c, b)
    BY <1>2, <1>4, <2>1 DEF BoxRuns, Changes, BoxOK, BoxFields
  <2>3. /\ b.st = "running" /\ b.jobs = boxes[c].jobs /\ b.kill = boxes[c].kill
        /\ b.socket = boxes[c].socket
    BY <1>2, <2>1 DEF BoxOK, BoxFields
  <2>4. /\ JobsOK(boxes') /\ HealthyOK(t, boxes', inbox, timers, used')
        /\ TimeoutsOK(t, inbox) /\ SocketsOK(t, boxes', inbox)
    BY <1>2, <1>3, <1>4, <2>2, <2>3, BoxStaysFine DEF BoxRuns
  <2> QED BY <1>4, <2>4 DEF BoxRuns, FInv
<1>5. ASSUME NEW exit, BoxExits(c, exit), ~Blameless(t, used'), CountOK(t, used'),
             UNCHANGED <<t, inbox, timers>>
      PROVE  FInv'
  <2>1. PICK b : b = [boxes[c] EXCEPT !.st = "exited", !.exit = exit, !.reports = Append(@, exit),
                                      !.jobs = <<>>, !.ready = FALSE, !.model = 0]
    OBVIOUS
  <2>2. Changes(c, b)
    BY <1>2, <1>5, <2>1 DEF BoxExits, Changes, BoxOK, BoxFields
  <2>3. IsSeq(b.jobs) /\ b.socket = boxes[c].socket
    BY <1>2, <2>1, EmptyInbox DEF BoxOK, BoxFields
  <2>4. /\ JobsOK(boxes') /\ HealthyOK(t, boxes', inbox, timers, used')
        /\ TimeoutsOK(t, inbox) /\ SocketsOK(t, boxes', inbox)
    BY <1>5, <2>2, <2>3, BoxStaysFine
  <2> QED BY <1>5, <2>4 DEF FInv
<1>6. CASE BoxKilled(c)
  <2>1. c \in t.containerRanks
    BY <1>6, LiveIsOfTheRun DEF BoxKilled
  <2>2. ~Blameless(t, used)
    BY <1>3, <1>6, <2>1 DEF BoxKilled
  <2> QED BY <1>5, <1>6, <2>2 DEF BoxKilled, FInv
<1>7. CASE \E exit \in Exits : BoxCrashes(c, exit)
  BY <1>5, <1>7, FailureUncounted DEF BoxCrashes
<1>8. CASE Report(c)
  <2>1. PICK b : b = [boxes[c] EXCEPT !.reports = Tail(@)]
    OBVIOUS
  <2>2. Changes(c, b)
    BY <1>8, <2>1 DEF Report, Changes
  <2>3. /\ b.st = boxes[c].st /\ b.jobs = boxes[c].jobs /\ b.kill = boxes[c].kill
        /\ b.socket = boxes[c].socket
    BY <1>2, <2>1 DEF BoxOK, BoxFields
  <2>4. /\ JobsOK(boxes') /\ HealthyOK(t, boxes', inbox, timers, used')
        /\ TimeoutsOK(t, inbox) /\ SocketsOK(t, boxes', inbox)
    BY <1>2, <1>3, <1>8, <2>2, <2>3, BoxStaysFine DEF Report
  <2>5. PICK m : m.type \in Harmless /\ inbox' = Append(inbox, m)
    BY <1>8 DEF Report, Deliver, Harmless
  <2>6. /\ HealthyOK(t, boxes', inbox', timers, used') /\ TimeoutsOK(t, inbox')
        /\ SocketsOK(t, boxes', inbox')
    BY <2>4, <2>5, OthersArrive DEF IInv
  <2> QED BY <1>8, <2>4, <2>6 DEF Report, FInv
<1> QED BY <1>1, <1>4, <1>6, <1>7, <1>8

LEMMA HarnessesKeepCount ==
    ASSUME DialsInTime, IInv, FInv, Harnesses
    PROVE  FInv'
<1>1. PICK c \in DOMAIN boxes :
         \/ Dial(c) \/ Quit(c) \/ Relay(c) \/ SocketBreaks(c)
         \/ \E reason \in ExitReasons : Work(c, reason)
  BY DEF Harnesses
<1>2. BoxOK(boxes[c]) /\ IsSeq(boxes[c].jobs)
  BY DEF IInv, BoxesOK, FInv, JobsOK
<1>3. Blameless(t, used) /\ c \in t.containerRanks =>
         /\ boxes[c].st # "exited" /\ ~boxes[c].kill
         /\ \A i \in 1 .. Len(boxes[c].jobs) : boxes[c].jobs[i] # TERMINATE
  BY DEF FInv, HealthyOK, HealthyBoxes
<1>4. CASE Dial(c)
  <2>1. PICK b : b = [boxes[c] EXCEPT !.socket = "dialed"]
    OBVIOUS
  <2>2. Changes(c, b)
    BY <1>4, <2>1 DEF Dial, Changes
  <2>3. /\ b.st = boxes[c].st /\ b.jobs = boxes[c].jobs /\ b.kill = boxes[c].kill
        /\ b.socket = "dialed" /\ boxes[c].socket = "none" /\ boxes[c].st = "running"
    <3>1. /\ b.st = boxes[c].st /\ b.jobs = boxes[c].jobs /\ b.kill = boxes[c].kill
          /\ b.socket = "dialed" /\ boxes[c].socket = "none"
      BY <1>2, <1>4, <2>1 DEF BoxOK, BoxFields, Dial
    <3>2. boxes'[c].socket = "dialed"
      BY <2>2, <3>1 DEF Changes
    <3> QED BY <3>1, <3>2 DEF DialsInTime
  <2>4. /\ JobsOK(boxes') /\ HealthyOK(t, boxes', inbox, timers, used')
        /\ TimeoutsOK(t, inbox) /\ SocketsOK(t, boxes', inbox)
    BY <1>2, <1>3, <1>4, <2>2, <2>3, BoxStaysFine DEF Dial
  <2>5. PICK m : m = MsgFrom("containerConnected", c)
    OBVIOUS
  <2>6. m.type = "containerConnected" /\ m.from = c
    BY <2>5 DEF MsgFrom
  <2>7. Extends(inbox, m, inbox')
    BY <1>4, <2>5, Appended DEF Dial, Deliver, IInv
  <2>8. ~Over(t, c)
    BY <2>3, LiveIsOfTheRun
  <2>9. \A j \in 1 .. Len(inbox) : ~(ReportIn(inbox, j, c) /\ inbox[j].of \in Exits)
    BY <2>3 DEF IInv, ReportsOK, ReportIn
  <2>10. /\ HealthyOK(t, boxes', inbox', timers, used') /\ TimeoutsOK(t, inbox')
         /\ SocketsOK(t, boxes', inbox')
    BY <2>4, <2>6, <2>7, <2>8, <2>9, HarmlessArrives
  <2> QED BY <1>4, <2>4, <2>10 DEF Dial, FInv
<1>5. CASE Quit(c)
  <2>1. PICK b : b = [boxes[c] EXCEPT !.st = "exited", !.exit = "ok", !.reports = Append(@, "ok"),
                                      !.jobs = <<>>, !.ready = FALSE, !.model = 0]
    OBVIOUS
  <2>2. Changes(c, b)
    BY <1>2, <1>5, <2>1 DEF Quit, BoxExits, Changes, BoxOK, BoxFields
  <2>3. IsSeq(b.jobs) /\ b.socket = boxes[c].socket
    BY <1>2, <2>1, EmptyInbox DEF BoxOK, BoxFields
  <2>4. c \in t.containerRanks
    BY <1>5, LiveIsOfTheRun DEF Quit
  <2>5. 1 \in 1 .. Len(boxes[c].jobs) /\ boxes[c].jobs[1] = TERMINATE
    BY <1>2, <1>5 DEF Quit, IsSeq
  <2>6. ~Blameless(t, used) /\ used' = used
    BY <1>3, <1>5, <2>4, <2>5 DEF Quit
  <2>7. /\ JobsOK(boxes') /\ HealthyOK(t, boxes', inbox, timers, used')
        /\ TimeoutsOK(t, inbox) /\ SocketsOK(t, boxes', inbox)
    BY <2>2, <2>3, <2>6, BoxStaysFine
  <2> QED BY <1>5, <2>7 DEF Quit, FInv
<1>6. CASE Relay(c)
  <2>1. PICK b : b = [boxes[c] EXCEPT !.done = Tail(@)]
    OBVIOUS
  <2>2. Changes(c, b)
    BY <1>6, <2>1 DEF Relay, Changes
  <2>3. /\ b.st = boxes[c].st /\ b.jobs = boxes[c].jobs /\ b.kill = boxes[c].kill
        /\ b.socket = boxes[c].socket
    BY <1>2, <2>1 DEF BoxOK, BoxFields
  <2>4. /\ JobsOK(boxes') /\ HealthyOK(t, boxes', inbox, timers, used')
        /\ TimeoutsOK(t, inbox) /\ SocketsOK(t, boxes', inbox)
    BY <1>2, <1>3, <1>6, <2>2, <2>3, BoxStaysFine DEF Relay
  <2>5. PICK m : m.type \in Harmless /\ inbox' = Append(inbox, m)
    BY <1>6 DEF Relay, Deliver, Harmless
  <2>6. /\ HealthyOK(t, boxes', inbox', timers, used') /\ TimeoutsOK(t, inbox')
        /\ SocketsOK(t, boxes', inbox')
    BY <2>4, <2>5, OthersArrive DEF IInv
  <2> QED BY <1>6, <2>4, <2>6 DEF Relay, FInv
<1>7. CASE SocketBreaks(c)
  <2>1. PICK b : b = [boxes[c] EXCEPT !.socket = "broken"]
    OBVIOUS
  <2>2. Changes(c, b)
    BY <1>7, <2>1 DEF SocketBreaks, Changes
  <2>3. /\ b.st = boxes[c].st /\ b.jobs = boxes[c].jobs /\ b.kill = boxes[c].kill
        /\ b.socket = "broken" /\ boxes[c].socket = "open"
    BY <1>2, <1>7, <2>1 DEF BoxOK, BoxFields, SocketBreaks
  <2>4. ~Blameless(t, used') /\ CountOK(t, used')
    <3>1. CASE boxes[c].st = "exited" /\ UNCHANGED used
      <4>1. Over(t, c) => c \in t.deadChildren
        BY <2>3 DEF FInv, SocketsOK
      <4>2. c \in t.containerRanks
        BY <1>7, <4>1 DEF SocketBreaks, Over
      <4> QED BY <1>3, <3>1, <4>2 DEF FInv
    <3>2. CASE Use("crashes")
      BY <3>2, FailureUncounted
    <3> QED BY <1>7, <3>1, <3>2 DEF SocketBreaks
  <2>5. /\ JobsOK(boxes') /\ HealthyOK(t, boxes', inbox, timers, used')
        /\ TimeoutsOK(t, inbox) /\ SocketsOK(t, boxes', inbox)
    BY <1>2, <2>2, <2>3, <2>4, BoxStaysFine
  <2>6. PICK m : m = MsgFrom("ChildFailed", c)
    OBVIOUS
  <2>7. m.type = "ChildFailed" /\ m.from = c /\ c \in DOMAIN boxes' /\ boxes'[c].socket = "broken"
    BY <2>2, <2>3, <2>6 DEF MsgFrom, Changes
  <2>8. Extends(inbox, m, inbox')
    BY <1>7, <2>6, Appended DEF SocketBreaks, Deliver, IInv
  <2>9. /\ HealthyOK(t, boxes', inbox', timers, used') /\ TimeoutsOK(t, inbox')
        /\ SocketsOK(t, boxes', inbox')
    BY <2>4, <2>5, <2>7, <2>8, HarmlessArrives
  <2> QED BY <1>7, <2>4, <2>5, <2>9 DEF SocketBreaks, FInv
<1>8. CASE \E reason \in ExitReasons : Work(c, reason)
  <2>1. PICK reason \in ExitReasons : Work(c, reason)
    BY <1>8
  <2>2. PICK b : b = [boxes[c] EXCEPT !.jobs = Tail(@),
                         !.done = Append(@, [of |-> Head(boxes[c].jobs), reason |-> reason]),
                         !.model = @ + Head(boxes[c].jobs).NumBatches]
    OBVIOUS
  <2>3. Changes(c, b)
    BY <1>2, <2>1, <2>2 DEF Work, Changes, BoxOK, BoxFields
  <2>4. /\ b.st = boxes[c].st /\ b.jobs = Tail(boxes[c].jobs) /\ b.kill = boxes[c].kill
        /\ b.socket = boxes[c].socket
    BY <1>2, <2>2 DEF BoxOK, BoxFields
  <2>5. /\ IsSeq(b.jobs)
        /\ \A i \in 1 .. Len(b.jobs) :
              b.jobs[i] = boxes[c].jobs[i + 1] /\ i + 1 \in 1 .. Len(boxes[c].jobs)
    BY <1>2, <2>1, <2>4, Popped DEF Work
  <2>6. UNCHANGED <<t, inbox, timers, used>>
    BY <2>1 DEF Work
  <2>7. /\ JobsOK(boxes') /\ HealthyOK(t, boxes', inbox, timers, used')
        /\ TimeoutsOK(t, inbox) /\ SocketsOK(t, boxes', inbox)
    BY <1>3, <2>3, <2>4, <2>5, <2>6, BoxStaysFine
  <2> QED BY <2>6, <2>7 DEF FInv
<1> QED BY <1>1, <1>4, <1>5, <1>6, <1>7, <1>8

LEMMA OrdersKeepCount ==
    ASSUME IInv, FInv, Experiment \/ Allocate \/ Preempt \/ \E r \in timers : TimeoutFires(r)
    PROVE  FInv'
<1>1. ASSUME NEW m, m.type \in Harmless, Deliver(m), UNCHANGED <<t, boxes, timers>>,
             NEW bound \in {"preempts", "pauses", "kills"}, used' = used \/ Use(bound)
      PROVE  FInv'
  <2>1. CountOK(t, used') /\ (Blameless(t, used') <=> Blameless(t, used))
    BY <1>1, NoFailure
  <2>2. HealthyOK(t, boxes, inbox, timers, used')
    BY <2>1 DEF FInv, HealthyOK
  <2>3. /\ HealthyOK(t, boxes, inbox', timers, used') /\ TimeoutsOK(t, inbox')
        /\ SocketsOK(t, boxes, inbox')
    BY <1>1, <2>2, OthersArrive DEF FInv, IInv, Deliver
  <2> QED BY <1>1, <2>1, <2>3 DEF FInv
<1>2. ASSUME NEW m, NEW n, m.type \in Harmless, n.type \in Harmless,
             NEW sent, sent \in {<<>>, <<n>>}, inbox' = inbox \o <<m>> \o sent,
             UNCHANGED <<t, boxes, timers, used>>
      PROVE  FInv'
  <2>1. PICK q : q = Append(inbox, m)
    OBVIOUS
  <2>2. /\ IsSeq(q) /\ HealthyOK(t, boxes, q, timers, used) /\ TimeoutsOK(t, q)
        /\ SocketsOK(t, boxes, q)
    BY <1>2, <2>1, OthersArrive DEF FInv, IInv
  <2>3. inbox \o <<m>> = q
    BY <2>1 DEF IInv, IsSeq
  <2>4. CASE sent = <<>>
    <3>1. inbox' = q
      BY <1>2, <2>2, <2>3, <2>4 DEF IsSeq
    <3> QED BY <1>2, <2>2, <3>1 DEF FInv
  <2>5. CASE sent = <<n>>
    <3>1. PICK r : r = Append(q, n)
      OBVIOUS
    <3>2. /\ HealthyOK(t, boxes, r, timers, used) /\ TimeoutsOK(t, r)
          /\ SocketsOK(t, boxes, r)
      BY <1>2, <2>2, <3>1, OthersArrive
    <3>3. inbox' = r
      <4>1. q \o <<n>> = r
        BY <2>2, <3>1 DEF IsSeq
      <4> QED BY <1>2, <2>3, <2>5, <4>1
    <3> QED BY <1>2, <3>2, <3>3 DEF FInv
  <2> QED BY <1>2, <2>4, <2>5
<1>3. ASSUME NEW batch \in OpBatches, NEW close \in BOOLEAN, RequestOperations(batch, close)
      PROVE  FInv'
  <2>1. PICK m : m = MsgOf("Operations", batch) /\ m.type \in Harmless
    BY MsgType DEF Harmless
  <2>2. PICK n : n = Msg("Close") /\ n.type \in Harmless
    BY MsgType DEF Harmless
  <2>3. PICK sent : sent = (IF close THEN <<n>> ELSE <<>>)
    OBVIOUS
  <2>4. inbox' = inbox \o <<m>> \o sent /\ UNCHANGED <<t, boxes, timers, used>>
    BY <1>3, <2>1, <2>2, <2>3 DEF RequestOperations
  <2> QED BY <1>2, <2>1, <2>2, <2>3, <2>4
<1>4. ASSUME NEW kill \in BOOLEAN, Cancel(kill)
      PROVE  FInv'
  <2>1. PICK m : m = MsgOf("State", "STOPPING_CANCELED") /\ m.type \in Harmless
    BY MsgType DEF Harmless
  <2>2. PICK n : n = Msg("killTrial") /\ n.type \in Harmless
    BY MsgType DEF Harmless
  <2>3. PICK sent : sent = (IF kill THEN <<n>> ELSE <<>>)
    OBVIOUS
  <2>4. inbox' = inbox \o <<m>> \o sent /\ UNCHANGED <<t, boxes, timers, used>>
    BY <1>4, <2>1, <2>2, <2>3 DEF Cancel
  <2> QED BY <1>2, <2>1, <2>2, <2>3, <2>4
<1>5. CASE Experiment
  <2>1. CASE RequestClose
    <3>1. PICK m : Deliver(m) /\ m.type \in Harmless
      BY <2>1, MsgType DEF RequestClose, Harmless
    <3> QED BY <1>1, <2>1, <3>1 DEF RequestClose
  <2>2. CASE Echo
    <3>1. PICK m : Deliver(m) /\ m.type \in Harmless
      BY <2>2, MsgType DEF Echo, Harmless
    <3> QED BY <1>1, <2>2, <3>1 DEF Echo
  <2>3. CASE Pause
    <3>1. PICK m : Deliver(m) /\ m.type \in Harmless
      BY <2>3, MsgType DEF Pause, Harmless
    <3> QED BY <1>1, <2>3, <3>1 DEF Pause
  <2>4. CASE Activate
    <3>1. PICK m : Deliver(m) /\ m.type \in Harmless
      BY <2>4, MsgType DEF Activate, Harmless
    <3> QED BY <1>1, <2>4, <3>1 DEF Activate
  <2>5. CASE Kill
    <3>1. PICK m : Deliver(m) /\ m.type \in Harmless
      BY <2>5, MsgType DEF Kill, Harmless
    <3> QED BY <1>1, <2>5, <3>1 DEF Kill
  <2> QED BY <1>3, <1>4, <1>5, <2>1, <2>2, <2>3, <2>4, <2>5 DEF Experiment
<1>6. CASE Allocate
  <2>1. PICK m : Deliver(m) /\ m.type \in Harmless
    BY <1>6, MsgType DEF Allocate, Harmless
  <2> QED BY <1>1, <1>6, <2>1 DEF Allocate
<1>7. CASE Preempt
  <2>1. PICK m : Deliver(m) /\ m.type \in Harmless
    BY <1>7, MsgType DEF Preempt, Harmless
  <2> QED BY <1>1, <1>7, <2>1 DEF Preempt
<1>8. CASE \E r \in timers : TimeoutFires(r)
  <2>1. PICK r \in timers : TimeoutFires(r)
    BY <1>8
  <2>2. PICK m : m = MsgOf("terminateTimeout", r) /\ m.type = "terminateTimeout" /\ m.of = r
    BY MsgType
  <2>3. Extends(inbox, m, inbox')
    BY <2>1, <2>2, Appended DEF TimeoutFires, Deliver, IInv
  <2>4. r \in 0 .. t.runID /\ (Blameless(t, used) => r # t.runID)
    BY DEF IInv, FInv, HealthyOK, HealthyInbox
  <2>5. /\ HealthyOK(t, boxes, inbox', timers, used) /\ TimeoutsOK(t, inbox')
        /\ SocketsOK(t, boxes, inbox')
    BY <2>2, <2>3, <2>4, HarmlessArrives DEF FInv
  <2>6. HealthyOK(t, boxes, inbox', timers', used)
    BY <2>1, <2>5 DEF TimeoutFires, HealthyOK, HealthyInbox
  <2> QED BY <2>1, <2>5, <2>6 DEF TimeoutFires, FInv
<1> QED BY <1>5, <1>6, <1>7, <1>8

LEMMA DeadChildKeepsCount ==
    ASSUME IInv, FInv, ReceiveFromDeadChild
    PROVE  FInv'
<1>1. inbox # <<>> /\ IsSeq(inbox) /\ inbox' = Tail(inbox) /\ UNCHANGED <<t, boxes, timers, used>>
  BY DEF ReceiveFromDeadChild, IInv
<1>2. PICK q : q = Tail(inbox) /\ q = inbox'
  BY <1>1
<1>3. /\ Len(q) = Len(inbox) - 1 /\ Len(inbox) \in Nat \ {0}
      /\ \A i \in 1 .. Len(q) : q[i] = inbox[i + 1] /\ i + 1 \in 1 .. Len(inbox)
  BY <1>1, <1>2, Popped
<1>4. HealthyOK(t, boxes, q, timers, used) /\ TimeoutsOK(t, q)
  BY <1>3 DEF FInv, HealthyOK, HealthyInbox, TimeoutsOK
<1>5. SocketsOK(t, boxes, q)
  <2>0. SocketsOK(t, boxes, inbox)
    BY DEF FInv
  <2>1. ASSUME NEW i \in 1 .. Len(q)
        PROVE  /\ q[i].type = "ChildFailed" =>
                     /\ q[i].from \in DOMAIN boxes
                     /\ boxes[q[i].from].socket \in {"open", "broken"}
               /\ q[i].type = "containerConnected" =>
                     /\ ~Over(t, q[i].from)
                     /\ \A j \in 1 .. i - 1 : ~(ReportIn(q, j, q[i].from) /\ q[j].of \in Exits)
    <3>1. q[i] = inbox[i + 1] /\ i + 1 \in 1 .. Len(inbox)
      BY <1>3
    <3>2. \A j \in 1 .. i - 1 : q[j] = inbox[j + 1] /\ j + 1 \in 1 .. (i + 1) - 1
      BY <1>3
    <3> QED BY <2>0, <3>1, <3>2 DEF SocketsOK, ReportIn
  <2> QED BY <2>0, <2>1 DEF SocketsOK
<1> QED BY <1>1, <1>2, <1>4, <1>5 DEF FInv

LEMMA StopKeepsCount ==
    ASSUME IInv, FInv, ReceiveStop
    PROVE  FInv'
<1>1. PICK y : y = [t EXCEPT !.status = "stopped"] /\ y = t'
  BY DEF ReceiveStop
<1>2. inbox' = <<>> /\ UNCHANGED <<boxes, timers, used>>
  BY DEF ReceiveStop
<1>3. SameRun(t, y) /\ SameLinks(t, y) /\ (Ignored(y) <=> Ignored(t))
  BY <1>1 DEF IInv, RunOK, IsTrial, TrialFields, SameRun, SameLinks, Ignored
<1>4. 1 .. Len(<<>>) = {}
  BY EmptyInbox
<1>5. \A c : Over(y, c) <=> Over(t, c)
  BY <1>3 DEF Over, SameRun
<1>6. CountOK(y, used) /\ (Blameless(y, used) <=> Blameless(t, used))
  BY <1>3 DEF FInv, CountOK, Blameless, SameRun
<1>7. HealthyOK(y, boxes, <<>>, timers, used)
  BY <1>3, <1>4, <1>6 DEF FInv, HealthyOK, HealthyBoxes, HealthyInbox, SameRun
<1>8. TimeoutsOK(y, <<>>) /\ SocketsOK(y, boxes, <<>>)
  BY <1>3, <1>4, <1>5 DEF FInv, TimeoutsOK, SocketsOK, SameLinks
<1> QED BY <1>1, <1>2, <1>6, <1>7, <1>8 DEF FInv

LEMMA InitCount == Init => FInv
<1> SUFFICES ASSUME Init PROVE FInv
  OBVIOUS
<1>1. 1 .. Len(<<>>) = {} /\ DOMAIN <<>> = {}
  BY EmptyInbox
<1>2. t.restarts = 0 /\ t.startedContainers = {} /\ t.containerRanks = {}
  BY DEF Init, NewTrial
<1>3. DOMAIN boxes = {} /\ inbox = <<>> /\ timers = {}
  BY <1>1 DEF Init, Nothing
<1>4. DOMAIN used = {"crashes", "preempts", "pauses", "kills"} /\ used.crashes = 0
  BY DEF Init
<1>5. CountOK(t, used) /\ JobsOK(boxes)
  BY <1>2, <1>3, <1>4 DEF CountOK, JobsOK
<1>6. HealthyOK(t, boxes, inbox, timers, used) /\ TimeoutsOK(t, inbox) /\ SocketsOK(t, boxes, inbox)
  BY <1>1, <1>3 DEF HealthyOK, HealthyBoxes, HealthyInbox, TimeoutsOK, SocketsOK
<1> QED BY <1>5, <1>6 DEF FInv

LEMMA NextCount == IInv /\ FInv /\ [Next]_vars /\ [DialsInTime]_vars => FInv'
<1> SUFFICES ASSUME IInv, FInv, [Next]_vars, [DialsInTime]_vars PROVE FInv'
  OBVIOUS
<1>1. CASE UNCHANGED vars
  BY <1>1 DEF vars, FInv
<1> SUFFICES ASSUME DialsInTime PROVE FInv'
  BY <1>1
<1>2. CASE Receive
  <2>1. CASE ReceiveFromDeadChild
    BY <2>1, DeadChildKeepsCount
  <2>2. CASE ReceiveStop
    BY <2>2, StopKeepsCount
  <2>3. CASE ~ReceiveFromDeadChild /\ ~ReceiveStop
    BY <1>2, <2>3, ReceiveOutcome, EffectsKeepCount
  <2> QED BY <2>1, <2>2, <2>3
<1>3. CASE Next /\ ~Receive
  BY <1>3, AgentsKeepCount, HarnessesKeepCount, OrdersKeepCount DEF Next
<1> QED BY <1>1, <1>2, <1>3

\* While every container asks for its websocket before the trial's actor could
\* be told of its exit, terminated() counts no more restarts than containers
\* exited by themselves: neither a kill, a graceful stop, a late timeout nor a
\* socket that the trial closed is charged, whether or not LateDial allows more.
THEOREM OnlyFailuresCount == Spec /\ [][DialsInTime]_vars => []RestartsAreFailures
<1>1. Init => FInv
  BY InitCount
<1>2. IInv /\ FInv /\ [Next]_vars /\ [DialsInTime]_vars => FInv'
  BY NextCount
<1>3. FInv => RestartsAreFailures
  BY DEF FInv, CountOK, RestartsAreFailures
<1> QED BY <1>1, <1>2, <1>3, TrialInvariant, PTL DEF Spec

(***************************************************************************)
(* One workload in flight.  What is on its way between the trial and the   *)
(* leader of its run - a workload, its completion, the question put to the *)
(* experiment or its answer - is one thing at most, it is what the         *)
(* sequencer expects, and the leader's model is what the sequencer counts. *)
(***************************************************************************)
\* The leader of the current run, once it was started.
Lead(x) == <<x.runID + 1, 0>>

Completions(q, c) == {i \in 1 .. Len(q) : q[i].type = "Completed" /\ q[i].from = c}
Resyncs(q, r) == {i \in 1 .. Len(q) : q[i].type = "sendNextWorkload" /\ q[i].of = r}
Asked(e, r) == {i \in 1 .. Len(e) : e[i] = r}

AtMostOne(S) == \A i, j \in S : i = j

\* Of five sets, at most one has an element, and no more than one.
Exclusive(J, D, C, R, E) ==
    /\ AtMostOne(J) /\ AtMostOne(D) /\ AtMostOne(C) /\ AtMostOne(R) /\ AtMostOne(E)
    /\ J # {} => D = {} /\ C = {} /\ R = {} /\ E = {}
    /\ D # {} => C = {} /\ R = {} /\ E = {}
    /\ C # {} => R = {} /\ E = {}
    /\ R # {} => E = {}

\* A workload the trial may have sent: the one that is due, or a checkpoint.
Legal(x, w) == w = PrecloseCheckpoint(x) \/ (~UpToDate(x) /\ w = Workload(x))

StateFields ==
    {"batchesTowardsCurrentOp", "batchesSinceLastVal", "batchesSinceLastCkpt",
     "totalBatchesProcessed", "needInitialValidation", "needPostValidationCkpt", "exitingEarly",
     "gracefulStop", "curOpIdx", "curStepID", "latestCheckpoint", "cachedCheckpoints"}

\* A sequencer's state s, with operations o, is ahead of its latest checkpoint by
\* what it counts since; early says whether the trial was told to exit early.
StateOK(o, early, s) ==
    /\ DOMAIN s = StateFields
    /\ s.curOpIdx \in 0 .. Len(o)
    /\ s.batchesTowardsCurrentOp \in Nat /\ s.batchesSinceLastVal \in Nat
    /\ s.batchesSinceLastCkpt \in Nat /\ s.totalBatchesProcessed \in Nat
    /\ s.latestCheckpoint.TotalBatchesProcessed \in Nat
    /\ s.totalBatchesProcessed = s.latestCheckpoint.TotalBatchesProcessed + s.batchesSinceLastCkpt
    /\ s.exitingEarly => early
    /\ \A w \in s.cachedCheckpoints : w.Kind = "CHECKPOINT_MODEL"

LengthType == [unit : {"records", "batches", "epochs"}, units : Nat]
OpType == [type : {"Train", "Validate", "Checkpoint"}, length : LengthType]

\* Nothing was trained since the checkpoint, or the trial will not run again
\* or was cancelled before it was ready.
Settled(x) ==
    \/ x.cancelUnready \/ x.killed \/ x.restarts > MaxRollbacks
    \/ x.state.batchesSinceLastCkpt = 0

\* A run without resources, one that was told to terminate, and one whose leader
\* exited with nothing to checkpoint leave nothing untrained.
SeqCore(x) ==
    /\ x.ops \in Seq(OpType) /\ x.earlyExit \in BOOLEAN
    /\ StateOK(x.ops, x.earlyExit, x.state) /\ StateOK(x.ops, x.earlyExit, x.snapshot)
    /\ x.snapshot.batchesSinceLastCkpt = 0
    /\ x.containerRanks # {} => x.idSet
    /\ x.allocations = {} => Settled(x)
    /\ x.terminationSent => x.state.batchesSinceLastCkpt = 0
    /\ \A c \in DOMAIN x.terminatedContainers :
          IsLeader(c) /\ ~x.terminatedContainers[c].needsCheckpoint
             => x.state.batchesSinceLastCkpt = 0

\* A request is only made when there is something to do.
Waiting(x) == x.task # 0 /\ x.allocations = {} => ~UpToDate(x) /\ ~x.earlyExit /\ ~x.killed

\* What is on its way between the trial and the leader l of its run.
InOrder(x, b, q, l, C, R, E) ==
    /\ Exclusive(1 .. Len(b.jobs), 1 .. Len(b.done), C, R, E)
    /\ \A i \in 1 .. Len(b.jobs) : b.jobs[i] = TERMINATE \/ Legal(x, b.jobs[i])
    /\ \A i \in 1 .. Len(b.done) : Legal(x, b.done[i].of) /\ b.done[i].reason \in ExitReasons
    /\ \A i \in C : Legal(x, q[i].of) /\ q[i].reason \in ExitReasons
    /\ x.terminationSent =>
          /\ b.done = <<>> /\ C = {} /\ R = {} /\ E = {}
          /\ \A i \in 1 .. Len(b.jobs) : b.jobs[i] = TERMINATE

InStep(x, b, q, C) ==
    b.st # "exited" /\ ~x.cancelUnready =>
       /\ b.done = <<>> /\ C = {} => b.model = x.state.totalBatchesProcessed
       /\ \A i \in 1 .. Len(b.done) :
             b.model = x.state.totalBatchesProcessed + b.done[i].of.NumBatches
       /\ \A i \in C : b.model = x.state.totalBatchesProcessed + q[i].of.NumBatches

LeadOK(x, B, q, e) ==
    LET C == Completions(q, Lead(x))
        R == Resyncs(q, x.runID)
        E == Asked(e, x.runID)
    IN  IF Lead(x) \in DOMAIN B
        THEN InOrder(x, B[Lead(x)], q, Lead(x), C, R, E) /\ InStep(x, B[Lead(x)], q, C)
        ELSE C = {} /\ R = {} /\ E = {} /\ ~x.terminationSent

BoxPending(x, b, q, c) ==
    /\ IsSeq(b.jobs) /\ IsSeq(b.done)
    /\ ~IsLeader(c) => b.done = <<>> /\ \A i \in 1 .. Len(b.jobs) : b.jobs[i] = TERMINATE
    /\ b.ready \/ b.done # <<>> \/ Completions(q, c) # {} =>
          c \in x.containerSockets \cup x.deadChildren
    /\ Over(x, c) => c \in x.deadChildren \/ (b.done = <<>> /\ Completions(q, c) = {})

MsgPending(x, B, m) ==
    /\ m.type = "Completed" => m.from \in DOMAIN B /\ IsLeader(m.from)
    /\ m.type = "sendNextWorkload" => m.of \in 0 .. x.runID
    /\ m.type = "Operations" => m.of \in OpBatches

PendingOK(x, B, q, e) ==
    /\ \A c \in DOMAIN B : BoxPending(x, B[c], q, c)
    /\ \A c \in x.deadChildren : c \in DOMAIN B /\ Over(x, c)
    /\ \A i \in 1 .. Len(q) : MsgPending(x, B, q[i])
    /\ \A i \in 1 .. Len(e) : e[i] \in 0 .. x.runID

WInv ==
    t.status = "up" =>
       SeqCore(t) /\ Waiting(t) /\ LeadOK(t, boxes, inbox, echoes) /\ PendingOK(t, boxes, inbox, echoes) /\ IsSeq(echoes)

(***************************************************************************)
(* The sequencer of a trial.                                               *)
(***************************************************************************)
CtxType == [globalBatchSize : Nat \ {0}, recordsPerEpoch : Nat \ {0}]

LEMMA ConfigFacts ==
    /\ Config.ctx \in CtxType /\ Config.schedulingUnit \in Nat \ {0}
    /\ Config.minValidationPeriod \in LengthType /\ Config.minCheckpointPeriod \in LengthType
<1>1. Config \in Configs
  BY TrialAssumption DEF Config
<1> QED BY <1>1, SequencerAssumption
        DEF Sequencer!ConfigType, Sequencer!UnitContexts, Sequencer!Lengths, Sequencer!Units,
            CtxType, LengthType

LEMMA BatchesTyped ==
    ASSUME NEW b \in OpBatches
    PROVE  b \in Seq(OpType)
BY SequencerAssumption DEF Sequencer!Ops, Sequencer!Lengths, Sequencer!Units, OpType, LengthType

LEMMA NearestBatch ==
    ASSUME NEW x, NEW l \in LengthType, NEW ctx \in CtxType
    PROVE  Sequencer(x)!ToNearestBatch(l, ctx) \in Nat
<1>1. Sequencer(x)!RecordsOf(l, ctx) \in Nat
  BY DEF Sequencer!RecordsOf, LengthType, CtxType
<1>2. \A a \in Nat, b \in Nat \ {0} : a \div b \in Nat
  OBVIOUS
<1> QED BY <1>1, <1>2 DEF Sequencer!ToNearestBatch, LengthType, CtxType

\* A workload w that the sequencer of x, in state s, can complete.
Fits(x, s, w) ==
    /\ w.NumBatches \in Nat /\ w.TotalBatchesProcessed = s.totalBatchesProcessed
    /\ w.Kind \in {"RUN_STEP", "COMPUTE_VALIDATION_METRICS", "CHECKPOINT_MODEL"}
    /\ w.Kind # "CHECKPOINT_MODEL" => s.curOpIdx < Len(x.ops)
    /\ w.Kind # "RUN_STEP" => w.NumBatches = 0

LEMMA WorkloadFits ==
    ASSUME NEW x, x.ops \in Seq(OpType), NEW early, NEW s, StateOK(x.ops, early, s),
           ~Sequencer(x)!UpToDate(s)
    PROVE  Fits(x, s, Sequencer(x)!Workload(s)) /\ s.curOpIdx < Len(x.ops)
<1>1. s.curOpIdx < Len(x.ops) /\ s.curOpIdx + 1 \in 1 .. Len(x.ops)
  BY DEF StateOK, Sequencer!UpToDate
<1>2. Sequencer(x)!CurrentOp(s).length \in LengthType
  <2>1. PICK i : i = s.curOpIdx + 1 /\ i \in 1 .. Len(x.ops)
    BY <1>1
  <2>2. x.ops[i] \in OpType
    BY <2>1
  <2>3. x.ops[i].length \in LengthType
    BY <2>2 DEF OpType
  <2> QED BY <2>1, <2>3 DEF Sequencer!CurrentOp
<1>3. /\ Sequencer(x)!ToNearestBatch(Sequencer(x)!CurrentOp(s).length, Config.ctx) \in Nat
      /\ Sequencer(x)!ToNearestBatch(Config.minValidationPeriod, Config.ctx) \in Nat
      /\ Sequencer(x)!ToNearestBatch(Config.minCheckpointPeriod, Config.ctx) \in Nat
  BY <1>2, NearestBatch, ConfigFacts
<1>4. /\ Sequencer(x)!batchesUntilValNeeded(s) \in Int
      /\ Sequencer(x)!batchesUntilCkptNeeded(s) \in Int
  BY <1>3 DEF Sequencer!batchesUntilValNeeded, Sequencer!batchesUntilCkptNeeded,
              Sequencer!MaxInt32, StateOK
<1>5. Sequencer(x)!batchesThisStep(s) \in Nat
  BY <1>3, <1>4, ConfigFacts DEF Sequencer!batchesThisStep, Sequencer!min, Sequencer!max, StateOK
<1> QED
  BY <1>1, <1>5 DEF Fits, Sequencer!Workload, Sequencer!OpWorkload, Sequencer!train,
                    Sequencer!validate, Sequencer!checkpoint

LEMMA CheckpointFits ==
    ASSUME NEW x, NEW s
    PROVE  Fits(x, s, Sequencer(x)!checkpoint(s))
BY DEF Fits, Sequencer!checkpoint

LEMMA LegalFits ==
    ASSUME NEW x, SeqCore(x), NEW w, Legal(x, w)
    PROVE  Fits(x, x.state, w)
BY WorkloadFits, CheckpointFits DEF SeqCore, Legal, PrecloseCheckpoint, UpToDate, Workload

LEMMA CheckpointWorkload ==
    ASSUME NEW x, NEW s, Sequencer(x)!Workload(s).Kind = "CHECKPOINT_MODEL"
    PROVE  Sequencer(x)!Workload(s) = Sequencer(x)!checkpoint(s)
BY DEF Sequencer!Workload, Sequencer!OpWorkload, Sequencer!train,
       Sequencer!validate, Sequencer!checkpoint

\* The state u after the workload w, whatever it was and did.
Advanced(x, early, s, w, u) ==
    /\ StateOK(x.ops, early, u)
    /\ u.totalBatchesProcessed = s.totalBatchesProcessed + w.NumBatches
    /\ u.exitingEarly = s.exitingEarly
    /\ w.Kind = "CHECKPOINT_MODEL" => u.batchesSinceLastCkpt = 0
    /\ w.Kind # "RUN_STEP" /\ s.batchesSinceLastCkpt = 0 => u.batchesSinceLastCkpt = 0
    /\ w.Kind = "CHECKPOINT_MODEL" =>
          \/ u.curOpIdx = s.curOpIdx
          \/ /\ u.curOpIdx = s.curOpIdx + 1 /\ ~(s.curOpIdx = Len(x.ops))
             /\ x.ops[s.curOpIdx + 1].type = "Checkpoint"

LEMMA KindCompletedOK ==
    ASSUME NEW x, x.ops \in Seq(OpType), NEW early, NEW s, StateOK(x.ops, early, s),
           NEW w, Fits(x, s, w), NEW isBest, NEW u, u = Sequencer(x)!KindCompleted(s, w, isBest)
    PROVE  Advanced(x, early, s, w, u)
<1> USE DEF Advanced
<1>1. CASE w.Kind = "RUN_STEP"
  <2>1. u = Sequencer(x)!runStepCompleted(s, w)
    BY <1>1 DEF Sequencer!KindCompleted
  <2>2. PICK towards, done : /\ towards = s.batchesTowardsCurrentOp + w.NumBatches
                             /\ done = Sequencer(x)!TrainOpDone(s, towards)
    OBVIOUS
  <2>3. u = [s EXCEPT !.curStepID = @ + 1,
                  !.totalBatchesProcessed = @ + w.NumBatches,
                  !.batchesSinceLastVal = @ + w.NumBatches,
                  !.batchesSinceLastCkpt = @ + w.NumBatches,
                  !.batchesTowardsCurrentOp = IF done THEN 0 ELSE towards,
                  !.curOpIdx = IF done THEN @ + 1 ELSE @]
    BY <2>1, <2>2 DEF Sequencer!runStepCompleted
  <2>4. /\ DOMAIN u = StateFields
        /\ u.totalBatchesProcessed = s.totalBatchesProcessed + w.NumBatches
        /\ u.batchesSinceLastVal = s.batchesSinceLastVal + w.NumBatches
        /\ u.batchesSinceLastCkpt = s.batchesSinceLastCkpt + w.NumBatches
        /\ u.batchesTowardsCurrentOp \in {0, towards}
        /\ u.curOpIdx \in {s.curOpIdx, s.curOpIdx + 1}
        /\ u.latestCheckpoint = s.latestCheckpoint /\ u.cachedCheckpoints = s.cachedCheckpoints
        /\ u.exitingEarly = s.exitingEarly
    BY <2>3 DEF StateOK, StateFields
  <2>5. s.curOpIdx < Len(x.ops) /\ w.NumBatches \in Nat /\ Len(x.ops) \in Nat
    BY <1>1 DEF Fits
  <2>6. /\ s.curOpIdx \in 0 .. Len(x.ops) /\ s.batchesTowardsCurrentOp \in Nat
        /\ s.batchesSinceLastVal \in Nat /\ s.batchesSinceLastCkpt \in Nat
        /\ s.totalBatchesProcessed \in Nat /\ s.latestCheckpoint.TotalBatchesProcessed \in Nat
        /\ s.totalBatchesProcessed
              = s.latestCheckpoint.TotalBatchesProcessed + s.batchesSinceLastCkpt
    BY DEF StateOK
  <2>0. /\ \A a, b \in Nat : a + b \in Nat
        /\ \A a, b, c, d \in Nat : a = b + c => a + d = b + (c + d)
    OBVIOUS
  <2>7. towards \in Nat /\ u.batchesTowardsCurrentOp \in Nat
    <3>1. s.batchesTowardsCurrentOp \in Nat /\ w.NumBatches \in Nat
      BY <2>5, <2>6
    <3>2. towards \in Nat
      BY <2>0, <2>2, <3>1
    <3> QED BY <2>4, <3>2
  <2>8. u.curOpIdx \in 0 .. Len(x.ops)
    BY <2>4, <2>5, <2>6
  <2>9. /\ u.batchesSinceLastVal \in Nat /\ u.batchesSinceLastCkpt \in Nat
        /\ u.totalBatchesProcessed \in Nat
        /\ u.totalBatchesProcessed
              = s.latestCheckpoint.TotalBatchesProcessed + u.batchesSinceLastCkpt
    <3>1. /\ u.batchesSinceLastVal \in Nat /\ u.batchesSinceLastCkpt \in Nat
          /\ u.totalBatchesProcessed \in Nat
      BY <2>0, <2>4, <2>5, <2>6
    <3> QED BY <2>0, <2>4, <2>5, <2>6, <3>1
  <2>10. StateOK(x.ops, early, u)
    BY <2>4, <2>6, <2>7, <2>8, <2>9 DEF StateOK
  <2> QED BY <1>1, <2>4, <2>10
<1>2. CASE w.Kind = "COMPUTE_VALIDATION_METRICS"
  <2>1. u = Sequencer(x)!computeValidationMetricsCompleted(s, isBest)
    BY <1>2 DEF Sequencer!KindCompleted
  <2> DEFINE need == \/ s.needPostValidationCkpt
                     \/ /\ s.batchesSinceLastCkpt # 0
                        /\ \/ Config.checkpointPolicy = "all"
                           \/ Config.checkpointPolicy = "best" /\ isBest
             idx == IF Sequencer(x)!CurrentOp(s).type = "Validate" THEN s.curOpIdx + 1
                    ELSE s.curOpIdx
  <2>2. /\ idx \in {s.curOpIdx, s.curOpIdx + 1}
        /\ u = [s EXCEPT !.batchesSinceLastVal = 0, !.needInitialValidation = FALSE,
                         !.needPostValidationCkpt = need, !.curOpIdx = idx]
    BY <2>1 DEF Sequencer!computeValidationMetricsCompleted
  <2> HIDE DEF need, idx
  <2>3. /\ DOMAIN u = StateFields
        /\ u.totalBatchesProcessed = s.totalBatchesProcessed
        /\ u.batchesSinceLastVal = 0
        /\ u.batchesSinceLastCkpt = s.batchesSinceLastCkpt
        /\ u.batchesTowardsCurrentOp = s.batchesTowardsCurrentOp
        /\ u.curOpIdx = idx
        /\ u.latestCheckpoint = s.latestCheckpoint /\ u.cachedCheckpoints = s.cachedCheckpoints
        /\ u.exitingEarly = s.exitingEarly
    BY <2>2 DEF StateOK, StateFields
  <2>4. s.curOpIdx < Len(x.ops) /\ w.NumBatches = 0 /\ Len(x.ops) \in Nat
    BY <1>2 DEF Fits
  <2>5. u.curOpIdx \in 0 .. Len(x.ops)
    BY <2>2, <2>3, <2>4 DEF StateOK
  <2> QED BY <1>2, <2>3, <2>4, <2>5 DEF StateOK
<1>3. CASE w.Kind = "CHECKPOINT_MODEL"
  <2>1. u = Sequencer(x)!checkpointModelCompleted(s, w)
    BY <1>3 DEF Sequencer!KindCompleted
  <2>2. PICK c : c = [s EXCEPT !.batchesSinceLastCkpt = 0, !.needPostValidationCkpt = FALSE,
                               !.latestCheckpoint = w]
    OBVIOUS
  <2>3. /\ DOMAIN c = StateFields
        /\ c.totalBatchesProcessed = s.totalBatchesProcessed
        /\ c.batchesSinceLastVal = s.batchesSinceLastVal
        /\ c.batchesSinceLastCkpt = 0
        /\ c.batchesTowardsCurrentOp = s.batchesTowardsCurrentOp
        /\ c.curOpIdx = s.curOpIdx
        /\ c.latestCheckpoint = w /\ c.cachedCheckpoints = s.cachedCheckpoints
        /\ c.exitingEarly = s.exitingEarly
    BY <2>2 DEF StateOK, StateFields
  <2>4. /\ w.NumBatches = 0 /\ w.TotalBatchesProcessed = s.totalBatchesProcessed
        /\ Len(x.ops) \in Nat
    BY <1>3 DEF Fits
  <2>5. CASE ~Sequencer(x)!UpToDate(c) /\ Sequencer(x)!CurrentOp(c).type = "Checkpoint"
    <3>1. u = [c EXCEPT !.curOpIdx = @ + 1]
      BY <2>1, <2>2, <2>5 DEF Sequencer!checkpointModelCompleted
    <3>2. ~(s.curOpIdx = Len(x.ops)) /\ x.ops[s.curOpIdx + 1].type = "Checkpoint"
      BY <2>3, <2>5 DEF Sequencer!UpToDate, Sequencer!CurrentOp
    <3>3. /\ DOMAIN u = StateFields
          /\ u.totalBatchesProcessed = c.totalBatchesProcessed
          /\ u.batchesSinceLastVal = c.batchesSinceLastVal
          /\ u.batchesSinceLastCkpt = 0
          /\ u.batchesTowardsCurrentOp = c.batchesTowardsCurrentOp
          /\ u.curOpIdx = s.curOpIdx + 1
          /\ u.latestCheckpoint = w /\ u.cachedCheckpoints = s.cachedCheckpoints
          /\ u.exitingEarly = s.exitingEarly
      BY <2>3, <3>1 DEF StateFields
    <3> QED BY <1>3, <2>3, <2>4, <3>2, <3>3 DEF StateOK
  <2>6. CASE ~(~Sequencer(x)!UpToDate(c) /\ Sequencer(x)!CurrentOp(c).type = "Checkpoint")
    <3>1. u = [c EXCEPT !.cachedCheckpoints = @ \cup {w}]
      BY <2>1, <2>2, <2>6 DEF Sequencer!checkpointModelCompleted
    <3>2. /\ DOMAIN u = StateFields
          /\ u.totalBatchesProcessed = c.totalBatchesProcessed
          /\ u.batchesSinceLastVal = c.batchesSinceLastVal
          /\ u.batchesSinceLastCkpt = 0
          /\ u.batchesTowardsCurrentOp = c.batchesTowardsCurrentOp
          /\ u.curOpIdx = s.curOpIdx
          /\ u.latestCheckpoint = w /\ u.cachedCheckpoints = s.cachedCheckpoints \cup {w}
          /\ u.exitingEarly = s.exitingEarly
      BY <2>3, <3>1 DEF StateFields
    <3> QED BY <1>3, <2>3, <2>4, <3>2 DEF StateOK
  <2> QED BY <2>5, <2>6
<1> QED BY <1>1, <1>2, <1>3 DEF Fits

\* WorkloadCompleted on a sequencer r whose snapshot is of a checkpointed model.
PairOK(o, early, r) ==
    /\ StateOK(o, early, r.state) /\ StateOK(o, early, r.snapshot)
    /\ r.snapshot.batchesSinceLastCkpt = 0

\* The sequencer v after the workload w of the sequencer r was recorded.
Recorded(x, early, r, w, reason, v) ==
    /\ PairOK(x.ops, early, v)
    /\ reason # "ERRORED" =>
          v.state.totalBatchesProcessed = r.state.totalBatchesProcessed + w.NumBatches
    /\ w.Kind # "RUN_STEP" /\ r.state.batchesSinceLastCkpt = 0 => v.state.batchesSinceLastCkpt = 0
    /\ reason = "NONE" /\ w.Kind = "CHECKPOINT_MODEL" =>
          /\ v.state.exitingEarly => r.state.exitingEarly
          /\ \/ v.state.curOpIdx = r.state.curOpIdx
             \/ /\ v.state.curOpIdx = r.state.curOpIdx + 1
                /\ ~(r.state.curOpIdx = Len(x.ops))
                /\ x.ops[r.state.curOpIdx + 1].type = "Checkpoint"

LEMMA StateOKExits ==
    ASSUME NEW o, NEW early, NEW late, NEW s, StateOK(o, early, s), early => late
    PROVE  StateOK(o, late, s)
BY DEF StateOK

LEMMA WorkloadCompletedOK ==
    ASSUME NEW x, x.ops \in Seq(OpType), NEW early \in BOOLEAN, NEW r, PairOK(x.ops, early, r),
           NEW w, Fits(x, r.state, w), NEW reason, NEW isBest,
           NEW v, v = Sequencer(x)!WorkloadCompleted(r, w, reason, isBest)
    PROVE  Recorded(x, early \/ reason # "NONE", r, w, reason, v)
<1> USE DEF Recorded
<1> DEFINE exiting == r.state.exitingEarly \/ reason # "NONE"
           stop == r.state.gracefulStop \/ reason \in {"USER_CANCELED", "INVALID_HP"}
<1>0. PICK late : late = (early \/ reason # "NONE")
  OBVIOUS
<1>1. PICK s : s = [r.state EXCEPT !.exitingEarly = exiting, !.gracefulStop = stop]
  OBVIOUS
<1>2. PICK u : u = Sequencer(x)!KindCompleted(s, w, isBest)
  OBVIOUS
<1>3. /\ reason = "ERRORED" => v = [state |-> s, snapshot |-> r.snapshot]
      /\ reason # "ERRORED" =>
            v = [state |-> u, snapshot |-> IF Sequencer(x)!RetakesSnapshot(s, w) THEN u ELSE r.snapshot]
  BY <1>1, <1>2 DEF Sequencer!WorkloadCompleted
<1>4. /\ DOMAIN s = StateFields /\ s.exitingEarly = exiting
      /\ \A f \in StateFields \ {"exitingEarly", "gracefulStop"} : s[f] = r.state[f]
  BY <1>1 DEF PairOK, StateOK, StateFields
<1>5. exiting => late
  BY <1>0 DEF PairOK, StateOK
<1>6. StateOK(x.ops, late, s) /\ Fits(x, s, w)
  <2>1. /\ s.curOpIdx = r.state.curOpIdx /\ s.batchesTowardsCurrentOp = r.state.batchesTowardsCurrentOp
        /\ s.batchesSinceLastVal = r.state.batchesSinceLastVal
        /\ s.batchesSinceLastCkpt = r.state.batchesSinceLastCkpt
        /\ s.totalBatchesProcessed = r.state.totalBatchesProcessed
        /\ s.latestCheckpoint = r.state.latestCheckpoint
        /\ s.cachedCheckpoints = r.state.cachedCheckpoints
    BY <1>4 DEF StateFields
  <2> HIDE DEF exiting
  <2> QED BY <1>4, <1>5, <2>1 DEF StateOK, PairOK, Fits
<1>7. /\ s.batchesSinceLastCkpt = r.state.batchesSinceLastCkpt
      /\ s.totalBatchesProcessed = r.state.totalBatchesProcessed
      /\ s.curOpIdx = r.state.curOpIdx
  BY <1>4 DEF StateFields
<1>8. StateOK(x.ops, late, r.snapshot) /\ r.snapshot.batchesSinceLastCkpt = 0
  BY <1>0, StateOKExits DEF PairOK
<1>9. Advanced(x, late, s, w, u)
  BY <1>2, <1>6, KindCompletedOK
<1>10. CASE reason = "ERRORED"
  <2>1. v.state = s /\ v.snapshot = r.snapshot
    BY <1>3, <1>10
  <2>2. PairOK(x.ops, late, v)
    BY <1>6, <1>8, <2>1 DEF PairOK
  <2> QED BY <1>0, <1>7, <1>10, <2>1, <2>2
<1>11. CASE reason # "ERRORED"
  <2>1. v.state = u /\ v.snapshot = IF Sequencer(x)!RetakesSnapshot(s, w) THEN u ELSE r.snapshot
    BY <1>3, <1>11
  <2>2. Sequencer(x)!RetakesSnapshot(s, w) => u.batchesSinceLastCkpt = 0
    BY <1>9 DEF Sequencer!RetakesSnapshot, Advanced
  <2>3. PairOK(x.ops, late, v)
    BY <1>8, <1>9, <2>1, <2>2 DEF PairOK, Advanced
  <2>4. reason = "NONE" => (v.state.exitingEarly => r.state.exitingEarly)
    BY <1>4, <1>9, <2>1 DEF Advanced
  <2> QED BY <1>0, <1>7, <1>9, <1>11, <2>1, <2>3, <2>4 DEF Advanced
<1> QED BY <1>10, <1>11

\* The sequencer v after r took a checkpoint it needed from those it had.
Cached(x, early, r, v) ==
    /\ PairOK(x.ops, early, v)
    /\ v.state.totalBatchesProcessed = r.state.totalBatchesProcessed
    /\ r.state.batchesSinceLastCkpt = 0 => v.state.batchesSinceLastCkpt = 0
    /\ v.state.exitingEarly => r.state.exitingEarly
    /\ \/ v.state.curOpIdx = r.state.curOpIdx
       \/ /\ v.state.curOpIdx = r.state.curOpIdx + 1
          /\ ~(r.state.curOpIdx = Len(x.ops))
          /\ x.ops[r.state.curOpIdx + 1].type = "Checkpoint"

LEMMA CompleteCachedOK ==
    ASSUME NEW x, x.ops \in Seq(OpType), NEW early \in BOOLEAN, NEW r, PairOK(x.ops, early, r),
           NEW v, v = Sequencer(x)!CompleteCachedCheckpoints(r)
    PROVE  Cached(x, early, r, v)
<1>1. PICK w : w = Sequencer(x)!Workload(r.state)
  OBVIOUS
<1>2. PICK u : u = [r.state EXCEPT !.cachedCheckpoints = @ \ {w}]
  OBVIOUS
<1>3. CASE v = r
  BY <1>3 DEF Cached, PairOK
<1>4. CASE v # r
  <2>1. PICK p : p = [state |-> u, snapshot |-> r.snapshot]
    OBVIOUS
  <2>2. /\ ~Sequencer(x)!UpToDate(r.state) /\ w \in r.state.cachedCheckpoints
        /\ v = Sequencer(x)!WorkloadCompleted(p, w, "NONE", FALSE)
    BY <1>1, <1>2, <1>4, <2>1 DEF Sequencer!CompleteCachedCheckpoints
  <2>3. w.Kind = "CHECKPOINT_MODEL"
    BY <2>2 DEF PairOK, StateOK
  <2>4. /\ DOMAIN u = StateFields /\ \A f \in StateFields \ {"cachedCheckpoints"} : u[f] = r.state[f]
        /\ u.cachedCheckpoints \subseteq r.state.cachedCheckpoints
    BY <1>2 DEF PairOK, StateOK, StateFields
  <2>5. /\ u.curOpIdx = r.state.curOpIdx
        /\ u.batchesTowardsCurrentOp = r.state.batchesTowardsCurrentOp
        /\ u.batchesSinceLastVal = r.state.batchesSinceLastVal
        /\ u.batchesSinceLastCkpt = r.state.batchesSinceLastCkpt
        /\ u.totalBatchesProcessed = r.state.totalBatchesProcessed
        /\ u.latestCheckpoint = r.state.latestCheckpoint
        /\ u.exitingEarly = r.state.exitingEarly
    BY <2>4 DEF StateFields
  <2>6. StateOK(x.ops, early, u)
    BY <2>4, <2>5 DEF StateOK, PairOK
  <2>7. p.state = u /\ p.snapshot = r.snapshot
    BY <2>1
  <2>8. PairOK(x.ops, early, p)
    BY <2>6, <2>7 DEF PairOK
  <2>9. Fits(x, p.state, w)
    <3>1. Fits(x, r.state, w)
      BY <1>1, <2>2, WorkloadFits DEF PairOK
    <3> QED BY <2>5, <2>7, <3>1 DEF Fits
  <2>10. PICK late : late = (early \/ "NONE" # "NONE")
    OBVIOUS
  <2>11. Recorded(x, late, p, w, "NONE", v)
    BY <2>2, <2>8, <2>9, <2>10, WorkloadCompletedOK
  <2>12. w.NumBatches = 0 /\ r.state.totalBatchesProcessed \in Nat
    BY <2>3, <2>9 DEF Fits, PairOK, StateOK
  <2>13. late = early
    BY <2>10
  <2>14. v.state.totalBatchesProcessed = r.state.totalBatchesProcessed
    BY <2>5, <2>7, <2>11, <2>12 DEF Recorded
  <2> QED BY <2>3, <2>5, <2>7, <2>11, <2>13, <2>14 DEF Recorded, Cached
<1> QED BY <1>3, <1>4

\* The trial y is x after the workload w is completed.
Counted(x, w, reason, y) ==
    /\ y.earlyExit \in BOOLEAN
    /\ StateOK(y.ops, y.earlyExit, y.state) /\ StateOK(y.ops, y.earlyExit, y.snapshot)
    /\ y.snapshot.batchesSinceLastCkpt = 0
    /\ reason # "ERRORED" =>
          y.state.totalBatchesProcessed = x.state.totalBatchesProcessed + w.NumBatches
    /\ \A f \in TrialFields \ {"state", "snapshot", "earlyExit"} : y[f] = x[f]

LEMMA RecordCompletedOK ==
    ASSUME NEW x, IsTrial(x), x.ops \in Seq(OpType), x.earlyExit \in BOOLEAN,
           StateOK(x.ops, x.earlyExit, x.state), StateOK(x.ops, x.earlyExit, x.snapshot),
           x.snapshot.batchesSinceLastCkpt = 0, NEW w, Fits(x, x.state, w),
           NEW reason, NEW isBest, NEW y, y = RecordCompleted(x, w, reason, isBest)
    PROVE  Counted(x, w, reason, y)
<1>1. PICK p : p = SequencerOf(x)
  OBVIOUS
<1>2. p.state = x.state /\ p.snapshot = x.snapshot
  BY <1>1 DEF SequencerOf
<1>3. PICK r : r = Sequencer(x)!WorkloadCompleted(p, w, reason, isBest)
  OBVIOUS
<1>4. PICK v : v = Sequencer(x)!CompleteCachedCheckpoints(r)
  OBVIOUS
<1>5. PICK early : early = (x.earlyExit \/ reason # "NONE")
  OBVIOUS
<1>6. y = [[x EXCEPT !.state = v.state, !.snapshot = v.snapshot] EXCEPT !.earlyExit = early]
  BY <1>1, <1>3, <1>4, <1>5 DEF RecordCompleted, WithSequencer
<1>7. /\ y.state = v.state /\ y.snapshot = v.snapshot /\ y.earlyExit = early
      /\ \A f \in TrialFields \ {"state", "snapshot", "earlyExit"} : y[f] = x[f]
  BY <1>6 DEF IsTrial, TrialFields
<1>8. PairOK(x.ops, x.earlyExit, p) /\ Fits(x, p.state, w)
  BY <1>2 DEF PairOK
<1>9. Recorded(x, early, p, w, reason, r)
  BY <1>3, <1>5, <1>8, WorkloadCompletedOK
<1>10. early \in BOOLEAN /\ PairOK(x.ops, early, r)
  BY <1>5, <1>9 DEF Recorded
<1>11. Cached(x, early, r, v)
  BY <1>4, <1>10, CompleteCachedOK
<1>12. y.ops = x.ops
  BY <1>7 DEF TrialFields
<1>13. reason # "ERRORED" =>
          y.state.totalBatchesProcessed = x.state.totalBatchesProcessed + w.NumBatches
  BY <1>2, <1>7, <1>9, <1>11 DEF Recorded, Cached
<1> QED BY <1>7, <1>10, <1>11, <1>12, <1>13 DEF Cached, PairOK, Counted

(***************************************************************************)
(* Ending a run.                                                           *)
(***************************************************************************)
\* The sequencer's part of SeqCore.
CountsOK(x) ==
    /\ x.ops \in Seq(OpType) /\ x.earlyExit \in BOOLEAN
    /\ StateOK(x.ops, x.earlyExit, x.state) /\ StateOK(x.ops, x.earlyExit, x.snapshot)
    /\ x.snapshot.batchesSinceLastCkpt = 0

\* A trial x without a run.
Rests(x) == x.containerRanks = {} /\ ~x.terminationSent /\ x.terminatedContainers = Nothing

LEMMA RestsCore ==
    ASSUME NEW x, CountsOK(x), Rests(x), Settled(x)
    PROVE  SeqCore(x)
<1>1. DOMAIN x.terminatedContainers = {}
  BY DEF Rests, Nothing
<1> QED BY <1>1 DEF SeqCore, CountsOK, Rests

LEMMA FailForGoodCore ==
    ASSUME NEW x, IsTrial(x), CountsOK(x), Rests(x), x.restarts > MaxRollbacks,
           NEW y, y = FailForGood(x)
    PROVE  /\ SeqCore(y) /\ ~y.terminationSent /\ y.cancelUnready = x.cancelUnready
           /\ y.ops = x.ops /\ y.status \in {x.status, "panicked"}
<1>1. ASSUME NEW w, Fits(x, x.state, w), y = RecordCompleted(x, w, "ERRORED", FALSE)
      PROVE  /\ CountsOK(y) /\ Rests(y) /\ Settled(y) /\ y.cancelUnready = x.cancelUnready
             /\ y.ops = x.ops /\ y.status = x.status
  <2>1. /\ y.earlyExit \in BOOLEAN
        /\ StateOK(y.ops, y.earlyExit, y.state) /\ StateOK(y.ops, y.earlyExit, y.snapshot)
        /\ y.snapshot.batchesSinceLastCkpt = 0
        /\ \A f \in TrialFields \ {"state", "snapshot", "earlyExit"} : y[f] = x[f]
    <3>1. /\ x.ops \in Seq(OpType) /\ x.earlyExit \in BOOLEAN
          /\ StateOK(x.ops, x.earlyExit, x.state) /\ StateOK(x.ops, x.earlyExit, x.snapshot)
          /\ x.snapshot.batchesSinceLastCkpt = 0
      BY DEF CountsOK
    <3>2. Counted(x, w, "ERRORED", y)
      BY <1>1, <3>1, RecordCompletedOK
    <3> QED BY <3>2 DEF Counted
  <2>2. /\ y.ops = x.ops /\ y.containerRanks = x.containerRanks /\ y.restarts = x.restarts
        /\ y.terminationSent = x.terminationSent /\ y.cancelUnready = x.cancelUnready
        /\ y.terminatedContainers = x.terminatedContainers /\ y.status = x.status
    BY <2>1 DEF TrialFields
  <2> QED BY <2>1, <2>2 DEF CountsOK, Rests, Settled
<1>2. CASE ~UpToDate(x)
  <2>1. Fits(x, x.state, Workload(x))
    BY <1>2, WorkloadFits DEF CountsOK, UpToDate, Workload
  <2>2. y = RecordCompleted(x, Workload(x), "ERRORED", FALSE)
    BY <1>2 DEF FailForGood
  <2> QED BY <1>1, <2>1, <2>2, RestsCore DEF Rests
<1>3. CASE UpToDate(x) /\ NeedsCheckpoint(x)
  <2>1. Fits(x, x.state, PrecloseCheckpoint(x))
    BY CheckpointFits DEF PrecloseCheckpoint
  <2>2. y = RecordCompleted(x, PrecloseCheckpoint(x), "ERRORED", FALSE)
    BY <1>3 DEF FailForGood
  <2> QED BY <1>1, <2>1, <2>2, RestsCore DEF Rests
<1>4. CASE UpToDate(x) /\ ~NeedsCheckpoint(x)
  <2>1. y = [x EXCEPT !.status = "panicked"]
    BY <1>4 DEF FailForGood
  <2>2. /\ y.status = "panicked" /\ \A f \in TrialFields \ {"status"} : y[f] = x[f]
    BY <2>1 DEF IsTrial, TrialFields
  <2>3. /\ y.ops = x.ops /\ y.containerRanks = x.containerRanks /\ y.restarts = x.restarts
        /\ y.terminationSent = x.terminationSent /\ y.cancelUnready = x.cancelUnready
        /\ y.terminatedContainers = x.terminatedContainers
        /\ y.state = x.state /\ y.snapshot = x.snapshot /\ y.earlyExit = x.earlyExit
    BY <2>2 DEF TrialFields
  <2>4. CountsOK(y) /\ Rests(y) /\ Settled(y)
    BY <2>3 DEF CountsOK, Rests, Settled
  <2> QED BY <2>2, <2>3, <2>4, RestsCore DEF Rests
<1> QED BY <1>2, <1>3, <1>4

\* A run that ends leaves the sequencer at a checkpoint, unless the trial was
\* cancelled before it was ready or will not run again.
LEMMA TerminatedCore ==
    ASSUME NEW x, IsTrial(x), SeqCore(x), x.restarts \in Nat,
           x.allocations = {} \/ (x.containerRanks # {} /\ x.startedContainers # {}),
           NEW v, v = terminated(x)
    PROVE  /\ SeqCore(v) /\ ~v.terminationSent /\ v.cancelUnready = x.cancelUnready
           /\ v.ops = x.ops /\ v.status \in {x.status, "panicked"}
<1>0. PICK status : status = RunStatus(x)
  OBVIOUS
<1>1. PICK y : y = ResetRun(x)
  OBVIOUS
<1>2. PICK z : z = [y EXCEPT !.restarts = @ + 1]
  OBVIOUS
<1>3. /\ IsTrial(y) /\ y.ops = x.ops /\ y.state = x.state /\ y.snapshot = x.snapshot
      /\ y.earlyExit = x.earlyExit /\ y.cancelUnready = x.cancelUnready /\ y.killed = x.killed
      /\ y.restarts = x.restarts /\ y.idSet = x.idSet /\ y.status = x.status
      /\ y.containerRanks = {} /\ y.terminationSent = FALSE /\ y.terminatedContainers = Nothing
  BY <1>1 DEF ResetRun, IsTrial, TrialFields
<1>4. /\ IsTrial(z) /\ z.ops = x.ops /\ z.state = x.state /\ z.snapshot = x.snapshot
      /\ z.earlyExit = x.earlyExit /\ z.cancelUnready = x.cancelUnready /\ z.killed = x.killed
      /\ z.restarts = x.restarts + 1 /\ z.idSet = x.idSet /\ z.status = x.status
      /\ z.containerRanks = {} /\ z.terminationSent = FALSE /\ z.terminatedContainers = Nothing
  BY <1>2, <1>3 DEF IsTrial, TrialFields
<1>5. CountsOK(y) /\ Rests(y) /\ CountsOK(z) /\ Rests(z)
  BY <1>3, <1>4 DEF SeqCore, CountsOK, Rests
<1>6. CASE status = "none" \/ x.terminationSent \/ x.cancelUnready \/ x.killed \/ status = "aborted"
  <2>1. v = y
    BY <1>0, <1>1, <1>6 DEF terminated
  <2>2. Settled(y)
    <3>1. CASE x.allocations = {}
      BY <1>3, <3>1 DEF Settled, SeqCore
    <3>2. CASE x.terminationSent \/ x.cancelUnready \/ x.killed
      BY <1>3, <3>2 DEF Settled, SeqCore
    <3>3. CASE status = "none"
      <4>1. PICK leaders : leaders = {c \in DOMAIN x.terminatedContainers : IsLeader(c)}
        OBVIOUS
      <4>2. leaders # {} /\ classifyStatus(x.terminatedContainers[CHOOSE c \in leaders : TRUE]) = "none"
        BY <1>0, <3>3, <4>1 DEF RunStatus
      <4>3. PICK c : c = (CHOOSE d \in leaders : TRUE) /\ c \in leaders
        BY <4>2
      <4>4. ~x.terminatedContainers[c].needsCheckpoint
        BY <4>2, <4>3 DEF classifyStatus
      <4> QED BY <1>3, <4>1, <4>3, <4>4 DEF Settled, SeqCore
    <3>4. CASE status = "aborted" /\ x.allocations # {}
      BY <1>0, <3>4 DEF RunStatus, classifyStatus
    <3> QED BY <1>6, <3>1, <3>2, <3>3, <3>4
  <2>3. SeqCore(y)
    BY <1>5, <2>2, RestsCore
  <2> QED BY <1>3, <2>1, <2>3
<1>7. CASE ~(status = "none" \/ x.terminationSent \/ x.cancelUnready \/ x.killed \/ status = "aborted")
  <2>1. v = IF z.restarts <= MaxRollbacks THEN restore(z) ELSE FailForGood(z)
    BY <1>0, <1>1, <1>2, <1>7 DEF terminated
  <2>2. CASE z.restarts <= MaxRollbacks /\ z.idSet
    <3>1. v = [z EXCEPT !.state = z.snapshot]
      BY <2>1, <2>2 DEF restore
    <3>2. /\ v.ops = x.ops /\ v.state = x.snapshot /\ v.snapshot = x.snapshot
          /\ v.earlyExit = x.earlyExit /\ v.cancelUnready = x.cancelUnready
          /\ v.status = x.status
          /\ v.containerRanks = {} /\ v.terminationSent = FALSE /\ v.terminatedContainers = Nothing
      BY <1>4, <3>1 DEF IsTrial, TrialFields
    <3>3. CountsOK(v) /\ Rests(v) /\ Settled(v)
      BY <3>2 DEF SeqCore, CountsOK, Rests, Settled
    <3> QED BY <3>2, <3>3, RestsCore
  <2>3. CASE z.restarts <= MaxRollbacks /\ ~z.idSet
    <3>1. v = z
      BY <2>1, <2>3 DEF restore
    <3>2. x.allocations = {} /\ Settled(x)
      BY <1>4, <2>3 DEF SeqCore
    <3>3. ~(x.restarts > MaxRollbacks)
      BY <1>4, <2>3, TrialAssumption
    <3>4. Settled(z)
      BY <1>4, <1>7, <3>2, <3>3 DEF Settled
    <3> QED BY <1>4, <1>5, <3>1, <3>4, RestsCore
  <2>4. CASE ~(z.restarts <= MaxRollbacks)
    <3>1. v = FailForGood(z) /\ z.restarts > MaxRollbacks
      BY <1>4, <2>1, <2>4, TrialAssumption
    <3> QED BY <1>4, <1>5, <3>1, FailForGoodCore
  <2> QED BY <2>2, <2>3, <2>4
<1> QED BY <1>6, <1>7

\* The sequencer is left alone and the run goes on.
SeqKept(x, y) ==
    /\ y.ops = x.ops /\ y.state = x.state /\ y.snapshot = x.snapshot /\ y.earlyExit = x.earlyExit
    /\ y.idSet = x.idSet /\ y.terminationSent = x.terminationSent
    /\ x.cancelUnready => y.cancelUnready
    /\ x.killed => y.killed

\* The workload that is due depends on the current operation and on the state.
LEMMA DueDepends ==
    ASSUME NEW x, NEW y, NEW s, Sequencer(y)!CurrentOp(s) = Sequencer(x)!CurrentOp(s)
    PROVE  Sequencer(y)!Workload(s) = Sequencer(x)!Workload(s)
<1>1. \A l, c : Sequencer(y)!RecordsOf(l, c) = Sequencer(x)!RecordsOf(l, c)
  BY DEF Sequencer!RecordsOf
<1>2. \A l, c : Sequencer(y)!ToNearestBatch(l, c) = Sequencer(x)!ToNearestBatch(l, c)
  BY <1>1 DEF Sequencer!ToNearestBatch
<1>3. \A l, n, c : Sequencer(y)!EqualWithinBatch(l, n, c) <=> Sequencer(x)!EqualWithinBatch(l, n, c)
  <2>1. \A a, b : Sequencer(y)!AbsDiff(a, b) = Sequencer(x)!AbsDiff(a, b)
    BY DEF Sequencer!AbsDiff
  <2> QED BY <1>1, <2>1 DEF Sequencer!EqualWithinBatch
<1>4. \A a, b : /\ Sequencer(y)!min(a, b) = Sequencer(x)!min(a, b)
               /\ Sequencer(y)!max(a, b) = Sequencer(x)!max(a, b)
  BY DEF Sequencer!min, Sequencer!max
<1>5. /\ Sequencer(y)!batchesUntilValNeeded(s) = Sequencer(x)!batchesUntilValNeeded(s)
      /\ Sequencer(y)!batchesUntilCkptNeeded(s) = Sequencer(x)!batchesUntilCkptNeeded(s)
  BY <1>2 DEF Sequencer!batchesUntilValNeeded, Sequencer!batchesUntilCkptNeeded, Sequencer!MaxInt32
<1>6. Sequencer(y)!batchesThisStep(s) = Sequencer(x)!batchesThisStep(s)
  BY <1>2, <1>4, <1>5 DEF Sequencer!batchesThisStep
<1>7. /\ Sequencer(y)!validate(s) = Sequencer(x)!validate(s)
      /\ Sequencer(y)!checkpoint(s) = Sequencer(x)!checkpoint(s)
      /\ \A n : Sequencer(y)!train(s, n) = Sequencer(x)!train(s, n)
  BY DEF Sequencer!validate, Sequencer!checkpoint, Sequencer!train
<1>8. Sequencer(y)!OpWorkload(s) = Sequencer(x)!OpWorkload(s)
  BY <1>6, <1>7 DEF Sequencer!OpWorkload
<1>9. /\ Sequencer(y)!minValidationNeeded(s) <=> Sequencer(x)!minValidationNeeded(s)
      /\ Sequencer(y)!minCheckpointNeeded(s) <=> Sequencer(x)!minCheckpointNeeded(s)
      /\ Sequencer(y)!postGracefulStopCheckpointNeeded(s)
            <=> Sequencer(x)!postGracefulStopCheckpointNeeded(s)
      /\ Sequencer(y)!postValidationCheckpointNeeded(s)
            <=> Sequencer(x)!postValidationCheckpointNeeded(s)
  BY <1>3 DEF Sequencer!minValidationNeeded, Sequencer!minCheckpointNeeded,
              Sequencer!postGracefulStopCheckpointNeeded, Sequencer!postValidationCheckpointNeeded
<1> QED BY <1>7, <1>8, <1>9 DEF Sequencer!Workload

\* What the sequencer offers depends on its operations and its state.
LEMMA SameWorkloads ==
    ASSUME NEW x, NEW y, y.ops = x.ops, y.state = x.state
    PROVE  /\ UpToDate(y) <=> UpToDate(x)
           /\ \A w : Legal(x, w) => Legal(y, w)
<1>1. UpToDate(y) <=> UpToDate(x)
  BY DEF UpToDate, Sequencer!UpToDate, Sequencer!postGracefulStopCheckpointNeeded
<1>2. Workload(y) = Workload(x)
  <2>1. Sequencer(y)!CurrentOp(x.state) = Sequencer(x)!CurrentOp(x.state)
    BY DEF Sequencer!CurrentOp
  <2> QED BY <2>1, DueDepends DEF Workload
<1>3. PrecloseCheckpoint(y) = PrecloseCheckpoint(x)
  BY DEF PrecloseCheckpoint, Sequencer!checkpoint
<1> QED BY <1>1, <1>2, <1>3 DEF Legal

LEMMA SettledKept ==
    ASSUME NEW x, NEW y, SeqKept(x, y), y.restarts = x.restarts, Settled(x)
    PROVE  Settled(y)
BY DEF SeqKept, Settled

LEMMA KeptCore ==
    ASSUME NEW x, NEW y, SeqKept(x, y), SameRun(x, y), SeqCore(x)
    PROVE  SeqCore(y)
<1>1. x.allocations = {} => Settled(y)
  BY SettledKept DEF SeqCore, SameRun
<1> QED BY <1>1 DEF SeqKept, SameRun, SeqCore

LEMMA KeptTransitive ==
    ASSUME NEW x, NEW y, NEW z, SeqKept(x, y), SeqKept(y, z)
    PROVE  SeqKept(x, z)
BY DEF SeqKept

\* Terminating a run: it goes on for now, or it had no resources and ends.
Calm(x, y) ==
    \/ x.allocations # {} /\ Keeps(x, y) /\ SeqKept(x, y)
    \/ /\ x.allocations = {} /\ Ends(x, y) /\ SeqCore(y) /\ ~y.terminationSent
       /\ (x.cancelUnready => y.cancelUnready) /\ y.ops = x.ops

CalmlySends(x, y) ==
    y.out \subseteq x.out \cup {Msg("Kill"), Msg("ResourcesReleased"), Msg("trialAborted")}

LEMMA TerminateCalm ==
    ASSUME NEW x, IsTrial(x), SeqCore(x), x.restarts \in Nat, NEW kill \in BOOLEAN,
           NEW y, y = terminate(x, kill)
    PROVE  /\ Calm(x, y) /\ CalmlySends(x, y)
           /\ y.status \in {x.status, "panicked"}
<1>1. /\ x.allocations # {} => Keeps(x, y)
      /\ x.allocations = {} => Ends(x, y)
      /\ CalmlySends(x, y)
  BY TerminateCases DEF Sends, CalmlySends
<1>2. CASE x.allocations = {}
  <2>1. PICK v : v = terminated(x)
    OBVIOUS
  <2>2. IsTrial(v)
    BY <2>1, TerminatedEnds DEF Ends
  <2>3. /\ SeqCore(v) /\ ~v.terminationSent /\ v.cancelUnready = x.cancelUnready
        /\ v.ops = x.ops /\ v.status \in {x.status, "panicked"}
    BY <1>2, <2>1, TerminatedCore
  <2>4. y = [v EXCEPT !.out = @ \cup {Msg("trialAborted")}]
    BY <1>2, <2>1 DEF terminate, Send
  <2>5. SeqKept(v, y) /\ SameRun(v, y) /\ y.status = v.status /\ y.cancelUnready = v.cancelUnready
    BY <2>2, <2>4 DEF IsTrial, TrialFields, SeqKept, SameRun
  <2>6. SeqCore(y) /\ ~y.terminationSent /\ y.ops = x.ops /\ y.cancelUnready = x.cancelUnready
    BY <2>3, <2>5, KeptCore DEF SeqKept
  <2> QED BY <1>1, <1>2, <2>3, <2>5, <2>6 DEF Calm
<1>3. CASE x.allocations # {}
  <2>1. SeqKept(x, y) /\ y.status = x.status
    BY <1>3 DEF terminate, Send, IsTrial, TrialFields, SeqKept
  <2> QED BY <1>1, <1>3, <2>1 DEF Calm
<1> QED BY <1>2, <1>3

LEMMA CalmAfter ==
    ASSUME NEW x, NEW y, NEW z, Keeps(x, y), SeqKept(x, y), Calm(y, z)
    PROVE  Calm(x, z)
<1>1. CASE y.allocations # {}
  <2>1. Keeps(y, z) /\ SeqKept(y, z)
    BY <1>1 DEF Calm
  <2> QED BY <1>1, <2>1, KeepsTransitive, KeptTransitive DEF Calm, Keeps, SameRun
<1>2. CASE y.allocations = {}
  <2>1. /\ Ends(y, z) /\ SeqCore(z) /\ ~z.terminationSent
        /\ (y.cancelUnready => z.cancelUnready) /\ z.ops = y.ops
    BY <1>2 DEF Calm
  <2> QED BY <1>2, <2>1, KeepsThenEnds DEF Calm, Keeps, SameRun, SeqKept
<1> QED BY <1>1, <1>2

LEMMA ReleaseCalm ==
    ASSUME NEW x, IsTrial(x), SeqCore(x), x.restarts \in Nat, NEW y, y = releaseResource(x)
    PROVE  /\ Calm(x, y) /\ CalmlySends(x, y)
           /\ y.status \in {x.status, "panicked"}
<1>1. PICK u, kill : /\ kill \in BOOLEAN /\ y = terminate(u, kill)
                     /\ \/ u = [x EXCEPT !.allReadySucceeded = TRUE]
                        \/ u = [x EXCEPT !.cancelUnready = TRUE]
  BY DEF releaseResource
<1>2. Keeps(x, u) /\ SeqKept(x, u) /\ u.out = x.out /\ u.status = x.status
  BY <1>1 DEF IsTrial, TrialFields, Keeps, SeqKept, SameRun, SameLinks, SameOrders, Ignored
<1>3. IsTrial(u) /\ SeqCore(u) /\ u.restarts \in Nat
  BY <1>2, KeptCore DEF Keeps, SameRun
<1>4. Calm(u, y) /\ CalmlySends(u, y) /\ y.status \in {u.status, "panicked"}
  BY <1>1, <1>3, TerminateCalm
<1> QED BY <1>2, <1>4, CalmAfter DEF CalmlySends

(***************************************************************************)
(* What a handler makes of the trial and of the workload in flight.        *)
(***************************************************************************)
\* The message is the leader's completion, or the answer the run waits for.
Taken == Now.type = "Completed" \/ (Now.type = "sendNextWorkload" /\ Now.of = t.runID)

Written(z) == {m \in z.out : m.type \in {"Run", "sendNextWorkload"}}

\* No search method ends what it requests at once with a checkpoint.
LastOK(o) == o = <<>> \/ o[Len(o)].type # "Checkpoint"

OrderOK(z, m) ==
    /\ m.type = "Run" =>
          IF m.of = TERMINATE THEN z.terminationSent ELSE Legal(z, m.of) /\ ~z.terminationSent
    /\ m.type = "sendNextWorkload" => ~z.terminationSent
    /\ m.type = "Start" =>
          /\ Legal(z, m.of) /\ ~z.terminationSent /\ z.allocations # {}
          /\ ~z.cancelUnready => z.state.batchesSinceLastCkpt = 0
    /\ m.type = "Rendezvous" => m.of \subseteq z.containerSockets

\* A run that goes on counts the completed workload, or nothing.
Counts(z) ==
    IF Now.type = "Completed"
    THEN z.state.totalBatchesProcessed = t.state.totalBatchesProcessed + Now.of.NumBatches
    ELSE /\ z.state.totalBatchesProcessed = t.state.totalBatchesProcessed
         /\ \A w : Legal(t, w) => Legal(z, w)

Post(z) ==
    /\ SeqCore(z) /\ Waiting(z) /\ (t.cancelUnready => z.cancelUnready)
    /\ z.ops = IF Now.type = "Operations" THEN t.ops \o Now.of ELSE t.ops
    /\ \A m \in z.out : OrderOK(z, m)
    /\ AtMostOne(Written(z))
    /\ Written(z) # {} => Taken /\ z.runID = t.runID /\ z.allocations # {}
    /\ z.terminationSent => z.runID = t.runID /\ (t.terminationSent \/ Taken)
    /\ z.runID = t.runID /\ t.containerRanks # {} => Counts(z)

\* Nothing was refused, and all of the above if the trial goes on.
Sound(z) == (LastOK(t.ops) => z.status # "failed") /\ (z.status = "up" => Post(z))

\* Messages that order nothing of the leader.
Tame == {"Kill", "ResourcesReleased", "trialAborted", "Accept", "AllocateRequest", "stop"}

LEMMA TameOrders ==
    ASSUME NEW z, \A m \in z.out : m.type \in Tame
    PROVE  Written(z) = {} /\ AtMostOne(Written(z)) /\ \A m \in z.out : OrderOK(z, m)
<1>1. \A m \in z.out : m.type \notin {"Run", "sendNextWorkload", "Start", "Rendezvous"}
  BY DEF Tame
<1>2. Written(z) = {}
  BY <1>1 DEF Written
<1>3. \A m \in z.out : OrderOK(z, m)
  BY <1>1 DEF OrderOK
<1> QED BY <1>2, <1>3 DEF AtMostOne

LEMMA CalmMessages ==
    ASSUME NEW x, NEW y, CalmlySends(x, y), NEW m \in y.out, m \notin x.out
    PROVE  m.type \in {"Kill", "ResourcesReleased", "trialAborted"}
BY MsgType DEF CalmlySends

LEMMA StaysWaiting ==
    ASSUME NEW x, NEW y, Keeps(x, y), SeqKept(x, y), y.killed = x.killed, Waiting(x)
    PROVE  Waiting(y)
<1>1. UpToDate(y) <=> UpToDate(x)
  BY SameWorkloads DEF SeqKept
<1> QED BY <1>1 DEF Waiting, Keeps, SameRun, SeqKept

\* A message that leaves the sequencer alone.
LEMMA KeptSound ==
    ASSUME IInv, WInv, t.status = "up", Now.type \notin {"Completed", "Operations"},
           NEW y, SeqKept(t, y), SeqCore(y), Waiting(y), y.runID = t.runID, y.status # "failed",
           \A m \in y.out :
              m.type \in Tame \/ (m.type = "Rendezvous" /\ m.of \subseteq y.containerSockets)
    PROVE  Sound(y)
<1>1. \A m \in y.out : OrderOK(y, m) /\ m.type \notin {"Run", "sendNextWorkload"}
  BY DEF OrderOK, Tame
<1>2. Written(y) = {}
  BY <1>1 DEF Written
<1>3. Counts(y)
  BY SameWorkloads DEF SeqKept, Counts
<1> QED BY <1>1, <1>2, <1>3 DEF Sound, Post, SeqKept, AtMostOne

\* A message that ends the run, now or later.
LEMMA CalmSound ==
    ASSUME IInv, WInv, t.status = "up", Now.type \notin {"Completed", "Operations"},
           NEW y, Calm(t, y), CalmlySends(t, y), y.status # "failed"
    PROVE  Sound(y)
<1>0. t.out = {} /\ t.runID \in Nat /\ SeqCore(t)
  BY DEF IInv, RunOK, WInv
<1>1. \A m \in y.out : m.type \in Tame
  BY <1>0, CalmMessages DEF Tame
<1>2. CASE t.allocations # {}
  <2>1. Keeps(t, y) /\ SeqKept(t, y)
    BY <1>2 DEF Calm
  <2>2. SeqCore(y) /\ Waiting(y) /\ y.runID = t.runID
    BY <1>0, <1>2, <2>1, KeptCore DEF Keeps, SameRun, Waiting
  <2> QED BY <1>1, <2>1, <2>2, KeptSound
<1>3. CASE t.allocations = {}
  <2>1. /\ Ends(t, y) /\ SeqCore(y) /\ ~y.terminationSent
        /\ (t.cancelUnready => y.cancelUnready) /\ y.ops = t.ops
    BY <1>3 DEF Calm
  <2>2. Waiting(y) /\ y.runID = t.runID + 1 /\ y.runID # t.runID
    BY <1>0, <2>1 DEF Ends, Waiting
  <2>3. Written(y) = {} /\ AtMostOne(Written(y)) /\ \A m \in y.out : OrderOK(y, m)
    BY <1>1, TameOrders
  <2> QED BY <2>1, <2>2, <2>3 DEF Sound, Post
<1> QED BY <1>2, <1>3

\* ReleaseResources, ChildFailed, killTrial and terminateTimeout.
LEMMA SignalSound ==
    ASSUME IInv, WInv, t.status = "up", Now.type \notin {"Completed", "Operations"}, NEW y,
           \/ y = t \/ y = releaseResource(t) \/ y = terminate(t, TRUE)
           \/ y = terminate([t EXCEPT !.killed = TRUE], TRUE)
    PROVE  Sound(y)
<1>1. IsTrial(t) /\ SeqCore(t) /\ t.restarts \in Nat /\ t.out = {} /\ Waiting(t)
  BY TrialAssumption DEF IInv, RunOK, WInv
<1>2. CASE y = t
  <2>1. SeqKept(t, y)
    BY <1>2 DEF SeqKept
  <2> QED BY <1>1, <1>2, <2>1, KeptSound
<1>3. CASE y = releaseResource(t)
  BY <1>1, <1>3, ReleaseCalm, CalmSound
<1>4. CASE y = terminate(t, TRUE)
  BY <1>1, <1>4, TerminateCalm, CalmSound
<1>5. CASE y = terminate([t EXCEPT !.killed = TRUE], TRUE)
  <2>1. PICK x : x = [t EXCEPT !.killed = TRUE]
    OBVIOUS
  <2>2. Keeps(t, x) /\ SeqKept(t, x) /\ x.out = t.out /\ x.status = t.status
    BY <1>1, <2>1 DEF IsTrial, TrialFields, Keeps, SeqKept, SameRun, SameLinks, SameOrders, Ignored
  <2>3. IsTrial(x) /\ SeqCore(x) /\ x.restarts \in Nat
    BY <1>1, <2>2, KeptCore DEF Keeps, SameRun
  <2>4. Calm(x, y) /\ CalmlySends(x, y) /\ y.status \in {x.status, "panicked"}
    BY <1>5, <2>1, <2>3, TerminateCalm
  <2>5. Calm(t, y) /\ CalmlySends(t, y) /\ y.status # "failed"
    BY <2>2, <2>4, CalmAfter DEF CalmlySends
  <2> QED BY <2>5, CalmSound
<1> QED BY <1>2, <1>3, <1>4, <1>5

\* More operations change nothing of the workload that is due.
LEMMA MoreOperations ==
    ASSUME NEW x, NEW y, NEW b \in Seq(OpType), x.ops \in Seq(OpType), y.ops = x.ops \o b,
           y.state = x.state, x.state.curOpIdx \in 0 .. Len(x.ops)
    PROVE  /\ ~UpToDate(x) => ~UpToDate(y)
           /\ \A w : Legal(x, w) => Legal(y, w)
<1>1. PICK o : o = x.ops /\ o \in Seq(OpType)
  OBVIOUS
<1>2. PICK p : p = y.ops /\ p = o \o b
  BY <1>1
<1>3. /\ Len(o) \in Nat /\ Len(b) \in Nat /\ Len(p) = Len(o) + Len(b)
      /\ \A i \in 1 .. Len(o) : p[i] = o[i]
  BY <1>1, <1>2
<1>4. PICK k : k = x.state.curOpIdx /\ k \in 0 .. Len(o)
  BY <1>1
<1>5. ~(Len(o) = k) => ~(Len(p) = k) /\ p[k + 1] = o[k + 1]
  <2>1. \A m, n \in Nat : k \in 0 .. m /\ ~(m = k) => k + 1 \in 1 .. m /\ ~(m + n = k)
    BY <1>4
  <2> QED BY <1>3, <1>4, <2>1
<1>6. ~UpToDate(x) => ~(Len(o) = k) /\ ~UpToDate(y)
  BY <1>1, <1>2, <1>4, <1>5
  DEF UpToDate, Sequencer!UpToDate, Sequencer!postGracefulStopCheckpointNeeded
<1>7. ~UpToDate(x) => y.ops[y.state.curOpIdx + 1] = x.ops[x.state.curOpIdx + 1]
  BY <1>1, <1>2, <1>4, <1>5, <1>6
<1>8. ~UpToDate(x) => Workload(y) = Workload(x)
  <2>1. ~UpToDate(x) => Sequencer(y)!CurrentOp(x.state) = Sequencer(x)!CurrentOp(x.state)
    BY <1>7 DEF Sequencer!CurrentOp
  <2> QED BY <2>1, DueDepends DEF Workload
<1>9. PrecloseCheckpoint(y) = PrecloseCheckpoint(x)
  BY DEF PrecloseCheckpoint, Sequencer!checkpoint
<1> QED BY <1>6, <1>8, <1>9 DEF Legal

LEMMA OperationsSound ==
    ASSUME IInv, WInv, t.status = "up", inbox # <<>>, Now.type = "Operations",
           NEW y, y = [t EXCEPT !.ops = @ \o Now.of]
    PROVE  Sound(y)
<1>1. /\ IsTrial(t) /\ t.out = {} /\ SeqCore(t) /\ Waiting(t)
      /\ t.ops \in Seq(OpType) /\ t.state.curOpIdx \in 0 .. Len(t.ops)
  BY DEF IInv, RunOK, WInv, SeqCore, StateOK
<1>2. Now.of \in Seq(OpType)
  <2>1. MsgPending(t, boxes, Now)
    BY NowIsFirst DEF WInv, PendingOK, IInv
  <2> QED BY <2>1, BatchesTyped DEF MsgPending
<1>3. /\ IsTrial(y) /\ y.out = {} /\ y.ops = t.ops \o Now.of
      /\ \A f \in TrialFields \ {"ops"} : y[f] = t[f]
  BY <1>1 DEF IsTrial, TrialFields
<1>4. /\ y.state = t.state /\ y.snapshot = t.snapshot /\ y.earlyExit = t.earlyExit
      /\ y.idSet = t.idSet /\ y.terminationSent = t.terminationSent
      /\ y.cancelUnready = t.cancelUnready /\ y.killed = t.killed /\ y.restarts = t.restarts
      /\ y.allocations = t.allocations /\ y.containerRanks = t.containerRanks
      /\ y.terminatedContainers = t.terminatedContainers /\ y.task = t.task
      /\ y.runID = t.runID /\ y.status = t.status
  BY <1>3 DEF TrialFields
<1>5. y.ops \in Seq(OpType) /\ Len(t.ops) \in Nat /\ Len(Now.of) \in Nat
         /\ Len(y.ops) = Len(t.ops) + Len(Now.of)
  BY <1>1, <1>2, <1>3
<1>6. \A k \in 0 .. Len(t.ops) : k \in 0 .. Len(y.ops)
  <2>1. \A m, n \in Nat : \A k \in 0 .. m : k \in 0 .. m + n
    OBVIOUS
  <2> QED BY <1>5, <2>1
<1>7. \A s : StateOK(t.ops, t.earlyExit, s) => StateOK(y.ops, y.earlyExit, s)
  BY <1>4, <1>6 DEF StateOK
<1>8. SeqCore(y)
  BY <1>1, <1>4, <1>5, <1>7 DEF SeqCore, Settled
<1>9. (~UpToDate(t) => ~UpToDate(y)) /\ \A w : Legal(t, w) => Legal(y, w)
  BY <1>1, <1>2, <1>3, <1>4, MoreOperations
<1>10. Waiting(y)
  BY <1>1, <1>4, <1>9 DEF Waiting
<1>11. Written(y) = {} /\ AtMostOne(Written(y)) /\ \A m \in y.out : OrderOK(y, m)
  BY <1>3, TameOrders
<1>12. Counts(y)
  BY <1>4, <1>9 DEF Counts
<1> QED BY <1>3, <1>4, <1>8, <1>10, <1>11, <1>12 DEF Sound, Post

\* State and Close.
LEMMA ToldSound ==
    ASSUME IInv, WInv, t.status = "up", Now.type \in {"State", "Close"}, NEW y,
           y = [t EXCEPT !.experimentState = Now.of] \/ y = [t EXCEPT !.close = TRUE]
    PROVE  Sound(y)
<1>1. IsTrial(t) /\ t.out = {} /\ SeqCore(t) /\ Waiting(t)
  BY DEF IInv, RunOK, WInv
<1>2. /\ SeqKept(t, y) /\ SameRun(t, y) /\ y.out = t.out /\ y.status = t.status
      /\ y.killed = t.killed
  BY <1>1 DEF IsTrial, TrialFields, SeqKept, SameRun
<1>3. SeqCore(y)
  BY <1>1, <1>2, KeptCore
<1>4. UpToDate(y) <=> UpToDate(t)
  BY <1>2, SameWorkloads DEF SeqKept
<1>5. Waiting(y) /\ y.runID = t.runID
  BY <1>1, <1>2, <1>4 DEF Waiting, SameRun, SeqKept
<1> QED BY <1>1, <1>2, <1>3, <1>5, KeptSound

\* Messages that may complete a rendezvous.
LEMMA NotedSound ==
    ASSUME IInv, WInv, t.status = "up", t.task # 0,
           Now.type \in {"containerConnected", "StateChanged"}, NEW c, NEW y,
           y = processContainerConnected(t, c) \/ y = processContainerRunning(t, c)
    PROVE  Sound(y)
<1>1. IsTrial(t) /\ t.out = {} /\ SeqCore(t) /\ Waiting(t)
  BY DEF IInv, RunOK, WInv
<1>2. CASE y = t
  BY <1>2, SignalSound
<1>3. CASE y # t
  <2>1. PICK x : /\ y = pushRendezvous(x)
                 /\ \/ x = [t EXCEPT !.containerSockets = @ \cup {c}, !.out = @ \cup {MsgFrom("Accept", c)}]
                    \/ x = [t EXCEPT !.startedContainers = @ \cup {c}, !.containers = @ \cup {c}]
    <3>1. CASE y = processContainerConnected(t, c)
      <4>1. PICK u : u = [t EXCEPT !.containerSockets = @ \cup {c}]
        OBVIOUS
      <4>2. y = pushRendezvous(Send(u, MsgFrom("Accept", c)))
        BY <1>3, <3>1, <4>1 DEF processContainerConnected
      <4>3. Send(u, MsgFrom("Accept", c))
              = [t EXCEPT !.containerSockets = @ \cup {c}, !.out = @ \cup {MsgFrom("Accept", c)}]
        BY <1>1, <4>1 DEF Send, IsTrial, TrialFields
      <4> QED BY <4>2, <4>3
    <3>2. CASE y = processContainerRunning(t, c)
      BY <3>2 DEF processContainerRunning
    <3> QED BY <3>1, <3>2
  <2>2. /\ IsTrial(x) /\ SeqKept(t, x) /\ x.killed = t.killed /\ x.status = t.status
        /\ x.runID = t.runID /\ x.task = t.task /\ x.allocations = t.allocations
        /\ x.containerRanks = t.containerRanks /\ x.restarts = t.restarts
        /\ x.terminatedContainers = t.terminatedContainers
        /\ x.out \subseteq {MsgFrom("Accept", c)}
    <3>1. CASE x = [t EXCEPT !.containerSockets = @ \cup {c}, !.out = @ \cup {MsgFrom("Accept", c)}]
      BY <1>1, <3>1 DEF IsTrial, TrialFields, SeqKept
    <3>2. CASE x = [t EXCEPT !.startedContainers = @ \cup {c}, !.containers = @ \cup {c}]
      BY <1>1, <3>2 DEF IsTrial, TrialFields, SeqKept
    <3> QED BY <2>1, <3>1, <3>2
  <2>3. /\ IsTrial(y) /\ SeqKept(x, y) /\ y.killed = x.killed /\ y.status \in {x.status, "panicked"}
        /\ y.runID = x.runID /\ y.task = x.task /\ y.allocations = x.allocations
        /\ y.containerRanks = x.containerRanks /\ y.restarts = x.restarts
        /\ y.terminatedContainers = x.terminatedContainers
        /\ y.containerSockets = x.containerSockets
        /\ y.out = x.out \/ (y.out = x.out \cup {MsgOf("Rendezvous", x.containers)}
                                /\ x.containers \subseteq x.containerSockets)
    BY <2>1, <2>2 DEF pushRendezvous, Send, IsTrial, TrialFields, SeqKept
  <2>4. SeqKept(t, y)
    BY <2>2, <2>3, KeptTransitive
  <2>5. /\ y.runID = t.runID /\ y.task = t.task /\ y.allocations = t.allocations
        /\ y.containerRanks = t.containerRanks /\ y.restarts = t.restarts
        /\ y.terminatedContainers = t.terminatedContainers /\ y.killed = t.killed
        /\ y.status # "failed"
    BY <2>2, <2>3
  <2>6. SeqCore(y)
    BY <1>1, <2>4, <2>5 DEF SeqCore, SeqKept, Settled
  <2>7. UpToDate(y) <=> UpToDate(t)
    BY <2>4, SameWorkloads DEF SeqKept
  <2>8. Waiting(y)
    BY <1>1, <2>4, <2>5, <2>7 DEF Waiting, SeqKept
  <2>9. ASSUME NEW m \in y.out
        PROVE  m.type \in Tame \/ (m.type = "Rendezvous" /\ m.of \subseteq y.containerSockets)
    <3>1. m = MsgFrom("Accept", c) \/ (m = MsgOf("Rendezvous", x.containers)
                                          /\ x.containers \subseteq y.containerSockets)
      BY <2>2, <2>3
    <3>2. MsgFrom("Accept", c).type = "Accept"
      BY DEF MsgFrom
    <3> QED BY <3>1, <3>2, MsgType DEF Tame
  <2> QED BY <2>4, <2>5, <2>6, <2>8, <2>9, KeptSound
<1> QED BY <1>2, <1>3

(***************************************************************************)
(* The leader's completions and the next workload.                         *)
(***************************************************************************)
LEMMA LeaderOfRun ==
    ASSUME RunOK(t), NEW c \in t.containerRanks, IsLeader(c)
    PROVE  c = Lead(t) /\ t.task # 0 /\ t.allocations # {} /\ t.containerRanks # {}
<1>1. /\ c \in t.allocations /\ t.task = t.runID + 1 /\ t.allocations = Containers(t.task)
      /\ t.task # 0
  BY DEF RunOK
<1>2. c = <<c[1], c[2]>> /\ c[1] = t.task
  BY <1>1, ContainersOf
<1> QED BY <1>1, <1>2 DEF IsLeader, Lead

LEMMA FromLeader ==
    ASSUME IInv, WInv, t.status = "up", inbox # <<>>, Now.type = "Completed",
           Now.from \notin t.deadChildren
    PROVE  /\ Now.from = Lead(t) /\ Lead(t) \in DOMAIN boxes /\ ~Over(t, Lead(t))
           /\ Legal(t, Now.of) /\ Now.reason \in ExitReasons /\ ~t.terminationSent
           /\ t.task # 0 /\ t.allocations # {} /\ t.containerRanks # {}
<1>1. 1 \in 1 .. Len(inbox) /\ Now = inbox[1]
  BY NowIsFirst DEF IInv
<1>2. MsgPending(t, boxes, Now)
  BY <1>1 DEF WInv, PendingOK
<1>3. Now.from \in DOMAIN boxes /\ IsLeader(Now.from)
  BY <1>2 DEF MsgPending
<1>4. 1 \in Completions(inbox, Now.from)
  BY <1>1 DEF Completions
<1>5. ~Over(t, Now.from)
  <2>1. BoxPending(t, boxes[Now.from], inbox, Now.from)
    BY <1>3 DEF WInv, PendingOK
  <2> QED BY <1>4, <2>1 DEF BoxPending
<1>6. Now.from \in t.containerRanks /\ RunOK(t)
  BY <1>5 DEF Over, IInv
<1>7. Now.from = Lead(t) /\ t.task # 0 /\ t.allocations # {} /\ t.containerRanks # {}
  BY <1>3, <1>6, LeaderOfRun
<1>8. InOrder(t, boxes[Lead(t)], inbox, Lead(t), Completions(inbox, Lead(t)),
              Resyncs(inbox, t.runID), Asked(echoes, t.runID))
  BY <1>3, <1>7 DEF WInv, LeadOK
<1>9. Legal(t, Now.of) /\ Now.reason \in ExitReasons /\ ~t.terminationSent
  BY <1>1, <1>4, <1>7, <1>8 DEF InOrder
<1> QED BY <1>3, <1>5, <1>7, <1>9

LEMMA Resynced ==
    ASSUME IInv, WInv, t.status = "up", inbox # <<>>, Now.type = "sendNextWorkload",
           Now.of = t.runID
    PROVE  /\ Lead(t) \in DOMAIN boxes /\ ~t.terminationSent
           /\ t.task # 0 /\ t.allocations # {} /\ t.containerRanks # {}
<1>1. 1 \in 1 .. Len(inbox) /\ Now = inbox[1]
  BY NowIsFirst DEF IInv
<1>2. 1 \in Resyncs(inbox, t.runID)
  BY <1>1 DEF Resyncs
<1>3. Lead(t) \in DOMAIN boxes
  BY <1>2 DEF WInv, LeadOK
<1>4. InOrder(t, boxes[Lead(t)], inbox, Lead(t), Completions(inbox, Lead(t)),
              Resyncs(inbox, t.runID), Asked(echoes, t.runID))
  BY <1>3 DEF WInv, LeadOK
<1>5. ~t.terminationSent
  BY <1>2, <1>4 DEF InOrder
<1>6. Lead(t) \in t.containerRanks /\ IsLeader(Lead(t))
  BY <1>3 DEF IInv, BoxesOK, Lead, IsLeader
<1>7. RunOK(t)
  BY DEF IInv
<1> QED BY <1>3, <1>5, <1>6, <1>7, LeaderOfRun

\* x sends the next workload, or the end of the run, and becomes y.
GoesOn(x, y) ==
    /\ SeqCore(y) /\ y.status = x.status /\ y.ops = x.ops /\ y.state = x.state
    /\ y.cancelUnready = x.cancelUnready
    /\ y.runID = x.runID /\ y.allocations = x.allocations
    /\ \E w :
          \/ y.out = {MsgOf("Run", w)} /\ Legal(x, w) /\ w # TERMINATE /\ ~y.terminationSent
          \/ /\ y.out = {MsgOf("Run", TERMINATE), MsgOf("terminateTimeout", x.runID)}
             /\ y.terminationSent

LEMMA SendNextGoesOn ==
    ASSUME NEW x, IsTrial(x), SeqCore(x), x.allocations # {}, x.containerRanks # {},
           ~x.terminationSent, x.out = {}, NEW y, y = sendNextWorkload(x)
    PROVE  GoesOn(x, y)
<1>1. ASSUME NEW w, Legal(x, w), w # TERMINATE, y = Send(x, MsgOf("Run", w))
      PROVE  GoesOn(x, y)
  <2>1. y = [x EXCEPT !.out = @ \cup {MsgOf("Run", w)}]
    BY <1>1 DEF Send
  <2>2. /\ SeqKept(x, y) /\ SameRun(x, y) /\ y.status = x.status
        /\ y.cancelUnready = x.cancelUnready
        /\ y.out = {MsgOf("Run", w)}
    BY <2>1 DEF IsTrial, TrialFields, SeqKept, SameRun
  <2>3. SeqCore(y)
    BY <2>2, KeptCore
  <2> QED BY <1>1, <2>2, <2>3 DEF GoesOn, SeqKept, SameRun
<1>2. CASE ~x.pendingGracefulTermination /\ ~UpToDate(x)
  BY <1>1, <1>2, WorkloadGoesOn DEF sendNextWorkload, Legal
<1>3. CASE (x.pendingGracefulTermination \/ UpToDate(x)) /\ NeedsCheckpoint(x)
  BY <1>1, <1>3, WorkloadGoesOn DEF sendNextWorkload, Legal
<1>4. CASE (x.pendingGracefulTermination \/ UpToDate(x)) /\ ~NeedsCheckpoint(x)
  <2>1. PICK u : u = [x EXCEPT !.pendingGracefulTermination = TRUE]
    OBVIOUS
  <2>2. terminate(x, FALSE) = u
    BY <2>1 DEF terminate
  <2>3. PICK v : v = [u EXCEPT !.terminationSent = TRUE]
    OBVIOUS
  <2>4. y = Send(Send(v, MsgOf("Run", TERMINATE)), MsgOf("terminateTimeout", v.runID))
    BY <1>4, <2>2, <2>3 DEF sendNextWorkload
  <2>5. /\ IsTrial(v) /\ v.terminationSent = TRUE
        /\ \A f \in TrialFields \ {"terminationSent", "pendingGracefulTermination"} : v[f] = x[f]
    BY <2>1, <2>3 DEF IsTrial, TrialFields
  <2>6. y = [v EXCEPT !.out = (@ \cup {MsgOf("Run", TERMINATE)})
                                  \cup {MsgOf("terminateTimeout", v.runID)}]
    BY <2>4, <2>5 DEF Send, IsTrial, TrialFields
  <2>7. /\ y.out = (v.out \cup {MsgOf("Run", TERMINATE)}) \cup {MsgOf("terminateTimeout", v.runID)}
        /\ \A f \in TrialFields \ {"out"} : y[f] = v[f]
    BY <2>5, <2>6 DEF IsTrial, TrialFields
  <2>8. /\ y.ops = x.ops /\ y.state = x.state /\ y.snapshot = x.snapshot
        /\ y.earlyExit = x.earlyExit /\ y.idSet = x.idSet /\ y.cancelUnready = x.cancelUnready
        /\ y.killed = x.killed /\ y.restarts = x.restarts /\ y.runID = x.runID
        /\ y.allocations = x.allocations /\ y.containerRanks = x.containerRanks
        /\ y.terminatedContainers = x.terminatedContainers /\ y.status = x.status
        /\ v.out = x.out /\ v.runID = x.runID /\ y.terminationSent = TRUE
    BY <2>5, <2>7 DEF TrialFields
  <2>9. x.state.batchesSinceLastCkpt = 0
    BY <1>4 DEF NeedsCheckpoint, Sequencer!PrecloseCheckpointNeeded, SeqCore
  <2>10. SeqCore(y)
    BY <2>8, <2>9 DEF SeqCore, Settled
  <2>11. y.out = {MsgOf("Run", TERMINATE), MsgOf("terminateTimeout", x.runID)}
    BY <2>7, <2>8
  <2> QED BY <2>8, <2>10, <2>11 DEF GoesOn
<1> QED BY <1>2, <1>3, <1>4

\* The messages of a run that goes on.
LEMMA GoesOnOrders ==
    ASSUME NEW x, NEW y, GoesOn(x, y)
    PROVE  AtMostOne(Written(y)) /\ \A m \in y.out : OrderOK(y, m)
<1>1. PICK w :
          \/ y.out = {MsgOf("Run", w)} /\ Legal(x, w) /\ w # TERMINATE /\ ~y.terminationSent
          \/ /\ y.out = {MsgOf("Run", TERMINATE), MsgOf("terminateTimeout", x.runID)}
             /\ y.terminationSent
  BY DEF GoesOn
<1>2. CASE y.out = {MsgOf("Run", w)} /\ Legal(x, w) /\ w # TERMINATE /\ ~y.terminationSent
  <2>1. Legal(y, w)
    BY <1>2, SameWorkloads DEF GoesOn
  <2>2. \A m \in y.out : m.type = "Run" /\ m.of = w
    BY <1>2, MsgType
  <2> QED BY <1>2, <2>1, <2>2 DEF Written, AtMostOne, OrderOK
<1>3. CASE /\ y.out = {MsgOf("Run", TERMINATE), MsgOf("terminateTimeout", x.runID)}
           /\ y.terminationSent
  <2>1. \A m \in y.out : m = MsgOf("Run", TERMINATE) \/ m.type = "terminateTimeout"
    BY <1>3, MsgType
  <2>2. \A m \in Written(y) : m = MsgOf("Run", TERMINATE)
    BY <2>1 DEF Written
  <2>3. AtMostOne(Written(y))
    BY <2>2 DEF AtMostOne
  <2>4. \A m \in y.out : OrderOK(y, m)
    BY <1>3, <2>1, MsgType DEF OrderOK
  <2> QED BY <2>3, <2>4
<1> QED BY <1>1, <1>2, <1>3

LEMMA SendNextSound ==
    ASSUME IInv, WInv, t.status = "up", inbox # <<>>, Now.type = "sendNextWorkload",
           Now.of = t.runID, NEW y, y = sendNextWorkload(t)
    PROVE  Sound(y)
<1>1. IsTrial(t) /\ t.out = {} /\ SeqCore(t)
  BY DEF IInv, RunOK, WInv
<1>2. ~t.terminationSent /\ t.allocations # {} /\ t.containerRanks # {}
  BY Resynced
<1>3. GoesOn(t, y)
  BY <1>1, <1>2, SendNextGoesOn
<1>4. AtMostOne(Written(y)) /\ \A m \in y.out : OrderOK(y, m)
  BY <1>3, GoesOnOrders
<1>5. Counts(y)
  BY <1>3, SameWorkloads DEF Counts, GoesOn
<1>6. Waiting(y) /\ Taken
  BY <1>2, <1>3 DEF GoesOn, Waiting, Taken
<1> QED BY <1>2, <1>3, <1>4, <1>5, <1>6 DEF Sound, Post, GoesOn

LEMMA CompletedSound ==
    ASSUME IInv, WInv, t.status = "up", inbox # <<>>, Now.type = "Completed",
           Now.from \notin t.deadChildren, NEW isBest,
           NEW v, v = processCompletedWorkload(t, Now, isBest)
    PROVE  Sound(v)
<1>1. /\ IsTrial(t) /\ t.out = {} /\ SeqCore(t) /\ RunOK(t)
      /\ t.ops \in Seq(OpType) /\ t.earlyExit \in BOOLEAN
      /\ StateOK(t.ops, t.earlyExit, t.state) /\ StateOK(t.ops, t.earlyExit, t.snapshot)
      /\ t.snapshot.batchesSinceLastCkpt = 0
  BY DEF IInv, RunOK, WInv, SeqCore
<1>2. /\ ~Over(t, Lead(t)) /\ Legal(t, Now.of) /\ Now.reason \in ExitReasons /\ ~t.terminationSent
      /\ t.allocations # {} /\ t.containerRanks # {}
  BY FromLeader
<1>3. PICK y : y = RecordCompleted(t, Now.of, Now.reason, isBest)
  OBVIOUS
<1>4. Counted(t, Now.of, Now.reason, y)
  <2>1. Fits(t, t.state, Now.of)
    BY <1>1, <1>2, LegalFits
  <2> QED BY <1>1, <1>3, <2>1, RecordCompletedOK
<1>5. Keeps(t, y) /\ y.out = {}
  BY <1>1, <1>3, RecordCompletedKeeps DEF Sends
<1>6. /\ y.terminationSent = t.terminationSent /\ y.cancelUnready = t.cancelUnready
      /\ y.ops = t.ops /\ y.idSet = t.idSet /\ y.status = "up"
      /\ y.containerRanks = t.containerRanks /\ y.allocations = t.allocations
      /\ y.terminatedContainers = t.terminatedContainers /\ y.runID = t.runID
  BY <1>4 DEF Counted, TrialFields
<1>7. SeqCore(y)
  <2>1. ASSUME NEW c \in DOMAIN y.terminatedContainers, IsLeader(c)
        PROVE  FALSE
    <3>1. c \in t.containerRanks /\ c \in DOMAIN t.terminatedContainers
      BY <1>1, <1>6, <2>1 DEF RunOK
    <3> QED BY <1>1, <1>2, <2>1, <3>1, LeaderOfRun DEF Over
  <2> QED BY <1>1, <1>2, <1>4, <1>6, <2>1 DEF Counted, SeqCore
<1>8. ~Illegal(t, Now.of)
  BY <1>2 DEF Illegal, Legal, PrecloseCheckpoint, Sequencer!checkpoint
<1>9. y.state.totalBatchesProcessed = t.state.totalBatchesProcessed + Now.of.NumBatches
  BY <1>2, <1>4, TrialAssumption DEF Counted
<1>10. IsTrial(y)
  BY <1>5 DEF Keeps
<1>11. CASE v = Send(y, MsgOf("sendNextWorkload", y.runID))
  <2>1. v = [y EXCEPT !.out = @ \cup {MsgOf("sendNextWorkload", y.runID)}]
    BY <1>11 DEF Send
  <2>2. /\ SeqKept(y, v) /\ SameRun(y, v) /\ v.status = y.status
        /\ v.cancelUnready = y.cancelUnready
        /\ v.out = {MsgOf("sendNextWorkload", y.runID)}
    BY <1>5, <1>10, <2>1 DEF IsTrial, TrialFields, SeqKept, SameRun
  <2>3. SeqCore(v)
    BY <1>7, <2>2, KeptCore
  <2>4. \A m \in v.out : m = MsgOf("sendNextWorkload", y.runID) /\ m.type = "sendNextWorkload"
    BY <2>2, MsgType
  <2>5. ~v.terminationSent
    BY <1>2, <1>6, <2>2 DEF SeqKept
  <2>6. AtMostOne(Written(v)) /\ \A m \in v.out : OrderOK(v, m)
    BY <2>4, <2>5 DEF Written, AtMostOne, OrderOK
  <2>7. Counts(v)
    BY <1>9, <2>2 DEF Counts, SeqKept
  <2>8. Waiting(v) /\ v.runID = t.runID /\ v.allocations # {} /\ v.ops = t.ops
    BY <1>2, <1>6, <2>2 DEF Waiting, SameRun, SeqKept
  <2> QED BY <1>6, <2>2, <2>3, <2>5, <2>6, <2>7, <2>8 DEF Sound, Post, Taken
<1>12. CASE v = sendNextWorkload(y)
  <2>1. GoesOn(y, v)
    BY <1>2, <1>5, <1>6, <1>7, <1>10, <1>12, SendNextGoesOn
  <2>2. AtMostOne(Written(v)) /\ \A m \in v.out : OrderOK(v, m)
    BY <2>1, GoesOnOrders
  <2>3. Counts(v)
    BY <1>9, <2>1 DEF Counts, GoesOn
  <2>4. Waiting(v)
    BY <1>2, <1>6, <2>1 DEF GoesOn, Waiting
  <2> QED BY <1>2, <1>6, <2>1, <2>2, <2>3, <2>4 DEF Sound, Post, GoesOn, Taken
<1> QED BY <1>3, <1>8, <1>11, <1>12 DEF processCompletedWorkload

(***************************************************************************)
(* Exits and allocations.                                                  *)
(***************************************************************************)
LEMMA ExitSound ==
    ASSUME IInv, WInv, t.status = "up", inbox # <<>>, Now.type = "StateChanged",
           Now.of # "running", NEW v, v = processContainerTerminated(t, Now.from, Now.of)
    PROVE  Sound(v)
<1>1. IsTrial(t) /\ t.out = {} /\ SeqCore(t) /\ RunOK(t) /\ t.restarts \in Nat
  BY TrialAssumption DEF IInv, RunOK, WInv
<1>2. PICK c : c = Now.from
  OBVIOUS
<1>3. c \in t.containerRanks /\ t.containerRanks # {} /\ t.allocations # {}
  BY <1>1, <1>2, NowIsFirst DEF IInv, ReportsOK, Over, RunOK
<1>4. PICK e : e = TerminatedContainer(t, Now.of)
  OBVIOUS
<1>5. PICK w : w = [t EXCEPT !.startedContainers = @ \cup {c},
                             !.terminatedContainers = Put(@, c, e),
                             !.containers = @ \ {c}]
  OBVIOUS
<1>6. /\ IsTrial(w) /\ SeqKept(t, w) /\ w.out = {} /\ w.status = t.status /\ w.restarts = t.restarts
      /\ w.allocations = t.allocations /\ w.containerRanks = t.containerRanks
      /\ w.runID = t.runID /\ w.startedContainers # {}
      /\ w.terminatedContainers = Put(t.terminatedContainers, c, e)
  BY <1>1, <1>5 DEF IsTrial, TrialFields, SeqKept
<1>7. e.needsCheckpoint = NeedsCheckpoint(t)
  BY <1>4 DEF TerminatedContainer
<1>8. ASSUME NEW d \in DOMAIN w.terminatedContainers, IsLeader(d),
             ~w.terminatedContainers[d].needsCheckpoint
      PROVE  w.state.batchesSinceLastCkpt = 0
  <2>1. CASE d = c
    <3>1. w.terminatedContainers[d] = e
      BY <1>6, <2>1 DEF Put
    <3>2. ~NeedsCheckpoint(t) /\ t.idSet
      BY <1>1, <1>3, <1>7, <1>8, <3>1 DEF SeqCore
    <3> QED BY <1>6, <3>2 DEF NeedsCheckpoint, Sequencer!PrecloseCheckpointNeeded, SeqKept
  <2>2. CASE d # c
    <3>1. d \in DOMAIN t.terminatedContainers /\ w.terminatedContainers[d] = t.terminatedContainers[d]
      BY <1>6, <1>8, <2>2 DEF Put
    <3> QED BY <1>1, <1>6, <1>8, <3>1 DEF SeqCore, SeqKept
  <2> QED BY <2>1, <2>2
<1>9. SeqCore(w)
  BY <1>1, <1>3, <1>6, <1>8 DEF SeqCore, SeqKept
<1>10. PICK y : y = killAndRemoveSocket(w, c)
  OBVIOUS
<1>11. /\ IsTrial(y) /\ SeqKept(w, y) /\ SameRun(w, y) /\ y.out = {} /\ y.status = w.status
  BY <1>6, <1>10 DEF killAndRemoveSocket, IsTrial, TrialFields, SeqKept, SameRun
<1>12. SeqCore(y)
  BY <1>9, <1>11, KeptCore
<1>13. PICK z : z = IF c \notin t.containers \/ IsLeader(c) \/ Now.of = "fail"
                    THEN terminate(y, TRUE) ELSE y
  OBVIOUS
<1>14. /\ IsTrial(z) /\ SeqKept(y, z) /\ SameRun(y, z) /\ CalmlySends(y, z)
       /\ z.status \in {y.status, "panicked"}
  <2>1. CASE z = y
    BY <1>11, <2>1 DEF SeqKept, SameRun, CalmlySends
  <2>2. CASE z = terminate(y, TRUE)
    <3>1. y.restarts \in Nat /\ y.allocations # {}
      BY <1>1, <1>3, <1>6, <1>11 DEF SameRun
    <3>2. Calm(y, z) /\ CalmlySends(y, z) /\ z.status \in {y.status, "panicked"}
      BY <1>11, <1>12, <2>2, <3>1, TerminateCalm
    <3> QED BY <3>1, <3>2 DEF Calm, Keeps
  <2> QED BY <1>13, <2>1, <2>2
<1>15. SeqCore(z) /\ SeqKept(t, z)
  BY <1>6, <1>11, <1>12, <1>14, KeptCore, KeptTransitive
<1>16. /\ z.restarts = t.restarts /\ z.allocations = t.allocations /\ z.runID = t.runID
       /\ z.containerRanks = t.containerRanks /\ z.startedContainers # {}
       /\ z.status # "failed"
       /\ z.out \subseteq {Msg("Kill"), Msg("ResourcesReleased"), Msg("trialAborted")}
  BY <1>6, <1>11, <1>14 DEF SameRun, CalmlySends
<1>17. v = IF Cardinality(DOMAIN z.terminatedContainers) = Cardinality(z.allocations)
           THEN terminated(z) ELSE z
  BY <1>2, <1>4, <1>5, <1>10, <1>13 DEF processContainerTerminated
<1>18. CASE v = z
  <2>1. \A m \in v.out : m.type \in Tame
    BY <1>16, <1>18, MsgType DEF Tame
  <2>2. Waiting(v)
    BY <1>3, <1>16, <1>18 DEF Waiting
  <2> QED BY <1>15, <1>16, <1>18, <2>1, <2>2, KeptSound
<1>19. CASE v = terminated(z)
  <2>1. Ends(z, v) /\ Sends(z, v, {Msg("ResourcesReleased")})
    BY <1>14, <1>19, TerminatedEnds
  <2>2. /\ SeqCore(v) /\ ~v.terminationSent /\ v.cancelUnready = z.cancelUnready
        /\ v.ops = z.ops /\ v.status \in {z.status, "panicked"}
    BY <1>1, <1>3, <1>14, <1>15, <1>16, <1>19, TerminatedCore
  <2>3. \A m \in v.out : m.type \in Tame
    BY <1>16, <2>1, MsgType DEF Tame, Sends
  <2>4. Written(v) = {} /\ AtMostOne(Written(v)) /\ \A m \in v.out : OrderOK(v, m)
    BY <2>3, TameOrders
  <2>5. Waiting(v) /\ v.runID # t.runID
    BY <1>1, <1>16, <2>1 DEF Ends, Waiting, RunOK
  <2> QED BY <1>15, <1>16, <2>2, <2>4, <2>5 DEF Sound, Post, SeqKept
<1> QED BY <1>17, <1>18, <1>19

LEMMA AllocatedSound ==
    ASSUME IInv, WInv, t.status = "up", t.task # 0, inbox # <<>>, Now.type = "ResourcesAllocated",
           NEW saved, NEW v, v = processAllocated(t, Now.of, saved)
    PROVE  Sound(v)
<1>1. IsTrial(t) /\ t.out = {} /\ SeqCore(t) /\ RunOK(t) /\ t.restarts \in Nat /\ Waiting(t)
  BY TrialAssumption DEF IInv, RunOK, WInv
<1>2. CASE Now.of # t.task
  BY <1>2, SignalSound DEF processAllocated
<1>3. CASE Now.of = t.task
  <2>1. t.allocations = {} /\ t.containerRanks = {} /\ t.restarts <= MaxRollbacks
    BY <1>1, <1>3, NowIsFirst, TrialAssumption DEF IInv, PlacedOK, RunOK
  <2>2. ~UpToDate(t) /\ ~t.earlyExit /\ ~t.killed
    BY <1>1, <2>1 DEF Waiting
  <2>3. t.cancelUnready \/ t.state.batchesSinceLastCkpt = 0
    BY <1>1, <2>1, <2>2, TrialAssumption DEF SeqCore, Settled
  <2>4. ~t.terminationSent
    <3>1. Lead(t) \notin DOMAIN boxes
      BY <2>1 DEF IInv, BoxesOK, Lead
    <3> QED BY <3>1 DEF WInv, LeadOK
  <2>5. DOMAIN t.terminatedContainers = {}
    BY <1>1, <2>1 DEF RunOK
  <2> DEFINE Got(x) ==
        /\ IsTrial(x) /\ x.ops = t.ops /\ x.earlyExit = t.earlyExit
        /\ x.cancelUnready = t.cancelUnready /\ x.terminationSent = t.terminationSent
        /\ x.status = t.status /\ x.runID = t.runID /\ x.task = t.task
        /\ x.allocations = Containers(t.task) /\ x.containerRanks = {}
        /\ x.terminatedContainers = t.terminatedContainers /\ x.out = {}
        /\ StateOK(t.ops, t.earlyExit, x.state) /\ StateOK(t.ops, t.earlyExit, x.snapshot)
        /\ x.snapshot.batchesSinceLastCkpt = 0
  <2>6. PICK y : y = [t EXCEPT !.allocations = Containers(t.task)]
    OBVIOUS
  <2>7. Got(y) /\ y.state = t.state /\ y.snapshot = t.snapshot
    BY <1>1, <2>1, <2>6 DEF IsTrial, TrialFields, SeqCore
  <2>8. PICK i : i = [y EXCEPT !.idSet = TRUE]
    OBVIOUS
  <2>9. Got(i) /\ i.state = t.state /\ i.snapshot = t.snapshot /\ i.idSet = TRUE
    BY <2>7, <2>8 DEF IsTrial, TrialFields
  <2>10. PICK q : q = Sequencer(i)!CompleteCachedCheckpoints(SequencerOf(i))
    OBVIOUS
  <2>11. Cached(i, t.earlyExit, SequencerOf(i), q)
    <3>1. PICK p : p = SequencerOf(i)
      OBVIOUS
    <3>2. p.state = t.state /\ p.snapshot = t.snapshot
      BY <2>9, <3>1 DEF SequencerOf
    <3>3. i.ops \in Seq(OpType) /\ t.earlyExit \in BOOLEAN /\ PairOK(i.ops, t.earlyExit, p)
      BY <1>1, <2>9, <3>2 DEF SeqCore, PairOK
    <3> QED BY <2>10, <3>1, <3>3, CompleteCachedOK
  <2>12. PICK r : r = [i EXCEPT !.state = q.state, !.snapshot = q.snapshot]
    OBVIOUS
  <2>13. r.state = q.state /\ r.snapshot = q.snapshot /\ r.idSet = TRUE /\ Got(r)
    BY <2>9, <2>11, <2>12 DEF IsTrial, TrialFields, Cached, PairOK
  <2>14. /\ t.state.batchesSinceLastCkpt = 0 => r.state.batchesSinceLastCkpt = 0
         /\ r.state.exitingEarly => t.state.exitingEarly
         /\ \/ r.state.curOpIdx = t.state.curOpIdx
            \/ /\ r.state.curOpIdx = t.state.curOpIdx + 1 /\ ~(t.state.curOpIdx = Len(t.ops))
               /\ t.ops[t.state.curOpIdx + 1].type = "Checkpoint"
    BY <2>9, <2>11, <2>13 DEF Cached, SequencerOf
  <2>15. \/ v = terminate(y, TRUE) \/ v = terminate(i, TRUE)
         \/ UpToDate(r) /\ v = [r EXCEPT !.status = "failed"]
         \/ /\ ~UpToDate(r)
            /\ v = Send([r EXCEPT !.containerRanks = Containers(t.task)],
                        MsgOf("Start", Workload(r)))
    BY <1>3, <2>6, <2>8, <2>10, <2>12 DEF processAllocated, WithSequencer
  <2>16. Containers(t.task) # {}
    BY ContainersOf
  <2>17. ASSUME NEW x, Got(x)
         PROVE  SeqCore(x)
    BY <1>1, <2>4, <2>5, <2>16, <2>17 DEF SeqCore
  <2>18. ASSUME NEW x, Got(x), v = terminate(x, TRUE)
         PROVE  Sound(v)
    <3>1. IsTrial(x) /\ x.allocations # {} /\ x.out = {} /\ x.status = "up"
      BY <2>16, <2>18
    <3>2. v = Send(x, Msg("Kill")) \/ v = x
      BY <2>18, <3>1 DEF terminate
    <3>3. /\ SeqKept(x, v) /\ SameRun(x, v) /\ v.status = x.status
          /\ v.cancelUnready = x.cancelUnready /\ v.out \subseteq {Msg("Kill")}
      BY <3>1, <3>2 DEF Send, IsTrial, TrialFields, SeqKept, SameRun
    <3>4. SeqCore(v)
      BY <2>17, <2>18, <3>3, KeptCore
    <3>5. \A m \in v.out : m.type \in Tame
      BY <3>3, MsgType DEF Tame
    <3>6. Written(v) = {} /\ AtMostOne(Written(v)) /\ \A m \in v.out : OrderOK(v, m)
      BY <3>5, TameOrders
    <3>7. Waiting(v) /\ v.ops = t.ops /\ v.cancelUnready = t.cancelUnready
             /\ ~v.terminationSent
      BY <2>4, <2>18, <3>1, <3>3 DEF Waiting, SameRun, SeqKept
    <3> QED BY <2>1, <3>1, <3>3, <3>4, <3>6, <3>7 DEF Sound, Post
  <2>19. CASE UpToDate(r) /\ v = [r EXCEPT !.status = "failed"]
    <3>1. v.status = "failed"
      BY <2>13, <2>19 DEF IsTrial, TrialFields
    <3>2. ~LastOK(t.ops)
      <4>1. ~(Len(t.ops) = t.state.curOpIdx) /\ ~t.state.exitingEarly
        BY <1>1, <2>2 DEF UpToDate, Sequencer!UpToDate, SeqCore, StateOK
      <4>2. Len(t.ops) = r.state.curOpIdx
        BY <2>13, <2>14, <2>19, <4>1 DEF UpToDate, Sequencer!UpToDate
      <4>3. t.ops[Len(t.ops)].type = "Checkpoint" /\ Len(t.ops) = t.state.curOpIdx + 1
        BY <2>14, <4>1, <4>2
      <4>4. t.state.curOpIdx \in Nat
        BY <1>1 DEF SeqCore, StateOK
      <4>5. t.ops # <<>>
        BY <4>3, <4>4
      <4> QED BY <4>3, <4>5 DEF LastOK
    <3> QED BY <3>1, <3>2 DEF Sound
  <2>20. CASE /\ ~UpToDate(r)
              /\ v = Send([r EXCEPT !.containerRanks = Containers(t.task)],
                          MsgOf("Start", Workload(r)))
    <3>1. PICK x : x = [r EXCEPT !.containerRanks = Containers(t.task)]
      OBVIOUS
    <3>2. /\ IsTrial(x) /\ x.out = {}
          /\ \A f \in TrialFields \ {"containerRanks"} : x[f] = r[f]
      BY <2>13, <3>1 DEF IsTrial, TrialFields
    <3>3. v = [x EXCEPT !.out = @ \cup {MsgOf("Start", Workload(r))}]
      BY <2>20, <3>1 DEF Send
    <3>4. v.out = {MsgOf("Start", Workload(r))} /\ \A f \in TrialFields \ {"out"} : v[f] = x[f]
      BY <3>2, <3>3 DEF IsTrial, TrialFields
    <3>5. /\ v.state = r.state /\ v.snapshot = r.snapshot /\ v.ops = r.ops
          /\ v.earlyExit = r.earlyExit /\ v.idSet = r.idSet /\ v.cancelUnready = r.cancelUnready
          /\ v.terminationSent = r.terminationSent /\ v.allocations = r.allocations
          /\ v.terminatedContainers = r.terminatedContainers /\ v.status = r.status
      BY <3>2, <3>4 DEF TrialFields
    <3>6. SeqCore(v)
      BY <1>1, <2>4, <2>5, <2>13, <2>16, <3>5 DEF SeqCore
    <3>7. Legal(v, Workload(r))
      BY <2>20, <3>5, SameWorkloads DEF Legal
    <3>8. \A m \in v.out : m.type = "Start" /\ m.of = Workload(r)
      BY <3>4, MsgType
    <3>9. Written(v) = {}
      BY <3>8 DEF Written
    <3>10. \A m \in v.out : OrderOK(v, m)
      BY <2>3, <2>4, <2>13, <2>14, <2>16, <3>5, <3>7, <3>8 DEF OrderOK
    <3>11. Waiting(v) /\ v.ops = t.ops /\ v.cancelUnready = t.cancelUnready
              /\ ~v.terminationSent /\ v.status = "up"
      BY <2>4, <2>13, <2>16, <3>5 DEF Waiting
    <3> QED BY <2>1, <3>6, <3>9, <3>10, <3>11 DEF Sound, Post, AtMostOne
  <2> HIDE DEF Got
  <2> QED BY <2>7, <2>9, <2>15, <2>18, <2>19, <2>20
<1> QED BY <1>2, <1>3

(***************************************************************************)
(* What follows every message.                                             *)
(***************************************************************************)
LEMMA PostExtends ==
    ASSUME NEW y, NEW z, Post(y), SeqKept(y, z), SeqCore(z), Waiting(z), z.runID = y.runID,
           z.allocations = y.allocations, z.containerSockets = y.containerSockets,
           \A m \in z.out : m \in y.out \/ m.type \in Tame
    PROVE  Post(z)
<1>1. (UpToDate(z) <=> UpToDate(y)) /\ \A w : Legal(y, w) => Legal(z, w)
  BY SameWorkloads DEF SeqKept
<1>2. ASSUME NEW m \in z.out
      PROVE  OrderOK(z, m)
  <2>1. CASE m \in y.out
    <3>1. OrderOK(y, m)
      BY <2>1 DEF Post
    <3> QED BY <1>1, <3>1 DEF OrderOK, SeqKept
  <2>2. CASE m.type \in Tame
    BY <2>2 DEF Tame, OrderOK
  <2> QED BY <1>2, <2>1, <2>2
<1>3. Written(z) \subseteq Written(y)
  BY DEF Written, Tame
<1>4. AtMostOne(Written(z)) /\ (Written(z) # {} => Written(y) # {})
  BY <1>3 DEF Post, AtMostOne
<1>5. Counts(y) => Counts(z)
  BY <1>1 DEF Counts, SeqKept
<1> QED BY <1>2, <1>4, <1>5 DEF Post, SeqKept

LEMMA HandlerRuns ==
    ASSUME RunOK(t), NEW y, HandlerOutcome(y)
    PROVE  IsTrial(y) /\ y.runID \in {t.runID, t.runID + 1} /\ y.restarts \in Nat
<1>1. t.restarts \in Nat
  BY TrialAssumption DEF RunOK
<1> QED BY <1>1 DEF HandlerOutcome, Outcome, Going, Requesting, Placing, EndingEmpty, Exiting,
                    EndingLast, Ending, SameTrial

LEMMA AfterSound ==
    ASSUME IInv, WInv, t.status = "up", NEW y, HandlerOutcome(y), Sound(y),
           NEW z, z = AfterMessage(y)
    PROVE  Sound(z)
<1>1. RunOK(t) /\ t.runID \in Nat
  BY DEF IInv, RunOK
<1>2. IsTrial(y) /\ y.runID \in {t.runID, t.runID + 1} /\ y.restarts \in Nat
  BY <1>1, HandlerRuns
<1>3. CASE y.status # "up"
  BY <1>3 DEF AfterMessage
<1>4. CASE y.status = "up" /\ z = y
  BY <1>4
<1>5. CASE y.status = "up" /\ z # y
  <2>1. Post(y) /\ SeqCore(y) /\ Waiting(y)
    BY <1>5 DEF Sound, Post
  <2>2. CASE y.task = 0 /\ trialClosing(y)
    <3>1. z = [y EXCEPT !.out = @ \cup {Msg("stop")}]
      BY <1>5, <2>2 DEF AfterMessage, Send
    <3>2. /\ Keeps(y, z) /\ SeqKept(y, z) /\ z.killed = y.killed /\ z.status = y.status
          /\ z.out = y.out \cup {Msg("stop")}
      BY <1>2, <3>1 DEF IsTrial, TrialFields, Keeps, SeqKept, SameRun, SameLinks, SameOrders, Ignored
    <3>3. SeqCore(z) /\ Waiting(z)
      BY <2>1, <3>2, KeptCore, StaysWaiting DEF Keeps
    <3>4. \A m \in z.out : m \in y.out \/ m.type \in Tame
      BY <3>2, MsgType DEF Tame
    <3>5. Post(z)
      BY <2>1, <3>2, <3>3, <3>4, PostExtends DEF Keeps, SameRun, SameLinks
    <3> QED BY <1>5, <3>2, <3>5 DEF Sound
  <2>3. CASE y.task = 0 /\ ~trialClosing(y)
    <3>1. /\ ~UpToDate(y)
          /\ z = [[y EXCEPT !.task = y.runID + 1] EXCEPT !.out = @ \cup {Msg("AllocateRequest")}]
      BY <1>5, <2>3 DEF AfterMessage, Send
    <3>2. /\ SeqKept(y, z) /\ z.killed = y.killed /\ z.status = y.status
          /\ z.runID = y.runID /\ z.restarts = y.restarts
          /\ z.allocations = y.allocations /\ z.containerRanks = y.containerRanks
          /\ z.terminatedContainers = y.terminatedContainers
          /\ z.containerSockets = y.containerSockets
          /\ z.out = y.out \cup {Msg("AllocateRequest")}
      BY <1>2, <3>1 DEF IsTrial, TrialFields, SeqKept
    <3>3. UpToDate(z) <=> UpToDate(y)
      BY <3>2, SameWorkloads DEF SeqKept
    <3>4. ~y.earlyExit /\ ~y.killed
      BY <2>3 DEF trialClosing
    <3>5. Waiting(z)
      BY <3>1, <3>2, <3>3, <3>4 DEF Waiting, SeqKept
    <3>6. SeqCore(z)
      <4>1. y.allocations = {} => Settled(z)
        BY <2>1, <3>2, SettledKept DEF SeqCore
      <4> QED BY <2>1, <3>2, <4>1 DEF SeqCore, SeqKept
    <3>7. \A m \in z.out : m \in y.out \/ m.type \in Tame
      BY <3>2, MsgType DEF Tame
    <3>8. Post(z)
      BY <2>1, <3>2, <3>5, <3>6, <3>7, PostExtends
    <3> QED BY <1>5, <3>2, <3>8 DEF Sound
  <2>4. CASE y.task # 0
    <3>1. z = releaseResource(y)
      BY <1>5, <2>4 DEF AfterMessage
    <3>2. Calm(y, z) /\ CalmlySends(y, z) /\ z.status \in {y.status, "panicked"}
      BY <1>2, <2>1, <3>1, ReleaseCalm
    <3>3. \A m \in z.out : m \in y.out \/ m.type \in Tame
      BY <3>2, CalmMessages DEF Tame
    <3>4. CASE y.allocations # {}
      <4>1. Keeps(y, z) /\ SeqKept(y, z)
        BY <3>2, <3>4 DEF Calm
      <4>2. /\ z.runID = y.runID /\ z.allocations = y.allocations
            /\ z.containerSockets = y.containerSockets
        BY <4>1 DEF Keeps, SameRun, SameLinks
      <4>3. SeqCore(z) /\ Waiting(z)
        BY <2>1, <3>4, <4>1, <4>2, KeptCore DEF Keeps, Waiting
      <4>4. Post(z)
        BY <2>1, <3>3, <4>1, <4>2, <4>3, PostExtends
      <4> QED BY <1>5, <3>2, <4>4 DEF Sound
    <3>5. CASE y.allocations = {}
      <4>1. /\ Ends(y, z) /\ SeqCore(z) /\ ~z.terminationSent
            /\ (y.cancelUnready => z.cancelUnready) /\ z.ops = y.ops
        BY <3>2, <3>5 DEF Calm
      <4>2. z.runID = y.runID + 1 /\ z.task = 0 /\ z.containerSockets = y.containerSockets
        BY <4>1 DEF Ends, SameLinks
      <4>3. z.runID # t.runID /\ Waiting(z)
        BY <1>1, <1>2, <4>2 DEF Waiting
      <4>4. Written(y) = {}
        BY <2>1, <3>5 DEF Post
      <4>5. Written(z) = {}
        BY <3>3, <4>4 DEF Written, Tame
      <4>6. ASSUME NEW m \in z.out
            PROVE  OrderOK(z, m)
        <5>1. CASE m \in y.out
          <6>1. OrderOK(y, m) /\ m.type \notin {"Run", "sendNextWorkload"}
            BY <2>1, <4>4, <5>1 DEF Post, Written
          <6> QED BY <3>5, <4>2, <6>1 DEF OrderOK
        <5>2. CASE m.type \in Tame
          BY <5>2 DEF Tame, OrderOK
        <5> QED BY <3>3, <4>6, <5>1, <5>2
      <4>7. Post(z)
        BY <2>1, <4>1, <4>3, <4>5, <4>6 DEF Post, AtMostOne
      <4> QED BY <1>5, <3>2, <4>7 DEF Sound
    <3> QED BY <3>4, <3>5
  <2> QED BY <2>2, <2>3, <2>4
<1> QED BY <1>3, <1>4, <1>5

\* What a handler makes of the trial is sound.
LEMMA ResultSound ==
    ASSUME IInv, WInv, t.status = "up", inbox # <<>>, NEW y, Result(y),
           Now.type = "Completed" => Now.from \notin t.deadChildren
    PROVE  Sound(y)
<1>1. CASE /\ Now.type \notin {"Completed", "Operations"}
           /\ y \in {t, releaseResource(t), terminate(t, TRUE),
                     terminate([t EXCEPT !.killed = TRUE], TRUE)}
  BY <1>1, SignalSound
<1>2. CASE \/ Now.type = "State" /\ y = [t EXCEPT !.experimentState = Now.of]
           \/ Now.type = "Close" /\ y = [t EXCEPT !.close = TRUE]
  BY <1>2, ToldSound
<1>3. CASE Now.type = "Operations" /\ y = [t EXCEPT !.ops = @ \o Now.of]
  BY <1>3, OperationsSound
<1>4. CASE \/ /\ t.task # 0 /\ Now.type = "containerConnected"
              /\ y = processContainerConnected(t, Now.from)
           \/ /\ t.task # 0 /\ Now.type = "StateChanged" /\ Now.of = "running"
              /\ y = processContainerRunning(t, Now.from)
  BY <1>4, NotedSound
<1>5. CASE /\ t.task # 0 /\ Now.type = "StateChanged" /\ Now.of # "running"
           /\ y = processContainerTerminated(t, Now.from, Now.of)
  BY <1>5, ExitSound
<1>6. CASE /\ t.task # 0 /\ Now.type = "ResourcesAllocated"
           /\ \E saved : y = processAllocated(t, Now.of, saved)
  BY <1>6, AllocatedSound
<1>7. CASE /\ Now.type = "Completed"
           /\ IF t.task # 0 THEN \E isBest : y = processCompletedWorkload(t, Now, isBest) ELSE y = t
  BY <1>7, CompletedSound, FromLeader
<1>8. CASE Now.type = "sendNextWorkload" /\ Now.of = t.runID /\ y = sendNextWorkload(t)
  BY <1>8, SendNextSound
<1> QED BY <1>1, <1>2, <1>3, <1>4, <1>5, <1>6, <1>7, <1>8 DEF Result

LEMMA ReceiveSound ==
    ASSUME IInv, WInv, Receive, ~ReceiveFromDeadChild, ~ReceiveStop
    PROVE  /\ t.status = "up" /\ inbox # <<>>
           /\ \E z : MessageOutcome(z) /\ Sound(z) /\ Effects(z)
           /\ Now.type \in {"Completed", "ChildFailed"} => Now.from \notin t.deadChildren
<1>1. /\ t.status = "up" /\ inbox # <<>>
      /\ Now.type \in {"Completed", "ChildFailed"} => Now.from \notin t.deadChildren
  BY ReceiveHandles
<1>2. PICK y : HandlerOutcome(y) /\ Result(y) /\ Handled(y)
  BY ReceiveHandles
<1>3. PICK z : z = AfterMessage(y) /\ Effects(z)
  BY <1>2 DEF Handled
<1>4. MessageOutcome(z)
  BY <1>1, <1>2, <1>3, AfterMessageOutcome DEF IInv
<1>5. Sound(y)
  BY <1>1, <1>2, ResultSound
<1>6. Sound(z)
  BY <1>1, <1>2, <1>3, <1>5, AfterSound
<1> QED BY <1>1, <1>3, <1>4, <1>6

(***************************************************************************)
(* What handling a message does to what is on its way.                     *)
(***************************************************************************)
\* q starts with p.
Starts(p, q) ==
    /\ IsSeq(q) /\ Len(p) \in Nat /\ Len(q) \in Nat /\ Len(p) <= Len(q)
    /\ \A i \in 1 .. Len(p) : q[i] = p[i]

\* p, and m after it unless a is empty.
LEMMA Joined ==
    ASSUME NEW p, IsSeq(p), NEW m, NEW a, a = <<>> \/ a = <<m>>, NEW q, q = p \o a
    PROVE  /\ Starts(p, q)
           /\ a = <<>> => q = p
           /\ a = <<m>> => Extends(p, m, q)
<1>1. p \in Seq({p[i] : i \in DOMAIN p}) /\ Len(p) \in Nat
  BY DEF IsSeq
<1>2. CASE a = <<>>
  <2>1. q = p
    BY <1>1, <1>2
  <2>2. a # <<m>>
    BY <1>2
  <2> QED BY <1>1, <1>2, <2>1, <2>2 DEF Starts
<1>3. CASE a = <<m>>
  <2>1. q = Append(p, m)
    BY <1>1, <1>3
  <2>2. Extends(p, m, q)
    BY <2>1, Appended
  <2>3. a # <<>>
    BY <1>3
  <2> QED BY <1>1, <1>3, <2>2, <2>3 DEF Extends, Starts
<1> QED BY <1>2, <1>3

\* All but the first message of the inbox stay.
LEMMA InboxShift ==
    ASSUME IsSeq(inbox), inbox # <<>>, NEW z, Effects(z), NEW i \in 1 .. Len(inbox), i # 1
    PROVE  i - 1 \in 1 .. Len(inbox') /\ inbox'[i - 1] = inbox[i]
<1>1. PICK p : p = Tail(inbox)
  OBVIOUS
<1>2. PICK a : a = (IF Sent(z, "trialAborted") # {} THEN <<Msg("trialAborted")>> ELSE <<>>)
  OBVIOUS
<1>3. PICK b : b = (IF Sent(z, "stop") # {} THEN <<Msg("stop")>> ELSE <<>>)
  OBVIOUS
<1>4. PICK q : q = p \o a
  OBVIOUS
<1>5. PICK r : r = q \o b /\ r = inbox'
  BY <1>1, <1>2, <1>3, <1>4 DEF Effects
<1>6. /\ IsSeq(p) /\ Len(p) = Len(inbox) - 1 /\ Len(inbox) \in Nat \ {0}
      /\ \A j \in 1 .. Len(p) : p[j] = inbox[j + 1]
  BY <1>1, Popped
<1>7. Starts(p, q)
  <2>1. a = <<>> \/ a = <<Msg("trialAborted")>>
    BY <1>2
  <2> QED BY <1>4, <1>6, <2>1, Joined
<1>8. Starts(q, r)
  <2>1. b = <<>> \/ b = <<Msg("stop")>>
    BY <1>3
  <2>2. IsSeq(q)
    BY <1>7 DEF Starts
  <2> QED BY <1>5, <2>1, <2>2, Joined
<1>9. i - 1 \in 1 .. Len(p) /\ (i - 1) + 1 = i
  BY <1>6
<1>10. i - 1 \in 1 .. Len(q) /\ i - 1 \in 1 .. Len(r)
  BY <1>6, <1>7, <1>8, <1>9 DEF Starts
<1> QED BY <1>5, <1>6, <1>7, <1>8, <1>9, <1>10 DEF Starts

\* S is T moved by one place.
Shifted(S, T) ==
    /\ \A i \in S : i \in Nat \ {0} /\ i + 1 \in T
    /\ \A i \in T : i \in Int /\ (i = 1 \/ i - 1 \in S)

LEMMA ShiftedOne ==
    ASSUME NEW S, NEW T, Shifted(S, T), AtMostOne(T)
    PROVE  AtMostOne(S) /\ (T = {} => S = {}) /\ (1 \in T => S = {})
                /\ (1 \notin T /\ S = {} => T = {})
<1>1. ASSUME NEW i \in S, NEW j \in S PROVE i = j
  <2>1. i \in Int /\ j \in Int /\ i + 1 \in T /\ j + 1 \in T
    BY DEF Shifted
  <2>2. i + 1 = j + 1
    BY <2>1 DEF AtMostOne
  <2> QED BY <2>1, <2>2
<1> QED
  <2>1. AtMostOne(S)
    BY <1>1 DEF AtMostOne
  <2>2. T = {} => S = {}
    BY DEF Shifted
  <2>3. ASSUME 1 \in T, NEW i \in S PROVE FALSE
    <3>1. i \in Nat \ {0} /\ i + 1 \in T
      BY DEF Shifted
    <3>2. i + 1 = 1
      BY <2>3, <3>1 DEF AtMostOne
    <3> QED BY <3>1, <3>2
  <2> QED BY <2>1, <2>2, <2>3 DEF Shifted

LEMMA EffectsTokens ==
    ASSUME IInv, inbox # <<>>, NEW z, Effects(z), NEW c, NEW r
    PROVE  /\ Shifted(Completions(inbox', c), Completions(inbox, c))
           /\ Shifted(Resyncs(inbox', r), Resyncs(inbox, r))
           /\ \A i \in Completions(inbox', c) \cup Resyncs(inbox', r) : inbox'[i] = inbox[i + 1]
<1>1. IsSeq(inbox) /\ Len(inbox) \in Nat
  BY NowIsFirst DEF IInv
<1>2. \A i \in 1 .. Len(inbox') : inbox'[i].type \in {"Completed", "sendNextWorkload"} =>
         i \in Nat \ {0} /\ i + 1 \in 1 .. Len(inbox) /\ inbox'[i] = inbox[i + 1]
  BY InboxKept
<1>3. \A i \in 1 .. Len(inbox) : i \in Int /\
         (i = 1 \/ (i - 1 \in 1 .. Len(inbox') /\ inbox'[i - 1] = inbox[i]))
  BY <1>1, InboxShift
<1>4. Shifted(Completions(inbox', c), Completions(inbox, c))
  BY <1>2, <1>3 DEF Completions, Shifted
<1>5. Shifted(Resyncs(inbox', r), Resyncs(inbox, r))
  BY <1>2, <1>3 DEF Resyncs, Shifted
<1>6. \A i \in Completions(inbox', c) \cup Resyncs(inbox', r) : inbox'[i] = inbox[i + 1]
  BY <1>2 DEF Completions, Resyncs
<1> QED BY <1>4, <1>5, <1>6

LEMMA EffectsEchoes ==
    ASSUME IsSeq(echoes), NEW z, AtMostOne(Written(z)), Effects(z)
    PROVE  \/ Sent(z, "sendNextWorkload") = {} /\ echoes' = echoes
           \/ Sent(z, "sendNextWorkload") # {} /\ Extends(echoes, z.runID, echoes')
<1>1. PICK S : S = Sent(z, "sendNextWorkload")
  OBVIOUS
<1>2. PICK s : s = [i \in 1 .. Cardinality(S) |-> z.runID] /\ echoes' = echoes \o s
  BY <1>1 DEF Effects
<1>3. CASE S = {}
  <2>1. Cardinality(S) = 0
    BY <1>3, FS_EmptySet
  <2>2. s = <<>>
    BY <1>2, <2>1
  <2> QED BY <1>1, <1>2, <1>3, <2>2, Joined
<1>4. CASE S # {}
  <2>1. PICK m : m \in S
    BY <1>4
  <2>2. S \subseteq Written(z)
    BY <1>1 DEF Sent, Written
  <2>3. S = {m}
    BY <2>1, <2>2 DEF AtMostOne
  <2>4. Cardinality(S) = 1
    BY <2>3, FS_Singleton
  <2>5. s = <<z.runID>>
    <3>1. s = [i \in 1 .. 1 |-> z.runID]
      BY <1>2, <2>4
    <3> QED BY <3>1
  <2> QED BY <1>1, <1>2, <1>4, <2>5, Joined
<1> QED BY <1>3, <1>4

\* A container that exists, after a message: what is written to it is added to
\* its jobs, and what a dead websocket actor did not relay is gone.
BoxStep(z, c, b, d) ==
    /\ d.st = b.st /\ d.model = b.model
    /\ d.done = IF c \in z.deadChildren THEN <<>> ELSE b.done
    /\ d.ready => b.ready \/ \E m \in z.out : m.type = "Rendezvous" /\ c \in m.of
    /\ \/ d.jobs = b.jobs
       \/ \E m \in z.out : /\ m.type = "Run" /\ (IsLeader(c) \/ m.of = TERMINATE)
                           /\ Extends(b.jobs, m.of, d.jobs)

LEMMA EffectsBox ==
    ASSUME IInv, NEW z, Outcome(z), Effects(z), NEW c \in DOMAIN boxes, IsSeq(boxes[c].jobs)
    PROVE  BoxStep(z, c, boxes[c], boxes'[c])
<1>1. PICK b : b = boxes[c] /\ DOMAIN b = BoxFields
  BY DEF IInv, BoxesOK, BoxOK
<1>2. PICK d : d = boxes'[c] /\ d = BoxAfter(z, c, b)
  BY <1>1, EffectsBoxes
<1> DEFINE written == {m.of : m \in Sent(z, "Run")}
           gets    == {w \in written : IsLeader(c) \/ w = TERMINATE}
           w       == CHOOSE w \in gets : TRUE
<1>3. /\ d.st = b.st /\ d.model = b.model
      /\ d.done = IF c \in z.deadChildren THEN <<>> ELSE b.done
      /\ d.ready = (b.st # "exited" /\ (b.ready \/ \E m \in Sent(z, "Rendezvous") : c \in m.of))
  BY <1>1, <1>2 DEF BoxAfter, BoxFields
<1>4. d.jobs = b.jobs \/ (gets # {} /\ d.jobs = Append(b.jobs, w))
  BY <1>1, <1>2 DEF BoxAfter, BoxFields
<1>5. d.ready => b.ready \/ \E m \in z.out : m.type = "Rendezvous" /\ c \in m.of
  BY <1>3 DEF Sent
<1>6. ASSUME gets # {}, d.jobs = Append(b.jobs, w)
      PROVE  \E m \in z.out : /\ m.type = "Run" /\ (IsLeader(c) \/ m.of = TERMINATE)
                              /\ Extends(b.jobs, m.of, d.jobs)
  <2>1. PICK v : v = w
    OBVIOUS
  <2>2. v \in gets
    BY <1>6, <2>1
  <2>3. PICK m \in z.out : m.type = "Run" /\ m.of = v /\ (IsLeader(c) \/ v = TERMINATE)
    BY <2>2 DEF Sent
  <2>4. Extends(b.jobs, v, d.jobs)
    BY <1>1, <1>6, <2>1, Appended
  <2> QED BY <2>3, <2>4
<1> QED BY <1>1, <1>2, <1>3, <1>4, <1>5, <1>6 DEF BoxStep

\* A container that starts has the message that started it.
LEMMA EffectsNewBox ==
    ASSUME IInv, NEW z, Outcome(z), Effects(z), NEW c \in DOMAIN boxes' \ DOMAIN boxes
    PROVE  /\ Placing(t, z) /\ c \in z.containerRanks
           /\ \E m \in z.out : m.type = "Start" /\ boxes'[c] = NewBox(z, c, m.of)
<1> DEFINE starts == Sent(z, "Start")
           fresh  == IF starts = {} THEN {} ELSE z.containerRanks
           m      == CHOOSE m \in starts : TRUE
<1>1. boxes' = [d \in DOMAIN boxes \cup fresh |->
                    IF d \in DOMAIN boxes THEN BoxAfter(z, d, boxes[d]) ELSE NewBox(z, d, m.of)]
  BY DEF Effects
<1>2. starts # {} /\ boxes'[c] = NewBox(z, c, m.of)
  BY <1>1
<1>3. m \in starts
  BY <1>2
<1>4. m \in z.out /\ m.type = "Start"
  BY <1>3 DEF Sent
<1> HIDE DEF m, starts, fresh
<1> QED BY <1>2, <1>4, EffectsBoxes

\* What is over stays over.
LEMMA OverStable ==
    ASSUME IInv, NEW z, Outcome(z), NEW c \in DOMAIN boxes, Over(t, c)
    PROVE  Over(z, c)
<1>1. RunOK(t) /\ (c[1] = t.runID + 1 => c \in t.containerRanks)
  BY DEF IInv, BoxesOK
<1>2. CASE Going(t, z)
  BY <1>2 DEF Going, Over
<1>3. CASE Requesting(t, z) \/ EndingEmpty(t, z) \/ EndingLast(t, z, Now.from)
  BY <1>3 DEF Requesting, EndingEmpty, EndingLast, Ending, Over
<1>4. CASE Placing(t, z)
  <2>1. c \notin t.containerRanks
    BY <1>1, <1>4 DEF RunOK, Placing
  <2>2. z.containerRanks \subseteq Containers(t.runID + 1)
    BY <1>1, <1>4 DEF Placing, RunOK
  <2> QED BY <1>1, <2>1, <2>2, ContainersOf DEF Over
<1>5. CASE Exiting(t, z, Now.from)
  BY <1>5 DEF Exiting, Over
<1> QED BY <1>2, <1>3, <1>4, <1>5 DEF Outcome

\* A websocket actor is killed with the exit of its container.
LEMMA DeadOver ==
    ASSUME IInv, WInv, t.status = "up", inbox # <<>>, NEW z, Outcome(z), NEW c \in z.deadChildren
    PROVE  c \in DOMAIN boxes /\ Over(z, c)
<1>1. 1 \in 1 .. Len(inbox) /\ Now = inbox[1]
  BY NowIsFirst DEF IInv
<1>2. CASE c \in t.deadChildren
  <2>1. c \in DOMAIN boxes /\ Over(t, c)
    BY <1>2 DEF WInv, PendingOK
  <2> QED BY <2>1, OverStable
<1>3. CASE c \notin t.deadChildren
  <2>1. /\ c = Now.from /\ Now.type = "StateChanged"
        /\ Exiting(t, z, c) \/ EndingLast(t, z, c)
    BY <1>3 DEF Outcome, Going, Requesting, Placing, EndingEmpty, Exiting, EndingLast
  <2>2. c \in DOMAIN boxes
    BY <1>1, <2>1 DEF IInv, ReportsOK
  <2> QED BY <2>1, <2>2 DEF Exiting, EndingLast, Ending, Over
<1> QED BY <1>2, <1>3

(***************************************************************************)
(* The workload in flight, after a message.                                *)
(***************************************************************************)
LEMMA NothingIn ==
    ASSUME NEW s, IsSeq(s)
    PROVE  (s = <<>> <=> 1 .. Len(s) = {}) /\ Len(s) \in Nat
<1>1. s \in Seq({s[i] : i \in DOMAIN s}) /\ Len(s) \in Nat
  BY DEF IsSeq
<1>2. Len(s) = 0 <=> 1 .. Len(s) = {}
  <2>1. \A n \in Nat : n = 0 <=> 1 .. n = {}
    OBVIOUS
  <2> QED BY <1>1, <2>1
<1>3. Len(s) = 0 <=> s = <<>>
  BY <1>1
<1> QED BY <1>1, <1>2, <1>3

LEMMA ExtendedNothing ==
    ASSUME NEW m, NEW q, Extends(<<>>, m, q)
    PROVE  \A i \in 1 .. Len(q) : i = 1 /\ q[i] = m
<1>1. Len(<<>>) = 0
  OBVIOUS
<1>2. Len(q) = 1 /\ q[1] = m
  BY <1>1 DEF Extends
<1> QED BY <1>2

\* The workload is taken from the inbox, and another one may be written.
LEMMA TakenStep ==
    ASSUME IInv, WInv, t.status = "up", inbox # <<>>, NEW z, Outcome(z), Post(z), Effects(z),
           z.runID = t.runID, Lead(t) \in DOMAIN boxes, t.containerRanks # {}, Taken,
           Now.type = "Completed" => Now.from = Lead(t)
    PROVE  LeadOK(z, boxes', inbox', echoes')
<1>1. PICK l : l = Lead(t) /\ l = Lead(z) /\ l \in DOMAIN boxes /\ l \in DOMAIN boxes'
  BY EffectsBoxes DEF Lead
<1>2. PICK b : b = boxes[l]
  OBVIOUS
<1>3. PICK d : d = boxes'[l]
  OBVIOUS
<1>4. PICK C : C = Completions(inbox, l)
  OBVIOUS
<1>5. PICK R : R = Resyncs(inbox, t.runID)
  OBVIOUS
<1>6. PICK C2 : C2 = Completions(inbox', l)
  OBVIOUS
<1>7. PICK R2 : R2 = Resyncs(inbox', t.runID)
  OBVIOUS
<1>8. PICK E : E = Asked(echoes, t.runID)
  OBVIOUS
<1>9. PICK E2 : E2 = Asked(echoes', t.runID)
  OBVIOUS
<1>10. /\ InOrder(t, b, inbox, l, C, R, E) /\ InStep(t, b, inbox, C)
       /\ IsSeq(b.jobs) /\ IsSeq(b.done) /\ IsSeq(echoes)
  BY <1>1, <1>2, <1>4, <1>5, <1>8 DEF WInv, LeadOK, PendingOK, BoxPending
<1>11. BoxStep(z, l, b, d)
  BY <1>1, <1>2, <1>3, <1>10, EffectsBox
<1>12. Shifted(C2, C) /\ Shifted(R2, R)
  BY <1>4, <1>5, <1>6, <1>7, EffectsTokens
<1>13. 1 \in 1 .. Len(inbox) /\ Now = inbox[1]
  BY NowIsFirst DEF IInv
<1>14. 1 \in C \/ 1 \in R
  BY <1>1, <1>4, <1>5, <1>13 DEF Taken, Completions, Resyncs
<1>15. Exclusive(1 .. Len(b.jobs), 1 .. Len(b.done), C, R, E)
  BY <1>10 DEF InOrder
<1>16. /\ b.jobs = <<>> /\ b.done = <<>> /\ E = {} /\ AtMostOne(C) /\ AtMostOne(R)
       /\ (1 \in C => R = {}) /\ (1 \in R => C = {})
  BY <1>10, <1>14, <1>15, NothingIn DEF Exclusive
<1>17. C2 = {} /\ R2 = {}
  BY <1>12, <1>14, <1>16, ShiftedOne
<1>18. d.done = <<>> /\ d.st = b.st /\ d.model = b.model
  BY <1>11, <1>16 DEF BoxStep
<1>19. 1 .. Len(d.done) = {}
  BY <1>18, EmptyInbox
<1>20. AtMostOne(Written(z)) /\ \A m \in z.out : OrderOK(z, m)
  BY DEF Post
<1>21. \/ 1 .. Len(d.jobs) = {}
       \/ \E m \in Written(z) : m.type = "Run" /\ \A i \in 1 .. Len(d.jobs) : i = 1 /\ d.jobs[i] = m.of
  <2>1. CASE d.jobs = b.jobs
    BY <1>16, <2>1, EmptyInbox
  <2>2. CASE \E m \in z.out : m.type = "Run" /\ Extends(b.jobs, m.of, d.jobs)
    <3>1. PICK m \in z.out : m.type = "Run" /\ Extends(<<>>, m.of, d.jobs)
      BY <1>16, <2>2
    <3>2. m \in Written(z)
      BY <3>1 DEF Written
    <3>3. \A i \in 1 .. Len(d.jobs) : i = 1 /\ d.jobs[i] = m.of
      BY <3>1, ExtendedNothing
    <3> QED BY <3>1, <3>2, <3>3
  <2> QED BY <1>11, <2>1, <2>2 DEF BoxStep
<1>22. \/ E2 = {}
       \/ AtMostOne(E2) /\ \E m \in Written(z) : m.type = "sendNextWorkload"
  <2>1. CASE Sent(z, "sendNextWorkload") = {} /\ echoes' = echoes
    BY <1>8, <1>9, <1>16, <2>1
  <2>2. CASE Sent(z, "sendNextWorkload") # {} /\ Extends(echoes, z.runID, echoes')
    <3>1. \E m \in Written(z) : m.type = "sendNextWorkload"
      BY <2>2 DEF Sent, Written
    <3>2. \A i \in 1 .. Len(echoes') : i \in 1 .. Len(echoes) \/ i = Len(echoes) + 1
      BY <2>2 DEF Extends
    <3>3. \A i \in 1 .. Len(echoes) : echoes'[i] = echoes[i]
      BY <2>2 DEF Extends
    <3>4. \A i \in E2 : i = Len(echoes) + 1
      BY <1>8, <1>9, <1>16, <3>2, <3>3 DEF Asked
    <3> QED BY <3>1, <3>4 DEF AtMostOne
  <2> QED BY <1>10, <1>20, <2>1, <2>2, EffectsEchoes
<1>23. AtMostOne(1 .. Len(d.jobs)) /\ AtMostOne(E2) /\ (1 .. Len(d.jobs) # {} => E2 = {})
  BY <1>20, <1>21, <1>22 DEF AtMostOne
<1>24. Exclusive(1 .. Len(d.jobs), 1 .. Len(d.done), C2, R2, E2)
  BY <1>17, <1>19, <1>23 DEF Exclusive, AtMostOne
<1>25. \A i \in 1 .. Len(d.jobs) :
          /\ d.jobs[i] = TERMINATE \/ Legal(z, d.jobs[i])
          /\ z.terminationSent => d.jobs[i] = TERMINATE
  BY <1>20, <1>21 DEF OrderOK, Written
<1>26. z.terminationSent => E2 = {}
  BY <1>20, <1>22 DEF OrderOK, Written
<1>27. InOrder(z, d, inbox', l, C2, R2, E2)
  BY <1>17, <1>18, <1>19, <1>24, <1>25, <1>26 DEF InOrder
<1>28. ASSUME d.st # "exited", ~z.cancelUnready
       PROVE  d.model = z.state.totalBatchesProcessed
  <2>1. b.st # "exited" /\ ~t.cancelUnready /\ Counts(z)
    BY <1>18, <1>28 DEF Post
  <2>2. CASE 1 \in C
    <3>1. Now.type = "Completed"
      BY <1>4, <1>13, <2>2 DEF Completions
    <3>2. b.model = t.state.totalBatchesProcessed + Now.of.NumBatches
      BY <1>10, <1>13, <2>1, <2>2 DEF InStep
    <3> QED BY <1>18, <2>1, <3>1, <3>2 DEF Counts
  <2>3. CASE 1 \in R
    <3>1. Now.type # "Completed"
      BY <1>5, <1>13, <2>3 DEF Resyncs
    <3>2. b.model = t.state.totalBatchesProcessed
      BY <1>10, <1>16, <2>1, <2>3 DEF InStep
    <3> QED BY <1>18, <2>1, <3>1, <3>2 DEF Counts
  <2> QED BY <1>14, <2>2, <2>3
<1>29. InStep(z, d, inbox', C2)
  BY <1>17, <1>19, <1>28 DEF InStep
<1> QED BY <1>1, <1>3, <1>6, <1>7, <1>9, <1>27, <1>29 DEF LeadOK

\* Another message leaves it where it is.
LEMMA OtherStep ==
    ASSUME IInv, WInv, t.status = "up", inbox # <<>>, NEW z, Outcome(z), Post(z), Effects(z),
           z.runID = t.runID, Lead(t) \in DOMAIN boxes, t.containerRanks # {}, ~Taken
    PROVE  LeadOK(z, boxes', inbox', echoes')
<1>1. PICK l : l = Lead(t) /\ l = Lead(z) /\ l \in DOMAIN boxes /\ l \in DOMAIN boxes'
  BY EffectsBoxes DEF Lead
<1>2. PICK b : b = boxes[l]
  OBVIOUS
<1>3. PICK d : d = boxes'[l]
  OBVIOUS
<1>4. PICK C : C = Completions(inbox, l)
  OBVIOUS
<1>5. PICK R : R = Resyncs(inbox, t.runID)
  OBVIOUS
<1>6. PICK C2 : C2 = Completions(inbox', l)
  OBVIOUS
<1>7. PICK R2 : R2 = Resyncs(inbox', t.runID)
  OBVIOUS
<1>8. PICK E : E = Asked(echoes, t.runID)
  OBVIOUS
<1>9. /\ InOrder(t, b, inbox, l, C, R, E) /\ InStep(t, b, inbox, C)
      /\ IsSeq(b.jobs) /\ IsSeq(b.done) /\ IsSeq(echoes)
  BY <1>1, <1>2, <1>4, <1>5, <1>8 DEF WInv, LeadOK, PendingOK, BoxPending
<1>10. Written(z) = {} /\ Counts(z) /\ Now.type # "Completed"
  BY DEF Post, Taken
<1>11. BoxStep(z, l, b, d)
  BY <1>1, <1>2, <1>3, <1>9, EffectsBox
<1>12. d.jobs = b.jobs /\ d.st = b.st /\ d.model = b.model
          /\ d.done = IF l \in z.deadChildren THEN <<>> ELSE b.done
  BY <1>10, <1>11 DEF BoxStep, Written
<1>13. echoes' = echoes
  <2>1. Sent(z, "sendNextWorkload") = {} /\ AtMostOne(Written(z))
    BY <1>10 DEF Sent, Written, AtMostOne
  <2> QED BY <1>9, <2>1, EffectsEchoes
<1>14. /\ Shifted(C2, C) /\ Shifted(R2, R)
       /\ \A i \in C2 : inbox'[i] = inbox[i + 1]
  BY <1>4, <1>5, <1>6, <1>7, EffectsTokens
<1>15. 1 \notin C /\ 1 \notin R
  <2>1. 1 \in 1 .. Len(inbox) /\ Now = inbox[1]
    BY NowIsFirst DEF IInv
  <2> QED BY <1>4, <1>5, <2>1 DEF Taken, Completions, Resyncs
<1>16. Exclusive(1 .. Len(b.jobs), 1 .. Len(b.done), C, R, E)
  BY <1>9 DEF InOrder
<1>17. /\ AtMostOne(C2) /\ (C = {} <=> C2 = {})
       /\ AtMostOne(R2) /\ (R = {} <=> R2 = {})
  BY <1>14, <1>15, <1>16, ShiftedOne DEF Exclusive
<1>18. \A i \in 1 .. Len(d.done) : i \in 1 .. Len(b.done) /\ d.done[i] = b.done[i]
  BY <1>12, EmptyInbox
<1>19. AtMostOne(1 .. Len(d.done)) /\ (1 .. Len(d.done) # {} => 1 .. Len(b.done) # {})
  BY <1>16, <1>18 DEF Exclusive, AtMostOne
<1>20. Exclusive(1 .. Len(d.jobs), 1 .. Len(d.done), C2, R2, E)
  BY <1>12, <1>16, <1>17, <1>19 DEF Exclusive
<1>21. /\ \A w : Legal(t, w) => Legal(z, w)
       /\ z.state.totalBatchesProcessed = t.state.totalBatchesProcessed
  BY <1>10 DEF Counts
<1>22. \A i \in C2 : i + 1 \in C /\ inbox'[i] = inbox[i + 1]
  BY <1>14 DEF Shifted
<1>23. z.terminationSent => t.terminationSent
  BY DEF Post
<1>24. InOrder(z, d, inbox', l, C2, R2, E)
  <2>1. \A i \in 1 .. Len(d.jobs) : d.jobs[i] = TERMINATE \/ Legal(z, d.jobs[i])
    BY <1>9, <1>12, <1>21 DEF InOrder
  <2>2. \A i \in 1 .. Len(d.done) : Legal(z, d.done[i].of) /\ d.done[i].reason \in ExitReasons
    BY <1>9, <1>18, <1>21 DEF InOrder
  <2>3. \A i \in C2 : Legal(z, inbox'[i].of) /\ inbox'[i].reason \in ExitReasons
    BY <1>9, <1>21, <1>22 DEF InOrder
  <2>4. z.terminationSent =>
           /\ d.done = <<>> /\ C2 = {} /\ R2 = {} /\ E = {}
           /\ \A i \in 1 .. Len(d.jobs) : d.jobs[i] = TERMINATE
    BY <1>9, <1>12, <1>17, <1>23 DEF InOrder
  <2> QED BY <1>20, <2>1, <2>2, <2>3, <2>4 DEF InOrder
<1>25. InStep(z, d, inbox', C2)
  <2> SUFFICES ASSUME d.st # "exited", ~z.cancelUnready
               PROVE  /\ d.done = <<>> /\ C2 = {} => d.model = z.state.totalBatchesProcessed
                      /\ \A i \in 1 .. Len(d.done) :
                            d.model = z.state.totalBatchesProcessed + d.done[i].of.NumBatches
                      /\ \A i \in C2 : d.model = z.state.totalBatchesProcessed + inbox'[i].of.NumBatches
    BY DEF InStep
  <2>1. b.st # "exited" /\ ~t.cancelUnready
    BY <1>12 DEF Post
  <2>2. l \notin z.deadChildren
    <3> SUFFICES ASSUME l \in z.deadChildren PROVE FALSE
      OBVIOUS
    <3>1. Over(z, l)
      BY DeadOver
    <3>2. Over(t, l) \/ (Now.type = "StateChanged" /\ Now.of # "running" /\ Now.from = l)
      BY <1>1, <3>1, OverAfter
    <3>3. ~Over(t, l)
      BY <1>1, <1>2, <2>1 DEF IInv, ReportsOK
    <3>4. 1 \in 1 .. Len(inbox) /\ Now = inbox[1]
      BY NowIsFirst DEF IInv
    <3>5. Now.of \in {"running", "ok", "fail"} /\ (Now.of \in Exits => boxes[l].st = "exited")
      BY <3>2, <3>3, <3>4 DEF IInv, ReportsOK
    <3> QED BY <1>2, <2>1, <3>2, <3>3, <3>5 DEF Exits
  <2>3. d.done = b.done
    BY <1>12, <2>2
  <2> QED BY <1>9, <1>12, <1>17, <1>21, <1>22, <2>1, <2>3 DEF InStep
<1> QED BY <1>1, <1>3, <1>6, <1>7, <1>8, <1>13, <1>24, <1>25 DEF LeadOK

\* Completions are of containers that exist.
LEMMA NoCompletions ==
    ASSUME IInv, WInv, t.status = "up", inbox # <<>>, NEW z, Effects(z), NEW c, c \notin DOMAIN boxes
    PROVE  Completions(inbox', c) = {}
<1>1. \A i \in 1 .. Len(inbox) : inbox[i].type = "Completed" => inbox[i].from \in DOMAIN boxes
  BY DEF WInv, PendingOK, MsgPending
<1>2. Completions(inbox, c) = {}
  BY <1>1 DEF Completions
<1>3. Shifted(Completions(inbox', c), Completions(inbox, c))
  BY EffectsTokens
<1> QED BY <1>2, <1>3 DEF Shifted

\* Nothing of the next run exists when a run ends.
LEMMA NextRunStep ==
    ASSUME IInv, WInv, t.status = "up", inbox # <<>>, NEW z, Outcome(z), Post(z), Effects(z),
           z.runID # t.runID
    PROVE  LeadOK(z, boxes', inbox', echoes')
<1>1. Ending(t, z) /\ z.runID = t.runID + 1 /\ t.runID \in Nat
  BY DEF Outcome, Going, Requesting, Placing, EndingEmpty, EndingLast, Ending, Exiting, SameTrial,
         IInv, RunOK
<1>2. Lead(z) \notin DOMAIN boxes'
  <2>1. Lead(z) \notin DOMAIN boxes
    <3>1. \A c \in DOMAIN boxes : c[1] \in 1 .. t.runID + 1
      BY DEF IInv, BoxesOK
    <3>2. Lead(z)[1] = t.runID + 2
      BY <1>1 DEF Lead
    <3> QED BY <1>1, <3>1, <3>2
  <2>2. ~Placing(t, z)
    BY <1>1 DEF Placing, SameTrial
  <2> QED BY <2>1, <2>2, EffectsNewBox
<1>3. Completions(inbox', Lead(z)) = {}
  <2>1. Lead(z) \notin DOMAIN boxes
    BY <1>2, EffectsBoxes
  <2> QED BY <2>1, NoCompletions
<1>4. Resyncs(inbox', z.runID) = {}
  <2>1. \A i \in 1 .. Len(inbox) : inbox[i].type = "sendNextWorkload" => inbox[i].of \in 0 .. t.runID
    BY DEF WInv, PendingOK, MsgPending
  <2>2. Resyncs(inbox, z.runID) = {}
    BY <1>1, <2>1 DEF Resyncs
  <2>3. Shifted(Resyncs(inbox', z.runID), Resyncs(inbox, z.runID))
    BY EffectsTokens
  <2> QED BY <2>2, <2>3 DEF Shifted
<1>5. Asked(echoes', z.runID) = {}
  <2>1. Written(z) = {}
    BY <1>1 DEF Post
  <2>2. Sent(z, "sendNextWorkload") = {} /\ AtMostOne(Written(z)) /\ IsSeq(echoes)
    BY <2>1 DEF Sent, Written, AtMostOne, WInv
  <2>3. echoes' = echoes
    BY <2>2, EffectsEchoes
  <2>4. \A i \in 1 .. Len(echoes) : echoes[i] \in 0 .. t.runID
    BY DEF WInv, PendingOK
  <2> QED BY <1>1, <2>3, <2>4 DEF Asked
<1>6. ~z.terminationSent
  BY <1>1 DEF Post
<1> QED BY <1>2, <1>3, <1>4, <1>5, <1>6 DEF LeadOK

\* A run that has no containers yet has nothing on its way; its leader starts
\* with the workload that is due and the model of the latest checkpoint.
LEMMA NewRunStep ==
    ASSUME IInv, WInv, t.status = "up", inbox # <<>>, NEW z, Outcome(z), Post(z), Effects(z),
           z.runID = t.runID, Lead(t) \notin DOMAIN boxes,
           Now.type = "Completed" => Now.from \notin t.deadChildren
    PROVE  LeadOK(z, boxes', inbox', echoes')
<1>1. PICK l : l = Lead(t) /\ l = Lead(z) /\ l \notin DOMAIN boxes
  BY DEF Lead
<1>2. /\ Completions(inbox, l) = {} /\ Resyncs(inbox, t.runID) = {} /\ Asked(echoes, t.runID) = {}
      /\ ~t.terminationSent
  BY <1>1 DEF WInv, LeadOK
<1>3. ~Taken
  BY FromLeader, Resynced DEF Taken
<1>4. Written(z) = {} /\ ~z.terminationSent
  BY <1>2, <1>3 DEF Post
<1>5. echoes' = echoes
  <2>1. Sent(z, "sendNextWorkload") = {} /\ AtMostOne(Written(z)) /\ IsSeq(echoes)
    BY <1>4 DEF Sent, Written, AtMostOne, WInv
  <2> QED BY <2>1, EffectsEchoes
<1>6. /\ Completions(inbox', l) = {} /\ Resyncs(inbox', z.runID) = {}
      /\ Asked(echoes', z.runID) = {}
  <2>1. /\ Shifted(Completions(inbox', l), Completions(inbox, l))
        /\ Shifted(Resyncs(inbox', t.runID), Resyncs(inbox, t.runID))
    BY EffectsTokens
  <2> QED BY <1>2, <1>5, <2>1 DEF Shifted
<1>7. CASE l \notin DOMAIN boxes'
  BY <1>1, <1>4, <1>6, <1>7 DEF LeadOK
<1>8. CASE l \in DOMAIN boxes'
  <2>1. PICK m \in z.out : m.type = "Start" /\ boxes'[l] = NewBox(z, l, m.of)
    BY <1>1, <1>8, EffectsNewBox
  <2>2. PICK d : d = boxes'[l]
    OBVIOUS
  <2>3. /\ d.jobs = <<m.of>> /\ d.done = <<>>
        /\ d.model = z.state.latestCheckpoint.TotalBatchesProcessed
    BY <1>1, <2>1, <2>2 DEF NewBox, IsLeader, Lead
  <2>4. /\ Legal(z, m.of)
        /\ ~z.cancelUnready => z.state.batchesSinceLastCkpt = 0
    BY <2>1 DEF Post, OrderOK
  <2>5. \A i \in 1 .. Len(d.jobs) : i = 1 /\ d.jobs[i] = m.of
    <3>1. Len(d.jobs) = 1 /\ d.jobs[1] = m.of
      BY <2>3
    <3> QED BY <3>1
  <2>6. 1 .. Len(d.done) = {}
    BY <2>3, EmptyInbox
  <2>7. ~z.cancelUnready => d.model = z.state.totalBatchesProcessed
    <3>1. StateOK(z.ops, z.earlyExit, z.state)
      BY DEF Post, SeqCore
    <3> QED BY <2>3, <2>4, <3>1 DEF StateOK
  <2>8. Exclusive(1 .. Len(d.jobs), 1 .. Len(d.done), {}, {}, {})
    BY <2>5, <2>6 DEF Exclusive, AtMostOne
  <2>9. InOrder(z, d, inbox', l, {}, {}, {})
    BY <1>4, <2>4, <2>5, <2>6, <2>8 DEF InOrder
  <2>10. InStep(z, d, inbox', {})
    BY <2>6, <2>7 DEF InStep
  <2> QED BY <1>1, <1>6, <1>8, <2>2, <2>9, <2>10 DEF LeadOK
<1> QED BY <1>7, <1>8

LEMMA EffectsLead ==
    ASSUME IInv, WInv, t.status = "up", inbox # <<>>, NEW z, Outcome(z), Post(z), Effects(z),
           Now.type = "Completed" => Now.from \notin t.deadChildren
    PROVE  LeadOK(z, boxes', inbox', echoes')
<1>1. CASE z.runID # t.runID
  BY <1>1, NextRunStep
<1>2. CASE z.runID = t.runID /\ Lead(t) \notin DOMAIN boxes
  BY <1>2, NewRunStep
<1>3. CASE z.runID = t.runID /\ Lead(t) \in DOMAIN boxes
  <2>1. t.containerRanks # {}
    BY <1>3 DEF IInv, BoxesOK, Lead
  <2>2. Now.type = "Completed" => Now.from = Lead(t)
    BY FromLeader
  <2> QED BY <1>3, <2>1, <2>2, TakenStep, OtherStep
<1> QED BY <1>1, <1>2, <1>3

\* What is pending at a container, after a message.
LEMMA EffectsBoxPending ==
    ASSUME IInv, WInv, t.status = "up", inbox # <<>>, NEW z, Outcome(z), Post(z), Effects(z),
           NEW c \in DOMAIN boxes'
    PROVE  BoxPending(z, boxes'[c], inbox', c)
<1>1. CASE c \notin DOMAIN boxes
  <2>1. PICK m \in z.out : m.type = "Start" /\ boxes'[c] = NewBox(z, c, m.of)
    BY <1>1, EffectsNewBox
  <2>2. PICK d : d = boxes'[c]
    OBVIOUS
  <2>3. /\ d.done = <<>> /\ d.ready = FALSE
        /\ d.jobs = IF IsLeader(c) THEN <<m.of>> ELSE <<>>
    BY <2>1, <2>2 DEF NewBox
  <2>4. IsSeq(d.jobs) /\ IsSeq(d.done)
    <3>1. <<m.of>> \in Seq({m.of})
      OBVIOUS
    <3> QED BY <2>3, <3>1, SeqIsSeq, EmptyInbox
  <2>5. Completions(inbox', c) = {}
    BY <1>1, NoCompletions
  <2> QED BY <2>2, <2>3, <2>4, <2>5, EmptyInbox DEF BoxPending
<1>2. CASE c \in DOMAIN boxes
  <2>1. PICK b : b = boxes[c] /\ BoxPending(t, b, inbox, c)
    BY <1>2 DEF WInv, PendingOK
  <2>2. PICK d : d = boxes'[c]
    OBVIOUS
  <2>3. BoxStep(z, c, b, d)
    BY <1>2, <2>1, <2>2, EffectsBox DEF BoxPending
  <2>4. IsSeq(d.jobs) /\ (~IsLeader(c) => \A i \in 1 .. Len(d.jobs) : d.jobs[i] = TERMINATE)
    <3>1. CASE d.jobs = b.jobs
      BY <2>1, <3>1 DEF BoxPending
    <3>2. CASE \E m \in z.out : /\ m.type = "Run" /\ (IsLeader(c) \/ m.of = TERMINATE)
                                /\ Extends(b.jobs, m.of, d.jobs)
      <4>1. PICK m : (IsLeader(c) \/ m.of = TERMINATE) /\ Extends(b.jobs, m.of, d.jobs)
        BY <3>2
      <4>2. IsSeq(d.jobs) /\ \A i \in 1 .. Len(d.jobs) :
               (i \in 1 .. Len(b.jobs) /\ d.jobs[i] = b.jobs[i]) \/ d.jobs[i] = m.of
        BY <4>1 DEF Extends
      <4> QED BY <2>1, <4>1, <4>2 DEF BoxPending
    <3> QED BY <2>3, <3>1, <3>2 DEF BoxStep
  <2>5. d.done = b.done \/ d.done = <<>>
    BY <2>3 DEF BoxStep
  <2>6. IsSeq(d.done) /\ (~IsLeader(c) => d.done = <<>>)
    BY <2>1, <2>5, EmptyInbox DEF BoxPending
  <2>7. Completions(inbox', c) # {} => Completions(inbox, c) # {}
    <3>1. Shifted(Completions(inbox', c), Completions(inbox, c))
      BY EffectsTokens
    <3> QED BY <3>1 DEF Shifted
  <2>8. c \in t.containerSockets \cup t.deadChildren => c \in z.containerSockets \cup z.deadChildren
    BY EffectsLinks
  <2>9. d.ready => b.ready \/ c \in z.containerSockets
    BY <2>3 DEF BoxStep, Post, OrderOK
  <2>10. d.ready \/ d.done # <<>> \/ Completions(inbox', c) # {} =>
            c \in z.containerSockets \cup z.deadChildren
    BY <2>1, <2>5, <2>7, <2>8, <2>9 DEF BoxPending
  <2>11. ASSUME Over(z, c), c \notin z.deadChildren
         PROVE  d.done = <<>> /\ Completions(inbox', c) = {}
    <3>1. c \notin t.deadChildren
      BY <2>11, EffectsLinks
    <3>2. c \in t.containerSockets => Over(t, c)
      BY <1>2, <2>11, EffectsLinks
    <3>3. b.done = <<>> /\ Completions(inbox, c) = {}
      BY <2>1, <3>1, <3>2 DEF BoxPending
    <3> QED BY <2>5, <2>7, <3>3
  <2> QED BY <2>2, <2>4, <2>6, <2>10, <2>11 DEF BoxPending
<1> QED BY <1>1, <1>2

LEMMA EffectsPending ==
    ASSUME IInv, WInv, t.status = "up", inbox # <<>>, NEW z, Outcome(z), Post(z), Effects(z)
    PROVE  PendingOK(z, boxes', inbox', echoes') /\ IsSeq(echoes')
<1>1. t.runID \in Nat /\ z.runID \in {t.runID, t.runID + 1}
  BY DEF Outcome, Going, Requesting, Placing, EndingEmpty, EndingLast, Ending, Exiting, SameTrial,
         IInv, RunOK
<1>2. \A r \in 0 .. t.runID : r \in 0 .. z.runID
  BY <1>1
<1>3. z.runID \in 0 .. z.runID
  BY <1>1
<1>4. \A c \in z.deadChildren : c \in DOMAIN boxes' /\ Over(z, c)
  BY DeadOver, EffectsBoxes
<1>5. ASSUME NEW i \in 1 .. Len(inbox')
      PROVE  MsgPending(z, boxes', inbox'[i])
  <2>1. CASE inbox'[i].type \in {"trialAborted", "stop"}
    BY <2>1 DEF MsgPending
  <2>2. CASE inbox'[i].type \notin {"trialAborted", "stop"}
    <3>1. i + 1 \in 1 .. Len(inbox) /\ inbox'[i] = inbox[i + 1]
      BY <2>2, InboxKept
    <3>2. MsgPending(t, boxes, inbox'[i])
      BY <3>1 DEF WInv, PendingOK
    <3> QED BY <1>2, <3>2, EffectsBoxes DEF MsgPending
  <2> QED BY <2>1, <2>2
<1>6. IsSeq(echoes) /\ \A i \in 1 .. Len(echoes) : echoes[i] \in 0 .. z.runID
  BY <1>2 DEF WInv, PendingOK
<1>7. IsSeq(echoes') /\ \A i \in 1 .. Len(echoes') : echoes'[i] \in 0 .. z.runID
  <2>1. CASE echoes' = echoes
    BY <1>6, <2>1
  <2>2. CASE Extends(echoes, z.runID, echoes')
    <3>1. IsSeq(echoes') /\ \A i \in 1 .. Len(echoes') :
             (i \in 1 .. Len(echoes) /\ echoes'[i] = echoes[i]) \/ echoes'[i] = z.runID
      BY <2>2 DEF Extends
    <3> QED BY <1>3, <1>6, <3>1
  <2> QED BY <1>6, <2>1, <2>2, EffectsEchoes DEF Post
<1> QED BY <1>4, <1>5, <1>7, EffectsBoxPending DEF PendingOK

\* What the trial forgets to say it sent.
LEMMA Silent ==
    ASSUME NEW z, IsTrial(z), NEW y, y = [z EXCEPT !.out = {}]
    PROVE  /\ SeqKept(z, y) /\ Keeps(z, y) /\ y.killed = z.killed
           /\ y.cancelUnready = z.cancelUnready /\ y.status = z.status
BY DEF IsTrial, TrialFields, SeqKept, Keeps, SameRun, SameLinks, SameOrders, Ignored

LEMMA LeadDepends ==
    ASSUME NEW x, NEW y, SeqKept(x, y), y.runID = x.runID, NEW B, NEW q, NEW e,
           LeadOK(x, B, q, e)
    PROVE  LeadOK(y, B, q, e)
<1>1. Lead(y) = Lead(x)
  BY DEF Lead
<1>2. \A w : Legal(x, w) => Legal(y, w)
  BY SameWorkloads DEF SeqKept
<1>3. \A b, l, C, R, E : InOrder(x, b, q, l, C, R, E) => InOrder(y, b, q, l, C, R, E)
  BY <1>2 DEF InOrder, SeqKept
<1>4. \A b, C : InStep(x, b, q, C) => InStep(y, b, q, C)
  BY DEF InStep, SeqKept
<1> QED BY <1>1, <1>3, <1>4 DEF LeadOK, SeqKept

LEMMA PendingDepends ==
    ASSUME NEW x, NEW y, Keeps(x, y), NEW B, NEW q, NEW e, PendingOK(x, B, q, e)
    PROVE  PendingOK(y, B, q, e)
<1>1. \A c : Over(y, c) <=> Over(x, c)
  BY DEF Over, Keeps, SameRun
<1> QED BY <1>1 DEF PendingOK, BoxPending, MsgPending, Keeps, SameRun, SameLinks

LEMMA EffectsKeepOrder ==
    ASSUME IInv, WInv, t.status = "up", inbox # <<>>, NEW z, MessageOutcome(z), Sound(z), Effects(z),
           Now.type = "Completed" => Now.from \notin t.deadChildren
    PROVE  WInv'
<1>1. Outcome(z) /\ IsTrial(z)
  BY OutcomeIsTrial DEF MessageOutcome
<1>2. PICK y : y = [z EXCEPT !.out = {}] /\ t' = y
  BY DEF Effects
<1>3. /\ SeqKept(z, y) /\ Keeps(z, y) /\ y.killed = z.killed
      /\ y.cancelUnready = z.cancelUnready /\ y.status = z.status
  BY <1>1, <1>2, Silent
<1>4. CASE y.status # "up"
  BY <1>2, <1>4 DEF WInv
<1>5. CASE y.status = "up"
  <2>1. Post(z)
    BY <1>3, <1>5 DEF Sound
  <2>2. SeqCore(y) /\ Waiting(y)
    BY <1>3, <2>1, KeptCore, StaysWaiting DEF Post, Keeps
  <2>3. LeadOK(y, boxes', inbox', echoes')
    BY <1>1, <1>3, <2>1, EffectsLead, LeadDepends DEF Keeps, SameRun
  <2>4. PendingOK(y, boxes', inbox', echoes') /\ IsSeq(echoes')
    BY <1>1, <1>3, <2>1, EffectsPending, PendingDepends
  <2> QED BY <1>2, <2>2, <2>3, <2>4 DEF WInv
<1> QED BY <1>4, <1>5

(***************************************************************************)
(* The workload in flight, and the steps of the environment.               *)
(***************************************************************************)
\* Messages that are neither a completion nor an answer of the experiment.
Plain(m) ==
    /\ m.type \notin {"Completed", "sendNextWorkload"}
    /\ m.type = "Operations" => m.of \in OpBatches

\* q is p with plain messages after it.
Longer(p, q) ==
    /\ Len(p) \in Nat /\ Len(q) \in Nat /\ Len(p) <= Len(q)
    /\ \A i \in 1 .. Len(p) : q[i] = p[i]
    /\ \A i \in 1 .. Len(q) : i \in 1 .. Len(p) \/ Plain(q[i])

LEMMA LongerOne ==
    ASSUME NEW p, NEW q, Longer(p, q), NEW m, Plain(m), NEW r, Extends(q, m, r)
    PROVE  Longer(p, r)
<1>1. /\ Len(p) \in Nat /\ Len(q) \in Nat /\ Len(p) <= Len(q) /\ Len(r) = Len(q) + 1
      /\ r[Len(q) + 1] = m
  BY DEF Longer, Extends
<1>2. /\ Len(r) \in Nat /\ Len(p) <= Len(r)
      /\ \A i \in 1 .. Len(p) : i \in 1 .. Len(q)
      /\ \A i \in 1 .. Len(r) : i \in 1 .. Len(q) \/ i = Len(q) + 1
  BY <1>1
<1>3. \A i \in 1 .. Len(q) : r[i] = q[i]
  BY DEF Extends
<1> QED BY <1>1, <1>2, <1>3 DEF Longer

LEMMA LongerTokens ==
    ASSUME NEW p, NEW q, Longer(p, q), NEW c, NEW r
    PROVE  /\ Completions(q, c) = Completions(p, c) /\ Resyncs(q, r) = Resyncs(p, r)
           /\ \A i \in Completions(p, c) : q[i] = p[i]
<1>1. \A i \in 1 .. Len(p) : i \in 1 .. Len(q) /\ q[i] = p[i]
  BY DEF Longer
<1>2. \A i \in 1 .. Len(q) : i \in 1 .. Len(p) \/ q[i].type \notin {"Completed", "sendNextWorkload"}
  BY DEF Longer, Plain
<1>3. Completions(q, c) = Completions(p, c)
  BY <1>1, <1>2 DEF Completions
<1>4. Resyncs(q, r) = Resyncs(p, r)
  BY <1>1, <1>2 DEF Resyncs
<1> QED BY <1>1, <1>3, <1>4 DEF Completions

\* A container goes on, or exits: what it did stays.
BoxGoes(b, d) ==
    /\ d.done = b.done /\ (d.ready => b.ready) /\ (d.jobs = b.jobs \/ d.jobs = <<>>)
    /\ d.st = "exited" \/ (b.st # "exited" /\ d.model = b.model)

\* Nothing that is in flight moves.
LEMMA QuietStep ==
    ASSUME WInv, t.status = "up", NEW B, DOMAIN B = DOMAIN boxes,
           \A c \in DOMAIN boxes : BoxGoes(boxes[c], B[c]), NEW q, Longer(inbox, q)
    PROVE  LeadOK(t, B, q, echoes) /\ PendingOK(t, B, q, echoes)
<1>1. LeadOK(t, boxes, inbox, echoes) /\ PendingOK(t, boxes, inbox, echoes)
  BY DEF WInv
<1>2. LeadOK(t, B, q, echoes)
  <2>1. PICK l : l = Lead(t)
    OBVIOUS
  <2>2. PICK C : C = Completions(inbox, l) /\ C = Completions(q, l)
    BY LongerTokens
  <2>3. PICK R : R = Resyncs(inbox, t.runID) /\ R = Resyncs(q, t.runID)
    BY LongerTokens
  <2>4. PICK E : E = Asked(echoes, t.runID)
    OBVIOUS
  <2>5. CASE l \notin DOMAIN boxes
    BY <1>1, <2>1, <2>2, <2>3, <2>5 DEF LeadOK
  <2>6. CASE l \in DOMAIN boxes
    <3>1. PICK b : b = boxes[l]
      OBVIOUS
    <3>2. PICK d : d = B[l]
      OBVIOUS
    <3>3. InOrder(t, b, inbox, l, C, R, E) /\ InStep(t, b, inbox, C)
      BY <1>1, <2>1, <2>2, <2>3, <2>4, <2>6, <3>1 DEF LeadOK
    <3>4. BoxGoes(b, d)
      BY <2>6, <3>1, <3>2
    <3>5. \A i \in C : q[i] = inbox[i]
      BY <2>2, LongerTokens
    <3>6. \A i \in 1 .. Len(d.jobs) : i \in 1 .. Len(b.jobs) /\ d.jobs[i] = b.jobs[i]
      BY <3>4, EmptyInbox DEF BoxGoes
    <3>7. Exclusive(1 .. Len(d.jobs), 1 .. Len(d.done), C, R, E)
      <4>1. Exclusive(1 .. Len(b.jobs), 1 .. Len(b.done), C, R, E) /\ d.done = b.done
        BY <3>3, <3>4 DEF InOrder, BoxGoes
      <4>2. AtMostOne(1 .. Len(d.jobs)) /\ (1 .. Len(d.jobs) # {} => 1 .. Len(b.jobs) # {})
        BY <3>6, <4>1 DEF Exclusive, AtMostOne
      <4> QED BY <4>1, <4>2 DEF Exclusive
    <3>8. InOrder(t, d, q, l, C, R, E)
      BY <3>3, <3>4, <3>5, <3>6, <3>7 DEF InOrder, BoxGoes
    <3>9. InStep(t, d, q, C)
      BY <3>3, <3>4, <3>5 DEF InStep, BoxGoes
    <3> QED BY <2>1, <2>2, <2>3, <2>4, <2>6, <3>2, <3>8, <3>9 DEF LeadOK
  <2> QED BY <2>5, <2>6
<1>3. ASSUME NEW c \in DOMAIN B
      PROVE  BoxPending(t, B[c], q, c)
  <2>1. PICK b : b = boxes[c] /\ BoxPending(t, b, inbox, c)
    BY <1>1 DEF PendingOK
  <2>2. PICK d : d = B[c] /\ BoxGoes(b, d)
    BY <2>1
  <2>3. Completions(q, c) = Completions(inbox, c)
    BY LongerTokens
  <2>4. d.jobs = b.jobs \/ d.jobs = <<>>
    BY <2>2 DEF BoxGoes
  <2>5. IsSeq(d.jobs) /\ (~IsLeader(c) => \A i \in 1 .. Len(d.jobs) : d.jobs[i] = TERMINATE)
    BY <2>1, <2>4, EmptyInbox DEF BoxPending
  <2> QED BY <2>1, <2>2, <2>3, <2>5 DEF BoxPending, BoxGoes
<1>4. ASSUME NEW i \in 1 .. Len(q)
      PROVE  MsgPending(t, B, q[i])
  <2>1. CASE Plain(q[i])
    BY <2>1 DEF Plain, MsgPending
  <2>2. CASE i \in 1 .. Len(inbox)
    <3>1. q[i] = inbox[i]
      BY <2>2 DEF Longer
    <3> QED BY <1>1, <2>2, <3>1 DEF PendingOK, MsgPending
  <2> QED BY <2>1, <2>2 DEF Longer
<1> QED BY <1>1, <1>2, <1>3, <1>4 DEF PendingOK

LEMMA QuietKeepsOrder ==
    ASSUME WInv, t.status = "up", DOMAIN boxes' = DOMAIN boxes,
           \A c \in DOMAIN boxes : BoxGoes(boxes[c], boxes'[c]), Longer(inbox, inbox'),
           UNCHANGED <<t, echoes>>
    PROVE  WInv'
<1>1. LeadOK(t, boxes', inbox', echoes) /\ PendingOK(t, boxes', inbox', echoes)
  BY QuietStep
<1> QED BY <1>1 DEF WInv

\* A container whose sequence of steps is not over is of the current run.
LEMMA IsLead ==
    ASSUME IInv, NEW c \in DOMAIN boxes, ~Over(t, c), IsLeader(c)
    PROVE  c = Lead(t)
<1>1. RunOK(t) /\ c \in t.containerRanks
  BY DEF IInv, Over
<1>2. c \in Containers(t.task) /\ t.task = t.runID + 1
  BY <1>1 DEF RunOK
<1> QED BY <1>2 DEF Containers, IsLeader, Lead

\* What is pending at the others when one container changes.
LEMMA OthersPending ==
    ASSUME WInv, t.status = "up", NEW c \in DOMAIN boxes, NEW d, Changes(c, d),
           \A e : e # c => Completions(inbox', e) = Completions(inbox, e),
           BoxPending(t, d, inbox', c),
           \A i \in 1 .. Len(inbox') : MsgPending(t, boxes', inbox'[i])
    PROVE  PendingOK(t, boxes', inbox', echoes)
<1>1. PendingOK(t, boxes, inbox, echoes)
  BY DEF WInv
<1>2. DOMAIN boxes' = DOMAIN boxes /\ boxes'[c] = d
      /\ \A e \in DOMAIN boxes \ {c} : boxes'[e] = boxes[e]
  BY DEF Changes
<1>3. ASSUME NEW e \in DOMAIN boxes' PROVE BoxPending(t, boxes'[e], inbox', e)
  <2>1. CASE e = c
    BY <1>2, <2>1
  <2>2. CASE e # c
    <3>1. boxes'[e] = boxes[e] /\ Completions(inbox', e) = Completions(inbox, e)
      BY <1>2, <2>2
    <3> QED BY <1>1, <1>2, <3>1 DEF PendingOK, BoxPending
  <2> QED BY <2>1, <2>2
<1> QED BY <1>1, <1>2, <1>3 DEF PendingOK

\* A sequence with no more than one element.
LEMMA OneLong ==
    ASSUME NEW s, IsSeq(s), s # <<>>, AtMostOne(1 .. Len(s))
    PROVE  Len(s) = 1 /\ 1 \in 1 .. Len(s) /\ Head(s) = s[1] /\ Tail(s) = <<>>
<1>1. s \in Seq({s[i] : i \in DOMAIN s}) /\ Len(s) \in Nat /\ Len(s) # 0
  BY DEF IsSeq
<1>2. \A n \in Nat : n # 0 => 1 \in 1 .. n /\ n \in 1 .. n
  OBVIOUS
<1>3. Len(s) = 1
  BY <1>1, <1>2 DEF AtMostOne
<1>4. PICK q : q = Tail(s)
  OBVIOUS
<1>5. IsSeq(q) /\ Len(q) = 0
  <2>1. IsSeq(q) /\ Len(q) = Len(s) - 1
    BY <1>4, Popped
  <2> QED BY <1>3, <2>1
<1>6. q = <<>>
  <2>1. 1 .. Len(q) = {}
    BY <1>5
  <2> QED BY <1>5, <2>1, NothingIn
<1>7. Head(s) = s[1]
  BY <1>1
<1> QED BY <1>3, <1>4, <1>6, <1>7

\* The workload is done.
LEMMA WorkKeepsOrder ==
    ASSUME IInv, WInv, NEW c \in DOMAIN boxes, NEW reason \in ExitReasons, Work(c, reason)
    PROVE  WInv'
<1>1. PICK b : b = boxes[c] /\ BoxOK(b) /\ BoxPending(t, b, inbox, c)
  BY DEF Work, Up, WInv, PendingOK, IInv, BoxesOK
<1>2. /\ t.status = "up" /\ b.st = "running" /\ b.ready /\ b.jobs # <<>> /\ Head(b.jobs) # TERMINATE
      /\ UNCHANGED <<t, inbox, echoes>>
  BY <1>1 DEF Work, Up
<1>3. PICK w : w = Head(b.jobs)
  OBVIOUS
<1>4. PICK v : v = [of |-> w, reason |-> reason]
  OBVIOUS
<1>5. PICK d : d = [b EXCEPT !.jobs = Tail(@), !.done = Append(@, v), !.model = @ + w.NumBatches]
  OBVIOUS
<1>6. Changes(c, d)
  BY <1>1, <1>3, <1>4, <1>5 DEF Work, Changes, BoxOK, BoxFields
<1>7. /\ d.st = b.st /\ d.ready = b.ready /\ d.jobs = Tail(b.jobs) /\ d.done = Append(b.done, v)
      /\ d.model = b.model + w.NumBatches
  BY <1>1, <1>5 DEF BoxOK, BoxFields
<1>8. ~Over(t, c)
  BY <1>1, <1>2 DEF IInv, ReportsOK
<1>9. 1 \in 1 .. Len(b.jobs) /\ w = b.jobs[1]
  <2>1. b.jobs \in Seq({b.jobs[i] : i \in DOMAIN b.jobs})
    BY <1>1 DEF BoxPending, IsSeq
  <2> QED BY <1>2, <1>3, <2>1
<1>10. IsLeader(c)
  BY <1>1, <1>2, <1>3, <1>9 DEF BoxPending
<1>11. c = Lead(t)
  BY <1>8, <1>10, IsLead
<1>12. PICK C : C = Completions(inbox, c)
  OBVIOUS
<1>13. PICK R : R = Resyncs(inbox, t.runID)
  OBVIOUS
<1>14. PICK E : E = Asked(echoes, t.runID)
  OBVIOUS
<1>15. InOrder(t, b, inbox, c, C, R, E) /\ InStep(t, b, inbox, C)
  BY <1>1, <1>2, <1>11, <1>12, <1>13, <1>14 DEF WInv, LeadOK
<1>16. Exclusive(1 .. Len(b.jobs), 1 .. Len(b.done), C, R, E) /\ IsSeq(b.jobs) /\ IsSeq(b.done)
  BY <1>1, <1>15 DEF InOrder, BoxPending
<1>17. b.done = <<>> /\ C = {} /\ R = {} /\ E = {} /\ AtMostOne(1 .. Len(b.jobs))
  BY <1>9, <1>16, NothingIn DEF Exclusive
<1>18. d.jobs = <<>>
  BY <1>2, <1>7, <1>16, <1>17, OneLong
<1>19. Extends(<<>>, v, d.done) /\ IsSeq(d.done)
  <2>1. Extends(<<>>, v, d.done)
    BY <1>7, <1>17, EmptyInbox, Appended
  <2> QED BY <2>1 DEF Extends
<1>20. \A i \in 1 .. Len(d.done) : i = 1 /\ d.done[i].of = w /\ d.done[i].reason = reason
  BY <1>4, <1>19, ExtendedNothing
<1>21. d.done # <<>>
  BY <1>19 DEF Extends
<1>22. Legal(t, w) /\ ~t.terminationSent
  BY <1>2, <1>3, <1>9, <1>15 DEF InOrder
<1>23. 1 .. Len(d.jobs) = {} /\ IsSeq(d.jobs)
  BY <1>18, EmptyInbox
<1>24. InOrder(t, d, inbox, c, {}, {}, {})
  <2>1. Exclusive(1 .. Len(d.jobs), 1 .. Len(d.done), {}, {}, {})
    BY <1>20, <1>23 DEF Exclusive, AtMostOne
  <2> QED BY <1>20, <1>22, <1>23, <2>1 DEF InOrder
<1>25. InStep(t, d, inbox, {})
  <2>1. ~t.cancelUnready => b.model = t.state.totalBatchesProcessed
    BY <1>2, <1>15, <1>17 DEF InStep
  <2>2. ~t.cancelUnready => d.model = t.state.totalBatchesProcessed + w.NumBatches
    BY <1>7, <2>1
  <2> QED BY <1>20, <1>21, <2>2 DEF InStep
<1>26. LeadOK(t, boxes', inbox, echoes)
  BY <1>6, <1>11, <1>12, <1>13, <1>14, <1>17, <1>24, <1>25 DEF LeadOK, Changes
<1>27. BoxPending(t, d, inbox', c)
  BY <1>1, <1>2, <1>7, <1>8, <1>10, <1>19, <1>23 DEF BoxPending
<1>28. PendingOK(t, boxes', inbox', echoes)
  <2>1. \A i \in 1 .. Len(inbox') : MsgPending(t, boxes', inbox'[i])
    BY <1>2, <1>6 DEF WInv, PendingOK, MsgPending, Changes
  <2> QED BY <1>2, <1>6, <1>27, <2>1, OthersPending
<1> QED BY <1>2, <1>26, <1>28 DEF WInv

\* Its completion is sent to the trial.
LEMMA RelayKeepsOrder ==
    ASSUME IInv, WInv, NEW c \in DOMAIN boxes, Relay(c)
    PROVE  WInv'
<1>1. PICK b : b = boxes[c] /\ BoxOK(b) /\ BoxPending(t, b, inbox, c)
  BY DEF Relay, Up, WInv, PendingOK, IInv, BoxesOK
<1>2. /\ t.status = "up" /\ b.done # <<>> /\ c \notin t.deadChildren /\ UNCHANGED <<t, echoes>>
  BY <1>1 DEF Relay, Up
<1>3. PICK m : m = [type |-> "Completed", from |-> c, of |-> Head(b.done).of,
                    reason |-> Head(b.done).reason]
  OBVIOUS
<1>4. PICK q : q = inbox' /\ Extends(inbox, m, q)
  BY <1>1, <1>3, Appended DEF Relay, Deliver, IInv
<1>5. PICK d : d = [b EXCEPT !.done = Tail(@)]
  OBVIOUS
<1>6. Changes(c, d)
  BY <1>1, <1>5 DEF Relay, Changes
<1>7. /\ d.st = b.st /\ d.ready = b.ready /\ d.jobs = b.jobs /\ d.done = Tail(b.done)
      /\ d.model = b.model
  BY <1>1, <1>5 DEF BoxOK, BoxFields
<1>8. ~Over(t, c) /\ IsLeader(c) /\ c \in t.containerSockets \cup t.deadChildren
  BY <1>1, <1>2 DEF BoxPending
<1>9. c = Lead(t)
  BY <1>8, IsLead
<1>10. PICK C : C = Completions(inbox, c)
  OBVIOUS
<1>11. PICK R : R = Resyncs(inbox, t.runID)
  OBVIOUS
<1>12. PICK E : E = Asked(echoes, t.runID)
  OBVIOUS
<1>13. InOrder(t, b, inbox, c, C, R, E) /\ InStep(t, b, inbox, C)
  BY <1>1, <1>2, <1>9, <1>10, <1>11, <1>12 DEF WInv, LeadOK
<1>14. Exclusive(1 .. Len(b.jobs), 1 .. Len(b.done), C, R, E) /\ IsSeq(b.jobs) /\ IsSeq(b.done)
  BY <1>1, <1>13 DEF InOrder, BoxPending
<1>15. 1 .. Len(b.done) # {} /\ AtMostOne(1 .. Len(b.done))
  BY <1>2, <1>14, NothingIn DEF Exclusive
<1>16. 1 .. Len(b.jobs) = {} /\ C = {} /\ R = {} /\ E = {} /\ ~t.terminationSent
  BY <1>2, <1>13, <1>14, <1>15 DEF Exclusive, InOrder
<1>17. Head(b.done) = b.done[1] /\ 1 \in 1 .. Len(b.done) /\ d.done = <<>>
  BY <1>2, <1>7, <1>14, <1>15, OneLong
<1>18. m.type = "Completed" /\ m.from = c /\ m.of = b.done[1].of /\ m.reason = b.done[1].reason
  BY <1>3, <1>17
<1>19. /\ \A i \in 1 .. Len(q) : i \in 1 .. Len(inbox) \/ i = Len(inbox) + 1
       /\ \A i \in 1 .. Len(inbox) : i \in 1 .. Len(q) /\ q[i] = inbox[i]
       /\ q[Len(inbox) + 1] = m
  BY <1>4 DEF Extends
<1>20. PICK C2 : C2 = Completions(q, c)
  OBVIOUS
<1>21. \A i \in C2 : i = Len(inbox) + 1 /\ q[i] = m
  BY <1>10, <1>16, <1>19, <1>20 DEF Completions
<1>22. Resyncs(q, t.runID) = {}
  BY <1>11, <1>16, <1>18, <1>19 DEF Resyncs
<1>23. \A e : e # c => Completions(q, e) = Completions(inbox, e)
  <2> SUFFICES ASSUME NEW e, e # c PROVE Completions(q, e) = Completions(inbox, e)
    OBVIOUS
  <2> QED BY <1>18, <1>19 DEF Completions
<1>24. InOrder(t, d, q, c, C2, {}, {})
  <2>1. Exclusive(1 .. Len(d.jobs), 1 .. Len(d.done), C2, {}, {})
    <3>1. 1 .. Len(d.done) = {} /\ 1 .. Len(d.jobs) = {}
      BY <1>7, <1>16, <1>17, EmptyInbox
    <3> QED BY <1>21, <3>1 DEF Exclusive, AtMostOne
  <2>2. 1 .. Len(d.done) = {} /\ 1 .. Len(d.jobs) = {}
    BY <1>7, <1>16, <1>17, EmptyInbox
  <2>3. Legal(t, m.of) /\ m.reason \in ExitReasons
    BY <1>13, <1>17, <1>18 DEF InOrder
  <2> QED BY <1>16, <1>21, <2>1, <2>2, <2>3 DEF InOrder
<1>25. InStep(t, d, q, C2)
  <2>1. Len(inbox) + 1 \in C2
    <3>1. Len(inbox) + 1 \in 1 .. Len(q)
      BY <1>4 DEF Extends
    <3> QED BY <1>18, <1>19, <1>20, <3>1 DEF Completions
  <2>2. b.st # "exited" /\ ~t.cancelUnready =>
           b.model = t.state.totalBatchesProcessed + b.done[1].of.NumBatches
    BY <1>13, <1>17 DEF InStep
  <2>3. 1 .. Len(d.done) = {}
    BY <1>17, EmptyInbox
  <2> QED BY <1>7, <1>18, <1>21, <2>1, <2>2, <2>3 DEF InStep
<1>26. LeadOK(t, boxes', q, echoes)
  BY <1>6, <1>9, <1>12, <1>16, <1>20, <1>22, <1>24, <1>25 DEF LeadOK, Changes
<1>27. BoxPending(t, d, q, c)
  <2>1. IsSeq(d.done) /\ IsSeq(d.jobs)
    BY <1>7, <1>14, <1>17, EmptyInbox
  <2> QED BY <1>8, <2>1 DEF BoxPending
<1>28. PendingOK(t, boxes', inbox', echoes)
  <2>1. ASSUME NEW i \in 1 .. Len(q) PROVE MsgPending(t, boxes', q[i])
    <3>1. CASE i \in 1 .. Len(inbox)
      BY <1>2, <1>6, <1>19, <3>1 DEF WInv, PendingOK, MsgPending, Changes
    <3>2. CASE i = Len(inbox) + 1
      BY <1>6, <1>8, <1>18, <1>19, <3>2 DEF MsgPending, Changes
    <3> QED BY <1>19, <3>1, <3>2
  <2> QED BY <1>2, <1>4, <1>6, <1>23, <1>27, <2>1, OthersPending
<1> QED BY <1>2, <1>4, <1>26, <1>28 DEF WInv

\* An answer of the experiment arrives.
LEMMA EchoKeepsOrder ==
    ASSUME IInv, WInv, Echo
    PROVE  WInv'
<1>1. /\ t.status = "up" /\ echoes # <<>> /\ UNCHANGED <<t, boxes>>
      /\ IsSeq(echoes) /\ IsSeq(inbox)
  BY DEF Echo, Up, WInv, IInv
<1>2. PICK m : m = MsgOf("sendNextWorkload", Head(echoes))
  OBVIOUS
<1>3. PICK q : q = inbox' /\ Extends(inbox, m, q)
  BY <1>1, <1>2, Appended DEF Echo, Deliver
<1>4. PICK e : e = echoes' /\ e = Tail(echoes)
  BY DEF Echo
<1>5. /\ IsSeq(e) /\ Len(e) = Len(echoes) - 1 /\ Len(echoes) \in Nat \ {0}
      /\ \A i \in 1 .. Len(e) : e[i] = echoes[i + 1] /\ i + 1 \in 1 .. Len(echoes)
  BY <1>1, <1>4, Popped
<1>6. Head(echoes) = echoes[1] /\ 1 \in 1 .. Len(echoes)
  <2>1. echoes \in Seq({echoes[i] : i \in DOMAIN echoes})
    BY <1>1 DEF IsSeq
  <2> QED BY <1>1, <1>5, <2>1
<1>7. m.type = "sendNextWorkload" /\ m.of = echoes[1]
  BY <1>2, <1>6, MsgType
<1>8. /\ \A i \in 1 .. Len(q) : i \in 1 .. Len(inbox) \/ i = Len(inbox) + 1
      /\ \A i \in 1 .. Len(inbox) : i \in 1 .. Len(q) /\ q[i] = inbox[i]
      /\ q[Len(inbox) + 1] = m /\ Len(inbox) + 1 \in 1 .. Len(q)
  BY <1>3 DEF Extends
<1>9. LeadOK(t, boxes, inbox, echoes) /\ PendingOK(t, boxes, inbox, echoes) /\ SeqCore(t) /\ Waiting(t)
  BY <1>1 DEF WInv
<1>10. \A c : Completions(q, c) = Completions(inbox, c)
  <2> SUFFICES ASSUME NEW c PROVE Completions(q, c) = Completions(inbox, c)
    OBVIOUS
  <2> QED BY <1>7, <1>8 DEF Completions
<1>11. PICK l : l = Lead(t)
  OBVIOUS
<1>12. PICK C : C = Completions(inbox, l) /\ C = Completions(q, l)
  BY <1>10
<1>13. PICK R : R = Resyncs(inbox, t.runID)
  OBVIOUS
<1>14. PICK R2 : R2 = Resyncs(q, t.runID)
  OBVIOUS
<1>15. PICK E : E = Asked(echoes, t.runID)
  OBVIOUS
<1>16. PICK E2 : E2 = Asked(e, t.runID)
  OBVIOUS
<1>17. Shifted(E2, E)
  <2>1. \A i \in 1 .. Len(e) : i \in Nat \ {0}
    BY <1>5
  <2>2. \A i \in 1 .. Len(echoes) : i \in Int /\
           (i = 1 \/ (i - 1 \in 1 .. Len(e) /\ (i - 1) + 1 = i))
    BY <1>5
  <2>3. \A i \in E2 : i \in Nat \ {0} /\ i + 1 \in E
    BY <1>5, <1>15, <1>16, <2>1 DEF Asked
  <2>4. \A i \in E : i \in Int /\ (i = 1 \/ i - 1 \in E2)
    <3> SUFFICES ASSUME NEW i \in E, i # 1 PROVE i \in Int /\ i - 1 \in E2
      BY <1>15, <2>2 DEF Asked
    <3>1. i \in 1 .. Len(echoes) /\ echoes[i] = t.runID
      BY <1>15 DEF Asked
    <3>2. i \in Int /\ i - 1 \in 1 .. Len(e) /\ (i - 1) + 1 = i
      BY <2>2, <3>1
    <3>3. e[i - 1] = echoes[i]
      BY <1>5, <3>2
    <3> QED BY <1>16, <3>1, <3>2, <3>3 DEF Asked
  <2> QED BY <2>3, <2>4 DEF Shifted
<1>18. /\ Len(inbox) + 1 \in R2 <=> echoes[1] = t.runID
       /\ \A i \in R2 : i \in R \/ i = Len(inbox) + 1
       /\ R \subseteq R2
  BY <1>7, <1>8, <1>13, <1>14 DEF Resyncs
<1>19. 1 \in E <=> echoes[1] = t.runID
  BY <1>6, <1>15 DEF Asked
<1>20. LeadOK(t, boxes, q, e)
  <2>1. CASE l \notin DOMAIN boxes
    <3>1. C = {} /\ R = {} /\ E = {} /\ ~t.terminationSent
      BY <1>9, <1>11, <1>12, <1>13, <1>15, <2>1 DEF LeadOK
    <3>2. R2 = {} /\ E2 = {}
      BY <1>17, <1>18, <1>19, <3>1 DEF Shifted
    <3> QED BY <1>11, <1>12, <1>14, <1>16, <2>1, <3>1, <3>2 DEF LeadOK
  <2>2. CASE l \in DOMAIN boxes
    <3>1. PICK b : b = boxes[l]
      OBVIOUS
    <3>2. InOrder(t, b, inbox, l, C, R, E) /\ InStep(t, b, inbox, C)
      BY <1>9, <1>11, <1>12, <1>13, <1>15, <2>2, <3>1 DEF LeadOK
    <3>3. \A i \in C : q[i] = inbox[i]
      BY <1>8, <1>12 DEF Completions
    <3>4. Exclusive(1 .. Len(b.jobs), 1 .. Len(b.done), C, R, E)
      BY <3>2 DEF InOrder
    <3>5. Exclusive(1 .. Len(b.jobs), 1 .. Len(b.done), C, R2, E2)
      <4>1. CASE 1 \in E
        <5>1. E2 = {}
          BY <1>17, <3>4, <4>1, ShiftedOne DEF Exclusive
        <5>2. 1 .. Len(b.jobs) = {} /\ 1 .. Len(b.done) = {} /\ C = {} /\ R = {}
          BY <3>4, <4>1 DEF Exclusive
        <5> QED BY <1>18, <5>1, <5>2 DEF Exclusive, AtMostOne
      <4>2. CASE 1 \notin E
        <5>1. R2 = R
          BY <1>18, <1>19, <4>2
        <5>2. AtMostOne(E2) /\ (E = {} => E2 = {})
          BY <1>17, <3>4, ShiftedOne DEF Exclusive
        <5> QED BY <3>4, <5>1, <5>2 DEF Exclusive
      <4> QED BY <4>1, <4>2
    <3>6. t.terminationSent => R2 = {} /\ E2 = {}
      BY <1>17, <1>18, <1>19, <3>2 DEF InOrder, Shifted
    <3>7. InOrder(t, b, q, l, C, R2, E2)
      BY <3>2, <3>3, <3>5, <3>6 DEF InOrder
    <3>8. InStep(t, b, q, C)
      BY <3>2, <3>3 DEF InStep
    <3> QED BY <1>11, <1>12, <1>14, <1>16, <2>2, <3>1, <3>7, <3>8 DEF LeadOK
  <2> QED BY <2>1, <2>2
<1>21. PendingOK(t, boxes, q, e)
  <2>1. \A c \in DOMAIN boxes : BoxPending(t, boxes[c], q, c)
    BY <1>9, <1>10 DEF PendingOK, BoxPending
  <2>2. ASSUME NEW i \in 1 .. Len(q) PROVE MsgPending(t, boxes, q[i])
    <3>1. CASE i \in 1 .. Len(inbox)
      BY <1>8, <1>9, <3>1 DEF PendingOK
    <3>2. CASE i = Len(inbox) + 1
      <4>1. echoes[1] \in 0 .. t.runID
        BY <1>6, <1>9 DEF PendingOK
      <4> QED BY <1>7, <1>8, <3>2, <4>1 DEF MsgPending
    <3> QED BY <1>8, <3>1, <3>2
  <2>3. \A i \in 1 .. Len(e) : e[i] \in 0 .. t.runID
    BY <1>5, <1>9 DEF PendingOK
  <2> QED BY <1>9, <2>1, <2>2, <2>3 DEF PendingOK
<1> QED BY <1>1, <1>3, <1>4, <1>5, <1>9, <1>20, <1>21 DEF WInv

\* A completion of a dead child is not heard.
LEMMA DeadChildKeepsOrder ==
    ASSUME IInv, WInv, ReceiveFromDeadChild
    PROVE  WInv'
<1>1. /\ t.status = "up" /\ inbox # <<>> /\ IsSeq(inbox) /\ inbox' = Tail(inbox)
      /\ UNCHANGED <<t, boxes, echoes>> /\ Now.from \in t.deadChildren
  BY DEF ReceiveFromDeadChild, IInv, Now
<1>2. PICK q : q = inbox' /\ q = Tail(inbox)
  BY <1>1
<1>3. /\ Len(q) = Len(inbox) - 1 /\ Len(inbox) \in Nat \ {0}
      /\ \A i \in 1 .. Len(q) : q[i] = inbox[i + 1] /\ i + 1 \in 1 .. Len(inbox)
  BY <1>1, <1>2, Popped
<1>4. 1 \in 1 .. Len(inbox) /\ Now = inbox[1] /\ Now.type \in {"Completed", "ChildFailed"}
  BY <1>1, NowIsFirst DEF ReceiveFromDeadChild, Now
<1>5. LeadOK(t, boxes, inbox, echoes) /\ PendingOK(t, boxes, inbox, echoes) /\ SeqCore(t) /\ Waiting(t)
      /\ IsSeq(echoes)
  BY <1>1 DEF WInv
<1>6. \A i \in 1 .. Len(inbox) : i \in Int /\
         (i = 1 \/ (i - 1 \in 1 .. Len(q) /\ (i - 1) + 1 = i))
  BY <1>3
<1>7. \A i \in 1 .. Len(inbox) : i = 1 \/ q[i - 1] = inbox[i]
  BY <1>3, <1>6
<1>8. \A i \in 1 .. Len(q) : i \in Nat \ {0}
  BY <1>3
<1>9. ASSUME NEW c PROVE Shifted(Completions(q, c), Completions(inbox, c))
  BY <1>3, <1>6, <1>7, <1>8 DEF Completions, Shifted
<1>10. Shifted(Resyncs(q, t.runID), Resyncs(inbox, t.runID))
  BY <1>3, <1>6, <1>7, <1>8 DEF Resyncs, Shifted
<1>11. PICK l : l = Lead(t)
  OBVIOUS
<1>12. PICK C : C = Completions(inbox, l)
  OBVIOUS
<1>13. PICK C2 : C2 = Completions(q, l)
  OBVIOUS
<1>14. PICK R : R = Resyncs(inbox, t.runID)
  OBVIOUS
<1>15. PICK R2 : R2 = Resyncs(q, t.runID)
  OBVIOUS
<1>16. PICK E : E = Asked(echoes, t.runID)
  OBVIOUS
<1>17. Shifted(C2, C) /\ Shifted(R2, R)
  BY <1>9, <1>10, <1>12, <1>13, <1>14, <1>15
<1>18. \A i \in C2 : i + 1 \in C /\ q[i] = inbox[i + 1]
  BY <1>3, <1>13, <1>17 DEF Completions, Shifted
<1>19. 1 \notin R /\ (1 \in C => l \in t.deadChildren)
  BY <1>1, <1>4, <1>12, <1>14 DEF Completions, Resyncs
<1>20. LeadOK(t, boxes, q, echoes)
  <2>1. CASE l \notin DOMAIN boxes
    <3>1. C = {} /\ R = {} /\ E = {} /\ ~t.terminationSent
      BY <1>5, <1>11, <1>12, <1>14, <1>16, <2>1 DEF LeadOK
    <3>2. C2 = {} /\ R2 = {}
      BY <1>17, <3>1 DEF Shifted
    <3> QED BY <1>11, <1>13, <1>15, <1>16, <2>1, <3>1, <3>2 DEF LeadOK
  <2>2. CASE l \in DOMAIN boxes
    <3>1. PICK b : b = boxes[l]
      OBVIOUS
    <3>2. InOrder(t, b, inbox, l, C, R, E) /\ InStep(t, b, inbox, C)
      BY <1>5, <1>11, <1>12, <1>14, <1>16, <2>2, <3>1 DEF LeadOK
    <3>3. Exclusive(1 .. Len(b.jobs), 1 .. Len(b.done), C, R, E)
      BY <3>2 DEF InOrder
    <3>4. AtMostOne(C2) /\ AtMostOne(R2) /\ (C = {} => C2 = {}) /\ (R = {} => R2 = {})
      BY <1>17, <3>3, ShiftedOne DEF Exclusive
    <3>5. Exclusive(1 .. Len(b.jobs), 1 .. Len(b.done), C2, R2, E)
      BY <3>3, <3>4 DEF Exclusive
    <3>6. InOrder(t, b, q, l, C2, R2, E)
      BY <1>18, <3>2, <3>4, <3>5 DEF InOrder
    <3>7. InStep(t, b, q, C2)
      <4>1. CASE l \in t.deadChildren
        <5>1. Over(t, l)
          BY <1>5, <4>1 DEF PendingOK
        <5>2. b.st = "exited"
          BY <2>2, <3>1, <5>1 DEF IInv, ReportsOK
        <5> QED BY <5>2 DEF InStep
      <4>2. CASE l \notin t.deadChildren
        <5>1. C2 = {} => C = {}
          BY <1>17, <1>19, <3>3, <4>2, ShiftedOne DEF Exclusive
        <5> QED BY <1>18, <3>2, <5>1 DEF InStep
      <4> QED BY <4>1, <4>2
    <3> QED BY <1>11, <1>13, <1>15, <1>16, <2>2, <3>1, <3>6, <3>7 DEF LeadOK
  <2> QED BY <2>1, <2>2
<1>21. PendingOK(t, boxes, q, echoes)
  <2>1. ASSUME NEW c \in DOMAIN boxes PROVE BoxPending(t, boxes[c], q, c)
    <3>1. Completions(inbox, c) = {} => Completions(q, c) = {}
      BY <1>9 DEF Shifted
    <3> QED BY <1>5, <3>1 DEF PendingOK, BoxPending
  <2>2. \A i \in 1 .. Len(q) : MsgPending(t, boxes, q[i])
    BY <1>3, <1>5 DEF PendingOK
  <2> QED BY <1>5, <2>1, <2>2 DEF PendingOK
<1> QED BY <1>1, <1>2, <1>5, <1>20, <1>21 DEF WInv

LEMMA AgentsKeepOrder ==
    ASSUME IInv, WInv, Agents
    PROVE  WInv'
<1>1. PICK c \in DOMAIN boxes :
         BoxRuns(c) \/ BoxKilled(c) \/ (\E exit \in {"ok", "fail"} : BoxCrashes(c, exit)) \/ Report(c)
  BY DEF Agents
<1>2. /\ t.status = "up" /\ UNCHANGED <<t, echoes>> /\ IsSeq(inbox) /\ BoxOK(boxes[c])
  BY <1>1 DEF BoxRuns, BoxKilled, BoxCrashes, Report, Up, IInv, BoxesOK
<1>3. \A d \in DOMAIN boxes : BoxGoes(boxes[d], boxes[d])
  BY DEF BoxGoes
<1>4. ASSUME NEW b, Changes(c, b), BoxGoes(boxes[c], b), Longer(inbox, inbox')
      PROVE  WInv'
  <2>1. DOMAIN boxes' = DOMAIN boxes
    BY <1>4 DEF Changes
  <2>2. \A d \in DOMAIN boxes : BoxGoes(boxes[d], boxes'[d])
    BY <1>3, <1>4 DEF Changes
  <2> QED BY <1>2, <1>4, <2>1, <2>2, QuietKeepsOrder
<1>5. Longer(inbox, inbox)
  <2>1. Len(inbox) \in Nat
    BY <1>2, NothingIn
  <2> QED BY <2>1 DEF Longer
<1>6. CASE BoxRuns(c)
  <2>1. PICK b : b = [boxes[c] EXCEPT !.st = "running", !.reports = Append(@, "running")]
    OBVIOUS
  <2>2. Changes(c, b) /\ inbox' = inbox /\ boxes[c].st # "exited"
    BY <1>2, <1>6, <2>1 DEF BoxRuns, Changes, BoxOK, BoxFields
  <2>3. BoxGoes(boxes[c], b)
    BY <1>2, <2>1, <2>2 DEF BoxGoes, BoxOK, BoxFields
  <2> QED BY <1>4, <1>5, <2>2, <2>3
<1>7. ASSUME NEW exit, BoxExits(c, exit), inbox' = inbox
      PROVE  WInv'
  <2>1. PICK b : b = [boxes[c] EXCEPT !.st = "exited", !.exit = exit, !.reports = Append(@, exit),
                                      !.jobs = <<>>, !.ready = FALSE, !.model = 0]
    OBVIOUS
  <2>2. Changes(c, b)
    BY <1>2, <1>7, <2>1 DEF BoxExits, Changes, BoxOK, BoxFields
  <2>3. BoxGoes(boxes[c], b)
    BY <1>2, <2>1 DEF BoxGoes, BoxOK, BoxFields
  <2> QED BY <1>4, <1>5, <1>7, <2>2, <2>3
<1>8. CASE BoxKilled(c) \/ \E exit \in {"ok", "fail"} : BoxCrashes(c, exit)
  BY <1>7, <1>8 DEF BoxKilled, BoxCrashes
<1>9. CASE Report(c)
  <2>1. PICK b : b = [boxes[c] EXCEPT !.reports = Tail(@)]
    OBVIOUS
  <2>2. Changes(c, b)
    BY <1>9, <2>1 DEF Report, Changes
  <2>3. BoxGoes(boxes[c], b)
    BY <1>2, <2>1 DEF BoxGoes, BoxOK, BoxFields
  <2>4. PICK m : m = [type |-> "StateChanged", from |-> c, of |-> Head(boxes[c].reports)]
    OBVIOUS
  <2>5. Extends(inbox, m, inbox') /\ Plain(m)
    BY <1>2, <1>9, <2>4, Appended DEF Report, Deliver, Plain
  <2> QED BY <1>4, <1>5, <2>2, <2>3, <2>5, LongerOne
<1> QED BY <1>1, <1>6, <1>8, <1>9

LEMMA HarnessesKeepOrder ==
    ASSUME IInv, WInv, Harnesses
    PROVE  WInv'
<1>1. PICK c \in DOMAIN boxes :
         \/ Dial(c) \/ Quit(c) \/ Relay(c) \/ SocketBreaks(c)
         \/ \E reason \in ExitReasons : Work(c, reason)
  BY DEF Harnesses
<1>2. CASE Relay(c) \/ \E reason \in ExitReasons : Work(c, reason)
  BY <1>2, RelayKeepsOrder, WorkKeepsOrder
<1>3. ASSUME Dial(c) \/ Quit(c) \/ SocketBreaks(c)
      PROVE  /\ t.status = "up" /\ UNCHANGED <<t, echoes>> /\ IsSeq(inbox) /\ BoxOK(boxes[c])
             /\ Longer(inbox, inbox)
  <2>1. t.status = "up" /\ UNCHANGED <<t, echoes>> /\ IsSeq(inbox) /\ BoxOK(boxes[c])
    BY <1>3 DEF Dial, Quit, SocketBreaks, Up, IInv, BoxesOK
  <2>2. Len(inbox) \in Nat
    BY <2>1, NothingIn
  <2> QED BY <2>1, <2>2 DEF Longer
<1>4. ASSUME NEW b, Changes(c, b), BoxGoes(boxes[c], b), Longer(inbox, inbox'),
             t.status = "up", UNCHANGED <<t, echoes>>
      PROVE  WInv'
  <2>1. DOMAIN boxes' = DOMAIN boxes
    BY <1>4 DEF Changes
  <2>2. \A d \in DOMAIN boxes : BoxGoes(boxes[d], boxes[d])
    BY DEF BoxGoes
  <2>3. \A d \in DOMAIN boxes : BoxGoes(boxes[d], boxes'[d])
    BY <1>4, <2>2 DEF Changes
  <2> QED BY <1>4, <2>1, <2>3, QuietKeepsOrder
<1>5. CASE Dial(c)
  <2>1. PICK b : b = [boxes[c] EXCEPT !.socket = "dialed"]
    OBVIOUS
  <2>2. Changes(c, b)
    BY <1>5, <2>1 DEF Dial, Changes
  <2>3. BoxGoes(boxes[c], b)
    BY <1>3, <1>5, <2>1 DEF BoxGoes, BoxOK, BoxFields
  <2>4. PICK m : m = MsgFrom("containerConnected", c)
    OBVIOUS
  <2>5. Extends(inbox, m, inbox') /\ Plain(m)
    BY <1>3, <1>5, <2>4, Appended DEF Dial, Deliver, Plain, MsgFrom
  <2>6. Longer(inbox, inbox')
    BY <1>3, <1>5, <2>5, LongerOne
  <2> QED BY <1>3, <1>4, <1>5, <2>2, <2>3, <2>6
<1>6. CASE Quit(c)
  <2>1. PICK b : b = [boxes[c] EXCEPT !.st = "exited", !.exit = "ok", !.reports = Append(@, "ok"),
                                      !.jobs = <<>>, !.ready = FALSE, !.model = 0]
    OBVIOUS
  <2>2. Changes(c, b) /\ inbox' = inbox
    BY <1>3, <1>6, <2>1 DEF Quit, BoxExits, Changes, BoxOK, BoxFields
  <2>3. BoxGoes(boxes[c], b)
    BY <1>3, <1>6, <2>1 DEF BoxGoes, BoxOK, BoxFields
  <2> QED BY <1>3, <1>4, <1>6, <2>2, <2>3
<1>7. CASE SocketBreaks(c)
  <2>1. PICK b : b = [boxes[c] EXCEPT !.socket = "broken"]
    OBVIOUS
  <2>2. Changes(c, b)
    BY <1>7, <2>1 DEF SocketBreaks, Changes
  <2>3. BoxGoes(boxes[c], b)
    BY <1>3, <1>7, <2>1 DEF BoxGoes, BoxOK, BoxFields
  <2>4. PICK m : m = MsgFrom("ChildFailed", c)
    OBVIOUS
  <2>5. Extends(inbox, m, inbox') /\ Plain(m)
    BY <1>3, <1>7, <2>4, Appended DEF SocketBreaks, Deliver, Plain, MsgFrom
  <2>6. Longer(inbox, inbox')
    BY <1>3, <1>7, <2>5, LongerOne
  <2> QED BY <1>3, <1>4, <1>7, <2>2, <2>3, <2>6
<1> QED BY <1>1, <1>2, <1>5, <1>6, <1>7

LEMMA OrdersKeepOrder ==
    ASSUME IInv, WInv, Experiment \/ Allocate \/ Preempt \/ \E r \in timers : TimeoutFires(r)
    PROVE  WInv'
<1>1. IsSeq(inbox) /\ Longer(inbox, inbox)
  <2>1. IsSeq(inbox)
    BY DEF IInv
  <2>2. Len(inbox) \in Nat
    BY <2>1, NothingIn
  <2> QED BY <2>1, <2>2 DEF Longer
<1>2. ASSUME t.status = "up", UNCHANGED <<t, boxes, echoes>>, Longer(inbox, inbox')
      PROVE  WInv'
  <2>1. \A d \in DOMAIN boxes : BoxGoes(boxes[d], boxes'[d])
    BY <1>2 DEF BoxGoes
  <2> QED BY <1>2, <2>1, QuietKeepsOrder
<1>3. ASSUME t.status = "up", NEW m, Plain(m), Deliver(m), UNCHANGED <<t, boxes, echoes>>
      PROVE  WInv'
  <2>1. Extends(inbox, m, inbox')
    BY <1>1, <1>3, Appended DEF Deliver
  <2> QED BY <1>1, <1>2, <1>3, <2>1, LongerOne
<1>4. ASSUME t.status = "up", NEW m, NEW n, Plain(m), Plain(n), NEW sent, sent = <<>> \/ sent = <<n>>,
             inbox' = inbox \o <<m>> \o sent, UNCHANGED <<t, boxes, echoes>>
      PROVE  WInv'
  <2>1. PICK q : q = inbox \o <<m>>
    OBVIOUS
  <2>2. Extends(inbox, m, q)
    BY <1>1, <2>1, Joined
  <2>3. IsSeq(q) /\ Longer(inbox, q)
    BY <1>1, <1>4, <2>2, LongerOne DEF Extends
  <2>4. CASE sent = <<>>
    <3>1. inbox' = q
      BY <1>4, <2>1, <2>3, <2>4, Joined
    <3> QED BY <1>2, <1>4, <2>3, <3>1
  <2>5. CASE sent = <<n>>
    <3>1. Extends(q, n, inbox')
      BY <1>4, <2>1, <2>3, <2>5, Joined
    <3>2. Longer(inbox, inbox')
      BY <1>4, <2>3, <3>1, LongerOne
    <3> QED BY <1>2, <1>4, <3>2
  <2> QED BY <1>4, <2>4, <2>5
<1>5. /\ \A type : type \notin {"Completed", "sendNextWorkload", "Operations"} =>
            Plain(Msg(type)) /\ \A x : Plain(MsgOf(type, x))
      /\ \A batch \in OpBatches : Plain(MsgOf("Operations", batch))
  BY MsgType DEF Plain
<1>6. ASSUME NEW batch \in OpBatches, NEW close \in BOOLEAN, RequestOperations(batch, close)
      PROVE  WInv'
  <2>1. PICK m : m = MsgOf("Operations", batch) /\ Plain(m)
    BY <1>5
  <2>2. PICK n : n = Msg("Close") /\ Plain(n)
    BY <1>5
  <2>3. PICK sent : sent = (IF close THEN <<n>> ELSE <<>>)
    OBVIOUS
  <2>4. t.status = "up" /\ inbox' = inbox \o <<m>> \o sent /\ UNCHANGED <<t, boxes, echoes>>
    BY <1>6, <2>1, <2>2, <2>3 DEF RequestOperations, Up
  <2> QED BY <1>4, <2>1, <2>2, <2>3, <2>4
<1>7. ASSUME NEW kill \in BOOLEAN, Cancel(kill)
      PROVE  WInv'
  <2>1. PICK m : m = MsgOf("State", "STOPPING_CANCELED") /\ Plain(m)
    BY <1>5
  <2>2. PICK n : n = Msg("killTrial") /\ Plain(n)
    BY <1>5
  <2>3. PICK sent : sent = (IF kill THEN <<n>> ELSE <<>>)
    OBVIOUS
  <2>4. t.status = "up" /\ inbox' = inbox \o <<m>> \o sent /\ UNCHANGED <<t, boxes, echoes>>
    BY <1>7, <2>1, <2>2, <2>3 DEF Cancel, Up
  <2> QED BY <1>4, <2>1, <2>2, <2>3, <2>4
<1>8. CASE RequestClose \/ Pause \/ Activate \/ Kill \/ Preempt
  <2>1. t.status = "up" /\ UNCHANGED <<t, boxes, echoes>>
    BY <1>8 DEF RequestClose, Pause, Activate, Kill, Preempt, Up
  <2>2. PICK m : Deliver(m) /\ Plain(m)
    BY <1>5, <1>8 DEF RequestClose, Pause, Activate, Kill, Preempt
  <2> QED BY <1>3, <2>1, <2>2
<1>9. CASE Allocate
  <2>1. PICK m : Deliver(m) /\ Plain(m)
    BY <1>5, <1>9 DEF Allocate
  <2> QED BY <1>3, <1>9, <2>1 DEF Allocate, Up
<1>10. CASE \E r \in timers : TimeoutFires(r)
  <2>1. PICK r \in timers : TimeoutFires(r)
    BY <1>10
  <2>2. PICK m : Deliver(m) /\ Plain(m)
    BY <1>5, <2>1 DEF TimeoutFires
  <2> QED BY <1>3, <2>1, <2>2 DEF TimeoutFires, Up
<1>11. CASE Experiment
  BY <1>6, <1>7, <1>8, <1>11, EchoKeepsOrder DEF Experiment
<1> QED BY <1>8, <1>9, <1>10, <1>11

LEMMA InitOrder == Init => WInv
<1> SUFFICES ASSUME Init PROVE WInv
  OBVIOUS
<1>1. IsSeq(<<>>) /\ 1 .. Len(<<>>) = {} /\ DOMAIN <<>> = {}
  BY EmptyInbox
<1>2. PICK s : s = Sequencer([ops |-> <<>>])!NewState(Config)
  OBVIOUS
<1>3. /\ t.ops = <<>> /\ t.state = s /\ t.snapshot = s /\ t.earlyExit = FALSE
      /\ t.containerRanks = {} /\ t.terminationSent = FALSE /\ t.terminatedContainers = <<>>
      /\ t.task = 0 /\ t.deadChildren = {} /\ t.status = "up" /\ t.runID = 0
  BY <1>2 DEF Init, NewTrial, Nothing
<1>4. DOMAIN boxes = {} /\ inbox = <<>> /\ echoes = <<>>
  BY <1>1 DEF Init, Nothing
<1>5. /\ DOMAIN s = StateFields /\ s.curOpIdx = 0 /\ s.batchesTowardsCurrentOp = 0
      /\ s.batchesSinceLastVal = 0 /\ s.batchesSinceLastCkpt = 0 /\ s.totalBatchesProcessed = 0
      /\ s.exitingEarly = FALSE /\ s.cachedCheckpoints = {}
      /\ s.latestCheckpoint = Sequencer([ops |-> <<>>])!NoWorkload
  BY <1>2 DEF Sequencer!NewState, StateFields
<1>6. s.latestCheckpoint.TotalBatchesProcessed = 0
  BY <1>5 DEF Sequencer!NoWorkload
<1>7. <<>> \in Seq(OpType) /\ Len(<<>>) = 0
  OBVIOUS
<1>8. StateOK(<<>>, FALSE, s)
  <2>1. PICK o : o = <<>>
    OBVIOUS
  <2>2. 0 \in 0 .. Len(o)
    BY <1>7, <2>1
  <2>3. s.exitingEarly => FALSE
    BY <1>5
  <2>4. \A w \in s.cachedCheckpoints : w.Kind = "CHECKPOINT_MODEL"
    BY <1>5
  <2>5. /\ s.batchesTowardsCurrentOp \in Nat /\ s.batchesSinceLastVal \in Nat
        /\ s.batchesSinceLastCkpt \in Nat /\ s.totalBatchesProcessed \in Nat
        /\ s.latestCheckpoint.TotalBatchesProcessed \in Nat
        /\ s.totalBatchesProcessed = s.latestCheckpoint.TotalBatchesProcessed + s.batchesSinceLastCkpt
    BY <1>5, <1>6
  <2>6. s.curOpIdx \in 0 .. Len(o) /\ DOMAIN s = StateFields
    BY <1>5, <2>2
  <2>7. StateOK(o, FALSE, s)
    BY <2>3, <2>4, <2>5, <2>6 DEF StateOK
  <2> QED BY <2>1, <2>7
<1>9. SeqCore(t)
  BY <1>1, <1>3, <1>5, <1>7, <1>8 DEF SeqCore, Settled
<1>10. Waiting(t)
  BY <1>3 DEF Waiting
<1>11. LeadOK(t, boxes, inbox, echoes)
  BY <1>1, <1>3, <1>4 DEF LeadOK, Completions, Resyncs, Asked
<1>12. PendingOK(t, boxes, inbox, echoes)
  BY <1>1, <1>3, <1>4 DEF PendingOK
<1> QED BY <1>1, <1>4, <1>9, <1>10, <1>11, <1>12 DEF WInv

LEMMA NextOrder == IInv /\ WInv /\ [Next]_vars => WInv'
<1> SUFFICES ASSUME IInv, WInv, [Next]_vars PROVE WInv'
  OBVIOUS
<1>1. CASE UNCHANGED vars
  BY <1>1 DEF vars, WInv
<1>2. CASE Receive
  <2>1. CASE ReceiveFromDeadChild
    BY <2>1, DeadChildKeepsOrder
  <2>2. CASE ReceiveStop
    <3>1. t'.status # "up"
      BY <2>2 DEF ReceiveStop, IInv, RunOK, IsTrial, TrialFields
    <3> QED BY <3>1 DEF WInv
  <2>3. CASE ~ReceiveFromDeadChild /\ ~ReceiveStop
    <3>1. /\ t.status = "up" /\ inbox # <<>>
          /\ \E z : MessageOutcome(z) /\ Sound(z) /\ Effects(z)
          /\ Now.type \in {"Completed", "ChildFailed"} => Now.from \notin t.deadChildren
      BY <1>2, <2>3, ReceiveSound
    <3> QED BY <3>1, EffectsKeepOrder
  <2> QED BY <2>1, <2>2, <2>3
<1>3. CASE Next /\ ~Receive
  BY <1>3, AgentsKeepOrder, HarnessesKeepOrder, OrdersKeepOrder DEF Next
<1> QED BY <1>1, <1>2, <1>3

LEMMA SizeOfOne ==
    ASSUME NEW S, AtMostOne(S)
    PROVE  Cardinality(S) = IF S = {} THEN 0 ELSE 1
<1>1. CASE S = {}
  BY <1>1, FS_EmptySet
<1>2. CASE S # {}
  <2>1. PICK x : S = {x}
    BY <1>2 DEF AtMostOne
  <2> QED BY <1>2, <2>1, FS_Singleton
<1> QED BY <1>1, <1>2

LEMMA LengthOfOne ==
    ASSUME NEW s, IsSeq(s), AtMostOne(1 .. Len(s))
    PROVE  Len(s) = IF 1 .. Len(s) = {} THEN 0 ELSE 1
<1>1. CASE s = <<>>
  <2>1. Len(s) = 0
    BY <1>1
  <2> QED BY <1>1, <2>1, EmptyInbox
<1>2. CASE s # <<>>
  BY <1>2, NothingIn, OneLong
<1> QED BY <1>1, <1>2

\* The leader the properties speak of.
LEMMA LeaderIsLead ==
    ASSUME IInv, WInv, Up, Leader \in DOMAIN boxes
    PROVE  /\ Leader = Lead(t) /\ IsSeq(boxes[Leader].jobs) /\ IsSeq(boxes[Leader].done)
           /\ \E C, R, E :
                 /\ C = Completions(inbox, Leader) /\ R = Resyncs(inbox, t.runID)
                 /\ E = Asked(echoes, t.runID)
                 /\ InOrder(t, boxes[Leader], inbox, Leader, C, R, E)
                 /\ InStep(t, boxes[Leader], inbox, C)
<1>1. /\ LeadOK(t, boxes, inbox, echoes) /\ PendingOK(t, boxes, inbox, echoes)
  BY DEF WInv, Up
<1>2. Leader[1] = t.task /\ Leader[1] \in 1 .. t.runID + 1 /\ t.runID \in Nat /\ t.task \in {0, t.runID + 1}
  BY DEF IInv, BoxesOK, RunOK, Leader
<1>3. Leader = Lead(t)
  <2>1. t.task = t.runID + 1
    BY <1>2
  <2> QED BY <2>1 DEF Leader, Lead
<1> QED BY <1>1, <1>3 DEF LeadOK, PendingOK, BoxPending

LEMMA OrderOfWork == IInv /\ WInv => OneWorkloadInFlight
<1> SUFFICES ASSUME IInv, WInv, Up, Leader \in DOMAIN boxes PROVE InFlight <= 1
  BY DEF OneWorkloadInFlight
<1>1. PICK b : b = boxes[Leader] /\ IsSeq(b.jobs) /\ IsSeq(b.done)
  BY LeaderIsLead
<1>2. PICK C : C = {i \in 1 .. Len(inbox) : inbox[i].type = "Completed" /\ inbox[i].from = Leader}
  OBVIOUS
<1>3. PICK R : R = {i \in 1 .. Len(inbox) : inbox[i] = MsgOf("sendNextWorkload", t.runID)}
  OBVIOUS
<1>4. PICK E : E = {i \in 1 .. Len(echoes) : echoes[i] = t.runID}
  OBVIOUS
<1>5. C = Completions(inbox, Leader) /\ R \subseteq Resyncs(inbox, t.runID) /\ E = Asked(echoes, t.runID)
  BY <1>2, <1>3, <1>4, MsgType DEF Completions, Resyncs, Asked
<1>6. Exclusive(1 .. Len(b.jobs), 1 .. Len(b.done), C, R, E)
  <2>1. Exclusive(1 .. Len(b.jobs), 1 .. Len(b.done), C, Resyncs(inbox, t.runID), E)
    BY <1>1, <1>5, LeaderIsLead DEF InOrder
  <2>2. AtMostOne(R)
    BY <1>5, <2>1 DEF Exclusive, AtMostOne
  <2> QED BY <1>5, <2>1, <2>2 DEF Exclusive
<1>7. /\ Len(b.jobs) = IF 1 .. Len(b.jobs) = {} THEN 0 ELSE 1
      /\ Len(b.done) = IF 1 .. Len(b.done) = {} THEN 0 ELSE 1
      /\ Cardinality(C) = IF C = {} THEN 0 ELSE 1
      /\ Cardinality(R) = IF R = {} THEN 0 ELSE 1
      /\ Cardinality(E) = IF E = {} THEN 0 ELSE 1
  BY <1>1, <1>6, SizeOfOne, LengthOfOne DEF Exclusive
<1>8. Len(b.jobs) + Len(b.done) + Cardinality(C) + Cardinality(R) + Cardinality(E) <= 1
  <2>1. PICK j, d, c, r, e : /\ j = Len(b.jobs) /\ d = Len(b.done) /\ c = Cardinality(C)
                             /\ r = Cardinality(R) /\ e = Cardinality(E)
    OBVIOUS
  <2>2. /\ j \in {0, 1} /\ d \in {0, 1} /\ c \in {0, 1} /\ r \in {0, 1} /\ e \in {0, 1}
        /\ j = 1 => d = 0 /\ c = 0 /\ r = 0 /\ e = 0
        /\ d = 1 => c = 0 /\ r = 0 /\ e = 0
        /\ c = 1 => r = 0 /\ e = 0
        /\ r = 1 => e = 0
    BY <1>6, <1>7, <2>1 DEF Exclusive
  <2>3. j + d + c + r + e <= 1
    BY <2>2
  <2> QED BY <2>1, <2>3
<1> QED BY <1>1, <1>2, <1>3, <1>4, <1>8 DEF InFlight

LEMMA OrderOfModels == IInv /\ WInv => ModelInStepUnlessCancelled
<1> SUFFICES ASSUME IInv, WInv, ~t.cancelUnready, Up, Leader \in DOMAIN boxes, Alive(Leader),
                    Completions(inbox, Leader) = {}, boxes[Leader].done = <<>>
             PROVE  boxes[Leader].model = t.state.totalBatchesProcessed
  BY DEF ModelInStepUnlessCancelled, ModelInStep, Completions
<1> QED BY LeaderIsLead DEF InStep, Alive

\* What the trial may refuse never arrives.
Accepted == (Up => LastOK(t.ops)) /\ t.status # "failed"

LEMMA NextAccepted ==
    ASSUME \A b \in OpBatches : LastOK(b)
    PROVE  IInv /\ WInv /\ Accepted /\ [Next]_vars => Accepted'
<1> SUFFICES ASSUME IInv, WInv, Accepted, [Next]_vars PROVE Accepted'
  OBVIOUS
<1>1. CASE t' = t
  BY <1>1 DEF Accepted, Up
<1>2. CASE Receive /\ ~ReceiveFromDeadChild /\ ~ReceiveStop
  <2>1. /\ t.status = "up" /\ inbox # <<>>
        /\ \E z : MessageOutcome(z) /\ Sound(z) /\ Effects(z)
    BY <1>2, ReceiveSound
  <2>2. PICK z : MessageOutcome(z) /\ Sound(z) /\ Effects(z)
    BY <2>1
  <2>3. t'.status = z.status /\ t'.ops = z.ops
    BY <2>2, OutcomeIsTrial DEF Effects, MessageOutcome, IsTrial, TrialFields
  <2>4. LastOK(t.ops) /\ z.status # "failed"
    BY <2>1, <2>2 DEF Accepted, Up, Sound
  <2>5. ASSUME z.status = "up" PROVE LastOK(z.ops)
    <3>1. z.ops = IF Now.type = "Operations" THEN t.ops \o Now.of ELSE t.ops
      BY <2>2, <2>5 DEF Sound, Post
    <3>2. CASE Now.type # "Operations"
      BY <2>4, <3>1, <3>2
    <3>3. CASE Now.type = "Operations"
      <4>1. PICK b : b = Now.of
        OBVIOUS
      <4>2. b \in OpBatches
        <5>1. 1 \in 1 .. Len(inbox) /\ Now = inbox[1]
          BY <2>1, NowIsFirst DEF IInv
        <5> QED BY <2>1, <3>3, <4>1, <5>1 DEF WInv, PendingOK, MsgPending
      <4>3. b \in Seq(OpType)
        BY <4>2, BatchesTyped
      <4>4. t.ops \in Seq(OpType)
        BY <2>1 DEF WInv, SeqCore
      <4>6. CASE b = <<>>
        <5>1. t.ops \o b = t.ops
          BY <4>4, <4>6
        <5> QED BY <2>4, <3>1, <3>3, <4>1, <5>1
      <4>7. CASE b # <<>>
        <5>1. LastOK(b) /\ Len(b) \in Nat /\ Len(b) # 0 /\ Len(t.ops) \in Nat
          BY <4>2, <4>3, <4>4, <4>7
        <5>2. PICK o : o = t.ops \o b
          OBVIOUS
        <5>3. Len(o) = Len(t.ops) + Len(b) /\ o[Len(t.ops) + Len(b)] = b[Len(b)]
          BY <4>3, <4>4, <5>1, <5>2
        <5> QED BY <3>1, <3>3, <4>1, <4>7, <5>1, <5>2, <5>3 DEF LastOK
      <4> QED BY <4>6, <4>7
    <3> QED BY <3>2, <3>3
  <2> QED BY <2>3, <2>4, <2>5 DEF Accepted, Up
<1>3. CASE ReceiveStop
  <2>1. t'.status = "stopped"
    BY <1>3 DEF ReceiveStop, IInv, RunOK, IsTrial, TrialFields
  <2> QED BY <2>1 DEF Accepted, Up
<1>4. CASE ReceiveFromDeadChild \/ Agents \/ Harnesses \/ Experiment \/ Allocate \/ Preempt
           \/ \E r \in timers : TimeoutFires(r)
  BY <1>1, <1>4 DEF ReceiveFromDeadChild, Agents, Harnesses, Experiment, Allocate, Preempt,
     TimeoutFires, BoxRuns, BoxKilled, BoxCrashes, Report, Dial, Quit, Relay, SocketBreaks, Work,
     RequestOperations, RequestClose, Echo, Pause, Activate, Kill, Cancel
<1> QED BY <1>1, <1>2, <1>3, <1>4 DEF Next, vars

LEMMA WorkInvariant == Spec => []WInv
BY InitOrder, NextOrder, TrialInvariant, PTL DEF Spec

\* processCompletedWorkload, sendNextWorkload and the leader alternate: whatever
\* crashes, is preempted, paused, killed or late, a workload, its completion and the
\* answer of the experiment to it are never in flight twice.
THEOREM OneWorkloadAtATime == Spec => []OneWorkloadInFlight
BY OrderOfWork, WorkInvariant, TrialInvariant, PTL

\* Through restore(), the checkpoint before a run ends, preemptions and restarts, the
\* leader of a run that was not cancelled before it was ready holds the model the
\* sequencer counts.
THEOREM ModelStaysInStep == Spec => []ModelInStepUnlessCancelled
BY OrderOfModels, WorkInvariant, TrialInvariant, PTL

\* If the last operation of a request of the search method is never a checkpoint, no
\* completed workload is refused as illegal and no run starts without a workload.
THEOREM CompletionsStayInOrder ==
    ASSUME \A b \in OpBatches : LastOK(b)
    PROVE  Spec => []CompletionsInOrder
<1>1. Init => Accepted
  <2>1. Init => t.ops = <<>> /\ t.status = "up"
    BY DEF Init, NewTrial
  <2> QED BY <2>1 DEF Accepted, LastOK
<1>2. IInv /\ WInv /\ Accepted /\ [Next]_vars => Accepted'
  BY NextAccepted
<1>3. IInv /\ WInv /\ Accepted => CompletionsInOrder
  BY OrderOfWork DEF CompletionsInOrder, NeverFails, Accepted
<1> QED BY <1>1, <1>2, <1>3, WorkInvariant, TrialInvariant, PTL DEF Spec
=============================================================================
