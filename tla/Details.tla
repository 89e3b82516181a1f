------------------------------ MODULE Details ------------------------------
(***************************************************************************)
(* The page of an experiment and the page of a trial (webui/react/src/     *)
(* pages/ExperimentDetails.tsx, ExperimentDetailPage.tsx, TrialDetails.tsx *)
(* with their buttons and dialogues).  Both poll what they show until it   *)
(* has ended, refetch after an action, and let the user edit a             *)
(* configuration from which a new experiment is made.  Experiment 1, or    *)
(* its trial, is the one the page is opened for; the master and other      *)
(* users are external.  Texts of errors and tables are left out.           *)
(***************************************************************************)
EXTENDS Workloads

CONSTANTS
    Script,     \* the workloads of the trial, in the order they are done
    Buttons,    \* actions the user may choose
    MaxFaults,  \* requests that fail
    MaxAsked,   \* what the user asks for: actions and new experiments
    MaxAsks     \* requests of the trial's page for its experiment

ASSUME DetailsAssumption ==
    /\ Script \in Seq([kind : Kinds, numBatches : Nat, prior : Nat, state : STRING,
                       metrics : SUBSET STRING])
    /\ Buttons \subseteq {"Activate", "Archive", "Cancel", "Kill", "Pause", "Tensorboard",
                          "Unarchive"}
    /\ {MaxFaults, MaxAsked} \subseteq Nat /\ MaxAsks \in Nat \ {0}

VARIABLES
    page,      \* "experiment" or "trial"
    route,     \* the number of the experiment in the address
    server,    \* [state, done, archived], what the master has of it
    faults,    \* requests that have failed
    closures,  \* version -> [id, error], what fetchDetails was made with
    view,      \* [data, trials, error], whether an end and which new experiment was shown
    poll, mounted,   \* the hook usePolling
    fetches,   \* calls of fetchDetails
    asks,      \* the trial's page: requests for the experiment, as a bag
    table,     \* the trial's page: experiment there, metrics chosen and stored
    dlg,       \* the form, the editor and the configuration they are for
    posts,     \* requests to make an experiment
    acts,      \* actions under way
    asked      \* how much the user has asked for

vars == <<page, route, server, faults, closures, view, poll, mounted, fetches, asks, table, dlg,
          posts, acts, asked>>

version == Len(closures)
P == INSTANCE Polling
X == INSTANCE ExperimentState

RunStates == {"ACTIVE", "PAUSED", "STOPPING_CANCELED", "CANCELED", "COMPLETED"}
terminalRunStates == {"CANCELED", "COMPLETED"}
killableRunStates == {"ACTIVE", "PAUSED", "STOPPING_CANCELED"}
cancellableRunStates == {"ACTIVE", "PAUSED"}
Nothing == [id |-> 0]
Unset == {"unset"}                   \* no metrics in storage
Searched == {"loss"}                 \* the metric of the searcher
Metrics == {{}, Searched, {"acc"}}
Asks == [default : BOOLEAN, key : BOOLEAN]
NoAsks == [a \in Asks |-> 0]

(* Storage.getWithDefault *)
getWithDefault(stored, default) == IF stored # Unset THEN stored ELSE default

BlankView == [data |-> Nothing, trials |-> 0, error |-> FALSE, seen |-> FALSE, top |-> 0]
FreshConfig == "fresh"               \* made by the page of what is loaded
BlankDlg == [form |-> FALSE, modal |-> FALSE, config |-> "Loading"]

Ended(data) == data # Nothing /\ data.state \in terminalRunStates
(* What a request for experiment id is answered; a new one has just begun. *)
Snapshot(id) ==
    IF id = 1 THEN [id |-> 1, state |-> server.state, done |-> server.done,
                    archived |-> server.archived]
    ELSE [id |-> id, state |-> "ACTIVE", done |-> 0, archived |-> FALSE]
WorkloadsOf(data) == SubSeq(Script, 1, IF data = Nothing THEN 0 ELSE data.done)
-----------------------------------------------------------------------------
(* fetchExperimentDetails awaits the experiment, then its trials, then the *)
(* history of validations, and only then sets the state; fetchTrialDetails *)
(* awaits one answer.                                                      *)
Fetch(by, v) == [by |-> by, v |-> v, at |-> "details", data |-> Nothing, trials |-> 0]

\* A mutant of Reads: the trials are asked for before the experiment.
ReadsTrialsFirst(f) ==
    LET now == Snapshot(closures[f.v].id) IN
    IF f.at = "details" /\ page = "experiment"
    THEN [f EXCEPT !.trials = now.done, !.at = "trials"]
    ELSE [f EXCEPT !.data = now, !.at = "last"]

Reads(f) ==
    LET now == Snapshot(closures[f.v].id) IN
    IF f.at = "details"
    THEN [f EXCEPT !.data = now, !.at = IF page = "experiment" THEN "trials" ELSE "last"]
    ELSE [f EXCEPT !.trials = now.done, !.at = "last"]

(* The trial's page aborts its requests when it is left. *)
Aborted == page = "trial" /\ ~mounted

Answered(f) ==
    /\ f.at # "last" /\ ~Aborted
    /\ fetches' = (fetches \ {f}) \cup {Reads(f)}
    /\ UNCHANGED <<page, route, server, faults, closures, view, poll, mounted, asks, table, dlg, posts,
                   acts, asked>>

(* What pollingRoutine does after its call. *)
Routine(p, f) == IF f.by = 0 THEN P!Settled(p, f.v) ELSE p

\* A mutant of StopEffect: what is loaded is taken to have ended.
StopLoaded(p, data) == IF mounted /\ data # Nothing THEN P!Stopped(p) ELSE p

(* The effect on new data: stop polling what has ended. *)
StopEffect(p, data) == IF mounted /\ Ended(data) THEN P!Stopped(p) ELSE p

\* A mutant of Shows: an answer does not replace another.
ShowsFirst(f) ==
    IF view.data # Nothing THEN view
    ELSE [view EXCEPT !.data = f.data, !.trials = f.trials, !.seen = @ \/ Ended(f.data),
                      !.top = Max({@, f.data.id})]

Shows(f) ==
    IF ~mounted THEN view
    ELSE IF view.error THEN [view EXCEPT !.seen = @ \/ Ended(f.data)]
    ELSE [view EXCEPT !.data = f.data, !.trials = f.trials, !.seen = @ \/ Ended(f.data),
                      !.top = Max({@, f.data.id})]

(* extractMetricNames, as far as the default metrics depend on it *)
HasDefault(data) == [type |-> "validation", name |-> "loss"] \in extractMetricNames(WorkloadsOf(data))

Asked(bag, data, key) ==
    LET a == [default |-> HasDefault(data), key |-> key] IN [bag EXCEPT ![a] = @ + 1]

Total(bag) ==
    LET Of(default) == bag[[default |-> default, key |-> TRUE]]
                       + bag[[default |-> default, key |-> FALSE]]
    IN  Of(TRUE) + Of(FALSE)

Room(bag) == Total(bag) < MaxAsks

\* A mutant of Refreshed: the configuration is made once.
RefreshedOnce(d, loaded) ==
    IF loaded /\ d.config = "Loading" THEN [d EXCEPT !.config = "fresh"] ELSE d

(* setFreshForkConfig, setFreshContinueConfig: as long as no dialogue is   *)
(* open the configuration follows what is loaded.                          *)
Refreshed(d, loaded) ==
    IF loaded /\ ~d.form /\ ~d.modal THEN [d EXCEPT !.config = FreshConfig] ELSE d

Loaded(v, t) == v.data # Nothing /\ (page = "trial" => t.experiment)

(* The last answer sets the state.  The three renders of the experiment's  *)
(* page run the effect before the routine goes on and sets its timer; with *)
(* the one render of the trial's page either may come first.  New          *)
(* workloads are new metric names, for which the trial's page asks for its *)
(* experiment again.                                                       *)
FetchDone(f) ==
    /\ f.at = "last" /\ ~Aborted
    /\ page = "trial" => Room(asks)
    /\ fetches' = fetches \ {f}
    /\ view' = Shows(f)
    /\ \/ poll' = Routine(StopEffect(poll, f.data), f)
       \/ page = "trial" /\ poll' = StopEffect(Routine(poll, f), f.data)
    /\ asks' = IF page = "trial" /\ ~view.error THEN Asked(asks, f.data, table.experiment) ELSE asks
    /\ dlg' = IF mounted THEN Refreshed(dlg, Loaded(view', table)) ELSE dlg
    /\ UNCHANGED <<page, route, server, faults, closures, mounted, table, posts, acts, asked>>

\* A mutant of FetchFails: the error leaves the routine.
FetchThrows(f) ==
    /\ faults < MaxFaults /\ ~Aborted
    /\ faults' = faults + 1
    /\ fetches' = fetches \ {f}
    /\ UNCHANGED <<page, route, server, closures, view, poll, mounted, asks, table, dlg, posts, acts, asked>>

(* What is behind a message, or gone with the page *)
Behind ==
    /\ asks' = NoAsks /\ dlg' = BlankDlg
    /\ table' = [table EXCEPT !.experiment = FALSE, !.metrics = {}]

(* A request fails.  The function that is polled depends on the error, so  *)
(* an error that is set makes a new one, which polls before or after the   *)
(* old one has set its timer.  No answer ever clears the error, so what    *)
(* the page keeps behind its message is left out from here on.             *)
FetchFails(f) ==
    /\ faults < MaxFaults \/ Aborted
    /\ faults' = IF Aborted THEN faults ELSE faults + 1
    /\ IF mounted /\ ~closures[f.v].error
       THEN /\ view' = [BlankView EXCEPT !.error = TRUE, !.seen = view.seen]
            /\ Behind
            /\ closures' = Append(closures, [id |-> route, error |-> TRUE])
            /\ fetches' = (fetches \ {f}) \cup {Fetch(0, version + 1)}
            /\ \/ poll' = P!Changed(Routine(poll, f), version + 1)
               \/ poll' = Routine(P!Changed(poll, version + 1), f)
       ELSE /\ fetches' = fetches \ {f}
            /\ poll' = Routine(poll, f)
            /\ UNCHANGED <<view, closures, asks, dlg, table>>
    /\ UNCHANGED <<page, route, server, mounted, posts, acts, asked>>

TimerFires(v) ==
    /\ v \in poll.pending /\ Room(asks)
    /\ poll' = P!Fired(poll, v)
    /\ fetches' = fetches \cup {Fetch(0, v)}
    /\ UNCHANGED <<page, route, server, faults, closures, view, mounted, asks, table, dlg, posts, acts, asked>>
-----------------------------------------------------------------------------
(* The page is there for the user: neither a spinner nor an error.         *)
Shown == mounted /\ ~view.error /\ Loaded(view, table)
Bare == Shown /\ ~dlg.form /\ ~dlg.modal

\* A mutant of ExperimentAnswered: what is stored is not looked up.
AnsweredWithoutKey(a) ==
    /\ asks[a] > 0
    /\ LET rest == [asks EXCEPT ![a] = @ - 1] IN
       asks' = IF table.experiment THEN rest ELSE Asked(rest, view.data, TRUE)
    /\ table' = [table EXCEPT !.experiment = TRUE, !.metrics = IF a.default THEN Searched ELSE {}]
    /\ dlg' = Refreshed(dlg, Loaded(view, table'))
    /\ UNCHANGED <<page, route, server, faults, closures, view, poll, mounted, fetches, posts, acts, asked>>

(* The trial's page gets its experiment, whose number is in the key under  *)
(* which metrics are stored: the first answers come too early to use it.   *)
ExperimentAnswered(a) ==
    /\ asks[a] > 0
    /\ LET rest == [asks EXCEPT ![a] = @ - 1] IN
       asks' = IF table.experiment THEN rest ELSE Asked(rest, view.data, TRUE)
    /\ table' = [table EXCEPT
                   !.experiment = TRUE,
                   !.metrics = LET default == IF a.default THEN Searched ELSE {}
                               IN  IF a.key THEN getWithDefault(table.stored, default) ELSE default]
    /\ dlg' = Refreshed(dlg, Loaded(view, table'))
    /\ UNCHANGED <<page, route, server, faults, closures, view, poll, mounted, fetches, posts, acts, asked>>

ExperimentRefused(a) ==
    /\ asks[a] > 0 /\ faults < MaxFaults
    /\ asks' = [asks EXCEPT ![a] = @ - 1]
    /\ faults' = faults + 1
    /\ UNCHANGED <<page, route, server, closures, view, poll, mounted, fetches, table, dlg, posts, acts, asked>>

handleMetricChange(value) ==
    /\ page = "trial" /\ Bare /\ table.metrics # value
    /\ table' = [table EXCEPT !.metrics = value, !.stored = value]
    /\ UNCHANGED <<page, route, server, faults, closures, view, poll, mounted, fetches, asks, dlg, posts,
                   acts, asked>>
-----------------------------------------------------------------------------
(* The dialogues.  `config` tells how the configuration came about: made   *)
(* by the page, from the form, or typed, which may leave it unreadable.    *)
SetDlg(d) ==
    /\ dlg' = d
    /\ UNCHANGED <<page, route, server, faults, closures, view, poll, mounted, fetches, asks, table, acts>>

showForkModal == page = "experiment" /\ Bare /\ SetDlg([dlg EXCEPT !.modal = TRUE]) /\ UNCHANGED <<posts, asked>>

(* TrialActions: a trial that has a checkpoint can be continued from it,   *)
(* and one that has ended without metrics has nothing for TensorBoard.     *)
TrialButtons(data) ==
    LET steps == workloadsToSteps(WorkloadsOf(data)) IN
    {b \in {"Continue", "Tensorboard"} :
        IF b = "Continue" THEN \E n \in DOMAIN steps : hasCheckpoint(steps[n])
        ELSE ~Ended(data) \/ hasData(WorkloadsOf(data))}

handleActionClick ==
    /\ page = "trial" /\ Bare /\ "Continue" \in TrialButtons(view.data)
    /\ SetDlg([dlg EXCEPT !.form = TRUE]) /\ UNCHANGED <<posts, asked>>

handleContFormCancel ==
    Shown /\ dlg.form /\ SetDlg(Refreshed([dlg EXCEPT !.form = FALSE], TRUE)) /\ UNCHANGED <<posts, asked>>

(* updateStatesFromForm: the form's values into the configuration, unless  *)
(* that cannot be read                                                     *)
updateStatesFromForm(d) == IF d.config = "bad" THEN d ELSE [d EXCEPT !.config = "form"]

handleEditContConfig ==
    /\ Shown /\ dlg.form
    /\ SetDlg([updateStatesFromForm(dlg) EXCEPT !.form = FALSE, !.modal = TRUE]) /\ UNCHANGED <<posts, asked>>

Post(from, config) ==
    /\ asked < MaxAsked
    /\ posts' = posts \cup {[n |-> asked, from |-> from, config |-> config]}
    /\ asked' = asked + 1

(* The form stays open until the answer. *)
handleFormCreate ==
    /\ Shown /\ dlg.form
    /\ Post("form", IF dlg.config = "bad" THEN "undefined" ELSE "form")
    /\ SetDlg(updateStatesFromForm(dlg))

editorOnChange ==
    /\ Shown /\ dlg.modal
    /\ \E c \in {"typed", "bad"} \ {dlg.config} : SetDlg([dlg EXCEPT !.config = c])
    /\ UNCHANGED <<posts, asked>>

(* The editor posts what can be read as YAML. *)
handleOk == Shown /\ dlg.modal /\ dlg.config # "bad" /\ Post("modal", dlg.config) /\ SetDlg(dlg)

handleCancel ==
    Shown /\ dlg.modal /\ SetDlg(Refreshed([dlg EXCEPT !.modal = FALSE], TRUE)) /\ UNCHANGED <<posts, asked>>

(* The page is unmounted: its state is gone, its timer is stopped, and the *)
(* trial's page aborts its requests.  Answers to what the user asked for   *)
(* no longer concern it.                                                   *)
Gone ==
    /\ mounted' = FALSE
    /\ poll' = P!Stopped(poll)
    /\ view' = BlankView /\ Behind
    /\ posts' = {} /\ acts' = {}

\* A mutant of routeAll: the function that is polled does not depend on the number.
RouteSameFetch(p, id) ==
    IF page = "experiment"
    THEN /\ route' = id
         /\ dlg' = Refreshed([dlg EXCEPT !.modal = FALSE], Loaded(view, table))
         /\ posts' = posts \ {p}
         /\ UNCHANGED <<mounted, asks, view, table, closures, poll, fetches, acts>>
    ELSE Gone /\ UNCHANGED <<route, closures, fetches>>

(* The page of a new experiment is the same page with another number; it   *)
(* takes the place of a trial's page.                                      *)
routeAll(p, id) ==
    IF page = "experiment"
    THEN /\ route' = id
         /\ closures' = Append(closures, [id |-> id, error |-> view.error])
         /\ poll' = P!Changed(poll, version + 1)
         /\ fetches' = fetches \cup {Fetch(0, version + 1)}
         /\ dlg' = Refreshed([dlg EXCEPT !.modal = FALSE], Loaded(view, table))
         /\ posts' = posts \ {p}
         /\ UNCHANGED <<mounted, asks, view, table, acts>>
    ELSE Gone /\ UNCHANGED <<route, closures, fetches>>

Created(p) == routeAll(p, 2 + p.n) /\ UNCHANGED <<page, server, faults, asked>>

\* A mutant of NotCreated: the form is closed before the editor is opened.
NotCreatedFormFirst(p) ==
    /\ faults < MaxFaults
    /\ faults' = faults + 1
    /\ posts' = posts \ {p}
    /\ dlg' = IF p.from = "form" /\ ~view.error
              THEN [Refreshed([dlg EXCEPT !.form = FALSE], Loaded(view, table)) EXCEPT !.modal = TRUE]
              ELSE dlg
    /\ UNCHANGED <<page, route, server, closures, view, poll, mounted, fetches, asks, table, acts, asked>>

(* A form that was refused is replaced by the editor. *)
NotCreated(p) ==
    /\ faults < MaxFaults
    /\ faults' = faults + 1
    /\ posts' = posts \ {p}
    /\ dlg' = IF p.from = "form" /\ ~view.error THEN [dlg EXCEPT !.modal = TRUE, !.form = FALSE] ELSE dlg
    /\ UNCHANGED <<page, route, server, closures, view, poll, mounted, fetches, asks, table, acts, asked>>
-----------------------------------------------------------------------------
(* The buttons: what the state of the last render shows of them.           *)
showIf(b, data) ==
    CASE b = "Kill"        -> data.state \in killableRunStates
      [] b = "Cancel"      -> data.state \in cancellableRunStates
      [] b = "Pause"       -> data.state = "ACTIVE"
      [] b = "Activate"    -> data.state = "PAUSED"
      [] b = "Archive"     -> Ended(data) /\ ~data.archived
      [] b = "Unarchive"   -> Ended(data) /\ data.archived
      [] b = "Tensorboard" -> ~Ended(data) \/ view.trials > 0

Click(b) ==
    /\ Bare /\ asked < MaxAsked /\ view.data.id = 1
    /\ IF page = "trial" THEN b \in TrialButtons(view.data) ELSE showIf(b, view.data)
    /\ page = "experiment" => ~ \E a \in acts : a.button = b
    /\ acts' = acts \cup {[n |-> asked + 1, button |-> b, v |-> version]}
    /\ asked' = asked + 1
    /\ UNCHANGED <<page, route, server, faults, closures, view, poll, mounted, fetches, asks, table, dlg, posts>>

(* handleStateChange returns from its try, so that onSettled is called for *)
(* the other actions only; it calls the function of the render that was    *)
(* clicked on.                                                             *)
Settles(b) == b \notin {"Activate", "Cancel", "Pause"}

ActDone(a) ==
    /\ X!Accepts(a.button, server)
    /\ acts' = acts \ {a}
    /\ server' = X!Applied(a.button, server)
    /\ fetches' = IF Settles(a.button) THEN fetches \cup {Fetch(a.n, a.v)} ELSE fetches
    /\ UNCHANGED <<page, route, faults, closures, view, poll, mounted, asks, table, dlg, posts, asked>>

ActRefused(a) ==
    /\ ~X!Accepts(a.button, server) \/ faults < MaxFaults
    /\ faults' = IF X!Accepts(a.button, server) THEN faults + 1 ELSE faults
    /\ acts' = acts \ {a}
    /\ UNCHANGED <<page, route, server, closures, view, poll, mounted, fetches, asks, table, dlg, posts, asked>>

Leave ==
    /\ mounted /\ Gone
    /\ UNCHANGED <<page, route, server, faults, closures, fetches, asked>>

(* The experiment goes on (external). *)
Works ==
    /\ \/ server.state = "ACTIVE" /\ server.done < Len(Script)
          /\ server' = [server EXCEPT !.done = @ + 1]
       \/ server.state = "ACTIVE" /\ server.done = Len(Script)
          /\ server' = [server EXCEPT !.state = "COMPLETED"]
       \/ server.state = "STOPPING_CANCELED"
          /\ server' = X!Stopped(server)
    /\ UNCHANGED <<page, route, faults, closures, view, poll, mounted, fetches, asks, table, dlg, posts,
                   acts, asked>>
-----------------------------------------------------------------------------
Init ==
    /\ page \in {"experiment", "trial"}
    /\ route = 1
    /\ server = [state |-> "ACTIVE", done |-> 0, archived |-> FALSE]
    /\ faults = 0
    /\ closures = <<[id |-> 1, error |-> FALSE]>>
    /\ view = BlankView
    /\ poll = P!Fresh /\ mounted = TRUE
    /\ fetches = {Fetch(0, 1)}
    /\ asks = NoAsks
    /\ table \in [experiment : {FALSE}, metrics : {{}},
                  stored : IF page = "trial" THEN {Unset, {"acc"}} ELSE {Unset}]
    /\ dlg = BlankDlg
    /\ posts = {} /\ acts = {} /\ asked = 0

FetchStep(f) == Answered(f) \/ FetchDone(f) \/ FetchFails(f)
AskStep(a) == ExperimentAnswered(a) \/ ExperimentRefused(a)

(* What the user may do: on the page of an experiment, on that of a trial, *)
(* and in the editor, which both have.                                     *)
ExperimentInput == showForkModal
TrialInput ==
    \/ handleMetricChange({"acc"}) \/ handleActionClick
    \/ handleContFormCancel \/ handleEditContConfig \/ handleFormCreate
EditorInput == editorOnChange \/ handleOk \/ handleCancel

Next ==
    \/ \E f \in fetches : FetchStep(f)
    \/ \E v \in 1..version : TimerFires(v)
    \/ \E a \in Asks : AskStep(a)
    \/ ExperimentInput \/ TrialInput \/ EditorInput
    \/ \E p \in posts : Created(p) \/ NotCreated(p)
    \/ \E b \in Buttons : Click(b)
    \/ \E a \in acts : ActDone(a) \/ ActRefused(a)
    \/ Leave \/ Works

Spec == Init /\ [][Next]_vars

MaxVersions == 1 + MaxFaults + MaxAsked

(* Timers go off, and requests are answered or fail. *)
Fairness ==
    /\ WF_vars(\E v \in 1..version : TimerFires(v))
    /\ \A v \in 1..MaxVersions : WF_vars(\E f \in fetches : f.by = 0 /\ f.v = v /\ FetchStep(f))
    /\ WF_vars(\E f \in fetches : f.by > 0 /\ FetchStep(f))
    /\ \A k \in BOOLEAN : WF_vars(\E a \in Asks : a.key = k /\ AskStep(a))

FairSpec == Spec /\ Fairness
-----------------------------------------------------------------------------
(* Types; and every routine of usePolling that awaits has its one call of  *)
(* fetchDetails under way, whose closures never forget an error.           *)
TypeOK ==
    /\ page \in {"experiment", "trial"} /\ mounted \in BOOLEAN
    /\ server \in [state : RunStates, done : 0..Len(Script), archived : BOOLEAN]
    /\ version \in 1..MaxVersions /\ faults \in 0..MaxFaults
    /\ poll \in [ref : 0..version, pending : SUBSET (1..version), awaiting : SUBSET (1..version)]
    /\ poll.awaiting = {f.v : f \in {g \in fetches : g.by = 0}}
    /\ mounted => view.error = closures[version].error
    /\ asks \in [Asks -> 0..MaxAsks]
    /\ table.metrics \in Metrics /\ table.stored \in Metrics \cup {Unset}
    /\ dlg \in [form : BOOLEAN, modal : BOOLEAN, config : {"Loading", "fresh", "form", "typed", "bad"}]

(* usePolling keeps one timer and one routine for each function, and the   *)
(* page goes on asking until an answer said that the experiment or trial   *)
(* has ended, whatever fails, is refetched or forked meanwhile.            *)
PollsUntilEnd ==
    /\ P!OneTimer(poll) /\ P!OneRoutine(poll)
    /\ P!StillPolling(poll, mounted /\ ~view.seen)

(* fetchExperimentDetails reads the state before the trials: an experiment *)
(* that is shown as ended, and may not be polled any more, is shown with   *)
(* the trials and histories it ended with.                                 *)
EndedShowsAllTrials ==
    page = "experiment" /\ Ended(view.data) /\ view.data.id = 1 => view.trials = server.done

(* No dialogue posts a configuration that cannot be read: the editor       *)
(* checks, and what was typed into it is gone before the form, which does  *)
(* not, is open again.                                                     *)
PostsAreConfigs == \A p \in posts : p.config \in {"fresh", "form", "typed"}

(* What the user has put into an open dialogue is never replaced by the    *)
(* page's own configuration, though polling remakes that all the time ("do *)
(* not reset the config if the modal is open") and the form turns into the *)
(* editor when its experiment is refused.                                  *)
EditsSurvive ==
    [][(dlg.form \/ dlg.modal) /\ (dlg'.form \/ dlg'.modal) /\ dlg.config # "fresh"
         => dlg'.config # "fresh"]_vars

(* The end of an experiment or trial comes to be shown, unless an error    *)
(* takes the page or the user leaves.  (The trial's page need not keep     *)
(* showing it: the answer to an older call of onSettled replaces it when   *)
(* polling has already stopped.)                                           *)
EndIsSeen ==
    (route = 1 /\ server.state \in terminalRunStates)
       ~> (view.seen \/ view.error \/ ~mounted \/ route # 1)

(* The page that a fork opens comes to show the new experiment, although   *)
(* it is the old page with calls for the old experiment under way.  (It    *)
(* may not go on doing so: one of those calls, answered after it, sets its *)
(* own timer in place of the new one.)                                     *)
ForkIsShown == (view.top < route) ~> (view.top >= route \/ view.error \/ ~mounted)

(* Not the case: the page keeps polling the experiment in the address.     *)
KeepsToTheFork ==
    (mounted /\ ~view.seen) => \E v \in poll.pending \cup poll.awaiting : closures[v].id = route

(* Metrics the user chose, in this visit or before, are what the table of  *)
(* a running trial comes to show, although the first answers come before   *)
(* the key they are stored under is known.                                 *)
StoredMetricsShown ==
    (Shown /\ page = "trial" /\ table.stored # Unset)
       ~> (table.metrics = table.stored \/ view.seen \/ ~Shown)

(* workloadsToSteps on every short sequence of workloads: a row for every  *)
(* number of batches at which one ended, and in it the last of each kind.  *)
StepsComplete ==
    \A ws \in BoundedSeq([kind : Kinds, numBatches : 0..2, prior : 0..1], 3) :
       LET steps == workloadsToSteps(ws)
           At(b, k) == {i \in DOMAIN ws : ws[i].kind = k /\ ws[i].numBatches + ws[i].prior = b}
       IN  /\ DOMAIN steps = {ws[i].numBatches + ws[i].prior : i \in DOMAIN ws}
           /\ \A b \in DOMAIN steps :
                 /\ DOMAIN steps[b] = {k \in Kinds : At(b, k) # {}}
                 /\ \A k \in DOMAIN steps[b] : steps[b][k] = ws[Max(At(b, k))]

(* What is shown can be relied on: it is polled until it has ended, an end *)
(* comes with everything that belongs to it, the table has a row for every *)
(* workload, and only configurations are posted (ExperimentDetails,        *)
(* TrialDetails, workloadsToSteps).                                        *)
PagesReliable ==
    TypeOK /\ PollsUntilEnd /\ EndedShowsAllTrials /\ PostsAreConfigs /\ StepsComplete

(* What there is comes to be shown: an end, a fork, the metrics chosen.    *)
ComesToBeShown == EndIsSeen /\ ForkIsShown /\ StoredMetricsShown
=============================================================================
