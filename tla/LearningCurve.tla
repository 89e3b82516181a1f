--------------------------- MODULE LearningCurve ---------------------------
(***************************************************************************)
(* The learning curves of an experiment's best trials: the master's stream *)
(* of samples (master/internal/api_experiment.go, TrialsSample) and the    *)
(* page that draws it (webui/react/src/pages/ExperimentDetails/            *)
(* ExperimentVisualization.tsx, .../LearningCurve.tsx and components/      *)
(* LearningCurveChart.tsx).  The master sends what is new since its last   *)
(* message; the page keeps what it was sent and draws it all again.  The   *)
(* n-th value of a trial is at batch n, for every metric; when a stream is *)
(* cancelled, what it holds is gone.  Series are taken to be shorter than  *)
(* the page's MAX_DATAPOINTS (5000): the first values of a longer one are  *)
(* thinned by the master (lttb.Downsample), which moves no cursor.         *)
(***************************************************************************)
EXTENDS Naturals, Sequences, FiniteSets, FiniteSetsExt, SequencesExt

CONSTANTS
    Trials,      \* numbers of trials
    Metrics,     \* names of metrics, the searcher's among them
    MaxPoints,   \* values a trial reports
    MaxWire,     \* messages on their way
    MaxChanges,  \* what the user changes
    MaxFaults    \* streams that break

ASSUME CurveAssumption ==
    /\ Trials \subseteq Nat \ {0} /\ IsFiniteSet(Trials)
    /\ "loss" \in Metrics
    /\ {MaxPoints, MaxWire} \subseteq Nat \ {0} /\ {MaxChanges, MaxFaults} \subseteq Nat

VARIABLES
    points,    \* trial -> how many values it has reported
    ended,     \* whether the experiment has ended
    stream,    \* the stream of samples, at the master and on the wire
    kept,      \* what the page has kept of the stream's messages
    ui,        \* what the page shows
    names,     \* the stream of metric names: what was sent, and the page offers
    due,       \* whether effects of the last render are still to run
    changes, faults

vars == <<points, ended, stream, kept, ui, names, due, changes, faults>>

Searcher == "loss"
None == "none"
Options == {1, Cardinality(Trials)}     \* TOP_TRIALS_OPTIONS
Opened(m, max) ==
    [st |-> "open", metric |-> m, max |-> max, current |-> {},
     cursors |-> [t \in Trials |-> 0], phase |-> "query", wire |-> <<>>]
NoStream == [Opened(None, 0) EXCEPT !.st = "none"]
Broken == [NoStream EXCEPT !.st = "broken"]
NothingKept == [ids |-> {}, hps |-> {}, data |-> [t \in {} |-> {}]]
-----------------------------------------------------------------------------
(* The master.  topTrials: the best that have reported, which may be       *)
(* others each time.                                                       *)
topTrials(max) ==
    LET known == {t \in Trials : points[t] > 0}
    IN  {T \in SUBSET known : Cardinality(T) = Min({max, Cardinality(known)})}

(* Values of a metric; the one stored may be of another experiment. *)
MetricsSeries(t, s) == IF s.metric \in Metrics THEN (s.cursors[t] + 1)..points[t] ELSE {}

\* A mutant of fetchTrialSample: a trial counts as current before it is fetched.
SampleOfCurrent(t, s) == [hparams |-> FALSE, data |-> MetricsSeries(t, s)]

(* fetchTrialSample: hyperparameters for a trial that is new, and values   *)
(* after its cursor, all of them (the thinning of a long series that was   *)
(* not seen before is left out)                                            *)
fetchTrialSample(t, s) == [hparams |-> t \notin s.current, data |-> MetricsSeries(t, s)]

(* A round of TrialsSample up to the send: trials come and go, and the     *)
(* cursor of one that goes is forgotten.                                   *)
TrialsSample ==
    /\ stream.st = "open" /\ stream.phase = "query" /\ Len(stream.wire) < MaxWire
    /\ \E T \in topTrials(stream.max) :
          stream' = [stream EXCEPT
            !.wire = Append(@, [promoted |-> T \ stream.current, demoted |-> stream.current \ T,
                                trials |-> [t \in T |-> fetchTrialSample(t, stream)]]),
            !.current = T,
            !.cursors = [t \in Trials |->
                           IF t \notin T THEN 0
                           ELSE Max({stream.cursors[t]} \cup MetricsSeries(t, stream))],
            !.phase = "check"]
    /\ UNCHANGED <<points, ended, kept, ui, names, due, changes, faults>>

\* A mutant of TrialsSampleEnds: the loop is left after its first round.
SampleOnce ==
    /\ stream.st = "open" /\ stream.phase = "check"
    /\ stream' = [stream EXCEPT !.phase = "done"]
    /\ UNCHANGED <<points, ended, kept, ui, names, due, changes, faults>>

(* ... and after it: stop if the experiment has ended by now.              *)
TrialsSampleEnds ==
    /\ stream.st = "open" /\ stream.phase = "check"
    /\ stream' = [stream EXCEPT !.phase = IF ended THEN "done" ELSE "query"]
    /\ UNCHANGED <<points, ended, kept, ui, names, due, changes, faults>>

(* MetricNames: the names not sent before, often none *)
MetricNames ==
    LET known == IF \E t \in Trials : points[t] > 0 THEN Metrics ELSE {} IN known \ names.sent
-----------------------------------------------------------------------------
(* The page. *)
(* resetData.  The chart makes way for a spinner and forgets its focus.    *)
resetData(u) ==
    [u EXCEPT !.ids = <<>>, !.chart = <<>>, !.hps = {}, !.loaded = FALSE, !.of = None, !.focus = 0]

(* The effect for a new metric or number of trials: the old stream is      *)
(* aborted and another one opened, with nothing kept.                      *)
Effects(u) ==
    /\ stream' = IF u.shown /\ u.selected # None THEN Opened(u.selected, u.max) ELSE NoStream
    /\ kept' = NothingKept
    /\ due' = FALSE

RunEffects ==
    /\ due /\ Effects(ui)
    /\ UNCHANGED <<points, ended, ui, names, changes, faults>>

\* A mutant of Kept: trials that are no longer among the best stay.
KeptForever(k, e) ==
    [ids |-> k.ids \cup e.promoted,
     hps |-> k.hps \cup {t \in DOMAIN e.trials : e.trials[t].hparams},
     data |-> [t \in DOMAIN k.data \cup DOMAIN e.trials |->
                 (IF t \in DOMAIN k.data THEN k.data[t] ELSE {})
                   \cup (IF t \in DOMAIN e.trials THEN e.trials[t].data ELSE {})]]

(* What the page keeps: the dictionaries of the stream's effect *)
Kept(k, e) ==
    [ids |-> (k.ids \cup e.promoted) \ e.demoted,
     hps |-> k.hps \cup {t \in DOMAIN e.trials : e.trials[t].hparams},
     data |-> [t \in DOMAIN k.data \cup DOMAIN e.trials |->
                 (IF t \in DOMAIN k.data THEN k.data[t] ELSE {})
                   \cup (IF t \in DOMAIN e.trials THEN e.trials[t].data ELSE {})]]

(* Whether the handler runs through: it takes the hyperparameters of every *)
(* trial that has values and the values of every trial it draws for        *)
(* granted.                                                                *)
RunsThrough(k) ==
    /\ \A t \in DOMAIN k.data : k.data[t] # {} => t \in k.hps
    /\ k.ids \subseteq DOMAIN k.data

(* Object.values of a dictionary by number is in ascending order: at place *)
(* i is the one that has i of them up to it.                               *)
Sorted(S) ==
    [i \in 1..Cardinality(S) |-> CHOOSE t \in S : Cardinality({u \in S : u <= t}) = i]

(* The line of a trial is found by its position among the trials. *)
Lines(ids, k) == [i \in DOMAIN ids |-> k.data[ids[i]]]

\* A mutant of Drawn: the page is not taken to have loaded.
DrawnUnmarked(u, k) ==
    LET ids == Sorted(k.ids) IN
    [u EXCEPT !.ids = ids, !.chart = Lines(ids, k),
              !.hps = k.hps, !.of = stream.metric]

Drawn(u, k) ==
    LET ids == Sorted(k.ids) IN
    [u EXCEPT !.ids = ids, !.chart = Lines(ids, k),
              !.hps = k.hps, !.of = stream.metric, !.loaded = TRUE]

(* A message arrives.  If a change was made whose effects have not run,    *)
(* they do so when the handler first sets state: the stream is aborted in  *)
(* the middle of its last message, and the next one is opened.             *)
Receive ==
    /\ stream.st = "open" /\ stream.wire # <<>>
    /\ \E k \in {Kept(kept, Head(stream.wire))} :
       /\ ui' = IF RunsThrough(k) THEN Drawn(ui, k) ELSE [ui EXCEPT !.error = TRUE]
       /\ IF due THEN Effects(ui)
          ELSE /\ kept' = k
               /\ stream' = IF RunsThrough(k) THEN [stream EXCEPT !.wire = Tail(@)] ELSE Broken
               /\ UNCHANGED due
    /\ UNCHANGED <<points, ended, names, changes, faults>>

(* A stream that breaks leaves an error that nothing clears, and its       *)
(* handler is gone with what it kept.                                      *)
StreamBreaks ==
    /\ stream.st = "open" /\ faults < MaxFaults
    /\ faults' = faults + 1
    /\ stream' = Broken
    /\ kept' = NothingKept
    /\ ui' = [ui EXCEPT !.error = TRUE]
    /\ UNCHANGED <<points, ended, names, due, changes>>

(* The user sees the chart and its controls. *)
Displayed == ui.shown /\ ui.selected # None /\ ~ui.error /\ ui.loaded /\ ui.hps # {}
Change == changes < MaxChanges /\ changes' = changes + 1

handleTopTrialsChange(n) ==
    /\ Displayed /\ Change /\ n # ui.max
    /\ ui' = [resetData(ui) EXCEPT !.max = n]
    /\ due' = TRUE
    /\ UNCHANGED <<points, ended, stream, kept, names, faults>>

(* The metrics that can be chosen *)
MetricSelect == names.offered

\* A mutant of handleMetricChange: the data of the old metric stays.
MetricChangeKeepsData(m) ==
    /\ Displayed /\ Change /\ m \in MetricSelect
    /\ ui' = [ui EXCEPT !.selected = m]
    /\ due' = FALSE
    /\ UNCHANGED <<points, ended, stream, kept, names, faults>>

handleMetricChange(m) ==
    /\ Displayed /\ Change /\ m \in MetricSelect
    /\ ui' = [resetData(ui) EXCEPT !.selected = m]
    /\ due' = TRUE
    /\ UNCHANGED <<points, ended, stream, kept, names, faults>>

(* Another kind of chart, or back (which is not counted as a change): the  *)
(* component goes, or is made anew.                                        *)
handleChartTypeChange ==
    /\ IF ui.shown THEN Change ELSE UNCHANGED changes
    /\ ui' = [resetData(ui) EXCEPT !.shown = ~@, !.error = FALSE, !.max = Cardinality(Trials)]
    /\ Effects(ui')
    /\ UNCHANGED <<points, ended, names, faults>>

(* findClosestPoint: a line is near the cursor only if it has values. *)
findClosestPoint(i) == i \in DOMAIN ui.chart /\ ui.chart[i] # {}

(* The line that is nearest to the cursor is focused. *)
handleCursorMove(i) ==
    /\ Displayed /\ findClosestPoint(i) /\ ui.focus # i
    /\ ui' = [ui EXCEPT !.focus = i]
    /\ UNCHANGED <<points, ended, stream, kept, names, due, changes, faults>>

\* A mutant of NamesArrive: the page offers what the last message had.
NamesReplaced ==
    /\ names.st = "query"
    /\ names' = [st |-> "check", sent |-> names.sent \cup MetricNames, offered |-> MetricNames]
    /\ IF ui.selected = None THEN ui' = [ui EXCEPT !.selected = Searcher] /\ due' = ui.shown
       ELSE UNCHANGED <<ui, due>>
    /\ UNCHANGED <<points, ended, stream, kept, changes, faults>>

(* Metric names arrive; the searcher's is selected if none is.             *)
NamesArrive ==
    /\ names.st = "query"
    /\ names' = [st |-> "check", sent |-> names.sent \cup MetricNames,
                 offered |-> names.offered \cup MetricNames]
    /\ IF ui.selected = None THEN ui' = [ui EXCEPT !.selected = Searcher] /\ due' = ui.shown
       ELSE UNCHANGED <<ui, due>>
    /\ UNCHANGED <<points, ended, stream, kept, changes, faults>>

(* ... and the master looks whether to stop, as it does for samples.       *)
MetricNamesEnds ==
    /\ names.st = "check"
    /\ names' = [names EXCEPT !.st = IF ended THEN "done" ELSE "query"]
    /\ UNCHANGED <<points, ended, stream, kept, ui, due, changes, faults>>

NamesBreak ==
    /\ names.st \in {"query", "check"} /\ faults < MaxFaults
    /\ names' = [names EXCEPT !.st = "done"]
    /\ faults' = faults + 1
    /\ UNCHANGED <<points, ended, stream, kept, ui, due, changes>>

(* Trials report, and the experiment ends (external). *)
Report(t) ==
    /\ ~ended /\ points[t] < MaxPoints
    /\ points' = [points EXCEPT ![t] = @ + 1]
    /\ UNCHANGED <<ended, stream, kept, ui, names, due, changes, faults>>

End ==
    /\ ~ended
    /\ ended' = TRUE
    /\ UNCHANGED <<points, stream, kept, ui, names, due, changes, faults>>
-----------------------------------------------------------------------------
(* The metric that is stored may be one of another experiment. *)
Init ==
    /\ points = [t \in Trials |-> 0] /\ ended = FALSE
    /\ \E stored \in {None, "other"} :
          ui = [ids |-> <<>>, chart |-> <<>>, hps |-> {}, loaded |-> FALSE, of |-> None,
                selected |-> stored, max |-> Cardinality(Trials),
                shown |-> TRUE, error |-> FALSE, focus |-> 0]
    /\ stream = IF ui.selected = None THEN NoStream ELSE Opened(ui.selected, ui.max)
    /\ kept = NothingKept
    /\ names = [st |-> "query", sent |-> {}, offered |-> {}]
    /\ due = FALSE /\ changes = 0 /\ faults = 0

Next ==
    \/ TrialsSample \/ TrialsSampleEnds \/ RunEffects \/ Receive \/ StreamBreaks
    \/ \E n \in Options : handleTopTrialsChange(n)
    \/ \E m \in Metrics : handleMetricChange(m)
    \/ handleChartTypeChange
    \/ \E i \in 1..Cardinality(Trials) : handleCursorMove(i)
    \/ NamesArrive \/ MetricNamesEnds \/ NamesBreak \/ End
    \/ \E t \in Trials : Report(t)

Spec == Init /\ [][Next]_vars

(* The master's loops run, messages arrive and effects are run. *)
Fairness ==
    /\ WF_vars(TrialsSample) /\ WF_vars(TrialsSampleEnds) /\ WF_vars(RunEffects)
    /\ WF_vars(Receive) /\ WF_vars(NamesArrive) /\ WF_vars(MetricNamesEnds)

FairSpec == Spec /\ Fairness
-----------------------------------------------------------------------------
(* Types; every line drawn has its trial, and what is kept is of a trial.  *)
TypeOK ==
    /\ points \in [Trials -> 0..MaxPoints] /\ ended \in BOOLEAN /\ due \in BOOLEAN
    /\ stream.st \in {"none", "open", "broken"}
    /\ kept.ids \subseteq Trials /\ kept.hps \subseteq Trials /\ DOMAIN kept.data \subseteq Trials
    /\ DOMAIN ui.chart = DOMAIN ui.ids /\ ToSet(ui.ids) \subseteq Trials
    /\ ui.selected \in Metrics \cup {None, "other"} /\ ui.max \in Options
    /\ ui.loaded <=> ui.of # None
    /\ names.st \in {"query", "check", "done"} /\ names.offered \subseteq names.sent

(* The handler never fails on a message of the master: hyperparameters and *)
(* values come with every trial that is promoted, after any number of      *)
(* promotions and demotions, and only a stream that broke is an error.     *)
EventsRender == ui.error => faults > 0

(* When the page has caught up with a stream it draws exactly the trials   *)
(* the master holds to be the best, and of each every value the master has *)
(* counted as sent, although messages only carry differences, the master   *)
(* forgets the cursors of the demoted, and lines are found by position.    *)
CurveMatchesMaster ==
    stream.st = "open" /\ stream.wire = <<>> /\ ~due /\ ui.loaded /\ ~ui.error
      /\ ui.of = stream.metric /\ kept # NothingKept
    => /\ ToSet(ui.ids) = stream.current
       /\ \A i \in DOMAIN ui.ids : 1..stream.cursors[ui.ids[i]] \subseteq ui.chart[i]

(* "The metrics endpoint can intermittently send empty lists": while the   *)
(* experiment runs, a metric that was reported comes to be offered by the  *)
(* page and stays so, however many messages without it follow.             *)
NamesStay ==
    (\E t \in Trials : points[t] > 0)
        ~> [](names.offered = Metrics \/ ended \/ names.st = "done")

(* When the user has made his last change, the page comes to show the      *)
(* metric that is selected, though a message of the old stream may be      *)
(* drawn under its name first, and though a stream was stopped by the end  *)
(* of the experiment.                                                      *)
ShowsSelected ==
    (ui.shown /\ ui.selected # None)
        ~> ((ui.loaded /\ ui.of = ui.selected /\ stream.st = "open" /\ stream.metric = ui.selected)
            \/ ui.error \/ ~ui.shown)

(* As long as the experiment runs, the values of a trial that stays among  *)
(* the best come to be drawn, all there are by then.                       *)
CurveGrows ==
    \A t \in Trials :
        (Displayed /\ ui.of \in Metrics /\ t \in stream.current)
           ~> ((\E i \in DOMAIN ui.ids : ui.ids[i] = t /\ 1..points[t] \subseteq ui.chart[i])
               \/ t \notin stream.current \/ ended \/ ~Displayed)

(* Not the case: what is drawn as loaded is the selected metric.           *)
OnlySelectedDrawn == ui.loaded => ui.of = ui.selected

(* Not the case: the trial opened by a click is the one that was focused.  *)
FocusIsDrawn == ui.focus # 0 => ui.focus \in DOMAIN ui.ids

(* Not the case: the values reported before the end come to be drawn.      *)
FinalPointsShown ==
    (ended /\ Displayed) ~> ((\A i \in DOMAIN ui.ids : ui.chart[i] = 1..points[ui.ids[i]])
                             \/ ~Displayed)

(* No message is refused, and a page that has caught up draws what the     *)
(* master has sent (TrialsSample, LearningCurve).                          *)
DrawsWhatWasSent == TypeOK /\ EventsRender /\ CurveMatchesMaster

(* What there is comes to be drawn: the metric that is selected, the values*)
(* of the best trials, the names on offer.                                 *)
ComesToBeDrawn == ShowsSelected /\ CurveGrows /\ NamesStay
=============================================================================
