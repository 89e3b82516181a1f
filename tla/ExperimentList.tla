--------------------------- MODULE ExperimentList ---------------------------
(***************************************************************************)
(* The page of experiments (webui/react/src/pages/ExperimentList.tsx):     *)
(* filters, sorting and paging, the polled list, the selection of rows and *)
(* the batch actions.  Every handler replaces the parameters of            *)
(* fetchExperiments, and with them the function that is polled; `params`   *)
(* are the parameters of each version.  Requests are not cancelled: one is  *)
(* answered at any later time, after the parameters have changed or the    *)
(* page was left as well, from what the server then has.                   *)
(***************************************************************************)
EXTENDS Naturals, Sequences, FiniteSets

CONSTANTS
    Exps,         \* numbers of experiments
    Searches,     \* what is typed into the search field: 0 or a number
    Actions,      \* the actions the user may choose
    Limits,       \* page sizes
    MaxVersions,  \* how often the parameters change
    MaxErrors,    \* requests for the list that fail
    MaxActs,      \* what the user asks to be done to experiments
    Others        \* the experiments that other users kill

ASSUME ListAssumption ==
    /\ Exps \subseteq Nat /\ IsFiniteSet(Exps) /\ Searches \subseteq Exps \cup {0}
    /\ Actions \subseteq {"Activate", "Archive", "Cancel", "Kill", "Pause", "Unarchive"}
    /\ Limits \subseteq Nat \ {0} /\ Limits # {}
    /\ MaxVersions \in Nat \ {0} /\ {MaxErrors, MaxActs} \subseteq Nat /\ Others \subseteq Exps

VARIABLES
    params,    \* version -> [filters, pagination, sorter, search]
    store,     \* what localStorage keeps: filters, limit, sorter
    ui,        \* experiments and total as answered, the selected rows, crashed
    poll, version, mounted,   \* the hook usePolling
    fetches,   \* requests for the list
    board,     \* the version of the page that awaits a TensorBoard, or 0
    modal,     \* the confirmation dialogue and the batch it has begun
    calls,     \* requests that change an experiment
    server,    \* the experiments, and how many errors there were
    acts       \* how much the user has asked for

vars == <<params, store, ui, poll, version, mounted, fetches, board, modal, calls, server, acts>>

P == INSTANCE Polling
X == INSTANCE ExperimentState

States == {"ACTIVE", "PAUSED", "STOPPING_CANCELED", "CANCELED"}
terminalRunStates == {"CANCELED"}
killableRunStates == {"ACTIVE", "PAUSED", "STOPPING_CANCELED"}
cancellableRunStates == {"ACTIVE", "PAUSED"}
ALL == "all"
Filters == [showArchived : BOOLEAN, states : {ALL, "ACTIVE"}]
defaultFilters == [showArchived |-> FALSE, states |-> ALL]
Unasked == [ids |-> {}, rows |-> <<>>]      \* experiments is undefined
Closed == [st |-> "closed"]
Params == params[version]
-----------------------------------------------------------------------------
(* getExperimentList, and the master's answer: the experiments that match, *)
(* in order, from offset, at most limit of them.                           *)
Matches(e, f, search) ==
    /\ f.showArchived \/ ~server.exps[e].archived
    /\ f.states = ALL \/ server.exps[e].state = f.states
    /\ search \in {0, e}

decodeExperimentList(ids) == [ids |-> ids, rows |-> [e \in ids |-> server.exps[e]]]

getExperimentList(p) ==
    LET found == {e \in Exps : Matches(e, p.filters, p.search)}
        before(e) == {x \in found : IF p.sorter THEN x > e ELSE x < e}
        page == {e \in found : LET rank == Cardinality(before(e))
                               IN  /\ rank >= p.pagination.offset
                                   /\ rank < p.pagination.offset + p.pagination.limit}
    IN  [total |-> Cardinality(found), experiments |-> decodeExperimentList(page)]

(* What the row of an experiment allows. *)
Eligible(a, x) ==
    CASE a = "Archive"   -> ~x.archived /\ x.state \in terminalRunStates
      [] a = "Unarchive" -> x.archived
      [] a = "Cancel"    -> x.state \in cancellableRunStates
      [] a = "Kill"      -> x.state \in killableRunStates
      [] a = "Activate"  -> x.state = "PAUSED"
      [] a = "Pause"     -> x.state = "ACTIVE"
-----------------------------------------------------------------------------
Request(v, by) == [v |-> v, by |-> by]

(* Parameters change: the effect of the hook stops the old routine's timer *)
(* and starts with the new function.  (Choosing in a control what it shows *)
(* makes a new function of the same parameters, which is left out.)        *)
setParams(p) ==
    /\ mounted /\ version < MaxVersions /\ p # Params
    /\ params' = Append(params, p)
    /\ version' = version + 1
    /\ poll' = P!Changed(poll, version + 1)
    /\ fetches' = fetches \cup {Request(version + 1, "poll")}
    /\ UNCHANGED <<mounted, board, modal, calls, server, acts>>

FirstPage(p) == [p EXCEPT !.pagination.offset = 0]

handleSearchChange ==
    /\ modal = Closed
    /\ \E s \in Searches : setParams(FirstPage([Params EXCEPT !.search = s]))
    /\ UNCHANGED <<store, ui>>

\* A mutant of handleFilterChange: the filters are not stored.
FilterChangeUnstored(f) ==
    /\ setParams(FirstPage([Params EXCEPT !.filters = f]))
    /\ UNCHANGED <<store, ui>>

handleFilterChange(f) ==
    /\ setParams(FirstPage([Params EXCEPT !.filters = f]))
    /\ store' = [store EXCEPT !.filters = f]
    /\ UNCHANGED ui

handleArchiveChange ==
    /\ modal = Closed
    /\ handleFilterChange([Params.filters EXCEPT !.showArchived = ~@])

(* StateSelectFilter: every state, or one of them *)
Selectable == {ALL, "ACTIVE"}

handleStateChange ==
    /\ modal = Closed
    /\ \E s \in Selectable : handleFilterChange([Params.filters EXCEPT !.states = s])

handleTableChange ==
    /\ modal = Closed
    /\ \E limit \in Limits, descend \in BOOLEAN :
       \E current \in 1..((ui.total + limit - 1) \div limit) :
          /\ setParams([Params EXCEPT
                !.sorter = descend,
                !.pagination = [limit |-> limit, offset |-> (current - 1) * limit]])
          /\ store' = [store EXCEPT !.limit = limit, !.sorter = descend]
          /\ ui' = [ui EXCEPT !.selected = {}]

handleTableRowSelect ==
    /\ mounted /\ modal = Closed
    /\ \E keys \in SUBSET ui.experiments.ids : ui' = [ui EXCEPT !.selected = keys]
    /\ UNCHANGED <<params, store, poll, version, mounted, fetches, board, modal, calls, server, acts>>
-----------------------------------------------------------------------------
(* A batch action.  The button is enabled when some selected row is        *)
(* eligible; the dialogue keeps the rows and the function of the render it *)
(* was opened in, is drawn outside the page and outlives it, and closes    *)
(* when the action has run to its end.                                     *)
handleConfirmation(a) ==
    /\ mounted /\ modal = Closed
    /\ \E e \in ui.selected : Eligible(a, ui.experiments.rows[e])
    /\ acts < MaxActs /\ acts' = acts + 1
    /\ modal' = [st |-> "asking", action |-> a, ids |-> ui.selected, v |-> version, n |-> acts']
    /\ UNCHANGED <<params, store, ui, poll, version, mounted, fetches, board, calls, server>>

Dismiss ==
    /\ modal.st = "asking"
    /\ modal' = Closed
    /\ UNCHANGED <<params, store, ui, poll, version, mounted, fetches, board, calls, server, acts>>

(* A request goes to every selected experiment, whether it is eligible. *)
sendBatchActions ==
    /\ modal.st = "asking"
    /\ modal' = [modal EXCEPT !.st = "sent"]
    /\ calls' = calls \cup {[e |-> e, action |-> modal.action, v |-> modal.v,
                             by |-> "batch", n |-> modal.n, st |-> "sent"] : e \in modal.ids}
    /\ UNCHANGED <<params, store, ui, poll, version, mounted, fetches, board, server, acts>>

(* View in TensorBoard asks for no confirmation and does not hold the page.*)
openOrCreateTensorboard ==
    /\ mounted /\ modal = Closed /\ board = 0
    /\ ui.selected # {}
    /\ board' = version
    /\ acts < MaxActs /\ acts' = acts + 1
    /\ UNCHANGED <<params, store, ui, poll, version, mounted, fetches, modal, calls, server>>

TensorboardOpened ==
    /\ board # 0
    /\ board' = 0
    /\ ui' = [ui EXCEPT !.selected = {}]
    /\ fetches' = fetches \cup {Request(board, "board")}
    /\ UNCHANGED <<params, store, poll, version, mounted, modal, calls, server, acts>>

TensorboardRefused ==
    /\ board # 0 /\ server.errors < MaxErrors
    /\ board' = 0
    /\ server' = [server EXCEPT !.errors = @ + 1]
    /\ UNCHANGED <<params, store, ui, poll, version, mounted, fetches, modal, calls, acts>>

(* An action of a row's own menu (TaskActionDropdown) *)
handleMenuClick(a, e) ==
    /\ mounted /\ modal = Closed /\ calls = {}
    /\ acts < MaxActs /\ acts' = acts + 1
    /\ e \in ui.experiments.ids /\ Eligible(a, ui.experiments.rows[e])
    /\ calls' = {[e |-> e, action |-> a, v |-> version, by |-> "menu",
                  n |-> acts', st |-> "sent"]}
    /\ UNCHANGED <<params, store, ui, poll, version, mounted, fetches, board, modal, server>>

(* The requests of the dialogue's own batch; those of one that was given   *)
(* up are nobody's.                                                        *)
OfBatch == {c \in calls : c.by = "batch" /\ c.n = modal.n}

(* Promise.all: the first refusal ends the wait, whatever the others do. *)
BatchRefused ==
    /\ modal.st = "sent" /\ \E c \in OfBatch : c.st = "refused"
    /\ modal' = Closed
    /\ calls' = calls \ {c \in OfBatch : c.st # "sent"}
    /\ UNCHANGED <<params, store, ui, poll, version, mounted, fetches, board, server, acts>>

\* A mutant of BatchDone: Promise.allSettled in place of Promise.all.
BatchSettled ==
    /\ modal.st = "sent" /\ \A c \in OfBatch : c.st # "sent"
    /\ modal' = [modal EXCEPT !.st = "refetching"]
    /\ calls' = calls \ OfBatch
    /\ ui' = [ui EXCEPT !.selected = {}]
    /\ fetches' = fetches \cup {Request(modal.v, "batch")}
    /\ UNCHANGED <<params, store, poll, version, mounted, board, server, acts>>

BatchDone ==
    /\ modal.st = "sent" /\ \A c \in OfBatch : c.st = "done"
    /\ modal' = [modal EXCEPT !.st = "refetching"]
    /\ calls' = calls \ OfBatch
    /\ ui' = [ui EXCEPT !.selected = {}]
    /\ fetches' = fetches \cup {Request(modal.v, "batch")}
    /\ UNCHANGED <<params, store, poll, version, mounted, board, server, acts>>

(* onComplete of the menu: fetchExperiments as it was when it was drawn *)
MenuDone ==
    \E c \in calls :
       /\ c.by = "menu" /\ c.st # "sent"
       /\ calls' = calls \ {c}
       /\ fetches' = IF c.st = "done" THEN fetches \cup {Request(c.v, "menu")} ELSE fetches
       /\ UNCHANGED <<params, store, ui, poll, version, mounted, board, modal, server, acts>>

(* A request of a batch that was given up is answered to nobody. *)
ServeCall(c) ==
    /\ c.st = "sent"
    /\ LET x == server.exps[c.e]
           ok == X!Accepts(c.action, x)
           heard == c.by = "menu" \/ (modal.st = "sent" /\ c.n = modal.n)
           Answer(st) == (calls \ {c}) \cup (IF heard THEN {[c EXCEPT !.st = st]} ELSE {})
       IN  \/ /\ ok
             /\ server' = [server EXCEPT !.exps[c.e] = X!Applied(c.action, x)]
             /\ calls' = Answer("done")
          \/ /\ ~ok
             /\ calls' = Answer("refused")
             /\ UNCHANGED server
          \/ /\ server.errors < MaxErrors
             /\ server' = [server EXCEPT !.errors = @ + 1]
             /\ calls' = Answer("refused")
    /\ UNCHANGED <<params, store, ui, poll, version, mounted, fetches, board, modal, acts>>
-----------------------------------------------------------------------------
(* A selected row that is not among the experiments is undefined, and what *)
(* the buttons depend on is computed from its fields: rendering throws and *)
(* React takes the page away.                                              *)
Renders(w) == w.selected \subseteq w.experiments.ids

FetchFails(r) ==
    /\ server.errors < MaxErrors
    /\ server' = [server EXCEPT !.errors = @ + 1]
    /\ UNCHANGED ui

\* A mutant of FetchAnswered: the total is not taken from the answer.
AnsweredWithoutTotal(r) ==
    /\ ui' = IF ~mounted THEN ui
             ELSE LET a == getExperimentList(params[r.v])
                  IN  [experiments |-> a.experiments, total |-> ui.total,
                       selected |-> ui.selected, shown |-> r.v]
    /\ UNCHANGED server

\* A mutant of FetchAnswered: the parameters are not among its dependencies.
AnsweredFromFirst(r) ==
    /\ ui' = IF ~mounted THEN ui
             ELSE LET a == getExperimentList(params[1])
                  IN  [experiments |-> a.experiments, total |-> a.total,
                       selected |-> ui.selected, shown |-> 1]
    /\ UNCHANGED server

FetchAnswered(r) ==
    /\ ui' = IF ~mounted THEN ui
             ELSE LET a == getExperimentList(params[r.v])
                  IN  [experiments |-> a.experiments, total |-> a.total,
                       selected |-> ui.selected, shown |-> r.v]
    /\ UNCHANGED server

\* A mutant of FetchEnds: fetchExperiments lets its error through.
FetchEndsOrThrows(r) ==
    /\ fetches' = fetches \ {r}
    /\ FetchFails(r) \/ FetchAnswered(r)
    /\ mounted' = (mounted /\ Renders(ui'))
    /\ poll' = IF r.by # "poll" THEN poll
               ELSE IF server' = server THEN P!Settled(poll, r.v)
               ELSE [poll EXCEPT !.awaiting = @ \ {r.v}]
    /\ modal' = IF r.by = "batch" THEN Closed ELSE modal
    /\ UNCHANGED <<params, store, version, board, calls, acts>>

(* fetchExperiments after its await.  What it throws it catches itself, an *)
(* exception out of the rendering too, so that a routine that polls goes on*)
(* in each case, after the page was taken away as well.                    *)
FetchEnds(r) ==
    /\ fetches' = fetches \ {r}
    /\ FetchFails(r) \/ FetchAnswered(r)
    /\ mounted' = (mounted /\ Renders(ui'))
    /\ LET left == IF mounted = mounted' THEN poll ELSE P!Stopped(poll)
       IN  poll' = IF r.by = "poll" THEN P!Settled(left, r.v) ELSE left
    /\ modal' = IF r.by = "batch" THEN Closed ELSE modal
    /\ UNCHANGED <<params, store, version, board, calls, acts>>

TimerFires(v) ==
    /\ v \in poll.pending
    /\ poll' = P!Fired(poll, v)
    /\ fetches' = fetches \cup {Request(v, "poll")}
    /\ UNCHANGED <<params, store, ui, version, mounted, board, modal, calls, server, acts>>

Leave ==
    /\ mounted
    /\ mounted' = FALSE
    /\ poll' = P!Stopped(poll)
    /\ UNCHANGED <<params, store, ui, version, fetches, board, modal, calls, server, acts>>

(* Another user kills an experiment. *)
OthersAct(e) ==
    /\ server.exps[e].state \in X!RunningStates
    /\ server' = [server EXCEPT !.exps[e] = X!Applied("Kill", @)]
    /\ UNCHANGED <<params, store, ui, poll, version, mounted, fetches, board, modal, calls, acts>>

(* The trials of an experiment that is stopping are gone. *)
ExperimentStops(e) ==
    /\ server.exps[e].state = "STOPPING_CANCELED"
    /\ server' = [server EXCEPT !.exps[e] = X!Stopped(@)]
    /\ UNCHANGED <<params, store, ui, poll, version, mounted, fetches, board, modal, calls, acts>>
-----------------------------------------------------------------------------
(* The page is opened with what an earlier visit stored. *)
Init ==
    /\ store \in [filters : {defaultFilters}, limit : Limits, sorter : {TRUE}]
    /\ params = <<[filters |-> store.filters, sorter |-> store.sorter, search |-> 0,
                   pagination |-> [limit |-> store.limit, offset |-> 0]]>>
    /\ ui = [experiments |-> Unasked, total |-> 0, selected |-> {}, shown |-> 0]
    /\ P!Init
    /\ fetches = {Request(1, "poll")}
    /\ board = 0 /\ modal = Closed /\ calls = {}
    /\ server = [exps |-> [e \in Exps |-> [state |-> "ACTIVE", archived |-> FALSE]],
                 errors |-> 0]
    /\ acts = 0

Next ==
    \/ handleSearchChange \/ handleArchiveChange \/ handleStateChange
    \/ handleTableChange \/ handleTableRowSelect
    \/ \E a \in Actions : handleConfirmation(a) \/ \E e \in Exps : handleMenuClick(a, e)
    \/ openOrCreateTensorboard \/ TensorboardOpened \/ TensorboardRefused
    \/ Dismiss \/ sendBatchActions \/ BatchRefused \/ BatchDone \/ MenuDone \/ Leave
    \/ \E c \in calls : ServeCall(c)
    \/ \E r \in fetches : FetchEnds(r)
    \/ \E v \in 1..version : TimerFires(v)
    \/ \E e \in Others : OthersAct(e)
    \/ \E e \in Exps : ExperimentStops(e)

Spec == Init /\ [][Next]_vars

(* Timers go off, and requests are answered or fail. *)
Fairness ==
    /\ WF_vars(\E v \in 1..version : TimerFires(v))
    /\ \A v \in 1..MaxVersions : WF_vars(\E r \in fetches : r.v = v /\ FetchEnds(r))

FairSpec == Spec /\ Fairness
-----------------------------------------------------------------------------
TypeOK ==
    /\ version \in 1..MaxVersions /\ mounted \in BOOLEAN
    /\ \A v \in 1..version :
          params[v] \in [filters : Filters, sorter : BOOLEAN, search : Exps \cup {0},
                         pagination : [limit : Limits, offset : Nat]]
    /\ store \in [filters : Filters, limit : Limits, sorter : BOOLEAN]
    /\ ui.experiments.ids \subseteq Exps /\ ui.selected \subseteq Exps
    /\ DOMAIN ui.experiments.rows = ui.experiments.ids
    /\ Cardinality(ui.experiments.ids) <= ui.total
    /\ poll \in [ref : 0..version, pending : SUBSET (1..version), awaiting : SUBSET (1..version)]
    /\ board \in 0..version
    /\ modal.st \in {"closed", "asking", "sent", "refetching"}
    /\ {c.st : c \in calls} \subseteq {"sent", "done", "refused"}
    /\ server.exps \in [Exps -> [state : States, archived : BOOLEAN]]

(* Whatever the order in which the parameters change, answers arrive,      *)
(* requests fail and the page goes, there is one timer, and no version of  *)
(* the function has a timer and a call at once (usePolling): the server is *)
(* never asked twice per period by the same loop.                          *)
OnePollLoop == P!OneTimer(poll) /\ P!OneRoutine(poll)

(* A failed request, a batch or a change of parameters never ends the      *)
(* polling of a page that is there: fetchExperiments swallows its errors.  *)
NeverStopsPolling == P!StillPolling(poll, mounted)

(* A reload shows what the user last chose: filters, sorting and page size *)
(* in storage are the ones of the render, also after handlers that set     *)
(* several of them.                                                        *)
StoredSettings ==
    store = [filters |-> Params.filters, limit |-> Params.pagination.limit,
             sorter |-> Params.sorter]

(* handleBatchAction deselects the rows and refetches only when every      *)
(* experiment it was to end is at least stopping, whatever failed, was     *)
(* refused or was done by others meanwhile.                                *)
BatchStopped ==
    [][modal.st = "sent" /\ modal'.st = "refetching" /\ modal.action \in {"Cancel", "Kill"}
         => \A e \in modal.ids : server.exps[e].state \notin X!RunningStates]_vars

(* What is stopping, or has ended, never runs again (updateState). *)
NeverRunsAgain ==
    [][\A e \in Exps : server.exps[e].state \notin X!RunningStates
                         => server'.exps[e].state \notin X!RunningStates]_vars

(* A batch that is cancelled or killed stops whole, and for good. *)
KilledBatchStops == BatchStopped /\ NeverRunsAgain

(* As long as the loop of the current parameters is not displaced by an    *)
(* answer to older ones, a page that stays ends up showing the answer to   *)
(* the parameters it was last given.                                       *)
SettlesOnCurrent ==
    <>[](mounted /\ poll.pending \cup poll.awaiting = {version}) => <>[](ui.shown = version)

(* The comment in handleBatchAction gives the reason for deselecting rows: *)
(* a row that no longer meets the criteria must not stay selected, for the *)
(* page computes its buttons from the fields of every selected row.        *)
SelectedRowsExist == Renders(ui)

(* The loop behind the page and the settings before it stay whole: one     *)
(* loop that never ends (usePolling), and storage that agrees with what is *)
(* shown, whatever fails and in whatever order things change.              *)
PageWhole == TypeOK /\ OnePollLoop /\ NeverStopsPolling /\ StoredSettings
=============================================================================
