----------------------------- MODULE TaskList -----------------------------
(***************************************************************************)
(* The page of commands, notebooks, shells and TensorBoards                *)
(* (webui/react/src/pages/TaskList.tsx) with the contexts it shows         *)
(* (contexts/AppContexts.tsx), which poll the master for each kind of task.*)
(* The page also asks for the lists itself, and shows none of the answers: *)
(* it looks only at whether they are loading, `own` stands for its four    *)
(* uses of useRestApi.  The master (command/command.go) answers a kill as  *)
(* soon as it has told the container to end, or has given up a task that   *)
(* has none; only the container's end ends the task.                       *)
(***************************************************************************)
EXTENDS Naturals, FiniteSets

CONSTANTS
    Notebooks, Shells,   \* numbers of tasks; commands and TensorBoards are like them
    Waiting,     \* those that have no container yet at the start
    Collected,   \* those whose end may be a day old before the behaviour is over
    Types,       \* kinds the user ticks in the filter
    Limits,      \* page sizes
    MaxChecks,   \* 10 in checkForTaskListUpdate
    MaxErrors,   \* requests that fail
    MaxActs      \* how often the user presses Kill, in a menu or the dialogue

ASSUME TaskListAssumption ==
    /\ Notebooks \cap Shells = {} /\ Waiting \subseteq Notebooks \cup Shells
    /\ Collected \subseteq Notebooks \cup Shells
    /\ Types \subseteq {"notebook", "shell"} /\ Limits \subseteq Nat /\ Limits # {}
    /\ {MaxChecks, MaxErrors, MaxActs} \subseteq Nat

VARIABLES
    page,      \* "tasks", another page of the "app", or "blank" after an exception
    ctx,       \* kind -> the context's useRestApi
    own,       \* the page's useRestApi
    view,      \* the filters, the limit and the selected rows
    store,     \* localStorage: the filters and the limit
    modal,     \* the confirmation and what handleBatchKill has under way
    server,    \* the commands' actors, and which of them were started after they had exited
    budget     \* errors and acts so far

vars == <<page, ctx, own, view, store, modal, server, budget>>

R == INSTANCE RestApi

Tasks == Notebooks \cup Shells
kindOf == [t \in Tasks |-> IF t \in Notebooks THEN "notebook" ELSE "shell"]
Kinds == {kindOf[t] : t \in Tasks}
(* "RUNNING" stands for every state of a container but its last. *)
killableCmdStates == {"PENDING", "RUNNING"}
terminalCommandStates == {"TERMINATED"}
Gone == "gone"             \* collected by the master
ALL == "all"
OfKind(k) == {t \in Tasks : kindOf[t] = k}
isTaskKillable(state) == state \in killableCmdStates
-----------------------------------------------------------------------------
(* A command's actor: "KILLED" is a task whose container was told to end,  *)
(* "EXITED" one that exited while its allocation was already under way.    *)
Commands == {"PENDING", "RUNNING", "KILLED", "EXITED", "TERMINATED", Gone}

newSummary(x) ==
    CASE x = "KILLED" -> "RUNNING"
      [] x = "EXITED" -> "TERMINATED"
      [] OTHER        -> x

(* A task without a container exits at once, one with a container is left  *)
(* to the container; whatever has ended stays so.                          *)
terminate(x) ==
    CASE x = "PENDING" -> {"EXITED", "TERMINATED"}
      [] x = "RUNNING" -> {"KILLED"}
      [] OTHER         -> {x}

(* What the master answers for a kind: the tasks it still has. *)
Listed(k) ==
    LET there == {t \in OfKind(k) : server.tasks[t] # Gone}
    IN  [t \in there |-> newSummary(server.tasks[t])]

(* loadedTasks and taskMap: what the contexts have, as tasks *)
Loaded(c) == UNION {DOMAIN c[k].data : k \in Kinds}
StateIn(c, t) == c[kindOf[t]].data[t]

(* filterTasks: no type ticked stands for every type. *)
filterTasks(c, f) ==
    {t \in Loaded(c) : /\ f.types = {} \/ kindOf[t] \in f.types
                       /\ f.states = ALL \/ StateIn(c, t) = f.states}

(* The rows of the table, each with a menu of its own *)
Rows == filterTasks(ctx, view.filters)

(* The page maps every selected row through taskMap and asks whether it is *)
(* killable: a row that is not there is undefined, and that throws.        *)
Renders(c, selected) == selected \subseteq Loaded(c)

hasKillable == \E t \in view.selected : isTaskKillable(StateIn(ctx, t))

Spend(what) == budget[what] > 0 /\ budget' = [budget EXCEPT ![what] = @ - 1]
-----------------------------------------------------------------------------
\* A mutant of fetchAll: the same empty parameters each time.
FetchAllOnce ==
    /\ page # "blank"
    /\ ctx' = [k \in Kinds |-> IF ctx[k].hasLoaded THEN ctx[k] ELSE R!Trigger(ctx[k])]
    /\ UNCHANGED <<page, own, view, store, modal, server, budget>>

(* AppContexts polls: every context asks again, whether it was answered. *)
fetchAll ==
    /\ page # "blank"
    /\ ctx' = [k \in Kinds |-> R!Trigger(ctx[k])]
    /\ UNCHANGED <<page, own, view, store, modal, server, budget>>

Serve(k) ==
    /\ R!Sent \in ctx[k].reqs
    /\ ctx' = [ctx EXCEPT ![k] = R!Served(@, Listed(k))]
    /\ UNCHANGED <<page, own, view, store, modal, server, budget>>

(* An answer arrives; the context changes and the page renders with it.  An*)
(* exception takes the application away, contexts and all.                 *)
Deliver(k) ==
    \E q \in ctx[k].reqs \ {R!Sent} :
       LET c == [ctx EXCEPT ![k] = R!SetData(@, q)]
           ok == page = "tasks" => Renders(c, view.selected)
       IN  /\ page' = IF ok THEN page ELSE "blank"
           /\ ctx' = IF ok THEN c ELSE [j \in Kinds |-> R!Dropped(c[j])]
           /\ own' = IF ok THEN own ELSE R!Unused
           /\ view' = IF ok THEN view ELSE [filters |-> store, selected |-> {}]
           /\ UNCHANGED <<store, modal, server, budget>>

Fail(k) ==
    /\ R!Sent \in ctx[k].reqs /\ Spend("errors")
    /\ ctx' = [ctx EXCEPT ![k] = R!SetError(@)]
    /\ UNCHANGED <<page, own, view, store, modal, server>>

OwnAnswered ==
    /\ R!Sent \in own.reqs
    /\ \/ own' = R!SetData(R!Served(own, R!Undefined), R!Answer(R!Undefined)) /\ UNCHANGED budget
       \/ own' = R!SetError(own) /\ Spend("errors")
    /\ UNCHANGED <<page, ctx, view, store, modal, server>>
-----------------------------------------------------------------------------
Closed == [st |-> "closed"]
Usable == page = "tasks" /\ modal = Closed

(* TaskFilter: a type is toggled or a state chosen. *)
Toggled(S, k) == IF k \in S THEN S \ {k} ELSE S \cup {k}

handleFilterChange ==
    /\ Usable
    /\ \E f \in {[view.filters EXCEPT !.types = Toggled(@, k)] : k \in Types}
                \cup {[view.filters EXCEPT !.states = s] : s \in {ALL, "RUNNING"}} :
          /\ view' = [view EXCEPT !.filters = f]
          /\ store' = f
    /\ UNCHANGED <<page, ctx, own, modal, server, budget>>

\* A mutant of handleTableChange: the filters are not among its dependencies.
TableChangeStale ==
    /\ Usable
    /\ \E limit \in Limits :
          store' = [types |-> {}, states |-> ALL, limit |-> limit]
    /\ UNCHANGED <<page, ctx, own, view, modal, server, budget>>

(* The size of a page is stored with the filters but is not set in them. *)
handleTableChange ==
    /\ Usable
    /\ \E limit \in Limits : store' = [view.filters EXCEPT !.limit = limit]
    /\ UNCHANGED <<page, ctx, own, view, modal, server, budget>>

handleTableRowSelect ==
    /\ Usable
    /\ \E keys \in SUBSET Rows : view' = [view EXCEPT !.selected = keys]
    /\ UNCHANGED <<page, ctx, own, store, modal, server, budget>>

(* The entry of a row's menu; for these tasks nothing follows the kill. *)
handleMenuKill(t) ==
    /\ Usable
    /\ t \in Rows /\ isTaskKillable(StateIn(ctx, t))
    /\ Spend("acts")
    /\ server.tasks[t] # Gone
    /\ \E x \in terminate(server.tasks[t]) : server' = [server EXCEPT !.tasks[t] = x]
    /\ UNCHANGED <<page, ctx, own, view, store, modal>>

(* The dialogue keeps handleBatchKill of the render it was opened in: the  *)
(* tasks that were selected and killable, and isLoading of that render.    *)
handleConfirmation ==
    /\ Usable /\ hasKillable
    /\ modal' = [st |-> "asking", rows |-> view.selected, loading |-> own.isLoading, checks |-> 0,
                 calls |-> {}, ids |-> {t \in view.selected : isTaskKillable(StateIn(ctx, t))}]
    /\ UNCHANGED <<page, ctx, own, view, store, server, budget>>

Dismiss ==
    /\ modal.st = "asking"
    /\ modal' = Closed
    /\ UNCHANGED <<page, ctx, own, view, store, server, budget>>

handleBatchKill ==
    /\ modal.st = "asking" /\ Spend("acts")
    /\ modal' = [modal EXCEPT !.st = "sent", !.checks = 0,
                              !.calls = {[t |-> t, st |-> "sent"] : t \in modal.ids}]
    /\ UNCHANGED <<page, ctx, own, view, store, server>>

(* killTask at the master, which knows no task it has collected *)
ServeKill(c) ==
    /\ modal.st = "sent" /\ c \in modal.calls /\ c.st = "sent"
    /\ LET Answered(st) == [modal EXCEPT !.calls = (@ \ {c}) \cup {[c EXCEPT !.st = st]}]
       IN  \/ /\ server.tasks[c.t] # Gone
              /\ \E x \in terminate(server.tasks[c.t]) : server' = [server EXCEPT !.tasks[c.t] = x]
              /\ modal' = Answered("done")
              /\ UNCHANGED budget
           \/ /\ server.tasks[c.t] = Gone
              /\ modal' = Answered("refused")
              /\ UNCHANGED <<server, budget>>
           \/ /\ Spend("errors")
              /\ modal' = Answered("refused")
              /\ UNCHANGED server
    /\ UNCHANGED <<page, ctx, own, view, store>>

(* Promise.all fails with the first refusal.  The error is handled, the    *)
(* rows stay selected, the dialogue closes; requests still under way are   *)
(* served later or not at all.                                             *)
BatchRefused ==
    /\ modal.st = "sent" /\ \E c \in modal.calls : c.st = "refused"
    /\ modal' = Closed
    /\ \E next \in [Tasks -> Commands] :
          /\ \A t \in Tasks :
                \/ next[t] = server.tasks[t]
                \/ [t |-> t, st |-> "sent"] \in modal.calls /\ next[t] \in terminate(server.tasks[t])
          /\ server' = [server EXCEPT !.tasks = next]
    /\ UNCHANGED <<page, ctx, own, view, store, budget>>

\* A mutant of BatchKilled: the kills are not awaited together.
BatchKilledSome ==
    /\ modal.st = "sent" /\ \E c \in modal.calls : c.st = "done"
    /\ modal' = [modal EXCEPT !.st = "checking"]
    /\ view' = IF page = "tasks" THEN [view EXCEPT !.selected = {}] ELSE view
    /\ own' = IF page = "tasks" THEN R!Trigger(own) ELSE own
    /\ UNCHANGED <<page, ctx, store, server, budget>>

BatchKilled ==
    /\ modal.st = "sent" /\ \A c \in modal.calls : c.st = "done"
    /\ modal' = [modal EXCEPT !.st = "checking"]
    /\ view' = IF page = "tasks" THEN [view EXCEPT !.selected = {}] ELSE view
    /\ own' = IF page = "tasks" THEN R!Trigger(own) ELSE own
    /\ UNCHANGED <<page, ctx, store, server, budget>>

\* A mutant of checkForTaskListUpdate: the checks are not counted.
CheckUncounted ==
    /\ modal.st = "checking"
    /\ modal' = IF ~modal.loading THEN Closed ELSE modal
    /\ UNCHANGED <<page, ctx, own, view, store, server, budget>>

(* One check per second.  It looks at isLoading of the render in which the *)
(* dialogue was opened, which never changes: it ends the wait at once, or  *)
(* gives up when the checks are used up, and its interval then goes on     *)
(* rejecting a settled promise.  It rejects with nothing, so the handler   *)
(* of the error throws, and the dialogue stays open.                       *)
checkForTaskListUpdate ==
    /\ modal.st = "checking"
    /\ modal' = IF ~modal.loading THEN Closed
                ELSE IF modal.checks > MaxChecks THEN [modal EXCEPT !.st = "asking"]
                ELSE [modal EXCEPT !.checks = @ + 1]
    /\ UNCHANGED <<page, ctx, own, view, store, server, budget>>
-----------------------------------------------------------------------------
Leave ==
    /\ page = "tasks"
    /\ page' = "app"
    /\ own' = R!Unused
    /\ view' = [filters |-> store, selected |-> {}]
    /\ UNCHANGED <<ctx, store, modal, server, budget>>

(* The page is opened, with what was stored. *)
Enter ==
    /\ page = "app" /\ modal = Closed
    /\ page' = "tasks"
    /\ own' = R!Trigger(R!Unused)
    /\ view' = [filters |-> store, selected |-> {}]
    /\ UNCHANGED <<ctx, store, modal, server, budget>>

(* The pool gives a task its container.  receiveSchedulerMsg means to      *)
(* ignore that once the task has exited, but what it looks at, c.task, is  *)
(* set for good: the container of a task that was killed before is started.*)
Allocated(t) ==
    /\ server.tasks[t] \in {"PENDING", "EXITED"}
    /\ server' = [tasks |-> [server.tasks EXCEPT ![t] = "RUNNING"],
                  revived |-> server.revived \cup {u \in {t} : server.tasks[u] = "EXITED"}]
    /\ UNCHANGED <<page, ctx, own, view, store, modal, budget>>

(* The container ends, killed or by itself. *)
ContainerTerminated(t) ==
    /\ server.tasks[t] \in {"RUNNING", "KILLED"}
    /\ server' = [server EXCEPT !.tasks[t] = "TERMINATED"]
    /\ UNCHANGED <<page, ctx, own, view, store, modal, budget>>

(* A day after it has exited the master forgets a task, and one that was   *)
(* started after that is counted from when it had exited.                  *)
terminateForGC(t) ==
    /\ t \in Collected
    /\ server.tasks[t] = "TERMINATED" \/ t \in server.revived
    /\ server' = [server EXCEPT !.tasks[t] = Gone]
    /\ UNCHANGED <<page, ctx, own, view, store, modal, budget>>

Init ==
    /\ page = "app"
    /\ ctx = [k \in Kinds |-> R!Trigger(R!Unused)]
    /\ own = R!Unused
    /\ store \in [types : {{}}, states : {ALL}, limit : Limits]
    /\ view = [filters |-> store, selected |-> {}]
    /\ modal = Closed
    /\ server = [tasks |-> [t \in Tasks |-> IF t \in Waiting THEN "PENDING" ELSE "RUNNING"],
                 revived |-> {}]
    /\ budget = [errors |-> MaxErrors, acts |-> MaxActs]

Calls == IF modal.st = "sent" THEN modal.calls ELSE {}

Next ==
    \/ fetchAll \/ OwnAnswered \/ Leave \/ Enter
    \/ \E k \in Kinds : Serve(k) \/ Deliver(k) \/ Fail(k)
    \/ handleFilterChange \/ handleTableChange \/ handleTableRowSelect
    \/ handleConfirmation \/ Dismiss \/ handleBatchKill \/ BatchRefused \/ BatchKilled
    \/ checkForTaskListUpdate
    \/ \E c \in Calls : ServeKill(c)
    \/ \E t \in Tasks :
          handleMenuKill(t) \/ Allocated(t) \/ ContainerTerminated(t) \/ terminateForGC(t)

Spec == Init /\ [][Next]_vars

(* The timers of the contexts and of the check go off; kills are answered  *)
(* and containers that were told to end do; and a list arrives, at least   *)
(* now and then, sooner than the next poll cancels the question.           *)
Fairness ==
    /\ WF_vars(fetchAll)
    /\ WF_vars((\E c \in Calls : ServeKill(c)) \/ BatchRefused \/ BatchKilled \/ checkForTaskListUpdate)
    /\ WF_vars(\E t \in Tasks : server.tasks[t] = "KILLED" /\ ContainerTerminated(t))
    /\ \A k \in Kinds : WF_vars(Serve(k)) /\ SF_vars(Deliver(k))

FairSpec == Spec /\ Fairness
-----------------------------------------------------------------------------
TypeOK ==
    /\ page \in {"tasks", "app", "blank"}
    /\ \A k \in Kinds :
          /\ DOMAIN ctx[k].data \subseteq OfKind(k)
          /\ ctx[k].data # R!Undefined => ctx[k].hasLoaded
    /\ view.filters \in [types : SUBSET Types, states : {ALL, "RUNNING"}, limit : Limits]
    /\ store \in [types : SUBSET Types, states : {ALL, "RUNNING"}, limit : Limits]
    /\ view.selected \subseteq Tasks
    /\ modal.st \in {"closed", "asking", "sent", "checking"}
    /\ server \in [tasks : [Tasks -> Commands], revived : SUBSET Tasks]

(* useRestApi says it is loading only while a request of it is still to be *)
(* answered: an error, or a request that is cancelled by the next one or by*)
(* leaving the page, never leaves it loading with nothing under way, which *)
(* would keep every later batch from being seen to end.                    *)
LoadingIsAsked ==
    /\ page # "blank" => \A k \in Kinds : ctx[k].isLoading => ctx[k].reqs # {}
    /\ page = "tasks" => (own.isLoading => own.reqs # {})

(* A task that was shown as ended is never shown as running again: the     *)
(* answer to an older question cannot arrive after that to a newer one,    *)
(* because each question cancels the one before (useRestApi).  The tasks   *)
(* that the master starts after they have exited do run again.             *)
NoGoingBack ==
    [][\A t \in Loaded(ctx) \ server.revived :
          ~isTaskKillable(StateIn(ctx, t)) /\ t \in Loaded(ctx)'
             => ~isTaskKillable(StateIn(ctx', t))]_vars

(* A task that runs no more, or not for long: it was told to end. *)
Told(t) == server.tasks[t] \notin {"PENDING", "RUNNING"} \/ t \in server.revived

(* handleBatchKill deselects the rows and closes the dialogue only if      *)
(* every selected task has ended or was told to, whatever was refused,     *)
(* ended by itself or was shown in an older state.                         *)
WholeBatchTold ==
    [][modal.st = "sent" /\ modal'.st = "checking" => \A t \in modal.rows : Told(t)]_vars

(* The dialogue that kills is usable again in the end, whatever is slow or *)
(* fails: checkForTaskListUpdate counts its checks.                        *)
DialogueReturns == modal.st \in {"sent", "checking"} ~> modal.st \in {"closed", "asking"}

(* A task that has ended or was told to is not shown as running for ever,  *)
(* although the table shows nothing of what the page itself asks for, and  *)
(* the answers go on calling a task that was told to end a running one.    *)
EndedIsShown ==
    \A t \in Tasks : Told(t)
       ~> \/ page = "blank" \/ t \notin Loaded(ctx) \/ ~isTaskKillable(StateIn(ctx, t))
          \/ t \in server.revived

(* Not a property of the code: see Allocated. *)
NeverRevived == server.revived = {}

(* Filters survive a reload: what is stored is what is set, after changes  *)
(* of the table as well (handleFilterChange, handleTableChange).           *)
FiltersStored == page = "tasks" => [store EXCEPT !.limit = 0] = [view.filters EXCEPT !.limit = 0]

(* Nothing loads that was not asked for, and the filters that are stored   *)
(* are the ones that are set (useRestApi, TaskList).                       *)
PageWhole == TypeOK /\ LoadingIsAsked /\ FiltersStored

(* A batch is killed whole, and its dialogue comes back (handleBatchKill,  *)
(* checkForTaskListUpdate).                                                *)
BatchEnds == WholeBatchTold /\ DialogueReturns
=============================================================================
