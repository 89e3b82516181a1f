--------------------------- MODULE TaskListProofs ---------------------------
(***************************************************************************)
(* Proofs about TaskList, for every set of tasks, every set of page sizes  *)
(* and every bound.                                                        *)
(***************************************************************************)
EXTENDS TaskList, TLAPS

(***************************************************************************)
(* The inductive invariant.  Its parts take the state they are about as    *)
(* parameters, so that they can be stated of the state after a step.       *)
(***************************************************************************)
States == killableCmdStates \cup terminalCommandStates
Lists(k) == UNION {[S -> States] : S \in SUBSET OfKind(k)}
FilterSets == [types : SUBSET Types, states : {ALL, "RUNNING"}, limit : Limits]
Servers == [tasks : [Tasks -> Commands], revived : SUBSET Tasks]

\* What a context for kind k may keep: it has one request under way or none.
Hooks(k) ==
    [data : Lists(k) \cup {R!Undefined}, hasLoaded : BOOLEAN, isLoading : BOOLEAN,
     reqs : {{}, {R!Sent}} \cup {{R!Answer(rows)} : rows \in Lists(k)}]

CtxOK(c) ==
    /\ c = [k \in Kinds |-> c[k]]
    /\ \A k \in Kinds : c[k] \in Hooks(k) /\ (c[k].data # R!Undefined => c[k].hasLoaded)

OwnOK(o) ==
    /\ o \in [data : {R!Undefined}, hasLoaded : BOOLEAN, isLoading : BOOLEAN, reqs : {{}, {R!Sent}}]
    /\ o.isLoading => o.reqs # {}

Asked(p, c) == p # "blank" => \A k \in Kinds : c[k].isLoading => c[k].reqs # {}

\* A task that has ended for good, as far as the lists tell; and one that was
\* told to end at least.
Done(sv, t) == ~isTaskKillable(newSummary(sv.tasks[t])) \/ t \in sv.revived
ToldBy(sv, t) == sv.tasks[t] \notin {"PENDING", "RUNNING"} \/ t \in sv.revived

\* The server is never behind an answer, nor an answer behind what is shown.
Older(c, sv) ==
    \A k \in Kinds :
       /\ \A t \in DOMAIN c[k].data :
             ~isTaskKillable(c[k].data[t]) => Done(sv, t)
       /\ \A q \in c[k].reqs \ {R!Sent} : \A t \in DOMAIN q.rows :
             /\ ~isTaskKillable(q.rows[t]) => Done(sv, t)
             /\ t \in DOMAIN c[k].data /\ ~isTaskKillable(c[k].data[t])
                   => ~isTaskKillable(q.rows[t]) \/ t \in sv.revived

ViewOK(p, v, st, c) ==
    /\ v \in [filters : FilterSets, selected : SUBSET Tasks]
    /\ st \in FilterSets
    /\ p = "tasks" => v.selected \subseteq Loaded(c)
    /\ p = "tasks" => [st EXCEPT !.limit = 0] = [v.filters EXCEPT !.limit = 0]

\* The dialogue: whoever was selected and is not to be killed has ended, and
\* whoever the master says is killed was told to.
CallsOf(T) == [t : T, st : {"sent", "done", "refused"}]

Dialogues ==
    [st : {"asking", "sent", "checking"}, rows : SUBSET Tasks, loading : BOOLEAN,
     checks : Nat, calls : SUBSET CallsOf(Tasks), ids : SUBSET Tasks]

ModalOK(m, sv) ==
    \/ m = Closed
    \/ /\ m \in Dialogues
       /\ \A t \in m.rows \ m.ids : ToldBy(sv, t)
       /\ m.st = "sent" =>
             /\ \A t \in m.ids : \E c \in m.calls : c.t = t
             /\ \A c \in m.calls : c.st = "done" => ToldBy(sv, c.t)

IInv ==
    /\ page \in {"tasks", "app", "blank"}
    /\ CtxOK(ctx) /\ OwnOK(own) /\ Asked(page, ctx) /\ Older(ctx, server)
    /\ ViewOK(page, view, store, ctx)
    /\ ModalOK(modal, server)
    /\ server \in Servers

-----------------------------------------------------------------------------
(* useRestApi. *)

\* An answer is not a question, and its rows are what the server said.
LEMMA AnswerIsNotSent == \A rows : R!Answer(rows) # R!Sent /\ R!Answer(rows).rows = rows
  BY DEF R!Answer, R!Sent

\* Nothing loaded is no rows.
LEMMA UndefinedIsEmpty == DOMAIN R!Undefined = {}
  BY DEF R!Undefined

\* Lists are of tasks of their kind.
LEMMA ListsDomain ==
    ASSUME NEW k \in Kinds, NEW d \in Lists(k) \cup {R!Undefined}
    PROVE  DOMAIN d \subseteq OfKind(k) /\ OfKind(k) \subseteq Tasks
  BY UndefinedIsEmpty DEF Lists, OfKind

\* Each step of the hook keeps one request under way at most.
LEMMA TriggerHook ==
    ASSUME NEW k, NEW h \in Hooks(k)
    PROVE  /\ R!Trigger(h) \in Hooks(k)
           /\ R!Trigger(h).data = h.data /\ R!Trigger(h).hasLoaded = h.hasLoaded
           /\ R!Trigger(h).reqs = {R!Sent}
  BY DEF Hooks, R!Trigger

LEMMA ServedHook ==
    ASSUME NEW k, NEW h \in Hooks(k), R!Sent \in h.reqs, NEW rows \in Lists(k)
    PROVE  /\ R!Served(h, rows) \in Hooks(k)
           /\ R!Served(h, rows).data = h.data /\ R!Served(h, rows).hasLoaded = h.hasLoaded
           /\ R!Served(h, rows).reqs = {R!Answer(rows)}
<1>1. h.reqs = {R!Sent}
  BY AnswerIsNotSent DEF Hooks
<1>2. (h.reqs \ {R!Sent}) \cup {R!Answer(rows)} = {R!Answer(rows)}
  BY <1>1
<1>3. R!Served(h, rows) = [h EXCEPT !.reqs = {R!Answer(rows)}]
  BY <1>2 DEF R!Served, Hooks
<1> QED
  BY <1>3 DEF Hooks

LEMMA SetDataHook ==
    ASSUME NEW k, NEW h \in Hooks(k), NEW q \in h.reqs \ {R!Sent}
    PROVE  /\ R!SetData(h, q) \in Hooks(k)
           /\ R!SetData(h, q).data = q.rows /\ R!SetData(h, q).hasLoaded
           /\ ~R!SetData(h, q).isLoading /\ R!SetData(h, q).reqs = {}
           /\ q.rows \in Lists(k)
<1>1. PICK rows \in Lists(k) : h.reqs = {R!Answer(rows)}
  BY DEF Hooks
<1>2. q = R!Answer(rows) /\ q.rows = rows /\ h.reqs \ {q} = {}
  BY <1>1, AnswerIsNotSent
<1> QED
  BY <1>2 DEF Hooks, R!SetData

LEMMA SetErrorHook ==
    ASSUME NEW k, NEW h \in Hooks(k), R!Sent \in h.reqs
    PROVE  /\ R!SetError(h) \in Hooks(k)
           /\ R!SetError(h).data = h.data /\ R!SetError(h).hasLoaded = h.hasLoaded
           /\ ~R!SetError(h).isLoading /\ R!SetError(h).reqs = {}
<1>1. h.reqs \ {R!Sent} = {}
  BY AnswerIsNotSent DEF Hooks
<1>2. R!SetError(h) = [h EXCEPT !.isLoading = FALSE, !.reqs = {}]
  BY <1>1 DEF R!SetError, Hooks
<1> QED
  BY <1>2 DEF Hooks

LEMMA DroppedHook ==
    ASSUME NEW k, NEW h \in Hooks(k)
    PROVE  /\ R!Dropped(h) \in Hooks(k)
           /\ R!Dropped(h).data = h.data /\ R!Dropped(h).hasLoaded = h.hasLoaded
           /\ R!Dropped(h).reqs = {}
  BY DEF Hooks, R!Dropped

\* What is shown of a command that there is.
LEMMA SummaryType ==
    ASSUME NEW x \in Commands \ {Gone}
    PROVE  newSummary(x) \in States
  BY DEF newSummary, Commands, States, killableCmdStates, terminalCommandStates, Gone

\* The master answers with tasks of the kind, as they are.
LEMMA ListedType ==
    ASSUME NEW k \in Kinds, server \in Servers
    PROVE  /\ Listed(k) \in Lists(k)
           /\ \A t \in DOMAIN Listed(k) : t \in Tasks /\ Listed(k)[t] = newSummary(server.tasks[t])
<1> DEFINE there == {t \in OfKind(k) : server.tasks[t] # Gone}
<1>1. Listed(k) = [t \in there |-> newSummary(server.tasks[t])]
  BY DEF Listed
<1>2. there \in SUBSET OfKind(k)
      /\ \A t \in there : t \in Tasks /\ server.tasks[t] \in Commands \ {Gone}
  BY DEF OfKind, Servers
<1>3. [t \in there |-> newSummary(server.tasks[t])] \in [there -> States]
  BY <1>2, SummaryType
<1> HIDE DEF there
<1> QED
  BY <1>1, <1>2, <1>3 DEF Lists

-----------------------------------------------------------------------------
(* The contexts and the server. *)

\* Tasks only end, but for those that are revived: a server that moved on keeps
\* every answer older than it is.
Onward(sv, sv2) ==
    /\ sv.revived \subseteq sv2.revived
    /\ \A t \in Tasks :
          /\ Done(sv, t) => Done(sv2, t)
          /\ ToldBy(sv, t) => ToldBy(sv2, t)

LEMMA OlderKept ==
    ASSUME NEW c, CtxOK(c), NEW sv, NEW sv2, Older(c, sv), Onward(sv, sv2)
    PROVE  Older(c, sv2)
<1>1. ASSUME NEW k \in Kinds, NEW t \in DOMAIN c[k].data PROVE t \in Tasks
  BY ListsDomain DEF CtxOK, Hooks
<1>2. ASSUME NEW k \in Kinds, NEW q \in c[k].reqs \ {R!Sent}, NEW t \in DOMAIN q.rows
      PROVE  t \in Tasks
  <2>1. q.rows \in Lists(k)
    BY SetDataHook DEF CtxOK
  <2> QED
    BY <2>1, ListsDomain
<1>3. sv.revived \subseteq sv2.revived /\ \A t \in Tasks : Done(sv, t) => Done(sv2, t)
  BY DEF Onward
<1> QED
  BY <1>1, <1>2, <1>3 DEF Older

\* The dialogue's claims stay true as well.
LEMMA ModalKept ==
    ASSUME NEW m, NEW sv, NEW sv2, ModalOK(m, sv), Onward(sv, sv2)
    PROVE  ModalOK(m, sv2)
<1>1. CASE m = Closed
  BY <1>1 DEF ModalOK
<1>2. CASE m \in Dialogues /\ m # Closed
  <2>1. m.rows \subseteq Tasks /\ \A c \in m.calls : c.t \in Tasks
    BY <1>2 DEF Dialogues, CallsOf
  <2>2. \A t \in Tasks : ToldBy(sv, t) => ToldBy(sv2, t)
    BY DEF Onward
  <2> QED
    BY <1>2, <2>1, <2>2 DEF ModalOK
<1> QED
  BY <1>1, <1>2 DEF ModalOK

\* A task that the contexts have is in the context of its kind.
LEMMA LoadedKind ==
    ASSUME NEW c, CtxOK(c), NEW t \in Loaded(c)
    PROVE  t \in Tasks /\ kindOf[t] \in Kinds /\ t \in DOMAIN c[kindOf[t]].data
<1>1. PICK k \in Kinds : t \in DOMAIN c[k].data
  BY DEF Loaded
<1>2. t \in OfKind(k) /\ t \in Tasks
  BY <1>1, ListsDomain DEF CtxOK, Hooks
<1> QED
  BY <1>1, <1>2 DEF OfKind

\* One context changes.
LEMMA OneContext ==
    ASSUME NEW c, CtxOK(c), NEW k \in Kinds, NEW h \in Hooks(k),
           h.data # R!Undefined => h.hasLoaded
    PROVE  CtxOK([c EXCEPT ![k] = h])
<1> DEFINE d == [c EXCEPT ![k] = h]
<1>1. \A j \in Kinds : d[j] = IF j = k THEN h ELSE c[j]
  BY DEF CtxOK
<1>2. d = [j \in Kinds |-> d[j]]
  BY DEF CtxOK
<1> HIDE DEF d
<1>3. \A j \in Kinds : d[j] \in Hooks(j) /\ (d[j].data # R!Undefined => d[j].hasLoaded)
  BY <1>1 DEF CtxOK
<1>4. CtxOK(d)
  BY <1>2, <1>3 DEF CtxOK
<1> QED
  BY <1>4 DEF d

-----------------------------------------------------------------------------
(* The invariant. *)

\* The page before it is opened.
LEMMA InitIInv == Init => IInv
<1> SUFFICES ASSUME Init PROVE IInv
  OBVIOUS
<1>1. R!Unused \in [data : {R!Undefined}, hasLoaded : BOOLEAN, isLoading : BOOLEAN,
                    reqs : {{}, {R!Sent}}] /\ ~R!Unused.isLoading
  BY DEF R!Unused
<1>2. \A k : R!Unused \in Hooks(k) /\ R!Unused.data = R!Undefined
  BY DEF R!Unused, Hooks
<1>3. /\ ctx = [k \in Kinds |-> ctx[k]]
      /\ \A k \in Kinds : /\ ctx[k] \in Hooks(k) /\ ctx[k].data = R!Undefined
                          /\ ctx[k].reqs = {R!Sent}
  BY <1>2, TriggerHook DEF Init
<1>4. CtxOK(ctx) /\ Asked(page, ctx) /\ Older(ctx, server)
  BY <1>3, UndefinedIsEmpty DEF CtxOK, Asked, Older
<1>5. ViewOK(page, view, store, ctx)
  BY DEF Init, ViewOK, FilterSets
<1>6. server \in Servers
  BY DEF Init, Servers, Commands
<1> QED
  BY <1>1, <1>4, <1>5, <1>6 DEF Init, IInv, OwnOK, ModalOK

\* What a step does to the contexts is shown as an onward change.
Forward ==
    \A t \in Loaded(ctx) \ server.revived :
       ~isTaskKillable(StateIn(ctx, t)) /\ t \in Loaded(ctx)' => ~isTaskKillable(StateIn(ctx', t))

\* Requests and their cancelling change nothing that is shown, and keep the
\* answers under way in order if they add none.
LEMMA SameData ==
    ASSUME NEW c, NEW d, CtxOK(c), \A k \in Kinds : d[k].data = c[k].data
    PROVE  /\ Loaded(d) = Loaded(c)
           /\ \A t \in Loaded(c) : StateIn(d, t) = StateIn(c, t)
<1>1. Loaded(d) = Loaded(c)
  BY DEF Loaded
<1> QED
  BY <1>1, LoadedKind DEF StateIn

LEMMA SameAnswers ==
    ASSUME NEW c, NEW d, NEW sv, Older(c, sv), \A k \in Kinds : d[k].data = c[k].data,
           \A k \in Kinds : d[k].reqs \ {R!Sent} \subseteq c[k].reqs \ {R!Sent}
    PROVE  Older(d, sv)
  BY DEF Older

\* fetchAll: every context asks again.
LEMMA fetchAllIInv == ASSUME IInv, fetchAll PROVE IInv' /\ Forward
<1>1. /\ ctx' = [k \in Kinds |-> R!Trigger(ctx[k])]
      /\ UNCHANGED <<page, own, view, store, modal, server>>
  BY DEF fetchAll
<1>2. \A k \in Kinds : /\ ctx'[k] \in Hooks(k) /\ ctx'[k].data = ctx[k].data
                       /\ ctx'[k].hasLoaded = ctx[k].hasLoaded /\ ctx'[k].reqs = {R!Sent}
  BY <1>1, TriggerHook DEF IInv, CtxOK
<1>3. CtxOK(ctx')
  BY <1>1, <1>2 DEF IInv, CtxOK
<1>4. Asked(page, ctx') /\ Older(ctx', server)
  BY <1>2, SameAnswers DEF Asked, IInv
<1>5. Loaded(ctx') = Loaded(ctx) /\ \A t \in Loaded(ctx) : StateIn(ctx', t) = StateIn(ctx, t)
  BY <1>2, SameData DEF IInv
<1>6. ViewOK(page, view, store, ctx') /\ Forward
  BY <1>5 DEF IInv, ViewOK, Forward, Loaded
<1> QED
  BY <1>1, <1>3, <1>4, <1>6 DEF IInv, OwnOK, ModalOK

\* Serve: the answer is the server's state, so nothing is newer than it.
LEMMA ServeIInv == ASSUME IInv, NEW k \in Kinds, Serve(k) PROVE IInv' /\ Forward
<1> DEFINE h == R!Served(ctx[k], Listed(k))
<1>1. /\ R!Sent \in ctx[k].reqs /\ ctx' = [ctx EXCEPT ![k] = h]
      /\ UNCHANGED <<page, own, view, store, modal, server>>
  BY DEF Serve
<1>2. /\ Listed(k) \in Lists(k)
      /\ \A t \in DOMAIN Listed(k) : t \in Tasks /\ Listed(k)[t] = newSummary(server.tasks[t])
  BY ListedType DEF IInv
<1>3. /\ h \in Hooks(k) /\ h.data = ctx[k].data /\ h.hasLoaded = ctx[k].hasLoaded
      /\ h.reqs = {R!Answer(Listed(k))}
  BY <1>1, <1>2, ServedHook DEF IInv, CtxOK
<1> HIDE DEF h
<1>4. CtxOK(ctx')
  BY <1>1, <1>3, OneContext DEF IInv, CtxOK
<1>5. \A j \in Kinds : ctx'[j] = IF j = k THEN h ELSE ctx[j]
  BY <1>1 DEF IInv, CtxOK
<1>6. Asked(page, ctx')
  BY <1>3, <1>5 DEF Asked, IInv
<1>7. Older(ctx', server)
  <2>1. \A t \in DOMAIN ctx[k].data :
           ~isTaskKillable(ctx[k].data[t]) => Done(server, t)
    BY DEF IInv, Older
  <2>2. \A q \in h.reqs : q.rows = Listed(k)
    BY <1>3, AnswerIsNotSent
  <2> QED
    BY <1>2, <1>3, <1>5, <2>1, <2>2 DEF IInv, Older, Done
<1>8. \A j \in Kinds : ctx'[j].data = ctx[j].data
  BY <1>3, <1>5
<1>9. Loaded(ctx') = Loaded(ctx) /\ \A t \in Loaded(ctx) : StateIn(ctx', t) = StateIn(ctx, t)
  BY <1>8, SameData DEF IInv
<1>10. ViewOK(page, view, store, ctx') /\ Forward
  BY <1>9 DEF IInv, ViewOK, Forward, Loaded
<1> QED
  BY <1>1, <1>4, <1>6, <1>7, <1>10 DEF IInv, OwnOK, ModalOK

\* Fail: the request is gone and so is the loading.
LEMMA FailIInv == ASSUME IInv, NEW k \in Kinds, Fail(k) PROVE IInv' /\ Forward
<1> DEFINE h == R!SetError(ctx[k])
<1>1. /\ R!Sent \in ctx[k].reqs /\ ctx' = [ctx EXCEPT ![k] = h]
      /\ UNCHANGED <<page, own, view, store, modal, server>>
  BY DEF Fail
<1>2. /\ h \in Hooks(k) /\ h.data = ctx[k].data /\ h.hasLoaded = ctx[k].hasLoaded
      /\ ~h.isLoading /\ h.reqs = {}
  BY <1>1, SetErrorHook DEF IInv, CtxOK
<1> HIDE DEF h
<1>3. CtxOK(ctx')
  BY <1>1, <1>2, OneContext DEF IInv, CtxOK
<1>4. \A j \in Kinds : ctx'[j] = IF j = k THEN h ELSE ctx[j]
  BY <1>1 DEF IInv, CtxOK
<1>5. Asked(page, ctx')
  BY <1>2, <1>4 DEF Asked, IInv
<1>6. \A j \in Kinds : ctx'[j].data = ctx[j].data /\ ctx'[j].reqs \subseteq ctx[j].reqs
  BY <1>2, <1>4
<1>7. Older(ctx', server)
  BY <1>6, SameAnswers DEF IInv
<1>8. Loaded(ctx') = Loaded(ctx) /\ \A t \in Loaded(ctx) : StateIn(ctx', t) = StateIn(ctx, t)
  BY <1>6, SameData DEF IInv
<1>9. ViewOK(page, view, store, ctx') /\ Forward
  BY <1>8 DEF IInv, ViewOK, Forward, Loaded
<1> QED
  BY <1>1, <1>3, <1>5, <1>7, <1>9 DEF IInv, OwnOK, ModalOK

\* Deliver: the answer is no older than what was shown, whether the page renders
\* with it or goes blank.
LEMMA DeliverIInv == ASSUME IInv, NEW k \in Kinds, Deliver(k) PROVE IInv' /\ Forward
<1>1. PICK q \in ctx[k].reqs \ {R!Sent} :
         LET c == [ctx EXCEPT ![k] = R!SetData(ctx[k], q)]
             ok == page = "tasks" => Renders(c, view.selected)
         IN  /\ page' = IF ok THEN page ELSE "blank"
             /\ ctx' = IF ok THEN c ELSE [j \in Kinds |-> R!Dropped(c[j])]
             /\ own' = IF ok THEN own ELSE R!Unused
             /\ view' = IF ok THEN view ELSE [filters |-> store, selected |-> {}]
             /\ UNCHANGED <<store, modal, server, budget>>
  BY DEF Deliver
<1> DEFINE h == R!SetData(ctx[k], q)
           c == [ctx EXCEPT ![k] = h]
           ok == page = "tasks" => Renders(c, view.selected)
<1>2. /\ h \in Hooks(k) /\ h.data = q.rows /\ h.hasLoaded
      /\ ~h.isLoading /\ h.reqs = {} /\ q.rows \in Lists(k)
  BY SetDataHook DEF IInv, CtxOK
<1> HIDE DEF h
<1>3. CtxOK(c)
  BY <1>2, OneContext DEF IInv, CtxOK
<1>4. \A j \in Kinds : c[j] = IF j = k THEN h ELSE ctx[j]
  BY DEF IInv, CtxOK
<1>5. Older(c, server)
  <2>1. \A t \in DOMAIN q.rows : ~isTaskKillable(q.rows[t]) => Done(server, t)
    BY DEF IInv, Older
  <2> HIDE DEF c
  <2> QED
    BY <1>2, <1>4, <2>1 DEF IInv, Older
<1>6. ASSUME NEW t \in Loaded(ctx) \ server.revived, ~isTaskKillable(StateIn(ctx, t)), t \in Loaded(c)
      PROVE  ~isTaskKillable(StateIn(c, t))
  <2>1. /\ t \in Tasks /\ kindOf[t] \in Kinds /\ t \in DOMAIN ctx[kindOf[t]].data
        /\ t \in DOMAIN c[kindOf[t]].data
    BY <1>3, <1>6, LoadedKind DEF IInv
  <2> HIDE DEF c
  <2> QED
    BY <1>2, <1>4, <1>6, <2>1 DEF IInv, Older, StateIn
<1> HIDE DEF c
<1>7. CASE ok
  <2>1. /\ ctx' = c /\ UNCHANGED <<page, own, view, store, modal, server>>
    BY <1>1, <1>7 DEF c, h
  <2>2. Asked(page, ctx')
    BY <1>2, <1>4, <2>1 DEF IInv, Asked
  <2>3. Forward
    BY <1>6, <2>1 DEF Forward, Loaded
  <2>4. ViewOK(page, view, store, ctx')
    BY <1>7, <2>1 DEF IInv, ViewOK, Renders
  <2> QED
    BY <1>3, <1>5, <2>1, <2>2, <2>3, <2>4 DEF IInv, OwnOK, ModalOK
<1>8. CASE ~ok
  <2>1. /\ ctx' = [j \in Kinds |-> R!Dropped(c[j])] /\ page' = "blank"
        /\ own' = R!Unused /\ view' = [filters |-> store, selected |-> {}]
        /\ UNCHANGED <<store, modal, server>>
    BY <1>1, <1>8 DEF c, h
  <2>2. \A j \in Kinds : /\ ctx'[j] \in Hooks(j) /\ ctx'[j].data = c[j].data
                         /\ ctx'[j].hasLoaded = c[j].hasLoaded /\ ctx'[j].reqs = {}
    BY <1>3, <2>1, DroppedHook DEF CtxOK
  <2>3. CtxOK(ctx')
    BY <1>3, <2>1, <2>2 DEF CtxOK
  <2>4. Older(ctx', server)
    BY <1>5, <2>2, SameAnswers
  <2>5. Loaded(ctx') = Loaded(c) /\ \A t \in Loaded(c) : StateIn(ctx', t) = StateIn(c, t)
    BY <1>3, <2>2, SameData
  <2>6. Forward
    BY <1>6, <2>5 DEF Forward, Loaded
  <2>7. OwnOK(own')
    BY <2>1 DEF OwnOK, R!Unused
  <2>8. ViewOK(page', view', store, ctx') /\ Asked(page', ctx')
    BY <2>1 DEF IInv, ViewOK, Asked
  <2> QED
    BY <2>1, <2>3, <2>4, <2>6, <2>7, <2>8 DEF IInv, ModalOK
<1> QED
  BY <1>7, <1>8

\* Steps of the page that leave contexts, dialogue and server alone: what the
\* page shows and stores, and its own question.
LEMMA PageSteps ==
    ASSUME IInv, UNCHANGED <<ctx, modal, server>>,
           OwnAnswered \/ handleFilterChange \/ handleTableChange \/ handleTableRowSelect
           \/ Leave \/ Enter
    PROVE  IInv'
<1> SUFFICES page' \in {"tasks", "app", "blank"} /\ OwnOK(own') /\ Asked(page', ctx)
             /\ ViewOK(page', view', store', ctx)
  BY DEF IInv, CtxOK, Older, ModalOK
<1>0. /\ store \in FilterSets /\ view \in [filters : FilterSets, selected : SUBSET Tasks]
      /\ OwnOK(own) /\ page \in {"tasks", "app", "blank"}
  BY DEF IInv, ViewOK
<1>1. CASE OwnAnswered
  <2>1. own.reqs = {R!Sent} /\ UNCHANGED <<page, view, store>>
    BY <1>0, <1>1 DEF OwnAnswered, OwnOK
  <2>2. CASE own' = R!SetData(R!Served(own, R!Undefined), R!Answer(R!Undefined))
    <3>1. (own.reqs \ {R!Sent}) \cup {R!Answer(R!Undefined)} = {R!Answer(R!Undefined)}
      BY <2>1
    <3>2. R!Served(own, R!Undefined).reqs = {R!Answer(R!Undefined)}
      BY <1>0, <3>1 DEF R!Served, OwnOK
    <3>3. own' = [data |-> R!Undefined, hasLoaded |-> TRUE, isLoading |-> FALSE, reqs |-> {}]
      BY <2>2, <3>2, AnswerIsNotSent DEF R!SetData
    <3> QED
      BY <2>1, <3>3 DEF OwnOK, IInv, ViewOK, Asked
  <2>3. CASE own' = R!SetError(own)
    <3>1. own.reqs \ {R!Sent} = {}
      BY <2>1
    <3>2. own' = [own EXCEPT !.isLoading = FALSE, !.reqs = {}]
      BY <1>0, <2>3, <3>1 DEF R!SetError, OwnOK
    <3> QED
      BY <1>0, <2>1, <3>2 DEF OwnOK, IInv, ViewOK, Asked
  <2> QED
    BY <1>1, <2>2, <2>3 DEF OwnAnswered
<1>2. CASE handleFilterChange
  <2>1. PICK f \in {[view.filters EXCEPT !.types = Toggled(@, k)] : k \in Types}
              \cup {[view.filters EXCEPT !.states = s] : s \in {ALL, "RUNNING"}} :
           view' = [view EXCEPT !.filters = f] /\ store' = f
    BY <1>2 DEF handleFilterChange
  <2>2. f \in FilterSets
    <3>1. view.filters \in FilterSets
      BY <1>0
    <3>2. \A k \in Types : Toggled(view.filters.types, k) \in SUBSET Types
      BY <3>1 DEF Toggled, FilterSets
    <3> QED
      BY <2>1, <3>1, <3>2 DEF FilterSets
  <2>3. /\ view'.filters = f /\ view'.selected = view.selected
        /\ view' \in [filters : FilterSets, selected : SUBSET Tasks]
    BY <1>0, <2>1, <2>2
  <2>4. UNCHANGED <<page, own>>
    BY <1>2 DEF handleFilterChange
  <2> QED
    BY <1>0, <2>1, <2>2, <2>3, <2>4 DEF IInv, ViewOK, Asked
<1>3. CASE handleTableChange
  <2>1. PICK limit \in Limits : store' = [view.filters EXCEPT !.limit = limit]
    BY <1>3 DEF handleTableChange
  <2>2. /\ store' \in FilterSets
        /\ [store' EXCEPT !.limit = 0] = [view.filters EXCEPT !.limit = 0]
    BY <1>0, <2>1 DEF FilterSets
  <2> QED
    BY <1>0, <1>3, <2>2 DEF handleTableChange, IInv, ViewOK, Asked
<1>4. CASE handleTableRowSelect
  <2>1. PICK keys \in SUBSET Rows : view' = [view EXCEPT !.selected = keys]
    BY <1>4 DEF handleTableRowSelect
  <2>2. keys \subseteq Loaded(ctx)
    BY <2>1 DEF Rows, filterTasks
  <2>3. keys \subseteq Tasks
    BY <2>2, LoadedKind DEF IInv
  <2>4. /\ view'.filters = view.filters /\ view'.selected = keys
        /\ view' \in [filters : FilterSets, selected : SUBSET Tasks]
    BY <1>0, <2>1, <2>3
  <2> QED
    BY <1>0, <1>4, <2>2, <2>4 DEF handleTableRowSelect, IInv, ViewOK, Asked
<1>5. CASE Leave
  BY <1>0, <1>5 DEF Leave, IInv, ViewOK, Asked, OwnOK, R!Unused
<1>6. CASE Enter
  <2>1. own' = [data |-> R!Undefined, hasLoaded |-> FALSE, isLoading |-> TRUE, reqs |-> {R!Sent}]
    BY <1>6 DEF Enter, R!Unused, R!Trigger
  <2>2. OwnOK(own')
    BY <2>1 DEF OwnOK
  <2> QED
    BY <1>0, <1>6, <2>2 DEF Enter, IInv, ViewOK, Asked
<1> QED
  BY <1>1, <1>2, <1>3, <1>4, <1>5, <1>6

\* Steps of the server.
LEMMA ServerSteps ==
    ASSUME IInv, server' \in Servers, Onward(server, server'),
           UNCHANGED <<page, ctx, own, view, store, modal>>
    PROVE  IInv'
<1>1. Older(ctx, server') /\ ModalOK(modal, server')
  BY OlderKept, ModalKept DEF IInv
<1> QED
  BY <1>1 DEF IInv, CtxOK, Asked, ViewOK, OwnOK

\* A kill, the end of a container and forgetting a task are steps onward.
LEMMA TaskOnward ==
    ASSUME server \in Servers, NEW t \in Tasks,
           NEW x \in terminate(server.tasks[t]) \cup {"TERMINATED", Gone}
    PROVE  LET sv == [server EXCEPT !.tasks[t] = x]
           IN  sv \in Servers /\ Onward(server, sv) /\ ToldBy(sv, t)
<1> DEFINE sv == [server EXCEPT !.tasks[t] = x]
<1>1. server.tasks[t] \in Commands
  BY DEF Servers
<1>2. /\ x \in Commands /\ x \notin {"PENDING", "RUNNING"}
      /\ ~isTaskKillable(newSummary(server.tasks[t])) => ~isTaskKillable(newSummary(x))
  BY <1>1 DEF Commands, terminate, newSummary, isTaskKillable, killableCmdStates, Gone
<1>3. /\ sv \in Servers /\ sv.revived = server.revived
      /\ \A u \in Tasks : sv.tasks[u] = IF u = t THEN x ELSE server.tasks[u]
  BY <1>2 DEF Servers
<1> HIDE DEF sv
<1>4. sv \in Servers /\ Onward(server, sv) /\ ToldBy(sv, t)
  BY <1>2, <1>3 DEF Onward, Done, ToldBy
<1> QED
  BY <1>4 DEF sv

\* So is the start of a container, though it may revive a task.
LEMMA AllocatedOnward ==
    ASSUME server \in Servers, NEW t \in Tasks, Allocated(t)
    PROVE  server' \in Servers /\ Onward(server, server')
<1> DEFINE late == {u \in {t} : server.tasks[u] = "EXITED"}
<1>1. server' = [tasks |-> [server.tasks EXCEPT ![t] = "RUNNING"], revived |-> server.revived \cup late]
  BY DEF Allocated
<1>2. late \subseteq Tasks /\ (server.tasks[t] = "EXITED" => t \in late)
      /\ server.tasks[t] \in {"PENDING", "EXITED"}
  BY DEF Allocated
<1> HIDE DEF late
<1>3. /\ server' \in Servers /\ server'.revived = server.revived \cup late
      /\ \A u \in Tasks : server'.tasks[u] = IF u = t THEN "RUNNING" ELSE server.tasks[u]
  BY <1>1, <1>2 DEF Servers, Commands
<1>4. isTaskKillable(newSummary("PENDING"))
  BY DEF isTaskKillable, newSummary, killableCmdStates
<1> QED
  BY <1>2, <1>3, <1>4 DEF Onward, Done, ToldBy

\* A task that has ended needs no telling.
LEMMA DoneIsTold ==
    ASSUME NEW sv \in Servers, NEW t \in Tasks, Done(sv, t)
    PROVE  ToldBy(sv, t)
  BY DEF Servers, Done, ToldBy, isTaskKillable, newSummary, killableCmdStates

\* Steps of the dialogue.
LEMMA DialogueSteps ==
    ASSUME IInv, server' \in Servers, Onward(server, server'),
           ModalOK(modal', server'), UNCHANGED <<page, ctx, own, view, store>>
    PROVE  IInv'
<1>1. Older(ctx, server')
  BY OlderKept DEF IInv
<1> QED
  BY <1>1 DEF IInv, CtxOK, Asked, ViewOK, OwnOK

\* handleConfirmation: the selected rows that are not shown as killable are not.
LEMMA ConfirmationModal ==
    ASSUME IInv, handleConfirmation PROVE ModalOK(modal', server)
<1> DEFINE ids == {t \in view.selected : isTaskKillable(StateIn(ctx, t))}
<1>1. modal' = [st |-> "asking", rows |-> view.selected, loading |-> own.isLoading, checks |-> 0,
                calls |-> {}, ids |-> ids]
  BY DEF handleConfirmation
<1>2. view.selected \subseteq Loaded(ctx) /\ view.selected \subseteq Tasks /\ own.isLoading \in BOOLEAN
  BY DEF IInv, ViewOK, OwnOK, handleConfirmation, Usable
<1>3. ids \in SUBSET Tasks /\ {} \in SUBSET CallsOf(Tasks)
  BY <1>2
<1>4. ASSUME NEW t \in view.selected \ ids PROVE ToldBy(server, t)
  <2>1. kindOf[t] \in Kinds /\ t \in DOMAIN ctx[kindOf[t]].data
    BY <1>2, LoadedKind DEF IInv
  <2>2. ~isTaskKillable(ctx[kindOf[t]].data[t])
    BY DEF StateIn
  <2> QED
    BY <1>2, <2>1, <2>2, DoneIsTold DEF IInv, Older
<1> HIDE DEF ids
<1>5. modal' \in Dialogues
  BY <1>1, <1>2, <1>3 DEF Dialogues
<1> QED
  BY <1>1, <1>4, <1>5 DEF ModalOK

\* ServeKill: a call that is answered "done" is for a task that was told.
LEMMA ServeKillModal ==
    ASSUME IInv, NEW c \in Calls, ServeKill(c)
    PROVE  /\ server' \in Servers /\ Onward(server, server')
           /\ ModalOK(modal', server')
<1> DEFINE Answered(st) == [modal EXCEPT !.calls = (@ \ {c}) \cup {[c EXCEPT !.st = st]}]
<1>1. modal.st = "sent" /\ c \in modal.calls
  BY DEF ServeKill
<1>2. /\ modal \in Dialogues /\ ModalOK(modal, server)
      /\ \A t \in modal.rows \ modal.ids : ToldBy(server, t)
      /\ \A t \in modal.ids : \E d \in modal.calls : d.t = t
      /\ \A d \in modal.calls : d.st = "done" => ToldBy(server, d.t)
      /\ server \in Servers
  BY <1>1 DEF IInv, ModalOK, Closed
<1>3. c \in CallsOf(Tasks) /\ c.t \in Tasks /\ modal.calls \subseteq CallsOf(Tasks)
      /\ modal.rows \subseteq Tasks
  BY <1>1, <1>2 DEF Dialogues, CallsOf
<1>4. ASSUME NEW st \in {"done", "refused"}, NEW sv, Onward(server, sv),
             st = "done" => ToldBy(sv, c.t)
      PROVE  ModalOK(Answered(st), sv)
  <2> DEFINE e == [c EXCEPT !.st = st]
             calls == (modal.calls \ {c}) \cup {e}
             m == [modal EXCEPT !.calls = calls]
  <2>1. e \in CallsOf(Tasks) /\ e.t = c.t /\ e.st = st
    BY <1>3 DEF CallsOf
  <2>2. calls \in SUBSET CallsOf(Tasks)
    BY <1>3, <2>1
  <2>3. \A d \in calls : d \in modal.calls \/ d = e
    OBVIOUS
  <2>4. \A t \in modal.ids : \E d \in calls : d.t = t
    BY <1>2, <2>1
  <2>5. \A d \in calls : d.st = "done" => ToldBy(sv, d.t)
    <3> HIDE DEF e, calls
    <3>1. \A d \in modal.calls : d.t \in Tasks
      BY <1>3 DEF CallsOf
    <3> QED
      BY <1>2, <1>4, <2>1, <2>3, <3>1 DEF Onward
  <2>6. \A t \in modal.rows \ modal.ids : ToldBy(sv, t)
    BY <1>2, <1>3, <1>4 DEF Onward
  <2> HIDE DEF calls
  <2>7. /\ m \in Dialogues /\ m.rows = modal.rows /\ m.ids = modal.ids /\ m.calls = calls
    BY <1>2, <2>2 DEF Dialogues
  <2> HIDE DEF m
  <2>8. ModalOK(m, sv)
    BY <2>4, <2>5, <2>6, <2>7 DEF ModalOK
  <2> QED
    BY <2>8 DEF m, calls, e
<1>5. CASE /\ \E x \in terminate(server.tasks[c.t]) : server' = [server EXCEPT !.tasks[c.t] = x]
           /\ modal' = Answered("done")
  <2>1. server' \in Servers /\ Onward(server, server') /\ ToldBy(server', c.t)
    BY <1>2, <1>3, <1>5, TaskOnward
  <2> HIDE DEF Answered
  <2> QED
    BY <1>4, <1>5, <2>1
<1>6. CASE server' = server /\ modal' = Answered("refused")
  <2>1. Onward(server, server')
    BY <1>6 DEF Onward
  <2> HIDE DEF Answered
  <2> QED
    BY <1>2, <1>4, <1>6, <2>1
<1> QED
  BY <1>5, <1>6 DEF ServeKill

\* A batch is seen to end only when every selected task was told to.
Whole ==
    modal.st = "sent" /\ modal'.st = "checking" => \A t \in modal.rows : ToldBy(server, t)

\* Every step preserves the invariant, shows no task as running again, and ends
\* a batch only when it is whole.
LEMMA NextIInv == IInv /\ [Next]_vars => IInv' /\ Forward /\ Whole
<1> SUFFICES ASSUME IInv, [Next]_vars PROVE IInv' /\ Forward /\ Whole
  OBVIOUS
<1>0. server \in Servers /\ ModalOK(modal, server) /\ Onward(server, server)
  BY DEF IInv, Onward
<1>1. UNCHANGED ctx => Forward
  BY DEF Forward, Loaded, StateIn
<1>2. UNCHANGED modal => Whole
  BY DEF Whole
<1>3. CASE fetchAll
  BY <1>2, <1>3, fetchAllIInv DEF fetchAll
<1>4. ASSUME NEW k \in Kinds, Serve(k) \/ Deliver(k) \/ Fail(k) PROVE IInv' /\ Forward /\ Whole
  <2>1. UNCHANGED modal
    BY <1>4 DEF Serve, Deliver, Fail
  <2> QED
    BY <1>2, <1>4, <2>1, ServeIInv, DeliverIInv, FailIInv
<1>5. CASE OwnAnswered \/ handleFilterChange \/ handleTableChange \/ handleTableRowSelect
           \/ Leave \/ Enter
  <2>1. UNCHANGED <<ctx, modal, server>>
    BY <1>5 DEF OwnAnswered, handleFilterChange, handleTableChange, handleTableRowSelect,
               Leave, Enter
  <2> QED
    BY <1>1, <1>2, <1>5, <2>1, PageSteps
<1>6. CASE handleConfirmation
  <2>1. UNCHANGED <<page, ctx, own, view, store, server>> /\ modal.st = "closed"
    BY <1>6 DEF handleConfirmation, Usable, Closed
  <2>2. ModalOK(modal', server')
    BY <1>6, <2>1, ConfirmationModal
  <2> QED
    BY <1>0, <1>1, <2>1, <2>2, DialogueSteps DEF Whole
<1>7. CASE Dismiss
  BY <1>0, <1>1, <1>7, DialogueSteps DEF Dismiss, ModalOK, Closed, Whole
<1>8. CASE handleBatchKill
  <2> DEFINE calls == {[t |-> t, st |-> "sent"] : t \in modal.ids}
  <2>1. /\ modal.st = "asking" /\ UNCHANGED <<page, ctx, own, view, store, server>>
        /\ modal' = [modal EXCEPT !.st = "sent", !.checks = 0, !.calls = calls]
    BY <1>8 DEF handleBatchKill
  <2>2. modal \in Dialogues /\ \A t \in modal.rows \ modal.ids : ToldBy(server, t)
    BY <1>0, <2>1 DEF ModalOK, Closed
  <2>3. modal.ids \subseteq Tasks
    BY <2>2 DEF Dialogues
  <2>4. calls \in SUBSET CallsOf(Tasks)
    BY <2>3 DEF CallsOf
  <2>5. /\ \A t \in modal.ids : \E c \in calls : c.t = t
        /\ \A c \in calls : c.st = "sent"
    <3>1. ASSUME NEW t \in modal.ids PROVE \E c \in calls : c.t = t
      <4>1. [t |-> t, st |-> "sent"] \in calls /\ [t |-> t, st |-> "sent"].t = t
        OBVIOUS
      <4> QED
        BY <4>1
    <3>2. \A c \in calls : c.st = "sent"
      OBVIOUS
    <3> QED
      BY <3>1, <3>2
  <2> HIDE DEF calls
  <2>6. /\ modal' \in Dialogues /\ modal'.rows = modal.rows /\ modal'.ids = modal.ids
        /\ modal'.calls = calls
    BY <2>1, <2>2, <2>4 DEF Dialogues
  <2>7. ModalOK(modal', server')
    BY <2>1, <2>2, <2>5, <2>6 DEF ModalOK
  <2> QED
    BY <1>0, <1>1, <2>1, <2>7, DialogueSteps DEF Whole
<1>9. ASSUME NEW c \in Calls, ServeKill(c) PROVE IInv' /\ Forward /\ Whole
  <2>1. UNCHANGED <<page, ctx, own, view, store>>
    BY <1>9 DEF ServeKill
  <2>2. modal'.st = "sent"
    <3>1. modal.st = "sent" /\ modal \in Dialogues
      BY <1>0, <1>9 DEF ServeKill, ModalOK, Closed
    <3> QED
      BY <1>9, <3>1 DEF ServeKill, Dialogues
  <2> QED
    BY <1>1, <1>9, <2>1, <2>2, ServeKillModal, DialogueSteps DEF Whole
<1>10. CASE BatchRefused
  <2>1. PICK next \in [Tasks -> Commands] :
           /\ \A t \in Tasks : next[t] = server.tasks[t] \/ next[t] \in terminate(server.tasks[t])
           /\ server' = [server EXCEPT !.tasks = next]
    BY <1>10 DEF BatchRefused
  <2>2. server' \in Servers /\ server'.revived = server.revived /\ server'.tasks = next
    BY <1>0, <2>1 DEF Servers
  <2>3. ASSUME NEW t \in Tasks
        PROVE  /\ Done(server, t) => Done(server', t)
               /\ ToldBy(server, t) => ToldBy(server', t)
    <3>1. CASE next[t] = server.tasks[t]
      BY <2>2, <3>1 DEF Done, ToldBy
    <3>2. CASE next[t] \in terminate(server.tasks[t])
      <4> DEFINE sv == [server EXCEPT !.tasks[t] = next[t]]
      <4>1. Onward(server, sv)
        BY <1>0, <3>2, TaskOnward
      <4>2. sv.tasks[t] = server'.tasks[t] /\ sv.revived = server'.revived
        BY <1>0, <2>2 DEF Servers
      <4> HIDE DEF sv
      <4> QED
        BY <4>1, <4>2 DEF Onward, Done, ToldBy
    <3> QED
      BY <2>1, <3>1, <3>2
  <2>4. Onward(server, server')
    BY <2>2, <2>3 DEF Onward
  <2> QED
    BY <1>1, <1>10, <2>2, <2>4, DialogueSteps DEF BatchRefused, ModalOK, Closed, Whole
<1>11. CASE BatchKilled
  <2>1. /\ modal.st = "sent" /\ \A c \in modal.calls : c.st = "done"
        /\ modal' = [modal EXCEPT !.st = "checking"]
        /\ view' = IF page = "tasks" THEN [view EXCEPT !.selected = {}] ELSE view
        /\ own' = IF page = "tasks" THEN R!Trigger(own) ELSE own
        /\ UNCHANGED <<page, ctx, store, server>>
    BY <1>11 DEF BatchKilled
  <2>2. /\ modal \in Dialogues
        /\ \A t \in modal.rows \ modal.ids : ToldBy(server, t)
        /\ \A t \in modal.ids : \E c \in modal.calls : c.t = t
        /\ \A c \in modal.calls : c.st = "done" => ToldBy(server, c.t)
    BY <1>0, <2>1 DEF ModalOK, Closed
  <2>3. \A t \in modal.rows : ToldBy(server, t)
    BY <2>1, <2>2
  <2>4. /\ modal' \in Dialogues /\ modal'.rows = modal.rows /\ modal'.ids = modal.ids
        /\ modal'.st = "checking"
    BY <2>1, <2>2 DEF Dialogues
  <2>5. ModalOK(modal', server')
    BY <2>1, <2>2, <2>4 DEF ModalOK
  <2>6. ViewOK(page', view', store', ctx')
    <3>1. view \in [filters : FilterSets, selected : SUBSET Tasks]
      BY DEF IInv, ViewOK
    <3>2. /\ view' \in [filters : FilterSets, selected : SUBSET Tasks]
          /\ view'.filters = view.filters /\ view'.selected \subseteq view.selected
      BY <2>1, <3>1
    <3> QED
      BY <2>1, <3>2 DEF IInv, ViewOK
  <2>7. OwnOK(own')
    <3>1. OwnOK(R!Trigger(own))
      BY DEF IInv, OwnOK, R!Trigger
    <3> QED
      BY <2>1, <3>1 DEF IInv
  <2> QED
    BY <1>1, <2>1, <2>3, <2>5, <2>6, <2>7 DEF IInv, CtxOK, Asked, Older, Whole
<1>12. CASE checkForTaskListUpdate
  <2>1. /\ modal.st = "checking" /\ UNCHANGED <<page, ctx, own, view, store, server>>
        /\ modal' = IF ~modal.loading THEN Closed
                    ELSE IF modal.checks > MaxChecks THEN [modal EXCEPT !.st = "asking"]
                    ELSE [modal EXCEPT !.checks = @ + 1]
    BY <1>12 DEF checkForTaskListUpdate
  <2>2. modal \in Dialogues /\ \A t \in modal.rows \ modal.ids : ToldBy(server, t)
    BY <1>0, <2>1 DEF ModalOK, Closed
  <2>3. ASSUME modal' # Closed
        PROVE  /\ modal' \in Dialogues /\ modal'.rows = modal.rows /\ modal'.ids = modal.ids
               /\ modal'.st \in {"asking", "checking"}
    <3>1. /\ [modal EXCEPT !.st = "asking"] \in Dialogues
          /\ [modal EXCEPT !.checks = @ + 1] \in Dialogues
      BY <2>2 DEF Dialogues
    <3> QED
      BY <2>1, <2>2, <2>3, <3>1 DEF Dialogues
  <2>4. ModalOK(modal', server')
    BY <2>1, <2>2, <2>3 DEF ModalOK
  <2> QED
    BY <1>0, <1>1, <2>1, <2>4, DialogueSteps DEF Whole
<1>13. ASSUME NEW t \in Tasks,
              handleMenuKill(t) \/ Allocated(t) \/ ContainerTerminated(t) \/ terminateForGC(t)
       PROVE  IInv' /\ Forward /\ Whole
  <2>1. UNCHANGED <<page, ctx, own, view, store, modal>>
    BY <1>13 DEF handleMenuKill, Allocated, ContainerTerminated, terminateForGC
  <2>2. CASE Allocated(t)
    BY <1>0, <1>1, <1>2, <2>1, <2>2, AllocatedOnward, ServerSteps
  <2>3. CASE handleMenuKill(t) \/ ContainerTerminated(t) \/ terminateForGC(t)
    <3>1. \E x \in terminate(server.tasks[t]) \cup {"TERMINATED", Gone} :
             server' = [server EXCEPT !.tasks[t] = x]
      BY <2>3 DEF handleMenuKill, ContainerTerminated, terminateForGC
    <3>2. server' \in Servers /\ Onward(server, server')
      BY <1>0, <3>1, TaskOnward
    <3> QED
      BY <1>1, <1>2, <2>1, <3>2, ServerSteps
  <2> QED
    BY <1>13, <2>2, <2>3
<1>14. CASE UNCHANGED vars
  BY <1>1, <1>2, <1>14 DEF vars, IInv, CtxOK, OwnOK, Asked, Older, ViewOK, ModalOK
<1> QED
  BY <1>3, <1>4, <1>5, <1>6, <1>7, <1>8, <1>9, <1>10, <1>11, <1>12, <1>13, <1>14 DEF Next

\* The invariant holds throughout.
THEOREM Invariance == Spec => []IInv
  BY InitIInv, NextIInv, PTL DEF Spec

\* Nothing loads that was not asked for, whatever is cancelled or fails, and the
\* filters that are stored are the ones that are set (useRestApi, TaskList).
THEOREM PageIsWhole == Spec => []PageWhole
<1>1. IInv => PageWhole
  <2> SUFFICES ASSUME IInv PROVE PageWhole
    OBVIOUS
  <2>1. \A k \in Kinds : /\ DOMAIN ctx[k].data \subseteq OfKind(k)
                         /\ ctx[k].data # R!Undefined => ctx[k].hasLoaded
    BY ListsDomain DEF IInv, CtxOK, Hooks
  <2>2. modal.st \in {"closed", "asking", "sent", "checking"}
    BY DEF IInv, ModalOK, Closed, Dialogues
  <2>3. /\ view.filters \in FilterSets /\ store \in FilterSets /\ view.selected \subseteq Tasks
        /\ page = "tasks" => [store EXCEPT !.limit = 0] = [view.filters EXCEPT !.limit = 0]
    BY DEF IInv, ViewOK
  <2>4. TypeOK
    BY <2>1, <2>2, <2>3 DEF IInv, TypeOK, FilterSets, Servers
  <2>5. LoadingIsAsked
    BY DEF IInv, LoadingIsAsked, Asked, OwnOK
  <2> QED
    BY <2>3, <2>4, <2>5 DEF PageWhole, FiltersStored
<1> QED
  BY <1>1, Invariance, PTL

\* A task that was shown as ended is never shown as running again, unless the
\* master revived it: answers of useRestApi are never applied out of order.
THEOREM NeverGoesBack == Spec => NoGoingBack
<1>1. IInv /\ [Next]_vars => Forward
  BY NextIInv
<1> QED
  BY <1>1, Invariance, PTL DEF Spec, NoGoingBack, Forward

\* handleBatchKill deselects the rows and closes the dialogue only if every
\* selected task has ended or was told to, whatever was refused, ended by itself
\* or was shown in an older state.
THEOREM BatchIsToldWhole == Spec => WholeBatchTold
<1>1. IInv /\ [Next]_vars => Whole
  BY NextIInv
<1> QED
  BY <1>1, Invariance, PTL DEF Spec, WholeBatchTold, Whole, Told, ToldBy
=============================================================================
