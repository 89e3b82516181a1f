------------------------ MODULE ExperimentListProofs ------------------------
(***************************************************************************)
(* Proofs about ExperimentList, for every set of experiments, every set of *)
(* page sizes and every bound.                                             *)
(***************************************************************************)
EXTENDS ExperimentList, FiniteSetTheorems, TLAPS

(***************************************************************************)
(* The inductive invariant.                                                *)
(***************************************************************************)
Rows == [state : States, archived : BOOLEAN]
ParamSet ==
    [filters : Filters, sorter : BOOLEAN, search : Exps \cup {0},
     pagination : [limit : Limits, offset : Nat]]
Servers == [exps : [Exps -> Rows], errors : Nat]
Lists == UNION {[ids : {S}, rows : [S -> Rows]] : S \in SUBSET Exps}
Requests(n) == [v : 1..n, by : {"poll", "board", "batch", "menu"}]
Calls(n) ==
    [e : Exps, action : Actions, v : 1..n, by : {"batch", "menu"}, n : Nat,
     st : {"sent", "done", "refused"}]
Dialogues(n) ==
    {Closed} \cup [st : {"asking", "sent", "refetching"}, action : Actions,
                   ids : SUBSET Exps, v : 1..n, n : Nat]

\* The parameters of every version, and what is stored of the last.
ParamsOK(ps, n, st) ==
    /\ n \in 1..MaxVersions /\ ps \in Seq(ParamSet) /\ Len(ps) = n
    /\ st = [filters |-> ps[n].filters, limit |-> ps[n].pagination.limit,
             sorter |-> ps[n].sorter]

UiOK(w) ==
    /\ w \in [experiments : Lists, total : Nat, selected : SUBSET Exps, shown : Nat]
    /\ Cardinality(w.experiments.ids) <= w.total

\* One loop, which goes on as long as the page is there.
PollOK(p, n, there) ==
    /\ p \in [ref : 0..n, pending : SUBSET (1..n), awaiting : SUBSET (1..n)]
    /\ P!OneTimer(p) /\ P!OneRoutine(p) /\ P!StillPolling(p, there)

Halted(e, sv) == sv.exps[e].state \notin X!RunningStates

\* Every experiment of a batch that is under way has its request, and a
\* request that has been answered found the experiment stopped for good.
BatchOK(m, cs, sv) ==
    /\ m.st = "sent" =>
          \A e \in m.ids : \E c \in cs :
             c.by = "batch" /\ c.n = m.n /\ c.e = e /\ c.action = m.action
    /\ \A c \in cs : c.st = "done" /\ c.action \in {"Cancel", "Kill"} => Halted(c.e, sv)

IInv ==
    /\ ParamsOK(params, version, store) /\ UiOK(ui)
    /\ mounted \in BOOLEAN /\ PollOK(poll, version, mounted)
    /\ fetches \subseteq Requests(version) /\ board \in 0..version
    /\ modal \in Dialogues(version) /\ calls \subseteq Calls(version)
    /\ server \in Servers /\ BatchOK(modal, calls, server) /\ acts \in Nat

-----------------------------------------------------------------------------
(* usePolling. *)
Loops(n) == [ref : 0..n, pending : SUBSET (1..n), awaiting : SUBSET (1..n)]

\* What the steps of the hook make of a loop.
LEMMA PollSteps ==
    ASSUME NEW n, NEW l \in Loops(n), NEW u
    PROVE  /\ P!Stopped(l) = [ref |-> 0, pending |-> l.pending \ {l.ref}, awaiting |-> l.awaiting]
           /\ P!Changed(l, u) = [ref |-> 0, pending |-> l.pending \ {l.ref},
                                 awaiting |-> l.awaiting \cup {u}]
           /\ P!Fired(l, u) = [ref |-> l.ref, pending |-> l.pending \ {u},
                               awaiting |-> l.awaiting \cup {u}]
<1>1. P!Stopped(l) = [l EXCEPT !.ref = 0, !.pending = l.pending \ {l.ref}]
  BY DEF P!Stopped, P!None
<1>2. P!Stopped(l) = [ref |-> 0, pending |-> l.pending \ {l.ref}, awaiting |-> l.awaiting]
  BY <1>1 DEF Loops
<1>3. P!Changed(l, u) = [ref |-> 0, pending |-> l.pending \ {l.ref},
                        awaiting |-> l.awaiting \cup {u}]
  BY <1>2 DEF P!Changed, P!Started
<1> DEFINE m == [l EXCEPT !.pending = l.pending \ {u}]
<1>4. m = [ref |-> l.ref, pending |-> l.pending \ {u}, awaiting |-> l.awaiting]
  BY DEF Loops
<1>5. P!Fired(l, u) = P!Started(m, u)
  BY DEF P!Fired
<1> HIDE DEF m
<1>6. P!Fired(l, u) = [ref |-> l.ref, pending |-> l.pending \ {u},
                      awaiting |-> l.awaiting \cup {u}]
  BY <1>4, <1>5 DEF P!Started
<1> QED
  BY <1>2, <1>3, <1>6

LEMMA PollGrows ==
    ASSUME NEW n \in Nat, NEW p, NEW there, PollOK(p, n, there)
    PROVE  PollOK(P!Changed(p, n + 1), n + 1, TRUE)
<1> DEFINE q == [ref |-> 0, pending |-> p.pending \ {p.ref}, awaiting |-> p.awaiting \cup {n + 1}]
<1>1. P!Changed(p, n + 1) = q
  BY PollSteps DEF PollOK, Loops
<1>2. p.pending \ {p.ref} = {} /\ p.awaiting \subseteq 1..n
  BY DEF PollOK, P!OneTimer
<1>3. 0 \in 0..(n + 1) /\ 1..n \subseteq 1..(n + 1) /\ n + 1 \in 1..(n + 1)
  OBVIOUS
<1>4. q.ref = 0 /\ q.pending = {} /\ q.awaiting = p.awaiting \cup {n + 1}
  BY <1>2
<1>5. q \in [ref : 0..(n + 1), pending : SUBSET (1..(n + 1)), awaiting : SUBSET (1..(n + 1))]
  BY <1>2, <1>3
<1> HIDE DEF q
<1> QED
  BY <1>1, <1>4, <1>5 DEF PollOK, P!OneTimer, P!OneRoutine, P!StillPolling

LEMMA PollSettles ==
    ASSUME NEW n \in Nat, NEW v \in 1..n, NEW p, NEW there, PollOK(p, n, there)
    PROVE  PollOK(P!Settled(p, v), n, TRUE)
<1>1. p.pending \ {p.ref} = {} /\ p.awaiting \subseteq 1..n
  BY DEF PollOK, P!OneTimer
<1>2. P!Settled(p, v) = [ref |-> v, pending |-> {v}, awaiting |-> p.awaiting \ {v}]
  BY <1>1 DEF P!Settled
<1> QED
  BY <1>1, <1>2 DEF PollOK, P!OneTimer, P!OneRoutine, P!StillPolling

LEMMA PollFires ==
    ASSUME NEW n \in Nat, NEW p, NEW v \in p.pending, NEW there, PollOK(p, n, there)
    PROVE  PollOK(P!Fired(p, v), n, TRUE)
<1>1. p.pending = {v} /\ v \in 1..n /\ p.awaiting \subseteq 1..n /\ p.ref \in 0..n
  BY DEF PollOK, P!OneTimer
<1>2. P!Fired(p, v) = [ref |-> p.ref, pending |-> {}, awaiting |-> p.awaiting \cup {v}]
  BY <1>1, PollSteps DEF PollOK, Loops
<1> QED
  BY <1>1, <1>2 DEF PollOK, P!OneTimer, P!OneRoutine, P!StillPolling

LEMMA PollStops ==
    ASSUME NEW n \in Nat, NEW p, NEW there, PollOK(p, n, there)
    PROVE  PollOK(P!Stopped(p), n, FALSE)
<1>1. p.pending \ {p.ref} = {} /\ p.awaiting \subseteq 1..n
  BY DEF PollOK, P!OneTimer
<1>2. P!Stopped(p) = [ref |-> 0, pending |-> {}, awaiting |-> p.awaiting]
  BY <1>1, PollSteps DEF PollOK, Loops
<1> QED
  BY <1>1, <1>2 DEF PollOK, P!OneTimer, P!OneRoutine, P!StillPolling

\* A loop that goes on whether the page is there or not.
LEMMA PollWhileThere ==
    ASSUME NEW n, NEW p, PollOK(p, n, TRUE), NEW there \in BOOLEAN PROVE PollOK(p, n, there)
  BY DEF PollOK, P!StillPolling

-----------------------------------------------------------------------------
(* The master's answer. *)

\* getExperimentList: the rows are experiments as the server has them, and a
\* page is no longer than the total.
LEMMA AnswerType ==
    ASSUME server \in Servers, NEW p
    PROVE  LET a == getExperimentList(p)
           IN  /\ a.experiments \in Lists /\ a.total \in Nat
               /\ Cardinality(a.experiments.ids) <= a.total
<1> DEFINE found == {e \in Exps : Matches(e, p.filters, p.search)}
           before(e) == {x \in found : IF p.sorter THEN x > e ELSE x < e}
           page == {e \in found : LET rank == Cardinality(before(e))
                                  IN  /\ rank >= p.pagination.offset
                                      /\ rank < p.pagination.offset + p.pagination.limit}
           list == [ids |-> page, rows |-> [e \in page |-> server.exps[e]]]
<1>1. getExperimentList(p) = [total |-> Cardinality(found), experiments |-> list]
  BY DEF getExperimentList, decodeExperimentList
<1>2. page \subseteq found /\ found \subseteq Exps
  OBVIOUS
<1> HIDE DEF page, found
<1>3. IsFiniteSet(found)
  BY <1>2, ListAssumption, FS_Subset
<1>4. Cardinality(page) <= Cardinality(found) /\ Cardinality(found) \in Nat
  BY <1>2, <1>3, FS_Subset, FS_CardinalityType
<1>5. list \in Lists /\ list.ids = page
  <2>1. page \in SUBSET Exps /\ [e \in page |-> server.exps[e]] \in [page -> Rows]
    BY <1>2 DEF Servers
  <2> HIDE DEF Rows
  <2>2. list \in [ids : {page}, rows : [page -> Rows]]
    BY <2>1
  <2> QED
    BY <2>1, <2>2 DEF Lists
<1> HIDE DEF list
<1> QED
  BY <1>1, <1>4, <1>5

\* What the master does to an experiment leaves a row, and no action brings an
\* experiment back that is stopping or has ended.
LEMMA AppliedRow ==
    ASSUME NEW x \in Rows, NEW a \in Actions
    PROVE  /\ X!Applied(a, x) \in Rows
           /\ x.state \notin X!RunningStates /\ X!Accepts(a, x) =>
                 X!Applied(a, x).state \notin X!RunningStates
           /\ a \in {"Cancel", "Kill"} => X!Applied(a, x).state \notin X!RunningStates
<1>1. a \in {"Activate", "Archive", "Cancel", "Kill", "Pause", "Unarchive"}
  BY ListAssumption
<1>2. CASE a = "Activate"
  BY <1>2 DEF X!Applied, X!Accepts, X!RunningStates, X!TerminalStates, Rows, States
<1>3. CASE a = "Pause"
  BY <1>3 DEF X!Applied, X!Accepts, X!RunningStates, X!TerminalStates, Rows, States
<1>4. CASE a = "Archive"
  BY <1>4 DEF X!Applied, X!Accepts, X!RunningStates, X!TerminalStates, Rows, States
<1>5. CASE a = "Unarchive"
  BY <1>5 DEF X!Applied, X!Accepts, X!RunningStates, X!TerminalStates, Rows, States
<1>6. CASE a \in {"Cancel", "Kill"}
  BY <1>6 DEF X!Applied, X!Accepts, X!RunningStates, X!TerminalStates, Rows, States
<1> QED
  BY <1>1, <1>2, <1>3, <1>4, <1>5, <1>6

-----------------------------------------------------------------------------
(* The steps. *)
LEMMA InitIInv == Init => IInv
<1> SUFFICES ASSUME Init PROVE IInv
  OBVIOUS
<1>1. store \in [filters : {defaultFilters}, limit : Limits, sorter : {TRUE}]
  BY DEF Init
<1> DEFINE p == [filters |-> store.filters, sorter |-> store.sorter, search |-> 0,
                 pagination |-> [limit |-> store.limit, offset |-> 0]]
<1>2. p \in ParamSet
  <2>1. defaultFilters \in Filters
    BY DEF Filters, defaultFilters
  <2>2. store.filters \in Filters /\ store.limit \in Limits /\ store.sorter \in BOOLEAN
    BY <1>1, <2>1
  <2> QED
    BY <2>2 DEF ParamSet
<1>3. params = <<p>> /\ version = 1 /\ mounted = TRUE
      /\ poll = P!Started([ref |-> P!None, pending |-> {}, awaiting |-> {}], 1)
  BY DEF Init, P!Init, P!Fresh
<1>4. store = [filters |-> p.filters, limit |-> p.pagination.limit, sorter |-> p.sorter]
  BY <1>1
<1> HIDE DEF p
<1>5. ParamsOK(params, version, store)
  BY <1>2, <1>3, <1>4, ListAssumption DEF ParamsOK
<1>6. poll = [ref |-> 0, pending |-> {}, awaiting |-> {1}]
  BY <1>3 DEF P!Started, P!None
<1>7. PollOK(poll, version, mounted)
  BY <1>3, <1>6 DEF PollOK, P!OneTimer, P!OneRoutine, P!StillPolling
<1>8. UiOK(ui)
  <2>1. Unasked \in [ids : {{}}, rows : [{} -> Rows]] /\ {} \in SUBSET Exps
    BY DEF Unasked
  <2>2. Unasked \in Lists
    BY <2>1 DEF Lists
  <2>3. Cardinality(Unasked.ids) = 0
    BY FS_EmptySet DEF Unasked
  <2>4. ui = [experiments |-> Unasked, total |-> 0, selected |-> {}, shown |-> 0]
    BY DEF Init
  <2> QED
    BY <2>2, <2>3, <2>4 DEF UiOK
<1>9. fetches \subseteq Requests(version) /\ board \in 0..version
  BY <1>3 DEF Init, Request, Requests
<1>10. modal \in Dialogues(version) /\ calls \subseteq Calls(version) /\ server \in Servers
  BY DEF Init, Dialogues, Servers, Rows, States
<1>11. BatchOK(modal, calls, server) /\ acts \in Nat
  BY DEF Init, BatchOK, Closed
<1> QED
  BY <1>3, <1>5, <1>7, <1>8, <1>9, <1>10, <1>11 DEF IInv

\* The current parameters are parameters.
LEMMA ParamsType ==
    ASSUME IInv
    PROVE  /\ Params \in ParamSet /\ version \in Nat \ {0}
           /\ store = [filters |-> Params.filters, limit |-> Params.pagination.limit,
                       sorter |-> Params.sorter]
           /\ \A v \in 1..version : params[v] \in ParamSet
<1>1. version \in Nat \ {0} /\ params \in Seq(ParamSet) /\ Len(params) = version
  BY ListAssumption DEF IInv, ParamsOK
<1>2. \A v \in 1..version : params[v] \in ParamSet
  BY <1>1
<1> QED
  BY <1>1, <1>2 DEF IInv, ParamsOK, Params

\* What refers to a version goes on referring to one.
LEMMA Monotone ==
    ASSUME NEW n \in Nat
    PROVE  /\ Requests(n) \subseteq Requests(n + 1) /\ Calls(n) \subseteq Calls(n + 1)
           /\ Dialogues(n) \subseteq Dialogues(n + 1) /\ 0..n \subseteq 0..(n + 1)
<1>1. 1..n \subseteq 1..(n + 1) /\ 0..n \subseteq 0..(n + 1)
  OBVIOUS
<1> QED
  BY <1>1 DEF Requests, Calls, Dialogues

\* A handler replaces the parameters and stores what it must.
LEMMA SetParamsStep ==
    ASSUME IInv, NEW p \in ParamSet, setParams(p), UiOK(ui'),
           store' = [filters |-> p.filters, limit |-> p.pagination.limit, sorter |-> p.sorter]
    PROVE  IInv'
<1>1. /\ mounted /\ version < MaxVersions
      /\ params' = Append(params, p) /\ version' = version + 1
      /\ poll' = P!Changed(poll, version + 1)
      /\ fetches' = fetches \cup {Request(version + 1, "poll")}
      /\ UNCHANGED <<mounted, board, modal, calls, server, acts>>
  BY DEF setParams
<1>2. version \in Nat /\ MaxVersions \in Nat /\ mounted = TRUE
  BY <1>1, ParamsType, ListAssumption DEF IInv
<1>3. ParamsOK(params', version', store')
  <2>1. /\ params \in Seq(ParamSet) /\ Len(params) = version /\ version \in 1..MaxVersions
    BY DEF IInv, ParamsOK
  <2>2. /\ params' \in Seq(ParamSet) /\ Len(params') = version' /\ params'[version'] = p
    BY <1>1, <2>1
  <2>3. version' \in 1..MaxVersions
    BY <1>1, <1>2
  <2> QED
    BY <2>2, <2>3 DEF ParamsOK
<1>4. PollOK(poll', version', mounted')
  BY <1>1, <1>2, PollGrows DEF IInv
<1>5. fetches' \subseteq Requests(version')
  <2>1. Request(version + 1, "poll") \in Requests(version + 1)
    BY <1>2 DEF Request, Requests
  <2> QED
    BY <1>1, <1>2, <2>1, Monotone DEF IInv
<1>6. /\ board' \in 0..version' /\ modal' \in Dialogues(version') /\ calls' \subseteq Calls(version')
  BY <1>1, <1>2, Monotone DEF IInv
<1>7. ParamsOK(params, version, store)' /\ UiOK(ui)' /\ PollOK(poll, version, mounted)'
  BY <1>3, <1>4 DEF ParamsOK, UiOK, PollOK
<1>8. server' \in Servers /\ BatchOK(modal, calls, server)' /\ acts' \in Nat /\ mounted' \in BOOLEAN
  BY <1>1 DEF IInv, BatchOK, Halted
<1> QED
  BY <1>5, <1>6, <1>7, <1>8 DEF IInv

\* New parameters, spelt out.
LEMMA ParamsSpelt ==
    ASSUME NEW q \in ParamSet, NEW s, NEW f
    PROVE  /\ FirstPage([q EXCEPT !.search = s]) =
                [filters |-> q.filters, sorter |-> q.sorter, search |-> s,
                 pagination |-> [limit |-> q.pagination.limit, offset |-> 0]]
           /\ FirstPage([q EXCEPT !.filters = f]) =
                [filters |-> f, sorter |-> q.sorter, search |-> q.search,
                 pagination |-> [limit |-> q.pagination.limit, offset |-> 0]]
<1> DEFINE g == q.pagination
           a == [q EXCEPT !.search = s]
           b == [q EXCEPT !.filters = f]
<1>1. g = [limit |-> g.limit, offset |-> g.offset]
  BY DEF ParamSet
<1>2. q = [filters |-> q.filters, sorter |-> q.sorter, search |-> q.search, pagination |-> g]
  BY DEF ParamSet
<1> HIDE DEF g
<1>3. a = [filters |-> q.filters, sorter |-> q.sorter, search |-> s, pagination |-> g]
  BY <1>2
<1>4. b = [filters |-> f, sorter |-> q.sorter, search |-> q.search, pagination |-> g]
  BY <1>2
<1>5. [g EXCEPT !.offset = 0] = [limit |-> g.limit, offset |-> 0]
  BY <1>1
<1> HIDE DEF a, b
<1>6. FirstPage(a) = [filters |-> q.filters, sorter |-> q.sorter, search |-> s,
                      pagination |-> [limit |-> g.limit, offset |-> 0]]
  <2>1. FirstPage(a) = [a EXCEPT !.pagination = [g EXCEPT !.offset = 0]]
    BY <1>3 DEF FirstPage
  <2> QED
    BY <1>3, <1>5, <2>1
<1>7. FirstPage(b) = [filters |-> f, sorter |-> q.sorter, search |-> q.search,
                      pagination |-> [limit |-> g.limit, offset |-> 0]]
  <2>1. FirstPage(b) = [b EXCEPT !.pagination = [g EXCEPT !.offset = 0]]
    BY <1>4 DEF FirstPage
  <2> QED
    BY <1>4, <1>5, <2>1
<1> QED
  BY <1>6, <1>7 DEF a, b, g

LEMMA TableParamsSpelt ==
    ASSUME NEW q \in ParamSet, NEW d, NEW pg
    PROVE  [q EXCEPT !.sorter = d, !.pagination = pg] =
              [filters |-> q.filters, sorter |-> d, search |-> q.search, pagination |-> pg]
<1>1. q \in [filters : Filters, sorter : BOOLEAN, search : Exps \cup {0},
             pagination : [limit : Limits, offset : Nat]]
  BY DEF ParamSet
<1> DEFINE r == [q EXCEPT !.sorter = d, !.pagination = pg]
<1>2. r \in [filters : {q.filters}, sorter : {d}, search : {q.search}, pagination : {pg}]
  BY <1>1
<1> HIDE DEF r
<1>3. r = [filters |-> q.filters, sorter |-> d, search |-> q.search, pagination |-> pg]
  BY <1>2
<1> QED
  BY <1>3 DEF r

LEMMA HandlerSteps ==
    ASSUME IInv,
           handleSearchChange \/ handleArchiveChange \/ handleStateChange \/ handleTableChange
    PROVE  IInv'
<1> DEFINE old == Params
<1>1. /\ old \in ParamSet /\ UiOK(ui)
      /\ store = [filters |-> old.filters, limit |-> old.pagination.limit, sorter |-> old.sorter]
  BY ParamsType DEF IInv
<1>2. old.filters \in Filters /\ old.pagination \in [limit : Limits, offset : Nat]
  BY <1>1 DEF ParamSet
<1>3. CASE handleSearchChange
  <2>1. PICK s \in Searches : setParams(FirstPage([old EXCEPT !.search = s]))
    BY <1>3 DEF handleSearchChange
  <2> DEFINE p == [filters |-> old.filters, sorter |-> old.sorter, search |-> s,
                   pagination |-> [limit |-> old.pagination.limit, offset |-> 0]]
  <2>2. FirstPage([old EXCEPT !.search = s]) = p
    BY <1>1, ParamsSpelt
  <2>3. p \in ParamSet
    BY <1>1, <1>2, ListAssumption DEF ParamSet
  <2>4. UNCHANGED <<store, ui>>
    BY <1>3 DEF handleSearchChange
  <2>5. store' = [filters |-> p.filters, limit |-> p.pagination.limit, sorter |-> p.sorter]
    BY <1>1, <2>4
  <2>6. UiOK(ui')
    BY <1>1, <2>4
  <2> HIDE DEF p
  <2> QED
    BY <2>1, <2>2, <2>3, <2>5, <2>6, SetParamsStep
<1>4. ASSUME NEW f \in Filters, handleFilterChange(f) PROVE IInv'
  <2> DEFINE p == [filters |-> f, sorter |-> old.sorter, search |-> old.search,
                   pagination |-> [limit |-> old.pagination.limit, offset |-> 0]]
  <2>1. FirstPage([old EXCEPT !.filters = f]) = p
    BY <1>1, ParamsSpelt
  <2>2. p \in ParamSet
    BY <1>1, <1>2 DEF ParamSet
  <2>3. store' = [filters |-> p.filters, limit |-> p.pagination.limit, sorter |-> p.sorter]
    BY <1>1, <1>4 DEF handleFilterChange
  <2>4. UiOK(ui') /\ setParams(p)
    BY <1>1, <1>4, <2>1 DEF handleFilterChange
  <2> HIDE DEF p
  <2> QED
    BY <2>2, <2>3, <2>4, SetParamsStep
<1>5. CASE handleArchiveChange
  <2>1. [old.filters EXCEPT !.showArchived = ~@] \in Filters
    BY <1>2 DEF Filters
  <2> QED
    BY <1>4, <1>5, <2>1 DEF handleArchiveChange
<1>6. CASE handleStateChange
  <2>1. \A s \in Selectable : [old.filters EXCEPT !.states = s] \in Filters
    BY <1>2 DEF Filters, Selectable
  <2> QED
    BY <1>4, <1>6, <2>1 DEF handleStateChange
<1>7. CASE handleTableChange
  <2>1. PICK limit \in Limits, descend \in BOOLEAN :
        \E current \in 1..((ui.total + limit - 1) \div limit) :
          /\ setParams([old EXCEPT
                !.sorter = descend,
                !.pagination = [limit |-> limit, offset |-> (current - 1) * limit]])
          /\ store' = [store EXCEPT !.limit = limit, !.sorter = descend]
          /\ ui' = [ui EXCEPT !.selected = {}]
    BY <1>7 DEF handleTableChange
  <2>2. PICK current \in 1..((ui.total + limit - 1) \div limit) :
          /\ setParams([old EXCEPT
                !.sorter = descend,
                !.pagination = [limit |-> limit, offset |-> (current - 1) * limit]])
          /\ store' = [store EXCEPT !.limit = limit, !.sorter = descend]
          /\ ui' = [ui EXCEPT !.selected = {}]
    BY <2>1
  <2> DEFINE off == (current - 1) * limit
             p == [filters |-> old.filters, sorter |-> descend, search |-> old.search,
                   pagination |-> [limit |-> limit, offset |-> off]]
  <2>3. current - 1 \in Nat /\ limit \in Nat
    BY ListAssumption
  <2>4. off \in Nat
    <3>1. \A a, b \in Nat : a * b \in Nat
      OBVIOUS
    <3> QED
      BY <2>3, <3>1
  <2> HIDE DEF off
  <2>5. [old EXCEPT !.sorter = descend, !.pagination = [limit |-> limit, offset |-> off]] = p
    BY <1>1, TableParamsSpelt
  <2>6. p \in ParamSet
    BY <1>1, <2>4 DEF ParamSet
  <2>7. store' = [filters |-> p.filters, limit |-> p.pagination.limit, sorter |-> p.sorter]
    BY <1>1, <2>2
  <2>8. UiOK(ui')
    BY <1>1, <2>2 DEF UiOK
  <2>9. setParams(p)
    BY <2>2, <2>5 DEF off
  <2> HIDE DEF p
  <2> QED
    BY <2>6, <2>7, <2>8, <2>9, SetParamsStep
<1> QED
  BY <1>3, <1>5, <1>6, <1>7

\* A batch that goes on to fetch the list anew is over.
Whole ==
    modal.st = "sent" /\ modal'.st = "refetching" /\ modal.action \in {"Cancel", "Kill"}
        => \A e \in modal.ids : Halted(e, server)

\* An experiment that is stopping or has ended does not run after a step.
Forward == \A d \in Exps : Halted(d, server) => Halted(d, server')

\* A step that leaves the parameters alone.
LEMMA FrameStep ==
    ASSUME IInv, UNCHANGED <<params, store, version>>,
           UiOK(ui'), mounted' \in BOOLEAN, PollOK(poll', version, mounted'),
           fetches' \subseteq Requests(version), board' \in 0..version,
           modal' \in Dialogues(version), calls' \subseteq Calls(version),
           server' \in Servers, BatchOK(modal', calls', server'), acts' \in Nat
    PROVE  IInv'
<1>1. /\ ParamsOK(params, version, store)' /\ UiOK(ui)' /\ PollOK(poll, version, mounted)'
      /\ BatchOK(modal, calls, server)'
  BY DEF IInv, ParamsOK, UiOK, PollOK, BatchOK, Halted
<1> QED
  BY <1>1 DEF IInv

\* Requests of which none has ended and none is a batch's are no matter.
LEMMA BatchKept ==
    ASSUME NEW m, m.st # "sent", NEW cs, NEW sv,
           \A c \in cs : c.st = "done" /\ c.action \in {"Cancel", "Kill"} => Halted(c.e, sv)
    PROVE  BatchOK(m, cs, sv)
  BY DEF BatchOK

\* What the user does on the page.
LEMMA PageSteps ==
    ASSUME IInv,
           \/ handleTableRowSelect \/ Dismiss
           \/ openOrCreateTensorboard \/ TensorboardOpened \/ TensorboardRefused
           \/ \E a \in Actions : handleConfirmation(a) \/ \E e \in Exps : handleMenuClick(a, e)
    PROVE  IInv' /\ Whole
<1>1. /\ UiOK(ui) /\ mounted \in BOOLEAN /\ PollOK(poll, version, mounted)
      /\ fetches \subseteq Requests(version) /\ board \in 0..version
      /\ modal \in Dialogues(version) /\ calls \subseteq Calls(version)
      /\ server \in Servers /\ BatchOK(modal, calls, server) /\ acts \in Nat
      /\ version \in Nat \ {0}
  BY ParamsType DEF IInv
<1>2. \A c \in calls : c.st = "done" /\ c.action \in {"Cancel", "Kill"} => Halted(c.e, server)
  BY <1>1 DEF BatchOK
<1>3. Closed.st = "closed" /\ Closed \in Dialogues(version)
  BY DEF Closed, Dialogues
<1>4. CASE handleTableRowSelect
  <2>1. PICK keys \in SUBSET ui.experiments.ids : ui' = [ui EXCEPT !.selected = keys]
    BY <1>4 DEF handleTableRowSelect
  <2>2. keys \subseteq Exps
    BY <1>1 DEF UiOK, Lists
  <2>3. UiOK(ui')
    BY <1>1, <2>1, <2>2 DEF UiOK
  <2>4. UNCHANGED <<params, store, poll, version, mounted, fetches, board, modal, calls, server, acts>>
    BY <1>4 DEF handleTableRowSelect
  <2> QED
    BY <1>1, <2>3, <2>4, FrameStep DEF Whole
<1>5. CASE Dismiss
  <2>1. /\ modal' = Closed
        /\ UNCHANGED <<params, store, ui, poll, version, mounted, fetches, board, calls, server, acts>>
    BY <1>5 DEF Dismiss
  <2>2. BatchOK(modal', calls', server')
    BY <1>2, <1>3, <2>1, BatchKept
  <2> QED
    BY <1>1, <1>3, <2>1, <2>2, FrameStep DEF Whole
<1>6. CASE openOrCreateTensorboard
  <2>1. /\ board' = version /\ acts' = acts + 1
        /\ UNCHANGED <<params, store, ui, poll, version, mounted, fetches, modal, calls, server>>
    BY <1>6 DEF openOrCreateTensorboard
  <2> QED
    BY <1>1, <2>1, FrameStep DEF Whole
<1>7. CASE TensorboardOpened
  <2>1. /\ board # 0 /\ board' = 0 /\ ui' = [ui EXCEPT !.selected = {}]
        /\ fetches' = fetches \cup {Request(board, "board")}
        /\ UNCHANGED <<params, store, poll, version, mounted, modal, calls, server, acts>>
    BY <1>7 DEF TensorboardOpened
  <2>2. Request(board, "board") \in Requests(version)
    BY <1>1, <2>1 DEF Request, Requests
  <2>3. UiOK(ui')
    BY <1>1, <2>1 DEF UiOK
  <2> QED
    BY <1>1, <2>1, <2>2, <2>3, FrameStep DEF Whole
<1>8. CASE TensorboardRefused
  <2>1. /\ board' = 0 /\ server' = [server EXCEPT !.errors = @ + 1]
        /\ UNCHANGED <<params, store, ui, poll, version, mounted, fetches, modal, calls, acts>>
    BY <1>8 DEF TensorboardRefused
  <2>2. server' \in Servers /\ server'.exps = server.exps
    BY <1>1, <2>1 DEF Servers
  <2>3. BatchOK(modal', calls', server')
    BY <1>1, <2>1, <2>2 DEF BatchOK, Halted
  <2> QED
    BY <1>1, <2>1, <2>2, <2>3, FrameStep DEF Whole
<1>9. ASSUME NEW a \in Actions, handleConfirmation(a) PROVE IInv' /\ Whole
  <2>1. /\ modal = Closed /\ acts' = acts + 1
        /\ modal' = [st |-> "asking", action |-> a, ids |-> ui.selected, v |-> version, n |-> acts']
        /\ UNCHANGED <<params, store, ui, poll, version, mounted, fetches, board, calls, server>>
    BY <1>9 DEF handleConfirmation
  <2>2. modal' \in Dialogues(version)
    BY <1>1, <2>1 DEF Dialogues, UiOK
  <2>3. BatchOK(modal', calls', server')
    BY <1>2, <2>1, BatchKept
  <2> QED
    BY <1>1, <1>3, <2>1, <2>2, <2>3, FrameStep DEF Whole
<1>10. ASSUME NEW a \in Actions, NEW e \in Exps, handleMenuClick(a, e) PROVE IInv' /\ Whole
  <2> DEFINE c == [e |-> e, action |-> a, v |-> version, by |-> "menu", n |-> acts + 1, st |-> "sent"]
  <2>1. /\ modal = Closed /\ acts' = acts + 1 /\ calls' = {c}
        /\ UNCHANGED <<params, store, ui, poll, version, mounted, fetches, board, modal, server>>
    BY <1>10 DEF handleMenuClick
  <2>2. c \in Calls(version) /\ c.st = "sent"
    BY <1>1 DEF Calls
  <2> HIDE DEF c
  <2>3. BatchOK(modal', calls', server')
    BY <1>3, <2>1, <2>2, BatchKept
  <2> QED
    BY <1>1, <1>3, <2>1, <2>2, <2>3, FrameStep DEF Whole
<1> QED
  BY <1>4, <1>5, <1>6, <1>7, <1>8, <1>9, <1>10

\* The batch and the requests of a menu.
LEMMA BatchSteps ==
    ASSUME IInv, sendBatchActions \/ BatchRefused \/ BatchDone \/ MenuDone
    PROVE  IInv' /\ Whole
<1>1. /\ UiOK(ui) /\ mounted \in BOOLEAN /\ PollOK(poll, version, mounted)
      /\ fetches \subseteq Requests(version) /\ board \in 0..version
      /\ modal \in Dialogues(version) /\ calls \subseteq Calls(version)
      /\ server \in Servers /\ BatchOK(modal, calls, server) /\ acts \in Nat
      /\ version \in Nat \ {0}
  BY ParamsType DEF IInv
<1>2. \A c \in calls : c.st = "done" /\ c.action \in {"Cancel", "Kill"} => Halted(c.e, server)
  BY <1>1 DEF BatchOK
<1>3. Closed.st = "closed" /\ Closed \in Dialogues(version)
  BY DEF Closed, Dialogues
<1>4. modal.st # "closed" =>
        modal \in [st : {"asking", "sent", "refetching"}, action : Actions,
                   ids : SUBSET Exps, v : 1..version, n : Nat]
  BY <1>1, <1>3 DEF Dialogues
<1>5. CASE sendBatchActions
  <2> DEFINE new(e) == [e |-> e, action |-> modal.action, v |-> modal.v,
                        by |-> "batch", n |-> modal.n, st |-> "sent"]
             asked == {new(e) : e \in modal.ids}
  <2>1. /\ modal.st = "asking" /\ modal' = [modal EXCEPT !.st = "sent"]
        /\ calls' = calls \cup asked
        /\ UNCHANGED <<params, store, ui, poll, version, mounted, fetches, board, server, acts>>
    BY <1>5 DEF sendBatchActions
  <2>2. /\ modal' \in Dialogues(version) /\ modal'.ids = modal.ids
        /\ modal'.n = modal.n /\ modal'.action = modal.action /\ modal'.st = "sent"
    BY <1>4, <2>1 DEF Dialogues
  <2>3. \A e \in modal.ids : /\ new(e) \in Calls(version) /\ new(e).st = "sent" /\ new(e).e = e
                             /\ new(e).by = "batch" /\ new(e).n = modal.n
                             /\ new(e).action = modal.action
    BY <1>4, <2>1 DEF Calls
  <2>4. \A c \in asked : c \in Calls(version) /\ c.st = "sent"
    BY <2>3
  <2>5. \A e \in modal.ids : \E c \in asked :
          c.by = "batch" /\ c.n = modal.n /\ c.e = e /\ c.action = modal.action
    <3> TAKE e \in modal.ids
    <3>1. new(e) \in asked
      OBVIOUS
    <3> HIDE DEF asked, new
    <3> WITNESS new(e) \in asked
    <3> QED
      BY <2>3
  <2> HIDE DEF asked
  <2>6. BatchOK(modal', calls', server')
    BY <1>2, <2>1, <2>2, <2>4, <2>5 DEF BatchOK
  <2> QED
    BY <1>1, <2>1, <2>2, <2>4, <2>6, FrameStep DEF Whole
<1>6. CASE BatchRefused
  <2>1. /\ modal' = Closed /\ calls' \subseteq calls
        /\ UNCHANGED <<params, store, ui, poll, version, mounted, fetches, board, server, acts>>
    BY <1>6 DEF BatchRefused
  <2>2. BatchOK(modal', calls', server')
    BY <1>2, <1>3, <2>1, BatchKept
  <2> QED
    BY <1>1, <1>3, <2>1, <2>2, FrameStep DEF Whole
<1>7. CASE BatchDone
  <2>1. /\ modal.st = "sent" /\ \A c \in OfBatch : c.st = "done"
        /\ modal' = [modal EXCEPT !.st = "refetching"]
        /\ calls' \subseteq calls /\ ui' = [ui EXCEPT !.selected = {}]
        /\ fetches' = fetches \cup {Request(modal.v, "batch")}
        /\ UNCHANGED <<params, store, poll, version, mounted, board, server, acts>>
    BY <1>7 DEF BatchDone
  <2>2. modal' \in Dialogues(version) /\ modal'.st = "refetching"
    BY <1>4, <2>1 DEF Dialogues
  <2>3. Request(modal.v, "batch") \in Requests(version)
    BY <1>4, <2>1 DEF Request, Requests
  <2>4. BatchOK(modal', calls', server')
    BY <1>2, <2>1, <2>2, BatchKept
  <2>5. UiOK(ui')
    BY <1>1, <2>1 DEF UiOK
  <2>6. Whole
    BY <1>1, <2>1 DEF Whole, BatchOK, OfBatch, Halted
  <2> QED
    BY <1>1, <2>1, <2>2, <2>3, <2>4, <2>5, <2>6, FrameStep
<1>8. CASE MenuDone
  <2>1. PICK c \in calls :
          /\ c.by = "menu"
          /\ calls' = calls \ {c}
          /\ fetches' = IF c.st = "done" THEN fetches \cup {Request(c.v, "menu")} ELSE fetches
          /\ UNCHANGED <<params, store, ui, poll, version, mounted, board, modal, server, acts>>
    BY <1>8 DEF MenuDone
  <2>2. Request(c.v, "menu") \in Requests(version)
    BY <1>1 DEF Calls, Request, Requests
  <2>3. BatchOK(modal', calls', server')
    BY <1>1, <2>1 DEF BatchOK
  <2> QED
    BY <1>1, <2>1, <2>2, <2>3, FrameStep DEF Whole
<1> QED
  BY <1>5, <1>6, <1>7, <1>8

\* The master changes an experiment: none that was stopped comes back.
LEMMA ServerChange ==
    ASSUME server \in Servers, NEW e \in Exps, NEW x \in Rows,
           server.exps[e].state \notin X!RunningStates => x.state \notin X!RunningStates,
           NEW sv, sv.exps = [server.exps EXCEPT ![e] = x],
           sv = [exps |-> sv.exps, errors |-> sv.errors],
           sv.errors \in Nat
    PROVE  /\ sv \in Servers /\ sv.exps[e] = x
           /\ \A d \in Exps : Halted(d, server) => Halted(d, sv)
<1>1. server.exps \in [Exps -> Rows]
  BY DEF Servers
<1>2. sv.exps \in [Exps -> Rows] /\ sv.exps[e] = x
  BY <1>1
<1>3. sv \in Servers
  BY <1>2 DEF Servers
<1>4. ASSUME NEW d \in Exps, Halted(d, server) PROVE Halted(d, sv)
  BY <1>1, <1>4 DEF Halted
<1> QED
  BY <1>2, <1>3, <1>4

\* Batches are not unsettled by what others do.
LEMMA BatchLater ==
    ASSUME IInv, NEW sv, \A d \in Exps : Halted(d, server) => Halted(d, sv)
    PROVE  BatchOK(modal, calls, sv)
<1>1. \A c \in calls : c.e \in Exps
  BY DEF IInv, Calls
<1> QED
  BY <1>1 DEF IInv, BatchOK

LEMMA OthersSteps ==
    ASSUME IInv, NEW e \in Exps, OthersAct(e) \/ ExperimentStops(e)
    PROVE  IInv' /\ Whole /\ Forward
<1>1. PICK x : /\ x \in {X!Applied("Kill", server.exps[e]), X!Stopped(server.exps[e])}
               /\ server' = [server EXCEPT !.exps[e] = x]
  BY DEF OthersAct, ExperimentStops
<1>2. UNCHANGED <<params, store, ui, poll, version, mounted, fetches, board, modal, calls, acts>>
  BY DEF OthersAct, ExperimentStops
<1>3. server \in Servers /\ server.exps[e] \in Rows
  BY DEF IInv, Servers
<1>4. x \in Rows /\ x.state \notin X!RunningStates
  BY <1>1, <1>3 DEF X!Applied, X!Stopped, X!RunningStates, Rows, States
<1>5. /\ server'.exps = [server.exps EXCEPT ![e] = x]
      /\ server'.errors \in Nat
      /\ server' = [exps |-> server'.exps, errors |-> server'.errors]
  BY <1>1, <1>3 DEF Servers
<1>6. server' \in Servers /\ \A d \in Exps : Halted(d, server) => Halted(d, server')
  BY <1>3, <1>4, <1>5, ServerChange
<1>7. BatchOK(modal', calls', server')
  BY <1>2, <1>6, BatchLater
<1> QED
  BY <1>2, <1>6, <1>7, FrameStep DEF Whole, Forward, IInv

\* A request of a batch is answered: when it has succeeded, the experiment is
\* stopped for good.
LEMMA ServeCallStep ==
    ASSUME IInv, NEW c \in calls, ServeCall(c) PROVE IInv' /\ Whole /\ Forward
<1> DEFINE x == server.exps[c.e]
           ok == X!Accepts(c.action, x)
           heard == c.by = "menu" \/ (modal.st = "sent" /\ c.n = modal.n)
           Answered(st) == calls' = (calls \ {c}) \cup (IF heard THEN {[c EXCEPT !.st = st]} ELSE {})
<1>1. /\ c \in Calls(version) /\ server \in Servers /\ x \in Rows /\ c.st = "sent"
      /\ c.action \in Actions /\ c.e \in Exps
  BY DEF IInv, Servers, Calls, ServeCall
<1>2. UNCHANGED <<params, store, ui, poll, version, mounted, fetches, board, modal, acts>>
  BY DEF ServeCall
<1>3. \/ /\ ok /\ server' = [server EXCEPT !.exps[c.e] = X!Applied(c.action, x)] /\ Answered("done")
      \/ /\ UNCHANGED server /\ Answered("refused")
      \/ /\ server' = [server EXCEPT !.errors = @ + 1] /\ Answered("refused")
  BY DEF ServeCall
<1> HIDE DEF x, heard
<1>4. ASSUME NEW st \in {"done", "refused"}, Answered(st), server' \in Servers,
             \A d \in Exps : Halted(d, server) => Halted(d, server'),
             st = "done" /\ c.action \in {"Cancel", "Kill"} => Halted(c.e, server')
      PROVE  IInv' /\ Whole /\ Forward
  <2> DEFINE a == [c EXCEPT !.st = st]
  <2>1. /\ a \in Calls(version) /\ a.st = st /\ a.e = c.e /\ a.by = c.by /\ a.n = c.n
        /\ a.action = c.action
    BY <1>1 DEF Calls
  <2> HIDE DEF a
  <2>2. calls' = (calls \ {c}) \cup (IF heard THEN {a} ELSE {})
    BY <1>4 DEF a
  <2>3. calls' \subseteq Calls(version)
    BY <2>1, <2>2 DEF IInv
  <2>4. BatchOK(modal, calls, server')
    BY <1>4, BatchLater
  <2>5. \A d \in calls' : d.st = "done" /\ d.action \in {"Cancel", "Kill"} => Halted(d.e, server')
    BY <1>4, <2>1, <2>2, <2>4 DEF BatchOK
  <2>6. modal.st = "sent" => \A e \in modal.ids : \E d \in calls' :
          d.by = "batch" /\ d.n = modal.n /\ d.e = e /\ d.action = modal.action
    <3> SUFFICES ASSUME modal.st = "sent", NEW e \in modal.ids
                 PROVE  \E d \in calls' :
                          d.by = "batch" /\ d.n = modal.n /\ d.e = e /\ d.action = modal.action
      OBVIOUS
    <3>1. PICK d \in calls : d.by = "batch" /\ d.n = modal.n /\ d.e = e /\ d.action = modal.action
      BY <2>4 DEF BatchOK
    <3>2. CASE d = c
      <4>1. heard
        BY <3>1, <3>2 DEF heard
      <4>2. a \in calls'
        BY <2>2, <4>1
      <4> QED
        BY <2>1, <3>1, <3>2, <4>2
    <3>3. CASE d # c
      BY <2>2, <3>1, <3>3
    <3> QED
      BY <3>2, <3>3
  <2>7. BatchOK(modal', calls', server')
    BY <1>2, <2>5, <2>6 DEF BatchOK
  <2> QED
    BY <1>2, <1>4, <2>3, <2>7, FrameStep DEF Whole, Forward, IInv
<1> HIDE DEF Answered
<1>5. CASE ok /\ server' = [server EXCEPT !.exps[c.e] = X!Applied(c.action, x)] /\ Answered("done")
  <2> DEFINE y == X!Applied(c.action, x)
  <2>1. /\ y \in Rows
        /\ x.state \notin X!RunningStates => y.state \notin X!RunningStates
        /\ c.action \in {"Cancel", "Kill"} => y.state \notin X!RunningStates
    BY <1>1, <1>5, AppliedRow
  <2> HIDE DEF y
  <2>2. server' = [server EXCEPT !.exps[c.e] = y]
    BY <1>5 DEF y
  <2>3. /\ server'.exps = [server.exps EXCEPT ![c.e] = y]
        /\ server'.errors \in Nat
        /\ server' = [exps |-> server'.exps, errors |-> server'.errors]
    BY <1>1, <2>2 DEF Servers
  <2>4. server.exps[c.e].state \notin X!RunningStates => y.state \notin X!RunningStates
    BY <2>1 DEF x
  <2>5. /\ server' \in Servers /\ server'.exps[c.e] = y
        /\ \A d \in Exps : Halted(d, server) => Halted(d, server')
    BY <1>1, <2>1, <2>3, <2>4, ServerChange
  <2>6. c.action \in {"Cancel", "Kill"} => Halted(c.e, server')
    BY <2>1, <2>5 DEF Halted
  <2> QED
    BY <1>4, <1>5, <2>5, <2>6
<1>6. CASE UNCHANGED server /\ Answered("refused")
  BY <1>1, <1>4, <1>6 DEF Halted
<1>7. CASE server' = [server EXCEPT !.errors = @ + 1] /\ Answered("refused")
  <2>1. server' \in Servers /\ server'.exps = server.exps
    BY <1>1, <1>7 DEF Servers
  <2> QED
    BY <1>4, <1>7, <2>1 DEF Halted
<1> QED
  BY <1>3, <1>5, <1>6, <1>7

\* The list is answered or not: a page that is taken away stops its loop, and
\* the routine whose call has ended goes on all the same.
LEMMA FetchEndsStep ==
    ASSUME IInv, NEW r \in fetches, FetchEnds(r) PROVE IInv' /\ Whole
<1>1. /\ r.v \in 1..version /\ version \in Nat \ {0} /\ server \in Servers /\ UiOK(ui)
  BY ParamsType DEF IInv, Requests
<1>2. /\ fetches' = fetches \ {r} /\ mounted' = (mounted /\ Renders(ui'))
      /\ modal' = IF r.by = "batch" THEN Closed ELSE modal
      /\ UNCHANGED <<params, store, version, board, calls, acts>>
  BY DEF FetchEnds
<1>3. mounted' \in BOOLEAN /\ mounted \in BOOLEAN
  BY <1>2 DEF IInv, Renders
<1>4. UiOK(ui') /\ server' \in Servers /\ server'.exps = server.exps
  <2>1. CASE FetchFails(r)
    BY <1>1, <2>1 DEF FetchFails, Servers, UiOK
  <2>2. CASE FetchAnswered(r)
    <3> DEFINE a == getExperimentList(params[r.v])
    <3>1. /\ a.experiments \in Lists /\ a.total \in Nat
          /\ Cardinality(a.experiments.ids) <= a.total
      BY <1>1, AnswerType
    <3>2. /\ ui' = IF ~mounted THEN ui
                   ELSE [experiments |-> a.experiments, total |-> a.total,
                         selected |-> ui.selected, shown |-> r.v]
          /\ UNCHANGED server
      BY <2>2 DEF FetchAnswered
    <3> HIDE DEF a
    <3>3. UiOK(ui')
      BY <1>1, <3>1, <3>2 DEF UiOK
    <3> QED
      BY <1>1, <3>2, <3>3
  <2> QED
    BY <2>1, <2>2 DEF FetchEnds
<1>5. PollOK(poll', version, mounted')
  <2> DEFINE left == IF mounted = mounted' THEN poll ELSE P!Stopped(poll)
  <2>1. PollOK(left, version, mounted')
    <3>1. CASE mounted = mounted'
      BY <3>1 DEF IInv
    <3>2. CASE mounted # mounted'
      <4>1. mounted' = FALSE
        BY <1>2, <1>3, <3>2
      <4>2. PollOK(P!Stopped(poll), version, FALSE)
        BY <1>1, PollStops DEF IInv
      <4> QED
        BY <3>2, <4>1, <4>2
    <3> QED
      BY <3>1, <3>2
  <2>2. poll' = IF r.by = "poll" THEN P!Settled(left, r.v) ELSE left
    BY DEF FetchEnds
  <2> HIDE DEF left
  <2>3. PollOK(P!Settled(left, r.v), version, TRUE)
    BY <1>1, <2>1, PollSettles
  <2> QED
    BY <1>3, <2>1, <2>2, <2>3, PollWhileThere
<1>6. modal' \in Dialogues(version) /\ (modal'.st = "refetching" => modal' = modal)
  BY <1>2 DEF IInv, Dialogues, Closed
<1>7. BatchOK(modal', calls', server')
  BY <1>2, <1>4 DEF IInv, BatchOK, Halted, Closed
<1> QED
  BY <1>2, <1>3, <1>4, <1>5, <1>6, <1>7, FrameStep DEF IInv, Whole

LEMMA TimerSteps ==
    ASSUME IInv, Leave \/ \E v \in 1..version : TimerFires(v) PROVE IInv' /\ Whole
<1>1. version \in Nat \ {0}
  BY ParamsType
<1>2. CASE Leave
  <2>1. PollOK(poll', version, mounted') /\ mounted' \in BOOLEAN
    BY <1>1, <1>2, PollStops DEF Leave, IInv
  <2>2. UNCHANGED <<params, store, ui, version, fetches, board, modal, calls, server, acts>>
    BY <1>2 DEF Leave
  <2> QED
    BY <2>1, <2>2, FrameStep DEF IInv, Whole
<1>3. ASSUME NEW v \in 1..version, TimerFires(v) PROVE IInv' /\ Whole
  <2>1. /\ v \in poll.pending /\ poll' = P!Fired(poll, v)
        /\ fetches' = fetches \cup {Request(v, "poll")}
        /\ UNCHANGED <<params, store, ui, version, mounted, board, modal, calls, server, acts>>
    BY <1>3 DEF TimerFires
  <2>2. PollOK(poll', version, mounted')
    <3>1. PollOK(P!Fired(poll, v), version, TRUE)
      BY <1>1, <2>1, PollFires DEF IInv
    <3> QED
      BY <2>1, <3>1, PollWhileThere DEF IInv
  <2>3. Request(v, "poll") \in Requests(version)
    BY DEF Request, Requests
  <2> QED
    BY <2>1, <2>2, <2>3, FrameStep DEF IInv, Whole
<1> QED
  BY <1>2, <1>3

-----------------------------------------------------------------------------
(* Every step keeps the invariant. *)
LEMMA HandlersWhole ==
    ASSUME handleSearchChange \/ handleArchiveChange \/ handleStateChange \/ handleTableChange
    PROVE  UNCHANGED modal
  BY DEF handleSearchChange, handleArchiveChange, handleStateChange, handleTableChange,
         handleFilterChange, setParams

LEMMA NextIInv == IInv /\ [Next]_vars => IInv' /\ Whole
<1> SUFFICES ASSUME IInv, [Next]_vars PROVE IInv' /\ Whole
  OBVIOUS
<1>1. CASE UNCHANGED vars
  <2>1. /\ UNCHANGED <<params, store, version, modal>> /\ UiOK(ui') /\ mounted' \in BOOLEAN
        /\ PollOK(poll', version, mounted') /\ fetches' \subseteq Requests(version)
        /\ board' \in 0..version /\ modal' \in Dialogues(version)
        /\ calls' \subseteq Calls(version) /\ server' \in Servers
        /\ BatchOK(modal', calls', server') /\ acts' \in Nat
    BY <1>1 DEF IInv, vars
  <2> QED
    BY <2>1, FrameStep DEF Whole
<1>2. CASE handleSearchChange \/ handleArchiveChange \/ handleStateChange \/ handleTableChange
  <2>1. IInv'
    BY <1>2, HandlerSteps
  <2>2. UNCHANGED modal
    BY <1>2, HandlersWhole
  <2> QED
    BY <2>1, <2>2 DEF Whole
<1>3. CASE \/ handleTableRowSelect \/ Dismiss
           \/ openOrCreateTensorboard \/ TensorboardOpened \/ TensorboardRefused
           \/ \E a \in Actions : handleConfirmation(a) \/ \E e \in Exps : handleMenuClick(a, e)
  BY <1>3, PageSteps
<1>4. CASE sendBatchActions \/ BatchRefused \/ BatchDone \/ MenuDone
  BY <1>4, BatchSteps
<1>5. ASSUME NEW c \in calls, ServeCall(c) PROVE IInv' /\ Whole
  BY <1>5, ServeCallStep
<1>6. ASSUME NEW r \in fetches, FetchEnds(r) PROVE IInv' /\ Whole
  BY <1>6, FetchEndsStep
<1>7. CASE Leave \/ \E v \in 1..version : TimerFires(v)
  BY <1>7, TimerSteps
<1>8. ASSUME NEW e \in Exps, OthersAct(e) \/ ExperimentStops(e) PROVE IInv' /\ Whole
  BY <1>8, OthersSteps
<1> QED
  BY <1>1, <1>2, <1>3, <1>4, <1>5, <1>6, <1>7, <1>8, ListAssumption DEF Next

\* What is stopping or has ended never runs again: of the steps that touch an
\* experiment only requests could bring it back, and updateState refuses them.
LEMMA NextStops == IInv /\ [Next]_vars => Forward
<1> SUFFICES ASSUME IInv, [Next]_vars PROVE Forward
  OBVIOUS
<1>1. CASE UNCHANGED server
  BY <1>1 DEF Forward, Halted
<1>2. CASE server' = [server EXCEPT !.errors = @ + 1]
  <2>1. server'.exps = server.exps
    BY <1>2 DEF IInv, Servers
  <2> QED
    BY <2>1 DEF Forward, Halted
<1>3. CASE \E c \in calls : ServeCall(c)
  BY <1>3, ServeCallStep
<1>4. CASE \E e \in Exps : OthersAct(e) \/ ExperimentStops(e)
  BY <1>4, OthersSteps
<1>5. CASE \/ handleSearchChange \/ handleArchiveChange \/ handleStateChange
           \/ handleTableChange \/ handleTableRowSelect
  BY <1>1, <1>5 DEF handleSearchChange, handleArchiveChange, handleStateChange,
     handleTableChange, handleTableRowSelect, handleFilterChange, setParams
<1>6. CASE \/ \E a \in Actions : handleConfirmation(a) \/ \E e \in Exps : handleMenuClick(a, e)
           \/ openOrCreateTensorboard \/ TensorboardOpened \/ Dismiss \/ sendBatchActions
           \/ BatchRefused \/ BatchDone \/ MenuDone \/ Leave \/ UNCHANGED vars
           \/ \E v \in 1..version : TimerFires(v)
  BY <1>1, <1>6 DEF handleConfirmation, handleMenuClick, openOrCreateTensorboard,
     TensorboardOpened, Dismiss, sendBatchActions, BatchRefused, BatchDone, MenuDone, Leave,
     TimerFires, vars
<1>7. CASE TensorboardRefused
  BY <1>2, <1>7 DEF TensorboardRefused
<1>8. CASE \E r \in fetches : FetchEnds(r)
  BY <1>1, <1>2, <1>8 DEF FetchEnds, FetchFails, FetchAnswered
<1> QED
  BY <1>3, <1>4, <1>5, <1>6, <1>7, <1>8, ListAssumption DEF Next

\* The invariant holds of every behaviour of the page.
THEOREM Invariance == Spec => []IInv
<1> QED
  BY InitIInv, NextIInv, PTL DEF Spec

\* The loop behind the page and the settings before it stay whole (usePolling,
\* handleFilterChange, handleTableChange): one timer and one routine per
\* version, a page that is there polls for ever, and storage has what it shows.
THEOREM PageStaysWhole == Spec => []PageWhole
<1>1. IInv => TypeOK
  <2> SUFFICES ASSUME IInv PROVE TypeOK
    OBVIOUS
  <2>1. \A v \in 1..version :
          params[v] \in [filters : Filters, sorter : BOOLEAN, search : Exps \cup {0},
                         pagination : [limit : Limits, offset : Nat]]
    BY ParamsType DEF ParamSet
  <2>2. version \in 1..MaxVersions /\ mounted \in BOOLEAN /\ board \in 0..version
    BY DEF IInv, ParamsOK
  <2>3. Params.filters \in Filters /\ Params.sorter \in BOOLEAN
        /\ Params.pagination \in [limit : Limits, offset : Nat]
    BY ParamsType DEF ParamSet
  <2>4. store \in [filters : Filters, limit : Limits, sorter : BOOLEAN]
    BY <2>3, ParamsType
  <2>5. PICK S \in SUBSET Exps : ui.experiments \in [ids : {S}, rows : [S -> Rows]]
    BY DEF IInv, UiOK, Lists
  <2>6. /\ ui.experiments.ids \subseteq Exps /\ ui.selected \subseteq Exps
        /\ DOMAIN ui.experiments.rows = ui.experiments.ids
        /\ Cardinality(ui.experiments.ids) <= ui.total
    BY <2>5 DEF IInv, UiOK
  <2>7. poll \in [ref : 0..version, pending : SUBSET (1..version), awaiting : SUBSET (1..version)]
    BY DEF IInv, PollOK
  <2>8. modal.st \in {"closed", "asking", "sent", "refetching"}
    BY DEF IInv, Dialogues, Closed
  <2>9. {c.st : c \in calls} \subseteq {"sent", "done", "refused"}
    BY DEF IInv, Calls
  <2>10. server.exps \in [Exps -> [state : States, archived : BOOLEAN]]
    BY DEF IInv, Servers, Rows
  <2> QED
    BY <2>1, <2>2, <2>4, <2>6, <2>7, <2>8, <2>9, <2>10 DEF TypeOK
<1>2. IInv => OnePollLoop /\ NeverStopsPolling
  BY DEF IInv, PollOK, OnePollLoop, NeverStopsPolling
<1>3. IInv => StoredSettings
  BY ParamsType DEF StoredSettings
<1> QED
  BY <1>1, <1>2, <1>3, Invariance, PTL DEF PageWhole

\* handleBatchAction deselects and fetches the list anew only after a batch
\* that has stopped every experiment it was to end, although the requests are
\* answered before the experiments have ended: Promise.all waits for all that
\* belong to it, and updateState lets nothing run again that is stopping.
THEOREM BatchStopsWhatItKills == Spec => KilledBatchStops
<1>1. IInv /\ [Next]_vars =>
        [modal.st = "sent" /\ modal'.st = "refetching" /\ modal.action \in {"Cancel", "Kill"}
           => \A e \in modal.ids : server.exps[e].state \notin X!RunningStates]_vars
  BY NextIInv DEF Whole, Halted
<1>2. IInv /\ [Next]_vars =>
        [\A e \in Exps : server.exps[e].state \notin X!RunningStates
                         => server'.exps[e].state \notin X!RunningStates]_vars
  <2> SUFFICES ASSUME IInv, [Next]_vars, NEW e \in Exps, Halted(e, server)
               PROVE  Halted(e, server')
    BY DEF Halted
  <2> QED
    BY NextStops DEF Forward
<1> QED
  BY <1>1, <1>2, Invariance, PTL DEF Spec, KilledBatchStops, BatchStopped, NeverRunsAgain

-----------------------------------------------------------------------------
(* The hook usePolling by itself, module Polling: its own specification,   *)
(* whose function may change at any time, for any number of versions.      *)
(* Every routine is of a version that was rendered. *)
Rendered ==
    /\ poll \in [ref : Nat, pending : SUBSET Nat, awaiting : SUBSET Nat]
    /\ version \in Nat
    /\ poll.pending \cup poll.awaiting \subseteq 1..version

(* The timer that is pending is the one the hook knows, and no routine has *)
(* two: with that, clearing one timer before setting another is enough.    *)
PollInv ==
    /\ Rendered
    /\ P!OneTimer(poll)
    /\ P!OneRoutine(poll)
    /\ P!StillPolling(poll, mounted)

(* The first render starts one routine. *)
LEMMA PollInit == P!Init => PollInv
BY DEF P!Init, PollInv, Rendered, P!OneTimer, P!OneRoutine, P!StillPolling, P!Fresh, P!Started, P!None

(* A new function: its routine is new, since its version is.               *)
LEMMA PollChange == PollInv /\ P!Change => PollInv'
<1> SUFFICES ASSUME PollInv, P!Change PROVE PollInv'
    OBVIOUS
<1> DEFINE q == [ref |-> P!None, pending |-> poll.pending \ {poll.ref},
                 awaiting |-> poll.awaiting \cup {version + 1}]
<1>1. poll' = q
    BY DEF PollInv, Rendered, P!Change, P!Changed, P!Started, P!Stopped
<1>2. poll.pending \ {poll.ref} = {}
    BY DEF PollInv, P!OneTimer
<1>3. Rendered'
    BY <1>1 DEF PollInv, Rendered, P!Change, P!None
<1>4. P!OneTimer(poll)' /\ P!OneRoutine(poll)' /\ P!StillPolling(poll, mounted)'
    BY <1>1, <1>2 DEF P!OneTimer, P!OneRoutine, P!StillPolling
<1> QED BY <1>3, <1>4 DEF PollInv

(* A call returns: whatever timer was set gives way to the caller's own.   *)
LEMMA PollSettle == ASSUME NEW v \in 1..version, PollInv, P!Settle(v) PROVE PollInv'
<1>1. poll' = [ref |-> v, pending |-> (poll.pending \ {poll.ref}) \cup {v},
               awaiting |-> poll.awaiting \ {v}]
    BY DEF P!Settle, P!Settled
<1>2. poll.pending \ {poll.ref} = {}
    BY DEF PollInv, P!OneTimer
<1>3. Rendered'
    BY <1>1 DEF PollInv, Rendered, P!Settle
<1>4. P!OneTimer(poll)' /\ P!OneRoutine(poll)' /\ P!StillPolling(poll, mounted)'
    BY <1>1, <1>2 DEF P!OneTimer, P!OneRoutine, P!StillPolling
<1> QED BY <1>3, <1>4 DEF PollInv

(* A timer goes off: its routine awaits again. *)
LEMMA PollFire == ASSUME NEW v \in 1..version, PollInv, P!Fire(v) PROVE PollInv'
<1>1. poll' = [ref |-> poll.ref, pending |-> poll.pending \ {v},
               awaiting |-> poll.awaiting \cup {v}]
    BY DEF PollInv, Rendered, P!Fire, P!Fired, P!Started
<1>2. Rendered'
    BY <1>1 DEF PollInv, Rendered, P!Fire
<1>3. P!OneTimer(poll)' /\ P!OneRoutine(poll)' /\ P!StillPolling(poll, mounted)'
    BY <1>1 DEF PollInv, P!OneTimer, P!OneRoutine, P!StillPolling
<1> QED BY <1>2, <1>3 DEF PollInv

(* The page goes: the timer is cleared, calls under way are not.           *)
LEMMA PollUnmount == PollInv /\ P!Unmount => PollInv'
<1> SUFFICES ASSUME PollInv, P!Unmount PROVE PollInv'
    OBVIOUS
<1>1. poll' = [ref |-> P!None, pending |-> poll.pending \ {poll.ref}, awaiting |-> poll.awaiting]
    BY DEF PollInv, Rendered, P!Unmount, P!Stopped
<1>2. poll.pending \ {poll.ref} = {}
    BY DEF PollInv, P!OneTimer
<1>3. Rendered'
    BY <1>1 DEF PollInv, Rendered, P!Unmount, P!None
<1>4. P!OneTimer(poll)' /\ P!OneRoutine(poll)' /\ P!StillPolling(poll, mounted)'
    BY <1>1, <1>2 DEF P!OneTimer, P!OneRoutine, P!StillPolling, P!Unmount
<1> QED BY <1>3, <1>4 DEF PollInv

(* usePolling.ts: however renders, answers and timers interleave, the hook *)
(* has at most one timer set and knows it, no function is polled by two    *)
(* routines, and a mounted page polls on.                                  *)
THEOREM PollingSafe ==
    P!Spec => [](P!OneTimer(poll) /\ P!OneRoutine(poll) /\ P!StillPolling(poll, mounted))
<1>1. PollInv /\ [P!Next]_(P!vars) => PollInv'
    <2> SUFFICES ASSUME PollInv, [P!Next]_(P!vars) PROVE PollInv'
        OBVIOUS
    <2>1. CASE P!Change
        BY <2>1, PollChange
    <2>2. CASE P!Unmount
        BY <2>2, PollUnmount
    <2>3. ASSUME NEW v \in 1..version, P!Settle(v) PROVE PollInv'
        BY <2>3, PollSettle
    <2>4. ASSUME NEW v \in 1..version, P!Fire(v) PROVE PollInv'
        BY <2>4, PollFire
    <2>5. CASE UNCHANGED P!vars
        BY <2>5 DEF P!vars, PollInv, Rendered, P!OneTimer, P!OneRoutine, P!StillPolling
    <2> QED BY <2>1, <2>2, <2>3, <2>4, <2>5 DEF P!Next
<1>2. PollInv => P!OneTimer(poll) /\ P!OneRoutine(poll) /\ P!StillPolling(poll, mounted)
    BY DEF PollInv
<1> QED BY PollInit, <1>1, <1>2, PTL DEF P!Spec
=============================================================================
