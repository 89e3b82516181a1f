---------------------------- MODULE DetailsProofs ----------------------------
(***************************************************************************)
(* Proofs about Details, for every trial and every bound, and about the    *)
(* table of steps, for every sequence of workloads.                        *)
(***************************************************************************)
EXTENDS Details, FiniteSetTheorems, WellFoundedInduction, TLAPS

(***************************************************************************)
(* The inductive invariant.  Its parts take the state they are about as    *)
(* parameters, so that they can be stated of the state after a step.       *)
(***************************************************************************)
Ids == Nat \ {0}
Servers == [state : RunStates, done : 0..Len(Script), archived : BOOLEAN]
Answers == [id : Ids, state : RunStates, done : 0..Len(Script), archived : BOOLEAN]
Closures == [id : Ids, error : BOOLEAN]
Calls(n) ==
    [by : Nat, v : 1..n, at : {"details", "trials", "last"}, data : Answers \cup {Nothing},
     trials : 0..Len(Script)]
Loops(n) == [ref : 0..n, pending : SUBSET (1..n), awaiting : SUBSET (1..n)]
Dialogues == [form : BOOLEAN, modal : BOOLEAN, config : {"Loading", "fresh", "form", "typed", "bad"}]
Tables == [experiment : BOOLEAN, metrics : Metrics, stored : Metrics \cup {Unset}]
Posts == [n : Nat, from : {"form", "modal"}, config : {"fresh", "form", "typed"}]
Acts(n) == [n : Ids, button : Buttons, v : 1..n]

\* What an experiment has ended with: nothing is done to it any more.
Final(data, trials, sv) ==
    page = "experiment" /\ Ended(data) /\ data.id = 1
        => sv.state \in terminalRunStates /\ trials = sv.done

\* A call that has read the state of an experiment that has ended reads what
\* the experiment has ended with.
CallOK(f, cs, sv) ==
    f.at # "details" =>
        /\ f.data # Nothing /\ f.data.id = cs[f.v].id
        /\ page = "experiment" /\ Ended(f.data) /\ f.data.id = 1
              => sv.state \in terminalRunStates
        /\ f.at = "last" => Final(f.data, f.trials, sv)

ViewOK(w, sv) ==
    /\ w = [data |-> w.data, trials |-> w.trials, error |-> w.error, seen |-> w.seen, top |-> w.top]
    /\ w.data \in Answers \cup {Nothing} /\ w.error \in BOOLEAN /\ w.seen \in BOOLEAN
    /\ w.error => w.data = Nothing
    /\ Final(w.data, w.trials, sv)

\* One routine for each function, with its one call under way while it awaits.
LoopOK(p, fs, n) ==
    /\ p \in Loops(n)
    /\ P!OneTimer(p) /\ P!OneRoutine(p)
    /\ p.awaiting = {f.v : f \in {g \in fs : g.by = 0}}
    /\ \A f, g \in fs : f.by = 0 /\ g.by = 0 /\ f.v = g.v => f = g

\* The configuration: the page's own unless a dialogue is open, readable while
\* the form is, and posted only by a page that was loaded.
DlgOK(d, ps, w, t, there) ==
    /\ d \in Dialogues
    /\ d.form => ~d.modal /\ d.config \in {"fresh", "form"}
    /\ d.modal => d.config # "Loading"
    /\ there /\ Loaded(w, t) /\ ~d.form /\ ~d.modal => d.config = "fresh"
    /\ ps # {} /\ ~w.error => there /\ Loaded(w, t)

\* Every new function is owed to an error or to an experiment that was made.
VersionsOK(cs, fl, ask, ps) ==
    /\ cs \in Seq(Closures) /\ Len(cs) >= 1
    /\ ps \in SUBSET Posts /\ IsFiniteSet(ps)
    /\ \A p \in ps : p.n < ask
    /\ fl \in 0..MaxFaults /\ ask \in 0..MaxAsked
    /\ Len(cs) + Cardinality(ps) <= 1 + fl + ask

AsksOK(bag) == bag \in [Asks -> Nat] /\ Total(bag) <= MaxAsks

IInv ==
    /\ page \in {"experiment", "trial"} /\ mounted \in BOOLEAN /\ route \in Ids
    /\ server \in Servers
    /\ VersionsOK(closures, faults, asked, posts)
    /\ mounted => view.error = closures[version].error
    /\ fetches \subseteq Calls(version) /\ \A f \in fetches : CallOK(f, closures, server)
    /\ ViewOK(view, server)
    /\ LoopOK(poll, fetches, version) /\ P!StillPolling(poll, mounted /\ ~view.seen)
    /\ AsksOK(asks) /\ table \in Tables
    /\ DlgOK(dlg, posts, view, table, mounted)
    /\ acts \subseteq Acts(version)

-----------------------------------------------------------------------------
(* usePolling. *)

\* What the steps of the hook make of a loop.
LEMMA PollSteps ==
    ASSUME NEW n, NEW l \in Loops(n), NEW u
    PROVE  /\ P!Stopped(l) = [ref |-> 0, pending |-> l.pending \ {l.ref}, awaiting |-> l.awaiting]
           /\ P!Changed(l, u) = [ref |-> 0, pending |-> l.pending \ {l.ref},
                                 awaiting |-> l.awaiting \cup {u}]
           /\ P!Fired(l, u) = [ref |-> l.ref, pending |-> l.pending \ {u},
                               awaiting |-> l.awaiting \cup {u}]
<1>1. P!Stopped(l) = [l EXCEPT !.ref = 0, !.pending = l.pending \ {l.ref}]
  BY DEF P!Stopped, P!None
<1>2. P!Stopped(l) = [ref |-> 0, pending |-> l.pending \ {l.ref}, awaiting |-> l.awaiting]
  BY <1>1 DEF Loops
<1>3. P!Changed(l, u) = [ref |-> 0, pending |-> l.pending \ {l.ref},
                        awaiting |-> l.awaiting \cup {u}]
  BY <1>2 DEF P!Changed, P!Started
<1> DEFINE m == [l EXCEPT !.pending = l.pending \ {u}]
<1>4. m = [ref |-> l.ref, pending |-> l.pending \ {u}, awaiting |-> l.awaiting]
  BY DEF Loops
<1>5. P!Fired(l, u) = P!Started(m, u)
  BY DEF P!Fired
<1> HIDE DEF m
<1>6. P!Fired(l, u) = [ref |-> l.ref, pending |-> l.pending \ {u},
                      awaiting |-> l.awaiting \cup {u}]
  BY <1>4, <1>5 DEF P!Started
<1> QED
  BY <1>2, <1>3, <1>6

\* A call that ends: its routine, if it has one, sets the one timer.
LEMMA RoutineLoop ==
    ASSUME NEW n \in Nat, NEW p, NEW fs \in SUBSET Calls(n), LoopOK(p, fs, n), NEW f \in fs
    PROVE  /\ LoopOK(Routine(p, f), fs \ {f}, n)
           /\ IF f.by = 0 THEN Routine(p, f).pending # {} ELSE Routine(p, f) = p
<1>1. f.v \in 1..n
  BY DEF Calls
<1>2. CASE f.by = 0
  <2>1. p.pending \ {p.ref} = {} /\ p.awaiting \subseteq 1..n
    BY DEF LoopOK, Loops, P!OneTimer
  <2> DEFINE q == Routine(p, f)
  <2>2. q = [ref |-> f.v, pending |-> {f.v}, awaiting |-> p.awaiting \ {f.v}]
    BY <1>2, <2>1 DEF Routine, P!Settled
  <2>3. p.awaiting \ {f.v} = {g.v : g \in {h \in fs \ {f} : h.by = 0}}
    <3>1. p.awaiting = {g.v : g \in {h \in fs : h.by = 0}}
      BY DEF LoopOK
    <3>2. \A g \in fs \ {f} : g.by = 0 => g.v # f.v
      BY <1>2 DEF LoopOK
    <3> QED
      BY <3>1, <3>2
  <2>4. q \in Loops(n) /\ P!OneTimer(q) /\ P!OneRoutine(q)
    BY <1>1, <2>1, <2>2 DEF Loops, P!OneTimer, P!OneRoutine
  <2> QED
    BY <1>2, <2>2, <2>3, <2>4 DEF LoopOK
<1>3. CASE f.by # 0
  <2>1. {g.v : g \in {h \in fs \ {f} : h.by = 0}} = {g.v : g \in {h \in fs : h.by = 0}}
    BY <1>3
  <2> QED
    BY <1>3, <2>1 DEF LoopOK, Routine
<1> QED
  BY <1>2, <1>3

\* Polling that is stopped, for what has ended or with the page.
LEMMA StoppedLoop ==
    ASSUME NEW n \in Nat, NEW p, NEW fs, LoopOK(p, fs, n)
    PROVE  LoopOK(P!Stopped(p), fs, n)
<1>1. p.pending \ {p.ref} = {} /\ p.awaiting \subseteq 1..n
  BY DEF LoopOK, Loops, P!OneTimer
<1>2. P!Stopped(p) = [ref |-> 0, pending |-> {}, awaiting |-> p.awaiting]
  BY <1>1, PollSteps DEF LoopOK
<1> QED
  BY <1>1, <1>2 DEF LoopOK, Loops, P!OneTimer, P!OneRoutine

\* A new function starts its routine.
LEMMA ChangedLoop ==
    ASSUME NEW n \in Nat, NEW p, NEW fs \in SUBSET Calls(n), LoopOK(p, fs, n)
    PROVE  LET q == P!Changed(p, n + 1)
           IN  /\ LoopOK(q, fs \cup {Fetch(0, n + 1)}, n + 1)
               /\ n + 1 \in q.awaiting
<1> DEFINE q == P!Changed(p, n + 1)
           new == Fetch(0, n + 1)
<1>1. p.pending \ {p.ref} = {} /\ p.awaiting \subseteq 1..n
  BY DEF LoopOK, Loops, P!OneTimer
<1>2. q = [ref |-> 0, pending |-> {}, awaiting |-> p.awaiting \cup {n + 1}]
  BY <1>1, PollSteps DEF LoopOK
<1>3. 0 \in 0..(n + 1) /\ 1..n \subseteq 1..(n + 1) /\ n + 1 \in 1..(n + 1)
  OBVIOUS
<1>4. q \in Loops(n + 1) /\ P!OneTimer(q) /\ P!OneRoutine(q)
  BY <1>1, <1>2, <1>3 DEF Loops, P!OneTimer, P!OneRoutine
<1>5. new.by = 0 /\ new.v = n + 1 /\ \A f \in fs : f.v # n + 1
  BY DEF Fetch, Calls
<1> HIDE DEF q, new
<1>6. p.awaiting \cup {n + 1} = {g.v : g \in {h \in fs \cup {new} : h.by = 0}}
  BY <1>5 DEF LoopOK
<1>7. \A f, g \in fs \cup {new} : f.by = 0 /\ g.by = 0 /\ f.v = g.v => f = g
  BY <1>5 DEF LoopOK
<1>8. LoopOK(q, fs \cup {new}, n + 1)
  BY <1>2, <1>4, <1>6, <1>7 DEF LoopOK
<1> QED
  BY <1>2, <1>8 DEF q, new

\* A timer goes off: its routine calls.
LEMMA FiredLoop ==
    ASSUME NEW n \in Nat, NEW p, NEW fs, LoopOK(p, fs, n), NEW v \in p.pending
    PROVE  LET q == P!Fired(p, v)
           IN  /\ LoopOK(q, fs \cup {Fetch(0, v)}, n)
               /\ v \in q.awaiting
<1> DEFINE q == P!Fired(p, v)
           new == Fetch(0, v)
<1>1. p.pending = {v} /\ v \in 1..n /\ p.awaiting \subseteq 1..n /\ p.ref \in 0..n
  BY DEF LoopOK, Loops, P!OneTimer
<1>2. q = [ref |-> p.ref, pending |-> {}, awaiting |-> p.awaiting \cup {v}]
  BY <1>1, PollSteps DEF LoopOK
<1>3. q \in Loops(n) /\ P!OneTimer(q) /\ P!OneRoutine(q)
  BY <1>1, <1>2 DEF Loops, P!OneTimer, P!OneRoutine
<1>4. new.by = 0 /\ new.v = v
  BY DEF Fetch
<1>5. \A f \in fs : f.by = 0 => f.v # v
  BY <1>1 DEF LoopOK, P!OneRoutine
<1> HIDE DEF q, new
<1>6. p.awaiting \cup {v} = {g.v : g \in {h \in fs \cup {new} : h.by = 0}}
  BY <1>4 DEF LoopOK
<1>7. \A f, g \in fs \cup {new} : f.by = 0 /\ g.by = 0 /\ f.v = g.v => f = g
  BY <1>4, <1>5 DEF LoopOK
<1>8. LoopOK(q, fs \cup {new}, n)
  BY <1>2, <1>3, <1>6, <1>7 DEF LoopOK
<1> QED
  BY <1>2, <1>8 DEF q, new

\* A call goes on, or one is made by a button: the loop has no part in it.
LEMMA ReplacedLoop ==
    ASSUME NEW n, NEW p, NEW fs, LoopOK(p, fs, n), NEW f \in fs, NEW g,
           g.by = f.by, g.v = f.v
    PROVE  LoopOK(p, (fs \ {f}) \cup {g}, n)
<1>1. \A h \in fs \ {f} : h.by = 0 /\ f.by = 0 => h.v # f.v
  BY DEF LoopOK
<1>2. \A x, y \in (fs \ {f}) \cup {g} : x.by = 0 /\ y.by = 0 /\ x.v = y.v => x = y
  BY <1>1 DEF LoopOK
<1>3. {x.v : x \in {y \in (fs \ {f}) \cup {g} : y.by = 0}} = {x.v : x \in {y \in fs : y.by = 0}}
  OBVIOUS
<1> QED
  BY <1>2, <1>3 DEF LoopOK

LEMMA CalledLoop ==
    ASSUME NEW n, NEW p, NEW fs, LoopOK(p, fs, n), NEW g, g.by # 0
    PROVE  LoopOK(p, fs \cup {g}, n)
<1>1. {x \in fs \cup {g} : x.by = 0} = {x \in fs : x.by = 0}
  OBVIOUS
<1>2. \A x, y \in fs \cup {g} : x.by = 0 /\ y.by = 0 /\ x.v = y.v => x = y
  BY DEF LoopOK
<1> QED
  BY <1>1, <1>2 DEF LoopOK

-----------------------------------------------------------------------------
(* How each part goes on. *)

\* The parts of the invariant, of the state after a step.
LEMMA Together ==
    ASSUME IInv, page' = page, mounted' \in BOOLEAN, route' \in Ids, server' \in Servers,
           VersionsOK(closures', faults', asked', posts'),
           mounted' => view'.error = closures'[Len(closures')].error,
           fetches' \subseteq Calls(Len(closures')),
           \A f \in fetches' : CallOK(f, closures', server'),
           ViewOK(view', server'),
           LoopOK(poll', fetches', Len(closures')),
           P!StillPolling(poll', mounted' /\ ~view'.seen),
           AsksOK(asks'), table' \in Tables,
           DlgOK(dlg', posts', view', table', mounted'),
           acts' \subseteq Acts(Len(closures'))
    PROVE  IInv'
<1>1. Len(closures') = version'
  BY DEF version
<1>2. /\ page' \in {"experiment", "trial"} /\ VersionsOK(closures, faults, asked, posts)'
      /\ LoopOK(poll, fetches, version)' /\ P!StillPolling(poll, mounted /\ ~view.seen)'
      /\ AsksOK(asks)'
  BY <1>1 DEF IInv, VersionsOK, LoopOK, AsksOK, Loops, P!StillPolling, P!OneTimer, P!OneRoutine,
     Total, Closures, Posts, Ids, Asks
<1>3. \A f \in fetches' : CallOK(f, closures, server)'
  BY DEF CallOK, Final, Ended, terminalRunStates, Nothing
<1>4. ViewOK(view, server)' /\ DlgOK(dlg, posts, view, table, mounted)'
  BY DEF ViewOK, DlgOK, Final, Loaded, Ended, terminalRunStates, Nothing, Answers, Dialogues
<1>5. (fetches \subseteq Calls(version))' /\ (acts \subseteq Acts(version))'
  BY <1>1 DEF Calls, Acts, Answers, Nothing
<1> QED
  BY <1>1, <1>2, <1>3, <1>4, <1>5 DEF IInv, Servers, Tables, Ids

\* Requests for new experiments come and go, functions come.
LEMMA Made ==
    ASSUME NEW cs, NEW fl, NEW ask, NEW ps, VersionsOK(cs, fl, ask, ps), ask < MaxAsked,
           NEW p \in Posts, p.n = ask
    PROVE  VersionsOK(cs, fl, ask + 1, ps \cup {p})
<1>1. Cardinality(ps \cup {p}) = Cardinality(ps) + 1 /\ IsFiniteSet(ps \cup {p})
  <2>1. p \notin ps
    BY DetailsAssumption DEF VersionsOK
  <2>2. IsFiniteSet(ps)
    BY DEF VersionsOK
  <2> QED
    BY <2>1, <2>2, FS_AddElement
<1>2. Cardinality(ps) \in Nat
  BY FS_CardinalityType DEF VersionsOK
<1>3. ps \cup {p} \in SUBSET Posts /\ \A q \in ps \cup {p} : q.n < ask + 1
  <2>1. ask \in Nat /\ ps \subseteq Posts /\ \A q \in ps : q.n < ask
    BY DetailsAssumption DEF VersionsOK
  <2>2. \A q \in Posts : q.n \in Nat
    BY DEF Posts
  <2> QED
    BY <2>1, <2>2
<1>4. ask + 1 \in 0..MaxAsked
  BY DetailsAssumption DEF VersionsOK
<1> QED
  BY <1>1, <1>2, <1>3, <1>4, DetailsAssumption DEF VersionsOK

LEMMA Unmade ==
    ASSUME NEW cs, NEW fl, NEW ask, NEW ps, VersionsOK(cs, fl, ask, ps), NEW p \in ps
    PROVE  /\ VersionsOK(cs, fl, ask, ps \ {p})
           /\ \A c \in Closures : VersionsOK(Append(cs, c), fl, ask, ps \ {p})
<1>1. Cardinality(ps \ {p}) = Cardinality(ps) - 1 /\ IsFiniteSet(ps \ {p})
  BY FS_RemoveElement DEF VersionsOK
<1>2. Cardinality(ps) \in Nat
  BY FS_CardinalityType DEF VersionsOK
<1>3. VersionsOK(cs, fl, ask, ps \ {p})
  BY <1>1, <1>2, DetailsAssumption DEF VersionsOK
<1>4. ASSUME NEW c \in Closures
      PROVE  VersionsOK(Append(cs, c), fl, ask, ps \ {p})
  <2>1. Append(cs, c) \in Seq(Closures) /\ Len(Append(cs, c)) = Len(cs) + 1
    BY DEF VersionsOK
  <2> QED
    BY <1>1, <1>2, <2>1, DetailsAssumption DEF VersionsOK
<1> QED
  BY <1>3, <1>4

LEMMA Failed ==
    ASSUME NEW cs, NEW fl, NEW ask, NEW ps, VersionsOK(cs, fl, ask, ps), fl < MaxFaults
    PROVE  /\ VersionsOK(cs, fl + 1, ask, ps)
           /\ \A c \in Closures : VersionsOK(Append(cs, c), fl + 1, ask, ps)
<1>1. Cardinality(ps) \in Nat
  BY FS_CardinalityType DEF VersionsOK
<1>2. \A c \in Closures : Append(cs, c) \in Seq(Closures) /\ Len(Append(cs, c)) = Len(cs) + 1
  BY DEF VersionsOK
<1> QED
  BY <1>1, <1>2, DetailsAssumption DEF VersionsOK

LEMMA Dropped ==
    ASSUME NEW cs, NEW fl, NEW ask, NEW ps, VersionsOK(cs, fl, ask, ps)
    PROVE  VersionsOK(cs, fl, ask, {})
<1>1. Cardinality(ps) \in Nat /\ Cardinality({}) = 0 /\ IsFiniteSet({})
  BY FS_CardinalityType, FS_EmptySet DEF VersionsOK
<1> QED
  BY <1>1, DetailsAssumption DEF VersionsOK

\* A function more: what was made with the others stays.
LEMMA Longer ==
    ASSUME NEW cs \in Seq(Closures), NEW c \in Closures
    PROVE  /\ Append(cs, c) \in Seq(Closures) /\ Len(Append(cs, c)) = Len(cs) + 1
           /\ Append(cs, c)[Len(cs) + 1] = c
           /\ Calls(Len(cs)) \subseteq Calls(Len(cs) + 1) /\ Acts(Len(cs)) \subseteq Acts(Len(cs) + 1)
           /\ \A sv, f : f \in Calls(Len(cs)) /\ CallOK(f, cs, sv) => CallOK(f, Append(cs, c), sv)
<1>1. /\ Append(cs, c) \in Seq(Closures) /\ Len(Append(cs, c)) = Len(cs) + 1
      /\ Append(cs, c)[Len(cs) + 1] = c
      /\ \A v \in 1..Len(cs) : Append(cs, c)[v] = cs[v]
  OBVIOUS
<1>2. 1..Len(cs) \subseteq 1..(Len(cs) + 1)
  OBVIOUS
<1>3. Calls(Len(cs)) \subseteq Calls(Len(cs) + 1) /\ Acts(Len(cs)) \subseteq Acts(Len(cs) + 1)
  BY <1>2 DEF Calls, Acts
<1>4. ASSUME NEW sv, NEW f \in Calls(Len(cs)), CallOK(f, cs, sv)
      PROVE  CallOK(f, Append(cs, c), sv)
  <2>1. f.v \in 1..Len(cs)
    BY DEF Calls
  <2> QED
    BY <1>1, <1>4, <2>1 DEF CallOK
<1> QED
  BY <1>1, <1>3, <1>4

\* Requests of the trial's page for its experiment.
LEMMA Counted ==
    ASSUME NEW bag \in [Asks -> Nat], NEW a \in Asks
    PROVE  /\ Total(bag) \in Nat /\ bag[a] <= Total(bag)
           /\ [bag EXCEPT ![a] = bag[a] + 1] \in [Asks -> Nat]
           /\ Total([bag EXCEPT ![a] = bag[a] + 1]) = Total(bag) + 1
           /\ bag[a] > 0 => /\ [bag EXCEPT ![a] = bag[a] - 1] \in [Asks -> Nat]
                            /\ Total([bag EXCEPT ![a] = bag[a] - 1]) = Total(bag) - 1
<1> DEFINE tt == [default |-> TRUE, key |-> TRUE]
           tf == [default |-> TRUE, key |-> FALSE]
           ft == [default |-> FALSE, key |-> TRUE]
           ff == [default |-> FALSE, key |-> FALSE]
<1>1. /\ {tt, tf, ft, ff} \subseteq Asks /\ a \in {tt, tf, ft, ff}
      /\ tt # tf /\ tt # ft /\ tt # ff /\ tf # ft /\ tf # ff /\ ft # ff
  BY DEF Asks
<1>2. \A b : Total(b) = (b[tt] + b[tf]) + (b[ft] + b[ff])
  BY DEF Total
<1> HIDE DEF tt, tf, ft, ff
<1>3. ASSUME NEW x \in Nat
      PROVE  /\ [bag EXCEPT ![a] = x] \in [Asks -> Nat]
             /\ Total([bag EXCEPT ![a] = x]) = Total(bag) - bag[a] + x
  <2> DEFINE new == [bag EXCEPT ![a] = x]
  <2>1. new \in [Asks -> Nat] /\ new[a] = x /\ \A c \in Asks : c # a => new[c] = bag[c]
    BY <1>3
  <2>2. \A c \in Asks : bag[c] \in Nat
    OBVIOUS
  <2> HIDE DEF new
  <2>3. Total(new) = Total(bag) - bag[a] + x
    <3>1. CASE a = tt
      BY <1>1, <1>2, <2>1, <2>2, <3>1
    <3>2. CASE a = tf
      BY <1>1, <1>2, <2>1, <2>2, <3>2
    <3>3. CASE a = ft
      BY <1>1, <1>2, <2>1, <2>2, <3>3
    <3>4. CASE a = ff
      BY <1>1, <1>2, <2>1, <2>2, <3>4
    <3> QED
      BY <1>1, <3>1, <3>2, <3>3, <3>4
  <2> QED
    BY <2>1, <2>3 DEF new
<1>4. Total(bag) \in Nat /\ bag[a] <= Total(bag)
  BY <1>1, <1>2
<1>5. /\ [bag EXCEPT ![a] = bag[a] + 1] \in [Asks -> Nat]
      /\ Total([bag EXCEPT ![a] = bag[a] + 1]) = Total(bag) + 1
  <2>1. bag[a] + 1 \in Nat /\ Total(bag) - bag[a] + (bag[a] + 1) = Total(bag) + 1
    BY <1>4
  <2> QED
    BY <1>3, <2>1
<1>6. ASSUME bag[a] > 0
      PROVE  /\ [bag EXCEPT ![a] = bag[a] - 1] \in [Asks -> Nat]
             /\ Total([bag EXCEPT ![a] = bag[a] - 1]) = Total(bag) - 1
  <2>1. bag[a] - 1 \in Nat /\ Total(bag) - bag[a] + (bag[a] - 1) = Total(bag) - 1
    BY <1>4, <1>6
  <2> QED
    BY <1>3, <2>1
<1> QED
  BY <1>4, <1>5, <1>6

-----------------------------------------------------------------------------
(* The dialogues and the table. *)

LEMMA InitIInv == Init => IInv
<1> SUFFICES ASSUME Init PROVE IInv
  OBVIOUS
<1>1. Len(closures) = 1 /\ closures \in Seq(Closures) /\ closures[1].error = FALSE
  BY DEF Init, Closures, Ids
<1>2. VersionsOK(closures, faults, asked, posts)
  <2>1. Cardinality({}) = 0 /\ IsFiniteSet({})
    BY FS_EmptySet
  <2> QED
    BY <1>1, <2>1, DetailsAssumption DEF Init, VersionsOK
<1>3. server \in Servers
  BY DetailsAssumption DEF Init, Servers, RunStates
<1>4. ViewOK(view, server) /\ view.error = FALSE /\ view.seen = FALSE /\ view.data = Nothing
  BY DEF Init, ViewOK, BlankView, Final, Ended
<1>5. /\ fetches = {Fetch(0, 1)} /\ Fetch(0, 1) \in Calls(1) /\ Fetch(0, 1).by = 0
      /\ Fetch(0, 1).v = 1 /\ Fetch(0, 1).at = "details"
  BY DetailsAssumption DEF Init, Fetch, Calls
<1>6. fetches \subseteq Calls(version) /\ \A f \in fetches : CallOK(f, closures, server)
  BY <1>1, <1>5 DEF version, CallOK
<1>7. LoopOK(poll, fetches, version) /\ P!StillPolling(poll, mounted /\ ~view.seen)
  <2> DEFINE l == [ref |-> 0, pending |-> {}, awaiting |-> {}]
  <2>1. poll = [l EXCEPT !.awaiting = {} \cup {1}]
    BY DEF Init, P!Fresh, P!Started, P!None
  <2>2. poll = [ref |-> 0, pending |-> {}, awaiting |-> {1}]
    BY <2>1
  <2>3. {f.v : f \in {g \in fetches : g.by = 0}} = {1}
    BY <1>5
  <2>4. poll \in Loops(1)
    BY <2>2 DEF Loops
  <2> QED
    BY <1>1, <1>5, <2>2, <2>3, <2>4
       DEF LoopOK, version, P!OneTimer, P!OneRoutine, P!StillPolling
<1>8. AsksOK(asks)
  <2>1. asks \in [Asks -> Nat]
    BY DEF Init, NoAsks
  <2>2. Total(asks) = 0
    BY DEF Init, NoAsks, Total, Asks
  <2> QED
    BY <2>1, <2>2, DetailsAssumption DEF AsksOK
<1>9. table \in Tables
  BY DEF Init, Tables, Metrics
<1>10. DlgOK(dlg, posts, view, table, mounted)
  BY <1>4 DEF Init, DlgOK, BlankDlg, Dialogues, Loaded
<1>11. page \in {"experiment", "trial"} /\ mounted \in BOOLEAN /\ route \in Ids /\ acts = {}
  BY DEF Init, Ids
<1>12. view.error = closures[version].error
  BY <1>1, <1>4 DEF version
<1> QED
  BY <1>2, <1>3, <1>4, <1>6, <1>7, <1>8, <1>9, <1>10, <1>11, <1>12 DEF IInv

\* A dialogue as the steps leave it, whatever they came from.
LEMMA DialogueIs ==
    ASSUME NEW d \in Dialogues, NEW x
    PROVE  /\ [d EXCEPT !.config = x] = [form |-> d.form, modal |-> d.modal, config |-> x]
           /\ [d EXCEPT !.form = x] = [form |-> x, modal |-> d.modal, config |-> d.config]
           /\ [d EXCEPT !.modal = x] = [form |-> d.form, modal |-> x, config |-> d.config]
  BY DEF Dialogues

\* A step of a dialogue that posts nothing.
LEMMA DialogueStep ==
    ASSUME IInv, NEW d, SetDlg(d), UNCHANGED <<posts, asked>>,
           DlgOK(d, posts, view, table, mounted)
    PROVE  IInv'
  BY Together DEF SetDlg, IInv, version

LEMMA EditorSteps ==
    ASSUME IInv, showForkModal \/ handleActionClick \/ editorOnChange
    PROVE  IInv'
<1>1. dlg \in Dialogues /\ DlgOK(dlg, posts, view, table, mounted)
  BY DEF IInv, DlgOK
<1>2. CASE showForkModal
  <2>1. DlgOK([dlg EXCEPT !.modal = TRUE], posts, view, table, mounted)
    BY <1>1, <1>2, DialogueIs DEF showForkModal, Bare, Shown, DlgOK, Dialogues
  <2> QED
    BY <1>2, <2>1, DialogueStep DEF showForkModal
<1>3. CASE handleActionClick
  <2>1. DlgOK([dlg EXCEPT !.form = TRUE], posts, view, table, mounted)
    BY <1>1, <1>3, DialogueIs DEF handleActionClick, Bare, Shown, DlgOK, Dialogues
  <2> QED
    BY <1>3, <2>1, DialogueStep DEF handleActionClick
<1>4. CASE editorOnChange
  <2>1. PICK c \in {"typed", "bad"} : SetDlg([dlg EXCEPT !.config = c])
    BY <1>4 DEF editorOnChange
  <2>2. DlgOK([dlg EXCEPT !.config = c], posts, view, table, mounted)
    BY <1>1, <1>4, DialogueIs DEF editorOnChange, Shown, DlgOK, Dialogues
  <2> QED
    BY <1>4, <2>1, <2>2, DialogueStep DEF editorOnChange
<1> QED
  BY <1>2, <1>3, <1>4

\* A dialogue that was closed.
LEMMA ClosedOK ==
    ASSUME NEW e, e = [form |-> FALSE, modal |-> FALSE, config |-> "fresh"], NEW d, NEW ps, NEW w,
           NEW t, NEW there, DlgOK(d, ps, w, t, there)
    PROVE  DlgOK(e, ps, w, t, there)
<1>1. e \in Dialogues /\ e.form = FALSE /\ e.modal = FALSE /\ e.config = "fresh"
  BY DEF Dialogues
<1> QED
  BY <1>1 DEF DlgOK

LEMMA CancelSteps ==
    ASSUME IInv, handleContFormCancel \/ handleEditContConfig \/ handleCancel
    PROVE  IInv'
<1>1. dlg \in Dialogues /\ DlgOK(dlg, posts, view, table, mounted)
  BY DEF IInv, DlgOK
<1>2. CASE handleContFormCancel
  <2> DEFINE d == [dlg EXCEPT !.form = FALSE]
  <2>1. d = [form |-> FALSE, modal |-> dlg.modal, config |-> dlg.config] /\ d \in Dialogues
    BY <1>1, DialogueIs DEF Dialogues
  <2> HIDE DEF d
  <2>2. Refreshed(d, TRUE) = [form |-> FALSE, modal |-> FALSE, config |-> "fresh"]
    BY <1>1, <1>2, <2>1, DialogueIs DEF handleContFormCancel, Refreshed, FreshConfig, DlgOK,
       Dialogues
  <2>3. DlgOK(Refreshed(d, TRUE), posts, view, table, mounted)
    BY <1>1, <2>2, ClosedOK
  <2> QED
    BY <1>2, <2>3, DialogueStep DEF handleContFormCancel, d
<1>3. CASE handleCancel
  <2> DEFINE d == [dlg EXCEPT !.modal = FALSE]
  <2>1. d = [form |-> dlg.form, modal |-> FALSE, config |-> dlg.config] /\ d \in Dialogues
    BY <1>1, DialogueIs DEF Dialogues
  <2> HIDE DEF d
  <2>2. Refreshed(d, TRUE) = [form |-> FALSE, modal |-> FALSE, config |-> "fresh"]
    BY <1>1, <1>3, <2>1, DialogueIs DEF handleCancel, Refreshed, FreshConfig, DlgOK, Dialogues
  <2>3. DlgOK(Refreshed(d, TRUE), posts, view, table, mounted)
    BY <1>1, <2>2, ClosedOK
  <2> QED
    BY <1>3, <2>3, DialogueStep DEF handleCancel, d
<1>4. CASE handleEditContConfig
  <2> DEFINE d == [updateStatesFromForm(dlg) EXCEPT !.form = FALSE, !.modal = TRUE]
  <2>1. updateStatesFromForm(dlg) = [form |-> TRUE, modal |-> FALSE, config |-> "form"]
    BY <1>1, <1>4, DialogueIs DEF handleEditContConfig, updateStatesFromForm, DlgOK, Dialogues
  <2> DEFINE u == updateStatesFromForm(dlg)
             x == [u EXCEPT !.form = FALSE]
  <2>2. d = [x EXCEPT !.modal = TRUE]
    OBVIOUS
  <2> HIDE DEF d, u
  <2>4. u = [form |-> TRUE, modal |-> FALSE, config |-> "form"] /\ u \in Dialogues
    BY <2>1 DEF u, Dialogues
  <2>5. x = [form |-> FALSE, modal |-> FALSE, config |-> "form"] /\ x \in Dialogues
    <3>1. x = [form |-> FALSE, modal |-> u.modal, config |-> u.config]
      BY <2>4, DialogueIs
    <3>2. u.modal = FALSE /\ u.config = "form"
      BY <2>4
    <3>3. [form |-> FALSE, modal |-> FALSE, config |-> "form"] \in Dialogues
      BY DEF Dialogues
    <3> QED
      BY <3>1, <3>2, <3>3, Zenon
  <2> HIDE DEF x
  <2>7. d = [form |-> FALSE, modal |-> TRUE, config |-> "form"]
    BY <2>2, <2>5, DialogueIs
  <2>6. d \in Dialogues /\ d.form = FALSE /\ d.modal = TRUE /\ d.config = "form"
    BY <2>7 DEF Dialogues
  <2>3. DlgOK(d, posts, view, table, mounted)
    BY <1>1, <2>6 DEF DlgOK
  <2> QED
    BY <1>4, <2>3, DialogueStep DEF handleEditContConfig, d
<1> QED
  BY <1>2, <1>3, <1>4

\* A new experiment is asked for.
LEMMA PostStep ==
    ASSUME IInv, NEW from \in {"form", "modal"}, NEW config \in {"fresh", "form", "typed"},
           Post(from, config), NEW d, SetDlg(d), Shown, DlgOK(d, posts, view, table, mounted)
    PROVE  IInv'
<1> DEFINE p == [n |-> asked, from |-> from, config |-> config]
<1>1. asked \in Nat /\ asked < MaxAsked /\ posts' = posts \cup {p} /\ asked' = asked + 1
  BY DetailsAssumption DEF IInv, VersionsOK, Post
<1>2. p \in Posts /\ p.n = asked
  BY <1>1 DEF Posts
<1> HIDE DEF p
<1>3. VersionsOK(closures, faults, asked', posts')
  BY <1>1, <1>2, Made DEF IInv
<1>4. DlgOK(d, posts', view, table, mounted)
  BY DEF DlgOK, Shown
<1> QED
  BY <1>3, <1>4, Together DEF SetDlg, IInv, version

LEMMA PostingSteps ==
    ASSUME IInv, handleFormCreate \/ handleOk
    PROVE  IInv'
<1>1. dlg \in Dialogues /\ DlgOK(dlg, posts, view, table, mounted)
  BY DEF IInv, DlgOK
<1>2. CASE handleFormCreate
  <2>1. Shown /\ dlg.form /\ SetDlg(updateStatesFromForm(dlg)) /\ dlg.config # "bad"
    BY <1>1, <1>2 DEF handleFormCreate, DlgOK
  <2>2. Post("form", "form")
    BY <1>2, <2>1 DEF handleFormCreate
  <2>3. DlgOK(updateStatesFromForm(dlg), posts, view, table, mounted)
    BY <1>1, <2>1, DialogueIs DEF updateStatesFromForm, DlgOK, Dialogues
  <2> QED
    BY <2>1, <2>2, <2>3, PostStep
<1>3. CASE handleOk
  <2>1. Shown /\ SetDlg(dlg) /\ Post("modal", dlg.config)
    BY <1>3 DEF handleOk
  <2>2. dlg.config \in {"fresh", "form", "typed"}
    BY <1>1, <1>3 DEF handleOk, DlgOK, Dialogues
  <2> QED
    BY <1>1, <2>1, <2>2, PostStep
<1> QED
  BY <1>2, <1>3

\* A refused form is replaced by the editor.
LEMMA NotCreatedStep ==
    ASSUME IInv, NEW p \in posts, NotCreated(p)
    PROVE  IInv'
<1>1. dlg \in Dialogues /\ DlgOK(dlg, posts, view, table, mounted)
  BY DEF IInv, DlgOK
<1>2. VersionsOK(closures, faults', asked, posts')
  BY Unmade, Failed DEF NotCreated, IInv
<1>3. DlgOK(dlg', posts', view, table, mounted)
  <2>1. posts' \subseteq posts
    BY DEF NotCreated
  <2>2. CASE p.from = "form" /\ ~view.error
    <3> DEFINE x == [dlg EXCEPT !.modal = TRUE]
    <3>1. dlg' = [x EXCEPT !.form = FALSE]
      BY <2>2 DEF NotCreated
    <3>2. x = [form |-> dlg.form, modal |-> TRUE, config |-> dlg.config] /\ x \in Dialogues
      BY <1>1, DialogueIs DEF Dialogues
    <3> HIDE DEF x
    <3>3. dlg' = [form |-> FALSE, modal |-> x.modal, config |-> x.config]
      BY <3>1, <3>2, DialogueIs
    <3>4. dlg' \in Dialogues /\ dlg'.form = FALSE /\ dlg'.config = dlg.config
      BY <3>2, <3>3 DEF Dialogues
    <3>5. dlg'.modal = TRUE
      BY <3>2, <3>3
    <3>6. mounted /\ Loaded(view, table)
      BY <1>1, <2>2 DEF DlgOK
    <3>7. dlg.config # "Loading"
      BY <1>1, <3>6 DEF DlgOK
    <3> QED
      BY <3>4, <3>5, <3>6, <3>7 DEF DlgOK
  <2>3. CASE ~(p.from = "form" /\ ~view.error)
    BY <1>1, <2>1, <2>3 DEF NotCreated, DlgOK
  <2> QED
    BY <2>2, <2>3
<1> QED
  BY <1>2, <1>3, Together DEF NotCreated, IInv, version

LEMMA handleMetricChangeStep ==
    ASSUME IInv, NEW value \in Metrics, handleMetricChange(value)
    PROVE  IInv'
<1> DEFINE x == [table EXCEPT !.metrics = value]
<1>1. table' = [x EXCEPT !.stored = value]
  BY DEF handleMetricChange
<1>2. table \in Tables
  BY DEF IInv
<1>3. x = [experiment |-> table.experiment, metrics |-> value, stored |-> table.stored]
      /\ x \in Tables
  BY <1>2 DEF Tables
<1> HIDE DEF x
<1>4. table' \in Tables /\ table'.experiment = x.experiment
  BY <1>1, <1>3 DEF Tables
<1>5. x.experiment = table.experiment
  BY <1>3
<1>6. DlgOK(dlg, posts, view, table', mounted)
  BY <1>4, <1>5 DEF IInv, DlgOK, Loaded
<1> QED
  BY <1>4, <1>6, Together DEF handleMetricChange, IInv, version

-----------------------------------------------------------------------------
(* The master, the buttons and the timer. *)

\* What has ended stays as it is.
Onward(sv, next) ==
    next \in Servers
    /\ (sv.state \in terminalRunStates => next.state \in terminalRunStates /\ next.done = sv.done)

LEMMA StillFinal ==
    ASSUME NEW sv, NEW next, Onward(sv, next)
    PROVE  /\ \A f, cs : CallOK(f, cs, sv) => CallOK(f, cs, next)
           /\ \A w : ViewOK(w, sv) => ViewOK(w, next)
<1>1. \A data, trials : Final(data, trials, sv) => Final(data, trials, next)
  BY DEF Final, Onward
<1>2. ASSUME NEW f, NEW cs, CallOK(f, cs, sv)
      PROVE  CallOK(f, cs, next)
  BY <1>1, <1>2 DEF CallOK, Onward
<1>3. ASSUME NEW w, ViewOK(w, sv)
      PROVE  ViewOK(w, next)
  BY <1>1, <1>3 DEF ViewOK
<1> QED
  BY <1>2, <1>3

LEMMA ServerIs ==
    ASSUME server \in Servers
    PROVE  /\ \A x : [server EXCEPT !.state = x]
                        = [state |-> x, done |-> server.done, archived |-> server.archived]
           /\ \A x : [server EXCEPT !.done = x]
                        = [state |-> server.state, done |-> x, archived |-> server.archived]
           /\ \A x : [server EXCEPT !.archived = x]
                        = [state |-> server.state, done |-> server.done, archived |-> x]
           /\ server = [state |-> server.state, done |-> server.done, archived |-> server.archived]
  BY DEF Servers

LEMMA WorksStep ==
    ASSUME IInv, Works
    PROVE  IInv'
<1>1. server \in Servers /\ server.done \in 0..Len(Script) /\ server.archived \in BOOLEAN
      /\ Len(Script) \in Nat
  BY DetailsAssumption DEF IInv, Servers
<1>2. Onward(server, server')
  <2>1. CASE server.state = "ACTIVE" /\ server.done < Len(Script)
             /\ server' = [server EXCEPT !.done = server.done + 1]
    <3>1. server' = [state |-> "ACTIVE", done |-> server.done + 1, archived |-> server.archived]
      BY <1>1, <2>1, ServerIs
    <3> QED
      BY <1>1, <2>1, <3>1 DEF Onward, Servers, RunStates, terminalRunStates
  <2>2. CASE server.state = "ACTIVE" /\ server' = [server EXCEPT !.state = "COMPLETED"]
    <3>1. server' = [state |-> "COMPLETED", done |-> server.done, archived |-> server.archived]
      BY <1>1, <2>2, ServerIs
    <3> QED
      BY <1>1, <2>2, <3>1 DEF Onward, Servers, RunStates, terminalRunStates
  <2>3. CASE server.state = "STOPPING_CANCELED" /\ server' = [server EXCEPT !.state = "CANCELED"]
    <3>1. server' = [state |-> "CANCELED", done |-> server.done, archived |-> server.archived]
      BY <1>1, <2>3, ServerIs
    <3> QED
      BY <1>1, <2>3, <3>1 DEF Onward, Servers, RunStates, terminalRunStates
  <2> QED
    BY <2>1, <2>2, <2>3 DEF Works, X!Stopped
<1>3. (\A f \in fetches : CallOK(f, closures, server')) /\ ViewOK(view, server')
  BY <1>2, StillFinal DEF IInv
<1> QED
  BY <1>2, <1>3, Together DEF Works, IInv, version, Onward

LEMMA AppliedOnward ==
    ASSUME server \in Servers, NEW b \in Buttons, X!Accepts(b, server)
    PROVE  Onward(server, X!Applied(b, server))
<1>1. server.done \in 0..Len(Script) /\ server.archived \in BOOLEAN /\ server.state \in RunStates
  BY DEF Servers
<1>2. b \in {"Activate", "Archive", "Cancel", "Kill", "Pause", "Tensorboard", "Unarchive"}
  BY DetailsAssumption
<1>3. \A x \in RunStates : server.state \notin terminalRunStates
        => Onward(server, [server EXCEPT !.state = x])
  BY <1>1, ServerIs DEF Onward, Servers
<1>4. \A x \in BOOLEAN : Onward(server, [server EXCEPT !.archived = x])
  BY <1>1, ServerIs DEF Onward, Servers
<1>5. Onward(server, server)
  BY DEF Onward
<1>6. CASE b \in {"Activate", "Pause"}
  BY <1>3, <1>6 DEF X!Accepts, X!Applied, X!RunningStates, terminalRunStates, RunStates
<1>7. CASE b \in {"Archive", "Unarchive"}
  BY <1>4, <1>7 DEF X!Applied
<1>8. CASE b \in {"Cancel", "Kill"}
  BY <1>3, <1>5, <1>8 DEF X!Applied, X!RunningStates, terminalRunStates, RunStates
<1>9. CASE b = "Tensorboard"
  BY <1>5, <1>9 DEF X!Applied
<1> QED
  BY <1>2, <1>6, <1>7, <1>8, <1>9

\* A button calls fetchDetails apart from the hook.
LEMMA ActDoneStep ==
    ASSUME IInv, NEW a \in acts, ActDone(a)
    PROVE  IInv'
<1>1. a \in Acts(version) /\ a.n # 0 /\ a.n \in Nat /\ a.v \in 1..version /\ a.button \in Buttons
  BY DEF IInv, Acts, Ids
<1>2. Onward(server, server')
  BY <1>1, AppliedOnward DEF ActDone, IInv
<1> DEFINE new == Fetch(a.n, a.v)
<1>3. new \in Calls(version) /\ new.by # 0 /\ new.at = "details"
  BY <1>1, DetailsAssumption DEF Fetch, Calls
<1> HIDE DEF new
<1>4. fetches' = fetches \/ fetches' = fetches \cup {new}
  BY DEF ActDone, new
<1>5. fetches' \subseteq Calls(version) /\ \A f \in fetches' : CallOK(f, closures, server')
  <2>1. CallOK(new, closures, server')
    BY <1>3 DEF CallOK
  <2>2. \A f \in fetches : CallOK(f, closures, server')
    BY <1>2, StillFinal DEF IInv
  <2> QED
    BY <1>3, <1>4, <2>1, <2>2 DEF IInv
<1>6. LoopOK(poll, fetches', version)
  BY <1>3, <1>4, CalledLoop DEF IInv
<1>7. ViewOK(view, server')
  BY <1>2, StillFinal DEF IInv
<1>8. acts' \subseteq acts
  BY DEF ActDone
<1> QED
  BY <1>2, <1>5, <1>6, <1>7, <1>8, Together DEF ActDone, IInv, version, Onward

LEMMA ActRefusedStep ==
    ASSUME IInv, NEW a \in acts, ActRefused(a)
    PROVE  IInv'
<1>1. VersionsOK(closures, faults', asked, posts)
  BY Failed DEF ActRefused, IInv
<1>2. acts' \subseteq acts
  BY DEF ActRefused
<1> QED
  BY <1>1, <1>2, Together DEF ActRefused, IInv, version

LEMMA ClickStep ==
    ASSUME IInv, NEW b \in Buttons, Click(b)
    PROVE  IInv'
<1>1. asked \in 0..MaxAsked /\ asked < MaxAsked /\ asked' = asked + 1 /\ MaxAsked \in Nat
      /\ posts' = posts
  BY DetailsAssumption DEF Click, IInv, VersionsOK
<1>2. VersionsOK(closures, faults, asked', posts')
  <2>1. \A p \in posts : p.n < asked + 1
    <3>1. \A p \in posts : p.n < asked /\ p.n \in Nat
      BY DEF IInv, VersionsOK, Posts
    <3> QED
      BY <1>1, <3>1
  <2>2. Cardinality(posts) \in Nat
    BY FS_CardinalityType DEF IInv, VersionsOK
  <2> QED
    BY <1>1, <2>1, <2>2, DetailsAssumption DEF IInv, VersionsOK
<1>3. acts' \subseteq Acts(version)
  <2>1. version \in 1..version
    BY DEF IInv, VersionsOK, version
  <2>2. [n |-> asked + 1, button |-> b, v |-> version] \in Acts(version)
    BY <1>1, <2>1 DEF Acts, Ids
  <2> QED
    BY <2>2 DEF Click, IInv
<1> QED
  BY <1>2, <1>3, Together DEF Click, IInv, version

\* The timer of the hook goes off.
LEMMA TimerStep ==
    ASSUME IInv, NEW v \in 1..version, TimerFires(v)
    PROVE  IInv'
<1>1. v \in poll.pending /\ version \in Nat
  BY DEF TimerFires, IInv, VersionsOK, version
<1>2. LoopOK(poll', fetches', version) /\ v \in poll'.awaiting
  BY <1>1, FiredLoop DEF TimerFires, IInv
<1> DEFINE new == Fetch(0, v)
<1>3. new \in Calls(version) /\ new.at = "details"
  BY DetailsAssumption DEF Fetch, Calls
<1> HIDE DEF new
<1>4. fetches' \subseteq Calls(version) /\ \A f \in fetches' : CallOK(f, closures, server)
  BY <1>3 DEF TimerFires, IInv, CallOK, new
<1>5. P!StillPolling(poll', mounted /\ ~view.seen)
  BY <1>2 DEF P!StillPolling
<1> QED
  BY <1>2, <1>4, <1>5, Together DEF TimerFires, IInv, version

-----------------------------------------------------------------------------
(* The trial's page and its experiment. *)

LEMMA HasDefaultAsks == \A data, key : key \in BOOLEAN => [default |-> HasDefault(data), key |-> key] \in Asks
  BY DEF HasDefault, Asks

\* One answer less to come, and perhaps one more.
LEMMA AskedOK ==
    ASSUME NEW bag \in [Asks -> Nat], Total(bag) < MaxAsks, NEW data, NEW key \in BOOLEAN
    PROVE  AsksOK(Asked(bag, data, key))
<1> DEFINE a == [default |-> HasDefault(data), key |-> key]
<1>1. a \in Asks
  BY HasDefaultAsks
<1>2. Asked(bag, data, key) = [bag EXCEPT ![a] = bag[a] + 1]
  BY DEF Asked
<1> HIDE DEF a
<1>3. Total([bag EXCEPT ![a] = bag[a] + 1]) = Total(bag) + 1
  BY <1>1, Counted
<1>4. Total(bag) \in Nat /\ [bag EXCEPT ![a] = bag[a] + 1] \in [Asks -> Nat]
  BY <1>1, Counted
<1> QED
  BY <1>2, <1>3, <1>4, DetailsAssumption DEF AsksOK

LEMMA TakenOK ==
    ASSUME AsksOK(asks), NEW a \in Asks, asks[a] > 0
    PROVE  LET rest == [asks EXCEPT ![a] = asks[a] - 1]
           IN  rest \in [Asks -> Nat] /\ Total(rest) < MaxAsks /\ AsksOK(rest)
<1>1. asks \in [Asks -> Nat] /\ Total(asks) \in Nat
  BY Counted DEF AsksOK
<1>2. /\ [asks EXCEPT ![a] = asks[a] - 1] \in [Asks -> Nat]
      /\ Total([asks EXCEPT ![a] = asks[a] - 1]) = Total(asks) - 1
  BY <1>1, Counted
<1> QED
  BY <1>1, <1>2, DetailsAssumption DEF AsksOK

LEMMA ExperimentRefusedStep ==
    ASSUME IInv, NEW a \in Asks, ExperimentRefused(a)
    PROVE  IInv'
<1>1. AsksOK(asks')
  BY TakenOK DEF ExperimentRefused, IInv
<1>2. VersionsOK(closures, faults', asked, posts)
  BY Failed DEF ExperimentRefused, IInv
<1> QED
  BY <1>1, <1>2, Together DEF ExperimentRefused, IInv, version

\* A dialogue that is refreshed with what is loaded.
LEMMA RefreshedOK ==
    ASSUME NEW d, NEW ps, NEW w, NEW t, NEW there, NEW next, NEW tt, NEW loaded \in BOOLEAN,
           DlgOK(d, ps, w, t, there),
           Loaded(w, t) => Loaded(next, tt), w.error = next.error, loaded = Loaded(next, tt)
    PROVE  DlgOK(Refreshed(d, loaded), ps, next, tt, there)
<1>1. d \in Dialogues
  BY DEF DlgOK
<1>2. CASE loaded /\ ~d.form /\ ~d.modal
  <2> DEFINE e == [d EXCEPT !.config = "fresh"]
  <2>1. Refreshed(d, loaded) = e
    BY <1>2 DEF Refreshed, FreshConfig
  <2>2. e = [form |-> d.form, modal |-> d.modal, config |-> "fresh"]
    BY <1>1, DialogueIs
  <2> HIDE DEF e
  <2>3. e.form = d.form /\ e.modal = d.modal /\ e.config = "fresh" /\ e \in Dialogues
    BY <1>1, <2>2 DEF Dialogues
  <2> QED
    BY <1>2, <2>1, <2>3 DEF DlgOK
<1>3. CASE ~(loaded /\ ~d.form /\ ~d.modal)
  BY <1>3 DEF Refreshed, DlgOK
<1> QED
  BY <1>2, <1>3

LEMMA ExperimentAnsweredStep ==
    ASSUME IInv, NEW a \in Asks, ExperimentAnswered(a)
    PROVE  IInv'
<1>1. AsksOK(asks')
  <2> DEFINE rest == [asks EXCEPT ![a] = asks[a] - 1]
  <2>1. rest \in [Asks -> Nat] /\ Total(rest) < MaxAsks /\ AsksOK(rest)
    BY TakenOK DEF ExperimentAnswered, IInv
  <2>2. asks' = rest \/ asks' = Asked(rest, view.data, TRUE)
    BY DEF ExperimentAnswered
  <2> HIDE DEF rest
  <2> QED
    BY <2>1, <2>2, AskedOK
<1>2. table' \in Tables /\ table'.experiment = TRUE
  <2> DEFINE default == IF a.default THEN Searched ELSE {}
             chosen == IF a.key THEN getWithDefault(table.stored, default) ELSE default
             x == [table EXCEPT !.experiment = TRUE]
  <2>1. table' = [x EXCEPT !.metrics = chosen]
    BY DEF ExperimentAnswered
  <2>2. table \in Tables
    BY DEF IInv
  <2>3. chosen \in Metrics
    BY <2>2 DEF Tables, Metrics, getWithDefault
  <2> HIDE DEF chosen
  <2>4. table.metrics \in Metrics /\ table.stored \in Metrics \cup {Unset}
    BY <2>2 DEF Tables
  <2>5. x \in [experiment : {TRUE}, metrics : {table.metrics}, stored : {table.stored}]
    BY <2>2 DEF Tables
  <2>6. x \in Tables /\ x.experiment = TRUE
    <3> HIDE DEF x
    <3> QED
      BY <2>4, <2>5 DEF Tables
  <2> HIDE DEF x
  <2> QED
    BY <2>1, <2>3, <2>6 DEF Tables
<1>3. Loaded(view, table) => Loaded(view, table')
  BY <1>2 DEF Loaded
<1>4. Loaded(view, table') \in BOOLEAN /\ dlg' = Refreshed(dlg, Loaded(view, table'))
  BY DEF Loaded, ExperimentAnswered
<1>5. DlgOK(dlg', posts, view, table', mounted)
  BY <1>3, <1>4, RefreshedOK DEF IInv
<1> QED
  BY <1>1, <1>2, <1>5, Together DEF ExperimentAnswered, IInv, version

-----------------------------------------------------------------------------
(* The page goes, or becomes that of another experiment. *)

\* What is kept behind a message, or of no page.
LEMMA BehindOK ==
    ASSUME IInv, Behind
    PROVE  AsksOK(asks') /\ table' \in Tables /\ dlg' = BlankDlg
<1>1. AsksOK(asks')
  <2>1. asks' \in [Asks -> Nat]
    BY DEF Behind, NoAsks
  <2>2. Total(asks') = 0
    BY DEF Behind, NoAsks, Total, Asks
  <2> QED
    BY <2>1, <2>2, DetailsAssumption DEF AsksOK
<1>2. table' \in Tables
  <2> DEFINE x == [table EXCEPT !.experiment = FALSE]
  <2>1. table' = [x EXCEPT !.metrics = {}]
    BY DEF Behind
  <2>2. x \in Tables
    BY DEF IInv, Tables
  <2> HIDE DEF x
  <2> QED
    BY <2>1, <2>2 DEF Tables, Metrics
<1> QED
  BY <1>1, <1>2 DEF Behind

LEMMA GoneStep ==
    ASSUME IInv, Gone, UNCHANGED <<page, route, server, faults, closures, fetches, asked>>
    PROVE  IInv'
<1>1. VersionsOK(closures, faults, asked, posts')
  BY Dropped DEF IInv, Gone
<1>2. ViewOK(view', server)
  BY DEF Gone, ViewOK, BlankView, Final, Ended
<1>3. LoopOK(poll', fetches, version)
  <2>1. version \in Nat
    BY DEF IInv, VersionsOK, version
  <2> QED
    BY <2>1, StoppedLoop DEF Gone, IInv
<1>4. AsksOK(asks') /\ table' \in Tables /\ dlg' = BlankDlg
  BY BehindOK DEF Gone
<1>5. DlgOK(dlg', posts', view', table', mounted')
  BY <1>4 DEF Gone, DlgOK, BlankDlg, Dialogues
<1>6. P!StillPolling(poll', mounted' /\ ~view'.seen)
  BY DEF Gone, P!StillPolling
<1> QED
  BY <1>1, <1>2, <1>3, <1>4, <1>5, <1>6, Together DEF Gone, IInv, version

\* A new function and its first call.
LEMMA NewFunction ==
    ASSUME IInv, NEW c \in Closures, closures' = Append(closures, c)
    PROVE  /\ Len(closures') = version + 1 /\ closures'[version + 1] = c
           /\ fetches \cup {Fetch(0, version + 1)} \subseteq Calls(version + 1)
           /\ \A f \in fetches \cup {Fetch(0, version + 1)} : CallOK(f, closures', server)
           /\ acts \subseteq Acts(version + 1)
<1>1. closures \in Seq(Closures) /\ version = Len(closures) /\ version \in Nat
  BY DEF IInv, VersionsOK, version
<1>2. /\ Len(closures') = version + 1 /\ closures'[version + 1] = c
      /\ Calls(version) \subseteq Calls(version + 1) /\ Acts(version) \subseteq Acts(version + 1)
  BY <1>1, Longer
<1>3. \A f \in fetches : CallOK(f, closures', server)
  BY <1>1, Longer DEF IInv
<1> DEFINE new == Fetch(0, version + 1)
<1>4. new \in Calls(version + 1) /\ new.at = "details"
  BY <1>1, DetailsAssumption DEF Fetch, Calls
<1> HIDE DEF new
<1>5. CallOK(new, closures', server)
  BY <1>4 DEF CallOK
<1>6. fetches \subseteq Calls(version) /\ acts \subseteq Acts(version)
  BY DEF IInv
<1> QED
  BY <1>2, <1>3, <1>4, <1>5, <1>6 DEF new

LEMMA CreatedStep ==
    ASSUME IInv, NEW p \in posts, Created(p)
    PROVE  IInv'
<1>1. p.n \in Nat
  BY DEF IInv, VersionsOK, Posts
<1>2. CASE page = "trial"
  BY <1>2, GoneStep DEF Created, routeAll
<1>3. CASE page = "experiment"
  <2> DEFINE c == [id |-> 2 + p.n, error |-> view.error]
             d == [dlg EXCEPT !.modal = FALSE]
  <2>1. /\ route' = 2 + p.n /\ closures' = Append(closures, c)
        /\ poll' = P!Changed(poll, version + 1)
        /\ fetches' = fetches \cup {Fetch(0, version + 1)}
        /\ dlg' = Refreshed(d, Loaded(view, table))
        /\ posts' = posts \ {p}
        /\ UNCHANGED <<mounted, asks, view, table, acts, page, server, faults, asked>>
    BY <1>3 DEF Created, routeAll
  <2>2. route' \in Ids /\ c \in Closures /\ c.error = view.error
    BY <1>1, <2>1 DEF Ids, Closures, IInv, ViewOK
  <2>3. dlg \in Dialogues /\ d = [form |-> dlg.form, modal |-> FALSE, config |-> dlg.config]
    BY DialogueIs DEF IInv, DlgOK
  <2> HIDE DEF c, d
  <2>4. VersionsOK(closures', faults, asked, posts')
    BY <2>1, <2>2, Unmade DEF IInv
  <2>5. /\ Len(closures') = version + 1 /\ closures'[version + 1] = c
        /\ fetches' \subseteq Calls(version + 1)
        /\ \A f \in fetches' : CallOK(f, closures', server)
        /\ acts \subseteq Acts(version + 1)
    BY <2>1, <2>2, NewFunction
  <2>6. LoopOK(poll', fetches', version + 1) /\ version + 1 \in poll'.awaiting
    <3>1. version \in Nat
      BY DEF IInv, VersionsOK, version
    <3> QED
      BY <2>1, <3>1, ChangedLoop DEF IInv
  <2>7. P!StillPolling(poll', mounted /\ ~view.seen)
    BY <2>6 DEF P!StillPolling
  <2>8. DlgOK(dlg', posts', view, table, mounted)
    <3> DEFINE q == dlg'
    <3>1. DlgOK(dlg, posts', view, table, mounted)
      BY <2>1 DEF IInv, DlgOK
    <3>2. d \in Dialogues /\ d.form = dlg.form /\ d.modal = FALSE /\ d.config = dlg.config
      BY <2>3 DEF Dialogues
    <3>3. CASE mounted /\ Loaded(view, table) /\ ~d.form
      <4>1. dlg' = [d EXCEPT !.config = "fresh"]
        BY <2>1, <3>2, <3>3 DEF Refreshed, FreshConfig
      <4>2. dlg' = [form |-> d.form, modal |-> d.modal, config |-> "fresh"]
        BY <3>2, <4>1, DialogueIs
      <4>3. dlg' \in Dialogues /\ dlg'.form = d.form /\ dlg'.modal = d.modal
            /\ dlg'.config = "fresh"
        BY <3>2, <4>2 DEF Dialogues
      <4> QED
        BY <3>1, <3>2, <3>3, <4>3 DEF DlgOK
    <3>4. CASE Loaded(view, table) /\ ~d.form /\ ~mounted
      <4>1. dlg' = [d EXCEPT !.config = "fresh"]
        BY <2>1, <3>2, <3>4 DEF Refreshed, FreshConfig
      <4>2. dlg' = [form |-> d.form, modal |-> d.modal, config |-> "fresh"]
        BY <3>2, <4>1, DialogueIs
      <4>3. dlg' \in Dialogues /\ dlg'.form = d.form /\ dlg'.modal = d.modal
            /\ dlg'.config = "fresh"
        BY <3>2, <4>2 DEF Dialogues
      <4> QED
        BY <3>1, <3>2, <3>4, <4>3 DEF DlgOK
    <3>5. CASE ~Loaded(view, table) \/ d.form
      <4>1. dlg' = d
        BY <2>1, <3>2, <3>5 DEF Refreshed
      <4> QED
        BY <3>1, <3>2, <3>5, <4>1 DEF DlgOK
    <3> QED
      BY <3>3, <3>4, <3>5
  <2>9. mounted => view.error = closures'[Len(closures')].error
    BY <2>2, <2>5
  <2> QED
    BY <2>1, <2>2, <2>4, <2>5, <2>6, <2>7, <2>8, <2>9, Together DEF IInv
<1> QED
  BY <1>2, <1>3 DEF IInv

-----------------------------------------------------------------------------
(* The calls of fetchDetails. *)

LEMMA AnsweredStep ==
    ASSUME IInv, NEW f \in fetches, Answered(f)
    PROVE  IInv'
<1> DEFINE now == Snapshot(closures[f.v].id)
           r == Reads(f)
           next == IF page = "experiment" THEN "trials" ELSE "last"
<1>1. /\ f \in Calls(version) /\ f.v \in 1..version /\ closures \in Seq(Closures)
      /\ version = Len(closures) /\ server \in Servers /\ CallOK(f, closures, server)
      /\ page \in {"experiment", "trial"} /\ f.at \in {"details", "trials"}
  BY DEF IInv, Calls, VersionsOK, version, Answered
<1>2. closures[f.v].id \in Ids
  <2>1. closures[f.v] \in Closures
    BY <1>1
  <2> QED
    BY <2>1 DEF Closures
<1>3. /\ now \in Answers /\ now.id = closures[f.v].id /\ now # Nothing
      /\ now.id = 1 => now.state = server.state /\ now.done = server.done
      /\ now.done \in 0..Len(Script)
  BY <1>1, <1>2, DetailsAssumption DEF Snapshot, Answers, Servers, Ids, Nothing, RunStates
<1> HIDE DEF now
<1>4. ASSUME f.at = "details"
      PROVE  r.by = f.by /\ r.v = f.v /\ r \in Calls(version) /\ CallOK(r, closures, server)
  <2> DEFINE x == [f EXCEPT !.data = now]
  <2>1. r = [x EXCEPT !.at = next]
    BY <1>4 DEF Reads, now
  <2>2. x \in [by : {f.by}, v : {f.v}, at : {f.at}, data : {now}, trials : {f.trials}]
    BY <1>1 DEF Calls
  <2> HIDE DEF x, r, next
  <2>3. r \in [by : {f.by}, v : {f.v}, at : {next}, data : {now}, trials : {f.trials}]
    BY <2>1, <2>2
  <2>4. r.by = f.by /\ r.v = f.v /\ r.at = next /\ r.data = now
    BY <2>3
  <2>5. f.by \in Nat /\ f.trials \in 0..Len(Script) /\ next \in {"trials", "last"}
    BY <1>1 DEF Calls, next
  <2>6. r \in Calls(version)
    BY <1>1, <1>3, <2>3, <2>5 DEF Calls
  <2>7. Ended(now) /\ now.id = 1 => server.state \in terminalRunStates
    BY <1>3 DEF Ended
  <2>8. next = "last" => page # "experiment"
    BY DEF next
  <2>9. CallOK(r, closures, server)
    BY <1>3, <2>4, <2>7, <2>8 DEF CallOK, Final
  <2> QED
    BY <2>4, <2>6, <2>9
<1>5. ASSUME f.at = "trials"
      PROVE  r.by = f.by /\ r.v = f.v /\ r \in Calls(version) /\ CallOK(r, closures, server)
  <2> DEFINE x == [f EXCEPT !.trials = now.done]
  <2>1. r = [x EXCEPT !.at = "last"]
    BY <1>5 DEF Reads, now
  <2>2. x \in [by : {f.by}, v : {f.v}, at : {f.at}, data : {f.data}, trials : {now.done}]
    BY <1>1 DEF Calls
  <2> HIDE DEF x, r
  <2>3. r \in [by : {f.by}, v : {f.v}, at : {"last"}, data : {f.data}, trials : {now.done}]
    BY <2>1, <2>2
  <2>4. r.by = f.by /\ r.v = f.v /\ r.at = "last" /\ r.data = f.data /\ r.trials = now.done
    BY <2>3
  <2>5. f.by \in Nat /\ f.data \in Answers \cup {Nothing}
    BY <1>1 DEF Calls
  <2>6. r \in Calls(version)
    BY <1>1, <1>3, <2>3, <2>5 DEF Calls
  <2>7. CallOK(r, closures, server)
    BY <1>1, <1>3, <1>5, <2>4 DEF CallOK, Final
  <2> QED
    BY <2>4, <2>6, <2>7
<1>6. r.by = f.by /\ r.v = f.v /\ r \in Calls(version) /\ CallOK(r, closures, server)
  BY <1>1, <1>4, <1>5
<1> HIDE DEF r
<1>7. fetches' = (fetches \ {f}) \cup {r}
  BY DEF Answered, r
<1>8. fetches' \subseteq Calls(version) /\ \A g \in fetches' : CallOK(g, closures, server)
  BY <1>6, <1>7 DEF IInv
<1>9. LoopOK(poll, fetches', version)
  BY <1>6, <1>7, ReplacedLoop DEF IInv
<1> QED
  BY <1>8, <1>9, Together DEF Answered, IInv, version

\* What the last answer makes of what is shown.
LEMMA ShowsOK ==
    ASSUME IInv, NEW f \in fetches, f.at = "last"
    PROVE  /\ ViewOK(Shows(f), server) /\ Shows(f).error = view.error
           /\ mounted => Shows(f).seen = (view.seen \/ Ended(f.data))
           /\ view.data # Nothing => Shows(f).data # Nothing
           /\ ~mounted => Shows(f) = view
<1>1. /\ f.data \in Answers /\ f.data # Nothing /\ Final(f.data, f.trials, server)
  BY DEF IInv, CallOK, Calls
<1>2. /\ view = [data |-> view.data, trials |-> view.trials, error |-> view.error,
                 seen |-> view.seen, top |-> view.top]
      /\ view.error \in BOOLEAN /\ view.seen \in BOOLEAN
      /\ view.error => view.data = Nothing
      /\ Final(view.data, view.trials, server)
  BY DEF IInv, ViewOK
<1> DEFINE w == Shows(f)
           e == Ended(f.data)
<1>3. CASE ~mounted
  <2>1. w = view
    BY <1>3 DEF Shows
  <2> QED
    BY <1>3, <2>1 DEF IInv
<1>4. CASE mounted /\ view.error
  <2> DEFINE s == view.seen \/ e
  <2>1. w = [view EXCEPT !.seen = s]
    BY <1>4 DEF Shows
  <2>2. s \in BOOLEAN /\ s = (view.seen \/ Ended(f.data))
    OBVIOUS
  <2> HIDE DEF w, s
  <2>3. w \in [data : {view.data}, trials : {view.trials}, error : {view.error}, seen : {s},
               top : {view.top}]
    BY <1>2, <2>1
  <2>4. w = [data |-> w.data, trials |-> w.trials, error |-> w.error, seen |-> w.seen,
             top |-> w.top]
    BY <2>3
  <2>5. w.data = view.data /\ w.trials = view.trials /\ w.error = view.error /\ w.seen = s
    BY <2>3
  <2>6. ViewOK(w, server)
    <3>1. w.data \in Answers \cup {Nothing}
      BY <2>5 DEF IInv, ViewOK
    <3>2. Final(w.data, w.trials, server)
      BY <1>2, <2>5
    <3>3. w.error \in BOOLEAN /\ w.seen \in BOOLEAN /\ (w.error => w.data = Nothing)
      BY <1>2, <2>2, <2>5
    <3> QED
      BY <2>4, <3>1, <3>2, <3>3 DEF ViewOK
  <2> QED
    BY <1>2, <1>4, <2>2, <2>5, <2>6 DEF w
<1>5. CASE mounted /\ ~view.error
  <2> DEFINE s == view.seen \/ e
             m == Max({view.top, f.data.id})
             a == [view EXCEPT !.data = f.data]
             b == [a EXCEPT !.trials = f.trials]
             c == [b EXCEPT !.seen = s]
  <2>1. w = [c EXCEPT !.top = m]
    BY <1>5 DEF Shows
  <2>2. s \in BOOLEAN /\ s = (view.seen \/ Ended(f.data))
    OBVIOUS
  <2> HIDE DEF w, s, m
  <2>3. a \in [data : {f.data}, trials : {view.trials}, error : {view.error}, seen : {view.seen},
               top : {view.top}]
    BY <1>2
  <2> HIDE DEF a
  <2>4. b \in [data : {f.data}, trials : {f.trials}, error : {view.error}, seen : {view.seen},
               top : {view.top}]
    BY <2>3
  <2> HIDE DEF b
  <2>5. c \in [data : {f.data}, trials : {f.trials}, error : {view.error}, seen : {s},
               top : {view.top}]
    BY <2>4
  <2> HIDE DEF c
  <2>6. w \in [data : {f.data}, trials : {f.trials}, error : {view.error}, seen : {s}, top : {m}]
    BY <2>1, <2>5
  <2>7. w = [data |-> w.data, trials |-> w.trials, error |-> w.error, seen |-> w.seen,
             top |-> w.top]
    BY <2>6
  <2>8. w.data = f.data /\ w.trials = f.trials /\ w.error = view.error /\ w.seen = s
    BY <2>6
  <2>9. ViewOK(w, server)
    <3>1. w.data \in Answers \cup {Nothing}
      BY <1>1, <2>8
    <3>2. Final(w.data, w.trials, server)
      BY <1>1, <2>8
    <3>3. w.error \in BOOLEAN /\ w.seen \in BOOLEAN /\ ~w.error
      BY <1>2, <1>5, <2>2, <2>8
    <3> QED
      BY <2>7, <3>1, <3>2, <3>3 DEF ViewOK
  <2> QED
    BY <1>1, <1>5, <2>2, <2>8, <2>9 DEF w
<1> QED
  BY <1>3, <1>4, <1>5 DEF IInv

\* The loop after the last answer, in either order of the effect and the routine.
LEMMA SettledLoop ==
    ASSUME IInv, NEW f \in fetches, NEW q,
           q = Routine(StopEffect(poll, f.data), f) \/ q = StopEffect(Routine(poll, f), f.data)
    PROVE  /\ LoopOK(q, fetches \ {f}, version)
           /\ ~(mounted /\ Ended(f.data)) => P!StillPolling(q, mounted /\ ~view.seen)
<1>1. version \in Nat /\ fetches \in SUBSET Calls(version) /\ LoopOK(poll, fetches, version)
      /\ P!StillPolling(poll, mounted /\ ~view.seen)
  BY DEF IInv, VersionsOK, version
<1>2. CASE mounted /\ Ended(f.data)
  <2>1. LoopOK(P!Stopped(poll), fetches, version)
    BY <1>1, StoppedLoop
  <2>2. LoopOK(Routine(P!Stopped(poll), f), fetches \ {f}, version)
    BY <1>1, <2>1, RoutineLoop
  <2>3. LoopOK(Routine(poll, f), fetches \ {f}, version)
    BY <1>1, RoutineLoop
  <2>4. LoopOK(P!Stopped(Routine(poll, f)), fetches \ {f}, version)
    BY <1>1, <2>3, StoppedLoop
  <2> QED
    BY <1>2, <2>2, <2>4 DEF StopEffect
<1>3. CASE ~(mounted /\ Ended(f.data))
  <2>1. q = Routine(poll, f)
    BY <1>3 DEF StopEffect
  <2>2. /\ LoopOK(q, fetches \ {f}, version)
        /\ IF f.by = 0 THEN q.pending # {} ELSE q = poll
    BY <1>1, <2>1, RoutineLoop
  <2>3. P!StillPolling(q, mounted /\ ~view.seen)
    BY <1>1, <2>2 DEF P!StillPolling
  <2> QED
    BY <2>2, <2>3
<1> QED
  BY <1>2, <1>3

LEMMA FetchDoneStep ==
    ASSUME IInv, NEW f \in fetches, FetchDone(f)
    PROVE  IInv'
<1>1. /\ f.at = "last" /\ fetches' = fetches \ {f} /\ view' = Shows(f)
      /\ UNCHANGED <<page, route, server, faults, closures, mounted, table, posts, acts, asked>>
  BY DEF FetchDone
<1>2. /\ ViewOK(view', server) /\ view'.error = view.error
      /\ mounted => view'.seen = (view.seen \/ Ended(f.data))
      /\ view.data # Nothing => view'.data # Nothing
      /\ ~mounted => view' = view
  BY <1>1, ShowsOK
<1>3. /\ LoopOK(poll', fetches', version)
      /\ ~(mounted /\ Ended(f.data)) => P!StillPolling(poll', mounted /\ ~view.seen)
  BY <1>1, SettledLoop DEF FetchDone
<1>4. P!StillPolling(poll', mounted /\ ~view'.seen)
  BY <1>2, <1>3 DEF P!StillPolling
<1>5. AsksOK(asks')
  <2>1. CASE page = "trial" /\ ~view.error
    <3>1. asks' = Asked(asks, f.data, table.experiment) /\ Total(asks) < MaxAsks
      BY <2>1 DEF FetchDone, Room
    <3>2. table.experiment \in BOOLEAN /\ asks \in [Asks -> Nat]
      BY DEF IInv, Tables, AsksOK
    <3> QED
      BY <3>1, <3>2, AskedOK
  <2>2. CASE ~(page = "trial" /\ ~view.error)
    BY <2>2 DEF FetchDone, IInv
  <2> QED
    BY <2>1, <2>2
<1>6. DlgOK(dlg', posts, view', table, mounted)
  <2>1. CASE mounted
    <3>1. dlg' = Refreshed(dlg, Loaded(view', table))
      BY <2>1 DEF FetchDone
    <3>2. Loaded(view', table) \in BOOLEAN /\ (Loaded(view, table) => Loaded(view', table))
      BY <1>2 DEF Loaded
    <3>3. DlgOK(dlg, posts, view, table, mounted)
      BY DEF IInv
    <3> QED
      BY <1>2, <3>1, <3>2, <3>3, RefreshedOK
  <2>2. CASE ~mounted
    BY <1>2, <2>2 DEF FetchDone, IInv
  <2> QED
    BY <2>1, <2>2
<1>7. fetches' \subseteq fetches
  BY <1>1
<1> QED
  BY <1>1, <1>2, <1>3, <1>4, <1>5, <1>6, <1>7, Together DEF IInv, version

\* An error makes a new function, before or after the old one goes on.
LEMMA FailedLoop ==
    ASSUME IInv, NEW f \in fetches, NEW q,
           \/ q = P!Changed(Routine(poll, f), version + 1)
           \/ q = Routine(P!Changed(poll, version + 1), f)
    PROVE  /\ LoopOK(q, (fetches \ {f}) \cup {Fetch(0, version + 1)}, version + 1)
           /\ q.pending \cup q.awaiting # {}
<1>1. /\ version \in Nat /\ fetches \in SUBSET Calls(version) /\ LoopOK(poll, fetches, version)
      /\ Calls(version) \subseteq Calls(version + 1)
  BY Longer DEF IInv, VersionsOK, version
<1> DEFINE new == Fetch(0, version + 1)
<1>2. CASE q = P!Changed(Routine(poll, f), version + 1)
  <2>1. LoopOK(Routine(poll, f), fetches \ {f}, version)
    BY <1>1, RoutineLoop
  <2>2. fetches \ {f} \in SUBSET Calls(version)
    BY <1>1
  <2> HIDE DEF new
  <2> QED
    BY <1>1, <1>2, <2>1, <2>2, ChangedLoop DEF new
<1>3. CASE q = Routine(P!Changed(poll, version + 1), f)
  <2> DEFINE c == P!Changed(poll, version + 1)
             fs == fetches \cup {new}
  <2>1. LoopOK(c, fs, version + 1) /\ version + 1 \in c.awaiting
    BY <1>1, ChangedLoop
  <2>2. new \in Calls(version + 1) /\ new # f
    <3>1. new.v = version + 1 /\ f.v \in 1..version
      BY <1>1 DEF Fetch, Calls
    <3>2. new \in Calls(version + 1)
      BY <1>1, DetailsAssumption DEF Fetch, Calls
    <3> QED
      BY <1>1, <3>1, <3>2
  <2> HIDE DEF new, c
  <2>3. fs \in SUBSET Calls(version + 1) /\ f \in fs /\ fs \ {f} = (fetches \ {f}) \cup {new}
    BY <1>1, <2>2
  <2> HIDE DEF fs
  <2>4. /\ LoopOK(q, fs \ {f}, version + 1)
        /\ IF f.by = 0 THEN q.pending # {} ELSE q = c
    <3>1. version + 1 \in Nat /\ q = Routine(c, f)
      BY <1>1, <1>3 DEF c
    <3> QED
      BY <2>1, <2>3, <3>1, RoutineLoop
  <2> QED
    BY <2>1, <2>3, <2>4 DEF new
<1> QED
  BY <1>2, <1>3

LEMMA FetchFailsStep ==
    ASSUME IInv, NEW f \in fetches, FetchFails(f)
    PROVE  IInv'
<1>1. UNCHANGED <<page, route, server, mounted, posts, acts, asked>>
  BY DEF FetchFails
<1>2. CASE mounted /\ ~closures[f.v].error
  <2> DEFINE c == [id |-> route, error |-> TRUE]
             x == [BlankView EXCEPT !.error = TRUE]
  <2>1. /\ view' = [x EXCEPT !.seen = view.seen] /\ Behind /\ closures' = Append(closures, c)
        /\ fetches' = (fetches \ {f}) \cup {Fetch(0, version + 1)}
        /\ \/ poll' = P!Changed(Routine(poll, f), version + 1)
           \/ poll' = Routine(P!Changed(poll, version + 1), f)
        /\ faults < MaxFaults /\ faults' = faults + 1
    BY <1>2 DEF FetchFails, Aborted
  <2>2. c \in Closures /\ c.error = TRUE
    BY DEF Closures, IInv
  <2>3. /\ view'.error = TRUE /\ view'.data = Nothing /\ ViewOK(view', server)
    <3>1. x \in [data : {Nothing}, trials : {0}, error : {TRUE}, seen : {FALSE}, top : {0}]
      BY DEF BlankView
    <3> HIDE DEF x
    <3>2. view' \in [data : {Nothing}, trials : {0}, error : {TRUE}, seen : {view.seen}, top : {0}]
      BY <2>1, <3>1
    <3>3. view.seen \in BOOLEAN
      BY DEF IInv, ViewOK
    <3>4. view' = [data |-> view'.data, trials |-> view'.trials, error |-> view'.error,
                   seen |-> view'.seen, top |-> view'.top]
      BY <3>2
    <3>5. view'.error = TRUE /\ view'.data = Nothing /\ view'.seen = view.seen
      BY <3>2
    <3> QED
      BY <3>3, <3>4, <3>5 DEF ViewOK, Final, Ended
  <2> HIDE DEF c, x
  <2>4. VersionsOK(closures', faults', asked, posts)
    BY <2>1, <2>2, Failed DEF IInv
  <2>5. /\ Len(closures') = version + 1 /\ closures'[version + 1] = c
        /\ fetches \cup {Fetch(0, version + 1)} \subseteq Calls(version + 1)
        /\ \A g \in fetches \cup {Fetch(0, version + 1)} : CallOK(g, closures', server)
        /\ acts \subseteq Acts(version + 1)
    BY <2>1, <2>2, NewFunction
  <2>6. /\ fetches' \subseteq Calls(version + 1) /\ \A g \in fetches' : CallOK(g, closures', server)
    BY <2>1, <2>5
  <2>7. LoopOK(poll', fetches', version + 1) /\ poll'.pending \cup poll'.awaiting # {}
    BY <2>1, FailedLoop
  <2>8. P!StillPolling(poll', mounted /\ ~view'.seen)
    BY <2>7 DEF P!StillPolling
  <2>9. AsksOK(asks') /\ table' \in Tables /\ dlg' = BlankDlg
    BY <2>1, BehindOK
  <2>10. DlgOK(dlg', posts, view', table', mounted)
    BY <2>3, <2>9 DEF DlgOK, BlankDlg, Dialogues, Loaded
  <2>11. mounted => view'.error = closures'[Len(closures')].error
    BY <2>2, <2>3, <2>5
  <2> QED
    BY <1>1, <2>3, <2>4, <2>5, <2>6, <2>7, <2>8, <2>9, <2>10, <2>11, Together DEF IInv
<1>3. CASE ~(mounted /\ ~closures[f.v].error)
  <2>1. /\ fetches' = fetches \ {f} /\ poll' = Routine(poll, f)
        /\ UNCHANGED <<view, closures, asks, dlg, table>>
    BY <1>3 DEF FetchFails
  <2>2. VersionsOK(closures, faults', asked, posts)
    BY Failed DEF FetchFails, IInv
  <2>3. /\ LoopOK(poll', fetches', version)
        /\ IF f.by = 0 THEN poll'.pending # {} ELSE poll' = poll
    <3>1. version \in Nat /\ fetches \in SUBSET Calls(version) /\ LoopOK(poll, fetches, version)
      BY DEF IInv, VersionsOK, version
    <3> QED
      BY <2>1, <3>1, RoutineLoop
  <2>4. P!StillPolling(poll', mounted /\ ~view.seen)
    BY <2>3 DEF P!StillPolling, IInv
  <2> QED
    BY <1>1, <2>1, <2>2, <2>3, <2>4, Together DEF IInv, version
<1> QED
  BY <1>2, <1>3

-----------------------------------------------------------------------------
(* The theorems. *)

\* Every step of the pages keeps the invariant (Details!Next).
LEMMA Inductive == IInv /\ [Next]_vars => IInv'
<1> SUFFICES ASSUME IInv, [Next]_vars PROVE IInv'
  OBVIOUS
<1>1. ASSUME NEW f \in fetches, FetchStep(f) PROVE IInv'
  BY <1>1, AnsweredStep, FetchDoneStep, FetchFailsStep DEF FetchStep
<1>2. ASSUME NEW v \in 1..version, TimerFires(v) PROVE IInv'
  BY <1>2, TimerStep
<1>3. ASSUME NEW a \in Asks, AskStep(a) PROVE IInv'
  BY <1>3, ExperimentAnsweredStep, ExperimentRefusedStep DEF AskStep
<1>4. CASE ExperimentInput \/ EditorInput
  BY <1>4, EditorSteps, CancelSteps, PostingSteps DEF ExperimentInput, EditorInput
<1>5. CASE TrialInput
  <2>1. {"acc"} \in Metrics
    BY DEF Metrics
  <2> QED
    BY <1>5, <2>1, handleMetricChangeStep, EditorSteps, CancelSteps, PostingSteps DEF TrialInput
<1>6. ASSUME NEW p \in posts, Created(p) \/ NotCreated(p) PROVE IInv'
  BY <1>6, CreatedStep, NotCreatedStep
<1>7. ASSUME NEW b \in Buttons, Click(b) PROVE IInv'
  BY <1>7, ClickStep
<1>8. ASSUME NEW a \in acts, ActDone(a) \/ ActRefused(a) PROVE IInv'
  BY <1>8, ActDoneStep, ActRefusedStep
<1>9. CASE Leave
  BY <1>9, GoneStep DEF Leave
<1>10. CASE Works
  BY <1>10, WorksStep
<1>11. CASE UNCHANGED vars
  BY <1>11, Together DEF vars, IInv, version
<1> QED
  BY <1>1, <1>2, <1>3, <1>4, <1>5, <1>6, <1>7, <1>8, <1>9, <1>10, <1>11 DEF Next

\* The invariant holds of every behaviour (ExperimentDetails, TrialDetails).
THEOREM Invariance == Spec => []IInv
  BY InitIInv, Inductive, PTL DEF Spec

\* What the invariant says of types: the pages never make more functions to
\* poll than there are errors and forks.
LEMMA InvariantTypes == IInv => TypeOK
<1> SUFFICES ASSUME IInv PROVE TypeOK
  OBVIOUS
<1>1. version \in 1..MaxVersions /\ faults \in 0..MaxFaults
  <2>1. Cardinality(posts) \in Nat
    BY FS_CardinalityType DEF IInv, VersionsOK
  <2> QED
    BY <2>1, DetailsAssumption DEF IInv, VersionsOK, version, MaxVersions
<1>2. poll \in Loops(version) /\ poll.awaiting = {f.v : f \in {g \in fetches : g.by = 0}}
  BY DEF IInv, LoopOK
<1>3. asks \in [Asks -> 0..MaxAsks]
  <2>1. asks \in [Asks -> Nat] /\ Total(asks) <= MaxAsks
    BY DEF IInv, AsksOK
  <2>2. ASSUME NEW a \in Asks PROVE asks[a] \in 0..MaxAsks
    <3>1. asks[a] \in Nat /\ asks[a] <= Total(asks) /\ Total(asks) \in Nat
      BY <2>1, Counted
    <3> QED
      BY <2>1, <3>1, DetailsAssumption
  <2> QED
    BY <2>1, <2>2
<1>4. dlg \in Dialogues
  BY DEF IInv, DlgOK
<1>5. table.metrics \in Metrics /\ table.stored \in Metrics \cup {Unset}
  BY DEF IInv, Tables
<1>6. /\ page \in {"experiment", "trial"} /\ mounted \in BOOLEAN /\ server \in Servers
      /\ mounted => view.error = closures[version].error
  BY DEF IInv
<1> QED
  BY <1>1, <1>2, <1>3, <1>4, <1>5, <1>6 DEF TypeOK, Loops, Dialogues, Servers

\* The pages are polled with one timer and one routine for each function until
\* an end was answered, an experiment that is shown as ended is shown with the
\* trials it ended with, and no dialogue posts what cannot be read (usePolling,
\* ExperimentDetails, CreateExperimentModal).
THEOREM PagesKeepUp ==
    Spec => [](TypeOK /\ PollsUntilEnd /\ EndedShowsAllTrials /\ PostsAreConfigs)
<1>1. IInv => TypeOK
  BY InvariantTypes
<1>2. IInv => PollsUntilEnd
  BY DEF IInv, LoopOK, PollsUntilEnd
<1>3. IInv => EndedShowsAllTrials
  BY DEF IInv, ViewOK, Final, EndedShowsAllTrials
<1>4. IInv => PostsAreConfigs
  BY DEF IInv, VersionsOK, Posts, PostsAreConfigs
<1> QED
  BY <1>1, <1>2, <1>3, <1>4, Invariance, PTL

\* What is refreshed is as it was while a dialogue is open, before or after.
LEMMA RefreshedKeeps ==
    ASSUME NEW d \in Dialogues, NEW loaded
    PROVE  LET r == Refreshed(d, loaded)
           IN  (d.form \/ d.modal) \/ (r.form \/ r.modal) => r = d
<1> DEFINE r == Refreshed(d, loaded)
<1>1. CASE loaded /\ ~d.form /\ ~d.modal
  <2>1. r = [form |-> d.form, modal |-> d.modal, config |-> "fresh"]
    BY <1>1, DialogueIs DEF Refreshed, FreshConfig
  <2> HIDE DEF r
  <2>2. ~(r.form \/ r.modal)
    BY <1>1, <2>1
  <2> QED
    BY <1>1, <2>2 DEF r
<1>2. CASE ~(loaded /\ ~d.form /\ ~d.modal)
  BY <1>2 DEF Refreshed
<1> QED
  BY <1>1, <1>2

\* One step, for EditsSurvive.
Survives == (dlg.form \/ dlg.modal) /\ (dlg'.form \/ dlg'.modal) /\ dlg.config # "fresh"
                => dlg'.config # "fresh"

LEMMA EditStep == IInv /\ Next => Survives
<1> SUFFICES ASSUME IInv, Next PROVE Survives
  OBVIOUS
<1>1. dlg \in Dialogues
  BY DEF IInv, DlgOK
<1>2. CASE dlg' = dlg
  BY <1>2 DEF Survives
<1>3. ASSUME NEW loaded, dlg' = Refreshed(dlg, loaded)
      PROVE  Survives
  BY <1>1, <1>3, RefreshedKeeps DEF Survives
<1>4. CASE Behind
  BY <1>4 DEF Behind, BlankDlg, Survives
<1>5. ASSUME NEW f \in fetches, FetchStep(f) PROVE Survives
  BY <1>2, <1>3, <1>4, <1>5 DEF FetchStep, Answered, FetchDone, FetchFails
<1>6. ASSUME NEW a \in Asks, AskStep(a) PROVE Survives
  BY <1>2, <1>3, <1>6 DEF AskStep, ExperimentAnswered, ExperimentRefused
<1>7. CASE showForkModal \/ handleActionClick
  BY <1>7 DEF showForkModal, handleActionClick, Bare, Survives
<1>8. CASE editorOnChange
  <2>1. PICK c \in {"typed", "bad"} : dlg' = [dlg EXCEPT !.config = c]
    BY <1>8 DEF editorOnChange, SetDlg
  <2> QED
    BY <1>1, <2>1, DialogueIs DEF Survives
<1>9. CASE handleContFormCancel \/ handleCancel
  <2> DEFINE x == [dlg EXCEPT !.form = FALSE]
             y == [dlg EXCEPT !.modal = FALSE]
  <2>1. x \in Dialogues /\ x.config = dlg.config /\ y \in Dialogues /\ y.config = dlg.config
    BY <1>1 DEF Dialogues
  <2>2. dlg' = Refreshed(x, TRUE) \/ dlg' = Refreshed(y, TRUE)
    BY <1>9 DEF handleContFormCancel, handleCancel, SetDlg
  <2> HIDE DEF x, y
  <2>3. PICK z \in Dialogues : z.config = dlg.config /\ dlg' = Refreshed(z, TRUE)
    BY <2>1, <2>2
  <2>4. dlg'.form \/ dlg'.modal => dlg' = z
    BY <2>3, RefreshedKeeps
  <2> QED
    BY <2>3, <2>4 DEF Survives
<1>10. CASE handleEditContConfig \/ handleFormCreate
  <2> DEFINE u == updateStatesFromForm(dlg)
             x == [u EXCEPT !.form = FALSE]
  <2>1. u \in Dialogues /\ (dlg.config # "fresh" => u.config # "fresh")
    BY <1>1 DEF updateStatesFromForm, Dialogues
  <2>2. dlg' = u \/ dlg' = [x EXCEPT !.modal = TRUE]
    BY <1>10 DEF handleEditContConfig, handleFormCreate, SetDlg
  <2> HIDE DEF u
  <2>3. x \in Dialogues /\ x.config = u.config
    BY <2>1 DEF Dialogues
  <2> HIDE DEF x
  <2>4. [x EXCEPT !.modal = TRUE].config = x.config
    BY <2>3 DEF Dialogues
  <2> QED
    BY <2>1, <2>2, <2>3, <2>4 DEF Survives
<1>11. CASE handleOk \/ handleMetricChange({"acc"})
  BY <1>2, <1>11 DEF handleOk, handleMetricChange, SetDlg
<1>12. ASSUME NEW p \in posts, Created(p) PROVE Survives
  <2>1. CASE page = "experiment"
    <3> DEFINE y == [dlg EXCEPT !.modal = FALSE]
    <3>1. y \in Dialogues /\ y.config = dlg.config
      BY <1>1 DEF Dialogues
    <3>2. dlg' = Refreshed(y, Loaded(view, table))
      BY <1>12, <2>1 DEF Created, routeAll
    <3> HIDE DEF y
    <3> QED
      BY <3>1, <3>2, RefreshedKeeps DEF Survives
  <2>2. CASE page # "experiment"
    BY <1>4, <1>12, <2>2 DEF Created, routeAll, Gone
  <2> QED
    BY <2>1, <2>2
<1>13. ASSUME NEW p \in posts, NotCreated(p) PROVE Survives
  <2> DEFINE x == [dlg EXCEPT !.modal = TRUE]
  <2>1. dlg' = dlg \/ dlg' = [x EXCEPT !.form = FALSE]
    BY <1>13 DEF NotCreated
  <2>2. x \in Dialogues /\ x.config = dlg.config
    BY <1>1 DEF Dialogues
  <2> HIDE DEF x
  <2>3. [x EXCEPT !.form = FALSE].config = x.config
    BY <2>2 DEF Dialogues
  <2> QED
    BY <2>1, <2>2, <2>3 DEF Survives
<1>14. CASE Leave
  BY <1>4, <1>14 DEF Leave, Gone
<1>15. ASSUME NEW v \in 1..version, TimerFires(v) PROVE Survives
  BY <1>2, <1>15 DEF TimerFires
<1>16. ASSUME NEW b \in Buttons, Click(b) PROVE Survives
  BY <1>2, <1>16 DEF Click
<1>17. ASSUME NEW a \in acts, ActDone(a) \/ ActRefused(a) PROVE Survives
  BY <1>2, <1>17 DEF ActDone, ActRefused
<1>18. CASE Works
  BY <1>2, <1>18 DEF Works
<1> QED
  BY <1>5, <1>6, <1>7, <1>8, <1>9, <1>10, <1>11, <1>12, <1>13, <1>14, <1>15, <1>16, <1>17, <1>18
     DEF Next, ExperimentInput, TrialInput, EditorInput

\* What the user has put into an open dialogue survives every answer, every
\* poll and the change of the form into the editor (setFreshForkConfig,
\* setFreshContinueConfig, updateStatesFromForm).
THEOREM EditsAreKept == Spec => EditsSurvive
<1>1. IInv /\ [Next]_vars => [Survives]_vars
  BY EditStep
<1>2. EditsSurvive <=> [][Survives]_vars
  BY DEF EditsSurvive, Survives
<1> QED
  BY <1>1, <1>2, Invariance, PTL DEF Spec

-----------------------------------------------------------------------------
(* The table of steps, by induction on the number of workloads. *)

\* Induction, for a set of natural numbers.
LEMMA SetInduction ==
    ASSUME NEW S \in SUBSET Nat, 0 \in S, \A n \in S : n + 1 \in S
    PROVE  S = Nat
<1> SUFFICES ASSUME Nat \ S # {} PROVE FALSE
  OBVIOUS
<1> DEFINE R == OpToRel(<, Nat)
           T == Nat \ S
<1>1. IsWellFoundedOn(R, Nat)
  BY NatLessThanWellFounded
<1>2. \A x, y \in Nat : <<y, x>> \in R <=> y < x
  BY DEF OpToRel
<1>3. T \subseteq Nat /\ T # {}
  OBVIOUS
<1> HIDE DEF R
<1>4. PICK x \in T : \A y \in T : ~ (<<y, x>> \in R)
  <2> HIDE DEF T
  <2> QED
    BY <1>1, <1>3, WFMin
<1>5. \A y \in T : ~ (y < x)
  BY <1>2, <1>4
<1>6. x - 1 \in S
  BY <1>5
<1> QED
  BY <1>4, <1>6

\* f gives the tables of the first workloads, up to m of them.
TablesTo(f, ws, m) ==
    f = [n \in 0..m |-> IF n = 0 THEN <<>> ELSE Added(f[n-1], getBatchNumber(ws[n]), ws[n])]

\* Such a function exists.
LEMMA TablesExist == \A ws : \A m \in Nat : \E f : TablesTo(f, ws, m)
<1> TAKE ws
<1> DEFINE S == {k \in Nat : \E f : TablesTo(f, ws, k)}
           After(t, n) == Added(t, getBatchNumber(ws[n]), ws[n])
<1>1. 0 \in S
  <2>1. TablesTo([n \in 0..0 |-> <<>>], ws, 0)
    BY DEF TablesTo
  <2> QED
    BY <2>1
<1>2. ASSUME NEW k \in S PROVE k + 1 \in S
  <2>1. k \in Nat
    OBVIOUS
  <2>2. PICK f : TablesTo(f, ws, k)
    OBVIOUS
  <2> DEFINE g == [n \in 0..(k + 1) |-> IF n = k + 1 THEN After(f[k], k + 1) ELSE f[n]]
  <2>3. \A n \in 0..k : f[n] = IF n = 0 THEN <<>> ELSE After(f[n-1], n)
    BY <2>1, <2>2 DEF TablesTo
  <2> HIDE DEF After
  <2>4. \A n \in 0..(k + 1) : g[n] = IF n = 0 THEN <<>> ELSE After(g[n-1], n)
    BY <2>1, <2>3
  <2>5. g = [n \in 0..(k + 1) |-> IF n = 0 THEN <<>> ELSE After(g[n-1], n)]
    BY <2>4
  <2>6. TablesTo(g, ws, k + 1)
    BY <2>5 DEF TablesTo, After
  <2> QED
    BY <2>1, <2>6
<1>3. S \in SUBSET Nat
  OBVIOUS
<1> HIDE DEF S
<1>4. S = Nat
  BY <1>1, <1>2, <1>3, SetInduction
<1> QED
  BY <1>4 DEF S

\* The workloads of kind k that ended at batch b, among the first n.
EndedAt(ws, n, b, k) == {i \in 1..n : ws[i].kind = k /\ getBatchNumber(ws[i]) = b}

\* i is the last of them.
LastAt(ws, n, b, k, i) == i \in EndedAt(ws, n, b, k) /\ \A j \in EndedAt(ws, n, b, k) : i >= j

\* The table of the first n workloads.
RowsOK(steps, ws, n) ==
    /\ DOMAIN steps = {getBatchNumber(ws[i]) : i \in 1..n}
    /\ \A b \in DOMAIN steps :
          /\ DOMAIN steps[b] = {k \in Kinds : EndedAt(ws, n, b, k) # {}}
          /\ \A k \in DOMAIN steps[b] : \E i \in 1..n : LastAt(ws, n, b, k, i) /\ steps[b][k] = ws[i]

\* One more workload: its row has it, and every other entry stays.
LEMMA AddedRows ==
    ASSUME NEW ws, NEW n \in Nat, ws[n+1].kind \in Kinds, NEW steps, RowsOK(steps, ws, n)
    PROVE  RowsOK(Added(steps, getBatchNumber(ws[n+1]), ws[n+1]), ws, n + 1)
<1> DEFINE w == ws[n+1]
           b == getBatchNumber(w)
           row == IF b \in DOMAIN steps THEN steps[b] ELSE <<>>
           step == [k \in DOMAIN row \cup {w.kind} |-> IF k = w.kind THEN w ELSE row[k]]
           next == [c \in DOMAIN steps \cup {b} |-> IF c = b THEN step ELSE steps[c]]
<1>1. Added(steps, b, w) = next
  BY DEF Added
<1>2. 1..(n + 1) = 1..n \cup {n + 1} /\ n + 1 \notin 1..n
  OBVIOUS
<1>3. DOMAIN next = {getBatchNumber(ws[i]) : i \in 1..(n + 1)}
  BY <1>2 DEF RowsOK
<1>4. \A c, k : EndedAt(ws, n + 1, c, k)
                  = EndedAt(ws, n, c, k) \cup (IF c = b /\ k = w.kind THEN {n + 1} ELSE {})
  BY <1>2 DEF EndedAt
<1>5. \A c, k, i : LastAt(ws, n, c, k, i) /\ ~(c = b /\ k = w.kind) => LastAt(ws, n + 1, c, k, i)
  BY <1>4 DEF LastAt
<1>6. LastAt(ws, n + 1, b, w.kind, n + 1)
  <2>1. n + 1 \in EndedAt(ws, n + 1, b, w.kind)
    BY <1>4
  <2>2. \A j \in EndedAt(ws, n + 1, b, w.kind) : j \in 1..(n + 1)
    BY DEF EndedAt
  <2> QED
    BY <2>1, <2>2 DEF LastAt
<1>7. /\ DOMAIN row = {k \in Kinds : EndedAt(ws, n, b, k) # {}}
      /\ \A k \in DOMAIN row : \E i \in 1..n : LastAt(ws, n, b, k, i) /\ row[k] = ws[i]
  <2>1. CASE b \in DOMAIN steps
    BY <2>1 DEF RowsOK
  <2>2. CASE b \notin DOMAIN steps
    <3>1. \A k : EndedAt(ws, n, b, k) = {}
      BY <2>2 DEF RowsOK, EndedAt
    <3>2. row = <<>> /\ DOMAIN row = {}
      BY <2>2
    <3> QED
      BY <3>1, <3>2
  <2> QED
    BY <2>1, <2>2
<1> HIDE DEF row, w, b
<1>8. /\ DOMAIN step = {k \in Kinds : EndedAt(ws, n + 1, b, k) # {}}
      /\ \A k \in DOMAIN step :
            \E i \in 1..(n + 1) : LastAt(ws, n + 1, b, k, i) /\ step[k] = ws[i]
  <2>1. w.kind \in Kinds /\ w = ws[n+1]
    BY DEF w
  <2>2. DOMAIN step = {k \in Kinds : EndedAt(ws, n + 1, b, k) # {}}
    BY <1>4, <1>7, <2>1
  <2>3. ASSUME NEW k \in DOMAIN step
        PROVE  \E i \in 1..(n + 1) : LastAt(ws, n + 1, b, k, i) /\ step[k] = ws[i]
    <3>1. CASE k = w.kind
      BY <1>2, <1>6, <2>1, <3>1
    <3>2. CASE k # w.kind
      <4>1. k \in DOMAIN row /\ step[k] = row[k]
        BY <3>2
      <4>2. PICK i \in 1..n : LastAt(ws, n, b, k, i) /\ row[k] = ws[i]
        BY <1>7, <4>1
      <4> QED
        BY <1>2, <1>5, <3>2, <4>1, <4>2
    <3> QED
      BY <3>1, <3>2
  <2> QED
    BY <2>2, <2>3
<1> HIDE DEF step
<1>9. ASSUME NEW c \in DOMAIN next
      PROVE  /\ DOMAIN next[c] = {k \in Kinds : EndedAt(ws, n + 1, c, k) # {}}
             /\ \A k \in DOMAIN next[c] :
                   \E i \in 1..(n + 1) : LastAt(ws, n + 1, c, k, i) /\ next[c][k] = ws[i]
  <2>1. CASE c = b
    BY <1>8, <2>1
  <2>2. CASE c # b
    <3>1. c \in DOMAIN steps /\ next[c] = steps[c]
      BY <2>2
    <3>2. \A k : EndedAt(ws, n + 1, c, k) = EndedAt(ws, n, c, k)
      BY <1>4, <2>2
    <3>3. \A k \in DOMAIN steps[c] :
             \E i \in 1..(n + 1) : LastAt(ws, n + 1, c, k, i) /\ steps[c][k] = ws[i]
      BY <1>2, <1>5, <2>2, <3>1 DEF RowsOK
    <3>4. DOMAIN steps[c] = {k \in Kinds : EndedAt(ws, n + 1, c, k) # {}}
      BY <3>1, <3>2 DEF RowsOK
    <3> QED
      BY <3>1, <3>3, <3>4
  <2> QED
    BY <2>1, <2>2
<1> HIDE DEF next
<1> QED
  BY <1>1, <1>3, <1>9 DEF RowsOK, w, b

\* The table of a trial, however long: a row for every number of batches at
\* which a workload ended, and in it the last of each kind (workloadsToSteps).
THEOREM TableOfSteps ==
    ASSUME NEW ws, Len(ws) \in Nat, \A i \in 1..Len(ws) : ws[i].kind \in Kinds
    PROVE  RowsOK(workloadsToSteps(ws), ws, Len(ws))
<1> DEFINE L == Len(ws)
           t == CHOOSE f : TablesTo(f, ws, L)
<1>1. workloadsToSteps(ws) = t[L]
  BY DEF workloadsToSteps, TablesTo
<1>2. TablesTo(t, ws, L)
  BY TablesExist
<1> HIDE DEF t
<1>3. \A n \in 0..L : t[n] = IF n = 0 THEN <<>> ELSE Added(t[n-1], getBatchNumber(ws[n]), ws[n])
  BY <1>2 DEF TablesTo
<1> DEFINE S == {n \in Nat : n <= L => RowsOK(t[n], ws, n)}
<1>4. 0 \in S
  <2>1. t[0] = <<>> /\ DOMAIN t[0] = {}
    BY <1>3
  <2>2. {getBatchNumber(ws[i]) : i \in 1..0} = {}
    OBVIOUS
  <2>3. RowsOK(t[0], ws, 0)
    BY <2>1, <2>2 DEF RowsOK
  <2> QED
    BY <2>3
<1>5. ASSUME NEW n \in S PROVE n + 1 \in S
  <2>1. n \in Nat
    OBVIOUS
  <2>2. CASE n + 1 <= L
    <3>1. RowsOK(t[n], ws, n) /\ ws[n+1].kind \in Kinds
      BY <2>1, <2>2
    <3>2. t[n+1] = Added(t[n], getBatchNumber(ws[n+1]), ws[n+1])
      BY <1>3, <2>1, <2>2
    <3>3. RowsOK(t[n+1], ws, n + 1)
      BY <2>1, <3>1, <3>2, AddedRows
    <3> QED
      BY <2>1, <3>3
  <2>3. CASE ~(n + 1 <= L)
    BY <2>1, <2>3
  <2> QED
    BY <2>2, <2>3
<1>6. S \in SUBSET Nat
  OBVIOUS
<1> HIDE DEF S
<1>7. L \in S
  BY <1>4, <1>5, <1>6, SetInduction
<1> QED
  BY <1>1, <1>7 DEF S

LEMMA StepsAreComplete == StepsComplete
<1> SUFFICES ASSUME NEW ws \in BoundedSeq([kind : Kinds, numBatches : 0..2, prior : 0..1], 3)
             PROVE  LET steps == workloadsToSteps(ws)
                        At(b, k) == {i \in DOMAIN ws : ws[i].kind = k
                                                       /\ ws[i].numBatches + ws[i].prior = b}
                    IN  /\ DOMAIN steps = {ws[i].numBatches + ws[i].prior : i \in DOMAIN ws}
                        /\ \A b \in DOMAIN steps :
                              /\ DOMAIN steps[b] = {k \in Kinds : At(b, k) # {}}
                              /\ \A k \in DOMAIN steps[b] : steps[b][k] = ws[Max(At(b, k))]
  BY DEF StepsComplete
<1> DEFINE steps == workloadsToSteps(ws)
           At(b, k) == {i \in DOMAIN ws : ws[i].kind = k /\ ws[i].numBatches + ws[i].prior = b}
<1>1. PICK m \in 0..3 : ws \in [1..m -> [kind : Kinds, numBatches : 0..2, prior : 0..1]]
  BY DEF BoundedSeq, SeqOf
<1>2. DOMAIN ws = 1..m /\ Len(ws) = m
  BY <1>1
<1>3. RowsOK(steps, ws, m)
  <2>1. \A i \in 1..m : ws[i].kind \in Kinds
    BY <1>1
  <2> QED
    BY <1>2, <2>1, TableOfSteps
<1>4. \A b, k : At(b, k) = EndedAt(ws, m, b, k)
  BY <1>2 DEF EndedAt, getBatchNumber
<1>5. ASSUME NEW b, NEW k, NEW i \in 1..m, LastAt(ws, m, b, k, i)
      PROVE  Max(At(b, k)) = i
  <2>1. At(b, k) = EndedAt(ws, m, b, k) /\ At(b, k) \subseteq 1..m
    BY <1>2, <1>4
  <2> HIDE DEF At
  <2>2. i \in At(b, k) /\ \A j \in At(b, k) : i >= j
    BY <1>5, <2>1 DEF LastAt
  <2>3. \A x \in At(b, k) : (\A y \in At(b, k) : x >= y) => x = i
    BY <2>1, <2>2
  <2> QED
    BY <2>2, <2>3 DEF Max
<1> HIDE DEF steps
<1>6. DOMAIN steps = {ws[i].numBatches + ws[i].prior : i \in DOMAIN ws}
  BY <1>2, <1>3 DEF RowsOK, getBatchNumber
<1>7. ASSUME NEW b \in DOMAIN steps
      PROVE  /\ DOMAIN steps[b] = {k \in Kinds : At(b, k) # {}}
             /\ \A k \in DOMAIN steps[b] : steps[b][k] = ws[Max(At(b, k))]
  <2> HIDE DEF At
  <2>1. DOMAIN steps[b] = {k \in Kinds : At(b, k) # {}}
    BY <1>3, <1>4 DEF RowsOK
  <2>2. ASSUME NEW k \in DOMAIN steps[b]
        PROVE  steps[b][k] = ws[Max(At(b, k))]
    <3>1. PICK i \in 1..m : LastAt(ws, m, b, k, i) /\ steps[b][k] = ws[i]
      BY <1>3 DEF RowsOK
    <3> QED
      BY <1>5, <3>1
  <2> QED
    BY <2>1, <2>2
<1> QED
  BY <1>6, <1>7 DEF steps

\* What is shown can be relied on: it is polled until it has ended, an end comes
\* with everything that belongs to it, the table has a row for every workload,
\* and only configurations are posted (ExperimentDetails, TrialDetails).
THEOREM PagesAreReliable == Spec => []PagesReliable
<1>1. StepsComplete
  BY StepsAreComplete
<1> QED
  BY <1>1, PagesKeepUp, PTL DEF PagesReliable
=============================================================================
