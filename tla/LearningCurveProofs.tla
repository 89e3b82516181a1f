------------------------ MODULE LearningCurveProofs ------------------------
(***************************************************************************)
(* What is proved about LearningCurve: for every set of trials and any     *)
(* number of values, messages on the wire, changes and broken streams, no  *)
(* message of the master makes the page's handler fail, and a page that    *)
(* has caught up draws the master's trials with every value sent.          *)
(***************************************************************************)
EXTENDS LearningCurve, FiniteSetTheorems, TLAPS

(* Messages: a sample of each trial that is among the best. *)
Samples == [hparams : BOOLEAN, data : SUBSET Nat]
Messages ==
    [promoted : SUBSET Trials, demoted : SUBSET Trials,
     trials : UNION {[T -> Samples] : T \in SUBSET Trials}]
Data == UNION {[T -> SUBSET Nat] : T \in SUBSET Trials}

\* The trials a message with number i follows: those of the message before,
\* or of what the page has kept.
Before(k, w, i) == IF i = 1 THEN k.ids ELSE DOMAIN w[i - 1].trials

\* What the page has of trial t, or has on its way.
Sent(k, w, t) ==
    {n \in Nat : \/ t \in DOMAIN k.data /\ n \in k.data[t]
                 \/ \E i \in DOMAIN w : t \in DOMAIN w[i].trials /\ n \in w[i].trials[t].data}
-----------------------------------------------------------------------------
(* Types. *)
StreamTyped(s) ==
    s \in [st : {"none", "open", "broken"}, metric : Metrics \cup {None, "other"},
           max : Options \cup {0}, current : SUBSET Trials, cursors : [Trials -> 0..MaxPoints],
           phase : {"query", "check", "done"}, wire : Seq(Messages)]

KeptTyped(k) == k \in [ids : SUBSET Trials, hps : SUBSET Trials, data : Data]

Pages ==
    [ids : Seq(Trials), chart : Seq(SUBSET Nat), hps : SUBSET Trials, loaded : BOOLEAN,
     of : Metrics \cup {None, "other"}, selected : Metrics \cup {None, "other"}, max : Options,
     shown : BOOLEAN, error : BOOLEAN, focus : Nat]

PageTyped(u) ==
    /\ u \in Pages
    /\ DOMAIN u.chart = DOMAIN u.ids
    /\ u.loaded <=> u.of # None

NamesTyped ==
    /\ names \in [st : {"query", "check", "done"}, sent : SUBSET Metrics, offered : SUBSET Metrics]
    /\ names.offered \subseteq names.sent
    /\ ended \in BOOLEAN /\ due \in BOOLEAN /\ changes \in Nat /\ faults \in Nat

\* The messages of a stream follow one another: each has the difference to the
\* one before and the hyperparameters of the trials that are new, and the
\* last one has the trials the master takes for current.
WireOK(s, k) ==
    /\ \A i \in DOMAIN s.wire :
          LET e == s.wire[i] IN
          /\ e.promoted = DOMAIN e.trials \ Before(k, s.wire, i)
          /\ e.demoted = Before(k, s.wire, i) \ DOMAIN e.trials
          /\ \A t \in DOMAIN e.trials \ Before(k, s.wire, i) : e.trials[t].hparams
    /\ s.current = Before(k, s.wire, Len(s.wire) + 1)

\* What is kept of the trials is enough for the handler.
KeptOK(k) ==
    /\ k.ids \subseteq k.hps /\ k.ids \subseteq DOMAIN k.data
    /\ \A t \in DOMAIN k.data : k.data[t] # {} => t \in k.hps

\* Every value up to a cursor was sent, and the demoted have none.
CursorsOK(pts, s, k) ==
    /\ \A t \in s.current : s.cursors[t] <= pts[t] /\ 1..s.cursors[t] \subseteq Sent(k, s.wire, t)
    /\ \A t \in Trials \ s.current : s.cursors[t] = 0

StreamOK(pts, s, k) ==
    s.st = "open" => s.metric # None /\ WireOK(s, k) /\ KeptOK(k) /\ CursorsOK(pts, s, k)

\* What is drawn is what was kept, unless effects are to run.
DrawnOK(s, k, u, d) ==
    s.st = "open" /\ ~d /\ u.loaded /\ k # NothingKept
      => /\ u.ids = Sorted(k.ids)
         /\ \A i \in DOMAIN u.ids : u.chart[i] = k.data[u.ids[i]]

IInv ==
    /\ points \in [Trials -> 0..MaxPoints]
    /\ StreamTyped(stream) /\ KeptTyped(kept) /\ PageTyped(ui) /\ NamesTyped
    /\ StreamOK(points, stream, kept)
    /\ DrawnOK(stream, kept, ui, due)
    /\ due => ui.shown
    /\ ui.error => faults > 0

-----------------------------------------------------------------------------
(* The operators. *)

\* Every member of a finite set of numbers has its place in Sorted, and every
\* place has a member.
LEMMA SortedOK ==
    ASSUME NEW S, S \subseteq Nat, IsFiniteSet(S)
    PROVE  Sorted(S) \in Seq(S) /\ ToSet(Sorted(S)) = S
<1> DEFINE place == [t \in S |-> Cardinality({u \in S : u <= t})]
           n == Cardinality(S)
<1>1. n \in Nat /\ IsFiniteSet(1..n) /\ Cardinality(1..n) = n
    BY FS_CardinalityType, FS_Interval
<1>2. ASSUME NEW t \in S
      PROVE  place[t] \in 1..n
    <2> DEFINE U == {u \in S : u <= t}
    <2>1. IsFiniteSet(U) /\ Cardinality(U) <= n /\ Cardinality(U) \in Nat
        BY FS_Subset, FS_CardinalityType
    <2>2. t \in U
        BY <1>2
    <2>3. Cardinality(U) # 0
        <3> HIDE DEF U
        <3> QED BY <2>1, <2>2, FS_EmptySet
    <2>4. place[t] = Cardinality(U)
        OBVIOUS
    <2> HIDE DEF U, place, n
    <2> QED BY <1>1, <2>1, <2>3, <2>4
<1>3. ASSUME NEW t \in S, NEW v \in S, t < v
      PROVE  place[t] # place[v]
    <2> DEFINE T == {u \in S : u <= t}
               V == {u \in S : u <= v}
    <2>0. t \in Nat /\ v \in Nat /\ \A u \in S : u \in Nat
        OBVIOUS
    <2>1. /\ \A u \in S : u <= t => u <= v
          /\ v <= v /\ ~(v <= t)
        BY <1>3, <2>0
    <2>4. T \subseteq V /\ v \in V /\ v \notin T
        BY <2>1
    <2>2. IsFiniteSet(V)
        BY FS_Subset
    <2>3. place[t] = Cardinality(T) /\ place[v] = Cardinality(V)
        OBVIOUS
    <2> HIDE DEF T, V, place
    <2> QED BY <2>4, <2>2, <2>3, FS_Subset
<1>4. place \in Injection(S, 1..n)
    <2>1. place \in [S -> 1..n]
        BY <1>2
    <2>2. \A t, v \in S : t # v => place[t] # place[v]
        <3> HIDE DEF place, n
        <3> TAKE t \in S, v \in S
        <3>1. t \in Nat /\ v \in Nat
            OBVIOUS
        <3> QED BY <1>3, <3>1
    <2> HIDE DEF place, n
    <2> QED BY <2>1, <2>2 DEF Injection, IsInjective
<1>5. place \in Surjection(S, 1..n)
    <2> HIDE DEF place
    <2> QED BY <1>1, <1>4, FS_Injection
<1>6. \A i \in 1..n : \E t \in S : place[t] = i
    <2> HIDE DEF place, n
    <2> QED BY <1>5 DEF Surjection
<1>7. \A i \in 1..n : Sorted(S)[i] \in S /\ place[Sorted(S)[i]] = i
    <2> TAKE i \in 1..n
    <2>1. PICK t \in S : Cardinality({u \in S : u <= t}) = i
        BY <1>6
    <2>2. Sorted(S)[i] = CHOOSE x \in S : Cardinality({u \in S : u <= x}) = i
        BY DEF Sorted
    <2> QED BY <2>1, <2>2
<1>8. DOMAIN Sorted(S) = 1..n /\ Sorted(S) \in [1..n -> S]
    BY <1>7 DEF Sorted
<1>9. Sorted(S) \in Seq(S)
    <2> HIDE DEF n
    <2> QED BY <1>1, <1>8
<1>10. \A t \in S : Sorted(S)[place[t]] = t
    <2> TAKE t \in S
    <2>1. place[Sorted(S)[place[t]]] = place[t] /\ Sorted(S)[place[t]] \in S
        BY <1>2, <1>7
    <2>2. Sorted(S)[place[t]] \in Nat /\ t \in Nat
        BY <2>1
    <2> HIDE DEF place
    <2> QED BY <1>3, <2>1, <2>2
<1>11. ToSet(Sorted(S)) = S
    <2> HIDE DEF place, n
    <2> QED BY <1>2, <1>7, <1>8, <1>10 DEF ToSet
<1> QED BY <1>9, <1>11

\* The greatest of a number and of those that follow it.
LEMMA MaxOfSeries ==
    ASSUME NEW c \in Nat, NEW p \in Nat, c <= p
    PROVE  Max({c} \cup ((c + 1)..p)) = p
<1>1. p \in {c} \cup ((c + 1)..p) /\ \A y \in {c} \cup ((c + 1)..p) : p >= y
    OBVIOUS
<1>2. \A x \in {c} \cup ((c + 1)..p) : x >= p => x = p
    OBVIOUS
<1> QED BY <1>1, <1>2 DEF Max

LEMMA MaxOfNone == ASSUME NEW c \in Nat PROVE Max({c} \cup {}) = c
BY DEF Max

-----------------------------------------------------------------------------
(* What is kept of a message. *)

\* A message that is kept has a sample of each trial of the page.
LEMMA KeptTypes ==
    ASSUME NEW k, KeptTyped(k), NEW e \in Messages
    PROVE  KeptTyped(Kept(k, e))
<1>1. /\ k.ids \subseteq Trials /\ k.hps \subseteq Trials
      /\ DOMAIN k.data \subseteq Trials /\ \A t \in DOMAIN k.data : k.data[t] \subseteq Nat
    BY DEF KeptTyped, Data
<1>2. /\ e.promoted \subseteq Trials /\ DOMAIN e.trials \subseteq Trials
      /\ \A t \in DOMAIN e.trials : e.trials[t].data \subseteq Nat
    BY DEF Messages, Samples
<1> DEFINE D == DOMAIN k.data \cup DOMAIN e.trials
           value(t) == (IF t \in DOMAIN k.data THEN k.data[t] ELSE {})
                         \cup (IF t \in DOMAIN e.trials THEN e.trials[t].data ELSE {})
<1>3. \A t \in D : value(t) \subseteq Nat
    BY <1>1, <1>2
<1>4. D \in SUBSET Trials
    BY <1>1, <1>2
<1>5. [t \in D |-> value(t)] \in [D -> SUBSET Nat]
    <2> HIDE DEF D, value
    <2> QED BY <1>3
<1>6. [t \in D |-> value(t)] \in Data
    <2> HIDE DEF D, value
    <2> QED BY <1>4, <1>5 DEF Data
<1>7. (k.ids \cup e.promoted) \ e.demoted \subseteq Trials
    BY <1>1, <1>2
<1>8. k.hps \cup {t \in DOMAIN e.trials : e.trials[t].hparams} \subseteq Trials
    BY <1>1, <1>2
<1> QED BY <1>6, <1>7, <1>8 DEF KeptTyped, Kept

\* The message at the head of the wire leaves the page with the trials of
\* that message, and with all the handler takes for granted.
LEMMA HeadIsKept ==
    ASSUME NEW s, StreamTyped(s), NEW k, KeptTyped(k), WireOK(s, k), KeptOK(k), s.wire # <<>>
    PROVE  /\ KeptTyped(Kept(k, Head(s.wire)))
           /\ Kept(k, Head(s.wire)).ids = DOMAIN Head(s.wire).trials
           /\ KeptOK(Kept(k, Head(s.wire)))
           /\ RunsThrough(Kept(k, Head(s.wire)))
<1>1. PICK e : e = Head(s.wire)
    OBVIOUS
<1>2. s.wire \in Seq(Messages) /\ 1 \in DOMAIN s.wire /\ e = s.wire[1] /\ e \in Messages
    BY <1>1 DEF StreamTyped
<1>3. /\ e.promoted = DOMAIN e.trials \ k.ids
      /\ e.demoted = k.ids \ DOMAIN e.trials
      /\ \A t \in DOMAIN e.trials \ k.ids : e.trials[t].hparams
    BY <1>2 DEF WireOK, Before
<1>4. PICK n : n = Kept(k, e)
    OBVIOUS
<1>5. n.ids = DOMAIN e.trials
    BY <1>3, <1>4 DEF Kept
<1>6. n.hps = k.hps \cup {t \in DOMAIN e.trials : e.trials[t].hparams}
    BY <1>4 DEF Kept
<1>7. DOMAIN n.data = DOMAIN k.data \cup DOMAIN e.trials
    BY <1>4 DEF Kept
<1>8. \A t \in DOMAIN n.data :
         n.data[t] = (IF t \in DOMAIN k.data THEN k.data[t] ELSE {})
                       \cup (IF t \in DOMAIN e.trials THEN e.trials[t].data ELSE {})
    BY <1>4 DEF Kept
<1>9. n.ids \subseteq n.hps
    BY <1>3, <1>5, <1>6 DEF KeptOK
<1>10. n.ids \subseteq DOMAIN n.data
    BY <1>5, <1>7
<1>11. ASSUME NEW t \in DOMAIN n.data, n.data[t] # {}
       PROVE  t \in n.hps
    <2>1. CASE t \in DOMAIN e.trials
        BY <1>5, <1>9, <2>1
    <2>2. CASE t \notin DOMAIN e.trials
        BY <1>6, <1>7, <1>8, <1>11, <2>2 DEF KeptOK
    <2> QED BY <2>1, <2>2
<1>12. KeptTyped(n)
    BY <1>2, <1>4, KeptTypes
<1>13. KeptOK(n) /\ RunsThrough(n)
    BY <1>9, <1>10, <1>11 DEF KeptOK, RunsThrough
<1> QED BY <1>1, <1>4, <1>5, <1>12, <1>13

\* Nothing that was sent is lost when a message is kept.
LEMMA SentIsKept ==
    ASSUME NEW s, StreamTyped(s), NEW k, KeptTyped(k), s.wire # <<>>, NEW t
    PROVE  Sent(k, s.wire, t) \subseteq Sent(Kept(k, Head(s.wire)), Tail(s.wire), t)
<1>1. PICK e, n, w : e = Head(s.wire) /\ n = Kept(k, e) /\ w = Tail(s.wire)
    OBVIOUS
<1>2. s.wire \in Seq(Messages) /\ e = s.wire[1]
    BY <1>1 DEF StreamTyped
<1>3. DOMAIN n.data = DOMAIN k.data \cup DOMAIN e.trials
    BY <1>1 DEF Kept
<1>4. \A x \in DOMAIN n.data :
         n.data[x] = (IF x \in DOMAIN k.data THEN k.data[x] ELSE {})
                       \cup (IF x \in DOMAIN e.trials THEN e.trials[x].data ELSE {})
    BY <1>1 DEF Kept
<1>5. \A i \in DOMAIN s.wire : i = 1 \/ (i - 1 \in DOMAIN w /\ s.wire[i] = w[i - 1])
    BY <1>1, <1>2
<1> SUFFICES ASSUME NEW x \in Sent(k, s.wire, t)
             PROVE  x \in Sent(n, w, t)
    BY <1>1
<1>6. CASE t \in DOMAIN k.data /\ x \in k.data[t]
    BY <1>3, <1>4, <1>6 DEF Sent
<1>7. ASSUME NEW i \in DOMAIN s.wire, t \in DOMAIN s.wire[i].trials, x \in s.wire[i].trials[t].data
      PROVE  x \in Sent(n, w, t)
    <2>1. x \in Nat
        BY DEF Sent
    <2>2. CASE i = 1
        <3>1. t \in DOMAIN n.data /\ x \in n.data[t]
            BY <1>2, <1>3, <1>4, <1>7, <2>2
        <3> QED BY <2>1, <3>1 DEF Sent
    <2>3. CASE i # 1
        BY <1>5, <1>7, <2>1, <2>3 DEF Sent
    <2> QED BY <2>2, <2>3
<1> QED BY <1>6, <1>7 DEF Sent

\* Receiving a message leaves the stream in order.
LEMMA WireAdvances ==
    ASSUME NEW pts, NEW s, StreamTyped(s), NEW k, KeptTyped(k),
           StreamOK(pts, s, k), s.st = "open", s.wire # <<>>
    PROVE  /\ StreamTyped([s EXCEPT !.wire = Tail(s.wire)])
           /\ StreamOK(pts, [s EXCEPT !.wire = Tail(s.wire)], Kept(k, Head(s.wire)))
<1>1. PICK e, n, w, r : /\ e = Head(s.wire) /\ n = Kept(k, e) /\ w = Tail(s.wire)
                        /\ r = [s EXCEPT !.wire = w]
    OBVIOUS
<1>2. /\ s.wire \in Seq(Messages) /\ e = s.wire[1] /\ w \in Seq(Messages)
      /\ Len(w) = Len(s.wire) - 1 /\ Len(s.wire) \in Nat \ {0}
      /\ \A i \in DOMAIN w : i + 1 \in DOMAIN s.wire /\ w[i] = s.wire[i + 1]
    BY <1>1 DEF StreamTyped
<1>3. StreamTyped(r)
    BY <1>1, <1>2 DEF StreamTyped
<1>4. /\ r.st = s.st /\ r.metric = s.metric /\ r.current = s.current /\ r.cursors = s.cursors
      /\ r.wire = w
    BY <1>1 DEF StreamTyped
<1>5. s.metric # None /\ WireOK(s, k) /\ KeptOK(k) /\ CursorsOK(pts, s, k)
    BY DEF StreamOK
<1>6. n.ids = DOMAIN e.trials /\ KeptOK(n)
    BY <1>1, <1>5, HeadIsKept
<1>7. \A i \in 1..(Len(w) + 1) : Before(n, w, i) = Before(k, s.wire, i + 1)
    <2> TAKE i \in 1..(Len(w) + 1)
    <2>1. CASE i = 1
        BY <1>2, <1>6, <2>1 DEF Before
    <2>2. CASE i # 1
        <3>1. i - 1 \in DOMAIN w
            BY <1>2, <2>2
        <3>2. w[i - 1] = s.wire[(i + 1) - 1]
            BY <1>2, <3>1
        <3>3. i + 1 # 1
            OBVIOUS
        <3> QED BY <2>2, <3>2, <3>3 DEF Before
    <2> QED BY <2>1, <2>2
<1>8. WireOK(r, n)
    <2>1. r.current = Before(n, w, Len(w) + 1)
        <3>1. s.current = Before(k, s.wire, Len(s.wire) + 1)
            BY <1>5 DEF WireOK
        <3>2. Len(w) + 1 \in 1..(Len(w) + 1) /\ (Len(w) + 1) + 1 = Len(s.wire) + 1
            BY <1>2
        <3> QED BY <1>4, <1>7, <3>1, <3>2
    <2>2. ASSUME NEW i \in DOMAIN w
          PROVE  /\ w[i].promoted = DOMAIN w[i].trials \ Before(n, w, i)
                 /\ w[i].demoted = Before(n, w, i) \ DOMAIN w[i].trials
                 /\ \A t \in DOMAIN w[i].trials \ Before(n, w, i) : w[i].trials[t].hparams
        <3>1. i + 1 \in DOMAIN s.wire /\ w[i] = s.wire[i + 1]
            BY <1>2
        <3>2. Before(n, w, i) = Before(k, s.wire, i + 1)
            BY <1>2, <1>7
        <3> QED BY <1>5, <3>1, <3>2 DEF WireOK
    <2> QED BY <1>4, <2>1, <2>2 DEF WireOK
<1>9. CursorsOK(pts, r, n)
    <2>1. \A t : Sent(k, s.wire, t) \subseteq Sent(n, w, t)
        BY <1>1, SentIsKept
    <2> QED BY <1>4, <1>5, <2>1 DEF CursorsOK
<1>10. StreamOK(pts, r, n)
    BY <1>4, <1>5, <1>6, <1>8, <1>9 DEF StreamOK
<1> QED BY <1>1, <1>3, <1>10

-----------------------------------------------------------------------------
(* A stream that is opened, and one that is gone. *)

LEMMA NothingKeptOK == KeptTyped(NothingKept) /\ KeptOK(NothingKept)
<1>1. NothingKept.ids = {} /\ NothingKept.hps = {} /\ DOMAIN NothingKept.data = {}
    BY DEF NothingKept
<1>2. NothingKept.data \in [{} -> SUBSET Nat]
    BY DEF NothingKept
<1>3. NothingKept.data \in Data
    BY <1>2 DEF Data
<1>4. KeptTyped(NothingKept)
    BY <1>1, <1>3 DEF KeptTyped, NothingKept
<1> QED BY <1>1, <1>4 DEF KeptOK

LEMMA OpenedTyped ==
    ASSUME NEW m \in Metrics \cup {None, "other"}, NEW max \in Options \cup {0}
    PROVE  /\ StreamTyped(Opened(m, max))
           /\ StreamTyped([Opened(m, max) EXCEPT !.st = "none"])
           /\ StreamTyped([Opened(m, max) EXCEPT !.st = "broken"])
<1>1. [t \in Trials |-> 0] \in [Trials -> 0..MaxPoints]
    BY CurveAssumption
<1>2. <<>> \in Seq(Messages)
    OBVIOUS
<1>3. StreamTyped(Opened(m, max))
    BY <1>1, <1>2 DEF StreamTyped, Opened
<1> QED BY <1>3 DEF StreamTyped

LEMMA NoStreamTyped ==
    /\ StreamTyped(NoStream) /\ NoStream.st = "none"
    /\ StreamTyped(Broken) /\ Broken.st = "broken"
<1>1. StreamTyped(Opened(None, 0))
    BY OpenedTyped
<1>2. StreamTyped(NoStream) /\ NoStream.st = "none"
    BY <1>1, OpenedTyped DEF NoStream, StreamTyped
<1>3. StreamTyped(Broken) /\ Broken.st = "broken"
    BY <1>2 DEF Broken, StreamTyped
<1> QED BY <1>2, <1>3

\* A stream starts with nothing sent and nothing kept.
LEMMA OpenedOK ==
    ASSUME NEW pts \in [Trials -> 0..MaxPoints], NEW m \in Metrics \cup {None, "other"}, m # None,
           NEW max \in Options
    PROVE  StreamTyped(Opened(m, max)) /\ StreamOK(pts, Opened(m, max), NothingKept)
<1>1. StreamTyped(Opened(m, max))
    BY OpenedTyped
<1>2. PICK s : s = Opened(m, max)
    OBVIOUS
<1>3. /\ s.metric = m /\ s.current = {} /\ s.cursors = [t \in Trials |-> 0] /\ s.wire = <<>>
    BY <1>2 DEF Opened
<1>4. WireOK(s, NothingKept)
    <2>1. Len(<<>>) + 1 = 1 /\ DOMAIN <<>> = {}
        OBVIOUS
    <2>2. Before(NothingKept, <<>>, 1) = {}
        BY DEF Before, NothingKept
    <2> QED BY <1>3, <2>1, <2>2 DEF WireOK
<1>5. CursorsOK(pts, s, NothingKept)
    BY <1>3 DEF CursorsOK
<1> QED BY <1>1, <1>2, <1>3, <1>4, <1>5, NothingKeptOK DEF StreamOK

\* The effects of a render leave a stream that is in order, or none.
LEMMA EffectsOK ==
    ASSUME NEW pts \in [Trials -> 0..MaxPoints], NEW u, PageTyped(u), Effects(u)
    PROVE  /\ StreamTyped(stream') /\ KeptTyped(kept')
           /\ StreamOK(pts, stream', kept')
           /\ kept' = NothingKept /\ due' = FALSE
<1>1. kept' = NothingKept /\ due' = FALSE
    BY DEF Effects
<1>2. u.selected \in Metrics \cup {None, "other"} /\ u.max \in Options
    BY DEF PageTyped, Pages
<1>3. CASE u.shown /\ u.selected # None
    <2>1. stream' = Opened(u.selected, u.max)
        BY <1>3 DEF Effects
    <2> QED BY <1>1, <1>2, <1>3, <2>1, OpenedOK, NothingKeptOK
<1>4. CASE ~(u.shown /\ u.selected # None)
    <2>1. stream' = NoStream
        BY <1>4 DEF Effects
    <2>2. StreamOK(pts, stream', kept')
        BY <2>1, NoStreamTyped DEF StreamOK
    <2> QED BY <1>1, <2>1, <2>2, NoStreamTyped, NothingKeptOK
<1> QED BY <1>3, <1>4
-----------------------------------------------------------------------------
(* What is drawn. *)

LEMMA DrawnFields ==
    ASSUME PageTyped(ui), KeptTyped(kept), NEW k, KeptTyped(k), KeptOK(k),
           stream.metric # None, StreamTyped(stream)
    PROVE  /\ PageTyped(Drawn(ui, k))
           /\ Drawn(ui, k).error = ui.error /\ Drawn(ui, k).shown = ui.shown
           /\ Drawn(ui, k).ids = Sorted(k.ids)
           /\ \A i \in DOMAIN Drawn(ui, k).ids : Drawn(ui, k).chart[i] = k.data[Drawn(ui, k).ids[i]]
<1>1. PICK ids : ids = Sorted(k.ids)
    OBVIOUS
<1>2. k.ids \subseteq Trials /\ k.ids \subseteq Nat /\ IsFiniteSet(k.ids)
    <2>1. k.ids \in SUBSET Trials /\ Trials \subseteq Nat /\ IsFiniteSet(Trials)
        BY CurveAssumption DEF KeptTyped
    <2> QED BY <2>1, FS_Subset
<1>3. ids \in Seq(k.ids)
    BY <1>1, <1>2, SortedOK
<1>4. ids \in Seq(Trials)
    BY <1>2, <1>3
<1>5. PICK chart : chart = [i \in DOMAIN ids |-> k.data[ids[i]]]
    OBVIOUS
<1>6. \A i \in DOMAIN ids : k.data[ids[i]] \subseteq Nat
    <2> TAKE i \in DOMAIN ids
    <2>1. ids[i] \in k.ids
        BY <1>3
    <2>2. ids[i] \in DOMAIN k.data
        BY <2>1 DEF KeptOK
    <2>3. \A t \in DOMAIN k.data : k.data[t] \subseteq Nat
        BY DEF KeptTyped, Data
    <2> QED BY <2>2, <2>3
<1>7. chart \in Seq(SUBSET Nat) /\ DOMAIN chart = DOMAIN ids
    <2>1. DOMAIN ids = 1..Len(ids) /\ Len(ids) \in Nat
        BY <1>3
    <2>2. chart \in [1..Len(ids) -> SUBSET Nat]
        BY <1>5, <1>6, <2>1
    <2> QED BY <1>5, <2>1, <2>2
<1>8. PICK u : u = Drawn(ui, k)
    OBVIOUS
<1>9. u = [ui EXCEPT !.ids = ids, !.chart = chart, !.hps = k.hps, !.of = stream.metric,
                     !.loaded = TRUE]
    BY <1>1, <1>5, <1>8 DEF Drawn, Lines
<1>10. /\ u.ids = ids /\ u.chart = chart /\ u.of = stream.metric /\ u.loaded = TRUE
       /\ u.error = ui.error /\ u.shown = ui.shown
    BY <1>9 DEF PageTyped, Pages
<1>11. stream.metric \in Metrics \cup {None, "other"} /\ k.hps \in SUBSET Trials
    BY DEF StreamTyped, KeptTyped
<1>12. u \in Pages
    BY <1>4, <1>7, <1>9, <1>11 DEF PageTyped, Pages
<1>13. PageTyped(u)
    BY <1>7, <1>10, <1>12 DEF PageTyped, Pages
<1> QED BY <1>1, <1>5, <1>8, <1>10, <1>13

LEMMA ResetFields ==
    ASSUME NEW u, PageTyped(u)
    PROVE  PageTyped(resetData(u)) /\ resetData(u).shown = u.shown /\ resetData(u).error = u.error
           /\ resetData(u).loaded = FALSE
<1>0. <<>> \in Seq(Trials) /\ <<>> \in Seq(SUBSET Nat) /\ {} \in SUBSET Trials /\ 0 \in Nat
    OBVIOUS
<1>1. resetData(u) \in Pages
    BY <1>0 DEF PageTyped, Pages, resetData
<1>2. /\ resetData(u).ids = <<>> /\ resetData(u).chart = <<>> /\ resetData(u).loaded = FALSE
      /\ resetData(u).of = None
      /\ resetData(u).shown = u.shown /\ resetData(u).error = u.error
    BY DEF PageTyped, Pages, resetData
<1> QED BY <1>1, <1>2 DEF PageTyped, Pages

-----------------------------------------------------------------------------
(* The master's round. *)

\* What a round sends, and the master's state after it, for the trials T, the
\* values ser and the cursors cur.
Message(s, T, ser) ==
    [promoted |-> T \ s.current, demoted |-> s.current \ T,
     trials |-> [t \in T |-> [hparams |-> t \notin s.current, data |-> ser[t]]]]
AfterSample(s, T, ser, cur) ==
    [s EXCEPT !.wire = Append(s.wire, Message(s, T, ser)), !.current = T, !.cursors = cur,
              !.phase = "check"]
Series(s) == [t \in Trials |-> MetricsSeries(t, s)]
NextCursors(s, T) ==
    [t \in Trials |-> IF t \notin T THEN 0 ELSE Max({s.cursors[t]} \cup MetricsSeries(t, s))]

\* A sample that is appended follows the ones before it.
LEMMA SampleAppended ==
    ASSUME NEW pts \in [Trials -> 0..MaxPoints], NEW s, StreamTyped(s), NEW k,
           WireOK(s, k), CursorsOK(pts, s, k),
           NEW T \in SUBSET Trials, NEW ser \in [Trials -> SUBSET Nat],
           NEW cur \in [Trials -> 0..MaxPoints],
           \A t \in T : cur[t] <= pts[t] /\ 1..cur[t] \subseteq 1..s.cursors[t] \cup ser[t],
           \A t \in Trials \ T : cur[t] = 0
    PROVE  /\ StreamTyped(AfterSample(s, T, ser, cur))
           /\ WireOK(AfterSample(s, T, ser, cur), k)
           /\ CursorsOK(pts, AfterSample(s, T, ser, cur), k)
<1>0. PICK e, r :
         /\ e = [promoted |-> T \ s.current, demoted |-> s.current \ T,
                 trials |-> [t \in T |-> [hparams |-> t \notin s.current, data |-> ser[t]]]]
         /\ r = [s EXCEPT !.wire = Append(s.wire, e), !.current = T, !.cursors = cur,
                          !.phase = "check"]
         /\ r = AfterSample(s, T, ser, cur)
    BY DEF AfterSample, Message
<1>1. s.wire \in Seq(Messages) /\ Len(s.wire) \in Nat /\ s.current \in SUBSET Trials
    BY DEF StreamTyped
<1>2. e \in Messages
    <2>1. [t \in T |-> [hparams |-> t \notin s.current, data |-> ser[t]]] \in [T -> Samples]
        BY DEF Samples
    <2>2. [t \in T |-> [hparams |-> t \notin s.current, data |-> ser[t]]]
              \in UNION {[U -> Samples] : U \in SUBSET Trials}
        BY <2>1
    <2> QED BY <1>0, <1>1, <2>2 DEF Messages
<1>3. PICK w : w = Append(s.wire, e)
    OBVIOUS
<1>4. /\ w \in Seq(Messages) /\ Len(w) = Len(s.wire) + 1
      /\ DOMAIN w = 1..(Len(s.wire) + 1) /\ DOMAIN s.wire = 1..Len(s.wire)
      /\ w[Len(s.wire) + 1] = e /\ \A i \in DOMAIN s.wire : w[i] = s.wire[i]
    BY <1>1, <1>2, <1>3
<1>5. StreamTyped(r)
    BY <1>0, <1>3, <1>4 DEF StreamTyped
<1>6. r.wire = w /\ r.current = T /\ r.cursors = cur
    BY <1>0, <1>3 DEF StreamTyped
<1>7. \A i \in 1..(Len(s.wire) + 1) : Before(k, w, i) = Before(k, s.wire, i)
    <2> TAKE i \in 1..(Len(s.wire) + 1)
    <2>1. CASE i = 1
        BY <2>1 DEF Before
    <2>2. CASE i # 1
        <3>1. i - 1 \in DOMAIN s.wire
            BY <1>1, <1>4, <2>2
        <3> QED BY <1>4, <2>2, <3>1 DEF Before
    <2> QED BY <2>1, <2>2
<1>8. s.current = Before(k, w, Len(s.wire) + 1)
    <2>1. s.current = Before(k, s.wire, Len(s.wire) + 1)
        BY DEF WireOK
    <2>2. Len(s.wire) + 1 \in 1..(Len(s.wire) + 1)
        BY <1>1
    <2> QED BY <1>7, <2>1, <2>2
<1>9. /\ e.promoted = T \ s.current /\ e.demoted = s.current \ T /\ DOMAIN e.trials = T
      /\ \A t \in T : (e.trials[t].hparams <=> t \notin s.current) /\ e.trials[t].data = ser[t]
    BY <1>0
<1>10. WireOK(r, k)
    <2>1. ASSUME NEW i \in DOMAIN w
          PROVE  /\ w[i].promoted = DOMAIN w[i].trials \ Before(k, w, i)
                 /\ w[i].demoted = Before(k, w, i) \ DOMAIN w[i].trials
                 /\ \A t \in DOMAIN w[i].trials \ Before(k, w, i) : w[i].trials[t].hparams
        <3>1. CASE i = Len(s.wire) + 1
            BY <1>4, <1>8, <1>9, <3>1
        <3>2. CASE i # Len(s.wire) + 1
            <4>1. i \in DOMAIN s.wire
                BY <1>1, <1>4, <3>2
            <4>2. w[i] = s.wire[i] /\ Before(k, w, i) = Before(k, s.wire, i)
                BY <1>4, <1>7, <4>1
            <4> QED BY <4>1, <4>2 DEF WireOK
        <3> QED BY <3>1, <3>2
    <2>2. T = Before(k, w, Len(w) + 1)
        <3>1. Len(w) + 1 # 1 /\ (Len(w) + 1) - 1 = Len(s.wire) + 1
            BY <1>1, <1>4
        <3> QED BY <1>4, <1>9, <3>1 DEF Before
    <2> QED BY <1>6, <2>1, <2>2 DEF WireOK
<1>11. ASSUME NEW t \in T
       PROVE  1..cur[t] \subseteq Sent(k, w, t)
    <2>1. 1..s.cursors[t] \subseteq Sent(k, s.wire, t)
        <3>1. CASE t \in s.current
            BY <3>1 DEF CursorsOK
        <3>2. CASE t \notin s.current
            <4>1. s.cursors[t] = 0
                BY <3>2 DEF CursorsOK
            <4> QED BY <4>1
        <3> QED BY <3>1, <3>2
    <2>2. Sent(k, s.wire, t) \subseteq Sent(k, w, t)
        <3>1. \A i \in DOMAIN s.wire : i \in DOMAIN w /\ w[i] = s.wire[i]
            BY <1>1, <1>4
        <3> QED BY <3>1 DEF Sent
    <2>3. ser[t] \subseteq Sent(k, w, t)
        <3>1. Len(s.wire) + 1 \in DOMAIN w
            BY <1>1, <1>4
        <3>2. t \in DOMAIN w[Len(s.wire) + 1].trials /\ w[Len(s.wire) + 1].trials[t].data = ser[t]
            BY <1>4, <1>9
        <3> QED BY <3>1, <3>2 DEF Sent
    <2>4. 1..cur[t] \subseteq 1..s.cursors[t] \cup ser[t]
        OBVIOUS
    <2> QED BY <2>1, <2>2, <2>3, <2>4
<1>12. CursorsOK(pts, r, k)
    BY <1>6, <1>11 DEF CursorsOK
<1> QED BY <1>0, <1>5, <1>10, <1>12

\* The cursors after a round: each value up to one was sent before or is sent.
LEMMA CursorsFollow ==
    ASSUME NEW s, StreamTyped(s), NEW k, CursorsOK(points, s, k),
           points \in [Trials -> 0..MaxPoints], NEW T \in SUBSET Trials
    PROVE  /\ Series(s) \in [Trials -> SUBSET Nat] /\ NextCursors(s, T) \in [Trials -> 0..MaxPoints]
           /\ \A t \in T : /\ NextCursors(s, T)[t] <= points[t]
                          /\ 1..NextCursors(s, T)[t] \subseteq 1..s.cursors[t] \cup Series(s)[t]
           /\ \A t \in Trials \ T : NextCursors(s, T)[t] = 0
<1> DEFINE ser == Series(s)
           cur == NextCursors(s, T)
<1>0. MaxPoints \in Nat
    BY CurveAssumption
<1>1. \A t \in Trials : s.cursors[t] \in Nat /\ points[t] \in Nat /\ points[t] <= MaxPoints
    BY <1>0 DEF StreamTyped
<1>2. \A t \in Trials : s.cursors[t] <= points[t]
    BY <1>1 DEF CursorsOK
<1>3. ASSUME NEW t \in Trials
      PROVE  /\ MetricsSeries(t, s) \subseteq Nat
             /\ Max({s.cursors[t]} \cup MetricsSeries(t, s)) \in Nat
             /\ Max({s.cursors[t]} \cup MetricsSeries(t, s)) <= points[t]
             /\ 1..Max({s.cursors[t]} \cup MetricsSeries(t, s))
                  \subseteq 1..s.cursors[t] \cup MetricsSeries(t, s)
    <2>0. PICK c, p : c = s.cursors[t] /\ p = points[t]
        OBVIOUS
    <2>1. c \in Nat /\ p \in Nat /\ c <= p
        BY <1>1, <1>2, <2>0
    <2>2. CASE s.metric \in Metrics
        <3>1. MetricsSeries(t, s) = (c + 1)..p
            BY <2>0, <2>2 DEF MetricsSeries
        <3>2. Max({c} \cup MetricsSeries(t, s)) = p
            BY <2>1, <3>1, MaxOfSeries
        <3>3. p \in Nat /\ p <= p /\ 1..p \subseteq 1..c \cup ((c + 1)..p) /\ (c + 1)..p \subseteq Nat
            BY <2>1
        <3> QED BY <2>0, <3>1, <3>2, <3>3
    <2>3. CASE s.metric \notin Metrics
        <3>1. MetricsSeries(t, s) = {}
            BY <2>3 DEF MetricsSeries
        <3>2. Max({c} \cup MetricsSeries(t, s)) = c
            BY <2>1, <3>1, MaxOfNone
        <3> QED BY <2>0, <2>1, <3>1, <3>2
    <2> QED BY <2>2, <2>3
<1>4. ser \in [Trials -> SUBSET Nat]
    BY <1>3 DEF Series
<1>5. \A t \in Trials : cur[t] \in Nat /\ cur[t] <= points[t]
    BY <1>1, <1>3 DEF NextCursors
<1>6. cur \in [Trials -> 0..MaxPoints]
    BY <1>0, <1>1, <1>5 DEF NextCursors
<1>7. \A t \in T : 1..cur[t] \subseteq 1..s.cursors[t] \cup ser[t]
    BY <1>3 DEF Series, NextCursors
<1>8. \A t \in Trials \ T : cur[t] = 0
    BY DEF NextCursors
<1> QED BY <1>4, <1>5, <1>6, <1>7, <1>8

LEMMA TrialsSampleKeeps == ASSUME IInv, TrialsSample PROVE IInv'
<1>1. PICK T \in topTrials(stream.max) :
         stream' = [stream EXCEPT
            !.wire = Append(@, [promoted |-> T \ stream.current, demoted |-> stream.current \ T,
                                trials |-> [t \in T |-> fetchTrialSample(t, stream)]]),
            !.current = T,
            !.cursors = [t \in Trials |->
                           IF t \notin T THEN 0
                           ELSE Max({stream.cursors[t]} \cup MetricsSeries(t, stream))],
            !.phase = "check"]
    BY DEF TrialsSample
<1>2. T \in SUBSET Trials
    BY DEF topTrials
<1>3. [t \in T |-> fetchTrialSample(t, stream)]
         = [t \in T |-> [hparams |-> t \notin stream.current, data |-> Series(stream)[t]]]
    BY <1>2 DEF fetchTrialSample, Series
<1>4. [promoted |-> T \ stream.current, demoted |-> stream.current \ T,
       trials |-> [t \in T |-> fetchTrialSample(t, stream)]]
         = Message(stream, T, Series(stream))
    BY <1>3 DEF Message
<1>5. stream' = AfterSample(stream, T, Series(stream), NextCursors(stream, T))
    BY <1>1, <1>4 DEF AfterSample, NextCursors
<1>6. /\ points \in [Trials -> 0..MaxPoints] /\ StreamTyped(stream) /\ stream.st = "open"
      /\ stream.metric # None
      /\ WireOK(stream, kept) /\ KeptOK(kept) /\ CursorsOK(points, stream, kept)
    BY DEF IInv, StreamOK, TrialsSample
<1>8. StreamTyped(stream') /\ WireOK(stream', kept) /\ CursorsOK(points, stream', kept)
    BY <1>2, <1>5, <1>6, CursorsFollow, SampleAppended
<1>9. stream'.st = stream.st /\ stream'.metric = stream.metric
    BY <1>5, <1>6 DEF StreamTyped, AfterSample
<1>10. StreamOK(points, stream', kept)
    BY <1>6, <1>8, <1>9 DEF StreamOK
<1>11. UNCHANGED <<points, ended, kept, ui, names, due, changes, faults>>
    BY DEF TrialsSample
<1>12. DrawnOK(stream', kept', ui', due')
    BY <1>9, <1>11 DEF DrawnOK, IInv
<1> QED BY <1>8, <1>10, <1>11, <1>12 DEF IInv, NamesTyped

-----------------------------------------------------------------------------
(* The other actions. *)

LEMMA TrialsSampleEndsKeeps == ASSUME IInv, TrialsSampleEnds PROVE IInv'
<1>1. stream' = [stream EXCEPT !.phase = IF ended THEN "done" ELSE "query"]
    BY DEF TrialsSampleEnds
<1>2. StreamTyped(stream')
    BY <1>1 DEF IInv, StreamTyped
<1>3. /\ stream'.st = stream.st /\ stream'.metric = stream.metric /\ stream'.wire = stream.wire
      /\ stream'.current = stream.current /\ stream'.cursors = stream.cursors
    BY <1>1 DEF IInv, StreamTyped
<1>4. UNCHANGED <<points, ended, kept, ui, names, due, changes, faults>>
    BY DEF TrialsSampleEnds
<1>5. StreamOK(points', stream', kept') /\ DrawnOK(stream', kept', ui', due')
    BY <1>3, <1>4 DEF IInv, StreamOK, WireOK, CursorsOK, DrawnOK
<1> QED BY <1>2, <1>4, <1>5 DEF IInv, NamesTyped

LEMMA RunEffectsKeeps == ASSUME IInv, RunEffects PROVE IInv'
<1>1. Effects(ui) /\ UNCHANGED <<points, ended, ui, names, changes, faults>>
    BY DEF RunEffects
<1>2. points \in [Trials -> 0..MaxPoints] /\ PageTyped(ui)
    BY DEF IInv
<1>3. /\ StreamTyped(stream') /\ KeptTyped(kept') /\ StreamOK(points, stream', kept')
      /\ kept' = NothingKept /\ due' = FALSE
    BY <1>1, <1>2, EffectsOK
<1>4. DrawnOK(stream', kept', ui', due')
    BY <1>3 DEF DrawnOK
<1> QED BY <1>1, <1>3, <1>4 DEF IInv, NamesTyped

LEMMA ReceiveKeeps == ASSUME IInv, Receive PROVE IInv'
<1>1. PICK k : k = Kept(kept, Head(stream.wire))
    OBVIOUS
<1>2. /\ points \in [Trials -> 0..MaxPoints] /\ StreamTyped(stream) /\ KeptTyped(kept)
      /\ PageTyped(ui) /\ stream.st = "open" /\ stream.wire # <<>>
      /\ stream.metric # None /\ WireOK(stream, kept) /\ KeptOK(kept)
      /\ StreamOK(points, stream, kept)
    BY DEF IInv, StreamOK, Receive
<1>3. KeptTyped(k) /\ KeptOK(k) /\ RunsThrough(k)
    BY <1>1, <1>2, HeadIsKept
<1>4. ui' = Drawn(ui, k) /\ UNCHANGED <<points, ended, names, changes, faults>>
    BY <1>1, <1>3 DEF Receive
<1>5. /\ PageTyped(ui') /\ ui'.error = ui.error /\ ui'.shown = ui.shown
      /\ ui'.ids = Sorted(k.ids)
      /\ \A i \in DOMAIN ui'.ids : ui'.chart[i] = k.data[ui'.ids[i]]
    BY <1>2, <1>3, <1>4, DrawnFields
<1>6. CASE due
    <2>1. Effects(ui)
        BY <1>1, <1>6 DEF Receive
    <2>2. /\ StreamTyped(stream') /\ KeptTyped(kept') /\ StreamOK(points, stream', kept')
          /\ kept' = NothingKept /\ due' = FALSE
        BY <1>2, <2>1, EffectsOK
    <2>3. DrawnOK(stream', kept', ui', due')
        BY <2>2 DEF DrawnOK
    <2> QED BY <1>4, <1>5, <2>2, <2>3 DEF IInv, NamesTyped
<1>7. CASE ~due
    <2>1. kept' = k /\ stream' = [stream EXCEPT !.wire = Tail(stream.wire)] /\ due' = due
        BY <1>1, <1>3, <1>7 DEF Receive
    <2>2. StreamTyped(stream') /\ StreamOK(points, stream', kept')
        BY <1>1, <1>2, <2>1, WireAdvances
    <2>3. DrawnOK(stream', kept', ui', due')
        BY <1>5, <2>1 DEF DrawnOK
    <2> QED BY <1>3, <1>4, <1>5, <2>1, <2>2, <2>3 DEF IInv, NamesTyped
<1> QED BY <1>6, <1>7

LEMMA StreamBreaksKeeps == ASSUME IInv, StreamBreaks PROVE IInv'
<1>1. /\ stream' = Broken /\ kept' = NothingKept /\ ui' = [ui EXCEPT !.error = TRUE]
      /\ faults' = faults + 1 /\ UNCHANGED <<points, ended, names, due, changes>>
    BY DEF StreamBreaks
<1>2. PageTyped(ui') /\ ui'.shown = ui.shown
    BY <1>1 DEF IInv, PageTyped, Pages
<1>3. faults' \in Nat /\ faults' > 0
    BY <1>1 DEF IInv, NamesTyped
<1>4. StreamOK(points', stream', kept') /\ DrawnOK(stream', kept', ui', due')
    BY <1>1, NoStreamTyped DEF StreamOK, DrawnOK
<1> QED BY <1>1, <1>2, <1>3, <1>4, NoStreamTyped, NothingKeptOK DEF IInv, NamesTyped

LEMMA handleTopTrialsChangeKeeps ==
    ASSUME IInv, NEW n \in Options, handleTopTrialsChange(n) PROVE IInv'
<1>1. /\ ui' = [resetData(ui) EXCEPT !.max = n] /\ due' = TRUE /\ changes' = changes + 1
      /\ ui.shown /\ UNCHANGED <<points, ended, stream, kept, names, faults>>
    BY DEF handleTopTrialsChange, Change, Displayed
<1>2. /\ PageTyped(resetData(ui)) /\ resetData(ui).shown = ui.shown
      /\ resetData(ui).error = ui.error
    BY ResetFields DEF IInv
<1>3. PageTyped(ui') /\ ui'.shown = ui.shown /\ ui'.error = ui.error
    BY <1>1, <1>2 DEF PageTyped, Pages
<1>4. DrawnOK(stream', kept', ui', due')
    BY <1>1 DEF DrawnOK
<1>5. NamesTyped'
    <2>1. changes' \in Nat /\ due' \in BOOLEAN
        BY <1>1 DEF IInv, NamesTyped
    <2> QED BY <1>1, <2>1 DEF IInv, NamesTyped
<1> QED BY <1>1, <1>3, <1>4, <1>5 DEF IInv

LEMMA handleMetricChangeKeeps ==
    ASSUME IInv, NEW m \in Metrics, handleMetricChange(m) PROVE IInv'
<1>1. /\ ui' = [resetData(ui) EXCEPT !.selected = m] /\ due' = TRUE /\ changes' = changes + 1
      /\ ui.shown /\ UNCHANGED <<points, ended, stream, kept, names, faults>>
    BY DEF handleMetricChange, Change, Displayed
<1>2. /\ PageTyped(resetData(ui)) /\ resetData(ui).shown = ui.shown
      /\ resetData(ui).error = ui.error
    BY ResetFields DEF IInv
<1>3. PageTyped(ui') /\ ui'.shown = ui.shown /\ ui'.error = ui.error
    BY <1>1, <1>2 DEF PageTyped, Pages
<1>4. DrawnOK(stream', kept', ui', due')
    BY <1>1 DEF DrawnOK
<1>5. NamesTyped'
    <2>1. changes' \in Nat /\ due' \in BOOLEAN
        BY <1>1 DEF IInv, NamesTyped
    <2> QED BY <1>1, <2>1 DEF IInv, NamesTyped
<1> QED BY <1>1, <1>3, <1>4, <1>5 DEF IInv

LEMMA handleChartTypeChangeKeeps == ASSUME IInv, handleChartTypeChange PROVE IInv'
<1>1. /\ ui' = [resetData(ui) EXCEPT !.shown = ~@, !.error = FALSE, !.max = Cardinality(Trials)]
      /\ (changes' = changes + 1 \/ changes' = changes)
      /\ Effects(ui') /\ UNCHANGED <<points, ended, names, faults>>
    BY DEF handleChartTypeChange, Change
<1>2. PageTyped(resetData(ui))
    BY ResetFields DEF IInv
<1>3. Cardinality(Trials) \in Options
    BY DEF Options
<1>4. PageTyped(ui') /\ ui'.error = FALSE
    BY <1>1, <1>2, <1>3 DEF PageTyped, Pages
<1>5. points \in [Trials -> 0..MaxPoints]
    BY DEF IInv
<1>6. PICK u : u = ui'
    OBVIOUS
<1>7. /\ StreamTyped(stream') /\ KeptTyped(kept') /\ StreamOK(points, stream', kept')
      /\ kept' = NothingKept /\ due' = FALSE
    <2>1. Effects(u) /\ PageTyped(u)
        BY <1>1, <1>4, <1>6
    <2> QED BY <1>5, <2>1, EffectsOK
<1>8. DrawnOK(stream', kept', ui', due')
    BY <1>7 DEF DrawnOK
<1>9. NamesTyped'
    <2>1. changes \in Nat
        BY DEF IInv, NamesTyped
    <2>2. changes' \in Nat
        BY <1>1, <2>1
    <2> QED BY <1>1, <1>7, <2>2 DEF IInv, NamesTyped
<1> QED BY <1>1, <1>4, <1>7, <1>8, <1>9 DEF IInv

LEMMA handleCursorMoveKeeps ==
    ASSUME IInv, NEW i \in 1..Cardinality(Trials), handleCursorMove(i) PROVE IInv'
<1>0. i \in Nat
    BY CurveAssumption, FS_CardinalityType
<1>1. /\ ui' = [ui EXCEPT !.focus = i]
      /\ UNCHANGED <<points, ended, stream, kept, names, due, changes, faults>>
    BY DEF handleCursorMove
<1>2. /\ PageTyped(ui') /\ ui'.shown = ui.shown /\ ui'.error = ui.error
      /\ ui'.ids = ui.ids /\ ui'.chart = ui.chart /\ ui'.loaded = ui.loaded
    BY <1>0, <1>1 DEF IInv, PageTyped, Pages
<1>3. DrawnOK(stream', kept', ui', due')
    BY <1>1, <1>2 DEF IInv, DrawnOK
<1> QED BY <1>1, <1>2, <1>3 DEF IInv, NamesTyped

LEMMA NamesArriveKeeps == ASSUME IInv, NamesArrive PROVE IInv'
<1>1. /\ names' = [st |-> "check", sent |-> names.sent \cup MetricNames,
                   offered |-> names.offered \cup MetricNames]
      /\ UNCHANGED <<points, ended, stream, kept, changes, faults>>
    BY DEF NamesArrive
<1>2. MetricNames \subseteq Metrics
    BY DEF MetricNames
<1>3. due' \in BOOLEAN
    BY DEF NamesArrive, IInv, NamesTyped, PageTyped, Pages
<1>4. NamesTyped'
    BY <1>1, <1>2, <1>3 DEF IInv, NamesTyped
<1>5. CASE ui.selected = None
    <2>1. ui' = [ui EXCEPT !.selected = Searcher] /\ due' = ui.shown
        BY <1>5 DEF NamesArrive
    <2>2. Searcher \in Metrics
        BY CurveAssumption DEF Searcher
    <2>3. /\ PageTyped(ui') /\ ui'.shown = ui.shown /\ ui'.error = ui.error
          /\ ui'.ids = ui.ids /\ ui'.chart = ui.chart /\ ui'.loaded = ui.loaded
        BY <2>1, <2>2 DEF IInv, PageTyped, Pages
    <2>4. ~due' => ~due
        BY <2>1 DEF IInv
    <2>5. DrawnOK(stream', kept', ui', due')
        BY <1>1, <2>3, <2>4 DEF IInv, DrawnOK
    <2> QED BY <1>1, <1>4, <2>1, <2>3, <2>5 DEF IInv
<1>6. CASE ui.selected # None
    <2>1. UNCHANGED <<ui, due>>
        BY <1>6 DEF NamesArrive
    <2> QED BY <1>1, <1>4, <2>1 DEF IInv
<1> QED BY <1>5, <1>6

LEMMA MetricNamesEndsKeeps == ASSUME IInv, MetricNamesEnds \/ NamesBreak PROVE IInv'
<1>1. /\ UNCHANGED <<points, ended, stream, kept, ui, due, changes>>
      /\ faults' = faults \/ faults' = faults + 1
    BY DEF MetricNamesEnds, NamesBreak
<1>2. PICK st \in {"query", "check", "done"} : names' = [names EXCEPT !.st = st]
    BY DEF MetricNamesEnds, NamesBreak
<1>3. NamesTyped'
    BY <1>1, <1>2 DEF IInv, NamesTyped
<1>4. faults > 0 => faults' > 0
    BY <1>1 DEF IInv, NamesTyped
<1> QED BY <1>1, <1>3, <1>4 DEF IInv

LEMMA ReportKeeps == ASSUME IInv, NEW t \in Trials, Report(t) PROVE IInv'
<1>1. /\ points' = [points EXCEPT ![t] = points[t] + 1] /\ points[t] < MaxPoints
      /\ UNCHANGED <<ended, stream, kept, ui, names, due, changes, faults>>
    BY DEF Report
<1>2. MaxPoints \in Nat
    BY CurveAssumption
<1>3. points' \in [Trials -> 0..MaxPoints] /\ \A x \in Trials : points[x] <= points'[x]
    BY <1>1, <1>2 DEF IInv
<1>4. StreamOK(points', stream, kept)
    <2> SUFFICES ASSUME stream.st = "open" PROVE CursorsOK(points', stream, kept)
        BY DEF IInv, StreamOK
    <2>1. CursorsOK(points, stream, kept)
        BY DEF IInv, StreamOK
    <2>2. \A x \in Trials : stream.cursors[x] \in Nat /\ points[x] \in Nat /\ points'[x] \in Nat
        BY <1>2, <1>3 DEF IInv, StreamTyped
    <2>3. stream.current \subseteq Trials
        BY DEF IInv, StreamTyped
    <2>4. \A x \in stream.current : stream.cursors[x] <= points'[x]
        BY <1>3, <2>1, <2>2, <2>3 DEF CursorsOK
    <2> QED BY <2>1, <2>4 DEF CursorsOK
<1> QED BY <1>1, <1>3, <1>4 DEF IInv, NamesTyped

LEMMA EndKeeps == ASSUME IInv, End PROVE IInv'
BY DEF End, IInv, NamesTyped

-----------------------------------------------------------------------------
(* The theorem. *)

LEMMA InitIInv == Init => IInv
<1> SUFFICES ASSUME Init PROVE IInv
    OBVIOUS
<1>1. PICK stored \in {None, "other"} :
         ui = [ids |-> <<>>, chart |-> <<>>, hps |-> {}, loaded |-> FALSE, of |-> None,
               selected |-> stored, max |-> Cardinality(Trials),
               shown |-> TRUE, error |-> FALSE, focus |-> 0]
    BY DEF Init
<1>2. points \in [Trials -> 0..MaxPoints]
    BY CurveAssumption DEF Init
<1>3. <<>> \in Seq(Trials) /\ <<>> \in Seq(SUBSET Nat) /\ Cardinality(Trials) \in Options
    BY DEF Options
<1>4. ui \in Pages
    BY <1>1, <1>3 DEF Pages
<1>5. PageTyped(ui) /\ ui.error = FALSE
    BY <1>1, <1>4 DEF PageTyped
<1>6. kept = NothingKept /\ due = FALSE
    BY DEF Init
<1>7. StreamTyped(stream) /\ StreamOK(points, stream, kept)
    <2>1. CASE ui.selected = None
        BY <2>1, NoStreamTyped DEF Init, StreamOK
    <2>2. CASE ui.selected # None
        <3>1. stream = Opened(ui.selected, ui.max)
            BY <2>2 DEF Init
        <3>2. ui.selected \in Metrics \cup {None, "other"} /\ ui.max \in Options
            BY <1>4 DEF Pages
        <3> QED BY <1>2, <1>6, <2>2, <3>1, <3>2, OpenedOK
    <2> QED BY <2>1, <2>2
<1>8. NamesTyped
    BY DEF Init, NamesTyped
<1>9. DrawnOK(stream, kept, ui, due)
    BY <1>6 DEF DrawnOK
<1> QED BY <1>2, <1>5, <1>6, <1>7, <1>8, <1>9, NothingKeptOK DEF IInv

LEMMA Invariance == Spec => []IInv
<1>1. IInv /\ [Next]_vars => IInv'
    <2> SUFFICES ASSUME IInv, [Next]_vars PROVE IInv'
        OBVIOUS
    <2>1. CASE UNCHANGED vars
        BY <2>1 DEF vars, IInv, NamesTyped
    <2>2. CASE TrialsSample \/ TrialsSampleEnds \/ RunEffects \/ Receive \/ StreamBreaks
        BY <2>2, TrialsSampleKeeps, TrialsSampleEndsKeeps, RunEffectsKeeps, ReceiveKeeps,
           StreamBreaksKeeps
    <2>3. CASE \E n \in Options : handleTopTrialsChange(n)
        BY <2>3, handleTopTrialsChangeKeeps
    <2>4. CASE \E m \in Metrics : handleMetricChange(m)
        BY <2>4, handleMetricChangeKeeps
    <2>5. CASE handleChartTypeChange
        BY <2>5, handleChartTypeChangeKeeps
    <2>6. CASE \E i \in 1..Cardinality(Trials) : handleCursorMove(i)
        BY <2>6, handleCursorMoveKeeps
    <2>7. CASE NamesArrive \/ MetricNamesEnds \/ NamesBreak \/ End
        BY <2>7, NamesArriveKeeps, MetricNamesEndsKeeps, EndKeeps
    <2>8. CASE \E t \in Trials : Report(t)
        BY <2>8, ReportKeeps
    <2> QED BY <2>1, <2>2, <2>3, <2>4, <2>5, <2>6, <2>7, <2>8 DEF Next
<1> QED BY <1>1, InitIInv, PTL DEF Spec

LEMMA IInvSuffices == IInv => DrawsWhatWasSent
<1> SUFFICES ASSUME IInv PROVE DrawsWhatWasSent
    OBVIOUS
<1>1. TypeOK
    <2>1. /\ stream.st \in {"none", "open", "broken"}
          /\ kept.ids \subseteq Trials /\ kept.hps \subseteq Trials
          /\ DOMAIN kept.data \subseteq Trials
        BY DEF IInv, StreamTyped, KeptTyped, Data
    <2>2. /\ DOMAIN ui.chart = DOMAIN ui.ids /\ (ui.loaded <=> ui.of # None)
          /\ ui.selected \in Metrics \cup {None, "other"} /\ ui.max \in Options
          /\ ui.ids \in Seq(Trials)
        BY DEF IInv, PageTyped, Pages
    <2>3. ToSet(ui.ids) \subseteq Trials
        BY <2>2 DEF ToSet
    <2> QED BY <2>1, <2>2, <2>3 DEF IInv, NamesTyped, TypeOK
<1>2. EventsRender
    BY DEF IInv, EventsRender
<1>3. CurveMatchesMaster
    <2> SUFFICES ASSUME stream.st = "open", stream.wire = <<>>, ~due, ui.loaded, kept # NothingKept
                 PROVE  /\ ToSet(ui.ids) = stream.current
                        /\ \A i \in DOMAIN ui.ids :
                              1..stream.cursors[ui.ids[i]] \subseteq ui.chart[i]
        BY DEF CurveMatchesMaster
    <2>1. /\ WireOK(stream, kept) /\ KeptOK(kept) /\ CursorsOK(points, stream, kept)
          /\ ui.ids = Sorted(kept.ids)
          /\ \A i \in DOMAIN ui.ids : ui.chart[i] = kept.data[ui.ids[i]]
        BY DEF IInv, StreamOK, DrawnOK
    <2>2. Len(<<>>) + 1 = 1 /\ DOMAIN <<>> = {}
        OBVIOUS
    <2>3. stream.current = kept.ids
        BY <2>1, <2>2 DEF WireOK, Before
    <2>4. kept.ids \in SUBSET Trials /\ Trials \subseteq Nat /\ IsFiniteSet(Trials)
        BY CurveAssumption DEF IInv, KeptTyped
    <2>5. ui.ids \in Seq(kept.ids) /\ ToSet(ui.ids) = kept.ids
        BY <2>1, <2>4, FS_Subset, SortedOK
    <2>6. ASSUME NEW i \in DOMAIN ui.ids
          PROVE  1..stream.cursors[ui.ids[i]] \subseteq ui.chart[i]
        <3>1. ui.ids[i] \in kept.ids
            BY <2>5
        <3>2. 1..stream.cursors[ui.ids[i]] \subseteq Sent(kept, <<>>, ui.ids[i])
            BY <2>1, <2>3, <3>1 DEF CursorsOK
        <3>3. Sent(kept, <<>>, ui.ids[i]) \subseteq kept.data[ui.ids[i]]
            BY <2>2 DEF Sent
        <3> QED BY <2>1, <3>2, <3>3
    <2> QED BY <2>3, <2>5, <2>6
<1> QED BY <1>1, <1>2, <1>3 DEF DrawsWhatWasSent

\* The page draws what the master sent: for every set of trials and any number
\* of values, messages on their way, changes and broken streams, no message of
\* TrialsSample makes the handler fail, and a page that has caught up draws the
\* trials the master takes for the best, each with every value up to its cursor.
THEOREM CurveIsTrue == Spec => []DrawsWhatWasSent
BY Invariance, IInvSuffices, PTL
=============================================================================
