--------------------------- MODULE SessionProofs ---------------------------
(***************************************************************************)
(* Proofs about Session, for every set of routes and every bound.          *)
(***************************************************************************)
EXTENDS Session, TLAPS

(***************************************************************************)
(* The inductive invariant.                                                *)
(***************************************************************************)
Places == Protected \cup {"none"}
Cookies == {None} \cup Tokens

Reqs == [eff : Cookies \cup {EmptyKey}, ans : {"none", "ok", "auth", "err"}]

Auths == [checked : BOOLEAN, isAuthenticated : BOOLEAN, token : Cookies]

Tabs ==
    [cookie : Cookies, stored : Cookies, key : Tokens \cup {NoKey, EmptyKey},
     streamKey : Tokens \cup {EmptyKey}, auth : Auths, spinner : BOOLEAN,
     page : Pages, redirect : Pages \cup {"none"},
     signOuts : SUBSET [back : Places, req : Reqs]]

Checks == [st : {"due", "idle", "failed"}] \cup [st : {"sent"}, token : Tokens, req : Reqs]

Forms ==
    [st : {"idle", "done"}]
        \cup [st : {"login"}, ans : {"none", "bad"}]
        \cup [st : {"login"}, ans : {"ok"}, token : Tokens]
        \cup [st : {"user"}, token : Tokens, req : Reqs]
        \cup [st : {"failed"}, token : Tokens]

\* A tab between two handlers: the sign-in page knows where to return to, and
\* whoever is signed in was checked and is not on the sign-in page.
Kept(w) ==
    /\ w \in Tabs
    /\ w.page = "login" => w.redirect \in Places
    /\ w.auth.isAuthenticated => w.auth.checked

Rendered(w) == w.page = "login" => ~w.auth.isAuthenticated

\* A blank page waits for the Router's check.
Waits(w, c) ==
    w.page \in Protected /\ ~w.auth.checked => c["router"].st \in {"due", "sent", "failed"}

\* The key is that of the user shown, or of a submission of the form.
Owned(w, l) ==
    w.auth.isAuthenticated =>
        \/ w.key = w.auth.token
        \/ \E i \in Logins : l[i].st \in {"user", "failed"} /\ l[i].token = w.key

ServerOK(s) ==
    /\ s \in [issued : Tokens, valid : SUBSET Tokens, errors : 0 .. MaxErrors]
    /\ s.valid \subseteq 1 .. s.issued

IInv ==
    /\ Kept(tab) /\ Rendered(tab) /\ Waits(tab, checks) /\ Owned(tab, logins)
    /\ ServerOK(server)
    /\ checks \in [Hooks -> Checks]
    /\ checks["router"].st = "due" => ~tab.auth.isAuthenticated
    /\ logins \in [Logins -> Forms]
    /\ requests \subseteq Reqs

-----------------------------------------------------------------------------
(* The contexts and the location. *)

\* Names of places and keys are told apart.
LEMMA Apart ==
    /\ Home \in Protected /\ "login" \notin Protected /\ "logout" \notin Protected
    /\ Protected \subseteq Pages /\ "login" \in Pages /\ "logout" \in Pages
    /\ 1 \in Tokens /\ None \notin Tokens /\ MaxTokens \in Nat
    /\ NoKey \notin Tokens /\ NoKey # EmptyKey /\ NoKey # None
  BY SessionAssumption DEF Pages, Tokens, None, NoKey, EmptyKey

\* What a move within the application leaves alone.
SameUser(w, v) ==
    /\ v.cookie = w.cookie /\ v.stored = w.stored /\ v.key = w.key
    /\ v.auth.isAuthenticated = w.auth.isAuthenticated /\ v.auth.token = w.auth.token

\* The token that a request is judged by is one the server can look up.
LEMMA SentType ==
    ASSUME NEW w \in Tabs PROVE Sent(w) \in Reqs /\ Sent(w).ans = "none"
<1>1. Effective(w) \in Cookies \cup {EmptyKey}
  BY DEF Effective, Tabs, Cookies
<1> QED
  BY <1>1 DEF Sent, Reqs

\* push: the sign-in page is told a place to return to, and so is a sign-out
\* that starts.
LEMMA PushKept ==
    ASSUME NEW w \in Tabs, w.auth.isAuthenticated => w.auth.checked,
           NEW p \in Pages, NEW r \in Pages \cup {"none"},
           p = "login" => r \in Places /\ ~w.auth.isAuthenticated,
           p = "logout" /\ p # w.page => r \in Places
    PROVE  LET v == push(w, p, r)
           IN  /\ Kept(v) /\ SameUser(w, v) /\ v.page = p
               /\ p # "login" => v.auth = w.auth
<1> DEFINE moved == [w EXCEPT !.page = p, !.redirect = r]
           v == push(w, p, r)
<1>1. /\ moved \in Tabs /\ moved.page = p /\ moved.redirect = r
      /\ moved.cookie = w.cookie /\ moved.stored = w.stored /\ moved.key = w.key
      /\ moved.auth = w.auth /\ moved.signOuts = w.signOuts
  BY DEF Tabs
<1>2. v = IF p = w.page THEN moved
          ELSE IF p = "login" THEN ResetChecked(moved)
          ELSE IF p = "logout"
          THEN [moved EXCEPT !.signOuts = @ \cup {[back |-> r, req |-> Sent(moved)]}]
          ELSE moved
  BY DEF push
<1> HIDE DEF moved, v
<1>3. CASE v = moved /\ (p = w.page \/ (p # "login" /\ p # "logout"))
  BY <1>1, <1>3 DEF Kept, SameUser, v
<1>4. CASE p # w.page /\ p = "login"
  <2>1. moved.auth \in Auths
    BY <1>1 DEF Tabs
  <2>2. /\ v = [moved EXCEPT !.auth = [moved.auth EXCEPT !.checked = FALSE]]
        /\ [moved.auth EXCEPT !.checked = FALSE] \in Auths
    BY <1>1, <1>2, <1>4, <2>1 DEF ResetChecked, Tabs, Auths
  <2>3. /\ v \in Tabs /\ v.page = p /\ v.redirect = r
        /\ v.auth.isAuthenticated = w.auth.isAuthenticated /\ v.auth.token = w.auth.token
        /\ v.cookie = w.cookie /\ v.stored = w.stored /\ v.key = w.key
    BY <1>1, <2>1, <2>2 DEF Tabs, Auths
  <2> QED
    BY <1>4, <2>3 DEF Kept, SameUser, v
<1>5. CASE p # w.page /\ p = "logout"
  <2> DEFINE so == [back |-> r, req |-> Sent(moved)]
  <2>1. so \in [back : Places, req : Reqs]
    BY <1>1, <1>5, SentType
  <2>2. v = [moved EXCEPT !.signOuts = moved.signOuts \cup {so}]
    BY <1>2, <1>5
  <2> HIDE DEF so
  <2>3. moved.signOuts \cup {so} \in SUBSET [back : Places, req : Reqs]
    BY <1>1, <2>1 DEF Tabs
  <2>4. /\ v \in Tabs /\ v.page = p
        /\ v.auth = w.auth /\ v.cookie = w.cookie /\ v.stored = w.stored /\ v.key = w.key
    BY <1>1, <2>2, <2>3 DEF Tabs
  <2> QED
    BY <1>5, <2>4 DEF Kept, SameUser, v
<1> QED
  BY <1>2, <1>3, <1>4, <1>5

\* Marking, resetting, signing in and the spinner keep a tab's types; none of
\* them moves it.
LEMMA MarkCheckedKept ==
    ASSUME NEW w, Kept(w)
    PROVE  LET v == MarkChecked(w)
           IN  /\ Kept(v) /\ SameUser(w, v) /\ v.page = w.page /\ v.auth.checked
<1>1. w.auth \in Auths /\ w \in Tabs
  BY DEF Kept, Tabs
<1>2. [w.auth EXCEPT !.checked = TRUE] \in Auths
  BY <1>1 DEF Auths
<1>3. MarkChecked(w) = [w EXCEPT !.auth = [w.auth EXCEPT !.checked = TRUE]]
  BY <1>1 DEF MarkChecked, Tabs
<1> QED
  BY <1>1, <1>2, <1>3 DEF Kept, SameUser, Tabs, Auths

LEMMA ResetKept ==
    ASSUME NEW w, Kept(w)
    PROVE  LET v == Reset(w)
           IN  /\ Kept(v) /\ v.page = w.page /\ v.redirect = w.redirect
               /\ ~v.auth.isAuthenticated /\ ~v.auth.checked
               /\ v.signOuts = w.signOuts
<1>1. defaultAuth \in Auths /\ None \in Cookies /\ NoKey \in Tokens \cup {NoKey, EmptyKey}
  BY DEF defaultAuth, Auths, Cookies
<1>2. Reset(w) = [w EXCEPT !.key = NoKey, !.cookie = None, !.stored = None, !.auth = defaultAuth]
  BY DEF Reset, updateDetApi
<1>3. ~defaultAuth.isAuthenticated /\ ~defaultAuth.checked
  BY DEF defaultAuth
<1> QED
  BY <1>1, <1>2, <1>3 DEF Kept, Tabs

LEMMA SetKept ==
    ASSUME NEW w, Kept(w), NEW t \in Tokens
    PROVE  LET v == Set(w, t)
           IN  /\ Kept(v) /\ v.page = w.page
               /\ v.auth.isAuthenticated /\ v.auth.checked /\ v.key = v.auth.token
<1> DEFINE a == [checked |-> TRUE, isAuthenticated |-> TRUE, token |-> t]
           spin == w.spinner /\ w.auth.isAuthenticated
<1>1. a \in Auths /\ t \in Cookies /\ spin \in BOOLEAN
  BY DEF Auths, Cookies
<1>2. Set(w, t) = [w EXCEPT !.key = t, !.stored = t, !.auth = a, !.spinner = spin]
  BY DEF Set, updateDetApi, Kept, Tabs
<1>3. a.checked /\ a.isAuthenticated /\ a.token = t
  OBVIOUS
<1> HIDE DEF a, spin
<1> QED
  BY <1>1, <1>2, <1>3, ZenonT(60) DEF Kept, Tabs

LEMMA SpinnerKept ==
    ASSUME NEW w, Kept(w), NEW b \in BOOLEAN
    PROVE  LET v == [w EXCEPT !.spinner = b]
           IN  Kept(v) /\ SameUser(w, v) /\ v.page = w.page /\ v.auth = w.auth
                  /\ v.redirect = w.redirect
  BY DEF Kept, SameUser, Tabs

\* handleAuthError: a refusal on a page of the application leads to a sign-out
\* that will return there.
LEMMA AuthErrorKept ==
    ASSUME NEW w, Kept(w)
    PROVE  LET v == handleAuthError(w)
           IN  /\ Kept(v) /\ SameUser(w, v) /\ v.page \in {"login", "logout"}
               /\ v.page = "login" => v = w
<1>1. CASE w.page = "login"
  BY <1>1 DEF handleAuthError, SameUser
<1>2. CASE w.page # "login"
  <2>1. handleAuthError(w) = push(w, "logout", w.page)
    BY <1>2 DEF handleAuthError
  <2>2. w.page \in Pages /\ (w.page # "logout" => w.page \in Places)
    BY <1>2 DEF Kept, Tabs, Pages, Places
  <2> DEFINE v == push(w, "logout", w.page)
  <2>3. Kept(v) /\ SameUser(w, v) /\ v.page = "logout"
    <3>1. "logout" \in Pages /\ w.page \in Pages \cup {"none"}
      BY <2>2, Apart
    <3>2. w \in Tabs /\ (w.auth.isAuthenticated => w.auth.checked)
      BY DEF Kept
    <3>3. "logout" = "login" => w.page \in Places /\ ~w.auth.isAuthenticated
      OBVIOUS
    <3> QED
      BY <2>2, <3>1, <3>2, <3>3, PushKept
  <2> HIDE DEF v
  <2> QED
    BY <2>1, <2>3 DEF v
<1> QED
  BY <1>1, <1>2

\* Effects: a rendered tab is not both signed in and on the sign-in page, and
\* rendering uncovers no page that waits for a check.
LEMMA EffectsKept ==
    ASSUME NEW w, Kept(w)
    PROVE  LET v == Effects(w)
           IN  /\ Kept(v) /\ Rendered(v) /\ SameUser(w, v)
               /\ v.page \in Protected /\ ~v.auth.checked
                     => w.page \in Protected /\ ~w.auth.checked
<1> DEFINE shown == IF w.page \in Protected /\ w.auth.checked /\ ~w.auth.isAuthenticated
                    THEN push(w, "login", w.page) ELSE w
           quiet == IF shown.page = "login" /\ (shown.auth.checked \/ shown.auth.isAuthenticated)
                    THEN HideSpinner(shown) ELSE shown
           v == Effects(w)
<1>1. v = IF quiet.page = "login" /\ quiet.auth.isAuthenticated
          THEN routeAll(quiet, IF quiet.redirect = "none" THEN Home ELSE quiet.redirect)
          ELSE quiet
  BY DEF Effects
<1>2. /\ Kept(shown) /\ SameUser(w, shown)
      /\ shown = w \/ shown.page = "login"
  <2>1. CASE w.page \in Protected /\ w.auth.checked /\ ~w.auth.isAuthenticated
    <3>1. w.page \in Places /\ w.page \in Pages
      BY <2>1, Apart DEF Places
    <3> QED
      BY <2>1, <3>1, Apart, PushKept DEF Kept
  <2>2. CASE ~(w.page \in Protected /\ w.auth.checked /\ ~w.auth.isAuthenticated)
    BY <2>2 DEF SameUser
  <2> QED
    BY <2>1, <2>2
<1> HIDE DEF shown
<1>3. /\ Kept(quiet) /\ SameUser(shown, quiet) /\ quiet.page = shown.page
      /\ quiet.auth = shown.auth
  BY <1>2, SpinnerKept DEF HideSpinner, SameUser
<1> HIDE DEF quiet, v
<1>4. SameUser(w, quiet)
  BY <1>2, <1>3 DEF SameUser
<1>5. CASE quiet.page = "login" /\ quiet.auth.isAuthenticated
  <2> DEFINE to == IF quiet.redirect = "none" THEN Home ELSE quiet.redirect
  <2>1. to \in Protected
    BY <1>3, <1>5, Apart DEF Kept, Places
  <2>2. v = push(quiet, to, "login")
    BY <1>1, <1>5 DEF routeAll
  <2> HIDE DEF to
  <2>3. to \in Pages /\ to # "login" /\ to # "logout"
    BY <2>1, Apart
  <2>4. Kept(v) /\ SameUser(quiet, v) /\ v.page = to /\ v.auth = quiet.auth
    BY <1>3, <2>2, <2>3, PushKept DEF Kept, Pages
  <2>5. v.auth.checked
    BY <1>3, <1>5, <2>4 DEF Kept
  <2> QED
    BY <1>4, <2>3, <2>4, <2>5 DEF SameUser, Rendered, v
<1>6. CASE ~(quiet.page = "login" /\ quiet.auth.isAuthenticated)
  <2>1. v = quiet
    BY <1>1, <1>6
  <2>2. quiet.page \in Protected => quiet.page = w.page /\ quiet.auth = w.auth
    BY <1>2, <1>3, Apart
  <2> QED
    BY <1>3, <1>4, <1>6, <2>1, <2>2 DEF Rendered, v
<1> QED
  BY <1>5, <1>6

-----------------------------------------------------------------------------
(* What the steps have in common. *)

\* The user shown and the key stay together when neither changes.
LEMMA OwnedKept ==
    ASSUME NEW w, NEW v, NEW l, Owned(w, l), SameUser(w, v) PROVE Owned(v, l)
  BY DEF Owned, SameUser

\* A handler that leaves a good tab and good checks keeps the invariant: the
\* request that leaving the sign-in page aborts is not the Router's.
LEMMA AfterIInv ==
    ASSUME NEW w, NEW c \in [Hooks -> Checks], After(w, c),
           Kept(w), Rendered(w), Waits(w, c), Owned(w, logins'),
           c["router"].st = "due" => ~w.auth.isAuthenticated,
           ServerOK(server'), logins' \in [Logins -> Forms], requests' \subseteq Reqs
    PROVE  IInv'
<1>1. /\ checks' \in [Hooks -> Checks]
      /\ checks'["router"] = c["router"]
  <2>1. [st |-> "idle"] \in Checks /\ "signin" \in Hooks /\ "router" \in Hooks
    BY DEF Checks, Hooks
  <2> QED
    BY <2>1 DEF After
<1>2. tab' = w
  BY DEF After
<1>3. Waits(w, checks')
  BY <1>1 DEF Waits
<1>4. Kept(tab)' /\ Rendered(tab)' /\ Waits(tab, checks)' /\ Owned(tab, logins)' /\ ServerOK(server)'
  BY <1>2, <1>3 DEF Kept, Rendered, Waits, Owned, ServerOK
<1> QED
  BY <1>1, <1>2, <1>4 DEF IInv

\* The server's answer is of the kind the tab knows, and only errors are
\* counted.
LEMMA ServedKept ==
    ASSUME ServerOK(server), NEW r \in Reqs, NEW a \in Answers(r)
    PROVE  /\ Judged(r, a) \in Reqs /\ Judged(r, a).ans # "none"
           /\ Served(r, a) => ServerOK(server')
           /\ a = "err" /\ r.eff # None => server.errors + 1 \in 0 .. MaxErrors
<1>1. a \in {"ok", "auth", "err"}
  BY DEF Answers
<1>2. a = "err" /\ r.eff # None => server.errors < MaxErrors
  BY DEF Answers
<1>3. a = "err" /\ r.eff # None => server.errors + 1 \in 0 .. MaxErrors
  BY <1>2, SessionAssumption DEF ServerOK
<1>4. Judged(r, a) \in Reqs /\ Judged(r, a).ans # "none"
  BY <1>1 DEF Judged, Reqs
<1>5. Served(r, a) => ServerOK(server')
  BY <1>3 DEF ServerOK, Served
<1> QED
  BY <1>3, <1>4, <1>5

\* A session that is issued is the next one.
LEMMA IssuedKept ==
    ASSUME ServerOK(server), server.issued < MaxTokens,
           server' = [server EXCEPT !.issued = server.issued + 1,
                                    !.valid = server.valid \cup {server.issued + 1}]
    PROVE  server.issued + 1 \in Tokens /\ ServerOK(server')
<1> DEFINE n == server.issued
<1>1. n \in Nat /\ n + 1 \in Tokens /\ 1 .. n \subseteq 1 .. (n + 1) /\ n + 1 \in 1 .. (n + 1)
  BY SessionAssumption DEF ServerOK, Tokens
<1>2. server.valid \cup {n + 1} \in SUBSET Tokens /\ server.valid \cup {n + 1} \subseteq 1 .. (n + 1)
  BY <1>1 DEF ServerOK
<1>3. server'.issued = n + 1 /\ server'.valid = server.valid \cup {n + 1}
  BY DEF ServerOK
<1>4. server' \in [issued : Tokens, valid : SUBSET Tokens, errors : 0 .. MaxErrors]
  BY <1>1, <1>2 DEF ServerOK
<1> HIDE DEF n
<1> QED
  BY <1>1, <1>2, <1>3, <1>4 DEF ServerOK, n

-----------------------------------------------------------------------------
(* Loading the page, and the steps. *)

LEMMA InitIInv == Init => IInv
<1> SUFFICES ASSUME Init PROVE IInv
  OBVIOUS
<1>1. PICK cookie \in {None, 1}, stored \in {None, 1}, p \in Pages, back \in Places :
        /\ p \in Protected => back = "none"
        /\ tab = Load(cookie, stored, p, back)
  BY DEF Init, Places
<1> DEFINE key == IF stored = None THEN EmptyKey ELSE stored
           w == [cookie |-> cookie, stored |-> stored, key |-> key, streamKey |-> key,
                 auth |-> defaultAuth, spinner |-> TRUE, page |-> p, redirect |-> back,
                 signOuts |-> {}]
           so == [back |-> back, req |-> Sent(w)]
<1>2. /\ cookie \in Cookies /\ stored \in Cookies
      /\ key \in Tokens \cup {EmptyKey} /\ back \in Pages \cup {"none"}
      /\ defaultAuth \in Auths
  BY <1>1, Apart DEF Cookies, Places, defaultAuth, Auths
<1>3. w \in Tabs /\ w.auth = defaultAuth /\ w.page = p /\ w.redirect = back
  BY <1>2 DEF Tabs
<1>4. so \in [back : Places, req : Reqs]
  BY <1>3, SentType
<1>5. tab = IF p = "logout" THEN [w EXCEPT !.signOuts = {so}] ELSE w
  BY <1>1 DEF Load
<1> HIDE DEF w, so
<1>6. tab \in Tabs /\ tab.auth = defaultAuth /\ tab.page = p /\ tab.redirect = back
  BY <1>3, <1>4, <1>5 DEF Tabs
<1>7. ~defaultAuth.isAuthenticated /\ ~defaultAuth.checked
  BY DEF defaultAuth
<1>8. checks \in [Hooks -> Checks] /\ checks["router"].st = "due"
  BY DEF Init, Hooks, Checks
<1>9. ServerOK(server)
  <2>1. PICK v \in SUBSET {1} : server = [issued |-> 1, valid |-> v, errors |-> 0]
    BY DEF Init
  <2>2. v \in SUBSET Tokens /\ 0 \in 0 .. MaxErrors /\ v \subseteq 1 .. 1
    BY <2>1, Apart, SessionAssumption
  <2> QED
    BY <2>1, <2>2, Apart DEF ServerOK
<1>10. logins \in [Logins -> Forms] /\ requests \subseteq Reqs
  BY DEF Init, Forms
<1> QED
  BY <1>6, <1>7, <1>8, <1>9, <1>10 DEF IInv, Kept, Rendered, Waits, Owned

\* checkAuth adopts the cookie while nobody is shown as signed in.
LEMMA CheckAuthStep ==
    ASSUME IInv, NEW h \in Hooks, ~tab.auth.isAuthenticated, checkAuth(h),
           UNCHANGED <<server, logins, requests>>
    PROVE  IInv'
<1> DEFINE w == IF tab.cookie = None THEN tab
                ELSE updateDetApi([tab EXCEPT !.stored = tab.cookie], tab.cookie)
           marked == MarkChecked(w)
           quiet == [checks EXCEPT ![h] = [st |-> "idle"]]
           sent == [checks EXCEPT ![h] = [st |-> "sent", token |-> w.stored, req |-> Sent(w)]]
<1>1. /\ Kept(w) /\ w.page = tab.page /\ w.auth = tab.auth
  BY DEF IInv, Kept, Tabs, updateDetApi, Cookies
<1>2. /\ ServerOK(server') /\ logins' \in [Logins -> Forms] /\ requests' \subseteq Reqs
  BY DEF IInv, ServerOK
<1>3. IF w.stored = None THEN After(Effects(marked), quiet) ELSE After(w, sent)
  BY DEF checkAuth
<1> HIDE DEF w
<1>4. CASE w.stored = None
  <2>1. Kept(marked) /\ marked.auth.checked /\ ~marked.auth.isAuthenticated
    BY <1>1, MarkCheckedKept DEF SameUser
  <2> HIDE DEF marked
  <2> DEFINE v == Effects(marked)
  <2>2. /\ Kept(v) /\ Rendered(v) /\ ~v.auth.isAuthenticated
        /\ ~(v.page \in Protected /\ ~v.auth.checked)
    BY <2>1, EffectsKept DEF SameUser
  <2>3. quiet \in [Hooks -> Checks]
    BY DEF IInv, Checks
  <2>4. After(v, quiet)
    BY <1>3, <1>4
  <2> HIDE DEF v, quiet
  <2> QED
    BY <1>2, <2>2, <2>3, <2>4, AfterIInv DEF Waits, Owned
<1>5. CASE w.stored # None
  <2>1. w.stored \in Tokens /\ Sent(w) \in Reqs
    BY <1>1, <1>5, SentType DEF Kept, Tabs, Cookies
  <2>2. sent \in [Hooks -> Checks]
    BY <2>1 DEF IInv, Checks
  <2>3. Waits(w, sent)
    BY <1>1 DEF Waits, IInv, Hooks
  <2>4. Rendered(w) /\ Owned(w, logins') /\ ~w.auth.isAuthenticated
    BY <1>1 DEF Rendered, Owned
  <2>5. After(w, sent)
    BY <1>3, <1>5
  <2> HIDE DEF sent
  <2> QED
    BY <1>1, <1>2, <2>2, <2>3, <2>4, <2>5, AfterIInv
<1> QED
  BY <1>4, <1>5

\* An answer signs in, is refused, or fails; only a failure leaves a blank page
\* waiting for a check that will not come again.
LEMMA CheckAnsweredStep ==
    ASSUME IInv, NEW h \in Hooks, CheckAnswered(h), checks["router"].st # "due"
    PROVE  IInv'
<1> DEFINE ans == checks[h].req.ans
           end == [st |-> IF ans = "err" THEN "failed" ELSE "idle"]
           done == [checks EXCEPT ![h] = end]
<1>1. /\ checks[h] \in Checks /\ checks[h].st = "sent"
      /\ UNCHANGED <<server, logins, requests>>
  BY DEF CheckAnswered, IInv
<1>2. checks[h].token \in Tokens /\ ans \in {"ok", "auth", "err"}
  BY <1>1 DEF Checks, Reqs, CheckAnswered
<1>3. done \in [Hooks -> Checks] /\ done["router"].st # "due"
  BY DEF IInv, Checks, Hooks
<1>4. ans = "err" => Waits(tab, done)
  BY DEF IInv, Waits, Hooks
<1>5. /\ ServerOK(server') /\ logins' \in [Logins -> Forms] /\ requests' \subseteq Reqs
  BY <1>1 DEF IInv, ServerOK
<1>6. Kept(tab) /\ Rendered(tab) /\ Owned(tab, logins')
  BY <1>1 DEF IInv, Owned
<1>7. /\ ans = "ok" => After(Effects(Set(tab, checks[h].token)), done)
      /\ ans = "auth" => After(Effects(MarkChecked(Reset(handleAuthError(tab)))), done)
      /\ ans = "err" => After(tab, done)
  BY <1>2 DEF CheckAnswered
<1> HIDE DEF done, ans
<1>8. CASE ans = "ok"
  <2> DEFINE w == Set(tab, checks[h].token)
             v == Effects(w)
  <2>1. Kept(w) /\ w.auth.checked /\ w.key = w.auth.token
    BY <1>2, <1>6, SetKept
  <2> HIDE DEF w
  <2>2. /\ Kept(v) /\ Rendered(v) /\ v.key = v.auth.token
        /\ ~(v.page \in Protected /\ ~v.auth.checked)
    BY <2>1, EffectsKept DEF SameUser
  <2>3. After(v, done)
    BY <1>7, <1>8 DEF w
  <2> HIDE DEF v
  <2> QED
    BY <1>3, <1>5, <2>2, <2>3, AfterIInv DEF Waits, Owned
<1>9. CASE ans = "auth"
  <2> DEFINE refused == handleAuthError(tab)
             out == Reset(refused)
             w == MarkChecked(out)
             v == Effects(w)
  <2>1. Kept(refused)
    BY <1>6, AuthErrorKept
  <2> HIDE DEF refused
  <2>2. Kept(out) /\ ~out.auth.isAuthenticated
    BY <2>1, ResetKept
  <2> HIDE DEF out
  <2>3. Kept(w) /\ ~w.auth.isAuthenticated /\ w.auth.checked
    BY <2>2, MarkCheckedKept DEF SameUser
  <2> HIDE DEF w
  <2>4. /\ Kept(v) /\ Rendered(v) /\ ~v.auth.isAuthenticated
        /\ ~(v.page \in Protected /\ ~v.auth.checked)
    BY <2>3, EffectsKept DEF SameUser
  <2>5. After(v, done)
    BY <1>7, <1>9 DEF w, out, refused
  <2> HIDE DEF v
  <2> QED
    BY <1>3, <1>5, <2>4, <2>5, AfterIInv DEF Waits, Owned
<1>10. CASE ans = "err"
  BY <1>3, <1>4, <1>5, <1>6, <1>7, <1>10, AfterIInv
<1> QED
  BY <1>2, <1>8, <1>9, <1>10

\* A move or a refusal while a page is shown: the user and the key stay.
LEMMA MoveStep ==
    ASSUME IInv, checks["router"].st # "due",
           NEW w, Kept(w), SameUser(tab, w), ~(w.page \in Protected /\ ~w.auth.checked),
           After(Effects(w), checks), Owned(tab, logins'), logins' \in [Logins -> Forms],
           UNCHANGED server, requests' \subseteq Reqs
    PROVE  IInv'
<1> DEFINE v == Effects(w)
<1>1. /\ Kept(v) /\ Rendered(v) /\ SameUser(w, v)
      /\ ~(v.page \in Protected /\ ~v.auth.checked)
  BY EffectsKept
<1> HIDE DEF v
<1>2. Owned(v, logins') /\ Waits(v, checks)
  BY <1>1 DEF Owned, SameUser, Waits
<1>3. checks \in [Hooks -> Checks] /\ ServerOK(server')
  BY DEF IInv, ServerOK
<1> QED
  BY <1>1, <1>2, <1>3, AfterIInv DEF v

LEMMA SubmitStep ==
    ASSUME IInv, checks["router"].st # "due", NEW i \in Logins, Submit(i) PROVE IInv'
<1> DEFINE w == ShowSpinner(tab)
<1>1. Kept(w) /\ SameUser(tab, w) /\ w.page = "login"
  BY SpinnerKept DEF IInv, ShowSpinner, Submit
<1>2. logins' \in [Logins -> Forms]
  BY DEF IInv, Submit, Forms
<1>3. Owned(tab, logins')
  BY DEF IInv, Submit, Owned
<1>4. After(Effects(w), checks) /\ UNCHANGED <<server, requests>>
  BY DEF Submit
<1> HIDE DEF w
<1> QED
  BY <1>1, <1>2, <1>3, <1>4, Apart, MoveStep DEF IInv

LEMMA NavigateStep ==
    ASSUME IInv, checks["router"].st # "due",
           NEW p \in Protected \cup {"logout"}, Navigate(p)
    PROVE  IInv'
<1> DEFINE w == push(tab, p, tab.page)
<1>1. tab.page \in Protected \cup {"logout"} /\ tab.auth.checked
  BY DEF IInv, Kept, Rendered, Tabs, Pages, Navigate
<1>2. /\ tab \in Tabs /\ (tab.auth.isAuthenticated => tab.auth.checked)
      /\ p \in Pages /\ tab.page \in Pages \cup {"none"} /\ p # "login"
      /\ p = "logout" /\ p # tab.page => tab.page \in Places
  BY <1>1, Apart DEF IInv, Kept, Places
<1>3. Kept(w) /\ SameUser(tab, w) /\ w.auth.checked
  BY <1>1, <1>2, PushKept
<1>4. /\ After(Effects(w), checks) /\ UNCHANGED <<server, logins, requests>>
  BY DEF Navigate, routeAll
<1> HIDE DEF w
<1>5. /\ Owned(tab, logins') /\ logins' \in [Logins -> Forms]
      /\ requests' \subseteq Reqs
  BY <1>4 DEF IInv, Owned
<1> QED
  BY <1>3, <1>4, <1>5, MoveStep

\* A step that leaves the location and the Auth context alone.
LEMMA StayStep ==
    ASSUME IInv, Kept(tab'), tab'.page = tab.page, tab'.auth = tab.auth,
           checks' \in [Hooks -> Checks], checks'["router"].st = checks["router"].st,
           Owned(tab', logins'), ServerOK(server'),
           logins' \in [Logins -> Forms], requests' \subseteq Reqs
    PROVE  IInv'
<1>1. Waits(tab', checks') /\ Rendered(tab')
  BY DEF IInv, Waits, Rendered
<1>2. Kept(tab)' /\ Rendered(tab)' /\ Waits(tab, checks)' /\ Owned(tab, logins)' /\ ServerOK(server)'
  BY <1>1 DEF Kept, Rendered, Waits, Owned, ServerOK
<1> QED
  BY <1>2 DEF IInv

\* The submission that has got its token owns the key, whoever is shown.
LEMMA LoginAnsweredStep ==
    ASSUME IInv, NEW i \in Logins, LoginAnswered(i) PROVE IInv'
<1>1. logins[i] \in Forms /\ Kept(tab) /\ UNCHANGED <<server, checks, requests>>
  BY DEF IInv, LoginAnswered
<1>2. /\ checks' \in [Hooks -> Checks] /\ checks'["router"].st = checks["router"].st
      /\ ServerOK(server') /\ requests' \subseteq Reqs
  BY <1>1 DEF IInv, ServerOK
<1>3. CASE logins[i].ans = "ok"
  <2> DEFINE t == logins[i].token
             w == updateDetApi([tab EXCEPT !.cookie = t], t)
             form == [st |-> "user", token |-> t, req |-> Sent(w)]
  <2>1. t \in Tokens
    BY <1>1, <1>3 DEF Forms, LoginAnswered
  <2>2. w = [tab EXCEPT !.cookie = t, !.key = t]
    BY DEF updateDetApi
  <2>3. Kept(w) /\ w.page = tab.page /\ w.auth = tab.auth /\ w.key = t
    BY <1>1, <2>1, <2>2 DEF Kept, Tabs, Cookies
  <2>4. form \in Forms /\ form.st = "user" /\ form.token = t
    BY <2>1, <2>3, SentType DEF Forms, Kept
  <2>5. tab' = w /\ logins' = [logins EXCEPT ![i] = form]
    BY <1>3 DEF LoginAnswered
  <2> HIDE DEF w, form, t
  <2>6. logins' \in [Logins -> Forms] /\ logins'[i] = form
    BY <2>4, <2>5 DEF IInv
  <2>7. Owned(tab', logins')
    BY <2>3, <2>4, <2>5, <2>6 DEF Owned
  <2> QED
    BY <1>2, <2>3, <2>5, <2>6, <2>7, StayStep
<1>4. CASE logins[i].ans # "ok"
  <2>1. /\ tab' = [tab EXCEPT !.spinner = FALSE]
        /\ logins' = [logins EXCEPT ![i] = [st |-> "done"]]
    BY <1>4 DEF LoginAnswered, HideSpinner
  <2>2. Kept(tab') /\ SameUser(tab, tab') /\ tab'.page = tab.page /\ tab'.auth = tab.auth
    BY <1>1, <2>1, SpinnerKept
  <2>3. logins' \in [Logins -> Forms]
    BY <2>1 DEF IInv, Forms
  <2>4. \A j \in Logins : logins[j].st \in {"user", "failed"} => logins'[j] = logins[j]
    BY <2>1 DEF LoginAnswered, IInv
  <2>5. Owned(tab', logins')
    BY <2>2, <2>4 DEF Owned, SameUser, IInv
  <2> QED
    BY <1>2, <2>2, <2>3, <2>5, StayStep
<1> QED
  BY <1>3, <1>4

\* A submission gives its key up only to the user it has fetched.
LEMMA LoginUserAnsweredStep ==
    ASSUME IInv, checks["router"].st # "due", NEW i \in Logins, LoginUserAnswered(i)
    PROVE  IInv'
<1> DEFINE ans == logins[i].req.ans
           t == logins[i].token
           form == IF ans = "ok" THEN [st |-> "done"] ELSE [st |-> "failed", token |-> t]
<1>1. /\ logins[i] \in Forms /\ Kept(tab) /\ logins[i].st = "user"
      /\ UNCHANGED <<server, requests>> /\ logins' = [logins EXCEPT ![i] = form]
  BY DEF IInv, LoginUserAnswered
<1>2. t \in Tokens /\ ans \in {"ok", "auth", "err"}
  BY <1>1 DEF Forms, Reqs, LoginUserAnswered
<1>3. form \in Forms
  BY <1>2 DEF Forms
<1>4. logins' \in [Logins -> Forms]
  BY <1>1, <1>3 DEF IInv
<1>5. ans # "ok" => Owned(tab, logins')
  <2> SUFFICES ASSUME ans # "ok" PROVE Owned(tab, logins')
    OBVIOUS
  <2>1. form.st = "failed" /\ form.token = t
    OBVIOUS
  <2>2. \A j \in Logins : logins[j].st \in {"user", "failed"} =>
          logins'[j].st \in {"user", "failed"} /\ logins'[j].token = logins[j].token
    BY <1>1, <2>1 DEF IInv
  <2> QED
    BY <2>2 DEF Owned, IInv
<1>6. ServerOK(server') /\ requests' \subseteq Reqs /\ checks \in [Hooks -> Checks]
  BY <1>1 DEF IInv, ServerOK
<1>7. /\ ans = "ok" => After(Effects(Set(tab, t)), checks)
      /\ ans = "auth" => After(Effects(HideSpinner(handleAuthError(tab))), checks)
      /\ ans = "err" => After(HideSpinner(tab), checks)
  BY <1>2 DEF LoginUserAnswered
<1> HIDE DEF ans, t, form
<1>8. CASE ans = "ok"
  <2> DEFINE w == Set(tab, t)
             v == Effects(w)
  <2>1. Kept(w) /\ w.auth.checked /\ w.key = w.auth.token
    BY <1>1, <1>2, SetKept
  <2> HIDE DEF w
  <2>2. /\ Kept(v) /\ Rendered(v) /\ v.key = v.auth.token
        /\ ~(v.page \in Protected /\ ~v.auth.checked)
    BY <2>1, EffectsKept DEF SameUser
  <2>3. After(v, checks)
    BY <1>7, <1>8 DEF w
  <2> HIDE DEF v
  <2> QED
    BY <1>4, <1>6, <2>2, <2>3, AfterIInv DEF Waits, Owned
<1>9. CASE ans = "auth"
  <2> DEFINE refused == handleAuthError(tab)
             w == [refused EXCEPT !.spinner = FALSE]
  <2>1. Kept(refused) /\ SameUser(tab, refused) /\ refused.page \notin Protected
    BY <1>1, Apart, AuthErrorKept
  <2> HIDE DEF refused
  <2>2. Kept(w) /\ SameUser(refused, w) /\ w.page = refused.page
    BY <2>1, SpinnerKept
  <2>3. After(Effects(w), checks)
    BY <1>7, <1>9 DEF refused, HideSpinner
  <2> HIDE DEF w
  <2>4. SameUser(tab, w)
    BY <2>1, <2>2 DEF SameUser
  <2> QED
    BY <1>1, <1>4, <1>5, <1>6, <1>9, <2>1, <2>2, <2>3, <2>4, MoveStep
<1>10. CASE ans = "err"
  <2> DEFINE w == [tab EXCEPT !.spinner = FALSE]
  <2>1. Kept(w) /\ SameUser(tab, w) /\ w.page = tab.page /\ w.auth = tab.auth
    BY <1>1, SpinnerKept
  <2>2. After(w, checks)
    BY <1>7, <1>10 DEF HideSpinner
  <2> HIDE DEF w
  <2>3. Rendered(w) /\ Waits(w, checks) /\ Owned(w, logins')
    BY <1>5, <1>10, <2>1 DEF IInv, Rendered, Waits, Owned, SameUser
  <2> QED
    BY <1>4, <1>6, <2>1, <2>2, <2>3, AfterIInv
<1> QED
  BY <1>2, <1>8, <1>9, <1>10

\* Pages fetch, and a refusal leads to the sign-out page.
LEMMA FetchSteps ==
    ASSUME IInv, checks["router"].st # "due",
           Fetch \/ \E r \in requests : FetchAnswered(r) \/ AnswerFetch(r)
    PROVE  IInv'
<1>1. CASE Fetch
  <2>1. requests' \subseteq Reqs
    BY <1>1, SentType DEF Fetch, IInv, Kept
  <2>2. UNCHANGED <<tab, server, checks, logins>>
    BY <1>1 DEF Fetch
  <2> QED
    BY <2>1, <2>2, StayStep DEF IInv, ServerOK, Kept, Owned
<1>2. CASE \E r \in requests : FetchAnswered(r)
  <2>1. PICK r \in requests : FetchAnswered(r)
    BY <1>2
  <2>2. UNCHANGED <<server, logins>> /\ requests' \subseteq Reqs
    BY <2>1 DEF FetchAnswered, IInv
  <2>3. /\ Owned(tab, logins') /\ logins' \in [Logins -> Forms]
        /\ ServerOK(server') /\ checks \in [Hooks -> Checks]
    BY <2>2 DEF IInv, Owned, ServerOK
  <2>4. CASE r.ans = "auth"
    <3> DEFINE w == handleAuthError(tab)
    <3>1. Kept(w) /\ SameUser(tab, w) /\ w.page \notin Protected
      BY Apart, AuthErrorKept DEF IInv
    <3>2. After(Effects(w), checks)
      BY <2>1, <2>4 DEF FetchAnswered
    <3> HIDE DEF w
    <3> QED
      BY <2>2, <2>3, <3>1, <3>2, MoveStep
  <2>5. CASE r.ans # "auth"
    <3>1. After(tab, checks)
      BY <2>1, <2>5 DEF FetchAnswered
    <3> QED
      BY <2>2, <2>3, <3>1, AfterIInv DEF IInv
  <2> QED
    BY <2>4, <2>5
<1>3. CASE \E r \in requests : AnswerFetch(r)
  <2>1. PICK r \in requests : AnswerFetch(r)
    BY <1>3
  <2>2. PICK a \in Answers(r) : requests' = {Judged(r, a)} /\ Served(r, a)
    BY <2>1 DEF AnswerFetch
  <2>3. r \in Reqs /\ ServerOK(server)
    BY DEF IInv
  <2>4. ServerOK(server') /\ requests' \subseteq Reqs
    BY <2>2, <2>3, ServedKept
  <2>5. UNCHANGED <<tab, checks, logins>>
    BY <2>1 DEF AnswerFetch
  <2> QED
    BY <2>4, <2>5, StayStep DEF IInv, Kept, Owned
<1> QED
  BY <1>1, <1>2, <1>3

\* SignOut: the handler resets the session and goes to the sign-in page, which
\* is told the place the sign-out started from.
LEMMA SignedOutStep ==
    ASSUME IInv, checks["router"].st # "due", NEW s \in tab.signOuts, SignedOut(s)
    PROVE  IInv'
<1> DEFINE heard == [tab EXCEPT !.signOuts = @ \ {s}]
           w == IF s.req.ans = "auth" THEN handleAuthError(heard) ELSE heard
           out == Reset(w)
           x == push(out, "login", s.back)
           v == Effects(x)
<1>1. s.back \in Places /\ Kept(heard)
  BY DEF IInv, Kept, Tabs
<1> HIDE DEF heard
<1>2. Kept(w)
  BY <1>1, AuthErrorKept
<1>3. After(v, checks) /\ UNCHANGED <<server, logins, requests>>
  BY DEF SignedOut, heard
<1> HIDE DEF w
<1>4. Kept(out) /\ ~out.auth.isAuthenticated
  BY <1>2, ResetKept
<1> HIDE DEF out
<1>5. Kept(x) /\ x.page = "login" /\ ~x.auth.isAuthenticated
  <2>1. /\ out \in Tabs /\ (out.auth.isAuthenticated => out.auth.checked)
        /\ "login" \in Pages /\ s.back \in Pages \cup {"none"}
    BY <1>1, <1>4, Apart DEF Kept, Places
  <2> QED
    BY <1>1, <1>4, <2>1, PushKept DEF SameUser
<1> HIDE DEF x
<1>6. /\ Kept(v) /\ Rendered(v) /\ ~v.auth.isAuthenticated
      /\ ~(v.page \in Protected /\ ~v.auth.checked)
  BY <1>5, Apart, EffectsKept DEF SameUser
<1> HIDE DEF v
<1>7. /\ logins' \in [Logins -> Forms] /\ requests' \subseteq Reqs
      /\ ServerOK(server') /\ checks \in [Hooks -> Checks]
  BY <1>3 DEF IInv, ServerOK
<1> QED
  BY <1>3, <1>6, <1>7, AfterIInv DEF Waits, Owned

\* The server's steps.
LEMMA AnswerSteps ==
    ASSUME IInv,
           \/ \E h \in Hooks : AnswerCheck(h)
           \/ \E i \in Logins : AnswerLogin(i) \/ AnswerLoginUser(i)
           \/ \E s \in tab.signOuts : AnswerLogout(s)
           \/ \E t \in Tokens : Expire(t)
    PROVE  IInv'
<1>1. ASSUME NEW h \in Hooks, AnswerCheck(h) PROVE IInv'
  <2>1. PICK a \in Answers(checks[h].req) :
          /\ checks' = [checks EXCEPT ![h].req = Judged(@, a)]
          /\ Served(checks[h].req, a)
    BY <1>1 DEF AnswerCheck
  <2>2. /\ checks[h].req \in Reqs /\ checks[h].token \in Tokens
        /\ checks[h] = [st |-> "sent", token |-> checks[h].token, req |-> checks[h].req]
    BY <1>1 DEF AnswerCheck, IInv, Checks
  <2>3. Judged(checks[h].req, a) \in Reqs /\ ServerOK(server')
    BY <2>1, <2>2, ServedKept DEF IInv
  <2>4. [checks[h] EXCEPT !.req = Judged(@, a)]
           = [st |-> "sent", token |-> checks[h].token, req |-> Judged(checks[h].req, a)]
    BY <2>2
  <2>5. checks' \in [Hooks -> Checks] /\ checks'["router"].st = checks["router"].st
    BY <2>1, <2>2, <2>3, <2>4 DEF IInv, Checks, Hooks
  <2>6. UNCHANGED <<tab, logins, requests>>
    BY <1>1 DEF AnswerCheck
  <2> QED
    BY <2>3, <2>5, <2>6, StayStep DEF IInv, Kept, Owned
<1>2. ASSUME NEW i \in Logins, AnswerLogin(i) PROVE IInv'
  <2>1. /\ logins[i].st = "login" /\ logins[i].ans = "none" /\ logins[i] \in Forms
        /\ UNCHANGED <<tab, checks, requests>>
    BY <1>2 DEF AnswerLogin, IInv
  <2>2. /\ logins' \in [Logins -> Forms] /\ ServerOK(server')
        /\ \A j \in Logins : j # i => logins'[j] = logins[j]
    <3>1. CASE /\ server.issued < MaxTokens
               /\ server' = [server EXCEPT !.issued = @ + 1, !.valid = @ \cup {server.issued + 1}]
               /\ logins' = [logins EXCEPT ![i] =
                     [st |-> "login", ans |-> "ok", token |-> server.issued + 1]]
      <4>1. server.issued + 1 \in Tokens /\ ServerOK(server')
        BY <3>1, IssuedKept DEF IInv
      <4> QED
        BY <3>1, <4>1 DEF IInv, Forms
    <3>2. CASE logins' = [logins EXCEPT ![i].ans = "bad"] /\ UNCHANGED server
      <4>1. [logins[i] EXCEPT !.ans = "bad"] = [st |-> "login", ans |-> "bad"]
        BY <2>1 DEF Forms
      <4> QED
        BY <3>2, <4>1 DEF IInv, Forms, ServerOK
    <3> QED
      BY <1>2, <3>1, <3>2 DEF AnswerLogin
  <2>3. Owned(tab', logins')
    BY <2>1, <2>2 DEF IInv, Owned
  <2> QED
    BY <2>1, <2>2, <2>3, StayStep DEF IInv, Kept
<1>3. ASSUME NEW i \in Logins, AnswerLoginUser(i) PROVE IInv'
  <2>1. PICK a \in Answers(logins[i].req) :
          /\ logins' = [logins EXCEPT ![i].req = Judged(@, a)]
          /\ Served(logins[i].req, a)
    BY <1>3 DEF AnswerLoginUser
  <2>2. /\ logins[i].req \in Reqs /\ logins[i].token \in Tokens
        /\ logins[i] = [st |-> "user", token |-> logins[i].token, req |-> logins[i].req]
    BY <1>3 DEF AnswerLoginUser, IInv, Forms
  <2>3. Judged(logins[i].req, a) \in Reqs /\ ServerOK(server')
    BY <2>1, <2>2, ServedKept DEF IInv
  <2>4. [logins[i] EXCEPT !.req = Judged(@, a)]
           = [st |-> "user", token |-> logins[i].token, req |-> Judged(logins[i].req, a)]
    BY <2>2
  <2>5. /\ logins' \in [Logins -> Forms]
        /\ \A j \in Logins : logins[j].st \in {"user", "failed"} =>
             logins'[j].st = logins[j].st /\ logins'[j].token = logins[j].token
    BY <2>1, <2>2, <2>3, <2>4 DEF IInv, Forms
  <2>6. UNCHANGED <<tab, checks, requests>>
    BY <1>3 DEF AnswerLoginUser
  <2>7. Owned(tab', logins')
    BY <2>5, <2>6 DEF IInv, Owned
  <2> QED
    BY <2>3, <2>5, <2>6, <2>7, StayStep DEF IInv, Kept
<1>4. ASSUME NEW s \in tab.signOuts, AnswerLogout(s) PROVE IInv'
  <2>1. PICK a \in Answers(s.req) :
          /\ tab' = [tab EXCEPT !.signOuts = (@ \ {s}) \cup {[s EXCEPT !.req = Judged(@, a)]}]
          /\ server' = [server EXCEPT
                !.errors = IF a = "err" /\ s.req.eff # None THEN @ + 1 ELSE @,
                !.valid = IF a = "ok" THEN @ \ {s.req.eff} ELSE @]
    BY <1>4 DEF AnswerLogout
  <2>2. s \in [back : Places, req : Reqs] /\ s.req \in Reqs /\ ServerOK(server)
    BY DEF IInv, Kept, Tabs
  <2>3. /\ Judged(s.req, a) \in Reqs
        /\ a = "err" /\ s.req.eff # None => server.errors + 1 \in 0 .. MaxErrors
    BY <2>2, ServedKept
  <2>4. ServerOK(server')
    BY <2>1, <2>2, <2>3 DEF ServerOK
  <2>5. [s EXCEPT !.req = Judged(@, a)] \in [back : Places, req : Reqs]
    BY <2>2, <2>3
  <2>6. Kept(tab') /\ SameUser(tab, tab') /\ tab'.page = tab.page /\ tab'.auth = tab.auth
    BY <2>1, <2>5 DEF IInv, Kept, Tabs, SameUser
  <2>7. UNCHANGED <<checks, logins, requests>>
    BY <1>4 DEF AnswerLogout
  <2>8. Owned(tab', logins')
    BY <2>6, <2>7 DEF IInv, Owned, SameUser
  <2> QED
    BY <2>4, <2>6, <2>7, <2>8, StayStep DEF IInv
<1>5. ASSUME NEW t \in Tokens, Expire(t) PROVE IInv'
  <2>1. ServerOK(server') /\ UNCHANGED <<tab, checks, logins, requests>>
    BY <1>5 DEF Expire, ServerOK, IInv
  <2> QED
    BY <2>1, StayStep DEF IInv, Kept, Owned
<1> QED
  BY <1>1, <1>2, <1>3, <1>4, <1>5

\* Another tab changes the cookie and what is stored, never this tab's key.
LEMMA OtherTabSteps ==
    ASSUME IInv, OtherTabSignsIn \/ OtherTabSignsOut PROVE IInv'
<1>1. PICK c \in Cookies, t \in Cookies : tab' = [tab EXCEPT !.cookie = c, !.stored = t]
  <2>1. CASE OtherTabSignsIn
    <3>1. server.issued + 1 \in Cookies /\ tab.stored \in Cookies
      BY <2>1, SessionAssumption
        DEF OtherTabSignsIn, IInv, ServerOK, Tokens, Kept, Tabs, Cookies
    <3> QED
      BY <2>1, <3>1 DEF OtherTabSignsIn
  <2>2. CASE OtherTabSignsOut
    BY <2>2 DEF OtherTabSignsOut, Cookies
  <2> QED
    BY <2>1, <2>2
<1>2. /\ Kept(tab') /\ tab'.page = tab.page /\ tab'.auth = tab.auth /\ tab'.key = tab.key
  BY <1>1 DEF IInv, Kept, Tabs
<1>3. UNCHANGED <<checks, logins, requests>>
  BY DEF OtherTabSignsIn, OtherTabSignsOut
<1>4. ServerOK(server')
  <2>1. CASE OtherTabSignsIn
    BY <2>1, IssuedKept DEF OtherTabSignsIn, IInv
  <2>2. CASE OtherTabSignsOut
    BY <2>2 DEF OtherTabSignsOut, IInv, ServerOK
  <2> QED
    BY <2>1, <2>2
<1>5. Owned(tab', logins')
  BY <1>2, <1>3 DEF IInv, Owned
<1> QED
  BY <1>2, <1>3, <1>4, <1>5, StayStep DEF IInv

-----------------------------------------------------------------------------
(* Every step keeps the invariant. *)
LEMMA NextIInv == IInv /\ [Next]_vars => IInv'
<1> SUFFICES ASSUME IInv, [Next]_vars PROVE IInv'
  OBVIOUS
<1>1. CASE UNCHANGED vars
  BY <1>1, StayStep DEF vars, IInv, Kept, Owned, ServerOK
<1>2. CASE RouterCheck
  <2>1. ~tab.auth.isAuthenticated /\ "router" \in Hooks
    BY <1>2 DEF RouterCheck, IInv, Hooks
  <2> QED
    BY <1>2, <2>1, CheckAuthStep DEF RouterCheck
<1>3. CASE checks["router"].st # "due" /\ Running
  <2>1. CASE SignInPoll
    <3>1. ~tab.auth.isAuthenticated /\ "signin" \in Hooks
      BY <2>1 DEF SignInPoll, IInv, Rendered, Hooks
    <3> QED
      BY <2>1, <3>1, CheckAuthStep DEF SignInPoll
  <2>2. CASE Fetch \/ \E r \in requests : FetchAnswered(r) \/ AnswerFetch(r)
    BY <1>3, <2>2, FetchSteps
  <2>3. ASSUME NEW h \in Hooks, CheckAnswered(h) PROVE IInv'
    BY <1>3, <2>3, CheckAnsweredStep
  <2>4. CASE \/ \E h \in Hooks : AnswerCheck(h)
             \/ \E i \in Logins : AnswerLogin(i) \/ AnswerLoginUser(i)
             \/ \E s \in tab.signOuts : AnswerLogout(s)
             \/ \E t \in Tokens : Expire(t)
    BY <2>4, AnswerSteps
  <2>5. ASSUME NEW i \in Logins, Submit(i) \/ LoginAnswered(i) \/ LoginUserAnswered(i)
        PROVE  IInv'
    BY <1>3, <2>5, SubmitStep, LoginAnsweredStep, LoginUserAnsweredStep
  <2>6. ASSUME NEW p \in Protected \cup {"logout"}, Navigate(p) PROVE IInv'
    BY <1>3, <2>6, NavigateStep
  <2>7. ASSUME NEW s \in tab.signOuts, SignedOut(s) PROVE IInv'
    BY <1>3, <2>7, SignedOutStep
  <2>8. CASE OtherTabSignsIn \/ OtherTabSignsOut
    BY <2>8, OtherTabSteps
  <2> QED
    BY <1>3, <2>1, <2>2, <2>3, <2>4, <2>5, <2>6, <2>7, <2>8 DEF Running
<1> QED
  BY <1>1, <1>2, <1>3 DEF Next

\* The invariant holds of every behaviour of the page.
THEOREM Invariance == Spec => []IInv
<1> QED
  BY InitIInv, NextIInv, PTL DEF Spec

\* The visitor is never stuck (routes, useAuthCheck, SignIn, SignOut): whatever
\* the order in which checks, sign-ins, sign-outs and refusals are answered,
\* signing in leads back to a page of the application, and a page that shows
\* nothing has a check or a sign-out to wait for.
THEOREM VisitorIsNeverStuck == Spec => []NeverStuck
<1>1. IInv => TypeOK
  <2> SUFFICES ASSUME IInv PROVE TypeOK
    OBVIOUS
  <2>1. \A h \in Hooks : checks[h].st \in {"due", "idle", "sent", "failed"}
    BY DEF IInv, Checks
  <2>2. \A i \in Logins : logins[i].st \in {"idle", "login", "user", "done", "failed"}
    BY DEF IInv, Forms
  <2> QED
    BY <2>1, <2>2 DEF IInv, Kept, Tabs, Cookies, ServerOK, TypeOK
<1>2. IInv => LoginReturns
  BY DEF IInv, Kept, Tabs, Places, LoginReturns
<1>3. IInv => BlankPageIsWaiting
  BY DEF IInv, Waits, BlankPageIsWaiting
<1>4. IInv => NeverStuck
  BY <1>1, <1>2, <1>3 DEF NeverStuck
<1> QED
  BY <1>4, Invariance, PTL

\* The user shown owns the key (contexts/Auth, updateDetApi): a late
\* check, a sign-out and submissions of the form may overlap in any way, and
\* only a submission between its token and its user makes the two differ.
THEOREM ShownUserAlwaysOwnsKey == Spec => []ShownUserOwnsKey
<1>1. IInv => ShownUserOwnsKey
  BY DEF IInv, Owned, ShownUserOwnsKey
<1> QED
  BY <1>1, Invariance, PTL
=============================================================================
