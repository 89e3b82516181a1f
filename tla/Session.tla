------------------------------ MODULE Session ------------------------------
(***************************************************************************)
(* Signing in and out in one browser tab of the web interface              *)
(* (webui/react/src).  `tab` is what the page's scripts read and write in  *)
(* one go: the cookie and the stored token (shared with the other tabs),   *)
(* the keys of the generated API clients, the Auth and UI contexts and the *)
(* location.  Requests are on their way between actions: the server makes  *)
(* up its mind (`ans`) at some moment, the tab hears of it later, and in   *)
(* between any other handler may run.  React renders synchronously after a *)
(* dispatch outside its own event handlers, so the effects that a new      *)
(* state causes (Effects) belong to the step that caused it.               *)
(***************************************************************************)
EXTENDS Naturals, FiniteSets

CONSTANTS
    Protected,   \* the routes with needAuth
    Home,        \* the default route
    MaxTokens,   \* sessions the server issues, the one before loading included
    MaxLogins,   \* times the form is submitted
    MaxErrors    \* answers that are neither success nor 401

ASSUME SessionAssumption ==
    /\ Home \in Protected
    /\ {"login", "logout"} \cap Protected = {}
    /\ MaxTokens \in Nat \ {0} /\ MaxLogins \in Nat /\ MaxErrors \in Nat

VARIABLES
    tab,       \* what the scripts of the page see
    server,    \* sessions issued and those still valid, errors so far
    checks,    \* the getCurrentUser request of each user of useAuthCheck
    logins,    \* the submissions of the form
    requests   \* what other pages have asked for

vars == <<tab, server, checks, logins, requests>>

None == 0
NoKey == MaxTokens + 1      \* apiKey: undefined, no header is sent
EmptyKey == MaxTokens + 2   \* 'Bearer ' + '' is a header all the same
Tokens == 1..MaxTokens
Pages == Protected \cup {"login", "logout"}
Hooks == {"router", "signin"}
Logins == 1..MaxLogins

defaultAuth == [checked |-> FALSE, isAuthenticated |-> FALSE, token |-> None]
-----------------------------------------------------------------------------
(* The contexts.  updateDetApi does not renew StreamingInternal: streamKey *)
(* is the key that its requests carry.                                     *)
updateDetApi(w, k) == [w EXCEPT !.key = k]

MarkChecked(w) == [w EXCEPT !.auth.checked = TRUE]

ResetChecked(w) == [w EXCEPT !.auth.checked = FALSE]

Reset(w) ==
    [updateDetApi(w, NoKey) EXCEPT
        !.cookie = None, !.stored = None, !.auth = defaultAuth]

\* A mutant of Set: the clients are not told of the token.
SetWithoutKey(w, t) ==
    [w EXCEPT
        !.stored = t,
        !.auth = [checked |-> TRUE, isAuthenticated |-> TRUE, token |-> t]]

(* The spinner, of the context UI. *)
ShowSpinner(w) == [w EXCEPT !.spinner = TRUE]
HideSpinner(w) == [w EXCEPT !.spinner = FALSE]

(* The Router hides the spinner when isAuthenticated turns true. *)
Set(w, t) ==
    [updateDetApi(w, t) EXCEPT
        !.stored = t,
        !.auth = [checked |-> TRUE, isAuthenticated |-> TRUE, token |-> t],
        !.spinner = @ /\ w.auth.isAuthenticated]

(* The token a request of the generated clients is judged by: the master   *)
(* looks at the cookie only when there is no header.                       *)
Effective(w) == IF w.key = NoKey THEN w.cookie ELSE w.key

Sent(w) == [eff |-> Effective(w), ans |-> "none"]

(* history.push, with what the page that it mounts does at once: the       *)
(* sign-in page resets `checked`, the sign-out page asks the server to end *)
(* the session and remembers the state it was pushed with.                 *)
push(w, p, redirect) ==
    LET moved == [w EXCEPT !.page = p, !.redirect = redirect]
    IN  IF p = w.page THEN moved
        ELSE CASE p = "login"  -> ResetChecked(moved)
               [] p = "logout" -> [moved EXCEPT !.signOuts = @ \cup
                                    {[back |-> redirect, req |-> Sent(moved)]}]
               [] OTHER        -> moved

(* routeAll within the application *)
routeAll(w, p) == push(w, p, w.page)

\* Mutants of handleAuthError: without the look at the page, and with a path
\* that is no route.
AuthErrorAnywhere(w) == push(w, "logout", w.page)

AuthErrorNowhere(w) ==
    IF w.page = "login" THEN w ELSE push(w, "signout", w.page)

(* handleError for ErrorType.Auth *)
handleAuthError(w) ==
    IF w.page = "login" THEN w ELSE push(w, "logout", w.page)

(* What rendering a state leads to: the Router sends a visitor who is known*)
(* not to be signed in to the sign-in page, and that page sends one who is *)
(* back to where he came from; a finished check takes the spinner away.    *)
Effects(w) ==
    LET shown == IF w.page \in Protected /\ w.auth.checked /\ ~w.auth.isAuthenticated
                 THEN push(w, "login", w.page) ELSE w
        quiet == IF shown.page = "login" /\ (shown.auth.checked \/ shown.auth.isAuthenticated)
                 THEN HideSpinner(shown) ELSE shown
    IN  IF quiet.page = "login" /\ quiet.auth.isAuthenticated
        THEN routeAll(quiet, IF quiet.redirect = "none" THEN Home ELSE quiet.redirect)
        ELSE quiet

(* Leaving the sign-in page aborts its request. *)
After(w, c) ==
    /\ tab' = w
    /\ checks' = IF w.page # "login" /\ c["signin"].st = "sent"
                 THEN [c EXCEPT !["signin"] = [st |-> "idle"]] ELSE c
-----------------------------------------------------------------------------
(* The page is loaded, or loaded again: the Router's check is due. *)
Load(cookie, stored, p, back) ==
    LET key == IF stored = None THEN EmptyKey ELSE stored
        w == [cookie |-> cookie, stored |-> stored, key |-> key, streamKey |-> key,
              auth |-> defaultAuth, spinner |-> TRUE, page |-> p, redirect |-> back,
              signOuts |-> {}]
    IN  IF p = "logout" THEN [w EXCEPT !.signOuts = {[back |-> back, req |-> Sent(w)]}]
        ELSE w

Init ==
    /\ \E cookie, stored \in {None, 1}, p \in Pages, back \in Protected \cup {"none"} :
          /\ p \in Protected => back = "none"
          /\ tab = Load(cookie, stored, p, back)
    /\ \E v \in SUBSET {1} : server = [issued |-> 1, valid |-> v, errors |-> 0]
    /\ checks = [h \in Hooks |-> [st |-> IF h = "router" THEN "due" ELSE "idle"]]
    /\ logins = [i \in Logins |-> [st |-> "idle"]]
    /\ requests = {}

\* Mutants of checkAuth: a visitor without a token is not marked as checked,
\* and the cookie is not looked at.
CheckAuthUnmarked(h) ==
    IF tab.stored = None
    THEN After(tab, [checks EXCEPT ![h] = [st |-> "idle"]])
    ELSE After(tab, [checks EXCEPT ![h] =
            [st |-> "sent", token |-> tab.stored, req |-> Sent(tab)]])

CheckAuthWithoutCookie(h) ==
    IF tab.stored = None
    THEN After(Effects(MarkChecked(tab)), [checks EXCEPT ![h] = [st |-> "idle"]])
    ELSE After(tab, [checks EXCEPT ![h] =
            [st |-> "sent", token |-> tab.stored, req |-> Sent(tab)]])

(* checkAuth: adopt the cookie's token, then ask whose token it is.  The   *)
(* Router checks once; the sign-in page polls, and every poll aborts the   *)
(* check before it.                                                        *)
checkAuth(h) ==
    LET adopted == IF tab.cookie = None THEN tab
                   ELSE updateDetApi([tab EXCEPT !.stored = tab.cookie], tab.cookie)
    IN  IF adopted.stored = None
        THEN After(Effects(MarkChecked(adopted)), [checks EXCEPT ![h] = [st |-> "idle"]])
        ELSE After(adopted, [checks EXCEPT ![h] =
                [st |-> "sent", token |-> adopted.stored, req |-> Sent(adopted)]])

RouterCheck ==
    /\ checks["router"].st = "due"
    /\ checkAuth("router")
    /\ UNCHANGED <<server, logins, requests>>

SignInPoll ==
    /\ tab.page = "login"
    /\ checkAuth("signin")
    /\ UNCHANGED <<server, logins, requests>>

CheckAnswered(h) ==
    /\ checks[h].st = "sent" /\ checks[h].req.ans # "none"
    /\ LET ans == checks[h].req.ans
           done == [checks EXCEPT ![h] = [st |-> IF ans = "err" THEN "failed" ELSE "idle"]]
       IN  CASE ans = "ok"   -> After(Effects(Set(tab, checks[h].token)), done)
             [] ans = "auth" -> After(Effects(MarkChecked(Reset(handleAuthError(tab)))), done)
             [] OTHER        -> After(tab, done)
    /\ UNCHANGED <<server, logins, requests>>
-----------------------------------------------------------------------------
(* DeterminedAuth.onFinish, up to each of its two awaits.  Typing a name   *)
(* makes the form submittable again while a submission is under way.       *)
Submit(i) ==
    /\ tab.page = "login" /\ tab.auth.checked
    /\ logins[i].st = "idle" /\ \A j \in 1..(i - 1) : logins[j].st # "idle"
    /\ logins' = [logins EXCEPT ![i] = [st |-> "login", ans |-> "none"]]
    /\ After(Effects(ShowSpinner(tab)), checks)
    /\ UNCHANGED <<server, requests>>

LoginAnswered(i) ==
    /\ logins[i].st = "login" /\ logins[i].ans # "none"
    /\ IF logins[i].ans = "ok"
       THEN LET t == logins[i].token
                w == updateDetApi([tab EXCEPT !.cookie = t], t)
            IN  /\ tab' = w
                /\ logins' = [logins EXCEPT ![i] =
                      [st |-> "user", token |-> t, req |-> Sent(w)]]
       ELSE /\ tab' = HideSpinner(tab)
            /\ logins' = [logins EXCEPT ![i] = [st |-> "done"]]
    /\ UNCHANGED <<server, checks, requests>>

LoginUserAnswered(i) ==
    /\ logins[i].st = "user" /\ logins[i].req.ans # "none"
    /\ LET ans == logins[i].req.ans
           t == logins[i].token
       IN  /\ CASE ans = "ok"   -> After(Effects(Set(tab, t)), checks)
                [] ans = "auth" -> After(Effects(HideSpinner(handleAuthError(tab))), checks)
                [] OTHER        -> After(HideSpinner(tab), checks)
           /\ logins' = [logins EXCEPT ![i] =
                 IF ans = "ok" THEN [st |-> "done"] ELSE [st |-> "failed", token |-> t]]
    /\ UNCHANGED <<server, requests>>
-----------------------------------------------------------------------------
(* A link of the navigation bar, which is there for whoever is signed in;  *)
(* nobody is so quick as to use it while he is being signed out.           *)
Navigate(p) ==
    /\ tab.auth.isAuthenticated /\ p # tab.page /\ tab.signOuts = {}
    /\ After(Effects(routeAll(tab, p)), checks)
    /\ UNCHANGED <<server, logins, requests>>

(* Any page fetches data; what comes back is not cancelled when it closes. *)
Fetch ==
    /\ tab.page \in Protected /\ tab.auth.isAuthenticated /\ requests = {}
    /\ requests' = {Sent(tab)}
    /\ UNCHANGED <<tab, server, checks, logins>>

FetchAnswered(r) ==
    /\ r.ans # "none"
    /\ requests' = requests \ {r}
    /\ After(IF r.ans = "auth" THEN Effects(handleAuthError(tab)) ELSE tab, checks)
    /\ UNCHANGED <<server, logins>>

\* A mutant of SignedOut: a request that fails ends the handler.
SignedOutIfServed(s) ==
    /\ s.req.ans # "none"
    /\ LET heard == [tab EXCEPT !.signOuts = @ \ {s}]
           w == IF s.req.ans = "auth" THEN handleAuthError(heard) ELSE heard
       IN  After(IF s.req.ans # "ok" THEN w
                 ELSE Effects(push(Reset(w), "login", s.back)), checks)
    /\ UNCHANGED <<server, logins, requests>>

(* SignOut, once the server has answered in whatever way. *)
SignedOut(s) ==
    /\ s.req.ans # "none"
    /\ LET heard == [tab EXCEPT !.signOuts = @ \ {s}]
           w == IF s.req.ans = "auth" THEN handleAuthError(heard) ELSE heard
       IN  After(Effects(push(Reset(w), "login", s.back)), checks)
    /\ UNCHANGED <<server, logins, requests>>
-----------------------------------------------------------------------------
(* The master: a request with a token that is not valid is refused; one    *)
(* with no token at all is malformed (400), which is not a 401.            *)
Answers(req) ==
    {IF req.eff \in server.valid THEN "ok" ELSE IF req.eff = None THEN "err" ELSE "auth"}
        \cup (IF server.errors < MaxErrors THEN {"err"} ELSE {})

Judged(req, a) == [req EXCEPT !.ans = a]

Served(req, a) ==
    server' = [server EXCEPT
        !.errors = IF a = "err" /\ req.eff # None THEN @ + 1 ELSE @]

AnswerCheck(h) ==
    /\ checks[h].st = "sent" /\ checks[h].req.ans = "none"
    /\ \E a \in Answers(checks[h].req) :
          /\ checks' = [checks EXCEPT ![h].req = Judged(@, a)]
          /\ Served(checks[h].req, a)
    /\ UNCHANGED <<tab, logins, requests>>

AnswerLogin(i) ==
    /\ logins[i].st = "login" /\ logins[i].ans = "none"
    /\ \/ /\ server.issued < MaxTokens
          /\ server' = [server EXCEPT !.issued = @ + 1, !.valid = @ \cup {server.issued + 1}]
          /\ logins' = [logins EXCEPT ![i] =
                [st |-> "login", ans |-> "ok", token |-> server.issued + 1]]
       \/ /\ logins' = [logins EXCEPT ![i].ans = "bad"]
          /\ UNCHANGED server
    /\ UNCHANGED <<tab, checks, requests>>

AnswerLoginUser(i) ==
    /\ logins[i].st = "user" /\ logins[i].req.ans = "none"
    /\ \E a \in Answers(logins[i].req) :
          /\ logins' = [logins EXCEPT ![i].req = Judged(@, a)]
          /\ Served(logins[i].req, a)
    /\ UNCHANGED <<tab, checks, requests>>

AnswerFetch(r) ==
    /\ r.ans = "none"
    /\ \E a \in Answers(r) : requests' = {Judged(r, a)} /\ Served(r, a)
    /\ UNCHANGED <<tab, checks, logins>>

AnswerLogout(s) ==
    /\ s.req.ans = "none"
    /\ \E a \in Answers(s.req) :
          /\ tab' = [tab EXCEPT !.signOuts =
                (@ \ {s}) \cup {[s EXCEPT !.req = Judged(@, a)]}]
          /\ server' = [server EXCEPT
                !.errors = IF a = "err" /\ s.req.eff # None THEN @ + 1 ELSE @,
                !.valid = IF a = "ok" THEN @ \ {s.req.eff} ELSE @]
    /\ UNCHANGED <<checks, logins, requests>>

(* Sessions run out, and other tabs of the browser share its cookie and    *)
(* its storage.                                                            *)
Expire(t) ==
    /\ t \in server.valid
    /\ server' = [server EXCEPT !.valid = @ \ {t}]
    /\ UNCHANGED <<tab, checks, logins, requests>>

OtherTabSignsIn ==
    /\ server.issued < MaxTokens
    /\ LET t == server.issued + 1
       IN  /\ server' = [server EXCEPT !.issued = t, !.valid = @ \cup {t}]
           /\ \E stored \in {tab.stored, t} :    \* an SSO sign-in leaves a cookie only
                 tab' = [tab EXCEPT !.cookie = t, !.stored = stored]
    /\ UNCHANGED <<checks, logins, requests>>

OtherTabSignsOut ==
    /\ tab.cookie \in server.valid
    /\ server' = [server EXCEPT !.valid = @ \ {tab.cookie}]
    /\ tab' = [tab EXCEPT !.cookie = None, !.stored = None]
    /\ UNCHANGED <<checks, logins, requests>>
-----------------------------------------------------------------------------
Running ==
    \/ SignInPoll \/ Fetch
    \/ \E h \in Hooks : CheckAnswered(h) \/ AnswerCheck(h)
    \/ \E i \in Logins :
          Submit(i) \/ LoginAnswered(i) \/ LoginUserAnswered(i)
          \/ AnswerLogin(i) \/ AnswerLoginUser(i)
    \/ \E p \in Protected \cup {"logout"} : Navigate(p)
    \/ \E r \in requests : FetchAnswered(r) \/ AnswerFetch(r)
    \/ \E s \in tab.signOuts : SignedOut(s) \/ AnswerLogout(s)
    \/ \E t \in Tokens : Expire(t)
    \/ OtherTabSignsIn \/ OtherTabSignsOut

(* Mounting the Router and its check are one go. *)
Next == RouterCheck \/ (checks["router"].st # "due" /\ Running)

Spec == Init /\ [][Next]_vars

(* Timers fire, the server answers and answers arrive.  A check that the   *)
(* sign-in page sent may be aborted by the next poll before it is answered,*)
(* so that some check is answered in time is a strong fairness condition.  *)
Fairness ==
    /\ WF_vars(RouterCheck) /\ WF_vars(SignInPoll)
    /\ SF_vars(AnswerCheck("signin")) /\ SF_vars(CheckAnswered("signin"))
    /\ WF_vars(\E s \in tab.signOuts : AnswerLogout(s))
    /\ WF_vars(\E s \in tab.signOuts : SignedOut(s))

FairSpec == Spec /\ Fairness
-----------------------------------------------------------------------------
(* Keys and tokens are numbers, pages are routes, requests have an answer. *)
TypeOK ==
    /\ tab.cookie \in {None} \cup Tokens /\ tab.stored \in {None} \cup Tokens
    /\ tab.key \in Tokens \cup {NoKey, EmptyKey}
    /\ tab.streamKey \in Tokens \cup {EmptyKey}
    /\ tab.page \in Pages /\ tab.redirect \in Pages \cup {"none"}
    /\ tab.spinner \in BOOLEAN
    /\ server.issued \in Tokens /\ server.valid \subseteq 1..server.issued
    /\ server.errors \in 0..MaxErrors
    /\ \A h \in Hooks : checks[h].st \in {"due", "idle", "sent", "failed"}
    /\ \A i \in Logins : logins[i].st \in {"idle", "login", "user", "done", "failed"}

(* Signing in leads back to a page of the application (SignIn's effect):   *)
(* however refusals, sign-outs and redirects overlap, neither the sign-in  *)
(* page nor a sign-out under way remembers /login or /logout as the place  *)
(* to return to.  From there the visitor would be signed out again, or     *)
(* redirected for ever.                                                    *)
LoginReturns ==
    /\ tab.page = "login" => tab.redirect \in Protected \cup {"none"}
    /\ \A s \in tab.signOuts : s.back \in Protected \cup {"none"}

(* The user shown is the one whose key the API clients send: a late check, *)
(* a sign-out and a submission of the form may overlap, but only a         *)
(* submission that has its token and not (or never got) its user may make  *)
(* them differ.                                                            *)
ShownUserOwnsKey ==
    tab.auth.isAuthenticated =>
        \/ tab.key = tab.auth.token
        \/ \E i \in Logins : logins[i].st \in {"user", "failed"} /\ logins[i].token = tab.key

(* A page that waits for a check waits for one that will come: a protected *)
(* route renders nothing until `checked`, so a check must be due or under  *)
(* way, or a sign-out that ends on the sign-in page, unless the Router's   *)
(* only check failed with an error of the server.                          *)
BlankPageIsWaiting ==
    tab.page \in Protected /\ ~tab.auth.checked =>
        checks["router"].st \in {"due", "sent", "failed"} \/ tab.signOuts # {}

(* SignIn.tsx: who authenticates in a different session is picked up by    *)
(* the poll and taken to the application.                                  *)
PicksUpSession ==
    (tab.page = "login" /\ tab.cookie \in server.valid)
        ~> (tab.page # "login" \/ tab.cookie \notin server.valid)

(* SignOut: whether the server ends the session, refuses or fails, the     *)
(* visitor ends up signed out.                                             *)
SignOutEnds == (tab.signOuts # {}) ~> ~tab.auth.isAuthenticated

(* updateDetApi "Update[s] references to generated API code with new       *)
(* configuration": while somebody is signed in every client, the streaming *)
(* ones included, sends his key.                                           *)
AllClientsRenewed == tab.auth.isAuthenticated => tab.streamKey = tab.key

(* The visitor is never stuck, in a circle of sign-ins and sign-outs or    *)
(* before a page that waits for nothing (routes, useAuthCheck, SignOut).   *)
NeverStuck == TypeOK /\ LoginReturns /\ BlankPageIsWaiting

(* The page follows the session: one that is opened elsewhere is taken up, *)
(* and one that the visitor ends is ended here (SignIn, SignOut).          *)
FollowsSession == PicksUpSession /\ SignOutEnds
=============================================================================
