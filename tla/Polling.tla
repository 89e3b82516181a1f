------------------------------ MODULE Polling ------------------------------
(***************************************************************************)
(* The hook usePolling (webui/react/src/hooks/usePolling.ts).  A function  *)
(* that changes is a new function: its versions are numbered.  A routine   *)
(* awaits its call and then sets a timer for itself; `ref` is timerId, the *)
(* one timer the hook knows of, `pending` what the browser has been asked  *)
(* to run, `awaiting` the calls that have not returned.                    *)
(***************************************************************************)
EXTENDS Naturals

VARIABLES
    poll,      \* [ref, pending, awaiting]
    version,   \* the version the page last rendered with
    mounted    \* whether the page is there

vars == <<poll, version, mounted>>

None == 0      \* timerId.current = undefined

(* pollingRoutine of version v, up to the await *)
Started(p, v) == [p EXCEPT !.awaiting = @ \cup {v}]

\* A mutant of Settled: the timer that is set is not cleared.
SettledBeside(p, v) ==
    [ref |-> v, pending |-> p.pending \cup {v}, awaiting |-> p.awaiting \ {v}]

(* ... and after it: clear the timer that is set, whose ever it is, and    *)
(* set one's own.                                                          *)
Settled(p, v) ==
    [ref |-> v, pending |-> (p.pending \ {p.ref}) \cup {v}, awaiting |-> p.awaiting \ {v}]

(* stopPolling: the cleanup of the effect, and what the hook returns *)
Stopped(p) == [p EXCEPT !.ref = None, !.pending = @ \ {p.ref}]

(* The timer of version v goes off; timerId keeps its number. *)
Fired(p, v) == Started([p EXCEPT !.pending = @ \ {v}], v)

(* The effect for a new version: clean up, then start. *)
Changed(p, v) == Started(Stopped(p), v)

Fresh == Started([ref |-> None, pending |-> {}, awaiting |-> {}], 1)
-----------------------------------------------------------------------------
Init == poll = Fresh /\ version = 1 /\ mounted = TRUE

Change ==
    /\ mounted
    /\ version' = version + 1
    /\ poll' = Changed(poll, version + 1)
    /\ UNCHANGED mounted

Settle(v) == v \in poll.awaiting /\ poll' = Settled(poll, v) /\ UNCHANGED <<version, mounted>>

Fire(v) == v \in poll.pending /\ poll' = Fired(poll, v) /\ UNCHANGED <<version, mounted>>

Unmount ==
    /\ mounted
    /\ mounted' = FALSE
    /\ poll' = Stopped(poll)
    /\ UNCHANGED version

Next == Change \/ Unmount \/ \E v \in 1..version : Settle(v) \/ Fire(v)

Spec == Init /\ [][Next]_vars
-----------------------------------------------------------------------------
(* However often the function changes while calls are under way, the hook  *)
(* has at most one timer, the one it can clear.                            *)
OneTimer(p) == p.pending \subseteq {p.ref}

(* Each version has one routine: it awaits or it has a timer, never both,  *)
(* so a page never polls faster than its delay.                            *)
OneRoutine(p) == p.pending \cap p.awaiting = {}

(* A page that is there never stops polling. *)
StillPolling(p, there) == there => p.pending \cup p.awaiting # {}
=============================================================================
