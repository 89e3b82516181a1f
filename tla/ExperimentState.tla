-------------------------- MODULE ExperimentState --------------------------
(***************************************************************************)
(* What the master makes of a request to change an experiment              *)
(* (master/internal/api_experiment.go, experiment.go).  `x` is a record    *)
(* with the experiment's state and archived, as the database has them.     *)
(* Cancelling and killing only begin the end: the request is answered as   *)
(* soon as the state is a stopping one and the trials have been told, and  *)
(* the state in which the experiment ends is written when its actor stops. *)
(* Experiments that fail are left out: STOPPING_ERROR is the one stopping  *)
(* state that may be activated again (ExperimentTransitions).              *)
(***************************************************************************)
RunningStates == {"ACTIVE", "PAUSED"}
StoppingStates == {"STOPPING_CANCELED"}
TerminalStates == {"CANCELED", "COMPLETED"}

\* A mutant of Accepts: an experiment that is stopping can be paused.
AcceptsStopping(a, x) ==
    CASE a \in {"Activate", "Pause"}    -> x.state \notin TerminalStates
      [] a \in {"Archive", "Unarchive"} -> x.state \in TerminalStates
      [] OTHER                          -> TRUE

(* No transition leads from a stopping state back to a running one, and an *)
(* experiment that has ended has no actor, so that pausing it is refused;  *)
(* cancelling or killing what is stopping or has ended succeeds.           *)
Accepts(a, x) ==
    CASE a \in {"Activate", "Pause"}    -> x.state \in RunningStates
      [] a \in {"Archive", "Unarchive"} -> x.state \in TerminalStates
      [] OTHER                          -> TRUE

Applied(a, x) ==
    CASE a = "Activate"  -> [x EXCEPT !.state = "ACTIVE"]
      [] a = "Pause"     -> [x EXCEPT !.state = "PAUSED"]
      [] a = "Archive"   -> [x EXCEPT !.archived = TRUE]
      [] a = "Unarchive" -> [x EXCEPT !.archived = FALSE]
      [] a \in {"Cancel", "Kill"} /\ x.state \in RunningStates
                         -> [x EXCEPT !.state = "STOPPING_CANCELED"]
      [] OTHER           -> x

(* PostStop, when the last trial is gone *)
Stopped(x) == [x EXCEPT !.state = "CANCELED"]
=============================================================================
