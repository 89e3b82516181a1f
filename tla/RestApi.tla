------------------------------ MODULE RestApi ------------------------------
(***************************************************************************)
(* The hook useRestApi (webui/react/src/hooks/useRestApi.ts): what one use *)
(* of it keeps, as a record, and its steps.  `reqs` are the requests whose *)
(* promises are still to run; an answer is taken from the server at one    *)
(* time and arrives at a later one.                                        *)
(***************************************************************************)
EXTENDS FiniteSets

Undefined == <<>>           \* no data has arrived
Sent == [st |-> "sent"]
Answer(rows) == [st |-> "answered", rows |-> rows]

(* The state of the reducer before the effect ran *)
Unused == [data |-> Undefined, hasLoaded |-> FALSE, isLoading |-> FALSE, reqs |-> {}]

\* A mutant of Trigger: the effect has no cleanup.
TriggerUncancelled(r) == [r EXCEPT !.isLoading = TRUE, !.reqs = @ \cup {Sent}]

(* New parameters: the cleanup of the effect cancels the request under way *)
(* and the effect sends another.                                           *)
Trigger(r) == [r EXCEPT !.isLoading = TRUE, !.reqs = {Sent}]

(* The component goes: the request is cancelled and nothing is dispatched. *)
Dropped(r) == [r EXCEPT !.reqs = {}]

Served(r, rows) == [r EXCEPT !.reqs = (@ \ {Sent}) \cup {Answer(rows)}]

\* A mutant of SetData: the reducer does not note that data has arrived.
SetDataUnnoted(r, q) == [r EXCEPT !.data = q.rows, !.isLoading = FALSE, !.reqs = @ \ {q}]

(* defaultReducer on SetData and on SetError *)
SetData(r, q) ==
    [data |-> q.rows, hasLoaded |-> TRUE, isLoading |-> FALSE, reqs |-> r.reqs \ {q}]

\* A mutant of SetError: the reducer does not end the loading.
SetErrorOnly(r) == [r EXCEPT !.reqs = @ \ {Sent}]

SetError(r) == [r EXCEPT !.isLoading = FALSE, !.reqs = @ \ {Sent}]
=============================================================================
