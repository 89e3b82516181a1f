----------------------------- MODULE LogViewer -----------------------------
(***************************************************************************)
(* The component LogViewer (webui/react/src/components/LogViewer.tsx) as   *)
(* operators on a record: the entries it holds, by their ids, the range of *)
(* ids it believes to hold, whether it tails, where the user is, and the   *)
(* scrolling it has put off with setTimeout.  Sizes in pixels are left out:*)
(* an entry above or below moves what is seen.                             *)
(***************************************************************************)
EXTENDS Integers, Sequences, FiniteSets, SequencesExt

Top == "top"
Middle == "middle"
Bottom == "bottom"

NoMin == 1000000      \* Number.MAX_SAFE_INTEGER
NoMax == -1000000     \* Number.MIN_SAFE_INTEGER

(* clearLogs, and the viewer at first: it tails, and what was put off still*)
(* happens.  `prepended` says that scrollToInfo names the entry that was on*)
(* top before older ones came.                                             *)
Cleared(late) ==
    [logs |-> <<>>, min |-> NoMin, max |-> NoMax, tailing |-> TRUE, prepended |-> FALSE,
     pos |-> Top, timeouts |-> late \cup {"tail"}]

\* A mutant of NewLogs: entries that are there already are not left out.
NewLogsAll(v, added) == added

(* Entries inside the range are taken to be there already. *)
NewLogs(v, added) == SelectSeq(added, LAMBDA id : id < v.min \/ id > v.max)

\* A mutant of scrolling: the new entries are not scrolled to.
ScrollNowhere(v) == v

(* The layout effect of a change of the entries, of isTailing or of        *)
(* scrollToInfo: the tail is scrolled to, or else older entries keep what  *)
(* was on top in its place.                                                *)
scrolling(v) ==
    [v EXCEPT !.timeouts = @ \cup (IF v.tailing THEN {"tail"}
                                   ELSE IF v.prepended THEN {"restore"} ELSE {})]

(* addLogs, and the first entries are scrolled to the end of.  The bounds  *)
(* are taken from the first and the last new entry.                        *)
addLogs(v, added, prepend) ==
    LET new == NewLogs(v, added)
    IN  IF new = <<>> THEN v
        ELSE scrolling([v EXCEPT
                !.logs = IF prepend THEN new \o @ ELSE @ \o new,
                !.max = IF new[Len(new)] > @ THEN new[Len(new)] ELSE @,
                !.min = IF new[1] < @ THEN new[1] ELSE @,
                !.prepended = prepend /\ v.logs # <<>>,
                !.pos = IF prepend \/ @ # Bottom THEN @ ELSE Middle,
                !.timeouts = IF v.logs = <<>> THEN @ \cup {"tail"} ELSE @])

(* The scroll event: leaving the bottom ends the tailing, and the position *)
(* is then restored if older entries came last.                            *)
Scrolled(v, to) ==
    LET moved == [v EXCEPT !.pos = to, !.tailing = @ /\ to = Bottom]
    IN  IF moved.tailing = v.tailing THEN moved ELSE scrolling(moved)

(* onScrollToTop is called when the top is reached from elsewhere. *)
ReachesTop(v, to) == to = Top /\ v.pos # Top /\ v.logs # <<>>

handleEnableTailing(v) ==
    LET bottom == [v EXCEPT !.tailing = TRUE, !.pos = Bottom]
    IN  IF v.tailing THEN bottom ELSE scrolling(bottom)

(* A timeout: scrollTo, and the event that follows from it; an empty       *)
(* viewer does not move.  Restoring the position forgets scrollToInfo.     *)
TimedOut(v, what) ==
    LET late == [v EXCEPT !.timeouts = @ \ {what}]
        done == IF what = "restore" THEN scrolling([late EXCEPT !.prepended = FALSE]) ELSE late
    IN  IF v.logs = <<>> THEN done ELSE Scrolled(done, IF what = "tail" THEN Bottom ELSE Middle)
=============================================================================
