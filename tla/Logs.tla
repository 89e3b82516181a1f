-------------------------------- MODULE Logs --------------------------------
(***************************************************************************)
(* The pages of logs of the web interface.  `page` says which: the logs of *)
(* the master (pages/MasterLogs.tsx; TaskLogs.tsx is the same code with    *)
(* another endpoint) ask for older entries and poll for newer ones with    *)
(* two uses of useRestApi; the logs of a trial (pages/TrialLogs.tsx) read  *)
(* a stream that follows the log, and page back through it by offsets from *)
(* its end, which moves.  The log only grows; entries are known by their   *)
(* ids 0, 1, ...; the filter of the trial's page keeps the even ones.      *)
(***************************************************************************)
EXTENDS Integers, Sequences, FiniteSets, SequencesExt

CONSTANTS
    TailSize,    \* TAIL_SIZE, 1000 in the code
    InitLogs,    \* how many entries there may be when the page is opened
    MaxGrowth,   \* how many are written afterwards
    MaxOffset,   \* how many pages back the offset may go
    MaxFilters   \* how often the filter is changed

ASSUME LogsAssumption ==
    /\ TailSize \in Nat \ {0} /\ InitLogs \subseteq Nat /\ InitLogs # {}
    /\ MaxGrowth \in Nat /\ MaxOffset \in Nat /\ MaxFilters \in Nat

VARIABLES
    page,        \* "master" or "trial"
    total,       \* entries of the log
    opened,      \* entries when the page was opened
    view,        \* the LogViewer
    master,      \* the master's page: its range, what it asked for, its two requests,
                 \* and which of them failed that it never repeats
    trial,       \* the trial's page: the filter, paging, the stream and its buffer
    disturbed    \* whether something happened that the page does not cope with

vars == <<page, total, opened, view, master, trial, disturbed>>

V == INSTANCE LogViewer

Least(S) == CHOOSE x \in S : \A y \in S : x <= y
Greatest(S) == CHOOSE x \in S : \A y \in S : x >= y
-----------------------------------------------------------------------------
Matches(f, id) == f = "all" \/ id % 2 = 0

(* The log as a filter shows it *)
Entries(f, n) == SelectSeq([i \in 1..n |-> i - 1], LAMBDA id : Matches(f, id))

(* The master's buffer (LogBuffer.Entries): after an id the first `tail`   *)
(* entries, without one the last.  The buffer is taken to hold the whole   *)
(* log: that it forgets entries beyond its capacity is left out.           *)
Tail_(n) == LET from == Greatest({0, n - TailSize}) IN [i \in 1..(n - from) |-> from + i - 1]
After(gt, n) ==
    LET to == Least({n, gt + 1 + TailSize}) IN [i \in 1..(Greatest({to - gt - 1, 0})) |-> gt + i]

(* The trial's log (TrialLogs, EffectiveOffsetNLimit): offsets from the end*)
(* of what matches, not below its start, and a limit.                      *)
FromEnd(k, f, n) ==
    LET all == Entries(f, n)
        from == Greatest({0, Len(all) - k * TailSize})
    IN  SubSeq(all, from + 1, Least({Len(all), from + TailSize}))
-----------------------------------------------------------------------------
(* One use of useRestApi: a request cancels the one before. *)
NoRequest == [st |-> "none"]
Ask(gt) == [st |-> "sent", gt |-> gt]
Whole == -1          \* no greaterThanId

serveMaster(which) ==
    /\ page = "master" /\ master[which].st = "sent"
    /\ LET gt == master[which].gt
       IN  master' = [master EXCEPT ![which] =
              [st |-> "answered", rows |-> IF gt = Whole THEN Tail_(total) ELSE After(gt, total)]]
    /\ UNCHANGED <<page, total, opened, view, trial, disturbed>>

(* The request fails: useRestApi keeps the data it has.  `lost` is history:*)
(* which page asks no more for what this request was to bring.             *)
failMaster(which) ==
    /\ page = "master" /\ master[which].st = "sent"
    /\ master' = [master EXCEPT
          ![which] = NoRequest,
          !.lost = IF master[which].gt = Whole THEN @ \cup {which}
                   ELSE IF which = "older" THEN @ \cup {"page"} ELSE @]
    /\ UNCHANGED <<page, total, opened, view, trial, disturbed>>

(* The effect on an answer: nothing new, or the range grows and the viewer *)
(* is given the whole answer.                                              *)
Absorb(which, prepend) ==
    /\ page = "master" /\ master[which].st = "answered"
    /\ LET rows == master[which].rows
           news == /\ rows # <<>>
                   /\ IF prepend THEN rows[1] < master.min ELSE rows[Len(rows)] > master.max
       IN  /\ master' = [master EXCEPT
                 ![which] = NoRequest,
                 !.max = IF news THEN Greatest({@, rows[Len(rows)]}) ELSE @,
                 !.min = IF news THEN Least({@, rows[1]}) ELSE @]
           /\ view' = IF news THEN V!addLogs(view, rows, prepend) ELSE view
    /\ UNCHANGED <<page, total, opened, trial, disturbed>>

\* A mutant of olderArrive: the viewer is given the entries, the range stays.
OlderUnnoted ==
    /\ page = "master" /\ master.older.st = "answered"
    /\ master' = [master EXCEPT !.older = NoRequest]
    /\ view' = V!addLogs(view, master.older.rows, TRUE)
    /\ UNCHANGED <<page, total, opened, trial, disturbed>>

olderArrive == Absorb("older", TRUE)
newerArrive == Absorb("newer", FALSE)

\* A mutant of fetchNewerLogs: a page is left out.
FetchNewest ==
    /\ page = "master" /\ master.max >= 0
    /\ master' = [master EXCEPT !.newer = Ask(master.max + TailSize)]
    /\ UNCHANGED <<page, total, opened, view, trial, disturbed>>

fetchNewerLogs ==
    /\ page = "master" /\ master.max >= 0
    /\ master' = [master EXCEPT !.newer = Ask(master.max)]
    /\ UNCHANGED <<page, total, opened, view, trial, disturbed>>

\* A mutant of fetchOlderLogs: the comparison is the wrong way round.
FetchOlderNever(oldestLogId) ==
    LET startLogId == Greatest({0, oldestLogId - TailSize})
    IN  IF startLogId < master.oldestFetchedId THEN UNCHANGED master
        ELSE master' = [master EXCEPT !.oldestFetchedId = startLogId, !.older = Ask(startLogId)]

(* The page before the oldest entry; 0 is as far as it goes, and asking for*)
(* what comes after 0 leaves 0 itself out.                                 *)
fetchOlderLogs(oldestLogId) ==
    LET startLogId == Greatest({0, oldestLogId - TailSize})
    IN  IF startLogId >= master.oldestFetchedId THEN UNCHANGED master
        ELSE master' = [master EXCEPT !.oldestFetchedId = startLogId, !.older = Ask(startLogId)]
-----------------------------------------------------------------------------
(* getTrialDetails has been answered: the stream is opened.  It delivers   *)
(* the last TailSize entries that match and follows.                       *)
Stream(f, n) ==
    [at |-> Greatest({0, Len(Entries(f, n)) - TailSize}), buffer |-> <<>>]

trialLoaded ==
    /\ page = "trial" /\ ~trial.hasLoaded
    /\ trial' = [trial EXCEPT !.hasLoaded = TRUE, !.stream = Stream(trial.filter, total)]
    /\ UNCHANGED <<page, total, opened, view, master, disturbed>>

\* A mutant of streamEvent: every other entry is skipped.
StreamEventSkips ==
    /\ page = "trial" /\ trial.hasLoaded
    /\ LET all == Entries(trial.filter, total)
       IN  /\ trial.stream.at < Len(all)
           /\ trial' = [trial EXCEPT !.stream.at = @ + 2,
                                     !.stream.buffer = Append(@, all[trial.stream.at + 1])]
    /\ UNCHANGED <<page, total, opened, view, master, disturbed>>

streamEvent ==
    /\ page = "trial" /\ trial.hasLoaded
    /\ LET all == Entries(trial.filter, total)
       IN  /\ trial.stream.at < Len(all)
           /\ trial' = [trial EXCEPT !.stream.at = @ + 1,
                                     !.stream.buffer = Append(@, all[trial.stream.at + 1])]
    /\ UNCHANGED <<page, total, opened, view, master, disturbed>>

\* A mutant of throttleFunc: what is left of the buffer is not passed on.
FlushOne ==
    /\ page = "trial" /\ trial.stream.buffer # <<>>
    /\ view' = V!addLogs(view, <<trial.stream.buffer[1]>>, FALSE)
    /\ trial' = [trial EXCEPT !.stream.buffer = <<>>, !.isLoading = FALSE]
    /\ UNCHANGED <<page, total, opened, master, disturbed>>

throttleFunc ==
    /\ page = "trial" /\ trial.stream.buffer # <<>>
    /\ view' = V!addLogs(view, trial.stream.buffer, FALSE)
    /\ trial' = [trial EXCEPT !.stream.buffer = <<>>, !.isLoading = FALSE]
    /\ UNCHANGED <<page, total, opened, master, disturbed>>

(* handleScrollToTop: another page back, under the filter of this render.  *)
(* Nothing keeps a second request from being sent before the first one is  *)
(* answered, and it then asks for the same page.                           *)
loadHistory ==
    IF trial.oldestReached THEN UNCHANGED trial
    ELSE trial' = [trial EXCEPT !.history = @ \cup
            {[k |-> trial.offset + 1, f |-> trial.filter, oldestId |-> trial.oldestId, st |-> "sent"]}]

serveHistory(r) ==
    /\ r.st = "sent"
    /\ trial' = [trial EXCEPT !.history = (@ \ {r}) \cup
          {[k |-> r.k, f |-> r.f, oldestId |-> r.oldestId, st |-> "answered",
            rows |-> FromEnd(r.k, r.f, total)]}]
    /\ UNCHANGED <<page, total, opened, view, master, disturbed>>

(* A page of a short log holds entries that the tail has yet to bring. *)
Overtakes(rows) == rows # <<>> /\ rows[Len(rows)] > view.max

\* A mutant of historyArrives: any older id ends the paging.
HistoryGivesUp(r) ==
    /\ r.st = "answered" /\ trial.offset < MaxOffset
    /\ LET left == trial.history \ {r}
       IN  IF r.rows = <<>> \/ r.rows[1] <= r.oldestId
           THEN trial' = [trial EXCEPT !.history = left, !.oldestReached = TRUE] /\ UNCHANGED view
           ELSE /\ view' = V!addLogs(view, r.rows, TRUE)
                /\ trial' = [trial EXCEPT !.history = left, !.oldestId = r.rows[1], !.offset = @ + 1]
    /\ disturbed' = (disturbed \/ Overtakes(r.rows))
    /\ UNCHANGED <<page, total, opened, master>>

(* ... and when the page has been read to its end: the oldest id is the one*)
(* the request was sent with, the offset moves from where it now is.       *)
historyArrives(r) ==
    /\ r.st = "answered" /\ trial.offset < MaxOffset
    /\ LET left == trial.history \ {r}
       IN  IF r.rows = <<>> \/ r.rows[1] = r.oldestId
           THEN trial' = [trial EXCEPT !.history = left, !.oldestReached = TRUE] /\ UNCHANGED view
           ELSE /\ view' = V!addLogs(view, r.rows, TRUE)
                /\ trial' = [trial EXCEPT !.history = left, !.oldestId = r.rows[1], !.offset = @ + 1]
    /\ disturbed' = (disturbed \/ Overtakes(r.rows))
    /\ UNCHANGED <<page, total, opened, master>>

(* onFilterChange: the stream and its buffer are replaced, the viewer is   *)
(* cleared; the offset, the oldest id and requests for history stay.       *)
onFilterChange ==
    /\ page = "trial" /\ trial.changes < MaxFilters
    /\ LET f == IF trial.filter = "all" THEN "even" ELSE "all"
       IN  trial' = [trial EXCEPT !.filter = f, !.changes = @ + 1,
                        !.stream = IF trial.hasLoaded THEN Stream(f, total) ELSE @]
    /\ view' = V!Cleared(view.timeouts)
    /\ disturbed' = (disturbed \/ trial.history # {} \/ trial.offset # 1 \/ trial.oldestReached)
    /\ UNCHANGED <<page, total, opened, master>>
-----------------------------------------------------------------------------
(* The user scrolls once the layout has settled. *)
UserScrolls(to) ==
    /\ to # view.pos /\ view.logs # <<>> /\ view.timeouts = {}
    /\ view' = V!Scrolled(view, to)
    /\ IF ~V!ReachesTop(view, to) THEN UNCHANGED <<master, trial, disturbed>>
       ELSE \/ /\ page = "master"
               /\ fetchOlderLogs(view.logs[1] - 1)
               /\ UNCHANGED <<trial, disturbed>>
            \/ /\ page = "trial"
               /\ loadHistory
               /\ disturbed' = (disturbed \/ trial.history # {})
               /\ UNCHANGED master
    /\ UNCHANGED <<page, total, opened>>

EnableTailing ==
    /\ view.logs # <<>>
    /\ view' = V!handleEnableTailing(view)
    /\ UNCHANGED <<page, total, opened, master, trial, disturbed>>

Timeout(what) ==
    /\ what \in view.timeouts
    /\ view' = V!TimedOut(view, what)
    /\ UNCHANGED <<page, total, opened, master, trial, disturbed>>

Write ==
    /\ total < opened + MaxGrowth
    /\ total' = total + 1
    /\ disturbed' = (disturbed \/ total + 1 - opened >= TailSize)
    /\ UNCHANGED <<page, opened, view, master, trial>>

Init ==
    /\ page \in {"master", "trial"}
    /\ total \in InitLogs /\ opened = total
    /\ view = V!Cleared({})
    /\ master = [min |-> V!NoMin, max |-> V!NoMax, oldestFetchedId |-> V!NoMin,
                 older |-> Ask(Whole), newer |-> Ask(Whole), lost |-> {}]
    /\ trial = [hasLoaded |-> FALSE, isLoading |-> TRUE, filter |-> "all", changes |-> 0, offset |-> 1,
                oldestId |-> V!NoMin, oldestReached |-> FALSE, history |-> {},
                stream |-> [at |-> 0, buffer |-> <<>>]]
    /\ disturbed = FALSE

Next ==
    \/ \E w \in {"older", "newer"} : serveMaster(w) \/ failMaster(w)
    \/ olderArrive \/ newerArrive \/ fetchNewerLogs
    \/ trialLoaded \/ streamEvent \/ throttleFunc \/ onFilterChange
    \/ \E r \in trial.history : serveHistory(r) \/ historyArrives(r)
    \/ \E to \in {V!Top, V!Bottom} : UserScrolls(to)
    \/ EnableTailing \/ Write
    \/ \E w \in {"tail", "restore"} : Timeout(w)

Spec == Init /\ [][Next]_vars

(* Polls, timers and streams go on.  Requests may fail, but a page that    *)
(* asks again and again is answered now and then, before its next poll.    *)
Fairness ==
    /\ WF_vars(fetchNewerLogs) /\ WF_vars(olderArrive) /\ SF_vars(newerArrive)
    /\ \A w \in {"older", "newer"} : SF_vars(serveMaster(w))
    /\ WF_vars(trialLoaded) /\ WF_vars(streamEvent) /\ WF_vars(throttleFunc)
    /\ WF_vars(\E r \in trial.history : serveHistory(r) \/ historyArrives(r))
    /\ \A w \in {"tail", "restore"} : WF_vars(Timeout(w))

FairSpec == Spec /\ Fairness
-----------------------------------------------------------------------------
TypeOK ==
    /\ page \in {"master", "trial"} /\ total \in opened..(opened + MaxGrowth)
    /\ ToSet(view.logs) \subseteq 0..(total - 1)
    /\ view.pos \in {V!Top, V!Middle, V!Bottom} /\ view.timeouts \subseteq {"tail", "restore"}
    /\ master.older.st \in {"none", "sent", "answered"}
    /\ master.newer.st \in {"none", "sent", "answered"}
    /\ master.lost \subseteq {"older", "newer", "page"}
    /\ trial.offset \in 1..MaxOffset /\ trial.stream.at \in 0..total
    /\ disturbed \in BOOLEAN

(* No entry is shown twice, whatever overlaps: the page before and the     *)
(* tail, the answers to two requests, a stream and a page of history, the  *)
(* answers under an old and a new filter (addLogs).                        *)
NoDuplicates == Cardinality(ToSet(view.logs)) = Len(view.logs)

Shown == ToSet(view.logs)
All == Entries(trial.filter, total)

(* What is shown is a stretch of the log, in order and without a gap,      *)
(* unless two pages of history were asked for at once, one overtook the    *)
(* tail, the filter changed after paging back, or the log grew by a page.  *)
NoGaps ==
    ~disturbed => \E i \in 0..(Len(All) - Len(view.logs)) :
                     view.logs = SubSeq(All, i + 1, i + Len(view.logs))

(* The two ranges of ids, the page's and the viewer's, never drift apart,  *)
(* so that asking for newer entries continues where the viewer ends.       *)
RangesAgree == page = "master" => master.min = view.min /\ master.max = view.max

(* The trial's page stops paging back only at the first entry. *)
StopsAtTheStart ==
    page = "trial" /\ trial.oldestReached /\ ~disturbed /\ view.logs # <<>> => view.min = All[1]

(* The newest entry is shown in the end, and stays, although requests fail;*)
(* not by the page that polls if the log was empty when it was opened or   *)
(* both of its first requests failed, for it then never asks again         *)
(* (fetchNewerLogs returns while its range is empty).                      *)
CatchesUp ==
    <>[](\/ disturbed \/ All = <<>>
         \/ page = "master" /\ (opened = 0 \/ {"older", "newer"} \subseteq master.lost)
         \/ All[Len(All)] \in Shown)

(* A user who scrolls up again and again comes to the start of the log; of *)
(* the master's log to the second entry, as the first is never asked for   *)
(* unless it is in the tail, and not after a request for older entries has *)
(* failed: oldestFetchedId stays and keeps the page from being asked for   *)
(* again (fetchOlderLogs).                                                 *)
ReachesTheStart ==
    []<><<UserScrolls(V!Top)>>_vars =>
       <>(\/ disturbed \/ "page" \in master.lost
          \/ view.logs # <<>> /\ view.min <= (IF page = "master" THEN 1 ELSE All[1]))

(* A viewer that tails gets back to the end after entries were added. *)
TailingSticks == view.tailing /\ view.logs # <<>> ~> view.pos = V!Bottom \/ ~view.tailing \/ view.logs = <<>>

(* The viewer holds a true picture of the log: a stretch of it, each entry *)
(* once, which the page knows the bounds of and ends only at the start.    *)
TruePicture == TypeOK /\ NoDuplicates /\ NoGaps /\ RangesAgree /\ StopsAtTheStart

(* The end of the log is shown, and a viewer that tails stays at it. *)
FollowsTheEnd == CatchesUp /\ TailingSticks
=============================================================================
