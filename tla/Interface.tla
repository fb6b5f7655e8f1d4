----------------------------- MODULE Interface ------------------------------
(* The terminal interface: the library it shows, the tables it is shown in,   *)
(* the questions it asks, and the work it starts.  Keys are handled one at a  *)
(* time by the update loop; loads, removals, syncs and installs run on        *)
(* goroutines of their own and come back as messages, in any order.           *)
EXTENDS Naturals, Sequences, FiniteSets, SequencesExt

CONSTANTS
  Titles,    \* numbered in the order of the catalog
  Sourced,   \* those in the source directories
  Pops,      \* PS1 titles: listed only when __.POPS can be mounted
  Capacity,  \* of queueEvents: 64
  MaxKeys    \* bound on the keys that are pressed, those of dialogs apart

Tables == {"source", "installed"}
Questions == {"remove", "install", "sync", "cancel", "quit"}
None == 0

ASSUME InterfaceAssumption ==
  /\ IsFiniteSet(Titles) /\ Titles \subseteq Nat \ {None}
  /\ Sourced \subseteq Titles /\ Pops \subseteq Titles
  /\ Capacity \in Nat \ {0} /\ MaxKeys \in Nat

VARIABLES
  drive,     \* titles that are on the drive
  shown,     \* those installed by the catalog on the screen
  offered,   \* those the catalog has from the source directories
  warned,    \* the last load failed, or could not list PS1 titles
  loads,     \* loads of the catalog under way, in the order they began
  cursor, selected, \* of each table
  hidden,    \* titles the search and the filter leave out of each table
  dialog,    \* the question or error on the screen, and what it is about
  removals,  \* sequences of removals: what is left, and how the last one went
  syncs,     \* artwork syncs under way
  waiting, working, failed, \* titles of the install queue, one being written
  stopping,  \* the pass that writes it was cancelled
  events,    \* queueEvents: what each update says
  waiters,   \* commands blocked on queueEvents
  arrived,   \* updates they took, on their way to the update loop
  quitting, keys,
  overtaken, \* what is shown is from a load that began before one that answered
  unread     \* no load has begun since a change that asked for none

ui == <<cursor, selected, hidden>>
queue == <<waiting, working, failed, stopping>>
stream == <<events, waiters, arrived>>
library == <<shown, offered, warned, overtaken>>
work == <<drive, removals, syncs, queue>>
vars == <<work, library, loads, ui, dialog, stream, quitting, keys, unread>>

NoDialog == [kind |-> "none", games |-> {}]
Notice == [NoDialog EXCEPT !.kind = "notice"]
Ask(k, games) == [kind |-> k, games |-> games]
HasChoice == dialog.kind \in Questions

Updates == {"complete", "other"}
Reading == [state |-> "reading", has |-> {}, late |-> FALSE]

Init ==
  /\ drive \in SUBSET Titles
  /\ shown = {} /\ offered = {} /\ warned = FALSE /\ overtaken = FALSE
  /\ loads = <<Reading>>
  /\ cursor = [t \in Tables |-> 0] /\ selected = [t \in Tables |-> {}]
  /\ hidden = [t \in Tables |-> {}]
  /\ dialog = NoDialog
  /\ removals = <<>> /\ syncs = 0
  /\ waiting = {} /\ working = None /\ failed = {} /\ stopping = FALSE
  /\ events = <<>> /\ waiters = 0 /\ arrived = [u \in Updates |-> 0]
  /\ quitting = FALSE /\ keys = 0 /\ unread = FALSE

-----------------------------------------------------------------------------
(* Tables *)

Listed(catalog, from, out) ==
  [t \in Tables |-> (IF t = "source" THEN from ELSE catalog) \ out[t]]
Rows(t) == Listed(shown, offered, hidden)[t]

Before(S, k) == Cardinality({j \in S : j < k})
CursorRow(S, c) == {k \in S : Before(S, k) = c}

\* clampCursor
Clamp(S, c) == IF S = {} THEN 0 ELSE IF c >= Cardinality(S) THEN Cardinality(S) - 1 ELSE c

\* The cursor's place when the rows are replaced: on the same title, if listed.
SetRows(old, new, c) ==
  LET same == CursorRow(old, c) \cap new
  IN IF same # {} THEN Before(new, CHOOSE k \in same : TRUE) ELSE Clamp(new, c)

refreshTables ==
  LET rows == Listed(shown', offered', hidden')
  IN cursor' = [t \in Tables |-> SetRows(Rows(t), rows[t], cursor[t])]

\* Mutant: what was selected, listed or not.
SelectedEver(t) ==
  IF selected[t] # {} THEN selected[t] ELSE CursorRow(Rows(t), cursor[t])

\* The rows that are selected, or else the one under the cursor.
Selected(t) ==
  LET marked == selected[t] \cap Rows(t)
  IN IF marked # {} THEN marked ELSE CursorRow(Rows(t), cursor[t])

-----------------------------------------------------------------------------
(* Keys *)

DialogKey == ~quitting /\ dialog # NoDialog /\ keys' = keys
FreeKey == ~quitting /\ dialog = NoDialog /\ keys < MaxKeys /\ keys' = keys + 1

\* Table.Update: arrows, pages, first and last.
Move(t) ==
  /\ FreeKey
  /\ \E c \in 0 .. Cardinality(Rows(t)) - 1 : cursor' = [cursor EXCEPT ![t] = c]
  /\ UNCHANGED <<work, library, loads, selected, hidden, dialog, stream, quitting, unread>>

\* Space: the row under the cursor is taken or left, and the next one reached.
ToggleSelection(t) ==
  /\ FreeKey /\ Rows(t) # {}
  /\ LET k == CursorRow(Rows(t), cursor[t])
     IN selected' = [selected EXCEPT ![t] = (@ \cup k) \ (@ \cap k)]
  /\ cursor' = [cursor EXCEPT ![t] = Clamp(Rows(t), @ + 1)]
  /\ UNCHANGED <<work, library, loads, hidden, dialog, stream, quitting, unread>>

SelectAll ==
  /\ FreeKey
  /\ selected' = [selected EXCEPT !["source"] = @ \cup Rows("source")]
  /\ UNCHANGED <<work, library, loads, cursor, hidden, dialog, stream, quitting, unread>>

ClearSelection(t) ==
  /\ FreeKey
  /\ selected' = [selected EXCEPT ![t] = {}]
  /\ UNCHANGED <<work, library, loads, cursor, hidden, dialog, stream, quitting, unread>>

\* handleSearchKey and the filters: other titles are listed.
Search ==
  /\ FreeKey
  /\ hidden' \in [Tables -> SUBSET Titles]
  /\ UNCHANGED library /\ refreshTables
  /\ UNCHANGED <<work, loads, selected, dialog, stream, quitting, unread>>

\* A command for the goroutine that loads the catalog.
loadCatalog(seq) == Append(seq, Reading)

\* Key r.
refreshAll ==
  /\ FreeKey
  /\ loads' = loadCatalog(loads) /\ unread' = FALSE
  /\ UNCHANGED <<work, library, ui, dialog, stream, quitting>>

\* Key i: what is installed by the catalog is skipped.
confirmInstall ==
  /\ FreeKey
  /\ LET installable == Selected("source") \ shown
     IN installable # {} /\ dialog' = Ask("install", installable)
  /\ UNCHANGED <<work, library, loads, ui, stream, quitting, unread>>

\* Key d.
confirmRemove ==
  /\ FreeKey
  /\ LET games == Selected("installed") \cap shown
     IN games # {} /\ dialog' = Ask("remove", games)
  /\ UNCHANGED <<work, library, loads, ui, stream, quitting, unread>>

\* Key a among the installed titles and among the artwork.
syncAssets ==
  /\ FreeKey
  /\ shown # {}
  /\ syncs' = syncs + 1
  /\ UNCHANGED <<drive, removals, queue, library, loads, ui, dialog, stream, quitting, unread>>

Pending == waiting # {} \/ working # None

\* Key c in the queue, q while something is queued, A among the artwork; ?.
AskOrTell ==
  /\ FreeKey
  /\ \/ Pending /\ \E k \in {"cancel", "quit"} : dialog' = Ask(k, {})
     \/ shown # {} /\ dialog' = Ask("sync", shown)
     \/ dialog' = Notice
  /\ UNCHANGED <<work, library, loads, ui, stream, quitting, unread>>

Clear ==
  /\ FreeKey
  /\ failed # {} /\ failed' = {}
  /\ UNCHANGED <<drive, removals, syncs, waiting, working, stopping, library, loads, ui, dialog, stream, quitting, unread>>

\* Key R: what failed waits again, and one more command for its updates.
Retry ==
  /\ FreeKey
  /\ failed # {}
  /\ waiting' = waiting \cup failed /\ failed' = {}
  /\ waiters' = waiters + 1
  /\ UNCHANGED <<drive, removals, syncs, working, stopping, library, loads, ui, dialog, events, arrived, quitting, unread>>

-----------------------------------------------------------------------------
(* Dialogs *)

\* esc, n, and enter where the button that does nothing is highlighted, as it is
\* when the dialog opens; which one is highlighted matters to nothing else.
Dismiss ==
  /\ DialogKey
  /\ dialog' = NoDialog
  /\ UNCHANGED <<work, library, loads, ui, stream, quitting, unread>>

enqueue(games) ==
  /\ waiting' = waiting \cup games
  /\ waiters' = waiters + 1
  /\ UNCHANGED <<drive, removals, syncs, working, failed, stopping, events, arrived, quitting>>

removeGames(games) ==
  /\ removals' = Append(removals, [todo |-> games, went |-> "busy"])
  /\ UNCHANGED <<drive, syncs, queue, stream, quitting>>

\* Queue.Cancel: what waits is cancelled, without an update, and the pass too.
Cancel ==
  /\ waiting' = {} /\ failed' = failed \cup waiting
  /\ stopping' = (stopping \/ working # None)
  /\ UNCHANGED <<drive, removals, syncs, working, stream>>

\* ctrl+c, and q while nothing is queued.
Quit ==
  /\ FreeKey
  /\ Cancel /\ quitting' = TRUE
  /\ UNCHANGED <<library, loads, ui, dialog, unread>>

\* y, or enter where the button that acts is highlighted.
runDialogAction ==
  /\ DialogKey /\ HasChoice
  /\ dialog' = NoDialog
  /\ \/ dialog.kind = "install" /\ enqueue(dialog.games)
     \/ dialog.kind = "remove" /\ removeGames(dialog.games)
     \/ dialog.kind = "sync" /\ syncs' = syncs + 1
        /\ UNCHANGED <<drive, removals, queue, stream, quitting>>
     \/ dialog.kind = "cancel" /\ Cancel /\ UNCHANGED quitting
     \/ dialog.kind = "quit" /\ Cancel /\ quitting' = TRUE
  /\ UNCHANGED <<library, loads, ui, unread>>

-----------------------------------------------------------------------------
(* The goroutines, and what the loop does when they come back *)

\* CatalogWith: the drive is read first, then the sources are scanned.
LoadReads(i) ==
  /\ ~quitting /\ loads[i].state = "reading"
  /\ \/ loads' = [loads EXCEPT ![i] = [@ EXCEPT !.state = "read", !.has = drive]]
     \/ loads' = [loads EXCEPT ![i] = [@ EXCEPT !.state = "partial", !.has = drive \ Pops]]
     \/ loads' = [loads EXCEPT ![i] = [@ EXCEPT !.state = "failed"]]
  /\ UNCHANGED <<work, library, ui, dialog, stream, quitting, keys, unread>>

\* Loads that began before one that has answered.
Overtake(i) ==
  [j \in DOMAIN loads |-> IF j < i THEN [loads[j] EXCEPT !.late = TRUE] ELSE loads[j]]

\* catalogLoadedMsg
catalogLoaded(i) ==
  /\ ~quitting /\ loads[i].state # "reading"
  /\ loads' = RemoveAt(Overtake(i), i)
  /\ warned' = (loads[i].state # "read")
  /\ IF loads[i].state = "failed"
     THEN UNCHANGED <<shown, offered, cursor, overtaken>>
     ELSE /\ shown' = loads[i].has
          /\ offered' = Sourced
          /\ overtaken' = loads[i].late
          /\ UNCHANGED hidden /\ refreshTables
  /\ UNCHANGED <<work, selected, hidden, dialog, stream, quitting, keys, unread>>

Went(i, t, how) ==
  removals' = [removals EXCEPT ![i] = [todo |-> @.todo \ {t}, went |-> how]]

\* tea.Sequence: one removal after the other, whatever became of it.  One that
\* fails may have deleted the title all the same.
RemoveNext(i) ==
  LET t == Min(removals[i].todo)
  IN /\ ~quitting /\ removals[i].went = "busy"
     /\ \/ t \in drive /\ drive' = drive \ {t} /\ Went(i, t, "done") /\ UNCHANGED unread
        \/ Went(i, t, "failed") /\ UNCHANGED <<drive, unread>>
        \/ t \in drive /\ drive' = drive \ {t} /\ Went(i, t, "failed") /\ unread' = TRUE
     /\ UNCHANGED <<syncs, queue, library, loads, ui, dialog, stream, quitting, keys>>

\* Mutant: the library is loaded once the last of them is removed.
removeDoneLast(i) ==
  LET r == removals[i]
  IN /\ ~quitting /\ r.went # "busy"
     /\ removals' = IF r.todo = {} THEN RemoveAt(removals, i)
                    ELSE [removals EXCEPT ![i].went = "busy"]
     /\ IF r.went = "done" /\ r.todo = {}
        THEN loads' = loadCatalog(loads) /\ unread' = FALSE /\ UNCHANGED dialog
        ELSE /\ dialog' = IF r.went = "failed" THEN Notice ELSE dialog
             /\ UNCHANGED <<loads, unread>>
     /\ UNCHANGED <<drive, syncs, queue, library, ui, stream, quitting, keys>>

\* removeDoneMsg: the next one goes on, the library is loaded or the error shown.
removeDone(i) ==
  LET r == removals[i]
  IN /\ ~quitting /\ r.went # "busy"
     /\ removals' = IF r.todo = {} THEN RemoveAt(removals, i)
                    ELSE [removals EXCEPT ![i].went = "busy"]
     /\ IF r.went = "done"
        THEN loads' = loadCatalog(loads) /\ unread' = FALSE /\ UNCHANGED dialog
        ELSE dialog' = Notice /\ UNCHANGED <<loads, unread>>
     /\ UNCHANGED <<drive, syncs, queue, library, ui, stream, quitting, keys>>

\* assetSyncDoneMsg
assetSyncDone ==
  /\ ~quitting /\ syncs > 0 /\ syncs' = syncs - 1
  /\ \/ loads' = loadCatalog(loads) /\ unread' = FALSE /\ UNCHANGED dialog
     \/ dialog' = Notice /\ UNCHANGED <<loads, unread>>
  /\ UNCHANGED <<drive, removals, queue, library, ui, stream, quitting, keys>>

\* The callback of the queue: what finds the channel full is dropped.
Notify(u) ==
  IF Len(events) < Capacity THEN events' = Append(events, u) ELSE UNCHANGED events

Dropped == Len(events) >= Capacity

Take ==
  /\ ~quitting /\ working = None /\ ~stopping
  /\ \E t \in waiting : working' = t /\ waiting' = waiting \ {t}
  /\ Notify("other") /\ UNCHANGED unread
  /\ UNCHANGED <<drive, removals, syncs, failed, stopping, library, loads, ui, dialog, waiters, arrived, quitting, keys>>

Progress ==
  /\ ~quitting /\ working # None
  /\ Notify("other") /\ UNCHANGED unread
  /\ UNCHANGED <<work, library, loads, ui, dialog, waiters, arrived, quitting, keys>>

Installed ==
  /\ ~quitting /\ working \in Titles \ drive
  /\ drive' = drive \cup {working} /\ working' = None
  /\ Notify("complete") /\ unread' = (unread \/ Dropped)
  /\ UNCHANGED <<removals, syncs, waiting, failed, stopping, library, loads, ui, dialog, waiters, arrived, quitting, keys>>

\* An error, an interrupt, or it is on the drive already; what was written of it
\* may stay there.
InstallFails ==
  /\ ~quitting /\ working # None
  /\ failed' = failed \cup {working} /\ working' = None
  /\ \/ UNCHANGED <<drive, unread>>
     \/ working \notin drive /\ drive' = drive \cup {working} /\ unread' = TRUE
  /\ Notify("other")
  /\ UNCHANGED <<removals, syncs, waiting, stopping, library, loads, ui, dialog, waiters, arrived, quitting, keys>>

\* A cancelled pass ends: what was queued behind it meanwhile is cancelled too,
\* each with an update.
cancelRemaining ==
  /\ ~quitting /\ stopping /\ working = None
  /\ stopping' = FALSE /\ waiting' = {} /\ failed' = failed \cup waiting
  /\ LET n == Cardinality(waiting)
         room == Capacity - Len(events)
     IN events' = events \o [k \in 1 .. (IF n < room THEN n ELSE room) |-> "other"]
  /\ UNCHANGED <<drive, removals, syncs, working, library, loads, ui, dialog, waiters, arrived, quitting, keys, unread>>

\* waitForQueueEvent
Receive ==
  /\ ~quitting /\ waiters > 0 /\ events # <<>>
  /\ waiters' = waiters - 1 /\ events' = Tail(events)
  /\ arrived' = [arrived EXCEPT ![Head(events)] = @ + 1]
  /\ UNCHANGED <<work, library, loads, ui, dialog, quitting, keys, unread>>

\* Mutant: the command is not issued again after the last update of an item.
queueUpdateOnce(u) ==
  /\ ~quitting /\ arrived[u] > 0
  /\ arrived' = [arrived EXCEPT ![u] = @ - 1]
  /\ IF u = "complete" THEN /\ loads' = loadCatalog(loads) /\ unread' = FALSE
                            /\ UNCHANGED waiters
                       ELSE waiters' = waiters + 1 /\ UNCHANGED <<loads, unread>>
  /\ UNCHANGED <<work, library, ui, dialog, events, quitting, keys>>

\* queueUpdateMsg: the command is issued again.
queueUpdate(u) ==
  /\ ~quitting /\ arrived[u] > 0
  /\ arrived' = [arrived EXCEPT ![u] = @ - 1] /\ waiters' = waiters + 1
  /\ IF u = "complete" THEN loads' = loadCatalog(loads) /\ unread' = FALSE
                       ELSE UNCHANGED <<loads, unread>>
  /\ UNCHANGED <<work, library, ui, dialog, events, quitting, keys>>

handleKey ==
  \/ \E t \in Tables : Move(t) \/ ToggleSelection(t) \/ ClearSelection(t)
  \/ SelectAll \/ Search \/ refreshAll
  \/ confirmInstall \/ confirmRemove \/ syncAssets
  \/ AskOrTell \/ Clear \/ Retry \/ Quit
  \/ Dismiss \/ runDialogAction

Update ==
  \/ \E i \in DOMAIN loads : catalogLoaded(i)
  \/ \E i \in DOMAIN removals : removeDone(i)
  \/ assetSyncDone
  \/ \E u \in Updates : queueUpdate(u)

Background ==
  \/ \E i \in DOMAIN loads : LoadReads(i)
  \/ \E i \in DOMAIN removals : RemoveNext(i)
  \/ Take \/ Progress \/ Installed \/ InstallFails \/ cancelRemaining \/ Receive

Next == handleKey \/ Update \/ Background

Spec == Init /\ [][Next]_vars

-----------------------------------------------------------------------------
(* Properties *)

Loads == [state : {"reading", "read", "partial", "failed"}, has : SUBSET Titles, late : BOOLEAN]
Removals == [todo : SUBSET Titles, went : {"busy", "done", "failed"}]
Dialogs == [kind : Questions \cup {"none", "notice"}, games : SUBSET Titles]

Shape ==
  /\ drive \subseteq Titles /\ shown \subseteq Titles /\ offered \subseteq Titles
  /\ waiting \subseteq Titles /\ failed \subseteq Titles
  /\ warned \in BOOLEAN /\ overtaken \in BOOLEAN
  /\ unread \in BOOLEAN /\ quitting \in BOOLEAN /\ stopping \in BOOLEAN
  /\ loads \in Seq(Loads)
  /\ cursor \in [Tables -> Nat]
  /\ selected \in [Tables -> SUBSET Titles] /\ hidden \in [Tables -> SUBSET Titles]
  /\ dialog \in Dialogs
  /\ removals \in Seq(Removals)
  /\ syncs \in Nat /\ waiters \in Nat /\ keys \in 0 .. MaxKeys
  /\ working \in Titles \cup {None}
  /\ events \in Seq(Updates) /\ arrived \in [Updates -> Nat]

\* Every variable has its type, no update beyond the channel's capacity is kept,
\* a sequence of removals that goes on has a title left, and the cursor of a
\* table that lists anything is on one of its rows, whatever refresh, search or
\* key came last (table.go).
ITypeOK ==
  /\ Shape
  /\ Len(events) <= Capacity
  /\ \A i \in DOMAIN removals : removals[i].went = "busy" => removals[i].todo # {}
  /\ \A t \in Tables :
       Cardinality(CursorRow(Rows(t), cursor[t])) = IF Rows(t) = {} THEN 0 ELSE 1

\* What is removed from the drive is what the dialog named, and a dialog names
\* only titles its table lists as it opens: loads and searches that come between
\* the question and the answer change neither (confirmRemove, runDialogAction).
RemovesWhatWasShown ==
  [][ /\ dialog'.kind = "remove" /\ dialog.kind # "remove" => dialog'.games \subseteq Rows("installed")
      /\ Len(removals') > Len(removals) =>
           dialog.kind = "remove" /\ Last(removals').todo = dialog.games ]_vars

\* No step but a key moves the cursor off a title that is still listed: what
\* the goroutines bring in does not change what the next key is about (SetRows).
CursorKeeps ==
  [][ keys' = keys =>
        \A t \in Tables :
          LET k == CursorRow(Rows(t), cursor[t])
          IN k \cap Rows(t)' # {} => CursorRow(Rows(t)', cursor'[t]) = k ]_vars

\* While the queue has work or an update is in the channel, a command waits on
\* the channel or an update is on its way to a handler that issues the command
\* again: the stream never ends (queueUpdateMsg, waitForQueueEvent).
StreamAlive ==
  Pending \/ events # <<>> => waiters + arrived["complete"] + arrived["other"] > 0

Quiet ==
  /\ loads = <<>> /\ removals = <<>> /\ working = None
  /\ events = <<>> /\ \A u \in Updates : arrived[u] = 0

\* When nothing is under way, the library on the screen is that of the drive,
\* but in the cases named: the last load warned, an older one answered last, or
\* the last change was of an operation that failed or whose update was dropped.
FreshWhenQuiet == Quiet /\ ~warned /\ ~overtaken /\ ~unread => shown = drive

=============================================================================
