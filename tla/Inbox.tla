------------------------------- MODULE Inbox -------------------------------
(***************************************************************************)
(* The notifications page of one user: a list synchronised by cursor, kept *)
(* in localStorage between visits, and fed by socket events.               *)
(*                                                                         *)
(* Notifications are numbered in the order of (createdAt, id); a cursor is *)
(* the number of the notification it names.  Workers that run beside each  *)
(* other, and the ids' chance, let the rows appear in any order.  The      *)
(* page's state is saved whenever it changes, so between visits the        *)
(* variables of the page are its cache.                                    *)
(***************************************************************************)
EXTENDS Naturals, FiniteSets

CONSTANTS
  MaxNotes,   \* bound: notifications ever created
  PageSize,   \* limit=30 in the code
  Touched     \* bound: notifications read or deleted one by one

ASSUME InboxAssumption == MaxNotes \in Nat /\ PageSize \in Nat \ {0} /\ Touched \subseteq 1..MaxNotes

VARIABLES
  created,     \* notifications whose row was stored
  removed,     \* rows deleted since
  readRows,    \* rows with a readAt
  unsent,      \* rows whose notification:new is still to be emitted
  visiting,    \* the page is open
  connected,   \* its socket has joined the user's room
  saved,       \* cacheReady, and so a cache exists
  items,       \* notifications listed
  seen,        \* those listed as read
  newest,      \* latestCursor, 0 for null
  oldest,      \* nextCursor, 0 for null
  arriving,    \* pendingNotifications
  sync,        \* syncNotifications under way
  more,        \* loadMore under way
  reading,     \* markAllRead under way
  passed,      \* history: not listed when an event moved the cursor over them
  dropped,     \* history: brought by an event, and lost when the page closed or its list was replaced
  late         \* history: stored when what was listed, or read so far, was already past them

inboxVars == <<created, removed, readRows, unsent, visiting, connected, saved, items, seen,
               newest, oldest, arriving, sync, more, reading, passed, dropped, late>>
rows    == <<created, removed, readRows, unsent>>
listed  == <<items, seen, newest, oldest>>
calls   == <<sync, more, reading>>
page    == <<visiting, connected, saved>>
history == <<passed, dropped, late>>

NoteIds   == 1..MaxNotes
Cursors == 0..MaxNotes
StoredNotes  == created \ removed
Newest(S) == IF S = {} THEN 0 ELSE CHOOSE n \in S : \A o \in S : o <= n
Oldest(S) == IF S = {} THEN 0 ELSE CHOOSE n \in S : \A o \in S : n <= o

NoSync == [pc |-> "idle", from |-> 0, after |-> 0, got |-> {}, newest |-> 0,
           hasMore |-> FALSE, next |-> 0]
Sync == [pc : {"idle", "ask", "answer"}, from : Cursors, after : Cursors,
         got : SUBSET NoteIds, newest : Cursors, hasMore : BOOLEAN, next : Cursors]
NoMore == [on |-> FALSE, got |-> {}, next |-> 0]

-----------------------------------------------------------------------------
(* NotificationsController.list *)

FirstOf(S) == {n \in S : Cardinality({o \in S : o < n}) < PageSize}
LastOf(S)  == {n \in S : Cardinality({o \in S : o > n}) < PageSize}

(* A mutant: the newest rows first, whatever the cursor. *)
AfterNewestFirst(cursor) == LastOf({n \in StoredNotes : n > cursor})

(* after: the oldest of the newer rows. *)
After(cursor) == FirstOf({n \in StoredNotes : n > cursor})
HasMoreAfter(cursor) == After(cursor) # {n \in StoredNotes : n > cursor}

(* before, or no cursor: the newest rows, and the cursor of the last one if  *)
(* there are more.                                                           *)
Before(S) == LastOf(S)
NextCursor(S) == IF LastOf(S) = S THEN 0 ELSE Oldest(LastOf(S))

-----------------------------------------------------------------------------
(* The server *)

(* What the page lists, or has read but not listed yet, has gone past n. *)
GonePast(n) ==
  \/ n >= oldest /\ n <= newest
  \/ n > sync.from /\ n >= sync.next /\ \E g \in sync.got : n < g
  \/ more.on /\ n >= more.next /\ n < oldest

(* The worker that stores the notification emits it afterwards. *)
NoteStored(n) ==
  /\ n \notin created /\ created' = created \cup {n}
  /\ unsent' = unsent \cup {n}
  /\ late' = IF GonePast(n) THEN late \cup {n} ELSE late
  /\ UNCHANGED <<removed, readRows, page, listed, arriving, calls, passed, dropped>>

(* notification:new reaches the open page, which moves its cursor at once    *)
(* and lists the notification a little later; or nobody is connected.        *)
NoteEmitted(n) ==
  /\ n \in unsent /\ unsent' = unsent \ {n}
  /\ IF visiting /\ connected
     THEN /\ arriving' = arriving \cup {n}
          /\ newest' = IF n > newest THEN n ELSE newest
          /\ passed' = (passed \cup {m \in StoredNotes : m < n /\ m > newest}) \ (items \cup arriving')
     ELSE UNCHANGED <<arriving, newest, passed>>
  /\ UNCHANGED <<created, removed, readRows, page, items, seen, oldest, calls, dropped, late>>

(* Another device reads or deletes. *)
ElsewhereRead(n) ==
  /\ n \in StoredNotes /\ readRows' = readRows \cup {n}
  /\ UNCHANGED <<created, removed, unsent, page, listed, arriving, calls, history>>

ElsewhereDeleted(n) ==
  /\ n \in StoredNotes /\ removed' = removed \cup {n}
  /\ UNCHANGED <<created, readRows, unsent, page, listed, arriving, calls, history>>

-----------------------------------------------------------------------------
(* syncNotifications *)

(* The cursor of the cache, unless a synchronisation is under way. *)
StartSync == IF sync.pc # "idle" THEN sync
             ELSE LET cursor == IF newest # 0 THEN newest ELSE Newest(items) IN
                  [NoSync EXCEPT !.pc = "ask", !.from = cursor, !.after = cursor]

(* The page opens: it shows the cache, if there is one, and synchronises. *)
OpenInbox ==
  /\ ~visiting /\ visiting' = TRUE
  /\ sync' = StartSync
  /\ UNCHANGED <<rows, connected, saved, listed, arriving, more, reading, history>>

InboxConnects ==
  /\ visiting /\ ~connected /\ connected' = TRUE
  /\ sync' = StartSync
  /\ UNCHANGED <<rows, visiting, saved, listed, arriving, more, reading, history>>

InboxDisconnects ==
  /\ connected /\ connected' = FALSE
  /\ UNCHANGED <<rows, visiting, saved, listed, arriving, calls, history>>

SyncServed ==
  /\ sync.pc = "ask"
  /\ sync' = IF sync.after = 0
             THEN [sync EXCEPT !.pc = "answer", !.got = @ \cup Before(StoredNotes),
                               !.newest = Newest(StoredNotes), !.next = NextCursor(StoredNotes)]
             ELSE [sync EXCEPT !.pc = "answer", !.got = @ \cup After(sync.after),
                               !.newest = Newest(After(sync.after)),
                               !.hasMore = HasMoreAfter(sync.after)]
  /\ UNCHANGED <<rows, page, listed, arriving, more, reading, history>>

(* There is more: the next page is asked for. *)
SyncNextPage ==
  /\ sync.pc = "answer" /\ sync.hasMore
  /\ sync' = [sync EXCEPT !.pc = "ask", !.after = sync.newest, !.hasMore = FALSE]
  /\ UNCHANGED <<rows, page, listed, arriving, more, reading, history>>

SyncEnds == /\ sync' = NoSync
            /\ saved' = TRUE
            /\ UNCHANGED <<rows, visiting, connected, arriving, more, reading, late>>

(* The list was asked for from a cursor: what came is merged into it.        *)
SyncMerged ==
  /\ sync.pc = "answer" /\ ~sync.hasMore /\ sync.from # 0
  /\ items' = items \cup sync.got
  /\ seen' = (seen \ sync.got) \cup (sync.got \cap readRows)
  /\ newest' = Newest({IF newest # 0 THEN newest ELSE sync.from} \cup sync.got)
  /\ passed' = passed \ sync.got /\ dropped' = dropped \ sync.got
  /\ UNCHANGED oldest
  /\ SyncEnds

(* There was no cursor: what came replaces the list, also what events have   *)
(* put there since.                                                          *)
SyncReplaced ==
  /\ sync.pc = "answer" /\ sync.from = 0
  /\ items' = sync.got
  /\ seen' = sync.got \cap readRows
  /\ oldest' = sync.next
  /\ newest' = Newest({IF newest # 0 THEN newest ELSE sync.newest} \cup sync.got)
  /\ passed' = passed \ sync.got /\ dropped' = (dropped \cup items) \ sync.got
  /\ SyncEnds

SyncFails ==
  /\ sync.pc # "idle"
  /\ UNCHANGED <<listed, passed, dropped>>
  /\ SyncEnds

-----------------------------------------------------------------------------
(* The page *)

(* 250 ms after the first event. *)
FlushArriving ==
  /\ visiting /\ arriving # {}
  /\ items' = items \cup arriving
  /\ seen' = seen \ arriving
  /\ arriving' = {}
  /\ UNCHANGED <<rows, page, newest, oldest, calls, history>>

LoadMore ==
  /\ visiting /\ oldest # 0 /\ ~more.on
  /\ LET S == {n \in StoredNotes : n < oldest} IN
       more' = [on |-> TRUE, got |-> Before(S), next |-> NextCursor(S)]
  /\ UNCHANGED <<rows, page, listed, arriving, sync, reading, history>>

LoadMoreAnswered ==
  /\ more.on
  /\ items' = items \cup more.got
  /\ seen' = seen \cup ((more.got \ items) \cap readRows)
  /\ oldest' = more.next
  /\ more' = NoMore
  /\ UNCHANGED <<rows, page, newest, arriving, sync, reading, history>>

LoadMoreFails ==
  /\ more.on /\ more' = NoMore
  /\ UNCHANGED <<rows, page, listed, arriving, sync, reading, history>>

(* markAllRead: the server marks the rows it has; the page, when the answer  *)
(* comes, everything it lists.                                               *)
ReadAllServed ==
  /\ visiting /\ ~reading /\ reading' = TRUE
  /\ readRows' = readRows \cup StoredNotes
  /\ UNCHANGED <<created, removed, unsent, page, listed, arriving, sync, more, history>>

ReadAllAnswered ==
  /\ reading /\ reading' = FALSE
  /\ seen' = items
  /\ UNCHANGED <<rows, page, items, newest, oldest, arriving, sync, more, history>>

ReadAllFails ==
  /\ reading /\ reading' = FALSE
  /\ UNCHANGED <<rows, page, listed, arriving, sync, more, history>>

(* A mutant: the page does not wait for the server. *)
NoteReadAtOnce(n) ==
  /\ visiting /\ n \in items \ seen
  /\ \/ n \in StoredNotes /\ readRows' = readRows \cup {n}
     \/ UNCHANGED readRows
  /\ seen' = seen \cup {n}
  /\ UNCHANGED <<created, removed, unsent, page, items, newest, oldest, arriving, calls, history>>

(* markRead, openNotification: the server answers 404 for a row that is      *)
(* gone, and its answer may be lost.                                         *)
NoteRead(n) ==
  /\ visiting /\ n \in items \ seen
  /\ n \in StoredNotes /\ readRows' = readRows \cup {n}
  /\ seen' \in {seen, seen \cup {n}}
  /\ UNCHANGED <<created, removed, unsent, page, items, newest, oldest, arriving, calls, history>>

(* deleteNotification *)
NoteDeleted(n) ==
  /\ visiting /\ n \in items \cap StoredNotes
  /\ removed' = removed \cup {n}
  /\ \/ items' = items \ {n} /\ seen' = seen \ {n}
     \/ UNCHANGED <<items, seen>>
  /\ UNCHANGED <<created, readRows, unsent, page, newest, oldest, arriving, calls, history>>

(* The page is left: its timer is cleared, its answers are not awaited, and  *)
(* what was never saved is forgotten.                                        *)
CloseInbox ==
  /\ visiting /\ visiting' = FALSE /\ connected' = FALSE
  /\ arriving' = {} /\ sync' = NoSync /\ more' = NoMore /\ reading' = FALSE
  /\ IF saved
     THEN /\ dropped' = dropped \cup (arriving \ items)
          /\ UNCHANGED <<listed, passed, late>>
     ELSE /\ items' = {} /\ seen' = {} /\ newest' = 0 /\ oldest' = 0
          /\ passed' = {} /\ dropped' = {} /\ late' = {}
  /\ UNCHANGED <<rows, saved>>

-----------------------------------------------------------------------------
InboxInit ==
  /\ created = {} /\ removed = {} /\ readRows = {} /\ unsent = {}
  /\ visiting = FALSE /\ connected = FALSE /\ saved = FALSE
  /\ items = {} /\ seen = {} /\ newest = 0 /\ oldest = 0 /\ arriving = {}
  /\ sync = NoSync /\ more = NoMore /\ reading = FALSE
  /\ passed = {} /\ dropped = {} /\ late = {}

InboxNext ==
  \/ OpenInbox \/ InboxConnects \/ InboxDisconnects \/ CloseInbox
  \/ SyncServed \/ SyncNextPage \/ SyncMerged \/ SyncReplaced \/ SyncFails
  \/ FlushArriving \/ LoadMore \/ LoadMoreAnswered \/ LoadMoreFails
  \/ ReadAllServed \/ ReadAllAnswered \/ ReadAllFails
  \/ \E n \in NoteIds : NoteStored(n) \/ NoteEmitted(n)
  \/ \E n \in Touched : \/ ElsewhereRead(n) \/ ElsewhereDeleted(n)
                        \/ NoteRead(n) \/ NoteDeleted(n)

InboxSpec == InboxInit /\ [][InboxNext]_inboxVars

-----------------------------------------------------------------------------
(* Rows, list, cursors and calls have their types. *)
InboxTypeOK ==
  /\ created \subseteq NoteIds /\ removed \subseteq NoteIds /\ readRows \subseteq NoteIds
  /\ unsent \subseteq NoteIds
  /\ {visiting, connected, saved} \subseteq BOOLEAN
  /\ items \subseteq NoteIds /\ seen \subseteq items /\ arriving \subseteq NoteIds
  /\ newest \in Cursors /\ oldest \in Cursors
  /\ sync \in Sync
  /\ more \in [on : BOOLEAN, got : SUBSET NoteIds, next : Cursors]
  /\ reading \in BOOLEAN
  /\ passed \subseteq NoteIds /\ dropped \subseteq NoteIds /\ late \subseteq NoteIds

(* The list has no holes: between its two cursors every stored notification  *)
(* is listed or about to be, however pages, events, deletions, failures and  *)
(* visits follow each other.  Left out are those a socket event moved the    *)
(* cursor over, or took with it when the page was closed or replaced, and    *)
(* those stored when the page had already gone past them                     *)
(* (app/notifications/page.tsx syncNotifications, the controller's list).    *)
NothingSkipped ==
  \A n \in StoredNotes :
    n >= oldest /\ n <= newest => n \in items \cup arriving \cup passed \cup dropped \cup late

(* Nothing is under way that could still bring a notification to the page. *)
InboxAtRest == visiting /\ sync.pc = "idle" /\ ~more.on /\ arriving = {} /\ unsent = {}

(* Pagination recovers every event that was missed: once nothing is under    *)
(* way any more, a notification that was stored in its turn, and whose event *)
(* did not reach the page, is listed if the page's cursors have it between   *)
(* them.  The code does not keep it.                                         *)
EventsRecovered ==
  InboxAtRest => \A n \in StoredNotes \ (late \cup dropped) :
                   n >= oldest /\ n <= newest => n \in items

(* The same of those stored late, after the page had gone past them.  The    *)
(* code does not keep it either.                                             *)
LateRowsListed ==
  InboxAtRest => \A n \in StoredNotes \ (passed \cup dropped) :
                   n >= oldest /\ n <= newest => n \in items

=============================================================================
