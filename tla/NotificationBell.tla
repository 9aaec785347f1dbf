--------------------------- MODULE NotificationBell ---------------------------
(***************************************************************************)
(* NotificationBell.vue, which polls the inbox of a user and marks it      *)
(* read, and the handlers of internal/server/notification.go behind it.    *)
(* What arrives in the inbox is what Announcements says.                   *)
(*                                                                         *)
(* A fetch lists and counts in two statements, and fetches overlap: the    *)
(* interval does not wait for the answer of the one before.                *)
(***************************************************************************)
EXTENDS Announcements

CONSTANTS
  Watcher,    \* users who have the bell on display
  Fetch,      \* fetches of a bell that can be in flight
  BellLimit,  \* notifications that a list returns at most (50 in the code)
  MaxClicks,  \* bound: notifications marked
  MaxErrors   \* bound: fetches that fail

ASSUME WatcherAssumption == Watcher \subseteq User
ASSUME BellBounds == BellLimit \in Nat \ {0} /\ MaxClicks \in Nat /\ MaxErrors \in Nat

VARIABLES
  read,     \* read[u]: positions of u's inbox with a read_at
  bell,     \* bell[u]: the newest notification shown, the unread ones, the badge
  fetch,    \* fetch[u][f]: a fetch of u's bell and where it is
  clicks,   \* marks so far
  errors    \* failed fetches so far

vars == <<made, inbox, read, bell, fetch, clicks, errors>>

BellRec == [upto : Nat, new : SUBSET Nat, unread : Nat]
NoBell == [upto |-> 0, new |-> {}, unread |-> 0]
FetchRec == [pc : {"idle", "count", "answer"}, got : BellRec]
IdleFetch == [pc |-> "idle", got |-> NoBell]

TypeOK ==
  /\ made \in [Row -> Made \cup {NotMade}]
  /\ inbox \in [User -> Seq(Row)]
  /\ read \in [User -> SUBSET Nat]
  /\ bell \in [Watcher -> BellRec]
  /\ fetch \in [Watcher -> [Fetch -> FetchRec]]
  /\ clicks \in Nat /\ errors \in Nat

Init ==
  /\ Start
  /\ read = [u \in User |-> {}]
  /\ bell = [u \in Watcher |-> NoBell]
  /\ fetch = [u \in Watcher |-> [f \in Fetch |-> IdleFetch]]
  /\ clicks = 0 /\ errors = 0

-----------------------------------------------------------------------------
\* Fetching

Arrived(u) == DOMAIN inbox[u]
Unread(u) == Arrived(u) \ read[u]
Newest(u) == {i \in Arrived(u) : i > Len(inbox[u]) - BellLimit}

\* Mutant of List: the oldest ones come first.
ListOldest(u, f) ==
  /\ fetch[u][f].pc = "idle"
  /\ LET first == {i \in Arrived(u) : i <= BellLimit}
     IN fetch' = [fetch EXCEPT ![u][f] =
          [pc |-> "count",
           got |-> [upto |-> Cardinality(first), new |-> first \ read[u], unread |-> 0]]]
  /\ UNCHANGED <<made, inbox, read, bell, clicks, errors>>

\* ListNotifications for a fetch: on mount, every 30 s, and after a mark.
List(u, f) ==
  /\ fetch[u][f].pc = "idle"
  /\ fetch' = [fetch EXCEPT ![u][f] =
       [pc |-> "count",
        got |-> [upto |-> Len(inbox[u]), new |-> Newest(u) \ read[u], unread |-> 0]]]
  /\ UNCHANGED <<made, inbox, read, bell, clicks, errors>>

\* Mutant of Count: everybody's notifications are counted.
CountEverybodys(u, f) ==
  /\ fetch[u][f].pc = "count"
  /\ fetch' = [fetch EXCEPT ![u][f].pc = "answer",
                            ![u][f].got.unread = Cardinality({e \in Row : made[e] # NotMade})]
  /\ UNCHANGED <<made, inbox, read, bell, clicks, errors>>

\* CountUnreadNotifications, a statement of its own.
Count(u, f) ==
  /\ fetch[u][f].pc = "count"
  /\ fetch' = [fetch EXCEPT ![u][f].pc = "answer",
                            ![u][f].got.unread = Cardinality(Unread(u))]
  /\ UNCHANGED <<made, inbox, read, bell, clicks, errors>>

\* Mutant of Show: an answer without a newer notification is taken for outdated.
ShowIfNewer(u, f) ==
  /\ fetch[u][f].pc = "answer"
  /\ bell' = IF fetch[u][f].got.upto > bell[u].upto
             THEN [bell EXCEPT ![u] = fetch[u][f].got] ELSE bell
  /\ fetch' = [fetch EXCEPT ![u][f] = IdleFetch]
  /\ UNCHANGED <<made, inbox, read, clicks, errors>>

\* The answer arrives, before or after those of other fetches.
Show(u, f) ==
  /\ fetch[u][f].pc = "answer"
  /\ bell' = [bell EXCEPT ![u] = fetch[u][f].got]
  /\ fetch' = [fetch EXCEPT ![u][f] = IdleFetch]
  /\ UNCHANGED <<made, inbox, read, clicks, errors>>

\* The error is logged and the bell keeps what it shows.
FetchFails(u, f) ==
  /\ errors < MaxErrors /\ errors' = errors + 1
  /\ fetch[u][f].pc # "idle"
  /\ fetch' = [fetch EXCEPT ![u][f] = IdleFetch]
  /\ UNCHANGED <<made, inbox, read, bell, clicks>>

-----------------------------------------------------------------------------
\* Marking

Click == clicks < MaxClicks /\ clicks' = clicks + 1

\* markRead, or openTarget of an unread notification on display.
MarkRead(u, i) ==
  /\ Click
  /\ i \in bell[u].new
  /\ read' = [read EXCEPT ![u] = read[u] \cup {i}]
  /\ UNCHANGED <<made, inbox, bell, fetch, errors>>

\* markAllRead, offered while the badge shows: whatever has arrived by now.
MarkAllRead(u) ==
  /\ Click
  /\ bell[u].unread > 0
  /\ read' = [read EXCEPT ![u] = read[u] \cup Unread(u)]
  /\ UNCHANGED <<made, inbox, bell, fetch, errors>>

-----------------------------------------------------------------------------
Bell(u) ==
  \/ \E f \in Fetch : List(u, f) \/ Count(u, f) \/ Show(u, f) \/ FetchFails(u, f)
  \/ \E i \in Arrived(u) : MarkRead(u, i)
  \/ MarkAllRead(u)

Next ==
  \/ Step /\ UNCHANGED <<read, bell, fetch, clicks, errors>>
  \/ \E u \in Watcher : Bell(u)

Spec == Init /\ [][Next]_vars

\* The interval of a bell goes on while its page is open, and a fetch is answered.
\* Nobody has to click, and nothing has to happen on the server.
Fairness ==
  \A u \in Watcher, f \in Fetch :
    WF_vars(List(u, f)) /\ WF_vars(Count(u, f)) /\ WF_vars(Show(u, f))

FairSpec == Spec /\ Fairness

-----------------------------------------------------------------------------
\* Properties

\* What the contract makes of an inbox: each notification in it announces another
\* row, which is there and somebody else's, so that unread notifications are rows.
InboxInv ==
  \A u \in User : \A i \in Arrived(u) :
    /\ made[inbox[u][i]] # NotMade /\ made[inbox[u][i]].by # u
    /\ \A j \in Arrived(u) : inbox[u][i] = inbox[u][j] => i = j

\* Only what has arrived is read or shown as unread, and no badge counts more than
\* has arrived, whatever answer came last (NotificationBell.vue:20-31); and nothing
\* arrives twice.
IInv ==
  /\ TypeOK /\ InboxInv
  /\ \A u \in User : read[u] \subseteq Arrived(u)
  /\ \A u \in Watcher :
       /\ bell[u].new \subseteq Arrived(u) /\ bell[u].unread <= Len(inbox[u])
       /\ \A f \in Fetch : /\ fetch[u][f].got.new \subseteq Arrived(u)
                           /\ fetch[u][f].got.unread <= Len(inbox[u])

Displayed(u, i) == i \in (bell[u].upto - BellLimit + 1) .. bell[u].upto

\* A notification comes to stand in its user's bell, unless BellLimit newer ones
\* arrive first (NotificationBell.vue:20-31, 88-91, store/notification.go:67-99).
Reaches ==
  \A u \in Watcher, e \in Row :
    Heard(u, e) ~> \E i \in Arrived(u) : /\ inbox[u][i] = e
                                         /\ Displayed(u, i) \/ i \notin Newest(u)

\* Overlapping fetches and marks may show an outdated badge for a while; once
\* nothing changes, every bell ends with the unread count and the newest
\* notifications there are (NotificationBell.vue:20-52).
BellSettles ==
  <>[](\A u \in Watcher :
         bell[u] = [upto |-> Len(inbox[u]), new |-> Newest(u) \ read[u],
                    unread |-> Cardinality(Unread(u))])

=============================================================================
