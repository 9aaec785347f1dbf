------------------------ MODULE NotificationBellProofs ------------------------
(***************************************************************************)
(* Theorems about NotificationBell, for every set of users, rows, bells    *)
(* and fetches and every limit.                                            *)
(***************************************************************************)
EXTENDS NotificationBell, FiniteSetTheorems, TLAPS

\* What IInv says of one user, in terms of the sequence s of its notifications.
Within(s, b) == b.new \subseteq DOMAIN s /\ b.unread <= Len(s)

Watched(u) ==
  /\ Within(inbox[u], bell[u])
  /\ \A f \in Fetch : Within(inbox[u], fetch[u][f].got)

\* The invariant, one user at a time.
LEMMA Parts ==
  IInv <=> TypeOK /\ InboxInv /\ (\A u \in User : read[u] \subseteq Arrived(u))
                  /\ (\A u \in Watcher : Watched(u))
  BY DEF IInv, Watched, Within, Arrived

\* The same of the state after a step.
LEMMA Assemble ==
  ASSUME TypeOK', InboxInv',
         \A u \in User : read'[u] \subseteq Arrived(u)', \A u \in Watcher : Watched(u)'
  PROVE  IInv'
  BY DEF IInv, Watched, Within, Arrived

\* A count of positions of a sequence is at most its length.
LEMMA CountsFit ==
  ASSUME NEW s \in Seq(Row), NEW S \in SUBSET (DOMAIN s)
  PROVE  Cardinality(S) \in Nat /\ Cardinality(S) <= Len(s)
  <1>1. DOMAIN s = 1 .. Len(s) /\ Len(s) \in Nat
    OBVIOUS
  <1>2. IsFiniteSet(1 .. Len(s)) /\ Cardinality(1 .. Len(s)) = Len(s)
    <2>1. PICK n \in Nat : n = Len(s)
      BY <1>1
    <2>2. 1 \in Int /\ n \in Int
      BY <2>1
    <2>3. /\ IsFiniteSet(1 .. n)
          /\ Cardinality(1 .. n) = IF 1 > n THEN 0 ELSE n - 1 + 1
      BY <2>2, FS_Interval, Zenon
    <2>4. (IF 1 > n THEN 0 ELSE n - 1 + 1) = n
      BY <2>1
    <2> QED
      BY <2>1, <2>3, <2>4, Zenon
  <1>3. IsFiniteSet(S) /\ Cardinality(S) <= Cardinality(1 .. Len(s))
    BY <1>1, <1>2, FS_Subset
  <1>4. Cardinality(S) \in Nat
    BY <1>3, FS_CardinalityType
  <1> QED
    BY <1>2, <1>3, <1>4

\* An inbox only grows, whoever makes a row and whoever hears of it.
LEMMA InboxGrows ==
  ASSUME TypeOK, Step
  PROVE  /\ made' \in [Row -> Made \cup {NotMade}] /\ inbox' \in [User -> Seq(Row)]
         /\ \A u \in User : Arrived(u) \subseteq Arrived(u)' /\ Len(inbox[u]) <= Len(inbox'[u])
  <1>1. CASE \E e \in Row, m \in Made : Make(e, m)
    BY <1>1 DEF Make, TypeOK, Arrived
  <1>2. ASSUME NEW e \in Row, NEW w \in User, Arrive(w, e)
        PROVE  /\ made' = made /\ inbox' \in [User -> Seq(Row)]
               /\ \A u \in User : Arrived(u) \subseteq Arrived(u)'
                                  /\ Len(inbox[u]) <= Len(inbox'[u])
    <2>1. made' = made /\ inbox' = [inbox EXCEPT ![w] = Append(inbox[w], e)]
      BY <1>2 DEF Arrive
    <2>2. inbox' \in [User -> Seq(Row)]
      BY <2>1 DEF TypeOK
    <2>3. ASSUME NEW u \in User
          PROVE  Arrived(u) \subseteq Arrived(u)' /\ Len(inbox[u]) <= Len(inbox'[u])
      <3>1. PICK s \in Seq(Row) : s = inbox[u]
        BY DEF TypeOK
      <3>2. inbox'[u] = s \/ inbox'[u] = Append(s, e)
        BY <2>1, <3>1 DEF TypeOK
      <3> QED
        BY <3>1, <3>2 DEF Arrived
    <2> QED
      BY <2>1, <2>2, <2>3
  <1> QED
    BY <1>1, <1>2 DEF Step, TypeOK

\* Nothing arrives twice, early, or with its author.
LEMMA InboxKeeps ==
  ASSUME TypeOK, InboxInv, Step
  PROVE  InboxInv'
  <1>1. CASE \E e \in Row, m \in Made : Make(e, m)
    <2>1. PICK e \in Row, m \in Made : Make(e, m)
      BY <1>1
    <2>2. inbox' = inbox /\ made[e] = NotMade /\ \A d \in Row \ {e} : made'[d] = made[d]
      BY <2>1 DEF Make, TypeOK
    <2>3. \A u \in User : \A i \in Arrived(u) : inbox[u][i] \in Row \ {e}
      BY <2>2 DEF TypeOK, InboxInv, Arrived
    <2> QED
      BY <2>2, <2>3 DEF InboxInv, Arrived
  <1>2. ASSUME NEW e \in Row, NEW w \in User, Arrive(w, e)
        PROVE  InboxInv'
    <2>1. /\ made' = made /\ inbox' = [inbox EXCEPT ![w] = Append(inbox[w], e)]
          /\ made[e] # NotMade /\ w # made[e].by /\ \A i \in Arrived(w) : inbox[w][i] # e
      BY <1>2 DEF Arrive, Heard, Arrived
    <2>2. SUFFICES ASSUME NEW u \in User
                   PROVE  \A i \in Arrived(u)' :
                            /\ made[inbox'[u][i]] # NotMade /\ made[inbox'[u][i]].by # u
                            /\ \A j \in Arrived(u)' : inbox'[u][i] = inbox'[u][j] => i = j
      BY <2>1 DEF InboxInv
    <2>3. CASE u = w
      <3>1. PICK s \in Seq(Row) : s = inbox[w]
        BY DEF TypeOK
      <3>2. inbox'[w] = Append(s, e)
        BY <2>1, <3>1 DEF TypeOK
      <3>3. /\ DOMAIN s = 1 .. Len(s) /\ Len(s) \in Nat
            /\ DOMAIN Append(s, e) = 1 .. Len(s) + 1
            /\ \A i \in 1 .. Len(s) : Append(s, e)[i] = s[i]
            /\ Append(s, e)[Len(s) + 1] = e
        BY <3>1
      <3>4. \A i \in 1 .. Len(s) :
              /\ made[s[i]] # NotMade /\ made[s[i]].by # w /\ s[i] # e
              /\ \A j \in 1 .. Len(s) : s[i] = s[j] => i = j
        BY <2>1, <3>1, <3>3 DEF InboxInv, Arrived
      <3> QED
        BY <2>1, <2>3, <3>2, <3>3, <3>4 DEF Arrived
    <2>4. CASE u # w
      BY <2>1, <2>4 DEF InboxInv, TypeOK, Arrived
    <2> QED
      BY <2>3, <2>4
  <1> QED
    BY <1>1, <1>2 DEF Step

\* What has arrived has arrived for good, so what a bell shows stays within it.
LEMMA ArrivalsKeep ==
  ASSUME IInv, Step, UNCHANGED <<read, bell, fetch, clicks, errors>>
  PROVE  IInv'
  <1>1. TypeOK'
    BY InboxGrows DEF IInv, TypeOK
  <1>2. \A u \in User : read'[u] \subseteq Arrived(u)'
    BY InboxGrows DEF IInv
  <1>3. ASSUME NEW u \in Watcher
        PROVE  Watched(u)'
    <2>1. u \in User
      BY WatcherAssumption
    <2>2. /\ DOMAIN inbox[u] \subseteq DOMAIN inbox'[u]
          /\ Len(inbox[u]) <= Len(inbox'[u])
          /\ Len(inbox[u]) \in Nat /\ Len(inbox'[u]) \in Nat
      BY <1>1, <2>1, InboxGrows DEF IInv, TypeOK, Arrived
    <2>3. bell[u].unread \in Nat /\ \A f \in Fetch : fetch[u][f].got.unread \in Nat
      BY DEF IInv, TypeOK, BellRec, FetchRec
    <2>4. ASSUME NEW b, Within(inbox[u], b), b.unread \in Nat
          PROVE  Within(inbox'[u], b)
      BY <2>2, <2>4 DEF Within
    <2>5. Within(inbox'[u], bell[u])
      BY <2>3, <2>4, Parts DEF Watched
    <2>6. \A f \in Fetch : Within(inbox'[u], fetch[u][f].got)
      BY <2>3, <2>4, Parts DEF Watched
    <2> QED
      BY <2>5, <2>6 DEF Watched
  <1>4. InboxInv'
    BY InboxKeeps DEF IInv
  <1> QED
    BY <1>1, <1>2, <1>3, <1>4, Assemble

\* A fetch may hold whatever stays within the inbox.
LEMMA FetchFits ==
  ASSUME IInv, NEW u \in Watcher, NEW f \in Fetch,
         NEW g \in FetchRec, Within(inbox[u], g.got),
         fetch' = [fetch EXCEPT ![u][f] = g],
         UNCHANGED <<made, inbox, read, bell, clicks, errors>>
  PROVE  IInv'
  <1>1. fetch \in [Watcher -> [Fetch -> FetchRec]]
    BY DEF IInv, TypeOK
  <1>2. TypeOK'
    BY <1>1 DEF IInv, TypeOK
  <1>3. ASSUME NEW v \in Watcher
        PROVE  Watched(v)'
    <2>1. bell'[v] = bell[v] /\ inbox'[v] = inbox[v] /\ Watched(v)
      BY Parts
    <2>2. \A q \in Fetch : fetch'[v][q] = IF v = u /\ q = f THEN g ELSE fetch[v][q]
      BY <1>1
    <2> QED
      BY <2>1, <2>2 DEF Watched
  <1>4. InboxInv' /\ \A v \in User : read'[v] \subseteq Arrived(v)'
    BY DEF IInv, InboxInv, Arrived
  <1> QED
    BY <1>2, <1>3, <1>4, Assemble

\* A fetch that starts lists the newest unread.
LEMMA ListKeeps ==
  ASSUME IInv, NEW u \in Watcher, NEW f \in Fetch, List(u, f)
  PROVE  IInv'
  <1>1. u \in User /\ inbox[u] \in Seq(Row)
    BY WatcherAssumption DEF IInv, TypeOK
  <1>2. PICK N : N = Newest(u) \ read[u]
    OBVIOUS
  <1>3. N \subseteq DOMAIN inbox[u] /\ N \subseteq Nat
    BY <1>1, <1>2 DEF Newest, Arrived
  <1> DEFINE g == [pc |-> "count", got |-> [upto |-> Len(inbox[u]), new |-> N, unread |-> 0]]
  <1>4. g \in FetchRec
    BY <1>1, <1>3 DEF FetchRec, BellRec
  <1>5. Within(inbox[u], g.got)
    <2>1. g.got.new = N /\ g.got.unread = 0
      OBVIOUS
    <2>2. 0 <= Len(inbox[u])
      BY <1>1
    <2> HIDE DEF g
    <2> QED
      BY <1>3, <2>1, <2>2 DEF Within
  <1>6. /\ fetch' = [fetch EXCEPT ![u][f] = g]
        /\ UNCHANGED <<made, inbox, read, bell, clicks, errors>>
    BY <1>2 DEF List
  <1> HIDE DEF g
  <1> QED
    BY <1>4, <1>5, <1>6, FetchFits

\* A fetch that counts counts the unread, which have arrived.
LEMMA CountKeeps ==
  ASSUME IInv, NEW u \in Watcher, NEW f \in Fetch, Count(u, f)
  PROVE  IInv'
  <1>1. /\ u \in User /\ inbox[u] \in Seq(Row)
        /\ fetch \in [Watcher -> [Fetch -> FetchRec]] /\ fetch[u][f] \in FetchRec
    BY WatcherAssumption DEF IInv, TypeOK
  <1>2. PICK n : n = Cardinality(Unread(u))
    OBVIOUS
  <1>3. n \in Nat /\ n <= Len(inbox[u])
    BY <1>1, <1>2, CountsFit DEF Unread, Arrived
  <1>4. PICK p, upto, new, k : fetch[u][f] = [pc |-> p, got |->
           [upto |-> upto, new |-> new, unread |-> k]]
           /\ upto \in Nat /\ new \subseteq Nat
    BY <1>1 DEF FetchRec, BellRec
  <1>5. new \subseteq DOMAIN inbox[u]
    BY <1>4, Parts DEF Watched, Within
  <1> DEFINE g == [pc |-> "answer", got |-> [upto |-> upto, new |-> new, unread |-> n]]
  <1>6. g \in FetchRec
    BY <1>3, <1>4 DEF FetchRec, BellRec
  <1>7. Within(inbox[u], g.got)
    BY <1>3, <1>5 DEF Within
  <1>8. fetch' = [fetch EXCEPT ![u][f] = g]
    <2>1. PICK h, x : /\ h = fetch[u][f]
                      /\ x = [fetch EXCEPT ![u][f] = [pc |-> "answer", got |-> h.got]]
      OBVIOUS
    <2>2. [fetch[u][f] EXCEPT !.pc = "answer"] = [pc |-> "answer", got |-> h.got]
      BY <1>4, <2>1
    <2>3. x = [fetch EXCEPT ![u][f].pc = "answer"]
      BY <2>1, <2>2
    <2>4. fetch' = [x EXCEPT ![u][f].got.unread = n]
      BY <1>2, <2>3, Zenon DEF Count
    <2>5. x[u][f] = [pc |-> "answer", got |-> h.got]
      BY <1>1, <2>1
    <2>6. [x[u][f].got EXCEPT !.unread = n] = [upto |-> upto, new |-> new, unread |-> n]
      BY <1>4, <2>1, <2>5
    <2>7. [x[u][f] EXCEPT !.got.unread = n] = g
      BY <2>5, <2>6
    <2>8. fetch' = [x EXCEPT ![u][f] = g]
      BY <2>4, <2>7
    <2> HIDE DEF g
    <2> QED
      BY <1>1, <2>1, <2>8
  <1>9. UNCHANGED <<made, inbox, read, bell, clicks, errors>>
    BY DEF Count
  <1> HIDE DEF g
  <1> QED
    BY <1>6, <1>7, <1>8, <1>9, FetchFits

\* An answer is shown or lost; either way the fetch is over.
LEMMA AnswerKeeps ==
  ASSUME IInv, NEW u \in Watcher, NEW f \in Fetch, Show(u, f) \/ FetchFails(u, f)
  PROVE  IInv'
  <1>1. /\ bell \in [Watcher -> BellRec] /\ fetch \in [Watcher -> [Fetch -> FetchRec]]
        /\ fetch[u][f] \in FetchRec /\ fetch[u][f].got \in BellRec
        /\ u \in User /\ inbox[u] \in Seq(Row)
    BY WatcherAssumption DEF IInv, TypeOK, FetchRec
  <1>2. /\ fetch' = [fetch EXCEPT ![u][f] = IdleFetch] /\ UNCHANGED <<made, inbox, read>>
        /\ bell' = bell \/ bell' = [bell EXCEPT ![u] = fetch[u][f].got]
        /\ clicks' = clicks /\ errors' \in Nat
    BY DEF Show, FetchFails, IInv, TypeOK
  <1>3. IdleFetch \in FetchRec
    BY DEF IdleFetch, NoBell, FetchRec, BellRec
  <1>4. TypeOK'
    BY <1>1, <1>2, <1>3 DEF IInv, TypeOK
  <1>5. ASSUME NEW v \in Watcher
        PROVE  Watched(v)'
    <2>1. Watched(v) /\ Watched(u) /\ inbox'[v] = inbox[v]
      BY <1>2, Parts
    <2>2. Within(inbox[v], bell'[v])
      BY <1>1, <1>2, <2>1 DEF Watched
    <2>3. v \in User /\ inbox[v] \in Seq(Row)
      BY WatcherAssumption DEF IInv, TypeOK
    <2>4. Within(inbox[v], IdleFetch.got)
      BY <2>3 DEF Within, IdleFetch, NoBell
    <2>5. \A q \in Fetch : fetch'[v][q] = IF v = u /\ q = f THEN IdleFetch ELSE fetch[v][q]
      BY <1>1, <1>2
    <2> QED
      BY <2>1, <2>2, <2>4, <2>5 DEF Watched
  <1>6. InboxInv' /\ \A v \in User : read'[v] \subseteq Arrived(v)'
    BY <1>2 DEF IInv, InboxInv, Arrived
  <1> QED
    BY <1>4, <1>5, <1>6, Assemble

\* Only what has arrived is marked: the notification clicked on stood in the bell,
\* and the rest is taken from the inbox.
LEMMA MarkKeeps ==
  ASSUME IInv, NEW u \in Watcher,
         (\E i \in Arrived(u) : MarkRead(u, i)) \/ MarkAllRead(u)
  PROVE  IInv'
  <1>1. u \in User /\ inbox[u] \in Seq(Row) /\ Arrived(u) \subseteq Nat
    BY WatcherAssumption DEF IInv, TypeOK, Arrived
  <1>2. PICK S \in SUBSET Arrived(u) : read' = [read EXCEPT ![u] = read[u] \cup S]
    BY DEF MarkRead, MarkAllRead, Unread
  <1>3. UNCHANGED <<made, inbox, bell, fetch, errors>> /\ clicks' \in Nat
    BY DEF MarkRead, MarkAllRead, Click, IInv, TypeOK
  <1>4. TypeOK'
    BY <1>1, <1>2, <1>3 DEF IInv, TypeOK
  <1>5. \A v \in User : read'[v] \subseteq Arrived(v)'
    BY <1>2, <1>3 DEF IInv, TypeOK, Arrived
  <1>6. \A v \in Watcher : Watched(v)'
    BY <1>3, Parts DEF Watched
  <1>7. InboxInv'
    BY <1>3 DEF IInv, InboxInv, Arrived
  <1> QED
    BY <1>4, <1>5, <1>6, <1>7, Assemble

-----------------------------------------------------------------------------
\* Only what has arrived is read or shown as unread, and no badge counts more than
\* has arrived, whatever answer came last (NotificationBell.vue:20-31); and nothing
\* arrives twice.
THEOREM Invariance == Spec => []IInv
  <1>1. Init => IInv
    <2>1. ASSUME Init, NEW u \in User
          PROVE  inbox[u] = <<>> /\ Len(inbox[u]) = 0
      BY <2>1 DEF Init, Start
    <2>2. ASSUME Init
          PROVE  TypeOK
      BY <2>2, WatcherAssumption
         DEF Init, Start, TypeOK, BellRec, NoBell, FetchRec, IdleFetch
    <2>3. ASSUME Init, NEW u \in Watcher
          PROVE  Watched(u)
      <3>1. /\ bell[u] = NoBell /\ \A f \in Fetch : fetch[u][f].got = NoBell
            /\ Len(inbox[u]) = 0
        BY <2>1, <2>3, WatcherAssumption DEF Init, IdleFetch
      <3> QED
        BY <3>1 DEF Watched, Within, NoBell
    <2> QED
      BY <2>1, <2>2, <2>3, Parts DEF Init, InboxInv, Arrived
  <1>2. IInv /\ [Next]_vars => IInv'
    <2>1. ASSUME IInv, UNCHANGED vars
          PROVE  IInv'
      BY <2>1 DEF vars, IInv, TypeOK, InboxInv, Arrived
    <2> QED
      BY <2>1, ArrivalsKeep, ListKeeps, CountKeeps, AnswerKeeps, MarkKeeps DEF Next, Bell
  <1> QED
    BY <1>1, <1>2, PTL DEF Spec
=============================================================================
