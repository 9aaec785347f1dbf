---------------------------- MODULE DisposisiCard ----------------------------
(***************************************************************************)
(* The disposisi card of SuratDetailView.vue on top of the module          *)
(* Disposisi, and disposisiUpdateHandler behind its buttons.               *)
(*                                                                         *)
(* A card shows what an earlier answer said; its buttons stay enabled      *)
(* while a click is on its way, and the server sets the status it is asked *)
(* for, whatever the status is by then.                                    *)
(***************************************************************************)
EXTENDS Disposisi

CONSTANTS
  Overseer,   \* users with the role camat or admin
  Viewer      \* users who have the card on display

ASSUME ViewerAssumption == Overseer \cup Viewer \subseteq User

VARIABLES
  work,     \* work[e]: status and completed_at of a disposisi
  card,     \* card[u]: what u has on display
  sent      \* clicks whose request has not reached its UPDATE

cardVars == <<work, card, sent>>
vars == <<rowVars, cardVars>>

Status == {"pending", "in_progress", "done", "cancelled"}

\* ver counts the changes of the status, here and in what is on display (history).
Work == [status : Status, completed : BOOLEAN, ver : Nat]
Display == [Row -> [shown : Status \cup {"unlisted"}, ver : Nat]]
Nothing == [e \in Row |-> [shown |-> "unlisted", ver |-> 0]]

\* no tells two clicks apart, ver is what the card had on display (history).
Click == [no : Nat, by : Viewer, row : Row, new : Status, ver : Nat]

CardTypeOK ==
  /\ work \in [Row -> Work]
  /\ card \in [Viewer -> Display]
  /\ sent \subseteq Click

Init ==
  /\ RowInit
  /\ work = [e \in Row |-> [status |-> "pending", completed |-> FALSE, ver |-> 0]]
  /\ card = [u \in Viewer |-> Nothing]
  /\ sent = {}

-----------------------------------------------------------------------------
\* disposisiListHandler: what u is told about the surat s.
Listed(u, s) == [e \in Row |->
  IF e \in ListDisposisi(s, u \in Reader) THEN [shown |-> work[e].status, ver |-> work[e].ver]
  ELSE Nothing[e]]

\* fetchDisposisi, on opening the surat or after a request of the page: any time.  An
\* answer that takes long is one that is put on display at once and not renewed.
FetchDisposisi(u, s) ==
  /\ card' = [card EXCEPT ![u] = Listed(u, s)]
  /\ UNCHANGED <<rowVars, work, sent>>

\* Mutant of Buttons: cancelled work can be started again.
ButtonsRestart(shown) ==
  CASE shown \in {"pending", "cancelled"} -> {"in_progress", "cancelled"}
    [] shown = "in_progress"              -> {"done", "cancelled"}
    [] OTHER                              -> {}

\* The buttons of a disposisi, by the status shown.
Buttons(shown) ==
  CASE shown = "pending"     -> {"in_progress", "cancelled"}
    [] shown = "in_progress" -> {"done", "cancelled"}
    [] OTHER                 -> {}

\* canUpdateDisposisi, and the same test in disposisiUpdateHandler.
MayUpdate(u, e) == u \in Parties(e) \/ u \in Overseer

\* updateDisposisiStatus up to its await: nothing disables the buttons meanwhile.  A
\* request that is lost or fails changes nothing: it is one that is never served.
Press(u, e, new) ==
  /\ edits < MaxEdits
  /\ new \in Buttons(card[u][e].shown) /\ MayUpdate(u, e)
  /\ sent' = sent \cup {[no |-> edits, by |-> u, row |-> e, new |-> new,
                         ver |-> card[u][e].ver]}
  /\ edits' = edits + 1
  /\ UNCHANGED <<live, row, order, inbox, req, faults, work, card>>

Updated(e, new) ==
  [status |-> new, completed |-> (new = "done"), ver |-> work[e].ver + 1]

\* disposisiUpdateHandler finds that the sender may, and UpdateDisposisiStatus sets
\* the status without a look at the one it replaces.
UpdateStatus(c) ==
  /\ c \in sent
  /\ MayUpdate(c.by, c.row)
  /\ work' = [work EXCEPT ![c.row] = Updated(c.row, c.new)]
  /\ sent' = sent \ {c}
  /\ UNCHANGED <<rowVars, card>>

Viewing(u) ==
  \/ \E s \in Surat : FetchDisposisi(u, s)
  \/ \E e \in Row, new \in Status : Press(u, e, new)

Next ==
  \/ RowNext /\ UNCHANGED cardVars
  \/ \E u \in Viewer : Viewing(u)
  \/ \E c \in sent : UpdateStatus(c)

Spec == Init /\ [][Next]_vars

-----------------------------------------------------------------------------
\* Properties

\* The transitions of a disposisi as its buttons offer them.
Lifecycle == {<<"pending", "in_progress">>, <<"pending", "cancelled">>,
              <<"in_progress", "done">>, <<"in_progress", "cancelled">>}

\* What is on display was true of a disposisi at some time, and still is unless its
\* status was changed since.
Truthful(list) ==
  \A e \in Row : list[e].shown # "unlisted" =>
    /\ row[e].kind = "disposisi"
    /\ list[e].ver <= work[e].ver
    /\ list[e].ver = work[e].ver => list[e].shown = work[e].status

\* completed_at is set exactly while the status is done, only a disposisi has a
\* status other than the first, displays are truthful, and a click that no other
\* change has overtaken asks for a transition of the Lifecycle
\* (store/disposisi.go:94-100, the CHECK of the disposisi table,
\* SuratDetailView.vue:392-400, 744-772).
CardInv ==
  /\ CardTypeOK
  /\ \A e \in Row : /\ work[e].completed = (work[e].status = "done")
                    /\ work[e].status # "pending" => row[e].kind = "disposisi"
  /\ \A u \in Viewer : Truthful(card[u])
  /\ \A c \in sent :
       /\ row[c.row].kind = "disposisi"
       /\ c.ver <= work[c.row].ver
       /\ c.ver = work[c.row].ver => <<work[c.row].status, c.new>> \in Lifecycle

\* The rows, requests and inboxes of Disposisi, with the card on top of them.
CardIInv == IInv /\ CardInv

\* A status moves along the Lifecycle, so that finished or cancelled work stays that,
\* unless the click had been made on a card from before the last change.  Clicks
\* wait on their way while others are made, also of the same user, and the server
\* itself lets any status follow any other (store/disposisi.go:89-117,
\* SuratDetailView.vue:448-457).
LifecycleUnlessOvertaken ==
  [][\A e \in Row :
       work'[e].status # work[e].status =>
         \/ <<work[e].status, work'[e].status>> \in Lifecycle
         \/ \E c \in sent \ sent' : c.row = e /\ c.ver < work[e].ver]_vars

=============================================================================
