---------------------------- MODULE Announcements ----------------------------
(***************************************************************************)
(* What the pages may count on of the server's disposisi and komentar: a   *)
(* row is made once and never changes its parties, and each of the others  *)
(* hears of it at most once, after it was made and never before.           *)
(***************************************************************************)
EXTENDS Sequences, FiniteSets, Naturals

CONSTANTS
  User,       \* users
  Assigner,   \* those with the role staf, camat or admin
  Writer,     \* those requireWriter lets through
  Row,        \* identifiers of disposisi and komentar
  None        \* the NULL of the records

ASSUME RoleAssumption == Assigner \cup Writer \subseteq User

VARIABLES
  made,   \* made[e]: what row e is, who made it and to whom it is assigned
  inbox   \* inbox[u]: the notifications of u, by created_at

Made ==
  [kind : {"disposisi"}, by : Assigner, to : User]
    \cup [kind : {"komentar"}, by : Writer, to : {None}]
NotMade == [kind |-> "none", by |-> None, to |-> None]

Start ==
  /\ made = [e \in Row |-> NotMade]
  /\ inbox = [u \in User |-> <<>>]

Make(e, m) ==
  /\ made[e] = NotMade
  /\ made' = [made EXCEPT ![e] = m]
  /\ UNCHANGED inbox

Heard(u, e) == \E i \in DOMAIN inbox[u] : inbox[u][i] = e

Arrive(u, e) ==
  /\ made[e] # NotMade /\ u # made[e].by /\ ~Heard(u, e)
  /\ inbox' = [inbox EXCEPT ![u] = Append(inbox[u], e)]
  /\ UNCHANGED made

Step == \E e \in Row : (\E m \in Made : Make(e, m)) \/ \E u \in User : Arrive(u, e)

Promised == Start /\ [][Step]_<<made, inbox>>
=============================================================================
