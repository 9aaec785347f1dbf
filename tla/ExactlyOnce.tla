---------------------------- MODULE ExactlyOnce ----------------------------
(***************************************************************************)
(* What the offline write path promises, without queue, requests, retries  *)
(* or transactions: an edit is made, takes effect once, on the row it is   *)
(* for, and is acknowledged only after that.  Web writes replace the row   *)
(* at any time.                                                            *)
(***************************************************************************)
CONSTANTS Op, Surat, OpSurat, Web

VARIABLES
  status,   \* status[o] of an edit: absent, pending, applied, acked
  writer    \* writer[s]: the edit the row's content comes from, or Web

absvars == <<status, writer>>

Init ==
  /\ status = [o \in Op |-> "absent"]
  /\ writer = [s \in Surat |-> Web]

Move(o, from, to) ==
  /\ status[o] = from
  /\ status' = [status EXCEPT ![o] = to]

Make(o) == Move(o, "absent", "pending") /\ UNCHANGED writer

Apply(o) ==
  /\ Move(o, "pending", "applied")
  /\ writer' = [writer EXCEPT ![OpSurat[o]] = o]

Acknowledge(o) == Move(o, "applied", "acked") /\ UNCHANGED writer

WebWrite(s) ==
  /\ writer' = [writer EXCEPT ![s] = Web]
  /\ UNCHANGED status

Next ==
  \/ \E o \in Op : Make(o) \/ Apply(o) \/ Acknowledge(o)
  \/ \E s \in Surat : WebWrite(s)

Spec == Init /\ [][Next]_absvars
=============================================================================
