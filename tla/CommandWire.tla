---------------------------- MODULE CommandWire -----------------------------
(***************************************************************************)
(* What write() and write_packets() promise of the wire: one command at a  *)
(* time, its pieces in order and without a gap.  A piece may come twice,   *)
(* when its write failed after the device had it, and a command may be     *)
(* given up at any piece; nothing of another command comes in between.     *)
(***************************************************************************)
EXTENDS Naturals

CONSTANTS Senders, Nobody, Pieces

VARIABLES
  sender,   \* whose command the wire carries
  pos,      \* pieces of it that need not be sent again
  last      \* the last piece the device received

vars == <<sender, pos, last>>

Init == sender = Nobody /\ pos = 0 /\ last = [by |-> Nobody, n |-> 0]

Begin == sender = Nobody /\ sender' \in Senders /\ pos' = 0 /\ UNCHANGED last

Receive == last' = [by |-> sender, n |-> pos + 1]

Carry ==
  /\ sender # Nobody /\ pos < Pieces
  /\ Receive
  /\ pos' \in {pos, pos + 1}
  /\ UNCHANGED sender

End ==
  /\ sender # Nobody
  /\ Receive \/ UNCHANGED last
  /\ sender' = Nobody /\ pos' = 0

Next == Begin \/ Carry \/ End

Spec == Init /\ [][Next]_vars
=============================================================================
