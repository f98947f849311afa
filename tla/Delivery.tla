------------------------------ MODULE Delivery ------------------------------
(***************************************************************************)
(* What the client promises about an outgoing message, independent of     *)
(* threads, timers and sockets.  The life cycle is the one the comment on  *)
(* DatabaseReadonlyContactMessage::isQueued (lines 59-62) and isSent (lines*)
(* 64-67) describes: a message is stored, then queued for the server; if   *)
(* that fails it goes back to stored, otherwise it becomes sent.  The      *)
(* promise is that "sent" is final and is only ever shown for a message    *)
(* the server has taken.                                                   *)
(***************************************************************************)
CONSTANT Msgs        \* the outgoing messages

VARIABLES
    status,          \* status[m]: the life-cycle stage of message m
    taken            \* the messages the server has taken at least once

vars == <<status, taken>>

Statuses == {"absent", "stored", "queued", "sent", "deleted"}

(* Rows that a backup restore left behind are there from the start. *)
Init ==
    /\ status \in [Msgs -> {"absent", "stored", "queued"}]
    /\ taken = {}

(* The same change for a whole set of messages: the resend loop and the    *)
(* queue timer walk over every row of a table in one go.                   *)
Move(S, from, to) ==
    /\ \A m \in S : status[m] = from
    /\ status' = [m \in Msgs |-> IF m \in S THEN to ELSE status[m]]
    /\ UNCHANGED taken

Store(m) == \E to \in {"stored", "queued"} : Move({m}, "absent", to)

Enqueue(S) == Move(S, "stored", "queued")

Requeue(S) == Move(S, "queued", "stored")

Take(m) ==
    /\ taken' = taken \cup {m}
    /\ UNCHANGED status

(* An answer may be late: the row can be back to "stored" by then. *)
Confirm(m) ==
    /\ m \in taken
    /\ \E from \in {"stored", "queued"} : Move({m}, from, "sent")

Delete(m) ==
    \E from \in {"stored", "queued", "sent"} : Move({m}, from, "deleted")

Next ==
    \/ \E m \in Msgs : Store(m) \/ Take(m) \/ Confirm(m) \/ Delete(m)
    \/ \E S \in SUBSET Msgs : Enqueue(S) \/ Requeue(S)

Spec == Init /\ [][Next]_vars
=============================================================================
