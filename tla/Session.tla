------------------------------- MODULE Session -------------------------------
(***************************************************************************)
(* What a user may expect of the connection to the chat server: it is only *)
(* set up because the user asked for it, a lost one is set up again by     *)
(* itself at most Limit times in a row, and never after the user or the    *)
(* server has put an end to it.                                            *)
(***************************************************************************)
EXTENDS Naturals

CONSTANT Limit     \* automatic attempts in a row

VARIABLES
    phase,         \* "offline", "trying" or "online"
    redials,       \* automatic attempts since the user's or the last success
    barred         \* the user hung up or the server reported a second device

vars == <<phase, redials, barred>>

Init == phase = "offline" /\ redials = 0 /\ barred = FALSE

(* The user asks for a connection. *)
Dial == phase' = "trying" /\ redials' = 0 /\ barred' = FALSE

(* The server has let us in. *)
Answer ==
    /\ phase = "trying"
    /\ phase' = "online" /\ redials' = 0
    /\ UNCHANGED barred

(* A connection or an attempt has failed and another one is made. *)
Redial ==
    /\ phase # "offline"
    /\ ~barred
    /\ redials < Limit
    /\ phase' = "trying" /\ redials' = redials + 1
    /\ UNCHANGED barred

HangUp == phase' = "offline" /\ UNCHANGED <<redials, barred>>

Bar ==
    /\ phase = "online"
    /\ barred' = TRUE
    /\ UNCHANGED <<phase, redials>>

Next == Dial \/ Answer \/ Redial \/ HangUp \/ Bar

Spec == Init /\ [][Next]_vars
=============================================================================
