--------------------------- MODULE ServerSession ---------------------------
(***************************************************************************)
(* What the connection to a server promises the devices opened over it:    *)
(* a device is opened on a connection that is up and stays with that one.  *)
(* When the connection goes down every device is detached for good.        *)
(***************************************************************************)
CONSTANTS Devices

VARIABLES
    up,         \* the connection is up
    attached    \* devices that may be used on it

vars == <<up, attached>>

Init == up = FALSE /\ attached = {}

Connect == ~up /\ up' = TRUE /\ UNCHANGED attached

Open(d) == up /\ attached' = attached \cup {d} /\ UNCHANGED up

Close(d) == attached' = attached \ {d} /\ UNCHANGED up

Lose == up /\ up' = FALSE /\ attached' = {}

Next == Connect \/ Lose \/ \E d \in Devices : Open(d) \/ Close(d)

Spec == Init /\ [][Next]_vars

=============================================================================
