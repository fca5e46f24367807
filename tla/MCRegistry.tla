----------------------------- MODULE MCRegistry -----------------------------
(* Model-checking instance of Registry. *)
EXTENDS Registry

CONSTANTS p, q, x, y, g, h

\* All passwords differ in more than their case.
MCFolded == [w \in Passwords |-> w]

Request(host, password, temporary) == [host |-> host, password |-> password, temporary |-> temporary]

\* Both add the same server with different passwords; p may ask for a temporary entry
\* first, which a persistent one replaces.
MCRequests == p :> {Request(h, x, FALSE), Request(h, x, TRUE)}
              @@ q :> {Request(h, y, FALSE)}

\* No file, or one with the other server.
MCStarts == {Empty, <<1, "Host">> :> g}
=============================================================================
