-------------------------------- MODULE MCHubs --------------------------------
(* Model-checking instance of Hubs. *)
EXTENDS Hubs

CONSTANTS b, x, y

Hub(nodes) == [nodes |-> nodes, ir |-> 2]

\* A bridge that is the first node of a hub behind another one.
Nested == <<>> :> Hub(<<x, b>>) @@ <<1>> :> Hub(<<b, x>>) @@ <<1, 0>> :> Hub(<<x, y>>)

\* Bridges that are not the first nodes of their hubs, two levels of them.
Behind == <<>> :> Hub(<<x, b>>) @@ <<1>> :> Hub(<<y, b, x>>) @@ <<1, 1>> :> Hub(<<x, y>>)

\* Two bridges, the last of them to a hub with no nodes; and one with nothing behind it.
Empty == <<>> :> Hub(<<b, y, b>>) @@ <<0>> :> Hub(<<b>>) @@ <<2>> :> Hub(<<>>)

\* The hub behind the first bridge is too wide.
Wide == <<>> :> Hub(<<b, b>>) @@ <<0>> :> [nodes |-> <<x>>, ir |-> 15] @@ <<1>> :> Hub(<<y>>)

\* One level too many, and a hub whose nodes need all values of their select bits.
Deep == <<>> :> Hub(<<x, y, b>>) @@ <<2>> :> Hub(<<b>>) @@ <<2, 0>> :> Hub(<<y, b>>)
          @@ <<2, 0, 1>> :> Hub(<<x>>)

\* Nodes that need one more bit than their number does.
Four == <<>> :> Hub(<<x, y, b, b>>) @@ <<3>> :> Hub(<<y>>)

\* A position in the top hub that is shifted out of an int.
Far == <<>> :> Hub(<<b>>) @@ <<0>> :> Hub(<<b, x, x, x, x, x, x, x>>)
         @@ <<0, 0>> :> Hub(<<x, y, x, x, x, x, x, x>>)

\* An empty hub that is not the last.
Inside == <<>> :> Hub(<<x, b, y>>) @@ <<1>> :> Hub(<<>>)

World(possible, tree) == [possible |-> possible, tree |-> tree]

MCWorlds ==
    {World(TRUE, tree) : tree \in {<<>>, Nested, Behind, Empty, Inside, Wide, Deep, Four, Far}}
    \cup {World(FALSE, <<>>)}

=============================================================================
