----------------------------- MODULE MCTapState -----------------------------
(* Model-checking instances of TapState.                                   *)
EXTENDS TapState

CONSTANTS a, b

\* A hub of two nodes: two select bits above a node part of five.
MCNode == a :> [select |-> 32, length |-> 5, total |-> 7, force |-> 11]
          @@ b :> [select |-> 64, length |-> 5, total |-> 7, force |-> 19]

\* Exclusive, shared and weak claims; those of all values meet those of one, and 5 is
\* claimed by one as an instruction and by another as a value.
Exclusive == {Claim("OVERLAY", 5, 0), Claim("IR_WEAK", All, 0)}
Weak == {Claim("OVERLAY_WEAK", All, 0), Claim("IR_SHARED", 5, 0)}
Hub == {Claim("IR_SHARED_OVERLAY", JTAG_USR1, 0), Claim("IR_SHARED_OVERLAID", JTAG_USR0, 0),
        Claim("OVERLAY_SHARED", 5, 0), Claim("OVERLAY_WEAK", 37, 0), Claim("IR_WEAK", 5, 0)}

Scenario(kind, server, manner, ofA, ofB) ==
    [style |-> a :> "node" @@ b :> kind, version |-> server, packs |-> {manner},
     asked |-> a :> ofA @@ b :> ofB]

\* Two nodes of one hub, a node and a device, a node and the whole chain.
MCScenarios == {Scenario("node", 12, "manual", Exclusive, Weak),
                Scenario("individual", 4, "auto", Weak, Hub),
                Scenario("whole", 3, "manual", Weak, {})}
=============================================================================
