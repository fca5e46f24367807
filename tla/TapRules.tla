------------------------------ MODULE TapRules ------------------------------
(***************************************************************************)
(* The rules an open device follows before it sends a command: the state   *)
(* diagram of a TAP controller, and the claims that say which instructions *)
(* and which values of the overlay register the program may use.           *)
(*                                                                         *)
(* A claim is a record [type, value, length].  The bits of AJI_CLAIM_TYPE  *)
(* (SHARED, OVERLAY, OVERLAID, WEAK) are sets of types here.               *)
(***************************************************************************)
EXTENDS Naturals, Sequences, SequencesExt

CONSTANT All    \* the value ~0: a weak claim of it is one of every value

-----------------------------------------------------------------------------
(* The TAP controller.                                                     *)

\* next_tap_state: the states after a clock with TMS 0 and with TMS 1.
next_tap_state ==
    [TEST_LOGIC_RESET |-> <<"RUN_TEST_IDLE", "TEST_LOGIC_RESET">>,
     RUN_TEST_IDLE    |-> <<"RUN_TEST_IDLE", "SELECT_DR_SCAN">>,
     SELECT_DR_SCAN   |-> <<"CAPTURE_DR", "SELECT_IR_SCAN">>,
     CAPTURE_DR       |-> <<"SHIFT_DR", "EXIT1_DR">>,
     SHIFT_DR         |-> <<"SHIFT_DR", "EXIT1_DR">>,
     EXIT1_DR         |-> <<"PAUSE_DR", "UPDATE_DR">>,
     PAUSE_DR         |-> <<"PAUSE_DR", "EXIT2_DR">>,
     EXIT2_DR         |-> <<"SHIFT_DR", "UPDATE_DR">>,
     UPDATE_DR        |-> <<"RUN_TEST_IDLE", "SELECT_DR_SCAN">>,
     SELECT_IR_SCAN   |-> <<"CAPTURE_IR", "TEST_LOGIC_RESET">>,
     CAPTURE_IR       |-> <<"SHIFT_IR", "EXIT1_IR">>,
     SHIFT_IR         |-> <<"SHIFT_IR", "EXIT1_IR">>,
     EXIT1_IR         |-> <<"PAUSE_IR", "UPDATE_IR">>,
     PAUSE_IR         |-> <<"PAUSE_IR", "EXIT2_IR">>,
     EXIT2_IR         |-> <<"SHIFT_IR", "UPDATE_IR">>,
     UPDATE_IR        |-> <<"RUN_TEST_IDLE", "SELECT_DR_SCAN">>]

TapStates == DOMAIN next_tap_state
VALID_STATES == {"TEST_LOGIC_RESET", "RUN_TEST_IDLE", "SELECT_DR_SCAN", "UPDATE_DR", "UPDATE_IR"}
InsideIrScan == {"CAPTURE_IR", "SHIFT_IR", "EXIT1_IR", "PAUSE_IR", "EXIT2_IR"}

Clocked(state, tms) == next_tap_state[state][tms + 1]

\* update_state: the state after the clocks tms.
UpdateState(tms, state) ==
    LET at[i \in 0 .. Len(tms)] == IF i = 0 THEN state ELSE Clocked(at[i - 1], tms[i])
    IN at[Len(tms)]

\* check_transitions: the state after the clocks tms, and whether a program that
\* shares the chain may give them.
CheckedClock(irLength, c, tms) ==
    LET next == Clocked(c.state, tms)
        bits == CASE c.state = "CAPTURE_IR" -> 0
                  [] c.state = "SHIFT_IR" -> c.bits + 1
                  [] OTHER -> c.bits IN
    [state |-> next,
     bits |-> bits,
     ok |-> /\ c.ok
            /\ next # "TEST_LOGIC_RESET"
            /\ ~(c.state \in {"EXIT2_DR", "EXIT2_IR"} /\ next \in {"SHIFT_DR", "SHIFT_IR"})
            /\ c.state = "SHIFT_IR" /\ next # "SHIFT_IR" => bits = irLength]

CheckTransitions(tms, state, irLength) ==
    LET at[i \in 0 .. Len(tms)] ==
            IF i = 0 THEN [state |-> state, bits |-> 0, ok |-> TRUE]
            ELSE CheckedClock(irLength, at[i - 1], tms[i])
        c == at[Len(tms)] IN
    [c EXCEPT !.ok = @ /\ c.state \notin InsideIrScan]

-----------------------------------------------------------------------------
(* Claims.                                                                 *)

IrTypes == {"IR", "IR_SHARED", "IR_SHARED_OVERLAY", "IR_OVERLAID", "IR_SHARED_OVERLAID", "IR_WEAK"}
OverlayTypes == {"OVERLAY", "OVERLAY_SHARED", "OVERLAY_WEAK"}
WeakTypes == {"IR_WEAK", "OVERLAY_WEAK"}
SharedTypes == {"IR_SHARED", "IR_SHARED_OVERLAY", "IR_SHARED_OVERLAID", "OVERLAY_SHARED"}
OverlaidTypes == {"IR_OVERLAID", "IR_SHARED_OVERLAID"}

Claim(type, value, length) == [type |-> type, value |-> value, length |-> length]

Unweakened(type) == type

\* The type with the WEAK bit set; the other types have no such type.
Weakened(type) == CASE type = "IR" -> "IR_WEAK" [] type = "OVERLAY" -> "OVERLAY_WEAK"
                    [] type \in WeakTypes -> type [] OTHER -> "none"

\* A claim of the overlay register is for a register of that length.  Length 0
\* is a claim of the old kind, of any length.
LengthFits(c, type, length) == type \in OverlayTypes => c.length \in {length, 0}

\* claimed_class, of an open device and of a chain: any claim of the value will do.
ClaimedClass(claims, type, value, length) ==
    IF \E c \in claims : c.value = value /\ LengthFits(c, type, length)
    THEN IF type \in WeakTypes THEN "IFAVAIL" ELSE "SAFECLAIM"
    ELSE IF \E c \in claims : c.value = All /\ c.type = Weakened(type) /\ LengthFits(c, type, length)
    THEN "IFAVAIL"
    ELSE "NOCLAIM"

\* Instructions of the devices that have a hub, and of the hub.
JTAG_PROGRAM == 2
JTAG_USR0 == 12
JTAG_USR1 == 14
HUB_INFO == 0
HUB_FORCE_IR_CAPTURE == 3

\* AJI_HUB: what the client claims to read a hub.
HubClaims(info) == {Claim("IR_SHARED", JTAG_PROGRAM, 0), Claim("IR_SHARED_OVERLAY", JTAG_USR1, 0),
                    Claim("IR_SHARED_OVERLAID", JTAG_USR0, 0), Claim("OVERLAY_SHARED", info, 0)}

\* open_device: HUB_INFO is claimed for a program that claims USR0 and USR1.
Safe(claims, types, value) == \E t \in types : ClaimedClass(claims, t, value, 0) = "SAFECLAIM"
DeviceClaims(claims) ==
    claims \cup
    IF /\ Safe(claims, {"IR", "IR_SHARED_OVERLAID", "IR_WEAK"}, JTAG_USR0)
       /\ Safe(claims, {"IR", "IR_SHARED_OVERLAY", "IR_WEAK"}, JTAG_USR1)
       /\ ~Safe(claims, OverlayTypes, HUB_INFO)
    THEN {Claim("OVERLAY_SHARED", HUB_INFO, 0)} ELSE {}

\* AJI_OPEN_JS: the overlay and the overlaid instruction; NoInstruction is ~0.
OverlayIr(claims) ==
    IF \E c \in claims : c.type = "IR_SHARED_OVERLAY"
    THEN (CHOOSE c \in claims : c.type = "IR_SHARED_OVERLAY").value ELSE All
OverlaidIr(claims) ==
    IF \E c \in claims : c.type \in OverlaidTypes
    THEN (CHOOSE c \in claims : c.type \in OverlaidTypes).value ELSE All

\* A node of a hub: the bits of the overlay register that select it, the length
\* of that register, the length of the node's own part, and the value that has
\* the hub capture this node.
NodeOk(node) ==
    /\ node.length \in 1 .. 32 /\ node.total <= 64
    /\ node.select % 2^node.length = 0
    /\ node.select + 2^node.length - 1 < 2^node.total

\* open_node: the program's claims of the overlay register are for its node.
\* Claims of the overlay and overlaid instructions must be those of the hub.
NodeClaimsOk(hub, node, claims) ==
    /\ \A c \in claims :
         /\ c.type = "IR_SHARED_OVERLAY" => c.value = OverlayIr(hub)
         /\ c.type \in OverlaidTypes => c.value = OverlaidIr(hub)
         /\ c.type \in OverlayTypes /\ c.value # All => c.value < 2^node.length
    /\ \E c \in claims : c.type \in OverlayTypes

Selected(node, value) == IF value = All THEN All ELSE node.select + value

NodeClaims(hub, node, claims) ==
    {Claim("IR_SHARED_OVERLAY", OverlayIr(hub), 0), Claim("IR_SHARED_OVERLAID", OverlaidIr(hub), 0),
     Claim("IR_SHARED", JTAG_PROGRAM, 0), Claim("OVERLAY_SHARED", node.force, node.total)}
    \cup {Claim(c.type, c.value, 0) : c \in {d \in claims : d.type \in {"IR", "IR_SHARED", "IR_WEAK"}}}
    \cup {Claim(c.type, Selected(node, c.value), node.total) : c \in {d \in claims : d.type \in OverlayTypes}}

-----------------------------------------------------------------------------
(* The server's side of the claims.                                        *)

SameResource(c, d) == (c.type \in OverlayTypes) = (d.type \in OverlayTypes) /\ c.value = d.value

\* Claims of two programs for one value go together when both are shared.  A weak
\* claim goes with every other.
Compatible(claims, others) == \A c \in claims, d \in others :
    SameResource(c, d) => {c.type, d.type} \subseteq SharedTypes \/ {c.type, d.type} \cap WeakTypes # {}

\* Whether the server lets a program with claims use a value, given the claims
\* of the others: it has claimed it, or has a weak claim and nobody has claimed it.
Available(claims, others, type, value) ==
    LET This(c) == (c.type \in OverlayTypes) = (type \in OverlayTypes) IN
    \/ \E c \in claims : This(c) /\ c.value = value /\ c.type \notin WeakTypes
    \/ /\ \E c \in claims : This(c) /\ c.value \in {value, All} /\ c.type \in WeakTypes
       /\ ~\E c \in others : This(c) /\ c.value = value /\ c.type \notin WeakTypes

=============================================================================
