------------------------------ MODULE TapState ------------------------------
(***************************************************************************)
(* Programs that share one TAP: each open device remembers what it last    *)
(* loaded (m_state, m_ir_overlay, m_current_instruction) and decides from  *)
(* that, and from its claims, what it sends, packs or refuses.             *)
(*                                                                         *)
(* A call is made by the thread that has the link, on the locked device:   *)
(* it is one step, and a composed call (access_overlay, run_test_idle of   *)
(* an old server, a batched access_dr) is a sequence of calls on a session *)
(* record [open, state, tap, packed, caught, error].  Packed commands take effect *)
(* when they are sent; when a packet is sent early is in CommandPipeline,  *)
(* and who may lock the device in DeviceLock.                              *)
(***************************************************************************)
EXTENDS TapRules

CONSTANTS
    Opens,          \* open devices of the TAP
    Scenarios,      \* records [style, version, asked, packs]: m_style ("node",
                    \* "individual", "whole") of each open device, the version of the
                    \* server, the claims the program asks for each open device, and
                    \* the pack styles it locks with: "never", "auto", "manual"
    Node,           \* the node of each open device of style "node"
    Instructions,   \* instructions they load
    Values,         \* values they write to a data register
    IrLength,       \* instruction length of the TAP
    MaxPacked,      \* bound: commands packed
    MaxHeld,        \* bound: commands packed when a call is made, but for a flush
    Nobody

ASSUME TapConstants ==
    /\ Nobody \notin Opens
    /\ {MaxPacked, MaxHeld} \subseteq Nat /\ IrLength \in Nat
    /\ Instructions \subseteq Nat /\ Values \subseteq Nat
    /\ Node \in [Opens -> [select : Nat, length : Nat, total : Nat, force : Nat]]

\* "AJI_CLAIM2.length: internal variable, set to zero".
ASSUME TapClaims == \A s \in Scenarios :
    /\ s.version \in Nat
    /\ \A o \in Opens : \A c \in s.asked[o] : c.length = 0 /\ c.type \in IrTypes \cup OverlayTypes

VARIABLES
    scenario,   \* the one of Scenarios
    claims,     \* the claims of each open device; {} while it is not open
    open,       \* what each open device remembers, locked or not
    state,      \* m_state of the locked one: lock sets it, only calls on it read it
    tap,        \* the TAP as the server drives it
    locked,     \* the open device that is locked, or Nobody
    pack,       \* its m_pack_style
    packed,     \* its commands in m_tx
    caught,     \* the last value access_overlay captured: for which device, from whose node
    told,       \* an error was returned since it last began with an access_ir
    wrote       \* what access_overlay wrote, if that was the last call; or NoValue

vars == <<scenario, claims, open, state, tap, locked, pack, packed, caught, told, wrote>>

style == scenario.style
version == scenario.version
PackStyles == scenario.packs

NoCapture == [of |-> Nobody, from |-> {}]
NoValue == Nobody

Init ==
    /\ scenario \in Scenarios
    /\ claims = [o \in Opens |-> {}]
    /\ open = [o \in Opens |-> [overlay |-> FALSE,              \* m_ir_overlay
                                instruction |-> 0,              \* m_current_instruction
                                deferError |-> FALSE]]          \* m_defer_error
    /\ state = "TEST_LOGIC_RESET"
    /\ tap = [state |-> "TEST_LOGIC_RESET",
              ir |-> 0,             \* the instruction loaded
              by |-> Nobody,        \* the device that has loaded it since it was locked
              overlay |-> 0,        \* the overlay register
              capture |-> {}]       \* the devices of the node whose register a scan captures
    /\ locked = Nobody
    /\ pack \in PackStyles
    /\ packed = <<>>
    /\ caught = NoCapture
    /\ told = FALSE
    /\ wrote = NoValue

-----------------------------------------------------------------------------
(* The server executes commands.                                           *)

Others(o) == UNION {claims[p] : p \in Opens \ {o}}

\* The open devices that are nodes of the hub; those a value has the hub capture.
Nodes == {n \in Opens : style[n] = "node"}
Forced(nodes, value) == {n \in nodes : Node[n].force = value}

\* It refuses what is claimed by others.  A scan that does not write the whole
\* overlay register has no value to check.
Permits(o, t, c) ==
    CASE c.op = "ir" -> Available(claims[o], Others(o), "IR", c.value)
      [] c.op = "dr" /\ t.ir = JTAG_USR1 -> c.whole /\ Available(claims[o], Others(o), "OVERLAY", c.value)
      [] OTHER -> TRUE

Effect(nodes, o, t, c) ==
    CASE c.op = "ir"   -> [t EXCEPT !.ir = c.value, !.by = o, !.state = "UPDATE_IR"]
      [] c.op = "irs"  -> [t EXCEPT !.ir = 0, !.by = Nobody, !.state = "UPDATE_IR"]
      [] c.op = "dr" /\ t.ir = JTAG_USR1 ->
           [t EXCEPT !.overlay = c.value, !.capture = Forced(nodes, c.value), !.state = "UPDATE_DR"]
      [] c.op = "dr" /\ t.ir # JTAG_USR1 -> [t EXCEPT !.state = "UPDATE_DR"]
      [] c.op = "idle" -> [t EXCEPT !.state = IF c.exit THEN "SELECT_DR_SCAN" ELSE "RUN_TEST_IDLE"]
      [] c.op = "sequence" -> [t EXCEPT !.state = UpdateState(c.tms, @)]
      [] c.op = "reset" -> [t EXCEPT !.state = "TEST_LOGIC_RESET", !.ir = 0, !.by = Nobody]
      [] c.op = "delay" -> t

\* The TAP before the commands cs and after each of them.
Taps(nodes, o, t, cs) ==
    LET at[i \in 0 .. Len(cs)] == IF i = 0 THEN t ELSE Effect(nodes, o, at[i - 1], cs[i])
    IN at

\* A capture is of the node that the hub was told to capture before this scan.
Captures(c) == c.op = "dr" /\ c.capture
Caught(o, at, cs, n, old) ==
    LET captures == {i \in 1 .. n : Captures(cs[i])} IN
    IF captures = {} THEN old ELSE [of |-> o, from |-> at[Max(captures) - 1].capture]

\* The first n commands are executed, and the next is refused: it is not permitted,
\* or fails for a reason of the chain's.
Outcomes(o, t, got, cs) ==
    LET at == Taps(Nodes, o, t, cs) IN
    {[tap |-> at[n], caught |-> Caught(o, at, cs, n, got), refused |-> n < Len(cs)]
     : n \in {m \in 0 .. Len(cs) : \A i \in 1 .. m : Permits(o, at[i - 1], cs[i])}}

-----------------------------------------------------------------------------
(* A session: a call that is being made on the locked device o.            *)

Session == [open |-> open[locked], state |-> state, tap |-> tap, packed |-> packed,
            caught |-> IF packed = <<>> THEN NoCapture ELSE caught, error |-> "none"]

Fail(s, error) == {[s EXCEPT !.error = error]}

\* One call after another, while they succeed.
Then(ss, Op(_)) == UNION {IF s.error = "none" THEN Op(s) ELSE {s} : s \in ss}

\* get_txmessage and the pack style: whether a command may be packed.
MayPack(s, reads) ==
    Len(s.packed) < MaxPacked /\ (pack = "manual" \/ (pack = "auto" /\ ~reads))

\* send_receive: the packed commands and cs are sent and answered.
SendReceive(s, cs) ==
    {[s EXCEPT !.tap = e.tap, !.caught = e.caught, !.packed = <<>>,
               !.error = IF e.refused THEN "refused" ELSE @]
     : e \in Outcomes(locked, s.tap, s.caught, s.packed \o cs)}

\* A command is packed and assumed to succeed, or sent.
Give(s, c, defer) == IF defer THEN {[s EXCEPT !.packed = Append(@, c)]} ELSE SendReceive(s, <<c>>)

Valid(s) == s.state \in VALID_STATES

\* pending_error: the error of commands that were sent for another device.
Pending(s) == Fail([s EXCEPT !.open.deferError = FALSE], "pending")

LoadedUnnoticed(s, instruction) == [s EXCEPT !.state = "UPDATE_IR", !.open.instruction = instruction]

LoadedIr(s, instruction) ==
    [s EXCEPT !.state = "UPDATE_IR",
              !.open.overlay = (instruction = OverlayIr(claims[locked])),
              !.open.instruction = instruction]

\* access_ir: an instruction that is not claimed is not packed.
DeferIr(s, class, reads) == MayPack(s, reads) /\ pack # "auto" /\ class = "SAFECLAIM"

AccessIr(s, instruction, reads) ==
    LET class == ClaimedClass(claims[locked], "IR", instruction, 0) IN
    IF style[locked] = "whole" THEN Fail(s, "parameter")
    ELSE IF ~Valid(s) THEN Fail(s, "state")
    ELSE IF instruction >= 2^IrLength THEN Fail(s, "parameter")
    ELSE IF class = "NOCLAIM" THEN Fail(s, "claimed")
    ELSE IF s.open.deferError THEN Pending(s)
    ELSE {IF r.error = "none" THEN LoadedIr(r, instruction) ELSE r
          : r \in Give(s, [op |-> "ir", value |-> instruction], DeferIr(s, class, reads))}

Flushed(s) == IF s.packed = <<>> THEN {s} ELSE SendReceive(s, <<>>)

\* access_ir with the bits of the whole chain's instruction registers.
AccessIrs(s, reads) ==
    IF version < 1 THEN Fail(s, "version")
    ELSE IF ~Valid(s) THEN Fail(s, "state")
    ELSE IF s.open.deferError THEN Pending(s)
    ELSE {[r EXCEPT !.state = "UPDATE_IR"] : r \in Give(s, [op |-> "irs"], MayPack(s, reads))}

\* The bits of a single device are its instruction.
AccessIrBits(s, instruction, reads) ==
    IF style[locked] = "whole" THEN AccessIrs(s, reads)
    ELSE IF reads THEN Then(AccessIr(s, instruction, TRUE), Flushed)
    ELSE AccessIr(s, instruction, FALSE)

\* access_dr: an overlay register is written whole, and with a claimed value.
Unchecked(s, value, length) == "SAFECLAIM"

OverlayClass(s, value, length) ==
    IF s.open.overlay THEN ClaimedClass(claims[locked], "OVERLAY", value, length) ELSE "SAFECLAIM"

Scan(s, value, whole, reads, capture, length) ==
    LET class == OverlayClass(s, value, length)
        c == [op |-> "dr", value |-> value, whole |-> whole, capture |-> capture]
        defer == MayPack(s, reads) /\ ~(capture /\ pack = "auto") /\ class = "SAFECLAIM" IN
    IF ~Valid(s) THEN Fail(s, "state")
    ELSE IF s.open.overlay /\ ~whole THEN Fail(s, "parameter")
    ELSE IF class = "NOCLAIM" THEN Fail(s, "claimed")
    ELSE IF s.open.deferError THEN Pending(s)
    ELSE {[r EXCEPT !.state = "UPDATE_DR"] : r \in Give(s, c, defer)}

\* A server before version 5 is sent the scans of a batch one by one.
AccessDr(s, value, whole, reads, batch, length) ==
    LET One(r) == Scan(r, value, whole, reads, FALSE, length) IN
    IF batch = 1 THEN One(s)
    ELSE IF s.open.overlay /\ Valid(s) THEN Fail(s, "parameter")
    ELSE IF version < 5 THEN Then(One(s), One)
    ELSE One(s)

\* any_sequence_internal, which only run_test_idle calls.
AnySequence(s, tms) ==
    LET c == CheckTransitions(tms, s.state, IrLength)
        next == IF style[locked] = "individual" THEN c.state ELSE UpdateState(tms, s.state) IN
    IF version < 4 THEN Fail(s, "version")
    ELSE IF s.open.deferError THEN Pending(s)
    ELSE IF style[locked] = "individual" /\ ~c.ok THEN Fail(s, "sequence")
    ELSE {[r EXCEPT !.state = next]
          : r \in Give(s, [op |-> "sequence", tms |-> tms], MayPack(s, FALSE))}

\* run_test_idle: an old server is left with the clock that exits the state.
RunIdle(s, exit) ==
    IF ~Valid(s) THEN Fail(s, "state")
    ELSE IF s.open.deferError THEN Pending(s)
    ELSE {IF r.error = "none" THEN [r EXCEPT !.state = "RUN_TEST_IDLE"] ELSE r
          : r \in Give(s, [op |-> "idle", exit |-> exit], MayPack(s, FALSE))}

ExitTwice(s) == AnySequence(s, <<1, 0>>)
ExitIdle(s) == AnySequence(s, <<1>>)
RunTestIdle(s, exit) ==
    IF exit /\ version < 12 /\ Valid(s) /\ ~s.open.deferError
    THEN Then(RunIdle(s, FALSE), ExitIdle)
    ELSE RunIdle(s, exit)

TestLogicReset(s) ==
    IF version < 1 THEN Fail(s, "version")
    ELSE IF style[locked] = "node" THEN Fail(s, "parameter")
    ELSE IF s.open.deferError THEN Pending(s)
    ELSE {[r EXCEPT !.state = "TEST_LOGIC_RESET"] : r \in Give(s, [op |-> "reset"], MayPack(s, FALSE))}

Delay(s) ==
    IF s.open.deferError THEN Pending(s) ELSE Give(s, [op |-> "delay"], MayPack(s, FALSE))

NoForce(s, node, captures) == {s}
ForceCapture(s, node, captures) ==
    IF captures THEN Scan(s, node.force, TRUE, FALSE, FALSE, node.total) ELSE {s}

WriteUnselected(s, node, update, captures) == Scan(s, update, TRUE, captures, captures, node.total)
WriteOverlay(s, node, update, captures) ==
    Scan(s, Selected(node, update), TRUE, captures, captures, node.total)

\* access_overlay: the overlay instruction, for a capture the value that has the
\* hub capture this node, the value itself, and the overlaid instruction.
AccessOverlay(s, update, captures) ==
    LET node == Node[locked]
        Load(r) == AccessIr(r, OverlayIr(claims[locked]), FALSE)
        Force(r) == ForceCapture(r, node, captures)
        Write(r) == WriteOverlay(r, node, update, captures)
        Leave(r) == AccessIr(r, OverlaidIr(claims[locked]), FALSE) IN
    IF style[locked] # "node" \/ update >= 2^node.length THEN Fail(s, "parameter")
    ELSE IF ~Valid(s) THEN Fail(s, "state")
    ELSE IF s.open.deferError THEN Pending(s)
    ELSE Then(Then(Then(Load(s), Force), Write), Leave)

-----------------------------------------------------------------------------
(* Actions.                                                                *)

\* The call ends: loads tells that it was an access_ir.  A program that was told
\* of an error begins again with one, when nothing is packed.
Done(ss, call, value, loads) ==
    /\ locked # Nobody
    /\ call = "flush" \/ Len(packed) <= MaxHeld
    /\ \E s \in ss :
         /\ open' = [open EXCEPT ![locked] = s.open]
         /\ state' = s.state
         /\ tap' = s.tap
         /\ packed' = s.packed
         /\ caught' = s.caught
         /\ told' = (s.error # "none" \/ (told /\ ~(loads /\ packed = <<>>)))
         /\ wrote' = IF s.error # "none" THEN NoValue ELSE IF call = "flush" THEN wrote ELSE value
    /\ UNCHANGED <<scenario, claims, locked, pack>>

CallAccessIr == \E i \in Instructions, reads \in BOOLEAN : Done(AccessIr(Session, i, reads), "ir", NoValue, TRUE)
CallAccessIrBits == \E i \in Instructions, reads \in BOOLEAN :
    Done(AccessIrBits(Session, i, reads), "bits", NoValue, style[locked] # "whole")
Length == IF style[locked] = "node" THEN Node[locked].total ELSE IrLength
CallAccessDr == \E v \in Values, whole, reads \in BOOLEAN, batch \in {1, 2} :
    Done(AccessDr(Session, IF whole THEN v ELSE 0, whole, reads, batch, Length), "dr", NoValue, FALSE)
CallRunTestIdle == \E exit \in BOOLEAN : Done(RunTestIdle(Session, exit), "idle", NoValue, FALSE)
CallTestLogicReset == Done(TestLogicReset(Session), "reset", NoValue, FALSE)
CallDelay == Done(Delay(Session), "delay", NoValue, FALSE)
CallAccessOverlay == \E v \in Values, captures \in BOOLEAN :
    Done(AccessOverlay(Session, v, captures), "overlay", v, TRUE)
CallFlush == packed # <<>> /\ Done(Flushed(Session), "flush", NoValue, FALSE)

\* send_deferred: the packed commands are sent for another device of the link.
SendDeferred ==
    /\ locked # Nobody
    /\ packed # <<>>
    /\ \E s \in SendReceive(Session, <<>>) :
         /\ tap' = s.tap
         /\ packed' = <<>>
         /\ caught' = s.caught
         /\ open' = [open EXCEPT ![locked].deferError = (s.error # "none")]
    /\ UNCHANGED <<scenario, claims, state, locked, pack, told, wrote>>

\* aji_open_device and aji_open_node on the hub's own open device.
Open(o) ==
    LET asked == scenario.asked[o]
        mine == IF style[o] = "node" THEN NodeClaims(HubClaims(HUB_INFO), Node[o], asked) ELSE asked IN
    /\ locked = Nobody
    /\ claims[o] = {} /\ asked # {}
    /\ style[o] = "node" => NodeOk(Node[o]) /\ NodeClaimsOk(HubClaims(HUB_INFO), Node[o], asked)
    /\ Compatible(DeviceClaims(mine), Others(o))
    /\ claims' = [claims EXCEPT ![o] = DeviceClaims(mine)]
    /\ UNCHANGED <<scenario, open, state, tap, locked, pack, packed, caught, told, wrote>>

\* lock: bound: when all are open.  locked_ok assumes the state of the TAP and keeps the instruction.
Lock(o, p) ==
    /\ locked = Nobody
    /\ \A n \in Opens : claims[n] # {} \/ scenario.asked[n] = {}
    /\ style[o] = "node" => claims[o] # {}
    /\ IF open[o].deferError
       THEN /\ open' = [open EXCEPT ![o].deferError = FALSE]
            /\ UNCHANGED <<state, locked, pack, tap, told, wrote>>
       ELSE /\ locked' = o
            /\ pack' = p
            /\ state' = "UPDATE_IR"
            /\ UNCHANGED open
            /\ tap' = [tap EXCEPT !.by = Nobody]
            /\ told' = FALSE
            /\ wrote' = NoValue
    /\ UNCHANGED <<scenario, claims, packed, caught>>

\* unlock: what is packed is sent with it.
Unlock ==
    /\ locked # Nobody
    /\ \E s \in IF open[locked].deferError THEN Pending(Session) ELSE SendReceive(Session, <<>>) :
         /\ tap' = [s.tap EXCEPT !.by = Nobody]
         /\ caught' = s.caught
         /\ open' = [open EXCEPT ![locked] = s.open]
    /\ locked' = Nobody
    /\ packed' = <<>>
    /\ told' = FALSE
    /\ wrote' = NoValue
    /\ UNCHANGED <<scenario, claims, state, pack>>

Next ==
    \/ \E o \in Opens : Open(o)
    \/ \E o \in Opens, p \in PackStyles : Lock(o, p)
    \/ CallAccessIr \/ CallAccessIrBits \/ CallAccessDr \/ CallRunTestIdle
    \/ CallTestLogicReset \/ CallDelay \/ CallAccessOverlay \/ CallFlush
    \/ SendDeferred \/ Unlock

Spec == Init /\ [][Next]_vars

-----------------------------------------------------------------------------
(* Properties.                                                             *)

Commands == [op : {"ir"}, value : Instructions \cup {JTAG_USR0, JTAG_USR1}] \cup [op : {"irs", "reset", "delay"}]
    \cup [op : {"idle"}, exit : BOOLEAN] \cup [op : {"sequence"}, tms : Seq({0, 1})]
    \cup [op : {"dr"}, value : Nat, whole : BOOLEAN, capture : BOOLEAN]

\* m_state is always one from which a scan may start: AJI_BAD_TAP_STATE is never
\* returned by this build, whose any_sequence gives one clock only.
TypeOK ==
    /\ open \in [Opens -> [overlay : BOOLEAN, instruction : Nat, deferError : BOOLEAN]]
    /\ state \in VALID_STATES
    /\ tap \in [state : VALID_STATES, ir : Nat, by : Opens \cup {Nobody}, overlay : Nat,
                capture : SUBSET Opens]
    /\ locked \in Opens \cup {Nobody}
    /\ pack \in PackStyles
    /\ packed \in Seq(Commands) /\ Len(packed) <= MaxPacked
    /\ caught \in [of : Opens \cup {Nobody}, from : SUBSET Opens]
    /\ told \in BOOLEAN
    /\ wrote \in Nat \cup {NoValue}

\* The program has been told of no error since it began, and none is kept for it.
Untroubled == locked # Nobody /\ ~told /\ ~open[locked].deferError

\* What the open device remembers is what is in the TAP, also after packed commands
\* failed: unless the program was told, or the instruction is not its own.  The exit
\* from RUN_TEST_IDLE that a server from version 12 makes is not tracked.
RemembersTap ==
    /\ TypeOK
    /\ Untroubled /\ packed = <<>> /\ tap.by = locked =>
        /\ open[locked].instruction = tap.ir
        /\ open[locked].overlay = (tap.ir = OverlayIr(claims[locked]))
        /\ \/ state = tap.state
           \/ state = "RUN_TEST_IDLE" /\ tap.state = "SELECT_DR_SCAN" /\ version >= 12

\* The overlay register is selected when the i-th packed command is executed.
OverlayAt(i) ==
    LET before == Taps(Nodes, locked, tap, packed)[i - 1] IN
    before.by = locked /\ before.ir = OverlayIr(claims[locked])

\* The locked program owns a value of the overlay register; its number is named by a
\* claim of another kind, of an instruction or a weak one, which claimed_class takes
\* for a claim of the value too.
Owns(v) == \E c \in claims[locked] : c.value = v /\ c.type \in OverlayTypes \ WeakTypes
Lookalike(v) == \E c \in claims[locked] : c.value = v /\ c.type \notin OverlayTypes \ WeakTypes

\* What is packed for an overlay register, whatever was packed before it that selects
\* the register, writes all of it, with a value that the program owns: unless one of
\* its claims only looks like a claim of the value.
PackedOverlayClaimed ==
    Untroubled => \A i \in DOMAIN packed :
        packed[i].op = "dr" /\ OverlayAt(i) =>
            /\ packed[i].whole
            /\ Owns(packed[i].value) \/ Lookalike(packed[i].value)

\* Disproved: "Don't defer if the overlay register is selected and if this scan is not
\* to an overlay chain we have claimed."
PackedOverlayOwned ==
    Untroubled => \A i \in DOMAIN packed :
        packed[i].op = "dr" /\ OverlayAt(i) => packed[i].whole /\ Owns(packed[i].value)

\* access_overlay: "we must ensure the value captured comes from the correct node".
CapturedFromNode == caught.of # Nobody => caught.of \in caught.from

\* A successful access_overlay, once flushed, has written the node's own value and
\* has left the overlaid instruction in the TAP.
OverlayWritten ==
    Untroubled /\ wrote # NoValue /\ packed = <<>> =>
        /\ tap.overlay = Selected(Node[locked], wrote)
        /\ tap.ir = OverlaidIr(claims[locked])

\* An access to an overlay register is made to the node's own.
OverlayAccess == CapturedFromNode /\ OverlayWritten

\* The client never refuses for want of a claim what the server would permit.
NothingWithheld == \A o \in Opens :
    LET length == IF style[o] = "node" THEN Node[o].total ELSE IrLength IN
    /\ \A v \in Instructions : Available(claims[o], Others(o), "IR", v) =>
         ClaimedClass(claims[o], "IR", v, 0) # "NOCLAIM"
    /\ \A v \in Values : Available(claims[o], Others(o), "OVERLAY", v) =>
         ClaimedClass(claims[o], "OVERLAY", v, length) # "NOCLAIM"

\* Disproved: access_ir: "We can defer execution only if we have claimed the instruction (either
\* exclusively or shared).  If we have not claimed the instruction then the server
\* might return AJI_INSTRUCTION_CLAIMED so we must not defer."
PackedIrClaimed == \A i \in DOMAIN packed :
    packed[i].op = "ir" => \E c \in claims[locked] :
        c.value = packed[i].value /\ c.type \in IrTypes \ WeakTypes

=============================================================================
