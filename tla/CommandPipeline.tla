-------------------------- MODULE CommandPipeline --------------------------
(***************************************************************************)
(* The commands of one locked device on their way to the server.           *)
(*                                                                         *)
(* AJI_OPEN_JS packs commands into the transmit buffer of its link and     *)
(* notes in an ACTIONS record which answers to expect.  There are four     *)
(* records: free, the one being filled, and the queue of packets that were *)
(* sent and not answered.  When a record is full the packet is sent and    *)
(* the next one starts with CONTINUE_COMMANDS; when no record is free the  *)
(* oldest answer is awaited first.  A call that may not be packed sends    *)
(* everything and waits for every answer.  The link is not lost here: see  *)
(* DeviceLock.  A call is one step: it is made by the thread that has the  *)
(* link.  What the server answers is chosen when the answer is read.       *)
(***************************************************************************)
EXTENDS Integers, Sequences, SequencesExt, Lists

CONSTANTS
    Buffers,        \* ACTIONS records of a device
    DeferredMax,    \* DEFERRED_MAX
    OutputMax,      \* OUTPUT_MAX
    MaxCommands,    \* bound: commands given by the program
    Styles,         \* pack styles the program locks the device with
    Kinds           \* kinds of command it gives, see Deferrable

AllStyles == {"never", "auto", "manual", "stream"}

\* plain: run_test_idle, delay, test_logic_reset, a short access_dr; big: an
\* access_dr that writes 1024 bytes or more; read: an access_dr that reads;
\* ir: an access_ir, claimed; unclaimed: one of an instruction not claimed.
AllKinds == {"plain", "big", "read", "ir", "unclaimed"}

ASSUME PipelineConstants ==
    /\ Buffers \in Nat \ {0, 1}
    /\ DeferredMax \in Nat \ {0, 1}
    /\ OutputMax \in Nat \ {0}
    /\ MaxCommands \in Nat
    /\ Styles \subseteq AllStyles
    /\ Kinds \subseteq AllKinds

VARIABLES
    dev,        \* the device and its transmit buffer, see Init
    style,      \* m_pack_style and m_pack_stream
    call,       \* the call that awaits answers in send_receive
    issued,     \* commands given so far: they are numbered
    result      \* what the last call returned: "ok" or "error", "done" for a
                \* successful unlock, "flushed" for a successful flush

vars == <<dev, style, call, issued, result>>

\* The program's commands, numbered in the order they are given, and the others.
Own(n) == <<"command", n>>
LOCK == <<"lock", 0>>
UNLOCK == <<"unlock", 0>>
CONTINUE == <<"continue", 0>>

Ids == {Own(n) : n \in 1 .. MaxCommands}
Command == Ids \cup {LOCK, UNLOCK, CONTINUE}

None == [none |-> TRUE]             \* m_fill_actions is NULL
EmptyActions == [expect |-> <<>>, outputs |-> 0]

NoCall == [of |-> "none", error |-> FALSE]

Init ==
    /\ dev = [free |-> Buffers,     \* length of m_free_actions
              fill |-> None,        \* m_fill_actions: answers expected, output FIFOs
              next |-> <<>>,        \* m_next_actions ..: packets sent, answers expected
              tx |-> <<>>,          \* the commands in m_tx
              locked |-> FALSE,     \* m_locked
              lockFail |-> FALSE,   \* m_lock_fail
              deferError |-> FALSE, \* m_defer_error
              granted |-> FALSE,    \* the server has locked the device for us
              stuck |-> FALSE,      \* it refused a command of the last packet it read
              parted |-> FALSE,     \* history: send_continue, waiting for a record, read a refusal
              executed |-> <<>>]    \* the program's commands it has executed
    /\ style = "never"
    /\ call = NoCall
    /\ issued = 0
    /\ result = "ok"

-----------------------------------------------------------------------------
(* Answers.                                                                *)

\* How many commands of a packet the server executes before it refuses one:
\* all, when it refuses none.  A packet that continues a refused one is refused,
\* and so is everything but LOCK_DEVICE while the device is not locked.
Executable(d, sent, mayRefuse) ==
    IF sent = <<>> THEN {0}
    ELSE IF (d.stuck /\ sent[1] = CONTINUE) \/ (~d.granted /\ sent[1] \notin {CONTINUE, LOCK})
    THEN {0}
    ELSE {Len(sent)} \cup {k \in 0 .. Len(sent) - 1 : mayRefuse /\ sent[k + 1] # CONTINUE}

OwnCommands(cs) == Filtered(cs, Ids)

\* The record of the answered packet is put on the free list.
NotFreed(d) == d.free
Freed(d) == d.free + 1

\* receive_response: the answer to the oldest packet, of which k commands were
\* executed.
Answered(d, k) ==
    LET packet == Head(d.next)
        n == Len(packet.expect)
        got == SubSeq(packet.sent, 1, k) IN
    [d EXCEPT !.next = Tail(@),
              !.free = Freed(d),
              !.granted = (@ \/ Contains(got, LOCK)) /\ ~Contains(got, UNLOCK),
              !.stuck = k < Len(packet.sent),
              !.lockFail = @ \/ (k < n /\ Contains(SubSeq(packet.expect, k + 1, n), LOCK)),
              !.executed = @ \o OwnCommands(got)]

ReceiveResponse(d, mayRefuse) ==
    {[dev |-> Answered(d, k), error |-> k < Len(Head(d.next).expect)]
     : k \in Executable(d, Head(d.next).sent, mayRefuse)}

\* The first part of get_txmessage: a free record to fill.
TakeActions(d) == [d EXCEPT !.free = @ - 1, !.fill = EmptyActions]

\* send_command: own is the answer expected besides those of packed commands.
SendCommand(d, own) ==
    [d EXCEPT !.next = Append(@, [sent |-> d.tx, expect |-> d.fill.expect \o own]),
              !.fill = None,
              !.tx = <<>>]

\* start_command and assume_success, expect_output.
Pack(d, c, outputs) ==
    [d EXCEPT !.tx = Append(@, c),
              !.fill = [expect |-> Append(@.expect, c), outputs |-> @.outputs + outputs]]

\* The next packet continues the one just sent.
BeginAnew(d) == TakeActions(d)
PackSilently(d) == [TakeActions(d) EXCEPT !.tx = <<CONTINUE>>]
Continue(d) == Pack(TakeActions(d), CONTINUE, 0)

SendRegardless(d) == {[dev |-> Continue(SendCommand(d, <<>>)), ok |-> ~d.lockFail]}

\* send_continue: the packet is sent and the next one begun.  When no record is
\* free the oldest answer is awaited; if that is an error there is no record, and the
\* command of the caller will be added to the buffer without one.
SendContinue(d) ==
    LET sent == SendCommand(d, <<>>) IN
    IF sent.free > 0 THEN {[dev |-> Continue(sent), ok |-> ~sent.lockFail]}
    ELSE {IF r.error THEN [dev |-> [r.dev EXCEPT !.parted = TRUE], ok |-> FALSE]
          ELSE [dev |-> Continue(r.dev), ok |-> ~r.dev.lockFail]
          : r \in ReceiveResponse(sent, TRUE)}

-----------------------------------------------------------------------------
(* Whether a command may be packed.                                        *)

Outputs(kind) == IF kind = "read" THEN 1 ELSE 0

\* get_txmessage packs it, if the record has room.
MayPack(kind) ==
    /\ style # "never"
    /\ ~(style = "auto" /\ kind = "read")
    /\ ~(style # "stream" /\ kind = "big")

OneTooMany(d, kind) == Len(d.fill.expect) > DeferredMax \/ d.fill.outputs > OutputMax

Full(d, kind) ==
    \/ Len(d.fill.expect) >= DeferredMax
    \/ d.fill.outputs + Outputs(kind) > OutputMax

\* The command's own function agrees.
Deferrable(kind) ==
    /\ MayPack(kind)
    /\ kind # "unclaimed"
    /\ ~(style = "auto" /\ kind = "ir")

\* get_txmessage: the record to fill, and whether the command may be packed.  It
\* has a record at once (RecordAtHand) and awaits one only to begin a new packet.
GetTxMessage(d, kind) ==
    LET e == IF d.fill = None THEN TakeActions(d) ELSE d IN
    IF MayPack(kind) /\ Full(e, kind) THEN SendContinue(e)
    ELSE {[dev |-> e, ok |-> MayPack(kind)]}

-----------------------------------------------------------------------------
(* send_receive.                                                           *)

\* The command own, if any, is sent after those packed before it, and all
\* answers are awaited.  Without an ACTIONS record nothing is sent.
SendReceive(d, of, own) ==
    LET e == [d EXCEPT !.tx = @ \o own] IN
    /\ dev' = IF d.fill = None THEN e ELSE SendCommand(e, own)
    /\ call' = [of |-> of, error |-> FALSE]

\* The answers are awaited to the last, also after an error.
StopsAtError == dev.next = <<>> \/ call.error
AllReceived == dev.next = <<>>

Receive ==
    /\ call # NoCall
    /\ ~AllReceived
    /\ \E r \in ReceiveResponse(dev, TRUE) :
         /\ dev' = r.dev
         /\ call' = [call EXCEPT !.error = @ \/ r.error]
    /\ UNCHANGED <<style, issued, result>>

\* A speculative lock that was refused is given up, with what is in m_tx.
BelieveLock(d) == d
TidyUp(d) == IF d.locked /\ d.lockFail THEN [d EXCEPT !.locked = FALSE, !.tx = <<>>] ELSE d

\* The call returns.  An error of send_deferred is kept for the next call.
Return ==
    LET d == TidyUp(dev) IN
    /\ call # NoCall
    /\ AllReceived
    /\ call' = NoCall
    /\ dev' = CASE call.of = "unlock" -> [d EXCEPT !.locked = FALSE]
                [] call.of = "other"  -> [d EXCEPT !.deferError = call.error]
                [] OTHER              -> d
    /\ result' = IF call.of = "other" THEN result
                 ELSE IF call.error THEN "error"
                 ELSE CASE call.of = "unlock" -> "done" [] call.of = "flush" -> "flushed"
                        [] OTHER -> "ok"
    /\ UNCHANGED <<style, issued>>

-----------------------------------------------------------------------------
(* The calls.                                                              *)

\* Calls but flush and unlock first report the error another device was given.
PendingError ==
    /\ call = NoCall
    /\ dev.deferError
    /\ dev' = [dev EXCEPT !.deferError = FALSE]
    /\ result' = "error"
    /\ UNCHANGED <<style, call, issued>>

\* A command is packed, or sent and awaited.
Issue(kind) ==
    LET c == Own(issued + 1) IN
    /\ call = NoCall
    /\ dev.locked
    /\ ~dev.deferError
    /\ issued < MaxCommands
    /\ issued' = issued + 1
    /\ UNCHANGED style
    /\ \E g \in GetTxMessage(dev, kind) :
         \/ /\ g.ok /\ Deferrable(kind)
            /\ LET d == Pack(g.dev, c, Outputs(kind)) IN
               dev' \in IF kind = "big" THEN {s.dev : s \in SendContinue(d)} ELSE {d}
            /\ result' = "ok"
            /\ UNCHANGED call
         \/ /\ ~(g.ok /\ Deferrable(kind))
            /\ SendReceive(g.dev, "command", <<c>>)
            /\ UNCHANGED result

\* lock: packed, or sent at once.  A refusal that is read while the device is not
\* locked is answered with UNLOCK_DEVICE and replaced by what add_unlock returns:
\* the record that add_unlock takes stays, and the program believes the lock.
Lock(s) ==
    LET taken == [TakeActions(dev) EXCEPT !.locked = TRUE, !.lockFail = FALSE] IN
    /\ call = NoCall
    /\ ~dev.locked
    /\ ~dev.deferError
    /\ style' = s
    /\ \/ s # "never" /\ dev' = Pack(taken, LOCK, 0)
       \/ s = "never" /\ dev' = [dev EXCEPT !.locked = TRUE, !.lockFail = FALSE, !.granted = TRUE]
       \/ s = "never" /\ dev' = [taken EXCEPT !.granted = FALSE]
    /\ result' = "ok"
    /\ UNCHANGED <<call, issued>>

Flush ==
    /\ call = NoCall
    /\ dev.locked
    /\ IF dev.fill = None /\ dev.next = <<>>
       THEN result' = "flushed" /\ UNCHANGED <<dev, call>>
       ELSE SendReceive(dev, "flush", <<>>) /\ UNCHANGED result
    /\ UNCHANGED <<style, issued>>

\* unlock: UNLOCK_DEVICE goes after what is packed.
Unlock ==
    /\ call = NoCall
    /\ dev.locked
    /\ ~dev.deferError
    /\ \E g \in GetTxMessage(dev, "plain") : SendReceive(g.dev, "unlock", <<UNLOCK>>)
    /\ UNCHANGED <<style, issued, result>>

UnlockPending ==
    /\ call = NoCall
    /\ dev.locked
    /\ dev.deferError
    /\ dev' = [dev EXCEPT !.locked = FALSE, !.deferError = FALSE]
    /\ result' = "error"
    /\ UNCHANGED <<style, call, issued>>

\* send_deferred: another device of the link is used while commands are packed.
SendDeferred ==
    /\ call = NoCall
    /\ dev.tx # <<>>
    /\ SendReceive(dev, "other", <<>>)
    /\ UNCHANGED <<style, issued, result>>

Next ==
    \/ \E s \in Styles : Lock(s)
    \/ \E kind \in Kinds : Issue(kind)
    \/ Receive \/ Return
    \/ PendingError \/ Flush \/ Unlock \/ UnlockPending \/ SendDeferred

Spec == Init /\ [][Next]_vars

-----------------------------------------------------------------------------
(* Properties.                                                             *)

Packet == [sent : Seq(Command), expect : Seq(Command)]

TypeOK ==
    /\ dev \in [free : 0 .. Buffers, fill : {None} \cup [expect : Seq(Command), outputs : Nat],
                next : Seq(Packet), tx : Seq(Command), locked : BOOLEAN, lockFail : BOOLEAN,
                deferError : BOOLEAN, granted : BOOLEAN, stuck : BOOLEAN, parted : BOOLEAN,
                executed : Seq(Ids)]
    /\ style \in AllStyles
    /\ call \in [of : {"none", "command", "flush", "unlock", "other"}, error : BOOLEAN]
    /\ issued \in 0 .. MaxCommands
    /\ result \in {"ok", "error", "done", "flushed"}

\* Every answer is read for the command that it answers: what is in the packet
\* is what its record expects, also for the packet being filled.
AnswersExpected ==
    /\ dev.tx = IF dev.fill = None THEN <<>> ELSE dev.fill.expect
    /\ \A i \in DOMAIN dev.next : dev.next[i].sent = dev.next[i].expect

\* The four records are never lost: each is free, filled or awaits its answer.
RecordsKept == dev.free + Len(dev.next) + (IF dev.fill = None THEN 0 ELSE 1) = Buffers

\* A call finds a record to fill: get_txmessage then never returns NULL to it.
RecordAtHand == call = NoCall => dev.fill # None \/ dev.free > 0

\* The arrays of a record hold what is written to them.
WithinRecord == dev.fill # None =>
    Len(dev.fill.expect) <= DeferredMax /\ dev.fill.outputs <= OutputMax

\* The records: none is lost, one is at hand and none is overrun.
RecordsSound == TypeOK /\ RecordsKept /\ RecordAtHand /\ WithinRecord

\* A packet that is sent, or filled, while another is not answered continues it:
\* it does nothing when that one failed (send_receive: "the CONTINUE_COMMAND
\* command will ensure that the same error is in all subsequent packets").
Continues(cs) == cs # <<>> /\ cs[1] = CONTINUE

ContinuesUnanswered ==
    /\ \A i \in 2 .. Len(dev.next) : Continues(dev.next[i].sent)
    /\ dev.next # <<>> /\ dev.fill # None => Continues(dev.tx)

\* The packets and their answers are in step, until a refusal is read for want of a record.
AnswersInStep == ~dev.parted => AnswersExpected /\ ContinuesUnanswered

\* A refused lock is not believed after the answers were awaited.
RefusalNoticed == dev.locked /\ dev.lockFail => call # NoCall \/ dev.next # <<>>

\* Between calls, a device that is not locked has nothing packed or unanswered
\* that another user of the link could send or receive.
NothingLeft == ~dev.locked /\ call = NoCall =>
    dev.fill = None /\ dev.next = <<>> /\ dev.tx = <<>>

\* Nothing of a lock is left when it is given up, or was never had; until then.
NothingForgotten == ~dev.parted => RefusalNoticed /\ NothingLeft

\* Disproved: send_continue: "we just refuse to defer commands, and send a packet
\* containing CONTINUE and the new command, which will fail again": a call that returns
\* an error leaves no command behind.
FailsAgain == result = "error" => dev.tx = <<>>

\* The promise, see CommandQueue.  What is to do is in the packets; a refusal
\* is owed to the program until a call reports it.
Packed(packets) == [i \in DOMAIN packets |-> OwnCommands(packets[i].sent)]
Todo(d) == Chained(Packed(d.next)) \o OwnCommands(d.tx)
Owed == dev.deferError \/ call.error \/ (dev.stuck /\ dev.next # <<>> /\ Continues(dev.next[1].sent))

Queue == INSTANCE CommandQueue
    WITH Commands <- Ids, done <- dev.executed, owed <- Owed,
         todo <- IF Owed THEN <<>> ELSE Todo(dev)

\* Packing, limits and lost refusals are invisible: commands are executed in
\* order, once, and never after a refusal the program has not been told of; until a
\* refusal is read for want of a record, when a command is left in the buffer.
ImplementsQueue == Queue!Init /\ [][dev'.parted \/ Queue!Next]_(Queue!vars)

=============================================================================
