------------------------------ MODULE TcpLink ------------------------------
(***************************************************************************)
(* TCPLINK: packets of several channels over one TCP connection.           *)
(*                                                                         *)
(* A packet is a header and up to 4096 bytes for one mux: 0 is commands    *)
(* and responses, 4 and up are FIFOs of data that belong to a command.     *)
(* Packets to send are queued as vectors that point into the transmit      *)
(* buffer, the message or a FIFO; the kernel takes what it has room for.   *)
(* A sender that has to wait reads FIFO data meanwhile, but leaves a       *)
(* response alone.  A reader asks for a response or for a FIFO's data.     *)
(*                                                                         *)
(* The thread that has the link is the only one to call.  A unit stands    *)
(* for some bytes; a header is one unit when sent, two when received.  The *)
(* server answers the packets of commands in order and sends the data they *)
(* read too, unless it refuses.  Servers of two kinds are modelled: one    *)
(* reads whatever comes at any time and may respond before it sends data;  *)
(* the other, "in the same function" as the client, leaves commands alone  *)
(* while it waits to write, and sends the data first.                      *)
(***************************************************************************)
EXTENDS Naturals, SequencesExt, FiniteSetsExt, Lists

CONSTANTS
    BufferSize,     \* BUFFER_SIZE, the transmit buffer
    Threshold,      \* MEMCPY_THRESHOLD: shorter FIFO data is copied to it
    IndirectMax,    \* INDIRECT_MAX vectors
    PacketMax,      \* the longest packet (0x1000)
    Window,         \* what the kernels hold of one direction
    Pipeline,       \* packets of commands sent before the first is answered
    Shapes,         \* what a packet's commands write and read: see Shape
    MaxPackets,     \* bound: packets of commands
    MaxConnections, \* bound: connections
    LinkLoss        \* TRUE when the connection may break

\* write: the transmit FIFOs; read: the lengths of the receive FIFOs, all mux 4.
Shape == [write : Seq([mux : 4 .. 15, len : Nat \ {0}, interleave : BOOLEAN]),
          read : Seq(1 .. PacketMax)]

ASSUME LinkConstants ==
    /\ {BufferSize, Threshold, IndirectMax, PacketMax, Window, Pipeline, MaxPackets} \subseteq Nat \ {0}
    /\ IndirectMax >= 3 /\ BufferSize >= Threshold + 3
    /\ Shapes \subseteq Shape
    /\ LinkLoss \in BOOLEAN

VARIABLES
    tx,         \* the transmit queue, see Init
    rx,         \* the receiver
    op,         \* the call being made
    peer        \* the wire and the server

vars == <<tx, rx, op, peer>>

None == <<0, 0>>        \* no FIFO: FIFO k of packet n is <<n, k>>
Message(n) == <<n, 0>>  \* the message of packet n, one unit
Header(mux, len, id) == [mux |-> mux, len |-> len, of |-> id, at |-> 0]
Data(mux, id, at) == [mux |-> mux, len |-> 0, of |-> id, at |-> at]

Connected(n, patient) ==
             [patient |-> patient, \* the server is of the second kind
              first |-> n,      \* packets of commands before this connection
              heard |-> <<>>,   \* units the kernel has taken, in this connection
              taken |-> 0,      \* of those the server has read
              reply |-> <<>>,   \* units the server has to write
              in |-> <<>>,      \* units it has written and the client has not read
              answered |-> n]   \* last packet it has answered

Init ==
    /\ tx = [iov |-> <<>>,      \* m_tx_indirect .. m_tx_iptr
             buf |-> <<>>,      \* m_txbuffer .. m_txptr
             start |-> 0,       \* m_txstart
             fifos |-> <<>>,    \* m_txfifo ..
             next |-> None,     \* m_next_txfifo
             done |-> {}]       \* m_txdone
    /\ rx = [head |-> <<>>,     \* m_rxhdrbuffer
             data |-> <<>>,     \* what of the packet is in m_rxpacket
             to |-> None,       \* m_rxpacket: the FIFO it points into
             mux0 |-> FALSE,    \* m_rx_mux0_avail
             fifos |-> <<>>,    \* m_rxmux[0] ..
             full |-> {}]       \* receive FIFOs that have all their data
    /\ op = [pc |-> "idle", packets |-> <<>>, sent |-> 0, done |-> 0, connection |-> 1]
    /\ peer \in {Connected(0, patient) : patient \in BOOLEAN}

\* op.packets: the shapes of the packets of commands so far; sent, done: of them.
Oldest == op.done + 1
Goto(pc) == op' = [op EXCEPT !.pc = pc]

-----------------------------------------------------------------------------
(* The transmit queue.                                                     *)

SpaceInBuffer(threshold) == Len(tx.buf) < BufferSize - 1 - threshold

SpaceForPacket(threshold) ==
    /\ Len(tx.buf) < BufferSize - 1 - threshold
    /\ Len(tx.iov) <= IndirectMax - 2

Vector(id, from, len) == [of |-> id, from |-> from, len |-> len]
LastVector(t) == Vector(None, t.start, Len(t.buf) - t.start)

\* A packet as it is sent: its header, and len units from one of what it carries.
UnitsOfData(mux, id, from, len) == [i \in 1 .. len |-> Data(mux, id, from + i)]
SentPacket(mux, id, from, len) == <<Header(mux, len, id)>> \o UnitsOfData(mux, id, from, len)

\* add_packet with copy = false: a vector for the header and one for the data.
AddPacket(t, mux, id, from, len) ==
    LET b == [t EXCEPT !.buf = Append(@, Header(mux, len, id))] IN
    [b EXCEPT !.iov = @ \o <<LastVector(b), Vector(id, from, len)>>, !.start = Len(b.buf)]

\* next_tx_fifo's choice.
Chosen == IF tx.next # None THEN tx.next ELSE tx.fifos[1].id
Index(id) == CHOOSE i \in DOMAIN tx.fifos : tx.fifos[i].id = id
After(id) == IF Index(id) < Len(tx.fifos) THEN tx.fifos[Index(id) + 1].id ELSE None

\* deactivate_tx_fifo: its data may still be in the queue.
DeactivatedAndGone(id) ==
    [tx EXCEPT !.fifos = RemoveAt(@, Index(id)),
               !.next = IF @ = id THEN After(id) ELSE @]
Deactivated(id) ==
    [tx EXCEPT !.fifos = RemoveAt(@, Index(id)),
               !.next = IF @ = id THEN After(id) ELSE @,
               !.done = @ \cup {id}]

\* add_fifo_packet: as much as fits a packet; short data is copied.
AddInterleaved(id) ==
    LET f == tx.fifos[Index(id)]
        n == Min({PacketMax, f.len - f.pos})
        t == [tx EXCEPT !.fifos[Index(id)].pos = @ + n, !.next = After(id)] IN
    AddPacket(t, f.mux, id, f.pos, n)
AddFifoPacket(id) ==
    LET f == tx.fifos[Index(id)]
        avail == Min({PacketMax, f.len - f.pos})
        n == IF avail >= Threshold THEN avail ELSE Min({BufferSize - 1 - Len(tx.buf), avail})
        t == [tx EXCEPT !.fifos[Index(id)].pos = @ + n,
                        !.next = IF f.interleave THEN After(id) ELSE None] IN
    IF n >= Threshold THEN AddPacket(t, f.mux, id, f.pos, n)
    ELSE [t EXCEPT !.buf = @ \o SentPacket(f.mux, id, f.pos, n)]

\* What a vector points to.
MuxOf(id) == IF id[2] = 0 THEN 0 ELSE op.packets[id[1]].write[id[2]].mux
Pointed(v) ==
    IF v.of = None THEN SubSeq(tx.buf, v.from + 1, v.from + v.len)
    ELSE UnitsOfData(MuxOf(v.of), v.of, v.from, v.len)

\* send_queued first adds the last vector.
Vectors == IF Len(tx.buf) > tx.start THEN Append(tx.iov, LastVector(tx)) ELSE tx.iov
Queued == Chained([i \in DOMAIN Vectors |-> Pointed(Vectors[i])])
Room == Window - (Len(peer.heard) - peer.taken)

\* It drops what the kernel has taken: whole vectors, and the front of one.
UnitsBefore(vs, i) == Summed([k \in 1 .. i |-> vs[k].len])
WholeVectors(vs, n) ==
    CHOOSE i \in 0 .. Len(vs) : UnitsBefore(vs, i) <= n /\ (i = Len(vs) \/ n < UnitsBefore(vs, i + 1))

\* Mutant: a vector of which a part is taken is dropped.
WithoutPart(vs, n) ==
    LET whole == WholeVectors(vs, n) IN
    SubSeq(vs, (IF UnitsBefore(vs, whole) < n THEN whole + 2 ELSE whole + 1), Len(vs))

Without(vs, n) ==
    LET whole == WholeVectors(vs, n)
        part == n - UnitsBefore(vs, whole)
        v == vs[whole + 1] IN
    IF whole = Len(vs) THEN <<>>
    ELSE <<Vector(v.of, v.from + part, v.len - part)>> \o SubSeq(vs, whole + 2, Len(vs))

-----------------------------------------------------------------------------
(* send, send_fifos, send_flush: AJI_CLIENT::send.                         *)

Fifos(n, shape) == [k \in DOMAIN shape.write |->
    [id |-> <<n, k>>, mux |-> shape.write[k].mux, len |-> shape.write[k].len, pos |-> 0,
     interleave |-> shape.write[k].interleave]]
RxFifos(n, shape) == [k \in DOMAIN shape.read |-> [id |-> <<n, k>>, len |-> shape.read[k], got |-> <<>>]]

\* The queue is empty: there is space for the message without sending first.
Send(shape) ==
    /\ op.pc = "idle"
    /\ Len(op.packets) < MaxPackets
    /\ op.sent - op.done < Pipeline
    /\ LET n == Len(op.packets) + 1 IN
       /\ op' = [op EXCEPT !.pc = "fill", !.packets = Append(@, shape)]
       /\ tx' = AddPacket([tx EXCEPT !.fifos = @ \o Fifos(n, shape)], 0, Message(n), 0, 1)
       /\ rx' = [rx EXCEPT !.fifos = @ \o RxFifos(n, shape)]
    /\ UNCHANGED peer

Drained(id) == LET f == tx.fifos[Index(id)] IN f.pos = f.len

\* One FIFO packet, or the end of a FIFO: while there is space in send, and in
\* send_fifos whenever there is.
Queue ==
    /\ op.pc \in {"fill", "load"}
    /\ tx.fifos # <<>>
    /\ \/ /\ op.pc = "load" \/ SpaceForPacket(Threshold)
          /\ Drained(Chosen)
          /\ tx' = Deactivated(Chosen)
       \/ /\ SpaceForPacket(Threshold)
          /\ ~Drained(Chosen)
          /\ tx' = AddFifoPacket(Chosen)
    /\ UNCHANGED <<rx, op, peer>>

Filled ==
    /\ op.pc = "fill"
    /\ tx.fifos = <<>> \/ ~SpaceForPacket(Threshold)
    /\ Goto("push")
    /\ UNCHANGED <<tx, rx, peer>>

\* Everything is queued, and sent; or the queue has to be sent.
Loaded ==
    /\ op.pc = "load"
    /\ \/ tx.fifos = <<>> /\ Queued # <<>> /\ Goto("write")
       \/ tx.fifos = <<>> /\ Queued = <<>> /\ op' = [op EXCEPT !.pc = "idle", !.sent = @ + 1]
       \/ tx.fifos # <<>> /\ ~Drained(Chosen) /\ ~SpaceForPacket(Threshold) /\ Goto("write")
    /\ UNCHANGED <<tx, rx, peer>>

\* send_queued: the kernel takes n units.
TakenNotRewound(n) ==
    [tx EXCEPT !.iov = Without(Vectors, n), !.start = Len(tx.buf),
               !.buf = IF n = Len(Queued) THEN <<>> ELSE @]
Taken(n) ==
    IF n = Len(Queued)
    THEN [tx EXCEPT !.iov = <<>>, !.buf = <<>>, !.start = 0, !.done = {}]
    ELSE [tx EXCEPT !.iov = Without(Vectors, n), !.start = Len(tx.buf)]

\* Without blocking the first attempt is the only one.
Write ==
    /\ op.pc \in {"push", "write"}
    /\ \E n \in IF Room = 0 THEN {0} ELSE 1 .. Min({Room, Len(Queued)}) :
         /\ tx' = Taken(n)
         /\ peer' = [peer EXCEPT !.heard = @ \o SubSeq(Queued, 1, n)]
         /\ Goto(IF op.pc = "push" \/ n = Len(Queued) THEN "load" ELSE "space")
    /\ UNCHANGED rx

\* wait_for_space: to write, or while that would block to receive.
WaitToWrite ==
    /\ op.pc = "space"
    /\ Room > 0
    /\ Goto("write")
    /\ UNCHANGED <<tx, rx, peer>>
WaitForSpace ==
    /\ op.pc = "space"
    /\ \/ Room > 0 /\ Goto("write")
       \/ Room = 0 /\ ~rx.mux0 /\ peer.in # <<>> /\ Goto("drain")
    /\ UNCHANGED <<tx, rx, peer>>

-----------------------------------------------------------------------------
(* receive: one call of recv, and what it completes.                       *)

HeaderRead == Len(rx.head) = 2
Mux == rx.head[1].mux
Expect == rx.head[1].len

\* The last FIFO has its data: "waiting for just the last one is sufficient".
HasData(r) == LET reads == op.packets[Oldest].read IN
    reads = <<>> \/ \E f \in r.full : f.id = <<Oldest, Len(reads)>>

Receiving == op.pc \in {"drain", "answer"} \/ (op.pc = "poll" /\ ~HasData(rx))

\* A response is for receive_cmnd only.
HeldBack == HeaderRead /\ Mux = 0 /\ op.pc # "answer"

RecvHeader ==
    /\ Receiving
    /\ ~HeaderRead
    /\ \E n \in 1 .. Min({2 - Len(rx.head), Len(peer.in)}) :
         /\ rx' = [rx EXCEPT !.head = @ \o SubSeq(peer.in, 1, n)]
         /\ peer' = [peer EXCEPT !.in = SubSeq(@, n + 1, Len(@))]
    /\ UNCHANGED <<tx, op>>

\* The FIFO that gets the next packet, and the one m_rxpacket points into.
Receiver == IF Mux >= 4 /\ rx.fifos # <<>> THEN rx.fifos[1].id ELSE None

\* get_receive_buffer has no place for the packet: recv fails.
TooLong ==
    /\ Receiving /\ HeaderRead
    /\ Receiver # None /\ rx.data = <<>>
    /\ Len(rx.fifos[1].got) + Expect > rx.fifos[1].len

\* The packet is complete.  A FIFO that is full leaves the queue.
EndedInPlace(r) == [r EXCEPT !.head = <<>>, !.data = <<>>]
Ended(r) == [r EXCEPT !.head = <<>>, !.data = <<>>, !.to = None]

Delivered(r) ==
    IF Receiver = None THEN Ended(r)
    ELSE LET f == [r.fifos[1] EXCEPT !.got = @ \o r.data] IN
         Ended(IF Len(f.got) >= f.len
               THEN [r EXCEPT !.fifos = SubSeq(@, 2, Len(@)), !.full = @ \cup {f}]
               ELSE [r EXCEPT !.fifos[1] = f])

StillAvailable(r) == Ended(r)
Responded(r) == [Ended(r) EXCEPT !.mux0 = FALSE]

OfPacket(f) == f.id[1] = Oldest
\* The response is dealt with: its FIFOs are deleted.
KeptFifos(r) == [r EXCEPT !.full = {f \in @ : ~OfPacket(f)}]
Forgotten(r) ==
    [r EXCEPT !.fifos = Filtered(@, {f \in Range(@) : ~OfPacket(f)}), !.full = {f \in @ : ~OfPacket(f)}]

Finish == op' = [op EXCEPT !.pc = "idle", !.done = @ + 1]

RecvData ==
    /\ Receiving
    /\ HeaderRead
    /\ ~HeldBack
    /\ ~TooLong
    /\ \E n \in 1 .. Min({Expect - Len(rx.data), Len(peer.in)}) :
         LET r == [rx EXCEPT !.data = @ \o SubSeq(peer.in, 1, n),
                             !.to = IF rx.data = <<>> THEN Receiver ELSE @] IN
         /\ peer' = [peer EXCEPT !.in = SubSeq(@, n + 1, Len(@))]
         /\ \/ Len(r.data) < Expect /\ rx' = r /\ UNCHANGED op
            \/ /\ Len(r.data) = Expect /\ Mux # 0
               /\ rx' = Delivered(r)
               /\ IF op.pc = "drain" THEN Goto("space") ELSE UNCHANGED op
            \/ /\ Len(r.data) = Expect /\ Mux = 0
               /\ LET ok == r.data[1].at = 1
                      over == ~ok \/ HasData(r) IN
                  /\ rx' = IF over THEN Forgotten(Responded(r)) ELSE Responded(r)
                  /\ IF over THEN Finish ELSE Goto("poll")
    /\ UNCHANGED tx

\* What ends wait_for_space's receive: nothing there, or a response.
EndDrain ==
    /\ op.pc = "drain"
    /\ \/ HeldBack /\ rx' = [rx EXCEPT !.mux0 = TRUE]
       \/ ~HeldBack /\ peer.in = <<>> /\ UNCHANGED rx
    /\ Goto("space")
    /\ UNCHANGED <<tx, peer>>

\* receive_cmnd, for the oldest packet.
ReceiveCmnd ==
    /\ op.pc = "idle"
    /\ op.done < op.sent
    /\ Goto("answer")
    /\ UNCHANGED <<tx, rx, peer>>

EndPoll ==
    /\ op.pc = "poll"
    /\ HasData(rx)
    /\ rx' = Forgotten(rx)
    /\ Finish
    /\ UNCHANGED <<tx, peer>>

-----------------------------------------------------------------------------
(* The connection.                                                         *)

\* close: delete_unsent.  The FIFOs and the receiver are left as they are.
Close ==
    /\ LinkLoss \/ TooLong
    /\ op.pc \in {"push", "write", "space", "drain", "answer", "poll"}
    /\ op' = [op EXCEPT !.pc = "down", !.sent = Len(op.packets), !.done = Len(op.packets)]
    /\ tx' = [tx EXCEPT !.iov = <<>>, !.buf = <<>>, !.start = 0]
    /\ UNCHANGED <<rx, peer>>

Reconnect ==
    /\ op.pc = "down"
    /\ op.connection < MaxConnections
    /\ op' = [op EXCEPT !.pc = "idle", !.connection = @ + 1]
    /\ peer' = Connected(Len(op.packets), peer.patient)
    /\ UNCHANGED <<tx, rx>>

\* The server, as the client sees it.
UnitsOf(id) == {i \in 1 .. peer.taken : peer.heard[i].of = id /\ peer.heard[i].at > 0}
Arrived(n) ==
    /\ UnitsOf(Message(n)) # {}
    /\ \A k \in DOMAIN op.packets[n].write :
         Cardinality(UnitsOf(<<n, k>>)) = op.packets[n].write[k].len

PeerRead ==
    /\ peer.taken < Len(peer.heard)
    /\ ~peer.patient \/ peer.reply = <<>> \/ peer.heard[peer.taken + 1].mux # 0
    /\ peer' = [peer EXCEPT !.taken = @ + 1]
    /\ UNCHANGED <<tx, rx, op>>

Packet(mux, id, data) == <<Header(mux, Len(data), id), Header(mux, Len(data), id)>> \o data
Response(n, at) == Packet(0, Message(n), <<Data(0, Message(n), at)>>)
Reads(n) == Chained([k \in DOMAIN op.packets[n].read |->
    Packet(4, <<n, k>>, [i \in 1 .. op.packets[n].read[k] |-> Data(4, <<n, k>>, i)])])

PeerAnswer ==
    /\ peer.answered < Len(op.packets)
    /\ LET n == peer.answered + 1 IN
       /\ Arrived(n)
       /\ \E answer \in {Reads(n) \o Response(n, 1), Response(n, 2)}
                         \cup (IF peer.patient THEN {} ELSE {Response(n, 1) \o Reads(n)}) :
            peer' = [peer EXCEPT !.answered = n, !.reply = @ \o answer]
    /\ UNCHANGED <<tx, rx, op>>

PeerWrite ==
    /\ peer.reply # <<>>
    /\ Len(peer.in) < Window
    /\ peer' = [peer EXCEPT !.in = Append(@, peer.reply[1]), !.reply = SubSeq(@, 2, Len(@))]
    /\ UNCHANGED <<tx, rx, op>>

\* The calls the thread that has the link goes on with.
Proceed ==
    Queue \/ Filled \/ Loaded \/ Write \/ WaitForSpace \/ RecvHeader \/ RecvData
    \/ EndDrain \/ EndPoll

Peer == PeerRead \/ PeerAnswer \/ PeerWrite

Next ==
    \/ \E shape \in Shapes : Send(shape)
    \/ ReceiveCmnd
    \/ Proceed
    \/ Close
    \/ Reconnect
    \/ Peer

Spec == Init /\ [][Next]_vars

\* As long as the thread or the server can do something, one of them does: a call
\* that never ended would be one in which both of them wait.
FairSpec == Spec /\ WF_vars(Proceed \/ Peer)

-----------------------------------------------------------------------------
(* Properties.                                                             *)

Ids == (0 .. MaxPackets) \X Nat
Unit == [mux : 0 .. 15, len : 0 .. PacketMax, of : Ids, at : Nat]

TypeOK ==
    /\ tx.iov \in Seq([of : Ids, from : Nat, len : Nat \ {0}])
    /\ tx.buf \in Seq(Unit) /\ tx.start \in 0 .. Len(tx.buf)
    /\ \A i \in DOMAIN tx.fifos : tx.fifos[i].pos \in 0 .. tx.fifos[i].len
    /\ tx.next \in Ids /\ tx.done \subseteq Ids
    /\ rx.head \in Seq(Unit) /\ rx.data \in Seq(Unit) /\ rx.to \in Ids /\ rx.mux0 \in BOOLEAN
    /\ op.done <= op.sent /\ op.sent <= Len(op.packets)
    /\ peer.heard \in Seq(Unit) /\ peer.reply \in Seq(Unit) /\ peer.in \in Seq(Unit)

\* delete_unsent does not delete all that is left of a lost connection: the
\* properties are about the first connection.
Unbroken == op.connection = 1 /\ op.pc # "down"

\* The queue fits its arrays, the last vector included, and send finds it empty.
QueueFits ==
    /\ Len(Vectors) <= IndirectMax
    /\ Len(tx.buf) <= BufferSize
    /\ Unbroken /\ op.pc \in {"idle", "answer", "poll"} => Queued = <<>> /\ tx.fifos = <<>>

\* However the kernel cuts it, the stream is packets: a header and as many units
\* of its mux as it says.
Framed ==
    LET s == peer.heard IN
    \A i \in DOMAIN s :
      IF s[i].at = 0
      THEN \A j \in i + 1 .. Min({i + s[i].len, Len(s)}) : s[j].at > 0 /\ s[j].of = s[i].of
      ELSE \E j \in 1 .. i - 1 : s[j].at = 0 /\ i <= j + s[j].len

\* The data of every FIFO and message is sent in order, once, after the message
\* that announces it, and in the order "peer expects fifos to be sent": one after
\* the other, unless interleaved.
InOrder == Unbroken =>
    LET s == peer.heard IN
    \A j \in DOMAIN s : s[j].at > 0 =>
      LET before == {i \in 1 .. j - 1 : s[i].at > 0} IN
      /\ s[j].at = 1 + Cardinality({i \in before : s[i].of = s[j].of})
      /\ \A i \in before : s[i].of # s[j].of =>
           \/ s[i].of[1] < s[j].of[1]
           \/ s[i].of[1] = s[j].of[1] /\ s[i].of[2] < s[j].of[2]
           \/ /\ s[i].of[1] = s[j].of[1] /\ s[j].of[2] > 0
              /\ op.packets[s[j].of[1]].write[s[j].of[2]].interleave

\* No vector points to a FIFO that has been deleted: the kernel is never given
\* memory that was freed while it had no room.
VectorsAlive == \A i \in DOMAIN tx.iov : tx.iov[i].of[2] > 0 =>
    tx.iov[i].of \in tx.done \cup {tx.fifos[j].id : j \in DOMAIN tx.fifos}

\* What is queued fits, and is there until it is sent.
QueueSound == TypeOK /\ QueueFits /\ VectorsAlive

\* What is sent is whole and in order.
StreamSound == Framed /\ InOrder

\* A receive FIFO gets the data its own command read, all of it and in order,
\* though FIFOs of several packets share a mux and some packets are refused.
OwnData == Unbroken =>
    /\ \A f \in rx.full \cup {rx.fifos[i] : i \in DOMAIN rx.fifos} :
         \A i \in DOMAIN f.got : f.got[i] = Data(4, f.id, i)
    /\ \A f \in rx.full : Len(f.got) = f.len

\* A packet is received into the FIFO that is told of it at its end, and that
\* FIFO still exists: also if it is received in parts, by a sender that waits.
IntoLiveFifo == rx.to # None => rx.fifos # <<>> /\ rx.fifos[1].id = rx.to

\* While sending, the reader leaves a response for receive_cmnd, whole, and
\* remembers it: it is the response to the oldest packet.
ResponseKept == Unbroken =>
    /\ rx.mux0 => HeaderRead /\ Mux = 0 /\ rx.data = <<>>
    /\ HeaderRead /\ Mux = 0 => rx.head[1].of = Message(Oldest)

\* What is received goes to whom it is for.
DataToOwner == OwnData /\ IntoLiveFifo /\ ResponseKept

\* Sending and receiving come to an end while the server goes on, also if both
\* ends have more to send than the connection holds.
CallEnds == Unbroken /\ op.pc # "idle" ~> op.pc \in {"idle", "down"}

\* Disproved in the second connection: delete_unsent: "Delete all unsent data as the connection has broken."
UnsentDeleted == \A i \in DOMAIN peer.heard : peer.heard[i].of[1] > peer.first

=============================================================================
