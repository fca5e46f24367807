--------------------------- MODULE TcpLink_proofs ---------------------------
(***************************************************************************)
(* Proofs about TcpLink: its transmit queue fits and stays alive, what is  *)
(* sent is whole and in order, and what is received goes to whom it is     *)
(* for.  The invariant of the first is, of the queue, what its vectors     *)
(* point to and what fits its arrays (TxSound), of the call, when the      *)
(* queue is empty (Rested), of the receiver, where the data it takes goes  *)
(* (RxSound), and of the server, what it has read (PeerSound).  That of    *)
(* the second, Streamed, is about what the kernel has and what is queued   *)
(* as one stream: sending only moves the boundary.  That of the third,     *)
(* Received, is about what has been answered and not been dealt with as a  *)
(* list of packets, which leads from the client's place to the packet to   *)
(* be answered next.                                                       *)
(***************************************************************************)
EXTENDS TcpLink, Lists_proofs, FiniteSetTheorems

-----------------------------------------------------------------------------
(* The transmit queue.                                                     *)

Vect == [of : Ids, from : Nat, len : Nat \ {0}]
TxFifo == [id : Ids, mux : 4 .. 15, len : Nat \ {0}, pos : Nat, interleave : BOOLEAN]
TxQueue == [iov : Seq(Vect), buf : Seq(Unit), start : Nat, fifos : Seq(TxFifo), next : Ids, done : SUBSET Ids]

\* The transmit FIFO id is one of a packet's commands.
Declared(packets, id) == id[1] \in DOMAIN packets /\ id[2] \in DOMAIN packets[id[1]].write
IsMessage(packets, id) == id[1] \in DOMAIN packets /\ id[2] = 0

AsDeclared(packets, f) ==
    /\ Declared(packets, f.id)
    /\ LET w == packets[f.id[1]].write[f.id[2]] IN
       f.mux = w.mux /\ f.len = w.len /\ f.interleave = w.interleave
    /\ f.pos <= f.len

\* Every FIFO is a command's, and queued once; the next one is queued.
FifosKnown(t, packets) ==
    /\ \A i \in DOMAIN t.fifos : AsDeclared(packets, t.fifos[i])
    /\ \A i, j \in DOMAIN t.fifos : t.fifos[i].id = t.fifos[j].id => i = j
    /\ t.next # None => \E i \in DOMAIN t.fifos : t.fifos[i].id = t.next

Alive(t, id) == id \in t.done \/ \E i \in DOMAIN t.fifos : t.fifos[i].id = id

\* A vector points into the buffer, before the part that is not in a vector yet, or to a
\* message, or to a FIFO that has not been deleted.
Points(t, packets, v) ==
    \/ v.of = None /\ v.from + v.len <= t.start
    \/ IsMessage(packets, v.of)
    \/ Declared(packets, v.of) /\ Alive(t, v.of)

Sizes(t) ==
    /\ t.start <= Len(t.buf) /\ Len(t.buf) <= BufferSize
    /\ Len(t.iov) <= IndirectMax
    /\ t.start < Len(t.buf) => Len(t.iov) < IndirectMax
    /\ t.iov = <<>> => t.start = 0

TxSound(t, packets) ==
    /\ t \in TxQueue /\ Sizes(t)
    /\ FifosKnown(t, packets)
    /\ \A i \in DOMAIN t.iov : Points(t, packets, t.iov[i])

\* The constants, one by one.
LEMMA Constants ==
    /\ BufferSize \in Nat /\ Threshold \in Nat \ {0} /\ IndirectMax \in Nat /\ PacketMax \in Nat \ {0}
    /\ Window \in Nat \ {0} /\ Pipeline \in Nat /\ MaxPackets \in Nat
    /\ IndirectMax >= 3 /\ BufferSize >= Threshold + 3
    /\ Shapes \subseteq Shape
BY LinkConstants

\* A queue with other vectors and another buffer.
Requeued(t, i, b, s) == [t EXCEPT !.iov = i, !.buf = b, !.start = s]
IsRequeued(r, t, i, b, s) ==
    /\ r \in TxQueue /\ r.iov = i /\ r.buf = b /\ r.start = s
    /\ r.fifos = t.fifos /\ r.next = t.next /\ r.done = t.done
\* What the parts of a queue are after its vectors, buffer and start have changed.
LEMMA TxUpdated ==
    ASSUME NEW t \in TxQueue, NEW i \in Seq(Vect), NEW b \in Seq(Unit), NEW s \in Nat
    PROVE  IsRequeued(Requeued(t, i, b, s), t, i, b, s)
BY DEF TxQueue, Requeued, IsRequeued

\* The fields of a queue.
LEMMA TxFields ==
    ASSUME NEW t \in TxQueue
    PROVE  /\ t.iov \in Seq(Vect) /\ t.buf \in Seq(Unit) /\ t.start \in Nat /\ t.fifos \in Seq(TxFifo)
           /\ t.next \in Ids /\ t.done \subseteq Ids
           /\ Len(t.iov) \in Nat /\ Len(t.buf) \in Nat /\ Len(t.fifos) \in Nat
           /\ DOMAIN t.iov = 1 .. Len(t.iov) /\ DOMAIN t.fifos = 1 .. Len(t.fifos)
           /\ \A i \in 1 .. Len(t.iov) : t.iov[i] \in Vect
           /\ \A i \in 1 .. Len(t.fifos) : t.fifos[i] \in TxFifo
<1>1. /\ t.iov \in Seq(Vect) /\ t.buf \in Seq(Unit) /\ t.start \in Nat /\ t.fifos \in Seq(TxFifo)
      /\ t.next \in Ids /\ t.done \subseteq Ids
  BY DEF TxQueue
<1> QED BY <1>1, LenProperties, ElementOfSeq

\* Packets of commands, and what they declare.
LEMMA DeclaredTyped ==
    ASSUME NEW packets \in Seq(Shapes), Len(packets) <= MaxPackets, NEW id \in Ids, Declared(packets, id)
    PROVE  /\ packets[id[1]].write[id[2]].mux \in 4 .. 15
           /\ packets[id[1]].write[id[2]].len \in Nat \ {0}
           /\ packets[id[1]].write[id[2]].interleave \in BOOLEAN
           /\ id # None
<1>1. packets[id[1]] \in Shape
  BY Constants DEF Declared
<1> DEFINE w == packets[id[1]].write
           W == [mux : 4 .. 15, len : Nat \ {0}, interleave : BOOLEAN]
<1>2. w \in Seq(W) /\ id[2] \in DOMAIN w
  BY <1>1 DEF Shape, Declared
<1>3. w[id[2]] \in W
  <2> HIDE DEF w, W
  <2> QED BY <1>2, LenProperties, ElementOfSeq
<1>4. id # None
  BY <1>2 DEF Declared, None
<1> QED BY <1>3, <1>4

\* A packet that is added with a vector of its own.
LEMMA AddPacketSound ==
    ASSUME NEW packets, NEW t, TxSound(t, packets), NEW mux \in 0 .. 15, NEW len \in 1 .. PacketMax,
           NEW id \in Ids, NEW from \in Nat,
           IsMessage(packets, id) \/ (Declared(packets, id) /\ Alive(t, id)),
           Len(t.iov) <= IndirectMax - 2, Len(t.buf) < BufferSize
    PROVE  TxSound(AddPacket(t, mux, id, from, len), packets)
<1> DEFINE h == Header(mux, len, id)
           b == [t EXCEPT !.buf = Append(@, h)]
           lv == LastVector(b)
           v == Vector(id, from, len)
           r == AddPacket(t, mux, id, from, len)
<1>0. t \in TxQueue /\ t.buf \in Seq(Unit) /\ t.iov \in Seq(Vect) /\ t.start \in Nat /\ Len(t.buf) \in Nat /\ Len(t.iov) \in Nat
  BY TxFields DEF TxSound
<1>1. h \in Unit /\ Append(t.buf, h) \in Seq(Unit) /\ Len(Append(t.buf, h)) = Len(t.buf) + 1
  BY <1>0, Constants, AppendProperties DEF Header, Unit
<1>2. b \in TxQueue /\ b.buf = Append(t.buf, h) /\ b.iov = t.iov /\ b.start = t.start /\ b.fifos = t.fifos /\ b.next = t.next /\ b.done = t.done
  <2>1. b = Requeued(t, t.iov, Append(t.buf, h), t.start)
    BY <1>0 DEF TxQueue, Requeued
  <2> HIDE DEF b, h
  <2>2. IsRequeued(b, t, t.iov, Append(t.buf, h), t.start)
    BY <2>1, <1>0, <1>1, TxUpdated
  <2> QED BY <2>2 DEF IsRequeued
<1>3. Len(b.buf) = Len(t.buf) + 1
  BY <1>1, <1>2
<1>4. lv \in Vect /\ lv.of = None /\ lv.from + lv.len = Len(b.buf)
  <2> HIDE DEF b, h
  <2>1. lv = [of |-> None, from |-> b.start, len |-> Len(b.buf) - b.start]
    BY DEF LastVector, Vector
  <2>2. None \in Ids
    BY Constants DEF None, Ids
  <2> HIDE DEF lv
  <2>3. t.start <= Len(t.buf)
    BY DEF TxSound, Sizes
  <2>4. b.start \in Nat /\ Len(b.buf) \in Nat /\ Len(b.buf) - b.start \in Nat \ {0}
    BY <2>3, <1>0, <1>2, <1>3
  <2>5. lv.of = None /\ lv.from = b.start /\ lv.len = Len(b.buf) - b.start
    BY <2>1
  <2> QED BY <2>1, <2>2, <2>4, <2>5 DEF Vect
<1>5. v \in Vect /\ v.of = id
  BY Constants DEF Vector, Vect
<1>6. r = Requeued(t, t.iov \o <<lv, v>>, b.buf, Len(b.buf))
  BY <1>2, <1>0 DEF AddPacket, TxQueue, Requeued
<1> HIDE DEF h, b, lv, v, r
<1>7. /\ t.iov \o <<lv, v>> \in Seq(Vect) /\ Len(t.iov \o <<lv, v>>) = Len(t.iov) + 2
      /\ \A i \in 1 .. Len(t.iov) + 2 :
            (t.iov \o <<lv, v>>)[i] = IF i <= Len(t.iov) THEN t.iov[i] ELSE IF i = Len(t.iov) + 1 THEN lv ELSE v
  <2>1. <<lv, v>> \in Seq(Vect) /\ Len(<<lv, v>>) = 2
    BY <1>4, <1>5
  <2>2. /\ t.iov \o <<lv, v>> \in Seq(Vect) /\ Len(t.iov \o <<lv, v>>) = Len(t.iov) + 2
        /\ \A i \in 1 .. Len(t.iov) + 2 :
            (t.iov \o <<lv, v>>)[i] = IF i <= Len(t.iov) THEN t.iov[i] ELSE <<lv, v>>[i - Len(t.iov)]
    BY <2>1, <1>0, ConcatProperties
  <2> QED BY <2>2, <1>0
<1>8. /\ r \in TxQueue /\ r.iov = t.iov \o <<lv, v>> /\ r.start = Len(b.buf) /\ r.buf = b.buf
      /\ r.fifos = t.fifos /\ r.next = t.next /\ r.done = t.done
  <2>1. b.buf \in Seq(Unit) /\ Len(b.buf) \in Nat
    BY <1>1, <1>2
  <2>2. IsRequeued(r, t, t.iov \o <<lv, v>>, b.buf, Len(b.buf))
    BY <2>1, <1>6, <1>7, <1>0, TxUpdated
  <2> QED BY <2>2 DEF IsRequeued
<1>9. Sizes(r)
  <2>1. Len(r.iov) = Len(t.iov) + 2 /\ Len(r.buf) = Len(t.buf) + 1 /\ r.start = Len(t.buf) + 1 /\ r.iov # <<>>
    BY <1>8, <1>7, <1>3, <1>0
  <2> QED BY <2>1, <1>0, Constants DEF Sizes
<1>10. FifosKnown(r, packets)
  BY <1>8 DEF FifosKnown, TxSound
<1>11. ASSUME NEW i \in DOMAIN r.iov PROVE Points(r, packets, r.iov[i])
  <2>1. i \in 1 .. Len(t.iov) + 2
    BY <1>7, <1>8
  <2>2. CASE i <= Len(t.iov)
    <3>1. r.iov[i] = t.iov[i] /\ Points(t, packets, t.iov[i]) /\ t.iov[i] \in Vect
      BY <2>1, <2>2, <1>7, <1>8, <1>0 DEF TxSound
    <3>2. t.start <= r.start /\ r.start \in Nat
      BY <1>8, <1>3, <1>0 DEF TxSound, Sizes
    <3>3. t.iov[i].from + t.iov[i].len \in Nat
      BY <3>1 DEF Vect
    <3>4. Alive(t, t.iov[i].of) => Alive(r, t.iov[i].of)
      BY <1>8 DEF Alive
    <3> QED BY <3>1, <3>2, <3>3, <3>4, <1>0 DEF Points
  <2>3. CASE i = Len(t.iov) + 1
    <3>1. r.iov[i] = lv
      BY <2>3, <2>1, <1>7, <1>8, <1>0
    <3> QED BY <3>1, <1>4, <1>8, <1>3, <1>0 DEF Points
  <2>4. CASE i = Len(t.iov) + 2
    <3>1. r.iov[i] = v
      BY <2>4, <2>1, <1>7, <1>8, <1>0
    <3> QED BY <3>1, <1>5, <1>8 DEF Points, Alive
  <2> QED BY <2>1, <2>2, <2>3, <2>4, <1>0
<1>12. TxSound(r, packets)
  BY <1>8, <1>9, <1>10, <1>11 DEF TxSound
<1> QED BY <1>12 DEF r

\* Data that is copied behind its header.
LEMMA CopiedSound ==
    ASSUME NEW packets, NEW t, TxSound(t, packets), NEW s \in Seq(Unit),
           Len(t.iov) <= IndirectMax - 2, Len(t.buf) + Len(s) <= BufferSize
    PROVE  TxSound([t EXCEPT !.buf = @ \o s], packets)
<1> DEFINE r == [t EXCEPT !.buf = @ \o s]
<1>0. t \in TxQueue /\ t.buf \in Seq(Unit) /\ t.iov \in Seq(Vect) /\ t.start \in Nat /\ Len(t.buf) \in Nat /\ Len(t.iov) \in Nat /\ Len(s) \in Nat
  BY TxFields DEF TxSound
<1>1. t.buf \o s \in Seq(Unit) /\ Len(t.buf \o s) = Len(t.buf) + Len(s)
  BY <1>0
<1>2. /\ r \in TxQueue /\ r.iov = t.iov /\ r.start = t.start /\ r.buf = t.buf \o s
      /\ r.fifos = t.fifos /\ r.next = t.next /\ r.done = t.done
  <2>1. r = Requeued(t, t.iov, t.buf \o s, t.start)
    BY <1>0 DEF TxQueue, Requeued
  <2> HIDE DEF r
  <2>2. IsRequeued(r, t, t.iov, t.buf \o s, t.start)
    BY <2>1, <1>0, <1>1, TxUpdated
  <2> QED BY <2>2 DEF IsRequeued
<1> HIDE DEF r
<1>3. Sizes(r) /\ FifosKnown(r, packets)
  <2>1. Sizes(r)
    BY <1>2, <1>1, <1>0, Constants DEF Sizes, TxSound
  <2>2. FifosKnown(r, packets)
    BY <1>2 DEF FifosKnown, TxSound
  <2> QED BY <2>1, <2>2
<1>4. \A i \in DOMAIN r.iov : Points(r, packets, r.iov[i])
  BY <1>2, <1>0 DEF Points, Alive, TxSound
<1>5. TxSound(r, packets)
  BY <1>2, <1>3, <1>4 DEF TxSound
<1> QED BY <1>5 DEF r

\* The place of a FIFO in the queue is where it is found.
LEMMA IndexOf ==
    ASSUME NEW packets, TxSound(tx, packets), NEW i \in DOMAIN tx.fifos
    PROVE  Index(tx.fifos[i].id) = i
BY DEF Index, TxSound, FifosKnown

\* The FIFO that is chosen is queued.
LEMMA ChosenQueued ==
    ASSUME NEW packets, TxSound(tx, packets), tx.fifos # <<>>
    PROVE  /\ Index(Chosen) \in 1 .. Len(tx.fifos)
           /\ tx.fifos[Index(Chosen)].id = Chosen
           /\ tx.fifos[Index(Chosen)] \in TxFifo
           /\ AsDeclared(packets, tx.fifos[Index(Chosen)])
           /\ Chosen \in Ids
<1>1. tx \in TxQueue /\ FifosKnown(tx, packets)
  BY DEF TxSound
<1>2. tx.fifos \in Seq(TxFifo) /\ DOMAIN tx.fifos = 1 .. Len(tx.fifos) /\ Len(tx.fifos) \in Nat \ {0}
  BY <1>1, TxFields, EmptySeq
<1>3. \E i \in 1 .. Len(tx.fifos) : tx.fifos[i].id = Chosen
  BY <1>1, <1>2 DEF Chosen, FifosKnown
<1>4. PICK i \in 1 .. Len(tx.fifos) : tx.fifos[i].id = Chosen
  BY <1>3
<1>5. Index(Chosen) = i
  BY <1>4, <1>2, IndexOf
<1>6. tx.fifos[i] \in TxFifo
  BY <1>1, <1>2, TxFields
<1> QED BY <1>4, <1>5, <1>6, <1>1, <1>2 DEF FifosKnown, TxFifo

\* The FIFO after another one is queued, if there is one.
LEMMA AfterQueued ==
    ASSUME NEW packets, TxSound(tx, packets), NEW i \in 1 .. Len(tx.fifos), NEW id, id = tx.fifos[i].id
    PROVE  /\ After(id) = IF i < Len(tx.fifos) THEN tx.fifos[i + 1].id ELSE None
           /\ After(id) \in Ids
           /\ After(id) # None => i < Len(tx.fifos)
<1>1. tx \in TxQueue
  BY DEF TxSound
<1>2. DOMAIN tx.fifos = 1 .. Len(tx.fifos) /\ Len(tx.fifos) \in Nat /\ \A j \in 1 .. Len(tx.fifos) : tx.fifos[j] \in TxFifo
  BY <1>1, TxFields
<1>3. Index(id) = i
  BY <1>2, IndexOf
<1>4. None \in Ids
  BY Constants DEF None, Ids
<1> QED BY <1>2, <1>3, <1>4 DEF After, TxFifo

\* A FIFO of which n more units are queued.
Advanced(t, i, n, next) == [t EXCEPT !.fifos[i].pos = @ + n, !.next = next]
AdvancedFifo(f, n) == [f EXCEPT !.pos = @ + n]

IsAdvanced(r, t, i, n, next) ==
    /\ r \in TxQueue
    /\ r.iov = t.iov /\ r.buf = t.buf /\ r.start = t.start /\ r.done = t.done /\ r.next = next
    /\ r.fifos = [t.fifos EXCEPT ![i] = AdvancedFifo(t.fifos[i], n)]
    /\ Len(r.fifos) = Len(t.fifos)
    /\ r.fifos[i] = AdvancedFifo(t.fifos[i], n)
    /\ \A j \in 1 .. Len(t.fifos) : j # i => r.fifos[j] = t.fifos[j]

\* A FIFO of which some more has been queued.
LEMMA AdvancedTyped ==
    ASSUME NEW f \in TxFifo, NEW n \in Nat
    PROVE  /\ AdvancedFifo(f, n) \in TxFifo
           /\ AdvancedFifo(f, n).id = f.id /\ AdvancedFifo(f, n).mux = f.mux /\ AdvancedFifo(f, n).len = f.len
           /\ AdvancedFifo(f, n).interleave = f.interleave /\ AdvancedFifo(f, n).pos = f.pos + n
BY DEF TxFifo, AdvancedFifo

\* And the queue it is in.
LEMMA AdvancedFields ==
    ASSUME NEW t \in TxQueue, NEW i \in 1 .. Len(t.fifos), NEW n \in Nat, NEW next \in Ids
    PROVE  IsAdvanced(Advanced(t, i, n, next), t, i, n, next)
<1>1. t.fifos \in Seq(TxFifo) /\ t.fifos[i] \in TxFifo
  BY TxFields
<1>2. AdvancedFifo(t.fifos[i], n) \in TxFifo
  BY <1>1, AdvancedTyped
<1> DEFINE r == Advanced(t, i, n, next)
           fs == [t.fifos EXCEPT ![i] = AdvancedFifo(t.fifos[i], n)]
<1>3. fs \in Seq(TxFifo) /\ Len(fs) = Len(t.fifos)
      /\ \A j \in 1 .. Len(t.fifos) : fs[j] = IF j = i THEN AdvancedFifo(t.fifos[i], n) ELSE t.fifos[j]
  BY <1>1, <1>2, ExceptSeq
<1>4. r = [t EXCEPT !.fifos = fs, !.next = next]
  BY DEF Advanced, AdvancedFifo, TxQueue
<1> HIDE DEF fs, r
<1>5. r \in TxQueue /\ r.iov = t.iov /\ r.buf = t.buf /\ r.start = t.start /\ r.done = t.done /\ r.next = next
      /\ r.fifos = fs
  BY <1>3, <1>4 DEF TxQueue
<1>6. r.fifos = [t.fifos EXCEPT ![i] = AdvancedFifo(t.fifos[i], n)]
  BY <1>5 DEF fs
<1>7. IsAdvanced(r, t, i, n, next)
  BY <1>3, <1>5, <1>6 DEF IsAdvanced
<1> QED BY <1>7 DEF r

\* The queue stays sound: the FIFO has that much left.
LEMMA AdvancedSound ==
    ASSUME NEW packets, NEW t, TxSound(t, packets), NEW i \in 1 .. Len(t.fifos), NEW n \in Nat,
           t.fifos[i].pos + n <= t.fifos[i].len, NEW next \in Ids,
           next # None => \E j \in 1 .. Len(t.fifos) : t.fifos[j].id = next,
           NEW r, r = Advanced(t, i, n, next)
    PROVE  TxSound(r, packets) /\ Alive(r, t.fifos[i].id)
<1>1. t \in TxQueue
  BY DEF TxSound
<1>2. /\ r \in TxQueue
      /\ r.iov = t.iov /\ r.buf = t.buf /\ r.start = t.start /\ r.done = t.done /\ r.next = next
      /\ Len(r.fifos) = Len(t.fifos)
      /\ r.fifos[i] = AdvancedFifo(t.fifos[i], n)
      /\ \A j \in 1 .. Len(t.fifos) : j # i => r.fifos[j] = t.fifos[j]
  <2>1. IsAdvanced(r, t, i, n, next)
    BY <1>1, AdvancedFields
  <2> QED BY <2>1 DEF IsAdvanced
<1>3. DOMAIN r.fifos = 1 .. Len(t.fifos) /\ DOMAIN t.fifos = 1 .. Len(t.fifos) /\ t.fifos[i] \in TxFifo
  BY <1>1, <1>2, TxFields
<1>4. /\ r.fifos[i].id = t.fifos[i].id /\ r.fifos[i].mux = t.fifos[i].mux /\ r.fifos[i].len = t.fifos[i].len
      /\ r.fifos[i].interleave = t.fifos[i].interleave /\ r.fifos[i].pos = t.fifos[i].pos + n
  <2>1. PICK f : f = t.fifos[i]
    OBVIOUS
  <2>2. f \in TxFifo /\ r.fifos[i] = AdvancedFifo(f, n)
    BY <2>1, <1>2, <1>3
  <2>3. /\ r.fifos[i].id = f.id /\ r.fifos[i].mux = f.mux /\ r.fifos[i].len = f.len
        /\ r.fifos[i].interleave = f.interleave /\ r.fifos[i].pos = f.pos + n
    BY <2>2 DEF AdvancedFifo, TxFifo
  <2> QED BY <2>1, <2>3
<1>5. \A j \in 1 .. Len(t.fifos) : r.fifos[j].id = t.fifos[j].id
  BY <1>2, <1>4
<1>6. Sizes(r)
  BY <1>2 DEF Sizes, TxSound
<1>7. FifosKnown(r, packets)
  <2>1. \A j \in 1 .. Len(t.fifos) : AsDeclared(packets, r.fifos[j])
    <3> TAKE j \in 1 .. Len(t.fifos)
    <3>1. AsDeclared(packets, t.fifos[j])
      BY <1>3 DEF TxSound, FifosKnown
    <3>2. CASE j = i
      BY ZenonT(30), <3>1, <3>2, <1>4 DEF AsDeclared
    <3>3. CASE j # i
      BY <3>1, <3>3, <1>2
    <3> QED BY <3>2, <3>3
  <2>2. \A j, k \in 1 .. Len(t.fifos) : r.fifos[j].id = r.fifos[k].id => j = k
    BY <1>5, <1>3 DEF TxSound, FifosKnown
  <2>3. r.next # None => \E j \in 1 .. Len(t.fifos) : r.fifos[j].id = r.next
    BY <1>2, <1>5
  <2> QED BY <2>1, <2>2, <2>3, <1>3 DEF FifosKnown
<1>8. \A id : Alive(t, id) => Alive(r, id)
  BY <1>2, <1>3, <1>5 DEF Alive
<1>9. \A j \in DOMAIN r.iov : Points(r, packets, r.iov[j])
  BY <1>2, <1>8 DEF Points, TxSound
<1>10. Alive(r, t.fifos[i].id)
  BY <1>3, <1>5 DEF Alive
<1> QED BY <1>2, <1>6, <1>7, <1>9, <1>10 DEF TxSound

\* What add_fifo_packet does to the queue: r is tx with the next n units of FIFO i.
FifoPacketAdded(r, i, n) ==
    LET f == tx.fifos[i]
        t == Advanced(tx, i, n, IF f.interleave THEN After(f.id) ELSE None) IN
    /\ n \in 1 .. PacketMax /\ f.pos + n <= f.len
    /\ \/ r = AddPacket(t, f.mux, f.id, f.pos, n)
       \/ /\ Len(tx.buf) + 1 + n <= BufferSize
          /\ r = [t EXCEPT !.buf = @ \o SentPacket(f.mux, f.id, f.pos, n)]

\* There is space in the buffer for more than a header and short data.
Leaves(L) == BufferSize - 1 - L \in Nat /\ BufferSize - 1 - L > Threshold
\* The two ways add_fifo_packet queues a packet, by reference and by copy.
LEMMA AddFifoPacketIs ==
    ASSUME NEW packets, TxSound(tx, packets), tx.fifos # <<>>, SpaceForPacket(Threshold), ~Drained(Chosen)
    PROVE  \E n : FifoPacketAdded(AddFifoPacket(Chosen), Index(Chosen), n)
<1> DEFINE i == Index(Chosen)
           f == tx.fifos[i]
           avail == Min({PacketMax, f.len - f.pos})
           room == BufferSize - 1 - Len(tx.buf)
           short == Min({room, avail})
           n == IF avail >= Threshold THEN avail ELSE short
           t == Advanced(tx, i, n, IF f.interleave THEN After(f.id) ELSE None)
<1>1. i \in 1 .. Len(tx.fifos) /\ f.id = Chosen /\ f \in TxFifo /\ AsDeclared(packets, f)
  BY ChosenQueued
<1>2. f.pos \in Nat /\ f.len \in Nat /\ f.pos <= f.len /\ f.pos # f.len
  BY <1>1 DEF TxFifo, AsDeclared, Drained
<1>3. avail \in 1 .. PacketMax /\ avail <= f.len - f.pos
  <2>1. f.len - f.pos \in Nat \ {0}
    BY <1>2
  <2>2. avail = IF PacketMax <= f.len - f.pos THEN PacketMax ELSE f.len - f.pos
    BY <2>1, Constants, MinOfTwo
  <2> HIDE DEF avail
  <2> QED BY <2>1, <2>2, Constants
<1>4. room \in Nat /\ room > Threshold /\ Len(tx.buf) \in Nat
  <2>1. Len(tx.buf) \in Nat
    BY TxFields DEF TxSound
  <2>2. Len(tx.buf) < BufferSize - 1 - Threshold
    BY DEF SpaceForPacket
  <2>3. BufferSize \in Nat /\ Threshold \in Nat
    BY Constants
  <2>4. ASSUME NEW L \in Nat, NEW B \in Nat, NEW th \in Nat, L < B - 1 - th PROVE B - 1 - L \in Nat /\ B - 1 - L > th
    BY <2>4
  <2>5. Leaves(Len(tx.buf))
    BY <2>1, <2>2, <2>3, <2>4 DEF Leaves
  <2> QED BY <2>1, <2>5 DEF Leaves
<1>5. avail < Threshold => short = avail
  <2>1. avail \in Nat
    BY <1>3, Constants
  <2>2. short = IF room <= avail THEN room ELSE avail
    BY <2>1, <1>4, MinOfTwo
  <2> HIDE DEF short, room, avail
  <2> QED BY <2>1, <2>2, <1>4, Constants
<1>6. n = avail
  <2> HIDE DEF short, room, avail
  <2> QED BY <1>5, <1>3, Constants
<1>7. AddFifoPacket(Chosen) = IF n >= Threshold THEN AddPacket(t, f.mux, Chosen, f.pos, n)
                              ELSE [t EXCEPT !.buf = @ \o SentPacket(f.mux, Chosen, f.pos, n)]
  BY <1>1 DEF AddFifoPacket, Advanced
<1> HIDE DEF t, n
<1>8. n < Threshold => Len(tx.buf) + 1 + n <= BufferSize
  <2>1. n \in Nat
    <3> HIDE DEF avail
    <3> QED BY <1>6, <1>3, Constants
  <2>2. BufferSize \in Nat /\ Threshold \in Nat
    BY Constants
  <2>3. ASSUME NEW L \in Nat, NEW B \in Nat, NEW th \in Nat, NEW m \in Nat, B - 1 - L > th, m < th PROVE L + 1 + m <= B
    BY <2>3
  <2>4. Leaves(Len(tx.buf))
    BY <1>4 DEF Leaves
  <2> QED BY <2>1, <2>2, <2>3, <2>4, <1>4 DEF Leaves
<1>9. FifoPacketAdded(AddFifoPacket(Chosen), i, n)
  <2>1. n \in 1 .. PacketMax /\ f.pos + n <= f.len /\ n \in Nat
    <3> HIDE DEF avail
    <3> QED BY <1>6, <1>3, <1>2, Constants
  <2>2. CASE n >= Threshold
    BY <2>1, <2>2, <1>7, <1>1 DEF FifoPacketAdded, t
  <2>3. CASE ~(n >= Threshold)
    <3>1. Len(tx.buf) + 1 + n <= BufferSize
      BY <2>3, <2>1, <1>8, Constants
    <3> QED BY <2>1, <2>3, <3>1, <1>7, <1>1 DEF FifoPacketAdded, t
  <2> QED BY <2>2, <2>3
<1> QED BY <1>9

\* Units of data, and a packet of them.
LEMMA UnitsTyped ==
    ASSUME NEW mux \in 0 .. 15, NEW id \in Ids, NEW from \in Nat, NEW n \in Nat
    PROVE  UnitsOfData(mux, id, from, n) \in Seq(Unit) /\ Len(UnitsOfData(mux, id, from, n)) = n
<1>1. \A i \in 1 .. n : Data(mux, id, from + i) \in Unit
  BY Constants DEF Data, Unit
<1> QED BY <1>1 DEF UnitsOfData

\* The units of a packet, and how many there are.
LEMMA SentPacketTyped ==
    ASSUME NEW mux \in 0 .. 15, NEW id \in Ids, NEW from \in Nat, NEW n \in 1 .. PacketMax
    PROVE  /\ UnitsOfData(mux, id, from, n) \in Seq(Unit) /\ Len(UnitsOfData(mux, id, from, n)) = n
           /\ <<Header(mux, n, id)>> \in Seq(Unit)
           /\ SentPacket(mux, id, from, n) \in Seq(Unit) /\ Len(SentPacket(mux, id, from, n)) = n + 1
<1>2. UnitsOfData(mux, id, from, n) \in Seq(Unit) /\ Len(UnitsOfData(mux, id, from, n)) = n
  <2>1. n \in Nat
    BY Constants
  <2> QED BY <2>1, UnitsTyped
<1>3. <<Header(mux, n, id)>> \in Seq(Unit) /\ Len(<<Header(mux, n, id)>>) = 1
  BY Constants DEF Header, Unit
<1>4. SentPacket(mux, id, from, n) \in Seq(Unit) /\ Len(SentPacket(mux, id, from, n)) = n + 1
  BY <1>2, <1>3, Constants, ConcatProperties DEF SentPacket
<1> QED BY <1>2, <1>3, <1>4

\* A queue with a FIFO's packet is sound: it fits, and its vector points to a FIFO
\* that is there.
LEMMA FifoPacketSound ==
    ASSUME NEW packets, TxSound(tx, packets), SpaceForPacket(Threshold),
           NEW i \in 1 .. Len(tx.fifos), NEW n, NEW r, FifoPacketAdded(r, i, n)
    PROVE  TxSound(r, packets)
<1> DEFINE f == tx.fifos[i]
           next == IF f.interleave THEN After(f.id) ELSE None
           t == Advanced(tx, i, n, next)
<1>1. tx \in TxQueue /\ Len(tx.buf) \in Nat /\ f \in TxFifo /\ DOMAIN tx.fifos = 1 .. Len(tx.fifos) /\ Len(tx.fifos) \in Nat
  BY TxFields DEF TxSound
<1>2. next \in Ids /\ (next # None => \E j \in 1 .. Len(tx.fifos) : tx.fifos[j].id = next)
  <2>1. None \in Ids
    BY Constants DEF None, Ids
  <2> QED BY <2>1, <1>1, AfterQueued
<1>3. n \in 1 .. PacketMax /\ n \in Nat /\ f.pos + n <= f.len
  <2>1. n \in 1 .. PacketMax /\ f.pos + n <= f.len
    BY ZenonT(30) DEF FifoPacketAdded
  <2> QED BY <2>1, Constants
<1>4. TxSound(t, packets) /\ Alive(t, f.id)
  <2> HIDE DEF next
  <2> QED BY <1>2, <1>3, AdvancedSound
<1>5. t.iov = tx.iov /\ t.buf = tx.buf
  <2>1. IsAdvanced(t, tx, i, n, next)
    <3> HIDE DEF next
    <3> QED BY <1>1, <1>2, <1>3, AdvancedFields
  <2> QED BY <2>1 DEF IsAdvanced
<1>6. f.mux \in 0 .. 15 /\ f.id \in Ids /\ f.pos \in Nat /\ Declared(packets, f.id)
  <2>1. AsDeclared(packets, f)
    BY <1>1 DEF TxSound, FifosKnown
  <2> HIDE DEF f
  <2>2. f.mux \in 4 .. 15 /\ f.id \in Ids /\ f.pos \in Nat
    BY <1>1 DEF TxFifo
  <2>3. Declared(packets, f.id)
    BY <2>1 DEF AsDeclared
  <2> QED BY <2>2, <2>3
<1>7. r = AddPacket(t, f.mux, f.id, f.pos, n) \/
      (Len(tx.buf) + 1 + n <= BufferSize /\ r = [t EXCEPT !.buf = @ \o SentPacket(f.mux, f.id, f.pos, n)])
  BY ZenonT(30) DEF FifoPacketAdded
<1>8. Len(tx.buf) < BufferSize /\ Len(tx.iov) <= IndirectMax - 2
  BY <1>1, Constants DEF SpaceForPacket
<1> HIDE DEF t, f
<1>9. CASE r = AddPacket(t, f.mux, f.id, f.pos, n)
  BY <1>3, <1>4, <1>5, <1>6, <1>8, <1>9, AddPacketSound
<1>10. CASE Len(tx.buf) + 1 + n <= BufferSize /\ r = [t EXCEPT !.buf = @ \o SentPacket(f.mux, f.id, f.pos, n)]
  <2>1. SentPacket(f.mux, f.id, f.pos, n) \in Seq(Unit) /\ Len(SentPacket(f.mux, f.id, f.pos, n)) = n + 1
    BY <1>3, <1>6, SentPacketTyped
  <2>2. Len(t.buf) + Len(SentPacket(f.mux, f.id, f.pos, n)) <= BufferSize
    <3>1. Len(t.buf) = Len(tx.buf)
      BY <1>5
    <3>2. BufferSize \in Nat
      BY Constants
    <3> QED BY <2>1, <3>1, <3>2, <1>10, <1>1, <1>3
  <2> QED BY <2>1, <2>2, <1>10, <1>4, <1>5, <1>8, CopiedSound
<1> QED BY <1>7, <1>9, <1>10

\* A list without one of its entries.
LEMMA RemovedAt ==
    ASSUME NEW T, NEW s \in Seq(T), NEW i \in 1 .. Len(s)
    PROVE  /\ RemoveAt(s, i) \in Seq(T) /\ Len(RemoveAt(s, i)) = Len(s) - 1
           /\ \A j \in 1 .. Len(s) - 1 : RemoveAt(s, i)[j] = IF j < i THEN s[j] ELSE s[j + 1]
<1> DEFINE a == SubSeq(s, 1, i - 1)
           b == SubSeq(s, i + 1, Len(s))
<1>0. Len(s) \in Nat /\ i \in Nat /\ \A j \in 1 .. Len(s) : s[j] \in T
  BY LenProperties, ElementOfSeq
<1>1. a \in Seq(T) /\ Len(a) = i - 1 /\ \A j \in 1 .. i - 1 : a[j] = s[j]
  BY <1>0, SubSeqProperties
<1>2. b \in Seq(T) /\ Len(b) = Len(s) - i /\ \A j \in 1 .. Len(s) - i : b[j] = s[i + j]
  <2>1. \A j \in i + 1 .. Len(s) : s[j] \in T
    BY <1>0
  <2>2. b \in Seq(T) /\ Len(b) = (IF i + 1 <= Len(s) THEN Len(s) - (i + 1) + 1 ELSE 0) /\ \A j \in 1 .. Len(s) - (i + 1) + 1 : b[j] = s[i + 1 + j - 1]
    BY <2>1, <1>0, SubSeqProperties
  <2> HIDE DEF b
  <2>3. Len(b) = Len(s) - i /\ Len(s) - (i + 1) + 1 = Len(s) - i
    BY <2>2, <1>0
  <2>4. \A j \in 1 .. Len(s) - i : i + 1 + j - 1 = i + j
    BY <1>0
  <2> QED BY <2>2, <2>3, <2>4
<1> HIDE DEF a, b
<1>3. /\ a \o b \in Seq(T) /\ Len(a \o b) = Len(a) + Len(b)
      /\ \A j \in 1 .. Len(a) + Len(b) : (a \o b)[j] = IF j <= Len(a) THEN a[j] ELSE b[j - Len(a)]
  BY <1>1, <1>2, ConcatProperties
<1>4. \A j \in 1 .. Len(s) - 1 : (a \o b)[j] = IF j < i THEN s[j] ELSE s[j + 1]
  <2> TAKE j \in 1 .. Len(s) - 1
  <2>1. (a \o b)[j] = IF j <= i - 1 THEN a[j] ELSE b[j - (i - 1)]
    BY <1>0, <1>1, <1>2, <1>3
  <2>2. CASE j < i
    BY <2>1, <2>2, <1>1, <1>0
  <2>3. CASE ~(j < i)
    <3>1. j - (i - 1) \in 1 .. Len(s) - i
      BY <2>3, <1>0
    <3>2. b[j - (i - 1)] = s[i + (j - (i - 1))]
      BY <3>1, <1>2
    <3>3. i + (j - (i - 1)) = j + 1
      BY <1>0
    <3> QED BY <2>1, <2>3, <3>2, <3>3, <1>0
  <2> QED BY <2>2, <2>3
<1>5. RemoveAt(s, i) = a \o b
  BY DEF RemoveAt, a, b
<1>6. Len(a \o b) = Len(s) - 1
  BY <1>0, <1>1, <1>2, <1>3
<1> QED BY <1>3, <1>4, <1>5, <1>6

\* deactivate_tx_fifo: the FIFO has left the list, but its data is not gone.
LEMMA DeactivatedSound ==
    ASSUME NEW packets, TxSound(tx, packets), NEW i \in 1 .. Len(tx.fifos), NEW id, id = tx.fifos[i].id
    PROVE  /\ TxSound(Deactivated(id), packets)
           /\ Deactivated(id).fifos = RemoveAt(tx.fifos, i)
           /\ Deactivated(id).next = IF tx.next = id THEN After(id) ELSE tx.next
           /\ Deactivated(id).iov = tx.iov /\ Deactivated(id).buf = tx.buf /\ Deactivated(id).start = tx.start
<1> DEFINE fs == RemoveAt(tx.fifos, i)
           next == IF tx.next = id THEN After(id) ELSE tx.next
           r == Deactivated(id)
<1>1. /\ tx \in TxQueue /\ tx.fifos \in Seq(TxFifo) /\ Len(tx.fifos) \in Nat /\ DOMAIN tx.fifos = 1 .. Len(tx.fifos)
      /\ tx.next \in Ids /\ tx.done \subseteq Ids /\ \A j \in 1 .. Len(tx.fifos) : tx.fifos[j] \in TxFifo
      /\ DOMAIN tx.iov = 1 .. Len(tx.iov)
  BY TxFields DEF TxSound
<1>2. id \in Ids
  BY <1>1 DEF TxFifo
<1>3. /\ fs \in Seq(TxFifo) /\ Len(fs) = Len(tx.fifos) - 1
      /\ \A j \in 1 .. Len(tx.fifos) - 1 : fs[j] = IF j < i THEN tx.fifos[j] ELSE tx.fifos[j + 1]
  BY <1>1, RemovedAt
<1>4. next \in Ids
  BY <1>1, AfterQueued
<1>5. Index(id) = i
  BY <1>1, IndexOf
<1>6. r = [tx EXCEPT !.fifos = fs, !.next = next, !.done = @ \cup {id}]
  BY <1>5, <1>1 DEF Deactivated, TxQueue
<1> HIDE DEF fs, next, r
<1>7. /\ r \in TxQueue /\ r.fifos = fs /\ r.next = next /\ r.done = tx.done \cup {id}
      /\ r.iov = tx.iov /\ r.buf = tx.buf /\ r.start = tx.start
  BY <1>1, <1>2, <1>3, <1>4, <1>6 DEF TxQueue
<1>8. DOMAIN fs = 1 .. Len(tx.fifos) - 1
  BY <1>3, LenProperties
<1>9. \A j \in DOMAIN fs : \E k \in 1 .. Len(tx.fifos) : k # i /\ fs[j] = tx.fifos[k] /\ k = IF j < i THEN j ELSE j + 1
  BY <1>3, <1>8, <1>1
<1>10. \A k \in 1 .. Len(tx.fifos) : k # i => \E j \in DOMAIN fs : fs[j] = tx.fifos[k]
  <2> TAKE k \in 1 .. Len(tx.fifos)
  <2> HAVE k # i
  <2>1. CASE k < i
    <3>1. k \in DOMAIN fs /\ fs[k] = tx.fifos[k]
      BY <2>1, <1>1, <1>3, <1>8
    <3> QED BY <3>1
  <2>2. CASE k > i
    <3>1. k - 1 \in DOMAIN fs /\ k - 1 + 1 = k /\ ~(k - 1 < i) /\ k - 1 \in 1 .. Len(tx.fifos) - 1
      BY <2>2, <1>1, <1>8
    <3>2. fs[k - 1] = tx.fifos[k - 1 + 1]
      BY <3>1, <1>3
    <3> QED BY <3>1, <3>2
  <2> QED BY <2>1, <2>2, <1>1
<1>11. FifosKnown(tx, packets) /\ Sizes(tx)
  BY DEF TxSound
<1>12. FifosKnown(r, packets)
  <2>1. \A j \in DOMAIN fs : AsDeclared(packets, fs[j])
    BY <1>9, <1>11, <1>1 DEF FifosKnown
  <2>2. \A j, k \in DOMAIN fs : fs[j].id = fs[k].id => j = k
    <3> TAKE j, k \in DOMAIN fs
    <3> HAVE fs[j].id = fs[k].id
    <3>1. PICK a \in 1 .. Len(tx.fifos) : fs[j] = tx.fifos[a] /\ a = IF j < i THEN j ELSE j + 1
      BY <1>9
    <3>2. PICK b \in 1 .. Len(tx.fifos) : fs[k] = tx.fifos[b] /\ b = IF k < i THEN k ELSE k + 1
      BY <1>9
    <3>3. a = b
      BY <3>1, <3>2, <1>11, <1>1 DEF FifosKnown
    <3> QED BY <3>1, <3>2, <3>3, <1>8, <1>1
  <2>3. ASSUME r.next # None PROVE \E j \in DOMAIN fs : fs[j].id = r.next
    <3>1. CASE tx.next = id
      <4>1. i < Len(tx.fifos) /\ next = tx.fifos[i + 1].id
        BY <3>1, <2>3, <1>7, AfterQueued DEF next
      <4>2. i + 1 \in 1 .. Len(tx.fifos) /\ i + 1 # i
        BY <4>1, <1>1
      <4> QED BY <4>1, <4>2, <1>10, <1>7
    <3>2. CASE tx.next # id
      <4>1. PICK k \in 1 .. Len(tx.fifos) : tx.fifos[k].id = tx.next
        BY <3>2, <2>3, <1>7, <1>11, <1>1 DEF FifosKnown, next
      <4>2. k # i /\ next = tx.next
        BY <4>1, <3>2 DEF next
      <4> QED BY <4>1, <4>2, <1>10, <1>7
    <3> QED BY <3>1, <3>2
  <2> QED BY <2>1, <2>2, <2>3, <1>7 DEF FifosKnown
<1>13. \A x : Alive(tx, x) => Alive(r, x)
  <2> TAKE x
  <2> HAVE Alive(tx, x)
  <2>1. CASE x \in tx.done \/ x = id
    BY <2>1, <1>7 DEF Alive
  <2>2. CASE x # id /\ \E k \in DOMAIN tx.fifos : tx.fifos[k].id = x
    BY <2>2, <1>7, <1>10, <1>1 DEF Alive
  <2> QED BY <2>1, <2>2 DEF Alive
<1>14. \A j \in DOMAIN r.iov : Points(r, packets, r.iov[j])
  BY <1>7, <1>13 DEF Points, TxSound
<1>15. Sizes(r)
  BY <1>7, <1>11 DEF Sizes
<1>16. TxSound(r, packets)
  BY <1>7, <1>12, <1>14, <1>15 DEF TxSound
<1> QED BY <1>16, <1>7 DEF r, fs, next

-----------------------------------------------------------------------------
(* The units of a list of vectors.                                         *)

\* What a vector points to, in a buffer and among the data of packets.
MuxIn(packets, id) == IF id[2] = 0 THEN 0 ELSE packets[id[1]].write[id[2]].mux
PointedIn(packets, buf, v) ==
    IF v.of = None THEN SubSeq(buf, v.from + 1, v.from + v.len)
    ELSE UnitsOfData(MuxIn(packets, v.of), v.of, v.from, v.len)

Pointeds(packets, buf, vs) == [i \in DOMAIN vs |-> PointedIn(packets, buf, vs[i])]
Stream(packets, buf, vs) == Chained(Pointeds(packets, buf, vs))

\* What a vector points to is there.
There(packets, buf, v) ==
    \/ v.of = None /\ v.from + v.len <= Len(buf)
    \/ IsMessage(packets, v.of)
    \/ Declared(packets, v.of)

AllThere(packets, buf, vs) == \A i \in DOMAIN vs : There(packets, buf, vs[i])

Packets == {p \in Seq(Shapes) : Len(p) <= MaxPackets}

\* The mux of what a vector points to.
LEMMA MuxInTyped ==
    ASSUME NEW packets \in Packets, NEW id \in Ids, IsMessage(packets, id) \/ Declared(packets, id)
    PROVE  MuxIn(packets, id) \in 0 .. 15
<1>1. CASE id[2] = 0
  BY <1>1 DEF MuxIn
<1>2. CASE id[2] # 0
  <2>1. Declared(packets, id)
    BY <1>2 DEF IsMessage
  <2>2. packets[id[1]].write[id[2]].mux \in 4 .. 15
    BY <2>1, DeclaredTyped DEF Packets
  <2> QED BY <1>2, <2>2 DEF MuxIn
<1> QED BY <1>1, <1>2

\* A vector of a sound queue points to as many units as it says.
LEMMA PointedTyped ==
    ASSUME NEW packets \in Packets, NEW buf \in Seq(Unit), NEW v \in Vect, There(packets, buf, v)
    PROVE  PointedIn(packets, buf, v) \in Seq(Unit) /\ Len(PointedIn(packets, buf, v)) = v.len
<1>1. v.of \in Ids /\ v.from \in Nat /\ v.len \in Nat \ {0} /\ Len(buf) \in Nat
  BY DEF Vect
<1>2. CASE v.of = None
  <2>1. v.from + v.len <= Len(buf)
    <3>1. ~IsMessage(packets, None) /\ ~Declared(packets, None)
      <4>1. DOMAIN packets = 1 .. Len(packets) /\ None[1] = 0
        BY LenProperties DEF Packets, None
      <4> QED BY <4>1 DEF IsMessage, Declared
    <3> QED BY <3>1, <1>2 DEF There
  <2>2. \A i \in v.from + 1 .. v.from + v.len : buf[i] \in Unit
    BY <2>1, <1>1, ElementOfSeq
  <2>3. /\ SubSeq(buf, v.from + 1, v.from + v.len) \in Seq(Unit)
        /\ Len(SubSeq(buf, v.from + 1, v.from + v.len)) = IF v.from + 1 <= v.from + v.len THEN v.from + v.len - (v.from + 1) + 1 ELSE 0
    BY <2>2, <1>1, SubSeqProperties
  <2>4. (IF v.from + 1 <= v.from + v.len THEN v.from + v.len - (v.from + 1) + 1 ELSE 0) = v.len
    BY <1>1
  <2> QED BY <2>3, <2>4, <1>2 DEF PointedIn
<1>3. CASE v.of # None
  <2>1. IsMessage(packets, v.of) \/ Declared(packets, v.of)
    BY <1>3 DEF There
  <2>2. MuxIn(packets, v.of) \in 0 .. 15
    BY <2>1, <1>1, MuxInTyped
  <2> QED BY <2>2, <1>1, <1>3, UnitsTyped DEF PointedIn
<1> QED BY <1>2, <1>3

\* The lists of what the vectors of a list point to.
LEMMA PointedsTyped ==
    ASSUME NEW packets \in Packets, NEW buf \in Seq(Unit), NEW vs \in Seq(Vect), AllThere(packets, buf, vs)
    PROVE  /\ Pointeds(packets, buf, vs) \in Seq(Seq(Unit))
           /\ Len(Pointeds(packets, buf, vs)) = Len(vs)
           /\ DOMAIN vs = 1 .. Len(vs) /\ Len(vs) \in Nat
           /\ \A i \in 1 .. Len(vs) : /\ vs[i] \in Vect
                                      /\ Pointeds(packets, buf, vs)[i] = PointedIn(packets, buf, vs[i])
<1>1. DOMAIN vs = 1 .. Len(vs) /\ Len(vs) \in Nat /\ \A i \in 1 .. Len(vs) : vs[i] \in Vect
  BY LenProperties, ElementOfSeq
<1>2. \A i \in 1 .. Len(vs) : PointedIn(packets, buf, vs[i]) \in Seq(Unit)
  BY <1>1, PointedTyped DEF AllThere
<1>3. Pointeds(packets, buf, vs) = [i \in 1 .. Len(vs) |-> PointedIn(packets, buf, vs[i])]
  BY <1>1 DEF Pointeds
<1> QED BY <1>1, <1>2, <1>3

\* The stream of vectors is a list of units,
LEMMA StreamTyped ==
    ASSUME NEW packets \in Packets, NEW buf \in Seq(Unit), NEW vs \in Seq(Vect), AllThere(packets, buf, vs)
    PROVE  Stream(packets, buf, vs) \in Seq(Unit)
BY PointedsTyped, ChainedTyped DEF Stream

\* A list of vectors is as a whole there when its parts are.
LEMMA AllThereParts ==
    ASSUME NEW packets, NEW buf, NEW vs \in Seq(Vect), NEW ws \in Seq(Vect)
    PROVE  AllThere(packets, buf, vs \o ws) <=> AllThere(packets, buf, vs) /\ AllThere(packets, buf, ws)
<1>1. /\ DOMAIN vs = 1 .. Len(vs) /\ DOMAIN ws = 1 .. Len(ws) /\ DOMAIN (vs \o ws) = 1 .. Len(vs) + Len(ws)
      /\ Len(vs) \in Nat /\ Len(ws) \in Nat
      /\ \A i \in 1 .. Len(vs) + Len(ws) : (vs \o ws)[i] = IF i <= Len(vs) THEN vs[i] ELSE ws[i - Len(vs)]
  BY ConcatProperties, LenProperties
<1>2. \A i \in 1 .. Len(vs) : i \in 1 .. Len(vs) + Len(ws) /\ (vs \o ws)[i] = vs[i]
  BY <1>1
<1>3. \A i \in 1 .. Len(ws) : /\ Len(vs) + i \in 1 .. Len(vs) + Len(ws)
                              /\ (vs \o ws)[Len(vs) + i] = ws[i]
  BY <1>1
<1>4. \A i \in 1 .. Len(vs) + Len(ws) : i \in 1 .. Len(vs) \/ (i - Len(vs) \in 1 .. Len(ws) /\ (vs \o ws)[i] = ws[i - Len(vs)])
  BY <1>1
<1> QED BY <1>1, <1>2, <1>3, <1>4 DEF AllThere

\* that of two lists of vectors is one after the other,
LEMMA StreamConcat ==
    ASSUME NEW packets \in Packets, NEW buf \in Seq(Unit), NEW vs \in Seq(Vect), NEW ws \in Seq(Vect),
           AllThere(packets, buf, vs), AllThere(packets, buf, ws)
    PROVE  Stream(packets, buf, vs \o ws) = Stream(packets, buf, vs) \o Stream(packets, buf, ws)
<1> DEFINE a == Pointeds(packets, buf, vs)
           b == Pointeds(packets, buf, ws)
           c == Pointeds(packets, buf, vs \o ws)
<1>1. vs \o ws \in Seq(Vect) /\ AllThere(packets, buf, vs \o ws)
  BY AllThereParts, ConcatProperties
<1>2. /\ a \in Seq(Seq(Unit)) /\ Len(a) = Len(vs) /\ Len(vs) \in Nat
      /\ \A i \in 1 .. Len(vs) : a[i] = PointedIn(packets, buf, vs[i])
  BY PointedsTyped
<1>3. /\ b \in Seq(Seq(Unit)) /\ Len(b) = Len(ws) /\ Len(ws) \in Nat
      /\ \A i \in 1 .. Len(ws) : b[i] = PointedIn(packets, buf, ws[i])
  BY PointedsTyped
<1>4. /\ c \in Seq(Seq(Unit)) /\ Len(c) = Len(vs \o ws)
      /\ \A i \in 1 .. Len(vs \o ws) : c[i] = PointedIn(packets, buf, (vs \o ws)[i])
  BY <1>1, PointedsTyped
<1>5. /\ Len(vs \o ws) = Len(vs) + Len(ws)
      /\ \A i \in 1 .. Len(vs) + Len(ws) : (vs \o ws)[i] = IF i <= Len(vs) THEN vs[i] ELSE ws[i - Len(vs)]
  BY ConcatProperties
<1> HIDE DEF a, b, c
<1>6. /\ a \o b \in Seq(Seq(Unit)) /\ Len(a \o b) = Len(a) + Len(b)
      /\ \A i \in 1 .. Len(a) + Len(b) : (a \o b)[i] = IF i <= Len(a) THEN a[i] ELSE b[i - Len(a)]
  <2> DEFINE T == Seq(Unit)
  <2>1. a \in Seq(T) /\ b \in Seq(T)
    BY <1>2, <1>3
  <2> HIDE DEF T
  <2>2. a \o b \in Seq(T) /\ Len(a \o b) = Len(a) + Len(b)
        /\ \A i \in 1 .. Len(a) + Len(b) : (a \o b)[i] = IF i <= Len(a) THEN a[i] ELSE b[i - Len(a)]
    BY <2>1, ConcatProperties
  <2> QED BY <2>2 DEF T
<1>7. \A i \in 1 .. Len(c) : c[i] = (a \o b)[i]
  <2> TAKE i \in 1 .. Len(c)
  <2>0. i \in 1 .. Len(vs) + Len(ws) /\ c[i] = PointedIn(packets, buf, (vs \o ws)[i])
    BY <1>4, <1>5
  <2>1. CASE i <= Len(vs)
    BY <2>0, <2>1, <1>2, <1>3, <1>5, <1>6
  <2>2. CASE ~(i <= Len(vs))
    <3>1. i - Len(vs) \in 1 .. Len(ws)
      BY <2>0, <2>2, <1>2, <1>3
    <3>2. (a \o b)[i] = b[i - Len(vs)] /\ (vs \o ws)[i] = ws[i - Len(vs)]
      BY <2>0, <2>2, <1>2, <1>3, <1>5, <1>6
    <3> QED BY <2>0, <3>1, <3>2, <1>3
  <2> QED BY <2>1, <2>2
<1>8. Len(c) = Len(a \o b)
  BY <1>2, <1>3, <1>4, <1>5, <1>6
<1>9. c = a \o b
  BY <1>4, <1>6, <1>7, <1>8, SeqEqual
<1> QED BY <1>2, <1>3, <1>9, ChainedConcat DEF Stream, a, b, c

\* that of one vector is what it points to,
LEMMA StreamOne ==
    ASSUME NEW packets \in Packets, NEW buf \in Seq(Unit), NEW v \in Vect, There(packets, buf, v)
    PROVE  /\ <<v>> \in Seq(Vect) /\ AllThere(packets, buf, <<v>>)
           /\ Stream(packets, buf, <<v>>) = PointedIn(packets, buf, v)
<1>1. <<v>> \in Seq(Vect) /\ Len(<<v>>) = 1 /\ DOMAIN <<v>> = 1 .. 1 /\ <<v>>[1] = v
  OBVIOUS
<1>2. AllThere(packets, buf, <<v>>)
  BY <1>1 DEF AllThere
<1> DEFINE p == PointedIn(packets, buf, v)
<1>3. p \in Seq(Unit)
  BY PointedTyped
<1>4. Pointeds(packets, buf, <<v>>) = <<p>>
  BY <1>1 DEF Pointeds
<1> HIDE DEF p
<1>5. <<p>> = Append(<<>>, p) /\ <<>> \in Seq(Seq(Unit))
  BY <1>3
<1>6. Chained(<<p>>) = <<>> \o p
  BY <1>3, <1>5, ChainedAppend, ChainedEmpty
<1>7. <<>> \o p = p
  BY <1>3, ConcatEmptySeq
<1> QED BY <1>1, <1>2, <1>4, <1>6, <1>7 DEF Stream, p

\* and that of none is empty.
LEMMA StreamEmpty ==
    ASSUME NEW packets, NEW buf
    PROVE  Stream(packets, buf, <<>>) = <<>> /\ AllThere(packets, buf, <<>>)
<1>1. Pointeds(packets, buf, <<>>) = <<>>
  BY DEF Pointeds
<1>2. AllThere(packets, buf, <<>>)
  BY DEF AllThere
<1> QED BY <1>1, <1>2, ChainedEmpty DEF Stream

\* A part of a list of vectors.
LEMMA PartOf ==
    ASSUME NEW packets, NEW buf, NEW vs \in Seq(Vect), NEW m \in Nat \ {0}, NEW n \in Nat, n <= Len(vs)
    PROVE  /\ SubSeq(vs, m, n) \in Seq(Vect)
           /\ Len(SubSeq(vs, m, n)) = IF m <= n THEN n - m + 1 ELSE 0
           /\ \A i \in 1 .. n - m + 1 : SubSeq(vs, m, n)[i] = vs[m + i - 1]
           /\ AllThere(packets, buf, vs) => AllThere(packets, buf, SubSeq(vs, m, n))
<1> DEFINE s == SubSeq(vs, m, n)
<1>1. Len(vs) \in Nat /\ DOMAIN vs = 1 .. Len(vs) /\ \A i \in m .. n : vs[i] \in Vect
  BY LenProperties, ElementOfSeq
<1>2. /\ s \in Seq(Vect) /\ Len(s) = (IF m <= n THEN n - m + 1 ELSE 0)
      /\ \A i \in 1 .. n - m + 1 : s[i] = vs[m + i - 1]
  BY <1>1, SubSeqProperties
<1> HIDE DEF s
<1>3. DOMAIN s = 1 .. Len(s)
  BY <1>2, LenProperties
<1>4. \A i \in 1 .. Len(s) : i \in 1 .. n - m + 1 /\ m + i - 1 \in 1 .. Len(vs)
  BY <1>1, <1>2
<1>5. AllThere(packets, buf, vs) => AllThere(packets, buf, s)
  BY <1>1, <1>2, <1>3, <1>4 DEF AllThere
<1> QED BY <1>2, <1>5 DEF s

\* Before the first vector there is nothing.
LEMMA SummedEmpty == Summed(<<>>) = 0
<1>1. <<>> \in Seq(Nat) /\ Len(<<>>) = 0
  OBVIOUS
<1>2. PICK f : Adds(f, <<>>) /\ f \in [0 .. Len(<<>>) -> Nat] /\ Summed(<<>>) = f[Len(<<>>)]
  BY <1>1, SummedBy
<1> QED BY <1>1, <1>2 DEF Adds

\* The units before a vector are those of the vectors before it.
LEMMA UnitsCount ==
    ASSUME NEW vs \in Seq(Vect), NEW i \in Nat, i <= Len(vs)
    PROVE  /\ UnitsBefore(vs, 0) = 0
           /\ UnitsBefore(vs, i) \in Nat
           /\ i < Len(vs) => /\ vs[i + 1] \in Vect
                             /\ UnitsBefore(vs, i + 1) = UnitsBefore(vs, i) + vs[i + 1].len
<1>1. Len(vs) \in Nat /\ \A k \in 1 .. Len(vs) : vs[k] \in Vect /\ vs[k].len \in Nat
  <2>1. Len(vs) \in Nat /\ \A k \in 1 .. Len(vs) : vs[k] \in Vect
    BY LenProperties, ElementOfSeq
  <2>2. \A v \in Vect : v.len \in Nat
    BY DEF Vect
  <2> QED BY <2>1, <2>2
<1> DEFINE lens(j) == [k \in 1 .. j |-> vs[k].len]
<1>2. \A j \in 0 .. Len(vs) : lens(j) \in Seq(Nat) /\ Len(lens(j)) = j
  <2> TAKE j \in 0 .. Len(vs)
  <2>1. \A k \in 1 .. j : vs[k].len \in Nat
    BY <1>1
  <2> QED BY <2>1
<1>3. lens(0) = <<>>
  OBVIOUS
<1>4. UnitsBefore(vs, 0) = 0
  BY <1>3, SummedEmpty DEF UnitsBefore
<1>5. UnitsBefore(vs, i) \in Nat
  BY <1>2, SummedTyped DEF UnitsBefore
<1>6. ASSUME i < Len(vs) PROVE UnitsBefore(vs, i + 1) = UnitsBefore(vs, i) + vs[i + 1].len
  <2>1. lens(i + 1) = Append(lens(i), vs[i + 1].len)
    <3>1. lens(i) \in Seq(Nat) /\ Len(lens(i)) = i /\ lens(i + 1) \in Seq(Nat) /\ Len(lens(i + 1)) = i + 1
      BY <1>6, <1>1, <1>2
    <3>2. vs[i + 1].len \in Nat
      BY <1>6, <1>1
    <3>3. /\ Append(lens(i), vs[i + 1].len) \in Seq(Nat) /\ Len(Append(lens(i), vs[i + 1].len)) = i + 1
          /\ \A k \in 1 .. i : Append(lens(i), vs[i + 1].len)[k] = lens(i)[k]
          /\ Append(lens(i), vs[i + 1].len)[i + 1] = vs[i + 1].len
      BY <3>1, <3>2, AppendProperties
    <3>4. \A k \in 1 .. i + 1 : lens(i + 1)[k] = Append(lens(i), vs[i + 1].len)[k]
      BY <3>3
    <3> HIDE DEF lens
    <3> QED BY <3>1, <3>3, <3>4, SeqEqual
  <2>2. Summed(Append(lens(i), vs[i + 1].len)) = Summed(lens(i)) + vs[i + 1].len
    <3>1. lens(i) \in Seq(Nat) /\ vs[i + 1].len \in Nat
      BY <1>6, <1>1, <1>2
    <3> HIDE DEF lens
    <3> QED BY <3>1, SummedAppend
  <2> QED BY <2>1, <2>2 DEF UnitsBefore
<1>7. i < Len(vs) => vs[i + 1] \in Vect
  BY <1>1
<1> QED BY <1>4, <1>5, <1>6, <1>7

\* The length of what the first vectors point to.
LEMMA StreamUnits ==
    ASSUME NEW packets \in Packets, NEW buf \in Seq(Unit), NEW vs \in Seq(Vect), AllThere(packets, buf, vs)
    PROVE  \A i \in 0 .. Len(vs) : Len(Stream(packets, buf, SubSeq(vs, 1, i))) = UnitsBefore(vs, i)
<1> DEFINE Counted(i) == i <= Len(vs) => Len(Stream(packets, buf, SubSeq(vs, 1, i))) = UnitsBefore(vs, i)
           S == {i \in Nat : Counted(i)}
<1>0. Len(vs) \in Nat /\ DOMAIN vs = 1 .. Len(vs)
  BY LenProperties
<1>1. 0 \in S
  <2>1. SubSeq(vs, 1, 0) = <<>>
    BY SubSeqEmpty
  <2>2. Len(Stream(packets, buf, <<>>)) = 0
    BY StreamEmpty
  <2>3. UnitsBefore(vs, 0) = 0
    BY <1>0, UnitsCount
  <2> QED BY <2>1, <2>2, <2>3
<1>2. ASSUME NEW i \in Nat, i \in S PROVE i + 1 \in S
  <2> SUFFICES ASSUME i + 1 <= Len(vs)
               PROVE  Len(Stream(packets, buf, SubSeq(vs, 1, i + 1))) = UnitsBefore(vs, i + 1)
    OBVIOUS
  <2> DEFINE a == SubSeq(vs, 1, i)
             v == vs[i + 1]
  <2>1. i < Len(vs) /\ i <= Len(vs) /\ i + 1 \in 1 .. Len(vs)
    BY <1>0
  <2>2. a \in Seq(Vect) /\ AllThere(packets, buf, a)
    BY <2>1, PartOf
  <2>3. v \in Vect /\ UnitsBefore(vs, i + 1) = UnitsBefore(vs, i) + v.len /\ There(packets, buf, v)
    BY <2>1, <1>0, UnitsCount DEF AllThere
  <2>4. SubSeq(vs, 1, i + 1) = a \o <<v>>
    <3>1. SubSeq(vs, 1, i + 1) = Append(a, v)
      BY <2>1, BeginningGrows
    <3> HIDE DEF a, v
    <3> QED BY <3>1, <2>2, <2>3, AppendIsConcat
  <2>5. Len(Stream(packets, buf, a)) = UnitsBefore(vs, i)
    BY <1>2, <2>1
  <2> HIDE DEF a, v
  <2>6. <<v>> \in Seq(Vect) /\ AllThere(packets, buf, <<v>>)
    BY <2>3, StreamOne
  <2>10. Stream(packets, buf, <<v>>) = PointedIn(packets, buf, v)
    BY <2>3, StreamOne
  <2>11. Stream(packets, buf, a \o <<v>>) = Stream(packets, buf, a) \o Stream(packets, buf, <<v>>)
    BY <2>2, <2>6, StreamConcat
  <2>7. Stream(packets, buf, a \o <<v>>) = Stream(packets, buf, a) \o PointedIn(packets, buf, v)
    BY <2>10, <2>11
  <2>8. /\ Stream(packets, buf, a) \in Seq(Unit)
        /\ PointedIn(packets, buf, v) \in Seq(Unit) /\ Len(PointedIn(packets, buf, v)) = v.len
    BY <2>2, <2>3, StreamTyped, PointedTyped
  <2>9. Len(Stream(packets, buf, a) \o PointedIn(packets, buf, v)) = Len(Stream(packets, buf, a)) + v.len
    <3>1. \A p, q \in Seq(Unit) : Len(p \o q) = Len(p) + Len(q)
      BY ConcatProperties
    <3> QED BY <2>8, <3>1
  <2> QED BY <2>3, <2>4, <2>5, <2>7, <2>9
<1> HIDE DEF S
<1>3. \A i \in Nat : i \in S
  BY <1>1, <1>2, NatInductionOnSet
<1> QED BY <1>0, <1>3 DEF S

\* The vectors that are taken as a whole are found.
LEMMA WholeFound ==
    ASSUME NEW vs \in Seq(Vect), NEW n \in Nat
    PROVE  LET w == WholeVectors(vs, n) IN
           /\ w \in 0 .. Len(vs) /\ UnitsBefore(vs, w) <= n
           /\ w = Len(vs) \/ n < UnitsBefore(vs, w + 1)
<1> DEFINE Found(i) == i \in 0 .. Len(vs) /\ UnitsBefore(vs, i) <= n /\ (i = Len(vs) \/ n < UnitsBefore(vs, i + 1))
<1>0. Len(vs) \in Nat
  BY LenProperties
<1>1. \E i \in 0 .. Len(vs) : Found(i)
  <2> SUFFICES ASSUME \A i \in 0 .. Len(vs) : ~Found(i) PROVE FALSE
    OBVIOUS
  <2> DEFINE S == {i \in Nat : i <= Len(vs) => UnitsBefore(vs, i) <= n}
  <2>1. 0 \in S
    BY <1>0, UnitsCount
  <2>2. ASSUME NEW i \in Nat, i \in S PROVE i + 1 \in S
    <3> SUFFICES ASSUME i + 1 <= Len(vs) PROVE UnitsBefore(vs, i + 1) <= n
      OBVIOUS
    <3>1. i \in 0 .. Len(vs) /\ i # Len(vs) /\ UnitsBefore(vs, i) <= n /\ i < Len(vs)
      BY <2>2, <1>0
    <3>2. ~(n < UnitsBefore(vs, i + 1))
      BY <3>1
    <3>3. UnitsBefore(vs, i + 1) \in Nat
      BY <1>0, UnitsCount
    <3> QED BY <3>2, <3>3
  <2> HIDE DEF S
  <2>3. Len(vs) \in S
    BY <2>1, <2>2, <1>0, NatInductionOnSet
  <2> QED BY <2>3, <1>0 DEF S
<1> QED BY <1>1 DEF WholeVectors

\* The entries of a list after the first d ones, up to the n-th.
IsSlice(t, s, d, n, T) == t \in Seq(T) /\ Len(t) = n - d /\ \A i \in 1 .. n - d : t[i] = s[d + i]
\* A part of a list.
LEMMA Slice ==
    ASSUME NEW T, NEW s \in Seq(T), NEW d \in Nat, NEW n \in Nat, d <= n, n <= Len(s)
    PROVE  IsSlice(SubSeq(s, d + 1, n), s, d, n, T)
<1> DEFINE t == SubSeq(s, d + 1, n)
           m == d + 1
<1>1. /\ t \in Seq(T) /\ Len(t) = (IF m <= n THEN n - m + 1 ELSE 0)
      /\ \A i \in 1 .. n - m + 1 : t[i] = s[m + i - 1]
  <2>1. m \in Int /\ n \in Int /\ \A i \in m .. n : s[i] \in T
    BY ElementOfSeq
  <2>2. t = SubSeq(s, m, n)
    OBVIOUS
  <2> HIDE DEF m, t
  <2> QED BY <2>1, <2>2, SubSeqProperties
<1>2. m = d + 1
  OBVIOUS
<1> HIDE DEF m, t
<1>3. n - m + 1 = n - d /\ Len(t) = n - d
  BY <1>1, <1>2
<1>4. \A i \in 1 .. n - d : m + i - 1 = d + i
  BY <1>2
<1>5. \A i \in 1 .. n - d : t[i] = s[d + i]
  BY <1>1, <1>3, <1>4
<1> QED BY <1>1, <1>3, <1>5 DEF t, IsSlice

\* A list without its first n entries, which end in its second part.
Dropped(s, n) == SubSeq(s, n + 1, Len(s))
DropsTo(a, b, c, d) == \A n, s : n = Len(a) + d /\ s = (a \o b) \o c => Dropped(s, n) = Dropped(b, d) \o c
\* Dropping more than the first of two lists drops from the second.
LEMMA DropInSecond ==
    ASSUME NEW T, NEW a \in Seq(T), NEW b \in Seq(T), NEW c \in Seq(T), NEW d \in Nat, d <= Len(b)
    PROVE  DropsTo(a, b, c, d)
<1> SUFFICES ASSUME NEW n, NEW s, n = Len(a) + d, s = (a \o b) \o c
             PROVE  Dropped(s, n) = Dropped(b, d) \o c
  BY DEF DropsTo
<1>0. Len(a) \in Nat /\ Len(b) \in Nat /\ Len(c) \in Nat /\ n \in Nat
  BY LenProperties
<1>1. a \o b \in Seq(T) /\ Len(a \o b) = Len(a) + Len(b)
      /\ \A i \in 1 .. Len(a) + Len(b) : (a \o b)[i] = IF i <= Len(a) THEN a[i] ELSE b[i - Len(a)]
  BY ConcatProperties
<1>2. s \in Seq(T) /\ Len(s) = Len(a) + Len(b) + Len(c)
      /\ \A i \in 1 .. Len(a) + Len(b) + Len(c) :
            s[i] = IF i <= Len(a) + Len(b) THEN (a \o b)[i] ELSE c[i - (Len(a) + Len(b))]
  <2>1. s \in Seq(T) /\ Len(s) = Len(a \o b) + Len(c)
        /\ \A i \in 1 .. Len(a \o b) + Len(c) :
            s[i] = IF i <= Len(a \o b) THEN (a \o b)[i] ELSE c[i - Len(a \o b)]
    BY <1>1, ConcatProperties
  <2> QED BY <2>1, <1>1
<1> DEFINE l == SubSeq(s, n + 1, Len(s))
           e == SubSeq(b, d + 1, Len(b))
<1>3. l \in Seq(T) /\ Len(l) = Len(b) - d + Len(c)
      /\ \A i \in 1 .. Len(b) - d + Len(c) : l[i] = s[n + i]
  <2>2. n \in Nat /\ Len(s) \in Nat /\ n <= Len(s) /\ Len(s) - n = Len(b) - d + Len(c)
    BY <1>0, <1>2
  <2>3. IsSlice(l, s, n, Len(s), T)
    <3>1. s \in Seq(T)
      BY <1>2
    <3>2. PICK z : z = Len(s)
      OBVIOUS
    <3>3. z \in Nat /\ n <= z /\ z <= Len(s)
      BY <3>2, <2>2
    <3>4. IsSlice(SubSeq(s, n + 1, z), s, n, z, T)
      BY <3>1, <3>3, <2>2, Slice
    <3> QED BY <3>2, <3>4
  <2> HIDE DEF l
  <2> QED BY <2>2, <2>3 DEF IsSlice
<1>4. e \in Seq(T) /\ Len(e) = Len(b) - d /\ \A i \in 1 .. Len(b) - d : e[i] = b[d + i]
  <2>1. IsSlice(e, b, d, Len(b), T)
    BY <1>0, Slice
  <2> QED BY <2>1 DEF IsSlice
<1> HIDE DEF l, e
<1>5. e \o c \in Seq(T) /\ Len(e \o c) = Len(b) - d + Len(c)
      /\ \A i \in 1 .. Len(b) - d + Len(c) : (e \o c)[i] = IF i <= Len(b) - d THEN e[i] ELSE c[i - (Len(b) - d)]
  <2>1. e \o c \in Seq(T) /\ Len(e \o c) = Len(e) + Len(c)
        /\ \A i \in 1 .. Len(e) + Len(c) : (e \o c)[i] = IF i <= Len(e) THEN e[i] ELSE c[i - Len(e)]
    BY <1>4, ConcatProperties
  <2> QED BY <2>1, <1>4
<1>6. \A i \in 1 .. Len(b) - d + Len(c) : l[i] = (e \o c)[i]
  <2> TAKE i \in 1 .. Len(b) - d + Len(c)
  <2>0. l[i] = s[n + i] /\ n + i \in 1 .. Len(a) + Len(b) + Len(c) /\ i \in Nat
    <3>1. l[i] = s[n + i]
      BY <1>3
    <3>2. PICK A, B, C : A = Len(a) /\ B = Len(b) /\ C = Len(c)
      OBVIOUS
    <3>3. A \in Nat /\ B \in Nat /\ C \in Nat /\ n = A + d /\ d <= B /\ i \in 1 .. B - d + C
      BY <3>2, <1>0
    <3>4. n + i \in 1 .. A + B + C /\ i \in Nat
      BY <3>3
    <3> QED BY <3>1, <3>2, <3>4
  <2>1. CASE i <= Len(b) - d
    <3>1. n + i <= Len(a) + Len(b) /\ ~(n + i <= Len(a)) /\ n + i - Len(a) = d + i /\ n + i \in 1 .. Len(a) + Len(b)
      BY <2>1, <2>0, <1>0
    <3>2. s[n + i] = b[d + i]
      BY <2>0, <3>1, <1>1, <1>2
    <3>3. (e \o c)[i] = e[i] /\ i \in 1 .. Len(b) - d
      BY <2>1, <2>0, <1>0, <1>5
    <3>4. e[i] = b[d + i]
      BY <3>3, <1>4
    <3> QED BY <2>0, <3>2, <3>3, <3>4
  <2>2. CASE ~(i <= Len(b) - d)
    <3>1. ~(n + i <= Len(a) + Len(b)) /\ n + i - (Len(a) + Len(b)) = i - (Len(b) - d)
      BY <2>2, <2>0, <1>0
    <3>2. s[n + i] = c[i - (Len(b) - d)]
      BY <2>0, <3>1, <1>2
    <3> QED BY <2>0, <2>2, <3>2, <1>5
  <2> QED BY <2>1, <2>2
<1>7. l = e \o c
  BY <1>3, <1>5, <1>6, SeqEqual
<1> QED BY <1>7 DEF l, e, Dropped

\* A vector without its first units.
Rest(v, d) == Vector(v.of, v.from + d, v.len - d)
\* The rest of a vector points to the rest of what it pointed to.
LEMMA RestPointed ==
    ASSUME NEW packets \in Packets, NEW buf \in Seq(Unit), NEW v \in Vect, There(packets, buf, v),
           NEW d \in Nat, d < v.len
    PROVE  /\ Rest(v, d) \in Vect /\ Rest(v, d).of = v.of
           /\ Rest(v, d).from + Rest(v, d).len = v.from + v.len
           /\ There(packets, buf, Rest(v, d))
           /\ PointedIn(packets, buf, Rest(v, d)) = SubSeq(PointedIn(packets, buf, v), d + 1, v.len)
<1> DEFINE r == Rest(v, d)
           p == PointedIn(packets, buf, v)
           q == PointedIn(packets, buf, r)
<1>0. v.of \in Ids /\ v.from \in Nat /\ v.len \in Nat \ {0} /\ Len(buf) \in Nat
  BY DEF Vect
<1>1. r.of = v.of /\ r.from = v.from + d /\ r.len = v.len - d /\ r = [of |-> v.of, from |-> v.from + d, len |-> v.len - d]
  BY DEF Rest, Vector
<1> HIDE DEF r
<1>2. r \in Vect /\ r.from + r.len = v.from + v.len
  <2>1. v.from + d \in Nat /\ v.len - d \in Nat \ {0} /\ v.from + d + (v.len - d) = v.from + v.len
    BY <1>0
  <2> QED BY <2>1, <1>0, <1>1 DEF Vect
<1>3. There(packets, buf, r)
  BY <1>1, <1>2 DEF There
<1>4. p \in Seq(Unit) /\ Len(p) = v.len
  BY PointedTyped
<1>5. q \in Seq(Unit) /\ Len(q) = v.len - d
  BY <1>1, <1>2, <1>3, PointedTyped
<1>6. \A i \in 1 .. v.len - d : q[i] = p[d + i]
  <2> TAKE i \in 1 .. v.len - d
  <2>0. d + i \in 1 .. v.len /\ v.from + (d + i) = v.from + d + i /\ i \in Nat
    BY <1>0
  <2>1. CASE v.of = None
    <3>1. p = SubSeq(buf, v.from + 1, v.from + v.len) /\ q = SubSeq(buf, v.from + d + 1, v.from + d + (v.len - d))
      BY <2>1, <1>1 DEF PointedIn
    <3>2. v.from + v.len <= Len(buf)
      <4>1. ~IsMessage(packets, None) /\ ~Declared(packets, None)
        <5>1. DOMAIN packets = 1 .. Len(packets) /\ None[1] = 0
          BY LenProperties DEF Packets, None
        <5> QED BY <5>1 DEF IsMessage, Declared
      <4> QED BY <4>1, <2>1 DEF There
    <3> DEFINE m == v.from + v.len
               k == v.from + d
    <3>3. \A f, l \in Nat : d < l => /\ f + l \in Nat /\ f + d \in Nat /\ f + d <= f + l /\ f <= f + l
                                    /\ f + l = f + d + (l - d) /\ f + l - f = l /\ f + l - (f + d) = l - d
      OBVIOUS
    <3>4. m \in Nat /\ k \in Nat /\ k <= m /\ v.from <= m /\ m = k + (v.len - d) /\ m - v.from = v.len /\ m - k = v.len - d
      <4>1. PICK f, l : f = v.from /\ l = v.len
        OBVIOUS
      <4>2. f \in Nat /\ l \in Nat /\ d < l
        BY <4>1, <1>0
      <4>3. /\ f + l \in Nat /\ f + d \in Nat /\ f + d <= f + l /\ f <= f + l
            /\ f + l = f + d + (l - d) /\ f + l - f = l /\ f + l - (f + d) = l - d
        BY <4>2, <3>3
      <4>4. m = f + l /\ k = f + d /\ v.from = f /\ v.len = l
        BY <4>1
      <4> HIDE DEF m, k
      <4> QED BY <4>2, <4>3, <4>4
    <3>6. p = SubSeq(buf, v.from + 1, m) /\ q = SubSeq(buf, k + 1, m)
      BY <3>1, <3>4
    <3>5. m <= Len(buf)
      BY <3>2
    <3> HIDE DEF m, k, p, q
    <3>7. \A j \in 1 .. v.len : p[j] = buf[v.from + j]
      <4>1. IsSlice(p, buf, v.from, m, Unit)
        BY <3>4, <3>5, <3>6, <1>0, Slice
      <4> QED BY <4>1, <3>4 DEF IsSlice
    <3>8. \A j \in 1 .. v.len - d : q[j] = buf[k + j]
      <4>1. IsSlice(q, buf, k, m, Unit)
        BY <3>4, <3>5, <3>6, <1>0, Slice
      <4> QED BY <4>1, <3>4 DEF IsSlice
    <3>9. p[d + i] = buf[v.from + (d + i)] /\ q[i] = buf[v.from + d + i]
      BY <3>7, <3>8, <2>0 DEF k
    <3> QED BY <3>9, <2>0
  <2>2. CASE v.of # None
    <3>1. p = UnitsOfData(MuxIn(packets, v.of), v.of, v.from, v.len) /\ q = UnitsOfData(MuxIn(packets, v.of), v.of, v.from + d, v.len - d)
      BY <2>2, <1>1 DEF PointedIn
    <3>2. p[d + i] = Data(MuxIn(packets, v.of), v.of, v.from + (d + i)) /\ q[i] = Data(MuxIn(packets, v.of), v.of, v.from + d + i)
      <4> HIDE DEF p, q
      <4> QED BY <3>1, <2>0, <1>0 DEF UnitsOfData
    <3> QED BY <3>2, <2>0
  <2> QED BY <2>1, <2>2
<1> DEFINE t == SubSeq(p, d + 1, v.len)
<1>7. t \in Seq(Unit) /\ Len(t) = v.len - d /\ \A i \in 1 .. v.len - d : t[i] = p[d + i]
  <2> HIDE DEF p
  <2>1. IsSlice(t, p, d, v.len, Unit)
    BY <1>0, <1>4, Slice
  <2> QED BY <2>1 DEF IsSlice
<1> HIDE DEF p, q, t
<1>8. q = t
  BY <1>5, <1>6, <1>7, SeqEqual
<1> QED BY <1>1, <1>2, <1>3, <1>8 DEF r, p, q, t

\* A list around one of its vectors.
LEMMA AroundOne ==
    ASSUME NEW vs \in Seq(Vect), NEW w \in Nat, w < Len(vs)
    PROVE  vs = (SubSeq(vs, 1, w) \o <<vs[w + 1]>>) \o SubSeq(vs, w + 2, Len(vs))
<1> DEFINE a == SubSeq(vs, 1, w)
           v == vs[w + 1]
           c == SubSeq(vs, w + 2, Len(vs))
           b == a \o <<v>>
<1>1. Len(vs) \in Nat /\ v \in Vect
  BY LenProperties, ElementOfSeq
<1>2. b \in Seq(Vect) /\ Len(b) = w + 1 /\ \A i \in 1 .. w + 1 : b[i] = vs[i]
  <2>1. a \in Seq(Vect) /\ Len(a) = w /\ \A i \in 1 .. w : a[i] = vs[i]
    <3>1. \A i \in 1 .. w : vs[i] \in Vect
      BY <1>1, ElementOfSeq
    <3> QED BY <3>1, <1>1, SubSeqProperties
  <2> HIDE DEF a
  <2>2. /\ b \in Seq(Vect) /\ Len(b) = Len(a) + Len(<<v>>)
        /\ \A i \in 1 .. Len(a) + Len(<<v>>) : b[i] = IF i <= Len(a) THEN a[i] ELSE <<v>>[i - Len(a)]
    <3>1. <<v>> \in Seq(Vect)
      BY <1>1
    <3> QED BY <3>1, <2>1, ConcatProperties
  <2>3. Len(<<v>>) = 1 /\ <<v>>[1] = v /\ w + 1 - w = 1
    OBVIOUS
  <2> HIDE DEF b
  <2>4. Len(b) = w + 1
    BY <2>1, <2>2, <2>3
  <2>5. ASSUME NEW i \in 1 .. w + 1 PROVE b[i] = vs[i]
    <3>1. CASE i <= w
      BY <3>1, <2>1, <2>2, <2>3
    <3>2. CASE i = w + 1
      BY <3>2, <2>1, <2>2, <2>3 DEF v
    <3> QED BY <3>1, <3>2
  <2> QED BY <2>2, <2>4, <2>5
<1>3. c \in Seq(Vect) /\ Len(c) = Len(vs) - (w + 1) /\ \A i \in 1 .. Len(vs) - (w + 1) : c[i] = vs[w + 1 + i]
  <2>1. c = SubSeq(vs, (w + 1) + 1, Len(vs))
    OBVIOUS
  <2>2. PICK k : k = w + 1
    OBVIOUS
  <2>3. k \in Nat /\ k <= Len(vs)
    BY <2>2, <1>1
  <2>4. IsSlice(SubSeq(vs, k + 1, Len(vs)), vs, k, Len(vs), Vect)
    BY <2>3, <1>1, Slice
  <2> QED BY <2>1, <2>2, <2>4 DEF IsSlice
<1> HIDE DEF b, c
<1>4. /\ b \o c \in Seq(Vect) /\ Len(b \o c) = Len(b) + Len(c)
      /\ \A i \in 1 .. Len(b) + Len(c) : (b \o c)[i] = IF i <= Len(b) THEN b[i] ELSE c[i - Len(b)]
  BY <1>2, <1>3, ConcatProperties
<1>5. Len(b \o c) = Len(vs)
  BY <1>1, <1>2, <1>3, <1>4
<1>6. \A i \in 1 .. Len(vs) : (b \o c)[i] = vs[i]
  <2> TAKE i \in 1 .. Len(vs)
  <2>1. CASE i <= w + 1
    BY <2>1, <1>1, <1>2, <1>3, <1>4
  <2>2. CASE ~(i <= w + 1)
    <3>1. i - (w + 1) \in 1 .. Len(vs) - (w + 1) /\ w + 1 + (i - (w + 1)) = i
      BY <2>2, <1>1
    <3>2. (b \o c)[i] = c[i - (w + 1)]
      BY <2>2, <1>1, <1>2, <1>3, <1>4
    <3> QED BY <3>1, <3>2, <1>3
  <2> QED BY <2>1, <2>2, <1>1
<1>7. vs = b \o c
  BY <1>4, <1>5, <1>6, SeqEqual
<1> QED BY <1>7 DEF b, c

\* What is left of a list of vectors of which the first n units are taken.
IsLeft(ws, packets, buf, vs, n) ==
    /\ ws \in Seq(Vect) /\ Len(ws) \in 1 .. Len(vs)
    /\ AllThere(packets, buf, ws)
    /\ Stream(packets, buf, ws) = SubSeq(Stream(packets, buf, vs), n + 1, Len(Stream(packets, buf, vs)))
    /\ \A i \in 1 .. Len(ws) : \E j \in 1 .. Len(vs) :
          ws[i].of = vs[j].of /\ ws[i].from + ws[i].len = vs[j].from + vs[j].len

\* What Without leaves of the vectors is the stream less the units that were taken:
\* nothing is sent twice and nothing is lost, wherever the kernel cuts.
LEMMA WithoutStream ==
    ASSUME NEW packets \in Packets, NEW buf \in Seq(Unit), NEW vs \in Seq(Vect), AllThere(packets, buf, vs),
           NEW n \in Nat, n < Len(Stream(packets, buf, vs))
    PROVE  IsLeft(Without(vs, n), packets, buf, vs, n)
<1> DEFINE w == WholeVectors(vs, n)
           U == UnitsBefore(vs, w)
           part == n - U
           v == vs[w + 1]
           a == SubSeq(vs, 1, w)
           c == SubSeq(vs, w + 2, Len(vs))
           r == Rest(v, part)
           ws == <<r>> \o c
           S(x) == Stream(packets, buf, x)
           p == PointedIn(packets, buf, v)
<1>0. Len(vs) \in Nat /\ DOMAIN vs = 1 .. Len(vs) /\ \A i \in 1 .. Len(vs) : vs[i] \in Vect
  BY LenProperties, ElementOfSeq
<1>1. w \in 0 .. Len(vs) /\ U <= n /\ (w = Len(vs) \/ n < UnitsBefore(vs, w + 1))
  BY WholeFound
<1> HIDE DEF w
<1>2. w < Len(vs)
  <2>1. ASSUME w = Len(vs) PROVE FALSE
    <3>1. SubSeq(vs, 1, Len(vs)) = vs
      BY <1>0, SubSeqFull
    <3>2. Len(S(vs)) = UnitsBefore(vs, Len(vs)) /\ Len(S(vs)) \in Nat
      <4>1. Len(Stream(packets, buf, SubSeq(vs, 1, Len(vs)))) = UnitsBefore(vs, Len(vs))
        BY <1>0, StreamUnits
      <4>2. Stream(packets, buf, vs) \in Seq(Unit)
        BY StreamTyped
      <4> QED BY <3>1, <4>1, <4>2, LenProperties
    <3>3. UnitsBefore(vs, w) = UnitsBefore(vs, Len(vs)) /\ UnitsBefore(vs, w) <= n
      BY <2>1, <1>1
    <3> HIDE DEF S
    <3>4. n < Len(S(vs))
      BY DEF S
    <3> QED BY <3>2, <3>3, <3>4
  <2>2. w \in 0 .. Len(vs) /\ Len(vs) \in Nat
    BY ZenonT(30), <1>0, <1>1
  <2> QED BY <2>1, <2>2
<1>23. w \in Nat /\ w + 1 \in 1 .. Len(vs) /\ w <= Len(vs)
  <2>1. w \in 0 .. Len(vs) /\ Len(vs) \in Nat
    BY ZenonT(30), <1>0, <1>1
  <2> QED BY <2>1, <1>2
<1>3. U \in Nat /\ v \in Vect /\ UnitsBefore(vs, w + 1) = U + v.len /\ w \in Nat
  <2>1. UnitsBefore(vs, w) \in Nat
    BY <1>23, UnitsCount
  <2>2. UnitsBefore(vs, w + 1) = UnitsBefore(vs, w) + vs[w + 1].len
    BY <1>23, <1>2, UnitsCount
  <2> QED BY <2>1, <2>2, <1>23, <1>0
<1>4. v.len \in Nat /\ part \in Nat /\ part < v.len
  <2>1. v.len \in Nat
    BY <1>3 DEF Vect
  <2>2. U <= n /\ n < U + v.len /\ U \in Nat
    <3>1. w # Len(vs)
      BY <1>23
    <3>2. n < UnitsBefore(vs, w + 1) /\ UnitsBefore(vs, w) <= n
      BY <3>1, <1>1
    <3>3. UnitsBefore(vs, w + 1) = U + v.len /\ U \in Nat
      BY <1>3
    <3> QED BY <3>2, <3>3
  <2>3. PICK x, y : x = U /\ y = v.len
    OBVIOUS
  <2>4. x \in Nat /\ y \in Nat /\ x <= n /\ n < x + y
    BY <2>1, <2>2, <2>3
  <2>5. n - x \in Nat /\ n - x < y
    BY <2>4
  <2> HIDE DEF U, v
  <2> QED BY <2>1, <2>3, <2>5
<1>5. There(packets, buf, v)
  BY <1>0, <1>23 DEF AllThere
<1>6. a \in Seq(Vect) /\ AllThere(packets, buf, a)
  <2>1. PICK m : m = 1
    OBVIOUS
  <2>2. m \in Nat \ {0} /\ w \in Nat /\ w <= Len(vs)
    BY <2>1, <1>23
  <2>3. SubSeq(vs, m, w) \in Seq(Vect) /\ AllThere(packets, buf, SubSeq(vs, m, w))
    BY <2>2, PartOf
  <2> QED BY <2>1, <2>3
<1>7. /\ c \in Seq(Vect) /\ AllThere(packets, buf, c) /\ Len(c) = Len(vs) - (w + 1)
      /\ \A i \in 1 .. Len(vs) - (w + 1) : c[i] = vs[w + 1 + i]
  <2>1. w + 2 \in Nat \ {0} /\ Len(vs) - (w + 2) + 1 = Len(vs) - (w + 1)
    BY <1>0, <1>3
  <2>2. \A i \in 1 .. Len(vs) - (w + 1) : w + 2 + i - 1 = w + 1 + i
    BY <1>0, <1>3
  <2>3. /\ c \in Seq(Vect) /\ (AllThere(packets, buf, vs) => AllThere(packets, buf, c))
        /\ Len(c) = (IF w + 2 <= Len(vs) THEN Len(vs) - (w + 2) + 1 ELSE 0)
        /\ \A i \in 1 .. Len(vs) - (w + 2) + 1 : c[i] = vs[w + 2 + i - 1]
    BY <2>1, <1>0, PartOf
  <2> HIDE DEF c
  <2>4. Len(c) = Len(vs) - (w + 1)
    BY <2>1, <2>3, <1>0, <1>2, <1>3
  <2> QED BY <2>1, <2>2, <2>3, <2>4
<1>8. Without(vs, n) = ws
  <2>1. w # Len(vs)
    BY <1>0, <1>2
  <2> QED BY <2>1 DEF Without, Rest, w
<1>9. r \in Vect /\ r.of = v.of /\ r.from + r.len = v.from + v.len /\ There(packets, buf, r)
      /\ PointedIn(packets, buf, r) = SubSeq(p, part + 1, v.len)
  <2> HIDE DEF v, part
  <2> QED BY <1>3, <1>4, <1>5, RestPointed
<1>10. vs = (a \o <<v>>) \o c
  BY ZenonT(30), <1>0, <1>2, <1>3, AroundOne
<1>11. Len(S(a)) = U
  BY ZenonT(30), <1>0, <1>1, StreamUnits
<1>12. p \in Seq(Unit) /\ Len(p) = v.len
  BY <1>3, <1>5, PointedTyped
<1>20. part \in Nat /\ n = U + part
  <2>1. U \in Nat /\ n \in Nat /\ U <= n
    BY <1>1, <1>3
  <2> HIDE DEF U
  <2> QED BY <2>1
<1>21. vs[w + 1] = v /\ w + 1 \in 1 .. Len(vs)
  BY <1>23
<1> HIDE DEF v, a, c, r, p, U, part
<1>13. S(vs) = (S(a) \o p) \o S(c)
  <2>1. <<v>> \in Seq(Vect) /\ AllThere(packets, buf, <<v>>) /\ S(<<v>>) = p
    BY <1>3, <1>5, StreamOne DEF p
  <2>2. a \o <<v>> \in Seq(Vect) /\ AllThere(packets, buf, a \o <<v>>)
    BY <2>1, <1>6, AllThereParts, ConcatProperties
  <2>3. S(a \o <<v>>) = S(a) \o p
    BY <2>1, <1>6, StreamConcat
  <2>4. S((a \o <<v>>) \o c) = S(a \o <<v>>) \o S(c)
    BY <2>2, <1>7, StreamConcat
  <2> HIDE DEF S
  <2> QED BY <2>3, <2>4, <1>10
<1>14. S(a) \in Seq(Unit) /\ S(c) \in Seq(Unit) /\ S(vs) \in Seq(Unit)
  BY <1>6, <1>7, StreamTyped
<1>15. SubSeq(S(vs), n + 1, Len(S(vs))) = SubSeq(p, part + 1, v.len) \o S(c)
  <2> HIDE DEF S
  <2>1. part <= Len(p) /\ n = Len(S(a)) + part
    BY <1>4, <1>11, <1>12, <1>20
  <2>2. PICK s : s = S(vs)
    OBVIOUS
  <2>3. s = (S(a) \o p) \o S(c)
    BY <2>2, <1>13
  <2>4. SubSeq(s, n + 1, Len(s)) = SubSeq(p, part + 1, Len(p)) \o S(c)
    <3>1. S(a) \in Seq(Unit) /\ p \in Seq(Unit) /\ S(c) \in Seq(Unit)
      BY <1>12, <1>14
    <3>2. part \in Nat
      BY <1>20
    <3>3. PICK b, d : b = S(a) /\ d = S(c)
      OBVIOUS
    <3>4. b \in Seq(Unit) /\ d \in Seq(Unit) /\ n = Len(b) + part /\ s = (b \o p) \o d
      BY <3>1, <3>3, <2>1, <2>3
    <3>5. Dropped(s, n) = Dropped(p, part) \o d
      <4>1. DropsTo(b, p, d, part)
        BY <3>1, <3>2, <3>4, <2>1, DropInSecond
      <4> QED BY <4>1, <3>4 DEF DropsTo
    <3> QED BY <3>3, <3>5 DEF Dropped
  <2> QED BY <2>2, <2>4, <1>12
<1>16. ws \in Seq(Vect) /\ AllThere(packets, buf, ws) /\ S(ws) = SubSeq(p, part + 1, v.len) \o S(c)
  <2>1. <<r>> \in Seq(Vect) /\ AllThere(packets, buf, <<r>>) /\ S(<<r>>) = SubSeq(p, part + 1, v.len)
    BY <1>9, StreamOne
  <2>2. ws \in Seq(Vect) /\ AllThere(packets, buf, ws)
    BY <2>1, <1>7, AllThereParts, ConcatProperties
  <2>3. S(ws) = S(<<r>>) \o S(c)
    BY <2>1, <1>7, StreamConcat
  <2> QED BY <2>1, <2>2, <2>3
<1>17. Len(ws) = Len(vs) - w /\ ws[1] = r /\ \A i \in 2 .. Len(vs) - w : ws[i] = c[i - 1]
  <2>1. <<r>> \in Seq(Vect) /\ Len(<<r>>) = 1 /\ <<r>>[1] = r
    BY <1>9
  <2>2. Len(ws) = 1 + Len(c) /\ \A i \in 1 .. 1 + Len(c) : ws[i] = IF i <= 1 THEN <<r>>[i] ELSE c[i - 1]
    BY <2>1, <1>7, ConcatProperties
  <2> HIDE DEF ws
  <2>3. 1 + Len(c) = Len(vs) - w /\ 1 \in 1 .. 1 + Len(c)
    BY <1>7, <1>0, <1>2, <1>3
  <2> QED BY <2>1, <2>2, <2>3, <1>0, <1>3
<1> HIDE DEF ws
<1>18. Len(ws) \in 1 .. Len(vs)
  BY <1>17, <1>0, <1>2, <1>3
<1>19. ASSUME NEW i \in 1 .. Len(ws)
       PROVE  \E j \in 1 .. Len(vs) : ws[i].of = vs[j].of /\ ws[i].from + ws[i].len = vs[j].from + vs[j].len
  <2>1. CASE i = 1
    <3>1. ws[i] = r
      BY <2>1, <1>17
    <3> QED BY <3>1, <1>21, <1>9
  <2>2. CASE i # 1
    <3>1. i \in 2 .. Len(vs) - w /\ i - 1 \in 1 .. Len(vs) - (w + 1) /\ w + 1 + (i - 1) = w + i /\ w + i \in 1 .. Len(vs)
      BY <2>2, <1>17, <1>0, <1>2, <1>3
    <3>2. ws[i] = vs[w + i]
      BY <3>1, <1>7, <1>17
    <3> QED BY <3>1, <3>2
  <2> QED BY <2>1, <2>2
<1>22. IsLeft(ws, packets, buf, vs, n)
  BY <1>15, <1>16, <1>18, <1>19 DEF IsLeft
<1> QED BY <1>8, <1>22

-----------------------------------------------------------------------------
(* What is queued.                                                         *)

\* The vectors that send_queued sends are a list that fits, of units that are there.
VectorsFit(packets) ==
    /\ Vectors \in Seq(Vect) /\ Len(Vectors) <= IndirectMax
    /\ AllThere(packets, tx.buf, Vectors)
    /\ Len(Vectors) = 0 => tx.iov = <<>> /\ tx.buf = <<>>
    /\ \A j \in 1 .. Len(Vectors) :
         \/ Vectors[j].of = None /\ Vectors[j].from + Vectors[j].len <= Len(tx.buf)
         \/ IsMessage(packets, Vectors[j].of)
         \/ Declared(packets, Vectors[j].of) /\ Alive(tx, Vectors[j].of)

\* With the last vector the list still fits, and it is sound.
LEMMA VectorsAre ==
    ASSUME NEW packets, TxSound(tx, packets)
    PROVE  VectorsFit(packets)
<1> DEFINE Fits(v) == \/ v.of = None /\ v.from + v.len <= Len(tx.buf)
                      \/ IsMessage(packets, v.of)
                      \/ Declared(packets, v.of) /\ Alive(tx, v.of)
<1>1. /\ tx.iov \in Seq(Vect) /\ tx.buf \in Seq(Unit) /\ tx.start \in Nat
      /\ Len(tx.iov) \in Nat /\ Len(tx.buf) \in Nat /\ DOMAIN tx.iov = 1 .. Len(tx.iov)
      /\ \A i \in 1 .. Len(tx.iov) : tx.iov[i] \in Vect
  BY TxFields DEF TxSound
<1>2. Sizes(tx) /\ \A i \in 1 .. Len(tx.iov) : Points(tx, packets, tx.iov[i])
  BY <1>1 DEF TxSound
<1>3. \A i \in 1 .. Len(tx.iov) : Fits(tx.iov[i])
  <2> TAKE i \in 1 .. Len(tx.iov)
  <2>1. Points(tx, packets, tx.iov[i]) /\ tx.iov[i].from + tx.iov[i].len \in Nat /\ tx.start <= Len(tx.buf)
    <3>1. \A v \in Vect : v.from + v.len \in Nat
      BY DEF Vect
    <3> QED BY <3>1, <1>1, <1>2 DEF Sizes
  <2> QED BY <2>1, <1>1 DEF Points
<1>4. CASE Len(tx.buf) > tx.start
  <2> DEFINE v == LastVector(tx)
  <2>1. v \in Vect /\ v.of = None /\ v.from + v.len <= Len(tx.buf)
    <3>1. None \in Ids
      BY Constants DEF None, Ids
    <3>2. PICK L, s : L = Len(tx.buf) /\ s = tx.start
      OBVIOUS
    <3>3. L \in Nat /\ s \in Nat /\ L > s
      BY <3>2, <1>1, <1>4
    <3>4. v = [of |-> None, from |-> s, len |-> L - s]
      BY <3>2 DEF LastVector, Vector
    <3>5. L - s \in Nat \ {0} /\ s + (L - s) <= L
      BY <3>3
    <3> QED BY <3>1, <3>2, <3>3, <3>4, <3>5 DEF Vect
  <2>2. Vectors = Append(tx.iov, v)
    BY <1>4 DEF Vectors
  <2> HIDE DEF v
  <2>3. /\ Vectors \in Seq(Vect) /\ Len(Vectors) = Len(tx.iov) + 1
        /\ \A i \in 1 .. Len(tx.iov) : Vectors[i] = tx.iov[i]
        /\ Vectors[Len(tx.iov) + 1] = v
    BY <2>1, <2>2, <1>1, AppendProperties
  <2>4. Len(Vectors) <= IndirectMax
    BY <2>3, <1>1, <1>2, <1>4, Constants DEF Sizes
  <2>5. \A j \in 1 .. Len(Vectors) : Fits(Vectors[j])
    <3> TAKE j \in 1 .. Len(Vectors)
    <3>1. CASE j \in 1 .. Len(tx.iov)
      BY <3>1, <2>3, <1>3
    <3>2. CASE j = Len(tx.iov) + 1
      BY <3>2, <2>1, <2>3
    <3> QED BY <3>1, <3>2, <2>3, <1>1
  <2>6. DOMAIN Vectors = 1 .. Len(Vectors)
    BY <2>3, LenProperties
  <2>7. AllThere(packets, tx.buf, Vectors)
    BY <2>5, <2>6 DEF AllThere, There
  <2>8. Len(Vectors) # 0
    BY <2>3, <1>1
  <2> QED BY <2>3, <2>4, <2>5, <2>7, <2>8 DEF VectorsFit
<1>5. CASE ~(Len(tx.buf) > tx.start)
  <2>1. Vectors = tx.iov
    BY <1>5 DEF Vectors
  <2>2. AllThere(packets, tx.buf, tx.iov)
    BY <1>3, <1>1 DEF AllThere, There
  <2>3. Len(tx.iov) = 0 => tx.iov = <<>> /\ tx.buf = <<>>
    <3> SUFFICES ASSUME Len(tx.iov) = 0 PROVE tx.iov = <<>> /\ tx.buf = <<>>
      OBVIOUS
    <3>1. tx.iov = <<>>
      BY <1>1, EmptySeq
    <3>2. Len(tx.buf) = 0
      BY <3>1, <1>1, <1>2, <1>5 DEF Sizes
    <3> QED BY <3>1, <3>2, <1>1, EmptySeq
  <2>4. Len(tx.iov) <= IndirectMax
    BY <1>2 DEF Sizes
  <2> QED BY <2>1, <2>2, <2>3, <2>4, <1>1, <1>3 DEF VectorsFit
<1> QED BY <1>4, <1>5

\* What is queued is what they point to; it is empty when there is none.
LEMMA QueuedIs ==
    ASSUME op.packets \in Packets, TxSound(tx, op.packets)
    PROVE  /\ Queued = Stream(op.packets, tx.buf, Vectors)
           /\ Queued \in Seq(Unit)
           /\ Queued = <<>> => tx.iov = <<>> /\ tx.buf = <<>>
<1>1. /\ Vectors \in Seq(Vect) /\ AllThere(op.packets, tx.buf, Vectors)
      /\ (Len(Vectors) = 0 => tx.iov = <<>> /\ tx.buf = <<>>)
  BY VectorsAre DEF VectorsFit
<1>2. tx.buf \in Seq(Unit)
  BY TxFields DEF TxSound
<1>3. Queued = Stream(op.packets, tx.buf, Vectors)
  BY DEF Queued, Stream, Pointeds, Pointed, PointedIn, MuxOf, MuxIn
<1>4. Queued \in Seq(Unit)
  BY <1>1, <1>2, <1>3, StreamTyped
<1>5. ASSUME Queued = <<>> PROVE Len(Vectors) = 0
  <2>1. SUFFICES ASSUME Len(Vectors) # 0 PROVE FALSE
    OBVIOUS
  <2>2. Len(Vectors) \in Nat \ {0}
    BY <2>1, <1>1, LenProperties
  <2>3. SubSeq(Vectors, 1, Len(Vectors)) = Vectors
    BY <1>1, SubSeqFull
  <2>4. UnitsBefore(Vectors, Len(Vectors)) = 0
    <3>1. Len(Stream(op.packets, tx.buf, SubSeq(Vectors, 1, Len(Vectors)))) = UnitsBefore(Vectors, Len(Vectors))
      BY <1>1, <1>2, <2>2, StreamUnits
    <3>2. Stream(op.packets, tx.buf, SubSeq(Vectors, 1, Len(Vectors))) = <<>>
      BY <2>3, <1>3, <1>5
    <3>3. Len(Stream(op.packets, tx.buf, SubSeq(Vectors, 1, Len(Vectors)))) = 0
      BY <3>2
    <3> QED BY <3>1, <3>3
  <2> DEFINE k == Len(Vectors) - 1
  <2>5. k \in Nat /\ k < Len(Vectors) /\ k <= Len(Vectors) /\ k + 1 = Len(Vectors)
    BY <2>2
  <2> HIDE DEF k
  <2>6. UnitsBefore(Vectors, k) \in Nat /\ Vectors[k + 1] \in Vect
        /\ UnitsBefore(Vectors, k + 1) = UnitsBefore(Vectors, k) + Vectors[k + 1].len
    BY <2>5, <1>1, UnitsCount
  <2>7. Vectors[k + 1].len \in Nat \ {0}
    BY <2>6 DEF Vect
  <2> QED BY <2>4, <2>5, <2>6, <2>7
<1> QED BY <1>1, <1>3, <1>4, <1>5

\* The kernel takes n units of what is queued.
LEMMA TakenSound ==
    ASSUME op.packets \in Packets, TxSound(tx, op.packets), NEW n \in Nat, n <= Len(Queued)
    PROVE  TxSound(Taken(n), op.packets)
<1>0. /\ tx \in TxQueue /\ tx.buf \in Seq(Unit) /\ Len(tx.buf) \in Nat /\ Len(Queued) \in Nat /\ Sizes(tx)
      /\ FifosKnown(tx, op.packets)
  BY TxFields, QueuedIs DEF TxSound
<1>1. CASE n = Len(Queued)
  <2> DEFINE r == Taken(n)
  <2>1. r = [tx EXCEPT !.iov = <<>>, !.buf = <<>>, !.start = 0, !.done = {}]
    BY <1>1 DEF Taken
  <2>2. <<>> \in Seq(Vect) /\ <<>> \in Seq(Unit)
    OBVIOUS
  <2> HIDE DEF r
  <2>3. r \in TxQueue /\ r.iov = <<>> /\ r.buf = <<>> /\ r.start = 0 /\ r.fifos = tx.fifos /\ r.next = tx.next
    BY <2>1, <2>2, <1>0 DEF TxQueue
  <2>4. Sizes(r)
    <3>1. Len(r.iov) = 0 /\ Len(r.buf) = 0
      BY <2>3
    <3> QED BY <3>1, <2>3, Constants DEF Sizes
  <2>5. FifosKnown(r, op.packets)
    BY <2>3, <1>0 DEF FifosKnown
  <2>6. \A i \in DOMAIN r.iov : Points(r, op.packets, r.iov[i])
    BY <2>3
  <2>7. TxSound(r, op.packets)
    BY <2>3, <2>4, <2>5, <2>6 DEF TxSound
  <2> QED BY <2>7 DEF r
<1>2. CASE n # Len(Queued)
  <2> DEFINE ws == Without(Vectors, n)
             r == Taken(n)
  <2>1. VectorsFit(op.packets)
    BY VectorsAre
  <2>2. IsLeft(ws, op.packets, tx.buf, Vectors, n)
    <3>1. n < Len(Stream(op.packets, tx.buf, Vectors))
      BY <1>0, <1>2, QueuedIs
    <3> QED BY <3>1, <2>1, <1>0, WithoutStream DEF VectorsFit
  <2> HIDE DEF ws
  <2>3. /\ ws \in Seq(Vect) /\ Len(ws) \in 1 .. Len(Vectors) /\ Len(Vectors) \in Nat /\ Len(ws) <= IndirectMax
        /\ ws # <<>> /\ DOMAIN ws = 1 .. Len(ws)
    <3>1. ws \in Seq(Vect) /\ Len(ws) \in 1 .. Len(Vectors)
      BY <2>2 DEF IsLeft
    <3>2. Len(Vectors) \in Nat /\ Len(Vectors) <= IndirectMax
      BY <2>1, LenProperties DEF VectorsFit
    <3>3. ws # <<>>
      BY <3>1
    <3> QED BY <3>1, <3>2, <3>3, LenProperties, Constants
  <2>4. r = Requeued(tx, ws, tx.buf, Len(tx.buf))
    BY <1>2, <1>0 DEF Taken, Requeued, ws, TxQueue
  <2> HIDE DEF r
  <2>5. IsRequeued(r, tx, ws, tx.buf, Len(tx.buf))
    BY <2>3, <2>4, <1>0, TxUpdated
  <2>6. /\ r \in TxQueue /\ r.iov = ws /\ r.buf = tx.buf /\ r.start = Len(tx.buf)
        /\ r.fifos = tx.fifos /\ r.next = tx.next /\ r.done = tx.done
    BY <2>5 DEF IsRequeued
  <2>7. Sizes(r)
    BY <2>3, <2>6, <1>0 DEF Sizes
  <2>8. FifosKnown(r, op.packets)
    BY <2>6, <1>0 DEF FifosKnown
  <2>9. ASSUME NEW i \in DOMAIN r.iov PROVE Points(r, op.packets, r.iov[i])
    <3>1. i \in 1 .. Len(ws) /\ r.iov[i] = ws[i]
      BY <2>3, <2>6
    <3>2. PICK j \in 1 .. Len(Vectors) : ws[i].of = Vectors[j].of /\ ws[i].from + ws[i].len = Vectors[j].from + Vectors[j].len
      BY <3>1, <2>2 DEF IsLeft
    <3>3. \/ Vectors[j].of = None /\ Vectors[j].from + Vectors[j].len <= Len(tx.buf)
          \/ IsMessage(op.packets, Vectors[j].of)
          \/ Declared(op.packets, Vectors[j].of) /\ Alive(tx, Vectors[j].of)
      BY <2>1 DEF VectorsFit
    <3> QED BY <3>1, <3>2, <3>3, <2>6 DEF Points, Alive
  <2>10. TxSound(r, op.packets)
    BY <2>6, <2>7, <2>8, <2>9 DEF TxSound
  <2> QED BY <2>10 DEF r
<1> QED BY <1>1, <1>2

-----------------------------------------------------------------------------
(* The inductive invariant of the transmit queue and of the types.         *)

Ops == [pc : {"idle", "fill", "push", "load", "write", "space", "drain", "answer", "poll", "down"},
        packets : Packets, sent : Nat, done : Nat, connection : Nat \ {0}]

\* The call: a sender has a packet to send, a reader one to receive the answer of.
OpSound ==
    /\ op \in Ops
    /\ op.done <= op.sent /\ op.sent <= Len(op.packets)
    /\ op.pc \in {"fill", "push", "load", "write", "space", "drain"} => op.sent < Len(op.packets)
    /\ op.pc \in {"answer", "poll"} => op.done < op.sent

\* Nothing is queued between calls and while receiving; in the first connection no
\* FIFO is left either.
Rested ==
    /\ op.pc \in {"idle", "answer", "poll", "down"} => tx.iov = <<>> /\ tx.buf = <<>>
    /\ op.connection = 1 /\ op.pc \in {"idle", "answer", "poll"} => tx.fifos = <<>>

RxFifo == [id : Ids, len : Nat, got : Seq(Unit)]
Receivers == [head : Seq(Unit), data : Seq(Unit), to : Ids, mux0 : BOOLEAN, fifos : Seq(RxFifo), full : SUBSET RxFifo]

\* The receiver: data after a header of two units, no more than it says; and a
\* FIFO that m_rxpacket points into is the first of the queue.
RxSound ==
    /\ rx \in Receivers
    /\ Len(rx.head) <= 2
    /\ IF Len(rx.head) = 2 THEN Len(rx.data) <= rx.head[1].len ELSE rx.data = <<>>
    /\ IntoLiveFifo
    /\ op.pc = "poll" /\ HasData(rx) => rx.to = None

Peers == [patient : BOOLEAN, first : Nat, heard : Seq(Unit), taken : Nat, reply : Seq(Unit), in : Seq(Unit),
          answered : Nat]

\* The server: it has read no more than was written, and the kernel holds the rest.
PeerSound ==
    /\ peer \in Peers
    /\ peer.taken <= Len(peer.heard) /\ Len(peer.heard) - peer.taken <= Window

Inv ==
    /\ OpSound
    /\ TxSound(tx, op.packets)
    /\ Rested
    /\ RxSound
    /\ PeerSound

\* It is what the property says.
LEMMA InvQueueSound == Inv => QueueSound
<1> SUFFICES ASSUME Inv PROVE QueueSound
  OBVIOUS
<1>0. op \in Ops /\ op.packets \in Packets /\ op.sent \in Nat /\ op.done \in Nat
  BY DEF Inv, OpSound, Ops
<1>1. /\ tx \in TxQueue /\ tx.iov \in Seq(Vect) /\ tx.buf \in Seq(Unit) /\ tx.start \in Nat /\ Len(tx.buf) \in Nat
      /\ tx.next \in Ids /\ tx.done \subseteq Ids /\ Sizes(tx) /\ FifosKnown(tx, op.packets)
      /\ DOMAIN tx.fifos = 1 .. Len(tx.fifos) /\ DOMAIN tx.iov = 1 .. Len(tx.iov)
      /\ \A i \in 1 .. Len(tx.fifos) : tx.fifos[i] \in TxFifo
  BY TxFields DEF Inv, TxSound
<1>2. TypeOK
  <2>1. tx.iov \in Seq([of : Ids, from : Nat, len : Nat \ {0}])
    BY <1>1 DEF Vect
  <2>2. tx.start \in 0 .. Len(tx.buf)
    BY <1>1 DEF Sizes
  <2>3. \A i \in DOMAIN tx.fifos : tx.fifos[i].pos \in 0 .. tx.fifos[i].len
    <3> TAKE i \in DOMAIN tx.fifos
    <3>1. tx.fifos[i] \in TxFifo /\ tx.fifos[i].pos <= tx.fifos[i].len
      BY ZenonT(30), <1>1 DEF FifosKnown, AsDeclared
    <3>2. tx.fifos[i].pos \in Nat /\ tx.fifos[i].len \in Nat
      BY <3>1 DEF TxFifo
    <3> QED BY <3>1, <3>2
  <2>4. rx.head \in Seq(Unit) /\ rx.data \in Seq(Unit) /\ rx.to \in Ids /\ rx.mux0 \in BOOLEAN
    BY DEF Inv, RxSound, Receivers
  <2>5. peer.heard \in Seq(Unit) /\ peer.reply \in Seq(Unit) /\ peer.in \in Seq(Unit)
    BY DEF Inv, PeerSound, Peers
  <2>6. op.done <= op.sent /\ op.sent <= Len(op.packets)
    BY DEF Inv, OpSound
  <2> QED BY <2>1, <2>2, <2>3, <2>4, <2>5, <2>6, <1>1 DEF TypeOK
<1>3. QueueFits
  <2>1. Len(Vectors) <= IndirectMax
    BY VectorsAre DEF Inv, VectorsFit
  <2>2. Len(tx.buf) <= BufferSize
    BY <1>1 DEF Sizes
  <2>3. ASSUME Unbroken, op.pc \in {"idle", "answer", "poll"} PROVE Queued = <<>> /\ tx.fifos = <<>>
    <3>1. tx.iov = <<>> /\ tx.buf = <<>> /\ tx.fifos = <<>>
      BY <2>3 DEF Inv, Rested, Unbroken
    <3>2. Len(tx.buf) = 0
      BY <3>1
    <3>3. Vectors = <<>>
      BY <3>1, <3>2, <1>1 DEF Vectors
    <3>4. Queued = <<>>
      BY <3>3, <1>0, QueuedIs, StreamEmpty DEF Inv
    <3> QED BY <3>1, <3>4
  <2> QED BY <2>1, <2>2, <2>3 DEF QueueFits
<1>4. VectorsAlive
  <2> SUFFICES ASSUME NEW i \in DOMAIN tx.iov, tx.iov[i].of[2] > 0
               PROVE  tx.iov[i].of \in tx.done \cup {tx.fifos[j].id : j \in DOMAIN tx.fifos}
    BY DEF VectorsAlive
  <2>1. Points(tx, op.packets, tx.iov[i])
    BY DEF Inv, TxSound
  <2>2. tx.iov[i].of # None /\ ~IsMessage(op.packets, tx.iov[i].of)
    BY DEF None, IsMessage
  <2> QED BY <2>1, <2>2 DEF Points, Alive
<1> QED BY <1>2, <1>3, <1>4 DEF QueueSound

-----------------------------------------------------------------------------
(* Every action keeps it: first what the call does.                        *)

\* The call goes on, or ends.
Calls(pc, sent, done) ==
    /\ op'.pc = pc /\ op'.packets = op.packets /\ op'.sent = sent /\ op'.done = done
    /\ op'.connection = op.connection

\* The parts of a call.
LEMMA OpTyped ==
    ASSUME OpSound
    PROVE  /\ op \in Ops /\ op.packets \in Packets /\ op.packets \in Seq(Shapes) /\ Len(op.packets) \in Nat
           /\ Len(op.packets) <= MaxPackets /\ DOMAIN op.packets = 1 .. Len(op.packets)
           /\ op.sent \in Nat /\ op.done \in Nat /\ op.connection \in Nat \ {0}
<1>1. op \in Ops
  BY DEF OpSound
<1>2. op.packets \in Packets /\ op.sent \in Nat /\ op.done \in Nat /\ op.connection \in Nat \ {0}
  BY <1>1 DEF Ops
<1>3. op.packets \in Seq(Shapes) /\ Len(op.packets) <= MaxPackets
  BY <1>2 DEF Packets
<1> QED BY <1>1, <1>2, <1>3, LenProperties

\* It goes on with the same packets,
LEMMA GoesOn ==
    ASSUME OpSound, NEW p, Goto(p),
           p \in {"idle", "fill", "push", "load", "write", "space", "drain", "answer", "poll"},
           p \in {"fill", "push", "load", "write", "space", "drain"} => op.sent < Len(op.packets),
           p \in {"answer", "poll"} => op.done < op.sent
    PROVE  OpSound' /\ Calls(p, op.sent, op.done)
<1>1. op \in Ops /\ op.packets \in Packets /\ op.sent \in Nat /\ op.done \in Nat /\ op.connection \in Nat \ {0}
  BY OpTyped
<1>2. op' = [op EXCEPT !.pc = p]
  BY DEF Goto
<1>3. op' = [pc |-> p, packets |-> op.packets, sent |-> op.sent, done |-> op.done, connection |-> op.connection]
  BY <1>1, <1>2 DEF Ops
<1>4. op' \in Ops
  BY <1>1, <1>3 DEF Ops
<1>5. Calls(p, op.sent, op.done)
  BY <1>3 DEF Calls
<1> QED BY <1>4, <1>5 DEF OpSound, Calls

\* is done with the oldest,
LEMMA Ends ==
    ASSUME OpSound, Finish, op.done < op.sent
    PROVE  OpSound' /\ Calls("idle", op.sent, op.done + 1)
<1>1. op \in Ops /\ op.packets \in Packets /\ op.sent \in Nat /\ op.done \in Nat /\ op.connection \in Nat \ {0}
  BY OpTyped
<1>2. op' = [op EXCEPT !.pc = "idle", !.done = @ + 1]
  BY DEF Finish
<1>3. op' = [pc |-> "idle", packets |-> op.packets, sent |-> op.sent, done |-> op.done + 1, connection |-> op.connection]
  BY <1>1, <1>2 DEF Ops
<1>4. op' \in Ops
  BY <1>1, <1>3 DEF Ops
<1>5. Calls("idle", op.sent, op.done + 1)
  BY <1>3 DEF Calls
<1>6. op.done + 1 <= op.sent
  BY <1>1
<1> QED BY <1>4, <1>5, <1>6 DEF OpSound, Calls

\* or has sent the newest.
LEMMA IsSent ==
    ASSUME OpSound, op' = [op EXCEPT !.pc = "idle", !.sent = @ + 1], op.sent < Len(op.packets)
    PROVE  OpSound' /\ Calls("idle", op.sent + 1, op.done)
<1>1. op \in Ops /\ op.packets \in Packets /\ op.sent \in Nat /\ op.done \in Nat /\ op.connection \in Nat \ {0}
      /\ Len(op.packets) \in Nat
  BY OpTyped
<1>3. op' = [pc |-> "idle", packets |-> op.packets, sent |-> op.sent + 1, done |-> op.done, connection |-> op.connection]
  BY <1>1 DEF Ops
<1>4. op' \in Ops
  BY <1>1, <1>3 DEF Ops
<1>5. Calls("idle", op.sent + 1, op.done)
  BY <1>3 DEF Calls
<1>6. op.sent + 1 <= Len(op.packets) /\ op.done <= op.sent + 1
  BY <1>1 DEF OpSound
<1> QED BY <1>4, <1>5, <1>6 DEF OpSound, Calls

\* A receiver and a server that are left alone stay as they are.
LEMMA RxKept ==
    ASSUME RxSound, UNCHANGED rx, op'.packets = op.packets, op'.done = op.done,
           op'.pc = "poll" => op.pc = "poll"
    PROVE  RxSound'
BY DEF RxSound, IntoLiveFifo, HasData, Oldest

\* So does a server.
LEMMA PeerKept == ASSUME PeerSound, UNCHANGED peer PROVE PeerSound'
BY DEF PeerSound

\* A queue that is left alone is sound for the same packets.
LEMMA TxKept ==
    ASSUME TxSound(tx, op.packets), UNCHANGED tx, op'.packets = op.packets
    PROVE  TxSound(tx, op.packets)'
OBVIOUS

\* The FIFOs of a packet.
LEMMA FifosTyped ==
    ASSUME NEW n \in 1 .. MaxPackets, NEW shape \in Shapes
    PROVE  /\ Fifos(n, shape) \in Seq(TxFifo) /\ Len(Fifos(n, shape)) = Len(shape.write)
           /\ RxFifos(n, shape) \in Seq(RxFifo) /\ Len(RxFifos(n, shape)) = Len(shape.read)
           /\ DOMAIN shape.write = 1 .. Len(shape.write) /\ Len(shape.write) \in Nat
           /\ DOMAIN shape.read = 1 .. Len(shape.read) /\ Len(shape.read) \in Nat
           /\ \A k \in 1 .. Len(shape.write) :
                 Fifos(n, shape)[k] = [id |-> <<n, k>>, mux |-> shape.write[k].mux, len |-> shape.write[k].len,
                                       pos |-> 0, interleave |-> shape.write[k].interleave]
           /\ \A k \in 1 .. Len(shape.read) :
                 RxFifos(n, shape)[k] = [id |-> <<n, k>>, len |-> shape.read[k], got |-> <<>>]
<1> DEFINE W == [mux : 4 .. 15, len : Nat \ {0}, interleave : BOOLEAN]
<1>0. shape \in Shape /\ n \in Nat /\ MaxPackets \in Nat
  BY Constants
<1>1. shape.write \in Seq(W) /\ shape.read \in Seq(1 .. PacketMax)
  BY <1>0 DEF Shape
<1> HIDE DEF W
<1>2. /\ DOMAIN shape.write = 1 .. Len(shape.write) /\ Len(shape.write) \in Nat
      /\ \A k \in 1 .. Len(shape.write) : shape.write[k] \in W
  BY <1>1, LenProperties, ElementOfSeq
<1>3. /\ DOMAIN shape.read = 1 .. Len(shape.read) /\ Len(shape.read) \in Nat
      /\ \A k \in 1 .. Len(shape.read) : shape.read[k] \in 1 .. PacketMax
  BY <1>1, LenProperties, ElementOfSeq
<1>4. \A k \in Nat : <<n, k>> \in Ids
  BY <1>0 DEF Ids
<1>5. \A k \in 1 .. Len(shape.write) :
         [id |-> <<n, k>>, mux |-> shape.write[k].mux, len |-> shape.write[k].len,
          pos |-> 0, interleave |-> shape.write[k].interleave] \in TxFifo
  BY <1>2, <1>4 DEF TxFifo, W
<1>6. Fifos(n, shape) = [k \in 1 .. Len(shape.write) |->
         [id |-> <<n, k>>, mux |-> shape.write[k].mux, len |-> shape.write[k].len,
          pos |-> 0, interleave |-> shape.write[k].interleave]]
  BY <1>2 DEF Fifos
<1>7. \A k \in 1 .. Len(shape.read) : [id |-> <<n, k>>, len |-> shape.read[k], got |-> <<>>] \in RxFifo
  <2>1. <<>> \in Seq(Unit)
    OBVIOUS
  <2>2. \A k \in 1 .. Len(shape.read) : shape.read[k] \in Nat /\ k \in Nat
    BY <1>3, Constants
  <2> QED BY <2>1, <2>2, <1>4 DEF RxFifo
<1>8. RxFifos(n, shape) = [k \in 1 .. Len(shape.read) |-> [id |-> <<n, k>>, len |-> shape.read[k], got |-> <<>>]]
  BY <1>3 DEF RxFifos
<1>9. Fifos(n, shape) \in Seq(TxFifo) /\ Len(Fifos(n, shape)) = Len(shape.write)
  BY <1>2, <1>5, <1>6
<1>10. RxFifos(n, shape) \in Seq(RxFifo) /\ Len(RxFifos(n, shape)) = Len(shape.read)
  BY <1>3, <1>7, <1>8
<1> QED BY <1>2, <1>3, <1>6, <1>8, <1>9, <1>10

\* Two lists, one after the other.
IsJoined(s, a, b, T) ==
    /\ s \in Seq(T) /\ Len(s) = Len(a) + Len(b) /\ DOMAIN s = 1 .. Len(s) /\ Len(s) \in Nat
    /\ Len(a) \in Nat /\ Len(b) \in Nat /\ DOMAIN a = 1 .. Len(a) /\ DOMAIN b = 1 .. Len(b)
    /\ \A i \in 1 .. Len(a) : i \in 1 .. Len(s) /\ s[i] = a[i] /\ a[i] \in T
    /\ \A i \in 1 .. Len(b) : Len(a) + i \in 1 .. Len(s) /\ s[Len(a) + i] = b[i] /\ b[i] \in T
    /\ \A i \in 1 .. Len(s) : i \in 1 .. Len(a) \/ \E k \in 1 .. Len(b) : i = Len(a) + k
    /\ a # <<>> => s # <<>> /\ s[1] = a[1]
\* The members of two lists, one after the other.
LEMMA Joined ==
    ASSUME NEW T, NEW a \in Seq(T), NEW b \in Seq(T)
    PROVE  IsJoined(a \o b, a, b, T)
<1> DEFINE s == a \o b
<1>1. /\ s \in Seq(T) /\ Len(s) = Len(a) + Len(b)
      /\ \A i \in 1 .. Len(a) + Len(b) : s[i] = IF i <= Len(a) THEN a[i] ELSE b[i - Len(a)]
  BY ConcatProperties
<1> HIDE DEF s
<1>2. /\ DOMAIN s = 1 .. Len(s) /\ Len(s) \in Nat /\ Len(a) \in Nat /\ Len(b) \in Nat
      /\ DOMAIN a = 1 .. Len(a) /\ DOMAIN b = 1 .. Len(b)
      /\ (\A i \in 1 .. Len(a) : a[i] \in T) /\ (\A i \in 1 .. Len(b) : b[i] \in T)
  BY <1>1, LenProperties, ElementOfSeq
<1>3. \A i \in 1 .. Len(a) : i \in 1 .. Len(s) /\ s[i] = a[i]
  BY <1>1, <1>2
<1>4. ASSUME NEW i \in 1 .. Len(b) PROVE Len(a) + i \in 1 .. Len(s) /\ s[Len(a) + i] = b[i]
  <2>1. Len(a) + i \in 1 .. Len(a) + Len(b) /\ ~(Len(a) + i <= Len(a)) /\ Len(a) + i - Len(a) = i
    BY <1>2
  <2>2. PICK k : k = Len(a) + i
    OBVIOUS
  <2>3. k \in 1 .. Len(a) + Len(b) /\ ~(k <= Len(a)) /\ k - Len(a) = i
    BY <2>1, <2>2
  <2>4. s[k] = b[i] /\ k \in 1 .. Len(s)
    BY <2>3, <1>1
  <2> QED BY <2>2, <2>4
<1>5. ASSUME NEW i \in 1 .. Len(s), i \notin 1 .. Len(a) PROVE \E k \in 1 .. Len(b) : i = Len(a) + k
  <2>1. i - Len(a) \in 1 .. Len(b) /\ i = Len(a) + (i - Len(a))
    BY <1>1, <1>2, <1>5
  <2> QED BY <2>1
<1>6. ASSUME a # <<>> PROVE s # <<>> /\ s[1] = a[1]
  <2>1. 1 \in 1 .. Len(a)
    BY <1>2, <1>6, EmptySeq
  <2>2. s[1] = a[1] /\ Len(s) # 0
    BY <2>1, <1>1, <1>2, <1>3
  <2>3. s # <<>>
    BY <2>2
  <2> QED BY <2>2, <2>3
<1>7. IsJoined(s, a, b, T)
  BY <1>1, <1>2, <1>3, <1>4, <1>5, <1>6 DEF IsJoined
<1> QED BY <1>7 DEF s

\* One more packet of commands: what is known of the others is known still.
LEMMA MoreDeclared ==
    ASSUME NEW packets \in Seq(Shapes), NEW shape \in Shapes, NEW more, more = Append(packets, shape)
    PROVE  /\ more \in Seq(Shapes) /\ Len(more) = Len(packets) + 1
           /\ DOMAIN more = 1 .. Len(packets) + 1 /\ DOMAIN packets = 1 .. Len(packets) /\ Len(packets) \in Nat
           /\ more[Len(packets) + 1] = shape
           /\ \A i \in 1 .. Len(packets) : more[i] = packets[i]
BY AppendProperties, LenProperties

\* The FIFOs of a new packet join the queue of an empty buffer.
LEMMA JoinedSound ==
    ASSUME NEW packets \in Packets, NEW shape \in Shapes, Len(packets) < MaxPackets,
           TxSound(tx, packets), tx.iov = <<>>, tx.buf = <<>>,
           NEW t, t = [tx EXCEPT !.fifos = @ \o Fifos(Len(packets) + 1, shape)]
    PROVE  /\ TxSound(t, Append(packets, shape)) /\ t.iov = <<>> /\ t.buf = <<>>
           /\ t.fifos = tx.fifos \o Fifos(Len(packets) + 1, shape)
<1> DEFINE n == Len(packets) + 1
           more == Append(packets, shape)
           new == Fifos(n, shape)
           fs == tx.fifos \o new
<1>0. n \in 1 .. MaxPackets /\ Len(packets) \in Nat
  BY Constants, LenProperties DEF Packets
<1>1. /\ Len(more) = n /\ DOMAIN more = 1 .. n /\ DOMAIN packets = 1 .. Len(packets)
      /\ more[n] = shape /\ \A i \in 1 .. Len(packets) : more[i] = packets[i]
  BY MoreDeclared DEF Packets
<1>2. /\ new \in Seq(TxFifo) /\ Len(new) = Len(shape.write)
      /\ DOMAIN shape.write = 1 .. Len(shape.write) /\ Len(shape.write) \in Nat
      /\ \A k \in 1 .. Len(shape.write) :
           new[k] = [id |-> <<n, k>>, mux |-> shape.write[k].mux, len |-> shape.write[k].len,
                     pos |-> 0, interleave |-> shape.write[k].interleave]
  BY <1>0, FifosTyped
<1>3. /\ tx \in TxQueue /\ tx.fifos \in Seq(TxFifo) /\ Len(tx.fifos) \in Nat
      /\ DOMAIN tx.fifos = 1 .. Len(tx.fifos) /\ FifosKnown(tx, packets) /\ Sizes(tx)
  BY TxFields DEF TxSound
<1> HIDE DEF new, more
<1>4. IsJoined(fs, tx.fifos, new, TxFifo)
  BY <1>2, <1>3, Joined
<1>5. t = [tx EXCEPT !.fifos = fs]
  BY DEF new
<1> HIDE DEF fs
<1>6. t \in TxQueue /\ t.fifos = fs /\ t.iov = tx.iov /\ t.buf = tx.buf /\ t.start = tx.start /\ t.next = tx.next
  BY ZenonT(30), <1>3, <1>4, <1>5 DEF TxQueue, IsJoined
<1>7. \A i \in 1 .. Len(tx.fifos) : AsDeclared(packets, tx.fifos[i]) /\ tx.fifos[i].id[1] \in 1 .. Len(packets)
  BY ZenonT(30), <1>1, <1>3 DEF FifosKnown, AsDeclared, Declared
<1>8. \A i \in DOMAIN fs : \/ i \in 1 .. Len(tx.fifos) /\ fs[i] = tx.fifos[i]
                           \/ \E k \in 1 .. Len(shape.write) : i = Len(tx.fifos) + k /\ fs[i] = new[k]
  <2> TAKE i \in DOMAIN fs
  <2>1. i \in 1 .. Len(tx.fifos) \/ \E k \in 1 .. Len(new) : i = Len(tx.fifos) + k
    BY <1>4 DEF IsJoined
  <2>2. CASE i \in 1 .. Len(tx.fifos)
    BY <2>2, <1>4 DEF IsJoined
  <2>3. ASSUME NEW k \in 1 .. Len(new), i = Len(tx.fifos) + k PROVE k \in 1 .. Len(shape.write) /\ fs[i] = new[k]
    <3>1. fs[Len(tx.fifos) + k] = new[k]
      BY <1>4 DEF IsJoined
    <3> QED BY <3>1, <2>3, <1>2
  <2> QED BY <2>1, <2>2, <2>3
<1>9. \A k \in 1 .. Len(shape.write) : /\ AsDeclared(more, new[k]) /\ new[k].id = <<n, k>>
  <2> TAKE k \in 1 .. Len(shape.write)
  <2> DEFINE w == shape.write[k]
  <2>1. new[k] = [id |-> <<n, k>>, mux |-> w.mux, len |-> w.len, pos |-> 0, interleave |-> w.interleave]
    BY <1>2
  <2>2. w.len \in Nat
    <3>1. new[k] \in TxFifo
      BY <1>2, ElementOfSeq
    <3>2. new[k].len \in Nat
      BY <3>1 DEF TxFifo
    <3>3. new[k].len = w.len
      BY <2>1
    <3> QED BY <3>2, <3>3
  <2>3. /\ new[k].id = <<n, k>> /\ new[k].mux = w.mux /\ new[k].len = w.len /\ new[k].pos = 0
        /\ new[k].interleave = w.interleave
    BY <2>1
  <2>4. more[n].write[k] = w /\ n \in DOMAIN more /\ k \in DOMAIN more[n].write
    BY <1>0, <1>1, <1>2
  <2> HIDE DEF w, n
  <2>5. Declared(more, <<n, k>>)
    BY <2>4 DEF Declared
  <2> QED BY <2>2, <2>3, <2>4, <2>5 DEF AsDeclared
<1>10. \A i \in 1 .. Len(tx.fifos) : AsDeclared(more, tx.fifos[i])
  <2> TAKE i \in 1 .. Len(tx.fifos)
  <2>1. AsDeclared(packets, tx.fifos[i]) /\ tx.fifos[i].id[1] \in 1 .. Len(packets)
    BY <1>7
  <2>2. more[tx.fifos[i].id[1]] = packets[tx.fifos[i].id[1]] /\ tx.fifos[i].id[1] \in DOMAIN more
    BY <2>1, <1>0, <1>1
  <2> QED BY ZenonT(30), <2>1, <2>2 DEF AsDeclared, Declared
<1>11. FifosKnown(t, more)
  <2>1. \A i \in DOMAIN fs : AsDeclared(more, fs[i])
    BY <1>8, <1>9, <1>10
  <2>2. \A i, j \in DOMAIN fs : fs[i].id = fs[j].id => i = j
    <3> TAKE i, j \in DOMAIN fs
    <3> HAVE fs[i].id = fs[j].id
    <3>1. CASE i \in 1 .. Len(tx.fifos) /\ fs[i] = tx.fifos[i] /\ j \in 1 .. Len(tx.fifos) /\ fs[j] = tx.fifos[j]
      BY <3>1, <1>3 DEF FifosKnown
    <3>2. ASSUME NEW k \in 1 .. Len(shape.write), i = Len(tx.fifos) + k, fs[i] = new[k],
                 j \in 1 .. Len(tx.fifos), fs[j] = tx.fifos[j]
          PROVE  i = j
      <4>1. fs[i].id[1] = n /\ fs[j].id[1] \in 1 .. Len(packets)
        BY <3>2, <1>7, <1>9
      <4> QED BY <4>1, <1>0
    <3>3. ASSUME NEW k \in 1 .. Len(shape.write), j = Len(tx.fifos) + k, fs[j] = new[k],
                 i \in 1 .. Len(tx.fifos), fs[i] = tx.fifos[i]
          PROVE  i = j
      <4>1. fs[j].id[1] = n /\ fs[i].id[1] \in 1 .. Len(packets)
        BY <3>3, <1>7, <1>9
      <4> QED BY <4>1, <1>0
    <3>4. ASSUME NEW k \in 1 .. Len(shape.write), i = Len(tx.fifos) + k, fs[i] = new[k],
                 NEW m \in 1 .. Len(shape.write), j = Len(tx.fifos) + m, fs[j] = new[m]
          PROVE  i = j
      BY <3>4, <1>9
    <3> QED BY <3>1, <3>2, <3>3, <3>4, <1>8
  <2>3. ASSUME t.next # None PROVE \E i \in DOMAIN fs : fs[i].id = t.next
    <3>1. PICK i \in 1 .. Len(tx.fifos) : tx.fifos[i].id = tx.next
      BY <2>3, <1>3, <1>6 DEF FifosKnown
    <3>2. i \in DOMAIN fs /\ fs[i] = tx.fifos[i]
      BY <1>4 DEF IsJoined
    <3>3. fs[i].id = t.next
      BY <3>1, <3>2, <1>6
    <3> QED BY <3>2, <3>3
  <2>4. t.fifos = fs
    BY <1>6
  <2>5. /\ \A i \in DOMAIN t.fifos : AsDeclared(more, t.fifos[i])
        /\ \A i, j \in DOMAIN t.fifos : t.fifos[i].id = t.fifos[j].id => i = j
        /\ t.next # None => \E i \in DOMAIN t.fifos : t.fifos[i].id = t.next
    BY ONLY <2>1, <2>2, <2>3, <2>4, Zenon
  <2> QED BY ONLY <2>5 DEF FifosKnown
<1>12. Sizes(t)
  BY <1>3, <1>6 DEF Sizes
<1>13. \A i \in DOMAIN t.iov : Points(t, more, t.iov[i])
  BY <1>6
<1>14. TxSound(t, more)
  BY <1>6, <1>11, <1>12, <1>13 DEF TxSound
<1> QED BY <1>6, <1>14 DEF fs, new, more

\* send.
LEMMA SendKeeps ==
    ASSUME Inv, NEW shape \in Shapes, Send(shape)
    PROVE  Inv'
<1> DEFINE n == Len(op.packets) + 1
           t == [tx EXCEPT !.fifos = @ \o Fifos(n, shape)]
<1>0. OpSound /\ TxSound(tx, op.packets) /\ Rested /\ RxSound /\ PeerSound
  BY DEF Inv
<1>1. /\ op \in Ops /\ op.packets \in Packets /\ op.packets \in Seq(Shapes) /\ Len(op.packets) \in Nat
      /\ op.sent \in Nat /\ op.done \in Nat /\ op.connection \in Nat \ {0}
  BY <1>0, OpTyped
<1>2. op.pc = "idle" /\ Len(op.packets) < MaxPackets
  BY DEF Send
<1>3. op' = [pc |-> "fill", packets |-> Append(op.packets, shape), sent |-> op.sent, done |-> op.done,
             connection |-> op.connection]
  <2>1. op' = [op EXCEPT !.pc = "fill", !.packets = Append(@, shape)]
    BY DEF Send
  <2> QED BY <2>1, <1>1 DEF Ops
<1>4. /\ op'.pc = "fill" /\ op'.packets = Append(op.packets, shape) /\ op'.sent = op.sent /\ op'.done = op.done
      /\ op'.connection = op.connection
  BY <1>3
<1>5. Append(op.packets, shape) \in Packets /\ Len(Append(op.packets, shape)) = n /\ n \in 1 .. MaxPackets
      /\ DOMAIN Append(op.packets, shape) = 1 .. n
  BY <1>1, <1>2, Constants, AppendProperties, LenProperties DEF Packets
<1>6. OpSound'
  <2>1. op' \in Ops
    BY <1>1, <1>3, <1>5 DEF Ops
  <2>2. op.done <= op.sent /\ op.sent <= Len(op.packets)
    BY <1>0 DEF OpSound
  <2> QED BY <2>1, <2>2, <1>1, <1>4, <1>5 DEF OpSound
<1>7. TxSound(tx, op.packets)'
  <2>1. TxSound(t, Append(op.packets, shape)) /\ t.iov = <<>> /\ t.buf = <<>>
    <3>1. tx.iov = <<>> /\ tx.buf = <<>>
      BY <1>0, <1>2 DEF Rested
    <3> QED BY <3>1, <1>0, <1>1, <1>2, JoinedSound
  <2>2. tx' = AddPacket(t, 0, Message(n), 0, 1)
    BY DEF Send
  <2>3. Message(n) \in Ids /\ IsMessage(Append(op.packets, shape), Message(n))
    BY <1>5, Constants DEF Message, Ids, IsMessage
  <2> HIDE DEF t
  <2>4. Len(t.iov) <= IndirectMax - 2 /\ Len(t.buf) < BufferSize
    <3>1. Len(t.iov) = 0 /\ Len(t.buf) = 0
      BY <2>1
    <3> QED BY <3>1, Constants
  <2>5. TxSound(AddPacket(t, 0, Message(n), 0, 1), Append(op.packets, shape))
    <3>1. 0 \in 0 .. 15 /\ 1 \in 1 .. PacketMax /\ 0 \in Nat
      BY Constants
    <3> QED BY <3>1, <2>1, <2>3, <2>4, AddPacketSound
  <2> QED BY <2>2, <2>5, <1>4
<1>8. Rested'
  BY <1>4 DEF Rested
<1>9. RxSound'
  <2>1. rx' = [rx EXCEPT !.fifos = @ \o RxFifos(n, shape)] /\ rx \in Receivers
    BY <1>0 DEF Send, RxSound
  <2>2. RxFifos(n, shape) \in Seq(RxFifo)
    BY <1>5, FifosTyped
  <2>3. rx.fifos \in Seq(RxFifo)
    BY <2>1 DEF Receivers
  <2> DEFINE fs == rx.fifos \o RxFifos(n, shape)
  <2>4. fs \in Seq(RxFifo) /\ (rx.fifos # <<>> => fs # <<>> /\ fs[1] = rx.fifos[1])
    <3>1. IsJoined(fs, rx.fifos, RxFifos(n, shape), RxFifo)
      BY <2>2, <2>3, Joined
    <3> QED BY <3>1 DEF IsJoined
  <2>5. rx' = [rx EXCEPT !.fifos = fs]
    BY <2>1
  <2> HIDE DEF fs
  <2>6. rx' \in Receivers /\ rx'.fifos = fs /\ rx'.head = rx.head /\ rx'.data = rx.data /\ rx'.to = rx.to
    BY <2>1, <2>4, <2>5 DEF Receivers
  <2>7. IntoLiveFifo'
    BY <2>4, <2>6, <1>0 DEF IntoLiveFifo, RxSound
  <2> QED BY <2>6, <2>7, <1>0, <1>4 DEF RxSound
<1>10. PeerSound'
  BY <1>0, PeerKept DEF Send
<1> QED BY <1>6, <1>7, <1>8, <1>9, <1>10 DEF Inv

\* send and send_fifos: one packet of a FIFO, or its end.
LEMMA QueueKeeps == ASSUME Inv, Queue PROVE Inv'
<1>0. OpSound /\ TxSound(tx, op.packets) /\ Rested /\ RxSound /\ PeerSound
  BY DEF Inv
<1>1. op.pc \in {"fill", "load"} /\ tx.fifos # <<>> /\ op' = op /\ rx' = rx /\ peer' = peer
  BY DEF Queue
<1>2. PICK i \in 1 .. Len(tx.fifos) : i = Index(Chosen) /\ tx.fifos[i].id = Chosen
  BY <1>0, <1>1, ChosenQueued
<1>3. TxSound(tx', op.packets)
  <2>1. CASE tx' = Deactivated(Chosen)
    BY <2>1, <1>0, <1>2, DeactivatedSound
  <2>2. CASE SpaceForPacket(Threshold) /\ ~Drained(Chosen) /\ tx' = AddFifoPacket(Chosen)
    <3>1. PICK n : FifoPacketAdded(AddFifoPacket(Chosen), Index(Chosen), n)
      BY <2>2, <1>0, <1>1, AddFifoPacketIs
    <3>2. FifoPacketAdded(tx', i, n)
      BY <3>1, <2>2, <1>2
    <3> QED BY <3>2, <2>2, <1>0, FifoPacketSound
  <2> QED BY <2>1, <2>2 DEF Queue
<1>4. OpSound' /\ Rested' /\ RxSound' /\ PeerSound'
  <2>1. OpSound'
    BY <1>0, <1>1 DEF OpSound
  <2>2. Rested'
    BY <1>1 DEF Rested
  <2> QED BY <2>1, <2>2, <1>0, <1>1, RxKept, PeerKept
<1> QED BY <1>1, <1>3, <1>4 DEF Inv

\* The call goes on with another state, and all else is left alone.
LEMMA OnlyGoesOn ==
    ASSUME Inv, NEW p, Goto(p), UNCHANGED <<tx, rx, peer>>,
           p \in {"push", "load", "write", "space", "drain", "answer"},
           p # "answer" => op.sent < Len(op.packets),
           p = "answer" => op.done < op.sent /\ op.pc = "idle"
    PROVE  Inv'
<1>0. OpSound /\ TxSound(tx, op.packets) /\ Rested /\ RxSound /\ PeerSound
  BY DEF Inv
<1>1. OpSound' /\ Calls(p, op.sent, op.done)
  BY <1>0, GoesOn
<1>2. /\ op'.pc = p /\ op'.packets = op.packets /\ op'.done = op.done /\ op'.connection = op.connection
  BY <1>1 DEF Calls
<1>3. Rested'
  BY <1>0, <1>2 DEF Rested
<1>4. RxSound' /\ PeerSound' /\ TxSound(tx, op.packets)'
  BY <1>0, <1>2, RxKept, PeerKept, TxKept
<1> QED BY <1>1, <1>3, <1>4 DEF Inv

\* send stops queueing when there is no space.
LEMMA FilledKeeps == ASSUME Inv, Filled PROVE Inv'
<1>1. op.sent < Len(op.packets)
  BY DEF Inv, OpSound, Filled
<1> QED BY <1>1, OnlyGoesOn DEF Filled

\* receive_cmnd.
LEMMA ReceiveCmndKeeps == ASSUME Inv, ReceiveCmnd PROVE Inv'
BY OnlyGoesOn DEF ReceiveCmnd

\* send_fifos, then send_flush.
LEMMA LoadedKeeps == ASSUME Inv, Loaded PROVE Inv'
<1>0. OpSound /\ TxSound(tx, op.packets) /\ Rested /\ RxSound /\ PeerSound
  BY DEF Inv
<1>1. op.sent < Len(op.packets) /\ UNCHANGED <<tx, rx, peer>>
  BY <1>0 DEF OpSound, Loaded
<1>2. CASE Goto("write")
  BY <1>1, <1>2, OnlyGoesOn
<1>3. CASE tx.fifos = <<>> /\ Queued = <<>> /\ op' = [op EXCEPT !.pc = "idle", !.sent = @ + 1]
  <2>1. OpSound' /\ Calls("idle", op.sent + 1, op.done)
    BY <1>0, <1>1, <1>3, IsSent
  <2>2. op'.pc = "idle" /\ op'.packets = op.packets /\ op'.done = op.done /\ op'.connection = op.connection
    BY <2>1 DEF Calls
  <2>3. tx.iov = <<>> /\ tx.buf = <<>>
    <3>1. op.packets \in Packets
      BY <1>0, OpTyped
    <3> QED BY <3>1, <1>0, <1>3, QueuedIs
  <2>4. Rested'
    BY <2>2, <2>3, <1>1, <1>3 DEF Rested
  <2>5. RxSound' /\ PeerSound' /\ TxSound(tx, op.packets)'
    BY <2>2, <1>0, <1>1, RxKept, PeerKept, TxKept
  <2> QED BY <2>1, <2>4, <2>5 DEF Inv
<1> QED BY <1>2, <1>3 DEF Loaded

\* The server after its fields are changed.
LEMMA PeerFields ==
    ASSUME PeerSound
    PROVE  /\ peer \in Peers /\ peer.heard \in Seq(Unit) /\ Len(peer.heard) \in Nat /\ peer.taken \in Nat
           /\ peer.reply \in Seq(Unit) /\ peer.in \in Seq(Unit) /\ Len(peer.in) \in Nat /\ peer.answered \in Nat
           /\ peer.taken <= Len(peer.heard) /\ Room \in Nat
<1>1. peer \in Peers /\ peer.taken <= Len(peer.heard) /\ Len(peer.heard) - peer.taken <= Window
  BY DEF PeerSound
<1>2. /\ peer.heard \in Seq(Unit) /\ peer.taken \in Nat /\ peer.reply \in Seq(Unit) /\ peer.in \in Seq(Unit)
      /\ peer.answered \in Nat
  BY <1>1 DEF Peers
<1>3. Len(peer.heard) \in Nat /\ Len(peer.in) \in Nat
  BY <1>2, LenProperties
<1>4. Room \in Nat
  <2>1. PICK L, T : L = Len(peer.heard) /\ T = peer.taken
    OBVIOUS
  <2>2. L \in Nat /\ T \in Nat /\ L - T <= Window /\ T <= L /\ Window \in Nat
    BY <2>1, <1>1, <1>2, <1>3, Constants
  <2>3. Window - (L - T) \in Nat
    BY <2>2
  <2> QED BY <2>1, <2>3 DEF Room
<1> QED BY <1>1, <1>2, <1>3, <1>4

\* The first units of a list.
LEMMA FirstUnits ==
    ASSUME NEW s \in Seq(Unit), NEW n \in Nat, n <= Len(s)
    PROVE  SubSeq(s, 1, n) \in Seq(Unit) /\ Len(SubSeq(s, 1, n)) = n
<1>1. \A i \in 1 .. n : s[i] \in Unit
  BY ElementOfSeq
<1> QED BY <1>1, SubSeqProperties

\* ... and the others.
LEMMA OtherUnits ==
    ASSUME NEW s \in Seq(Unit), NEW n \in Nat, n <= Len(s)
    PROVE  SubSeq(s, n + 1, Len(s)) \in Seq(Unit) /\ Len(SubSeq(s, n + 1, Len(s))) = Len(s) - n
<1>1. IsSlice(SubSeq(s, n + 1, Len(s)), s, n, Len(s), Unit)
  BY LenProperties, Slice
<1> QED BY <1>1 DEF IsSlice

\* send_queued.
LEMMA WriteKeeps == ASSUME Inv, Write PROVE Inv'
<1>0. OpSound /\ TxSound(tx, op.packets) /\ Rested /\ RxSound /\ PeerSound
  BY DEF Inv
<1>1. /\ op.pc \in {"push", "write"} /\ op.sent < Len(op.packets) /\ UNCHANGED rx /\ op.packets \in Packets
  BY <1>0, OpTyped DEF Write, OpSound
<1>2. PICK n \in IF Room = 0 THEN {0} ELSE 1 .. Min({Room, Len(Queued)}) :
         /\ tx' = Taken(n)
         /\ peer' = [peer EXCEPT !.heard = @ \o SubSeq(Queued, 1, n)]
         /\ Goto(IF op.pc = "push" \/ n = Len(Queued) THEN "load" ELSE "space")
  BY DEF Write
<1>3. Queued \in Seq(Unit) /\ Len(Queued) \in Nat
  BY <1>0, <1>1, QueuedIs, LenProperties
<1>4. n \in Nat /\ n <= Len(Queued) /\ n <= Room
  <2>1. Room \in Nat
    BY <1>0, PeerFields
  <2>2. Min({Room, Len(Queued)}) = IF Room <= Len(Queued) THEN Room ELSE Len(Queued)
    BY <2>1, <1>3, MinOfTwo
  <2> QED BY <2>1, <2>2, <1>2, <1>3
<1>5. TxSound(tx', op.packets)
  BY <1>0, <1>1, <1>2, <1>4, TakenSound
<1> DEFINE p == IF op.pc = "push" \/ n = Len(Queued) THEN "load" ELSE "space"
<1>6. OpSound' /\ Calls(p, op.sent, op.done)
  <2>1. p \in {"load", "space"} /\ Goto(p)
    BY <1>2
  <2> HIDE DEF p
  <2> QED BY <2>1, <1>0, <1>1, GoesOn
<1>7. op'.pc \in {"load", "space"} /\ op'.packets = op.packets /\ op'.done = op.done /\ op'.connection = op.connection
  BY <1>6 DEF Calls
<1>8. Rested' /\ RxSound'
  BY <1>0, <1>1, <1>7, RxKept DEF Rested
<1>9. PeerSound'
  <2> DEFINE u == SubSeq(Queued, 1, n)
             h == peer.heard \o u
  <2>1. u \in Seq(Unit) /\ Len(u) = n
    BY <1>3, <1>4, FirstUnits
  <2> HIDE DEF u
  <2>2. /\ peer \in Peers /\ peer.heard \in Seq(Unit) /\ Len(peer.heard) \in Nat /\ peer.taken \in Nat
        /\ peer.taken <= Len(peer.heard) /\ Room = Window - (Len(peer.heard) - peer.taken)
    BY <1>0, PeerFields DEF Room
  <2>3. h \in Seq(Unit) /\ Len(h) = Len(peer.heard) + n
    BY <2>1, <2>2, ConcatProperties
  <2>4. peer' = [peer EXCEPT !.heard = h]
    BY <1>2 DEF u
  <2> HIDE DEF h
  <2>5. peer' \in Peers /\ peer'.heard = h /\ peer'.taken = peer.taken
    BY <2>2, <2>3, <2>4 DEF Peers
  <2>6. peer'.taken <= Len(peer'.heard) /\ Len(peer'.heard) - peer'.taken <= Window
    <3>1. PICK L, T, R : L = Len(peer.heard) /\ T = peer.taken /\ R = Room
      OBVIOUS
    <3>2. L \in Nat /\ T \in Nat /\ T <= L /\ R = Window - (L - T) /\ n <= R /\ Window \in Nat
      BY <3>1, <2>2, <1>4, Constants
    <3>3. T <= L + n /\ L + n - T <= Window
      BY <3>2, <1>4
    <3>4. Len(peer'.heard) = L + n /\ peer'.taken = T
      BY <3>1, <2>3, <2>5
    <3>5. ASSUME NEW a, NEW b, a = L + n, b = T PROVE b <= a /\ a - b <= Window
      BY <3>2, <3>3, <3>5, <1>4
    <3>6. PICK a, b : a = Len(peer'.heard) /\ b = peer'.taken
      OBVIOUS
    <3>7. b <= a /\ a - b <= Window
      BY <3>4, <3>5, <3>6
    <3> QED BY <3>6, <3>7
  <2> QED BY <2>5, <2>6 DEF PeerSound
<1>10. TxSound(tx, op.packets)'
  BY <1>5, <1>7
<1> QED BY <1>6, <1>8, <1>9, <1>10 DEF Inv

\* wait_for_space.
LEMMA WaitForSpaceKeeps == ASSUME Inv, WaitForSpace PROVE Inv'
<1>1. op.sent < Len(op.packets)
  BY DEF Inv, OpSound, WaitForSpace
<1> QED BY <1>1, OnlyGoesOn DEF WaitForSpace

\* close.
LEMMA CloseKeeps == ASSUME Inv, Close PROVE Inv'
<1>0. OpSound /\ TxSound(tx, op.packets) /\ Rested /\ RxSound /\ PeerSound
  BY DEF Inv
<1>1. /\ op \in Ops /\ op.packets \in Packets /\ Len(op.packets) \in Nat /\ op.connection \in Nat \ {0}
      /\ UNCHANGED <<rx, peer>>
  BY <1>0, OpTyped DEF Close
<1>2. op' = [pc |-> "down", packets |-> op.packets, sent |-> Len(op.packets), done |-> Len(op.packets),
             connection |-> op.connection]
  <2>1. op' = [op EXCEPT !.pc = "down", !.sent = Len(op.packets), !.done = Len(op.packets)]
    BY DEF Close
  <2> QED BY <2>1, <1>1 DEF Ops
<1>3. OpSound' /\ op'.pc = "down" /\ op'.packets = op.packets
  BY <1>1, <1>2 DEF OpSound, Ops
<1>4. TxSound(tx', op.packets) /\ tx'.iov = <<>> /\ tx'.buf = <<>>
  <2>1. tx' = [tx EXCEPT !.iov = <<>>, !.buf = <<>>, !.start = 0]
    BY DEF Close
  <2>2. tx \in TxQueue /\ FifosKnown(tx, op.packets)
    BY <1>0 DEF TxSound
  <2>3. <<>> \in Seq(Vect) /\ <<>> \in Seq(Unit)
    OBVIOUS
  <2>4. tx' \in TxQueue /\ tx'.iov = <<>> /\ tx'.buf = <<>> /\ tx'.start = 0 /\ tx'.fifos = tx.fifos /\ tx'.next = tx.next
    BY <2>1, <2>2, <2>3 DEF TxQueue
  <2>5. FifosKnown(tx', op.packets)
    BY <2>2, <2>4 DEF FifosKnown
  <2>6. Sizes(tx')
    <3>1. Len(tx'.iov) = 0 /\ Len(tx'.buf) = 0
      BY <2>4
    <3> QED BY <3>1, <2>4, Constants DEF Sizes
  <2> QED BY <2>4, <2>5, <2>6 DEF TxSound
<1>5. Rested'
  BY <1>3, <1>4 DEF Rested
<1>6. RxSound'
  BY <1>0, <1>1, <1>3 DEF RxSound, IntoLiveFifo
<1> QED BY <1>0, <1>1, <1>3, <1>4, <1>5, <1>6, PeerKept DEF Inv

\* A server nothing is sent to yet.
LEMMA ConnectedSound ==
    ASSUME NEW n \in Nat, NEW patient \in BOOLEAN, NEW p, p = Connected(n, patient)
    PROVE  p \in Peers /\ p.taken = 0 /\ p.heard = <<>>
<1>1. <<>> \in Seq(Unit)
  OBVIOUS
<1> QED BY <1>1 DEF Connected, Peers

\* The next connection.
LEMMA ReconnectKeeps == ASSUME Inv, Reconnect PROVE Inv'
<1>0. OpSound /\ TxSound(tx, op.packets) /\ Rested /\ RxSound /\ PeerSound
  BY DEF Inv
<1>1. /\ op \in Ops /\ op.packets \in Packets /\ Len(op.packets) \in Nat /\ op.connection \in Nat \ {0}
      /\ op.sent \in Nat /\ op.done \in Nat /\ UNCHANGED <<tx, rx>> /\ op.pc = "down"
  BY <1>0, OpTyped DEF Reconnect
<1>2. op' = [pc |-> "idle", packets |-> op.packets, sent |-> op.sent, done |-> op.done, connection |-> op.connection + 1]
  <2>1. op' = [op EXCEPT !.pc = "idle", !.connection = @ + 1]
    BY DEF Reconnect
  <2> QED BY <2>1, <1>1 DEF Ops
<1>3. /\ op' \in Ops /\ op'.pc = "idle" /\ op'.packets = op.packets /\ op'.sent = op.sent /\ op'.done = op.done
      /\ op'.connection = op.connection + 1
  BY <1>1, <1>2 DEF Ops
<1>4. OpSound'
  BY <1>0, <1>3 DEF OpSound
<1>5. Rested'
  <2>1. tx.iov = <<>> /\ tx.buf = <<>>
    BY <1>0, <1>1 DEF Rested
  <2>2. op.connection + 1 # 1
    BY <1>1
  <2> QED BY <2>1, <2>2, <1>1, <1>3 DEF Rested
<1>6. RxSound' /\ TxSound(tx, op.packets)'
  BY <1>0, <1>1, <1>3, RxKept, TxKept
<1>7. PeerSound'
  <2>1. peer' = Connected(Len(op.packets), peer.patient) /\ peer.patient \in BOOLEAN
    BY <1>0 DEF Reconnect, PeerSound, Peers
  <2>2. peer' \in Peers /\ peer'.taken = 0 /\ peer'.heard = <<>>
    BY <2>1, <1>1, ConnectedSound
  <2>3. Len(peer'.heard) = 0
    BY <2>2
  <2> QED BY <2>2, <2>3, Constants DEF PeerSound
<1> QED BY <1>4, <1>5, <1>6, <1>7 DEF Inv

-----------------------------------------------------------------------------
(* The receiver.                                                           *)

\* The parts of a receiver.
LEMMA RxFields ==
    ASSUME NEW r \in Receivers
    PROVE  /\ r.head \in Seq(Unit) /\ r.data \in Seq(Unit) /\ r.to \in Ids /\ r.mux0 \in BOOLEAN
           /\ r.fifos \in Seq(RxFifo) /\ r.full \subseteq RxFifo
           /\ Len(r.head) \in Nat /\ Len(r.data) \in Nat
           /\ r.fifos # <<>> => r.fifos[1] \in RxFifo /\ Len(r.fifos) \in Nat \ {0}
<1>1. /\ r.head \in Seq(Unit) /\ r.data \in Seq(Unit) /\ r.to \in Ids /\ r.mux0 \in BOOLEAN
      /\ r.fifos \in Seq(RxFifo) /\ r.full \subseteq RxFifo
  BY DEF Receivers
<1>2. ASSUME r.fifos # <<>> PROVE r.fifos[1] \in RxFifo /\ Len(r.fifos) \in Nat \ {0}
  <2>1. Len(r.fifos) \in Nat \ {0}
    BY <1>1, <1>2, LenProperties, EmptySeq
  <2> QED BY <2>1, <1>1, ElementOfSeq
<1> QED BY <1>1, <1>2, LenProperties

\* A packet that is complete is out of the receiver.
IsEnded(r) == r \in Receivers /\ r.head = <<>> /\ r.data = <<>> /\ r.to = None

\* No FIFO is a FIFO's name too.
LEMMA NoneTyped == None \in Ids
BY Constants DEF None, Ids

\* A packet that has ended leaves nothing behind.
LEMMA EndedTyped ==
    ASSUME NEW r \in Receivers
    PROVE  /\ IsEnded(Ended(r)) /\ Ended(r).fifos = r.fifos /\ Ended(r).full = r.full /\ Ended(r).mux0 = r.mux0
           /\ IsEnded(Responded(r)) /\ Responded(r).fifos = r.fifos /\ Responded(r).full = r.full
<1>1. <<>> \in Seq(Unit) /\ None \in Ids
  BY NoneTyped
<1> DEFINE e == Ended(r)
           d == Responded(r)
<1>2. e \in Receivers /\ e.head = <<>> /\ e.data = <<>> /\ e.to = None /\ e.fifos = r.fifos /\ e.full = r.full /\ e.mux0 = r.mux0
  BY <1>1 DEF Ended, Receivers
<1>3. d = [e EXCEPT !.mux0 = FALSE]
  BY DEF Responded
<1> HIDE DEF e
<1>4. d \in Receivers /\ d.head = <<>> /\ d.data = <<>> /\ d.to = None /\ d.fifos = r.fifos /\ d.full = r.full
  BY <1>2, <1>3 DEF Receivers
<1> HIDE DEF d
<1>5. IsEnded(e) /\ IsEnded(d)
  BY <1>2, <1>4 DEF IsEnded
<1> QED BY <1>2, <1>4, <1>5 DEF e, d

\* Nor does one that was for a FIFO.
LEMMA DeliveredTyped ==
    ASSUME NEW r \in Receivers, r.fifos = rx.fifos
    PROVE  IsEnded(Delivered(r))
<1>1. CASE Receiver = None
  BY <1>1, EndedTyped DEF Delivered
<1>2. CASE Receiver # None
  <2> DEFINE f == [r.fifos[1] EXCEPT !.got = @ \o r.data]
             a == [r EXCEPT !.fifos = SubSeq(@, 2, Len(@)), !.full = @ \cup {f}]
             b == [r EXCEPT !.fifos[1] = f]
  <2>1. r.fifos # <<>>
    BY <1>2 DEF Receiver
  <2>2. /\ r.fifos[1] \in RxFifo /\ Len(r.fifos) \in Nat \ {0} /\ r.fifos \in Seq(RxFifo) /\ r.data \in Seq(Unit)
        /\ r.full \subseteq RxFifo
    BY <2>1, RxFields
  <2>3. f \in RxFifo
    <3>1. r.fifos[1].got \in Seq(Unit)
      BY <2>2 DEF RxFifo
    <3>2. r.fifos[1].got \o r.data \in Seq(Unit)
      BY <3>1, <2>2, ConcatProperties
    <3> QED BY <3>2, <2>2 DEF RxFifo
  <2> HIDE DEF f
  <2>4. a \in Receivers
    <3>1. SubSeq(r.fifos, 2, Len(r.fifos)) \in Seq(RxFifo)
      <4>1. \A i \in 2 .. Len(r.fifos) : r.fifos[i] \in RxFifo
        BY <2>2, ElementOfSeq
      <4> QED BY <4>1, <2>2, SubSeqProperties
    <3> QED BY <3>1, <2>2, <2>3 DEF Receivers
  <2>5. b \in Receivers
    <3> DEFINE g == [r.fifos EXCEPT ![1] = f]
    <3>1. g \in Seq(RxFifo)
      BY <2>2, <2>3, ExceptSeq
    <3>2. b = [r EXCEPT !.fifos = g]
      OBVIOUS
    <3> HIDE DEF g
    <3> QED BY <3>1, <3>2 DEF Receivers
  <2>6. Delivered(r) = Ended(IF Len(f.got) >= f.len THEN a ELSE b)
    BY <1>2 DEF Delivered, f
  <2> HIDE DEF a, b
  <2>7. (IF Len(f.got) >= f.len THEN a ELSE b) \in Receivers
    BY <2>4, <2>5
  <2> QED BY <2>6, <2>7, EndedTyped
<1> QED BY <1>1, <1>2

\* The FIFOs of a packet that has been answered leave the receiver.
LEMMA ForgottenTyped ==
    ASSUME NEW r \in Receivers
    PROVE  /\ Forgotten(r) \in Receivers /\ Forgotten(r).head = r.head /\ Forgotten(r).data = r.data
           /\ Forgotten(r).to = r.to
<1> DEFINE S == {f \in Range(r.fifos) : ~OfPacket(f)}
           fs == Filtered(r.fifos, S)
           g == {f \in r.full : ~OfPacket(f)}
<1>1. fs \in Seq(RxFifo)
  BY RxFields, FilteredTyped
<1>2. g \subseteq RxFifo
  BY RxFields
<1>3. Forgotten(r) = [r EXCEPT !.fifos = fs, !.full = g]
  BY DEF Forgotten, Receivers
<1> HIDE DEF fs, g
<1> QED BY <1>1, <1>2, <1>3 DEF Receivers

\* A receiver with no packet begun is sound.
LEMMA EndedSound ==
    ASSUME IsEnded(rx)'
    PROVE  RxSound'
<1>1. rx' \in Receivers /\ rx'.head = <<>> /\ rx'.data = <<>> /\ rx'.to = None
  BY DEF IsEnded
<1>2. Len(rx'.head) = 0
  BY <1>1
<1> QED BY <1>1, <1>2 DEF RxSound, IntoLiveFifo

\* The server when the client has read n units.
LEMMA ReadFrom ==
    ASSUME PeerSound, NEW n \in Nat, n <= Len(peer.in),
           peer' = [peer EXCEPT !.in = SubSeq(@, n + 1, Len(@))]
    PROVE  PeerSound'
<1> DEFINE i == SubSeq(peer.in, n + 1, Len(peer.in))
<1>1. i \in Seq(Unit)
  BY PeerFields, OtherUnits
<1>2. peer' = [peer EXCEPT !.in = i]
  OBVIOUS
<1> HIDE DEF i
<1>3. peer' \in Peers /\ peer'.heard = peer.heard /\ peer'.taken = peer.taken
  BY <1>1, <1>2 DEF PeerSound, Peers
<1> QED BY <1>3 DEF PeerSound

\* receive: some of a header,
LEMMA RecvHeaderKeeps == ASSUME Inv, RecvHeader PROVE Inv'
<1>0. OpSound /\ TxSound(tx, op.packets) /\ Rested /\ RxSound /\ PeerSound
  BY DEF Inv
<1>1. PICK n \in 1 .. Min({2 - Len(rx.head), Len(peer.in)}) :
         /\ rx' = [rx EXCEPT !.head = @ \o SubSeq(peer.in, 1, n)]
         /\ peer' = [peer EXCEPT !.in = SubSeq(@, n + 1, Len(@))]
  BY DEF RecvHeader
<1>2. Receiving /\ ~HeaderRead /\ UNCHANGED <<tx, op>>
  BY DEF RecvHeader
<1>3. rx \in Receivers /\ rx.head \in Seq(Unit) /\ Len(rx.head) \in Nat /\ Len(rx.head) < 2 /\ rx.data = <<>>
  <2>1. rx \in Receivers /\ Len(rx.head) <= 2 /\ Len(rx.head) # 2 /\ rx.data = <<>>
    BY <1>0, <1>2 DEF RxSound, HeaderRead
  <2>2. rx.head \in Seq(Unit) /\ Len(rx.head) \in Nat
    BY <2>1, RxFields
  <2>3. PICK L : L = Len(rx.head)
    OBVIOUS
  <2>4. L < 2
    <3>1. L <= 2 /\ L # 2
      BY <2>1, <2>3
    <3>2. L \in Nat
      BY <2>2, <2>3
    <3> QED BY ONLY <3>1, <3>2
  <2> QED BY <2>1, <2>2, <2>3, <2>4
<1>4. peer.in \in Seq(Unit) /\ Len(peer.in) \in Nat
  BY <1>0, PeerFields
<1>5. n \in Nat /\ n <= Len(peer.in) /\ Len(rx.head) + n <= 2
  <2>1. 2 - Len(rx.head) \in Nat
    BY <1>3
  <2>2. Min({2 - Len(rx.head), Len(peer.in)}) = IF 2 - Len(rx.head) <= Len(peer.in) THEN 2 - Len(rx.head) ELSE Len(peer.in)
    BY <2>1, <1>4, MinOfTwo
  <2>3. PICK L, I, m : L = Len(rx.head) /\ I = Len(peer.in) /\ m = Min({2 - Len(rx.head), Len(peer.in)})
    OBVIOUS
  <2>4. L \in Nat /\ L < 2 /\ I \in Nat /\ m = (IF 2 - L <= I THEN 2 - L ELSE I)
    BY <2>2, <2>3, <1>3, <1>4
  <2>5. n \in 1 .. m
    BY <2>3
  <2>6. n \in Nat /\ n <= I /\ L + n <= 2
    BY <2>4, <2>5
  <2> QED BY <2>3, <2>6
<1> DEFINE u == SubSeq(peer.in, 1, n)
           h == rx.head \o u
<1>6. u \in Seq(Unit) /\ Len(u) = n
  BY <1>4, <1>5, FirstUnits
<1> HIDE DEF u
<1>7. h \in Seq(Unit) /\ Len(h) = Len(rx.head) + n
  BY <1>3, <1>6, ConcatProperties
<1>8. rx' = [rx EXCEPT !.head = h]
  BY <1>1 DEF u
<1> HIDE DEF h
<1>9. /\ rx' \in Receivers /\ rx'.head = h /\ rx'.data = rx.data /\ rx'.to = rx.to /\ rx'.fifos = rx.fifos /\ rx'.full = rx.full
  BY <1>3, <1>7, <1>8 DEF Receivers
<1>10. RxSound'
  <2>1. IntoLiveFifo'
    BY <1>0, <1>9 DEF RxSound, IntoLiveFifo
  <2>2. op.pc = "poll" => ~HasData(rx)'
    BY <1>2, <1>9 DEF Receiving, HasData, Oldest
  <2>3. Len(rx'.head) = 2 => Len(rx'.data) <= rx'.head[1].len
    <3> SUFFICES ASSUME Len(rx'.head) = 2 PROVE Len(rx'.data) <= h[1].len
      BY <1>9
    <3>1. h[1] \in Unit
      <4>1. Len(h) = 2
        BY <1>9
      <4>2. 1 \in 1 .. Len(h)
        BY <4>1
      <4> QED BY <4>2, <1>7, ElementOfSeq
    <3>2. h[1].len \in Nat
      BY <3>1, Constants DEF Unit
    <3>3. Len(rx'.data) = 0
      BY <1>3, <1>9
    <3> QED BY <3>2, <3>3
  <2>4. Len(rx'.head) <= 2
    BY <1>5, <1>7, <1>9
  <2> QED BY <2>1, <2>2, <2>3, <2>4, <1>2, <1>3, <1>9 DEF RxSound
<1>11. PeerSound'
  BY <1>0, <1>1, <1>5, ReadFrom
<1>12. OpSound' /\ Rested' /\ TxSound(tx, op.packets)'
  BY <1>0, <1>2 DEF OpSound, Rested
<1> QED BY <1>10, <1>11, <1>12 DEF Inv

\* or of what comes after it.
LEMMA RecvDataKeeps == ASSUME Inv, RecvData PROVE Inv'
<1>0. OpSound /\ TxSound(tx, op.packets) /\ Rested /\ RxSound /\ PeerSound
  BY DEF Inv
<1> DEFINE ReadN(n) == [rx EXCEPT !.data = @ \o SubSeq(peer.in, 1, n), !.to = IF rx.data = <<>> THEN Receiver ELSE @]
           OverN(r) == ~(r.data[1].at = 1) \/ HasData(r)
<1>1. PICK n \in 1 .. Min({Expect - Len(rx.data), Len(peer.in)}) :
         /\ peer' = [peer EXCEPT !.in = SubSeq(@, n + 1, Len(@))]
         /\ \/ Len(ReadN(n).data) < Expect /\ rx' = ReadN(n) /\ UNCHANGED op
            \/ /\ Len(ReadN(n).data) = Expect /\ Mux # 0
               /\ rx' = Delivered(ReadN(n))
               /\ IF op.pc = "drain" THEN Goto("space") ELSE UNCHANGED op
            \/ /\ Len(ReadN(n).data) = Expect /\ Mux = 0
               /\ rx' = IF OverN(ReadN(n)) THEN Forgotten(Responded(ReadN(n))) ELSE Responded(ReadN(n))
               /\ IF OverN(ReadN(n)) THEN Finish ELSE Goto("poll")
  BY ZenonT(30) DEF RecvData
<1>2. Receiving /\ HeaderRead /\ ~HeldBack /\ UNCHANGED tx /\ op.pc \in {"drain", "answer", "poll"}
  BY DEF RecvData, Receiving
<1>3. /\ rx \in Receivers /\ rx.head \in Seq(Unit) /\ Len(rx.head) = 2 /\ rx.data \in Seq(Unit) /\ Len(rx.data) \in Nat
      /\ Len(rx.data) <= Expect /\ rx.to \in Ids
  BY <1>0, <1>2, RxFields DEF RxSound, HeaderRead, Expect
<1>4. peer.in \in Seq(Unit) /\ Len(peer.in) \in Nat
  BY <1>0, PeerFields
<1>5. n \in Nat /\ n <= Len(peer.in)
  <2>0. Expect \in Nat
    <3>1. rx.head[1] \in Unit
      BY <1>3, ElementOfSeq
    <3>2. rx.head[1].len \in 0 .. PacketMax
      BY <3>1 DEF Unit
    <3> QED BY <3>2, Constants DEF Expect
  <2>1. Expect - Len(rx.data) \in Nat
    BY <2>0, <1>3
  <2>2. Min({Expect - Len(rx.data), Len(peer.in)}) = IF Expect - Len(rx.data) <= Len(peer.in) THEN Expect - Len(rx.data) ELSE Len(peer.in)
    BY <2>1, <1>4, MinOfTwo
  <2> QED BY <2>1, <2>2, <1>4
<1> DEFINE u == SubSeq(peer.in, 1, n)
           d == rx.data \o u
           to == IF rx.data = <<>> THEN Receiver ELSE rx.to
           r == ReadN(n)
<1>6. u \in Seq(Unit) /\ Len(u) = n
  BY <1>4, <1>5, FirstUnits
<1> HIDE DEF u
<1>7. d \in Seq(Unit)
  BY <1>3, <1>6, ConcatProperties
<1>8. to \in Ids /\ (to # None => rx.fifos # <<>> /\ rx.fifos[1].id = to)
  <2>1. Receiver \in Ids /\ (Receiver # None => rx.fifos # <<>> /\ rx.fifos[1].id = Receiver)
    <3>1. CASE Mux >= 4 /\ rx.fifos # <<>>
      <4>1. rx.fifos[1] \in RxFifo
        BY <3>1, <1>3, RxFields
      <4> QED BY <4>1, <3>1 DEF Receiver, RxFifo
    <3>2. CASE ~(Mux >= 4 /\ rx.fifos # <<>>)
      <4>1. Receiver = None
        BY <3>2 DEF Receiver
      <4> QED BY <4>1, NoneTyped
    <3> QED BY <3>1, <3>2
  <2> QED BY <2>1, <1>0, <1>3 DEF RxSound, IntoLiveFifo
<1>9. r = [rx EXCEPT !.data = d, !.to = to]
  BY DEF u
<1> HIDE DEF d, to, r
<1>10. /\ r \in Receivers /\ r.head = rx.head /\ r.data = d /\ r.to = to /\ r.fifos = rx.fifos /\ r.full = rx.full
  BY <1>3, <1>7, <1>8, <1>9 DEF Receivers
<1>11. /\ Len(r.data) < Expect /\ rx' = r /\ UNCHANGED op
       \/ /\ Mux # 0
          /\ rx' = Delivered(r)
          /\ IF op.pc = "drain" THEN Goto("space") ELSE UNCHANGED op
       \/ /\ Mux = 0
          /\ rx' = IF OverN(r) THEN Forgotten(Responded(r)) ELSE Responded(r)
          /\ IF OverN(r) THEN Finish ELSE Goto("poll")
  <2> HIDE DEF ReadN, OverN
  <2> QED BY <1>1 DEF r
<1> HIDE DEF ReadN, OverN
<1>12. PeerSound'
  BY <1>0, <1>1, <1>5, ReadFrom
<1>13. CASE Len(r.data) < Expect /\ rx' = r /\ UNCHANGED op
  <2>1. OpSound' /\ Rested' /\ TxSound(tx, op.packets)'
    BY <1>0, <1>2, <1>13 DEF OpSound, Rested
  <2>2. op.pc = "poll" => ~HasData(rx)'
    BY <1>2, <1>10, <1>13 DEF Receiving, HasData, Oldest
  <2>3. IntoLiveFifo'
    BY <1>8, <1>10, <1>13 DEF IntoLiveFifo
  <2>4. Len(rx'.head) = 2 /\ Len(rx'.data) <= rx'.head[1].len
    <3>1. PICK l, e : l = Len(r.data) /\ e = Expect
      OBVIOUS
    <3>2. l < e
      BY <3>1, <1>13
    <3>3. l \in Nat
      BY <3>1, <1>7, <1>10, LenProperties
    <3>4. e \in Nat
      <4>1. rx.head[1] \in Unit
        BY <1>3, ElementOfSeq
      <4>2. rx.head[1].len \in 0 .. PacketMax
        BY <4>1 DEF Unit
      <4> QED BY <4>2, <3>1, Constants DEF Expect
    <3>5. l <= e
      BY <3>2, <3>3, <3>4
    <3> QED BY <3>1, <3>5, <1>3, <1>10, <1>13 DEF Expect
  <2> QED BY <2>1, <2>2, <2>3, <2>4, <1>10, <1>12, <1>13 DEF Inv, RxSound
<1>14. CASE Mux # 0 /\ rx' = Delivered(r) /\ IF op.pc = "drain" THEN Goto("space") ELSE UNCHANGED op
  <2>1. RxSound'
    BY <1>10, <1>14, DeliveredTyped, EndedSound
  <2>2. CASE op.pc = "drain"
    <3>1. OpSound' /\ Calls("space", op.sent, op.done)
      BY <2>2, <1>0, <1>14, GoesOn DEF OpSound
    <3>2. op'.pc = "space" /\ op'.packets = op.packets
      BY <3>1 DEF Calls
    <3> QED BY <2>1, <3>1, <3>2, <1>0, <1>2, <1>12 DEF Inv, Rested
  <2>3. CASE op.pc # "drain"
    BY <2>1, <2>3, <1>0, <1>2, <1>12, <1>14 DEF Inv, OpSound, Rested
  <2> QED BY <2>2, <2>3
<1>15. CASE /\ Mux = 0
            /\ rx' = IF OverN(r) THEN Forgotten(Responded(r)) ELSE Responded(r)
            /\ IF OverN(r) THEN Finish ELSE Goto("poll")
  <2>1. IsEnded(Responded(r))
    BY <1>10, EndedTyped
  <2>2. op.pc = "answer" /\ op.done < op.sent
    BY <1>0, <1>2, <1>15 DEF HeldBack, OpSound
  <2>3. tx.iov = <<>> /\ tx.buf = <<>> /\ (op.connection = 1 => tx.fifos = <<>>)
    BY <2>2, <1>0 DEF Rested
  <2>4. RxSound'
    <3>1. IsEnded(Forgotten(Responded(r)))
      BY <2>1, ForgottenTyped DEF IsEnded
    <3> QED BY <3>1, <2>1, <1>15, EndedSound
  <2>5. OpSound' /\ op'.packets = op.packets /\ op'.connection = op.connection
    <3>1. CASE OverN(r)
      <4>1. OpSound' /\ Calls("idle", op.sent, op.done + 1)
        BY <3>1, <2>2, <1>0, <1>15, Ends
      <4> QED BY <4>1 DEF Calls
    <3>2. CASE ~OverN(r)
      <4>1. OpSound' /\ Calls("poll", op.sent, op.done)
        BY <3>2, <2>2, <1>0, <1>15, GoesOn
      <4> QED BY <4>1 DEF Calls
    <3> QED BY <3>1, <3>2
  <2>6. Rested' /\ TxSound(tx, op.packets)'
    BY <2>3, <2>5, <1>0, <1>2 DEF Rested
  <2> QED BY <2>4, <2>5, <2>6, <1>12 DEF Inv
<1> QED BY <1>11, <1>13, <1>14, <1>15

\* wait_for_space leaves a response to receive_cmnd.
LEMMA EndDrainKeeps == ASSUME Inv, EndDrain PROVE Inv'
<1>0. OpSound /\ TxSound(tx, op.packets) /\ Rested /\ RxSound /\ PeerSound
  BY DEF Inv
<1>1. op.sent < Len(op.packets) /\ Goto("space") /\ UNCHANGED <<tx, peer>>
  BY <1>0 DEF EndDrain, OpSound
<1>2. OpSound' /\ Calls("space", op.sent, op.done)
  BY <1>0, <1>1, GoesOn
<1>3. op'.pc = "space" /\ op'.packets = op.packets
  BY <1>2 DEF Calls
<1>4. Rested' /\ PeerSound' /\ TxSound(tx, op.packets)'
  BY <1>0, <1>1, <1>3, PeerKept, TxKept DEF Rested
<1>5. /\ rx' \in Receivers /\ rx'.head = rx.head /\ rx'.data = rx.data /\ rx'.to = rx.to /\ rx'.fifos = rx.fifos
  <2>1. rx \in Receivers
    BY <1>0 DEF RxSound
  <2>2. CASE rx' = [rx EXCEPT !.mux0 = TRUE]
    BY <2>1, <2>2 DEF Receivers
  <2>3. CASE UNCHANGED rx
    BY <2>1, <2>3
  <2> QED BY <2>2, <2>3 DEF EndDrain
<1>6. RxSound'
  BY <1>0, <1>3, <1>5 DEF RxSound, IntoLiveFifo
<1> QED BY <1>2, <1>4, <1>6 DEF Inv

\* poll_fifo has what it waited for.
LEMMA EndPollKeeps == ASSUME Inv, EndPoll PROVE Inv'
<1>0. OpSound /\ TxSound(tx, op.packets) /\ Rested /\ RxSound /\ PeerSound
  BY DEF Inv
<1>1. op.pc = "poll" /\ HasData(rx) /\ rx' = Forgotten(rx) /\ Finish /\ UNCHANGED <<tx, peer>> /\ op.done < op.sent
  BY <1>0 DEF EndPoll, OpSound
<1>2. OpSound' /\ Calls("idle", op.sent, op.done + 1)
  BY <1>0, <1>1, Ends
<1>3. op'.pc = "idle" /\ op'.packets = op.packets /\ op'.connection = op.connection
  BY <1>2 DEF Calls
<1>4. Rested' /\ PeerSound' /\ TxSound(tx, op.packets)'
  BY <1>0, <1>1, <1>3, PeerKept, TxKept DEF Rested
<1>5. rx' \in Receivers /\ rx'.head = rx.head /\ rx'.data = rx.data /\ rx'.to = None
  BY <1>0, <1>1, ForgottenTyped DEF RxSound
<1>6. RxSound'
  BY <1>0, <1>3, <1>5 DEF RxSound, IntoLiveFifo
<1> QED BY <1>2, <1>4, <1>6 DEF Inv

-----------------------------------------------------------------------------
(* The server.                                                             *)

\* What it sends: a packet, a response, the data of a packet of commands.
LEMMA PacketTyped ==
    ASSUME NEW mux \in 0 .. 15, NEW id \in Ids, NEW data \in Seq(Unit), Len(data) <= PacketMax
    PROVE  Packet(mux, id, data) \in Seq(Unit)
<1>1. Header(mux, Len(data), id) \in Unit
  BY LenProperties, Constants DEF Header, Unit
<1> DEFINE h == <<Header(mux, Len(data), id), Header(mux, Len(data), id)>>
<1>2. h \in Seq(Unit)
  BY <1>1
<1> HIDE DEF h
<1>3. h \o data \in Seq(Unit)
  BY <1>2, ConcatProperties
<1> QED BY <1>3 DEF Packet, h

\* A response is a list of units,
LEMMA ResponseTyped ==
    ASSUME NEW n \in 1 .. MaxPackets, NEW at \in Nat
    PROVE  Response(n, at) \in Seq(Unit)
<1>1. Message(n) \in Ids
  BY Constants DEF Message, Ids
<1>2. <<Data(0, Message(n), at)>> \in Seq(Unit) /\ Len(<<Data(0, Message(n), at)>>) = 1
  BY <1>1, Constants DEF Data, Unit
<1>3. Len(<<Data(0, Message(n), at)>>) <= PacketMax /\ 0 \in 0 .. 15
  BY <1>2, Constants
<1> QED BY <1>1, <1>2, <1>3, PacketTyped DEF Response

\* and so is the data that a packet reads.
LEMMA ReadsTyped ==
    ASSUME op.packets \in Packets, NEW n \in 1 .. Len(op.packets)
    PROVE  Reads(n) \in Seq(Unit) /\ n \in 1 .. MaxPackets
<1> DEFINE reads == op.packets[n].read
           part(k) == Packet(4, <<n, k>>, [i \in 1 .. reads[k] |-> Data(4, <<n, k>>, i)])
<1>1. op.packets[n] \in Shape /\ n \in 1 .. MaxPackets
  BY Constants, ElementOfSeq, LenProperties DEF Packets
<1>2. reads \in Seq(1 .. PacketMax)
  BY <1>1 DEF Shape
<1> HIDE DEF reads
<1>3. DOMAIN reads = 1 .. Len(reads) /\ Len(reads) \in Nat /\ \A k \in 1 .. Len(reads) : reads[k] \in 1 .. PacketMax
  BY <1>2, LenProperties, ElementOfSeq
<1>4. ASSUME NEW k \in 1 .. Len(reads) PROVE part(k) \in Seq(Unit)
  <2> DEFINE l == reads[k]
             data == [i \in 1 .. l |-> Data(4, <<n, k>>, i)]
  <2>1. l \in 1 .. PacketMax /\ l \in Nat
    BY <1>3, Constants
  <2> HIDE DEF l
  <2>2. <<n, k>> \in Ids
    BY <1>1, Constants DEF Ids
  <2>3. \A i \in 1 .. l : Data(4, <<n, k>>, i) \in Unit
    BY <2>2, Constants DEF Data, Unit
  <2>4. data \in Seq(Unit) /\ Len(data) = l
    BY <2>1, <2>3
  <2> HIDE DEF data
  <2>5. Packet(4, <<n, k>>, data) \in Seq(Unit)
    BY <2>1, <2>2, <2>4, Constants, PacketTyped
  <2> QED BY <2>5 DEF data, l
<1> DEFINE parts == [k \in 1 .. Len(reads) |-> part(k)]
<1> HIDE DEF part
<1>5. parts \in Seq(Seq(Unit))
  BY <1>3, <1>4
<1>6. Reads(n) = Chained(parts)
  BY <1>3 DEF Reads, reads, part
<1> HIDE DEF parts
<1> QED BY <1>1, <1>5, <1>6, ChainedTyped

\* The server goes on: the client is as it was.
LEMMA PeerGoesOn ==
    ASSUME Inv, PeerSound', UNCHANGED <<tx, rx, op>>
    PROVE  Inv'
BY DEF Inv, OpSound, Rested, RxSound, IntoLiveFifo, HasData, Oldest

\* The server reads, answers and writes.
LEMMA PeerKeeps == ASSUME Inv, Peer PROVE Inv'
<1>0. /\ peer \in Peers /\ peer.heard \in Seq(Unit) /\ Len(peer.heard) \in Nat /\ peer.taken \in Nat
      /\ peer.reply \in Seq(Unit) /\ peer.in \in Seq(Unit) /\ Len(peer.in) \in Nat /\ peer.answered \in Nat
      /\ peer.taken <= Len(peer.heard) /\ Len(peer.heard) - peer.taken <= Window /\ op.packets \in Packets
      /\ Len(op.packets) \in Nat
  BY PeerFields, OpTyped DEF Inv, PeerSound
<1>1. CASE PeerRead
  <2>1. peer' = [peer EXCEPT !.taken = @ + 1] /\ peer.taken < Len(peer.heard)
    BY <1>1 DEF PeerRead
  <2>2. PICK L, T : L = Len(peer.heard) /\ T = peer.taken
    OBVIOUS
  <2>3. L \in Nat /\ T \in Nat /\ T < L /\ L - T <= Window /\ Window \in Nat
    BY <2>1, <2>2, <1>0, Constants
  <2>4. T + 1 \in Nat /\ T + 1 <= L /\ L - (T + 1) <= Window
    BY <2>3
  <2>5. peer' = [peer EXCEPT !.taken = T + 1]
    BY <2>1, <2>2
  <2>6. peer' \in Peers /\ peer'.heard = peer.heard /\ peer'.taken = T + 1
    BY <2>4, <2>5, <1>0 DEF Peers
  <2>7. Len(peer'.heard) = L
    BY <2>2, <2>6
  <2>8. peer'.taken <= Len(peer'.heard) /\ Len(peer'.heard) - peer'.taken <= Window
    BY <2>4, <2>6, <2>7
  <2>9. PeerSound'
    BY <2>6, <2>8 DEF PeerSound
  <2> QED BY <2>9, <1>1, PeerGoesOn DEF PeerRead
<1>2. CASE PeerAnswer
  <2> DEFINE n == peer.answered + 1
  <2>1. n \in 1 .. Len(op.packets) /\ n \in Nat
    BY <1>0, <1>2 DEF PeerAnswer
  <2>2. PICK answer \in {Reads(n) \o Response(n, 1), Response(n, 2)}
                         \cup (IF peer.patient THEN {} ELSE {Response(n, 1) \o Reads(n)}) :
            peer' = [peer EXCEPT !.answered = n, !.reply = @ \o answer]
    BY ZenonT(30), <1>2 DEF PeerAnswer
  <2> HIDE DEF n
  <2>3. Reads(n) \in Seq(Unit) /\ Response(n, 1) \in Seq(Unit) /\ Response(n, 2) \in Seq(Unit)
    <3>1. Reads(n) \in Seq(Unit) /\ n \in 1 .. MaxPackets
      BY <2>1, <1>0, ReadsTyped
    <3> QED BY <3>1, ResponseTyped
  <2>4. answer \in Seq(Unit)
    <3>1. Reads(n) \o Response(n, 1) \in Seq(Unit) /\ Response(n, 1) \o Reads(n) \in Seq(Unit)
      BY <2>3, ConcatProperties
    <3>2. answer = Reads(n) \o Response(n, 1) \/ answer = Response(n, 2) \/ answer = Response(n, 1) \o Reads(n)
      BY <2>2
    <3> QED BY <3>1, <3>2, <2>3
  <2> DEFINE a == peer.reply \o answer
  <2>5. a \in Seq(Unit)
    BY <2>4, <1>0, ConcatProperties
  <2>6. peer' = [peer EXCEPT !.answered = n, !.reply = a]
    BY <2>2
  <2> HIDE DEF a
  <2>7. peer' \in Peers /\ peer'.heard = peer.heard /\ peer'.taken = peer.taken
    BY <2>1, <2>5, <2>6, <1>0 DEF Peers
  <2>8. PeerSound'
    BY <2>7, <1>0 DEF PeerSound
  <2> QED BY <2>8, <1>2, PeerGoesOn DEF PeerAnswer
<1>3. CASE PeerWrite
  <2> DEFINE i == Append(peer.in, peer.reply[1])
             r == SubSeq(peer.reply, 2, Len(peer.reply))
  <2>1. peer' = [peer EXCEPT !.in = i, !.reply = r] /\ peer.reply # <<>>
    BY <1>3 DEF PeerWrite
  <2>2. Len(peer.reply) \in Nat \ {0}
    BY <2>1, <1>0, LenProperties, EmptySeq
  <2>3. i \in Seq(Unit)
    <3>1. peer.reply[1] \in Unit
      BY <2>2, <1>0, ElementOfSeq
    <3> QED BY <3>1, <1>0, AppendProperties
  <2>4. r \in Seq(Unit)
    <3>1. \A k \in 2 .. Len(peer.reply) : peer.reply[k] \in Unit
      BY <2>2, <1>0, ElementOfSeq
    <3> QED BY <3>1, <2>2, SubSeqProperties
  <2> HIDE DEF i, r
  <2>5. peer' \in Peers /\ peer'.heard = peer.heard /\ peer'.taken = peer.taken
    BY <2>1, <2>3, <2>4, <1>0 DEF Peers
  <2>6. PeerSound'
    BY <2>5, <1>0 DEF PeerSound
  <2> QED BY <2>6, <1>3, PeerGoesOn DEF PeerWrite
<1> QED BY <1>1, <1>2, <1>3 DEF Peer

-----------------------------------------------------------------------------
(* The first theorem.                                                      *)

\* At first nothing is queued and nothing has come.
LEMMA InitInv == Init => Inv
<1> SUFFICES ASSUME Init PROVE Inv
  OBVIOUS
<1>0. /\ <<>> \in Seq(Vect) /\ <<>> \in Seq(Unit) /\ <<>> \in Seq(TxFifo) /\ <<>> \in Seq(RxFifo) /\ <<>> \in Seq(Shapes)
      /\ Len(<<>>) = 0 /\ None \in Ids
  BY NoneTyped
<1>1. OpSound
  <2>1. op = [pc |-> "idle", packets |-> <<>>, sent |-> 0, done |-> 0, connection |-> 1]
    BY DEF Init
  <2>2. <<>> \in Packets
    BY <1>0, Constants DEF Packets
  <2> QED BY <2>1, <2>2, <1>0 DEF OpSound, Ops
<1>2. tx = [iov |-> <<>>, buf |-> <<>>, start |-> 0, fifos |-> <<>>, next |-> None, done |-> {}]
  BY DEF Init
<1>3. TxSound(tx, op.packets) /\ Rested
  <2>1. tx \in TxQueue /\ tx.iov = <<>> /\ tx.buf = <<>> /\ tx.start = 0 /\ tx.fifos = <<>> /\ tx.next = None
    BY <1>0, <1>2 DEF TxQueue
  <2>2. Sizes(tx)
    BY <2>1, <1>0, Constants DEF Sizes
  <2>3. FifosKnown(tx, op.packets)
    BY <2>1 DEF FifosKnown
  <2> QED BY <2>1, <2>2, <2>3 DEF TxSound, Rested
<1>4. RxSound
  <2>1. rx = [head |-> <<>>, data |-> <<>>, to |-> None, mux0 |-> FALSE, fifos |-> <<>>, full |-> {}]
    BY DEF Init
  <2>2. rx \in Receivers /\ rx.head = <<>> /\ rx.data = <<>> /\ rx.to = None
    BY <2>1, <1>0 DEF Receivers
  <2>3. Len(rx.head) = 0
    BY <2>2
  <2> QED BY <2>2, <2>3 DEF RxSound, IntoLiveFifo
<1>5. PeerSound
  <2>1. PICK patient \in BOOLEAN : peer = Connected(0, patient)
    BY DEF Init
  <2>2. peer \in Peers /\ peer.taken = 0 /\ peer.heard = <<>>
    BY <2>1, ConnectedSound
  <2>3. Len(peer.heard) = 0
    BY <2>2
  <2> QED BY <2>2, <2>3, Constants DEF PeerSound
<1> QED BY <1>1, <1>3, <1>4, <1>5 DEF Inv

\* Every step keeps the invariant.
LEMMA NextInv == Inv /\ [Next]_vars => Inv'
<1> SUFFICES ASSUME Inv, [Next]_vars PROVE Inv'
  OBVIOUS
<1>1. ASSUME NEW shape \in Shapes, Send(shape) PROVE Inv'
  BY <1>1, SendKeeps
<1>2. CASE ReceiveCmnd
  BY <1>2, ReceiveCmndKeeps
<1>3. CASE Proceed
  BY <1>3, QueueKeeps, FilledKeeps, LoadedKeeps, WriteKeeps, WaitForSpaceKeeps, RecvHeaderKeeps, RecvDataKeeps,
     EndDrainKeeps, EndPollKeeps DEF Proceed
<1>4. CASE Close
  BY <1>4, CloseKeeps
<1>5. CASE Reconnect
  BY <1>5, ReconnectKeeps
<1>6. CASE Peer
  BY <1>6, PeerKeeps
<1>7. CASE UNCHANGED vars
  BY <1>7, PeerGoesOn, PeerKept DEF vars, Inv
<1> QED BY <1>1, <1>2, <1>3, <1>4, <1>5, <1>6, <1>7 DEF Next

\* TCPLINK's transmit queue (jtag_tcplink.cpp, jtag_raw_fifo.cpp): its vectors and
\* its buffer never overflow the arrays they are in, the queue is empty when send
\* begins, and no vector points to a FIFO that is deleted, however little the kernel
\* takes at a time and whenever the connection breaks.
THEOREM Queues == Spec => []QueueSound
<1>1. Spec => []Inv
  BY InitInv, NextInv, PTL DEF Spec
<1> QED BY <1>1, InvQueueSound, PTL

-----------------------------------------------------------------------------
(* What is queued, as units: an action appends a packet to it, or sends    *)
(* the front of it.                                                        *)

\* What is behind the vectors of a queue in its buffer.
VectorsOf(t) == IF Len(t.buf) > t.start THEN Append(t.iov, LastVector(t)) ELSE t.iov
QueueOf(packets, t) == Stream(packets, t.buf, VectorsOf(t))

\* Lists one after the other.
LEMMA Associates ==
    ASSUME NEW T, NEW a \in Seq(T), NEW b \in Seq(T), NEW c \in Seq(T)
    PROVE  (a \o b) \o c = a \o (b \o c)
<1> DEFINE l == (a \o b) \o c
           r == a \o (b \o c)
<1>1. IsJoined(a \o b, a, b, T) /\ IsJoined(b \o c, b, c, T)
  BY Joined
<1>2. a \o b \in Seq(T) /\ b \o c \in Seq(T) /\ Len(a \o b) = Len(a) + Len(b) /\ Len(b \o c) = Len(b) + Len(c)
      /\ Len(a) \in Nat /\ Len(b) \in Nat /\ Len(c) \in Nat
  BY <1>1 DEF IsJoined
<1>3. /\ l \in Seq(T) /\ Len(l) = Len(a \o b) + Len(c)
      /\ \A i \in 1 .. Len(a \o b) + Len(c) : l[i] = IF i <= Len(a \o b) THEN (a \o b)[i] ELSE c[i - Len(a \o b)]
  BY <1>2, ConcatProperties
<1>4. /\ r \in Seq(T) /\ Len(r) = Len(a) + Len(b \o c)
      /\ \A i \in 1 .. Len(a) + Len(b \o c) : r[i] = IF i <= Len(a) THEN a[i] ELSE (b \o c)[i - Len(a)]
  BY <1>2, ConcatProperties
<1>5. \A i \in 1 .. Len(a) + Len(b) : (a \o b)[i] = IF i <= Len(a) THEN a[i] ELSE b[i - Len(a)]
  BY ConcatProperties
<1>6. \A i \in 1 .. Len(b) + Len(c) : (b \o c)[i] = IF i <= Len(b) THEN b[i] ELSE c[i - Len(b)]
  BY ConcatProperties
<1> HIDE DEF l, r
<1>7. ASSUME NEW i \in 1 .. Len(a) + Len(b) + Len(c) PROVE l[i] = r[i]
  <2>1. i \in Nat /\ i >= 1 /\ i <= Len(a) + Len(b) + Len(c)
    BY <1>2
  <2>2. CASE i <= Len(a)
    <3>1. i \in 1 .. Len(a) + Len(b) /\ i \in 1 .. Len(a) + Len(b \o c) /\ i \in 1 .. Len(a \o b) + Len(c)
          /\ i <= Len(a \o b)
      BY <2>1, <2>2, <1>2
    <3>2. l[i] = (a \o b)[i]
      BY <3>1, <1>3
    <3>3. (a \o b)[i] = a[i]
      BY <3>1, <2>2, <1>5
    <3>4. r[i] = a[i]
      BY <3>1, <2>2, <1>4
    <3> QED BY <3>2, <3>3, <3>4
  <2>3. CASE ~(i <= Len(a)) /\ i <= Len(a) + Len(b)
    <3>1. i - Len(a) \in 1 .. Len(b) /\ i - Len(a) \in 1 .. Len(b) + Len(c) /\ i - Len(a) <= Len(b)
      BY <2>1, <2>3, <1>2
    <3>2. r[i] = b[i - Len(a)]
      BY <3>1, <2>1, <2>3, <1>2, <1>4, <1>6
    <3> QED BY <3>2, <2>1, <2>3, <1>2, <1>3, <1>5
  <2>4. CASE ~(i <= Len(a) + Len(b))
    <3>1. i - Len(a) \in 1 .. Len(b) + Len(c) /\ ~(i - Len(a) <= Len(b)) /\ i - Len(a) - Len(b) = i - (Len(a) + Len(b))
          /\ ~(i <= Len(a))
      BY <2>1, <2>4, <1>2
    <3>2. r[i] = c[i - Len(a) - Len(b)]
      BY <3>1, <2>1, <1>2, <1>4, <1>6
    <3> QED BY <3>1, <3>2, <2>1, <2>4, <1>2, <1>3
  <2> QED BY <2>2, <2>3, <2>4
<1>8. Len(l) = Len(a) + Len(b) + Len(c) /\ Len(r) = Len(a) + Len(b) + Len(c)
  BY <1>2, <1>3, <1>4
<1>9. l = r
  BY <1>3, <1>4, <1>7, <1>8, SeqEqual
<1> QED BY <1>9 DEF l, r

\* What is left of a list grows with it.
LEMMA DroppedGrows ==
    ASSUME NEW T, NEW s \in Seq(T), NEW u \in Seq(T), NEW d \in Nat, d <= Len(s)
    PROVE  Dropped(s, d) \in Seq(T) /\ Dropped(s \o u, d) = Dropped(s, d) \o u
<1>1. <<>> \in Seq(T) /\ Len(<<>>) = 0 /\ <<>> \o s = s
  BY ConcatEmptySeq
<1>2. DropsTo(<<>>, s, u, d)
  BY <1>1, DropInSecond
<1>3. PICK z, e : z = s \o u /\ e = <<>>
  OBVIOUS
<1>4. d = Len(e) + d /\ z = (e \o s) \o u
  BY <1>1, <1>3
<1>5. Dropped(z, d) = Dropped(s, d) \o u
  BY <1>2, <1>3, <1>4 DEF DropsTo
<1>6. Dropped(s, d) \in Seq(T)
  <2>1. IsSlice(SubSeq(s, d + 1, Len(s)), s, d, Len(s), T)
    BY LenProperties, Slice
  <2> QED BY <2>1 DEF IsSlice, Dropped
<1> QED BY <1>3, <1>5, <1>6

\* Vectors point to the same units when the buffer grows.
LEMMA PointedGrows ==
    ASSUME NEW packets \in Packets, NEW buf \in Seq(Unit), NEW more \in Seq(Unit), NEW v \in Vect, There(packets, buf, v)
    PROVE  /\ There(packets, buf \o more, v)
           /\ PointedIn(packets, buf \o more, v) = PointedIn(packets, buf, v)
<1>0. IsJoined(buf \o more, buf, more, Unit)
  BY Joined
<1>1. buf \o more \in Seq(Unit) /\ Len(buf) \in Nat /\ Len(buf) <= Len(buf \o more)
      /\ \A i \in 1 .. Len(buf) : (buf \o more)[i] = buf[i]
  BY <1>0 DEF IsJoined
<1>2. v.from \in Nat /\ v.len \in Nat \ {0} /\ v.from + v.len \in Nat
  BY DEF Vect
<1>3. There(packets, buf \o more, v)
  BY <1>0, <1>1, <1>2 DEF There, IsJoined
<1>4. CASE v.of = None
  <2>1. v.from + v.len <= Len(buf)
    <3>1. ~IsMessage(packets, None) /\ ~Declared(packets, None)
      <4>1. DOMAIN packets = 1 .. Len(packets) /\ None[1] = 0
        BY LenProperties DEF Packets, None
      <4> QED BY <4>1 DEF IsMessage, Declared
    <3> QED BY <3>1, <1>4 DEF There
  <2> DEFINE k == v.from
             m == v.from + v.len
             p == SubSeq(buf, k + 1, m)
             q == SubSeq(buf \o more, k + 1, m)
  <2>2. k \in Nat /\ m \in Nat /\ k <= m /\ m <= Len(buf) /\ m <= Len(buf \o more)
    <3>1. PICK L, z : L = Len(buf) /\ z = Len(buf \o more)
      OBVIOUS
    <3>2. L \in Nat /\ z \in Nat /\ L <= z /\ m <= L
      BY <3>1, <2>1, <1>0, <1>1 DEF IsJoined
    <3>3. k \in Nat /\ m \in Nat /\ k <= m
      BY <1>2
    <3> HIDE DEF k, m
    <3>4. m <= z
      BY <3>2, <3>3
    <3> QED BY <3>1, <3>2, <3>3, <3>4
  <2>3. PointedIn(packets, buf \o more, v) = q /\ PointedIn(packets, buf, v) = p
    BY <1>4 DEF PointedIn
  <2> HIDE DEF k, m
  <2>4. IsSlice(p, buf, k, m, Unit) /\ IsSlice(q, buf \o more, k, m, Unit)
    BY <2>2, <1>1, Slice
  <2> HIDE DEF p, q
  <2>5. p \in Seq(Unit) /\ q \in Seq(Unit) /\ Len(p) = m - k /\ Len(q) = m - k
        /\ \A i \in 1 .. m - k : p[i] = buf[k + i] /\ q[i] = (buf \o more)[k + i]
    BY <2>4 DEF IsSlice
  <2>6. \A i \in 1 .. m - k : k + i \in 1 .. Len(buf)
    BY <2>2, <1>1
  <2>7. \A i \in 1 .. m - k : p[i] = q[i]
    BY <2>5, <2>6, <1>1
  <2>8. Len(p) = Len(q) /\ \A i \in 1 .. Len(p) : p[i] = q[i]
    BY <2>5, <2>7
  <2>9. p = q
    BY <2>5, <2>8, SeqEqual
  <2> QED BY <1>3, <2>3, <2>9
<1>5. CASE v.of # None
  BY <1>3, <1>5 DEF PointedIn
<1> QED BY <1>3, <1>4, <1>5

\* A longer buffer does not change what the vectors stand for.
LEMMA StreamGrows ==
    ASSUME NEW packets \in Packets, NEW buf \in Seq(Unit), NEW more \in Seq(Unit), NEW vs \in Seq(Vect),
           AllThere(packets, buf, vs)
    PROVE  AllThere(packets, buf \o more, vs) /\ Stream(packets, buf \o more, vs) = Stream(packets, buf, vs)
<1>1. DOMAIN vs = 1 .. Len(vs) /\ \A i \in 1 .. Len(vs) : vs[i] \in Vect
  BY LenProperties, ElementOfSeq
<1>2. \A i \in DOMAIN vs : There(packets, buf, vs[i])
  BY DEF AllThere
<1>3. \A i \in DOMAIN vs : /\ There(packets, buf \o more, vs[i])
                           /\ PointedIn(packets, buf \o more, vs[i]) = PointedIn(packets, buf, vs[i])
  BY <1>1, <1>2, PointedGrows
<1>4. Pointeds(packets, buf \o more, vs) = Pointeds(packets, buf, vs)
  BY <1>3 DEF Pointeds
<1> QED BY <1>3, <1>4 DEF AllThere, Stream

\* What is queued is what the vectors point to and the rest of the buffer.
Behind(packets, t) ==
    /\ t.iov \in Seq(Vect) /\ t.buf \in Seq(Unit) /\ AllThere(packets, t.buf, t.iov)
    /\ QueueOf(packets, t) = Stream(packets, t.buf, t.iov) \o Dropped(t.buf, t.start)
    /\ QueueOf(packets, t) \in Seq(Unit)
    /\ Stream(packets, t.buf, t.iov) \in Seq(Unit) /\ Dropped(t.buf, t.start) \in Seq(Unit)

\* The queue is what the vectors stand for and the end of the buffer behind them.
LEMMA QueueBehind ==
    ASSUME NEW packets \in Packets, NEW t, TxSound(t, packets)
    PROVE  Behind(packets, t)
<1>1. /\ t.iov \in Seq(Vect) /\ t.buf \in Seq(Unit) /\ t.start \in Nat
      /\ Len(t.iov) \in Nat /\ Len(t.buf) \in Nat /\ DOMAIN t.iov = 1 .. Len(t.iov)
      /\ (\A i \in 1 .. Len(t.iov) : t.iov[i] \in Vect) /\ t.start <= Len(t.buf)
  BY TxFields DEF TxSound, Sizes
<1>2. AllThere(packets, t.buf, t.iov)
  <2> SUFFICES ASSUME NEW i \in DOMAIN t.iov PROVE There(packets, t.buf, t.iov[i])
    BY DEF AllThere
  <2>1. Points(t, packets, t.iov[i]) /\ t.iov[i] \in Vect
    BY <1>1 DEF TxSound
  <2>2. t.iov[i].from + t.iov[i].len \in Nat
    BY <2>1 DEF Vect
  <2>3. PICK m, L : m = t.iov[i].from + t.iov[i].len /\ L = Len(t.buf)
    OBVIOUS
  <2>4. m <= t.start => m <= L
    BY <2>2, <2>3, <1>1
  <2> QED BY <2>1, <2>3, <2>4 DEF Points, There
<1>3. Stream(packets, t.buf, t.iov) \in Seq(Unit)
  BY <1>1, <1>2, StreamTyped
<1>4. IsSlice(Dropped(t.buf, t.start), t.buf, t.start, Len(t.buf), Unit)
  BY <1>1, Slice DEF Dropped
<1>5. Dropped(t.buf, t.start) \in Seq(Unit)
  BY <1>4 DEF IsSlice
<1>6. QueueOf(packets, t) = Stream(packets, t.buf, t.iov) \o Dropped(t.buf, t.start)
  <2>1. CASE Len(t.buf) > t.start
    <3> DEFINE v == LastVector(t)
    <3>1. v = [of |-> None, from |-> t.start, len |-> Len(t.buf) - t.start]
      BY DEF LastVector, Vector
    <3>2. v.of = None /\ v.from = t.start /\ v.len = Len(t.buf) - t.start
      BY <3>1
    <3>3. PICK L, s : L = Len(t.buf) /\ s = t.start
      OBVIOUS
    <3>4. L \in Nat /\ s \in Nat /\ L > s
      BY <3>3, <1>1, <2>1
    <3>5. L - s \in Nat \ {0} /\ s + (L - s) = L
      BY <3>4
    <3>6. v \in Vect /\ v.from + v.len = L
      BY <3>1, <3>2, <3>3, <3>4, <3>5, NoneTyped DEF Vect
    <3>7. There(packets, t.buf, v)
      BY <3>2, <3>3, <3>4, <3>6 DEF There
    <3>8. PointedIn(packets, t.buf, v) = Dropped(t.buf, t.start)
      BY <3>2, <3>3, <3>6 DEF PointedIn, Dropped
    <3>9. VectorsOf(t) = Append(t.iov, v)
      BY <2>1 DEF VectorsOf
    <3> HIDE DEF v
    <3>10. Append(t.iov, v) = t.iov \o <<v>>
      BY <3>6, <1>1, AppendIsConcat
    <3>11. <<v>> \in Seq(Vect) /\ AllThere(packets, t.buf, <<v>>) /\ Stream(packets, t.buf, <<v>>) = Dropped(t.buf, t.start)
      BY <3>6, <3>7, <3>8, <1>1, StreamOne
    <3>12. Stream(packets, t.buf, t.iov \o <<v>>) = Stream(packets, t.buf, t.iov) \o Stream(packets, t.buf, <<v>>)
      BY <3>11, <1>1, <1>2, StreamConcat
    <3> QED BY <3>9, <3>10, <3>11, <3>12 DEF QueueOf
  <2>2. CASE ~(Len(t.buf) > t.start)
    <3>1. VectorsOf(t) = t.iov
      BY <2>2 DEF VectorsOf
    <3>2. Len(Dropped(t.buf, t.start)) = 0
      BY <2>2, <1>1, <1>4 DEF IsSlice
    <3>3. Dropped(t.buf, t.start) = <<>>
      BY <3>2, <1>5, EmptySeq
    <3> QED BY <3>1, <3>3, <1>3, ConcatEmptySeq DEF QueueOf
  <2> QED BY <2>1, <2>2
<1>7. QueueOf(packets, t) \in Seq(Unit)
  BY <1>3, <1>5, <1>6, ConcatProperties
<1> QED BY <1>1, <1>2, <1>3, <1>5, <1>6, <1>7 DEF Behind

-----------------------------------------------------------------------------
(* The stream: packets one after the other, each with the units it says.   *)

\* Every unit is a header, or belongs to the header before it.
Packed(s) ==
    /\ \A i, j \in 1 .. Len(s) : i < j /\ s[i].at = 0 /\ j <= i + s[i].len => s[j].at > 0 /\ s[j].of = s[i].of
    /\ \A i \in 1 .. Len(s) : s[i].at > 0 => \E j \in 1 .. i - 1 : s[j].at = 0 /\ i <= j + s[j].len

\* No packet is cut at the end.
Whole(s) == \A i \in 1 .. Len(s) : s[i].at = 0 => i + s[i].len <= Len(s)

\* The stream s with one more packet.
OneMore(z, s, id, from, n) ==
    /\ z \in Seq(Unit) /\ s \in Seq(Unit) /\ Len(s) \in Nat /\ Len(z) = Len(s) + 1 + n
    /\ n \in Nat \ {0} /\ from \in Nat
    /\ \A i \in 1 .. Len(s) : z[i] = s[i]
    /\ z[Len(s) + 1].at = 0 /\ z[Len(s) + 1].len = n
    /\ \A i \in Len(s) + 1 .. Len(s) + 1 + n : z[i].of = id
    /\ \A i \in Len(s) + 2 .. Len(s) + 1 + n : z[i].at = from + (i - (Len(s) + 1))

\* Appending a packet is what OneMore says.
LEMMA OneMoreIs ==
    ASSUME NEW s \in Seq(Unit), NEW mux \in 0 .. 15, NEW id \in Ids, NEW from \in Nat, NEW n \in 1 .. PacketMax
    PROVE  OneMore(s \o SentPacket(mux, id, from, n), s, id, from, n)
<1> DEFINE h == Header(mux, n, id)
           d == UnitsOfData(mux, id, from, n)
           p == SentPacket(mux, id, from, n)
           z == s \o p
<1>1. /\ d \in Seq(Unit) /\ Len(d) = n /\ <<h>> \in Seq(Unit) /\ p \in Seq(Unit) /\ Len(p) = n + 1 /\ n \in Nat \ {0}
      /\ Len(s) \in Nat
  <2>1. d \in Seq(Unit) /\ Len(d) = n /\ <<h>> \in Seq(Unit) /\ p \in Seq(Unit) /\ Len(p) = n + 1
    BY SentPacketTyped
  <2>2. n \in Nat \ {0} /\ Len(s) \in Nat
    BY Constants, LenProperties
  <2> QED BY <2>1, <2>2
<1>2. /\ z \in Seq(Unit) /\ Len(z) = Len(s) + 1 + n
      /\ \A i \in 1 .. Len(s) + (n + 1) : z[i] = IF i <= Len(s) THEN s[i] ELSE p[i - Len(s)]
  <2>1. z = s \o p
    OBVIOUS
  <2> HIDE DEF p, z
  <2>2. /\ z \in Seq(Unit) /\ Len(z) = Len(s) + Len(p)
        /\ \A i \in 1 .. Len(s) + Len(p) : z[i] = IF i <= Len(s) THEN s[i] ELSE p[i - Len(s)]
    BY <2>1, <1>1, ConcatProperties
  <2>3. Len(s) + (n + 1) = Len(s) + 1 + n
    BY <1>1
  <2> QED BY <2>2, <2>3, <1>1
<1>3. p[1] = h /\ \A k \in 1 .. n : p[k + 1] = d[k]
  <2>1. p = <<h>> \o d
    BY DEF SentPacket
  <2> HIDE DEF h, d, p
  <2>2. IsJoined(p, <<h>>, d, Unit)
    BY <2>1, <1>1, Joined
  <2>3. Len(<<h>>) = 1 /\ <<h>>[1] = h
    OBVIOUS
  <2>4. \A k \in 1 .. n : p[1 + k] = d[k]
    BY <2>2, <2>3, <1>1 DEF IsJoined
  <2>5. p[1] = h
    BY <2>2, <2>3 DEF IsJoined
  <2>6. \A k \in 1 .. n : k + 1 = 1 + k
    OBVIOUS
  <2> QED BY <2>4, <2>5, <2>6
<1>4. h.at = 0 /\ h.len = n /\ h.of = id
  BY DEF Header
<1>5. \A k \in 1 .. n : d[k].at = from + k /\ d[k].of = id
  BY DEF UnitsOfData, Data
<1> HIDE DEF h, d, p, z
<1>6. PICK L : L = Len(s)
  OBVIOUS
<1>7. L \in Nat
  BY <1>1, <1>6
<1>8. z[L + 1] = h
  <2>1. L + 1 \in 1 .. L + (n + 1) /\ ~(L + 1 <= L) /\ L + 1 - L = 1
    BY <1>7, <1>1
  <2> QED BY <2>1, <1>2, <1>3, <1>6
<1>9. \A i \in L + 2 .. L + 1 + n : z[i] = d[i - (L + 1)] /\ i - (L + 1) \in 1 .. n
  <2> TAKE i \in L + 2 .. L + 1 + n
  <2>1. PICK k : k = i - (L + 1)
    OBVIOUS
  <2>2. k \in 1 .. n /\ i \in 1 .. L + (n + 1) /\ ~(i <= L) /\ i - L = k + 1
    BY <2>1, <1>7, <1>1
  <2>3. z[i] = p[i - L]
    BY <2>2, <1>2, <1>6
  <2>4. z[i] = d[k]
    BY <2>2, <2>3, <1>3
  <2> QED BY <2>1, <2>2, <2>4
<1>10. \A i \in 1 .. L : z[i] = s[i]
  BY <1>2, <1>6, <1>7, <1>1
<1>11. \A i \in L + 1 .. L + 1 + n : i = L + 1 \/ i \in L + 2 .. L + 1 + n
  BY <1>7, <1>1
<1>12. \A i \in L + 1 .. L + 1 + n : z[i].of = id
  BY <1>11, <1>8, <1>9, <1>4, <1>5
<1>13. \A i \in L + 2 .. L + 1 + n : z[i].at = from + (i - (L + 1))
  BY <1>9, <1>5
<1>14. OneMore(z, s, id, from, n)
  BY <1>1, <1>2, <1>4, <1>6, <1>8, <1>10, <1>12, <1>13 DEF OneMore
<1> QED BY <1>14 DEF z, p

\* It is packed when the stream before was.
LEMMA PackedGrows ==
    ASSUME NEW z, NEW s, NEW id, NEW from, NEW n, OneMore(z, s, id, from, n), Packed(s), Whole(s)
    PROVE  Packed(z) /\ Whole(z)
<1>1. PICK L : L = Len(s)
  OBVIOUS
<1>2. /\ L \in Nat /\ n \in Nat \ {0} /\ from \in Nat /\ Len(z) = L + 1 + n
      /\ \A i \in 1 .. L : z[i] = s[i]
      /\ z[L + 1].at = 0 /\ z[L + 1].len = n
      /\ \A i \in L + 1 .. L + 1 + n : z[i].of = id
      /\ \A i \in L + 2 .. L + 1 + n : z[i].at = from + (i - (L + 1))
  BY <1>1 DEF OneMore
<1>3. \A i \in 1 .. L : s[i].at \in Nat /\ s[i].len \in Nat
  <2>1. s \in Seq(Unit)
    BY DEF OneMore
  <2>2. \A i \in 1 .. L : s[i] \in Unit
    BY <2>1, <1>1, ElementOfSeq
  <2> QED BY <2>2, Constants DEF Unit
<1>4. \A i \in L + 2 .. L + 1 + n : z[i].at > 0
  BY <1>2
<1>5. \A i \in 1 .. L + 1 + n : i \in 1 .. L \/ i = L + 1 \/ i \in L + 2 .. L + 1 + n
  BY <1>2
<1>6. ASSUME NEW i \in 1 .. L + 1 + n, NEW j \in 1 .. L + 1 + n, i < j, z[i].at = 0, j <= i + z[i].len
      PROVE  z[j].at > 0 /\ z[j].of = z[i].of
  <2>1. CASE i \in 1 .. L
    <3>1. z[i] = s[i] /\ s[i].len \in Nat /\ i + s[i].len <= L
      BY <2>1, <1>1, <1>2, <1>3, <1>6 DEF Whole
    <3>2. j \in 1 .. L /\ z[j] = s[j]
      BY <3>1, <2>1, <1>2, <1>6
    <3> QED BY <3>1, <3>2, <2>1, <1>1, <1>6 DEF Packed
  <2>2. CASE i = L + 1
    <3>1. j \in L + 2 .. L + 1 + n /\ j \in L + 1 .. L + 1 + n /\ i \in L + 1 .. L + 1 + n
      BY <2>2, <1>2, <1>6
    <3> QED BY <3>1, <1>2, <1>4
  <2>3. CASE i \in L + 2 .. L + 1 + n
    BY <2>3, <1>2, <1>4, <1>6
  <2> QED BY <2>1, <2>2, <2>3, <1>5
<1>7. ASSUME NEW i \in 1 .. L + 1 + n, z[i].at > 0 PROVE \E j \in 1 .. i - 1 : z[j].at = 0 /\ i <= j + z[j].len
  <2>1. CASE i \in 1 .. L
    <3>1. PICK j \in 1 .. i - 1 : s[j].at = 0 /\ i <= j + s[j].len
      BY <2>1, <1>1, <1>2, <1>7 DEF Packed
    <3>2. j \in 1 .. L
      BY <2>1, <1>2
    <3> QED BY <3>1, <3>2, <1>2
  <2>2. CASE i = L + 1
    BY <2>2, <1>2, <1>7
  <2>3. CASE i \in L + 2 .. L + 1 + n
    <3>1. L + 1 \in 1 .. i - 1 /\ i <= L + 1 + n
      BY <2>3, <1>2
    <3> QED BY <3>1, <1>2
  <2> QED BY <2>1, <2>2, <2>3, <1>5
<1>8. ASSUME NEW i \in 1 .. L + 1 + n, z[i].at = 0 PROVE i + z[i].len <= L + 1 + n
  <2>1. CASE i \in 1 .. L
    <3>1. z[i] = s[i] /\ s[i].len \in Nat /\ i + s[i].len <= L
      BY <2>1, <1>1, <1>2, <1>3, <1>8 DEF Whole
    <3> QED BY <3>1, <1>2
  <2>2. CASE i = L + 1
    BY <2>2, <1>2
  <2>3. CASE i \in L + 2 .. L + 1 + n
    BY <2>3, <1>2, <1>4, <1>8
  <2> QED BY <2>1, <2>2, <2>3, <1>5
<1> QED BY <1>2, <1>6, <1>7, <1>8 DEF Packed, Whole

\* And the beginning of a packed stream is packed.
LEMMA PackedBegins ==
    ASSUME NEW a \in Seq(Unit), NEW b \in Seq(Unit), Packed(a \o b)
    PROVE  Packed(a)
<1>1. IsJoined(a \o b, a, b, Unit)
  BY Joined
<1>2. Len(a) \in Nat /\ \A i \in 1 .. Len(a) : i \in 1 .. Len(a \o b) /\ (a \o b)[i] = a[i]
  BY <1>1 DEF IsJoined
<1>3. \A i \in 1 .. Len(a) : \A j \in 1 .. i - 1 : j \in 1 .. Len(a)
  BY <1>2
<1> QED BY <1>2, <1>3 DEF Packed

\* The units of a FIFO's or a message's data in the first m units of the stream.
UnitsIn(s, m, id) == {i \in 1 .. m : s[i].at > 0 /\ s[i].of = id}
CountTo(s, m, id) == Cardinality(UnitsIn(s, m, id))

\* Counts are numbers.
LEMMA CountTyped ==
    ASSUME NEW s, NEW m \in Nat, NEW id
    PROVE  IsFiniteSet(UnitsIn(s, m, id)) /\ CountTo(s, m, id) \in Nat
<1>1. IsFiniteSet(1 .. m)
  BY FS_Interval
<1>2. UnitsIn(s, m, id) \in SUBSET (1 .. m)
  BY DEF UnitsIn
<1>3. IsFiniteSet(UnitsIn(s, m, id))
  BY <1>1, <1>2, FS_Subset
<1> QED BY <1>3, FS_CardinalityType DEF CountTo

\* One more packet is that many more of its units.
CountsOn(z, s, id, n) ==
    /\ \A m \in 0 .. Len(s) : \A x : CountTo(z, m, x) = CountTo(s, m, x)
    /\ \A k \in 0 .. n : CountTo(z, Len(s) + 1 + k, id) = CountTo(s, Len(s), id) + k
    /\ \A x : x # id => CountTo(z, Len(z), x) = CountTo(s, Len(s), x)
\* A packet adds its units to the count of what it carries, and to no other.
LEMMA CountGrows ==
    ASSUME NEW z, NEW s, NEW id, NEW from, NEW n, OneMore(z, s, id, from, n)
    PROVE  CountsOn(z, s, id, n)
<1>1. PICK L : L = Len(s)
  OBVIOUS
<1>2. /\ L \in Nat /\ n \in Nat \ {0} /\ from \in Nat /\ Len(z) = L + 1 + n
      /\ \A i \in 1 .. L : z[i] = s[i]
      /\ z[L + 1].at = 0
      /\ \A i \in L + 1 .. L + 1 + n : z[i].of = id
      /\ \A i \in L + 2 .. L + 1 + n : z[i].at = from + (i - (L + 1))
  BY <1>1 DEF OneMore
<1>3. \A i \in L + 2 .. L + 1 + n : z[i].at > 0 /\ z[i].of = id
  BY <1>2
<1>4. ASSUME NEW m \in 0 .. L, NEW x PROVE CountTo(z, m, x) = CountTo(s, m, x)
  <2>1. \A i \in 1 .. m : i \in 1 .. L
    BY <1>2
  <2>2. UnitsIn(z, m, x) = UnitsIn(s, m, x)
    BY <2>1, <1>2 DEF UnitsIn
  <2> QED BY <2>2 DEF CountTo
<1>5. ASSUME NEW k \in 0 .. n PROVE CountTo(z, L + 1 + k, id) = CountTo(s, L, id) + k
  <2> DEFINE A == UnitsIn(s, L, id)
             B == (L + 2) .. (L + 1 + k)
             C == UnitsIn(z, L + 1 + k, id)
  <2>1. IsFiniteSet(A) /\ Cardinality(A) = CountTo(s, L, id) /\ CountTo(s, L, id) \in Nat
    BY <1>2, CountTyped DEF CountTo
  <2>2. IsFiniteSet(B) /\ Cardinality(B) = k
    <3>1. PICK a, b : a = L + 2 /\ b = L + 1 + k
      OBVIOUS
    <3>2. a \in Int /\ b \in Int /\ B = a .. b
      BY <3>1, <1>2
    <3>3. IsFiniteSet(B) /\ Cardinality(B) = IF a > b THEN 0 ELSE b - a + 1
      BY <3>2, FS_Interval
    <3>4. (IF a > b THEN 0 ELSE b - a + 1) = k
      BY <3>1, <1>2
    <3> QED BY <3>3, <3>4
  <2>3. A \cap B = {}
    <3>1. A \subseteq 1 .. L
      BY DEF UnitsIn
    <3> HIDE DEF A
    <3>2. \A i \in 1 .. L : ~(i \in L + 2 .. L + 1 + k)
      BY <1>2
    <3> QED BY <3>1, <3>2
  <2>4. C = A \cup B
    <3>1. ASSUME NEW i \in C PROVE i \in A \cup B
      <4>1. i \in 1 .. L + 1 + k /\ z[i].at > 0 /\ z[i].of = id
        BY <3>1 DEF UnitsIn
      <4>2. i # L + 1
        BY <4>1, <1>2
      <4>3. i \in 1 .. L \/ i \in L + 2 .. L + 1 + k
        BY <4>1, <4>2, <1>2
      <4>4. CASE i \in 1 .. L
        BY <4>1, <4>4, <1>2 DEF UnitsIn
      <4> QED BY <4>3, <4>4
    <3>2. ASSUME NEW i \in A PROVE i \in C
      <4>1. i \in 1 .. L /\ s[i].at > 0 /\ s[i].of = id
        BY <3>2 DEF UnitsIn
      <4>2. i \in 1 .. L + 1 + k /\ z[i] = s[i]
        BY <4>1, <1>2
      <4> QED BY <4>1, <4>2 DEF UnitsIn
    <3>3. ASSUME NEW i \in B PROVE i \in C
      <4>1. i \in L + 2 .. L + 1 + n /\ i \in 1 .. L + 1 + k
        BY <1>2
      <4> QED BY <4>1, <1>3 DEF UnitsIn
    <3> HIDE DEF A, B, C
    <3> QED BY <3>1, <3>2, <3>3
  <2> HIDE DEF A, B, C
  <2>5. Cardinality(C) = Cardinality(A) + Cardinality(B) - Cardinality(A \cap B)
    BY <2>1, <2>2, <2>4, FS_Union
  <2>6. Cardinality(A \cap B) = 0
    BY <2>3, FS_EmptySet
  <2>7. Cardinality(C) = CountTo(s, L, id) + k
    <3>1. PICK c, a : c = Cardinality(C) /\ a = CountTo(s, L, id)
      OBVIOUS
    <3>2. c = a + k - 0 /\ a \in Nat /\ k \in Nat
      BY <3>1, <2>1, <2>2, <2>5, <2>6
    <3> QED BY <3>1, <3>2
  <2> QED BY <2>7 DEF C, CountTo
<1>6. ASSUME NEW x, x # id PROVE CountTo(z, L + 1 + n, x) = CountTo(s, L, x)
  <2>1. ASSUME NEW i \in UnitsIn(z, L + 1 + n, x) PROVE i \in UnitsIn(s, L, x)
    <3>1. i \in 1 .. L + 1 + n /\ z[i].at > 0 /\ z[i].of = x
      BY <2>1 DEF UnitsIn
    <3>2. i \notin L + 1 .. L + 1 + n
      BY <3>1, <1>2, <1>6
    <3>3. i \in 1 .. L
      BY <3>1, <3>2, <1>2
    <3> QED BY <3>1, <3>3, <1>2 DEF UnitsIn
  <2>2. ASSUME NEW i \in UnitsIn(s, L, x) PROVE i \in UnitsIn(z, L + 1 + n, x)
    <3>1. i \in 1 .. L /\ s[i].at > 0 /\ s[i].of = x
      BY <2>2 DEF UnitsIn
    <3>2. i \in 1 .. L + 1 + n /\ z[i] = s[i]
      BY <3>1, <1>2
    <3> QED BY <3>1, <3>2 DEF UnitsIn
  <2>3. UnitsIn(z, L + 1 + n, x) = UnitsIn(s, L, x)
    BY <2>1, <2>2
  <2> QED BY <2>3 DEF CountTo
<1> QED BY <1>1, <1>2, <1>4, <1>5, <1>6 DEF CountsOn

-----------------------------------------------------------------------------
(* Its order.                                                              *)

\* Unit b may come after a: "peer expects fifos to be sent" one after the other.
MayFollow(packets, a, b) ==
    \/ a = b
    \/ a[1] < b[1]
    \/ a[1] = b[1] /\ a[2] < b[2]
    \/ a[1] = b[1] /\ b[2] > 0 /\ packets[b[1]].write[b[2]].interleave

Ordered(packets, s) == \A j \in 1 .. Len(s) : s[j].at > 0 =>
    /\ s[j].at = 1 + CountTo(s, j - 1, s[j].of)
    /\ \A i \in 1 .. j - 1 : s[i].at > 0 => MayFollow(packets, s[i].of, s[j].of)

\* A packet of id may come next, from that unit of its data on.
NextFits(packets, s, id, from) ==
    /\ CountTo(s, Len(s), id) = from
    /\ \A i \in 1 .. Len(s) : s[i].at > 0 => MayFollow(packets, s[i].of, id)

\* A packet that fits next keeps the stream in order.
LEMMA OrderedGrows ==
    ASSUME NEW z, NEW s, NEW id, NEW from, NEW n, OneMore(z, s, id, from, n), NEW packets,
           Ordered(packets, s), NextFits(packets, s, id, from)
    PROVE  Ordered(packets, z)
<1>1. PICK L : L = Len(s)
  OBVIOUS
<1>2. /\ L \in Nat /\ n \in Nat \ {0} /\ from \in Nat /\ Len(z) = L + 1 + n
      /\ \A i \in 1 .. L : z[i] = s[i]
      /\ z[L + 1].at = 0
      /\ \A i \in L + 1 .. L + 1 + n : z[i].of = id
      /\ \A i \in L + 2 .. L + 1 + n : z[i].at = from + (i - (L + 1))
  BY <1>1 DEF OneMore
<1>3. /\ \A m \in 0 .. L : \A x : CountTo(z, m, x) = CountTo(s, m, x)
      /\ \A k \in 0 .. n : CountTo(z, L + 1 + k, id) = CountTo(s, L, id) + k
  BY <1>1, CountGrows DEF CountsOn
<1>4. CountTo(s, L, id) = from
  BY <1>1 DEF NextFits
<1> SUFFICES ASSUME NEW j \in 1 .. L + 1 + n, z[j].at > 0
             PROVE  /\ z[j].at = 1 + CountTo(z, j - 1, z[j].of)
                    /\ \A i \in 1 .. j - 1 : z[i].at > 0 => MayFollow(packets, z[i].of, z[j].of)
  BY <1>2 DEF Ordered
<1>5. CASE j \in 1 .. L
  <2>1. z[j] = s[j] /\ j - 1 \in 0 .. L /\ s[j].at > 0
    BY <1>2, <1>5
  <2>2. s[j].at = 1 + CountTo(s, j - 1, s[j].of)
    BY <2>1, <1>1, <1>5 DEF Ordered
  <2>3. CountTo(z, j - 1, s[j].of) = CountTo(s, j - 1, s[j].of)
    BY <2>1, <1>3
  <2>4. ASSUME NEW i \in 1 .. j - 1, z[i].at > 0 PROVE MayFollow(packets, z[i].of, z[j].of)
    <3>1. i \in 1 .. L /\ z[i] = s[i]
      BY <1>2, <1>5
    <3> QED BY <3>1, <2>1, <2>4, <1>1, <1>5 DEF Ordered
  <2> QED BY <2>1, <2>2, <2>3, <2>4
<1>6. CASE j \in L + 2 .. L + 1 + n
  <2>1. PICK k : k = j - (L + 1)
    OBVIOUS
  <2>2. k \in 1 .. n /\ k - 1 \in 0 .. n /\ j - 1 = L + 1 + (k - 1) /\ j \in L + 1 .. L + 1 + n
    BY <2>1, <1>2, <1>6
  <2>3. z[j].at = from + k /\ z[j].of = id
    BY <2>1, <2>2, <1>2, <1>6
  <2>4. CountTo(z, j - 1, id) = from + (k - 1)
    BY <2>2, <1>3, <1>4
  <2>5. z[j].at = 1 + CountTo(z, j - 1, z[j].of)
    BY <2>2, <2>3, <2>4, <1>2
  <2>6. ASSUME NEW i \in 1 .. j - 1, z[i].at > 0 PROVE MayFollow(packets, z[i].of, z[j].of)
    <3>1. CASE i \in 1 .. L
      BY <3>1, <2>3, <2>6, <1>1, <1>2 DEF NextFits
    <3>2. CASE i \notin 1 .. L
      <4>1. i \in L + 1 .. L + 1 + n
        BY <3>2, <1>2, <2>2
      <4> QED BY <4>1, <2>3, <1>2 DEF MayFollow
    <3> QED BY <3>1, <3>2
  <2> QED BY <2>5, <2>6
<1>7. j \in 1 .. L \/ j \in L + 2 .. L + 1 + n
  <2>1. j # L + 1
    BY <1>2
  <2> QED BY <2>1, <1>2
<1> QED BY <1>5, <1>6, <1>7

-----------------------------------------------------------------------------
(* What is queued grows by whole packets, and shrinks from the front.      *)

\* add_packet, part by part.
LEMMA AddPacketParts ==
    ASSUME NEW packets, NEW t, TxSound(t, packets), NEW mux \in 0 .. 15, NEW len \in 1 .. PacketMax,
           NEW id \in Ids, NEW from \in Nat,
           NEW h, h = Header(mux, len, id), NEW lv, lv = Vector(None, t.start, Len(t.buf) + 1 - t.start),
           NEW v, v = Vector(id, from, len), NEW r, r = AddPacket(t, mux, id, from, len)
    PROVE  /\ h \in Unit /\ lv \in Vect /\ v \in Vect
           /\ IsRequeued(r, t, (t.iov \o <<lv>>) \o <<v>>, t.buf \o <<h>>, Len(t.buf) + 1)
<1> DEFINE b == [t EXCEPT !.buf = Append(@, h)]
<1>0. t \in TxQueue /\ t.buf \in Seq(Unit) /\ t.iov \in Seq(Vect) /\ t.start \in Nat /\ Len(t.buf) \in Nat
      /\ Len(t.iov) \in Nat /\ t.start <= Len(t.buf)
  BY TxFields DEF TxSound, Sizes
<1>1. h \in Unit /\ Append(t.buf, h) \in Seq(Unit) /\ Len(Append(t.buf, h)) = Len(t.buf) + 1
  BY <1>0, Constants, AppendProperties DEF Header, Unit
<1>2. b \in TxQueue /\ b.buf = Append(t.buf, h) /\ b.iov = t.iov /\ b.start = t.start /\ b.fifos = t.fifos /\ b.next = t.next /\ b.done = t.done
  <2>1. b = Requeued(t, t.iov, Append(t.buf, h), t.start)
    BY <1>0 DEF TxQueue, Requeued
  <2> HIDE DEF b
  <2>2. IsRequeued(b, t, t.iov, Append(t.buf, h), t.start)
    BY <2>1, <1>0, <1>1, TxUpdated
  <2> QED BY <2>2 DEF IsRequeued
<1>3. Len(b.buf) = Len(t.buf) + 1
  BY <1>1, <1>2
<1>4. LastVector(b) = lv
  <2>1. LastVector(b) = Vector(None, b.start, Len(b.buf) - b.start)
    BY DEF LastVector
  <2> HIDE DEF b
  <2>2. PICK m, k : m = Len(b.buf) - b.start /\ k = Len(t.buf) + 1 - t.start
    OBVIOUS
  <2>3. m = k
    <3>1. PICK x, y, w, z : x = Len(b.buf) /\ y = b.start /\ w = Len(t.buf) /\ z = t.start
      OBVIOUS
    <3>2. x = w + 1 /\ y = z /\ m = x - y /\ k = w + 1 - z /\ w \in Nat /\ z \in Nat
      BY <3>1, <2>2, <1>0, <1>2, <1>3
    <3> QED BY <3>2
  <2>4. LastVector(b) = Vector(None, t.start, m) /\ lv = Vector(None, t.start, k)
    BY <2>1, <2>2, <1>2
  <2> QED BY <2>3, <2>4
<1>5. r = Requeued(t, t.iov \o <<lv, v>>, Append(t.buf, h), Len(t.buf) + 1)
  <2>1. r = [b EXCEPT !.iov = @ \o <<LastVector(b), v>>, !.start = Len(b.buf)]
    BY DEF AddPacket
  <2> HIDE DEF b
  <2>2. r = [b EXCEPT !.iov = b.iov \o <<lv, v>>, !.start = Len(t.buf) + 1]
    BY <2>1, <1>3, <1>4
  <2>3. PICK i, a, s : i = t.iov \o <<lv, v>> /\ a = Append(t.buf, h) /\ s = Len(t.buf) + 1
    OBVIOUS
  <2>4. r = [b EXCEPT !.iov = i, !.start = s]
    BY <2>2, <2>3, <1>2
  <2>5. b = [t EXCEPT !.buf = a]
    BY <2>3 DEF b
  <2>6. r = Requeued(t, i, a, s)
    BY <2>4, <2>5, <1>0 DEF Requeued, TxQueue
  <2> QED BY <2>3, <2>6
<1> HIDE DEF b
<1>6. v \in Vect
  BY Constants DEF Vector, Vect
<1>7. lv \in Vect
  <2>1. Len(t.buf) + 1 - t.start \in Nat \ {0}
    BY <1>0
  <2> QED BY <2>1, <1>0, NoneTyped DEF Vector, Vect
<1>8. t.iov \o <<lv, v>> = (t.iov \o <<lv>>) \o <<v>> /\ t.iov \o <<lv, v>> \in Seq(Vect)
  <2>1. <<lv>> \in Seq(Vect) /\ <<v>> \in Seq(Vect) /\ <<lv, v>> \in Seq(Vect)
    BY <1>6, <1>7
  <2>2. <<lv>> \o <<v>> = <<lv, v>>
    <3>1. PICK x, y, p, q : x = <<lv>> /\ y = <<v>> /\ p = x \o y /\ q = <<lv, v>>
      OBVIOUS
    <3>2. x \in Seq(Vect) /\ y \in Seq(Vect) /\ q \in Seq(Vect) /\ Len(x) = 1 /\ Len(y) = 1 /\ Len(q) = 2
          /\ x[1] = lv /\ y[1] = v /\ q[1] = lv /\ q[2] = v
      BY <3>1, <2>1
    <3>3. p \in Seq(Vect) /\ Len(p) = Len(x) + Len(y)
          /\ \A j \in 1 .. Len(x) + Len(y) : p[j] = IF j <= Len(x) THEN x[j] ELSE y[j - Len(x)]
      BY <3>1, <3>2, ConcatProperties
    <3>4. Len(p) = 2 /\ p[1] = lv /\ p[2] = v
      BY <3>2, <3>3
    <3>5. \A j \in 1 .. 2 : j = 1 \/ j = 2
      OBVIOUS
    <3>6. \A j \in 1 .. Len(p) : p[j] = q[j]
      BY <3>2, <3>4, <3>5
    <3>7. p = q
      BY <3>2, <3>3, <3>4, <3>6, SeqEqual
    <3> QED BY <3>1, <3>7
  <2>3. (t.iov \o <<lv>>) \o <<v>> = t.iov \o (<<lv>> \o <<v>>)
    BY <2>1, <1>0, Associates
  <2> QED BY <2>1, <2>2, <2>3, <1>0, ConcatProperties
<1>9. Append(t.buf, h) = t.buf \o <<h>>
  BY <1>0, <1>1, AppendIsConcat
<1>10. Len(t.buf) + 1 \in Nat
  BY <1>0
<1>11. IsRequeued(r, t, t.iov \o <<lv, v>>, Append(t.buf, h), Len(t.buf) + 1)
  BY <1>0, <1>1, <1>5, <1>8, <1>10, TxUpdated
<1> QED BY <1>1, <1>6, <1>7, <1>8, <1>9, <1>11

\* The list z is s, and u after it.
Follows(z, s, u) == z = s \o u

\* Data that stays where it is: a packet more.
LEMMA AddPacketQueues ==
    ASSUME NEW packets \in Packets, NEW t, TxSound(t, packets), NEW mux \in 0 .. 15, NEW len \in 1 .. PacketMax,
           NEW id \in Ids, NEW from \in Nat, mux = MuxIn(packets, id), id # None,
           IsMessage(packets, id) \/ Declared(packets, id),
           NEW r, r = AddPacket(t, mux, id, from, len), TxSound(r, packets)
    PROVE  Follows(QueueOf(packets, r), QueueOf(packets, t), SentPacket(mux, id, from, len))
<1>1. PICK h, lv, v : /\ h = Header(mux, len, id) /\ lv = Vector(None, t.start, Len(t.buf) + 1 - t.start)
                      /\ v = Vector(id, from, len)
  OBVIOUS
<1>2. h \in Unit /\ lv \in Vect /\ v \in Vect
      /\ IsRequeued(r, t, (t.iov \o <<lv>>) \o <<v>>, t.buf \o <<h>>, Len(t.buf) + 1)
  BY <1>1, AddPacketParts
<1>3. /\ t.iov \in Seq(Vect) /\ t.buf \in Seq(Unit) /\ AllThere(packets, t.buf, t.iov)
      /\ QueueOf(packets, t) = Stream(packets, t.buf, t.iov) \o Dropped(t.buf, t.start)
      /\ Stream(packets, t.buf, t.iov) \in Seq(Unit) /\ Dropped(t.buf, t.start) \in Seq(Unit)
  BY QueueBehind DEF Behind
<1>4. t.start \in Nat /\ t.start <= Len(t.buf) /\ Len(t.buf) \in Nat
  BY TxFields DEF TxSound, Sizes
<1> DEFINE i == (t.iov \o <<lv>>) \o <<v>>
           a == t.buf \o <<h>>
           S == Stream(packets, t.buf, t.iov)
           D == Dropped(t.buf, t.start)
           U == UnitsOfData(mux, id, from, len)
<1>5. r.iov = i /\ r.buf = a /\ r.start = Len(t.buf) + 1
  BY <1>2 DEF IsRequeued
<1>6. <<h>> \in Seq(Unit) /\ <<lv>> \in Seq(Vect) /\ <<v>> \in Seq(Vect) /\ Len(<<h>>) = 1
  BY <1>2
<1>7. a \in Seq(Unit) /\ Len(a) = Len(t.buf) + 1
  BY <1>3, <1>6, ConcatProperties
<1>8. U \in Seq(Unit)
  BY SentPacketTyped
<1>9. AllThere(packets, a, t.iov) /\ Stream(packets, a, t.iov) = S
  BY <1>3, <1>6, StreamGrows
<1>10. lv.of = None /\ lv.from = t.start /\ lv.len = Len(t.buf) + 1 - t.start /\ lv.from + lv.len = Len(t.buf) + 1
  <2>1. lv.of = None /\ lv.from = t.start /\ lv.len = Len(t.buf) + 1 - t.start
    BY <1>1 DEF Vector
  <2>2. t.start + (Len(t.buf) + 1 - t.start) = Len(t.buf) + 1
    BY <1>4
  <2> QED BY <2>1, <2>2
<1>11. v.of = id /\ v.from = from /\ v.len = len
  BY <1>1 DEF Vector
<1>12. There(packets, a, lv) /\ PointedIn(packets, a, lv) = Dropped(a, t.start)
  <2> HIDE DEF a
  <2>1. Len(t.buf) + 1 <= Len(a)
    BY <1>7, <1>4
  <2>2. There(packets, a, lv)
    BY <2>1, <1>10 DEF There
  <2>3. PointedIn(packets, a, lv) = SubSeq(a, t.start + 1, Len(a))
    BY <1>10, <1>7 DEF PointedIn
  <2> QED BY <2>2, <2>3 DEF Dropped
<1>13. There(packets, a, v) /\ PointedIn(packets, a, v) = U
  <2>1. There(packets, a, v)
    BY <1>11 DEF There
  <2>2. PointedIn(packets, a, v) = UnitsOfData(MuxIn(packets, v.of), v.of, v.from, v.len)
    BY <1>11 DEF PointedIn
  <2>3. PICK x : x = MuxIn(packets, v.of)
    OBVIOUS
  <2>4. x = mux
    BY <2>3, <1>11
  <2>5. PointedIn(packets, a, v) = UnitsOfData(mux, id, from, len)
    BY <2>2, <2>3, <2>4, <1>11
  <2> QED BY <2>1, <2>5
<1>14. Dropped(a, t.start) = D \o <<h>>
  <2>1. PICK x, y, d : x = t.buf /\ y = <<h>> /\ d = t.start
    OBVIOUS
  <2>2. x \in Seq(Unit) /\ y \in Seq(Unit) /\ d \in Nat /\ d <= Len(x)
    BY <2>1, <1>3, <1>4, <1>6
  <2>3. Dropped(x \o y, d) = Dropped(x, d) \o y
    BY <2>2, DroppedGrows
  <2> QED BY <2>1, <2>3
<1> HIDE DEF a, S, D, U
<1>15. /\ AllThere(packets, a, <<lv>>) /\ Stream(packets, a, <<lv>>) = D \o <<h>>
       /\ AllThere(packets, a, <<v>>) /\ Stream(packets, a, <<v>>) = U
  BY <1>2, <1>7, <1>12, <1>13, <1>14, StreamOne
<1>16. /\ t.iov \o <<lv>> \in Seq(Vect) /\ AllThere(packets, a, t.iov \o <<lv>>)
       /\ Stream(packets, a, t.iov \o <<lv>>) = S \o (D \o <<h>>)
  <2>1. t.iov \o <<lv>> \in Seq(Vect)
    BY <1>3, <1>6, ConcatProperties
  <2>2. AllThere(packets, a, t.iov \o <<lv>>)
    BY <1>3, <1>6, <1>9, <1>15, AllThereParts
  <2>3. Stream(packets, a, t.iov \o <<lv>>) = Stream(packets, a, t.iov) \o Stream(packets, a, <<lv>>)
    BY <1>3, <1>6, <1>7, <1>9, <1>15, StreamConcat
  <2> QED BY <2>1, <2>2, <2>3, <1>9, <1>15
<1>17. Stream(packets, a, i) = (S \o (D \o <<h>>)) \o U
  <2>1. PICK ws : ws = t.iov \o <<lv>>
    OBVIOUS
  <2>2. ws \in Seq(Vect) /\ AllThere(packets, a, ws) /\ Stream(packets, a, ws) = S \o (D \o <<h>>)
    BY <2>1, <1>16
  <2>3. Stream(packets, a, ws \o <<v>>) = Stream(packets, a, ws) \o Stream(packets, a, <<v>>)
    BY <2>2, <1>6, <1>7, <1>15, StreamConcat
  <2> QED BY <2>1, <2>2, <2>3, <1>15
<1>18. (S \o (D \o <<h>>)) \o U = (S \o D) \o SentPacket(mux, id, from, len)
  <2>1. S \in Seq(Unit) /\ D \in Seq(Unit)
    BY <1>3 DEF S, D
  <2>2. S \o (D \o <<h>>) = (S \o D) \o <<h>> /\ S \o D \in Seq(Unit)
    BY <2>1, <1>6, Associates, ConcatProperties
  <2>3. ((S \o D) \o <<h>>) \o U = (S \o D) \o (<<h>> \o U)
    BY <2>2, <1>6, <1>8, Associates
  <2>4. SentPacket(mux, id, from, len) = <<h>> \o U
    BY <1>1 DEF SentPacket, U
  <2> QED BY <2>2, <2>3, <2>4
<1>19. QueueOf(packets, r) = Stream(packets, a, i)
  <2>1. QueueOf(packets, r) = Stream(packets, r.buf, r.iov) \o Dropped(r.buf, r.start)
        /\ Stream(packets, r.buf, r.iov) \in Seq(Unit)
    BY QueueBehind DEF Behind
  <2>2. Dropped(a, Len(t.buf) + 1) = <<>>
    <3>1. IsSlice(Dropped(a, Len(a)), a, Len(a), Len(a), Unit)
      BY <1>7, LenProperties, Slice DEF Dropped
    <3>2. Len(Dropped(a, Len(a))) = 0 /\ Dropped(a, Len(a)) \in Seq(Unit)
      BY <3>1, <1>7, LenProperties DEF IsSlice
    <3> QED BY <3>2, <1>7, EmptySeq
  <2> HIDE DEF i
  <2> QED BY <2>1, <2>2, <1>5, ConcatEmptySeq
<1>20. QueueOf(packets, r) = QueueOf(packets, t) \o SentPacket(mux, id, from, len)
  BY <1>3, <1>17, <1>18, <1>19 DEF S, D
<1> QED BY <1>20 DEF Follows

\* Data that is copied: a packet more as well.
LEMMA CopiedQueues ==
    ASSUME NEW packets \in Packets, NEW t, TxSound(t, packets), NEW s \in Seq(Unit),
           NEW r, r = [t EXCEPT !.buf = @ \o s], TxSound(r, packets)
    PROVE  Follows(QueueOf(packets, r), QueueOf(packets, t), s)
<1>1. /\ t.iov \in Seq(Vect) /\ t.buf \in Seq(Unit) /\ AllThere(packets, t.buf, t.iov)
      /\ QueueOf(packets, t) = Stream(packets, t.buf, t.iov) \o Dropped(t.buf, t.start)
      /\ Stream(packets, t.buf, t.iov) \in Seq(Unit) /\ Dropped(t.buf, t.start) \in Seq(Unit)
  BY QueueBehind DEF Behind
<1>2. t.start \in Nat /\ t.start <= Len(t.buf) /\ t \in TxQueue
  BY TxFields DEF TxSound, Sizes
<1>3. r.iov = t.iov /\ r.buf = t.buf \o s /\ r.start = t.start
  <2>1. r = [t EXCEPT !.buf = t.buf \o s]
    OBVIOUS
  <2> QED BY <2>1, <1>2 DEF TxQueue
<1>4. QueueOf(packets, r) = Stream(packets, t.buf \o s, t.iov) \o Dropped(t.buf \o s, t.start)
  BY <1>3, QueueBehind DEF Behind
<1>5. Stream(packets, t.buf \o s, t.iov) = Stream(packets, t.buf, t.iov)
  BY <1>1, StreamGrows
<1>6. Dropped(t.buf \o s, t.start) = Dropped(t.buf, t.start) \o s
  BY <1>1, <1>2, DroppedGrows
<1>7. (Stream(packets, t.buf, t.iov) \o Dropped(t.buf, t.start)) \o s
      = Stream(packets, t.buf, t.iov) \o (Dropped(t.buf, t.start) \o s)
  BY <1>1, Associates
<1>8. QueueOf(packets, r) = QueueOf(packets, t) \o s
  BY <1>1, <1>4, <1>5, <1>6, <1>7
<1> QED BY <1>8 DEF Follows

\* send_queued: what the kernel has not taken is still queued, in front.
LEMMA TakenLeaves ==
    ASSUME op.packets \in Packets, TxSound(tx, op.packets), NEW n \in Nat, n <= Len(Queued)
    PROVE  /\ QueueOf(op.packets, tx) = Queued
           /\ QueueOf(op.packets, Taken(n)) = Dropped(Queued, n)
<1>0. /\ tx \in TxQueue /\ tx.buf \in Seq(Unit) /\ Len(tx.buf) \in Nat /\ Queued \in Seq(Unit) /\ Len(Queued) \in Nat
      /\ Queued = Stream(op.packets, tx.buf, Vectors)
  BY TxFields, QueuedIs, LenProperties DEF TxSound
<1>1. QueueOf(op.packets, tx) = Queued
  BY <1>0 DEF QueueOf, VectorsOf, Vectors
<1>2. CASE n = Len(Queued)
  <2> DEFINE r == Taken(n)
  <2>1. r = [tx EXCEPT !.iov = <<>>, !.buf = <<>>, !.start = 0, !.done = {}]
    BY <1>2 DEF Taken
  <2> HIDE DEF r
  <2>2. r.iov = <<>> /\ r.buf = <<>> /\ r.start = 0
    BY <2>1, <1>0 DEF TxQueue
  <2>3. Len(r.buf) = 0
    BY <2>2
  <2>4. VectorsOf(r) = <<>>
    BY <2>2, <2>3 DEF VectorsOf
  <2>5. QueueOf(op.packets, r) = <<>>
    BY <2>4, StreamEmpty DEF QueueOf
  <2>6. Dropped(Queued, n) = <<>>
    <3>1. IsSlice(Dropped(Queued, n), Queued, n, Len(Queued), Unit)
      BY <1>0, <1>2, Slice DEF Dropped
    <3>2. Len(Dropped(Queued, n)) = 0 /\ Dropped(Queued, n) \in Seq(Unit)
      BY <3>1, <1>0, <1>2 DEF IsSlice
    <3> QED BY <3>2, EmptySeq
  <2> QED BY <1>1, <2>5, <2>6 DEF r
<1>3. CASE n # Len(Queued)
  <2> DEFINE ws == Without(Vectors, n)
             r == Taken(n)
  <2>1. VectorsFit(op.packets)
    BY VectorsAre
  <2>2. IsLeft(ws, op.packets, tx.buf, Vectors, n)
    <3>1. n < Len(Stream(op.packets, tx.buf, Vectors))
      BY <1>0, <1>3
    <3> QED BY <3>1, <2>1, <1>0, WithoutStream DEF VectorsFit
  <2>3. r = [tx EXCEPT !.iov = ws, !.start = Len(tx.buf)]
    BY <1>3 DEF Taken
  <2> HIDE DEF ws, r
  <2>4. r.iov = ws /\ r.buf = tx.buf /\ r.start = Len(tx.buf)
    BY <2>3, <1>0 DEF TxQueue
  <2>5. VectorsOf(r) = ws
    BY <2>4, <1>0 DEF VectorsOf
  <2>6. QueueOf(op.packets, r) = Stream(op.packets, tx.buf, ws)
    BY <2>4, <2>5 DEF QueueOf
  <2>7. Stream(op.packets, tx.buf, ws) = Dropped(Queued, n)
    BY <2>2, <1>0 DEF IsLeft, Dropped
  <2> QED BY <1>1, <2>6, <2>7 DEF r
<1> QED BY <1>2, <1>3

\* A list cut in two is the list.
LEMMA CutAgain ==
    ASSUME NEW T, NEW s \in Seq(T), NEW n \in Nat, n <= Len(s)
    PROVE  SubSeq(s, 1, n) \in Seq(T) /\ Dropped(s, n) \in Seq(T) /\ SubSeq(s, 1, n) \o Dropped(s, n) = s
<1> DEFINE a == SubSeq(s, 1, n)
           b == Dropped(s, n)
<1>1. Len(s) \in Nat
  BY LenProperties
<1>2. a \in Seq(T) /\ Len(a) = n /\ \A i \in 1 .. n : a[i] = s[i]
  <2>1. \A i \in 1 .. n : s[i] \in T
    BY <1>1, ElementOfSeq
  <2> QED BY <2>1, <1>1, SubSeqProperties
<1>3. b \in Seq(T) /\ Len(b) = Len(s) - n /\ \A i \in 1 .. Len(s) - n : b[i] = s[n + i]
  <2>1. IsSlice(b, s, n, Len(s), T)
    BY <1>1, Slice DEF Dropped
  <2> QED BY <2>1 DEF IsSlice
<1> HIDE DEF a, b
<1>4. IsJoined(a \o b, a, b, T)
  BY <1>2, <1>3, Joined
<1>5. a \o b \in Seq(T) /\ Len(a \o b) = Len(s)
  BY <1>1, <1>2, <1>3, <1>4 DEF IsJoined
<1>6. ASSUME NEW i \in 1 .. Len(s) PROVE (a \o b)[i] = s[i]
  <2>1. CASE i \in 1 .. n
    BY <2>1, <1>2, <1>4 DEF IsJoined
  <2>2. CASE i \notin 1 .. n
    <3>1. PICK k : k = i - n
      OBVIOUS
    <3>2. k \in 1 .. Len(s) - n /\ i = n + k
      BY <3>1, <2>2, <1>1
    <3>3. (a \o b)[n + k] = b[k]
      BY <3>2, <1>2, <1>3, <1>4 DEF IsJoined
    <3> QED BY <3>2, <3>3, <1>3
  <2> QED BY <2>1, <2>2
<1>7. a \o b = s
  BY <1>5, <1>6, SeqEqual
<1> QED BY <1>2, <1>3, <1>7 DEF a, b

-----------------------------------------------------------------------------
(* The FIFOs take turns.                                                   *)

\* A FIFO is one of the newest packet's and has sent what it says; if it does not
\* interleave, none after it has sent anything.
Awaits(packets, s, f) ==
    /\ f.id[1] = Len(packets) /\ CountTo(s, Len(s), f.id) = f.pos
    /\ ~f.interleave => \A j \in 1 .. Len(s) :
          s[j].at > 0 /\ s[j].of[1] = Len(packets) => s[j].of[2] <= f.id[2]

\* They are in the order of the packet; only those that interleave are passed over.
InTurn(fifos, next) ==
    /\ \A i, j \in 1 .. Len(fifos) : i < j => fifos[i].id[2] < fifos[j].id[2]
    /\ next # None => \A i \in 1 .. Len(fifos) : fifos[i].id = next => \A j \in 1 .. i - 1 : fifos[j].interleave

\* The stream so far is in order and can go on.
OrderSound(packets, s, t) ==
    /\ Ordered(packets, s)
    /\ \A i \in 1 .. Len(s) : s[i].at > 0 => s[i].of[1] \in 1 .. Len(packets)
    /\ \A i \in 1 .. Len(t.fifos) : Awaits(packets, s, t.fifos[i])
    /\ InTurn(t.fifos, t.next)

\* The parts of a FIFO's name.
LEMMA IdTyped ==
    ASSUME NEW id \in Ids
    PROVE  id[1] \in Nat /\ id[2] \in Nat /\ \A x \in Ids : x[1] = id[1] /\ x[2] = id[2] => x = id
BY Constants DEF Ids

\* A FIFO of a command has the mux it was declared with.
LEMMA FifoNamed ==
    ASSUME NEW packets \in Packets, NEW f \in TxFifo, AsDeclared(packets, f)
    PROVE  /\ f.id \in Ids /\ f.id[2] \in Nat \ {0} /\ f.id # None /\ Declared(packets, f.id)
           /\ f.mux = MuxIn(packets, f.id) /\ f.mux \in 0 .. 15 /\ f.pos \in Nat /\ f.len \in Nat
           /\ f.interleave = packets[f.id[1]].write[f.id[2]].interleave /\ f.interleave \in BOOLEAN
<1>1. Declared(packets, f.id) /\ f.mux = packets[f.id[1]].write[f.id[2]].mux
      /\ f.interleave = packets[f.id[1]].write[f.id[2]].interleave
  BY DEF AsDeclared
<1>2. f.id \in Ids /\ f.mux \in 4 .. 15 /\ f.pos \in Nat /\ f.len \in Nat /\ f.interleave \in BOOLEAN
  BY DEF TxFifo
<1>3. packets \in Seq(Shapes) /\ Len(packets) <= MaxPackets
  BY DEF Packets
<1>4. f.id # None
  BY ZenonT(30), <1>1, <1>2, <1>3, DeclaredTyped
<1>5. f.id[2] \in Nat \ {0}
  <2>1. packets[f.id[1]] \in Shape
    <3>1. f.id[1] \in 1 .. Len(packets)
      BY <1>1, <1>3, LenProperties DEF Declared
    <3>2. packets[f.id[1]] \in Shapes
      BY <3>1, <1>3, ElementOfSeq
    <3> QED BY <3>2, Constants
  <2>2. packets[f.id[1]].write \in Seq([mux : 4 .. 15, len : Nat \ {0}, interleave : BOOLEAN])
    BY <2>1 DEF Shape
  <2>3. f.id[2] \in 1 .. Len(packets[f.id[1]].write) /\ Len(packets[f.id[1]].write) \in Nat
    BY <1>1, <2>2, LenProperties DEF Declared
  <2> QED BY <2>3
<1>6. f.mux = MuxIn(packets, f.id)
  BY <1>1, <1>5 DEF MuxIn
<1>7. f.mux \in 0 .. 15
  BY <1>2
<1> QED BY <1>1, <1>2, <1>4, <1>5, <1>6, <1>7

\* Its next packet may come now.
LEMMA FifoNextFits ==
    ASSUME NEW packets \in Packets, NEW s \in Seq(Unit), NEW t, OrderSound(packets, s, t),
           NEW i \in 1 .. Len(t.fifos), NEW f, f = t.fifos[i], f \in TxFifo, AsDeclared(packets, f)
    PROVE  NextFits(packets, s, f.id, f.pos)
<1>1. Awaits(packets, s, f)
  BY DEF OrderSound
<1>2. f.id \in Ids /\ f.id[2] \in Nat \ {0} /\ f.id[1] \in Nat /\ f.interleave \in BOOLEAN
      /\ f.interleave = packets[f.id[1]].write[f.id[2]].interleave
  BY ZenonT(30), FifoNamed, IdTyped
<1>3. CountTo(s, Len(s), f.id) = f.pos
  BY <1>1 DEF Awaits
<1>4. ASSUME NEW j \in 1 .. Len(s), s[j].at > 0 PROVE MayFollow(packets, s[j].of, f.id)
  <2>1. s[j] \in Unit
    BY ElementOfSeq
  <2>2. s[j].of \in Ids
    BY <2>1 DEF Unit
  <2>3. s[j].of[1] \in Nat /\ s[j].of[2] \in Nat /\ (s[j].of[1] = f.id[1] /\ s[j].of[2] = f.id[2] => s[j].of = f.id)
    BY <2>2, <1>2, IdTyped
  <2>4. s[j].of[1] \in 1 .. Len(packets) /\ f.id[1] = Len(packets) /\ Len(packets) \in Nat
    <3>1. s[j].of[1] \in 1 .. Len(packets)
      BY <1>4 DEF OrderSound
    <3>2. f.id[1] = Len(packets)
      BY <1>1 DEF Awaits
    <3> QED BY <3>1, <3>2, <1>2
  <2>5. CASE s[j].of[1] < f.id[1]
    BY ZenonT(30), <2>5 DEF MayFollow
  <2>6. CASE s[j].of[1] = f.id[1] /\ f.interleave
    <3>1. f.id[2] > 0
      BY <1>2
    <3>2. packets[f.id[1]].write[f.id[2]].interleave
      BY ZenonT(30), <2>6, <1>2
    <3> QED BY <3>1, <3>2, <2>6, Zenon DEF MayFollow
  <2>7. CASE s[j].of[1] = f.id[1] /\ ~f.interleave
    <3>1. s[j].of[2] <= f.id[2]
      BY <2>4, <2>7, <1>1, <1>4 DEF Awaits
    <3>2. s[j].of[2] = f.id[2] \/ s[j].of[2] < f.id[2]
      BY <3>1, <2>3, <1>2
    <3>3. s[j].of = f.id \/ s[j].of[2] < f.id[2]
      BY <3>2, <2>3, <2>7
    <3> QED BY <3>3, <2>7, Zenon DEF MayFollow
  <2>8. s[j].of[1] < f.id[1] \/ s[j].of[1] = f.id[1]
    BY <2>4
  <2> QED BY ZenonT(30), <2>5, <2>6, <2>7, <2>8, <1>2
<1> QED BY <1>3, <1>4 DEF NextFits

\* After it the others wait as before, and it waits for the rest.
LEMMA OthersAwait ==
    ASSUME NEW packets, NEW z, NEW s, NEW id \in Ids, NEW from, NEW n, OneMore(z, s, id, from, n),
           NEW g, Awaits(packets, s, g), g.id # id, id[1] = Len(packets) => g.interleave \/ id[2] <= g.id[2]
    PROVE  Awaits(packets, z, g)
<1>1. PICK L : L = Len(s)
  OBVIOUS
<1>2. /\ L \in Nat /\ n \in Nat \ {0} /\ Len(z) = L + 1 + n
      /\ \A i \in 1 .. L : z[i] = s[i]
      /\ \A i \in L + 1 .. L + 1 + n : z[i].of = id
  BY <1>1 DEF OneMore
<1>3. CountTo(z, Len(z), g.id) = CountTo(s, Len(s), g.id)
  BY CountGrows DEF CountsOn
<1>4. ASSUME ~g.interleave, NEW j \in 1 .. Len(z), z[j].at > 0, z[j].of[1] = Len(packets)
      PROVE  z[j].of[2] <= g.id[2]
  <2>1. CASE j \in 1 .. L
    BY <2>1, <1>1, <1>2, <1>4 DEF Awaits
  <2>2. CASE j \notin 1 .. L
    <3>1. j \in L + 1 .. L + 1 + n
      BY <2>2, <1>2
    <3> QED BY <3>1, <1>2, <1>4
  <2> QED BY <2>1, <2>2
<1> QED BY <1>3, <1>4 DEF Awaits

\* The FIFO that is sent has sent as much as it says.
LEMMA ItAwaits ==
    ASSUME NEW packets, NEW z, NEW s, NEW f, NEW n, OneMore(z, s, f.id, f.pos, n), Awaits(packets, s, f),
           NEW g, g.id = f.id, g.pos = f.pos + n, g.interleave = f.interleave, f.id[2] \in Nat
    PROVE  Awaits(packets, z, g)
<1>1. PICK L : L = Len(s)
  OBVIOUS
<1>2. /\ L \in Nat /\ n \in Nat \ {0} /\ Len(z) = L + 1 + n
      /\ \A i \in 1 .. L : z[i] = s[i]
      /\ \A i \in L + 1 .. L + 1 + n : z[i].of = f.id
  BY <1>1 DEF OneMore
<1>3. CountTo(z, Len(z), f.id) = CountTo(s, L, f.id) + n
  <2>1. \A k \in 0 .. n : CountTo(z, L + 1 + k, f.id) = CountTo(s, L, f.id) + k
    BY <1>1, CountGrows DEF CountsOn
  <2>2. n \in 0 .. n
    BY <1>2
  <2> QED BY <2>1, <2>2, <1>2
<1>4. CountTo(z, Len(z), g.id) = g.pos
  BY <1>1, <1>3 DEF Awaits
<1>5. ASSUME ~g.interleave, NEW j \in 1 .. Len(z), z[j].at > 0, z[j].of[1] = Len(packets)
      PROVE  z[j].of[2] <= g.id[2]
  <2>1. CASE j \in 1 .. L
    BY <2>1, <1>1, <1>2, <1>5 DEF Awaits
  <2>2. CASE j \notin 1 .. L
    <3>1. j \in L + 1 .. L + 1 + n
      BY <2>2, <1>2
    <3> QED BY <3>1, <1>2
  <2> QED BY <2>1, <2>2
<1> QED BY <1>4, <1>5 DEF Awaits

\* The FIFOs before the chosen one interleave.
LEMMA BeforeChosen ==
    ASSUME NEW packets, TxSound(tx, packets), tx.fifos # <<>>, InTurn(tx.fifos, tx.next),
           NEW i \in 1 .. Len(tx.fifos), i = Index(Chosen)
    PROVE  \A j \in 1 .. i - 1 : tx.fifos[j].interleave
<1>1. tx.fifos[i].id = Chosen
  BY ChosenQueued
<1>2. DOMAIN tx.fifos = 1 .. Len(tx.fifos) /\ Len(tx.fifos) \in Nat
  BY TxFields DEF TxSound
<1>3. CASE tx.next # None
  <2>1. tx.fifos[i].id = tx.next
    BY <1>1, <1>3 DEF Chosen
  <2> QED BY <2>1, <1>3 DEF InTurn
<1>4. CASE tx.next = None
  <2>1. tx.fifos[i].id = tx.fifos[1].id
    BY <1>1, <1>4 DEF Chosen
  <2>2. i \in DOMAIN tx.fifos /\ 1 \in DOMAIN tx.fifos
    BY <1>2
  <2>3. i = 1
    BY <2>1, <2>2 DEF TxSound, FifosKnown
  <2> QED BY <2>3
<1> QED BY <1>3, <1>4

\* The next FIFO is in turn.
LEMMA AdvancedInTurn ==
    ASSUME NEW packets, TxSound(tx, packets), tx.fifos # <<>>, InTurn(tx.fifos, tx.next),
           NEW i \in 1 .. Len(tx.fifos), i = Index(Chosen), NEW fs, Len(fs) = Len(tx.fifos),
           \A j \in 1 .. Len(tx.fifos) : fs[j].id = tx.fifos[j].id /\ fs[j].interleave = tx.fifos[j].interleave,
           NEW next, next = IF tx.fifos[i].interleave THEN After(tx.fifos[i].id) ELSE None
    PROVE  InTurn(fs, next)
<1>1. Len(tx.fifos) \in Nat /\ DOMAIN tx.fifos = 1 .. Len(tx.fifos)
  BY TxFields DEF TxSound
<1>2. \A a, b \in 1 .. Len(fs) : a < b => fs[a].id[2] < fs[b].id[2]
  BY DEF InTurn
<1>3. ASSUME next # None, NEW a \in 1 .. Len(fs), fs[a].id = next, NEW j \in 1 .. a - 1 PROVE fs[j].interleave
  <2>1. tx.fifos[i].interleave /\ next = After(tx.fifos[i].id)
    BY <1>3
  <2>2. i < Len(tx.fifos) /\ next = tx.fifos[i + 1].id
    <3>1. PICK id : id = tx.fifos[i].id
      OBVIOUS
    <3>2. After(id) # None => i < Len(tx.fifos)
      BY <3>1, AfterQueued
    <3>3. After(id) = IF i < Len(tx.fifos) THEN tx.fifos[i + 1].id ELSE None
      BY <3>1, AfterQueued
    <3>4. After(id) = next /\ next # None
      BY <3>1, <2>1, <1>3
    <3> QED BY <3>2, <3>3, <3>4
  <2>3. i + 1 \in DOMAIN tx.fifos /\ a \in DOMAIN tx.fifos /\ tx.fifos[a].id = tx.fifos[i + 1].id
    BY <2>2, <1>1, <1>3
  <2>4. a = i + 1
    BY <2>3 DEF TxSound, FifosKnown
  <2>5. \A k \in 1 .. i - 1 : tx.fifos[k].interleave
    BY BeforeChosen
  <2>6. j \in 1 .. Len(tx.fifos) /\ (j = i \/ j \in 1 .. i - 1)
    BY <2>2, <2>4, <1>1
  <2>7. tx.fifos[j].interleave
    BY <2>1, <2>5, <2>6
  <2> QED BY <2>6, <2>7
<1> QED BY <1>2, <1>3 DEF InTurn

\* add_fifo_packet keeps the order: the units it queues are the FIFO's next ones.
LEMMA AdvancedOrder ==
    ASSUME NEW packets \in Packets, TxSound(tx, packets), tx.fifos # <<>>,
           NEW s \in Seq(Unit), OrderSound(packets, s, tx),
           NEW i \in 1 .. Len(tx.fifos), i = Index(Chosen), NEW n \in Nat, NEW f, f = tx.fifos[i],
           NEW z, OneMore(z, s, f.id, f.pos, n), NEW r, Len(r.fifos) = Len(tx.fifos),
           r.fifos[i] = AdvancedFifo(f, n), \A j \in 1 .. Len(tx.fifos) : j # i => r.fifos[j] = tx.fifos[j],
           r.next = IF f.interleave THEN After(f.id) ELSE None
    PROVE  OrderSound(packets, z, r)
<1>1. /\ Len(tx.fifos) \in Nat /\ DOMAIN tx.fifos = 1 .. Len(tx.fifos)
      /\ \A j \in 1 .. Len(tx.fifos) : tx.fifos[j] \in TxFifo
  BY TxFields DEF TxSound
<1>2. \A j \in 1 .. Len(tx.fifos) : AsDeclared(packets, tx.fifos[j])
  BY <1>1 DEF TxSound, FifosKnown
<1>3. f \in TxFifo /\ AsDeclared(packets, f)
  BY <1>1, <1>2
<1>4. f.id \in Ids /\ f.id[2] \in Nat /\ f.interleave \in BOOLEAN /\ Declared(packets, f.id)
  BY <1>3, FifoNamed
<1>5. AdvancedFifo(f, n).id = f.id /\ AdvancedFifo(f, n).pos = f.pos + n /\ AdvancedFifo(f, n).interleave = f.interleave
  BY <1>3, AdvancedTyped
<1>6. Ordered(packets, z)
  <2>1. NextFits(packets, s, f.id, f.pos)
    BY <1>3, FifoNextFits
  <2> QED BY <2>1, OrderedGrows DEF OrderSound
<1>7. ASSUME NEW j \in 1 .. Len(z), z[j].at > 0 PROVE z[j].of[1] \in 1 .. Len(packets)
  <2>1. PICK L : L = Len(s)
    OBVIOUS
  <2>2. /\ L \in Nat /\ n \in Nat \ {0} /\ Len(z) = L + 1 + n
        /\ \A k \in 1 .. L : z[k] = s[k]
        /\ \A k \in L + 1 .. L + 1 + n : z[k].of = f.id
    BY <2>1 DEF OneMore
  <2>3. CASE j \in 1 .. L
    BY <2>1, <2>2, <2>3, <1>7 DEF OrderSound
  <2>4. CASE j \notin 1 .. L
    <3>1. j \in L + 1 .. L + 1 + n
      BY <2>2, <2>4
    <3>2. f.id[1] \in 1 .. Len(packets)
      BY <1>4, LenProperties DEF Declared, Packets
    <3> QED BY <3>1, <3>2, <2>2
  <2> QED BY <2>3, <2>4
<1>8. ASSUME NEW j \in 1 .. Len(r.fifos) PROVE Awaits(packets, z, r.fifos[j])
  <2>1. CASE j = i
    <3>1. Awaits(packets, s, f)
      BY DEF OrderSound
    <3>2. PICK g : g = r.fifos[i]
      OBVIOUS
    <3>3. g.id = f.id /\ g.pos = f.pos + n /\ g.interleave = f.interleave
      BY <3>2, <1>5
    <3>4. Awaits(packets, z, g)
      BY <3>1, <3>3, <1>4, ItAwaits
    <3> QED BY <3>2, <3>4, <2>1
  <2>2. CASE j # i
    <3>1. PICK g : g = tx.fifos[j]
      OBVIOUS
    <3>2. j \in 1 .. Len(tx.fifos) /\ r.fifos[j] = g /\ Awaits(packets, s, g) /\ g \in TxFifo
      BY <3>1, <2>2, <1>1 DEF OrderSound
    <3>3. g.id # f.id
      BY <3>1, <3>2, <2>2, <1>1 DEF TxSound, FifosKnown
    <3>4. g.interleave \/ f.id[2] <= g.id[2]
      <4>1. CASE j < i
        <5>1. j \in 1 .. i - 1
          BY <4>1, <3>2, <1>1
        <5> QED BY <5>1, <3>1, BeforeChosen DEF OrderSound
      <4>2. CASE ~(j < i)
        <5>1. i < j
          BY <4>2, <2>2, <3>2, <1>1
        <5>2. f.id[2] < g.id[2]
          BY <5>1, <3>1, <3>2 DEF OrderSound, InTurn
        <5>3. g.id[2] \in Nat
          BY <3>2, IdTyped DEF TxFifo
        <5> QED BY <5>2, <5>3, <1>4
      <4> QED BY <4>1, <4>2
    <3>5. Awaits(packets, z, g)
      BY <3>2, <3>3, <3>4, <1>4, OthersAwait
    <3> QED BY <3>2, <3>5
  <2> QED BY <2>1, <2>2
<1>9. InTurn(r.fifos, r.next)
  <2>1. \A j \in 1 .. Len(tx.fifos) : r.fifos[j].id = tx.fifos[j].id /\ r.fifos[j].interleave = tx.fifos[j].interleave
    BY <1>5
  <2>2. PICK fs, next : fs = r.fifos /\ next = r.next
    OBVIOUS
  <2>3. InTurn(fs, next)
    BY <2>1, <2>2, AdvancedInTurn DEF OrderSound
  <2> QED BY <2>2, <2>3
<1> QED BY <1>6, <1>7, <1>8, <1>9 DEF OrderSound

\* deactivate_tx_fifo too: the FIFO has sent all it had.
LEMMA DeactivatedOrder ==
    ASSUME NEW packets \in Packets, TxSound(tx, packets), tx.fifos # <<>>,
           NEW s \in Seq(Unit), OrderSound(packets, s, tx)
    PROVE  OrderSound(packets, s, Deactivated(Chosen))
<1>1. PICK i \in 1 .. Len(tx.fifos) : i = Index(Chosen) /\ tx.fifos[i].id = Chosen
  BY ChosenQueued
<1>2. PICK id : id = Chosen
  OBVIOUS
<1>3. PICK fs, next : fs = Deactivated(id).fifos /\ next = Deactivated(id).next
  OBVIOUS
<1>4. fs = RemoveAt(tx.fifos, i) /\ next = IF tx.next = id THEN After(id) ELSE tx.next
  BY <1>1, <1>2, <1>3, DeactivatedSound
<1>5. /\ tx.fifos \in Seq(TxFifo) /\ Len(tx.fifos) \in Nat /\ DOMAIN tx.fifos = 1 .. Len(tx.fifos)
  BY TxFields DEF TxSound
<1>6. Len(fs) = Len(tx.fifos) - 1 /\ \A j \in 1 .. Len(tx.fifos) - 1 : fs[j] = IF j < i THEN tx.fifos[j] ELSE tx.fifos[j + 1]
  BY <1>4, <1>5, RemovedAt
<1> DEFINE P(j) == IF j < i THEN j ELSE j + 1
<1>7. \A j \in 1 .. Len(fs) : fs[j] = tx.fifos[P(j)] /\ P(j) \in 1 .. Len(tx.fifos) /\ P(j) # i
  BY <1>5, <1>6
<1>8. \A a, b \in 1 .. Len(fs) : a < b => P(a) < P(b)
  BY <1>5, <1>6
<1>9. \A a, b \in 1 .. Len(fs) : a < b => fs[a].id[2] < fs[b].id[2]
  <2> TAKE a, b \in 1 .. Len(fs)
  <2> HAVE a < b
  <2>1. PICK x, y : x = P(a) /\ y = P(b)
    OBVIOUS
  <2> HIDE DEF P
  <2>2. x \in 1 .. Len(tx.fifos) /\ y \in 1 .. Len(tx.fifos) /\ x < y
    BY <2>1, <1>7, <1>8
  <2>3. tx.fifos[x].id[2] < tx.fifos[y].id[2]
    BY <2>2 DEF OrderSound, InTurn
  <2> QED BY <2>1, <2>3, <1>7
<1>10. ASSUME next # None, NEW a \in 1 .. Len(fs), fs[a].id = next, NEW j \in 1 .. a - 1 PROVE fs[j].interleave
  <2>1. tx.next = id
    <3>1. ASSUME tx.next # id PROVE FALSE
      <4>1. next = tx.next /\ tx.next # None
        BY <3>1, <1>4, <1>10
      <4>2. Chosen = tx.next
        BY <4>1 DEF Chosen
      <4> QED BY <4>2, <3>1, <1>2
    <3> QED BY <3>1
  <2>2. next = After(id)
    BY <2>1, <1>4
  <2>3. i < Len(tx.fifos) /\ next = tx.fifos[i + 1].id
    <3>1. id = tx.fifos[i].id
      BY <1>1, <1>2
    <3>2. After(id) # None => i < Len(tx.fifos)
      BY <3>1, AfterQueued
    <3>3. After(id) = IF i < Len(tx.fifos) THEN tx.fifos[i + 1].id ELSE None
      BY <3>1, AfterQueued
    <3> QED BY <3>2, <3>3, <2>2, <1>10
  <2>4. P(a) \in 1 .. Len(tx.fifos) /\ tx.fifos[P(a)].id = tx.fifos[i + 1].id
    BY <2>3, <1>7, <1>10
  <2>5. PICK x : x = P(a)
    OBVIOUS
  <2>6. x = i + 1
    <3>1. x \in DOMAIN tx.fifos /\ i + 1 \in DOMAIN tx.fifos /\ tx.fifos[x].id = tx.fifos[i + 1].id
      BY <2>3, <2>4, <2>5, <1>5
    <3> QED BY <3>1 DEF TxSound, FifosKnown
  <2>7. a = i
    BY <2>5, <2>6, <1>5, <1>6
  <2>8. j \in 1 .. i - 1 /\ j < i /\ j \in 1 .. Len(fs)
    BY <2>7, <1>5, <1>6
  <2>9. tx.fifos[j].interleave
    BY <2>8, <1>1, BeforeChosen DEF OrderSound
  <2> QED BY <2>8, <2>9, <1>5, <1>6
<1>11. InTurn(fs, next)
  BY <1>9, <1>10 DEF InTurn
<1>12. \A j \in 1 .. Len(fs) : Awaits(packets, s, fs[j])
  <2> TAKE j \in 1 .. Len(fs)
  <2>1. PICK x : x = P(j)
    OBVIOUS
  <2> HIDE DEF P
  <2>2. x \in 1 .. Len(tx.fifos) /\ fs[j] = tx.fifos[x]
    BY <2>1, <1>7
  <2> QED BY <2>2 DEF OrderSound
<1> QED BY <1>2, <1>3, <1>11, <1>12 DEF OrderSound

\* add_fifo_packet queues the FIFO's next units, as one packet.
LEMMA FifoPacketFields ==
    ASSUME NEW packets \in Packets, TxSound(tx, packets), SpaceForPacket(Threshold),
           NEW i \in 1 .. Len(tx.fifos), NEW n, NEW r, FifoPacketAdded(r, i, n), NEW f, f = tx.fifos[i]
    PROVE  /\ Len(r.fifos) = Len(tx.fifos) /\ r.fifos[i] = AdvancedFifo(f, n)
           /\ \A j \in 1 .. Len(tx.fifos) : j # i => r.fifos[j] = tx.fifos[j]
           /\ r.next = IF f.interleave THEN After(f.id) ELSE None
           /\ n \in 1 .. PacketMax /\ n \in Nat
           /\ Follows(QueueOf(packets, r), QueueOf(packets, tx), SentPacket(f.mux, f.id, f.pos, n))
<1> DEFINE next == IF f.interleave THEN After(f.id) ELSE None
           t == Advanced(tx, i, n, next)
<1>1. tx \in TxQueue /\ f \in TxFifo /\ DOMAIN tx.fifos = 1 .. Len(tx.fifos)
  BY TxFields DEF TxSound
<1>2. next \in Ids /\ (next # None => \E j \in 1 .. Len(tx.fifos) : tx.fifos[j].id = next)
  BY <1>1, AfterQueued, NoneTyped
<1>3. n \in 1 .. PacketMax /\ n \in Nat /\ f.pos + n <= f.len
  <2>1. n \in 1 .. PacketMax /\ f.pos + n <= f.len
    BY ZenonT(30) DEF FifoPacketAdded
  <2> QED BY <2>1, Constants
<1>4. r = AddPacket(t, f.mux, f.id, f.pos, n) \/ r = [t EXCEPT !.buf = @ \o SentPacket(f.mux, f.id, f.pos, n)]
  BY ZenonT(30) DEF FifoPacketAdded
<1> HIDE DEF next
<1>5. TxSound(t, packets) /\ IsAdvanced(t, tx, i, n, next)
  BY <1>1, <1>2, <1>3, AdvancedSound, AdvancedFields
<1> HIDE DEF t
<1>6. AsDeclared(packets, f)
  BY <1>1 DEF TxSound, FifosKnown
<1>7. /\ f.id \in Ids /\ f.id # None /\ f.mux = MuxIn(packets, f.id) /\ f.mux \in 0 .. 15 /\ f.pos \in Nat
      /\ Declared(packets, f.id)
  BY <1>1, <1>6, FifoNamed
<1>8. SentPacket(f.mux, f.id, f.pos, n) \in Seq(Unit)
  BY <1>3, <1>7, SentPacketTyped
<1>9. TxSound(r, packets)
  BY FifoPacketSound
<1>10. QueueOf(packets, t) = QueueOf(packets, tx)
  <2>1. t.iov = tx.iov /\ t.buf = tx.buf /\ t.start = tx.start
    BY <1>5 DEF IsAdvanced
  <2>2. LastVector(t) = LastVector(tx)
    BY <2>1 DEF LastVector
  <2>3. VectorsOf(t) = VectorsOf(tx)
    BY <2>1, <2>2 DEF VectorsOf
  <2> QED BY <2>1, <2>3 DEF QueueOf
<1>11. Follows(QueueOf(packets, r), QueueOf(packets, t), SentPacket(f.mux, f.id, f.pos, n))
  <2>1. CASE r = AddPacket(t, f.mux, f.id, f.pos, n)
    <3>1. TxSound(t, packets)
      BY <1>5
    <3> QED BY <3>1, <2>1, <1>3, <1>7, <1>9, AddPacketQueues
  <2>2. CASE r = [t EXCEPT !.buf = @ \o SentPacket(f.mux, f.id, f.pos, n)]
    BY <2>2, <1>5, <1>8, <1>9, CopiedQueues
  <2> QED BY <2>1, <2>2, <1>4
<1>12. r.fifos = t.fifos /\ r.next = t.next
  <2>1. CASE r = AddPacket(t, f.mux, f.id, f.pos, n)
    <3>1. PICK h, lv, v : /\ h = Header(f.mux, n, f.id) /\ lv = Vector(None, t.start, Len(t.buf) + 1 - t.start)
                          /\ v = Vector(f.id, f.pos, n)
      OBVIOUS
    <3>2. IsRequeued(r, t, (t.iov \o <<lv>>) \o <<v>>, t.buf \o <<h>>, Len(t.buf) + 1)
      BY ZenonT(30), <3>1, <2>1, <1>3, <1>5, <1>7, AddPacketParts
    <3> QED BY <3>2 DEF IsRequeued
  <2>2. CASE r = [t EXCEPT !.buf = @ \o SentPacket(f.mux, f.id, f.pos, n)]
    <3>1. PICK b : b = t.buf \o SentPacket(f.mux, f.id, f.pos, n)
      OBVIOUS
    <3>2. r = [t EXCEPT !.buf = b]
      BY <2>2, <3>1
    <3>3. t \in TxQueue
      BY <1>5 DEF TxSound
    <3> QED BY <3>2, <3>3 DEF TxQueue
  <2> QED BY <2>1, <2>2, <1>4
<1> QED BY <1>3, <1>5, <1>10, <1>11, <1>12 DEF IsAdvanced, next

-----------------------------------------------------------------------------
(* The stream of a connection: what was sent and what is queued.           *)

StreamOf(packets, heard, t) == heard \o QueueOf(packets, t)

\* The invariant: the stream is packets, whole until the connection breaks, and in the
\* first connection it is in order and can go on.
Streamed ==
    LET s == StreamOf(op.packets, peer.heard, tx) IN
    /\ Packed(s) /\ (op.pc # "down" => Whole(s))
    /\ Unbroken => OrderSound(op.packets, s, tx)

\* Queued is the queue's part of it, now and after a step.
LEMMA QueuedNow == Queued = QueueOf(op.packets, tx)
BY DEF Queued, QueueOf, Stream, Pointeds, Pointed, PointedIn, MuxOf, MuxIn, Vectors, VectorsOf

\* The queue and the stream are units.
LEMMA StreamOfTyped ==
    ASSUME NEW packets \in Packets, NEW heard \in Seq(Unit), NEW t, TxSound(t, packets)
    PROVE  QueueOf(packets, t) \in Seq(Unit) /\ StreamOf(packets, heard, t) \in Seq(Unit)
<1>1. QueueOf(packets, t) \in Seq(Unit)
  BY QueueBehind DEF Behind
<1> QED BY <1>1, ConcatProperties DEF StreamOf

\* The beginning of an ordered stream is ordered.
LEMMA OrderedBegins ==
    ASSUME NEW packets, NEW a \in Seq(Unit), NEW b \in Seq(Unit), Ordered(packets, a \o b)
    PROVE  Ordered(packets, a)
<1>1. IsJoined(a \o b, a, b, Unit)
  BY Joined
<1>2. Len(a) \in Nat /\ \A i \in 1 .. Len(a) : i \in 1 .. Len(a \o b) /\ (a \o b)[i] = a[i]
  BY <1>1 DEF IsJoined
<1>3. \A j \in 1 .. Len(a) : \A i \in 1 .. j - 1 : i \in 1 .. Len(a)
  BY <1>2
<1>4. ASSUME NEW j \in 1 .. Len(a), NEW id PROVE CountTo(a \o b, j - 1, id) = CountTo(a, j - 1, id)
  <2>1. UnitsIn(a \o b, j - 1, id) = UnitsIn(a, j - 1, id)
    BY <1>2, <1>3 DEF UnitsIn
  <2> QED BY <2>1 DEF CountTo
<1> SUFFICES ASSUME NEW j \in 1 .. Len(a), a[j].at > 0
             PROVE  /\ a[j].at = 1 + CountTo(a, j - 1, a[j].of)
                    /\ \A i \in 1 .. j - 1 : a[i].at > 0 => MayFollow(packets, a[i].of, a[j].of)
  BY DEF Ordered
<1>5. PICK z : z = a \o b
  OBVIOUS
<1>6. j \in 1 .. Len(z) /\ z[j] = a[j]
  BY <1>2, <1>5
<1>7. a[j].at = 1 + CountTo(a, j - 1, a[j].of)
  BY <1>4, <1>5, <1>6 DEF Ordered
<1>8. ASSUME NEW i \in 1 .. j - 1, a[i].at > 0 PROVE MayFollow(packets, a[i].of, a[j].of)
  <2>1. z[i] = a[i]
    BY <1>2, <1>3, <1>5
  <2> QED BY <2>1, <1>5, <1>6, <1>8 DEF Ordered
<1> QED BY <1>7, <1>8

\* It is what the property says.
LEMMA StreamedSound == Inv /\ Streamed => StreamSound
<1> SUFFICES ASSUME Inv, Streamed PROVE StreamSound
  OBVIOUS
<1> DEFINE s == peer.heard
           z == StreamOf(op.packets, peer.heard, tx)
<1>1. op.packets \in Packets /\ TxSound(tx, op.packets) /\ s \in Seq(Unit)
  BY OpTyped DEF Inv, PeerSound, Peers
<1>2. QueueOf(op.packets, tx) \in Seq(Unit) /\ z = s \o QueueOf(op.packets, tx)
  BY <1>1, StreamOfTyped DEF StreamOf
<1>3. Packed(s)
  BY <1>1, <1>2, PackedBegins DEF Streamed
<1>4. Len(s) \in Nat /\ DOMAIN s = 1 .. Len(s) /\ \A i \in 1 .. Len(s) : s[i].at \in Nat /\ s[i].len \in Nat
  <2>1. Len(s) \in Nat /\ DOMAIN s = 1 .. Len(s) /\ \A i \in 1 .. Len(s) : s[i] \in Unit
    BY <1>1, LenProperties, ElementOfSeq
  <2> HIDE DEF s
  <2> QED BY <2>1, Constants DEF Unit
<1>5. Framed
  <2> SUFFICES ASSUME NEW i \in DOMAIN s
               PROVE  IF s[i].at = 0
                      THEN \A j \in i + 1 .. Min({i + s[i].len, Len(s)}) : s[j].at > 0 /\ s[j].of = s[i].of
                      ELSE \E j \in 1 .. i - 1 : s[j].at = 0 /\ i <= j + s[j].len
    BY DEF Framed
  <2> HIDE DEF s
  <2>1. CASE s[i].at = 0
    <3>1. PICK a, b : a = i + s[i].len /\ b = Len(s)
      OBVIOUS
    <3>2. a \in Nat /\ b \in Nat
      BY <3>1, <1>4
    <3>3. Min({a, b}) = IF a <= b THEN a ELSE b
      BY <3>2, MinOfTwo
    <3>4. \A j \in i + 1 .. Min({a, b}) : j \in 1 .. Len(s) /\ i < j /\ j <= i + s[i].len
      BY <3>1, <3>2, <3>3, <1>4
    <3>5. \A j \in i + 1 .. Min({a, b}) : s[j].at > 0 /\ s[j].of = s[i].of
      BY <3>4, <2>1, <1>3, <1>4 DEF Packed
    <3> QED BY <3>1, <3>5, <2>1
  <2>2. CASE s[i].at # 0
    <3>1. s[i].at > 0
      BY <2>2, <1>4
    <3> QED BY <3>1, <2>2, <1>3, <1>4 DEF Packed
  <2> QED BY <2>1, <2>2
<1>6. InOrder
  <2> SUFFICES ASSUME Unbroken PROVE InOrder
    BY ZenonT(30) DEF InOrder
  <2>1. Ordered(op.packets, s)
    <3>1. Ordered(op.packets, z)
      BY DEF Streamed, OrderSound
    <3> QED BY <3>1, <1>1, <1>2, OrderedBegins
  <2>2. ASSUME NEW j \in 1 .. Len(s), s[j].at > 0
        PROVE  LET before == {i \in 1 .. j - 1 : s[i].at > 0} IN
               /\ s[j].at = 1 + Cardinality({i \in before : s[i].of = s[j].of})
               /\ \A i \in before : s[i].of # s[j].of =>
                  \/ s[i].of[1] < s[j].of[1]
                  \/ s[i].of[1] = s[j].of[1] /\ s[i].of[2] < s[j].of[2]
                  \/ /\ s[i].of[1] = s[j].of[1] /\ s[j].of[2] > 0
                     /\ op.packets[s[j].of[1]].write[s[j].of[2]].interleave
    <3> DEFINE before == {i \in 1 .. j - 1 : s[i].at > 0}
    <3>1. {i \in before : s[i].of = s[j].of} = UnitsIn(s, j - 1, s[j].of)
      BY DEF UnitsIn
    <3>2. s[j].at = 1 + CountTo(s, j - 1, s[j].of)
      BY <2>1, <2>2 DEF Ordered
    <3>3. s[j].at = 1 + Cardinality({i \in before : s[i].of = s[j].of})
      BY <3>1, <3>2 DEF CountTo
    <3>4. \A i \in before : MayFollow(op.packets, s[i].of, s[j].of)
      BY <2>1, <2>2 DEF Ordered
    <3>5. \A i \in before : s[i].of # s[j].of =>
                  \/ s[i].of[1] < s[j].of[1]
                  \/ s[i].of[1] = s[j].of[1] /\ s[i].of[2] < s[j].of[2]
                  \/ /\ s[i].of[1] = s[j].of[1] /\ s[j].of[2] > 0
                     /\ op.packets[s[j].of[1]].write[s[j].of[2]].interleave
      BY <3>4, Zenon DEF MayFollow
    <3> QED BY ZenonT(30), <3>3, <3>5
  <2> QED BY ZenonT(30), <2>2, <1>4 DEF InOrder
<1> QED BY <1>5, <1>6 DEF StreamSound

\* Nothing is added to the stream or taken from it.
LEMMA StreamKept ==
    ASSUME Streamed, UNCHANGED tx, peer'.heard = peer.heard, op'.packets = op.packets,
           op'.connection = op.connection, op.pc = "down" => op'.pc = "down"
    PROVE  Streamed'
BY DEF Streamed, Unbroken

\* Nothing is queued.
LEMMA NothingQueued ==
    ASSUME NEW packets, NEW t, t.iov = <<>>, t.buf = <<>>, t.start \in Nat
    PROVE  QueueOf(packets, t) = <<>>
<1>1. ~(Len(t.buf) > t.start)
  <2>1. Len(t.buf) = 0
    OBVIOUS
  <2> QED BY <2>1
<1>2. VectorsOf(t) = <<>>
  BY <1>1 DEF VectorsOf
<1> QED BY <1>2, StreamEmpty DEF QueueOf

\* No units are a stream in order.
LEMMA EmptyStream ==
    /\ <<>> \in Seq(Unit)
    /\ Packed(<<>>) /\ Whole(<<>>)
    /\ \A packets : Ordered(packets, <<>>)
BY DEF Packed, Whole, Ordered

\* What is queued does not depend on the FIFOs.
LEMMA QueueAlike ==
    ASSUME NEW packets, NEW t, NEW r, r.iov = t.iov, r.buf = t.buf, r.start = t.start
    PROVE  QueueOf(packets, r) = QueueOf(packets, t)
<1>1. LastVector(r) = LastVector(t)
  BY DEF LastVector
<1>2. VectorsOf(r) = VectorsOf(t)
  BY <1>1 DEF VectorsOf
<1> QED BY <1>2 DEF QueueOf

\* Nothing is sent and nothing queued at first.
LEMMA InitStreamed == Init => Streamed
<1> SUFFICES ASSUME Init PROVE Streamed
  OBVIOUS
<1>1. /\ tx.iov = <<>> /\ tx.buf = <<>> /\ tx.start = 0 /\ tx.fifos = <<>> /\ tx.next = None
      /\ op.packets = <<>> /\ peer.heard = <<>>
  BY DEF Init, Connected
<1>2. QueueOf(op.packets, tx) = <<>>
  BY <1>1, NothingQueued
<1>3. StreamOf(op.packets, peer.heard, tx) = <<>>
  BY <1>1, <1>2, ConcatEmptySeq, EmptyStream DEF StreamOf
<1>4. OrderSound(op.packets, <<>>, tx)
  BY <1>1, EmptyStream DEF OrderSound, InTurn
<1> QED BY <1>3, <1>4, EmptyStream DEF Streamed

\* add_fifo_packet puts the next packet of the FIFO in turn at the end of the stream.
LEMMA QueueStreams == ASSUME Inv, Streamed, Queue PROVE Streamed'
<1>0. TxSound(tx, op.packets) /\ op.packets \in Packets /\ peer.heard \in Seq(Unit)
  BY OpTyped, PeerFields DEF Inv
<1>1. op.pc \in {"fill", "load"} /\ tx.fifos # <<>> /\ op' = op /\ rx' = rx /\ peer' = peer
  BY DEF Queue
<1>2. PICK i \in 1 .. Len(tx.fifos) : i = Index(Chosen) /\ tx.fifos[i].id = Chosen
  BY <1>0, <1>1, ChosenQueued
<1>3. PICK q, z : q = QueueOf(op.packets, tx) /\ z = StreamOf(op.packets, peer.heard, tx)
  OBVIOUS
<1>4. q \in Seq(Unit) /\ z \in Seq(Unit) /\ z = peer.heard \o q
  BY <1>0, <1>3, StreamOfTyped DEF StreamOf
<1>5. Packed(z) /\ Whole(z) /\ (Unbroken => OrderSound(op.packets, z, tx))
  BY <1>1, <1>3 DEF Streamed
<1>6. CASE tx' = Deactivated(Chosen)
  <2>1. tx'.iov = tx.iov /\ tx'.buf = tx.buf /\ tx'.start = tx.start
    BY <1>0, <1>2, <1>6, DeactivatedSound
  <2>2. QueueOf(op.packets, tx') = q
    BY <2>1, <1>3, QueueAlike
  <2>3. StreamOf(op'.packets, peer'.heard, tx') = z
    BY <2>2, <1>1, <1>4 DEF StreamOf
  <2>4. Unbroken => OrderSound(op.packets, z, tx')
    BY <1>0, <1>1, <1>4, <1>5, <1>6, DeactivatedOrder
  <2>5. Unbroken' <=> Unbroken
    BY <1>1 DEF Unbroken
  <2> QED BY <2>3, <2>4, <2>5, <1>1, <1>5 DEF Streamed
<1>7. CASE SpaceForPacket(Threshold) /\ ~Drained(Chosen) /\ tx' = AddFifoPacket(Chosen)
  <2>1. PICK n : FifoPacketAdded(tx', i, n)
    BY <1>7, <1>0, <1>1, <1>2, AddFifoPacketIs
  <2>2. PICK f : f = tx.fifos[i]
    OBVIOUS
  <2>3. /\ Len(tx'.fifos) = Len(tx.fifos) /\ tx'.fifos[i] = AdvancedFifo(f, n)
        /\ \A j \in 1 .. Len(tx.fifos) : j # i => tx'.fifos[j] = tx.fifos[j]
        /\ tx'.next = IF f.interleave THEN After(f.id) ELSE None
        /\ n \in 1 .. PacketMax /\ n \in Nat
        /\ Follows(QueueOf(op.packets, tx'), q, SentPacket(f.mux, f.id, f.pos, n))
    BY <2>1, <2>2, <1>0, <1>3, <1>7, FifoPacketFields
  <2>4. f \in TxFifo /\ AsDeclared(op.packets, f)
    BY <2>2, <1>0, <1>1, <1>2, ChosenQueued
  <2>5. f.id \in Ids /\ f.mux \in 0 .. 15 /\ f.pos \in Nat
    BY <2>4, <1>0, FifoNamed
  <2>6. PICK p, y : p = SentPacket(f.mux, f.id, f.pos, n) /\ y = StreamOf(op.packets, peer.heard, tx')
    OBVIOUS
  <2>7. p \in Seq(Unit)
    BY <2>3, <2>5, <2>6, SentPacketTyped
  <2>8. y = z \o p
    <3>1. y = peer.heard \o (q \o p)
      BY <2>3, <2>6 DEF StreamOf, Follows
    <3>2. PICK h : h = peer.heard
      OBVIOUS
    <3>3. h \in Seq(Unit) /\ q \in Seq(Unit) /\ p \in Seq(Unit)
      BY <3>2, <2>7, <1>0, <1>4
    <3>4. (h \o q) \o p = h \o (q \o p)
      BY ONLY <3>3, Associates
    <3> QED BY <3>1, <3>2, <3>4, <1>4
  <2>9. OneMore(y, z, f.id, f.pos, n)
    BY <2>3, <2>5, <2>6, <2>8, <1>4, OneMoreIs
  <2>10. Packed(y) /\ Whole(y)
    BY <2>9, <1>5, PackedGrows
  <2>11. Unbroken => OrderSound(op.packets, y, tx')
    BY <2>2, <2>3, <2>9, <1>0, <1>1, <1>2, <1>4, <1>5, AdvancedOrder
  <2>12. StreamOf(op'.packets, peer'.heard, tx') = y
    BY <2>6, <1>1
  <2>13. Unbroken' <=> Unbroken
    BY <1>1 DEF Unbroken
  <2> QED BY <2>10, <2>11, <2>12, <2>13, <1>1 DEF Streamed
<1> QED BY <1>6, <1>7 DEF Queue

\* What holds of a FIFO's turn is said of the FIFOs and the next one only.
LEMMA OrderAlike ==
    ASSUME NEW packets, NEW s, NEW t, NEW r, r.fifos = t.fifos, r.next = t.next, OrderSound(packets, s, t)
    PROVE  OrderSound(packets, s, r)
BY DEF OrderSound

\* send_queued moves units from the queue to the kernel: the stream is the same.
LEMMA WriteStreams == ASSUME Inv, Streamed, Write PROVE Streamed'
<1>0. TxSound(tx, op.packets) /\ op.packets \in Packets /\ peer \in Peers /\ peer.heard \in Seq(Unit) /\ op \in Ops
      /\ tx \in TxQueue /\ Room \in Nat
  BY OpTyped, PeerFields DEF Inv, TxSound
<1>1. PICK n \in IF Room = 0 THEN {0} ELSE 1 .. Min({Room, Len(Queued)}) :
         /\ tx' = Taken(n)
         /\ peer' = [peer EXCEPT !.heard = @ \o SubSeq(Queued, 1, n)]
         /\ Goto(IF op.pc = "push" \/ n = Len(Queued) THEN "load" ELSE "space")
  BY DEF Write
<1>2. Queued \in Seq(Unit) /\ Len(Queued) \in Nat
  BY <1>0, QueuedIs, LenProperties
<1>3. n \in Nat /\ n <= Len(Queued)
  <2>1. Min({Room, Len(Queued)}) = IF Room <= Len(Queued) THEN Room ELSE Len(Queued)
    BY <1>0, <1>2, MinOfTwo
  <2> QED BY <2>1, <1>0, <1>1, <1>2
<1>4. op'.packets = op.packets /\ op'.connection = op.connection /\ op.pc # "down"
  BY <1>0, <1>1 DEF Goto, Ops, Write
<1>5. PICK h, q, u, d : h = peer.heard /\ q = Queued /\ u = SubSeq(Queued, 1, n) /\ d = Dropped(Queued, n)
  OBVIOUS
<1>6. h \in Seq(Unit) /\ u \in Seq(Unit) /\ d \in Seq(Unit) /\ u \o d = q
  BY <1>0, <1>2, <1>3, <1>5, CutAgain
<1>7. peer'.heard = h \o u
  <2>1. peer' = [peer EXCEPT !.heard = h \o u]
    BY <1>1, <1>5
  <2> QED BY <2>1, <1>0 DEF Peers
<1>8. QueueOf(op.packets, tx) = q /\ QueueOf(op.packets, tx') = d
  BY <1>0, <1>1, <1>3, <1>5, TakenLeaves
<1>9. StreamOf(op'.packets, peer'.heard, tx') = StreamOf(op.packets, peer.heard, tx)
  <2>1. h \in Seq(Unit) /\ u \in Seq(Unit) /\ d \in Seq(Unit)
    BY <1>6
  <2>2. (h \o u) \o d = h \o (u \o d)
    BY ONLY <2>1, Associates
  <2> QED BY <2>2, <1>6, <1>4, <1>5, <1>7, <1>8 DEF StreamOf
<1>10. tx'.fifos = tx.fifos /\ tx'.next = tx.next
  <2>1. PICK i, s : i = Without(Vectors, n) /\ s = Len(tx.buf)
    OBVIOUS
  <2>2. tx' = [tx EXCEPT !.iov = <<>>, !.buf = <<>>, !.start = 0, !.done = {}] \/ tx' = [tx EXCEPT !.iov = i, !.start = s]
    BY <2>1, <1>1 DEF Taken
  <2> QED BY <2>2, <1>0 DEF TxQueue
<1>11. Unbroken' => Unbroken
  BY <1>4 DEF Unbroken
<1>12. PICK z : z = StreamOf(op.packets, peer.heard, tx)
  OBVIOUS
<1>13. Packed(z) /\ Whole(z) /\ (Unbroken => OrderSound(op.packets, z, tx))
  BY <1>4, <1>12 DEF Streamed
<1>14. Unbroken => OrderSound(op.packets, z, tx')
  BY <1>10, <1>13, OrderAlike
<1>15. StreamOf(op'.packets, peer'.heard, tx') = z
  BY <1>9, <1>12
<1> QED BY <1>4, <1>11, <1>13, <1>14, <1>15 DEF Streamed

\* close drops what is queued: the stream ends with what the kernel has.
LEMMA CloseStreams == ASSUME Inv, Streamed, Close PROVE Streamed'
<1>0. TxSound(tx, op.packets) /\ op.packets \in Packets /\ peer.heard \in Seq(Unit) /\ op \in Ops /\ tx \in TxQueue
  BY OpTyped, PeerFields DEF Inv, TxSound
<1>1. op'.pc = "down" /\ op'.packets = op.packets /\ op.pc # "down" /\ peer' = peer
  BY <1>0 DEF Close, Ops
<1>2. tx'.iov = <<>> /\ tx'.buf = <<>> /\ tx'.start = 0
  BY <1>0 DEF Close, TxQueue
<1>3. QueueOf(op.packets, tx') = <<>>
  BY <1>2, NothingQueued
<1>4. StreamOf(op'.packets, peer'.heard, tx') = peer.heard
  BY <1>0, <1>1, <1>3, ConcatEmptySeq DEF StreamOf
<1>5. Packed(peer.heard)
  <2>1. PICK h, q : h = peer.heard /\ q = QueueOf(op.packets, tx)
    OBVIOUS
  <2>2. h \in Seq(Unit) /\ q \in Seq(Unit) /\ Packed(h \o q)
    BY <2>1, <1>0, StreamOfTyped DEF Streamed, StreamOf
  <2> QED BY <2>1, <2>2, PackedBegins
<1> QED BY <1>1, <1>4, <1>5 DEF Streamed, Unbroken

\* A new connection starts with an empty stream, as nothing is queued.
LEMMA ReconnectStreams == ASSUME Inv, Reconnect PROVE Streamed'
<1>0. tx.iov = <<>> /\ tx.buf = <<>> /\ tx.start \in Nat /\ op \in Ops
  <2>1. tx.iov = <<>> /\ tx.buf = <<>>
    BY DEF Inv, Rested, Reconnect
  <2> QED BY <2>1, TxFields DEF Inv, TxSound, OpSound
<1>1. op.connection \in Nat \ {0} /\ op'.connection = op.connection + 1
  BY <1>0 DEF Reconnect, Ops
<1>2. op'.connection # 1
  BY <1>1
<1>3. peer'.heard = <<>> /\ tx' = tx
  BY DEF Reconnect, Connected
<1>4. QueueOf(op'.packets, tx') = <<>>
  BY <1>0, <1>3, NothingQueued
<1>5. StreamOf(op'.packets, peer'.heard, tx') = <<>>
  BY <1>3, <1>4, ConcatEmptySeq, EmptyStream DEF StreamOf
<1> QED BY <1>2, <1>5, EmptyStream DEF Streamed, Unbroken

\* No unit is of a FIFO or message of a packet that is not there yet.
LEMMA NotYet ==
    ASSUME NEW s, NEW n \in Nat, \A i \in 1 .. Len(s) : s[i].at > 0 => s[i].of[1] \in 1 .. n - 1,
           NEW id, id[1] = n
    PROVE  CountTo(s, Len(s), id) = 0
<1>1. UnitsIn(s, Len(s), id) = {}
  <2> SUFFICES ASSUME NEW i \in 1 .. Len(s), s[i].at > 0, s[i].of = id PROVE FALSE
    BY DEF UnitsIn
  <2>1. s[i].of[1] \in 1 .. n - 1 /\ s[i].of[1] = n
    OBVIOUS
  <2> QED BY <2>1
<1> QED BY <1>1, FS_EmptySet DEF CountTo

\* An ordered stream is ordered with a packet more.
LEMMA OrderedAsWell ==
    ASSUME NEW packets, NEW more, NEW n \in Nat, \A i \in 1 .. n : more[i] = packets[i], NEW s,
           \A i \in 1 .. Len(s) : s[i].at > 0 => s[i].of[1] \in 1 .. n, Ordered(packets, s)
    PROVE  Ordered(more, s)
<1> SUFFICES ASSUME NEW j \in 1 .. Len(s), s[j].at > 0
             PROVE  /\ s[j].at = 1 + CountTo(s, j - 1, s[j].of)
                    /\ \A i \in 1 .. j - 1 : s[i].at > 0 => MayFollow(more, s[i].of, s[j].of)
  BY DEF Ordered
<1>1. s[j].at = 1 + CountTo(s, j - 1, s[j].of)
      /\ \A i \in 1 .. j - 1 : s[i].at > 0 => MayFollow(packets, s[i].of, s[j].of)
  BY DEF Ordered
<1>2. PICK b : b = s[j].of
  OBVIOUS
<1>3. more[b[1]] = packets[b[1]]
  <2>1. b[1] \in 1 .. n
    BY <1>2
  <2> QED BY <2>1
<1>4. \A a : MayFollow(packets, a, b) => MayFollow(more, a, b)
  BY <1>3 DEF MayFollow
<1> QED BY <1>1, <1>2, <1>4

\* send: the stream may go on with the message of a new packet, and its FIFOs.
LEMMA MessageOrder ==
    ASSUME NEW packets, NEW more, NEW n \in Nat \ {0}, n - 1 = Len(packets), Len(more) = n,
           \A i \in 1 .. n - 1 : more[i] = packets[i],
           NEW s \in Seq(Unit), NEW t, OrderSound(packets, s, t),
           NEW z, OneMore(z, s, Message(n), 0, 1), NEW r, r.next = None,
           \A k \in 1 .. Len(r.fifos) : r.fifos[k].id = <<n, k>> /\ r.fifos[k].pos = 0
    PROVE  OrderSound(more, z, r)
<1>1. Ordered(packets, s) /\ \A i \in 1 .. Len(s) : s[i].at > 0 => s[i].of[1] \in 1 .. n - 1
  BY DEF OrderSound
<1>2. n - 1 \in Nat /\ Message(n)[1] = n /\ Message(n)[2] = 0
  BY DEF Message
<1>3. Ordered(more, s)
  BY <1>1, <1>2, OrderedAsWell
<1>4. NextFits(more, s, Message(n), 0)
  <2>1. CountTo(s, Len(s), Message(n)) = 0
    BY <1>1, <1>2, NotYet
  <2>2. ASSUME NEW i \in 1 .. Len(s), s[i].at > 0 PROVE MayFollow(more, s[i].of, Message(n))
    <3>1. s[i].of[1] \in 1 .. n - 1
      BY <1>1, <2>2
    <3>2. s[i].of[1] < Message(n)[1]
      BY <3>1, <1>2
    <3> QED BY <3>2 DEF MayFollow
  <2> QED BY <2>1, <2>2 DEF NextFits
<1>5. Ordered(more, z)
  BY <1>3, <1>4, OrderedGrows
<1>6. /\ Len(s) \in Nat /\ Len(z) = Len(s) + 2 /\ \A i \in 1 .. Len(s) : z[i] = s[i]
      /\ \A i \in Len(s) + 1 .. Len(s) + 2 : z[i].of = Message(n)
  BY DEF OneMore
<1>7. ASSUME NEW i \in 1 .. Len(z), z[i].at > 0 PROVE z[i].of[1] \in 1 .. n - 1 \/ z[i].of = Message(n)
  <2>1. i \in 1 .. Len(s) \/ i \in Len(s) + 1 .. Len(s) + 2
    BY <1>6
  <2>2. CASE i \in 1 .. Len(s)
    BY <2>2, <1>1, <1>6, <1>7
  <2> QED BY <2>1, <2>2, <1>6
<1>8. \A i \in 1 .. Len(z) : z[i].at > 0 => z[i].of[1] \in 1 .. Len(more)
  BY <1>2, <1>7
<1>9. ASSUME NEW k \in 1 .. Len(r.fifos) PROVE Awaits(more, z, r.fifos[k])
  <2>1. PICK f, id : f = r.fifos[k] /\ id = f.id
    OBVIOUS
  <2>2. id = <<n, k>> /\ f.pos = 0 /\ k \in Nat \ {0}
    BY <2>1
  <2>3. id[1] = n /\ id[2] = k /\ id # Message(n)
    BY <2>2 DEF Message
  <2>4. CountTo(s, Len(s), id) = 0
    BY <1>1, <2>3, NotYet
  <2>5. CountTo(z, Len(z), id) = 0
    <3>1. CountsOn(z, s, Message(n), 1)
      BY CountGrows
    <3> QED BY <3>1, <2>3, <2>4 DEF CountsOn
  <2>6. ASSUME NEW j \in 1 .. Len(z), z[j].at > 0, z[j].of[1] = n PROVE z[j].of[2] <= k
    <3>1. z[j].of = Message(n)
      BY <2>6, <1>7
    <3> QED BY <3>1, <2>2, <1>2
  <2>7. f.id[1] = Len(more) /\ CountTo(z, Len(z), f.id) = f.pos
    BY <2>1, <2>2, <2>3, <2>5
  <2>8. \A j \in 1 .. Len(z) : z[j].at > 0 /\ z[j].of[1] = Len(more) => z[j].of[2] <= f.id[2]
    BY <2>1, <2>3, <2>6
  <2>9. Awaits(more, z, f)
    BY <2>7, <2>8 DEF Awaits
  <2> QED BY <2>1, <2>9
<1>10. InTurn(r.fifos, r.next)
  <2>1. \A i \in 1 .. Len(r.fifos) : r.fifos[i].id[2] = i
    OBVIOUS
  <2> QED BY <2>1 DEF InTurn
<1> QED BY <1>5, <1>8, <1>9, <1>10 DEF OrderSound

\* send puts the message of a new packet at the end of the stream, and its FIFOs in turn.
LEMMA SendStreams == ASSUME Inv, Streamed, NEW shape \in Shapes, Send(shape) PROVE Streamed'
<1> DEFINE n == Len(op.packets) + 1
           more == Append(op.packets, shape)
           t == [tx EXCEPT !.fifos = @ \o Fifos(n, shape)]
<1>0. /\ TxSound(tx, op.packets) /\ op.packets \in Packets /\ op.packets \in Seq(Shapes) /\ peer.heard \in Seq(Unit)
      /\ op \in Ops /\ tx \in TxQueue /\ Len(op.packets) \in Nat
  BY OpTyped, PeerFields DEF Inv, TxSound
<1>1. op.pc = "idle" /\ Len(op.packets) < MaxPackets /\ peer' = peer /\ tx.iov = <<>> /\ tx.buf = <<>>
  BY DEF Inv, Rested, Send
<1>2. op'.packets = more /\ op'.connection = op.connection
  BY <1>0 DEF Send, Ops
<1>3. more \in Packets /\ Len(more) = n /\ n \in 1 .. MaxPackets /\ n \in Nat \ {0} /\ n - 1 = Len(op.packets)
      /\ \A i \in 1 .. n - 1 : more[i] = op.packets[i]
  <2>1. more \in Seq(Shapes) /\ Len(more) = Len(op.packets) + 1 /\ \A i \in 1 .. Len(op.packets) : more[i] = op.packets[i]
    BY <1>0, MoreDeclared
  <2>2. n \in Nat \ {0} /\ n - 1 = Len(op.packets) /\ n \in 1 .. MaxPackets
    BY <1>0, <1>1, Constants
  <2> HIDE DEF more
  <2> QED BY <2>1, <2>2 DEF Packets
<1>4. TxSound(t, more) /\ t.iov = <<>> /\ t.buf = <<>> /\ t.fifos = tx.fifos \o Fifos(n, shape)
  BY <1>0, <1>1, JoinedSound
<1>5. t.next = tx.next
  <2>1. PICK fs : fs = tx.fifos \o Fifos(n, shape)
    OBVIOUS
  <2>2. t = [tx EXCEPT !.fifos = fs]
    BY <2>1
  <2> QED BY <2>2, <1>0 DEF TxQueue
<1>6. Message(n) \in Ids /\ IsMessage(more, Message(n)) /\ MuxIn(more, Message(n)) = 0 /\ Message(n) # None
  <2>1. DOMAIN more = 1 .. n
    BY <1>0, MoreDeclared
  <2> HIDE DEF more
  <2> QED BY <2>1, <1>3, Constants DEF Message, Ids, IsMessage, MuxIn, None
<1>7. tx' = AddPacket(t, 0, Message(n), 0, 1)
  BY DEF Send
<1>8. 0 \in 0 .. 15 /\ 1 \in 1 .. PacketMax /\ 0 \in Nat
  BY Constants
<1>9. TxSound(tx', more)
  <2>1. (Inv)'
    BY SendKeeps
  <2> QED BY <2>1, <1>2 DEF Inv
<1>10. t.start \in Nat
  BY <1>4, TxFields DEF TxSound
<1> HIDE DEF t, more, n
<1>11. QueueOf(more, tx') = SentPacket(0, Message(n), 0, 1)
  <2>1. Follows(QueueOf(more, tx'), QueueOf(more, t), SentPacket(0, Message(n), 0, 1))
    <3>1. PICK z, id, r : z = 0 /\ id = Message(n) /\ r = tx'
      OBVIOUS
    <3>2. z \in 0 .. 15 /\ 1 \in 1 .. PacketMax /\ z \in Nat /\ id \in Ids /\ z = MuxIn(more, id) /\ id # None
          /\ IsMessage(more, id) /\ r = AddPacket(t, z, id, z, 1) /\ TxSound(r, more) /\ TxSound(t, more)
          /\ more \in Packets
      BY <3>1, <1>3, <1>4, <1>6, <1>7, <1>8, <1>9
    <3>3. Follows(QueueOf(more, r), QueueOf(more, t), SentPacket(z, id, z, 1))
      BY <3>2, AddPacketQueues
    <3> QED BY <3>1, <3>3
  <2>2. QueueOf(more, t) = <<>>
    BY <1>4, <1>10, NothingQueued
  <2>3. SentPacket(0, Message(n), 0, 1) \in Seq(Unit)
    BY <1>6, <1>8, SentPacketTyped
  <2> QED BY <2>1, <2>2, <2>3, ConcatEmptySeq DEF Follows
<1>12. PICK s, z : s = peer.heard /\ z = StreamOf(op'.packets, peer'.heard, tx')
  OBVIOUS
<1>13. StreamOf(op.packets, peer.heard, tx) = s
  <2>1. QueueOf(op.packets, tx) = <<>>
    <3>1. tx.start \in Nat
      BY <1>0, TxFields
    <3> QED BY <3>1, <1>1, NothingQueued
  <2> QED BY <2>1, <1>0, <1>12, ConcatEmptySeq DEF StreamOf
<1>14. Packed(s) /\ Whole(s) /\ (Unbroken => OrderSound(op.packets, s, tx))
  BY <1>1, <1>13 DEF Streamed
<1>15. OneMore(z, s, Message(n), 0, 1)
  <2>1. z = s \o SentPacket(0, Message(n), 0, 1)
    BY <1>1, <1>2, <1>11, <1>12 DEF StreamOf
  <2> QED BY <2>1, <1>0, <1>6, <1>8, <1>12, OneMoreIs
<1>16. Packed(z) /\ Whole(z)
  BY <1>14, <1>15, PackedGrows
<1>17. Unbroken' => OrderSound(more, z, tx')
  <2> SUFFICES ASSUME Unbroken' PROVE OrderSound(more, z, tx')
    OBVIOUS
  <2>1. Unbroken
    BY <1>1, <1>2 DEF Unbroken
  <2>2. tx.fifos = <<>>
    BY <2>1, <1>1 DEF Inv, Rested, Unbroken
  <2>3. tx.next = None
    BY <2>2, <1>0 DEF TxSound, FifosKnown
  <2>4. tx'.fifos = t.fifos /\ tx'.next = t.next
    <3>1. PICK x, id, r : x = 0 /\ id = Message(n) /\ r = tx'
      OBVIOUS
    <3>2. PICK h, lv, v : h = Header(x, 1, id) /\ lv = Vector(None, t.start, Len(t.buf) + 1 - t.start) /\ v = Vector(id, x, 1)
      OBVIOUS
    <3>3. x \in 0 .. 15 /\ 1 \in 1 .. PacketMax /\ x \in Nat /\ id \in Ids
          /\ r = AddPacket(t, x, id, x, 1) /\ TxSound(t, more)
      BY <3>1, <1>4, <1>6, <1>7, <1>8
    <3>4. IsRequeued(r, t, (t.iov \o <<lv>>) \o <<v>>, t.buf \o <<h>>, Len(t.buf) + 1)
      BY <3>2, <3>3, AddPacketParts
    <3> QED BY <3>1, <3>4 DEF IsRequeued
  <2>5. Fifos(n, shape) \in Seq(TxFifo)
        /\ \A k \in 1 .. Len(Fifos(n, shape)) : Fifos(n, shape)[k].id = <<n, k>> /\ Fifos(n, shape)[k].pos = 0
    <3> DEFINE fs == Fifos(n, shape)
    <3>1. /\ fs \in Seq(TxFifo) /\ Len(fs) = Len(shape.write)
          /\ \A k \in 1 .. Len(shape.write) :
                fs[k] = [id |-> <<n, k>>, mux |-> shape.write[k].mux, len |-> shape.write[k].len,
                         pos |-> 0, interleave |-> shape.write[k].interleave]
      BY <1>3, FifosTyped
    <3> HIDE DEF fs
    <3>2. ASSUME NEW k \in 1 .. Len(shape.write) PROVE fs[k].id = <<n, k>> /\ fs[k].pos = 0
      <4>1. PICK id, mux, len, on : id = <<n, k>> /\ mux = shape.write[k].mux /\ len = shape.write[k].len
                                   /\ on = shape.write[k].interleave
        OBVIOUS
      <4>2. fs[k] = [id |-> id, mux |-> mux, len |-> len, pos |-> 0, interleave |-> on]
        BY <3>1, <4>1
      <4>3. fs[k].id = id /\ fs[k].pos = 0
        BY <4>2
      <4> QED BY <4>1, <4>3
    <3>3. fs \in Seq(TxFifo) /\ \A k \in 1 .. Len(fs) : fs[k].id = <<n, k>> /\ fs[k].pos = 0
      BY <3>1, <3>2
    <3> QED BY <3>3 DEF fs
  <2>6. tx'.fifos = Fifos(n, shape)
    BY <2>2, <2>4, <2>5, <1>4, ConcatEmptySeq
  <2>7. tx'.next = None
    BY <2>3, <2>4, <1>5
  <2>8. \A k \in 1 .. Len(tx'.fifos) : tx'.fifos[k].id = <<n, k>> /\ tx'.fifos[k].pos = 0
    BY <2>5, <2>6
  <2>9. OrderSound(op.packets, s, tx) /\ s \in Seq(Unit)
    BY <2>1, <1>0, <1>12, <1>14
  <2> QED BY <2>7, <2>8, <2>9, <1>3, <1>15, MessageOrder
<1> QED BY <1>2, <1>12, <1>16, <1>17 DEF Streamed

-----------------------------------------------------------------------------
(* The second theorem.                                                     *)

\* Every action keeps the stream sound.
LEMMA NextStreamed == Inv /\ Streamed /\ [Next]_vars => Streamed'
<1> SUFFICES ASSUME Inv, Streamed, [Next]_vars PROVE Streamed'
  OBVIOUS
<1>0. op \in Ops
  BY DEF Inv, OpSound
<1>1. ASSUME NEW shape \in Shapes, Send(shape) PROVE Streamed'
  BY <1>1, SendStreams
<1>2. ASSUME NEW p, Goto(p), UNCHANGED tx, peer'.heard = peer.heard, op.pc # "down" PROVE Streamed'
  <2>1. op'.packets = op.packets /\ op'.connection = op.connection
    BY <1>0, <1>2 DEF Goto, Ops
  <2> QED BY <2>1, <1>2, StreamKept
<1>3. ASSUME op' = op, UNCHANGED tx, peer'.heard = peer.heard PROVE Streamed'
  BY <1>3, StreamKept
<1>4. ASSUME Finish, UNCHANGED tx, peer'.heard = peer.heard, op.pc # "down" PROVE Streamed'
  <2>1. op'.packets = op.packets /\ op'.connection = op.connection
    BY <1>0, <1>4 DEF Finish, Ops
  <2> QED BY <2>1, <1>4, StreamKept
<1>5. CASE ReceiveCmnd
  BY <1>2, <1>5 DEF ReceiveCmnd
<1>6. CASE Queue
  BY <1>6, QueueStreams
<1>7. CASE Filled
  BY <1>2, <1>7 DEF Filled
<1>8. CASE Loaded
  <2>1. UNCHANGED <<tx, peer>> /\ op.pc = "load"
    BY <1>8 DEF Loaded
  <2>2. CASE Goto("write")
    BY <2>1, <2>2, <1>2
  <2>3. CASE op' = [op EXCEPT !.pc = "idle", !.sent = @ + 1]
    <3>1. op'.packets = op.packets /\ op'.connection = op.connection
      BY <2>3, <1>0 DEF Ops
    <3> QED BY <3>1, <2>1, StreamKept
  <2> QED BY <2>2, <2>3, <1>8 DEF Loaded
<1>9. CASE Write
  BY <1>9, WriteStreams
<1>10. CASE WaitForSpace
  BY <1>2, <1>10 DEF WaitForSpace
<1>11. ASSUME NEW u, peer' = [peer EXCEPT !.in = u] PROVE peer'.heard = peer.heard
  <2>1. peer \in Peers
    BY DEF Inv, PeerSound
  <2> QED BY <2>1, <1>11 DEF Peers
<1>12. CASE RecvHeader
  <2>1. PICK k : peer' = [peer EXCEPT !.in = SubSeq(@, k + 1, Len(@))]
    BY <1>12 DEF RecvHeader
  <2>2. peer' = [peer EXCEPT !.in = SubSeq(peer.in, k + 1, Len(peer.in))]
    BY <2>1
  <2> QED BY <2>2, <1>3, <1>11, <1>12 DEF RecvHeader
<1>13. CASE RecvData
  <2>1. PICK k : peer' = [peer EXCEPT !.in = SubSeq(@, k + 1, Len(@))]
    BY <1>13 DEF RecvData
  <2>2. peer' = [peer EXCEPT !.in = SubSeq(peer.in, k + 1, Len(peer.in))]
    BY <2>1
  <2>3. peer'.heard = peer.heard
    BY <2>2, <1>11
  <2>4. UNCHANGED tx /\ op.pc # "down"
    BY <1>13 DEF RecvData, Receiving
  <2>5. UNCHANGED op \/ Finish \/ \E p \in {"space", "poll"} : Goto(p)
    BY <1>13 DEF RecvData
  <2> QED BY <2>3, <2>4, <2>5, <1>2, <1>3, <1>4
<1>14. CASE EndDrain
  BY <1>2, <1>14 DEF EndDrain
<1>15. CASE EndPoll
  BY <1>4, <1>15 DEF EndPoll
<1>16. CASE Close
  BY <1>16, CloseStreams
<1>17. CASE Reconnect
  BY <1>17, ReconnectStreams
<1>18. CASE Peer
  <2>0. peer \in Peers
    BY DEF Inv, PeerSound
  <2>1. UNCHANGED <<tx, op>>
    BY ZenonT(30), <1>18 DEF Peer, PeerRead, PeerAnswer, PeerWrite
  <2>2. CASE PeerRead
    <3>1. peer'.heard = peer.heard
      BY <2>2, <2>0 DEF PeerRead, Peers
    <3> QED BY <3>1, <2>1, <1>3
  <2>3. CASE PeerAnswer
    <3>1. PICK k, answer : peer' = [peer EXCEPT !.answered = k, !.reply = @ \o answer]
      BY ZenonT(30), <2>3 DEF PeerAnswer
    <3>2. PICK u : u = peer.reply \o answer
      OBVIOUS
    <3>3. peer' = [peer EXCEPT !.answered = k, !.reply = u]
      BY <3>1, <3>2
    <3>4. peer'.heard = peer.heard
      BY <3>3, <2>0 DEF Peers
    <3> QED BY <3>4, <2>1, <1>3
  <2>4. CASE PeerWrite
    <3>1. PICK u, v : peer' = [peer EXCEPT !.in = u, !.reply = v]
      <4>1. PICK u, v : u = Append(peer.in, peer.reply[1]) /\ v = SubSeq(peer.reply, 2, Len(peer.reply))
        OBVIOUS
      <4>2. peer' = [peer EXCEPT !.in = u, !.reply = v]
        BY <4>1, <2>4 DEF PeerWrite
      <4> QED BY ZenonT(30), <4>2
    <3>2. peer'.heard = peer.heard
      BY <3>1, <2>0 DEF Peers
    <3> QED BY <3>2, <2>1, <1>3
  <2> QED BY <2>2, <2>3, <2>4, <1>18 DEF Peer
<1>19. CASE UNCHANGED vars
  BY <1>3, <1>19 DEF vars
<1> QED BY <1>1, <1>5, <1>6, <1>7, <1>8, <1>9, <1>10, <1>12, <1>13, <1>14, <1>15, <1>16, <1>17, <1>18, <1>19
     DEF Next, Proceed

\* What is sent is whole and in order: packets as their headers say, each FIFO's data
\* once and in its turn after the message that announces it, wherever the kernel cuts.
THEOREM Streams == Spec => []StreamSound
<1>1. Init => Inv /\ Streamed
  BY InitInv, InitStreamed
<1>2. Inv /\ Streamed /\ [Next]_vars => (Inv /\ Streamed)'
  BY NextInv, NextStreamed
<1>3. Spec => [](Inv /\ Streamed)
  BY <1>1, <1>2, PTL DEF Spec
<1> QED BY <1>3, StreamedSound, PTL

-----------------------------------------------------------------------------
(* What is received.  What the server has answered and the client has not  *)
(* read is a list of packets, which leads from the place where the client  *)
(* is to the packet that is to be answered next.                           *)

\* The FIFOs that packet n of commands reads, and what the server sends for FIFO k.
ReadsOf(packets, n) == IF n \in 1 .. Len(packets) THEN Len(packets[n].read) ELSE 0
ReadUnits(packets, n, k) == [i \in 1 .. packets[n].read[k] |-> Data(4, <<n, k>>, i)]
ReadData(packets, n, k) == Packet(4, <<n, k>>, ReadUnits(packets, n, k))

\* Places: before the response to packet n, with FIFO k the next; and after it, when the
\* FIFOs from k on are left.
At(n, k) == [of |-> n, next |-> k, want |-> "response"]
PollAt(packets, n, k) ==
    IF k > ReadsOf(packets, n) THEN At(n + 1, 1) ELSE [of |-> n, next |-> k, want |-> "data"]

\* The packets that may come at a place: the data of the next FIFO, a response to all
\* or none of the data, and a refusal.
Fills(packets, s, u, t) ==
    /\ s.next \in 1 .. ReadsOf(packets, s.of)
    /\ u = ReadData(packets, s.of, s.next)
    /\ t = IF s.want = "data" THEN PollAt(packets, s.of, s.next + 1) ELSE At(s.of, s.next + 1)
Responds(packets, s, u, t) ==
    /\ s.want = "response"
    /\ s.next = 1 \/ s.next = ReadsOf(packets, s.of) + 1
    /\ u = Response(s.of, 1) /\ t = PollAt(packets, s.of, s.next)
Refuses(s, u, t) ==
    /\ s.want = "response" /\ s.next = 1
    /\ u = Response(s.of, 2) /\ t = At(s.of + 1, 1)
Passes(packets, s, u, t) ==
    /\ s.of \in 1 .. Len(packets)
    /\ Fills(packets, s, u, t) \/ Responds(packets, s, u, t) \/ Refuses(s, u, t)

\* Packets us lead from place s to place t, by way of the places st.
By(packets, s, us, t, st) ==
    /\ st[1] = s /\ st[Len(us) + 1] = t
    /\ \A i \in 1 .. Len(us) : Passes(packets, st[i], us[i], st[i + 1])
Run(packets, s, us, t) == \E st : By(packets, s, us, t, st)

Units == Seq(Unit)

\* No packets lead nowhere.
LEMMA RunNone ==
    ASSUME NEW packets, NEW s, NEW t
    PROVE  Run(packets, s, <<>>, t) <=> s = t
<1>1. Len(<<>>) = 0 /\ Len(<<>>) + 1 = 1 /\ \A i \in 1 .. Len(<<>>) : FALSE
  OBVIOUS
<1>2. ASSUME Run(packets, s, <<>>, t) PROVE s = t
  BY <1>1, <1>2 DEF Run, By
<1>3. ASSUME s = t PROVE Run(packets, s, <<>>, t)
  <2> DEFINE st == [i \in {1} |-> s]
  <2>1. st[1] = s
    OBVIOUS
  <2> HIDE DEF st
  <2>2. By(packets, s, <<>>, t, st)
    BY <1>1, <1>3, <2>1 DEF By
  <2> QED BY <2>2 DEF Run
<1> QED BY <1>2, <1>3

\* One packet is a list of packets that lead on.
LEMMA RunOne ==
    ASSUME NEW packets, NEW s, NEW u, NEW t, Passes(packets, s, u, t)
    PROVE  Run(packets, s, <<u>>, t)
<1> DEFINE st == [i \in 1 .. 2 |-> IF i = 1 THEN s ELSE t]
<1>1. st[1] = s /\ st[2] = t
  OBVIOUS
<1>2. Len(<<u>>) = 1 /\ <<u>>[1] = u /\ Len(<<u>>) + 1 = 2
  OBVIOUS
<1> HIDE DEF st
<1>3. ASSUME NEW i \in 1 .. Len(<<u>>) PROVE Passes(packets, st[i], <<u>>[i], st[i + 1])
  <2>1. i = 1 /\ i + 1 = 2
    BY <1>2
  <2> QED BY <1>1, <1>2, <2>1
<1>4. By(packets, s, <<u>>, t, st)
  BY <1>1, <1>2, <1>3 DEF By
<1> QED BY <1>4 DEF Run

\* A list of packets starts with one that may come.
LEMMA RunFirst ==
    ASSUME NEW packets, NEW s, NEW us \in Seq(Units), NEW t, Run(packets, s, us, t), us # <<>>
    PROVE  \E m : Passes(packets, s, Head(us), m) /\ Run(packets, m, Tail(us), t)
<1>1. PICK st : By(packets, s, us, t, st)
  BY DEF Run
<1>2. PICK L, v : L = Len(us) /\ v = Tail(us)
  OBVIOUS
<1>3. L \in Nat \ {0} /\ Head(us) = us[1] /\ Len(v) = L - 1 /\ \A i \in 1 .. L - 1 : v[i] = us[i + 1]
  BY <1>2, LenProperties, EmptySeq, HeadTailProperties
<1> DEFINE r == [i \in 1 .. L |-> st[i + 1]]
<1>4. \A i \in 1 .. L : r[i] = st[i + 1]
  OBVIOUS
<1> HIDE DEF r
<1>5. \A i \in 1 .. L : Passes(packets, st[i], us[i], st[i + 1])
  BY <1>1, <1>2 DEF By
<1>6. st[1] = s /\ st[L + 1] = t
  BY <1>1, <1>2 DEF By
<1>7. 1 \in 1 .. L /\ L \in 1 .. L /\ L - 1 + 1 = L
  BY <1>3
<1>8. Passes(packets, s, Head(us), st[2])
  <2>1. Passes(packets, st[1], us[1], st[1 + 1])
    BY <1>5, <1>7
  <2> QED BY <2>1, <1>3, <1>6
<1>9. By(packets, st[2], v, t, r)
  <2>1. r[1] = st[2] /\ r[L] = t
    BY <1>4, <1>6, <1>7
  <2>2. ASSUME NEW i \in 1 .. L - 1 PROVE Passes(packets, r[i], v[i], r[i + 1])
    <3>1. i \in 1 .. L /\ i + 1 \in 1 .. L
      BY <1>3
    <3>2. Passes(packets, st[i + 1], us[i + 1], st[(i + 1) + 1])
      BY <1>5, <3>1
    <3> QED BY <3>1, <3>2, <1>3, <1>4
  <2> QED BY <2>1, <2>2, <1>3, <1>7 DEF By
<1>10. Run(packets, st[2], Tail(us), t)
  BY <1>2, <1>9 DEF Run
<1> QED BY <1>8, <1>10

\* One list after the other leads from the first place to the last.
LEMMA RunConcat ==
    ASSUME NEW packets, NEW us \in Seq(Units), NEW vs \in Seq(Units), NEW s, NEW m, NEW t,
           Run(packets, s, us, m), Run(packets, m, vs, t)
    PROVE  Run(packets, s, us \o vs, t)
<1>1. PICK a, b : By(packets, s, us, m, a) /\ By(packets, m, vs, t, b)
  BY DEF Run
<1>2. PICK K, L, w : K = Len(us) /\ L = Len(vs) /\ w = us \o vs
  OBVIOUS
<1>3. /\ K \in Nat /\ L \in Nat /\ Len(w) = K + L
      /\ \A i \in 1 .. K + L : w[i] = IF i <= K THEN us[i] ELSE vs[i - K]
  BY <1>2, LenProperties, ConcatProperties
<1> DEFINE st == [i \in 1 .. K + L + 1 |-> IF i <= K THEN a[i] ELSE b[i - K]]
<1>4. \A i \in 1 .. K + L + 1 : st[i] = IF i <= K THEN a[i] ELSE b[i - K]
  OBVIOUS
<1> HIDE DEF st
<1>5. a[1] = s /\ a[K + 1] = m /\ b[1] = m /\ b[L + 1] = t
  BY <1>1, <1>2 DEF By
<1>6. \A i \in 1 .. K : Passes(packets, a[i], us[i], a[i + 1])
  BY <1>1, <1>2 DEF By
<1>7. \A i \in 1 .. L : Passes(packets, b[i], vs[i], b[i + 1])
  BY <1>1, <1>2 DEF By
<1>8. \A i \in 1 .. K + 1 : st[i] = a[i]
  <2> TAKE i \in 1 .. K + 1
  <2>1. i \in 1 .. K + L + 1
    BY <1>3
  <2>2. CASE i <= K
    BY <2>1, <2>2, <1>4
  <2>3. CASE ~(i <= K)
    <3>1. i = K + 1 /\ i - K = 1
      BY <2>3, <1>3
    <3> QED BY <2>1, <2>3, <3>1, <1>4, <1>5
  <2> QED BY <2>2, <2>3
<1>9. \A i \in 1 .. L + 1 : st[K + i] = b[i]
  <2> TAKE i \in 1 .. L + 1
  <2>1. K + i \in 1 .. K + L + 1 /\ ~(K + i <= K) /\ (K + i) - K = i
    BY <1>3
  <2> QED BY <2>1, <1>4
<1>10. ASSUME NEW i \in 1 .. K + L PROVE Passes(packets, st[i], w[i], st[i + 1])
  <2>1. CASE i <= K
    <3>1. i \in 1 .. K /\ i \in 1 .. K + 1 /\ i + 1 \in 1 .. K + 1
      BY <2>1, <1>3
    <3>2. w[i] = us[i]
      BY <2>1, <1>3
    <3> QED BY <3>1, <3>2, <1>6, <1>8
  <2>2. CASE ~(i <= K)
    <3>1. PICK j : j = i - K
      OBVIOUS
    <3>2. j \in 1 .. L /\ j \in 1 .. L + 1 /\ j + 1 \in 1 .. L + 1 /\ i = K + j /\ i + 1 = K + (j + 1)
      BY <2>2, <3>1, <1>3
    <3>3. w[i] = vs[j]
      BY <2>2, <3>1, <1>3
    <3>4. st[i] = b[j] /\ st[i + 1] = b[j + 1]
      BY <3>2, <1>9
    <3> QED BY <3>2, <3>3, <3>4, <1>7
  <2> QED BY <2>1, <2>2
<1>11. By(packets, s, w, t, st)
  <2>1. 1 \in 1 .. K + 1 /\ L + 1 \in 1 .. L + 1 /\ K + (L + 1) = (K + L) + 1
    BY <1>3
  <2>2. st[1] = s
    BY <2>1, <1>5, <1>8
  <2>3. st[(K + L) + 1] = t
    <3>1. st[K + (L + 1)] = b[L + 1]
      BY <2>1, <1>9
    <3> QED BY <3>1, <2>1, <1>5
  <2> QED BY <2>2, <2>3, <1>3, <1>10 DEF By
<1> QED BY <1>2, <1>11 DEF Run

\* What a packet reads is as its shape says.
LEMMA ReadsOfTyped ==
    ASSUME NEW packets \in Packets, NEW n
    PROVE  /\ ReadsOf(packets, n) \in Nat
           /\ n \in 1 .. Len(packets) =>
                /\ n \in 1 .. MaxPackets /\ packets[n] \in Shape
                /\ DOMAIN packets[n].read = 1 .. ReadsOf(packets, n)
                /\ \A k \in 1 .. ReadsOf(packets, n) : packets[n].read[k] \in 1 .. PacketMax
<1>1. CASE n \in 1 .. Len(packets)
  <2>1. packets[n] \in Shape /\ n \in 1 .. MaxPackets
    BY <1>1, Constants, ElementOfSeq, LenProperties DEF Packets
  <2>2. PICK reads : reads = packets[n].read
    OBVIOUS
  <2>3. reads \in Seq(1 .. PacketMax)
    BY <2>1, <2>2 DEF Shape
  <2>4. DOMAIN reads = 1 .. Len(reads) /\ Len(reads) \in Nat /\ \A k \in 1 .. Len(reads) : reads[k] \in 1 .. PacketMax
    BY <2>3, LenProperties, ElementOfSeq
  <2>5. ReadsOf(packets, n) = Len(reads)
    BY <1>1, <2>2 DEF ReadsOf
  <2> QED BY <2>1, <2>2, <2>4, <2>5
<1>2. CASE n \notin 1 .. Len(packets)
  BY <1>2 DEF ReadsOf
<1> QED BY <1>1, <1>2

\* The data of a FIFO is units, as many as the FIFO takes.
LEMMA ReadDataTyped ==
    ASSUME NEW packets \in Packets, NEW n \in 1 .. Len(packets), NEW k \in 1 .. ReadsOf(packets, n)
    PROVE  /\ ReadUnits(packets, n, k) \in Units /\ Len(ReadUnits(packets, n, k)) = packets[n].read[k]
           /\ packets[n].read[k] \in 1 .. PacketMax
           /\ <<n, k>> \in Ids
           /\ ReadData(packets, n, k) \in Units
<1>1. PICK l, data, id : l = packets[n].read[k] /\ data = ReadUnits(packets, n, k) /\ id = <<n, k>>
  OBVIOUS
<1>2. l \in 1 .. PacketMax /\ l \in Nat /\ n \in 1 .. MaxPackets /\ k \in Nat
  BY <1>1, ReadsOfTyped, Constants
<1>3. id \in Ids
  BY <1>1, <1>2, Constants DEF Ids
<1>4. data = [i \in 1 .. l |-> Data(4, id, i)]
  BY <1>1 DEF ReadUnits
<1>5. \A i \in 1 .. l : Data(4, id, i) \in Unit
  BY <1>3, Constants DEF Data, Unit
<1>6. data \in Seq(Unit) /\ Len(data) = l
  BY <1>2, <1>4, <1>5
<1>7. 4 \in 0 .. 15 /\ Len(data) <= PacketMax
  BY <1>2, <1>6, Constants
<1>8. Packet(4, id, data) \in Seq(Unit)
  BY <1>3, <1>6, <1>7, PacketTyped
<1> QED BY <1>1, <1>2, <1>3, <1>6, <1>8 DEF Units, ReadData

\* The data of all FIFOs that packet n reads.
ReadParts(packets, n) == [k \in 1 .. ReadsOf(packets, n) |-> ReadData(packets, n, k)]

\* They are packets, one for each FIFO.
LEMMA ReadPartsTyped ==
    ASSUME NEW packets \in Packets, NEW n \in 1 .. Len(packets)
    PROVE  /\ ReadParts(packets, n) \in Seq(Units) /\ Len(ReadParts(packets, n)) = ReadsOf(packets, n)
           /\ \A k \in 1 .. ReadsOf(packets, n) : ReadParts(packets, n)[k] = ReadData(packets, n, k)
<1>1. PICK K : K = ReadsOf(packets, n)
  OBVIOUS
<1>2. K \in Nat
  BY <1>1, ReadsOfTyped
<1>3. \A k \in 1 .. K : ReadData(packets, n, k) \in Units
  BY <1>1, ReadDataTyped
<1> HIDE DEF Units
<1>4. ReadParts(packets, n) = [k \in 1 .. K |-> ReadData(packets, n, k)]
  BY <1>1 DEF ReadParts
<1> QED BY <1>1, <1>2, <1>3, <1>4

\* What the server sends for a packet's FIFOs are these packets, one after the other.
LEMMA ReadsAreParts ==
    ASSUME op.packets \in Packets, NEW n \in 1 .. Len(op.packets)
    PROVE  Reads(n) = Chained(ReadParts(op.packets, n))
<1>1. DOMAIN op.packets[n].read = 1 .. ReadsOf(op.packets, n)
  BY ReadsOfTyped
<1> QED BY <1>1 DEF Reads, ReadParts, ReadData, ReadUnits

\* The data of all FIFOs leads past the packet's reads, before its response and after.
LEMMA RunReads ==
    ASSUME NEW packets \in Packets, NEW n \in 1 .. Len(packets)
    PROVE  /\ Run(packets, At(n, 1), ReadParts(packets, n), At(n, ReadsOf(packets, n) + 1))
           /\ Run(packets, PollAt(packets, n, 1), ReadParts(packets, n), At(n + 1, 1))
<1>1. PICK K, us : K = ReadsOf(packets, n) /\ us = ReadParts(packets, n)
  OBVIOUS
<1>2. K \in Nat /\ Len(us) = K /\ \A k \in 1 .. K : us[k] = ReadData(packets, n, k)
  BY <1>1, ReadsOfTyped, ReadPartsTyped
<1>3. Run(packets, At(n, 1), us, At(n, K + 1))
  <2> DEFINE st == [k \in 1 .. K + 1 |-> At(n, k)]
  <2>1. \A k \in 1 .. K + 1 : st[k] = At(n, k)
    OBVIOUS
  <2> HIDE DEF st
  <2>2. ASSUME NEW k \in 1 .. K PROVE Passes(packets, st[k], us[k], st[k + 1])
    <3>1. k \in 1 .. K + 1 /\ k + 1 \in 1 .. K + 1
      BY <1>2
    <3>2. st[k] = At(n, k) /\ st[k + 1] = At(n, k + 1)
      BY <2>1, <3>1
    <3>3. Fills(packets, st[k], us[k], st[k + 1])
      BY <3>2, <1>1, <1>2 DEF Fills, At
    <3> QED BY <3>2, <3>3 DEF Passes, At
  <2>3. By(packets, At(n, 1), us, At(n, K + 1), st)
    <3>1. 1 \in 1 .. K + 1 /\ K + 1 \in 1 .. K + 1
      BY <1>2
    <3> QED BY <3>1, <2>1, <2>2, <1>2 DEF By
  <2> QED BY <2>3 DEF Run
<1>4. Run(packets, PollAt(packets, n, 1), us, At(n + 1, 1))
  <2> DEFINE st == [k \in 1 .. K + 1 |-> PollAt(packets, n, k)]
  <2>1. \A k \in 1 .. K + 1 : st[k] = PollAt(packets, n, k)
    OBVIOUS
  <2> HIDE DEF st
  <2>2. ASSUME NEW k \in 1 .. K PROVE Passes(packets, st[k], us[k], st[k + 1])
    <3>1. k \in 1 .. K + 1 /\ k + 1 \in 1 .. K + 1 /\ ~(k > K)
      BY <1>2
    <3>2. st[k] = PollAt(packets, n, k) /\ st[k + 1] = PollAt(packets, n, k + 1)
      BY <2>1, <3>1
    <3>3. st[k] = [of |-> n, next |-> k, want |-> "data"]
      BY <3>1, <3>2, <1>1 DEF PollAt
    <3>4. Fills(packets, st[k], us[k], st[k + 1])
      BY <3>2, <3>3, <1>1, <1>2 DEF Fills
    <3> QED BY <3>3, <3>4 DEF Passes
  <2>3. By(packets, PollAt(packets, n, 1), us, At(n + 1, 1), st)
    <3>1. 1 \in 1 .. K + 1 /\ K + 1 \in 1 .. K + 1 /\ K + 1 > K
      BY <1>2
    <3>2. st[K + 1] = At(n + 1, 1)
      BY <3>1, <2>1, <1>1 DEF PollAt
    <3> QED BY <3>1, <3>2, <2>1, <2>2, <1>2 DEF By
  <2> QED BY <2>3 DEF Run
<1> QED BY <1>1, <1>3, <1>4

\* An answer to packet n.
Answers(packets, n, answer) ==
    \E vs \in Seq(Units) : Run(packets, At(n, 1), vs, At(n + 1, 1)) /\ answer = Chained(vs)

\* A list of one packet is that packet.
LEMMA ChainedOne ==
    ASSUME NEW u \in Units
    PROVE  <<u>> \in Seq(Units) /\ Chained(<<u>>) = u
<1>1. <<>> \in Seq(Seq(Unit)) /\ Append(<<>>, u) = <<u>> /\ u \in Seq(Unit) /\ <<>> \o u = u
  BY DEF Units
<1>2. Chained(Append(<<>>, u)) = Chained(<<>>) \o u
  BY <1>1, ChainedAppend
<1>3. <<u>> \in Seq(Units)
  <2> HIDE DEF Units
  <2> QED OBVIOUS
<1> QED BY <1>1, <1>2, <1>3, ChainedEmpty

\* Each of the server's answers leads from one packet of commands to the next.
LEMMA AnswerRuns ==
    ASSUME op.packets \in Packets, NEW n \in 1 .. Len(op.packets), NEW answer,
           \/ answer = Reads(n) \o Response(n, 1)
           \/ answer = Response(n, 2)
           \/ answer = Response(n, 1) \o Reads(n)
    PROVE  Answers(op.packets, n, answer)
<1>1. PICK packets, us, K : packets = op.packets /\ us = ReadParts(packets, n) /\ K = ReadsOf(packets, n)
  OBVIOUS
<1>2. packets \in Packets /\ us \in Seq(Units) /\ K \in Nat /\ n \in 1 .. Len(packets)
  BY <1>1, ReadPartsTyped, ReadsOfTyped
<1>3. Reads(n) = Chained(us)
  BY <1>1, ReadsAreParts
<1>4. PICK r1, r2 : r1 = Response(n, 1) /\ r2 = Response(n, 2)
  OBVIOUS
<1>5. r1 \in Units /\ r2 \in Units
  <2>1. n \in 1 .. MaxPackets
    BY <1>2, ReadsOfTyped
  <2> QED BY <2>1, <1>4, ResponseTyped DEF Units
<1>6. /\ <<r1>> \in Seq(Units) /\ Chained(<<r1>>) = r1
      /\ <<r2>> \in Seq(Units) /\ Chained(<<r2>>) = r2
  BY <1>5, ChainedOne
<1>7. Run(packets, At(n, 1), us, At(n, K + 1)) /\ Run(packets, PollAt(packets, n, 1), us, At(n + 1, 1))
  BY <1>1, <1>2, RunReads
<1>8. CASE answer = Reads(n) \o Response(n, 1)
  <2>1. Passes(packets, At(n, K + 1), r1, At(n + 1, 1))
    <3>1. PollAt(packets, n, K + 1) = At(n + 1, 1)
      BY <1>1, <1>2 DEF PollAt
    <3>2. Responds(packets, At(n, K + 1), r1, At(n + 1, 1))
      BY <3>1, <1>1, <1>4 DEF Responds, At
    <3> QED BY <3>2, <1>2 DEF Passes, At
  <2>2. Run(packets, At(n, K + 1), <<r1>>, At(n + 1, 1))
    BY <2>1, RunOne
  <2>3. Run(packets, At(n, 1), us \o <<r1>>, At(n + 1, 1))
    BY <2>2, <1>2, <1>6, <1>7, RunConcat
  <2>4. Chained(us \o <<r1>>) = Chained(us) \o Chained(<<r1>>)
    BY <1>2, <1>6, ChainedConcat DEF Units
  <2>5. us \o <<r1>> \in Seq(Units)
    BY <1>2, <1>6, ConcatProperties
  <2> QED BY <2>3, <2>4, <2>5, <1>1, <1>3, <1>4, <1>6, <1>8 DEF Answers
<1>9. CASE answer = Response(n, 2)
  <2>1. Refuses(At(n, 1), r2, At(n + 1, 1))
    BY <1>4 DEF Refuses, At
  <2>2. Passes(packets, At(n, 1), r2, At(n + 1, 1))
    BY <2>1, <1>2 DEF Passes, At
  <2>3. Run(packets, At(n, 1), <<r2>>, At(n + 1, 1))
    BY <2>2, RunOne
  <2> QED BY <2>3, <1>1, <1>4, <1>6, <1>9 DEF Answers
<1>10. CASE answer = Response(n, 1) \o Reads(n)
  <2>1. Responds(packets, At(n, 1), r1, PollAt(packets, n, 1))
    BY <1>4 DEF Responds, At
  <2>2. Passes(packets, At(n, 1), r1, PollAt(packets, n, 1))
    BY <2>1, <1>2 DEF Passes, At
  <2>3. Run(packets, At(n, 1), <<r1>>, PollAt(packets, n, 1))
    BY <2>2, RunOne
  <2>4. Run(packets, At(n, 1), <<r1>> \o us, At(n + 1, 1))
    BY <2>3, <1>2, <1>6, <1>7, RunConcat
  <2>5. Chained(<<r1>> \o us) = Chained(<<r1>>) \o Chained(us)
    BY <1>2, <1>6, ChainedConcat DEF Units
  <2>6. <<r1>> \o us \in Seq(Units)
    BY <1>2, <1>6, ConcatProperties
  <2> QED BY <2>4, <2>5, <2>6, <1>1, <1>3, <1>4, <1>6, <1>10 DEF Answers
<1> QED BY <1>8, <1>9, <1>10

\* Packets that are sent later change nothing about the answers to these.
LEMMA RunMore ==
    ASSUME NEW packets \in Packets, NEW more, Len(more) = Len(packets) + 1,
           \A i \in 1 .. Len(packets) : more[i] = packets[i],
           NEW s, NEW us, NEW t, Run(packets, s, us, t)
    PROVE  Run(more, s, us, t)
<1>1. PICK st : By(packets, s, us, t, st)
  BY DEF Run
<1>2. Len(packets) \in Nat /\ \A n \in 1 .. Len(packets) : n \in 1 .. Len(more)
  BY LenProperties DEF Packets
<1>3. \A n \in 1 .. Len(packets) : ReadsOf(more, n) = ReadsOf(packets, n)
  BY <1>2 DEF ReadsOf
<1>4. \A n \in 1 .. Len(packets) : \A k : ReadData(more, n, k) = ReadData(packets, n, k) /\ PollAt(more, n, k) = PollAt(packets, n, k)
  BY <1>3 DEF ReadData, ReadUnits, PollAt
<1>5. ASSUME NEW a, NEW u, NEW b, Passes(packets, a, u, b) PROVE Passes(more, a, u, b)
  <2>1. a.of \in 1 .. Len(packets) /\ a.of \in 1 .. Len(more)
    BY <1>2, <1>5 DEF Passes
  <2>2. CASE Fills(packets, a, u, b)
    BY <2>1, <2>2, <1>3, <1>4 DEF Fills, Passes
  <2>3. CASE Responds(packets, a, u, b)
    BY <2>1, <2>3, <1>3, <1>4 DEF Responds, Passes
  <2>4. CASE Refuses(a, u, b)
    BY <2>1, <2>4 DEF Passes
  <2> QED BY <2>2, <2>3, <2>4, <1>5 DEF Passes
<1>6. By(more, s, us, t, st)
  BY <1>1, <1>5 DEF By
<1> QED BY <1>6 DEF Run

-----------------------------------------------------------------------------
(* The receive FIFOs that are still to be filled: from FIFO k of packet n  *)
(* on, and those of the packets after it.                                  *)
LaterFifos(packets, n) == [i \in 1 .. Len(packets) - n |-> RxFifos(n + i, packets[n + i])]
Later(packets, n) == IF n < Len(packets) THEN Chained(LaterFifos(packets, n)) ELSE <<>>
RestOf(packets, n, k) == IF n \in 1 .. Len(packets) THEN SubSeq(RxFifos(n, packets[n]), k, ReadsOf(packets, n)) ELSE <<>>
Waiting(packets, n, k) == RestOf(packets, n, k) \o Later(packets, n)

EmptyFifo(packets, n, k) == [id |-> <<n, k>>, len |-> packets[n].read[k], got |-> <<>>]

\* FIFOs without data, of the packets after n.
Fresh(n) == {f \in RxFifo : f.got = <<>> /\ f.id[1] > n}

\* The FIFOs of a packet are as its shape says, and without data.
LEMMA RxFifosFresh ==
    ASSUME NEW packets \in Packets, NEW m \in 1 .. Len(packets), NEW n \in Nat, n < m
    PROVE  /\ RxFifos(m, packets[m]) \in Seq(Fresh(n))
           /\ Len(RxFifos(m, packets[m])) = ReadsOf(packets, m)
           /\ \A k \in 1 .. ReadsOf(packets, m) :
                 RxFifos(m, packets[m])[k] = EmptyFifo(packets, m, k) /\ EmptyFifo(packets, m, k) \in Fresh(n)
<1>1. PICK shape, fs, K : shape = packets[m] /\ fs = RxFifos(m, shape) /\ K = ReadsOf(packets, m)
  OBVIOUS
<1>2. shape \in Shapes /\ m \in 1 .. MaxPackets /\ K = Len(shape.read) /\ K \in Nat
  <2>1. packets \in Seq(Shapes)
    BY DEF Packets
  <2>2. shape \in Shapes
    BY <2>1, <1>1, ElementOfSeq
  <2>3. m \in 1 .. MaxPackets /\ K \in Nat
    BY <1>1, ReadsOfTyped
  <2> QED BY <2>2, <2>3, <1>1 DEF ReadsOf
<1>3. /\ fs \in Seq(RxFifo) /\ Len(fs) = K
      /\ \A k \in 1 .. K : fs[k] = [id |-> <<m, k>>, len |-> shape.read[k], got |-> <<>>]
  BY <1>1, <1>2, FifosTyped
<1>4. ASSUME NEW k \in 1 .. K PROVE fs[k] = EmptyFifo(packets, m, k) /\ fs[k] \in Fresh(n)
  <2>1. fs[k] \in RxFifo
    BY <1>3, ElementOfSeq
  <2>2. fs[k].got = <<>> /\ fs[k].id[1] = m
    BY <1>3
  <2> QED BY <2>1, <2>2, <1>1, <1>3 DEF EmptyFifo, Fresh
<1>5. fs \in Seq(Fresh(n))
  BY <1>3, <1>4, IsASeq, LenProperties
<1> QED BY <1>1, <1>3, <1>4, <1>5

\* The FIFOs of later packets are without data.
LEMMA LaterTyped ==
    ASSUME NEW packets \in Packets, NEW n \in Nat
    PROVE  /\ Later(packets, n) \in Seq(Fresh(n))
           /\ n < Len(packets) => LaterFifos(packets, n) \in Seq(Seq(Fresh(n)))
<1>1. CASE n < Len(packets)
  <2>1. PICK l, fs : l = Len(packets) - n /\ fs = LaterFifos(packets, n)
    OBVIOUS
  <2>2. l \in Nat /\ Len(packets) \in Nat
    BY <2>1, <1>1, LenProperties DEF Packets
  <2>3. ASSUME NEW i \in 1 .. l PROVE RxFifos(n + i, packets[n + i]) \in Seq(Fresh(n))
    <3>1. n + i \in 1 .. Len(packets) /\ n < n + i
      BY <2>1, <2>2
    <3> QED BY <3>1, RxFifosFresh
  <2>4. fs = [i \in 1 .. l |-> RxFifos(n + i, packets[n + i])]
    BY <2>1 DEF LaterFifos
  <2>5. fs \in Seq(Seq(Fresh(n)))
    BY <2>2, <2>3, <2>4
  <2>6. Chained(fs) \in Seq(Fresh(n))
    BY <2>5, ChainedTyped
  <2> QED BY <2>1, <2>5, <2>6, <1>1 DEF Later
<1>2. CASE ~(n < Len(packets))
  BY <1>2 DEF Later
<1> QED BY <1>1, <1>2

\* The FIFOs of the next packet are the first of them.
LEMMA LaterFirst ==
    ASSUME NEW packets \in Packets, NEW n \in Nat, n < Len(packets)
    PROVE  Later(packets, n) = RxFifos(n + 1, packets[n + 1]) \o Later(packets, n + 1)
<1>1. PICK l, fs, first : l = Len(packets) - n /\ fs = LaterFifos(packets, n) /\ first = RxFifos(n + 1, packets[n + 1])
  OBVIOUS
<1>2. Len(packets) \in Nat /\ l \in Nat \ {0} /\ fs \in Seq(Seq(Fresh(n))) /\ n + 1 \in Nat
  <2>1. Len(packets) \in Nat
    BY LenProperties DEF Packets
  <2>2. fs \in Seq(Seq(Fresh(n)))
    BY <1>1, LaterTyped
  <2> QED BY <2>1, <2>2, <1>1
<1>3. fs = [i \in 1 .. l |-> RxFifos(n + i, packets[n + i])]
  BY <1>1 DEF LaterFifos
<1>4. Len(fs) = l /\ fs # <<>> /\ \A i \in 1 .. l : fs[i] = RxFifos(n + i, packets[n + i])
  BY <1>2, <1>3
<1>5. Chained(fs) = Head(fs) \o Chained(Tail(fs))
  BY <1>2, <1>4, ChainedHead
<1>6. Head(fs) = first
  <2>1. fs[1] = RxFifos(n + 1, packets[n + 1])
    BY <1>2, <1>4
  <2> QED BY <2>1, <1>1, <1>4
<1>7. CASE n + 1 < Len(packets)
  <2>1. PICK gs : gs = LaterFifos(packets, n + 1)
    OBVIOUS
  <2>2. l - 1 = Len(packets) - (n + 1) /\ l - 1 \in Nat
    BY <1>1, <1>2
  <2>3. gs = [i \in 1 .. l - 1 |-> RxFifos((n + 1) + i, packets[(n + 1) + i])]
    BY <2>1, <2>2 DEF LaterFifos
  <2>4. Tail(fs) = gs
    <3>1. Tail(fs) \in Seq(Seq(Fresh(n))) /\ Len(Tail(fs)) = l - 1 /\ \A i \in 1 .. l - 1 : Tail(fs)[i] = fs[i + 1]
      BY <1>2, <1>4, HeadTailProperties
    <3>2. Len(gs) = l - 1 /\ gs \in Seq(Seq(Fresh(n + 1)))
      BY <2>1, <2>2, <2>3, <1>2, <1>7, LaterTyped
    <3>3. ASSUME NEW i \in 1 .. l - 1 PROVE Tail(fs)[i] = gs[i]
      <4>1. i + 1 \in 1 .. l /\ n + (i + 1) = (n + 1) + i
        BY <1>2
      <4>2. fs[i + 1] = RxFifos((n + 1) + i, packets[(n + 1) + i])
        BY <4>1, <1>4
      <4>3. gs[i] = RxFifos((n + 1) + i, packets[(n + 1) + i])
        BY <2>3
      <4> QED BY <4>2, <4>3, <3>1
    <3> QED BY <3>1, <3>2, <3>3, SeqEqual
  <2>5. Later(packets, n + 1) = Chained(gs)
    BY <2>1, <1>7 DEF Later
  <2> QED BY <2>4, <2>5, <1>1, <1>5, <1>6 DEF Later
<1>8. CASE ~(n + 1 < Len(packets))
  <2>1. l = 1
    BY <1>1, <1>2, <1>8
  <2>2. Tail(fs) \in Seq(Seq(Fresh(n))) /\ Len(Tail(fs)) = 0
    BY <2>1, <1>2, <1>4, HeadTailProperties
  <2>3. Tail(fs) = <<>>
    BY <2>2, EmptySeq
  <2>4. Later(packets, n + 1) = <<>>
    BY <1>8 DEF Later
  <2> QED BY <2>3, <2>4, <1>1, <1>5, <1>6, ChainedEmpty DEF Later
<1> QED BY <1>7, <1>8

\* The FIFOs of a packet that is sent come last.
LEMMA LaterGrows ==
    ASSUME NEW packets \in Packets, NEW shape \in Shapes, NEW more \in Packets, more = Append(packets, shape),
           NEW n \in Nat, n <= Len(packets)
    PROVE  Later(more, n) = Later(packets, n) \o RxFifos(Len(packets) + 1, shape)
<1>1. PICK L, new : L = Len(packets) /\ new = RxFifos(L + 1, shape)
  OBVIOUS
<1>2. L \in Nat /\ Len(more) = L + 1 /\ more[L + 1] = shape /\ \A i \in 1 .. L : more[i] = packets[i]
  BY <1>1, AppendProperties, LenProperties DEF Packets
<1>3. new \in Seq(Fresh(n)) /\ new = RxFifos(L + 1, more[L + 1])
  <2>1. L + 1 \in 1 .. Len(more) /\ n < L + 1
    BY <1>1, <1>2
  <2> QED BY <2>1, <1>1, <1>2, RxFifosFresh
<1>4. n < Len(more) /\ L + 1 - n \in Nat
  BY <1>1, <1>2
<1>5. PICK gs : gs = LaterFifos(more, n)
  OBVIOUS
<1>6. gs \in Seq(Seq(Fresh(n))) /\ gs = [i \in 1 .. L + 1 - n |-> RxFifos(n + i, more[n + i])]
  <2>1. gs \in Seq(Seq(Fresh(n)))
    BY <1>4, <1>5, LaterTyped
  <2>2. gs = [i \in 1 .. L + 1 - n |-> RxFifos(n + i, more[n + i])]
    <3>1. gs = [i \in 1 .. Len(more) - n |-> RxFifos(n + i, more[n + i])]
      BY <1>5 DEF LaterFifos
    <3>2. Len(more) - n = L + 1 - n
      BY <1>2
    <3>3. 1 .. Len(more) - n = 1 .. L + 1 - n
      BY ONLY <3>2
    <3> QED BY ONLY <3>1, <3>3, Zenon
  <2> QED BY <2>1, <2>2
<1>7. Len(gs) = L + 1 - n /\ \A i \in 1 .. L + 1 - n : gs[i] = RxFifos(n + i, more[n + i])
  <2>1. gs = [i \in 1 .. L + 1 - n |-> RxFifos(n + i, more[n + i])]
    BY <1>6
  <2>2. PICK m : m = L + 1 - n
    OBVIOUS
  <2>3. gs = [i \in 1 .. m |-> RxFifos(n + i, more[n + i])] /\ m \in Nat
    BY <2>1, <2>2, <1>4
  <2>4. Len(gs) = m /\ \A i \in 1 .. m : gs[i] = RxFifos(n + i, more[n + i])
    BY ONLY <2>3
  <2> QED BY <2>2, <2>4
<1>8. Later(more, n) = Chained(gs)
  BY <1>4, <1>5 DEF Later
<1>9. CASE n < L
  <2>1. PICK fs : fs = LaterFifos(packets, n)
    OBVIOUS
  <2>2. fs \in Seq(Seq(Fresh(n))) /\ fs = [i \in 1 .. L - n |-> RxFifos(n + i, packets[n + i])] /\ L - n \in Nat
    <3>1. fs \in Seq(Seq(Fresh(n)))
      BY <2>1, <1>1, <1>9, LaterTyped
    <3>2. fs = [i \in 1 .. L - n |-> RxFifos(n + i, packets[n + i])]
      BY <2>1, <1>1 DEF LaterFifos
    <3>3. L - n \in Nat
      BY <1>2, <1>9
    <3> QED BY <3>1, <3>2, <3>3
  <2>3. Len(fs) = L - n /\ \A i \in 1 .. L - n : fs[i] = RxFifos(n + i, packets[n + i])
    BY <2>2
  <2>4. PICK hs : hs = Append(fs, new)
    OBVIOUS
  <2>5. hs \in Seq(Seq(Fresh(n))) /\ Len(hs) = (L - n) + 1 /\ (\A i \in 1 .. L - n : hs[i] = fs[i]) /\ hs[(L - n) + 1] = new
    <3>1. PICK T : T = Seq(Fresh(n))
      OBVIOUS
    <3>2. fs \in Seq(T) /\ new \in T
      BY <3>1, <2>2, <1>3
    <3>3. hs \in Seq(T) /\ Len(hs) = Len(fs) + 1 /\ (\A i \in 1 .. Len(fs) : hs[i] = fs[i]) /\ hs[Len(fs) + 1] = new
      BY <3>2, <2>4, AppendProperties
    <3> QED BY <3>1, <3>3, <2>3
  <2>6. ASSUME NEW i \in 1 .. L + 1 - n PROVE hs[i] = gs[i]
    <3>1. gs[i] = RxFifos(n + i, more[n + i])
      BY <1>7
    <3>2. CASE i \in 1 .. L - n
      <4>1. n + i \in 1 .. L
        BY <3>2, <1>2, <1>9
      <4> QED BY <4>1, <3>1, <3>2, <2>3, <2>5, <1>2
    <3>3. CASE i \notin 1 .. L - n
      <4>1. i = (L - n) + 1 /\ n + i = L + 1
        BY <3>3, <1>2, <1>9
      <4> QED BY <4>1, <3>1, <2>5, <1>3
    <3> QED BY <3>2, <3>3
  <2>7. (L - n) + 1 = L + 1 - n
    BY <1>2
  <2>8. hs = gs
    BY <2>5, <2>6, <2>7, <1>6, <1>7, SeqEqual
  <2>9. Chained(hs) = Chained(fs) \o new
    BY <2>2, <2>4, <1>3, ChainedAppend
  <2>10. Later(packets, n) = Chained(fs)
    BY <2>1, <1>1, <1>9 DEF Later
  <2> QED BY <2>8, <2>9, <2>10, <1>1, <1>8
<1>10. CASE ~(n < L)
  <2>1. n = L
    BY <1>1, <1>2, <1>10
  <2>2. Later(packets, n) = <<>>
    BY <1>1, <1>10 DEF Later
  <2>3. Later(more, n) = RxFifos(n + 1, more[n + 1]) \o Later(more, n + 1)
    BY <1>4, LaterFirst
  <2>4. Later(more, n + 1) = <<>>
    BY <2>1, <1>2 DEF Later
  <2>5. Later(more, n) = new \o <<>>
    BY <2>1, <2>3, <2>4, <1>3
  <2>6. new \o <<>> = new /\ <<>> \o new = new
    BY <1>3, ConcatEmptySeq
  <2> QED BY <2>2, <2>5, <2>6, <1>1
<1> QED BY <1>9, <1>10

\* FIFOs without data, of packet n.
Own(n) == {f \in RxFifo : f.got = <<>> /\ f.id[1] = n}

\* What is left of a packet's FIFOs is its own.
LEMMA OwnRest ==
    ASSUME NEW packets \in Packets, NEW n \in 1 .. Len(packets)
    PROVE  /\ RxFifos(n, packets[n]) \in Seq(Own(n)) /\ Len(RxFifos(n, packets[n])) = ReadsOf(packets, n)
           /\ \A k \in 1 .. ReadsOf(packets, n) + 1 : RestOf(packets, n, k) \in Seq(Own(n))
<1>1. PICK fs, K : fs = RxFifos(n, packets[n]) /\ K = ReadsOf(packets, n)
  OBVIOUS
<1>2. K \in Nat /\ n \in Nat \ {0} /\ n - 1 \in Nat /\ n - 1 < n
  BY <1>1, ReadsOfTyped
<1>3. /\ fs \in Seq(Fresh(n - 1)) /\ Len(fs) = K
      /\ \A k \in 1 .. K : fs[k] = EmptyFifo(packets, n, k)
  BY <1>1, <1>2, RxFifosFresh
<1>4. ASSUME NEW k \in 1 .. K PROVE fs[k] \in Own(n)
  <2>1. fs[k] \in Fresh(n - 1)
    BY <1>3, ElementOfSeq
  <2>2. fs[k].id[1] = n
    BY <1>3 DEF EmptyFifo
  <2> QED BY <2>1, <2>2 DEF Own, Fresh
<1>5. fs \in Seq(Own(n))
  BY <1>3, <1>4, IsASeq, LenProperties
<1>6. ASSUME NEW k \in 1 .. K + 1 PROVE RestOf(packets, n, k) \in Seq(Own(n))
  <2>1. \A i \in k .. K : fs[i] \in Own(n)
    BY <1>2, <1>4
  <2>2. SubSeq(fs, k, K) \in Seq(Own(n))
    BY <2>1, <1>2, SubSeqProperties
  <2> QED BY <2>2, <1>1 DEF RestOf
<1> QED BY <1>1, <1>3, <1>5, <1>6

Unfilled == {f \in RxFifo : f.got = <<>>}

\* All that are still to be filled are without data.
LEMMA WaitingTyped ==
    ASSUME NEW packets \in Packets, NEW n \in Nat \ {0}, NEW k \in 1 .. ReadsOf(packets, n) + 1
    PROVE  /\ RestOf(packets, n, k) \in Seq(Unfilled) /\ Later(packets, n) \in Seq(Unfilled)
           /\ Waiting(packets, n, k) \in Seq(Unfilled)
<1>1. RestOf(packets, n, k) \in Seq(Unfilled)
  <2>1. CASE n \in 1 .. Len(packets)
    <3>1. RestOf(packets, n, k) \in Seq(Own(n)) /\ Own(n) \subseteq Unfilled
      BY <2>1, OwnRest DEF Own, Unfilled
    <3> QED BY <3>1, SeqMonotonic
  <2>2. CASE n \notin 1 .. Len(packets)
    BY <2>2 DEF RestOf
  <2> QED BY <2>1, <2>2
<1>2. Later(packets, n) \in Seq(Unfilled)
  <2>1. Later(packets, n) \in Seq(Fresh(n)) /\ Fresh(n) \subseteq Unfilled
    BY LaterTyped DEF Fresh, Unfilled
  <2> QED BY <2>1, SeqMonotonic
<1>3. Waiting(packets, n, k) \in Seq(Unfilled)
  BY <1>1, <1>2, ConcatProperties DEF Waiting
<1> QED BY <1>1, <1>2, <1>3

\* The first is FIFO k of packet n, the others are those from k + 1 on.
LEMMA WaitingFirst ==
    ASSUME NEW packets \in Packets, NEW n \in 1 .. Len(packets), NEW k \in 1 .. ReadsOf(packets, n)
    PROVE  /\ EmptyFifo(packets, n, k) \in Unfilled
           /\ Follows(Waiting(packets, n, k), <<EmptyFifo(packets, n, k)>>, Waiting(packets, n, k + 1))
<1>1. PICK fs, K, f, r, l : /\ fs = RxFifos(n, packets[n]) /\ K = ReadsOf(packets, n) /\ f = EmptyFifo(packets, n, k)
                            /\ r = RestOf(packets, n, k + 1) /\ l = Later(packets, n)
  OBVIOUS
<1>2. K \in Nat /\ n \in Nat \ {0} /\ n - 1 \in Nat /\ n - 1 < n /\ k \in 1 .. K /\ k + 1 \in 1 .. K + 1
  BY <1>1, ReadsOfTyped
<1>3. fs \in Seq(Fresh(n - 1)) /\ Len(fs) = K /\ fs[k] = f /\ f \in Fresh(n - 1)
  BY <1>1, <1>2, RxFifosFresh
<1>4. SubSeq(fs, k, K) = <<fs[k]>> \o SubSeq(fs, k + 1, K)
  <2>1. k \in 1 .. Len(fs) /\ K \in k .. Len(fs)
    BY <1>2, <1>3
  <2> QED BY <2>1, <1>3, SubSeqRecursiveFirst
<1>5. RestOf(packets, n, k) = <<f>> \o r
  BY <1>1, <1>3, <1>4 DEF RestOf
<1>6. f \in Unfilled /\ <<f>> \in Seq(Unfilled)
  BY <1>3 DEF Fresh, Unfilled
<1>7. r \in Seq(Unfilled) /\ l \in Seq(Unfilled)
  BY <1>1, <1>2, WaitingTyped
<1>8. (<<f>> \o r) \o l = <<f>> \o (r \o l)
  BY <1>6, <1>7, ConcatAssociative
<1>9. Waiting(packets, n, k) = <<f>> \o Waiting(packets, n, k + 1)
  BY <1>1, <1>5, <1>8 DEF Waiting
<1> QED BY <1>1, <1>6, <1>9 DEF Follows

\* Its first entry is taken off a list.
LEMMA TakenOff ==
    ASSUME NEW T, NEW f \in T, NEW g \in Seq(T), NEW fs, Follows(fs, <<f>>, g)
    PROVE  fs \in Seq(T) /\ fs # <<>> /\ fs[1] = f /\ SubSeq(fs, 2, Len(fs)) = g
<1>1. <<f>> \in Seq(T) /\ Len(<<f>>) = 1 /\ <<f>>[1] = f /\ Len(g) \in Nat
  BY LenProperties
<1>2. fs = <<f>> \o g
  BY DEF Follows
<1>3. fs \in Seq(T) /\ Len(fs) = 1 + Len(g) /\ \A i \in 1 .. 1 + Len(g) : fs[i] = IF i <= 1 THEN <<f>>[i] ELSE g[i - 1]
  BY <1>1, <1>2, ConcatProperties
<1>4. fs # <<>>
  BY <1>1, <1>3
<1>5. fs[1] = f
  BY <1>1, <1>3
<1>6. IsSlice(SubSeq(fs, 1 + 1, Len(fs)), fs, 1, Len(fs), T)
  BY <1>1, <1>3, Slice
<1>7. PICK h, L : h = SubSeq(fs, 1 + 1, Len(fs)) /\ L = Len(g)
  OBVIOUS
<1>8. L \in Nat /\ Len(fs) = L + 1 /\ (L + 1) - 1 = L
  BY <1>1, <1>3, <1>7
<1>9. h \in Seq(T) /\ Len(h) = L /\ \A i \in 1 .. L : h[i] = fs[1 + i]
  BY <1>6, <1>7, <1>8 DEF IsSlice
<1>10. \A i \in 1 .. L : h[i] = g[i]
  <2> TAKE i \in 1 .. L
  <2>1. 1 + i \in 1 .. 1 + L /\ ~(1 + i <= 1) /\ (1 + i) - 1 = i
    BY <1>8
  <2> QED BY <2>1, <1>3, <1>7, <1>9
<1>11. h = g
  BY <1>7, <1>9, <1>10, SeqEqual
<1> QED BY <1>3, <1>4, <1>5, <1>7, <1>11

\* Without those of packet n, the FIFOs are those of the packets after it.
LEMMA NextWaiting ==
    ASSUME NEW packets \in Packets, NEW n \in 1 .. Len(packets)
    PROVE  Later(packets, n) = Waiting(packets, n + 1, 1)
<1>1. n \in Nat /\ Len(packets) \in Nat /\ n <= Len(packets) /\ n + 1 \in Nat
  BY LenProperties DEF Packets
<1>2. CASE n < Len(packets)
  <2>1. PICK fs : fs = RxFifos(n + 1, packets[n + 1])
    OBVIOUS
  <2>2. n + 1 \in 1 .. Len(packets)
    BY <1>1, <1>2
  <2>3. fs \in Seq(Own(n + 1)) /\ Len(fs) = ReadsOf(packets, n + 1)
    BY <2>1, <2>2, OwnRest
  <2>4. SubSeq(fs, 1, Len(fs)) = fs
    BY <2>3, SubSeqFull
  <2>5. RestOf(packets, n + 1, 1) = fs
    BY <2>1, <2>2, <2>3, <2>4 DEF RestOf
  <2>6. Later(packets, n) = fs \o Later(packets, n + 1)
    BY <2>1, <1>1, <1>2, LaterFirst
  <2> QED BY <2>5, <2>6 DEF Waiting
<1>3. CASE ~(n < Len(packets))
  <2>1. n + 1 \notin 1 .. Len(packets) /\ ~(n + 1 < Len(packets))
    BY <1>1, <1>3
  <2>2. Later(packets, n) = <<>> /\ Later(packets, n + 1) = <<>> /\ RestOf(packets, n + 1, 1) = <<>>
    BY <2>1, <1>3 DEF Later, RestOf
  <2>3. <<>> \o <<>> = <<>>
    OBVIOUS
  <2> QED BY <2>2, <2>3 DEF Waiting
<1> QED BY <1>2, <1>3

\* With one more packet its FIFOs are at the end, wherever the client is.
LEMMA WaitingGrows ==
    ASSUME NEW packets \in Packets, NEW shape \in Shapes, NEW more \in Packets, more = Append(packets, shape),
           NEW n \in 1 .. Len(packets) + 1, NEW k \in 1 .. ReadsOf(packets, n) + 1
    PROVE  /\ Follows(Waiting(more, n, k), Waiting(packets, n, k), RxFifos(Len(packets) + 1, shape))
           /\ k \in 1 .. ReadsOf(more, n) + 1
<1>1. PICK L, new : L = Len(packets) /\ new = RxFifos(L + 1, shape)
  OBVIOUS
<1>2. L \in Nat /\ Len(more) = L + 1 /\ more[L + 1] = shape /\ \A i \in 1 .. L : more[i] = packets[i]
  BY <1>1, AppendProperties, LenProperties DEF Packets
<1>3. new \in Seq(Own(L + 1)) /\ Len(new) = ReadsOf(more, L + 1) /\ new = RxFifos(L + 1, more[L + 1])
  <2>1. L + 1 \in 1 .. Len(more)
    BY <1>2
  <2> QED BY <2>1, <1>1, <1>2, OwnRest
<1>4. new \in Seq(Unfilled)
  <2>1. Own(L + 1) \subseteq Unfilled
    BY DEF Own, Unfilled
  <2> QED BY <2>1, <1>3, SeqMonotonic
<1>5. CASE n \in 1 .. L
  <2>1. n \in 1 .. Len(more) /\ more[n] = packets[n] /\ n \in Nat \ {0} /\ n <= L
    BY <1>2, <1>5
  <2>2. ReadsOf(more, n) = ReadsOf(packets, n)
    BY <2>1, <1>1, <1>5 DEF ReadsOf
  <2>3. PICK r, l : r = RestOf(packets, n, k) /\ l = Later(packets, n)
    OBVIOUS
  <2>4. RestOf(more, n, k) = r
    BY <2>1, <2>2, <2>3, <1>1, <1>5 DEF RestOf
  <2>5. Later(more, n) = l \o new
    BY <2>1, <2>3, <1>1, LaterGrows
  <2>6. r \in Seq(Unfilled) /\ l \in Seq(Unfilled)
    BY <2>1, <2>3, WaitingTyped
  <2>7. (r \o l) \o new = r \o (l \o new)
    BY <2>6, <1>4, ConcatAssociative
  <2> QED BY <2>2, <2>3, <2>4, <2>5, <2>7, <1>1 DEF Follows, Waiting
<1>6. CASE n \notin 1 .. L
  <2>1. n = L + 1 /\ n \notin 1 .. Len(packets) /\ n \in 1 .. Len(more) /\ ~(n < Len(more)) /\ ~(n < Len(packets))
    BY <1>1, <1>2, <1>6
  <2>2. ReadsOf(packets, n) = 0
    BY <2>1 DEF ReadsOf
  <2>3. k = 1
    BY <2>2
  <2>4. SubSeq(new, 1, Len(new)) = new
    BY <1>3, SubSeqFull
  <2>5. RestOf(more, n, k) = new
    BY <2>1, <2>3, <2>4, <1>3 DEF RestOf
  <2>6. Later(more, n) = <<>> /\ RestOf(packets, n, k) = <<>> /\ Later(packets, n) = <<>>
    BY <2>1 DEF Later, RestOf
  <2>7. new \o <<>> = new /\ <<>> \o <<>> = <<>> /\ <<>> \o new = new
    BY <1>4, ConcatEmptySeq
  <2>8. k \in 1 .. ReadsOf(more, n) + 1
    <3>1. n \in Nat /\ ReadsOf(more, n) \in Nat
      BY ReadsOfTyped
    <3> QED BY <3>1, <2>3
  <2> QED BY <2>5, <2>6, <2>7, <2>8, <1>1 DEF Follows, Waiting
<1> QED BY <1>5, <1>6

\* A list whose entries are all kept.
LEMMA FilteredAll ==
    ASSUME NEW S, NEW s \in Seq(S)
    PROVE  Filtered(s, S) = s
<1> DEFINE P == {u \in Seq(S) : Filtered(u, S) = u}
<1>1. <<>> \in P
  BY FilteredEmpty
<1>2. ASSUME NEW u \in Seq(S), NEW x \in S, u \in P
      PROVE  Append(u, x) \in P
  <2>1. Filtered(u, S) = u
    BY <1>2
  <2>2. Filtered(Append(u, x), S) = Append(Filtered(u, S), x)
    BY FilteredAppend
  <2>3. Append(u, x) \in Seq(S)
    OBVIOUS
  <2> QED BY <2>1, <2>2, <2>3
<1> HIDE DEF P
<1>3. \A u \in Seq(S) : u \in P
  BY <1>1, <1>2, ListInduction
<1>4. s \in P
  BY <1>3
<1> QED BY <1>4 DEF P

\* Deleting the FIFOs of packet n leaves those of the packets after it.
LEMMA WaitingFiltered ==
    ASSUME NEW packets \in Packets, NEW n \in 1 .. Len(packets), NEW k \in 1 .. ReadsOf(packets, n) + 1,
           NEW w, w = Waiting(packets, n, k), NEW S, S = {f \in Range(w) : f.id[1] # n}
    PROVE  Filtered(w, S) = Waiting(packets, n + 1, 1)
<1>1. PICK r, l : r = RestOf(packets, n, k) /\ l = Later(packets, n)
  OBVIOUS
<1>2. n \in Nat \ {0}
  OBVIOUS
<1>3. r \in Seq(Unfilled) /\ l \in Seq(Unfilled) /\ r \in Seq(Own(n)) /\ l \in Seq(Fresh(n)) /\ w = r \o l
  BY <1>1, <1>2, WaitingTyped, OwnRest, LaterTyped DEF Waiting
<1>4. IsJoined(w, r, l, Unfilled)
  BY <1>3, Joined
<1>5. Filtered(w, S) = Filtered(r, S) \o Filtered(l, S)
  BY <1>3, FilteredConcat
<1>6. Filtered(r, S) = <<>>
  <2>1. Own(n) \cap S = {}
    BY DEF Own
  <2>2. Filtered(r, S) \in Seq(Own(n) \cap S)
    BY <1>3, FilteredTyped
  <2>3. PICK x : x = Filtered(r, S)
    OBVIOUS
  <2>4. x \in Seq({})
    BY <2>1, <2>2, <2>3
  <2> QED BY <2>3, <2>4
<1>7. Filtered(l, S) = l
  <2>1. ASSUME NEW i \in 1 .. Len(l) PROVE l[i] \in S
    <3>1. l[i] \in Fresh(n)
      BY <1>3, ElementOfSeq
    <3>2. l[i].id[1] # n
      BY <3>1, <1>2 DEF Fresh
    <3>3. l[i] \in Range(w)
      <4>1. DOMAIN w = 1 .. Len(w) /\ Len(r) + i \in 1 .. Len(w) /\ w[Len(r) + i] = l[i]
        BY <1>4 DEF IsJoined
      <4> QED BY <4>1 DEF Range
    <3> QED BY <3>2, <3>3
  <2>2. l \in Seq(S)
    BY <1>3, <2>1, IsASeq, LenProperties
  <2> QED BY <2>2, FilteredAll
<1>8. <<>> \o l = l
  BY <1>3, ConcatEmptySeq
<1> QED BY <1>1, <1>5, <1>6, <1>7, <1>8, NextWaiting

-----------------------------------------------------------------------------
(* The packet that is being received.                                      *)

\* It is the data of the FIFO that is next at place s,
DataNext(packets, s, h, d, t) ==
    /\ s.next \in 1 .. ReadsOf(packets, s.of)
    /\ h.mux = 4 /\ d = ReadUnits(packets, s.of, s.next)
    /\ t = IF s.want = "data" THEN PollAt(packets, s.of, s.next + 1) ELSE At(s.of, s.next + 1)

\* or the response: it was done, or it was refused.
ResponseNext(packets, s, h, d, t) ==
    /\ s.want = "response" /\ h.mux = 0 /\ h.of = Message(s.of) /\ Len(d) = 1
    /\ \/ d[1].at = 1 /\ (s.next = 1 \/ s.next = ReadsOf(packets, s.of) + 1) /\ t = PollAt(packets, s.of, s.next)
       \/ d[1].at = 2 /\ s.next = 1 /\ t = At(s.of + 1, 1)

PassesAs(packets, s, h, d, t) ==
    /\ h \in Unit /\ d \in Units /\ Len(d) \in Nat \ {0} /\ h.len = Len(d) /\ h.mux \in {0, 4}
    /\ s.of \in 1 .. Len(packets)
    /\ DataNext(packets, s, h, d, t) \/ ResponseNext(packets, s, h, d, t)
IsPacket(u, h, d) == u = <<h, h>> \o d

\* A packet that passes is a header, received as two units, and its data.
LEMMA PassesTyped ==
    ASSUME NEW packets \in Packets, NEW s, NEW u, NEW t, Passes(packets, s, u, t)
    PROVE  \E h, d : PassesAs(packets, s, h, d, t) /\ IsPacket(u, h, d)
<1>0. s.of \in 1 .. Len(packets)
  BY DEF Passes
<1>1. PICK n, k : n = s.of /\ k = s.next
  OBVIOUS
<1>2. n \in 1 .. Len(packets) /\ n \in 1 .. MaxPackets
  BY <1>0, <1>1, ReadsOfTyped
<1>3. CASE Fills(packets, s, u, t)
  <2>1. PICK d, h : d = ReadUnits(packets, n, k) /\ h = Header(4, Len(d), <<n, k>>)
    OBVIOUS
  <2>2. k \in 1 .. ReadsOf(packets, n) /\ u = ReadData(packets, n, k)
        /\ t = IF s.want = "data" THEN PollAt(packets, n, k + 1) ELSE At(n, k + 1)
    BY <1>1, <1>3 DEF Fills
  <2>3. d \in Units /\ Len(d) \in 1 .. PacketMax /\ <<n, k>> \in Ids
    <3>1. /\ ReadUnits(packets, n, k) \in Units /\ Len(ReadUnits(packets, n, k)) = packets[n].read[k]
          /\ packets[n].read[k] \in 1 .. PacketMax /\ <<n, k>> \in Ids
      BY <1>2, <2>2, ReadDataTyped
    <3> QED BY <3>1, <2>1
  <2>4. h \in Unit /\ h.len = Len(d) /\ h.mux = 4 /\ Len(d) \in Nat \ {0}
    BY <2>1, <2>3, Constants DEF Header, Unit
  <2>5. IsPacket(u, h, d)
    BY <2>1, <2>2 DEF ReadData, Packet, IsPacket
  <2>6. DataNext(packets, s, h, d, t)
    BY <1>1, <2>1, <2>2, <2>4 DEF DataNext
  <2> QED BY <1>0, <2>3, <2>4, <2>5, <2>6 DEF PassesAs
<1>4. ASSUME NEW at \in 1 .. 2, u = Response(n, at)
      PROVE  \E h, d : /\ h \in Unit /\ d \in Units /\ Len(d) = 1 /\ h.len = 1 /\ h.mux = 0 /\ d[1].at = at
                       /\ h.of = Message(n) /\ IsPacket(u, h, d)
  <2>1. PICK m, d, h : m = Message(n) /\ d = <<Data(0, m, at)>> /\ h = Header(0, 1, m)
    OBVIOUS
  <2>2. m \in Ids
    BY <1>2, <2>1, Constants DEF Message, Ids
  <2>3. Data(0, m, at) \in Unit /\ Data(0, m, at).at = at
    BY <2>2, Constants DEF Data, Unit
  <2>4. d \in Units /\ Len(d) = 1 /\ d[1].at = at
    BY <2>1, <2>3 DEF Units
  <2>5. h \in Unit /\ h.len = 1 /\ h.mux = 0 /\ h.of = m
    BY <2>1, <2>2, Constants DEF Header, Unit
  <2>6. u = <<h, h>> \o d
    BY <1>4, <2>1, <2>4 DEF Response, Packet
  <2> QED BY <2>1, <2>4, <2>5, <2>6 DEF IsPacket
<1>5. CASE Responds(packets, s, u, t)
  <2>1. PICK h, d : /\ h \in Unit /\ d \in Units /\ Len(d) = 1 /\ h.len = 1 /\ h.mux = 0 /\ d[1].at = 1
                    /\ h.of = Message(n) /\ IsPacket(u, h, d)
    BY <1>1, <1>4, <1>5 DEF Responds
  <2>2. ResponseNext(packets, s, h, d, t)
    BY <1>1, <1>5, <2>1 DEF Responds, ResponseNext
  <2>3. Len(d) \in Nat \ {0} /\ h.len = Len(d) /\ h.mux \in {0, 4}
    BY <2>1
  <2>4. PassesAs(packets, s, h, d, t)
    BY <1>0, <2>1, <2>2, <2>3 DEF PassesAs
  <2> QED BY <2>1, <2>4
<1>6. CASE Refuses(s, u, t)
  <2>1. PICK h, d : /\ h \in Unit /\ d \in Units /\ Len(d) = 1 /\ h.len = 1 /\ h.mux = 0 /\ d[1].at = 2
                    /\ h.of = Message(n) /\ IsPacket(u, h, d)
    BY <1>1, <1>4, <1>6 DEF Refuses
  <2>2. ResponseNext(packets, s, h, d, t)
    BY <1>1, <1>6, <2>1 DEF Refuses, ResponseNext
  <2>3. Len(d) \in Nat \ {0} /\ h.len = Len(d) /\ h.mux \in {0, 4}
    BY <2>1
  <2>4. PassesAs(packets, s, h, d, t)
    BY <1>0, <2>1, <2>2, <2>3 DEF PassesAs
  <2> QED BY <2>1, <2>4
<1> QED BY <1>3, <1>5, <1>6 DEF Passes

\* Units one after the other,
LEMMA UnitsAssociate ==
    ASSUME NEW a \in Units, NEW b \in Units, NEW c \in Units
    PROVE  (a \o b) \o c = a \o (b \o c)
<1>1. a \in Seq(Unit) /\ b \in Seq(Unit) /\ c \in Seq(Unit)
  BY DEF Units
<1>2. (a \o b) \o c = a \o (b \o c)
  BY ONLY <1>1, Associates
<1> QED BY <1>2

\* and how many they are.
LEMMA UnitsJoined ==
    ASSUME NEW a \in Units, NEW b \in Units
    PROVE  /\ a \o b \in Units /\ Len(a) \in Nat /\ Len(b) \in Nat /\ Len(a \o b) = Len(a) + Len(b)
           /\ \A i \in 1 .. Len(a) : (a \o b)[i] = a[i]
<1>1. a \in Seq(Unit) /\ b \in Seq(Unit)
  BY DEF Units
<1>2. IsJoined(a \o b, a, b, Unit)
  BY ONLY <1>1, Joined
<1> QED BY <1>2 DEF IsJoined, Units

\* The units of packets us, of which some are in head and data and some are left.
Cut(us, head, data, left) ==
    /\ us \in Seq(Units) /\ head \in Units /\ data \in Units /\ left \in Units
    /\ (head \o data) \o left = Chained(us)

FirstIs(packets, s, us, t, head, data, left, h, d, m) ==
    /\ us # <<>> /\ Tail(us) \in Seq(Units)
    /\ PassesAs(packets, s, h, d, m) /\ Run(packets, m, Tail(us), t)
    /\ head = <<h, h>>
    /\ data \o left = d \o Chained(Tail(us))

\* With its header read, what comes is the data it says, and then the other packets.
LEMMA FirstPacket ==
    ASSUME NEW packets \in Packets, NEW s, NEW us, NEW t, Run(packets, s, us, t),
           NEW head, NEW data, NEW left, Cut(us, head, data, left), Len(head) = 2
    PROVE  \E h, d, m : FirstIs(packets, s, us, t, head, data, left, h, d, m)
<1>1. us \in Seq(Units) /\ head \in Units /\ data \in Units /\ left \in Units /\ (head \o data) \o left = Chained(us)
  BY DEF Cut
<1>2. PICK x : x = data \o left
  OBVIOUS
<1>3. x \in Units /\ Len(x) \in Nat
  BY <1>1, <1>2, UnitsJoined
<1>4. head \o x = Chained(us)
  <2>1. (head \o data) \o left = head \o (data \o left)
    BY <1>1, UnitsAssociate
  <2> QED BY <2>1, <1>1, <1>2
<1>5. Len(head \o x) = 2 + Len(x) /\ \A i \in 1 .. 2 : (head \o x)[i] = head[i]
  <2>1. Len(head \o x) = Len(head) + Len(x) /\ \A i \in 1 .. Len(head) : (head \o x)[i] = head[i]
    BY <1>1, <1>3, UnitsJoined
  <2> QED BY ONLY <2>1, Len(head) = 2
<1>6. us # <<>>
  <2> SUFFICES ASSUME us = <<>> PROVE FALSE
    OBVIOUS
  <2>1. head \o x = <<>>
    BY <1>4, ChainedEmpty
  <2>2. Len(head \o x) = 0
    BY <2>1
  <2> QED BY <2>2, <1>3, <1>5
<1>7. Head(us) \in Units /\ Tail(us) \in Seq(Units)
  BY <1>1, <1>6, HeadTailProperties
<1>8. Chained(us) = Head(us) \o Chained(Tail(us))
  BY <1>1, <1>6, ChainedHead DEF Units
<1>9. PICK m : Passes(packets, s, Head(us), m) /\ Run(packets, m, Tail(us), t)
  BY <1>1, <1>6, RunFirst
<1>10. PICK h, d : PassesAs(packets, s, h, d, m) /\ IsPacket(Head(us), h, d)
  BY <1>9, PassesTyped
<1>11. PICK y : y = Chained(Tail(us))
  OBVIOUS
<1>12. y \in Units /\ Len(y) \in Nat
  BY <1>7, <1>11, ChainedTyped, LenProperties DEF Units
<1>13. h \in Unit /\ d \in Units
  BY <1>10 DEF PassesAs
<1>14. PICK hh : hh = <<h, h>>
  OBVIOUS
<1>15. hh \in Units /\ Len(hh) = 2 /\ hh[1] = h /\ hh[2] = h
  BY <1>13, <1>14 DEF Units
<1>16. PICK z : z = d \o y
  OBVIOUS
<1>17. z \in Units /\ Len(z) \in Nat
  BY <1>12, <1>13, <1>16, UnitsJoined
<1>18. head \o x = hh \o z
  <2>1. head \o x = (hh \o d) \o y
    BY <1>4, <1>8, <1>10, <1>11, <1>14 DEF IsPacket
  <2>2. hh \in Units /\ d \in Units /\ y \in Units
    BY <1>12, <1>13, <1>15
  <2>3. (hh \o d) \o y = hh \o (d \o y)
    BY ONLY <2>2, UnitsAssociate
  <2> QED BY <2>1, <2>3, <1>16
<1>19. \A i \in 1 .. 2 : (hh \o z)[i] = hh[i]
  BY <1>15, <1>17, UnitsJoined
<1>20. head[1] = h /\ head[2] = h
  <2>1. 1 \in 1 .. 2 /\ 2 \in 1 .. 2
    OBVIOUS
  <2>2. (head \o x)[1] = head[1] /\ (head \o x)[2] = head[2]
    BY <2>1, <1>5
  <2>3. (hh \o z)[1] = hh[1] /\ (hh \o z)[2] = hh[2]
    BY <2>1, <1>19
  <2> QED BY <2>2, <2>3, <1>15, <1>18
<1>21. head = hh
  <2>1. head \in Seq(Unit) /\ hh \in Seq(Unit) /\ Len(head) = 2 /\ Len(hh) = 2
    BY <1>1, <1>15 DEF Units
  <2>2. \A i \in 1 .. 2 : head[i] = hh[i]
    <3> TAKE i \in 1 .. 2
    <3>1. i = 1 \/ i = 2
      OBVIOUS
    <3> QED BY <3>1, <1>15, <1>20
  <2> QED BY <2>1, <2>2, SeqEqual
<1>22. x = z
  <2>1. hh \o x = hh \o z
    BY <1>18, <1>21
  <2>2. hh \in Seq(Unit) /\ x \in Seq(Unit) /\ z \in Seq(Unit)
    BY <1>3, <1>15, <1>17 DEF Units
  <2> QED BY ONLY <2>1, <2>2, ConcatSimplifications
<1> QED BY <1>2, <1>6, <1>7, <1>9, <1>10, <1>11, <1>14, <1>16, <1>21, <1>22 DEF FirstIs

\* recv moves units from what is left to what has come.
Recuts(x, left, in, out, n) == (x \o SubSeq(in, 1, n)) \o (Dropped(in, n) \o out) = x \o left
\* Moving some from what is left to what has come leaves them together the same.
LEMMA Recut ==
    ASSUME NEW x \in Units, NEW in \in Units, NEW out \in Units, NEW n \in Nat, n <= Len(in)
    PROVE  /\ Recuts(x, in \o out, in, out, n)
           /\ SubSeq(in, 1, n) \in Units /\ Dropped(in, n) \in Units /\ Dropped(in, n) \o out \in Units
<1>1. PICK a, b : a = SubSeq(in, 1, n) /\ b = Dropped(in, n)
  OBVIOUS
<1>2. a \in Units /\ b \in Units /\ a \o b = in
  BY <1>1, CutAgain DEF Units
<1>3. b \o out \in Units
  BY <1>2, UnitsJoined
<1>4. PICK c : c = b \o out
  OBVIOUS
<1>5. (x \o a) \o c = x \o (a \o c)
  <2>1. x \in Units /\ a \in Units /\ c \in Units
    BY <1>2, <1>3, <1>4
  <2> QED BY ONLY <2>1, UnitsAssociate
<1>6. a \o c = in \o out
  <2>1. (a \o b) \o out = a \o (b \o out)
    <3>1. a \in Units /\ b \in Units /\ out \in Units
      BY <1>2
    <3> QED BY ONLY <3>1, UnitsAssociate
  <2> QED BY <2>1, <1>2, <1>4
<1> QED BY <1>1, <1>2, <1>3, <1>4, <1>5, <1>6 DEF Recuts

-----------------------------------------------------------------------------
(* The place of the client: k is the next FIFO of packet n, the oldest.    *)

Place(packets, n, pc, k) == IF pc = "poll" THEN PollAt(packets, n, k) ELSE At(n, k)

\* The FIFOs before it have their data.
FilledFifo(packets, n, k) == [id |-> <<n, k>>, len |-> packets[n].read[k], got |-> ReadUnits(packets, n, k)]
FullUpTo(packets, n, k) == {FilledFifo(packets, n, i) : i \in 1 .. k - 1}

Stands(packets, n, pc, k, r) ==
    /\ k \in 1 .. ReadsOf(packets, n) + 1
    /\ r.fifos = Waiting(packets, n, k) /\ r.full = FullUpTo(packets, n, k)
    /\ pc = "poll" /\ k = ReadsOf(packets, n) + 1 => r.head = <<>>

\* Packets us come next, up to the answer to the packet after answered.
Comes(packets, n, pc, answered, k, us, r, left) ==
    /\ Cut(us, r.head, r.data, left)
    /\ Run(packets, Place(packets, n, pc, k), us, At(answered + 1, 1))

\* A packet that is complete is dealt with at once; only a response can wait.
HeaderSound(r) ==
    /\ Len(r.head) = 2 => Len(r.data) < r.head[1].len
    /\ r.mux0 => Len(r.head) = 2 /\ r.head[1].mux = 0

Expects(packets, n, pc, answered, r, left) ==
    /\ answered <= Len(packets)
    /\ HeaderSound(r)
    /\ \E k, us : Stands(packets, n, pc, k, r) /\ Comes(packets, n, pc, answered, k, us, r, left)

\* receive_cmnd and poll_fifo have the data of packet n.
Complete(packets, n, full) ==
    LET reads == packets[n].read IN reads = <<>> \/ \E f \in full : f.id = <<n, Len(reads)>>

\* The last FIFO has its data only when all have: waiting for the last is sufficient.
LEMMA CompleteAtEnd ==
    ASSUME NEW packets \in Packets, NEW n \in 1 .. Len(packets), NEW k \in 1 .. ReadsOf(packets, n) + 1
    PROVE  Complete(packets, n, FullUpTo(packets, n, k)) <=> k = ReadsOf(packets, n) + 1
<1>1. PICK K, reads : K = ReadsOf(packets, n) /\ reads = packets[n].read
  OBVIOUS
<1>2. K \in Nat /\ K = Len(reads) /\ k \in 1 .. K + 1
  <2>1. K \in Nat
    BY <1>1, ReadsOfTyped
  <2> QED BY <2>1, <1>1 DEF ReadsOf
<1>3. reads = <<>> <=> K = 0
  <2>1. packets[n] \in Shape
    BY ReadsOfTyped
  <2>2. reads \in Seq(1 .. PacketMax)
    BY <2>1, <1>1 DEF Shape
  <2> QED BY <2>2, <1>2, EmptySeq
<1>4. ASSUME k = K + 1, K # 0 PROVE \E f \in FullUpTo(packets, n, k) : f.id = <<n, K>>
  <2>1. K \in 1 .. k - 1
    BY <1>2, <1>4
  <2>2. FilledFifo(packets, n, K) \in FullUpTo(packets, n, k)
    BY <2>1 DEF FullUpTo
  <2> QED BY <2>2 DEF FilledFifo
<1>5. ASSUME NEW f \in FullUpTo(packets, n, k), f.id = <<n, K>> PROVE k = K + 1
  <2>1. PICK i \in 1 .. k - 1 : f = FilledFifo(packets, n, i)
    BY DEF FullUpTo
  <2>2. i = K
    BY <2>1, <1>5 DEF FilledFifo
  <2> QED BY <2>2, <1>2
<1>6. K = 0 => k = K + 1
  BY <1>2
<1> QED BY <1>1, <1>2, <1>3, <1>4, <1>5, <1>6 DEF Complete

\* One more FIFO has its data.
LEMMA OneMoreFull ==
    ASSUME NEW packets, NEW n, NEW k \in Nat \ {0}
    PROVE  /\ FullUpTo(packets, n, k + 1) = FullUpTo(packets, n, k) \cup {FilledFifo(packets, n, k)}
           /\ FullUpTo(packets, n, 1) = {}
           /\ \A f \in FullUpTo(packets, n, k) : f.id[1] = n
<1>1. 1 .. (k + 1) - 1 = (1 .. k - 1) \cup {k}
  OBVIOUS
<1>2. 1 .. 1 - 1 = {}
  OBVIOUS
<1>3. \A f \in FullUpTo(packets, n, k) : f.id[1] = n
  BY DEF FullUpTo, FilledFifo
<1>4. FullUpTo(packets, n, k + 1) = FullUpTo(packets, n, k) \cup {FilledFifo(packets, n, k)}
  BY <1>1 DEF FullUpTo
<1>5. FullUpTo(packets, n, 1) = {}
  BY <1>2 DEF FullUpTo
<1> QED BY <1>3, <1>4, <1>5

\* Another call than poll_fifo, and the same receiver.
LEMMA ExpectsOn ==
    ASSUME NEW packets, NEW n, NEW pc, NEW to, NEW answered, NEW r, NEW left,
           Expects(packets, n, pc, answered, r, left), pc # "poll", to # "poll",
           NEW q, q.head = r.head, q.data = r.data, q.fifos = r.fifos, q.full = r.full, HeaderSound(q)
    PROVE  Expects(packets, n, to, answered, q, left)
<1>1. PICK k, us : Stands(packets, n, pc, k, r) /\ Comes(packets, n, pc, answered, k, us, r, left)
  BY DEF Expects
<1>2. Stands(packets, n, to, k, q)
  BY <1>1 DEF Stands
<1>3. Place(packets, n, to, k) = Place(packets, n, pc, k)
  BY DEF Place
<1>4. Comes(packets, n, to, answered, k, us, q, left)
  BY <1>1, <1>3 DEF Comes
<1> QED BY <1>2, <1>4 DEF Expects

\* The parts of what is read that recv has given: n units of in.
ReadOn(r, q, in, m) ==
    /\ q.fifos = r.fifos /\ q.full = r.full /\ q.mux0 = r.mux0
    /\ m \in Nat /\ m <= Len(in)
    /\ \/ q.head = r.head /\ q.data = r.data \o SubSeq(in, 1, m)
       \/ q.head = r.head \o SubSeq(in, 1, m) /\ q.data = <<>> /\ r.data = <<>>

\* What recv reads changes no packet and no place.
LEMMA ComesOn ==
    ASSUME NEW packets, NEW n, NEW pc, NEW answered, NEW k, NEW us, NEW r, NEW in \in Units, NEW out \in Units,
           Comes(packets, n, pc, answered, k, us, r, in \o out), NEW q, NEW m, ReadOn(r, q, in, m)
    PROVE  Comes(packets, n, pc, answered, k, us, q, Dropped(in, m) \o out)
<1>1. Cut(us, r.head, r.data, in \o out)
  BY DEF Comes
<1>2. PICK a, b, g, left : a = r.head /\ b = r.data /\ g = SubSeq(in, 1, m) /\ left = Dropped(in, m) \o out
  OBVIOUS
<1>3. us \in Seq(Units) /\ a \in Units /\ b \in Units /\ (a \o b) \o (in \o out) = Chained(us)
  BY <1>1, <1>2 DEF Cut
<1>4. a \o b \in Units
  BY <1>3, UnitsJoined
<1>5. m \in Nat /\ m <= Len(in)
  BY DEF ReadOn
<1>6. ((a \o b) \o g) \o left = (a \o b) \o (in \o out) /\ g \in Units /\ left \in Units
  <2>1. PICK x : x = a \o b
    OBVIOUS
  <2>2. x \in Units
    BY <2>1, <1>4
  <2>3. Recuts(x, in \o out, in, out, m) /\ g \in Units /\ left \in Units
    BY <2>2, <1>2, <1>5, Recut
  <2> QED BY <2>1, <2>3, <1>2 DEF Recuts
<1>7. CASE q.head = a /\ q.data = b \o g
  <2>1. (a \o b) \o g = a \o (b \o g)
    BY ZenonT(30), <1>3, <1>6, UnitsAssociate
  <2>2. PICK d : d = b \o g
    OBVIOUS
  <2>3. d \in Units /\ (a \o d) \o left = Chained(us)
    <3>1. d \in Units
      BY <2>2, <1>3, <1>6, UnitsJoined
    <3>2. (a \o d) \o left = (a \o b) \o (in \o out)
      BY <2>1, <2>2, <1>6
    <3> QED BY <3>1, <3>2, <1>3
  <2> QED BY <2>2, <2>3, <1>2, <1>3, <1>6, <1>7 DEF Cut, Comes
<1>8. CASE q.head = a \o g /\ q.data = <<>> /\ b = <<>>
  <2>1. PICK h : h = a \o g
    OBVIOUS
  <2>2. h \in Units
    BY <2>1, <1>3, <1>6, UnitsJoined
  <2>3. a \o b = a /\ h \o <<>> = h
    <3>1. a \in Seq(Unit) /\ h \in Seq(Unit)
      BY <2>2, <1>3 DEF Units
    <3> QED BY <3>1, <1>8, ConcatEmptySeq
  <2>4. (h \o <<>>) \o left = Chained(us)
    BY <2>1, <2>3, <1>3, <1>6
  <2>5. <<>> \in Units
    BY DEF Units
  <2> QED BY <2>1, <2>2, <2>4, <2>5, <1>2, <1>3, <1>6, <1>8 DEF Cut, Comes
<1> QED BY <1>2, <1>7, <1>8 DEF ReadOn

\* Two lists that start with as many units.
LEMMA SplitSame ==
    ASSUME NEW a \in Units, NEW b \in Units, NEW x \in Units, NEW y \in Units,
           a \o x = b \o y, Len(a) = Len(b)
    PROVE  a = b /\ x = y
<1>1. /\ Len(a) \in Nat /\ Len(b) \in Nat
      /\ (\A i \in 1 .. Len(a) : (a \o x)[i] = a[i]) /\ (\A i \in 1 .. Len(b) : (b \o y)[i] = b[i])
  BY UnitsJoined
<1>2. \A i \in 1 .. Len(a) : a[i] = b[i]
  BY <1>1
<1>3. a \in Seq(Unit) /\ b \in Seq(Unit) /\ x \in Seq(Unit) /\ y \in Seq(Unit)
  BY DEF Units
<1>4. a = b
  BY <1>2, <1>3, SeqEqual
<1>5. a \o x = a \o y
  BY <1>4
<1>6. x = y
  BY ONLY <1>3, <1>5, ConcatSimplifications
<1> QED BY <1>4, <1>6

\* A packet has data, so its header is not all of it.
LEMMA HeaderComes ==
    ASSUME NEW packets \in Packets, NEW n, NEW pc, NEW answered, NEW k, NEW us, NEW r, NEW left,
           Comes(packets, n, pc, answered, k, us, r, left), Len(r.head) = 2
    PROVE  /\ r.head[1].len \in Nat \ {0}
           /\ \E h, d, m : FirstIs(packets, Place(packets, n, pc, k), us, At(answered + 1, 1), r.head, r.data, left, h, d, m)
<1>1. PICK s, t, a, b : s = Place(packets, n, pc, k) /\ t = At(answered + 1, 1) /\ a = r.head /\ b = r.data
  OBVIOUS
<1>2. Run(packets, s, us, t) /\ Cut(us, a, b, left) /\ Len(a) = 2
  BY <1>1 DEF Comes
<1>3. PICK h, d, m : FirstIs(packets, s, us, t, a, b, left, h, d, m)
  BY <1>2, FirstPacket
<1>4. a = <<h, h>> /\ h.len \in Nat \ {0}
  BY <1>3 DEF FirstIs, PassesAs
<1> QED BY <1>1, <1>3, <1>4

\* Some of a header or of a packet has come.
LEMMA ExpectsRead ==
    ASSUME NEW packets \in Packets, NEW n \in 1 .. Len(packets), NEW pc, NEW answered, NEW r,
           NEW in \in Units, NEW out \in Units,
           Expects(packets, n, pc, answered, r, in \o out), pc = "poll" => ~Complete(packets, n, r.full),
           NEW q, NEW m, ReadOn(r, q, in, m),
           \/ Len(r.head) # 2 /\ q.data = <<>>
           \/ q.head = r.head /\ Len(q.data) < r.head[1].len
    PROVE  Expects(packets, n, pc, answered, q, Dropped(in, m) \o out)
<1>1. PICK k, us : Stands(packets, n, pc, k, r) /\ Comes(packets, n, pc, answered, k, us, r, in \o out)
  BY DEF Expects
<1>2. PICK left : left = Dropped(in, m) \o out
  OBVIOUS
<1>3. Comes(packets, n, pc, answered, k, us, q, left)
  BY <1>1, <1>2, ComesOn
<1>4. q.fifos = r.fifos /\ q.full = r.full /\ q.mux0 = r.mux0
  BY DEF ReadOn
<1>5. Stands(packets, n, pc, k, q)
  <2>1. k \in 1 .. ReadsOf(packets, n) + 1 /\ r.full = FullUpTo(packets, n, k)
    BY <1>1 DEF Stands
  <2>2. ~(pc = "poll" /\ k = ReadsOf(packets, n) + 1)
    BY <2>1, CompleteAtEnd
  <2> QED BY <2>2, <1>1, <1>4 DEF Stands
<1>6. HeaderSound(r)
  BY DEF Expects
<1>7. HeaderSound(q)
  <2>1. CASE Len(r.head) # 2 /\ q.data = <<>>
    <3>1. ~q.mux0
      BY <2>1, <1>4, <1>6 DEF HeaderSound
    <3>2. ASSUME Len(q.head) = 2 PROVE Len(q.data) < q.head[1].len
      <4>1. q.head[1].len \in Nat \ {0}
        BY <3>2, <1>3, HeaderComes
      <4>2. Len(q.data) = 0
        BY <2>1
      <4> QED BY <4>1, <4>2
    <3> QED BY <3>1, <3>2 DEF HeaderSound
  <2>2. CASE q.head = r.head /\ Len(q.data) < r.head[1].len
    BY <2>2, <1>4, <1>6 DEF HeaderSound
  <2> QED BY <2>1, <2>2
<1> QED BY <1>2, <1>3, <1>5, <1>7 DEF Expects

\* A packet has come, all of it: what comes next starts at place m.
AllCame(packets, n, pc, answered, k, us, q, left, h, m) ==
    /\ PassesAs(packets, Place(packets, n, pc, k), h, q.data, m)
    /\ Run(packets, m, us, At(answered + 1, 1))
    /\ us \in Seq(Units) /\ left = Chained(us)
    /\ q.head[1] = h

\* With as much data as the header says, the packet is done and the next one starts.
LEMMA WholePacket ==
    ASSUME NEW packets \in Packets, NEW n, NEW pc, NEW answered, NEW k, NEW us, NEW q, NEW left,
           Comes(packets, n, pc, answered, k, us, q, left), Len(q.head) = 2, Len(q.data) = q.head[1].len
    PROVE  \E vs, h, m : AllCame(packets, n, pc, answered, k, vs, q, left, h, m)
<1>1. PICK s, t, a, b : s = Place(packets, n, pc, k) /\ t = At(answered + 1, 1) /\ a = q.head /\ b = q.data
  OBVIOUS
<1>2. PICK h, d, m : FirstIs(packets, s, us, t, a, b, left, h, d, m)
  BY <1>1, HeaderComes
<1>3. PICK vs : vs = Tail(us)
  OBVIOUS
<1>4. PassesAs(packets, s, h, d, m) /\ Run(packets, m, vs, t) /\ vs \in Seq(Units) /\ b \o left = d \o Chained(vs)
      /\ a = <<h, h>>
  BY <1>2, <1>3 DEF FirstIs
<1>5. b \in Units /\ left \in Units
  BY <1>1 DEF Comes, Cut
<1>6. PICK y : y = Chained(vs)
  OBVIOUS
<1>7. y \in Units
  BY <1>4, <1>6, ChainedTyped DEF Units
<1>8. d \in Units /\ Len(d) = Len(b)
  BY <1>1, <1>4 DEF PassesAs
<1>9. b = d /\ left = y
  <2>1. b \o left = d \o y
    BY <1>4, <1>6
  <2> QED BY <2>1, <1>5, <1>7, <1>8, SplitSame
<1>10. AllCame(packets, n, pc, answered, k, vs, q, left, h, m)
  BY <1>1, <1>4, <1>6, <1>9 DEF AllCame
<1> QED BY <1>10

\* The receiver after a packet.
Emptied(q) == q.head = <<>> /\ q.data = <<>> /\ q.mux0 = FALSE
\* The receiver is empty, and the packets that are left come next.
LEMMA ComesNext ==
    ASSUME NEW packets \in Packets, NEW n, NEW pc, NEW answered, NEW k, NEW us, NEW left, us \in Seq(Units),
           left = Chained(us), Run(packets, Place(packets, n, pc, k), us, At(answered + 1, 1)),
           answered <= Len(packets), NEW q, Emptied(q), Stands(packets, n, pc, k, q)
    PROVE  Expects(packets, n, pc, answered, q, left)
<1>1. <<>> \in Units
  BY DEF Units
<1>2. left \in Units
  BY ChainedTyped DEF Units
<1>3. (<<>> \o <<>>) \o left = left
  <2>1. left \in Seq(Unit) /\ <<>> \in Seq(Unit)
    BY <1>2 DEF Units
  <2>2. <<>> \o <<>> = <<>> /\ <<>> \o left = left
    BY <2>1, ConcatEmptySeq
  <2> QED BY <2>2
<1>4. Cut(us, q.head, q.data, left)
  BY <1>1, <1>2, <1>3 DEF Cut, Emptied
<1>5. HeaderSound(q)
  BY DEF HeaderSound, Emptied
<1> QED BY <1>4, <1>5 DEF Expects, Comes

\* The place before packet n is dealt with, while something is left to come of it.
LEMMA PlaceOf ==
    ASSUME NEW packets \in Packets, NEW n, NEW k \in Nat, NEW pc, pc = "poll" => k <= ReadsOf(packets, n)
    PROVE  /\ Place(packets, n, pc, k).of = n /\ Place(packets, n, pc, k).next = k
           /\ Place(packets, n, pc, k).want = IF pc = "poll" THEN "data" ELSE "response"
<1>1. CASE pc = "poll"
  <2>1. ReadsOf(packets, n) \in Nat
    BY ReadsOfTyped
  <2>2. ~(k > ReadsOf(packets, n))
    BY <2>1, <1>1
  <2> QED BY <2>2, <1>1 DEF Place, PollAt
<1>2. CASE pc # "poll"
  BY <1>2 DEF Place, At
<1> QED BY <1>1, <1>2

\* The data that has come is that of the first FIFO of the queue, which then is full.
FirstFilled(r, q, f) ==
    /\ r.fifos # <<>> /\ r.fifos[1].id # None /\ r.head[1].mux = 4
    /\ f = [r.fifos[1] EXCEPT !.got = @ \o q.data] /\ Len(f.got) = f.len

\* Data is for the first FIFO of the queue, fills it, and the next FIFO is the next place.
LEMMA FifoComes ==
    ASSUME NEW packets \in Packets, NEW n \in 1 .. Len(packets), NEW pc, NEW answered, NEW r,
           NEW in \in Units, NEW out \in Units,
           Expects(packets, n, pc, answered, r, in \o out), pc = "poll" => ~Complete(packets, n, r.full),
           NEW q, NEW m, ReadOn(r, q, in, m), q.head = r.head, Len(r.head) = 2,
           Len(q.data) = r.head[1].len, r.head[1].mux # 0,
           NEW v, Emptied(v)
    PROVE  \E f : /\ FirstFilled(r, q, f)
                  /\ v.fifos = SubSeq(r.fifos, 2, Len(r.fifos)) /\ v.full = r.full \cup {f} =>
                        Expects(packets, n, pc, answered, v, Dropped(in, m) \o out)
<1>1. PICK k, us : Stands(packets, n, pc, k, r) /\ Comes(packets, n, pc, answered, k, us, r, in \o out)
  BY DEF Expects
<1>2. PICK left, K : left = Dropped(in, m) \o out /\ K = ReadsOf(packets, n)
  OBVIOUS
<1>3. k \in 1 .. K + 1 /\ r.fifos = Waiting(packets, n, k) /\ r.full = FullUpTo(packets, n, k) /\ K \in Nat
  BY <1>1, <1>2, ReadsOfTyped DEF Stands
<1>4. pc = "poll" => k <= K
  <2>1. pc = "poll" => k # K + 1
    BY <1>2, <1>3, CompleteAtEnd
  <2> QED BY <2>1, <1>3
<1>5. PICK vs, h, t : AllCame(packets, n, pc, answered, k, vs, q, left, h, t)
  <2>1. Comes(packets, n, pc, answered, k, us, q, left)
    BY <1>1, <1>2, ComesOn
  <2> QED BY <2>1, WholePacket
<1>6. PICK s, d : s = Place(packets, n, pc, k) /\ d = q.data
  OBVIOUS
<1>7. s.of = n /\ s.next = k /\ s.want = IF pc = "poll" THEN "data" ELSE "response"
  <2>1. k \in Nat
    BY <1>3
  <2> QED BY <2>1, <1>2, <1>4, <1>6, PlaceOf
<1>8. /\ PassesAs(packets, s, h, d, t) /\ Run(packets, t, vs, At(answered + 1, 1)) /\ vs \in Seq(Units)
      /\ left = Chained(vs) /\ r.head[1] = h
  BY <1>5, <1>6 DEF AllCame
<1>9. DataNext(packets, s, h, d, t)
  BY <1>8 DEF PassesAs, ResponseNext
<1>10. k \in 1 .. K /\ h.mux = 4 /\ d = ReadUnits(packets, n, k) /\ t = Place(packets, n, pc, k + 1)
  BY <1>2, <1>7, <1>9 DEF DataNext, Place
<1>11. /\ EmptyFifo(packets, n, k) \in Unfilled
       /\ Follows(Waiting(packets, n, k), <<EmptyFifo(packets, n, k)>>, Waiting(packets, n, k + 1))
  BY <1>2, <1>10, WaitingFirst
<1>12. k + 1 \in 1 .. K + 1 /\ n \in Nat \ {0}
  BY <1>3, <1>10
<1>13. PICK e, g : e = EmptyFifo(packets, n, k) /\ g = Waiting(packets, n, k + 1)
  OBVIOUS
<1>14. g \in Seq(Unfilled)
  BY <1>2, <1>12, <1>13, WaitingTyped
<1>15. r.fifos # <<>> /\ r.fifos[1] = e /\ SubSeq(r.fifos, 2, Len(r.fifos)) = g
  BY <1>3, <1>11, <1>13, <1>14, TakenOff
<1>16. PICK f : f = [r.fifos[1] EXCEPT !.got = @ \o q.data]
  OBVIOUS
<1>17. f = FilledFifo(packets, n, k)
  <2>1. d \in Seq(Unit) /\ <<>> \o d = d
    <3>1. d \in Seq(Unit)
      BY <1>8 DEF PassesAs, Units
    <3> QED BY <3>1, ConcatEmptySeq
  <2>2. f = [e EXCEPT !.got = @ \o d]
    BY <1>6, <1>15, <1>16
  <2>3. e = [id |-> <<n, k>>, len |-> packets[n].read[k], got |-> <<>>]
    BY <1>13 DEF EmptyFifo
  <2>4. f = [id |-> <<n, k>>, len |-> packets[n].read[k], got |-> d]
    BY <2>1, <2>2, <2>3
  <2> QED BY <2>4, <1>10 DEF FilledFifo
<1>18. FirstFilled(r, q, f)
  <2>1. Len(f.got) = f.len
    <3>1. Len(ReadUnits(packets, n, k)) = packets[n].read[k]
      BY <1>2, <1>10, ReadDataTyped
    <3> QED BY <3>1, <1>17 DEF FilledFifo
  <2>2. e.id # None
    BY <1>12, <1>13 DEF EmptyFifo, None
  <2> QED BY <2>1, <2>2, <1>8, <1>10, <1>15, <1>16 DEF FirstFilled
<1>19. ASSUME v.fifos = SubSeq(r.fifos, 2, Len(r.fifos)), v.full = r.full \cup {f}
       PROVE  Expects(packets, n, pc, answered, v, left)
  <2>1. v.full = FullUpTo(packets, n, k + 1)
    <3>1. k \in Nat \ {0}
      BY <1>10
    <3>2. FullUpTo(packets, n, k + 1) = FullUpTo(packets, n, k) \cup {FilledFifo(packets, n, k)}
      BY <3>1, OneMoreFull
    <3> QED BY <3>2, <1>3, <1>17, <1>19
  <2>2. Stands(packets, n, pc, k + 1, v)
    BY <2>1, <1>2, <1>12, <1>13, <1>15, <1>19 DEF Stands, Emptied
  <2>3. answered <= Len(packets)
    BY DEF Expects
  <2> QED BY <2>2, <2>3, <1>8, <1>10, ComesNext
<1> QED BY <1>2, <1>18, <1>19

\* The FIFOs of packet n are forgotten.
Forgets(r, v, n) ==
    /\ v.fifos = Filtered(r.fifos, {f \in Range(r.fifos) : f.id[1] # n})
    /\ v.full = {f \in r.full : f.id[1] # n}

\* Without the FIFOs of packet n the client is before packet n + 1.
LEMMA NextStands ==
    ASSUME NEW packets \in Packets, NEW n \in 1 .. Len(packets), NEW pc, NEW k, NEW r, Stands(packets, n, pc, k, r),
           NEW v, Forgets(r, v, n), NEW to, to # "poll"
    PROVE  Stands(packets, n + 1, to, 1, v)
<1>1. k \in 1 .. ReadsOf(packets, n) + 1 /\ r.fifos = Waiting(packets, n, k) /\ r.full = FullUpTo(packets, n, k)
  BY DEF Stands
<1>2. PICK S : S = {f \in Range(r.fifos) : f.id[1] # n}
  OBVIOUS
<1>3. Filtered(r.fifos, S) = Waiting(packets, n + 1, 1)
  BY <1>1, <1>2, WaitingFiltered
<1>4. v.fifos = Waiting(packets, n + 1, 1)
  BY <1>2, <1>3 DEF Forgets
<1>5. v.full = {}
  <2>1. k \in Nat \ {0}
    BY <1>1, ReadsOfTyped
  <2>2. \A f \in FullUpTo(packets, n, k) : f.id[1] = n
    BY <2>1, OneMoreFull
  <2> QED BY <2>2, <1>1 DEF Forgets
<1>6. FullUpTo(packets, n + 1, 1) = {}
  BY OneMoreFull
<1>7. 1 \in 1 .. ReadsOf(packets, n + 1) + 1
  <2>1. ReadsOf(packets, n + 1) \in Nat
    BY ReadsOfTyped
  <2> QED BY <2>1
<1> QED BY <1>4, <1>5, <1>6, <1>7 DEF Stands

\* receive_cmnd reads a response: to all of the packet's data, to none of it, or a refusal.
LEMMA ResponseComes ==
    ASSUME NEW packets \in Packets, NEW n \in 1 .. Len(packets), NEW answered, NEW r,
           NEW in \in Units, NEW out \in Units,
           Expects(packets, n, "answer", answered, r, in \o out),
           NEW q, NEW m, ReadOn(r, q, in, m), q.head = r.head, Len(r.head) = 2,
           Len(q.data) = r.head[1].len, r.head[1].mux = 0,
           NEW v, Emptied(v)
    PROVE  /\ ~(q.data[1].at = 1) \/ Complete(packets, n, r.full) =>
                 (Forgets(r, v, n) => Expects(packets, n + 1, "idle", answered, v, Dropped(in, m) \o out))
           /\ q.data[1].at = 1 /\ ~Complete(packets, n, r.full) =>
                 (v.fifos = r.fifos /\ v.full = r.full => Expects(packets, n, "poll", answered, v, Dropped(in, m) \o out))
<1>1. PICK k, us : Stands(packets, n, "answer", k, r) /\ Comes(packets, n, "answer", answered, k, us, r, in \o out)
  BY DEF Expects
<1>2. PICK left, K : left = Dropped(in, m) \o out /\ K = ReadsOf(packets, n)
  OBVIOUS
<1>3. k \in 1 .. K + 1 /\ r.fifos = Waiting(packets, n, k) /\ r.full = FullUpTo(packets, n, k) /\ K \in Nat
  BY <1>1, <1>2, ReadsOfTyped DEF Stands
<1>4. Complete(packets, n, r.full) <=> k = K + 1
  BY <1>2, <1>3, CompleteAtEnd
<1>5. PICK vs, h, t : AllCame(packets, n, "answer", answered, k, vs, q, left, h, t)
  <2>1. Comes(packets, n, "answer", answered, k, us, q, left)
    BY <1>1, <1>2, ComesOn
  <2> QED BY <2>1, WholePacket
<1>6. PICK s, d : s = Place(packets, n, "answer", k) /\ d = q.data
  OBVIOUS
<1>7. s.of = n /\ s.next = k /\ s.want = "response"
  BY <1>6 DEF Place, At
<1>8. /\ PassesAs(packets, s, h, d, t) /\ Run(packets, t, vs, At(answered + 1, 1)) /\ vs \in Seq(Units)
      /\ left = Chained(vs) /\ r.head[1] = h
  BY <1>5, <1>6 DEF AllCame
<1>9. ResponseNext(packets, s, h, d, t)
  BY <1>8 DEF PassesAs, DataNext
<1>10. \/ d[1].at = 1 /\ (k = 1 \/ k = K + 1) /\ t = PollAt(packets, n, k)
       \/ d[1].at = 2 /\ k = 1 /\ t = At(n + 1, 1)
  BY <1>2, <1>7, <1>9 DEF ResponseNext
<1>11. answered <= Len(packets)
  BY DEF Expects
<1>12. ASSUME ~(d[1].at = 1) \/ k = K + 1, Forgets(r, v, n)
       PROVE  Expects(packets, n + 1, "idle", answered, v, left)
  <2>1. t = At(n + 1, 1)
    <3>1. CASE k = K + 1
      <4>1. k > K
        BY <3>1, <1>3
      <4> QED BY <4>1, <1>2, <1>10 DEF PollAt
    <3>2. CASE ~(d[1].at = 1)
      BY <3>2, <1>10
    <3> QED BY <3>1, <3>2, <1>12
  <2>2. t = Place(packets, n + 1, "idle", 1)
    BY <2>1 DEF Place
  <2>3. Stands(packets, n + 1, "idle", 1, v)
    BY <1>1, <1>12, NextStands
  <2> QED BY <2>2, <2>3, <1>8, <1>11, ComesNext
<1>13. ASSUME d[1].at = 1, k # K + 1, v.fifos = r.fifos, v.full = r.full
       PROVE  Expects(packets, n, "poll", answered, v, left)
  <2>1. t = Place(packets, n, "poll", k)
    BY <1>10, <1>13 DEF Place
  <2>2. Stands(packets, n, "poll", k, v)
    BY <1>2, <1>3, <1>13 DEF Stands
  <2> QED BY <2>1, <2>2, <1>8, <1>11, ComesNext
<1> QED BY <1>2, <1>4, <1>6, <1>12, <1>13

\* poll_fifo has all of the packet's data.
LEMMA PollEnds ==
    ASSUME NEW packets \in Packets, NEW n \in 1 .. Len(packets), NEW answered, NEW r, NEW left,
           Expects(packets, n, "poll", answered, r, left), Complete(packets, n, r.full),
           NEW v, v.head = r.head, v.data = r.data, v.mux0 = r.mux0, Forgets(r, v, n)
    PROVE  Expects(packets, n + 1, "idle", answered, v, left)
<1>1. PICK k, us : Stands(packets, n, "poll", k, r) /\ Comes(packets, n, "poll", answered, k, us, r, left)
  BY DEF Expects
<1>2. k \in 1 .. ReadsOf(packets, n) + 1 /\ k = ReadsOf(packets, n) + 1 /\ ReadsOf(packets, n) \in Nat
  <2>1. k \in 1 .. ReadsOf(packets, n) + 1 /\ r.full = FullUpTo(packets, n, k)
    BY <1>1 DEF Stands
  <2>2. k = ReadsOf(packets, n) + 1
    BY <2>1, CompleteAtEnd
  <2> QED BY <2>1, <2>2, ReadsOfTyped
<1>3. Place(packets, n, "poll", k) = Place(packets, n + 1, "idle", 1)
  <2>1. k > ReadsOf(packets, n)
    BY <1>2
  <2> QED BY <2>1 DEF Place, PollAt
<1>4. Stands(packets, n + 1, "idle", 1, v)
  BY <1>1, NextStands
<1>5. Comes(packets, n + 1, "idle", answered, 1, us, v, left)
  BY <1>1, <1>3 DEF Comes
<1>6. HeaderSound(v) /\ answered <= Len(packets)
  BY DEF HeaderSound, Expects
<1> QED BY <1>4, <1>5, <1>6 DEF Expects

\* send_fifos adds a packet, and its FIFOs.
LEMMA ExpectsMore ==
    ASSUME NEW packets \in Packets, NEW shape \in Shapes, NEW more \in Packets, more = Append(packets, shape),
           NEW n \in 1 .. Len(packets) + 1, NEW pc, pc # "poll", NEW to, to # "poll",
           NEW answered \in Nat, NEW r, NEW left, Expects(packets, n, pc, answered, r, left),
           NEW v, v.head = r.head, v.data = r.data, v.mux0 = r.mux0, v.full = r.full,
           v.fifos = r.fifos \o RxFifos(Len(packets) + 1, shape)
    PROVE  Expects(more, n, to, answered, v, left)
<1>1. PICK k, us : Stands(packets, n, pc, k, r) /\ Comes(packets, n, pc, answered, k, us, r, left)
  BY DEF Expects
<1>2. k \in 1 .. ReadsOf(packets, n) + 1 /\ r.fifos = Waiting(packets, n, k) /\ r.full = FullUpTo(packets, n, k)
  BY <1>1 DEF Stands
<1>3. PICK L : L = Len(packets)
  OBVIOUS
<1>4. L \in Nat /\ Len(more) = L + 1 /\ \A i \in 1 .. L : more[i] = packets[i]
  BY <1>3, AppendProperties, LenProperties DEF Packets
<1>5. /\ Follows(Waiting(more, n, k), Waiting(packets, n, k), RxFifos(Len(packets) + 1, shape))
      /\ k \in 1 .. ReadsOf(more, n) + 1
  BY <1>2, WaitingGrows
<1>6. v.fifos = Waiting(more, n, k)
  BY <1>2, <1>5 DEF Follows
<1>7. FullUpTo(more, n, k) = FullUpTo(packets, n, k)
  <2>1. CASE n \in 1 .. L
    <3>1. more[n] = packets[n]
      BY <2>1, <1>4
    <3> QED BY <3>1 DEF FullUpTo, FilledFifo, ReadUnits
  <2>2. CASE n \notin 1 .. L
    <3>1. ReadsOf(packets, n) = 0
      BY <2>2, <1>3 DEF ReadsOf
    <3>2. k = 1
      BY <3>1, <1>2
    <3>3. FullUpTo(more, n, 1) = {} /\ FullUpTo(packets, n, 1) = {}
      <4>1. 1 \in Nat \ {0}
        OBVIOUS
      <4> QED BY <4>1, OneMoreFull
    <3> QED BY <3>2, <3>3
  <2> QED BY <2>1, <2>2
<1>8. Stands(more, n, to, k, v)
  BY <1>2, <1>5, <1>6, <1>7 DEF Stands
<1>9. Cut(us, v.head, v.data, left) /\ Run(packets, At(n, k), us, At(answered + 1, 1))
  BY <1>1 DEF Comes, Place
<1>10. Run(more, At(n, k), us, At(answered + 1, 1))
  BY <1>3, <1>4, <1>9, RunMore
<1>11. Comes(more, n, to, answered, k, us, v, left)
  BY <1>9, <1>10 DEF Comes, Place
<1>12. answered <= Len(more) /\ HeaderSound(v)
  <2>1. answered <= L /\ HeaderSound(r)
    BY <1>3 DEF Expects
  <2>2. HeaderSound(v)
    BY <2>1 DEF HeaderSound
  <2>3. answered <= L + 1
    BY <2>1, <1>4
  <2> QED BY <2>2, <2>3, <1>4
<1> QED BY <1>8, <1>11, <1>12 DEF Expects

\* The server answers one more packet.
LEMMA ExpectsAnswer ==
    ASSUME NEW packets \in Packets, NEW n, NEW pc, NEW answered \in Nat, NEW r, NEW left,
           Expects(packets, n, pc, answered, r, left), answered < Len(packets),
           NEW answer, Answers(packets, answered + 1, answer)
    PROVE  Expects(packets, n, pc, answered + 1, r, left \o answer)
<1>1. PICK k, us : Stands(packets, n, pc, k, r) /\ Comes(packets, n, pc, answered, k, us, r, left)
  BY DEF Expects
<1>2. PICK vs : vs \in Seq(Units) /\ Run(packets, At(answered + 1, 1), vs, At((answered + 1) + 1, 1)) /\ answer = Chained(vs)
  BY DEF Answers
<1>3. us \in Seq(Units) /\ r.head \in Units /\ r.data \in Units /\ left \in Units /\ (r.head \o r.data) \o left = Chained(us)
      /\ Run(packets, Place(packets, n, pc, k), us, At(answered + 1, 1))
  BY <1>1 DEF Comes, Cut
<1>4. us \o vs \in Seq(Units)
  BY <1>2, <1>3, ConcatProperties
<1>5. Run(packets, Place(packets, n, pc, k), us \o vs, At((answered + 1) + 1, 1))
  BY <1>2, <1>3, RunConcat
<1>6. Chained(us \o vs) = Chained(us) \o Chained(vs)
  BY <1>2, <1>3, ChainedConcat DEF Units
<1>7. answer \in Units
  BY <1>2, ChainedTyped DEF Units
<1>8. PICK x, g : x = r.head \o r.data /\ g = left \o answer
  OBVIOUS
<1>9. x \in Units /\ g \in Units
  BY <1>3, <1>7, <1>8, UnitsJoined
<1>10. (x \o left) \o answer = x \o (left \o answer)
  BY ZenonT(30), <1>3, <1>7, <1>9, UnitsAssociate
<1>11. x \o g = Chained(us \o vs)
  BY <1>2, <1>3, <1>6, <1>8, <1>10
<1>12. Cut(us \o vs, r.head, r.data, g)
  BY <1>3, <1>4, <1>8, <1>9, <1>11 DEF Cut
<1>13. Comes(packets, n, pc, answered + 1, k, us \o vs, r, g)
  BY <1>5, <1>12 DEF Comes
<1>14. answered + 1 <= Len(packets) /\ HeaderSound(r)
  <2>1. Len(packets) \in Nat
    BY LenProperties DEF Packets
  <2> QED BY <2>1 DEF Expects
<1> QED BY <1>1, <1>8, <1>13, <1>14 DEF Expects

-----------------------------------------------------------------------------
(* The invariant.                                                          *)

\* What the client has of the answers and what is on its way to it, in the first
\* connection: the packets that are next for the place it has come to.
Received == Unbroken => Expects(op.packets, Oldest, op.pc, peer.answered, rx, peer.in \o peer.reply)

\* Nothing has been answered, and no packet sent.
LEMMA InitReceived == Init => Received
<1> SUFFICES ASSUME Init PROVE Received
  OBVIOUS
<1>1. op.packets = <<>> /\ op.pc = "idle" /\ Oldest = 1
  BY DEF Init, Oldest
<1>2. peer.answered = 0 /\ peer.in = <<>> /\ peer.reply = <<>>
  BY DEF Init, Connected
<1>3. rx.head = <<>> /\ rx.data = <<>> /\ rx.mux0 = FALSE /\ rx.fifos = <<>> /\ rx.full = {}
  BY DEF Init
<1>4. <<>> \in Packets /\ <<>> \in Seq(Units)
  BY Constants DEF Packets
<1>5. peer.in \o peer.reply = Chained(<<>>)
  <2>1. <<>> \o <<>> = <<>>
    OBVIOUS
  <2> QED BY <2>1, <1>2, ChainedEmpty
<1>6. ReadsOf(<<>>, 1) = 0
  <2>1. Len(<<>>) = 0 /\ 1 \notin 1 .. 0
    OBVIOUS
  <2> QED BY <2>1 DEF ReadsOf
<1>7. Stands(<<>>, 1, "idle", 1, rx)
  <2>1. 1 \in 1 .. 0 + 1 /\ Len(<<>>) = 0 /\ ~(1 < 0) /\ 1 \notin 1 .. 0 /\ <<>> \o <<>> = <<>>
    OBVIOUS
  <2>2. Later(<<>>, 1) = <<>> /\ RestOf(<<>>, 1, 1) = <<>>
    BY <2>1 DEF Later, RestOf
  <2>3. Waiting(<<>>, 1, 1) = <<>>
    BY <2>1, <2>2 DEF Waiting
  <2>4. FullUpTo(<<>>, 1, 1) = {}
    BY OneMoreFull
  <2> QED BY <2>1, <2>3, <2>4, <1>3, <1>6 DEF Stands
<1>8. Run(<<>>, Place(<<>>, 1, "idle", 1), <<>>, At(0 + 1, 1))
  <2>1. Place(<<>>, 1, "idle", 1) = At(0 + 1, 1)
    BY DEF Place
  <2> QED BY <2>1, RunNone
<1>9. 0 <= Len(<<>>)
  OBVIOUS
<1>10. Expects(<<>>, 1, "idle", 0, rx, peer.in \o peer.reply)
  BY <1>3, <1>4, <1>5, <1>7, <1>8, <1>9, ComesNext DEF Emptied
<1> QED BY <1>1, <1>2, <1>10 DEF Received

\* What the client has of the wire.
Coming == peer.in \o peer.reply

\* In the first connection there is an oldest packet to receive for, while receiving.
LEMMA ReceivedNow ==
    ASSUME Inv, Received, Unbroken
    PROVE  /\ Expects(op.packets, Oldest, op.pc, peer.answered, rx, Coming)
           /\ op.packets \in Packets /\ Oldest \in 1 .. Len(op.packets) + 1 /\ peer.answered \in Nat
           /\ op.pc \in {"drain", "answer", "poll"} => Oldest \in 1 .. Len(op.packets)
           /\ rx \in Receivers /\ peer \in Peers /\ peer.in \in Units /\ peer.reply \in Units
<1>1. Expects(op.packets, Oldest, op.pc, peer.answered, rx, Coming)
  BY DEF Received, Coming
<1>2. op.packets \in Packets /\ op.sent \in Nat /\ op.done \in Nat /\ Len(op.packets) \in Nat
  BY OpTyped DEF Inv
<1>3. op.done <= op.sent /\ op.sent <= Len(op.packets)
      /\ (op.pc \in {"drain", "answer", "poll"} => op.sent < Len(op.packets) \/ op.done < op.sent)
  BY DEF Inv, OpSound
<1>4. Oldest \in 1 .. Len(op.packets) + 1 /\ (op.pc \in {"drain", "answer", "poll"} => Oldest \in 1 .. Len(op.packets))
  <2>1. PICK L, S, D : L = Len(op.packets) /\ S = op.sent /\ D = op.done
    OBVIOUS
  <2>2. L \in Nat /\ S \in Nat /\ D \in Nat /\ D <= S /\ S <= L
    BY <2>1, <1>2, <1>3
  <2>3. D + 1 \in 1 .. L + 1 /\ (S < L \/ D < S => D + 1 \in 1 .. L)
    BY <2>2
  <2> QED BY <2>1, <2>3, <1>3 DEF Oldest
<1>5. peer.answered \in Nat /\ peer \in Peers /\ peer.in \in Units /\ peer.reply \in Units
  BY PeerFields DEF Inv, Units
<1>6. rx \in Receivers
  BY DEF Inv, RxSound
<1> QED BY <1>1, <1>2, <1>4, <1>5, <1>6

\* The call goes on, and nothing is received.
LEMMA ReceivedKept ==
    ASSUME Inv, Received, op'.packets = op.packets, op'.done = op.done, op'.connection = op.connection,
           op.pc \notin {"poll", "down"}, op'.pc # "poll", rx' = rx,
           peer'.in = peer.in, peer'.reply = peer.reply, peer'.answered = peer.answered
    PROVE  Received'
<1> SUFFICES ASSUME Unbroken' PROVE Expects(op.packets, Oldest, op'.pc, peer.answered, rx, Coming)
  BY DEF Received, Coming, Oldest
<1>1. Unbroken
  BY DEF Unbroken
<1>2. Expects(op.packets, Oldest, op.pc, peer.answered, rx, Coming)
  BY <1>1, ReceivedNow
<1>3. HeaderSound(rx)
  BY <1>2 DEF Expects
<1> QED BY <1>2, <1>3, ExpectsOn

\* send adds FIFOs at the end, behind those that are waited for.
LEMMA SendReceives == ASSUME Inv, Received, NEW shape \in Shapes, Send(shape) PROVE Received'
<1> SUFFICES ASSUME Unbroken' PROVE Received'
  BY DEF Received
<1>0. op \in Ops /\ op.pc = "idle" /\ UNCHANGED peer /\ rx \in Receivers
  BY DEF Send, Inv, OpSound, RxSound
<1>1. op' = [op EXCEPT !.pc = "fill", !.packets = Append(@, shape)]
  BY DEF Send
<1>2. PICK more : more = Append(op.packets, shape)
  OBVIOUS
<1>3. op' = [op EXCEPT !.pc = "fill", !.packets = more]
  BY <1>1, <1>2
<1>4. op'.pc = "fill" /\ op'.packets = more /\ op'.done = op.done /\ op'.connection = op.connection
  BY <1>0, <1>3 DEF Ops
<1>5. Unbroken
  BY <1>0, <1>4 DEF Unbroken
<1>6. PICK fs : fs = rx.fifos \o RxFifos(Len(op.packets) + 1, shape)
  OBVIOUS
<1>7. rx' = [rx EXCEPT !.fifos = fs]
  BY <1>6 DEF Send
<1>8. rx'.head = rx.head /\ rx'.data = rx.data /\ rx'.mux0 = rx.mux0 /\ rx'.full = rx.full /\ rx'.fifos = fs
  BY <1>0, <1>7 DEF Receivers
<1>9. more \in Packets
  <2>1. Inv'
    BY SendKeeps
  <2>2. op'.packets \in Packets
    BY <2>1 DEF Inv, OpSound, Ops
  <2> QED BY <2>2, <1>4
<1>10. /\ Expects(op.packets, Oldest, op.pc, peer.answered, rx, Coming)
       /\ op.packets \in Packets /\ Oldest \in 1 .. Len(op.packets) + 1 /\ peer.answered \in Nat
  BY <1>5, ReceivedNow
<1>11. PICK v : v = rx'
  OBVIOUS
<1>12. Expects(more, Oldest, "fill", peer.answered, v, Coming)
  <2>1. op.pc # "poll" /\ "fill" # "poll"
    BY <1>0
  <2>2. v.head = rx.head /\ v.data = rx.data /\ v.mux0 = rx.mux0 /\ v.full = rx.full
        /\ v.fifos = rx.fifos \o RxFifos(Len(op.packets) + 1, shape)
    BY <1>6, <1>8, <1>11
  <2> QED BY <2>1, <2>2, <1>2, <1>9, <1>10, ExpectsMore
<1> QED BY <1>0, <1>4, <1>11, <1>12 DEF Received, Coming, Oldest

\* The server answers, and writes.
LEMMA PeerReceives == ASSUME Inv, Received, Peer PROVE Received'
<1> SUFFICES ASSUME Unbroken' PROVE Received'
  BY DEF Received
<1>1. UNCHANGED <<tx, rx, op>>
  BY ZenonT(30) DEF Peer, PeerRead, PeerAnswer, PeerWrite
<1>2. Unbroken
  BY <1>1 DEF Unbroken
<1>3. /\ Expects(op.packets, Oldest, op.pc, peer.answered, rx, Coming)
      /\ op.packets \in Packets /\ peer.answered \in Nat /\ peer \in Peers /\ peer.in \in Units /\ peer.reply \in Units
  BY <1>2, ReceivedNow
<1>4. CASE PeerRead
  <2>1. peer'.in = peer.in /\ peer'.reply = peer.reply /\ peer'.answered = peer.answered
    BY <1>3, <1>4 DEF PeerRead, Peers
  <2> QED BY <2>1, <1>1, <1>3 DEF Received, Coming, Oldest
<1>5. CASE PeerAnswer
  <2>1. PICK n : n = peer.answered + 1
    OBVIOUS
  <2>2. PICK answer \in {Reads(n) \o Response(n, 1), Response(n, 2)}
                         \cup (IF peer.patient THEN {} ELSE {Response(n, 1) \o Reads(n)}) :
            peer' = [peer EXCEPT !.answered = n, !.reply = @ \o answer]
    BY ZenonT(30), <2>1, <1>5 DEF PeerAnswer
  <2>3. answer = Reads(n) \o Response(n, 1) \/ answer = Response(n, 2) \/ answer = Response(n, 1) \o Reads(n)
    BY <2>2
  <2>4. peer.answered < Len(op.packets)
    BY <1>5 DEF PeerAnswer
  <2>5. n \in 1 .. Len(op.packets)
    <3>1. Len(op.packets) \in Nat
      BY <1>3, LenProperties DEF Packets
    <3> QED BY <3>1, <2>1, <2>4, <1>3
  <2>6. Answers(op.packets, n, answer)
    BY <2>3, <2>5, <1>3, AnswerRuns
  <2>7. PICK u : u = peer.reply \o answer
    OBVIOUS
  <2>8. peer' = [peer EXCEPT !.answered = n, !.reply = u]
    BY <2>2, <2>7
  <2>9. peer'.answered = n /\ peer'.in = peer.in /\ peer'.reply = u
    BY <2>8, <1>3 DEF Peers
  <2>10. Expects(op.packets, Oldest, op.pc, n, rx, Coming \o answer)
    <3>1. Answers(op.packets, peer.answered + 1, answer)
      BY <2>1, <2>6
    <3> QED BY <3>1, <2>1, <2>4, <1>3, ExpectsAnswer
  <2>11. Coming \o answer = peer.in \o u
    <3>1. answer \in Units
      <4>1. PICK vs \in Seq(Units) : answer = Chained(vs)
        BY <2>6 DEF Answers
      <4> QED BY <4>1, ChainedTyped DEF Units
    <3>2. (peer.in \o peer.reply) \o answer = peer.in \o (peer.reply \o answer)
      BY <3>1, <1>3, UnitsAssociate
    <3> QED BY <3>2, <2>7 DEF Coming
  <2> QED BY <2>9, <2>10, <2>11, <1>1 DEF Received, Oldest
<1>6. CASE PeerWrite
  <2>1. PICK a, b, x, c : a = peer.in /\ b = peer.reply /\ x = peer.reply[1] /\ c = SubSeq(peer.reply, 2, Len(peer.reply))
    OBVIOUS
  <2>2. peer' = [peer EXCEPT !.in = Append(a, x), !.reply = c] /\ b # <<>>
    BY <2>1, <1>6 DEF PeerWrite
  <2>3. a \in Seq(Unit) /\ b \in Seq(Unit) /\ Len(b) \in Nat \ {0}
    BY <2>1, <2>2, <1>3, LenProperties, EmptySeq DEF Units
  <2>4. Append(a, x) \o c = a \o b
    <3>1. x = Head(b) /\ c = Tail(b)
      <4>1. b[1] = Head(b) /\ SubSeq(b, 2, Len(b)) = Tail(b)
        BY <2>2, <2>3, HeadTailProperties, TailIsSubSeq
      <4> QED BY <4>1, <2>1
    <3> QED BY <3>1, <2>2, <2>3, EntryMoves
  <2>5. PICK d : d = Append(a, x)
    OBVIOUS
  <2>6. peer' = [peer EXCEPT !.in = d, !.reply = c]
    BY <2>2, <2>5
  <2>7. peer'.in = d /\ peer'.reply = c /\ peer'.answered = peer.answered
    BY <2>6, <1>3 DEF Peers
  <2>8. peer'.in \o peer'.reply = Coming
    BY <2>1, <2>4, <2>5, <2>7 DEF Coming
  <2> QED BY <2>7, <2>8, <1>1, <1>3 DEF Received, Oldest
<1> QED BY <1>4, <1>5, <1>6 DEF Peer

\* What Delivered, Responded and Forgotten leave.
LEMMA DeliveredIs ==
    ASSUME NEW r \in Receivers, r.fifos = rx.fifos, r.full = rx.full, NEW f, FirstFilled(rx, r, f)
    PROVE  /\ Delivered(r).fifos = SubSeq(rx.fifos, 2, Len(rx.fifos)) /\ Delivered(r).full = rx.full \cup {f}
<1>1. PICK fs, g : fs = SubSeq(r.fifos, 2, Len(r.fifos)) /\ g = r.full \cup {f}
  OBVIOUS
<1>2. /\ rx.fifos # <<>> /\ rx.fifos[1].id # None /\ rx.head[1].mux = 4
      /\ f = [rx.fifos[1] EXCEPT !.got = @ \o r.data] /\ Len(f.got) = f.len
  BY DEF FirstFilled
<1>3. Receiver # None
  <2>1. Mux >= 4
    BY <1>2 DEF Mux
  <2> QED BY <2>1, <1>2 DEF Receiver
<1>4. Len(f.got) >= f.len
  <2>1. r.fifos[1] \in RxFifo
    BY <1>2, RxFields
  <2>2. f.len \in Nat
    BY <2>1, <1>2 DEF RxFifo
  <2>3. PICK a, b : a = Len(f.got) /\ b = f.len
    OBVIOUS
  <2>4. a = b /\ b \in Nat
    BY <2>2, <2>3, <1>2
  <2>5. a >= b
    BY <2>4
  <2> QED BY <2>3, <2>5
<1>5. PICK a : a = [r EXCEPT !.fifos = fs, !.full = g]
  OBVIOUS
<1>6. a = [head |-> r.head, data |-> r.data, to |-> r.to, mux0 |-> r.mux0, fifos |-> fs, full |-> g]
  BY <1>5 DEF Receivers
<1>7. Delivered(r) = Ended(a)
  <2>1. f = [r.fifos[1] EXCEPT !.got = @ \o r.data]
    BY <1>2
  <2>2. a = [r EXCEPT !.fifos = SubSeq(@, 2, Len(@)), !.full = @ \cup {f}]
    BY <1>1, <1>5
  <2> QED BY <2>1, <2>2, <1>3, <1>4 DEF Delivered
<1>8. Ended(a).fifos = fs /\ Ended(a).full = g
  BY <1>6 DEF Ended
<1> QED BY <1>1, <1>7, <1>8

\* and does not say that a response is there;
LEMMA DeliveredMux0 ==
    ASSUME NEW r \in Receivers, r.fifos = rx.fifos, rx \in Receivers, NEW f, FirstFilled(rx, r, f)
    PROVE  Delivered(r).mux0 = r.mux0
<1>1. PICK fs, g, hs : /\ fs = SubSeq(r.fifos, 2, Len(r.fifos)) /\ g = r.full \cup {f}
                       /\ hs = [r.fifos EXCEPT ![1] = f]
  OBVIOUS
<1>2. PICK a, b : a = [r EXCEPT !.fifos = fs, !.full = g] /\ b = [r EXCEPT !.fifos = hs]
  OBVIOUS
<1>3. /\ a = [head |-> r.head, data |-> r.data, to |-> r.to, mux0 |-> r.mux0, fifos |-> fs, full |-> g]
      /\ b = [head |-> r.head, data |-> r.data, to |-> r.to, mux0 |-> r.mux0, fifos |-> hs, full |-> r.full]
  BY <1>2 DEF Receivers
<1>4. Delivered(r) \in {Ended(r), Ended(a), Ended(b)}
  <2>1. f = [r.fifos[1] EXCEPT !.got = @ \o r.data]
    BY DEF FirstFilled
  <2>2. a = [r EXCEPT !.fifos = SubSeq(@, 2, Len(@)), !.full = @ \cup {f}]
    BY <1>1, <1>2
  <2>3. b = [r EXCEPT !.fifos[1] = f]
    BY <1>1, <1>2
  <2> QED BY <2>1, <2>2, <2>3 DEF Delivered
<1>5. Ended(a).mux0 = r.mux0 /\ Ended(b).mux0 = r.mux0
  BY <1>3 DEF Ended
<1> QED BY <1>4, <1>5, EndedTyped

\* the response is gone when it has been read, and so are its packet's FIFOs.
LEMMA ForgottenIs ==
    ASSUME NEW r \in Receivers
    PROVE  /\ Responded(r).mux0 = FALSE
           /\ Forgotten(r).mux0 = r.mux0 /\ Forgets(r, Forgotten(r), Oldest)
<1>1. Responded(r).mux0 = FALSE
  <2>1. Ended(r) \in Receivers
    BY EndedTyped DEF IsEnded
  <2> QED BY <2>1 DEF Responded, Receivers
<1>2. PICK S : S = {f \in Range(r.fifos) : f.id[1] # Oldest}
  OBVIOUS
<1>3. PICK fs, g : fs = Filtered(r.fifos, S) /\ g = {f \in r.full : f.id[1] # Oldest}
  OBVIOUS
<1>4. Forgotten(r) = [r EXCEPT !.fifos = fs, !.full = g]
  BY <1>2, <1>3 DEF Forgotten, OfPacket
<1>5. Forgotten(r) = [head |-> r.head, data |-> r.data, to |-> r.to, mux0 |-> r.mux0, fifos |-> fs, full |-> g]
  BY <1>4 DEF Receivers
<1>6. Forgotten(r).mux0 = r.mux0 /\ Forgotten(r).fifos = fs /\ Forgotten(r).full = g
  BY <1>5
<1> QED BY <1>1, <1>2, <1>3, <1>6 DEF Forgets

\* recv has read n units.
LEMMA WireRead ==
    ASSUME peer \in Peers, NEW n, peer' = [peer EXCEPT !.in = SubSeq(@, n + 1, Len(@))]
    PROVE  peer'.in = Dropped(peer.in, n) /\ peer'.reply = peer.reply /\ peer'.answered = peer.answered
<1>1. PICK u : u = Dropped(peer.in, n)
  OBVIOUS
<1>2. peer' = [peer EXCEPT !.in = u]
  BY <1>1 DEF Dropped
<1> QED BY <1>1, <1>2 DEF Peers

\* Some of a header: what is left to come is less, by as much.
LEMMA HeaderReceives == ASSUME Inv, Received, RecvHeader PROVE Received'
<1> SUFFICES ASSUME Unbroken' PROVE Received'
  BY DEF Received
<1>1. PICK n \in 1 .. Min({2 - Len(rx.head), Len(peer.in)}) :
         /\ rx' = [rx EXCEPT !.head = @ \o SubSeq(peer.in, 1, n)]
         /\ peer' = [peer EXCEPT !.in = SubSeq(@, n + 1, Len(@))]
  BY DEF RecvHeader
<1>2. Receiving /\ Len(rx.head) # 2 /\ UNCHANGED <<tx, op>> /\ op.pc \in {"drain", "answer", "poll"}
  BY DEF RecvHeader, HeaderRead, Receiving
<1>3. Unbroken
  BY <1>2 DEF Unbroken
<1>4. /\ Expects(op.packets, Oldest, op.pc, peer.answered, rx, Coming)
      /\ op.packets \in Packets /\ peer.answered \in Nat /\ Oldest \in 1 .. Len(op.packets)
      /\ rx \in Receivers /\ peer \in Peers /\ peer.in \in Units /\ peer.reply \in Units
  BY <1>2, <1>3, ReceivedNow
<1>5. rx.data = <<>> /\ Len(rx.head) \in Nat /\ Len(rx.head) <= 2
  BY <1>2, <1>4, RxFields DEF Inv, RxSound
<1>6. n \in Nat /\ n <= Len(peer.in)
  <2>1. Len(peer.in) \in Nat
    BY <1>4, LenProperties DEF Units
  <2>2. 2 - Len(rx.head) \in Nat
    BY <1>5
  <2>3. Min({2 - Len(rx.head), Len(peer.in)}) = IF 2 - Len(rx.head) <= Len(peer.in) THEN 2 - Len(rx.head) ELSE Len(peer.in)
    BY <2>1, <2>2, MinOfTwo
  <2>4. PICK L, I, m : L = 2 - Len(rx.head) /\ I = Len(peer.in) /\ m = Min({2 - Len(rx.head), Len(peer.in)})
    OBVIOUS
  <2>5. L \in Nat /\ I \in Nat /\ m = (IF L <= I THEN L ELSE I) /\ n \in 1 .. m
    BY <2>1, <2>2, <2>3, <2>4
  <2>6. n \in Nat /\ n <= I
    BY <2>5
  <2> QED BY <2>4, <2>6
<1>7. PICK h : h = rx.head \o SubSeq(peer.in, 1, n)
  OBVIOUS
<1>8. rx' = [rx EXCEPT !.head = h]
  BY <1>1, <1>7
<1>9. PICK q : q = rx'
  OBVIOUS
<1>10. q.head = h /\ q.data = <<>> /\ q.fifos = rx.fifos /\ q.full = rx.full /\ q.mux0 = rx.mux0
  BY <1>4, <1>5, <1>8, <1>9 DEF Receivers
<1>11. ReadOn(rx, q, peer.in, n)
  BY <1>5, <1>6, <1>7, <1>10 DEF ReadOn
<1>12. op.pc = "poll" => ~Complete(op.packets, Oldest, rx.full)
  BY <1>2 DEF Receiving, HasData, Complete
<1>13. Expects(op.packets, Oldest, op.pc, peer.answered, q, Dropped(peer.in, n) \o peer.reply)
  <2>1. Expects(op.packets, Oldest, op.pc, peer.answered, rx, peer.in \o peer.reply)
    BY <1>4 DEF Coming
  <2> QED BY <2>1, <1>2, <1>4, <1>10, <1>11, <1>12, ExpectsRead
<1>14. peer'.in = Dropped(peer.in, n) /\ peer'.reply = peer.reply /\ peer'.answered = peer.answered
  BY <1>1, <1>4, WireRead
<1> QED BY <1>2, <1>9, <1>13, <1>14 DEF Received, Oldest

\* A response that is left where it is comes next.
LEMMA DrainReceives == ASSUME Inv, Received, EndDrain PROVE Received'
<1> SUFFICES ASSUME Unbroken' PROVE Received'
  BY DEF Received
<1>1. op.pc = "drain" /\ op' = [op EXCEPT !.pc = "space"] /\ UNCHANGED peer /\ op \in Ops
  BY DEF EndDrain, Goto, Inv, OpSound
<1>2. op'.pc = "space" /\ op'.packets = op.packets /\ op'.done = op.done /\ op'.connection = op.connection
  BY <1>1 DEF Ops
<1>3. Unbroken
  BY <1>1, <1>2 DEF Unbroken
<1>4. Expects(op.packets, Oldest, op.pc, peer.answered, rx, Coming) /\ rx \in Receivers
  BY <1>3, ReceivedNow
<1>5. HeaderSound(rx)
  BY <1>4 DEF Expects
<1>6. PICK q : q = rx'
  OBVIOUS
<1>7. q.head = rx.head /\ q.data = rx.data /\ q.fifos = rx.fifos /\ q.full = rx.full /\ HeaderSound(q)
  <2>1. CASE HeldBack /\ rx' = [rx EXCEPT !.mux0 = TRUE]
    <3>1. q.head = rx.head /\ q.data = rx.data /\ q.fifos = rx.fifos /\ q.full = rx.full
      BY <2>1, <1>4, <1>6 DEF Receivers
    <3>2. Len(q.head) = 2 /\ q.head[1].mux = 0
      BY <3>1, <2>1 DEF HeldBack, HeaderRead, Mux
    <3> QED BY <3>1, <3>2, <1>5 DEF HeaderSound
  <2>2. CASE UNCHANGED rx
    BY <2>2, <1>5, <1>6
  <2> QED BY <2>1, <2>2 DEF EndDrain
<1>8. Expects(op.packets, Oldest, "space", peer.answered, q, Coming)
  <2>1. op.pc # "poll" /\ "space" # "poll"
    BY <1>1
  <2> QED BY <2>1, <1>4, <1>7, ExpectsOn
<1> QED BY <1>1, <1>2, <1>6, <1>8 DEF Received, Coming, Oldest

\* poll_fifo ends when the last FIFO of the packet has its data.
LEMMA PollReceives == ASSUME Inv, Received, EndPoll PROVE Received'
<1> SUFFICES ASSUME Unbroken' PROVE Received'
  BY DEF Received
<1>1. /\ op.pc = "poll" /\ op' = [op EXCEPT !.pc = "idle", !.done = @ + 1] /\ UNCHANGED peer /\ op \in Ops
      /\ HasData(rx) /\ rx' = Forgotten(rx)
  BY DEF EndPoll, Finish, Inv, OpSound
<1>2. op'.pc = "idle" /\ op'.packets = op.packets /\ op'.done = op.done + 1 /\ op'.connection = op.connection
  BY <1>1 DEF Ops
<1>3. Unbroken
  BY <1>1, <1>2 DEF Unbroken
<1>4. /\ Expects(op.packets, Oldest, op.pc, peer.answered, rx, Coming) /\ op.packets \in Packets
      /\ Oldest \in 1 .. Len(op.packets) /\ rx \in Receivers
  BY <1>1, <1>3, ReceivedNow
<1>5. PICK q : q = rx'
  OBVIOUS
<1>6. q.head = rx.head /\ q.data = rx.data /\ q.mux0 = rx.mux0 /\ Forgets(rx, q, Oldest)
  BY <1>1, <1>4, <1>5, ForgottenTyped, ForgottenIs
<1>7. Complete(op.packets, Oldest, rx.full)
  BY <1>1 DEF HasData, Complete
<1>8. Expects(op.packets, Oldest + 1, "idle", peer.answered, q, Coming)
  BY <1>1, <1>4, <1>6, <1>7, PollEnds
<1>9. Oldest' = Oldest + 1
  BY <1>2 DEF Oldest
<1> QED BY <1>1, <1>2, <1>5, <1>8, <1>9 DEF Received, Coming

\* Some of a packet, the data of a FIFO, or the response to the oldest packet.
LEMMA DataReceives == ASSUME Inv, Received, RecvData PROVE Received'
<1> SUFFICES ASSUME Unbroken' PROVE Received'
  BY DEF Received
<1> DEFINE ReadN(n) == [rx EXCEPT !.data = @ \o SubSeq(peer.in, 1, n), !.to = IF rx.data = <<>> THEN Receiver ELSE @]
           OverN(r) == ~(r.data[1].at = 1) \/ HasData(r)
<1>1. PICK n \in 1 .. Min({Expect - Len(rx.data), Len(peer.in)}) :
         /\ peer' = [peer EXCEPT !.in = SubSeq(@, n + 1, Len(@))]
         /\ \/ Len(ReadN(n).data) < Expect /\ rx' = ReadN(n) /\ UNCHANGED op
            \/ /\ Len(ReadN(n).data) = Expect /\ Mux # 0
               /\ rx' = Delivered(ReadN(n))
               /\ IF op.pc = "drain" THEN Goto("space") ELSE UNCHANGED op
            \/ /\ Len(ReadN(n).data) = Expect /\ Mux = 0
               /\ rx' = IF OverN(ReadN(n)) THEN Forgotten(Responded(ReadN(n))) ELSE Responded(ReadN(n))
               /\ IF OverN(ReadN(n)) THEN Finish ELSE Goto("poll")
  BY ZenonT(30) DEF RecvData
<1>2. Receiving /\ Len(rx.head) = 2 /\ ~HeldBack /\ op.pc \in {"drain", "answer", "poll"} /\ op \in Ops
  BY DEF RecvData, Receiving, HeaderRead, Inv, OpSound
<1>3. op'.connection = op.connection /\ op'.packets = op.packets
  <2>1. UNCHANGED op \/ Finish \/ \E p \in {"space", "poll"} : Goto(p)
    BY DEF RecvData
  <2>2. CASE \E p \in {"space", "poll"} : Goto(p)
    BY <2>2, <1>2 DEF Goto, Ops
  <2>3. CASE Finish
    BY <2>3, <1>2 DEF Finish, Ops
  <2> QED BY <2>1, <2>2, <2>3
<1>4. Unbroken
  BY <1>2, <1>3 DEF Unbroken
<1>5. /\ Expects(op.packets, Oldest, op.pc, peer.answered, rx, Coming)
      /\ op.packets \in Packets /\ peer.answered \in Nat /\ Oldest \in 1 .. Len(op.packets)
      /\ rx \in Receivers /\ peer \in Peers /\ peer.in \in Units /\ peer.reply \in Units
  BY <1>2, <1>4, ReceivedNow
<1>6. Len(rx.data) < Expect /\ (rx.mux0 => Mux = 0)
  <2>1. HeaderSound(rx)
    BY <1>5 DEF Expects
  <2> QED BY <2>1, <1>2 DEF HeaderSound, Expect, Mux
<1>7. n \in Nat /\ n <= Len(peer.in)
  <2>1. Len(peer.in) \in Nat /\ Len(rx.data) \in Nat
    BY <1>5, LenProperties, RxFields DEF Units
  <2>2. Expect \in Nat
    <3>1. rx.head \in Seq(Unit) /\ 1 \in 1 .. Len(rx.head)
      BY <1>2, <1>5, RxFields
    <3>2. rx.head[1] \in Unit
      BY <3>1, ElementOfSeq
    <3>3. rx.head[1].len \in 0 .. PacketMax
      BY <3>2 DEF Unit
    <3> QED BY <3>3, Constants DEF Expect
  <2>3. Expect - Len(rx.data) \in Nat
    BY <2>1, <2>2, <1>6
  <2>4. Min({Expect - Len(rx.data), Len(peer.in)}) = IF Expect - Len(rx.data) <= Len(peer.in) THEN Expect - Len(rx.data) ELSE Len(peer.in)
    BY <2>1, <2>3, MinOfTwo
  <2>5. PICK L, I, m : L = Expect - Len(rx.data) /\ I = Len(peer.in) /\ m = Min({Expect - Len(rx.data), Len(peer.in)})
    OBVIOUS
  <2>6. L \in Nat /\ I \in Nat /\ m = (IF L <= I THEN L ELSE I) /\ n \in 1 .. m
    BY <2>1, <2>3, <2>4, <2>5
  <2>7. n \in Nat /\ n <= I
    BY <2>6
  <2> QED BY <2>5, <2>7
<1>8. PICK d, to : d = rx.data \o SubSeq(peer.in, 1, n) /\ to = IF rx.data = <<>> THEN Receiver ELSE rx.to
  OBVIOUS
<1>9. PICK r : r = ReadN(n)
  OBVIOUS
<1>10. r = [rx EXCEPT !.data = d, !.to = to]
  BY <1>8, <1>9
<1>11. \/ Len(r.data) < Expect /\ rx' = r /\ UNCHANGED op
       \/ /\ Len(r.data) = Expect /\ Mux # 0 /\ rx' = Delivered(r)
          /\ IF op.pc = "drain" THEN Goto("space") ELSE UNCHANGED op
       \/ /\ Len(r.data) = Expect /\ Mux = 0
          /\ rx' = IF OverN(r) THEN Forgotten(Responded(r)) ELSE Responded(r)
          /\ IF OverN(r) THEN Finish ELSE Goto("poll")
  <2> HIDE DEF ReadN, OverN
  <2> QED BY <1>1, <1>9
<1> HIDE DEF ReadN, OverN
<1>12. r.head = rx.head /\ r.data = d /\ r.to = to /\ r.fifos = rx.fifos /\ r.full = rx.full /\ r.mux0 = rx.mux0
  BY <1>5, <1>10 DEF Receivers
<1>13. ReadOn(rx, r, peer.in, n)
  BY <1>7, <1>8, <1>12 DEF ReadOn
<1>14. op.pc = "poll" => ~Complete(op.packets, Oldest, rx.full)
  BY <1>2 DEF Receiving, HasData, Complete
<1>15. peer'.in = Dropped(peer.in, n) /\ peer'.reply = peer.reply /\ peer'.answered = peer.answered
  BY <1>1, <1>5, WireRead
<1>16. PICK left, v : left = Dropped(peer.in, n) \o peer.reply /\ v = rx'
  OBVIOUS
<1>17. peer'.in \o peer'.reply = left
  BY <1>15, <1>16
<1>18. Expects(op.packets, Oldest, op.pc, peer.answered, rx, peer.in \o peer.reply)
  BY <1>5 DEF Coming
<1>19. CASE Len(r.data) < Expect /\ rx' = r /\ UNCHANGED op
  <2>1. r.head = rx.head /\ Len(r.data) < rx.head[1].len
    BY <1>12, <1>19 DEF Expect
  <2>2. Expects(op.packets, Oldest, op.pc, peer.answered, r, left)
    BY <2>1, <1>5, <1>13, <1>14, <1>16, <1>18, ExpectsRead
  <2> QED BY <2>2, <1>15, <1>17, <1>19 DEF Received, Oldest
<1>20. d \in Seq(Unit) /\ to \in Ids /\ r \in Receivers
  <2>1. d \in Seq(Unit)
    <3>1. PICK a, b : a = rx.data /\ b = SubSeq(peer.in, 1, n)
      OBVIOUS
    <3>2. a \in Seq(Unit) /\ b \in Seq(Unit)
      BY <3>1, <1>5, <1>7, RxFields, FirstUnits DEF Units
    <3>3. a \o b \in Seq(Unit)
      BY <3>2, ConcatProperties
    <3> QED BY <3>1, <3>3, <1>8
  <2>2. to \in Ids
    <3>1. Receiver \in Ids
      <4>1. CASE Mux >= 4 /\ rx.fifos # <<>>
        <5>1. rx.fifos[1] \in RxFifo
          BY <4>1, <1>5, RxFields
        <5> QED BY <5>1, <4>1 DEF Receiver, RxFifo
      <4>2. CASE ~(Mux >= 4 /\ rx.fifos # <<>>)
        BY <4>2, NoneTyped DEF Receiver
      <4> QED BY <4>1, <4>2
    <3>2. rx.to \in Ids
      BY <1>5, RxFields
    <3> QED BY <3>1, <3>2, <1>8
  <2>3. r \in Receivers
    BY <2>1, <2>2, <1>5, <1>10 DEF Receivers
  <2> QED BY <2>1, <2>2, <2>3
<1>21. CASE /\ Len(r.data) = Expect /\ Mux # 0 /\ rx' = Delivered(r)
            /\ IF op.pc = "drain" THEN Goto("space") ELSE UNCHANGED op
  <2>1. v.head = <<>> /\ v.data = <<>>
    <3>1. IsEnded(Delivered(r))
      BY <1>12, <1>20, DeliveredTyped
    <3> QED BY <3>1, <1>16, <1>21 DEF IsEnded
  <2>2. PICK w : w = [head |-> <<>>, data |-> <<>>, mux0 |-> FALSE, fifos |-> v.fifos, full |-> v.full]
    OBVIOUS
  <2>3. Emptied(w) /\ w.fifos = v.fifos /\ w.full = v.full
    BY <2>2 DEF Emptied
  <2>4. Len(r.data) = rx.head[1].len /\ rx.head[1].mux # 0
    BY <1>21 DEF Expect, Mux
  <2>5. PICK f : /\ FirstFilled(rx, r, f)
                 /\ w.fifos = SubSeq(rx.fifos, 2, Len(rx.fifos)) /\ w.full = rx.full \cup {f} =>
                       Expects(op.packets, Oldest, op.pc, peer.answered, w, left)
    <3>1. PICK p, k, c, a, x, i, o : /\ p = op.packets /\ k = Oldest /\ c = op.pc /\ a = peer.answered /\ x = rx
                                     /\ i = peer.in /\ o = peer.reply
      OBVIOUS
    <3>2. p \in Packets /\ k \in 1 .. Len(p) /\ i \in Units /\ o \in Units
      BY <3>1, <1>5
    <3>3. Expects(p, k, c, a, x, i \o o) /\ (c = "poll" => ~Complete(p, k, x.full))
      BY <3>1, <1>14, <1>18
    <3>4. ReadOn(x, r, i, n) /\ r.head = x.head /\ Len(x.head) = 2 /\ Len(r.data) = x.head[1].len /\ x.head[1].mux # 0
      BY <3>1, <2>4, <1>2, <1>12, <1>13
    <3>5. Emptied(w)
      BY <2>3
    <3>6. \E f : /\ FirstFilled(x, r, f)
                 /\ w.fifos = SubSeq(x.fifos, 2, Len(x.fifos)) /\ w.full = x.full \cup {f} =>
                       Expects(p, k, c, a, w, Dropped(i, n) \o o)
      BY ONLY ZenonT(30), <3>2, <3>3, <3>4, <3>5, FifoComes
    <3> QED BY <3>1, <3>6, <1>16
  <2>6. v.fifos = SubSeq(rx.fifos, 2, Len(rx.fifos)) /\ v.full = rx.full \cup {f}
    BY <2>5, <1>12, <1>16, <1>20, <1>21, DeliveredIs
  <2>7. v.mux0 = FALSE
    <3>1. v.mux0 = rx.mux0
      BY <2>5, <1>5, <1>12, <1>16, <1>20, <1>21, DeliveredMux0
    <3>2. ~rx.mux0 /\ rx.mux0 \in BOOLEAN
      BY <1>5, <1>6, <1>21, RxFields
    <3> QED BY <3>1, <3>2
  <2>8. Expects(op.packets, Oldest, op.pc, peer.answered, w, left)
    BY <2>3, <2>5, <2>6
  <2>9. HeaderSound(v)
    <3>1. Len(v.head) = 0 /\ ~v.mux0
      BY <2>1, <2>7
    <3> QED BY <3>1 DEF HeaderSound
  <2>10. v.head = w.head /\ v.data = w.data /\ v.fifos = w.fifos /\ v.full = w.full /\ v.mux0 = w.mux0
    BY <2>1, <2>2, <2>7
  <2>11. CASE op.pc = "drain"
    <3>1. op'.pc = "space" /\ op'.done = op.done
      BY <2>11, <1>2, <1>21 DEF Goto, Ops
    <3>2. Expects(op.packets, Oldest, "space", peer.answered, v, left)
      <4>1. op.pc # "poll" /\ "space" # "poll"
        BY <2>11
      <4> QED BY <4>1, <2>8, <2>9, <2>10, ExpectsOn
    <3> QED BY <3>1, <3>2, <1>3, <1>15, <1>16, <1>17 DEF Received, Oldest
  <2>12. CASE op.pc # "drain"
    <3>1. UNCHANGED op
      BY <2>12, <1>21
    <3>2. Expects(op.packets, Oldest, op.pc, peer.answered, v, left)
      BY <2>8, <2>10 DEF Expects, HeaderSound, Stands, Comes
    <3> QED BY <3>1, <3>2, <1>15, <1>16, <1>17 DEF Received, Oldest
  <2> QED BY <2>11, <2>12
<1>22. CASE /\ Len(r.data) = Expect /\ Mux = 0
            /\ rx' = IF OverN(r) THEN Forgotten(Responded(r)) ELSE Responded(r)
            /\ IF OverN(r) THEN Finish ELSE Goto("poll")
  <2>1. op.pc = "answer"
    BY <1>2, <1>22 DEF HeldBack, HeaderRead
  <2>2. PICK e : e = Responded(r)
    OBVIOUS
  <2>3. e \in Receivers /\ e.head = <<>> /\ e.data = <<>> /\ e.fifos = rx.fifos /\ e.full = rx.full /\ e.mux0 = FALSE
    BY <2>2, <1>12, <1>20, EndedTyped, ForgottenIs DEF IsEnded
  <2>4. Len(r.data) = rx.head[1].len /\ rx.head[1].mux = 0
    BY <1>22 DEF Expect, Mux
  <2>5. HasData(r) <=> Complete(op.packets, Oldest, rx.full)
    BY <1>12 DEF HasData, Complete
  <2>6. OverN(r) <=> ~(r.data[1].at = 1) \/ Complete(op.packets, Oldest, rx.full)
    BY <2>5 DEF OverN
  <2>7. Expects(op.packets, Oldest, "answer", peer.answered, rx, peer.in \o peer.reply)
    BY <2>1, <1>18
  <2>8. CASE OverN(r)
    <3>1. v = Forgotten(e)
      BY <2>2, <2>8, <1>16, <1>22
    <3>2. Emptied(v)
      BY <3>1, <2>3, ForgottenTyped, ForgottenIs DEF Emptied
    <3>3. Forgets(rx, v, Oldest)
      <4>1. Forgets(e, v, Oldest)
        BY <3>1, <2>3, ForgottenIs
      <4> QED BY <4>1, <2>3 DEF Forgets
    <3>4. Expects(op.packets, Oldest + 1, "idle", peer.answered, v, left)
      BY <3>2, <3>3, <2>4, <2>6, <2>7, <2>8, <1>2, <1>5, <1>12, <1>13, <1>16, ResponseComes
    <3>5. op'.pc = "idle" /\ op'.done = op.done + 1
      BY <2>8, <1>2, <1>22 DEF Finish, Ops
    <3>6. Oldest' = Oldest + 1
      BY <3>5 DEF Oldest
    <3> QED BY <3>4, <3>5, <3>6, <1>3, <1>15, <1>16, <1>17 DEF Received
  <2>9. CASE ~OverN(r)
    <3>1. v = e
      BY <2>2, <2>9, <1>16, <1>22
    <3>2. Emptied(v) /\ v.fifos = rx.fifos /\ v.full = rx.full
      BY <3>1, <2>3 DEF Emptied
    <3>3. Expects(op.packets, Oldest, "poll", peer.answered, v, left)
      BY <3>2, <2>4, <2>6, <2>7, <2>9, <1>2, <1>5, <1>12, <1>13, <1>16, ResponseComes
    <3>4. op'.pc = "poll" /\ op'.done = op.done
      BY <2>9, <1>2, <1>22 DEF Goto, Ops
    <3> QED BY <3>3, <3>4, <1>3, <1>15, <1>16, <1>17 DEF Received, Oldest
  <2> QED BY <2>8, <2>9
<1> QED BY <1>11, <1>19, <1>21, <1>22

\* Every action keeps the client in step with the answers.
LEMMA NextReceived == Inv /\ Received /\ [Next]_vars => Received'
<1> SUFFICES ASSUME Inv, Received, [Next]_vars PROVE Received'
  OBVIOUS
<1>0. op \in Ops /\ peer \in Peers
  BY DEF Inv, OpSound, PeerSound
<1>1. ASSUME NEW shape \in Shapes, Send(shape) PROVE Received'
  BY <1>1, SendReceives
<1>2. ASSUME NEW p, Goto(p), p # "poll", op.pc \notin {"poll", "down"}, rx' = rx,
             peer'.in = peer.in, peer'.reply = peer.reply, peer'.answered = peer.answered
      PROVE  Received'
  <2>1. op'.packets = op.packets /\ op'.done = op.done /\ op'.connection = op.connection /\ op'.pc = p
    BY <1>0, <1>2 DEF Goto, Ops
  <2> QED BY <2>1, <1>2, ReceivedKept
<1>3. CASE ReceiveCmnd
  BY <1>2, <1>3 DEF ReceiveCmnd
<1>4. CASE Queue
  BY <1>4, ReceivedKept DEF Queue
<1>5. CASE Filled
  BY <1>2, <1>5 DEF Filled
<1>6. CASE Loaded
  <2>1. rx' = rx /\ peer' = peer /\ op.pc = "load"
    BY <1>6 DEF Loaded
  <2>2. CASE Goto("write")
    BY <2>1, <2>2, <1>2
  <2>3. CASE op' = [op EXCEPT !.pc = "idle", !.sent = @ + 1]
    <3>1. op'.packets = op.packets /\ op'.done = op.done /\ op'.connection = op.connection /\ op'.pc = "idle"
      BY <2>3, <1>0 DEF Ops
    <3> QED BY <2>1, <3>1, ReceivedKept
  <2> QED BY <2>2, <2>3, <1>6 DEF Loaded
<1>7. CASE Write
  <2>1. PICK n : /\ peer' = [peer EXCEPT !.heard = @ \o SubSeq(Queued, 1, n)]
                 /\ Goto(IF op.pc = "push" \/ n = Len(Queued) THEN "load" ELSE "space")
    BY <1>7 DEF Write
  <2>2. rx' = rx /\ op.pc \in {"push", "write"}
    BY <1>7 DEF Write
  <2>3. PICK u, p : u = peer.heard \o SubSeq(Queued, 1, n) /\ p = IF op.pc = "push" \/ n = Len(Queued) THEN "load" ELSE "space"
    OBVIOUS
  <2>4. peer' = [peer EXCEPT !.heard = u] /\ Goto(p) /\ p # "poll"
    BY <2>1, <2>3
  <2>5. peer'.in = peer.in /\ peer'.reply = peer.reply /\ peer'.answered = peer.answered
    BY <2>4, <1>0 DEF Peers
  <2> QED BY <2>2, <2>4, <2>5, <1>2
<1>8. CASE WaitForSpace
  BY <1>2, <1>8 DEF WaitForSpace
<1>9. CASE Close
  <2>1. op'.pc = "down"
    BY <1>0, <1>9 DEF Close, Ops
  <2> QED BY <2>1 DEF Received, Unbroken
<1>10. CASE Reconnect
  <2>1. op' = [op EXCEPT !.pc = "idle", !.connection = @ + 1]
    BY <1>10 DEF Reconnect
  <2>2. op'.connection = op.connection + 1 /\ op.connection \in Nat \ {0}
    BY <2>1, <1>0 DEF Ops
  <2>3. op'.connection # 1
    BY <2>2
  <2> QED BY <2>3 DEF Received, Unbroken
<1>11. CASE UNCHANGED vars
  BY <1>11 DEF vars, Received, Unbroken, Oldest
<1>12. CASE RecvHeader
  BY <1>12, HeaderReceives
<1>13. CASE RecvData
  BY <1>13, DataReceives
<1>14. CASE EndDrain
  BY <1>14, DrainReceives
<1>15. CASE EndPoll
  BY <1>15, PollReceives
<1>16. CASE Peer
  BY <1>16, PeerReceives
<1> QED BY <1>1, <1>3, <1>4, <1>5, <1>6, <1>7, <1>8, <1>9, <1>10, <1>11, <1>12, <1>13, <1>14, <1>15, <1>16 DEF Next, Proceed

\* The invariant says more than the property.
LEMMA ReceivedSound == Inv /\ Received => DataToOwner
<1> SUFFICES ASSUME Inv, Received PROVE DataToOwner
  OBVIOUS
<1>1. IntoLiveFifo
  BY DEF Inv, RxSound
<1>2. ASSUME Unbroken
      PROVE  /\ \A f \in rx.full \cup {rx.fifos[i] : i \in DOMAIN rx.fifos} :
                   \A i \in DOMAIN f.got : f.got[i] = Data(4, f.id, i)
             /\ \A f \in rx.full : Len(f.got) = f.len
  <2>1. PICK p, n : p = op.packets /\ n = Oldest
    OBVIOUS
  <2>2. p \in Packets /\ n \in 1 .. Len(p) + 1 /\ Len(p) \in Nat /\ Expects(p, n, op.pc, peer.answered, rx, Coming)
    <3>1. p \in Packets /\ n \in 1 .. Len(p) + 1 /\ Expects(p, n, op.pc, peer.answered, rx, Coming)
      BY <2>1, <1>2, ReceivedNow
    <3> QED BY <3>1, LenProperties DEF Packets
  <2>3. PICK k : Stands(p, n, op.pc, k, rx)
    BY <2>2 DEF Expects
  <2>4. k \in 1 .. ReadsOf(p, n) + 1 /\ rx.fifos = Waiting(p, n, k) /\ rx.full = FullUpTo(p, n, k) /\ ReadsOf(p, n) \in Nat
    BY <2>2, <2>3, ReadsOfTyped DEF Stands
  <2>5. ASSUME NEW i \in DOMAIN rx.fifos PROVE rx.fifos[i].got = <<>>
    <3>1. n \in Nat \ {0}
      BY <2>2
    <3>2. Waiting(p, n, k) \in Seq(Unfilled)
      BY <3>1, <2>2, <2>4, WaitingTyped
    <3>3. rx.fifos \in Seq(Unfilled)
      BY <3>2, <2>4
    <3>4. i \in 1 .. Len(rx.fifos)
      BY <3>3, LenProperties
    <3>5. rx.fifos[i] \in Unfilled
      BY <3>3, <3>4, ElementOfSeq
    <3> QED BY <3>5 DEF Unfilled
  <2>6. ASSUME NEW f \in rx.full
        PROVE  (\A i \in DOMAIN f.got : f.got[i] = Data(4, f.id, i)) /\ Len(f.got) = f.len
    <3>1. PICK i \in 1 .. k - 1 : f = FilledFifo(p, n, i)
      BY <2>4 DEF FullUpTo
    <3>2. i \in 1 .. ReadsOf(p, n)
      BY <2>4
    <3>3. n \in 1 .. Len(p)
      <4>1. CASE n \notin 1 .. Len(p)
        <5>1. ReadsOf(p, n) = 0
          BY <4>1 DEF ReadsOf
        <5> QED BY <5>1, <3>2
      <4> QED BY <4>1
    <3>4. Len(ReadUnits(p, n, i)) = p[n].read[i]
      BY <2>2, <3>2, <3>3, ReadDataTyped
    <3>5. f.id = <<n, i>> /\ f.len = p[n].read[i] /\ f.got = ReadUnits(p, n, i)
      BY <3>1 DEF FilledFifo
    <3> QED BY <3>4, <3>5 DEF ReadUnits
  <2>7. \A f \in {rx.fifos[i] : i \in DOMAIN rx.fifos} : \A i \in DOMAIN f.got : f.got[i] = Data(4, f.id, i)
    <3>1. DOMAIN <<>> = {}
      OBVIOUS
    <3> QED BY <2>5, <3>1
  <2> QED BY <2>6, <2>7
<1>3. ASSUME Unbroken, HeaderRead, Mux = 0
      PROVE  rx.head[1].of = Message(Oldest) /\ rx.head[1].len = 1
  <2>1. PICK p, n, c : p = op.packets /\ n = Oldest /\ c = op.pc
    OBVIOUS
  <2>2. p \in Packets /\ Expects(p, n, c, peer.answered, rx, Coming)
    BY <2>1, <1>3, ReceivedNow
  <2>3. PICK k, us : Stands(p, n, c, k, rx) /\ Comes(p, n, c, peer.answered, k, us, rx, Coming)
    BY <2>2 DEF Expects
  <2>4. Len(rx.head) = 2 /\ rx.head[1].mux = 0
    BY <1>3 DEF HeaderRead, Mux
  <2>5. PICK h, d, m : FirstIs(p, Place(p, n, c, k), us, At(peer.answered + 1, 1), rx.head, rx.data, Coming, h, d, m)
    BY <2>2, <2>3, <2>4, HeaderComes
  <2>6. PICK s : s = Place(p, n, c, k)
    OBVIOUS
  <2>7. PassesAs(p, s, h, d, m) /\ rx.head[1] = h
    BY <2>5, <2>6 DEF FirstIs
  <2>8. ResponseNext(p, s, h, d, m) /\ h.len = Len(d)
    BY <2>4, <2>7 DEF PassesAs, DataNext
  <2>9. s.want = "response" /\ h.of = Message(s.of) /\ h.len = 1
    BY <2>8 DEF ResponseNext
  <2>10. k \in Nat /\ (c = "poll" => k <= ReadsOf(p, n))
    <3>1. k \in 1 .. ReadsOf(p, n) + 1 /\ ReadsOf(p, n) \in Nat /\ (c = "poll" /\ k = ReadsOf(p, n) + 1 => rx.head = <<>>)
      BY <2>2, <2>3, ReadsOfTyped DEF Stands
    <3>2. rx.head # <<>>
      BY <2>4
    <3> QED BY <3>1, <3>2
  <2>11. s.of = n
    <3>1. CASE c = "poll"
      <4>1. s = PollAt(p, n, k) /\ k \in Nat /\ k <= ReadsOf(p, n) /\ ReadsOf(p, n) \in Nat
        BY <3>1, <2>2, <2>6, <2>10, ReadsOfTyped DEF Place
      <4>2. ~(k > ReadsOf(p, n))
        BY <4>1
      <4> QED BY <4>1, <4>2 DEF PollAt
    <3>2. CASE c # "poll"
      BY <3>2, <2>6 DEF Place, At
    <3> QED BY <3>1, <3>2
  <2> QED BY <2>1, <2>7, <2>9, <2>11
<1>4. ASSUME Unbroken, rx.mux0 PROVE HeaderRead /\ Mux = 0 /\ rx.data = <<>>
  <2>1. HeaderSound(rx) /\ rx \in Receivers
    BY <1>4, ReceivedNow DEF Expects
  <2>2. HeaderRead /\ Mux = 0
    BY <2>1, <1>4 DEF HeaderSound, HeaderRead, Mux
  <2>3. Len(rx.data) < 1
    <3>1. rx.head[1].len = 1
      BY <2>2, <1>3, <1>4
    <3> QED BY <3>1, <2>1, <2>2 DEF HeaderSound, HeaderRead
  <2>4. rx.data \in Seq(Unit) /\ Len(rx.data) \in Nat
    BY <2>1, RxFields
  <2>5. Len(rx.data) = 0
    BY <2>3, <2>4
  <2> QED BY <2>2, <2>4, <2>5, EmptySeq
<1>5. OwnData
  BY <1>2 DEF OwnData
<1>6. ResponseKept
  BY <1>3, <1>4 DEF ResponseKept
<1> QED BY <1>1, <1>5, <1>6 DEF DataToOwner

\* What is received goes to whom it is for: a FIFO gets its own command's data, a packet
\* goes into a FIFO that exists, and a response waits for the receive_cmnd it answers.
THEOREM Owners == Spec => []DataToOwner
<1>1. Init => Inv /\ Received
  BY InitInv, InitReceived
<1>2. Inv /\ Received /\ [Next]_vars => (Inv /\ Received)'
  BY NextInv, NextReceived
<1>3. Spec => [](Inv /\ Received)
  BY <1>1, <1>2, PTL DEF Spec
<1> QED BY <1>3, ReceivedSound, PTL

=============================================================================
