----------------------- MODULE CommandPipeline_proofs -----------------------
(***************************************************************************)
(* Proofs about CommandPipeline: its records, that answers stay in step    *)
(* with the commands they answer, that nothing of a lock is forgotten, and *)
(* that it implements CommandQueue.                                        *)
(***************************************************************************)
EXTENDS CommandPipeline, Lists_proofs

-----------------------------------------------------------------------------
(* The invariant, in parts.                                                *)

Record == [expect : Seq(Command), outputs : Nat]
Device == [free : Nat, fill : {None} \cup Record, next : Seq(Packet), tx : Seq(Command),
           locked : BOOLEAN, lockFail : BOOLEAN, deferError : BOOLEAN, granted : BOOLEAN,
           stuck : BOOLEAN, parted : BOOLEAN, executed : Seq(Ids)]

\* The records of a device: all are accounted for, and the one being filled has
\* room for what is in it.
Filling(d) == IF d.fill = None THEN 0 ELSE 1
Counted(d) == d.free + Len(d.next) + Filling(d) = Buffers
Fits(d) == d.fill # None => Len(d.fill.expect) <= DeferredMax /\ d.fill.outputs <= OutputMax

\* While a call waits, or the device is not locked, or an error is pending,
\* nothing is being filled; a call finds a record.
Accounted ==
    /\ dev \in Device /\ Counted(dev) /\ Fits(dev)
    /\ call # NoCall \/ ~dev.locked \/ dev.deferError => dev.fill = None
    /\ RecordAtHand

ValuesTyped ==
    /\ style \in AllStyles
    /\ call \in [of : {"none", "command", "flush", "unlock", "other"}, error : BOOLEAN]
    /\ issued \in 0 .. MaxCommands
    /\ result \in {"ok", "error", "done", "flushed"}

\* What the server reads first, and next.
First(d) == IF d.next # <<>> THEN Head(d.next).sent ELSE d.tx

\* What is packed is expected, what follows a packet continues it.
Lined(d) ==
    /\ d.tx = IF d.fill = None THEN <<>> ELSE d.fill.expect
    /\ \A i \in 1 .. Len(d.next) : d.next[i].sent = d.next[i].expect
    /\ \A i \in 2 .. Len(d.next) : Continues(d.next[i].sent)
    /\ d.next # <<>> /\ d.fill # None => Continues(d.tx)

\* No unlock is on its way.
StaysLocked(d) ==
    /\ \A i \in 1 .. Len(d.next) : ~Contains(d.next[i].sent, UNLOCK)
    /\ ~Contains(d.tx, UNLOCK)

\* The server has locked the device, or is asked to first.
Believed(d) == d.granted \/ (First(d) # <<>> /\ First(d)[1] = LOCK)

\* What is sent or packed is in step, and cannot be refused for what came before;
\* packs: commands may be packed.
Sound(d, packs) ==
    /\ Lined(d) /\ StaysLocked(d)
    /\ d.stuck => ~Continues(First(d))
    /\ d.locked => ~d.lockFail
    /\ packs /\ d.locked => Believed(d)

\* Between calls, packets that were sent have one after them being filled.
Between(d, packs) ==
    /\ Sound(d, packs)
    /\ d.next # <<>> => d.fill # None
    /\ ~d.locked \/ d.deferError => d.fill = None

\* While a call awaits answers: once a packet is refused the call knows, and what
\* follows is refused as well.
Waiting(d, c, packs) ==
    /\ Lined(d) /\ d.fill = None /\ d.locked /\ ~d.deferError /\ c.of # "none"
    /\ d.stuck /\ Continues(First(d)) => c.error
    /\ c.error /\ d.next # <<>> => d.stuck /\ Continues(First(d))
    /\ c.of # "unlock" => StaysLocked(d) /\ (packs => d.lockFail \/ Believed(d))

Packing == style # "never"

InStep == IF call = NoCall THEN Between(dev, Packing) ELSE Waiting(dev, call, Packing)

-----------------------------------------------------------------------------
(* Commands and records.                                                    *)

\* The pipeline's own commands are none of the program's.
LEMMA CommandsDiffer ==
    /\ Ids \subseteq Command /\ LOCK \in Command /\ UNLOCK \in Command /\ CONTINUE \in Command
    /\ LOCK \notin Ids /\ UNLOCK \notin Ids /\ CONTINUE \notin Ids
    /\ LOCK # UNLOCK /\ LOCK # CONTINUE /\ UNLOCK # CONTINUE
    /\ \A n \in 1 .. MaxCommands : Own(n) \in Ids
BY DEF Ids, Command, Own, LOCK, UNLOCK, CONTINUE

\* A record is not the absence of one.
LEMMA RecordIsSome ==
    /\ \A r \in Record : r # None
    /\ EmptyActions \in Record /\ EmptyActions.expect = <<>> /\ EmptyActions.outputs = 0
<1>1. ASSUME NEW r \in Record PROVE r # None
  <2>1. DOMAIN r = {"expect", "outputs"} /\ DOMAIN None = {"none"}
    BY DEF Record, None
  <2>2. "none" \notin {"expect", "outputs"}
    OBVIOUS
  <2> QED BY <2>1, <2>2
<1>2. EmptyActions \in Record /\ EmptyActions.expect = <<>> /\ EmptyActions.outputs = 0
  <2>1. <<>> \in Seq(Command) /\ 0 \in Nat
    OBVIOUS
  <2> QED BY <2>1 DEF EmptyActions, Record
<1> QED BY <1>1, <1>2

\* The fields of a device.
LEMMA DeviceFields ==
    ASSUME NEW d \in Device
    PROVE  /\ d.free \in Nat /\ d.fill \in {None} \cup Record /\ d.next \in Seq(Packet) /\ d.tx \in Seq(Command)
           /\ d.locked \in BOOLEAN /\ d.lockFail \in BOOLEAN /\ d.deferError \in BOOLEAN
           /\ d.granted \in BOOLEAN /\ d.stuck \in BOOLEAN /\ d.parted \in BOOLEAN /\ d.executed \in Seq(Ids)
BY DEF Device

\* Taking a free record.
LEMMA Taken ==
    ASSUME NEW d \in Device, d.free > 0
    PROVE  LET e == TakeActions(d) IN
           /\ e \in Device /\ e.free = d.free - 1 /\ e.fill = EmptyActions /\ e.next = d.next
           /\ e.tx = d.tx /\ e.executed = d.executed
           /\ e.locked = d.locked /\ e.lockFail = d.lockFail /\ e.deferError = d.deferError
           /\ e.granted = d.granted /\ e.stuck = d.stuck /\ e.parted = d.parted
<1>1. d.free - 1 \in Nat /\ EmptyActions \in {None} \cup Record
  BY DeviceFields, RecordIsSome
<1> QED BY <1>1 DEF TakeActions, Device

\* Sending what is packed.
LEMMA PacketSent ==
    ASSUME NEW d \in Device, d.fill # None, NEW own \in Seq(Command)
    PROVE  LET e == SendCommand(d, own) IN
           /\ e \in Device /\ e.free = d.free /\ e.fill = None /\ e.tx = <<>>
           /\ e.next = Append(d.next, [sent |-> d.tx, expect |-> d.fill.expect \o own])
           /\ e.executed = d.executed
           /\ e.locked = d.locked /\ e.lockFail = d.lockFail /\ e.deferError = d.deferError
           /\ e.granted = d.granted /\ e.stuck = d.stuck /\ e.parted = d.parted
<1> DEFINE p == [sent |-> d.tx, expect |-> d.fill.expect \o own]
<1>1. d.fill.expect \in Seq(Command)
  BY DeviceFields DEF Record
<1>2. d.fill.expect \o own \in Seq(Command) /\ d.tx \in Seq(Command)
  BY <1>1, DeviceFields
<1>3. p \in Packet
  BY <1>2 DEF Packet
<1> HIDE DEF p
<1>4. Append(d.next, p) \in Seq(Packet) /\ None \in {None} \cup Record
  BY <1>3, DeviceFields
<1>5. SendCommand(d, own) = [d EXCEPT !.next = Append(d.next, p), !.fill = None, !.tx = <<>>]
  BY DEF SendCommand, p
<1>6. <<>> \in Seq(Command)
  OBVIOUS
<1> QED BY <1>4, <1>5, <1>6 DEF Device, p

\* Packing a command.
LEMMA Packs ==
    ASSUME NEW d \in Device, d.fill # None, NEW c \in Command, NEW outputs \in Nat
    PROVE  LET e == Pack(d, c, outputs) IN
           /\ e \in Device /\ e.free = d.free /\ e.fill # None /\ e.next = d.next
           /\ e.fill.expect = Append(d.fill.expect, c) /\ e.fill.outputs = d.fill.outputs + outputs
           /\ e.tx = Append(d.tx, c) /\ e.executed = d.executed
           /\ e.locked = d.locked /\ e.lockFail = d.lockFail /\ e.deferError = d.deferError
           /\ e.granted = d.granted /\ e.stuck = d.stuck /\ e.parted = d.parted
<1> DEFINE r == [expect |-> Append(d.fill.expect, c), outputs |-> d.fill.outputs + outputs]
<1>1. d.fill.expect \in Seq(Command) /\ d.fill.outputs \in Nat
  BY DeviceFields DEF Record
<1>2. Append(d.fill.expect, c) \in Seq(Command) /\ d.fill.outputs + outputs \in Nat
  BY <1>1
<1>3. r \in Record
  BY <1>2 DEF Record
<1>4. r.expect = Append(d.fill.expect, c) /\ r.outputs = d.fill.outputs + outputs
  OBVIOUS
<1>5. Pack(d, c, outputs) = [d EXCEPT !.tx = Append(d.tx, c), !.fill = r]
  BY DEF Pack
<1> HIDE DEF r
<1>6. Append(d.tx, c) \in Seq(Command) /\ r # None
  BY <1>3, DeviceFields, RecordIsSome
<1> QED BY <1>3, <1>4, <1>5, <1>6 DEF Device

\* Beginning a packet that continues the last.
LEMMA Continued ==
    ASSUME NEW d \in Device, d.free > 0
    PROVE  LET e == Continue(d) IN
           /\ e \in Device /\ e.free = d.free - 1 /\ e.fill # None /\ e.next = d.next
           /\ e.fill.expect = <<CONTINUE>> /\ e.fill.outputs = 0
           /\ e.tx = Append(d.tx, CONTINUE) /\ e.executed = d.executed
           /\ e.locked = d.locked /\ e.lockFail = d.lockFail /\ e.deferError = d.deferError
           /\ e.granted = d.granted /\ e.stuck = d.stuck /\ e.parted = d.parted
<1> DEFINE t == TakeActions(d)
<1>1. t \in Device /\ t.fill = EmptyActions
  BY Taken
<1>2. t.fill # None /\ t.fill.expect = <<>> /\ t.fill.outputs = 0
  BY <1>1, RecordIsSome
<1>3. Continue(d) = Pack(t, CONTINUE, 0)
  BY DEF Continue
<1>4. Append(<<>>, CONTINUE) = <<CONTINUE>> /\ 0 \in Nat
  OBVIOUS
<1>5. LET e == Pack(t, CONTINUE, 0) IN
      /\ e \in Device /\ e.free = t.free /\ e.fill # None /\ e.next = t.next
      /\ e.fill.expect = Append(t.fill.expect, CONTINUE) /\ e.fill.outputs = t.fill.outputs + 0
      /\ e.tx = Append(t.tx, CONTINUE) /\ e.executed = t.executed
      /\ e.locked = t.locked /\ e.lockFail = t.lockFail /\ e.deferError = t.deferError
      /\ e.granted = t.granted /\ e.stuck = t.stuck /\ e.parted = t.parted
  <2>1. CONTINUE \in Command /\ 0 \in Nat
    BY CommandsDiffer
  <2> HIDE DEF t
  <2> QED BY <1>1, <1>2, <2>1, Packs, Zenon
<1>6. /\ t.free = d.free - 1 /\ t.next = d.next /\ t.tx = d.tx /\ t.executed = d.executed
      /\ t.locked = d.locked /\ t.lockFail = d.lockFail /\ t.deferError = d.deferError
      /\ t.granted = d.granted /\ t.stuck = d.stuck /\ t.parted = d.parted
  BY Taken
<1> HIDE DEF t
<1> QED BY <1>2, <1>3, <1>4, <1>5, <1>6

\* How much of a packet is executed.
LEMMA ExecutableTyped ==
    ASSUME NEW d \in Device, NEW sent \in Seq(Command), NEW may, NEW k \in Executable(d, sent, may)
    PROVE  k \in 0 .. Len(sent)
<1>1. Len(sent) \in Nat
  OBVIOUS
<1> QED BY <1>1 DEF Executable

\* Reading an answer.
LEMMA AnswerRead ==
    ASSUME NEW d \in Device, d.next # <<>>, NEW k \in 0 .. Len(Head(d.next).sent)
    PROVE  LET e == Answered(d, k)
               packet == Head(d.next)
               got == SubSeq(packet.sent, 1, k) IN
           /\ e \in Device /\ e.free = d.free + 1 /\ e.fill = d.fill /\ e.next = Tail(d.next)
           /\ e.tx = d.tx /\ e.executed = d.executed \o OwnCommands(got)
           /\ e.locked = d.locked /\ e.deferError = d.deferError /\ e.parted = d.parted
           /\ e.lockFail = (d.lockFail \/ (k < Len(packet.expect)
                              /\ Contains(SubSeq(packet.expect, k + 1, Len(packet.expect)), LOCK)))
           /\ e.granted = ((d.granted \/ Contains(got, LOCK)) /\ ~Contains(got, UNLOCK))
           /\ e.stuck = (k < Len(packet.sent))
           /\ packet \in Packet /\ got \in Seq(Command) /\ OwnCommands(got) \in Seq(Ids)
<1> DEFINE packet == Head(d.next)
           got == SubSeq(packet.sent, 1, k)
           fail == d.lockFail \/ (k < Len(packet.expect)
                     /\ Contains(SubSeq(packet.expect, k + 1, Len(packet.expect)), LOCK))
           grant == (d.granted \/ Contains(got, LOCK)) /\ ~Contains(got, UNLOCK)
           stuck == k < Len(packet.sent)
           more == d.executed \o OwnCommands(got)
<1>1. packet \in Packet /\ Tail(d.next) \in Seq(Packet) /\ d.free + 1 \in Nat
  BY DeviceFields
<1>2. packet.sent \in Seq(Command)
  BY <1>1 DEF Packet
<1>3. got \in Seq(Command)
  BY <1>2
<1>4. OwnCommands(got) \in Seq(Ids)
  <2>1. Filtered(got, Ids) \in Seq(Command \cap Ids)
    BY <1>3, FilteredTyped
  <2>2. Command \cap Ids = Ids
    BY CommandsDiffer
  <2> QED BY <2>1, <2>2 DEF OwnCommands
<1>5. more \in Seq(Ids)
  BY <1>4, DeviceFields
<1>6. fail \in BOOLEAN /\ grant \in BOOLEAN /\ stuck \in BOOLEAN
  OBVIOUS
<1>7. Answered(d, k) = [d EXCEPT !.next = Tail(d.next), !.free = d.free + 1, !.granted = grant,
                                 !.stuck = stuck, !.lockFail = fail, !.executed = more]
  BY DEF Answered, Freed
<1> HIDE DEF fail, grant, stuck, more
<1>8. LET e == Answered(d, k) IN
      /\ e \in Device /\ e.free = d.free + 1 /\ e.fill = d.fill /\ e.next = Tail(d.next)
      /\ e.tx = d.tx /\ e.executed = more /\ e.locked = d.locked /\ e.deferError = d.deferError
      /\ e.parted = d.parted
      /\ e.lockFail = fail /\ e.granted = grant /\ e.stuck = stuck
  BY <1>1, <1>5, <1>6, <1>7 DEF Device
<1> QED BY <1>1, <1>3, <1>4, <1>8 DEF fail, grant, stuck, more

\* Reading an answer parts nothing.
LEMMA AnswerTyped ==
    ASSUME NEW d \in Device, d.next # <<>>, NEW may, NEW r \in ReceiveResponse(d, may)
    PROVE  r.dev \in Device /\ r.dev.parted = d.parted
<1>1. Head(d.next) \in Packet
  BY DeviceFields
<1>2. Head(d.next).sent \in Seq(Command)
  BY <1>1 DEF Packet
<1>3. PICK k \in Executable(d, Head(d.next).sent, may) : r.dev = Answered(d, k)
  BY DEF ReceiveResponse
<1>4. k \in 0 .. Len(Head(d.next).sent)
  BY <1>2, ExecutableTyped
<1> QED BY <1>3, <1>4, AnswerRead

-----------------------------------------------------------------------------
(* The records are accounted for.                                           *)

\* A device whose records are accounted for, with one at hand.
Usable(d) == d \in Device /\ Counted(d) /\ Fits(d) /\ (d.fill # None \/ d.free > 0)

\* A call changes neither of these before it returns; what has parted stays so.
SameLock(d, e) ==
    /\ e.locked = d.locked /\ e.deferError = d.deferError
    /\ d.parted => e.parted

\* Reading an answer frees a record.
LEMMA AnswerCounts ==
    ASSUME NEW d \in Device, d.next # <<>>, Counted(d), NEW may, NEW r \in ReceiveResponse(d, may)
    PROVE  /\ r.dev \in Device /\ Counted(r.dev) /\ r.dev.fill = d.fill /\ r.dev.tx = d.tx
           /\ r.dev.free = d.free + 1 /\ SameLock(d, r.dev) /\ r.error \in BOOLEAN
           /\ \E k \in Executable(d, Head(d.next).sent, may) :
                /\ k \in 0 .. Len(Head(d.next).sent) /\ r.dev = Answered(d, k)
                /\ r.error = (k < Len(Head(d.next).expect))
<1>1. Head(d.next) \in Packet /\ Len(d.next) \in Nat /\ Len(Tail(d.next)) = Len(d.next) - 1
  BY DeviceFields
<1>2. Head(d.next).sent \in Seq(Command)
  BY <1>1 DEF Packet
<1>3. PICK k \in Executable(d, Head(d.next).sent, may) :
        r = [dev |-> Answered(d, k), error |-> k < Len(Head(d.next).expect)]
  BY DEF ReceiveResponse
<1>4. k \in 0 .. Len(Head(d.next).sent)
  BY <1>2, ExecutableTyped
<1>5. LET e == Answered(d, k) IN
      /\ e \in Device /\ e.free = d.free + 1 /\ e.fill = d.fill /\ e.next = Tail(d.next) /\ e.tx = d.tx
      /\ e.locked = d.locked /\ e.deferError = d.deferError /\ e.parted = d.parted
  BY <1>4, AnswerRead
<1>6. Counted(Answered(d, k))
  <2>1. d.free \in Nat
    BY DeviceFields
  <2>2. Filling(Answered(d, k)) = Filling(d) /\ Filling(d) \in Nat
    BY <1>5 DEF Filling
  <2> QED BY <1>1, <1>5, <2>1, <2>2, PipelineConstants DEF Counted
<1>7. r.dev = Answered(d, k) /\ r.error = (k < Len(Head(d.next).expect))
  BY <1>3
<1> QED BY <1>4, <1>5, <1>6, <1>7 DEF SameLock

\* Sending what is packed.
LEMMA SentCounts ==
    ASSUME NEW d \in Device, d.fill # None, Counted(d), NEW own \in Seq(Command)
    PROVE  LET e == SendCommand(d, own) IN
           /\ e \in Device /\ Counted(e) /\ e.fill = None /\ e.tx = <<>> /\ e.next # <<>>
           /\ e.free = d.free /\ SameLock(d, e)
<1> DEFINE e == SendCommand(d, own)
           p == [sent |-> d.tx, expect |-> d.fill.expect \o own]
<1>1. /\ e \in Device /\ e.free = d.free /\ e.fill = None /\ e.tx = <<>> /\ e.next = Append(d.next, p)
      /\ e.locked = d.locked /\ e.deferError = d.deferError /\ e.parted = d.parted
  BY PacketSent
<1>p. p \in Packet
  <2>1. d.fill.expect \in Seq(Command) /\ d.tx \in Seq(Command)
    BY DeviceFields DEF Record
  <2>2. d.fill.expect \o own \in Seq(Command)
    BY <2>1
  <2> QED BY <2>1, <2>2 DEF Packet
<1> HIDE DEF e, p
<1>2. d.next \in Seq(Packet) /\ e.next \in Seq(Packet) /\ d.free \in Nat
  BY <1>1, DeviceFields
<1>3. Len(e.next) = Len(d.next) + 1 /\ Len(d.next) \in Nat /\ e.next # <<>>
  <2>1. Len(Append(d.next, p)) = Len(d.next) + 1 /\ Len(d.next) \in Nat /\ Append(d.next, p) # <<>>
    BY <1>2, <1>p
  <2> QED BY <1>1, <2>1
<1>4. Filling(e) = 0 /\ Filling(d) = 1
  BY <1>1 DEF Filling
<1>5. Counted(e)
  BY <1>1, <1>2, <1>3, <1>4, PipelineConstants DEF Counted
<1> QED BY <1>1, <1>3, <1>5 DEF SameLock, e

\* Beginning a packet.
LEMMA ContinuedCounts ==
    ASSUME NEW d \in Device, d.fill = None, d.free > 0, Counted(d)
    PROVE  LET e == Continue(d) IN
           /\ Usable(e) /\ e.fill # None /\ e.fill.expect = <<CONTINUE>> /\ e.fill.outputs = 0
           /\ SameLock(d, e)
<1> DEFINE e == Continue(d)
<1>1. /\ e \in Device /\ e.free = d.free - 1 /\ e.fill # None /\ e.next = d.next
      /\ e.fill.expect = <<CONTINUE>> /\ e.fill.outputs = 0
      /\ e.locked = d.locked /\ e.deferError = d.deferError /\ e.parted = d.parted
  BY Continued
<1> HIDE DEF e
<1>2. d.next \in Seq(Packet) /\ d.free \in Nat
  BY DeviceFields
<1>3. Filling(e) = 1 /\ Filling(d) = 0 /\ Len(d.next) \in Nat
  BY <1>1, <1>2 DEF Filling
<1>4. Counted(e)
  BY <1>1, <1>2, <1>3, PipelineConstants DEF Counted
<1>5. Len(<<CONTINUE>>) = 1
  OBVIOUS
<1>6. Fits(e)
  BY <1>1, <1>5, PipelineConstants DEF Fits
<1> QED BY <1>1, <1>4, <1>6 DEF Usable, SameLock, e

\* Sending a packet and beginning the next leaves a record at hand.
LEMMA SendContinueCounts ==
    ASSUME NEW d \in Device, d.fill # None, Counted(d), NEW s \in SendContinue(d)
    PROVE  /\ Usable(s.dev) /\ SameLock(d, s.dev) /\ s.ok \in BOOLEAN
           /\ s.ok => s.dev.fill # None /\ s.dev.fill.expect = <<CONTINUE>> /\ s.dev.fill.outputs = 0
<1> DEFINE sent == SendCommand(d, <<>>)
<1>1. /\ sent \in Device /\ Counted(sent) /\ sent.fill = None /\ sent.tx = <<>> /\ sent.next # <<>>
      /\ SameLock(d, sent)
  <2>1. <<>> \in Seq(Command)
    OBVIOUS
  <2> QED BY <2>1, SentCounts
<1>2. sent.free \in Nat /\ sent.lockFail \in BOOLEAN
  BY <1>1, DeviceFields
<1>3. CASE sent.free > 0
  <2>1. s = [dev |-> Continue(sent), ok |-> ~sent.lockFail]
    BY <1>3 DEF SendContinue
  <2> HIDE DEF sent
  <2>2. s.dev = Continue(sent) /\ s.ok = ~sent.lockFail
    BY <2>1
  <2> QED BY <1>1, <1>2, <1>3, <2>2, ContinuedCounts DEF SameLock
<1>4. CASE ~(sent.free > 0)
  <2>1. PICK r \in ReceiveResponse(sent, TRUE) :
           s = IF r.error THEN [dev |-> [r.dev EXCEPT !.parted = TRUE], ok |-> FALSE]
               ELSE [dev |-> Continue(r.dev), ok |-> ~r.dev.lockFail]
    BY <1>4 DEF SendContinue
  <2> HIDE DEF sent
  <2>2. /\ r.dev \in Device /\ Counted(r.dev) /\ r.dev.fill = sent.fill /\ r.dev.free = sent.free + 1
        /\ SameLock(sent, r.dev) /\ r.error \in BOOLEAN
    BY <1>1, AnswerCounts
  <2>3. r.dev.fill = None /\ r.dev.free > 0 /\ SameLock(d, r.dev) /\ r.dev.lockFail \in BOOLEAN
    BY <1>1, <1>2, <2>2, DeviceFields DEF SameLock
  <2>4. CASE r.error
    <3>1. s.dev = [r.dev EXCEPT !.parted = TRUE] /\ s.ok = FALSE
      BY <2>1, <2>4
    <3>2. /\ s.dev \in Device /\ s.dev.free = r.dev.free /\ s.dev.fill = r.dev.fill
          /\ s.dev.next = r.dev.next /\ s.dev.locked = r.dev.locked
          /\ s.dev.deferError = r.dev.deferError /\ s.dev.parted
      BY <2>2, <3>1 DEF Device
    <3>3. Usable(s.dev)
      BY <2>2, <2>3, <3>2 DEF Usable, Counted, Filling, Fits
    <3>4. SameLock(d, s.dev)
      BY <2>3, <3>2 DEF SameLock
    <3> QED BY <3>1, <3>3, <3>4
  <2>5. CASE ~r.error
    <3>1. s.dev = Continue(r.dev) /\ s.ok = ~r.dev.lockFail
      BY <2>1, <2>5
    <3> QED BY <2>2, <2>3, <3>1, ContinuedCounts DEF SameLock
  <2> QED BY <2>2, <2>4, <2>5
<1> QED BY <1>3, <1>4

\* The record to fill, if there was none.
LEMMA FillCounts ==
    ASSUME NEW d, Usable(d)
    PROVE  LET e == IF d.fill = None THEN TakeActions(d) ELSE d IN
           /\ Usable(e) /\ e.fill # None /\ SameLock(d, e)
<1> DEFINE e == IF d.fill = None THEN TakeActions(d) ELSE d
<1>0. d \in Device /\ d.free \in Nat /\ d.next \in Seq(Packet)
  BY DeviceFields DEF Usable
<1>1. CASE d.fill = None
  <2>1. /\ e \in Device /\ e.free = d.free - 1 /\ e.fill = EmptyActions /\ e.next = d.next
        /\ e.locked = d.locked /\ e.deferError = d.deferError /\ e.parted = d.parted
    BY <1>0, <1>1, Taken DEF Usable
  <2> HIDE DEF e
  <2>2. e.fill # None /\ e.fill.expect = <<>> /\ e.fill.outputs = 0
    BY <2>1, RecordIsSome
  <2>3. Filling(e) = 1 /\ Filling(d) = 0 /\ Len(d.next) \in Nat
    BY <1>0, <1>1, <2>2 DEF Filling
  <2>4. Counted(e)
    BY <1>0, <2>1, <2>3, PipelineConstants DEF Counted, Usable
  <2>5. Len(<<>>) = 0
    OBVIOUS
  <2>6. Fits(e)
    BY <2>2, <2>5, PipelineConstants DEF Fits
  <2> QED BY <2>1, <2>2, <2>4, <2>6 DEF Usable, SameLock, e
<1>2. CASE d.fill # None
  BY <1>2 DEF SameLock
<1> QED BY <1>1, <1>2

\* What get_txmessage finds: a record, with room if the command may be packed.
LEMMA GetTxMessageCounts ==
    ASSUME NEW d, Usable(d), NEW kind, NEW g \in GetTxMessage(d, kind)
    PROVE  /\ Usable(g.dev) /\ SameLock(d, g.dev) /\ g.ok \in BOOLEAN
           /\ g.ok => /\ g.dev.fill # None /\ MayPack(kind)
                      /\ Len(g.dev.fill.expect) < DeferredMax
                      /\ g.dev.fill.outputs + Outputs(kind) <= OutputMax
<1> DEFINE e == IF d.fill = None THEN TakeActions(d) ELSE d
<1>1. Usable(e) /\ e.fill # None /\ SameLock(d, e)
  BY FillCounts
<1>2. g \in IF MayPack(kind) /\ Full(e, kind) THEN SendContinue(e)
            ELSE {[dev |-> e, ok |-> MayPack(kind)]}
  BY DEF GetTxMessage
<1> HIDE DEF e
<1>3. CASE MayPack(kind) /\ Full(e, kind)
  <2>1. /\ Usable(g.dev) /\ SameLock(e, g.dev) /\ g.ok \in BOOLEAN
        /\ g.ok => g.dev.fill # None /\ g.dev.fill.expect = <<CONTINUE>> /\ g.dev.fill.outputs = 0
    BY <1>1, <1>2, <1>3, SendContinueCounts DEF Usable
  <2>2. Len(<<CONTINUE>>) = 1 /\ 1 < DeferredMax /\ 0 + Outputs(kind) <= OutputMax
    BY PipelineConstants DEF Outputs
  <2>3. SameLock(d, g.dev)
    BY <1>1, <2>1 DEF SameLock
  <2> QED BY <1>3, <2>1, <2>2, <2>3
<1>4. CASE ~(MayPack(kind) /\ Full(e, kind))
  <2>1. g.dev = e /\ g.ok = MayPack(kind) /\ MayPack(kind) \in BOOLEAN
    <3>1. g = [dev |-> e, ok |-> MayPack(kind)]
      BY <1>2, <1>4
    <3>2. MayPack(kind) \in BOOLEAN
      BY DEF MayPack
    <3> QED BY <3>1, <3>2
  <2>2. ASSUME MayPack(kind)
        PROVE  Len(e.fill.expect) < DeferredMax /\ e.fill.outputs + Outputs(kind) <= OutputMax
    <3>1. e.fill \in Record
      BY <1>1, DeviceFields DEF Usable
    <3>2. e.fill.expect \in Seq(Command) /\ e.fill.outputs \in Nat /\ Outputs(kind) \in Nat
      BY <3>1 DEF Record, Outputs
    <3>3. Len(e.fill.expect) \in Nat
      BY <3>2
    <3> QED BY <1>4, <2>2, <3>2, <3>3, PipelineConstants DEF Full
  <2> QED BY <1>1, <2>1, <2>2
<1> QED BY <1>3, <1>4

\* The command that is sent with what is packed, and everything awaited.
LEMMA SendReceiveCounts ==
    ASSUME NEW d, Usable(d), NEW of, NEW own \in Seq(Command), SendReceive(d, of, own)
    PROVE  /\ dev' \in Device /\ Counted(dev') /\ dev'.fill = None /\ SameLock(d, dev')
           /\ call' = [of |-> of, error |-> FALSE]
<1> DEFINE e == [d EXCEPT !.tx = @ \o own]
<1>0. d \in Device /\ d.tx \o own \in Seq(Command)
  BY DeviceFields DEF Usable
<1>1. e \in Device /\ e.free = d.free /\ e.next = d.next /\ e.fill = d.fill /\ e.locked = d.locked
      /\ e.deferError = d.deferError /\ e.parted = d.parted
  BY <1>0 DEF Device
<1>2. dev' = (IF d.fill = None THEN e ELSE SendCommand(e, own)) /\ call' = [of |-> of, error |-> FALSE]
  BY DEF SendReceive
<1> HIDE DEF e
<1>3. Counted(e) /\ SameLock(d, e)
  BY <1>1 DEF Usable, Counted, Filling, SameLock
<1>4. CASE d.fill = None
  BY <1>1, <1>2, <1>3, <1>4
<1>5. CASE d.fill # None
  <2>1. LET s == SendCommand(e, own) IN
        s \in Device /\ Counted(s) /\ s.fill = None /\ SameLock(e, s)
    BY <1>1, <1>3, <1>5, SentCounts
  <2> QED BY <1>2, <1>3, <1>5, <2>1 DEF SameLock
<1> QED BY <1>4, <1>5

\* A call has a kind.
LEMMA CallKinds ==
    /\ NoCall \in [of : {"none", "command", "flush", "unlock", "other"}, error : BOOLEAN]
    /\ NoCall.of = "none" /\ NoCall.error = FALSE
    /\ \A of \in {"command", "flush", "unlock", "other"} :
          LET c == [of |-> of, error |-> FALSE] IN
          /\ c \in [of : {"none", "command", "flush", "unlock", "other"}, error : BOOLEAN]
          /\ c # NoCall /\ c.of = of /\ c.error = FALSE
BY DEF NoCall

\* After send_receive has sent what there is, a call waits.
LEMMA WaitsAccounted ==
    ASSUME NEW d, Usable(d), d.locked, ~d.deferError, NEW of \in {"command", "flush", "unlock", "other"},
           NEW own \in Seq(Command), SendReceive(d, of, own)
    PROVE  Accounted' /\ call' \in [of : {"none", "command", "flush", "unlock", "other"}, error : BOOLEAN]
<1>1. /\ dev' \in Device /\ Counted(dev') /\ dev'.fill = None
      /\ call' = [of |-> of, error |-> FALSE]
  BY SendReceiveCounts
<1>2. call' # NoCall /\ call' \in [of : {"none", "command", "flush", "unlock", "other"}, error : BOOLEAN]
  BY <1>1, CallKinds
<1>3. Fits(dev')
  BY <1>1 DEF Fits
<1> QED BY <1>1, <1>2, <1>3 DEF Accounted, RecordAtHand

\* A device of which only these fields changed.
LEMMA FlagsChanged ==
    ASSUME NEW d \in Device, NEW locked \in BOOLEAN, NEW defer \in BOOLEAN
    PROVE  LET e == [d EXCEPT !.locked = locked, !.deferError = defer] IN
           /\ e \in Device /\ e.free = d.free /\ e.fill = d.fill /\ e.next = d.next /\ e.tx = d.tx
           /\ e.locked = locked /\ e.deferError = defer /\ e.lockFail = d.lockFail
           /\ e.granted = d.granted /\ e.stuck = d.stuck /\ e.executed = d.executed
           /\ e.parted = d.parted
           /\ Counted(e) = Counted(d) /\ Fits(e) = Fits(d)
BY DEF Device, Counted, Filling, Fits

\* What is left of a device when a call returns.
After(d, c) ==
    LET t == TidyUp(d) IN
    CASE c.of = "unlock" -> [t EXCEPT !.locked = FALSE]
      [] c.of = "other"  -> [t EXCEPT !.deferError = c.error]
      [] OTHER           -> t

\* It has what it had, but for the lock and the error.
LEMMA Returned ==
    ASSUME NEW d \in Device, NEW c \in [of : {"none", "command", "flush", "unlock", "other"}, error : BOOLEAN]
    PROVE  LET e == After(d, c) IN
           /\ e \in Device /\ e.free = d.free /\ e.fill = d.fill /\ e.next = d.next
           /\ e.tx = IF d.locked /\ d.lockFail THEN <<>> ELSE d.tx
           /\ e.locked = (d.locked /\ ~d.lockFail /\ c.of # "unlock")
           /\ e.deferError = IF c.of = "other" THEN c.error ELSE d.deferError
           /\ e.lockFail = d.lockFail /\ e.granted = d.granted /\ e.stuck = d.stuck /\ e.executed = d.executed
           /\ e.parted = d.parted
<1> DEFINE t == TidyUp(d)
<1>1. /\ t \in Device /\ t.free = d.free /\ t.fill = d.fill /\ t.next = d.next
      /\ t.tx = (IF d.locked /\ d.lockFail THEN <<>> ELSE d.tx) /\ t.locked = (d.locked /\ ~d.lockFail)
      /\ t.deferError = d.deferError /\ t.lockFail = d.lockFail
      /\ t.granted = d.granted /\ t.stuck = d.stuck /\ t.executed = d.executed
      /\ t.parted = d.parted
  <2>1. d.locked \in BOOLEAN /\ d.lockFail \in BOOLEAN /\ <<>> \in Seq(Command)
    BY DeviceFields
  <2>2. CASE d.locked /\ d.lockFail
    <3>1. t = [d EXCEPT !.locked = FALSE, !.tx = <<>>]
      BY <2>2 DEF TidyUp
    <3> HIDE DEF t
    <3> QED BY <2>1, <2>2, <3>1 DEF Device
  <2>3. CASE ~(d.locked /\ d.lockFail)
    <3>1. t = d
      BY <2>3 DEF TidyUp
    <3> HIDE DEF t
    <3> QED BY <2>1, <2>3, <3>1
  <2> QED BY <2>2, <2>3
<1> DEFINE e == CASE c.of = "unlock" -> [t EXCEPT !.locked = FALSE]
                  [] c.of = "other"  -> [t EXCEPT !.deferError = c.error]
                  [] OTHER           -> t
           left == d.locked /\ ~d.lockFail /\ c.of # "unlock"
<1>2. /\ e \in Device /\ e.free = d.free /\ e.fill = d.fill /\ e.next = d.next
      /\ e.tx = (IF d.locked /\ d.lockFail THEN <<>> ELSE d.tx)
      /\ e.locked = left
      /\ e.deferError = (IF c.of = "other" THEN c.error ELSE d.deferError)
      /\ e.lockFail = d.lockFail /\ e.granted = d.granted /\ e.stuck = d.stuck /\ e.executed = d.executed
      /\ e.parted = d.parted
  <2> HIDE DEF t, e, left
  <2>2. CASE c.of = "unlock"
    <3>1. e = [t EXCEPT !.locked = FALSE]
      BY <2>2 DEF e
    <3>2. /\ e \in Device /\ e.free = t.free /\ e.fill = t.fill /\ e.next = t.next /\ e.tx = t.tx
          /\ e.locked = FALSE /\ e.deferError = t.deferError /\ e.lockFail = t.lockFail
          /\ e.granted = t.granted /\ e.stuck = t.stuck /\ e.executed = t.executed
          /\ e.parted = t.parted
      BY <1>1, <3>1 DEF Device
    <3>3. e.locked = left
      BY <1>1, <2>2, <3>2 DEF left
    <3>4. e.deferError = IF c.of = "other" THEN c.error ELSE d.deferError
      BY <1>1, <2>2, <3>2
    <3> QED BY <1>1, <3>2, <3>3, <3>4
  <2>3. CASE c.of = "other"
    <3>1. e = [t EXCEPT !.deferError = c.error]
      BY <2>3 DEF e
    <3>2. /\ e \in Device /\ e.free = t.free /\ e.fill = t.fill /\ e.next = t.next /\ e.tx = t.tx
          /\ e.locked = t.locked /\ e.deferError = c.error /\ e.lockFail = t.lockFail
          /\ e.granted = t.granted /\ e.stuck = t.stuck /\ e.executed = t.executed
          /\ e.parted = t.parted
      BY <1>1, <3>1 DEF Device
    <3>3. e.locked = left
      BY <1>1, <2>3, <3>2 DEF left
    <3>4. e.deferError = IF c.of = "other" THEN c.error ELSE d.deferError
      BY <1>1, <2>3, <3>2
    <3> QED BY <1>1, <3>2, <3>3, <3>4
  <2>4. CASE c.of \notin {"unlock", "other"}
    <3>1. e = t
      BY <2>4 DEF e
    <3>2. /\ e \in Device /\ e.free = t.free /\ e.fill = t.fill /\ e.next = t.next /\ e.tx = t.tx
          /\ e.locked = t.locked /\ e.deferError = t.deferError /\ e.lockFail = t.lockFail
          /\ e.granted = t.granted /\ e.stuck = t.stuck /\ e.executed = t.executed
          /\ e.parted = t.parted
      BY <1>1, <3>1 DEF Device
    <3>3. e.locked = left
      BY <1>1, <2>4, <3>2 DEF left
    <3>4. e.deferError = IF c.of = "other" THEN c.error ELSE d.deferError
      BY <1>1, <2>4, <3>2
    <3> QED BY <1>1, <3>2, <3>3, <3>4
  <2> QED BY <2>2, <2>3, <2>4
<1>3. e = After(d, c)
  BY DEF After
<1> QED BY <1>2, <1>3 DEF left

\* The record a lock takes.
LEMMA LockTakes ==
    ASSUME NEW d \in Device, d.free > 0
    PROVE  LET e == [TakeActions(d) EXCEPT !.locked = TRUE, !.lockFail = FALSE] IN
           /\ e \in Device /\ e.free = d.free - 1 /\ e.fill = EmptyActions /\ e.next = d.next /\ e.tx = d.tx
           /\ e.locked = TRUE /\ e.lockFail = FALSE /\ e.deferError = d.deferError
           /\ e.granted = d.granted /\ e.stuck = d.stuck /\ e.executed = d.executed
           /\ e.parted = d.parted
<1> DEFINE t == TakeActions(d)
<1>1. /\ t \in Device /\ t.free = d.free - 1 /\ t.fill = EmptyActions /\ t.next = d.next /\ t.tx = d.tx
      /\ t.deferError = d.deferError /\ t.granted = d.granted /\ t.stuck = d.stuck /\ t.executed = d.executed
      /\ t.parted = d.parted
  BY Taken
<1> HIDE DEF t
<1>2. LET e == [t EXCEPT !.locked = TRUE, !.lockFail = FALSE] IN
      /\ e \in Device /\ e.free = t.free /\ e.fill = t.fill /\ e.next = t.next /\ e.tx = t.tx
      /\ e.locked = TRUE /\ e.lockFail = FALSE /\ e.deferError = t.deferError
      /\ e.granted = t.granted /\ e.stuck = t.stuck /\ e.executed = t.executed
      /\ e.parted = t.parted
  BY <1>1 DEF Device
<1> QED BY <1>1, <1>2 DEF t

\* What a lock leaves: a packed LOCK_DEVICE, a granted lock, or a refused one.
LEMMA Locks ==
    ASSUME NEW s \in Styles, Lock(s), Accounted
    PROVE  /\ call = NoCall /\ call' = call /\ issued' = issued /\ style' = s /\ result' = "ok"
           /\ dev.fill = None /\ ~dev.locked /\ ~dev.deferError
           /\ dev' \in Device /\ dev'.next = dev.next /\ dev'.locked = TRUE /\ dev'.lockFail = FALSE
           /\ dev'.deferError = FALSE /\ dev'.stuck = dev.stuck /\ dev'.executed = dev.executed
           /\ dev'.parted = dev.parted
           /\ Usable(dev')
           /\ \/ /\ s # "never" /\ dev'.tx = Append(dev.tx, LOCK) /\ dev'.granted = dev.granted
                 /\ dev'.fill # None /\ dev'.fill.expect = <<LOCK>>
              \/ s = "never" /\ dev'.tx = dev.tx /\ dev'.fill = None
              \/ s = "never" /\ dev'.tx = dev.tx /\ dev'.fill # None /\ dev'.fill.expect = <<>>
<1> DEFINE taken == [TakeActions(dev) EXCEPT !.locked = TRUE, !.lockFail = FALSE]
<1>1. /\ call = NoCall /\ ~dev.locked /\ ~dev.deferError /\ style' = s /\ result' = "ok" /\ call' = call /\ issued' = issued
      /\ \/ s # "never" /\ dev' = Pack(taken, LOCK, 0)
         \/ s = "never" /\ dev' = [dev EXCEPT !.locked = TRUE, !.lockFail = FALSE, !.granted = TRUE]
         \/ s = "never" /\ dev' = [taken EXCEPT !.granted = FALSE]
  BY DEF Lock
<1>2. dev \in Device /\ Counted(dev) /\ dev.fill = None /\ dev.free > 0
  BY <1>1 DEF Accounted, RecordAtHand
<1>3. /\ taken \in Device /\ taken.free = dev.free - 1 /\ taken.fill = EmptyActions /\ taken.next = dev.next
      /\ taken.tx = dev.tx /\ taken.locked = TRUE /\ taken.lockFail = FALSE
      /\ taken.deferError = dev.deferError /\ taken.granted = dev.granted /\ taken.stuck = dev.stuck
      /\ taken.executed = dev.executed /\ taken.parted = dev.parted
  BY <1>2, LockTakes
<1> HIDE DEF taken
<1>4. taken.fill # None /\ taken.fill.expect = <<>> /\ taken.fill.outputs = 0
  BY <1>3, RecordIsSome
<1>5. dev.deferError = FALSE /\ dev.free \in Nat /\ Len(dev.next) \in Nat /\ Filling(dev) = 0
  BY <1>1, <1>2, DeviceFields DEF Filling
<1>6. \A e : e.free = dev.free - 1 /\ e.fill # None /\ e.next = dev.next => Counted(e)
  <2> TAKE e
  <2> HAVE e.free = dev.free - 1 /\ e.fill # None /\ e.next = dev.next
  <2>1. Filling(e) = 1
    BY DEF Filling
  <2> QED BY <1>2, <1>5, <2>1, PipelineConstants DEF Counted
<1>7. CASE s # "never" /\ dev' = Pack(taken, LOCK, 0)
  <2>1. LOCK \in Command /\ 0 \in Nat
    BY CommandsDiffer
  <2>2. LET e == Pack(taken, LOCK, 0) IN
        /\ e \in Device /\ e.free = taken.free /\ e.fill # None /\ e.next = taken.next
        /\ e.fill.expect = Append(taken.fill.expect, LOCK) /\ e.fill.outputs = taken.fill.outputs + 0
        /\ e.tx = Append(taken.tx, LOCK) /\ e.executed = taken.executed
        /\ e.locked = taken.locked /\ e.lockFail = taken.lockFail /\ e.deferError = taken.deferError
        /\ e.granted = taken.granted /\ e.stuck = taken.stuck /\ e.parted = taken.parted
    BY <1>3, <1>4, <2>1, Packs, Zenon
  <2>3. /\ dev' \in Device /\ dev'.free = dev.free - 1 /\ dev'.fill # None /\ dev'.next = dev.next
        /\ dev'.fill.expect = Append(<<>>, LOCK) /\ dev'.fill.outputs = 0 + 0
        /\ dev'.tx = Append(dev.tx, LOCK) /\ dev'.executed = dev.executed
        /\ dev'.locked = TRUE /\ dev'.lockFail = FALSE /\ dev'.deferError = dev.deferError
        /\ dev'.granted = dev.granted /\ dev'.stuck = dev.stuck /\ dev'.parted = dev.parted
    BY <1>3, <1>4, <1>7, <2>2
  <2>4. Append(<<>>, LOCK) = <<LOCK>> /\ Len(<<LOCK>>) = 1 /\ 0 + 0 = 0
    OBVIOUS
  <2>5. Fits(dev') /\ Counted(dev')
    BY <1>6, <2>3, <2>4, PipelineConstants DEF Fits
  <2> QED BY <1>1, <1>2, <1>5, <1>7, <2>3, <2>4, <2>5 DEF Usable
<1>8. CASE s = "never" /\ dev' = [dev EXCEPT !.locked = TRUE, !.lockFail = FALSE, !.granted = TRUE]
  <2>1. /\ dev' \in Device /\ dev'.free = dev.free /\ dev'.fill = dev.fill /\ dev'.next = dev.next
        /\ dev'.tx = dev.tx /\ dev'.executed = dev.executed /\ dev'.locked = TRUE /\ dev'.lockFail = FALSE
        /\ dev'.deferError = dev.deferError /\ dev'.stuck = dev.stuck /\ dev'.parted = dev.parted
    BY <1>2, <1>8 DEF Device
  <2>2. Counted(dev') /\ Fits(dev')
    BY <1>2, <2>1 DEF Counted, Filling, Fits
  <2> QED BY <1>1, <1>2, <1>5, <1>8, <2>1, <2>2 DEF Usable
<1>9. CASE s = "never" /\ dev' = [taken EXCEPT !.granted = FALSE]
  <2>1. /\ dev' \in Device /\ dev'.free = taken.free /\ dev'.fill = taken.fill /\ dev'.next = taken.next
        /\ dev'.tx = taken.tx /\ dev'.executed = taken.executed /\ dev'.locked = taken.locked
        /\ dev'.lockFail = taken.lockFail /\ dev'.deferError = taken.deferError /\ dev'.stuck = taken.stuck
        /\ dev'.parted = taken.parted
    BY <1>3, <1>9 DEF Device
  <2>2. Len(<<>>) = 0
    OBVIOUS
  <2>3. Counted(dev') /\ Fits(dev')
    BY <1>3, <1>4, <1>6, <2>1, <2>2, PipelineConstants DEF Fits
  <2> QED BY <1>1, <1>2, <1>3, <1>4, <1>5, <1>9, <2>1, <2>3 DEF Usable
<1> QED BY <1>1, <1>7, <1>8, <1>9

\* Between calls the device is usable.
LEMMA AtHand == ASSUME Accounted, call = NoCall PROVE Usable(dev)
BY DEF Accounted, Usable, RecordAtHand

\* What giving a command leaves.
LEMMA IssueAccounted ==
    ASSUME Accounted, ValuesTyped, NEW kind \in Kinds, Issue(kind)
    PROVE  Accounted' /\ ValuesTyped'
<1> DEFINE c == Own(issued + 1)
<1>1. /\ call = NoCall /\ dev.locked /\ ~dev.deferError /\ issued < MaxCommands /\ issued' = issued + 1
      /\ style' = style /\ issued \in Nat
  BY DEF Issue, ValuesTyped
<1>2. PICK g \in GetTxMessage(dev, kind) :
         \/ /\ g.ok /\ Deferrable(kind)
            /\ LET d == Pack(g.dev, c, Outputs(kind)) IN
               dev' \in IF kind = "big" THEN {s.dev : s \in SendContinue(d)} ELSE {d}
            /\ result' = "ok"
            /\ UNCHANGED call
         \/ /\ ~(g.ok /\ Deferrable(kind))
            /\ SendReceive(g.dev, "command", <<c>>)
            /\ UNCHANGED result
  BY DEF Issue
<1>3. /\ Usable(g.dev) /\ SameLock(dev, g.dev) /\ g.ok \in BOOLEAN
      /\ g.ok => /\ g.dev.fill # None /\ MayPack(kind)
                 /\ Len(g.dev.fill.expect) < DeferredMax
                 /\ g.dev.fill.outputs + Outputs(kind) <= OutputMax
  BY <1>1, AtHand, GetTxMessageCounts
<1>4. c \in Command /\ <<c>> \in Seq(Command) /\ issued + 1 \in 0 .. MaxCommands
  <2>1. issued + 1 \in 1 .. MaxCommands
    BY <1>1, PipelineConstants
  <2>2. c \in Command
    BY <2>1, CommandsDiffer
  <2> QED BY <2>1, <2>2
<1> HIDE DEF c
<1>5. CASE g.ok /\ Deferrable(kind)
  <2> DEFINE d == Pack(g.dev, c, Outputs(kind))
  <2>1. Outputs(kind) \in Nat
    BY DEF Outputs
  <2>2. /\ d \in Device /\ d.free = g.dev.free /\ d.fill # None /\ d.next = g.dev.next
        /\ d.fill.expect = Append(g.dev.fill.expect, c) /\ d.fill.outputs = g.dev.fill.outputs + Outputs(kind)
        /\ d.locked = g.dev.locked /\ d.deferError = g.dev.deferError /\ d.parted = g.dev.parted
    <3>1. g.dev \in Device /\ g.dev.fill # None
      BY <1>3, <1>5 DEF Usable
    <3> QED BY <1>4, <2>1, <3>1, Packs
  <2> HIDE DEF d
  <2>3. Counted(d)
    BY <1>3, <1>5, <2>2 DEF Counted, Filling, Usable
  <2>4. g.dev.fill \in Record
    BY <1>3, <1>5, DeviceFields DEF Usable
  <2>5. Len(d.fill.expect) = Len(g.dev.fill.expect) + 1 /\ Len(g.dev.fill.expect) \in Nat /\ g.dev.fill.outputs \in Nat
    <3>1. g.dev.fill.expect \in Seq(Command) /\ g.dev.fill.outputs \in Nat
      BY <2>4 DEF Record
    <3> QED BY <1>4, <2>2, <3>1
  <2>6. Fits(d)
    BY <1>3, <1>5, <2>2, <2>5, PipelineConstants DEF Fits
  <2>7. Usable(d) /\ SameLock(dev, d)
    BY <1>3, <2>2, <2>3, <2>6 DEF Usable, SameLock
  <2>8. Usable(dev') /\ SameLock(dev, dev')
    <3>1. CASE kind = "big"
      <4>1. PICK s \in SendContinue(d) : dev' = s.dev
        BY <1>2, <1>5, <3>1 DEF d
      <4>2. Usable(s.dev) /\ SameLock(d, s.dev)
        BY <2>2, <2>3, SendContinueCounts
      <4> QED BY <2>7, <4>1, <4>2 DEF SameLock
    <3>2. CASE kind # "big"
      <4>1. dev' = d
        BY <1>2, <1>5, <3>2 DEF d
      <4> QED BY <2>7, <4>1
    <3> QED BY <3>1, <3>2
  <2>9. call' = NoCall /\ result' = "ok"
    BY <1>1, <1>2, <1>5
  <2>10. Accounted'
    BY <1>1, <2>8, <2>9 DEF Accounted, Usable, SameLock, RecordAtHand
  <2> QED BY <1>1, <1>4, <2>9, <2>10, CallKinds DEF ValuesTyped
<1>6. CASE ~(g.ok /\ Deferrable(kind))
  <2>1. SendReceive(g.dev, "command", <<c>>) /\ result' = result
    BY <1>2, <1>6
  <2>2. g.dev.locked /\ ~g.dev.deferError
    BY <1>1, <1>3 DEF SameLock
  <2>3. Accounted' /\ call' \in [of : {"none", "command", "flush", "unlock", "other"}, error : BOOLEAN]
    BY <1>3, <1>4, <2>1, <2>2, WaitsAccounted
  <2> QED BY <1>1, <1>4, <2>1, <2>3 DEF ValuesTyped
<1> QED BY <1>5, <1>6

\* Every step accounts for the records, and keeps the other values in range.
LEMMA AccountedNext == Accounted /\ ValuesTyped /\ [Next]_vars => Accounted' /\ ValuesTyped'
<1> SUFFICES ASSUME Accounted, ValuesTyped, [Next]_vars PROVE Accounted' /\ ValuesTyped'
  OBVIOUS
<1> DEFINE Call == [of : {"none", "command", "flush", "unlock", "other"}, error : BOOLEAN]
<1>t. dev \in Device /\ Counted(dev) /\ Fits(dev) /\ call \in Call /\ <<>> \in Seq(Command)
  BY DEF Accounted, ValuesTyped
<1>0. CASE UNCHANGED vars
  BY <1>0 DEF vars, Accounted, ValuesTyped, RecordAtHand
<1>1. ASSUME NEW s \in Styles, Lock(s) PROVE Accounted' /\ ValuesTyped'
  <2>1. /\ call = NoCall /\ call' = call /\ issued' = issued /\ style' = s /\ result' = "ok"
        /\ Usable(dev') /\ dev'.locked = TRUE /\ dev'.deferError = FALSE
    BY <1>1, Locks
  <2>2. Accounted'
    BY <2>1 DEF Accounted, Usable, RecordAtHand
  <2> QED BY <2>1, <2>2, PipelineConstants DEF ValuesTyped
<1>2. ASSUME NEW kind \in Kinds, Issue(kind) PROVE Accounted' /\ ValuesTyped'
  BY <1>2, IssueAccounted
<1>3. CASE Receive
  <2>1. call # NoCall /\ dev.next # <<>> /\ style' = style /\ issued' = issued /\ result' = result
    BY <1>3 DEF Receive, AllReceived
  <2>2. PICK r \in ReceiveResponse(dev, TRUE) :
          dev' = r.dev /\ call' = [call EXCEPT !.error = @ \/ r.error]
    BY <1>3 DEF Receive
  <2>3. r.dev \in Device /\ Counted(r.dev) /\ r.dev.fill = dev.fill /\ r.error \in BOOLEAN
    BY <1>t, <2>1, AnswerCounts
  <2>4. dev.fill = None
    BY <2>1 DEF Accounted
  <2>5. call.of # "none" \/ call.error
    BY <1>t, <2>1 DEF NoCall
  <2>6. call' \in Call /\ call' # NoCall
    <3>1. (call.error \/ r.error) \in BOOLEAN
      OBVIOUS
    <3>2. call' \in Call /\ call'.of = call.of /\ (call.error => call'.error)
      BY <1>t, <2>2, <3>1
    <3> QED BY <2>5, <3>2, CallKinds
  <2>7. Accounted'
    BY <2>2, <2>3, <2>4, <2>6 DEF Accounted, Fits, RecordAtHand
  <2> QED BY <2>1, <2>6, <2>7 DEF ValuesTyped
<1>4. CASE Return
  <2>1. call # NoCall /\ dev.next = <<>> /\ call' = NoCall /\ style' = style /\ issued' = issued
    BY <1>4 DEF Return, AllReceived
  <2>2. dev' = After(dev, call)
    BY <1>4 DEF Return, After
  <2>3. dev' \in Device /\ dev'.free = dev.free /\ dev'.fill = dev.fill /\ dev'.next = dev.next
    BY <1>t, <2>2, Returned
  <2>4. dev.fill = None /\ Filling(dev) = 0 /\ Len(<<>>) = 0
    BY <2>1 DEF Accounted, Filling
  <2>5. dev.free > 0
    BY <1>t, <2>1, <2>4, DeviceFields, PipelineConstants DEF Counted
  <2>6. Counted(dev') /\ Fits(dev')
    BY <1>t, <2>3 DEF Counted, Filling, Fits
  <2>7. Accounted'
    BY <2>1, <2>3, <2>4, <2>5, <2>6 DEF Accounted, RecordAtHand
  <2>8. result' \in {"ok", "error", "done", "flushed"}
    BY <1>4 DEF Return, ValuesTyped
  <2> QED BY <2>1, <2>7, <2>8, CallKinds DEF ValuesTyped
<1>5. CASE PendingError
  <2>1. /\ call = NoCall /\ dev.deferError /\ dev' = [dev EXCEPT !.deferError = FALSE] /\ result' = "error"
        /\ call' = call /\ style' = style /\ issued' = issued
    BY <1>5 DEF PendingError
  <2>2. dev' \in Device /\ dev'.free = dev.free /\ dev'.fill = dev.fill /\ dev'.next = dev.next /\ dev'.deferError = FALSE
    BY <1>t, <2>1 DEF Device
  <2>3. Counted(dev') /\ Fits(dev')
    BY <1>t, <2>2 DEF Counted, Filling, Fits
  <2>4. Accounted'
    BY <2>1, <2>2, <2>3 DEF Accounted, RecordAtHand
  <2> QED BY <2>1, <2>4 DEF ValuesTyped
<1>6. CASE Flush
  <2>1. call = NoCall /\ dev.locked /\ style' = style /\ issued' = issued
    BY <1>6 DEF Flush
  <2>2. CASE dev.fill = None /\ dev.next = <<>>
    <3>1. result' = "flushed" /\ dev' = dev /\ call' = call
      BY <1>6, <2>2 DEF Flush
    <3> QED BY <2>1, <3>1 DEF Accounted, ValuesTyped, RecordAtHand
  <2>3. CASE ~(dev.fill = None /\ dev.next = <<>>)
    <3>1. SendReceive(dev, "flush", <<>>) /\ result' = result
      BY <1>6, <2>3 DEF Flush
    <3>2. /\ dev' \in Device /\ Counted(dev') /\ dev'.fill = None
          /\ call' = [of |-> "flush", error |-> FALSE]
      BY <1>t, <2>1, <3>1, AtHand, SendReceiveCounts
    <3>3. call' # NoCall /\ call' \in Call /\ Fits(dev')
      BY <3>2, CallKinds DEF Fits
    <3>4. Accounted'
      BY <3>2, <3>3 DEF Accounted, RecordAtHand
    <3> QED BY <2>1, <3>1, <3>3, <3>4 DEF ValuesTyped
  <2> QED BY <2>2, <2>3
<1>7. CASE Unlock
  <2>1. call = NoCall /\ dev.locked /\ ~dev.deferError /\ style' = style /\ issued' = issued /\ result' = result
    BY <1>7 DEF Unlock
  <2>2. PICK g \in GetTxMessage(dev, "plain") : SendReceive(g.dev, "unlock", <<UNLOCK>>)
    BY <1>7 DEF Unlock
  <2>3. Usable(g.dev) /\ SameLock(dev, g.dev)
    BY <2>1, AtHand, GetTxMessageCounts
  <2>4. <<UNLOCK>> \in Seq(Command)
    <3>1. UNLOCK \in Command
      BY CommandsDiffer
    <3> QED BY <3>1
  <2>5. g.dev.locked /\ ~g.dev.deferError
    BY <2>1, <2>3 DEF SameLock
  <2>6. Accounted' /\ call' \in Call
    BY <2>2, <2>3, <2>4, <2>5, WaitsAccounted
  <2> QED BY <2>1, <2>6 DEF ValuesTyped
<1>8. CASE UnlockPending
  <2>1. /\ call = NoCall /\ dev.deferError /\ dev' = [dev EXCEPT !.locked = FALSE, !.deferError = FALSE] /\ result' = "error"
        /\ call' = call /\ style' = style /\ issued' = issued
    BY <1>8 DEF UnlockPending
  <2>2. dev' \in Device /\ dev'.free = dev.free /\ dev'.fill = dev.fill /\ dev'.next = dev.next
    BY <1>t, <2>1, FlagsChanged
  <2>3. Counted(dev') /\ Fits(dev')
    BY <1>t, <2>2 DEF Counted, Filling, Fits
  <2>4. Accounted'
    BY <2>1, <2>2, <2>3 DEF Accounted, RecordAtHand
  <2> QED BY <2>1, <2>4 DEF ValuesTyped
<1>9. CASE SendDeferred
  <2>1. call = NoCall /\ SendReceive(dev, "other", <<>>) /\ style' = style /\ issued' = issued /\ result' = result
    BY <1>9 DEF SendDeferred
  <2>2. /\ dev' \in Device /\ Counted(dev') /\ dev'.fill = None
        /\ call' = [of |-> "other", error |-> FALSE]
    BY <1>t, <2>1, AtHand, SendReceiveCounts
  <2>3. call' # NoCall /\ call' \in Call /\ Fits(dev')
    BY <2>2, CallKinds DEF Fits
  <2>4. Accounted'
    BY <2>2, <2>3 DEF Accounted, RecordAtHand
  <2> QED BY <2>1, <2>3, <2>4 DEF ValuesTyped
<1> QED BY <1>0, <1>1, <1>2, <1>3, <1>4, <1>5, <1>6, <1>7, <1>8, <1>9 DEF Next

\* What has parted while a call looks for a record is seen when the call is made.
LEMMA GivenParted ==
    ASSUME Accounted, call = NoCall, issued < MaxCommands, issued \in Nat, NEW kind, NEW g \in GetTxMessage(dev, kind),
           \/ /\ g.ok /\ Deferrable(kind)
              /\ LET d == Pack(g.dev, Own(issued + 1), Outputs(kind)) IN
                 dev' \in IF kind = "big" THEN {s.dev : s \in SendContinue(d)} ELSE {d}
              /\ result' = "ok"
              /\ UNCHANGED call
           \/ /\ ~(g.ok /\ Deferrable(kind))
              /\ SendReceive(g.dev, "command", <<Own(issued + 1)>>)
              /\ UNCHANGED result
    PROVE  (dev.parted => g.dev.parted) /\ (g.dev.parted => dev'.parted)
<1> DEFINE c == Own(issued + 1)
<1>1. Usable(g.dev) /\ SameLock(dev, g.dev) /\ (g.ok => g.dev.fill # None)
  BY AtHand, GetTxMessageCounts
<1>2. c \in Command /\ <<c>> \in Seq(Command)
  <2>1. issued + 1 \in 1 .. MaxCommands
    BY PipelineConstants
  <2>2. c \in Command
    BY <2>1, CommandsDiffer
  <2> QED BY <2>2
<1>3. ASSUME SendReceive(g.dev, "command", <<c>>) PROVE SameLock(g.dev, dev')
  <2> HIDE DEF c
  <2> QED BY <1>1, <1>2, <1>3, SendReceiveCounts
<1>4. ASSUME g.ok, dev' \in IF kind = "big" THEN {s.dev : s \in SendContinue(Pack(g.dev, c, Outputs(kind)))}
                                          ELSE {Pack(g.dev, c, Outputs(kind))}
      PROVE  g.dev.parted => dev'.parted
  <2> DEFINE d == Pack(g.dev, c, Outputs(kind))
  <2>1. Outputs(kind) \in Nat
    BY DEF Outputs
  <2>2. d \in Device /\ d.fill # None /\ d.free = g.dev.free /\ d.next = g.dev.next /\ d.parted = g.dev.parted
    <3> HIDE DEF c
    <3> QED BY <1>1, <1>2, <1>4, <2>1, Packs DEF Usable
  <2>3. dev' = d \/ \E s \in SendContinue(d) : dev' = s.dev
    BY <1>4
  <2> HIDE DEF d
  <2>4. Counted(d)
    BY <1>1, <1>4, <2>2 DEF Counted, Filling, Usable
  <2>5. \A s \in SendContinue(d) : SameLock(d, s.dev)
    BY <2>2, <2>4, SendContinueCounts
  <2> QED BY <2>2, <2>3, <2>5 DEF SameLock
<1> QED BY <1>1, <1>3, <1>4 DEF SameLock

\* The same for an unlock.
LEMMA UnlockParted ==
    ASSUME Accounted, call = NoCall, NEW g \in GetTxMessage(dev, "plain"), SendReceive(g.dev, "unlock", <<UNLOCK>>)
    PROVE  (dev.parted => g.dev.parted) /\ (g.dev.parted => dev'.parted)
<1>1. Usable(g.dev) /\ SameLock(dev, g.dev)
  BY AtHand, GetTxMessageCounts
<1>2. <<UNLOCK>> \in Seq(Command)
  <2>1. UNLOCK \in Command
    BY CommandsDiffer
  <2> QED BY <2>1
<1>3. SameLock(g.dev, dev')
  BY <1>1, <1>2, SendReceiveCounts
<1> QED BY <1>1, <1>3 DEF SameLock

\* What has parted stays so: nothing brings the answers back in step.
LEMMA PartedStays == Accounted /\ ValuesTyped /\ [Next]_vars /\ dev.parted => dev'.parted
<1> SUFFICES ASSUME Accounted, ValuesTyped, [Next]_vars, dev.parted PROVE dev'.parted
  OBVIOUS
<1>t. dev \in Device /\ call \in [of : {"none", "command", "flush", "unlock", "other"}, error : BOOLEAN]
      /\ <<>> \in Seq(Command)
  BY DEF Accounted, ValuesTyped
<1>s. ASSUME NEW d, Usable(d), d.parted, NEW of, NEW own \in Seq(Command), SendReceive(d, of, own)
      PROVE  dev'.parted
  BY <1>s, SendReceiveCounts DEF SameLock
<1>0. CASE UNCHANGED vars
  BY <1>0 DEF vars
<1>1. ASSUME NEW s \in Styles, Lock(s) PROVE dev'.parted
  BY <1>1, Locks
<1>2. ASSUME NEW kind \in Kinds, Issue(kind) PROVE dev'.parted
  BY <1>2, GivenParted DEF Issue, ValuesTyped
<1>3. CASE Receive
  <2>1. dev.next # <<>> /\ Counted(dev) /\ \E r \in ReceiveResponse(dev, TRUE) : dev' = r.dev
    BY <1>3 DEF Receive, AllReceived, Accounted
  <2> QED BY <1>t, <2>1, AnswerTyped
<1>4. CASE Return
  <2>1. dev' = After(dev, call)
    BY <1>4 DEF Return, After
  <2> QED BY <1>t, <2>1, Returned
<1>5. CASE PendingError
  <2>1. dev' = [dev EXCEPT !.deferError = FALSE]
    BY <1>5 DEF PendingError
  <2> QED BY <1>t, <2>1 DEF Device
<1>6. CASE Flush
  <2>1. call = NoCall /\ (dev' = dev \/ SendReceive(dev, "flush", <<>>))
    BY <1>6 DEF Flush
  <2> QED BY <1>t, <1>s, <2>1, AtHand
<1>7. CASE Unlock
  BY <1>7, UnlockParted DEF Unlock
<1>8. CASE UnlockPending
  <2>1. dev' = [dev EXCEPT !.locked = FALSE, !.deferError = FALSE]
    BY <1>8 DEF UnlockPending
  <2> QED BY <1>t, <2>1, FlagsChanged
<1>9. CASE SendDeferred
  <2>1. call = NoCall /\ SendReceive(dev, "other", <<>>)
    BY <1>9 DEF SendDeferred
  <2> QED BY <1>t, <1>s, <2>1, AtHand
<1> QED BY <1>0, <1>1, <1>2, <1>3, <1>4, <1>5, <1>6, <1>7, <1>8, <1>9 DEF Next

\* At first every record is free.
LEMMA AccountedInit == Init => Accounted /\ ValuesTyped
<1> SUFFICES ASSUME Init PROVE Accounted /\ ValuesTyped
  OBVIOUS
<1>1. <<>> \in Seq(Packet) /\ <<>> \in Seq(Command) /\ <<>> \in Seq(Ids) /\ Len(<<>>) = 0
  OBVIOUS
<1>2. dev \in Device /\ dev.free = Buffers /\ dev.fill = None /\ dev.next = <<>>
  BY <1>1, PipelineConstants DEF Init, Device
<1>3. Counted(dev) /\ Fits(dev)
  BY <1>1, <1>2, PipelineConstants DEF Counted, Filling, Fits
<1>4. Accounted
  BY <1>2, <1>3, PipelineConstants DEF Accounted, RecordAtHand
<1>5. ValuesTyped
  BY PipelineConstants, CallKinds DEF Init, ValuesTyped, AllStyles
<1> QED BY <1>4, <1>5

\* The records are accounted for in every state.
LEMMA AlwaysAccounted == Spec => [](Accounted /\ ValuesTyped)
<1> DEFINE IInv == Accounted /\ ValuesTyped
<1>1. Init => IInv
  BY AccountedInit
<1>2. IInv /\ [Next]_vars => IInv'
  BY AccountedNext
<1> HIDE DEF IInv
<1>3. Spec => []IInv
  BY <1>1, <1>2, PTL DEF Spec
<1> QED BY <1>3 DEF IInv

\* No ACTIONS record is lost, one is at hand when a call asks for it, and none
\* is filled beyond its arrays (get_txmessage, send_continue, receive_response).
THEOREM Records == Spec => []RecordsSound
<1>1. Accounted /\ ValuesTyped => RecordsSound
  <2> SUFFICES ASSUME Accounted, ValuesTyped PROVE RecordsSound
    OBVIOUS
  <2>1. dev \in Device /\ Counted(dev) /\ Fits(dev) /\ RecordAtHand
    BY DEF Accounted
  <2>2. dev.free \in Nat /\ Len(dev.next) \in Nat /\ Filling(dev) \in Nat
    BY <2>1, DeviceFields DEF Filling
  <2>3. dev.free \in 0 .. Buffers
    BY <2>1, <2>2, PipelineConstants DEF Counted
  <2>4. TypeOK
    BY <2>1, <2>3 DEF TypeOK, ValuesTyped, Device, Record
  <2> QED BY <2>1, <2>4 DEF RecordsSound, RecordsKept, Counted, Filling, WithinRecord, Fits
<1> QED BY <1>1, AlwaysAccounted, PTL

-----------------------------------------------------------------------------
(* Answers stay in step with the commands.                                  *)

\* How a packet grows.
LEMMA PacketGrows ==
    ASSUME NEW t \in Seq(Command), NEW c \in Command
    PROVE  /\ Append(t, c) # <<>>
           /\ t = <<>> => Append(t, c) = <<c>> /\ Append(t, c)[1] = c
           /\ t # <<>> => Append(t, c)[1] = t[1]
           /\ \A x : Contains(Append(t, c), x) <=> Contains(t, x) \/ x = c
<1>1. /\ Len(t) \in Nat /\ Len(Append(t, c)) = Len(t) + 1 /\ Append(t, c)[Len(t) + 1] = c
      /\ \A i \in 1 .. Len(t) : Append(t, c)[i] = t[i]
  OBVIOUS
<1>2. t = <<>> => Append(t, c) = <<c>> /\ Append(t, c)[1] = c
  OBVIOUS
<1>3. ASSUME t # <<>> PROVE Append(t, c)[1] = t[1]
  <2>1. 1 \in 1 .. Len(t)
    BY <1>3
  <2> QED BY <1>1, <2>1
<1>4. ASSUME NEW x
      PROVE  Contains(Append(t, c), x) <=> Contains(t, x) \/ x = c
  <2>1. ASSUME Contains(Append(t, c), x) PROVE Contains(t, x) \/ x = c
    <3>1. PICK i \in 1 .. Len(Append(t, c)) : Append(t, c)[i] = x
      BY <2>1 DEF Contains
    <3>2. i = Len(t) + 1 \/ i \in 1 .. Len(t)
      BY <1>1, <3>1
    <3> QED BY <1>1, <3>1, <3>2 DEF Contains
  <2>2. ASSUME Contains(t, x) \/ x = c PROVE Contains(Append(t, c), x)
    <3>1. \E i \in 1 .. Len(t) + 1 : Append(t, c)[i] = x
      <4>1. CASE x = c
        <5>1. Len(t) + 1 \in 1 .. Len(t) + 1
          BY <1>1
        <5> QED BY <1>1, <4>1, <5>1
      <4>2. CASE Contains(t, x)
        <5>1. PICK i \in 1 .. Len(t) : t[i] = x
          BY <4>2 DEF Contains
        <5>2. i \in 1 .. Len(t) + 1
          BY <1>1, <5>1
        <5> QED BY <1>1, <5>1, <5>2
      <4> QED BY <2>2, <4>1, <4>2
    <3> QED BY <1>1, <3>1 DEF Contains
  <2> QED BY <2>1, <2>2
<1>5. Append(t, c) # <<>>
  BY <1>1
<1> QED BY <1>2, <1>3, <1>4, <1>5

\* A packet with at most one command more.
LEMMA PacketEnds ==
    ASSUME NEW t \in Seq(Command), NEW own \in {<<>>} \cup {<<c>> : c \in Command}
    PROVE  /\ t \o own \in Seq(Command) /\ own \in Seq(Command)
           /\ t # <<>> => t \o own # <<>> /\ (t \o own)[1] = t[1]
           /\ t = <<>> => t \o own = own
           /\ \A x : Contains(t \o own, x) => Contains(t, x) \/ own = <<x>>
<1>1. CASE own = <<>>
  <2>1. t \o own = t
    BY <1>1, ConcatEmptySeq
  <2> QED BY <1>1, <2>1
<1>2. CASE own \in {<<c>> : c \in Command}
  <2>1. PICK c \in Command : own = <<c>>
    BY <1>2
  <2>2. t \o own = Append(t, c) /\ Append(t, c) \in Seq(Command) /\ <<c>> \in Seq(Command)
    BY <2>1
  <2>3. /\ Append(t, c) # <<>>
        /\ t = <<>> => Append(t, c) = <<c>>
        /\ t # <<>> => Append(t, c)[1] = t[1]
        /\ \A x : Contains(Append(t, c), x) <=> Contains(t, x) \/ x = c
    BY PacketGrows
  <2>4. \A x : Contains(t \o own, x) => Contains(t, x) \/ own = <<x>>
    BY <2>1, <2>2, <2>3
  <2> QED BY <2>1, <2>2, <2>3, <2>4
<1> QED BY <1>1, <1>2

\* The packets, when one more is sent.
LEMMA PacketAdded ==
    ASSUME NEW n \in Seq(Packet), NEW p \in Packet
    PROVE  /\ Append(n, p) # <<>> /\ Len(n) \in Nat /\ Len(Append(n, p)) = Len(n) + 1 /\ Append(n, p)[Len(n) + 1] = p
           /\ \A i \in 1 .. Len(n) : Append(n, p)[i] = n[i]
           /\ Head(Append(n, p)) = IF n = <<>> THEN p ELSE Head(n)
<1>1. /\ Append(n, p) # <<>> /\ Len(n) \in Nat /\ Len(Append(n, p)) = Len(n) + 1 /\ Append(n, p)[Len(n) + 1] = p
      /\ \A i \in 1 .. Len(n) : Append(n, p)[i] = n[i]
  OBVIOUS
<1>2. Head(Append(n, p)) = IF n = <<>> THEN p ELSE Head(n)
  <2>1. CASE n = <<>>
    BY <1>1, <2>1
  <2>2. CASE n # <<>>
    <3>1. 1 \in 1 .. Len(n)
      BY <2>2
    <3>2. Append(n, p)[1] = n[1] /\ Head(n) = n[1] /\ Head(Append(n, p)) = Append(n, p)[1]
      BY <1>1, <2>2, <3>1
    <3> QED BY <2>2, <3>2
  <2> QED BY <2>1, <2>2
<1> QED BY <1>1, <1>2

\* The packets, when the oldest was answered.
LEMMA PacketRemoved ==
    ASSUME NEW n \in Seq(Packet), n # <<>>
    PROVE  /\ Tail(n) \in Seq(Packet) /\ Len(n) \in Nat /\ Len(Tail(n)) = Len(n) - 1
           /\ \A i \in 1 .. Len(Tail(n)) : i + 1 \in 2 .. Len(n) /\ Tail(n)[i] = n[i + 1]
           /\ Head(n) = n[1] /\ 1 \in 1 .. Len(n)
           /\ Tail(n) # <<>> => Head(Tail(n)) = n[2] /\ 2 \in 2 .. Len(n)
<1>1. /\ Tail(n) \in Seq(Packet) /\ Len(n) \in Nat /\ Len(Tail(n)) = Len(n) - 1
      /\ \A i \in 1 .. Len(Tail(n)) : Tail(n)[i] = n[i + 1]
      /\ Head(n) = n[1] /\ 1 \in 1 .. Len(n)
  OBVIOUS
<1>2. \A i \in 1 .. Len(Tail(n)) : i + 1 \in 2 .. Len(n)
  BY <1>1
<1>3. ASSUME Tail(n) # <<>> PROVE Head(Tail(n)) = n[2] /\ 2 \in 2 .. Len(n)
  <2>1. 1 \in 1 .. Len(Tail(n)) /\ Head(Tail(n)) = Tail(n)[1]
    BY <1>1, <1>3
  <2>2. Tail(n)[1] = n[1 + 1] /\ 1 + 1 \in 2 .. Len(n) /\ 1 + 1 = 2
    BY <1>1, <1>2, <2>1
  <2> QED BY <2>1, <2>2
<1> QED BY <1>1, <1>2, <1>3

\* All that changes when a record is begun is the record.
LEMMA TakenSound ==
    ASSUME NEW d \in Device, d.free > 0, d.fill = None, NEW packs, Between(d, packs), d.locked, ~d.deferError
    PROVE  LET e == TakeActions(d) IN Between(e, packs) /\ SameLock(d, e) /\ e \in Device /\ e.fill # None
<1> DEFINE e == TakeActions(d)
<1>1. /\ e \in Device /\ e.free = d.free - 1 /\ e.fill = EmptyActions /\ e.next = d.next
      /\ e.tx = d.tx /\ e.executed = d.executed
      /\ e.locked = d.locked /\ e.lockFail = d.lockFail /\ e.deferError = d.deferError
      /\ e.granted = d.granted /\ e.stuck = d.stuck /\ e.parted = d.parted
  BY Taken
<1> HIDE DEF e
<1>2. e.fill # None /\ e.fill.expect = <<>>
  BY <1>1, RecordIsSome
<1>3. d.next = <<>> /\ d.tx = <<>>
  BY DEF Between, Sound, Lined
<1>4. Lined(e)
  BY <1>1, <1>2, <1>3 DEF Between, Sound, Lined
<1>5. First(e) = First(d) /\ Believed(e) = Believed(d) /\ StaysLocked(e) = StaysLocked(d)
  BY <1>1 DEF First, Believed, StaysLocked
<1>6. Sound(e, packs)
  BY <1>1, <1>4, <1>5 DEF Between, Sound
<1> QED BY <1>1, <1>2, <1>3, <1>6 DEF Between, SameLock, e

\* Packing a command of the program's.
LEMMA PackSound ==
    ASSUME NEW d \in Device, d.fill # None, NEW packs, Between(d, packs), d.locked, ~d.deferError,
           NEW c \in Ids, NEW outputs \in Nat
    PROVE  LET e == Pack(d, c, outputs) IN Between(e, packs) /\ SameLock(d, e) /\ e \in Device /\ e.fill # None
<1> DEFINE e == Pack(d, c, outputs)
<1>0. c \in Command /\ c # CONTINUE /\ c # UNLOCK
  BY CommandsDiffer
<1>1. /\ e \in Device /\ e.free = d.free /\ e.fill # None /\ e.next = d.next
      /\ e.fill.expect = Append(d.fill.expect, c) /\ e.fill.outputs = d.fill.outputs + outputs
      /\ e.tx = Append(d.tx, c) /\ e.executed = d.executed
      /\ e.locked = d.locked /\ e.lockFail = d.lockFail /\ e.deferError = d.deferError
      /\ e.granted = d.granted /\ e.stuck = d.stuck /\ e.parted = d.parted
  BY <1>0, Packs
<1> HIDE DEF e
<1>2. /\ d.tx \in Seq(Command) /\ e.tx # <<>> /\ (d.tx = <<>> => e.tx[1] = c)
      /\ (d.tx # <<>> => e.tx[1] = d.tx[1])
      /\ \A x : Contains(e.tx, x) <=> Contains(d.tx, x) \/ x = c
  BY <1>0, <1>1, DeviceFields, PacketGrows
<1>3. Continues(e.tx) = Continues(d.tx)
  BY <1>0, <1>2 DEF Continues
<1>4. Lined(e)
  BY <1>1, <1>3 DEF Between, Sound, Lined
<1>5. StaysLocked(e)
  BY <1>0, <1>1, <1>2 DEF Between, Sound, StaysLocked
<1>6. Continues(First(e)) = Continues(First(d)) /\ (Believed(d) => Believed(e))
  BY <1>1, <1>2, <1>3 DEF First, Believed
<1>7. Sound(e, packs)
  BY <1>1, <1>4, <1>5, <1>6 DEF Between, Sound
<1> QED BY <1>1, <1>7 DEF Between, SameLock, e

\* Sending what is packed.
LEMMA SentSound ==
    ASSUME NEW d \in Device, d.fill # None, NEW packs, Sound(d, packs)
    PROVE  LET e == SendCommand(d, <<>>) IN
           /\ Sound(e, packs) /\ SameLock(d, e) /\ e \in Device /\ e.fill = None /\ e.tx = <<>> /\ e.next # <<>>
           /\ e.executed = d.executed
<1> DEFINE e == SendCommand(d, <<>>)
           p == [sent |-> d.tx, expect |-> d.fill.expect \o <<>>]
<1>0. <<>> \in Seq(Command)
  OBVIOUS
<1>1. /\ e \in Device /\ e.free = d.free /\ e.fill = None /\ e.tx = <<>>
      /\ e.next = Append(d.next, p)
      /\ e.executed = d.executed
      /\ e.locked = d.locked /\ e.lockFail = d.lockFail /\ e.deferError = d.deferError
      /\ e.granted = d.granted /\ e.stuck = d.stuck /\ e.parted = d.parted
  BY <1>0, PacketSent
<1>2. p.sent = d.tx /\ p.expect = d.tx /\ p \in Packet
  <2>1. d.fill.expect \in Seq(Command) /\ d.tx \in Seq(Command)
    BY DeviceFields DEF Record
  <2>2. d.fill.expect \o <<>> = d.fill.expect
    BY <2>1, ConcatEmptySeq
  <2>3. d.tx = d.fill.expect
    BY DEF Sound, Lined
  <2> QED BY <2>1, <2>2, <2>3 DEF Packet
<1> HIDE DEF e, p
<1>3. d.next \in Seq(Packet)
  BY DeviceFields
<1>4. /\ e.next # <<>> /\ Len(d.next) \in Nat /\ Len(e.next) = Len(d.next) + 1 /\ e.next[Len(d.next) + 1] = p
      /\ \A i \in 1 .. Len(d.next) : e.next[i] = d.next[i]
      /\ Head(e.next) = IF d.next = <<>> THEN p ELSE Head(d.next)
  BY <1>1, <1>2, <1>3, PacketAdded
<1>5. Lined(e)
  <2>1. ASSUME NEW i \in 1 .. Len(e.next) PROVE e.next[i].sent = e.next[i].expect
    <3>1. i \in 1 .. Len(d.next) \/ i = Len(d.next) + 1
      BY <1>4
    <3> QED BY <1>2, <1>4, <3>1 DEF Sound, Lined
  <2>2. ASSUME NEW i \in 2 .. Len(e.next) PROVE Continues(e.next[i].sent)
    <3>1. CASE i \in 2 .. Len(d.next)
      <4>1. i \in 1 .. Len(d.next)
        BY <1>4, <3>1
      <4> QED BY <1>4, <3>1, <4>1 DEF Sound, Lined
    <3>2. CASE i = Len(d.next) + 1
      <4>1. Len(d.next) # 0
        BY <1>4, <3>2
      <4>2. d.next # <<>>
        BY <4>1
      <4> QED BY <1>2, <1>4, <3>2, <4>2 DEF Sound, Lined
    <3> QED BY <1>4, <3>1, <3>2
  <2> QED BY <1>1, <2>1, <2>2 DEF Lined
<1>6. StaysLocked(e)
  <2>1. ASSUME NEW i \in 1 .. Len(e.next) PROVE ~Contains(e.next[i].sent, UNLOCK)
    <3>1. i \in 1 .. Len(d.next) \/ i = Len(d.next) + 1
      BY <1>4
    <3> QED BY <1>2, <1>4, <3>1 DEF Sound, StaysLocked
  <2>2. ~Contains(<<>>, UNLOCK)
    BY DEF Contains
  <2> QED BY <1>1, <2>1, <2>2 DEF StaysLocked
<1>7. First(e) = First(d)
  BY <1>2, <1>4 DEF First
<1>8. Believed(e) = Believed(d)
  BY <1>1, <1>7 DEF Believed
<1>9. Sound(e, packs)
  BY <1>1, <1>5, <1>6, <1>7, <1>8 DEF Sound
<1> QED BY <1>1, <1>4, <1>9 DEF SameLock, e

\* Lines of packets stay lines when the oldest is answered.
LEMMA AnsweredLined ==
    ASSUME NEW d \in Device, d.next # <<>>, NEW k \in 0 .. Len(Head(d.next).sent), Lined(d)
    PROVE  LET e == Answered(d, k) IN
           /\ Lined(e) /\ (e.next # <<>> => Continues(First(e)))
           /\ StaysLocked(d) => StaysLocked(e)
           /\ Head(d.next).sent = Head(d.next).expect
           /\ StaysLocked(d) => ~Contains(Head(d.next).sent, UNLOCK)
<1> DEFINE e == Answered(d, k)
<1>1. e.fill = d.fill /\ e.next = Tail(d.next) /\ e.tx = d.tx
  BY AnswerRead
<1> HIDE DEF e
<1>2. /\ Len(d.next) \in Nat /\ Len(e.next) = Len(d.next) - 1
      /\ \A i \in 1 .. Len(e.next) : i + 1 \in 2 .. Len(d.next) /\ e.next[i] = d.next[i + 1]
      /\ Head(d.next) = d.next[1] /\ 1 \in 1 .. Len(d.next)
      /\ e.next # <<>> => Head(e.next) = d.next[2] /\ 2 \in 2 .. Len(d.next)
  BY <1>1, DeviceFields, PacketRemoved
<1>3. Lined(e)
  <2>1. ASSUME NEW i \in 1 .. Len(e.next) PROVE e.next[i].sent = e.next[i].expect
    <3>1. i + 1 \in 1 .. Len(d.next)
      BY <1>2
    <3> QED BY <1>2, <3>1 DEF Lined
  <2>2. ASSUME NEW i \in 2 .. Len(e.next) PROVE Continues(e.next[i].sent)
    <3>1. i \in 1 .. Len(e.next)
      BY <1>2
    <3> QED BY <1>2, <3>1 DEF Lined
  <2>3. e.next # <<>> => d.next # <<>>
    OBVIOUS
  <2> QED BY <1>1, <2>1, <2>2, <2>3 DEF Lined
<1>4. e.next # <<>> => Continues(First(e))
  BY <1>2 DEF First, Lined
<1>5. ASSUME StaysLocked(d) PROVE StaysLocked(e)
  <2>1. ASSUME NEW i \in 1 .. Len(e.next) PROVE ~Contains(e.next[i].sent, UNLOCK)
    <3>1. i + 1 \in 1 .. Len(d.next)
      BY <1>2
    <3> QED BY <1>2, <1>5, <3>1 DEF StaysLocked
  <2> QED BY <1>1, <1>5, <2>1 DEF StaysLocked
<1> QED BY <1>2, <1>3, <1>4, <1>5 DEF e, Lined, StaysLocked

\* The commands that were executed, when all of a packet were.
LEMMA WholePacket == ASSUME NEW sent \in Seq(Command) PROVE SubSeq(sent, 1, Len(sent)) = sent
OBVIOUS

\* An answer that is no error is to a packet that was executed whole.
LEMMA ReadSound ==
    ASSUME NEW d \in Device, d.next # <<>>, Sound(d, TRUE), d.locked, NEW r \in ReceiveResponse(d, TRUE), ~r.error
    PROVE  /\ r.dev = Answered(d, Len(Head(d.next).sent))
           /\ r.dev \in Device /\ Sound(r.dev, TRUE) /\ SameLock(d, r.dev) /\ r.dev.tx = d.tx /\ r.dev.fill = d.fill
           /\ r.dev.granted /\ ~r.dev.stuck
           /\ Len(Head(d.next).sent) \in 0 .. Len(Head(d.next).sent)
<1> DEFINE sent == Head(d.next).sent
<1>1. Head(d.next) \in Packet /\ sent \in Seq(Command) /\ Len(sent) \in Nat
  <2>1. Head(d.next) \in Packet
    BY DeviceFields
  <2>2. sent \in Seq(Command)
    BY <2>1 DEF Packet
  <2> QED BY <2>1, <2>2
<1>2. PICK k \in Executable(d, sent, TRUE) :
        r = [dev |-> Answered(d, k), error |-> k < Len(Head(d.next).expect)]
  BY DEF ReceiveResponse
<1>3. First(d) = sent
  BY DEF First
<1>5. k \in 0 .. Len(sent)
  BY <1>1, ExecutableTyped
<1>6. /\ Lined(Answered(d, k)) /\ StaysLocked(Answered(d, k))
      /\ Head(d.next).sent = Head(d.next).expect /\ ~Contains(sent, UNLOCK)
  BY <1>5, AnsweredLined DEF Sound
<1>7. r.dev = Answered(d, k) /\ ~(k < Len(Head(d.next).expect))
  BY <1>2
<1>4. k = Len(sent)
  <2>1. Head(d.next).expect = sent
    BY <1>6
  <2> HIDE DEF sent
  <2> QED BY <1>1, <1>5, <1>7, <2>1
<1> DEFINE e == Answered(d, k)
<1>8. /\ e \in Device /\ e.tx = d.tx /\ e.fill = d.fill /\ e.locked = d.locked /\ e.deferError = d.deferError
      /\ e.lockFail = (d.lockFail \/ (k < Len(Head(d.next).expect)
                         /\ Contains(SubSeq(Head(d.next).expect, k + 1, Len(Head(d.next).expect)), LOCK)))
      /\ e.granted = ((d.granted \/ Contains(SubSeq(sent, 1, k), LOCK)) /\ ~Contains(SubSeq(sent, 1, k), UNLOCK))
      /\ e.stuck = (k < Len(sent)) /\ e.parted = d.parted
  BY <1>5, AnswerRead
<1> HIDE DEF e
<1>9. SubSeq(sent, 1, k) = sent
  BY <1>1, <1>4, WholePacket
<1> HIDE DEF sent
<1>10. ~e.lockFail /\ ~e.stuck
  <2>1. Head(d.next).expect = sent
    BY <1>6 DEF sent
  <2>2. ~(k < Len(sent))
    BY <1>1, <1>4
  <2>3. ~d.lockFail
    BY DEF Sound
  <2> QED BY <1>8, <2>1, <2>2, <2>3
<1>11. d.granted \/ Contains(sent, LOCK)
  <2>1. ASSUME sent # <<>>, sent[1] = LOCK PROVE Contains(sent, LOCK)
    <3>1. 1 \in 1 .. Len(sent)
      BY <1>1, <2>1
    <3> QED BY <2>1, <3>1 DEF Contains
  <2> QED BY <1>3, <2>1 DEF Sound, Believed
<1>12. e.granted
  BY <1>6, <1>8, <1>9, <1>11
<1>13. Sound(e, TRUE)
  BY <1>6, <1>10, <1>12 DEF Sound, Believed, e
<1> QED BY <1>4, <1>5, <1>7, <1>8, <1>10, <1>12, <1>13 DEF SameLock, e, sent

\* The next packet continues those before it.
LEMMA ContinueSound ==
    ASSUME NEW d \in Device, d.free > 0, d.fill = None, Sound(d, TRUE), d.locked, ~d.deferError,
           d.next # <<>> \/ (d.granted /\ ~d.stuck)
    PROVE  LET e == Continue(d) IN
           Between(e, TRUE) /\ SameLock(d, e) /\ e \in Device /\ e.fill # None /\ e.executed = d.executed
<1> DEFINE e == Continue(d)
<1>1. /\ e \in Device /\ e.free = d.free - 1 /\ e.fill # None /\ e.next = d.next
      /\ e.fill.expect = <<CONTINUE>> /\ e.fill.outputs = 0
      /\ e.tx = Append(d.tx, CONTINUE) /\ e.executed = d.executed
      /\ e.locked = d.locked /\ e.lockFail = d.lockFail /\ e.deferError = d.deferError
      /\ e.granted = d.granted /\ e.stuck = d.stuck /\ e.parted = d.parted
  BY Continued
<1> HIDE DEF e
<1>2. d.tx = <<>> /\ e.tx = <<CONTINUE>> /\ <<CONTINUE>> # <<>> /\ <<CONTINUE>>[1] = CONTINUE
  <2>1. d.tx = <<>>
    BY DEF Sound, Lined
  <2>2. Append(<<>>, CONTINUE) = <<CONTINUE>> /\ <<CONTINUE>> # <<>> /\ <<CONTINUE>>[1] = CONTINUE
    OBVIOUS
  <2> QED BY <1>1, <2>1, <2>2
<1>3. Lined(e)
  BY <1>1, <1>2 DEF Sound, Lined, Continues
<1>4. StaysLocked(e)
  <2>1. ~Contains(<<CONTINUE>>, UNLOCK)
    <3>1. \A i \in 1 .. Len(<<CONTINUE>>) : <<CONTINUE>>[i] = CONTINUE
      OBVIOUS
    <3> QED BY <3>1, CommandsDiffer DEF Contains
  <2> QED BY <1>1, <1>2, <2>1 DEF Sound, StaysLocked
<1>5. e.stuck => ~Continues(First(e))
  BY <1>1 DEF Sound, First
<1>6. Believed(e)
  BY <1>1 DEF Sound, Believed, First
<1>7. Sound(e, TRUE)
  BY <1>1, <1>3, <1>4, <1>5, <1>6 DEF Sound
<1> QED BY <1>1, <1>7 DEF Between, SameLock, e

\* send_continue keeps what holds between calls.
LEMMA SendContinueSound ==
    ASSUME NEW d \in Device, d.fill # None, Between(d, TRUE), d.locked, ~d.deferError,
           NEW s \in SendContinue(d), ~s.dev.parted
    PROVE  Between(s.dev, TRUE) /\ SameLock(d, s.dev) /\ s.dev \in Device /\ s.dev.fill # None
<1> DEFINE sent == SendCommand(d, <<>>)
<1>1. /\ Sound(sent, TRUE) /\ SameLock(d, sent) /\ sent \in Device /\ sent.fill = None /\ sent.next # <<>>
      /\ sent.locked /\ ~sent.deferError
  <2>1. Sound(sent, TRUE) /\ SameLock(d, sent) /\ sent \in Device /\ sent.fill = None /\ sent.next # <<>>
    BY SentSound DEF Between
  <2> QED BY <2>1 DEF SameLock
<1>2. CASE sent.free > 0
  <2>1. s = [dev |-> Continue(sent), ok |-> ~sent.lockFail]
    BY <1>2 DEF SendContinue
  <2> HIDE DEF sent
  <2>2. s.dev = Continue(sent)
    BY <2>1
  <2>3. LET e == Continue(sent) IN Between(e, TRUE) /\ SameLock(sent, e) /\ e \in Device /\ e.fill # None
    BY <1>1, <1>2, ContinueSound
  <2> QED BY <1>1, <2>2, <2>3 DEF SameLock
<1>3. CASE ~(sent.free > 0)
  <2>1. PICK r \in ReceiveResponse(sent, TRUE) :
           s = IF r.error THEN [dev |-> [r.dev EXCEPT !.parted = TRUE], ok |-> FALSE]
               ELSE [dev |-> Continue(r.dev), ok |-> ~r.dev.lockFail]
    BY <1>3 DEF SendContinue
  <2> HIDE DEF sent
  <2>n. ~r.error
    <3> SUFFICES ASSUME r.error PROVE FALSE
      OBVIOUS
    <3>1. s.dev = [r.dev EXCEPT !.parted = TRUE]
      BY <2>1
    <3>2. r.dev \in Device
      BY <1>1, AnswerTyped
    <3> QED BY <3>1, <3>2 DEF Device
  <2>2. /\ r.dev \in Device /\ Sound(r.dev, TRUE) /\ SameLock(sent, r.dev)
        /\ r.dev.fill = None /\ r.dev.granted /\ ~r.dev.stuck /\ r.dev = Answered(sent, Len(Head(sent.next).sent))
        /\ Len(Head(sent.next).sent) \in 0 .. Len(Head(sent.next).sent)
    BY <1>1, <2>1, <2>n, ReadSound
  <2>3. s.dev = Continue(r.dev)
    BY <2>1, <2>n
  <2>4. r.dev.free = sent.free + 1 /\ sent.free \in Nat
    <3> DEFINE n == Len(Head(sent.next).sent)
    <3>1. n \in 0 .. n /\ r.dev = Answered(sent, n)
      BY <2>2
    <3>2. Answered(sent, n).free = sent.free + 1
      BY <1>1, <3>1, AnswerRead
    <3>3. sent.free \in Nat
      BY <1>1, DeviceFields
    <3> QED BY <3>1, <3>2, <3>3
  <2>5. r.dev.free > 0 /\ r.dev.locked /\ ~r.dev.deferError
    BY <1>1, <2>2, <2>4 DEF SameLock
  <2>6. LET e == Continue(r.dev) IN Between(e, TRUE) /\ SameLock(r.dev, e) /\ e \in Device /\ e.fill # None
    BY <2>2, <2>5, ContinueSound
  <2> QED BY <1>1, <2>2, <2>3, <2>6 DEF SameLock
<1> QED BY <1>2, <1>3

\* So does get_txmessage, and a record is being filled after it.
LEMMA GetTxMessageSound ==
    ASSUME NEW d, Usable(d), Between(d, Packing), d.locked, ~d.deferError, NEW kind,
           NEW g \in GetTxMessage(d, kind), ~g.dev.parted
    PROVE  Between(g.dev, Packing) /\ SameLock(d, g.dev) /\ g.dev \in Device /\ g.dev.fill # None
<1> DEFINE e == IF d.fill = None THEN TakeActions(d) ELSE d
<1>1. Between(e, Packing) /\ SameLock(d, e) /\ e \in Device /\ e.fill # None
  <2>1. CASE d.fill = None
    BY <2>1, TakenSound DEF Usable
  <2>2. CASE d.fill # None
    BY <2>2 DEF Usable, SameLock
  <2> QED BY <2>1, <2>2
<1>2. g \in IF MayPack(kind) /\ Full(e, kind) THEN SendContinue(e)
            ELSE {[dev |-> e, ok |-> MayPack(kind)]}
  BY DEF GetTxMessage
<1> HIDE DEF e
<1>3. CASE MayPack(kind) /\ Full(e, kind)
  <2>1. Packing = TRUE
    BY <1>3 DEF MayPack, Packing
  <2>2. e.locked /\ ~e.deferError
    BY <1>1 DEF SameLock
  <2>3. Between(g.dev, TRUE) /\ SameLock(e, g.dev) /\ g.dev \in Device /\ g.dev.fill # None
    BY <1>1, <1>2, <1>3, <2>1, <2>2, SendContinueSound
  <2> QED BY <1>1, <2>1, <2>3 DEF SameLock
<1>4. CASE ~(MayPack(kind) /\ Full(e, kind))
  <2>1. g.dev = e
    BY <1>2, <1>4
  <2> QED BY <1>1, <2>1
<1> QED BY <1>3, <1>4

\* What a call waits for.
LEMMA SendReceiveSound ==
    ASSUME NEW d \in Device, d.fill # None, NEW packs, Between(d, packs), d.locked, ~d.deferError,
           NEW of \in {"command", "flush", "unlock", "other"},
           NEW own \in {<<>>} \cup {<<c>> : c \in Command \ {CONTINUE}}, own = <<UNLOCK>> => of = "unlock",
           SendReceive(d, of, own)
    PROVE  Waiting(dev', call', packs) /\ call' # NoCall
<1> DEFINE a == [d EXCEPT !.tx = d.tx \o own]
           p == [sent |-> a.tx, expect |-> a.fill.expect \o own]
<1>0. /\ own \in {<<>>} \cup {<<c>> : c \in Command} /\ ~Continues(own)
      /\ d.tx \in Seq(Command) /\ d.fill.expect \in Seq(Command) /\ d.next \in Seq(Packet)
  <2>1. d.tx \in Seq(Command) /\ d.fill.expect \in Seq(Command) /\ d.next \in Seq(Packet)
    BY DeviceFields DEF Record
  <2>2. ~Continues(own)
    BY DEF Continues
  <2> QED BY <2>1, <2>2
<1>1. /\ d.tx \o own \in Seq(Command) /\ own \in Seq(Command)
      /\ d.tx # <<>> => d.tx \o own # <<>> /\ (d.tx \o own)[1] = d.tx[1]
      /\ d.tx = <<>> => d.tx \o own = own
      /\ \A x : Contains(d.tx \o own, x) => Contains(d.tx, x) \/ own = <<x>>
  BY <1>0, PacketEnds
<1>2. /\ a \in Device /\ a.fill = d.fill /\ a.next = d.next /\ a.tx = d.tx \o own /\ a.locked = d.locked
      /\ a.lockFail = d.lockFail /\ a.deferError = d.deferError /\ a.granted = d.granted /\ a.stuck = d.stuck
  BY <1>1 DEF Device
<1>3. dev' = SendCommand(a, own) /\ call' = [of |-> of, error |-> FALSE]
  BY DEF SendReceive
<1> HIDE DEF a
<1>4. /\ dev' \in Device /\ dev'.fill = None /\ dev'.tx = <<>> /\ dev'.next = Append(d.next, p)
      /\ dev'.locked = d.locked /\ dev'.lockFail = d.lockFail /\ dev'.deferError = d.deferError
      /\ dev'.granted = d.granted /\ dev'.stuck = d.stuck
  <2>1. a.fill # None /\ own \in Seq(Command)
    BY <1>1, <1>2
  <2>2. LET e == SendCommand(a, own) IN
        /\ e \in Device /\ e.fill = None /\ e.tx = <<>> /\ e.next = Append(a.next, p)
        /\ e.locked = a.locked /\ e.lockFail = a.lockFail /\ e.deferError = a.deferError
        /\ e.granted = a.granted /\ e.stuck = a.stuck
    BY <1>2, <2>1, PacketSent
  <2> HIDE DEF p
  <2> QED BY <1>2, <1>3, <2>2
<1>5. p.sent = d.tx \o own /\ p.expect = d.tx \o own /\ p \in Packet
  <2>1. d.tx = d.fill.expect
    BY DEF Between, Sound, Lined
  <2> QED BY <1>1, <1>2, <2>1 DEF Packet
<1> HIDE DEF p
<1>6. /\ dev'.next # <<>> /\ Len(d.next) \in Nat /\ Len(dev'.next) = Len(d.next) + 1 /\ dev'.next[Len(d.next) + 1] = p
      /\ \A i \in 1 .. Len(d.next) : dev'.next[i] = d.next[i]
      /\ Head(dev'.next) = IF d.next = <<>> THEN p ELSE Head(d.next)
  BY <1>0, <1>4, <1>5, PacketAdded
<1>7. Continues(d.tx) => Continues(d.tx \o own)
  BY <1>1 DEF Continues
<1>8. Lined(dev')
  <2>1. ASSUME NEW i \in 1 .. Len(dev'.next) PROVE dev'.next[i].sent = dev'.next[i].expect
    <3>1. i \in 1 .. Len(d.next) \/ i = Len(d.next) + 1
      BY <1>6
    <3> QED BY <1>5, <1>6, <3>1 DEF Between, Sound, Lined
  <2>2. ASSUME NEW i \in 2 .. Len(dev'.next) PROVE Continues(dev'.next[i].sent)
    <3>1. CASE i \in 2 .. Len(d.next)
      <4>1. i \in 1 .. Len(d.next)
        BY <1>6, <3>1
      <4> QED BY <1>6, <3>1, <4>1 DEF Between, Sound, Lined
    <3>2. CASE i = Len(d.next) + 1
      <4>1. Len(d.next) # 0
        BY <1>6, <3>2
      <4>2. d.next # <<>>
        BY <4>1
      <4> QED BY <1>5, <1>6, <1>7, <3>2, <4>2 DEF Between, Sound, Lined
    <3> QED BY <1>6, <3>1, <3>2
  <2> QED BY <1>4, <2>1, <2>2 DEF Lined
<1>9. First(dev') = IF d.next = <<>> THEN d.tx \o own ELSE First(d)
  BY <1>5, <1>6 DEF First
<1>10. ~(dev'.stuck /\ Continues(First(dev')))
  <2>1. CASE d.next = <<>> /\ d.tx = <<>>
    BY <1>0, <1>1, <1>9, <2>1
  <2>2. CASE d.next = <<>> /\ d.tx # <<>>
    <3>1. First(d) = d.tx /\ Continues(d.tx \o own) = Continues(d.tx)
      BY <1>1, <2>2 DEF First, Continues
    <3> QED BY <1>4, <1>9, <2>2, <3>1 DEF Between, Sound
  <2>3. CASE d.next # <<>>
    BY <1>4, <1>9, <2>3 DEF Between, Sound
  <2> QED BY <2>1, <2>2, <2>3
<1>11. Believed(d) => Believed(dev')
  BY <1>1, <1>4, <1>9 DEF Believed, First
<1>12. of # "unlock" => StaysLocked(dev')
  <2> SUFFICES ASSUME of # "unlock" PROVE StaysLocked(dev')
    OBVIOUS
  <2>1. ASSUME NEW i \in 1 .. Len(dev'.next) PROVE ~Contains(dev'.next[i].sent, UNLOCK)
    <3>1. i \in 1 .. Len(d.next) \/ i = Len(d.next) + 1
      BY <1>6
    <3>2. ~Contains(d.tx \o own, UNLOCK)
      BY <1>1 DEF Between, Sound, StaysLocked
    <3> QED BY <1>5, <1>6, <3>1, <3>2 DEF Between, Sound, StaysLocked
  <2>2. ~Contains(<<>>, UNLOCK)
    BY DEF Contains
  <2> QED BY <1>4, <2>1, <2>2 DEF StaysLocked
<1>13. call'.of = of /\ call'.of # "none" /\ call' # NoCall
  BY <1>3, CallKinds
<1>14. call'.error = FALSE
  BY <1>3
<1> QED BY <1>4, <1>8, <1>10, <1>11, <1>12, <1>13, <1>14 DEF Waiting, Between, Sound

\* An answer is read.
LEMMA ReceiveSound ==
    ASSUME NEW d \in Device, d.next # <<>>, NEW c, NEW e, NEW packs, Waiting(d, c, packs), NEW r \in ReceiveResponse(d, TRUE),
           e.of = c.of, e.error <=> c.error \/ r.error
    PROVE  Waiting(r.dev, e, packs)
<1> DEFINE sent == Head(d.next).sent
<1>1. Head(d.next) \in Packet /\ sent \in Seq(Command) /\ Len(sent) \in Nat
  <2>1. Head(d.next) \in Packet
    BY DeviceFields
  <2>2. sent \in Seq(Command)
    BY <2>1 DEF Packet
  <2> QED BY <2>1, <2>2
<1>2. PICK k \in Executable(d, sent, TRUE) :
        r = [dev |-> Answered(d, k), error |-> k < Len(Head(d.next).expect)]
  BY DEF ReceiveResponse
<1>3. k \in 0 .. Len(sent) /\ First(d) = sent
  BY <1>1, <1>2, ExecutableTyped DEF First
<1> DEFINE n == Answered(d, k)
<1>4. /\ Lined(n) /\ Head(d.next).expect = sent
      /\ StaysLocked(d) => StaysLocked(n) /\ ~Contains(sent, UNLOCK)
  BY <1>3, AnsweredLined DEF Waiting
<1>5. r.dev = n /\ r.error = (k < Len(sent))
  BY <1>2, <1>4
<1>6. /\ n \in Device /\ n.fill = d.fill /\ n.locked = d.locked /\ n.deferError = d.deferError
      /\ n.lockFail = (d.lockFail \/ (k < Len(sent) /\ Contains(SubSeq(sent, k + 1, Len(sent)), LOCK)))
      /\ n.granted = ((d.granted \/ Contains(SubSeq(sent, 1, k), LOCK)) /\ ~Contains(SubSeq(sent, 1, k), UNLOCK))
      /\ n.stuck = (k < Len(sent))
  BY <1>3, <1>4, AnswerRead
<1> HIDE DEF n, sent
<1>7. n.stuck /\ Continues(First(n)) => e.error
  BY <1>5, <1>6
<1>8. ASSUME c.of # "unlock" PROVE StaysLocked(n) /\ (packs => n.lockFail \/ Believed(n))
  <2>1. StaysLocked(n) /\ ~Contains(sent, UNLOCK)
    BY <1>4, <1>8 DEF Waiting
  <2>2. ~Contains(SubSeq(sent, 1, k), UNLOCK)
    <3>1. \A i \in 1 .. Len(SubSeq(sent, 1, k)) : i \in 1 .. Len(sent) /\ SubSeq(sent, 1, k)[i] = sent[i]
      BY <1>1, <1>3
    <3> QED BY <2>1, <3>1 DEF Contains
  <2>3. ASSUME packs PROVE n.lockFail \/ n.granted
    <3>1. d.lockFail \/ d.granted \/ (sent # <<>> /\ sent[1] = LOCK)
      BY <1>3, <1>8, <2>3 DEF Waiting, Believed
    <3>2. CASE d.lockFail \/ d.granted
      BY <1>6, <2>2, <3>2
    <3>3. CASE sent # <<>> /\ sent[1] = LOCK /\ k = 0
      <4>1. SubSeq(sent, 0 + 1, Len(sent)) = sent /\ 1 \in 1 .. Len(sent)
        BY <1>1, <3>3
      <4>2. Contains(sent, LOCK) /\ 0 < Len(sent)
        BY <3>3, <4>1 DEF Contains
      <4> QED BY <1>6, <3>3, <4>1, <4>2
    <3>4. CASE sent # <<>> /\ sent[1] = LOCK /\ k # 0
      <4>1. 1 \in 1 .. Len(SubSeq(sent, 1, k)) /\ SubSeq(sent, 1, k)[1] = sent[1]
        BY <1>1, <1>3, <3>4
      <4>2. Contains(SubSeq(sent, 1, k), LOCK)
        BY <3>4, <4>1 DEF Contains
      <4> QED BY <1>6, <2>2, <4>2
    <3> QED BY <3>1, <3>2, <3>3, <3>4
  <2> QED BY <2>1, <2>3 DEF Believed
<1>9. ASSUME e.error, n.next # <<>> PROVE n.stuck /\ Continues(First(n))
  <2>1. Continues(First(n))
    BY <1>3, <1>9, AnsweredLined DEF Waiting, n, sent
  <2>2. CASE r.error
    BY <1>5, <1>6, <2>1, <2>2
  <2>3. CASE c.error
    <3>1. d.stuck /\ sent # <<>> /\ sent[1] = CONTINUE
      BY <1>3, <2>3 DEF Waiting, Continues
    <3>2. k = 0 /\ Len(sent) > 0
      BY <1>1, <1>2, <3>1 DEF Executable
    <3> QED BY <1>6, <2>1, <3>2
  <2> QED BY <1>9, <2>2, <2>3
<1> QED BY <1>4, <1>5, <1>6, <1>7, <1>8, <1>9 DEF Waiting

\* A call returns when nothing is unanswered.
LEMMA ReturnSound ==
    ASSUME NEW d \in Device, NEW c \in [of : {"none", "command", "flush", "unlock", "other"}, error : BOOLEAN],
           NEW packs, Waiting(d, c, packs), d.next = <<>>
    PROVE  Between(After(d, c), packs)
<1> DEFINE e == After(d, c)
<1>1. /\ e \in Device /\ e.fill = d.fill /\ e.next = d.next
      /\ e.tx = (IF d.locked /\ d.lockFail THEN <<>> ELSE d.tx)
      /\ e.locked = (d.locked /\ ~d.lockFail /\ c.of # "unlock")
      /\ e.lockFail = d.lockFail /\ e.granted = d.granted /\ e.stuck = d.stuck
  BY Returned
<1> HIDE DEF e
<1>2. d.fill = None /\ d.tx = <<>>
  BY DEF Waiting, Lined
<1>3. e.tx = <<>> /\ e.next = <<>> /\ e.fill = None
  BY <1>1, <1>2
<1>4. Lined(e) /\ StaysLocked(e) /\ First(e) = <<>> /\ First(d) = <<>>
  <2>1. Len(<<>>) = 0 /\ ~Contains(<<>>, UNLOCK)
    BY DEF Contains
  <2> QED BY <1>2, <1>3, <2>1 DEF Lined, StaysLocked, First
<1>5. ~Continues(First(e))
  BY <1>4 DEF Continues
<1>6. ASSUME packs, e.locked PROVE e.granted
  <2>1. d.lockFail \/ Believed(d)
    BY <1>1, <1>6 DEF Waiting
  <2> QED BY <1>1, <1>4, <1>6, <2>1 DEF Believed
<1>7. Sound(e, packs)
  BY <1>1, <1>4, <1>5, <1>6 DEF Sound, Believed
<1>8. Between(e, packs)
  BY <1>3, <1>7 DEF Between
<1> QED BY <1>8 DEF e

\* Every step keeps answers and commands in step, but for one that awaits a record and
\* reads a refusal.
LEMMA InStepNext ==
    Accounted /\ ValuesTyped /\ InStep /\ [Next]_vars => dev'.parted \/ InStep'
<1> SUFFICES ASSUME Accounted, ValuesTyped, InStep, [Next]_vars, ~dev'.parted PROVE InStep'
  OBVIOUS
<1> DEFINE Call == [of : {"none", "command", "flush", "unlock", "other"}, error : BOOLEAN]
<1>t. dev \in Device /\ call \in Call /\ (style' = style => Packing' = Packing)
  BY DEF Accounted, ValuesTyped, Packing
<1>b. call = NoCall => Between(dev, Packing) /\ Usable(dev)
  BY AtHand DEF InStep
<1>w. ASSUME NEW d, Usable(d), d.fill # None, Between(d, Packing), SameLock(dev, d), dev.locked, ~dev.deferError,
             NEW of \in {"command", "flush", "unlock", "other"},
             NEW own \in {<<>>} \cup {<<c>> : c \in Command \ {CONTINUE}}, own = <<UNLOCK>> => of = "unlock",
             SendReceive(d, of, own), style' = style
      PROVE  InStep'
  <2>1. d \in Device /\ d.locked /\ ~d.deferError
    BY <1>w DEF Usable, SameLock
  <2>2. Waiting(dev', call', Packing) /\ call' # NoCall
    BY <1>w, <2>1, SendReceiveSound
  <2> QED BY <1>t, <1>w, <2>2 DEF InStep
<1>e. <<>> \in {<<>>} \cup {<<c>> : c \in Command \ {CONTINUE}} /\ <<>> # <<UNLOCK>>
  OBVIOUS
<1>0. CASE UNCHANGED vars
  BY <1>0 DEF vars, InStep, Packing
<1>1. ASSUME NEW s \in Styles, Lock(s) PROVE InStep'
  <2>1. /\ call = NoCall /\ call' = call /\ style' = s
        /\ dev.fill = None /\ dev'.next = dev.next /\ dev'.locked = TRUE /\ dev'.lockFail = FALSE
        /\ dev'.deferError = FALSE /\ dev'.stuck = dev.stuck
        /\ \/ /\ s # "never" /\ dev'.tx = Append(dev.tx, LOCK) /\ dev'.granted = dev.granted
              /\ dev'.fill # None /\ dev'.fill.expect = <<LOCK>>
           \/ s = "never" /\ dev'.tx = dev.tx /\ dev'.fill = None
           \/ s = "never" /\ dev'.tx = dev.tx /\ dev'.fill # None /\ dev'.fill.expect = <<>>
    BY <1>1, Locks
  <2>2. dev.next = <<>> /\ dev.tx = <<>> /\ Len(<<>>) = 0
    BY <1>b, <2>1 DEF Between, Sound, Lined
  <2>3. CASE s # "never"
    <3>1. dev'.tx = <<LOCK>> /\ dev'.fill # None /\ dev'.fill.expect = <<LOCK>> /\ dev'.next = <<>>
      BY <2>1, <2>2, <2>3
    <3>2. /\ <<LOCK>> # <<>> /\ <<LOCK>>[1] = LOCK /\ LOCK # CONTINUE /\ LOCK # UNLOCK
          /\ \A i \in 1 .. Len(<<LOCK>>) : <<LOCK>>[i] = LOCK
      BY CommandsDiffer
    <3>3. Lined(dev')
      BY <2>2, <3>1 DEF Lined
    <3>4. StaysLocked(dev')
      BY <2>2, <3>1, <3>2 DEF StaysLocked, Contains
    <3>5. First(dev') = <<LOCK>>
      BY <3>1 DEF First
    <3>6. ~Continues(First(dev')) /\ Believed(dev')
      BY <3>2, <3>5 DEF Continues, Believed
    <3>7. Sound(dev', Packing')
      BY <2>1, <3>3, <3>4, <3>6 DEF Sound
    <3> QED BY <2>1, <3>1, <3>7 DEF Between, InStep
  <2>4. CASE s = "never"
    <3>1. dev'.tx = <<>> /\ dev'.next = <<>> /\ (dev'.fill # None => dev'.fill.expect = <<>>) /\ Packing' = FALSE
      BY <2>1, <2>2, <2>4 DEF Packing
    <3>2. Lined(dev')
      BY <2>2, <3>1 DEF Lined
    <3>3. StaysLocked(dev') /\ ~Continues(First(dev'))
      BY <2>2, <3>1 DEF StaysLocked, Contains, First, Continues
    <3>4. Sound(dev', Packing')
      BY <2>1, <3>1, <3>2, <3>3 DEF Sound
    <3> QED BY <2>1, <3>1, <3>4 DEF Between, InStep
  <2> QED BY <2>3, <2>4
<1>2. ASSUME NEW kind \in Kinds, Issue(kind) PROVE InStep'
  <2> DEFINE c == Own(issued + 1)
  <2>1. call = NoCall /\ dev.locked /\ ~dev.deferError /\ style' = style /\ issued < MaxCommands /\ issued \in Nat
    BY <1>2 DEF Issue, ValuesTyped
  <2>2. PICK g \in GetTxMessage(dev, kind) :
         \/ /\ g.ok /\ Deferrable(kind)
            /\ LET d == Pack(g.dev, c, Outputs(kind)) IN
               dev' \in IF kind = "big" THEN {s.dev : s \in SendContinue(d)} ELSE {d}
            /\ result' = "ok"
            /\ UNCHANGED call
         \/ /\ ~(g.ok /\ Deferrable(kind))
            /\ SendReceive(g.dev, "command", <<c>>)
            /\ UNCHANGED result
    BY <1>2 DEF Issue
  <2>p. ~g.dev.parted
    BY <2>1, <2>2, GivenParted
  <2>3. Between(g.dev, Packing) /\ SameLock(dev, g.dev) /\ g.dev \in Device /\ g.dev.fill # None /\ Usable(g.dev)
    BY <1>b, <2>1, <2>p, GetTxMessageSound, GetTxMessageCounts
  <2>4. c \in Ids /\ c \in Command \ {CONTINUE} /\ c # UNLOCK
    <3>1. issued + 1 \in 1 .. MaxCommands
      BY <2>1, PipelineConstants
    <3> QED BY <3>1, CommandsDiffer
  <2> HIDE DEF c
  <2>5. g.dev.locked /\ ~g.dev.deferError
    BY <2>1, <2>3 DEF SameLock
  <2>6. CASE g.ok /\ Deferrable(kind)
    <3> DEFINE d == Pack(g.dev, c, Outputs(kind))
    <3>1. Outputs(kind) \in Nat
      BY DEF Outputs
    <3>2. Between(d, Packing) /\ SameLock(g.dev, d) /\ d \in Device /\ d.fill # None
      BY <2>3, <2>4, <2>5, <3>1, PackSound
    <3> HIDE DEF d
    <3>3. Packing = TRUE
      BY <2>6 DEF Deferrable, MayPack, Packing
    <3>4. Between(dev', Packing)
      <4>1. CASE kind = "big"
        <5>1. PICK s \in SendContinue(d) : dev' = s.dev
          BY <2>2, <2>6, <4>1 DEF d
        <5>2. d.locked /\ ~d.deferError
          BY <2>5, <3>2 DEF SameLock
        <5> QED BY <3>2, <3>3, <5>1, <5>2, SendContinueSound
      <4>2. CASE kind # "big"
        BY <2>2, <2>6, <3>2, <4>2 DEF d
      <4> QED BY <4>1, <4>2
    <3>5. call' = NoCall
      BY <2>1, <2>2, <2>6
    <3> QED BY <1>t, <2>1, <3>4, <3>5 DEF InStep
  <2>7. CASE ~(g.ok /\ Deferrable(kind))
    <3>1. SendReceive(g.dev, "command", <<c>>)
      BY <2>2, <2>7
    <3>2. <<c>> \in {<<>>} \cup {<<x>> : x \in Command \ {CONTINUE}} /\ <<c>> # <<UNLOCK>>
      BY <2>4
    <3> QED BY <1>w, <2>1, <2>3, <3>1, <3>2
  <2> QED BY <2>6, <2>7
<1>3. CASE Receive
  <2>1. call # NoCall /\ dev.next # <<>> /\ style' = style
    BY <1>3 DEF Receive, AllReceived
  <2>2. PICK r \in ReceiveResponse(dev, TRUE) :
          dev' = r.dev /\ call' = [call EXCEPT !.error = @ \/ r.error]
    BY <1>3 DEF Receive
  <2>3. Waiting(dev, call, Packing)
    BY <2>1 DEF InStep
  <2>4. call'.of = call.of /\ (call'.error <=> call.error \/ r.error)
    BY <1>t, <2>2
  <2>5. Waiting(dev', call', Packing)
    BY <1>t, <2>1, <2>2, <2>3, <2>4, ReceiveSound
  <2>6. call' # NoCall
    BY <2>5, CallKinds DEF Waiting
  <2> QED BY <1>t, <2>1, <2>5, <2>6 DEF InStep
<1>4. CASE Return
  <2>1. call # NoCall /\ dev.next = <<>> /\ call' = NoCall /\ style' = style /\ dev' = After(dev, call)
    BY <1>4 DEF Return, AllReceived, After
  <2>2. Waiting(dev, call, Packing)
    BY <2>1 DEF InStep
  <2>3. Between(dev', Packing)
    BY <1>t, <2>1, <2>2, ReturnSound
  <2> QED BY <1>t, <2>1, <2>3 DEF InStep
<1>5. CASE PendingError
  <2>1. call = NoCall /\ dev' = [dev EXCEPT !.deferError = FALSE] /\ call' = call /\ style' = style
    BY <1>5 DEF PendingError
  <2>2. /\ dev'.fill = dev.fill /\ dev'.next = dev.next /\ dev'.tx = dev.tx /\ dev'.locked = dev.locked
        /\ dev'.lockFail = dev.lockFail /\ dev'.granted = dev.granted /\ dev'.stuck = dev.stuck /\ dev'.deferError = FALSE
    BY <1>t, <2>1 DEF Device
  <2>3. /\ Lined(dev') = Lined(dev) /\ StaysLocked(dev') = StaysLocked(dev) /\ First(dev') = First(dev)
        /\ Believed(dev') = Believed(dev)
    BY <2>2 DEF Lined, StaysLocked, First, Believed
  <2>4. Between(dev', Packing)
    BY <1>b, <2>1, <2>2, <2>3 DEF Between, Sound
  <2> QED BY <1>t, <2>1, <2>4 DEF InStep
<1>6. CASE Flush
  <2>1. call = NoCall /\ dev.locked /\ style' = style
    BY <1>6 DEF Flush
  <2>2. CASE dev.fill = None /\ dev.next = <<>>
    <3>1. dev' = dev /\ call' = call
      BY <1>6, <2>2 DEF Flush
    <3> QED BY <1>t, <2>1, <3>1 DEF InStep
  <2>3. CASE ~(dev.fill = None /\ dev.next = <<>>)
    <3>1. SendReceive(dev, "flush", <<>>)
      BY <1>6, <2>3 DEF Flush
    <3>2. dev.fill # None /\ ~dev.deferError
      BY <1>b, <2>1, <2>3 DEF Between
    <3>3. SameLock(dev, dev)
      BY DEF SameLock
    <3> QED BY <1>b, <1>e, <1>w, <2>1, <3>1, <3>2, <3>3
  <2> QED BY <2>2, <2>3
<1>7. CASE Unlock
  <2>1. call = NoCall /\ dev.locked /\ ~dev.deferError /\ style' = style
    BY <1>7 DEF Unlock
  <2>2. PICK g \in GetTxMessage(dev, "plain") : SendReceive(g.dev, "unlock", <<UNLOCK>>)
    BY <1>7 DEF Unlock
  <2>p. ~g.dev.parted
    BY <2>1, <2>2, UnlockParted
  <2>3. Between(g.dev, Packing) /\ SameLock(dev, g.dev) /\ g.dev.fill # None /\ Usable(g.dev)
    BY <1>b, <2>1, <2>p, GetTxMessageSound, GetTxMessageCounts
  <2>4. <<UNLOCK>> \in {<<>>} \cup {<<x>> : x \in Command \ {CONTINUE}}
    <3>1. UNLOCK \in Command \ {CONTINUE}
      BY CommandsDiffer
    <3> QED BY <3>1
  <2> QED BY <1>w, <2>1, <2>2, <2>3, <2>4
<1>8. CASE UnlockPending
  <2>1. call = NoCall /\ dev' = [dev EXCEPT !.locked = FALSE, !.deferError = FALSE] /\ call' = call /\ style' = style
        /\ dev.deferError
    BY <1>8 DEF UnlockPending
  <2>2. /\ dev'.fill = dev.fill /\ dev'.next = dev.next /\ dev'.tx = dev.tx /\ dev'.locked = FALSE
        /\ dev'.lockFail = dev.lockFail /\ dev'.granted = dev.granted /\ dev'.stuck = dev.stuck
    BY <1>t, <2>1, FlagsChanged
  <2>3. /\ Lined(dev') = Lined(dev) /\ StaysLocked(dev') = StaysLocked(dev) /\ First(dev') = First(dev)
    BY <2>2 DEF Lined, StaysLocked, First
  <2>4. Between(dev', Packing)
    BY <1>b, <2>1, <2>2, <2>3 DEF Between, Sound
  <2> QED BY <1>t, <2>1, <2>4 DEF InStep
<1>9. CASE SendDeferred
  <2>1. call = NoCall /\ dev.tx # <<>> /\ SendReceive(dev, "other", <<>>) /\ style' = style
    BY <1>9 DEF SendDeferred
  <2>2. dev.fill # None /\ dev.locked /\ ~dev.deferError
    BY <1>b, <2>1 DEF Between, Sound, Lined
  <2>3. SameLock(dev, dev)
    BY DEF SameLock
  <2> QED BY <1>b, <1>e, <1>w, <2>1, <2>2, <2>3
<1> QED BY <1>0, <1>1, <1>2, <1>3, <1>4, <1>5, <1>6, <1>7, <1>8, <1>9 DEF Next

\* At first nothing is packed.
LEMMA InStepInit == Init => InStep
<1> SUFFICES ASSUME Init PROVE InStep
  OBVIOUS
<1>1. /\ dev.fill = None /\ dev.next = <<>> /\ dev.tx = <<>> /\ ~dev.locked /\ ~dev.stuck
      /\ call = NoCall /\ Len(<<>>) = 0
  BY DEF Init
<1>2. Lined(dev) /\ StaysLocked(dev)
  BY <1>1 DEF Lined, StaysLocked, Contains
<1> QED BY <1>1, <1>2 DEF InStep, Between, Sound

\* Answers and commands are in step in every state, until a refusal is read for want
\* of a record.
LEMMA AlwaysInStep == Spec => [](Accounted /\ ValuesTyped /\ (dev.parted \/ InStep))
<1> DEFINE IInv == Accounted /\ ValuesTyped /\ (dev.parted \/ InStep)
<1>1. Init => IInv
  BY AccountedInit, InStepInit
<1>2. IInv /\ [Next]_vars => IInv'
  BY AccountedNext, InStepNext, PartedStays
<1> HIDE DEF IInv
<1>3. Spec => []IInv
  BY <1>1, <1>2, PTL DEF Spec
<1> QED BY <1>3 DEF IInv

\* Every answer is read for the command that it answers, and a packet that is
\* sent while another is not answered continues it (send_receive), until
\* send_continue, waiting for a record, reads a refusal.
THEOREM Answers == Spec => []AnswersInStep
<1>1. Accounted /\ ValuesTyped /\ (dev.parted \/ InStep) => AnswersInStep
  <2> SUFFICES ASSUME Accounted, ValuesTyped, InStep PROVE AnswersInStep
    BY DEF AnswersInStep
  <2>1. Lined(dev)
    BY DEF InStep, Between, Sound, Waiting
  <2>2. DOMAIN dev.next = 1 .. Len(dev.next)
    BY DeviceFields DEF Accounted
  <2> QED BY <2>1, <2>2 DEF Lined, AnswersInStep, AnswersExpected, ContinuesUnanswered
<1> QED BY <1>1, AlwaysInStep, PTL

\* A refused lock is noticed by the call that reads the refusal, and nothing that
\* was packed or sent is left behind when the lock is given up (lock, unlock), until
\* send_continue, waiting for a record, reads a refusal.
THEOREM Forgets == Spec => []NothingForgotten
<1>1. Accounted /\ ValuesTyped /\ (dev.parted \/ InStep) => NothingForgotten
  <2> SUFFICES ASSUME Accounted, ValuesTyped, InStep PROVE NothingForgotten
    BY DEF NothingForgotten
  <2>1. call = NoCall => Between(dev, Packing)
    BY DEF InStep
  <2> QED BY <2>1 DEF Between, Sound, Lined, NothingForgotten, RefusalNoticed, NothingLeft
<1> QED BY <1>1, AlwaysInStep, PTL

-----------------------------------------------------------------------------
(* What is packed, sent and executed.                                       *)

\* The program's commands in a list.
LEMMA OwnTyped ==
    ASSUME NEW cs \in Seq(Command)
    PROVE  OwnCommands(cs) \in Seq(Ids)
<1>1. Filtered(cs, Ids) \in Seq(Command \cap Ids)
  BY FilteredTyped
<1>2. Command \cap Ids = Ids
  BY CommandsDiffer
<1> QED BY <1>1, <1>2 DEF OwnCommands

\* Those of one list after another.
LEMMA OwnConcat ==
    ASSUME NEW s \in Seq(Command), NEW t \in Seq(Command)
    PROVE  OwnCommands(s \o t) = OwnCommands(s) \o OwnCommands(t)
BY FilteredConcat DEF OwnCommands

\* Those of a single command.
LEMMA OwnOne ==
    /\ OwnCommands(<<>>) = <<>> /\ OwnCommands(<<LOCK>>) = <<>> /\ OwnCommands(<<UNLOCK>>) = <<>>
    /\ OwnCommands(<<CONTINUE>>) = <<>> /\ \A c \in Ids : OwnCommands(<<c>>) = <<c>>
<1>1. \A c : OwnCommands(<<c>>) = IF c \in Ids THEN <<c>> ELSE <<>>
  BY FilteredOne DEF OwnCommands
<1>2. OwnCommands(<<>>) = <<>>
  BY FilteredEmpty DEF OwnCommands
<1> QED BY <1>1, <1>2, CommandsDiffer

\* The program's commands of the packets.
LEMMA PackedTyped ==
    ASSUME NEW n \in Seq(Packet)
    PROVE  Packed(n) \in Seq(Seq(Ids)) /\ Len(Packed(n)) = Len(n) /\ \A i \in 1 .. Len(n) : Packed(n)[i] = OwnCommands(n[i].sent)
<1>1. DOMAIN n = 1 .. Len(n) /\ Len(n) \in Nat
  OBVIOUS
<1>2. ASSUME NEW i \in 1 .. Len(n) PROVE OwnCommands(n[i].sent) \in Seq(Ids)
  <2>1. n[i] \in Packet
    OBVIOUS
  <2>2. n[i].sent \in Seq(Command)
    BY <2>1 DEF Packet
  <2> QED BY <2>2, OwnTyped
<1>3. Packed(n) = [i \in 1 .. Len(n) |-> OwnCommands(n[i].sent)]
  BY <1>1 DEF Packed
<1>4. Packed(n) \in [1 .. Len(n) -> Seq(Ids)]
  BY <1>2, <1>3
<1> QED BY <1>1, <1>3, <1>4

\* When a packet is sent.
LEMMA PackedAppend ==
    ASSUME NEW n \in Seq(Packet), NEW p \in Packet
    PROVE  /\ Packed(Append(n, p)) = Append(Packed(n), OwnCommands(p.sent))
           /\ OwnCommands(p.sent) \in Seq(Ids)
<1> DEFINE m == Append(n, p)
           q == Append(Packed(n), OwnCommands(p.sent))
<1>1. m \in Seq(Packet) /\ Len(m) = Len(n) + 1 /\ Len(n) \in Nat /\ m[Len(n) + 1] = p
      /\ \A i \in 1 .. Len(n) : m[i] = n[i]
  OBVIOUS
<1>2. OwnCommands(p.sent) \in Seq(Ids)
  BY OwnTyped DEF Packet
<1>3. Packed(n) \in Seq(Seq(Ids)) /\ Len(Packed(n)) = Len(n) /\ \A i \in 1 .. Len(n) : Packed(n)[i] = OwnCommands(n[i].sent)
  BY PackedTyped
<1>4. q \in Seq(Seq(Ids)) /\ Len(q) = Len(n) + 1 /\ q[Len(n) + 1] = OwnCommands(p.sent)
      /\ \A i \in 1 .. Len(n) : q[i] = Packed(n)[i]
  <2> DEFINE L == Seq(Ids)
             o == OwnCommands(p.sent)
             u == Packed(n)
  <2>1. o \in L /\ u \in Seq(L)
    BY <1>2, <1>3
  <2> HIDE DEF L, o, u
  <2>2. Append(u, o) \in Seq(L) /\ Len(Append(u, o)) = Len(u) + 1 /\ Append(u, o)[Len(u) + 1] = o
        /\ \A i \in 1 .. Len(u) : Append(u, o)[i] = u[i]
    BY <2>1
  <2> QED BY <1>3, <2>2 DEF L, o, u
<1> HIDE DEF m, q
<1>5. Packed(m) \in Seq(Seq(Ids)) /\ Len(Packed(m)) = Len(m) /\ \A i \in 1 .. Len(m) : Packed(m)[i] = OwnCommands(m[i].sent)
  BY <1>1, PackedTyped
<1>6. ASSUME NEW i \in 1 .. Len(m) PROVE Packed(m)[i] = q[i]
  <2>1. i \in 1 .. Len(n) \/ i = Len(n) + 1
    BY <1>1
  <2> QED BY <1>1, <1>3, <1>4, <1>5, <2>1
<1>7. Packed(m) = q
  BY <1>1, <1>4, <1>5, <1>6, SeqEqual
<1> QED BY <1>2, <1>7 DEF m, q

\* When the oldest is answered.
LEMMA PackedTail ==
    ASSUME NEW n \in Seq(Packet), n # <<>>
    PROVE  Chained(Packed(n)) = OwnCommands(Head(n).sent) \o Chained(Packed(Tail(n)))
<1> DEFINE m == Tail(n)
           u == Packed(n)
<1>1. m \in Seq(Packet) /\ Len(m) = Len(n) - 1 /\ Len(n) \in Nat /\ Len(n) # 0
      /\ (\A i \in 1 .. Len(m) : m[i] = n[i + 1]) /\ Head(n) = n[1] /\ 1 \in 1 .. Len(n)
  OBVIOUS
<1>2. u \in Seq(Seq(Ids)) /\ Len(u) = Len(n) /\ \A i \in 1 .. Len(n) : u[i] = OwnCommands(n[i].sent)
  BY PackedTyped
<1>3. Packed(m) \in Seq(Seq(Ids)) /\ Len(Packed(m)) = Len(m) /\ \A i \in 1 .. Len(m) : Packed(m)[i] = OwnCommands(m[i].sent)
  BY <1>1, PackedTyped
<1> HIDE DEF m, u
<1>4. u # <<>> /\ Head(u) = u[1] /\ Tail(u) \in Seq(Seq(Ids)) /\ Len(Tail(u)) = Len(u) - 1
      /\ \A i \in 1 .. Len(Tail(u)) : Tail(u)[i] = u[i + 1]
  <2> DEFINE L == Seq(Ids)
  <2>1. u \in Seq(L) /\ Len(u) # 0
    BY <1>1, <1>2
  <2> HIDE DEF L
  <2>2. u # <<>> /\ Head(u) = u[1] /\ Tail(u) \in Seq(L) /\ Len(Tail(u)) = Len(u) - 1
      /\ \A i \in 1 .. Len(Tail(u)) : Tail(u)[i] = u[i + 1]
    BY <2>1
  <2> QED BY <2>2 DEF L
<1>5. ASSUME NEW i \in 1 .. Len(m) PROVE Packed(m)[i] = Tail(u)[i]
  <2>1. i \in 1 .. Len(Tail(u)) /\ i + 1 \in 1 .. Len(n)
    BY <1>1, <1>2, <1>4
  <2> QED BY <1>1, <1>2, <1>3, <1>4, <2>1
<1>6. Packed(m) = Tail(u)
  BY <1>1, <1>2, <1>3, <1>4, <1>5, SeqEqual
<1>7. Chained(u) = Head(u) \o Chained(Tail(u))
  BY <1>2, <1>4, ChainedHead
<1> QED BY <1>1, <1>2, <1>4, <1>6, <1>7 DEF m, u

\* What is still to do.
LEMMA TodoTyped ==
    ASSUME NEW d \in Device
    PROVE  Todo(d) \in Seq(Ids) /\ Chained(Packed(d.next)) \in Seq(Ids) /\ OwnCommands(d.tx) \in Seq(Ids)
<1>1. Chained(Packed(d.next)) \in Seq(Ids)
  BY DeviceFields, PackedTyped, ChainedTyped
<1>2. OwnCommands(d.tx) \in Seq(Ids)
  BY DeviceFields, OwnTyped
<1> QED BY <1>1, <1>2 DEF Todo

\* Commands can be grouped as one likes.
LEMMA Regroup == \A s, t, u \in Seq(Ids) : (s \o t) \o u = s \o (t \o u)
BY ConcatAssociative

\* From d to e some of what is to do in d, and of new, was executed.
Moves(d, e, new) == \E x \in Seq(Ids) : e.executed = d.executed \o x /\ Todo(d) \o new = x \o Todo(e)

\* Nothing was executed.
LEMMA NothingMoves ==
    ASSUME NEW d \in Device, NEW e \in Device, NEW new \in Seq(Ids), e.executed = d.executed, Todo(e) = Todo(d) \o new
    PROVE  Moves(d, e, new)
<1>1. d.executed \in Seq(Ids) /\ Todo(e) \in Seq(Ids) /\ <<>> \in Seq(Ids)
  BY DeviceFields, TodoTyped
<1>2. d.executed \o <<>> = d.executed /\ <<>> \o Todo(e) = Todo(e)
  BY <1>1, ConcatEmptySeq
<1> QED BY <1>1, <1>2 DEF Moves

\* One move after another.
LEMMA MovesOn ==
    ASSUME NEW d \in Device, NEW e \in Device, NEW f \in Device, NEW a \in Seq(Ids), NEW b \in Seq(Ids),
           Moves(d, e, a), Moves(e, f, b)
    PROVE  Moves(d, f, a \o b)
<1>1. PICK x \in Seq(Ids) : e.executed = d.executed \o x /\ Todo(d) \o a = x \o Todo(e)
  BY DEF Moves
<1>2. PICK y \in Seq(Ids) : f.executed = e.executed \o y /\ Todo(e) \o b = y \o Todo(f)
  BY DEF Moves
<1>3. d.executed \in Seq(Ids)
  BY DeviceFields
<1>4. Todo(d) \in Seq(Ids)
  BY TodoTyped
<1>5. Todo(e) \in Seq(Ids)
  BY TodoTyped
<1>6. Todo(f) \in Seq(Ids)
  BY TodoTyped
<1>7. x \o y \in Seq(Ids)
  BY <1>1, <1>2
<1>8. (d.executed \o x) \o y = d.executed \o (x \o y)
  BY <1>3, Regroup
<1>9. (Todo(d) \o a) \o b = Todo(d) \o (a \o b)
  BY <1>4, Regroup
<1>10. (x \o Todo(e)) \o b = x \o (Todo(e) \o b)
  BY <1>5, Regroup
<1>11. (x \o y) \o Todo(f) = x \o (y \o Todo(f))
  BY <1>6, Regroup
<1>12. f.executed = d.executed \o (x \o y)
  BY <1>1, <1>2, <1>8
<1>13. Todo(d) \o (a \o b) = (x \o y) \o Todo(f)
  BY <1>1, <1>2, <1>9, <1>10, <1>11
<1> QED BY <1>7, <1>12, <1>13 DEF Moves

\* What is packed is to do.
LEMMA TxMoves ==
    ASSUME NEW d \in Device, NEW e \in Device, NEW own \in Seq(Command),
           e.executed = d.executed, e.next = d.next, e.tx = d.tx \o own
    PROVE  Moves(d, e, OwnCommands(own)) /\ OwnCommands(own) \in Seq(Ids)
<1>1. OwnCommands(own) \in Seq(Ids) /\ Chained(Packed(d.next)) \in Seq(Ids) /\ OwnCommands(d.tx) \in Seq(Ids)
  BY OwnTyped, TodoTyped
<1>2. OwnCommands(e.tx) = OwnCommands(d.tx) \o OwnCommands(own)
  BY DeviceFields, OwnConcat
<1>3. Todo(e) = Todo(d) \o OwnCommands(own)
  BY <1>1, <1>2, ConcatAssociative DEF Todo
<1> QED BY <1>1, <1>3, NothingMoves

\* What is sent is still to do.
LEMMA SentMoves ==
    ASSUME NEW d \in Device, d.fill # None, NEW own \in Seq(Command)
    PROVE  Moves(d, SendCommand(d, own), <<>>)
<1> DEFINE e == SendCommand(d, own)
           p == [sent |-> d.tx, expect |-> d.fill.expect \o own]
<1>1. e \in Device /\ e.tx = <<>> /\ e.next = Append(d.next, p) /\ e.executed = d.executed
  BY PacketSent
<1>2. p \in Packet /\ p.sent = d.tx
  <2>1. d.fill.expect \in Seq(Command) /\ d.tx \in Seq(Command)
    BY DeviceFields DEF Record
  <2>2. d.fill.expect \o own \in Seq(Command)
    BY <2>1
  <2> QED BY <2>1, <2>2 DEF Packet
<1> HIDE DEF e, p
<1>3. Packed(e.next) = Append(Packed(d.next), OwnCommands(d.tx)) /\ OwnCommands(d.tx) \in Seq(Ids)
  BY <1>1, <1>2, DeviceFields, PackedAppend
<1>4. Chained(Packed(e.next)) = Chained(Packed(d.next)) \o OwnCommands(d.tx)
  BY <1>3, DeviceFields, PackedTyped, ChainedAppend
<1>5. Todo(e) = Todo(d) \o <<>> /\ <<>> \in Seq(Ids)
  <2>1. Todo(d) \in Seq(Ids) /\ Todo(d) \o <<>> = Todo(d)
    BY TodoTyped, ConcatEmptySeq
  <2>2. Chained(Packed(e.next)) \o <<>> = Chained(Packed(e.next))
    BY <1>1, TodoTyped, ConcatEmptySeq
  <2> QED BY <1>1, <1>4, <2>1, <2>2, OwnOne DEF Todo
<1> QED BY <1>1, <1>5, NothingMoves DEF e

\* What the server has done of the packet it answers is done, the rest comes next.
LEMMA ReadMoves ==
    ASSUME NEW d \in Device, d.next # <<>>, NEW k \in 0 .. Len(Head(d.next).sent)
    PROVE  LET e == Answered(d, k)
               sent == Head(d.next).sent
               x == OwnCommands(SubSeq(sent, 1, k))
               rest == OwnCommands(SubSeq(sent, k + 1, Len(sent))) \o Todo(e) IN
           /\ x \in Seq(Ids) /\ rest \in Seq(Ids) /\ e.executed = d.executed \o x /\ Todo(d) = x \o rest
           /\ k = Len(sent) => rest = Todo(e)
<1> DEFINE e == Answered(d, k)
           sent == Head(d.next).sent
           got == SubSeq(sent, 1, k)
           left == SubSeq(sent, k + 1, Len(sent))
<1>1. e \in Device /\ e.next = Tail(d.next) /\ e.tx = d.tx /\ e.executed = d.executed \o OwnCommands(got)
  BY AnswerRead
<1> HIDE DEF e
<1>2. sent \in Seq(Command) /\ Len(sent) \in Nat
  <2>1. Head(d.next) \in Packet
    BY DeviceFields
  <2>2. sent \in Seq(Command)
    BY <2>1 DEF Packet
  <2> QED BY <2>2
<1>s. k \in 0 .. Len(sent)
  OBVIOUS
<1> DEFINE all == Chained(Packed(Tail(d.next)))
<1>3. Chained(Packed(d.next)) = OwnCommands(sent) \o all
  BY DeviceFields, PackedTail
<1> HIDE DEF sent
<1>4. got \in Seq(Command) /\ left \in Seq(Command) /\ got \o left = sent
  <2>1. got \in Seq(Command) /\ left \in Seq(Command)
    BY <1>2, <1>s
  <2>2. Len(got) = k /\ Len(left) = Len(sent) - k
    BY <1>2, <1>s
  <2>3. \A i \in 1 .. k : got[i] = sent[i]
    BY <1>2, <1>s
  <2>4. \A i \in 1 .. Len(sent) - k : left[i] = sent[k + i]
    BY <1>2, <1>s
  <2> HIDE DEF got, left
  <2>5. got \o left \in Seq(Command) /\ Len(got \o left) = Len(sent)
    <3>1. got \o left \in Seq(Command) /\ Len(got \o left) = Len(got) + Len(left)
      BY <2>1
    <3>2. k + (Len(sent) - k) = Len(sent)
      BY <1>2, <1>s
    <3> QED BY <2>2, <3>1, <3>2
  <2>6. ASSUME NEW i \in 1 .. Len(got \o left) PROVE (got \o left)[i] = sent[i]
    <3>1. CASE i <= k
      <4>1. (got \o left)[i] = got[i] /\ i \in 1 .. k
        BY <1>2, <1>s, <2>1, <2>2, <2>5, <2>6, <3>1
      <4> QED BY <2>3, <4>1
    <3>2. CASE ~(i <= k)
      <4>1. (got \o left)[i] = left[i - k] /\ i - k \in 1 .. Len(sent) - k /\ k + (i - k) = i
        BY <1>2, <1>s, <2>1, <2>2, <2>5, <2>6, <3>2
      <4> QED BY <2>4, <4>1
    <3> QED BY <3>1, <3>2
  <2>7. got \o left = sent
    BY <1>2, <2>5, <2>6, SeqEqual
  <2> QED BY <2>1, <2>7
<1>5. OwnCommands(got) \in Seq(Ids) /\ OwnCommands(left) \in Seq(Ids)
      /\ OwnCommands(sent) = OwnCommands(got) \o OwnCommands(left)
  <2> HIDE DEF got, left
  <2> QED BY <1>4, OwnTyped, OwnConcat
<1>6. all \in Seq(Ids) /\ OwnCommands(d.tx) \in Seq(Ids) /\ Todo(e) \in Seq(Ids)
  BY <1>1, TodoTyped
<1>7. Todo(e) = all \o OwnCommands(d.tx) /\ Todo(d) = (OwnCommands(sent) \o all) \o OwnCommands(d.tx)
  BY <1>1, <1>3 DEF Todo
<1> HIDE DEF all, got, left
<1> DEFINE g == OwnCommands(got)
           l == OwnCommands(left)
           t == OwnCommands(d.tx)
<1>8. Todo(d) = g \o (l \o Todo(e)) /\ l \o Todo(e) \in Seq(Ids)
  <2>1. g \in Seq(Ids) /\ l \in Seq(Ids) /\ t \in Seq(Ids) /\ all \in Seq(Ids)
    BY <1>5, <1>6
  <2>2. Todo(d) = ((g \o l) \o all) \o t /\ Todo(e) = all \o t
    BY <1>5, <1>7
  <2> HIDE DEF g, l, t
  <2>3. g \o l \in Seq(Ids) /\ all \o t \in Seq(Ids)
    BY <2>1
  <2>4. l \o (all \o t) \in Seq(Ids)
    BY <2>1, <2>3
  <2>5. ((g \o l) \o all) \o t = (g \o l) \o (all \o t)
    <3> DEFINE gl == g \o l
    <3>1. gl \in Seq(Ids) /\ all \in Seq(Ids) /\ t \in Seq(Ids)
      BY <2>1, <2>3
    <3> HIDE DEF gl
    <3>2. (gl \o all) \o t = gl \o (all \o t)
      BY <3>1, Regroup
    <3> QED BY <3>2 DEF gl
  <2>6. (g \o l) \o (all \o t) = g \o (l \o (all \o t))
    <3> DEFINE at == all \o t
    <3>1. g \in Seq(Ids) /\ l \in Seq(Ids) /\ at \in Seq(Ids)
      BY <2>1, <2>3
    <3> HIDE DEF at
    <3>2. (g \o l) \o at = g \o (l \o at)
      BY <3>1, Regroup
    <3> QED BY <3>2 DEF at
  <2> QED BY <2>2, <2>4, <2>5, <2>6
<1>9. ASSUME k = Len(sent) PROVE l \o Todo(e) = Todo(e)
  <2>1. left = <<>>
    BY <1>2, <1>9 DEF left
  <2>2. l = <<>>
    BY <2>1, OwnOne
  <2> QED BY <1>6, <2>2, ConcatEmptySeq
<1> QED BY <1>1, <1>5, <1>8, <1>9 DEF e, sent, got, left

\* Moving on, when nothing is added.
LEMMA MovesOnward ==
    ASSUME NEW d \in Device, NEW e \in Device, NEW f \in Device, NEW a \in Seq(Ids)
    PROVE  /\ Moves(d, e, <<>>) /\ Moves(e, f, a) => Moves(d, f, a)
           /\ Moves(d, e, a) /\ Moves(e, f, <<>>) => Moves(d, f, a)
<1>1. <<>> \in Seq(Ids) /\ <<>> \o a = a /\ a \o <<>> = a
  BY ConcatEmptySeq
<1>2. ASSUME Moves(d, e, <<>>), Moves(e, f, a) PROVE Moves(d, f, a)
  <2>1. Moves(d, f, <<>> \o a)
    BY <1>1, <1>2, MovesOn
  <2> QED BY <1>1, <2>1
<1>3. ASSUME Moves(d, e, a), Moves(e, f, <<>>) PROVE Moves(d, f, a)
  <2>1. Moves(d, f, a \o <<>>)
    BY <1>1, <1>3, MovesOn
  <2> QED BY <1>1, <2>1
<1> QED BY <1>2, <1>3

\* Nothing of the program's is packed by beginning a packet.
LEMMA ContinueMoves ==
    ASSUME NEW d \in Device, d.free > 0
    PROVE  Moves(d, Continue(d), <<>>) /\ Continue(d) \in Device
<1> DEFINE e == Continue(d)
<1>1. e \in Device /\ e.next = d.next /\ e.tx = Append(d.tx, CONTINUE) /\ e.executed = d.executed
  BY Continued
<1> HIDE DEF e
<1>2. CONTINUE \in Command /\ d.tx \in Seq(Command)
  BY CommandsDiffer, DeviceFields
<1>3. <<CONTINUE>> \in Seq(Command) /\ e.tx = d.tx \o <<CONTINUE>>
  BY <1>1, <1>2
<1>4. Moves(d, e, OwnCommands(<<CONTINUE>>))
  BY <1>1, <1>3, TxMoves
<1> QED BY <1>1, <1>4, OwnOne DEF e

\* A packet that is executed whole.
LEMMA WholeMoves ==
    ASSUME NEW d \in Device, d.next # <<>>, NEW k, k = Len(Head(d.next).sent), k \in 0 .. k
    PROVE  Moves(d, Answered(d, k), <<>>)
<1> DEFINE e == Answered(d, k)
           sent == Head(d.next).sent
           x == OwnCommands(SubSeq(sent, 1, k))
           rest == OwnCommands(SubSeq(sent, k + 1, Len(sent))) \o Todo(e)
<1>0. k \in 0 .. Len(Head(d.next).sent)
  OBVIOUS
<1>1. x \in Seq(Ids) /\ e.executed = d.executed \o x /\ Todo(d) = x \o rest /\ (k = Len(sent) => rest = Todo(e))
  BY <1>0, ReadMoves
<1>2. rest = Todo(e)
  BY <1>1
<1> HIDE DEF e, x, rest
<1>3. Todo(d) \o <<>> = Todo(d)
  BY TodoTyped, ConcatEmptySeq
<1> QED BY <1>1, <1>2, <1>3 DEF Moves, e

\* send_continue may have executed something, and packs nothing of the program's.
LEMMA SendContinueMoves ==
    ASSUME NEW d \in Device, d.fill # None, Between(d, TRUE), d.locked, ~d.deferError,
           NEW s \in SendContinue(d), ~s.dev.parted
    PROVE  Moves(d, s.dev, <<>>)
<1> DEFINE sent == SendCommand(d, <<>>)
<1>0. <<>> \in Seq(Command) /\ <<>> \in Seq(Ids)
  OBVIOUS
<1>1. /\ Sound(sent, TRUE) /\ SameLock(d, sent) /\ sent \in Device /\ sent.fill = None /\ sent.next # <<>>
      /\ sent.locked /\ ~sent.deferError
  <2>1. Sound(sent, TRUE) /\ SameLock(d, sent) /\ sent \in Device /\ sent.fill = None /\ sent.next # <<>>
    BY SentSound DEF Between
  <2> QED BY <2>1 DEF SameLock
<1>2. Moves(d, sent, <<>>)
  BY <1>0, SentMoves
<1>3. CASE sent.free > 0
  <2>1. s = [dev |-> Continue(sent), ok |-> ~sent.lockFail]
    BY <1>3 DEF SendContinue
  <2> HIDE DEF sent
  <2>2. s.dev = Continue(sent)
    BY <2>1
  <2>3. Moves(sent, Continue(sent), <<>>) /\ Continue(sent) \in Device
    BY <1>1, <1>3, ContinueMoves
  <2> QED BY <1>0, <1>1, <1>2, <2>2, <2>3, MovesOnward
<1>4. CASE ~(sent.free > 0)
  <2>1. PICK r \in ReceiveResponse(sent, TRUE) :
           s = IF r.error THEN [dev |-> [r.dev EXCEPT !.parted = TRUE], ok |-> FALSE]
               ELSE [dev |-> Continue(r.dev), ok |-> ~r.dev.lockFail]
    BY <1>4 DEF SendContinue
  <2> HIDE DEF sent
  <2> DEFINE n == Len(Head(sent.next).sent)
  <2>n. ~r.error
    <3> SUFFICES ASSUME r.error PROVE FALSE
      OBVIOUS
    <3>1. s.dev = [r.dev EXCEPT !.parted = TRUE]
      BY <2>1
    <3>2. r.dev \in Device
      BY <1>1, AnswerTyped
    <3> QED BY <3>1, <3>2 DEF Device
  <2>2. r.dev \in Device /\ r.dev = Answered(sent, n) /\ n \in 0 .. n
    BY <1>1, <2>1, <2>n, ReadSound
  <2>3. s.dev = Continue(r.dev)
    BY <2>1, <2>n
  <2>4. r.dev.free > 0
    <3>1. Answered(sent, n).free = sent.free + 1
      BY <1>1, <2>2, AnswerRead
    <3>2. sent.free \in Nat
      BY <1>1, DeviceFields
    <3> QED BY <2>2, <3>1, <3>2
  <2>5. Moves(sent, r.dev, <<>>)
    <3>1. Moves(sent, Answered(sent, n), <<>>)
      BY <1>1, <2>2, WholeMoves
    <3> QED BY <2>2, <3>1
  <2>6. Moves(r.dev, Continue(r.dev), <<>>) /\ Continue(r.dev) \in Device
    BY <2>2, <2>4, ContinueMoves
  <2>7. Moves(d, r.dev, <<>>)
    BY <1>0, <1>1, <1>2, <2>2, <2>5, MovesOnward
  <2> QED BY <1>0, <2>2, <2>3, <2>6, <2>7, MovesOnward
<1> QED BY <1>3, <1>4

\* So does get_txmessage.
LEMMA GetTxMessageMoves ==
    ASSUME NEW d, Usable(d), Between(d, Packing), d.locked, ~d.deferError, NEW kind,
           NEW g \in GetTxMessage(d, kind), ~g.dev.parted
    PROVE  Moves(d, g.dev, <<>>)
<1> DEFINE e == IF d.fill = None THEN TakeActions(d) ELSE d
<1>0. d \in Device /\ <<>> \in Seq(Ids)
  BY DEF Usable
<1>1. Between(e, Packing) /\ SameLock(d, e) /\ e \in Device /\ e.fill # None /\ Moves(d, e, <<>>)
  <2>1. Todo(d) \o <<>> = Todo(d)
    BY <1>0, TodoTyped, ConcatEmptySeq
  <2>2. CASE d.fill = None
    <3> DEFINE t == TakeActions(d)
    <3>1. Between(t, Packing) /\ SameLock(d, t) /\ t \in Device /\ t.fill # None
      BY <1>0, <2>2, TakenSound DEF Usable
    <3>2. t.next = d.next /\ t.tx = d.tx /\ t.executed = d.executed
      BY <1>0, <2>2, Taken DEF Usable
    <3> HIDE DEF t
    <3>3. Moves(d, t, <<>>)
      <4>1. Todo(t) = Todo(d)
        BY <3>2 DEF Todo
      <4> QED BY <1>0, <2>1, <3>1, <3>2, <4>1, NothingMoves
    <3>4. e = t
      BY <2>2 DEF t
    <3> QED BY <3>1, <3>3, <3>4
  <2>3. CASE d.fill # None
    <3>1. Moves(d, d, <<>>)
      BY <1>0, <2>1, NothingMoves
    <3>2. e = d
      BY <2>3
    <3> QED BY <1>0, <2>3, <3>1, <3>2 DEF SameLock
  <2> QED BY <2>2, <2>3
<1>2. g \in IF MayPack(kind) /\ Full(e, kind) THEN SendContinue(e)
            ELSE {[dev |-> e, ok |-> MayPack(kind)]}
  BY DEF GetTxMessage
<1> HIDE DEF e
<1>3. CASE MayPack(kind) /\ Full(e, kind)
  <2>1. Packing = TRUE
    BY <1>3 DEF MayPack, Packing
  <2>2. e.locked /\ ~e.deferError
    BY <1>1 DEF SameLock
  <2>3. Between(g.dev, TRUE) /\ g.dev \in Device /\ Moves(e, g.dev, <<>>)
    BY <1>1, <1>2, <1>3, <2>1, <2>2, SendContinueSound, SendContinueMoves
  <2> QED BY <1>0, <1>1, <2>3, MovesOnward
<1>4. CASE ~(MayPack(kind) /\ Full(e, kind))
  <2>1. g.dev = e
    BY <1>2, <1>4
  <2> QED BY <1>1, <2>1
<1> QED BY <1>3, <1>4

\* What is packed, or sent by a call, is to do.
LEMMA PackMoves ==
    ASSUME NEW d \in Device, d.fill # None, NEW c \in Ids, NEW outputs \in Nat
    PROVE  Moves(d, Pack(d, c, outputs), <<c>>)
<1> DEFINE e == Pack(d, c, outputs)
<1>0. c \in Command /\ d.tx \in Seq(Command)
  BY CommandsDiffer, DeviceFields
<1>1. e \in Device /\ e.next = d.next /\ e.tx = Append(d.tx, c) /\ e.executed = d.executed
  BY <1>0, Packs
<1> HIDE DEF e
<1>2. <<c>> \in Seq(Command) /\ e.tx = d.tx \o <<c>>
  BY <1>0, <1>1
<1>3. Moves(d, e, OwnCommands(<<c>>))
  BY <1>1, <1>2, TxMoves
<1> QED BY <1>3, OwnOne DEF e

\* The same when a call sends it at once.
LEMMA SendReceiveMoves ==
    ASSUME NEW d \in Device, d.fill # None, NEW of, NEW own \in Seq(Command), SendReceive(d, of, own)
    PROVE  Moves(d, dev', OwnCommands(own))
<1> DEFINE a == [d EXCEPT !.tx = d.tx \o own]
<1>0. d.tx \o own \in Seq(Command)
  BY DeviceFields
<1>1. a \in Device /\ a.fill = d.fill /\ a.next = d.next /\ a.tx = d.tx \o own /\ a.executed = d.executed
  BY <1>0 DEF Device
<1>2. dev' = SendCommand(a, own)
  BY DEF SendReceive
<1> HIDE DEF a
<1>3. Moves(d, a, OwnCommands(own)) /\ OwnCommands(own) \in Seq(Ids)
  BY <1>1, TxMoves
<1>4. Moves(a, SendCommand(a, own), <<>>)
  BY <1>1, SentMoves
<1>5. SendCommand(a, own) \in Device
  BY <1>1, PacketSent
<1> QED BY <1>1, <1>2, <1>3, <1>4, <1>5, MovesOnward

-----------------------------------------------------------------------------
(* The steps of CommandQueue.                                               *)

\* A list is cut where two were joined.
LEMMA Cut ==
    ASSUME NEW x \in Seq(Ids), NEW rest \in Seq(Ids)
    PROVE  LET q == x \o rest IN
           /\ Len(x) \in 0 .. Len(q) /\ SubSeq(q, 1, Len(x)) = x /\ SubSeq(q, Len(x) + 1, Len(q)) = rest
<1> DEFINE q == x \o rest
           k == Len(x)
<1>1. /\ q \in Seq(Ids) /\ Len(q) = k + Len(rest) /\ k \in Nat /\ Len(rest) \in Nat
      /\ \A i \in 1 .. k : q[i] = x[i]
      /\ \A i \in 1 .. Len(rest) : q[k + i] = rest[i]
  OBVIOUS
<1> HIDE DEF q
<1>2. k \in 0 .. Len(q) /\ k + 1 \in 1 .. Len(q) + 1
  BY <1>1
<1>3. SubSeq(q, 1, k) = x
  <2> DEFINE s == SubSeq(q, 1, k)
  <2>1. s \in Seq(Ids) /\ Len(s) = k /\ \A i \in 1 .. k : s[i] = q[i]
    BY <1>1, <1>2
  <2> HIDE DEF s
  <2>2. s = x
    BY <1>1, <2>1
  <2> QED BY <2>2 DEF s
<1>4. SubSeq(q, k + 1, Len(q)) = rest
  <2> DEFINE s == SubSeq(q, k + 1, Len(q))
  <2>1. s \in Seq(Ids) /\ Len(s) = Len(rest) /\ \A i \in 1 .. Len(rest) : s[i] = q[k + i]
    BY <1>1, <1>2
  <2> HIDE DEF s
  <2>2. s = rest
    BY <1>1, <2>1
  <2> QED BY <2>2 DEF s
<1> QED BY <1>2, <1>3, <1>4 DEF q

\* What a step executes is the next to be executed; the rest stays to do, or is
\* refused.
LEMMA Accepts ==
    ASSUME Owed = FALSE, Owed' \in BOOLEAN, NEW new \in {<<>>} \cup {<<c>> : c \in Ids},
           NEW x \in Seq(Ids), NEW rest \in Seq(Ids),
           dev'.executed = dev.executed \o x, Todo(dev) \o new = x \o rest,
           ~Owed' => Todo(dev)' = rest
    PROVE  Queue!Next
<1> DEFINE q == x \o rest
<1>1. Len(x) \in 0 .. Len(q) /\ SubSeq(q, 1, Len(x)) = x /\ SubSeq(q, Len(x) + 1, Len(q)) = rest
  BY Cut
<1> HIDE DEF q
<1>2. Todo(dev) \o new = q
  BY DEF q
<1>3. Queue!Executes(q, Len(x))
  <2>1. CASE Owed' = TRUE
    BY <1>1, <2>1 DEF Queue!Executes
  <2>2. CASE Owed' = FALSE
    BY <1>1, <2>2 DEF Queue!Executes
  <2> QED BY <2>1, <2>2
<1>4. Queue!Accept(new)
  BY <1>1, <1>2, <1>3 DEF Queue!Accept
<1> QED BY <1>4 DEF Queue!Next

\* Nothing is seen of a step.
LEMMA Unseen ==
    ASSUME Owed' = Owed, dev'.executed = dev.executed, ~Owed => Todo(dev)' = Todo(dev)
    PROVE  UNCHANGED Queue!vars
BY DEF Queue!vars

\* A call reports the error.
LEMMA Tells ==
    ASSUME Owed = TRUE, Owed' = FALSE, dev'.executed = dev.executed, Todo(dev)' = <<>>
    PROVE  Queue!Next
BY DEF Queue!Next, Queue!Tell

\* What is owed to the program, between calls and while one waits.
LEMMA OwedIs ==
    ASSUME Accounted, ValuesTyped, InStep
    PROVE  /\ call = NoCall => Owed = dev.deferError
           /\ call # NoCall => Owed = call.error
           /\ Owed \in BOOLEAN
<1>1. dev \in Device /\ dev.deferError \in BOOLEAN /\ call.error \in BOOLEAN
  BY DeviceFields DEF Accounted, ValuesTyped
<1>2. dev.next # <<>> => First(dev) = dev.next[1].sent
  <2>1. dev.next \in Seq(Packet)
    BY <1>1, DeviceFields
  <2> QED BY <2>1 DEF First
<1>3. CASE call = NoCall
  <2>1. Between(dev, Packing)
    BY <1>3 DEF InStep
  <2>2. dev.stuck /\ dev.next # <<>> => ~Continues(dev.next[1].sent)
    BY <1>2, <2>1 DEF Between, Sound
  <2>3. call.error = FALSE
    BY <1>3, CallKinds
  <2> QED BY <1>1, <1>3, <2>2, <2>3 DEF Owed
<1>4. CASE call # NoCall
  <2>1. Waiting(dev, call, Packing)
    BY <1>4 DEF InStep
  <2>2. ~dev.deferError /\ (dev.stuck /\ dev.next # <<>> /\ Continues(dev.next[1].sent) => call.error)
    BY <1>2, <2>1 DEF Waiting
  <2> QED BY <1>1, <1>4, <2>2 DEF Owed
<1> QED BY <1>3, <1>4

\* Nothing is to do when nothing is packed or sent.
LEMMA NothingToDo ==
    ASSUME NEW d \in Device, d.next = <<>>, OwnCommands(d.tx) = <<>>
    PROVE  Todo(d) = <<>>
<1>1. Packed(<<>>) = <<>>
  <2>1. <<>> \in Seq(Packet) /\ Len(<<>>) = 0
    OBVIOUS
  <2>2. Packed(<<>>) \in Seq(Seq(Ids)) /\ Len(Packed(<<>>)) = 0
    BY <2>1, PackedTyped
  <2> DEFINE L == Seq(Ids)
             p == Packed(<<>>)
  <2>3. p \in Seq(L) /\ Len(p) = 0
    BY <2>2
  <2> HIDE DEF L, p
  <2>4. p = <<>>
    BY <2>3
  <2> QED BY <2>4 DEF p
<1>2. Chained(Packed(<<>>)) = <<>>
  BY <1>1, ChainedEmpty
<1>3. <<>> \o <<>> = <<>>
  OBVIOUS
<1> QED BY <1>2, <1>3 DEF Todo

\* What moves on is accepted, if nothing is refused.
LEMMA MovesAccepted ==
    ASSUME Owed = FALSE, Owed' = FALSE, NEW new \in {<<>>} \cup {<<c>> : c \in Ids}, dev' \in Device, Moves(dev, dev', new)
    PROVE  Queue!Next
<1>1. PICK x \in Seq(Ids) : dev'.executed = dev.executed \o x /\ Todo(dev) \o new = x \o Todo(dev')
  BY DEF Moves
<1>2. Todo(dev') \in Seq(Ids)
  BY TodoTyped
<1>3. Todo(dev)' = Todo(dev')
  OBVIOUS
<1> QED BY <1>1, <1>2, <1>3, Accepts

\* Sending what is packed, with or without a command of the program, accepts it.
LEMMA SendsAccepted ==
    ASSUME Accounted, ValuesTyped, InStep, call = NoCall, Owed = FALSE, Owed' = FALSE,
           NEW d, Usable(d), d.fill # None, Moves(dev, d, <<>>),
           NEW of \in {"command", "flush", "unlock", "other"},
           NEW own \in {<<>>, <<UNLOCK>>} \cup {<<c>> : c \in Ids}, SendReceive(d, of, own)
    PROVE  Queue!Next
<1> DEFINE new == OwnCommands(own)
<1>0. d \in Device
  BY DEF Usable
<1>1. own \in Seq(Command)
  <2>1. CASE own = <<>>
    BY <2>1
  <2>2. CASE own = <<UNLOCK>>
    BY <2>2, CommandsDiffer
  <2>3. ASSUME NEW c \in Ids, own = <<c>> PROVE own \in Seq(Command)
    <3>1. c \in Command
      BY CommandsDiffer
    <3> QED BY <2>3, <3>1
  <2> QED BY <2>1, <2>2, <2>3
<1>2. new \in {<<>>} \cup {<<c>> : c \in Ids}
  BY OwnOne
<1>3. dev' \in Device
  BY <1>0, <1>1, SendReceiveCounts
<1>4. new \in Seq(Ids) /\ dev \in Device
  BY <1>1, OwnTyped DEF Accounted
<1>5. Moves(d, dev', new)
  BY <1>0, <1>1, SendReceiveMoves
<1> HIDE DEF new
<1>6. Moves(dev, dev', new)
  BY <1>0, <1>3, <1>4, <1>5, MovesOnward
<1> QED BY <1>2, <1>3, <1>6, MovesAccepted

\* An answer executes what is to be done first.  Once an error is owed nothing is
\* executed.
LEMMA ReceiveQueue ==
    ASSUME Accounted, ValuesTyped, InStep, Receive, InStep', Accounted', ValuesTyped'
    PROVE  Queue!Next \/ UNCHANGED Queue!vars
<1> DEFINE sent == Head(dev.next).sent
<1>1. call # NoCall /\ dev.next # <<>> /\ dev \in Device
  BY DEF Receive, AllReceived, Accounted
<1>2. PICK r \in ReceiveResponse(dev, TRUE) :
          dev' = r.dev /\ call' = [call EXCEPT !.error = @ \/ r.error]
  BY DEF Receive
<1>3. PICK k \in Executable(dev, sent, TRUE) :
         r = [dev |-> Answered(dev, k), error |-> k < Len(Head(dev.next).expect)]
  BY <1>2 DEF ReceiveResponse
<1>4. Waiting(dev, call, Packing)
  BY <1>1 DEF InStep
<1>5. sent = Head(dev.next).expect /\ sent \in Seq(Command)
  <2>1. dev.next \in Seq(Packet) /\ Head(dev.next) \in Packet
    BY <1>1, DeviceFields
  <2>2. Head(dev.next) = dev.next[1] /\ 1 \in 1 .. Len(dev.next)
    BY <1>1, <2>1
  <2>3. dev.next[1].sent = dev.next[1].expect
    BY <1>4, <2>2 DEF Waiting, Lined
  <2>4. Head(dev.next).sent \in Seq(Command)
    BY <2>1 DEF Packet
  <2> QED BY <2>2, <2>3, <2>4
<1>6. k \in 0 .. Len(sent)
  <2> HIDE DEF sent
  <2> QED BY <1>1, <1>3, <1>5, ExecutableTyped
<1>7. dev' = Answered(dev, k) /\ (call'.error <=> call.error \/ k < Len(sent)) /\ call'.of = call.of
  <2> HIDE DEF sent
  <2>1. r.dev = Answered(dev, k) /\ r.error = (k < Len(Head(dev.next).expect))
    BY <1>3
  <2>2. call \in [of : {"none", "command", "flush", "unlock", "other"}, error : BOOLEAN]
    BY DEF ValuesTyped
  <2> QED BY <1>2, <1>5, <2>1, <2>2
<1>8. call' # NoCall
  BY <1>4, <1>7, CallKinds DEF Waiting
<1>9. Owed = call.error /\ Owed' = call'.error
  <2>1. Owed = call.error
    BY <1>1, OwedIs
  <2>2. (Accounted /\ ValuesTyped /\ InStep /\ call # NoCall => Owed = call.error)'
    BY OwedIs, PTL
  <2> QED BY <1>8, <2>1, <2>2
<1> DEFINE e == Answered(dev, k)
           x == OwnCommands(SubSeq(sent, 1, k))
           rest == OwnCommands(SubSeq(sent, k + 1, Len(sent))) \o Todo(e)
<1>10. /\ x \in Seq(Ids) /\ rest \in Seq(Ids) /\ e.executed = dev.executed \o x /\ Todo(dev) = x \o rest
       /\ k = Len(sent) => rest = Todo(e)
  BY <1>1, <1>6, ReadMoves
<1>11. Todo(dev)' = Todo(e) /\ dev'.executed = e.executed
  BY <1>7
<1>12. CASE call.error
  <2>1. dev.stuck /\ Continues(First(dev)) /\ First(dev) = sent
    BY <1>1, <1>4, <1>12 DEF Waiting, First
  <2>2. sent # <<>> /\ sent[1] = CONTINUE
    BY <2>1 DEF Continues
  <2> HIDE DEF sent
  <2>3. k = 0
    BY <1>3, <2>1, <2>2 DEF Executable
  <2>4. SubSeq(sent, 1, k) = <<>>
    BY <1>5, <2>3
  <2>5. x = <<>>
    BY <2>4, OwnOne
  <2>6. e.executed = dev.executed
    <3>1. dev.executed \in Seq(Ids)
      BY <1>1, DeviceFields
    <3> HIDE DEF e, x
    <3> QED BY <1>10, <2>5, <3>1, ConcatEmptySeq
  <2>7. Owed = TRUE /\ Owed' = TRUE
    <3>1. call.error \in BOOLEAN /\ call'.error \in BOOLEAN
      BY DEF ValuesTyped
    <3> QED BY <1>7, <1>9, <1>12, <3>1
  <2> QED BY <1>11, <2>6, <2>7, Unseen
<1>13. CASE ~call.error
  <2>1. Owed = FALSE /\ (Owed' <=> k < Len(sent)) /\ Owed' \in BOOLEAN
    <3>1. call.error \in BOOLEAN /\ call'.error \in BOOLEAN
      BY DEF ValuesTyped
    <3> QED BY <1>7, <1>9, <1>13, <3>1
  <2>2. ~Owed' => rest = Todo(e)
    <3>1. Len(sent) \in Nat
      BY <1>5
    <3> HIDE DEF sent, rest, e
    <3> QED BY <1>6, <1>10, <2>1, <3>1
  <2> HIDE DEF x, rest, e
  <2>3. Todo(dev) \o <<>> = x \o rest
    BY <1>1, <1>10, TodoTyped, ConcatEmptySeq
  <2>4. dev'.executed = dev.executed \o x /\ (~Owed' => Todo(dev)' = rest)
    BY <1>10, <1>11, <2>2
  <2>5. Queue!Next
    BY <1>10, <2>1, <2>3, <2>4, Accepts
  <2> QED BY <2>5
<1> QED BY <1>12, <1>13

\* What is owed after a step.
LEMMA OwedNext ==
    ASSUME Accounted', ValuesTyped', InStep'
    PROVE  /\ call' = NoCall => Owed' = dev'.deferError
           /\ call' # NoCall => Owed' = call'.error
<1>1. (Accounted /\ ValuesTyped /\ InStep =>
          (call = NoCall => Owed = dev.deferError) /\ (call # NoCall => Owed = call.error))'
  BY OwedIs, PTL
<1> QED BY <1>1

\* When a call returns, or reports an error that was kept, nothing is left to do.
LEMMA ReturnQueue ==
    ASSUME Accounted, ValuesTyped, InStep, Return, InStep', Accounted', ValuesTyped'
    PROVE  Queue!Next \/ UNCHANGED Queue!vars
<1>1. call # NoCall /\ dev.next = <<>> /\ call' = NoCall /\ dev' = After(dev, call) /\ dev \in Device
  BY DEF Return, AllReceived, After, Accounted
<1>2. Waiting(dev, call, Packing)
  BY <1>1 DEF InStep
<1>3. dev.tx = <<>> /\ dev.deferError = FALSE
  BY <1>1, <1>2, DeviceFields DEF Waiting, Lined
<1>4. /\ dev' \in Device /\ dev'.next = <<>> /\ dev'.tx = <<>> /\ dev'.executed = dev.executed
      /\ dev'.deferError = IF call.of = "other" THEN call.error ELSE FALSE
  <2>1. call \in [of : {"none", "command", "flush", "unlock", "other"}, error : BOOLEAN]
    BY DEF ValuesTyped
  <2>2. LET e == After(dev, call) IN
        /\ e \in Device /\ e.next = dev.next
        /\ e.tx = IF dev.locked /\ dev.lockFail THEN <<>> ELSE dev.tx
        /\ e.deferError = IF call.of = "other" THEN call.error ELSE dev.deferError
        /\ e.executed = dev.executed
    BY <1>1, <2>1, Returned
  <2> QED BY <1>1, <1>3, <2>2
<1>5. Todo(dev) = <<>> /\ Todo(dev)' = <<>>
  <2>1. Todo(dev) = <<>> /\ Todo(dev') = <<>>
    BY <1>1, <1>3, <1>4, NothingToDo, OwnOne
  <2> QED BY <2>1
<1>6. Owed = call.error /\ Owed' = dev'.deferError /\ call.error \in BOOLEAN
  BY <1>1, OwedIs, OwedNext DEF ValuesTyped
<1>7. CASE Owed' = Owed
  BY <1>4, <1>5, <1>7, Unseen
<1>8. CASE Owed' # Owed
  <2>1. Owed = TRUE /\ Owed' = FALSE
    BY <1>4, <1>6, <1>8
  <2> QED BY <1>4, <1>5, <2>1, Tells
<1> QED BY <1>7, <1>8

\* Nothing is packed while an error is kept.
LEMMA KeptError ==
    ASSUME Accounted, InStep, call = NoCall, dev.deferError \/ ~dev.locked
    PROVE  dev.next = <<>> /\ dev.tx = <<>> /\ Todo(dev) = <<>>
<1>1. Between(dev, Packing) /\ dev \in Device
  BY DEF InStep, Accounted
<1>2. dev.next = <<>> /\ dev.tx = <<>>
  BY <1>1 DEF Between, Sound, Lined
<1> QED BY <1>1, <1>2, NothingToDo, OwnOne

\* An error that was kept is reported.
LEMMA PendingQueue ==
    ASSUME Accounted, ValuesTyped, InStep, InStep', Accounted', ValuesTyped', call = NoCall, call' = NoCall,
           dev.deferError, dev'.deferError = FALSE, dev'.next = dev.next, dev'.tx = dev.tx, dev'.executed = dev.executed
    PROVE  Queue!Next
<1>1. Todo(dev) = <<>> /\ Todo(dev)' = <<>>
  <2>1. dev.next = <<>> /\ dev.tx = <<>> /\ Todo(dev) = <<>>
    BY KeptError
  <2>2. Todo(dev') = Todo(dev)
    BY DEF Todo
  <2> QED BY <2>1, <2>2
<1>2. Owed = TRUE /\ Owed' = FALSE
  <2>1. dev.deferError = TRUE
    BY DeviceFields DEF Accounted
  <2>2. Owed = dev.deferError
    BY OwedIs
  <2>3. Owed' = dev'.deferError
    BY OwedNext
  <2> QED BY <2>1, <2>2, <2>3
<1> QED BY <1>1, <1>2, Tells

\* A lock is none of the program's commands.
LEMMA LockQueue ==
    ASSUME Accounted, ValuesTyped, InStep, InStep', Accounted', ValuesTyped', NEW s \in Styles, Lock(s)
    PROVE  UNCHANGED Queue!vars
<1>1. /\ call = NoCall /\ call' = NoCall /\ dev.deferError = FALSE /\ ~dev.locked
      /\ dev' \in Device /\ dev'.next = dev.next /\ dev'.deferError = FALSE /\ dev'.executed = dev.executed
      /\ dev'.tx = Append(dev.tx, LOCK) \/ dev'.tx = dev.tx
  <2>1. dev.deferError \in BOOLEAN
    BY DeviceFields DEF Accounted
  <2> QED BY <2>1, Locks
<1>2. dev.next = <<>> /\ dev.tx = <<>> /\ Todo(dev) = <<>>
  BY <1>1, KeptError
<1>3. Append(<<>>, LOCK) = <<LOCK>>
  OBVIOUS
<1>4. Todo(dev') = <<>>
  BY <1>1, <1>2, <1>3, NothingToDo, OwnOne
<1>5. Owed' = Owed
  <2>1. Owed = dev.deferError /\ Owed' = dev'.deferError
    BY <1>1, OwedIs, OwedNext
  <2> QED BY <1>1, <2>1
<1>6. Todo(dev)' = Todo(dev)
  BY <1>2, <1>4
<1> QED BY <1>1, <1>5, <1>6, Unseen

\* A call that sends what is packed and waits.
LEMMA SendQueue ==
    ASSUME Accounted, ValuesTyped, InStep, InStep', Accounted', ValuesTyped',
           call = NoCall, dev.deferError = FALSE,
           NEW d, Usable(d), d.fill # None, Moves(dev, d, <<>>),
           NEW of \in {"command", "flush", "unlock", "other"},
           NEW own \in {<<>>, <<UNLOCK>>} \cup {<<c>> : c \in Ids}, SendReceive(d, of, own)
    PROVE  Queue!Next
<1>1. call' = [of |-> of, error |-> FALSE]
  BY DEF SendReceive
<1>2. call' # NoCall /\ call'.error = FALSE
  BY <1>1, CallKinds
<1>3. Owed = FALSE /\ Owed' = FALSE
  <2>1. Owed = dev.deferError
    BY OwedIs
  <2>2. Owed' = call'.error
    BY <1>2, OwedNext
  <2> QED BY <1>2, <2>1, <2>2
<1> QED BY <1>3, SendsAccepted

\* Between calls the device stays where it is.
LEMMA Stays ==
    ASSUME Accounted
    PROVE  Moves(dev, dev, <<>>)
<1>1. dev \in Device /\ <<>> \in Seq(Ids)
  BY DEF Accounted
<1>2. Todo(dev) \o <<>> = Todo(dev)
  BY <1>1, TodoTyped, ConcatEmptySeq
<1> QED BY <1>1, <1>2, NothingMoves

\* A command that is given is to do.
LEMMA IssueQueue ==
    ASSUME Accounted, ValuesTyped, InStep, InStep', Accounted', ValuesTyped', ~dev'.parted,
           NEW kind \in Kinds, Issue(kind)
    PROVE  Queue!Next
<1> DEFINE c == Own(issued + 1)
<1>0. Between(dev, Packing) /\ Usable(dev) /\ dev \in Device
  BY AtHand DEF InStep, Accounted, Issue
<1>1. call = NoCall /\ dev.locked /\ ~dev.deferError /\ issued < MaxCommands /\ issued \in Nat
  BY DEF Issue, ValuesTyped
<1>2. PICK g \in GetTxMessage(dev, kind) :
         \/ /\ g.ok /\ Deferrable(kind)
            /\ LET d == Pack(g.dev, c, Outputs(kind)) IN
               dev' \in IF kind = "big" THEN {s.dev : s \in SendContinue(d)} ELSE {d}
            /\ result' = "ok"
            /\ UNCHANGED call
         \/ /\ ~(g.ok /\ Deferrable(kind))
            /\ SendReceive(g.dev, "command", <<c>>)
            /\ UNCHANGED result
  BY DEF Issue
<1>p. ~g.dev.parted
  BY <1>1, <1>2, GivenParted
<1>3. Between(g.dev, Packing) /\ SameLock(dev, g.dev) /\ g.dev \in Device /\ g.dev.fill # None /\ Usable(g.dev)
  BY <1>0, <1>1, <1>p, GetTxMessageSound, GetTxMessageCounts
<1>4. c \in Ids
  <2>1. issued + 1 \in 1 .. MaxCommands
    BY <1>1, PipelineConstants
  <2> QED BY <2>1, CommandsDiffer
<1>5. Moves(dev, g.dev, <<>>)
  BY <1>0, <1>1, <1>p, GetTxMessageMoves
<1> HIDE DEF c
<1>6. g.dev.locked /\ ~g.dev.deferError
  BY <1>1, <1>3 DEF SameLock
<1>7. dev.deferError = FALSE
  BY <1>0, <1>1, DeviceFields
<1>8. CASE g.ok /\ Deferrable(kind)
  <2> DEFINE d == Pack(g.dev, c, Outputs(kind))
  <2>1. Outputs(kind) \in Nat /\ <<c>> \in Seq(Ids) /\ <<>> \in Seq(Ids)
    BY <1>4 DEF Outputs
  <2>2. Between(d, Packing) /\ SameLock(g.dev, d) /\ d \in Device /\ d.fill # None /\ Moves(g.dev, d, <<c>>)
    BY <1>3, <1>4, <1>6, <2>1, PackSound, PackMoves
  <2>3. (kind = "big" => \E s \in SendContinue(d) : dev' = s.dev) /\ (kind # "big" => dev' = d) /\ call' = call
    BY <1>2, <1>8
  <2> HIDE DEF d
  <2>4. Packing = TRUE
    BY <1>8 DEF Deferrable, MayPack, Packing
  <2>5. Moves(dev, d, <<c>>)
    BY <1>0, <1>3, <1>5, <2>1, <2>2, MovesOnward
  <2>6. Moves(dev, dev', <<c>>) /\ dev' \in Device /\ ~dev'.deferError
    <3>1. CASE kind = "big"
      <4>1. PICK s \in SendContinue(d) : dev' = s.dev
        BY <2>3, <3>1
      <4>2. d.locked /\ ~d.deferError
        BY <1>6, <2>2 DEF SameLock
      <4>3. Moves(d, s.dev, <<>>) /\ s.dev \in Device /\ SameLock(d, s.dev)
        BY <4>1, <2>2, <2>4, <4>2, SendContinueSound, SendContinueMoves
      <4>4. Moves(dev, s.dev, <<c>>)
        BY <1>0, <2>1, <2>2, <2>5, <4>3, MovesOnward
      <4> QED BY <4>1, <4>2, <4>3, <4>4 DEF SameLock
    <3>2. CASE kind # "big"
      BY <1>6, <2>2, <2>3, <2>5, <3>2 DEF SameLock
    <3> QED BY <3>1, <3>2
  <2>7. Owed = FALSE /\ Owed' = FALSE
    <3>1. Owed = dev.deferError /\ Owed' = dev'.deferError
      BY <1>1, <2>3, OwedIs, OwedNext
    <3>2. dev'.deferError \in BOOLEAN
      BY <2>6, DeviceFields
    <3> QED BY <1>7, <2>6, <3>1, <3>2
  <2>8. <<c>> \in {<<>>} \cup {<<a>> : a \in Ids}
    BY <1>4
  <2> QED BY <2>6, <2>7, <2>8, MovesAccepted
<1>9. CASE ~(g.ok /\ Deferrable(kind))
  <2>1. SendReceive(g.dev, "command", <<c>>)
    BY <1>2, <1>9
  <2>2. <<c>> \in {<<>>, <<UNLOCK>>} \cup {<<a>> : a \in Ids}
    BY <1>4
  <2> QED BY <1>1, <1>3, <1>5, <1>7, <2>1, <2>2, SendQueue
<1> QED BY <1>8, <1>9

\* Every step is one of CommandQueue's, or is not seen.
LEMMA QueueNext ==
    ASSUME Accounted, ValuesTyped, InStep, InStep', Accounted', ValuesTyped', ~dev'.parted, [Next]_vars
    PROVE  Queue!Next \/ UNCHANGED Queue!vars
<1>b. dev \in Device /\ (call = NoCall => Between(dev, Packing) /\ Usable(dev))
  BY AtHand DEF InStep, Accounted
<1>e. <<>> \in {<<>>, <<UNLOCK>>} \cup {<<c>> : c \in Ids} /\ <<UNLOCK>> \in {<<>>, <<UNLOCK>>} \cup {<<c>> : c \in Ids}
  OBVIOUS
<1>0. ASSUME UNCHANGED <<dev, call>> PROVE UNCHANGED Queue!vars
  <2>1. Owed' = Owed /\ Todo(dev') = Todo(dev)
    BY <1>0 DEF Owed
  <2>2. dev'.executed = dev.executed /\ Todo(dev)' = Todo(dev)
    BY <1>0, <2>1
  <2> QED BY <2>1, <2>2, Unseen
<1>1. ASSUME NEW s \in Styles, Lock(s) PROVE UNCHANGED Queue!vars
  BY <1>1, LockQueue
<1>2. ASSUME NEW kind \in Kinds, Issue(kind) PROVE Queue!Next
  BY <1>2, IssueQueue
<1>3. CASE PendingError
  <2>1. call = NoCall /\ dev.deferError /\ dev' = [dev EXCEPT !.deferError = FALSE] /\ call' = call
    BY <1>3 DEF PendingError
  <2>2. /\ dev'.deferError = FALSE /\ dev'.next = dev.next /\ dev'.tx = dev.tx /\ dev'.executed = dev.executed
    BY <1>b, <2>1 DEF Device
  <2> QED BY <2>1, <2>2, PendingQueue
<1>4. CASE UnlockPending
  <2>1. call = NoCall /\ dev.deferError /\ dev' = [dev EXCEPT !.locked = FALSE, !.deferError = FALSE] /\ call' = call
    BY <1>4 DEF UnlockPending
  <2>2. /\ dev'.deferError = FALSE /\ dev'.next = dev.next /\ dev'.tx = dev.tx /\ dev'.executed = dev.executed
    BY <1>b, <2>1, FlagsChanged
  <2> QED BY <2>1, <2>2, PendingQueue
<1>5. CASE Flush
  <2>1. call = NoCall /\ dev.locked
    BY <1>5 DEF Flush
  <2>2. CASE dev.fill = None /\ dev.next = <<>>
    <3>1. dev' = dev /\ call' = call
      BY <1>5, <2>2 DEF Flush
    <3> QED BY <1>0, <3>1
  <2>3. CASE ~(dev.fill = None /\ dev.next = <<>>)
    <3>1. SendReceive(dev, "flush", <<>>)
      BY <1>5, <2>3 DEF Flush
    <3>2. dev.fill # None /\ dev.deferError = FALSE
      BY <1>b, <2>1, <2>3, DeviceFields DEF Between
    <3> QED BY <1>b, <1>e, <2>1, <3>1, <3>2, Stays, SendQueue
  <2> QED BY <2>2, <2>3
<1>6. CASE Unlock
  <2>1. call = NoCall /\ dev.locked /\ ~dev.deferError
    BY <1>6 DEF Unlock
  <2>2. PICK g \in GetTxMessage(dev, "plain") : SendReceive(g.dev, "unlock", <<UNLOCK>>)
    BY <1>6 DEF Unlock
  <2>p. ~g.dev.parted
    BY <2>1, <2>2, UnlockParted
  <2>3. g.dev.fill # None /\ Usable(g.dev) /\ Moves(dev, g.dev, <<>>)
    BY <1>b, <2>1, <2>p, GetTxMessageSound, GetTxMessageCounts, GetTxMessageMoves
  <2>4. dev.deferError = FALSE
    BY <1>b, <2>1, DeviceFields
  <2> QED BY <1>e, <2>1, <2>2, <2>3, <2>4, SendQueue
<1>7. CASE SendDeferred
  <2>1. call = NoCall /\ dev.tx # <<>> /\ SendReceive(dev, "other", <<>>)
    BY <1>7 DEF SendDeferred
  <2>2. dev.fill # None /\ dev.deferError = FALSE
    BY <1>b, <2>1, DeviceFields DEF Between, Sound, Lined
  <2> QED BY <1>b, <1>e, <2>1, <2>2, Stays, SendQueue
<1> QED BY <1>0, <1>1, <1>2, <1>3, <1>4, <1>5, <1>6, <1>7, ReceiveQueue, ReturnQueue DEF Next, vars

\* The pipeline does what CommandQueue promises until send_continue, waiting for a
\* record, reads a refusal: packing, its limits and the CONTINUE_COMMANDS packets are
\* not seen.
THEOREM Promised == Spec => ImplementsQueue
<1>1. Init => Queue!Init
  <2> SUFFICES ASSUME Init PROVE Queue!Init
    OBVIOUS
  <2>1. Accounted /\ ValuesTyped
    BY AccountedInit
  <2>2. dev \in Device /\ dev.next = <<>> /\ dev.tx = <<>> /\ dev.executed = <<>> /\ dev.deferError = FALSE
        /\ dev.stuck = FALSE /\ call.error = FALSE
    BY <2>1 DEF Init, Accounted, NoCall
  <2>3. Todo(dev) = <<>>
    BY <2>2, NothingToDo, OwnOne
  <2>4. Owed = FALSE
    BY <2>2 DEF Owed
  <2> QED BY <2>2, <2>3, <2>4 DEF Queue!Init
<1>2. Accounted /\ ValuesTyped /\ (dev.parted \/ InStep) /\ Accounted' /\ ValuesTyped' /\ (dev.parted \/ InStep)'
        /\ [Next]_vars => [dev'.parted \/ Queue!Next]_(Queue!vars)
  BY QueueNext, PartedStays
<1>3. Spec => [](Accounted /\ ValuesTyped /\ (dev.parted \/ InStep))
  BY AlwaysInStep
<1> QED BY <1>1, <1>2, <1>3, PTL DEF Spec, ImplementsQueue

=============================================================================
