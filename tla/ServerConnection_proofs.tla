----------------------- MODULE ServerConnection_proofs -----------------------
(* Proofs about ServerConnection: for any number of threads, devices and    *)
(* connections, with a local or a remote server, whatever the time that an   *)
(* attempt takes.  ConnectionSound is inductive.                            *)
EXTENDS ServerConnection, TLAPS

Waiting == {"FIRSTTRY", "RETRY", "WAITSERVER"}

\* What one round of the attempt makes of the link.
Round(r) ==
    /\ r.link \in Link
    /\ link.heldOff => r.link.heldOff
    /\ r.link.slow = link.slow /\ r.link.replaced = link.replaced
    /\ r.call \in {"on", "delay", "over"}
    /\ r.call = "on" => r.link.state = "CONNECTING" /\ r.link.connect \in Waiting \cup {"FAIL"}
    /\ r.call = "delay" => r.link.state = "CONNECTING" /\ r.link.connect \in Waiting
    /\ r.call = "over" => r.link.state # "CONNECTING"
    /\ r.link.state = "CONNECTED" => r.link.open /\ r.link.connect = "SUCCESS"
    /\ r.link.state = "CONNECTING" /\ r.link.connect = "WAITSERVER" => r.link.open
    /\ r.link.state \notin {"CONNECTED", "CONNECTING"} => ~r.link.open

\* A round of continue_connect keeps the link consistent and, if it was, held off.
LEMMA RoundOfAttempt ==
    ASSUME link \in Link, link.state = "CONNECTING", link.connect # "SUCCESS",
           link.connect = "WAITSERVER" => link.open, NEW r \in ContinueConnect
    PROVE  Round(r)
<1> USE ConnectionConstants
<1>1. CASE link.connect = "FAIL"
  <2>1. r = NoServer
    BY <1>1 DEF ContinueConnect
  <2> QED BY <1>1, <2>1 DEF NoServer, Over, Round, Link, Waiting
<1>2. CASE link.connect = "LOOKUP"
  <2> r \in Lookup
    BY <1>2 DEF ContinueConnect
  <2>1. CASE r = Goes(Fails(link))
    BY <1>2, <2>1 DEF Goes, Fails, Round, Link, Waiting
  <2>2. CASE r = Goes([link EXCEPT !.connect = "FIRSTTRY", !.late = FALSE])
    BY <1>2, <2>2 DEF Goes, Round, Link, Waiting
  <2> QED BY <2>1, <2>2 DEF Lookup
<1>3. CASE link.connect \in {"FIRSTTRY", "RETRY"}
  <2> r \in Try
    BY <1>3 DEF ContinueConnect
  <2> DEFINE l == [link EXCEPT !.open = FALSE]
  <2>1. CASE r = Wait([link EXCEPT !.open = TRUE])
    BY <1>3, <2>1 DEF Wait, Goes, Delay, Fails, Round, Link, Waiting
  <2>2. CASE r = Goes([link EXCEPT !.open = TRUE, !.connect = "WAITSERVER", !.late = FALSE])
    BY <1>3, <2>2 DEF Goes, Round, Link, Waiting
  <2>3. CASE r = Delay(l)
    BY <1>3, <2>3 DEF Delay, Round, Link, Waiting
  <2>4. CASE r = Goes(Fails(l))
    BY <1>3, <2>4 DEF Goes, Fails, Round, Link, Waiting
  <2>5. CASE r = Goes([l EXCEPT !.connect = "RETRY", !.late = FALSE])
    BY <1>3, <2>5 DEF Goes, Round, Link, Waiting
  <2>6. r \in Refusal => r \in {Delay(l), Goes(Fails(l)), Goes([l EXCEPT !.connect = "RETRY", !.late = FALSE])}
    BY DEF Refusal
  <2> QED BY <2>1, <2>2, <2>3, <2>4, <2>5, <2>6 DEF Try
<1>4. CASE link.connect = "WAITSERVER"
  <2> DEFINE failed == [link EXCEPT !.connect = "FAIL", !.open = FALSE, !.state = "BROKEN"]
             prepared == [link EXCEPT !.connect = "SUCCESS", !.state = "CONNECTED", !.number = @ + 1]
  <2>1. CASE r = Wait(link)
    BY <1>4, <2>1 DEF Wait, Goes, Delay, Fails, Round, Link, Waiting
  <2>2. ASSUME NEW s \in {"BADVERSION", "AUTHFAIL", "BROKEN"}, r = Over([failed EXCEPT !.state = s])
        PROVE  Round(r)
    BY <1>4, <2>2 DEF Over, Round, Link, Waiting
  <2>3. CASE r = Over([failed EXCEPT !.heldOff = TRUE])
    BY <1>4, <2>3 DEF Over, Round, Link, Waiting
  <2>4. CASE r = Over(prepared) /\ link.number # MaxConnections
    <3>1. link.number \in 0 .. MaxConnections /\ MaxConnections \in Nat
      BY DEF Link
    <3>2. link.number + 1 \in 0 .. MaxConnections
      BY <2>4, <3>1
    <3>3. prepared \in Link /\ prepared.heldOff = link.heldOff /\ prepared.state = "CONNECTED"
          /\ prepared.slow = link.slow /\ prepared.replaced = link.replaced
          /\ prepared.open = link.open /\ prepared.connect = "SUCCESS"
      BY <3>2 DEF Link
    <3> HIDE DEF prepared
    <3> QED BY <1>4, <2>4, <3>3 DEF Over, Round, Waiting
  <2>5. r = Wait(link) \/ r \in Prepared
    BY <1>4 DEF ContinueConnect
  <2>6. r \in Prepared =>
          \/ \E s \in {"BADVERSION", "AUTHFAIL", "BROKEN"} : r = Over([failed EXCEPT !.state = s])
          \/ r = Over([failed EXCEPT !.heldOff = TRUE])
          \/ r = Over(prepared) /\ link.number # MaxConnections
    BY DEF Prepared
  <2> QED BY <2>1, <2>2, <2>3, <2>4, <2>5, <2>6
<1> QED BY <1>1, <1>2, <1>3, <1>4 DEF Link

\* start_connect, by a thread that may.
LEMMA StartOfAttempt ==
    ASSUME link \in Link
    PROVE  /\ Started \in Link
           /\ Started.state = "CONNECTING"
           /\ link.state = "CONNECTING" => Started = link
           /\ link.state # "CONNECTING" => Started.connect = "LOOKUP" /\ Started.heldOff
           /\ Started.slow = link.slow
           /\ Started.replaced = (link.replaced \/ link.state = "CONNECTED")
  BY DEF Started, Link

\* disconnect leaves no valid chain and no usable device.
LEMMA DisconnectDetaches ==
    ASSUME TypeOK, Disconnect
    PROVE  /\ link' \in Link /\ link'.state = "BROKEN" /\ ~link'.open
           /\ link'.slow = link.slow /\ link'.replaced = link.replaced
           /\ chain' \in Chain /\ ~chain'.valid
           /\ dev' \in [Devices -> Device]
           /\ \A d \in Devices : dev'[d].state # "attached"
<1>1. \A d \in Devices : Detached(d) \in Device /\ Detached(d).state # "attached"
  BY DEF TypeOK, Detached, Device
<1> QED BY <1>1 DEF TypeOK, Disconnect, Link, Chain

IInv == ConnectionSound

\* The initial states.
LEMMA ConnectionInit == Init => IInv
<1> SUFFICES ASSUME Init PROVE IInv
  OBVIOUS
<1> USE ConnectionConstants DEF Init
<1>1. TypeOK
  BY DEF TypeOK, Link, Chain, Device, Thread
<1>2. StateTellsSocket /\ OfThisConnection /\ LinkUsedByOwner /\ AttemptKept /\ HeldOff
  BY DEF StateTellsSocket, OfThisConnection, LinkUsedByOwner, AttemptKept, HeldOff, Unready, At
<1> QED BY <1>1, <1>2 DEF IInv, ConnectionSound

\* A thread that neither has the link nor takes it, and leaves all else alone.
LEMMA Walk ==
    ASSUME IInv, NEW t \in Threads, NEW pc \in {"idle", "all claim", "refresh", "client"},
           Goto(t, pc), owner # t, pc = "all claim" => link.state # "CONNECTED",
           UNCHANGED <<host, owner, link, chain, dev>>, ~Polls(t)
    PROVE  IInv'
<1> USE ConnectionConstants DEF IInv, ConnectionSound, Goto
<1>1. th' \in [Threads -> Thread] /\ th'[t].pc = pc /\ \A u \in Threads \ {t} : th'[u] = th[u]
  BY DEF TypeOK, Thread
<1>2. TypeOK'
  BY <1>1 DEF TypeOK
<1>3. StateTellsSocket'
  BY <1>1 DEF StateTellsSocket, Polls
<1>4. OfThisConnection'
  BY DEF OfThisConnection
<1>5. LinkUsedByOwner'
  BY <1>1 DEF LinkUsedByOwner
<1>6. AttemptKept' /\ HeldOff'
  BY <1>1 DEF AttemptKept, HeldOff, Unready, At
<1> QED BY <1>2, <1>3, <1>4, <1>5, <1>6

\* The thread that has the link, or takes it while it is free: what it leaves behind.
LEMMA OwnerMoves ==
    ASSUME IInv, NEW t \in Threads, owner \in {None, t}, owner' \in {None, t},
           TypeOK', OfThisConnection',
           \A u \in Threads \ {t} : th'[u] = th[u],
           LET pc == th'[t].pc IN
           /\ pc \in {"all poll", "all sleep", "connect", "connect sleep", "list", "exchange"} => owner' = t
           /\ owner' = t => pc \in {"all poll", "all sleep", "connect", "connect sleep", "list", "exchange",
                                    "sweep"}
           /\ pc \in {"all poll", "all sleep", "connect", "connect sleep"} => link'.state = "CONNECTING"
           /\ pc = "exchange" => link'.state = "CONNECTED"
           /\ pc # "all claim",
           link'.state = "CONNECTED" => link'.open /\ link'.connect = "SUCCESS",
           link'.state = "CONNECTING" =>
               \/ link'.connect \in Waiting
               \/ link'.connect \in {"LOOKUP", "FAIL"} /\ Polls(t)',
           link'.state = "CONNECTING" /\ link'.connect = "WAITSERVER" => link'.open,
           link'.state \notin {"CONNECTED", "CONNECTING"} => ~link'.open,
           link'.replaced => link'.slow,
           ~link'.slow =>
               /\ link'.state = "CONNECTING" => link'.heldOff
               /\ link'.state = "CONNECTED" => link'.heldOff \/ link' = link
    PROVE  IInv'
<1> USE ConnectionConstants DEF IInv, ConnectionSound
<1>1. \A u \in Threads \ {t} : owner # u
  BY DEF TypeOK
<1>2. StateTellsSocket'
  BY DEF StateTellsSocket, Waiting
<1>3. LinkUsedByOwner'
  BY <1>1 DEF LinkUsedByOwner, TypeOK
<1>4. AttemptKept'
  <2> SUFFICES ASSUME NEW u \in Threads
               PROVE  /\ th'[u].pc \in {"all poll", "all sleep", "connect", "connect sleep"} =>
                           link'.state = "CONNECTING"
                      /\ th'[u].pc = "exchange" => link'.state = "CONNECTED"
    BY DEF AttemptKept
  <2>1. CASE u = t
    BY <2>1
  <2>2. CASE u # t
    <3>1. owner # u /\ th'[u] = th[u] /\ LinkUsedByOwner
      BY <1>1, <2>2
    <3> QED BY <3>1 DEF LinkUsedByOwner
  <2> QED BY <2>1, <2>2
<1>5. HeldOff'
  <2>1. (\E u \in Threads : th'[u].pc = "all claim") => \E u \in Threads : th[u].pc = "all claim"
    OBVIOUS
  <2>2. CASE link'.slow
    BY <2>2 DEF HeldOff
  <2>3. CASE ~link'.slow /\ link' = link
    BY <2>1, <2>3 DEF HeldOff, Unready, At
  <2>4. CASE ~link'.slow /\ link' # link
    BY <2>4 DEF HeldOff
  <2> QED BY <2>2, <2>3, <2>4
<1> QED BY <1>2, <1>3, <1>4, <1>5

\* The calls of a thread.
LEMMA BeginKeeps ==
    ASSUME IInv, NEW t \in Threads, GetHardware(t) \/ AddHardware(t)
    PROVE  IInv'
<1>1. owner # t /\ ~Polls(t)
  BY DEF IInv, ConnectionSound, LinkUsedByOwner, GetHardware, AddHardware, At, Polls
<1>2. CASE GetHardware(t) /\ link.state = "CONNECTED"
  BY <1>1, <1>2, Walk DEF GetHardware
<1>3. CASE GetHardware(t) /\ link.state # "CONNECTED"
  BY <1>1, <1>3, Walk DEF GetHardware
<1>4. CASE AddHardware(t)
  BY <1>1, <1>4, Walk DEF AddHardware
<1> QED BY <1>2, <1>3, <1>4

\* A thread that starts an attempt has the link to itself; if it was connected, an attempt
\* has outlasted the hold-off.
LEMMA StartKeeps ==
    ASSUME IInv, NEW t \in Threads, Free, owner' = t, link' = Started, link.state = "CONNECTED" => link.slow,
           th' \in [Threads -> Thread], \A u \in Threads \ {t} : th'[u] = th[u],
           th'[t].pc \in {"all poll", "connect"},
           chain' \in Chain, chain'.exists = chain.exists, chain'.valid = chain.valid, chain'.number = chain.number,
           UNCHANGED <<host, dev>>
    PROVE  IInv'
<1> USE DEF IInv, ConnectionSound, Free
<1>1. /\ link' \in Link /\ link'.state = "CONNECTING"
      /\ link.state = "CONNECTING" => link' = link
      /\ link.state # "CONNECTING" => link'.connect = "LOOKUP" /\ link'.heldOff
      /\ link'.slow = link.slow
      /\ link'.replaced = (link.replaced \/ link.state = "CONNECTED")
  BY StartOfAttempt DEF TypeOK
<1>2. TypeOK'
  BY <1>1 DEF TypeOK
<1>3. OfThisConnection'
  BY <1>1 DEF OfThisConnection
<1>4. Polls(t)'
  BY DEF Polls
<1>5. (link'.replaced => link'.slow) /\ (~link'.slow => link'.heldOff)
  BY <1>1 DEF HeldOff
<1>6. /\ link'.connect \in Waiting \cup {"LOOKUP", "FAIL"}
      /\ link'.connect = "WAITSERVER" => link'.open
  BY <1>1 DEF StateTellsSocket, Waiting
<1> QED BY <1>1, <1>2, <1>3, <1>4, <1>5, <1>6, OwnerMoves

\* connect_all, which may find the link in use.
LEMMA ConnectAllKeeps ==
    ASSUME IInv, NEW t \in Threads, ConnectAll(t)
    PROVE  IInv'
<1>1. owner # t /\ ~Polls(t) /\ th \in [Threads -> Thread]
  BY DEF IInv, ConnectionSound, TypeOK, LinkUsedByOwner, ConnectAll, At, Polls
<1>2. CASE Goto(t, "refresh") /\ UNCHANGED <<owner, link>>
  BY <1>1, <1>2, Walk DEF ConnectAll
<1>3. CASE Free /\ MayStart /\ owner' = t /\ link' = Started /\ Goto(t, "all poll")
  <2>1. link.state = "CONNECTED" => link.slow
    BY <1>3 DEF IInv, ConnectionSound, HeldOff, MayStart, ConnectAll, Unready
  <2>2. /\ th' \in [Threads -> Thread] /\ th'[t].pc = "all poll"
        /\ \A u \in Threads \ {t} : th'[u] = th[u]
    BY <1>1, <1>3 DEF Goto, Thread
  <2>3. chain' = chain /\ chain \in Chain /\ UNCHANGED <<host, dev>>
    BY DEF ConnectAll, IInv, ConnectionSound, TypeOK
  <2> QED BY <1>3, <2>1, <2>2, <2>3, StartKeeps
<1> QED BY <1>2, <1>3 DEF ConnectAll

\* What a round means for devices and the chain: they are of no connection meanwhile.
LEMMA NothingWhileConnecting ==
    ASSUME IInv, link.state # "CONNECTED", link'.replaced = link.replaced, UNCHANGED <<chain, dev>>
    PROVE  OfThisConnection'
  BY DEF IInv, ConnectionSound, OfThisConnection

\* A thread that polls has an attempt.
LEMMA PollsAttempt ==
    ASSUME IInv, NEW t \in Threads, Polls(t), NEW r \in ContinueConnect
    PROVE  /\ Round(r) /\ owner = t
           /\ link \in Link /\ link.state = "CONNECTING"
           /\ r.link.replaced => r.link.slow
           /\ ~r.link.slow => r.link.heldOff
<1>1. link \in Link
  BY DEF IInv, ConnectionSound, TypeOK
<1>2. link.state = "CONNECTING" /\ link.connect # "SUCCESS"
      /\ (link.connect = "WAITSERVER" => link.open)
  BY DEF IInv, ConnectionSound, AttemptKept, Polls, StateTellsSocket
<1>3. owner = t
  BY DEF IInv, ConnectionSound, LinkUsedByOwner, Polls
<1>4. /\ link.replaced => link.slow
      /\ ~link.slow => link.heldOff
  BY <1>2 DEF IInv, ConnectionSound, HeldOff
<1>5. Round(r)
  BY <1>1, <1>2, RoundOfAttempt
<1> QED BY <1>1, <1>2, <1>3, <1>4, <1>5 DEF Round

\* connect_all, one poll.
LEMMA PollKeeps ==
    ASSUME IInv, NEW t \in Threads, Poll(t)
    PROVE  IInv'
<1>1. PICK r \in ContinueConnect :
        /\ link' = r.link
        /\ CASE r.call = "on" -> UNCHANGED <<owner, th>>
             [] r.call = "delay" -> Goto(t, "all sleep") /\ UNCHANGED owner
             [] r.call = "over" -> Goto(t, "refresh") /\ owner' = None
  BY DEF Poll
<1>2. Polls(t) /\ th[t].pc = "all poll"
  BY DEF Poll, At, Polls
<1>3. /\ Round(r) /\ owner = t /\ link.state = "CONNECTING"
      /\ r.link.replaced => r.link.slow
      /\ ~r.link.slow => r.link.heldOff
  BY <1>2, PollsAttempt
<1>4. TypeOK
  BY DEF IInv, ConnectionSound
<1>5. UNCHANGED <<host, chain, dev>>
  BY DEF Poll
<1>6. OfThisConnection'
  BY <1>1, <1>3, <1>5, NothingWhileConnecting DEF Round
<1>7. CASE r.call = "on"
  <2>1. UNCHANGED <<owner, th>>
    BY <1>1, <1>7
  <2>2. TypeOK'
    BY <1>1, <1>3, <1>4, <1>5, <2>1 DEF TypeOK, Round
  <2> QED BY <1>1, <1>2, <1>3, <1>6, <1>7, <2>1, <2>2, OwnerMoves DEF Round, Polls, Waiting
<1>8. CASE r.call = "delay"
  <2>1. Goto(t, "all sleep") /\ UNCHANGED owner
    BY <1>1, <1>8
  <2>2. /\ th' \in [Threads -> Thread] /\ th'[t].pc = "all sleep"
        /\ \A u \in Threads \ {t} : th'[u] = th[u]
    BY <1>4, <2>1 DEF Goto, TypeOK, Thread
  <2>3. TypeOK'
    BY <1>1, <1>3, <1>4, <1>5, <2>1, <2>2 DEF TypeOK, Round
  <2> QED BY <1>1, <1>3, <1>6, <1>8, <2>1, <2>2, <2>3, OwnerMoves DEF Round, Waiting
<1>9. CASE r.call = "over"
  <2>1. Goto(t, "refresh") /\ owner' = None
    BY <1>1, <1>9
  <2>2. /\ th' \in [Threads -> Thread] /\ th'[t].pc = "refresh"
        /\ \A u \in Threads \ {t} : th'[u] = th[u]
    BY <1>4, <2>1 DEF Goto, TypeOK, Thread
  <2>3. TypeOK'
    BY <1>1, <1>3, <1>4, <1>5, <2>1, <2>2 DEF TypeOK, Round
  <2>4. owner' # t
    BY <2>1, ConnectionConstants
  <2> QED BY <1>1, <1>3, <1>6, <1>9, <2>1, <2>2, <2>3, <2>4, OwnerMoves DEF Round, Waiting
<1> QED BY <1>3, <1>7, <1>8, <1>9 DEF Round

\* A thread that has the link, or takes it while it is free, and leaves it as it is.
LEMMA LinkKept ==
    ASSUME IInv, NEW t \in Threads, owner \in {None, t}, owner' \in {None, t}, link' = link,
           TypeOK', OfThisConnection',
           \A u \in Threads \ {t} : th'[u] = th[u],
           LET pc == th'[t].pc IN
           /\ pc \in {"all poll", "all sleep", "connect", "connect sleep", "list", "exchange"} => owner' = t
           /\ owner' = t => pc \in {"all poll", "all sleep", "connect", "connect sleep", "list", "exchange",
                                    "sweep"}
           /\ pc \in {"all poll", "all sleep", "connect", "connect sleep"} => link.state = "CONNECTING"
           /\ pc = "exchange" => link.state = "CONNECTED"
           /\ pc # "all claim",
           ~Polls(t) \/ Polls(t)' \/ link.connect \in Waiting
    PROVE  IInv'
<1>1. /\ link.state = "CONNECTED" => link.open /\ link.connect = "SUCCESS"
      /\ link.state = "CONNECTING" /\ link.connect = "WAITSERVER" => link.open
      /\ link.state \notin {"CONNECTED", "CONNECTING"} => ~link.open
      /\ link.replaced => link.slow
      /\ ~link.slow => (link.state = "CONNECTING" => link.heldOff)
  BY DEF IInv, ConnectionSound, StateTellsSocket, HeldOff
<1>2. link.state = "CONNECTING" =>
        \/ link.connect \in Waiting
        \/ link.connect \in {"LOOKUP", "FAIL"} /\ Polls(t)'
  <2>1. ASSUME NEW u \in Threads, Polls(u)
        PROVE  u = t
    BY <2>1, ConnectionConstants DEF IInv, ConnectionSound, LinkUsedByOwner, Polls
  <2> QED BY <2>1 DEF IInv, ConnectionSound, StateTellsSocket, Waiting
<1> QED BY <1>1, <1>2, OwnerMoves

\* A thread goes from one place to another with the link.
LEMMA OwnerWalks ==
    ASSUME IInv, NEW t \in Threads, NEW pc, Goto(t, pc),
           pc \in {"all poll", "connect", "list", "refresh", "sweep", "idle"},
           owner = t, owner' \in {None, t},
           UNCHANGED <<host, link, chain, dev>>,
           pc \in {"all poll", "connect"} => link.state = "CONNECTING" /\ owner' = t,
           pc = "list" => owner' = t,
           pc \in {"refresh", "idle"} => owner' = None,
           ~Polls(t)
    PROVE  IInv'
<1>1. /\ th' \in [Threads -> Thread] /\ th'[t].pc = pc
      /\ \A u \in Threads \ {t} : th'[u] = th[u]
  BY DEF IInv, ConnectionSound, TypeOK, Goto, Thread
<1>2. TypeOK'
  BY <1>1 DEF IInv, ConnectionSound, TypeOK
<1>3. OfThisConnection'
  BY DEF IInv, ConnectionSound, OfThisConnection
<1>4. None # t
  BY ConnectionConstants
<1> QED BY <1>1, <1>2, <1>3, <1>4, LinkKept

\* connect_all, between two polls.
LEMMA SleepKeeps ==
    ASSUME IInv, NEW t \in Threads, Sleep(t) \/ SleepInConnect(t)
    PROVE  IInv'
<1>1. owner = t /\ ~Polls(t) /\ link.state = "CONNECTING"
  BY DEF IInv, ConnectionSound, LinkUsedByOwner, AttemptKept, Sleep, SleepInConnect, At, Polls
<1>2. CASE Sleep(t) /\ Goto(t, "all poll") /\ UNCHANGED owner
  BY <1>1, <1>2, OwnerWalks DEF Sleep
<1>3. CASE Sleep(t) /\ Goto(t, "refresh") /\ owner' = None
  BY <1>1, <1>3, OwnerWalks DEF Sleep
<1>4. CASE SleepInConnect(t)
  BY <1>1, <1>4, OwnerWalks DEF SleepInConnect
<1> QED BY <1>2, <1>3, <1>4 DEF Sleep

\* internal_connect, one poll.
LEMMA ConnectKeeps ==
    ASSUME IInv, NEW t \in Threads, Connect(t)
    PROVE  IInv'
<1>1. PICK r \in ContinueConnect :
        /\ link' = r.link
        /\ CASE r.call = "on" -> UNCHANGED <<owner, th>>
             [] r.call = "delay" -> Goto(t, "connect sleep") /\ UNCHANGED owner
             [] r.call = "over" ->
                  IF th[t].after = "list" \/ r.link.state = "CONNECTED"
                  THEN Goto(t, th[t].after) /\ UNCHANGED owner
                  ELSE Goto(t, "idle") /\ owner' = None
  BY DEF Connect
<1>2. Polls(t) /\ th[t].pc = "connect"
  BY DEF Connect, At, Polls
<1>3. /\ Round(r) /\ owner = t /\ link.state = "CONNECTING"
      /\ r.link.replaced => r.link.slow
      /\ ~r.link.slow => r.link.heldOff
  BY <1>2, PollsAttempt
<1>4. TypeOK
  BY DEF IInv, ConnectionSound
<1>5. UNCHANGED <<host, chain, dev>>
  BY DEF Connect
<1>6. OfThisConnection'
  BY <1>1, <1>3, <1>5, NothingWhileConnecting DEF Round
<1>7. CASE r.call = "on"
  <2>1. UNCHANGED <<owner, th>>
    BY <1>1, <1>7
  <2>2. TypeOK'
    BY <1>1, <1>3, <1>4, <1>5, <2>1 DEF TypeOK, Round
  <2> QED BY <1>1, <1>2, <1>3, <1>6, <1>7, <2>1, <2>2, OwnerMoves DEF Round, Polls, Waiting
<1>8. CASE r.call = "delay"
  <2>1. Goto(t, "connect sleep") /\ UNCHANGED owner
    BY <1>1, <1>8
  <2>2. /\ th' \in [Threads -> Thread] /\ th'[t].pc = "connect sleep"
        /\ \A u \in Threads \ {t} : th'[u] = th[u]
    BY <1>4, <2>1 DEF Goto, TypeOK, Thread
  <2>3. TypeOK'
    BY <1>1, <1>3, <1>4, <1>5, <2>1, <2>2 DEF TypeOK, Round
  <2> QED BY <1>1, <1>3, <1>6, <1>8, <2>1, <2>2, <2>3, OwnerMoves DEF Round, Waiting
<1>9. CASE r.call = "over"
  <2>1. CASE Goto(t, th[t].after) /\ UNCHANGED owner
             /\ (th[t].after = "list" \/ r.link.state = "CONNECTED")
    <3>1. th[t].after \in {"list", "exchange"}
      BY <1>4 DEF TypeOK, Thread
    <3>2. /\ th' \in [Threads -> Thread] /\ th'[t].pc = th[t].after
          /\ \A u \in Threads \ {t} : th'[u] = th[u]
      BY <1>4, <2>1, <3>1 DEF Goto, TypeOK, Thread
    <3>3. TypeOK'
      BY <1>1, <1>3, <1>4, <1>5, <2>1, <3>2 DEF TypeOK, Round
    <3> QED BY <1>1, <1>3, <1>6, <1>9, <2>1, <3>1, <3>2, <3>3, OwnerMoves DEF Round, Waiting
  <2>2. CASE Goto(t, "idle") /\ owner' = None
    <3>1. /\ th' \in [Threads -> Thread] /\ th'[t].pc = "idle"
          /\ \A u \in Threads \ {t} : th'[u] = th[u]
      BY <1>4, <2>2 DEF Goto, TypeOK, Thread
    <3>2. TypeOK'
      BY <1>1, <1>3, <1>4, <1>5, <2>2, <3>1 DEF TypeOK, Round
    <3>3. owner' # t
      BY <2>2, ConnectionConstants
    <3> QED BY <1>1, <1>3, <1>6, <1>9, <2>2, <3>1, <3>2, <3>3, OwnerMoves DEF Round, Waiting
  <2> QED BY <1>1, <1>9, <2>1, <2>2
<1> QED BY <1>3, <1>7, <1>8, <1>9 DEF Round

\* refresh_hardware, with and without the link.
LEMMA RefreshKeeps ==
    ASSUME IInv, NEW t \in Threads, Refresh(t)
    PROVE  IInv'
<1>1. owner # t /\ ~Polls(t)
  BY DEF IInv, ConnectionSound, LinkUsedByOwner, Refresh, At, Polls
<1>2. TypeOK
  BY DEF IInv, ConnectionSound
<1>3. /\ chain' \in Chain /\ chain'.exists = chain.exists
      /\ chain'.valid = chain.valid /\ chain'.number = chain.number
      /\ UNCHANGED <<host, dev>>
  BY <1>2 DEF Refresh, TypeOK, Chain
<1>4. CASE ~Free /\ Goto(t, "sweep") /\ UNCHANGED <<owner, link>>
  <2>1. /\ th' \in [Threads -> Thread] /\ th'[t].pc = "sweep"
        /\ \A u \in Threads \ {t} : th'[u] = th[u]
    BY <1>2, <1>4 DEF Goto, TypeOK, Thread
  <2>2. TypeOK'
    BY <1>2, <1>3, <1>4, <2>1 DEF TypeOK
  <2>3. StateTellsSocket'
    BY <1>1, <1>4, <2>1 DEF IInv, ConnectionSound, StateTellsSocket, Polls
  <2>4. OfThisConnection'
    BY <1>3, <1>4 DEF IInv, ConnectionSound, OfThisConnection
  <2>5. LinkUsedByOwner'
    BY <1>1, <1>4, <2>1 DEF IInv, ConnectionSound, LinkUsedByOwner
  <2>6. AttemptKept' /\ HeldOff'
    BY <1>4, <2>1 DEF IInv, ConnectionSound, AttemptKept, HeldOff, Unready, At
  <2> QED BY <2>2, <2>3, <2>4, <2>5, <2>6 DEF IInv, ConnectionSound
<1>5. CASE /\ Free /\ owner' = t /\ link.state \notin {"CONNECTED", "CONNECTING"} /\ link' = Started
           /\ th' = [th EXCEPT ![t] = [pc |-> "connect", after |-> "list"]]
  <2>1. /\ th' \in [Threads -> Thread] /\ th'[t].pc = "connect"
        /\ \A u \in Threads \ {t} : th'[u] = th[u]
    BY <1>2, <1>5 DEF TypeOK, Thread
  <2> QED BY <1>3, <1>5, <2>1, StartKeeps
<1>6. CASE Free /\ owner' = t /\ Goto(t, "list") /\ UNCHANGED link
  <2>1. /\ th' \in [Threads -> Thread] /\ th'[t].pc = "list"
        /\ \A u \in Threads \ {t} : th'[u] = th[u]
    BY <1>2, <1>6 DEF Goto, TypeOK, Thread
  <2>2. TypeOK'
    BY <1>2, <1>3, <1>6, <2>1 DEF TypeOK
  <2>3. OfThisConnection'
    BY <1>3, <1>6 DEF IInv, ConnectionSound, OfThisConnection
  <2> QED BY <1>1, <1>6, <2>1, <2>2, <2>3, LinkKept DEF Free
<1> QED BY <1>4, <1>5, <1>6 DEF Refresh

\* A thread that may use the link loses it.
LEMMA LossKeeps ==
    ASSUME IInv, NEW t \in Threads, owner \in {None, t}, owner' \in {None, t}, Disconnect, UNCHANGED host,
           th' \in [Threads -> Thread], \A u \in Threads \ {t} : th'[u] = th[u],
           th'[t].pc \in {"idle", "sweep"}, owner' = t => th'[t].pc = "sweep"
    PROVE  IInv'
<1>1. /\ link' \in Link /\ link'.state = "BROKEN" /\ ~link'.open
      /\ link'.slow = link.slow /\ link'.replaced = link.replaced
      /\ chain' \in Chain /\ ~chain'.valid
      /\ dev' \in [Devices -> Device]
      /\ \A d \in Devices : dev'[d].state # "attached"
  BY DisconnectDetaches DEF IInv, ConnectionSound
<1>2. TypeOK'
  BY <1>1 DEF IInv, ConnectionSound, TypeOK
<1>3. OfThisConnection'
  BY <1>1 DEF OfThisConnection
<1>4. link'.replaced => link'.slow
  BY <1>1 DEF IInv, ConnectionSound, HeldOff
<1> QED BY <1>1, <1>2, <1>3, <1>4, OwnerMoves

\* get_hardware_from_server.
LEMMA ListKeeps ==
    ASSUME IInv, NEW t \in Threads, List(t)
    PROVE  IInv'
<1>1. owner = t /\ ~Polls(t)
  BY DEF IInv, ConnectionSound, LinkUsedByOwner, List, At, Polls
<1>2. TypeOK
  BY DEF IInv, ConnectionSound
<1>3. /\ th' \in [Threads -> Thread] /\ th'[t].pc = "sweep"
      /\ \A u \in Threads \ {t} : th'[u] = th[u]
      /\ UNCHANGED <<host, owner>>
  BY <1>2 DEF List, Goto, TypeOK, Thread
<1>4. CASE UNCHANGED <<link, chain, dev>>
  BY <1>1, <1>3, <1>4, OwnerWalks DEF List
<1>5. CASE link.state = "CONNECTED" /\ chain' = Reported /\ UNCHANGED <<link, dev>>
  <2>1. chain' \in Chain /\ chain'.number = link.number
    BY <1>2, <1>5 DEF Reported, Chain, Link, TypeOK
  <2>2. TypeOK'
    BY <1>2, <1>3, <1>5, <2>1 DEF TypeOK
  <2>3. OfThisConnection'
    BY <1>5, <2>1 DEF IInv, ConnectionSound, OfThisConnection
  <2> QED BY <1>1, <1>3, <1>5, <2>2, <2>3, LinkKept
<1>6. CASE Disconnect
  BY <1>1, <1>3, <1>6, LossKeeps
<1> QED BY <1>4, <1>5, <1>6 DEF List

\* refresh_hardware, the deletion of marked chains.
LEMMA SweepKeeps ==
    ASSUME IInv, NEW t \in Threads, Sweep(t)
    PROVE  IInv'
<1>1. TypeOK /\ ~Polls(t)
  BY DEF IInv, ConnectionSound, Sweep, At, Polls
<1>2. /\ th' \in [Threads -> Thread] /\ th'[t].pc = "idle"
      /\ \A u \in Threads \ {t} : th'[u] = th[u]
  BY <1>1 DEF Sweep, Goto, TypeOK, Thread
<1>3. /\ chain' \in Chain /\ (chain' = chain \/ ~chain'.exists)
      /\ dev' \in [Devices -> Device]
      /\ \A d \in Devices : dev'[d].state = dev[d].state /\ dev'[d].number = dev[d].number
  <2>1. CASE chain.destroy
    <3>1. \A d \in Devices : [dev[d] EXCEPT !.dangling = @ \/ dev[d].state = "attached"] \in Device
      BY <1>1 DEF TypeOK, Device
    <3>2. dev' = [d \in Devices |-> [dev[d] EXCEPT !.dangling = @ \/ dev[d].state = "attached"]]
          /\ chain' = [exists |-> FALSE, valid |-> FALSE, destroy |-> FALSE, number |-> 0]
      BY <2>1 DEF Sweep
    <3>3. chain' \in Chain /\ ~chain'.exists
      BY <3>2, ConnectionConstants DEF Chain
    <3>4. \A d \in Devices : dev'[d].state = dev[d].state /\ dev'[d].number = dev[d].number
      BY <1>1, <3>2 DEF TypeOK, Device
    <3> QED BY <3>1, <3>2, <3>3, <3>4
  <2>2. CASE ~chain.destroy
    BY <1>1, <2>2 DEF Sweep, TypeOK
  <2> QED BY <2>1, <2>2
<1>4. owner' \in Threads \cup {None} /\ owner' # t /\ (owner # t => owner' = owner)
  BY <1>1, ConnectionConstants DEF Sweep, TypeOK
<1>5. UNCHANGED <<host, link>>
  BY DEF Sweep
<1>6. TypeOK'
  BY <1>1, <1>2, <1>3, <1>4, <1>5 DEF TypeOK
<1>7. OfThisConnection'
  BY <1>3, <1>5 DEF IInv, ConnectionSound, OfThisConnection
<1>8. StateTellsSocket'
  BY <1>1, <1>2, <1>5 DEF IInv, ConnectionSound, StateTellsSocket, Polls
<1>9. LinkUsedByOwner'
  <2> SUFFICES ASSUME NEW u \in Threads \ {t}
               PROVE  (owner' = u) = (owner = u)
    BY <1>2, <1>4 DEF IInv, ConnectionSound, LinkUsedByOwner
  <2> QED BY <1>4, ConnectionConstants DEF Sweep
<1>10. AttemptKept' /\ HeldOff'
  BY <1>2, <1>5 DEF IInv, ConnectionSound, AttemptKept, HeldOff, Unready, At
<1> QED BY <1>6, <1>7, <1>8, <1>9, <1>10 DEF IInv, ConnectionSound

\* add_hardware, its claim of the link.
LEMMA ClaimClientKeeps ==
    ASSUME IInv, NEW t \in Threads, ClaimClient(t)
    PROVE  IInv'
<1>1. owner # t /\ ~Polls(t) /\ TypeOK
  BY DEF IInv, ConnectionSound, LinkUsedByOwner, ClaimClient, At, Polls
<1>2. UNCHANGED <<host, chain, dev>>
  BY DEF ClaimClient
<1>3. CASE Goto(t, "idle") /\ UNCHANGED <<owner, link>>
  BY <1>1, <1>2, <1>3, Walk
<1>4. CASE Free /\ link.state = "CONNECTED" /\ owner' = t /\ Goto(t, "exchange") /\ UNCHANGED link
  <2>1. /\ th' \in [Threads -> Thread] /\ th'[t].pc = "exchange"
        /\ \A u \in Threads \ {t} : th'[u] = th[u]
    BY <1>1, <1>4 DEF Goto, TypeOK, Thread
  <2>2. TypeOK'
    BY <1>1, <1>2, <1>4, <2>1 DEF TypeOK
  <2>3. OfThisConnection'
    BY <1>2, <1>4 DEF IInv, ConnectionSound, OfThisConnection
  <2> QED BY <1>1, <1>4, <2>1, <2>2, <2>3, LinkKept DEF Free
<1>5. CASE /\ Free /\ link.state # "CONNECTED" /\ owner' = t /\ link' = Started
           /\ th' = [th EXCEPT ![t] = [pc |-> "connect", after |-> "exchange"]]
  <2>1. /\ th' \in [Threads -> Thread] /\ th'[t].pc = "connect"
        /\ \A u \in Threads \ {t} : th'[u] = th[u]
    BY <1>1, <1>5 DEF TypeOK, Thread
  <2>2. chain \in Chain
    BY <1>1 DEF TypeOK
  <2> QED BY <1>2, <1>5, <2>1, <2>2, StartKeeps
<1> QED BY <1>3, <1>4, <1>5 DEF ClaimClient

\* add_hardware, its message.
LEMMA ExchangeKeeps ==
    ASSUME IInv, NEW t \in Threads, Exchange(t)
    PROVE  IInv'
<1>1. owner = t /\ ~Polls(t) /\ TypeOK
  BY DEF IInv, ConnectionSound, LinkUsedByOwner, Exchange, At, Polls
<1>2. owner' = None /\ UNCHANGED host /\ None # t
  BY ConnectionConstants DEF Exchange
<1>3. CASE Goto(t, "refresh") /\ UNCHANGED <<link, chain, dev>>
  BY <1>1, <1>2, <1>3, OwnerWalks
<1>4. CASE Goto(t, "idle") /\ UNCHANGED <<link, chain, dev>>
  BY <1>1, <1>2, <1>4, OwnerWalks
<1>5. CASE Goto(t, "idle") /\ Disconnect
  <2>1. /\ th' \in [Threads -> Thread] /\ th'[t].pc = "idle"
        /\ \A u \in Threads \ {t} : th'[u] = th[u]
    BY <1>1, <1>5 DEF Goto, TypeOK, Thread
  <2> QED BY <1>1, <1>2, <1>5, <2>1, LossKeeps
<1> QED BY <1>3, <1>4, <1>5 DEF Exchange

\* Opening, losing and closing a device.
LEMMA DeviceKeeps ==
    ASSUME IInv, NEW d \in Devices, OpenDevice(d) \/ LoseDevice(d) \/ CloseDevice(d)
    PROVE  IInv'
<1>1. TypeOK
  BY DEF IInv, ConnectionSound
<1>2. UNCHANGED <<host, owner, th>>
  BY DEF OpenDevice, LoseDevice, CloseDevice
<1>3. CASE Disconnect /\ Free
  <2>1. /\ link' \in Link /\ link'.state = "BROKEN" /\ ~link'.open
        /\ chain' \in Chain /\ ~chain'.valid
        /\ dev' \in [Devices -> Device]
        /\ \A e \in Devices : dev'[e].state # "attached"
        /\ link'.slow = link.slow /\ link'.replaced = link.replaced
    BY <1>1, <1>3, DisconnectDetaches
  <2>2. TypeOK' /\ OfThisConnection' /\ StateTellsSocket'
    BY <1>1, <1>2, <2>1 DEF TypeOK, OfThisConnection, StateTellsSocket
  <2>3. LinkUsedByOwner'
    BY <1>2 DEF IInv, ConnectionSound, LinkUsedByOwner
  <2>4. AttemptKept'
    BY <1>2, <1>3, ConnectionConstants DEF IInv, ConnectionSound, LinkUsedByOwner, AttemptKept, Free
  <2>5. HeldOff'
    BY <2>1 DEF IInv, ConnectionSound, HeldOff
  <2> QED BY <2>2, <2>3, <2>4, <2>5 DEF IInv, ConnectionSound
<1>4. ASSUME NEW r \in Device, dev' = [dev EXCEPT ![d] = r], UNCHANGED <<link, chain>>,
             r.state = "attached" => link.state = "CONNECTED" /\ r.number = link.number
      PROVE  IInv'
  <2>1. TypeOK'
    BY <1>1, <1>2, <1>4 DEF TypeOK
  <2>2. OfThisConnection'
    BY <1>1, <1>4 DEF IInv, ConnectionSound, OfThisConnection, TypeOK
  <2>3. StateTellsSocket' /\ LinkUsedByOwner' /\ AttemptKept' /\ HeldOff'
    BY <1>2, <1>4 DEF IInv, ConnectionSound, StateTellsSocket, LinkUsedByOwner, AttemptKept, HeldOff, Unready, At, Polls
  <2> QED BY <2>1, <2>2, <2>3 DEF IInv, ConnectionSound
<1>5. CASE CloseDevice(d)
  <2> DEFINE r == [state |-> "closed", number |-> 0, dangling |-> FALSE]
  <2>1. r \in Device /\ r.state # "attached"
    BY ConnectionConstants DEF Device
  <2>2. dev' = [dev EXCEPT ![d] = r] /\ UNCHANGED <<link, chain>>
    BY <1>5 DEF CloseDevice
  <2> HIDE DEF r
  <2> QED BY <1>4, <2>1, <2>2
<1>6. CASE OpenDevice(d) /\ ~Disconnect
  <2> DEFINE r == [state |-> "attached", number |-> link.number, dangling |-> FALSE]
  <2>1. r \in Device /\ r.number = link.number
    BY <1>1 DEF Device, TypeOK, Link
  <2>2. dev' = [dev EXCEPT ![d] = r] /\ link.state = "CONNECTED" /\ UNCHANGED <<link, chain>>
    BY <1>6 DEF OpenDevice
  <2> HIDE DEF r
  <2> QED BY <1>4, <2>1, <2>2
<1> QED BY <1>3, <1>5, <1>6 DEF OpenDevice, LoseDevice

\* The two clocks.
LEMMA TimeKeeps ==
    ASSUME IInv, TimeoutPasses \/ HoldOffEnds
    PROVE  IInv'
<1>1. UNCHANGED <<host, owner, chain, dev, th>>
  BY DEF TimeoutPasses, HoldOffEnds
<1>2. /\ link' \in Link /\ link'.state = link.state /\ link'.connect = link.connect
      /\ link'.open = link.open /\ link'.number = link.number /\ link'.replaced = link.replaced
  BY DEF IInv, ConnectionSound, TypeOK, TimeoutPasses, HoldOffEnds, Link
<1>3. TypeOK'
  BY <1>1, <1>2 DEF IInv, ConnectionSound, TypeOK
<1>4. StateTellsSocket' /\ OfThisConnection' /\ LinkUsedByOwner' /\ AttemptKept'
  BY <1>1, <1>2 DEF IInv, ConnectionSound, StateTellsSocket, OfThisConnection, LinkUsedByOwner,
                    AttemptKept, Polls
<1>5. CASE TimeoutPasses
  <2>1. link'.heldOff = link.heldOff /\ link'.slow = link.slow
    BY <1>5 DEF IInv, ConnectionSound, TypeOK, TimeoutPasses, Link
  <2> QED BY <1>1, <1>2, <1>3, <1>4, <2>1 DEF IInv, ConnectionSound, HeldOff, Unready, At
<1>6. CASE HoldOffEnds
  <2>1. link'.slow = (link.slow \/ link.state = "CONNECTING" \/ \E t \in Threads : Unready(t))
    BY <1>6 DEF IInv, ConnectionSound, TypeOK, HoldOffEnds, Link
  <2>2. HeldOff'
    BY <1>1, <1>2, <2>1 DEF IInv, ConnectionSound, HeldOff, Unready, At
  <2> QED BY <1>3, <1>4, <2>2 DEF IInv, ConnectionSound
<1> QED BY <1>5, <1>6

\* No step of any thread, device or clock breaks the invariant.
LEMMA StepKeepsSound ==
    ASSUME IInv, [Next]_vars
    PROVE  IInv'
<1>1. ASSUME NEW t \in Threads, GetHardware(t) \/ AddHardware(t) \/ Step(t)
      PROVE  IInv'
  BY <1>1, BeginKeeps, ConnectAllKeeps, PollKeeps, SleepKeeps, ConnectKeeps, RefreshKeeps, ListKeeps,
     SweepKeeps, ClaimClientKeeps, ExchangeKeeps DEF Step
<1>2. ASSUME NEW d \in Devices, OpenDevice(d) \/ LoseDevice(d) \/ CloseDevice(d)
      PROVE  IInv'
  BY <1>2, DeviceKeeps
<1>3. CASE TimeoutPasses \/ HoldOffEnds
  BY <1>3, TimeKeeps
<1>4. CASE UNCHANGED vars
  BY <1>4 DEF vars, IInv, ConnectionSound, TypeOK, StateTellsSocket, OfThisConnection, LinkUsedByOwner,
              AttemptKept, HeldOff, Unready, At, Polls
<1> QED BY <1>1, <1>2, <1>3, <1>4 DEF Next

\* m_state tells what the socket is, valid chains and usable devices are of the connection
\* that is up unless start_connect has replaced one, which it does only after an attempt
\* that outlasted the hold-off; only the thread that has the link connects, lists and
\* exchanges, and nobody takes an attempt or a connection from it.
THEOREM Sound == Spec => []ConnectionSound
<1>1. IInv /\ [Next]_vars => IInv'
  BY StepKeepsSound
<1>2. IInv => ConnectionSound
  BY DEF IInv
<1> QED BY <1>1, <1>2, ConnectionInit, PTL DEF Spec

\* A connection that is up is replaced by an attempt in connect_all only, by a thread that
\* looked at m_state before there was a connection, and only if the hold-off has ended
\* before the attempt did, or before such a thread had claimed the link.
THEOREM OnlySlowReplaced == Spec => ReplacedWhenSlow
<1> DEFINE Kept == link.state = "CONNECTED" /\ link'.state = "CONNECTING" =>
                       link.slow /\ \E t \in Threads : Unready(t) /\ owner' = t
<1>1. IInv /\ [Next]_vars => Kept
  <2> SUFFICES ASSUME IInv, [Next]_vars, link.state = "CONNECTED", link'.state = "CONNECTING"
               PROVE  link.slow /\ \E t \in Threads : Unready(t) /\ owner' = t
    OBVIOUS
  <2> TypeOK
    BY DEF IInv, ConnectionSound
  <2>1. ASSUME Disconnect
        PROVE  FALSE
    BY <2>1, DisconnectDetaches
  <2>2. ASSUME NEW t \in Threads, ConnectAll(t)
        PROVE  link.slow /\ Unready(t) /\ owner' = t
    BY <2>2 DEF ConnectAll, MayStart, IInv, ConnectionSound, HeldOff, Unready
  <2>3. ASSUME NEW t \in Threads, Poll(t) \/ Connect(t)
        PROVE  FALSE
    BY <2>3 DEF Poll, Connect, At, IInv, ConnectionSound, AttemptKept
  <2>4. ASSUME NEW t \in Threads, List(t) \/ Exchange(t)
        PROVE  FALSE
    BY <2>1, <2>4 DEF List, Exchange
  <2>5. ASSUME NEW t \in Threads, \/ GetHardware(t) \/ AddHardware(t) \/ Sleep(t) \/ SleepInConnect(t)
                                  \/ Refresh(t) \/ Sweep(t) \/ ClaimClient(t)
        PROVE  FALSE
    BY <2>5 DEF GetHardware, AddHardware, Sleep, SleepInConnect, Refresh, Sweep, ClaimClient
  <2>6. ASSUME NEW d \in Devices, OpenDevice(d) \/ LoseDevice(d) \/ CloseDevice(d)
        PROVE  FALSE
    BY <2>1, <2>6 DEF OpenDevice, LoseDevice, CloseDevice
  <2>7. CASE TimeoutPasses \/ HoldOffEnds
    BY <2>7 DEF TimeoutPasses, HoldOffEnds, TypeOK, Link
  <2>8. CASE UNCHANGED vars
    BY <2>8 DEF vars
  <2> QED BY <2>2, <2>3, <2>4, <2>5, <2>6, <2>7, <2>8 DEF Next, Step
<1>2. IInv /\ [Next]_vars => IInv'
  BY StepKeepsSound
<1>3. Spec => [][Kept]_vars
  BY <1>1, <1>2, ConnectionInit, PTL DEF Spec
<1> QED BY <1>3 DEF ReplacedWhenSlow

\* What ServerSession is told of, until a connection has been replaced.
up == link.state = "CONNECTED" /\ ~link.replaced
attached == {d \in Devices : dev[d].state = "attached" /\ ~link.replaced}

\* A loss that is noticed detaches every device; without a connection none is attached.
LEMMA DisconnectMaps ==
    ASSUME IInv, Disconnect
    PROVE  Session!Lose \/ UNCHANGED <<up, attached>>
<1>1. ~up' /\ attached' = {}
  BY DisconnectDetaches DEF IInv, ConnectionSound, up, attached
<1>2. ~up => attached = {}
  BY DEF IInv, ConnectionSound, OfThisConnection, up, attached
<1> QED BY <1>1, <1>2 DEF Session!Lose, up, attached

\* Steps that leave the states of the devices alone make a connection, keep it, or replace it.
LEMMA ThreadMaps ==
    ASSUME IInv, NEW t \in Threads, GetHardware(t) \/ AddHardware(t) \/ Step(t), ~Disconnect
    PROVE  Session!Connect \/ Session!Lose \/ UNCHANGED <<up, attached>>
<1>1. TypeOK
  BY DEF IInv, ConnectionSound
<1>2. CASE Sweep(t)
  <2>1. \A d \in Devices : dev'[d].state = dev[d].state
    BY <1>1, <1>2 DEF Sweep, TypeOK, Device
  <2> QED BY <1>2, <2>1 DEF Sweep, up, attached
<1>3. CASE GetHardware(t) \/ AddHardware(t) \/ Sleep(t) \/ SleepInConnect(t) \/ List(t) \/ Exchange(t)
  BY <1>3 DEF GetHardware, AddHardware, Sleep, SleepInConnect, List, Exchange, up, attached
<1>4. CASE Poll(t) \/ Connect(t)
  <2>1. link.state = "CONNECTING" /\ UNCHANGED dev
    BY <1>4 DEF Poll, Connect, At, IInv, ConnectionSound, AttemptKept
  <2>2. \E r \in ContinueConnect : link' = r.link /\ r.link.replaced = link.replaced
    BY <1>4, PollsAttempt DEF Poll, Connect, At, Polls, Round
  <2> QED BY <2>1, <2>2 DEF Session!Connect, up, attached
<1>5. CASE ConnectAll(t) \/ Refresh(t) \/ ClaimClient(t)
  <2>1. UNCHANGED dev
    BY <1>5 DEF ConnectAll, Refresh, ClaimClient
  <2>2. link' = link \/ link' = Started
    BY <1>5 DEF ConnectAll, Refresh, ClaimClient
  <2>3. Started.state = "CONNECTING" /\ Started.replaced = (link.replaced \/ link.state = "CONNECTED")
    BY <1>1, StartOfAttempt DEF TypeOK
  <2>4. CASE up /\ link' = Started
    BY <2>3, <2>4 DEF Session!Lose, up, attached
  <2>5. CASE ~up \/ link' = link
    BY <2>1, <2>2, <2>3, <2>5 DEF up, attached, IInv, ConnectionSound, OfThisConnection
  <2> QED BY <2>2, <2>4, <2>5
<1> QED BY <1>2, <1>3, <1>4, <1>5 DEF Step

\* Opening, losing and closing a device, as steps of ServerSession.
LEMMA DeviceMaps ==
    ASSUME IInv, NEW d \in Devices, OpenDevice(d) \/ LoseDevice(d) \/ CloseDevice(d), ~Disconnect
    PROVE  Session!Open(d) \/ Session!Close(d) \/ UNCHANGED <<up, attached>>
<1>1. TypeOK
  BY DEF IInv, ConnectionSound
<1>2. CASE link.replaced
  BY <1>2 DEF OpenDevice, LoseDevice, CloseDevice, up, attached
<1>3. CASE CloseDevice(d) /\ ~link.replaced
  <2>1. attached' = attached \ {d} /\ link' = link
    BY <1>1, <1>3 DEF CloseDevice, TypeOK, attached
  <2> QED BY <2>1 DEF Session!Close, up, attached
<1>4. CASE OpenDevice(d) /\ ~link.replaced
  <2>1. attached' = attached \cup {d} /\ link' = link /\ link.state = "CONNECTED"
    BY <1>1, <1>4 DEF OpenDevice, TypeOK, attached
  <2> QED BY <1>4, <2>1 DEF Session!Open, up, attached
<1> QED BY <1>2, <1>3, <1>4 DEF LoseDevice

\* The connection implements ServerSession: devices are opened on a connection that is
\* up, stay with that one, and are detached together when it goes down; until start_connect
\* has replaced a connection, which ReplacedWhenSlow is about.
THEOREM ConnectionImplements == Spec => ImplementsSession
<1>1. Init => Session!Init
  BY DEF Init, Session!Init
<1>2. IInv /\ [Next]_vars => [Session!Next]_<<up, attached>>
  <2> SUFFICES ASSUME IInv, [Next]_vars
               PROVE  Session!Next \/ UNCHANGED <<up, attached>>
    OBVIOUS
  <2>1. CASE Disconnect
    BY <2>1, DisconnectMaps DEF Session!Next
  <2>2. ASSUME NEW t \in Threads, GetHardware(t) \/ AddHardware(t) \/ Step(t), ~Disconnect
        PROVE  Session!Next \/ UNCHANGED <<up, attached>>
    BY <2>2, ThreadMaps DEF Session!Next
  <2>3. ASSUME NEW d \in Devices, OpenDevice(d) \/ LoseDevice(d) \/ CloseDevice(d), ~Disconnect
        PROVE  Session!Next \/ UNCHANGED <<up, attached>>
    BY <2>3, DeviceMaps DEF Session!Next
  <2>4. CASE TimeoutPasses \/ HoldOffEnds \/ UNCHANGED vars
    <3>1. link'.state = link.state /\ link'.replaced = link.replaced /\ dev' = dev
      BY <2>4 DEF TimeoutPasses, HoldOffEnds, vars, IInv, ConnectionSound, TypeOK, Link
    <3> QED BY <3>1 DEF up, attached
  <2> QED BY <2>1, <2>2, <2>3, <2>4 DEF Next
<1>3. IInv /\ [Next]_vars => IInv'
  BY StepKeepsSound
<1>4. <<up, attached>> = Session!vars
  BY DEF Session!vars, up, attached
<1>5. IInv /\ [Next]_vars => [Session!Next]_(Session!vars)
  BY <1>2, <1>4 DEF Session!vars, up, attached
<1> QED BY <1>1, <1>3, <1>5, ConnectionInit, PTL DEF Spec, Session!Spec, ImplementsSession

=============================================================================
