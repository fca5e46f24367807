-------------------------- MODULE ServerConnection --------------------------
(***************************************************************************)
(* The connection of one AJI_CLIENT to its server, and what hangs on it.   *)
(*                                                                         *)
(* Threads connect in two ways: connect_all polls the attempt until its    *)
(* own timeout and leaves it to whoever comes next; internal_connect polls *)
(* it to the end.  Both do so with the link mutex, but connect_all looks   *)
(* at m_state before it claims it and refresh_hardware goes on without it. *)
(* A lost connection detaches the open devices and invalidates the chain.  *)
(* There is one chain; the entries that only name a server's state are not *)
(* modelled.  Two clocks matter: m_connect_timeout ends an attempt, and    *)
(* m_retry_connect holds the next one off.                                 *)
(***************************************************************************)
EXTENDS Naturals

CONSTANTS
    Threads,            \* threads of the program
    Devices,            \* AJI_OPEN_JS objects, opened on the chain
    None,               \* no thread
    Hosts,              \* {"local"}, {"remote"} or both
    MaxConnections,     \* bound: connections made
    ChainReported       \* TRUE: the server reports the chain whenever it is asked

ASSUME ConnectionConstants ==
    /\ None \notin Threads
    /\ Hosts \subseteq {"local", "remote"}
    /\ MaxConnections \in Nat
    /\ ChainReported \in BOOLEAN

VARIABLES
    host,       \* "local": m_hostname is NULL
    owner,      \* the thread that has the link mutex
    link,       \* see Link
    chain,      \* see Chain
    dev,        \* see Device
    th          \* see Thread

vars == <<host, owner, link, chain, dev, th>>

\* m_state, m_connect_state; heldOff: m_retry_connect is to come; late:
\* m_connect_timeout has passed; open: there is a socket; number: of the
\* connections made.  slow and replaced are history: the hold-off ended before an attempt
\* did; start_connect has closed a connection that was up, where it asserts there is none.
Link == [state : {"IDLE", "CONNECTING", "CONNECTED", "NOSERVER", "BADVERSION", "AUTHFAIL", "BROKEN"},
         connect : {"FAIL", "LOOKUP", "FIRSTTRY", "RETRY", "WAITSERVER", "SUCCESS"},
         heldOff : BOOLEAN, late : BOOLEAN, open : BOOLEAN, number : 0 .. MaxConnections,
         slow : BOOLEAN, replaced : BOOLEAN]

\* The entry of the chain in m_chains, if it exists: m_valid and m_destroy, the
\* connection it was last reported on.
Chain == [exists : BOOLEAN, valid : BOOLEAN, destroy : BOOLEAN, number : 0 .. MaxConnections]

\* detached: m_client is NULL; dangling: the object m_chain points to is deleted.
Device == [state : {"closed", "attached", "detached"}, number : 0 .. MaxConnections,
           dangling : BOOLEAN]

\* Where a thread is; after: where it goes when internal_connect returns.
Thread == [pc : {"idle", "all claim", "all poll", "all sleep", "refresh", "connect",
                 "connect sleep", "list", "sweep", "client", "exchange"},
           after : {"list", "exchange"}]

TypeOK ==
    /\ host \in Hosts
    /\ owner \in Threads \cup {None}
    /\ link \in Link
    /\ chain \in Chain
    /\ dev \in [Devices -> Device]
    /\ th \in [Threads -> Thread]

Init ==
    /\ host \in Hosts
    /\ owner = None
    /\ link = [state |-> "IDLE", connect |-> "FAIL", heldOff |-> FALSE, late |-> FALSE,
               open |-> FALSE, number |-> 0, slow |-> FALSE, replaced |-> FALSE]
    /\ chain = [exists |-> FALSE, valid |-> FALSE, destroy |-> FALSE, number |-> 0]
    /\ dev = [d \in Devices |-> [state |-> "closed", number |-> 0, dangling |-> FALSE]]
    /\ th = [t \in Threads |-> [pc |-> "idle", after |-> "list"]]

At(t, pc) == th[t].pc = pc
Goto(t, pc) == th' = [th EXCEPT ![t].pc = pc]
AlwaysFree == TRUE
Free == owner = None

-----------------------------------------------------------------------------
(* The attempt.                                                            *)

\* start_connect begins one, or joins the one that is going on.
MayAlwaysStart == TRUE
MayStart == link.state = "CONNECTING" \/ link.state = "IDLE" \/ ~link.heldOff

Started ==
    IF link.state = "CONNECTING" THEN link
    ELSE [link EXCEPT !.state = "CONNECTING", !.connect = "LOOKUP", !.heldOff = TRUE, !.open = FALSE,
                      !.replaced = @ \/ link.state = "CONNECTED"]

\* One round of the loop in continue_connect in the connect state of link: what
\* becomes of it, and whether the call goes on, returns 0 (over) or a delay.
Goes(l) == [link |-> l, call |-> "on"]
Over(l) == [link |-> l, call |-> "over"]
Delay(l) == [link |-> l, call |-> "delay"]
FailsByState(l) == [l EXCEPT !.connect = "NOSERVER"]
Fails(l) == [l EXCEPT !.connect = "FAIL"]

\* A connect that is going on, or a server that is silent, fails by the timeout.
WaitForever(l) == Delay(l)
Wait(l) == IF l.late THEN Goes(Fails(l)) ELSE Delay(l)

NoServerOpen == Over([link EXCEPT !.state = "NOSERVER", !.heldOff = TRUE])
NoServer == Over([link EXCEPT !.state = "NOSERVER", !.heldOff = TRUE, !.open = FALSE])

Lookup == {Goes(Fails(link)), Goes([link EXCEPT !.connect = "FIRSTTRY", !.late = FALSE])}

\* A connect that failed.  A remote server is given up; a local one is started
\* once, and tried again without a look at the time.
Refusal ==
    LET l == [link EXCEPT !.open = FALSE] IN
    IF link.connect = "RETRY" THEN {Delay(l)}
    ELSE {Goes(Fails(l))}
         \cup IF host = "local" THEN {Goes([l EXCEPT !.connect = "RETRY", !.late = FALSE])} ELSE {}

Try == {Wait([link EXCEPT !.open = TRUE]),
        Goes([link EXCEPT !.open = TRUE, !.connect = "WAITSERVER", !.late = FALSE])}
       \cup Refusal

\* prepare_connection: versions and authentication.
Prepared ==
    LET failed == [link EXCEPT !.connect = "FAIL", !.open = FALSE, !.state = "BROKEN"] IN
    {Over([failed EXCEPT !.state = s]) : s \in {"BADVERSION", "AUTHFAIL", "BROKEN"}}
    \cup {Over([failed EXCEPT !.heldOff = TRUE])}
    \cup IF link.number = MaxConnections THEN {}
         ELSE {Over([link EXCEPT !.connect = "SUCCESS", !.state = "CONNECTED", !.number = @ + 1])}

ContinueConnect ==
    CASE link.connect = "FAIL" -> {NoServer}
      [] link.connect = "LOOKUP" -> Lookup
      [] link.connect \in {"FIRSTTRY", "RETRY"} -> Try
      [] link.connect = "WAITSERVER" -> {Wait(link)} \cup Prepared

\* AJI_CLIENT::disconnect.
KeepDevices(d) == dev[d]
Detached(d) == IF dev[d].state = "attached" THEN [dev[d] EXCEPT !.state = "detached"] ELSE dev[d]

Disconnect ==
    /\ link' = [link EXCEPT !.state = "BROKEN", !.connect = "FAIL", !.heldOff = TRUE, !.open = FALSE]
    /\ chain' = [chain EXCEPT !.valid = FALSE]
    /\ dev' = [d \in Devices |-> Detached(d)]

-----------------------------------------------------------------------------
(* get_hardware: connect_all, then refresh_hardware.                       *)

\* connect_all looks at m_state first.
GetHardware(t) ==
    /\ At(t, "idle")
    /\ Goto(t, IF link.state = "CONNECTED" THEN "refresh" ELSE "all claim")
    /\ UNCHANGED <<host, owner, link, chain, dev>>

\* It waits 100 ms for the link, and goes on without it.
ConnectAll(t) ==
    /\ At(t, "all claim")
    /\ \/ ~Free /\ Goto(t, "refresh") /\ UNCHANGED <<owner, link>>
       \/ Free /\ ~MayStart /\ Goto(t, "refresh") /\ UNCHANGED <<owner, link>>
       \/ Free /\ MayStart /\ owner' = t /\ link' = Started /\ Goto(t, "all poll")
    /\ UNCHANGED <<host, chain, dev>>

Poll(t) ==
    /\ At(t, "all poll")
    /\ \E r \in ContinueConnect :
         /\ link' = r.link
         /\ CASE r.call = "on" -> UNCHANGED <<owner, th>>
              [] r.call = "delay" -> Goto(t, "all sleep") /\ UNCHANGED owner
              [] r.call = "over" -> Goto(t, "refresh") /\ owner' = None
    /\ UNCHANGED <<host, chain, dev>>

\* Its own timeout, which leaves the attempt as it is.
Sleep(t) ==
    /\ At(t, "all sleep")
    /\ \/ Goto(t, "all poll") /\ UNCHANGED owner
       \/ Goto(t, "refresh") /\ owner' = None
    /\ UNCHANGED <<host, link, chain, dev>>

\* internal_connect.
Connect(t) ==
    /\ At(t, "connect")
    /\ \E r \in ContinueConnect :
         /\ link' = r.link
         /\ CASE r.call = "on" -> UNCHANGED <<owner, th>>
              [] r.call = "delay" -> Goto(t, "connect sleep") /\ UNCHANGED owner
              [] r.call = "over" ->
                   IF th[t].after = "list" \/ r.link.state = "CONNECTED"
                   THEN Goto(t, th[t].after) /\ UNCHANGED owner
                   ELSE Goto(t, "idle") /\ owner' = None
    /\ UNCHANGED <<host, chain, dev>>

SleepInConnect(t) ==
    /\ At(t, "connect sleep")
    /\ Goto(t, "connect")
    /\ UNCHANGED <<host, owner, link, chain, dev>>

\* refresh_hardware: the chain is marked, unless the link is not to be had.
Refresh(t) ==
    /\ At(t, "refresh")
    /\ chain' = [chain EXCEPT !.destroy = chain.exists /\ Free]
    /\ IF ~Free THEN Goto(t, "sweep") /\ UNCHANGED <<owner, link>>
       ELSE /\ owner' = t
            /\ IF link.state \notin {"CONNECTED", "CONNECTING"} /\ MayStart
               THEN link' = Started /\ th' = [th EXCEPT ![t] = [pc |-> "connect", after |-> "list"]]
               ELSE Goto(t, "list") /\ UNCHANGED link
    /\ UNCHANGED <<host, dev>>

\* get_hardware_from_server: what is reported is valid and keeps its object.
Reported == [exists |-> TRUE, valid |-> TRUE, destroy |-> FALSE, number |-> link.number]

List(t) ==
    /\ At(t, "list")
    /\ Goto(t, "sweep")
    /\ \/ link.state # "CONNECTED" /\ UNCHANGED <<link, chain, dev>>
       \/ link.state = "CONNECTED" /\ chain' = Reported /\ UNCHANGED <<link, dev>>
       \/ link.state = "CONNECTED" /\ ~ChainReported /\ UNCHANGED <<link, chain, dev>>
       \/ link.state = "CONNECTED" /\ Disconnect
    /\ UNCHANGED <<host, owner>>

\* What is marked is deleted; open devices keep their pointer to it.
Sweep(t) ==
    /\ At(t, "sweep")
    /\ Goto(t, "idle")
    /\ owner' = IF owner = t THEN None ELSE owner
    /\ IF chain.destroy
       THEN /\ chain' = [exists |-> FALSE, valid |-> FALSE, destroy |-> FALSE, number |-> 0]
            /\ dev' = [d \in Devices |-> [dev[d] EXCEPT !.dangling = @ \/ dev[d].state = "attached"]]
       ELSE UNCHANGED <<chain, dev>>
    /\ UNCHANGED <<host, link>>

-----------------------------------------------------------------------------
(* Other calls.                                                            *)

\* add_hardware: a call that connects, exchanges one message and refreshes.
AddHardware(t) ==
    /\ At(t, "idle")
    /\ Goto(t, "client")
    /\ UNCHANGED <<host, owner, link, chain, dev>>

ClaimClient(t) ==
    /\ At(t, "client")
    /\ \/ ~Free /\ Goto(t, "idle") /\ UNCHANGED <<owner, link>>
       \/ /\ Free /\ link.state = "CONNECTED"
          /\ owner' = t /\ Goto(t, "exchange") /\ UNCHANGED link
       \/ /\ Free /\ link.state # "CONNECTED" /\ MayStart
          /\ owner' = t /\ link' = Started
          /\ th' = [th EXCEPT ![t] = [pc |-> "connect", after |-> "exchange"]]
       \/ Free /\ link.state # "CONNECTED" /\ ~MayStart /\ Goto(t, "idle") /\ UNCHANGED <<owner, link>>
    /\ UNCHANGED <<host, chain, dev>>

Exchange(t) ==
    /\ At(t, "exchange")
    /\ owner' = None
    /\ \/ Goto(t, "refresh") /\ UNCHANGED <<link, chain, dev>>
       \/ Goto(t, "idle") /\ UNCHANGED <<link, chain, dev>>
       \/ Goto(t, "idle") /\ Disconnect
    /\ UNCHANGED host

\* A device is opened with the chain, and used, by a thread that has the link.
OpenDevice(d) ==
    /\ Free
    /\ dev[d].state = "closed"
    /\ chain.exists /\ chain.valid
    /\ \/ /\ link.state = "CONNECTED"
          /\ dev' = [dev EXCEPT ![d] = [state |-> "attached", number |-> link.number, dangling |-> FALSE]]
          /\ UNCHANGED <<link, chain>>
       \/ Disconnect
    /\ UNCHANGED <<host, owner, th>>

LoseDevice(d) ==
    /\ Free
    /\ dev[d].state = "attached"
    /\ Disconnect
    /\ UNCHANGED <<host, owner, th>>

\* is_valid deletes the object of a detached device.
CloseDevice(d) ==
    /\ dev[d].state = "attached" => Free
    /\ dev[d].state # "closed"
    /\ dev' = [dev EXCEPT ![d] = [state |-> "closed", number |-> 0, dangling |-> FALSE]]
    /\ UNCHANGED <<host, owner, link, chain, th>>

-----------------------------------------------------------------------------
(* Time.                                                                   *)

TimeoutPasses ==
    /\ link.state = "CONNECTING"
    /\ ~link.late
    /\ link' = [link EXCEPT !.late = TRUE]
    /\ UNCHANGED <<host, owner, chain, dev, th>>

\* The hold-off is 30 s from the start of an attempt; lookup and connect may take 30 s and
\* more, the server's first message 10 s, and an attempt that was left is resumed later.
Unready(t) == At(t, "all claim")    \* it has looked at m_state and not yet claimed the link
HoldOffEnds ==
    /\ link.heldOff
    /\ link' = [link EXCEPT !.heldOff = FALSE,
                            !.slow = @ \/ link.state = "CONNECTING" \/ \E t \in Threads : Unready(t)]
    /\ UNCHANGED <<host, owner, chain, dev, th>>

Step(t) ==
    \/ ConnectAll(t) \/ Poll(t) \/ Sleep(t) \/ Connect(t) \/ SleepInConnect(t) \/ Refresh(t) \/ List(t)
    \/ Sweep(t) \/ ClaimClient(t) \/ Exchange(t)

Next ==
    \/ \E t \in Threads : GetHardware(t) \/ AddHardware(t) \/ Step(t)
    \/ \E d \in Devices : OpenDevice(d) \/ LoseDevice(d) \/ CloseDevice(d)
    \/ TimeoutPasses
    \/ HoldOffEnds

Spec == Init /\ [][Next]_vars

\* A thread in internal_connect is scheduled and time passes; no more is asked for.
FairSpec ==
    Spec /\ WF_vars(TimeoutPasses) /\ \A t \in Threads : WF_vars(Connect(t) \/ SleepInConnect(t))

-----------------------------------------------------------------------------
(* Properties.                                                             *)

\* m_state tells what the socket is: no socket is left open by a failure, a connected
\* link has been prepared, and an attempt that no thread carries on waits for the
\* network or the server, so that whoever comes next can go on with it.
Polls(t) == th[t].pc \in {"all poll", "connect"}
StateTellsSocket ==
    /\ link.state = "CONNECTED" => link.open /\ link.connect = "SUCCESS"
    /\ link.state = "CONNECTING" /\ link.connect = "WAITSERVER" => link.open
    /\ link.state = "CONNECTING" =>
         \/ link.connect \in {"FIRSTTRY", "RETRY", "WAITSERVER"}
         \/ link.connect \in {"LOOKUP", "FAIL"} /\ \E t \in Threads : Polls(t)
    /\ link.state \notin {"CONNECTED", "CONNECTING"} => ~link.open

\* A device that may be used, and a chain that is valid, are of the connection
\* that is up: the server knows their ids; until a connection has been replaced.
OfThisConnection == ~link.replaced =>
    /\ chain.exists /\ chain.valid => link.state = "CONNECTED" /\ chain.number = link.number
    /\ \A d \in Devices : dev[d].state = "attached" =>
         link.state = "CONNECTED" /\ dev[d].number = link.number

\* start_connect asserts m_state != CONNECTED, and closes the connection all the same.
\* That happens in connect_all only, to a thread that saw m_state before there was a
\* connection, and only if the hold-off ended before the attempt that made it.
ReplacedWhenSlow == [][link.state = "CONNECTED" /\ link'.state = "CONNECTING" =>
                        link.slow /\ \E t \in Threads : Unready(t) /\ owner' = t]_vars

\* Disproved: the assertion itself.
NeverDropsConnection ==
    [][~(link.state = "CONNECTED" /\ link'.state = "CONNECTING")]_vars

\* Disproved, with ChainReported: "Remove any chains which the server didn't tell us about": with a server that
\* tells of the chain, a device that may be used does not lose its chain.
NoDangling == \A d \in Devices : dev[d].state = "attached" => ~dev[d].dangling

\* A thread connects, lists and exchanges only with the link, and no call returns
\* with it.
LinkUsedByOwner == \A t \in Threads :
    LET uses == {"all poll", "all sleep", "connect", "connect sleep", "list", "exchange"} IN
    /\ th[t].pc \in uses => owner = t
    /\ owner = t => th[t].pc \in uses \cup {"sweep"}

\* The attempt of a thread is not ended by another, and a connection stays up until the
\* thread that claimed it has had its answer.
AttemptKept == \A t \in Threads :
    /\ th[t].pc \in {"all poll", "all sleep", "connect", "connect sleep"} => link.state = "CONNECTING"
    /\ th[t].pc = "exchange" => link.state = "CONNECTED"

\* As long as no attempt has outlasted the hold-off: nobody who looked at m_state before the
\* connection was made may start another attempt.
HeldOff ==
    /\ link.replaced => link.slow
    /\ ~link.slow =>
        /\ link.state = "CONNECTING" => link.heldOff
        /\ link.state = "CONNECTED" /\ (\E t \in Threads : Unready(t)) => link.heldOff

\* The state, the devices and the owner of the link tell what the connection is.
ConnectionSound ==
    TypeOK /\ StateTellsSocket /\ OfThisConnection /\ LinkUsedByOwner /\ AttemptKept /\ HeldOff

\* internal_connect returns, or has come to poll a local server that it has started and that
\* refuses each connection: that state has no way out but a server.
Connecting(t) == th[t].pc \in {"connect", "connect sleep"}
ConnectEnds == \A t \in Threads :
    Connecting(t) ~> ~Connecting(t) \/ (host = "local" /\ link.connect = "RETRY")

\* Disproved: "Keep trying until the timeout expires": it returns.
RetryEnds == \A t \in Threads : Connecting(t) ~> ~Connecting(t)

\* The session is followed until a connection has been replaced: start_connect then leaves the
\* devices of the old one attached, with ids that the next one's server does not know.
Session == INSTANCE ServerSession
    WITH up <- link.state = "CONNECTED" /\ ~link.replaced,
         attached <- {d \in Devices : dev[d].state = "attached" /\ ~link.replaced}

\* Devices are attached to a connection that is up and detached with it.
ImplementsSession == Session!Spec

=============================================================================
