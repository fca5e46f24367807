----------------------------- MODULE DeviceLock -----------------------------
(***************************************************************************)
(* Exclusive use of one JTAG chain by the threads of one client process.   *)
(*                                                                         *)
(* AJI_CLIENT owns one TCP link and one mutex, m_link_mutex.  Locking a    *)
(* chain (AJI_CHAIN_JS) or a device opened on it (AJI_OPEN_JS) claims that *)
(* mutex for the calling thread and asks the server for the chain; the     *)
(* mutex is kept until the matching unlock.  A device may be locked        *)
(* speculatively: LOCK_DEVICE is packed, success is assumed, and a refusal *)
(* is discovered only when the packet is answered.  When the link is lost  *)
(* AJI_CLIENT::disconnect detaches every open device, invalidates the      *)
(* chain and gives up the claim of a locked chain.                         *)
(*                                                                         *)
(* A call that claims the link is three steps: the checks made before the  *)
(* claim, the claim (or its timeout), and the body.  A call of the thread  *)
(* that has the lock already is one step, or two where the code releases   *)
(* the link and goes on.  Calls that change nothing are not steps.         *)
(***************************************************************************)
EXTENDS FiniteSets

CONSTANTS
    Threads,        \* threads of the client process
    Opens,          \* AJI_OPEN_JS objects, all on the one chain
    Chain,          \* the AJI_CHAIN_JS object
    None,           \* no thread, no object
    Other,          \* another client of the server
    Calls,          \* the API calls the threads make
    PackStyles,     \* styles passed to aji_lock: subset of {"never", "auto"}
    OtherClients,   \* TRUE when the server has other clients
    CommandErrors,  \* TRUE when the server may refuse a command other than LOCK
    LinkLoss,       \* TRUE when the TCP link may be lost
    OldServer       \* TRUE when the server is older than version 7

Objects == Opens \cup {Chain}

AllCalls == {"lock", "lock_chain", "unlock", "unlock_chain", "unlock_lock",
             "unlock_lock_chain", "unlock_chain_lock", "command", "open",
             "close", "close_other", "client", "refresh"}

ASSUME NamesDistinct ==
    /\ Chain \notin Opens
    /\ None \notin Objects \cup Threads
    /\ Other \notin Objects \cup {None}

ASSUME ConstantsOK ==
    /\ Calls \subseteq AllCalls
    /\ PackStyles \subseteq {"never", "auto"}
    /\ {OtherClients, CommandErrors, LinkLoss, OldServer} \subseteq BOOLEAN

VARIABLES
    owner,    \* JTAG_MUTEX::m_threadid of the link mutex
    link,     \* "up"; "dead": socket closed but m_state CONNECTED; "down"
    chain,    \* m_valid and m_locked of the chain
    dev,      \* the AJI_OPEN_JS objects, see Device
    partial,  \* AJI_CLIENT::m_partial, whose commands are in m_tx
    server,   \* the object, or Other, the server has locked the chain for
    crashed,  \* undefined behaviour: a NULL, deleted or foreign object was used
    th        \* what each thread is doing, see Thread

vars == <<owner, link, chain, dev, partial, server, crashed, th>>

\* state: "closed" (no object), "open", "dead" (m_client is NULL); queued: what
\* m_fill_actions expects answers to; error: m_defer_error is set.
Device == [state : {"closed", "open", "dead"}, locked : BOOLEAN,
           pack : {"never", "auto"}, queued : SUBSET {"LOCK", "CMD"},
           error : BOOLEAN]

\* pc: where in the call op on obj; has: what the thread has locked, as far as
\* its caller was told.
Thread == [pc : {"idle", "claim", "body", "rerelease", "close2"},
           op : AllCalls \cup {"none"}, obj : Objects \cup {None},
           has : Objects \cup {None}]

TypeOK ==
    /\ owner \in Threads \cup {None}
    /\ link \in {"up", "dead", "down"}
    /\ chain \in [valid : BOOLEAN, locked : BOOLEAN]
    /\ dev \in [Opens -> Device]
    /\ partial \in Opens \cup {None}
    /\ server \in Objects \cup {None, Other}
    /\ crashed \in BOOLEAN
    /\ th \in [Threads -> Thread]

NewDevice == [state |-> "open", locked |-> FALSE, pack |-> "never",
              queued |-> {}, error |-> FALSE]
NoDevice == [NewDevice EXCEPT !.state = "closed"]

Idle(x) == [pc |-> "idle", op |-> "none", obj |-> None, has |-> x]

Init ==
    /\ owner = None
    /\ link = "up"
    /\ chain = [valid |-> TRUE, locked |-> FALSE]
    /\ dev \in [Opens -> {NewDevice, NoDevice}]
    /\ partial = None
    /\ server = None
    /\ crashed = FALSE
    /\ th = [t \in Threads |-> Idle(None)]

-----------------------------------------------------------------------------
(* The link mutex, the loss of the link, and what threads are doing.       *)

Locked(x) == IF x = Chain THEN chain.locked ELSE dev[x].locked

\* JTAG_MUTEX::try_claim succeeds.
LinkFreeIgnored == TRUE
LinkFree == owner = None

\* JTAG_MUTEX::release: whoever calls it, the mutex becomes free.
KeepLink == UNCHANGED owner
ReleaseLink == owner' = None

Return(t, x) == th' = [th EXCEPT ![t] = Idle(x)]

GoOn(t, pc, op, x) ==
    th' = [th EXCEPT ![t] = [pc |-> pc, op |-> op, obj |-> x, has |-> None]]

\* The link is lost under a request, or was broken already.
LinkFails == LinkLoss \/ link # "up"

\* A closed connection drops the locks of this client.
ServerDrops == server' = IF server \in Objects THEN None ELSE server

DisconnectKeepsLock(d) ==
    /\ link' = "down"
    /\ chain' = [chain EXCEPT !.valid = FALSE]
    /\ dev' = d
    /\ ServerDrops

\* AJI_CLIENT::disconnect and the invalidation of the devices d and the chain.
Disconnect(d) ==
    /\ link' = "down"
    /\ chain' = [valid |-> FALSE, locked |-> FALSE]
    /\ dev' = [o \in Opens |-> IF d[o].state = "open"
                               THEN [d[o] EXCEPT !.state = "dead"] ELSE d[o]]
    /\ ServerDrops

\* AJI_CHAIN_JS::invalidate gives up the claim the chain was locked with.
ChainReleases == owner' = IF chain.locked THEN None ELSE owner

\* No answer: the socket is closed and m_state stays CONNECTED.
Unanswered == link = "up" /\ link' = "dead" /\ ServerDrops

\* A NULL client, or an m_partial that is deleted or used by another thread.
Crash ==
    /\ crashed' = TRUE
    /\ UNCHANGED <<owner, link, chain, dev, partial, server, th>>

InUse(o) == \E t \in Threads : o \in {th[t].obj, th[t].has}

BeingClosed(o) == \E t \in Threads :
    th[t].obj = o /\ th[t].op \in {"close", "close_other"}

\* A device a caller may pass: it is not being closed by another thread.
Usable(o) == dev[o].state = "open" /\ ~dev[o].locked /\ ~BeingClosed(o)

-----------------------------------------------------------------------------
(* Calls that claim the link: the checks, and the claim.                   *)

\* The checks of AJI_OPEN_JS::lock, AJI_CHAIN_JS::lock, close_device (closing a
\* device in use is the caller's mistake), of the calls that exchange messages
\* and release (remove_hardware, watch_data), and of refresh_hardware.
MayEnter(op, x) ==
    \/ op = "lock"       /\ x \in Opens /\ Usable(x) /\ ~dev[x].error
    \/ op = "lock_chain" /\ x = Chain /\ chain.valid /\ ~chain.locked
    \/ op = "close"      /\ x \in Opens /\ Usable(x) /\ ~InUse(x)
    \/ op = "client"     /\ x = None /\ chain.valid
    \/ op = "refresh"    /\ x = None

Enter(t, op, x) ==
    /\ th[t] = Idle(None)
    /\ MayEnter(op, x)
    /\ GoOn(t, "claim", op, x)
    /\ UNCHANGED <<owner, link, chain, dev, partial, server, crashed>>

\* A device with an error of a packed command to report: the call reports it.
PendingError(t, o) ==
    /\ dev[o].error
    /\ \/ th[t] = Idle(None) /\ "lock" \in Calls /\ Usable(o)
       \/ th[t] = Idle(o) /\ "command" \in Calls /\ dev[o].state = "open" /\ dev[o].locked
    /\ dev' = [dev EXCEPT ![o].error = FALSE]
    /\ UNCHANGED <<owner, link, chain, partial, server, crashed, th>>

\* A call on a device whose link was lost: is_valid deletes the object.
DeadDevice(t, o) ==
    /\ th[t] = Idle(None)
    /\ dev[o].state = "dead"
    /\ ~InUse(o)
    /\ dev' = [dev EXCEPT ![o] = NoDevice]
    /\ UNCHANGED <<owner, link, chain, partial, server, crashed, th>>

ClaimOk(t) ==
    /\ th[t].pc = "claim"
    /\ LinkFree
    /\ owner' = t
    /\ th' = [th EXCEPT ![t].pc = "body"]
    /\ UNCHANGED <<link, chain, dev, partial, server, crashed>>

\* AJI_SERVER_ACTIVE; close_device deletes the object even so.
ClaimTimeout(t) ==
    /\ th[t].pc = "claim"
    /\ owner # None
    /\ Return(t, None)
    /\ dev' = IF th[t].op = "close" THEN [dev EXCEPT ![th[t].obj] = NoDevice] ELSE dev
    /\ UNCHANGED <<owner, link, chain, partial, server, crashed>>

-----------------------------------------------------------------------------
(* Calls that claim the link: the body.                                    *)

Body(t, op) ==
    /\ th[t].pc = "body"
    /\ th[t].op = op
    /\ partial \in {None, th[t].obj}
    /\ th[t].obj \in Opens => dev[th[t].obj].state = "open"

\* m_client was cleared, or the object deleted, between the check and the claim;
\* or get_txmessage calls send_deferred through an m_partial of another thread.
BodyCrash(t) ==
    /\ th[t].pc = "body"
    /\ \/ partial \notin {None, th[t].obj}
       \/ th[t].obj \in Opens /\ dev[th[t].obj].state # "open"
    /\ Crash

\* LOCK_DEVICE is packed and assumed to succeed.
LockDeferred(t) ==
    LET o == th[t].obj IN
    /\ Body(t, "lock")
    /\ o \in Opens
    /\ "auto" \in PackStyles
    /\ dev' = [dev EXCEPT ![o].locked = TRUE, ![o].pack = "auto",
                          ![o].queued = @ \cup {"LOCK"}]
    /\ partial' = o
    /\ Return(t, o)
    /\ UNCHANGED <<owner, link, chain, server, crashed>>

\* LOCK_DEVICE is sent and answered.  The server's refusal meets
\* receive_response with m_locked false: an extra UNLOCK_DEVICE is sent and its
\* result, success, replaces the refusal, even when sending it loses the link.
LockImmediate(t) ==
    LET o == th[t].obj
        d == [dev EXCEPT ![o].locked = TRUE, ![o].pack = "never"] IN
    /\ Body(t, "lock")
    /\ o \in Opens
    /\ "never" \in PackStyles
    /\ link = "up"
    /\ \/ /\ server' = IF server = None THEN o
                       ELSE IF server = o THEN None ELSE server
          /\ dev' = d
          /\ UNCHANGED <<owner, link, chain>>
       \/ server # None /\ LinkFails /\ Disconnect(d) /\ ChainReleases
       \/ server # None /\ LinkLoss /\ Unanswered /\ dev' = d /\ UNCHANGED <<owner, chain>>
    /\ partial' = None
    /\ Return(t, o)
    /\ UNCHANGED crashed

\* disconnect clears m_client, through which lock and close_device then release.
LinkLostCrash(t) ==
    /\ Body(t, "close") \/ (Body(t, "lock") /\ "never" \in PackStyles)
    /\ LinkFails
    /\ Crash

LockChainGranted(t) ==
    /\ Body(t, "lock_chain")
    /\ link = "up"
    /\ server = None
    /\ server' = Chain
    /\ chain' = [chain EXCEPT !.locked = TRUE]
    /\ Return(t, Chain)
    /\ UNCHANGED <<owner, link, dev, partial, crashed>>

\* An answered request ends in a release; so does the refusal of LOCK_CHAIN.
ExchangeAndRelease(t) ==
    /\ \/ Body(t, "client") /\ UNCHANGED dev
       \/ Body(t, "lock_chain") /\ server # None /\ UNCHANGED dev
       \/ Body(t, "close") /\ dev' = [dev EXCEPT ![th[t].obj] = NoDevice]
    /\ link = "up"
    /\ ReleaseLink
    /\ Return(t, None)
    /\ UNCHANGED <<link, chain, partial, server, crashed>>

\* AJI_CHAIN_JS::send_receive without an answer returns AJI_NET_DOWN and leaves
\* m_state CONNECTED; a failed send and a bad answer disconnect.
ExchangeLost(t) ==
    /\ Body(t, "client") \/ Body(t, "lock_chain")
    /\ LinkFails
    /\ \/ Disconnect(dev)
       \/ LinkLoss /\ Unanswered /\ UNCHANGED <<chain, dev>>
    /\ ReleaseLink
    /\ Return(t, None)
    /\ UNCHANGED <<partial, crashed>>

\* AJI_CLIENT::refresh_hardware: reconnect when the link is down, then ask for
\* the chains; hearing of it makes the chain valid again.
RefreshBody(t) ==
    /\ Body(t, "refresh")
    /\ \/ /\ link # "dead"
          /\ link' = "up"
          /\ chain' = [chain EXCEPT !.valid = TRUE]
          /\ UNCHANGED <<dev, server>>
       \/ LinkFails /\ Disconnect(dev)
    /\ ReleaseLink
    /\ Return(t, None)
    /\ UNCHANGED <<partial, crashed>>

-----------------------------------------------------------------------------
(* Calls of a thread on the device it has locked.                          *)

OnDevice(t, op, o) ==
    /\ op \in Calls
    /\ th[t] = Idle(o)
    /\ dev[o].state = "open"
    /\ dev[o].locked
    /\ partial \in {None, o}

\* The answer to the packed LOCK_DEVICE: refused, or the server's lock after it.
Refused(o) == "LOCK" \in dev[o].queued /\ server # None
Granted(o) == IF "LOCK" \in dev[o].queued THEN o ELSE server

\* The device after its packet was sent, and after its lock is given up.
UnclearedDev(o) == [dev EXCEPT ![o].error = FALSE]
SentDev(o) == [dev EXCEPT ![o].queued = {}]
DeferredUnlockDev(o) == [dev EXCEPT ![o].queued = {"UNLOCK"}, ![o].locked = FALSE]
UnlockedDev(o) == [dev EXCEPT ![o].queued = {}, ![o].locked = FALSE]

\* A command that may be packed (access_ir, access_dr, run_test_idle, ...).
Defer(t, o) ==
    /\ OnDevice(t, "command", o)
    /\ ~dev[o].error
    /\ dev[o].pack = "auto"
    /\ dev' = [dev EXCEPT ![o].queued = @ \cup {"CMD"}]
    /\ partial' = o
    /\ UNCHANGED <<owner, link, chain, server, crashed, th>>

SendsKeepingPartial(t, op, o) ==
    /\ OnDevice(t, op, o)
    /\ ~dev[o].error
    /\ UNCHANGED partial

\* send_receive: what was packed and the call's own command are sent and
\* answered.  The server executes them in order up to the first it refuses.
Sends(t, op, o) ==
    /\ OnDevice(t, op, o)
    /\ ~dev[o].error
    /\ partial' = None

AllDone(t, op, o) ==
    /\ Sends(t, op, o)
    /\ link = "up"
    /\ Granted(o) = o
    /\ ~Refused(o)
    /\ UNCHANGED <<link, crashed>>

\* A command is refused, as it always is when the server has not locked the
\* device for this client.
CommandRefused(t, op, o) ==
    /\ Sends(t, op, o)
    /\ CommandErrors \/ Granted(o) # o
    /\ link = "up"
    /\ ~Refused(o)
    /\ server' = Granted(o)
    /\ UNCHANGED <<link, chain, crashed>>

LockRefusedUnnoticed(t, op, o) ==
    /\ Sends(t, op, o)
    /\ link = "up"
    /\ Refused(o)
    /\ dev' = SentDev(o)
    /\ ReleaseLink
    /\ UNCHANGED <<link, chain, server, crashed>>

\* The packed LOCK_DEVICE is refused: send_receive tidies up.
LockRefused(t, op, o) ==
    /\ Sends(t, op, o)
    /\ link = "up"
    /\ Refused(o)
    /\ dev' = UnlockedDev(o)
    /\ ReleaseLink
    /\ UNCHANGED <<link, chain, server, crashed>>

LinkLost(t, op, o, d) ==
    /\ Sends(t, op, o)
    /\ LinkFails
    /\ Disconnect(d)
    /\ ChainReleases
    /\ UNCHANGED crashed

\* A command that is answered at once, or flush.
Exec(t, o) ==
    \/ /\ \/ AllDone(t, "command", o) /\ server' = o /\ UNCHANGED chain
          \/ CommandRefused(t, "command", o)
       /\ dev' = SentDev(o)
       /\ UNCHANGED <<owner, th>>
    \/ LockRefused(t, "command", o) /\ Return(t, None)
    \/ LinkLost(t, "command", o, SentDev(o)) /\ UNCHANGED th

\* Every error of unlock and unlock_lock ends the lock.  The link is released,
\* unless the loss of the link has cleared m_client.
FailedUnlock(t, op, o) ==
    /\ \/ LockRefused(t, op, o)
       \/ CommandRefused(t, op, o) /\ dev' = UnlockedDev(o) /\ ReleaseLink
       \/ LinkLost(t, op, o, UnlockedDev(o))
    /\ Return(t, None)

\* unlock with an error pending: reported, and UNLOCK_DEVICE is not sent.
UnlockPending(t, op, o) ==
    /\ OnDevice(t, op, o)
    /\ dev[o].error
    /\ dev' = [dev EXCEPT ![o].locked = FALSE, ![o].error = FALSE]
    /\ ReleaseLink
    /\ Return(t, None)
    /\ UNCHANGED <<link, chain, partial, server, crashed>>

UnlockNotSent(t, op, o) ==
    /\ OnDevice(t, op, o)
    /\ dev' = UnlockedDev(o)
    /\ partial' = None
    /\ ReleaseLink
    /\ UNCHANGED <<link, chain, server, crashed>>

UnlockDone(t, op, o) ==
    /\ AllDone(t, op, o)
    /\ server' = None
    /\ dev' = UnlockedDev(o)
    /\ ReleaseLink
    /\ UNCHANGED chain

Unlock(t, o) ==
    \/ UnlockDone(t, "unlock", o) /\ Return(t, None)
    \/ FailedUnlock(t, "unlock", o)
    \/ UnlockPending(t, "unlock", o)

\* The server moves the lock to another device; the claim stays.
UnlockLock(t, o, o2) ==
    /\ Usable(o2)
    /\ \/ /\ AllDone(t, "unlock_lock", o)
          /\ server' = o2
          /\ dev' = [UnlockedDev(o) EXCEPT ![o2].locked = TRUE, ![o2].pack = dev[o].pack]
          /\ Return(t, o2)
          /\ UNCHANGED <<owner, chain>>
       \/ FailedUnlock(t, "unlock_lock", o)

\* unlock_lock_chain moves the lock to the chain.  When send_receive has
\* released the link for a refused lock the error path releases it again, and
\* when the link was lost it goes through the cleared m_client.  With an older
\* server the device is unlocked and the chain locked afterwards.
UnlockLockChain(t, o) ==
    LET op == "unlock_lock_chain" IN
    /\ chain.valid
    /\ ~chain.locked
    /\ \/ /\ ~OldServer
          /\ \/ /\ AllDone(t, op, o)
                /\ server' = Chain
                /\ chain' = [chain EXCEPT !.locked = TRUE]
                /\ dev' = UnlockedDev(o)
                /\ Return(t, Chain)
                /\ UNCHANGED owner
             \/ LockRefused(t, op, o) /\ GoOn(t, "rerelease", op, o)
             \/ /\ CommandRefused(t, op, o)
                /\ dev' = UnlockedDev(o)
                /\ ReleaseLink
                /\ Return(t, None)
             \/ OnDevice(t, op, o) /\ ~dev[o].error /\ LinkFails /\ Crash
       \/ /\ OldServer
          /\ \/ UnlockDone(t, op, o) /\ GoOn(t, "claim", "lock_chain", Chain)
             \/ FailedUnlock(t, op, o)
             \/ UnlockPending(t, op, o)

\* close_device of another device by the thread that holds the link.
\* get_txmessage sends the packed commands of the locked device first and keeps
\* their error for its next call.  If they lose its lock the link is released
\* and close_device goes on; if they lose the link, m_partial keeps the device
\* that is deleted.
CloseOther(t, o, o2) ==
    /\ OnDevice(t, "close_other", o)
    /\ Usable(o2)
    /\ ~InUse(o2)
    /\ \/ /\ link = "up"
          /\ ~Refused(o)
          /\ server' = Granted(o)
          /\ \E refused \in {CommandErrors, FALSE} :
                dev' = [SentDev(o) EXCEPT ![o2] = NoDevice,
                    ![o].error = @ \/ (dev[o].queued # {} /\ (refused \/ Granted(o) # o))]
          /\ partial' = None
          /\ UNCHANGED <<owner, link, chain, th>>
       \/ /\ link = "up"
          /\ Refused(o)
          /\ dev' = [UnlockedDev(o) EXCEPT ![o].error = TRUE]
          /\ partial' = o2
          /\ ReleaseLink
          /\ th' = [th EXCEPT ![t] = [pc |-> "close2", op |-> "close_other",
                                      obj |-> o2, has |-> o]]
          /\ UNCHANGED <<link, chain, server>>
       \/ /\ LinkFails
          /\ Disconnect([SentDev(o) EXCEPT ![o2] = NoDevice])
          /\ ChainReleases
          /\ partial' \in IF dev[o].queued = {} THEN {None} ELSE {None, o2}
          /\ UNCHANGED th
    /\ UNCHANGED crashed

\* The rest of close_device, on a link that is not claimed any more.
CloseUnclaimed(t) ==
    LET d == [dev EXCEPT ![th[t].obj] = NoDevice] IN
    /\ th[t].pc = "close2"
    /\ partial' = None
    /\ \/ link = "up" /\ dev' = d /\ UNCHANGED <<owner, link, chain, server>>
       \/ LinkFails /\ Disconnect(d) /\ ChainReleases
    /\ Return(t, th[t].has)
    /\ UNCHANGED crashed

\* The second release of a link that was released once already.
ReleaseAgain(t) ==
    /\ th[t].pc = "rerelease"
    /\ ReleaseLink
    /\ Return(t, None)
    /\ UNCHANGED <<link, chain, dev, partial, server, crashed>>

\* The object is gone, or its lock was: the call says so.
SessionLost(t) ==
    LET x == th[t].has IN
    /\ th[t].pc = "idle"
    /\ x # None
    /\ IF x = Chain THEN ~(chain.valid /\ chain.locked)
                    ELSE ~(dev[x].state = "open" /\ dev[x].locked)
    /\ Return(t, None)
    /\ dev' = [o \in Opens |-> IF o = x /\ dev[o].state = "dead" THEN NoDevice ELSE dev[o]]
    /\ UNCHANGED <<owner, link, chain, partial, server, crashed>>

-----------------------------------------------------------------------------
(* Calls of a thread on the chain it has locked.                           *)

OnChain(t, op) ==
    /\ op \in Calls
    /\ th[t] = Idle(Chain)
    /\ chain.valid
    /\ chain.locked
    /\ partial = None

\* A request on the chain loses the link: disconnect, or no answer at all.
ChainLinkLost(t) ==
    /\ OnChain(t, "command")
    /\ \/ LinkFails /\ Disconnect(dev) /\ ChainReleases
       \/ LinkLoss /\ Unanswered /\ UNCHANGED <<owner, chain, dev>>
    /\ UNCHANGED <<partial, crashed, th>>

OpenDevice(t, o) ==
    /\ OnChain(t, "open")
    /\ link = "up"
    /\ dev[o].state = "closed"
    /\ dev' = [dev EXCEPT ![o] = NewDevice]
    /\ UNCHANGED <<owner, link, chain, partial, server, crashed, th>>

\* AJI_CHAIN_JS::unlock releases once for an answer or for none, and once more
\* when disconnect has released already.
UnlockChainDone(t, op) ==
    /\ OnChain(t, op)
    /\ link = "up"
    /\ server' = None
    /\ chain' = [chain EXCEPT !.locked = FALSE]
    /\ ReleaseLink
    /\ UNCHANGED <<link, partial, crashed>>

UnlockChainFailed(t, op) ==
    /\ OnChain(t, op)
    /\ \/ /\ link = "up"
          /\ \/ CommandErrors /\ UNCHANGED <<link, server>>
             \/ LinkLoss /\ Unanswered
          /\ chain' = [chain EXCEPT !.locked = FALSE]
          /\ ReleaseLink
          /\ Return(t, None)
          /\ UNCHANGED dev
       \/ /\ LinkFails
          /\ Disconnect(dev)
          /\ ChainReleases
          /\ GoOn(t, "rerelease", op, Chain)
    /\ UNCHANGED <<partial, crashed>>

UnlockChain(t) ==
    \/ UnlockChainDone(t, "unlock_chain") /\ Return(t, None) /\ UNCHANGED dev
    \/ UnlockChainFailed(t, "unlock_chain")

\* The server moves the lock from the chain to a device; a refusal is lost as
\* in LockImmediate.  With an older server the chain is unlocked and the device
\* locked afterwards.
UnlockChainLock(t, o) ==
    LET op == "unlock_chain_lock" IN
    /\ Usable(o)
    /\ \/ /\ ~OldServer
          /\ OnChain(t, op)
          /\ \/ /\ link = "up"
                /\ server' = o \/ (CommandErrors /\ UNCHANGED server)
                /\ chain' = [chain EXCEPT !.locked = FALSE]
                /\ \E style \in PackStyles :
                      dev' = [dev EXCEPT ![o].locked = TRUE, ![o].pack = style]
                /\ Return(t, o)
                /\ UNCHANGED <<owner, link>>
             \/ LinkFails /\ Disconnect(dev) /\ ReleaseLink /\ Return(t, None)
             \/ /\ CommandErrors /\ LinkLoss
                /\ Disconnect([dev EXCEPT ![o].locked = TRUE])
                /\ ReleaseLink
                /\ Return(t, o)
          /\ UNCHANGED <<partial, crashed>>
       \/ /\ OldServer
          /\ \/ /\ UnlockChainDone(t, op)
                /\ dev' = [dev EXCEPT ![o].error = FALSE]
                /\ IF dev[o].error THEN Return(t, None) ELSE GoOn(t, "claim", "lock", o)
             \/ UnlockChainFailed(t, op)

-----------------------------------------------------------------------------
(* The other clients of the server.                                        *)

OtherLocks ==
    /\ OtherClients
    /\ server = None
    /\ server' = Other
    /\ UNCHANGED <<owner, link, chain, dev, partial, crashed, th>>

OtherUnlocks ==
    /\ server = Other
    /\ server' = None
    /\ UNCHANGED <<owner, link, chain, dev, partial, crashed, th>>

-----------------------------------------------------------------------------

Begin(t) ==
    \/ \E op \in Calls, x \in Objects \cup {None} : Enter(t, op, x)
    \/ \E o \in Opens : PendingError(t, o) \/ DeadDevice(t, o)

\* What a thread does inside a call it has begun.
Proceed(t) ==
    \/ ClaimOk(t) \/ ClaimTimeout(t) \/ BodyCrash(t)
    \/ LockDeferred(t) \/ LockImmediate(t) \/ LinkLostCrash(t)
    \/ LockChainGranted(t) \/ ExchangeAndRelease(t) \/ ExchangeLost(t)
    \/ RefreshBody(t) \/ CloseUnclaimed(t) \/ ReleaseAgain(t)

\* Calls that end what the thread has locked.
EndSession(t) ==
    \/ SessionLost(t) \/ UnlockChain(t)
    \/ \E o \in Opens : Unlock(t, o)

\* Calls that use it, or pass it on.
UseSession(t) ==
    \/ ChainLinkLost(t)
    \/ \E o \in Opens :
         \/ Defer(t, o) \/ Exec(t, o) \/ OpenDevice(t, o)
         \/ UnlockLockChain(t, o) \/ UnlockChainLock(t, o)
         \/ \E o2 \in Opens : UnlockLock(t, o, o2) \/ CloseOther(t, o, o2)

Next ==
    /\ ~crashed
    /\ \/ \E t \in Threads : Begin(t) \/ Proceed(t) \/ EndSession(t) \/ UseSession(t)
       \/ OtherLocks
       \/ OtherUnlocks

Spec == Init /\ [][Next]_vars

\* A call that has begun runs on (the mutex is claimed with a timeout, the
\* server answers), and callers end what they lock.
Fairness == \A t \in Threads : /\ WF_vars(~crashed /\ Proceed(t))
                               /\ WF_vars(~crashed /\ EndSession(t))

FairSpec == Spec /\ Fairness

-----------------------------------------------------------------------------
(* Properties.                                                             *)

\* Thread t has locked an object, and the object agrees.
Holds(t) == th[t].has # None /\ Locked(th[t].has)

\* Thread t is using the link, or may at any time.
UsesLink(t) == th[t].pc \in {"body", "close2"} \/ Holds(t)

\* The link, its buffers and m_partial are used by one thread at a time: "This
\* Mutex protects the TCP connection to the client and the buffers associated
\* with it" (jtag_client_link.h).
LinkExclusive == \A t, u \in Threads : UsesLink(t) /\ UsesLink(u) => t = u

\* At most one of the chain and its devices is locked, whatever the hand-overs
\* between them.
OneLocked == \A x, y \in Objects : Locked(x) /\ Locked(y) => x = y

\* Whoever uses the link has claimed it: the assertion link_is_claimed() of
\* AJI_CLIENT::send, get_txmessage and receive_timeout.
UseIsClaimed == \A t \in Threads : UsesLink(t) => owner = t

\* The claim is never left behind: its owner is in a call, or has a lock that a
\* later unlock will give up.
ClaimAccounted == \A t \in Threads : owner = t => th[t].pc = "body" \/ Holds(t)

\* The claim of the link is exactly the right to use it.
LinkOwned == LinkExclusive /\ UseIsClaimed /\ ClaimAccounted

\* Commands recorded as packed are in the shared buffer, under the name of the
\* locked device that packed them.
PackedIsPartial == \A o \in Opens :
    dev[o].queued # {} /\ dev[o].state = "open" => partial = o /\ dev[o].locked

\* The client has a lock that it did not just pack only when the server has
\* given it.
LockedAtServer == \A x \in Objects :
    /\ Locked(x)
    /\ link = "up"
    /\ x \in Opens => dev[x].state = "open" /\ "LOCK" \notin dev[x].queued
    => server = x

\* The chain is locked only while the server has given it, whatever is lost,
\* refused or released twice: only a device's lock is ever assumed.
ChainLockedAtServer == chain.locked /\ link = "up" => server = Chain

\* The server keeps the chain for this client only while the client knows.
ServerLockKnown == server \in Objects => Locked(server)

\* Client and server agree on who has the chain.
ServerAgrees == LockedAtServer /\ ServerLockKnown

\* No call goes through a NULL, deleted or foreign object.
NoCrash == ~crashed

\* One object is locked, only its commands are packed, and it is there.
LocksConsistent == OneLocked /\ PackedIsPartial /\ NoCrash

\* Nobody releases the link for another thread: the assertion
\* m_threadid == pthread_self() of JTAG_MUTEX::release.
ReleasedByOwner ==
    [][\A t, u \in Threads : owner = t /\ owner' # t /\ u # t => th'[u] = th[u]]_vars

\* A claimed link is given up again, on whatever path the call that claimed it
\* or the calls on what it locked come to an end.
ClaimEnds == \A t \in Threads : owner = t ~> owner # t

\* The server's lock is given back, for other clients to use: "to allow other
\* applications to access the JTAG device chain again" (aji.h, aji_unlock).
ServerReturned == server \in Objects ~> server \notin Objects

\* What the locking calls promise: see ChainSession.
Session == INSTANCE ChainSession
    WITH session <- [t \in Threads |-> IF Holds(t) THEN th[t].has ELSE None]

\* For the threads, the claims, the messages and the assumed locks are one lock
\* that one thread has at a time.
ImplementsSession == Session!Spec

-----------------------------------------------------------------------------
(* Why the lock is exclusive: the inductive invariant, for callers that do  *)
(* not use unlock_lock_chain or close a device under another's lock, and a  *)
(* link that is not lost.                                                   *)

NoHandBack == {"unlock_lock_chain", "close_other"} \cap Calls = {}

\* Nothing is lost, refused in secret or kept for later.
NothingLost ==
    /\ link = "up"
    /\ chain.valid
    /\ ~crashed
    /\ \A o \in Opens : dev[o].state # "dead" /\ ~dev[o].error

\* The op and object of a call that has begun; the object is there.
CallOf(op, x) ==
    \/ op \in {"lock", "close"} /\ x \in Opens /\ dev[x].state = "open"
    \/ op = "lock_chain" /\ x = Chain
    \/ op \in {"client", "refresh"} /\ x = None

Steady(t) ==
    \/ th[t] = Idle(th[t].has)
    \/ th[t].pc \in {"claim", "body"} /\ th[t].has = None /\ CallOf(th[t].op, th[t].obj)

\* The claim belongs to the thread in the body of a call, or to the one that
\* has something locked.
ClaimedByUser(t) == owner = t <=> th[t].pc = "body" \/ th[t].has # None

\* Nobody else has, or is locking, a device that is being closed.
ClosedAlone == \A t, u \in Threads :
    th[t].op = "close" /\ t # u => th[t].obj \notin {th[u].obj, th[u].has}

\* What a thread has is locked, and what is locked some thread has.
HasIsLocked == \A t \in Threads : th[t].has # None => Locked(th[t].has)
LockedIsHad == \A x \in Objects : Locked(x) => \E t \in Threads : th[t].has = x

\* Only a locked device has packed commands.
PackedLocked ==
    /\ partial # None => dev[partial].locked
    /\ \A o \in Opens : dev[o].queued # {} => partial = o
    /\ \A o \in Opens : dev[o].locked => dev[o].state = "open"

IInv ==
    /\ TypeOK
    /\ NothingLost
    /\ \A t \in Threads : Steady(t) /\ ClaimedByUser(t)
    /\ ClosedAlone
    /\ HasIsLocked
    /\ LockedIsHad
    /\ PackedLocked

=============================================================================
