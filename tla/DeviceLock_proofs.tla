-------------------------- MODULE DeviceLock_proofs --------------------------
(***************************************************************************)
(* Proofs about DeviceLock for every set of threads and devices.           *)
(***************************************************************************)
EXTENDS DeviceLock, TLAPS

-----------------------------------------------------------------------------
(* Type correctness.                                                       *)

\* The pieces of state that the actions build have the types of TypeOK.
LEMMA PiecesTyped ==
    /\ NewDevice \in Device
    /\ NoDevice \in Device
    /\ \A x \in Objects \cup {None} : Idle(x) \in Thread
BY DEF NewDevice, NoDevice, Device, Idle, Thread

\* Setting a field of a device or of a thread.
LEMMA DeviceField ==
    ASSUME NEW d \in Device
    PROVE  /\ \A q \in SUBSET {"LOCK", "CMD"} : [d EXCEPT !.queued = q] \in Device
           /\ \A b \in BOOLEAN : /\ [d EXCEPT !.locked = b] \in Device
                                 /\ [d EXCEPT !.error = b] \in Device
           /\ \A p \in {"never", "auto"} : [d EXCEPT !.pack = p] \in Device
           /\ \A s \in {"closed", "open", "dead"} : [d EXCEPT !.state = s] \in Device
BY DEF Device

\* Replacing one device.
LEMMA DeviceChanged ==
    ASSUME NEW d \in [Opens -> Device], NEW o \in Opens, NEW r \in Device
    PROVE  [d EXCEPT ![o] = r] \in [Opens -> Device]
OBVIOUS

\* What a call that sends makes of the devices.
LEMMA DevicesTyped ==
    ASSUME TypeOK, NEW o \in Opens
    PROVE  /\ SentDev(o) \in [Opens -> Device]
           /\ UnlockedDev(o) \in [Opens -> Device]
<1>1. dev[o] \in Device
  BY DEF TypeOK
<1>2. [dev[o] EXCEPT !.queued = {}] \in Device
  BY <1>1, DeviceField
<1>3. [[dev[o] EXCEPT !.queued = {}] EXCEPT !.locked = FALSE] \in Device
  BY <1>2, DeviceField
<1> QED BY <1>2, <1>3 DEF TypeOK, SentDev, UnlockedDev

\* A thread that begins a call, goes on in one or returns from one.
LEMMA ThreadsTyped ==
    ASSUME TypeOK, NEW t \in Threads
    PROVE  /\ \A x \in Objects \cup {None} : Return(t, x) => th' \in [Threads -> Thread]
           /\ \A pc \in {"idle", "claim", "body", "rerelease", "close2"},
                 op \in AllCalls, x \in Objects \cup {None} :
                    GoOn(t, pc, op, x) => th' \in [Threads -> Thread]
<1>1. ASSUME NEW x \in Objects \cup {None}, Return(t, x)
      PROVE  th' \in [Threads -> Thread]
  BY <1>1, PiecesTyped DEF Return, TypeOK
<1>2. ASSUME NEW pc \in {"idle", "claim", "body", "rerelease", "close2"},
             NEW op \in AllCalls, NEW x \in Objects \cup {None}, GoOn(t, pc, op, x)
      PROVE  th' \in [Threads -> Thread]
  BY <1>2 DEF GoOn, TypeOK, Thread
<1> QED BY <1>1, <1>2

\* The loss of the link.
LEMMA DisconnectTyped ==
    ASSUME TypeOK, NEW d \in [Opens -> Device], Disconnect(d)
    PROVE  /\ link' \in {"up", "dead", "down"}
           /\ chain' \in [valid : BOOLEAN, locked : BOOLEAN]
           /\ dev' \in [Opens -> Device]
           /\ server' \in Objects \cup {None, Other}
<1>1. \A o \in Opens : [d[o] EXCEPT !.state = "dead"] \in Device
  BY DeviceField
<1> QED BY <1>1 DEF TypeOK, Disconnect, ServerDrops

\* The answer a packet gets moves the server's lock to an object or nowhere.
LEMMA GrantTyped ==
    ASSUME TypeOK, NEW o \in Opens
    PROVE  Granted(o) \in Objects \cup {None, Other}
BY DEF TypeOK, Granted, Objects

\* No call but a hand-over disturbs the types: the calls that claim the link.
LEMMA ClaimingTyped ==
    ASSUME TypeOK, NEW t \in Threads,
           \/ \E op \in Calls, x \in Objects \cup {None} : Enter(t, op, x)
           \/ \E o \in Opens : PendingError(t, o) \/ DeadDevice(t, o)
           \/ ClaimOk(t) \/ ClaimTimeout(t)
    PROVE  TypeOK'
<1>1. ASSUME NEW op \in Calls, NEW x \in Objects \cup {None}, Enter(t, op, x)
      PROVE  TypeOK'
  <2>1. op \in AllCalls
    BY ConstantsOK
  <2>2. th' \in [Threads -> Thread]
    BY <1>1, <2>1, ThreadsTyped DEF Enter
  <2> QED BY <1>1, <2>2 DEF Enter, TypeOK
<1>2. ASSUME NEW o \in Opens, PendingError(t, o)
      PROVE  TypeOK'
  <2>1. [dev[o] EXCEPT !.error = FALSE] \in Device
    BY DeviceField DEF TypeOK
  <2> QED BY <1>2, <2>1 DEF PendingError, TypeOK
<1>3. ASSUME NEW o \in Opens, DeadDevice(t, o)
      PROVE  TypeOK'
  BY <1>3, PiecesTyped DEF DeadDevice, TypeOK
<1>4. ASSUME ClaimOk(t)
      PROVE  TypeOK'
  <2>1. th' \in [Threads -> Thread]
    BY <1>4 DEF ClaimOk, TypeOK, Thread
  <2> QED BY <1>4, <2>1 DEF ClaimOk, TypeOK
<1>5. ASSUME ClaimTimeout(t)
      PROVE  TypeOK'
  <2>1. th' \in [Threads -> Thread]
    BY <1>5, ThreadsTyped DEF ClaimTimeout
  <2>2. dev' \in [Opens -> Device]
    BY <1>5, PiecesTyped DEF ClaimTimeout, TypeOK
  <2> QED BY <1>5, <2>1, <2>2 DEF ClaimTimeout, TypeOK
<1> QED BY <1>1, <1>2, <1>3, <1>4, <1>5

\* The object of a call is a device where the body says so.
LEMMA ObjectTyped ==
    ASSUME TypeOK, NEW t \in Threads
    PROVE  /\ th[t].obj \in Objects \cup {None}
           /\ th[t].has \in Objects \cup {None}
           /\ th[t].op \in AllCalls \cup {"none"}
BY DEF TypeOK, Thread

\* Locking a device.
LEMMA LockedTyped ==
    ASSUME NEW d \in [Opens -> Device], NEW o \in Opens, NEW p \in {"never", "auto"}
    PROVE  [d EXCEPT ![o].locked = TRUE, ![o].pack = p] \in [Opens -> Device]
<1>1. [d[o] EXCEPT !.locked = TRUE] \in Device
  BY DeviceField
<1>2. [[d[o] EXCEPT !.locked = TRUE] EXCEPT !.pack = p] \in Device
  BY <1>1, DeviceField
<1> QED BY <1>2

\* The bodies of the calls that claim the link.
LEMMA BodyTyped ==
    ASSUME TypeOK, NEW t \in Threads,
           \/ BodyCrash(t) \/ LockDeferred(t) \/ LockImmediate(t) \/ LinkLostCrash(t)
           \/ LockChainGranted(t) \/ ExchangeAndRelease(t) \/ ExchangeLost(t)
           \/ RefreshBody(t) \/ CloseUnclaimed(t) \/ ReleaseAgain(t)
    PROVE  TypeOK'
<1> DEFINE o == th[t].obj
<1>1. ASSUME BodyCrash(t) \/ LinkLostCrash(t)
      PROVE  TypeOK'
  BY <1>1 DEF BodyCrash, LinkLostCrash, Crash, TypeOK
<1>2. ASSUME LockDeferred(t)
      PROVE  TypeOK'
  <2>0. o \in Opens
    BY <1>2 DEF LockDeferred
  <2>1. [dev[o] EXCEPT !.queued = @ \cup {"LOCK"}] \in Device
    <3>1. dev[o] \in Device
      BY <2>0 DEF TypeOK
    <3>2. dev[o].queued \cup {"LOCK"} \in SUBSET {"LOCK", "CMD"}
      BY <3>1 DEF Device
    <3> QED BY <3>1, <3>2, DeviceField
  <2>2. [[dev[o] EXCEPT !.queued = @ \cup {"LOCK"}] EXCEPT !.locked = TRUE] \in Device
    BY <2>1, DeviceField
  <2>3. [[[dev[o] EXCEPT !.queued = @ \cup {"LOCK"}]
              EXCEPT !.locked = TRUE] EXCEPT !.pack = "auto"] \in Device
    BY <2>2, DeviceField
  <2>4. dev' \in [Opens -> Device]
    BY <1>2, <2>0, <2>3 DEF LockDeferred, TypeOK
  <2>5. th' \in [Threads -> Thread]
    BY <1>2, <2>0, ThreadsTyped DEF LockDeferred, Objects
  <2> QED BY <1>2, <2>4, <2>5 DEF LockDeferred, TypeOK
<1>3. ASSUME LockImmediate(t)
      PROVE  TypeOK'
  <2> DEFINE d == [dev EXCEPT ![o].locked = TRUE, ![o].pack = "never"]
  <2>0. o \in Opens
    BY <1>3 DEF LockImmediate
  <2>1. d \in [Opens -> Device]
    BY <2>0, LockedTyped DEF TypeOK
  <2> HIDE DEF d
  <2>2. th' \in [Threads -> Thread]
    BY <1>3, <2>0, ThreadsTyped DEF LockImmediate, Objects
  <2>3. /\ link' \in {"up", "dead", "down"}
        /\ chain' \in [valid : BOOLEAN, locked : BOOLEAN]
        /\ dev' \in [Opens -> Device]
        /\ server' \in Objects \cup {None, Other}
        /\ owner' \in Threads \cup {None}
    <3>1. CASE Disconnect(d) /\ ChainReleases
      BY <3>1, <2>1, DisconnectTyped DEF ChainReleases, TypeOK
    <3>2. CASE dev' = d /\ UNCHANGED <<owner, chain>> /\ Unanswered
      BY <3>2, <2>1 DEF Unanswered, ServerDrops, TypeOK
    <3>3. CASE /\ dev' = d /\ UNCHANGED <<owner, link, chain>>
               /\ server' \in {o, None, server}
      BY <2>0, <3>3, <2>1 DEF TypeOK, Objects
    <3> QED BY <1>3, <3>1, <3>2, <3>3 DEF LockImmediate, d
  <2> QED BY <1>3, <2>2, <2>3 DEF LockImmediate, TypeOK
<1>4. ASSUME LockChainGranted(t)
      PROVE  TypeOK'
  <2>1. th' \in [Threads -> Thread]
    BY <1>4, ThreadsTyped DEF LockChainGranted, Objects
  <2>2. chain' \in [valid : BOOLEAN, locked : BOOLEAN]
    BY <1>4 DEF LockChainGranted, TypeOK
  <2> QED BY <1>4, <2>1, <2>2 DEF LockChainGranted, TypeOK, Objects
<1>5. ASSUME ExchangeAndRelease(t)
      PROVE  TypeOK'
  <2>1. th' \in [Threads -> Thread]
    BY <1>5, ThreadsTyped DEF ExchangeAndRelease
  <2>2. dev' \in [Opens -> Device]
    BY <1>5, PiecesTyped DEF ExchangeAndRelease, TypeOK
  <2> QED BY <1>5, <2>1, <2>2 DEF ExchangeAndRelease, ReleaseLink, TypeOK
<1>6. ASSUME ExchangeLost(t)
      PROVE  TypeOK'
  <2>1. th' \in [Threads -> Thread]
    BY <1>6, ThreadsTyped DEF ExchangeLost
  <2>2. CASE Disconnect(dev)
    BY <1>6, <2>1, <2>2, DisconnectTyped DEF ExchangeLost, ReleaseLink, TypeOK
  <2>3. CASE Unanswered /\ UNCHANGED <<chain, dev>>
    BY <1>6, <2>1, <2>3 DEF ExchangeLost, ReleaseLink, Unanswered, ServerDrops, TypeOK
  <2> QED BY <1>6, <2>2, <2>3 DEF ExchangeLost
<1>7. ASSUME RefreshBody(t)
      PROVE  TypeOK'
  <2>1. th' \in [Threads -> Thread]
    BY <1>7, ThreadsTyped DEF RefreshBody
  <2>2. CASE Disconnect(dev)
    BY <1>7, <2>1, <2>2, DisconnectTyped DEF RefreshBody, ReleaseLink, TypeOK
  <2>3. CASE /\ link' = "up" /\ chain' = [chain EXCEPT !.valid = TRUE]
             /\ UNCHANGED <<dev, server>>
    BY <1>7, <2>1, <2>3 DEF RefreshBody, ReleaseLink, TypeOK
  <2> QED BY <1>7, <2>2, <2>3 DEF RefreshBody
<1>8. ASSUME CloseUnclaimed(t)
      PROVE  TypeOK'
  <2> DEFINE d == [dev EXCEPT ![o] = NoDevice]
  <2>1. d \in [Opens -> Device]
    BY PiecesTyped DEF TypeOK
  <2>2. th' \in [Threads -> Thread]
    BY <1>8, ThreadsTyped, ObjectTyped DEF CloseUnclaimed
  <2> HIDE DEF d
  <2>3. CASE Disconnect(d) /\ ChainReleases
    BY <1>8, <2>1, <2>2, <2>3, DisconnectTyped DEF CloseUnclaimed, ChainReleases, TypeOK
  <2>4. CASE dev' = d /\ UNCHANGED <<owner, link, chain, server>>
    BY <1>8, <2>1, <2>2, <2>4 DEF CloseUnclaimed, TypeOK
  <2> QED BY <1>8, <2>3, <2>4 DEF CloseUnclaimed, d
<1>9. ASSUME ReleaseAgain(t)
      PROVE  TypeOK'
  <2>1. th' \in [Threads -> Thread]
    BY <1>9, ThreadsTyped DEF ReleaseAgain
  <2> QED BY <1>9, <2>1 DEF ReleaseAgain, ReleaseLink, TypeOK
<1> QED BY <1>1, <1>2, <1>3, <1>4, <1>5, <1>6, <1>7, <1>8, <1>9

\* The state but for what the threads are doing.
StateTyped ==
    /\ owner \in Threads \cup {None}
    /\ link \in {"up", "dead", "down"}
    /\ chain \in [valid : BOOLEAN, locked : BOOLEAN]
    /\ dev \in [Opens -> Device]
    /\ partial \in Opens \cup {None}
    /\ server \in Objects \cup {None, Other}
    /\ crashed \in BOOLEAN

\* The ways a packet of a locked device is answered, or is not.
LEMMA SentTyped ==
    ASSUME TypeOK, NEW t \in Threads, NEW op \in AllCalls, NEW o \in Opens
    PROVE  /\ LockRefused(t, op, o) => StateTyped'
           /\ CommandRefused(t, op, o) /\ dev' \in {SentDev(o), UnlockedDev(o)}
                /\ (ReleaseLink \/ UNCHANGED owner) => StateTyped'
           /\ \A d \in [Opens -> Device] : LinkLost(t, op, o, d) => StateTyped'
           /\ UnlockDone(t, op, o) => StateTyped'
<1>1. ASSUME LockRefused(t, op, o)
      PROVE  StateTyped'
  BY <1>1, DevicesTyped DEF LockRefused, Sends, ReleaseLink, StateTyped, TypeOK
<1>2. ASSUME CommandRefused(t, op, o), dev' \in {SentDev(o), UnlockedDev(o)},
             ReleaseLink \/ UNCHANGED owner
      PROVE  StateTyped'
  BY <1>2, DevicesTyped, GrantTyped
     DEF CommandRefused, Sends, ReleaseLink, StateTyped, TypeOK
<1>3. ASSUME NEW d \in [Opens -> Device], LinkLost(t, op, o, d)
      PROVE  StateTyped'
  <2>1. Disconnect(d)
    BY <1>3 DEF LinkLost
  <2> QED BY <1>3, <2>1, DisconnectTyped
          DEF LinkLost, Sends, ChainReleases, StateTyped, TypeOK
<1>4. ASSUME UnlockDone(t, op, o)
      PROVE  StateTyped'
  BY <1>4, DevicesTyped DEF UnlockDone, AllDone, Sends, ReleaseLink, StateTyped, TypeOK
<1> QED BY <1>1, <1>2, <1>3, <1>4

\* What a thread is doing completes the state.
LEMMA StateAndThreads ==
    StateTyped' /\ th' \in [Threads -> Thread] => TypeOK'
BY DEF StateTyped, TypeOK

\* An unlock whose packet is refused, or not answered.
LEMMA FailedUnlockTyped ==
    ASSUME TypeOK, NEW t \in Threads, NEW op \in AllCalls, NEW o \in Opens,
           FailedUnlock(t, op, o)
    PROVE  TypeOK'
<1>1. th' \in [Threads -> Thread]
  BY ThreadsTyped DEF FailedUnlock
<1>2. UnlockedDev(o) \in [Opens -> Device]
  BY DevicesTyped
<1>3. StateTyped'
  BY <1>2, SentTyped DEF FailedUnlock
<1> QED BY <1>1, <1>3, StateAndThreads

\* An unlock with an error pending, which sends nothing.
LEMMA UnlockPendingTyped ==
    ASSUME TypeOK, NEW t \in Threads, NEW op \in AllCalls, NEW o \in Opens,
           UnlockPending(t, op, o)
    PROVE  TypeOK'
<1>1. th' \in [Threads -> Thread]
  BY ThreadsTyped DEF UnlockPending
<1>2. [[dev[o] EXCEPT !.locked = FALSE] EXCEPT !.error = FALSE] \in Device
  BY DeviceField DEF TypeOK
<1>3. dev' \in [Opens -> Device]
  BY <1>2 DEF UnlockPending, TypeOK
<1> QED BY <1>1, <1>3 DEF UnlockPending, ReleaseLink, TypeOK

\* A call that finds its session gone.
LEMMA SessionLostTyped ==
    ASSUME TypeOK, NEW t \in Threads, SessionLost(t)
    PROVE  TypeOK'
<1>1. th' \in [Threads -> Thread]
  BY ThreadsTyped DEF SessionLost
<1>2. dev' \in [Opens -> Device]
  BY PiecesTyped DEF SessionLost, TypeOK
<1> QED BY <1>1, <1>2 DEF SessionLost, TypeOK

\* Calls that end a session or use it on one device.
LEMMA UsingTyped ==
    ASSUME TypeOK, NEW t \in Threads, NEW o \in Opens,
           \/ Unlock(t, o) \/ Defer(t, o) \/ Exec(t, o)
           \/ OpenDevice(t, o)
    PROVE  TypeOK'
<1>1. ASSUME Unlock(t, o)
      PROVE  TypeOK'
  <2>0. "unlock" \in AllCalls
    BY DEF AllCalls
  <2>1. CASE UnlockDone(t, "unlock", o) /\ Return(t, None)
    <3>1. StateTyped'
      BY <2>0, <2>1, SentTyped
    <3> QED BY <2>1, <3>1, ThreadsTyped, StateAndThreads
  <2> QED BY <1>1, <2>0, <2>1, FailedUnlockTyped, UnlockPendingTyped DEF Unlock
<1>2. ASSUME Defer(t, o)
      PROVE  TypeOK'
  <2>1. dev[o] \in Device
    BY DEF TypeOK
  <2>2. dev[o].queued \cup {"CMD"} \in SUBSET {"LOCK", "CMD"}
    BY <2>1 DEF Device
  <2>3. [dev[o] EXCEPT !.queued = @ \cup {"CMD"}] \in Device
    BY <2>1, <2>2, DeviceField
  <2> QED BY <1>2, <2>3 DEF Defer, TypeOK
<1>3. ASSUME Exec(t, o)
      PROVE  TypeOK'
  <2>0. "command" \in AllCalls
    BY DEF AllCalls
  <2>1. CASE /\ AllDone(t, "command", o) /\ server' = o /\ UNCHANGED chain
             /\ dev' = SentDev(o) /\ UNCHANGED <<owner, th>>
    BY <2>1, DevicesTyped DEF AllDone, Sends, TypeOK, Objects
  <2>2. CASE CommandRefused(t, "command", o) /\ dev' = SentDev(o) /\ UNCHANGED <<owner, th>>
    <3>1. StateTyped'
      BY <2>0, <2>2, SentTyped
    <3> QED BY <2>2, <3>1, StateAndThreads DEF TypeOK
  <2>3. CASE LockRefused(t, "command", o) /\ Return(t, None)
    <3>1. StateTyped'
      BY <2>0, <2>3, SentTyped
    <3> QED BY <2>3, <3>1, ThreadsTyped, StateAndThreads
  <2>4. CASE LinkLost(t, "command", o, SentDev(o)) /\ UNCHANGED th
    <3>1. StateTyped'
      BY <2>0, <2>4, SentTyped, DevicesTyped
    <3> QED BY <2>4, <3>1, StateAndThreads DEF TypeOK
  <2> QED BY <1>3, <2>1, <2>2, <2>3, <2>4 DEF Exec
<1>4. ASSUME OpenDevice(t, o)
      PROVE  TypeOK'
  BY <1>4, PiecesTyped DEF OpenDevice, TypeOK
<1> QED BY <1>1, <1>2, <1>3, <1>4

\* Calls that pass a session of a device on, or close another device under it.
LEMMA HandOverTyped ==
    ASSUME TypeOK, NEW t \in Threads, NEW o \in Opens,
           \/ UnlockLockChain(t, o)
           \/ \E o2 \in Opens : UnlockLock(t, o, o2) \/ CloseOther(t, o, o2)
    PROVE  TypeOK'
<1>0. {"unlock_lock", "unlock_lock_chain", "close_other", "lock_chain"} \subseteq AllCalls
  BY DEF AllCalls
<1>1. ASSUME NEW o2 \in Opens, UnlockLock(t, o, o2)
      PROVE  TypeOK'
  <2>1. CASE FailedUnlock(t, "unlock_lock", o)
    BY <1>0, <2>1, FailedUnlockTyped
  <2>2. CASE /\ AllDone(t, "unlock_lock", o)
             /\ server' = o2
             /\ dev' = [UnlockedDev(o) EXCEPT ![o2].locked = TRUE, ![o2].pack = dev[o].pack]
             /\ Return(t, o2)
             /\ UNCHANGED <<owner, chain>>
    <3>1. dev[o].pack \in {"never", "auto"}
      BY DEF TypeOK, Device
    <3>2. dev' \in [Opens -> Device]
      BY <2>2, <3>1, DevicesTyped, LockedTyped
    <3>3. th' \in [Threads -> Thread]
      BY <2>2, ThreadsTyped DEF Objects
    <3> QED BY <2>2, <3>2, <3>3 DEF AllDone, Sends, TypeOK, Objects
  <2> QED BY <1>1, <2>1, <2>2 DEF UnlockLock
<1>2. ASSUME UnlockLockChain(t, o)
      PROVE  TypeOK'
  <2> DEFINE op == "unlock_lock_chain"
  <2>1. CASE FailedUnlock(t, op, o) \/ UnlockPending(t, op, o)
    BY <1>0, <2>1, FailedUnlockTyped, UnlockPendingTyped
  <2>2. CASE UnlockDone(t, op, o) /\ GoOn(t, "claim", "lock_chain", Chain)
    <3>1. StateTyped'
      BY <1>0, <2>2, SentTyped
    <3> QED BY <1>0, <2>2, <3>1, ThreadsTyped, StateAndThreads DEF Objects
  <2>3. CASE LockRefused(t, op, o) /\ GoOn(t, "rerelease", op, o)
    <3>1. StateTyped'
      BY <1>0, <2>3, SentTyped
    <3> QED BY <1>0, <2>3, <3>1, ThreadsTyped, StateAndThreads DEF Objects
  <2>4. CASE /\ CommandRefused(t, op, o) /\ dev' = UnlockedDev(o)
             /\ ReleaseLink /\ Return(t, None)
    <3>1. StateTyped'
      BY <1>0, <2>4, SentTyped
    <3> QED BY <2>4, <3>1, ThreadsTyped, StateAndThreads
  <2>5. CASE Crash
    BY <2>5 DEF Crash, TypeOK
  <2>6. CASE /\ AllDone(t, op, o) /\ server' = Chain
             /\ chain' = [chain EXCEPT !.locked = TRUE]
             /\ dev' = UnlockedDev(o) /\ Return(t, Chain) /\ UNCHANGED owner
    <3>1. th' \in [Threads -> Thread]
      BY <2>6, ThreadsTyped DEF Objects
    <3>2. chain' \in [valid : BOOLEAN, locked : BOOLEAN]
      BY <2>6 DEF TypeOK
    <3> QED BY <2>6, <3>1, <3>2, DevicesTyped DEF AllDone, Sends, TypeOK, Objects
  <2> QED BY <1>2, <2>1, <2>2, <2>3, <2>4, <2>5, <2>6 DEF UnlockLockChain
<1>3. ASSUME NEW o2 \in Opens, CloseOther(t, o, o2)
      PROVE  TypeOK'
  <2>0. [SentDev(o) EXCEPT ![o2] = NoDevice] \in [Opens -> Device]
    BY DevicesTyped, PiecesTyped
  <2>1. CASE /\ link = "up" /\ partial' = None
             /\ server' = Granted(o)
             /\ UNCHANGED <<owner, link, chain, th>>
             /\ \E b \in BOOLEAN :
                   dev' = [SentDev(o) EXCEPT ![o2] = NoDevice, ![o].error = b]
    <3>1. PICK b \in BOOLEAN :
            dev' = [SentDev(o) EXCEPT ![o2] = NoDevice, ![o].error = b]
      BY <2>1
    <3> DEFINE d == [SentDev(o) EXCEPT ![o2] = NoDevice]
    <3>2. d \in [Opens -> Device]
      BY <2>0
    <3>3. [d[o] EXCEPT !.error = b] \in Device
      BY <3>2, DeviceField
    <3>4. dev' \in [Opens -> Device]
      BY <3>1, <3>2, <3>3
    <3> QED BY <1>3, <2>1, <3>4, GrantTyped DEF CloseOther, TypeOK
  <2>2. CASE /\ dev' = [UnlockedDev(o) EXCEPT ![o].error = TRUE]
             /\ partial' = o2
             /\ ReleaseLink
             /\ th' = [th EXCEPT ![t] = [pc |-> "close2", op |-> "close_other",
                                         obj |-> o2, has |-> o]]
             /\ UNCHANGED <<link, chain, server, crashed>>
    <3>1. dev' \in [Opens -> Device]
      <4>1. UnlockedDev(o) \in [Opens -> Device]
        BY DevicesTyped
      <4>2. [UnlockedDev(o)[o] EXCEPT !.error = TRUE] \in Device
        BY <4>1, DeviceField
      <4> QED BY <2>2, <4>1, <4>2
    <3>2. th' \in [Threads -> Thread]
      BY <1>0, <2>2 DEF TypeOK, Thread, Objects
    <3> QED BY <2>2, <3>1, <3>2 DEF ReleaseLink, TypeOK
  <2>3. CASE /\ Disconnect([SentDev(o) EXCEPT ![o2] = NoDevice])
             /\ ChainReleases
             /\ partial' \in {None, o2}
             /\ UNCHANGED <<crashed, th>>
    BY <2>0, <2>3, DisconnectTyped DEF ChainReleases, TypeOK
  <2>4. \A r \in BOOLEAN : (dev[o].error \/ (dev[o].queued # {} /\ (r \/ Granted(o) # o))) \in BOOLEAN
    BY DEF TypeOK, Device
  <2> QED BY <1>3, <2>1, <2>2, <2>3, <2>4 DEF CloseOther
<1> QED BY <1>1, <1>2, <1>3

\* Calls on the chain, and the other clients.
LEMMA ChainTyped ==
    ASSUME TypeOK, NEW t \in Threads,
           \/ UnlockChain(t) \/ ChainLinkLost(t)
           \/ \E o \in Opens : UnlockChainLock(t, o)
           \/ OtherLocks \/ OtherUnlocks
    PROVE  TypeOK'
<1>0. {"unlock_chain", "unlock_chain_lock", "lock"} \subseteq AllCalls
  BY DEF AllCalls
<1>1. ASSUME NEW op \in AllCalls, UnlockChainDone(t, op)
      PROVE  /\ owner' \in Threads \cup {None} /\ link' \in {"up", "dead", "down"}
             /\ chain' \in [valid : BOOLEAN, locked : BOOLEAN]
             /\ server' \in Objects \cup {None, Other}
             /\ partial' \in Opens \cup {None} /\ crashed' \in BOOLEAN
  BY <1>1 DEF UnlockChainDone, ReleaseLink, TypeOK
<1>2. ASSUME NEW op \in AllCalls, UnlockChainFailed(t, op)
      PROVE  TypeOK'
  <2>1. th' \in [Threads -> Thread]
    BY <1>2, ThreadsTyped DEF UnlockChainFailed, Objects
  <2>2. CASE Disconnect(dev) /\ ChainReleases
    BY <1>2, <2>1, <2>2, DisconnectTyped DEF UnlockChainFailed, ChainReleases, TypeOK
  <2>3. CASE /\ \/ UNCHANGED <<link, server>>
                \/ LinkLoss /\ Unanswered
             /\ chain' = [chain EXCEPT !.locked = FALSE]
             /\ ReleaseLink
             /\ UNCHANGED dev
    BY <1>2, <2>1, <2>3
       DEF UnlockChainFailed, ReleaseLink, Unanswered, ServerDrops, TypeOK
  <2> QED BY <1>2, <2>2, <2>3 DEF UnlockChainFailed
<1>3. ASSUME UnlockChain(t)
      PROVE  TypeOK'
  <2>1. CASE UnlockChainDone(t, "unlock_chain") /\ Return(t, None) /\ UNCHANGED dev
    BY <1>0, <1>1, <2>1, ThreadsTyped DEF TypeOK
  <2> QED BY <1>0, <1>2, <1>3, <2>1 DEF UnlockChain
<1>4. ASSUME ChainLinkLost(t)
      PROVE  TypeOK'
  <2>1. CASE Disconnect(dev) /\ ChainReleases
    BY <1>4, <2>1, DisconnectTyped DEF ChainLinkLost, ChainReleases, TypeOK
  <2>2. CASE Unanswered /\ UNCHANGED <<owner, chain, dev>>
    BY <1>4, <2>2 DEF ChainLinkLost, Unanswered, ServerDrops, TypeOK
  <2> QED BY <1>4, <2>1, <2>2 DEF ChainLinkLost
<1>5. ASSUME NEW o \in Opens, UnlockChainLock(t, o)
      PROVE  TypeOK'
  <2> DEFINE op == "unlock_chain_lock"
  <2>0. [dev[o] EXCEPT !.locked = TRUE] \in Device /\ [dev[o] EXCEPT !.error = FALSE] \in Device
    BY DeviceField DEF TypeOK
  <2>1. CASE UnlockChainFailed(t, op)
    BY <1>0, <1>2, <2>1
  <2>2. CASE /\ UnlockChainDone(t, op)
             /\ dev' = [dev EXCEPT ![o].error = FALSE]
             /\ Return(t, None) \/ GoOn(t, "claim", "lock", o)
    <3>1. dev' \in [Opens -> Device]
      BY <2>0, <2>2 DEF TypeOK
    <3>2. th' \in [Threads -> Thread]
      BY <1>0, <2>2, ThreadsTyped DEF Objects
    <3> QED BY <1>0, <1>1, <2>2, <3>1, <3>2 DEF TypeOK
  <2>3. CASE /\ server' = o \/ UNCHANGED server
             /\ chain' = [chain EXCEPT !.locked = FALSE]
             /\ \E style \in PackStyles :
                   dev' = [dev EXCEPT ![o].locked = TRUE, ![o].pack = style]
             /\ Return(t, o)
             /\ UNCHANGED <<owner, link, partial, crashed>>
    <3>1. dev' \in [Opens -> Device]
      <4>1. PICK style \in PackStyles :
              dev' = [dev EXCEPT ![o].locked = TRUE, ![o].pack = style]
        BY <2>3
      <4>2. style \in {"never", "auto"}
        BY ConstantsOK
      <4> QED BY <4>1, <4>2, LockedTyped DEF TypeOK
    <3>2. th' \in [Threads -> Thread]
      BY <2>3, ThreadsTyped DEF Objects
    <3> QED BY <2>3, <3>1, <3>2 DEF TypeOK, Objects
  <2>4. CASE /\ \/ Disconnect(dev) /\ Return(t, None)
                \/ Disconnect([dev EXCEPT ![o].locked = TRUE]) /\ Return(t, o)
             /\ ReleaseLink
             /\ UNCHANGED <<partial, crashed>>
    <3>1. [dev EXCEPT ![o].locked = TRUE] \in [Opens -> Device]
      BY <2>0 DEF TypeOK
    <3>2. th' \in [Threads -> Thread]
      BY <2>4, ThreadsTyped DEF Objects
    <3> QED BY <2>4, <3>1, <3>2, DisconnectTyped DEF ReleaseLink, TypeOK
  <2> QED BY <1>5, <2>1, <2>2, <2>3, <2>4 DEF UnlockChainLock
<1>6. ASSUME OtherLocks \/ OtherUnlocks
      PROVE  TypeOK'
  BY <1>6 DEF OtherLocks, OtherUnlocks, TypeOK
<1> QED BY <1>3, <1>4, <1>5, <1>6

\* Every step of every interleaving keeps the state a state of the program's
\* types.
LEMMA TypeKept == TypeOK /\ [Next]_vars => TypeOK'
<1> SUFFICES ASSUME TypeOK, [Next]_vars PROVE TypeOK'
  OBVIOUS
<1>1. CASE UNCHANGED vars
  BY <1>1 DEF vars, TypeOK
<1>2. ASSUME NEW t \in Threads, Begin(t)
      PROVE  TypeOK'
  BY <1>2, ClaimingTyped DEF Begin
<1>3. ASSUME NEW t \in Threads, Proceed(t)
      PROVE  TypeOK'
  BY <1>3, ClaimingTyped, BodyTyped DEF Proceed
<1>4. ASSUME NEW t \in Threads, EndSession(t)
      PROVE  TypeOK'
  <2>1. CASE SessionLost(t) \/ \E o \in Opens : Unlock(t, o)
    BY <2>1, SessionLostTyped, UsingTyped
  <2>2. CASE UnlockChain(t)
    BY <2>2, ChainTyped
  <2> QED BY <1>4, <2>1, <2>2 DEF EndSession
<1>5. ASSUME NEW t \in Threads, UseSession(t)
      PROVE  TypeOK'
  BY <1>5, UsingTyped, HandOverTyped, ChainTyped DEF UseSession
<1>6. CASE OtherLocks \/ OtherUnlocks
  BY <1>6 DEF OtherLocks, OtherUnlocks, TypeOK
<1> QED BY <1>1, <1>2, <1>3, <1>4, <1>5, <1>6 DEF Next

\* TypeOK holds of the locking code whatever the calls, refusals and losses.
THEOREM TypeCorrect == Spec => []TypeOK
<1>1. Init => TypeOK
  <2> SUFFICES ASSUME Init PROVE TypeOK
    OBVIOUS
  <2>1. dev \in [Opens -> Device] /\ th \in [Threads -> Thread]
    BY PiecesTyped DEF Init
  <2> QED BY <2>1 DEF Init, TypeOK
<1>2. TypeOK /\ [Next]_vars => TypeOK'
  BY TypeKept
<1> QED BY <1>1, <1>2, PTL DEF Spec

-----------------------------------------------------------------------------
(* The lock is exclusive.                                                  *)

\* The thread that owns the link is the only one to use it, and what is locked
\* is what it has.
LEMMA OwnerAlone ==
    ASSUME IInv, NEW t \in Threads, owner \in {None, t}
    PROVE  /\ \A u \in Threads \ {t} : th[u].has = None /\ th[u].pc # "body"
           /\ \A x \in Objects : Locked(x) <=> th[t].has = x
           /\ partial \in {None, th[t].has}
           /\ \A o \in Opens : dev[o].queued # {} => th[t].has = o
<1>1. \A u \in Threads \ {t} : th[u].has = None /\ th[u].pc # "body"
  BY NamesDistinct DEF IInv, ClaimedByUser
<1>2. \A x \in Objects : Locked(x) <=> th[t].has = x
  BY <1>1, NamesDistinct DEF IInv, HasIsLocked, LockedIsHad, Objects
<1>3. \A o \in Opens : dev[o].locked => th[t].has = o
  BY <1>2, NamesDistinct DEF Locked, Objects
<1>4. partial \in {None, th[t].has}
  BY <1>3 DEF IInv, PackedLocked, TypeOK
<1>5. \A o \in Opens : dev[o].queued # {} => th[t].has = o
  BY <1>4, NamesDistinct DEF IInv, PackedLocked, Objects
<1> QED BY <1>1, <1>2, <1>4, <1>5

\* A step of the thread that may use the link: whatever it locks, unlocks or
\* hands over, the invariant asks only about this thread and its object.
LEMMA OwnerMoves ==
    ASSUME IInv, NEW t \in Threads, owner \in {None, t}, owner' \in {None, t},
           TypeOK', NothingLost', PackedLocked',
           \A u \in Threads \ {t} : th'[u] = th[u],
           Steady(t)', ClaimedByUser(t)',
           \A x \in Objects : Locked(x)' <=> th'[t].has = x,
           \A u \in Threads \ {t} : CallOf(th[u].op, th[u].obj) => CallOf(th[u].op, th[u].obj)',
           \A u \in Threads \ {t} :
               /\ th[u].op = "close" => th[u].obj \notin {th'[t].obj, th'[t].has}
               /\ th'[t].op = "close" => th'[t].obj \notin {th[u].obj, th[u].has}
    PROVE  IInv'
<1>1. \A u \in Threads \ {t} : th[u].has = None /\ th[u].pc # "body"
  BY OwnerAlone
<1>2. ASSUME NEW u \in Threads
      PROVE  Steady(u)' /\ ClaimedByUser(u)'
  <2>1. CASE u = t
    BY <2>1
  <2>2. CASE u # t
    <3>1. Steady(u)'
      BY <2>2 DEF IInv, Steady, Idle
    <3>2. owner' # u
      BY <2>2, NamesDistinct
    <3> QED BY <1>1, <2>2, <3>1, <3>2 DEF ClaimedByUser
  <2> QED BY <2>1, <2>2
<1>3. ClosedAlone'
  BY DEF IInv, ClosedAlone
<1>4. HasIsLocked'
  <2>1. \A u \in Threads : th'[u].has \in Objects \cup {None}
    BY DEF TypeOK, Thread
  <2> QED BY <1>1, <2>1 DEF HasIsLocked
<1>5. LockedIsHad'
  BY DEF LockedIsHad
<1> QED BY <1>2, <1>3, <1>4, <1>5 DEF IInv

\* A step of a thread that has nothing and leaves the claim, the devices and
\* the locks alone: it begins a call or gives one up.
LEMMA IdleMoves ==
    ASSUME IInv, NEW t \in Threads,
           TypeOK', NothingLost',
           UNCHANGED <<owner, chain, partial>>,
           \A o \in Opens : \/ dev'[o] = dev[o]
                            \/ ~dev[o].locked /\ dev'[o] = NoDevice,
           \A u \in Threads \ {t} : th'[u] = th[u],
           th[t].has = None, th[t].pc # "body",
           th'[t].has = None, th'[t].pc # "body", Steady(t)',
           \A u \in Threads \ {t} : CallOf(th[u].op, th[u].obj) => CallOf(th[u].op, th[u].obj)',
           \A u \in Threads \ {t} :
               /\ th[u].op = "close" => th[u].obj \notin {th'[t].obj, th'[t].has}
               /\ th'[t].op = "close" => th'[t].obj \notin {th[u].obj, th[u].has}
    PROVE  IInv'
<1>1. ASSUME NEW u \in Threads
      PROVE  Steady(u)' /\ ClaimedByUser(u)'
  <2>1. CASE u = t
    BY <2>1 DEF IInv, ClaimedByUser
  <2>2. CASE u # t
    <3>1. Steady(u)'
      BY <2>2 DEF IInv, Steady, Idle
    <3> QED BY <2>2, <3>1 DEF IInv, ClaimedByUser
  <2> QED BY <2>1, <2>2
<1>2. ClosedAlone'
  BY DEF IInv, ClosedAlone
<1>3. \A x \in Objects : Locked(x)' <=> Locked(x)
  BY DEF Locked, Objects, NoDevice, NewDevice
<1>4. \A u \in Threads : th'[u].has = th[u].has
  OBVIOUS
<1>5. HasIsLocked' /\ LockedIsHad'
  <2>1. \A u \in Threads : th[u].has \in Objects \cup {None}
    BY DEF IInv, TypeOK, Thread
  <2> QED BY <1>3, <1>4, <2>1 DEF IInv, HasIsLocked, LockedIsHad
<1>6. PackedLocked'
  BY NamesDistinct DEF IInv, PackedLocked, TypeOK, NoDevice, NewDevice
<1> QED BY <1>1, <1>2, <1>5, <1>6 DEF IInv

\* While nothing is lost no call loses the link, and no thread is in one of the
\* states that only a loss or a hand-back leads to.
LEMMA NothingIsLost ==
    ASSUME IInv, LinkLoss = FALSE, NEW t \in Threads
    PROVE  /\ ~LinkFails
           /\ th[t].pc \in {"idle", "claim", "body"}
           /\ th[t].pc = "body" =>
                 /\ owner = t
                 /\ th[t].has = None
                 /\ CallOf(th[t].op, th[t].obj)
           /\ th[t].pc = "claim" => CallOf(th[t].op, th[t].obj) /\ th[t].has = None
           /\ th[t].op = "close" => th[t].obj \in Opens
<1>1. Steady(t) /\ ClaimedByUser(t) /\ ~LinkFails
  BY DEF IInv, NothingLost, LinkFails
<1>2. CASE th[t] = Idle(th[t].has)
  <2>1. th[t].pc = "idle" /\ th[t].op = "none"
    BY <1>2 DEF Idle
  <2> QED BY <1>1, <2>1
<1>3. CASE /\ th[t].pc \in {"claim", "body"}
           /\ th[t].has = None
           /\ CallOf(th[t].op, th[t].obj)
  BY <1>1, <1>3 DEF CallOf, ClaimedByUser
<1> QED BY <1>1, <1>2, <1>3 DEF Steady

\* Beginning a call, and claiming the link for it or giving up.
LEMMA ClaimingKeeps ==
    ASSUME IInv, NEW t \in Threads, LinkLoss = FALSE,
           \/ \E op \in Calls, x \in Objects \cup {None} : Enter(t, op, x)
           \/ ClaimOk(t) \/ ClaimTimeout(t)
    PROVE  IInv'
<1>0. TypeOK'
  BY ClaimingTyped DEF IInv
<1>a. /\ th \in [Threads -> Thread]
      /\ dev \in [Opens -> Device]
  BY DEF IInv, TypeOK
<1>1. ASSUME NEW op \in Calls, NEW x \in Objects \cup {None}, Enter(t, op, x)
      PROVE  IInv'
  <2>1. th[t] = Idle(None) /\ th' = [th EXCEPT ![t] = [pc |-> "claim", op |-> op,
                                                       obj |-> x, has |-> None]]
    BY <1>1 DEF Enter, GoOn
  <2>2. th'[t] = [pc |-> "claim", op |-> op, obj |-> x, has |-> None]
    BY <1>a, <2>1
  <2>3. \A u \in Threads \ {t} : th'[u] = th[u]
    BY <1>a, <2>1
  <2>4. CallOf(op, x)
    BY <1>1 DEF Enter, MayEnter, Usable, CallOf
  <2>5. UNCHANGED <<owner, link, chain, dev, partial, server, crashed>>
    BY <1>1 DEF Enter
  <2>6. \A u \in Threads \ {t} :
           /\ th[u].op = "close" => th[u].obj \notin {x, None}
           /\ op = "close" => x \notin {th[u].obj, th[u].has}
    <3> SUFFICES ASSUME NEW u \in Threads \ {t}
                 PROVE  /\ th[u].op = "close" => th[u].obj \notin {x, None}
                        /\ op = "close" => x \notin {th[u].obj, th[u].has}
      OBVIOUS
    <3>1. th[u].op = "close" => th[u].obj \in Opens
      BY NothingIsLost
    <3>2. x \in Opens => ~BeingClosed(x)
      BY <1>1, NamesDistinct DEF Enter, MayEnter, Usable, Objects
    <3>3. op = "close" => ~InUse(x)
      BY <1>1 DEF Enter, MayEnter
    <3> QED BY <3>1, <3>2, <3>3, NamesDistinct DEF BeingClosed, InUse, Objects
  <2>7. Steady(t)'
    <3>1. CallOf(op, x)'
      BY <2>4, <2>5 DEF CallOf
    <3> QED BY <2>2, <3>1 DEF Steady, CallOf
  <2>8. NothingLost'
    BY <2>5 DEF IInv, NothingLost
  <2>9. \A u \in Threads \ {t} : CallOf(th[u].op, th[u].obj) => CallOf(th[u].op, th[u].obj)'
    BY <2>3, <2>5 DEF CallOf
  <2> QED BY <1>0, <2>1, <2>2, <2>3, <2>5, <2>6, <2>7, <2>8, <2>9, IdleMoves DEF Idle
<1>2. ASSUME ClaimOk(t)
      PROVE  IInv'
  <2>1. /\ th'[t] = [th[t] EXCEPT !.pc = "body"]
        /\ \A u \in Threads \ {t} : th'[u] = th[u]
    BY <1>2, <1>a DEF ClaimOk
  <2>2. /\ owner = None /\ owner' = t
        /\ UNCHANGED <<link, chain, dev, partial, server, crashed>>
    BY <1>2 DEF ClaimOk, LinkFree
  <2>3. th[t].pc = "claim" /\ th[t] \in Thread
    BY <1>2, <1>a DEF ClaimOk
  <2>4. /\ th'[t].pc = "body" /\ th'[t].op = th[t].op
        /\ th'[t].obj = th[t].obj /\ th'[t].has = th[t].has
    BY <2>1, <2>3 DEF Thread
  <2>5. CallOf(th[t].op, th[t].obj) /\ th[t].has = None
    BY <2>3, NothingIsLost
  <2>6. \A x \in Objects : Locked(x)' <=> th'[t].has = x
    BY <2>2, <2>4, OwnerAlone DEF Locked
  <2>7. Steady(t)' /\ ClaimedByUser(t)'
    BY <2>2, <2>4, <2>5 DEF Steady, ClaimedByUser, CallOf
  <2>8. NothingLost' /\ PackedLocked'
    BY <2>2 DEF IInv, NothingLost, PackedLocked
  <2>9. \A u \in Threads \ {t} : CallOf(th[u].op, th[u].obj) => CallOf(th[u].op, th[u].obj)'
    BY <2>1, <2>2 DEF CallOf
  <2>10. \A u \in Threads \ {t} :
           /\ th[u].op = "close" => th[u].obj \notin {th'[t].obj, th'[t].has}
           /\ th'[t].op = "close" => th'[t].obj \notin {th[u].obj, th[u].has}
    BY <2>4 DEF IInv, ClosedAlone
  <2> QED BY <1>0, <2>1, <2>2, <2>6, <2>7, <2>8, <2>9, <2>10, OwnerMoves
<1>3. ASSUME ClaimTimeout(t)
      PROVE  IInv'
  <2>1. /\ th'[t] = Idle(None)
        /\ \A u \in Threads \ {t} : th'[u] = th[u]
    BY <1>3, <1>a DEF ClaimTimeout, Return
  <2>2. /\ UNCHANGED <<owner, link, chain, partial, server, crashed>>
        /\ th[t].pc = "claim"
    BY <1>3 DEF ClaimTimeout
  <2>3. CallOf(th[t].op, th[t].obj) /\ th[t].has = None
    BY <2>2, NothingIsLost
  <2>4. ~(th[t].op = "close" /\ Locked(th[t].obj))
    BY <2>3, NamesDistinct DEF IInv, ClosedAlone, LockedIsHad, CallOf, Objects
  <2>5. \A o \in Opens : \/ dev'[o] = dev[o]
                         \/ ~dev[o].locked /\ dev'[o] = NoDevice
                            /\ th[t].op = "close" /\ th[t].obj = o
    BY <1>3, <1>a, <2>3, <2>4, NamesDistinct DEF ClaimTimeout, CallOf, Locked, Objects
  <2>6. NothingLost'
    BY <2>2, <2>5 DEF IInv, NothingLost, NoDevice, NewDevice
  <2>7. \A u \in Threads \ {t} : CallOf(th[u].op, th[u].obj) => CallOf(th[u].op, th[u].obj)'
    BY <2>1, <2>5 DEF CallOf, IInv, ClosedAlone
  <2>8. \A u \in Threads \ {t} :
           /\ th[u].op = "close" => th[u].obj \notin {th'[t].obj, th'[t].has}
           /\ th'[t].op = "close" => th'[t].obj \notin {th[u].obj, th[u].has}
    <3>1. \A u \in Threads : th[u].op = "close" => th[u].obj \in Opens
      BY NothingIsLost
    <3> QED BY <2>1, <3>1, NamesDistinct DEF Idle, Objects
  <2>9. Steady(t)' /\ th'[t].has = None /\ th'[t].pc # "body"
    BY <2>1 DEF Steady, Idle
  <2> QED BY <1>0, <2>1, <2>2, <2>3, <2>5, <2>6, <2>7, <2>8, <2>9, IdleMoves
<1> QED BY <1>1, <1>2, <1>3

\* A thread that returns from a call with x, or with nothing.
LEMMA Returns ==
    ASSUME IInv, NEW t \in Threads, NEW x \in Objects \cup {None}, Return(t, x)
    PROVE  /\ th'[t] = Idle(x)
           /\ th'[t].has = x /\ th'[t].pc = "idle" /\ th'[t].op = "none"
           /\ th'[t].obj = None
           /\ \A u \in Threads \ {t} : th'[u] = th[u]
           /\ Steady(t)'
<1>1. th'[t] = Idle(x) /\ \A u \in Threads \ {t} : th'[u] = th[u]
  BY DEF Return, IInv, TypeOK
<1>2. /\ th'[t].has = x /\ th'[t].pc = "idle" /\ th'[t].op = "none"
      /\ th'[t].obj = None
  BY <1>1 DEF Idle
<1> QED BY <1>1, <1>2 DEF Steady

\* A step that returns with x, and locks x and nothing else.
LEMMA SessionGoesTo ==
    ASSUME IInv, LinkLoss = FALSE, NEW t \in Threads, owner \in {None, t},
           NEW x \in Objects \cup {None}, Return(t, x),
           TypeOK', NothingLost', PackedLocked',
           owner' = IF x = None THEN None ELSE t,
           \A y \in Objects : Locked(y)' <=> y = x,
           \A u \in Threads \ {t} : CallOf(th[u].op, th[u].obj) => CallOf(th[u].op, th[u].obj)',
           \A u \in Threads \ {t} : th[u].op = "close" => th[u].obj # x
    PROVE  IInv'
<1>1. \A u \in Threads \ {t} :
        /\ th[u].op = "close" => th[u].obj \notin {th'[t].obj, th'[t].has}
        /\ th'[t].op # "close"
  <2>1. th'[t].obj = None /\ th'[t].has = x /\ th'[t].op = "none"
    BY Returns
  <2>2. \A u \in Threads : th[u].op = "close" => th[u].obj # None
    BY NothingIsLost, NamesDistinct DEF Objects
  <2> QED BY <2>1, <2>2
<1>2. ClaimedByUser(t)'
  BY Returns, NamesDistinct DEF ClaimedByUser
<1> QED BY <1>1, <1>2, Returns, OwnerMoves

\* The bodies of the calls that claim the link.
LEMMA BodyKeeps ==
    ASSUME IInv, LinkLoss = FALSE, NEW t \in Threads,
           \/ BodyCrash(t) \/ LockDeferred(t) \/ LockImmediate(t) \/ LinkLostCrash(t)
           \/ LockChainGranted(t) \/ ExchangeAndRelease(t) \/ ExchangeLost(t)
           \/ RefreshBody(t) \/ CloseUnclaimed(t) \/ ReleaseAgain(t)
    PROVE  IInv'
<1>0. TypeOK'
  BY BodyTyped DEF IInv
<1>a. /\ th[t].pc = "body" /\ owner = t /\ th[t].has = None /\ ~LinkFails
      /\ CallOf(th[t].op, th[t].obj)
  BY NothingIsLost
     DEF BodyCrash, LockDeferred, LockImmediate, LinkLostCrash, LockChainGranted,
         ExchangeAndRelease, ExchangeLost, RefreshBody, CloseUnclaimed, ReleaseAgain, Body
<1>b. /\ partial = None
      /\ \A x \in Objects : ~Locked(x)
      /\ \A p \in Opens : ~dev[p].locked /\ dev[p].queued = {}
      /\ ~chain.locked
  <2>1. partial = None /\ \A x \in Objects : ~Locked(x)
    BY <1>a, OwnerAlone, NamesDistinct
  <2>2. \A p \in Opens : dev[p].queued = {}
    BY <1>a, OwnerAlone, NamesDistinct DEF Objects
  <2> QED BY <2>1, <2>2, NamesDistinct DEF Locked, Objects
<1>c. \A u \in Threads \ {t} : th[u].op = "close" => th[u].obj # th[t].obj
  BY NothingIsLost, <1>a, NamesDistinct DEF IInv, ClosedAlone
<1>1. ASSUME NEW o \in Opens, o = th[t].obj, LockDeferred(t)
      PROVE  IInv'
  <2>1. /\ Return(t, o) /\ UNCHANGED <<owner, link, chain, crashed>>
        /\ dev' = [dev EXCEPT ![o].locked = TRUE, ![o].pack = "auto",
                              ![o].queued = @ \cup {"LOCK"}]
    BY <1>1 DEF LockDeferred
  <2>2. \A p \in Opens : /\ dev'[p].state = dev[p].state
                         /\ dev'[p].error = dev[p].error
                         /\ dev'[p].locked = (p = o)
                         /\ p # o => dev'[p].queued = {}
    <3>1. dev \in [Opens -> Device]
      BY DEF IInv, TypeOK
    <3> QED BY <1>b, <2>1, <3>1 DEF Device
  <2>3. partial' = o /\ dev[o].state = "open"
    BY <1>1 DEF LockDeferred, Body
  <2>4. NothingLost'
    BY <2>1, <2>2 DEF IInv, NothingLost
  <2>5. PackedLocked'
    BY <2>1, <2>2, <2>3 DEF PackedLocked
  <2>6. \A y \in Objects : Locked(y)' <=> y = o
    BY <1>b, <2>1, <2>2, NamesDistinct DEF Locked, Objects
  <2>8. o \in Objects /\ o # None
    BY NamesDistinct DEF Objects
  <2>7. \A u \in Threads \ {t} : CallOf(th[u].op, th[u].obj) => CallOf(th[u].op, th[u].obj)'
    <3>1. \A u \in Threads \ {t} : th'[u] = th[u]
      BY <2>1, <2>8, Returns
    <3> QED BY <2>2, <3>1 DEF CallOf
  <2>9. owner' = IF o = None THEN None ELSE t
    BY <1>a, <2>1, <2>8
  <2>10. \A u \in Threads \ {t} : th[u].op = "close" => th[u].obj # o
    BY <1>c, <1>1
  <2>11. o \in Objects \cup {None} /\ owner \in {None, t} /\ Return(t, o)
    BY <1>a, <2>1, <2>8
  <2> QED BY <1>0, <2>4, <2>5, <2>6, <2>7, <2>9, <2>10, <2>11, SessionGoesTo
<1>2. ASSUME NEW o \in Opens, o = th[t].obj, LockImmediate(t)
      PROVE  IInv'
  <2>1. /\ Return(t, o) /\ UNCHANGED <<owner, link, chain, crashed>>
        /\ dev' = [dev EXCEPT ![o].locked = TRUE, ![o].pack = "never"]
    BY <1>2, <1>a DEF LockImmediate, LinkFails
  <2>2. \A p \in Opens : /\ dev'[p].state = dev[p].state
                         /\ dev'[p].error = dev[p].error
                         /\ dev'[p].locked = (p = o)
                         /\ dev'[p].queued = {}
    <3>1. dev \in [Opens -> Device]
      BY DEF IInv, TypeOK
    <3> QED BY <1>b, <2>1, <3>1 DEF Device
  <2>3. partial' = None /\ dev[o].state = "open"
    BY <1>2 DEF LockImmediate, Body
  <2>4. NothingLost'
    BY <2>1, <2>2 DEF IInv, NothingLost
  <2>5. PackedLocked'
    BY <2>1, <2>2, <2>3 DEF PackedLocked
  <2>6. \A y \in Objects : Locked(y)' <=> y = o
    BY <1>b, <2>1, <2>2, NamesDistinct DEF Locked, Objects
  <2>8. o \in Objects /\ o # None
    BY NamesDistinct DEF Objects
  <2>7. \A u \in Threads \ {t} : CallOf(th[u].op, th[u].obj) => CallOf(th[u].op, th[u].obj)'
    <3>1. \A u \in Threads \ {t} : th'[u] = th[u]
      BY <2>1, <2>8, Returns
    <3> QED BY <2>2, <3>1 DEF CallOf
  <2>9. owner' = IF o = None THEN None ELSE t
    BY <1>a, <2>1, <2>8
  <2>10. \A u \in Threads \ {t} : th[u].op = "close" => th[u].obj # o
    BY <1>c, <1>2
  <2>11. o \in Objects \cup {None} /\ owner \in {None, t} /\ Return(t, o)
    BY <1>a, <2>1, <2>8
  <2> QED BY <1>0, <2>4, <2>5, <2>6, <2>7, <2>9, <2>10, <2>11, SessionGoesTo
<1>3. ASSUME LockChainGranted(t)
      PROVE  IInv'
  <2>1. /\ Return(t, Chain) /\ UNCHANGED <<owner, link, dev, partial, crashed>>
        /\ chain' = [chain EXCEPT !.locked = TRUE]
    BY <1>3 DEF LockChainGranted
  <2>2. chain'.locked /\ chain'.valid
    BY <2>1 DEF IInv, TypeOK, NothingLost
  <2>3. NothingLost' /\ PackedLocked'
    BY <2>1, <2>2 DEF IInv, NothingLost, PackedLocked
  <2>4. \A y \in Objects : Locked(y)' <=> y = Chain
    BY <1>b, <2>1, <2>2, NamesDistinct DEF Locked, Objects
  <2>5. \A u \in Threads \ {t} : CallOf(th[u].op, th[u].obj) => CallOf(th[u].op, th[u].obj)'
    BY <2>1, Returns DEF CallOf, Objects
  <2>6. \A u \in Threads \ {t} : th[u].op = "close" => th[u].obj # Chain
    BY NothingIsLost, NamesDistinct
  <2> QED BY <1>0, <1>a, <2>1, <2>3, <2>4, <2>5, <2>6, NamesDistinct, SessionGoesTo DEF Objects
<1>4. ASSUME ExchangeAndRelease(t)
      PROVE  IInv'
  <2>1. /\ Return(t, None) /\ UNCHANGED <<link, chain, partial, crashed>>
        /\ owner' = None
    BY <1>4 DEF ExchangeAndRelease, ReleaseLink
  <2>2. \A p \in Opens : \/ dev'[p] = dev[p]
                         \/ dev'[p] = NoDevice /\ p = th[t].obj /\ th[t].op = "close"
    BY <1>4 DEF ExchangeAndRelease, Body, IInv, TypeOK
  <2>3. \A p \in Opens : ~dev'[p].locked /\ dev'[p].queued = {}
    BY <1>b, <2>2 DEF NoDevice, NewDevice
  <2>4. NothingLost'
    BY <2>1, <2>2 DEF IInv, NothingLost, NoDevice, NewDevice
  <2>5. PackedLocked'
    BY <1>b, <2>1, <2>3 DEF PackedLocked
  <2>6. \A y \in Objects : ~Locked(y)'
    BY <1>b, <2>1, <2>3, NamesDistinct DEF Locked, Objects
  <2>7. \A u \in Threads \ {t} : CallOf(th[u].op, th[u].obj) => CallOf(th[u].op, th[u].obj)'
    BY <2>1, <2>2, Returns DEF CallOf, IInv, ClosedAlone
  <2>8. \A u \in Threads \ {t} : th[u].op = "close" => th[u].obj # None
    BY NothingIsLost, NamesDistinct DEF Objects
  <2> QED BY <1>0, <1>a, <2>1, <2>4, <2>5, <2>6, <2>7, <2>8, NamesDistinct, SessionGoesTo
<1>5. ASSUME RefreshBody(t)
      PROVE  IInv'
  <2>1. /\ Return(t, None) /\ UNCHANGED <<dev, partial, crashed>>
        /\ owner' = None /\ link' = "up"
        /\ chain' = [chain EXCEPT !.valid = TRUE]
    BY <1>5, <1>a DEF RefreshBody, ReleaseLink
  <2>2. chain'.valid /\ ~chain'.locked
    BY <1>b, <2>1 DEF IInv, TypeOK
  <2>3. NothingLost' /\ PackedLocked'
    BY <2>1, <2>2 DEF IInv, NothingLost, PackedLocked
  <2>4. \A y \in Objects : ~Locked(y)'
    BY <1>b, <2>1, <2>2, NamesDistinct DEF Locked, Objects
  <2>5. \A u \in Threads \ {t} : CallOf(th[u].op, th[u].obj) => CallOf(th[u].op, th[u].obj)'
    BY <2>1, Returns DEF CallOf
  <2>6. \A u \in Threads \ {t} : th[u].op = "close" => th[u].obj # None
    BY NothingIsLost, NamesDistinct DEF Objects
  <2> QED BY <1>0, <1>a, <2>1, <2>3, <2>4, <2>5, <2>6, NamesDistinct, SessionGoesTo
<1>6. ~BodyCrash(t)
  BY <1>a, <1>b, NamesDistinct DEF BodyCrash, CallOf, Objects
<1>7. /\ ~LinkLostCrash(t) /\ ~ExchangeLost(t)
      /\ ~CloseUnclaimed(t) /\ ~ReleaseAgain(t)
  BY <1>a DEF LinkLostCrash, ExchangeLost, CloseUnclaimed, ReleaseAgain
<1>8. LockDeferred(t) \/ LockImmediate(t) => th[t].obj \in Opens
  BY DEF LockDeferred, LockImmediate
<1> QED BY <1>1, <1>2, <1>3, <1>4, <1>5, <1>6, <1>7, <1>8

\* The thread that calls on the device it has locked owns the link, and nothing
\* else is locked, packed or being closed.
LEMMA DeviceAlone ==
    ASSUME IInv, LinkLoss = FALSE, NEW t \in Threads, NEW o \in Opens, th[t] = Idle(o)
    PROVE  /\ owner = t
           /\ o \in Objects /\ o # None /\ o # Chain
           /\ dev[o].locked /\ dev[o].state = "open" /\ ~dev[o].error
           /\ ~chain.locked
           /\ \A p \in Opens \ {o} : ~dev[p].locked /\ dev[p].queued = {}
           /\ \A u \in Threads \ {t} : th[u].op = "close" => th[u].obj # o
<1>1. o \in Objects /\ o # None /\ o # Chain
  BY NamesDistinct DEF Objects
<1>2. th[t].has = o
  BY DEF Idle
<1>3. owner = t
  BY <1>1, <1>2 DEF IInv, ClaimedByUser
<1>4. \A x \in Objects : Locked(x) <=> x = o
  BY <1>2, <1>3, OwnerAlone
<1>5. \A p \in Opens : (dev[p].locked <=> p = o) /\ (p # o => dev[p].queued = {})
  <2>1. \A p \in Opens : dev[p].queued # {} => p = o
    BY <1>2, <1>3, OwnerAlone
  <2>2. \A p \in Opens : p \in Objects /\ Locked(p) = dev[p].locked
    BY NamesDistinct DEF Objects, Locked
  <2> QED BY <1>4, <2>1, <2>2
<1>6. ~chain.locked
  BY <1>1, <1>4 DEF Locked, Objects
<1>7. \A u \in Threads \ {t} : th[u].op = "close" => th[u].obj # o
  BY <1>2 DEF IInv, ClosedAlone
<1> QED BY <1>1, <1>3, <1>5, <1>6, <1>7 DEF IInv, PackedLocked, NothingLost

\* The fields of the device that was sent, or unlocked.
LEMMA SentFields ==
    ASSUME TypeOK, NEW o \in Opens
    PROVE  /\ \A p \in Opens \ {o} : SentDev(o)[p] = dev[p] /\ UnlockedDev(o)[p] = dev[p]
           /\ SentDev(o)[o].queued = {} /\ UnlockedDev(o)[o].queued = {}
           /\ SentDev(o)[o].locked = dev[o].locked /\ ~UnlockedDev(o)[o].locked
           /\ SentDev(o)[o].state = dev[o].state /\ UnlockedDev(o)[o].state = dev[o].state
           /\ SentDev(o)[o].error = dev[o].error /\ UnlockedDev(o)[o].error = dev[o].error
BY DEF TypeOK, Device, SentDev, UnlockedDev

\* A step that leaves the states of the devices alone leaves calls on them whole.
LEMMA CallsKept ==
    ASSUME NEW t \in Threads, \A u \in Threads \ {t} : th'[u] = th[u],
           \A p \in Opens : dev'[p].state = dev[p].state
    PROVE  \A u \in Threads \ {t} : CallOf(th[u].op, th[u].obj) => CallOf(th[u].op, th[u].obj)'
BY DEF CallOf

\* The end of a session on a device, on whatever path.
LEMMA UnlockedKeeps ==
    ASSUME IInv, LinkLoss = FALSE, NEW t \in Threads, NEW o \in Opens, th[t] = Idle(o),
           dev' = UnlockedDev(o), partial' = None, ReleaseLink,
           UNCHANGED <<link, chain, crashed>>, Return(t, None), TypeOK'
    PROVE  IInv'
<1>1. \A p \in Opens : /\ ~dev'[p].locked /\ dev'[p].queued = {}
                       /\ dev'[p].state = dev[p].state /\ dev'[p].error = dev[p].error
  <2> SUFFICES ASSUME NEW p \in Opens
               PROVE  /\ ~dev'[p].locked /\ dev'[p].queued = {}
                      /\ dev'[p].state = dev[p].state /\ dev'[p].error = dev[p].error
    OBVIOUS
  <2>1. TypeOK
    BY DEF IInv
  <2>2. CASE p = o
    BY <2>1, <2>2, SentFields
  <2>3. CASE p # o
    <3>1. dev'[p] = dev[p]
      BY <2>1, <2>3, SentFields
    <3>2. ~dev[p].locked /\ dev[p].queued = {}
      BY <2>3, DeviceAlone
    <3> QED BY <3>1, <3>2
  <2> QED BY <2>2, <2>3
<1>2. ~chain'.locked
  BY DeviceAlone
<1>3. NothingLost'
  BY <1>1 DEF IInv, NothingLost
<1>4. PackedLocked'
  BY <1>1 DEF PackedLocked
<1>5. \A y \in Objects : ~Locked(y)'
  BY <1>1, <1>2 DEF Locked, Objects
<1>6. \A u \in Threads \ {t} : CallOf(th[u].op, th[u].obj) => CallOf(th[u].op, th[u].obj)'
  <2>1. \A u \in Threads \ {t} : th'[u] = th[u]
    BY Returns
  <2> QED BY <1>1, <2>1, CallsKept
<1>7. \A u \in Threads \ {t} : th[u].op = "close" => th[u].obj # None
  BY NothingIsLost, NamesDistinct DEF Objects
<1>8. owner \in {None, t} /\ owner' = None
  BY DeviceAlone DEF ReleaseLink
<1> QED BY <1>3, <1>4, <1>5, <1>6, <1>7, <1>8, NamesDistinct, SessionGoesTo

\* unlock, and the failing ends of unlock_lock.
LEMMA UnlockKeeps ==
    ASSUME IInv, LinkLoss = FALSE, NEW t \in Threads, NEW o \in Opens, NEW op \in AllCalls,
           \/ UnlockDone(t, op, o) /\ Return(t, None)
           \/ FailedUnlock(t, op, o)
           \/ UnlockPending(t, op, o)
    PROVE  IInv'
<1>1. th[t] = Idle(o) /\ ~LinkFails
  BY NothingIsLost
     DEF UnlockDone, AllDone, FailedUnlock, LockRefused, CommandRefused, LinkLost, Sends,
         UnlockPending, OnDevice
<1>2. ~UnlockPending(t, op, o)
  BY <1>1, DeviceAlone DEF UnlockPending
<1>3. CASE UnlockDone(t, op, o) /\ Return(t, None)
  <2>1. StateTyped'
    BY <1>3, SentTyped DEF IInv
  <2>2. TypeOK'
    BY <1>3, <2>1, ThreadsTyped, StateAndThreads DEF IInv
  <2> QED BY <1>1, <1>3, <2>2, UnlockedKeeps DEF UnlockDone, AllDone, Sends
<1>4. CASE FailedUnlock(t, op, o)
  <2>1. TypeOK'
    BY <1>4, FailedUnlockTyped DEF IInv
  <2> QED BY <1>1, <1>4, <2>1, UnlockedKeeps
          DEF FailedUnlock, LockRefused, CommandRefused, LinkLost, Sends
<1> QED BY <1>2, <1>3, <1>4

\* A step within a session: the same thread goes on having the same lock.
LEMMA SessionStays ==
    ASSUME IInv, TypeOK', NothingLost', PackedLocked', UNCHANGED <<owner, th>>,
           \A x \in Objects : Locked(x)' <=> Locked(x),
           \A o \in Opens : dev[o].state = "open" => dev'[o].state = "open"
    PROVE  IInv'
<1>1. \A u \in Threads : Steady(u)' /\ ClaimedByUser(u)'
  BY DEF IInv, Steady, ClaimedByUser, CallOf, Idle
<1>2. ClosedAlone'
  BY DEF IInv, ClosedAlone
<1>3. HasIsLocked' /\ LockedIsHad'
  <2>1. \A u \in Threads : th[u].has \in Objects \cup {None}
    BY DEF IInv, TypeOK, Thread
  <2> QED BY <2>1 DEF IInv, HasIsLocked, LockedIsHad
<1> QED BY <1>1, <1>2, <1>3 DEF IInv

\* Commands on a locked device, packed or sent.
LEMMA CommandKeeps ==
    ASSUME IInv, LinkLoss = FALSE, NEW t \in Threads, NEW o \in Opens,
           Defer(t, o) \/ Exec(t, o)
    PROVE  IInv'
<1>0. TypeOK'
  BY UsingTyped DEF IInv
<1>a. th[t] = Idle(o) /\ ~LinkFails
  BY NothingIsLost
     DEF Defer, Exec, AllDone, LockRefused, CommandRefused, LinkLost, Sends, OnDevice
<1>b. TypeOK
  BY DEF IInv
<1>1. CASE Defer(t, o)
  <2>1. \A p \in Opens : /\ dev'[p].state = dev[p].state /\ dev'[p].error = dev[p].error
                         /\ dev'[p].locked = dev[p].locked
                         /\ p # o => dev'[p].queued = dev[p].queued
    <3>1. dev' = [dev EXCEPT ![o].queued = @ \cup {"CMD"}] /\ dev \in [Opens -> Device]
      BY <1>1, <1>b DEF Defer, TypeOK
    <3> QED BY <3>1 DEF Device
  <2>2. partial' = o /\ UNCHANGED <<owner, link, chain, crashed, th>>
    BY <1>1 DEF Defer
  <2>3. NothingLost'
    BY <2>1, <2>2 DEF IInv, NothingLost
  <2>4. dev[o].locked /\ \A p \in Opens \ {o} : dev[p].queued = {}
    BY <1>a, DeviceAlone
  <2>5. PackedLocked'
    BY <2>1, <2>2, <2>4 DEF IInv, PackedLocked
  <2>6. \A x \in Objects : Locked(x)' <=> Locked(x)
    BY <2>1, <2>2 DEF Locked, Objects
  <2> QED BY <1>0, <2>1, <2>2, <2>3, <2>5, <2>6, SessionStays
<1>2. CASE /\ AllDone(t, "command", o) \/ CommandRefused(t, "command", o)
           /\ dev' = SentDev(o) /\ UNCHANGED <<owner, chain, th>>
  <2>1. partial' = None /\ UNCHANGED <<link, crashed>>
    BY <1>2 DEF AllDone, CommandRefused, Sends
  <2>2. \A p \in Opens : /\ dev'[p].state = dev[p].state /\ dev'[p].error = dev[p].error
                         /\ dev'[p].locked = dev[p].locked
                         /\ dev'[p].queued = {}
    <3> SUFFICES ASSUME NEW p \in Opens
                 PROVE  /\ dev'[p].state = dev[p].state /\ dev'[p].error = dev[p].error
                        /\ dev'[p].locked = dev[p].locked /\ dev'[p].queued = {}
      OBVIOUS
    <3>1. CASE p = o
      BY <1>2, <1>b, <3>1, SentFields
    <3>2. CASE p # o
      <4>1. dev'[p] = dev[p]
        BY <1>2, <1>b, <3>2, SentFields
      <4>2. dev[p].queued = {}
        BY <1>a, <3>2, DeviceAlone
      <4> QED BY <4>1, <4>2
    <3> QED BY <3>1, <3>2
  <2>3. NothingLost'
    BY <1>2, <2>1, <2>2 DEF IInv, NothingLost
  <2>4. PackedLocked'
    BY <2>1, <2>2 DEF IInv, PackedLocked
  <2>5. \A x \in Objects : Locked(x)' <=> Locked(x)
    BY <1>2, <2>2 DEF Locked, Objects
  <2> QED BY <1>0, <1>2, <2>1, <2>2, <2>3, <2>4, <2>5, SessionStays
<1>3. CASE LockRefused(t, "command", o) /\ Return(t, None)
  BY <1>0, <1>a, <1>3, UnlockedKeeps DEF LockRefused, Sends
<1>4. ~LinkLost(t, "command", o, SentDev(o))
  BY <1>a DEF LinkLost
<1>5. CommandRefused(t, "command", o) => UNCHANGED chain
  BY DEF CommandRefused
<1> QED BY <1>1, <1>2, <1>3, <1>4, <1>5 DEF Exec

\* unlock_lock: the lock goes to another device.
LEMMA UnlockLockKeeps ==
    ASSUME IInv, LinkLoss = FALSE, NEW t \in Threads, NEW o \in Opens, NEW o2 \in Opens,
           UnlockLock(t, o, o2)
    PROVE  IInv'
<1>0. TypeOK'
  BY HandOverTyped DEF IInv
<1>1. CASE FailedUnlock(t, "unlock_lock", o)
  BY <1>1, UnlockKeeps DEF AllCalls
<1>2. CASE /\ AllDone(t, "unlock_lock", o)
           /\ dev' = [UnlockedDev(o) EXCEPT ![o2].locked = TRUE, ![o2].pack = dev[o].pack]
           /\ Return(t, o2)
           /\ UNCHANGED <<owner, chain>>
  <2>0. th[t] = Idle(o) /\ partial' = None /\ UNCHANGED <<link, crashed>>
    BY <1>2 DEF AllDone, Sends, OnDevice
  <2>1. /\ dev[o2].state = "open" /\ o2 # o
        /\ \A u \in Threads : th[u].op = "close" => th[u].obj # o2
    BY <1>2 DEF UnlockLock, Usable, BeingClosed, AllDone, Sends, OnDevice
  <2>2. UnlockedDev(o) \in [Opens -> Device] /\ TypeOK
    BY DevicesTyped DEF IInv
  <2>3. \A p \in Opens : /\ dev'[p].state = UnlockedDev(o)[p].state
                         /\ dev'[p].error = UnlockedDev(o)[p].error
                         /\ dev'[p].queued = UnlockedDev(o)[p].queued
                         /\ p # o2 => dev'[p].locked = UnlockedDev(o)[p].locked
                         /\ dev'[o2].locked
    <3> DEFINE d == UnlockedDev(o)
    <3>1. d \in [Opens -> Device]
      BY <2>2
    <3>2. dev' = [d EXCEPT ![o2].locked = TRUE, ![o2].pack = dev[o].pack]
      BY <1>2
    <3> HIDE DEF d
    <3>3. \A p \in Opens : /\ dev'[p].state = d[p].state
                           /\ dev'[p].error = d[p].error
                           /\ dev'[p].queued = d[p].queued
                           /\ p # o2 => dev'[p].locked = d[p].locked
                           /\ dev'[o2].locked
      <4>1. \A p \in Opens \ {o2} : dev'[p] = d[p]
        BY <3>1, <3>2
      <4>2. d[o2] \in Device /\ dev'[o2] = [d[o2] EXCEPT !.locked = TRUE, !.pack = dev[o].pack]
        BY <3>1, <3>2
      <4>3. /\ dev'[o2].state = d[o2].state /\ dev'[o2].error = d[o2].error
            /\ dev'[o2].queued = d[o2].queued /\ dev'[o2].locked
        BY <4>2 DEF Device
      <4> QED BY <4>1, <4>3
    <3> QED BY <3>3 DEF d
  <2>4. \A p \in Opens : /\ dev'[p].locked <=> p = o2
                         /\ dev'[p].queued = {}
                         /\ dev'[p].state = dev[p].state /\ dev'[p].error = dev[p].error
    <3> SUFFICES ASSUME NEW p \in Opens
                 PROVE  /\ dev'[p].locked <=> p = o2
                        /\ dev'[p].queued = {}
                        /\ dev'[p].state = dev[p].state /\ dev'[p].error = dev[p].error
      OBVIOUS
    <3>1. CASE p = o
      BY <2>1, <2>2, <2>3, <3>1, SentFields
    <3>2. CASE p # o
      <4>1. UnlockedDev(o)[p] = dev[p]
        BY <2>2, <3>2, SentFields
      <4>2. dev[p].queued = {} /\ ~dev[p].locked
        BY <2>0, <3>2, DeviceAlone
      <4> QED BY <2>3, <4>1, <4>2
    <3> QED BY <3>1, <3>2
  <2>5. owner = t /\ ~chain'.locked
    BY <1>2, <2>0, DeviceAlone
  <2>6. NothingLost'
    BY <1>2, <2>0, <2>4 DEF IInv, NothingLost
  <2>7. PackedLocked'
    BY <2>0, <2>1, <2>4 DEF PackedLocked
  <2>8. o2 \in Objects /\ o2 # None
    BY NamesDistinct DEF Objects
  <2>9. \A y \in Objects : Locked(y)' <=> y = o2
    BY <2>4, <2>5, NamesDistinct DEF Locked, Objects
  <2>10. \A u \in Threads \ {t} : CallOf(th[u].op, th[u].obj) => CallOf(th[u].op, th[u].obj)'
    <3>1. \A u \in Threads \ {t} : th'[u] = th[u]
      BY <1>2, <2>8, Returns
    <3> QED BY <2>4, <3>1, CallsKept
  <2>11. owner' = IF o2 = None THEN None ELSE t
    BY <1>2, <2>5, <2>8
  <2>12. o2 \in Objects \cup {None} /\ owner \in {None, t} /\ Return(t, o2)
    BY <1>2, <2>5, <2>8
  <2> QED BY <1>0, <2>1, <2>6, <2>7, <2>9, <2>10, <2>11, <2>12, SessionGoesTo
<1> QED BY <1>1, <1>2 DEF UnlockLock

\* The thread that has locked the chain owns the link, and no device is locked
\* or has packed commands.
LEMMA ChainAlone ==
    ASSUME IInv, LinkLoss = FALSE, NEW t \in Threads, th[t] = Idle(Chain)
    PROVE  /\ owner = t /\ chain.locked /\ partial = None
           /\ Chain \in Objects /\ Chain # None
           /\ \A p \in Opens : ~dev[p].locked /\ dev[p].queued = {}
<1>1. Chain \in Objects /\ Chain # None
  BY NamesDistinct DEF Objects
<1>2. th[t].has = Chain
  BY DEF Idle
<1>3. owner = t
  BY <1>1, <1>2 DEF IInv, ClaimedByUser
<1>4. \A x \in Objects : Locked(x) <=> x = Chain
  BY <1>2, <1>3, OwnerAlone
<1>5. chain.locked
  BY <1>1, <1>4 DEF Locked
<1>6. \A p \in Opens : ~dev[p].locked
  BY <1>4, NamesDistinct DEF Locked, Objects
<1>7. \A p \in Opens : dev[p].queued = {}
  BY <1>2, <1>3, OwnerAlone, NamesDistinct
<1>8. partial = None
  BY <1>6 DEF IInv, PackedLocked, TypeOK
<1> QED BY <1>1, <1>3, <1>5, <1>6, <1>7, <1>8

\* unlock_chain, however it ends.
LEMMA UnlockChainKeeps ==
    ASSUME IInv, LinkLoss = FALSE, NEW t \in Threads, NEW op \in AllCalls,
           \/ UnlockChainDone(t, op) /\ Return(t, None) /\ UNCHANGED dev
           \/ UnlockChainFailed(t, op),
           TypeOK'
    PROVE  IInv'
<1>1. th[t] = Idle(Chain) /\ ~LinkFails /\ partial' = None
  BY NothingIsLost DEF UnlockChainDone, UnlockChainFailed, OnChain
<1>2. /\ Return(t, None) /\ owner' = None /\ UNCHANGED <<link, dev, crashed>>
      /\ chain' = [chain EXCEPT !.locked = FALSE]
  BY <1>1 DEF UnlockChainDone, UnlockChainFailed, ReleaseLink
<1>3. ~chain'.locked /\ chain'.valid
  BY <1>2 DEF IInv, TypeOK, NothingLost
<1>4. NothingLost' /\ PackedLocked'
  BY <1>1, <1>2, <1>3, ChainAlone DEF IInv, NothingLost, PackedLocked
<1>5. \A y \in Objects : ~Locked(y)'
  BY <1>1, <1>2, <1>3, ChainAlone DEF Locked, Objects
<1>6. \A u \in Threads \ {t} : CallOf(th[u].op, th[u].obj) => CallOf(th[u].op, th[u].obj)'
  <2>1. \A u \in Threads \ {t} : th'[u] = th[u]
    BY <1>2, Returns
  <2> QED BY <1>2, <2>1, CallsKept
<1>7. \A u \in Threads \ {t} : th[u].op = "close" => th[u].obj # None
  BY NothingIsLost, NamesDistinct DEF Objects
<1>8. owner \in {None, t}
  BY <1>1, ChainAlone
<1> QED BY <1>2, <1>4, <1>5, <1>6, <1>7, <1>8, NamesDistinct, SessionGoesTo

\* unlock_chain_lock: the lock goes from the chain to a device, at once, or with
\* an older server in two calls.
LEMMA UnlockChainLockKeeps ==
    ASSUME IInv, LinkLoss = FALSE, NEW t \in Threads, NEW o \in Opens,
           UnlockChainLock(t, o)
    PROVE  IInv'
<1>0. TypeOK'
  BY ChainTyped DEF IInv
<1>a. th[t] = Idle(Chain) /\ ~LinkFails /\ partial' = None
  BY NothingIsLost DEF UnlockChainLock, UnlockChainDone, UnlockChainFailed, OnChain
<1>b. /\ dev[o].state = "open" /\ ~dev[o].error
      /\ \A u \in Threads : th[u].op = "close" => th[u].obj # o
  BY DEF UnlockChainLock, Usable, BeingClosed, IInv, NothingLost
<1>c. /\ o \in Objects /\ o # None /\ o # Chain
      /\ dev \in [Opens -> Device]
  BY NamesDistinct DEF Objects, IInv, TypeOK
<1>d. \A u \in Threads \ {t} : th[u].op = "close" => th[u].obj # None
  BY NothingIsLost, NamesDistinct DEF Objects
<1>1. CASE /\ chain' = [chain EXCEPT !.locked = FALSE]
           /\ \E style \in PackStyles :
                 dev' = [dev EXCEPT ![o].locked = TRUE, ![o].pack = style]
           /\ Return(t, o)
           /\ UNCHANGED <<owner, link, crashed>>
  <2>1. PICK style \in PackStyles : dev' = [dev EXCEPT ![o].locked = TRUE, ![o].pack = style]
    BY <1>1
  <2>2. \A p \in Opens : /\ dev'[p].state = dev[p].state /\ dev'[p].error = dev[p].error
                         /\ dev'[p].queued = dev[p].queued
                         /\ p # o => dev'[p].locked = dev[p].locked
                         /\ dev'[o].locked
    BY <1>c, <2>1 DEF Device
  <2>3. ~chain'.locked /\ chain'.valid
    BY <1>1 DEF IInv, TypeOK, NothingLost
  <2>4. \A p \in Opens : (dev'[p].locked <=> p = o) /\ dev'[p].queued = {}
    BY <1>a, <2>2, ChainAlone
  <2>5. NothingLost'
    BY <1>1, <2>2, <2>3 DEF IInv, NothingLost
  <2>6. PackedLocked'
    BY <1>a, <1>b, <2>2, <2>4 DEF PackedLocked
  <2>7. \A y \in Objects : Locked(y)' <=> y = o
    BY <1>c, <2>3, <2>4 DEF Locked, Objects
  <2>8. \A u \in Threads \ {t} : CallOf(th[u].op, th[u].obj) => CallOf(th[u].op, th[u].obj)'
    <3>1. \A u \in Threads \ {t} : th'[u] = th[u]
      BY <1>1, <1>c, Returns
    <3> QED BY <2>2, <3>1, CallsKept
  <2>9. owner = t
    BY <1>a, ChainAlone
  <2>10. owner' = (IF o = None THEN None ELSE t) /\ owner \in {None, t}
    BY <1>1, <1>c, <2>9
  <2>11. o \in Objects \cup {None} /\ Return(t, o)
    BY <1>1, <1>c
  <2> QED BY <1>0, <1>b, <2>5, <2>6, <2>7, <2>8, <2>10, <2>11, SessionGoesTo
<1>2. CASE UnlockChainFailed(t, "unlock_chain_lock")
  <2>1. "unlock_chain_lock" \in AllCalls
    BY DEF AllCalls
  <2> QED BY <1>0, <1>2, <2>1, UnlockChainKeeps
<1>3. CASE /\ UnlockChainDone(t, "unlock_chain_lock")
           /\ dev' = [dev EXCEPT ![o].error = FALSE]
           /\ IF dev[o].error THEN Return(t, None) ELSE GoOn(t, "claim", "lock", o)
  <2>1. /\ owner' = None /\ UNCHANGED <<link, crashed>>
        /\ chain' = [chain EXCEPT !.locked = FALSE]
    BY <1>3 DEF UnlockChainDone, ReleaseLink
  <2>2. /\ th'[t] = [pc |-> "claim", op |-> "lock", obj |-> o, has |-> None]
        /\ \A u \in Threads \ {t} : th'[u] = th[u]
    BY <1>3, <1>b DEF GoOn, IInv, TypeOK
  <2>3. \A p \in Opens : /\ dev'[p].state = dev[p].state /\ dev'[p].error = dev[p].error
                         /\ dev'[p].queued = dev[p].queued
                         /\ dev'[p].locked = dev[p].locked
    BY <1>3, <1>b, <1>c DEF Device
  <2>4. ~chain'.locked /\ chain'.valid
    BY <2>1 DEF IInv, TypeOK, NothingLost
  <2>5. \A p \in Opens : ~dev'[p].locked /\ dev'[p].queued = {}
    BY <1>a, <2>3, ChainAlone
  <2>6. NothingLost'
    BY <2>1, <2>3, <2>4 DEF IInv, NothingLost
  <2>7. PackedLocked'
    BY <1>a, <2>5 DEF PackedLocked
  <2>8. \A u \in Threads \ {t} : CallOf(th[u].op, th[u].obj) => CallOf(th[u].op, th[u].obj)'
    BY <2>2, <2>3, CallsKept
  <2>9. /\ th'[t].has = None /\ th'[t].pc = "claim" /\ th'[t].op = "lock" /\ th'[t].obj = o
    BY <2>2
  <2>10. \A x \in Objects : Locked(x)' <=> th'[t].has = x
    BY <2>4, <2>5, <2>9, NamesDistinct DEF Locked, Objects
  <2>11. Steady(t)' /\ ClaimedByUser(t)'
    BY <1>b, <2>1, <2>3, <2>9, NamesDistinct DEF Steady, ClaimedByUser, CallOf
  <2>12. owner \in {None, t} /\ owner' \in {None, t}
    BY <1>a, <2>1, ChainAlone
  <2>13. \A u \in Threads \ {t} :
           /\ th[u].op = "close" => th[u].obj \notin {th'[t].obj, th'[t].has}
           /\ th'[t].op = "close" => th'[t].obj \notin {th[u].obj, th[u].has}
    BY <1>b, <1>d, <2>9
  <2> QED BY <1>0, <2>2, <2>6, <2>7, <2>8, <2>10, <2>11, <2>12, <2>13, OwnerMoves
<1>4. CASE /\ CommandErrors /\ LinkLoss
  BY <1>4
<1> QED BY <1>a, <1>1, <1>2, <1>3, <1>4 DEF UnlockChainLock

\* Opening a device on the locked chain, and the other clients of the server.
LEMMA OthersKeep ==
    ASSUME IInv, LinkLoss = FALSE,
           \/ \E t \in Threads, o \in Opens : OpenDevice(t, o)
           \/ OtherLocks \/ OtherUnlocks
    PROVE  IInv'
<1>1. ASSUME NEW t \in Threads, NEW o \in Opens, OpenDevice(t, o)
      PROVE  IInv'
  <2>1. TypeOK'
    BY <1>1, UsingTyped DEF IInv
  <2>2. \A p \in Opens : \/ dev'[p] = dev[p]
                         \/ p = o /\ dev'[p] = NewDevice
    BY <1>1 DEF OpenDevice, IInv, TypeOK
  <2>3. /\ UNCHANGED <<owner, link, chain, partial, server, crashed, th>>
        /\ th[t] = Idle(Chain)
    BY <1>1 DEF OpenDevice, OnChain
  <2>4. \A p \in Opens : /\ ~dev'[p].locked /\ dev'[p].queued = {}
                         /\ dev'[p].error = dev[p].error \/ ~dev'[p].error
                         /\ dev'[p].state \in {dev[p].state, "open"}
    <3>1. \A p \in Opens : ~dev[p].locked /\ dev[p].queued = {}
      BY <2>3, ChainAlone
    <3>2. /\ ~NewDevice.locked /\ NewDevice.queued = {} /\ ~NewDevice.error
          /\ NewDevice.state = "open"
      BY DEF NewDevice
    <3> QED BY <2>2, <3>1, <3>2
  <2>5. NothingLost'
    BY <2>3, <2>4 DEF IInv, NothingLost
  <2>6. PackedLocked'
    BY <2>3, <2>4, ChainAlone DEF PackedLocked
  <2>7. \A x \in Objects : Locked(x)' <=> Locked(x)
    BY <2>3, <2>4, ChainAlone DEF Locked, Objects
  <2>8. \A p \in Opens : dev[p].state = "open" => dev'[p].state = "open"
    BY <2>4
  <2> QED BY <2>1, <2>3, <2>5, <2>6, <2>7, <2>8, SessionStays
<1>2. ASSUME OtherLocks \/ OtherUnlocks
      PROVE  IInv'
  <2>1. TypeOK'
    BY <1>2 DEF OtherLocks, OtherUnlocks, IInv, TypeOK
  <2>2. UNCHANGED <<owner, link, chain, dev, partial, crashed, th>>
    BY <1>2 DEF OtherLocks, OtherUnlocks
  <2>3. NothingLost' /\ PackedLocked'
    BY <2>2 DEF IInv, NothingLost, PackedLocked
  <2>4. \A x \in Objects : Locked(x)' <=> Locked(x)
    BY <2>2 DEF Locked
  <2> QED BY <2>1, <2>2, <2>3, <2>4, SessionStays
<1> QED BY <1>1, <1>2

\* The steps that a lost link, a refusal kept for later, or a hand-back need.
LEMMA NeverTaken ==
    ASSUME IInv, NoHandBack, LinkLoss = FALSE, NEW t \in Threads, NEW o \in Opens
    PROVE  /\ ~PendingError(t, o) /\ ~DeadDevice(t, o)
           /\ ~UnlockLockChain(t, o) /\ \A o2 \in Opens : ~CloseOther(t, o, o2)
<1>1. ~PendingError(t, o) /\ ~DeadDevice(t, o)
  BY DEF IInv, NothingLost, PendingError, DeadDevice
<1>2. ASSUME NEW op, OnDevice(t, op, o) PROVE op \in Calls
  BY <1>2 DEF OnDevice
<1>3. ~UnlockLockChain(t, o)
  <2>1. UnlockLockChain(t, o) => OnDevice(t, "unlock_lock_chain", o)
    BY DEF UnlockLockChain, AllDone, LockRefused, CommandRefused, LinkLost, Sends,
           UnlockDone, FailedUnlock, UnlockPending
  <2> QED BY <1>2, <2>1 DEF NoHandBack
<1>4. \A o2 \in Opens : ~CloseOther(t, o, o2)
  BY <1>2 DEF CloseOther, NoHandBack
<1> QED BY <1>1, <1>3, <1>4

\* The steps of a thread whose link was lost under it.
LEMMA NeverLost ==
    ASSUME IInv, LinkLoss = FALSE, NEW t \in Threads
    PROVE  ~ChainLinkLost(t) /\ ~SessionLost(t)
<1>1. ~ChainLinkLost(t)
  BY NothingIsLost DEF ChainLinkLost
<1>2. ~SessionLost(t)
  BY NamesDistinct
     DEF SessionLost, IInv, HasIsLocked, Locked, NothingLost, PackedLocked, TypeOK, Thread, Objects
<1> QED BY <1>1, <1>2

\* IInv is inductive.
LEMMA IInvKept ==
    ASSUME NoHandBack, LinkLoss = FALSE, IInv, [Next]_vars
    PROVE  IInv'
<1>1. CASE UNCHANGED vars
  <2>1. TypeOK'
    BY <1>1 DEF vars, IInv, TypeOK
  <2>2. NothingLost' /\ PackedLocked'
    BY <1>1 DEF vars, IInv, NothingLost, PackedLocked
  <2>3. \A x \in Objects : Locked(x)' <=> Locked(x)
    BY <1>1 DEF vars, Locked
  <2> QED BY <1>1, <2>1, <2>2, <2>3, SessionStays DEF vars
<1>2. ASSUME NEW t \in Threads, Begin(t)
      PROVE  IInv'
  BY <1>2, ClaimingKeeps, NeverTaken DEF Begin
<1>3. ASSUME NEW t \in Threads, Proceed(t)
      PROVE  IInv'
  BY <1>3, ClaimingKeeps, BodyKeeps DEF Proceed
<1>4. ASSUME NEW t \in Threads, EndSession(t)
      PROVE  IInv'
  <2>1. ASSUME NEW o \in Opens, Unlock(t, o)
        PROVE  IInv'
    <3>1. "unlock" \in AllCalls
      BY DEF AllCalls
    <3> QED BY <2>1, <3>1, UnlockKeeps DEF Unlock
  <2>2. CASE UnlockChain(t)
    <3>1. "unlock_chain" \in AllCalls
      BY DEF AllCalls
    <3>2. TypeOK'
      BY <2>2, ChainTyped DEF IInv
    <3> QED BY <2>2, <3>1, <3>2, UnlockChainKeeps DEF UnlockChain
  <2> QED BY <1>4, <2>1, <2>2, NeverLost DEF EndSession
<1>5. ASSUME NEW t \in Threads, UseSession(t)
      PROVE  IInv'
  BY <1>5, NeverLost, NeverTaken, CommandKeeps, OthersKeep, UnlockLockKeeps,
     UnlockChainLockKeeps DEF UseSession
<1>6. CASE OtherLocks \/ OtherUnlocks
  BY <1>6, OthersKeep
<1> QED BY <1>1, <1>2, <1>3, <1>4, <1>5, <1>6 DEF Next

\* A new connection, with nothing locked.
LEMMA IInvFirst == Init => IInv
<1> SUFFICES ASSUME Init PROVE IInv
  OBVIOUS
<1>1. /\ dev \in [Opens -> Device] /\ th \in [Threads -> Thread]
      /\ \A t \in Threads : th[t] = Idle(None)
      /\ \A o \in Opens : dev[o] \in {NewDevice, NoDevice}
  BY PiecesTyped DEF Init
<1>2. \A o \in Opens : ~dev[o].locked /\ ~dev[o].error /\ dev[o].state # "dead"
                       /\ dev[o].queued = {}
  BY <1>1 DEF NewDevice, NoDevice
<1>3. \A t \in Threads : th[t].has = None /\ th[t].pc = "idle" /\ th[t].op = "none"
  BY <1>1 DEF Idle
<1>4. TypeOK
  BY <1>1 DEF Init, TypeOK
<1>5. NothingLost /\ PackedLocked
  BY <1>2 DEF Init, NothingLost, PackedLocked
<1>6. \A t \in Threads : Steady(t) /\ ClaimedByUser(t)
  BY <1>1, <1>3, NamesDistinct DEF Init, Steady, ClaimedByUser, Objects
<1>7. ClosedAlone /\ HasIsLocked /\ LockedIsHad
  BY <1>2, <1>3 DEF Init, ClosedAlone, HasIsLocked, LockedIsHad, Locked, Objects
<1> QED BY <1>4, <1>5, <1>6, <1>7 DEF IInv

\* The inductive invariant holds while no lock is handed back to the chain and
\* the link is not lost, whatever the server refuses.
THEOREM Inductive ==
    ASSUME NoHandBack, LinkLoss = FALSE
    PROVE  Spec => []IInv
<1>1. Init => IInv
  BY IInvFirst
<1>2. IInv /\ [Next]_vars => IInv'
  BY IInvKept
<1> QED BY <1>1, <1>2, PTL DEF Spec

-----------------------------------------------------------------------------
(* What follows.                                                           *)

\* Whoever uses the link has claimed it, and nobody else uses it; the claim is
\* never left behind.
THEOREM Exclusive ==
    ASSUME NoHandBack, LinkLoss = FALSE
    PROVE  Spec => []LinkOwned
<1>1. IInv => LinkOwned
  <2> SUFFICES ASSUME IInv PROVE LinkOwned
    OBVIOUS
  <2>1. ASSUME NEW t \in Threads
        PROVE  /\ UsesLink(t) => owner = t
               /\ owner = t => th[t].pc = "body" \/ Holds(t)
    <3>1. th[t].pc # "close2"
      BY NothingIsLost
    <3> QED BY <3>1 DEF UsesLink, Holds, IInv, ClaimedByUser, HasIsLocked
  <2> QED BY <2>1 DEF LinkOwned, LinkExclusive, UseIsClaimed, ClaimAccounted
<1> QED BY <1>1, Inductive, PTL

\* At most one object is locked, only its commands are packed, and no call goes
\* through an object that is gone.
THEOREM Consistent ==
    ASSUME NoHandBack, LinkLoss = FALSE
    PROVE  Spec => []LocksConsistent
<1>1. IInv => LocksConsistent
  <2> SUFFICES ASSUME IInv PROVE LocksConsistent
    OBVIOUS
  <2>1. OneLocked
    <3> SUFFICES ASSUME NEW x \in Objects, NEW y \in Objects, Locked(x), Locked(y)
                 PROVE  x = y
      BY DEF OneLocked
    <3>1. PICK t \in Threads : th[t].has = x
      BY DEF IInv, LockedIsHad
    <3>2. owner = t
      BY <3>1, NamesDistinct DEF IInv, ClaimedByUser
    <3> QED BY <3>1, <3>2, OwnerAlone
  <2>2. PackedIsPartial
    BY NamesDistinct DEF IInv, PackedLocked, PackedIsPartial, Objects
  <2>3. NoCrash
    BY DEF IInv, NothingLost, NoCrash
  <2> QED BY <2>1, <2>2, <2>3 DEF LocksConsistent
<1> QED BY <1>1, Inductive, PTL

\* A step of a thread moves no other thread, and takes or gives back the link
\* only for itself.
LEMMA ActsAlone ==
    ASSUME IInv, NoHandBack, LinkLoss = FALSE, NEW t \in Threads,
           Begin(t) \/ Proceed(t) \/ EndSession(t) \/ UseSession(t)
    PROVE  /\ \A u \in Threads \ {t} : th'[u] = th[u]
           /\ owner' = owner \/ owner \in {None, t}
<1>0. th \in [Threads -> Thread]
  BY DEF IInv, TypeOK
<1>1. CASE Begin(t)
  BY <1>0, <1>1, NeverTaken DEF Begin, Enter, GoOn
<1>2. ASSUME Proceed(t), th[t].pc = "claim"
      PROVE  /\ \A u \in Threads \ {t} : th'[u] = th[u]
             /\ owner' = owner \/ owner \in {None, t}
  BY <1>0, <1>2
     DEF Proceed, ClaimOk, LinkFree, ClaimTimeout, Return, BodyCrash, LockDeferred, LockImmediate,
         LinkLostCrash, LockChainGranted, ExchangeAndRelease, ExchangeLost, RefreshBody,
         CloseUnclaimed, ReleaseAgain, Body
<1>3. ASSUME Proceed(t), th[t].pc # "claim"
      PROVE  /\ \A u \in Threads \ {t} : th'[u] = th[u]
             /\ owner' = owner \/ owner \in {None, t}
  <2>1. th[t].pc = "body" /\ owner = t
    BY <1>3, NothingIsLost
       DEF Proceed, ClaimOk, ClaimTimeout, BodyCrash, LockDeferred, LockImmediate,
           LinkLostCrash, LockChainGranted, ExchangeAndRelease, ExchangeLost, RefreshBody,
           CloseUnclaimed, ReleaseAgain, Body
  <2>2. th' = th \/ \E x : Return(t, x)
    BY <1>3, <2>1
       DEF Proceed, ClaimOk, ClaimTimeout, BodyCrash, LockDeferred, LockImmediate,
           LinkLostCrash, LockChainGranted, ExchangeAndRelease, ExchangeLost, RefreshBody,
           CloseUnclaimed, ReleaseAgain, Crash
  <2> QED BY <1>0, <2>1, <2>2 DEF Return
<1>4. CASE EndSession(t)
  <2>1. \/ \E o \in Opens : th[t] = Idle(o)
        \/ th[t] = Idle(Chain)
    BY <1>4, NeverLost
       DEF EndSession, Unlock, UnlockDone, AllDone, FailedUnlock, LockRefused, CommandRefused,
           LinkLost, Sends, UnlockPending, OnDevice, UnlockChain, UnlockChainDone,
           UnlockChainFailed, OnChain
  <2>2. owner = t
    BY <2>1, DeviceAlone, ChainAlone
  <2>3. \E x : Return(t, x)
    BY <1>4, NeverLost, NothingIsLost
       DEF EndSession, Unlock, FailedUnlock, UnlockPending, UnlockChain, UnlockChainFailed
  <2> QED BY <1>0, <2>2, <2>3 DEF Return
<1>5. CASE UseSession(t)
  <2>1. PICK o \in Opens :
           \/ Defer(t, o) \/ Exec(t, o) \/ OpenDevice(t, o) \/ UnlockChainLock(t, o)
           \/ \E o2 \in Opens : UnlockLock(t, o, o2)
    BY <1>5, NeverLost, NeverTaken DEF UseSession
  <2>2. \/ \E p \in Opens : th[t] = Idle(p)
        \/ th[t] = Idle(Chain)
    BY <2>1
       DEF Defer, Exec, OpenDevice, UnlockLock, AllDone, FailedUnlock, LockRefused,
           CommandRefused, LinkLost, Sends, OnDevice, UnlockChainLock, UnlockChainDone,
           UnlockChainFailed, OnChain
  <2>3. owner = t
    BY <2>2, DeviceAlone, ChainAlone
  <2>4. th' = th \/ (\E x : Return(t, x)) \/ (\E pc, op, x : GoOn(t, pc, op, x))
    BY <2>1, NothingIsLost
       DEF Defer, Exec, OpenDevice, UnlockLock, FailedUnlock, UnlockChainLock,
           UnlockChainFailed
  <2> QED BY <1>0, <2>3, <2>4 DEF Return, GoOn
<1> QED BY <1>1, <1>2, <1>3, <1>4, <1>5

\* No thread releases a link that another one has claimed.
THEOREM OwnerReleases ==
    ASSUME NoHandBack, LinkLoss = FALSE
    PROVE  Spec => ReleasedByOwner
<1> DEFINE OnlyOwner == \A t, u \in Threads :
               owner = t /\ owner' # t /\ u # t => th'[u] = th[u]
<1>1. IInv /\ [Next]_vars => [OnlyOwner]_vars
  <2> SUFFICES ASSUME IInv, Next PROVE OnlyOwner
    OBVIOUS
  <2>1. CASE OtherLocks \/ OtherUnlocks
    BY <2>1 DEF OtherLocks, OtherUnlocks
  <2>2. ASSUME NEW a \in Threads, Begin(a) \/ Proceed(a) \/ EndSession(a) \/ UseSession(a)
        PROVE  OnlyOwner
    BY <2>2, ActsAlone, NamesDistinct
  <2> QED BY <2>1, <2>2 DEF Next
<1>2. Spec => []IInv
  BY Inductive
<1> QED BY <1>1, <1>2, PTL DEF Spec, ReleasedByOwner

\* The locking code implements ChainSession: for the threads there is one lock,
\* taken, handed over and given up by one thread at a time.
THEOREM Implements ==
    ASSUME NoHandBack, LinkLoss = FALSE
    PROVE  Spec => ImplementsSession
<1> DEFINE had == [t \in Threads |-> IF Holds(t) THEN th[t].has ELSE None]
<1>1. IInv => had = [t \in Threads |-> th[t].has]
  BY DEF IInv, HasIsLocked, Holds
<1>2. Init => Session!Init
  <2> SUFFICES ASSUME Init PROVE Session!Init
    OBVIOUS
  <2>1. \A t \in Threads : th[t].has = None
    BY DEF Init, Idle
  <2> QED BY <2>1 DEF Session!Init, Holds
<1>3. IInv /\ IInv' /\ [Next]_vars => [Session!Next]_had
  <2> SUFFICES ASSUME IInv, IInv', [Next]_vars PROVE Session!Next \/ had' = had
    OBVIOUS
  <2>1. had = [t \in Threads |-> th[t].has] /\ had' = [t \in Threads |-> th'[t].has]
    BY <1>1 DEF IInv, HasIsLocked, Holds
  <2>2. CASE UNCHANGED vars \/ OtherLocks \/ OtherUnlocks
    <3>1. th' = th
      BY <2>2 DEF vars, OtherLocks, OtherUnlocks
    <3> QED BY <2>1, <3>1
  <2>3. ASSUME NEW t \in Threads, Begin(t) \/ Proceed(t) \/ EndSession(t) \/ UseSession(t)
        PROVE  Session!Next \/ had' = had
    <3>1. \A u \in Threads \ {t} : th'[u] = th[u]
      BY <2>3, ActsAlone
    <3>0. PICK x : x = th'[t].has
      OBVIOUS
    <3>2. had' = [had EXCEPT ![t] = x]
      <4>1. \A u \in Threads \ {t} : th'[u].has = th[u].has
        BY <3>1
      <4>2. [u \in Threads |-> th'[u].has]
              = [[u \in Threads |-> th[u].has] EXCEPT ![t] = th'[t].has]
        BY <4>1
      <4> QED BY <2>1, <3>0, <4>2
    <3>3. x \in Objects \cup {None}
      BY <3>0 DEF IInv, TypeOK, Thread
    <3>4. CASE had[t] # None /\ x = None
      <4>1. Session!Unlock(t)
        BY <3>2, <3>4 DEF Session!Unlock
      <4> QED BY <4>1 DEF Session!Next
    <3>5. CASE had[t] # None /\ x # None
      <4>1. Session!HandOver(t, x)
        BY <3>2, <3>5 DEF Session!HandOver
      <4>2. \E y \in Objects : Session!HandOver(t, y)
        BY <3>3, <3>5, <4>1
      <4> QED BY <4>2 DEF Session!Next
    <3>6. CASE had[t] = None /\ x # None
      <4>1. owner' = t
        BY <3>0, <3>6 DEF IInv, ClaimedByUser
      <4>2. \A u \in Threads \ {t} : th'[u].has = None
        BY <4>1 DEF IInv, ClaimedByUser
      <4>3. Session!Free
        BY <2>1, <3>1, <3>6, <4>2 DEF Session!Free
      <4>4. Session!Lock(t, x)
        BY <3>2, <4>3 DEF Session!Lock
      <4>5. \E y \in Objects : Session!Lock(t, y)
        BY <3>3, <3>6, <4>4
      <4> QED BY <4>5 DEF Session!Next
    <3>7. CASE had[t] = None /\ x = None
      BY <2>1, <3>2, <3>7
    <3> QED BY <3>4, <3>5, <3>6, <3>7
  <2> QED BY <2>2, <2>3 DEF Next
<1>4. Spec => []IInv
  BY Inductive
<1> QED BY <1>2, <1>3, <1>4, PTL DEF Spec, Session!Spec, ImplementsSession

-----------------------------------------------------------------------------
(* Client and server agree: the chain.                                     *)

\* A connection that was closed has no locked chain, and on one that is up the
\* server has given the chain that the client thinks locked.
ChainKnown ==
    /\ ChainLockedAtServer
    /\ link = "down" => ~chain.locked

\* A step that unlocks the chain, or that loses the link, has nothing to show.
LEMMA ChainUnlocked ==
    ASSUME \/ ~chain'.locked
           \/ link' = "dead"
           \/ \E d : Disconnect(d)
    PROVE  ChainKnown'
BY DEF ChainKnown, ChainLockedAtServer, Disconnect

\* A step that keeps the link and the chain's lock, and the server's lock of the
\* chain.
LEMMA ChainStays ==
    ASSUME ChainKnown, chain'.locked = chain.locked, link' = link,
           server = Chain => server' = Chain
    PROVE  ChainKnown'
BY DEF ChainKnown, ChainLockedAtServer

\* The answer to a packet never takes the chain's lock from this client.
LEMMA GrantKeepsChain ==
    ASSUME NEW o \in Opens
    PROVE  /\ server = Chain /\ ~Refused(o) => Granted(o) = Chain
           /\ Granted(o) = o /\ ~Refused(o) => server # Chain
BY NamesDistinct DEF Refused, Granted, Objects

\* The bodies of the calls that claim the link.
LEMMA BodyKeepsChain ==
    ASSUME TypeOK, ChainKnown, NEW t \in Threads,
           \/ BodyCrash(t) \/ LockDeferred(t) \/ LockImmediate(t) \/ LinkLostCrash(t)
           \/ LockChainGranted(t) \/ ExchangeAndRelease(t) \/ ExchangeLost(t)
           \/ RefreshBody(t) \/ CloseUnclaimed(t) \/ ReleaseAgain(t)
    PROVE  ChainKnown'
<1>1. CASE BodyCrash(t) \/ LinkLostCrash(t) \/ LockDeferred(t) \/ ReleaseAgain(t)
           \/ ExchangeAndRelease(t)
  BY <1>1, ChainStays
     DEF BodyCrash, LinkLostCrash, Crash, LockDeferred, ReleaseAgain, ExchangeAndRelease
<1>2. CASE LockImmediate(t)
  <2>1. CASE \E d : Disconnect(d)
    BY <2>1, ChainUnlocked
  <2>2. CASE Unanswered
    BY <2>2, ChainUnlocked DEF Unanswered
  <2>3. CASE /\ server' = IF server = None THEN th[t].obj
                          ELSE IF server = th[t].obj THEN None ELSE server
             /\ UNCHANGED <<link, chain>>
    <3>1. th[t].obj \in Opens
      BY <1>2 DEF LockImmediate
    <3>2. server = Chain => server' = Chain
      BY <2>3, <3>1, NamesDistinct DEF Objects
    <3> QED BY <2>3, <3>2, ChainStays
  <2> QED BY <1>2, <2>1, <2>2, <2>3 DEF LockImmediate
<1>3. CASE LockChainGranted(t)
  BY <1>3 DEF LockChainGranted, ChainKnown, ChainLockedAtServer
<1>4. CASE ExchangeLost(t)
  BY <1>4, ChainUnlocked DEF ExchangeLost, Unanswered
<1>5. CASE RefreshBody(t)
  <2>1. CASE Disconnect(dev)
    BY <2>1, ChainUnlocked
  <2>2. CASE /\ link # "dead" /\ link' = "up"
             /\ chain' = [chain EXCEPT !.valid = TRUE]
             /\ UNCHANGED server
    <3>1. chain'.locked = chain.locked
      BY <2>2 DEF TypeOK
    <3> QED BY <2>2, <3>1 DEF ChainKnown, ChainLockedAtServer, TypeOK
  <2> QED BY <1>5, <2>1, <2>2 DEF RefreshBody
<1>6. CASE CloseUnclaimed(t)
  BY <1>6, ChainUnlocked, ChainStays DEF CloseUnclaimed
<1> QED BY <1>1, <1>2, <1>3, <1>4, <1>5, <1>6

\* Calls of a thread on its device.
LEMMA DeviceKeepsChain ==
    ASSUME TypeOK, ChainKnown, NEW t \in Threads, NEW o \in Opens,
           \/ Unlock(t, o) \/ Defer(t, o) \/ Exec(t, o) \/ OpenDevice(t, o)
           \/ UnlockLockChain(t, o)
           \/ \E o2 \in Opens : UnlockLock(t, o, o2) \/ CloseOther(t, o, o2)
    PROVE  ChainKnown'
<1>1. ASSUME NEW op, NEW d, LinkLost(t, op, o, d)
      PROVE  ChainKnown'
  BY <1>1, ChainUnlocked DEF LinkLost
<1>2. ASSUME NEW op, LockRefused(t, op, o) \/ CommandRefused(t, op, o) \/ UnlockPending(t, op, o)
      PROVE  ChainKnown'
  BY <1>2, ChainStays, GrantKeepsChain DEF LockRefused, CommandRefused, UnlockPending
<1>3. ASSUME NEW op, AllDone(t, op, o), UNCHANGED chain
      PROVE  ChainKnown'
  <2>1. /\ link = "up" /\ link' = "up" /\ server # Chain
    BY <1>3, GrantKeepsChain DEF AllDone
  <2> QED BY <1>3, <2>1 DEF ChainKnown, ChainLockedAtServer
<1>4. ASSUME NEW op, FailedUnlock(t, op, o)
      PROVE  ChainKnown'
  BY <1>1, <1>2, <1>4 DEF FailedUnlock
<1>5. CASE Unlock(t, o)
  BY <1>2, <1>3, <1>4, <1>5 DEF Unlock, UnlockDone
<1>6. CASE Defer(t, o) \/ OpenDevice(t, o)
  BY <1>6, ChainStays DEF Defer, OpenDevice
<1>7. CASE Exec(t, o)
  BY <1>1, <1>2, <1>3, <1>7 DEF Exec
<1>8. CASE UnlockLockChain(t, o)
  <2>1. CASE server' = Chain /\ UNCHANGED link /\ link = "up"
    BY <2>1 DEF ChainKnown, ChainLockedAtServer
  <2>2. CASE Crash
    BY <2>2, ChainStays DEF Crash
  <2> QED BY <1>2, <1>3, <1>4, <1>8, <2>1, <2>2 DEF UnlockLockChain, UnlockDone, AllDone
<1>9. ASSUME NEW o2 \in Opens, UnlockLock(t, o, o2)
      PROVE  ChainKnown'
  BY <1>3, <1>4, <1>9 DEF UnlockLock
<1>10. ASSUME NEW o2 \in Opens, CloseOther(t, o, o2)
       PROVE  ChainKnown'
  <2>1. CASE Disconnect([SentDev(o) EXCEPT ![o2] = NoDevice])
    BY <2>1, ChainUnlocked
  <2>2. CASE UNCHANGED <<link, chain, server>>
    BY <2>2, ChainStays
  <2>3. CASE UNCHANGED <<link, chain>> /\ ~Refused(o) /\ server' = Granted(o)
    BY <2>3, ChainStays, GrantKeepsChain
  <2> QED BY <1>10, <2>1, <2>2, <2>3 DEF CloseOther
<1> QED BY <1>5, <1>6, <1>7, <1>8, <1>9, <1>10

\* Calls of a thread on the chain it has locked.
LEMMA OnChainKeepsChain ==
    ASSUME TypeOK, ChainKnown, NEW t \in Threads,
           \/ UnlockChain(t) \/ ChainLinkLost(t) \/ SessionLost(t)
           \/ \E o \in Opens : UnlockChainLock(t, o)
    PROVE  ChainKnown'
<1>1. ASSUME chain' = [chain EXCEPT !.locked = FALSE]
      PROVE  ChainKnown'
  BY <1>1, ChainUnlocked DEF TypeOK
<1>2. ASSUME NEW op, UnlockChainDone(t, op) \/ UnlockChainFailed(t, op)
      PROVE  ChainKnown'
  BY <1>1, <1>2, ChainUnlocked DEF UnlockChainDone, UnlockChainFailed
<1>3. CASE ChainLinkLost(t)
  BY <1>3, ChainUnlocked DEF ChainLinkLost, Unanswered
<1>4. CASE SessionLost(t)
  BY <1>4, ChainStays DEF SessionLost
<1>5. ASSUME NEW o \in Opens, UnlockChainLock(t, o)
      PROVE  ChainKnown'
  BY <1>1, <1>2, <1>5, ChainUnlocked DEF UnlockChainLock
<1> QED BY <1>2, <1>3, <1>4, <1>5 DEF UnlockChain

\* The chain's lock is never assumed: whatever the callers do, whatever is lost,
\* refused or released twice, the server has given it.
THEOREM ChainAtServer == Spec => []ChainLockedAtServer
<1>1. Init => ChainKnown
  BY DEF Init, ChainKnown, ChainLockedAtServer
<1>2. TypeOK /\ ChainKnown /\ [Next]_vars => ChainKnown'
  <2> SUFFICES ASSUME TypeOK, ChainKnown, [Next]_vars PROVE ChainKnown'
    OBVIOUS
  <2>1. CASE UNCHANGED vars
    BY <2>1, ChainStays DEF vars
  <2>2. ASSUME NEW t \in Threads, Begin(t)
        PROVE  ChainKnown'
    BY <2>2, ChainStays DEF Begin, Enter, PendingError, DeadDevice
  <2>3. ASSUME NEW t \in Threads, Proceed(t)
        PROVE  ChainKnown'
    BY <2>3, ChainStays, BodyKeepsChain DEF Proceed, ClaimOk, ClaimTimeout
  <2>4. ASSUME NEW t \in Threads, EndSession(t) \/ UseSession(t)
        PROVE  ChainKnown'
    BY <2>4, DeviceKeepsChain, OnChainKeepsChain DEF EndSession, UseSession
  <2>5. CASE OtherLocks \/ OtherUnlocks
    BY <2>5, NamesDistinct DEF OtherLocks, OtherUnlocks, ChainKnown, ChainLockedAtServer, Objects
  <2> QED BY <2>1, <2>2, <2>3, <2>4, <2>5 DEF Next
<1>3. ChainKnown => ChainLockedAtServer
  BY DEF ChainKnown
<1> QED BY <1>1, <1>2, <1>3, TypeCorrect, PTL DEF Spec

-----------------------------------------------------------------------------
(* Client and server agree: every object.                                  *)

\* What the threads ask and the server does, when client and server can agree:
\* locks are packed, and only other clients are in the way.
LocksPacked == NoHandBack /\ ~LinkLoss /\ ~CommandErrors /\ "never" \notin PackStyles

\* The server has not given the lock that a packed LOCK_DEVICE asks for.
AskedNotGiven == \A o \in Opens : "LOCK" \in dev[o].queued => server # o

\* Client and server agree, and what was asked for is not given yet.
Agree == ServerAgrees /\ AskedNotGiven

\* The object that a thread has locked, and its packet, decide what is agreed.
LEMMA AgreeOnOne ==
    ASSUME NEW x \in Objects \cup {None},
           \A y \in Objects : Locked(y)' <=> y = x,
           x # None => server' = x,
           server' \in Objects => server' = x,
           \A o \in Opens : "LOCK" \notin dev'[o].queued
    PROVE  Agree'
BY NamesDistinct DEF Agree, ServerAgrees, LockedAtServer, ServerLockKnown, AskedNotGiven

\* A step that leaves the server's lock, and what is locked and asked for, alone.
LEMMA AgreeStays ==
    ASSUME IInv, Agree, server' = server,
           \A x \in Objects : Locked(x)' <=> Locked(x),
           \A o \in Opens : "LOCK" \in dev'[o].queued <=> "LOCK" \in dev[o].queued
    PROVE  Agree'
<1>1. LockedAtServer'
  <2> SUFFICES ASSUME NEW x \in Objects, Locked(x)',
                      x \in Opens => "LOCK" \notin dev'[x].queued
               PROVE  server' = x
    BY DEF LockedAtServer
  <2>1. Locked(x) /\ (x \in Opens => "LOCK" \notin dev[x].queued)
    OBVIOUS
  <2>2. x \in Opens => dev[x].state = "open"
    BY <2>1, NamesDistinct DEF IInv, PackedLocked, Locked, Objects
  <2> QED BY <2>1, <2>2 DEF Agree, ServerAgrees, LockedAtServer, IInv, NothingLost
<1>2. ServerLockKnown'
  BY DEF Agree, ServerAgrees, ServerLockKnown
<1>3. AskedNotGiven'
  BY DEF Agree, AskedNotGiven
<1> QED BY <1>1, <1>2, <1>3 DEF Agree, ServerAgrees

\* While a thread has a device locked the server has it too, unless it is still
\* to be asked; with nothing locked the server has nothing of this client.
LEMMA AgreedNow ==
    ASSUME IInv, Agree, NEW t \in Threads, owner \in {None, t}
    PROVE  /\ server \in Objects => server = th[t].has
           /\ \A o \in Opens : th[t].has = o =>
                 IF "LOCK" \in dev[o].queued THEN server \notin Objects ELSE server = o
           /\ th[t].has = Chain => server = Chain
<1>1. \A x \in Objects : Locked(x) <=> th[t].has = x
  BY OwnerAlone
<1>2. server \in Objects => server = th[t].has
  BY <1>1 DEF Agree, ServerAgrees, ServerLockKnown
<1>3. ASSUME NEW o \in Opens, th[t].has = o
      PROVE  IF "LOCK" \in dev[o].queued THEN server \notin Objects ELSE server = o
  <2>1. o \in Objects /\ Locked(o) /\ dev[o].locked
    BY <1>1, <1>3, NamesDistinct DEF Objects, Locked
  <2>2. dev[o].state = "open" /\ link = "up"
    BY <2>1 DEF IInv, PackedLocked, NothingLost
  <2> QED BY <1>2, <1>3, <2>1, <2>2 DEF Agree, ServerAgrees, LockedAtServer, AskedNotGiven
<1>4. th[t].has = Chain => server = Chain
  <2>1. Chain \in Objects /\ Chain \notin Opens
    BY NamesDistinct DEF Objects
  <2> QED BY <1>1, <2>1 DEF Agree, ServerAgrees, LockedAtServer, IInv, NothingLost
<1> QED BY <1>2, <1>3, <1>4

\* Beginning a call, and claiming the link for it or giving up.
LEMMA ClaimingAgrees ==
    ASSUME IInv, Agree, LinkLoss = FALSE, NEW t \in Threads,
           \/ \E op \in Calls, x \in Objects \cup {None} : Enter(t, op, x)
           \/ ClaimOk(t) \/ ClaimTimeout(t)
    PROVE  Agree'
<1>1. CASE \/ \E op \in Calls, x \in Objects \cup {None} : Enter(t, op, x)
           \/ ClaimOk(t)
  <2>1. UNCHANGED <<server, dev, chain>>
    BY <1>1 DEF Enter, ClaimOk
  <2> QED BY <2>1, AgreeStays DEF Locked
<1>2. CASE ClaimTimeout(t)
  <2>1. UNCHANGED <<server, chain>>
    BY <1>2 DEF ClaimTimeout
  <2>2. \A o \in Opens : dev'[o] = dev[o] \/ (dev'[o] = NoDevice /\ th[t].op = "close" /\ th[t].obj = o)
    BY <1>2 DEF ClaimTimeout, IInv, TypeOK
  <2>3. \A o \in Opens : th[t].op = "close" /\ th[t].obj = o => ~dev[o].locked /\ dev[o].queued = {}
    <3> SUFFICES ASSUME NEW o \in Opens, th[t].op = "close", th[t].obj = o
                 PROVE  ~dev[o].locked /\ dev[o].queued = {}
      OBVIOUS
    <3>1. th[t].has # o
      BY <1>2, NothingIsLost, NamesDistinct DEF ClaimTimeout, Objects
    <3>2. \A u \in Threads : th[u].has # o
      BY <3>1 DEF IInv, ClosedAlone
    <3>3. o \in Objects /\ o # Chain
      BY NamesDistinct DEF Objects
    <3>4. ~dev[o].locked
      BY <3>2, <3>3 DEF IInv, LockedIsHad, Locked
    <3> QED BY <3>4, NamesDistinct DEF IInv, PackedLocked, Objects
  <2>4. \A o \in Opens : /\ dev'[o].locked = dev[o].locked
                         /\ dev'[o].queued = dev[o].queued
    <3>1. dev \in [Opens -> Device] /\ NoDevice.locked = FALSE /\ NoDevice.queued = {}
      BY DEF NoDevice, NewDevice, IInv, TypeOK
    <3>2. \A o \in Opens : dev[o].locked \in BOOLEAN
      BY <3>1 DEF Device
    <3> QED BY <2>2, <2>3, <3>1, <3>2
  <2>5. \A x \in Objects : Locked(x)' <=> Locked(x)
    BY <2>1, <2>4 DEF Locked, Objects
  <2> QED BY <2>1, <2>4, <2>5, AgreeStays
<1> QED BY <1>1, <1>2

\* The bodies of the calls that claim the link.
LEMMA BodyAgrees ==
    ASSUME IInv, Agree, LinkLoss = FALSE, "never" \notin PackStyles, NEW t \in Threads,
           \/ BodyCrash(t) \/ LockDeferred(t) \/ LockImmediate(t) \/ LinkLostCrash(t)
           \/ LockChainGranted(t) \/ ExchangeAndRelease(t) \/ ExchangeLost(t)
           \/ RefreshBody(t) \/ CloseUnclaimed(t) \/ ReleaseAgain(t)
    PROVE  Agree'
<1>a. /\ th[t].pc = "body" /\ owner = t /\ th[t].has = None /\ ~LinkFails
      /\ CallOf(th[t].op, th[t].obj)
  BY NothingIsLost
     DEF BodyCrash, LockDeferred, LockImmediate, LinkLostCrash, LockChainGranted,
         ExchangeAndRelease, ExchangeLost, RefreshBody, CloseUnclaimed, ReleaseAgain, Body
<1>b. /\ partial = None
      /\ \A x \in Objects : ~Locked(x)
      /\ \A p \in Opens : ~dev[p].locked /\ dev[p].queued = {}
      /\ server \notin Objects
  <2>1. partial = None /\ \A x \in Objects : ~Locked(x)
    BY <1>a, OwnerAlone, NamesDistinct
  <2>2. \A p \in Opens : dev[p].queued = {}
    BY <1>a, OwnerAlone, NamesDistinct DEF Objects
  <2>3. server \notin Objects
    BY <2>1 DEF Agree, ServerAgrees, ServerLockKnown
  <2> QED BY <2>1, <2>2, <2>3, NamesDistinct DEF Locked, Objects
<1>c. dev \in [Opens -> Device] /\ chain \in [valid : BOOLEAN, locked : BOOLEAN]
  BY DEF IInv, TypeOK
<1>1. CASE LockDeferred(t)
  <2>1. UNCHANGED <<server, chain>>
    BY <1>1 DEF LockDeferred
  <2>2. server' \notin Objects
    BY <1>b, <2>1
  <2>3. PICK o \in Opens : /\ o = th[t].obj
                           /\ \A p \in Opens \ {o} : dev'[p] = dev[p]
                           /\ "LOCK" \in dev'[o].queued
    <3>1. th[t].obj \in Opens
      BY <1>1 DEF LockDeferred
    <3>2. dev[th[t].obj] \in Device
      BY <1>c, <3>1
    <3>3. dev' = [dev EXCEPT ![th[t].obj] = [dev[th[t].obj] EXCEPT !.locked = TRUE,
                     !.pack = "auto", !.queued = @ \cup {"LOCK"}]]
      BY <1>1, <1>c, <3>1 DEF LockDeferred
    <3>4. "LOCK" \in dev'[th[t].obj].queued
      BY <1>c, <3>1, <3>2, <3>3 DEF Device
    <3> QED BY <1>c, <3>1, <3>3, <3>4
  <2>4. LockedAtServer'
    <3> SUFFICES ASSUME NEW x \in Objects, Locked(x)',
                        x \in Opens => "LOCK" \notin dev'[x].queued
                 PROVE  FALSE
      BY DEF LockedAtServer
    <3>1. x \notin Opens
      BY <1>b, <2>3, NamesDistinct DEF Locked, Objects
    <3> QED BY <1>b, <2>1, <3>1, NamesDistinct DEF Locked, Objects
  <2> QED BY <2>2, <2>4
          DEF Agree, ServerAgrees, ServerLockKnown, AskedNotGiven, Objects
<1>2. CASE LockChainGranted(t)
  <2>1. /\ UNCHANGED dev /\ server' = Chain /\ chain'.locked
    BY <1>2, <1>c DEF LockChainGranted
  <2>2. \A y \in Objects : Locked(y)' <=> y = Chain
    BY <1>b, <2>1, NamesDistinct DEF Locked, Objects
  <2> QED BY <1>b, <2>1, <2>2, AgreeOnOne DEF Objects
<1>3. CASE ExchangeAndRelease(t) \/ RefreshBody(t)
  <2>1. server' = server /\ chain'.locked = chain.locked
    BY <1>3, <1>a, <1>c DEF ExchangeAndRelease, RefreshBody
  <2>2. \A p \in Opens : dev'[p] = dev[p] \/ dev'[p] = NoDevice
    BY <1>3, <1>a, <1>c DEF ExchangeAndRelease, RefreshBody
  <2>3. \A p \in Opens : ~dev'[p].locked /\ dev'[p].queued = {}
    BY <1>b, <2>2 DEF NoDevice, NewDevice
  <2>4. \A y \in Objects : ~Locked(y)'
    BY <1>b, <2>1, <2>3, NamesDistinct DEF Locked, Objects
  <2>5. \A y \in Objects : Locked(y)' <=> y = None
    BY <2>4, NamesDistinct
  <2>6. \A p \in Opens : "LOCK" \notin dev'[p].queued
    BY <2>3
  <2>7. server' \notin Objects
    BY <1>b, <2>1
  <2> QED BY <2>5, <2>6, <2>7, AgreeOnOne
<1>4. ~BodyCrash(t)
  BY <1>a, <1>b, NamesDistinct DEF BodyCrash, CallOf, Objects
<1>5. /\ ~LinkLostCrash(t) /\ ~ExchangeLost(t) /\ ~LockImmediate(t)
      /\ ~CloseUnclaimed(t) /\ ~ReleaseAgain(t)
  BY <1>a DEF LinkLostCrash, ExchangeLost, LockImmediate, CloseUnclaimed, ReleaseAgain
<1> QED BY <1>1, <1>2, <1>3, <1>4, <1>5

\* A device of a thread that returns with x, after its packet was sent.
LEMMA DeviceAgrees ==
    ASSUME IInv, Agree, LinkLoss = FALSE, CommandErrors = FALSE,
           NEW t \in Threads, NEW o \in Opens,
           \/ Unlock(t, o) \/ Defer(t, o) \/ Exec(t, o)
           \/ \E o2 \in Opens : UnlockLock(t, o, o2)
    PROVE  Agree'
<1>a. th[t] = Idle(o) /\ th[t].has = o
  <2>1. th[t] = Idle(o)
    BY DEF Unlock, UnlockDone, AllDone, FailedUnlock, LockRefused, CommandRefused,
           LinkLost, Sends, UnlockPending, OnDevice, Defer, Exec, UnlockLock
  <2> QED BY <2>1 DEF Idle
<1>b. /\ owner = t /\ o \in Objects /\ o # None /\ o # Chain
      /\ dev[o].locked /\ dev[o].state = "open" /\ ~dev[o].error
      /\ ~chain.locked
      /\ \A p \in Opens \ {o} : ~dev[p].locked /\ dev[p].queued = {}
  BY <1>a, DeviceAlone
<1>c. TypeOK /\ dev \in [Opens -> Device]
  BY DEF IInv, TypeOK
<1>d. /\ server \in Objects => server = o
      /\ IF "LOCK" \in dev[o].queued THEN server \notin Objects ELSE server = o
  BY <1>a, <1>b, AgreedNow
<1>e. ~LinkFails
  BY NothingIsLost
<1>f. \A op : ~CommandRefused(t, op, o) /\ ~UnlockPending(t, op, o)
  BY <1>b, <1>d DEF CommandRefused, Refused, Granted, UnlockPending
<1>1. ASSUME dev' = UnlockedDev(o), UNCHANGED chain, server' \notin Objects
      PROVE  Agree'
  <2>1. \A p \in Opens : ~dev'[p].locked /\ dev'[p].queued = {}
    BY <1>1, <1>b, <1>c, SentFields
  <2>2. \A y \in Objects : Locked(y)' <=> y = None
    BY <1>1, <1>b, <2>1, NamesDistinct DEF Locked, Objects
  <2> QED BY <1>1, <2>1, <2>2, AgreeOnOne
<1>2. ASSUME NEW op, LockRefused(t, op, o)
      PROVE  Agree'
  BY <1>1, <1>2, <1>d DEF LockRefused, Refused
<1>3. ASSUME NEW op, FailedUnlock(t, op, o)
      PROVE  Agree'
  BY <1>2, <1>3, <1>f, <1>e DEF FailedUnlock, LinkLost
<1>4. CASE Unlock(t, o)
  <2>1. CASE UnlockDone(t, "unlock", o)
    BY <1>1, <2>1, NamesDistinct DEF UnlockDone
  <2> QED BY <1>3, <1>4, <1>f, <2>1 DEF Unlock
<1>5. CASE Defer(t, o)
  <2>1. UNCHANGED <<server, chain>> /\ dev' = [dev EXCEPT ![o].queued = @ \cup {"CMD"}]
    BY <1>5 DEF Defer
  <2>2. \A p \in Opens : /\ dev'[p].locked = dev[p].locked
                         /\ "LOCK" \in dev'[p].queued <=> "LOCK" \in dev[p].queued
    BY <2>1, <1>c DEF Device
  <2>3. \A x \in Objects : Locked(x)' <=> Locked(x)
    BY <2>1, <2>2 DEF Locked, Objects
  <2> QED BY <2>1, <2>2, <2>3, AgreeStays
<1>6. CASE Exec(t, o)
  <2>1. CASE AllDone(t, "command", o) /\ server' = o /\ UNCHANGED chain /\ dev' = SentDev(o)
    <3>1. \A p \in Opens : (dev'[p].locked <=> p = o) /\ dev'[p].queued = {}
      BY <2>1, <1>b, <1>c, SentFields
    <3>2. \A y \in Objects : Locked(y)' <=> y = o
      BY <2>1, <1>b, <3>1, NamesDistinct DEF Locked, Objects
    <3> QED BY <2>1, <1>b, <3>1, <3>2, AgreeOnOne
  <2> QED BY <1>2, <1>6, <1>f, <1>e, <2>1 DEF Exec, LinkLost
<1>7. ASSUME NEW o2 \in Opens, UnlockLock(t, o, o2)
      PROVE  Agree'
  <2>1. CASE /\ server' = o2
             /\ dev' = [UnlockedDev(o) EXCEPT ![o2].locked = TRUE, ![o2].pack = dev[o].pack]
             /\ UNCHANGED <<owner, chain>>
    <3> DEFINE d == UnlockedDev(o)
    <3>1. d \in [Opens -> Device] /\ o2 # o
      BY <1>c, <1>7, <1>b, DevicesTyped DEF UnlockLock, Usable
    <3>2. \A p \in Opens : ~d[p].locked /\ d[p].queued = {}
      BY <1>b, <1>c, SentFields
    <3>3. dev' = [d EXCEPT ![o2].locked = TRUE, ![o2].pack = dev[o].pack]
      BY <2>1
    <3> HIDE DEF d
    <3>4. \A p \in Opens \ {o2} : dev'[p] = d[p]
      BY <3>1, <3>3
    <3>5. dev'[o2].locked /\ dev'[o2].queued = {}
      <4>1. dev'[o2] = [d[o2] EXCEPT !.locked = TRUE, !.pack = dev[o].pack]
        BY <3>1, <3>3
      <4>2. d[o2] \in Device /\ d[o2].queued = {}
        BY <3>1, <3>2
      <4> QED BY <4>1, <4>2 DEF Device
    <3>6. \A p \in Opens : (dev'[p].locked <=> p = o2) /\ dev'[p].queued = {}
      BY <3>2, <3>4, <3>5
    <3>7. o2 \in Objects /\ \A y \in Objects : Locked(y)' <=> y = o2
      BY <2>1, <1>b, <3>6, NamesDistinct DEF Locked, Objects
    <3>8. server' = o2 /\ \A p \in Opens : "LOCK" \notin dev'[p].queued
      BY <2>1, <3>6
    <3> QED BY <3>7, <3>8, AgreeOnOne
  <2> QED BY <1>3, <1>7, <2>1 DEF UnlockLock
<1> QED BY <1>4, <1>5, <1>6, <1>7

\* Calls on the chain, and the other clients of the server.
LEMMA ChainAgrees ==
    ASSUME IInv, Agree, LinkLoss = FALSE, CommandErrors = FALSE,
           \/ \E t \in Threads : UnlockChain(t)
           \/ \E t \in Threads, o \in Opens : UnlockChainLock(t, o) \/ OpenDevice(t, o)
           \/ OtherLocks \/ OtherUnlocks
    PROVE  Agree'
<1>c. /\ dev \in [Opens -> Device] /\ chain \in [valid : BOOLEAN, locked : BOOLEAN]
  BY DEF IInv, TypeOK
<1>1. ASSUME NEW t \in Threads, NEW op, UnlockChainFailed(t, op)
      PROVE  FALSE
  BY <1>1, NothingIsLost DEF UnlockChainFailed
<1>2. ASSUME NEW t \in Threads, NEW op, UnlockChainDone(t, op),
             \A p \in Opens : dev'[p].locked = dev[p].locked /\ dev'[p].queued = dev[p].queued
      PROVE  Agree'
  <2>1. th[t] = Idle(Chain)
    BY <1>2 DEF UnlockChainDone, OnChain
  <2>2. \A p \in Opens : ~dev'[p].locked /\ dev'[p].queued = {}
    BY <1>2, <2>1, ChainAlone
  <2>3. ~chain'.locked /\ server' = None
    BY <1>2, <1>c DEF UnlockChainDone
  <2>4. \A y \in Objects : Locked(y)' <=> y = None
    BY <2>2, <2>3, NamesDistinct DEF Locked, Objects
  <2> QED BY <2>2, <2>3, <2>4, NamesDistinct, AgreeOnOne
<1>3. ASSUME NEW t \in Threads, UnlockChain(t)
      PROVE  Agree'
  BY <1>1, <1>2, <1>3 DEF UnlockChain
<1>4. ASSUME NEW t \in Threads, NEW o \in Opens, UnlockChainLock(t, o)
      PROVE  Agree'
  <2>1. CASE /\ UnlockChainDone(t, "unlock_chain_lock")
             /\ dev' = [dev EXCEPT ![o].error = FALSE]
    <3>1. \A p \in Opens : dev'[p].locked = dev[p].locked /\ dev'[p].queued = dev[p].queued
      BY <2>1, <1>c DEF Device
    <3> QED BY <1>2, <2>1, <3>1
  <2>2. CASE /\ OnChain(t, "unlock_chain_lock")
             /\ server' = o
             /\ chain' = [chain EXCEPT !.locked = FALSE]
             /\ \E style \in PackStyles :
                   dev' = [dev EXCEPT ![o].locked = TRUE, ![o].pack = style]
    <3>1. \A p \in Opens : ~dev[p].locked /\ dev[p].queued = {}
      BY <2>2, ChainAlone DEF OnChain
    <3>2. \A p \in Opens : (dev'[p].locked <=> p = o) /\ dev'[p].queued = {}
      <4>1. PICK style \in PackStyles : dev' = [dev EXCEPT ![o].locked = TRUE, ![o].pack = style]
        BY <2>2
      <4> QED BY <1>c, <3>1, <4>1 DEF Device
    <3>3. ~chain'.locked
      BY <2>2, <1>c
    <3>4. \A y \in Objects : Locked(y)' <=> y = o
      BY <3>2, <3>3, NamesDistinct DEF Locked, Objects
    <3> QED BY <2>2, <3>2, <3>4, AgreeOnOne DEF Objects
  <2>3. ~LinkFails
    BY NothingIsLost
  <2> QED BY <1>1, <1>4, <2>1, <2>2, <2>3 DEF UnlockChainLock
<1>5. ASSUME NEW t \in Threads, NEW o \in Opens, OpenDevice(t, o)
      PROVE  Agree'
  <2>1. UNCHANGED <<server, chain>> /\ th[t] = Idle(Chain)
    BY <1>5 DEF OpenDevice, OnChain
  <2>2. \A p \in Opens : ~dev[p].locked /\ dev[p].queued = {}
    BY <2>1, ChainAlone
  <2>3. \A p \in Opens : dev'[p] = dev[p] \/ dev'[p] = NewDevice
    BY <1>5, <1>c DEF OpenDevice
  <2>4. \A p \in Opens : ~dev'[p].locked /\ dev'[p].queued = {}
    BY <2>2, <2>3 DEF NewDevice
  <2>5. \A x \in Objects : Locked(x)' <=> Locked(x)
    BY <2>1, <2>2, <2>4 DEF Locked, Objects
  <2> QED BY <2>1, <2>2, <2>4, <2>5, AgreeStays
<1>6. CASE OtherLocks \/ OtherUnlocks
  <2>1. UNCHANGED <<dev, chain>> /\ server \notin Objects /\ server' \notin Objects
    BY <1>6, NamesDistinct DEF OtherLocks, OtherUnlocks, Objects
  <2>2. LockedAtServer'
    BY <2>1 DEF Agree, ServerAgrees, LockedAtServer, Locked, IInv, NothingLost
  <2> QED BY <2>1, <2>2 DEF Agree, ServerAgrees, ServerLockKnown, AskedNotGiven, Objects
<1> QED BY <1>3, <1>4, <1>5, <1>6

\* For callers that pack their locks, on a link that is not lost, with a server
\* that refuses nothing but a lock, client and server agree on who has the
\* chain, whatever other clients do.
THEOREM Agreement ==
    ASSUME LocksPacked
    PROVE  Spec => []ServerAgrees
<1>0. NoHandBack /\ LinkLoss = FALSE /\ CommandErrors = FALSE /\ "never" \notin PackStyles
  BY ConstantsOK DEF LocksPacked
<1>1. Init => Agree
  <2> SUFFICES ASSUME Init PROVE Agree
    OBVIOUS
  <2>1. \A o \in Opens : ~dev[o].locked /\ dev[o].queued = {}
    <3>1. \A o \in Opens : dev[o] \in {NewDevice, NoDevice}
      BY DEF Init
    <3> QED BY <3>1 DEF NewDevice, NoDevice
  <2>2. server \notin Objects /\ \A x \in Objects : ~Locked(x)
    BY <2>1, NamesDistinct DEF Init, Locked, Objects
  <2> QED BY <2>1, <2>2 DEF Agree, ServerAgrees, LockedAtServer, ServerLockKnown, AskedNotGiven
<1>2. IInv /\ Agree /\ [Next]_vars => Agree'
  <2> SUFFICES ASSUME IInv, Agree, [Next]_vars PROVE Agree'
    OBVIOUS
  <2>1. CASE UNCHANGED vars
    BY <2>1, AgreeStays DEF vars, Locked
  <2>2. ASSUME NEW t \in Threads, Begin(t)
        PROVE  Agree'
    BY <1>0, <2>2, ClaimingAgrees, NeverTaken DEF Begin
  <2>3. ASSUME NEW t \in Threads, Proceed(t)
        PROVE  Agree'
    BY <1>0, <2>3, ClaimingAgrees, BodyAgrees DEF Proceed
  <2>4. ASSUME NEW t \in Threads, EndSession(t) \/ UseSession(t)
        PROVE  Agree'
    BY <1>0, <2>4, NeverLost, NeverTaken, DeviceAgrees, ChainAgrees DEF EndSession, UseSession
  <2>5. CASE OtherLocks \/ OtherUnlocks
    BY <1>0, <2>5, ChainAgrees
  <2> QED BY <2>1, <2>2, <2>3, <2>4, <2>5 DEF Next
<1>3. Agree => ServerAgrees
  BY DEF Agree
<1>4. Spec => []IInv
  BY <1>0, Inductive
<1> QED BY <1>1, <1>2, <1>3, <1>4, PTL DEF Spec

=============================================================================
