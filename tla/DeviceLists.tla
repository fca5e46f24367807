----------------------------- MODULE DeviceLists -----------------------------
(***************************************************************************)
(* The two lists of devices a program keeps of its servers.                *)
(*                                                                         *)
(* Each chain has the list of its TAPs, m_taps, with the tag the server    *)
(* gave it: aji_read_device_chain sends the tag, and the server sends a    *)
(* list only if it has another one.  The link is claimed while the list is *)
(* refreshed; m_taps_mutex keeps out threads that copy the list without    *)
(* the link.  Each server has the list of the devices its users have       *)
(* defined, m_defined, refreshed in the same way; aji_get_defined_devices  *)
(* joins the lists of all servers.                                         *)
(*                                                                         *)
(* Locking and unlocking a chain are one step each here: module DeviceLock *)
(* has the steps of those.                                                 *)
(***************************************************************************)
EXTENDS Integers, SequencesExt, Lists

CONSTANTS
    Users,           \* threads of the program
    Links,           \* m_link, a sequence of servers, each of them once
    Home,            \* the server of the chain
    None,            \* nobody, no name, no list
    ChainLists,      \* the TAPs of the chain, as they change: the n-th list has tag n
    Defined,         \* the devices defined at each server at first
    Offered,         \* devices the program defines and undefines
    NameLength,      \* of each name
    Spaces,          \* sizes of the callers' lists
    CallBound,       \* bound: calls of the program but those that lock and unlock
    FaultBound,      \* bound: answers that are errors or are lost
    EditBound        \* bound: versions of the devices defined at one server

Servers == Range(Links)
Devices == [id : Nat, name : DOMAIN NameLength]

ASSUME ListsConstants ==
    /\ Home \in Servers /\ None \notin Users \cup Servers
    /\ {CallBound, FaultBound, EditBound} \subseteq Nat /\ Spaces \subseteq Nat

ASSUME ListsData ==
    /\ Links \in Seq(Servers)
    /\ \A m, n \in DOMAIN Links : Links[m] = Links[n] => m = n
    /\ NameLength \in [DOMAIN NameLength -> Nat]
    /\ ChainLists \in Seq(Seq(Devices)) /\ Offered \subseteq Devices
    /\ Defined \in [Servers -> Seq(Devices)]

VARIABLES
    chain,    \* the AJI_CHAIN_JS: m_chain_tag, m_taps, m_valid, m_locked
    mutex,    \* who has claimed m_taps_mutex
    link,     \* who has claimed each link
    defined,  \* m_defined and m_defined_tag of each link, and whether all the data arrived
    server,   \* the tag of the chain's list at the server; 0: not scanned
    database, \* all versions of the devices defined at each server; the tag of a version is its index
    call,     \* the call of each thread
    calls,    \* calls made
    faults,   \* answers that were errors or were lost
    past      \* what has happened: see below

vars == <<chain, mutex, link, defined, server, database, call, calls, faults, past>>

NoAnswer == [tag |-> 0, list |-> <<>>, sent |-> FALSE]
Idle == [op |-> "none", at |-> "idle", space |-> 0, scan |-> FALSE, answer |-> NoAnswer,
         list |-> <<>>, link |-> 1, device |-> None, result |-> "none", count |-> 0,
         sizes |-> <<>>, asked |-> {}]

Init ==
    /\ chain = [tag |-> 0, taps |-> <<>>, valid |-> TRUE, locked |-> FALSE]
    /\ mutex = None
    /\ link = [s \in Servers |-> None]
    /\ defined = [s \in Servers |-> [tag |-> 0, list |-> <<>>, whole |-> TRUE]]
    /\ server = 0
    /\ database = [s \in Servers |-> <<Defined[s]>>]
    /\ call = [u \in Users |-> Idle]
    /\ calls = 0 /\ faults = 0
    /\ past = [robbed |-> FALSE, shared |-> FALSE, crossed |-> {}]

(***************************************************************************)
(* A list in an answer.  It is read twice: at first into no memory, which  *)
(* counts the bytes the names need, then into that many bytes.  A name     *)
(* that does not fit is NULL.  The servers' lists are taken to be well     *)
(* formed: one that ends too soon is given up at the first pass, and       *)
(* nothing is read of it.                                                  *)
(***************************************************************************)
Room(list) == Summed([i \in DOMAIN list |-> NameLength[list[i].name] + 1])

Fits(list, i, room) == Room(SubSeq(list, 1, i - 1)) + NameLength[list[i].name] < room

Parsed(list) ==
    [i \in DOMAIN list |-> IF Fits(list, i, Room(list)) THEN list[i] ELSE [list[i] EXCEPT !.name = None]]

Answer(known, tag, list) ==
    [tag |-> tag, list |-> list, sent |-> list # <<>> /\ known # tag]

(***************************************************************************)
(* What the library lets happen and its lists do not survive.              *)
(*   robbed   A thread released a link that another had claimed.  From     *)
(*            then on two threads may use one connection at a time; what   *)
(*            its messages say then is not modelled.                       *)
(*   shared   A thread refreshed the list of a chain that another thread   *)
(*            has locked: m_locked does not say who has.                   *)
(*   crossed  Threads that get the defined devices, and another thread     *)
(*            refreshed some server's list meanwhile.                      *)
(***************************************************************************)
Robbing(s) == past' = [past EXCEPT !.robbed = @ \/ link[s] # None]

Crossing(u) == past' = [past EXCEPT !.crossed = @ \cup {v \in Users \ {u} : call[v].op = "get"}]

(***************************************************************************)
(* The steps of a call.                                                    *)
(***************************************************************************)
Go(u, at) == call' = [call EXCEPT ![u].at = at]
At(u, op, at) == call[u].op = op /\ call[u].at = at
Done(u, result) == call' = [call EXCEPT ![u].at = "done", ![u].result = result]

Start(u, first) ==
    /\ call[u].at = "idle" /\ calls < CallBound
    /\ calls' = calls + 1
    /\ call' = [call EXCEPT ![u] = first]

Finish(u) ==
    /\ call[u].at = "done"
    /\ call' = [call EXCEPT ![u] = Idle]
    /\ past' = [past EXCEPT !.crossed = @ \ {u}]
    /\ UNCHANGED <<chain, mutex, link, defined, server, database, calls, faults>>

Fault == faults < FaultBound /\ faults' = faults + 1

\* The chain is made invalid, and gives back the link if it is locked.
Invalidated == [chain EXCEPT !.valid = FALSE, !.locked = FALSE]
LinkAfterLoss == IF chain.locked THEN [link EXCEPT ![Home] = None] ELSE link

(***************************************************************************)
(* The chain.                                                              *)
(***************************************************************************)
LockChain(u) ==
    /\ call[u].at = "idle"
    /\ chain.valid /\ ~chain.locked /\ link[Home] = None
    /\ chain' = [chain EXCEPT !.locked = TRUE]
    /\ link' = [link EXCEPT ![Home] = u]
    /\ UNCHANGED <<mutex, defined, server, database, call, calls, faults, past>>

HasLocked(u) == chain.locked /\ link[Home] = u

\* A thread that was robbed of its claim unlocks all the same.
UnlockChain(u) ==
    /\ call[u].at = "idle" /\ chain.valid /\ chain.locked
    /\ link[Home] = u \/ past.robbed
    /\ chain' = [chain EXCEPT !.locked = FALSE]
    /\ link' = [link EXCEPT ![Home] = None]
    /\ UNCHANGED <<mutex, defined, server, database, call, calls, faults, past>>

\* The program lists the chains again: one whose server it had lost is valid, and keeps its tag.
Relist(u) ==
    /\ call[u].at = "idle" /\ link[Home] = None
    /\ chain' = [chain EXCEPT !.valid = TRUE]
    /\ UNCHANGED <<mutex, link, defined, server, database, call, calls, faults, past>>

Sharing(u) == past' = [past EXCEPT !.shared = @ \/ (chain.locked /\ ~HasLocked(u))]

\* While the chain is locked the list is refreshed first; else a list that was read before will do.
ReadChain(u) ==
    /\ chain.valid /\ Sharing(u)
    /\ \E space \in Spaces :
          Start(u, [Idle EXCEPT !.op = "read", !.space = space,
                                !.at = IF chain.locked THEN "refresh" ELSE "look"])
    /\ UNCHANGED <<chain, mutex, link, defined, server, database, faults>>

ScanChain(u) ==
    /\ chain.valid /\ chain.locked /\ Sharing(u)
    /\ Start(u, [Idle EXCEPT !.op = "scan", !.at = "refresh", !.scan = TRUE])
    /\ UNCHANGED <<chain, mutex, link, defined, server, database, faults>>

Refreshing(u) == call[u].at = "refresh"

\* The server answers with its list, after a scan if it is told to, or has none and may scan.
Refresh(u) ==
    /\ Refreshing(u)
    /\ LET scans == call[u].scan \/ server = 0 IN
       \E tag \in 1 .. Len(ChainLists) :
          /\ IF scans THEN tag \in {server, server + 1} ELSE tag = server
          /\ server' = tag
          /\ call' = [call EXCEPT ![u].at = "store", ![u].answer = Answer(chain.tag, tag, ChainLists[tag])]
    /\ UNCHANGED <<chain, mutex, link, defined, database, calls, faults, past>>

\* An error: the list that is kept is not to be used.  An old server does not scan unless told to.
RefreshRefused(u) ==
    /\ Refreshing(u)
    /\ \/ /\ server = 0 /\ ~call[u].scan
          /\ call' = [call EXCEPT ![u].scan = TRUE]
          /\ UNCHANGED faults
       \/ /\ Fault
          /\ Done(u, "error")
    /\ chain' = [chain EXCEPT !.tag = 0]
    /\ UNCHANGED <<mutex, link, defined, server, database, calls, past>>

\* The answer, or its data, is lost: the program disconnects.
RefreshLost(u) ==
    /\ Refreshing(u) /\ Fault
    /\ \E tag \in {0, chain.tag} : chain' = [Invalidated EXCEPT !.tag = tag]
    /\ link' = LinkAfterLoss
    /\ Done(u, "error")
    /\ UNCHANGED <<mutex, defined, server, database, calls, past>>

\* Mutant: the mutex is not claimed.
NoTapsMutex == TRUE

TapsFree == mutex = None

Store(u) ==
    /\ call[u].at = "store" /\ TapsFree
    /\ mutex' = u
    /\ LET answer == call[u].answer IN
       \/ /\ answer.list = <<>> \/ answer.sent
          /\ chain' = [chain EXCEPT !.taps = <<>>]
          /\ call' = [call EXCEPT ![u].at = "fill", ![u].answer.list = Parsed(@)]
       \/ /\ answer.list # <<>> /\ ~answer.sent
          /\ call' = [call EXCEPT ![u].at = "fill", ![u].answer.list = <<>>]
          /\ UNCHANGED chain
    /\ UNCHANGED <<link, defined, server, database, calls, faults, past>>

\* Mutant: the tag is stored before the mutex is claimed.
TagBeforeMutex(u) ==
    /\ call[u].at = "store" /\ ~TapsFree
    /\ chain' = [chain EXCEPT !.tag = call[u].answer.tag]
    /\ Done(u, "error")
    /\ UNCHANGED <<mutex, link, defined, server, database, calls, faults, past>>

\* The mutex is not claimed in time: nothing is stored, and the tag stays too.
StoreTimeout(u) ==
    /\ call[u].at = "store" /\ ~TapsFree
    /\ Done(u, "error")
    /\ UNCHANGED <<chain, mutex, link, defined, server, database, calls, faults, past>>

Fill(u) ==
    /\ call[u].at = "fill" /\ call[u].answer.list # <<>>
    /\ chain' = [chain EXCEPT !.taps = Append(@, Head(call[u].answer.list))]
    /\ call' = [call EXCEPT ![u].answer.list = Tail(@)]
    /\ UNCHANGED <<mutex, link, defined, server, database, calls, faults, past>>

Stored(u) ==
    /\ call[u].at = "fill" /\ call[u].answer.list = <<>>
    /\ chain' = [chain EXCEPT !.tag = call[u].answer.tag]
    /\ mutex' = None
    /\ IF call[u].op = "read" THEN Go(u, "look") ELSE Done(u, "ok")
    /\ UNCHANGED <<link, defined, server, database, calls, faults, past>>

LookInVain(u) ==
    /\ At(u, "read", "look")
    /\ chain.tag = 0 \/ ~TapsFree
    /\ Done(u, "error")
    /\ UNCHANGED <<chain, mutex, link, defined, server, database, calls, faults, past>>

Look(u) ==
    /\ At(u, "read", "look") /\ chain.tag # 0 /\ TapsFree
    /\ mutex' = u
    /\ call' = [call EXCEPT ![u].at = "copy", ![u].count = Len(chain.taps)]
    /\ UNCHANGED <<chain, link, defined, server, database, calls, faults, past>>

Copied(u) == Len(call[u].list)

Copy(u) ==
    /\ At(u, "read", "copy") /\ Copied(u) < call[u].space /\ Copied(u) < Len(chain.taps)
    /\ call' = [call EXCEPT ![u].list = Append(@, chain.taps[Copied(u) + 1])]
    /\ UNCHANGED <<chain, mutex, link, defined, server, database, calls, faults, past>>

EndCopy(u) ==
    /\ At(u, "read", "copy") /\ (Copied(u) >= call[u].space \/ Copied(u) >= Len(chain.taps))
    /\ mutex' = None
    /\ Done(u, IF call[u].count > call[u].space THEN "toomany" ELSE "ok")
    /\ UNCHANGED <<chain, link, defined, server, database, calls, faults, past>>

\* Another client of the server changes the chain, or scans it, while the program has not locked it.
OtherScans ==
    /\ ~chain.locked /\ server < Len(ChainLists)
    /\ server' = server + 1
    /\ UNCHANGED <<chain, mutex, link, defined, database, call, calls, faults, past>>

(***************************************************************************)
(* The defined devices.  A call goes through the servers in turn, and      *)
(* leaves out one whose link it cannot claim.                              *)
(***************************************************************************)
Server(u) == Links[call[u].link]
AtServer(u, at) == call[u].at = at /\ call[u].link <= Len(Links)
AfterServers(u, at) == call[u].at = at /\ call[u].link > Len(Links)
Advance(u, at) == call' = [call EXCEPT ![u].at = at, ![u].link = @ + 1]

Definable(d) == d.name # None /\ (d.id = 0 \/ d.id % 2 = 1)

StartDefine(u) ==
    /\ \E d \in Offered, op \in {"define", "undefine"} :
          Start(u, IF Definable(d) THEN [Idle EXCEPT !.op = op, !.at = "tell", !.device = d]
                   ELSE [Idle EXCEPT !.op = op, !.at = "done", !.result = "error"])
    /\ UNCHANGED <<chain, mutex, link, defined, server, database, faults, past>>

Edited(u, list) ==
    LET others == Filtered(list, Range(list) \ {call[u].device})
    IN IF call[u].op = "define" THEN Append(others, call[u].device) ELSE others

Told(u) ==
    LET s == Server(u) IN
    \/ /\ Len(database[s]) < EditBound
       /\ database' = [database EXCEPT ![s] = Append(@, Edited(u, Last(@)))]
    \/ UNCHANGED database

\* What the server answers is not looked at.
Tell(u) ==
    /\ AtServer(u, "tell") /\ link[Server(u)] = None
    /\ Told(u)
    /\ Advance(u, "tell")
    /\ UNCHANGED <<chain, mutex, link, defined, server, calls, faults, past>>

\* The connection is lost on the way.
TellLost(u) ==
    /\ AtServer(u, "tell") /\ link[Server(u)] = None /\ Fault
    /\ Told(u)
    /\ chain' = IF Server(u) = Home THEN Invalidated ELSE chain
    /\ Advance(u, "tell")
    /\ UNCHANGED <<mutex, link, defined, server, calls, past>>

TellLeavesOut(u) ==
    /\ AtServer(u, "tell") /\ link[Server(u)] # None
    /\ Advance(u, "tell")
    /\ UNCHANGED <<chain, mutex, link, defined, server, database, calls, faults, past>>

\* A server that the program is connected to needs no new connection.
MayFail(s) == s = Home => ~chain.valid

\* No connection: define_device releases the link, and so does its caller.
TellFails(u) ==
    /\ AtServer(u, "tell") /\ MayFail(Server(u)) /\ link[Server(u)] = None
    /\ Go(u, "again")
    /\ UNCHANGED <<chain, mutex, link, defined, server, database, calls, faults, past>>

ReleaseAgain(u) ==
    /\ AtServer(u, "again")
    /\ link' = [link EXCEPT ![Server(u)] = None]
    /\ Robbing(Server(u))
    /\ Advance(u, "tell")
    /\ UNCHANGED <<chain, mutex, defined, server, database, calls, faults>>

EndTell(u) ==
    /\ AfterServers(u, "tell")
    /\ Done(u, "ok")
    /\ UNCHANGED <<chain, mutex, link, defined, server, database, calls, faults, past>>

GetDefined(u) ==
    /\ \E space \in Spaces : Start(u, [Idle EXCEPT !.op = "get", !.at = "ask", !.space = space])
    /\ UNCHANGED <<chain, mutex, link, defined, server, database, faults, past>>

\* A call for the defined devices goes on, and counts those of the server it comes from.
Counted(u, n) ==
    call' = [call EXCEPT ![u].at = "ask", ![u].link = @ + 1, ![u].sizes = Append(@, n)]

Has(u) == Len(defined[Server(u)].list)

AskLeavesOut(u) ==
    /\ AtServer(u, "ask") /\ link[Server(u)] # None
    /\ Counted(u, Has(u))
    /\ UNCHANGED <<chain, mutex, link, defined, server, database, calls, faults, past>>

Ask(u) ==
    /\ AtServer(u, "ask") /\ link[Server(u)] = None
    /\ link' = [link EXCEPT ![Server(u)] = u]
    /\ Go(u, "answer")
    /\ UNCHANGED <<chain, mutex, defined, server, database, calls, faults, past>>

\* Mutant: the link is not released.
AskFailsClaimed(u) ==
    /\ AtServer(u, "answer") /\ MayFail(Server(u))
    /\ Counted(u, Has(u))
    /\ UNCHANGED <<chain, mutex, link, defined, server, database, calls, faults, past>>

\* No connection: the list that is kept has to do.
AskFails(u) ==
    /\ AtServer(u, "answer") /\ MayFail(Server(u))
    /\ link' = [link EXCEPT ![Server(u)] = None]
    /\ Counted(u, Has(u))
    /\ UNCHANGED <<chain, mutex, defined, server, database, calls, faults, past>>

\* If the data is lost on its way the list is empty, and the tag is stored all the same.
AfterAnswer(kept, tag, list) ==
    LET answer == Answer(kept.tag, tag, list) IN
    IF list = <<>> THEN {[tag |-> tag, list |-> <<>>, whole |-> TRUE]}
    ELSE IF answer.sent THEN {[tag |-> tag, list |-> Parsed(list), whole |-> TRUE],
                              [tag |-> tag, list |-> <<>>, whole |-> FALSE]}
    ELSE {[kept EXCEPT !.tag = tag]}

Answered(u) ==
    /\ AtServer(u, "answer")
    /\ LET s == Server(u) IN
       /\ \E after \in AfterAnswer(defined[s], Len(database[s]), Last(database[s])) :
             /\ defined' = [defined EXCEPT ![s] = after]
             /\ IF after.whole \/ ~defined[s].whole THEN UNCHANGED faults ELSE Fault
             /\ call' = [call EXCEPT ![u].at = "ask", ![u].link = @ + 1, ![u].asked = @ \cup {s},
                                     ![u].sizes = Append(@, Len(after.list))]
       /\ link' = [link EXCEPT ![s] = None]
    /\ Crossing(u)
    /\ UNCHANGED <<chain, mutex, server, database, calls>>

AnswerLost(u) ==
    /\ AtServer(u, "answer") /\ Fault
    /\ LET s == Server(u) IN
       /\ defined' = [defined EXCEPT ![s] = [tag |-> 0, list |-> <<>>, whole |-> TRUE]]
       /\ chain' = IF s = Home THEN Invalidated ELSE chain
       /\ link' = [link EXCEPT ![s] = None]
    /\ Counted(u, 0) /\ Crossing(u)
    /\ UNCHANGED <<mutex, server, database, calls>>

\* Mutant: devices without an id are told by it too.
DuplicateId(d, before) == \E e \in Range(before) : d.id = e.id

\* Devices of the servers before, or of the same name when there is no id to tell them by.
Duplicate(d, before) ==
    \E e \in Range(before) : IF d.id = 0 THEN d.name = e.name ELSE d.id = e.id

News(list, before) == Filtered(list, {d \in Range(list) : ~Duplicate(d, before)})

Joined ==
    LET joined[n \in 0 .. Len(Links)] ==
          IF n = 0 THEN <<>>
          ELSE joined[n - 1] \o News(defined[Links[n]].list, joined[n - 1])
    IN joined[Len(Links)]

\* The lists are those of now, the number of devices is that of the lists as they were counted.
Join(u) ==
    /\ AfterServers(u, "ask")
    /\ call' = IF call[u].space < Summed(call[u].sizes)
               THEN [call EXCEPT ![u].at = "done", ![u].result = "toomany", ![u].count = Summed(call[u].sizes)]
               ELSE [call EXCEPT ![u].at = "done", ![u].result = "ok", ![u].list = Joined, ![u].count = Len(Joined)]
    /\ UNCHANGED <<chain, mutex, link, defined, server, database, calls, faults, past>>

-----------------------------------------------------------------------------
ChainStep(u) ==
    \/ LockChain(u) \/ UnlockChain(u) \/ Relist(u) \/ ReadChain(u) \/ ScanChain(u)
    \/ Refresh(u) \/ RefreshRefused(u) \/ RefreshLost(u)
    \/ Store(u) \/ StoreTimeout(u) \/ Fill(u) \/ Stored(u)
    \/ LookInVain(u) \/ Look(u) \/ Copy(u) \/ EndCopy(u)

DefinedStep(u) ==
    \/ StartDefine(u) \/ Tell(u) \/ TellLost(u) \/ TellLeavesOut(u) \/ TellFails(u) \/ ReleaseAgain(u) \/ EndTell(u)
    \/ GetDefined(u) \/ AskLeavesOut(u) \/ Ask(u) \/ AskFails(u) \/ Answered(u) \/ AnswerLost(u) \/ Join(u)

Next == OtherScans \/ \E u \in Users : ChainStep(u) \/ DefinedStep(u) \/ Finish(u)

Spec == Init /\ [][Next]_vars

-----------------------------------------------------------------------------
Kept(list, tag, versions) == tag # 0 => list = versions[tag]

(* A tag is the tag of the list that is kept with it, names and all: the    *)
(* server sends no list to a program that has the tag of the present one    *)
(* (refresh_chain, refresh_defined_devices).  It holds until a thread is    *)
(* robbed of its claim, and of the chain's until a thread refreshes the     *)
(* list of a chain another thread has locked.                               *)
TagTellsList ==
    ~past.robbed =>
       /\ mutex = None /\ ~past.shared => Kept(chain.taps, chain.tag, ChainLists)
       /\ \A s \in Servers : defined[s].whole => Kept(defined[s].list, defined[s].tag, database[s])

(* Disproved by Answered: "If no data was sent by the server then this      *)
(* means the TAP list hasn't changed" (jtag_client_link.cpp, 1787).  When   *)
(* the data is lost the tag is stored with an empty list.                   *)
TagAlwaysTells == \A s \in Servers : Kept(defined[s].list, defined[s].tag, database[s])

(* read_device_chain returns one of the lists the server has had, never a   *)
(* mixture, although another thread may refresh it at the time; and under   *)
(* the lock the present one.  A list that does not fit is told in full      *)
(* length.  It holds until a thread refreshes the list of a chain another   *)
(* thread has locked, or is robbed of its claim.                            *)
ReadsOneList ==
    ~past.robbed /\ ~past.shared => \A u \in Users : At(u, "read", "done") =>
       /\ call[u].result # "error" =>
             \E tag \in 1 .. server :
                /\ call[u].list = SubSeq(ChainLists[tag], 1, Min({call[u].space, Len(ChainLists[tag])}))
                /\ call[u].count = Len(ChainLists[tag])
                /\ HasLocked(u) => tag = server
       /\ call[u].result = "toomany" <=> call[u].result # "error" /\ call[u].count > call[u].space

Same(d, e) == IF d.id = 0 THEN d.name = e.name ELSE d.id = e.id

(* get_defined_devices returns every device of each server that answered,   *)
(* and none twice, whatever the order of the servers and whichever of them  *)
(* did not answer; it writes no more devices than the caller has room for,  *)
(* and a list of the length it asks for is long enough.  It holds of every  *)
(* call during which no other thread refreshed a server's list.             *)
DefinedUnion ==
    ~past.robbed => \A u \in Users \ past.crossed : At(u, "get", "done") =>
       /\ call[u].result = "ok" =>
             LET list == call[u].list IN
             /\ \A s \in call[u].asked : defined[s].whole => \A d \in Range(Last(SubSeq(database[s], 1, defined[s].tag))) :
                   \E e \in Range(list) : Same(d, e)
             /\ \A i, j \in DOMAIN list : i # j /\ Same(list[i], list[j]) => list[i].id # list[j].id
             /\ Len(list) <= call[u].space
       /\ call[u].result = "toomany" => Len(Joined) <= call[u].count

(* Disproved: a thread that refreshes a server's list while another one     *)
(* joins them makes it write more devices than the caller has room for      *)
(* (get_defined_devices).                                                   *)
NeverOverruns == \A u \in Users : At(u, "get", "done") => Len(call[u].list) <= call[u].space

(* A call leaves nothing claimed: not the mutex of the list, nor a link,    *)
(* unless the chain is locked; and then the link stays claimed, until the   *)
(* second release of define_device takes a claim away from another thread.  *)
NothingHeld ==
    /\ \A u \in Users : call[u].at \in {"idle", "done"} =>
          /\ mutex # u
          /\ \A s \in Servers : link[s] = u => s = Home /\ chain.locked
    /\ chain.locked /\ ~past.robbed => link[Home] # None

(* Disproved by ReleaseAgain, against the assertion of JTAG_MUTEX::release  *)
(* (jtag_platform.h, 260).                                                  *)
LockKeepsLink == chain.locked => link[Home] # None
=============================================================================
