--------------------------------- MODULE Hubs ---------------------------------
(***************************************************************************)
(* The SLD hubs of one device, and the calls that read them, list their    *)
(* nodes and open one: aji_get_nodes, aji_open_node and aji_open_hub.      *)
(*                                                                         *)
(* A node of a hub may be a bridge to another hub.  A hub is named by its  *)
(* path: the positions, from 0, of the bridges that lead to it.  A call    *)
(* reads the hubs it needs with read_hub_information, which calls itself   *)
(* for the hub behind a bridge and passes the lock of the chain to and fro *)
(* as it goes.  stack holds those calls; each of their steps may fail.     *)
(***************************************************************************)
EXTENDS Integers, SequencesExt

CONSTANTS
    Worlds,          \* devices [possible, tree], see below
    Bridge, Idcodes, \* the idcodes of bridges, and of all nodes
    Wild,            \* 0xFF: any position, and the hub itself
    MAX_HIERARCHIES,
    QwordBits, IntBits,     \* the widths of QWORD and int
    MaxFaults        \* bound: steps of a call that fail

ASSUME HubsConstants ==
    /\ Bridge \in Idcodes /\ Wild \in Nat /\ MAX_HIERARCHIES \in Nat \ {0}
    /\ QwordBits \in Nat /\ IntBits \in 1 .. QwordBits /\ MaxFaults \in Nat

\* A hub is at its path, and each of its nodes has an idcode.
WorldTyped(w) ==
    /\ w.possible \in BOOLEAN
    /\ DOMAIN w.tree \subseteq Seq(Nat)
    /\ \A p \in DOMAIN w.tree : w.tree[p].nodes \in Seq(Idcodes) /\ w.tree[p].ir \in Nat

ASSUME HubsWorlds == \A w \in Worlds : WorldTyped(w)

VARIABLES
    world,  \* whether the device may have a hub, and the hubs there are: of each path, its
            \* nodes and the width of its IR
    lock,   \* who has the lock: the chain, the device of a hub, or nobody
    hubs,   \* the AJI_HUB objects of the call
    stack,  \* calls of read_hub_information, the innermost one last
    call,   \* the call of the program
    result, \* of the last call
    failed, \* paths whose read_hub_information failed in this call
    leaked  \* hubs whose device no call will close

hubsVars == <<world, lock, hubs, stack, call, result, failed, leaked>>

Tree == world.tree
NodesAt(p) == IF p \in DOMAIN Tree THEN Tree[p].nodes ELSE <<>>
Width(p) == IF p \in DOMAIN Tree THEN Tree[p].ir ELSE 0

Chain == [of |-> "chain", hub |-> <<>>]
NoHolder == [of |-> "nobody", hub |-> <<>>]
Device(p) == [of |-> "device", hub |-> p]

NewHub ==
    [open |-> FALSE,    \* m_hub_id
     known |-> FALSE,   \* m_hub_idcode
     nodes |-> "null"]  \* m_idcodes: or "garbage", "read"

Frame(p, bits, select) ==
    [hub |-> p, at |-> "open", i |-> 0, bits |-> bits, select |-> select, error |-> FALSE]

NoCall == [op |-> "none", at |-> "idle", id |-> [idcode |-> Bridge, positions |-> <<>>], room |-> 0, faults |-> 0]
NoNode == [path |-> <<>>, select |-> 0, length |-> 0]
NoResult == [op |-> "none", error |-> "none", list |-> <<>>, count |-> 0, written |-> 0, asked |-> NoCall.id, opened |-> NoNode]

HubsInit ==
    /\ world \in Worlds
    /\ lock = Chain
    /\ hubs = [p \in {} |-> NewHub]
    /\ stack = <<>>
    /\ call = NoCall
    /\ result = NoResult
    /\ failed = {}
    /\ leaked = {}

-----------------------------------------------------------------------------
(* Select bits.                                                            *)

HalvingsToZero[n \in Nat] == IF n = 0 THEN 0 ELSE 1 + HalvingsToZero[n \div 2]
ceil_log2(data) == IF data = 0 THEN 0 ELSE HalvingsToZero[data - 1]

\* Mutant: no select value is kept for the hub itself.
SelBitsOfNodes(p) == ceil_log2(Len(NodesAt(p)))

SelBits(p) == ceil_log2(Len(NodesAt(p)) + 1)

\* BYTE select = position + 1.
Select(position) == (position + 1) % (Wild + 1)

\* v | w.
BitOr(v, w) ==
    MapThenSumSet(LAMBDA k : IF (v \div 2 ^ k) % 2 = 1 \/ (w \div 2 ^ k) % 2 = 1 THEN 2 ^ k ELSE 0,
                  0 .. QwordBits - 1)

QShl(v, n) == (v * 2 ^ n) % 2 ^ QwordBits

\* v << n of an int, which is then widened to a QWORD: what the processor does with
\* a shift that is too far.
IntShl(v, n) ==
    LET r == (v * 2 ^ (n % IntBits)) % 2 ^ IntBits IN
    IF r < 2 ^ (IntBits - 1) THEN r ELSE 2 ^ QwordBits - 2 ^ IntBits + r

\* The overlay of the hub behind bridge i, which is aligned to the left.
ChildFrame(f, i) ==
    LET bits == f.bits + SelBits(f.hub) IN
    Frame(Append(f.hub, i), bits, BitOr(f.select, QShl(i + 1, QwordBits - bits)))

\* open_node, of the hub behind the first positions: its own field, and those of its parents.
\* The fields below level l are length[l] bits wide.
OpenNode(p, positions) ==
    LET level == Len(p)
        length[l \in 0 .. level] ==
            IF l = level THEN Width(p) ELSE length[l + 1] + SelBits(SubSeq(p, 1, l + 1))
        field(l) ==
            IF l = level THEN QShl(Select(positions[l + 1]), length[l])
            ELSE IntShl(Select(positions[l + 1]), length[l]) IN
    [path |-> positions, length |-> length[0] + SelBits(<<>>),
     select |-> FoldLeft(LAMBDA v, l : BitOr(v, field(l - 1)), 0, [k \in 1 .. level + 1 |-> k])]

-----------------------------------------------------------------------------
(* read_hub_information.                                                   *)

Top == Last(stack)
InHub(at) == stack # <<>> /\ Top.at = at
Step(f) == stack' = Append(Front(stack), f)
Hierarchical == call.op \notin {"get_nodes", "open_index"}

\* A step of the server's or of another client's that makes a command fail.
Fault == call.faults < MaxFaults /\ call' = [call EXCEPT !.faults = @ + 1]

\* Nothing is locked after it when the connection is lost, or when what fails is the lock
\* that a server older than version 7 is asked for and that was taken for granted: its
\* refusal is read by the exchange after aji_unlock_chain_lock.
FaultOfAny == Fault /\ lock' \in {lock, NoHolder}

\* Mutant: the child hubs are left alone.
DestroyedAlone(p) == {p}

\* ~AJI_HUB: the hubs that are deleted, and closed, with that of p.
Destroyed(p) == {q \in DOMAIN hubs : IsPrefix(p, q)}

\* The caller goes on with the next node, and with the error of this one.
Continued(f, error) == [f EXCEPT !.at = "scan", !.i = @ + 1, !.error = error]

\* The innermost call returns, with the hubs as they are in h.  Its caller keeps the hub
\* if there is one, or deletes it.
Returned(h, error) ==
    LET p == Top.hub
        caller == stack[Len(stack) - 1] IN
    /\ failed' = IF error THEN failed \cup {p} ELSE failed
    /\ IF Len(stack) = 1
       THEN /\ stack' = <<[Top EXCEPT !.at = "returned", !.error = error]>>
            /\ hubs' = h
       ELSE /\ stack' = Append(Front(Front(stack)), Continued(caller, error))
            /\ hubs' = IF h[p].known THEN h ELSE Restrict(h, DOMAIN h \ Destroyed(p))

\* aji_open_device: the chain must be locked.
OpenDevice ==
    /\ InHub("open")
    /\ LET p == Top.hub IN
       \/ ~world.possible /\ Returned(hubs, FALSE) /\ UNCHANGED <<call, lock>>
       \/ /\ world.possible /\ lock = Chain
          /\ hubs' = [hubs EXCEPT ![p].open = TRUE]
          /\ Step([Top EXCEPT !.at = "pass"])
          /\ UNCHANGED <<call, failed, lock>>
       \/ world.possible /\ lock # Chain /\ Returned(hubs, TRUE) /\ UNCHANGED <<call, lock>>
       \/ world.possible /\ FaultOfAny /\ Returned(hubs, TRUE)
    /\ UNCHANGED <<world, result, leaked>>

\* aji_unlock_chain_lock.  When it fails nothing is locked.
PassToHub ==
    /\ InHub("pass")
    /\ \/ /\ lock' = Device(Top.hub)
          /\ Step([Top EXCEPT !.at = "identify"])
          /\ UNCHANGED <<hubs, call, failed>>
       \/ lock' = NoHolder /\ Fault /\ Returned(hubs, TRUE)
    /\ UNCHANGED <<world, result, leaked>>

\* Mutant: the idcode of a single node is not read.
AfterIdcodeOfFew(p) == IF Len(NodesAt(p)) <= 1 THEN "scan" ELSE "nodes"

AfterIdcode(p) == IF NodesAt(p) = <<>> THEN "scan" ELSE "nodes"

\* The overlay is written and the idcode of the hub read.
Identify ==
    LET p == Top.hub
        there == p \in DOMAIN Tree
        wide == Top.bits + SelBits(p) + Width(p) > QwordBits
        found == [hubs EXCEPT ![p].known = TRUE] IN
    /\ InHub("identify")
    /\ \/ FaultOfAny /\ hubs' = hubs /\ Step([Top EXCEPT !.at = "back", !.error = TRUE])
       \/ /\ ~there
          /\ hubs' = hubs /\ Step([Top EXCEPT !.at = "back"])
          /\ UNCHANGED <<call, lock>>
       \/ /\ there /\ wide
          /\ hubs' = found /\ Step([Top EXCEPT !.at = "back", !.error = TRUE])
          /\ UNCHANGED <<call, lock>>
       \/ /\ there /\ ~wide
          /\ hubs' = found /\ Step([Top EXCEPT !.at = AfterIdcode(p)])
          /\ UNCHANGED <<call, lock>>
    /\ UNCHANGED <<world, result, failed, leaked>>

\* read_idcode of all nodes.
ReadNodes ==
    LET p == Top.hub IN
    /\ InHub("nodes")
    /\ \/ /\ hubs' = [hubs EXCEPT ![p].nodes = "read"]
          /\ Step([Top EXCEPT !.at = "scan"])
          /\ UNCHANGED <<call, lock>>
       \/ /\ FaultOfAny
          /\ hubs' = [hubs EXCEPT ![p].nodes = "garbage"]
          /\ Step([Top EXCEPT !.at = "back", !.error = TRUE])
    /\ UNCHANGED <<world, result, failed, leaked>>

\* Mutant: the lock stays with the device.
KeepLock(p) == UNCHANGED <<lock, call>>

\* aji_unlock_lock_chain, the result of which is not looked at: it does nothing when the
\* device is not locked, and when it fails nothing is.
BackToChain(p) ==
    IF lock # Device(p) THEN lock' = lock /\ UNCHANGED call
    ELSE \/ lock' = Chain /\ UNCHANGED call
         \/ lock' = NoHolder /\ Fault

\* The next bridge, from node i on.  An error of an earlier one does not end the loop.
ScanNodes ==
    LET p == Top.hub
        bridges == {i \in Top.i .. Len(NodesAt(p)) - 1 : NodesAt(p)[i + 1] = Bridge}
        i == CHOOSE j \in bridges : \A k \in bridges : j <= k
        child == ChildFrame(Top, i) IN
    /\ InHub("scan")
    /\ IF ~Hierarchical \/ bridges = {}
       THEN Step([Top EXCEPT !.at = "back"]) /\ UNCHANGED <<lock, hubs, call>>
       ELSE /\ hubs' = [q \in DOMAIN hubs \cup {child.hub} |-> IF q = child.hub THEN NewHub ELSE hubs[q]]
            /\ BackToChain(p)
            /\ stack' = Front(stack) \o <<[Top EXCEPT !.at = "child", !.i = i], child>>
    /\ UNCHANGED <<world, result, failed, leaked>>

Back ==
    /\ InHub("back")
    /\ BackToChain(Top.hub)
    /\ Returned(hubs, Top.error)
    /\ UNCHANGED <<world, result, leaked>>

-----------------------------------------------------------------------------
(* Listing: get_hier_ids.                                                  *)

NodeCount(p) == IF hubs[p].nodes = "null" THEN 0 ELSE Len(NodesAt(p))     \* m_idcode_n
Child(p, i) == NodesAt(p)[i + 1] = Bridge /\ Append(p, i) \in DOMAIN hubs

\* Mutant: only the position of the bridge is given to the nodes behind it.
CopiesNone(p) == FALSE

\* The upper positions are copied for the bridge that leads to hub p, "if (i > 0)".
CopiesUpper(p) == Last(p) > 0

\* The upper levels whose position the first node of a hub is given.
Positioned[p \in DOMAIN hubs] ==
    IF p = <<>> THEN {}
    ELSE {Len(p) - 1} \cup (IF CopiesUpper(p) THEN Positioned[Front(p)] ELSE {})

\* What the caller's memory holds where nothing is written.
Unset == Wild + 1

Positions(p, i) ==
    [l \in 1 .. Len(p) + 1 |->
        IF l = Len(p) + 1 THEN i ELSE IF l - 1 \in Positioned[p] THEN p[l] ELSE Unset]

Entry(p, i) == [idcode |-> NodesAt(p)[i + 1], positions |-> Positions(p, i)]

HierIds[p \in DOMAIN hubs] ==
    IF Len(p) >= MAX_HIERARCHIES THEN <<>>
    ELSE FlattenSeq([k \in 1 .. NodeCount(p) |->
            <<Entry(p, k - 1)>> \o (IF Child(p, k - 1) THEN HierIds[Append(p, k - 1)] ELSE <<>>)])

\* Mutant: the nodes behind bridges are not counted.
TopCount == NodeCount(<<>>)

\* get_hier_id_n: every node, of any level.
HierIdCount == MapThenSumSet(NodeCount, DOMAIN hubs)

\* The error of the last hub behind a bridge is the one that counts.
TooDeep[p \in DOMAIN hubs] ==
    \/ Len(p) >= MAX_HIERARCHIES
    \/ \E i \in 0 .. NodeCount(p) - 1 :
         /\ Child(p, i) /\ \A j \in i + 1 .. NodeCount(p) - 1 : ~Child(p, j)
         /\ TooDeep[Append(p, i)]

\* The element after the last node is written when a bridge is the last node and there
\* are no nodes behind it, or none that are listed.
WritesNext[p \in DOMAIN hubs] ==
    LET last == NodeCount(p) - 1 IN
    /\ last >= 0 /\ Child(p, last) /\ Len(p) < MAX_HIERARCHIES
    /\ HierIds[Append(p, last)] = <<>> \/ WritesNext[Append(p, last)]

-----------------------------------------------------------------------------
(* The calls of the program.                                               *)

\* Positions a program may ask for: those of a node, any node of a hub, and wrong ones.
NodePaths == UNION {{Append(p, i - 1) : i \in DOMAIN NodesAt(p)} : p \in DOMAIN Tree}
AskedPositions == NodePaths \cup {Append(p, Wild) : p \in DOMAIN Tree} \cup {Append(p, 0) : p \in NodePaths}
HierIdsAsked == [idcode : Idcodes, positions : AskedPositions]

Call(op, id, room) ==
    /\ call.at = "idle" /\ lock = Chain
    /\ call' = [op |-> op, at |-> "read", id |-> id, room |-> room, faults |-> 0]
    /\ hubs' = [p \in {<<>>} |-> NewHub]
    /\ stack' = <<Frame(<<>>, 0, 0)>>
    /\ result' = NoResult
    /\ failed' = {}
    /\ UNCHANGED <<world, lock, leaked>>

GetNodes == \E room \in {1, 99} : Call("get_nodes", NoCall.id, room)
GetHierNodes == \E room \in {1, 99} : Call("get_hier_nodes", NoCall.id, room)
OpenIndex == \E id \in {h \in HierIdsAsked : Len(h.positions) = 1} : Call("open_index", id, 0)
OpenHierNode == \E id \in HierIdsAsked : Call("open_node", id, 0)
OpenHub == \E id \in HierIdsAsked : Call("open_hub", id, 0)

\* The hubs of the call that are still open, when put_hub is called and when it is not.
StillOpen(gone) == {p \in DOMAIN hubs \ gone : hubs[p].open}

Return(r, put) ==
    /\ result' = [r EXCEPT !.op = call.op, !.asked = call.id]
    /\ leaked' = leaked \cup StillOpen(IF put THEN Destroyed(<<>>) ELSE {})
    /\ hubs' = [p \in {} |-> NewHub]
    /\ stack' = <<>>
    /\ call' = NoCall
    /\ UNCHANGED <<world, lock, failed>>

Error(error) == [NoResult EXCEPT !.error = error]
Read(op) == InHub("returned") /\ call.op = op

\* The number of nodes is returned even if reading failed.
ListNodes ==
    /\ Read("get_nodes")
    /\ Return(IF Top.error THEN Error("error")
              ELSE IF NodeCount(<<>>) > call.room THEN Error("too_many_devices")
              ELSE [Error("ok") EXCEPT !.list = [k \in 1 .. NodeCount(<<>>) |-> Entry(<<>>, k - 1)]], TRUE)

ListHierNodes ==
    LET list == HierIds[<<>>] IN
    /\ Read("get_hier_nodes")
    /\ Return(IF Top.error THEN Error("error")
              ELSE IF HierIdCount > call.room THEN Error("too_many_devices")
              ELSE [Error(IF TooDeep[<<>>] THEN "too_many_hierarchies" ELSE "ok") EXCEPT
                        !.list = list, !.count = HierIdCount, !.written = Len(list) + IF WritesNext[<<>>] THEN 1 ELSE 0], TRUE)

\* open_node of the device takes a select value above the bits of the node, below the end.
Accepted(node) ==
    LET own == 2 ^ Width(Front(node.path)) IN
    /\ node.select % own = 0
    /\ node.length < QwordBits => node.select + own <= 2 ^ node.length

\* A node is opened, or refused.
OpensNode(node) ==
    \/ Accepted(node) /\ Return([Error("ok") EXCEPT !.opened = node], TRUE)
    \/ Return(Error("error"), TRUE)

\* The nodes of a hub that match, or may: what m_idcodes holds when it was not read is arbitrary.
Count(p) == IF hubs[p].known THEN Len(NodesAt(p)) ELSE 0      \* get_node_count
Matches(p, position) ==
    {i \in 0 .. Count(p) - 1 :
        /\ position \in {Wild, i}
        /\ hubs[p].nodes = "garbage" \/ NodesAt(p)[i + 1] = call.id.idcode}
NoMatch(p, position) == Matches(p, position) = {} \/ hubs[p].nodes = "garbage"

\* Reading m_idcodes, or using m_hub_id, when it is NULL ends the process, and with it its devices and locks.
ReadsNull(p) == Count(p) > 0 /\ hubs[p].nodes = "null"
Crash ==
    /\ result' = [Error("crash") EXCEPT !.op = call.op, !.asked = call.id]
    /\ leaked' = {} /\ hubs' = [p \in {} |-> NewHub] /\ stack' = <<>> /\ call' = NoCall /\ lock' = Chain
    /\ UNCHANGED <<world, failed>>

\* No hub is put back when reading failed.
ReadFailed ==
    /\ call.op \in {"open_index", "open_node", "open_hub"}
    /\ InHub("returned") /\ Top.error
    /\ Return(Error("error"), FALSE)

OpenNodeOfTop ==
    LET position == call.id.positions[1] IN
    /\ Read("open_index") /\ ~Top.error
    /\ \/ \E i \in Matches(<<>>, position) :
            /\ \A j \in Matches(<<>>, position) : i <= j
            /\ OpensNode(OpenNode(<<>>, <<i>>))
       \/ NoMatch(<<>>, position) /\ Return(Error("no_match"), TRUE)

\* The way to the hub that the first positions lead to.
Way == Front(call.id.positions)
Lost ==
    /\ Way \notin DOMAIN hubs
    /\ LET l == CHOOSE n \in 1 .. Len(Way) : /\ SubSeq(Way, 1, n) \notin DOMAIN hubs
                                             /\ SubSeq(Way, 1, n - 1) \in DOMAIN hubs IN
       IF Way[l] < Count(SubSeq(Way, 1, l - 1)) THEN Return(Error("internal_error"), FALSE)
       ELSE Return(Error("no_match"), TRUE)

OpenNodeOfHub ==
    LET position == Last(call.id.positions) IN
    /\ Read("open_node") /\ ~Top.error
    /\ \/ Lost
       \/ Way \in DOMAIN hubs /\ ReadsNull(Way) /\ Crash
       \/ /\ Way \in DOMAIN hubs /\ ~ReadsNull(Way)
          /\ \/ Matches(Way, position) # {} /\ OpensNode(OpenNode(Way, call.id.positions))
             \/ NoMatch(Way, position) /\ Return(Error("no_match"), TRUE)

OpenHubItself ==
    /\ Read("open_hub") /\ ~Top.error
    /\ \/ Lost
       \/ Way \in DOMAIN hubs /\ hubs[Way].open /\ OpensNode(OpenNode(Way, Append(Way, Wild)))
       \/ Way \in DOMAIN hubs /\ ~hubs[Way].open /\ Crash

\* The program locks the chain again, when it can.
Relock ==
    /\ call.at = "idle" /\ lock = NoHolder
    /\ lock' = Chain
    /\ UNCHANGED <<world, hubs, stack, call, result, failed, leaked>>

HubsNext ==
    \/ GetNodes \/ GetHierNodes \/ OpenIndex \/ OpenHierNode \/ OpenHub
    \/ OpenDevice \/ PassToHub \/ Identify \/ ReadNodes \/ ScanNodes \/ Back
    \/ ListNodes \/ ListHierNodes \/ ReadFailed \/ OpenNodeOfTop \/ OpenNodeOfHub \/ OpenHubItself
    \/ Relock

HubsSpec == HubsInit /\ [][HubsNext]_hubsVars

-----------------------------------------------------------------------------
(* Properties.                                                             *)

\* The calls on the stack are those of the hubs on one path, and their hubs exist.
HubsTypeOK ==
    /\ lock \in {Chain, NoHolder} \cup {Device(p) : p \in DOMAIN hubs}
    /\ \A p \in DOMAIN hubs : p # <<>> => Front(p) \in DOMAIN hubs
    /\ \A k \in DOMAIN stack :
         /\ Len(stack[k].hub) = k - 1 /\ stack[k].hub \in DOMAIN hubs
         /\ IsPrefix(stack[k].hub, Top.hub)
    /\ (stack = <<>>) = (call.at = "idle")
    /\ failed \subseteq Seq(Nat) /\ leaked \subseteq DOMAIN Tree \cup {<<>>}

\* "Pass lock from device to chain atomically": read_hub_information and its callers see the
\* chain locked, or nothing when it was lost; a device has the lock only while its hub is read.
LockFollows ==
    /\ HubsTypeOK
    /\ InHub("identify") \/ InHub("nodes") => lock = Device(Top.hub)
    /\ lock.of = "device" =>
         /\ \E at \in {"identify", "nodes", "scan", "back"} : InHub(at)
         /\ lock.hub = Top.hub /\ hubs[lock.hub].open

\* A call that does not fail leaves no hub open: "this will also release its child hubs".
\* One that fails may, as some of the error returns do not put the hub back.
ReleasedOnSuccess ==
    [][result'.error \in {"ok", "no_match", "too_many_devices", "too_many_hierarchies"}
         => leaked' \subseteq leaked]_hubsVars

\* The way to a node in the order in which nodes are listed.
Precedes(m, n) ==
    \/ IsPrefix(m, n) /\ m # n
    \/ \E l \in DOMAIN m \cap DOMAIN n : m[l] < n[l] /\ \A k \in 1 .. l - 1 : m[k] = n[k]

\* The last node of all is a bridge to a hub that has no nodes.
EndsInEmptyHub == \E n \in NodePaths :
    /\ \A m \in NodePaths \ {n} : Precedes(m, n)
    /\ n \in DOMAIN Tree /\ NodesAt(n) = <<>>

\* The array of the nodes is overrun by one element when they end in an empty hub, the
\* position of the bridge to which is written behind it; and by nothing else.
WithinArray ==
    /\ result.written <= result.count + 1
    /\ result.written > result.count => EndsInEmptyHub
    /\ result.op = "get_hier_nodes" /\ result.error = "ok" /\ failed = {} /\ EndsInEmptyHub =>
         result.written > result.count

\* Disproved: "Check the size allocated by caller".
WithinAllocated == result.written <= result.count

\* When no hub failed, the list has the nodes of all levels that fit, each at its place, with
\* its idcode and positions.  The upper positions are missing below a bridge that is the
\* first node of its hub, if that is not the top hub.
ListsTree ==
    /\ WithinArray
    /\ result.op = "get_hier_nodes" /\ result.error \in {"ok", "too_many_hierarchies"} /\ failed = {} =>
        LET listed == {n \in NodePaths : Len(n) <= MAX_HIERARCHIES} IN
        /\ Len(result.list) = Cardinality(listed)
        /\ \A n \in listed :
             LET entry == result.list[1 + Cardinality({m \in listed : Precedes(m, n)})] IN
             /\ entry.idcode = NodesAt(Front(n))[Last(n) + 1]
             /\ Len(entry.positions) = Len(n)
             /\ \A l \in DOMAIN n :
                  (\A m \in l + 1 .. Len(n) - 1 : n[m] > 0) => entry.positions[l] = n[l]

\* Disproved: get_hier_ids: "other nodes need to copy the them from the first node": every node has all its positions.
PositionsSet == \A k \in DOMAIN result.list : Unset \notin ToSet(result.list[k].positions)

\* The bits of the overlay value below the select bits of level l: those of the lower
\* levels, above the ones that the last hub has below.
Below(node, l, below) ==
    below + FoldFunction(LAMBDA a, b : a + b, 0, [m \in l + 1 .. Len(node) |-> SelBits(SubSeq(node, 1, m - 1))])

\* Each hub takes its select bits, the first ones, and finds the position in them.
Leads(node, select, below) == \A l \in DOMAIN node :
    (select \div 2 ^ Below(node, l, below)) % 2 ^ SelBits(SubSeq(node, 1, l - 1)) = Select(node[l])

\* The upper positions, where they are shifted to, are numbers of an int.
FitsInt(node, below) == \A l \in 1 .. Len(node) - 1 :
    Select(node[l]) * 2 ^ Below(node, l, below) < 2 ^ (IntBits - 1)

\* The node that was asked for, and was found by its idcode, is at its path; 0xFF stands
\* for any node of the hub, but it is the hub itself that is opened then.
FoundNode ==
    LET path == result.opened.path IN
    /\ Front(path) = IF result.op = "open_index" THEN <<>> ELSE Front(result.asked.positions)
    /\ Last(path) # Wild /\ failed = {} => NodesAt(Front(path))[Last(path) + 1] = result.asked.idcode

\* The overlay value that a hub is read with leads to that hub, at any depth; the one that a
\* node is opened with leads to the node that was found, exactly if the upper positions fit
\* into an int.
LeadsToNode ==
    /\ \A k \in DOMAIN stack : stack[k].select \in 0 .. 2 ^ QwordBits - 1
    /\ InHub("identify") => Leads(Top.hub, Top.select, QwordBits - Top.bits)
    /\ result.opened.path # <<>> =>
         LET path == result.opened.path
             below == Width(Front(path)) IN
         FoundNode /\ (Leads(path, result.opened.select, below) <=> FitsInt(path, below))

\* Disproved: "Maximum number of IR bits supported is 64": the value leads to the node.
LeadsAnyWidth ==
    LET path == result.opened.path IN
    path # <<>> => Leads(path, result.opened.select, Width(Front(path)))

\* Disproved: aji_open_node: "Target the matching node in this hierarchy level".
OpensMatching ==
    result.op = "open_node" /\ result.opened.path # <<>> => Last(result.opened.path) # Wild

\* A NULL pointer is used only when a hub could not be read, the error of which that of
\* another hub has replaced; or to open the hub of a device that cannot have one.
NoCrash == result.error = "crash" => failed # {} \/ (result.op = "open_hub" /\ ~world.possible)

=============================================================================
