-------------------------- MODULE DeviceLists_proofs --------------------------
(***************************************************************************)
(* Proofs about DeviceLists: types, that nothing stays held when every     *)
(* call has ended, that a list is read whole and with the tag it was sent  *)
(* with, and that the defined devices are the union of those of the        *)
(* servers.  The invariants they rest on are, per call, what it holds      *)
(* (ClaimsOf), what it has read (ReadingOf) and what it has got            *)
(* (GettingOf), and of the lists what the client keeps (Keeps) and that    *)
(* none has a device twice (Apart).                                        *)
(***************************************************************************)
EXTENDS DeviceLists, Lists_proofs

-----------------------------------------------------------------------------
(* What the operators on lists give.                                        *)

\* The bytes of an entry.
LEMMA BytesTyped ==
    ASSUME NEW list \in Seq(Devices)
    PROVE  /\ [i \in DOMAIN list |-> NameLength[list[i].name] + 1] \in Seq(Nat)
           /\ Len([i \in DOMAIN list |-> NameLength[list[i].name] + 1]) = Len(list)
<1> DEFINE n == Len(list)
           b == [i \in 1 .. n |-> NameLength[list[i].name] + 1]
<1>1. n \in Nat /\ DOMAIN list = 1 .. n
  OBVIOUS
<1>2. ASSUME NEW i \in 1 .. n
      PROVE  NameLength[list[i].name] + 1 \in Nat
  <2>1. list[i] \in Devices
    OBVIOUS
  <2>2. list[i].name \in DOMAIN NameLength
    BY <2>1 DEF Devices
  <2> QED BY <2>2, ListsData
<1> HIDE DEF n
<1>3. b \in [1 .. n -> Nat]
  BY <1>2
<1>4. b \in Seq(Nat) /\ Len(b) = n
  BY <1>1, <1>3
<1> QED BY <1>1, <1>4 DEF n

\* Every name finds room: a list that was counted is read as it was sent.
LEMMA ParsedSame == ASSUME NEW list \in Seq(Devices) PROVE Parsed(list) = list
<1> SUFFICES ASSUME NEW i \in DOMAIN list PROVE Fits(list, i, Room(list))
  <2>1. Parsed(list) = [i \in DOMAIN list |-> list[i]]
    BY DEF Parsed
  <2>2. list = [i \in DOMAIN list |-> list[i]]
    OBVIOUS
  <2> QED BY <2>1, <2>2
<1> DEFINE first == SubSeq(list, 1, i - 1)
           b == [j \in DOMAIN list |-> NameLength[list[j].name] + 1]
           a == [j \in DOMAIN first |-> NameLength[first[j].name] + 1]
           c == SubSeq(b, i + 1, Len(b))
<1>1. i \in 1 .. Len(list) /\ Len(list) \in Nat
  OBVIOUS
<1>2. /\ first \in Seq(Devices) /\ Len(first) = i - 1
      /\ \A j \in 1 .. i - 1 : first[j] = list[j]
  BY <1>1
<1>3. b \in Seq(Nat) /\ Len(b) = Len(list)
  BY BytesTyped
<1>4. a \in Seq(Nat) /\ Len(a) = i - 1
  <2> HIDE DEF first
  <2> QED BY <1>2, BytesTyped
<1>5. \A j \in 1 .. i - 1 : a[j] = b[j]
  <2> HIDE DEF first
  <2>1. DOMAIN first = 1 .. i - 1
    BY <1>2
  <2>2. \A j \in 1 .. i - 1 : j \in DOMAIN list
    BY <1>1
  <2> QED BY <1>2, <2>1, <2>2
<1>6. b[i] = NameLength[list[i].name] + 1 /\ b[i] \in Nat
  BY <1>1, <1>3
<1>a. NameLength[list[i].name] \in Nat
  <2>1. list[i] \in Devices
    OBVIOUS
  <2>2. list[i].name \in DOMAIN NameLength
    BY <2>1 DEF Devices
  <2> QED BY <2>2, ListsData
<1>b. Room(list) = Summed(b) /\ Room(first) = Summed(a)
  BY DEF Room
<1> HIDE DEF a, b, first
<1>7. c \in Seq(Nat) /\ Len(c) = Len(list) - i /\ \A j \in 1 .. Len(list) - i : c[j] = b[i + j]
  <2>1. i + 1 \in Int /\ Len(b) \in Int /\ \A j \in i + 1 .. Len(b) : b[j] \in Nat
    BY <1>1, <1>3
  <2>2. /\ c \in Seq(Nat)
        /\ Len(c) = IF i + 1 <= Len(b) THEN Len(b) - (i + 1) + 1 ELSE 0
        /\ \A j \in 1 .. Len(b) - (i + 1) + 1 : c[j] = b[i + 1 + j - 1]
    BY <2>1, SubSeqProperties
  <2> HIDE DEF c
  <2>3. \A j \in 1 .. Len(list) - i : c[j] = b[i + j]
    <3> TAKE j \in 1 .. Len(list) - i
    <3>1. j \in 1 .. Len(b) - (i + 1) + 1 /\ i + 1 + j - 1 = i + j
      BY <1>1, <1>3
    <3> QED BY <2>2, <3>1
  <2>4. Len(c) = Len(list) - i
    BY <1>1, <1>3, <2>2
  <2> QED BY <2>2, <2>3, <2>4
<1>8. b = Append(a, b[i]) \o c
  <2> HIDE DEF c
  <2>1. Append(a, b[i]) \in Seq(Nat) /\ Len(Append(a, b[i])) = i
    BY <1>1, <1>4, <1>6
  <2>2. \A j \in 1 .. i : Append(a, b[i])[j] = b[j]
    BY <1>1, <1>4, <1>5
  <2> DEFINE d == Append(a, b[i])
  <2> HIDE DEF d
  <2>3. d \in Seq(Nat) /\ Len(d) = i /\ \A j \in 1 .. i : d[j] = b[j]
    BY <2>1, <2>2 DEF d
  <2>4. d \o c \in Seq(Nat) /\ Len(d \o c) = Len(b)
    <3>1. d \o c \in Seq(Nat) /\ Len(d \o c) = Len(d) + Len(c)
      BY <1>7, <2>3, ConcatProperties
    <3> QED BY <1>1, <1>3, <1>7, <2>3, <3>1
  <2>5. ASSUME NEW j \in 1 .. Len(b)
        PROVE  (d \o c)[j] = b[j]
    <3>1. (d \o c)[j] = IF j <= Len(d) THEN d[j] ELSE c[j - Len(d)]
      <4>1. j \in 1 .. Len(d) + Len(c)
        BY <1>1, <1>3, <1>7, <2>3
      <4> QED BY <1>7, <2>3, <4>1, ConcatProperties
    <3>2. CASE j <= i
      BY <1>1, <2>3, <3>1, <3>2
    <3>3. CASE ~(j <= i)
      <4>1. j - i \in 1 .. Len(list) - i /\ i + (j - i) = j
        BY <1>1, <1>3, <3>3
      <4> QED BY <1>7, <2>3, <3>1, <3>3, <4>1
    <3> QED BY <3>2, <3>3
  <2>6. d \o c = b
    BY <1>3, <2>4, <2>5, SeqEqual
  <2> QED BY <2>6 DEF d
<1>9. Summed(b) >= Summed(a) + b[i] /\ Summed(a) \in Nat /\ Summed(b) \in Nat
  <2> HIDE DEF c
  <2>1. Append(a, b[i]) \in Seq(Nat)
    BY <1>4, <1>6
  <2>2. Summed(Append(a, b[i])) <= Summed(Append(a, b[i]) \o c)
    BY <1>7, <2>1, SummedMore
  <2>3. Summed(Append(a, b[i])) = Summed(a) + b[i]
    BY <1>4, <1>6, SummedAppend
  <2>4. Summed(a) \in Nat /\ Summed(b) \in Nat
    BY <1>3, <1>4, SummedTyped
  <2> QED BY <1>8, <2>2, <2>3, <2>4
<1>10. Room(first) + NameLength[list[i].name] < Room(list)
  BY <1>6, <1>9, <1>a, <1>b
<1> QED BY <1>10 DEF Fits, first

\* The devices that are new.
LEMMA NewsTyped ==
    ASSUME NEW list \in Seq(Devices), NEW before
    PROVE  News(list, before) \in Seq(Devices)
<1> DEFINE S == {d \in Range(list) : ~Duplicate(d, before)}
<1> HIDE DEF S
<1>1. Filtered(list, S) \in Seq(Devices)
  BY FilteredTyped
<1> QED BY <1>1 DEF News, S

\* f is the function behind Joined.
Joins(f) ==
    /\ f[0] = <<>>
    /\ \A n \in 1 .. Len(Links) : f[n] = f[n - 1] \o News(defined[Links[n]].list, f[n - 1])

\* There is such a function, its values are lists of devices.
LEMMA JoinedBy ==
    ASSUME \A s \in Servers : defined[s].list \in Seq(Devices)
    PROVE  \E f : Joins(f) /\ f \in [0 .. Len(Links) -> Seq(Devices)] /\ Joined = f[Len(Links)]
<1> DEFINE N == Len(Links)
           V == Seq(Devices)
           step == [p \in (1 .. N) \X V |-> p[2] \o News(defined[Links[p[1]]].list, p[2])]
           Is(f) == f = [n \in 0 .. N |-> IF n = 0 THEN <<>>
                                          ELSE f[n - 1] \o News(defined[Links[n]].list, f[n - 1])]
           g == CHOOSE f : Is(f)
<1>1. N \in Nat /\ \A n \in 1 .. N : Links[n] \in Servers
  BY ListsData
<1>2. step \in [(1 .. N) \X V -> V]
  <2>1. ASSUME NEW p \in (1 .. N) \X V
        PROVE  p[2] \o News(defined[Links[p[1]]].list, p[2]) \in V
    <3>1. p[1] \in 1 .. N /\ p[2] \in V
      OBVIOUS
    <3>2. News(defined[Links[p[1]]].list, p[2]) \in V
      BY <1>1, <3>1, NewsTyped
    <3> QED BY <3>1, <3>2
  <2> HIDE DEF N, V
  <2> QED BY <2>1
<1>3. PICK f \in [0 .. N -> V] : Recurs(f, N, <<>>, step)
  <2> HIDE DEF step, N
  <2>1. <<>> \in V
    OBVIOUS
  <2> HIDE DEF V
  <2> QED BY <1>1, <1>2, <2>1, RecursionUpto
<1>6. Joined = g[N]
  BY DEF Joined
<1> HIDE DEF N
<1>4. Is(f)
  <2>1. ASSUME NEW n \in 0 .. N, n # 0
        PROVE  f[n] = f[n - 1] \o News(defined[Links[n]].list, f[n - 1])
    <3>1. n \in 1 .. N /\ n - 1 \in 0 .. N
      BY <1>1, <2>1
    <3>2. f[n] = step[<<n, f[n - 1]>>]
      BY <1>3, <3>1 DEF Recurs
    <3> QED BY <3>1, <3>2
  <2> HIDE DEF step
  <2> QED BY <1>3, <2>1 DEF Recurs
<1>5. Is(g)
  BY <1>4
<1> HIDE DEF g
<1>7. Joins(g)
  <2>1. g[0] = <<>>
    BY <1>1, <1>5
  <2>2. ASSUME NEW n \in 1 .. N
        PROVE  g[n] = g[n - 1] \o News(defined[Links[n]].list, g[n - 1])
    <3>1. n \in 0 .. N /\ n # 0
      BY <1>1
    <3> QED BY <1>5, <3>1
  <2> QED BY <2>1, <2>2 DEF Joins, N
<1>8. g \in [0 .. N -> V]
  <2> DEFINE R == {n \in Nat : n <= N => g[n] \in V}
  <2>1. 0 \in R
    <3>1. <<>> \in V
      OBVIOUS
    <3> QED BY <1>7, <3>1 DEF Joins
  <2>2. ASSUME NEW n \in Nat, n \in R
        PROVE  n + 1 \in R
    <3> SUFFICES ASSUME n + 1 <= N PROVE g[n + 1] \in V
      OBVIOUS
    <3>1. n + 1 \in 1 .. N /\ (n + 1) - 1 = n /\ g[n] \in V
      BY <1>1, <2>2
    <3>2. g[n + 1] = g[n] \o News(defined[Links[n + 1]].list, g[n])
      BY <1>7, <3>1 DEF Joins, N
    <3>3. News(defined[Links[n + 1]].list, g[n]) \in V
      BY <1>1, <3>1, NewsTyped
    <3> QED BY <3>1, <3>2, <3>3
  <2> HIDE DEF R
  <2>3. \A n \in Nat : n \in R
    BY <2>1, <2>2, NatInductionOnSet
  <2>4. \A n \in 0 .. N : g[n] \in V
    BY <1>1, <2>3 DEF R
  <2>5. DOMAIN g = 0 .. N  /\ g = [n \in 0 .. N |-> g[n]]
    BY <1>5
  <2> QED BY <2>4, <2>5
<1> QED BY <1>6, <1>7, <1>8 DEF N

-----------------------------------------------------------------------------
(* Types.                                                                   *)

Answers == [tag : Nat, list : Seq(Devices), sent : BOOLEAN]
Ops == {"none", "read", "scan", "define", "undefine", "get"}
Ats == {"idle", "refresh", "store", "fill", "look", "copy", "tell", "again", "ask", "answer", "done"}
Results == {"none", "ok", "error", "toomany"}

Places == Nat \ {0}

Calls == [op : Ops, at : Ats, space : Nat, scan : BOOLEAN, answer : Answers, list : Seq(Devices),
          link : Places, device : Devices \cup {None}, result : Results, count : Nat,
          sizes : Seq(Nat), asked : SUBSET Servers]

\* A call that tells the servers of a device has one.
Sound(c) == c \in Calls /\ (c.at \in {"tell", "again"} => c.device \in Devices)

CallTyped ==
    /\ call \in [Users -> Calls]
    /\ \A u \in Users : Sound(call[u])

Typed ==
    /\ chain \in [tag : Nat, taps : Seq(Devices), valid : BOOLEAN, locked : BOOLEAN]
    /\ mutex \in Users \cup {None}
    /\ link \in [Servers -> Users \cup {None}]
    /\ defined \in [Servers -> [tag : Nat, list : Seq(Devices), whole : BOOLEAN]]
    /\ server \in 0 .. Len(ChainLists)
    /\ database \in [Servers -> Seq(Seq(Devices))]
    /\ \A s \in Servers : Len(database[s]) >= 1
    /\ CallTyped

\* What has happened.
PastTyped == past \in [robbed : BOOLEAN, shared : BOOLEAN, crossed : SUBSET Users]

\* A claim is robbed, a list refreshed, for good; only a thread that has ended its call
\* is not crossed any more.
LEMMA PastNext ==
    ASSUME PastTyped, [Next]_vars
    PROVE  PastTyped' /\ (past.robbed => past'.robbed) /\ (past.shared => past'.shared)
<1>1. CASE UNCHANGED past
  BY <1>1 DEF PastTyped
<1>2. ASSUME NEW b \in BOOLEAN, past' = [past EXCEPT !.robbed = @ \/ b]
      PROVE  PastTyped' /\ (past.robbed => past'.robbed) /\ (past.shared => past'.shared)
  BY <1>2 DEF PastTyped
<1>3. ASSUME NEW b \in BOOLEAN, past' = [past EXCEPT !.shared = @ \/ b]
      PROVE  PastTyped' /\ (past.robbed => past'.robbed) /\ (past.shared => past'.shared)
  BY <1>3 DEF PastTyped
<1>4. ASSUME NEW c \in SUBSET Users, past' = [past EXCEPT !.crossed = c]
      PROVE  PastTyped' /\ (past.robbed => past'.robbed) /\ (past.shared => past'.shared)
  BY <1>4 DEF PastTyped
<1>5. ASSUME NEW u \in Users, ReleaseAgain(u)
      PROVE  \E b \in BOOLEAN : past' = [past EXCEPT !.robbed = @ \/ b]
  BY <1>5 DEF ReleaseAgain, Robbing
<1>6. ASSUME NEW u \in Users, ReadChain(u) \/ ScanChain(u)
      PROVE  \E b \in BOOLEAN : past' = [past EXCEPT !.shared = @ \/ b]
  <2>1. (chain.locked /\ ~HasLocked(u)) \in BOOLEAN
    OBVIOUS
  <2> QED BY <1>6, <2>1 DEF ReadChain, ScanChain, Sharing
<1>7. ASSUME NEW u \in Users, Answered(u) \/ AnswerLost(u) \/ Finish(u)
      PROVE  \E c \in SUBSET Users : past' = [past EXCEPT !.crossed = c]
  <2>1. past.crossed \cup {v \in Users \ {u} : call[v].op = "get"} \in SUBSET Users /\ past.crossed \ {u} \in SUBSET Users
    BY DEF PastTyped
  <2> QED BY <1>7, <2>1 DEF Answered, AnswerLost, Finish, Crossing
<1>8. ASSUME NEW u \in Users, ChainStep(u), ~ReadChain(u), ~ScanChain(u)
      PROVE  UNCHANGED past
  BY <1>8 DEF ChainStep, LockChain, UnlockChain, Relist, Refresh, RefreshRefused, RefreshLost,
              Store, StoreTimeout, Fill, Stored, LookInVain, Look, Copy, EndCopy
<1>9. ASSUME NEW u \in Users, DefinedStep(u), ~ReleaseAgain(u), ~Answered(u), ~AnswerLost(u)
      PROVE  UNCHANGED past
  BY <1>9 DEF DefinedStep, StartDefine, Tell, TellLost, TellLeavesOut, TellFails, EndTell,
              GetDefined, AskLeavesOut, Ask, AskFails, Join
<1>10. CASE UNCHANGED vars \/ OtherScans
  BY <1>1, <1>10 DEF vars, OtherScans
<1> QED BY <1>1, <1>2, <1>3, <1>4, <1>5, <1>6, <1>7, <1>8, <1>9, <1>10 DEF Next

\* A call that is replaced by a sound one.
LEMMA CallReplaced ==
    ASSUME CallTyped, NEW u \in Users, NEW c, Sound(c), call' = [call EXCEPT ![u] = c]
    PROVE  CallTyped' /\ call'[u] = c /\ \A v \in Users : v # u => call'[v] = call[v]
BY DEF CallTyped, Sound

\* A call goes on.
LEMMA GoSound ==
    ASSUME CallTyped, NEW u \in Users, NEW at \in Ats \ {"tell", "again"}, Go(u, at)
    PROVE  CallTyped' /\ call'[u] = [call[u] EXCEPT !.at = at] /\ \A v \in Users : v # u => call'[v] = call[v]
<1> DEFINE c == [call[u] EXCEPT !.at = at]
<1>1. Sound(c)
  <2>1. call[u] \in Calls
    BY DEF CallTyped
  <2> QED BY <2>1 DEF Sound, Calls
<1>2. call' = [call EXCEPT ![u] = c]
  BY DEF Go
<1> HIDE DEF c
<1>3. CallTyped' /\ call'[u] = c /\ \A v \in Users : v # u => call'[v] = call[v]
  BY <1>1, <1>2, CallReplaced
<1> QED BY <1>3 DEF c

\* A call ends.
LEMMA DoneSound ==
    ASSUME CallTyped, NEW u \in Users, NEW result \in Results, Done(u, result)
    PROVE  /\ CallTyped' /\ \A v \in Users : v # u => call'[v] = call[v]
           /\ call'[u] = [call[u] EXCEPT !.at = "done", !.result = result]
<1> DEFINE c == [call[u] EXCEPT !.at = "done", !.result = result]
<1>1. Sound(c)
  <2>1. call[u] \in Calls
    BY DEF CallTyped
  <2> QED BY <2>1 DEF Sound, Calls, Ats
<1>2. call' = [call EXCEPT ![u] = c]
  BY DEF Done
<1> HIDE DEF c
<1>3. CallTyped' /\ call'[u] = c /\ \A v \in Users : v # u => call'[v] = call[v]
  BY <1>1, <1>2, CallReplaced
<1> QED BY <1>3 DEF c

\* A call starts.
LEMMA StartSound ==
    ASSUME CallTyped, NEW u \in Users, NEW c, Sound(c), Start(u, c)
    PROVE  CallTyped' /\ call[u].at = "idle" /\ call'[u] = c /\ \A v \in Users : v # u => call'[v] = call[v]
<1>1. call' = [call EXCEPT ![u] = c] /\ call[u].at = "idle"
  BY DEF Start
<1> QED BY <1>1, CallReplaced

\* A call with other fields is a call.
LEMMA AtChanged ==
    ASSUME NEW c \in Calls, NEW at \in Ats
    PROVE  [c EXCEPT !.at = at] \in Calls /\ [c EXCEPT !.at = at].at = at /\ [c EXCEPT !.at = at].device = c.device
BY DEF Calls

\* Its answer as well.
LEMMA AnswerChanged ==
    ASSUME NEW c \in Calls, NEW at \in Ats, NEW answer \in Answers
    PROVE  [c EXCEPT !.at = at, !.answer = answer] \in Calls /\ [c EXCEPT !.at = at, !.answer = answer].at = at
BY DEF Calls

\* The place of its device in the list of a link as well.
LEMMA LinkChanged ==
    ASSUME NEW c \in Calls, NEW at \in Ats, NEW n \in Places
    PROVE  /\ [c EXCEPT !.at = at, !.link = n] \in Calls /\ [c EXCEPT !.at = at, !.link = n].at = at
           /\ [c EXCEPT !.at = at, !.link = n].device = c.device
BY DEF Calls

\* Its count as well.
LEMMA CountChanged ==
    ASSUME NEW c \in Calls, NEW at \in Ats, NEW count \in Nat
    PROVE  [c EXCEPT !.at = at, !.count = count] \in Calls /\ [c EXCEPT !.at = at, !.count = count].at = at
BY DEF Calls

\* A call goes to the next server.
LEMMA AdvanceSound ==
    ASSUME CallTyped, NEW u \in Users, NEW at \in Ats, Advance(u, at),
           at = "ask" \/ call[u].at \in {"tell", "again"}
    PROVE  /\ CallTyped' /\ \A v \in Users : v # u => call'[v] = call[v]
           /\ call'[u] = [call[u] EXCEPT !.at = at, !.link = call[u].link + 1]
<1> DEFINE c == [call[u] EXCEPT !.at = at, !.link = call[u].link + 1]
<1>1. Sound(c)
  <2>1. call[u] \in Calls /\ Sound(call[u])
    BY DEF CallTyped
  <2>2. call[u].link \in Places
    BY <2>1 DEF Calls
  <2>3. call[u].link + 1 \in Places
    BY <2>2 DEF Places
  <2>4. PICK n \in Places : n = call[u].link + 1
    BY <2>3
  <2>5. c = [call[u] EXCEPT !.at = at, !.link = n]
    BY <2>4
  <2> DEFINE d == call[u]
  <2> HIDE DEF d
  <2>7. d \in Calls
    BY <2>1 DEF d
  <2>8. [d EXCEPT !.at = at, !.link = n] \in Calls
    BY <2>7, LinkChanged
  <2>9. [d EXCEPT !.at = at, !.link = n].at = at /\ [d EXCEPT !.at = at, !.link = n].device = d.device
    BY <2>7 DEF Calls
  <2>6. c \in Calls /\ c.at = at /\ c.device = call[u].device
    <3> HIDE DEF c
    <3> QED BY <2>5, <2>8, <2>9 DEF d
  <2> HIDE DEF c
  <2> QED BY <2>1, <2>6 DEF Sound
<1>2. call' = [call EXCEPT ![u] = c]
  BY DEF Advance
<1> HIDE DEF c
<1>3. CallTyped' /\ call'[u] = c /\ \A v \in Users : v # u => call'[v] = call[v]
  BY <1>1, <1>2, CallReplaced
<1> QED BY <1>3 DEF c

\* A call goes to the next server and counts the devices of this one.
LEMMA CountedSound ==
    ASSUME CallTyped, NEW u \in Users, NEW n \in Nat, Counted(u, n)
    PROVE  /\ CallTyped' /\ \A v \in Users : v # u => call'[v] = call[v]
           /\ call'[u] = [call[u] EXCEPT !.at = "ask", !.link = call[u].link + 1, !.sizes = Append(call[u].sizes, n)]
<1> DEFINE c == [call[u] EXCEPT !.at = "ask", !.link = call[u].link + 1, !.sizes = Append(call[u].sizes, n)]
<1>1. Sound(c)
  <2>1. call[u] \in Calls
    BY DEF CallTyped
  <2>2. call[u].link + 1 \in Places /\ Append(call[u].sizes, n) \in Seq(Nat)
    BY <2>1 DEF Calls, Places
  <2>3. c \in Calls /\ c.at = "ask"
    BY <2>1, <2>2 DEF Calls, Ats
  <2> HIDE DEF c
  <2> QED BY <2>3 DEF Sound
<1>2. call' = [call EXCEPT ![u] = c]
  BY DEF Counted
<1> HIDE DEF c
<1>3. CallTyped' /\ call'[u] = c /\ \A v \in Users : v # u => call'[v] = call[v]
  BY <1>1, <1>2, CallReplaced
<1> QED BY <1>3 DEF c

\* A thread without a call.
LEMMA IdleSound == Sound(Idle)
<1>1. NoAnswer \in Answers
  BY DEF NoAnswer, Answers
<1> QED BY <1>1 DEF Idle, Sound, Calls, Ops, Ats, Results, Places

\* The answer of a server.
LEMMA AnswerTyped ==
    ASSUME NEW known, NEW tag \in Nat, NEW list \in Seq(Devices)
    PROVE  Answer(known, tag, list) \in Answers
BY DEF Answer, Answers

\* A list that is to be stored.
LEMMA StoreSound ==
    ASSUME CallTyped, NEW u \in Users, NEW kept \in Seq(Devices),
           call' = [call EXCEPT ![u].at = "fill", ![u].answer.list = kept]
    PROVE  /\ CallTyped' /\ \A v \in Users : v # u => call'[v] = call[v]
           /\ call'[u] = [call[u] EXCEPT !.at = "fill", !.answer = [call[u].answer EXCEPT !.list = kept]]
<1> DEFINE a == [call[u].answer EXCEPT !.list = kept]
           c == [call[u] EXCEPT !.at = "fill", !.answer = a]
<1>1. Sound(c)
  <2>1. call[u] \in Calls
    BY DEF CallTyped
  <2>2. call[u].answer \in Answers
    BY <2>1 DEF Calls
  <2>3. a \in Answers /\ "fill" \in Ats
    BY <2>2 DEF Answers, Ats
  <2> HIDE DEF a
  <2>4. c \in Calls /\ c.at = "fill"
    BY <2>1, <2>3, AnswerChanged
  <2> HIDE DEF c
  <2> QED BY <2>4 DEF Sound
<1>2. call' = [call EXCEPT ![u] = c]
  OBVIOUS
<1> HIDE DEF c
<1>3. CallTyped' /\ call'[u] = c /\ \A v \in Users : v # u => call'[v] = call[v]
  BY <1>1, <1>2, CallReplaced
<1> QED BY <1>3 DEF c

\* The server a call has come to.
LEMMA ServerTyped ==
    ASSUME CallTyped, NEW u \in Users, call[u].link <= Len(Links)
    PROVE  Server(u) \in Servers /\ call[u].link \in DOMAIN Links
<1>1. call[u].link \in Nat \ {0}
  BY DEF CallTyped, Calls, Places
<1>2. call[u].link \in DOMAIN Links
  BY <1>1, ListsData
<1> QED BY <1>2, ListsData DEF Server

\* The last of a list of lists.
LEMMA LastTyped ==
    ASSUME NEW T, NEW s \in Seq(T), Len(s) >= 1
    PROVE  Last(s) \in T /\ Last(s) = s[Len(s)] /\ Len(s) \in DOMAIN s
BY DEF Last

\* The list with a device more or less.
LEMMA EditedTyped ==
    ASSUME NEW u, call[u].device \in Devices, NEW lists \in Seq(Seq(Devices)), Len(lists) >= 1
    PROVE  Edited(u, Last(lists)) \in Seq(Devices)
<1> DEFINE list == Last(lists)
           others == Filtered(list, Range(list) \ {call[u].device})
<1>1. list \in Seq(Devices)
  BY LastTyped
<1> HIDE DEF list
<1>2. others \in Seq(Devices)
  BY <1>1, FilteredTyped
<1> HIDE DEF others
<1>3. Edited(u, list) = IF call[u].op = "define" THEN Append(others, call[u].device) ELSE others
  BY DEF Edited, others
<1>4. Edited(u, list) \in Seq(Devices)
  BY <1>2, <1>3
<1> QED BY <1>4 DEF list

\* The devices of all servers' lists.
Total == Summed([n \in DOMAIN Links |-> Len(defined[Links[n]].list)])

\* The joined list, and its length at most.
LEMMA JoinedTyped ==
    ASSUME defined \in [Servers -> [tag : Nat, list : Seq(Devices), whole : BOOLEAN]]
    PROVE  Joined \in Seq(Devices) /\ Total \in Nat
<1>1. \A s \in Servers : defined[s].list \in Seq(Devices)
  OBVIOUS
<1>2. Joined \in Seq(Devices)
  <2>1. PICK f : f \in [0 .. Len(Links) -> Seq(Devices)] /\ Joined = f[Len(Links)]
    BY <1>1, JoinedBy, Zenon
  <2>2. Len(Links) \in 0 .. Len(Links)
    BY ListsData
  <2> QED BY <2>1, <2>2
<1>3. Total \in Nat
  <2> DEFINE lengths == [n \in DOMAIN Links |-> Len(defined[Links[n]].list)]
  <2>1. \A n \in DOMAIN Links : Len(defined[Links[n]].list) \in Nat
    BY <1>1, ListsData
  <2>2. lengths \in [1 .. Len(Links) -> Nat] /\ Len(Links) \in Nat
    BY <2>1, ListsData
  <2> HIDE DEF lengths
  <2>3. lengths \in Seq(Nat)
    BY <2>2
  <2>4. Summed(lengths) \in Nat
    BY <2>3, SummedTyped
  <2> QED BY <2>4 DEF Total, lengths
<1> QED BY <1>2, <1>3

\* What a server is told changes its list, or not.
LEMMA ToldTyped ==
    ASSUME Typed, NEW u \in Users, AtServer(u, "tell"), Told(u)
    PROVE  database' \in [Servers -> Seq(Seq(Devices))] /\ \A t \in Servers : Len(database'[t]) >= 1
<1> DEFINE s == Server(u)
<1>2. s \in Servers /\ call[u].device \in Devices
  BY ServerTyped DEF AtServer, Typed, CallTyped, Sound
<1>3. CASE UNCHANGED database
  BY <1>3 DEF Typed
<1>4. CASE database' = [database EXCEPT ![s] = Append(database[s], Edited(u, Last(database[s])))]
  <2>1. Edited(u, Last(database[s])) \in Seq(Devices)
    BY <1>2, EditedTyped DEF Typed
  <2> DEFINE e == Edited(u, Last(database[s]))
  <2> HIDE DEF s, e
  <2>2. database[s] \in Seq(Seq(Devices)) /\ e \in Seq(Devices)
    BY <1>2, <2>1 DEF Typed, e
  <2>3. Append(database[s], e) \in Seq(Seq(Devices)) /\ Len(Append(database[s], e)) >= 1
    BY <2>2
  <2> QED BY <1>2, <1>4, <2>3 DEF Typed, e
<1> QED BY <1>3, <1>4 DEF Told

\* Every step keeps the types.
LEMMA TypedNext == Typed /\ [Next]_vars => Typed'
<1> SUFFICES ASSUME Typed, [Next]_vars PROVE Typed'
  OBVIOUS
<1> USE ListsConstants, ListsData
<1>0. CASE UNCHANGED vars
  BY <1>0 DEF vars, Typed, CallTyped
<1>1. CASE OtherScans
  <2>1. server \in 0 .. Len(ChainLists) /\ Len(ChainLists) \in Nat /\ server' = server + 1 /\ server < Len(ChainLists)
    BY <1>1 DEF OtherScans, Typed
  <2>2. server' \in 0 .. Len(ChainLists)
    BY <2>1
  <2> QED BY <1>1, <2>2 DEF OtherScans, Typed, CallTyped
<1>2. ASSUME NEW u \in Users, LockChain(u) PROVE Typed'
  BY <1>2 DEF LockChain, Typed, CallTyped
<1>3. ASSUME NEW u \in Users, UnlockChain(u) PROVE Typed'
  BY <1>3 DEF UnlockChain, Typed, CallTyped
<1>4. ASSUME NEW u \in Users, ReadChain(u) PROVE Typed'
  <2>0. PICK space \in Spaces : Start(u, [Idle EXCEPT !.op = "read", !.space = space, !.at = IF chain.locked THEN "refresh" ELSE "look"])
    BY <1>4 DEF ReadChain
  <2> DEFINE c == [Idle EXCEPT !.op = "read", !.space = space, !.at = IF chain.locked THEN "refresh" ELSE "look"]
  <2>1. Sound(c)
    BY <2>0, IdleSound DEF Idle, NoAnswer, Sound, Calls, Ops, Ats
  <2>2. Start(u, c)
    BY <2>0 DEF ReadChain
  <2> HIDE DEF c
  <2>3. CallTyped'
    BY <2>1, <2>2, StartSound DEF Typed
  <2> QED BY <1>4, <2>3 DEF ReadChain, Typed
<1>5. ASSUME NEW u \in Users, ScanChain(u) PROVE Typed'
  <2> DEFINE c == [Idle EXCEPT !.op = "scan", !.at = "refresh", !.scan = TRUE]
  <2>1. Sound(c)
    BY IdleSound DEF Idle, NoAnswer, Sound, Calls, Ops, Ats
  <2>2. Start(u, c)
    BY <1>5 DEF ScanChain
  <2> HIDE DEF c
  <2>3. CallTyped'
    BY <2>1, <2>2, StartSound DEF Typed
  <2> QED BY <1>5, <2>3 DEF ScanChain, Typed
<1>6. ASSUME NEW u \in Users, Refresh(u) PROVE Typed'
  <2>1. PICK tag \in 1 .. Len(ChainLists) :
          /\ server' = tag
          /\ call' = [call EXCEPT ![u].at = "store", ![u].answer = Answer(chain.tag, tag, ChainLists[tag])]
    BY <1>6 DEF Refresh
  <2> DEFINE a == Answer(chain.tag, tag, ChainLists[tag])
           c == [call[u] EXCEPT !.at = "store", !.answer = a]
  <2>2. a \in Answers
    BY AnswerTyped
  <2>3. Sound(c)
    <3> HIDE DEF a
    <3>1. call[u] \in Calls /\ "store" \in Ats
      BY DEF Typed, CallTyped, Ats
    <3>2. c \in Calls /\ c.at = "store"
      BY <2>2, <3>1, AnswerChanged
    <3> HIDE DEF c
    <3> QED BY <3>2 DEF Sound
  <2>4. call' = [call EXCEPT ![u] = c]
    BY <2>1
  <2> HIDE DEF c
  <2>5. CallTyped'
    BY <2>3, <2>4, CallReplaced DEF Typed
  <2>6. server' \in 0 .. Len(ChainLists)
    BY <2>1
  <2> QED BY <1>6, <2>5, <2>6 DEF Refresh, Typed
<1>7. ASSUME NEW u \in Users, RefreshRefused(u) PROVE Typed'
  <2>1. CASE call' = [call EXCEPT ![u].scan = TRUE]
    <3> DEFINE c == [call[u] EXCEPT !.scan = TRUE]
    <3>1. Sound(c)
      BY DEF Typed, CallTyped, Sound, Calls
    <3>2. call' = [call EXCEPT ![u] = c]
      BY <2>1
    <3> HIDE DEF c
    <3>3. CallTyped'
      BY <3>1, <3>2, CallReplaced DEF Typed
    <3> QED BY <1>7, <3>3 DEF RefreshRefused, Typed
  <2>2. CASE Done(u, "error")
    <3>1. CallTyped'
      BY <2>2, DoneSound DEF Typed, Results
    <3> QED BY <1>7, <3>1 DEF RefreshRefused, Typed
  <2> QED BY <1>7, <2>1, <2>2 DEF RefreshRefused
<1>8. ASSUME NEW u \in Users, RefreshLost(u) PROVE Typed'
  <2>1. CallTyped'
    BY <1>8, DoneSound DEF RefreshLost, Typed, Results
  <2>2. LinkAfterLoss \in [Servers -> Users \cup {None}]
    BY DEF LinkAfterLoss, Typed
  <2>3. chain' \in [tag : Nat, taps : Seq(Devices), valid : BOOLEAN, locked : BOOLEAN]
    <3>1. PICK tag \in {0, chain.tag} : chain' = [Invalidated EXCEPT !.tag = tag]
      BY <1>8 DEF RefreshLost
    <3>2. Invalidated \in [tag : Nat, taps : Seq(Devices), valid : BOOLEAN, locked : BOOLEAN]
      BY DEF Typed, Invalidated
    <3>3. tag \in Nat
      BY DEF Typed
    <3> QED BY <3>1, <3>2, <3>3
  <2> QED BY <1>8, <2>1, <2>2, <2>3 DEF RefreshLost, Typed
<1>9. ASSUME NEW u \in Users, Store(u) PROVE Typed'
  <2>1. call[u] \in Calls /\ call[u].answer.list \in Seq(Devices) /\ <<>> \in Seq(Devices) /\ CallTyped
    <3>1. CallTyped /\ call[u] \in Calls
      BY DEF Typed, CallTyped
    <3>2. call[u].answer \in Answers
      BY <3>1 DEF Calls
    <3>3. call[u].answer.list \in Seq(Devices)
      BY <3>2 DEF Answers
    <3>4. <<>> \in Seq(Devices)
      OBVIOUS
    <3> QED BY <3>1, <3>3, <3>4
  <2>2. CASE /\ chain' = [chain EXCEPT !.taps = <<>>]
             /\ call' = [call EXCEPT ![u].at = "fill", ![u].answer.list = Parsed(call[u].answer.list)]
    <3>1. Parsed(call[u].answer.list) \in Seq(Devices)
      BY <2>1, ParsedSame
    <3>2. CallTyped'
      BY <2>1, <2>2, <3>1, StoreSound
    <3> QED BY <1>9, <2>1, <2>2, <3>2 DEF Store, Typed
  <2>3. CASE /\ UNCHANGED chain
             /\ call' = [call EXCEPT ![u].at = "fill", ![u].answer.list = <<>>]
    <3>1. CallTyped'
      BY <2>1, <2>3, StoreSound
    <3> QED BY <1>9, <2>3, <3>1 DEF Store, Typed
  <2> QED BY <1>9, <2>2, <2>3 DEF Store
<1>10. ASSUME NEW u \in Users, StoreTimeout(u) PROVE Typed'
  <2>1. CallTyped'
    BY <1>10, DoneSound DEF StoreTimeout, Typed, Ats, Results
  <2> QED BY <1>10, <2>1 DEF StoreTimeout, Typed
<1>11. ASSUME NEW u \in Users, Fill(u) PROVE Typed'
  <2> DEFINE answer == call[u].answer
           c == [call[u] EXCEPT !.answer = [answer EXCEPT !.list = Tail(answer.list)]]
  <2>1. call[u] \in Calls /\ answer \in Answers /\ answer.list \in Seq(Devices) /\ Sound(call[u])
    BY DEF Typed, CallTyped, Calls, Answers
  <2>2. Tail(answer.list) \in Seq(Devices) /\ Head(answer.list) \in Devices
    BY <1>11, <2>1 DEF Fill
  <2>3. Sound(c)
    <3>1. [answer EXCEPT !.list = Tail(answer.list)] \in Answers
      BY <2>1, <2>2 DEF Answers
    <3> QED BY <2>1, <3>1 DEF Sound, Calls
  <2>4. call' = [call EXCEPT ![u] = c]
    BY <1>11 DEF Fill
  <2> HIDE DEF c
  <2>5. CallTyped'
    BY <2>3, <2>4, CallReplaced DEF Typed
  <2>6. chain' = [chain EXCEPT !.taps = Append(chain.taps, Head(answer.list))]
    BY <1>11 DEF Fill
  <2> HIDE DEF answer
  <2>7. chain' \in [tag : Nat, taps : Seq(Devices), valid : BOOLEAN, locked : BOOLEAN]
    <3> DEFINE more == Append(chain.taps, Head(answer.list))
    <3>1. more \in Seq(Devices)
      BY <2>2 DEF Typed
    <3>2. chain' = [chain EXCEPT !.taps = more]
      BY <2>6
    <3> HIDE DEF more
    <3> QED BY <3>1, <3>2 DEF Typed
  <2> QED BY <1>11, <2>5, <2>7 DEF Fill, Typed
<1>12. ASSUME NEW u \in Users, Stored(u) PROVE Typed'
  <2>1. CallTyped'
    BY <1>12, GoSound, DoneSound DEF Stored, Typed, Ats, Results
  <2>2. call[u].answer.tag \in Nat
    BY DEF Typed, CallTyped, Calls, Answers
  <2> QED BY <1>12, <2>1, <2>2 DEF Stored, Typed
<1>13. ASSUME NEW u \in Users, LookInVain(u) PROVE Typed'
  <2>1. CallTyped'
    BY <1>13, DoneSound DEF LookInVain, Typed, Ats, Results
  <2> QED BY <1>13, <2>1 DEF LookInVain, Typed
<1>14. ASSUME NEW u \in Users, Look(u) PROVE Typed'
  <2> DEFINE count == Len(chain.taps)
           c == [call[u] EXCEPT !.at = "copy", !.count = count]
  <2>1. Sound(c)
    <3>1. count \in Nat /\ call[u] \in Calls /\ "copy" \in Ats
      BY DEF Typed, CallTyped, Ats
    <3> HIDE DEF count
    <3>2. c \in Calls /\ c.at = "copy"
      BY <3>1, CountChanged
    <3> HIDE DEF c
    <3> QED BY <3>2 DEF Sound
  <2>2. call' = [call EXCEPT ![u] = c]
    BY <1>14 DEF Look
  <2> HIDE DEF c
  <2>3. CallTyped'
    BY <2>1, <2>2, CallReplaced DEF Typed
  <2> QED BY <1>14, <2>3 DEF Look, Typed
<1>15. ASSUME NEW u \in Users, Copy(u) PROVE Typed'
  <2> DEFINE more == Append(call[u].list, chain.taps[Copied(u) + 1])
           c == [call[u] EXCEPT !.list = more]
  <2>1. call[u] \in Calls /\ Sound(call[u]) /\ call[u].list \in Seq(Devices) /\ chain.taps \in Seq(Devices)
    BY DEF Typed, CallTyped, Calls
  <2>2. chain.taps[Copied(u) + 1] \in Devices
    BY <1>15, <2>1 DEF Copy, Copied
  <2>3. more \in Seq(Devices)
    BY <2>1, <2>2
  <2> HIDE DEF more
  <2>4. Sound(c)
    BY <2>1, <2>3 DEF Sound, Calls
  <2>5. call' = [call EXCEPT ![u] = c]
    BY <1>15 DEF Copy, more
  <2> HIDE DEF c
  <2>6. CallTyped'
    BY <2>4, <2>5, CallReplaced DEF Typed
  <2> QED BY <1>15, <2>6 DEF Copy, Typed
<1>16. ASSUME NEW u \in Users, EndCopy(u) PROVE Typed'
  <2>1. CallTyped'
    BY <1>16, DoneSound DEF EndCopy, Typed, Ats, Results
  <2> QED BY <1>16, <2>1 DEF EndCopy, Typed
<1>17. ASSUME NEW u \in Users, StartDefine(u) PROVE Typed'
  <2>1. PICK d \in Offered, op \in {"define", "undefine"} :
          Start(u, IF Definable(d) THEN [Idle EXCEPT !.op = op, !.at = "tell", !.device = d]
                   ELSE [Idle EXCEPT !.op = op, !.at = "done", !.result = "error"])
    BY <1>17 DEF StartDefine
  <2> DEFINE c == IF Definable(d) THEN [Idle EXCEPT !.op = op, !.at = "tell", !.device = d]
                  ELSE [Idle EXCEPT !.op = op, !.at = "done", !.result = "error"]
  <2>2. Sound(c)
    <3>1. d \in Devices
      OBVIOUS
    <3> QED BY <3>1, IdleSound DEF Idle, NoAnswer, Sound, Calls, Ops, Ats, Results
  <2> HIDE DEF c
  <2>3. CallTyped'
    BY <2>1, <2>2, StartSound DEF Typed, c
  <2> QED BY <1>17, <2>3 DEF StartDefine, Typed
<1>18. ASSUME NEW u \in Users, Tell(u) PROVE Typed'
  <2>1. CallTyped'
    BY <1>18, AdvanceSound DEF Tell, AtServer, Typed, Ats
  <2>2. database' \in [Servers -> Seq(Seq(Devices))] /\ \A t \in Servers : Len(database'[t]) >= 1
    BY <1>18, ToldTyped DEF Tell
  <2> QED BY <1>18, <2>1, <2>2 DEF Tell, Typed
<1>19. ASSUME NEW u \in Users, TellFails(u) PROVE Typed'
  <2> DEFINE c == [call[u] EXCEPT !.at = "again"]
  <2>1. Sound(c)
    <3>1. call[u] \in Calls /\ call[u].device \in Devices
      BY <1>19 DEF TellFails, AtServer, Typed, CallTyped, Sound
    <3>2. c \in Calls /\ c.device = call[u].device
      BY <3>1, AtChanged DEF Ats
    <3> HIDE DEF c
    <3> QED BY <3>1, <3>2 DEF Sound
  <2>2. call' = [call EXCEPT ![u] = c]
    BY <1>19 DEF TellFails, Go
  <2> HIDE DEF c
  <2>3. CallTyped'
    BY <2>1, <2>2, CallReplaced DEF Typed
  <2> QED BY <1>19, <2>3 DEF TellFails, Typed
<1>20. ASSUME NEW u \in Users, ReleaseAgain(u) PROVE Typed'
  <2>1. CallTyped'
    BY <1>20, AdvanceSound DEF ReleaseAgain, Typed, Ats, Results, AtServer
  <2> QED BY <1>20, <2>1 DEF ReleaseAgain, Typed
<1>21. ASSUME NEW u \in Users, EndTell(u) PROVE Typed'
  <2>1. CallTyped'
    BY <1>21, DoneSound DEF EndTell, Typed, Ats, Results
  <2> QED BY <1>21, <2>1 DEF EndTell, Typed
<1>22. ASSUME NEW u \in Users, GetDefined(u) PROVE Typed'
  <2>0. PICK space \in Spaces : Start(u, [Idle EXCEPT !.op = "get", !.at = "ask", !.space = space])
    BY <1>22 DEF GetDefined
  <2> DEFINE c == [Idle EXCEPT !.op = "get", !.at = "ask", !.space = space]
  <2>1. Sound(c)
    BY <2>0, IdleSound DEF Idle, NoAnswer, Sound, Calls, Ops, Ats
  <2>2. Start(u, c)
    BY <2>0 DEF GetDefined
  <2> HIDE DEF c
  <2>3. CallTyped'
    BY <2>1, <2>2, StartSound DEF Typed
  <2> QED BY <1>22, <2>3 DEF GetDefined, Typed
<1>23. ASSUME NEW u \in Users, TellLeavesOut(u) PROVE Typed'
  <2>1. CallTyped'
    BY <1>23, AdvanceSound DEF TellLeavesOut, AtServer, Typed, Ats
  <2> QED BY <1>23, <2>1 DEF TellLeavesOut, Typed
<1>s. ASSUME NEW u \in Users, call[u].link <= Len(Links) PROVE Has(u) \in Nat
  <2>1. Server(u) \in Servers
    BY <1>s, ServerTyped DEF Typed
  <2> DEFINE list == defined[Server(u)].list
  <2>2. list \in Seq(Devices)
    BY <2>1 DEF Typed
  <2> HIDE DEF list
  <2>3. Len(list) \in Nat
    BY <2>2
  <2> QED BY <2>3 DEF Has, list
<1>30. ASSUME NEW u \in Users, Relist(u) PROVE Typed'
  BY <1>30 DEF Relist, Typed, CallTyped
<1>31. ASSUME NEW u \in Users, TellLost(u) PROVE Typed'
  <2>1. CallTyped'
    BY <1>31, AdvanceSound DEF TellLost, AtServer, Typed, Ats
  <2>2. database' \in [Servers -> Seq(Seq(Devices))] /\ \A t \in Servers : Len(database'[t]) >= 1
    BY <1>31, ToldTyped DEF TellLost
  <2>3. chain' \in [tag : Nat, taps : Seq(Devices), valid : BOOLEAN, locked : BOOLEAN]
    BY <1>31 DEF TellLost, Typed, Invalidated
  <2> QED BY <1>31, <2>1, <2>2, <2>3 DEF TellLost, Typed
<1>32. ASSUME NEW u \in Users, AskLeavesOut(u) PROVE Typed'
  <2>1. CallTyped'
    BY <1>32, <1>s, CountedSound DEF AskLeavesOut, AtServer, Typed
  <2> QED BY <1>32, <2>1 DEF AskLeavesOut, Typed
<1>24. ASSUME NEW u \in Users, Ask(u) PROVE Typed'
  <2>1. CallTyped'
    BY <1>24, GoSound DEF Ask, Typed, Ats, Results
  <2> QED BY <1>24, <2>1 DEF Ask, Typed
<1>25. ASSUME NEW u \in Users, AskFails(u) PROVE Typed'
  <2>1. CallTyped'
    BY <1>25, <1>s, CountedSound DEF AskFails, AtServer, Typed
  <2> QED BY <1>25, <2>1 DEF AskFails, Typed
<1>26. ASSUME NEW u \in Users, Answered(u) PROVE Typed'
  <2> DEFINE s == Server(u)
  <2>1. s \in Servers
    BY <1>26, ServerTyped DEF Answered, AtServer, Typed
  <2>2. PICK after \in AfterAnswer(defined[s], Len(database[s]), Last(database[s])) :
             /\ defined' = [defined EXCEPT ![s] = after]
             /\ call' = [call EXCEPT ![u].at = "ask", ![u].link = call[u].link + 1, ![u].asked = call[u].asked \cup {s},
                                     ![u].sizes = Append(call[u].sizes, Len(after.list))]
    BY <1>26 DEF Answered
  <2> DEFINE c == [call[u] EXCEPT !.at = "ask", !.link = call[u].link + 1, !.asked = call[u].asked \cup {s},
                                  !.sizes = Append(call[u].sizes, Len(after.list))]
  <2>3. after \in [tag : Nat, list : Seq(Devices), whole : BOOLEAN]
    <3> DEFINE kept == defined[s]
               list == Last(database[s])
               tag == Len(database[s])
    <3>1. kept \in [tag : Nat, list : Seq(Devices), whole : BOOLEAN] /\ list \in Seq(Devices) /\ tag \in Nat
      BY <2>1, LastTyped DEF Typed
    <3>2. Parsed(list) = list
      BY <3>1, ParsedSame
    <3>3. after \in AfterAnswer(kept, tag, list)
      OBVIOUS
    <3> HIDE DEF kept, list, tag
    <3>4. <<>> \in Seq(Devices)
      OBVIOUS
    <3>5. \/ after = [tag |-> tag, list |-> <<>>, whole |-> TRUE]
          \/ after = [tag |-> tag, list |-> list, whole |-> TRUE]
          \/ after = [tag |-> tag, list |-> <<>>, whole |-> FALSE]
          \/ after = [kept EXCEPT !.tag = tag]
      BY <3>2, <3>3 DEF AfterAnswer
    <3>6. [kept EXCEPT !.tag = tag] \in [tag : Nat, list : Seq(Devices), whole : BOOLEAN]
      BY <3>1
    <3>7. \A w \in BOOLEAN, l \in Seq(Devices) :
             [tag |-> tag, list |-> l, whole |-> w] \in [tag : Nat, list : Seq(Devices), whole : BOOLEAN]
      BY <3>1
    <3> QED BY <3>1, <3>4, <3>5, <3>6, <3>7
  <2>4. Sound(c)
    <3>1. call[u] \in Calls
      BY DEF Typed, CallTyped
    <3>2. call[u].link + 1 \in Places /\ call[u].asked \cup {s} \in SUBSET Servers
      <4>1. call[u].link \in Places /\ call[u].asked \in SUBSET Servers
        BY <3>1 DEF Calls
      <4>2. call[u].link + 1 \in Places
        BY <4>1 DEF Places
      <4> HIDE DEF s
      <4> QED BY <2>1, <4>1, <4>2
    <3>4. Append(call[u].sizes, Len(after.list)) \in Seq(Nat)
      <4>1. call[u].sizes \in Seq(Nat) /\ after.list \in Seq(Devices)
        BY <2>3, <3>1 DEF Calls
      <4>2. Len(after.list) \in Nat
        BY <4>1
      <4> QED BY <4>1, <4>2
    <3> DEFINE z == Append(call[u].sizes, Len(after.list))
               y == call[u].asked \cup {s}
    <3> HIDE DEF s, y, z
    <3>3. c \in Calls /\ c.at = "ask"
      <4>1. c = [call[u] EXCEPT !.at = "ask", !.link = call[u].link + 1, !.asked = y, !.sizes = z]
        BY DEF y, z
      <4>2. y \in SUBSET Servers /\ z \in Seq(Nat)
        BY <3>2, <3>4 DEF y, z
      <4> HIDE DEF c
      <4> QED BY <3>1, <3>2, <4>1, <4>2 DEF Calls, Ats
    <3> QED BY <3>3 DEF Sound
  <2>5. call' = [call EXCEPT ![u] = c]
    BY <2>2
  <2> HIDE DEF c, s
  <2>6. CallTyped'
    BY <2>4, <2>5, CallReplaced DEF Typed
  <2>7. link' = [link EXCEPT ![s] = None]
    BY <1>26 DEF Answered, s
  <2> QED BY <1>26, <2>1, <2>2, <2>3, <2>6, <2>7 DEF Answered, Typed
<1>27. ASSUME NEW u \in Users, AnswerLost(u) PROVE Typed'
  <2> DEFINE s == Server(u)
  <2>1. CallTyped'
    BY <1>27, CountedSound DEF AnswerLost, AtServer, Typed
  <2>2. s \in Servers
    BY <1>27, ServerTyped DEF AnswerLost, AtServer, Typed
  <2>3. <<>> \in Seq(Devices)
    OBVIOUS
  <2>4. chain' \in [tag : Nat, taps : Seq(Devices), valid : BOOLEAN, locked : BOOLEAN]
    BY <1>27 DEF AnswerLost, Typed, Invalidated
  <2>5. /\ defined' = [defined EXCEPT ![s] = [tag |-> 0, list |-> <<>>, whole |-> TRUE]]
        /\ link' = [link EXCEPT ![s] = None]
    BY <1>27 DEF AnswerLost
  <2> HIDE DEF s
  <2>6. defined' \in [Servers -> [tag : Nat, list : Seq(Devices), whole : BOOLEAN]]
    BY <2>2, <2>3, <2>5 DEF Typed
  <2>7. link' \in [Servers -> Users \cup {None}]
    BY <2>2, <2>5 DEF Typed
  <2> QED BY <1>27, <2>1, <2>4, <2>6, <2>7 DEF AnswerLost, Typed
<1>28. ASSUME NEW u \in Users, Join(u) PROVE Typed'
  <2> DEFINE total == Summed(call[u].sizes)
  <2>1. Joined \in Seq(Devices) /\ total \in Nat
    <3>1. call[u].sizes \in Seq(Nat)
      BY DEF Typed, CallTyped, Calls
    <3> QED BY <3>1, JoinedTyped, SummedTyped DEF Typed
  <2> DEFINE few == [call[u] EXCEPT !.at = "done", !.result = "toomany", !.count = total]
           all == [call[u] EXCEPT !.at = "done", !.result = "ok", !.list = Joined, !.count = Len(Joined)]
  <2>2. Sound(few) /\ Sound(all)
    <3>1. call[u] \in Calls /\ Len(Joined) \in Nat
      BY <2>1 DEF Typed, CallTyped
    <3> HIDE DEF total
    <3>2. few \in Calls /\ few.at = "done"
      BY <2>1, <3>1 DEF Calls, Ats, Results
    <3>3. all \in Calls /\ all.at = "done"
      BY <2>1, <3>1 DEF Calls, Ats, Results
    <3> QED BY <3>2, <3>3 DEF Sound
  <2>3. call' = [call EXCEPT ![u] = few] \/ call' = [call EXCEPT ![u] = all]
    BY <1>28 DEF Join
  <2> HIDE DEF few, all
  <2>4. CallTyped'
    BY <2>2, <2>3, CallReplaced DEF Typed
  <2> QED BY <1>28, <2>4 DEF Join, Typed
<1>29. ASSUME NEW u \in Users, Finish(u) PROVE Typed'
  <2>1. CallTyped'
    BY <1>29, IdleSound, CallReplaced DEF Finish, Typed
  <2> QED BY <1>29, <2>1 DEF Finish, Typed
<1> QED BY <1>0, <1>1, <1>2, <1>3, <1>4, <1>5, <1>6, <1>7, <1>8, <1>9, <1>10, <1>11, <1>12, <1>13, <1>14, <1>15, <1>16, <1>17, <1>18, <1>19, <1>20, <1>21, <1>22, <1>23, <1>24, <1>25, <1>26, <1>27, <1>28, <1>29, <1>30, <1>31, <1>32 DEF Next, ChainStep, DefinedStep

\* The types hold.
LEMMA TypedInit == Init => Typed
<1> SUFFICES ASSUME Init PROVE Typed
  OBVIOUS
<1> USE ListsConstants, ListsData
<1>1. CallTyped
  BY IdleSound DEF Init, CallTyped, Sound
<1>2. <<>> \in Seq(Devices) /\ Len(ChainLists) \in Nat
  OBVIOUS
<1>3. database \in [Servers -> Seq(Seq(Devices))] /\ \A s \in Servers : Len(database[s]) >= 1
  <2>1. \A s \in Servers : <<Defined[s]>> \in Seq(Seq(Devices)) /\ Len(<<Defined[s]>>) >= 1
    OBVIOUS
  <2> QED BY <2>1 DEF Init
<1> QED BY <1>1, <1>2, <1>3 DEF Init, Typed

-----------------------------------------------------------------------------
(* Claims.                                                                  *)

\* What u has claimed: the link of s while it waits for an answer of s, the mutex
\* while it stores or copies a list, the chain's link if it has locked the chain; and
\* it has them still if no thread was robbed (r).
Held(m, l, locked, r, u, at, s, there) ==
    /\ m = u <=> at \in {"fill", "copy"}
    /\ \A t \in Servers : l[t] = u => (t = Home /\ locked) \/ (at = "answer" /\ t = s)
    /\ at = "answer" => there /\ (s = Home /\ ~r => l[Home] = u /\ ~locked)
    /\ at = "again" => there

ClaimsOf(u) == Held(mutex, link, chain.locked, past.robbed, u, call[u].at, Server(u), call[u].link <= Len(Links))

Claims ==
    /\ \A u \in Users : ClaimsOf(u)
    /\ chain.locked /\ ~past.robbed => link[Home] # None

\* A step of u keeps the claims if it keeps those of u, and those of others.
LEMMA ClaimsStep ==
    ASSUME Claims, NEW u \in Users,
           \A v \in Users : v # u => call'[v] = call[v],
           Held(mutex', link', chain'.locked, past'.robbed, u, call'[u].at, Links[call'[u].link], call'[u].link <= Len(Links)),
           \A v, a, s, t :
              v \in Users /\ v # u /\ Held(mutex, link, chain.locked, past.robbed, v, a, s, t) => Held(mutex', link', chain'.locked, past'.robbed, v, a, s, t),
           chain'.locked /\ ~past'.robbed => link'[Home] # None
    PROVE  Claims'
<1>1. \A v \in Users : ClaimsOf(v)'
  <2> TAKE v \in Users
  <2>1. CASE v = u
    BY <2>1 DEF ClaimsOf, Server
  <2>2. CASE v # u
    BY <2>2 DEF Claims, ClaimsOf, Server
  <2> QED BY <2>1, <2>2
<1> QED BY <1>1 DEF Claims

\* A step of a call that claims and releases nothing.
LEMMA ClaimsKept ==
    ASSUME Claims, NEW u \in Users,
           \A v \in Users : v # u => call'[v] = call[v],
           UNCHANGED <<mutex, link>>, UNCHANGED chain.locked, past.robbed => past'.robbed,
           call'[u].at \notin {"answer", "again", "fill", "copy"},
           call[u].at \notin {"answer", "fill", "copy"}
    PROVE  Claims'
<1>1. Held(mutex, link, chain.locked, past.robbed, u, call[u].at, Server(u), call[u].link <= Len(Links))
  BY DEF Claims, ClaimsOf
<1>2. Held(mutex', link', chain'.locked, past'.robbed, u, call'[u].at, Links[call'[u].link], call'[u].link <= Len(Links))
  BY <1>1 DEF Held
<1>3. \A v, a, s, t :
         v \in Users /\ v # u /\ Held(mutex, link, chain.locked, past.robbed, v, a, s, t)
            => Held(mutex', link', chain'.locked, past'.robbed, v, a, s, t)
  BY DEF Held
<1>4. chain'.locked /\ ~past'.robbed => link'[Home] # None
  BY DEF Claims
<1> QED BY <1>2, <1>3, <1>4, ClaimsStep

\* Every step keeps the claims.
LEMMA ClaimsNext == PastTyped /\ Typed /\ Claims /\ [Next]_vars => Claims'
<1> SUFFICES ASSUME PastTyped, Typed, Claims, [Next]_vars PROVE Claims'
  OBVIOUS
<1> USE ListsConstants
<1>c. \A u \in Users : call[u] \in Calls
  BY DEF Typed, CallTyped
<1>l. /\ link \in [Servers -> Users \cup {None}] /\ Home \in Servers /\ None \notin Users
      /\ mutex \in Users \cup {None}
  BY DEF Typed
<1>p. past.robbed => past'.robbed
  BY PastNext
<1>0. CASE UNCHANGED vars
  BY <1>0 DEF vars, Claims, ClaimsOf, Server
<1>1. CASE OtherScans
  BY <1>1 DEF OtherScans, Claims, ClaimsOf, Server
<1>2. ASSUME NEW u \in Users, LockChain(u) PROVE Claims'
  <2>1. /\ \A v \in Users : v # u => call'[v] = call[v]
        /\ UNCHANGED call /\ call[u].at = "idle"
    BY <1>2, <1>c DEF LockChain, Calls, Typed, CallTyped
  <2>2. /\ mutex' = mutex /\ link[Home] = None /\ link' = [link EXCEPT ![Home] = u]
        /\ chain'.locked = TRUE
    BY <1>2 DEF LockChain, Typed
  <2>3. /\ Held(mutex, link, chain.locked, past.robbed, u, call[u].at, Server(u), call[u].link <= Len(Links))
        /\ chain.locked /\ ~past.robbed => link[Home] # None
    BY DEF Claims, ClaimsOf
  <2>4. Held(mutex', link', chain'.locked, past'.robbed, u, call'[u].at, Links[call'[u].link], call'[u].link <= Len(Links))
    BY <2>1, <2>2, <2>3, <1>l, <1>p DEF Held
  <2>5. \A v, a, s, t :
           v \in Users /\ v # u /\ Held(mutex, link, chain.locked, past.robbed, v, a, s, t) => Held(mutex', link', chain'.locked, past'.robbed, v, a, s, t)
    BY <2>1, <2>2, <2>3, <1>l, <1>p DEF Held
  <2>6. chain'.locked /\ ~past'.robbed => link'[Home] # None
    BY <2>1, <2>2, <2>3, <1>l, <1>p DEF Claims, Held
  <2> QED BY <2>1, <2>4, <2>5, <2>6, ClaimsStep
<1>3. ASSUME NEW u \in Users, UnlockChain(u) PROVE Claims'
  <2>1. /\ \A v \in Users : v # u => call'[v] = call[v]
        /\ UNCHANGED call /\ call[u].at = "idle"
    BY <1>3, <1>c DEF UnlockChain, Calls, Typed, CallTyped
  <2>2. /\ mutex' = mutex /\ chain.locked /\ (link[Home] = u \/ past.robbed) /\ link' = [link EXCEPT ![Home] = None]
        /\ chain'.locked = FALSE
    BY <1>3 DEF UnlockChain, Typed, HasLocked
  <2>3. /\ Held(mutex, link, chain.locked, past.robbed, u, call[u].at, Server(u), call[u].link <= Len(Links))
        /\ chain.locked /\ ~past.robbed => link[Home] # None
    BY DEF Claims, ClaimsOf
  <2>4. Held(mutex', link', chain'.locked, past'.robbed, u, call'[u].at, Links[call'[u].link], call'[u].link <= Len(Links))
    BY <2>1, <2>2, <2>3, <1>l, <1>p DEF Held
  <2>5. \A v, a, s, t :
           v \in Users /\ v # u /\ Held(mutex, link, chain.locked, past.robbed, v, a, s, t) => Held(mutex', link', chain'.locked, past'.robbed, v, a, s, t)
    BY <2>1, <2>2, <2>3, <1>l, <1>p DEF Held
  <2>6. chain'.locked /\ ~past'.robbed => link'[Home] # None
    BY <2>1, <2>2, <2>3, <1>l, <1>p DEF Claims, Held
  <2> QED BY <2>1, <2>4, <2>5, <2>6, ClaimsStep
<1>4. ASSUME NEW u \in Users, ReadChain(u) PROVE Claims'
  <2>1. /\ call'[u].at \in {"refresh", "look"} /\ \A v \in Users : v # u => call'[v] = call[v]
        /\ call[u].at = "idle"
    BY <1>4, <1>c DEF ReadChain, Calls, Typed, CallTyped, Start, Idle
  <2>2. UNCHANGED <<mutex, link>> /\ UNCHANGED chain.locked
    BY <1>4 DEF ReadChain
  <2> QED BY <1>p, <2>1, <2>2, ClaimsKept
<1>5. ASSUME NEW u \in Users, ScanChain(u) PROVE Claims'
  <2>1. /\ call'[u].at = "refresh" /\ \A v \in Users : v # u => call'[v] = call[v]
        /\ call[u].at = "idle"
    BY <1>5, <1>c DEF ScanChain, Calls, Typed, CallTyped, Start, Idle
  <2>2. UNCHANGED <<mutex, link>> /\ UNCHANGED chain.locked
    BY <1>5 DEF ScanChain
  <2> QED BY <1>p, <2>1, <2>2, ClaimsKept
<1>6. ASSUME NEW u \in Users, Refresh(u) PROVE Claims'
  <2>1. /\ call'[u].at = "store" /\ \A v \in Users : v # u => call'[v] = call[v]
        /\ call[u].at = "refresh"
    BY <1>6, <1>c DEF Refresh, Calls, Typed, CallTyped, Refreshing
  <2>2. UNCHANGED <<mutex, link>> /\ UNCHANGED chain.locked
    BY <1>6 DEF Refresh
  <2> QED BY <1>p, <2>1, <2>2, ClaimsKept
<1>7. ASSUME NEW u \in Users, RefreshRefused(u) PROVE Claims'
  <2>1. /\ call'[u].at \in {"refresh", "done"} /\ \A v \in Users : v # u => call'[v] = call[v]
        /\ call[u].at = "refresh"
    BY <1>7, <1>c DEF RefreshRefused, Calls, Typed, CallTyped, Refreshing, Done
  <2>2. UNCHANGED <<mutex, link>> /\ UNCHANGED chain.locked
    BY <1>7 DEF RefreshRefused, Typed
  <2> QED BY <1>p, <2>1, <2>2, ClaimsKept
<1>8. ASSUME NEW u \in Users, RefreshLost(u) PROVE Claims'
  <2>1. /\ \A v \in Users : v # u => call'[v] = call[v]
        /\ call'[u].at = "done" /\ call[u].at = "refresh"
    BY <1>8, <1>c DEF RefreshLost, Calls, Typed, CallTyped, Refreshing, Done
  <2>2. /\ mutex' = mutex /\ link' = IF chain.locked THEN [link EXCEPT ![Home] = None] ELSE link
        /\ chain'.locked = FALSE
    BY <1>8 DEF RefreshLost, Typed, Invalidated, LinkAfterLoss
  <2>3. /\ Held(mutex, link, chain.locked, past.robbed, u, call[u].at, Server(u), call[u].link <= Len(Links))
        /\ chain.locked /\ ~past.robbed => link[Home] # None
    BY DEF Claims, ClaimsOf
  <2>4. Held(mutex', link', chain'.locked, past'.robbed, u, call'[u].at, Links[call'[u].link], call'[u].link <= Len(Links))
    BY <2>1, <2>2, <2>3, <1>l, <1>p DEF Held
  <2>5. \A v, a, s, t :
           v \in Users /\ v # u /\ Held(mutex, link, chain.locked, past.robbed, v, a, s, t) => Held(mutex', link', chain'.locked, past'.robbed, v, a, s, t)
    BY <2>1, <2>2, <2>3, <1>l, <1>p DEF Held
  <2>6. chain'.locked /\ ~past'.robbed => link'[Home] # None
    BY <2>1, <2>2, <2>3, <1>l, <1>p DEF Claims, Held
  <2> QED BY <2>1, <2>4, <2>5, <2>6, ClaimsStep
<1>9. ASSUME NEW u \in Users, Store(u) PROVE Claims'
  <2>1. /\ \A v \in Users : v # u => call'[v] = call[v]
        /\ call'[u].at = "fill" /\ call[u].at = "store"
    BY <1>9, <1>c DEF Store, Calls, Typed, CallTyped
  <2>2. /\ mutex = None /\ mutex' = u /\ UNCHANGED link
        /\ chain'.locked = chain.locked
    BY <1>9 DEF Store, Typed, TapsFree
  <2>3. /\ Held(mutex, link, chain.locked, past.robbed, u, call[u].at, Server(u), call[u].link <= Len(Links))
        /\ chain.locked /\ ~past.robbed => link[Home] # None
    BY DEF Claims, ClaimsOf
  <2>4. Held(mutex', link', chain'.locked, past'.robbed, u, call'[u].at, Links[call'[u].link], call'[u].link <= Len(Links))
    BY <2>1, <2>2, <2>3, <1>l, <1>p DEF Held
  <2>5. \A v, a, s, t :
           v \in Users /\ v # u /\ Held(mutex, link, chain.locked, past.robbed, v, a, s, t) => Held(mutex', link', chain'.locked, past'.robbed, v, a, s, t)
    BY <2>1, <2>2, <2>3, <1>l, <1>p DEF Held
  <2>6. chain'.locked /\ ~past'.robbed => link'[Home] # None
    BY <2>1, <2>2, <2>3, <1>l, <1>p DEF Claims, Held
  <2> QED BY <2>1, <2>4, <2>5, <2>6, ClaimsStep
<1>10. ASSUME NEW u \in Users, StoreTimeout(u) PROVE Claims'
  <2>1. /\ call'[u].at = "done" /\ \A v \in Users : v # u => call'[v] = call[v]
        /\ call[u].at = "store"
    BY <1>10, <1>c DEF StoreTimeout, Calls, Typed, CallTyped, Done
  <2>2. UNCHANGED <<mutex, link>> /\ UNCHANGED chain.locked
    BY <1>10 DEF StoreTimeout
  <2> QED BY <1>p, <2>1, <2>2, ClaimsKept
<1>11. ASSUME NEW u \in Users, Fill(u) PROVE Claims'
  <2>1. /\ \A v \in Users : v # u => call'[v] = call[v]
        /\ call'[u].at = "fill" /\ call[u].at = "fill"
    BY <1>11, <1>c DEF Fill, Calls, Typed, CallTyped
  <2>2. /\ mutex' = mutex /\ UNCHANGED link
        /\ chain'.locked = chain.locked
    BY <1>11 DEF Fill, Typed
  <2>3. /\ Held(mutex, link, chain.locked, past.robbed, u, call[u].at, Server(u), call[u].link <= Len(Links))
        /\ chain.locked /\ ~past.robbed => link[Home] # None
    BY DEF Claims, ClaimsOf
  <2>4. Held(mutex', link', chain'.locked, past'.robbed, u, call'[u].at, Links[call'[u].link], call'[u].link <= Len(Links))
    BY <2>1, <2>2, <2>3, <1>l, <1>p DEF Held
  <2>5. \A v, a, s, t :
           v \in Users /\ v # u /\ Held(mutex, link, chain.locked, past.robbed, v, a, s, t) => Held(mutex', link', chain'.locked, past'.robbed, v, a, s, t)
    BY <2>1, <2>2, <2>3, <1>l, <1>p DEF Held
  <2>6. chain'.locked /\ ~past'.robbed => link'[Home] # None
    BY <2>1, <2>2, <2>3, <1>l, <1>p DEF Claims, Held
  <2> QED BY <2>1, <2>4, <2>5, <2>6, ClaimsStep
<1>12. ASSUME NEW u \in Users, Stored(u) PROVE Claims'
  <2>1. /\ \A v \in Users : v # u => call'[v] = call[v]
        /\ call'[u].at \in {"look", "done"} /\ call[u].at = "fill"
    BY <1>12, <1>c DEF Stored, Calls, Typed, CallTyped, Go, Done
  <2>2. /\ mutex' = None /\ UNCHANGED link
        /\ chain'.locked = chain.locked
    BY <1>12 DEF Stored, Typed
  <2>3. /\ Held(mutex, link, chain.locked, past.robbed, u, call[u].at, Server(u), call[u].link <= Len(Links))
        /\ chain.locked /\ ~past.robbed => link[Home] # None
    BY DEF Claims, ClaimsOf
  <2>4. Held(mutex', link', chain'.locked, past'.robbed, u, call'[u].at, Links[call'[u].link], call'[u].link <= Len(Links))
    BY <2>1, <2>2, <2>3, <1>l, <1>p DEF Held
  <2>5. \A v, a, s, t :
           v \in Users /\ v # u /\ Held(mutex, link, chain.locked, past.robbed, v, a, s, t) => Held(mutex', link', chain'.locked, past'.robbed, v, a, s, t)
    BY <2>1, <2>2, <2>3, <1>l, <1>p DEF Held
  <2>6. chain'.locked /\ ~past'.robbed => link'[Home] # None
    BY <2>1, <2>2, <2>3, <1>l, <1>p DEF Claims, Held
  <2> QED BY <2>1, <2>4, <2>5, <2>6, ClaimsStep
<1>13. ASSUME NEW u \in Users, LookInVain(u) PROVE Claims'
  <2>1. /\ call'[u].at = "done" /\ \A v \in Users : v # u => call'[v] = call[v]
        /\ call[u].at = "look"
    BY <1>13, <1>c DEF LookInVain, Calls, Typed, CallTyped, At, Done
  <2>2. UNCHANGED <<mutex, link>> /\ UNCHANGED chain.locked
    BY <1>13 DEF LookInVain
  <2> QED BY <1>p, <2>1, <2>2, ClaimsKept
<1>14. ASSUME NEW u \in Users, Look(u) PROVE Claims'
  <2>1. /\ \A v \in Users : v # u => call'[v] = call[v]
        /\ call'[u].at = "copy" /\ call[u].at = "look"
    BY <1>14, <1>c DEF Look, Calls, Typed, CallTyped, At
  <2>2. /\ mutex = None /\ mutex' = u /\ UNCHANGED link
        /\ chain'.locked = chain.locked
    BY <1>14 DEF Look, Typed, TapsFree
  <2>3. /\ Held(mutex, link, chain.locked, past.robbed, u, call[u].at, Server(u), call[u].link <= Len(Links))
        /\ chain.locked /\ ~past.robbed => link[Home] # None
    BY DEF Claims, ClaimsOf
  <2>4. Held(mutex', link', chain'.locked, past'.robbed, u, call'[u].at, Links[call'[u].link], call'[u].link <= Len(Links))
    BY <2>1, <2>2, <2>3, <1>l, <1>p DEF Held
  <2>5. \A v, a, s, t :
           v \in Users /\ v # u /\ Held(mutex, link, chain.locked, past.robbed, v, a, s, t) => Held(mutex', link', chain'.locked, past'.robbed, v, a, s, t)
    BY <2>1, <2>2, <2>3, <1>l, <1>p DEF Held
  <2>6. chain'.locked /\ ~past'.robbed => link'[Home] # None
    BY <2>1, <2>2, <2>3, <1>l, <1>p DEF Claims, Held
  <2> QED BY <2>1, <2>4, <2>5, <2>6, ClaimsStep
<1>15. ASSUME NEW u \in Users, Copy(u) PROVE Claims'
  <2>1. /\ \A v \in Users : v # u => call'[v] = call[v]
        /\ call'[u].at = "copy" /\ call[u].at = "copy"
    BY <1>15, <1>c DEF Copy, Calls, Typed, CallTyped, At
  <2>2. /\ mutex' = mutex /\ UNCHANGED link
        /\ chain'.locked = chain.locked
    BY <1>15 DEF Copy, Typed
  <2>3. /\ Held(mutex, link, chain.locked, past.robbed, u, call[u].at, Server(u), call[u].link <= Len(Links))
        /\ chain.locked /\ ~past.robbed => link[Home] # None
    BY DEF Claims, ClaimsOf
  <2>4. Held(mutex', link', chain'.locked, past'.robbed, u, call'[u].at, Links[call'[u].link], call'[u].link <= Len(Links))
    BY <2>1, <2>2, <2>3, <1>l, <1>p DEF Held
  <2>5. \A v, a, s, t :
           v \in Users /\ v # u /\ Held(mutex, link, chain.locked, past.robbed, v, a, s, t) => Held(mutex', link', chain'.locked, past'.robbed, v, a, s, t)
    BY <2>1, <2>2, <2>3, <1>l, <1>p DEF Held
  <2>6. chain'.locked /\ ~past'.robbed => link'[Home] # None
    BY <2>1, <2>2, <2>3, <1>l, <1>p DEF Claims, Held
  <2> QED BY <2>1, <2>4, <2>5, <2>6, ClaimsStep
<1>16. ASSUME NEW u \in Users, EndCopy(u) PROVE Claims'
  <2>1. /\ \A v \in Users : v # u => call'[v] = call[v]
        /\ call'[u].at = "done" /\ call[u].at = "copy"
    BY <1>16, <1>c DEF EndCopy, Calls, Typed, CallTyped, At, Done
  <2>2. /\ mutex' = None /\ UNCHANGED link
        /\ chain'.locked = chain.locked
    BY <1>16 DEF EndCopy, Typed
  <2>3. /\ Held(mutex, link, chain.locked, past.robbed, u, call[u].at, Server(u), call[u].link <= Len(Links))
        /\ chain.locked /\ ~past.robbed => link[Home] # None
    BY DEF Claims, ClaimsOf
  <2>4. Held(mutex', link', chain'.locked, past'.robbed, u, call'[u].at, Links[call'[u].link], call'[u].link <= Len(Links))
    BY <2>1, <2>2, <2>3, <1>l, <1>p DEF Held
  <2>5. \A v, a, s, t :
           v \in Users /\ v # u /\ Held(mutex, link, chain.locked, past.robbed, v, a, s, t) => Held(mutex', link', chain'.locked, past'.robbed, v, a, s, t)
    BY <2>1, <2>2, <2>3, <1>l, <1>p DEF Held
  <2>6. chain'.locked /\ ~past'.robbed => link'[Home] # None
    BY <2>1, <2>2, <2>3, <1>l, <1>p DEF Claims, Held
  <2> QED BY <2>1, <2>4, <2>5, <2>6, ClaimsStep
<1>17. ASSUME NEW u \in Users, StartDefine(u) PROVE Claims'
  <2>1. /\ call'[u].at \in {"tell", "done"} /\ \A v \in Users : v # u => call'[v] = call[v]
        /\ call[u].at = "idle"
    BY <1>17, <1>c DEF StartDefine, Calls, Typed, CallTyped, Start, Idle
  <2>2. UNCHANGED <<mutex, link>> /\ UNCHANGED chain.locked
    BY <1>17 DEF StartDefine
  <2> QED BY <1>p, <2>1, <2>2, ClaimsKept
<1>18. ASSUME NEW u \in Users, Tell(u) PROVE Claims'
  <2>1. /\ call'[u].at = "tell" /\ \A v \in Users : v # u => call'[v] = call[v]
        /\ call[u].at = "tell"
    BY <1>18, <1>c DEF Tell, Calls, Typed, CallTyped, Advance, AtServer
  <2>2. UNCHANGED <<mutex, link>> /\ UNCHANGED chain.locked
    BY <1>18 DEF Tell
  <2> QED BY <1>p, <2>1, <2>2, ClaimsKept
<1>19. ASSUME NEW u \in Users, TellFails(u) PROVE Claims'
  <2>1. /\ \A v \in Users : v # u => call'[v] = call[v]
        /\ call'[u].at = "again" /\ call[u].at = "tell" /\ call'[u].link = call[u].link
    BY <1>19, <1>c DEF TellFails, Calls, Typed, CallTyped, Go, AtServer
  <2>2. /\ call[u].link <= Len(Links) /\ UNCHANGED <<mutex, link>>
        /\ chain'.locked = chain.locked
    BY <1>19, ServerTyped DEF TellFails, Typed, AtServer
  <2>3. /\ Held(mutex, link, chain.locked, past.robbed, u, call[u].at, Server(u), call[u].link <= Len(Links))
        /\ chain.locked /\ ~past.robbed => link[Home] # None
    BY DEF Claims, ClaimsOf
  <2>4. Held(mutex', link', chain'.locked, past'.robbed, u, call'[u].at, Links[call'[u].link], call'[u].link <= Len(Links))
    BY <2>1, <2>2, <2>3, <1>l, <1>p DEF Held, Server
  <2>5. \A v, a, s, t :
           v \in Users /\ v # u /\ Held(mutex, link, chain.locked, past.robbed, v, a, s, t) => Held(mutex', link', chain'.locked, past'.robbed, v, a, s, t)
    BY <2>1, <2>2, <2>3, <1>l, <1>p DEF Held
  <2>6. chain'.locked /\ ~past'.robbed => link'[Home] # None
    BY <2>1, <2>2, <2>3, <1>l, <1>p DEF Claims, Held
  <2> QED BY <2>1, <2>4, <2>5, <2>6, ClaimsStep
<1>20. ASSUME NEW u \in Users, ReleaseAgain(u) PROVE Claims'
  <2>1. /\ \A v \in Users : v # u => call'[v] = call[v]
        /\ call'[u].at = "tell" /\ call[u].at = "again"
    BY <1>20, <1>c DEF ReleaseAgain, Calls, Typed, CallTyped, Advance, AtServer
  <2>2. /\ Server(u) \in Servers /\ link' = [link EXCEPT ![Server(u)] = None] /\ mutex' = mutex
        /\ chain'.locked = chain.locked
    BY <1>20, ServerTyped DEF ReleaseAgain, Typed, AtServer
  <2>r. link[Server(u)] # None => past'.robbed
    BY <1>20 DEF ReleaseAgain, Robbing, PastTyped
  <2>3. /\ Held(mutex, link, chain.locked, past.robbed, u, call[u].at, Server(u), call[u].link <= Len(Links))
        /\ chain.locked /\ ~past.robbed => link[Home] # None
    BY DEF Claims, ClaimsOf
  <2>4. Held(mutex', link', chain'.locked, past'.robbed, u, call'[u].at, Links[call'[u].link], call'[u].link <= Len(Links))
    BY <2>1, <2>2, <2>3, <1>l, <1>p DEF Held, Server
  <2>5. \A v, a, s, t :
           v \in Users /\ v # u /\ Held(mutex, link, chain.locked, past.robbed, v, a, s, t) => Held(mutex', link', chain'.locked, past'.robbed, v, a, s, t)
    BY <2>1, <2>2, <2>3, <2>r, <1>l, <1>p DEF Held
  <2>6. chain'.locked /\ ~past'.robbed => link'[Home] # None
    BY <2>1, <2>2, <2>3, <2>r, <1>l, <1>p
  <2> QED BY <2>1, <2>4, <2>5, <2>6, ClaimsStep
<1>21. ASSUME NEW u \in Users, EndTell(u) PROVE Claims'
  <2>1. /\ call'[u].at = "done" /\ \A v \in Users : v # u => call'[v] = call[v]
        /\ call[u].at = "tell"
    BY <1>21, <1>c DEF EndTell, Calls, Typed, CallTyped, AfterServers, Done
  <2>2. UNCHANGED <<mutex, link>> /\ UNCHANGED chain.locked
    BY <1>21 DEF EndTell
  <2> QED BY <1>p, <2>1, <2>2, ClaimsKept
<1>22. ASSUME NEW u \in Users, GetDefined(u) PROVE Claims'
  <2>1. /\ call'[u].at = "ask" /\ \A v \in Users : v # u => call'[v] = call[v]
        /\ call[u].at = "idle"
    BY <1>22, <1>c DEF GetDefined, Calls, Typed, CallTyped, Start, Idle
  <2>2. UNCHANGED <<mutex, link>> /\ UNCHANGED chain.locked
    BY <1>22 DEF GetDefined
  <2> QED BY <1>p, <2>1, <2>2, ClaimsKept
<1>23. ASSUME NEW u \in Users, TellLeavesOut(u) PROVE Claims'
  <2>1. /\ call'[u].at = "tell" /\ \A v \in Users : v # u => call'[v] = call[v]
        /\ call[u].at = "tell"
    BY <1>23, <1>c DEF TellLeavesOut, Calls, Typed, CallTyped, Advance, AtServer
  <2>2. UNCHANGED <<mutex, link>> /\ UNCHANGED chain.locked
    BY <1>23 DEF TellLeavesOut
  <2> QED BY <1>p, <2>1, <2>2, ClaimsKept
<1>30. ASSUME NEW u \in Users, Relist(u) PROVE Claims'
  <2>1. UNCHANGED <<mutex, link, call, past>> /\ chain'.locked = chain.locked
    BY <1>30 DEF Relist, Typed
  <2> QED BY <2>1 DEF Claims, ClaimsOf, Server
<1>31. ASSUME NEW u \in Users, TellLost(u) PROVE Claims'
  <2>1. /\ \A v \in Users : v # u => call'[v] = call[v]
        /\ call'[u].at = "tell" /\ call[u].at = "tell"
    BY <1>31, <1>c DEF TellLost, Calls, Typed, CallTyped, Advance, AtServer
  <2>2. /\ Server(u) \in Servers /\ link[Server(u)] = None /\ UNCHANGED <<mutex, link>>
        /\ chain'.locked = IF Server(u) = Home THEN FALSE ELSE chain.locked
    BY <1>31, ServerTyped DEF TellLost, Typed, AtServer, Invalidated
  <2>3. /\ Held(mutex, link, chain.locked, past.robbed, u, call[u].at, Server(u), call[u].link <= Len(Links))
        /\ chain.locked /\ ~past.robbed => link[Home] # None
    BY DEF Claims, ClaimsOf
  <2>4. Held(mutex', link', chain'.locked, past'.robbed, u, call'[u].at, Links[call'[u].link], call'[u].link <= Len(Links))
    BY <2>1, <2>2, <2>3, <1>l, <1>p DEF Held
  <2>5. \A v, a, s, t :
           v \in Users /\ v # u /\ Held(mutex, link, chain.locked, past.robbed, v, a, s, t) => Held(mutex', link', chain'.locked, past'.robbed, v, a, s, t)
    BY <2>1, <2>2, <2>3, <1>l, <1>p DEF Held
  <2>6. chain'.locked /\ ~past'.robbed => link'[Home] # None
    BY <2>1, <2>2, <2>3, <1>l, <1>p
  <2> QED BY <2>1, <2>4, <2>5, <2>6, ClaimsStep
<1>32. ASSUME NEW u \in Users, AskLeavesOut(u) PROVE Claims'
  <2>1. /\ call'[u].at = "ask" /\ \A v \in Users : v # u => call'[v] = call[v]
        /\ call[u].at = "ask"
    BY <1>32, <1>c DEF AskLeavesOut, Calls, Typed, CallTyped, Counted, AtServer
  <2>2. UNCHANGED <<mutex, link>> /\ UNCHANGED chain.locked
    BY <1>32 DEF AskLeavesOut
  <2> QED BY <1>p, <2>1, <2>2, ClaimsKept
<1>24. ASSUME NEW u \in Users, Ask(u) PROVE Claims'
  <2>1. /\ \A v \in Users : v # u => call'[v] = call[v]
        /\ call'[u].at = "answer" /\ call[u].at = "ask" /\ call'[u].link = call[u].link
    BY <1>24, <1>c DEF Ask, Calls, Typed, CallTyped, Go, AtServer
  <2>2. /\ call[u].link <= Len(Links) /\ Server(u) \in Servers /\ link[Server(u)] = None
        /\ link' = [link EXCEPT ![Server(u)] = u] /\ mutex' = mutex
        /\ chain'.locked = chain.locked
    BY <1>24, ServerTyped DEF Ask, Typed, AtServer
  <2>3. /\ Held(mutex, link, chain.locked, past.robbed, u, call[u].at, Server(u), call[u].link <= Len(Links))
        /\ chain.locked /\ ~past.robbed => link[Home] # None
    BY DEF Claims, ClaimsOf
  <2>4. Held(mutex', link', chain'.locked, past'.robbed, u, call'[u].at, Links[call'[u].link], call'[u].link <= Len(Links))
    BY <2>1, <2>2, <2>3, <1>l, <1>p DEF Held, Server
  <2>5. \A v, a, s, t :
           v \in Users /\ v # u /\ Held(mutex, link, chain.locked, past.robbed, v, a, s, t) => Held(mutex', link', chain'.locked, past'.robbed, v, a, s, t)
    BY <2>1, <2>2, <2>3, <1>l, <1>p DEF Held
  <2>6. chain'.locked /\ ~past'.robbed => link'[Home] # None
    BY <2>1, <2>2, <2>3, <1>l, <1>p DEF Claims, Held
  <2> QED BY <2>1, <2>4, <2>5, <2>6, ClaimsStep
<1>25. ASSUME NEW u \in Users, AskFails(u) PROVE Claims'
  <2>1. /\ \A v \in Users : v # u => call'[v] = call[v]
        /\ call'[u].at = "ask" /\ call[u].at = "answer"
    BY <1>25, <1>c DEF AskFails, Calls, Typed, CallTyped, Counted, AtServer
  <2>2. /\ call[u].link <= Len(Links) /\ Server(u) \in Servers
        /\ link' = [link EXCEPT ![Server(u)] = None] /\ mutex' = mutex
        /\ chain'.locked = chain.locked
    BY <1>25, ServerTyped DEF AskFails, Typed, AtServer
  <2>3. /\ Held(mutex, link, chain.locked, past.robbed, u, call[u].at, Server(u), call[u].link <= Len(Links))
        /\ chain.locked /\ ~past.robbed => link[Home] # None
    BY DEF Claims, ClaimsOf
  <2>4. Held(mutex', link', chain'.locked, past'.robbed, u, call'[u].at, Links[call'[u].link], call'[u].link <= Len(Links))
    BY <2>1, <2>2, <2>3, <1>l, <1>p DEF Held, Server
  <2>5. \A v, a, s, t :
           v \in Users /\ v # u /\ Held(mutex, link, chain.locked, past.robbed, v, a, s, t) => Held(mutex', link', chain'.locked, past'.robbed, v, a, s, t)
    BY <2>1, <2>2, <2>3, <1>l, <1>p DEF Held
  <2>6. chain'.locked /\ ~past'.robbed => link'[Home] # None
    BY <2>1, <2>2, <2>3, <1>l, <1>p DEF Claims, Held
  <2> QED BY <2>1, <2>4, <2>5, <2>6, ClaimsStep
<1>26. ASSUME NEW u \in Users, Answered(u) PROVE Claims'
  <2>1. /\ \A v \in Users : v # u => call'[v] = call[v]
        /\ call'[u].at = "ask" /\ call[u].at = "answer"
    BY <1>26, <1>c DEF Answered, Calls, Typed, CallTyped, AtServer
  <2>2. /\ call[u].link <= Len(Links) /\ Server(u) \in Servers
        /\ link' = [link EXCEPT ![Server(u)] = None] /\ mutex' = mutex
        /\ chain'.locked = chain.locked
    BY <1>26, ServerTyped DEF Answered, Typed, AtServer
  <2>3. /\ Held(mutex, link, chain.locked, past.robbed, u, call[u].at, Server(u), call[u].link <= Len(Links))
        /\ chain.locked /\ ~past.robbed => link[Home] # None
    BY DEF Claims, ClaimsOf
  <2>4. Held(mutex', link', chain'.locked, past'.robbed, u, call'[u].at, Links[call'[u].link], call'[u].link <= Len(Links))
    BY <2>1, <2>2, <2>3, <1>l, <1>p DEF Held, Server
  <2>5. \A v, a, s, t :
           v \in Users /\ v # u /\ Held(mutex, link, chain.locked, past.robbed, v, a, s, t) => Held(mutex', link', chain'.locked, past'.robbed, v, a, s, t)
    BY <2>1, <2>2, <2>3, <1>l, <1>p DEF Held
  <2>6. chain'.locked /\ ~past'.robbed => link'[Home] # None
    BY <2>1, <2>2, <2>3, <1>l, <1>p DEF Claims, Held
  <2> QED BY <2>1, <2>4, <2>5, <2>6, ClaimsStep
<1>27. ASSUME NEW u \in Users, AnswerLost(u) PROVE Claims'
  <2>1. /\ \A v \in Users : v # u => call'[v] = call[v]
        /\ call'[u].at = "ask" /\ call[u].at = "answer"
    BY <1>27, <1>c DEF AnswerLost, Calls, Typed, CallTyped, Counted, AtServer
  <2>2. /\ call[u].link <= Len(Links) /\ Server(u) \in Servers
        /\ link' = [link EXCEPT ![Server(u)] = None] /\ mutex' = mutex
        /\ chain'.locked = IF Server(u) = Home THEN FALSE ELSE chain.locked
    BY <1>27, ServerTyped DEF AnswerLost, Typed, AtServer, Invalidated
  <2>3. /\ Held(mutex, link, chain.locked, past.robbed, u, call[u].at, Server(u), call[u].link <= Len(Links))
        /\ chain.locked /\ ~past.robbed => link[Home] # None
    BY DEF Claims, ClaimsOf
  <2>4. Held(mutex', link', chain'.locked, past'.robbed, u, call'[u].at, Links[call'[u].link], call'[u].link <= Len(Links))
    BY <2>1, <2>2, <2>3, <1>l, <1>p DEF Held, Server
  <2>5. \A v, a, s, t :
           v \in Users /\ v # u /\ Held(mutex, link, chain.locked, past.robbed, v, a, s, t) => Held(mutex', link', chain'.locked, past'.robbed, v, a, s, t)
    BY <2>1, <2>2, <2>3, <1>l, <1>p DEF Held
  <2>6. chain'.locked /\ ~past'.robbed => link'[Home] # None
    BY <2>1, <2>2, <2>3, <1>l, <1>p DEF Claims, Held
  <2> QED BY <2>1, <2>4, <2>5, <2>6, ClaimsStep
<1>28. ASSUME NEW u \in Users, Join(u) PROVE Claims'
  <2>1. /\ call'[u].at = "done" /\ \A v \in Users : v # u => call'[v] = call[v]
        /\ call[u].at = "ask"
    BY <1>28, <1>c DEF Join, Calls, Typed, CallTyped, AfterServers
  <2>2. UNCHANGED <<mutex, link>> /\ UNCHANGED chain.locked
    BY <1>28 DEF Join
  <2> QED BY <1>p, <2>1, <2>2, ClaimsKept
<1>29. ASSUME NEW u \in Users, Finish(u) PROVE Claims'
  <2>1. /\ call'[u].at = "idle" /\ \A v \in Users : v # u => call'[v] = call[v]
        /\ call[u].at = "done"
    BY <1>29, <1>c DEF Finish, Calls, Typed, CallTyped, Idle
  <2>2. UNCHANGED <<mutex, link>> /\ UNCHANGED chain.locked
    BY <1>29 DEF Finish
  <2> QED BY <1>p, <2>1, <2>2, ClaimsKept
<1> QED BY <1>0, <1>1, <1>2, <1>3, <1>4, <1>5, <1>6, <1>7, <1>8, <1>9, <1>10, <1>11, <1>12, <1>13, <1>14, <1>15, <1>16, <1>17, <1>18, <1>19, <1>20, <1>21, <1>22, <1>23, <1>24, <1>25, <1>26, <1>27, <1>28, <1>29, <1>30, <1>31, <1>32 DEF Next, ChainStep, DefinedStep

\* At first nothing has happened, and nothing is claimed.
LEMMA ClaimsInit == Init => PastTyped /\ Claims
BY ListsConstants DEF Init, Idle, PastTyped, Claims, ClaimsOf, Held

\* No call leaves a claim behind; and a chain that is locked keeps its link until a
\* second release takes a claim from another thread (read_device_chain, define_device,
\* get_defined_devices).
THEOREM NothingLeft == Spec => []NothingHeld
<1>1. Init => PastTyped /\ Typed /\ Claims
  BY TypedInit, ClaimsInit
<1>2. PastTyped /\ Typed /\ Claims /\ [Next]_vars => (PastTyped /\ Typed /\ Claims)'
  BY PastNext, TypedNext, ClaimsNext
<1>3. Typed /\ Claims => NothingHeld
  BY DEF Claims, ClaimsOf, Held, NothingHeld
<1> QED BY <1>1, <1>2, <1>3, PTL DEF Spec

-----------------------------------------------------------------------------
(* The lists.                                                               *)

\* A copy of the chain's list that is under way: so far it is the list's beginning.
CopyOf(c, h, taps, n) ==
    \E k \in 1 .. n :
       /\ taps = ChainLists[k] /\ c.count = Len(taps)
       /\ Len(c.list) <= Len(taps) /\ Len(c.list) <= c.space
       /\ c.list = SubSeq(taps, 1, Len(c.list))
       /\ h => k = n

\* A copy that is returned.
ReadOf(c, h, n) ==
    /\ c.result # "error" =>
          \E k \in 1 .. n :
             /\ c.list = SubSeq(ChainLists[k], 1, Min({c.space, Len(ChainLists[k])}))
             /\ c.count = Len(ChainLists[k])
             /\ h => k = n
    /\ c.result = "toomany" <=> c.result # "error" /\ c.count > c.space

\* A call c of a thread that has locked the chain or not (h), when the program
\* keeps taps and tag and the server's list has tag n.
Reading(c, h, taps, tag, n) ==
    /\ c.at \in {"refresh", "store", "fill"} => h
    /\ c.at \in {"refresh", "store", "fill", "look"} => c.list = <<>>
    /\ c.at \in {"tell", "again"} => c.op \in {"define", "undefine"}
    /\ c.at \in {"ask", "answer"} => c.op = "get"
    /\ c.at = "store" => n >= 1 /\ c.answer = Answer(tag, n, ChainLists[n])
    /\ c.at = "fill" => n >= 1 /\ c.answer.tag = n /\ taps \o c.answer.list = ChainLists[n]
    /\ c.at = "look" /\ h => tag = n
    /\ c.at = "copy" => CopyOf(c, h, taps, n)
    /\ c.at = "done" /\ c.op = "read" => ReadOf(c, h, n)

\* What the program keeps while no thread is filling its list.
Keeps(taps, tag, n) == tag <= n /\ Kept(taps, tag, ChainLists)

ReadingOf(u) == Reading(call[u], HasLocked(u), chain.taps, chain.tag, server)

ChainRead ==
    /\ \A u \in Users : ReadingOf(u)
    /\ (\A u \in Users : call[u].at # "fill") => Keeps(chain.taps, chain.tag, server)

DefinedRead ==
    \A s \in Servers :
       /\ defined[s].tag <= Len(database[s])
       /\ defined[s].whole => Kept(defined[s].list, defined[s].tag, database[s])

\* The lists of devices: every step keeps what their tags tell.
LEMMA DefinedNext == Typed /\ DefinedRead /\ [Next]_vars => DefinedRead'
<1> SUFFICES ASSUME Typed, DefinedRead, [Next]_vars PROVE DefinedRead'
  OBVIOUS
<1> DEFINE Ok(d, versions) == d.tag <= Len(versions) /\ (d.whole => Kept(d.list, d.tag, versions))
           Defineds == [tag : Nat, list : Seq(Devices), whole : BOOLEAN]
<1>1. \A s \in Servers : /\ Ok(defined[s], database[s]) /\ defined[s] \in Defineds
                        /\ database[s] \in Seq(Seq(Devices)) /\ Len(database[s]) >= 1
  BY DEF DefinedRead, Typed
<1>2. SUFFICES \A s \in Servers : Ok(defined'[s], database'[s])
  BY DEF DefinedRead
<1>3. CASE UNCHANGED <<defined, database>>
  BY <1>1, <1>3
<1>4. ASSUME NEW u \in Users, Tell(u) \/ TellLost(u)
      PROVE  \A s \in Servers : Ok(defined'[s], database'[s])
  <2>1. UNCHANGED defined
    BY <1>4 DEF Tell, TellLost
  <2>2. CASE UNCHANGED database
    BY <1>1, <2>1, <2>2
  <2>3. ASSUME NEW e, database' = [database EXCEPT ![Server(u)] = Append(database[Server(u)], e)]
        PROVE  \A s \in Servers : Ok(defined'[s], database'[s])
    <3> TAKE s \in Servers
    <3>1. CASE s # Server(u)
      BY <1>1, <2>1, <2>3, <3>1 DEF Typed
    <3>2. CASE s = Server(u)
      <4>1. database'[s] = Append(database[s], e)
        BY <2>3, <3>2 DEF Typed
      <4>2. /\ Len(Append(database[s], e)) = Len(database[s]) + 1 /\ Len(database[s]) \in Nat
            /\ \A n \in 1 .. Len(database[s]) : Append(database[s], e)[n] = database[s][n]
        BY <1>1
      <4>3. defined[s].tag \in Nat /\ defined[s].tag <= Len(database[s])
        BY <1>1
      <4>4. defined[s].tag # 0 => defined[s].tag \in 1 .. Len(database[s])
        BY <4>2, <4>3
      <4> QED BY <1>1, <2>1, <4>1, <4>2, <4>3, <4>4 DEF Kept
    <3> QED BY <3>1, <3>2
  <2> QED BY <1>4, <2>2, <2>3 DEF Tell, TellLost, Told
<1>5. ASSUME NEW u \in Users, Answered(u)
      PROVE  \A s \in Servers : Ok(defined'[s], database'[s])
  <2> DEFINE s == Server(u)
             kept == defined[s]
             versions == database[s]
             list == Last(versions)
             tag == Len(versions)
  <2>1. s \in Servers /\ UNCHANGED database
    BY <1>5, ServerTyped DEF Answered, AtServer, Typed
  <2>2. PICK after \in AfterAnswer(kept, tag, list) : defined' = [defined EXCEPT ![s] = after]
    BY <1>5 DEF Answered
  <2>3. list \in Seq(Devices) /\ list = versions[tag] /\ tag \in Nat /\ tag >= 1 /\ Ok(kept, versions) /\ kept \in Defineds
    BY <1>1, <2>1, LastTyped
  <2>4. Parsed(list) = list
    BY <2>3, ParsedSame
  <2>5. Ok(after, versions)
    <3>1. after \in AfterAnswer(kept, tag, list)
      OBVIOUS
    <3> HIDE DEF kept, versions, tag, list
    <3>2. tag = Len(versions)
      BY DEF tag
    <3>3. \/ list = <<>> /\ after = [tag |-> tag, list |-> <<>>, whole |-> TRUE]
          \/ after = [tag |-> tag, list |-> list, whole |-> TRUE]
          \/ after = [tag |-> tag, list |-> <<>>, whole |-> FALSE]
          \/ kept.tag = tag /\ after = [kept EXCEPT !.tag = tag]
      BY <2>4, <3>1 DEF AfterAnswer, Answer
    <3>4. kept.tag = tag => [kept EXCEPT !.tag = tag] = kept
      BY <2>3
    <3> QED BY <2>3, <3>2, <3>3, <3>4 DEF Kept
  <2> HIDE DEF s
  <2>6. \A t \in Servers : defined'[t] = IF t = s THEN after ELSE defined[t]
    BY <2>1, <2>2 DEF Typed
  <2> QED BY <1>1, <2>1, <2>5, <2>6
<1>6. ASSUME NEW u \in Users, AnswerLost(u)
      PROVE  \A s \in Servers : Ok(defined'[s], database'[s])
  <2> DEFINE s == Server(u)
             none == [tag |-> 0, list |-> <<>>, whole |-> TRUE]
  <2>1. UNCHANGED database /\ defined' = [defined EXCEPT ![s] = none]
    BY <1>6 DEF AnswerLost
  <2> HIDE DEF s
  <2>2. \A t \in Servers : Ok(none, database[t])
    BY <1>1 DEF Kept
  <2> HIDE DEF none
  <2>3. \A t \in Servers : defined'[t] = none \/ defined'[t] = defined[t]
    BY <2>1 DEF Typed
  <2> QED BY <1>1, <2>1, <2>2, <2>3
<1> HIDE DEF Ok
<1>7. CASE UNCHANGED vars
  BY <1>3, <1>7 DEF vars
<1>8. ASSUME NEW u \in Users, ChainStep(u)
      PROVE  UNCHANGED <<defined, database>>
  BY <1>8 DEF ChainStep, LockChain, UnlockChain, Relist, ReadChain, ScanChain, Refresh, RefreshRefused, RefreshLost,
              Store, StoreTimeout, Fill, Stored, LookInVain, Look, Copy, EndCopy
<1>9. ASSUME NEW u \in Users, DefinedStep(u)
      PROVE  UNCHANGED <<defined, database>> \/ Tell(u) \/ TellLost(u) \/ Answered(u) \/ AnswerLost(u)
  BY <1>9 DEF DefinedStep, StartDefine, TellLeavesOut, TellFails, ReleaseAgain, EndTell, GetDefined, AskLeavesOut, Ask, AskFails, Join
<1> QED BY <1>3, <1>4, <1>5, <1>6, <1>7, <1>8, <1>9 DEF Next, OtherScans, Finish

\* At first the program keeps nothing.
LEMMA DefinedInit == Init => DefinedRead
<1> SUFFICES ASSUME Init, NEW s \in Servers PROVE defined[s].tag <= Len(database[s]) /\ defined[s].tag = 0
  BY DEF DefinedRead, Kept
<1>1. defined[s].tag = 0 /\ Len(database[s]) = 1
  BY DEF Init
<1> QED BY <1>1

\* A step of u keeps what calls read if it keeps what u's call reads and what others' do.
LEMMA ReadStep ==
    ASSUME ChainRead, NEW u \in Users,
           \A v \in Users : v # u => call'[v] = call[v],
           Reading(call'[u], HasLocked(u)', chain'.taps, chain'.tag, server'),
           \A v \in Users : v # u => Reading(call[v], HasLocked(v)', chain'.taps, chain'.tag, server'),
           (\A v \in Users : call'[v].at # "fill") => Keeps(chain'.taps, chain'.tag, server')
    PROVE  ChainRead'
<1>1. \A v \in Users : ReadingOf(v)'
  BY DEF ReadingOf
<1> QED BY <1>1 DEF ChainRead

\* A step that leaves the chain's lists alone, and who has locked the chain.
LEMMA QuietStep ==
    ASSUME ChainRead, NEW u \in Users,
           \A v \in Users : v # u => call'[v] = call[v],
           UNCHANGED <<chain.taps, chain.tag, server>>,
           \A v \in Users : v # u => HasLocked(v)' = HasLocked(v),
           call[u].at # "fill", call'[u].at # "fill",
           Reading(call'[u], HasLocked(u)', chain.taps, chain.tag, server)
    PROVE  ChainRead'
<1>1. \A v \in Users : v # u => Reading(call[v], HasLocked(v)', chain'.taps, chain'.tag, server')
  BY DEF ChainRead, ReadingOf
<1>2. (\A v \in Users : call'[v].at # "fill") => Keeps(chain'.taps, chain'.tag, server')
  <2>1. (\A v \in Users : call'[v].at # "fill") => \A v \in Users : call[v].at # "fill"
    OBVIOUS
  <2> QED BY <2>1 DEF ChainRead
<1> QED BY <1>1, <1>2, ReadStep

\* Only one thread has locked the chain.
LEMMA LockedByOne ==
    ASSUME NEW u \in Users, NEW v \in Users, HasLocked(u), HasLocked(v)
    PROVE  u = v
BY DEF HasLocked

\* What a thread reads that has not locked the chain, and neither stores nor
\* copies the list, does not depend on what the program keeps.
LEMMA ReadingElsewhere ==
    ASSUME NEW c, NEW taps, NEW tag, NEW n \in Nat, NEW taps2, NEW tag2, NEW m \in Nat, n <= m,
           Reading(c, FALSE, taps, tag, n), c.at = "copy" => taps2 = taps
    PROVE  Reading(c, FALSE, taps2, tag2, m)
<1>1. 1 .. n \subseteq 1 .. m
  OBVIOUS
<1>2. ReadOf(c, FALSE, n) => ReadOf(c, FALSE, m)
  BY <1>1 DEF ReadOf
<1>3. CopyOf(c, FALSE, taps, n) => CopyOf(c, FALSE, taps, m)
  BY <1>1 DEF CopyOf
<1> QED BY <1>2, <1>3 DEF Reading

\* The fields of an answer.
LEMMA AnswerFields ==
    ASSUME NEW known, NEW tag, NEW list
    PROVE  /\ Answer(known, tag, list).tag = tag /\ Answer(known, tag, list).list = list
           /\ Answer(known, tag, list).sent = (list # <<>> /\ known # tag)
BY DEF Answer

\* A list that is not empty stays out of an answer only when the client's tag was right already.
LEMMA UnsentIsKnown ==
    ASSUME NEW known, NEW tag, NEW list, NEW a, a = Answer(known, tag, list), list # <<>>, ~a.sent
    PROVE  known = tag
<1>1. a.sent = (list # <<>> /\ known # tag)
  BY AnswerFields
<1> QED BY <1>1

\* Every step keeps what calls read.
LEMMA ReadNext ==
    ASSUME PastTyped, Typed, Claims, ~past.robbed /\ ~past.shared => ChainRead, [Next]_vars
    PROVE  ~past'.robbed /\ ~past'.shared => ChainRead'
<1> SUFFICES ASSUME ~past'.robbed, ~past'.shared PROVE ChainRead'
  OBVIOUS
<1>p. ~past.robbed /\ ~past.shared /\ ChainRead
  BY PastNext
<1> USE ListsConstants
<1>c. \A u \in Users : /\ call[u] \in Calls /\ Reading(call[u], HasLocked(u), chain.taps, chain.tag, server)
                      /\ Held(mutex, link, chain.locked, past.robbed, u, call[u].at, Server(u), call[u].link <= Len(Links))
  BY <1>p DEF Typed, CallTyped, ChainRead, ReadingOf, Claims, ClaimsOf
<1>l. /\ link \in [Servers -> Users \cup {None}] /\ Home \in Servers /\ None \notin Users
      /\ server \in Nat /\ chain.tag \in Nat /\ chain.taps \in Seq(Devices)
      /\ ChainLists \in Seq(Seq(Devices)) /\ server <= Len(ChainLists) /\ Len(ChainLists) \in Nat
  <2>1. ChainLists \in Seq(Seq(Devices)) /\ Len(ChainLists) \in Nat
    BY ListsData
  <2> QED BY <2>1 DEF Typed
<1>0. CASE UNCHANGED vars
  BY <1>0, <1>p DEF vars, ChainRead, ReadingOf, HasLocked
<1>1. ASSUME NEW u \in Users, LockChain(u) PROVE ChainRead'
  <2>1. /\ \A v \in Users : v # u => call'[v] = call[v]
        /\ UNCHANGED call /\ call[u].at = "idle"
    BY <1>1, <1>c DEF LockChain, Calls, Typed, CallTyped
  <2>2. UNCHANGED <<chain.taps, chain.tag, server>>
    BY <1>1 DEF LockChain, Typed
  <2>5. \A v \in Users : v # u => ~HasLocked(v) /\ ~HasLocked(v)'
    BY <1>1, <1>l DEF LockChain, HasLocked, Typed
  <2>3. \A v \in Users : v # u => HasLocked(v)' = HasLocked(v)
    BY <2>5 DEF HasLocked
  <2>4. Reading(call'[u], HasLocked(u)', chain.taps, chain.tag, server)
    BY <2>1 DEF Reading
  <2> QED BY <2>1, <2>2, <2>3, <2>4, <1>p, QuietStep
<1>2. ASSUME NEW u \in Users, UnlockChain(u) PROVE ChainRead'
  <2>1. /\ \A v \in Users : v # u => call'[v] = call[v]
        /\ UNCHANGED call /\ call[u].at = "idle"
    BY <1>2, <1>c DEF UnlockChain, Calls, Typed, CallTyped
  <2>2. UNCHANGED <<chain.taps, chain.tag, server>>
    BY <1>2 DEF UnlockChain, Typed
  <2>5. \A v \in Users : v # u => ~HasLocked(v) /\ ~HasLocked(v)'
    BY <1>2, <1>l, <1>p DEF UnlockChain, HasLocked, Typed
  <2>3. \A v \in Users : v # u => HasLocked(v)' = HasLocked(v)
    BY <2>5 DEF HasLocked
  <2>4. Reading(call'[u], HasLocked(u)', chain.taps, chain.tag, server)
    BY <2>1 DEF Reading
  <2> QED BY <2>1, <2>2, <2>3, <2>4, <1>p, QuietStep
<1>3. ASSUME NEW u \in Users, ReadChain(u) PROVE ChainRead'
  <2>1. /\ \A v \in Users : v # u => call'[v] = call[v]
        /\ call[u].at = "idle" /\ call'[u].list = <<>> /\ call'[u].at = IF chain.locked THEN "refresh" ELSE "look"
    BY <1>3, <1>c DEF ReadChain, Calls, Typed, CallTyped, Start, Idle
  <2>2. UNCHANGED <<chain.taps, chain.tag, server>>
    BY <1>3 DEF ReadChain
  <2>3. \A v \in Users : HasLocked(v)' = HasLocked(v)
    BY <1>3 DEF ReadChain, HasLocked
  <2>4. Reading(call'[u], HasLocked(u)', chain.taps, chain.tag, server)
    <3>1. chain.locked => HasLocked(u)
      BY <1>3 DEF ReadChain, Sharing, PastTyped
    <3> QED BY <1>3, <2>1, <2>3, <3>1 DEF Reading, ReadChain, HasLocked
  <2> QED BY <2>1, <2>2, <2>3, <2>4, <1>p, QuietStep
<1>4. ASSUME NEW u \in Users, ScanChain(u) PROVE ChainRead'
  <2>1. /\ \A v \in Users : v # u => call'[v] = call[v]
        /\ call[u].at = "idle" /\ call'[u].list = <<>> /\ call'[u].at = "refresh"
    BY <1>4, <1>c DEF ScanChain, Calls, Typed, CallTyped, Start, Idle
  <2>2. UNCHANGED <<chain.taps, chain.tag, server>>
    BY <1>4 DEF ScanChain
  <2>3. \A v \in Users : HasLocked(v)' = HasLocked(v)
    BY <1>4 DEF ScanChain, HasLocked
  <2>4. Reading(call'[u], HasLocked(u)', chain.taps, chain.tag, server)
    <3>1. chain.locked => HasLocked(u)
      BY <1>4 DEF ScanChain, Sharing, PastTyped
    <3> QED BY <1>4, <2>1, <2>3, <3>1 DEF Reading, ScanChain, HasLocked
  <2> QED BY <2>1, <2>2, <2>3, <2>4, <1>p, QuietStep
<1>5. ASSUME NEW u \in Users, StoreTimeout(u) PROVE ChainRead'
  <2>1. /\ \A v \in Users : v # u => call'[v] = call[v]
        /\ call[u].at = "store" /\ call'[u].at = "done" /\ call'[u].result = "error"
    BY <1>5, <1>c DEF StoreTimeout, Calls, Typed, CallTyped, Done
  <2>2. UNCHANGED <<chain.taps, chain.tag, server>>
    BY <1>5 DEF StoreTimeout
  <2>3. \A v \in Users : HasLocked(v)' = HasLocked(v)
    BY <1>5 DEF StoreTimeout, HasLocked
  <2>4. Reading(call'[u], HasLocked(u)', chain.taps, chain.tag, server)
    BY <2>1, <2>3, <1>c DEF Reading, ReadOf
  <2> QED BY <2>1, <2>2, <2>3, <2>4, <1>p, QuietStep
<1>6. ASSUME NEW u \in Users, LookInVain(u) PROVE ChainRead'
  <2>1. /\ \A v \in Users : v # u => call'[v] = call[v]
        /\ call[u].at = "look" /\ call'[u].at = "done" /\ call'[u].result = "error"
    BY <1>6, <1>c DEF LookInVain, Calls, Typed, CallTyped, At, Done
  <2>2. UNCHANGED <<chain.taps, chain.tag, server>>
    BY <1>6 DEF LookInVain
  <2>3. \A v \in Users : HasLocked(v)' = HasLocked(v)
    BY <1>6 DEF LookInVain, HasLocked
  <2>4. Reading(call'[u], HasLocked(u)', chain.taps, chain.tag, server)
    BY <2>1, <2>3, <1>c DEF Reading, ReadOf
  <2> QED BY <2>1, <2>2, <2>3, <2>4, <1>p, QuietStep
<1>7. ASSUME NEW u \in Users, Look(u) PROVE ChainRead'
  <2>1. /\ \A v \in Users : v # u => call'[v] = call[v]
        /\ call[u].at = "look" /\ call'[u].at = "copy" /\ call'[u].list = call[u].list
        /\ call'[u].count = Len(chain.taps) /\ call'[u].space = call[u].space /\ call[u].space \in Nat
    BY <1>7, <1>c DEF Look, Calls, Typed, CallTyped, At
  <2>2. UNCHANGED <<chain.taps, chain.tag, server>>
    BY <1>7 DEF Look
  <2>3. \A v \in Users : HasLocked(v)' = HasLocked(v)
    BY <1>7 DEF Look, HasLocked
  <2>4. Reading(call'[u], HasLocked(u)', chain.taps, chain.tag, server)
    <3>1. call[u].list = <<>> /\ (HasLocked(u) => chain.tag = server)
      BY <1>c, <2>1 DEF Reading
    <3>2. \A v \in Users : call[v].at # "fill"
      BY <1>7, <1>c DEF Look, TapsFree, Held
    <3>3. chain.tag \in 1 .. server /\ chain.taps = ChainLists[chain.tag]
      BY <1>p, <1>7, <1>l, <3>2 DEF Look, ChainRead, Keeps, Kept
    <3>4. Len(<<>>) = 0 /\ SubSeq(chain.taps, 1, 0) = <<>> /\ Len(chain.taps) \in Nat
      BY <1>l
    <3>5. CopyOf(call'[u], HasLocked(u)', chain.taps, server)
      BY <2>1, <2>3, <3>1, <3>3, <3>4 DEF CopyOf
    <3> QED BY <2>1, <3>5 DEF Reading
  <2> QED BY <2>1, <2>2, <2>3, <2>4, <1>p, QuietStep
<1>8. ASSUME NEW u \in Users, Copy(u) PROVE ChainRead'
  <2>1. /\ \A v \in Users : v # u => call'[v] = call[v]
        /\ call[u].at = "copy" /\ call'[u].at = "copy" /\ call'[u].list = Append(call[u].list, chain.taps[Len(call[u].list) + 1])
        /\ call'[u].count = call[u].count /\ call'[u].space = call[u].space /\ call[u].space \in Nat
        /\ call[u].list \in Seq(Devices)
    BY <1>8, <1>c DEF Copy, Calls, Typed, CallTyped, At, Copied
  <2>2. UNCHANGED <<chain.taps, chain.tag, server>>
    BY <1>8 DEF Copy
  <2>3. \A v \in Users : HasLocked(v)' = HasLocked(v)
    BY <1>8 DEF Copy, HasLocked
  <2>4. Reading(call'[u], HasLocked(u)', chain.taps, chain.tag, server)
    <3>1. Len(call[u].list) < call[u].space /\ Len(call[u].list) < Len(chain.taps)
      BY <1>8 DEF Copy, Copied
    <3>2. PICK k \in 1 .. server :
             /\ chain.taps = ChainLists[k] /\ call[u].count = Len(chain.taps)
             /\ call[u].list = SubSeq(chain.taps, 1, Len(call[u].list))
             /\ HasLocked(u) => k = server
      BY <1>c, <2>1 DEF Reading, CopyOf
    <3> DEFINE m == Len(call[u].list)
    <3>9. call[u].list \in Seq(Devices) /\ chain.taps \in Seq(Devices)
      BY <1>l, <2>1
    <3>a. m \in Nat /\ Len(chain.taps) \in Nat
      BY <3>9
    <3>3. m \in Nat /\ m < Len(chain.taps) /\ m < call[u].space /\ Len(chain.taps) \in Nat
      BY <3>1, <3>a
    <3>4. Append(SubSeq(chain.taps, 1, m), chain.taps[m + 1]) = SubSeq(chain.taps, 1, m + 1)
      <4> HIDE DEF m
      <4> QED BY <1>l, <3>3, BeginningGrows
    <3>5. call'[u].list = SubSeq(chain.taps, 1, m + 1)
      BY <2>1, <3>2, <3>4
    <3>6. Len(call'[u].list) = m + 1
      BY <2>1
    <3> HIDE DEF m
    <3>7. Len(call'[u].list) <= Len(chain.taps) /\ Len(call'[u].list) <= call'[u].space
      BY <2>1, <3>3, <3>6
    <3>8. CopyOf(call'[u], HasLocked(u)', chain.taps, server)
      BY <2>1, <2>3, <3>2, <3>5, <3>6, <3>7 DEF CopyOf
    <3> QED BY <2>1, <3>8 DEF Reading
  <2> QED BY <2>1, <2>2, <2>3, <2>4, <1>p, QuietStep
<1>9. ASSUME NEW u \in Users, EndCopy(u) PROVE ChainRead'
  <2>1. /\ \A v \in Users : v # u => call'[v] = call[v]
        /\ call[u].at = "copy" /\ call'[u].at = "done" /\ call'[u].list = call[u].list
        /\ call'[u].result = (IF call[u].count > call[u].space THEN "toomany" ELSE "ok")
        /\ call'[u].count = call[u].count /\ call'[u].space = call[u].space /\ call[u].space \in Nat
        /\ call[u].list \in Seq(Devices)
    BY <1>9, <1>c DEF EndCopy, Calls, Typed, CallTyped, At, Done
  <2>2. UNCHANGED <<chain.taps, chain.tag, server>>
    BY <1>9 DEF EndCopy
  <2>3. \A v \in Users : HasLocked(v)' = HasLocked(v)
    BY <1>9 DEF EndCopy, HasLocked
  <2>4. Reading(call'[u], HasLocked(u)', chain.taps, chain.tag, server)
    <3>1. Len(call[u].list) >= call[u].space \/ Len(call[u].list) >= Len(chain.taps)
      BY <1>9 DEF EndCopy, Copied
    <3>2. PICK k \in 1 .. server :
             /\ chain.taps = ChainLists[k] /\ call[u].count = Len(chain.taps)
             /\ call[u].list = SubSeq(chain.taps, 1, Len(call[u].list))
             /\ Len(call[u].list) <= Len(chain.taps) /\ Len(call[u].list) <= call[u].space
             /\ HasLocked(u) => k = server
      BY <1>c, <2>1 DEF Reading, CopyOf
    <3> DEFINE m == Len(call[u].list)
               l == Len(chain.taps)
    <3>3. m \in Nat /\ l \in Nat
      BY <1>l, <2>1
    <3>4. m = Min({call[u].space, l})
      <4>1. m <= l /\ m <= call[u].space /\ (m >= call[u].space \/ m >= l)
        BY <3>1, <3>2
      <4> HIDE DEF m, l
      <4>2. Min({call[u].space, l}) = IF call[u].space <= l THEN call[u].space ELSE l
        BY <2>1, <3>3, MinOfTwo
      <4> QED BY <2>1, <3>3, <4>1, <4>2
    <3>5. call'[u].list = SubSeq(ChainLists[k], 1, Min({call'[u].space, Len(ChainLists[k])}))
      BY <2>1, <3>2, <3>4
    <3>6. ReadOf(call'[u], HasLocked(u)', server)
      <4>1. call'[u].count = Len(ChainLists[k]) /\ (HasLocked(u)' => k = server)
        BY <2>1, <2>3, <3>2
      <4>2. call'[u].result = "toomany" <=> call'[u].result # "error" /\ call'[u].count > call'[u].space
        BY <2>1
      <4> QED BY <3>5, <4>1, <4>2 DEF ReadOf
    <3> QED BY <2>1, <3>6 DEF Reading
  <2> QED BY <2>1, <2>2, <2>3, <2>4, <1>p, QuietStep
<1>10. ASSUME NEW u \in Users, StartDefine(u) PROVE ChainRead'
  <2>1. /\ \A v \in Users : v # u => call'[v] = call[v]
        /\ call[u].at = "idle" /\ call'[u].at \in {"tell", "done"} /\ call'[u].op \in {"define", "undefine"}
    BY <1>10, <1>c DEF StartDefine, Calls, Typed, CallTyped, Start, Idle
  <2>2. UNCHANGED <<chain.taps, chain.tag, server>>
    BY <1>10 DEF StartDefine
  <2>3. \A v \in Users : HasLocked(v)' = HasLocked(v)
    BY <1>10 DEF StartDefine, HasLocked
  <2>4. Reading(call'[u], HasLocked(u)', chain.taps, chain.tag, server)
    BY <2>1, <2>3, <1>c DEF Reading
  <2> QED BY <2>1, <2>2, <2>3, <2>4, <1>p, QuietStep
<1>11. ASSUME NEW u \in Users, Tell(u) PROVE ChainRead'
  <2>1. /\ \A v \in Users : v # u => call'[v] = call[v]
        /\ call[u].at = "tell" /\ call'[u].at = "tell" /\ call'[u].op = call[u].op
    BY <1>11, <1>c DEF Tell, Calls, Typed, CallTyped, Advance, AtServer
  <2>2. UNCHANGED <<chain.taps, chain.tag, server>>
    BY <1>11 DEF Tell
  <2>3. \A v \in Users : HasLocked(v)' = HasLocked(v)
    BY <1>11 DEF Tell, HasLocked
  <2>4. Reading(call'[u], HasLocked(u)', chain.taps, chain.tag, server)
    BY <2>1, <2>3, <1>c DEF Reading
  <2> QED BY <2>1, <2>2, <2>3, <2>4, <1>p, QuietStep
<1>12. ASSUME NEW u \in Users, TellFails(u) PROVE ChainRead'
  <2>1. /\ \A v \in Users : v # u => call'[v] = call[v]
        /\ call[u].at = "tell" /\ call'[u].at = "again" /\ call'[u].op = call[u].op
    BY <1>12, <1>c DEF TellFails, Calls, Typed, CallTyped, Go, AtServer
  <2>2. UNCHANGED <<chain.taps, chain.tag, server>>
    BY <1>12 DEF TellFails
  <2>3. \A v \in Users : HasLocked(v)' = HasLocked(v)
    BY <1>12 DEF TellFails, HasLocked
  <2>4. Reading(call'[u], HasLocked(u)', chain.taps, chain.tag, server)
    BY <2>1, <2>3, <1>c DEF Reading
  <2> QED BY <2>1, <2>2, <2>3, <2>4, <1>p, QuietStep
<1>13. ASSUME NEW u \in Users, ReleaseAgain(u) PROVE ChainRead'
  <2>1. /\ \A v \in Users : v # u => call'[v] = call[v]
        /\ call[u].at = "again" /\ call'[u].at = "tell" /\ call'[u].op = call[u].op
    BY <1>13, <1>c DEF ReleaseAgain, Calls, Typed, CallTyped, Advance, AtServer
  <2>2. UNCHANGED <<chain.taps, chain.tag, server>>
    BY <1>13 DEF ReleaseAgain
  <2>3. \A v \in Users : HasLocked(v)' = HasLocked(v)
    <3>1. link' = [link EXCEPT ![Server(u)] = None] /\ chain'.locked = chain.locked
      BY <1>13 DEF ReleaseAgain
    <3>2. link[Server(u)] = None
      BY <1>13 DEF ReleaseAgain, Robbing, PastTyped
    <3>3. link' = link
      BY <1>l, <3>1, <3>2
    <3> QED BY <3>1, <3>3 DEF HasLocked
  <2>4. Reading(call'[u], HasLocked(u)', chain.taps, chain.tag, server)
    BY <2>1, <2>3, <1>c DEF Reading
  <2> QED BY <2>1, <2>2, <2>3, <2>4, <1>p, QuietStep
<1>14. ASSUME NEW u \in Users, EndTell(u) PROVE ChainRead'
  <2>1. /\ \A v \in Users : v # u => call'[v] = call[v]
        /\ call[u].at = "tell" /\ call'[u].at = "done" /\ call'[u].op = call[u].op
    BY <1>14, <1>c DEF EndTell, Calls, Typed, CallTyped, Done, AfterServers
  <2>2. UNCHANGED <<chain.taps, chain.tag, server>>
    BY <1>14 DEF EndTell
  <2>3. \A v \in Users : HasLocked(v)' = HasLocked(v)
    BY <1>14 DEF EndTell, HasLocked
  <2>4. Reading(call'[u], HasLocked(u)', chain.taps, chain.tag, server)
    BY <2>1, <2>3, <1>c DEF Reading
  <2> QED BY <2>1, <2>2, <2>3, <2>4, <1>p, QuietStep
<1>15. ASSUME NEW u \in Users, GetDefined(u) PROVE ChainRead'
  <2>1. /\ \A v \in Users : v # u => call'[v] = call[v]
        /\ call[u].at = "idle" /\ call'[u].at = "ask" /\ call'[u].op = "get"
    BY <1>15, <1>c DEF GetDefined, Calls, Typed, CallTyped, Start, Idle
  <2>2. UNCHANGED <<chain.taps, chain.tag, server>>
    BY <1>15 DEF GetDefined
  <2>3. \A v \in Users : HasLocked(v)' = HasLocked(v)
    BY <1>15 DEF GetDefined, HasLocked
  <2>4. Reading(call'[u], HasLocked(u)', chain.taps, chain.tag, server)
    BY <2>1, <2>3, <1>c DEF Reading
  <2> QED BY <2>1, <2>2, <2>3, <2>4, <1>p, QuietStep
<1>16. ASSUME NEW u \in Users, TellLeavesOut(u) PROVE ChainRead'
  <2>1. /\ \A v \in Users : v # u => call'[v] = call[v]
        /\ call[u].at = "tell" /\ call'[u].at = call[u].at /\ call'[u].op = call[u].op
    BY <1>16, <1>c DEF TellLeavesOut, Calls, Typed, CallTyped, Advance, AtServer
  <2>2. UNCHANGED <<chain.taps, chain.tag, server>>
    BY <1>16 DEF TellLeavesOut
  <2>3. \A v \in Users : HasLocked(v)' = HasLocked(v)
    BY <1>16 DEF TellLeavesOut, HasLocked
  <2>4. Reading(call'[u], HasLocked(u)', chain.taps, chain.tag, server)
    BY <2>1, <2>3, <1>c DEF Reading
  <2> QED BY <2>1, <2>2, <2>3, <2>4, <1>p, QuietStep
<1>30. ASSUME NEW u \in Users, AskLeavesOut(u) PROVE ChainRead'
  <2>1. /\ \A v \in Users : v # u => call'[v] = call[v]
        /\ call[u].at = "ask" /\ call'[u].at = call[u].at /\ call'[u].op = call[u].op
    BY <1>30, <1>c DEF AskLeavesOut, Calls, Typed, CallTyped, Counted, AtServer
  <2>2. UNCHANGED <<chain.taps, chain.tag, server>>
    BY <1>30 DEF AskLeavesOut
  <2>3. \A v \in Users : HasLocked(v)' = HasLocked(v)
    BY <1>30 DEF AskLeavesOut, HasLocked
  <2>4. Reading(call'[u], HasLocked(u)', chain.taps, chain.tag, server)
    BY <2>1, <2>3, <1>c DEF Reading
  <2> QED BY <2>1, <2>2, <2>3, <2>4, <1>p, QuietStep
<1>31. ASSUME NEW u \in Users, TellLost(u) PROVE ChainRead'
  <2>1. /\ \A v \in Users : v # u => call'[v] = call[v]
        /\ call[u].at = "tell" /\ call'[u].at = call[u].at /\ call'[u].op = call[u].op
    BY <1>31, <1>c DEF TellLost, Calls, Typed, CallTyped, Advance, AtServer
  <2>2. UNCHANGED <<chain.taps, chain.tag, server>>
    BY <1>31 DEF TellLost, Invalidated, Typed
  <2>3. \A v \in Users : HasLocked(v)' = HasLocked(v)
    <3>1. UNCHANGED link /\ chain'.locked = IF Server(u) = Home THEN FALSE ELSE chain.locked
      BY <1>31 DEF TellLost, Invalidated, Typed
    <3>2. Server(u) = Home => ~chain.locked
      BY <1>31, <1>p DEF TellLost, Claims
    <3> QED BY <3>1, <3>2 DEF HasLocked
  <2>4. Reading(call'[u], HasLocked(u)', chain.taps, chain.tag, server)
    BY <2>1, <2>3, <1>c DEF Reading
  <2> QED BY <2>1, <2>2, <2>3, <2>4, <1>p, QuietStep
<1>32. ASSUME NEW u \in Users, Relist(u) PROVE ChainRead'
  <2>1. /\ \A v \in Users : v # u => call'[v] = call[v]
        /\ UNCHANGED call /\ call[u].at = "idle"
    BY <1>32 DEF Relist
  <2>2. UNCHANGED <<chain.taps, chain.tag, server>>
    BY <1>32 DEF Relist, Typed
  <2>3. \A v \in Users : HasLocked(v)' = HasLocked(v)
    <3>1. UNCHANGED link /\ chain'.locked = chain.locked
      BY <1>32 DEF Relist, Typed
    <3> QED BY <3>1 DEF HasLocked
  <2>4. Reading(call'[u], HasLocked(u)', chain.taps, chain.tag, server)
    BY <2>1, <2>3, <1>c DEF Reading
  <2> QED BY <2>1, <2>2, <2>3, <2>4, <1>p, QuietStep
<1>17. ASSUME NEW u \in Users, Ask(u) PROVE ChainRead'
  <2>1. /\ \A v \in Users : v # u => call'[v] = call[v]
        /\ call[u].at = "ask" /\ call'[u].at = "answer" /\ call'[u].op = call[u].op
    BY <1>17, <1>c DEF Ask, Calls, Typed, CallTyped, Go, AtServer
  <2>2. UNCHANGED <<chain.taps, chain.tag, server>>
    BY <1>17 DEF Ask
  <2>3. \A v \in Users : HasLocked(v)' = HasLocked(v)
    <3>1. link' = [link EXCEPT ![Server(u)] = u] /\ chain'.locked = chain.locked
      BY <1>17 DEF Ask
    <3>2. Server(u) = Home => ~chain.locked
      BY <1>17, <1>c, <1>p, <2>1 DEF Ask, Held, Claims, AtServer
    <3> QED BY <1>l, <3>1, <3>2 DEF HasLocked
  <2>4. Reading(call'[u], HasLocked(u)', chain.taps, chain.tag, server)
    BY <2>1, <2>3, <1>c DEF Reading
  <2> QED BY <2>1, <2>2, <2>3, <2>4, <1>p, QuietStep
<1>18. ASSUME NEW u \in Users, AskFails(u) PROVE ChainRead'
  <2>1. /\ \A v \in Users : v # u => call'[v] = call[v]
        /\ call[u].at = "answer" /\ call'[u].at = "ask" /\ call'[u].op = call[u].op
    BY <1>18, <1>c DEF AskFails, Calls, Typed, CallTyped, Counted, AtServer
  <2>2. UNCHANGED <<chain.taps, chain.tag, server>>
    BY <1>18 DEF AskFails
  <2>3. \A v \in Users : HasLocked(v)' = HasLocked(v)
    <3>1. link' = [link EXCEPT ![Server(u)] = None] /\ chain'.locked = chain.locked
      BY <1>18 DEF AskFails
    <3>2. Server(u) = Home => ~chain.locked
      BY <1>18, <1>c, <1>p, <2>1 DEF AskFails, Held, Claims, AtServer
    <3> QED BY <1>l, <3>1, <3>2 DEF HasLocked
  <2>4. Reading(call'[u], HasLocked(u)', chain.taps, chain.tag, server)
    BY <2>1, <2>3, <1>c DEF Reading
  <2> QED BY <2>1, <2>2, <2>3, <2>4, <1>p, QuietStep
<1>19. ASSUME NEW u \in Users, Answered(u) PROVE ChainRead'
  <2>1. /\ \A v \in Users : v # u => call'[v] = call[v]
        /\ call[u].at = "answer" /\ call'[u].at = "ask" /\ call'[u].op = call[u].op
    BY <1>19, <1>c DEF Answered, Calls, Typed, CallTyped, AtServer
  <2>2. UNCHANGED <<chain.taps, chain.tag, server>>
    BY <1>19 DEF Answered
  <2>3. \A v \in Users : HasLocked(v)' = HasLocked(v)
    <3>1. link' = [link EXCEPT ![Server(u)] = None] /\ chain'.locked = chain.locked
      BY <1>19 DEF Answered
    <3>2. Server(u) = Home => ~chain.locked
      BY <1>19, <1>c, <1>p, <2>1 DEF Answered, Held, Claims, AtServer
    <3> QED BY <1>l, <3>1, <3>2 DEF HasLocked
  <2>4. Reading(call'[u], HasLocked(u)', chain.taps, chain.tag, server)
    BY <2>1, <2>3, <1>c DEF Reading
  <2> QED BY <2>1, <2>2, <2>3, <2>4, <1>p, QuietStep
<1>20. ASSUME NEW u \in Users, AnswerLost(u) PROVE ChainRead'
  <2>1. /\ \A v \in Users : v # u => call'[v] = call[v]
        /\ call[u].at = "answer" /\ call'[u].at = "ask" /\ call'[u].op = call[u].op
    BY <1>20, <1>c DEF AnswerLost, Calls, Typed, CallTyped, Counted, AtServer
  <2>2. UNCHANGED <<chain.taps, chain.tag, server>>
    BY <1>20 DEF AnswerLost, Invalidated, Typed
  <2>3. \A v \in Users : HasLocked(v)' = HasLocked(v)
    <3>1. /\ link' = [link EXCEPT ![Server(u)] = None]
          /\ chain'.locked = IF Server(u) = Home THEN FALSE ELSE chain.locked
      BY <1>20 DEF AnswerLost, Invalidated, Typed
    <3>2. Server(u) = Home => ~chain.locked
      BY <1>c, <1>p, <2>1 DEF Held
    <3> QED BY <1>l, <3>1, <3>2 DEF HasLocked
  <2>4. Reading(call'[u], HasLocked(u)', chain.taps, chain.tag, server)
    BY <2>1, <2>3, <1>c DEF Reading
  <2> QED BY <2>1, <2>2, <2>3, <2>4, <1>p, QuietStep
<1>21. ASSUME NEW u \in Users, Join(u) PROVE ChainRead'
  <2>1. /\ \A v \in Users : v # u => call'[v] = call[v]
        /\ call[u].at = "ask" /\ call'[u].at = "done" /\ call'[u].op = call[u].op
    BY <1>21, <1>c DEF Join, Calls, Typed, CallTyped, AfterServers
  <2>2. UNCHANGED <<chain.taps, chain.tag, server>>
    BY <1>21 DEF Join
  <2>3. \A v \in Users : HasLocked(v)' = HasLocked(v)
    BY <1>21 DEF Join, HasLocked
  <2>4. Reading(call'[u], HasLocked(u)', chain.taps, chain.tag, server)
    BY <2>1, <2>3, <1>c DEF Reading
  <2> QED BY <2>1, <2>2, <2>3, <2>4, <1>p, QuietStep
<1>22. ASSUME NEW u \in Users, Finish(u) PROVE ChainRead'
  <2>1. /\ \A v \in Users : v # u => call'[v] = call[v]
        /\ call[u].at = "done" /\ call'[u].at = "idle"
    BY <1>22, <1>c DEF Finish, Calls, Typed, CallTyped, Idle
  <2>2. UNCHANGED <<chain.taps, chain.tag, server>>
    BY <1>22 DEF Finish
  <2>3. \A v \in Users : HasLocked(v)' = HasLocked(v)
    BY <1>22 DEF Finish, HasLocked
  <2>4. Reading(call'[u], HasLocked(u)', chain.taps, chain.tag, server)
    BY <2>1, <2>3, <1>c DEF Reading
  <2> QED BY <2>1, <2>2, <2>3, <2>4, <1>p, QuietStep
<1>23. CASE OtherScans
  <2>1. server' = server + 1 /\ UNCHANGED <<call, chain, link>> /\ ~chain.locked
    BY <1>23 DEF OtherScans
  <2>2. ASSUME NEW v \in Users
        PROVE  ReadingOf(v)'
    <3>1. HasLocked(v) = FALSE /\ HasLocked(v)' = FALSE
      BY <2>1 DEF HasLocked
    <3>2. Reading(call[v], FALSE, chain.taps, chain.tag, server)
      BY <1>c, <3>1
    <3>3. server' \in Nat /\ server <= server'
      BY <1>l, <2>1
    <3>4. Reading(call[v], FALSE, chain.taps, chain.tag, server')
      BY <1>l, <3>2, <3>3, ReadingElsewhere
    <3> QED BY <2>1, <3>1, <3>4 DEF ReadingOf
  <2>3. Keeps(chain.taps, chain.tag, server) => Keeps(chain'.taps, chain'.tag, server')
    BY <1>l, <2>1 DEF Keeps
  <2> QED BY <1>p, <2>1, <2>2, <2>3 DEF ChainRead
<1>24. ASSUME NEW u \in Users, Refresh(u) PROVE ChainRead'
  <2>1. PICK tag \in 1 .. Len(ChainLists) :
             /\ tag \in {server, server + 1} /\ server' = tag
             /\ \A v \in Users : v # u => call'[v] = call[v]
             /\ call[u].at = "refresh" /\ call'[u].at = "store" /\ call'[u].list = call[u].list
             /\ call'[u].answer = Answer(chain.tag, tag, ChainLists[tag])
    BY <1>24, <1>c DEF Refresh, Refreshing, Calls, Typed, CallTyped
  <2>2. UNCHANGED <<chain, link>> /\ server' \in Nat /\ server <= server' /\ server' >= 1
    BY <1>24, <1>l, <2>1 DEF Refresh
  <2>h. HasLocked(u)
    BY <1>c, <2>1 DEF Reading
  <2>n. \A v \in Users : v # u => ~HasLocked(v) /\ ~HasLocked(v)'
    BY <1>24, <1>l, <2>1, <2>2, <2>h DEF HasLocked, Refresh
  <2>o. \A v \in Users : v # u => HasLocked(v) = FALSE /\ HasLocked(v)' = FALSE
    BY <2>n DEF HasLocked
  <2>e. \A v \in Users : v # u => Reading(call[v], HasLocked(v)', chain'.taps, chain'.tag, server')
    <3> TAKE v \in Users
    <3> HAVE v # u
    <3>1. Reading(call[v], FALSE, chain.taps, chain.tag, server)
      BY <1>c, <2>o
    <3>2. call[v].at = "copy" => chain'.taps = chain.taps
      BY <2>2
    <3>3. server' \in Nat /\ server <= server'
      BY <1>l, <2>2
    <3>4. Reading(call[v], FALSE, chain'.taps, chain'.tag, server')
      BY <1>l, <3>1, <3>2, <3>3, ReadingElsewhere
    <3> QED BY <2>o, <3>4
  <2>r. Reading(call'[u], HasLocked(u)', chain'.taps, chain'.tag, server')
    <3>1. HasLocked(u)' /\ call[u].list = <<>>
      BY <1>c, <2>1, <2>2, <2>h DEF HasLocked, Reading
    <3> QED BY <2>1, <2>2, <3>1 DEF Reading
  <2>k. (\A v \in Users : call'[v].at # "fill") => Keeps(chain'.taps, chain'.tag, server')
    <3>1. (\A v \in Users : call'[v].at # "fill") => \A v \in Users : call[v].at # "fill"
      BY <2>1
    <3> QED BY <1>p, <1>l, <2>2, <3>1 DEF ChainRead, Keeps
  <2> QED BY <2>1, <2>e, <2>r, <2>k, <1>p, ReadStep
<1>25. ASSUME NEW u \in Users, RefreshRefused(u) PROVE ChainRead'
  <2>1. /\ \A v \in Users : v # u => call'[v] = call[v]
        /\ call[u].at = "refresh" /\ call'[u].list = call[u].list
        /\ call'[u].at = "refresh" \/ (call'[u].at = "done" /\ call'[u].result = "error")
    <3>1. call[u].at = "refresh" /\ (call' = [call EXCEPT ![u].scan = TRUE] \/ Done(u, "error"))
      BY <1>25 DEF RefreshRefused, Refreshing
    <3>2. call \in [Users -> Calls]
      BY DEF Typed, CallTyped
    <3>3. CASE call' = [call EXCEPT ![u].scan = TRUE]
      BY <3>1, <3>2, <3>3 DEF Calls
    <3>4. CASE Done(u, "error")
      BY <3>1, <3>2, <3>4 DEF Done, Calls
    <3> QED BY <3>1, <3>3, <3>4
  <2>2. /\ UNCHANGED <<link, server>> /\ chain'.locked = chain.locked
        /\ chain'.taps = chain.taps /\ chain'.tag = 0
    BY <1>25 DEF RefreshRefused, Typed
  <2>h. HasLocked(u)
    BY <1>c, <2>1 DEF Reading
  <2>n. \A v \in Users : v # u => ~HasLocked(v) /\ ~HasLocked(v)'
    BY <1>25, <1>l, <2>1, <2>2, <2>h DEF HasLocked, Typed
  <2>o. \A v \in Users : v # u => HasLocked(v) = FALSE /\ HasLocked(v)' = FALSE
    BY <2>n DEF HasLocked
  <2>e. \A v \in Users : v # u => Reading(call[v], HasLocked(v)', chain'.taps, chain'.tag, server')
    <3> TAKE v \in Users
    <3> HAVE v # u
    <3>1. Reading(call[v], FALSE, chain.taps, chain.tag, server)
      BY <1>c, <2>o
    <3>2. call[v].at = "copy" => chain'.taps = chain.taps
      BY <2>2
    <3>3. server' \in Nat /\ server <= server'
      BY <1>l, <2>2
    <3>4. Reading(call[v], FALSE, chain'.taps, chain'.tag, server')
      BY <1>l, <3>1, <3>2, <3>3, ReadingElsewhere
    <3> QED BY <2>o, <3>4
  <2>r. Reading(call'[u], HasLocked(u)', chain'.taps, chain'.tag, server')
    <3>1. HasLocked(u)' /\ call[u].list = <<>>
      BY <1>c, <2>1, <2>2, <2>h DEF HasLocked, Reading
    <3> QED BY <2>1, <2>2, <3>1 DEF Reading, ReadOf
  <2>k. (\A v \in Users : call'[v].at # "fill") => Keeps(chain'.taps, chain'.tag, server')
    BY <1>l, <2>2 DEF Keeps, Kept
  <2> QED BY <2>1, <2>e, <2>r, <2>k, <1>p, ReadStep
<1>26. ASSUME NEW u \in Users, RefreshLost(u) PROVE ChainRead'
  <2>1. /\ \A v \in Users : v # u => call'[v] = call[v]
        /\ call[u].at = "refresh" /\ call'[u].at = "done" /\ call'[u].result = "error"
    BY <1>26, <1>c DEF RefreshLost, Refreshing, Done, Calls, Typed, CallTyped
  <2>2. /\ UNCHANGED server /\ chain'.locked = FALSE
        /\ chain'.taps = chain.taps /\ chain'.tag \in {0, chain.tag}
    BY <1>26 DEF RefreshLost, Invalidated, Typed
  <2>h. HasLocked(u)
    BY <1>c, <2>1 DEF Reading
  <2>n. \A v \in Users : v # u => ~HasLocked(v) /\ ~HasLocked(v)'
    BY <1>26, <1>l, <2>1, <2>2, <2>h DEF HasLocked, Typed
  <2>o. \A v \in Users : v # u => HasLocked(v) = FALSE /\ HasLocked(v)' = FALSE
    BY <2>n DEF HasLocked
  <2>e. \A v \in Users : v # u => Reading(call[v], HasLocked(v)', chain'.taps, chain'.tag, server')
    <3> TAKE v \in Users
    <3> HAVE v # u
    <3>1. Reading(call[v], FALSE, chain.taps, chain.tag, server)
      BY <1>c, <2>o
    <3>2. call[v].at = "copy" => chain'.taps = chain.taps
      BY <2>2
    <3>3. server' \in Nat /\ server <= server'
      BY <1>l, <2>2
    <3>4. Reading(call[v], FALSE, chain'.taps, chain'.tag, server')
      BY <1>l, <3>1, <3>2, <3>3, ReadingElsewhere
    <3> QED BY <2>o, <3>4
  <2>r. Reading(call'[u], HasLocked(u)', chain'.taps, chain'.tag, server')
    BY <2>1 DEF Reading, ReadOf
  <2>k. (\A v \in Users : call'[v].at # "fill") => Keeps(chain'.taps, chain'.tag, server')
    <3>1. (\A v \in Users : call'[v].at # "fill") => \A v \in Users : call[v].at # "fill"
      BY <2>1
    <3> QED BY <1>p, <1>l, <2>2, <3>1 DEF ChainRead, Keeps, Kept
  <2> QED BY <2>1, <2>e, <2>r, <2>k, <1>p, ReadStep
<1>27. ASSUME NEW u \in Users, Store(u) PROVE ChainRead'
  <2> DEFINE answer == call[u].answer
  <2>0. call[u].at = "store" /\ answer \in Answers /\ answer.list \in Seq(Devices) /\ CallTyped
    BY <1>27, <1>c DEF Store, Calls, Answers, Typed
  <2>s. ASSUME NEW kept \in Seq(Devices), call' = [call EXCEPT ![u].at = "fill", ![u].answer.list = kept]
        PROVE  /\ \A v \in Users : v # u => call'[v] = call[v]
               /\ call'[u].at = "fill" /\ call'[u].list = call[u].list
               /\ call'[u].answer.tag = answer.tag /\ call'[u].answer.list = kept
    <3>1. /\ \A v \in Users : v # u => call'[v] = call[v]
          /\ call'[u] = [call[u] EXCEPT !.at = "fill", !.answer = [answer EXCEPT !.list = kept]]
      BY <2>0, <2>s, StoreSound
    <3>2. [answer EXCEPT !.list = kept].tag = answer.tag /\ [answer EXCEPT !.list = kept].list = kept
      BY <2>0 DEF Answers
    <3> QED BY <1>c, <3>1, <3>2 DEF Calls
  <2>1. /\ \A v \in Users : v # u => call'[v] = call[v]
        /\ call[u].at = "store" /\ call'[u].at = "fill" /\ call'[u].list = call[u].list
        /\ call'[u].answer.tag = answer.tag
        /\ \/ chain'.taps = <<>> /\ call'[u].answer.list = answer.list
           \/ /\ answer.list # <<>> /\ ~answer.sent
              /\ chain'.taps = chain.taps /\ call'[u].answer.list = <<>>
    <3>1. CASE /\ chain' = [chain EXCEPT !.taps = <<>>]
               /\ call' = [call EXCEPT ![u].at = "fill", ![u].answer.list = Parsed(call[u].answer.list)]
      <4>1. Parsed(answer.list) = answer.list
        BY <2>0, ParsedSame
      <4>2. call' = [call EXCEPT ![u].at = "fill", ![u].answer.list = answer.list]
        BY <3>1, <4>1
      <4>3. chain'.taps = <<>>
        BY <3>1 DEF Typed
      <4> QED BY <2>0, <2>s, <4>2, <4>3
    <3>2. CASE /\ answer.list # <<>> /\ ~answer.sent /\ UNCHANGED chain
               /\ call' = [call EXCEPT ![u].at = "fill", ![u].answer.list = <<>>]
      <4>1. <<>> \in Seq(Devices)
        OBVIOUS
      <4> QED BY <2>0, <2>s, <3>2, <4>1
    <3> QED BY <1>27, <3>1, <3>2 DEF Store
  <2>2. /\ UNCHANGED <<link, server>> /\ chain'.locked = chain.locked /\ chain'.tag = chain.tag
        /\ mutex = None
    BY <1>27 DEF Store, TapsFree, Typed
  <2>h. HasLocked(u)
    BY <1>c, <2>1 DEF Reading
  <2>n. \A v \in Users : v # u => ~HasLocked(v) /\ ~HasLocked(v)'
    BY <1>27, <1>l, <2>1, <2>2, <2>h DEF HasLocked, Typed
  <2>o. \A v \in Users : v # u => HasLocked(v) = FALSE /\ HasLocked(v)' = FALSE
    BY <2>n DEF HasLocked
  <2>e. \A v \in Users : v # u => Reading(call[v], HasLocked(v)', chain'.taps, chain'.tag, server')
    <3> TAKE v \in Users
    <3> HAVE v # u
    <3>1. Reading(call[v], FALSE, chain.taps, chain.tag, server)
      BY <1>c, <2>o
    <3>2. call[v].at = "copy" => chain'.taps = chain.taps
      BY <1>c, <2>2 DEF Held
    <3>3. server' \in Nat /\ server <= server'
      BY <1>l, <2>2
    <3>4. Reading(call[v], FALSE, chain'.taps, chain'.tag, server')
      BY <1>l, <3>1, <3>2, <3>3, ReadingElsewhere
    <3> QED BY <2>o, <3>4
  <2>3. server >= 1 /\ call[u].answer = Answer(chain.tag, server, ChainLists[server]) /\ call[u].list = <<>>
    BY <1>c, <2>1 DEF Reading
  <2>4. chain'.taps \o call'[u].answer.list = ChainLists[server]
    <3>1. ChainLists[server] \in Seq(Devices)
      BY <1>l, <2>3
    <3> DEFINE sent == ChainLists[server]
    <3>2. answer.list = sent /\ (~answer.sent /\ sent # <<>> => chain.tag = server)
      <4>1. answer.list = sent
        BY <2>3, AnswerFields
      <4>2. ASSUME ~answer.sent, sent # <<>> PROVE chain.tag = server
        <5>1. call[u].answer = Answer(chain.tag, server, sent)
          BY <2>3
        <5> HIDE DEF sent
        <5> QED BY <4>2, <5>1, UnsentIsKnown
      <4> QED BY <4>1, <4>2
    <3> HIDE DEF sent
    <3>3. sent \in Seq(Devices) /\ Parsed(sent) = sent /\ <<>> \o sent = sent /\ sent \o <<>> = sent
      BY <3>1, ParsedSame, ConcatEmptySeq DEF sent
    <3>4. CASE chain'.taps = <<>> /\ call'[u].answer.list = answer.list
      <4>1. chain'.taps \o call'[u].answer.list = sent
        BY <3>2, <3>3, <3>4
      <4> QED BY <4>1 DEF sent
    <3>5. CASE sent # <<>> /\ ~answer.sent /\ chain'.taps = chain.taps /\ call'[u].answer.list = <<>>
      <4>1. chain.tag = server
        BY <3>2, <3>5
      <4>2. \A v \in Users : call[v].at # "fill"
        BY <1>c, <2>2 DEF Held
      <4>3. chain.taps = ChainLists[server]
        BY <1>p, <1>l, <2>3, <4>1, <4>2 DEF ChainRead, Keeps, Kept
      <4>4. chain'.taps \o call'[u].answer.list = sent
        BY <3>3, <3>5, <4>3 DEF sent
      <4> QED BY <4>4 DEF sent
    <3> QED BY <2>1, <3>2, <3>4, <3>5
  <2>r. Reading(call'[u], HasLocked(u)', chain'.taps, chain'.tag, server')
    <3>1. HasLocked(u)'
      BY <2>2, <2>h DEF HasLocked
    <3>2. call[u].answer.tag = server
      BY <2>3 DEF Answer
    <3> QED BY <2>1, <2>2, <2>3, <2>4, <3>1, <3>2 DEF Reading
  <2>k. (\A v \in Users : call'[v].at # "fill") => Keeps(chain'.taps, chain'.tag, server')
    BY <2>1
  <2> QED BY <2>1, <2>e, <2>r, <2>k, <1>p, ReadStep
<1>28. ASSUME NEW u \in Users, Fill(u) PROVE ChainRead'
  <2>1. /\ \A v \in Users : v # u => call'[v] = call[v]
        /\ call[u].at = "fill" /\ call'[u].at = "fill" /\ call'[u].list = call[u].list
        /\ call'[u].answer.tag = call[u].answer.tag /\ call[u].answer.list \in Seq(Devices)
        /\ call[u].answer.list # <<>> /\ call'[u].answer.list = Tail(call[u].answer.list)
    BY <1>28, <1>c DEF Fill, Calls, Answers, Typed, CallTyped
  <2>2. /\ UNCHANGED <<link, server>> /\ chain'.locked = chain.locked /\ chain'.tag = chain.tag
        /\ chain'.taps = Append(chain.taps, Head(call[u].answer.list))
    BY <1>28 DEF Fill, Typed
  <2>h. HasLocked(u)
    BY <1>c, <2>1 DEF Reading
  <2>n. \A v \in Users : v # u => ~HasLocked(v) /\ ~HasLocked(v)'
    BY <1>28, <1>l, <2>1, <2>2, <2>h DEF HasLocked, Typed
  <2>o. \A v \in Users : v # u => HasLocked(v) = FALSE /\ HasLocked(v)' = FALSE
    BY <2>n DEF HasLocked
  <2>e. \A v \in Users : v # u => Reading(call[v], HasLocked(v)', chain'.taps, chain'.tag, server')
    <3> TAKE v \in Users
    <3> HAVE v # u
    <3>1. Reading(call[v], FALSE, chain.taps, chain.tag, server)
      BY <1>c, <2>o
    <3>2. call[v].at = "copy" => chain'.taps = chain.taps
      BY <1>c, <2>1 DEF Held
    <3>3. server' \in Nat /\ server <= server'
      BY <1>l, <2>2
    <3>4. Reading(call[v], FALSE, chain'.taps, chain'.tag, server')
      BY <1>l, <3>1, <3>2, <3>3, ReadingElsewhere
    <3> QED BY <2>o, <3>4
  <2>3. chain'.taps \o call'[u].answer.list = chain.taps \o call[u].answer.list
    <3> DEFINE l == call[u].answer.list
    <3>1. l \in Seq(Devices) /\ l # <<>> /\ chain.taps \in Seq(Devices)
      BY <1>l, <2>1
    <3>2. chain'.taps = Append(chain.taps, Head(l)) /\ call'[u].answer.list = Tail(l)
      BY <2>1, <2>2
    <3>3. Append(chain.taps, Head(l)) \o Tail(l) = chain.taps \o l
      <4> HIDE DEF l
      <4> QED BY <3>1, EntryMoves
    <3> QED BY <3>2, <3>3
  <2>r. Reading(call'[u], HasLocked(u)', chain'.taps, chain'.tag, server')
    <3>1. HasLocked(u)'
      BY <2>2, <2>h DEF HasLocked
    <3>2. server >= 1 /\ call[u].answer.tag = server /\ chain.taps \o call[u].answer.list = ChainLists[server]
          /\ call[u].list = <<>>
      BY <1>c, <2>1 DEF Reading
    <3> QED BY <2>1, <2>2, <2>3, <3>1, <3>2 DEF Reading
  <2>k. (\A v \in Users : call'[v].at # "fill") => Keeps(chain'.taps, chain'.tag, server')
    BY <2>1
  <2> QED BY <2>1, <2>e, <2>r, <2>k, <1>p, ReadStep
<1>29. ASSUME NEW u \in Users, Stored(u) PROVE ChainRead'
  <2>1. /\ \A v \in Users : v # u => call'[v] = call[v]
        /\ call[u].at = "fill" /\ call'[u].list = call[u].list /\ call'[u].op = call[u].op
        /\ call'[u].at = (IF call[u].op = "read" THEN "look" ELSE "done")
        /\ call[u].answer.list = <<>>
    <3>1. CallTyped /\ call[u] \in Calls
      BY <1>c DEF Typed
    <3>2. CASE call[u].op = "read" /\ Go(u, "look")
      <4>1. /\ call'[u] = [call[u] EXCEPT !.at = "look"]
            /\ \A v \in Users : v # u => call'[v] = call[v]
        BY <3>1, <3>2, GoSound DEF Ats
      <4> QED BY <1>29, <3>1, <3>2, <4>1 DEF Stored, Calls
    <3>3. CASE call[u].op # "read" /\ Done(u, "ok")
      <4>1. /\ call'[u] = [call[u] EXCEPT !.at = "done", !.result = "ok"]
            /\ \A v \in Users : v # u => call'[v] = call[v]
        BY <3>1, <3>3, DoneSound DEF Results
      <4> QED BY <1>29, <3>1, <3>3, <4>1 DEF Stored, Calls
    <3> QED BY <1>29, <3>2, <3>3 DEF Stored
  <2>2. /\ UNCHANGED <<link, server>> /\ chain'.locked = chain.locked /\ chain'.taps = chain.taps
        /\ chain'.tag = call[u].answer.tag
    BY <1>29 DEF Stored, Typed
  <2>h. HasLocked(u)
    BY <1>c, <2>1 DEF Reading
  <2>n. \A v \in Users : v # u => ~HasLocked(v) /\ ~HasLocked(v)'
    BY <1>29, <1>l, <2>1, <2>2, <2>h DEF HasLocked, Typed
  <2>o. \A v \in Users : v # u => HasLocked(v) = FALSE /\ HasLocked(v)' = FALSE
    BY <2>n DEF HasLocked
  <2>e. \A v \in Users : v # u => Reading(call[v], HasLocked(v)', chain'.taps, chain'.tag, server')
    <3> TAKE v \in Users
    <3> HAVE v # u
    <3>1. Reading(call[v], FALSE, chain.taps, chain.tag, server)
      BY <1>c, <2>o
    <3>2. call[v].at = "copy" => chain'.taps = chain.taps
      BY <2>2
    <3>3. server' \in Nat /\ server <= server'
      BY <1>l, <2>2
    <3>4. Reading(call[v], FALSE, chain'.taps, chain'.tag, server')
      BY <1>l, <3>1, <3>2, <3>3, ReadingElsewhere
    <3> QED BY <2>o, <3>4
  <2>3. server >= 1 /\ call[u].answer.tag = server /\ call[u].list = <<>>
        /\ chain.taps \o call[u].answer.list = ChainLists[server]
    BY <1>c, <2>1 DEF Reading
  <2>4. chain.taps = ChainLists[server]
    <3>1. chain.taps \o <<>> = chain.taps
      BY <1>l, ConcatEmptySeq
    <3> QED BY <2>1, <2>3, <3>1
  <2>r. Reading(call'[u], HasLocked(u)', chain'.taps, chain'.tag, server')
    BY <2>1, <2>2, <2>3 DEF Reading
  <2>k. (\A v \in Users : call'[v].at # "fill") => Keeps(chain'.taps, chain'.tag, server')
    BY <1>l, <2>2, <2>3, <2>4 DEF Keeps, Kept
  <2> QED BY <2>1, <2>e, <2>r, <2>k, <1>p, ReadStep
<1> QED BY <1>0, <1>1, <1>2, <1>3, <1>4, <1>5, <1>6, <1>7, <1>8, <1>9, <1>10, <1>11, <1>12, <1>13, <1>14, <1>15, <1>16, <1>17, <1>18, <1>19, <1>20, <1>21, <1>22, <1>23, <1>24, <1>25, <1>26, <1>27, <1>28, <1>29, <1>30, <1>31, <1>32 DEF Next, ChainStep, DefinedStep

\* At first nothing is read.
LEMMA ReadInit == Init => ChainRead
<1> SUFFICES ASSUME Init PROVE ChainRead
  OBVIOUS
<1>1. \A u \in Users : call[u].at = "idle"
  BY DEF Init, Idle
<1>2. chain.tag = 0 /\ server = 0
  BY DEF Init
<1> QED BY <1>1, <1>2 DEF ChainRead, ReadingOf, Reading, Keeps, Kept

\* What holds of the lists; of the chain's until a thread is robbed of its claim, or
\* refreshes the list of a chain another thread has locked.
LEMMA ListsHold ==
    Spec => [](/\ Typed /\ Claims /\ DefinedRead
               /\ ~past.robbed /\ ~past.shared => ChainRead)
<1> DEFINE IInv == /\ PastTyped /\ Typed /\ Claims /\ DefinedRead
                   /\ ~past.robbed /\ ~past.shared => ChainRead
<1>1. Init => IInv
  BY ClaimsInit, TypedInit, DefinedInit, ReadInit
<1>2. IInv /\ [Next]_vars => IInv'
  BY PastNext, TypedNext, ClaimsNext, DefinedNext, ReadNext
<1>3. IInv => /\ Typed /\ Claims /\ DefinedRead
              /\ ~past.robbed /\ ~past.shared => ChainRead
  OBVIOUS
<1> HIDE DEF IInv
<1> QED BY <1>1, <1>2, <1>3, PTL DEF Spec

\* A tag is the tag of the list that is kept with it (refresh_chain,
\* refresh_defined_devices).
THEOREM TagsTell == Spec => []TagTellsList
<1>1. /\ Typed /\ Claims /\ DefinedRead
      /\ ~past.robbed /\ ~past.shared => ChainRead
      => TagTellsList
  <2> SUFFICES ASSUME Typed, Claims, DefinedRead, ~past.robbed /\ ~past.shared => ChainRead
               PROVE  TagTellsList
    OBVIOUS
  <2>1. ASSUME mutex = None, ~past.robbed, ~past.shared PROVE Kept(chain.taps, chain.tag, ChainLists)
    <3>1. \A u \in Users : call[u].at # "fill"
      BY <2>1, ListsConstants DEF Claims, ClaimsOf, Held
    <3> QED BY <2>1, <3>1 DEF ChainRead, Keeps
  <2> QED BY <2>1 DEF TagTellsList, DefinedRead
<1> QED BY <1>1, ListsHold, PTL

\* A read returns one of the lists the server has had (read_device_chain).
THEOREM OneListIsRead == Spec => []ReadsOneList
<1>1. (~past.robbed /\ ~past.shared => ChainRead) => ReadsOneList
  BY DEF ChainRead, ReadingOf, Reading, ReadOf, ReadsOneList, At
<1> QED BY <1>1, ListsHold, PTL

-----------------------------------------------------------------------------
(* The union of the defined devices.                                        *)

\* One device, as get_defined_devices tells them.
Clash(d, e) == Same(d, e) /\ d.id = e.id

\* No device is in the list twice.
Once(list) == \A i, j \in DOMAIN list : i # j => ~Clash(list[i], list[j])

\* A list with one more device, which is not one it has.
LEMMA OnceAppend ==
    ASSUME NEW list \in Seq(Devices), NEW x \in Devices
    PROVE  Once(Append(list, x)) <=> Once(list) /\ \A e \in Range(list) : ~Clash(e, x)
<1> DEFINE r == Append(list, x)
           n == Len(list)
<1>1. /\ n \in Nat /\ DOMAIN list = 1 .. n /\ DOMAIN r = 1 .. n + 1 /\ r[n + 1] = x
      /\ \A i \in 1 .. n : r[i] = list[i]
  OBVIOUS
<1>2. Range(list) = {list[i] : i \in 1 .. n}
  BY <1>1 DEF Range
<1>3. \A d, e : Clash(d, e) => Clash(e, d)
  BY DEF Clash, Same
<1> HIDE DEF r, n
<1>4. ASSUME Once(r) PROVE Once(list) /\ \A e \in Range(list) : ~Clash(e, x)
  <2>1. Once(list)
    <3> SUFFICES ASSUME NEW i \in 1 .. n, NEW j \in 1 .. n, i # j PROVE ~Clash(list[i], list[j])
      BY <1>1 DEF Once
    <3>1. i \in 1 .. n + 1 /\ j \in 1 .. n + 1
      BY <1>1
    <3> QED BY <1>1, <1>4, <3>1 DEF Once
  <2>2. ASSUME NEW i \in 1 .. n PROVE ~Clash(list[i], x)
    <3>1. i \in 1 .. n + 1 /\ n + 1 \in 1 .. n + 1 /\ i # n + 1
      BY <1>1
    <3> QED BY <1>1, <1>4, <3>1 DEF Once
  <2> QED BY <1>2, <2>1, <2>2
<1>5. ASSUME Once(list), \A e \in Range(list) : ~Clash(e, x) PROVE Once(r)
  <2>1. \A i \in 1 .. n : ~Clash(list[i], x)
    BY <1>2, <1>5
  <2> SUFFICES ASSUME NEW i \in 1 .. n + 1, NEW j \in 1 .. n + 1, i # j PROVE ~Clash(r[i], r[j])
    BY <1>1 DEF Once
  <2>2. CASE i \in 1 .. n /\ j \in 1 .. n
    BY <1>1, <1>5, <2>2 DEF Once
  <2>3. CASE i \in 1 .. n /\ j = n + 1
    BY <1>1, <2>1, <2>3
  <2>4. CASE i = n + 1 /\ j \in 1 .. n
    BY <1>1, <1>3, <2>1, <2>4
  <2> QED BY <1>1, <2>2, <2>3, <2>4
<1> QED BY <1>4, <1>5 DEF r

\* The entries of a longer list.
LEMMA RangeAppend ==
    ASSUME NEW T, NEW list \in Seq(T), NEW x \in T
    PROVE  Range(Append(list, x)) = Range(list) \cup {x}
<1> DEFINE r == Append(list, x)
           n == Len(list)
<1>1. /\ n \in Nat /\ DOMAIN list = 1 .. n /\ DOMAIN r = 1 .. n + 1 /\ r[n + 1] = x
      /\ \A i \in 1 .. n : r[i] = list[i]
  OBVIOUS
<1> HIDE DEF r, n
<1>2. Range(r) = {r[i] : i \in 1 .. n + 1} /\ Range(list) = {list[i] : i \in 1 .. n}
  BY <1>1 DEF Range
<1>3. \A i \in 1 .. n + 1 : i \in 1 .. n \/ i = n + 1
  BY <1>1
<1>4. \A i \in 1 .. n : i \in 1 .. n + 1
  BY <1>1
<1>5. n + 1 \in 1 .. n + 1
  BY <1>1
<1> QED BY <1>1, <1>2, <1>3, <1>4, <1>5 DEF r

\* None.
LEMMA RangeEmpty == Range(<<>>) = {}
BY DEF Range

\* What is kept of a list has the entries asked for, is no longer and has none twice.
LEMMA FilteredOnce ==
    ASSUME NEW list \in Seq(Devices), NEW S
    PROVE  /\ Range(Filtered(list, S)) = Range(list) \cap S
           /\ Len(Filtered(list, S)) <= Len(list)
           /\ Once(list) => Once(Filtered(list, S))
<1> DEFINE Good(l) == /\ Range(Filtered(l, S)) = Range(l) \cap S
                      /\ Len(Filtered(l, S)) <= Len(l)
                      /\ Once(l) => Once(Filtered(l, S))
           P == {l \in Seq(Devices) : Good(l)}
<1>1. <<>> \in P
  <2>1. <<>> \in Seq(Devices) /\ Len(<<>>) = 0
    OBVIOUS
  <2> QED BY <2>1, FilteredEmpty, RangeEmpty DEF Once
<1>2. ASSUME NEW l \in Seq(Devices), NEW x \in Devices, l \in P
      PROVE  Append(l, x) \in P
  <2> DEFINE k == Filtered(l, S)
  <2>1. k \in Seq(Devices) /\ Good(l)
    BY <1>2, FilteredTyped
  <2>2. Filtered(Append(l, x), S) = IF x \in S THEN Append(k, x) ELSE k
    BY FilteredAppend
  <2>3. /\ Append(l, x) \in Seq(Devices) /\ Len(Append(l, x)) = Len(l) + 1 /\ Len(l) \in Nat
        /\ Range(Append(l, x)) = Range(l) \cup {x}
        /\ Once(Append(l, x)) <=> Once(l) /\ \A e \in Range(l) : ~Clash(e, x)
    BY RangeAppend, OnceAppend
  <2>4. Range(k) = Range(l) \cap S /\ Len(k) <= Len(l) /\ (Once(l) => Once(k))
    BY <2>1
  <2> HIDE DEF k
  <2>5. Len(Append(k, x)) = Len(k) + 1 /\ Len(k) \in Nat
    BY <2>1
  <2>6. Range(Append(k, x)) = Range(k) \cup {x}
    BY <2>1, RangeAppend
  <2>7. Once(Append(k, x)) <=> Once(k) /\ \A e \in Range(k) : ~Clash(e, x)
    BY <2>1, OnceAppend
  <2>8. Good(Append(l, x))
    <3>1. CASE x \in S
      <4>1. Filtered(Append(l, x), S) = Append(k, x)
        BY <2>2, <3>1
      <4>2. Range(Append(k, x)) = Range(Append(l, x)) \cap S
        BY <2>3, <2>4, <2>6, <3>1
      <4>3. Len(Append(k, x)) <= Len(Append(l, x))
        BY <2>3, <2>4, <2>5
      <4>4. Once(Append(l, x)) => Once(Append(k, x))
        BY <2>3, <2>4, <2>7
      <4> QED BY <4>1, <4>2, <4>3, <4>4
    <3>2. CASE x \notin S
      <4>1. Filtered(Append(l, x), S) = k
        BY <2>2, <3>2
      <4>2. Range(k) = Range(Append(l, x)) \cap S
        BY <2>3, <2>4, <3>2
      <4>3. Len(k) <= Len(Append(l, x))
        BY <2>3, <2>4, <2>5
      <4> QED BY <2>3, <2>4, <4>1, <4>2, <4>3
    <3> QED BY <3>1, <3>2
  <2> HIDE DEF Good
  <2> QED BY <2>3, <2>8
<1> HIDE DEF Good
<1>3. \A l \in Seq(Devices) : l \in P
  <2> HIDE DEF P
  <2> QED BY <1>1, <1>2, ListInduction
<1>4. Good(list)
  BY <1>3
<1> QED BY <1>4 DEF Good

\* Two lists without a common device.
LEMMA OnceConcat ==
    ASSUME NEW a \in Seq(Devices), NEW b \in Seq(Devices), Once(a), Once(b),
           \A d \in Range(b), e \in Range(a) : ~Clash(d, e)
    PROVE  Once(a \o b)
<1>1. \A d, e : Clash(d, e) => Clash(e, d)
  BY DEF Clash, Same
<1>2. /\ Len(a) \in Nat /\ Len(b) \in Nat /\ DOMAIN a = 1 .. Len(a) /\ DOMAIN b = 1 .. Len(b)
      /\ DOMAIN (a \o b) = 1 .. Len(a) + Len(b)
      /\ \A i \in 1 .. Len(a) : (a \o b)[i] = a[i]
      /\ \A i \in 1 .. Len(a) + Len(b) : i > Len(a) => (a \o b)[i] = b[i - Len(a)] /\ i - Len(a) \in 1 .. Len(b)
  BY ConcatProperties
<1>3. \A i \in DOMAIN a : a[i] \in Range(a)
  BY DEF Range
<1>4. \A i \in DOMAIN b : b[i] \in Range(b)
  BY DEF Range
<1> SUFFICES ASSUME NEW i \in DOMAIN (a \o b), NEW j \in DOMAIN (a \o b), i # j
             PROVE  ~Clash((a \o b)[i], (a \o b)[j])
  BY DEF Once
<1> DEFINE n == Len(a)
           m == Len(b)
           c == a \o b
<1> HIDE DEF n, m, c
<1>a. /\ n \in Nat /\ m \in Nat /\ DOMAIN a = 1 .. n /\ DOMAIN b = 1 .. m /\ i \in 1 .. n + m /\ j \in 1 .. n + m
      /\ \A k \in 1 .. n : c[k] = a[k]
      /\ \A k \in 1 .. n + m : k > n => c[k] = b[k - n] /\ k - n \in 1 .. m
  BY <1>2 DEF n, m, c
<1>5. CASE i <= n /\ j <= n
  <2>1. i \in 1 .. n /\ j \in 1 .. n
    BY <1>a, <1>5
  <2> QED BY <1>a, <2>1 DEF Once, c
<1>6. CASE i > n /\ j > n
  <2>1. i - n \in 1 .. m /\ j - n \in 1 .. m /\ i - n # j - n /\ c[i] = b[i - n] /\ c[j] = b[j - n]
    BY <1>a, <1>6
  <2> QED BY <1>a, <2>1 DEF Once, c
<1>7. CASE i <= n /\ j > n
  <2>1. i \in 1 .. n /\ j - n \in 1 .. m /\ c[i] = a[i] /\ c[j] = b[j - n]
    BY <1>a, <1>7
  <2> QED BY <1>1, <1>3, <1>4, <1>a, <2>1 DEF c
<1>8. CASE i > n /\ j <= n
  <2>1. j \in 1 .. n /\ i - n \in 1 .. m /\ c[j] = a[j] /\ c[i] = b[i - n]
    BY <1>a, <1>8
  <2> QED BY <1>1, <1>3, <1>4, <1>a, <2>1 DEF c
<1> QED BY <1>5, <1>6, <1>7, <1>8, <1>a

\* The entries of two lists.
LEMMA RangeConcat ==
    ASSUME NEW T, NEW a \in Seq(T), NEW b \in Seq(T)
    PROVE  Range(a \o b) = Range(a) \cup Range(b)
<1> DEFINE n == Len(a)
           m == Len(b)
           c == a \o b
<1>1. /\ n \in Nat /\ m \in Nat /\ DOMAIN a = 1 .. n /\ DOMAIN b = 1 .. m /\ DOMAIN c = 1 .. n + m
      /\ \A k \in 1 .. n : c[k] = a[k]
      /\ \A k \in 1 .. n + m : k > n => c[k] = b[k - n] /\ k - n \in 1 .. m
  BY ConcatProperties
<1> HIDE DEF n, m, c
<1>2. \A k \in 1 .. m : k + n \in 1 .. n + m /\ k + n > n /\ (k + n) - n = k
  BY <1>1
<1>3. \A k \in 1 .. m : c[k + n] = b[k] /\ k + n \in DOMAIN c
  BY <1>1, <1>2
<1>4. \A k \in 1 .. n : k \in 1 .. n + m
  BY <1>1
<1>5. Range(a) \subseteq Range(c)
  <2>1. \A k \in 1 .. n : c[k] = a[k] /\ k \in DOMAIN c
    BY <1>1, <1>4
  <2>2. DOMAIN a = 1 .. n
    BY <1>1
  <2> QED BY <2>1, <2>2, Zenon DEF Range
<1>6. Range(b) \subseteq Range(c)
  <2>1. DOMAIN b = 1 .. m
    BY <1>1
  <2> QED BY <1>3, <2>1, Zenon DEF Range
<1>7. Range(c) \subseteq Range(a) \cup Range(b)
  <2> SUFFICES ASSUME NEW k \in 1 .. n + m PROVE c[k] \in Range(a) \cup Range(b)
    BY <1>1 DEF Range
  <2>1. CASE k > n
    BY <1>1, <2>1 DEF Range
  <2>2. CASE ~(k > n)
    <3>1. k \in 1 .. n
      BY <1>1, <2>2
    <3> QED BY <1>1, <3>1 DEF Range
  <2> QED BY <2>1, <2>2
<1> QED BY <1>5, <1>6, <1>7 DEF c

\* The devices of the servers before, and those that are new.
LEMMA NewsJoined ==
    ASSUME NEW list \in Seq(Devices), NEW before \in Seq(Devices), Once(list), Once(before)
    PROVE  LET all == before \o News(list, before) IN
           /\ all \in Seq(Devices) /\ Once(all)
           /\ Range(before) \subseteq Range(all)
           /\ \A d \in Range(list) : \E e \in Range(all) : Same(d, e)
           /\ Len(all) <= Len(before) + Len(list)
<1> DEFINE S == {d \in Range(list) : ~Duplicate(d, before)}
           news == News(list, before)
           all == before \o news
<1>1. news = Filtered(list, S)
  BY DEF News
<1>2. \A d : Duplicate(d, before) <=> \E e \in Range(before) : Same(d, e)
  BY DEF Duplicate, Same
<1>3. /\ news \in Seq(Devices) /\ Once(news) /\ Len(news) <= Len(list)
      /\ \A d : d \in Range(news) <=> d \in Range(list) /\ ~Duplicate(d, before)
  <2> HIDE DEF S
  <2>1. /\ news \in Seq(Devices) /\ Once(news) /\ Len(news) <= Len(list)
        /\ Range(news) = Range(list) \cap S
    BY <1>1, FilteredOnce, NewsTyped
  <2> QED BY <2>1 DEF S
<1> HIDE DEF news, S
<1>4. Once(all)
  <2>1. \A d \in Range(news), e \in Range(before) : ~Clash(d, e)
    BY <1>2, <1>3 DEF Clash
  <2> QED BY <1>3, <2>1, OnceConcat
<1>5. all \in Seq(Devices) /\ Len(all) = Len(before) + Len(news) /\ Len(before) \in Nat /\ Len(list) \in Nat /\ Len(news) \in Nat
  BY <1>3, ConcatProperties
<1>6. Range(all) = Range(before) \cup Range(news)
  BY <1>3, RangeConcat
<1>7. ASSUME NEW d \in Range(list)
      PROVE  \E e \in Range(all) : Same(d, e)
  <2>1. CASE Duplicate(d, before)
    BY <1>2, <1>6, <2>1, Zenon
  <2>2. CASE ~Duplicate(d, before)
    <3>1. d \in Range(all) /\ Same(d, d)
      BY <1>3, <1>6, <2>2 DEF Same
    <3> QED BY <3>1
  <2> QED BY <2>1, <2>2
<1>8. Len(all) <= Len(before) + Len(list)
  BY <1>3, <1>5
<1> HIDE DEF all
<1>9. /\ all \in Seq(Devices) /\ Once(all) /\ Range(before) \subseteq Range(all)
      /\ \A d \in Range(list) : \E e \in Range(all) : Same(d, e)
      /\ Len(all) <= Len(before) + Len(list)
  BY <1>4, <1>5, <1>6, <1>7, <1>8
<1> QED BY <1>9 DEF all, news

\* The joined list has every device of each server once, and is no longer than what is asked for.
LEMMA JoinedSound ==
    ASSUME defined \in [Servers -> [tag : Nat, list : Seq(Devices), whole : BOOLEAN]],
           \A s \in Servers : Once(defined[s].list)
    PROVE  /\ \A s \in Servers : \A d \in Range(defined[s].list) : \E e \in Range(Joined) : Same(d, e)
           /\ Once(Joined)
           /\ Len(Joined) <= Total
<1> DEFINE N == Len(Links)
           lengths == [n \in DOMAIN Links |-> Len(defined[Links[n]].list)]
<1>1. \A s \in Servers : defined[s].list \in Seq(Devices) /\ Len(defined[s].list) \in Nat
  OBVIOUS
<1>2. N \in Nat /\ DOMAIN Links = 1 .. N /\ \A n \in 1 .. N : Links[n] \in Servers
  BY ListsData
<1>3. \A s \in Servers : \E n \in 1 .. N : s = Links[n]
  <2> HIDE DEF N
  <2> QED BY <1>2 DEF Servers, Range
<1>4. PICK f : Joins(f) /\ f \in [0 .. N -> Seq(Devices)] /\ Joined = f[N]
  BY <1>1, JoinedBy
<1>5. lengths \in Seq(Nat) /\ Len(lengths) = N /\ \A n \in 1 .. N : lengths[n] = Len(defined[Links[n]].list)
  <2>1. \A n \in 1 .. N : Len(defined[Links[n]].list) \in Nat
    BY <1>1, <1>2
  <2>2. lengths = [n \in 1 .. N |-> Len(defined[Links[n]].list)]
    BY <1>2
  <2> HIDE DEF N
  <2>3. lengths \in [1 .. N -> Nat]
    BY <2>1, <2>2
  <2> HIDE DEF lengths
  <2> QED BY <1>2, <2>2, <2>3
<1>6. Total = Summed(lengths)
  BY DEF Total
<1> HIDE DEF lengths
<1>7. PICK t : Adds(t, lengths) /\ t \in [0 .. N -> Nat] /\ Total = t[N]
  <2>1. \E t : Adds(t, lengths) /\ t \in [0 .. Len(lengths) -> Nat] /\ Summed(lengths) = t[Len(lengths)]
    BY <1>5, SummedBy
  <2> QED BY <1>5, <1>6, <2>1
<1>8. t[0] = 0 /\ \A n \in 1 .. N : t[n] = t[n - 1] + Len(defined[Links[n]].list)
  BY <1>5, <1>7 DEF Adds
<1>9. f[0] = <<>> /\ \A n \in 1 .. N : f[n] = f[n - 1] \o News(defined[Links[n]].list, f[n - 1])
  BY <1>4 DEF Joins
<1> HIDE DEF N
<1> DEFINE Found(n, k) == \A d \in Range(defined[Links[k]].list) : \E e \in Range(f[n]) : Same(d, e)
           Good(n) == Once(f[n]) /\ Len(f[n]) <= t[n] /\ \A k \in 1 .. n : Found(n, k)
           R == {n \in Nat : n <= N => Good(n)}
<1>10. 0 \in R
  <2>1. Once(<<>>) /\ Len(<<>>) = 0
    BY DEF Once
  <2> QED BY <1>8, <1>9, <2>1
<1>11. ASSUME NEW n \in Nat, n \in R
       PROVE  n + 1 \in R
  <2> SUFFICES ASSUME n + 1 <= N PROVE Good(n + 1)
    OBVIOUS
  <2> DEFINE list == defined[Links[n + 1]].list
             before == f[n]
             all == before \o News(list, before)
  <2>1. n + 1 \in 1 .. N /\ (n + 1) - 1 = n /\ n \in 0 .. N /\ n <= N
    BY <1>2
  <2>2. list \in Seq(Devices) /\ Once(list) /\ Len(list) \in Nat
    BY <1>1, <1>2, <2>1
  <2>3. before \in Seq(Devices) /\ Len(before) \in Nat
    BY <1>4, <2>1
  <2>4. Good(n)
    BY <1>11, <2>1
  <2>5. f[n + 1] = all /\ t[n + 1] = t[n] + Len(list) /\ t[n] \in Nat
    BY <1>7, <1>8, <1>9, <2>1
  <2>6. Once(before) /\ Len(before) <= t[n]
    BY <2>4
  <2>7. /\ all \in Seq(Devices) /\ Once(all) /\ Range(before) \subseteq Range(all)
        /\ \A d \in Range(list) : \E e \in Range(all) : Same(d, e)
        /\ Len(all) <= Len(before) + Len(list)
    <3> HIDE DEF list, before
    <3> QED BY <2>2, <2>3, <2>6, NewsJoined
  <2>8. Once(f[n + 1]) /\ Len(f[n + 1]) <= t[n + 1]
    <3> HIDE DEF list, before, all
    <3>1. Len(all) \in Nat
      BY <2>7
    <3> QED BY <2>2, <2>3, <2>5, <2>6, <2>7, <3>1
  <2>9. ASSUME NEW k \in 1 .. n + 1
        PROVE  Found(n + 1, k)
    <3>1. CASE k = n + 1
      BY <2>5, <2>7, <3>1
    <3>2. CASE k # n + 1
      <4>1. k \in 1 .. n
        BY <3>2
      <4>2. Found(n, k)
        BY <2>4, <4>1
      <4> HIDE DEF list, all
      <4>3. ASSUME NEW d \in Range(defined[Links[k]].list)
            PROVE  \E e \in Range(f[n + 1]) : Same(d, e)
        <5>1. PICK e \in Range(f[n]) : Same(d, e)
          BY <4>2
        <5>2. e \in Range(f[n + 1])
          BY <2>5, <2>7, <5>1
        <5> QED BY <5>1, <5>2
      <4> QED BY <4>3
    <3> QED BY <3>1, <3>2
  <2> HIDE DEF Found
  <2> QED BY <2>8, <2>9
<1> HIDE DEF R, Good
<1>12. \A n \in Nat : n \in R
  BY <1>10, <1>11, NatInductionOnSet
<1>13. Good(N)
  BY <1>2, <1>12 DEF R
<1>14. ASSUME NEW s \in Servers, NEW d \in Range(defined[s].list)
       PROVE  \E e \in Range(Joined) : Same(d, e)
  <2>1. PICK k \in 1 .. N : s = Links[k]
    BY <1>3
  <2>2. Found(N, k)
    BY <1>13, <2>1 DEF Good
  <2> QED BY <1>4, <2>1, <2>2
<1>15. Once(Joined) /\ Len(Joined) <= Total
  BY <1>4, <1>7, <1>13 DEF Good
<1> QED BY <1>14, <1>15

\* What a server may have: what it has at first, and what the program may define.
KnownAt(s) == Range(Defined[s]) \cup {d \in Offered : Definable(d)}

\* The devices that are defined are told apart by their ids and names.
OneOfEach ==
    \A s \in Servers : Once(Defined[s]) /\ \A d, e \in KnownAt(s) : d # e => ~Clash(d, e)

\* No list has a device twice.
Apart ==
    \A s \in Servers :
       /\ \A n \in DOMAIN database[s] : Once(database[s][n]) /\ Range(database[s][n]) \subseteq KnownAt(s)
       /\ Once(defined[s].list)

\* Joined and Total, of what is kept.
JoinedOf(kept) ==
    LET joined[n \in 0 .. Len(Links)] ==
          IF n = 0 THEN <<>>
          ELSE joined[n - 1] \o News(kept[Links[n]].list, joined[n - 1])
    IN joined[Len(Links)]

\* The devices kept of the first n links, link by link, and of all links.
Counts(kept, n) == [m \in 1 .. n |-> Len(kept[Links[m]].list)]

TotalOf(kept) == Summed(Counts(kept, Len(Links)))

\* A call that has come to its link has asked links before it, and counted the devices of
\* all links before it; when it has ended it has joined what is kept.
Got(c, kept) ==
    /\ \A s \in c.asked : kept[s].tag # 0 /\ \E n \in DOMAIN Links : n < c.link /\ s = Links[n]
    /\ c.at \in {"ask", "answer"} => c.link <= Len(Links) + 1 /\ c.sizes = Counts(kept, c.link - 1)
    /\ c.at = "done" /\ c.result = "ok" => c.list = JoinedOf(kept) /\ TotalOf(kept) <= c.space
    /\ c.at = "done" /\ c.result = "toomany" => c.count = TotalOf(kept)

\* The call c of thread u, unless another thread has changed the lists meanwhile.
GettingOf(u, c, kept, crossed) ==
    /\ c.at \in {"ask", "answer"} => c.op = "get"
    /\ c.at \in {"tell", "again"} => c.op # "get" /\ c.device \in Offered /\ Definable(c.device)
    /\ c.op = "get" => c.at \in {"ask", "answer", "done"}
    /\ c.op = "get" /\ u \notin crossed => Got(c, kept)

Getting == \A u \in Users : GettingOf(u, call[u], defined, past.crossed)

\* They are what the module has.
LEMMA JoinedIs == Joined = JoinedOf(defined) /\ Total = TotalOf(defined)
<1>1. DOMAIN Links = 1 .. Len(Links)
  BY ListsData
<1> QED BY <1>1 DEF Joined, JoinedOf, Total, TotalOf, Counts

\* One link more is counted.
LEMMA CountsGrow ==
    ASSUME NEW kept \in [Servers -> [tag : Nat, list : Seq(Devices), whole : BOOLEAN]],
           NEW k \in DOMAIN Links
    PROVE  /\ k \in Nat \ {0} /\ k <= Len(Links)
           /\ Append(Counts(kept, k - 1), Len(kept[Links[k]].list)) = Counts(kept, k)
<1>1. k \in Nat \ {0} /\ k <= Len(Links) /\ Len(Links) \in Nat
  BY ListsData
<1>2. \A m \in 1 .. k : Len(kept[Links[m]].list) \in Nat
  BY <1>1, ListsData
<1>3. Counts(kept, k - 1) \in Seq(Nat) /\ Len(Counts(kept, k - 1)) = k - 1
  <2>1. Counts(kept, k - 1) \in [1 .. k - 1 -> Nat] /\ k - 1 \in Nat
    BY <1>1, <1>2 DEF Counts
  <2> QED BY <2>1
<1> DEFINE c == Counts(kept, k - 1)
           n == Len(kept[Links[k]].list)
<1>4. \A m \in 1 .. k - 1 : c[m] = Len(kept[Links[m]].list)
  BY DEF Counts
<1>5. c \in Seq(Nat) /\ Len(c) = k - 1 /\ n \in Nat
  BY <1>1, <1>2, <1>3
<1> HIDE DEF c
<1>6. DOMAIN Append(c, n) = 1 .. k /\ Append(c, n)[k] = n /\ \A m \in 1 .. k - 1 : Append(c, n)[m] = c[m]
  BY <1>1, <1>5
<1>7. \A m \in 1 .. k : Append(c, n)[m] = Len(kept[Links[m]].list)
  BY <1>1, <1>4, <1>6
<1>8. Append(c, n) \in Seq(Nat)
  BY <1>5
<1>9. Append(c, n) = Counts(kept, k)
  <2> DEFINE f == Append(c, n)
  <2>1. f = [m \in DOMAIN f |-> f[m]]
    BY <1>8
  <2> HIDE DEF f
  <2>2. DOMAIN f = 1 .. k /\ \A m \in 1 .. k : f[m] = Len(kept[Links[m]].list)
    BY <1>6, <1>7 DEF f
  <2>3. f = Counts(kept, k)
    BY <2>1, <2>2 DEF Counts
  <2> QED BY <2>3 DEF f
<1> QED BY <1>1, <1>9 DEF c

\* A step of u keeps what threads get if it keeps what u gets, and changes the lists
\* of none that is not crossed then.
LEMMA GettingStep ==
    ASSUME Getting, NEW u \in Users, \A v \in Users : v # u => call'[v] = call[v],
           GettingOf(u, call'[u], defined', past'.crossed),
           \A v \in Users : v # u /\ v \in past.crossed => v \in past'.crossed,
           defined' = defined \/ \A v \in Users : v # u /\ call[v].op = "get" => v \in past'.crossed
    PROVE  Getting'
<1>1. ASSUME NEW v \in Users, v # u
      PROVE  GettingOf(v, call'[v], defined', past'.crossed)
  <2>1. GettingOf(v, call[v], defined, past.crossed) /\ call'[v] = call[v]
    BY <1>1 DEF Getting
  <2>2. CASE defined' = defined
    BY <1>1, <2>1, <2>2 DEF GettingOf
  <2>3. CASE call[v].op = "get" => v \in past'.crossed
    BY <2>1, <2>3 DEF GettingOf
  <2> QED BY <1>1, <2>2, <2>3
<1> QED BY <1>1 DEF Getting

\* A call that does not get the defined devices goes on.
LEMMA GettingQuiet ==
    ASSUME Getting, NEW u \in Users, \A v \in Users : v # u => call'[v] = call[v],
           call'[u].at \notin {"tell", "again", "ask", "answer"}, call'[u].op # "get",
           \A v \in Users : v # u /\ v \in past.crossed => v \in past'.crossed,
           defined' = defined
    PROVE  Getting'
<1>1. GettingOf(u, call'[u], defined', past'.crossed)
  BY DEF GettingOf
<1> QED BY <1>1, GettingStep

\* No call stops being crossed before it has ended.
LEMMA CrossedNext ==
    ASSUME PastTyped, NEW u \in Users, ChainStep(u) \/ DefinedStep(u)
    PROVE  past.crossed \subseteq past'.crossed
<1>1. ASSUME ReadChain(u) \/ ScanChain(u)
      PROVE  past'.crossed = past.crossed
  BY <1>1 DEF ReadChain, ScanChain, Sharing, PastTyped
<1>2. ASSUME ChainStep(u), ~ReadChain(u), ~ScanChain(u)
      PROVE  UNCHANGED past
  BY <1>2 DEF ChainStep, LockChain, UnlockChain, Relist, Refresh, RefreshRefused, RefreshLost,
              Store, StoreTimeout, Fill, Stored, LookInVain, Look, Copy, EndCopy
<1>3. ASSUME ReleaseAgain(u)
      PROVE  past'.crossed = past.crossed
  BY <1>3 DEF ReleaseAgain, Robbing, PastTyped
<1>4. ASSUME Answered(u) \/ AnswerLost(u)
      PROVE  past.crossed \subseteq past'.crossed
  BY <1>4 DEF Answered, AnswerLost, Crossing, PastTyped
<1>5. ASSUME DefinedStep(u), ~ReleaseAgain(u), ~Answered(u), ~AnswerLost(u)
      PROVE  UNCHANGED past
  BY <1>5 DEF DefinedStep, StartDefine, Tell, TellLost, TellLeavesOut, TellFails, EndTell,
              GetDefined, AskLeavesOut, Ask, AskFails, Join
<1> QED BY <1>1, <1>2, <1>3, <1>4, <1>5

\* The steps of a read and a scan.
LEMMA ChainCalls ==
    ASSUME Typed, NEW u \in Users, ChainStep(u)
    PROVE  /\ UNCHANGED <<defined, database>>
           /\ \/ UNCHANGED call
              \/ /\ \A v \in Users : v # u => call'[v] = call[v]
                 /\ call[u].at \notin {"ask", "answer", "done"}
                 /\ call'[u].at \notin {"tell", "again", "ask", "answer"}
                 /\ call'[u].op = call[u].op \/ call'[u].op \in {"read", "scan"}
<1>0. CallTyped /\ call \in [Users -> Calls] /\ call[u] \in Calls
  BY DEF Typed, CallTyped
<1>1. UNCHANGED <<defined, database>>
  BY DEF ChainStep, LockChain, UnlockChain, Relist, ReadChain, ScanChain, Refresh, RefreshRefused, RefreshLost,
         Store, StoreTimeout, Fill, Stored, LookInVain, Look, Copy, EndCopy
<1> DEFINE Quiet == /\ \A v \in Users : v # u => call'[v] = call[v]
                    /\ call[u].at \notin {"ask", "answer", "done"}
                    /\ call'[u].at \notin {"tell", "again", "ask", "answer"}
                    /\ call'[u].op = call[u].op \/ call'[u].op \in {"read", "scan"}
<1>2. CASE LockChain(u) \/ UnlockChain(u) \/ Relist(u)
  BY <1>1, <1>2 DEF LockChain, UnlockChain, Relist
<1>3. ASSUME ReadChain(u) \/ ScanChain(u) PROVE Quiet
  <2>1. PICK c : /\ Start(u, c) /\ c.op \in {"read", "scan"} /\ c.at \in {"refresh", "look"}
    <3>1. CASE ReadChain(u)
      <4>1. PICK space \in Spaces : Start(u, [Idle EXCEPT !.op = "read", !.space = space, !.at = IF chain.locked THEN "refresh" ELSE "look"])
        BY <3>1 DEF ReadChain
      <4> DEFINE c == [Idle EXCEPT !.op = "read", !.space = space, !.at = IF chain.locked THEN "refresh" ELSE "look"]
      <4>2. c.op = "read" /\ c.at \in {"refresh", "look"}
        BY DEF Idle
      <4> HIDE DEF c
      <4>3. Start(u, c)
        BY <4>1 DEF c
      <4> QED BY <4>2, <4>3
    <3>2. CASE ScanChain(u)
      <4> DEFINE c == [Idle EXCEPT !.op = "scan", !.at = "refresh", !.scan = TRUE]
      <4>1. c.op = "scan" /\ c.at = "refresh"
        BY DEF Idle
      <4>2. Start(u, c)
        BY <3>2 DEF ScanChain
      <4> HIDE DEF c
      <4> QED BY <4>1, <4>2
    <3> QED BY <1>3, <3>1, <3>2
  <2>2. call' = [call EXCEPT ![u] = c] /\ call[u].at = "idle"
    BY <2>1 DEF Start
  <2> QED BY <1>0, <2>1, <2>2
<1>4. ASSUME Refresh(u) PROVE Quiet
  BY <1>0, <1>4 DEF Refresh, Refreshing, Calls
<1>5. ASSUME RefreshRefused(u) PROVE Quiet
  <2>1. call[u].at = "refresh" /\ (call' = [call EXCEPT ![u].scan = TRUE] \/ Done(u, "error"))
    BY <1>5 DEF RefreshRefused, Refreshing
  <2>2. CASE call' = [call EXCEPT ![u].scan = TRUE]
    BY <1>0, <2>1, <2>2 DEF Calls
  <2>3. CASE Done(u, "error")
    BY <1>0, <2>1, <2>3 DEF Done, Calls
  <2> QED BY <2>1, <2>2, <2>3
<1>6. ASSUME RefreshLost(u) PROVE Quiet
  BY <1>0, <1>6 DEF RefreshLost, Refreshing, Done, Calls
<1>7. ASSUME Store(u) PROVE Quiet
  BY <1>0, <1>7 DEF Store, Calls
<1>8. ASSUME StoreTimeout(u) PROVE Quiet
  BY <1>0, <1>8 DEF StoreTimeout, Done, Calls
<1>9. ASSUME Fill(u) PROVE Quiet
  BY <1>0, <1>9 DEF Fill, Calls
<1>10. ASSUME Stored(u) PROVE Quiet
  BY <1>0, <1>10 DEF Stored, Done, Go, Calls
<1>11. ASSUME LookInVain(u) PROVE Quiet
  BY <1>0, <1>11 DEF LookInVain, At, Done, Calls
<1>12. ASSUME Look(u) PROVE Quiet
  BY <1>0, <1>12 DEF Look, At, Calls
<1>13. ASSUME Copy(u) PROVE Quiet
  BY <1>0, <1>13 DEF Copy, At, Calls
<1>14. ASSUME EndCopy(u) PROVE Quiet
  BY <1>0, <1>14 DEF EndCopy, At, Done, Calls
<1> HIDE DEF Quiet
<1>15. Quiet => \/ UNCHANGED call
              \/ /\ \A v \in Users : v # u => call'[v] = call[v]
                 /\ call[u].at \notin {"ask", "answer", "done"}
                 /\ call'[u].at \notin {"tell", "again", "ask", "answer"}
                 /\ call'[u].op = call[u].op \/ call'[u].op \in {"read", "scan"}
  BY DEF Quiet
<1>16. UNCHANGED call \/ Quiet
  BY <1>2, <1>3, <1>4, <1>5, <1>6, <1>7, <1>8, <1>9, <1>10, <1>11, <1>12, <1>13, <1>14 DEF ChainStep, LockChain, UnlockChain, Relist
<1> QED BY <1>1, <1>15, <1>16

\* Every step keeps what threads get.
LEMMA GettingNext ==
    ASSUME PastTyped, Typed, DefinedRead, Getting, [Next]_vars
    PROVE  Getting'
<1>0. CallTyped /\ call \in [Users -> Calls] /\ \A u \in Users : call[u] \in Calls /\ GettingOf(u, call[u], defined, past.crossed)
  BY DEF Typed, CallTyped, Getting
<1>c. \A u \in Users : ChainStep(u) \/ DefinedStep(u) => past.crossed \subseteq past'.crossed
  BY CrossedNext
<1>1. CASE UNCHANGED <<call, defined>> /\ past.crossed \subseteq past'.crossed
  BY <1>1 DEF Getting, GettingOf
<1>2. ASSUME NEW u \in Users, ChainStep(u) PROVE Getting'
  <2>1. \/ UNCHANGED call
        \/ /\ \A v \in Users : v # u => call'[v] = call[v]
           /\ call[u].at \notin {"ask", "answer", "done"}
           /\ call'[u].at \notin {"tell", "again", "ask", "answer"}
           /\ call'[u].op = call[u].op \/ call'[u].op \in {"read", "scan"}
    BY <1>2, ChainCalls
  <2>2. UNCHANGED defined
    BY <1>2, ChainCalls
  <2>3. CASE UNCHANGED call
    BY <1>1, <1>2, <1>c, <2>2, <2>3
  <2>4. CASE ~UNCHANGED call
    <3>1. call[u].at \notin {"ask", "answer", "done"}
      BY <2>1, <2>4
    <3>2. call[u].op # "get"
      BY <1>0, <3>1 DEF GettingOf
    <3>3. call'[u].op # "get"
      BY <2>1, <2>4, <3>2
    <3> QED BY <1>2, <1>c, <2>1, <2>2, <2>4, <3>3, GettingQuiet
  <2> QED BY <2>3, <2>4
<1>3. ASSUME NEW u \in Users, Finish(u) PROVE Getting'
  <2>1. /\ call'[u] = Idle /\ \A v \in Users : v # u => call'[v] = call[v]
        /\ UNCHANGED defined /\ past'.crossed = past.crossed \ {u}
    BY <1>0, <1>3 DEF Finish, PastTyped
  <2> QED BY <2>1, GettingQuiet DEF Idle
<1>4. ASSUME NEW u \in Users, StartDefine(u) PROVE Getting'
  <2>1. PICK d \in Offered, op \in {"define", "undefine"} :
           Start(u, IF Definable(d) THEN [Idle EXCEPT !.op = op, !.at = "tell", !.device = d]
                    ELSE [Idle EXCEPT !.op = op, !.at = "done", !.result = "error"])
    BY <1>4 DEF StartDefine
  <2> DEFINE c == IF Definable(d) THEN [Idle EXCEPT !.op = op, !.at = "tell", !.device = d]
                  ELSE [Idle EXCEPT !.op = op, !.at = "done", !.result = "error"]
  <2>2. c.op # "get" /\ (c.at = "done" \/ (c.at = "tell" /\ c.device = d /\ Definable(d)))
    BY <2>1 DEF Idle
  <2> HIDE DEF c
  <2>3. Start(u, c)
    BY <2>1 DEF c
  <2>4. call'[u] = c /\ \A v \in Users : v # u => call'[v] = call[v]
    BY <1>0, <2>3 DEF Start
  <2>5. UNCHANGED defined
    BY <1>4 DEF StartDefine
  <2>6. GettingOf(u, c, defined', past'.crossed)
    BY <2>1, <2>2 DEF GettingOf
  <2>8. \A v \in Users : v # u /\ v \in past.crossed => v \in past'.crossed
    BY <1>4, <1>c DEF DefinedStep
  <2> QED BY <2>4, <2>5, <2>6, <2>8, GettingStep
<1>5. ASSUME NEW u \in Users,
             Tell(u) \/ TellLost(u) \/ TellLeavesOut(u) \/ TellFails(u) \/ ReleaseAgain(u) \/ EndTell(u)
      PROVE  Getting'
  <2>1. /\ call[u].at \in {"tell", "again"} /\ \A v \in Users : v # u => call'[v] = call[v]
        /\ call'[u].at \in {"tell", "again", "done"}
        /\ call'[u].op = call[u].op /\ call'[u].device = call[u].device
        /\ UNCHANGED defined
    <3>1. CASE Tell(u) \/ TellLost(u) \/ TellLeavesOut(u) \/ ReleaseAgain(u)
      <4>1. Advance(u, "tell") /\ call[u].at \in {"tell", "again"} /\ UNCHANGED defined
        BY <3>1 DEF Tell, TellLost, TellLeavesOut, ReleaseAgain, AtServer
      <4>2. /\ \A v \in Users : v # u => call'[v] = call[v]
            /\ call'[u] = [call[u] EXCEPT !.at = "tell", !.link = call[u].link + 1]
        BY <1>0, <4>1, AdvanceSound DEF Ats
      <4> QED BY <1>0, <4>1, <4>2 DEF Calls
    <3>2. CASE TellFails(u)
      BY <1>0, <3>2 DEF TellFails, AtServer, Go, Calls
    <3>3. CASE EndTell(u)
      BY <1>0, <3>3 DEF EndTell, AfterServers, Done, Calls
    <3> QED BY <1>5, <3>1, <3>2, <3>3
  <2>2. call[u].op # "get" /\ call[u].device \in Offered /\ Definable(call[u].device)
    BY <1>0, <2>1 DEF GettingOf
  <2>3. GettingOf(u, call'[u], defined', past'.crossed)
    BY <2>1, <2>2 DEF GettingOf
  <2>4. \A v \in Users : v # u /\ v \in past.crossed => v \in past'.crossed
    BY <1>5, <1>c DEF DefinedStep
  <2> QED BY <2>1, <2>3, <2>4, GettingStep
<1>6. ASSUME NEW u \in Users, GetDefined(u) PROVE Getting'
  <2>1. PICK space \in Spaces : Start(u, [Idle EXCEPT !.op = "get", !.at = "ask", !.space = space])
    BY <1>6 DEF GetDefined
  <2> DEFINE c == [Idle EXCEPT !.op = "get", !.at = "ask", !.space = space]
  <2>2. c.op = "get" /\ c.at = "ask" /\ c.asked = {} /\ c.link = 1 /\ c.sizes = <<>>
    BY DEF Idle
  <2> HIDE DEF c
  <2>3. Start(u, c)
    BY <2>1 DEF c
  <2>4. call'[u] = c /\ \A v \in Users : v # u => call'[v] = call[v]
    BY <1>0, <2>3 DEF Start
  <2>5. UNCHANGED defined /\ past'.crossed = past.crossed
    BY <1>6 DEF GetDefined
  <2>6. GettingOf(u, c, defined', past'.crossed)
    <3>1. c.link <= Len(Links) + 1
      BY <2>2, ListsData
    <3>2. Counts(defined', 0) = <<>> /\ c.link - 1 = 0
      BY <2>2 DEF Counts
    <3>3. Got(c, defined')
      BY <2>2, <3>1, <3>2 DEF Got
    <3> QED BY <2>2, <3>3 DEF GettingOf
  <2> QED BY <2>4, <2>5, <2>6, GettingStep
<1>7. ASSUME NEW u \in Users, AskLeavesOut(u) \/ Ask(u) \/ AskFails(u) PROVE Getting'
  <2> DEFINE c == call[u]
             d == call'[u]
  <2>0. c.link \in Nat /\ DOMAIN Links \subseteq Nat
    BY <1>0, ListsData DEF Calls, Places
  <2>1. /\ c.at \in {"ask", "answer"} /\ \A v \in Users : v # u => call'[v] = call[v]
        /\ d.at \in {"ask", "answer"} /\ d.op = c.op /\ d.asked = c.asked
        /\ UNCHANGED <<defined, past>>
        /\ c.link <= Len(Links)
        /\ \/ d.link = c.link /\ d.sizes = c.sizes
           \/ d.link = c.link + 1 /\ d.sizes = Append(c.sizes, Has(u))
    <3>1. CASE Ask(u)
      BY <1>0, <3>1 DEF Ask, AtServer, Go, Calls
    <3>2. CASE AskLeavesOut(u) \/ AskFails(u)
      <4>1. Counted(u, Has(u)) /\ call[u].at \in {"ask", "answer"} /\ call[u].link <= Len(Links) /\ UNCHANGED <<defined, past>>
        BY <3>2 DEF AskLeavesOut, AskFails, AtServer
      <4>2. Has(u) \in Nat
        <5>1. Server(u) \in Servers
          BY <1>0, <4>1, ServerTyped
        <5>2. defined[Server(u)].list \in Seq(Devices)
          BY <5>1 DEF Typed
        <5> QED BY <5>2 DEF Has
      <4>3. /\ \A v \in Users : v # u => call'[v] = call[v]
            /\ call'[u] = [call[u] EXCEPT !.at = "ask", !.link = call[u].link + 1, !.sizes = Append(call[u].sizes, Has(u))]
        BY <1>0, <4>1, <4>2, CountedSound
      <4> QED BY <1>0, <4>1, <4>3 DEF Calls
    <3> QED BY <1>7, <3>1, <3>2
  <2>2. GettingOf(u, c, defined, past.crossed) /\ c.op = "get"
    BY <1>0, <2>1 DEF GettingOf
  <2>3. c.link \in DOMAIN Links /\ Has(u) = Len(defined[Links[c.link]].list)
    BY <1>0, <2>1, ServerTyped DEF Has, Server
  <2>4. /\ c.link \in Nat \ {0}
        /\ Append(Counts(defined, c.link - 1), Has(u)) = Counts(defined, c.link)
    BY <2>3, CountsGrow DEF Typed
  <2> HIDE DEF c, d
  <2>5. ASSUME u \notin past.crossed PROVE Got(d, defined)
    <3>1. Got(c, defined)
      BY <2>2, <2>5 DEF GettingOf
    <3>2. \A n \in DOMAIN Links : n < c.link => n < d.link
      BY <2>0, <2>1
    <3>3. d.link <= Len(Links) + 1
      <4>1. Len(Links) \in Nat
        BY ListsData
      <4> QED BY <2>0, <2>1, <4>1
    <3>4. d.sizes = Counts(defined, d.link - 1)
      <4>1. c.sizes = Counts(defined, c.link - 1)
        BY <2>1, <3>1 DEF Got
      <4>2. CASE d.link = c.link /\ d.sizes = c.sizes
        BY <4>1, <4>2
      <4>3. CASE d.link = c.link + 1 /\ d.sizes = Append(c.sizes, Has(u))
        <5>1. d.link - 1 = c.link
          BY <2>4, <4>3
        <5> QED BY <2>4, <4>1, <4>3, <5>1
      <4> QED BY <2>1, <4>2, <4>3
    <3> QED BY <2>1, <3>1, <3>2, <3>3, <3>4 DEF Got
  <2>6. GettingOf(u, d, defined', past'.crossed)
    BY <2>1, <2>2, <2>5 DEF GettingOf
  <2> QED BY <2>1, <2>6, GettingStep DEF d
<1>8. ASSUME NEW u \in Users, Answered(u) \/ AnswerLost(u) PROVE Getting'
  <2> DEFINE s == Server(u)
             c == call[u]
             d == call'[u]
  <2>1. /\ c.at = "answer" /\ c.link \in DOMAIN Links /\ s \in Servers /\ s = Links[c.link]
    <3>1. AtServer(u, "answer")
      BY <1>8 DEF Answered, AnswerLost
    <3> QED BY <1>0, <3>1, ServerTyped DEF AtServer, Server
  <2>2. /\ \A v \in Users : v # u => call'[v] = call[v]
        /\ d.at = "ask" /\ d.op = c.op /\ d.link = c.link + 1 /\ c.link \in Nat
        /\ d.asked \in {c.asked, c.asked \cup {s}}
        /\ defined'[s].tag # 0 \/ d.asked = c.asked
        /\ d.sizes = Append(c.sizes, Len(defined'[s].list))
    <3>0. call[u].link \in Nat
      BY <1>0 DEF Calls, Places
    <3>1. CASE Answered(u)
      <4>1. PICK after \in AfterAnswer(defined[s], Len(database[s]), Last(database[s])) :
               /\ defined' = [defined EXCEPT ![s] = after]
               /\ call' = [call EXCEPT ![u].at = "ask", ![u].link = call[u].link + 1, ![u].asked = call[u].asked \cup {s},
                                       ![u].sizes = Append(call[u].sizes, Len(after.list))]
        BY <3>1 DEF Answered
      <4>2. defined[s] \in [tag : Nat, list : Seq(Devices), whole : BOOLEAN] /\ Len(database[s]) \in Nat /\ Len(database[s]) >= 1
        BY <2>1 DEF Typed
      <4>3. after.tag = Len(database[s])
        BY <4>1, <4>2 DEF AfterAnswer
      <4>4. defined'[s] = after
        BY <2>1, <4>1 DEF Typed
      <4>5. call' = [call EXCEPT ![u].at = "ask", ![u].link = call[u].link + 1, ![u].asked = call[u].asked \cup {s},
                              ![u].sizes = Append(call[u].sizes, Len(defined'[s].list))]
        BY <4>1, <4>4
      <4> HIDE DEF s
      <4>6. /\ \A v \in Users : v # u => call'[v] = call[v]
            /\ d.at = "ask" /\ d.op = c.op /\ d.link = c.link + 1 /\ d.asked = c.asked \cup {s}
            /\ d.sizes = Append(c.sizes, Len(defined'[s].list))
        BY <1>0, <4>5 DEF Calls
      <4> QED BY <3>0, <4>2, <4>3, <4>4, <4>6
    <3>2. CASE AnswerLost(u)
      <4>1. Counted(u, 0)
        BY <3>2 DEF AnswerLost
      <4>2. /\ \A v \in Users : v # u => call'[v] = call[v]
            /\ call'[u] = [call[u] EXCEPT !.at = "ask", !.link = call[u].link + 1, !.sizes = Append(call[u].sizes, 0)]
        BY <1>0, <4>1, CountedSound
      <4>3. Len(defined'[s].list) = 0
        BY <2>1, <3>2 DEF AnswerLost, Typed
      <4> HIDE DEF s
      <4> QED BY <1>0, <3>0, <4>2, <4>3 DEF Calls
    <3> QED BY <1>8, <3>1, <3>2
  <2>3. \A t \in Servers : t # s => defined'[t] = defined[t]
    BY <1>8 DEF Answered, AnswerLost, Typed
  <2>4. GettingOf(u, c, defined, past.crossed) /\ c.asked \in SUBSET Servers
    BY <1>0 DEF Calls
  <2>x. past'.crossed = past.crossed \cup {v \in Users \ {u} : call[v].op = "get"}
    BY <1>8 DEF Answered, AnswerLost, Crossing, PastTyped
  <2>g. /\ Append(Counts(defined', c.link - 1), Len(defined'[Links[c.link]].list)) = Counts(defined', c.link)
        /\ c.link \in Nat \ {0} /\ c.link <= Len(Links)
    <3>1. defined' \in [Servers -> [tag : Nat, list : Seq(Devices), whole : BOOLEAN]]
      BY TypedNext DEF Typed
    <3> QED BY <2>1, <3>1, CountsGrow
  <2>5. DOMAIN Links \subseteq Nat /\ \A m, n \in DOMAIN Links : Links[m] = Links[n] => m = n
    BY ListsData
  <2> HIDE DEF s, c, d
  <2>o. c.op = "get"
    BY <2>1, <2>4 DEF GettingOf
  <2>8. ASSUME u \notin past'.crossed PROVE Got(d, defined')
    <3>6. Got(c, defined)
      BY <2>4, <2>8, <2>o, <2>x DEF GettingOf
    <3>7. \A t \in c.asked : t # s /\ t \in Servers
      BY <2>1, <2>2, <2>4, <2>5, <3>6 DEF Got
    <3>8. c.sizes = Counts(defined, c.link - 1)
      BY <2>1, <3>6 DEF Got
    <3>9. Counts(defined', c.link - 1) = Counts(defined, c.link - 1)
      <4>1. \A m \in 1 .. c.link - 1 : m \in DOMAIN Links /\ Links[m] \in Servers /\ Links[m] # s
        <5>1. Links \in Seq(Servers) /\ Len(Links) \in Nat
          BY ListsData
        <5> QED BY <2>1, <2>5, <2>g, <5>1
      <4>2. \A m \in 1 .. c.link - 1 : Len(defined'[Links[m]].list) = Len(defined[Links[m]].list)
        BY <2>3, <4>1
      <4> QED BY <4>2 DEF Counts
    <3>10. d.link <= Len(Links) + 1 /\ d.sizes = Counts(defined', d.link - 1)
      <4>1. d.link - 1 = c.link /\ d.link <= Len(Links) + 1
        <5>1. Len(Links) \in Nat
          BY ListsData
        <5> QED BY <2>2, <2>g, <5>1
      <4> QED BY <2>1, <2>2, <2>g, <3>8, <3>9, <4>1
    <3>1. ASSUME NEW t \in d.asked
          PROVE  defined'[t].tag # 0 /\ \E n \in DOMAIN Links : n < d.link /\ t = Links[n]
      <4>1. CASE t \in c.asked
        <5>1. PICK n \in DOMAIN Links : n < c.link /\ t = Links[n]
          BY <3>6, <4>1 DEF Got
        <5>2. n < d.link
          BY <2>2, <2>5, <5>1
        <5>3. defined[t].tag # 0
          BY <3>6, <4>1 DEF Got
        <5>4. defined'[t].tag # 0
          BY <2>3, <3>7, <4>1, <5>3
        <5> QED BY <5>1, <5>2, <5>4
      <4>2. CASE t \notin c.asked
        <5>1. t = s /\ d.asked # c.asked
          BY <2>2, <3>1, <4>2
        <5>2. defined'[t].tag # 0
          BY <2>2, <5>1
        <5>3. c.link < d.link /\ c.link \in DOMAIN Links /\ t = Links[c.link]
          BY <2>1, <2>2, <5>1
        <5> QED BY <5>2, <5>3
      <4> QED BY <4>1, <4>2
    <3> QED BY <2>2, <3>1, <3>10 DEF Got
  <2>9. GettingOf(u, d, defined', past'.crossed)
    BY <2>2, <2>8, <2>o DEF GettingOf
  <2> QED BY <2>2, <2>9, <2>x, GettingStep DEF d
<1>9. ASSUME NEW u \in Users, Join(u) PROVE Getting'
  <2> DEFINE c == call[u]
             d == call'[u]
             n == Summed(call[u].sizes)
  <2>1. /\ c.at = "ask" /\ UNCHANGED <<defined, past>> /\ c.link > Len(Links) /\ c.link \in Nat
        /\ \/ /\ c.space < n
              /\ call' = [call EXCEPT ![u].at = "done", ![u].result = "toomany", ![u].count = n]
           \/ /\ ~(c.space < n)
              /\ call' = [call EXCEPT ![u].at = "done", ![u].result = "ok", ![u].list = Joined, ![u].count = Len(Joined)]
    <3>1. c.link \in Nat
      BY <1>0 DEF Calls, Places
    <3> QED BY <1>9, <3>1 DEF Join, AfterServers
  <2>2. Joined = JoinedOf(defined) /\ n \in Nat /\ c.space \in Nat
    <3>1. call[u].sizes \in Seq(Nat) /\ c.space \in Nat
      BY <1>0 DEF Calls
    <3> QED BY <3>1, JoinedIs, SummedTyped
  <2>3. GettingOf(u, c, defined, past.crossed) /\ c.op = "get"
    BY <1>0, <2>1 DEF GettingOf
  <2>s. n = Summed(c.sizes)
    OBVIOUS
  <2> HIDE DEF n
  <2>4. /\ \A v \in Users : v # u => call'[v] = call[v]
        /\ d.at = "done" /\ d.op = c.op /\ d.link = c.link /\ d.asked = c.asked /\ d.space = c.space
        /\ \/ d.result = "ok" /\ d.list = Joined /\ n <= c.space
           \/ d.result = "toomany" /\ d.count = n
    <3>1. CASE c.space < n /\ call' = [call EXCEPT ![u].at = "done", ![u].result = "toomany", ![u].count = n]
      BY <1>0, <2>1, <3>1 DEF Calls
    <3>2. CASE ~(c.space < n) /\ call' = [call EXCEPT ![u].at = "done", ![u].result = "ok", ![u].list = Joined, ![u].count = Len(Joined)]
      <4>1. n <= c.space
        BY <2>2, <3>2
      <4> QED BY <1>0, <3>2, <4>1 DEF Calls
    <3> QED BY <2>1, <3>1, <3>2
  <2> HIDE DEF c, d
  <2>5. ASSUME u \notin past.crossed PROVE Got(d, defined)
    <3>1. Got(c, defined)
      BY <2>3, <2>5 DEF GettingOf
    <3>2. c.sizes = Counts(defined, c.link - 1) /\ c.link <= Len(Links) + 1
      BY <2>1, <3>1 DEF Got
    <3>3. c.link - 1 = Len(Links)
      <4>1. Len(Links) \in Nat
        BY ListsData
      <4> QED BY <2>1, <3>2, <4>1
    <3>4. n = TotalOf(defined)
      BY <2>s, <3>2, <3>3 DEF TotalOf
    <3> QED BY <2>2, <2>4, <3>1, <3>4 DEF Got
  <2>6. GettingOf(u, d, defined', past'.crossed)
    BY <2>1, <2>3, <2>4, <2>5 DEF GettingOf
  <2> QED BY <2>1, <2>4, <2>6, GettingStep DEF d
<1>10. CASE UNCHANGED vars \/ OtherScans
  BY <1>1, <1>10 DEF vars, OtherScans
<1> QED BY <1>2, <1>3, <1>4, <1>5, <1>6, <1>7, <1>8, <1>9, <1>10 DEF Next, DefinedStep

\* A list with a device more or less has none twice.
LEMMA EditedOnce ==
    ASSUME OneOfEach, NEW s \in Servers, NEW u, NEW list \in Seq(Devices), Once(list), Range(list) \subseteq KnownAt(s),
           call[u].device \in Devices, call[u].device \in Offered, Definable(call[u].device)
    PROVE  Once(Edited(u, list)) /\ Range(Edited(u, list)) \subseteq KnownAt(s)
<1> DEFINE x == call[u].device
           others == Filtered(list, Range(list) \ {x})
<1>1. x \in KnownAt(s) /\ x \in Devices
  BY DEF KnownAt
<1>2. Edited(u, list) = IF call[u].op = "define" THEN Append(others, x) ELSE others
  BY DEF Edited
<1>3. others \in Seq(Devices) /\ Once(others) /\ Range(others) = Range(list) \cap (Range(list) \ {x})
  <2> DEFINE S == Range(list) \ {x}
  <2> HIDE DEF S
  <2>1. Filtered(list, S) \in Seq(Devices) /\ Once(Filtered(list, S)) /\ Range(Filtered(list, S)) = Range(list) \cap S
    BY FilteredOnce, FilteredTyped
  <2> QED BY <2>1 DEF S
<1> HIDE DEF x, others
<1>4. \A e \in Range(others) : e \in KnownAt(s) /\ e # x
  BY <1>3
<1>5. \A e \in Range(others) : ~Clash(e, x)
  BY <1>1, <1>4 DEF OneOfEach
<1>6. Once(Append(others, x))
  BY <1>1, <1>3, <1>5, OnceAppend
<1>7. Range(Append(others, x)) = Range(others) \cup {x}
  BY <1>1, <1>3, RangeAppend
<1>8. Range(others) \subseteq KnownAt(s)
  BY <1>4
<1> QED BY <1>1, <1>2, <1>3, <1>6, <1>7, <1>8

\* Every step keeps the devices apart.
LEMMA ApartNext ==
    ASSUME OneOfEach, Typed, Getting, Apart, [Next]_vars
    PROVE  Apart'
<1> DEFINE Version(s, l) == Once(l) /\ Range(l) \subseteq KnownAt(s)
<1>1. \A s \in Servers : /\ \A n \in DOMAIN database[s] : Version(s, database[s][n])
                         /\ Once(defined[s].list)
                         /\ database[s] \in Seq(Seq(Devices)) /\ Len(database[s]) >= 1
  BY DEF Apart, Typed
<1>2. SUFFICES \A s \in Servers : /\ \A n \in DOMAIN database'[s] : Version(s, database'[s][n])
                                  /\ Once(defined'[s].list)
  BY DEF Apart, Once, KnownAt
<1> HIDE DEF Version
<1>l. \A s \in Servers : Version(s, Last(database[s])) /\ Last(database[s]) \in Seq(Devices)
  <2> TAKE s \in Servers
  <2>1. Last(database[s]) \in Seq(Devices) /\ Last(database[s]) = database[s][Len(database[s])] /\ Len(database[s]) \in DOMAIN database[s]
    BY <1>1, LastTyped
  <2> QED BY <1>1, <2>1
<1>3. CASE UNCHANGED <<defined, database>>
  BY <1>1, <1>3
<1>4. ASSUME NEW u \in Users, Tell(u) \/ TellLost(u)
      PROVE  \A s \in Servers : /\ \A n \in DOMAIN database'[s] : Version(s, database'[s][n])
                                /\ Once(defined'[s].list)
  <2> DEFINE t == Server(u)
             e == Edited(u, Last(database[t]))
  <2>1. UNCHANGED defined /\ (UNCHANGED database \/ database' = [database EXCEPT ![t] = Append(database[t], e)])
    BY <1>4 DEF Tell, TellLost, Told
  <2>2. t \in Servers /\ call[u].at = "tell"
    BY <1>4, ServerTyped DEF Tell, TellLost, AtServer, Typed
  <2>3. call[u].device \in Offered /\ Definable(call[u].device) /\ call[u].device \in Devices
    BY <2>2 DEF Getting, GettingOf, Typed, CallTyped, Sound
  <2>4. Version(t, e) /\ e \in Seq(Devices)
    <3> DEFINE list == Last(database[t])
    <3>1. list \in Seq(Devices) /\ Once(list) /\ Range(list) \subseteq KnownAt(t)
      BY <1>l, <2>2 DEF Version
    <3>2. e \in Seq(Devices)
      BY <1>1, <2>2, <2>3, EditedTyped
    <3> HIDE DEF list, t
    <3>3. Once(Edited(u, list)) /\ Range(Edited(u, list)) \subseteq KnownAt(t)
      BY <2>2, <2>3, <3>1, EditedOnce
    <3> QED BY <3>2, <3>3 DEF Version, list
  <2> HIDE DEF t, e
  <2>5. CASE UNCHANGED database
    BY <1>3, <2>1, <2>5
  <2>6. CASE database' = [database EXCEPT ![t] = Append(database[t], e)]
    <3> TAKE s \in Servers
    <3>1. CASE s # t
      BY <1>1, <2>1, <2>6, <3>1 DEF Typed
    <3>2. CASE s = t
      <4>1. database'[s] = Append(database[s], e) /\ database[s] \in Seq(Seq(Devices))
        BY <1>1, <2>6, <3>2 DEF Typed
      <4>2. \A n \in DOMAIN Append(database[s], e) :
               Append(database[s], e)[n] = e \/ (n \in DOMAIN database[s] /\ Append(database[s], e)[n] = database[s][n])
        BY <4>1
      <4>3. \A n \in DOMAIN database'[s] : Version(s, database'[s][n])
        BY <1>1, <2>4, <3>2, <4>1, <4>2
      <4> QED BY <1>1, <2>1, <4>3
    <3> QED BY <3>1, <3>2
  <2> QED BY <2>1, <2>5, <2>6
<1>5. ASSUME NEW u \in Users, Answered(u) \/ AnswerLost(u)
      PROVE  \A s \in Servers : /\ \A n \in DOMAIN database'[s] : Version(s, database'[s][n])
                                /\ Once(defined'[s].list)
  <2> DEFINE t == Server(u)
             kept == defined[t]
             list == Last(database[t])
             tag == Len(database[t])
  <2>1. UNCHANGED database /\ t \in Servers
    BY <1>5, ServerTyped DEF Answered, AnswerLost, AtServer, Typed
  <2>2. PICK after : defined' = [defined EXCEPT ![t] = after] /\
           (after \in AfterAnswer(kept, tag, list) \/ after = [tag |-> 0, list |-> <<>>, whole |-> TRUE])
    BY <1>5, Zenon DEF Answered, AnswerLost
  <2>3. Parsed(list) = list /\ Once(list) /\ Once(kept.list) /\ kept \in [tag : Nat, list : Seq(Devices), whole : BOOLEAN]
    <3>1. list \in Seq(Devices) /\ Once(list)
      BY <1>l, <2>1 DEF Version
    <3>2. Once(kept.list) /\ kept \in [tag : Nat, list : Seq(Devices), whole : BOOLEAN]
      BY <1>1, <2>1 DEF Typed
    <3> HIDE DEF list, kept
    <3> QED BY <3>1, <3>2, ParsedSame
  <2> HIDE DEF t, kept, list, tag
  <2>4. after.list \in {<<>>, list, kept.list}
    BY <2>2, <2>3 DEF AfterAnswer
  <2>5. Once(<<>>)
    BY DEF Once
  <2>6. Once(after.list)
    BY <2>3, <2>4, <2>5
  <2>7. \A s \in Servers : defined'[s] = IF s = t THEN after ELSE defined[s]
    BY <2>1, <2>2 DEF Typed
  <2> QED BY <1>1, <2>1, <2>6, <2>7
<1>7. CASE UNCHANGED vars
  BY <1>3, <1>7 DEF vars
<1>8. ASSUME NEW u \in Users, ChainStep(u)
      PROVE  UNCHANGED <<defined, database>>
  BY <1>8, ChainCalls
<1>9. ASSUME NEW u \in Users, DefinedStep(u)
      PROVE  UNCHANGED <<defined, database>> \/ Tell(u) \/ TellLost(u) \/ Answered(u) \/ AnswerLost(u)
  BY <1>9 DEF DefinedStep, StartDefine, TellLeavesOut, TellFails, ReleaseAgain, EndTell, GetDefined,
                   AskLeavesOut, Ask, AskFails, Join
<1> QED BY <1>3, <1>4, <1>5, <1>7, <1>8, <1>9 DEF Next, OtherScans, Finish

\* At first a server has what it has, and the program nothing.
LEMMA UnionInit == ASSUME OneOfEach PROVE Init => Apart /\ Getting
<1> SUFFICES ASSUME Init PROVE Apart /\ Getting
  OBVIOUS
<1>1. Getting
  <2>1. \A u \in Users : call[u].at = "idle" /\ call[u].op = "none"
    BY DEF Init, Idle
  <2> QED BY <2>1 DEF Getting, GettingOf
<1>2. Apart
  <2> SUFFICES ASSUME NEW s \in Servers
               PROVE  /\ \A n \in DOMAIN database[s] : Once(database[s][n]) /\ Range(database[s][n]) \subseteq KnownAt(s)
                      /\ Once(defined[s].list)
    BY DEF Apart
  <2>1. database[s] = <<Defined[s]>> /\ defined[s].list = <<>>
    BY DEF Init
  <2>2. DOMAIN database[s] = {1} /\ database[s][1] = Defined[s]
    BY <2>1
  <2>3. Once(Defined[s]) /\ Range(Defined[s]) \subseteq KnownAt(s)
    BY DEF OneOfEach, KnownAt
  <2>4. Once(defined[s].list)
    BY <2>1 DEF Once
  <2> QED BY <2>2, <2>3, <2>4
<1> QED BY <1>1, <1>2

\* What the program gets is every device once (get_defined_devices).
LEMMA UnionGot ==
    ASSUME Typed, DefinedRead, Apart, Getting
    PROVE  DefinedUnion
<1> SUFFICES ASSUME NEW u \in Users, u \notin past.crossed, call[u].op = "get", call[u].at = "done"
             PROVE  /\ call[u].result = "ok" =>
                          LET list == call[u].list IN
                          /\ \A s \in call[u].asked : defined[s].whole => \A d \in Range(Last(SubSeq(database[s], 1, defined[s].tag))) :
                                \E e \in Range(list) : Same(d, e)
                          /\ \A i, j \in DOMAIN list : i # j /\ Same(list[i], list[j]) => list[i].id # list[j].id
                          /\ Len(list) <= call[u].space
                    /\ call[u].result = "toomany" => Len(Joined) <= call[u].count
  BY DEF DefinedUnion, At
<1>1. GettingOf(u, call[u], defined, past.crossed) /\ call[u].asked \subseteq Servers /\ call[u].space \in Nat
  BY DEF Getting, Typed, CallTyped, Calls
<1>2. Got(call[u], defined)
  BY <1>1 DEF GettingOf
<1>3. defined \in [Servers -> [tag : Nat, list : Seq(Devices), whole : BOOLEAN]] /\ \A s \in Servers : Once(defined[s].list)
  BY DEF Typed, Apart
<1>4. /\ \A s \in Servers : \A d \in Range(defined[s].list) : \E e \in Range(Joined) : Same(d, e)
      /\ Once(Joined) /\ Len(Joined) <= Total
  BY <1>3, JoinedSound
<1>5. Joined = JoinedOf(defined) /\ Total = TotalOf(defined)
  BY JoinedIs
<1>6. Joined \in Seq(Devices) /\ Total \in Nat /\ Len(Joined) \in Nat
  BY <1>3, JoinedTyped
<1>7. ASSUME call[u].result = "toomany" PROVE Len(Joined) <= call[u].count
  BY <1>2, <1>4, <1>5, <1>7 DEF Got
<1>8. ASSUME call[u].result = "ok"
      PROVE  /\ \A s \in call[u].asked : defined[s].whole => \A d \in Range(Last(SubSeq(database[s], 1, defined[s].tag))) :
                    \E e \in Range(call[u].list) : Same(d, e)
             /\ \A i, j \in DOMAIN call[u].list :
                    i # j /\ Same(call[u].list[i], call[u].list[j]) => call[u].list[i].id # call[u].list[j].id
             /\ Len(call[u].list) <= call[u].space
  <2>1. call[u].list = Joined /\ Total <= call[u].space
    BY <1>2, <1>5, <1>8 DEF Got
  <2>2. ASSUME NEW s \in call[u].asked, defined[s].whole,
               NEW d \in Range(Last(SubSeq(database[s], 1, defined[s].tag)))
        PROVE  \E e \in Range(Joined) : Same(d, e)
    <3> DEFINE tag == defined[s].tag
               versions == database[s]
    <3>1. s \in Servers /\ tag # 0 /\ tag \in Nat /\ tag <= Len(versions) /\ versions \in Seq(Seq(Devices)) /\ Len(versions) \in Nat
          /\ (defined[s].whole => defined[s].list = versions[tag])
      BY <1>1, <1>2 DEF Got, DefinedRead, Kept, Typed
    <3> HIDE DEF tag, versions
    <3>2. Len(SubSeq(versions, 1, tag)) = tag /\ SubSeq(versions, 1, tag)[tag] = versions[tag]
      BY <3>1
    <3>3. Last(SubSeq(versions, 1, tag)) = versions[tag]
      BY <3>2 DEF Last
    <3>4. d \in Range(defined[s].list)
      BY <2>2, <3>1, <3>3 DEF tag, versions
    <3> QED BY <1>4, <3>1, <3>4
  <2>3. \A i, j \in DOMAIN Joined : i # j /\ Same(Joined[i], Joined[j]) => Joined[i].id # Joined[j].id
    BY <1>4 DEF Once, Clash
  <2>4. Len(Joined) <= call[u].space
    BY <1>1, <1>4, <1>6, <2>1
  <2> QED BY <2>1, <2>2, <2>3, <2>4
<1> QED BY <1>7, <1>8

\* The union of the lists of all servers that answered, without duplicates, in a list of
\* the length that was asked for, for every call during which no other thread refreshed a
\* server's list (get_defined_devices).
THEOREM UnionIsGot ==
    ASSUME OneOfEach
    PROVE  Spec => []DefinedUnion
<1> DEFINE IInv == PastTyped /\ Typed /\ DefinedRead /\ Apart /\ Getting
<1>1. Init => IInv
  BY ClaimsInit, TypedInit, DefinedInit, UnionInit
<1>2. IInv /\ [Next]_vars => IInv'
  BY PastNext, TypedNext, DefinedNext, ApartNext, GettingNext
<1>3. IInv => DefinedUnion
  BY UnionGot
<1> HIDE DEF IInv
<1> QED BY <1>1, <1>2, <1>3, PTL DEF Spec

=============================================================================
