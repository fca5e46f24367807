--------------------------- MODULE Registry_proofs ---------------------------
(***************************************************************************)
(* Proofs about Registry: for any number of programs, servers and ids, and *)
(* any refusals and deaths.  A copy of the configuration whose times are   *)
(* those of the file is what the file says, and no update is lost, but for *)
(* a copy that another program has outrun within one second, and values    *)
(* that cannot be read back; what a program has in memory has its types;   *)
(* and as long as it is alone, its links are the servers of the file, and  *)
(* those it adds are stored.                                               *)
(***************************************************************************)
EXTENDS Registry, Lists_proofs, FiniteSetTheorems

Keys == Ids \X {"Host", "Password"}
KeySets == {D \in SUBSET Keys : IsFiniteSet(D)}
Tables == UNION {{d \in [D -> Hosts \cup Passwords] :
                     \A k \in D : d[k] \in IF k[2] = "Host" THEN Hosts ELSE Passwords} : D \in KeySets}

Copy == [data : Tables, seen : Nat, open : BOOLEAN, writing : BOOLEAN, outrun : BOOLEAN]

\* The file and the copies: times never go back, and who writes has the lock.
FileSound ==
    /\ file \in [data : Tables, time : Nat, lock : Procs \cup {Nobody}]
    /\ now \in Nat /\ file.time <= now /\ now <= MaxTime
    /\ file.time = 0 => file.data = Empty
    /\ config \in [Procs -> Copy]
    /\ \A p \in Procs :
         /\ config[p].seen <= now
         /\ file.time = 0 => config[p].seen = 0
         /\ config[p].open <=> file.lock = p
         /\ config[p].writing => config[p].open
    /\ CopyIsFresh

\* The calls: a change is stored by the step that follows it, and only a call that
\* adds a server creates one or sets a password.
Adding == {"found", "create", "again", "password", "set"}
Sane(c) ==
    /\ DOMAIN c = DOMAIN NoCall
    /\ c.at \in Adding \/ c.then \in Adding => c.op = "add"
    /\ c.op = "add" => c.host \in Hosts /\ c.password \in Passwords

CallsSound ==
    /\ DOMAIN call = Procs
    /\ \A p \in Procs : Sane(call[p]) /\ (config[p].writing => At(p, "store"))

IInv == FileSound /\ CallsSound

-----------------------------------------------------------------------------
(* Tables.                                                                 *)

\* A program that has read nothing has a table.
LEMMA EmptyIsTable == Empty \in Tables
<1>1. Empty \in [{} -> Hosts \cup Passwords]
  BY DEF Empty
<1>2. {} \in KeySets
  BY FS_EmptySet DEF KeySets
<1> QED BY <1>1, <1>2 DEF Tables

\* What is known of a table.
LEMMA TableShape ==
    ASSUME NEW d \in Tables
    PROVE  /\ DOMAIN d \subseteq Keys /\ IsFiniteSet(DOMAIN d)
           /\ d = [k \in DOMAIN d |-> d[k]]
           /\ \A k \in DOMAIN d : d[k] \in Hosts \cup Passwords
           /\ \A k \in DOMAIN d : d[k] \in IF k[2] = "Host" THEN Hosts ELSE Passwords
  BY DEF Tables, KeySets

\* What makes a table.
LEMMA TableFrom ==
    ASSUME NEW D \in SUBSET Keys, IsFiniteSet(D), NEW d \in [D -> Hosts \cup Passwords],
           \A k \in D : d[k] \in IF k[2] = "Host" THEN Hosts ELSE Passwords
    PROVE  d \in Tables
<1>1. D \in KeySets
  BY DEF KeySets
<1> QED BY <1>1 DEF Tables

\* A part of a table is one.
LEMMA RestrictedIsTable ==
    ASSUME NEW d \in Tables, NEW D \in SUBSET DOMAIN d
    PROVE  Restrict(d, D) \in Tables
<1>1. Restrict(d, D) \in [D -> Hosts \cup Passwords] /\ D \subseteq Keys /\ \A k \in D : Restrict(d, D)[k] = d[k]
  BY TableShape DEF Restrict
<1>2. IsFiniteSet(D)
  BY TableShape, FS_Subset
<1>3. \A k \in D : Restrict(d, D)[k] \in IF k[2] = "Host" THEN Hosts ELSE Passwords
  BY <1>1, TableShape
<1> QED BY <1>1, <1>2, <1>3, TableFrom

\* load makes a table of the file.
LEMMA ParsedIsTable ==
    ASSUME NEW d \in Tables
    PROVE  Parsed(d) \in Tables
  BY RestrictedIsTable DEF Parsed

\* When every value can be read back, load loses nothing.
LEMMA ReadsAll ==
    ASSUME NEW d \in Tables, Readable(d)
    PROVE  Parsed(d) = d
<1>1. Parsed(d) = Restrict(d, DOMAIN d)
  BY DEF Parsed, Readable
<1> QED BY <1>1, TableShape DEF Restrict

\* remove_section leaves a table.
LEMMA WithoutIsTable ==
    ASSUME NEW d \in Tables, NEW id
    PROVE  WithoutSection(d, id) \in Tables
  BY RestrictedIsTable DEF WithoutSection

\* set makes a table.
LEMMA WithIsTable ==
    ASSUME NEW d \in Tables, NEW k \in Keys, NEW v \in Hosts \cup Passwords,
           v \in IF k[2] = "Host" THEN Hosts ELSE Passwords
    PROVE  With(d, k, v) \in Tables
<1>1. With(d, k, v) \in [DOMAIN d \cup {k} -> Hosts \cup Passwords] /\ DOMAIN d \cup {k} \subseteq Keys
      /\ \A l \in DOMAIN d \cup {k} : With(d, k, v)[l] = IF l = k THEN v ELSE d[l]
  BY TableShape DEF With
<1>2. IsFiniteSet(DOMAIN d \cup {k})
  BY TableShape, FS_AddElement
<1>3. \A l \in DOMAIN d \cup {k} : With(d, k, v)[l] \in IF l[2] = "Host" THEN Hosts ELSE Passwords
  BY <1>1, TableShape
<1> QED BY <1>1, <1>2, <1>3, TableFrom

-----------------------------------------------------------------------------
(* The file and the copies.                                                *)

\* A call of the configuration replaces the copy of its caller only.
LEMMA CopyReplaced ==
    ASSUME config \in [Procs -> Copy], NEW p \in Procs, NEW c \in Copy, config' = [config EXCEPT ![p] = c]
    PROVE  /\ config' \in [Procs -> Copy] /\ config'[p] = c
           /\ \A q \in Procs \ {p} : config'[q] = config[q]
  BY DEF Copy

\* What load makes of the copy.
LEMMA LoadedCopy ==
    ASSUME FileSound, NEW p \in Procs, ~config[p].writing
    PROVE  /\ Loaded(p) \in Copy
           /\ Loaded(p).open = config[p].open /\ ~Loaded(p).writing
           /\ Loaded(p).seen <= now /\ (file.time = 0 => Loaded(p).seen = 0)
           /\ Loaded(p).outrun => config[p].outrun
           /\ file.time # 0 /\ ~Loaded(p).outrun /\ Readable(file.data) => Loaded(p).data = file.data
<1>1. config[p] \in Copy /\ file.data \in Tables /\ file.time \in Nat
  BY DEF FileSound
<1>2. CASE ~Changed(p)
  BY <1>1, <1>2 DEF Loaded, FileSound, CopyIsFresh, Changed, Copy
<1>3. CASE Changed(p) /\ ~LoadOk(p)
  BY <1>1, <1>3 DEF Loaded, FileSound, LoadOk, Copy
<1>4. CASE Changed(p) /\ LoadOk(p)
  <2>1. Parsed(file.data) \in Tables /\ (Readable(file.data) => Parsed(file.data) = file.data)
    BY <1>1, ParsedIsTable, ReadsAll
  <2>2. Loaded(p) = [config[p] EXCEPT !.data = Parsed(file.data), !.seen = file.time, !.outrun = FALSE]
    BY <1>4 DEF Loaded
  <2> QED BY <1>1, <1>4, <2>1, <2>2 DEF FileSound, Copy, LoadOk
<1> QED BY <1>2, <1>3, <1>4

\* refresh and load change the copy of the reader only.
LEMMA LoadKeepsFile ==
    ASSUME FileSound, NEW p \in Procs, ~config[p].writing, Load(p)
    PROVE  /\ FileSound' /\ UNCHANGED <<file, now>>
           /\ ~config'[p].writing /\ (config'[p].outrun => config[p].outrun)
           /\ \A q \in Procs \ {p} : config'[q] = config[q]
<1>1. UNCHANGED <<file, now>> /\ config' = [config EXCEPT ![p] = Loaded(p)]
  BY DEF Load
<1>2. /\ Loaded(p) \in Copy /\ Loaded(p).open = config[p].open /\ ~Loaded(p).writing
      /\ Loaded(p).seen <= now /\ (file.time = 0 => Loaded(p).seen = 0)
      /\ Loaded(p).outrun => config[p].outrun
      /\ file.time # 0 /\ ~Loaded(p).outrun /\ Readable(file.data) => Loaded(p).data = file.data
  BY LoadedCopy
<1>3. /\ config' \in [Procs -> Copy] /\ config'[p] = Loaded(p)
      /\ \A q \in Procs \ {p} : config'[q] = config[q]
  BY <1>1, <1>2, CopyReplaced DEF FileSound
<1>4. CopyIsFresh'
  BY <1>1, <1>2, <1>3 DEF FileSound, CopyIsFresh, Readable
<1> QED BY <1>1, <1>2, <1>3, <1>4 DEF FileSound

\* The times of a write: later than all that was seen, or those the file has.
LEMMA WriteIsLater ==
    ASSUME FileSound, NEW t \in WriteTimes
    PROVE  t \in Nat \ {0} /\ now + 1 <= MaxTime /\ (t = now + 1 \/ t = file.time)
<1>1. now \in Nat /\ file.time \in Nat /\ now <= MaxTime /\ MaxTime \in Nat
  BY ConfigConstants DEF FileSound
<1>2. now # MaxTime
  BY DEF WriteTimes
<1> QED BY <1>1, <1>2 DEF WriteTimes

\* What a change starts from.
LEMMA OpenedCopy ==
    ASSUME FileSound, NEW p \in Procs, ~config[p].writing
    PROVE  /\ Opened(p) \in Tables
           /\ ~Loaded(p).outrun /\ Readable(file.data) => Opened(p) = file.data
           /\ file.time = 0 => Opened(p) = Empty
<1>1. CASE file.time = 0
  BY <1>1, EmptyIsTable DEF Opened, FileSound
<1>2. CASE file.time # 0
  BY <1>2, LoadedCopy DEF Opened, Copy
<1> QED BY <1>1, <1>2

\* open_file with the lock, and a change of the entry in the copy.
LEMMA OpenKeepsFile ==
    ASSUME FileSound, NEW p \in Procs, ~config[p].writing,
           NEW data \in Tables, NEW writing \in BOOLEAN, OpenForWrite(p, data, writing),
           ~writing => file.time # 0 /\ (~Loaded(p).outrun /\ Readable(file.data) => data = file.data)
    PROVE  /\ FileSound' /\ file'.data = file.data
           /\ config'[p].writing = writing /\ config'[p].data = data /\ config'[p].outrun = Loaded(p).outrun
           /\ \A q \in Procs \ {p} : config'[q] = config[q]
<1>1. PICK t \in IF file.time = 0 THEN WriteTimes ELSE {file.time} :
         /\ file' = [file EXCEPT !.time = t, !.lock = p]
         /\ now' = IF file.time = 0 THEN now + 1 ELSE now
         /\ config' = [config EXCEPT ![p] = [data |-> data, seen |-> t, open |-> TRUE, writing |-> writing,
                                             outrun |-> Loaded(p).outrun]]
  BY DEF OpenForWrite
<1>2. t \in Nat \ {0} /\ now \in Nat /\ now' \in Nat /\ now <= now' /\ t <= now' /\ now' <= MaxTime
      /\ (file.time # 0 => t = file.time)
  BY <1>1, WriteIsLater DEF FileSound
<1>3. /\ config' \in [Procs -> Copy]
      /\ config'[p] = [data |-> data, seen |-> t, open |-> TRUE, writing |-> writing, outrun |-> Loaded(p).outrun]
      /\ \A q \in Procs \ {p} : config'[q] = config[q]
  <2>1. [data |-> data, seen |-> t, open |-> TRUE, writing |-> writing, outrun |-> Loaded(p).outrun] \in Copy
    BY <1>2, LoadedCopy DEF Copy
  <2> QED BY <1>1, <2>1, CopyReplaced DEF FileSound
<1>4. /\ file' \in [data : Tables, time : Nat, lock : Procs \cup {Nobody}]
      /\ file'.data = file.data /\ file'.time = t /\ file'.lock = p
  BY <1>1, <1>2 DEF FileSound
<1>5. ASSUME NEW q \in Procs \ {p}
      PROVE  ~config[q].open /\ file.lock # q
  BY <1>5, ConfigConstants DEF OpenForWrite, CanOpen, FileSound
<1>6. \A q \in Procs : /\ config'[q].seen <= now'
                       /\ config'[q].open <=> file'.lock = q
                       /\ config'[q].writing => config'[q].open
  <2> SUFFICES ASSUME NEW q \in Procs
               PROVE  /\ config'[q].seen <= now'
                      /\ config'[q].open <=> file'.lock = q
                      /\ config'[q].writing => config'[q].open
    OBVIOUS
  <2>1. CASE q = p
    BY <1>2, <1>3, <1>4, <2>1
  <2>2. CASE q # p
    <3>1. config'[q] = config[q] /\ config[q] \in Copy /\ config[q].seen <= now
          /\ (config[q].writing => config[q].open)
      BY <1>3, <2>2 DEF FileSound
    <3>2. config'[q].seen <= now'
      BY <1>2, <3>1 DEF Copy
    <3> QED BY <1>4, <1>5, <2>2, <3>1, <3>2
  <2> QED BY <2>1, <2>2
<1>7. CopyIsFresh'
  <2> SUFFICES ASSUME NEW q \in Procs, config'[q].seen = file'.time, ~config'[q].writing,
                      ~config'[q].outrun, Readable(file.data)
               PROVE  config'[q].data = file'.data
    BY <1>4 DEF CopyIsFresh, Readable
  <2>1. CASE q = p
    BY <1>3, <1>4, <2>1
  <2>2. CASE q # p
    <3>1. config'[q] = config[q] /\ (file.time = 0 => config[q].seen = 0)
      BY <1>3, <2>2 DEF FileSound
    <3>2. file.time # 0 /\ t = file.time
      BY <1>2, <1>4, <3>1
    <3> QED BY <1>4, <3>1, <3>2 DEF FileSound, CopyIsFresh
  <2> QED BY <2>1, <2>2
<1> QED BY <1>2, <1>3, <1>4, <1>6, <1>7 DEF FileSound

\* store and close_file: the file becomes the copy, and a copy of another process that
\* has its new times is outrun.
LEMMA StoreKeepsFile ==
    ASSUME FileSound, NEW p \in Procs, Store(p)
    PROVE  /\ FileSound' /\ file'.data = config[p].data
           /\ ~config'[p].writing /\ ~config'[p].outrun
           /\ \A q \in Procs \ {p} : ~config'[q].writing /\ ~config[q].writing /\ config'[q].data = config[q].data
<1>1. PICK t \in WriteTimes :
         /\ now' = now + 1 /\ file' = [data |-> config[p].data, time |-> t, lock |-> Nobody]
         /\ config' = [q \in Procs |->
              IF q = p THEN [config[q] EXCEPT !.open = FALSE, !.writing = FALSE, !.outrun = FALSE]
              ELSE [config[q] EXCEPT !.outrun = config[q].seen = t]]
  BY DEF Store, StoreWith
<1>2. config[p].writing
  BY DEF Store, StoreWith
<1>3. /\ config[p] \in Copy /\ now \in Nat /\ t \in Nat \ {0} /\ now + 1 <= MaxTime
      /\ t <= now + 1
  <2>1. t \in Nat \ {0} /\ now + 1 <= MaxTime /\ (t = now + 1 \/ t = file.time)
    BY <1>1, WriteIsLater
  <2>2. config[p] \in Copy /\ now \in Nat /\ file.time \in Nat /\ file.time <= now
    BY DEF FileSound
  <2> QED BY <2>1, <2>2
<1>4. /\ config' \in [Procs -> Copy] /\ ~config'[p].writing /\ ~config'[p].open /\ ~config'[p].outrun
      /\ config'[p].seen = config[p].seen /\ config'[p].data = config[p].data
      /\ \A q \in Procs \ {p} : /\ config'[q].data = config[q].data /\ config'[q].seen = config[q].seen
                                 /\ config'[q].open = config[q].open /\ config'[q].writing = config[q].writing
                                 /\ config'[q].outrun = (config[q].seen = t)
  <2>1. ASSUME NEW q \in Procs
        PROVE  config[q] \in Copy /\ (config[q].seen = t) \in BOOLEAN
    BY DEF FileSound
  <2>2. [config[p] EXCEPT !.open = FALSE, !.writing = FALSE, !.outrun = FALSE] \in Copy
    BY <2>1 DEF Copy
  <2>3. ASSUME NEW q \in Procs
        PROVE  [config[q] EXCEPT !.outrun = config[q].seen = t] \in Copy
    BY <2>1 DEF Copy
  <2>4. config' \in [Procs -> Copy]
    BY <1>1, <2>2, <2>3
  <2> QED BY <1>1, <2>1, <2>4 DEF Copy
<1>5. file.lock = p
  BY <1>2 DEF FileSound
<1>6. \A q \in Procs \ {p} : ~config[q].open /\ ~config[q].writing
  BY <1>5 DEF FileSound
<1>7. /\ file' \in [data : Tables, time : Nat, lock : Procs \cup {Nobody}]
      /\ file'.data = config[p].data /\ file'.time = t /\ file'.lock = Nobody /\ now' = now + 1
  BY <1>1, <1>3 DEF Copy
<1>8. \A q \in Procs : /\ config'[q].seen <= now /\ config'[q].seen \in Nat
                       /\ ~config'[q].open /\ ~config'[q].writing
  <2> SUFFICES ASSUME NEW q \in Procs
               PROVE  /\ config'[q].seen <= now /\ config'[q].seen \in Nat
                      /\ ~config'[q].open /\ ~config'[q].writing
    OBVIOUS
  <2>1. config[q].seen <= now /\ config[q].seen \in Nat
    BY DEF FileSound, Copy
  <2> QED BY <1>4, <1>6, <2>1
<1>9. CopyIsFresh'
  BY <1>4, <1>7 DEF CopyIsFresh
<1>10. \A q \in Procs : /\ config'[q].seen <= now'
                        /\ config'[q].open <=> file'.lock = q
                        /\ config'[q].writing => config'[q].open
  BY <1>3, <1>7, <1>8, ConfigConstants
<1>11. file'.time <= now' /\ now' \in Nat /\ now' <= MaxTime /\ file'.time # 0
  BY <1>3, <1>7
<1>12. \A q \in Procs \ {p} : ~config'[q].writing /\ ~config[q].writing /\ config'[q].data = config[q].data
  BY <1>4, <1>6
<1> QED BY <1>4, <1>7, <1>9, <1>10, <1>11, <1>12 DEF FileSound

\* A program that ends gives its lock of the file and its copy away.
LEMMA ExitKeepsFile ==
    ASSUME FileSound, NEW p \in Procs, Exit(p)
    PROVE  /\ FileSound' /\ file'.data = file.data
           /\ ~config'[p].writing /\ ~config'[p].outrun
           /\ \A q \in Procs \ {p} : config'[q] = config[q]
<1>1. NoCopy \in Copy
  BY EmptyIsTable DEF NoCopy, Copy
<1>2. /\ config' \in [Procs -> Copy] /\ config'[p] = NoCopy
      /\ \A q \in Procs \ {p} : config'[q] = config[q]
  BY <1>1, CopyReplaced DEF Exit, FileSound
<1>3. /\ file' \in [data : Tables, time : Nat, lock : Procs \cup {Nobody}]
      /\ file'.data = file.data /\ file'.time = file.time /\ now' = now
      /\ file'.lock = IF file.lock = p THEN Nobody ELSE file.lock
  BY DEF Exit, FileSound
<1>4. \A q \in Procs : /\ config'[q].seen <= now' /\ (file'.time = 0 => config'[q].seen = 0)
                       /\ config'[q].open <=> file'.lock = q
                       /\ config'[q].writing => config'[q].open
  <2> SUFFICES ASSUME NEW q \in Procs
               PROVE  /\ config'[q].seen <= now' /\ (file'.time = 0 => config'[q].seen = 0)
                      /\ config'[q].open <=> file'.lock = q
                      /\ config'[q].writing => config'[q].open
    OBVIOUS
  <2>1. CASE q = p
    BY <1>2, <1>3, <2>1, ConfigConstants DEF NoCopy, FileSound
  <2>2. CASE q # p
    BY <1>2, <1>3, <2>2, ConfigConstants DEF FileSound
  <2> QED BY <2>1, <2>2
<1>5. CopyIsFresh'
  <2> SUFFICES ASSUME NEW q \in Procs, file'.time # 0, config'[q].seen = file'.time, ~config'[q].writing,
                      ~config'[q].outrun, Readable(file.data)
               PROVE  config'[q].data = file'.data
    BY <1>3 DEF CopyIsFresh, Readable
  <2>1. q # p
    BY <1>2, <1>3 DEF NoCopy
  <2> QED BY <1>2, <1>3, <2>1 DEF FileSound, CopyIsFresh
<1> QED BY <1>2, <1>3, <1>4, <1>5 DEF FileSound, NoCopy

-----------------------------------------------------------------------------
(* The calls.                                                              *)

\* Goto changes the call of its process only.
LEMMA CallMoves ==
    ASSUME CallsSound, NEW p \in Procs, NEW c, Goto(p, c), Sane(c),
           config'[p].writing => c.at = "store",
           \A q \in Procs \ {p} : config'[q].writing => config[q].writing
    PROVE  CallsSound'
<1>1. /\ DOMAIN call' = Procs /\ call'[p] = c
      /\ \A q \in Procs \ {p} : call'[q] = call[q]
  BY DEF CallsSound, Goto
<1> QED BY <1>1 DEF CallsSound, At, Sane

\* A step that does not change the configuration, of a call that has nothing to store.
LEMMA ReadOnly ==
    ASSUME IInv, NEW p \in Procs, ~At(p, "store"), Load(p) \/ UNCHANGED <<file, now, config>>,
           NEW c, Goto(p, c), Sane(c)
    PROVE  IInv' /\ file' = file /\ \A q \in Procs : config'[q].writing => config'[q] = config[q]
<1>1. ~config[p].writing
  BY DEF IInv, CallsSound
<1>2. /\ FileSound' /\ UNCHANGED <<file, now>>
      /\ ~config'[p].writing
      /\ \A q \in Procs \ {p} : config'[q] = config[q]
  <2>1. CASE Load(p)
    BY <1>1, <2>1, LoadKeepsFile DEF IInv
  <2>2. CASE UNCHANGED <<file, now, config>>
    BY <1>1, <2>2 DEF IInv, FileSound, CopyIsFresh, Readable
  <2> QED BY <2>1, <2>2
<1>3. CallsSound'
  BY <1>2, CallMoves DEF IInv
<1> QED BY <1>2, <1>3 DEF IInv

\* What the steps of update_servers and the looking up of servers have in common.
Reads(p) == UpdateLocal(p) \/ Sweep(p) \/ Section(p) \/ AddLink(p) \/ List(p) \/ AddRemoteServer(p)
            \/ Again(p) \/ CheckPassword(p) \/ Return(p)

Same(c, d) == DOMAIN d = DOMAIN c /\ d.op = c.op /\ d.host = c.host /\ d.password = c.password

\* A call stays sane on its way.
LEMMA SaneMoves ==
    ASSUME NEW c, NEW d, Sane(c), Same(c, d),
           d.at \in Adding => c.at \in Adding \/ c.then \in Adding,
           d.then \in Adding => c.at \in Adding \/ c.then \in Adding
    PROVE  Sane(d)
  BY DEF Sane, Same

\* A process without a call.
LEMMA NoCallSane == Sane(NoCall) /\ NoCall.at \notin Adding /\ NoCall.then \notin Adding
  BY DEF Sane, NoCall, Adding

\* update_servers, its first step: where it goes, and that it does not write.
LEMMA UpdateLocalGoes ==
    ASSUME IInv, NEW p \in Procs, UpdateLocal(p)
    PROVE  /\ ~At(p, "store") /\ (Load(p) \/ UNCHANGED <<file, now, config>>)
           /\ \E c : Goto(p, c) /\ Sane(c)
<1> DEFINE c == [call[p] EXCEPT !.at = "sweep", !.link = Len(links'[p])]
<1>1. Sane(call[p])
  BY DEF IInv, CallsSound
<1>2. Same(call[p], c) /\ c.at = "sweep" /\ c.then = call[p].then
  BY <1>1 DEF Same, Sane, NoCall
<1>3. Sane(c)
  <2> HIDE DEF c
  <2> QED BY <1>1, <1>2, SaneMoves DEF Adding
<1>4. Goto(p, c)
  BY DEF UpdateLocal
<1> HIDE DEF c
<1> QED BY <1>3, <1>4 DEF UpdateLocal, At

\* update_servers, the servers that are no longer in the file.
LEMMA SweepGoes ==
    ASSUME IInv, NEW p \in Procs, Sweep(p)
    PROVE  /\ ~At(p, "store") /\ (Load(p) \/ UNCHANGED <<file, now, config>>)
           /\ \E c : Goto(p, c) /\ Sane(c)
<1>1. Sane(call[p])
  BY DEF IInv, CallsSound
<1>2. PICK n : Goto(p, [call[p] EXCEPT !.link = n])
  BY DEF Sweep
<1> DEFINE c == [call[p] EXCEPT !.link = n]
<1>3. Same(call[p], c) /\ c.at = call[p].at /\ c.then = call[p].then
  BY <1>1 DEF Same, Sane, NoCall
<1>4. Sane(c)
  <2> HIDE DEF c
  <2> QED BY <1>1, <1>3, SaneMoves
<1> HIDE DEF c
<1>5. Goto(p, c)
  BY <1>2 DEF c
<1> QED BY <1>4, <1>5 DEF Sweep, At

\* update_servers, the next section.
LEMMA SectionGoes ==
    ASSUME IInv, NEW p \in Procs, Section(p)
    PROVE  /\ ~At(p, "store") /\ (Load(p) \/ UNCHANGED <<file, now, config>>)
           /\ \E c : Goto(p, c) /\ Sane(c)
<1>1. Sane(call[p])
  BY DEF IInv, CallsSound
<1>2. ~At(p, "store") /\ (Load(p) \/ UNCHANGED <<file, now, config>>)
  BY DEF Section, At
<1> DEFINE b(m) == [call[p] EXCEPT !.link = 0, !.next = m]
<1>3. PICK m, n, k : \/ Goto(p, [b(m) EXCEPT !.at = b(m).then, !.then = "idle", !.place = 0, !.next = n])
                     \/ Goto(p, [b(m) EXCEPT !.at = "sections", !.place = k])
                     \/ \E i : Goto(p, [b(m) EXCEPT !.at = "host", !.place = k, !.section = i, !.next = n])
  BY DEF Section, AddTemporaries
<1>4. Sane(b(m)) /\ b(m).at = call[p].at /\ b(m).then = call[p].then
  <2>1. Same(call[p], b(m)) /\ b(m).at = call[p].at /\ b(m).then = call[p].then
    BY <1>1 DEF Same, Sane, NoCall
  <2> HIDE DEF b
  <2> QED BY <1>1, <2>1, SaneMoves
<1> HIDE DEF b
<1>5. CASE Goto(p, [b(m) EXCEPT !.at = b(m).then, !.then = "idle", !.place = 0, !.next = n])
  <2> DEFINE c == [b(m) EXCEPT !.at = b(m).then, !.then = "idle", !.place = 0, !.next = n]
  <2>1. Same(b(m), c) /\ c.at = b(m).then /\ c.then = "idle"
    BY <1>4 DEF Same, Sane, NoCall
  <2>2. Sane(c)
    <3> HIDE DEF c
    <3> QED BY <1>4, <2>1, SaneMoves DEF Adding
  <2> QED BY <1>2, <1>5, <2>2
<1>6. CASE Goto(p, [b(m) EXCEPT !.at = "sections", !.place = k])
  <2> DEFINE c == [b(m) EXCEPT !.at = "sections", !.place = k]
  <2>1. Same(b(m), c) /\ c.at = "sections" /\ c.then = b(m).then
    BY <1>4 DEF Same, Sane, NoCall
  <2>2. Sane(c)
    <3> HIDE DEF c
    <3> QED BY <1>4, <2>1, SaneMoves DEF Adding
  <2> QED BY <1>2, <1>6, <2>2
<1>7. ASSUME NEW i, Goto(p, [b(m) EXCEPT !.at = "host", !.place = k, !.section = i, !.next = n])
      PROVE  \E c : Goto(p, c) /\ Sane(c)
  <2> DEFINE c == [b(m) EXCEPT !.at = "host", !.place = k, !.section = i, !.next = n]
  <2>1. Same(b(m), c) /\ c.at = "host" /\ c.then = b(m).then
    BY <1>4 DEF Same, Sane, NoCall
  <2>2. Sane(c)
    <3> HIDE DEF c
    <3> QED BY <1>4, <2>1, SaneMoves DEF Adding
  <2> QED BY <1>7, <2>2
<1> QED BY <1>2, <1>3, <1>5, <1>6, <1>7

\* Steps that set the place of a call, and numbers nobody asks about here.
LEMMA MovesOn ==
    ASSUME IInv, NEW p \in Procs, NEW c, Goto(p, c), Same(call[p], c),
           c.at \in Adding => call[p].at \in Adding \/ call[p].then \in Adding,
           c.then \in Adding => call[p].at \in Adding \/ call[p].then \in Adding
    PROVE  \E d : Goto(p, d) /\ Sane(d)
  BY SaneMoves DEF IInv, CallsSound

\* Every call begins with update_servers.
LEMMA UpdateMoves ==
    ASSUME NEW c, Sane(c), NEW then
    PROVE  Same(c, Update(c, then)) /\ Update(c, then).at = "local" /\ Update(c, then).then = then
  BY DEF Same, Sane, Update, NoCall

\* The steps that only read, or only change the links.
LEMMA ReadsGo ==
    ASSUME IInv, NEW p \in Procs, Reads(p)
    PROVE  /\ ~At(p, "store") /\ (Load(p) \/ UNCHANGED <<file, now, config>>)
           /\ \E c : Goto(p, c) /\ Sane(c)
<1>1. Sane(call[p])
  BY DEF IInv, CallsSound
<1>2. CASE AddLink(p)
  <2> DEFINE c == [call[p] EXCEPT !.at = "sections", !.section = 0]
  <2>1. Same(call[p], c) /\ c.at = "sections" /\ c.then = call[p].then
    BY <1>1 DEF Same, Sane, NoCall
  <2>2. Goto(p, c) /\ Load(p) /\ ~At(p, "store")
    BY <1>2 DEF AddLink, At
  <2> HIDE DEF c
  <2> QED BY <2>1, <2>2, MovesOn DEF Adding
<1>3. CASE List(p)
  <2> DEFINE c == Update([NoCall EXCEPT !.op = "list"], "done")
  <2>1. Sane(c)
    BY DEF Sane, NoCall, Update, Adding
  <2>2. Goto(p, c) /\ UNCHANGED <<file, now, config>> /\ ~At(p, "store")
    BY <1>3 DEF List, Begin, At
  <2> QED BY <2>1, <2>2
<1>4. CASE AddRemoteServer(p)
  <2>1. PICK r \in Requests[p] :
          Goto(p, Update([NoCall EXCEPT !.op = "add", !.host = r.host, !.password = r.password,
                                        !.temporary = r.temporary], "found"))
    BY <1>4 DEF AddRemoteServer, Begin
  <2>2. r.host \in Hosts /\ r.password \in Passwords
    BY RegistryConstants
  <2> DEFINE c == Update([NoCall EXCEPT !.op = "add", !.host = r.host, !.password = r.password,
                                        !.temporary = r.temporary], "found")
  <2>3. Sane(c)
    BY <2>2 DEF Sane, NoCall, Update, Adding
  <2>4. UNCHANGED <<file, now, config>> /\ ~At(p, "store")
    BY <1>4 DEF AddRemoteServer, Begin, At
  <2> QED BY <2>1, <2>3, <2>4
<1>5. CASE Again(p)
  <2>1. ~At(p, "store") /\ UNCHANGED <<file, now, config>> /\ call[p].at \in Adding
    BY <1>5 DEF Again, At, Adding
  <2>2. PICK i : Goto(p, Update(call[p], "create")) \/ Goto(p, [call[p] EXCEPT !.at = "password", !.id = i])
    BY <1>5 DEF Again
  <2>3. CASE Goto(p, Update(call[p], "create"))
    BY <1>1, <2>1, <2>3, UpdateMoves, MovesOn DEF Adding
  <2>4. CASE Goto(p, [call[p] EXCEPT !.at = "password", !.id = i])
    <3> DEFINE c == [call[p] EXCEPT !.at = "password", !.id = i]
    <3>1. Same(call[p], c) /\ c.then = call[p].then /\ Goto(p, c)
      BY <1>1, <2>4 DEF Same, Sane, NoCall
    <3> HIDE DEF c
    <3> QED BY <2>1, <3>1, MovesOn
  <2> QED BY <2>1, <2>2, <2>3, <2>4
<1>6. CASE CheckPassword(p)
  <2>1. ~At(p, "store") /\ Load(p) /\ call[p].at \in Adding
    BY <1>6 DEF CheckPassword, At, Adding
  <2>2. PICK at : Goto(p, [call[p] EXCEPT !.next = 1, !.retry = 0, !.at = at])
    BY <1>6 DEF CheckPassword
  <2> DEFINE c == [call[p] EXCEPT !.next = 1, !.retry = 0, !.at = at]
  <2>3. Same(call[p], c) /\ c.then = call[p].then /\ Goto(p, c)
    BY <1>1, <2>2 DEF Same, Sane, NoCall
  <2> HIDE DEF c
  <2> QED BY <2>1, <2>3, MovesOn
<1>7. CASE Return(p)
  BY <1>7, NoCallSane DEF Return, At
<1> QED BY <1>2, <1>3, <1>4, <1>5, <1>6, <1>7, UpdateLocalGoes, SweepGoes, SectionGoes DEF Reads

\* The end of a process.
LEMMA EndsKeeps ==
    ASSUME IInv, NEW p \in Procs, Ends(p)
    PROVE  IInv' /\ file'.data = file.data /\ \A q \in Procs : config'[q].writing => config'[q] = config[q]
<1>1. /\ FileSound' /\ file'.data = file.data /\ ~config'[p].writing
      /\ \A q \in Procs \ {p} : config'[q] = config[q]
  BY ExitKeepsFile DEF Ends, IInv
<1>2. CallsSound'
  BY <1>1, NoCallSane, CallMoves DEF IInv, Ends
<1> QED BY <1>1, <1>2 DEF IInv

\* find_server.
LEMMA FoundGoes ==
    ASSUME IInv, NEW p \in Procs, Found(p), ~Ends(p)
    PROVE  /\ ~At(p, "store") /\ UNCHANGED <<file, now, config>>
           /\ \E c : Goto(p, c) /\ Sane(c)
<1>1. Sane(call[p])
  BY DEF IInv, CallsSound
<1>2. ~At(p, "store") /\ call[p].at \in Adding
  BY DEF Found, At, Adding
<1>3. PICK i : /\ UNCHANGED <<file, now, config>>
               /\ \/ Goto(p, Update(call[p], "create")) \/ Goto(p, Update(call[p], "done"))
                  \/ Goto(p, [call[p] EXCEPT !.at = "password", !.id = i])
  <2> DEFINE i == FindServer(p, call[p].host)
             isTemporary == i # NoLink /\ links[p][i + 1].id = Temporary
  <2>1. \/ isTemporary /\ ~call[p].temporary
        \/ i # NoLink /\ ~isTemporary
        \/ i = NoLink /\ ~call[p].temporary
        \/ call[p].temporary /\ (i = NoLink \/ isTemporary)
    OBVIOUS
  <2> QED BY <2>1 DEF Found
<1>4. CASE Goto(p, Update(call[p], "create")) \/ Goto(p, Update(call[p], "done"))
  BY <1>1, <1>2, <1>3, <1>4, UpdateMoves, MovesOn DEF Adding
<1>5. CASE Goto(p, [call[p] EXCEPT !.at = "password", !.id = i])
  <2> DEFINE c == [call[p] EXCEPT !.at = "password", !.id = i]
  <2>1. Same(call[p], c) /\ c.then = call[p].then /\ Goto(p, c)
    BY <1>1, <1>5 DEF Same, Sane, NoCall
  <2> HIDE DEF c
  <2> QED BY <1>2, <1>3, <2>1, MovesOn
<1> QED BY <1>3, <1>4, <1>5

\* A change of the configuration: the call goes on at store.
LEMMA ChangeKeeps ==
    ASSUME IInv, NEW p \in Procs, ~At(p, "store"), NEW data \in Tables, Change(p, data),
           NEW c, Goto(p, c), Sane(c), c.at = "store"
    PROVE  /\ IInv' /\ file'.data = file.data /\ config'[p].data = data
           /\ config'[p].outrun = Loaded(p).outrun
           /\ \A q \in Procs \ {p} : config'[q] = config[q]
<1>1. ~config[p].writing
  BY DEF IInv, CallsSound
<1>2. /\ FileSound' /\ file'.data = file.data /\ config'[p].data = data
      /\ config'[p].outrun = Loaded(p).outrun
      /\ \A q \in Procs \ {p} : config'[q] = config[q]
  BY <1>1, OpenKeepsFile DEF Change, IInv
<1>3. CallsSound'
  BY <1>2, CallMoves DEF IInv
<1> QED BY <1>2, <1>3 DEF IInv

\* What may happen to the table that p is about to write.
Changes(p, data) ==
    \/ \E id \in Ids, host \in Hosts :
         <<id, "Host">> \notin DOMAIN Opened(p) /\ data = With(Opened(p), <<id, "Host">>, host)
    \/ \E id \in Ids, password \in Passwords : data = With(Opened(p), <<id, "Password">>, password)
    \/ \E id : data = WithoutSection(Opened(p), id)

\* A change leads from a table to a table.
LEMMA ChangesTable ==
    ASSUME IInv, NEW p \in Procs, ~At(p, "store"), NEW data, Changes(p, data)
    PROVE  data \in Tables
<1>1. Opened(p) \in Tables
  BY OpenedCopy, ParsedIsTable DEF IInv, CallsSound
<1> QED BY <1>1, WithIsTable, WithoutIsTable DEF Changes, Keys

\* The changes a program makes, and the refusals it meets.
LEMMA CreateGoes ==
    ASSUME IInv, NEW p \in Procs, Create(p)
    PROVE  /\ ~At(p, "store")
           /\ \E c : /\ Goto(p, c) /\ Sane(c)
                    /\ \/ c.at = "store" /\ \E data : Changes(p, data) /\ Change(p, data)
                       \/ \E key : CreateRefused(p, key)
                       \/ UNCHANGED <<file, now, config>>
<1>1. Sane(call[p]) /\ ~At(p, "store") /\ call[p].at \in Adding
  BY DEF IInv, CallsSound, Create, At, Adding
<1>2. call[p].host \in Hosts /\ call[p].next \in Ids
  BY <1>1 DEF Sane, Create
<1> DEFINE c == call[p]
           key == <<c.next, "Host">>
<1>3. CASE key \notin DOMAIN Opened(p) /\ Change(p, With(Opened(p), key, c.host)) /\ Goto(p, Created(c))
  <2>1. Same(c, Created(c)) /\ Created(c).at = "store" /\ Created(c).then = "password"
    BY <1>1 DEF Same, Sane, NoCall, Created
  <2>2. Sane(Created(c))
    BY <1>1, <2>1, SaneMoves DEF Adding
  <2>3. Changes(p, With(Opened(p), key, c.host))
    BY <1>2, <1>3 DEF Changes
  <2> QED BY <1>1, <1>3, <2>1, <2>2, <2>3
<1>4. Sane(TryAgain(c))
  <2>1. CASE c.retry >= MaxRetry
    <3> DEFINE d == [c EXCEPT !.at = "error"]
    <3>1. Same(c, d) /\ d.at = "error" /\ d.then = c.then
      BY <1>1 DEF Same, Sane, NoCall
    <3>2. TryAgain(c) = d
      BY <2>1 DEF TryAgain
    <3> HIDE DEF d
    <3> QED BY <1>1, <3>1, <3>2, SaneMoves DEF Adding
  <2>2. CASE ~(c.retry >= MaxRetry)
    <3> DEFINE d == [c EXCEPT !.retry = @ + 1]
    <3>1. Same(c, d) /\ d.at = c.at /\ d.then = c.then
      BY <1>1 DEF Same, Sane, NoCall
    <3>2. TryAgain(c) = Update(d, "again")
      BY <2>2 DEF TryAgain
    <3> HIDE DEF d
    <3>3. Sane(d)
      BY <1>1, <3>1, SaneMoves
    <3> QED BY <1>1, <3>1, <3>2, <3>3, UpdateMoves, SaneMoves DEF Adding
  <2> QED BY <2>1, <2>2
<1> HIDE DEF c, key
<1>5. \/ key \notin DOMAIN Opened(p) /\ Change(p, With(Opened(p), key, c.host)) /\ Goto(p, Created(c))
      \/ CreateRefused(p, key) /\ Goto(p, TryAgain(c))
      \/ Goto(p, TryAgain(c)) /\ UNCHANGED <<file, now, config>>
  BY DEF Create, c, key
<1> QED BY <1>1, <1>3, <1>4, <1>5

\* add_remote_server, the password.
LEMMA SetPasswordGoes ==
    ASSUME IInv, NEW p \in Procs, SetPassword(p)
    PROVE  /\ ~At(p, "store")
           /\ \E c : /\ Goto(p, c) /\ Sane(c)
                    /\ \/ c.at = "store" /\ \E data : Changes(p, data) /\ Change(p, data)
                       \/ UNCHANGED <<file, now, config>>
<1>1. Sane(call[p]) /\ ~At(p, "store") /\ call[p].at \in Adding
  BY DEF IInv, CallsSound, SetPassword, At, Adding
<1>2. call[p].password \in Passwords /\ call[p].id \in Ids
  BY <1>1 DEF Sane, SetPassword
<1>3. CASE /\ Change(p, With(Opened(p), <<call[p].id, "Password">>, call[p].password))
           /\ Goto(p, [call[p] EXCEPT !.at = "store", !.then = "update"])
  <2> DEFINE c == [call[p] EXCEPT !.at = "store", !.then = "update"]
  <2>1. Same(call[p], c) /\ c.at = "store" /\ c.then = "update" /\ Goto(p, c)
    BY <1>1, <1>3 DEF Same, Sane, NoCall
  <2> HIDE DEF c
  <2>2. Sane(c)
    BY <1>1, <2>1, SaneMoves DEF Adding
  <2>3. Changes(p, With(Opened(p), <<call[p].id, "Password">>, call[p].password))
    BY <1>2 DEF Changes
  <2> QED BY <1>1, <1>3, <2>1, <2>2, <2>3
<1>4. CASE Goto(p, [call[p] EXCEPT !.at = "error"]) /\ UNCHANGED <<file, now, config>>
  <2> DEFINE c == [call[p] EXCEPT !.at = "error"]
  <2>1. Same(call[p], c) /\ c.at = "error" /\ c.then = call[p].then /\ Goto(p, c)
    BY <1>1, <1>4 DEF Same, Sane, NoCall
  <2> HIDE DEF c
  <2>2. Sane(c)
    BY <1>1, <2>1, SaneMoves DEF Adding
  <2> QED BY <1>1, <1>4, <2>1, <2>2
<1> QED BY <1>3, <1>4 DEF SetPassword

\* remove_remote_server.
LEMMA RemoveGoes ==
    ASSUME IInv, NEW p \in Procs, RemoveRemoteServer(p)
    PROVE  /\ ~At(p, "store")
           /\ \E c : /\ Goto(p, c) /\ Sane(c)
                    /\ \/ c.at = "store" /\ \E data : Changes(p, data) /\ Change(p, data)
                       \/ UNCHANGED <<file, now, config>>
<1> DEFINE stored == [NoCall EXCEPT !.op = "remove", !.at = "store", !.then = "done"]
           over == [NoCall EXCEPT !.op = "remove", !.at = "done"]
<1>1. /\ At(p, "idle")
      /\ \/ Goto(p, stored) /\ \E id : Change(p, WithoutSection(Opened(p), id))
         \/ Goto(p, over) /\ UNCHANGED <<file, now, config>>
  BY DEF RemoveRemoteServer, Begin
<1>2. Sane(stored) /\ stored.at = "store" /\ Sane(over)
  BY DEF Sane, NoCall, Adding
<1> HIDE DEF stored, over
<1>3. ~At(p, "store")
  BY <1>1 DEF At
<1>4. ASSUME NEW id PROVE Changes(p, WithoutSection(Opened(p), id))
  BY DEF Changes
<1> QED BY <1>1, <1>2, <1>3, <1>4

\* add_remote_server when the id has been taken meanwhile: the file is closed unchanged.
LEMMA RefusedKeeps ==
    ASSUME IInv, NEW p \in Procs, ~At(p, "store"), NEW key, CreateRefused(p, key),
           NEW c, Goto(p, c), Sane(c)
    PROVE  /\ IInv' /\ file'.data = file.data
           /\ \A q \in Procs : config'[q].writing => config'[q] = config[q]
<1>1. ~config[p].writing
  BY DEF IInv, CallsSound
<1>2. /\ Opened(p) \in Tables
      /\ ~Loaded(p).outrun /\ Readable(file.data) => Opened(p) = file.data
      /\ file.time = 0 => Opened(p) = Empty
  BY <1>1, OpenedCopy DEF IInv
<1>3. key \in DOMAIN Opened(p) /\ OpenForWrite(p, Opened(p), FALSE)
  BY DEF CreateRefused
<1>4. file.time # 0
  BY <1>2, <1>3 DEF Empty
<1>5. /\ FileSound' /\ file'.data = file.data /\ ~config'[p].writing
      /\ \A q \in Procs \ {p} : config'[q] = config[q]
  BY <1>1, <1>2, <1>3, <1>4, OpenKeepsFile DEF IInv
<1>6. CallsSound'
  BY <1>5, CallMoves DEF IInv
<1> QED BY <1>5, <1>6 DEF IInv

\* The step that stores.
LEMMA StoreCallKeeps ==
    ASSUME IInv, NEW p \in Procs, StoreCall(p)
    PROVE  /\ IInv' /\ file'.data = config[p].data /\ config[p].writing
           /\ \A q \in Procs : ~config'[q].writing
<1>1. /\ FileSound' /\ file'.data = config[p].data
      /\ ~config'[p].writing
      /\ \A q \in Procs \ {p} : ~config'[q].writing
  BY StoreKeepsFile DEF StoreCall, IInv
<1>2. Sane(call[p])
  BY DEF IInv, CallsSound
<1>3. \E c : Goto(p, c) /\ Sane(c)
  <2>1. CASE Goto(p, Update(call[p], "done"))
    BY <1>2, <2>1, UpdateMoves, SaneMoves DEF Adding
  <2>2. CASE Goto(p, [call[p] EXCEPT !.at = call[p].then, !.then = "idle"])
    <3> DEFINE c == [call[p] EXCEPT !.at = call[p].then, !.then = "idle"]
    <3>1. Same(call[p], c) /\ c.at = call[p].then /\ c.then = "idle" /\ Goto(p, c)
      BY <1>2, <2>2 DEF Same, Sane, NoCall
    <3> HIDE DEF c
    <3> QED BY <1>2, <3>1, SaneMoves DEF Adding
  <2> QED BY <2>1, <2>2 DEF StoreCall
<1>4. CallsSound'
  BY <1>1, <1>3, CallMoves DEF IInv
<1> QED BY <1>1, <1>4 DEF IInv, StoreCall, Store, StoreWith

\* A step of p either stores what it has changed; or begins a change; or does neither.
Stores(p) ==
    /\ config[p].writing /\ file'.data = config[p].data
    /\ \A q \in Procs : ~config'[q].writing
Begins(p) ==
    /\ file'.data = file.data /\ Changes(p, config'[p].data) /\ ~config[p].writing
    /\ config'[p].outrun = Loaded(p).outrun
    /\ \A q \in Procs \ {p} : config'[q] = config[q]
Neither ==
    /\ file'.data = file.data
    /\ \A q \in Procs : config'[q].writing => config'[q] = config[q]

\* Every step of a process keeps the invariant, and stores, begins a change, or does neither.
LEMMA StepOfProcess ==
    ASSUME IInv, Next
    PROVE  IInv' /\ \E p \in Procs : Stores(p) \/ Begins(p) \/ Neither
<1>1. PICK p \in Procs : \/ Reads(p) \/ Found(p) \/ Create(p) \/ SetPassword(p) \/ RemoveRemoteServer(p)
                        \/ StoreCall(p) \/ Killed(p)
  BY DEF Next, Reads
<1>2. CASE Reads(p)
  BY <1>2, ReadsGo, ReadOnly DEF Neither
<1>3. CASE Ends(p)
  BY <1>3, EndsKeeps DEF Neither
<1>4. CASE Found(p) /\ ~Ends(p)
  BY <1>4, FoundGoes, ReadOnly DEF Neither
<1>5. CASE Create(p) \/ SetPassword(p) \/ RemoveRemoteServer(p)
  <2>1. ~At(p, "store")
    BY <1>5, CreateGoes, SetPasswordGoes, RemoveGoes
  <2>2. PICK c : /\ Goto(p, c) /\ Sane(c)
                 /\ \/ c.at = "store" /\ \E data : Changes(p, data) /\ Change(p, data)
                    \/ \E key : CreateRefused(p, key)
                    \/ UNCHANGED <<file, now, config>>
    BY <1>5, CreateGoes, SetPasswordGoes, RemoveGoes
  <2>3. ~config[p].writing
    BY <2>1 DEF IInv, CallsSound
  <2>4. ASSUME NEW data, c.at = "store", Changes(p, data), Change(p, data)
        PROVE  IInv' /\ Begins(p)
    <3>1. data \in Tables
      BY <2>1, <2>4, ChangesTable
    <3>2. /\ IInv' /\ file'.data = file.data /\ config'[p].data = data
          /\ config'[p].outrun = Loaded(p).outrun
          /\ \A q \in Procs \ {p} : config'[q] = config[q]
      BY <2>1, <2>2, <2>4, <3>1, ChangeKeeps
    <3> QED BY <2>3, <2>4, <3>2 DEF Begins
  <2>5. ASSUME NEW key, CreateRefused(p, key)
        PROVE  IInv' /\ Neither
    BY <2>1, <2>2, <2>5, RefusedKeeps DEF Neither
  <2>6. CASE UNCHANGED <<file, now, config>>
    BY <2>1, <2>2, <2>6, ReadOnly DEF Neither
  <2> QED BY <2>2, <2>4, <2>5, <2>6
<1>6. CASE StoreCall(p)
  BY <1>6, StoreCallKeeps DEF Stores
<1> QED BY <1>1, <1>2, <1>3, <1>4, <1>5, <1>6 DEF Killed

\* The initial states.
LEMMA RegistryInit == Init => IInv
<1> SUFFICES ASSUME Init PROVE IInv
  OBVIOUS
<1>1. PICK start \in Starts :
        file = [data |-> start, time |-> IF start = Empty THEN 0 ELSE 1, lock |-> Nobody]
  BY DEF Init, ConfigInit
<1>2. start \in Tables
  BY RegistryConstants, TableFrom DEF Keys
<1>3. config = [p \in Procs |-> NoCopy] /\ NoCopy \in Copy
  BY EmptyIsTable DEF Init, ConfigInit, NoCopy, Copy
<1>4. CopyIsFresh
  BY <1>3 DEF CopyIsFresh, NoCopy
<1>5. file.time \in Nat /\ now = file.time /\ (file.time = 0 => file.data = Empty)
  BY <1>1 DEF Init, ConfigInit
<1>6. FileSound
  <2>1. file.time \in Nat /\ now \in Nat /\ file.time =< now /\ 0 =< now /\ now <= MaxTime
    BY <1>1, <1>5, ConfigConstants
  <2>2. file \in [data : Tables, time : Nat, lock : Procs \cup {Nobody}]
    BY <1>1, <1>2
  <2>3. \A p \in Procs : config[p] = NoCopy /\ config[p].seen = 0 /\ ~config[p].open /\ ~config[p].writing
    BY <1>3 DEF NoCopy
  <2>4. \A p \in Procs : file.lock # p
    BY <1>1, ConfigConstants
  <2>5. config \in [Procs -> Copy]
    BY <1>3
  <2> QED BY <1>4, <1>5, <2>1, <2>2, <2>3, <2>4, <2>5 DEF FileSound
<1>7. CallsSound
  BY <1>3, NoCallSane DEF CallsSound, Init, NoCopy
<1> QED BY <1>6, <1>7 DEF IInv

\* Every step.
LEMMA StepKeepsIInv ==
    ASSUME IInv, [Next]_vars
    PROVE  IInv'
<1>1. CASE UNCHANGED vars
  BY <1>1 DEF vars, IInv, FileSound, CallsSound, CopyIsFresh, Readable, At
<1> QED BY <1>1, StepOfProcess

\* load: "If they're both the same then no need to reload the file": a copy with the
\* times of the file is what the file says, but for one that another process has outrun,
\* as long as the file can be read back; whoever writes, is refused, cannot write or is
\* killed in between.
THEOREM Fresh == Spec => []CopyIsFresh
<1>1. IInv /\ [Next]_vars => IInv'
  BY StepKeepsIInv
<1>2. IInv => CopyIsFresh
  BY DEF IInv, FileSound
<1> QED BY <1>1, <1>2, RegistryInit, PTL DEF Spec

-----------------------------------------------------------------------------
(* No update is lost.                                                      *)

\* What a program is about to store is one change of what the file says.
OneChange(a, b) ==
    \/ \E id \in Ids, host \in Hosts :
         <<id, "Host">> \notin DOMAIN a /\ b = With(a, <<id, "Host">>, host)
    \/ \E id \in Ids, password \in Passwords : b = With(a, <<id, "Password">>, password)
    \/ \E id : b = WithoutSection(a, id)

Pending == \A p \in Procs :
    config[p].writing => OneChange(file.data, config[p].data) \/ Spoils(p)

\* Who has the lock is about to store one change of the file as it still is, or spoils it.
LEMMA StepKeepsPending ==
    ASSUME IInv, Pending, [Next]_vars
    PROVE  Pending'
<1>1. CASE UNCHANGED vars
  BY <1>1 DEF vars, Pending, Spoils, Readable
<1>2. CASE \E p \in Procs : Stores(p) \/ Neither
  BY <1>2 DEF Pending, Stores, Neither, Spoils, Readable
<1>3. ASSUME NEW p \in Procs, Begins(p)
      PROVE  Pending'
  <2>1. ~Loaded(p).outrun /\ Readable(file.data) => Opened(p) = file.data
    BY <1>3, OpenedCopy DEF IInv, Begins
  <2>2. ~Loaded(p).outrun /\ Readable(file.data) => OneChange(file.data, config'[p].data)
    BY <1>3, <2>1 DEF Begins, Changes, OneChange
  <2>3. /\ file'.data = file.data /\ config'[p].outrun = Loaded(p).outrun
        /\ \A q \in Procs \ {p} : config'[q] = config[q]
    BY <1>3 DEF Begins
  <2> QED BY <2>2, <2>3 DEF Pending, Spoils, Readable
<1> QED BY <1>1, <1>2, <1>3, StepOfProcess

\* A store of one change is a step of ServerTable.
LEMMA OneChangeMaps ==
    ASSUME IInv, NEW p \in Procs, OneChange(file.data, config[p].data), file'.data = config[p].data
    PROVE  Table!Next \/ file'.data = file.data
<1> DEFINE a == file.data
<1>0. a \in Tables
  BY DEF IInv, FileSound
<1>1. ASSUME NEW id \in Ids, NEW host \in Hosts, <<id, "Host">> \notin DOMAIN a,
             file'.data = With(a, <<id, "Host">>, host)
      PROVE  Table!Next
  BY <1>1 DEF Table!Next, Table!Add, Table!Put, With
<1>2. ASSUME NEW id \in Ids, NEW password \in Passwords, file'.data = With(a, <<id, "Password">>, password)
      PROVE  Table!Next
  BY <1>2 DEF Table!Next, Table!SetPassword, Table!Put, With
<1>3. ASSUME NEW id \in Ids, file'.data = WithoutSection(a, id)
      PROVE  Table!Next
  BY <1>3 DEF Table!Next, Table!Remove, WithoutSection, Restrict, Table!Restrict
<1>4. ASSUME NEW id, id \notin Ids, file'.data = WithoutSection(a, id)
      PROVE  file'.data = a
  <2>1. WithoutSection(a, id) = Restrict(a, DOMAIN a)
    <3>1. \A k \in DOMAIN a : k[1] # id
      BY <1>0, <1>4, TableShape DEF Keys
    <3>2. {k \in DOMAIN a : k[1] # id} = DOMAIN a
      BY <3>1
    <3> QED BY <3>2 DEF WithoutSection
  <2> QED BY <1>0, <1>4, <2>1, TableShape DEF Restrict
<1> QED BY <1>1, <1>2, <1>3, <1>4 DEF OneChange

\* The file is one table.  An update changes one entry, none is lost by another, and an
\* id is given to a server only while it is free, however the programs interleave and
\* die; unless who writes has a copy that was outrun, or could not read the file back.
THEOREM NoUpdateIsLost == Spec => ImplementsTable
<1>1. Init => IInv /\ Pending /\ Table!Init
  BY RegistryInit DEF Init, ConfigInit, Pending, NoCopy, Table!Init
<1>2. IInv /\ Pending /\ [Next]_vars => IInv' /\ Pending'
  BY StepKeepsIInv, StepKeepsPending
<1>3. IInv /\ Pending /\ [Next]_vars => [Table!Next \/ \E p \in Procs : Spoils(p)]_(file.data)
  <2> SUFFICES ASSUME IInv, Pending, [Next]_vars
               PROVE  Table!Next \/ file'.data = file.data \/ \E p \in Procs : Spoils(p)
    OBVIOUS
  <2>1. CASE UNCHANGED vars
    BY <2>1 DEF vars
  <2>2. ASSUME NEW p \in Procs, Stores(p)
        PROVE  Table!Next \/ file'.data = file.data \/ Spoils(p)
    BY <2>2, OneChangeMaps DEF Stores, Pending
  <2>3. CASE \E p \in Procs : Begins(p) \/ Neither
    BY <2>3 DEF Begins, Neither
  <2> QED BY <2>1, <2>2, <2>3, StepOfProcess
<1> QED BY <1>1, <1>2, <1>3, PTL DEF Spec, ImplementsTable

-----------------------------------------------------------------------------
(* What a process has in memory.                                           *)

Link == [id : Ids \cup {Temporary}, host : Hosts \cup {Nothing}]
Updating == {"local", "sweep", "sections", "host"}
Thens == {"idle", "done", "found", "create", "again", "password", "update"}
Call == [op : {"none", "list", "add", "remove"},
         at : Updating \cup {"idle", "found", "create", "again", "password", "set", "store", "done", "error"},
         then : Thens, host : Hosts \cup {Nothing}, password : Passwords \cup {Nothing}, temporary : BOOLEAN,
         id : Nat, next : Nat \ {0}, retry : Nat, link : Nat, place : Nat, section : Ids, created : BOOLEAN]

\* What a process keeps in memory.
Memory ==
    /\ links \in [Procs -> Seq(Link)]
    /\ temps \in [Procs -> SUBSET Hosts] /\ \A p \in Procs : IsFiniteSet(temps[p])
    /\ call \in [Procs -> Call]
    /\ alone \in [Procs -> BOOLEAN]

\* Where a call may be, with these links.
Routed(c, l) ==
    /\ c.at \in Updating => c.then \in {"done", "found", "create", "again"}
    /\ c.at = "store" => c.then \in {"done", "password", "update"}
    /\ (c.at \in {"sections", "host"}) <=> (c.place # 0)
    /\ c.at = "sweep" => c.link <= Len(l)
    /\ c.at = "host" => c.section # 0
    /\ c.at \in {"found", "create", "again"} \/ (c.at \in Updating /\ c.then # "done") => ~c.created
    /\ c.at = "store" /\ c.op = "add" => c.then # "done"

\* The first link is the local one, the others are remote.
Shape(l) == l # <<>> => /\ l[1] = Local
                        /\ \A j \in 2 .. Len(l) : l[j].id # 0 /\ l[j].host # Nothing

\* The servers of the file, and those of the sections that were seen.
Served(data) == {k \in DOMAIN data : k[1] # 0 /\ k[2] = "Host"}
Passed(data, n) == {k[1] : k \in {l \in DOMAIN data : Place(data, l) <= n}}

\* The links after the i-th are those of servers of the file, or temporary ones.
Matches(l, t, data, i) == \A j \in 2 .. Len(l) : j > i =>
    IF l[j].id = Temporary THEN l[j].host \in t
    ELSE <<l[j].id, "Host">> \in DOMAIN data /\ data[<<l[j].id, "Host">>] = l[j].host

\* The servers of the file in these sections have links.
Linked(l, data, sections) == \A k \in Served(data) : k[1] \in sections =>
    \E j \in 2 .. Len(l) : l[j].id = k[1]

Finds(l, host) == \E j \in DOMAIN l : l[j].host = host

\* update_servers has done what it is for.
Complete(l, t, data) ==
    /\ Matches(l, t, data, 1) /\ Linked(l, data, Ids)
    /\ \A h \in t : Finds(l, h)

\* A server that a call is adding is in the table.
Wanted(c, data, t) ==
    IF c.created
    THEN c.id \in Ids \ {0} /\ <<c.id, "Host">> \in DOMAIN data /\ data[<<c.id, "Host">>] = c.host
    ELSE c.host \in t \/ \E k \in Served(data) : data[k] = c.host

\* So is its password, when it was created.
Kept(c, data) == c.created =>
    <<c.id, "Password">> \in DOMAIN data /\ data[<<c.id, "Password">>] = c.password

\* update_servers, step by step.
Progress(c, l, t, data, copy) ==
    /\ c.at = "sweep" => Matches(l, t, data, c.link)
    /\ c.at \in {"sections", "host"} =>
         /\ Matches(l, t, data, 1) /\ copy = data
         /\ \E key \in DOMAIN data : Place(data, key) = c.place
         /\ \A n \in Passed(data, c.place) : n < c.next
    /\ c.at = "sections" => Linked(l, data, Passed(data, c.place))
    /\ c.at = "host" => Linked(l, data, Passed(data, c.place) \ {c.section})
    /\ c.at \in {"found", "create", "again"} => Complete(l, t, data) /\ \A k \in DOMAIN data : k[1] < c.next

\* What a call that adds a server has done.
HasAdded(c, l, t, data, copy) ==
    /\ c.at = "store" => Wanted(c, copy, t)
    /\ c.at = "store" /\ c.then = "password" => c.created /\ <<c.id, "Password">> \notin DOMAIN copy
    /\ c.at = "store" /\ c.then = "update" => Kept(c, copy)
    /\ c.at \in {"password", "set"} => Wanted(c, data, t)
    /\ c.at = "password" => IF c.created THEN <<c.id, "Password">> \notin DOMAIN data ELSE Finds(l, c.host)
    /\ c.at = "done" \/ (c.at \in Updating /\ c.then = "done") => Wanted(c, data, t) /\ Kept(c, data)
    /\ c.at = "done" => Finds(l, c.host)

\* A process with a local server.
Follows(c, l, t, data, copy, single) ==
    /\ Shape(l) /\ (c.at \in Updating \ {"local"} => l # <<>>)
    /\ single => Progress(c, l, t, data, copy) /\ (c.op = "add" => HasAdded(c, l, t, data, copy))

\* What the calls have done.
Calls == \A p \in Procs :
    /\ Routed(call[p], links[p])
    /\ p \in HasLocal => Follows(call[p], links[p], temps[p], file.data, config[p].data, alone[p])

\* The empty call.
LEMMA NoCallTyped == NoCall \in Call /\ (\A l : Routed(NoCall, l)) /\ NoCall.op = "none" /\ NoCall.at = "idle" /\ ~NoCall.created
<1>1. /\ 0 \in Nat /\ 1 \in Nat \ {0} /\ 0 \in Ids /\ Nothing \in Hosts \cup {Nothing}
      /\ Nothing \in Passwords \cup {Nothing} /\ FALSE \in BOOLEAN
  BY RegistryConstants
<1>2. /\ NoCall.op = "none" /\ NoCall.at = "idle" /\ NoCall.then = "idle" /\ NoCall.place = 0 /\ NoCall.created = FALSE
  BY DEF NoCall
<1>3. NoCall \in Call
  BY <1>1 DEF NoCall, Call, Thens
<1> QED BY <1>2, <1>3 DEF Routed, Updating

\* Where a call may be.
Ats == Updating \cup {"idle", "found", "create", "again", "password", "set", "store", "done", "error"}

\* update_servers is called.
LEMMA UpdateBegins ==
    ASSUME NEW c \in Call, NEW then \in {"done", "found", "create", "again"}
    PROVE  LET d == Update(c, then) IN
           /\ d \in Call /\ d.op = c.op /\ d.at = "local" /\ d.then = then /\ d.host = c.host
           /\ d.password = c.password /\ d.temporary = c.temporary /\ d.id = c.id /\ d.next = c.next /\ d.place = c.place
           /\ d.section = c.section /\ d.created = c.created
BY DEF Call, Ats, Thens, Updating, Update

\* A server was created: the change is to be stored.
LEMMA CreatedTyped ==
    ASSUME NEW c \in Call
    PROVE  LET d == Created(c) IN
           /\ d \in Call /\ d.op = c.op /\ d.at = "store" /\ d.then = "password" /\ d.host = c.host
           /\ d.password = c.password /\ d.id = c.next /\ d.place = c.place
           /\ d.section = c.section /\ d.created = TRUE
<1>1. /\ 1 \in Nat \ {0} /\ TRUE \in BOOLEAN /\ "password" \in Thens /\ c.next \in Nat
      /\ Created(c) = [c EXCEPT !.at = "store", !.then = "password", !.id = c.next, !.next = 1, !.created = TRUE]
  BY DEF Created, Thens, Call
<1> QED BY <1>1 DEF Call

\* The password was looked at.
LEMMA PasswordChecked ==
    ASSUME NEW c \in Call, NEW at \in {"done", "set"}
    PROVE  LET d == [c EXCEPT !.next = 1, !.retry = 0, !.at = at] IN
           /\ d \in Call /\ d.op = c.op /\ d.at = at /\ d.then = c.then /\ d.host = c.host
           /\ d.password = c.password /\ d.id = c.id /\ d.place = c.place
           /\ d.section = c.section /\ d.created = c.created
<1>1. 0 \in Nat /\ 1 \in Nat \ {0}
  OBVIOUS
<1> QED BY <1>1 DEF Call

\* The first call of a request.
LEMMA RequestTyped ==
    ASSUME NEW r \in [host : Hosts, password : Passwords, temporary : BOOLEAN]
    PROVE  LET d == [NoCall EXCEPT !.op = "add", !.host = r.host, !.password = r.password, !.temporary = r.temporary] IN
           d \in Call /\ d.op = "add" /\ d.place = 0 /\ ~d.created /\ d.host \in Hosts /\ d.password \in Passwords
<1>1. NoCall \in Call /\ NoCall.place = 0 /\ NoCall.created = FALSE
  BY NoCallTyped DEF NoCall
<1> QED BY <1>1 DEF Call

\* The other calls.
LEMMA OthersTyped ==
    /\ LET d == [NoCall EXCEPT !.op = "list"] IN
       d \in Call /\ d.op = "list" /\ d.place = 0 /\ ~d.created
    /\ LET d == [NoCall EXCEPT !.op = "remove", !.at = "store", !.then = "done"] IN
       d \in Call /\ d.op = "remove" /\ d.at = "store" /\ d.then = "done" /\ d.place = 0 /\ ~d.created
    /\ LET d == [NoCall EXCEPT !.op = "remove", !.at = "done"] IN
       d \in Call /\ d.op = "remove" /\ d.at = "done" /\ d.then = "idle" /\ d.place = 0 /\ ~d.created
<1>1. NoCall \in Call /\ NoCall.place = 0 /\ NoCall.created = FALSE /\ NoCall.then = "idle"
  BY NoCallTyped DEF NoCall
<1> QED BY <1>1 DEF Call, Thens

-----------------------------------------------------------------------------
(* The places of the keys.                                                 *)

\* STRING::operator < is a total order of the keys.
LEMMA KeysInOrder ==
    ASSUME NEW k \in Keys, NEW l \in Keys
    PROVE  /\ ~Before(k, k)
           /\ k = l \/ Before(k, l) \/ Before(l, k)
           /\ \A m \in Keys : Before(k, l) /\ Before(l, m) => Before(k, m)
<1>1. \A m \in Keys : m[1] \in Nat /\ m[2] \in {"Host", "Password"} /\ m = <<m[1], m[2]>>
  <2> TAKE m \in Keys
  <2>1. PICK i \in Ids, f \in {"Host", "Password"} : m = <<i, f>>
    BY DEF Keys
  <2>2. m[1] = i /\ m[2] = f
    BY <2>1
  <2> QED BY <2>1, <2>2, ConfigConstants
<1>2. ~Before(k, k)
  BY <1>1 DEF Before
<1>3. k = l \/ Before(k, l) \/ Before(l, k)
  <2>1. CASE k[1] = l[1] /\ k[2] = l[2]
    BY <1>1, <2>1
  <2>2. CASE k[1] # l[1]
    <3>1. k[1] < l[1] \/ l[1] < k[1]
      BY <1>1, <2>2
    <3> QED BY <3>1 DEF Before
  <2>3. CASE k[1] = l[1] /\ k[2] # l[2]
    BY <1>1, <2>3 DEF Before
  <2> QED BY <2>1, <2>2, <2>3
<1>4. ASSUME NEW m \in Keys, Before(k, l), Before(l, m)
      PROVE  Before(k, m)
  <2>1. k[1] \in Nat /\ l[1] \in Nat /\ m[1] \in Nat
    BY <1>1
  <2> QED BY <1>4, <2>1 DEF Before
<1> QED BY <1>2, <1>3, <1>4

\* The keys before a key.
Earlier(data, key) == {l \in DOMAIN data : Before(l, key)}

\* A key comes in a place after those of the keys before it.
LEMMA PlacesInOrder ==
    ASSUME NEW data \in Tables, NEW k \in DOMAIN data
    PROVE  /\ Place(data, k) \in Nat \ {0}
           /\ \A l \in DOMAIN data : Before(k, l) => Place(data, k) < Place(data, l)
<1>1. DOMAIN data \subseteq Keys /\ IsFiniteSet(DOMAIN data)
  BY TableShape
<1>2. \A l \in DOMAIN data : IsFiniteSet(Earlier(data, l)) /\ Cardinality(Earlier(data, l)) \in Nat
      /\ Place(data, l) = 1 + Cardinality(Earlier(data, l))
  <2> TAKE l \in DOMAIN data
  <2>1. Earlier(data, l) \in SUBSET DOMAIN data
    BY DEF Earlier
  <2>2. IsFiniteSet(Earlier(data, l))
    BY <1>1, <2>1, FS_Subset
  <2> QED BY <2>2, FS_CardinalityType DEF Place, Earlier
<1>3. ASSUME NEW l \in DOMAIN data, Before(k, l)
      PROVE  Place(data, k) < Place(data, l)
  <2>1. Earlier(data, k) \in SUBSET Earlier(data, l)
    BY <1>1, <1>3, KeysInOrder DEF Earlier
  <2>2. k \in Earlier(data, l) /\ k \notin Earlier(data, k)
    BY <1>1, <1>3, KeysInOrder DEF Earlier
  <2>3. /\ Cardinality(Earlier(data, k)) <= Cardinality(Earlier(data, l))
        /\ Cardinality(Earlier(data, k)) # Cardinality(Earlier(data, l))
    BY <1>2, <2>1, <2>2, FS_Subset
  <2> QED BY <1>2, <2>3
<1>4. Place(data, k) \in Nat \ {0}
  BY <1>2
<1> QED BY <1>3, <1>4

\* Each key has a place of its own.
LEMMA PlacesDiffer ==
    ASSUME NEW data \in Tables, NEW k \in DOMAIN data, NEW l \in DOMAIN data, Place(data, k) = Place(data, l)
    PROVE  k = l
<1>1. k \in Keys /\ l \in Keys
  BY TableShape
<1>2. Place(data, k) \in Nat /\ Place(data, l) \in Nat
  BY PlacesInOrder
<1>3. ~Before(k, l) /\ ~Before(l, k)
  BY <1>2, PlacesInOrder
<1> QED BY <1>1, <1>3, KeysInOrder

\* What is in the place of a key.
LEMMA KeyInPlace ==
    ASSUME NEW data \in Tables, NEW k \in DOMAIN data
    PROVE  KeyAt(data, Place(data, k)) = k
  BY PlacesDiffer DEF KeyAt

\* The smallest of some numbers.
LEMMA SmallestOf ==
    ASSUME NEW S, S \subseteq Nat, S # {}
    PROVE  Min(S) \in S /\ \A x \in S : Min(S) <= x
<1>1. \E x \in S : \A y \in S : x <= y
  <2> SUFFICES ASSUME \A x \in S : \E y \in S : ~(x <= y)
               PROVE  FALSE
    OBVIOUS
  <2> DEFINE T == {n \in Nat : \A x \in S : n <= x}
  <2>1. 0 \in T
    OBVIOUS
  <2>2. ASSUME NEW n \in Nat, n \in T
        PROVE  n + 1 \in T
    <3>1. \A x \in S : x \in Nat /\ n <= x /\ x # n
      BY <2>2
    <3> QED BY <3>1
  <2>3. \A n \in Nat : n \in T
    <3> HIDE DEF T
    <3> QED BY <2>1, <2>2, NatInductionOnSet
  <2>4. PICK x \in S : x \in Nat
    OBVIOUS
  <2>5. x + 1 \in T
    BY <2>3, <2>4
  <2> QED BY <2>4, <2>5
<1> QED BY <1>1 DEF Min

\* The places of the sections after the one in place k.
Following(data, k) ==
    {Place(data, key) : key \in {l \in DOMAIN data : Place(data, l) > k /\ (k = 0 \/ l[1] # KeyAt(data, k)[1])}}

\* enumerate returns the place of a key.
LEMMA EnumerateReturns ==
    ASSUME NEW data \in Tables, NEW k \in Nat, Enumerate(data, k) # 0
    PROVE  /\ Enumerate(data, k) \in Nat \ {0}
           /\ Enumerate(data, k) \in Following(data, k)
           /\ \A n \in Following(data, k) : Enumerate(data, k) <= n
           /\ KeyAt(data, Enumerate(data, k)) \in DOMAIN data
           /\ Place(data, KeyAt(data, Enumerate(data, k))) = Enumerate(data, k)
<1> DEFINE F == Following(data, k)
<1>1. Enumerate(data, k) = Min(F) /\ F # {}
  BY DEF Enumerate, Following
<1>2. F \subseteq Nat \ {0}
  BY PlacesInOrder DEF Following
<1>3. Min(F) \in F /\ \A n \in F : Min(F) <= n
  <2> HIDE DEF F
  <2> QED BY <1>1, <1>2, SmallestOf
<1>4. PICK key \in DOMAIN data : Place(data, key) = Min(F)
  BY <1>3 DEF Following
<1>5. KeyAt(data, Min(F)) = key
  BY <1>4, KeyInPlace
<1> QED BY <1>1, <1>2, <1>3, <1>4, <1>5

\* When enumerate has begun, or goes on from a key, it passes over no section.
LEMMA EnumerateGoesOn ==
    ASSUME NEW data \in Tables, NEW k \in Nat,
           k # 0 => \E key \in DOMAIN data : Place(data, key) = k
    PROVE  LET j == Enumerate(data, k) IN
           /\ j = 0 => \A key \in DOMAIN data : key[1] \in Passed(data, k)
           /\ j # 0 => Passed(data, j) \subseteq Passed(data, k) \cup {KeyAt(data, j)[1]}
<1> DEFINE j == Enumerate(data, k)
           F == Following(data, k)
<1>1. \A l \in DOMAIN data : Place(data, l) \in Nat \ {0}
  BY PlacesInOrder
<1>2. k # 0 => /\ KeyAt(data, k) \in DOMAIN data /\ Place(data, KeyAt(data, k)) = k
               /\ KeyAt(data, k)[1] \in Passed(data, k)
  <2>1. k # 0 => KeyAt(data, k) \in DOMAIN data /\ Place(data, KeyAt(data, k)) = k
    BY KeyInPlace
  <2> QED BY <2>1 DEF Passed
<1>3. \A l \in DOMAIN data : l[1] \in Passed(data, k) \/ Place(data, l) \in F
  <2> TAKE l \in DOMAIN data
  <2>1. CASE Place(data, l) <= k
    BY <2>1 DEF Passed
  <2>2. CASE ~(Place(data, l) <= k)
    <3>1. Place(data, l) > k
      BY <1>1, <2>2
    <3>2. CASE k = 0 \/ l[1] # KeyAt(data, k)[1]
      BY <3>1, <3>2 DEF Following
    <3>3. CASE k # 0 /\ l[1] = KeyAt(data, k)[1]
      BY <1>2, <3>3
    <3> QED BY <3>2, <3>3
  <2> QED BY <2>1, <2>2
<1>4. ASSUME j = 0
      PROVE  \A key \in DOMAIN data : key[1] \in Passed(data, k)
  <2>1. F = {}
    <3> SUFFICES ASSUME F # {} PROVE FALSE
      OBVIOUS
    <3>1. F \subseteq Nat \ {0}
      BY <1>1 DEF Following
    <3>2. Min(F) \in F
      <4> HIDE DEF F
      <4> QED BY <3>1, SmallestOf
    <3>3. j = Min(F)
      BY DEF Enumerate, Following
    <3> QED BY <1>4, <3>1, <3>2, <3>3
  <2> QED BY <1>3, <2>1
<1>5. ASSUME j # 0, NEW l \in DOMAIN data, Place(data, l) <= j
      PROVE  l[1] \in Passed(data, k) \cup {KeyAt(data, j)[1]}
  <2>1. CASE Place(data, l) \in F
    <3>1. j \in Nat /\ j <= Place(data, l)
      BY <1>5, <2>1, EnumerateReturns
    <3>2. Place(data, l) = j
      BY <1>1, <1>5, <3>1
    <3>3. KeyAt(data, j) = l
      BY <3>2, KeyInPlace
    <3> QED BY <3>3
  <2> QED BY <1>3, <2>1
<1>6. j # 0 => Passed(data, j) \subseteq Passed(data, k) \cup {KeyAt(data, j)[1]}
  BY <1>5 DEF Passed
<1> QED BY <1>4, <1>6

\* Nothing has been passed when enumerate begins.
LEMMA NothingPassed ==
    ASSUME NEW data \in Tables
    PROVE  Passed(data, 0) = {}
<1>1. \A l \in DOMAIN data : ~(Place(data, l) <= 0)
  BY PlacesInOrder
<1> QED BY <1>1 DEF Passed

\* get_value returns a string, or NULL.
LEMMA ValueTyped ==
    ASSUME IInv, NEW p \in Procs, ~config[p].writing, NEW key \in Keys
    PROVE  Value(p, key) \in (IF key[2] = "Host" THEN Hosts ELSE Passwords) \cup {Nothing}
<1>1. Loaded(p) \in Copy
  BY LoadedCopy DEF IInv
<1>2. CASE Has(p, key)
  <2>1. key \in DOMAIN Loaded(p).data /\ Loaded(p).data \in Tables /\ Value(p, key) = Loaded(p).data[key]
    BY <1>1, <1>2 DEF Has, Value, Copy
  <2> HIDE DEF Loaded
  <2> QED BY <2>1, TableShape
<1>3. CASE ~Has(p, key)
  BY <1>3 DEF Value, Nothing
<1> QED BY <1>2, <1>3

\* With a copy that was not outrun, and a file that can be read back, it returns what
\* the file says.
LEMMA ValueIsThere ==
    ASSUME IInv, NEW p \in Procs, ~config[p].writing, ~config[p].outrun, Readable(file.data), NEW key
    PROVE  Value(p, key) = IF key \in DOMAIN file.data THEN file.data[key] ELSE Nothing
<1>1. file.data \in Tables
  BY DEF IInv, FileSound
<1>2. CASE file.time = 0
  <2>1. file.data = Empty
    BY <1>2 DEF IInv, FileSound
  <2> QED BY <1>2, <2>1 DEF Empty, Value, Has, LoadOk, Nothing
<1>3. CASE file.time # 0
  <2>1. Loaded(p).data = file.data
    BY <1>1, <1>3, LoadedCopy DEF IInv
  <2> QED BY <1>3, <2>1 DEF Value, Has, LoadOk, Nothing
<1> QED BY <1>2, <1>3

-----------------------------------------------------------------------------
(* Lists of links.                                                         *)

\* remove takes one link out.
LEMMA Removed ==
    ASSUME NEW l \in Seq(Link), NEW i \in 1 .. Len(l)
    PROVE  /\ RemoveAt(l, i) \in Seq(Link) /\ Len(RemoveAt(l, i)) = Len(l) - 1
           /\ \A j \in 1 .. Len(l) - 1 : RemoveAt(l, i)[j] = IF j < i THEN l[j] ELSE l[j + 1]
<1> DEFINE a == SubSeq(l, 1, i - 1)
           b == SubSeq(l, i + 1, Len(l))
<1>1. /\ a \in Seq(Link) /\ Len(a) = i - 1
      /\ \A j \in 1 .. i - 1 : a[j] = l[j]
  OBVIOUS
<1>2. /\ b \in Seq(Link) /\ Len(b) = Len(l) - i
      /\ \A j \in 1 .. Len(l) - i : b[j] = l[j + i]
  OBVIOUS
<1>3. RemoveAt(l, i) = a \o b
  BY DEF RemoveAt
<1> HIDE DEF a, b
<1>4. /\ a \o b \in Seq(Link) /\ Len(a \o b) = Len(a) + Len(b)
      /\ \A j \in 1 .. Len(a) + Len(b) : (a \o b)[j] = IF j <= Len(a) THEN a[j] ELSE b[j - Len(a)]
  BY <1>1, <1>2, ConcatProperties
<1>5. Len(a) + Len(b) = Len(l) - 1
  BY <1>1, <1>2
<1>6. ASSUME NEW j \in 1 .. Len(l) - 1
      PROVE  (a \o b)[j] = IF j < i THEN l[j] ELSE l[j + 1]
  <2>1. CASE j < i
    BY <1>1, <1>4, <1>5, <2>1
  <2>2. CASE ~(j < i)
    <3>1. j - Len(a) \in 1 .. Len(l) - i /\ (j - Len(a)) + i = j + 1
      BY <1>1, <2>2
    <3>2. (a \o b)[j] = b[j - Len(a)]
      BY <1>1, <1>4, <1>5, <2>2
    <3> QED BY <1>2, <2>2, <3>1, <3>2
  <2> QED BY <2>1, <2>2
<1> QED BY <1>3, <1>4, <1>5, <1>6

\* Any link but the first one may be taken out.
LEMMA ShapeRemoved ==
    ASSUME NEW l \in Seq(Link), Shape(l), NEW i \in 2 .. Len(l)
    PROVE  Shape(RemoveAt(l, i))
<1>1. /\ RemoveAt(l, i) \in Seq(Link) /\ Len(RemoveAt(l, i)) = Len(l) - 1
      /\ \A j \in 1 .. Len(l) - 1 : RemoveAt(l, i)[j] = IF j < i THEN l[j] ELSE l[j + 1]
  BY Removed
<1>2. RemoveAt(l, i)[1] = l[1] /\ l # <<>>
  BY <1>1
<1>3. \A j \in 2 .. Len(l) - 1 : RemoveAt(l, i)[j] = l[j] \/ RemoveAt(l, i)[j] = l[j + 1]
  BY <1>1
<1>4. \A j \in 2 .. Len(l) : l[j].id # 0 /\ l[j].host # Nothing
  BY <1>2 DEF Shape
<1>5. \A j \in 2 .. Len(l) - 1 : RemoveAt(l, i)[j].id # 0 /\ RemoveAt(l, i)[j].host # Nothing
  BY <1>3, <1>4
<1> QED BY <1>1, <1>2, <1>5 DEF Shape

\* find_server finds the host if there is a link to it.
LEMMA FindServerFinds ==
    ASSUME NEW p \in Procs, links[p] \in Seq(Link), NEW host
    PROVE  LET i == FindServer(p, host) IN
           /\ i = NoLink <=> ~Finds(links[p], host)
           /\ i # NoLink => i \in Nat /\ i + 1 \in 1 .. Len(links[p]) /\ links[p][i + 1].host = host
<1> DEFINE l == links[p]
           F == {i \in DOMAIN l : l[i].host = host}
<1>1. F \subseteq Nat \ {0} /\ F \subseteq 1 .. Len(l)
  OBVIOUS
<1>2. CASE F = {}
  BY <1>2 DEF FindServer, Finds
<1>3. CASE F # {}
  <2> DEFINE m == CHOOSE i \in F : \A j \in F : i <= j
  <2>1. m = Min(F)
    BY DEF Min
  <2>2. m \in F
    <3> HIDE DEF F, m
    <3> QED BY <1>1, <1>3, <2>1, SmallestOf
  <2>3. FindServer(p, host) = m - 1
    BY <1>3 DEF FindServer
  <2> HIDE DEF m
  <2>4. m \in 1 .. Len(l) /\ l[m].host = host
    BY <2>2
  <2>5. m - 1 \in Nat /\ (m - 1) + 1 = m /\ m - 1 # -1
    BY <2>4
  <2> QED BY <2>3, <2>4, <2>5 DEF NoLink, Finds
<1> QED BY <1>2, <1>3

\* The hosts of a set, in any order, are all there.
LEMMA InSomeOrder ==
    ASSUME NEW S, IsFiniteSet(S), NEW order \in SetToSeqs(S)
    PROVE  /\ order \in Seq(S)
           /\ \A h \in S : \E i \in 1 .. Len(order) : order[i] = h
<1> DEFINE n == Cardinality(S)
<1>1. n \in Nat /\ ExistsBijection(1 .. n, S)
  BY FS_CardinalityType
<1>2. order \in [1 .. n -> S] /\ \A i, j \in 1 .. n : i # j => order[i] # order[j]
  BY DEF SetToSeqs
<1>3. order \in Injection(1 .. n, S)
  BY <1>2 DEF Injection, IsInjective
<1>4. IsFiniteSet(1 .. n) /\ Cardinality(1 .. n) = n
  BY <1>1, FS_Interval
<1>5. order \in Surjection(1 .. n, S)
  BY <1>3, <1>4, FS_Injection
<1>6. \A h \in S : \E i \in 1 .. n : order[i] = h
  BY <1>5 DEF Surjection
<1> HIDE DEF n
<1>7. order \in Seq(S) /\ Len(order) = n
  BY <1>1, <1>2
<1> QED BY <1>6, <1>7

\* The links that are made for temporary servers.
TemporaryLinks(order) == [i \in DOMAIN order |-> [id |-> Temporary, host |-> order[i]]]

\* Links are added for all of them, and the links there were stay as they were.
LEMMA TemporariesAdded ==
    ASSUME NEW l \in Seq(Link), NEW S \in SUBSET Hosts, IsFiniteSet(S), NEW order \in SetToSeqs(S)
    PROVE  LET m == l \o TemporaryLinks(order) IN
           /\ m \in Seq(Link) /\ Len(m) \in Nat /\ Len(l) <= Len(m)
           /\ \A j \in 1 .. Len(l) : m[j] = l[j]
           /\ \A j \in Len(l) + 1 .. Len(m) : m[j].id = Temporary /\ m[j].host \in S
           /\ \A h \in S : Finds(m, h)
<1> DEFINE b == TemporaryLinks(order)
<1>1. order \in Seq(S) /\ \A h \in S : \E i \in 1 .. Len(order) : order[i] = h
  BY InSomeOrder
<1>2. \A i \in 1 .. Len(order) : [id |-> Temporary, host |-> order[i]] \in Link /\ order[i] \in S
  BY <1>1 DEF Link
<1>3. b \in Seq(Link) /\ Len(b) = Len(order)
      /\ \A i \in 1 .. Len(order) : b[i].id = Temporary /\ b[i].host = order[i]
  <2> DEFINE n == Len(order)
  <2>1. n \in Nat /\ DOMAIN order = 1 .. n
    BY <1>1
  <2> HIDE DEF n
  <2>2. b = [i \in 1 .. n |-> [id |-> Temporary, host |-> order[i]]]
    BY <2>1 DEF TemporaryLinks
  <2>3. b \in [1 .. n -> Link]
    BY <1>2, <2>2 DEF n
  <2>4. b \in Seq(Link) /\ Len(b) = n
    <3> HIDE DEF b
    <3> QED BY <2>1, <2>3
  <2>5. \A i \in 1 .. n : b[i].id = Temporary /\ b[i].host = order[i]
    BY <2>2
  <2> QED BY <2>4, <2>5 DEF n
<1> HIDE DEF b
<1>4. /\ l \o b \in Seq(Link) /\ Len(l \o b) = Len(l) + Len(b)
      /\ \A j \in 1 .. Len(l) + Len(b) : (l \o b)[j] = IF j <= Len(l) THEN l[j] ELSE b[j - Len(l)]
  <2>1. b \in Seq(Link)
    BY <1>3
  <2> QED BY <2>1, ConcatProperties
<1>5. Len(l) \in Nat /\ Len(b) \in Nat
  BY <1>3
<1>6. ASSUME NEW j \in Len(l) + 1 .. Len(l) + Len(b)
      PROVE  (l \o b)[j].id = Temporary /\ (l \o b)[j].host \in S
  <2>1. j - Len(l) \in 1 .. Len(order) /\ (l \o b)[j] = b[j - Len(l)]
    BY <1>3, <1>4, <1>5
  <2> QED BY <1>2, <1>3, <2>1
<1>7. ASSUME NEW h \in S
      PROVE  Finds(l \o b, h)
  <2>1. PICK i \in 1 .. Len(order) : order[i] = h
    BY <1>1
  <2>2. /\ Len(l) + i \in 1 .. Len(l) + Len(b) /\ ~(Len(l) + i <= Len(l)) /\ (Len(l) + i) - Len(l) = i
    BY <1>3, <1>5
  <2>3. (l \o b)[Len(l) + i] = b[i]
    BY <1>4, <2>2
  <2>4. Len(l) + i \in DOMAIN (l \o b)
    BY <1>4, <2>2
  <2> QED BY <1>3, <2>1, <2>3, <2>4 DEF Finds
<1> QED BY <1>4, <1>5, <1>6, <1>7 DEF b

\* A link more.
LEMMA LinkAdded ==
    ASSUME NEW l \in Seq(Link), NEW e \in Link
    PROVE  /\ Append(l, e) \in Seq(Link) /\ Len(Append(l, e)) = Len(l) + 1 /\ Len(l) \in Nat
           /\ \A j \in 1 .. Len(l) : Append(l, e)[j] = l[j]
           /\ Append(l, e)[Len(l) + 1] = e
OBVIOUS

\* When update_servers has done its work, a server of the table has a link.
LEMMA WantedIsFound ==
    ASSUME NEW l \in Seq(Link), NEW t, NEW data, NEW c, DOMAIN data \subseteq Keys,
           Complete(l, t, data), Wanted(c, data, t)
    PROVE  Finds(l, c.host)
<1>1. ASSUME NEW k \in Served(data), data[k] = c.host
      PROVE  Finds(l, c.host)
  <2>1. PICK i \in Ids, f \in {"Host", "Password"} : k = <<i, f>>
    BY DEF Served, Keys
  <2>2. k = <<k[1], "Host">> /\ k[1] \in Ids
    BY <2>1 DEF Served
  <2>3. PICK j \in 2 .. Len(l) : l[j].id = k[1]
    BY <2>2 DEF Complete, Linked
  <2>4. j > 1 /\ j \in DOMAIN l /\ l[j].id # Temporary
    BY <2>2, <2>3, RegistryConstants
  <2>5. data[<<l[j].id, "Host">>] = l[j].host
    BY <2>4 DEF Complete, Matches
  <2> QED BY <1>1, <2>2, <2>3, <2>4, <2>5 DEF Finds
<1>2. CASE c.created
  <2>1. <<c.id, "Host">> \in Served(data) /\ data[<<c.id, "Host">>] = c.host
    BY <1>2 DEF Wanted, Served
  <2> QED BY <1>1, <2>1
<1>3. CASE ~c.created
  BY <1>1, <1>3 DEF Wanted, Complete
<1> QED BY <1>2, <1>3

-----------------------------------------------------------------------------
(* The calls, step by step.                                                *)

\* Who is alone reads what the file says.
Certain == \A p \in Procs : alone[p] => ~config[p].outrun /\ Readable(file.data)

Sound == IInv /\ Memory /\ Calls /\ Certain

\* What is known of a process.
LEMMA StandsAt ==
    ASSUME Sound, NEW p \in Procs
    PROVE  /\ call[p] \in Call /\ links[p] \in Seq(Link) /\ temps[p] \in SUBSET Hosts /\ IsFiniteSet(temps[p])
           /\ alone[p] \in BOOLEAN
           /\ file.data \in Tables /\ config[p].data \in Tables
           /\ Routed(call[p], links[p])
           /\ p \in HasLocal =>
                Follows(call[p], links[p], temps[p], file.data, config[p].data, alone[p])
           /\ call[p].at # "store" => ~config[p].writing
           /\ call[p].at \in Adding => call[p].op = "add"
           /\ call[p].op = "add" => call[p].host \in Hosts /\ call[p].password \in Passwords
<1>1. config[p] \in Copy /\ file.data \in Tables
  BY DEF Sound, IInv, FileSound
<1>2. /\ call[p] \in Call /\ links[p] \in Seq(Link) /\ temps[p] \in SUBSET Hosts /\ IsFiniteSet(temps[p])
      /\ alone[p] \in BOOLEAN
  BY DEF Sound, Memory
<1>3. Sane(call[p]) /\ (call[p].at # "store" => ~config[p].writing)
  BY DEF Sound, IInv, CallsSound, At
<1> QED BY <1>1, <1>2, <1>3 DEF Sound, Calls, Sane, Copy

\* Where a step leaves its process.
Leaves(p, c, l, t) ==
    /\ c \in Call /\ l \in Seq(Link) /\ t \in SUBSET Hosts /\ IsFiniteSet(t)
    /\ Goto(p, c) /\ links' = [links EXCEPT ![p] = l] /\ temps' = [temps EXCEPT ![p] = t]
    /\ Routed(c, l)
    /\ p \in HasLocal => Follows(c, l, t, file'.data, config'[p].data, alone'[p])

Goes(p) == \E c, l, t : Leaves(p, c, l, t)

\* What is left alone is replaced by itself.
LEMMA LeftAlone ==
    ASSUME Sound, NEW p \in Procs
    PROVE  /\ UNCHANGED links => links' = [links EXCEPT ![p] = links[p]]
           /\ UNCHANGED temps => temps' = [temps EXCEPT ![p] = temps[p]]
  BY DEF Sound, Memory

\* A load leaves the file, and what it reads.
LEMMA LoadReads ==
    ASSUME Sound, NEW p \in Procs, ~config[p].writing, Load(p)
    PROVE  /\ file' = file /\ config'[p] = Loaded(p) /\ config'[p].data \in Tables
           /\ alone[p] /\ config[p].data = file.data => config'[p].data = file.data
           /\ alone[p] /\ LoadOk(p) => config'[p].data = file.data
           /\ ~LoadOk(p) => file.data = Empty
<1>1. config \in [Procs -> Copy] /\ file.data \in Tables /\ (file.time = 0 => file.data = Empty)
  BY DEF Sound, IInv, FileSound
<1>2. file' = file /\ config'[p] = Loaded(p)
  BY <1>1 DEF Load
<1>3. /\ Loaded(p).data \in Tables
      /\ file.time # 0 /\ ~Loaded(p).outrun /\ Readable(file.data) => Loaded(p).data = file.data
      /\ Loaded(p).outrun => config[p].outrun
  BY LoadedCopy DEF Sound, IInv, Copy
<1>4. alone[p] /\ LoadOk(p) => Loaded(p).data = file.data
  BY <1>1, <1>3 DEF LoadOk, Sound, Certain
<1>5. ~LoadOk(p) => Loaded(p).data = config[p].data /\ file.data = Empty
  <2>1. config[p] \in Copy
    BY <1>1
  <2> QED BY <1>1, <2>1 DEF Loaded, LoadOk, Copy
<1> QED BY <1>2, <1>3, <1>4, <1>5

\* update_servers goes on: what the call has done stays done.
LEMMA AddedGoesOn ==
    ASSUME NEW c, NEW e, NEW l, NEW m, NEW t, NEW data, NEW copy, NEW new,
           c.at \in Updating, e.at \in Updating, e.then = c.then, e.host = c.host, e.password = c.password,
           e.id = c.id, e.created = c.created, HasAdded(c, l, t, data, copy)
    PROVE  HasAdded(e, m, t, data, new)
<1>1. c.then = "done" => Wanted(c, data, t) /\ Kept(c, data)
  BY DEF HasAdded
<1>2. c.then = "done" => Wanted(e, data, t) /\ Kept(e, data)
  BY <1>1 DEF Wanted, Kept
<1>3. e.at \notin {"store", "password", "set", "done"}
  BY DEF Updating
<1> QED BY <1>2, <1>3 DEF HasAdded

\* The local server gets a link.
LEMMA UpdateLocalLeads ==
    ASSUME Sound, NEW p \in Procs, UpdateLocal(p)
    PROVE  Goes(p)
<1> DEFINE c == call[p]
           l == links[p]
           t == temps[p]
           m == IF p \in HasLocal /\ l = <<>> THEN <<Local>> ELSE l
           e == [c EXCEPT !.at = "sweep", !.link = Len(m)]
<1>1. /\ c \in Call /\ l \in Seq(Link) /\ t \in SUBSET Hosts /\ IsFiniteSet(t)
      /\ Routed(c, l) /\ c.at = "local" /\ ~config[p].writing
      /\ p \in HasLocal => Follows(c, l, t, file.data, config[p].data, alone[p])
  BY StandsAt DEF UpdateLocal, At
<1>2. m \in Seq(Link) /\ Len(m) \in Nat /\ (p \in HasLocal => m # <<>>) /\ (p \in HasLocal /\ Shape(l) => Shape(m))
  <2>1. Local \in Link /\ <<Local>> \in Seq(Link) /\ <<Local>> # <<>> /\ Shape(<<Local>>)
    <3>1. Local \in Link
      BY RegistryConstants DEF Local, Link
    <3>2. Shape(<<Local>>)
      BY DEF Shape
    <3> HIDE DEF Local
    <3> QED BY <3>1, <3>2
  <2> QED BY <1>1, <2>1
<1>3. links' = [links EXCEPT ![p] = m] /\ file' = file
  <2>1. CASE p \in HasLocal /\ l = <<>>
    BY <2>1 DEF UpdateLocal, Load
  <2>2. CASE ~(p \in HasLocal /\ l = <<>>)
    BY <2>2, LeftAlone DEF UpdateLocal
  <2> QED BY <2>1, <2>2
<1>4. links'[p] = m
  BY <1>3 DEF Sound, Memory
<1>5. Goto(p, e) /\ UNCHANGED <<temps, alone>>
  BY <1>4 DEF UpdateLocal
<1>6. /\ e \in Call /\ e.op = c.op /\ e.at = "sweep" /\ e.then = c.then /\ e.host = c.host /\ e.password = c.password
      /\ e.id = c.id /\ e.link = Len(m) /\ e.place = c.place /\ e.created = c.created
  <2>1. "sweep" \in Ats
    BY DEF Ats, Updating
  <2> HIDE DEF m, c
  <2> QED BY <1>1, <1>2, <2>1 DEF Call, Ats
<1> HIDE DEF c, l, m, e
<1>7. Routed(e, m)
  BY <1>1, <1>2, <1>6 DEF Routed, Updating
<1>8. ASSUME p \in HasLocal
      PROVE  Follows(e, m, t, file'.data, config'[p].data, alone'[p])
  <2>1. Shape(l) /\ (alone[p] /\ c.op = "add" => HasAdded(c, l, t, file.data, config[p].data))
    BY <1>1, <1>8 DEF Follows
  <2>2. Progress(e, m, t, file'.data, config'[p].data)
    <3>1. Matches(m, t, file'.data, e.link)
      BY <1>2, <1>6 DEF Matches
    <3> QED BY <1>6, <3>1 DEF Progress
  <2>3. alone[p] /\ c.op = "add" => HasAdded(e, m, t, file'.data, config'[p].data)
    BY <1>1, <1>3, <1>6, <2>1, AddedGoesOn DEF Updating
  <2> QED BY <1>2, <1>5, <1>6, <1>8, <2>1, <2>2, <2>3 DEF Follows
<1>9. temps' = [temps EXCEPT ![p] = t]
  BY <1>5, LeftAlone
<1>10. Leaves(p, e, m, t)
  BY <1>1, <1>2, <1>3, <1>5, <1>6, <1>7, <1>8, <1>9 DEF Leaves
<1> QED BY <1>10 DEF Goes

\* The last link that has not been looked at stays, or goes and all are looked at again.
LEMMA SweepLeads ==
    ASSUME Sound, NEW p \in Procs, Sweep(p)
    PROVE  Goes(p)
<1> DEFINE c == call[p]
           l == links[p]
           t == temps[p]
           i == c.link
           kept == [c EXCEPT !.link = i - 1]
           gone == [c EXCEPT !.link = Len(l) - 1]
<1>1. /\ c \in Call /\ l \in Seq(Link) /\ t \in SUBSET Hosts /\ IsFiniteSet(t)
      /\ Routed(c, l) /\ c.at = "sweep" /\ ~config[p].writing
      /\ p \in HasLocal => Follows(c, l, t, file.data, config[p].data, alone[p])
  BY StandsAt DEF Sweep, At
<1>2. i \in 2 .. Len(l) /\ i - 1 \in Nat /\ Len(l) - 1 \in Nat
  <2>1. c.link \in Nat /\ i > 1 /\ i <= Len(l)
    BY <1>1 DEF Call, Routed, Sweep
  <2> QED BY <1>1, <2>1
<1>3. file' = file /\ UNCHANGED <<temps, alone>>
  BY <1>1, LoadReads DEF Sweep
<1>4. "sweep" \in Ats
  BY DEF Ats, Updating
<1>5. CASE Keeps(p, l[i])
  <2>1. Goto(p, kept) /\ links' = [links EXCEPT ![p] = l]
    BY <1>5, LeftAlone DEF Sweep
  <2>2. /\ kept \in Call /\ kept.op = c.op /\ kept.at = c.at /\ kept.then = c.then /\ kept.host = c.host
        /\ kept.password = c.password /\ kept.id = c.id /\ kept.link = i - 1 /\ kept.place = c.place
        /\ kept.created = c.created
    <3> HIDE DEF c
    <3> QED BY <1>1, <1>2, <1>4 DEF Call, Ats
  <2> HIDE DEF c, l, kept
  <2>3. Routed(kept, l)
    BY <1>1, <1>2, <2>2 DEF Routed, Updating
  <2>4. ASSUME p \in HasLocal
        PROVE  Follows(kept, l, t, file'.data, config'[p].data, alone'[p])
    <3>1. /\ Shape(l) /\ l # <<>>
          /\ alone[p] => Matches(l, t, file.data, i)
          /\ alone[p] /\ c.op = "add" => HasAdded(c, l, t, file.data, config[p].data)
      BY <1>1, <2>4 DEF Follows, Progress, Updating
    <3>2. alone[p] => Matches(l, t, file.data, i - 1)
      <4>0. ASSUME alone[p] PROVE ~config[p].outrun /\ Readable(file.data)
        BY <4>0 DEF Sound, Certain
      <4> SUFFICES ASSUME alone[p], NEW j \in 2 .. Len(l), j > i - 1
                   PROVE  IF l[j].id = Temporary THEN l[j].host \in t
                          ELSE <<l[j].id, "Host">> \in DOMAIN file.data /\ file.data[<<l[j].id, "Host">>] = l[j].host
        BY DEF Matches
      <4>1. CASE j > i
        BY <3>1, <4>1 DEF Matches
      <4>2. CASE j = i
        <5>1. l[i].host # Nothing
          BY <1>2, <3>1 DEF Shape
        <5>2. CASE l[i].id = Temporary
          BY <1>5, <4>2, <5>2 DEF Keeps
        <5>3. CASE l[i].id # Temporary
          <6>1. Value(p, <<l[i].id, "Host">>) = l[i].host
            BY <1>5, <5>3 DEF Keeps
          <6>2. Value(p, <<l[i].id, "Host">>) =
                  IF <<l[i].id, "Host">> \in DOMAIN file.data THEN file.data[<<l[i].id, "Host">>] ELSE Nothing
            BY <1>1, <4>0, ValueIsThere DEF Sound, Certain
          <6> QED BY <4>2, <5>1, <5>3, <6>1, <6>2
        <5> QED BY <5>2, <5>3
      <4> QED BY <1>2, <4>1, <4>2
    <3>3. alone[p] => Progress(kept, l, t, file'.data, config'[p].data)
      BY <1>1, <1>3, <2>2, <3>2 DEF Progress
    <3>4. alone[p] /\ c.op = "add" => HasAdded(kept, l, t, file'.data, config'[p].data)
      BY <1>1, <1>3, <2>2, <3>1, AddedGoesOn DEF Updating
    <3> QED BY <1>1, <1>3, <2>2, <2>4, <3>1, <3>3, <3>4 DEF Follows
  <2>5. temps' = [temps EXCEPT ![p] = t]
    BY <1>3, LeftAlone
  <2>6. Leaves(p, kept, l, t)
    BY <1>1, <2>1, <2>2, <2>3, <2>4, <2>5 DEF Leaves
  <2> QED BY <2>6 DEF Goes
<1>6. CASE ~Keeps(p, l[i])
  <2> DEFINE m == RemoveAt(l, i)
  <2>1. Goto(p, gone) /\ links' = [links EXCEPT ![p] = m]
    BY <1>6 DEF Sweep
  <2>2. /\ gone \in Call /\ gone.op = c.op /\ gone.at = c.at /\ gone.then = c.then /\ gone.host = c.host
        /\ gone.password = c.password /\ gone.id = c.id /\ gone.link = Len(l) - 1 /\ gone.place = c.place
        /\ gone.created = c.created
    <3> HIDE DEF c, l
    <3> QED BY <1>1, <1>2, <1>4 DEF Call, Ats
  <2>3. m \in Seq(Link) /\ Len(m) = Len(l) - 1
    BY <1>1, <1>2, Removed
  <2> HIDE DEF c, l, gone, m
  <2>4. Routed(gone, m)
    BY <1>1, <1>2, <2>2, <2>3 DEF Routed, Updating
  <2>5. ASSUME p \in HasLocal
        PROVE  Follows(gone, m, t, file'.data, config'[p].data, alone'[p])
    <3>1. Shape(l) /\ (alone[p] /\ c.op = "add" => HasAdded(c, l, t, file.data, config[p].data))
      BY <1>1, <2>5 DEF Follows
    <3>2. Shape(m) /\ m # <<>>
      BY <1>1, <1>2, <2>3, <3>1, ShapeRemoved DEF m
    <3>3. Matches(m, t, file'.data, gone.link)
      BY <2>2, <2>3 DEF Matches
    <3>4. Progress(gone, m, t, file'.data, config'[p].data)
      BY <1>1, <2>2, <3>3 DEF Progress
    <3>5. alone[p] /\ c.op = "add" => HasAdded(gone, m, t, file'.data, config'[p].data)
      BY <1>1, <1>3, <2>2, <3>1, AddedGoesOn DEF Updating
    <3> QED BY <1>1, <1>3, <2>2, <2>5, <3>1, <3>2, <3>4, <3>5 DEF Follows
  <2>6. temps' = [temps EXCEPT ![p] = t]
    BY <1>3, LeftAlone
  <2>7. Leaves(p, gone, m, t)
    BY <1>1, <2>1, <2>2, <2>3, <2>4, <2>5, <2>6 DEF Leaves
  <2> QED BY <2>7 DEF Goes
<1> QED BY <1>5, <1>6

\* update_servers begins to enumerate, or goes on: the call, what it reads, and where.
Passing(p) == [call[p] EXCEPT !.link = 0, !.next = IF At(p, "sweep") THEN 1 ELSE @]
Reading(p) == IF Passing(p).place = 0 THEN Loaded(p) ELSE config[p]
NextPlace(p) == IF Passing(p).place = 0 /\ ~LoadOk(p) THEN 0 ELSE Enumerate(Reading(p).data, Passing(p).place)

\* What is known when it has.
LEMMA SectionReads ==
    ASSUME Sound, NEW p \in Procs, Section(p)
    PROVE  LET c == Passing(p) d == call[p] l == links[p] t == temps[p] data == file.data IN
           /\ c \in Call /\ c.op = d.op /\ c.at = d.at /\ c.then = d.then /\ c.host = d.host
           /\ c.password = d.password /\ c.id = d.id /\ c.place = d.place /\ c.created = d.created
           /\ file' = file /\ config'[p].data = Reading(p).data /\ Reading(p).data \in Tables
           /\ c.at \in {"sweep", "sections"} /\ c.place \in Nat /\ Routed(d, l)
           /\ p \in HasLocal /\ alone[p] =>
                /\ Matches(l, t, data, 1) /\ Linked(l, data, Passed(data, c.place))
                /\ \A n \in Passed(data, c.place) : n < c.next
                /\ c.place # 0 => \E key \in DOMAIN data : Place(data, key) = c.place
                /\ c.place # 0 \/ LoadOk(p) => Reading(p).data = data
                /\ c.place = 0 /\ ~LoadOk(p) => data = Empty
<1> DEFINE c == Passing(p)
           d == call[p]
           l == links[p]
           t == temps[p]
           data == file.data
<1>1. /\ d \in Call /\ l \in Seq(Link) /\ data \in Tables /\ config[p].data \in Tables
      /\ Routed(d, l) /\ ~config[p].writing /\ d.at \in {"sweep", "sections"}
      /\ p \in HasLocal => Follows(d, l, t, data, config[p].data, alone[p])
  BY StandsAt DEF Section, At
<1>2. d.at = "sweep" => d.link <= 1 /\ d.link \in Nat
  BY <1>1 DEF Section, At, Call
<1>3. /\ c \in Call /\ c.op = d.op /\ c.at = d.at /\ c.then = d.then /\ c.host = d.host
      /\ c.password = d.password /\ c.id = d.id /\ c.place = d.place /\ c.created = d.created
      /\ c.next = IF d.at = "sweep" THEN 1 ELSE d.next
  <2>1. (IF At(p, "sweep") THEN 1 ELSE d.next) \in Nat \ {0} /\ 0 \in Nat
    BY <1>1 DEF Call
  <2>2. c = [d EXCEPT !.link = 0, !.next = IF d.at = "sweep" THEN 1 ELSE d.next]
    BY DEF Passing, At
  <2> HIDE DEF c, d
  <2> QED BY <1>1, <2>1, <2>2 DEF Call, At, d
<1>4. c.place \in Nat
  BY <1>3 DEF Call
<1>5. IF c.place = 0 THEN Load(p) ELSE UNCHANGED <<file, now, config>>
  BY DEF Section, Passing
<1>6. c.place = 0 => Load(p)
  BY <1>5
<1>7. c.place # 0 => UNCHANGED <<file, now, config>>
  BY <1>5
<1>8. file' = file /\ config'[p].data = Reading(p).data /\ Reading(p).data \in Tables
      /\ (alone[p] /\ LoadOk(p) /\ c.place = 0 => Reading(p).data = data)
      /\ (c.place = 0 /\ ~LoadOk(p) => data = Empty)
  <2>1. CASE c.place = 0
    BY <1>1, <1>6, <2>1, LoadReads DEF Reading
  <2>2. CASE c.place # 0
    BY <1>1, <1>7, <2>2 DEF Reading
  <2> QED BY <2>1, <2>2
<1> HIDE DEF c, d, l, t, data
<1>9. ASSUME p \in HasLocal, alone[p]
      PROVE  /\ Matches(l, t, data, 1) /\ Linked(l, data, Passed(data, c.place))
             /\ \A n \in Passed(data, c.place) : n < c.next
             /\ c.place # 0 => \E key \in DOMAIN data : Place(data, key) = c.place
             /\ c.place # 0 => Reading(p).data = data
  <2>1. Progress(d, l, t, data, config[p].data)
    BY <1>1, <1>9 DEF Follows
  <2>2. CASE d.at = "sweep"
    <3>1. c.place = 0
      BY <1>1, <1>3, <2>2 DEF Routed
    <3>2. Passed(data, c.place) = {}
      BY <1>1, <3>1, NothingPassed
    <3>3. Matches(l, t, data, d.link)
      BY <2>1, <2>2 DEF Progress
    <3>4. Matches(l, t, data, 1)
      <4>1. \A j \in 2 .. Len(l) : j > 1 => j > d.link
        BY <1>1, <1>2, <2>2
      <4> QED BY <3>3, <4>1 DEF Matches
    <3> QED BY <3>1, <3>2, <3>4 DEF Linked
  <2>3. CASE d.at = "sections"
    <3>1. /\ Matches(l, t, data, 1) /\ config[p].data = data
          /\ \E key \in DOMAIN data : Place(data, key) = d.place
          /\ \A n \in Passed(data, d.place) : n < d.next
          /\ Linked(l, data, Passed(data, d.place))
      BY <2>1, <2>3 DEF Progress
    <3>2. c.place # 0 => Reading(p).data = data
      BY <3>1 DEF Reading, c
    <3> QED BY <1>3, <2>3, <3>1, <3>2
  <2> QED BY <1>1, <2>2, <2>3
<1>10. p \in HasLocal /\ alone[p] => (c.place # 0 \/ LoadOk(p) => Reading(p).data = data)
  BY <1>4, <1>8, <1>9
<1> QED BY <1>1, <1>3, <1>4, <1>8, <1>9, <1>10 DEF c, d, l, t, data

\* The links that were there stay, and the temporary servers that had none have one.
LEMMA NowComplete ==
    ASSUME NEW l \in Seq(Link), NEW m \in Seq(Link), NEW t, NEW S \in SUBSET t, NEW data, NEW sections,
           DOMAIN data \subseteq Keys,
           Len(l) <= Len(m), \A j \in 1 .. Len(l) : m[j] = l[j],
           \A j \in Len(l) + 1 .. Len(m) : m[j].id = Temporary /\ m[j].host \in S,
           \A h \in S : Finds(m, h), \A h \in t \ S : Finds(l, h),
           Matches(l, t, data, 1), Linked(l, data, sections), \A key \in DOMAIN data : key[1] \in sections
    PROVE  Complete(m, t, data)
<1>1. Len(l) \in Nat /\ Len(m) \in Nat
  OBVIOUS
<1>2. Matches(m, t, data, 1)
  <2> SUFFICES ASSUME NEW j \in 2 .. Len(m), j > 1
               PROVE  IF m[j].id = Temporary THEN m[j].host \in t
                      ELSE <<m[j].id, "Host">> \in DOMAIN data /\ data[<<m[j].id, "Host">>] = m[j].host
    BY DEF Matches
  <2>1. CASE j <= Len(l)
    <3>1. j \in 2 .. Len(l) /\ m[j] = l[j]
      BY <1>1, <2>1
    <3> QED BY <3>1 DEF Matches
  <2>2. CASE ~(j <= Len(l))
    <3>1. j \in Len(l) + 1 .. Len(m)
      BY <1>1, <2>2
    <3> QED BY <3>1
  <2> QED BY <2>1, <2>2
<1>3. Linked(m, data, Ids)
  <2> SUFFICES ASSUME NEW k \in Served(data)
               PROVE  \E j \in 2 .. Len(m) : m[j].id = k[1]
    BY DEF Linked
  <2>1. PICK j \in 2 .. Len(l) : l[j].id = k[1]
    BY DEF Linked, Served
  <2>2. j \in 2 .. Len(m) /\ j \in 1 .. Len(l)
    BY <1>1
  <2> QED BY <2>1, <2>2
<1>4. ASSUME NEW h \in t
      PROVE  Finds(m, h)
  <2>1. CASE h \in S
    BY <2>1
  <2>2. CASE h \notin S
    <3>1. PICK j \in DOMAIN l : l[j].host = h
      BY <2>2 DEF Finds
    <3>2. j \in DOMAIN m /\ m[j] = l[j]
      BY <1>1
    <3> QED BY <3>1, <3>2 DEF Finds
  <2> QED BY <2>1, <2>2
<1> QED BY <1>2, <1>3, <1>4 DEF Complete

\* The first link stays the first, and the others remain remote.
LEMMA ShapeGrows ==
    ASSUME NEW l \in Seq(Link), NEW m \in Seq(Link), Shape(l), l # <<>>, Len(l) <= Len(m),
           \A j \in 1 .. Len(l) : m[j] = l[j],
           \A j \in Len(l) + 1 .. Len(m) : m[j].id # 0 /\ m[j].host # Nothing
    PROVE  Shape(m) /\ m # <<>>
<1>1. Len(l) \in Nat \ {0} /\ Len(m) \in Nat
  OBVIOUS
<1>2. m[1] = l[1] /\ m # <<>>
  BY <1>1
<1>3. ASSUME NEW j \in 2 .. Len(m)
      PROVE  m[j].id # 0 /\ m[j].host # Nothing
  <2>1. CASE j <= Len(l)
    <3>1. j \in 2 .. Len(l) /\ j \in 1 .. Len(l)
      BY <1>1, <2>1
    <3> QED BY <3>1 DEF Shape
  <2>2. CASE ~(j <= Len(l))
    <3>1. j \in Len(l) + 1 .. Len(m)
      BY <1>1, <2>2
    <3> QED BY <3>1
  <2> QED BY <2>1, <2>2
<1> QED BY <1>2, <1>3 DEF Shape

\* There is no section left: update_servers returns.
LEMMA SectionsOver ==
    ASSUME Sound, NEW p \in Procs, Section(p), NextPlace(p) = 0
    PROVE  Goes(p)
<1> DEFINE c == Passing(p)
           l == links[p]
           t == temps[p]
           data == file.data
           S == {h \in t : FindServer(p, h) = NoLink}
           e == [c EXCEPT !.at = c.then, !.then = "idle", !.place = 0, !.next = IF c.then = "done" THEN 1 ELSE @]
<1>1. AddTemporaries(p, c) /\ UNCHANGED <<temps, alone>>
  BY DEF Section, NextPlace, Passing, Reading
<1>2. PICK order \in SetToSeqs(S) : links' = [links EXCEPT ![p] = l \o TemporaryLinks(order)]
  BY <1>1 DEF AddTemporaries, TemporaryLinks, Sound, Memory
<1>3. Goto(p, e)
  BY <1>1 DEF AddTemporaries
<1> DEFINE m == l \o TemporaryLinks(order)
<1>4. /\ l \in Seq(Link) /\ t \in SUBSET Hosts /\ IsFiniteSet(t) /\ data \in Tables
      /\ p \in HasLocal => Follows(call[p], l, t, data, config[p].data, alone[p])
  BY StandsAt
<1>5. S \in SUBSET t /\ IsFiniteSet(S) /\ \A h \in t \ S : Finds(l, h)
  <2>1. S \in SUBSET t
    OBVIOUS
  <2>2. IsFiniteSet(S)
    BY <1>4, <2>1, FS_Subset
  <2>3. \A h \in t \ S : Finds(l, h)
    BY <1>4, FindServerFinds
  <2> QED BY <2>1, <2>2, <2>3
<1>6. /\ m \in Seq(Link) /\ Len(m) \in Nat /\ Len(l) <= Len(m)
      /\ \A j \in 1 .. Len(l) : m[j] = l[j]
      /\ \A j \in Len(l) + 1 .. Len(m) : m[j].id = Temporary /\ m[j].host \in S
      /\ \A h \in S : Finds(m, h)
  <2> HIDE DEF S, l, t
  <2> QED BY <1>2, <1>4, <1>5, TemporariesAdded
<1> HIDE DEF m, S
<1>7. LET d == call[p] IN
      /\ c \in Call /\ c.op = d.op /\ c.at = d.at /\ c.then = d.then /\ c.host = d.host
      /\ c.password = d.password /\ c.id = d.id /\ c.place = d.place /\ c.created = d.created
      /\ file' = file /\ c.at \in {"sweep", "sections"} /\ Routed(d, l)
  BY SectionReads
<1>8. c.at \in Updating /\ c.then \in {"done", "found", "create", "again"} /\ (c.then # "done" => ~c.created)
  BY <1>7 DEF Routed, Updating
<1>9. /\ e \in Call /\ e.op = c.op /\ e.at = c.then /\ e.then = "idle" /\ e.host = c.host
      /\ e.password = c.password /\ e.id = c.id /\ e.place = 0 /\ e.created = c.created
      /\ (c.then # "done" => e.next = c.next)
  <2>1. c.then \in Ats /\ "idle" \in Thens /\ 0 \in Nat
        /\ (IF c.then = "done" THEN 1 ELSE c.next) \in Nat \ {0}
    BY <1>7, <1>8 DEF Ats, Thens, Call
  <2> DEFINE n == IF c.then = "done" THEN 1 ELSE c.next
  <2>2. e = [c EXCEPT !.at = c.then, !.then = "idle", !.place = 0, !.next = n] /\ (c.then # "done" => n = c.next)
    OBVIOUS
  <2> HIDE DEF c, n, e
  <2>3. n \in Nat \ {0}
    BY <2>1 DEF n
  <2> QED BY <1>7, <2>1, <2>2, <2>3 DEF Call, Ats
<1> HIDE DEF c, e
<1>10. Routed(e, m)
  BY <1>8, <1>9 DEF Routed, Updating
<1>11. ASSUME p \in HasLocal
       PROVE  Follows(e, m, t, file'.data, config'[p].data, alone'[p])
  <2>1. Shape(l) /\ l # <<>> /\ (alone[p] /\ c.op = "add" => HasAdded(call[p], l, t, data, config[p].data))
    <3>1. call[p].at \in Updating \ {"local"}
      BY <1>7 DEF Updating
    <3> QED BY <1>4, <1>7, <1>11, <3>1 DEF Follows
  <2>2. Shape(m) /\ m # <<>>
    <3>1. \A j \in Len(l) + 1 .. Len(m) : m[j].id # 0 /\ m[j].host # Nothing
      BY <1>4, <1>5, <1>6, RegistryConstants
    <3> QED BY <1>4, <1>6, <2>1, <3>1, ShapeGrows
  <2>3. ASSUME alone[p]
        PROVE  /\ Complete(m, t, data)
               /\ c.then # "done" => \A key \in DOMAIN data : key[1] < e.next
    <3>1. /\ Matches(l, t, data, 1) /\ Linked(l, data, Passed(data, c.place))
          /\ \A n \in Passed(data, c.place) : n < c.next
          /\ c.place \in Nat /\ (c.place # 0 => \E key \in DOMAIN data : Place(data, key) = c.place)
          /\ c.place # 0 \/ LoadOk(p) => Reading(p).data = data
          /\ c.place = 0 /\ ~LoadOk(p) => data = Empty
      BY <1>11, <2>3, SectionReads DEF c
    <3>2. \A key \in DOMAIN data : key[1] \in Passed(data, c.place)
      <4>1. CASE c.place = 0 /\ ~LoadOk(p)
        BY <3>1, <4>1 DEF Empty
      <4>2. CASE c.place # 0 \/ LoadOk(p)
        <5>1. Enumerate(data, c.place) = 0
          BY <3>1, <4>2 DEF NextPlace, c
        <5> QED BY <1>4, <3>1, <5>1, EnumerateGoesOn
      <4> QED BY <3>1, <4>1, <4>2
    <3>3. DOMAIN data \subseteq Keys
      BY <1>4, TableShape
    <3>4. Complete(m, t, data)
      BY <1>4, <1>5, <1>6, <3>1, <3>2, <3>3, NowComplete
    <3> QED BY <1>9, <3>1, <3>2, <3>4
  <2>4. alone[p] => Progress(e, m, t, file'.data, config'[p].data)
    <3>1. e.at \notin {"sweep", "sections", "host"} /\ (e.at # "done" => c.then # "done")
      BY <1>8, <1>9
    <3> QED BY <1>7, <2>3, <3>1 DEF Progress
  <2>5. ASSUME alone[p], e.op = "add"
        PROVE  HasAdded(e, m, t, file'.data, config'[p].data)
    <3>1. CASE c.then = "done"
      <4>1. Wanted(call[p], data, t) /\ Kept(call[p], data)
        BY <1>7, <1>8, <1>9, <2>1, <2>5, <3>1 DEF HasAdded
      <4>2. Wanted(e, data, t) /\ Kept(e, data)
        BY <1>7, <1>9, <4>1 DEF Wanted, Kept
      <4>3. DOMAIN data \subseteq Keys
        BY <1>4, TableShape
      <4>4. Finds(m, e.host)
        BY <1>6, <2>3, <2>5, <4>2, <4>3, WantedIsFound
      <4> QED BY <1>7, <1>9, <3>1, <4>2, <4>4 DEF HasAdded, Updating
    <3>2. CASE c.then # "done"
      BY <1>8, <1>9, <3>2 DEF HasAdded, Updating
    <3> QED BY <3>1, <3>2
  <2>6. e.at \notin Updating \ {"local"}
    BY <1>8, <1>9 DEF Updating
  <2>7. alone'[p] = alone[p]
    BY <1>1
  <2> QED BY <1>9, <2>2, <2>4, <2>5, <2>6, <2>7 DEF Follows
<1>12. temps' = [temps EXCEPT ![p] = t]
  BY <1>1, LeftAlone
<1>13. Leaves(p, e, m, t)
  BY <1>2, <1>3, <1>4, <1>6, <1>9, <1>10, <1>11, <1>12 DEF Leaves, m
<1> QED BY <1>13 DEF Goes

\* There is a section: it is Remote0, which is passed over, or its host is asked for.
LEMMA SectionGoesOn ==
    ASSUME Sound, NEW p \in Procs, Section(p), NextPlace(p) # 0
    PROVE  Goes(p)
<1> DEFINE c == Passing(p)
           l == links[p]
           t == temps[p]
           data == file.data
           place == NextPlace(p)
           id == KeyAt(Reading(p).data, place)[1]
           next == IF id >= c.next THEN id + 1 ELSE c.next
           over == [c EXCEPT !.at = "sections", !.place = place]
           seen == [c EXCEPT !.at = "host", !.place = place, !.section = id, !.next = next]
<1>1. UNCHANGED <<links, temps, alone>> /\ Goto(p, IF id = 0 THEN over ELSE seen)
  <2>1. /\ UNCHANGED <<links, temps, alone>>
        /\ Goto(p, IF id = 0 THEN [c EXCEPT !.at = "sections", !.place = place]
                   ELSE [c EXCEPT !.at = "host", !.place = place, !.section = id,
                                  !.next = IF id >= @ THEN id + 1 ELSE @])
    BY DEF Section, NextPlace, Passing, Reading
  <2>2. [c EXCEPT !.at = "host", !.place = place, !.section = id, !.next = IF id >= @ THEN id + 1 ELSE @] = seen
    <3> HIDE DEF c, place, id
    <3> QED OBVIOUS
  <2> HIDE DEF c, place, id, seen
  <2> QED BY <2>1, <2>2
<1>2. LET d == call[p] IN
      /\ c \in Call /\ c.op = d.op /\ c.at = d.at /\ c.then = d.then /\ c.host = d.host
      /\ c.password = d.password /\ c.id = d.id /\ c.place = d.place /\ c.created = d.created
      /\ file' = file /\ config'[p].data = Reading(p).data /\ Reading(p).data \in Tables
      /\ c.at \in {"sweep", "sections"} /\ c.place \in Nat /\ Routed(d, l)
  BY SectionReads
<1>3. /\ l \in Seq(Link) /\ t \in SUBSET Hosts /\ IsFiniteSet(t) /\ data \in Tables
      /\ p \in HasLocal => Follows(call[p], l, t, data, config[p].data, alone[p])
  BY StandsAt
<1>4. place = Enumerate(Reading(p).data, c.place) /\ (c.place # 0 \/ LoadOk(p))
  BY DEF NextPlace
<1>5. /\ place \in Nat \ {0} /\ KeyAt(Reading(p).data, place) \in DOMAIN Reading(p).data
      /\ Place(Reading(p).data, KeyAt(Reading(p).data, place)) = place
  <2> HIDE DEF c
  <2> QED BY <1>2, <1>4, EnumerateReturns
<1>6. id \in Ids /\ id \in Nat
  <2>1. KeyAt(Reading(p).data, place) \in Keys
    BY <1>2, <1>5, TableShape
  <2> HIDE DEF place
  <2> QED BY <2>1, ConfigConstants DEF Keys
<1>7. next \in Nat \ {0} /\ id < next /\ c.next <= next /\ c.next \in Nat \ {0}
  <2>1. c.next \in Nat \ {0}
    BY <1>2 DEF Call
  <2> HIDE DEF c, id
  <2> QED BY <1>6, <2>1
<1>8. /\ over \in Call /\ over.op = c.op /\ over.at = "sections" /\ over.then = c.then /\ over.host = c.host
      /\ over.password = c.password /\ over.id = c.id /\ over.place = place /\ over.created = c.created
      /\ over.next = c.next
  <2> HIDE DEF c, place
  <2> QED BY <1>2, <1>5 DEF Call, Updating
<1>9. /\ seen \in Call /\ seen.op = c.op /\ seen.at = "host" /\ seen.then = c.then /\ seen.host = c.host
      /\ seen.password = c.password /\ seen.id = c.id /\ seen.place = place /\ seen.created = c.created
      /\ seen.next = next /\ seen.section = id
  <2> HIDE DEF c, place, id, next
  <2> QED BY <1>2, <1>5, <1>6, <1>7 DEF Call, Updating
<1> DEFINE e == IF id = 0 THEN over ELSE seen
<1> HIDE DEF c, l, t, data, place, id, next, over, seen
<1>10. /\ e \in Call /\ e.op = c.op /\ e.at = (IF id = 0 THEN "sections" ELSE "host") /\ e.then = c.then
       /\ e.host = c.host /\ e.password = c.password /\ e.id = c.id /\ e.place = place /\ e.created = c.created
       /\ e.next \in Nat /\ c.next <= e.next /\ (id # 0 => id < e.next /\ e.section = id)
  BY <1>6, <1>7, <1>8, <1>9
<1> HIDE DEF e
<1>11. Routed(e, l)
  BY <1>2, <1>5, <1>10 DEF Routed, Updating
<1>12. ASSUME p \in HasLocal
       PROVE  Follows(e, l, t, file'.data, config'[p].data, alone'[p])
  <2>1. Shape(l) /\ l # <<>> /\ (alone[p] /\ c.op = "add" => HasAdded(call[p], l, t, data, config[p].data))
    <3>1. call[p].at \in Updating \ {"local"}
      BY <1>2 DEF Updating
    <3> QED BY <1>2, <1>3, <1>12, <3>1 DEF Follows
  <2>2. ASSUME alone[p]
        PROVE  Progress(e, l, t, file'.data, config'[p].data)
    <3>1. /\ Matches(l, t, data, 1) /\ Linked(l, data, Passed(data, c.place))
          /\ \A n \in Passed(data, c.place) : n < c.next
          /\ (c.place # 0 => \E key \in DOMAIN data : Place(data, key) = c.place)
          /\ Reading(p).data = data
      BY <1>4, <1>12, <2>2, SectionReads DEF c, l, t, data
    <3>2. Passed(data, place) \subseteq Passed(data, c.place) \cup {id}
      <4>1. place = Enumerate(data, c.place) /\ id = KeyAt(data, place)[1]
        BY <1>4, <3>1 DEF id
      <4> QED BY <1>2, <1>3, <1>5, <3>1, <4>1, EnumerateGoesOn
    <3>3. \E key \in DOMAIN data : Place(data, key) = place
      BY <1>5, <3>1
    <3>4. \A n \in Passed(data, place) : n < e.next
      <4>1. \A n \in Passed(data, place) : n \in Nat
        <5>1. DOMAIN data \subseteq Keys
          BY <1>3, TableShape
        <5> QED BY <5>1, ConfigConstants DEF Passed, Keys
      <4>2. ASSUME NEW n \in Passed(data, place)
            PROVE  n < e.next
        <5>1. CASE n = id
          <6>1. 0 < e.next
            BY <1>7, <1>10
          <6> QED BY <1>10, <5>1, <6>1
        <5>2. CASE n # id
          <6>1. n \in Passed(data, c.place)
            BY <3>2, <5>2
          <6> QED BY <1>7, <1>10, <3>1, <4>1, <6>1
        <5> QED BY <5>1, <5>2
      <4> QED BY <4>2
    <3>5. id = 0 => Linked(l, data, Passed(data, place))
      BY <3>1, <3>2 DEF Linked, Served
    <3>6. id # 0 => Linked(l, data, Passed(data, place) \ {id})
      BY <3>1, <3>2 DEF Linked
    <3>7. file'.data = data /\ config'[p].data = data
      BY <1>2, <3>1 DEF data
    <3> QED BY <1>10, <3>1, <3>3, <3>4, <3>5, <3>6, <3>7 DEF Progress
  <2>3. alone[p] /\ c.op = "add" => HasAdded(e, l, t, file'.data, config'[p].data)
    <3>1. call[p].at \in Updating /\ e.at \in Updating
      BY <1>2, <1>10 DEF Updating
    <3>2. file'.data = data
      BY <1>2 DEF data
    <3> QED BY <1>2, <1>10, <2>1, <3>1, <3>2, AddedGoesOn
  <2> QED BY <1>1, <1>10, <2>1, <2>2, <2>3 DEF Follows
<1>13. temps' = [temps EXCEPT ![p] = t] /\ links' = [links EXCEPT ![p] = l]
  BY <1>1, LeftAlone DEF l, t
<1>14. Leaves(p, e, l, t)
  BY <1>1, <1>3, <1>10, <1>11, <1>12, <1>13 DEF Leaves, e
<1> QED BY <1>14 DEF Goes

\* The host of a section gets a link, if there is none with its id.
LEMMA AddLinkLeads ==
    ASSUME Sound, NEW p \in Procs, AddLink(p)
    PROVE  Goes(p)
<1> DEFINE c == call[p]
           l == links[p]
           t == temps[p]
           data == file.data
           id == c.section
           host == Value(p, <<id, "Host">>)
           new == [id |-> id, host |-> host]
           adds == host # Nothing /\ \A i \in DOMAIN l : l[i].id # id
           m == IF adds THEN Append(l, new) ELSE l
           e == [c EXCEPT !.at = "sections", !.section = 0]
<1>1. /\ c \in Call /\ l \in Seq(Link) /\ t \in SUBSET Hosts /\ IsFiniteSet(t) /\ data \in Tables
      /\ Routed(c, l) /\ c.at = "host" /\ ~config[p].writing
      /\ p \in HasLocal => Follows(c, l, t, data, config[p].data, alone[p])
  BY StandsAt DEF AddLink, At
<1>2. Goto(p, e) /\ Load(p) /\ UNCHANGED <<temps, alone>> /\ links' = IF adds THEN [links EXCEPT ![p] = Append(@, new)] ELSE links
  BY DEF AddLink
<1>3. links' = [links EXCEPT ![p] = m]
  <2>1. [links EXCEPT ![p] = Append(@, new)] = [links EXCEPT ![p] = Append(l, new)]
    <3> HIDE DEF new
    <3> QED BY DEF Sound, Memory
  <2>2. UNCHANGED links => links' = [links EXCEPT ![p] = l]
    BY LeftAlone
  <2> HIDE DEF adds, new
  <2> QED BY <1>2, <2>1, <2>2
<1>4. file' = file /\ (alone[p] /\ config[p].data = data => config'[p].data = data)
  BY <1>1, <1>2, LoadReads
<1>5. id \in Ids /\ id # 0
  BY <1>1 DEF Call, Routed
<1>6. host \in Hosts \cup {Nothing}
  <2>1. <<id, "Host">> \in Keys /\ <<id, "Host">>[2] = "Host"
    BY <1>5 DEF Keys
  <2>2. Value(p, <<id, "Host">>) \in (IF <<id, "Host">>[2] = "Host" THEN Hosts ELSE Passwords) \cup {Nothing}
    <3> HIDE DEF id
    <3> QED BY <1>1, <2>1, ValueTyped DEF Sound
  <2> QED BY <2>1, <2>2
<1>7. alone[p] => host = IF <<id, "Host">> \in DOMAIN data THEN data[<<id, "Host">>] ELSE Nothing
  BY <1>1, ValueIsThere DEF Sound, Certain
<1> HIDE DEF id, host
<1>8. new \in Link /\ new.id = id /\ new.host = host
  BY <1>5, <1>6 DEF Link
<1> HIDE DEF new
<1>9. /\ m \in Seq(Link) /\ Len(l) \in Nat /\ Len(m) = (IF adds THEN Len(l) + 1 ELSE Len(l))
      /\ \A j \in 1 .. Len(l) : m[j] = l[j]
      /\ adds => m[Len(l) + 1] = new
  <2>1. /\ Append(l, new) \in Seq(Link) /\ Len(Append(l, new)) = Len(l) + 1 /\ Len(l) \in Nat
        /\ \A j \in 1 .. Len(l) : Append(l, new)[j] = l[j]
        /\ Append(l, new)[Len(l) + 1] = new
    BY <1>1, <1>8, LinkAdded
  <2> HIDE DEF adds
  <2> QED BY <1>1, <2>1
<1>10. /\ e \in Call /\ e.op = c.op /\ e.at = "sections" /\ e.then = c.then /\ e.host = c.host
       /\ e.password = c.password /\ e.id = c.id /\ e.place = c.place /\ e.created = c.created
       /\ e.next = c.next
  <2> HIDE DEF c
  <2> QED BY <1>1, RegistryConstants DEF Call, Updating
<1> HIDE DEF c, l, t, data, m, e
<1>11. Routed(e, m)
  BY <1>1, <1>10 DEF Routed, Updating
<1>12. ASSUME p \in HasLocal
       PROVE  Follows(e, m, t, file'.data, config'[p].data, alone'[p])
  <2>1. Shape(l) /\ l # <<>> /\ (alone[p] /\ c.op = "add" => HasAdded(c, l, t, data, config[p].data))
    <3>1. c.at \in Updating \ {"local"}
      BY <1>1 DEF Updating
    <3> QED BY <1>1, <1>12, <3>1 DEF Follows
  <2>2. Shape(m) /\ m # <<>>
    <3>1. \A j \in Len(l) + 1 .. Len(m) : m[j].id # 0 /\ m[j].host # Nothing
      BY <1>5, <1>8, <1>9
    <3> QED BY <1>1, <1>9, <2>1, <3>1, ShapeGrows
  <2>3. ASSUME alone[p]
        PROVE  Progress(e, m, t, file'.data, config'[p].data)
    <3>1. /\ Matches(l, t, data, 1) /\ config[p].data = data
          /\ \E key \in DOMAIN data : Place(data, key) = c.place
          /\ \A n \in Passed(data, c.place) : n < c.next
          /\ Linked(l, data, Passed(data, c.place) \ {id})
      <4>1. Progress(c, l, t, data, config[p].data)
        BY <1>1, <1>12, <2>3 DEF Follows
      <4> QED BY <1>1, <4>1 DEF Progress, id
    <3>2. Matches(m, t, data, 1)
      <4> SUFFICES ASSUME NEW j \in 2 .. Len(m)
                   PROVE  IF m[j].id = Temporary THEN m[j].host \in t
                          ELSE <<m[j].id, "Host">> \in DOMAIN data /\ data[<<m[j].id, "Host">>] = m[j].host
        BY DEF Matches
      <4>1. CASE j <= Len(l)
        <5>1. j \in 2 .. Len(l) /\ m[j] = l[j] /\ j > 1
          BY <1>9, <4>1
        <5> QED BY <3>1, <5>1 DEF Matches
      <4>2. CASE ~(j <= Len(l))
        <5>1. adds /\ m[j] = new
          <6> HIDE DEF adds
          <6>1. adds
            BY <1>9, <4>2
          <6>2. j = Len(l) + 1
            BY <1>9, <4>2, <6>1
          <6> QED BY <1>9, <6>1, <6>2
        <5>2. host # Nothing
          BY <5>1
        <5>3. id # Temporary
          BY <1>5, RegistryConstants
        <5> QED BY <1>7, <1>8, <2>3, <5>1, <5>2, <5>3
      <4> QED BY <4>1, <4>2
    <3>3. Linked(m, data, Passed(data, c.place))
      <4> SUFFICES ASSUME NEW k \in Served(data), k[1] \in Passed(data, c.place)
                   PROVE  \E j \in 2 .. Len(m) : m[j].id = k[1]
        BY DEF Linked
      <4>1. CASE k[1] # id
        <5>1. PICK j \in 2 .. Len(l) : l[j].id = k[1]
          BY <3>1, <4>1 DEF Linked
        <5>2. j \in 2 .. Len(m) /\ m[j] = l[j]
          BY <1>9
        <5> QED BY <5>1, <5>2
      <4>2. CASE k[1] = id
        <5>1. k = <<id, "Host">> /\ k \in DOMAIN data
          <6>1. k \in Keys /\ k \in DOMAIN data /\ k[2] = "Host"
            BY <1>1, TableShape DEF Served
          <6>2. PICK i \in Ids, f \in {"Host", "Password"} : k = <<i, f>>
            BY <6>1 DEF Keys
          <6> QED BY <4>2, <6>1, <6>2
        <5>2. host # Nothing
          <6>1. data[k] \in Hosts
            <7>1. data[k] \in IF k[2] = "Host" THEN Hosts ELSE Passwords
              BY <1>1, <5>1, TableShape
            <7> QED BY <5>1, <7>1
          <6> QED BY <1>7, <2>3, <5>1, <6>1, RegistryConstants
        <5>3. CASE adds
          <6>1. Len(l) + 1 \in 2 .. Len(m) /\ m[Len(l) + 1].id = id
            <7>1. Len(l) # 0
              BY <1>1, <2>1
            <7> QED BY <1>8, <1>9, <5>3, <7>1
          <6> QED BY <4>2, <6>1
        <5>4. CASE ~adds
          <6>1. PICK i \in DOMAIN l : l[i].id = id
            BY <5>2, <5>4
          <6>2. i # 1
            BY <1>5, <2>1, <6>1 DEF Shape, Local
          <6>3. i \in 2 .. Len(m) /\ m[i] = l[i]
            BY <1>1, <1>9, <6>1, <6>2
          <6> QED BY <4>2, <6>1, <6>3
        <5> QED BY <5>3, <5>4
      <4> QED BY <4>1, <4>2
    <3>4. file'.data = data /\ config'[p].data = data
      BY <1>4, <2>3, <3>1 DEF data
    <3> QED BY <1>10, <3>1, <3>2, <3>3, <3>4 DEF Progress
  <2>4. alone[p] /\ c.op = "add" => HasAdded(e, m, t, file'.data, config'[p].data)
    <3>1. c.at \in Updating /\ e.at \in Updating
      BY <1>1, <1>10 DEF Updating
    <3>2. file'.data = data
      BY <1>4 DEF data
    <3> QED BY <1>10, <2>1, <3>1, <3>2, AddedGoesOn
  <2> QED BY <1>2, <1>10, <2>2, <2>3, <2>4 DEF Follows
<1>13. temps' = [temps EXCEPT ![p] = t]
  BY <1>2, LeftAlone DEF t
<1>14. Leaves(p, e, m, t)
  BY <1>1, <1>2, <1>3, <1>9, <1>10, <1>11, <1>12, <1>13 DEF Leaves
<1> QED BY <1>14 DEF Goes

\* A call that has nothing to tell of the file.
LEMMA QuietCall ==
    ASSUME NEW e, NEW l, NEW t, NEW data, NEW copy, NEW single, Shape(l),
           e.at \in {"idle", "error", "local", "store", "done"},
           e.op = "add" => e.at \in {"idle", "error"} \/ (e.at = "local" /\ e.then # "done")
    PROVE  Follows(e, l, t, data, copy, single)
<1>1. Progress(e, l, t, data, copy)
  BY DEF Progress
<1>2. e.op = "add" => HasAdded(e, l, t, data, copy)
  BY DEF HasAdded, Updating
<1> QED BY <1>1, <1>2 DEF Follows, Updating

\* The empty list has the shape of one.
LEMMA NoLinks == <<>> \in Seq(Link) /\ Shape(<<>>)
  BY DEF Shape

\* A step that changes the call only, and leaves it with nothing to tell.
LEMMA QuietStep ==
    ASSUME Sound, NEW p \in Procs, NEW e \in Call, Routed(e, links[p]), Goto(p, e), UNCHANGED <<links, temps>>,
           e.at \in {"idle", "error", "local", "store", "done"},
           e.op = "add" => e.at \in {"idle", "error"} \/ (e.at = "local" /\ e.then # "done")
    PROVE  Goes(p)
<1>1. /\ links[p] \in Seq(Link) /\ temps[p] \in SUBSET Hosts /\ IsFiniteSet(temps[p])
      /\ p \in HasLocal => Shape(links[p])
  BY StandsAt DEF Follows
<1>2. p \in HasLocal => Follows(e, links[p], temps[p], file'.data, config'[p].data, alone'[p])
  BY <1>1, QuietCall
<1>3. Leaves(p, e, links[p], temps[p])
  BY <1>1, <1>2, LeftAlone DEF Leaves
<1> QED BY <1>3 DEF Goes

\* update_servers is called.
LEMMA UpdateCalled ==
    ASSUME NEW c \in Call, NEW then \in {"done", "found", "create", "again"}, c.place = 0, NEW l,
           then # "done" => ~c.created
    PROVE  LET e == Update(c, then) IN
           /\ e \in Call /\ Routed(e, l) /\ e.op = c.op /\ e.at = "local" /\ e.then = then /\ e.host = c.host
           /\ e.password = c.password /\ e.id = c.id /\ e.created = c.created
<1> DEFINE e == Update(c, then)
<1>1. /\ e \in Call /\ e.op = c.op /\ e.at = "local" /\ e.then = then /\ e.host = c.host
      /\ e.password = c.password /\ e.id = c.id /\ e.place = c.place /\ e.created = c.created
  BY DEF Call, Thens, Updating, Update
<1> HIDE DEF e
<1>2. Routed(e, l)
  BY <1>1 DEF Routed, Updating
<1> QED BY <1>1, <1>2 DEF e

\* update_hardware.
LEMMA ListLeads ==
    ASSUME Sound, NEW p \in Procs, List(p)
    PROVE  Goes(p)
<1> DEFINE c == [NoCall EXCEPT !.op = "list"]
           e == Update(c, "done")
<1>1. Goto(p, e) /\ UNCHANGED <<links, temps>>
  BY DEF List, Begin
<1>2. c \in Call /\ c.op = "list" /\ c.place = 0
  BY OthersTyped
<1> HIDE DEF c
<1>3. e \in Call /\ Routed(e, links[p]) /\ e.op = "list" /\ e.at = "local"
  BY <1>2, UpdateCalled
<1> HIDE DEF e
<1> QED BY <1>1, <1>3, QuietStep

\* add_remote_server.
LEMMA AddRemoteServerLeads ==
    ASSUME Sound, NEW p \in Procs, AddRemoteServer(p)
    PROVE  Goes(p)
<1>1. PICK r \in Requests[p] :
        Goto(p, Update([NoCall EXCEPT !.op = "add", !.host = r.host, !.password = r.password,
                                      !.temporary = r.temporary], "found"))
  BY DEF AddRemoteServer, Begin
<1> DEFINE c == [NoCall EXCEPT !.op = "add", !.host = r.host, !.password = r.password, !.temporary = r.temporary]
           e == Update(c, "found")
<1>2. c \in Call /\ c.op = "add" /\ c.place = 0 /\ ~c.created
  <2>1. r \in [host : Hosts, password : Passwords, temporary : BOOLEAN]
    BY RegistryConstants
  <2> QED BY <2>1, RequestTyped
<1>3. Goto(p, e) /\ UNCHANGED <<links, temps>>
  BY <1>1 DEF AddRemoteServer
<1> HIDE DEF c
<1>4. e \in Call /\ Routed(e, links[p]) /\ e.at = "local" /\ e.then = "found"
  BY <1>2, UpdateCalled
<1> HIDE DEF e
<1> QED BY <1>3, <1>4, QuietStep

\* The process ends, with what it has in memory.
LEMMA EndsLeads ==
    ASSUME Sound, NEW p \in Procs, Ends(p)
    PROVE  Goes(p)
<1>1. Goto(p, NoCall) /\ links' = [links EXCEPT ![p] = <<>>] /\ temps' = [temps EXCEPT ![p] = {}]
  BY DEF Ends
<1>2. {} \in SUBSET Hosts /\ IsFiniteSet({})
  BY FS_EmptySet
<1>3. NoCall \in Call /\ Routed(NoCall, <<>>) /\ NoCall.op = "none" /\ NoCall.at = "idle"
  BY NoCallTyped
<1>4. Follows(NoCall, <<>>, {}, file'.data, config'[p].data, alone'[p])
  <2> HIDE DEF NoCall
  <2> QED BY <1>3, NoLinks, QuietCall
<1>5. Leaves(p, NoCall, <<>>, {})
  <2> HIDE DEF NoCall
  <2> QED BY <1>1, <1>2, <1>3, <1>4, NoLinks DEF Leaves
<1> QED BY <1>5 DEF Goes

\* The call returns.
LEMMA ReturnLeads ==
    ASSUME Sound, NEW p \in Procs, Return(p)
    PROVE  Goes(p)
<1>1. Goto(p, NoCall) /\ UNCHANGED <<links, temps>>
  BY DEF Return
<1>2. NoCall \in Call /\ Routed(NoCall, links[p]) /\ NoCall.op = "none" /\ NoCall.at = "idle"
  BY NoCallTyped
<1> QED BY <1>1, <1>2, QuietStep

\* A server that has a link is found: its id is an index.
LEMMA ServerFound ==
    ASSUME Sound, NEW p \in Procs, UNCHANGED <<file, links, temps, alone>>,
           call[p].at \in {"found", "again"}, FindServer(p, call[p].host) # NoLink,
           Goto(p, [call[p] EXCEPT !.at = "password", !.id = FindServer(p, call[p].host)])
    PROVE  Goes(p)
<1> DEFINE c == call[p]
           l == links[p]
           t == temps[p]
           data == file.data
           i == FindServer(p, c.host)
           e == [c EXCEPT !.at = "password", !.id = i]
<1>1. /\ c \in Call /\ l \in Seq(Link) /\ t \in SUBSET Hosts /\ IsFiniteSet(t) /\ data \in Tables
      /\ Routed(c, l) /\ c.host \in Hosts
      /\ p \in HasLocal => Follows(c, l, t, data, config[p].data, alone[p])
  BY StandsAt DEF Adding
<1>2. i \in Nat /\ i + 1 \in 1 .. Len(l) /\ l[i + 1].host = c.host
  BY <1>1, FindServerFinds
<1>3. /\ e \in Call /\ e.op = c.op /\ e.at = "password" /\ e.then = c.then /\ e.host = c.host
      /\ e.password = c.password /\ e.id = i /\ e.place = c.place /\ e.created = c.created
  <2> HIDE DEF c, i
  <2> QED BY <1>1, <1>2 DEF Call
<1>4. Goto(p, e)
  OBVIOUS
<1> HIDE DEF c, l, t, data, i, e
<1>5. Routed(e, l) /\ ~c.created
  BY <1>1, <1>3 DEF Routed, Updating, c
<1>6. ASSUME p \in HasLocal
      PROVE  Follows(e, l, t, file'.data, config'[p].data, alone'[p])
  <2>1. Shape(l) /\ (alone[p] => Matches(l, t, data, 1))
    BY <1>1, <1>6 DEF Follows, Progress, Complete, c
  <2>2. i + 1 \in 2 .. Len(l)
    <3>1. i + 1 # 1
      BY <1>1, <1>2, <2>1, RegistryConstants DEF Shape, Local
    <3> QED BY <1>2, <3>1
  <2>3. alone[p] => Wanted(e, data, t)
    <3>1. CASE l[i + 1].id = Temporary
      <4>1. alone[p] => l[i + 1].host \in t
        <5> DEFINE j == i + 1
        <5>1. j \in 2 .. Len(l) /\ j > 1 /\ l[j].id = Temporary
          BY <2>2, <3>1
        <5> HIDE DEF j
        <5>2. alone[p] => l[j].host \in t
          BY <2>1, <5>1 DEF Matches
        <5> QED BY <5>2 DEF j
      <4>2. alone[p] => e.host \in t
        BY <1>2, <1>3, <4>1
      <4>3. ~e.created
        BY <1>3, <1>5
      <4> QED BY <4>2, <4>3 DEF Wanted
    <3>2. CASE l[i + 1].id # Temporary
      <4> SUFFICES ASSUME alone[p] PROVE Wanted(e, data, t)
        OBVIOUS
      <4> DEFINE k == <<l[i + 1].id, "Host">>
      <4>1. k \in DOMAIN data /\ data[k] = l[i + 1].host
        BY <2>1, <2>2, <3>2 DEF Matches
      <4>2. k[1] # 0 /\ k[2] = "Host"
        BY <2>1, <2>2 DEF Shape
      <4>3. k \in Served(data) /\ data[k] = e.host
        BY <1>2, <1>3, <4>1, <4>2 DEF Served
      <4> HIDE DEF k
      <4> QED BY <1>3, <1>5, <4>3 DEF Wanted
    <3> QED BY <3>1, <3>2
  <2>4. Finds(l, e.host)
    BY <1>2, <1>3 DEF Finds
  <2>5. Progress(e, l, t, file'.data, config'[p].data)
    BY <1>3 DEF Progress
  <2>6. alone[p] => HasAdded(e, l, t, file'.data, config'[p].data)
    BY <1>3, <1>5, <2>3, <2>4 DEF HasAdded, Updating, data
  <2> QED BY <1>3, <1>6, <2>1, <2>5, <2>6 DEF Follows, Updating
<1>7. temps' = [temps EXCEPT ![p] = t] /\ links' = [links EXCEPT ![p] = l]
  BY LeftAlone DEF l, t
<1>8. Leaves(p, e, l, t)
  BY <1>1, <1>3, <1>4, <1>5, <1>6, <1>7 DEF Leaves
<1> QED BY <1>8 DEF Goes

\* add_remote_server, after the first look.
LEMMA FoundLeads ==
    ASSUME Sound, NEW p \in Procs, Found(p)
    PROVE  Goes(p)
<1> DEFINE c == call[p]
           l == links[p]
           t == temps[p]
           i == FindServer(p, c.host)
           isTemporary == i # NoLink /\ l[i + 1].id = Temporary
<1>1. /\ c \in Call /\ l \in Seq(Link) /\ t \in SUBSET Hosts /\ IsFiniteSet(t)
      /\ Routed(c, l) /\ c.host \in Hosts /\ c.at = "found"
      /\ p \in HasLocal => Shape(l)
  BY StandsAt DEF Adding, Found, At, Follows
<1>2. ~c.created /\ c.place = 0
  BY <1>1 DEF Routed
<1>3. i # NoLink => i \in Nat /\ i + 1 \in 1 .. Len(l) /\ l[i + 1].host = c.host
  BY <1>1, FindServerFinds
<1>4. \A then \in {"done", "create"} :
        LET e == Update(c, then) IN
        /\ e \in Call /\ (\A m : Routed(e, m)) /\ e.op = c.op /\ e.at = "local" /\ e.then = then /\ e.host = c.host
        /\ e.password = c.password /\ e.id = c.id /\ e.created = c.created
  <2> HIDE DEF c
  <2> TAKE then \in {"done", "create"}
  <2> DEFINE e == Update(c, then)
  <2>1. ASSUME NEW m
        PROVE  /\ e \in Call /\ Routed(e, m) /\ e.op = c.op /\ e.at = "local" /\ e.then = then /\ e.host = c.host
               /\ e.password = c.password /\ e.id = c.id /\ e.created = c.created
    BY <1>1, <1>2, UpdateCalled
  <2> HIDE DEF e
  <2>2. /\ e \in Call /\ (\A m : Routed(e, m)) /\ e.op = c.op /\ e.at = "local" /\ e.then = then /\ e.host = c.host
        /\ e.password = c.password /\ e.id = c.id /\ e.created = c.created
    BY <2>1
  <2> QED BY <2>2 DEF e
<1>5. CASE isTemporary /\ ~c.temporary
  <2> DEFINE m == RemoveAt(l, i + 1)
             e == Update(c, "create")
             u == t \ {c.host}
  <2>1. Goto(p, e) /\ links' = [links EXCEPT ![p] = m] /\ temps' = [temps EXCEPT ![p] = u]
    BY <1>5 DEF Found
  <2>2. m \in Seq(Link)
    BY <1>1, <1>3, <1>5, Removed
  <2>3. p \in HasLocal => Shape(m)
    <3> SUFFICES ASSUME p \in HasLocal PROVE Shape(m)
      OBVIOUS
    <3>1. i + 1 # 1
      BY <1>1, <1>3, <1>5, RegistryConstants DEF Shape, Local
    <3>2. i + 1 \in 2 .. Len(l)
      BY <1>3, <1>5, <3>1
    <3> QED BY <1>1, <3>2, ShapeRemoved
  <2>4. u \in SUBSET Hosts /\ IsFiniteSet(u)
    <3>1. u \in SUBSET t
      OBVIOUS
    <3> QED BY <1>1, <3>1, FS_Subset
  <2>5. e \in Call /\ Routed(e, m) /\ e.at = "local" /\ e.then = "create"
    BY <1>4
  <2> HIDE DEF m, u, e
  <2>6. p \in HasLocal => Follows(e, m, u, file'.data, config'[p].data, alone'[p])
    BY <2>3, <2>5, QuietCall
  <2>7. Leaves(p, e, m, u)
    BY <2>1, <2>2, <2>4, <2>5, <2>6 DEF Leaves
  <2> QED BY <2>7 DEF Goes
<1>6. CASE i # NoLink /\ ~isTemporary
  BY <1>1, <1>6, ServerFound DEF Found
<1>7. CASE i = NoLink /\ ~c.temporary
  <2>1. Goto(p, Update(c, "create")) /\ UNCHANGED <<links, temps>>
    BY <1>7 DEF Found
  <2> QED BY <1>4, <2>1, QuietStep
<1>8. CASE c.temporary /\ (i = NoLink \/ isTemporary) /\ ~Known(p, c.host)
  <2> DEFINE e == Update(c, "done")
             u == t \cup {c.host}
  <2>1. Goto(p, e) /\ UNCHANGED links /\ temps' = [temps EXCEPT ![p] = u]
    BY <1>8 DEF Found
  <2>2. u \in SUBSET Hosts /\ IsFiniteSet(u)
    BY <1>1, FS_AddElement
  <2>3. e \in Call /\ Routed(e, l) /\ e.op = c.op /\ e.at = "local" /\ e.then = "done" /\ e.host = c.host
        /\ e.created = c.created
    BY <1>4
  <2>4. e.host \in u
    BY <2>3
  <2> HIDE DEF e, u
  <2>5. ASSUME p \in HasLocal
        PROVE  Follows(e, l, u, file'.data, config'[p].data, alone'[p])
    <3>1. HasAdded(e, l, u, file'.data, config'[p].data)
      BY <1>2, <2>3, <2>4 DEF HasAdded, Updating, Wanted, Kept
    <3>2. Progress(e, l, u, file'.data, config'[p].data)
      BY <2>3 DEF Progress
    <3> QED BY <1>1, <2>3, <2>5, <3>1, <3>2 DEF Follows, Updating
  <2>6. Leaves(p, e, l, u)
    BY <1>1, <2>1, <2>2, <2>3, <2>5, LeftAlone DEF Leaves
  <2> QED BY <2>6 DEF Goes
<1>9. CASE c.temporary /\ (i = NoLink \/ isTemporary) /\ Known(p, c.host)
  BY <1>9, EndsLeads DEF Found
<1> QED BY <1>5, <1>6, <1>7, <1>8, <1>9

\* update_servers has looked whether another process has added the server.
LEMMA AgainLeads ==
    ASSUME Sound, NEW p \in Procs, Again(p)
    PROVE  Goes(p)
<1>1. /\ call[p] \in Call /\ Routed(call[p], links[p]) /\ call[p].at = "again"
  BY StandsAt DEF Again, At
<1>2. ~call[p].created /\ call[p].place = 0
  BY <1>1 DEF Routed
<1>3. CASE FindServer(p, call[p].host) = NoLink
  <2>1. Goto(p, Update(call[p], "create")) /\ UNCHANGED <<links, temps>>
    BY <1>3 DEF Again
  <2>2. LET e == Update(call[p], "create") IN
        e \in Call /\ Routed(e, links[p]) /\ e.at = "local" /\ e.then = "create"
    BY <1>1, <1>2, UpdateCalled
  <2> QED BY <2>1, <2>2, QuietStep
<1>4. CASE FindServer(p, call[p].host) # NoLink
  BY <1>1, <1>4, ServerFound DEF Again
<1> QED BY <1>3, <1>4

\* A change begins: it is made to the copy, and the file says what it said.
LEMMA ChangeBegins ==
    ASSUME Sound, NEW p \in Procs, NEW data, NEW writing, OpenForWrite(p, data, writing)
    PROVE  file'.data = file.data /\ config'[p].data = data
<1>1. config \in [Procs -> Copy] /\ file = [file EXCEPT !.lock = file.lock] /\ DOMAIN file = {"data", "time", "lock"}
  BY DEF Sound, IInv, FileSound
<1>2. PICK time : /\ file' = [file EXCEPT !.time = time, !.lock = p]
                  /\ config' = [config EXCEPT ![p] = [data |-> data, seen |-> time, open |-> TRUE, writing |-> writing,
                                                      outrun |-> Loaded(p).outrun]]
  BY DEF OpenForWrite
<1> QED BY <1>1, <1>2

\* A change is made to what the file says.
LEMMA ChangesFile ==
    ASSUME Sound, NEW p \in Procs, alone[p], ~config[p].writing
    PROVE  Opened(p) = file.data
<1>1. file.data \in Tables /\ (file.time = 0 => file.data = Empty)
  BY DEF Sound, IInv, FileSound
<1>2. ~Loaded(p).outrun /\ Readable(file.data) => Opened(p) = file.data
  BY OpenedCopy DEF Sound, IInv
<1> QED BY <1>1, <1>2, LoadedCopy DEF Sound, IInv, Certain

\* A creation is refused, or the file cannot be opened: the call tries again, or ends.
LEMMA TryAgainTyped ==
    ASSUME NEW c \in Call, c.place = 0, ~c.created, NEW l
    PROVE  LET e == TryAgain(c) IN
           /\ e \in Call /\ Routed(e, l) /\ e.at \in {"error", "local"} /\ (e.at = "local" => e.then = "again")
<1>1. CASE c.retry >= MaxRetry
  <2> DEFINE e == [c EXCEPT !.at = "error"]
  <2>1. TryAgain(c) = e
    BY <1>1 DEF TryAgain
  <2>2. e \in Call /\ e.at = "error" /\ e.place = 0
    BY DEF Call
  <2> HIDE DEF e
  <2>3. Routed(e, l)
    BY <2>2 DEF Routed, Updating
  <2> QED BY <2>1, <2>2, <2>3
<1>2. CASE ~(c.retry >= MaxRetry)
  <2> DEFINE d == [c EXCEPT !.retry = @ + 1]
  <2>1. TryAgain(c) = Update(d, "again")
    BY <1>2 DEF TryAgain
  <2>2. d \in Call /\ d.place = 0 /\ ~d.created
    BY DEF Call
  <2> HIDE DEF d
  <2>3. LET e == Update(d, "again") IN e \in Call /\ Routed(e, l) /\ e.at = "local" /\ e.then = "again"
    BY <2>2, UpdateCalled
  <2> QED BY <2>1, <2>3
<1> QED BY <1>1, <1>2

\* The server is created with the first id that is not taken.
LEMMA CreateLeads ==
    ASSUME Sound, NEW p \in Procs, Create(p)
    PROVE  Goes(p)
<1> DEFINE c == call[p]
           l == links[p]
           t == temps[p]
           data == file.data
           key == <<c.next, "Host">>
           new == With(Opened(p), key, c.host)
           e == Created(c)
<1>1. /\ c \in Call /\ l \in Seq(Link) /\ t \in SUBSET Hosts /\ IsFiniteSet(t) /\ data \in Tables
      /\ Routed(c, l) /\ c.at = "create" /\ ~config[p].writing
      /\ p \in HasLocal => Follows(c, l, t, data, config[p].data, alone[p])
  BY StandsAt DEF Create, At
<1>2. ~c.created /\ c.place = 0 /\ c.next \in Ids \ {0}
  BY <1>1 DEF Routed, Create, Call
<1>3. UNCHANGED <<links, temps, alone>>
  BY DEF Create
<1>4. CASE Goto(p, TryAgain(c))
  <2>1. LET d == TryAgain(c) IN
        d \in Call /\ Routed(d, l) /\ d.at \in {"error", "local"} /\ (d.at = "local" => d.then = "again")
    BY <1>1, <1>2, TryAgainTyped
  <2> QED BY <1>3, <1>4, <2>1, QuietStep
<1>5. CASE key \notin DOMAIN Opened(p) /\ Change(p, new) /\ Goto(p, e)
  <2>1. /\ e \in Call /\ e.op = c.op /\ e.at = "store" /\ e.then = "password" /\ e.host = c.host
        /\ e.password = c.password /\ e.id = c.next /\ e.place = 0 /\ e.created = TRUE
    <3> HIDE DEF c
    <3> QED BY <1>1, <1>2, CreatedTyped
  <2>2. config'[p].data = new
    BY <1>5, ChangeBegins DEF Change
  <2> HIDE DEF e, c, l, t
  <2>3. Routed(e, l)
    BY <2>1 DEF Routed, Updating
  <2>4. ASSUME p \in HasLocal
        PROVE  Follows(e, l, t, file'.data, config'[p].data, alone'[p])
    <3>1. Shape(l)
      BY <1>1, <2>4 DEF Follows
    <3>2. Progress(e, l, t, file'.data, config'[p].data)
      BY <2>1 DEF Progress
    <3>3. ASSUME alone[p]
          PROVE  HasAdded(e, l, t, file'.data, config'[p].data)
      <4>1. Opened(p) = data
        BY <1>1, <3>3, ChangesFile
      <4>2. \A k \in DOMAIN data : k[1] < c.next
        BY <1>1, <2>4, <3>3 DEF Follows, Progress
      <4>3. <<c.next, "Password">> \notin DOMAIN data
        <5>1. ~(c.next < c.next)
          BY <1>1 DEF Call
        <5> QED BY <4>2, <5>1
      <4>4. DOMAIN new = DOMAIN data \cup {key} /\ new[key] = c.host
        <5>1. new = With(data, key, c.host)
          BY <4>1
        <5> HIDE DEF key, new, data
        <5> QED BY <5>1 DEF With
      <4>5. <<c.next, "Password">> \notin DOMAIN new
        BY <4>3, <4>4
      <4> HIDE DEF new, data
      <4>6. Wanted(e, new, t)
        BY <1>2, <2>1, <4>4 DEF Wanted
      <4>7. Wanted(e, config'[p].data, t) /\ <<e.id, "Password">> \notin DOMAIN config'[p].data
        BY <2>1, <2>2, <4>5, <4>6
      <4> QED BY <2>1, <4>7 DEF HasAdded, Updating
    <3> QED BY <1>3, <2>1, <3>1, <3>2, <3>3 DEF Follows, Updating
  <2>5. temps' = [temps EXCEPT ![p] = t] /\ links' = [links EXCEPT ![p] = l]
    BY <1>3, LeftAlone DEF l, t
  <2>6. Leaves(p, e, l, t)
    BY <1>1, <1>5, <2>1, <2>3, <2>4, <2>5 DEF Leaves, l, t
  <2> QED BY <2>6 DEF Goes
<1> QED BY <1>4, <1>5 DEF Create

\* The password that is there is right, or another one is set.
LEMMA CheckPasswordLeads ==
    ASSUME Sound, NEW p \in Procs, CheckPassword(p)
    PROVE  Goes(p)
<1> DEFINE c == call[p]
           l == links[p]
           t == temps[p]
           data == file.data
           right == IsCorrect(p, c.password, Value(p, <<c.id, "Password">>))
           at == IF right THEN "done" ELSE "set"
           e == [c EXCEPT !.next = 1, !.retry = 0, !.at = at]
<1>1. /\ c \in Call /\ l \in Seq(Link) /\ t \in SUBSET Hosts /\ IsFiniteSet(t) /\ data \in Tables
      /\ Routed(c, l) /\ c.at = "password" /\ ~config[p].writing /\ c.op = "add"
      /\ p \in HasLocal => Follows(c, l, t, data, config[p].data, alone[p])
  BY StandsAt DEF CheckPassword, At, Adding
<1>2. Goto(p, e) /\ Load(p) /\ UNCHANGED <<links, temps, alone>>
  BY DEF CheckPassword
<1>3. file' = file
  BY <1>2 DEF Load
<1>4. /\ e \in Call /\ e.op = c.op /\ e.at = at /\ e.then = c.then /\ e.host = c.host
      /\ e.password = c.password /\ e.id = c.id /\ e.place = c.place /\ e.created = c.created
  <2>1. at \in {"done", "set"}
    OBVIOUS
  <2> HIDE DEF c, at
  <2> QED BY <1>1, <2>1, PasswordChecked
<1>5. c.place = 0
  BY <1>1 DEF Routed
<1>6. ASSUME right, alone[p]
      PROVE  <<c.id, "Password">> \in DOMAIN data
  <2>1. Value(p, <<c.id, "Password">>) # Nothing
    BY <1>6 DEF IsCorrect
  <2> HIDE DEF c
  <2> QED BY <1>1, <1>6, <2>1, ValueIsThere DEF Sound, Certain
<1> HIDE DEF c, l, t, right, e
<1>7. e.at \in {"done", "set"} /\ (e.at = "done" => right)
  BY <1>4
<1>8. Routed(e, l)
  BY <1>4, <1>5, <1>7 DEF Routed, Updating
<1>9. ASSUME p \in HasLocal
      PROVE  Follows(e, l, t, file'.data, config'[p].data, alone'[p])
  <2>1. Shape(l) /\ (alone[p] => HasAdded(c, l, t, data, config[p].data))
    BY <1>1, <1>9 DEF Follows
  <2>2. Progress(e, l, t, file'.data, config'[p].data)
    BY <1>7 DEF Progress
  <2>3. ASSUME alone[p]
        PROVE  HasAdded(e, l, t, file'.data, config'[p].data)
    <3>1. Wanted(c, data, t) /\ (c.created => <<c.id, "Password">> \notin DOMAIN data)
          /\ (~c.created => Finds(l, c.host))
      BY <1>1, <2>1, <2>3 DEF HasAdded
    <3>2. Wanted(e, data, t)
      BY <1>4, <3>1 DEF Wanted
    <3>3. e.at = "done" => ~c.created
      BY <1>6, <1>7, <2>3, <3>1
    <3>4. e.at = "done" => Kept(e, data) /\ Finds(l, e.host)
      BY <1>4, <3>1, <3>3 DEF Kept
    <3>5. file'.data = data
      BY <1>3
    <3>6. e.at \notin Updating /\ e.at \notin {"store", "password"}
      BY <1>7 DEF Updating
    <3> HIDE DEF data
    <3> QED BY <3>2, <3>4, <3>5, <3>6 DEF HasAdded
  <2> QED BY <1>2, <1>7, <2>1, <2>2, <2>3 DEF Follows, Updating
<1>10. temps' = [temps EXCEPT ![p] = t] /\ links' = [links EXCEPT ![p] = l]
  BY <1>2, LeftAlone DEF l, t
<1>11. Leaves(p, e, l, t)
  BY <1>1, <1>2, <1>4, <1>8, <1>9, <1>10 DEF Leaves
<1> QED BY <1>11 DEF Goes

\* The password is set.
LEMMA SetPasswordLeads ==
    ASSUME Sound, NEW p \in Procs, SetPassword(p)
    PROVE  Goes(p)
<1> DEFINE c == call[p]
           l == links[p]
           t == temps[p]
           data == file.data
           key == <<c.id, "Password">>
           new == With(Opened(p), key, c.password)
           e == [c EXCEPT !.at = "store", !.then = "update"]
           failed == [c EXCEPT !.at = "error"]
<1>1. /\ c \in Call /\ l \in Seq(Link) /\ t \in SUBSET Hosts /\ IsFiniteSet(t) /\ data \in Tables
      /\ Routed(c, l) /\ c.at = "set" /\ ~config[p].writing /\ c.op = "add"
      /\ p \in HasLocal => Follows(c, l, t, data, config[p].data, alone[p])
  BY StandsAt DEF SetPassword, At, Adding
<1>2. c.place = 0
  BY <1>1 DEF Routed
<1>3. UNCHANGED <<links, temps, alone>>
  BY DEF SetPassword
<1>4. CASE Goto(p, failed)
  <2>1. failed \in Call /\ failed.at = "error" /\ failed.place = 0
    <3> HIDE DEF c
    <3> QED BY <1>1, <1>2 DEF Call
  <2> HIDE DEF failed
  <2>2. Routed(failed, l)
    BY <2>1 DEF Routed, Updating
  <2> QED BY <1>3, <1>4, <2>1, <2>2, QuietStep
<1>5. CASE Change(p, new) /\ Goto(p, e)
  <2>1. /\ e \in Call /\ e.op = c.op /\ e.at = "store" /\ e.then = "update" /\ e.host = c.host
        /\ e.password = c.password /\ e.id = c.id /\ e.place = 0 /\ e.created = c.created
    <3> HIDE DEF c
    <3> QED BY <1>1, <1>2 DEF Call, Thens
  <2>2. config'[p].data = new
    BY <1>5, ChangeBegins DEF Change
  <2> HIDE DEF e, c, l, t
  <2>3. Routed(e, l)
    BY <2>1 DEF Routed, Updating
  <2>4. ASSUME p \in HasLocal
        PROVE  Follows(e, l, t, file'.data, config'[p].data, alone'[p])
    <3>1. Shape(l)
      BY <1>1, <2>4 DEF Follows
    <3>2. Progress(e, l, t, file'.data, config'[p].data)
      BY <2>1 DEF Progress
    <3>3. ASSUME alone[p]
          PROVE  HasAdded(e, l, t, file'.data, config'[p].data)
      <4>1. Opened(p) = data
        BY <1>1, <3>3, ChangesFile
      <4>2. Wanted(c, data, t)
        BY <1>1, <2>4, <3>3 DEF Follows, HasAdded
      <4>3. DOMAIN new = DOMAIN data \cup {key} /\ new[key] = c.password
            /\ \A k \in DOMAIN data : k # key => new[k] = data[k]
        <5>1. new = With(data, key, c.password)
          BY <4>1
        <5> HIDE DEF key, new, data
        <5> QED BY <5>1 DEF With
      <4>4. \A k \in Served(data) : k \in Served(new) /\ new[k] = data[k]
        <5> SUFFICES ASSUME NEW k \in Served(data)
                     PROVE  k \in Served(new) /\ new[k] = data[k]
          OBVIOUS
        <5>1. k \in DOMAIN data /\ k[2] = "Host" /\ k[1] # 0
          BY DEF Served
        <5>2. k # key
          BY <5>1
        <5> HIDE DEF key, new, data
        <5> QED BY <4>3, <5>1, <5>2 DEF Served
      <4>5. Kept(e, new)
        BY <2>1, <4>3 DEF Kept
      <4>6. Wanted(e, new, t)
        <5>1. CASE c.created
          <6>1. /\ c.id \in Ids \ {0} /\ <<c.id, "Host">> \in DOMAIN data /\ data[<<c.id, "Host">>] = c.host
            BY <4>2, <5>1 DEF Wanted
          <6>2. <<c.id, "Host">> # key
            OBVIOUS
          <6> HIDE DEF key, new, data
          <6>3. <<c.id, "Host">> \in DOMAIN new /\ new[<<c.id, "Host">>] = c.host
            BY <4>3, <6>1, <6>2
          <6> QED BY <2>1, <5>1, <6>1, <6>3 DEF Wanted
        <5>2. CASE ~c.created
          <6>1. c.host \in t \/ \E k \in Served(data) : data[k] = c.host
            BY <4>2, <5>2 DEF Wanted
          <6> HIDE DEF key, new, data
          <6>2. c.host \in t \/ \E k \in Served(new) : new[k] = c.host
            BY <4>4, <6>1
          <6> QED BY <2>1, <5>2, <6>2 DEF Wanted
        <5> QED BY <5>1, <5>2
      <4> HIDE DEF new, data
      <4>7. Wanted(e, config'[p].data, t) /\ Kept(e, config'[p].data)
        BY <2>2, <4>5, <4>6
      <4> QED BY <2>1, <4>7 DEF HasAdded, Updating
    <3> QED BY <1>3, <2>1, <3>1, <3>2, <3>3 DEF Follows, Updating
  <2>5. temps' = [temps EXCEPT ![p] = t] /\ links' = [links EXCEPT ![p] = l]
    BY <1>3, LeftAlone DEF l, t
  <2>6. Leaves(p, e, l, t)
    BY <1>1, <1>5, <2>1, <2>3, <2>4, <2>5 DEF Leaves, l, t
  <2> QED BY <2>6 DEF Goes
<1> QED BY <1>4, <1>5 DEF SetPassword

\* remove_remote_server.
LEMMA RemoveLeads ==
    ASSUME Sound, NEW p \in Procs, RemoveRemoteServer(p)
    PROVE  Goes(p)
<1> DEFINE l == links[p]
           t == temps[p]
           stored == [NoCall EXCEPT !.op = "remove", !.at = "store", !.then = "done"]
           over == [NoCall EXCEPT !.op = "remove", !.at = "done"]
<1>1. PICK i \in DOMAIN l :
        /\ l[i].host # Nothing
        /\ Goto(p, stored) \/ Goto(p, over)
        /\ temps' = [temps EXCEPT ![p] = IF l[i].id = Temporary THEN @ \ {l[i].host} ELSE @]
        /\ links' = [links EXCEPT ![p] = RemoveAt(@, i)]
  BY DEF RemoveRemoteServer, Begin
<1> DEFINE m == RemoveAt(l, i)
           u == IF l[i].id = Temporary THEN t \ {l[i].host} ELSE t
<1>2. /\ l \in Seq(Link) /\ t \in SUBSET Hosts /\ IsFiniteSet(t)
      /\ p \in HasLocal => Shape(l)
  BY StandsAt DEF Follows
<1>3. temps' = [temps EXCEPT ![p] = u] /\ links' = [links EXCEPT ![p] = m]
  BY <1>1 DEF Sound, Memory
<1>4. u \in SUBSET Hosts /\ IsFiniteSet(u)
  <2>1. u \in SUBSET t
    OBVIOUS
  <2> QED BY <1>2, <2>1, FS_Subset
<1>5. i \in 1 .. Len(l) /\ m \in Seq(Link)
  BY <1>2, Removed
<1>6. p \in HasLocal => Shape(m)
  <2> SUFFICES ASSUME p \in HasLocal PROVE Shape(m)
    OBVIOUS
  <2>1. i # 1
    BY <1>1, <1>2, <1>5 DEF Shape, Local
  <2>2. i \in 2 .. Len(l)
    BY <1>5, <2>1
  <2> QED BY <1>2, <2>2, ShapeRemoved
<1>7. /\ stored \in Call /\ stored.op = "remove" /\ stored.at = "store" /\ stored.then = "done" /\ stored.place = 0
      /\ ~stored.created
      /\ over \in Call /\ over.op = "remove" /\ over.at = "done" /\ over.place = 0
  BY OthersTyped
<1> HIDE DEF stored, over, m, u
<1>8. Routed(stored, m) /\ Routed(over, m)
  BY <1>7 DEF Routed, Updating
<1>9. PICK e \in {stored, over} : Goto(p, e)
  BY <1>1
<1>10. e \in Call /\ Routed(e, m) /\ e.op = "remove" /\ e.at \in {"store", "done"}
  BY <1>7, <1>8
<1>11. p \in HasLocal => Follows(e, m, u, file'.data, config'[p].data, alone'[p])
  BY <1>6, <1>10, QuietCall
<1>12. Leaves(p, e, m, u)
  BY <1>3, <1>4, <1>5, <1>9, <1>10, <1>11 DEF Leaves
<1> QED BY <1>12 DEF Goes

\* The change is stored, and the call goes on.
LEMMA StoreCallLeads ==
    ASSUME Sound, NEW p \in Procs, StoreCall(p)
    PROVE  Goes(p)
<1> DEFINE c == call[p]
           l == links[p]
           t == temps[p]
           copy == config[p].data
           e == IF c.then = "update" THEN Update(c, "done") ELSE [c EXCEPT !.at = c.then, !.then = "idle"]
<1>1. /\ c \in Call /\ l \in Seq(Link) /\ t \in SUBSET Hosts /\ IsFiniteSet(t)
      /\ Routed(c, l) /\ c.at = "store" /\ alone[p] \in BOOLEAN
      /\ p \in HasLocal => Follows(c, l, t, file.data, copy, alone[p])
  BY StandsAt DEF StoreCall, At
<1>2. c.place = 0 /\ c.then \in {"done", "password", "update"} /\ (c.op = "add" => c.then # "done")
  BY <1>1 DEF Routed
<1>3. Goto(p, e) /\ UNCHANGED <<links, temps>> /\ (alone'[p] => alone[p]) /\ file'.data = copy
  <2>1. alone' = [q \in Procs |-> alone[q] /\ q = p /\ Readable(config[p].data)] /\ Store(p) /\ UNCHANGED <<links, temps>>
        /\ Goto(p, e)
    BY DEF StoreCall
  <2>2. alone'[p] => alone[p]
    <3>1. alone'[p] = (alone[p] /\ p = p /\ Readable(config[p].data))
      BY <2>1
    <3> QED BY <3>1, Zenon
  <2>3. file'.data = copy
    BY <2>1, StoreKeepsFile DEF Sound, IInv
  <2> HIDE DEF c, e, copy
  <2> QED BY <2>1, <2>2, <2>3
<1>4. /\ e \in Call /\ e.op = c.op /\ e.host = c.host /\ e.password = c.password /\ e.id = c.id
      /\ e.created = c.created /\ e.place = 0
      /\ (c.then = "update" => e.at = "local" /\ e.then = "done")
      /\ (c.then # "update" => e.at = c.then /\ e.then = "idle")
  <2>1. CASE c.then = "update"
    <3>1. e = Update(c, "done")
      BY <2>1
    <3> HIDE DEF c, e
    <3> QED BY <1>1, <1>2, <2>1, <3>1, UpdateBegins
  <2>2. CASE c.then # "update"
    <3>1. e = [c EXCEPT !.at = c.then, !.then = "idle"] /\ c.then \in Ats /\ "idle" \in Thens
      BY <1>2, <2>2 DEF Ats, Thens
    <3> HIDE DEF c, e
    <3> QED BY <1>1, <1>2, <2>2, <3>1 DEF Call, Ats
  <2> QED BY <2>1, <2>2
<1> HIDE DEF c, l, t, copy, e
<1>5. Routed(e, l)
  BY <1>2, <1>4 DEF Routed, Updating
<1>6. ASSUME p \in HasLocal
      PROVE  Follows(e, l, t, file'.data, config'[p].data, alone'[p])
  <2>1. Shape(l)
    BY <1>1, <1>6 DEF Follows
  <2>2. e.at \in {"local", "password", "done"}
    BY <1>2, <1>4
  <2>3. Progress(e, l, t, file'.data, config'[p].data)
    BY <2>2 DEF Progress
  <2>4. ASSUME alone[p], e.op = "add"
        PROVE  HasAdded(e, l, t, file'.data, config'[p].data)
    <3>1. HasAdded(c, l, t, file.data, copy) /\ c.op = "add"
      BY <1>1, <1>4, <1>6, <2>4 DEF Follows
    <3>2. /\ Wanted(c, copy, t)
          /\ c.then = "password" => c.created /\ <<c.id, "Password">> \notin DOMAIN copy
          /\ c.then = "update" => Kept(c, copy)
      BY <1>1, <3>1 DEF HasAdded
    <3>3. Wanted(e, copy, t)
      BY <1>4, <3>2 DEF Wanted
    <3>4. c.then = "update" => Kept(e, copy)
      BY <1>4, <3>2 DEF Kept
    <3>5. CASE c.then = "update"
      BY <1>3, <1>4, <3>3, <3>4, <3>5 DEF HasAdded, Updating
    <3>6. CASE c.then = "password"
      <4>1. e.created /\ <<e.id, "Password">> \notin DOMAIN copy
        BY <1>4, <3>2, <3>6
      <4> QED BY <1>3, <1>4, <3>3, <3>6, <4>1 DEF HasAdded, Updating
    <3> QED BY <1>2, <3>1, <3>5, <3>6
  <2> QED BY <1>3, <2>1, <2>2, <2>3, <2>4 DEF Follows, Updating
<1>7. temps' = [temps EXCEPT ![p] = t] /\ links' = [links EXCEPT ![p] = l]
  BY <1>3, LeftAlone DEF l, t
<1>8. Leaves(p, e, l, t)
  BY <1>1, <1>3, <1>4, <1>5, <1>6, <1>7 DEF Leaves
<1> QED BY <1>8 DEF Goes

-----------------------------------------------------------------------------
(* Every step.                                                             *)

\* A process is alone, that was or that begins with what the file says.
Turns(p) ==
    /\ alone' \in [Procs -> BOOLEAN]
    /\ \A q \in Procs \ {p} : alone'[q] = alone[q]
    /\ alone'[p] => alone[p] \/ (~config[p].outrun /\ Readable(file.data))

\* One that is as alone as it was.
LEMMA TurnsNot ==
    ASSUME Sound, NEW p \in Procs, UNCHANGED alone
    PROVE  Turns(p)
  BY DEF Turns, Sound, Memory

\* One that is not in a call any more.
LEMMA TurnsOff ==
    ASSUME Sound, NEW p \in Procs, alone' = [alone EXCEPT ![p] = FALSE]
    PROVE  Turns(p)
<1>1. alone \in [Procs -> BOOLEAN]
  BY DEF Sound, Memory
<1> QED BY <1>1 DEF Turns

\* One that begins a call.
LEMMA TurnsThen ==
    ASSUME Sound, NEW p \in Procs, NEW c, Begin(p, c)
    PROVE  Turns(p)
<1>1. alone \in [Procs -> BOOLEAN]
  BY DEF Sound, Memory
<1>2. alone' = [alone EXCEPT ![p] = ~config[p].outrun /\ Readable(file.data)]
  BY DEF Begin
<1>3. alone'[p] = (~config[p].outrun /\ Readable(file.data)) /\ \A q \in Procs \ {p} : alone'[q] = alone[q]
  BY <1>1, <1>2
<1>4. alone' \in [Procs -> BOOLEAN]
  BY <1>1, <1>2
<1> QED BY <1>3, <1>4 DEF Turns

\* What a step of p that does not store does to the file and to the other copies.
Spares(p) ==
    /\ file'.data = file.data
    /\ \A q \in Procs \ {p} : config'[q] = config[q]
    /\ config'[p].outrun => config[p].outrun
    /\ Turns(p)

\* What those steps do with the file.
Touches(p) ==
    \/ Load(p) \/ Exit(p) \/ UNCHANGED <<file, now, config>>
    \/ \E data, writing : OpenForWrite(p, data, writing)

\* A load, the beginning of a change and the end of a process leave the others alone.
LEMMA FileSpared ==
    ASSUME Sound, NEW p \in Procs, Touches(p), Turns(p)
    PROVE  Spares(p)
<1> DEFINE spared == /\ file'.data = file.data /\ \A q \in Procs \ {p} : config'[q] = config[q]
                     /\ config'[p].outrun => config[p].outrun
<1>0. Loaded(p).outrun => config[p].outrun
  BY DEF Loaded, Sound, IInv, FileSound, Copy
<1>1. config \in [Procs -> Copy] /\ file = [file EXCEPT !.lock = file.lock] /\ DOMAIN file = {"data", "time", "lock"}
  BY DEF Sound, IInv, FileSound
<1>2. ASSUME Load(p) PROVE spared
  BY <1>0, <1>1, <1>2 DEF Load
<1>3. ASSUME Exit(p) PROVE spared
  BY <1>1, <1>3 DEF Exit, NoCopy
<1>4. ASSUME UNCHANGED <<file, now, config>> PROVE spared
  BY <1>4
<1>5. ASSUME \E data, writing : OpenForWrite(p, data, writing) PROVE spared
  <2>0. PICK data, writing : OpenForWrite(p, data, writing)
    BY <1>5
  <2>1. PICK time :
           /\ file' = [file EXCEPT !.time = time, !.lock = p]
           /\ config' = [config EXCEPT ![p] = [data |-> data, seen |-> time, open |-> TRUE, writing |-> writing,
                                               outrun |-> Loaded(p).outrun]]
    BY <2>0 DEF OpenForWrite
  <2> HIDE DEF Loaded
  <2> QED BY <1>0, <1>1, <2>1
<1>6. spared
  BY <1>2, <1>3, <1>4, <1>5 DEF Touches
<1> QED BY <1>6 DEF Spares

\* Every step leads its process on; it stores, or spares the others.
LEMMA EveryStep ==
    ASSUME Sound, Next
    PROVE  \E p \in Procs : Goes(p) /\ (Spares(p) \/ StoreCall(p))
<1>1. PICK p \in Procs :
         \/ UpdateLocal(p) \/ Sweep(p) \/ Section(p) \/ AddLink(p)
         \/ List(p) \/ AddRemoteServer(p) \/ Found(p) \/ Create(p) \/ Again(p) \/ CheckPassword(p)
         \/ SetPassword(p) \/ RemoveRemoteServer(p) \/ StoreCall(p) \/ Return(p)
         \/ Killed(p)
  BY DEF Next
<1>2. Goes(p)
  BY <1>1, UpdateLocalLeads, SweepLeads, SectionsOver, SectionGoesOn, AddLinkLeads, ListLeads, AddRemoteServerLeads,
     FoundLeads, CreateLeads, AgainLeads, CheckPasswordLeads, SetPasswordLeads, RemoveLeads, StoreCallLeads,
     ReturnLeads, EndsLeads DEF Killed
<1> SUFFICES Spares(p) \/ StoreCall(p)
  BY <1>2
<1>3. CASE UpdateLocal(p) \/ Sweep(p) \/ AddLink(p) \/ CheckPassword(p)
  <2>1. UNCHANGED alone
    BY <1>3 DEF UpdateLocal, Sweep, AddLink, CheckPassword
  <2>2. Load(p) \/ UNCHANGED <<file, now, config>>
    BY <1>3 DEF UpdateLocal, Sweep, AddLink, CheckPassword
  <2>3. Touches(p)
    BY <2>1, <2>2 DEF Touches
  <2>4. Turns(p)
    BY <2>1, TurnsNot
  <2> QED BY <2>3, <2>4, FileSpared
<1>4. CASE Section(p)
  <2>1. Load(p) \/ UNCHANGED <<file, now, config>>
    BY <1>4 DEF Section, Passing
  <2>2. UNCHANGED alone
    BY <1>4 DEF Section
  <2>3. Touches(p)
    BY <2>1, <2>2 DEF Touches
  <2>4. Turns(p)
    BY <2>2, TurnsNot
  <2> QED BY <2>3, <2>4, FileSpared
<1>5. CASE List(p) \/ AddRemoteServer(p) \/ Again(p) \/ Return(p)
  <2>1. Touches(p)
    BY <1>5 DEF Touches, List, AddRemoteServer, Again, Return
  <2>2. Turns(p)
    <3>1. CASE List(p)
      BY <3>1, TurnsThen DEF List
    <3>2. CASE AddRemoteServer(p)
      <4>1. PICK c : Begin(p, c)
        BY <3>2 DEF AddRemoteServer
      <4> QED BY <4>1, TurnsThen
    <3>3. CASE Again(p)
      BY <3>3, TurnsNot DEF Again
    <3>4. CASE Return(p)
      BY <3>4, TurnsOff DEF Return
    <3> QED BY <1>5, <3>1, <3>2, <3>3, <3>4
  <2> QED BY <2>1, <2>2, FileSpared
<1>6. CASE Found(p) \/ Killed(p)
  <2>1. Turns(p)
    <3>1. CASE Found(p)
      BY <3>1, TurnsNot DEF Found
    <3>2. CASE Killed(p)
      BY <3>2, TurnsOff DEF Killed
    <3> QED BY <1>6, <3>1, <3>2
  <2>2. Exit(p) \/ UNCHANGED <<file, now, config>>
    <3>1. Ends(p) => Exit(p)
      BY DEF Ends
    <3>2. CASE Found(p)
      BY <3>1, <3>2, FindServerFinds, StandsAt DEF Found
    <3> QED BY <1>6, <3>1, <3>2 DEF Killed
  <2>3. Touches(p)
    BY <2>1, <2>2 DEF Touches
  <2>4. Turns(p)
    BY <2>1, TurnsNot
  <2> QED BY <2>3, <2>4, FileSpared
<1>7. CASE Create(p) \/ SetPassword(p)
  <2>1. UNCHANGED alone
    BY <1>7 DEF Create, SetPassword
  <2>2. UNCHANGED <<file, now, config>> \/ \E data, writing : OpenForWrite(p, data, writing)
    BY <1>7 DEF Create, SetPassword, Change, CreateRefused
  <2>3. Touches(p)
    BY <2>1, <2>2 DEF Touches
  <2>4. Turns(p)
    BY <2>1, TurnsNot
  <2> QED BY <2>3, <2>4, FileSpared
<1>8. CASE RemoveRemoteServer(p)
  <2>1. Turns(p)
    <3>1. PICK c : Begin(p, c)
      BY <1>8 DEF RemoveRemoteServer
    <3> QED BY <3>1, TurnsThen
  <2>2. UNCHANGED <<file, now, config>> \/ \E data, writing : OpenForWrite(p, data, writing)
    BY <1>8 DEF RemoveRemoteServer, Change
  <2>3. Touches(p)
    BY <2>1, <2>2 DEF Touches
  <2>4. Turns(p)
    BY <2>1, TurnsNot
  <2> QED BY <2>3, <2>4, FileSpared
<1> QED BY <1>1, <1>2, <1>3, <1>4, <1>5, <1>6, <1>7, <1>8

\* A process that did not make the step is where it was; it is alone only if the file
\* is what it was.
LEMMA OthersStand ==
    ASSUME NEW c, NEW l, NEW t, NEW data, NEW new, NEW copy, NEW single, NEW still,
           Follows(c, l, t, data, copy, single), still => single /\ new = data
    PROVE  Follows(c, l, t, new, copy, still)
<1>1. CASE still
  BY <1>1 DEF Follows
<1>2. CASE ~still
  BY <1>2 DEF Follows
<1> QED BY <1>1, <1>2

\* Every step keeps what is known of the calls.
LEMMA StepKeepsSound ==
    ASSUME Sound, [Next]_vars
    PROVE  Sound'
<1>1. IInv'
  BY StepKeepsIInv DEF Sound
<1>2. CASE UNCHANGED vars
  <2>1. Memory'
    BY <1>2 DEF vars, Sound, Memory
  <2>2. Calls'
    BY <1>2 DEF vars, Sound, Calls
  <2>3. Certain'
    BY <1>2 DEF vars, Sound, Certain, Readable
  <2> QED BY <1>1, <2>1, <2>2, <2>3 DEF Sound
<1>3. CASE Next
  <2>1. PICK p \in Procs : Goes(p) /\ (Spares(p) \/ StoreCall(p))
    BY <1>3, EveryStep
  <2>2. PICK c, l, t : Leaves(p, c, l, t)
    BY <2>1 DEF Goes
  <2>3. /\ DOMAIN call = Procs /\ DOMAIN links = Procs /\ DOMAIN temps = Procs /\ alone \in [Procs -> BOOLEAN]
        /\ config \in [Procs -> Copy]
    BY DEF Sound, Memory, IInv, FileSound
  <2>4. /\ call' = [call EXCEPT ![p] = c] /\ links' = [links EXCEPT ![p] = l] /\ temps' = [temps EXCEPT ![p] = t]
        /\ c \in Call /\ l \in Seq(Link) /\ t \in SUBSET Hosts /\ IsFiniteSet(t) /\ Routed(c, l)
    BY <2>2 DEF Leaves, Goto
  <2>5. /\ call'[p] = c /\ links'[p] = l /\ temps'[p] = t
        /\ \A q \in Procs \ {p} : call'[q] = call[q] /\ links'[q] = links[q] /\ temps'[q] = temps[q]
    BY <2>3, <2>4
  <2>6. alone' \in [Procs -> BOOLEAN]
        /\ \A q \in Procs \ {p} : /\ config'[q].data = config[q].data
                                  /\ alone'[q] => alone[q] /\ file'.data = file.data
    <3>1. CASE Spares(p)
      BY <2>3, <3>1 DEF Spares, Turns
    <3>2. CASE StoreCall(p)
      <4>1. alone' = [q \in Procs |-> alone[q] /\ q = p /\ Readable(config[p].data)]
        BY <3>2 DEF StoreCall
      <4>2. \A q \in Procs \ {p} : config'[q].data = config[q].data
        BY <3>2, StoreKeepsFile DEF StoreCall, Sound, IInv
      <4>3. alone' \in [Procs -> BOOLEAN] /\ \A q \in Procs \ {p} : ~alone'[q]
        BY <2>3, <4>1
      <4> QED BY <4>2, <4>3
    <3> QED BY <2>1, <3>1, <3>2
  <2>7. Memory'
    <3>1. call' \in [Procs -> Call] /\ links' \in [Procs -> Seq(Link)] /\ temps' \in [Procs -> SUBSET Hosts]
      BY <2>4 DEF Sound, Memory
    <3>2. \A q \in Procs : IsFiniteSet(temps'[q])
      BY <2>4, <2>5 DEF Sound, Memory
    <3> QED BY <2>6, <3>1, <3>2 DEF Memory
  <2>8. ASSUME NEW q \in Procs
        PROVE  /\ Routed(call'[q], links'[q])
               /\ q \in HasLocal =>
                    Follows(call'[q], links'[q], temps'[q], file'.data, config'[q].data, alone'[q])
    <3>1. CASE q = p
      BY <2>2, <2>4, <2>5, <3>1 DEF Leaves
    <3>2. CASE q # p
      <4>1. /\ Routed(call[q], links[q])
            /\ q \in HasLocal =>
                 Follows(call[q], links[q], temps[q], file.data, config[q].data, alone[q])
        BY DEF Sound, Calls
      <4>2. /\ call'[q] = call[q] /\ links'[q] = links[q] /\ temps'[q] = temps[q] /\ config'[q].data = config[q].data
            /\ alone'[q] => alone[q] /\ file'.data = file.data
        BY <2>5, <2>6, <3>2
      <4>3. q \in HasLocal =>
              Follows(call[q], links[q], temps[q], file'.data, config[q].data, alone'[q])
        BY <4>1, <4>2, OthersStand
      <4> QED BY <4>1, <4>2, <4>3
    <3> QED BY <3>1, <3>2
  <2>9. Calls'
    BY <2>8 DEF Calls
  <2>10. Certain'
    <3>0. SUFFICES ASSUME NEW q \in Procs, alone'[q]
                   PROVE  ~config'[q].outrun /\ Readable(file.data)'
      BY DEF Certain
    <3>1. CASE Spares(p)
      <4>1. CASE q = p
        <5>1. alone[p] \/ (~config[p].outrun /\ Readable(file.data))
          BY <3>0, <3>1, <4>1 DEF Spares, Turns
        <5>2. ~config[p].outrun /\ Readable(file.data)
          BY <5>1 DEF Sound, Certain
        <5> QED BY <3>1, <4>1, <5>2 DEF Spares, Readable
      <4>2. CASE q # p
        <5>1. alone[q]
          BY <3>0, <3>1, <4>2 DEF Spares, Turns
        <5>2. ~config[q].outrun /\ Readable(file.data)
          BY <5>1 DEF Sound, Certain
        <5> QED BY <3>1, <4>2, <5>2 DEF Spares, Readable
      <4> QED BY <4>1, <4>2
    <3>2. CASE StoreCall(p)
      <4>1. q = p /\ Readable(config[p].data)
        BY <3>0, <3>2 DEF StoreCall
      <4>2. ~config'[p].outrun /\ file'.data = config[p].data
        BY <3>2, StoreKeepsFile DEF StoreCall, Sound, IInv
      <4> QED BY <4>1, <4>2 DEF Readable
    <3> QED BY <2>1, <3>1, <3>2
  <2> QED BY <1>1, <2>7, <2>9, <2>10 DEF Sound
<1> QED BY <1>2, <1>3

\* The initial states.
LEMMA SoundInit == Init => Sound
<1> SUFFICES ASSUME Init PROVE Sound
  OBVIOUS
<1>1. \A p \in Procs : call[p] = NoCall /\ links[p] = <<>> /\ temps[p] = {}
  BY DEF Init
<1>2. NoCall \in Call /\ Routed(NoCall, <<>>) /\ NoCall.op = "none" /\ NoCall.at = "idle"
  BY NoCallTyped
<1>3. Memory
  <2>1. links \in [Procs -> Seq(Link)]
    BY NoLinks DEF Init
  <2>2. temps \in [Procs -> SUBSET Hosts] /\ \A p \in Procs : IsFiniteSet(temps[p])
    BY FS_EmptySet DEF Init
  <2>3. call \in [Procs -> Call]
    <3> HIDE DEF NoCall
    <3> QED BY <1>2 DEF Init
  <2>4. alone \in [Procs -> BOOLEAN]
    BY DEF Init
  <2> QED BY <2>1, <2>2, <2>3, <2>4 DEF Memory
<1>4. ASSUME NEW data, NEW copy, NEW single
      PROVE  Follows(NoCall, <<>>, {}, data, copy, single)
  <2> HIDE DEF NoCall
  <2> QED BY <1>2, NoLinks, QuietCall
<1>5. Calls
  BY <1>1, <1>2, <1>4 DEF Calls
<1>6. Certain
  BY DEF Certain, Init
<1> QED BY <1>3, <1>5, <1>6, RegistryInit DEF Sound

-----------------------------------------------------------------------------
(* The theorems.                                                           *)

\* The lists, the calls, the copies and the file have the shape the code gives them,
\* whatever the times of the file tell: a free id is a number, a link to the registry
\* or a temporary one, and who has the file open for writing is who has the lock.
THEOREM Typed == Spec => []TypeOK
<1>1. Sound => TypeOK
  <2> SUFFICES ASSUME Sound PROVE TypeOK
    OBVIOUS
  <2>1. DOMAIN file.data \subseteq Keys /\ \A p \in Procs : DOMAIN config[p].data \subseteq Keys
    <3>1. file.data \in Tables /\ \A p \in Procs : config[p].data \in Tables
      BY StandsAt DEF Sound, IInv, FileSound
    <3> QED BY <3>1, TableShape
  <2>2. ASSUME NEW p \in Procs
        PROVE  /\ config[p].seen \in 0 .. MaxTime
               /\ (file.lock = p) = config[p].open
               /\ links[p] \in Seq(Link) /\ temps[p] \subseteq Hosts
               /\ call[p].id \in Nat /\ call[p].next \in Nat
    <3>1. /\ config[p] \in Copy /\ config[p].seen <= now /\ now <= MaxTime /\ now \in Nat
          /\ config[p].open <=> file.lock = p
      BY DEF Sound, IInv, FileSound
    <3>2. call[p] \in Call /\ links[p] \in Seq(Link) /\ temps[p] \in SUBSET Hosts
      BY StandsAt
    <3> QED BY <3>1, <3>2, ConfigConstants DEF Copy, Call
  <2> QED BY <2>1, <2>2 DEF TypeOK, Keys, Link
<1> QED BY <1>1, SoundInit, StepKeepsSound, PTL DEF Spec

\* update_servers: a process that was alone (no other has written since the call began,
\* or before in the second of the copy it began with, and the file can be read back) has
\* a link for every server of the file, to the host the file says, and for every
\* temporary one, and no other.
THEOREM LinksFollow == Spec => []LinksMatchFile
<1>1. Sound => LinksMatchFile
  <2> SUFFICES ASSUME Sound, NEW p \in HasLocal, call[p].at \in {"found", "create", "again"}, alone[p]
               PROVE  /\ {<<links[p][i].id, links[p][i].host>> :
                             i \in {j \in 2 .. Len(links[p]) : links[p][j].id # Temporary}}
                           = {<<k[1], file.data[k]>> : k \in {l \in DOMAIN file.data : l[1] # 0 /\ l[2] = "Host"}}
                      /\ \A h \in temps[p] : FindServer(p, h) # NoLink
    BY DEF LinksMatchFile
  <2> DEFINE l == links[p]
             data == file.data
             mine == {<<l[i].id, l[i].host>> : i \in {j \in 2 .. Len(l) : l[j].id # Temporary}}
             theirs == {<<k[1], data[k]>> : k \in Served(data)}
  <2>1. p \in Procs /\ l \in Seq(Link) /\ data \in Tables /\ Shape(l) /\ Complete(l, temps[p], data)
    <3>1. p \in Procs
      BY RegistryConstants
    <3>2. l \in Seq(Link) /\ data \in Tables /\ Follows(call[p], l, temps[p], data, config[p].data, alone[p])
      BY <3>1, StandsAt
    <3> QED BY <3>1, <3>2 DEF Follows, Progress
  <2>2. Matches(l, temps[p], data, 1) /\ Linked(l, data, Ids) /\ \A h \in temps[p] : Finds(l, h)
    BY <2>1 DEF Complete
  <2>3. \A h \in temps[p] : FindServer(p, h) # NoLink
    BY <2>1, <2>2, FindServerFinds
  <2> HIDE DEF l, data
  <2>4. ASSUME NEW j \in 2 .. Len(l), l[j].id # Temporary
        PROVE  \E k \in Served(data) : <<k[1], data[k]>> = <<l[j].id, l[j].host>>
    <3> DEFINE k == <<l[j].id, "Host">>
    <3>1. k \in DOMAIN data /\ data[k] = l[j].host
      BY <2>2, <2>4 DEF Matches
    <3>2. k[1] = l[j].id /\ k[1] # 0 /\ k[2] = "Host"
      BY <2>1, <2>4 DEF Shape
    <3> HIDE DEF k
    <3> QED BY <3>1, <3>2 DEF Served
  <2>5. ASSUME NEW k \in Served(data)
        PROVE  \E j \in {n \in 2 .. Len(l) : l[n].id # Temporary} : <<l[j].id, l[j].host>> = <<k[1], data[k]>>
    <3>1. PICK i \in Ids, f \in {"Host", "Password"} : k = <<i, f>>
      BY <2>1, TableShape DEF Served, Keys
    <3>2. k = <<k[1], "Host">> /\ k[1] \in Ids
      BY <3>1 DEF Served
    <3>3. PICK j \in 2 .. Len(l) : l[j].id = k[1]
      BY <2>2, <3>2 DEF Linked
    <3>4. l[j].id # Temporary /\ data[<<l[j].id, "Host">>] = l[j].host
      BY <2>2, <3>2, <3>3, RegistryConstants DEF Matches
    <3> QED BY <3>2, <3>3, <3>4
  <2>6. mine = theirs
    BY <2>4, <2>5
  <2> QED BY <2>3, <2>6 DEF l, data, Served
<1> QED BY <1>1, SoundInit, StepKeepsSound, PTL DEF Spec

\* add_remote_server: a call that succeeds has a link to its server, and a server it
\* created is in the file with its password, when the process was alone.
THEOREM AddedStays == Spec => []AddedIsStored
<1>1. Sound => AddedIsStored
  <2> SUFFICES ASSUME Sound, NEW p \in HasLocal, At(p, "done"), call[p].op = "add", alone[p]
               PROVE  /\ FindServer(p, call[p].host) # NoLink
                      /\ call[p].created => \E id \in Ids :
                           /\ <<id, "Host">> \in DOMAIN file.data /\ file.data[<<id, "Host">>] = call[p].host
                           /\ <<id, "Password">> \in DOMAIN file.data
                           /\ Folded[file.data[<<id, "Password">>]] = Folded[call[p].password]
    BY DEF AddedIsStored
  <2>1. p \in Procs
    BY RegistryConstants
  <2>2. /\ links[p] \in Seq(Link)
        /\ Follows(call[p], links[p], temps[p], file.data, config[p].data, alone[p])
    BY <2>1, StandsAt
  <2>3. /\ Wanted(call[p], file.data, temps[p]) /\ Kept(call[p], file.data)
        /\ Finds(links[p], call[p].host)
    BY <2>2 DEF Follows, HasAdded, At
  <2>4. FindServer(p, call[p].host) # NoLink
    BY <2>1, <2>2, <2>3, FindServerFinds
  <2> QED BY <2>3, <2>4 DEF Wanted, Kept
<1> QED BY <1>1, SoundInit, StepKeepsSound, PTL DEF Spec

=============================================================================
