------------------------------- MODULE Registry -------------------------------
(***************************************************************************)
(* The servers that a process knows: the local one, those of the           *)
(* configuration file, which other processes change as well, and temporary *)
(* ones.  A call of the program is a sequence of config_ calls, between    *)
(* which another process may make its own: each is a step.                 *)
(*                                                                         *)
(* update_servers is called from every call; at says where a call is, and  *)
(* then where it goes on when update_servers returns.                      *)
(***************************************************************************)
EXTENDS Integers, ConfigFile

CONSTANTS
    Hosts, Passwords,
    Requests,       \* the servers [host, password, temporary] each process may add
    Folded,         \* passwords without case: stricmp compares them so
    HasLocal,       \* processes with a server of their own computer
    MayFail,        \* processes that may be unable to open the file for writing
    Temporary,      \* the id 0xFF
    MaxRetry        \* 6: the refused creations after which a call gives up

Nothing == {}   \* a NULL string

ASSUME RegistryConstants ==
    /\ Temporary \in Nat /\ Temporary \notin Ids /\ 0 \in Ids
    /\ HasLocal \subseteq Procs /\ MayFail \subseteq Procs /\ MaxRetry \in Nat
    /\ \A p \in Procs : Requests[p] \subseteq [host : Hosts, password : Passwords, temporary : BOOLEAN]
    /\ Nothing \notin Hosts
    /\ \A s \in Starts :
         /\ IsFiniteSet(DOMAIN s) /\ DOMAIN s \subseteq Ids \X {"Host", "Password"}
         /\ s = [k \in DOMAIN s |-> s[k]]
         /\ \A k \in DOMAIN s : s[k] \in IF k[2] = "Host" THEN Hosts ELSE Passwords

VARIABLES
    links,  \* m_link of each process
    temps,  \* the hosts in s_temporary_servers
    call,   \* the call each process is in
    alone   \* history: since that call began no other process has written the file, whose
            \* values can be read back, and its copy was not outrun when it began

vars == <<file, now, config, links, temps, call, alone>>

Local == [id |-> 0, host |-> Nothing]

NoCall ==
    [op |-> "none", at |-> "idle", then |-> "idle", host |-> Nothing, password |-> Nothing,
     temporary |-> FALSE,
     id |-> 0,      \* i: an id of the configuration, or an index of m_link
     next |-> 1,    \* the next free id, as update_servers found it
     retry |-> 0,
     link |-> 0,    \* update_servers: a place in m_link
     place |-> 0,   \* update_servers: instance, a place in the configuration
     section |-> 0, \* update_servers: the section there
     created |-> FALSE]

Init ==
    /\ ConfigInit
    /\ links = [p \in Procs |-> <<>>]
    /\ temps = [p \in Procs |-> {}]
    /\ call = [p \in Procs |-> NoCall]
    /\ alone = [p \in Procs |-> FALSE]

-----------------------------------------------------------------------------

At(p, at) == call[p].at = at
Goto(p, c) == call' = [call EXCEPT ![p] = c]

\* update_servers is called, and the call goes on at then.
Update(c, then) == [c EXCEPT !.at = "local", !.then = then]

Begin(p, c) ==
    /\ At(p, "idle") /\ Goto(p, c)
    /\ alone' = [alone EXCEPT ![p] = ~config[p].outrun /\ Readable(file.data)]

\* find_server: the index of the first link to the host, as the code counts; or NoLink.
NoLink == -1
FindServer(p, host) ==
    LET found == {i \in DOMAIN links[p] : links[p][i].host = host} IN
    IF found = {} THEN NoLink ELSE (CHOOSE i \in found : \A j \in found : i <= j) - 1

-----------------------------------------------------------------------------
(* update_servers.                                                         *)

UpdateLocal(p) ==
    /\ At(p, "local")
    /\ IF p \in HasLocal /\ links[p] = <<>>
       THEN Load(p) /\ links' = [links EXCEPT ![p] = <<Local>>]
       ELSE UNCHANGED <<file, now, config, links>>
    /\ Goto(p, [call[p] EXCEPT !.at = "sweep", !.link = Len(links'[p])])
    /\ UNCHANGED <<temps, alone>>

\* Mutant: whatever host has the id now.
KeepsId(p, link) ==
    IF link.id = Temporary THEN link.host \in temps[p]
    ELSE Value(p, <<link.id, "Host">>) # Nothing

\* "Delete servers which no longer exist", from the last one; the first one stays.
Keeps(p, link) ==
    IF link.id = Temporary THEN link.host \in temps[p]
    ELSE Value(p, <<link.id, "Host">>) = link.host

Sweep(p) ==
    LET i == call[p].link
        link == links[p][i] IN
    /\ At(p, "sweep") /\ i > 1
    /\ IF link.id = Temporary THEN UNCHANGED <<file, now, config>> ELSE Load(p)
    /\ IF Keeps(p, link)
       THEN Goto(p, [call[p] EXCEPT !.link = i - 1]) /\ UNCHANGED links
       ELSE /\ links' = [links EXCEPT ![p] = RemoveAt(@, i)]
            /\ Goto(p, [call[p] EXCEPT !.link = Len(links[p]) - 1])
    /\ UNCHANGED <<temps, alone>>

\* The temporary servers that have no link get one; update_servers returns.
AddTemporaries(p, c) ==
    /\ \E order \in SetToSeqs({h \in temps[p] : FindServer(p, h) = NoLink}) :
         links' = [links EXCEPT ![p] = @ \o [i \in DOMAIN order |-> [id |-> Temporary, host |-> order[i]]]]
    /\ Goto(p, [c EXCEPT !.at = c.then, !.then = "idle", !.place = 0, !.next = IF c.then = "done" THEN 1 ELSE @])

\* config_enumerate: it loads the configuration when it begins only, but the place is
\* one in what the process has now.  Remote0 is passed over.
Section(p) ==
    LET c == [call[p] EXCEPT !.link = 0, !.next = IF At(p, "sweep") THEN 1 ELSE @]
        first == c.place = 0
        copy == IF first THEN Loaded(p) ELSE config[p]
        place == IF first /\ ~LoadOk(p) THEN 0 ELSE Enumerate(copy.data, c.place)
        id == KeyAt(copy.data, place)[1] IN
    /\ At(p, "sections") \/ (At(p, "sweep") /\ call[p].link <= 1)
    /\ IF first THEN Load(p) ELSE UNCHANGED <<file, now, config>>
    /\ IF place = 0 THEN AddTemporaries(p, c)
       ELSE /\ Goto(p, IF id = 0 THEN [c EXCEPT !.at = "sections", !.place = place]
                       ELSE [c EXCEPT !.at = "host", !.place = place, !.section = id,
                                      !.next = IF id >= @ THEN id + 1 ELSE @])
            /\ UNCHANGED links
    /\ UNCHANGED <<temps, alone>>

AddLink(p) ==
    LET id == call[p].section
        host == Value(p, <<id, "Host">>) IN
    /\ At(p, "host")
    /\ Load(p)
    /\ links' = IF host # Nothing /\ \A i \in DOMAIN links[p] : links[p][i].id # id
                THEN [links EXCEPT ![p] = Append(@, [id |-> id, host |-> host])] ELSE links
    /\ Goto(p, [call[p] EXCEPT !.at = "sections", !.section = 0])
    /\ UNCHANGED <<temps, alone>>

-----------------------------------------------------------------------------
(* Calls.                                                                  *)

\* The process ends with what it has in memory.  It may be started again.
Ends(p) ==
    /\ Exit(p)
    /\ links' = [links EXCEPT ![p] = <<>>]
    /\ temps' = [temps EXCEPT ![p] = {}]
    /\ Goto(p, NoCall)

\* update_hardware, and every other call that only looks for servers.
List(p) == Begin(p, Update([NoCall EXCEPT !.op = "list"], "done")) /\ UNCHANGED <<file, now, config, links, temps>>

AddRemoteServer(p) ==
    /\ \E r \in Requests[p] :
         Begin(p, Update([NoCall EXCEPT !.op = "add", !.host = r.host, !.password = r.password,
                                        !.temporary = r.temporary], "found"))
    /\ UNCHANGED <<file, now, config, links, temps>>

\* Whether there is a temporary server of that name already: the code then deletes
\* the middle of a block of memory, which ends the process.
Known(p, host) == host \in temps[p]

\* The server is looked for.  A temporary one gives way to a persistent one.
Found(p) ==
    LET c == call[p]
        i == FindServer(p, c.host)
        isTemporary == i # NoLink /\ links[p][i + 1].id = Temporary IN
    /\ At(p, "found")
    /\ CASE isTemporary /\ ~c.temporary ->
              /\ temps' = [temps EXCEPT ![p] = @ \ {c.host}]
              /\ links' = [links EXCEPT ![p] = RemoveAt(@, i + 1)]
              /\ Goto(p, Update(c, "create"))
              /\ UNCHANGED <<file, now, config>>
         [] i # NoLink /\ ~isTemporary ->
              /\ Goto(p, [c EXCEPT !.at = "password", !.id = i])
              /\ UNCHANGED <<file, now, config, links, temps>>
         [] i = NoLink /\ ~c.temporary ->
              /\ Goto(p, Update(c, "create"))
              /\ UNCHANGED <<file, now, config, links, temps>>
         [] c.temporary /\ (i = NoLink \/ isTemporary) /\ ~Known(p, c.host) ->
              /\ temps' = [temps EXCEPT ![p] = @ \cup {c.host}]
              /\ Goto(p, Update(c, "done"))
              /\ UNCHANGED <<file, now, config, links>>
         [] c.temporary /\ (i = NoLink \/ isTemporary) /\ Known(p, c.host) ->
              Ends(p)
    /\ UNCHANGED alone

\* A creation that is refused is tried again, but not for ever.
TryAgain(c) ==
    IF c.retry >= MaxRetry THEN [c EXCEPT !.at = "error"]
    ELSE Update([c EXCEPT !.retry = @ + 1], "again")

\* Mutant: the id that the new server got is forgotten.
CreatedUnknown(c) == [c EXCEPT !.at = "store", !.then = "password", !.next = 1, !.created = TRUE]

Created(c) == [c EXCEPT !.at = "store", !.then = "password", !.id = c.next, !.next = 1, !.created = TRUE]

Create(p) ==
    LET c == call[p]
        key == <<c.next, "Host">> IN
    /\ At(p, "create")
    /\ c.next \in Ids   \* bound
    /\ \/ /\ key \notin DOMAIN Opened(p)
          /\ Change(p, With(Opened(p), key, c.host))
          /\ Goto(p, Created(c))
       \/ /\ CreateRefused(p, key)
          /\ Goto(p, TryAgain(c))
       \/ /\ p \in MayFail
          /\ Goto(p, TryAgain(c))
          /\ UNCHANGED <<file, now, config>>
    /\ UNCHANGED <<links, temps, alone>>

\* Another process may have added the same server.
Again(p) ==
    LET c == call[p]
        i == FindServer(p, c.host) IN
    /\ At(p, "again")
    /\ Goto(p, IF i = NoLink THEN Update(c, "create") ELSE [c EXCEPT !.at = "password", !.id = i])
    /\ UNCHANGED <<file, now, config, links, temps, alone>>

\* "If the password is already correct then no need to set it again."
IsCorrect(p, password, stored) == stored # Nothing /\ Folded[password] = Folded[stored]

CheckPassword(p) ==
    LET c == call[p] IN
    /\ At(p, "password")
    /\ Load(p)
    /\ Goto(p, [c EXCEPT !.next = 1, !.retry = 0,
                         !.at = IF IsCorrect(p, c.password, Value(p, <<c.id, "Password">>))
                                THEN "done" ELSE "set"])
    /\ UNCHANGED <<links, temps, alone>>

SetPassword(p) ==
    LET c == call[p] IN
    /\ At(p, "set")
    /\ c.id \in Ids     \* bound
    /\ \/ /\ Change(p, With(Opened(p), <<c.id, "Password">>, c.password))
          /\ Goto(p, [c EXCEPT !.at = "store", !.then = "update"])
       \/ /\ p \in MayFail
          /\ Goto(p, [c EXCEPT !.at = "error"])
          /\ UNCHANGED <<file, now, config>>
    /\ UNCHANGED <<links, temps, alone>>

\* remove_remote_server, on any link but the local one's.  The result of
\* config_delete is not looked at.
RemoveRemoteServer(p) == \E i \in DOMAIN links[p] :
    LET link == links[p][i] IN
    /\ link.host # Nothing
    /\ \/ /\ link.id # Temporary
          /\ Change(p, WithoutSection(Opened(p), link.id))
          /\ Begin(p, [NoCall EXCEPT !.op = "remove", !.at = "store", !.then = "done"])
       \/ /\ link.id = Temporary \/ p \in MayFail
          /\ Begin(p, [NoCall EXCEPT !.op = "remove", !.at = "done"])
          /\ UNCHANGED <<file, now, config>>
    /\ temps' = [temps EXCEPT ![p] = IF link.id = Temporary THEN @ \ {link.host} ELSE @]
    /\ links' = [links EXCEPT ![p] = RemoveAt(@, i)]

StoreCall(p) ==
    /\ At(p, "store")
    /\ Store(p)
    /\ Goto(p, IF call[p].then = "update" THEN Update(call[p], "done")
               ELSE [call[p] EXCEPT !.at = call[p].then, !.then = "idle"])
    /\ alone' = [q \in Procs |-> alone[q] /\ q = p /\ Readable(config[p].data)]
    /\ UNCHANGED <<links, temps>>

Return(p) ==
    /\ call[p].at \in {"done", "error"}
    /\ Goto(p, NoCall)
    /\ alone' = [alone EXCEPT ![p] = FALSE]
    /\ UNCHANGED <<file, now, config, links, temps>>

\* The process is killed.
Killed(p) == Ends(p) /\ alone' = [alone EXCEPT ![p] = FALSE]

Next ==
    \E p \in Procs :
         \/ UpdateLocal(p) \/ Sweep(p) \/ Section(p) \/ AddLink(p)
         \/ List(p) \/ AddRemoteServer(p) \/ Found(p) \/ Create(p) \/ Again(p) \/ CheckPassword(p)
         \/ SetPassword(p) \/ RemoveRemoteServer(p) \/ StoreCall(p) \/ Return(p)
         \/ Killed(p)

Spec == Init /\ [][Next]_vars

-----------------------------------------------------------------------------
(* Properties.                                                             *)

\* The file is locked by the process that has it open, by no other.
TypeOK ==
    /\ DOMAIN file.data \subseteq Ids \X {"Host", "Password"}
    /\ \A p \in Procs :
         /\ DOMAIN config[p].data \subseteq Ids \X {"Host", "Password"}
         /\ config[p].seen \in 0 .. MaxTime
         /\ (file.lock = p) = config[p].open
         /\ links[p] \in Seq([id : Ids \cup {Temporary}, host : Hosts \cup {Nothing}])
         /\ temps[p] \subseteq Hosts
         /\ call[p].id \in Nat /\ call[p].next \in Nat

\* When update_servers returns, and the process was alone, the
\* persistent links are the servers of the file and every temporary one has a link.
\* A process without a local server never looks at its first link.
LinksMatchFile == \A p \in HasLocal :
    call[p].at \in {"found", "create", "again"} /\ alone[p] =>
        /\ {<<links[p][i].id, links[p][i].host>> : i \in {j \in 2 .. Len(links[p]) : links[p][j].id # Temporary}}
             = {<<k[1], file.data[k]>> : k \in {l \in DOMAIN file.data : l[1] # 0 /\ l[2] = "Host"}}
        /\ \A h \in temps[p] : FindServer(p, h) # NoLink

\* A call that adds a server and succeeds has a link to it, and what it created is in
\* the file with the password asked for; when the process was alone.
\* Without a local server, an old first link may keep its id from the new server.
AddedIsStored == \A p \in HasLocal :
    At(p, "done") /\ call[p].op = "add" /\ alone[p] =>
        /\ FindServer(p, call[p].host) # NoLink
        /\ call[p].created => \E id \in Ids :
             /\ <<id, "Host">> \in DOMAIN file.data /\ file.data[<<id, "Host">>] = call[p].host
             /\ <<id, "Password">> \in DOMAIN file.data
             /\ Folded[file.data[<<id, "Password">>]] = Folded[call[p].password]

\* open_file: AJI_DEBUG_ASSERT(m_file == NULL).
OpensClosedFile == \A p \in Procs : call[p].at \in {"create", "set"} => ~config[p].open

\* No update is lost, an update changes one entry only, and two processes never take
\* the same id; unless one writes a copy that was outrun, or a file that it could not
\* read back.
Table == INSTANCE ServerTable WITH table <- file.data
Spoils(p) == config[p].writing /\ (config[p].outrun \/ ~Readable(file.data))
ImplementsTable == Table!Init /\ [][Table!Next \/ \E p \in Procs : Spoils(p)]_(file.data)

=============================================================================
