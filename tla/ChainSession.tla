---------------------------- MODULE ChainSession ----------------------------
(***************************************************************************)
(* What the locking calls of the client promise its threads: the chain, or *)
(* a device opened on it, is locked by one thread at a time.  A thread may *)
(* hand its lock over from one object to another without giving the chain  *)
(* up in between.  Nothing is said of mutexes, packets, servers or links.  *)
(***************************************************************************)
CONSTANTS
    Threads,    \* threads of the client process
    Objects,    \* the chain and the devices opened on it
    None        \* nothing is locked

VARIABLE
    session     \* what each thread has locked

TypeOK == session \in [Threads -> Objects \cup {None}]

Init == session = [t \in Threads |-> None]

Free == \A t \in Threads : session[t] = None

Lock(t, x) ==
    /\ Free
    /\ session' = [session EXCEPT ![t] = x]

HandOver(t, x) ==
    /\ session[t] # None
    /\ session' = [session EXCEPT ![t] = x]

\* The end of a session: an unlock, a lock the server refused after all, or the
\* loss of the link.
Unlock(t) ==
    /\ session[t] # None
    /\ session' = [session EXCEPT ![t] = None]

Next == \E t \in Threads : \/ Unlock(t)
                           \/ \E x \in Objects : Lock(t, x) \/ HandOver(t, x)

Spec == Init /\ [][Next]_session

\* One thread at a time has something locked.
OneSession == \A t, u \in Threads :
    session[t] # None /\ session[u] # None => t = u

=============================================================================
