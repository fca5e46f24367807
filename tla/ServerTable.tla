----------------------------- MODULE ServerTable -----------------------------
(***************************************************************************)
(* What the configuration promises: one table of remote servers shared by  *)
(* all programs of a user.  An update changes one entry, no other update   *)
(* is lost by it, and an id is given to a server only while it is free.    *)
(***************************************************************************)
EXTENDS Functions

CONSTANTS Ids, Hosts, Passwords, Starts

VARIABLE table  \* the value of each key <<id, name>> that has one

Put(key, value) == [k \in DOMAIN table \cup {key} |-> IF k = key THEN value ELSE table[k]]

Init == table \in Starts

Add(id, host) == <<id, "Host">> \notin DOMAIN table /\ table' = Put(<<id, "Host">>, host)

SetPassword(id, password) == table' = Put(<<id, "Password">>, password)

Remove(id) == table' = Restrict(table, {k \in DOMAIN table : k[1] # id})

Next == \E id \in Ids :
    \/ \E host \in Hosts : Add(id, host)
    \/ \E password \in Passwords : SetPassword(id, password)
    \/ Remove(id)

Spec == Init /\ [][Next]_table

=============================================================================
