---------------------------- MODULE MCDeviceLists ----------------------------
(* Model-checking instance of DeviceLists. *)
EXTENDS DeviceLists

CONSTANTS t1, t2, near, far, a, b, c

Named(id, name) == [id |-> id, name |-> name]

MCLinks == <<near, far>>

\* The second list has nothing of the first but a device, the third is empty.
MCChainLists == <<<<Named(1, a)>>, <<Named(3, b), Named(1, a)>>, <<>>>>

\* A device both servers know by other names, and one without an id at each.
MCDefined == near :> <<Named(1, a), Named(0, c)>> @@ far :> <<Named(1, b), Named(0, b)>>

MCOffered == {Named(0, c), Named(2, a)}

MCNameLength == a :> 1 @@ b :> 2 @@ c :> 0 @@ None :> 0

Threads == Permutations(Users)
=============================================================================
