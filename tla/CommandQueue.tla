---------------------------- MODULE CommandQueue ----------------------------
(***************************************************************************)
(* What an open device promises the program that locked it: commands are   *)
(* executed in the order they are given, each at most once.  A call that   *)
(* returns success may leave its command, and earlier ones, to be executed *)
(* later.  When the server refuses a command nothing after it is executed, *)
(* and the program is told before anything it gives later is executed.     *)
(***************************************************************************)
EXTENDS Naturals, Sequences

CONSTANTS Commands    \* what a program may ask for

VARIABLES
    todo,       \* accepted, and not executed yet
    done,       \* executed, in that order
    owed        \* a command was refused and the program has not been told

vars == <<todo, done, owed>>

Init == todo = <<>> /\ done = <<>> /\ owed = FALSE

\* The first k commands of queue are executed.  The others are still to do, or
\* the server refuses (the next one, or the lock itself) and they are dropped.
Executes(queue, k) ==
    /\ done' = done \o SubSeq(queue, 1, k)
    /\ \/ todo' = SubSeq(queue, k + 1, Len(queue)) /\ owed' = FALSE
       \/ todo' = <<>> /\ owed' = TRUE

\* The program gives the commands new, at most one; some are executed.
Accept(new) ==
    /\ ~owed
    /\ LET queue == todo \o new IN \E k \in 0 .. Len(queue) : Executes(queue, k)

\* What is given before the program is told of a refusal is dropped as well.
Drop == owed /\ UNCHANGED vars

\* A call reports the error.
Tell ==
    /\ owed
    /\ owed' = FALSE
    /\ UNCHANGED <<todo, done>>

Next == \/ \E new \in {<<>>} \cup {<<c>> : c \in Commands} : Accept(new)
        \/ Drop
        \/ Tell

Spec == Init /\ [][Next]_vars

=============================================================================
