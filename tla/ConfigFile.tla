------------------------------ MODULE ConfigFile ------------------------------
(***************************************************************************)
(* The configuration file that the programs of one user share.  Each keeps *)
(* a copy of it in memory, which it reloads when the times of the file     *)
(* differ from those of its last load.  A change is made with the file     *)
(* locked for writing, and writes the whole copy.                          *)
(*                                                                         *)
(* The times count seconds: a process does not see that another one writes *)
(* the file in the second of the times it has.  Its copy is then outrun.   *)
(*                                                                         *)
(* The text of the file is abstracted to its keys and values, in the order *)
(* in which they are written; Parsed is what the reader makes of it.  The  *)
(* program is single-threaded: nothing in the code protects the copy.      *)
(***************************************************************************)
EXTENDS Naturals, SequencesExt

CONSTANTS
    Procs,          \* processes
    Nobody,
    Ids,            \* the sections Remote<id>
    Starts,         \* what earlier programs may have left in the file; nothing: no file
    Unreadable,     \* values that cannot be read back: with a quote, too long
    MaxTime         \* bound of the writes

ASSUME ConfigConstants ==
    /\ Nobody \notin Procs
    /\ Ids \subseteq Nat /\ MaxTime \in Nat \ {0}

VARIABLES
    file,   \* its data, its times (0: there is no file) and who has it locked for writing
    now,    \* how often it was created or written: what a new time is counted by
    config  \* of each process, AJI_CONFIGURATION_FILE

Empty == [k \in {} |-> {}]

NoCopy ==
    [data |-> Empty,        \* m_data
     seen |-> 0,            \* m_file_mtime and m_file_ctime
     open |-> FALSE,        \* m_file # NULL
     writing |-> FALSE,     \* in set_value or deletekey, before store
     outrun |-> FALSE]      \* history: another process wrote in the second of seen

ConfigInit ==
    /\ file \in {[data |-> start, time |-> IF start = Empty THEN 0 ELSE 1, lock |-> Nobody] : start \in Starts}
    /\ now = file.time
    /\ config = [p \in Procs |-> NoCopy]

-----------------------------------------------------------------------------
(* Data.                                                                   *)

\* STRING::operator <: keys are in order of their sections.
Before(k, l) == k[1] < l[1] \/ (k[1] = l[1] /\ k[2] = "Host" /\ l[2] = "Password")

Place(data, key) == 1 + Cardinality({l \in DOMAIN data : Before(l, key)})
KeyAt(data, k) == CHOOSE key \in DOMAIN data : Place(data, key) = k

\* load and its READER: it stops at the first entry it cannot read.
Parsed(data) ==
    Restrict(data, {k \in DOMAIN data : \A l \in DOMAIN data :
                        data[l] \in Unreadable => Before(k, l)})

\* Every value in the file can be read back.
Readable(data) == \A k \in DOMAIN data : data[k] \notin Unreadable

With(data, key, value) == [k \in DOMAIN data \cup {key} |-> IF k = key THEN value ELSE data[k]]

\* deletekey: the key itself and those in its section.
WithoutSection(data, id) == Restrict(data, {k \in DOMAIN data : k[1] # id})

\* enumerate: the place, in the order of the keys, of the next section after the
\* one that the key in place k belongs to; 0 if there is none.
Enumerate(data, k) ==
    LET next == {Place(data, key) : key \in {l \in DOMAIN data : Place(data, l) > k /\ (k = 0 \/ l[1] # KeyAt(data, k)[1])}}
    IN IF next = {} THEN 0 ELSE Min(next)

-----------------------------------------------------------------------------
(* load.                                                                   *)

\* The times of the file are not those of the last load.
Changed(p) == file.time = 0 \/ file.time # config[p].seen

LoadOk(p) == file.time # 0

\* Mutant: m_data is not cleared.
Merged(p) ==
    IF ~Changed(p) THEN config[p]
    ELSE IF ~LoadOk(p) THEN [config[p] EXCEPT !.seen = 0, !.outrun = FALSE]
    ELSE [config[p] EXCEPT !.data = Parsed(file.data) @@ config[p].data, !.seen = file.time, !.outrun = FALSE]

Loaded(p) ==
    IF ~Changed(p) THEN config[p]
    ELSE IF ~LoadOk(p) THEN [config[p] EXCEPT !.seen = 0, !.outrun = FALSE]
    ELSE [config[p] EXCEPT !.data = Parsed(file.data), !.seen = file.time, !.outrun = FALSE]

\* It waits for the lock, unless it needs not read or has the file open.
CanLoad(p) == ~Changed(p) \/ config[p].open \/ file.lock = Nobody

Load(p) ==
    /\ CanLoad(p)
    /\ config' = [config EXCEPT ![p] = Loaded(p)]
    /\ UNCHANGED <<file, now>>

Has(p, key) == LoadOk(p) /\ key \in DOMAIN Loaded(p).data

\* get_value: NULL is {}.
Value(p, key) == IF Has(p, key) THEN Loaded(p).data[key] ELSE {}

-----------------------------------------------------------------------------
(* set_value and deletekey.                                                *)

\* The times that a write may give the file: they count seconds, so they may be those it has.
WriteTimes == IF now = MaxTime THEN {} ELSE {file.time, now + 1} \ {0}

\* Mutant: the copy is taken as it is.
OpenedUnread(p) == config[p].data

\* open_file for writing: it waits for the lock, creates the file, and loads it.
CanOpen(p) == file.lock \in {Nobody, p}
Opened(p) == IF file.time = 0 THEN Empty ELSE Loaded(p).data

OpenForWrite(p, data, writing) ==
    /\ CanOpen(p)
    /\ \E t \in IF file.time = 0 THEN WriteTimes ELSE {file.time} :
         /\ file' = [file EXCEPT !.time = t, !.lock = p]
         /\ now' = IF file.time = 0 THEN now + 1 ELSE now
         /\ config' = [config EXCEPT ![p] = [data |-> data, seen |-> t, open |-> TRUE, writing |-> writing,
                                             outrun |-> Loaded(p).outrun]]

\* A change of the copy, which is written in a later step.
Change(p, data) == OpenForWrite(p, data, TRUE)

\* createonly: the key is there.  The file is left open, and locked.
CreateRefused(p, key) == key \in DOMAIN Opened(p) /\ OpenForWrite(p, Opened(p), FALSE)

\* store, and close_file, with which the process gives up all its locks on the file.
StoreWith(p, lock) ==
    /\ config[p].writing
    /\ \E t \in WriteTimes :
         /\ now' = now + 1 /\ file' = [data |-> config[p].data, time |-> t, lock |-> lock]
         /\ config' = [q \in Procs |->
              IF q = p THEN [config[q] EXCEPT !.open = FALSE, !.writing = FALSE, !.outrun = FALSE]
              ELSE [config[q] EXCEPT !.outrun = config[q].seen = t]]

\* Mutant: the lock is kept.
StoreLocked(p) == StoreWith(p, p)

Store(p) == StoreWith(p, Nobody)

\* The process ends, or is killed.
Exit(p) ==
    /\ config' = [config EXCEPT ![p] = NoCopy]
    /\ file' = IF file.lock = p THEN [file EXCEPT !.lock = Nobody] ELSE file
    /\ UNCHANGED now

-----------------------------------------------------------------------------
(* Properties.                                                             *)

\* "If they're both the same then no need to reload the file": a copy whose times are
\* those of the file is what the file says, but for one that another process has outrun,
\* and as long as the file can be read back.
CopyIsFresh == \A p \in Procs :
    file.time # 0 /\ config[p].seen = file.time /\ ~config[p].writing /\ ~config[p].outrun /\ Readable(file.data) =>
        config[p].data = file.data

=============================================================================
