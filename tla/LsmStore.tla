------------------------------ MODULE LsmStore ------------------------------
(***************************************************************************)
(* What an LSM tree is to the threads that use it: one key/value store.    *)
(* A call of a cursor searches, inserts or removes one key, and a          *)
(* truncate empties the store.  What the store holds is saved from time    *)
(* to time, and a crash leaves it with what was saved last.  Nothing here  *)
(* knows of chunks, of the generation of the roster, of merges or of       *)
(* worker threads.  Saving may lag: a state of the store can be marked,    *)
(* and what is saved later is the oldest mark, or a later one, or what the *)
(* store holds now, never a state older than one saved before.             *)
(***************************************************************************)
EXTENDS Naturals, Sequences

CONSTANTS
    Keys,       \* the keys of the records
    Vals,       \* their values
    NULL        \* no record: what dict holds for a key that is not there

VARIABLES
    dict,       \* the record of each key
    saved,      \* the records a crash would leave
    marks,      \* the states of the store still to be saved, oldest first
    call        \* the call the last step answered, with what it
                \* returned, or NoCall after a step of the store itself

vars == <<dict, saved, marks, call>>

Ops == {"search", "insert", "remove", "truncate", "crash"}

\* A call: its function and arguments, and the value it gave back.
Call == [op : Ops, key : Keys \cup {NULL}, val : Vals \cup {NULL},
         out : Vals \cup {NULL}]

NoCall == [op |-> "none", key |-> NULL, val |-> NULL, out |-> NULL]

TypeOK ==
    /\ dict \in [Keys -> Vals \cup {NULL}]
    /\ saved \in [Keys -> Vals \cup {NULL}]
    /\ marks \in Seq([Keys -> Vals \cup {NULL}])
    /\ call \in Call \cup {NoCall}

\* A search gives the record of the key, and changes nothing.
Search(c) ==
    /\ c.op = "search"
    /\ c.key \in Keys
    /\ c.out = dict[c.key]
    /\ UNCHANGED <<dict, saved, marks>>

\* After an insert the key has the value, whatever it had.
Insert(c) ==
    /\ c.op = "insert"
    /\ c.key \in Keys /\ c.val \in Vals
    /\ dict' = [dict EXCEPT ![c.key] = c.val]
    /\ UNCHANGED <<saved, marks>>

\* After a remove the key has no record, whether it had one or not.
Remove(c) ==
    /\ c.op = "remove"
    /\ c.key \in Keys
    /\ dict' = [dict EXCEPT ![c.key] = NULL]
    /\ UNCHANGED <<saved, marks>>

\* After a truncate no key has a record, and none would come back.
Truncate(c) ==
    /\ c.op = "truncate"
    /\ dict' = [k \in Keys |-> NULL]
    /\ saved' = dict'
    /\ marks' = <<>>

\* After a crash the store holds what was saved last: the writes since
\* then are lost, and nothing else is.
Crash(c) ==
    /\ c.op = "crash"
    /\ dict' = saved
    /\ marks' = <<>>
    /\ UNCHANGED saved

\* One call, or a crash.
Do(c) ==
    /\ c \in Call
    /\ call' = c
    /\ Search(c) \/ Insert(c) \/ Remove(c) \/ Truncate(c) \/ Crash(c)

\* What the store holds now is marked for saving.
Mark ==
    /\ marks' = Append(marks, dict)
    /\ UNCHANGED <<dict, saved>>

\* A marked state, or what the store holds now, is saved, and the marks
\* up to it are done with.
Save ==
    /\ \E n \in 1..(Len(marks) + 1) :
         /\ saved' = Append(marks, dict)[n]
         /\ marks' = SubSeq(marks, n + 1, Len(marks))
    /\ UNCHANGED dict

\* A step of the store itself: it answers no call.
Internal ==
    /\ call' = NoCall
    /\ UNCHANGED <<dict, saved, marks>> \/ Mark \/ Save

Init ==
    /\ dict = [k \in Keys |-> NULL]
    /\ saved = dict
    /\ marks = <<>>
    /\ call = NoCall

Next == Internal \/ \E c \in Call : Do(c)

Spec == Init /\ [][Next]_vars

=============================================================================
