---------------------------- MODULE MCLsmWorker ----------------------------
(***************************************************************************)
(* LsmWorker for the model checker: one key, one value, one or two         *)
(* cursors.                                                                *)
(***************************************************************************)
EXTENDS LsmWorker

CONSTANTS k1, v1, c1, c2

MCKeys == {k1}

MCVals == {v1}

\* Two cursors: each may hold a roster of its own, and both may have the
\* same primary chunk.
TwoCursors == {c1, c2}

OneCursor == {c1}

\* The calls that fail and leave the tree in order: a checkpoint of a
\* chunk, the check of the configuration at an open, and the close and the
\* trylock of a truncate.
Harmless == {"ckpt", "config", "lock", "close"}

\* With them the calls whose failure leaves the handle and the record
\* apart or discards the handle: an allocation, the write of the record,
\* and the sessions and threads of the workers.  What is left out is a
\* failure within __wt_lsm_tree_setup_chunk, which leaves a chunk without
\* uri in the roster.
Survivable == Harmless \cup {"alloc", "meta", "session", "thread"}

AllFaults == FaultKinds

\* The failing checkpoint alone.
CkptFaults == {"ckpt"}

\* With it the write of the record, which leaves the handle ahead of the
\* record.
RecordFaults == {"ckpt", "meta"}

\* The state without the checkpoints of the files: in a process that does
\* not crash no step reads them.
InMemory == <<tree, Now(files), meta, clsm, merge, ckpt, schemaOp, call>>

\* No value: the only record is the tombstone of a remove.
NoVals == {}

=============================================================================
