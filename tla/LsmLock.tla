------------------------------- MODULE LsmLock -------------------------------
(***************************************************************************)
(* The spinlock of an LSM tree handle, lsm_tree->lock, as the schema       *)
(* operations of src/src/lsm/lsm_tree.c take and release it.  Module       *)
(* LsmTree has each of __wt_lsm_tree_drop, _rename and _truncate return    *)
(* one of its outcomes in one step; here the part of each between its      *)
(* trylock and its return is cut where the lock changes hands and where a  *)
(* call can fail, and what the calls do to the roster and the files is     *)
(* left to LsmTree.  The tree is closed and got exclusively while this     *)
(* goes on, so no other thread asks for the lock.                          *)
(***************************************************************************)
EXTENDS Naturals

CONSTANT NULL

VARIABLES
    lock,   \* lsm_tree->lock: "free", "held", or "none" without a handle
    op,     \* the operation at work, or NULL
    pc      \* where it is

vars == <<lock, op, pc>>

Ops == {"drop", "rename", "truncate"}

\* The places of an operation: under the lock, after the unlock of the
\* straight path and before the metadata calls, at the label err, and
\* before the handle is discarded.
Places == {"locked", "unlocked", "err", "discard"}

TypeOK ==
    /\ lock \in {"none", "free", "held"}
    /\ <<op, pc>> \in (Ops \X Places) \cup {<<NULL, NULL>>}

-----------------------------------------------------------------------------

\* __lsm_tree_open: the handle is allocated and its lock initialised.
Open ==
    /\ op = NULL
    /\ lock = "none"
    /\ lock' = "free"
    /\ UNCHANGED <<op, pc>>

\* "Prevent any new opens": the trylock of the three operations.  It
\* returns EBUSY, and the operation with it, when the lock is held.
Trylock(o) ==
    /\ op = NULL
    /\ lock = "free"
    /\ lock' = "held"
    /\ op' = o
    /\ pc' = "locked"

\* A call under the lock fails: a schema drop or rename of a chunk, an
\* allocation, the setup of the new chunk, the metadata write or the start
\* of the workers in truncate.
FailLocked ==
    /\ pc = "locked"
    /\ pc' = "err"
    /\ UNCHANGED <<lock, op>>

\* Drop and rename are through their loops and unlock before they go on
\* to the metadata.
Unlock ==
    /\ pc = "locked"
    /\ op \in {"drop", "rename"}
    /\ lock' = "free"
    /\ pc' = "unlocked"
    /\ UNCHANGED op

\* The metadata calls after the unlock: they succeed, and the operation
\* skips the label err, or one fails and it goes there.
Metadata ==
    /\ pc = "unlocked"
    /\ pc' \in {"discard", "err"}
    /\ UNCHANGED <<lock, op>>

\* Truncate is through: it unlocks, releases the handle and returns.
TruncateReturn ==
    /\ pc = "locked"
    /\ op = "truncate"
    /\ lock' = "free"
    /\ op' = NULL
    /\ pc' = NULL

\* The label err: the lock is released.
ErrUnlock ==
    /\ pc = "err"
    /\ lock' = "free"
    /\ pc' = "discard"
    /\ UNCHANGED op

\* __lsm_tree_discard destroys the lock with the handle, and the operation
\* returns.
Discard ==
    /\ pc = "discard"
    /\ lock' = "none"
    /\ op' = NULL
    /\ pc' = NULL

Init ==
    /\ lock = "none"
    /\ op = NULL
    /\ pc = NULL

Next ==
    \/ Open
    \/ \E o \in Ops : Trylock(o)
    \/ FailLocked
    \/ Unlock
    \/ Metadata
    \/ TruncateReturn
    \/ ErrUnlock
    \/ Discard

Spec == Init /\ [][Next]_vars

-----------------------------------------------------------------------------

\* A step that calls __wt_spin_unlock: one that leaves a place where the
\* code has the call.
Unlocks == lock' = "free" /\ pc \in {"locked", "err"}

\* The tree lock is released by the operation that holds it, once: every
\* __wt_spin_unlock of drop, rename and truncate, on the straight path and
\* at the label err, finds the lock held.
UnlockedByHolder == [][Unlocks => lock = "held"]_vars

=============================================================================
