------------------------------ MODULE LsmWorker ------------------------------
(***************************************************************************)
(* One LSM tree and the threads that work on it at the same time:          *)
(* application threads with cursors, which search, write and switch, the   *)
(* merge worker, the checkpoint worker, a thread that checkpoints the      *)
(* tree and a thread that truncates it.                                    *)
(*                                                                         *)
(* The open, the switch, the start and stop of the workers, the truncate   *)
(* and the checkpoint of a tree are those of src/src/lsm/lsm_tree.c, the   *)
(* structures those of src/src/include/lsm.h.  A function that may fail    *)
(* is an operator that yields the set of its outcomes, as in module        *)
(* LsmTree; Faults names the kinds of calls that fail.  The steps of the   *)
(* merge worker, of the checkpoint worker and of the cursors are not       *)
(* among the sources; they follow sections 4.4, 4.5, 4.6 and 5 of the      *)
(* specification.  A section of code under the tree lock is one step.      *)
(*                                                                         *)
(* A file is what a chunk holds for each key, now and in its last          *)
(* checkpoint.  A chunk id stands for the uri of the chunk; the names      *)
(* themselves, and the bloom filters behind them, are those of module      *)
(* LsmTree and left out here.  A crash takes the handle, the cursors, the  *)
(* threads and what was written to a file since its last checkpoint, and   *)
(* leaves the files and the metadata record.                               *)
(***************************************************************************)
EXTENDS Integers, Sequences, FiniteSets, SequencesExt

CONSTANTS
    Keys,       \* the keys of the records
    Vals,       \* their values
    Cursors,    \* the application threads, one cursor each
    MaxLast,    \* bound on lsm_tree->last, the last allocated chunk id
    MergeMax,   \* lsm_tree->merge_max: the most chunks one merge takes
    BloomNewest,\* WT_LSM_BLOOM_NEWEST is set in lsm_tree->bloom
    Faults,     \* the kinds of calls that may return an error
    Tomb,       \* the record a remove writes
    NULL

\* alloc: __wt_realloc, __wt_calloc_def, __wt_strdup; scratch:
\* __wt_scr_alloc, __wt_buf_fmt; schema: __wt_schema_drop,
\* __wt_schema_create; ckpt: __wt_schema_worker; meta:
\* __wt_lsm_meta_write, __wt_lsm_meta_read;
\* config: the cache is too small for __lsm_tree_open_check; lock:
\* __wt_spin_trylock; session: open_session; thread: __wt_thread_create;
\* close: a join or the close of a session in __lsm_tree_close.
FaultKinds ==
    {"alloc", "scratch", "schema", "ckpt", "meta", "config", "lock",
     "session", "thread", "close"}

NoFaults == {}

ASSUME /\ MaxLast \in Nat \ {0}
       /\ MergeMax \in Nat \ {0, 1}
       /\ BloomNewest \in BOOLEAN
       /\ Faults \subseteq FaultKinds
       /\ {Tomb, NULL} \cap Vals = {}

VARIABLES
    tree,       \* the handle: flags, refcnt, dsk_gen, last, chunk[],
                \* old_chunks[]; NULL while the tree is not open
    files,      \* the schema service: the file of each chunk id
    meta,       \* the metadata record of the tree
    clsm,       \* the cursor of each application thread, or NULL
    merge,      \* the merge worker: where it is in its loop, and its cookie
    ckpt,       \* the checkpoint worker
    schemaOp,   \* the truncate that holds the schema lock in
                \* __lsm_tree_close, or NULL
    call        \* the call of an application thread the last step
                \* answered, with its result, or NoCall

vars == <<tree, files, meta, clsm, merge, ckpt, schemaOp, call>>

-----------------------------------------------------------------------------
(* Types: lsm.h *)

Ids == 1..MaxLast

\* Values of dsk_gen: 0 from calloc, 1 at open, and one more for each chunk
\* id at most.
Gens == 0..(MaxLast + 1)

\* WT_LSM_CHUNK.  The id stands for uri, which a chunk has once it was set
\* up; count is what the file holds.
Chunk == [id : Ids \cup {NULL}, generation : 0..MaxLast,
          flags : SUBSET {"ONDISK"}, ncursor : 0..Cardinality(Cursors)]

\* An entry of old_chunks[], with the generation that tells when no cursor
\* can hold the chunk any more.
OldChunk == [chunk : Chunk, dsk_gen : Gens]

\* WT_LSM_TREE, as far as the threads share it.
Tree == [flags : SUBSET {"WORKING"}, refcnt : 0..(Cardinality(Cursors) + 1),
         dsk_gen : Gens, last : 0..MaxLast,
         chunk : Seq(Chunk), old_chunks : Seq(OldChunk)]

\* WT_CURSOR_LSM: the generation and the chunks of the roster it was bound
\* to, oldest first, and its primary chunk.
Cursor == [dsk_gen : Gens, chunks : Seq(Ids), primary : Ids]

\* WT_LSM_WORKER_COOKIE: the chunks the worker copied under the lock, where
\* they start in the roster, and the chunk it builds.
Cookie == [start : 0..MaxLast, chunk_array : Seq(Chunk),
           out : Chunk \cup {NULL}]

\* What a file holds for each key: a value, a tombstone or nothing.
Records == [Keys -> Vals \cup {Tomb, NULL}]

\* A file of the schema service: what it holds, and what its last checkpoint
\* holds, which is what a crash leaves of it.
File == [now : Records, ckpt : Records]

\* What __wt_lsm_meta_write stores of the handle.
MetaRecord == [last : 0..MaxLast, chunk : Seq(Chunk),
               old_chunks : Seq(OldChunk)]

Call == [op : {"search", "insert", "remove", "truncate", "crash"},
         key : Keys \cup {NULL}, val : Vals \cup {NULL},
         out : Vals \cup {NULL}]

NoCall == [op |-> "none", key |-> NULL, val |-> NULL, out |-> NULL]

\* A worker thread that runs, at the top of its loop, and one that does not.
Started == [pc |-> "idle", cookie |-> NULL]

Stopped == [pc |-> "none", cookie |-> NULL]

TypeOK ==
    /\ tree \in Tree \cup {NULL}
    /\ files \in [Ids -> File \cup {NULL}]
    /\ meta \in MetaRecord
    /\ clsm \in [Cursors -> Cursor \cup {NULL}]
    /\ merge \in [pc : {"none", "idle", "staged", "built"},
                  cookie : Cookie \cup {NULL}]
    /\ ckpt \in {"none", "run"}
    /\ schemaOp \in {NULL, "truncate"}
    /\ call \in Call \cup {NoCall}

-----------------------------------------------------------------------------
(* Chunks, files and the calls that may fail *)

Empty == [k \in Keys |-> NULL]

\* A file after __wt_schema_create.
NewFile == [now |-> Empty, ckpt |-> Empty]

\* A chunk fresh from calloc: it has no uri yet.
NewChunk == [id |-> NULL, generation |-> 0, flags |-> {}, ncursor |-> 0]

IdsOf(chunks) == [i \in DOMAIN chunks |-> chunks[i].id]

\* What the files f hold for a reader.
Now(f) == [i \in Ids |-> IF f[i] = NULL THEN NULL ELSE f[i].now]

\* What the chunks ids, oldest first, hold under the key k in the records
\* recs of their files: the record of the newest chunk that has one.
Lookup(ids, recs, k) ==
    LET has == {i \in DOMAIN ids : recs[ids[i]] # NULL /\ recs[ids[i]][k] # NULL}
    IN  IF has = {} THEN NULL ELSE recs[ids[Max(has)]][k]

\* What a search reports of a record: a tombstone is no record.
Visible(x) == IF x = Tomb THEN NULL ELSE x

\* The outcomes in which a call of this kind returned an error.
Failing(kind, outcomes) == IF kind \in Faults THEN outcomes ELSE {}

\* "Drop the chunk first", but never the very first chunk.
Dropped(f, id) == IF id > 1 THEN [f EXCEPT ![id] = NULL] ELSE f

\* The outcomes of __wt_lsm_tree_setup_chunk on the files f: the name is
\* formatted, what an aborted merge may have left under it is dropped, the
\* file is created if there is none and the chunk gets its uri; with
\* create_bloom the name of the filter is formatted after that, and a
\* failure there leaves a chunk that has its uri.  The name of the filter
\* itself is not kept: nothing here reads it.
SetupChunk(f, id, create_bloom) ==
    LET dropped == Dropped(f, id)
        created == IF dropped[id] = NULL
                   THEN [dropped EXCEPT ![id] = NewFile] ELSE dropped
        Out(ok, named, g) == [ok |-> ok, named |-> named, files |-> g]
    IN  {Out(TRUE, TRUE, created)}
        \cup Failing("scratch", {Out(FALSE, b, IF b THEN created ELSE f) :
                                   b \in {FALSE, create_bloom}})
        \cup Failing("schema", {Out(FALSE, FALSE, g) : g \in {f, dropped}})

\* __wt_lsm_meta_write
MetaWrite(t) ==
    [last |-> t.last, chunk |-> t.chunk, old_chunks |-> t.old_chunks]

\* MUTANT of SetPrimary: the generation is left as it was.
SetPrimaryKeepingGen(t, id) == [t EXCEPT !.chunk[Len(t.chunk)].id = id]

\* __wt_lsm_tree_switch, once the chunk was set up: the newest chunk has its
\* uri, and dsk_gen tells the cursors.
SetPrimary(t, id) ==
    [t EXCEPT !.chunk[Len(t.chunk)].id = id, !.dsk_gen = @ + 1]

\* The outcomes of __wt_lsm_tree_switch: the id is taken from last, the
\* chunk is in the roster before it is set up, and the record is written
\* last.  An error leaves what was done before it.
Switch(t, f, m) ==
    LET t1 == [t EXCEPT !.last = @ + 1]
        t2 == [t1 EXCEPT !.chunk = Append(@, NewChunk)]
        t3 == SetPrimary(t2, t1.last)
        Named(s) == IF s.named THEN [t2 EXCEPT !.chunk[Len(t2.chunk)].id = t1.last]
                    ELSE t2
        Out(ok, x, g, r) == [ok |-> ok, t |-> x, files |-> g, meta |-> r]
    IN  Failing("alloc", {Out(FALSE, t1, f, m)})
        \cup UNION {IF s.ok
                    THEN {Out(TRUE, t3, s.files, MetaWrite(t3))}
                         \cup Failing("meta", {Out(FALSE, t3, s.files, m)})
                    ELSE {Out(FALSE, Named(s), s.files, m)} :
                      s \in SetupChunk(f, t1.last, BloomNewest)}

\* The outcomes of __lsm_tree_start_worker: two sessions, the WORKING flag,
\* the merge thread and the checkpoint thread; each call may fail and
\* leaves what the earlier ones did.  The connection merges.
StartWorker(t) ==
    LET working == [t EXCEPT !.flags = @ \cup {"WORKING"}]
        Out(ok, x, w, c) == [ok |-> ok, t |-> x, merge |-> w, ckpt |-> c]
    IN  {Out(TRUE, working, Started, "run")}
        \cup Failing("session", {Out(FALSE, t, Stopped, "none")})
        \cup Failing("thread", {Out(FALSE, working, w, "none") :
                                  w \in {Stopped, Started}})

\* MUTANT of MergeUpdateTree: the old chunks get the generation the
\* cursors of the roster before the merge hold.
MergeUpdateTreeOldGen(t, start, n, chunk) ==
    [t EXCEPT
       !.old_chunks = @ \o [i \in 1..n |->
                              [chunk |-> t.chunk[start + i],
                               dsk_gen |-> t.dsk_gen]],
       !.chunk = SubSeq(@, 1, start) \o <<chunk>>
                 \o SubSeq(@, start + n + 1, Len(@)),
       !.dsk_gen = @ + 1]

\* __wt_lsm_merge_update_tree: the n chunks from start on move to the old
\* chunks, the one chunk takes their place, and dsk_gen tells the cursors.
\* An old chunk can go when every cursor has seen the new generation.
MergeUpdateTree(t, start, n, chunk) ==
    [t EXCEPT
       !.old_chunks = @ \o [i \in 1..n |->
                              [chunk |-> t.chunk[start + i],
                               dsk_gen |-> t.dsk_gen + 1]],
       !.chunk = SubSeq(@, 1, start) \o <<chunk>>
                 \o SubSeq(@, start + n + 1, Len(@)),
       !.dsk_gen = @ + 1]

\* __wt_lsm_tree_release
Release(t) == [t EXCEPT !.refcnt = @ - 1]

\* The handle __lsm_tree_open makes of the record: the roster and the last
\* chunk id are those of the record, and no cursor is counted.
MetaRead(r) ==
    [flags |-> {}, refcnt |-> 0, dsk_gen |-> 0, last |-> r.last,
     chunk |-> [i \in DOMAIN r.chunk |-> [r.chunk[i] EXCEPT !.ncursor = 0]],
     old_chunks |-> [i \in DOMAIN r.old_chunks |->
                       [chunk |-> [r.old_chunks[i].chunk EXCEPT !.ncursor = 0],
                        dsk_gen |-> 1]]]

\* What a handler leaves: the handle, or NULL when it was discarded, the
\* files, the record and the threads.
Left(ok, t, f, m, w) ==
    [ok |-> ok, t |-> t, files |-> f, meta |-> m,
     merge |-> w.merge, ckpt |-> w.ckpt]

NoThreads == [merge |-> Stopped, ckpt |-> "none"]

\* The outcomes of __lsm_tree_open for a caller that releases the tree it
\* got: the record is read and checked, a tree without chunks gets its
\* first, dsk_gen starts at 1, and the workers start.  Any error discards
\* the handle, with what the switch did to the files and the record, and
\* with the merge thread if it was created.
OpenTree(f, m) ==
    LET t0       == MetaRead(m)
        switched == IF t0.chunk = <<>> THEN Switch(t0, f, m)
                    ELSE {[ok |-> TRUE, t |-> t0, files |-> f, meta |-> m]}
    IN  UNION {Failing(kind, {Left(FALSE, NULL, f, m, NoThreads)}) :
                 kind \in {"alloc", "meta", "config"}}
        \cup UNION {IF s.ok
                    THEN {Left(w.ok, IF w.ok THEN w.t ELSE NULL,
                               s.files, s.meta, w) :
                            w \in StartWorker([s.t EXCEPT !.dsk_gen = 1])}
                    ELSE {Left(FALSE, NULL, s.files, s.meta, NoThreads)} :
                      s \in switched}

\* The outcomes of __wt_lsm_tree_truncate after the joins, on a tree whose
\* threads have left.  A failed close or trylock returns with the tree as
\* it is, stopped and still referenced.  After that every chunk becomes
\* old, a new chunk takes their place and is set up, the record is written
\* and the workers start; an error there unlocks and discards the handle,
\* and leaves what was done to the files and the record.
Truncate(t, f, m) ==
    LET t1 == [MergeUpdateTree(t, 0, Len(t.chunk), NewChunk)
                 EXCEPT !.last = @ + 1]
        t2 == [t1 EXCEPT !.chunk[1].id = t1.last]
    IN  UNION {Failing(kind, {Left(FALSE, t, f, m, NoThreads)}) :
                 kind \in {"close", "lock"}}
        \cup Failing("alloc", {Left(FALSE, NULL, f, m, NoThreads)})
        \cup UNION {IF s.ok
                    THEN Failing("meta", {Left(FALSE, NULL, s.files, m,
                                               NoThreads)})
                         \cup {Left(w.ok, IF w.ok THEN Release(w.t) ELSE NULL,
                                    s.files, MetaWrite(t2), w) :
                                 w \in StartWorker(t2)}
                    ELSE {Left(FALSE, NULL, s.files, m, NoThreads)} :
                      s \in SetupChunk(f, t1.last, FALSE)}

\* What a handler left is the state.
Leave(o) ==
    /\ tree' = o.t
    /\ files' = o.files
    /\ meta' = o.meta
    /\ merge' = o.merge
    /\ ckpt' = o.ckpt

\* The tree can be opened: no thread of an earlier handle is left, and a
\* tree without chunks can have its first.
CanOpen ==
    /\ merge.pc = "none" /\ ckpt = "none"
    /\ meta.chunk = <<>> => meta.last < MaxLast

-----------------------------------------------------------------------------
(* Cursors *)

\* A cursor opens the file of every chunk of the roster.
CanBind(t, f) ==
    \A i \in DOMAIN t.chunk : t.chunk[i].id \in Ids /\ f[t.chunk[i].id] # NULL

\* The cursor a thread gets when it binds to the roster of the tree t.
Bound(t) ==
    [dsk_gen |-> t.dsk_gen, chunks |-> IdsOf(t.chunk),
     primary |-> Last(t.chunk).id]

\* ncursor of the chunk id, active or old, changes by d.
Pin(t, id, d) ==
    LET Counted(c) == IF c.id = id THEN [c EXCEPT !.ncursor = @ + d] ELSE c
    IN  [t EXCEPT
           !.chunk = [i \in DOMAIN t.chunk |-> Counted(t.chunk[i])],
           !.old_chunks = [i \in DOMAIN t.old_chunks |->
                             [t.old_chunks[i] EXCEPT !.chunk = Counted(@)]]]

\* MUTANT of Entered: the cursor that binds again keeps its count on the
\* chunk that was its primary.
EnteredKeepingPin(t, cur) ==
    IF cur.dsk_gen = t.dsk_gen THEN [t |-> t, cur |-> cur]
    ELSE [t |-> Pin(t, Bound(t).primary, 1), cur |-> Bound(t)]

\* A cursor enters an operation: it compares its generation with the one of
\* the tree and, where they differ, binds again under the tree lock.
Entered(t, cur) ==
    IF cur.dsk_gen = t.dsk_gen THEN [t |-> t, cur |-> cur]
    ELSE [t |-> Pin(Pin(t, cur.primary, -1), Bound(t).primary, 1),
          cur |-> Bound(t)]

\* Whether the cursor cur can enter an operation: it holds the generation of
\* the tree, or can bind again.
CanEnter(cur) == cur.dsk_gen = tree.dsk_gen \/ CanBind(tree, files)

Idle == schemaOp = NULL

\* A thread opens a cursor on the open tree, and holds a reference to it.
CursorOpen(c) ==
    /\ Idle
    /\ tree # NULL
    /\ clsm[c] = NULL
    /\ CanBind(tree, files)
    /\ clsm' = [clsm EXCEPT ![c] = Bound(tree)]
    /\ tree' = [Pin(tree, Bound(tree).primary, 1) EXCEPT !.refcnt = @ + 1]
    /\ call' = NoCall
    /\ UNCHANGED <<files, meta, merge, ckpt, schemaOp>>

\* MUTANT of CursorClose: the primary chunk keeps the count of the cursor.
CursorCloseKeepingPin(c) ==
    /\ clsm[c] # NULL
    /\ clsm' = [clsm EXCEPT ![c] = NULL]
    /\ tree' = Release(tree)
    /\ call' = NoCall
    /\ UNCHANGED <<files, meta, merge, ckpt, schemaOp>>

\* The cursor is closed: its primary chunk has one cursor less, and the
\* tree one reference.
CursorClose(c) ==
    /\ clsm[c] # NULL
    /\ clsm' = [clsm EXCEPT ![c] = NULL]
    /\ tree' = Release(Pin(tree, clsm[c].primary, -1))
    /\ call' = NoCall
    /\ UNCHANGED <<files, meta, merge, ckpt, schemaOp>>

\* WT_CURSOR::search: the chunks of the cursor are asked newest first.
CursorSearch(c, k) ==
    /\ clsm[c] # NULL
    /\ CanEnter(clsm[c])
    /\ LET e == Entered(tree, clsm[c])
       IN  /\ tree' = e.t
           /\ clsm' = [clsm EXCEPT ![c] = e.cur]
           /\ call' = [op |-> "search", key |-> k, val |-> NULL,
                       out |-> Visible(Lookup(e.cur.chunks, Now(files), k))]
    /\ UNCHANGED <<files, meta, merge, ckpt, schemaOp>>

\* WT_CURSOR::insert and WT_CURSOR::remove: the record, or a tombstone, is
\* written to the primary chunk of the cursor.
Update(c, op, k, v) ==
    /\ clsm[c] # NULL
    /\ CanEnter(clsm[c])
    /\ LET e == Entered(tree, clsm[c])
       IN  /\ tree' = e.t
           /\ clsm' = [clsm EXCEPT ![c] = e.cur]
           /\ files' = [files EXCEPT ![e.cur.primary].now[k] =
                                        IF op = "insert" THEN v ELSE Tomb]
    /\ call' = [op |-> op, key |-> k, val |-> v, out |-> NULL]
    /\ UNCHANGED <<meta, merge, ckpt, schemaOp>>

CursorInsert(c, k, v) == Update(c, "insert", k, v)

CursorRemove(c, k) == Update(c, "remove", k, NULL)

\* The cursor code calls __wt_lsm_tree_switch, under the schema lock, when
\* the primary chunk it writes to is full: here, when it holds a record.
\* The error of a switch that failed goes to the caller of the cursor.
CursorSwitch(c) ==
    /\ Idle
    /\ clsm[c] # NULL
    /\ clsm[c].dsk_gen = tree.dsk_gen
    /\ files[clsm[c].primary].now # Empty
    /\ tree.last < MaxLast
    /\ \E o \in Switch(tree, files, meta) :
         /\ tree' = o.t
         /\ files' = o.files
         /\ meta' = o.meta
    /\ call' = NoCall
    /\ UNCHANGED <<clsm, merge, ckpt, schemaOp>>

-----------------------------------------------------------------------------
(* The merge worker *)

\* WT_LSM_TREE_WORKING: the workers go on while the flag is set.
Working == tree # NULL /\ "WORKING" \in tree.flags

\* The runs of chunks a merge may take, as <<start, n>>: two chunks at
\* least and merge_max at most, all of them on disk, neighbours no more
\* than one generation apart.
Runs(t) ==
    {r \in (0..Len(t.chunk)) \X (2..MergeMax) :
        /\ r[1] + r[2] <= Len(t.chunk)
        /\ \A i \in (r[1] + 1)..(r[1] + r[2]) : "ONDISK" \in t.chunk[i].flags
        /\ \A i \in (r[1] + 1)..(r[1] + r[2] - 1) :
              t.chunk[i].generation - t.chunk[i + 1].generation \in -1..1}

\* MUTANT of MergeOutput: tombstones are dropped in every merge.
MergeOutputWithoutTombstones(ids, recs, root) ==
    [k \in Keys |-> Visible(Lookup(ids, recs, k))]

\* What a merge of the chunks ids writes to its output: for every key the
\* record of the newest chunk that has one, and no tombstones when the
\* oldest of the chunks is the oldest of the tree.
MergeOutput(ids, recs, root) ==
    [k \in Keys |-> IF root THEN Visible(Lookup(ids, recs, k))
                    ELSE Lookup(ids, recs, k)]

\* The worker picks a run under the tree lock and copies its chunks.
MergePick ==
    /\ merge.pc = "idle"
    /\ Working
    /\ \E r \in Runs(tree) :
         merge' = [pc |-> "staged",
                   cookie |-> [start |-> r[1], out |-> NULL,
                               chunk_array |->
                                 SubSeq(tree.chunk, r[1] + 1, r[1] + r[2])]]
    /\ call' = NoCall
    /\ UNCHANGED <<tree, files, meta, clsm, ckpt, schemaOp>>

\* The worker creates the output chunk, one generation above its inputs,
\* and writes the merged records to it; the output is on disk.
MergeBuild ==
    /\ merge.pc = "staged"
    /\ Working /\ Idle
    /\ tree.last < MaxLast
    /\ LET inputs == merge.cookie.chunk_array
           out == [NewChunk EXCEPT
                     !.id = tree.last + 1,
                     !.generation = 1 + Max({inputs[i].generation : i \in DOMAIN inputs}),
                     !.flags = {"ONDISK"}]
           recs == MergeOutput(IdsOf(inputs), Now(files), merge.cookie.start = 0)
       IN  /\ tree' = [tree EXCEPT !.last = @ + 1]
           /\ files' = [files EXCEPT ![out.id] = [now |-> recs, ckpt |-> recs]]
           /\ merge' = [merge EXCEPT !.pc = "built", !.cookie.out = out]
    /\ call' = NoCall
    /\ UNCHANGED <<meta, clsm, ckpt, schemaOp>>

\* The worker installs the output in the place of its inputs.
MergeInstall ==
    /\ merge.pc = "built"
    /\ Working /\ Idle
    /\ tree' = MergeUpdateTree(tree, merge.cookie.start,
                               Len(merge.cookie.chunk_array), merge.cookie.out)
    /\ merge' = Started
    /\ meta' = MetaWrite(tree')
    /\ call' = NoCall
    /\ UNCHANGED <<files, clsm, ckpt, schemaOp>>

\* A step of the merge fails: the error is recorded, the cookie given up,
\* and the worker tries again at its next turn.  The id of an output that
\* was built stays taken and its file stays.
MergeAbort ==
    /\ merge.pc \in {"staged", "built"}
    /\ Working
    /\ merge' = Started
    /\ call' = NoCall
    /\ UNCHANGED <<tree, files, meta, clsm, ckpt, schemaOp>>

\* The least generation a cursor holds, or that of the tree when there is
\* no cursor.
MinGen == Min({tree.dsk_gen} \cup {clsm[c].dsk_gen : c \in {d \in Cursors : clsm[d] # NULL}})

\* MUTANT of Reclaimable: the cursors are not asked.
ReclaimableUnasked(old) == old.chunk.ncursor = 0

\* An old chunk can go when it is the primary of no cursor and every
\* cursor was bound after the chunk left the roster.
Reclaimable(old) ==
    /\ old.chunk.ncursor = 0
    /\ old.dsk_gen <= MinGen

\* The worker drops the file of an old chunk.
MergeReclaim(i) ==
    /\ merge.pc = "idle"
    /\ Working /\ Idle
    /\ i \in DOMAIN tree.old_chunks
    /\ Reclaimable(tree.old_chunks[i])
    /\ tree.old_chunks[i].chunk.id \in Ids
    /\ files' = [files EXCEPT ![tree.old_chunks[i].chunk.id] = NULL]
    /\ tree' = [tree EXCEPT !.old_chunks = RemoveAt(@, i)]
    /\ meta' = MetaWrite(tree')
    /\ call' = NoCall
    /\ UNCHANGED <<clsm, merge, ckpt, schemaOp>>

\* Where the merge worker reads WORKING: between any two of its steps.
MayExit(pc) == pc # "none"

\* The merge worker finds WORKING cleared and returns; the chunk it was
\* building stays behind as a file.  The thread of a handle that was
\* discarded reads freed memory, and may return too.
MergeExit ==
    /\ MayExit(merge.pc)
    /\ ~Working
    /\ merge' = Stopped
    /\ call' = NoCall
    /\ UNCHANGED <<tree, files, meta, clsm, ckpt, schemaOp>>

-----------------------------------------------------------------------------
(* Checkpoints *)

\* The chunks a checkpoint writes, oldest first: "if (func ==
\* __wt_checkpoint && F_ISSET(chunk, WT_LSM_CHUNK_ONDISK)) continue".
Unsealed(t) == SelectSeq(t.chunk, LAMBDA c : "ONDISK" \notin c.flags)

\* How many of the chunks u a loop of checkpoints may have written when it
\* ends: all of them, or those before the first call that fails, as the
\* call on a chunk without uri or without file does.
CkptStops(u, f) ==
    LET bad  == {i \in DOMAIN u : u[i].id = NULL \/ f[u[i].id] = NULL}
        most == Min(bad \cup {Len(u) + 1}) - 1
    IN  IF "ckpt" \in Faults THEN 0..most ELSE {most}

\* MUTANT of Written: the loop goes from the newest chunk to the oldest.
WrittenNewestFirst(u, n) == {u[i].id : i \in (Len(u) - n + 1)..Len(u)}

\* The files n turns of the loop over the chunks u have checkpointed.
Written(u, n) == {u[i].id : i \in 1..n}

\* __wt_checkpoint of the files ids: what they hold is what a crash leaves.
Checkpointed(f, ids) ==
    [i \in Ids |-> IF i \in ids THEN [f[i] EXCEPT !.ckpt = f[i].now] ELSE f[i]]

\* The outcomes of __wt_lsm_tree_get for a caller that is not exclusive:
\* the handle of the list, or the one __lsm_tree_open makes.
Get(t, f, m, w) ==
    IF t # NULL THEN {Left(TRUE, t, f, m, w)} ELSE OpenTree(f, m)

\* __wt_lsm_tree_worker for a checkpoint of the session: the tree is got,
\* every chunk that is not on disk is checkpointed, oldest first, until a
\* call fails, and the tree is released.
TreeCheckpoint ==
    /\ Idle
    /\ tree = NULL => CanOpen
    /\ \E o \in Get(tree, files, meta, [merge |-> merge, ckpt |-> ckpt]) :
         \/ ~o.ok /\ Leave(o)
         \/ /\ o.ok
            /\ \E n \in CkptStops(Unsealed(o.t), o.files) :
                 Leave([o EXCEPT !.files =
                          Checkpointed(@, Written(Unsealed(o.t), n))])
    /\ call' = NoCall
    /\ UNCHANGED <<clsm, schemaOp>>

\* The checkpoint worker has the schema service checkpoint the oldest chunk
\* that is not on disk.  That is the primary chunk, or a chunk that was the
\* primary before a switch: no cursor writes to it any more, and with its
\* checkpoint it is on disk.
Checkpoint ==
    /\ ckpt = "run"
    /\ Working /\ Idle
    /\ \E i \in DOMAIN tree.chunk :
         LET chunk == tree.chunk[i]
         IN  /\ "ONDISK" \notin chunk.flags
             /\ \A j \in 1..(i - 1) : "ONDISK" \in tree.chunk[j].flags
             /\ 1 \in CkptStops(<<chunk>>, files)
             /\ files' = Checkpointed(files, {chunk.id})
             /\ tree' = IF i < Len(tree.chunk)
                        THEN [tree EXCEPT !.chunk[i].flags = @ \cup {"ONDISK"}]
                        ELSE tree
    /\ call' = NoCall
    /\ UNCHANGED <<meta, clsm, merge, ckpt, schemaOp>>

\* The checkpoint worker finds WORKING cleared and returns.
CkptExit ==
    /\ ckpt = "run"
    /\ ~Working
    /\ ckpt' = "none"
    /\ call' = NoCall
    /\ UNCHANGED <<tree, files, meta, clsm, merge, schemaOp>>

-----------------------------------------------------------------------------
(* Truncate, open and crash *)

\* __lsm_tree_close up to the joins: the workers are told to stop.
CloseStart(t) == [t EXCEPT !.flags = @ \ {"WORKING"}]

\* __wt_lsm_tree_truncate up to the joins: it gets the tree exclusively,
\* which fails while a cursor or a failed truncate holds it.
TruncateBegin ==
    /\ Idle
    /\ tree # NULL
    /\ tree.refcnt = 0
    /\ tree.last < MaxLast
    /\ tree' = CloseStart([tree EXCEPT !.refcnt = @ + 1])
    /\ schemaOp' = "truncate"
    /\ call' = NoCall
    /\ UNCHANGED <<files, meta, clsm, merge, ckpt>>

\* __wt_lsm_tree_truncate after the joins.
TruncateFinish ==
    /\ schemaOp = "truncate"
    /\ merge.pc = "none" /\ ckpt = "none"
    /\ \E o \in Truncate(tree, files, meta) :
         /\ Leave(o)
         /\ call' = IF o.ok
                    THEN [op |-> "truncate", key |-> NULL, val |-> NULL,
                          out |-> NULL]
                    ELSE NoCall
    /\ schemaOp' = NULL
    /\ UNCHANGED clsm

\* __wt_lsm_tree_get of a tree that is not open, by a caller that releases
\* it: the tree is opened once no thread of an earlier handle is left.
Open ==
    /\ Idle
    /\ tree = NULL
    /\ CanOpen
    /\ \E o \in OpenTree(files, meta) : Leave(o)
    /\ call' = NoCall
    /\ UNCHANGED <<clsm, schemaOp>>

\* What a crash leaves of the files: each as its last checkpoint, or empty
\* when it never had one.
Crashed(f) ==
    [i \in Ids |-> IF f[i] = NULL THEN NULL
                   ELSE [now |-> f[i].ckpt, ckpt |-> f[i].ckpt]]

\* The process stops where it is: the handle, the cursors and the threads
\* are gone, and the files and the record stay.
Crash ==
    /\ tree' = NULL
    /\ files' = Crashed(files)
    /\ clsm' = [c \in Cursors |-> NULL]
    /\ merge' = Stopped
    /\ ckpt' = "none"
    /\ schemaOp' = NULL
    /\ call' = [op |-> "crash", key |-> NULL, val |-> NULL, out |-> NULL]
    /\ UNCHANGED meta

-----------------------------------------------------------------------------

\* The tree after __wt_lsm_tree_create wrote its record and discarded its
\* handle: the open that follows makes the first chunk.
Init ==
    /\ tree = NULL
    /\ files = [i \in Ids |-> NULL]
    /\ meta = [last |-> 0, chunk |-> <<>>, old_chunks |-> <<>>]
    /\ clsm = [c \in Cursors |-> NULL]
    /\ merge = Stopped
    /\ ckpt = "none"
    /\ schemaOp = NULL
    /\ call = NoCall

Next ==
    \/ \E c \in Cursors : CursorOpen(c)
    \/ \E c \in Cursors : CursorClose(c)
    \/ \E c \in Cursors, k \in Keys : CursorSearch(c, k)
    \/ \E c \in Cursors, k \in Keys, v \in Vals : CursorInsert(c, k, v)
    \/ \E c \in Cursors, k \in Keys : CursorRemove(c, k)
    \/ \E c \in Cursors : CursorSwitch(c)
    \/ MergePick
    \/ MergeBuild
    \/ MergeInstall
    \/ MergeAbort
    \/ \E i \in 1..MaxLast : MergeReclaim(i)
    \/ MergeExit
    \/ Checkpoint
    \/ CkptExit
    \/ TreeCheckpoint
    \/ TruncateBegin
    \/ TruncateFinish
    \/ Open

Spec == Init /\ [][Next]_vars

\* The same, in a process that may crash at any step.
CrashNext == Next \/ Crash

CrashSpec == Init /\ [][CrashNext]_vars

-----------------------------------------------------------------------------
(* The tree as one key/value store *)

\* The roster: that of the handle, or of the record when no handle is open.
Roster == IF tree = NULL THEN meta.chunk ELSE tree.chunk

\* What the first n chunks of the roster r hold, in their files or, with
\* disk, in the last checkpoints of their files: for every key the record
\* of the newest chunk that has one.
Through(r, n, disk) ==
    LET Held(i) == IF disk THEN files[r[i].id].ckpt ELSE files[r[i].id].now
    IN  [k \in Keys |->
           LET has == {i \in 1..n : Held(i)[k] # NULL}
           IN  IF has = {} THEN NULL ELSE Visible(Held(Max(has))[k])]

\* What the tree holds.
Content == Through(Roster, Len(Roster), FALSE)

\* What a crash would leave: the chunks of the record, each as its last
\* checkpoint.
Durable == Through(meta.chunk, Len(meta.chunk), TRUE)

\* The chunks before the primary chunk that hold what no checkpoint wrote.
Unsaved(r) ==
    {i \in 1..(Len(r) - 1) : files[r[i].id].now # files[r[i].id].ckpt}

\* What the tree held at the switch that ended each of them, oldest first.
Marks ==
    LET at == Unsaved(Roster)
    IN  [n \in 1..Cardinality(at) |->
           Through(Roster, CHOOSE i \in at : Cardinality({j \in at : j <= i}) = n,
                   FALSE)]

Abstract ==
    INSTANCE LsmStore WITH dict <- Content, saved <- Durable, marks <- Marks

\* The tree is one key/value store to its users.  A search returns the
\* record of the newest chunk, an insert or a remove is what the next
\* search of the key finds, and no step of a worker changes what the tree
\* holds: a merge writes to its output what its inputs held for a reader
\* (the newest record of each key, and the tombstones that still hide a
\* record of an older chunk), and __wt_lsm_merge_update_tree puts the
\* output where the inputs were.  __wt_lsm_tree_switch saves nothing: it
\* marks what the tree holds, and the loop of __wt_lsm_tree_worker, which
\* checkpoints the chunks that are not on disk from the oldest on and may
\* stop at any of them, saves the state at one of the switches or the
\* state of now.  So a crash leaves the tree as it was at a switch or at a
\* checkpoint, never with the records of a newer chunk and without those
\* of an older one; the chunk a switch creates after the crash is empty
\* whatever file an interrupted merge left under its name.
Implements ==
    /\ Abstract!Init
    /\ [][Abstract!Do(call') \/ Abstract!Internal]_(Abstract!vars)

\* The store without its durability: what a crash would leave is hidden.
Volatile == INSTANCE LsmStore WITH dict <- Content, saved <- Empty, marks <- <<>>

\* To the threads of a process that does not crash the tree is one
\* key/value store whatever the workers do, also where the roster is long
\* enough for a merge that does not start at the oldest chunk: such a
\* merge (WT_CLSM_MINOR_MERGE) keeps the tombstones, or the record an
\* older chunk holds for a removed key would be found again.
ServesAsOneStore ==
    /\ Volatile!Init
    /\ [][Volatile!Do(call') \/ Volatile!Internal]_(Volatile!vars)

\* A cursor never has a chunk whose file is gone: the file of every chunk
\* a cursor was bound to exists until the cursor is bound again or closed,
\* however many merges, switches and reclaims happen in between.  So it is
\* for the chunks of the roster of __wt_lsm_tree_switch and of the record
\* __lsm_tree_open reads, and for those the merge worker copied.
SnapshotsHaveFiles ==
    LET Has(id) == id \in Ids /\ files[id] # NULL
    IN  /\ \A c \in Cursors :
             clsm[c] # NULL => \A i \in DOMAIN clsm[c].chunks :
                                  Has(clsm[c].chunks[i])
        /\ \A i \in DOMAIN Roster : Has(Roster[i].id)
        /\ merge.cookie # NULL =>
             \A i \in DOMAIN merge.cookie.chunk_array :
                Has(merge.cookie.chunk_array[i].id)

\* ncursor of a chunk, in the roster or among the old chunks, is the
\* number of cursors that have it as their primary chunk, and the primary
\* chunk of every cursor is one of these chunks.  A cursor moves its count
\* when it is bound again, a merge and a truncate take the count along
\* with the chunk, and the handle of a tree is never discarded under a
\* cursor.
NcursorCountsPrimaries ==
    LET all == IF tree = NULL THEN <<>>
               ELSE tree.chunk \o [i \in DOMAIN tree.old_chunks |->
                                     tree.old_chunks[i].chunk]
        Of(id) == {c \in Cursors : clsm[c] # NULL /\ clsm[c].primary = id}
    IN  /\ \A i \in DOMAIN all : all[i].ncursor = Cardinality(Of(all[i].id))
        /\ \A c \in Cursors :
             clsm[c] # NULL => \E i \in DOMAIN all : all[i].id = clsm[c].primary

\* dsk_gen names the roster: a cursor that holds the generation of the
\* tree holds its chunks, in their order, and the last of them as its
\* primary chunk.  This is what lets a cursor compare one number, without
\* the lock, instead of the roster.
GenerationNamesRoster ==
    \A c \in Cursors :
        (clsm[c] # NULL /\ clsm[c].dsk_gen = tree.dsk_gen)
            => clsm[c] = Bound(tree)

=============================================================================
