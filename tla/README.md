# TLA+ models of the WiredTiger sources

This directory holds the TLA+ specifications that are kept beside the sources
under `src/`, the TLC configurations that check them, and `PROJECT.json`, which
lists the components, the runs, the mutants, the source lines each definition
models, the findings and the hazards.

Run a configuration with

    tlc -workers 2 -config lsm_safety.cfg MCLsmTree
    tlc -workers 2 -config lsm_worker.cfg MCLsmWorker
    tlc -workers 2 -config project_refines.cfg MCSchemaProject
    tlc -workers 2 -config utilities.cfg MCUtilities
    tlc -workers 2 -config programs.cfg MCPrograms
    tlc -workers 2 -config viol_double_unlock.cfg LsmLock

## 1. The system

The sources are a fragment of WiredTiger: the LSM tree handle, the projection
layer of the schema code, two utilities, and three programs that use the
library: two of its tests and an example.

| Part | Source | What it is |
|---|---|---|
| Chunk descriptor | `src/include/lsm.h` 39-49 | URI of the chunk file, URI of its bloom filter, flags `ONDISK`, `BLOOM`, counters |
| Tree handle and roster | `src/include/lsm.h` 55-101, `src/lsm/lsm_tree.c` | name, configuration, `refcnt`, `dsk_gen`, `last`, the active chunks `chunk[]`, the old chunks `old_chunks[]`, two worker sessions and threads, flags `WORKING`, `OPEN` |
| Handle registry | `src/lsm/lsm_tree.c` 425-457, 120-132 | the list `lsmqh` of open handles: `get`, `release`, `close_all` |
| Tree operations | `src/lsm/lsm_tree.c` | `create`, `open`, `open_check`, `switch`, `setup_chunk`, `drop`, `rename`, `truncate`, `tree_worker`, `close`, `discard`, `start_worker` |
| Cursor view | `src/include/lsm.h` 12-33 | the generation and the chunks a cursor was bound to, its primary chunk; declaration only, the code is not in `src/` |
| Merge and checkpoint workers | `src/include/lsm.h` 117-121, `src/lsm/lsm_tree.c` 204-229, 72-77 | the threads `start_worker` creates and `close` joins, and the cookie of the merge worker; their loops (`lsm_worker.c`, `lsm_merge.c`) are not in `src/` |
| Schema projection | `src/schema/schema_project.c` | four interpreters of a projection plan over the packed keys and values of the cursors of a table |
| getline | `src/os_posix/os_getline.c` | reads a line of a stream into an item that grows |
| nop compressor | `ext/compressors/nop_compress/nop_compress.c` | an extension that registers a compressor which copies |
| Configuration of the format test | `test/format/config.c` | the table of settings of a test run: set by the user, drawn at random for each run, printed to `RUNDIR/run` and read back for a replay |
| Example | `examples/c/ex_file.c` | a program that connects, creates a file and closes |
| fops test driver | `test/fops/fops.c` | threads that each draw `nops` operations at random from a generator they share, and the function that creates and joins them |

How the parts of the LSM handle interact:

* Every operation of `lsm_tree.c` except `release` runs with the connection's
  **schema lock** held (`__lsm_tree_open` asserts it), so these operations are
  serialised. `release` is an atomic decrement that takes no lock.
* `drop`, `rename` and `truncate` take the tree **exclusively** (`get` fails
  with `EBUSY` when `refcnt` is not zero), then call `__lsm_tree_close`, which
  clears `WORKING` and **blocks in `__wt_thread_join`** with the schema lock
  held until the merge thread and the checkpoint thread have left their loops.
* The handle is persisted as one **metadata record** (`__wt_lsm_meta_write`,
  `__wt_lsm_meta_read`), and the chunks are files of the **schema service**
  (`__wt_schema_create`, `_drop`, `_rename`). Neither is in `src/`.
* Every call into these services, and every session or thread creation, can
  return an error, and the functions of `lsm_tree.c` return half way
  (`WT_RET`, `WT_ERR`).
* While a tree is open, **cursors** of application threads, the **merge
  worker** and the **checkpoint worker** work on it at the same time. A
  cursor is bound to the roster as it was at one `dsk_gen`, writes to its
  primary chunk and searches its chunks newest first; before every operation
  it compares its `dsk_gen` with the tree's and binds again if they differ.
  The merge worker replaces a run of chunks by one chunk, moves the run to
  `old_chunks[]` and later drops their files. The checkpoint worker and
  `__wt_lsm_tree_worker` checkpoint the chunks that are not on disk. A switch, an install and a truncate change the
  roster under the tree lock and increment `dsk_gen`.

The projection layer stands by itself. A table has a key and column groups;
a cursor on each column group holds the key and the group's columns as packed
bytes. The application names a list of columns, a *projection*; a plan, a
string of operations `KEY`, `VALUE`, `NEXT`, `SKIP`, `REUSE`, says where in
which cursor each of these columns is. The four functions walk the plan with
a pointer `p` into the current buffer and a format iterator, and read, write,
overwrite or append packed values. They run in the session that owns the
cursors; nothing interleaves with a call.

The two utilities share nothing with the rest and nothing with each other.

The threads of fops share two things: the two words of the generator
`r()`, which are static and not locked, and `run_stats`, where each thread
counts in its own entry and `fop_start` reads all entries after the joins.

The format test and the example are programs of their own. The format test
runs in a loop: `config_setup` chooses the configuration of a run, the run
is printed to `RUNDIR/run`, the test runs. What the user gave on the command
line or in a file is permanent (`C_PERM`) and holds for every run; what
`config_setup` had to set by `config_single` itself is temporary (`C_TEMP`)
and cleared before the next run. A process started with `-r` reads
`RUNDIR/run` as if the user had given every line of it, and repeats that run.

What is hard about the code, and what the models are for:

* in the LSM handle, operations that fail between two steps; references
  taken and not given back; a handle freed while a thread or a cursor uses
  it; files, roster and metadata that disagree after a rename or a truncate;
  waiting for threads while holding a lock;
* in the open tree, a cursor that reads chunks the merge worker is about to
  drop; `ncursor` and `dsk_gen` changed by several threads; tombstones that
  a merge must keep or may drop; what a crash between two steps of a merge
  leaves on disk;
* in the projection layer, a long sequence of legal calls on cursors whose
  buffers keep what earlier calls left: offsets and sizes after a value was
  written over one of another length, a format iterator that is one column
  off after a skip or a reuse, the key of a column store that is the
  cursor's record number and not its buffer;
* in getline, the memory that must have room for one more byte than the
  line, and the line left in it by the call before;
* in the format test, flags that decide several runs later what may be
  drawn again, and a file written by one process in one spelling and parsed
  by the next in another;
* in the example, an exit status that is the result of the last calls only;
* in fops, loads and stores of the generator's words by several threads.

`PROJECT.json` lists these under `hazards`, each at the line where it bites.

## 2. The modules

| Module | Models | State |
|---|---|---|
| `LsmTree` | tree handle, roster, registry, start and stop of the workers, with the metadata record and the chunk files as collaborators | `trees`, `meta`, `files`, `thr`, `holders`, `schemaOp` |
| `MCLsmTree` | the instance for TLC: two names, five configurations, fault sets | |
| `LsmLock` | `lsm_tree->lock` as drop, rename and truncate take and release it | `lock`, `op`, `pc` |
| `LsmWorker` | one tree with its cursors, merge worker, checkpoint worker, a checkpointing and a truncating thread; open, failing calls, crash and reopen | `tree`, `files`, `meta`, `clsm`, `merge`, `ckpt`, `schemaOp`, `call` |
| `LsmStore` | what a tree promises to its users: one key/value store that is saved, with a lag, and survives a crash | `dict`, `saved`, `marks`, `call` |
| `MCLsmWorker` | the instance for TLC: one key, one value, one or two cursors | |
| `Packing` | the packing service and the item buffers, as `schema_project.c` calls them | operators only |
| `SchemaPlan` | tables, column groups, the places of a column, the plan of a projection | operators only |
| `SchemaProject` | the four functions of `schema_project.c`, one action per call | `table`, `cp`, `last` |
| `Projection` | what the projection layer promises, in terms of columns | `table`, `row`, `call`, `result` |
| `MCSchemaProject` | the tables, projections and values for TLC | |
| `OsGetline` | `__wt_getline` | `fp`, `buf`, `ret` |
| `NopCompress` | `wiredtiger_extension_init`, `nop_compress`, `nop_decompress` | `wt_api`, `registered`, `out`, `last` |
| `MCUtilities` | the two utilities side by side, for TLC | the variables of both |
| `FormatConfig` | `config.c` of the format test | `flags`, `v`, `vstr`, `type`, `uri`, `replay`, `status`, `loaded`, `printed`, `given` |
| `ExFile` | `main` of `ex_file.c` | `pc`, `conn`, `session`, `ret`, `file`, `exit` |
| `Fops` | `fop_start`, `fop`, `r` and `print_stats` of `fops.c` | `m_w`, `m_z`, `th`, `run_stats`, `main`, `next`, `shown` |
| `MCPrograms` | the three programs for TLC: a behaviour is a behaviour of one of them | `program` and the variables of all |

`LsmWorker` instantiates `LsmStore` under a refinement mapping (section 4).
`LsmTree` and `LsmWorker` are two views of the same handle: `LsmTree` has
many trees, their names, files and failing calls, and threads that only run
or not; `LsmWorker` has one tree, the contents of its files, and threads
with steps. `Switch`, `SetupChunk`, `CloseStart`, `StartWorker`, the open
and the truncate are translated from the same lines in both.

`SchemaProject` extends `Packing` and `SchemaPlan`, and instantiates
`Projection` under a refinement mapping (section 5). `MCUtilities`
instantiates `OsGetline` and `NopCompress`; a step of it is a step of one
with the variables of the other unchanged. `MCPrograms` instantiates
`FormatConfig`, `ExFile` and `Fops` and chooses one of them in its initial
state: no two of them run in one behaviour, so the states of the run are
the states of the three added up.

## 3. The LSM tree handle

### LsmTree: state

| Variable | Code |
|---|---|
| `trees[n]` | the handle named `lsm:n` on `lsmqh`, or `NULL`. A handle is a record of `refcnt`, `flags`, `dsk_gen`, `last`, `bloom`, `chunk`, `old_chunks`, `worker_session`, `ckpt_session`, and `sizes`: `chunk_size`, `merge_max` and the `leaf_page_max` of its file configuration |
| `meta[n]` | the metadata record of `lsm:n`, or `NoMeta` (`WT_NOTFOUND`) |
| `files` | the URIs the schema service has a file for. A URI is `[file, id, kind]` for `file:<file>-<id>.lsm` or `.bf` |
| `thr[n]` | whether the merge thread and the checkpoint thread of the tree run |
| `holders[n]` | the references cursors hold on the tree |
| `schemaOp` | the operation that holds the schema lock inside `__lsm_tree_close`, or `NULL` |

The list order of `lsmqh` is abstracted: `close_all` takes the open trees in
any order. Strings, formats, statistics, the collator, allocation sizes and
`memsizep` are left out; allocation failures are not modelled.

The sizes are `uint32_t` in the code. The model keeps their width, scaled:
a word has `WordBits` bits, and `OpenCheck` takes the sum
`3 * chunk_size + merge_max * leaf_page_max` modulo `2^WordBits`, as the C
expression of `uint32_t` operands does, before it compares it with
`CacheSize`.

### LsmTree: operators and actions

A C function that calls others and can return half way is an operator that
yields the **set of its outcomes**, each a returned value and the state left
behind: `SetupChunk`, `Switch`, `StartWorker`, `Open`, `Get`, `CreateTree`,
`CloseRest`, `DropTree`, `RenameTree`, `TruncateTree`. An outcome with an
error exists only for the kinds of call listed in the constant `Faults`
(`schema`, `meta`, `session`, `thread`, `close`), except for the errors the
code brings on itself, which are always there: a drop of a file that does not
exist, a rename whose source is gone or whose target exists.

The actions pick an outcome:

| Action | Code |
|---|---|
| `Create(n, cfg, excl)` | `__wt_lsm_tree_create` |
| `CursorOpen(n)`, `CursorClose(n)` | `__wt_lsm_tree_get` and `__wt_lsm_tree_release` as a cursor calls them |
| `CursorSwitch(n)` | `__wt_lsm_tree_switch` called by a cursor that holds a reference |
| `TreeWorker(n, excl)` | `__wt_lsm_tree_worker` |
| `DropBegin`, `RenameBegin`, `TruncateBegin` | the operation up to the joins: the exclusive `get`, and `F_CLR(WORKING)` |
| `DropFinish`, `RenameFinish`, `TruncateFinish` | the operation from the joins on: the rest of close and everything after it, to the return |
| `CloseAllBegin`, `CloseAllFinish` | the loop of `__wt_lsm_tree_close_all`, one tree per turn |
| `WorkerExit(n, k)` | a worker thread finds `WORKING` cleared and returns |

An operation is split in two exactly where the code blocks; between the two
halves only the threads and `CursorClose` can step, which is what the schema
lock allows. After `close_all` the model goes on: the connection is opened
again, with the metadata and the files it left.

### LsmTree: what is assumed of the code that is not in `src/`

These definitions are marked `spec_modelled` in the map:

* `MetaWrite`, `MetaRead`: the record holds the bloom policy, the sizes, `last`
  and both chunk lists with URIs and flags.
* `MergeUpdateTree`: the chunks from `start` move to the old chunks, the new
  chunk takes their place, `dsk_gen` increases (§4.4 of the specification).
* Schema service: `create` of a file that exists succeeds and leaves it;
  `drop` of a file that does not exist fails, except the forced drop of
  `setup_chunk`; `rename` fails when the source is missing or the target
  exists.
* A `create` that fails is undone by the metadata tracking of its caller (the
  comment at `lsm_tree.c` 322-326): metadata and files are as before.
* `WorkerExit`: the workers loop on `WT_LSM_TREE_WORKING`. A thread whose
  handle was freed reads freed memory and may or may not return.
* `__wt_spin_trylock` on the tree lock succeeds: the workers are joined and the
  cursors excluded when it is called.
* `rename` is called with a new name that no tree has.
* `close_all` is called when every cursor is closed.

The read of `lsm_tree->filename` after `rename` freed the name it points into
is undefined behaviour; the constant `Dangling` lists what it may read as: the
new name (the allocator gave the block back), the old name, or `Junk`.

### LsmLock: the tree lock

`LsmTree` has drop, rename and truncate return one of their outcomes in one
step, and no variable for `lsm_tree->lock`: the tree is closed and held
exclusively while they run, and nothing contends for the lock. `LsmLock`
looks at the same three functions for the lock alone.

| Variable | Code |
|---|---|
| `lock` | `lsm_tree->lock`: `free` after `__wt_spin_init` (388), `held`, or `none` once `__lsm_tree_discard` destroyed it |
| `op` | the operation at work |
| `pc` | where it is: under the lock, behind the unlock of the straight path, at the label `err`, before the discard |

| Action | Code |
|---|---|
| `Open` | `__wt_spin_init` in `__lsm_tree_open` |
| `Trylock(o)` | the trylock of the three operations (521, 575, 641) |
| `FailLocked` | a `WT_ERR` between trylock and unlock |
| `Unlock` | the unlock of drop and rename before the metadata calls (541, 606) |
| `Metadata` | `__wt_metadata_remove` of drop (542), `__wt_lsm_meta_write` and `__wt_metadata_remove` of rename (607, 608): they succeed, or one fails and goes to `err` |
| `TruncateReturn` | the unlock and release at the end of truncate (655, 656) |
| `ErrUnlock` | the label `err` (545, 611, 659) |
| `Discard` | `__lsm_tree_discard` and the return |

## 4. The tree and its threads

### LsmWorker: state

| Variable | Code | Type |
|---|---|---|
| `tree` | `WT_LSM_TREE` (`lsm.h` 55-101) | `flags` (`WORKING`), `refcnt`, `dsk_gen`, `last`, `chunk[]`, `old_chunks[]`; a chunk has `id` (for its URI, `NULL` before `setup_chunk` gave it one), `generation`, `flags` (`ONDISK`), `ncursor`; an old chunk carries the `dsk_gen` from which on no cursor can hold it. `NULL` while the tree is not open |
| `files` | schema service | for every chunk id the file: what it holds for each key `now` (a value, a tombstone, nothing) and what its last checkpoint holds (`ckpt`); `NULL` when there is no file |
| `meta` | metadata service | the record: `last`, `chunk[]`, `old_chunks[]` |
| `clsm` | `WT_CURSOR_LSM` (`lsm.h` 12-33) | per application thread: `dsk_gen`, the ids of the chunks it was bound to, its primary chunk; or `NULL` |
| `merge` | `WT_LSM_WORKER_COOKIE` (`lsm.h` 117-121) | where the merge worker is in its loop (`none`, `idle`, `staged`, `built`) and its cookie: the chunks it copied, where they start, the chunk it builds |
| `ckpt` | checkpoint thread | `run` or `none` |
| `schemaOp` | `__lsm_tree_close` 74-76 | the truncate that waits in `__wt_thread_join` with the schema lock, or `NULL` |
| `call` | | the call of an application thread the last step answered, with what it returned, or `NoCall` after any other step; read by the refinement only |

The initial state is the tree after `__wt_lsm_tree_create` wrote its record
and discarded its handle (316-320): no handle, no file, a record without
chunks. The first open makes the first chunk.

### LsmWorker: the functions of `lsm_tree.c`

A function that may fail is an operator that yields the set of its
outcomes, as in `LsmTree`: the handle (or `NULL` when it was discarded), the
files, the record and the threads as the function left them, and whether it
returned 0. The constant `Faults` names the kinds of calls that return an
error.

| Operator | Code | Outcomes |
|---|---|---|
| `SetupChunk` | `__wt_lsm_tree_setup_chunk` 164-198 | the name is formatted (may fail: nothing done), what is under the name is dropped unless the id is 1 (may fail), the file is created (may fail: dropped, not created), the chunk gets its URI; with `create_bloom` the name of the filter is formatted after that and may fail, which leaves a chunk with its URI and its file |
| `Switch` | `__wt_lsm_tree_switch` 463-499 | `last` is incremented; the array may fail to grow; the new chunk is in the roster before it is set up; after `setup_chunk`, `++dsk_gen`; the record is written last and may fail. An error leaves all that was done before it. Nothing is done to the chunk before the new one: it is not marked on disk and not checkpointed |
| `StartWorker` | `__lsm_tree_start_worker` 204-229 | two sessions (may fail: nothing started), `WORKING`, the merge thread (may fail), the checkpoint thread (may fail with the merge thread running) |
| `OpenTree` | `__lsm_tree_open` 370-419 | allocation, `__wt_lsm_meta_read` and the open check may fail; a tree without chunks is switched; `dsk_gen = 1`; the workers start. Any error discards the handle, with what the switch did to the files and the record, and with the merge thread if it was created |
| `Get` | `__wt_lsm_tree_get` 425-446 | the handle of the list, or the one `__lsm_tree_open` makes |
| `Truncate` | `__wt_lsm_tree_truncate` 638-663 | the close or the trylock fails: return with the tree stopped and still referenced; else the chunk is allocated, every chunk becomes old (`__wt_lsm_merge_update_tree`), the new chunk is set up without bloom filter, the record written, the workers started, the tree released; an error there discards the handle |
| `Unsealed`, `CkptStops`, `Written` | `__wt_lsm_tree_worker` 682-689 | the loop over the roster passes over the chunks on disk and ends at the first call that fails |

### LsmWorker: actions

A section of code under the tree lock is one step.

| Action | Code | What it does |
|---|---|---|
| `Open` | `__wt_lsm_tree_get` 425-446 | a caller that releases the tree opens it, once no thread of an earlier handle is left |
| `CursorOpen`, `CursorClose` | spec. 4.6 | bind to the roster, count in `ncursor` of the primary chunk and in `refcnt`; give the counts back |
| `CursorSearch` | spec. 4.6 | enter (compare `dsk_gen`, bind again and move the count if it differs), then return the record of the newest chunk of the cursor that has one; a tombstone is no record |
| `CursorInsert`, `CursorRemove` | spec. 4.6 | enter, then write the value or a tombstone to the primary chunk |
| `CursorSwitch` | spec. 4.6, calls `__wt_lsm_tree_switch` | a cursor whose primary chunk holds a record has the tree switched; any outcome of `Switch` is left as the state |
| `MergePick` | spec. 4.4 (1, 2) | under the tree lock, copy a run of chunks on disk into the cookie |
| `MergeBuild` | spec. 4.4 (3, 4) | take an id from `last`, write the merged records to its file and checkpoint it: the newest record of every key, without tombstones if the run starts at the oldest chunk |
| `MergeInstall` | spec. 4.4 (5), `__wt_lsm_merge_update_tree` | the run moves to `old_chunks[]`, the output takes its place, `++dsk_gen`, the record is written |
| `MergeAbort` | spec. 4.4, 7 | a step before the install fails: the cookie is given up, the id and the file of an output that was built stay, the worker tries again |
| `MergeReclaim` | spec. 4.4 (6) | drop the file of an old chunk that no cursor counts in `ncursor` and that every cursor has left behind by `dsk_gen`; write the record |
| `Checkpoint` | spec. 4.5 | the checkpoint worker checkpoints the oldest chunk that is not on disk, and marks it on disk unless it is the primary chunk |
| `TreeCheckpoint` | `__wt_lsm_tree_worker` 669-692 | the tree is got (and opened if it is not open), every chunk that is not on disk is checkpointed, oldest first, until a call fails; the tree is released |
| `TruncateBegin`, `TruncateFinish` | `__wt_lsm_tree_truncate` 624-663 | get the tree exclusively and clear `WORKING`; after the joins, any outcome of `Truncate` |
| `MergeExit`, `CkptExit` | `__wt_lsm_worker`, `__wt_lsm_checkpoint_worker` | a worker sees `WORKING` cleared and returns; a chunk it was building stays behind as a file |
| `Crash` (in `CrashSpec`) | | the process stops at any point: the handle, the cursors and the threads are gone, every file holds its last checkpoint, the record stays. `Open` or `TreeCheckpoint` opens the tree again |

### The abstract specification and the refinement

`LsmStore` has the record `dict` of every key, the records `saved` that a
crash would leave, the states `marks` that are still to be saved, and the
`call` the last step answered. A search returns `dict[key]`, an insert and
a remove change one key, a truncate empties `dict` and `saved`, and a crash
copies `saved` to `dict`. Saving lags: `Mark` appends `dict` to `marks`,
and `Save` makes the oldest mark, a later one, or `dict` itself the saved
state and forgets the marks up to it. What is saved is never older than what
was saved before, and never a mixture of two states.

`LsmWorker` instantiates it with

    dict  <- Content    the newest record of every key in the files of the roster
    saved <- Durable    the same in the last checkpoints of the chunks of the record
    marks <- Marks      for every chunk before the primary chunk whose file
                        holds what no checkpoint wrote: what the chunks up to
                        it hold

and `Implements` says that every step of `LsmWorker` is the call it reports
in `call`, or a step of the store itself that answers no call: nothing
changes, a `Mark` or a `Save`. A search, an insert, a remove, a truncate and
a crash are their calls. A switch is a `Mark` or nothing: it saves nothing,
as in the code. A checkpoint is a `Save`: the loop of
`__wt_lsm_tree_worker` goes from the oldest chunk on, so where it stops the
checkpoints hold the tree as it was at a switch. Opening and closing a
cursor and every step of the merge worker must change nothing, which is the
substance of the property: a merge moves records between files and files
between lists, on a tree that cursors with older rosters read and write at
the same time, and after a crash the chunk a switch creates must be empty
whatever an interrupted merge left under its id.

`ServesAsOneStore` is the same with `saved` and `marks` hidden: what the
threads of a process that does not crash can see.

### LsmWorker: what is assumed of the code that is not in `src/`

* The steps of the merge worker, the cursor and the checkpoint worker follow
  sections 4.4, 4.5, 4.6 and 5 of the specification and are marked
  `spec_modelled` in the map.
* The steps of a worker that call the schema or the metadata service
  (`MergeBuild`, `MergeInstall`, `MergeReclaim`, `Checkpoint`) are taken
  only while no truncate holds the schema lock, and a worker reads `WORKING`
  between any two of its steps ("worker loops poll `WORKING` at every
  suspension", section 9 of the specification).
* `WT_LSM_CHUNK_ONDISK` is set by the checkpoint worker, on a chunk that is
  no longer the primary chunk and was checkpointed. Nothing in `lsm_tree.c`
  sets it; `__wt_lsm_tree_worker` reads it (685).
* An old chunk gets the generation after the increment of the install that
  retired it: a cursor bound before the install holds the chunk, and has a
  smaller `dsk_gen`. Tagging it with the generation before the increment
  lets the file go while such a cursor has it (mutant
  `MergeUpdateTreeOldGen`).
* Recency is the place in the roster, not the id: the output of a merge has
  a higher id than the chunks that were switched in while it was built, and
  stands before them.
* The picker may take any run of two to `merge_max` neighbours on disk whose
  generations differ by one at most; the size schedule of the
  specification selects among these.
* A crash loses the handle, the cursors, the threads, and what each file got
  since its last checkpoint. A metadata write is atomic; a file operation
  and the metadata write of the same function are one step, apart where
  `Faults` lets the write fail.

## 5. The projection layer

### State and data

| Variable | Code |
|---|---|
| `table` | the table the cursors are open on: its key columns and the columns of each column group |
| `cp[g]` | the `WT_CURSOR` on column group `g`: `key_format`, `value_format`, the items `key` and `value`, and `recno` |
| `last` | the last call: function, projection, arguments, return value, what it gave back, and `clean` |

What the properties must tell apart is where a value starts, how long it is,
of what type it is, and what bytes nothing wrote. So a byte string is a
sequence of **cells** (`Packing`): a packed value is one cell carrying its
type and value, followed by `Pad` cells up to its packed size, `Width[v]`;
memory that nothing was packed into holds `Junk`. `UnpackRead` of bytes that
are no packed value of the type asked for gives a cleared value of one byte,
as a decoder gives something, and says so in `clean`, which the walk carries
to `last.clean`. An item is `[mem, memsize, size, ext]`: `ext` says that the
data pointer is not at the item's memory but at the cursor's `recno`
(`c->key.data = &c->recno`), where a raw record number of `RecnoSize` bytes
is read and written; `memsize` is the memory the item owns, a multiple of
`AllocUnit`, which only grows.

### Operators and actions

Each of the four functions is a fold (`FoldLeft`) of one step per plan
operation over a record of the function's local variables (`Walk`: `c`, `p`,
`end`, `pack`, `pv`, `ap`, and for slice and merge `vpack`, `vpv`, `vp`), in
the order of the code: the reset loop (`Reset`), then the walk. A step is
`Select` (`WT_PROJ_KEY`, `WT_PROJ_VALUE`), `Skip`, `InNext`, `InReuse`,
`SliceNext`, `SliceReuse`, `OutStep`, `MergeStep`; an error stops the walk
with the cursors as they are then (`Fail`). A `SKIP` or `NEXT` with a count
is taken count times (`Steps`).

`Grow` is `__wt_buf_grow`: where the item has less memory than is asked for,
it allocates (`Alloc`), and an allocation may fail. The walk is still one
fold: at every allocation it sets aside the walk that ends there with
`ENOMEM` (`failed`), and `Outcomes` of the finished walk is that walk and
the first `MaxFail` of the ones set aside. An action takes any one of them,
so a call that runs out of memory leaves the cursors exactly as the code
does: emptied by the reset loop, and written up to the allocation that
failed. In project_merge the buffer is the caller's, and every growth of it
may be an allocation.

| Action | Code |
|---|---|
| `In(proj, args)` | `__wt_schema_project_in` with the plan of `proj` and the application's values |
| `Out(proj)` | `__wt_schema_project_out` |
| `Slice(proj, args, key_only)` | `__wt_schema_project_slice` with the packed form of `args` as the buffer |
| `Merge(proj)` | `__wt_schema_project_merge` |

### The abstract specification and the refinement

`Projection` says what the layer promises without plans, formats or bytes:
`row[g][kind]` is the list of column values cursor `g` holds in its key or
value; `Set` puts the arguments of a call at the places the projection
names, clears the columns it passes and empties what it switches to; `Get`
reports the value at the first place of every column, or fails at the first
place it cannot reach. A call may also run out of memory: `GetFails`
changes nothing, and `SetFails` leaves, in every key and value the
projection names, no more columns than the whole call would have put
there, each with the value of the whole call or cleared, and leaves the
others alone. (The key of a column store is at the record number, which a
failed call may not have reached: it then holds what it held.)

`SchemaProject` implements it under the mapping

    row    <- the values of the packed cells in the first size bytes of each
              key and value (Columned), or <<Garbled>> when these bytes are
              not the packed values of the format
    call   <- the function, projection and arguments of last
    result <- the return value and the columns given back; for
              project_merge, the columns unpacked from the buffer it filled

`Implements` is `Abstract!Init /\ [][Abstract!Do(TheCall')]_(Abstract!vars)`:
every step is the abstract step of the very call that was made. It is a
property of the run `project_refines`.

### What is assumed of the code that is not in `src/`

* `Packing`: `__pack_next` gives the types of a format in turn and
  `WT_NOTFOUND` at its end; `__pack_size` depends on the value;
  `__unpack_read` fails when the value is longer than `maxlen`.
  `__wt_buf_init(buf, 0)` makes the item empty and keeps its memory;
  `__wt_buf_grow` keeps the data and adds bytes that hold anything; it
  allocates only where the item has less memory than is asked for, in
  units of `AllocUnit`, and changes nothing when the allocation fails.
* `SchemaPlan`: the plan generator is not in `src/`. `Plan(t, proj)` is the
  plan the interpreters are written for: for each column of the projection,
  each place that holds it (the key of the first cursor, the value of every
  column group that has it), reached by a switch where the cursor or the
  direction demands one, a skip over the columns before it, then `NEXT` at
  the first place and `REUSE` at the others.

## 6. The utilities

### OsGetline

| Variable | Code |
|---|---|
| `fp` | the stream: the characters `fgetc` has still to give, and whether its end is a read error (`ferror`) |
| `buf` | the caller's `WT_ITEM`: its memory, the size of its data, and `inside`, which turns false when a byte is stored past the memory |
| `ret` | what the last call returned |

The one action, `Getline`, is the whole call: `__wt_buf_init` to 10 bytes
(`InitSize`), the loop as a fold of `Getc`, one turn per character (`Room`:
grow by 1024 (`GrowBy`) when `size + 1 >= memsize`; `EndsLine`: pass over a
newline on an empty line, stop at one after a line; `Keep`: store any other
character), the return of a read error with the item as the loop left it,
and the final NUL. `__wt_buf_init` and `__wt_buf_grow` are under `WT_RET`:
`Grow` lets the allocation numbered `failAt` of a call fail, for `failAt`
up to `MaxFail`, and the call then returns `ENOMEM` with the character just
read taken from the stream and the item as it was. The item keeps its
memory from call to call, with the lines read before in it.
`LinesOf` is the reference: the non-empty lines of a string.

### NopCompress

| Variable | Code |
|---|---|
| `wt_api` | the global `wt_api` |
| `registered` | whether `add_compressor` accepted the compressor |
| `out` | the caller's `dst`, `*result_lenp` and `*compression_failed` |
| `last` | the last call and its return value |

`ExtensionInit(added)` is `wiredtiger_extension_init`, with the answer of
the connection; `Compress` and `Decompress` are the two callbacks, which the
connection calls once the compressor is registered. The results go through
pointers into variables of the caller, and a path that assigns nothing leaves
there what an earlier call stored: `out` is kept from call to call for that
reason, and starts `Unset`.

## 7. The programs

### FormatConfig

| Variable | Code |
|---|---|
| `flags` | `C_PERM` and `C_TEMP` in `cp->flags` of each entry of the table `c[]` |
| `v`, `vstr` | `*cp->v` of the entries that hold a number, `*cp->vstr` of those that hold a string |
| `type`, `uri` | `g.type`, `g.uri` |
| `replay` | `g.replay` |
| `printed` | the lines of `RUNDIR/run`, or `NULL` while a replay has no use for them |
| `status` | where the process is: reading its arguments, in a run, in a run that is printed, or gone |
| `loaded` | the process has read `RUNDIR/run` |
| `given` | a history variable: the numbers the user of this process set, for `UserSettingsHold` |

The functions of `config.c` are operators on a record `G` of the table and
the globals; an action installs what the operator returns, or leaves the
process where the code calls `exit`.

| Definition | Code |
|---|---|
| `ConfigTranslate`, `Spellings` | `config_translate`: a text that starts with a digit is its number, a file type is known by three names, anything else ends the process |
| `ConfigFileType` | `config_file_type`, with its answer for a number that is no type |
| `ConfigFind` | `config_find`: the first entry whose name begins with the keyword |
| `Single`, `SingleString`, `SingleNumber` | `config_single`: the flag is set before the value is looked at; a string is stored when the keyword is the whole name; a number is checked against 0 and 1 or the minimum and maximum of the entry |
| `ConfigClear` | `config_clear` |
| `DataSource`, `FileType`, `Object`, `Mismatch`, `Threads`, `Fill`, `Randomised`, `ReadOnly`, `Replayable`, `Salvage` | the steps of `config_setup` in their order; `Setups` is their composition, the set of tables a call may leave |
| `Lines`, `ReadLine`, `FileRead` | what `config_print` writes, and `config_file` as one `config_single` for every line that is no comment, folded over the lines in their order |

| Action | Code |
|---|---|
| `ConfigSingle(kw, text)` | `config_single(s, 1)` for an argument `kw=text`, or one without `=` |
| `ConfigFile` | `config_file` on `RUNDIR/run` in a process started with `-r` |
| `ConfigSetup(tenth)` | `config_setup`; `tenth` says whether `g.run_cnt % 10 == 0` |
| `ConfigPrint` | `config_print(0)`, or `die` where the file cannot be opened |
| `Start(r)` | the program is started again, with or without `-r` |

An entry is known by its name, a value by its text. The model values of the
texts are the texts themselves: `"row"` and `"row-store"` are two texts that
`ConfigTranslate` maps to one type, and `Lines` writes the second where the
user typed the first.

What is assumed of the code that is not in `src/`. The initialisers of
`c[]` (`config.h`) and the program that calls these functions are not among
the sources. `MCPrograms` gives the table six entries that between them have
every flag `config.c` tests: the two strings and `threads`, which
`config_setup` sets itself (`C_IGNORE`); `ops`; `delete_pct`, an operation
percentage (`C_OPS`); `huffman_key`, a boolean (`C_BOOL`) of row stores
(`type_mask`). The calling program is taken to read its arguments, then
call `config_setup` and `config_print` for each run; with `-r` it reads
`RUNDIR/run` first and takes no other setting.

### ExFile

`pc` is the statement `main` is at. `Connect` is lines 47-50, `Create` 54-57,
`Close` line 60 with the return of `main`; `exit` is the status the parent
sees, `ret % 256`. Every call returns 0 or one of `Errors`. After a failed
`wiredtiger_open` or `open_session` the program prints a message and goes
on with a `conn` or a `session` that was never assigned; a call through it
is undefined, and the model has the process killed (`Signal`) or the call
return anything and do nothing. `file` outlives the process: it says
whether `file:example` exists under `WT_TEST`.

### Fops

| Variable | Code |
|---|---|
| `m_w`, `m_z` | the statics of `r()` |
| `th[t]` | thread `t`: where it is in `r()`, its loop counter `i`, and the registers `z` and `w` it holds a loaded word (or the microseconds of the clock) in |
| `run_stats[t]` | the counters of thread `t`, one per operation |
| `main`, `next` | where `fop_start` is, and the thread it creates or joins next |
| `shown` | what `print_stats` printed |

A step of a thread is one access to a shared word: `Check` (the load of
`m_w` for `if (m_w == 0)`), `SeedW` (the clock is read and the seconds
stored), `SeedZ`, `LoadZ`, `StoreZ`, `LoadW`, and `StoreW`, which stores
`m_w`, returns the number, counts the operation `r() % 7` in the thread's
own counters and goes round the loop of `fop`. The race on the statics is
undefined behaviour in C; what the machines of the test make of it is
loads and stores of words in any order, and that is what the model has.
`Create`, `Join` and `PrintStats` are the loops and the end of `fop_start`;
`Die` is the `calloc` or the `pthread_create` that fails, which ends the
process with the threads it has.

The words have `2 * HalfBits` bits, and `NextW` and `Drawn` are the updates
and the result of `r()` in that width. The code has 16 and the multipliers
36969 and 18000, which are below 2^16: an update never overflows, and maps
0 to 0 and nothing else to 0.

## 8. The runs

### The LSM tree handle

Bounds of every run of `MCLsmTree`: two names `a`, `b`; at most one cursor
per tree (`MaxHolders = 1`); the merge thread on (`LsmMerge = TRUE`); words
of four bits and a cache of 8 (`WordBits = 4`, `CacheSize = 8`).

| Run | Faults | `Dangling` | `MaxLast` | Properties |
|---|---|---|---|---|
| `lsm_safety` | none | new | 3 | `TypeOK`, `RefcntIsHolders`, `WorkersMatchHandle`, `MetaMatchesRoster`, `ActiveIdsIncrease`, `OpenTreesFitCache`, `DskGenMonotonic` |
| `lsm_faults` | all | new | 2 | `HoldersHaveHandle` |
| `lsm_live` | none | new, old, junk | 2 | `StopCompletes` |

* `RefcntIsHolders`: `refcnt` is the number of cursors plus one for the
  operation at work. Shows that create, tree_worker and truncate give back
  every reference they take.
* `HoldersHaveHandle`: while a cursor is open, its handle is on the list and
  no drop, rename or truncate is at work on it. Holds under every fault.
* `WorkersMatchHandle`: an idle open tree has its sessions and threads, no
  thread runs on a freed handle, no session is closed twice.
* `MetaMatchesRoster`: the record of an open tree lists what the handle holds.
* `ActiveIdsIncrease`: in every record the ids of the active chunks increase
  and none is above `last`, also after rename has renumbered them.
* `DskGenMonotonic`: a step that changes the roster of a handle increases its
  `dsk_gen`.
* `OpenTreesFitCache`: the cache holds three chunks and a page for each
  participant of a merge of every open tree, in unbounded arithmetic.
* `StopCompletes`: an operation that waits for the workers goes on.

Why the bounds are enough. Two names give rename a target and let a tree be
created under a name another tree left. `MaxLast = 3` allows create, truncate
and switch on one tree, a roster of two active chunks and one old chunk, and
two renames of it. One cursor is enough to make an exclusive `get` busy; the
properties count references, and a second cursor adds no new kind of state.
The five configurations take each branch of create and of the open check: a
plain row store, a bloom filter on the newest chunk, a column store (refused),
bloom filters off with one asked for (refused), sizes that do not fit the
cache (refused by open, and the create undone). The sizes of the plain tree
need exactly the cache (3 * 2 + 2 * 1 = 8), those of the refused one have
room for the chunks and not for the merge pages (3 * 2 + 2 * 2 = 10); none
of the five passes a word, which `viol_open_check_wraps` adds.

`lsm_faults` has `MaxLast = 2` and leaves out the two configurations create
refuses before it changes anything: what the property is about is the life of
handles and references, which a second switch does not change. It is the
only property of `lsm_safety` that survives the faults; each of the others
has a run below that shows how it breaks.

`lsm_safety` and `lsm_faults` read the freed name as the new name, the one
outcome in which rename works at all, and none of their properties speaks
of the names of the renamed chunks: `ActiveChunksCarryTreeName` does, and
`viol_dangling_filename` shows it violated under the other outcomes.
`lsm_live` runs with all three.

Names are symmetric in the safety runs (`SYMMETRY`); `lsm_live` has no symmetry
set, since it checks a liveness property.

### The tree and its threads

Bounds of every run of `MCLsmWorker`: one key; `MergeMax = 2`;
`BloomNewest = TRUE` (`__wt_lsm_tree_switch` asks `setup_chunk` for the name
of a bloom filter).

| Run | Specification | Cursors | Values | `MaxLast` | `Faults` | Properties |
|---|---|---|---|---|---|---|
| `lsm_worker` | `Spec` | 2 | none | 4 | `Survivable` | `TypeOK`, `SnapshotsHaveFiles`, `NcursorCountsPrimaries`, `GenerationNamesRoster` |
| `lsm_store` | `Spec`, `VIEW InMemory` | 1 | 1 | 5 | none | `ServesAsOneStore` |
| `lsm_crash` | `CrashSpec` | 1 | 1 | 4 | `ckpt` | `Implements`, `SnapshotsHaveFiles` |

The kinds of failing calls are `alloc`, `scratch`, `schema`, `ckpt`, `meta`,
`config`, `lock`, `session`, `thread` and `close` (`FaultKinds`).
`Survivable` is all of them but `scratch` and `schema`, the failures within
`__wt_lsm_tree_setup_chunk`: these leave a chunk without URI or without file
in the roster (finding at `lsm_tree.c:490`), which `SnapshotsHaveFiles` and
`GenerationNamesRoster` exclude. `lsm_worker_faults.cfg` below runs with all
of them.

* `SnapshotsHaveFiles`: the file of every chunk a cursor was bound to, of
  every chunk of the roster of the handle (of the record, while no handle is
  open), and of every chunk a staged merge copied, exists. Shows that the
  two conditions of the reclaim (no `ncursor`, and the generation of the old
  chunk at most that of every cursor) are enough; that a switch, an open or
  a truncate that fails at an allocation, at the write of the record or at
  the start of the workers leaves no roster without its files; and, under
  crashes, that every chunk of the record has its file.
* `NcursorCountsPrimaries`: `ncursor` of every chunk, active or old, is the
  number of cursors that have it as primary chunk.
* `GenerationNamesRoster`: a cursor with the `dsk_gen` of the tree has the
  roster of the tree; this is what the lock-free comparison relies on.
* `ServesAsOneStore`: the refinement of section 4 without durability. Shows
  that switches, merges, reclaims and checkpoints are invisible to searches,
  and that tombstones are kept where a record of an older chunk is still
  behind them.
* `Implements`: the refinement of section 4. In `lsm_crash` it shows that a
  crash leaves the tree as it was at a switch or a checkpoint, never with
  the records of a newer chunk and without those of an older one: the loop
  of `__wt_lsm_tree_worker` checkpoints the oldest chunk first and may stop
  at any. It also shows that an interrupted merge, which leaves a file with
  records under an id that is given out again, since `last` is in the
  record as of the last metadata write, does no harm: the forced drop of
  `setup_chunk` keeps these records out of the new chunk.

Why the bounds are enough. One key and one value give every file its three
states, and let a removed record reappear, which is how a lost tombstone or
a leftover file shows. With `MaxLast = 4` a tree is opened, switched twice
and its two chunks on disk merged into the fourth id while a cursor of each
roster is open, writes, binds again or closes, and the old chunks are
reclaimed; or it is truncated and switched. `lsm_worker` has no values: the
only record is the tombstone of a remove, which is enough to tell a file
that was written from an empty one (a switch is taken when the primary
chunk holds a record), and its properties are about chunks, counts and
generations, not about what a search returns. Two cursors are needed where
cursors of different rosters, or two counts on one chunk, matter.

A merge that does not start at the oldest chunk needs two chunks on disk
behind the oldest, a primary chunk and a fifth id for its output, which
`lsm_store` has. The run hides the last checkpoints of the files with a
view: in a process that does not crash no step reads them, so two states
that differ only there have the same future, and the states are 165,571
where they are 1,885,135 without the view. `lsm_crash` at `MaxLast = 4`
reaches a crash after the build of a merge, the reuse of its id by a switch
and by a second merge, a crash in the middle of a truncate, a crash between
two switches with none, one or both of the chunks checkpointed, and the open
by `__wt_lsm_tree_worker` of a tree nobody opened since the crash.

In `lsm_crash` only the checkpoints fail. Where the write of the record may
fail as well, `Implements` is violated (`viol_crash_meta.cfg` below).

### The projection layer

| Run | Tables | `InCalls` | `Fresh`, `Damaged` | Properties |
|---|---|---|---|---|
| `project_refines` | `Simple`, `Grouped`, `Shared`, `ColumnStore` | where the plan appends | false, false | `TypeOK`, `ReadsWhatWasPacked`, `Implements`, `GetsWhatWasSet` |

* `Implements`: the refinement of section 5. With the failing allocations
  it says what a caller may rely on after `ENOMEM`: the cursors hold a part
  of the row it set, never a column of another value, a value of another
  type or bytes that are no row, and the calls that follow work on them as
  on any other row.
* `GetsWhatWasSet`: a project_in or project_slice that set values, followed
  by a project_out or project_merge of the same projection, gives back the
  arguments of the first, unless the second runs out of memory.
* `ReadsWhatWasPacked`: no call decodes bytes that no `__pack_write` put
  where it reads, or of another type than it reads, and none writes past
  the record number.

Bounds. Columns `k` (key), `n` (record number), `a`, `b`, `c`, with `b` a
string and the others integers, so that a walk that is one column off reads
a value with the wrong type. Values 0 and 1 of packed widths 1 and 2, so
that a value written over another changes the length of what follows;
`RecnoSize = 2`. The tables: one column group in the table's order; two
groups, the second against the table's order (a switch back to the start of
a buffer); a column held by two groups (`REUSE`); a column store (the key at
the record number). The projections name columns in the order of a group,
against it, behind columns they leave out, and with each kind of key.
`AllocUnit = 4` is less than the longest value of a column group (6 bytes),
so an item is allocated once or twice in its life and an allocation can
fail behind columns already written to the same item; `MaxFail = 1`: the
call fails at its first allocation or not at all. A failure at a later
allocation of a call leaves what a failure at the first leaves after a call
that allocated the items before it, and that sequence is explored; with
`MaxFail = 2` the run has 17,276 states and the same result. Every sequence
of calls is explored: 11,862 states, each a table and the contents and
memory of its cursors after some sequence.

The passing run restricts three things, each of which a configuration below
lifts and finds a defect behind:

* `InCalls`: project_in is called only where its plan appends within each
  key and value (`AppendingCalls`). Where it overwrites, `viol_in_overwrite`
  and `viol_in_size.cfg` apply.
* The tables do not have a column in a second group behind another column:
  `viol_reuse` has them.
* `Fresh = FALSE`: the key item of a column store's cursor is at the record
  number, as it is after any call but project_out: `viol_out_recno` starts
  with fresh cursors.

### The utilities

| Run | Bounds | Properties |
|---|---|---|
| `utilities` | `InitSize = 2`, `GrowBy = 2`, `MaxInput = 4`, `MaxFail = 1`, characters `x`, `y`; `MaxLen = 2`, bytes 0, 1 | `TypeOK`, `StoresWithinMemory`, `ResultIsOfThisCall`, `ReturnsNextLine` |

* `ReturnsNextLine`: a call that returns 0 returns the next non-empty line
  of the stream (`LinesOf`), as the string before the first NUL and as
  `size` bytes, and leaves the stream behind that line; length 0 means no
  line is left.
* `StoresWithinMemory`: no character and no NUL is stored past `memsize`.
* `ResultIsOfThisCall`: after `nop_compress` returned 0,
  `compression_failed` says whether the destination was too small, and
  where it was not, `result_len` and `dst` are the source; the same after
  `nop_decompress` returned 0.

Bounds. The sizes 10 and 1024 of `os_getline.c` are scaled to 2 and 2: what
matters is a line that ends exactly at the end of the memory, before and
after a growth, and lines of lengths 0 to 4 cover `size + 1` below, at and
above both. The streams are all strings of at most four characters and
newlines, ending in end of file or in a read error: they hold a line of two
characters followed by one of one character (a shorter line over a longer
one in the same memory), runs of empty lines at the start, in the middle and
at the end, and last lines without a newline. `MaxFail = 1`: a call fails
at its first allocation, be that `__wt_buf_init` of an item without memory
or the first `__wt_buf_grow` of a line, or at none. For the compressor, sources
and destinations of 0 to 2 bytes give a destination smaller than, equal to
and larger than the source, and any earlier call before it.

The two utilities are checked in one run, interleaved: they share no
variable, and the properties of one do not mention the other.

### The programs

| Run | Bounds | Properties |
|---|---|---|
| `programs` | six entries; numerals `0`, `1`, `2`; keywords: the six names, `d`, `file`, `bzip`, none; data sources `file`, `table`, `lsm`, `lsmfile`, `kvs`; errors 22 and -31802; two threads of two operations, words of 8 bits, multipliers 9 and 5, two readings of the clock | `TypeOK`, `LsmIsRowStore`, `PermanentValuesKept`, `ReplayReproducesRun`, `PrintedStatsAreFinal`, `SeedOfWSurvives` |

* `LsmIsRowStore`: in a run, a data source `lsm` goes with the type `ROW`.
  `config_setup` no longer draws `lsm` (the case is under `#if 0`), so the
  user is the only one to ask for it; it is refused with a file type the
  user also gave that is not a row store.
* `PermanentValuesKept`: a step into a run changes no entry that has
  `C_PERM`, except that a run with `ops = 0` has every operation percentage
  0. It takes a setting, a run, and the `config_clear` and the draws of the
  next runs to break it. The exception is for the step into the read-only
  run; that the zeros stay in the runs after it is what
  `viol_settings_lost.cfg` shows.
* `ReplayReproducesRun`: a process started with `-r` accepts every line of
  the file `config_print` wrote; the run `config_setup` then sets up would
  print the same file; the only run it refuses is one of several threads.
  The file type is the case in point: it is printed as
  `fixed-length column-store` and must be read as what the user typed as
  `fix`, `flcs` or `1`.
* `PrintedStatsAreFinal`: what `print_stats` prints for a thread adds up to
  `nops`: `fop_start` reads the counters only after the last join.
* `SeedOfWSurvives`: once a number is drawn, `m_w` is not 0, in every
  interleaving of the loads and stores: the clock is read by the first
  callers and never again. The same is not true of `m_z`
  (`viol_seed_lost.cfg` below).
* `TypeOK` has, beside the types, the range of every number: no entry holds
  a value above its maximum, or a boolean other than 0 and 1, in any state a
  process goes on from.

Bounds. The numerals give a value below, at and above the maximum 1 of `ops`
and `delete_pct`, the two values of a boolean and one that is neither, the
file type as a number
(`1` and `2` are types, `0` is none) and `threads` 1 and 2. `d` is a keyword
two names begin with, `file` one a string entry begins with, `bzip` one no
name begins with. `lsmfile` begins like a data source and `kvs` does not.
The errors are one of the system and one of the library; neither is 0
modulo 256, as no error of either kind is. A process that is no replay
forgets `RUNDIR/run` when it sets up its next run, and a replay takes no
setting but the file: the file matters only to the replay that follows the
process that wrote it, and without this every printed run would multiply the
states of every later process.

Two threads are what the race needs, and two operations each let a thread
seed, draw, and draw again from what the other left. One reading of the
clock has seconds whose low half is 0, the value at which an update without
its carry would give 0. Words of 8 bits keep the two properties of the
update the model is about; the numbers drawn are not those of the code.

A setting with an abbreviated keyword is taken by `config_find`, which
compares as many characters as the keyword has, and the entry is marked
permanent; for a string entry `config_single` then stores nothing, since it
asks for the whole name, and either keeps the value of an earlier setting
or ends with the message of a failed `strdup`. The model does the same.

### Fairness

`FairSpec` is `Spec` with weak fairness of `WorkerExit` for each thread and of
the four `Finish` actions. The threads are operating system threads that poll
`WORKING` in their loops, and the thread that waits in `__wt_thread_join`
runs again when the join returns: each of these steps, once enabled, stays
enabled until it is taken. Nothing is assumed of the application: create,
cursors, drop, rename, truncate and close_all may or may not happen.

`FairSpec` is a specification of `LsmTree`, and `lsm_live` the only run
that checks a liveness property. `LsmWorker` has none: whether its joins
return depends on what the loops of the workers do between two readings of
`WORKING`, and that code is not in `src/`.

### Runs that expect a violation

Each checks one property that the specification, or the code's own comments,
state, and that the code does not keep. `PROJECT.json` has the finding of each.

| Run | Property | What TLC finds |
|---|---|---|
| `viol_rename_bloom` | `MetaFilesExist` | create with `lsm_bloom_newest`, rename: the bloom filter is renamed onto the chunk's new URI, the call fails, the chunk file is renamed and the record is not (`lsm_tree.c` 600) |
| `viol_double_unlock` | `UnlockedByHolder` | drop unlocks at 541, `__wt_metadata_remove` fails, and the label `err` unlocks at 545 a lock that is free (rename: 606, 607-608, 611) |
| `viol_out_recno` | `OutGetsRecno` | project_out on fresh cursors of a column store walks the empty key item, since `p` and `end` are taken before the key is pointed at the record number (175-179) |

### Further configurations

These are kept with the project and run like the others; each ends in the
violation described. Their findings are in `PROJECT.json`, which names the
configuration in the text of the finding.

| Configuration | Module | Property | What TLC finds |
|---|---|---|---|
| `viol_dangling_filename.cfg` | `MCLsmTree` | `ActiveChunksCarryTreeName` | the chunk names are formatted from the name freed at 580 |
| `viol_open_check_wraps.cfg` | `MCLsmTree` | `OpenTreesFitCache` | chunks of 5 and two merge pages of 1 need 17; in a word of four bits the sum is 1, and the tree opens in a cache of 8 (357) |
| `viol_seed_lost.cfg` | `MCPrograms` | `SeedSurvives` | thread 1 stores the seconds; thread 2 finds `m_w` set and loads `m_z`, still 0; thread 1 stores the microseconds; thread 2 stores 0 over them, and `m_z` stays 0 (`fops.c` 42, 45) |
| `viol_settings_lost.cfg` | `MCPrograms` | `UserSettingsHold` | `delete_pct=1` on the command line, a run with `ops` drawn 0, a run with `ops` drawn 1: `delete_pct` is still 0 (`config.c` 115) |
| `viol_drop_live_chunk.cfg` | `MCLsmTree` | `MetaFilesExist` | truncate `a`, rename to `b`, create `a`, drop `b`: the old chunk of `b` is the first chunk of the new `a` (584, 184) |
| `viol_close_leak.cfg` | `MCLsmTree` | `RefcntIsHolders` | close fails in drop: `WT_RET` returns with the reference (518) |
| `viol_rename_old_chunks.cfg` | `MCLsmTree` | `ChunksCarryTreeName` | truncate, rename: the old chunks keep the old name |
| `viol_rename_renumbers.cfg` | `MCLsmTree` | `ChunkIdsSurviveRename` | rename numbers the chunks by their place in the roster (589) |
| `viol_switch_setup.cfg` | `MCLsmTree` | `DskGenMonotonic` | `setup_chunk` fails in switch: the roster grew, `dsk_gen` did not (489-497) |
| `viol_switch_meta.cfg` | `MCLsmTree` | `MetaMatchesRoster` | the metadata write of switch fails: the handle has a chunk the record has not (495) |
| `viol_worker_orphan.cfg` | `MCLsmTree` | `WorkersMatchHandle` | the checkpoint thread cannot be created: the handle is freed under the merge thread (225, 416) |
| `viol_crash_meta.cfg` | `MCLsmWorker` | `Implements` | insert, a switch whose record write fails, remove, a second such switch, a checkpoint of both chunks: a crash leaves the chunk the record lists, with the record that was removed (495) |
| `viol_one_primary.cfg` | `MCLsmTree` | `OnePrimary` | one switch: the chunk it retires is not marked `ONDISK`, and the roster has two chunks that are not on disk (489) |
| `viol_in_overwrite.cfg` | `MCSchemaProject` | `GetsWhatWasSet` | project_in of `<<c, b>>` on one group `<<a, b, c>>`: at the place of `b` the old, cleared value is read into the variable that holds the argument, and written back (`schema_project.c` 120) |
| `viol_reuse.cfg` | `MCSchemaProject` | `Implements` | project_slice of `<<c, b>>` on the groups `<<a, b>>`, `<<c, b>>`: the `REUSE` writes `b` with the type of the skipped `c` (337) |
| `viol_in_size.cfg` | `MCSchemaProject` | `KeysAndValuesArePacked` | project_in writes over a column before the end of a buffer: `size` grows by the new length, not by the difference (135) |
| `viol_unknown_op.cfg` | `MCSchemaProject` | `UnknownOpIsInvalid` | a plan that ends in an unknown operation: project_out and project_merge return 0 (their switches, which end at 212 and 462, have no default case) |

Two configurations of `MCLsmWorker` pass and are kept for the bounds they
add to the runs:

| Configuration | What it adds | States |
|---|---|---|
| `lsm_store_deep.cfg` | `Implements`, with durability, at `MaxLast = 5` and no failing call: the merges in the middle of the roster of `lsm_store` together with the marks and checkpoints of `lsm_crash`, without crashes | 1,885,135 (about 8 minutes) |
| `lsm_worker_faults.cfg` | `TypeOK` and `NcursorCountsPrimaries` of `lsm_worker` with every kind of call failing, those within `setup_chunk` included | 1,643,706 (about 3 minutes) |

### Mutants

Every property of a passing run has a mutant in `PROJECT.json`: a definition
of the model replaced by a version with a plausible bug, under which TLC
finds the property violated. The mutated versions are the definitions marked
`MUTANT` in the modules.

* `LsmTree`: a release left out or done twice, the join skipped, the
  metadata written before the chunk is set up, the id not stored in `last`,
  `dsk_gen` not incremented, the
  merge pages left out of the open check, the exclusive test dropped,
  `WORKING` not cleared.
* `LsmWorker`: a cursor closed without giving back its count, a cursor that
  binds again and leaves its count on the old primary chunk, a reclaim that
  does not ask for the generations of the cursors, old chunks tagged with
  the generation before the install, a switch that leaves `dsk_gen`, a merge
  that drops tombstones wherever it starts, a checkpoint of the tree that
  goes from the newest chunk to the oldest.
* `SchemaProject`: `REUSE` of project_in that does not move `p` behind the
  item, project_out that returns a skipped column, a failed allocation that
  is not looked at (the call returns 0 with a part of the row), the old and
  new lengths of project_slice's `REUSE` swapped.
* `OsGetline`: the newline stored with the line, an empty line returned as a
  line, the memory grown one byte late.
* `NopCompress`: `compression_failed` never cleared.
* `FormatConfig`: a number stored without the check of its range, the
  check of data source against file type left out, `config_setup` drawing
  again what has `C_PERM`, `config_file` setting its lines for one run.
* `Fops`: the last thread not joined, the update of a word without its
  carry.

## 9. Open questions

What the models could still take up, in order of what it would show:

1. `__wt_lsm_tree_worker` (669-692) walks `chunk[]` without the tree lock.
   Split into one step per chunk and composed with `MergeInstall`, the walk
   skips or repeats a chunk when an install shifts the roster under it. It
   needs the locks the callers hold, which are not in `src/`.
2. An install or a reclaim that fails half way: an I/O error is "recorded
   on background paths without stopping the worker" (section 7 of the
   specification). `LsmWorker` has the merge that fails before its install
   and the checkpoint that fails, and every failing call of `lsm_tree.c`.
   A truncate whose close or trylock fails returns with the tree stopped
   and still referenced (finding at 518): no cursor can be opened on it and
   no later truncate gets it.
3. Ordered iteration of a cursor (`next`, `prev`) over several chunks, and
   the bloom filters of merged chunks.
4. A crash within `__wt_lsm_tree_create`, and between the steps of
   `__wt_lsm_tree_rename`, in `LsmTree`.
5. A read error or a failed `__wt_buf_grow` in the middle of a line in
   `__wt_getline`: the characters read so far are taken from the stream and
   the item is not terminated. The model has both; what a caller does with
   the item is not in `src/`, and no property is stated of it.

## 10. Not modelled

* Of `test/fops/fops.c`: what the operations `obj_bulk`, `obj_create`, ...
  do (they are in another file of the test, which is not among the
  sources), and the timer.
* Of `test/format/config.c`: `config_error`, which prints the names and
  writes `CONFIG.example`; `config_print` to stdout; `g.key_cnt`; lines of
  a configuration file longer than the 256 bytes read at a time; the
  allocation of `g.uri`.
* `WT_LSM_DATA_SOURCE` (`lsm.h` 107-111): a declaration without code in
  `src/`.
* Allocation failures in `LsmTree` (`LsmWorker` has those of the open, the
  switch and the truncate; the projection layer and getline have those of
  the item buffers), statistics, verbose messages, the text of URIs and of
  configuration strings.
* The contents of bloom filters, `count` of a chunk, and the encodings of
  packed integers and strings.
