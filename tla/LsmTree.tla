------------------------------ MODULE LsmTree ------------------------------
(***************************************************************************)
(* The LSM tree handle of src/src/lsm/lsm_tree.c: the connection's list of *)
(* open trees, the roster of chunks of each tree, the metadata record that *)
(* persists it, the chunk files of the schema service, and the two worker  *)
(* threads of a tree.                                                      *)
(*                                                                         *)
(* A C function that calls other functions and may fail half way is an     *)
(* operator that yields the SET of its outcomes: the value returned and    *)
(* the state left behind.  The actions at the end pick one outcome.        *)
(* Operations run under the connection's schema lock, so one is atomic     *)
(* with respect to another; they are split where the code blocks in        *)
(* __wt_thread_join, and the worker threads and the lock-free release      *)
(* interleave with them.                                                   *)
(***************************************************************************)
EXTENDS Integers, Sequences, FiniteSets, SequencesExt

CONSTANTS
    Names,       \* tree names, the <name> of the URI "lsm:<name>"
    Configs,     \* the configurations the application passes to create
    MaxLast,     \* bound on lsm_tree->last, the last allocated chunk id
    MaxHolders,  \* bound on the references cursors hold on one tree
    WordBits,    \* the width of uint32_t, scaled down
    CacheSize,   \* S2C(session)->cache_size
    LsmMerge,    \* WT_CONN_LSM_MERGE: the connection runs merge threads
    Faults,      \* the collaborator calls that may return an error
    Dangling,    \* what lsm_tree->filename reads as once rename freed the name
    NULL,        \* a NULL pointer
    NoMeta,      \* WT_NOTFOUND from the metadata service
    Junk         \* a filename read from freed memory that is neither name

FaultKinds == {"schema", "meta", "session", "thread", "close"}

ASSUME /\ MaxLast \in Nat \ {0, 1}
       /\ MaxHolders \in Nat \ {0}
       /\ WordBits \in Nat \ {0}
       /\ CacheSize \in Nat
       /\ LsmMerge \in BOOLEAN
       /\ Faults \subseteq FaultKinds
       /\ Dangling \subseteq {"new", "old", "junk"} /\ Dangling # {}
       /\ Junk \notin Names

VARIABLES
    trees,     \* S2C(session)->lsmqh: the open handle of a name, or NULL
    meta,      \* the metadata service: the record of a name, or NoMeta
    files,     \* the schema service: the URIs of the files that exist
    thr,       \* worker_tid, ckpt_tid: the worker threads of a name
    holders,   \* the references application cursors hold on a name
    schemaOp   \* the operation that holds the schema lock in
               \* __lsm_tree_close, waiting to join the workers, or NULL

vars == <<trees, meta, files, thr, holders, schemaOp>>

-----------------------------------------------------------------------------
(* Types: lsm.h *)

Uri == [file : Names \cup {Junk}, id : 0..MaxLast, kind : {"lsm", "bf"}]

Chunk == [uri : Uri \cup {NULL}, bloom_uri : Uri \cup {NULL},
          flags : SUBSET {"ONDISK", "BLOOM"}]

BloomPolicy == SUBSET {"MERGED", "NEWEST", "OFF", "OLDEST"}

\* uint32_t
Word == 0..(2^WordBits - 1)

\* chunk_size and merge_max of the handle, and the leaf_page_max of its
\* file_config.
Sizes == [chunk_size : Word, merge_max : Word, leaf_page_max : Word]

SessionState == {"none", "open", "closed", "reclosed"}

Tree == [refcnt : 0..(MaxHolders + 1), flags : SUBSET {"WORKING", "OPEN"},
         dsk_gen : 0..(MaxLast + 1), last : 0..MaxLast,
         bloom : BloomPolicy, sizes : Sizes,
         chunk : Seq(Chunk), old_chunks : Seq(Chunk),
         worker_session : SessionState, ckpt_session : SessionState]

MetaRecord == [bloom : BloomPolicy, sizes : Sizes, last : 0..MaxLast,
               chunk : Seq(Chunk), old_chunks : Seq(Chunk)]

Threads == [merge : {"none", "run"}, ckpt : {"none", "run"}]

SchemaOp == [kind : {"drop", "rename", "truncate", "close_all"},
             tree : Names, to : Names \cup {NULL}, join : BOOLEAN]

Config == [column : BOOLEAN, bloom : BOOLEAN, newest : BOOLEAN,
           oldest : BOOLEAN, sizes : Sizes]

ASSUME Configs \subseteq Config

TypeOK ==
    /\ trees \in [Names -> Tree \cup {NULL}]
    /\ meta \in [Names -> MetaRecord \cup {NoMeta}]
    /\ files \subseteq Uri
    /\ thr \in [Names -> Threads]
    /\ holders \in [Names -> 0..MaxHolders]
    /\ schemaOp \in SchemaOp \cup {NULL}

-----------------------------------------------------------------------------
(* The state the operators work on, and what they return. *)

World == [trees |-> trees, meta |-> meta, files |-> files, thr |-> thr]

Install(w) ==
    /\ trees' = w.trees
    /\ meta' = w.meta
    /\ files' = w.files
    /\ thr' = w.thr

Ret(r, w) == [ret |-> r, w |-> w]

\* Whether a call of this kind returns an error: either, when the model
\* injects faults of the kind, and never otherwise.
MayFail(kind) == IF kind \in Faults THEN BOOLEAN ELSE {FALSE}

\* The outcomes in which a call of this kind returned an error.
Failing(kind, outcomes) == IF kind \in Faults THEN outcomes ELSE {}

\* The call at which a loop of n schema calls stops, when the schema service
\* refuses the calls in refused: the first of them, or any earlier one when
\* faults are injected; n + 1 when every call succeeds.
StopPoints(n, refused) ==
    LET first == Min(refused \cup {n + 1})
    IN  IF "schema" \in Faults THEN 1..first ELSE {first}

-----------------------------------------------------------------------------
(* Chunks *)

ChunkName(filename, i) == [file |-> filename, id |-> i, kind |-> "lsm"]

BloomName(filename, i) == [file |-> filename, id |-> i, kind |-> "bf"]

NewChunk == [uri |-> NULL, bloom_uri |-> NULL, flags |-> {}]

\* The outcomes of __wt_lsm_tree_setup_chunk on the files f: a forced drop of
\* what an aborted merge may have left under the name (never of chunk 1),
\* then the create; the chunk has its URI only when both succeeded.
SetupChunk(filename, i, chunk, create_bloom, f) ==
    LET uri     == ChunkName(filename, i)
        dropped == IF i > 1 THEN f \ {uri} ELSE f
        named   == [chunk EXCEPT
                      !.uri = uri,
                      !.bloom_uri = IF create_bloom
                                    THEN BloomName(filename, i) ELSE @]
    IN  {[ok |-> TRUE, files |-> dropped \cup {uri}, chunk |-> named]}
        \cup Failing("schema", {[ok |-> FALSE, files |-> g, chunk |-> chunk] :
                                  g \in {f, dropped}})

\* __wt_lsm_meta_write: the record of the tree under the name n.
MetaWrite(t, n, m) ==
    [m EXCEPT ![n] = [bloom |-> t.bloom, sizes |-> t.sizes, last |-> t.last,
                      chunk |-> t.chunk, old_chunks |-> t.old_chunks]]

\* __wt_lsm_meta_read into a handle fresh from calloc.
MetaRead(r) ==
    [refcnt |-> 0, flags |-> {}, dsk_gen |-> 0, last |-> r.last,
     bloom |-> r.bloom, sizes |-> r.sizes,
     chunk |-> r.chunk, old_chunks |-> r.old_chunks,
     worker_session |-> "none", ckpt_session |-> "none"]

\* __wt_lsm_merge_update_tree: the n chunks from start on move to the old
\* chunks, the one chunk takes their place, and readers are told.
MergeUpdateTree(t, start, n, chunk) ==
    [t EXCEPT
       !.old_chunks = @ \o SubSeq(t.chunk, start + 1, start + n),
       !.chunk = SubSeq(@, 1, start) \o <<chunk>>
                 \o SubSeq(@, start + n + 1, Len(@)),
       !.dsk_gen = @ + 1]

-----------------------------------------------------------------------------
(* The handle: workers, switch, open, get, release, discard *)

\* The outcomes of __lsm_tree_start_worker: two sessions, the WORKING flag,
\* then the merge thread (when the connection merges) and the checkpoint
\* thread; each call may fail and leaves what the earlier ones did.
StartWorker(t, th) ==
    LET t1  == [t EXCEPT !.worker_session = "open"]
        t2  == [t1 EXCEPT !.ckpt_session = "open",
                          !.flags = @ \cup {"WORKING"}]
        th1 == IF LsmMerge THEN [th EXCEPT !.merge = "run"] ELSE th
    IN  {[ok |-> TRUE, t |-> t2, thr |-> [th1 EXCEPT !.ckpt = "run"]]}
        \cup Failing("session", {[ok |-> FALSE, t |-> x, thr |-> th] :
                                   x \in {t, t1}})
        \cup Failing("thread", {[ok |-> FALSE, t |-> t2, thr |-> x] :
                                  x \in {th, th1}})

\* MUTANT of NewPrimary: the id is read from last and never stored.
NewPrimaryReusingId(t) == [t EXCEPT !.chunk = Append(@, NewChunk)]

\* __wt_lsm_tree_switch, first half: the id of the new chunk is taken from
\* last, and the chunk is in the roster before it is set up.
NewPrimary(t) == [t EXCEPT !.last = @ + 1, !.chunk = Append(@, NewChunk)]

\* MUTANT of SetPrimary: the generation is left as it was.
SetPrimaryKeepingGen(t, chunk) == [t EXCEPT !.chunk[Len(t.chunk)] = chunk]

\* __wt_lsm_tree_switch, second half: the chunk was set up, and the
\* generation tells the cursors.
SetPrimary(t, chunk) ==
    [t EXCEPT !.chunk[Len(t.chunk)] = chunk, !.dsk_gen = @ + 1]

\* MUTANT of Switch: the metadata is written before the chunk is set up.
SwitchWritingEarly(t, n, m, f) ==
    LET t1 == NewPrimary(t)
    IN  {[ok |-> s.ok, files |-> s.files, meta |-> MetaWrite(t1, n, m),
          t |-> IF s.ok THEN SetPrimary(t1, s.chunk) ELSE t1] :
           s \in SetupChunk(n, t1.last, NewChunk, "NEWEST" \in t.bloom, f)}

\* The outcomes of __wt_lsm_tree_switch on the tree t named n; the metadata
\* is written last, and only when the chunk was set up.
Switch(t, n, m, f) ==
    LET t1 == NewPrimary(t)
    IN  UNION {IF s.ok
               THEN {[ok |-> ~fail, t |-> SetPrimary(t1, s.chunk),
                      files |-> s.files,
                      meta |-> IF fail THEN m
                               ELSE MetaWrite(SetPrimary(t1, s.chunk), n, m)] :
                       fail \in MayFail("meta")}
               ELSE {[ok |-> FALSE, t |-> t1, files |-> s.files, meta |-> m]} :
                 s \in SetupChunk(n, t1.last, NewChunk,
                                  "NEWEST" \in t.bloom, f)}

\* __lsm_tree_discard: the handle leaves the list, if it was on it, and is
\* freed.  A handle that is not on the list is a value no state holds.
Discard(w, n) == [w EXCEPT !.trees[n] = NULL]

\* MUTANT of OpenCheck: the pages of the merge are not counted.
OpenCheckWithoutMerge(t) ==
    ~(CacheSize < (3 * t.sizes.chunk_size) % 2^WordBits)

\* __lsm_tree_open_check: three chunks and a page for each chunk of a merge
\* fit the cache.  The sum is of uint32_t operands and is taken in
\* uint32_t; the uint64_t req gets what is left of it.
OpenCheck(t) ==
    LET req == (3 * t.sizes.chunk_size
                + t.sizes.merge_max * t.sizes.leaf_page_max) % 2^WordBits
    IN  ~(CacheSize < req)

\* The outcomes of __lsm_tree_open.
Open(w, n) ==
    LET t0 == MetaRead(w.meta[n])
        Started(s) ==
            LET t1 == [s.t EXCEPT !.dsk_gen = 1, !.refcnt = 1,
                                  !.flags = @ \cup {"OPEN"}]
                w1 == [w EXCEPT !.meta = s.meta, !.files = s.files]
            IN  {IF sw.ok
                 THEN Ret("ok", [w1 EXCEPT !.trees[n] = sw.t,
                                           !.thr[n] = sw.thr])
                 ELSE Ret("error", [w1 EXCEPT !.thr[n] = sw.thr]) :
                   sw \in StartWorker(t1, w.thr[n])}
        Switched ==
            IF Len(t0.chunk) = 0 THEN Switch(t0, n, w.meta, w.files)
            ELSE {[ok |-> TRUE, t |-> t0, files |-> w.files, meta |-> w.meta]}
    IN  CASE w.trees[n] # NULL -> {Ret("ok", w)}
          [] w.trees[n] = NULL /\ w.meta[n] = NoMeta -> {Ret("notfound", w)}
          [] OTHER ->
               Failing("meta", {Ret("error", w)})
               \cup IF ~OpenCheck(t0) THEN {Ret("einval", w)}
                    ELSE UNION {IF s.ok THEN Started(s)
                                ELSE {Ret("error", [w EXCEPT
                                        !.meta = s.meta, !.files = s.files])} :
                                  s \in Switched}

\* MUTANT of Get: a tree that is in use is given to an exclusive caller.
GetSharingExclusive(w, n, exclusive) ==
    IF w.trees[n] = NULL THEN Open(w, n)
    ELSE {Ret("ok", [w EXCEPT !.trees[n].refcnt = @ + 1])}

\* The outcomes of __wt_lsm_tree_get.
Get(w, n, exclusive) ==
    CASE w.trees[n] = NULL -> Open(w, n)
      [] w.trees[n] # NULL /\ exclusive /\ w.trees[n].refcnt > 0 ->
           {Ret("ebusy", w)}
      [] OTHER -> {Ret("ok", [w EXCEPT !.trees[n].refcnt = @ + 1])}

\* MUTANT of Release: the reference is kept.
ReleaseNothing(w, n) == w

\* MUTANT of Release: the reference is given back twice.
ReleaseTwice(w, n) == [w EXCEPT !.trees[n].refcnt = @ - 2]

\* __wt_lsm_tree_release: the reference is given back.
Release(w, n) == [w EXCEPT !.trees[n].refcnt = @ - 1]

\* The bloom policy __wt_lsm_tree_create reads from the configuration.
BloomOf(cfg) ==
    (IF cfg.bloom THEN {"MERGED"} ELSE {"OFF"})
    \cup (IF cfg.newest THEN {"NEWEST"} ELSE {})
    \cup (IF cfg.oldest THEN {"OLDEST"} ELSE {})

\* The outcomes of __wt_lsm_tree_create.  A tree that can be got exists; one
\* that cannot is configured, written to the metadata and opened, and what a
\* failed create wrote is undone by the metadata tracking of the caller.
CreateTree(w, n, cfg, exclusive) ==
    LET bloom == BloomOf(cfg)
        fresh == [bloom |-> bloom, sizes |-> cfg.sizes, last |-> 0,
                  chunk |-> <<>>, old_chunks |-> <<>>]
        w1    == [w EXCEPT !.meta = MetaWrite(fresh, n, @)]
        Undo(o) == [o.w EXCEPT !.meta = w.meta, !.files = w.files]
        Made  ==
            CASE cfg.column -> {Ret("einval", w)}
              [] ~cfg.column /\ "OFF" \in bloom
                 /\ bloom \cap {"NEWEST", "OLDEST"} # {} -> {Ret("einval", w)}
              [] OTHER ->
                   Failing("meta", {Ret("error", w)})
                   \cup {IF o.ret = "ok" THEN Ret("ok", Release(o.w, n))
                         ELSE Ret(o.ret, Undo(o)) : o \in Open(w1, n)}
    IN  UNION {CASE g.ret = "ok" ->
                      {Ret(IF exclusive THEN "eexist" ELSE "ok",
                           Release(g.w, n))}
                 [] g.ret = "notfound" -> Made
                 [] OTHER -> {g} :
                   g \in Get(w, n, FALSE)}

-----------------------------------------------------------------------------
(* Close, and the operations that stop the workers first *)

\* MUTANT of CloseStart: WORKING stays set while the threads are joined.
CloseStartStillWorking(t) == t

\* __lsm_tree_close up to the joins: the workers are told to stop.
CloseStart(t) == [t EXCEPT !.flags = @ \ {"WORKING"}]

CloseSession(s) ==
    CASE s = "open" -> "closed"
      [] s = "closed" -> "reclosed"
      [] OTHER -> s

\* The outcomes of __lsm_tree_close from the joins on: both sessions are
\* closed, whatever failed on the way.
CloseRest(t) ==
    {[ok |-> ~fail, t |-> [t EXCEPT !.worker_session = CloseSession(@),
                                    !.ckpt_session = CloseSession(@)]] :
       fail \in MayFail("close")}

\* The schema calls of the two loops of __wt_lsm_tree_drop, in order.
DropCalls(t) ==
    FlattenSeq([i \in 1..(Len(t.chunk) + Len(t.old_chunks)) |->
                  LET c == (t.chunk \o t.old_chunks)[i]
                  IN  <<c.uri>> \o IF "BLOOM" \in c.flags
                                   THEN <<c.bloom_uri>> ELSE <<>>])

\* The outcomes of __wt_lsm_tree_drop once the tree is closed: the files are
\* dropped up to the first call the schema service refuses, the metadata
\* record goes when all were, and the handle is discarded in any case.
DropTree(w, n) ==
    LET calls == DropCalls(w.trees[n])
        refused == {j \in 1..Len(calls) :
                      \/ calls[j] \notin w.files
                      \/ \E k \in 1..(j - 1) : calls[k] = calls[j]}
    IN  {LET done == stop > Len(calls) /\ ~fail
         IN  Ret(IF done THEN "ok" ELSE "error",
                 Discard([w EXCEPT
                            !.files = @ \ {calls[j] : j \in 1..(stop - 1)},
                            !.meta[n] = IF done THEN NoMeta ELSE @], n)) :
           stop \in StopPoints(Len(calls), refused),
           fail \in MayFail("meta")}

\* MUTANT of FilenameAfterFree: the chunks are named after the old name.
FilenameOfOldName(old, new) == {old}

\* What lsm_tree->filename reads as in __wt_lsm_tree_rename: it points into
\* the old name, which was freed before the new one was allocated.
FilenameAfterFree(old, new) ==
    {CASE d = "new" -> new [] d = "old" -> old [] OTHER -> Junk :
       d \in Dangling}

\* The schema calls of the loop of __wt_lsm_tree_rename: chunk i of the
\* active roster goes to the name of INDEX i, and its bloom filter, when it
\* has a URI for one, is renamed to the chunk's new URI.
RenameCalls(t, fn) ==
    FlattenSeq([i \in 1..Len(t.chunk) |->
                  LET c   == t.chunk[i]
                      new == ChunkName(fn, i - 1)
                  IN  <<[from |-> c.uri, to |-> new]>>
                      \o IF c.bloom_uri # NULL
                         THEN <<[from |-> c.bloom_uri, to |-> new]>>
                         ELSE <<>>])

\* The roster the loop leaves in the handle when every call succeeded.
Renamed(t, fn) ==
    [t EXCEPT !.chunk =
       [i \in 1..Len(t.chunk) |->
          IF t.chunk[i].bloom_uri = NULL
          THEN [t.chunk[i] EXCEPT !.uri = ChunkName(fn, i - 1)]
          ELSE [t.chunk[i] EXCEPT !.uri = ChunkName(fn, i - 1),
                                  !.bloom_uri = BloomName(fn, i - 1),
                                  !.flags = @ \cup {"BLOOM"}]]]

\* The outcomes of __wt_lsm_tree_rename once the tree is closed.
RenameTree(w, n, to) ==
    UNION {
      LET t     == w.trees[n]
          calls == RenameCalls(t, fn)
          after[j \in 0..Len(calls)] ==
              IF j = 0 THEN w.files
              ELSE (after[j - 1] \ {calls[j].from}) \cup {calls[j].to}
          refused == {j \in 1..Len(calls) :
                        \/ calls[j].from \notin after[j - 1]
                        \/ calls[j].to \in after[j - 1]}
      IN  {LET done == stop > Len(calls) /\ ~wfail
               m1   == MetaWrite(Renamed(t, fn), to, w.meta)
           IN  Ret(IF done /\ ~rfail THEN "ok" ELSE "error",
                   Discard([w EXCEPT
                              !.files = after[stop - 1],
                              !.meta = IF ~done THEN @
                                       ELSE IF rfail THEN m1
                                       ELSE [m1 EXCEPT ![n] = NoMeta]], n)) :
             stop \in StopPoints(Len(calls), refused),
             wfail \in MayFail("meta"), rfail \in MayFail("meta")} :
      fn \in FilenameAfterFree(n, to)}

\* The outcomes of __wt_lsm_tree_truncate once the tree is closed: every
\* chunk becomes old, a new chunk without bloom filter takes their place,
\* and the workers start again; any failure discards the handle.
TruncateTree(w, n) ==
    LET t  == w.trees[n]
        t1 == [MergeUpdateTree(t, 0, Len(t.chunk), NewChunk)
                 EXCEPT !.last = @ + 1]
        Restart(s) ==
            LET t2 == [t1 EXCEPT !.chunk = <<s.chunk>>]
                w1 == [w EXCEPT !.files = s.files,
                                !.meta = MetaWrite(t2, n, @)]
            IN  Failing("meta", {Ret("error", Discard([w EXCEPT
                                                        !.files = s.files], n))})
                \cup {IF sw.ok
                      THEN Ret("ok", Release([w1 EXCEPT !.trees[n] = sw.t,
                                                        !.thr[n] = sw.thr], n))
                      ELSE Ret("error", Discard([w1 EXCEPT
                                                   !.thr[n] = sw.thr], n)) :
                        sw \in StartWorker(t2, w.thr[n])}
    IN  UNION {IF s.ok THEN Restart(s)
               ELSE {Ret("error", Discard([w EXCEPT !.files = s.files], n))} :
                 s \in SetupChunk(n, t1.last, NewChunk, FALSE, w.files)}

-----------------------------------------------------------------------------
(* Actions *)

Idle == schemaOp = NULL

\* The last chunk id of the tree n, open or not.
LastOf(n) ==
    IF trees[n] # NULL THEN trees[n].last
    ELSE IF meta[n] # NoMeta THEN meta[n].last ELSE 0

\* WT_SESSION::create of "lsm:n".
Create(n, cfg, exclusive) ==
    /\ Idle
    /\ \E r \in CreateTree(World, n, cfg, exclusive) : Install(r.w)
    /\ UNCHANGED <<holders, schemaOp>>

\* A cursor is opened on the tree and keeps the reference it got.
CursorOpen(n) ==
    /\ Idle
    /\ holders[n] < MaxHolders
    /\ \E g \in Get(World, n, FALSE) :
         /\ Install(g.w)
         /\ holders' = [holders EXCEPT ![n] = @ + IF g.ret = "ok" THEN 1 ELSE 0]
    /\ UNCHANGED schemaOp

\* A cursor is closed and gives its reference back; it takes no lock.
CursorClose(n) ==
    /\ holders[n] > 0
    /\ trees[n] # NULL
    /\ trees[n].refcnt > 0
    /\ Install(Release(World, n))
    /\ holders' = [holders EXCEPT ![n] = @ - 1]
    /\ UNCHANGED schemaOp

\* A cursor that filled the primary chunk switches the tree to a new one.
CursorSwitch(n) ==
    /\ Idle
    /\ holders[n] > 0
    /\ trees[n] # NULL
    /\ trees[n].last < MaxLast
    /\ \E s \in Switch(trees[n], n, meta, files) :
         Install([World EXCEPT !.trees[n] = s.t, !.meta = s.meta,
                               !.files = s.files])
    /\ UNCHANGED <<holders, schemaOp>>

\* __wt_lsm_tree_worker: the tree is got, a schema operation is run on each
\* chunk, and the tree is released.
TreeWorker(n, exclusive) ==
    /\ Idle
    /\ \E g \in Get(World, n, exclusive) :
         Install(IF g.ret = "ok" THEN Release(g.w, n) ELSE g.w)
    /\ UNCHANGED <<holders, schemaOp>>

\* Drop, rename and truncate up to the joins of __lsm_tree_close: the tree is
\* got exclusively and its workers are told to stop.
StopBegin(kind, n, to) ==
    /\ \E g \in Get(World, n, TRUE) :
         IF g.ret = "ok"
         THEN /\ Install([g.w EXCEPT !.trees[n] = CloseStart(@)])
              /\ schemaOp' = [kind |-> kind, tree |-> n, to |-> to,
                              join |-> "WORKING" \in g.w.trees[n].flags]
         ELSE Install(g.w) /\ UNCHANGED schemaOp
    /\ UNCHANGED holders

DropBegin(n) ==
    /\ Idle
    /\ StopBegin("drop", n, NULL)

\* The caller renames to a name that no tree has.
RenameBegin(n, to) ==
    /\ Idle
    /\ to # n
    /\ trees[to] = NULL
    /\ meta[to] = NoMeta
    /\ StopBegin("rename", n, to)

TruncateBegin(n) ==
    /\ Idle
    /\ LastOf(n) < MaxLast
    /\ StopBegin("truncate", n, NULL)

\* MUTANT of Stopping: the operation goes on without joining the threads.
StoppingWithoutJoin(kind) == schemaOp # NULL /\ schemaOp.kind = kind

\* The joins of __lsm_tree_close return when the threads have exited.
Stopping(kind) ==
    /\ schemaOp # NULL
    /\ schemaOp.kind = kind
    /\ schemaOp.join =>
         /\ thr[schemaOp.tree].ckpt # "run"
         /\ LsmMerge => thr[schemaOp.tree].merge # "run"

\* The rest of __lsm_tree_close for the operation in progress.
Closed ==
    LET n == schemaOp.tree
    IN  {[ok |-> c.ok, w |-> [World EXCEPT !.trees[n] = c.t]] :
           c \in CloseRest(trees[n])}

\* An operation whose close failed returns at once, with its reference.
CloseFailed(c) == {Ret("error", c.w)}

\* The operation returns with one of its outcomes.
Return(outcomes) ==
    /\ \E r \in outcomes : Install(r.w)
    /\ schemaOp' = NULL
    /\ UNCHANGED holders

DropFinish ==
    /\ Stopping("drop")
    /\ Return(UNION {IF c.ok THEN DropTree(c.w, schemaOp.tree)
                     ELSE CloseFailed(c) : c \in Closed})

RenameFinish ==
    /\ Stopping("rename")
    /\ Return(UNION {IF c.ok THEN RenameTree(c.w, schemaOp.tree, schemaOp.to)
                     ELSE CloseFailed(c) : c \in Closed})

TruncateFinish ==
    /\ Stopping("truncate")
    /\ Return(UNION {IF c.ok THEN TruncateTree(c.w, schemaOp.tree)
                     ELSE CloseFailed(c) : c \in Closed})

\* One turn of the loop of __wt_lsm_tree_close_all up to the joins: the
\* workers of a tree on the list are told to stop, if a tree is left.
CloseAllTurn(w) ==
    LET open == {m \in Names : w.trees[m] # NULL}
    IN  IF open = {} THEN {[w |-> w, op |-> NULL]}
        ELSE {[w |-> [w EXCEPT !.trees[m] = CloseStart(@)],
               op |-> [kind |-> "close_all", tree |-> m, to |-> NULL,
                       join |-> "WORKING" \in w.trees[m].flags]] :
                m \in open}

\* The connection is closed, after every cursor was.
CloseAllBegin ==
    /\ Idle
    /\ \A n \in Names : holders[n] = 0
    /\ \E n \in Names : trees[n] # NULL
    /\ \E x \in CloseAllTurn(World) : Install(x.w) /\ schemaOp' = x.op
    /\ UNCHANGED holders

\* The tree is closed and discarded, whatever its close returned, and the
\* loop goes on to the next tree.
CloseAllFinish ==
    /\ Stopping("close_all")
    /\ \E c \in Closed :
         \E x \in CloseAllTurn(Discard(c.w, schemaOp.tree)) :
           Install(x.w) /\ schemaOp' = x.op
    /\ UNCHANGED holders

\* A worker thread leaves its loop when it finds WORKING cleared.  The
\* thread of a handle that was freed reads freed memory, and may leave too.
WorkerExit(n, k) ==
    /\ thr[n][k] = "run"
    /\ trees[n] # NULL => "WORKING" \notin trees[n].flags
    /\ thr' = [thr EXCEPT ![n][k] = "none"]
    /\ UNCHANGED <<trees, meta, files, holders, schemaOp>>

-----------------------------------------------------------------------------

Init ==
    /\ trees = [n \in Names |-> NULL]
    /\ meta = [n \in Names |-> NoMeta]
    /\ files = {}
    /\ thr = [n \in Names |-> [merge |-> "none", ckpt |-> "none"]]
    /\ holders = [n \in Names |-> 0]
    /\ schemaOp = NULL

Next ==
    \/ \E n \in Names, cfg \in Configs, excl \in BOOLEAN : Create(n, cfg, excl)
    \/ \E n \in Names : CursorOpen(n)
    \/ \E n \in Names : CursorClose(n)
    \/ \E n \in Names : CursorSwitch(n)
    \/ \E n \in Names, excl \in BOOLEAN : TreeWorker(n, excl)
    \/ \E n \in Names : DropBegin(n)
    \/ DropFinish
    \/ \E n, to \in Names : RenameBegin(n, to)
    \/ RenameFinish
    \/ \E n \in Names : TruncateBegin(n)
    \/ TruncateFinish
    \/ CloseAllBegin
    \/ CloseAllFinish
    \/ \E n \in Names, k \in {"merge", "ckpt"} : WorkerExit(n, k)

Spec == Init /\ [][Next]_vars

\* The threads run, and the thread that holds the schema lock goes on when
\* its joins return.
Fairness ==
    /\ \A n \in Names, k \in {"merge", "ckpt"} : WF_vars(WorkerExit(n, k))
    /\ WF_vars(DropFinish)
    /\ WF_vars(RenameFinish)
    /\ WF_vars(TruncateFinish)
    /\ WF_vars(CloseAllFinish)

FairSpec == Spec /\ Fairness

-----------------------------------------------------------------------------
(* Properties *)

\* The reference the operation in progress holds on the tree n.
OpRef(n) ==
    IF schemaOp # NULL /\ schemaOp.kind # "close_all" /\ schemaOp.tree = n
    THEN 1 ELSE 0

Roster(r) == <<r.chunk, r.old_chunks>>

\* Every reference is accounted for: the refcnt of an open tree is the
\* number of cursors open on it, plus one while a drop, rename or truncate
\* is at work on it.  __wt_lsm_tree_create, __wt_lsm_tree_worker and
\* __wt_lsm_tree_truncate give back what __wt_lsm_tree_get gave them, so a
\* later exclusive get is refused exactly when a cursor is open.
RefcntIsHolders ==
    \A n \in Names :
        trees[n] # NULL => trees[n].refcnt = holders[n] + OpRef(n)

\* A cursor never outlives its tree: while a cursor is open on a name the
\* handle is on the list with at least that many references, and no drop,
\* rename or truncate is at work on it.  This is what the EBUSY of an
\* exclusive __wt_lsm_tree_get and the discards of the error paths have to
\* guarantee, whatever fails.
HoldersHaveHandle ==
    \A n \in Names :
        holders[n] > 0 =>
            /\ trees[n] # NULL
            /\ trees[n].refcnt >= holders[n]
            /\ OpRef(n) = 0

\* The workers and the handle agree: a tree that no operation is stopping
\* has WORKING set, both sessions open and its threads running, no thread
\* runs on a name whose handle was freed, and no session is closed twice.
\* __lsm_tree_close joins before __lsm_tree_discard frees, and
\* __wt_lsm_tree_truncate restarts what it stopped.
WorkersMatchHandle ==
    \A n \in Names :
        /\ trees[n] = NULL => thr[n].merge # "run" /\ thr[n].ckpt # "run"
        /\ trees[n] # NULL =>
             /\ "reclosed" \notin {trees[n].worker_session,
                                   trees[n].ckpt_session}
             /\ (schemaOp = NULL \/ schemaOp.tree # n) =>
                  /\ "WORKING" \in trees[n].flags
                  /\ trees[n].worker_session = "open"
                  /\ trees[n].ckpt_session = "open"
                  /\ thr[n].ckpt = "run"
                  /\ LsmMerge => thr[n].merge = "run"

\* What a restart would read is what the handle holds: the metadata record
\* of an open tree lists the chunks, the old chunks and the last chunk id of
\* its handle.  __wt_lsm_tree_switch and __wt_lsm_tree_truncate write the
\* record in the step that changes the roster.
MetaMatchesRoster ==
    \A n \in Names :
        trees[n] # NULL =>
            /\ meta[n] # NoMeta
            /\ Roster(meta[n]) = Roster(trees[n])
            /\ meta[n].last = trees[n].last

\* The chunks of a tree are in the order of their ids, and the next id is
\* not one of them: in every metadata record the ids of the active chunks
\* increase strictly and none is above last.  __wt_lsm_tree_switch and
\* __wt_lsm_tree_truncate take the id from last, and __wt_lsm_tree_rename
\* renumbers the chunks by their place.
ActiveIdsIncrease ==
    \A n \in Names :
        meta[n] # NoMeta =>
            LET c == meta[n].chunk
            IN  /\ \A i \in 1..Len(c) : c[i].uri # NULL /\ c[i].uri.id <= meta[n].last
                /\ \A i, j \in 1..Len(c) : i < j => c[i].uri.id < c[j].uri.id

\* Cursors can tell that the roster changed: a step that changes the chunks
\* or the old chunks of a handle that stays open increases its dsk_gen.
\* __wt_lsm_tree_switch appends the chunk before it sets it up and
\* increments dsk_gen after.
DskGenMoves ==
    \A n \in Names :
        /\ trees[n] # NULL
        /\ trees'[n] # NULL
        /\ Roster(trees'[n]) # Roster(trees[n])
        => trees'[n].dsk_gen > trees[n].dsk_gen

DskGenMonotonic == [][DskGenMoves]_vars

\* The cache holds what an open tree needs: "three chunks, plus one page
\* for each participant in a merge" (__lsm_tree_open_check), whatever sizes
\* the tree was created with or its record was read with.
OpenTreesFitCache ==
    \A n \in Names :
        trees[n] # NULL =>
            3 * trees[n].sizes.chunk_size
              + trees[n].sizes.merge_max * trees[n].sizes.leaf_page_max
                <= CacheSize

\* The active chunks a metadata record lists exist: a tree that can be
\* opened can be read.  __wt_lsm_tree_drop and __wt_lsm_tree_rename change
\* the record only after every file was dropped or renamed, and every other
\* operation creates the file before it writes the record.
MetaFilesExist ==
    \A n \in Names :
        meta[n] # NoMeta =>
            \A i \in 1..Len(meta[n].chunk) : meta[n].chunk[i].uri \in files

\* The active chunks of a tree carry its name: __wt_lsm_tree_rename names
\* each of them after lsm_tree->filename, which has to read as the new name.
ActiveChunksCarryTreeName ==
    \A n \in Names :
        meta[n] # NoMeta =>
            \A i \in 1..Len(meta[n].chunk) : meta[n].chunk[i].uri.file = n

\* After a rename every chunk of the tree carries the name of the tree: the
\* chunks of the record of n, active and old, are files of n.
ChunksCarryTreeName ==
    \A n \in Names :
        meta[n] # NoMeta =>
            \A i \in 1..(Len(meta[n].chunk) + Len(meta[n].old_chunks)) :
                LET c == (meta[n].chunk \o meta[n].old_chunks)[i]
                IN  c.uri # NULL => c.uri.file = n

\* A rename keeps the id of every chunk: the record written under the new
\* name lists, place by place, the ids the handle had.  The id is the one
\* __wt_lsm_tree_switch allocated and is never used again, so
\* __wt_lsm_tree_rename has to build the new URI from it.
RenameKeepsIds ==
    schemaOp # NULL /\ schemaOp.kind = "rename" /\ meta'[schemaOp.to] # NoMeta
    => LET old == trees[schemaOp.tree].chunk
           new == meta'[schemaOp.to].chunk
       IN  \A i \in 1..Len(old) : new[i].uri.id = old[i].uri.id

ChunkIdsSurviveRename == [][RenameKeepsIds]_vars

\* "At most one entry in active has ON_DISK clear; if present it is
\* active[n-1]" (specification, section 3): the chunk a switch retires is
\* on disk.  __wt_lsm_tree_switch appends the new chunk and leaves the
\* flags of the one before it as they were.
OnePrimary ==
    \A n \in Names :
        trees[n] # NULL =>
            \A i \in 1..(Len(trees[n].chunk) - 1) :
                "ONDISK" \in trees[n].chunk[i].flags

\* A drop, rename, truncate or close that waits for the workers goes on:
\* __lsm_tree_close clears WORKING before it joins, and the workers leave
\* their loops when they see it cleared.
StopCompletes == (schemaOp # NULL) ~> (schemaOp = NULL)

=============================================================================
