--------------------------- MODULE SchemaProject ---------------------------
(***************************************************************************)
(* The projection layer of src/schema/schema_project.c: four interpreters  *)
(* of a projection plan that move packed columns between the application   *)
(* and the cursors on the column groups of a table.                        *)
(*                                                                         *)
(*   __wt_schema_project_in     the application's arguments into cursors   *)
(*   __wt_schema_project_out    the cursors' columns to the application    *)
(*   __wt_schema_project_slice  the columns of a packed buffer into cursors*)
(*   __wt_schema_project_merge  the cursors' columns into a packed buffer  *)
(*                                                                         *)
(* Each function is an operator from the cursors and the plan to the state *)
(* its walk ends in: a fold of one step per plan operation over a record   *)
(* of the function's local variables.  A step of the module is one call.   *)
(* The cursors belong to one session, so calls do not interleave.          *)
(***************************************************************************)
EXTENDS Packing, SchemaPlan, FiniteSets

CONSTANTS
    Tables,         \* the tables a behaviour may be about
    Projections,    \* the column lists callers project
    InCalls,        \* the <<table, projection>> pairs project_in is called with
    Damaged,        \* whether the plans end in an operation nobody knows
    MaxFail,        \* the allocations of a call up to which one may fail
    Fresh,          \* whether no call was made on the cursors yet
    Garbled         \* what bytes that are no packed column stand for

ASSUME /\ \A t \in Tables : IsTable(t)
       /\ Projections \subseteq Seq(Columns)
       /\ InCalls \subseteq Tables \X Projections
       /\ Damaged \in BOOLEAN
       /\ MaxFail \in Nat
       /\ Fresh \in BOOLEAN

VARIABLES
    table,  \* the table the cursors are open on
    cp,     \* cp[g]: the cursor on column group g
    last    \* the last call: its arguments and what it returned

vars == <<table, cp, last>>

-----------------------------------------------------------------------------
(* Cursors *)

\* WT_CURSOR, as far as the projection layer uses it.
Cursor == [key_format : Seq(ColumnTypes), value_format : Seq(ColumnTypes),
           key : Buffer, value : Buffer, recno : Values]

\* WT_CURSOR_RECNO
CursorRecno(c) == c.key_format = <<"r">>

Recno(c) == [type |-> "R", u |-> c.recno]

\* The bytes behind the data pointer of a cursor's key or value.
Data(c, which) == IF c[which].ext THEN PackWrite(Recno(c)) ELSE c[which].mem

\* The cursor after its key or value was written through the data pointer:
\* into the item's memory, or over the cursor's recno.
Store(c, which, data, size) ==
    IF c[which].ext
    THEN [c EXCEPT !.recno = IF data[1] \in PackValue THEN data[1].u ELSE @,
                   ![which].size = size]
    ELSE [c EXCEPT ![which].mem = data, ![which].size = size]

\* Whether data of this size is within what the data pointer points at.
Fits(c, which, size) == c[which].ext => size <= RecnoSize

\* A call: the function, its arguments, and what it gave back.
Call == [op : {"none", "in", "out", "slice", "merge"},
         proj : Seq(Columns), args : Seq(Values), key_only : BOOLEAN,
         ret : {"ok", "notfound", "einval", "enomem"},
         out : Seq(Values), value : Seq(Cell), clean : BOOLEAN]

TypeOK ==
    /\ table \in Tables
    /\ cp \in [DOMAIN table.groups -> Cursor]
    /\ last \in Call

-----------------------------------------------------------------------------
(* What the four walks share *)

\* The local variables of a walk, before its first step.
Walk(cursors, ap, vformat, value) ==
    [cp |-> cursors, c |-> 0, which |-> "key", data |-> <<>>,
     p |-> 0, end |-> 0, pack |-> <<>>, pv |-> [type |-> "i", u |-> Zero],
     ap |-> ap, out |-> <<>>, skip |-> FALSE,
     vpack |-> vformat, vpv |-> [type |-> "i", u |-> Zero],
     value |-> value, vp |-> 0, failed |-> <<>>,
     ret |-> "ok", clean |-> TRUE]

Fail(s, error) == [s EXCEPT !.ret = error]

\* MUTANT of Alloc: the result of the allocation is not looked at, and the
\* call whose allocation failed returns as if it had run to here and ended.
AllocUnchecked(s) ==
    [s EXCEPT !.failed = Append(@, [s EXCEPT !.failed = <<>>])]

\* An allocation of the walk.  It may fail, and the walk then returns as
\* it is: the walk that goes on keeps that one, for the caller to whom it
\* happens.
Alloc(s) ==
    [s EXCEPT !.failed = Append(@, [Fail(s, "enomem") EXCEPT !.failed = <<>>])]

\* __wt_buf_grow(buf, n): memory is allocated where the item has less.
Grow(s, n) ==
    IF n <= s.cp[s.c][s.which].memsize THEN s
    ELSE [Alloc(s) EXCEPT !.cp[s.c][s.which].memsize = MemSize(n)]

\* What a call may come to: the end of its walk, or the failure of one of
\* its first MaxFail allocations.
Outcomes(s) == {s} \cup {s.failed[i] : i \in DOMAIN s.failed \cap 1 .. MaxFail}

\* The steps of a plan, as the walks take them: a "k" or "v" once, any other
\* operation as often as its count says, where a missing count means a
\* count of 1.  The walks below are given a plan by its steps.
Steps(plan) ==
    FlattenSeq([i \in DOMAIN plan |->
        IF plan[i].op \in {"k", "v"} THEN <<plan[i]>>
        ELSE [j \in 1 .. (IF plan[i].arg = 0 THEN 1 ELSE plan[i].arg)
                |-> plan[i]]])

\* The first loop: every key and value the plan switches to is emptied
\* (the values only when asked).
Reset(cursors, plan, values) ==
    LET Named(g, op) == \E i \in DOMAIN plan : plan[i] = [arg |-> g, op |-> op]
    IN  [g \in DOMAIN cursors |->
            [cursors[g] EXCEPT
                !.key = IF Named(g, "k") THEN BufInit(@) ELSE @,
                !.value = IF values /\ Named(g, "v") THEN BufInit(@) ELSE @]]

\* WT_PROJ_KEY and WT_PROJ_VALUE: the walk moves to the start of a cursor's
\* key or value.  The key of a column store is the cursor's recno.
Select(s, op) ==
    LET c     == s.cp[op.arg]
        recno == op.op = "k" /\ CursorRecno(c)
        c1    == IF recno
                 THEN [c EXCEPT !.key.ext = TRUE, !.key.size = RecnoSize]
                 ELSE c
        which == IF op.op = "k" THEN "key" ELSE "value"
    IN  [s EXCEPT !.cp[op.arg] = c1, !.c = op.arg, !.which = which,
                  !.pack = IF recno THEN <<"R">>
                           ELSE IF op.op = "k" THEN c.key_format
                           ELSE c.value_format,
                  !.p = 0, !.end = c1[which].size]

\* memmove and __pack_write: the item takes the place of the old_len bytes
\* at p, and the bytes after them, up to size, move behind it.  The buffer
\* has n bytes.
Splice(data, size, p, old_len, item, n) ==
    LET len  == Len(item)
        room == BufGrow(data, n)
    IN  [i \in 1 .. n |->
            LET d == i - 1
            IN  IF d \in p .. p + len - 1 THEN item[d - p + 1]
                ELSE IF d \in p + len .. size + len - old_len - 1
                     THEN At(data, d - len + old_len)
                ELSE At(room, d)]

\* WT_PROJ_SKIP where values are written: the walk passes one column.  At
\* the end of the data it appends a cleared value, to keep the buffer in its
\* format while columns arrive out of order.
Skip(s) ==
    LET c    == s.cp[s.c]
        size == c[s.which].size
        next == PackNext(s.pack)
        zero == [type |-> next.type, u |-> Zero]
        new  == size + PackSize(zero)
        read == UnpackRead(next.type, Data(c, s.which), s.p, s.end - s.p)
        g    == Grow(s, new)
    IN  IF ~next.ok THEN Fail(s, "notfound")
        ELSE IF s.p = s.end
        THEN [g EXCEPT
                !.cp[s.c] = Store(@, s.which, Splice(Data(c, s.which), size,
                                      size, 0, PackWrite(zero), new), new),
                !.pack = next.pack, !.pv = zero, !.p = new, !.end = new,
                !.clean = @ /\ Fits(c, s.which, new)]
        ELSE IF ~read.ok THEN Fail(s, "einval")
        ELSE [s EXCEPT !.pack = next.pack,
                       !.pv = [type |-> next.type, u |-> read.u],
                       !.p = @ + read.len, !.clean = @ /\ read.clean]

-----------------------------------------------------------------------------
(* __wt_schema_project_in *)

\* MUTANT of InReuse: the walk leaves p where the value was written.
InReuseNotAdvancing(s) ==
    LET c    == s.cp[s.c]
        size == c[s.which].size + PackSize(s.pv)
    IN  [s EXCEPT !.cp[s.c] = Store(c, s.which, Splice(Data(c, s.which),
                      c[s.which].size, s.p, 0, PackWrite(s.pv), size), size),
                  !.end = size]

\* WT_PROJ_REUSE, and the second half of WT_PROJ_NEXT: the value in pv is
\* written at p.  The item at p, where there is one, is read first, into
\* pv, and it is what is then written; the buffer grows by the whole length
\* of what is written.
InReuse(s) ==
    LET c       == s.cp[s.c]
        data    == Data(c, s.which)
        reads   == s.p < s.end
        old     == UnpackRead(s.pv.type, data, s.p, s.end - s.p)
        pv      == IF reads THEN [s.pv EXCEPT !.u = old.u] ELSE s.pv
        old_len == IF reads THEN old.len ELSE 0
        len     == PackSize(pv)
        size    == c[s.which].size + len
        g       == Grow(s, size)
    IN  IF reads /\ ~old.ok THEN Fail(s, "einval")
        ELSE [g EXCEPT
                !.cp[s.c] = Store(@, s.which, Splice(data, c[s.which].size,
                                s.p, old_len, PackWrite(pv), size), size),
                !.pv = pv, !.p = @ + len, !.end = size,
                !.clean = @ /\ (reads => old.clean) /\ Fits(c, s.which, size)]

\* WT_PROJ_NEXT: the next argument of the application is packed with the
\* next type of the format, and written.
InNext(s) ==
    LET next == PackNext(s.pack)
    IN  IF ~next.ok THEN Fail(s, "notfound")
        ELSE InReuse([s EXCEPT !.pack = next.pack, !.ap = Tail(@),
                               !.pv = [type |-> next.type, u |-> Head(s.ap)]])

\* One turn of the second loop.
InStep(s, op) ==
    IF s.ret # "ok" THEN s
    ELSE CASE op.op \in {"k", "v"} -> Select(s, op)
           [] op.op = "s" -> Skip(s)
           [] op.op = "n" -> InNext(s)
           [] op.op = "r" -> InReuse(s)
           [] OTHER -> Fail(s, "einval")

ProjectIn(cursors, plan, ap) ==
    FoldLeft(InStep, Walk(Reset(cursors, plan, TRUE), ap, <<>>, <<>>), plan)

-----------------------------------------------------------------------------
(* __wt_schema_project_out *)

\* WT_PROJ_KEY and WT_PROJ_VALUE: p and end are taken from the key before
\* the key of a column store is pointed at the recno.
OutSelect(s, op) ==
    LET which == IF op.op = "k" THEN "key" ELSE "value"
        c     == s.cp[op.arg]
    IN  [Select(s, op) EXCEPT !.data = Data(c, which), !.end = c[which].size]

\* MUTANT of OutStep: a skipped column is handed to the application too.
OutStepReturningSkipped(s, op) ==
    IF s.ret # "ok" \/ op.op \notin {"k", "v", "n", "s"} THEN s
    ELSE IF op.op \in {"k", "v"} THEN OutSelect(s, op)
    ELSE LET read == UnpackRead(Head(s.pack), s.data, s.p, s.end - s.p)
         IN  [s EXCEPT !.pack = Tail(@), !.p = @ + read.len,
                       !.out = Append(@, read.u)]

\* One turn of the loop: a column is read, and handed to the application
\* unless it is skipped; a reused column was handed over before.
OutStep(s, op) ==
    LET next == PackNext(s.pack)
        read == UnpackRead(next.type, s.data, s.p, s.end - s.p)
    IN  IF s.ret # "ok" \/ op.op \notin {"k", "v", "n", "s"} THEN s
        ELSE IF op.op \in {"k", "v"} THEN OutSelect(s, op)
        ELSE IF ~next.ok THEN Fail(s, "notfound")
        ELSE IF ~read.ok THEN Fail(s, "einval")
        ELSE [s EXCEPT !.pack = next.pack,
                       !.pv = [type |-> next.type, u |-> read.u],
                       !.p = @ + read.len, !.clean = @ /\ read.clean,
                       !.out = IF op.op = "n" THEN Append(@, read.u) ELSE @]

ProjectOut(cursors, plan) ==
    FoldLeft(OutStep, Walk(cursors, <<>>, <<>>, <<>>), plan)

-----------------------------------------------------------------------------
(* __wt_schema_project_slice *)

\* WT_PROJ_KEY and WT_PROJ_VALUE: with key_only, values are passed over.
SliceSelect(s, op, key_only) ==
    IF op.op = "v" /\ key_only THEN [s EXCEPT !.skip = TRUE]
    ELSE [Select(s, op) EXCEPT !.skip = FALSE]

\* WT_PROJ_SKIP
SliceSkip(s) == IF s.skip THEN s ELSE Skip(s)

\* MUTANT of SliceReuse: the two lengths change places in the new size.
SliceReuseSwappingLengths(s) ==
    LET c       == s.cp[s.c]
        old_len == IF s.p < s.end
                   THEN UnpackRead(s.pv.type, Data(c, s.which), s.p,
                                   s.end - s.p).len
                   ELSE 0
        pv      == [s.pv EXCEPT !.u = s.vpv.u]
        size    == c[s.which].size + old_len - PackSize(pv)
    IN  IF s.skip THEN s
        ELSE [s EXCEPT
                !.cp[s.c] = Store(c, s.which, Splice(Data(c, s.which),
                                c[s.which].size, s.p, old_len,
                                PackWrite(pv), size), size),
                !.pv = pv, !.p = @ + PackSize(pv), !.end = size]

\* WT_PROJ_REUSE, and the second half of WT_PROJ_NEXT: the value read from
\* the buffer is written at p, over the item that is there, with the type
\* of the cursor's format.
SliceReuse(s) ==
    LET c       == s.cp[s.c]
        data    == Data(c, s.which)
        reads   == s.p < s.end
        old     == UnpackRead(s.pv.type, data, s.p, s.end - s.p)
        old_len == IF reads THEN old.len ELSE 0
        pv      == [s.pv EXCEPT !.u = s.vpv.u]
        len     == PackSize(pv)
        size    == c[s.which].size + len - old_len
        g       == Grow(s, size)
    IN  IF s.skip THEN s
        ELSE IF reads /\ ~old.ok THEN Fail(s, "einval")
        ELSE [g EXCEPT
                !.cp[s.c] = Store(@, s.which, Splice(data, c[s.which].size,
                                s.p, old_len, PackWrite(pv), size), size),
                !.pv = pv, !.p = @ + len, !.end = size,
                !.clean = @ /\ (reads => old.clean) /\ Fits(c, s.which, size)]

\* WT_PROJ_NEXT: the next type of the cursor's format, unless values are
\* passed over, and the next column of the buffer.
SliceNext(s) ==
    LET next  == PackNext(s.pack)
        vnext == PackNext(s.vpack)
        vread == UnpackRead(vnext.type, s.value, s.vp, Len(s.value) - s.vp)
    IN  IF ~s.skip /\ ~next.ok THEN Fail(s, "notfound")
        ELSE IF ~vnext.ok THEN Fail(s, "notfound")
        ELSE IF ~vread.ok THEN Fail(s, "einval")
        ELSE SliceReuse(
                [s EXCEPT !.pack = IF s.skip THEN @ ELSE next.pack,
                          !.pv.type = IF s.skip THEN @ ELSE next.type,
                          !.vpack = vnext.pack, !.vp = @ + vread.len,
                          !.vpv = [type |-> vnext.type, u |-> vread.u],
                          !.clean = @ /\ vread.clean])

\* One turn of the second loop.
SliceStep(s, op, key_only) ==
    IF s.ret # "ok" THEN s
    ELSE CASE op.op \in {"k", "v"} -> SliceSelect(s, op, key_only)
           [] op.op = "s" -> SliceSkip(s)
           [] op.op = "n" -> SliceNext(s)
           [] op.op = "r" -> SliceReuse(s)
           [] OTHER -> Fail(s, "einval")

ProjectSlice(cursors, plan, key_only, vformat, value) ==
    LET Step(s, op) == SliceStep(s, op, key_only)
    IN  FoldLeft(Step,
                 [Walk(Reset(cursors, plan, ~key_only), <<>>, vformat, value)
                    EXCEPT !.skip = key_only],
                 plan)

-----------------------------------------------------------------------------
(* __wt_schema_project_merge *)

\* One turn of the loop: a column is read, and, unless it is skipped,
\* appended to the buffer with the next type of the buffer's format.  The
\* buffer is the caller's item, of whose memory nothing is known: any
\* growth of it may be an allocation.
MergeStep(s, op) ==
    LET c     == s.cp[s.c]
        next  == PackNext(s.pack)
        read  == UnpackRead(next.type, Data(c, s.which), s.p, s.end - s.p)
        vnext == PackNext(s.vpack)
        vpv   == [type |-> vnext.type, u |-> read.u]
    IN  IF s.ret # "ok" \/ op.op \notin {"k", "v", "n", "s"} THEN s
        ELSE IF op.op \in {"k", "v"} THEN Select(s, op)
        ELSE IF ~next.ok THEN Fail(s, "notfound")
        ELSE IF ~read.ok THEN Fail(s, "einval")
        ELSE IF op.op = "s"
        THEN [s EXCEPT !.pack = next.pack, !.p = @ + read.len,
                       !.pv = [type |-> next.type, u |-> read.u],
                       !.clean = @ /\ read.clean]
        ELSE IF ~vnext.ok THEN Fail(s, "notfound")
        ELSE [Alloc(s) EXCEPT
                       !.pack = next.pack, !.p = @ + read.len,
                       !.pv = [type |-> next.type, u |-> read.u],
                       !.clean = @ /\ read.clean,
                       !.vpack = vnext.pack, !.vpv = vpv,
                       !.value = @ \o PackWrite(vpv)]

ProjectMerge(cursors, plan, vformat) ==
    FoldLeft(MergeStep, Walk(cursors, <<>>, vformat, <<>>), plan)

-----------------------------------------------------------------------------
(* Calls *)

\* The cursors of a table, as a caller has them: with nothing in their keys
\* and values when they are fresh, and else, after an earlier call, with
\* the key of a column store at its record number.
Opened(t, r) ==
    [g \in DOMAIN t.groups |->
        LET c == [key_format |-> Format(t.key),
                  value_format |-> Format(t.groups[g]),
                  key |-> [mem |-> <<>>, memsize |-> 0, size |-> 0,
                           ext |-> FALSE],
                  value |-> [mem |-> <<>>, memsize |-> 0, size |-> 0,
                             ext |-> FALSE],
                  recno |-> r]
        IN  IF CursorRecno(c) /\ ~Fresh
            THEN [c EXCEPT !.key.ext = TRUE, !.key.size = RecnoSize]
            ELSE c]

\* The projections of a table's columns, and the steps of their plans.
StepsOf ==
    [t \in Tables |->
        [proj \in {q \in Projections :
                     \A i \in DOMAIN q : Places(t, q[i]) # <<>>}
            |-> Steps(Plan(t, proj))
                    \o (IF Damaged THEN <<[arg |-> 0, op |-> "?"]>> ELSE <<>>)]]

TableProjections == DOMAIN StepsOf[table]

\* The places the projections visit in each table.
VisitsOf == [t \in Tables |-> [proj \in Projections |-> Visits(t, proj)]]

\* The values of the columns of a projection.
Row(proj) == [DOMAIN proj -> Values]

Rows == UNION {Row(proj) : proj \in Projections}

\* The packed form of a row, in the format of its projection.
Packed(proj, row) ==
    FlattenSeq([i \in DOMAIN proj |->
                    PackWrite([type |-> TypeOf[proj[i]], u |-> row[i]])])

Returned(s, op, proj, args, key_only) ==
    [op |-> op, proj |-> proj, args |-> args, key_only |-> key_only,
     ret |-> s.ret, out |-> s.out, value |-> s.value, clean |-> s.clean]

\* The application sets the columns of a projection.
In(proj, args) ==
    /\ proj \in TableProjections
    /\ <<table, proj>> \in InCalls
    /\ args \in Row(proj)
    /\ \E s \in Outcomes(ProjectIn(cp, StepsOf[table][proj], args)) :
            /\ cp' = s.cp
            /\ last' = Returned(s, "in", proj, args, FALSE)
    /\ UNCHANGED table

\* The application gets the columns of a projection.
Out(proj) ==
    /\ proj \in TableProjections
    /\ LET s == ProjectOut(cp, StepsOf[table][proj])
       IN  /\ cp' = s.cp
           /\ last' = Returned(s, "out", proj, <<>>, FALSE)
    /\ UNCHANGED table

\* The columns of a packed buffer are set in the cursors: all of them, or
\* those of the keys.
Slice(proj, args, key_only) ==
    /\ proj \in TableProjections
    /\ args \in Row(proj)
    /\ \E s \in Outcomes(ProjectSlice(cp, StepsOf[table][proj], key_only,
                                       Format(proj), Packed(proj, args))) :
            /\ cp' = s.cp
            /\ last' = Returned(s, "slice", proj, args, key_only)
    /\ UNCHANGED table

\* The columns of a projection are packed into a buffer.
Merge(proj) ==
    /\ proj \in TableProjections
    /\ \E s \in Outcomes(ProjectMerge(cp, StepsOf[table][proj],
                                       Format(proj))) :
            /\ cp' = s.cp
            /\ last' = Returned(s, "merge", proj, <<>>, FALSE)
    /\ UNCHANGED table

Init ==
    /\ table \in Tables
    /\ \E r \in Values : cp = Opened(table, r)
    /\ last = [op |-> "none", proj |-> <<>>, args |-> <<>>,
               key_only |-> FALSE, ret |-> "ok", out |-> <<>>,
               value |-> <<>>, clean |-> TRUE]

Next ==
    \/ \E proj \in Projections, args \in Rows : In(proj, args)
    \/ \E proj \in Projections : Out(proj)
    \/ \E proj \in Projections, args \in Rows, key_only \in BOOLEAN :
            Slice(proj, args, key_only)
    \/ \E proj \in Projections : Merge(proj)

Spec == Init /\ [][Next]_vars

-----------------------------------------------------------------------------
(* The columns behind the bytes *)

\* The first size bytes of a string are packed values and nothing else:
\* each is a value, with the padding of its size behind it, or padding of
\* a value before it.
WellPacked(data, size) ==
    \A i \in 1 .. size :
        LET cell == At(data, i - 1)
        IN  IF cell \in PackValue
            THEN \A j \in i + 1 .. i + PackSize(cell) - 1 :
                    j <= size /\ At(data, j - 1) = Pad
            ELSE /\ cell = Pad
                 /\ \E h \in 1 .. i - 1 :
                        /\ At(data, h - 1) \in PackValue
                        /\ i < h + PackSize(At(data, h - 1))

\* The values packed in the first size bytes of a string, in a format; a
\* string that holds anything but values of the format's types is garbled.
Unpacked(data, size, format) ==
    LET items == SelectSeq([i \in 1 .. size |-> At(data, i - 1)],
                           LAMBDA x : x \in PackValue)
    IN  IF /\ WellPacked(data, size)
           /\ Len(items) <= Len(format)
           /\ \A i \in DOMAIN items : items[i].type = format[i]
        THEN [i \in DOMAIN items |-> items[i].u]
        ELSE <<Garbled>>

\* The columns a cursor holds in its key or value.
Columned(c, kind) ==
    IF kind = "k"
    THEN Unpacked(Data(c, "key"), c.key.size,
                  IF CursorRecno(c) THEN <<"R">> ELSE c.key_format)
    ELSE Unpacked(Data(c, "value"), c.value.size, c.value_format)

\* The last call, and what it gave back: project_merge gives back columns
\* as the packed buffer it filled.
TheCall ==
    [op |-> last.op, proj |-> last.proj, args |-> last.args,
     key_only |-> last.key_only]

TheResult ==
    [ret |-> last.ret,
     out |-> IF last.op = "merge"
             THEN Unpacked(last.value, Len(last.value), Format(last.proj))
             ELSE last.out]

Abstract ==
    INSTANCE Projection WITH
        row <- [g \in DOMAIN cp |-> [kind \in {"k", "v"} |->
                    Columned(cp[g], kind)]],
        call <- TheCall,
        result <- TheResult

\* Every call does to the columns of the cursors, and reports of them, what
\* the projection it was given says: project_in and project_slice set the
\* columns it names and clear the ones they pass, project_out and
\* project_merge report them, whatever the order of the columns in the
\* projection and in the column groups, and whatever the cursors' buffers
\* held before.  Each step of a behaviour is the step Abstract!Next takes
\* for the call that was made.
Implements == Abstract!Init /\ [][Abstract!Do(TheCall')]_(Abstract!vars)

\* What project_in or project_slice put into the cursors, project_out and
\* project_merge get out of them: a call of one of the first two that set
\* values, followed by one of the others with the same projection, gives
\* back the arguments of the first, in the order of the projection's
\* columns, however the plan moved between the cursors and skipped within
\* them, unless the second call runs out of memory.
GetsWhatWasSet ==
    [][(/\ last.op \in {"in", "slice"} /\ ~last.key_only /\ last.ret = "ok"
        /\ last'.op \in {"out", "merge"} /\ last'.proj = last.proj
        /\ last'.ret # "enomem")
            => TheResult' = [ret |-> "ok", out |-> last.args]]_vars

\* The key and the value of every cursor are the packed columns of their
\* formats and nothing else: size counts the bytes that __pack_write put
\* there, also after a value was written over one of another length in
\* the middle of the buffer ("make room if we're inserting out-of-order").
KeysAndValuesArePacked ==
    \A g \in DOMAIN cp : \A kind \in {"k", "v"} :
        Columned(cp[g], kind) # <<Garbled>>

\* A plan with an operation that is none of the five fails with EINVAL,
\* in each of the four functions.
UnknownOpIsInvalid == (Damaged /\ last.op # "none") => last.ret # "ok"

\* project_out gives the record number of a column store for its key
\* column, as the other three functions take it: from the cursor's recno.
OutGetsRecno ==
    [][(/\ last'.op = "out"
        /\ CursorRecno(cp[1])
        /\ TypeOf[Head(last'.proj)] = "r")
            => last'.out # <<>> /\ Head(last'.out) = cp[1].recno]_vars

\* No call decodes bytes that no __pack_write put where it reads, or that
\* are of another type than the one it reads, and none writes past the
\* recno of a cursor: the offsets p and end of a walk stay within the
\* packed values of the buffer it walks.
ReadsWhatWasPacked == last.clean

=============================================================================
