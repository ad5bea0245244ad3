------------------------------ MODULE OsGetline ------------------------------
(***************************************************************************)
(* __wt_getline of src/os_posix/os_getline.c: a line of a stream is read   *)
(* into an item that the caller keeps from call to call.  The newline is   *)
(* not part of the line, empty lines are passed over, and a line of        *)
(* length 0 is the caller's end of file.                                   *)
(*                                                                         *)
(* A step is one call.  The loop of the call is a fold of one turn per     *)
(* character over the function's local state.                              *)
(***************************************************************************)
EXTENDS Integers, Sequences, SequencesExt

CONSTANTS
    Chars,      \* the characters of a line
    NL,         \* '\n'
    NUL,        \* '\0'
    Unwritten,  \* a byte of the item's memory that nothing was stored in
    InitSize,   \* the size __wt_buf_init asks for (10)
    GrowBy,     \* what __wt_buf_grow adds to the size (1024)
    MaxInput,   \* the longest stream
    MaxFail     \* the allocations of a call that may fail: the first MaxFail

ASSUME /\ InitSize \in Nat \ {0}
       /\ GrowBy \in Nat \ {0}
       /\ MaxInput \in Nat
       /\ MaxFail \in Nat
       /\ {NL, NUL, Unwritten} \cap Chars = {}

VARIABLES
    fp,     \* the stream: what fgetc has still to give, and how it ends
    buf,    \* the caller's item: its memory and the size of its data
    ret     \* what the last call returned

getlineVars == <<fp, buf, ret>>

\* FILE: the characters before end of file, and whether end of file is a
\* read error (ferror).
Stream == [rest : BoundedSeq(Chars \cup {NL}, MaxInput), error : BOOLEAN]

\* WT_ITEM: memsize is the length of mem.  inside says that no byte was
\* stored past the memory.
Item == [mem : Seq(Chars \cup {NUL, Unwritten}), size : Nat, inside : BOOLEAN]

TypeOK ==
    /\ fp \in Stream
    /\ buf \in Item
    /\ ret \in {"ok", "errno", "enomem"}

\* __wt_buf_grow: at least n bytes of memory; it never shrinks.
BufGrow(mem, n) == mem \o [i \in 1 .. n - Len(mem) |-> Unwritten]

\* WT_RET of __wt_buf_init and of __wt_buf_grow: the memory of the call s
\* grows to n bytes where it is shorter, or, when this allocation is the
\* one that fails, the call ends with ENOMEM and the item as it is.
Grow(s, n) ==
    IF Len(s.buf.mem) >= n THEN s
    ELSE IF s.allocs + 1 = s.failAt
         THEN [s EXCEPT !.ret = "enomem", !.done = TRUE]
         ELSE [s EXCEPT !.buf.mem = BufGrow(@, n), !.allocs = @ + 1]

\* buf->data[at] = c
Put(item, at, c) ==
    IF at < Len(item.mem)
    THEN [item EXCEPT !.mem[at + 1] = c]
    ELSE [item EXCEPT !.inside = FALSE]

\* MUTANT of Room: the memory grows when the data fills it, with no room
\* left for the NUL.
RoomGrownLate(item) == item.size >= Len(item.mem)

\* "Leave space for a trailing NUL": the item grows unless it has room for
\* the character and a NUL behind it.
Room(item) == item.size + 1 >= Len(item.mem)

\* MUTANT of EndsLine: an empty line ends the loop like any other.
EndsLineWhenEmpty(item, c) == c = NL

\* A newline ends the line unless the line is empty.
EndsLine(item, c) == c = NL /\ item.size # 0

\* MUTANT of Keep: the newline is stored as a character of the line.
KeepNewline(item, c) == [Put(item, item.size, c) EXCEPT !.size = @ + 1]

\* Any character but a newline is stored behind the data.
Keep(item, c) ==
    IF c = NL THEN item ELSE [Put(item, item.size, c) EXCEPT !.size = @ + 1]

\* One turn of the loop, for the character fgetc gave: the character is
\* read, and lost to the caller when the item cannot grow.
Getc(s, c) ==
    LET read  == [s EXCEPT !.n = @ + 1]
        grown == IF Room(s.buf) THEN Grow(read, s.buf.size + GrowBy) ELSE read
    IN  IF s.done THEN s
        ELSE IF grown.done THEN grown
        ELSE [grown EXCEPT !.buf = Keep(@, c), !.done = EndsLine(s.buf, c)]

\* The call, in which the allocation numbered failAt fails (none when there
\* are fewer): the item is emptied, keeping its memory; the loop runs to
\* the end of a line or of the stream; a read error is returned with the
\* item as the loop left it, and else the line is terminated.
GetLine(stream, item, failAt) ==
    LET call  == [buf |-> item, n |-> 0, done |-> FALSE, ret |-> "ok",
                  allocs |-> 0, failAt |-> failAt]
        init  == Grow(call, InitSize)
        start == IF init.done THEN init ELSE [init EXCEPT !.buf.size = 0]
        s     == FoldLeft(Getc, start, stream.rest)
        rest  == SubSeq(stream.rest, s.n + 1, Len(stream.rest))
        ret0  == IF s.ret = "ok" /\ ~s.done /\ stream.error
                 THEN "errno" ELSE s.ret
    IN  [fp  |-> [stream EXCEPT !.rest = rest],
         ret |-> ret0,
         buf |-> IF ret0 = "ok" THEN Put(s.buf, s.buf.size, NUL) ELSE s.buf]

\* __wt_getline(session, buf, fp), with or without an allocation that
\* fails.
Getline ==
    \E failAt \in 0 .. MaxFail :
        LET r == GetLine(fp, buf, failAt)
        IN  /\ fp' = r.fp
            /\ buf' = r.buf
            /\ ret' = r.ret

\* Any stream, and an item nothing was read into.
Init ==
    /\ fp \in Stream
    /\ buf = [mem |-> <<>>, size |-> 0, inside |-> TRUE]
    /\ ret = "ok"

Next == Getline

Spec == Init /\ [][Next]_getlineVars

-----------------------------------------------------------------------------

\* The lines of a string of characters that are not empty, in order: what
\* is between two newlines, before the first and behind the last.
LinesOf(s) ==
    LET breaks  == {0, Len(s) + 1} \cup {i \in DOMAIN s : s[i] = NL}
        After(i) == CHOOSE j \in breaks :
                        j > i /\ \A k \in breaks : k > i => j <= k
    IN  SelectSeq([i \in 1 .. Len(s) + 1 |->
                        IF i - 1 \in breaks
                        THEN SubSeq(s, i, After(i - 1) - 1) ELSE <<>>],
                  LAMBDA line : line # <<>>)

\* The string a caller finds at buf->data: the bytes before the first NUL.
CString(mem) ==
    IF \E i \in DOMAIN mem : mem[i] = NUL
    THEN SubSeq(mem, 1, (CHOOSE i \in DOMAIN mem :
                            mem[i] = NUL /\ \A j \in 1 .. i - 1 : mem[j] # NUL) - 1)
    ELSE mem

\* A call that returns 0 returns the next line of the stream that is not
\* empty, as a string and as size bytes of data, and leaves the stream
\* behind that line; it returns an empty line when there is no such line,
\* and only then.  This is so whatever an earlier, longer line left in the
\* item's memory, and also for a last line that no newline ends.
ReturnsNextLine ==
    [][ret' = "ok" =>
        LET lines == LinesOf(fp.rest)
            line  == IF lines = <<>> THEN <<>> ELSE Head(lines)
        IN  /\ CString(buf'.mem) = line
            /\ buf'.size = Len(line)
            /\ LinesOf(fp'.rest) = IF lines = <<>> THEN <<>> ELSE Tail(lines)
      ]_getlineVars

\* The NUL that ends a line, and every character, is stored within the
\* memory of the item ("Leave space for a trailing NUL"), however long the
\* line is and at whatever size the memory was.
StoresWithinMemory == buf.inside

=============================================================================
