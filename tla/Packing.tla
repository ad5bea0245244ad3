------------------------------ MODULE Packing ------------------------------
(***************************************************************************)
(* The packing service and the item buffers the projection layer is built  *)
(* on: __pack_init, __pack_next, __pack_size, __pack_write, __unpack_read, *)
(* __wt_buf_init and __wt_buf_grow.  Their code is not part of this        *)
(* repository; they are modelled from the way schema_project.c calls them. *)
(*                                                                         *)
(* A byte string is a sequence of cells.  A packed value is one cell that  *)
(* carries its type and value, followed by Pad cells up to its packed      *)
(* size; memory nothing was packed into holds Junk.                        *)
(***************************************************************************)
EXTENDS Integers, Sequences

CONSTANTS
    Values,     \* what a column can hold
    Zero,       \* the cleared value: 0, or the empty string
    Width,      \* Width[v]: the packed size of v
    RecnoSize,  \* sizeof(uint64_t), the size of a raw record number
    AllocUnit,  \* the unit the memory of an item is allocated in
    Pad, Junk

ASSUME /\ Zero \in Values
       /\ Width \in [Values -> Nat \ {0}]
       /\ RecnoSize \in Nat \ {0}
       /\ AllocUnit \in Nat \ {0}

\* The types of a column: an integer, a string, a record number.
ColumnTypes == {"i", "S", "r"}

\* The types of a format string: those of columns, and "R", the raw record
\* number a column-store cursor keeps as its key.
PackTypes == ColumnTypes \cup {"R"}

\* WT_PACK_VALUE: a type, set by __pack_next, and a value.
PackValue == [type : PackTypes, u : Values]

Cell == PackValue \cup {Pad, Junk}

\* __pack_next: the next type of the format, or WT_NOTFOUND at its end.
PackNext(pack) ==
    IF pack = <<>> THEN [ok |-> FALSE]
    ELSE [ok |-> TRUE, type |-> Head(pack), pack |-> Tail(pack)]

\* __pack_size
PackSize(pv) == IF pv.type = "R" THEN RecnoSize ELSE Width[pv.u]

\* __pack_write: the bytes of a packed value.
PackWrite(pv) == <<pv>> \o [i \in 1 .. PackSize(pv) - 1 |-> Pad]

\* The byte at offset p of a string; past its end is memory nobody wrote.
At(data, p) == IF p + 1 \in DOMAIN data THEN data[p + 1] ELSE Junk

\* __unpack_read of a value of the given type at offset p, with maxlen bytes
\* left: the value, the bytes it takes, and whether these bytes are a value
\* of this type that some __pack_write put there.  Other bytes decode to
\* something: the model takes a cleared value of one byte and says so.
UnpackRead(type, data, p, maxlen) ==
    LET cell   == At(data, p)
        packed == cell \notin {Pad, Junk} /\ cell.type = type
        len    == IF packed THEN PackSize(cell) ELSE 1
    IN  [ok    |-> len <= maxlen,
         u     |-> IF packed THEN cell.u ELSE Zero,
         len   |-> len,
         clean |-> packed \/ maxlen = 0]

\* WT_ITEM: the memory the item owns, as far as data was written to it, the
\* size of that memory, the size of the data, and whether the data pointer
\* is outside the memory (at the cursor's recno).
Buffer == [mem : Seq(Cell), memsize : Nat, size : Nat, ext : BOOLEAN]

\* __wt_buf_init(buf, 0): data is the item's memory again, and empty; the
\* memory keeps what was in it.  No memory is asked for, so it cannot fail.
BufInit(buf) == [buf EXCEPT !.size = 0, !.ext = FALSE]

\* The memory an item has after it was grown to hold n bytes.
MemSize(n) == AllocUnit * ((n + AllocUnit - 1) \div AllocUnit)

\* __wt_buf_grow: at least n bytes behind data; the new ones hold anything.
BufGrow(data, n) == data \o [i \in 1 .. n - Len(data) |-> Junk]

=============================================================================
