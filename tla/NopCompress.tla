----------------------------- MODULE NopCompress -----------------------------
(***************************************************************************)
(* The compressor of src/ext/compressors/nop_compress/nop_compress.c: it   *)
(* registers itself with the connection as "nop_compress" and copies what  *)
(* it is given.  The results of a call go through pointers to variables    *)
(* of the caller, which keep what they held where a call does not assign   *)
(* them.  A step is one call.                                              *)
(***************************************************************************)
EXTENDS Integers, Sequences, SequencesExt

CONSTANTS
    Bytes,      \* what a byte can be
    Unset,      \* what a variable holds that nothing was assigned to
    MaxLen,     \* the longest source and destination
    NULL

ASSUME MaxLen \in Nat /\ Unset \notin Bytes \cup Nat \cup BOOLEAN

VARIABLES
    wt_api,         \* the global wt_api
    registered,     \* whether the connection has the compressor
    out,            \* the caller's dst, result_len and compression_failed
    last            \* the last call: its function, arguments and return

compressVars == <<wt_api, registered, out, last>>

Sources == BoundedSeq(Bytes, MaxLen)

Out == [dst : BoundedSeq(Bytes \cup {Unset}, MaxLen),
        result_len : 0 .. MaxLen \cup {Unset},
        failed : BOOLEAN \cup {Unset}]

TypeOK ==
    /\ wt_api \in {NULL, "api"}
    /\ registered \in BOOLEAN
    /\ out \in Out
    /\ last \in [op : {"none", "init", "compress", "decompress"},
                 src : Sources, dst_len : 0 .. MaxLen,
                 ret : {"ok", "enomem", "error"}]

\* A destination of dst_len bytes that nothing was copied into.
Scratch(dst_len) == [i \in 1 .. dst_len |-> Unset]

\* memcpy(dst, src, src_len)
Memcpy(dst, src) == [i \in DOMAIN dst |-> IF i \in DOMAIN src THEN src[i] ELSE dst[i]]

\* wiredtiger_extension_init: the api is kept, and the compressor added to
\* the connection, which may refuse it.
ExtensionInit(added) ==
    /\ wt_api' = "api"
    /\ registered' = (registered \/ added)
    /\ last' = [op |-> "init", src |-> <<>>, dst_len |-> 0,
                ret |-> IF added THEN "ok" ELSE "error"]
    /\ UNCHANGED out

\* MUTANT of CompressInto: compression_failed is set where compression
\* fails, and nowhere cleared.
CompressIntoKeepingFailed(vars, src, dst_len) ==
    IF dst_len < Len(src)
    THEN [vars EXCEPT !.dst = Scratch(dst_len), !.failed = TRUE]
    ELSE [vars EXCEPT !.dst = Memcpy(Scratch(dst_len), src),
                      !.result_len = Len(src)]

\* nop_compress on the caller's variables: it returns 0 either way.
CompressInto(vars, src, dst_len) ==
    IF dst_len < Len(src)
    THEN [vars EXCEPT !.dst = Scratch(dst_len), !.failed = TRUE]
    ELSE [vars EXCEPT !.dst = Memcpy(Scratch(dst_len), src),
                      !.result_len = Len(src), !.failed = FALSE]

\* nop_decompress on the caller's variables; it has no compression_failed.
DecompressInto(vars, src, dst_len) ==
    IF dst_len < Len(src)
    THEN [vars EXCEPT !.dst = Scratch(dst_len)]
    ELSE [vars EXCEPT !.dst = Memcpy(Scratch(dst_len), src),
                      !.result_len = Len(src)]

\* The connection calls nop_compress.
Compress(src, dst_len) ==
    /\ registered
    /\ out' = CompressInto(out, src, dst_len)
    /\ last' = [op |-> "compress", src |-> src, dst_len |-> dst_len,
                ret |-> "ok"]
    /\ UNCHANGED <<wt_api, registered>>

\* The connection calls nop_decompress.
Decompress(src, dst_len) ==
    /\ registered
    /\ out' = DecompressInto(out, src, dst_len)
    /\ last' = [op |-> "decompress", src |-> src, dst_len |-> dst_len,
                ret |-> IF dst_len < Len(src) THEN "enomem" ELSE "ok"]
    /\ UNCHANGED <<wt_api, registered>>

Init ==
    /\ wt_api = NULL
    /\ registered = FALSE
    /\ out = [dst |-> <<>>, result_len |-> Unset, failed |-> Unset]
    /\ last = [op |-> "none", src |-> <<>>, dst_len |-> 0, ret |-> "ok"]

Next ==
    \/ \E added \in BOOLEAN : ExtensionInit(added)
    \/ \E src \in Sources, dst_len \in 0 .. MaxLen : Compress(src, dst_len)
    \/ \E src \in Sources, dst_len \in 0 .. MaxLen : Decompress(src, dst_len)

Spec == Init /\ [][Next]_compressVars

-----------------------------------------------------------------------------

\* The image a call left: the first result_len bytes of the destination.
Image == SubSeq(out.dst, 1, out.result_len)

\* What a caller may use of a call: after nop_compress returned 0,
\* compression_failed says whether the source had room, whatever an
\* earlier call left in it, and where it had, result_len and dst are the
\* source; so it is after nop_decompress returned 0.  result_len is the
\* one of this call, not the one an earlier call stored.
ResultIsOfThisCall ==
    /\ last.op = "compress" =>
            /\ out.failed = (last.dst_len < Len(last.src))
            /\ out.failed = FALSE => Image = last.src
    /\ (last.op = "decompress" /\ last.ret = "ok") => Image = last.src

=============================================================================
