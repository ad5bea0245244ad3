---------------------------- MODULE MCUtilities ----------------------------
(***************************************************************************)
(* The two utilities of the library for TLC, side by side: a step is a     *)
(* call of __wt_getline or a call into the nop compressor.  They share no  *)
(* state, so each property of one holds whatever the other does.           *)
(***************************************************************************)
EXTENDS Integers, Sequences

CONSTANTS
    NL, NUL, Unwritten, InitSize, GrowBy, MaxInput, MaxFail,
    Unset, MaxLen, NULL

VARIABLES fp, buf, ret, wt_api, registered, out, last

\* Two characters, so that a line differs from the one before it.
Chars == {"x", "y"}

Bytes == {0, 1}

readerVars == <<fp, buf, ret>>

compressorVars == <<wt_api, registered, out, last>>

Reader == INSTANCE OsGetline

Compressor == INSTANCE NopCompress

\* The item's memory holds characters, NULs and unwritten bytes only, and
\* the caller's variables of the compressor hold what a call can put there.
TypeOK == Reader!TypeOK /\ Compressor!TypeOK

Init == Reader!Init /\ Compressor!Init

Getline ==
    /\ Reader!Getline
    /\ UNCHANGED compressorVars

ExtensionInit(added) ==
    /\ Compressor!ExtensionInit(added)
    /\ UNCHANGED readerVars

Compress(src, dst_len) ==
    /\ Compressor!Compress(src, dst_len)
    /\ UNCHANGED readerVars

Decompress(src, dst_len) ==
    /\ Compressor!Decompress(src, dst_len)
    /\ UNCHANGED readerVars

Next ==
    \/ Getline
    \/ \E added \in BOOLEAN : ExtensionInit(added)
    \/ \E src \in Compressor!Sources, dst_len \in 0 .. MaxLen :
            Compress(src, dst_len)
    \/ \E src \in Compressor!Sources, dst_len \in 0 .. MaxLen :
            Decompress(src, dst_len)

Spec == Init /\ [][Next]_<<readerVars, compressorVars>>

-----------------------------------------------------------------------------

\* __wt_getline returns the next line of the stream that is not empty, as
\* a NUL-terminated string and as buf->size bytes, whatever an earlier call
\* left in the item's memory (the loop and the final store of os_getline.c).
ReturnsNextLine == Reader!ReturnsNextLine

\* __wt_getline stores no character and no NUL past buf->memsize: the test
\* "buf->size + 1 >= buf->memsize" grows the memory in time.
StoresWithinMemory == Reader!StoresWithinMemory

\* After nop_compress or nop_decompress returned 0, compression_failed,
\* result_len and dst are those of that call and not of an earlier one.
ResultIsOfThisCall == Compressor!ResultIsOfThisCall

=============================================================================
