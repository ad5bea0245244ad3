----------------------------- MODULE MCLsmTree -----------------------------
(***************************************************************************)
(* LsmTree for TLC: two tree names, so that a rename has a target and a    *)
(* tree can be created under a name another tree left; the configurations  *)
(* that take each branch of create and of the open check.                  *)
(***************************************************************************)
EXTENDS LsmTree, TLC

CONSTANTS a, b

\* A row store without bloom filters, one with a bloom filter on the newest
\* chunk, a column store, bloom filters off but asked for on the newest
\* chunk, and a tree whose chunks do not fit the cache.  The cache has 8
\* units: Plain needs all of them, TooBig has room for its three chunks
\* and not for the pages of its merges.
Plain  == [column |-> FALSE, bloom |-> FALSE, newest |-> FALSE,
           oldest |-> FALSE,
           sizes |-> [chunk_size |-> 2, merge_max |-> 2, leaf_page_max |-> 1]]
Newest == [Plain EXCEPT !.bloom = TRUE, !.newest = TRUE]
Column == [Plain EXCEPT !.column = TRUE]
BadBloom == [Plain EXCEPT !.oldest = TRUE]
TooBig == [Plain EXCEPT !.sizes.leaf_page_max = 2]

\* Three chunks of 5 and two pages of 1 are 17, one more than a word of
\* four bits holds.
Wrapping == [Plain EXCEPT !.sizes.chunk_size = 5]

MCConfigs == {Plain, Newest, Column, BadBloom, TooBig}

\* Under faults the configurations create refuses add steps and no state.
FaultConfigs == {Plain, Newest, TooBig}
OnlyPlain == {Plain}
OnlyNewest == {Newest}
OnlyWrapping == {Wrapping}

NoFaults == {}
AllFaults == FaultKinds
SchemaFaults == {"schema"}
MetaFaults == {"meta"}
CloseFaults == {"close"}
ThreadFaults == {"thread"}
AnyFilename == {"new", "old", "junk"}
NewFilename == {"new"}

NameSymmetry == Permutations({a, b})
=============================================================================
