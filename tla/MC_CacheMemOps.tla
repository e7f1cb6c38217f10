--------------------------- MODULE MC_CacheMemOps ---------------------------
(* Three cache pages of two bytes, four bytes of plain memory, a three-byte *)
(* local_buf (so a four-byte transfer takes two chunks, and a chunk is not *)
(* a whole number of pages) and a four-byte file.  The bytes mix NULs into *)
(* runs of unequal values so that the scans stop at different places.     *)
EXTENDS CacheMemOps, Sequences

Bytes(s) == [i \in 0..Len(s) - 1 |-> s[i + 1]]
MC_InitCaches == {Bytes(<<1, 2, 0, 2, 1, 0>>), Bytes(<<2, 2, 1, 0, 1, 2>>)}
MC_InitPlain == Bytes(<<2, 1, 0, 1>>)
MC_InitFile == Bytes(<<1, 2, 2, 0>>)
=============================================================================
