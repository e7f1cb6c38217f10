-------------------------- MODULE MC_CacheBinding --------------------------
(* Model-checking instance of CacheBinding: the regions of the file the    *)
(* program maps.                                                           *)
EXTENDS CacheBinding

\* Pages 0-1 (within __mmap_size = 1 page of the buffer's start), pages
\* 1-2 (past it), and page 2 alone (below the mmap threshold: real mmap).
MC_Regions == {[offset |-> 1, len |-> 2], [offset |-> 2, len |-> 1]}
=============================================================================
