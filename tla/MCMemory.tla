------------------------------- MODULE MCMemory -------------------------------
(***************************************************************************)
(* Instances of Memory for TLC.  A configuration switches sbrk, threads    *)
(* and system calls that write off with FALSE or an empty set.             *)
(***************************************************************************)
EXTENDS Memory

\* Every page a program may own.
UserPages == Page \ {0}

\* A page, both ways.
WholePages == {PAGE_SIZE, -PAGE_SIZE}

\* One and two pages, by bytes more than one, a page less, and more than there are addresses.
BytesAndPages == {1, 2 * PAGE_SIZE, -PAGE_SIZE, HEAP_START + 1}
=============================================================================
