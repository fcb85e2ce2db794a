---- MODULE MCSlab ----
(***************************************************************************)
(* Pages of eight bytes with headers of two: buckets of three slots, of a  *)
(* page, of two pages, and a last one that is smaller than the one before  *)
(* it, as in kmalloc_caches.                                               *)
(***************************************************************************)
EXTENDS Slab

MCBuckets == <<2, 8, 16, 12>>
MCFrames == 1 .. 6
\* Frame 3 is not RAM.
MCPool == {1, 2, 4, 5, 6}
\* Sizes that fit their pages.
FittingRequests == {1, 2, 6, 10}
\* The whole of a bucket of one page.
PageRequests == {2, 8}
====
