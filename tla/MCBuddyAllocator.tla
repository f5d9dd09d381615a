-------------------------- MODULE MCBuddyAllocator --------------------------
(***************************************************************************)
(* Two threads on a pool of 8 bytes in blocks of 8, 4 and 2.               *)
(***************************************************************************)
EXTENDS BuddyAllocator

CONSTANTS t1, t2
=============================================================================
