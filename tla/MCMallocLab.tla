---------------------------- MODULE MCMallocLab -----------------------------
(***************************************************************************)
(* The malloc lab for TLC.  `part` says which part of it runs: the         *)
(* allocator under any calls, the driver with the allocator of mm.c or     *)
(* with any other one, or the timing package; the variables of the others  *)
(* are unused.                                                             *)
(***************************************************************************)
EXTENDS MallocLab

VARIABLES part, driverHeap,
    phase, trace, pass, ranges, errors, stats, runs, checked,
    param, running, values, samplecount, buf, overrun, result, samples

\* MallocLab itself has room for runs of three free blocks, and a request that only
\* they fit; here the break stays below 14 and the contents can be told apart.
Few == INSTANCE MallocLab WITH MaxHeap <- 13, Sizes <- {8, 16, 40}, Fills <- {1, 2},
           MaxTotal <- 18

\* All traces of five operations; the heap never fills up.  The bytes of some ids are
\* negative as char, those of others wrap around.
Mm == INSTANCE Mdriver WITH Allocator <- "mm", MaxHeap <- 36, Sizes <- {8, 40}, MaxOps <- 5,
          IdOrders <- {<<0, 127, 256, 1, 2>>, <<0, 128, 255, 256, 1>>},
          Addresses <- {}, MaxTraces <- 1, SpeedRuns <- 2, heap <- driverHeap
\* Two traces with an allocator that returns NULL, an unaligned address, one outside
\* the heap or one of two others, at which a large payload may reach into a small
\* one or enclose it.
Any == INSTANCE Mdriver WITH Allocator <- "any", MaxHeap <- 4, Sizes <- {1, 17}, MaxOps <- 3,
           IdOrders <- {<<0, 128, 1>>}, Addresses <- {0, 8, 12, 16, 32}, MaxTraces <- 2,
           SpeedRuns <- 1, heap <- driverHeap

\* Samples that are within ten percent of each other and samples that are not.
Fcyc == INSTANCE Fcyc WITH Cycles <- {10, 11, 12, 15}, Ks <- {1, 2, 3}, MaxSamples <- {2, 4},
            Epsilons <- {0, 10}, CacheSizes <- {1, 2}

driverVars == <<driverHeap, phase, trace, pass, ranges, errors, stats, runs, checked>>
fcycVars == <<param, running, values, samplecount, buf, overrun, result, samples>>
allVars == <<part, clientVars, driverVars, fcycVars>>

Parts == {"few", "runs", "mm", "any", "fcyc"}
Client == {"few", "runs"}
Driver == {"mm", "any"}
Unused == 0

InitAll ==
    /\ part \in Parts
    /\ ClientInit
    /\ CASE part = "mm" -> Mm!Init
         [] part = "any" -> Any!Init
         [] OTHER -> /\ driverHeap = Unused /\ phase = Unused /\ trace = Unused /\ pass = Unused
                     /\ ranges = Unused /\ errors = Unused /\ stats = Unused
                     /\ runs = Unused /\ checked = Unused
    /\ IF part = "fcyc" THEN Fcyc!Init
       ELSE /\ param = Unused /\ running = FALSE /\ values = Unused /\ samplecount = Unused
            /\ buf = Unused /\ overrun = Unused /\ result = Unused /\ samples = Unused

\* A step of the part.
StepOf ==
    \/ part = "few" /\ Few!ClientNext
    \/ part = "runs" /\ ClientNext
    \/ part = "mm" /\ Mm!Next
    \/ part = "any" /\ Any!Next
    \/ part = "fcyc" /\ Fcyc!Next

\* The variables that only these parts use.
Only(using, used) == part \notin using => UNCHANGED used

NextAll ==
    /\ StepOf
    /\ UNCHANGED part
    /\ Only(Client, clientVars)
    /\ Only(Driver, driverVars)
    /\ Only({"fcyc"}, fcycVars)

SpecAll == InitAll /\ [][NextAll]_allVars
-----------------------------------------------------------------------------
(* HeapIsSound and ExtendsOnlyWhenNoRunFits are MallocLab's.              *)

\* mdriver.c: whatever the allocator returns, the range list is the extent of the
\* blocks that are allocated, a payload is accepted only if it overlaps none of them
\* or encloses those it overlaps, and no overlap is reported that is none; mm.c is
\* found fault with in the traces that reallocate an id with a low byte of 128 or
\* more and in no others, whose later passes are not cut short; the payload that
\* eval_mm_util counts is what is allocated.
DriverIsRight ==
    /\ part = "mm" => /\ Mm!RangesAreLiveBlocks
                      /\ Mm!OverlapsAreFound
                      /\ Mm!MmPassesOtherTraces
                      /\ Mm!UtilizationAtMostOne
    /\ part = "any" => Any!RangesAreLiveBlocks /\ Any!OverlapsAreFound

\* fcyc.c: values holds the k smallest samples in order; a call stops when they
\* have converged, and not before unless it has taken maxsamples, to which every
\* other turn brings it closer; it returns the smallest; clear never reads beyond its buffer.
SamplingIsRight ==
    /\ [](part = "fcyc" => Fcyc!ValuesAreKBest /\ Fcyc!ClearStaysInBuffer)
    /\ Fcyc!Stops
    /\ Fcyc!EveryTurnCounts
=============================================================================
