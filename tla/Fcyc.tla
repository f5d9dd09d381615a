-------------------------------- MODULE Fcyc --------------------------------
(***************************************************************************)
(* fcyc.c: the K-best estimate of a function's running time.  A call takes *)
(* samples until the k smallest are within epsilon of each other, or       *)
(* maxsamples have been taken.  The parameters change between calls.       *)
(***************************************************************************)
EXTENDS Integers, Sequences, FiniteSets, TLC

CONSTANTS Cycles,     \* running times that can be measured
          Ks,         \* values of k
          MaxSamples, \* values of maxsamples
          Epsilons,   \* values of epsilon, in percent
          CacheSizes  \* values of cache_bytes

VARIABLES param,   \* [kbest, maxsamples, epsilon, clear_cache, cache_bytes]
          running, \* a call of fcyc is in its loop
          values, samplecount,
          buf,     \* bytes allocated for cache_buf, 0 when it is NULL
          overrun, \* clear has read beyond its buffer
          result,
          samples  \* all samples of this call, in the order taken

vars == <<param, running, values, samplecount, buf, overrun, result, samples>>

Params == [kbest : Ks, maxsamples : MaxSamples, epsilon : Epsilons,
           clear_cache : BOOLEAN, cache_bytes : CacheSizes]

Init ==
    /\ param \in Params
    /\ running = FALSE /\ values = <<>> /\ samplecount = 0
    /\ buf = 0 /\ overrun = FALSE /\ result = 0 /\ samples = <<>>

\* The setters other than the cache size's.
SetParam ==
    /\ ~running
    /\ param' \in {p \in Params : p.cache_bytes = param.cache_bytes}
    /\ UNCHANGED <<running, values, samplecount, buf, overrun, result, samples>>

\* set_fcyc_cache_size drops a buffer of another size.
SetCacheSize ==
    /\ ~running
    /\ \E bytes \in CacheSizes \ {param.cache_bytes} :
         param' = [param EXCEPT !.cache_bytes = bytes]
    /\ buf' = 0
    /\ UNCHANGED <<running, values, samplecount, overrun, result, samples>>

\* init_sampler.
Call ==
    /\ ~running
    /\ running' = TRUE
    /\ values' = <<>> /\ samplecount' = 0 /\ samples' = <<>>
    /\ UNCHANGED <<param, buf, overrun, result>>

\* The swaps of add_sample carry the last value to its place.
RECURSIVE SiftDown(_, _)
SiftDown(v, pos) ==
    IF pos > 1 /\ v[pos - 1] > v[pos]
    THEN SiftDown([v EXCEPT ![pos - 1] = v[pos], ![pos] = v[pos - 1]], pos - 1)
    ELSE v

\* Mutant: a sample is kept as the last of the k without regard to its value.
AddAnySample(v, val) ==
    IF Len(v) < param.kbest THEN SiftDown(Append(v, val), Len(v) + 1)
    ELSE SiftDown([v EXCEPT ![param.kbest] = val], param.kbest)

AddSample(v, val) ==
    IF samplecount < param.kbest THEN SiftDown(Append(v, val), samplecount + 1)
    ELSE IF val < v[param.kbest] THEN SiftDown([v EXCEPT ![param.kbest] = val], param.kbest)
    ELSE v

HasConverged(v, n) ==
    n >= param.kbest /\ (100 + param.epsilon) * v[1] >= 100 * v[param.kbest]

\* clear allocates the buffer once and reads cache_bytes of it.
Clear ==
    LET size == IF buf = 0 THEN param.cache_bytes ELSE buf
    IN  buf' = size /\ overrun' = (overrun \/ param.cache_bytes > size)

\* One turn of the loop: clear, measure, add the sample; the last one returns
\* the smallest value.
Sample(cyc) ==
    LET v == AddSample(values, cyc)
        stop == HasConverged(v, samplecount + 1) \/ samplecount + 1 >= param.maxsamples
    IN  /\ running
        /\ IF param.clear_cache THEN Clear ELSE UNCHANGED <<buf, overrun>>
        /\ samples' = Append(samples, cyc)
        /\ samplecount' = samplecount + 1
        /\ values' = IF stop THEN <<>> ELSE v
        /\ running' = ~stop
        /\ result' = IF stop THEN v[1] ELSE result
        /\ UNCHANGED param

Next == Call \/ SetParam \/ SetCacheSize \/ \E cyc \in Cycles : Sample(cyc)

Spec == Init /\ [][Next]_vars
-----------------------------------------------------------------------------
Smaller(a, b) == IF a < b THEN a ELSE b

\* After every sample values holds the k smallest samples of the call, in order
\* (fcyc.c:88): the sorted samples cut off after k.
ValuesAreKBest ==
    running => values = SubSeq(SortSeq(samples, LAMBDA a, b : a < b), 1,
                              Smaller(param.kbest, Len(samples)))

\* k of the samples are within epsilon of the smallest (fcyc.c:88).
Converged(smps) ==
    Cardinality({i \in DOMAIN smps : \A j \in DOMAIN smps :
        100 * smps[i] <= (100 + param.epsilon) * smps[j]}) >= param.kbest

\* A call that stops before maxsamples has converged; it returns the smallest of
\* all samples (fcyc.c:206: "just return best sample found").
Stops ==
    [][running /\ ~running' =>
          /\ \A i \in DOMAIN samples' : result' <= samples'[i]
          /\ Len(samples') = param.maxsamples \/ Converged(samples')]_vars

\* clear never reads beyond its buffer, whatever sizes were set before.
ClearStaysInBuffer == ~overrun

\* Every call of fcyc returns, as soon as the samples converge and even when they
\* never do: a turn after which the loop goes on has not converged and comes
\* nearer to maxsamples, where it ends (fcyc.c:133, 142).
EveryTurnCounts ==
    [][running /\ running' =>
          /\ samplecount' = samplecount + 1 /\ samplecount' < param.maxsamples
          /\ ~Converged(samples')]_vars
=============================================================================
