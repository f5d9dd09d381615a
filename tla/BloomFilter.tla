----------------------------- MODULE BloomFilter -----------------------------
(***************************************************************************)
(* CountingBloomFilter<T> (src/cpp/examples/bloom_filter.h), with Max the  *)
(* largest T, and BloomFilter (bloom_filter.cc), which is the case Max = 1 *)
(* with max_count = 1.  Insert runs through the hash functions one by one. *)
(* The functions are any that the random seeds may give.                   *)
(***************************************************************************)
EXTENDS Naturals

CONSTANTS Keys, Buckets,
          K,          \* hash_function_number_
          Max,        \* numeric_limits<T>::max()
          MaxInserts, \* bound: insertions of one key
          nullptr

ASSUME BloomFilterAssumption ==
    K \in Nat \ {0} /\ Max \in Nat \ {0} /\ MaxInserts \in Nat /\ nullptr \notin Keys

VARIABLES hash,     \* hash_functions_ modulo bucket_size_
          buf,      \* buf_
          call,     \* the insertion under way: its key, next function, max_count
          answer,   \* what InsertedLookup has returned
          inserts   \* history: completed insertions of each key

filterVars == <<hash, buf, call, answer, inserts>>

Hashers == 1..K
\* max_count of a call that does not look up.
NoLookup == Max + 2
Idle == [key |-> nullptr, next |-> 1, max |-> NoLookup]

FilterInit ==
    /\ hash \in [Hashers -> [Keys -> Buckets]]
    /\ buf = [b \in Buckets |-> 0]
    /\ call = Idle /\ answer = TRUE
    /\ inserts = [key \in Keys |-> 0]

Exists(key, max) ==
    max = 0 \/ (key # nullptr /\ \A fn \in Hashers : buf[hash[fn][key]] >= max)

Start(key, max) ==
    /\ call = Idle /\ inserts[key] < MaxInserts
    /\ call' = [key |-> key, next |-> 1, max |-> max]
    /\ UNCHANGED <<hash, buf, answer, inserts>>

Insert(key) == Start(key, NoLookup)
InsertedLookup(key, max) == Start(key, max)

\* Nothing is inserted for a null key; the lookup follows all the same.
NullLookup(max) ==
    /\ call = Idle
    /\ answer' = Exists(nullptr, max)
    /\ UNCHANGED <<hash, buf, call, inserts>>

\* Mutant: the counter wraps around.
CountWraps ==
    LET index == hash[call.next][call.key] IN
    /\ call # Idle /\ call.next \in Hashers
    /\ buf' = [buf EXCEPT ![index] = (@ + 1) % (Max + 1)]
    /\ call' = [call EXCEPT !.next = @ + 1]
    /\ UNCHANGED <<hash, answer, inserts>>

\* One turn of Insert's loop; a full counter stays as it is.
Count ==
    LET index == hash[call.next][call.key] IN
    /\ call # Idle /\ call.next \in Hashers
    /\ buf' = [buf EXCEPT ![index] = IF @ # Max THEN @ + 1 ELSE @]
    /\ call' = [call EXCEPT !.next = @ + 1]
    /\ UNCHANGED <<hash, answer, inserts>>

InsertReturn ==
    /\ call # Idle /\ call.next \notin Hashers
    /\ inserts' = [inserts EXCEPT ![call.key] = @ + 1]
    /\ answer' = IF call.max = NoLookup THEN answer ELSE Exists(call.key, call.max)
    /\ call' = Idle
    /\ UNCHANGED <<hash, buf>>

FilterNext ==
    \/ \E key \in Keys : Insert(key) \/ \E max \in 0..(Max + 1) : InsertedLookup(key, max)
    \/ \E max \in 0..(Max + 1) : NullLookup(max)
    \/ Count \/ InsertReturn

FilterSpec == FilterInit /\ [][FilterNext]_filterVars
-----------------------------------------------------------------------------
\* No false negative: a key inserted n times is found with every max_count up
\* to n, as far as T can count, however its buckets are shared with other keys
\* or among its own hash functions (bloom_filter.h:124-147).
NoFalseNegative ==
    call = Idle => \A key \in Keys : \A max \in 0..Max :
        max <= inserts[key] => Exists(key, max)

\* A false positive is a collision: every bucket of a key that Exists finds is
\* one that an inserted key hashes to, now or in the insertion under way.
FoundMeansHit ==
    \A key \in Keys : Exists(key, 1) => \A fn \in Hashers :
        \E other \in Keys : \E g \in Hashers :
            /\ hash[g][other] = hash[fn][key]
            /\ inserts[other] > 0 \/ call.key = other

\* A filter never denies a key it was given, and finds a key only when each of
\* the key's buckets was counted.
FilterIsSound == NoFalseNegative /\ FoundMeansHit

\* bloom_filter_test.cc:61: after one insertion, of this key, a lookup with
\* max_count 2 "must be false".
\* The code breaks it: README, "Disagreements without a run".
OnceIsNotTwice ==
    call = Idle => \A key \in Keys :
        inserts[key] = 1 /\ (\A other \in Keys \ {key} : inserts[other] = 0) => ~Exists(key, 2)
=============================================================================
