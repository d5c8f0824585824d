------------------------------- MODULE Search -------------------------------
(***************************************************************************)
(* lower_bound and binary_search: one action per turn of their loop, one   *)
(* for what follows it.  The templates of binary_search.h expand to the    *)
(* same loop.  lower_bound computes in uint32_t, so the sum of its two     *)
(* ends is taken modulo Wrap; binary_search computes in size_t, which no   *)
(* array reaches.                                                          *)
(***************************************************************************)
EXTENDS Integers

CONSTANTS Members,     \* what is searched for and in
          MaxN,       \* bound: length of an array
          Wrap        \* 2^32

ASSUME SearchAssumption == /\ Members \subseteq Int
                           /\ MaxN \in Nat
                           /\ Wrap \in Nat \ {0}

VARIABLES fn,         \* which of the two functions runs
          data, nmemb, key,   \* its arguments
          l, h,       \* its locals
          result      \* -1 while it runs; nmemb stands for "not there"

search_vars == <<fn, data, nmemb, key, l, h, result>>

Running == result = -1

Sorted == \A i, j \in 0..(nmemb - 1) : i < j => data[i] <= data[j]

(* The arrays the uint32_t sum can handle.                                 *)
Fits == fn = "lower_bound" => 2 * nmemb <= Wrap

SearchInit ==
    /\ fn \in {"lower_bound", "binary_search"}
    /\ nmemb \in 0..MaxN
    /\ data \in [0..(nmemb - 1) -> Members]
    /\ key \in Members
    /\ Sorted
    /\ l = 0 /\ h = nmemb
    /\ result = -1

mid(low, high) ==
    IF fn = "lower_bound" THEN ((low + high) % Wrap) \div 2 ELSE (low + high) \div 2

halve(m) == IF data[m] < key THEN l' = m + 1 /\ h' = h ELSE l' = l /\ h' = m

loop ==
    /\ Running
    /\ l < h
    /\ halve(mid(l, h))
    /\ UNCHANGED <<fn, data, nmemb, key, result>>

found_unchecked(i) == TRUE

(* binary_search compares once more: the bound need not be the key.        *)
found(i) == i < nmemb /\ data[i] = key

return ==
    /\ Running
    /\ l >= h
    /\ result' = IF fn = "lower_bound" \/ found(l) THEN l ELSE nmemb
    /\ UNCHANGED <<fn, data, nmemb, key, l, h>>

SearchNext == loop \/ return

(* The function runs on: nothing in the loop waits.                        *)
SearchFairness == WF_search_vars(SearchNext)

SearchSpec == SearchInit /\ [][SearchNext]_search_vars /\ SearchFairness
-----------------------------------------------------------------------------
(* The loop of a search keeps the answer between its two ends, and every   *)
(* member it has passed on the right side of them.                         *)
SearchInv ==
    /\ fn \in {"lower_bound", "binary_search"}
    /\ nmemb \in Nat
    /\ data \in [0..(nmemb - 1) -> Int]
    /\ key \in Int
    /\ l \in 0..nmemb /\ h \in l..nmemb
    /\ Sorted
    /\ \A i \in 0..(nmemb - 1) : (i < l => data[i] < key) /\ (i >= h => data[i] >= key)
    /\ result # -1 => l = h /\ result = IF fn = "lower_bound" \/ found(l) THEN l ELSE nmemb

(* lower_bound returns the first member that is not less than the key;     *)
(* binary_search finds the first member equal to the key, and a key that   *)
(* is there.  Arrays of more than 2^31 members are out of lower_bound's    *)
(* reach: the sum of its ends wraps.                                       *)
AnswerRight ==
    (Fits /\ ~Running) =>
        IF fn = "lower_bound"
        THEN \A i \in 0..(nmemb - 1) : (data[i] < key) = (i < result)
        ELSE /\ result < nmemb => data[result] = key
                                  /\ \A i \in 0..(result - 1) : data[i] < key
             /\ result = nmemb => \A i \in 0..(nmemb - 1) : data[i] # key

(* The search ends: every turn of the loop brings its ends closer.         *)
SearchEnds == Fits ~> ~Running
=============================================================================
