---------------------------- MODULE SearchProofs ----------------------------
(***************************************************************************)
(* The two searches return what they should, for arrays of every length    *)
(* and values: the loop keeps SearchInv as long as the sum of its ends     *)
(* does not wrap.                                                          *)
(***************************************************************************)
EXTENDS Search, TLAPS

(* The loop invariant, for the arguments the arithmetic can handle.        *)
LoopInv == Fits => SearchInv

(* The middle of a non-empty range lies in it, in both functions.          *)
LEMMA MidInside ==
    ASSUME Fits, SearchInv, l < h
    PROVE  mid(l, h) \in l..(h - 1)
<1>1. l \in Int /\ h \in Int /\ l >= 0 /\ h <= nmemb /\ nmemb \in Nat
    BY DEF SearchInv
<1>2. (l + h) \div 2 \in l..(h - 1)
    BY <1>1
<1>3. CASE fn = "lower_bound"
    <2>1. 2 * nmemb <= Wrap
        BY <1>3 DEF Fits
    <2>2. 0 <= l + h /\ l + h < Wrap /\ Wrap \in Nat \ {0}
        BY <2>1, <1>1, SearchAssumption
    <2>3. (l + h) % Wrap = l + h
        BY <2>2, <1>1
    <2>4. QED
        BY <1>2, <1>3, <2>3 DEF mid
<1>4. CASE fn # "lower_bound"
    BY <1>2, <1>4 DEF mid
<1>5. QED
    BY <1>3, <1>4

(* A search starts with nothing passed on either side.                     *)
LEMMA InitInv == SearchInit => LoopInv
<1>1. SUFFICES ASSUME SearchInit PROVE SearchInv
    BY DEF LoopInv
<1>2. /\ nmemb \in Nat /\ key \in Int /\ l = 0 /\ h = nmemb /\ result = -1
      /\ fn \in {"lower_bound", "binary_search"} /\ Sorted
    BY <1>1, SearchAssumption DEF SearchInit
<1>3. data \in [0..(nmemb - 1) -> Int]
    BY <1>1, SearchAssumption DEF SearchInit
<1>4. QED
    BY <1>2, <1>3 DEF SearchInv

(* Every turn of the loop, and the return, keep it.                        *)
LEMMA NextInv == LoopInv /\ [SearchNext]_search_vars => LoopInv'
<1>1. SUFFICES ASSUME LoopInv, [SearchNext]_search_vars, Fits' PROVE SearchInv'
    BY DEF LoopInv
<1>2. Fits /\ nmemb' = nmemb /\ fn' = fn /\ data' = data /\ key' = key
    BY <1>1 DEF Fits, SearchNext, loop, return, search_vars
<1>3. SearchInv
    BY <1>1, <1>2 DEF LoopInv
<1>4. Sorted'
    BY <1>2, <1>3 DEF SearchInv, Sorted
<1>5. ASSUME loop PROVE SearchInv'
    <2> DEFINE m == mid(l, h)
    <2>1. m \in l..(h - 1) /\ l \in Int /\ h \in Int /\ nmemb \in Nat /\ h <= nmemb /\ l >= 0
        BY <1>2, <1>3, <1>5, MidInside DEF loop, SearchInv
    <2>2. result' = result /\ result = -1
        BY <1>5 DEF loop, Running
    <2>3. halve(m)
        BY <1>5 DEF loop
    <2> HIDE DEF m
    <2>4. CASE data[m] < key
        <3>1. l' = m + 1 /\ h' = h
            BY <2>3, <2>4 DEF halve
        <3>2. \A i \in 0..(nmemb - 1) : i < m + 1 => data[i] < key
            <4>1. SUFFICES ASSUME NEW i \in 0..(nmemb - 1), i < m + 1 PROVE data[i] < key
                OBVIOUS
            <4>2. m \in 0..(nmemb - 1) /\ (i < m \/ i = m)
                BY <2>1, <4>1
            <4>3. data[i] <= data[m]
                BY <4>1, <4>2, <1>3, <2>1 DEF SearchInv, Sorted
            <4>4. data[i] \in Int /\ data[m] \in Int /\ key \in Int
                BY <4>1, <4>2, <1>3 DEF SearchInv
            <4>5. QED
                BY <4>3, <4>4, <2>4
        <3>3. QED
            BY <1>2, <1>3, <1>4, <2>1, <2>2, <3>1, <3>2 DEF SearchInv
    <2>5. CASE ~(data[m] < key)
        <3>1. l' = l /\ h' = m
            BY <2>3, <2>5 DEF halve
        <3>2. \A i \in 0..(nmemb - 1) : i >= m => data[i] >= key
            <4>1. SUFFICES ASSUME NEW i \in 0..(nmemb - 1), i >= m PROVE data[i] >= key
                OBVIOUS
            <4>2. m \in 0..(nmemb - 1) /\ (m < i \/ i = m)
                BY <2>1, <4>1
            <4>3. data[m] <= data[i]
                BY <4>1, <4>2, <1>3, <2>1 DEF SearchInv, Sorted
            <4>4. data[i] \in Int /\ data[m] \in Int /\ key \in Int
                BY <4>1, <4>2, <1>3 DEF SearchInv
            <4>5. QED
                BY <4>3, <4>4, <2>5
        <3>3. QED
            BY <1>2, <1>3, <1>4, <2>1, <2>2, <3>1, <3>2 DEF SearchInv
    <2>6. QED
        BY <2>4, <2>5
<1>6. ASSUME return PROVE SearchInv'
    <2>1. l' = l /\ h' = h /\ l >= h /\ result' = IF fn = "lower_bound" \/ found(l) THEN l ELSE nmemb
        BY <1>6 DEF return
    <2>2. l = h
        BY <2>1, <1>3 DEF SearchInv
    <2>3. found(l)' = found(l)
        BY <1>2, <2>1 DEF found
    <2>4. QED
        BY <1>2, <1>3, <1>4, <2>1, <2>2, <2>3 DEF SearchInv
<1>7. ASSUME UNCHANGED search_vars PROVE SearchInv'
    <2>1. l' = l /\ h' = h /\ result' = result
        BY <1>7 DEF search_vars
    <2>2. found(l)' = found(l)
        BY <1>2, <2>1 DEF found
    <2>3. QED
        BY <1>2, <1>3, <1>4, <2>1, <2>2 DEF SearchInv
<1>8. QED
    BY <1>1, <1>5, <1>6, <1>7 DEF SearchNext

(* The loop invariant gives the answer once the function has returned.     *)
LEMMA InvAnswer == LoopInv => AnswerRight
<1>1. SUFFICES ASSUME SearchInv, Fits, result # -1
               PROVE  IF fn = "lower_bound"
                      THEN \A i \in 0..(nmemb - 1) : (data[i] < key) = (i < result)
                      ELSE /\ result < nmemb => data[result] = key
                                                /\ \A i \in 0..(result - 1) : data[i] < key
                           /\ result = nmemb => \A i \in 0..(nmemb - 1) : data[i] # key
    BY DEF AnswerRight, LoopInv, Running
<1>2. /\ l = h /\ l \in 0..nmemb /\ nmemb \in Nat /\ key \in Int
      /\ \A i \in 0..(nmemb - 1) : data[i] \in Int
      /\ \A i \in 0..(nmemb - 1) : (i < l => data[i] < key) /\ (i >= l => data[i] >= key)
    BY <1>1 DEF SearchInv
<1>3. CASE fn = "lower_bound"
    <2>1. result = l
        BY <1>1, <1>3 DEF SearchInv
    <2>2. \A i \in 0..(nmemb - 1) : (data[i] < key) = (i < l)
        BY <1>2
    <2>3. QED
        BY <1>3, <2>1, <2>2
<1>4. CASE fn # "lower_bound" /\ found(l)
    BY <1>1, <1>2, <1>4 DEF SearchInv, found
<1>5. CASE fn # "lower_bound" /\ ~found(l)
    <2>1. result = nmemb
        BY <1>1, <1>5 DEF SearchInv
    <2>2. l < nmemb => data[l] # key
        BY <1>2, <1>5 DEF found
    <2>3. \A i \in 0..(nmemb - 1) : data[i] # key
        <3>1. SUFFICES ASSUME NEW i \in 0..(nmemb - 1), data[i] = key PROVE FALSE
            OBVIOUS
        <3>2. i >= l /\ l < nmemb /\ l \in 0..(nmemb - 1)
            BY <3>1, <1>2
        <3>3. data[l] >= key /\ data[l] # key
            BY <3>2, <2>2, <1>2
        <3>4. data[l] <= data[i]
            BY <3>2, <3>1, <1>1 DEF SearchInv, Sorted
        <3>5. QED
            BY <3>1, <3>2, <3>3, <3>4, <1>2
    <2>4. QED
        BY <1>2, <1>5, <2>1, <2>3
<1>6. QED
    BY <1>3, <1>4, <1>5

(* lower_bound and binary_search are right for every sorted array whose    *)
(* length the arithmetic can handle.                                       *)
THEOREM SearchesRight == SearchSpec => []AnswerRight
<1>1. SearchInit => LoopInv
    BY InitInv
<1>2. LoopInv /\ [SearchNext]_search_vars => LoopInv'
    BY NextInv
<1>3. LoopInv => AnswerRight
    BY InvAnswer
<1>4. QED
    BY <1>1, <1>2, <1>3, PTL DEF SearchSpec
=============================================================================
