------------------------------- MODULE UtHash -------------------------------
(***************************************************************************)
(* The hash table of src/uthash.h, as far as the poll(2) build of DSTC     *)
(* uses it: to find the element of poll_elem_array with a descriptor.      *)
(*                                                                         *)
(* A table is reached through its head, the first element in the order of  *)
(* insertion; with no element there is no table. That order is a sequence  *)
(* of hash handles; a bucket's chain is a set of them, because the order   *)
(* in it only matters to a search with two hits. A handle keeps its        *)
(* element's hash value; the key stays in the element, so operators that   *)
(* compare keys are given "key", the function from elements to the keys    *)
(* they hold now.                                                          *)
(***************************************************************************)
EXTENDS Naturals, FiniteSets, Sequences, SequencesExt

CONSTANTS
    HASH_FCN,                   \* the hash function, as [key -> hash value]
    HASH_INITIAL_NUM_BUCKETS,
    HASH_BKT_CAPACITY_THRESH

ASSUME HashAssumption == \A k \in DOMAIN HASH_FCN : HASH_FCN[k] \in Nat
ASSUME BucketsAssumption == HASH_INITIAL_NUM_BUCKETS \in {1, 2, 4, 8, 16, 32}
ASSUME ThresholdAssumption == HASH_BKT_CAPACITY_THRESH \in 1..10

\* The head of no table, and a bucket nothing is in.
NULL == [order |-> <<>>, buckets |-> <<>>, num_items |-> 0,
         ineff_expands |-> 0, noexpand |-> FALSE]
EmptyBucket == [chain |-> {}, count |-> 0, expand_mult |-> 0]

HASH_MAKE_TABLE ==
    [NULL EXCEPT !.buckets = [b \in 0..HASH_INITIAL_NUM_BUCKETS - 1 |-> EmptyBucket]]

NumBuckets(tbl) == Cardinality(DOMAIN tbl.buckets)

\* hashv & (num_bkts - 1), and num_bkts is a power of two.
HASH_TO_BKT(hashv, num_bkts) == hashv % num_bkts

---------------------------------------------------------------------------
\* The elements a search may find: those in the key's bucket with its hash value and
\* the key. It ends at the first.
HASH_FIND(tbl, key, k) ==
    IF tbl.order = <<>> THEN {}
    ELSE LET hashv == HASH_FCN[k]
             chain == tbl.buckets[HASH_TO_BKT(hashv, NumBuckets(tbl))].chain
         IN {hh.elem : hh \in {c \in chain : c.hashv = hashv /\ key[c.elem] = k}}

\* As its handles arrive, a bucket's multiplier grows with each that is beyond the
\* multiple it stands for of the length that evenly spread chains would have.
ExpandMult(ideal_chain_maxlen, count) ==
    LET mult[n \in 0..count] ==
            IF n = 0 THEN 0
            ELSE mult[n - 1] + IF n > ideal_chain_maxlen /\ n > mult[n - 1] * ideal_chain_maxlen
                               THEN 1 ELSE 0
    IN mult[count]

NonidealItems(buckets, ideal_chain_maxlen) ==
    MapThenSumSet(LAMBDA b : Cardinality({i \in 1..buckets[b].count : i > ideal_chain_maxlen}),
                  DOMAIN buckets)

\* The new bucket of a handle, with 2 * n of them.
Rehashed(tbl, n) ==
    LET ideal_chain_maxlen == (tbl.num_items + 2 * n - 1) \div (2 * n)
        handles == UNION {tbl.buckets[b].chain : b \in DOMAIN tbl.buckets}
        chain(b) == {hh \in handles : HASH_TO_BKT(hh.hashv, 2 * n) = b}
    IN [b \in 0..2 * n - 1 |->
           [chain |-> chain(b),
            count |-> Cardinality(chain(b)),
            expand_mult |-> ExpandMult(ideal_chain_maxlen, Cardinality(chain(b)))]]

\* A faulty variant stands before the definition it changes; it is in no
\* specification, and some property must refute it.
HASH_EXPAND_BUCKETS_OldMask(tbl) ==
    LET n == NumBuckets(tbl)
        new == [b \in 0..2 * n - 1 |->
                  IF b < n THEN tbl.buckets[b] ELSE EmptyBucket]
    IN [tbl EXCEPT !.buckets = new]

\* Twice the buckets, and the handles in those that follow from their hash values.
\* Two expansions in a row that leave most items in overlong chains are the last.
HASH_EXPAND_BUCKETS(tbl) ==
    LET n == NumBuckets(tbl)
        new == Rehashed(tbl, n)
        nonideal_items == NonidealItems(new, (tbl.num_items + 2 * n - 1) \div (2 * n))
        ineff == IF nonideal_items > tbl.num_items \div 2
                 THEN tbl.ineff_expands + 1 ELSE 0
    IN [tbl EXCEPT !.buckets = new,
                   !.ineff_expands = ineff,
                   !.noexpand = @ \/ ineff > 1]

\* The handle goes to its bucket, which may then be too full.
HASH_ADD_TO_BKT(tbl, hh) ==
    LET b == HASH_TO_BKT(hh.hashv, NumBuckets(tbl))
        old == tbl.buckets[b]
        bucket == [old EXCEPT !.count = @ + 1, !.chain = @ \cup {hh}]
        added == [tbl EXCEPT !.buckets[b] = bucket]
    IN IF /\ bucket.count >= (bucket.expand_mult + 1) * HASH_BKT_CAPACITY_THRESH
          /\ ~tbl.noexpand
       THEN HASH_EXPAND_BUCKETS(added)
       ELSE added

\* HASH_ADD_INT(): the element goes to the end of the list of all, and to its bucket.
HASH_ADD(tbl, key, elem) ==
    LET hh == [elem |-> elem, hashv |-> HASH_FCN[key[elem]]]
        table == IF tbl.order = <<>> THEN HASH_MAKE_TABLE ELSE tbl
    IN HASH_ADD_TO_BKT([table EXCEPT !.order = Append(@, hh),
                                     !.num_items = @ + 1], hh)

HASH_DEL_IN_BKT(bucket, hh) ==
    [bucket EXCEPT !.count = @ - 1, !.chain = @ \ {hh}]

\* The table goes with its last element. The bucket follows from the hash value in
\* the handle, not from the key.
HASH_DEL(tbl, elem) ==
    LET i == CHOOSE n \in DOMAIN tbl.order : tbl.order[n].elem = elem
        hh == tbl.order[i]
        b == HASH_TO_BKT(hh.hashv, NumBuckets(tbl))
    IN IF Len(tbl.order) = 1 THEN NULL
       ELSE [tbl EXCEPT !.order = RemoveAt(@, i),
                        !.buckets[b] = HASH_DEL_IN_BKT(@, hh),
                        !.num_items = @ - 1]

\* What HASH_DEBUG builds check after every change: the counts, of each bucket, and of
\* all handles as they are found in the buckets and in the list.
HASH_FSCK(tbl) ==
    tbl.order # <<>> =>
        LET chained == UNION {{<<b, hh>> : hh \in tbl.buckets[b].chain} :
                                  b \in DOMAIN tbl.buckets}
        IN /\ \A b \in DOMAIN tbl.buckets :
                 tbl.buckets[b].count = Cardinality(tbl.buckets[b].chain)
           /\ Cardinality(chained) = tbl.num_items
           /\ Len(tbl.order) = tbl.num_items
=============================================================================
