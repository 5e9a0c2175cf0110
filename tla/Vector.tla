------------------------------- MODULE Vector -------------------------------
(* vector<dcnode_t> of DcServer.cpp as a sequence: erasing entries. *)
EXTENDS Integers, Sequences

\* The functions that list the n indexes in K in ascending order, each once.
Listings(K, n) ==
  {f \in [1..n -> K] : /\ \A i, j \in 1..n : i < j => f[i] < f[j]
                       /\ \A k \in K : \E i \in 1..n : f[i] = k}

\* vector::erase: s reduced to the entries at the indexes in K, in order.  The
\* set has one element.
Keep(s, K) ==
  {[i \in DOMAIN f |-> s[f[i]]] : f \in UNION {Listings(K, n) : n \in 0..Len(s)}}
=============================================================================
