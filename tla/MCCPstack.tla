------------------------------ MODULE MCCPstack ------------------------------
(***************************************************************************)
(* Four objects for three pairs, two of which share a bucket; an array one *)
(* short of the objects, so that push can fail.                            *)
(***************************************************************************)
EXTENDS CPstack

CONSTANTS n1, n2, n3, n4, k1, k2, k3, b1, b2

MCNodes == {n1, n2, n3, n4}
MCKeys == {k1, k2, k3}
MCBuckets == {b1, b2}
MCkey == [n \in MCNodes |-> CASE n = n1 -> k1 [] n = n2 -> k2 [] n = n3 -> k3 [] n = n4 -> k1]
MCbucketOf == [k \in MCKeys |-> IF k = k3 THEN b2 ELSE b1]
=============================================================================
