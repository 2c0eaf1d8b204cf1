------------------------------ MODULE MCLockp ------------------------------
\* Pointer locks on small instances: who uses which pointer, and buckets.
EXTENDS Lockp, TLC

CONSTANTS t1, t2, t3, p1, p2, v1, v2

CondOwner == [p \in Cond |-> t1]
OneBucket == [p \in Ptr |-> 0]

\* Two pairs of threads, each on a pointer of its own.
TwoPairs == [t \in Thread |-> IF t \in {t1, t2} THEN {p1} ELSE {p2}]
AllOne   == [p \in Ptr |-> v1]
TwoOfOne == [t \in Thread |-> IF t \in {t1, t3} THEN v1 ELSE v2]
Work     == [t \in Thread |-> CASE t = t1 -> {"clock", "cxchg", "creset"}
                                [] t = t2 -> {"cmem", "cxchg"}
                                [] t = t3 -> {"lock"}
                                [] OTHER  -> {"lock", "xchg"}]
=============================================================================
