------------------------- MODULE MCApplicationCache -------------------------
(***************************************************************************)
(* The cache on a small instance, with what its users said about the times *)
(* of the entries.                                                         *)
(***************************************************************************)
EXTENDS ApplicationCache

VARIABLE told     \* the time last given for each key that was added

MCHash(k) == k

Adds(e, k) == (\E v \in Values : AddResource(e, k, v)) \/ AddKeyResource(e, k)

ToldInit == Init /\ user = "cache" /\ told = NoEntries
ToldNext ==
  \/ \E e \in Times, k \in Keys : Adds(e, k) /\ told' = With(told, k, e)
  \/ (\E t \in Times \cup {0} : Expire(t)) /\ UNCHANGED told
  \/ Clean /\ UNCHANGED told
ToldSpec == ToldInit /\ [][ToldNext]_<<vars, told>>

\* The time given to addResource() "specifies the time the resource expires": an
\* entry that is found is listed under the time its last addition gave.
ExpiresAsTold ==
  \A k \in Keys : findResource(k) # None =>
    told[k] \in DOMAIN timed /\ k \in ToSet(timed[told[k]])
=============================================================================
