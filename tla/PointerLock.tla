---------------------------- MODULE PointerLock ----------------------------
(***************************************************************************)
(* What a locked pointer promises: a cell whose value changes only by the  *)
(* thread that holds it, or in one indivisible exchange while nobody does. *)
(* own is the value a thread brings to the cell and takes away from it.    *)
(***************************************************************************)
CONSTANTS Thread, Ptr, Val, None

VARIABLES cell, holder, own

cellVars == <<cell, holder, own>>

Init ==
  /\ cell \in [Ptr -> Val]
  /\ own \in [Thread -> Val]
  /\ holder = [p \in Ptr |-> None]

Swap(t, p) ==
  /\ cell' = [cell EXCEPT ![p] = own[t]]
  /\ own' = [own EXCEPT ![t] = cell[p]]

Acquire(t, p) ==
  /\ holder[p] = None
  /\ holder' = [holder EXCEPT ![p] = t]
  /\ UNCHANGED <<cell, own>>

\* The holder leaves, with the value it found or with the one it brought.
Release(t, p) ==
  /\ holder[p] = t
  /\ holder' = [holder EXCEPT ![p] = None]
  /\ Swap(t, p) \/ UNCHANGED <<cell, own>>

Exchange(t, p) ==
  /\ holder[p] = None
  /\ Swap(t, p)
  /\ UNCHANGED holder

Next ==
  \E t \in Thread, p \in Ptr : Acquire(t, p) \/ Release(t, p) \/ Exchange(t, p)

Spec == Init /\ [][Next]_cellVars
=============================================================================
