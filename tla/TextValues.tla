----------------------------- MODULE TextValues -----------------------------
(***************************************************************************)
(* What a program that uses strings relies on: every handle holds a text   *)
(* of its own.  One step gives one handle a new text, made from the texts  *)
(* it could see, and leaves every other handle alone.                      *)
(***************************************************************************)
EXTENDS TextOps

CONSTANTS Handles, Lits, MaxLen

VARIABLE val    \* val[h] = [null, s]

Text(s) == [null |-> FALSE, s |-> s]
NullText == [null |-> TRUE, s |-> <<>>]

Joined(v, w) == IF w.s = <<>> THEN v ELSE IF v.s = <<>> THEN w ELSE Text(v.s \o w.s)

\* w is a text that a step of handle h may leave in it.
Made(h, w) ==
    LET v == val[h]
        all == {val[g] : g \in Handles} \cup {Text(l) : l \in Lits}
        ends == {Text(u.s) : u \in all} \cup {NullText, Text(<<>>)}
    IN  \/ w \in all \cup ends
        \/ \E u \in all : w \in {Joined(v, u), Text(v.s \o u.s), Text(u.s \o MidFrom(v.s, Len(u.s)))}
        \/ \E p, n \in 0..MaxLen : w \in {Text(Mid(v.s, p, n)), Text(RemoveMid(v.s, p, n))}
        \/ w = Text(TrimSpaces(v.s))
        \/ \E p \in -MaxLen..MaxLen, u \in all : w = Text(Insert(v.s, p, u.s))
        \/ \E l \in Lits, m \in Lits \cup {<<>>} : w = Text(Replace(v.s, l, m))

Init == val = [h \in Handles |-> Text(<<>>)]
Next == \E h \in Handles : /\ \A g \in Handles \ {h} : val'[g] = val[g]
                           /\ Made(h, val'[h])
Spec == Init /\ [][Next]_val
=============================================================================
