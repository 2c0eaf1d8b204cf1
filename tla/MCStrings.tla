----------------------------- MODULE MCStrings -----------------------------
EXTENDS Strings, NumFormat

\* Two threads with a String each, of ASCII text and of text that is not; one
\* String alone; a String and a BString or a WString that share its buffers; two
\* BStrings.
Program(hs, w, max) == [handles |-> hs, ascii |-> {<<"a">>}, wide |-> {<<w>>}, max |-> max]
MCPrograms == {Program({"s1", "s2"}, "b", 2), Program({"s1", "s2"}, "W", 1), Program({"s1"}, "W", 3),
               Program({"s1", "b1"}, "b", 2), Program({"s1", "w1"}, "W", 1), Program({"b1", "b2"}, "b", 3)}

\* The state without the numbers of the places: what every handle points to, who
\* points to the same, and how much is allocated.
BufAt(j) == IF j = NoRep THEN Free ELSE buf[j]
Shape ==
    <<prog, data[Null], data[Zero], buf[Null], buf[Zero], Cardinality(Live(data)), Cardinality(Live(buf)),
      [h \in use |-> IF h \in Strs
                     THEN <<data[d[h]].rc, data[d[h]].hash, BufAt(data[d[h]].b), BufAt(data[d[h]].w), pend[h].k,
                            {g \in use \cap Strs : d[g] = d[h]}, d[h] \in Static>>
                     ELSE <<buf[d[h]], {d[h]} \cap Static,
                            {x \in use \cap Blobs : d[x] = d[h]},
                            {g \in use \cap Strs : d[h] \in {data[d[g]].b, data[d[g]].w}}>>]>>

\* format() writes integers as C prescribes: FormatsAsPrintf.
FormatExact == Blank => FormatsAsPrintf

MCHash(s) == Cardinality({i \in DOMAIN s : s[i] = "a"})
MCValues == {-300, -8, -1, 0, 1, 7, 10, 255, 1000}
MCWidths == {0, 1, 3, 6, 17}
MCPrecs == {0, 1, 4, 9}
=============================================================================
