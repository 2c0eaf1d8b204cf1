--------------------------- MODULE MCQueueManager ---------------------------
(* The instances of QueueManager that TLC checks: the options of the command *)
(* line without -p, which gives 1 worker and 2 pending lines, and with -p n, *)
(* which gives n workers and 8 * n pending lines.                            *)
EXTENDS QueueManager

DefaultOptions == <<1, 2>>
Parallel(n)    == <<n, 8 * n>>

OneOrTwo == {DefaultOptions, Parallel(1), Parallel(2)}

Valid == {{}}
SomeMalformed == {{}, {1}, {3, 5}}
=============================================================================
