---------------------------- MODULE MCThreadMsg ----------------------------
\* Thread's message queue on small instances.
EXTENDS ThreadMsg

Mode(pace, sock, num, calls) ==
  [paced |-> pace, sockets |-> sock, serials |-> num, ops |-> calls]

\* A thread with sockets, one that waits for answers, and one that is used as
\* the worker pool uses its threads.
AllModes == {Mode(FALSE, TRUE, 0, {"forever", "timed"}),
             Mode(FALSE, FALSE, 2, {"forever", "timed", "answer"}),
             Mode(TRUE, FALSE, 1, {"timed"})}
Unpaced   == {Mode(FALSE, FALSE, 0, {"forever"})}
Unlimited == {Mode(TRUE, FALSE, 0, {"forever"})}
=============================================================================
