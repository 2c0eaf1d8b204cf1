---------------------------- MODULE MCWorkerPool ----------------------------
\* The worker pool on a small instance.
EXTENDS WorkerPool
=============================================================================
