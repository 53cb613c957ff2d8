-------------------------- MODULE MCScatterGather --------------------------
(* ScatterGather on three releases, for every kind of call in the code.    *)
EXTENDS ScatterGather

\* --concurrency 0 and below (one worker per input), fewer workers than inputs, more.
Limits == {-1, 0, 1, 2, 5}

MCCalls == {c \in [limit : Limits, cap : {0, N}, early : BOOLEAN] :
              c.early => c.cap = N}
=============================================================================
