---------------------------- MODULE MCChartCache ----------------------------
(* ChartCache on three workers of two runs, which belong to one process or  *)
(* to two.                                                                  *)
EXTENDS ChartCache, TLC

CONSTANTS a1, a2, a3, r1, r2, p1, p2

MCAgents == {a1, a2, a3}
MCRuns   == {r1, r2}
MCProcs  == {p1, p2}
MCRunOf  == (a1 :> r1) @@ (a2 :> r1) @@ (a3 :> r2)

OneProcess   == (r1 :> p1) @@ (r2 :> p1)
TwoProcesses == (r1 :> p1) @@ (r2 :> p2)

Env(proc, place, refresh, crashes) ==
  [proc |-> proc, place |-> place, refresh |-> refresh, crashes |-> crashes]

\* One process with either place, two processes with the shared place (they
\* share no temporary directory); a process may crash, or not.
MCEnvs ==
  {Env(OneProcess, place, [p \in MCProcs |-> f], TRUE) :
     place \in {"cacheDir", "tempDir"}, f \in BOOLEAN}
  \cup {Env(TwoProcesses, "cacheDir", f, TRUE) : f \in [MCProcs -> BOOLEAN]}

\* Two processes share the cache directory, nothing crashes.
SharedEnvs ==
  {Env(TwoProcesses, "cacheDir", f, FALSE) : f \in [MCProcs -> BOOLEAN]}
=============================================================================
