----------------------------- MODULE MCPrepare -----------------------------
(* Prepare with two releases: of one local chart or of two, to be chartified *)
(* or not, with values or not, for every command.                            *)
EXTENDS Prepare, TLC

CONSTANTS c1, c2

MCCharts == {c1, c2}

Base == [cmd |-> "sync", keep |-> FALSE, workers |-> 2, chart |-> (1 :> c1) @@ (2 :> c2), relative |-> {c1},
         off |-> {}, chartify |-> {1, 2}, remote |-> {}, builds |-> {1, 2}, valued |-> {1, 2}, fresh |-> {}]

\* Preparing charts: the same chart or another one, or none with a
\* Chart.yaml, any number of workers, relative dependencies or not.
ChartInputs ==
  {[Base EXCEPT !.cmd = cmd, !.chart = (1 :> c1) @@ (2 :> c), !.workers = w, !.relative = rel, !.valued = {}] :
     cmd \in {"sync", "pull"}, c \in {c1, c2, NoChart}, w \in 0..2, rel \in {{}, {c1}}}

\* What differs from release to release.
OddInputs ==
  {[Base EXCEPT !.cmd = cmd, !.chartify = {2} \ off, !.off = off, !.remote = {1}, !.fresh = fresh, !.valued = {1} \cup fresh] :
     cmd \in Commands, off \in {{}, {2}}, fresh \in {{}, {2}}}

\* Generating files for helm.
ValuesInputs ==
  {[Base EXCEPT !.cmd = cmd, !.keep = keep, !.chartify = {1}, !.builds = {1}, !.valued = valued] :
     cmd \in Commands, keep \in BOOLEAN, valued \in {{}, {1}, {1, 2}}}

MCInputs == ChartInputs \cup OddInputs \cup ValuesInputs
=============================================================================
