--------------------------- MODULE PrepareProofs ---------------------------
(* What the run of Prepare checks on two releases, proved for any number of *)
(* releases, any charts, workers and inputs, and any failures.              *)
EXTENDS Prepare, FiniteSetTheorems, TLAPS

Handling == {"reading", "truncating", "writing", "chartifying", "restoring", "rewriting"}

\* Where a release may be: past the charts it waits or is done; a release
\* with a Chart.yaml at work on is one to be chartified.
PlaceOK(r) ==
  /\ phase # "charts" => at[r] \in {"queued", "done"}
  /\ phase = "charts" /\ at[r] # "done" => r \notin in.off
  /\ at[r] \in Handling => r \in in.chartify
  /\ at[r] \in Handling \ {"chartifying"} => HasYaml(r)

TypeInv == PrepTypeOK /\ \A r \in Releases : PlaceOK(r)

\* A step that concerns one release.
Local(r) ==
  \/ Take(r) \/ TakeAsIs(r) \/ PrepareChartify(r)
  \/ ReadChartYaml(r) \/ TruncateChartYaml(r) \/ WriteChartYaml(r)
  \/ Chartify(r) \/ Restore(r) \/ Rewrite(r) \/ Clean(r)
  \/ BuildDeps(r) \/ PrepareRelease(r) \/ CallHelm(r) \/ Render(r)

\* One that concerns them all.
Global == ResolveFails \/ ChartsPrepared \/ Select \/ ReleasesPrepared \/ HelmCalled \/ RemoveFiles \/ Rendered

\* A command starts with the types right.
LEMMA TypeInit == PrepInit => TypeInv
<1> SUFFICES ASSUME PrepInit PROVE TypeInv
  OBVIOUS
<1>1. in \in Inputs /\ phase \in Phases /\ damaged \subseteq Charts /\ refused \in BOOLEAN
      /\ served \subseteq Releases /\ missing \subseteq Releases
  BY DEF PrepInit, Phases
<1>2. at \in [Releases -> Stages] /\ yaml \in [Charts -> Contents] /\ saved \in [Releases -> Contents]
  BY DEF PrepInit, Stages, Contents
<1>3. there \in [Releases -> SUBSET Parts] /\ recorded \in [Releases -> SUBSET Parts]
  BY DEF PrepInit
<1>4. why \in [Releases -> Failures]
  BY DEF PrepInit, Failures
<1>5. \A r \in Releases : PlaceOK(r)
  BY DEF PrepInit, PlaceOK, Handling
<1> QED BY <1>1, <1>2, <1>3, <1>4, <1>5 DEF TypeInv, PrepTypeOK

\* Files generated are files.
LEMMA PartsType ==
  ASSUME NEW r \in Releases
  PROVE  /\ AllFiles(r) \in SUBSET Parts /\ Known(r) \in SUBSET Parts /\ Removed(r) \in SUBSET Parts
         /\ \A left \in Partly(r) : left \in SUBSET Parts
         /\ \A left \in Remnants("chartValues", "chartSecret") : left \in SUBSET Parts
BY DEF AllFiles, Known, Removed, Partly, Remnants, Parts, ChartParts, ValuesParts, Plain

\* Steps of one release change nothing that belongs to another one, unless
\* they end the phase.
LEMMA Frame ==
  ASSUME PrepTypeOK, NEW r \in Releases, Local(r), phase' = phase, NEW q \in Releases, q # r
  PROVE  /\ at'[q] = at[q] /\ why'[q] = why[q] /\ saved'[q] = saved[q]
         /\ there'[q] = there[q] /\ recorded'[q] = recorded[q]
<1> USE DEF PrepTypeOK, Go, Fail, Generated, chartVars, filesVars, valuesVars
<1>1. CASE Take(r) \/ TakeAsIs(r)
  BY <1>1 DEF Take, TakeAsIs
<1>2. CASE PrepareChartify(r)
  BY <1>2 DEF PrepareChartify
<1>3. CASE ReadChartYaml(r) \/ TruncateChartYaml(r) \/ WriteChartYaml(r)
  BY <1>3 DEF ReadChartYaml, TruncateChartYaml, WriteChartYaml
<1>4. CASE Chartify(r) \/ Restore(r) \/ Rewrite(r) \/ Clean(r)
  BY <1>4 DEF Chartify, Restore, Rewrite, Clean
<1>5. CASE BuildDeps(r)
  BY <1>5 DEF BuildDeps, Enter
<1>6. CASE PrepareRelease(r) \/ CallHelm(r)
  BY <1>6 DEF PrepareRelease, CallHelm
<1>7. CASE Render(r)
  BY <1>7 DEF Render, RenderFails, Enter
<1> QED BY <1>1, <1>2, <1>3, <1>4, <1>5, <1>6, <1>7 DEF Local

\* The input does not change, and with it nothing that follows from it.
LEMMA SameInput == [PrepNext]_prepVars => in' = in
BY DEF PrepNext, prepVars, Returned, ResolveFails, ChartsPrepared, Select, ReleasesPrepared, HelmCalled,
   RemoveFiles, Rendered, Take, TakeAsIs, PrepareChartify, ReadChartYaml, TruncateChartYaml, WriteChartYaml,
   Chartify, Restore, Rewrite, Clean, BuildDeps, PrepareRelease, CallHelm, Render

\* A phase begins with every release queued or done.
LEMMA Entered ==
  ASSUME NEW p, Enter(p)
  PROVE  /\ phase' = p /\ at' \in [Releases -> Stages]
         /\ \A r \in Releases : at'[r] \in {"queued", "done"}
         /\ \A r \in Releases : at'[r] = "queued" => p \in {"deps", "values", "helm"}
BY DEF Enter, Stages

\* A release with a Chart.yaml has one of the charts.
LEMMA ChartType ==
  ASSUME PrepTypeOK, NEW r \in Releases, HasYaml(r)
  PROVE  in.chart[r] \in Charts
BY PrepareAssumption DEF PrepTypeOK, InputType, HasYaml

\* Every step keeps the types.
LEMMA TypeNext == TypeInv /\ [PrepNext]_prepVars => PrepTypeOK'
<1> SUFFICES ASSUME TypeInv, [PrepNext]_prepVars PROVE PrepTypeOK'
  OBVIOUS
<1> USE DEF TypeInv, PrepTypeOK
<1>0. in' \in Inputs
  BY SameInput
<1>f. ASSUME NEW r \in Releases, NEW cause \in Failures, Fail(r, cause) PROVE why' \in [Releases -> Failures]
  BY <1>f DEF Fail
<1>g. ASSUME NEW r \in Releases, NEW files \in SUBSET Parts, NEW known \in SUBSET Parts, Generated(r, files, known)
      PROVE  there' \in [Releases -> SUBSET Parts] /\ recorded' \in [Releases -> SUBSET Parts]
  BY <1>g DEF Generated
<1>1. ASSUME NEW r \in Releases, Take(r) \/ TakeAsIs(r) PROVE PrepTypeOK'
  BY <1>0, <1>1, <1>f DEF Take, TakeAsIs, Go, Stages, Failures, chartVars, filesVars, valuesVars
<1>2. ASSUME NEW r \in Releases, PrepareChartify(r) PROVE PrepTypeOK'
  <2>1. why' \in [Releases -> Failures]
    BY <1>2 DEF PrepareChartify, Fail, Failures
  <2>2. there' \in [Releases -> SUBSET Parts] /\ recorded' \in [Releases -> SUBSET Parts]
    <3>1. {} \in SUBSET Parts /\ {"patch"} \in SUBSET Parts /\ ChartParts \in SUBSET Parts
          /\ ChartParts \cup Plain \in SUBSET Parts
      BY DEF Parts, ChartParts
    <3>2. CASE \E left \in {{}, {"patch"}} : Generated(r, left, {})
      BY <3>1, <3>2, <1>g
    <3>3. CASE \E left \in Remnants("chartValues", "chartSecret") :
                 Generated(r, {"patch"} \cup left, {"patch"})
      <4>1. PICK left \in Remnants("chartValues", "chartSecret") : Generated(r, {"patch"} \cup left, {"patch"})
        BY <3>3
      <4>2. {"patch"} \cup left \in SUBSET Parts
        BY <3>1, PartsType
      <4> QED BY <3>1, <4>1, <4>2, <1>g
    <3>4. CASE Generated(r, ChartParts \cup Plain, ChartParts)
      BY <3>1, <3>4, <1>g
    <3> QED BY <1>2, <3>2, <3>3, <3>4 DEF PrepareChartify
  <2>3. at' \in [Releases -> Stages]
    BY <1>2 DEF PrepareChartify, Go, Stages
  <2> QED BY <1>0, <1>2, <2>1, <2>2, <2>3 DEF PrepareChartify, chartVars, valuesVars
<1>3. ASSUME NEW r \in Releases, ReadChartYaml(r) PROVE PrepTypeOK'
  <2>0. yaml[in.chart[r]] \in Contents
    BY <1>3, ChartType DEF ReadChartYaml, InCharts, At, PlaceOK, Handling
  <2>1. saved' \in [Releases -> Contents]
    BY <1>3, <2>0 DEF ReadChartYaml
  <2>2. at' \in [Releases -> Stages] /\ why' \in [Releases -> Failures]
    BY <1>3 DEF ReadChartYaml, Go, Fail, Stages, Failures
  <2> QED BY <1>0, <1>3, <2>1, <2>2 DEF ReadChartYaml, filesVars, valuesVars
<1>4. ASSUME NEW r \in Releases, TruncateChartYaml(r) \/ WriteChartYaml(r) \/ Restore(r) \/ Rewrite(r)
      PROVE  PrepTypeOK'
  <2>1. in.chart[r] \in Charts
    BY <1>4, ChartType DEF TruncateChartYaml, WriteChartYaml, Restore, Rewrite, InCharts, At, PlaceOK, Handling
  <2>2. yaml' \in [Charts -> Contents]
    BY <1>4 DEF TruncateChartYaml, WriteChartYaml, Restore, Rewrite, SetYaml, Contents
  <2>3. at' \in [Releases -> Stages] /\ why' \in [Releases -> Failures]
    BY <1>4 DEF TruncateChartYaml, WriteChartYaml, Restore, Rewrite, Go, Fail, Stages, Failures
  <2>4. damaged' \subseteq Charts
    BY <1>4, <2>1 DEF TruncateChartYaml, WriteChartYaml, Restore, Rewrite, Damage
  <2> QED BY <1>0, <1>4, <2>2, <2>3, <2>4
             DEF TruncateChartYaml, WriteChartYaml, Restore, Rewrite, filesVars, valuesVars
<1>5. ASSUME NEW r \in Releases, Chartify(r) PROVE PrepTypeOK'
  BY <1>0, <1>5 DEF Chartify, Go, Fail, Stages, Failures, chartVars, filesVars, valuesVars
<1>6. ASSUME NEW r \in Releases, Clean(r) PROVE PrepTypeOK'
  BY <1>0, <1>6 DEF Clean, Left, Go, Stages, chartVars, valuesVars
<1>7. ASSUME NEW r \in Releases, BuildDeps(r) PROVE PrepTypeOK'
  <2>1. at' \in [Releases -> Stages] /\ phase' \in Phases
    BY <1>7, Entered DEF BuildDeps, Go, Stages, Phases
  <2> QED BY <1>0, <1>7, <1>f, <2>1 DEF BuildDeps, Failures, chartVars, filesVars, valuesVars
<1>8. ASSUME NEW r \in Releases, PrepareRelease(r) PROVE PrepTypeOK'
  <2>1. why' \in [Releases -> Failures] /\ at' \in [Releases -> Stages]
    BY <1>8 DEF PrepareRelease, Fail, Go, Failures, Stages
  <2>2. there' \in [Releases -> SUBSET Parts] /\ recorded' \in [Releases -> SUBSET Parts]
    <3>0. {} \in SUBSET Parts
      OBVIOUS
    <3>1. CASE UNCHANGED filesVars
      BY <3>1 DEF filesVars
    <3>2. CASE \E left \in Partly(r) : Generated(r, left, {})
      BY <1>g, <3>0, <3>2, PartsType
    <3>3. CASE \E known \in {{}, Known(r)} : Generated(r, AllFiles(r), known)
      BY <1>g, <3>0, <3>3, PartsType
    <3> QED BY <1>8, <3>1, <3>2, <3>3 DEF PrepareRelease
  <2> QED BY <1>0, <1>8, <2>1, <2>2 DEF PrepareRelease, chartVars, valuesVars
<1>9. ASSUME NEW r \in Releases, CallHelm(r) PROVE PrepTypeOK'
  BY <1>0, <1>9, <1>f DEF CallHelm, Serve, Go, Failures, Stages, chartVars, filesVars
<1>10. ASSUME NEW r \in Releases, Render(r) PROVE PrepTypeOK'
  <2>1. why' \in [Releases -> Failures]
    BY <1>10 DEF Render, RenderFails, Fail, Failures
  <2>2. there' \in [Releases -> SUBSET Parts] /\ recorded' \in [Releases -> SUBSET Parts]
    <3>0. {} \in SUBSET Parts
      OBVIOUS
    <3>1. CASE \E left \in Partly(r) : Generated(r, left, {})
      BY <1>g, <3>0, <3>1, PartsType
    <3>2. CASE Generated(r, Removed(r), {})
      BY <1>g, <3>0, <3>2, PartsType
    <3> QED BY <1>10, <3>1, <3>2 DEF Render
  <2>3. at' \in [Releases -> Stages] /\ phase' \in Phases
    BY <1>10, Entered DEF Render, RenderFails, Go, Stages, Phases
  <2>4. served' \subseteq Releases /\ missing' \subseteq Releases
    BY <1>10 DEF Render, RenderFails, Serve
  <2> QED BY <1>0, <1>10, <2>1, <2>2, <2>3, <2>4 DEF Render, chartVars
<1>11. CASE Global
  <2>1. at' \in [Releases -> Stages] /\ phase' \in Phases
    BY <1>11, Entered DEF Global, ResolveFails, ChartsPrepared, Select, ReleasesPrepared, HelmCalled,
       RemoveFiles, Rendered, Phases
  <2>2. there' \in [Releases -> SUBSET Parts]
    BY <1>11 DEF Global, ResolveFails, ChartsPrepared, Select, ReleasesPrepared, HelmCalled,
       RemoveFiles, Rendered, Left, filesVars
  <2>3. refused' \in BOOLEAN
    BY <1>11 DEF Global, ResolveFails, ChartsPrepared, Select, ReleasesPrepared, HelmCalled,
       RemoveFiles, Rendered, valuesVars
  <2> QED BY <1>0, <1>11, <2>1, <2>2, <2>3 DEF Global, ResolveFails, ChartsPrepared, Select, ReleasesPrepared,
             HelmCalled, RemoveFiles, Rendered, chartVars, filesVars, valuesVars
<1>12. CASE UNCHANGED prepVars
  BY <1>12 DEF prepVars
<1> QED BY <1>1, <1>2, <1>3, <1>4, <1>5, <1>6, <1>7, <1>8, <1>9, <1>10, <1>11, <1>12
           DEF PrepNext, Global, Returned

\* A step of one release that ends the phase ends the call, with an error.
LEMMA EndsEarly ==
  ASSUME PrepTypeOK, NEW r \in Releases, Local(r), phase' # phase
  PROVE  /\ phase' = "returned" /\ Enter("returned")
         /\ BuildDeps(r) \/ Render(r)
         /\ \E cause \in Failures \ {"none"} : Fail(r, cause)
<1>1. BuildDeps(r) \/ Render(r)
  BY DEF Local, Take, TakeAsIs, PrepareChartify, ReadChartYaml, TruncateChartYaml, WriteChartYaml, Chartify,
     Restore, Rewrite, Clean, PrepareRelease, CallHelm
<1>2. CASE BuildDeps(r)
  BY <1>2 DEF BuildDeps, Enter, Failures
<1>3. CASE Render(r)
  <2>1. Enter("returned")
    BY <1>3 DEF Render, RenderFails
  <2>2. Fail(r, "generation") \/ Fail(r, "preparation") \/ Fail(r, "helm")
    BY <1>3 DEF Render, RenderFails
  <2> QED BY <1>1, <2>1, <2>2 DEF Enter, Failures
<1> QED BY <1>1, <1>2, <1>3

\* Every step keeps each release in its place.
LEMMA PlaceNext == TypeInv /\ [PrepNext]_prepVars => \A q \in Releases : PlaceOK(q)'
<1> SUFFICES ASSUME TypeInv, [PrepNext]_prepVars, NEW q \in Releases PROVE PlaceOK(q)'
  OBVIOUS
<1> USE DEF TypeInv
<1>0. in' = in /\ (HasYaml(q)' <=> HasYaml(q))
  BY SameInput DEF HasYaml
<1>1. ASSUME NEW r \in Releases, Local(r), phase' = phase, q # r PROVE PlaceOK(q)'
  <2>1. at'[q] = at[q]
    BY <1>1, Frame
  <2> QED BY <1>0, <1>1, <2>1 DEF PlaceOK
<1>2. ASSUME Local(q), phase' = phase PROVE PlaceOK(q)'
  <2> USE <1>0, <1>2 DEF PlaceOK, PrepTypeOK, Go, At, InCharts, Handling
  <2>1. CASE Take(q) \/ TakeAsIs(q) \/ PrepareChartify(q)
    BY <2>1 DEF Take, TakeAsIs, PrepareChartify
  <2>2. CASE ReadChartYaml(q) \/ TruncateChartYaml(q) \/ WriteChartYaml(q)
    BY <2>2 DEF ReadChartYaml, TruncateChartYaml, WriteChartYaml
  <2>3. CASE Chartify(q) \/ Restore(q) \/ Rewrite(q) \/ Clean(q)
    BY <2>3 DEF Chartify, Restore, Rewrite, Clean
  <2>4. CASE BuildDeps(q) \/ PrepareRelease(q) \/ CallHelm(q)
    BY <2>4 DEF BuildDeps, PrepareRelease, CallHelm, Enter
  <2>5. CASE Render(q)
    BY <2>5 DEF Render, RenderFails, Enter
  <2> QED BY <2>1, <2>2, <2>3, <2>4, <2>5 DEF Local
<1>e. ASSUME NEW p \in Phases \ {"charts"}, Enter(p) PROVE PlaceOK(q)'
  BY <1>e, Entered DEF PlaceOK, Handling
<1>3. ASSUME NEW r \in Releases, Local(r), phase' # phase PROVE PlaceOK(q)'
  <2>1. Enter("returned")
    BY <1>3, EndsEarly
  <2> QED BY <2>1, <1>e DEF Phases
<1>4. CASE Global
  <2>1. \E p \in Phases \ {"charts"} : Enter(p)
    BY <1>4 DEF Global, ResolveFails, ChartsPrepared, Select, ReleasesPrepared, HelmCalled,
       RemoveFiles, Rendered, Phases
  <2> QED BY <2>1, <1>e
<1>5. CASE UNCHANGED prepVars
  BY <1>5 DEF prepVars, PlaceOK, HasYaml
<1> QED BY <1>1, <1>2, <1>3, <1>4, <1>5 DEF PrepNext, Local, Global, Returned

\* The variables have their types, whatever the command and its input, and
\* releases are where PlaceOK says.
THEOREM PrepTypes == PrepSpec => []TypeInv
<1>1. TypeInv /\ [PrepNext]_prepVars => TypeInv'
  BY TypeNext, PlaceNext DEF TypeInv
<1> QED BY TypeInit, <1>1, PTL DEF PrepSpec

-----------------------------------------------------------------------------
Early == {"queued", "patching", "reading", "truncating", "writing", "chartifying"}

\* What can have failed for a release, in each phase: a phase begins when
\* the one before has gone well, as far as that concerns the release.
WhyOK(r) ==
  /\ phase = "charts" => why[r] \in {"none", "chart", "generation"}
  /\ phase = "charts" /\ at[r] \in Early => why[r] = "none"
  /\ phase = "deps" => why[r] = "none"
  /\ phase = "values" /\ At(r, "queued") => why[r] = "none"
  /\ phase = "values" /\ Batch => why[r] \in {"none", "generation", "preparation"}
  /\ phase = "helm" => why[r] \in {"none", "helm"}

WhyInv == TypeInv /\ \A r \in Releases : WhyOK(r)

\* Nothing has failed at the start.
LEMMA WhyInit == PrepInit => \A r \in Releases : WhyOK(r)
BY DEF PrepInit, WhyOK

\* Every step keeps the reasons of the failures in order.
LEMMA WhyNext == WhyInv /\ [PrepNext]_prepVars => \A q \in Releases : WhyOK(q)'
<1> SUFFICES ASSUME WhyInv, [PrepNext]_prepVars, NEW q \in Releases PROVE WhyOK(q)'
  OBVIOUS
<1> USE DEF WhyInv, TypeInv
<1>0. in' = in /\ (Batch' <=> Batch) /\ why[q] \in Failures
  BY SameInput DEF Batch, PrepTypeOK
<1>1. ASSUME NEW r \in Releases, Local(r), phase' = phase, q # r PROVE WhyOK(q)'
  <2>1. at'[q] = at[q] /\ why'[q] = why[q]
    BY <1>1, Frame
  <2> QED BY <1>0, <1>1, <2>1 DEF WhyOK, At
<1>2. ASSUME Local(q), phase' = phase PROVE WhyOK(q)'
  <2> USE <1>0, <1>2 DEF WhyOK, PrepTypeOK, Go, At, InCharts, Early, Fail, chartVars, filesVars, valuesVars
  <2>1. CASE Take(q) \/ TakeAsIs(q) \/ PrepareChartify(q)
    BY <2>1 DEF Take, TakeAsIs, PrepareChartify
  <2>2. CASE ReadChartYaml(q) \/ TruncateChartYaml(q) \/ WriteChartYaml(q)
    BY <2>2 DEF ReadChartYaml, TruncateChartYaml, WriteChartYaml
  <2>3. CASE Chartify(q) \/ Restore(q) \/ Rewrite(q) \/ Clean(q)
    BY <2>3 DEF Chartify, Restore, Rewrite, Clean
  <2>4. CASE BuildDeps(q) \/ PrepareRelease(q) \/ CallHelm(q)
    BY <2>4 DEF BuildDeps, PrepareRelease, CallHelm, Enter
  <2>5. CASE Render(q)
    BY <2>5 DEF Render, RenderFails, Enter
  <2> QED BY <2>1, <2>2, <2>3, <2>4, <2>5 DEF Local
<1>3. ASSUME NEW r \in Releases, Local(r), phase' # phase PROVE WhyOK(q)'
  <2>1. phase' = "returned"
    BY <1>3, EndsEarly
  <2> QED BY <2>1 DEF WhyOK
<1>4. CASE Global
  <2>0. why' = why
    BY <1>4 DEF Global, ResolveFails, ChartsPrepared, Select, ReleasesPrepared, HelmCalled, RemoveFiles, Rendered
  <2>1. CASE ResolveFails \/ RemoveFiles \/ Rendered \/ HelmCalled
    <3>1. phase' \in {"returned", "clean"}
      BY <2>1 DEF ResolveFails, RemoveFiles, Rendered, HelmCalled, Enter
    <3> QED BY <3>1 DEF WhyOK
  <2>2. CASE ChartsPrepared
    <3>1. phase' = "deps" => why[q] = "none"
      BY <1>0, <2>2 DEF ChartsPrepared, Enter, Failed, WhyOK
    <3>2. phase' \in {"deps", "returned"}
      BY <2>2 DEF ChartsPrepared, Enter
    <3> QED BY <2>0, <3>1, <3>2 DEF WhyOK
  <2>3. CASE Select
    <3>1. why[q] = "none" /\ phase' \in {"values", "returned"}
      BY <2>3 DEF Select, Enter, WhyOK
    <3> QED BY <2>0, <3>1 DEF WhyOK
  <2>4. CASE ReleasesPrepared
    <3>1. phase' = "helm" => why[q] = "none"
      BY <1>0, <2>4 DEF ReleasesPrepared, Enter, Failed, WhyOK
    <3>2. phase' \in {"helm", "clean"}
      BY <2>4 DEF ReleasesPrepared, Enter
    <3> QED BY <2>0, <3>1, <3>2 DEF WhyOK
  <2> QED BY <1>4, <2>1, <2>2, <2>3, <2>4 DEF Global
<1>5. CASE UNCHANGED prepVars
  BY <1>0, <1>5 DEF prepVars, WhyOK, At
<1> QED BY <1>1, <1>2, <1>3, <1>4, <1>5 DEF PrepNext, Local, Global, Returned

\* The first failure of a release is what is remembered of it.
LEMMA WhyStays ==
  ASSUME TypeInv, [PrepNext]_prepVars, NEW q \in Releases
  PROVE  why[q] # "none" => why'[q] = why[q]
<1> USE DEF TypeInv, PrepTypeOK, Fail
<1>1. ASSUME NEW r \in Releases, Local(r) PROVE why' = why \/ \E cause \in Failures : Fail(r, cause)
  <2> USE DEF Failures
  <2>1. CASE Take(r) \/ TakeAsIs(r) \/ PrepareChartify(r)
    BY <2>1 DEF Take, TakeAsIs, PrepareChartify
  <2>2. CASE ReadChartYaml(r) \/ TruncateChartYaml(r) \/ WriteChartYaml(r) \/ Chartify(r)
    BY <2>2 DEF ReadChartYaml, TruncateChartYaml, WriteChartYaml, Chartify
  <2>3. CASE Restore(r) \/ Rewrite(r) \/ Clean(r)
    BY <2>3 DEF Restore, Rewrite, Clean
  <2>4. CASE BuildDeps(r) \/ PrepareRelease(r) \/ CallHelm(r)
    BY <2>4 DEF BuildDeps, PrepareRelease, CallHelm
  <2>5. CASE Render(r)
    BY <2>5 DEF Render, RenderFails
  <2> QED BY <1>1, <2>1, <2>2, <2>3, <2>4, <2>5 DEF Local
<1>2. ASSUME NEW r \in Releases, Local(r) PROVE why[q] # "none" => why'[q] = why[q]
  <2>1. ASSUME NEW cause \in Failures, Fail(r, cause) PROVE why[q] # "none" => why'[q] = why[q]
    BY <2>1
  <2> QED BY <1>1, <1>2, <2>1
<1>3. CASE Global \/ UNCHANGED prepVars
  BY <1>3 DEF Global, ResolveFails, ChartsPrepared, Select, ReleasesPrepared, HelmCalled, RemoveFiles, Rendered,
     prepVars
<1> QED BY <1>2, <1>3 DEF PrepNext, Local, Global, Returned

\* The files of a release are touched by its own steps, and removed by
\* RemoveFiles.
LEMMA FilesFrame ==
  ASSUME TypeInv, NEW r \in Releases, Local(r), NEW q \in Releases, q # r
  PROVE  there'[q] = there[q] /\ recorded'[q] = recorded[q]
<1> USE DEF TypeInv, PrepTypeOK, Generated, filesVars
<1>1. CASE PrepareChartify(r)
  BY <1>1 DEF PrepareChartify
<1>2. CASE Clean(r)
  BY <1>2 DEF Clean
<1>3. CASE PrepareRelease(r)
  BY <1>3 DEF PrepareRelease
<1>4. CASE Render(r)
  BY <1>4 DEF Render
<1> QED BY <1>1, <1>2, <1>3, <1>4 DEF Local, Take, TakeAsIs, ReadChartYaml, TruncateChartYaml, WriteChartYaml,
           Chartify, Restore, Rewrite, BuildDeps, CallHelm

-----------------------------------------------------------------------------
(* Nothing is left behind *)

\* Files nobody knows of any more: of a generation that failed half way, and
\* of a release diff could not prepare.
Lost(r) == why[r] = "generation" \/ (in.cmd = "diff" /\ why[r] = "preparation")
Swept(r) == there[r] \subseteq Plain \/ Lost(r)

\* What exists is known, and swept between the uses.
FilesOK(r) ==
  /\ there[r] \subseteq recorded[r] \cup Plain \/ Lost(r)
  /\ phase \in {"deps", "returned"} => Swept(r)
  /\ phase = "charts" /\ at[r] \in {"queued", "patching", "done"} => Swept(r)
  /\ phase = "values" /\ (~Batch \/ At(r, "queued")) => Swept(r)

FilesInv == WhyInv /\ (~in.keep => \A r \in Releases : FilesOK(r))

\* There are no generated files at the start.
LEMMA FilesInit == PrepInit => \A r \in Releases : FilesOK(r)
BY DEF PrepInit, FilesOK, Swept

\* Every step leaves only generated files that are still to be removed.
LEMMA FilesNext ==
  ASSUME FilesInv, [PrepNext]_prepVars, ~in.keep, NEW q \in Releases
  PROVE  FilesOK(q)'
<1> USE DEF FilesInv, WhyInv, TypeInv
<1>0. in' = in /\ (Batch' <=> Batch) /\ FilesOK(q) /\ WhyOK(q) /\ PrepTypeOK
  BY SameInput DEF Batch
<1>l. Lost(q) => Lost(q)'
  BY <1>0, WhyStays DEF Lost
<1>1. ASSUME NEW r \in Releases, Local(r), phase' = phase, q # r PROVE FilesOK(q)'
  <2>1. at'[q] = at[q] /\ there'[q] = there[q] /\ recorded'[q] = recorded[q]
    BY <1>0, <1>1, Frame
  <2> QED BY <1>0, <1>l, <1>1, <2>1 DEF FilesOK, Swept, At
<1>2. ASSUME Local(q), phase' = phase PROVE FilesOK(q)'
  <2> USE <1>0, <1>l, <1>2 DEF FilesOK, Swept, PrepTypeOK, Go, At, InCharts
  <2>1. CASE Take(q) \/ TakeAsIs(q)
    BY <2>1 DEF Take, TakeAsIs, filesVars
  <2>2. CASE PrepareChartify(q)
    <3>1. at'[q] \notin {"queued", "patching", "done"} /\ phase' = "charts"
      BY <2>2 DEF PrepareChartify
    <3>2. Swept(q)
      BY <2>2 DEF PrepareChartify
    <3>3. CASE Fail(q, "generation")
      BY <2>2, <3>1, <3>3 DEF PrepareChartify, Fail, Lost, WhyOK, Early
    <3>4. CASE Generated(q, ChartParts \cup Plain, ChartParts)
      BY <3>1, <3>2, <3>4 DEF Generated
    <3> QED BY <2>2, <3>3, <3>4 DEF PrepareChartify
  <2>3. CASE ReadChartYaml(q) \/ TruncateChartYaml(q) \/ WriteChartYaml(q)
    BY <2>3 DEF ReadChartYaml, TruncateChartYaml, WriteChartYaml, filesVars
  <2>4. CASE Chartify(q) \/ Restore(q) \/ Rewrite(q)
    BY <2>4 DEF Chartify, Restore, Rewrite, filesVars
  <2>5. CASE Clean(q)
    <3>1. phase' = "charts" /\ there'[q] = there[q] \ recorded[q] /\ recorded'[q] = {}
      BY <2>5 DEF Clean, Left
    <3> QED BY <3>1
  <2>6. CASE BuildDeps(q) \/ CallHelm(q)
    BY <2>6 DEF BuildDeps, CallHelm, filesVars, Enter
  <2>7. CASE PrepareRelease(q)
    <3>1. at'[q] = "done" /\ phase' = "values" /\ Batch /\ Swept(q) /\ why[q] = "none"
      BY <2>7 DEF PrepareRelease, WhyOK
    <3>2. CASE UNCHANGED filesVars
      BY <3>1, <3>2 DEF filesVars
    <3>3. CASE Generated(q, AllFiles(q), Known(q))
      BY <3>1, <3>3 DEF Generated, AllFiles, Known
    <3>4. CASE Fail(q, "generation")
      BY <3>1, <3>4 DEF Fail, Lost
    <3>5. CASE Fail(q, "preparation") /\ in.cmd # "sync"
      BY <3>1, <3>5 DEF Fail, Lost, Batch
    <3> QED BY <2>7, <3>2, <3>3, <3>4, <3>5 DEF PrepareRelease
  <2>8. CASE Render(q)
    <3>1. at'[q] = "done" /\ phase' = "values" /\ ~Batch /\ Swept(q) /\ why[q] = "none"
      BY <2>8 DEF Render, RenderFails, Enter, WhyOK
    <3>2. CASE Generated(q, Removed(q), {})
      BY <3>1, <3>2 DEF Generated, Removed, AllFiles, Known
    <3>3. CASE Fail(q, "generation")
      BY <3>1, <3>3 DEF Fail, Lost
    <3> QED BY <2>8, <3>2, <3>3 DEF Render, RenderFails
  <2> QED BY <2>1, <2>2, <2>3, <2>4, <2>5, <2>6, <2>7, <2>8 DEF Local
<1>3. ASSUME NEW r \in Releases, Local(r), phase' # phase PROVE FilesOK(q)'
  <2>1. phase' = "returned"
    BY <1>0, <1>3, EndsEarly
  <2>2. Swept(q)
    <3>1. CASE BuildDeps(r)
      BY <1>0, <3>1 DEF BuildDeps, FilesOK
    <3>2. CASE Render(r)
      BY <1>0, <3>2 DEF Render, FilesOK
    <3> QED BY <1>0, <1>3, <3>1, <3>2, EndsEarly
  <2>3. Swept(q)'
    <3>1. CASE q # r
      BY <1>l, <1>3, <2>2, <3>1, FilesFrame DEF Swept
    <3>2. CASE BuildDeps(r)
      BY <1>l, <2>2, <3>2 DEF BuildDeps, filesVars, Swept
    <3>3. CASE q = r /\ Render(r)
      <4>0. why[q] = "none"
        BY <1>0, <3>3 DEF Render, WhyOK
      <4>1. CASE Generated(q, Removed(q), {})
        BY <1>0, <1>l, <2>2, <4>1 DEF Generated, Removed, AllFiles, Known, Swept, PrepTypeOK
      <4>2. CASE Fail(q, "generation")
        BY <1>0, <4>0, <4>2 DEF Fail, Lost, Swept, PrepTypeOK
      <4> QED BY <3>3, <4>1, <4>2 DEF Render, RenderFails
    <3> QED BY <1>0, <1>3, <3>1, <3>2, <3>3, EndsEarly
  <2> QED BY <2>1, <2>3 DEF FilesOK, Swept
<1>4. CASE Global
  <2>0. why' = why
    BY <1>4 DEF Global, ResolveFails, ChartsPrepared, Select, ReleasesPrepared, HelmCalled, RemoveFiles, Rendered
  <2>1. CASE RemoveFiles
    <3>1. phase' = "returned" /\ there'[q] = there[q] \ recorded[q]
      BY <1>0, <2>1 DEF RemoveFiles, Enter, Left
    <3> QED BY <1>0, <1>l, <3>1 DEF FilesOK, Swept
  <2>2. CASE ResolveFails \/ ChartsPrepared \/ Select \/ Rendered
    <3>1. UNCHANGED <<there, recorded>>
      BY <2>2 DEF ResolveFails, ChartsPrepared, Select, Rendered, filesVars
    <3>2. Swept(q)
      <4>1. CASE ResolveFails
        BY <1>0, <4>1 DEF ResolveFails, FilesOK, At, PlaceOK
      <4>2. CASE ChartsPrepared
        BY <1>0, <4>2 DEF ChartsPrepared, FilesOK, AllDone, At
      <4>3. CASE Select \/ Rendered
        BY <1>0, <4>3 DEF Select, Rendered, FilesOK
      <4> QED BY <2>2, <4>1, <4>2, <4>3
    <3> QED BY <1>0, <1>l, <3>1, <3>2 DEF FilesOK, Swept
  <2>3. CASE ReleasesPrepared \/ HelmCalled
    <3>1. phase' \in {"clean", "helm"} /\ UNCHANGED <<there, recorded>>
      BY <2>3 DEF ReleasesPrepared, HelmCalled, Enter, filesVars
    <3> QED BY <1>0, <1>l, <3>1 DEF FilesOK
  <2> QED BY <1>4, <2>1, <2>2, <2>3 DEF Global
<1>5. CASE UNCHANGED prepVars
  BY <1>0, <1>5 DEF prepVars, FilesOK, Swept, Lost, At
<1> QED BY <1>1, <1>2, <1>3, <1>4, <1>5 DEF PrepNext, Local, Global, Returned

\* When the command has returned, of the files it generated only those are
\* left that no caller could know of: for any failures, and any workers.
THEOREM LeavesNothing == PrepSpec => []NothingLeft
<1>1. FilesInv /\ [PrepNext]_prepVars => FilesInv'
  <2> SUFFICES ASSUME FilesInv, [PrepNext]_prepVars PROVE FilesInv'
    OBVIOUS
  <2>1. WhyInv'
    BY TypeNext, PlaceNext, WhyNext DEF FilesInv, WhyInv, TypeInv
  <2>2. ~in'.keep => \A q \in Releases : FilesOK(q)'
    BY SameInput, FilesNext
  <2> QED BY <2>1, <2>2 DEF FilesInv
<1>2. PrepInit => FilesInv
  BY TypeInit, WhyInit, FilesInit DEF FilesInv, WhyInv
<1>3. FilesInv => NothingLeft
  BY DEF FilesInv, FilesOK, Swept, Lost, NothingLeft
<1> QED BY <1>1, <1>2, <1>3, PTL DEF PrepSpec

-----------------------------------------------------------------------------
(* helm finds its files *)

\* A release that sync or diff could prepare has the files helm will read.
FoundOK(r) ==
  /\ phase \in {"values", "helm"} /\ At(r, "queued") => r \in Listed
  /\ phase = "values" /\ Batch /\ r \in Listed /\ At(r, "done") /\ why[r] = "none" =>
       NeedsNone(r) \/ Known(r) \subseteq there[r]
  /\ phase = "helm" /\ r \in Listed => NeedsNone(r) \/ Known(r) \subseteq there[r]

FindInv ==
  /\ WhyInv
  /\ phase \in {"helm", "clean"} => Batch
  /\ HelmFindsFiles
  /\ \A r \in Releases : FoundOK(r)

\* Nothing is missing at the start.
LEMMA FindInit == PrepInit => FindInv
<1> SUFFICES ASSUME PrepInit PROVE FindInv
  OBVIOUS
<1>1. WhyInv
  BY TypeInit, WhyInit DEF WhyInv
<1>2. phase \in {"charts", "deps"} /\ missing = {}
  BY DEF PrepInit
<1> QED BY <1>1, <1>2 DEF FindInv, HelmFindsFiles, FoundOK

\* Every step keeps the files of the releases that helm is still to be called for.
LEMMA FoundNext ==
  ASSUME FindInv, [PrepNext]_prepVars, NEW q \in Releases
  PROVE  FoundOK(q)'
<1> USE DEF FindInv, WhyInv, TypeInv
<1>0. /\ in' = in /\ (Batch' <=> Batch) /\ Listed' = Listed
      /\ (NeedsNone(q)' <=> NeedsNone(q)) /\ Known(q)' = Known(q)
      /\ FoundOK(q) /\ WhyOK(q) /\ PrepTypeOK
  BY SameInput DEF Batch, Listed, NeedsNone, Known, AllFiles
<1>w. why[q] # "none" => why'[q] # "none"
  BY WhyStays
<1>1. ASSUME NEW r \in Releases, Local(r), phase' = phase, q # r PROVE FoundOK(q)'
  <2>1. at'[q] = at[q] /\ there'[q] = there[q]
    BY <1>0, <1>1, Frame
  <2> QED BY <1>0, <1>w, <1>1, <2>1 DEF FoundOK, At
<1>2. ASSUME Local(q), phase' = phase PROVE FoundOK(q)'
  <2>1. CASE phase \notin {"values", "helm"}
    BY <1>2, <2>1 DEF FoundOK
  <2>2. CASE PrepareRelease(q)
    <3>1. at'[q] = "done" /\ phase' = "values"
      BY <1>0, <2>2 DEF PrepareRelease, Go, PrepTypeOK
    <3>2. why'[q] = "none" => NeedsNone(q) \/ Known(q) \subseteq there'[q]
      <4>1. CASE Generated(q, AllFiles(q), Known(q))
        BY <1>0, <4>1 DEF Generated, Known, PrepTypeOK
      <4>2. CASE \E cause \in {"generation", "preparation"} : Fail(q, cause)
        BY <1>0, <4>2 DEF Fail, PrepTypeOK
      <4> QED BY <2>2, <4>1, <4>2 DEF PrepareRelease
    <3> QED BY <1>0, <3>1, <3>2 DEF FoundOK, At
  <2>3. CASE CallHelm(q)
    <3>1. at'[q] = "done" /\ phase' = "helm" /\ phase = "helm" /\ there' = there
      BY <1>0, <2>3 DEF CallHelm, Go, PrepTypeOK, filesVars
    <3> QED BY <1>0, <3>1 DEF FoundOK, At
  <2>4. CASE Render(q)
    <3>1. at'[q] = "done" /\ phase' = "values" /\ ~Batch
      BY <1>0, <1>2, <2>4 DEF Render, RenderFails, Enter, Go, PrepTypeOK
    <3> QED BY <1>0, <3>1 DEF FoundOK, At
  <2> QED BY <1>2, <2>1, <2>2, <2>3, <2>4 DEF Local, Take, TakeAsIs, PrepareChartify, ReadChartYaml,
             TruncateChartYaml, WriteChartYaml, Chartify, Restore, Rewrite, Clean, BuildDeps, InCharts
<1>3. ASSUME NEW r \in Releases, Local(r), phase' # phase PROVE FoundOK(q)'
  BY <1>0, <1>3, EndsEarly DEF FoundOK
<1>4. CASE Global
  <2>1. CASE ResolveFails \/ ChartsPrepared \/ HelmCalled \/ RemoveFiles \/ Rendered
    BY <2>1 DEF ResolveFails, ChartsPrepared, HelmCalled, RemoveFiles, Rendered, Enter, FoundOK
  <2>2. CASE Select
    <3>1. phase' \in {"values", "returned"}
      BY <2>2 DEF Select, Enter
    <3>2. phase' = "values" => at'[q] = IF q \in Listed THEN "queued" ELSE "done"
      BY <2>2 DEF Select, Enter
    <3> QED BY <1>0, <3>1, <3>2 DEF FoundOK, At
  <2>3. CASE ReleasesPrepared
    <3>1. phase' \in {"helm", "clean"} /\ there' = there
      BY <2>3 DEF ReleasesPrepared, Enter, filesVars
    <3>2. phase' = "helm" => at'[q] = IF q \in Listed THEN "queued" ELSE "done"
      BY <2>3 DEF ReleasesPrepared, Enter
    <3>3. phase' = "helm" /\ q \in Listed => NeedsNone(q) \/ Known(q) \subseteq there[q]
      BY <1>0, <2>3 DEF ReleasesPrepared, Enter, AllDone, Failed, WhyOK, FoundOK
    <3> QED BY <1>0, <3>1, <3>2, <3>3 DEF FoundOK, At
  <2> QED BY <1>4, <2>1, <2>2, <2>3 DEF Global
<1>5. CASE UNCHANGED prepVars
  BY <1>0, <1>5 DEF prepVars, FoundOK, At
<1> QED BY <1>1, <1>2, <1>3, <1>4, <1>5 DEF PrepNext, Local, Global, Returned

\* A step that calls helm finds the files it needs.
LEMMA NoneMissing ==
  ASSUME FindInv, [PrepNext]_prepVars
  PROVE  HelmFindsFiles'
<1> USE DEF FindInv, WhyInv, TypeInv
<1>0. in' = in /\ (Batch' <=> Batch)
  BY SameInput DEF Batch
<1>1. ASSUME NEW r \in Releases, CallHelm(r) PROVE missing' = missing
  BY <1>1 DEF CallHelm, FoundOK, Serve
<1>2. ASSUME NEW r \in Releases, Render(r), Batch \/ in.keep PROVE missing' = missing
  <2>1. Known(r) \subseteq there'[r] \/ missing' = missing
    BY <1>2 DEF Render, RenderFails, Generated, Removed, Known, PrepTypeOK
  <2> QED BY <1>2, <2>1 DEF Render, RenderFails, Serve
<1>3. ASSUME NEW r \in Releases, Local(r), ~CallHelm(r), ~Render(r) PROVE missing' = missing
  BY <1>3 DEF Local, Take, TakeAsIs, PrepareChartify, ReadChartYaml, TruncateChartYaml, WriteChartYaml,
     Chartify, Restore, Rewrite, Clean, BuildDeps, PrepareRelease, valuesVars
<1>4. CASE Global \/ UNCHANGED prepVars
  <2>1. missing' = missing
    BY <1>4 DEF Global, ResolveFails, ChartsPrepared, Select, ReleasesPrepared, HelmCalled, RemoveFiles,
       Rendered, valuesVars, prepVars
  <2> QED BY <1>0, <2>1 DEF HelmFindsFiles
<1> QED BY <1>0, <1>1, <1>2, <1>3, <1>4 DEF PrepNext, Local, Global, Returned, HelmFindsFiles

\* The files of a release exist when helm reads them: for sync and diff,
\* whatever fails, and for all commands when files are kept.
THEOREM FindsFiles == PrepSpec => []HelmFindsFiles
<1>1. FindInv /\ [PrepNext]_prepVars => FindInv'
  <2> SUFFICES ASSUME FindInv, [PrepNext]_prepVars PROVE FindInv'
    OBVIOUS
  <2>1. WhyInv'
    BY TypeNext, PlaceNext, WhyNext DEF FindInv, WhyInv, TypeInv
  <2>2. phase' \in {"helm", "clean"} => Batch'
    <3>0. Batch' <=> Batch
      BY SameInput DEF Batch
    <3>1. ASSUME NEW r \in Releases, Local(r) PROVE phase' \in {phase, "returned"}
      BY <3>1, EndsEarly DEF FindInv, WhyInv, TypeInv
    <3>2. Global => Batch \/ phase' \notin {"helm", "clean"}
      BY DEF Global, ResolveFails, ChartsPrepared, Select, ReleasesPrepared, HelmCalled, RemoveFiles, Rendered,
         Enter, FindInv
    <3>3. UNCHANGED prepVars => phase' = phase
      BY DEF prepVars
    <3> QED BY <3>0, <3>1, <3>2, <3>3 DEF FindInv, PrepNext, Local, Global, Returned
  <2>3. \A q \in Releases : FoundOK(q)'
    BY FoundNext
  <2> QED BY <2>1, <2>2, <2>3, NoneMissing DEF FindInv
<1>2. FindInv => HelmFindsFiles
  BY DEF FindInv
<1> QED BY FindInit, <1>1, <1>2, PTL DEF PrepSpec

-----------------------------------------------------------------------------
(* All are served, or an error is told *)

NoFailure == \A r \in Releases : why[r] = "none"

\* sync and diff call helm for nothing before all is prepared, and every
\* command, while nothing has failed, for what it is done with.
Untouched == phase \in {"charts", "deps"} \/ (phase = "values" /\ Batch) => served = {}
Prepared  == Batch /\ served # {} => \A r \in Releases : why[r] \in {"none", "helm"}
Serving   == NoFailure /\ (phase = "helm" \/ (phase = "values" /\ ~Batch)) =>
               \A r \in Listed : At(r, "done") => r \in served
Complete  == NoFailure /\ ~refused /\ in.cmd # "pull" /\ phase \in {"clean", "returned"} => Listed \subseteq served
OnlyListed == /\ served \subseteq Listed
              /\ phase \in {"values", "helm"} => \A r \in Releases : At(r, "queued") => r \in Listed
              /\ phase \in {"helm", "clean"} => Batch

ServedInv == WhyInv /\ Untouched /\ Prepared /\ Serving /\ Complete /\ OnlyListed

\* No release is served at the start.
LEMMA ServedInit == PrepInit => ServedInv
<1> SUFFICES ASSUME PrepInit PROVE ServedInv
  OBVIOUS
<1>1. WhyInv
  BY TypeInit, WhyInit DEF WhyInv
<1>2. phase \in {"charts", "deps"} /\ served = {}
  BY DEF PrepInit
<1> QED BY <1>1, <1>2 DEF ServedInv, Untouched, Prepared, Serving, Complete, OnlyListed

\* A failure stays a failure.
LEMMA FailureStays ==
  ASSUME TypeInv, [PrepNext]_prepVars
  PROVE  NoFailure' => NoFailure
BY WhyStays DEF NoFailure

\* The steps before helm is called for anything.
LEMMA Preparing ==
  ASSUME ServedInv, [PrepNext]_prepVars, NEW r \in Releases,
         Local(r), phase' = phase, ~CallHelm(r), ~Render(r)
  PROVE  /\ UNCHANGED <<in, phase, refused, served>>
         /\ phase \in {"charts", "deps"} \/ (phase = "values" /\ Batch)
BY DEF Local, Take, TakeAsIs, PrepareChartify, ReadChartYaml, TruncateChartYaml, WriteChartYaml,
   Chartify, Restore, Rewrite, Clean, BuildDeps, PrepareRelease, InCharts, valuesVars, Enter

\* Every step keeps what is known of the releases served.
LEMMA ServedNext == ServedInv /\ [PrepNext]_prepVars => ServedInv'
<1> SUFFICES ASSUME ServedInv, [PrepNext]_prepVars PROVE ServedInv'
  OBVIOUS
<1> USE DEF ServedInv, WhyInv, TypeInv
<1>0. /\ in' = in /\ (Batch' <=> Batch) /\ Listed' = Listed /\ PrepTypeOK
      /\ (NoFailure' => NoFailure) /\ Listed \subseteq Releases
  BY SameInput, FailureStays DEF Batch, Listed
<1>w. WhyInv'
  BY TypeNext, PlaceNext, WhyNext
<1>1. ASSUME NEW r \in Releases, Local(r), phase' = phase, ~CallHelm(r), ~Render(r) PROVE ServedInv'
  <2>1. /\ UNCHANGED <<in, phase, refused, served>>
        /\ phase \in {"charts", "deps"} \/ (phase = "values" /\ Batch)
    BY <1>1, Preparing
  <2>2. \A q \in Releases : phase = "values" /\ At(q, "queued")' => q \in Listed
    <3> SUFFICES ASSUME NEW q \in Releases, phase = "values", At(q, "queued")' PROVE q \in Listed
      OBVIOUS
    <3>1. CASE q = r
      BY <1>1, <3>1, <2>1 DEF Local, Take, TakeAsIs, PrepareChartify, ReadChartYaml, TruncateChartYaml,
         WriteChartYaml, Chartify, Restore, Rewrite, Clean, BuildDeps, PrepareRelease, InCharts, At, OnlyListed
    <3>2. CASE q # r
      BY <1>0, <1>1, <3>2, Frame DEF At, OnlyListed
    <3> QED BY <3>1, <3>2
  <2>3. Untouched' /\ Prepared'
    BY <1>0, <2>1 DEF Untouched, Prepared
  <2>4. Serving' /\ Complete'
    BY <1>0, <2>1 DEF Serving, Complete
  <2>5. OnlyListed'
    BY <1>0, <2>1, <2>2 DEF OnlyListed
  <2> QED BY <1>w, <2>3, <2>4, <2>5
<1>2. ASSUME NEW r \in Releases, CallHelm(r) PROVE ServedInv'
  <2>1. /\ phase = "helm" /\ phase' = "helm" /\ refused' = refused /\ served' = served \cup {r}
        /\ r \in Listed /\ at' = [at EXCEPT ![r] = "done"]
    BY <1>2 DEF CallHelm, Serve, Go, OnlyListed
  <2>2. Untouched' /\ Complete'
    BY <2>1 DEF Untouched, Complete
  <2>3. Prepared'
    BY <1>w, <2>1 DEF Prepared, WhyOK
  <2>4. Serving'
    BY <1>0, <2>1 DEF Serving, At, PrepTypeOK
  <2>5. OnlyListed'
    BY <1>0, <2>1 DEF OnlyListed, At, PrepTypeOK
  <2> QED BY <1>w, <2>2, <2>3, <2>4, <2>5
<1>3. ASSUME NEW r \in Releases, Render(r), phase' = phase PROVE ServedInv'
  <2>1. /\ phase = "values" /\ ~Batch /\ refused' = refused /\ r \in Listed
        /\ at' = [at EXCEPT ![r] = "done"]
    BY <1>3 DEF Render, RenderFails, Enter, Go, OnlyListed, chartVars
  <2>2. served' \in {served, served \cup {r}}
    BY <1>3 DEF Render, RenderFails, Serve
  <2>3. NoFailure' => r \in served'
    <3>1. ASSUME NEW cause \in Failures \ {"none"}, Fail(r, cause) PROVE ~NoFailure'
      BY <1>0, <3>1 DEF Fail, NoFailure, PrepTypeOK
    <3>2. Failed(Failures \ {"none"}) => ~NoFailure
      BY DEF Failed, NoFailure
    <3>3. {"generation", "preparation", "helm"} \subseteq Failures \ {"none"}
      BY DEF Failures
    <3> QED BY <1>0, <1>3, <3>1, <3>2, <3>3 DEF Render, RenderFails, Serve
  <2>4. Untouched' /\ Complete' /\ Prepared'
    BY <1>0, <1>3, <2>1 DEF Untouched, Complete, Prepared
  <2>5. Serving'
    BY <1>0, <1>3, <2>1, <2>2, <2>3 DEF Serving, At, PrepTypeOK
  <2>6. OnlyListed'
    BY <1>0, <1>3, <2>1, <2>2 DEF OnlyListed, At, PrepTypeOK
  <2> QED BY <1>w, <2>4, <2>5, <2>6
<1>4. ASSUME NEW r \in Releases, Local(r), phase' # phase PROVE ServedInv'
  <2>1. phase' = "returned" /\ (BuildDeps(r) \/ Render(r))
    BY <1>4, EndsEarly
  <2>2. PICK cause \in Failures \ {"none"} : Fail(r, cause)
    BY <1>4, EndsEarly
  <2>3. ~NoFailure'
    BY <1>0, <2>2 DEF Fail, NoFailure, PrepTypeOK
  <2>4. (Batch => served' = {}) /\ served' \subseteq Listed
    <3>1. CASE BuildDeps(r)
      BY <3>1 DEF BuildDeps, Untouched, valuesVars, OnlyListed
    <3>2. CASE Render(r)
      BY <3>2 DEF Render, RenderFails, Serve, OnlyListed
    <3> QED BY <2>1, <3>1, <3>2
  <2>5. Untouched' /\ Prepared' /\ Serving' /\ Complete' /\ OnlyListed'
    BY <1>0, <2>1, <2>3, <2>4 DEF Untouched, Prepared, Serving, Complete, OnlyListed
  <2> QED BY <1>w, <2>5
<1>5. CASE Global
  <2>0. UNCHANGED <<served, why>> /\ (NoFailure' <=> NoFailure)
    BY <1>5 DEF Global, ResolveFails, ChartsPrepared, Select, ReleasesPrepared, HelmCalled, RemoveFiles,
       Rendered, valuesVars, NoFailure
  <2>p. Prepared'
    BY <1>0, <2>0 DEF Prepared
  <2>1. CASE ResolveFails
    <3>1. phase' = "returned" /\ refused'
      BY <2>1 DEF ResolveFails, Enter
    <3> QED BY <1>0, <1>w, <2>0, <2>p, <3>1 DEF Untouched, Serving, Complete, OnlyListed
  <2>2. CASE ChartsPrepared
    <3>1. phase = "charts" /\ phase' \in {"returned", "deps"} /\ (phase' = "returned" => ~NoFailure)
      BY <2>2 DEF ChartsPrepared, Enter, Failed, NoFailure
    <3> QED BY <1>0, <1>w, <2>0, <2>p, <3>1 DEF Untouched, Serving, Complete, OnlyListed
  <2>3. CASE Select
    <3>1. phase = "deps" /\ phase' \in {"values", "returned"} /\ served = {}
      BY <2>3 DEF Select, Enter, Untouched
    <3>2. phase' = "values" => \A r \in Releases : at'[r] = IF r \in Listed THEN "queued" ELSE "done"
      BY <2>3 DEF Select, Enter
    <3>3. phase' = "returned" => in.cmd = "pull" \/ refused'
      BY <2>3 DEF Select, Enter
    <3>4. Untouched' /\ Complete'
      BY <1>0, <2>0, <3>1, <3>3 DEF Untouched, Complete
    <3>5. Serving' /\ OnlyListed'
      BY <1>0, <2>0, <3>1, <3>2 DEF Serving, OnlyListed, At
    <3> QED BY <1>w, <2>p, <3>4, <3>5
  <2>4. CASE ReleasesPrepared
    <3>1. /\ phase = "values" /\ Batch /\ phase' \in {"helm", "clean"} /\ served = {}
          /\ phase' = "clean" => ~NoFailure
      BY <2>4 DEF ReleasesPrepared, Enter, Failed, NoFailure, Untouched
    <3>2. phase' = "helm" => \A r \in Releases : at'[r] = IF r \in Listed THEN "queued" ELSE "done"
      BY <2>4 DEF ReleasesPrepared, Enter
    <3>3. Untouched' /\ Complete'
      BY <1>0, <2>0, <3>1 DEF Untouched, Complete
    <3>4. Serving' /\ OnlyListed'
      BY <1>0, <2>0, <3>1, <3>2 DEF Serving, OnlyListed, At
    <3> QED BY <1>w, <2>p, <3>3, <3>4
  <2>5. CASE HelmCalled \/ Rendered
    <3>1. /\ phase = "helm" \/ (phase = "values" /\ ~Batch)
          /\ phase' \in {"clean", "returned"} /\ (phase' = "clean" => Batch)
          /\ AllDone
      BY <2>5 DEF HelmCalled, Rendered, Enter, OnlyListed
    <3>2. NoFailure => Listed \subseteq served
      BY <1>0, <3>1 DEF Serving, AllDone
    <3> QED BY <1>0, <1>w, <2>0, <2>p, <3>1, <3>2 DEF Untouched, Serving, Complete, OnlyListed
  <2>6. CASE RemoveFiles
    <3>1. phase = "clean" /\ phase' = "returned" /\ refused' = refused
      BY <2>6 DEF RemoveFiles, Enter, valuesVars
    <3> QED BY <1>0, <1>w, <2>0, <2>p, <3>1 DEF Untouched, Serving, Complete, OnlyListed
  <2> QED BY <1>5, <2>1, <2>2, <2>3, <2>4, <2>5, <2>6 DEF Global
<1>6. CASE UNCHANGED prepVars
  <2>1. Untouched' /\ Prepared' /\ Serving' /\ Complete' /\ OnlyListed'
    BY <1>0, <1>6 DEF prepVars, Untouched, Prepared, Serving, Complete, OnlyListed, At, NoFailure
  <2> QED BY <1>w, <2>1
<1> QED BY <1>1, <1>2, <1>3, <1>4, <1>5, <1>6 DEF PrepNext, Local, Global, Returned

\* A command that reports no error has called helm for all its releases, and
\* sync and diff for none of them unless all could be prepared.
THEOREM ServesOrTells == PrepSpec => []ServedOrTold
<1>1. ServedInv => ServedOrTold
  <2> SUFFICES ASSUME ServedInv PROVE ServedOrTold
    OBVIOUS
  <2>1. ~Failed(Failures \ {"none"}) => NoFailure
    BY DEF ServedInv, WhyInv, TypeInv, PrepTypeOK, Failed, NoFailure
  <2>2. Batch /\ served # {} => ~Failed({"chart", "generation", "preparation", "deps"})
    BY DEF ServedInv, Prepared, Failed
  <2> QED BY <2>1, <2>2 DEF ServedInv, Complete, OnlyListed, ServedOrTold
<1> QED BY ServedInit, ServedNext, <1>1, PTL DEF PrepSpec

-----------------------------------------------------------------------------
(* Charts are restored *)

\* A pool of one worker has one release at a time.
Alone ==
  in.workers = 1 =>
    \A q, r \in Releases : at[q] \notin {"queued", "done"} /\ at[r] \notin {"queued", "done"} => q = r

\* While a release is between its first and its last write to Chart.yaml, the
\* file is what it has made of it; otherwise the file is as it was.
Busy == Handling \ {"reading"}
Rewritten(c) == IF c \in in.relative THEN "absolute" ELSE "original"
OwnerOK(r, c) ==
  /\ at[r] \in Busy => saved[r] = "original"
  /\ at[r] \in {"reading", "truncating"} => yaml[c] = "original"
  /\ at[r] \in {"truncating", "writing"} => c \in in.relative
  /\ at[r] \in {"chartifying", "restoring"} => yaml[c] = Rewritten(c)

YamlOK(c) ==
  /\ (\A r \in Releases : in.chart[r] = c => at[r] \notin Busy) => yaml[c] = "original"
  /\ \A r \in Releases : in.chart[r] = c => OwnerOK(r, c)

YamlInv ==
  /\ TypeInv /\ Alone
  /\ \A c \in Charts : Shared(c) \/ c \in damaged \/ YamlOK(c)

\* No Chart.yaml is touched at the start.
LEMMA YamlInit == PrepInit => YamlInv
<1> SUFFICES ASSUME PrepInit PROVE YamlInv
  OBVIOUS
<1>1. TypeInv
  BY TypeInit
<1>2. \A r \in Releases : at[r] \in {"queued", "done"}
  BY DEF PrepInit
<1>3. \A c \in Charts : yaml[c] = "original"
  BY DEF PrepInit
<1> QED BY <1>1, <1>2, <1>3 DEF YamlInv, Alone, YamlOK, OwnerOK, Busy, Handling

\* The number of releases at work is a number.
LEMMA WorkingFinite == IsFiniteSet(Working)
<1>1. IsFiniteSet(Releases)
  BY FS_Interval, PrepareAssumption DEF Releases
<1> QED BY <1>1, FS_Subset DEF Working

\* A single worker has one release at a time.
LEMMA AloneNext == TypeInv /\ Alone /\ [PrepNext]_prepVars => Alone'
<1> SUFFICES ASSUME TypeInv, Alone, [PrepNext]_prepVars PROVE Alone'
  OBVIOUS
<1> USE DEF TypeInv
<1>0. in' = in
  BY SameInput
<1>1. ASSUME NEW r \in Releases, Take(r) PROVE Alone'
  <2>1. in.workers = 1 => \A q \in Releases : at[q] \in {"queued", "done"}
    <3> SUFFICES ASSUME in.workers = 1 PROVE Working = {}
      BY DEF Working
    <3>1. Cardinality(Working) < 1 /\ Cardinality(Working) \in Nat
      BY <1>1, WorkingFinite, FS_CardinalityType DEF Take
    <3> QED BY <3>1, WorkingFinite, FS_EmptySet
  <2>2. \A q \in Releases : q # r => at'[q] = at[q]
    BY <1>1, Frame DEF Local, Take
  <2> QED BY <1>0, <2>1, <2>2 DEF Alone
<1>2. ASSUME NEW r \in Releases, Local(r), ~Take(r), phase' = phase PROVE Alone'
  <2>1. at'[r] \notin {"queued", "done"} => at[r] \notin {"queued", "done"}
    BY <1>2 DEF Local, TakeAsIs, PrepareChartify, ReadChartYaml, TruncateChartYaml, WriteChartYaml,
       Chartify, Restore, Rewrite, Clean, BuildDeps, PrepareRelease, CallHelm, Render, RenderFails,
       InCharts, At, Go, Enter, PrepTypeOK
  <2>2. \A q \in Releases : q # r => at'[q] = at[q]
    BY <1>2, Frame
  <2> QED BY <1>0, <2>1, <2>2 DEF Alone
<1>3. ASSUME NEW p, Enter(p) PROVE Alone'
  BY <1>3, Entered DEF Alone
<1>4. ASSUME NEW r \in Releases, Local(r), phase' # phase PROVE Alone'
  BY <1>3, <1>4, EndsEarly
<1>5. CASE Global
  <2>1. \E p \in Phases : Enter(p)
    BY <1>5 DEF Global, ResolveFails, ChartsPrepared, Select, ReleasesPrepared, HelmCalled,
       RemoveFiles, Rendered, Phases
  <2> QED BY <2>1, <1>3
<1>6. CASE UNCHANGED prepVars
  BY <1>6 DEF prepVars, Alone
<1> QED BY <1>1, <1>2, <1>4, <1>5, <1>6 DEF PrepNext, Local, Global, Returned

\* Of a chart that is not shared, one release at most is at work.
LEMMA OneOwner ==
  ASSUME TypeInv, Alone, NEW c \in Charts, ~Shared(c), NEW r \in Releases, NEW q \in Releases, q # r,
         in.chart[r] = c, in.chart[q] = c, phase = "charts", r \in in.chartify,
         at[r] \notin {"queued", "done"}
  PROVE  at[q] \notin Handling
<1> SUFFICES ASSUME at[q] \in Handling PROVE FALSE
  OBVIOUS
<1>1. at[q] \notin {"queued", "done"}
  BY DEF Handling
<1>2. q \in in.chartify \ in.off /\ r \in in.chartify \ in.off
  BY <1>1 DEF TypeInv, PlaceOK
<1>3. in.workers # 1
  BY <1>1 DEF Alone
<1> QED BY <1>2, <1>3 DEF Shared

\* A step that has nothing to do with any Chart.yaml.
LEMMA Elsewhere ==
  ASSUME UNCHANGED <<in, chartVars>>, NEW c \in Charts, YamlOK(c),
         \A r \in Releases : in.chart[r] = c =>
           at'[r] = at[r] \/ (at[r] \notin Handling /\ at'[r] \notin Handling)
  PROVE  YamlOK(c)'
<1>1. \A r \in Releases : in.chart[r] = c => (at'[r] \in Busy <=> at[r] \in Busy)
  BY DEF Busy
<1>2. ASSUME NEW r \in Releases, in.chart[r] = c PROVE OwnerOK(r, c)'
  <2>1. OwnerOK(r, c)
    BY <1>2 DEF YamlOK
  <2> QED BY <1>2, <2>1 DEF OwnerOK, Busy, Handling, Rewritten, chartVars
<1> QED BY <1>1, <1>2 DEF YamlOK, chartVars

\* Steps of releases of another chart.
LEMMA OtherChart ==
  ASSUME YamlInv, NEW r \in Releases, Local(r), phase' = phase, in' = in,
         NEW c \in Charts, in.chart[r] # c, YamlOK(c)
  PROVE  YamlOK(c)'
<1> USE DEF YamlInv, TypeInv, PrepTypeOK
<1>1. yaml'[c] = yaml[c]
  BY DEF Local, Take, TakeAsIs, PrepareChartify, ReadChartYaml, TruncateChartYaml, WriteChartYaml, Chartify,
     Restore, Rewrite, Clean, BuildDeps, PrepareRelease, CallHelm, Render, chartVars, SetYaml
<1>2. ASSUME NEW q \in Releases, in.chart[q] = c PROVE at'[q] = at[q] /\ saved'[q] = saved[q]
  BY <1>2, Frame
<1>3. ASSUME NEW q \in Releases, in.chart[q] = c PROVE OwnerOK(q, c)'
  BY <1>1, <1>2, <1>3 DEF YamlOK, OwnerOK, Rewritten
<1> QED BY <1>1, <1>2, <1>3 DEF YamlOK

\* Charts damaged stay so.
LEMMA DamagedStays == [PrepNext]_prepVars => damaged \subseteq damaged'
BY DEF PrepNext, prepVars, Returned, ResolveFails, ChartsPrepared, Select, ReleasesPrepared, HelmCalled,
   RemoveFiles, Rendered, Take, TakeAsIs, PrepareChartify, ReadChartYaml, TruncateChartYaml, WriteChartYaml,
   Chartify, Restore, Rewrite, Clean, BuildDeps, PrepareRelease, CallHelm, Render, chartVars, Damage

\* The steps of the release that owns the Chart.yaml at the moment.
LEMMA OwnChart ==
  ASSUME YamlInv, [PrepNext]_prepVars, NEW r \in Releases, Local(r), phase' = phase, NEW c \in Charts,
         in.chart[r] = c, ~Shared(c), c \notin damaged', YamlOK(c)
  PROVE  YamlOK(c)'
<1> USE DEF YamlInv, TypeInv, PrepTypeOK, Go, At, InCharts
<1>0. in' = in /\ HasYaml(r) /\ OwnerOK(r, c) /\ at[r] \in Stages
  BY SameInput, PrepareAssumption DEF HasYaml, YamlOK
<1>1. ASSUME NEW q \in Releases, q # r PROVE at'[q] = at[q] /\ saved'[q] = saved[q]
  BY <1>1, Frame
<1>2. ASSUME UNCHANGED chartVars, at[r] \notin Handling, at'[r] \notin Handling PROVE YamlOK(c)'
  BY <1>0, <1>1, <1>2, Elsewhere
\* What is left to show when r is the one at work.
<1>3. ASSUME at[r] \in Handling \cup {"patching"}, phase = "charts", r \in in.chartify,
             at'[r] \notin Busy => yaml'[c] = "original",
             OwnerOK(r, c)'
      PROVE  YamlOK(c)'
  <2>1. \A q \in Releases : q # r /\ in.chart[q] = c => at'[q] \notin Handling
    BY <1>1, <1>3, OneOwner DEF Handling
  <2>2. \A q \in Releases : q # r /\ in.chart[q] = c => OwnerOK(q, c)'
    BY <2>1 DEF OwnerOK, Busy, Handling
  <2> QED BY <1>0, <1>3, <2>1, <2>2 DEF YamlOK, Busy
<1>4. at[r] \in Handling => phase = "charts" /\ r \in in.chartify
  BY DEF PlaceOK, Handling
<1>5. CASE Take(r) \/ TakeAsIs(r) \/ Clean(r) \/ BuildDeps(r) \/ PrepareRelease(r) \/ CallHelm(r)
  BY <1>2, <1>5 DEF Take, TakeAsIs, Clean, BuildDeps, PrepareRelease, CallHelm, Enter, Handling
<1>6. CASE Render(r)
  BY <1>2, <1>6 DEF Render, RenderFails, Enter, Handling
<1>7. CASE PrepareChartify(r)
  <2>1. UNCHANGED chartVars /\ at[r] = "patching" /\ r \in in.chartify /\ phase = "charts"
    BY <1>7 DEF PrepareChartify
  <2>2. at'[r] \in {"cleaning", "reading"}
    BY <1>0, <1>7 DEF PrepareChartify
  <2>3. yaml[c] = "original"
    <3>1. \A q \in Releases : in.chart[q] = c => at[q] \notin Busy
      BY <2>1, OneOwner DEF Busy, Handling
    <3> QED BY <3>1 DEF YamlOK
  <2>4. OwnerOK(r, c)'
    BY <2>1, <2>2, <2>3 DEF OwnerOK, Busy, Handling, chartVars
  <2> QED BY <1>3, <2>1, <2>3, <2>4 DEF chartVars
<1>8. CASE ReadChartYaml(r)
  <2>1. yaml[c] = "original" /\ yaml' = yaml /\ saved'[r] = yaml[c] /\ at[r] = "reading"
    BY <1>0, <1>8 DEF ReadChartYaml, OwnerOK
  <2>2. at'[r] = "cleaning" \/ at'[r] = IF c \in in.relative THEN "truncating" ELSE "chartifying"
    BY <1>0, <1>8, <2>1 DEF ReadChartYaml
  <2>3. OwnerOK(r, c)'
    BY <1>0, <2>1, <2>2 DEF OwnerOK, Busy, Handling, Rewritten
  <2> QED BY <1>3, <1>4, <2>1, <2>3 DEF Handling
<1>9. CASE TruncateChartYaml(r)
  <2>1. /\ at[r] = "truncating" /\ saved' = saved /\ saved[r] = "original" /\ c \in in.relative
        /\ at'[r] = "writing" \/ (at'[r] = "cleaning" /\ yaml'[c] = "original")
    BY <1>0, <1>9 DEF TruncateChartYaml, OwnerOK, Busy, Handling
  <2>2. OwnerOK(r, c)'
    BY <1>0, <2>1 DEF OwnerOK, Busy, Handling
  <2> QED BY <1>3, <1>4, <2>1, <2>2 DEF Handling, Busy
<1>10. CASE WriteChartYaml(r)
  <2>1. /\ at[r] = "writing" /\ saved' = saved /\ saved[r] = "original" /\ c \in in.relative
        /\ at'[r] = "chartifying" /\ yaml'[c] = "absolute"
    BY <1>0, <1>10 DEF WriteChartYaml, OwnerOK, Busy, Handling, SetYaml, Damage
  <2>2. OwnerOK(r, c)'
    BY <1>0, <2>1 DEF OwnerOK, Busy, Handling, Rewritten
  <2> QED BY <1>3, <1>4, <2>1, <2>2 DEF Handling, Busy
<1>11. CASE Chartify(r)
  <2>1. /\ at[r] = "chartifying" /\ saved' = saved /\ saved[r] = "original" /\ yaml' = yaml
        /\ at'[r] = "restoring" /\ yaml[c] = Rewritten(c)
    BY <1>0, <1>11 DEF Chartify, OwnerOK, Busy, Handling, chartVars
  <2>2. OwnerOK(r, c)'
    BY <1>0, <2>1 DEF OwnerOK, Busy, Handling, Rewritten
  <2> QED BY <1>3, <1>4, <2>1, <2>2 DEF Handling, Busy
<1>12. CASE Restore(r)
  <2>1. at[r] = "restoring" /\ saved' = saved /\ saved[r] = "original" /\ at'[r] = "rewriting"
    BY <1>0, <1>12 DEF Restore, OwnerOK, Busy, Handling, Damage
  <2>2. OwnerOK(r, c)'
    BY <1>0, <2>1 DEF OwnerOK, Busy, Handling
  <2> QED BY <1>3, <1>4, <2>1, <2>2 DEF Handling, Busy
<1>13. CASE Rewrite(r)
  <2>1. at[r] = "rewriting" /\ yaml'[c] = "original" /\ at'[r] = "cleaning"
    BY <1>0, <1>13 DEF Rewrite, OwnerOK, Busy, Handling, Damage, SetYaml
  <2>2. OwnerOK(r, c)'
    BY <2>1 DEF OwnerOK, Busy, Handling
  <2> QED BY <1>3, <1>4, <2>1, <2>2 DEF Handling
<1> QED BY <1>5, <1>6, <1>7, <1>8, <1>9, <1>10, <1>11, <1>12, <1>13 DEF Local

\* Every step keeps what is known of the Chart.yaml files.
LEMMA YamlNext == YamlInv /\ [PrepNext]_prepVars => YamlInv'
<1> SUFFICES ASSUME YamlInv, [PrepNext]_prepVars PROVE YamlInv'
  OBVIOUS
<1>0. in' = in /\ \A c \in Charts : Shared(c)' <=> Shared(c)
  BY SameInput DEF Shared
<1>1. TypeInv' /\ Alone'
  BY TypeNext, PlaceNext, AloneNext DEF YamlInv, TypeInv
<1>2. ASSUME NEW c \in Charts, ~Shared(c), c \notin damaged' PROVE YamlOK(c)'
  <2>0. YamlOK(c)
    BY <1>2, DamagedStays DEF YamlInv
  <2>1. CASE \E r \in Releases : Local(r) /\ phase' = phase
    BY <1>0, <1>2, <2>0, <2>1, OtherChart, OwnChart
  <2>e. ASSUME NEW p, Enter(p), UNCHANGED chartVars, \A r \in Releases : at[r] \notin Handling PROVE YamlOK(c)'
    <3>1. \A r \in Releases : at'[r] \notin Handling
      BY <2>e, Entered DEF Handling
    <3> QED BY <1>0, <2>0, <2>e, <3>1, Elsewhere
  <2>2. CASE \E r \in Releases : Local(r) /\ phase' # phase
    <3>1. PICK r \in Releases : Local(r) /\ phase' # phase
      BY <2>2
    <3>2. Enter("returned") /\ (BuildDeps(r) \/ Render(r))
      BY <3>1, EndsEarly DEF YamlInv, TypeInv
    <3>3. UNCHANGED chartVars /\ phase # "charts"
      BY <3>2 DEF BuildDeps, Render
    <3> QED BY <2>e, <3>2, <3>3 DEF YamlInv, TypeInv, PlaceOK, Handling
  <2>3. CASE Global
    <3>1. UNCHANGED chartVars /\ \E p \in Phases : Enter(p)
      BY <2>3 DEF Global, ResolveFails, ChartsPrepared, Select, ReleasesPrepared, HelmCalled,
         RemoveFiles, Rendered, Phases
    <3>2. \A r \in Releases : at[r] \notin Handling
      <4>1. CASE ResolveFails
        BY <4>1 DEF ResolveFails, At, YamlInv, TypeInv, PlaceOK, Handling
      <4>2. CASE ChartsPrepared
        BY <4>2 DEF ChartsPrepared, AllDone, At, Handling
      <4>3. CASE phase # "charts"
        BY <4>3 DEF YamlInv, TypeInv, PlaceOK, Handling
      <4> QED BY <2>3, <4>1, <4>2, <4>3 DEF Global, Select, ReleasesPrepared, HelmCalled, RemoveFiles, Rendered
    <3> QED BY <2>e, <3>1, <3>2
  <2>4. CASE UNCHANGED prepVars
    BY <2>0, <2>4, Elsewhere DEF prepVars, chartVars
  <2> QED BY <2>1, <2>2, <2>3, <2>4 DEF PrepNext, Local, Global, Returned
<1> QED BY <1>0, <1>1, <1>2 DEF YamlInv

\* A local chart that no two workers prepare at once has its Chart.yaml
\* again when the charts are prepared, and chartify sees it rewritten.
THEOREM RestoresCharts == PrepSpec => []RestoredUnlessShared
<1>1. YamlInv => RestoredUnlessShared
  <2> SUFFICES ASSUME YamlInv, NEW c \in Charts, ~Shared(c), c \notin damaged
               PROVE  /\ phase # "charts" => yaml[c] = "original"
                      /\ \A r \in Releases : InCharts(r, "chartifying") /\ in.chart[r] = c =>
                           yaml[c] = IF c \in in.relative THEN "absolute" ELSE "original"
    BY DEF RestoredUnlessShared
  <2>1. YamlOK(c)
    BY DEF YamlInv
  <2>2. phase # "charts" => \A r \in Releases : at[r] \notin Busy
    BY DEF YamlInv, TypeInv, PlaceOK, Busy, Handling
  <2> QED BY <2>1, <2>2 DEF YamlOK, OwnerOK, Rewritten, InCharts, At
<1> QED BY YamlInit, YamlNext, <1>1, PTL DEF PrepSpec
=============================================================================
