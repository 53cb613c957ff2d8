------------------------------ MODULE Prepare ------------------------------
(***************************************************************************)
(* What comes before and after the calls of helm for the releases of one   *)
(* state file: PrepareCharts with chartify, the builds of dependencies,    *)
(* and the temporary files of values and secrets that sync, diff,          *)
(* template, lint and write-values generate, hand to helm and remove.      *)
(*                                                                         *)
(* Releases are the numbers 1..N, in the order of the state file.  apply   *)
(* prepares its charts once, then calls DiffReleases and SyncReleases with *)
(* files of their own: either is an input here.  Downloads are in module   *)
(* ChartCache.  Every temporary file has a directory of its own, as with   *)
(* HELMFILE_TEMPDIR unset.  helm, chartify, go-getter, hooks and the       *)
(* file system are external: each call succeeds or fails.                  *)
(***************************************************************************)
EXTENDS Naturals, FiniteSets

CONSTANTS
  N,         \* number of releases
  Charts,    \* local charts with a Chart.yaml
  NoChart,   \* the chart of a release that is not in Charts
  Inputs     \* the inputs to consider, see InputType

Releases == 1..N
Commands == {"sync", "diff", "template", "lint", "write-values", "pull"}

InputType ==
  [cmd       : Commands,
   keep      : BOOLEAN,                           \* --skip-cleanup
   workers   : Nat,                               \* --concurrency, 0 for no limit
   chart     : [Releases -> Charts \cup {NoChart}],
   relative  : SUBSET Charts,                     \* charts with a dependency on file://<relative path>
   off       : SUBSET Releases,                   \* releases with installed: false
   chartify  : SUBSET Releases,                   \* releases PrepareChartify says shouldRun of
   remote    : SUBSET Releases,                   \* charts fetched by go-getter
   builds    : SUBSET Releases,                   \* releases whose dependencies are to be built
   valued    : SUBSET Releases,                   \* releases with values and secrets
   fresh     : SUBSET Releases]                   \* releases diff skips: not installed, --skip-diff-on-install

ASSUME PrepareAssumption ==
  /\ N \in Nat
  /\ NoChart \notin Charts
  /\ Inputs \subseteq InputType

VARIABLES
  in,       \* the input; never changes
  phase,    \* "charts", "deps", "values", "helm", "clean" or "returned"
  at,       \* where each release is in the phase
  yaml,     \* content of each Chart.yaml
  saved,    \* what the worker of a release read of its Chart.yaml
  damaged,  \* history: charts whose Chart.yaml could not be written
  there,    \* temporary files of each release that exist
  recorded, \* files of each release that its caller knows of
  why,      \* what has failed for each release, "none" at first
  refused,  \* whether selecting the releases failed
  served,   \* releases that helm was called for
  missing   \* history: releases whose files were gone when helm read them

prepVars == <<in, phase, at, yaml, saved, damaged, there, recorded, why, refused, served, missing>>

\* Parts of a release's temporary files.  "plain" stands for what
\* DecryptSecret writes beside its source, and generateSecretValuesFiles for
\* a secret embedded in the state file.
ChartParts  == {"patch", "chartValues", "chartSecret"}
ValuesParts == {"values", "secret"}
Plain       == {"plain"}
Parts       == ChartParts \cup ValuesParts \cup Plain

Contents == {"original", "absolute", "cut"}
Phases   == {"charts", "deps", "values", "helm", "clean", "returned"}
Stages   == {"queued", "patching", "reading", "truncating", "writing", "chartifying",
             "restoring", "rewriting", "cleaning", "done"}
Failures == {"none", "chart", "generation", "preparation", "deps", "helm"}

PrepInit ==
  /\ in \in Inputs
  /\ phase = IF in.cmd = "write-values" THEN "deps" ELSE "charts"
  /\ at = [r \in Releases |-> IF phase = "charts" /\ r \notin in.off THEN "queued" ELSE "done"]
  /\ yaml = [c \in Charts |-> "original"]
  /\ saved = [r \in Releases |-> "original"]
  /\ damaged = {}
  /\ there = [r \in Releases |-> {}]
  /\ recorded = [r \in Releases |-> {}]
  /\ why = [r \in Releases |-> "none"]
  /\ refused = FALSE
  /\ served = {}
  /\ missing = {}

-----------------------------------------------------------------------------
(* Shorthands *)

At(r, stage)   == at[r] = stage
Go(r, stage)   == at' = [at EXCEPT ![r] = stage]
Fail(r, cause) == why' = [why EXCEPT ![r] = IF @ = "none" THEN cause ELSE @]
Failed(causes) == \E r \in Releases : why[r] \in causes
AllDone        == \A r \in Releases : At(r, "done")

Batch  == in.cmd \in {"sync", "diff"}   \* commands that prepare all releases before the first call of helm
\* The releases a command goes through: only sync has an operation for one
\* with installed: false.
Listed == IF in.cmd = "sync" THEN Releases ELSE Releases \ in.off

\* The phase p begins, with the releases it goes through; or the call returns.
Enter(p) ==
  /\ phase' = p
  /\ at' = [r \in Releases |->
              IF \/ p = "deps" /\ r \in in.builds \ in.off
                 \/ p \in {"values", "helm"} /\ r \in Listed
              THEN "queued" ELSE "done"]

chartVars  == <<yaml, saved, damaged>>
filesVars  == <<there, recorded>>
valuesVars == <<refused, served, missing>>

-----------------------------------------------------------------------------
(* PrepareCharts: a pool of workers (module ScatterGather), each with one  *)
(* release at a time.                                                      *)

InCharts(r, stage) == phase = "charts" /\ At(r, stage)
Working == {r \in Releases : at[r] \notin {"queued", "done"}}
HasYaml(r) == in.chart[r] # NoChart
SetYaml(r, content) == yaml' = [yaml EXCEPT ![in.chart[r]] = content]
Damage(r) == damaged' = damaged \cup {in.chart[r]}

\* PrepareCharts begins with the locked versions and the selectors: ResolveDeps
\* and GetSelectedReleases may fail.
ResolveFails ==
  /\ phase = "charts"
  /\ \A r \in Releases \ in.off : At(r, "queued")
  /\ Enter("returned")
  /\ refused' = TRUE
  /\ UNCHANGED <<in, chartVars, why, filesVars, served, missing>>

\* A worker takes a release; its prepare hook and its download may fail.
Take(r) ==
  /\ InCharts(r, "queued")
  /\ \A q \in 1..(r - 1) : ~At(q, "queued")
  /\ in.workers = 0 \/ Cardinality(Working) < in.workers
  /\ \/ Go(r, "patching") /\ UNCHANGED why
     \/ Go(r, "done") /\ Fail(r, "chart")
  /\ UNCHANGED <<in, phase, chartVars, filesVars, valuesVars>>

\* A release PrepareChartify has nothing to do for: its chart is taken as it
\* is, copied or downloaded.
TakeAsIs(r) ==
  /\ InCharts(r, "patching")
  /\ r \notin in.chartify
  /\ UNCHANGED why \/ Fail(r, "chart")
  /\ Go(r, "done")
  /\ UNCHANGED <<in, phase, chartVars, filesVars, valuesVars>>

\* What a generation of values and secrets that fails leaves behind: its
\* callers learn of none of it.
Remnants(values, secret) == {{}, {values}, {values} \cup Plain, {values, secret} \cup Plain}

\* The release has files more, its caller knows of some of them.
Generated(r, files, known) ==
  /\ there' = [there EXCEPT ![r] = @ \cup files]
  /\ recorded' = [recorded EXCEPT ![r] = known]

\* PrepareChartify for a release to chartify: patches, then values and
\* secrets, then the flags of set values.  The files of a step that fails
\* are not in filesNeedCleaning.
PrepareChartify(r) ==
  /\ InCharts(r, "patching")
  /\ r \in in.chartify
  /\ \/ /\ \/ \E left \in {{}, {"patch"}} : Generated(r, left, {}) /\ Fail(r, "generation")
           \/ \E left \in Remnants("chartValues", "chartSecret") :
                Generated(r, {"patch"} \cup left, {"patch"}) /\ Fail(r, "generation")
           \/ Generated(r, ChartParts \cup Plain, ChartParts) /\ Fail(r, "chart")
        /\ Go(r, "cleaning")
     \/ /\ Generated(r, ChartParts \cup Plain, ChartParts)
        /\ UNCHANGED why
        /\ Go(r, IF in.cmd = "pull" THEN "cleaning"
                 ELSE IF HasYaml(r) THEN "reading" ELSE "chartifying")
  /\ UNCHANGED <<in, phase, chartVars, valuesVars>>

\* rewriteChartDependencies reads Chart.yaml, keeps the content for the
\* restoration and rewrites relative dependencies.  A file cut short parses,
\* as one without dependencies, or does not.  An error here comes before the
\* restoration is deferred.
ReadChartYaml(r) ==
  /\ InCharts(r, "reading")
  /\ saved' = [saved EXCEPT ![r] = yaml[in.chart[r]]]
  /\ \/ /\ Go(r, IF in.chart[r] \in in.relative /\ yaml[in.chart[r]] = "original"
                 THEN "truncating" ELSE "chartifying")
        /\ UNCHANGED why
     \/ Go(r, "cleaning") /\ Fail(r, "chart")
  /\ UNCHANGED <<in, phase, yaml, damaged, filesVars, valuesVars>>

\* os.WriteFile truncates the file when it opens it, and writes after.
TruncateChartYaml(r) ==
  /\ InCharts(r, "truncating")
  /\ \/ SetYaml(r, "cut") /\ Go(r, "writing") /\ UNCHANGED why
     \/ Go(r, "cleaning") /\ Fail(r, "chart") /\ UNCHANGED yaml
  /\ UNCHANGED <<in, phase, saved, damaged, filesVars, valuesVars>>

WriteChartYaml(r) ==
  /\ InCharts(r, "writing")
  /\ \/ SetYaml(r, "absolute") /\ Go(r, "chartifying") /\ UNCHANGED <<why, damaged>>
     \/ Damage(r) /\ Go(r, "cleaning") /\ Fail(r, "chart") /\ UNCHANGED yaml
  /\ UNCHANGED <<in, phase, saved, filesVars, valuesVars>>

\* Seeded bug: the restoration is deferred after chartify, past its error.
ChartifyThenDefers(r) ==
  /\ InCharts(r, "chartifying")
  /\ \/ /\ HasYaml(r) => yaml[in.chart[r]] # "cut"
        /\ UNCHANGED why
        /\ Go(r, IF HasYaml(r) THEN "restoring" ELSE "cleaning")
     \/ Fail(r, "chart") /\ Go(r, "cleaning")
  /\ UNCHANGED <<in, phase, chartVars, filesVars, valuesVars>>

\* chartify copies the chart and runs helm on the copy.
Chartify(r) ==
  /\ InCharts(r, "chartifying")
  /\ \/ (HasYaml(r) => yaml[in.chart[r]] # "cut") /\ UNCHANGED why
     \/ Fail(r, "chart")
  /\ Go(r, IF HasYaml(r) THEN "restoring" ELSE "cleaning")
  /\ UNCHANGED <<in, phase, chartVars, filesVars, valuesVars>>

\* The deferred restoration, whether chartify succeeded or not; its own
\* errors are only logged.
Restore(r) ==
  /\ InCharts(r, "restoring")
  /\ \/ SetYaml(r, "cut") /\ Go(r, "rewriting") /\ UNCHANGED damaged
     \/ Damage(r) /\ Go(r, "cleaning") /\ UNCHANGED yaml
  /\ UNCHANGED <<in, phase, saved, why, filesVars, valuesVars>>

Rewrite(r) ==
  /\ InCharts(r, "rewriting")
  /\ \/ SetYaml(r, saved[r]) /\ UNCHANGED damaged
     \/ Damage(r) /\ UNCHANGED yaml
  /\ Go(r, "cleaning")
  /\ UNCHANGED <<in, phase, saved, why, filesVars, valuesVars>>

\* removeFiles: the files its caller knows of, unless they are to be kept.
Left(r) == IF in.keep THEN there[r] ELSE there[r] \ recorded[r]

\* The deferred clean of PrepareChartify.
Clean(r) ==
  /\ InCharts(r, "cleaning")
  /\ there' = [there EXCEPT ![r] = Left(r)]
  /\ recorded' = [recorded EXCEPT ![r] = {}]
  /\ Go(r, "done")
  /\ UNCHANGED <<in, phase, chartVars, why, valuesVars>>

ChartsPrepared ==
  /\ phase = "charts"
  /\ AllDone
  /\ Enter(IF Failed({"chart", "generation"}) THEN "returned" ELSE "deps")
  /\ UNCHANGED <<in, chartVars, why, filesVars, valuesVars>>

\* runHelmDepBuilds: one helm dependency build after the other, in the order
\* the charts got ready.  An error is tolerated for a chart from go-getter.
BuildDeps(r) ==
  /\ phase = "deps"
  /\ At(r, "queued")
  /\ \/ Go(r, "done") /\ UNCHANGED <<phase, why>>
     \/ r \notin in.remote /\ Fail(r, "deps") /\ Enter("returned")
  /\ UNCHANGED <<in, chartVars, filesVars, valuesVars>>

\* withNeeds (getSelectedReleases alone for write-values): selecting and
\* planning the releases may be refused.
Select ==
  /\ phase = "deps"
  /\ AllDone
  /\ \/ Enter(IF in.cmd = "pull" THEN "returned" ELSE "values") /\ UNCHANGED refused
     \/ in.cmd # "pull" /\ Enter("returned") /\ refused' = TRUE
  /\ UNCHANGED <<in, chartVars, why, filesVars, served, missing>>

-----------------------------------------------------------------------------
(* The operations of HelmState. *)

AllFiles(r) == IF r \in in.valued THEN ValuesParts \cup Plain ELSE {}
Known(r)    == AllFiles(r) \ Plain
Partly(r)   == IF r \in in.valued THEN Remnants("values", "secret") ELSE {{}}

\* A release that needs no values file: one that sync uninstalls, one that
\* diff reports as changed without asking helm.
NeedsNone(r) == IF in.cmd = "sync" THEN r \in in.off ELSE r \in in.fresh

\* Seeded bug: files are removed in the loop body, by a deferred call.
PrepareReleaseAndRemove(r) ==
  /\ phase = "values"
  /\ Batch
  /\ At(r, "queued")
  /\ there' = [there EXCEPT ![r] = @ \cup (AllFiles(r) \ Known(r))]
  /\ recorded' = [recorded EXCEPT ![r] = Known(r)]
  /\ Go(r, "done")
  /\ UNCHANGED <<in, phase, chartVars, why, valuesVars>>

\* Seeded bug: sync forgets the files of a release it could not prepare.
PrepareReleaseForgets(r) ==
  /\ phase = "values"
  /\ Batch
  /\ At(r, "queued")
  /\ \/ Generated(r, AllFiles(r), Known(r)) /\ UNCHANGED why
     \/ Generated(r, AllFiles(r), {}) /\ Fail(r, "preparation")
  /\ Go(r, "done")
  /\ UNCHANGED <<in, phase, chartVars, valuesVars>>

\* The loop bodies of prepareSyncReleases and prepareDiffReleases; files are
\* generated under a mutex.  After an error past the generation (flags,
\* additional values files, the query of diff) sync keeps the list of files,
\* diff drops it with the release.
PrepareRelease(r) ==
  /\ phase = "values"
  /\ Batch
  /\ At(r, "queued")
  /\ \/ NeedsNone(r) /\ UNCHANGED <<why, filesVars>>
     \/ /\ ~NeedsNone(r)
        /\ \/ Generated(r, AllFiles(r), Known(r)) /\ UNCHANGED why
           \/ \E left \in Partly(r) : Generated(r, left, {}) /\ Fail(r, "generation")
           \/ /\ Generated(r, AllFiles(r), IF in.cmd = "sync" THEN Known(r) ELSE {})
              /\ Fail(r, "preparation")
  /\ Go(r, "done")
  /\ UNCHANGED <<in, phase, chartVars, valuesVars>>

\* Seeded bug: the errors of the preparation are looked at after the calls.
ReleasesPreparedGoOn ==
  /\ phase = "values"
  /\ Batch
  /\ AllDone
  /\ Enter("helm")
  /\ UNCHANGED <<in, chartVars, why, filesVars, valuesVars>>

\* SyncReleases and DiffReleases call helm for all releases or for none.
ReleasesPrepared ==
  /\ phase = "values"
  /\ Batch
  /\ AllDone
  /\ Enter(IF Failed({"generation", "preparation"}) THEN "clean" ELSE "helm")
  /\ UNCHANGED <<in, chartVars, why, filesVars, valuesVars>>

\* helm is called for the release, which reads its files among those that exist.
Serve(r, exist) ==
  /\ served' = served \cup {r}
  /\ missing' = IF Known(r) \subseteq exist \/ NeedsNone(r) THEN missing ELSE missing \cup {r}

CallHelm(r) ==
  /\ phase = "helm"
  /\ At(r, "queued")
  /\ Serve(r, there[r])
  /\ UNCHANGED why \/ Fail(r, "helm")
  /\ Go(r, "done")
  /\ UNCHANGED <<in, phase, chartVars, filesVars, refused>>

HelmCalled ==
  /\ phase = "helm"
  /\ AllDone
  /\ Enter("clean")
  /\ UNCHANGED <<in, chartVars, why, filesVars, valuesVars>>

\* The deferred removal of SyncReleases and DiffReleases.
RemoveFiles ==
  /\ phase = "clean"
  /\ there' = [r \in Releases |-> Left(r)]
  /\ Enter("returned")
  /\ UNCHANGED <<in, chartVars, recorded, why, valuesVars>>

\* The loop bodies of TemplateReleases, LintReleases and WriteReleasesValues:
\* the files are removed as soon as they are generated, by a defer in a
\* function literal of its own.  After an error template and lint go on to
\* generate but call helm no more; write-values returns.
RenderFails(r, cause) ==
  /\ Fail(r, cause)
  /\ UNCHANGED <<served, missing>>
  /\ IF in.cmd = "write-values" THEN Enter("returned") ELSE Go(r, "done") /\ UNCHANGED phase

Removed(r) == IF in.keep THEN AllFiles(r) ELSE AllFiles(r) \ Known(r)

Render(r) ==
  /\ phase = "values"
  /\ ~Batch
  /\ At(r, "queued")
  /\ \A q \in 1..(r - 1) : ~At(q, "queued")
  /\ \/ \E left \in Partly(r) : Generated(r, left, {}) /\ RenderFails(r, "generation")
     \/ Generated(r, Removed(r), {}) /\ RenderFails(r, "preparation")
     \/ /\ Generated(r, Removed(r), {})
        /\ ~Failed(Failures \ {"none"})
        /\ Serve(r, there'[r])
        /\ \/ r \notin missing' /\ UNCHANGED why
           \/ Fail(r, "helm")
        /\ IF in.cmd = "write-values" /\ why' # why
           THEN Enter("returned") ELSE Go(r, "done") /\ UNCHANGED phase
     \/ /\ Generated(r, Removed(r), {})
        /\ Failed(Failures \ {"none"})
        /\ Go(r, "done")
        /\ UNCHANGED <<phase, why, served, missing>>
  /\ UNCHANGED <<in, chartVars, refused>>

Rendered ==
  /\ phase = "values"
  /\ ~Batch
  /\ AllDone
  /\ Enter("returned")
  /\ UNCHANGED <<in, chartVars, why, filesVars, valuesVars>>

Returned == phase = "returned" /\ UNCHANGED prepVars

PrepNext ==
  \/ \E r \in Releases :
       \/ Take(r) \/ TakeAsIs(r) \/ PrepareChartify(r)
       \/ ReadChartYaml(r) \/ TruncateChartYaml(r) \/ WriteChartYaml(r)
       \/ Chartify(r) \/ Restore(r) \/ Rewrite(r) \/ Clean(r)
       \/ BuildDeps(r) \/ PrepareRelease(r) \/ CallHelm(r) \/ Render(r)
  \/ ResolveFails \/ ChartsPrepared \/ Select \/ ReleasesPrepared \/ HelmCalled \/ RemoveFiles \/ Rendered
  \/ Returned

PrepSpec == PrepInit /\ [][PrepNext]_prepVars /\ WF_prepVars(PrepNext)

-----------------------------------------------------------------------------
(* Properties *)

PrepTypeOK ==
  /\ in \in Inputs
  /\ phase \in Phases
  /\ at \in [Releases -> Stages]
  /\ yaml \in [Charts -> Contents]
  /\ saved \in [Releases -> Contents]
  /\ damaged \subseteq Charts
  /\ there \in [Releases -> SUBSET Parts]
  /\ recorded \in [Releases -> SUBSET Parts]
  /\ why \in [Releases -> Failures]
  /\ refused \in BOOLEAN
  /\ served \subseteq Releases
  /\ missing \subseteq Releases

\* The values and secrets files a helm command is given exist when it reads
\* them, whatever has failed or been cleaned up before: for sync and diff, and
\* for the other commands when files are kept.  (template, lint and
\* write-values remove them first, see the README.)
HelmFindsFiles == Batch \/ in.keep => missing = {}

\* When the command has returned, of all the files of values, secrets and
\* patches it generated only those of a generation that failed half way are
\* left, and those diff loses with a release it could not prepare; besides
\* what DecryptSecret wrote, which nobody removes.
NothingLeft ==
  phase = "returned" /\ ~in.keep =>
    \A r \in Releases :
      \/ there[r] \subseteq Plain
      \/ why[r] = "generation"
      \/ in.cmd = "diff" /\ why[r] = "preparation"

\* Two releases of chart c may be chartified at the same time.
Shared(c) ==
  /\ in.workers # 1
  /\ \E q, r \in in.chartify \ in.off : q # r /\ in.chart[q] = c /\ in.chart[r] = c

\* Once the charts are prepared, or their preparation has failed, every
\* Chart.yaml has its original content again, unless writing it failed; and
\* while chartify works on a chart the file is whole, with no relative
\* dependency left.  Both for charts no two workers prepare at once.
RestoredUnlessShared ==
  \A c \in Charts : Shared(c) \/ c \in damaged \/
    /\ phase # "charts" => yaml[c] = "original"
    /\ \A r \in Releases :
         InCharts(r, "chartifying") /\ in.chart[r] = c =>
           yaml[c] = IF c \in in.relative THEN "absolute" ELSE "original"

\* The comments of rewriteChartDependencies and its tests expect the same of
\* every chart.
ChartRestored ==
  phase # "charts" => \A c \in Charts : yaml[c] = "original" \/ c \in damaged

\* A command that reports no error has called helm for every release it
\* lists; and sync and diff, when anything could not be prepared, for none.
ServedOrTold ==
  /\ phase = "returned" /\ ~Failed(Failures \ {"none"}) /\ ~refused /\ in.cmd # "pull"
       => served = Listed
  /\ Batch /\ Failed({"chart", "generation", "preparation", "deps"}) => served = {}

\* Every command returns.
PrepReturns == <>(phase = "returned")
=============================================================================
