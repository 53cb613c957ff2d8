----------------------------- MODULE ChartCache -----------------------------
(***************************************************************************)
(* The chart download cache of pkg/helmfile/state: getOCIChart,            *)
(* forcedDownloadChart, acquireChartLock and the locks they take, for one  *)
(* chart and version that several workers want.                            *)
(*                                                                         *)
(* A worker prepares one release.  It belongs to a run (app.Run: one state *)
(* file being converged), a run to a process.  An OCI chart goes to the    *)
(* cache directory all processes share (remote.CacheDir); another chart,   *)
(* when it is downloaded at all (lint and fetch), to a path of the release *)
(* in the temporary directory of the run (generateChartPath), which        *)
(* withPreparedCharts removes when the run ends.  Either path is recorded  *)
(* in the map downloadedCharts of the process, under the chart's name and  *)
(* version.                                                                *)
(*                                                                         *)
(* The RWMutex of a path (getNamedRWMutex) is shared by the workers of a   *)
(* process; the lock file by everybody, each worker with a descriptor of   *)
(* its own (flock.New).  helm and the flock library are external.          *)
(***************************************************************************)
EXTENDS Naturals

CONSTANTS
  Agents,      \* workers that want the chart for a release
  Runs, Procs,
  RunOf,       \* the run of each worker
  CacheDir,    \* the path in the shared cache directory
  NoPath,      \* no path
  MaxRetries,  \* attempts at the exclusive file lock
  Envs         \* the environments to consider, see EnvType

Paths == Agents \cup {CacheDir}   \* a worker names its release's path in the temporary directory

EnvType == [proc : [Runs -> Procs], place : {"cacheDir", "tempDir"},
            refresh : [Procs -> BOOLEAN], crashes : BOOLEAN]

ASSUME CacheAssumption ==
  /\ RunOf \in [Agents -> Runs]
  /\ CacheDir \notin Agents
  /\ NoPath \notin Paths
  /\ MaxRetries \in Nat \ {0}
  /\ Envs \subseteq EnvType

VARIABLES
  env,      \* where the runs execute, with which flags; never changes
  dir,      \* what is at each path
  cut,      \* history: paths whose last download or removal was cut short
  cached,   \* downloadedCharts of each process
  mutex,    \* how each worker holds the RWMutex of its path
  flock,    \* how each worker holds the lock file of its path
  attempt,  \* attempts at the exclusive file lock so far
  pc,       \* where each worker is
  then,     \* where it goes once it has released its locks
  got,      \* the path it was handed
  ended     \* runs that have returned

cacheVars == <<env, dir, cut, cached, mutex, flock, attempt, pc, then, got, ended>>

Content == {"absent", "noChartYaml", "partial", "complete"}
Hold    == {"none", "R", "W"}
Final   == {"done", "failed", "dead"}
Pc      == Final \cup
  {"start", "exists", "rlock", "rflock", "validate", "wlock", "wflock", "recheck",
   "remove", "pull", "unlockMutex", "unlockFile", "use"}

Proc(a) == env.proc[RunOf[a]]
Path(a) == IF env.place = "tempDir" THEN a ELSE CacheDir
NeedsRefresh(a) == env.refresh[Proc(a)]

\* findChartDirectory: some Chart.yaml is there, however incomplete the rest.
HasChart(p) == dir[p] \in {"partial", "complete"}

Peers(a)    == {b \in Agents \ {a} : Path(b) = Path(a)}
Siblings(a) == {b \in Peers(a) : Proc(b) = Proc(a)}

CacheInit ==
  /\ env \in Envs
  /\ dir \in [Paths -> {"absent", "complete"}]
  /\ \A a \in Agents : dir[a] = "absent"
  /\ cut = {}
  /\ cached = [p \in Procs |-> NoPath]
  /\ mutex = [a \in Agents |-> "none"]
  /\ flock = [a \in Agents |-> "none"]
  /\ attempt = [a \in Agents |-> 1]
  /\ pc = [a \in Agents |-> "start"]
  /\ then = [a \in Agents |-> "failed"]
  /\ got = [a \in Agents |-> NoPath]
  /\ ended = {}

-----------------------------------------------------------------------------
Goto(a, l)     == pc' = [pc EXCEPT ![a] = l]
SetMutex(a, h) == mutex' = [mutex EXCEPT ![a] = h]
SetFlock(a, h) == flock' = [flock EXCEPT ![a] = h]

\* Release the locks (chartLockResult.Release), then go on at l.
ReleaseThen(a, l) == then' = [then EXCEPT ![a] = l] /\ Goto(a, "unlockMutex")

\* chartActionUseCached, and the end of a download: record the path, hand it
\* out, release the locks.
HandOut(a) ==
  /\ cached' = [cached EXCEPT ![Proc(a)] = Path(a)]
  /\ got' = [got EXCEPT ![a] = Path(a)]
  /\ ReleaseThen(a, "use")

\* Another worker has downloaded the chart for this process: no lock is taken.
CheckCache(a) ==
  /\ pc[a] = "start"
  /\ LET p == cached[Proc(a)] IN
       IF p # NoPath /\ dir[p] # "absent"
       THEN got' = [got EXCEPT ![a] = p] /\ Goto(a, "use")
       ELSE UNCHANGED got /\ Goto(a, "exists")
  /\ UNCHANGED <<env, dir, cut, cached, mutex, flock, attempt, then, ended>>

\* The optimistic path, if the chart seems to be there and may be reused.
CheckExists(a) ==
  /\ pc[a] = "exists"
  /\ Goto(a, IF dir[Path(a)] # "absent" /\ ~NeedsRefresh(a) THEN "rlock" ELSE "wlock")
  /\ UNCHANGED <<env, dir, cut, cached, mutex, flock, attempt, then, got, ended>>

RLock(a) ==
  /\ pc[a] = "rlock"
  /\ \A b \in Siblings(a) : mutex[b] # "W"
  /\ SetMutex(a, "R")
  /\ Goto(a, "rflock")
  /\ UNCHANGED <<env, dir, cut, cached, flock, attempt, then, got, ended>>

TryRLock(a) ==
  /\ pc[a] = "rflock"
  /\ \A b \in Peers(a) : flock[b] # "W"
  /\ SetFlock(a, "R")
  /\ Goto(a, "validate")
  /\ UNCHANGED <<env, dir, cut, cached, mutex, attempt, then, got, ended>>

\* A timeout or an error of the file system: try the exclusive lock instead.
TryRLockFails(a) ==
  /\ pc[a] = "rflock"
  /\ SetMutex(a, "none")
  /\ Goto(a, "wlock")
  /\ UNCHANGED <<env, dir, cut, cached, flock, attempt, then, got, ended>>

Validate(a) ==
  /\ pc[a] = "validate"
  /\ IF HasChart(Path(a))
     THEN HandOut(a)
     ELSE ReleaseThen(a, "wlock") /\ UNCHANGED <<cached, got>>
  /\ UNCHANGED <<env, dir, cut, mutex, flock, attempt, ended>>

\* Seeded bug: RLock instead of Lock before a download.
LockForReading(a) ==
  /\ pc[a] = "wlock"
  /\ \A b \in Siblings(a) : mutex[b] # "W"
  /\ SetMutex(a, "R")
  /\ Goto(a, "wflock")
  /\ UNCHANGED <<env, dir, cut, cached, flock, attempt, then, got, ended>>

Lock(a) ==
  /\ pc[a] = "wlock"
  /\ \A b \in Siblings(a) : mutex[b] = "none"
  /\ SetMutex(a, "W")
  /\ Goto(a, "wflock")
  /\ UNCHANGED <<env, dir, cut, cached, flock, attempt, then, got, ended>>

\* Seeded bug: TryRLockContext instead of TryLockContext.
TryLockForReading(a) ==
  /\ pc[a] = "wflock"
  /\ \A b \in Peers(a) : flock[b] # "W"
  /\ SetFlock(a, "R")
  /\ Goto(a, "recheck")
  /\ UNCHANGED <<env, dir, cut, cached, mutex, attempt, then, got, ended>>

TryLock(a) ==
  /\ pc[a] = "wflock"
  /\ \A b \in Peers(a) : flock[b] = "none"
  /\ SetFlock(a, "W")
  /\ Goto(a, "recheck")
  /\ UNCHANGED <<env, dir, cut, cached, mutex, attempt, then, got, ended>>

\* Seeded bug: the mutex stays locked after a timeout.
TryLockTimesOutLocked(a) ==
  /\ pc[a] = "wflock"
  /\ \E b \in Peers(a) : flock[b] # "none"
  /\ Goto(a, "failed")
  /\ UNCHANGED <<env, dir, cut, cached, mutex, flock, attempt, then, got, ended>>

\* 30 seconds have passed and somebody holds the lock: no retry.
TryLockTimesOut(a) ==
  /\ pc[a] = "wflock"
  /\ \E b \in Peers(a) : flock[b] # "none"
  /\ SetMutex(a, "none")
  /\ Goto(a, "failed")
  /\ UNCHANGED <<env, dir, cut, cached, flock, attempt, then, got, ended>>

\* An error of the file system: MaxRetries attempts, and in between the mutex
\* is free.
TryLockFails(a) ==
  /\ pc[a] = "wflock"
  /\ SetMutex(a, "none")
  /\ IF attempt[a] < MaxRetries
     THEN attempt' = [attempt EXCEPT ![a] = @ + 1] /\ Goto(a, "wlock")
     ELSE UNCHANGED attempt /\ Goto(a, "failed")
  /\ UNCHANGED <<env, dir, cut, cached, flock, then, got, ended>>

\* Seeded bug: no skipRefreshCheck.
SkipRefreshNever(a) == FALSE

\* skipRefreshCheck: a sibling has already refreshed the chart.
SkipRefresh(a) == cached[Proc(a)] # NoPath

\* Seeded bug: the path is recorded before the download.
RecheckRecordsFirst(a) ==
  /\ pc[a] = "recheck"
  /\ \/ /\ HasChart(Path(a))
        /\ ~NeedsRefresh(a) \/ SkipRefresh(a)
        /\ HandOut(a)
        /\ UNCHANGED dir
     \/ /\ HasChart(Path(a)) /\ NeedsRefresh(a) /\ ~SkipRefresh(a)
        /\ Goto(a, "remove")
        /\ UNCHANGED <<dir, cached, then, got>>
     \/ /\ dir[Path(a)] \in {"absent", "noChartYaml"}
        /\ dir' = [dir EXCEPT ![Path(a)] = "noChartYaml"]
        /\ cached' = [cached EXCEPT ![Proc(a)] = Path(a)]
        /\ Goto(a, "pull")
        /\ UNCHANGED <<then, got>>
  /\ UNCHANGED <<env, cut, mutex, flock, attempt, ended>>

\* The double check under the exclusive lock.
Recheck(a) ==
  /\ pc[a] = "recheck"
  /\ \/ /\ HasChart(Path(a))
        /\ ~NeedsRefresh(a) \/ SkipRefresh(a)
        /\ HandOut(a)
        /\ UNCHANGED dir
     \/ /\ HasChart(Path(a)) /\ NeedsRefresh(a) /\ ~SkipRefresh(a)
        /\ dir' = [dir EXCEPT ![Path(a)] = "partial"]    \* os.RemoveAll begins
        /\ Goto(a, "remove")
        /\ UNCHANGED <<cached, then, got>>
     \/ /\ dir[Path(a)] = "noChartYaml"
        /\ Goto(a, "remove")
        /\ UNCHANGED <<dir, cached, then, got>>
     \/ /\ dir[Path(a)] = "absent"
        /\ dir' = [dir EXCEPT ![Path(a)] = "noChartYaml"]  \* helm begins
        /\ Goto(a, "pull")
        /\ UNCHANGED <<cached, then, got>>
  /\ UNCHANGED <<env, cut, mutex, flock, attempt, ended>>

\* os.RemoveAll ends, helm begins.
Remove(a) ==
  /\ pc[a] = "remove"
  /\ dir' = [dir EXCEPT ![Path(a)] = "noChartYaml"]
  /\ Goto(a, "pull")
  /\ UNCHANGED <<env, cut, cached, mutex, flock, attempt, then, got, ended>>

RemoveFails(a) ==
  /\ pc[a] = "remove"
  /\ cut' = cut \cup {Path(a)}
  /\ ReleaseThen(a, "failed")
  /\ UNCHANGED <<env, dir, cached, mutex, flock, attempt, got, ended>>

\* helm pull --untar, helm fetch --untar: Chart.yaml is there before the rest.
PullMore(a) ==
  /\ pc[a] = "pull"
  /\ dir[Path(a)] = "noChartYaml"
  /\ dir' = [dir EXCEPT ![Path(a)] = "partial"]
  /\ UNCHANGED <<env, cut, cached, mutex, flock, attempt, pc, then, got, ended>>

Pull(a) ==
  /\ pc[a] = "pull"
  /\ dir' = [dir EXCEPT ![Path(a)] = "complete"]
  /\ cut' = cut \ {Path(a)}
  /\ HandOut(a)
  /\ UNCHANGED <<env, mutex, flock, attempt, ended>>

\* Seeded bug: a failed download returns without releasing the locks.
PullFailsLocked(a) ==
  /\ pc[a] = "pull"
  /\ cut' = cut \cup {Path(a)}
  /\ Goto(a, "failed")
  /\ UNCHANGED <<env, dir, cached, mutex, flock, attempt, then, got, ended>>

\* What a failing helm has written stays.
PullFails(a) ==
  /\ pc[a] = "pull"
  /\ cut' = cut \cup {Path(a)}
  /\ ReleaseThen(a, "failed")
  /\ UNCHANGED <<env, dir, cached, mutex, flock, attempt, got, ended>>

\* Release: first the mutex, then the lock file.
UnlockMutex(a) ==
  /\ pc[a] = "unlockMutex"
  /\ SetMutex(a, "none")
  /\ Goto(a, "unlockFile")
  /\ UNCHANGED <<env, dir, cut, cached, flock, attempt, then, got, ended>>

UnlockFile(a) ==
  /\ pc[a] = "unlockFile"
  /\ SetFlock(a, "none")
  /\ Goto(a, then[a])
  /\ UNCHANGED <<env, dir, cut, cached, mutex, attempt, then, got, ended>>

\* chartify and the helm operations of the run have read the chart.
UseEnds(a) ==
  /\ pc[a] = "use"
  /\ Goto(a, "done")
  /\ UNCHANGED <<env, dir, cut, cached, mutex, flock, attempt, then, got, ended>>

InTempDir(p, r) == p \in Agents /\ RunOf[p] = r

\* withPreparedCharts returns, whether or not every chart could be prepared:
\* the temporary directory of the run goes.
EndRun(r) ==
  /\ r \notin ended
  /\ \A a \in Agents : RunOf[a] = r => pc[a] \in {"done", "failed"}
  /\ ended' = ended \cup {r}
  /\ dir' = [p \in Paths |-> IF InTempDir(p, r) THEN "absent" ELSE dir[p]]
  /\ cut' = {p \in cut : ~InTempDir(p, r)}
  /\ UNCHANGED <<env, cached, mutex, flock, attempt, pc, then, got>>

\* A process dies: its locks are free, what is on disk stays.
Crash(p) ==
  /\ env.crashes
  /\ \E a \in Agents : Proc(a) = p /\ pc[a] \notin Final
  /\ LET Dies == {a \in Agents : Proc(a) = p} IN
       /\ pc' = [a \in Agents |-> IF a \in Dies THEN "dead" ELSE pc[a]]
       /\ mutex' = [a \in Agents |-> IF a \in Dies THEN "none" ELSE mutex[a]]
       /\ flock' = [a \in Agents |-> IF a \in Dies THEN "none" ELSE flock[a]]
       /\ cut' = cut \cup {Path(a) : a \in {b \in Dies : pc[b] \in {"remove", "pull"}}}
  /\ cached' = [cached EXCEPT ![p] = NoPath]
  /\ UNCHANGED <<env, dir, attempt, then, got, ended>>

Step(a) ==
  \/ CheckCache(a) \/ CheckExists(a)
  \/ RLock(a) \/ TryRLock(a) \/ TryRLockFails(a) \/ Validate(a)
  \/ Lock(a) \/ TryLock(a) \/ TryLockTimesOut(a) \/ TryLockFails(a) \/ Recheck(a)
  \/ Remove(a) \/ RemoveFails(a) \/ PullMore(a) \/ Pull(a) \/ PullFails(a)
  \/ UnlockMutex(a) \/ UnlockFile(a) \/ UseEnds(a)

Quiet ==
  /\ \A a \in Agents : pc[a] \in Final
  /\ \A r \in Runs : r \in ended \/ \E a \in Agents : RunOf[a] = r /\ pc[a] = "dead"
  /\ UNCHANGED cacheVars

CacheNext ==
  \/ \E a \in Agents : Step(a)
  \/ \E r \in Runs : EndRun(r)
  \/ \E p \in Procs : Crash(p)
  \/ Quiet

CacheSpec == CacheInit /\ [][CacheNext]_cacheVars

\* Goroutines that can run do, helm and the file system answer.  Nobody waits
\* for ever for a mutex that others take in turns: each worker takes it a
\* bounded number of times.
FairCacheSpec == CacheSpec /\ \A a \in Agents : WF_cacheVars(Step(a))

-----------------------------------------------------------------------------
(* Properties *)

CacheTypeOK ==
  /\ env \in Envs
  /\ dir \in [Paths -> Content]
  /\ cut \subseteq Paths
  /\ cached \in [Procs -> Paths \cup {NoPath}]
  /\ mutex \in [Agents -> Hold]
  /\ flock \in [Agents -> Hold]
  /\ attempt \in [Agents -> 1..MaxRetries]
  /\ pc \in [Agents -> Pc]
  /\ then \in [Agents -> {"use", "failed", "wlock"}]
  /\ got \in [Agents -> Paths \cup {NoPath}]
  /\ ended \subseteq Runs

\* While a worker removes or downloads the chart, no other worker of any
\* process decides on what it finds at that path.
WriterAlone ==
  \A a \in Agents : pc[a] \in {"remove", "pull"} =>
    \A b \in Peers(a) : pc[b] \notin {"validate", "recheck", "remove", "pull"}

\* The order of the locks: a worker that waits for the lock file, and times
\* out after 30 seconds, never waits for a worker of its own process that is
\* still downloading; at most for one that is about to unlock.
MutexShields ==
  \A a \in Agents : pc[a] \in {"rflock", "wflock"} =>
    \A b \in Siblings(a) :
      flock[b] = "W" \/ (pc[a] = "wflock" /\ flock[b] = "R") => pc[b] = "unlockFile"

\* Whatever fails or times out, no worker goes on with a lock.
NoLockLeak ==
  \A a \in Agents : pc[a] \in Final \cup {"start", "exists", "use"} =>
    mutex[a] = "none" /\ flock[a] = "none"

\* Another process may delete the chart, or another run of the process that
\* has recorded a path in its own temporary directory.
OthersRefresh(a) == \E p \in Procs \ {Proc(a)} : env.refresh[p]
Disturbed(a) == OthersRefresh(a) \/ (env.place = "tempDir" /\ ~InTempDir(got[a], RunOf[a]))

\* Apart from these, a chart in use is complete, unless an earlier download
\* was cut short by an error or a crash.
UsableChart ==
  \A a \in Agents : pc[a] = "use" /\ ~Disturbed(a) =>
    dir[got[a]] = "complete" \/ got[a] \in cut

\* A chart that one worker of a process has got is not removed or downloaded
\* again at the same path for another, not even when the flags ask for a refresh.
NoRefetch ==
  \A a \in Agents : pc[a] \in {"remove", "pull"} /\ ~OthersRefresh(a) =>
    cached[Proc(a)] # Path(a)

\* Every worker ends up with a chart or an error: no lock is waited for for ever.
Served == \A a \in Agents : <>(pc[a] \in Final \cup {"use"})

\* "Locks are released immediately after download completes.  The tempDir
\* cleanup is deferred until after helm operations, so charts won't be deleted
\* mid-use." (state.go, acquireChartLock)
NotDeletedInUse ==
  [][\A a \in Agents :
       pc[a] = "use" /\ pc'[a] = "use" /\ dir[got[a]] = "complete" =>
         dir'[got[a]] = "complete"]_cacheVars
=============================================================================
