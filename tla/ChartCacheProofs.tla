-------------------------- MODULE ChartCacheProofs --------------------------
(* The locks of ChartCache, and the charts they protect, for any number of  *)
(* workers, runs and processes.                                             *)
EXTENDS ChartCache, TLAPS

\* What a worker holds follows from where it is.
HoldsAsPc ==
  \A a \in Agents :
    /\ pc[a] = "rflock" => mutex[a] = "R" /\ flock[a] = "none"
    /\ pc[a] = "validate" => mutex[a] = "R" /\ flock[a] = "R"
    /\ pc[a] = "wflock" => mutex[a] = "W" /\ flock[a] = "none"
    /\ pc[a] \in {"recheck", "remove", "pull"} => mutex[a] = "W" /\ flock[a] = "W"
    /\ pc[a] = "unlockMutex" => mutex[a] = flock[a] /\ flock[a] # "none"
    /\ pc[a] = "unlockFile" => mutex[a] = "none" /\ flock[a] # "none"
    /\ pc[a] \in Final \cup {"start", "exists", "rlock", "wlock", "use"} =>
         mutex[a] = "none" /\ flock[a] = "none"

\* Readers and writers exclude each other, on the mutex and on the lock file.
Exclusive ==
  /\ \A a \in Agents : \A b \in Peers(a) : flock[a] = "W" => flock[b] = "none"
  /\ \A a \in Agents : \A b \in Siblings(a) : mutex[a] = "W" => mutex[b] = "none"

LockInv == CacheTypeOK /\ HoldsAsPc /\ Exclusive

\* Nothing is locked at the start.
LEMMA LockInit == CacheInit => LockInv
<1> SUFFICES ASSUME CacheInit PROVE LockInv
  OBVIOUS
<1> USE CacheAssumption
<1>1. CacheTypeOK
  <2>1. env \in Envs /\ cut \subseteq Paths /\ ended \subseteq Runs
    BY DEF CacheInit
  <2>2. dir \in [Paths -> Content]
    BY DEF CacheInit, Content
  <2>3. cached \in [Procs -> Paths \cup {NoPath}] /\ got \in [Agents -> Paths \cup {NoPath}]
    BY DEF CacheInit
  <2>4. mutex \in [Agents -> Hold] /\ flock \in [Agents -> Hold]
    BY DEF CacheInit, Hold
  <2>5. attempt \in [Agents -> 1..MaxRetries]
    BY DEF CacheInit
  <2>6. pc \in [Agents -> Pc] /\ then \in [Agents -> {"use", "failed", "wlock"}]
    BY DEF CacheInit, Pc
  <2> QED BY <2>1, <2>2, <2>3, <2>4, <2>5, <2>6 DEF CacheTypeOK
<1>2. HoldsAsPc
  BY DEF CacheInit, HoldsAsPc
<1>3. Exclusive
  BY DEF CacheInit, Exclusive, Peers, Siblings
<1> QED BY <1>1, <1>2, <1>3 DEF LockInv

\* The path of a worker is a path, and depends on the environment alone.
LEMMA PathType ==
  ASSUME CacheTypeOK, NEW a \in Agents
  PROVE  Path(a) \in Paths /\ Proc(a) \in Procs
<1> QED BY CacheAssumption DEF CacheTypeOK, Path, Proc, Paths, EnvType

\* Every step keeps the variables in their types.
LEMMA CacheTypeNext == LockInv /\ [CacheNext]_cacheVars => CacheTypeOK'
<1> SUFFICES ASSUME LockInv, [CacheNext]_cacheVars PROVE CacheTypeOK'
  OBVIOUS
<1> USE CacheAssumption DEF LockInv, CacheTypeOK, Hold
<1>h. ASSUME NEW a \in Agents, HandOut(a)
      PROVE  /\ cached' \in [Procs -> Paths \cup {NoPath}]
             /\ got' \in [Agents -> Paths \cup {NoPath}]
             /\ then' \in [Agents -> {"use", "failed", "wlock"}]
             /\ pc' \in [Agents -> Pc]
  BY <1>h, PathType DEF HandOut, ReleaseThen, Goto, Pc
<1>1. ASSUME NEW a \in Agents, CheckCache(a) \/ CheckExists(a) PROVE CacheTypeOK'
  BY <1>1, PathType DEF CheckCache, CheckExists, Goto, Pc
<1>2. ASSUME NEW a \in Agents, RLock(a) \/ TryRLock(a) \/ TryRLockFails(a) PROVE CacheTypeOK'
  BY <1>2 DEF RLock, TryRLock, TryRLockFails, SetMutex, SetFlock, Goto, Pc
<1>3. ASSUME NEW a \in Agents, Lock(a) \/ TryLock(a) \/ TryLockTimesOut(a) PROVE CacheTypeOK'
  BY <1>3 DEF Lock, TryLock, TryLockTimesOut, SetMutex, SetFlock, Goto, Pc, Final
<1>4. ASSUME NEW a \in Agents, TryLockFails(a) PROVE CacheTypeOK'
  BY <1>4 DEF TryLockFails, SetMutex, Goto, Pc, Final
<1>5. ASSUME NEW a \in Agents, Validate(a) PROVE CacheTypeOK'
  BY <1>5, <1>h DEF Validate, ReleaseThen, Goto, Pc
<1>6. ASSUME NEW a \in Agents, Recheck(a) PROVE CacheTypeOK'
  <2>1. UNCHANGED <<env, cut, mutex, flock, attempt, ended>>
    BY <1>6 DEF Recheck
  <2>2. dir' \in [Paths -> Content]
    BY <1>6, PathType DEF Recheck, Content
  <2>3. /\ cached' \in [Procs -> Paths \cup {NoPath}]
        /\ got' \in [Agents -> Paths \cup {NoPath}]
        /\ then' \in [Agents -> {"use", "failed", "wlock"}]
        /\ pc' \in [Agents -> Pc]
    BY <1>6, <1>h DEF Recheck, Goto, Pc
  <2> QED BY <2>1, <2>2, <2>3
<1>7. ASSUME NEW a \in Agents, Remove(a) \/ RemoveFails(a) \/ PullMore(a) \/ PullFails(a)
      PROVE  CacheTypeOK'
  BY <1>7, PathType DEF Remove, RemoveFails, PullMore, PullFails, ReleaseThen, Goto, Pc, Content
<1>8. ASSUME NEW a \in Agents, Pull(a) PROVE CacheTypeOK'
  BY <1>8, <1>h, PathType DEF Pull, Content
<1>9. ASSUME NEW a \in Agents, UnlockMutex(a) \/ UnlockFile(a) \/ UseEnds(a) PROVE CacheTypeOK'
  BY <1>9 DEF UnlockMutex, UnlockFile, UseEnds, SetMutex, SetFlock, Goto, Pc, Final
<1>10. ASSUME NEW r \in Runs, EndRun(r) PROVE CacheTypeOK'
  BY <1>10 DEF EndRun, Content
<1>11. ASSUME NEW p \in Procs, Crash(p) PROVE CacheTypeOK'
  <2>1. pc' \in [Agents -> Pc] /\ mutex' \in [Agents -> Hold] /\ flock' \in [Agents -> Hold]
    BY <1>11 DEF Crash, Pc, Final
  <2>2. cut' \subseteq Paths
    BY <1>11, PathType DEF Crash
  <2>3. cached' \in [Procs -> Paths \cup {NoPath}]
    BY <1>11 DEF Crash
  <2> QED BY <1>11, <2>1, <2>2, <2>3 DEF Crash
<1>12. CASE UNCHANGED cacheVars
  BY <1>12 DEF cacheVars
<1> QED
  BY <1>1, <1>2, <1>3, <1>4, <1>5, <1>6, <1>7, <1>8, <1>9, <1>10, <1>11, <1>12
     DEF CacheNext, Step, Quiet

\* Which worker shares a path with which does not change.
LEMMA SamePeers ==
  ASSUME [CacheNext]_cacheVars
  PROVE  env' = env /\ \A a \in Agents : Peers(a)' = Peers(a) /\ Siblings(a)' = Siblings(a)
<1>1. env' = env
  BY DEF CacheNext, Step, Quiet, cacheVars, EndRun, Crash, CheckCache, CheckExists, RLock,
     TryRLock, TryRLockFails, Validate, Lock, TryLock, TryLockTimesOut, TryLockFails, Recheck,
     Remove, RemoveFails, PullMore, Pull, PullFails, UnlockMutex, UnlockFile, UseEnds
<1> QED BY <1>1 DEF Peers, Siblings, Path, Proc

\* A step of one worker changes nobody else's place and locks.
LEMMA OthersKeep ==
  ASSUME LockInv, NEW a \in Agents, Step(a), NEW b \in Agents, b # a
  PROVE  pc'[b] = pc[b] /\ mutex'[b] = mutex[b] /\ flock'[b] = flock[b]
<1> USE DEF LockInv, CacheTypeOK, Goto, SetMutex, SetFlock, ReleaseThen
<1>1. CASE CheckCache(a) \/ CheckExists(a) \/ UseEnds(a)
  BY <1>1 DEF CheckCache, CheckExists, UseEnds
<1>2. CASE RLock(a) \/ TryRLock(a) \/ TryRLockFails(a)
  BY <1>2 DEF RLock, TryRLock, TryRLockFails
<1>3. CASE Lock(a) \/ TryLock(a) \/ TryLockTimesOut(a) \/ TryLockFails(a)
  BY <1>3 DEF Lock, TryLock, TryLockTimesOut, TryLockFails
<1>4. CASE Validate(a) \/ Recheck(a) \/ Pull(a)
  BY <1>4 DEF Validate, Recheck, Pull, HandOut
<1>5. CASE Remove(a) \/ RemoveFails(a) \/ PullMore(a) \/ PullFails(a)
  BY <1>5 DEF Remove, RemoveFails, PullMore, PullFails
<1>6. CASE UnlockMutex(a) \/ UnlockFile(a)
  BY <1>6 DEF UnlockMutex, UnlockFile
<1> QED BY <1>1, <1>2, <1>3, <1>4, <1>5, <1>6 DEF Step

\* The locks a worker holds keep following from where it is.
LEMMA HoldsNext == LockInv /\ [CacheNext]_cacheVars => HoldsAsPc'
<1> SUFFICES ASSUME LockInv, [CacheNext]_cacheVars PROVE HoldsAsPc'
  OBVIOUS
<1>1. ASSUME NEW a \in Agents, Step(a) PROVE HoldsAsPc'
  <2> SUFFICES ASSUME NEW b \in Agents
               PROVE
    /\ pc'[b] = "rflock" => mutex'[b] = "R" /\ flock'[b] = "none"
    /\ pc'[b] = "validate" => mutex'[b] = "R" /\ flock'[b] = "R"
    /\ pc'[b] = "wflock" => mutex'[b] = "W" /\ flock'[b] = "none"
    /\ pc'[b] \in {"recheck", "remove", "pull"} => mutex'[b] = "W" /\ flock'[b] = "W"
    /\ pc'[b] = "unlockMutex" => mutex'[b] = flock'[b] /\ flock'[b] # "none"
    /\ pc'[b] = "unlockFile" => mutex'[b] = "none" /\ flock'[b] # "none"
    /\ pc'[b] \in Final \cup {"start", "exists", "rlock", "wlock", "use"} =>
         mutex'[b] = "none" /\ flock'[b] = "none"
    BY DEF HoldsAsPc
  <2>1. CASE b # a
    BY <1>1, <2>1, OthersKeep DEF LockInv, HoldsAsPc
  <2>2. CASE b = a
    <3> USE <2>2 DEF LockInv, CacheTypeOK, HoldsAsPc, Goto, SetMutex, SetFlock, ReleaseThen, Final
    <3>1. CASE CheckCache(a) \/ CheckExists(a) \/ UseEnds(a)
      BY <3>1 DEF CheckCache, CheckExists, UseEnds
    <3>2. CASE RLock(a) \/ TryRLock(a) \/ TryRLockFails(a)
      BY <3>2 DEF RLock, TryRLock, TryRLockFails
    <3>3. CASE Lock(a) \/ TryLock(a) \/ TryLockTimesOut(a) \/ TryLockFails(a)
      BY <3>3 DEF Lock, TryLock, TryLockTimesOut, TryLockFails
    <3>4. CASE Validate(a)
      BY <3>4 DEF Validate, HandOut
    <3>5. CASE Recheck(a)
      BY <3>5 DEF Recheck, HandOut
    <3>6. CASE Pull(a)
      BY <3>6 DEF Pull, HandOut
    <3>7. CASE Remove(a) \/ RemoveFails(a) \/ PullMore(a) \/ PullFails(a)
      BY <3>7 DEF Remove, RemoveFails, PullMore, PullFails
    <3>8. CASE UnlockMutex(a)
      BY <3>8 DEF UnlockMutex
    <3>9. CASE UnlockFile(a)
      BY <3>9 DEF UnlockFile
    <3> QED BY <1>1, <3>1, <3>2, <3>3, <3>4, <3>5, <3>6, <3>7, <3>8, <3>9 DEF Step
  <2> QED BY <2>1, <2>2
<1>2. ASSUME NEW r \in Runs, EndRun(r) PROVE HoldsAsPc'
  BY <1>2 DEF EndRun, LockInv, HoldsAsPc
<1>3. ASSUME NEW p \in Procs, Crash(p) PROVE HoldsAsPc'
  BY <1>3 DEF Crash, LockInv, HoldsAsPc, Final
<1>4. CASE UNCHANGED cacheVars
  BY <1>4 DEF cacheVars, LockInv, HoldsAsPc
<1> QED BY <1>1, <1>2, <1>3, <1>4 DEF CacheNext, Quiet

\* Sharing a path, or a path and a process, is mutual.
LEMMA PeersMutual ==
  ASSUME NEW a \in Agents, NEW b \in Agents
  PROVE  /\ b \in Peers(a) <=> a \in Peers(b)
         /\ b \in Siblings(a) <=> a \in Siblings(b)
         /\ b \in Siblings(a) => b \in Peers(a)
         /\ b \in Peers(a) => b # a
<1> QED BY DEF Peers, Siblings

\* A lock is taken only when nobody holds one that excludes it.
LEMMA TakenFairly ==
  ASSUME LockInv, NEW a \in Agents, Step(a)
  PROVE  /\ flock'[a] = flock[a] \/ flock'[a] = "none"
            \/ (flock'[a] = "R" /\ \A b \in Peers(a) : flock[b] # "W")
            \/ \A b \in Peers(a) : flock[b] = "none"
         /\ mutex'[a] = mutex[a] \/ mutex'[a] = "none"
            \/ (mutex'[a] = "R" /\ \A b \in Siblings(a) : mutex[b] # "W")
            \/ \A b \in Siblings(a) : mutex[b] = "none"
<1> USE DEF LockInv, CacheTypeOK, SetMutex, SetFlock
<1>1. CASE CheckCache(a) \/ CheckExists(a) \/ UseEnds(a)
  BY <1>1 DEF CheckCache, CheckExists, UseEnds
<1>2. CASE RLock(a) \/ TryRLock(a) \/ TryRLockFails(a)
  BY <1>2 DEF RLock, TryRLock, TryRLockFails
<1>3. CASE Lock(a) \/ TryLock(a) \/ TryLockTimesOut(a) \/ TryLockFails(a)
  BY <1>3 DEF Lock, TryLock, TryLockTimesOut, TryLockFails
<1>4. CASE Validate(a) \/ Recheck(a) \/ Pull(a)
  BY <1>4 DEF Validate, Recheck, Pull
<1>5. CASE Remove(a) \/ RemoveFails(a) \/ PullMore(a) \/ PullFails(a)
  BY <1>5 DEF Remove, RemoveFails, PullMore, PullFails
<1>6. CASE UnlockMutex(a) \/ UnlockFile(a)
  BY <1>6 DEF UnlockMutex, UnlockFile
<1> QED BY <1>1, <1>2, <1>3, <1>4, <1>5, <1>6 DEF Step

\* Readers and writers keep excluding each other.
LEMMA ExclusiveNext == LockInv /\ [CacheNext]_cacheVars => Exclusive'
<1> SUFFICES ASSUME LockInv, [CacheNext]_cacheVars PROVE Exclusive'
  OBVIOUS
<1>0. \A a \in Agents : Peers(a)' = Peers(a) /\ Siblings(a)' = Siblings(a)
                      /\ Peers(a) \subseteq Agents /\ Siblings(a) \subseteq Agents
  BY SamePeers DEF Peers, Siblings
<1>1. ASSUME NEW c \in Agents, Step(c) PROVE Exclusive'
  <2>1. ASSUME NEW a \in Agents, NEW b \in Peers(a), flock'[a] = "W" PROVE flock'[b] = "none"
    <3>0. b \in Agents /\ b # a /\ a \in Peers(b)
      BY <1>0, <2>1, PeersMutual
    <3>1. CASE a = c
      BY <1>1, <2>1, <3>0, <3>1, TakenFairly, OthersKeep DEF LockInv, Exclusive
    <3>2. CASE b = c
      <4>1. flock[a] = "W"
        BY <1>1, <2>1, <3>0, <3>2, OthersKeep
      <4>2. flock[b] = "none"
        BY <2>1, <4>1 DEF LockInv, Exclusive
      <4>3. \/ flock'[b] = flock[b] \/ flock'[b] = "none"
            \/ \A d \in Peers(b) : flock[d] # "W"
        BY <1>1, <3>0, <3>2, TakenFairly
      <4> QED BY <3>0, <4>1, <4>2, <4>3
    <3>3. CASE a # c /\ b # c
      BY <1>1, <2>1, <3>0, <3>3, OthersKeep DEF LockInv, Exclusive
    <3> QED BY <3>1, <3>2, <3>3
  <2>2. ASSUME NEW a \in Agents, NEW b \in Siblings(a), mutex'[a] = "W" PROVE mutex'[b] = "none"
    <3>0. b \in Agents /\ b # a /\ a \in Siblings(b)
      BY <1>0, <2>2, PeersMutual
    <3>1. CASE a = c
      BY <1>1, <2>2, <3>0, <3>1, TakenFairly, OthersKeep DEF LockInv, Exclusive
    <3>2. CASE b = c
      <4>1. mutex[a] = "W"
        BY <1>1, <2>2, <3>0, <3>2, OthersKeep
      <4>2. mutex[b] = "none"
        BY <2>2, <4>1 DEF LockInv, Exclusive
      <4>3. \/ mutex'[b] = mutex[b] \/ mutex'[b] = "none"
            \/ \A d \in Siblings(b) : mutex[d] # "W"
        BY <1>1, <3>0, <3>2, TakenFairly
      <4> QED BY <3>0, <4>1, <4>2, <4>3
    <3>3. CASE a # c /\ b # c
      BY <1>1, <2>2, <3>0, <3>3, OthersKeep DEF LockInv, Exclusive
    <3> QED BY <3>1, <3>2, <3>3
  <2> QED BY <1>0, <2>1, <2>2 DEF Exclusive
<1>2. ASSUME NEW r \in Runs, EndRun(r) PROVE Exclusive'
  BY <1>0, <1>2 DEF EndRun, LockInv, Exclusive
<1>3. ASSUME NEW p \in Procs, Crash(p) PROVE Exclusive'
  <2>1. \A a \in Agents : /\ flock'[a] = flock[a] \/ flock'[a] = "none"
                          /\ mutex'[a] = mutex[a] \/ mutex'[a] = "none"
    BY <1>3 DEF Crash
  <2>2. ASSUME NEW a \in Agents, NEW b \in Peers(a), flock'[a] = "W" PROVE flock'[b] = "none"
    <3>1. b \in Agents /\ flock[a] = "W"
      BY <1>0, <2>1, <2>2
    <3> QED BY <2>1, <3>1 DEF LockInv, Exclusive
  <2>3. ASSUME NEW a \in Agents, NEW b \in Siblings(a), mutex'[a] = "W" PROVE mutex'[b] = "none"
    <3>1. b \in Agents /\ mutex[a] = "W"
      BY <1>0, <2>1, <2>3
    <3> QED BY <2>1, <3>1 DEF LockInv, Exclusive
  <2> QED BY <1>0, <2>2, <2>3 DEF Exclusive
<1>4. CASE UNCHANGED cacheVars
  BY <1>0, <1>4 DEF cacheVars, LockInv, Exclusive
<1> QED BY <1>1, <1>2, <1>3, <1>4 DEF CacheNext, Quiet

-----------------------------------------------------------------------------
(* What is at the paths.                                                    *)

Writer(c) == pc[c] \in {"remove", "pull"}

\* A chart is there, and nobody is replacing it.
Kept(p) == HasChart(p) /\ \A c \in Agents : Writer(c) => Path(c) # p

\* A worker that found no chart, or one to be refreshed for the first time, is
\* about to write.
Starts(b) == pc[b] = "recheck" /\ (HasChart(Path(b)) => NeedsRefresh(b) /\ ~SkipRefresh(b))

\* A worker that has been handed a path, also while it still releases its locks.
Holding(a) == pc[a] = "use" \/ (pc[a] \in {"unlockMutex", "unlockFile"} /\ then[a] = "use")

\* All paths of a run are in the shared cache directory, or none is.
InPlace(p) == p \in Paths /\ (env.place = "cacheDir" => p = CacheDir)

OnlyRefresher(q) == \A o \in Procs \ {q} : ~env.refresh[o]
Gone(p)          == p \in Agents /\ RunOf[p] \in ended

EndedQuiet == \A a \in Agents : RunOf[a] \in ended => pc[a] \in Final

\* An incomplete chart is being written, or was left by an error or a crash.
Explained ==
  \A p \in Paths : dir[p] = "partial" => p \in cut \/ \E c \in Agents : Writer(c) /\ Path(c) = p

\* What a process has recorded stays, unless another process refreshes it or the
\* run that downloaded it has ended.
Recorded ==
  \A q \in Procs : cached[q] # NoPath =>
    /\ InPlace(cached[q])
    /\ OnlyRefresher(q) /\ ~Gone(cached[q]) => Kept(cached[q])

\* So does what a worker has been handed.
HandedOut ==
  \A a \in Agents : Holding(a) =>
    /\ cached[Proc(a)] # NoPath /\ InPlace(got[a])
    /\ ~Disturbed(a) => Kept(got[a])

KeepInv == EndedQuiet /\ Explained /\ Recorded /\ HandedOut

\* Nothing is recorded or handed out at the start.
LEMMA KeepInit == CacheInit => KeepInv
<1> SUFFICES ASSUME CacheInit PROVE KeepInv
  OBVIOUS
<1> USE CacheAssumption DEF CacheInit
<1>1. EndedQuiet
  BY DEF EndedQuiet
<1>2. Explained
  BY DEF Explained
<1>3. Recorded
  BY DEF Recorded
<1>4. HandedOut
  BY DEF HandedOut, Holding
<1> QED BY <1>1, <1>2, <1>3, <1>4 DEF KeepInv

\* What a worker does to the paths: it writes at its own, when it is a writer or
\* becomes one.
LEMMA StepWrites ==
  ASSUME LockInv, NEW b \in Agents, Step(b)
  PROVE  /\ \A p \in Paths : dir'[p] = dir[p] \/ (p = Path(b) /\ (Writer(b) \/ Starts(b)))
         /\ Writer(b)' => Writer(b) \/ Starts(b)
         /\ ended' = ended
<1> USE DEF LockInv, CacheTypeOK, Goto, ReleaseThen, Writer
<1>1. CASE CheckCache(b) \/ CheckExists(b) \/ UseEnds(b)
  BY <1>1 DEF CheckCache, CheckExists, UseEnds
<1>2. CASE RLock(b) \/ TryRLock(b) \/ TryRLockFails(b)
  BY <1>2 DEF RLock, TryRLock, TryRLockFails
<1>3. CASE Lock(b) \/ TryLock(b) \/ TryLockTimesOut(b) \/ TryLockFails(b)
  BY <1>3 DEF Lock, TryLock, TryLockTimesOut, TryLockFails
<1>4. CASE Validate(b)
  BY <1>4 DEF Validate, HandOut
<1>5. CASE Recheck(b)
  BY <1>5 DEF Recheck, HandOut, Starts, HasChart
<1>6. CASE Remove(b) \/ RemoveFails(b) \/ PullMore(b) \/ Pull(b) \/ PullFails(b)
  BY <1>6 DEF Remove, RemoveFails, PullMore, Pull, PullFails, HandOut
<1>7. CASE UnlockMutex(b) \/ UnlockFile(b)
  BY <1>7 DEF UnlockMutex, UnlockFile
<1> QED BY <1>1, <1>2, <1>3, <1>4, <1>5, <1>6, <1>7 DEF Step

\* The environment decides on paths, processes and refreshes: no step changes it.
LEMMA SamePlaces ==
  ASSUME [CacheNext]_cacheVars
  PROVE  /\ \A a : Path(a)' = Path(a) /\ Proc(a)' = Proc(a) /\ NeedsRefresh(a)' = NeedsRefresh(a)
         /\ \A a : OthersRefresh(a)' <=> OthersRefresh(a)
<1>1. env' = env
  BY SamePeers
<1> QED BY <1>1 DEF Path, Proc, NeedsRefresh, OthersRefresh

\* A chart stays at a path while the process that has recorded something is the
\* only one that refreshes, and until the run of the path ends.
LEMMA KeptStays ==
  ASSUME LockInv, [CacheNext]_cacheVars, NEW p \in Paths, Kept(p),
         NEW q \in Procs, cached[q] # NoPath, OnlyRefresher(q),
         \A r \in Runs : InTempDir(p, r) /\ r \in ended' => r \in ended
  PROVE  Kept(p)'
<1>0. \A c \in Agents : Path(c)' = Path(c) /\ Path(c) \in Paths /\ Proc(c) \in Procs
  BY SamePlaces, PathType DEF LockInv
<1>1. ASSUME NEW b \in Agents, Step(b) PROVE Kept(p)'
  <2>1. p = Path(b) => ~Writer(b) /\ ~Starts(b)
    BY <1>0 DEF Kept, Starts, NeedsRefresh, SkipRefresh, OnlyRefresher
  <2>2. dir'[p] = dir[p]
    BY <1>1, <2>1, StepWrites
  <2>3. ASSUME NEW c \in Agents, Writer(c)' PROVE Path(c) # p
    <3>1. CASE c = b
      BY <1>1, <2>1, <2>3, <3>1, StepWrites
    <3>2. CASE c # b
      BY <1>1, <2>3, <3>2, OthersKeep DEF Kept, Writer
    <3> QED BY <3>1, <3>2
  <2> QED BY <1>0, <2>2, <2>3 DEF Kept, HasChart
<1>2. ASSUME NEW r \in Runs, EndRun(r) PROVE Kept(p)'
  <2>1. ~InTempDir(p, r)
    BY <1>2 DEF EndRun, LockInv, CacheTypeOK
  <2>2. dir'[p] = dir[p] /\ pc' = pc
    BY <1>2, <2>1 DEF EndRun
  <2> QED BY <1>0, <2>2 DEF Kept, HasChart, Writer
<1>3. ASSUME NEW o \in Procs, Crash(o) PROVE Kept(p)'
  <2>1. dir' = dir /\ \A c \in Agents : pc'[c] = pc[c] \/ pc'[c] = "dead"
    BY <1>3 DEF Crash
  <2> QED BY <1>0, <2>1 DEF Kept, HasChart, Writer
<1>4. CASE UNCHANGED cacheVars
  BY <1>0, <1>4 DEF cacheVars, Kept, HasChart, Writer
<1> QED BY <1>1, <1>2, <1>3, <1>4 DEF CacheNext, Quiet

\* What a worker hands out is there, and nobody writes at it: it is alone.
LEMMA HandOutKept ==
  ASSUME LockInv, WriterAlone, NEW b \in Agents, Step(b), HandOut(b)
  PROVE  Kept(Path(b))' /\ Path(b) \in Paths /\ pc[b] \in {"validate", "recheck", "pull"}
<1> USE DEF LockInv, CacheTypeOK, Goto, ReleaseThen
<1>0. [CacheNext]_cacheVars
  BY Zenon DEF CacheNext
<1>1. /\ \A c \in Agents : Path(c)' = Path(c)
      /\ Path(b) \in Paths
  BY <1>0, SamePlaces, PathType
<1>2. pc'[b] = "unlockMutex" /\ then'[b] = "use" /\ got'[b] = Path(b)
  BY DEF HandOut
<1>3. pc[b] \in {"validate", "recheck", "pull"} /\ dir'[Path(b)] \in {"partial", "complete"}
  <2>1. CASE CheckCache(b) \/ CheckExists(b) \/ UseEnds(b)
    BY <1>2, <2>1 DEF CheckCache, CheckExists, UseEnds
  <2>2. CASE RLock(b) \/ TryRLock(b) \/ TryRLockFails(b)
    BY <1>2, <2>2 DEF RLock, TryRLock, TryRLockFails
  <2>3. CASE Lock(b) \/ TryLock(b) \/ TryLockTimesOut(b) \/ TryLockFails(b)
    BY <1>2, <2>3 DEF Lock, TryLock, TryLockTimesOut, TryLockFails
  <2>4. CASE Validate(b)
    BY <1>2, <2>4 DEF Validate, HasChart
  <2>5. CASE Recheck(b)
    BY <1>2, <2>5 DEF Recheck, HasChart
  <2>6. CASE Pull(b)
    BY <1>1, <2>6 DEF Pull
  <2>7. CASE Remove(b) \/ RemoveFails(b) \/ PullMore(b) \/ PullFails(b)
    BY <1>2, <2>7 DEF Remove, RemoveFails, PullMore, PullFails
  <2>8. CASE UnlockMutex(b) \/ UnlockFile(b)
    BY <1>2, <2>8 DEF UnlockMutex, UnlockFile
  <2> QED BY <2>1, <2>2, <2>3, <2>4, <2>5, <2>6, <2>7, <2>8 DEF Step
<1>4. ASSUME NEW c \in Agents, Writer(c)' PROVE Path(c) # Path(b)
  <2>1. c # b
    BY <1>2, <1>4 DEF Writer
  <2>2. Writer(c)
    BY <1>4, <2>1, OthersKeep DEF Writer
  <2>3. b \notin Peers(c)
    BY <1>3, <2>2 DEF WriterAlone, Writer
  <2> QED BY <2>1, <2>3 DEF Peers
<1> QED BY <1>1, <1>3, <1>4 DEF Kept, HasChart

\* A run ends when all its workers are through, and none of them starts again.
LEMMA EndedNext == LockInv /\ EndedQuiet /\ [CacheNext]_cacheVars => EndedQuiet'
<1> SUFFICES ASSUME LockInv, EndedQuiet, [CacheNext]_cacheVars,
                    NEW a \in Agents, RunOf[a] \in ended'
             PROVE  pc'[a] \in Final
  BY DEF EndedQuiet
<1>1. ASSUME NEW b \in Agents, Step(b) PROVE pc'[a] \in Final
  <2>1. pc[a] \in Final
    BY <1>1, StepWrites DEF EndedQuiet
  <2>2. a # b
    BY <1>1, <2>1 DEF Final, Step, CheckCache, CheckExists, RLock, TryRLock, TryRLockFails, Validate, Lock,
       TryLock, TryLockTimesOut, TryLockFails, Recheck, Remove, RemoveFails, PullMore, Pull, PullFails,
       UnlockMutex, UnlockFile, UseEnds
  <2> QED BY <1>1, <2>1, <2>2, OthersKeep
<1>2. ASSUME NEW r \in Runs, EndRun(r) PROVE pc'[a] \in Final
  BY <1>2 DEF EndRun, EndedQuiet, Final
<1>3. ASSUME NEW o \in Procs, Crash(o) PROVE pc'[a] \in Final
  BY <1>3 DEF Crash, EndedQuiet, Final
<1>4. CASE UNCHANGED cacheVars
  BY <1>4 DEF cacheVars, EndedQuiet
<1> QED BY <1>1, <1>2, <1>3, <1>4 DEF CacheNext, Quiet

\* A writer that stops before the chart is complete leaves a path that was cut.
LEMMA ExplainedStep ==
  ASSUME LockInv, Explained, NEW b \in Agents, Step(b)
  PROVE  Explained'
<1> USE DEF LockInv, CacheTypeOK, Goto, ReleaseThen
<1>0. [CacheNext]_cacheVars
  BY Zenon DEF CacheNext
<1>1. /\ \A c \in Agents : Path(c)' = Path(c)
      /\ Path(b) \in Paths
  BY <1>0, SamePlaces, PathType
<1>2. ASSUME NEW p \in Paths, dir'[p] = "partial" PROVE p \in cut' \/ \E c \in Agents : Writer(c)' /\ Path(c) = p
  <2>1. ASSUME NEW c \in Agents, c # b, Writer(c), Path(c) = p PROVE Writer(c)'
    BY <2>1, OthersKeep DEF Writer
  <2>2. CASE Recheck(b) \/ Remove(b) \/ PullMore(b)
    <3>1. cut' = cut
      BY <2>2 DEF Recheck, Remove, PullMore
    <3>2. Writer(b) => Writer(b)'
      BY <2>2 DEF Recheck, Remove, PullMore, Writer
    <3>3. p # Path(b) => dir'[p] = dir[p]
      BY <2>2 DEF Recheck, Remove, PullMore
    <3>4. p = Path(b) => Writer(b)' \/ dir'[p] = dir[p]
      BY <2>2 DEF Recheck, Remove, PullMore, Writer
    <3> QED BY <1>2, <2>1, <3>1, <3>2, <3>3, <3>4 DEF Explained
  <2>3. CASE Pull(b)
    <3>1. p # Path(b)
      BY <1>1, <1>2, <2>3 DEF Pull
    <3>2. dir'[p] = dir[p] /\ (p \in cut => p \in cut')
      BY <2>3, <3>1 DEF Pull
    <3> QED BY <1>2, <2>1, <3>1, <3>2 DEF Explained
  <2>4. CASE RemoveFails(b) \/ PullFails(b)
    <3>1. dir' = dir /\ cut' = cut \cup {Path(b)}
      BY <2>4 DEF RemoveFails, PullFails
    <3> QED BY <1>2, <2>1, <3>1 DEF Explained
  <2>5. CASE ~Writer(b) /\ dir' = dir /\ cut' = cut
    BY <1>2, <2>1, <2>5 DEF Explained
  <2>6. CASE CheckCache(b) \/ CheckExists(b) \/ UseEnds(b) \/ RLock(b) \/ TryRLock(b) \/ TryRLockFails(b)
    BY <2>5, <2>6 DEF CheckCache, CheckExists, UseEnds, RLock, TryRLock, TryRLockFails, Writer
  <2>7. CASE Lock(b) \/ TryLock(b) \/ TryLockTimesOut(b) \/ TryLockFails(b)
    BY <2>5, <2>7 DEF Lock, TryLock, TryLockTimesOut, TryLockFails, Writer
  <2>8. CASE Validate(b) \/ UnlockMutex(b) \/ UnlockFile(b)
    BY <2>5, <2>8 DEF Validate, UnlockMutex, UnlockFile, Writer
  <2> QED BY <2>2, <2>3, <2>4, <2>6, <2>7, <2>8 DEF Step
<1> QED BY <1>1, <1>2 DEF Explained

\* The end of a run and a crash explain what they leave, too.
LEMMA ExplainedNext == LockInv /\ EndedQuiet /\ Explained /\ [CacheNext]_cacheVars => Explained'
<1> SUFFICES ASSUME LockInv, EndedQuiet, Explained, [CacheNext]_cacheVars PROVE Explained'
  OBVIOUS
<1>0. \A c \in Agents : Path(c)' = Path(c)
  BY SamePlaces
<1>1. ASSUME NEW r \in Runs, EndRun(r) PROVE Explained'
  <2>1. \A p \in Paths : dir'[p] = "partial" => dir[p] = "partial" /\ (p \in cut => p \in cut')
    BY <1>1 DEF EndRun
  <2>2. pc' = pc
    BY <1>1 DEF EndRun
  <2> QED BY <1>0, <2>1, <2>2 DEF Explained, Writer
<1>2. ASSUME NEW o \in Procs, Crash(o) PROVE Explained'
  <2>1. dir' = dir /\ cut \subseteq cut'
    BY <1>2 DEF Crash
  <2>2. ASSUME NEW c \in Agents, Writer(c) PROVE Writer(c)' \/ Path(c) \in cut'
    <3>1. CASE Proc(c) = o
      BY <1>2, <2>2, <3>1 DEF Crash, Writer
    <3>2. CASE Proc(c) # o
      BY <1>2, <2>2, <3>2 DEF Crash, Writer
    <3> QED BY <3>1, <3>2
  <2> QED BY <1>0, <2>1, <2>2 DEF Explained
<1>3. CASE UNCHANGED cacheVars
  BY <1>0, <1>3 DEF cacheVars, Explained, Writer
<1> QED BY <1>1, <1>2, <1>3, ExplainedStep DEF CacheNext, Quiet

\* What a step makes of the map of a process: nothing, or the path of a worker
\* that hands it out, or nothing is recorded any more.
LEMMA CachedNext ==
  ASSUME LockInv, [CacheNext]_cacheVars, NEW q \in Procs
  PROVE  \/ cached'[q] = cached[q]
         \/ cached'[q] = NoPath
         \/ \E b \in Agents : Step(b) /\ HandOut(b) /\ Proc(b) = q /\ cached'[q] = Path(b)
<1> USE DEF LockInv, CacheTypeOK
<1>1. ASSUME NEW b \in Agents, Step(b)
      PROVE  cached'[q] = cached[q] \/ (HandOut(b) /\ Proc(b) = q /\ cached'[q] = Path(b))
  <2>1. CASE HandOut(b)
    BY <2>1 DEF HandOut
  <2>2. CASE cached' = cached
    BY <2>2
  <2>3. CASE CheckCache(b) \/ CheckExists(b) \/ UseEnds(b) \/ RLock(b) \/ TryRLock(b) \/ TryRLockFails(b)
    BY <2>2, <2>3 DEF CheckCache, CheckExists, UseEnds, RLock, TryRLock, TryRLockFails
  <2>4. CASE Lock(b) \/ TryLock(b) \/ TryLockTimesOut(b) \/ TryLockFails(b)
    BY <2>2, <2>4 DEF Lock, TryLock, TryLockTimesOut, TryLockFails
  <2>5. CASE Validate(b) \/ Recheck(b) \/ Pull(b)
    BY <2>1, <2>2, <2>5 DEF Validate, Recheck, Pull
  <2>6. CASE Remove(b) \/ RemoveFails(b) \/ PullMore(b) \/ PullFails(b) \/ UnlockMutex(b) \/ UnlockFile(b)
    BY <2>2, <2>6 DEF Remove, RemoveFails, PullMore, PullFails, UnlockMutex, UnlockFile
  <2> QED BY <1>1, <2>1, <2>3, <2>4, <2>5, <2>6 DEF Step
<1>2. ASSUME NEW r \in Runs, EndRun(r) PROVE cached' = cached
  BY <1>2 DEF EndRun
<1>3. ASSUME NEW o \in Procs, Crash(o) PROVE cached'[q] = cached[q] \/ cached'[q] = NoPath
  BY <1>3 DEF Crash
<1>4. CASE UNCHANGED cacheVars
  BY <1>4 DEF cacheVars
<1> QED BY <1>1, <1>2, <1>3, <1>4 DEF CacheNext, Quiet

\* The path of a worker is in place.
LEMMA PathInPlace == ASSUME CacheTypeOK, NEW b \in Agents PROVE InPlace(Path(b))
BY PathType DEF InPlace, Path, CacheTypeOK, EnvType

\* A run that has ended stays ended.
LEMMA EndedGrows == [CacheNext]_cacheVars /\ LockInv => ended \subseteq ended'
<1> SUFFICES ASSUME [CacheNext]_cacheVars, LockInv PROVE ended \subseteq ended'
  OBVIOUS
<1>1. ASSUME NEW b \in Agents, Step(b) PROVE ended' = ended
  BY <1>1, StepWrites
<1> QED BY <1>1 DEF CacheNext, Quiet, cacheVars, EndRun, Crash

\* What is recorded stays recorded and kept.
LEMMA RecordedNext == LockInv /\ WriterAlone /\ KeepInv /\ [CacheNext]_cacheVars => Recorded'
<1> SUFFICES ASSUME LockInv, WriterAlone, KeepInv, [CacheNext]_cacheVars,
                    NEW q \in Procs, cached'[q] # NoPath
             PROVE  /\ InPlace(cached[q])'
                    /\ OnlyRefresher(q)' /\ ~Gone(cached[q])' => Kept(cached[q])'
  BY DEF Recorded
<1>1. CASE cached'[q] = cached[q]
  <2>0. env' = env
    BY SamePeers
  <2>1. InPlace(cached[q])'
    BY <1>1, <2>0 DEF KeepInv, Recorded, InPlace
  <2>2. ASSUME OnlyRefresher(q), ~Gone(cached[q])' PROVE Kept(cached[q])'
    <3>1. cached[q] \in Paths /\ cached[q] # NoPath
      BY <1>1 DEF KeepInv, Recorded, InPlace
    <3>2. ~Gone(cached[q])
      BY <1>1, <2>2, EndedGrows DEF Gone
    <3>3. Kept(cached[q])
      BY <2>2, <3>1, <3>2 DEF KeepInv, Recorded
    <3>4. \A r \in Runs : InTempDir(cached[q], r) /\ r \in ended' => r \in ended
      BY <1>1, <2>2 DEF Gone, InTempDir
    <3>5. ASSUME NEW p \in Paths, p = cached[q] PROVE Kept(p)'
      BY <2>2, <3>1, <3>3, <3>4, <3>5, KeptStays
    <3> QED BY <1>1, <3>1, <3>5 DEF Kept, HasChart
  <2>3. OnlyRefresher(q)' <=> OnlyRefresher(q)
    BY <2>0 DEF OnlyRefresher
  <2> QED BY <2>1, <2>2, <2>3
<1>2. CASE \E b \in Agents : Step(b) /\ HandOut(b) /\ Proc(b) = q /\ cached'[q] = Path(b)
  <2> PICK b \in Agents : Step(b) /\ HandOut(b) /\ Proc(b) = q /\ cached'[q] = Path(b)
    BY <1>2
  <2>1. Kept(Path(b))' /\ Path(b)' = Path(b)
    BY HandOutKept, SamePlaces
  <2>2. InPlace(Path(b)) /\ env' = env
    BY PathInPlace, SamePeers DEF LockInv
  <2> QED BY <2>1, <2>2 DEF Kept, HasChart, InPlace
<1> QED BY <1>1, <1>2, CachedNext

\* How a worker comes to hold a path, and what it held before.
LEMMA HoldingStep ==
  ASSUME LockInv, NEW a \in Agents, Step(a), Holding(a)'
  PROVE  \/ Holding(a) /\ got'[a] = got[a]
         \/ HandOut(a)
         \/ CheckCache(a) /\ pc[a] = "start" /\ got'[a] = cached[Proc(a)] /\ cached[Proc(a)] # NoPath
            /\ cached' = cached /\ dir' = dir /\ dir[cached[Proc(a)]] # "absent"
<1> USE DEF LockInv, CacheTypeOK, Goto, ReleaseThen, Holding
<1>1. CASE HandOut(a)
  BY <1>1
<1>2. CASE CheckCache(a)
  BY <1>2 DEF CheckCache
<1>3. CASE CheckExists(a) \/ UseEnds(a) \/ RLock(a) \/ TryRLock(a) \/ TryRLockFails(a)
  BY <1>3 DEF CheckExists, UseEnds, RLock, TryRLock, TryRLockFails
<1>4. CASE Lock(a) \/ TryLock(a) \/ TryLockTimesOut(a) \/ TryLockFails(a)
  BY <1>4 DEF Lock, TryLock, TryLockTimesOut, TryLockFails
<1>5. CASE Validate(a) \/ Recheck(a) \/ Pull(a)
  BY <1>1, <1>5 DEF Validate, Recheck, Pull
<1>6. CASE Remove(a) \/ RemoveFails(a) \/ PullMore(a) \/ PullFails(a)
  BY <1>6 DEF Remove, RemoveFails, PullMore, PullFails
<1>7. CASE UnlockMutex(a) \/ UnlockFile(a)
  BY <1>7 DEF UnlockMutex, UnlockFile
<1> QED BY <1>1, <1>2, <1>3, <1>4, <1>5, <1>6, <1>7 DEF Step

\* What others do leaves a worker with what it holds, and its process with a
\* path, unless the process dies.
LEMMA HoldingStays ==
  ASSUME LockInv, [CacheNext]_cacheVars, NEW a \in Agents, ~Step(a), Holding(a)'
  PROVE  Holding(a) /\ got'[a] = got[a] /\ (cached[Proc(a)] # NoPath => cached'[Proc(a)] # NoPath)
<1> USE DEF LockInv, CacheTypeOK, Goto, ReleaseThen, Holding
<1>0. Proc(a) \in Procs /\ NoPath \notin Paths
  BY PathType, CacheAssumption
<1>1. ASSUME NEW b \in Agents, Step(b), b # a PROVE then'[a] = then[a] /\ got'[a] = got[a]
  <2>1. CASE CheckCache(b) \/ CheckExists(b) \/ UseEnds(b) \/ RLock(b) \/ TryRLock(b) \/ TryRLockFails(b)
    BY <1>1, <2>1 DEF CheckCache, CheckExists, UseEnds, RLock, TryRLock, TryRLockFails
  <2>2. CASE Lock(b) \/ TryLock(b) \/ TryLockTimesOut(b) \/ TryLockFails(b)
    BY <2>2 DEF Lock, TryLock, TryLockTimesOut, TryLockFails
  <2>3. CASE Validate(b) \/ Recheck(b) \/ Pull(b)
    BY <1>1, <2>3 DEF Validate, Recheck, Pull, HandOut
  <2>4. CASE Remove(b) \/ RemoveFails(b) \/ PullMore(b) \/ PullFails(b)
    BY <1>1, <2>4 DEF Remove, RemoveFails, PullMore, PullFails
  <2>5. CASE UnlockMutex(b) \/ UnlockFile(b)
    BY <2>5 DEF UnlockMutex, UnlockFile
  <2> QED BY <1>1, <2>1, <2>2, <2>3, <2>4, <2>5 DEF Step
<1>2. ASSUME NEW b \in Agents, Step(b)
      PROVE  Holding(a) /\ got'[a] = got[a] /\ (cached[Proc(a)] # NoPath => cached'[Proc(a)] # NoPath)
  <2>1. b # a
    BY <1>2
  <2>2. pc'[a] = pc[a]
    BY <1>2, <2>1, OthersKeep
  <2>3. cached'[Proc(a)] = cached[Proc(a)] \/ cached'[Proc(a)] \in Paths
    <3>1. CASE HandOut(b)
      BY <1>0, <3>1, PathType DEF HandOut
    <3>2. CASE CheckCache(b) \/ CheckExists(b) \/ UseEnds(b) \/ RLock(b) \/ TryRLock(b) \/ TryRLockFails(b)
      BY <3>2 DEF CheckCache, CheckExists, UseEnds, RLock, TryRLock, TryRLockFails
    <3>3. CASE Lock(b) \/ TryLock(b) \/ TryLockTimesOut(b) \/ TryLockFails(b)
      BY <3>3 DEF Lock, TryLock, TryLockTimesOut, TryLockFails
    <3>4. CASE Validate(b) \/ Recheck(b) \/ Pull(b)
      BY <3>1, <3>4 DEF Validate, Recheck, Pull
    <3>5. CASE Remove(b) \/ RemoveFails(b) \/ PullMore(b) \/ PullFails(b) \/ UnlockMutex(b) \/ UnlockFile(b)
      BY <3>5 DEF Remove, RemoveFails, PullMore, PullFails, UnlockMutex, UnlockFile
    <3> QED BY <1>2, <3>1, <3>2, <3>3, <3>4, <3>5 DEF Step
  <2> QED BY <1>0, <1>1, <1>2, <2>1, <2>2, <2>3
<1>3. ASSUME NEW r \in Runs, EndRun(r)
      PROVE  Holding(a) /\ got'[a] = got[a] /\ cached' = cached
  BY <1>3 DEF EndRun
<1>4. ASSUME NEW o \in Procs, Crash(o)
      PROVE  Holding(a) /\ got'[a] = got[a] /\ cached'[Proc(a)] = cached[Proc(a)]
  <2>1. pc'[a] # "dead"
    OBVIOUS
  <2>2. Proc(a) # o
    BY <1>4, <2>1 DEF Crash
  <2> QED BY <1>0, <1>4, <2>2 DEF Crash
<1>5. CASE UNCHANGED cacheVars
  BY <1>5 DEF cacheVars
<1> QED BY <1>2, <1>3, <1>4, <1>5 DEF CacheNext, Quiet

\* A chart in the hands of a worker is not taken away from it.
LEMMA HandedOutNext == LockInv /\ WriterAlone /\ KeepInv /\ [CacheNext]_cacheVars => HandedOut'
<1> SUFFICES ASSUME LockInv, WriterAlone, KeepInv, [CacheNext]_cacheVars,
                    NEW a \in Agents, Holding(a)'
             PROVE  /\ cached'[Proc(a)] # NoPath /\ InPlace(got'[a])
                    /\ ~Disturbed(a)' => Kept(got[a])'
  BY SamePlaces, SamePeers DEF HandedOut, InPlace
<1>0. /\ Proc(a) \in Procs /\ NoPath \notin Paths /\ CacheDir \notin Agents
      /\ env' = env /\ env.place \in {"cacheDir", "tempDir"}
      /\ OthersRefresh(a)' <=> OthersRefresh(a)
      /\ (~OthersRefresh(a) => OnlyRefresher(Proc(a)))
  BY PathType, CacheAssumption, SamePeers, SamePlaces DEF LockInv, CacheTypeOK, EnvType, OthersRefresh, OnlyRefresher
<1>h. ASSUME HandOut(a), Step(a)
      PROVE  cached'[Proc(a)] # NoPath /\ InPlace(got'[a]) /\ Kept(got[a])'
  <2>1. Kept(Path(a))' /\ Path(a)' = Path(a) /\ Path(a) \in Paths /\ InPlace(Path(a))
    BY <1>h, HandOutKept, SamePlaces, PathInPlace DEF LockInv
  <2>2. got'[a] = Path(a) /\ cached'[Proc(a)] = Path(a)
    BY <1>0, <1>h DEF HandOut, LockInv, CacheTypeOK
  <2> QED BY <1>0, <2>1, <2>2 DEF Kept, HasChart
<1>k. ASSUME NEW p \in Paths, got'[a] = p, Kept(p), cached[Proc(a)] # NoPath, ~Disturbed(a)',
             InPlace(p), pc[a] \notin Final
      PROVE  Kept(got[a])'
  <2>1. OnlyRefresher(Proc(a))
    BY <1>0, <1>k DEF Disturbed
  <2>2. ASSUME NEW r \in Runs, InTempDir(p, r), r \in ended' PROVE r \in ended
    <3>1. env.place = "tempDir"
      BY <1>0, <1>k, <2>2 DEF InPlace, InTempDir
    <3>2. r = RunOf[a]
      BY <1>0, <1>k, <2>2, <3>1 DEF Disturbed, InTempDir
    <3>3. ~EndRun(r)
      BY <1>k, <3>2 DEF EndRun, Final
    <3>4. ASSUME NEW s \in Runs, EndRun(s) PROVE r \in ended
      BY <2>2, <3>3, <3>4 DEF EndRun
    <3>5. ASSUME NEW b \in Agents, Step(b) PROVE r \in ended
      BY <2>2, <3>5, StepWrites
    <3>6. ASSUME NEW o \in Procs, Crash(o) PROVE r \in ended
      BY <2>2, <3>6 DEF Crash
    <3> QED BY <2>2, <3>4, <3>5, <3>6 DEF CacheNext, Quiet, cacheVars
  <2>3. Kept(p)'
    BY <1>0, <1>k, <2>1, <2>2, KeptStays
  <2> QED BY <1>k, <2>3 DEF Kept, HasChart
<1>1. CASE Holding(a) /\ got'[a] = got[a] /\ cached'[Proc(a)] # NoPath
  <2>1. InPlace(got[a]) /\ got[a] \in Paths /\ cached[Proc(a)] # NoPath /\ pc[a] \notin Final
    BY <1>1 DEF KeepInv, HandedOut, InPlace, Holding, Final
  <2>2. ASSUME ~Disturbed(a)' PROVE Kept(got[a])
    BY <1>0, <1>1, <2>2 DEF KeepInv, HandedOut, Disturbed, InTempDir
  <2> QED BY <1>1, <1>k, <2>1, <2>2
<1>2. CASE Step(a)
  <2>1. CASE HandOut(a)
    BY <1>2, <1>h, <2>1
  <2>2. CASE /\ CheckCache(a) /\ pc[a] = "start" /\ got'[a] = cached[Proc(a)] /\ cached[Proc(a)] # NoPath
             /\ cached' = cached /\ dir' = dir /\ dir[cached[Proc(a)]] # "absent"
    <3>1. InPlace(got'[a]) /\ got'[a] \in Paths
      BY <1>0, <2>2 DEF KeepInv, Recorded, InPlace
    <3>2. ASSUME ~Disturbed(a)' PROVE Kept(got'[a])
      <4>1. RunOf[a] \notin ended
        BY <2>2 DEF KeepInv, EndedQuiet, Final
      <4>2. ~Gone(got'[a])
        BY <1>0, <3>1, <3>2, <4>1 DEF Gone, Disturbed, InTempDir, InPlace
      <4> QED BY <1>0, <2>2, <3>2, <4>2 DEF KeepInv, Recorded, Disturbed
    <3> QED BY <1>0, <1>k, <2>2, <3>1, <3>2 DEF Final
  <2>3. CASE Holding(a) /\ got'[a] = got[a] /\ ~HandOut(a)
    <3>1. cached'[Proc(a)] = cached[Proc(a)]
      BY <1>0, <2>3, <1>2 DEF Holding, Step, CheckCache, CheckExists, UseEnds, RLock, TryRLock, TryRLockFails,
         Lock, TryLock, TryLockTimesOut, TryLockFails, Validate, Recheck, Pull,
         Remove, RemoveFails, PullMore, PullFails, UnlockMutex, UnlockFile
    <3> QED BY <1>0, <1>1, <2>3, <3>1 DEF KeepInv, HandedOut
  <2> QED BY <1>2, <2>1, <2>2, <2>3, HoldingStep
<1>3. CASE ~Step(a)
  BY <1>0, <1>1, <1>3, HoldingStays DEF KeepInv, HandedOut
<1> QED BY <1>2, <1>3

-----------------------------------------------------------------------------
(* Theorems.                                                                *)

\* The lock discipline holds in every reachable state.
THEOREM LockInvariant == CacheSpec => []LockInv
<1>1. LockInv /\ [CacheNext]_cacheVars => LockInv'
  BY CacheTypeNext, HoldsNext, ExclusiveNext DEF LockInv
<1> QED BY <1>1, LockInit, PTL DEF CacheSpec

\* While a worker removes or downloads a chart, no worker of any process acts
\* on what it sees at that path: the double check under the lock file is safe.
THEOREM OneWriter == CacheSpec => []WriterAlone
<1>1. LockInv => WriterAlone
  BY DEF LockInv, HoldsAsPc, Exclusive, WriterAlone, Peers
<1> QED BY <1>1, LockInvariant, PTL

\* Taking the mutex before the lock file keeps the 30 second timeout for
\* other processes: a slow download never times out a worker of its own one.
THEOREM TimeoutsAreForeign == CacheSpec => []MutexShields
<1>1. LockInv => MutexShields
  <2> SUFFICES ASSUME LockInv, NEW a \in Agents, pc[a] \in {"rflock", "wflock"},
                      NEW b \in Siblings(a),
                      flock[b] = "W" \/ (pc[a] = "wflock" /\ flock[b] = "R")
               PROVE  pc[b] = "unlockFile"
    BY DEF MutexShields
  <2>1. b \in Agents /\ a \in Siblings(b)
    BY PeersMutual DEF Siblings, Peers
  <2>2. mutex[a] # "none" /\ (pc[a] = "wflock" => mutex[a] = "W")
    BY DEF LockInv, HoldsAsPc
  <2>3. mutex[b] # "W" /\ (pc[a] = "wflock" => mutex[b] = "none")
    BY <2>1, <2>2 DEF LockInv, Exclusive
  <2>4. pc[b] \in Pc /\ flock[b] # "none"
    BY <2>1 DEF LockInv, CacheTypeOK
  <2> QED BY <2>1, <2>3, <2>4 DEF LockInv, HoldsAsPc, Pc
<1> QED BY <1>1, LockInvariant, PTL

\* Every error path of the download releases what it holds.
THEOREM NothingLeaks == CacheSpec => []NoLockLeak
<1>1. LockInv => NoLockLeak
  BY DEF LockInv, HoldsAsPc, NoLockLeak, Final
<1> QED BY <1>1, LockInvariant, PTL

\* The invariant of the downloads: whatever is recorded or handed out is there
\* and nobody is replacing it.
THEOREM KeepInvariant == CacheSpec => []KeepInv
<1>1. LockInv /\ WriterAlone /\ KeepInv /\ [CacheNext]_cacheVars => KeepInv'
  BY EndedNext, ExplainedNext, RecordedNext, HandedOutNext DEF KeepInv
<1> QED BY <1>1, KeepInit, LockInvariant, OneWriter, PTL DEF CacheSpec

\* A chart that getOCIChart or forcedDownloadChart has handed to a worker stays
\* complete while the worker uses it, unless another process refreshes the shared
\* directory, another run takes its temporary directory with it, or an earlier
\* download was cut short and has left an incomplete chart.
THEOREM ChartsUsable == CacheSpec => []UsableChart
<1>1. KeepInv => UsableChart
  <2> SUFFICES ASSUME KeepInv, NEW a \in Agents, pc[a] = "use", ~Disturbed(a)
               PROVE  dir[got[a]] = "complete" \/ got[a] \in cut
    BY DEF UsableChart
  <2>1. Kept(got[a]) /\ got[a] \in Paths
    BY DEF KeepInv, HandedOut, Holding, InPlace
  <2> QED BY <2>1 DEF KeepInv, Explained, Kept, HasChart
<1> QED BY <1>1, KeepInvariant, PTL

\* Workers of one process do not download a chart again that one of them has
\* recorded, with whatever flags: the check of skipRefreshCheck under the lock.
THEOREM FetchedOnce == CacheSpec => []NoRefetch
<1>1. CacheTypeOK /\ KeepInv => NoRefetch
  <2> SUFFICES ASSUME CacheTypeOK, KeepInv, NEW a \in Agents, pc[a] \in {"remove", "pull"}, ~OthersRefresh(a),
                      cached[Proc(a)] = Path(a)
               PROVE  FALSE
    BY DEF NoRefetch
  <2>1. Proc(a) \in Procs /\ Path(a) \in Paths /\ Path(a) # NoPath /\ CacheDir \notin Agents
    BY PathType, CacheAssumption
  <2>2. ~Gone(Path(a))
    BY <2>1 DEF KeepInv, EndedQuiet, Final, Gone, Path
  <2>3. ~Kept(Path(a))
    BY DEF Kept, Writer
  <2> QED BY <2>1, <2>2, <2>3 DEF KeepInv, Recorded, OthersRefresh, OnlyRefresher
<1>2. LockInv => CacheTypeOK
  BY DEF LockInv
<1> QED BY <1>1, <1>2, LockInvariant, KeepInvariant, PTL
=============================================================================
