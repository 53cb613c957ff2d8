------------------------- MODULE SyncReleasesProofs -------------------------
(* For any number of releases and workers: the operations of SyncReleases   *)
(* use the worker pool as it is meant to be used, so that the pool's        *)
(* theorems hold for them; their mutex does what it is there for; the       *)
(* summaries they print are true; and an operation without an error has     *)
(* brought the cluster to the desired state.                                *)
EXTENDS SyncReleases, ScatterGatherProofs, TLAPS

\* A step of the loop body other than receiving a release and ending with it
\* leaves the pool alone.
LEMMA BodyStutters ==
  ASSUME NEW w \in Workers, Body(w)
  PROVE  UNCHANGED poolVars
<1> QED
  BY Zenon DEF Body, Fixed, PresyncFails, Presync, QueryFails, Query, Requery, Lock,
     Uninstall, UninstallUnlocked, ReadList, WriteList, Sync, SyncFails, SyncForbidden,
     ReUninstall, ReUninstallFails, ReSync, ReSyncFails, Record

\* SyncReleases, DeleteReleasesForSync and DeleteReleases are uses of the pool:
\* whatever helm, the hooks and the mutex do, the pool's variables only change
\* by the pool's own steps.
THEOREM UsesPool == SyncSpec => ImplementsPool
<1>1. SyncInit => PoolInit
  BY DEF SyncInit
<1>2. [SyncNext]_syncVars => [PoolNext]_poolVars
  <2> SUFFICES ASSUME [SyncNext]_syncVars PROVE [PoolNext]_poolVars
    OBVIOUS
  <2>1. CASE Producer \/ Aggregator
    BY <2>1, Zenon DEF Producer, Aggregator, PoolNext, PoolStep
  <2>2. ASSUME NEW w \in Workers, Begin(w) PROVE PoolNext
    BY <2>2, Zenon DEF Begin, PoolNext, PoolStep
  <2>3. ASSUME NEW w \in Workers, Body(w) PROVE UNCHANGED poolVars
    BY <2>3, BodyStutters
  <2>4. ASSUME NEW w \in Workers, End(w) PROVE PoolNext
    <3>1. PICK hookFails \in BOOLEAN : Work(w, berr[w] \/ hookFails)
      BY <2>4, Zenon DEF End
    <3>2. \E fails \in BOOLEAN : Work(w, fails)
      BY <3>1, Zenon
    <3> QED BY <3>2, Zenon DEF PoolNext
  <2>5. ASSUME NEW w \in Workers, Deliver(w) PROVE PoolNext
    BY <2>5, Zenon DEF Deliver, PoolNext, PoolStep
  <2>6. CASE UNCHANGED syncVars
    BY <2>6 DEF syncVars
  <2> QED BY <2>1, <2>2, <2>3, <2>4, <2>5, <2>6, Zenon DEF SyncNext
<1> QED BY <1>1, <1>2, PTL DEF SyncSpec, ImplementsPool, PoolSpec

\* The pool's own results hold for the operations that use it.
THEOREM PoolResults ==
  SyncSpec => []PoolInv /\ []AllProcessedAtReturn /\ []NoErrorSwallowed
<1>1. ImplementsPool => []PoolInv /\ []AllProcessedAtReturn /\ []NoErrorSwallowed
  BY PoolInvariant, AllProcessed, ErrorsReported, PTL DEF ImplementsPool
<1> QED BY <1>1, UsesPool, PTL

-----------------------------------------------------------------------------
\* A worker inside the loop body holds a release.
Busy == \A w \in Workers : bpc[w] # "idle" => wpc[w] = "work"

SyncInv == PoolInv /\ SyncTypeOK /\ Busy /\ UninstallsSerialised

\* The states a call starts in satisfy the invariant.
LEMMA SyncInitInv == SyncInit => SyncInv
<1> SUFFICES ASSUME SyncInit PROVE SyncInv
  OBVIOUS
<1>1. PoolInv
  BY InitInv DEF SyncInit
<1>2. SyncTypeOK
  <2>1. op \in Ops /\ want \in [Items -> Wants] /\ before \subseteq Items /\ installed \subseteq Items
    BY DEF SyncInit
  <2>2. m \in 0..MaxWidth
    BY PoolAssumption DEF SyncInit
  <2>3. bpc \in [Workers -> BodyPc]
    BY DEF SyncInit, BodyPc
  <2>4. berr \in [Workers -> BOOLEAN]
    BY DEF SyncInit
  <2>5. brec \in [Workers -> Lists]
    BY DEF SyncInit, Lists
  <2>6. snap \in [Workers -> SUBSET Items]
    BY DEF SyncInit
  <2>7. affected \in [Lists -> SUBSET Items]
    BY DEF SyncInit
  <2>8. asked \in [Items -> Asked]
    BY DEF SyncInit, Asked
  <2> QED BY <2>8, <2>1, <2>2, <2>3, <2>4, <2>5, <2>6, <2>7 DEF SyncTypeOK
<1>3. Busy /\ UninstallsSerialised
  BY DEF SyncInit, Busy, UninstallsSerialised
<1> QED BY <1>1, <1>2, <1>3 DEF SyncInv

\* Listing a release keeps the lists lists of releases.
LEMMA ListedType ==
  ASSUME SyncTypeOK, NEW ls, NEW i \in Items, Listed(ls, i)
  PROVE  affected' \in [Lists -> SUBSET Items]
<1>1. ASSUME NEW l \in Lists
      PROVE  (IF l \in ls THEN affected[l] \cup {i} ELSE affected[l]) \in SUBSET Items
  BY DEF SyncTypeOK
<1> QED BY <1>1 DEF Listed

\* Every step keeps the variables of the loop body in their types.
LEMMA SyncTypeNext == SyncInv /\ [SyncNext]_syncVars => SyncTypeOK'
<1> USE DEF Becomes, Asked
<1> SUFFICES ASSUME SyncInv, [SyncNext]_syncVars PROVE SyncTypeOK'
  OBVIOUS
<1>0. \A w \in Workers : bpc[w] # "idle" => wjob[w] \in Items
  BY PoolAssumption DEF SyncInv, Busy, PoolInv, TypeOK, Channels, Items
<1>1. CASE UNCHANGED bodyVars
  BY <1>1 DEF bodyVars, SyncInv, SyncTypeOK
<1>2. ASSUME NEW w \in Workers, Begin(w) PROVE SyncTypeOK'
  BY <1>2 DEF Begin, Goto, SyncInv, SyncTypeOK, BodyPc
<1>3. ASSUME NEW w \in Workers, End(w) PROVE SyncTypeOK'
  BY <1>3 DEF End, Goto, SyncInv, SyncTypeOK, BodyPc
<1>4. ASSUME NEW w \in Workers, PresyncFails(w) \/ Presync(w) \/ QueryFails(w) \/ Query(w) \/ Requery(w)
      PROVE  SyncTypeOK'
  BY <1>0, <1>4 DEF PresyncFails, Presync, QueryFails, Query, Requery, At, Goto, Fail, Fixed, SyncInv, SyncTypeOK, BodyPc
<1>5. ASSUME NEW w \in Workers, Lock(w) PROVE SyncTypeOK'
  BY <1>5, PoolAssumption DEF Lock, Goto, Fixed, SyncInv, SyncTypeOK, BodyPc, Workers
<1>6. ASSUME NEW w \in Workers, Uninstall(w) PROVE SyncTypeOK'
  <2>1. wjob[w] \in Items
    BY <1>0, <1>6 DEF Uninstall, At
  <2>2. affected' \in [Lists -> SUBSET Items]
    BY <1>6, <2>1, ListedType DEF Uninstall, SyncInv
  <2>3. installed' \subseteq Items /\ berr' \in [Workers -> BOOLEAN] /\ asked' \in [Items -> Asked]
    BY <1>6, <2>1 DEF Uninstall, UninstallFails, UninstallSucceeds, Fail, SyncInv, SyncTypeOK
  <2>4. m' \in 0..MaxWidth /\ bpc' \in [Workers -> BodyPc]
    BY <1>6, PoolAssumption DEF Uninstall, Goto, SyncInv, SyncTypeOK, BodyPc
  <2>5. UNCHANGED <<op, want, before, brec, snap>>
    BY <1>6 DEF Uninstall, Fixed
  <2> QED BY <2>2, <2>3, <2>4, <2>5 DEF SyncInv, SyncTypeOK
<1>7. ASSUME NEW w \in Workers, UninstallUnlocked(w) PROVE SyncTypeOK'
  <2>1. wjob[w] \in Items
    BY <1>0, <1>7 DEF UninstallUnlocked, At
  <2>2. installed' \subseteq Items /\ asked' \in [Items -> Asked]
    BY <1>7, <2>1 DEF UninstallUnlocked, UninstallFails, UninstallSucceeds, SyncInv, SyncTypeOK
  <2>3. bpc' \in [Workers -> BodyPc] /\ berr' \in [Workers -> BOOLEAN] /\ brec' \in [Workers -> Lists]
    BY <1>7 DEF UninstallUnlocked, Goto, Fail, SyncInv, SyncTypeOK, BodyPc, Lists
  <2>4. UNCHANGED <<op, want, before, m, snap, affected>>
    BY <1>7 DEF UninstallUnlocked, Fixed
  <2> QED BY <2>2, <2>3, <2>4 DEF SyncInv, SyncTypeOK
<1>8. ASSUME NEW w \in Workers, ReadList(w) PROVE SyncTypeOK'
  BY <1>8 DEF ReadList, Goto, Fixed, SyncInv, SyncTypeOK, BodyPc
<1>9. ASSUME NEW w \in Workers, WriteList(w) PROVE SyncTypeOK'
  BY <1>0, <1>9 DEF WriteList, At, Goto, Fixed, SyncInv, SyncTypeOK, BodyPc, Lists
<1>10. ASSUME NEW w \in Workers,
              \/ Sync(w) \/ SyncFails(w) \/ SyncForbidden(w)
              \/ ReSync(w) \/ ReSyncFails(w)
       PROVE  SyncTypeOK'
  <2>1. wjob[w] \in Items
    BY <1>0, <1>10 DEF Sync, SyncFails, SyncForbidden, ReSync, ReSyncFails, At
  <2>2. installed' \subseteq Items /\ asked' \in [Items -> Asked]
    BY <1>10, <2>1 DEF Sync, SyncFails, SyncForbidden, ReSync, ReSyncFails,
       UpgradeFails, UpgradeSucceeds, SyncInv, SyncTypeOK
  <2>3. bpc' \in [Workers -> BodyPc] /\ berr' \in [Workers -> BOOLEAN] /\ brec' \in [Workers -> Lists]
    BY <1>10 DEF Sync, SyncFails, SyncForbidden, ReSync, ReSyncFails, Goto, Fail, SyncInv, SyncTypeOK, BodyPc, Lists
  <2>4. UNCHANGED <<op, want, before, m, snap, affected>>
    BY <1>10 DEF Sync, SyncFails, SyncForbidden, ReSync, ReSyncFails, Fixed
  <2> QED BY <2>2, <2>3, <2>4 DEF SyncInv, SyncTypeOK
<1>11. ASSUME NEW w \in Workers, ReUninstall(w) PROVE SyncTypeOK'
  BY <1>11, PoolAssumption DEF ReUninstall, UninstallSucceeds,
     Goto, Fixed, SyncInv, SyncTypeOK, BodyPc
<1>13. ASSUME NEW w \in Workers, Record(w) PROVE SyncTypeOK'
  <2>1. affected' \in [Lists -> SUBSET Items]
    BY <1>0, <1>13, ListedType DEF Record, At, SyncInv
  <2>2. bpc' \in [Workers -> BodyPc]
    BY <1>13 DEF Record, Goto, SyncInv, SyncTypeOK, BodyPc
  <2>3. UNCHANGED <<op, want, before, installed, asked, m, berr, brec, snap>>
    BY <1>13 DEF Record, Fixed
  <2> QED BY <2>1, <2>2, <2>3 DEF SyncInv, SyncTypeOK
<1>16. ASSUME NEW w \in Workers, ReUninstallFails(w) PROVE SyncTypeOK'
  <2>1. wjob[w] \in Items
    BY <1>0, <1>16 DEF ReUninstallFails, At
  <2>2. affected' \in [Lists -> SUBSET Items]
    BY <1>16, <2>1, ListedType DEF ReUninstallFails, SyncInv
  <2>3. /\ installed' \subseteq Items /\ berr' \in [Workers -> BOOLEAN] /\ bpc' \in [Workers -> BodyPc]
        /\ asked' \in [Items -> Asked]
    BY <1>16 DEF ReUninstallFails, UninstallFails, Fail, Goto, SyncInv, SyncTypeOK, BodyPc
  <2>4. UNCHANGED <<op, want, before, m, brec, snap>>
    BY <1>16 DEF ReUninstallFails, Fixed
  <2> QED BY <2>2, <2>3, <2>4 DEF SyncInv, SyncTypeOK
<1>14. ASSUME NEW w \in Workers, Deliver(w) PROVE UNCHANGED bodyVars
  BY <1>14, Zenon DEF Deliver
<1>15. CASE Producer \/ Aggregator \/ UNCHANGED syncVars
  BY <1>15, <1>1, Zenon DEF Producer, Aggregator, syncVars
<1> QED
  BY <1>1, <1>2, <1>3, <1>4, <1>5, <1>6, <1>7, <1>8, <1>9, <1>10, <1>11, <1>13,
     <1>14, <1>15, <1>16, Zenon DEF SyncNext, Body

\* A worker is in the loop body only with a release in hand.
LEMMA BusyNext == SyncInv /\ [SyncNext]_syncVars => Busy'
<1> SUFFICES ASSUME SyncInv, [SyncNext]_syncVars, NEW v \in Workers, bpc'[v] # "idle"
             PROVE  wpc'[v] = "work"
  BY DEF Busy
<1>1. ASSUME NEW w \in Workers, Begin(w) PROVE wpc'[v] = "work"
  BY <1>1 DEF Begin, Take, Goto, SyncInv, SyncTypeOK, Busy, PoolInv, TypeOK
<1>2. ASSUME NEW w \in Workers, End(w) PROVE wpc'[v] = "work"
  <2>1. v # w /\ bpc'[v] = bpc[v]
    BY <1>2 DEF End, Goto, SyncInv, SyncTypeOK
  <2>2. wpc' = [wpc EXCEPT ![w] = "send"]
    BY <1>2 DEF End, Work
  <2> QED BY <2>1, <2>2 DEF SyncInv, Busy, PoolInv, TypeOK
<1>3. ASSUME NEW w \in Workers, Body(w) PROVE wpc'[v] = "work"
  <2>1. bpc[w] # "idle"
    BY <1>3 DEF Body, At, PresyncFails, Presync, QueryFails, Query, Requery, Lock,
       Uninstall, UninstallUnlocked, ReadList, WriteList, Sync, SyncFails, SyncForbidden,
       ReUninstall, ReUninstallFails, ReSync, ReSyncFails, Record
  <2>2. \E pc \in BodyPc : Goto(w, pc)
    BY <1>3 DEF Body, BodyPc, At, PresyncFails, Presync, QueryFails, Query, Requery, Lock,
       Uninstall, UninstallUnlocked, ReadList, WriteList, Sync, SyncFails, SyncForbidden,
       ReUninstall, ReUninstallFails, ReSync, ReSyncFails, Record
  <2>3. wpc' = wpc
    BY <1>3, BodyStutters DEF poolVars
  <2>4. v # w => bpc'[v] = bpc[v]
    BY <2>2 DEF Goto, SyncInv, SyncTypeOK
  <2> QED BY <2>1, <2>3, <2>4 DEF SyncInv, Busy
<1>4. ASSUME NEW w \in Workers, Deliver(w) PROVE wpc'[v] = "work"
  <2>1. bpc' = bpc
    BY <1>4 DEF Deliver, bodyVars
  <2>2. wpc[w] # "work" /\ (v # w => wpc'[v] = wpc[v])
    BY <1>4 DEF Deliver, PutResult, HandResult, Stop, WorkerFree, SyncInv, PoolInv, TypeOK
  <2> QED BY <2>1, <2>2 DEF SyncInv, Busy
<1>5. CASE Producer \/ Aggregator \/ UNCHANGED syncVars
  BY <1>5 DEF Producer, Aggregator, Produce, CloseJobs, GatherDone, WaitDone, Gather,
     syncVars, poolVars, bodyVars, SyncInv, Busy
<1> QED BY <1>1, <1>2, <1>3, <1>4, <1>5, Zenon DEF SyncNext

\* The mutex covers the uninstalls of a sync and of an apply.
LEMMA SerialNext == SyncInv /\ [SyncNext]_syncVars => UninstallsSerialised'
<1> SUFFICES ASSUME SyncInv, [SyncNext]_syncVars, op' # "delete",
                    NEW v \in Workers, bpc'[v] \in {"uninstall", "reuninstall"}
             PROVE  m' = v
  BY DEF UninstallsSerialised
<1>0. op # "delete"
  BY DEF SyncNext, Producer, Aggregator, Begin, Body, End, Deliver, Fixed, bodyVars, syncVars,
     PresyncFails, Presync, QueryFails, Query, Requery, Lock,
     Uninstall, UninstallUnlocked, ReadList, WriteList, Sync, SyncFails, SyncForbidden,
     ReUninstall, ReUninstallFails, ReSync, ReSyncFails, Record
<1>a. bpc[v] \in {"uninstall", "reuninstall"} => m = v
  BY <1>0 DEF SyncInv, UninstallsSerialised
<1>b. ASSUME m' = m, bpc'[v] = bpc[v] PROVE m' = v
  BY <1>a, <1>b
<1>1. ASSUME NEW w \in Workers, Lock(w) PROVE m' = v
  <2>1. m = 0 /\ m' = w /\ (v # w => bpc'[v] = bpc[v])
    BY <1>1 DEF Lock, Goto, SyncInv, SyncTypeOK
  <2> QED BY <2>1, <1>a, PoolAssumption DEF Workers
<1>2. ASSUME NEW w \in Workers, Uninstall(w) \/ ReUninstall(w) PROVE m' = v
  <2>1. m = w
    BY <1>0, <1>2 DEF Uninstall, ReUninstall, At, SyncInv, UninstallsSerialised
  <2>2. v = w => bpc'[v] \in {"hooks", "resync"}
    BY <1>2 DEF Uninstall, ReUninstall, Goto, SyncInv, SyncTypeOK
  <2>3. v # w /\ bpc'[v] = bpc[v]
    BY <1>2, <2>2 DEF Uninstall, ReUninstall, Goto, SyncInv, SyncTypeOK
  <2> QED BY <2>1, <2>3, <1>a
<1>3. ASSUME NEW w \in Workers,
             \/ PresyncFails(w) \/ Presync(w) \/ QueryFails(w) \/ Query(w) \/ Requery(w)
             \/ UninstallUnlocked(w) \/ ReadList(w) \/ WriteList(w) \/ Record(w)
             \/ Sync(w) \/ SyncFails(w) \/ SyncForbidden(w)
             \/ ReUninstallFails(w) \/ ReSync(w) \/ ReSyncFails(w) \/ Begin(w) \/ End(w)
      PROVE  m' = v
  <2>1. m' = m /\ \E pc \in BodyPc \ {"uninstall", "reuninstall"} : Goto(w, pc)
    BY <1>0, <1>3 DEF PresyncFails, Presync, QueryFails, Query, Requery, UninstallUnlocked,
       ReadList, WriteList, Record, Sync, SyncFails, SyncForbidden, ReUninstallFails,
       ReSync, ReSyncFails, Begin, End, BodyPc, At
  <2>2. v # w /\ bpc'[v] = bpc[v]
    BY <2>1 DEF Goto, SyncInv, SyncTypeOK
  <2> QED BY <2>1, <2>2, <1>b
<1>4. ASSUME NEW w \in Workers, Deliver(w) PROVE m' = v
  BY <1>4, <1>b DEF Deliver, bodyVars
<1>5. CASE Producer \/ Aggregator \/ UNCHANGED syncVars
  BY <1>5, <1>b DEF Producer, Aggregator, syncVars, bodyVars
<1> QED BY <1>1, <1>2, <1>3, <1>4, <1>5, Zenon DEF SyncNext, Body

\* The type invariant of the operations and the mutual exclusion of their
\* uninstalls, in every reachable state.
THEOREM SyncInvariant == SyncSpec => []SyncInv
<1>1. SyncInv /\ [SyncNext]_syncVars => SyncTypeOK' /\ Busy' /\ UninstallsSerialised'
  BY SyncTypeNext, BusyNext, SerialNext
<1> QED BY <1>1, SyncInitInv, PoolResults, PTL DEF SyncSpec, SyncInv

\* Within one sync or apply no two releases are uninstalled at the same time,
\* hooks included, although the releases are handled in parallel.
THEOREM Serialised == SyncSpec => []UninstallsSerialised
<1> QED BY SyncInvariant, PTL DEF SyncInv

-----------------------------------------------------------------------------
(* What becomes of each release of a sync or an apply.                      *)

\* The release is in no list of the summary.
Fresh(i) == \A l \in Lists : i \notin affected[l]

Held(i) == \E w \in Workers : bpc[w] # "idle" /\ wjob[w] = i

\* The cluster is as the helmfile wants it, and the summary says so.
Reached(i) ==
  \/ want[i] # "absent" /\ i \in installed /\ i \in affected["Upgraded"] \cup affected["Reinstalled"]
  \/ want[i] = "absent" /\ i \notin installed /\ (i \in affected["Deleted"] \/ i \notin before)

\* The summary lists the release, or need not, see ChangesListed.
Accounted(i, err) ==
  /\ asked[i] = "change" => \E l \in Lists : i \in affected[l]
  /\ asked[i] = "dropped" => err
  /\ asked[i] = "nothing" => err \/ (want[i] = "absent" /\ i \notin before)

\* The loop body is through with the release, with or without an error.
Settled(i, err) ==
  /\ Accounted(i, err)
  /\ ~err => Reached(i)
  /\ i \in affected["Failed"] => err
  /\ i \in before \ installed /\ want[i] # "absent" => i \in affected["Failed"]

\* What a worker has made of its release so far.
InHand(w, i) ==
  /\ bpc[w] \notin {"read", "write"}
  /\ bpc[w] # "hooks" => Fresh(i)
  /\ bpc[w] \in {"presync", "query", "lock"} => (i \in installed <=> i \in before)
  /\ bpc[w] \in {"query", "lock", "uninstall"} => want[i] = "absent"
  /\ bpc[w] \in {"sync", "requery", "relock", "reuninstall", "resync", "record"} => want[i] # "absent"
  /\ bpc[w] \in {"sync", "requery"} => (i \in before => i \in installed)
  /\ bpc[w] \notin {"record", "hooks"} => ~berr[w]
  /\ bpc[w] = "record" =>
       \/ brec[w] \in {"Upgraded", "Reinstalled"} /\ i \in installed /\ ~berr[w]
       \/ brec[w] = "Failed" /\ berr[w]
  /\ bpc[w] \in {"presync", "query", "lock", "uninstall", "sync"} => asked[i] = "nothing"
  /\ bpc[w] \in {"requery", "relock", "reuninstall", "resync", "record"} => asked[i] = "change"
  /\ bpc[w] = "hooks" => Settled(i, berr[w])

\* What the summary says of the release is true.
TruthOf(i) ==
  /\ i \in affected["Upgraded"] \cup affected["Reinstalled"] => i \in installed
  /\ i \in affected["Deleted"] => i \notin installed
  /\ ~(i \in affected["Upgraded"] /\ i \in affected["Reinstalled"])
  /\ i \in affected["Upgraded"] \cup affected["Reinstalled"] \cup affected["Deleted"] => i \notin affected["Failed"]
  /\ i \in affected["DeleteFailed"] => i \in affected["Failed"]

\* A release is untouched, in the hands of a worker, or settled.
ReleaseOK(i) ==
  /\ TruthOf(i)
  /\ outcome[i] # "none" => Settled(i, outcome[i] = "error")
  /\ outcome[i] = "none" /\ ~Held(i) => Fresh(i) /\ (i \in installed <=> i \in before) /\ asked[i] = "nothing"
  /\ \A w \in Workers : bpc[w] # "idle" /\ wjob[w] = i => InHand(w, i)

\* DeleteReleasesForSync and DeleteReleases are given what is installed and no
\* longer wanted.
Given == op # "sync" => before = Items /\ \A i \in Items : want[i] = "absent"

\* A worker is in the loop body exactly while the pool waits for it.
Working == \A w \in Workers : wpc[w] = "work" => bpc[w] # "idle"

ListInv == Given /\ Working /\ ~call.early /\ (op # "delete" => \A i \in Items : ReleaseOK(i))

\* What the summary lists after a release has joined some of its lists.
LEMMA ListedFact ==
  ASSUME SyncTypeOK, NEW ls, NEW i \in Items, Listed(ls, i)
  PROVE  \A l \in Lists : \A j : j \in affected'[l] <=> j \in affected[l] \/ (j = i /\ l \in ls)
<1>1. ASSUME NEW l \in Lists PROVE affected'[l] = IF l \in ls THEN affected[l] \cup {i} ELSE affected[l]
  BY DEF Listed
<1> QED BY <1>1

\* A worker in the loop body holds a release nobody else holds, whose outcome is
\* open.
LEMMA Holder ==
  ASSUME SyncInv, NEW w \in Workers, bpc[w] # "idle"
  PROVE  /\ wjob[w] \in Items /\ wpc[w] = "work" /\ outcome[wjob[w]] = "none"
         /\ \A v \in Workers : wjob[v] = wjob[w] => v = w
<1>1. wpc[w] = "work" /\ wjob[w] # 0 /\ wjob[w] \in Items
  BY PoolAssumption DEF SyncInv, Busy, PoolInv, TypeOK, Channels, Items
<1> QED BY <1>1 DEF SyncInv, PoolInv, Conservation

\* A step of the loop body goes somewhere in it.
LEMMA BodyGoes ==
  ASSUME SyncInv, NEW w \in Workers, Body(w)
  PROVE  /\ bpc[w] # "idle" /\ bpc'[w] # "idle"
         /\ \A v \in Workers : v # w => bpc'[v] = bpc[v]
         /\ UNCHANGED <<op, want, before>>
<1>1. bpc[w] # "idle"
  BY DEF Body, At, PresyncFails, Presync, QueryFails, Query, Requery, Lock,
     Uninstall, UninstallUnlocked, ReadList, WriteList, Sync, SyncFails, SyncForbidden,
     ReUninstall, ReUninstallFails, ReSync, ReSyncFails, Record
<1>2. \E pc \in BodyPc \ {"idle"} : Goto(w, pc)
  BY DEF Body, BodyPc, At, PresyncFails, Presync, QueryFails, Query, Requery, Lock,
     Uninstall, UninstallUnlocked, ReadList, WriteList, Sync, SyncFails, SyncForbidden,
     ReUninstall, ReUninstallFails, ReSync, ReSyncFails, Record
<1>3. UNCHANGED <<op, want, before>>
  BY Zenon DEF Body, Fixed, PresyncFails, Presync, QueryFails, Query, Requery, Lock,
     Uninstall, UninstallUnlocked, ReadList, WriteList, Sync, SyncFails, SyncForbidden,
     ReUninstall, ReUninstallFails, ReSync, ReSyncFails, Record
<1> QED BY <1>1, <1>2, <1>3 DEF Goto, SyncInv, SyncTypeOK

\* What a worker notes changes for itself alone.
LEMMA BodyNotes ==
  ASSUME SyncInv, NEW w \in Workers, Body(w), NEW v \in Workers, v # w
  PROVE  berr'[v] = berr[v] /\ brec'[v] = brec[v] /\ snap'[v] = snap[v]
<1> USE DEF SyncInv, SyncTypeOK, Fail
<1>1. CASE PresyncFails(w) \/ Presync(w) \/ QueryFails(w) \/ Query(w) \/ Requery(w) \/ Lock(w)
  BY <1>1 DEF PresyncFails, Presync, QueryFails, Query, Requery, Lock
<1>2. CASE Uninstall(w) \/ UninstallUnlocked(w) \/ ReadList(w) \/ WriteList(w)
  BY <1>2 DEF Uninstall, UninstallUnlocked, ReadList, WriteList
<1>3. CASE Sync(w) \/ SyncFails(w) \/ SyncForbidden(w)
  BY <1>3 DEF Sync, SyncFails, SyncForbidden
<1>4. CASE ReUninstall(w) \/ ReUninstallFails(w) \/ ReSync(w) \/ ReSyncFails(w) \/ Record(w)
  BY <1>4 DEF ReUninstall, ReUninstallFails, ReSync, ReSyncFails, Record
<1> QED BY <1>1, <1>2, <1>3, <1>4 DEF Body

\* Nothing happens to the release.
Same(i) ==
  /\ UNCHANGED <<op, want, before>>
  /\ i \in installed' <=> i \in installed
  /\ asked'[i] = asked[i]
  /\ \A l \in Lists : i \in affected'[l] <=> i \in affected[l]
  /\ outcome'[i] = outcome[i]
  /\ \A w \in Workers :
       /\ bpc'[w] # "idle" /\ wjob'[w] = i <=> bpc[w] # "idle" /\ wjob[w] = i
       /\ bpc[w] # "idle" /\ wjob[w] = i => bpc'[w] = bpc[w] /\ berr'[w] = berr[w] /\ brec'[w] = brec[w]

\* A worker changes its own release only.
LEMMA BodyCluster ==
  ASSUME SyncInv, NEW w \in Workers, Body(w), NEW j \in Items, j # wjob[w]
  PROVE  (j \in installed' <=> j \in installed) /\ asked'[j] = asked[j]
<1> USE DEF UninstallFails, UninstallSucceeds, UpgradeFails, UpgradeSucceeds, Becomes, SyncInv, SyncTypeOK
<1>1. CASE PresyncFails(w) \/ Presync(w) \/ QueryFails(w) \/ Query(w) \/ Requery(w) \/ Lock(w)
  BY <1>1 DEF PresyncFails, Presync, QueryFails, Query, Requery, Lock
<1>2. CASE Uninstall(w) \/ UninstallUnlocked(w) \/ ReadList(w) \/ WriteList(w)
  BY <1>2 DEF Uninstall, UninstallUnlocked, ReadList, WriteList
<1>3. CASE Sync(w) \/ SyncFails(w) \/ SyncForbidden(w)
  BY <1>3 DEF Sync, SyncFails, SyncForbidden
<1>4. CASE ReUninstall(w) \/ ReUninstallFails(w) \/ ReSync(w) \/ ReSyncFails(w) \/ Record(w)
  BY <1>4 DEF ReUninstall, ReUninstallFails, ReSync, ReSyncFails, Record
<1> QED BY <1>1, <1>2, <1>3, <1>4 DEF Body

\* A worker of a sync or an apply lists its own release only.
LEMMA BodyLists ==
  ASSUME SyncInv, op # "delete", NEW w \in Workers, bpc[w] \notin {"read", "write"}, Body(w),
         NEW j \in Items, j # wjob[w], NEW l \in Lists
  PROVE  j \in affected'[l] <=> j \in affected[l]
<1>0. bpc[w] # "idle" /\ wjob[w] \in Items /\ SyncTypeOK
  BY BodyGoes, Holder DEF SyncInv
<1>1. CASE PresyncFails(w) \/ Presync(w) \/ QueryFails(w) \/ Query(w) \/ Requery(w) \/ Lock(w)
  BY <1>1 DEF PresyncFails, Presync, QueryFails, Query, Requery, Lock
<1>2. CASE Uninstall(w)
  BY <1>0, <1>2, ListedFact DEF Uninstall
<1>3. CASE UninstallUnlocked(w) \/ ReadList(w) \/ WriteList(w)
  BY <1>3 DEF UninstallUnlocked, ReadList, WriteList, At
<1>4. CASE Sync(w) \/ SyncFails(w) \/ SyncForbidden(w)
  BY <1>4 DEF Sync, SyncFails, SyncForbidden
<1>5. CASE ReUninstall(w) \/ ReSync(w) \/ ReSyncFails(w)
  BY <1>5 DEF ReUninstall, ReSync, ReSyncFails
<1>6. CASE ReUninstallFails(w) \/ Record(w)
  BY <1>0, <1>6, ListedFact DEF ReUninstallFails, Record
<1> QED BY <1>1, <1>2, <1>3, <1>4, <1>5, <1>6 DEF Body

\* A release to which nothing happens stays as it is.
LEMMA SameOK ==
  ASSUME NEW i \in Items, Same(i), ReleaseOK(i)
  PROVE  ReleaseOK(i)'
<1> USE DEF Same, Lists
<1>1. TruthOf(i)'
  BY DEF ReleaseOK, TruthOf
<1>2. \A err : Settled(i, err) <=> Settled(i, err)'
  BY DEF Settled, Reached, Accounted
<1>3. Fresh(i)' <=> Fresh(i)
  BY DEF Fresh
<1>4. Held(i)' <=> Held(i)
  BY DEF Held
<1>5. outcome'[i] # "none" => Settled(i, outcome[i] = "error")'
  BY DEF ReleaseOK, Settled, Reached, Accounted
<1>6. ASSUME NEW w \in Workers, bpc'[w] # "idle", wjob'[w] = i PROVE InHand(w, i)'
  <2>1. InHand(w, i) /\ bpc'[w] = bpc[w] /\ berr'[w] = berr[w] /\ brec'[w] = brec[w]
    BY <1>6 DEF ReleaseOK
  <2>2. bpc[w] = "hooks" => Settled(i, berr[w])'
    BY <2>1 DEF InHand, Settled, Reached, Accounted
  <2> QED BY <1>3, <2>1, <2>2 DEF InHand
<1> QED BY <1>1, <1>3, <1>4, <1>5, <1>6 DEF ReleaseOK

\* The release in the hands of the worker that makes the step.
LEMMA OwnOK ==
  ASSUME SyncInv, NEW w \in Workers, Body(w), NEW i \in Items, i = wjob[w], TruthOf(i)', InHand(w, i)'
  PROVE  ReleaseOK(i)'
<1>1. wjob' = wjob /\ outcome' = outcome
  BY BodyStutters DEF poolVars
<1>2. bpc[w] # "idle" /\ bpc'[w] # "idle"
  BY BodyGoes
<1>3. outcome[i] = "none" /\ \A v \in Workers : wjob[v] = i => v = w
  BY <1>2, Holder
<1>4. Held(i)'
  BY <1>1, <1>2 DEF Held
<1> QED BY <1>1, <1>3, <1>4 DEF ReleaseOK

\* The steps up to the first call of helm.
LEMMA OwnBefore ==
  ASSUME SyncInv, Given, op # "delete", NEW w \in Workers, NEW i \in Items, i = wjob[w],
         TruthOf(i), InHand(w, i),
         PresyncFails(w) \/ Presync(w) \/ QueryFails(w) \/ Query(w) \/ Requery(w) \/ Lock(w)
  PROVE  TruthOf(i)' /\ InHand(w, i)'
<1> USE DEF SyncInv, SyncTypeOK, Goto, Fail, At
<1>1. UNCHANGED <<op, want, before, installed, affected, brec>>
  BY DEF PresyncFails, Presync, QueryFails, Query, Requery, Lock, Fixed
<1>2. TruthOf(i)' /\ (Fresh(i)' <=> Fresh(i))
  BY <1>1 DEF TruthOf, Fresh
<1>3. CASE PresyncFails(w) \/ QueryFails(w)
  <2>1. bpc'[w] = "hooks" /\ berr'[w] /\ bpc[w] \in {"presync", "query", "requery"}
    BY <1>3 DEF PresyncFails, QueryFails
  <2>2. asked'[i] # "change"
    BY <1>3, <2>1 DEF PresyncFails, QueryFails, Becomes, InHand
  <2>3. Settled(i, berr[w])'
    BY <1>1, <2>1, <2>2 DEF InHand, Settled, Accounted
  <2> QED BY <1>1, <1>2, <2>1, <2>3 DEF InHand
<1>4. CASE Presync(w)
  <2>1. bpc[w] = "presync" /\ berr' = berr /\ asked' = asked /\ op \in {"sync", "deleteForSync"}
    BY <1>4 DEF Presync, Ops
  <2>2. \/ bpc'[w] \in {"lock", "query"} /\ want[i] = "absent"
        \/ bpc'[w] = "sync" /\ want[i] # "absent"
    BY <1>4, <2>1 DEF Presync, Given
  <2> QED BY <1>1, <1>2, <2>1, <2>2 DEF InHand
<1>5. CASE Query(w)
  <2>1. bpc[w] = "query" /\ berr' = berr /\ asked' = asked
    BY <1>5 DEF Query
  <2>2. CASE i \in installed
    <3>1. bpc'[w] = "lock"
      BY <1>5, <2>2 DEF Query
    <3> QED BY <1>1, <1>2, <2>1, <3>1 DEF InHand
  <2>3. CASE i \notin installed
    <3>1. bpc'[w] = "hooks"
      BY <1>5, <2>3 DEF Query
    <3>2. Settled(i, berr[w])'
      BY <1>1, <2>1, <2>3 DEF InHand, Settled, Reached, Accounted, Fresh, Lists
    <3> QED BY <1>1, <1>2, <3>1, <3>2 DEF InHand
  <2> QED BY <2>2, <2>3
<1>6. CASE Requery(w)
  <2>1. bpc[w] = "requery" /\ bpc'[w] \in {"relock", "resync"} /\ berr' = berr /\ asked' = asked
    BY <1>6 DEF Requery
  <2> QED BY <1>1, <1>2, <2>1 DEF InHand
<1>7. CASE Lock(w)
  <2>1. /\ berr' = berr /\ asked' = asked
        /\ \/ bpc[w] = "lock" /\ bpc'[w] = "uninstall"
           \/ bpc[w] = "relock" /\ bpc'[w] = "reuninstall"
    BY <1>7 DEF Lock
  <2> QED BY <1>1, <1>2, <2>1 DEF InHand
<1> QED BY <1>3, <1>4, <1>5, <1>6, <1>7

\* The uninstall of a release that is not wanted.
LEMMA OwnUninstall ==
  ASSUME SyncInv, op # "delete", NEW w \in Workers, NEW i \in Items, i = wjob[w],
         TruthOf(i), InHand(w, i), Uninstall(w)
  PROVE  TruthOf(i)' /\ InHand(w, i)'
<1>1. bpc[w] = "uninstall" /\ bpc'[w] = "hooks" /\ UNCHANGED <<op, want, before, brec>>
  BY DEF Uninstall, At, Goto, Fixed, SyncInv, SyncTypeOK
<1>2. want[i] = "absent" /\ Fresh(i) /\ ~berr[w]
  BY <1>1 DEF InHand
<1>5. asked'[i] = "change"
  BY DEF Uninstall, UninstallFails, UninstallSucceeds, Becomes, SyncInv, SyncTypeOK
<1>3. CASE UninstallFails(i) /\ Listed(FailLists, i) /\ Fail(w)
  <2>1. berr'[w] /\ "Failed" \in FailLists /\ FailLists \subseteq {"Failed", "DeleteFailed"}
    BY <1>3 DEF Fail, FailLists, SyncInv, SyncTypeOK
  <2>2. \A l \in Lists : i \in affected'[l] <=> l \in FailLists
    BY <1>2, <1>3, ListedFact DEF Fresh, SyncInv
  <2>3. TruthOf(i)'
    BY <2>1, <2>2 DEF TruthOf, Lists
  <2>4. Settled(i, berr[w])'
    BY <1>1, <1>2, <1>5, <2>1, <2>2 DEF Settled, Accounted, Lists
  <2> QED BY <1>1, <2>3, <2>4 DEF InHand
<1>4. CASE UninstallSucceeds(i) /\ Listed({"Deleted"}, i) /\ UNCHANGED berr
  <2>1. \A l \in Lists : i \in affected'[l] <=> l = "Deleted"
    BY <1>2, <1>4, ListedFact DEF Fresh, SyncInv
  <2>2. i \notin installed'
    BY <1>4 DEF UninstallSucceeds
  <2>3. TruthOf(i)'
    BY <2>1, <2>2 DEF TruthOf, Lists
  <2>4. Settled(i, berr[w])'
    BY <1>1, <1>2, <1>5, <2>1, <2>2 DEF Settled, Accounted, Reached, Lists
  <2> QED BY <1>1, <2>3, <2>4 DEF InHand
<1> QED BY <1>3, <1>4 DEF Uninstall

\* The upgrades, and the uninstall of a reinstall that succeeds.
LEMMA OwnUpgrade ==
  ASSUME SyncInv, NEW w \in Workers, NEW i \in Items, i = wjob[w],
         TruthOf(i), InHand(w, i),
         Sync(w) \/ SyncFails(w) \/ SyncForbidden(w) \/ ReUninstall(w) \/ ReSync(w) \/ ReSyncFails(w)
  PROVE  TruthOf(i)' /\ InHand(w, i)'
<1> USE DEF SyncInv, SyncTypeOK, Goto, Fail, At
<1>1. UNCHANGED <<op, want, before, affected>> /\ bpc[w] \in {"sync", "reuninstall", "resync"}
  BY DEF Sync, SyncFails, SyncForbidden, ReUninstall, ReSync, ReSyncFails, Fixed
<1>2. Fresh(i) /\ want[i] # "absent" /\ ~berr[w]
  BY <1>1 DEF InHand
<1>8. asked'[i] = "change"
  BY DEF Sync, SyncFails, SyncForbidden, ReUninstall, ReSync, ReSyncFails,
     UninstallSucceeds, UpgradeFails, UpgradeSucceeds, Becomes
<1>3. TruthOf(i)' /\ Fresh(i)'
  BY <1>1, <1>2 DEF TruthOf, Fresh, Lists
<1>4. CASE Sync(w) \/ ReSync(w)
  <2>1. /\ bpc'[w] = "record" /\ berr' = berr /\ i \in installed'
        /\ brec'[w] \in {"Upgraded", "Reinstalled"}
    BY <1>4 DEF Sync, ReSync, UpgradeSucceeds
  <2> QED BY <1>1, <1>2, <1>3, <1>8, <2>1 DEF InHand
<1>5. CASE SyncFails(w) \/ ReSyncFails(w)
  <2>1. bpc'[w] = "record" /\ berr'[w] /\ brec'[w] = "Failed"
    BY <1>5 DEF SyncFails, ReSyncFails
  <2> QED BY <1>1, <1>2, <1>3, <1>8, <2>1 DEF InHand
<1>6. CASE SyncForbidden(w)
  <2>1. /\ bpc[w] = "sync" /\ bpc'[w] = "requery" /\ berr' = berr
        /\ i \in installed => i \in installed'
    BY <1>6 DEF SyncForbidden, UpgradeFails
  <2> QED BY <1>1, <1>2, <1>3, <1>8, <2>1 DEF InHand
<1>7. CASE ReUninstall(w)
  <2>1. bpc'[w] = "resync" /\ berr' = berr
    BY <1>7 DEF ReUninstall
  <2> QED BY <1>1, <1>2, <1>3, <1>8, <2>1 DEF InHand
<1> QED BY <1>4, <1>5, <1>6, <1>7

\* The end of a reinstall that fails, and the entry in the summary.
LEMMA OwnRecord ==
  ASSUME SyncInv, NEW w \in Workers, NEW i \in Items, i = wjob[w],
         TruthOf(i), InHand(w, i), ReUninstallFails(w) \/ Record(w)
  PROVE  TruthOf(i)' /\ InHand(w, i)'
<1>1. bpc[w] \in {"reuninstall", "record"} /\ bpc'[w] = "hooks" /\ UNCHANGED <<op, want, before, brec>>
  BY DEF ReUninstallFails, Record, At, Goto, Fixed, SyncInv, SyncTypeOK
<1>2. Fresh(i) /\ want[i] # "absent"
  BY <1>1 DEF InHand
<1>5. asked'[i] = "change"
  BY <1>1 DEF ReUninstallFails, Record, UninstallFails, Becomes, InHand, SyncInv, SyncTypeOK
<1>3. CASE ReUninstallFails(w)
  <2>1. berr'[w]
    BY <1>3 DEF ReUninstallFails, Fail, SyncInv, SyncTypeOK
  <2>2. \A l \in Lists : i \in affected'[l] <=> l = "Failed"
    BY <1>2, <1>3, ListedFact DEF ReUninstallFails, Fresh, SyncInv
  <2>3. TruthOf(i)'
    BY <2>2 DEF TruthOf, Lists
  <2>4. Settled(i, berr[w])'
    BY <1>5, <2>1, <2>2 DEF Settled, Accounted, Lists
  <2> QED BY <1>1, <2>3, <2>4 DEF InHand
<1>4. CASE Record(w)
  <2>1. /\ UNCHANGED <<installed, berr>>
        /\ \/ brec[w] \in {"Upgraded", "Reinstalled"} /\ i \in installed /\ ~berr[w]
           \/ brec[w] = "Failed" /\ berr[w]
    BY <1>4 DEF Record, At, InHand
  <2>2. \A l \in Lists : i \in affected'[l] <=> l = brec[w]
    BY <1>2, <1>4, ListedFact DEF Record, Fresh, SyncInv
  <2>3. TruthOf(i)'
    BY <2>1, <2>2 DEF TruthOf, Lists
  <2>4. Settled(i, berr[w])'
    BY <1>1, <1>2, <1>5, <2>1, <2>2 DEF Settled, Accounted, Reached, Lists
  <2> QED BY <1>1, <2>3, <2>4 DEF InHand
<1> QED BY <1>3, <1>4

\* A step of the loop body of a sync or an apply.
LEMMA BodyKeeps ==
  ASSUME SyncInv, ListInv, op # "delete", NEW w \in Workers, Body(w), NEW i \in Items
  PROVE  ReleaseOK(i)'
<1>1. bpc[w] # "idle" /\ wjob[w] \in Items /\ wjob' = wjob /\ outcome' = outcome
  BY BodyGoes, Holder, BodyStutters DEF poolVars
<1>2. ReleaseOK(i) /\ InHand(w, wjob[w])
  BY <1>1 DEF ListInv, ReleaseOK
<1>3. CASE i = wjob[w]
  <2>1. TruthOf(i) /\ InHand(w, i) /\ Given
    BY <1>2, <1>3 DEF ListInv, ReleaseOK
  <2>2. TruthOf(i)' /\ InHand(w, i)'
    <3>1. ~UninstallUnlocked(w) /\ ~ReadList(w) /\ ~WriteList(w)
      BY <2>1 DEF UninstallUnlocked, ReadList, WriteList, At, InHand
    <3> QED BY <1>3, <2>1, <3>1, OwnBefore, OwnUninstall, OwnUpgrade, OwnRecord, Zenon DEF Body
  <2> QED BY <1>3, <2>2, OwnOK
<1>4. CASE i # wjob[w]
  <2>1. (i \in installed' <=> i \in installed) /\ asked'[i] = asked[i]
    BY <1>4, BodyCluster
  <2>2. \A l \in Lists : i \in affected'[l] <=> i \in affected[l]
    BY <1>2, <1>4, BodyLists DEF InHand
  <2>3. ASSUME NEW v \in Workers
        PROVE  /\ bpc'[v] # "idle" /\ wjob'[v] = i <=> bpc[v] # "idle" /\ wjob[v] = i
               /\ bpc[v] # "idle" /\ wjob[v] = i => bpc'[v] = bpc[v] /\ berr'[v] = berr[v] /\ brec'[v] = brec[v]
    <3>1. CASE v = w
      BY <1>1, <1>4, <3>1
    <3>2. CASE v # w
      BY <1>1, <3>2, BodyGoes, BodyNotes
    <3> QED BY <3>1, <3>2
  <2>4. Same(i)
    BY <1>1, <2>1, <2>2, <2>3, BodyGoes DEF Same
  <2> QED BY <1>2, <2>4, SameOK
<1> QED BY <1>3, <1>4

\* Receiving a release: nobody has touched it.
LEMMA BeginKeeps ==
  ASSUME SyncInv, ListInv, op # "delete", NEW w \in Workers, Begin(w), NEW i \in Items
  PROVE  ReleaseOK(i)'
<1>1. /\ wpc[w] = "recv" /\ bpc[w] = "idle" /\ taken \in Nat
      /\ \A v \in Workers : v # w => bpc'[v] = bpc[v] /\ wjob'[v] = wjob[v] /\ berr'[v] = berr[v]
      /\ wjob'[w] = taken + 1 /\ bpc'[w] = "presync" /\ ~berr'[w]
      /\ UNCHANGED <<outcome, op, want, before, installed, asked, brec, affected>>
  BY PoolAssumption DEF Begin, Take, Goto, SyncInv, SyncTypeOK, Busy, PoolInv, TypeOK
<1>2. ReleaseOK(i)
  BY DEF ListInv
<1>3. CASE i = taken + 1
  <2>1. outcome[i] = "none" /\ \A v \in Workers : wjob[v] # i
    BY <1>1, <1>3, PoolAssumption DEF SyncInv, PoolInv, Conservation, Items
  <2>2. TruthOf(i) /\ Fresh(i) /\ (i \in installed <=> i \in before) /\ asked[i] = "nothing"
    BY <1>2, <2>1 DEF ReleaseOK, Held
  <2>3. TruthOf(i)' /\ Fresh(i)'
    BY <1>1, <2>2 DEF TruthOf, Fresh
  <2>4. InHand(w, i)'
    BY <1>1, <2>2, <2>3 DEF InHand
  <2>5. Held(i)' /\ \A v \in Workers : wjob'[v] = i => v = w
    BY <1>1, <1>3, <2>1 DEF Held
  <2> QED BY <1>1, <2>1, <2>3, <2>4, <2>5 DEF ReleaseOK
<1>4. CASE i # taken + 1
  <2>1. Same(i)
    BY <1>1, <1>4 DEF Same
  <2> QED BY <1>2, <2>1, SameOK
<1> QED BY <1>3, <1>4

\* The loop body ends: the release is settled.
LEMMA EndKeeps ==
  ASSUME SyncInv, ListInv, op # "delete", NEW w \in Workers, End(w), NEW i \in Items
  PROVE  ReleaseOK(i)'
<1>1. PICK hookFails \in BOOLEAN : Work(w, berr[w] \/ hookFails)
  BY Zenon DEF End
<1>2. /\ bpc[w] = "hooks" /\ bpc'[w] = "idle" /\ \A v \in Workers : v # w => bpc'[v] = bpc[v]
      /\ UNCHANGED <<op, want, before, installed, asked, berr, brec, affected>>
  BY DEF End, At, Goto, SyncInv, SyncTypeOK
<1>3. wjob' = wjob /\ outcome' = [outcome EXCEPT ![wjob[w]] = IF berr[w] \/ hookFails THEN "error" ELSE "ok"]
  BY <1>1 DEF Work
<1>4. wjob[w] \in Items /\ \A v \in Workers : wjob[v] = wjob[w] => v = w
  BY <1>2, Holder
<1>5. ReleaseOK(i)
  BY DEF ListInv
<1>6. CASE i = wjob[w]
  <2>1. TruthOf(i) /\ Settled(i, berr[w])
    BY <1>2, <1>5, <1>6 DEF ReleaseOK, InHand
  <2>2. outcome'[i] = IF berr[w] \/ hookFails THEN "error" ELSE "ok"
    BY <1>3, <1>6 DEF SyncInv, PoolInv, TypeOK
  <2>3. TruthOf(i)'
    BY <1>2, <2>1 DEF TruthOf
  <2>4. Settled(i, outcome[i] = "error")'
    BY <1>2, <2>1, <2>2 DEF Settled, Reached, Accounted
  <2>5. \A v \in Workers : ~(bpc'[v] # "idle" /\ wjob'[v] = i)
    BY <1>2, <1>3, <1>4, <1>6
  <2> QED BY <2>2, <2>3, <2>4, <2>5 DEF ReleaseOK
<1>7. CASE i # wjob[w]
  <2>1. outcome'[i] = outcome[i]
    BY <1>3, <1>7 DEF SyncInv, PoolInv, TypeOK
  <2>2. Same(i)
    BY <1>2, <1>3, <1>7, <2>1 DEF Same
  <2> QED BY <1>5, <2>2, SameOK
<1> QED BY <1>6, <1>7

\* What the pool does besides concerns no release.
LEMMA PoolKeeps ==
  ASSUME SyncInv, NEW i \in Items,
         Producer \/ Aggregator \/ (\E w \in Workers : Deliver(w)) \/ UNCHANGED syncVars
  PROVE  Same(i)
<1>1. UNCHANGED bodyVars
  BY Zenon DEF Producer, Aggregator, Deliver, syncVars
<1>2. outcome' = outcome
  BY DEF Producer, Aggregator, Deliver, syncVars, poolVars, Produce, CloseJobs, GatherDone, WaitDone, Gather,
     PutResult, HandResult, Stop
<1>3. \A v \in Workers : wjob'[v] = wjob[v] \/ bpc[v] = "idle"
  <2>1. ASSUME NEW w \in Workers, Deliver(w), NEW v \in Workers PROVE wjob'[v] = wjob[v] \/ bpc[v] = "idle"
    <3>1. bpc[w] = "idle"
      BY <2>1 DEF Deliver, PutResult, HandResult, Stop, SyncInv, Busy
    <3>2. v # w => wjob'[v] = wjob[v]
      BY <2>1 DEF Deliver, PutResult, HandResult, Stop, WorkerFree, SyncInv, PoolInv, TypeOK
    <3> QED BY <3>1, <3>2
  <2>2. CASE Producer \/ Aggregator \/ UNCHANGED syncVars
    BY <2>2 DEF Producer, Aggregator, syncVars, poolVars, Produce, CloseJobs, GatherDone, WaitDone, Gather
  <2> QED BY <2>1, <2>2
<1> QED BY <1>1, <1>2, <1>3 DEF bodyVars, Same

\* The arguments of the call do not change.
LEMMA SameCall ==
  ASSUME [SyncNext]_syncVars
  PROVE  UNCHANGED <<op, want, before, call>>
<1>1. ASSUME NEW w \in Workers, Body(w) PROVE UNCHANGED <<op, want, before, call>>
  <2>1. call' = call
    BY <1>1, BodyStutters DEF poolVars
  <2>2. UNCHANGED <<op, want, before>>
    BY <1>1, Zenon DEF Body, Fixed, PresyncFails, Presync, QueryFails, Query, Requery, Lock,
       Uninstall, UninstallUnlocked, ReadList, WriteList, Sync, SyncFails, SyncForbidden,
       ReUninstall, ReUninstallFails, ReSync, ReSyncFails, Record
  <2> QED BY <2>1, <2>2
<1>2. ASSUME NEW w \in Workers, Begin(w) \/ End(w) \/ Deliver(w) PROVE UNCHANGED <<op, want, before, call>>
  BY <1>2 DEF Begin, Take, End, Work, Deliver, PutResult, HandResult, Stop, bodyVars
<1>3. CASE Producer \/ Aggregator \/ UNCHANGED syncVars
  BY <1>3 DEF Producer, Aggregator, syncVars, poolVars, bodyVars, Produce, CloseJobs, GatherDone, WaitDone, Gather
<1> QED BY <1>1, <1>2, <1>3, Zenon DEF SyncNext

\* A worker of the pool that works is in the loop body.
LEMMA WorkingNext == SyncInv /\ Working /\ [SyncNext]_syncVars => Working'
<1> SUFFICES ASSUME SyncInv, Working, [SyncNext]_syncVars, NEW v \in Workers, wpc'[v] = "work"
             PROVE  bpc'[v] # "idle"
  BY DEF Working
<1>1. ASSUME NEW w \in Workers, Begin(w) PROVE bpc'[v] # "idle"
  BY <1>1 DEF Begin, Take, Goto, SyncInv, SyncTypeOK, PoolInv, TypeOK, Working
<1>2. ASSUME NEW w \in Workers, End(w) PROVE bpc'[v] # "idle"
  <2>1. PICK hookFails \in BOOLEAN : Work(w, berr[w] \/ hookFails)
    BY <1>2, Zenon DEF End
  <2>2. v # w /\ wpc[v] = "work"
    BY <2>1 DEF Work, SyncInv, PoolInv, TypeOK
  <2> QED BY <1>2, <2>2 DEF End, Goto, SyncInv, SyncTypeOK, Working
<1>3. ASSUME NEW w \in Workers, Body(w) PROVE bpc'[v] # "idle"
  BY <1>3, BodyGoes, BodyStutters DEF poolVars, Working
<1>4. ASSUME NEW w \in Workers, Deliver(w) PROVE bpc'[v] # "idle"
  BY <1>4 DEF Deliver, PutResult, HandResult, Stop, WorkerFree, bodyVars, SyncInv, PoolInv, TypeOK, Working
<1>5. CASE Producer \/ Aggregator \/ UNCHANGED syncVars
  BY <1>5 DEF Producer, Aggregator, Produce, CloseJobs, GatherDone, WaitDone, Gather,
     syncVars, poolVars, bodyVars, Working
<1> QED BY <1>1, <1>2, <1>3, <1>4, <1>5, Zenon DEF SyncNext

\* Nothing is listed at the start.
LEMMA ListInit == SyncInit => ListInv
<1> SUFFICES ASSUME SyncInit PROVE ListInv
  OBVIOUS
<1>1. Given /\ ~call.early
  BY DEF SyncInit, Given
<1>2. Working
  BY DEF SyncInit, PoolInit, Working
<1>3. ASSUME NEW i \in Items PROVE ReleaseOK(i)
  <2>1. outcome[i] = "none" /\ ~Held(i) /\ installed = before /\ asked[i] = "nothing"
    BY DEF SyncInit, PoolInit, Held
  <2>2. Fresh(i) /\ TruthOf(i)
    BY DEF SyncInit, Fresh, TruthOf, Lists
  <2>3. \A w \in Workers : bpc[w] = "idle"
    BY DEF SyncInit
  <2> QED BY <2>1, <2>2, <2>3 DEF ReleaseOK
<1> QED BY <1>1, <1>2, <1>3 DEF ListInv

\* Every step keeps it.
LEMMA ListNext == SyncInv /\ ListInv /\ [SyncNext]_syncVars => ListInv'
<1> SUFFICES ASSUME SyncInv, ListInv, [SyncNext]_syncVars PROVE ListInv'
  OBVIOUS
<1>1. UNCHANGED <<op, want, before, call>>
  BY SameCall
<1>2. Given' /\ ~call'.early /\ Working'
  BY <1>1, WorkingNext DEF ListInv, Given
<1>3. ASSUME op # "delete", NEW i \in Items PROVE ReleaseOK(i)'
  <2>1. ASSUME Producer \/ Aggregator \/ (\E w \in Workers : Deliver(w)) \/ UNCHANGED syncVars PROVE ReleaseOK(i)'
    BY <1>3, <2>1, PoolKeeps, SameOK DEF ListInv
  <2> QED BY <1>3, <2>1, BodyKeeps, BeginKeeps, EndKeeps, Zenon DEF SyncNext
<1> QED BY <1>1, <1>2, <1>3 DEF ListInv

-----------------------------------------------------------------------------
(* What the lists of DeleteReleases contain, although appends may get lost. *)

Erring(i)  == outcome[i] = "error" \/ \E w \in Workers : bpc[w] # "idle" /\ wjob[w] = i /\ berr[w]
Removed(i) ==
  /\ i \notin installed
  /\ outcome[i] = "ok" \/ \E w \in Workers : bpc[w] \in {"read", "write", "hooks"} /\ wjob[w] = i /\ ~berr[w]

\* Nobody is listed without reason.
Evidence(l, i) ==
  \/ l \in {"Failed", "DeleteFailed"} /\ Erring(i)
  \/ l = "Deleted" /\ Removed(i)

Removing(w) ==
  /\ bpc[w] \in {"idle", "uninstall", "read", "write", "hooks"}
  /\ bpc[w] = "uninstall" => ~berr[w]
  /\ bpc[w] \in {"read", "write", "hooks"} /\ ~berr[w] => wjob[w] \notin installed
  /\ bpc[w] \in {"read", "write"} /\ berr[w] => brec[w] \in {"Failed", "DeleteFailed"}
  /\ bpc[w] \in {"read", "write"} /\ ~berr[w] => brec[w] = "Deleted"
  /\ bpc[w] = "write" => \A i \in snap[w] : Evidence(brec[w], i)

RemoveInv ==
  op = "delete" =>
    /\ \A w \in Workers : Removing(w)
    /\ \A i \in Items : outcome[i] = "ok" => i \notin installed
    /\ \A l \in Lists : \A i \in affected[l] : Evidence(l, i)

\* Nothing is listed at the start.
LEMMA RemoveInit == SyncInit => RemoveInv
<1> SUFFICES ASSUME SyncInit PROVE RemoveInv
  OBVIOUS
<1>1. \A w \in Workers : Removing(w)
  BY DEF SyncInit, Removing
<1>2. \A i \in Items : outcome[i] = "none"
  BY DEF SyncInit, PoolInit
<1>3. \A l \in Lists : affected[l] = {}
  BY DEF SyncInit
<1> QED BY <1>1, <1>2, <1>3 DEF RemoveInv

\* The loop body of DeleteReleases has three steps.
LEMMA RemoveSteps ==
  ASSUME SyncInv, RemoveInv, op = "delete", NEW w \in Workers, Body(w)
  PROVE  UninstallUnlocked(w) \/ ReadList(w) \/ WriteList(w)
<1>1. bpc[w] \in {"idle", "uninstall", "read", "write", "hooks"}
  BY DEF RemoveInv, Removing
<1> QED BY <1>1 DEF Body, At, PresyncFails, Presync, QueryFails, Query, Requery, Lock,
     Uninstall, Sync, SyncFails, SyncForbidden, ReUninstall, ReUninstallFails, ReSync, ReSyncFails, Record

\* What was reason to list a release remains one.
LEMMA EvidenceStays ==
  ASSUME SyncInv, RemoveInv, op = "delete", [SyncNext]_syncVars, NEW i \in Items
  PROVE  (Erring(i) => Erring(i)') /\ (Removed(i) => Removed(i)')
<1>1. ASSUME NEW w \in Workers, Begin(w) PROVE (Erring(i) => Erring(i)') /\ (Removed(i) => Removed(i)')
  <2>1. /\ bpc[w] = "idle" /\ UNCHANGED <<outcome, installed>>
        /\ \A v \in Workers : v # w => bpc'[v] = bpc[v] /\ wjob'[v] = wjob[v] /\ berr'[v] = berr[v]
    BY <1>1 DEF Begin, Take, Goto, SyncInv, SyncTypeOK, Busy, PoolInv, TypeOK
  <2> QED BY <2>1 DEF Erring, Removed
<1>2. ASSUME NEW w \in Workers, End(w) PROVE (Erring(i) => Erring(i)') /\ (Removed(i) => Removed(i)')
  <2>1. PICK hookFails \in BOOLEAN : (hookFails => op = "sync") /\ Work(w, berr[w] \/ hookFails)
    BY <1>2, Zenon DEF End
  <2>2. /\ bpc[w] = "hooks" /\ \A v \in Workers : v # w => bpc'[v] = bpc[v]
        /\ UNCHANGED <<installed, berr>>
    BY <1>2 DEF End, At, Goto, SyncInv, SyncTypeOK
  <2>3. wjob' = wjob /\ outcome' = [outcome EXCEPT ![wjob[w]] = IF berr[w] THEN "error" ELSE "ok"]
    BY <2>1 DEF Work
  <2>4. outcome[wjob[w]] = "none"
    BY <2>2, Holder
  <2>5. i # wjob[w] => outcome'[i] = outcome[i]
    BY <2>3 DEF SyncInv, PoolInv, TypeOK
  <2>6. i = wjob[w] => outcome'[i] = IF berr[w] THEN "error" ELSE "ok"
    BY <2>3 DEF SyncInv, PoolInv, TypeOK
  <2>7. Erring(i) => Erring(i)'
    BY <2>2, <2>3, <2>4, <2>5, <2>6 DEF Erring
  <2>8. Removed(i) => Removed(i)'
    BY <2>2, <2>3, <2>4, <2>5, <2>6 DEF Removed
  <2> QED BY <2>7, <2>8
<1>3. ASSUME NEW w \in Workers, Body(w) PROVE (Erring(i) => Erring(i)') /\ (Removed(i) => Removed(i)')
  <2>1. /\ wjob' = wjob /\ outcome' = outcome /\ bpc'[w] # "idle"
        /\ \A v \in Workers : v # w => bpc'[v] = bpc[v] /\ berr'[v] = berr[v]
    BY <1>3, BodyStutters, BodyGoes, BodyNotes DEF poolVars
  <2>2. CASE UninstallUnlocked(w)
    <3>1. bpc[w] = "uninstall" /\ ~berr[w] /\ installed' \subseteq installed
      BY <2>2 DEF UninstallUnlocked, At, UninstallFails, UninstallSucceeds, RemoveInv, Removing
    <3> QED BY <2>1, <3>1 DEF Erring, Removed
  <2>3. CASE ReadList(w) \/ WriteList(w)
    <3>1. bpc'[w] \in {"read", "write", "hooks"} /\ UNCHANGED <<installed, berr>>
      BY <2>3 DEF ReadList, WriteList, Goto, SyncInv, SyncTypeOK
    <3> QED BY <2>1, <3>1 DEF Erring, Removed
  <2> QED BY <1>3, <2>2, <2>3, RemoveSteps
<1>4. ASSUME Producer \/ Aggregator \/ (\E w \in Workers : Deliver(w)) \/ UNCHANGED syncVars
      PROVE  (Erring(i) => Erring(i)') /\ (Removed(i) => Removed(i)')
  <2>1. Same(i)
    BY <1>4, PoolKeeps
  <2> QED BY <2>1 DEF Same, Erring, Removed
<1> QED BY <1>1, <1>2, <1>3, <1>4, Zenon DEF SyncNext

\* The steps that make and use a copy of a list.
LEMMA RemoveBody ==
  ASSUME SyncInv, RemoveInv, op = "delete", [SyncNext]_syncVars, NEW w \in Workers, Body(w)
  PROVE  /\ \A v \in Workers : Removing(v)'
         /\ \A i \in Items : outcome'[i] = "ok" => i \notin installed'
         /\ \A l \in Lists : \A i \in affected'[l] : Evidence(l, i)'
<1>1. /\ wjob' = wjob /\ outcome' = outcome /\ bpc[w] # "idle" /\ wjob[w] \in Items
      /\ \A v \in Workers : v # w =>
           bpc'[v] = bpc[v] /\ berr'[v] = berr[v] /\ brec'[v] = brec[v] /\ snap'[v] = snap[v]
  BY BodyStutters, BodyGoes, BodyNotes, Holder DEF poolVars
<1>2. installed' \subseteq installed
  BY RemoveSteps DEF UninstallUnlocked, ReadList, WriteList, UninstallFails, UninstallSucceeds
<1>3. \A l \in Lists : \A i \in Items : Evidence(l, i) => Evidence(l, i)'
  BY EvidenceStays DEF Evidence
<1>4. /\ \A l \in Lists : affected[l] \subseteq Items
      /\ \A v \in Workers : snap[v] \subseteq Items /\ brec[v] \in Lists
  BY DEF SyncInv, SyncTypeOK
<1>5. ASSUME NEW v \in Workers, v # w PROVE Removing(v)'
  <2>1. Removing(v)
    BY DEF RemoveInv
  <2>2. /\ bpc'[v] = bpc[v] /\ wjob'[v] = wjob[v] /\ berr'[v] = berr[v]
        /\ brec'[v] = brec[v] /\ snap'[v] = snap[v]
    BY <1>1, <1>5
  <2>3. ASSUME bpc[v] = "write", NEW i \in snap[v] PROVE Evidence(brec[v], i)'
    <3>1. i \in Items /\ Evidence(brec[v], i) /\ (Erring(i) => Erring(i)') /\ (Removed(i) => Removed(i)')
      BY <1>4, <2>1, <2>3, EvidenceStays DEF Removing
    <3> QED BY <2>2, <3>1 DEF Evidence
  <2>4. bpc'[v] = "write" => \A i \in snap'[v] : Evidence(brec[v], i)'
    BY <2>2, <2>3
  <2> QED BY <1>2, <2>1, <2>2, <2>4 DEF Removing
<1>6. \A i \in Items : outcome'[i] = "ok" => i \notin installed'
  BY <1>1, <1>2 DEF RemoveInv
<1>7. CASE UninstallUnlocked(w)
  <2>1. bpc[w] = "uninstall" /\ bpc'[w] = "read" /\ ~berr[w] /\ affected' = affected
    BY <1>7 DEF UninstallUnlocked, At, Goto, SyncInv, SyncTypeOK, RemoveInv, Removing
  <2>2. \/ berr'[w] /\ brec'[w] = "Failed"
        \/ ~berr'[w] /\ brec'[w] = "Deleted" /\ wjob[w] \notin installed'
    BY <1>7, <2>1 DEF UninstallUnlocked, UninstallSucceeds, Fail, SyncInv, SyncTypeOK
  <2>3. Removing(w)'
    BY <1>1, <2>1, <2>2 DEF Removing
  <2>4. \A l \in Lists : \A i \in affected'[l] : Evidence(l, i)'
    BY <1>3, <1>4, <2>1 DEF RemoveInv
  <2> QED BY <1>5, <1>6, <2>3, <2>4
<1>8. CASE ReadList(w)
  <2>1. /\ bpc[w] = "read" /\ bpc'[w] = "write" /\ UNCHANGED <<berr, brec, affected, installed>>
        /\ snap'[w] = affected[brec[w]]
    BY <1>8 DEF ReadList, At, Goto, SyncInv, SyncTypeOK
  <2>2. \A i \in affected[brec[w]] : Evidence(brec[w], i)'
    <3> SUFFICES ASSUME NEW i \in affected[brec[w]] PROVE Evidence(brec[w], i)'
      OBVIOUS
    <3>1. i \in Items /\ Evidence(brec[w], i) /\ (Erring(i) => Erring(i)') /\ (Removed(i) => Removed(i)')
      BY <1>4, EvidenceStays DEF RemoveInv
    <3> QED BY <2>1, <3>1 DEF Evidence
  <2>3. Removing(w)
    BY DEF RemoveInv
  <2>4. Removing(w)'
    BY <1>1, <2>1, <2>2, <2>3 DEF Removing
  <2>5. \A l \in Lists : \A i \in affected'[l] : Evidence(l, i)'
    BY <1>3, <1>4, <2>1 DEF RemoveInv
  <2> QED BY <1>5, <1>6, <2>4, <2>5
<1>9. CASE WriteList(w)
  <2>1. /\ bpc[w] = "write" /\ UNCHANGED <<berr, installed>>
        /\ affected' = [affected EXCEPT ![brec[w]] = snap[w] \cup {wjob[w]}]
        /\ \/ brec[w] = "Failed" /\ brec'[w] = "DeleteFailed" /\ bpc'[w] = "read"
           \/ brec[w] # "Failed" /\ bpc'[w] = "hooks"
    BY <1>9 DEF WriteList, At, Goto, SyncInv, SyncTypeOK
  <2>2. Removing(w)
    BY DEF RemoveInv
  <2>3. Removing(w)'
    BY <1>1, <2>1, <2>2 DEF Removing
  <2>4. ASSUME NEW l \in Lists, NEW i \in affected'[l] PROVE Evidence(l, i)'
    <3>1. CASE l # brec[w]
      <4>1. i \in affected[l]
        BY <2>1, <2>4, <3>1 DEF SyncInv, SyncTypeOK
      <4> QED BY <1>3, <1>4, <4>1 DEF RemoveInv
    <3>2. CASE l = brec[w] /\ i \in snap[w]
      <4>1. i \in Items /\ Evidence(l, i)
        BY <1>4, <2>1, <2>2, <3>2 DEF Removing
      <4> QED BY <1>3, <4>1
    <3>3. CASE l = brec[w] /\ i = wjob[w]
      <4>1. CASE berr[w]
        <5>1. l \in {"Failed", "DeleteFailed"}
          BY <2>1, <2>2, <3>3, <4>1 DEF Removing
        <5>2. Erring(i)'
          BY <1>1, <2>1, <3>3, <4>1 DEF Erring
        <5> QED BY <5>1, <5>2 DEF Evidence
      <4>2. CASE ~berr[w]
        <5>1. l = "Deleted" /\ wjob[w] \notin installed
          BY <2>1, <2>2, <3>3, <4>2 DEF Removing
        <5>2. Removed(i)'
          BY <1>1, <2>1, <3>3, <4>2, <5>1 DEF Removed
        <5> QED BY <5>1, <5>2 DEF Evidence
      <4> QED BY <4>1, <4>2
    <3>4. l = brec[w] => i \in snap[w] \cup {wjob[w]}
      BY <2>1, <2>4 DEF SyncInv, SyncTypeOK
    <3> QED BY <3>1, <3>2, <3>3, <3>4
  <2> QED BY <1>5, <1>6, <2>3, <2>4
<1> QED BY <1>7, <1>8, <1>9, RemoveSteps

\* The other steps leave the lists alone.
LEMMA RemoveOther ==
  ASSUME SyncInv, RemoveInv, op = "delete", [SyncNext]_syncVars,
         UNCHANGED <<affected, installed, brec, snap>>,
         \A v \in Workers : bpc'[v] # "idle" =>
           \/ bpc'[v] = "uninstall" /\ ~berr'[v]
           \/ bpc'[v] = bpc[v] /\ berr'[v] = berr[v] /\ wjob'[v] = wjob[v]
  PROVE  /\ \A v \in Workers : Removing(v)'
         /\ \A l \in Lists : \A i \in affected'[l] : Evidence(l, i)'
<1>1. /\ \A l \in Lists : affected[l] \subseteq Items
      /\ \A v \in Workers : snap[v] \subseteq Items /\ brec[v] \in Lists
  BY DEF SyncInv, SyncTypeOK
<1>2. \A l \in Lists : \A i \in Items : Evidence(l, i) => Evidence(l, i)'
  BY EvidenceStays DEF Evidence
<1>3. \A l \in Lists : \A i \in affected'[l] : Evidence(l, i)'
  BY <1>1, <1>2 DEF RemoveInv
<1>4. ASSUME NEW v \in Workers PROVE Removing(v)'
  <2>1. Removing(v)
    BY DEF RemoveInv
  <2>2. bpc'[v] = "write" => \A i \in snap[v] : Evidence(brec[v], i)'
    <3> SUFFICES ASSUME bpc'[v] = "write", NEW i \in snap[v] PROVE Evidence(brec[v], i)'
      OBVIOUS
    <3>1. i \in Items /\ Evidence(brec[v], i) /\ (Erring(i) => Erring(i)') /\ (Removed(i) => Removed(i)')
      BY <1>1, <2>1, EvidenceStays DEF Removing
    <3> QED BY <3>1 DEF Evidence
  <2> QED BY <2>1, <2>2 DEF Removing
<1> QED BY <1>3, <1>4

\* Every step keeps it.
LEMMA RemoveNext == SyncInv /\ RemoveInv /\ [SyncNext]_syncVars => RemoveInv'
<1> SUFFICES ASSUME SyncInv, RemoveInv, [SyncNext]_syncVars, op = "delete"
             PROVE  /\ \A v \in Workers : Removing(v)'
                    /\ \A i \in Items : outcome'[i] = "ok" => i \notin installed'
                    /\ \A l \in Lists : \A i \in affected'[l] : Evidence(l, i)'
  BY SameCall DEF RemoveInv
<1>1. ASSUME NEW w \in Workers, Begin(w)
      PROVE  /\ \A v \in Workers : Removing(v)'
             /\ \A i \in Items : outcome'[i] = "ok" => i \notin installed'
             /\ \A l \in Lists : \A i \in affected'[l] : Evidence(l, i)'
  <2>1. /\ UNCHANGED <<outcome, affected, installed, brec, snap>> /\ bpc'[w] = "uninstall" /\ ~berr'[w]
        /\ \A v \in Workers : v # w => bpc'[v] = bpc[v] /\ berr'[v] = berr[v] /\ wjob'[v] = wjob[v]
    BY <1>1 DEF Begin, Take, Goto, SyncInv, SyncTypeOK, PoolInv, TypeOK
  <2> QED BY <2>1, RemoveOther DEF RemoveInv
<1>2. ASSUME NEW w \in Workers, End(w)
      PROVE  /\ \A v \in Workers : Removing(v)'
             /\ \A i \in Items : outcome'[i] = "ok" => i \notin installed'
             /\ \A l \in Lists : \A i \in affected'[l] : Evidence(l, i)'
  <2>1. PICK hookFails \in BOOLEAN : (hookFails => op = "sync") /\ Work(w, berr[w] \/ hookFails)
    BY <1>2, Zenon DEF End
  <2>2. /\ bpc[w] = "hooks" /\ bpc'[w] = "idle" /\ \A v \in Workers : v # w => bpc'[v] = bpc[v]
        /\ UNCHANGED <<affected, installed, berr, brec, snap>>
    BY <1>2 DEF End, At, Goto, SyncInv, SyncTypeOK
  <2>3. wjob' = wjob /\ outcome' = [outcome EXCEPT ![wjob[w]] = IF berr[w] THEN "error" ELSE "ok"]
    BY <2>1 DEF Work
  <2>4. ~berr[w] => wjob[w] \notin installed
    BY <2>2 DEF RemoveInv, Removing
  <2>5. \A i \in Items : outcome'[i] = "ok" => i \notin installed'
    BY <2>2, <2>3, <2>4 DEF RemoveInv, SyncInv, PoolInv, TypeOK
  <2> QED BY <2>2, <2>3, <2>5, RemoveOther
<1>3. ASSUME Producer \/ Aggregator \/ (\E w \in Workers : Deliver(w)) \/ UNCHANGED syncVars
      PROVE  /\ \A v \in Workers : Removing(v)'
             /\ \A i \in Items : outcome'[i] = "ok" => i \notin installed'
             /\ \A l \in Lists : \A i \in affected'[l] : Evidence(l, i)'
  <2>1. UNCHANGED bodyVars
    BY <1>3, Zenon DEF Producer, Aggregator, Deliver, syncVars
  <2>2. \A i \in Items : outcome'[i] = outcome[i]
    BY <1>3, PoolKeeps DEF Same
  <2>3. ASSUME NEW v \in Workers, bpc[v] # "idle" PROVE wjob'[v] = wjob[v]
    <3>1. wjob[v] \in Items /\ Same(wjob[v])
      BY <1>3, <2>3, Holder, PoolKeeps
    <3> QED BY <2>3, <3>1 DEF Same
  <2> QED BY <2>1, <2>2, <2>3, RemoveOther DEF bodyVars, RemoveInv
<1> QED BY <1>1, <1>2, <1>3, RemoveBody, Zenon DEF SyncNext

\* A release DeleteReleases is through with has left a trace in the lists it
\* belongs to: with one worker its entry, with several perhaps another's.
Due(err) == IF err THEN {"Failed", "DeleteFailed"} ELSE {"Deleted"}

Noted(l, i) == affected[l] # {} /\ (Width(call) = 1 => i \in affected[l])

Noting(w) ==
  /\ bpc[w] \in {"read", "write"} /\ brec[w] = "DeleteFailed" => Noted("Failed", wjob[w])
  /\ bpc[w] = "write" /\ Width(call) = 1 => affected[brec[w]] \subseteq snap[w]
  /\ bpc[w] = "hooks" => \A l \in Due(berr[w]) : Noted(l, wjob[w])

NotesInv ==
  op = "delete" =>
    /\ \A w \in Workers : Noting(w)
    /\ \A i \in Items : outcome[i] # "none" => \A l \in Due(outcome[i] = "error") : Noted(l, i)

\* Nobody is at work and nothing is processed at the start.
LEMMA NotesInit == SyncInit => NotesInv
<1> QED BY DEF SyncInit, PoolInit, NotesInv, Noting

\* The only worker is worker 1.
LEMMA OneWorker ==
  ASSUME SyncInv, Width(call) = 1, NEW w \in Workers, bpc[w] # "idle"
  PROVE  w = 1
<1>1. wpc[w] = "work" /\ (wpc[w] = "unborn" <=> w > Width(call))
  BY Holder DEF SyncInv, PoolInv, Channels
<1> QED BY <1>1, PoolAssumption DEF Workers

\* An append of the only worker loses no entry, and no append empties a list.
LEMMA NotedStays ==
  ASSUME SyncInv, RemoveInv, NotesInv, op = "delete", [SyncNext]_syncVars,
         NEW l \in Lists, NEW i \in Items, Noted(l, i)
  PROVE  Noted(l, i)'
<1>0. call' = call
  BY SameCall
<1>1. ASSUME affected' = affected PROVE Noted(l, i)'
  BY <1>0, <1>1 DEF Noted
<1>2. ASSUME NEW w \in Workers, Body(w) PROVE Noted(l, i)'
  <2>1. CASE WriteList(w)
    <3>1. bpc[w] = "write" /\ affected' = [affected EXCEPT ![brec[w]] = snap[w] \cup {wjob[w]}]
      BY <2>1 DEF WriteList, At
    <3>2. Width(call) = 1 => affected[brec[w]] \subseteq snap[w]
      BY <3>1 DEF NotesInv, Noting
    <3>3. affected'[l] = IF l = brec[w] THEN snap[w] \cup {wjob[w]} ELSE affected[l]
      BY <3>1 DEF SyncInv, SyncTypeOK
    <3> QED BY <1>0, <3>2, <3>3 DEF Noted
  <2>2. CASE UninstallUnlocked(w) \/ ReadList(w)
    BY <1>1, <2>2 DEF UninstallUnlocked, ReadList
  <2> QED BY <1>2, <2>1, <2>2, RemoveSteps
<1>3. ASSUME NEW w \in Workers, Begin(w) \/ End(w) PROVE Noted(l, i)'
  BY <1>1, <1>3 DEF Begin, End
<1>4. ASSUME Producer \/ Aggregator \/ (\E w \in Workers : Deliver(w)) \/ UNCHANGED syncVars
      PROVE  Noted(l, i)'
  <2>1. UNCHANGED bodyVars
    BY <1>4, Zenon DEF Producer, Aggregator, Deliver, syncVars
  <2> QED BY <1>1, <2>1 DEF bodyVars
<1> QED BY <1>2, <1>3, <1>4, Zenon DEF SyncNext

\* What the processed releases have left in the lists.
LEMMA NotedResults ==
  ASSUME SyncInv, RemoveInv, NotesInv, op = "delete", [SyncNext]_syncVars,
         NEW i \in Items, outcome'[i] = outcome[i], outcome[i] # "none"
  PROVE  \A l \in Due(outcome[i] = "error")' : Noted(l, i)'
<1>1. \A l \in Due(outcome[i] = "error") : l \in Lists /\ Noted(l, i)
  BY DEF NotesInv, Due, Lists
<1> QED BY <1>1, NotedStays DEF Due

\* A worker that does nothing itself.
LEMMA NotingStays ==
  ASSUME SyncInv, RemoveInv, NotesInv, op = "delete", [SyncNext]_syncVars, NEW v \in Workers,
         bpc[v] # "idle", UNCHANGED <<bpc[v], wjob[v], berr[v], brec[v], snap[v]>>,
         Width(call) = 1 => affected' = affected
  PROVE  Noting(v)'
<1>1. Noting(v) /\ wjob[v] \in Items /\ call' = call
  BY Holder, SameCall DEF NotesInv
<1>2. \A l \in Lists : Noted(l, wjob[v]) => Noted(l, wjob[v])'
  <2> SUFFICES ASSUME NEW l \in Lists, Noted(l, wjob[v]) PROVE affected'[l] # {} /\ (Width(call) = 1 => wjob[v] \in affected'[l])
    BY <1>1 DEF Noted
  <2>1. \A i \in Items : Noted(l, i) => Noted(l, i)'
    BY NotedStays
  <2> QED BY <1>1, <2>1 DEF Noted
<1> QED BY <1>1, <1>2 DEF Noting, Due, Lists

\* The steps that append.
LEMMA NotesBody ==
  ASSUME SyncInv, RemoveInv, NotesInv, op = "delete", [SyncNext]_syncVars, NEW w \in Workers, Body(w),
         NEW v \in Workers
  PROVE  Noting(v)'
<1>1. /\ wjob' = wjob /\ call' = call /\ bpc[w] # "idle" /\ wjob[w] \in Items
      /\ Noting(w) /\ Removing(w) /\ brec[w] \in Lists
  BY BodyStutters, BodyGoes, Holder DEF poolVars, NotesInv, RemoveInv, SyncInv, SyncTypeOK
<1>2. CASE v # w
  <2>1. UNCHANGED <<bpc[v], wjob[v], berr[v], brec[v], snap[v]>>
    BY <1>1, <1>2, BodyGoes, BodyNotes
  <2>2. bpc[v] = "idle" => Noting(v)'
    BY <2>1 DEF Noting
  <2>3. bpc[v] # "idle" => Width(call) # 1
    BY <1>1, <1>2, OneWorker
  <2> QED BY <2>1, <2>2, <2>3, NotingStays
<1>3. CASE v = w /\ UninstallUnlocked(w)
  <2>1. bpc'[w] = "read" /\ brec'[w] # "DeleteFailed"
    BY <1>3 DEF UninstallUnlocked, Goto, SyncInv, SyncTypeOK
  <2> QED BY <1>3, <2>1 DEF Noting
<1>4. CASE v = w /\ ReadList(w)
  <2>1. /\ bpc[w] = "read" /\ bpc'[w] = "write" /\ UNCHANGED <<brec, affected>>
        /\ snap'[w] = affected[brec[w]]
    BY <1>4 DEF ReadList, At, Goto, SyncInv, SyncTypeOK
  <2> QED BY <1>1, <1>4, <2>1 DEF Noting, Noted
<1>5. CASE v = w /\ WriteList(w)
  <2>1. /\ bpc[w] = "write" /\ berr' = berr
        /\ affected' = [affected EXCEPT ![brec[w]] = snap[w] \cup {wjob[w]}]
        /\ \/ brec[w] = "Failed" /\ brec'[w] = "DeleteFailed" /\ bpc'[w] = "read"
           \/ brec[w] # "Failed" /\ bpc'[w] = "hooks"
    BY <1>5 DEF WriteList, At, Goto, SyncInv, SyncTypeOK
  <2>2. affected'[brec[w]] = snap[w] \cup {wjob[w]}
    BY <1>1, <2>1 DEF SyncInv, SyncTypeOK
  <2>3. affected'[brec[w]] # {} /\ wjob[w] \in affected'[brec[w]]
    BY <2>2
  <2>4. CASE brec[w] = "Failed"
    BY <1>1, <1>5, <2>1, <2>3, <2>4 DEF Noting, Noted
  <2>5. CASE brec[w] = "DeleteFailed"
    <3>1. berr[w] /\ bpc'[w] = "hooks" /\ affected'["Failed"] = affected["Failed"]
      BY <1>1, <2>1, <2>5 DEF Removing, SyncInv, SyncTypeOK, Lists
    <3>2. Noted("Failed", wjob[w])
      BY <1>1, <2>1, <2>5 DEF Noting
    <3> QED BY <1>1, <1>5, <2>1, <2>3, <2>5, <3>1, <3>2 DEF Noting, Noted, Due
  <2>6. CASE brec[w] \notin {"Failed", "DeleteFailed"}
    <3>1. ~berr[w] /\ brec[w] = "Deleted" /\ bpc'[w] = "hooks"
      BY <1>1, <2>1, <2>6 DEF Removing
    <3> QED BY <1>1, <1>5, <2>1, <2>3, <3>1 DEF Noting, Noted, Due
  <2> QED BY <2>4, <2>5, <2>6
<1> QED BY <1>2, <1>3, <1>4, <1>5, RemoveSteps

\* Every step keeps it.
LEMMA NotesNext == SyncInv /\ RemoveInv /\ NotesInv /\ [SyncNext]_syncVars => NotesInv'
<1> SUFFICES ASSUME SyncInv, RemoveInv, NotesInv, [SyncNext]_syncVars, op = "delete"
             PROVE  /\ \A v \in Workers : Noting(v)'
                    /\ \A i \in Items : outcome'[i] # "none" =>
                         \A l \in Due(outcome[i] = "error")' : Noted(l, i)'
  BY SameCall DEF NotesInv
<1>1. ASSUME NEW w \in Workers, Begin(w), NEW v \in Workers PROVE Noting(v)' /\ outcome' = outcome
  <2>1. /\ outcome' = outcome /\ affected' = affected /\ bpc'[w] = "uninstall" /\ UNCHANGED <<brec, snap>>
        /\ v # w => UNCHANGED <<bpc[v], wjob[v], berr[v]>>
    BY <1>1 DEF Begin, Take, Goto, SyncInv, SyncTypeOK, PoolInv, TypeOK
  <2>2. (v = w \/ bpc[v] = "idle") => Noting(v)'
    BY <2>1 DEF Noting
  <2> QED BY <2>1, <2>2, NotingStays
<1>2. ASSUME NEW w \in Workers, End(w), NEW v \in Workers PROVE Noting(v)'
  <2>1. /\ bpc'[w] = "idle" /\ v # w => bpc'[v] = bpc[v]
        /\ UNCHANGED <<affected, wjob, berr, brec, snap>>
    BY <1>2 DEF End, Work, Goto, SyncInv, SyncTypeOK
  <2>2. (v = w \/ bpc[v] = "idle") => Noting(v)'
    BY <1>2, <2>1 DEF Noting, End, Goto, SyncInv, SyncTypeOK
  <2> QED BY <1>2, <2>1, <2>2, NotingStays DEF End, Goto, SyncInv, SyncTypeOK
<1>3. ASSUME NEW w \in Workers, End(w), NEW i \in Items, outcome'[i] # "none"
      PROVE  \A l \in Due(outcome[i] = "error")' : Noted(l, i)'
  <2>1. PICK hookFails \in BOOLEAN : (hookFails => op = "sync") /\ Work(w, berr[w] \/ hookFails)
    BY <1>3, Zenon DEF End
  <2>2. outcome' = [outcome EXCEPT ![wjob[w]] = IF berr[w] THEN "error" ELSE "ok"]
    BY <2>1 DEF Work
  <2>3. CASE i = wjob[w]
    <3>1. Noting(w) /\ bpc[w] = "hooks"
      BY <1>3 DEF End, At, NotesInv
    <3>2. outcome'[i] = IF berr[w] THEN "error" ELSE "ok"
      BY <2>2, <2>3 DEF SyncInv, PoolInv, TypeOK
    <3>3. UNCHANGED <<affected, call>>
      BY <1>3, SameCall DEF End
    <3> QED BY <2>3, <3>1, <3>2, <3>3 DEF Noting, Noted, Due
  <2>4. CASE i # wjob[w]
    BY <1>3, <2>2, <2>4, NotedResults DEF SyncInv, PoolInv, TypeOK
  <2> QED BY <2>3, <2>4
<1>4. ASSUME NEW w \in Workers, Body(w), NEW v \in Workers PROVE Noting(v)' /\ outcome' = outcome
  BY <1>4, NotesBody, BodyStutters DEF poolVars
<1>5. ASSUME Producer \/ Aggregator \/ (\E w \in Workers : Deliver(w)) \/ UNCHANGED syncVars
      PROVE  (\A v \in Workers : Noting(v)') /\ (\A i \in Items : outcome'[i] = outcome[i])
  <2>1. UNCHANGED bodyVars
    BY <1>5, Zenon DEF Producer, Aggregator, Deliver, syncVars
  <2>2. \A i \in Items : outcome'[i] = outcome[i]
    BY <1>5, PoolKeeps DEF Same
  <2>3. ASSUME NEW v \in Workers PROVE Noting(v)'
    <3>1. CASE bpc[v] = "idle"
      BY <2>1, <3>1 DEF bodyVars, Noting
    <3>2. CASE bpc[v] # "idle"
      <4>1. wjob[v] \in Items /\ Same(wjob[v])
        BY <1>5, <3>2, Holder, PoolKeeps
      <4>2. wjob'[v] = wjob[v]
        BY <3>2, <4>1 DEF Same
      <4> QED BY <2>1, <3>2, <4>2, NotingStays DEF bodyVars
    <3> QED BY <3>1, <3>2
  <2> QED BY <2>2, <2>3
<1>6. ASSUME \A i \in Items : outcome'[i] = outcome[i]
      PROVE  \A i \in Items : outcome'[i] # "none" => \A l \in Due(outcome[i] = "error")' : Noted(l, i)'
  BY <1>6, NotedResults
<1> QED BY <1>1, <1>2, <1>3, <1>4, <1>5, <1>6, Zenon DEF SyncNext

-----------------------------------------------------------------------------
(* When the call returns.                                                   *)

\* Every release has been processed, and the errors returned are those of all.
LEMMA WhenReturned ==
  ASSUME SyncInv, ListInv, apc = "returned"
  PROVE  /\ \A w \in Workers : bpc[w] = "idle"
         /\ \A i \in Items : outcome[i] \in {"ok", "error"} /\ (i \in Errors <=> outcome[i] = "error")
<1>1. \A w \in Workers : bpc[w] = "idle"
  BY DEF SyncInv, Busy, PoolInv, CallerProgress
<1>2. got = Items
  BY DEF SyncInv, ListInv, PoolInv, CallerProgress, GatherEnds
<1>3. \A i \in Items : outcome[i] \in {"ok", "error"}
  BY AtReturn DEF SyncInv, AllProcessedAtReturn, PoolInv, TypeOK, Outcome
<1> QED BY <1>1, <1>2, <1>3 DEF Errors, Failed

\* DeleteReleases lists no release as deleted and as failed.
LEMMA EvidenceExcludes ==
  ASSUME SyncInv, NEW i \in Items, Erring(i)
  PROVE  ~Removed(i)
<1>1. \A w \in Workers : bpc[w] # "idle" /\ wjob[w] = i =>
        outcome[i] = "none" /\ \A v \in Workers : wjob[v] = i => v = w
  BY Holder
<1> QED BY <1>1 DEF Erring, Removed

\* The summary is true at every moment.
LEMMA AlwaysTruthful == SyncInv /\ ListInv /\ RemoveInv => Truthful
<1> SUFFICES ASSUME SyncInv, ListInv, RemoveInv PROVE Truthful
  OBVIOUS
<1>0. \A l \in Lists : affected[l] \subseteq Items
  BY DEF SyncInv, SyncTypeOK
<1>1. CASE op # "delete"
  <2>1. \A i \in Items : TruthOf(i)
    BY <1>1 DEF ListInv, ReleaseOK
  <2> QED BY <1>0, <2>1 DEF Truthful, TruthOf, Lists
<1>2. CASE op = "delete"
  <2>1. affected["Upgraded"] = {} /\ affected["Reinstalled"] = {}
    BY <1>2 DEF RemoveInv, Evidence, Lists
  <2>2. \A i \in affected["Deleted"] : Removed(i)
    BY <1>2 DEF RemoveInv, Evidence, Lists
  <2>3. \A i \in affected["Failed"] : Erring(i)
    BY <1>2 DEF RemoveInv, Evidence, Lists
  <2>4. affected["Deleted"] \cap affected["Failed"] = {}
    BY <1>0, <2>2, <2>3, EvidenceExcludes DEF Lists
  <2>5. affected["Deleted"] \cap installed = {}
    BY <2>2 DEF Removed
  <2> QED BY <1>2, <2>1, <2>4, <2>5 DEF Truthful
<1> QED BY <1>1, <1>2

\* When the call returns, the summary is complete.
LEMMA CompleteAtReturn ==
  ASSUME SyncInv, ListInv, RemoveInv, NotesInv, apc = "returned"
  PROVE  Complete
<1>0. affected["Failed"] \subseteq Items
  BY DEF SyncInv, SyncTypeOK, Lists
<1>1. ASSUME NEW i \in affected["Failed"] PROVE i \in Errors
  <2>0. i \in Items
    BY <1>0
  <2>1. CASE op # "delete"
    <3>1. Settled(i, outcome[i] = "error")
      BY <2>0, <2>1, WhenReturned DEF ListInv, ReleaseOK
    <3> QED BY <2>0, <3>1, WhenReturned DEF Settled
  <2>2. CASE op = "delete"
    <3>1. Erring(i)
      BY <2>2 DEF RemoveInv, Evidence, Lists
    <3> QED BY <2>0, <3>1, WhenReturned DEF Erring
  <2> QED BY <2>1, <2>2
<1>2. ASSUME op # "delete" PROVE ChangesListed
  <2> SUFFICES ASSUME NEW i \in Items PROVE Accounted(i, i \in Errors)
    BY DEF ChangesListed, Accounted, SyncInv, SyncTypeOK, Asked
  <2> QED BY <1>2, WhenReturned DEF ListInv, ReleaseOK, Settled, Accounted
<1>3. ASSUME op = "delete" PROVE RemovalsListed
  <2>1. /\ affected["DeleteFailed"] \subseteq Items /\ affected["Deleted"] \subseteq Items
        /\ \A i \in affected["DeleteFailed"] : Erring(i)
        /\ \A i \in affected["Deleted"] : Removed(i)
    BY <1>3 DEF RemoveInv, Evidence, Lists, SyncInv, SyncTypeOK
  <2>2. affected["DeleteFailed"] \subseteq Errors /\ affected["Deleted"] \subseteq Items \ Errors
    BY <2>1, WhenReturned DEF Erring, Removed
  <2>3. ASSUME NEW i \in Items PROVE \A l \in Due(i \in Errors) : Noted(l, i)
    BY <1>3, WhenReturned DEF NotesInv
  <2>4. \A i \in Items :
          /\ i \in Errors => Noted("Failed", i) /\ Noted("DeleteFailed", i)
          /\ i \notin Errors => Noted("Deleted", i)
    BY <2>3 DEF Due
  <2>5. Errors \subseteq Items
    BY DEF Errors, Failed
  <2>6. Errors # {} => affected["Failed"] # {} /\ affected["DeleteFailed"] # {}
    BY <2>4, <2>5 DEF Noted
  <2>7. Errors # Items => affected["Deleted"] # {}
    <3> SUFFICES ASSUME Errors # Items PROVE affected["Deleted"] # {}
      OBVIOUS
    <3>1. PICK i \in Items : i \notin Errors
      BY <2>5
    <3> QED BY <2>4, <3>1 DEF Noted
  <2>8. ASSUME Width(call) = 1
        PROVE  /\ Errors \subseteq affected["Failed"] /\ Errors \subseteq affected["DeleteFailed"]
               /\ Items \ Errors \subseteq affected["Deleted"]
    <3>1. \A i \in Items :
            /\ i \in Errors => i \in affected["Failed"] /\ i \in affected["DeleteFailed"]
            /\ i \notin Errors => i \in affected["Deleted"]
      BY <2>4, <2>8, Zenon DEF Noted
    <3> QED BY <2>5, <3>1
  <2>9. affected["Failed"] \subseteq Errors
    BY <1>1
  <2> QED BY <2>2, <2>6, <2>7, <2>8, <2>9, Zenon DEF RemovalsListed
<1> QED BY <1>1, <1>2, <1>3 DEF Complete

-----------------------------------------------------------------------------
(* Theorems.                                                                *)

\* What becomes of each release, and what the lists contain, in every reachable
\* state of SyncReleases, DeleteReleasesForSync and DeleteReleases.
THEOREM ReleasesInvariant == SyncSpec => [](ListInv /\ RemoveInv /\ NotesInv)
<1>1. SyncInit => ListInv /\ RemoveInv /\ NotesInv
  BY ListInit, RemoveInit, NotesInit
<1>2. SyncInv /\ ListInv /\ RemoveInv /\ NotesInv /\ [SyncNext]_syncVars => ListInv' /\ RemoveInv' /\ NotesInv'
  BY ListNext, RemoveNext, NotesNext
<1> QED BY <1>1, <1>2, SyncInvariant, PTL DEF SyncSpec

\* The summary of affected releases is true of the cluster at every moment.  At
\* return that of a sync or an apply lists every release helm was asked to
\* change, except one whose second query failed; that of DeleteReleases lists
\* everything if there is one worker, and with several, whose unprotected
\* appends may lose entries, nothing in the wrong list and no list empty that
\* should not be.
THEOREM SummaryTrue == SyncSpec => []SummaryExact
<1>1. SyncInv /\ ListInv /\ RemoveInv /\ NotesInv => SummaryExact
  BY AlwaysTruthful, CompleteAtReturn DEF SummaryExact
<1> QED BY <1>1, SyncInvariant, ReleasesInvariant, PTL

\* A sync, or a deletion, that reports no error has brought the cluster to the
\* desired state, for any number of releases and workers, whatever helm does.
THEOREM SyncConverged == SyncSpec => []NoErrorMeansConverged
<1>1. SyncInv /\ ListInv /\ RemoveInv => NoErrorMeansConverged
  <2> SUFFICES ASSUME SyncInv, ListInv, RemoveInv, apc = "returned", Errors = {}, NEW i \in Items
               PROVE  i \in installed <=> want[i] # "absent"
    BY DEF NoErrorMeansConverged
  <2>1. outcome[i] = "ok"
    BY WhenReturned
  <2>2. CASE op # "delete"
    BY <2>1, <2>2 DEF ListInv, ReleaseOK, Settled, Reached
  <2>3. CASE op = "delete"
    BY <2>1, <2>3 DEF ListInv, Given, RemoveInv
  <2> QED BY <2>2, <2>3
<1> QED BY <1>1, SyncInvariant, ReleasesInvariant, PTL

\* A release that performSyncOrReinstallOfRelease removed and could not bring
\* back is reported as failed, and the command fails.
THEOREM LossReported == SyncSpec => []LostReleaseReported
<1>1. SyncInv /\ ListInv /\ RemoveInv => LostReleaseReported
  <2> SUFFICES ASSUME SyncInv, ListInv, RemoveInv, apc = "returned",
                      NEW i \in before \ installed, want[i] # "absent"
               PROVE  i \in affected["Failed"] \cap Errors
    BY DEF LostReleaseReported
  <2>1. i \in Items
    BY DEF SyncInv, SyncTypeOK
  <2>2. op # "delete"
    BY <2>1 DEF ListInv, Given
  <2>3. Settled(i, outcome[i] = "error")
    BY <2>1, <2>2, WhenReturned DEF ListInv, ReleaseOK
  <2> QED BY <2>1, <2>3, WhenReturned DEF Settled
<1> QED BY <1>1, SyncInvariant, ReleasesInvariant, PTL
=============================================================================
