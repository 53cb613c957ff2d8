---------------------------- MODULE SyncReleases ----------------------------
(***************************************************************************)
(* The three operations of HelmState that change releases in the cluster,  *)
(* each a loop body given to the worker pool of module ScatterGather:      *)
(*                                                                         *)
(*   "sync"           SyncReleases and performSyncOrReinstallOfRelease     *)
(*   "deleteForSync"  DeleteReleasesForSync                                *)
(*   "delete"         DeleteReleases                                       *)
(*                                                                         *)
(* Helm, the cluster and the users' hooks are external: each call succeeds *)
(* or fails.  Releases are the pool's inputs 1..N.  Preparing the values   *)
(* files (prepareSyncReleases) comes before the pool starts: not modelled. *)
(***************************************************************************)
EXTENDS ScatterGather

VARIABLES
  op,         \* which of the three operations runs
  want,       \* what the helmfile asks for each release
  before,     \* releases installed when the call started
  installed,  \* releases installed in the cluster now
  asked,      \* history: what has become of each release so far, see Asked
  m,          \* worker holding the mutex of the call, 0 if none
  bpc,        \* where each worker is in the loop body
  berr,       \* whether relErr is set
  brec,       \* list a worker is about to append its release to
  snap,       \* a list as a worker read it for an unlocked append
  affected    \* the AffectedReleases of the call

bodyVars == <<op, want, before, installed, asked, m, bpc, berr, brec, snap, affected>>
syncVars == <<poolVars, bodyVars>>

Ops   == {"sync", "deleteForSync", "delete"}
Wants == {"upgrade", "reinstallIfForbidden", "absent"}
Lists == {"Upgraded", "Reinstalled", "Deleted", "Failed", "DeleteFailed"}
\* Nothing was tried, an upgrade or uninstall was (from its first hook on), or
\* one was and then the query that was to decide how to go on failed.
Asked == {"nothing", "change", "dropped"}
BodyPc == {"idle", "presync", "query", "lock", "uninstall", "sync", "requery",
           "relock", "reuninstall", "resync", "record", "read", "write", "hooks"}

SyncInit ==
  /\ PoolInit
  /\ op \in Ops
  /\ op = "delete" <=> call.cap = 0
  /\ ~call.early
  /\ want \in [Items -> Wants]
  /\ before \in SUBSET Items
  /\ op # "sync" => before = Items /\ want = [i \in Items |-> "absent"]
  /\ installed = before
  /\ asked = [i \in Items |-> "nothing"]
  /\ m = 0
  /\ bpc = [w \in Workers |-> "idle"]
  /\ berr = [w \in Workers |-> FALSE]
  /\ brec = [w \in Workers |-> "Failed"]
  /\ snap = [w \in Workers |-> {}]
  /\ affected = [l \in Lists |-> {}]

-----------------------------------------------------------------------------
(* Shorthands for a step of worker w's loop body. *)

At(w, pc) == bpc[w] = pc
Goto(w, pc) == bpc' = [bpc EXCEPT ![w] = pc]
Fail(w) == berr' = [berr EXCEPT ![w] = TRUE]
Listed(ls, i) == affected' = [l \in Lists |-> IF l \in ls THEN affected[l] \cup {i}
                                                        ELSE affected[l]]
Fixed == UNCHANGED <<poolVars, op, want, before>>

\* After an uninstall failed, DeleteReleasesForSync and DeleteReleases fill
\* two lists, SyncReleases one.
FailLists == IF op = "sync" THEN {"Failed"} ELSE {"Failed", "DeleteFailed"}

Becomes(i, what) == asked' = [asked EXCEPT ![i] = what]

\* helm delete with its preuninstall and postuninstall hooks.  A failing hook
\* leaves the release as it is: still installed before the delete, gone after.
\* A failing helm delete may have removed the release.
UninstallFails(i) ==
  /\ installed' = installed \/ installed' = installed \ {i}
  /\ Becomes(i, "change")
UninstallSucceeds(i) ==
  /\ i \in installed
  /\ installed' = installed \ {i}
  /\ Becomes(i, "change")

\* helm upgrade --install; a failing one may have installed the release.
UpgradeFails(i) ==
  /\ installed' = installed \/ installed' = installed \cup {i}
  /\ Becomes(i, "change")
UpgradeSucceeds(i) ==
  /\ installed' = installed \cup {i}
  /\ Becomes(i, "change")

-----------------------------------------------------------------------------
(* The loop body. *)

\* A worker ranges over the job queue; DeleteReleases runs no presync hook.
Begin(w) ==
  /\ Take(w)
  /\ Goto(w, IF op = "delete" THEN "uninstall" ELSE "presync")
  /\ berr' = [berr EXCEPT ![w] = FALSE]
  /\ UNCHANGED <<op, want, before, installed, asked, m, brec, snap, affected>>

\* Seeded bug: a `continue' that skips the send on the result channel.
PresyncFailsContinues(w) ==
  /\ At(w, "presync")
  /\ WorkerFree(w)
  /\ Goto(w, "idle")
  /\ UNCHANGED <<call, sent, closed, taken, results, outcome, got, apc>>
  /\ UNCHANGED <<op, want, before, installed, asked, m, berr, brec, snap, affected>>

PresyncFails(w) ==
  /\ At(w, "presync")
  /\ Fail(w)
  /\ Goto(w, "hooks")
  /\ Fixed /\ UNCHANGED <<installed, asked, m, brec, snap, affected>>

Presync(w) ==
  /\ At(w, "presync")
  /\ Goto(w, CASE op = "deleteForSync" -> "lock"
               [] op = "sync" /\ want[wjob[w]] = "absent" -> "query"
               [] OTHER -> "sync")
  /\ Fixed /\ UNCHANGED <<installed, asked, m, berr, brec, snap, affected>>

\* Seeded bug: a release that cannot be queried is taken for absent.
QueryFailsAsAbsent(w) ==
  /\ bpc[w] \in {"query", "requery"}
  /\ Goto(w, "hooks")
  /\ Fixed /\ UNCHANGED <<installed, asked, m, berr, brec, snap, affected>>

\* isReleaseInstalled, when it fails: relErr is set, and the release joins no
\* list, not even when an upgrade has been tried before.
QueryFails(w) ==
  /\ bpc[w] \in {"query", "requery"}
  /\ IF At(w, "requery") THEN Becomes(wjob[w], "dropped") ELSE UNCHANGED asked
  /\ Fail(w)
  /\ Goto(w, "hooks")
  /\ Fixed /\ UNCHANGED <<installed, m, brec, snap, affected>>

Query(w) ==
  /\ At(w, "query")
  /\ Goto(w, IF wjob[w] \in installed THEN "lock" ELSE "hooks")
  /\ Fixed /\ UNCHANGED <<installed, asked, m, berr, brec, snap, affected>>

Requery(w) ==
  /\ At(w, "requery")
  /\ Goto(w, IF wjob[w] \in installed THEN "relock" ELSE "resync")
  /\ Fixed /\ UNCHANGED <<installed, asked, m, berr, brec, snap, affected>>

\* Seeded bug: a mutex per worker instead of one per call.
LockOwn(w) ==
  /\ bpc[w] \in {"lock", "relock"}
  /\ m' = w
  /\ Goto(w, IF At(w, "lock") THEN "uninstall" ELSE "reuninstall")
  /\ Fixed /\ UNCHANGED <<installed, asked, berr, brec, snap, affected>>

Lock(w) ==
  /\ bpc[w] \in {"lock", "relock"}
  /\ m = 0
  /\ m' = w
  /\ Goto(w, IF At(w, "lock") THEN "uninstall" ELSE "reuninstall")
  /\ Fixed /\ UNCHANGED <<installed, asked, berr, brec, snap, affected>>

\* Seeded bug: a failed uninstall returns without unlocking.
UninstallKeepsLock(w) ==
  /\ At(w, "uninstall") /\ op # "delete"
  /\ \/ /\ UninstallFails(wjob[w])
        /\ Listed(FailLists, wjob[w])
        /\ Fail(w)
        /\ UNCHANGED m
     \/ /\ UninstallSucceeds(wjob[w])
        /\ Listed({"Deleted"}, wjob[w])
        /\ m' = 0
        /\ UNCHANGED berr
  /\ Goto(w, "hooks")
  /\ Fixed /\ UNCHANGED <<brec, snap>>

\* Both SyncReleases and DeleteReleasesForSync unlock on every path.
Uninstall(w) ==
  /\ At(w, "uninstall") /\ op # "delete"
  /\ \/ /\ UninstallFails(wjob[w])
        /\ Listed(FailLists, wjob[w])
        /\ Fail(w)
     \/ /\ UninstallSucceeds(wjob[w])
        /\ Listed({"Deleted"}, wjob[w])
        /\ UNCHANGED berr
  /\ m' = 0
  /\ Goto(w, "hooks")
  /\ Fixed /\ UNCHANGED <<brec, snap>>

\* DeleteReleases has no mutex: its appends are unprotected reads and writes.
UninstallUnlocked(w) ==
  /\ At(w, "uninstall") /\ op = "delete"
  /\ \/ /\ UninstallFails(wjob[w])
        /\ Fail(w)
        /\ brec' = [brec EXCEPT ![w] = "Failed"]
     \/ /\ UninstallSucceeds(wjob[w])
        /\ UNCHANGED berr
        /\ brec' = [brec EXCEPT ![w] = "Deleted"]
  /\ Goto(w, "read")
  /\ Fixed /\ UNCHANGED <<m, snap, affected>>

ReadList(w) ==
  /\ At(w, "read")
  /\ snap' = [snap EXCEPT ![w] = affected[brec[w]]]
  /\ Goto(w, "write")
  /\ Fixed /\ UNCHANGED <<installed, asked, m, berr, brec, affected>>

WriteList(w) ==
  /\ At(w, "write")
  /\ affected' = [affected EXCEPT ![brec[w]] = snap[w] \cup {wjob[w]}]
  /\ IF brec[w] = "Failed"
     THEN brec' = [brec EXCEPT ![w] = "DeleteFailed"] /\ Goto(w, "read")
     ELSE UNCHANGED brec /\ Goto(w, "hooks")
  /\ Fixed /\ UNCHANGED <<installed, asked, m, berr, snap>>

\* helm.SyncRelease, the first time.
Sync(w) ==
  /\ At(w, "sync")
  /\ UpgradeSucceeds(wjob[w])
  /\ brec' = [brec EXCEPT ![w] = "Upgraded"]
  /\ Goto(w, "record")
  /\ Fixed /\ UNCHANGED <<m, berr, snap, affected>>

SyncFails(w) ==
  /\ At(w, "sync")
  /\ UpgradeFails(wjob[w])
  /\ brec' = [brec EXCEPT ![w] = "Failed"]
  /\ Fail(w)
  /\ Goto(w, "record")
  /\ Fixed /\ UNCHANGED <<m, snap, affected>>

\* Seeded bug: the failure that leads to a reinstall is listed already.
SyncForbiddenListed(w) ==
  /\ At(w, "sync")
  /\ want[wjob[w]] = "reinstallIfForbidden"
  /\ UpgradeFails(wjob[w])
  /\ Listed({"Failed"}, wjob[w])
  /\ Goto(w, "requery")
  /\ Fixed /\ UNCHANGED <<m, berr, brec, snap>>

\* "Forbidden: updates": the update strategy allows to reinstall the release.
SyncForbidden(w) ==
  /\ At(w, "sync")
  /\ want[wjob[w]] = "reinstallIfForbidden"
  /\ UpgradeFails(wjob[w])
  /\ Goto(w, "requery")
  /\ Fixed /\ UNCHANGED <<m, berr, brec, snap, affected>>

\* The returns of performSyncOrReinstallOfRelease after a failed uninstall do
\* not unlock the mutex.
ReUninstallFails(w) ==
  /\ At(w, "reuninstall")
  /\ UninstallFails(wjob[w])
  /\ Listed({"Failed"}, wjob[w])
  /\ Fail(w)
  /\ Goto(w, "hooks")
  /\ Fixed /\ UNCHANGED <<m, brec, snap>>

ReUninstall(w) ==
  /\ At(w, "reuninstall")
  /\ UninstallSucceeds(wjob[w])
  /\ m' = 0
  /\ Goto(w, "resync")
  /\ Fixed /\ UNCHANGED <<berr, brec, snap, affected>>

ReSync(w) ==
  /\ At(w, "resync")
  /\ UpgradeSucceeds(wjob[w])
  /\ brec' = [brec EXCEPT ![w] = "Reinstalled"]
  /\ Goto(w, "record")
  /\ Fixed /\ UNCHANGED <<m, berr, snap, affected>>

\* Seeded bug: the second upgrade's failure is only logged.
ReSyncFailsLogged(w) ==
  /\ At(w, "resync")
  /\ UpgradeFails(wjob[w])
  /\ Goto(w, "hooks")
  /\ Fixed /\ UNCHANGED <<m, berr, brec, snap, affected>>

ReSyncFails(w) ==
  /\ At(w, "resync")
  /\ UpgradeFails(wjob[w])
  /\ brec' = [brec EXCEPT ![w] = "Failed"]
  /\ Fail(w)
  /\ Goto(w, "record")
  /\ Fixed /\ UNCHANGED <<m, snap, affected>>

\* m.Lock(); append; m.Unlock()
Record(w) ==
  /\ At(w, "record")
  /\ m = 0
  /\ Listed({brec[w]}, wjob[w])
  /\ Goto(w, "hooks")
  /\ Fixed /\ UNCHANGED <<installed, asked, m, berr, brec, snap>>

\* postsync and cleanup hooks: their failure is the release's failure in
\* SyncReleases, a warning in DeleteReleasesForSync; DeleteReleases runs none.
End(w) ==
  /\ At(w, "hooks")
  /\ \E hookFails \in BOOLEAN :
       /\ hookFails => op = "sync"
       /\ Work(w, berr[w] \/ hookFails)
  /\ Goto(w, "idle")
  /\ UNCHANGED <<op, want, before, installed, asked, m, berr, brec, snap, affected>>

Body(w) ==
  \/ PresyncFails(w) \/ Presync(w)
  \/ QueryFails(w) \/ Query(w) \/ Requery(w)
  \/ Lock(w) \/ Uninstall(w) \/ UninstallUnlocked(w) \/ ReadList(w) \/ WriteList(w)
  \/ Sync(w) \/ SyncFails(w) \/ SyncForbidden(w)
  \/ ReUninstall(w) \/ ReUninstallFails(w) \/ ReSync(w) \/ ReSyncFails(w)
  \/ Record(w)

Producer   == (Produce \/ CloseJobs) /\ UNCHANGED bodyVars
Aggregator == (GatherDone \/ WaitDone \/ \E i \in Items : Gather(i)) /\ UNCHANGED bodyVars
Deliver(w) == (PutResult(w) \/ HandResult(w) \/ Stop(w)) /\ UNCHANGED bodyVars

SyncNext ==
  \/ Producer \/ Aggregator
  \/ \E w \in Workers : Begin(w) \/ Body(w) \/ End(w) \/ Deliver(w)
  \/ apc = "returned" /\ UNCHANGED syncVars

SyncSpec == SyncInit /\ [][SyncNext]_syncVars

\* The scheduler runs every goroutine that can run, helm and hooks return.  A
\* goroutine waiting for the mutex is never overtaken for ever: there are
\* finitely many releases to lock it for.
FairSyncSpec ==
  /\ SyncSpec
  /\ WF_syncVars(Producer) /\ WF_syncVars(Aggregator)
  /\ \A w \in Workers : WF_syncVars(Begin(w) \/ Body(w) \/ End(w) \/ Deliver(w))

-----------------------------------------------------------------------------
(* Properties *)

SyncTypeOK ==
  /\ op \in Ops /\ want \in [Items -> Wants]
  /\ before \subseteq Items /\ installed \subseteq Items
  /\ asked \in [Items -> Asked]
  /\ m \in 0..MaxWidth
  /\ bpc \in [Workers -> BodyPc]
  /\ berr \in [Workers -> BOOLEAN]
  /\ brec \in [Workers -> Lists]
  /\ snap \in [Workers -> SUBSET Items]
  /\ affected \in [Lists -> SUBSET Items]

\* helm delete and its hooks never run for two releases at a time within a
\* sync or apply, not even for the reinstall of one and the removal of another.
UninstallsSerialised ==
  op # "delete" =>
    \A w \in Workers : bpc[w] \in {"uninstall", "reuninstall"} => m = w

\* What the summary says of a release is true of the cluster, and no release is
\* listed both as changed and as failed.
Truthful ==
  LET Changed == affected["Upgraded"] \cup affected["Reinstalled"] IN
  /\ Changed \subseteq installed
  /\ affected["Deleted"] \cap installed = {}
  /\ affected["Upgraded"] \cap affected["Reinstalled"] = {}
  /\ (Changed \cup affected["Deleted"]) \cap affected["Failed"] = {}
  /\ affected["DeleteFailed"] \subseteq affected["Failed"] \/ op = "delete"

\* In a sync or an apply the summary lists every release helm was asked to
\* change, but for the one whose second query failed: that one is among the
\* errors alone.  Success without a call of helm means there was nothing to do.
ChangesListed ==
  \A i \in Items :
    CASE asked[i] = "change"  -> \E l \in Lists : i \in affected[l]
      [] asked[i] = "dropped" -> i \in Errors
      [] asked[i] = "nothing" -> i \in Errors \/ (want[i] = "absent" /\ i \notin before)

\* DeleteReleases appends without a mutex, and what one worker lists another
\* may undo: with one worker nothing is missing, with several a list that
\* should have entries has some.
RemovalsListed ==
  /\ Errors # {} => affected["Failed"] # {} /\ affected["DeleteFailed"] # {}
  /\ Errors # Items => affected["Deleted"] # {}
  /\ Width(call) = 1 =>
       /\ affected["Failed"] = Errors /\ affected["DeleteFailed"] = Errors
       /\ affected["Deleted"] = Items \ Errors

\* What the summary owes its reader when the call returns.  A release that is
\* listed as failed makes the command fail.
Complete ==
  /\ affected["Failed"] \subseteq Errors
  /\ IF op = "delete" THEN RemovalsListed ELSE ChangesListed

\* The summary of affected releases is true of the cluster at every moment, and
\* when the call returns it lists as failed only what the command fails for and
\* leaves out of what helm was asked to change only what the code is known to
\* lose: a release dropped after a forbidden upgrade, and entries of a destroy
\* or delete by several workers.
SummaryExact == Truthful /\ (apc = "returned" => Complete)

\* A command that reports no error has brought the cluster to the desired state.
NoErrorMeansConverged ==
  apc = "returned" /\ Errors = {} =>
    \A i \in Items : i \in installed <=> want[i] # "absent"

\* A release the reinstall strategy removed and could not bring back is
\* reported as failed: it never disappears silently.
LostReleaseReported ==
  apc = "returned" =>
    \A i \in before \ installed : want[i] # "absent" => i \in affected["Failed"] \cap Errors

\* A failed reinstall has leaked the mutex.
ReinstallLeaked ==
  m # 0 /\ \E i \in affected["Failed"] : want[i] = "reinstallIfForbidden"

\* The call returns, unless a failed reinstall has leaked the mutex: no other
\* path of the loop body keeps it.
ReturnsUnlessLeaked == <>(apc = "returned" \/ ReinstallLeaked)

\* Whatever the loop body does, the pool underneath behaves as module
\* ScatterGather says: the results of that module hold for these operations.
ImplementsPool == PoolSpec
=============================================================================
