------------------------------- MODULE Converge -------------------------------
(* What sync, apply and destroy do with the releases of one state file: they *)
(* select them, plan an order that respects what each release needs, find    *)
(* out what is to be deleted and what to be updated, and then go through the *)
(* plan, one batch after the other: deletions first, dependents before what  *)
(* they need, and updates afterwards the other way round.                    *)
(*                                                                           *)
(* A batch is handed to DeleteReleases, DeleteReleasesForSync or SyncReleases, *)
(* whose inner steps are those of module SyncReleases: every release of the  *)
(* batch is processed, in any order, and the errors are returned.            *)
EXTENDS Integers, FiniteSets

CONSTANTS
  Entries,   \* the releases as they are listed in the state file
  Ids,       \* what ReleaseToID tells of them: context, namespace and name
  IdOf,      \* the id of an entry; several entries may have the same
  Inputs     \* what a run may be given, see Input

Commands == {"sync", "apply", "destroy"}

\* matching are the entries the selectors and conditions select, desired those
\* that are not installed: false, changed those helm diff shows a change of, and
\* installed the releases in the cluster when the run starts.
Input ==
  [command : Commands, matching : SUBSET Entries, desired : SUBSET Entries, changed : SUBSET Entries,
   needs : [Entries -> SUBSET Ids], installed : SUBSET Ids,
   skipNeeds : BOOLEAN, includeNeeds : BOOLEAN, transitive : BOOLEAN, interactive : BOOLEAN]

ASSUME ConvergeAssumption ==
  /\ IdOf \in [Entries -> Ids]
  /\ Inputs \subseteq Input

VARIABLES
  input,
  phase,
  releases,  \* st.Releases, over which plans are made
  planned,   \* the selected releases with the needs that are to be included
  toDelete, toUpdate,
  left,      \* the ids of the current plan that are in no batch yet
  batch,     \* the entries of the current batch that are not processed yet
  halted,    \* an entry of the current traversal has failed
  cluster,   \* the releases in the cluster
  deleted, updated,  \* the entries processed with success
  failed,            \* and those processed with an error
  errs       \* the run returns an error

vars == <<input, phase, releases, planned, toDelete, toUpdate, left, batch, halted, cluster,
          deleted, updated, failed, errs>>
decided  == <<input, releases, planned, toDelete, toUpdate>>
progress == <<left, batch, halted, cluster, deleted, updated, failed>>

Phase == {"select", "plan", "detect", "confirm", "preapply", "deleting", "updating", "returned"}

IdsOf(E)     == {IdOf[e] : e \in E}
EntriesOf(I) == {e \in Entries : IdOf[e] \in I}
NeedsOf(E)   == UNION {input.needs[e] : e \in E}

ConvInit ==
  /\ input \in Inputs
  /\ phase = "select"
  /\ releases = Entries /\ planned = {} /\ toDelete = {} /\ toUpdate = {}
  /\ left = {} /\ batch = {} /\ halted = FALSE
  /\ cluster = input.installed
  /\ deleted = {} /\ updated = {} /\ failed = {}
  /\ errs = FALSE

----------------------------------------------------------------------------
(* Selection                                                                 *)

\* The needs of the entries, the needs of those, and so on.
NeedsAndTransitives(E) ==
  {i \in Ids : \A I \in SUBSET Ids :
     NeedsOf(E) \cup NeedsOf(EntriesOf(I)) \subseteq I => i \in I}

Selected ==
  input.matching \cup
    IF input.transitive /\ input.command # "destroy"
    THEN EntriesOf(NeedsAndTransitives(input.matching)) ELSE {}

Unique(e) == \A d \in Entries : IdOf[d] = IdOf[e] => d = e

\* Mutant: the list is left as it is.
NotDeduplicated == Entries

\* Of several entries with one id only the selected one is kept, if there is.
Deduplicated == {e \in Entries : Unique(e) \/ e \in Selected}

Return(e) == phase' = "returned" /\ errs' = e

NothingSelected ==
  /\ phase = "select"
  /\ Selected = {}
  /\ Return(FALSE)
  /\ UNCHANGED <<decided, progress>>

DuplicatesSelected ==
  /\ phase = "select"
  /\ \E d, e \in Selected : d # e /\ IdOf[d] = IdOf[e]
  /\ Return(TRUE)
  /\ UNCHANGED <<decided, progress>>

\* A selector or a condition cannot be evaluated.
SelectFails ==
  /\ phase = "select"
  /\ Return(TRUE)
  /\ UNCHANGED <<decided, progress>>

\* destroy goes on with all the entries and takes no needs along.
Select ==
  /\ phase = "select"
  /\ Selected # {}
  /\ \A d, e \in Selected : IdOf[d] = IdOf[e] => d = e
  /\ IF input.command = "destroy"
     THEN /\ phase' = "detect" /\ planned' = Selected /\ UNCHANGED releases
     ELSE /\ phase' = "plan" /\ releases' = Deduplicated /\ UNCHANGED planned
  /\ UNCHANGED <<input, toDelete, toUpdate, errs, progress>>

----------------------------------------------------------------------------
(* The plan                                                                  *)

\* What the graph library makes of the options: the ids of the selected
\* releases, and with --include-needs what they need.
PlannedIds ==
  IdsOf(Selected) \cup (IF input.includeNeeds THEN NeedsOf(Selected) ELSE {})

\* Mutant: circles go unnoticed.
NeverCircular(I) == FALSE

\* No order exists if some releases need one another in a circle.
Circular(I) ==
  \E S \in SUBSET I : S # {} /\ \A i \in S : NeedsOf(releases \cap EntriesOf({i})) \cap S # {}

\* A need that is not planned is an error, unless needs are skipped, and so is
\* a need to be included that is no release.
CanPlan ==
  /\ ~Circular(PlannedIds)
  /\ PlannedIds \subseteq IdsOf(releases)
  /\ ~input.skipNeeds /\ ~input.includeNeeds => NeedsOf(Selected) \subseteq IdsOf(Selected)

\* A defect of the graph that does not concern the plan may be an error or not.
Defective == Circular(IdsOf(releases)) \/ ~(NeedsOf(releases) \subseteq IdsOf(releases))

\* Mutant: everything that is listed is planned.
PlanAll ==
  /\ phase = "plan"
  /\ CanPlan
  /\ phase' = "detect"
  /\ planned' = releases
  /\ UNCHANGED <<input, releases, toDelete, toUpdate, errs, progress>>

Plan ==
  /\ phase = "plan"
  /\ CanPlan
  /\ phase' = "detect"
  /\ planned' = releases \cap EntriesOf(PlannedIds)
  /\ UNCHANGED <<input, releases, toDelete, toUpdate, errs, progress>>

PlanFails ==
  /\ phase = "plan"
  /\ ~CanPlan \/ Defective
  /\ Return(TRUE)
  /\ UNCHANGED <<decided, progress>>

----------------------------------------------------------------------------
(* What is to be done                                                        *)

InCluster(E) == {e \in E : IdOf[e] \in cluster}

\* sync updates whatever is desired, apply what has changed, and both delete
\* what is there and not desired; destroy deletes what is there.
Detect ==
  /\ phase = "detect"
  /\ phase' = "confirm"
  /\ toDelete' = InCluster(IF input.command = "destroy" THEN planned ELSE planned \ input.desired)
  /\ toUpdate' = CASE input.command = "sync"    -> planned \cap input.desired
                   [] input.command = "apply"   -> planned \cap input.desired \cap input.changed
                   [] input.command = "destroy" -> {}
  /\ UNCHANGED <<input, releases, planned, errs, progress>>

\* The state of a release cannot be queried, or helm diff fails.
DetectFails ==
  /\ phase = "detect"
  /\ Return(TRUE)
  /\ UNCHANGED <<decided, progress>>

Confirm ==
  /\ phase = "confirm"
  /\ phase' = IF input.command = "apply" THEN "preapply" ELSE "deleting"
  /\ left' = IF input.command = "apply" THEN {} ELSE IdsOf(toDelete)
  /\ UNCHANGED <<decided, batch, halted, cluster, deleted, updated, failed, errs>>

Decline ==
  /\ phase = "confirm"
  /\ input.interactive
  /\ Return(FALSE)
  /\ UNCHANGED <<decided, progress>>

\* The preapply hooks of all planned releases run before anything is touched.
Preapply ==
  /\ phase = "preapply"
  /\ phase' = "deleting"
  /\ left' = IdsOf(toDelete)
  /\ UNCHANGED <<decided, batch, halted, cluster, deleted, updated, failed, errs>>

PreapplyFails ==
  /\ phase = "preapply"
  /\ Return(TRUE)
  /\ UNCHANGED <<decided, progress>>

----------------------------------------------------------------------------
(* withDAG and withBatches                                                   *)

Processed == deleted \cup updated \cup failed

\* Mutant: deletions are made in the order of updates.
WaitsForNeeds(i) ==
  NeedsOf(releases \cap EntriesOf({i})) \cap IdsOf(IF phase = "deleting" THEN toDelete ELSE toUpdate)

\* The ids an id waits for: what it needs, among the releases to be updated, or
\* what needs it, among those to be deleted.
WaitsFor(i) ==
  IF phase = "deleting"
  THEN {j \in IdsOf(toDelete) : i \in NeedsOf(releases \cap EntriesOf({j}))}
  ELSE NeedsOf(releases \cap EntriesOf({i})) \cap IdsOf(toUpdate)

\* Mutant: the batches after one with an error are processed all the same.
NextBatchRegardless ==
  /\ phase \in {"deleting", "updating"}
  /\ batch = {} /\ ~Circular(left)
  /\ \E I \in SUBSET left :
       /\ I # {}
       /\ \A i \in I : WaitsFor(i) \cap left = {}
       /\ left' = left \ I
       /\ batch' = releases \cap EntriesOf(I)
  /\ UNCHANGED <<decided, phase, halted, cluster, deleted, updated, failed, errs>>

\* A batch is what the plan has next: a group of ids all of whose predecessors
\* were in earlier batches. All releases of these ids belong to it.
NextBatch ==
  /\ phase \in {"deleting", "updating"}
  /\ batch = {} /\ ~halted /\ ~Circular(left)
  /\ \E I \in SUBSET left :
       /\ I # {}
       /\ \A i \in I : WaitsFor(i) \cap left = {}
       /\ left' = left \ I
       /\ batch' = releases \cap EntriesOf(I)
  /\ UNCHANGED <<decided, phase, halted, cluster, deleted, updated, failed, errs>>

\* Helm cannot uninstall what is not there.
Delete(e) ==
  /\ phase = "deleting"
  /\ e \in batch
  /\ IdOf[e] \in cluster
  /\ batch' = batch \ {e}
  /\ cluster' = cluster \ {IdOf[e]}
  /\ deleted' = deleted \cup {e}
  /\ UNCHANGED <<decided, phase, left, halted, updated, failed, errs>>

Upgrade(e) ==
  /\ phase = "updating"
  /\ e \in batch
  /\ batch' = batch \ {e}
  /\ cluster' = cluster \cup {IdOf[e]}
  /\ updated' = updated \cup {e}
  /\ UNCHANGED <<decided, phase, left, halted, deleted, failed, errs>>

\* A hook or helm fails, before or after the release is changed; a release may
\* be uninstalled for an update as well, to be installed again. The others of the
\* batch go on, the next batch does not.
Fails(e) ==
  /\ e \in batch
  /\ batch' = batch \ {e}
  /\ failed' = failed \cup {e}
  /\ halted' = TRUE
  /\ \/ UNCHANGED cluster
     \/ cluster' = cluster \ {IdOf[e]}
     \/ phase = "updating" /\ cluster' = cluster \cup {IdOf[e]}
  /\ UNCHANGED <<decided, phase, left, deleted, updated, errs>>

\* sync and apply have found an order for these releases before; destroy may not.
OrderFails ==
  /\ phase = "deleting"
  /\ input.command = "destroy"
  /\ Defective
  /\ toDelete # {} /\ left = IdsOf(toDelete) /\ batch = {}
  /\ Return(TRUE)
  /\ UNCHANGED <<decided, progress>>

TraversalOver == batch = {} /\ (left = {} \/ halted)

\* Errors of the deletions do not keep the updates from being made.
DeletionsEnd ==
  /\ phase = "deleting"
  /\ TraversalOver
  /\ phase' = "updating"
  /\ left' = IdsOf(toUpdate)
  /\ halted' = FALSE
  /\ errs' = (errs \/ halted)
  /\ UNCHANGED <<decided, batch, cluster, deleted, updated, failed>>

\* Mutant: the errors of the updates replace those of the deletions.
UpdatesOverwrite ==
  /\ phase = "updating"
  /\ TraversalOver
  /\ Return(halted)
  /\ UNCHANGED <<decided, progress>>

UpdatesEnd ==
  /\ phase = "updating"
  /\ TraversalOver
  /\ Return(errs \/ halted)
  /\ UNCHANGED <<decided, progress>>

Returned == phase = "returned" /\ UNCHANGED vars

ConvStep ==
  \/ NothingSelected \/ DuplicatesSelected \/ SelectFails \/ Select \/ Plan \/ PlanFails \/ Detect \/ DetectFails
  \/ Confirm \/ Decline \/ Preapply \/ PreapplyFails \/ OrderFails \/ NextBatch \/ DeletionsEnd \/ UpdatesEnd
  \/ \E e \in Entries : Delete(e) \/ Upgrade(e) \/ Fails(e)

ConvNext == ConvStep \/ Returned
ConvSpec == ConvInit /\ [][ConvNext]_vars

\* Helm and the user answer at some time.
FairConvSpec == ConvSpec /\ WF_vars(ConvStep)

----------------------------------------------------------------------------
(* Properties                                                                *)

ConvTypeOK ==
  /\ input \in Input
  /\ phase \in Phase
  /\ {releases, planned, toDelete, toUpdate, batch, deleted, updated, failed} \subseteq SUBSET Entries
  /\ toDelete \cap toUpdate = {}
  /\ {left, cluster} \subseteq SUBSET Ids
  /\ halted \in BOOLEAN /\ errs \in BOOLEAN

\* A release is upgraded, or tried to be, only when every release it needs that
\* is to be updated in the same run has been upgraded with success.
NeedsFirst ==
  \A e \in updated \cup (failed \cap toUpdate) : \A n \in toUpdate :
    IdOf[n] \in input.needs[e] => n \in updated

\* A release is uninstalled only when all that need it, and are to be deleted in
\* the same run, are gone.
DependentsFirst ==
  \A e \in deleted : \A d \in toDelete :
    IdOf[e] \in input.needs[d] => IdOf[d] \notin cluster

\* Only releases that were selected are touched, or needed by them if needs are
\* to be included, or needed in turn with transitive needs. Of a release that is
\* listed twice destroy touches the entry that was not selected as well.
OnlySelectedTouched ==
  \A e \in Processed :
    \/ e \in input.matching
    \/ input.command = "destroy" /\ IdOf[e] \in IdsOf(input.matching)
    \/ input.includeNeeds /\ IdOf[e] \in NeedsOf(Selected)
    \/ input.transitive /\ IdOf[e] \in NeedsAndTransitives(input.matching)

\* A run that was not declined and returns no error has left the cluster as the
\* state file wants it, as far as it was selected.
SuccessMeansConverged ==
  (phase = "returned" /\ ~errs /\ ~input.interactive) =>
    /\ \A e \in Selected \cap input.desired :
         CASE input.command = "sync"    -> e \in updated /\ IdOf[e] \in cluster
           [] input.command = "apply"   -> e \in input.changed => e \in updated /\ IdOf[e] \in cluster
           [] input.command = "destroy" -> IdOf[e] \notin cluster
    /\ \A e \in Selected \ input.desired : IdOf[e] \notin cluster

\* No release is processed twice in a run, although it may be listed twice: true
\* of sync and apply, while destroy drops the list without duplicates.
OncePerRelease ==
  input.command # "destroy" =>
    \A d, e \in Processed \cup batch : IdOf[d] = IdOf[e] => d = e

\* Every run returns: as long as nothing has failed there is always a next batch,
\* whatever needs what.
RunReturns == <>(phase = "returned")
=============================================================================
