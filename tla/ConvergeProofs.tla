---------------------------- MODULE ConvergeProofs ----------------------------
(* sync, apply and destroy keep the order of the needs in both directions, no  *)
(* release is processed twice by sync or apply, and a run that returns no error *)
(* has done what it was asked to: for any number of releases, any needs, any   *)
(* selection and any failures.                                                 *)
EXTENDS Converge, TLAPS

\* Which ids the entries of a set have, which entries the ids, and what they need.
LEMMA IdsFact ==
  ASSUME NEW E, NEW i
  PROVE  i \in IdsOf(E) <=> \E e \in E : IdOf[e] = i
BY DEF IdsOf

LEMMA EntriesFact ==
  ASSUME NEW I, NEW e \in Entries
  PROVE  e \in EntriesOf(I) <=> IdOf[e] \in I
BY DEF EntriesOf

LEMMA NeedsFact ==
  ASSUME NEW E, NEW i
  PROVE  i \in NeedsOf(E) <=> \E e \in E : i \in input.needs[e]
BY Zenon DEF NeedsOf

----------------------------------------------------------------------------
(* The invariant.                                                            *)

\* Of the releases plans are made over, no two have the same id.
Distinct == \A d, e \in releases : IdOf[d] = IdOf[e] => d = e

Untouched == left = {} /\ batch = {} /\ deleted = {} /\ updated = {} /\ failed = {}

\* Nothing is touched before the run is confirmed; sync and apply have removed
\* the duplicates when they make a plan; destroy has not, and updates nothing.
Planning ==
  /\ phase \in {"select", "plan", "detect", "confirm", "preapply"} => Untouched
  /\ phase = "select" => planned = {} /\ toDelete = {} /\ toUpdate = {}
  /\ phase = "returned" => batch = {}
  /\ input.command # "destroy" => Distinct \/ (Untouched /\ phase \in {"select", "returned"})
  /\ input.command = "destroy" => releases = Entries /\ toUpdate = {}
  /\ planned \subseteq releases /\ toDelete \subseteq releases /\ toUpdate \subseteq releases

\* What a traversal has come to: an id of its plan is left, or in the batch, or
\* done with, unless something failed; and what the batch waited for is done with.
Deleting ==
  phase = "deleting" =>
    /\ updated = {} /\ failed \cap toUpdate = {}
    /\ \A i \in left : \E d \in toDelete : IdOf[d] = i
    /\ \A e \in batch : e \in releases /\ \E d \in toDelete : IdOf[d] = IdOf[e]
    /\ ~halted => \A d \in toDelete :
         IdOf[d] \in left \/ IdOf[d] \notin cluster \/ \E e \in batch : IdOf[e] = IdOf[d]
    /\ \A e \in batch : \A d \in toDelete : IdOf[e] \in input.needs[d] => IdOf[d] \notin cluster

Updating ==
  phase = "updating" =>
    /\ \A i \in left : \E n \in toUpdate : IdOf[n] = i
    /\ batch \subseteq toUpdate
    /\ ~halted => \A n \in toUpdate : IdOf[n] \in left \/ n \in batch \/ n \in updated
    /\ \A e \in batch : \A n \in toUpdate : IdOf[n] \in input.needs[e] => n \in updated

Listed == deleted \cup updated \cup failed \cup batch \subseteq releases

OrderInv == ConvTypeOK /\ Planning /\ Deleting /\ Updating /\ Listed /\ NeedsFirst /\ DependentsFirst

----------------------------------------------------------------------------
(* Types.                                                                    *)

\* The type invariant, variable by variable.
LEMMA TypeFacts ==
  ConvTypeOK <=>
    /\ input \in Input /\ phase \in Phase
    /\ releases \subseteq Entries /\ planned \subseteq Entries
    /\ toDelete \subseteq Entries /\ toUpdate \subseteq Entries /\ batch \subseteq Entries
    /\ deleted \subseteq Entries /\ updated \subseteq Entries /\ failed \subseteq Entries
    /\ toDelete \cap toUpdate = {}
    /\ left \subseteq Ids /\ cluster \subseteq Ids
    /\ halted \in BOOLEAN /\ errs \in BOOLEAN
BY DEF ConvTypeOK

\* Ids are ids and entries are entries.
LEMMA IdsType ==
  ASSUME NEW E \in SUBSET Entries
  PROVE  IdsOf(E) \subseteq Ids
BY ConvergeAssumption DEF IdsOf

LEMMA EntriesType == ASSUME NEW I PROVE EntriesOf(I) \subseteq Entries
BY DEF EntriesOf

\* What is selected is listed, also with transitive needs.
LEMMA SelectedType == ConvTypeOK => Selected \subseteq Entries
<1> SUFFICES ASSUME ConvTypeOK PROVE Selected \subseteq Entries
  OBVIOUS
<1>1. input.matching \subseteq Entries
  BY DEF ConvTypeOK, Input
<1> QED BY <1>1, EntriesType DEF Selected

\* The types hold at the start.
LEMMA ConvTypeInit == ConvInit => ConvTypeOK
<1> SUFFICES ASSUME ConvInit PROVE ConvTypeOK
  OBVIOUS
<1>1. input \in Input
  BY ConvergeAssumption DEF ConvInit
<1>2. cluster \subseteq Ids
  BY <1>1 DEF ConvInit, Input
<1> QED BY <1>1, <1>2, TypeFacts DEF ConvInit, Phase

----------------------------------------------------------------------------
(* Facts about the plans.                                                    *)

Underway == phase \notin {"select", "returned"}

\* Where something is updated, an id stands for one release of the plan.
LEMMA SameEntry ==
  ASSUME OrderInv, Underway, NEW n \in toUpdate, NEW e \in releases, IdOf[e] = IdOf[n]
  PROVE  e = n
BY DEF OrderInv, Planning, Distinct, Underway

\* No release is to be deleted and to be updated, under the same id or another.
LEMMA NotBoth ==
  ASSUME OrderInv, Underway, NEW d \in toDelete, NEW n \in toUpdate
  PROVE  IdOf[d] # IdOf[n]
<1>1. d \in releases /\ d # n
  BY DEF OrderInv, Planning, ConvTypeOK
<1> QED BY <1>1, SameEntry

\* Removing the duplicates leaves no two entries of one id.
LEMMA DeduplicatedDistinct ==
  ASSUME \A d, e \in Selected : IdOf[d] = IdOf[e] => d = e,
         NEW d \in Deduplicated, NEW e \in Deduplicated, IdOf[d] = IdOf[e]
  PROVE  d = e
BY DEF Deduplicated, Unique

\* What the ids wait for, release by release.
LEMMA WaitsDeleting ==
  ASSUME OrderInv, phase = "deleting", NEW i, NEW d \in toDelete, i \in input.needs[d]
  PROVE  IdOf[d] \in WaitsFor(i)
<1>1. d \in releases /\ d \in Entries
  BY DEF OrderInv, Planning, ConvTypeOK
<1>2. d \in releases \cap EntriesOf({IdOf[d]})
  BY <1>1, EntriesFact
<1>3. i \in NeedsOf(releases \cap EntriesOf({IdOf[d]}))
  BY <1>2, NeedsFact
<1>4. IdOf[d] \in IdsOf(toDelete)
  BY IdsFact
<1> QED BY <1>3, <1>4 DEF WaitsFor

\* The same for updates.
LEMMA WaitsUpdating ==
  ASSUME OrderInv, phase = "updating", NEW e \in releases, NEW n \in toUpdate, IdOf[n] \in input.needs[e]
  PROVE  IdOf[n] \in WaitsFor(IdOf[e])
<1>1. e \in releases \cap EntriesOf({IdOf[e]})
  BY EntriesFact DEF OrderInv, ConvTypeOK
<1>2. IdOf[n] \in NeedsOf(releases \cap EntriesOf({IdOf[e]}))
  BY <1>1, NeedsFact
<1>3. IdOf[n] \in IdsOf(toUpdate)
  BY IdsFact
<1> QED BY <1>2, <1>3 DEF WaitsFor

----------------------------------------------------------------------------
(* The steps before anything is touched, and those that return.              *)

Ends ==
  \/ NothingSelected \/ DuplicatesSelected \/ SelectFails \/ PlanFails \/ DetectFails
  \/ Decline \/ PreapplyFails \/ OrderFails \/ UpdatesEnd

\* The invariant holds at the start.
LEMMA OrderInit == ConvInit => OrderInv
<1> SUFFICES ASSUME ConvInit PROVE OrderInv
  OBVIOUS
<1>1. ConvTypeOK
  BY ConvTypeInit
<1>2. Planning
  BY DEF ConvInit, Planning, Untouched
<1>3. Deleting /\ Updating /\ Listed
  BY DEF ConvInit, Deleting, Updating, Listed
<1>4. NeedsFirst /\ DependentsFirst
  BY DEF ConvInit, NeedsFirst, DependentsFirst
<1> QED BY <1>1, <1>2, <1>3, <1>4 DEF OrderInv

\* A run that returns leaves everything as it is.
LEMMA EndsFact ==
  ASSUME OrderInv, Ends
  PROVE  phase' = "returned" /\ errs' \in BOOLEAN /\ UNCHANGED <<decided, progress>> /\ batch = {}
BY DEF Ends, NothingSelected, DuplicatesSelected, SelectFails, PlanFails, DetectFails,
   Decline, PreapplyFails, OrderFails, UpdatesEnd, TraversalOver, Return,
   OrderInv, ConvTypeOK, Planning, Untouched

\* Returning keeps the invariant.
LEMMA EndsKeeps == OrderInv /\ Ends => OrderInv'
<1> SUFFICES ASSUME OrderInv, Ends PROVE OrderInv'
  OBVIOUS
<1>1. phase' = "returned" /\ errs' \in BOOLEAN /\ UNCHANGED <<decided, progress>> /\ batch = {}
  BY EndsFact
<1>2. ConvTypeOK'
  BY <1>1 DEF OrderInv, ConvTypeOK, decided, progress, Phase
<1>3. Planning'
  BY <1>1 DEF OrderInv, Planning, Untouched, Distinct, decided, progress
<1>4. Deleting' /\ Updating'
  BY <1>1 DEF Deleting, Updating
<1>5. Listed'
  BY <1>1 DEF OrderInv, Listed, decided, progress
<1>6. NeedsFirst' /\ DependentsFirst'
  BY <1>1 DEF OrderInv, NeedsFirst, DependentsFirst, decided, progress
<1> QED BY <1>2, <1>3, <1>4, <1>5, <1>6 DEF OrderInv

\* A step of the planning touches no release.
LEMMA UntouchedKeeps ==
  ASSUME OrderInv, Untouched, UNCHANGED progress, phase' \in {"plan", "detect", "confirm"}
  PROVE  Untouched' /\ Deleting' /\ Updating' /\ Listed' /\ NeedsFirst' /\ DependentsFirst'
<1>1. Untouched' /\ Deleting' /\ Updating' /\ Listed'
  BY DEF Untouched, progress, Deleting, Updating, Listed
<1>2. NeedsFirst' /\ DependentsFirst'
  BY DEF Untouched, progress, NeedsFirst, DependentsFirst
<1> QED BY <1>1, <1>2

\* Selecting, and removing the duplicates.
LEMMA SelectKeeps == OrderInv /\ Select => OrderInv'
<1> SUFFICES ASSUME OrderInv, Select PROVE OrderInv'
  OBVIOUS
<1>0. Untouched /\ UNCHANGED progress /\ phase' \in {"plan", "detect"} /\ UNCHANGED <<input, toDelete, toUpdate, errs>>
  BY DEF Select, OrderInv, Planning
<1>1. releases' \subseteq Entries /\ planned' \subseteq Entries
  BY SelectedType DEF Select, Deduplicated, OrderInv, ConvTypeOK
<1>2. ConvTypeOK'
  BY <1>0, <1>1 DEF OrderInv, ConvTypeOK, progress, Phase
<1>3. phase = "select" /\ planned = {} /\ toDelete = {} /\ toUpdate = {}
  BY DEF Select, OrderInv, Planning
<1>4. CASE input.command = "destroy"
  <2>1. releases' = releases /\ releases = Entries /\ planned' = Selected /\ Selected \subseteq Entries
    BY <1>4, SelectedType DEF Select, OrderInv, Planning
  <2> QED BY <1>0, <1>3, <1>4, <2>1, UntouchedKeeps, <1>2 DEF OrderInv, Planning, Untouched
<1>5. CASE input.command # "destroy"
  <2>1. releases' = Deduplicated /\ planned' = {}
    BY <1>3, <1>5 DEF Select
  <2>2. Distinct'
    BY <2>1, DeduplicatedDistinct DEF Select, Distinct
  <2>3. Planning'
    BY <1>0, <1>3, <1>5, <2>1, <2>2, UntouchedKeeps DEF Planning
  <2> QED BY <1>0, <1>2, <2>3, UntouchedKeeps DEF OrderInv
<1> QED BY <1>4, <1>5

\* Making the plan, and finding out what is to be done.
LEMMA PlanKeeps == OrderInv /\ (Plan \/ Detect) => OrderInv'
<1> SUFFICES ASSUME OrderInv, Plan \/ Detect PROVE OrderInv'
  OBVIOUS
<1>1. /\ Untouched /\ UNCHANGED progress /\ UNCHANGED <<input, releases, errs>>
      /\ phase \in {"plan", "detect"} /\ phase' \in {"detect", "confirm"}
  BY DEF Plan, Detect, OrderInv, Planning
<1>2. planned' \subseteq releases /\ toDelete' \subseteq releases /\ toUpdate' \subseteq releases
  BY DEF Plan, Detect, InCluster, OrderInv, Planning, ConvTypeOK, Input, Commands
<1>3. toDelete' \cap toUpdate' = {} /\ (input.command = "destroy" => toUpdate' = {})
  BY DEF Plan, Detect, InCluster, OrderInv, Planning, ConvTypeOK, Input, Commands
<1>4. ConvTypeOK'
  BY <1>1, <1>2, <1>3 DEF OrderInv, ConvTypeOK, progress, Phase
<1>5. Distinct' <=> Distinct
  BY <1>1 DEF Distinct
<1>6. Planning'
  BY <1>1, <1>2, <1>3, <1>5, UntouchedKeeps DEF OrderInv, Planning
<1> QED BY <1>1, <1>4, <1>6, UntouchedKeeps DEF OrderInv

\* Confirming, and the preapply hooks.
LEMMA ConfirmKeeps == OrderInv /\ (Confirm \/ Preapply) => OrderInv'
<1> SUFFICES ASSUME OrderInv, Confirm \/ Preapply PROVE OrderInv'
  OBVIOUS
<1>1. /\ Untouched /\ UNCHANGED <<decided, batch, halted, cluster, deleted, updated, failed, errs>>
      /\ phase \in {"confirm", "preapply"} /\ phase' \in {"preapply", "deleting"}
      /\ left' = IF phase' = "deleting" THEN IdsOf(toDelete) ELSE {}
  BY DEF Confirm, Preapply, OrderInv, Planning
<1>2. IdsOf(toDelete) \subseteq Ids
  BY IdsType DEF OrderInv, ConvTypeOK
<1>3. ConvTypeOK'
  BY <1>1, <1>2 DEF OrderInv, ConvTypeOK, decided, Phase
<1>4. Distinct' <=> Distinct
  BY <1>1 DEF Distinct, decided
<1>5. Planning'
  BY <1>1, <1>4 DEF OrderInv, Planning, Untouched, decided
<1>6. Deleting' /\ Updating'
  BY <1>1, IdsFact DEF Deleting, Updating, Untouched, decided
<1>7. Listed' /\ NeedsFirst' /\ DependentsFirst'
  BY <1>1 DEF Listed, NeedsFirst, DependentsFirst, Untouched, decided
<1> QED BY <1>3, <1>5, <1>6, <1>7 DEF OrderInv

----------------------------------------------------------------------------
(* The traversals.                                                           *)

\* What the plan says of the run does not change while it is carried out.
LEMMA PlanningStays ==
  ASSUME OrderInv, UNCHANGED decided, phase \in {"deleting", "updating"}, phase' \in {"deleting", "updating"}
  PROVE  Planning'
<1>1. Distinct' <=> Distinct
  BY DEF Distinct, decided
<1> QED BY <1>1 DEF OrderInv, Planning, decided

\* A release gets into a batch only when what it waits for is done with.
LEMMA NextBatchKeeps == OrderInv /\ NextBatch => OrderInv'
<1> SUFFICES ASSUME OrderInv, NextBatch PROVE OrderInv'
  OBVIOUS
<1>1. /\ phase \in {"deleting", "updating"} /\ batch = {} /\ ~halted
      /\ UNCHANGED <<decided, phase, halted, cluster, deleted, updated, failed, errs>>
  BY DEF NextBatch
<1> PICK I \in SUBSET left :
       /\ I # {}
       /\ \A i \in I : WaitsFor(i) \cap left = {}
       /\ left' = left \ I
       /\ batch' = releases \cap EntriesOf(I)
  BY Zenon DEF NextBatch
<1>2. \A e \in batch' : e \in releases /\ e \in Entries /\ IdOf[e] \in I /\ IdOf[e] \in left
  BY EntriesFact DEF OrderInv, ConvTypeOK
<1>3. \A d \in releases : IdOf[d] \in I => d \in batch'
  BY EntriesFact DEF OrderInv, ConvTypeOK
<1>4. ConvTypeOK'
  BY <1>1, <1>2, TypeFacts DEF OrderInv, ConvTypeOK, decided
<1>5. Planning'
  BY <1>1, PlanningStays
<1>6. Deleting'
  <2> SUFFICES ASSUME phase = "deleting" PROVE Deleting'
    BY <1>1 DEF Deleting
  <2>1. updated' = {} /\ failed' \cap toUpdate' = {}
    BY <1>1 DEF OrderInv, Deleting, decided
  <2>2. \A i \in left' : \E d \in toDelete' : IdOf[d] = i
    BY <1>1 DEF OrderInv, Deleting, decided
  <2>3. \A e \in batch' : e \in releases' /\ \E d \in toDelete' : IdOf[d] = IdOf[e]
    BY <1>1, <1>2 DEF OrderInv, Deleting, decided
  <2>4. ASSUME NEW d \in toDelete PROVE IdOf[d] \in left \/ IdOf[d] \notin cluster
    BY <1>1 DEF OrderInv, Deleting
  <2>5. ASSUME NEW d \in toDelete
        PROVE  IdOf[d] \in left' \/ IdOf[d] \notin cluster' \/ \E e \in batch' : IdOf[e] = IdOf[d]
    <3>1. d \in releases
      BY DEF OrderInv, Planning
    <3> QED BY <1>1, <1>3, <2>4, <3>1
  <2>6. ASSUME NEW e \in batch', NEW d \in toDelete, IdOf[e] \in input.needs[d] PROVE IdOf[d] \notin cluster'
    <3>1. IdOf[d] \in WaitsFor(IdOf[e])
      BY <2>6, WaitsDeleting
    <3>2. IdOf[d] \notin left
      BY <1>2, <3>1
    <3> QED BY <1>1, <2>4, <3>2
  <2>7. toDelete' = toDelete /\ input' = input
    BY <1>1 DEF decided
  <2> QED BY <2>1, <2>2, <2>3, <2>5, <2>6, <2>7, Zenon DEF Deleting
<1>7. Updating'
  <2> SUFFICES ASSUME phase = "updating" PROVE Updating'
    BY <1>1 DEF Updating
  <2>1. \A i \in left : \E n \in toUpdate : IdOf[n] = i
    BY DEF OrderInv, Updating
  <2>2. batch' \subseteq toUpdate
    <3> SUFFICES ASSUME NEW e \in batch' PROVE e \in toUpdate
      OBVIOUS
    <3>1. PICK n \in toUpdate : IdOf[n] = IdOf[e]
      BY <1>2, <2>1
    <3>2. e = n
      BY <1>2, <3>1, SameEntry DEF Underway
    <3> QED BY <3>1, <3>2
  <2>3. ASSUME NEW n \in toUpdate PROVE IdOf[n] \in left \/ n \in updated
    BY <1>1 DEF OrderInv, Updating
  <2>4. ASSUME NEW n \in toUpdate PROVE IdOf[n] \in left' \/ n \in batch' \/ n \in updated
    <3>1. n \in releases
      BY DEF OrderInv, Planning
    <3> QED BY <1>3, <2>3, <3>1
  <2>5. ASSUME NEW e \in batch', NEW n \in toUpdate, IdOf[n] \in input.needs[e] PROVE n \in updated
    <3>1. IdOf[n] \in WaitsFor(IdOf[e])
      BY <1>2, <2>5, WaitsUpdating
    <3>2. IdOf[n] \notin left
      BY <1>2, <3>1
    <3> QED BY <2>3, <3>2
  <2>6. toUpdate' = toUpdate /\ input' = input /\ updated' = updated
    BY <1>1 DEF decided
  <2>7. \A i \in left' : \E n \in toUpdate : IdOf[n] = i
    BY <2>1
  <2> QED BY <2>2, <2>4, <2>5, <2>6, <2>7, Zenon DEF Updating
<1>8. Listed'
  BY <1>1, <1>2 DEF OrderInv, Listed, decided
<1>9. NeedsFirst' /\ DependentsFirst'
  BY <1>1 DEF OrderInv, NeedsFirst, DependentsFirst, decided
<1> QED BY <1>4, <1>5, <1>6, <1>7, <1>8, <1>9 DEF OrderInv

\* What a deleted release is needed by is gone, and stays so.
LEMMA DeleteKeeps == ASSUME OrderInv, NEW x \in Entries, Delete(x) PROVE OrderInv'
<1>1. /\ phase = "deleting" /\ x \in batch /\ batch' = batch \ {x}
      /\ cluster' = cluster \ {IdOf[x]} /\ deleted' = deleted \cup {x}
      /\ UNCHANGED <<decided, phase, left, halted, updated, failed, errs>>
  BY DEF Delete
<1>2. UNCHANGED <<input, releases, planned, toDelete, toUpdate>>
  BY <1>1 DEF decided
<1>3. ConvTypeOK'
  BY <1>1, <1>2, TypeFacts DEF OrderInv, ConvTypeOK
<1>4. Planning'
  BY <1>1, PlanningStays
<1>5. Deleting'
  <2>1. updated' = {} /\ failed' \cap toUpdate' = {}
    BY <1>1, <1>2 DEF OrderInv, Deleting
  <2>2. \A i \in left' : \E d \in toDelete' : IdOf[d] = i
    BY <1>1, <1>2 DEF OrderInv, Deleting
  <2>3. \A e \in batch' : e \in releases' /\ \E d \in toDelete' : IdOf[d] = IdOf[e]
    BY <1>1, <1>2 DEF OrderInv, Deleting
  <2>4. ASSUME ~halted, NEW d \in toDelete
        PROVE  IdOf[d] \in left' \/ IdOf[d] \notin cluster' \/ \E e \in batch' : IdOf[e] = IdOf[d]
    <3>1. IdOf[d] \in left \/ IdOf[d] \notin cluster \/ \E e \in batch : IdOf[e] = IdOf[d]
      BY <1>1, <2>4 DEF OrderInv, Deleting
    <3>2. IdOf[d] = IdOf[x] => IdOf[d] \notin cluster'
      BY <1>1
    <3> QED BY <1>1, <3>1, <3>2
  <2>5. ASSUME NEW e \in batch', NEW d \in toDelete, IdOf[e] \in input.needs[d] PROVE IdOf[d] \notin cluster'
    BY <1>1, <2>5 DEF OrderInv, Deleting
  <2> QED BY <1>1, <1>2, <2>1, <2>2, <2>3, <2>4, <2>5, Zenon DEF Deleting
<1>6. Updating'
  BY <1>1 DEF Updating
<1>7. Listed'
  BY <1>1, <1>2 DEF OrderInv, Listed
<1>8. NeedsFirst'
  BY <1>1, <1>2 DEF OrderInv, NeedsFirst
<1>9. DependentsFirst'
  <2> SUFFICES ASSUME NEW e \in deleted', NEW d \in toDelete, IdOf[e] \in input.needs[d]
               PROVE  IdOf[d] \notin cluster'
    BY <1>2 DEF DependentsFirst
  <2>1. CASE e = x
    BY <1>1, <2>1 DEF OrderInv, Deleting
  <2>2. CASE e \in deleted
    BY <1>1, <2>2 DEF OrderInv, DependentsFirst
  <2> QED BY <1>1, <2>1, <2>2
<1> QED BY <1>3, <1>4, <1>5, <1>6, <1>7, <1>8, <1>9 DEF OrderInv

\* Nothing that is updated comes back under the id of a deleted release.
LEMMA UpgradeKeeps == ASSUME OrderInv, NEW x \in Entries, Upgrade(x) PROVE OrderInv'
<1>1. /\ phase = "updating" /\ x \in batch /\ batch' = batch \ {x}
      /\ cluster' = cluster \cup {IdOf[x]} /\ updated' = updated \cup {x}
      /\ UNCHANGED <<decided, phase, left, halted, deleted, failed, errs>>
  BY DEF Upgrade
<1>2. UNCHANGED <<input, releases, planned, toDelete, toUpdate>>
  BY <1>1 DEF decided
<1>3. ConvTypeOK'
  <2>1. IdOf[x] \in Ids
    BY ConvergeAssumption
  <2> QED BY <1>1, <1>2, <2>1, TypeFacts DEF OrderInv, ConvTypeOK
<1>4. Planning'
  BY <1>1, PlanningStays
<1>5. Deleting'
  BY <1>1 DEF Deleting
<1>6. Updating'
  <2>1. \A i \in left' : \E n \in toUpdate' : IdOf[n] = i
    BY <1>1, <1>2 DEF OrderInv, Updating
  <2>2. batch' \subseteq toUpdate'
    BY <1>1, <1>2 DEF OrderInv, Updating
  <2>3. ~halted' => \A n \in toUpdate' : IdOf[n] \in left' \/ n \in batch' \/ n \in updated'
    BY <1>1, <1>2 DEF OrderInv, Updating
  <2>4. \A e \in batch' : \A n \in toUpdate' : IdOf[n] \in input'.needs[e] => n \in updated'
    BY <1>1, <1>2 DEF OrderInv, Updating
  <2> QED BY <2>1, <2>2, <2>3, <2>4, Zenon DEF Updating
<1>7. Listed'
  BY <1>1, <1>2 DEF OrderInv, Listed
<1>8. NeedsFirst'
  <2> SUFFICES ASSUME NEW e \in updated' \cup (failed' \cap toUpdate), NEW n \in toUpdate, IdOf[n] \in input.needs[e]
               PROVE  n \in updated'
    BY <1>2 DEF NeedsFirst
  <2>1. CASE e = x
    BY <1>1, <2>1 DEF OrderInv, Updating
  <2>2. CASE e \in updated \cup (failed \cap toUpdate)
    BY <1>1, <2>2 DEF OrderInv, NeedsFirst
  <2> QED BY <1>1, <2>1, <2>2
<1>9. DependentsFirst'
  <2> SUFFICES ASSUME NEW e \in deleted, NEW d \in toDelete, IdOf[e] \in input.needs[d]
               PROVE  IdOf[d] \notin cluster'
    BY <1>1, <1>2 DEF DependentsFirst
  <2>1. x \in toUpdate
    BY <1>1 DEF OrderInv, Updating
  <2>2. IdOf[d] # IdOf[x]
    BY <1>1, <2>1, NotBoth DEF Underway
  <2>3. IdOf[d] \notin cluster
    BY DEF OrderInv, DependentsFirst
  <2> QED BY <1>1, <2>2, <2>3
<1> QED BY <1>3, <1>4, <1>5, <1>6, <1>7, <1>8, <1>9 DEF OrderInv

\* A release that fails may be in the cluster afterwards only if it was before,
\* or was to be updated; and no other batch follows.
LEMMA FailsKeeps == ASSUME OrderInv, NEW x \in Entries, Fails(x) PROVE OrderInv'
<1>1. /\ x \in batch /\ batch' = batch \ {x} /\ failed' = failed \cup {x} /\ halted' = TRUE
      /\ UNCHANGED <<decided, phase, left, deleted, updated, errs>>
      /\ \A i \in cluster' : i \in cluster \/ (phase = "updating" /\ i = IdOf[x])
      /\ cluster' \subseteq Ids
  BY ConvergeAssumption DEF Fails, OrderInv, ConvTypeOK
<1>2. UNCHANGED <<input, releases, planned, toDelete, toUpdate>>
  BY <1>1 DEF decided
<1>3. ConvTypeOK'
  BY <1>1, <1>2, TypeFacts DEF OrderInv, ConvTypeOK
<1>4. phase \in {"deleting", "updating"}
  BY <1>1 DEF OrderInv, Planning, Untouched, ConvTypeOK, Phase
<1>5. Planning'
  BY <1>4, <1>1, PlanningStays
<1>6. Listed'
  BY <1>1, <1>2 DEF OrderInv, Listed
<1>7. CASE phase = "deleting"
  <2>1. Updating'
    BY <1>1, <1>7 DEF Updating
  <2>2. PICK d \in toDelete : IdOf[d] = IdOf[x]
    BY <1>1, <1>7 DEF OrderInv, Deleting
  <2>3. x \notin toUpdate
    BY <1>7, <2>2, NotBoth DEF Underway
  <2>4. updated' = {} /\ failed' \cap toUpdate' = {}
    BY <1>1, <1>2, <1>7, <2>3 DEF OrderInv, Deleting
  <2>5. \A i \in left' : \E r \in toDelete' : IdOf[r] = i
    BY <1>1, <1>2, <1>7 DEF OrderInv, Deleting
  <2>6. \A e \in batch' : e \in releases' /\ \E r \in toDelete' : IdOf[r] = IdOf[e]
    BY <1>1, <1>2, <1>7 DEF OrderInv, Deleting
  <2>7. \A e \in batch' : \A r \in toDelete' : IdOf[e] \in input'.needs[r] => IdOf[r] \notin cluster'
    BY <1>1, <1>2, <1>7 DEF OrderInv, Deleting
  <2>8. Deleting'
    BY <1>1, <2>4, <2>5, <2>6, <2>7, Zenon DEF Deleting
  <2>9. NeedsFirst'
    BY <2>4 DEF NeedsFirst
  <2>10. DependentsFirst'
    BY <1>1, <1>2, <1>7 DEF OrderInv, DependentsFirst
  <2> QED BY <1>3, <1>5, <1>6, <2>1, <2>8, <2>9, <2>10 DEF OrderInv
<1>8. CASE phase = "updating"
  <2>1. Deleting'
    BY <1>1, <1>8 DEF Deleting
  <2>2. x \in toUpdate
    BY <1>1, <1>8 DEF OrderInv, Updating
  <2>3. Updating'
    BY <1>1, <1>2, <1>8 DEF OrderInv, Updating
  <2>4. ASSUME NEW e \in updated' \cup (failed' \cap toUpdate), NEW n \in toUpdate, IdOf[n] \in input.needs[e]
        PROVE  n \in updated
    <3>1. CASE e = x
      BY <1>1, <1>8, <2>4, <3>1 DEF OrderInv, Updating
    <3>2. CASE e \in updated \cup (failed \cap toUpdate)
      BY <1>1, <2>4, <3>2 DEF OrderInv, NeedsFirst
    <3> QED BY <1>1, <3>1, <3>2
  <2>5. NeedsFirst'
    BY <1>1, <1>2, <2>4 DEF NeedsFirst
  <2>6. ASSUME NEW e \in deleted, NEW d \in toDelete, IdOf[e] \in input.needs[d] PROVE IdOf[d] \notin cluster'
    <3>1. IdOf[d] # IdOf[x]
      BY <1>8, <2>2, NotBoth DEF Underway
    <3>2. IdOf[d] \notin cluster
      BY <2>6 DEF OrderInv, DependentsFirst
    <3> QED BY <1>1, <3>1, <3>2
  <2>7. DependentsFirst'
    BY <1>1, <1>2, <2>6 DEF DependentsFirst
  <2> QED BY <1>3, <1>5, <1>6, <2>1, <2>3, <2>5, <2>7 DEF OrderInv
<1> QED BY <1>4, <1>7, <1>8

\* The updates start afresh: all of them are left.
LEMMA DeletionsEndKeeps == OrderInv /\ DeletionsEnd => OrderInv'
<1> SUFFICES ASSUME OrderInv, DeletionsEnd PROVE OrderInv'
  OBVIOUS
<1>1. /\ phase = "deleting" /\ phase' = "updating" /\ batch = {} /\ batch' = {}
      /\ left' = IdsOf(toUpdate) /\ halted' = FALSE /\ errs' \in BOOLEAN
      /\ UNCHANGED <<decided, cluster, deleted, updated, failed>>
  BY DEF DeletionsEnd, TraversalOver, OrderInv, ConvTypeOK
<1>2. UNCHANGED <<input, releases, planned, toDelete, toUpdate>>
  BY <1>1 DEF decided
<1>3. ConvTypeOK'
  <2>1. IdsOf(toUpdate) \subseteq Ids
    BY IdsType DEF OrderInv, ConvTypeOK
  <2> QED BY <1>1, <1>2, <2>1, TypeFacts DEF OrderInv, ConvTypeOK, Phase
<1>4. Planning'
  BY <1>1, PlanningStays
<1>5. Deleting' /\ Updating'
  BY <1>1, <1>2, IdsFact DEF Deleting, Updating
<1>6. Listed'
  BY <1>1, <1>2 DEF OrderInv, Listed
<1>7. NeedsFirst' /\ DependentsFirst'
  BY <1>1, <1>2 DEF OrderInv, NeedsFirst, DependentsFirst
<1> QED BY <1>3, <1>4, <1>5, <1>6, <1>7 DEF OrderInv

\* Nothing happens.
LEMMA StutterKeeps == OrderInv /\ UNCHANGED vars => OrderInv'
<1> SUFFICES ASSUME OrderInv, UNCHANGED vars PROVE OrderInv'
  OBVIOUS
<1>1. ConvTypeOK' /\ Listed' /\ NeedsFirst' /\ DependentsFirst'
  BY DEF OrderInv, vars, ConvTypeOK, Listed, NeedsFirst, DependentsFirst
<1>2. Planning'
  BY DEF OrderInv, vars, Planning, Untouched, Distinct
<1>3. Deleting' /\ Updating'
  BY DEF OrderInv, vars, Deleting, Updating
<1> QED BY <1>1, <1>2, <1>3 DEF OrderInv

----------------------------------------------------------------------------
(* Where what is touched comes from.                                         *)

\* The entry was selected, or is needed by what was.
Chosen(e) ==
  \/ e \in input.matching
  \/ input.command = "destroy" /\ IdOf[e] \in IdsOf(input.matching)
  \/ input.includeNeeds /\ IdOf[e] \in NeedsOf(Selected)
  \/ input.transitive /\ IdOf[e] \in NeedsAndTransitives(input.matching)

\* Nothing gets into a plan, or out of it into a batch, that was not chosen.
Choice ==
  /\ phase = "plan" => Selected \subseteq releases
  /\ phase \in {"plan", "detect"} => toDelete = {} /\ toUpdate = {}
  /\ toDelete \subseteq planned /\ toUpdate \subseteq planned
  /\ \A e \in planned \cup Processed \cup batch : Chosen(e)

\* Whether an entry is chosen does not change in a run.
LEMMA ChosenStays ==
  ASSUME input' = input
  PROVE  Selected' = Selected /\ \A e : Chosen(e)' <=> Chosen(e)
<1>1. Selected' = Selected
  BY DEF Selected, NeedsAndTransitives, NeedsOf
<1>2. \A e : Chosen(e)' <=> Chosen(e)
  BY <1>1 DEF Chosen, NeedsAndTransitives, NeedsOf
<1> QED BY <1>1, <1>2

\* What is selected is chosen.
LEMMA SelectedChosen == ASSUME NEW e \in Selected PROVE Chosen(e)
BY DEF Selected, Chosen, EntriesOf

\* A step that neither plans nor makes a batch.
LEMMA ChoiceStays ==
  ASSUME Choice, UNCHANGED decided, phase' = phase \/ phase' \notin {"plan", "detect"},
         Processed' \cup batch' \subseteq Processed \cup batch
  PROVE  Choice'
<1>1. UNCHANGED <<input, releases, planned, toDelete, toUpdate>>
  BY DEF decided
<1>2. \A e \in planned' \cup Processed' \cup batch' : Chosen(e)'
  BY <1>1, ChosenStays DEF Choice
<1>3. phase' = "plan" => Selected' \subseteq releases'
  BY <1>1, ChosenStays DEF Choice
<1> QED BY <1>1, <1>2, <1>3 DEF Choice

\* Planning chooses nothing new: an id that was selected stands for the entry
\* that was, once the duplicates are gone.
LEMMA ChoicePlan == OrderInv /\ Choice /\ (Select \/ Plan \/ Detect) => Choice'
<1> SUFFICES ASSUME OrderInv, Choice, Select \/ Plan \/ Detect PROVE Choice'
  OBVIOUS
<1>1. input' = input /\ Processed' = Processed /\ batch' = batch
  BY DEF Select, Plan, Detect, progress, Processed
<1>2. \A e \in Processed' \cup batch' : Chosen(e)'
  BY <1>1, ChosenStays DEF Choice
<1>3. CASE Select
  <2>1. toDelete' = {} /\ toUpdate' = {} /\ phase' \in {"plan", "detect"}
    BY <1>3 DEF Select, OrderInv, Planning
  <2>2. \A e \in planned' : Chosen(e)'
    BY <1>1, <1>3, ChosenStays, SelectedChosen DEF Select, Choice
  <2>3. phase' = "plan" => Selected' \subseteq releases'
    BY <1>1, <1>3, ChosenStays, SelectedType DEF Select, Deduplicated, OrderInv
  <2> QED BY <1>2, <2>1, <2>2, <2>3 DEF Choice
<1>4. CASE Plan
  <2>1. toDelete' = {} /\ toUpdate' = {} /\ phase' = "detect"
    BY <1>4 DEF Plan, Choice
  <2>2. Selected \subseteq releases /\ (Distinct \/ input.command = "destroy")
    BY <1>4 DEF Plan, Choice, OrderInv, Planning
  <2>3. ASSUME NEW e \in planned' PROVE Chosen(e)
    <3>1. e \in releases /\ e \in Entries /\ IdOf[e] \in PlannedIds
      BY <1>4, EntriesFact DEF Plan, OrderInv, ConvTypeOK
    <3>2. CASE IdOf[e] \in IdsOf(Selected)
      <4>1. PICK s \in Selected : IdOf[s] = IdOf[e]
        BY <3>2, IdsFact
      <4>2. CASE Distinct
        BY <2>2, <3>1, <4>1, <4>2, SelectedChosen DEF Distinct
      <4>3. CASE input.command = "destroy"
        BY <4>1, <4>3, IdsFact DEF Selected, Chosen
      <4> QED BY <2>2, <4>2, <4>3
    <3>3. CASE input.includeNeeds /\ IdOf[e] \in NeedsOf(Selected)
      BY <3>3 DEF Chosen
    <3> QED BY <3>1, <3>2, <3>3 DEF PlannedIds
  <2> QED BY <1>1, <1>2, <2>1, <2>3, ChosenStays DEF Choice
<1>5. CASE Detect
  <2>1. phase' = "confirm" /\ planned' = planned
    BY <1>5 DEF Detect
  <2>2. toDelete' \subseteq planned /\ toUpdate' \subseteq planned
    BY <1>5 DEF Detect, InCluster, OrderInv, ConvTypeOK, Input, Commands
  <2>3. \A e \in planned' : Chosen(e)'
    BY <1>1, <2>1, ChosenStays DEF Choice
  <2> QED BY <1>2, <2>1, <2>2, <2>3 DEF Choice
<1> QED BY <1>3, <1>4, <1>5

\* All entries of an id get into a batch together: where there are several, in
\* destroy, the id was chosen.
LEMMA ChoiceBatch == OrderInv /\ Choice /\ NextBatch => Choice'
<1> SUFFICES ASSUME OrderInv, Choice, NextBatch PROVE Choice'
  OBVIOUS
<1>1. OrderInv'
  BY NextBatchKeeps
<1>2. phase' = phase /\ phase \in {"deleting", "updating"} /\ UNCHANGED decided /\ Processed' = Processed
  BY DEF NextBatch, Processed
<1>3. ASSUME NEW e \in batch' PROVE Chosen(e)
  <2>1. CASE phase = "updating"
    BY <1>1, <1>2, <1>3, <2>1 DEF OrderInv, Updating, Choice, decided
  <2>2. CASE phase = "deleting"
    <3>1. PICK d \in toDelete : IdOf[d] = IdOf[e]
      BY <1>1, <1>2, <1>3, <2>2 DEF OrderInv, Deleting, decided
    <3>2. Chosen(d) /\ d \in releases /\ e \in releases
      BY <1>1, <1>2, <1>3, <2>2, <3>1 DEF OrderInv, Deleting, Planning, Choice, decided
    <3>3. CASE Distinct
      BY <3>1, <3>2, <3>3 DEF Distinct
    <3>4. CASE input.command = "destroy"
      BY <3>1, <3>2, <3>4, IdsFact DEF Chosen
    <3> QED BY <2>2, <3>3, <3>4 DEF OrderInv, Planning
  <2> QED BY <1>2, <2>1, <2>2
<1>4. UNCHANGED <<input, releases, planned, toDelete, toUpdate>>
  BY <1>2 DEF decided
<1>5. \A e \in planned' \cup Processed' \cup batch' : Chosen(e)'
  BY <1>2, <1>3, <1>4, ChosenStays DEF Choice
<1> QED BY <1>2, <1>4, <1>5 DEF Choice

\* Every step keeps what is planned and processed within what was chosen.
LEMMA ChoiceNext == OrderInv /\ Choice /\ [ConvNext]_vars => Choice'
<1> SUFFICES ASSUME OrderInv, Choice, [ConvNext]_vars PROVE Choice'
  OBVIOUS
<1>1. CASE Ends
  BY <1>1, EndsFact, ChoiceStays DEF progress, Processed
<1>2. CASE Confirm \/ Preapply \/ DeletionsEnd
  BY <1>2, ChoiceStays DEF Confirm, Preapply, DeletionsEnd, Processed
<1>3. ASSUME NEW x \in Entries, Delete(x) \/ Upgrade(x) \/ Fails(x) PROVE Choice'
  <2>1. UNCHANGED decided /\ phase' = phase
    BY <1>3 DEF Delete, Upgrade, Fails
  <2>2. Processed' \cup batch' \subseteq Processed \cup batch
    BY <1>3 DEF Delete, Upgrade, Fails, Processed
  <2> QED BY <2>1, <2>2, ChoiceStays
<1>4. CASE UNCHANGED vars
  BY <1>4, ChoiceStays DEF vars, decided, Processed
<1> QED BY <1>1, <1>2, <1>3, <1>4, ChoicePlan, ChoiceBatch, Zenon DEF ConvNext, ConvStep, Returned, Ends

----------------------------------------------------------------------------
(* What a run that returns no error has done.                                *)

\* What keeps an entry of the plan from being left in the cluster unwanted.
Unwanted(e) == input.command = "destroy" \/ e \notin input.desired

\* Detect has told of every planned release what is to be done with it.
Detected ==
  /\ \A e \in planned : Unwanted(e) => (e \in toDelete \/ IdOf[e] \notin cluster)
  /\ \A e \in planned \cap input.desired :
       input.command = "sync" \/ (input.command = "apply" /\ e \in input.changed) => e \in toUpdate
  /\ toUpdate \subseteq input.desired

\* What was selected stays planned, and an error of the deletions is kept until
\* the updates are over.
Achieved ==
  /\ Underway => Selected \subseteq releases
  /\ Underway /\ phase # "plan" => Selected \subseteq planned
  /\ phase \in {"confirm", "preapply", "deleting", "updating"} => Detected
  /\ phase = "updating" /\ ~errs => \A d \in toDelete : IdOf[d] \notin cluster
  /\ phase = "updating" /\ ~halted => \A n \in updated : IdOf[n] \in cluster
  /\ SuccessMeansConverged

\* The parts of the invariant that look at the input, the plan and the cluster.
LEMMA AchievedStart == ConvInit => Achieved
BY DEF ConvInit, Achieved, Underway, SuccessMeansConverged

\* Where no release is updated and what Detect found out stays, an id that is no
\* longer in the cluster is not brought back.
LEMMA DetectedStays ==
  ASSUME Detected, UNCHANGED decided, \A e \in planned : Unwanted(e) /\ IdOf[e] \in cluster' => IdOf[e] \in cluster
  PROVE  Detected'
<1>1. UNCHANGED <<input, planned, toDelete, toUpdate>>
  BY DEF decided
<1> QED BY <1>1 DEF Detected, Unwanted

\* Updating a release does not bring one back that is not wanted: that one has
\* another id.
LEMMA UpdateUnwanted ==
  ASSUME OrderInv, Detected, phase = "updating", NEW x \in toUpdate, NEW e \in planned, Unwanted(e)
  PROVE  IdOf[e] # IdOf[x]
<1>1. x \in input.desired /\ input.command # "destroy" /\ e \in releases
  BY DEF OrderInv, Planning, Detected
<1>2. e # x
  BY <1>1 DEF Unwanted
<1> QED BY <1>1, <1>2, SameEntry DEF Underway

\* A step of a traversal that leaves the plan alone keeps what concerns it.
LEMMA SelectionStays ==
  ASSUME Achieved, UNCHANGED decided, Underway, Underway', phase' # "plan", phase # "plan"
  PROVE  Selected' \subseteq releases' /\ Selected' \subseteq planned'
<1>1. UNCHANGED <<input, releases, planned, toDelete, toUpdate>>
  BY DEF decided
<1> QED BY <1>1, ChosenStays DEF Achieved

\* Selecting, planning, and finding out what is to be done.
LEMMA AchievedPlan == OrderInv /\ Achieved /\ (Select \/ Plan \/ Detect) => Achieved'
<1> SUFFICES ASSUME OrderInv, Achieved, Select \/ Plan \/ Detect PROVE Achieved'
  OBVIOUS
<1>1. input' = input /\ cluster' = cluster /\ Selected' = Selected /\ Selected \subseteq Entries
  BY ChosenStays, SelectedType DEF Select, Plan, Detect, progress, OrderInv
<1>2. phase' \in {"plan", "detect", "confirm"}
  BY DEF Select, Plan, Detect
<1>3. SuccessMeansConverged'
  BY <1>2 DEF SuccessMeansConverged
<1>4. CASE Select
  <2>1. Selected \subseteq releases' /\ (phase' # "plan" => Selected \subseteq planned')
    BY <1>1, <1>4 DEF Select, Deduplicated, OrderInv, Planning
  <2>2. phase' \in {"plan", "detect"}
    BY <1>4 DEF Select
  <2> QED BY <1>1, <1>3, <2>1, <2>2 DEF Achieved
<1>5. CASE Plan
  <2>1. phase = "plan" /\ phase' = "detect" /\ releases' = releases /\ planned' = releases \cap EntriesOf(PlannedIds)
    BY <1>5 DEF Plan
  <2>2. Selected \subseteq releases
    BY <2>1 DEF Achieved, Underway
  <2>3. \A e \in Selected : IdOf[e] \in PlannedIds
    BY IdsFact DEF PlannedIds
  <2>4. Selected \subseteq planned'
    BY <1>1, <2>1, <2>2, <2>3, EntriesFact
  <2> QED BY <1>1, <1>3, <2>1, <2>2, <2>4 DEF Achieved
<1>6. CASE Detect
  <2>1. phase = "detect" /\ phase' = "confirm" /\ UNCHANGED <<releases, planned>>
    BY <1>6 DEF Detect
  <2>2. Selected \subseteq releases /\ Selected \subseteq planned
    BY <2>1 DEF Achieved, Underway
  <2>3. ASSUME NEW e \in planned, Unwanted(e) PROVE e \in toDelete' \/ IdOf[e] \notin cluster
    BY <1>6, <2>3 DEF Detect, InCluster, Unwanted
  <2>4. ASSUME NEW e \in planned \cap input.desired,
               input.command = "sync" \/ (input.command = "apply" /\ e \in input.changed)
        PROVE  e \in toUpdate'
    BY <1>6, <2>4 DEF Detect
  <2>5. toUpdate' \subseteq input.desired
    BY <1>6 DEF Detect, OrderInv, ConvTypeOK, Input, Commands
  <2>6. Detected'
    BY <1>1, <2>1, <2>3, <2>4, <2>5 DEF Detected, Unwanted
  <2> QED BY <1>1, <1>3, <2>1, <2>2, <2>6 DEF Achieved
<1> QED BY <1>4, <1>5, <1>6

\* Confirming, the preapply hooks and the making of a batch touch nothing.
LEMMA AchievedWaits == OrderInv /\ Achieved /\ (Confirm \/ Preapply \/ NextBatch) => Achieved'
<1> SUFFICES ASSUME OrderInv, Achieved, Confirm \/ Preapply \/ NextBatch PROVE Achieved'
  OBVIOUS
<1>1. /\ UNCHANGED <<decided, cluster, updated, halted, errs>>
      /\ phase \in {"confirm", "preapply", "deleting", "updating"}
      /\ phase' \in {"preapply", "deleting", "updating"} /\ (phase' = "updating" => phase = "updating")
  BY DEF Confirm, Preapply, NextBatch
<1>2. Selected' \subseteq releases' /\ Selected' \subseteq planned'
  BY <1>1, SelectionStays DEF Underway
<1>3. Detected'
  BY <1>1, DetectedStays DEF Achieved
<1>4. SuccessMeansConverged'
  BY <1>1 DEF SuccessMeansConverged
<1>5. UNCHANGED <<input, releases, planned, toDelete, toUpdate>>
  BY <1>1 DEF decided
<1> QED BY <1>1, <1>2, <1>3, <1>4, <1>5 DEF Achieved

\* A release is uninstalled, or something fails meanwhile.
LEMMA AchievedDeleting ==
  ASSUME OrderInv, Achieved, phase = "deleting", NEW x \in Entries, Delete(x) \/ Fails(x)
  PROVE  Achieved'
<1>1. UNCHANGED decided /\ phase' = phase /\ cluster' \subseteq cluster
  BY DEF Delete, Fails
<1>2. Selected' \subseteq releases' /\ Selected' \subseteq planned'
  BY <1>1, SelectionStays DEF Underway
<1>3. Detected'
  BY <1>1, DetectedStays DEF Achieved
<1>4. SuccessMeansConverged'
  BY <1>1 DEF SuccessMeansConverged
<1> QED BY <1>1, <1>2, <1>3, <1>4 DEF Achieved

\* A release is updated, or the update fails: only its own id is affected.
LEMMA AchievedUpdating ==
  ASSUME OrderInv, Achieved, phase = "updating", NEW x \in Entries, Upgrade(x) \/ Fails(x)
  PROVE  Achieved'
<1>1. /\ UNCHANGED decided /\ phase' = phase /\ errs' = errs /\ cluster' \subseteq cluster \cup {IdOf[x]}
      /\ x \in batch
  BY DEF Upgrade, Fails
<1>2. x \in toUpdate
  BY <1>1 DEF OrderInv, Updating
<1>3. Selected' \subseteq releases' /\ Selected' \subseteq planned'
  BY <1>1, SelectionStays DEF Underway
<1>4. Detected
  BY DEF Achieved
<1>5. Detected'
  BY <1>1, <1>2, <1>4, DetectedStays, UpdateUnwanted
<1>6. UNCHANGED <<input, releases, planned, toDelete, toUpdate>>
  BY <1>1 DEF decided
<1>7. ~errs' => \A d \in toDelete' : IdOf[d] \notin cluster'
  <2> SUFFICES ASSUME ~errs, NEW d \in toDelete PROVE IdOf[d] \notin cluster'
    BY <1>1, <1>6
  <2>1. IdOf[d] # IdOf[x]
    BY <1>2, NotBoth DEF Underway
  <2>2. IdOf[d] \notin cluster
    BY DEF Achieved
  <2> QED BY <1>1, <2>1, <2>2
<1>8. ~halted' => \A n \in updated' : IdOf[n] \in cluster'
  <2>1. CASE Upgrade(x)
    BY <2>1 DEF Upgrade, Achieved
  <2>2. CASE Fails(x)
    BY <2>2 DEF Fails
  <2> QED BY <2>1, <2>2
<1>9. SuccessMeansConverged'
  BY <1>1 DEF SuccessMeansConverged
<1> QED BY <1>1, <1>3, <1>5, <1>6, <1>7, <1>8, <1>9 DEF Achieved

\* Where nothing failed, all that was to be deleted is gone; otherwise the error
\* is kept.
LEMMA AchievedTurns == OrderInv /\ Achieved /\ DeletionsEnd => Achieved'
<1> SUFFICES ASSUME OrderInv, Achieved, DeletionsEnd PROVE Achieved'
  OBVIOUS
<1>1. /\ phase = "deleting" /\ phase' = "updating" /\ batch = {} /\ (left = {} \/ halted)
      /\ halted' = FALSE /\ errs' = (errs \/ halted) /\ UNCHANGED <<decided, cluster, updated>>
  BY DEF DeletionsEnd, TraversalOver
<1>2. Selected' \subseteq releases' /\ Selected' \subseteq planned'
  BY <1>1, SelectionStays DEF Underway
<1>3. Detected'
  BY <1>1, DetectedStays DEF Achieved
<1>4. UNCHANGED <<input, releases, planned, toDelete, toUpdate>>
  BY <1>1 DEF decided
<1>5. ~errs' => \A d \in toDelete' : IdOf[d] \notin cluster'
  BY <1>1, <1>4 DEF OrderInv, Deleting
<1>6. updated' = {}
  BY <1>1 DEF OrderInv, Deleting
<1>7. SuccessMeansConverged'
  BY <1>1 DEF SuccessMeansConverged
<1> QED BY <1>1, <1>2, <1>3, <1>4, <1>5, <1>6, <1>7 DEF Achieved

\* At the end of the updates an entry of the plan that is not wanted is gone, and
\* one that was to be updated is there, unless an error is returned.
LEMMA AchievedAtLast ==
  ASSUME OrderInv, Achieved, phase = "updating", batch = {}, left = {}, ~halted, ~errs
  PROVE  /\ \A e \in planned : Unwanted(e) => IdOf[e] \notin cluster
         /\ \A e \in toUpdate : e \in updated /\ IdOf[e] \in cluster
<1>1. \A e \in planned : Unwanted(e) => IdOf[e] \notin cluster
  BY DEF Achieved, Detected
<1>2. \A e \in toUpdate : e \in updated
  BY DEF OrderInv, Updating
<1>3. \A e \in toUpdate : IdOf[e] \in cluster
  BY <1>2 DEF Achieved
<1> QED BY <1>1, <1>2, <1>3

\* A run that returns without an error has achieved what it promised.
LEMMA AchievedEnds == OrderInv /\ Achieved /\ Ends => Achieved'
<1> SUFFICES ASSUME OrderInv, Achieved, Ends PROVE Achieved'
  OBVIOUS
<1>1. phase' = "returned" /\ UNCHANGED <<decided, progress>>
  BY EndsFact
<1>2. UNCHANGED <<input, releases, planned, toDelete, toUpdate, cluster, updated>>
  BY <1>1 DEF decided, progress
<1>3. Selected' = Selected
  BY <1>2, ChosenStays
<1>4. CASE errs' \/ input.interactive
  BY <1>1, <1>2, <1>4 DEF Achieved, SuccessMeansConverged, Underway
<1>5. CASE NothingSelected
  BY <1>1, <1>3, <1>5 DEF NothingSelected, Achieved, SuccessMeansConverged, Underway
<1>6. CASE UpdatesEnd /\ ~errs'
  <2>1. phase = "updating" /\ batch = {} /\ left = {} /\ ~halted /\ ~errs
    BY <1>6 DEF UpdatesEnd, TraversalOver, Return
  <2>2. Selected \subseteq planned /\ Detected
    BY <2>1 DEF Achieved, Underway
  <2>3. \A e \in planned : Unwanted(e) => IdOf[e] \notin cluster
    BY <2>1, AchievedAtLast
  <2>4. \A e \in toUpdate : e \in updated /\ IdOf[e] \in cluster
    BY <2>1, AchievedAtLast
  <2>5. ASSUME NEW e \in Selected \cap input.desired
        PROVE  CASE input.command = "sync"    -> e \in updated /\ IdOf[e] \in cluster
                 [] input.command = "apply"   -> e \in input.changed => e \in updated /\ IdOf[e] \in cluster
                 [] input.command = "destroy" -> IdOf[e] \notin cluster
    <3>1. input.command \in {"sync", "apply", "destroy"}
      BY DEF OrderInv, ConvTypeOK, Input, Commands
    <3>2. e \in planned
      BY <2>2, <2>5
    <3>3. input.command = "sync" \/ (input.command = "apply" /\ e \in input.changed)
          => e \in updated /\ IdOf[e] \in cluster
      BY <2>2, <2>4, <2>5, <3>2 DEF Detected
    <3>4. input.command = "destroy" => IdOf[e] \notin cluster
      BY <2>3, <3>2 DEF Unwanted
    <3> QED BY <3>1, <3>3, <3>4
  <2>6. ASSUME NEW e \in Selected \ input.desired PROVE IdOf[e] \notin cluster
    BY <2>2, <2>3, <2>6 DEF Unwanted
  <2>7. SuccessMeansConverged'
    BY <1>2, <1>3, <2>5, <2>6 DEF SuccessMeansConverged
  <2> QED BY <1>1, <2>7 DEF Achieved, Underway
<1>7. Ends => NothingSelected \/ errs' \/ input.interactive \/ UpdatesEnd
  BY DEF Ends, DuplicatesSelected, SelectFails, PlanFails, DetectFails, Decline, PreapplyFails, OrderFails, Return
<1> QED BY <1>4, <1>5, <1>6, <1>7

\* Nothing happens.
LEMMA AchievedStutter == Achieved /\ UNCHANGED vars => Achieved'
<1> SUFFICES ASSUME Achieved, UNCHANGED vars PROVE Achieved'
  OBVIOUS
<1>1. /\ UNCHANGED <<input, phase, releases, planned, toDelete, toUpdate, halted, cluster, updated, errs>>
      /\ Selected' = Selected
  BY ChosenStays DEF vars
<1>2. SuccessMeansConverged'
  BY <1>1 DEF Achieved, SuccessMeansConverged
<1>3. Detected' <=> Detected
  BY <1>1 DEF Detected, Unwanted
<1> QED BY <1>1, <1>2, <1>3 DEF Achieved, Underway

\* Every step keeps it.
LEMMA AchievedNext == OrderInv /\ Achieved /\ [ConvNext]_vars => Achieved'
<1> SUFFICES ASSUME OrderInv, Achieved, [ConvNext]_vars PROVE Achieved'
  OBVIOUS
<1>1. ASSUME NEW x \in Entries, Delete(x) PROVE Achieved'
  BY <1>1, AchievedDeleting DEF Delete
<1>2. ASSUME NEW x \in Entries, Upgrade(x) PROVE Achieved'
  BY <1>2, AchievedUpdating DEF Upgrade
<1>3. ASSUME NEW x \in Entries, Fails(x) PROVE Achieved'
  <2>1. phase \in {"deleting", "updating"}
    BY <1>3 DEF Fails, OrderInv, ConvTypeOK, Phase, Planning, Untouched
  <2> QED BY <1>3, <2>1, AchievedDeleting, AchievedUpdating
<1> QED BY <1>1, <1>2, <1>3, AchievedPlan, AchievedWaits, AchievedTurns, AchievedEnds, AchievedStutter, Zenon
        DEF ConvNext, ConvStep, Returned, Ends

----------------------------------------------------------------------------
(* Theorems.                                                                 *)

\* However many releases a state file lists, whatever they need, and whatever
\* fails, the plan of a run is carried out as OrderInv says: the invariant from
\* which the promises of withDAG and withBatches follow.
THEOREM OrderInvariant == ConvSpec => []OrderInv
<1>1. OrderInv /\ [ConvNext]_vars => OrderInv'
  BY EndsKeeps, SelectKeeps, PlanKeeps, ConfirmKeeps, NextBatchKeeps, DeleteKeeps, UpgradeKeeps, FailsKeeps,
     DeletionsEndKeeps, StutterKeeps, Zenon DEF ConvNext, ConvStep, Returned, Ends
<1> QED BY OrderInit, <1>1, PTL DEF ConvSpec

\* The variables of a run have the values their uses in sync, apply and destroy
\* suppose, and no release is to be deleted and to be updated.
THEOREM ConvTypes == ConvSpec => []ConvTypeOK
<1>1. OrderInv => ConvTypeOK
  BY DEF OrderInv
<1> QED BY OrderInvariant, <1>1, PTL

\* sync and apply upgrade a release only when all it needs, and is to be updated
\* in the same run, has been upgraded with success: the batches of withDAG.
THEOREM NeedsOrder == ConvSpec => []NeedsFirst
<1>1. OrderInv => NeedsFirst
  BY DEF OrderInv
<1> QED BY OrderInvariant, <1>1, PTL

\* A release is uninstalled only when all that need it, and are to be deleted,
\* are gone, and the updates that follow bring none of them back.
THEOREM DependentsOrder == ConvSpec => []DependentsFirst
<1>1. OrderInv => DependentsFirst
  BY DEF OrderInv
<1> QED BY OrderInvariant, <1>1, PTL

\* sync and apply process no release twice, although it may be listed twice: the
\* duplicates that GetSelectedReleases leaves are removed before the plan is made.
THEOREM Once == ConvSpec => []OncePerRelease
<1>1. OrderInv => OncePerRelease
  <2> SUFFICES ASSUME OrderInv, input.command # "destroy", NEW d \in Processed \cup batch, NEW e \in Processed \cup batch,
                      IdOf[d] = IdOf[e]
               PROVE  d = e
    BY DEF OncePerRelease
  <2>1. d \in releases /\ e \in releases
    BY DEF OrderInv, Listed, Processed
  <2>2. Distinct
    BY DEF OrderInv, Planning, Untouched, Processed
  <2> QED BY <2>1, <2>2 DEF Distinct
<1> QED BY OrderInvariant, <1>1, PTL

\* Only what was selected is touched, or what it needs where the options say so:
\* the plan and the batches contain nothing else, though batches are made of ids.
THEOREM OnlySelected == ConvSpec => []OnlySelectedTouched
<1>1. ConvInit => Choice
  BY DEF ConvInit, Choice, Processed
<1>2. OrderInv /\ Choice => OnlySelectedTouched
  BY Zenon DEF Choice, Chosen, OnlySelectedTouched
<1> QED BY OrderInvariant, ChoiceNext, <1>1, <1>2, PTL DEF ConvSpec

\* A run of sync, apply or destroy that was not declined and returns no error has
\* left the cluster as the state file wants it, as far as it was selected: the
\* errors of the deletions reach the caller though the updates go on after them.
THEOREM SuccessConverged == ConvSpec => []SuccessMeansConverged
<1>1. Achieved => SuccessMeansConverged
  BY DEF Achieved
<1> QED BY OrderInvariant, AchievedStart, AchievedNext, <1>1, PTL DEF ConvSpec
===============================================================================
