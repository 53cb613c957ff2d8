---------------------------- MODULE ParallelFor ----------------------------
(***************************************************************************)
(* What HelmState.scatterGather promises its callers: a parallel "for" over*)
(* N inputs with a fixed number of slots.  Every input is started once, by *)
(* an idle slot, in input order; the call returns only when every input has*)
(* been processed, so no job outlives the call.                            *)
(***************************************************************************)
EXTENDS Naturals

CONSTANTS N,        \* number of inputs, processed in order 1..N
          MaxSlots  \* bound on the number of slots of a call

VARIABLES
  width,    \* number of slots of this call
  started,  \* inputs 1..started have been handed to a slot
  slot,     \* input a slot is processing, 0 when idle
  finished, \* inputs whose processing has ended
  returned  \* the call has returned to its caller

forVars == <<width, started, slot, finished, returned>>

Slots == 1..MaxSlots

ForInit ==
  /\ width \in 0..MaxSlots
  /\ (N > 0) => (width > 0)
  /\ started = 0
  /\ slot = [s \in Slots |-> 0]
  /\ finished = {}
  /\ returned = FALSE

Start(s) ==
  /\ s <= width
  /\ slot[s] = 0
  /\ started < N
  /\ started' = started + 1
  /\ slot' = [slot EXCEPT ![s] = started + 1]
  /\ UNCHANGED <<width, finished, returned>>

Finish(s) ==
  /\ slot[s] # 0
  /\ finished' = finished \cup {slot[s]}
  /\ slot' = [slot EXCEPT ![s] = 0]
  /\ UNCHANGED <<width, started, returned>>

ReturnAll ==
  /\ finished = 1..N
  /\ \A s \in Slots : slot[s] = 0
  /\ returned' = TRUE
  /\ UNCHANGED <<width, started, slot, finished>>

ForNext == (\E s \in Slots : Start(s) \/ Finish(s)) \/ ReturnAll

ForSpec == ForInit /\ [][ForNext]_forVars
=============================================================================
