--------------------------- MODULE ScatterGather ---------------------------
(***************************************************************************)
(* HelmState.scatterGather (pkg/helmfile/state/state_run.go) and the three *)
(* closures every caller gives it: one producer goroutine that sends the   *)
(* inputs and closes the job channel, `width` worker goroutines that range *)
(* over it, and an aggregator that runs in the caller before               *)
(* waitGroup.Wait().                                                       *)
(*                                                                         *)
(* Two kinds of channels are used with it: unbuffered ones                 *)
(* (iterateOnReleases) and ones as large as the input                      *)
(* (prepareSyncReleases, SyncReleases, DeleteReleasesForSync,              *)
(* PrepareCharts, prepareDiffReleases, DiffReleases).  Two kinds of        *)
(* aggregators: one that counts N results, and PrepareCharts' one, which   *)
(* returns at the first failed result.                                     *)
(*                                                                         *)
(* The producer sends the inputs in order and the channel is FIFO, so the  *)
(* job channel holds the inputs taken+1..sent.  The order of the results   *)
(* only orders the error messages: the result channel is a set.            *)
(***************************************************************************)
EXTENDS Integers, FiniteSets

CONSTANTS
  N,         \* number of inputs
  MaxWidth,  \* bound on the number of workers, at least N
  Calls      \* the calls to consider, see CallArgs

CallArgs == [limit : Int, cap : {0, N}, early : BOOLEAN]

ASSUME PoolAssumption ==
  /\ N \in Nat
  /\ MaxWidth \in Nat /\ MaxWidth >= N
  /\ Calls \subseteq CallArgs
  /\ \A c \in Calls : c.early => c.cap = N

VARIABLES
  call,     \* the arguments of this call
  sent,     \* inputs 1..sent have been sent to the job channel
  closed,   \* the producer has closed the job channel
  taken,    \* inputs 1..taken have been received by a worker
  wpc,      \* where each worker goroutine is
  wjob,     \* the input each worker holds, 0 if none
  results,  \* inputs whose result is in the result channel
  outcome,  \* what processing each input returned so far
  got,      \* inputs whose result the aggregator has received
  apc       \* the caller: aggregating, waiting for the workers, returned

poolVars == <<call, sent, closed, taken, wpc, wjob, results, outcome, got, apc>>

Items   == 1..N
Workers == 1..MaxWidth

Width(c) == IF c.limit < 1 \/ c.limit > N THEN N ELSE c.limit

Outcome == {"none", "ok", "error"}
Failed  == {i \in Items : outcome[i] = "error"}

\* The errors the aggregator has collected.
Errors == got \cap Failed

\* Seeded bug: every aggregator stops at the first error.
GatherEndsAtError == got = Items \/ Errors # {}

GatherEnds == got = Items \/ (call.early /\ Errors # {})

-----------------------------------------------------------------------------
PoolInit ==
  /\ call \in Calls
  /\ sent = 0
  /\ closed = FALSE
  /\ taken = 0
  /\ wpc = [w \in Workers |-> IF w <= Width(call) THEN "recv" ELSE "unborn"]
  /\ wjob = [w \in Workers |-> 0]
  /\ results = {}
  /\ outcome = [i \in Items |-> "none"]
  /\ got = {}
  /\ apc = "gather"

\* A send that fits in the channel's buffer.
Produce ==
  /\ sent < N
  /\ sent - taken < call.cap
  /\ sent' = sent + 1
  /\ UNCHANGED <<call, closed, taken, wpc, wjob, results, outcome, got, apc>>

CloseJobs ==
  /\ sent = N
  /\ ~closed
  /\ closed' = TRUE
  /\ UNCHANGED <<call, sent, taken, wpc, wjob, results, outcome, got, apc>>

\* A worker receives the next input: from the buffer, or, on an unbuffered
\* channel, from the producer that is blocked in its send.
Take(w) ==
  /\ wpc[w] = "recv"
  /\ \/ /\ taken < sent
        /\ sent' = sent
     \/ /\ call.cap = 0
        /\ sent < N
        /\ sent' = sent + 1
  /\ taken' = taken + 1
  /\ wjob' = [wjob EXCEPT ![w] = taken + 1]
  /\ wpc' = [wpc EXCEPT ![w] = "work"]
  /\ UNCHANGED <<call, closed, results, outcome, got, apc>>

\* The body of the worker's loop, up to its send on the result channel.
Work(w, fails) ==
  /\ wpc[w] = "work"
  /\ outcome' = [outcome EXCEPT ![wjob[w]] = IF fails THEN "error" ELSE "ok"]
  /\ wpc' = [wpc EXCEPT ![w] = "send"]
  /\ UNCHANGED <<call, sent, closed, taken, wjob, results, got, apc>>

WorkerFree(w) ==
  /\ wjob' = [wjob EXCEPT ![w] = 0]
  /\ wpc' = [wpc EXCEPT ![w] = "recv"]

\* Seeded bug: the result channel has one slot instead of one per input.
PutResultOneSlot(w) ==
  /\ wpc[w] = "send"
  /\ call.cap > 0 /\ results = {}
  /\ results' = results \cup {wjob[w]}
  /\ WorkerFree(w)
  /\ UNCHANGED <<call, sent, closed, taken, outcome, got, apc>>

PutResult(w) ==
  /\ wpc[w] = "send"
  /\ Cardinality(results) < call.cap
  /\ results' = results \cup {wjob[w]}
  /\ WorkerFree(w)
  /\ UNCHANGED <<call, sent, closed, taken, outcome, got, apc>>

\* On an unbuffered channel the send completes when the aggregator receives.
HandResult(w) ==
  /\ wpc[w] = "send"
  /\ call.cap = 0
  /\ apc = "gather" /\ ~GatherEnds
  /\ got' = got \cup {wjob[w]}
  /\ WorkerFree(w)
  /\ UNCHANGED <<call, sent, closed, taken, results, outcome, apc>>

\* Seeded bug: a worker leaves when the queue is momentarily empty.
StopWhenDrained(w) ==
  /\ wpc[w] = "recv"
  /\ taken = sent
  /\ wpc' = [wpc EXCEPT ![w] = "done"]
  /\ UNCHANGED <<call, sent, closed, taken, wjob, results, outcome, got, apc>>

\* The range over the closed and drained job channel ends: waitGroup.Done().
Stop(w) ==
  /\ wpc[w] = "recv"
  /\ closed /\ taken = sent
  /\ wpc' = [wpc EXCEPT ![w] = "done"]
  /\ UNCHANGED <<call, sent, closed, taken, wjob, results, outcome, got, apc>>

Gather(i) ==
  /\ apc = "gather" /\ ~GatherEnds
  /\ i \in results
  /\ results' = results \ {i}
  /\ got' = got \cup {i}
  /\ UNCHANGED <<call, sent, closed, taken, wpc, wjob, outcome, apc>>

GatherDone ==
  /\ apc = "gather" /\ GatherEnds
  /\ apc' = "wait"
  /\ UNCHANGED <<call, sent, closed, taken, wpc, wjob, results, outcome, got>>

\* Seeded bug: no waitGroup.Wait() after the aggregator.
WaitDoneAtOnce ==
  /\ apc = "wait"
  /\ apc' = "returned"
  /\ UNCHANGED <<call, sent, closed, taken, wpc, wjob, results, outcome, got>>

WaitDone ==
  /\ apc = "wait"
  /\ \A w \in Workers : wpc[w] \in {"done", "unborn"}
  /\ apc' = "returned"
  /\ UNCHANGED <<call, sent, closed, taken, wpc, wjob, results, outcome, got>>

\* Every step of the pool except the body of the worker's loop.
PoolStep ==
  \/ Produce \/ CloseJobs \/ GatherDone \/ WaitDone
  \/ \E w \in Workers : Take(w) \/ PutResult(w) \/ HandResult(w) \/ Stop(w)
  \/ \E i \in Items : Gather(i)

\* The call has returned: nothing is left to do.
PoolIdle == apc = "returned" /\ UNCHANGED poolVars

PoolNext ==
  \/ PoolStep
  \/ \E w \in Workers, fails \in BOOLEAN : Work(w, fails)
  \/ PoolIdle

PoolSpec == PoolInit /\ [][PoolNext]_poolVars

\* The Go scheduler eventually runs every goroutine that can run, and the
\* body given to the pool returns.
PoolFairness ==
  /\ WF_poolVars(Produce) /\ WF_poolVars(CloseJobs)
  /\ WF_poolVars(GatherDone) /\ WF_poolVars(WaitDone)
  /\ WF_poolVars(\E i \in Items : Gather(i))
  /\ \A w \in Workers :
       /\ WF_poolVars(Take(w) \/ Stop(w))
       /\ WF_poolVars(PutResult(w) \/ HandResult(w))
       /\ WF_poolVars(\E fails \in BOOLEAN : Work(w, fails))

FairPoolSpec == PoolSpec /\ PoolFairness

-----------------------------------------------------------------------------
(* Properties *)

TypeOK ==
  /\ call \in Calls
  /\ sent \in 0..N /\ taken \in 0..N
  /\ closed \in BOOLEAN
  /\ wpc \in [Workers -> {"unborn", "recv", "work", "send", "done"}]
  /\ wjob \in [Workers -> 0..N]
  /\ results \subseteq Items /\ got \subseteq Items
  /\ outcome \in [Items -> Outcome]
  /\ apc \in {"gather", "wait", "returned"}

\* Channel bookkeeping: the producer never runs ahead of the buffer, and a
\* worker stops only when the job channel is closed and drained.
Channels ==
  /\ taken <= sent
  /\ sent - taken <= call.cap
  /\ closed => sent = N
  /\ \A w \in Workers :
       /\ wpc[w] = "unborn" <=> w > Width(call)
       /\ wpc[w] = "done" => closed /\ taken = N
       /\ wjob[w] # 0 <=> wpc[w] \in {"work", "send"}

\* Every input taken from the queue is in exactly one place: with one worker,
\* in the result channel, or with the aggregator.  Nothing is lost, nothing
\* is processed by two workers.
Conservation ==
  /\ \A i \in Items :
       i <= taken <=> i \in results \cup got \/ \E w \in Workers : wjob[w] = i
  /\ results \cap got = {}
  /\ \A w \in Workers : wjob[w] \notin results \cup got
  /\ \A v, w \in Workers : wjob[v] = wjob[w] /\ wjob[v] # 0 => v = w
  /\ \A w \in Workers : wpc[w] = "work" => outcome[wjob[w]] = "none"
  /\ \A w \in Workers : wpc[w] = "send" => outcome[wjob[w]] # "none"
  /\ \A i \in results \cup got : outcome[i] # "none"
  /\ \A i \in Items : i > taken => outcome[i] = "none"

CallerProgress ==
  /\ apc # "gather" => GatherEnds
  /\ apc = "returned" => \A w \in Workers : wpc[w] \in {"done", "unborn"}

PoolInv == TypeOK /\ Channels /\ Conservation /\ CallerProgress

\* When scatterGather returns, every input has been processed - also when the
\* aggregator gave up at the first error (PrepareCharts): no goroutine goes on
\* downloading a chart behind the caller's back.
AllProcessedAtReturn ==
  apc = "returned" => \A i \in Items : outcome[i] # "none"

\* The caller learns of a failure whenever there was one, and of every failure
\* unless its aggregator stops early.
NoErrorSwallowed ==
  apc = "returned" =>
    /\ Errors = {} <=> Failed = {}
    /\ ~call.early => Errors = Failed

\* The pool implements the parallel for: inputs are started in order, each
\* once, by one of Width workers, and the call returns when all are finished.
For == INSTANCE ParallelFor WITH
  MaxSlots <- MaxWidth,
  width    <- Width(call),
  started  <- taken,
  slot     <- [w \in Workers |-> IF wpc[w] = "work" THEN wjob[w] ELSE 0],
  finished <- {i \in Items : outcome[i] # "none"},
  returned <- apc = "returned"

ImplementsFor == For!ForSpec

\* The call always returns (no send blocks for ever, the job channel is closed
\* and every worker stops), whichever channels and aggregator it is given.
CallReturns == <>(apc = "returned")
=============================================================================
