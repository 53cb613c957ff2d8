------------------------ MODULE ScatterGatherProofs ------------------------
(* What ScatterGather's runs check on three inputs, proved for every number *)
(* of inputs, of workers, and every kind of call.                           *)
EXTENDS ScatterGather, TLAPS

\* scatterGather starts at least one worker when there is an input, and never
\* more than the model's bound.
LEMMA WidthType ==
  ASSUME NEW c \in Calls
  PROVE  /\ c \in CallArgs
         /\ Width(c) \in 0..MaxWidth
         /\ N > 0 => Width(c) > 0
<1> QED BY PoolAssumption DEF Width, CallArgs

\* The bookkeeping of channels and workers holds when scatterGather is called.
LEMMA InitInv == PoolInit => PoolInv
<1> SUFFICES ASSUME PoolInit PROVE PoolInv
  OBVIOUS
<1>1. call \in CallArgs /\ Width(call) \in 0..MaxWidth
  BY WidthType DEF PoolInit
<1>2. TypeOK
  <2>1. wpc \in [Workers -> {"unborn", "recv", "work", "send", "done"}]
    BY DEF PoolInit
  <2>2. wjob \in [Workers -> 0..N]
    BY PoolAssumption DEF PoolInit
  <2>3. outcome \in [Items -> Outcome]
    BY DEF PoolInit, Outcome
  <2>4. closed \in BOOLEAN /\ call \in Calls
    BY DEF PoolInit
  <2>5. sent \in 0..N /\ taken \in 0..N
    BY PoolAssumption DEF PoolInit
  <2>6. results \subseteq Items /\ got \subseteq Items /\ apc \in {"gather", "wait", "returned"}
    BY DEF PoolInit
  <2> QED BY <2>1, <2>2, <2>3, <2>4, <2>5, <2>6 DEF TypeOK
<1>3. Channels
  BY <1>1, PoolAssumption DEF PoolInit, Channels, Workers, CallArgs
<1>4. Conservation
  BY PoolAssumption DEF PoolInit, Conservation, Workers, Items
<1>5. CallerProgress
  BY DEF PoolInit, CallerProgress
<1> QED BY <1>2, <1>3, <1>4, <1>5 DEF PoolInv

\* Every step of the producer, a worker or the aggregator keeps it.
LEMMA NextInv == PoolInv /\ [PoolNext]_poolVars => PoolInv'
<1> SUFFICES ASSUME PoolInv, [PoolNext]_poolVars PROVE PoolInv'
  OBVIOUS
<1> USE PoolAssumption DEF Items, Workers, Outcome
<1>0. call \in CallArgs /\ Width(call) \in 0..MaxWidth
  BY WidthType DEF PoolInv, TypeOK
<1>1. CASE Produce
  <2> USE <1>1 DEF Produce
  <2>1. TypeOK'
    BY <1>0 DEF PoolInv, TypeOK, CallArgs
  <2>2. Channels'
    BY <1>0 DEF PoolInv, TypeOK, Channels, CallArgs
  <2>3. Conservation' /\ CallerProgress'
    BY DEF PoolInv, Conservation, CallerProgress, GatherEnds, Errors, Failed
  <2> QED BY <2>1, <2>2, <2>3 DEF PoolInv
<1>2. CASE CloseJobs
  BY <1>0, <1>2 DEF CloseJobs, PoolInv, TypeOK, Channels, Conservation, CallerProgress,
     CallArgs, GatherEnds, Errors, Failed
<1>3. CASE GatherDone
  BY <1>0, <1>3 DEF GatherDone, PoolInv, TypeOK, Channels, Conservation, CallerProgress,
     CallArgs, GatherEnds, Errors, Failed
<1>4. CASE WaitDone
  BY <1>0, <1>4 DEF WaitDone, PoolInv, TypeOK, Channels, Conservation, CallerProgress,
     CallArgs, GatherEnds, Errors, Failed
<1>5. ASSUME NEW w \in Workers, Take(w) PROVE PoolInv'
  <2> USE <1>5 DEF Take
  <2>1. TypeOK'
    <3>0. sent \in 0..N /\ taken \in 0..N /\ taken <= sent
      BY DEF PoolInv, TypeOK, Channels
    <3>1. sent' \in 0..N /\ taken' \in 0..N /\ taken + 1 \in 0..N
      BY <3>0
    <3>2. wpc' \in [Workers -> {"unborn", "recv", "work", "send", "done"}]
      BY DEF PoolInv, TypeOK
    <3>3. wjob' \in [Workers -> 0..N]
      BY <3>1 DEF PoolInv, TypeOK
    <3> QED BY <3>1, <3>2, <3>3 DEF PoolInv, TypeOK
  <2>2. Channels'
    <3>1. /\ sent \in 0..N /\ taken \in 0..N /\ taken <= sent /\ call.cap \in Nat
          /\ sent - taken <= call.cap /\ (closed => sent = N)
      BY <1>0 DEF PoolInv, TypeOK, Channels, CallArgs
    <3>2. /\ taken' <= sent' /\ sent' - taken' <= call'.cap
          /\ closed => sent' = N
      <4>1. CASE taken < sent /\ sent' = sent
        BY <3>1, <4>1
      <4>2. CASE call.cap = 0 /\ sent < N /\ sent' = sent + 1
        BY <3>1, <4>2
      <4> QED BY <4>1, <4>2
    <3>3. ASSUME NEW v \in Workers
          PROVE  /\ wpc'[v] = "unborn" <=> v > Width(call)
                 /\ wpc'[v] = "done" => closed' /\ taken' = N
                 /\ wjob'[v] # 0 <=> wpc'[v] \in {"work", "send"}
      <4>1. CASE v = w
        BY <3>1, <4>1 DEF PoolInv, TypeOK, Channels
      <4>2. CASE v # w
        <5>1. wpc'[v] = wpc[v] /\ wjob'[v] = wjob[v]
          BY <4>2 DEF PoolInv, TypeOK
        <5>2. wpc[v] # "done"
          BY <3>1 DEF PoolInv, Channels
        <5> QED BY <5>1, <5>2 DEF PoolInv, Channels
      <4> QED BY <4>1, <4>2
    <3>4. Width(call') = Width(call) /\ closed' = closed
      OBVIOUS
    <3> QED BY <3>2, <3>3, <3>4 DEF Channels
  <2>3. Conservation'
    <3>a. taken < N /\ taken \in Nat /\ taken' = taken + 1
      BY <1>0 DEF PoolInv, TypeOK, Channels, CallArgs
    <3>b. wjob[w] = 0
      BY DEF PoolInv, TypeOK, Channels
    <3>c. wjob'[w] = taken'
      BY DEF PoolInv, TypeOK
    <3>d. \A v \in Workers : v # w => wjob'[v] = wjob[v] /\ wpc'[v] = wpc[v]
      BY DEF PoolInv, TypeOK
    <3>1. /\ taken < N /\ taken' = taken + 1
          /\ wjob[w] = 0 /\ wjob'[w] = taken'
          /\ \A v \in Workers : v # w => wjob'[v] = wjob[v] /\ wpc'[v] = wpc[v]
      BY <3>a, <3>b, <3>c, <3>d
    <3>2. \A i \in Items :
            (\E v \in Workers : wjob'[v] = i) <=> (\E v \in Workers : wjob[v] = i) \/ i = taken'
      BY <3>1 DEF PoolInv, TypeOK
    <3>3. \A i \in Items :
            i <= taken' <=> i \in results \cup got \/ \E v \in Workers : wjob'[v] = i
      BY <3>1, <3>2 DEF PoolInv, TypeOK, Conservation
    <3>4. \A v \in Workers : wjob[v] # taken' /\ taken' \notin results \cup got
      BY <3>1 DEF PoolInv, TypeOK, Conservation
    <3>5. outcome[taken'] = "none" /\ wpc'[w] = "work"
      BY <3>1 DEF PoolInv, TypeOK, Conservation
    <3> QED BY <3>1, <3>3, <3>4, <3>5 DEF PoolInv, TypeOK, Conservation
  <2>4. CallerProgress'
    BY <1>0 DEF PoolInv, TypeOK, CallerProgress, GatherEnds, Errors, Failed
  <2> QED BY <2>1, <2>2, <2>3, <2>4 DEF PoolInv
<1>6. ASSUME NEW w \in Workers, NEW fails \in BOOLEAN, Work(w, fails) PROVE PoolInv'
  <2> USE <1>6 DEF Work
  <2>1. TypeOK'
    BY <1>0 DEF PoolInv, TypeOK, Channels, CallArgs
  <2>2. Channels'
    BY <1>0 DEF PoolInv, TypeOK, Channels, CallArgs
  <2>3. Conservation'
    <3>1. wjob[w] \in Items /\ wjob' = wjob /\ taken' = taken /\ results' = results /\ got' = got
      BY DEF PoolInv, TypeOK, Channels
    <3>2. \A i \in Items : i # wjob[w] => outcome'[i] = outcome[i]
      BY DEF PoolInv, TypeOK
    <3>3. outcome'[wjob[w]] # "none" /\ wpc'[w] = "send"
      BY <3>1 DEF PoolInv, TypeOK
    <3>4. wjob[w] <= taken /\ wjob[w] \notin results \cup got
      BY <3>1 DEF PoolInv, Conservation
    <3>5. ASSUME NEW v \in Workers
          PROVE  /\ wpc'[v] = "work" => outcome'[wjob'[v]] = "none"
                 /\ wpc'[v] = "send" => outcome'[wjob'[v]] # "none"
      <4>1. CASE v = w
        BY <3>1, <3>3, <4>1
      <4>2. CASE v # w
        <5>1. wpc'[v] = wpc[v]
          BY <4>2 DEF PoolInv, TypeOK
        <5>2. wpc[v] \in {"work", "send"} => wjob[v] \in Items /\ wjob[v] # wjob[w]
          BY <3>1, <4>2 DEF PoolInv, TypeOK, Channels, Conservation
        <5> QED BY <3>1, <3>2, <5>1, <5>2 DEF PoolInv, Conservation
      <4> QED BY <4>1, <4>2
    <3>6. /\ \A i \in results' \cup got' : outcome'[i] # "none"
          /\ \A i \in Items : i > taken' => outcome'[i] = "none"
      BY <3>1, <3>2, <3>3, <3>4 DEF PoolInv, TypeOK, Conservation
    <3>7. /\ \A i \in Items : i <= taken' <=> i \in results' \cup got' \/ \E v \in Workers : wjob'[v] = i
          /\ results' \cap got' = {}
          /\ \A v \in Workers : wjob'[v] \notin results' \cup got'
          /\ \A u, v \in Workers : wjob'[u] = wjob'[v] /\ wjob'[u] # 0 => u = v
      BY <3>1 DEF PoolInv, Conservation
    <3>8. \A v \in Workers : wpc'[v] = "work" => outcome'[wjob'[v]] = "none"
      BY <3>5
    <3>9. \A v \in Workers : wpc'[v] = "send" => outcome'[wjob'[v]] # "none"
      BY <3>5
    <3> QED BY <3>6, <3>7, <3>8, <3>9, ZenonT(40) DEF Conservation
  <2>4. CallerProgress'
    BY <1>0 DEF PoolInv, TypeOK, Channels, Conservation, CallerProgress, GatherEnds, Errors, Failed
  <2> QED BY <2>1, <2>2, <2>3, <2>4 DEF PoolInv
<1>7. ASSUME NEW w \in Workers, PutResult(w) PROVE PoolInv'
  <2> USE <1>7 DEF PutResult, WorkerFree
  <2>1. TypeOK'
    <3>1. wjob[w] \in Items
      BY DEF PoolInv, TypeOK, Channels
    <3>2. wpc' \in [Workers -> {"unborn", "recv", "work", "send", "done"}]
      BY DEF PoolInv, TypeOK
    <3>3. wjob' \in [Workers -> 0..N]
      BY DEF PoolInv, TypeOK
    <3>4. results' \subseteq Items /\ got' \subseteq Items
      BY <3>1 DEF PoolInv, TypeOK
    <3> QED BY <3>2, <3>3, <3>4 DEF PoolInv, TypeOK
  <2>2. Channels'
    BY <1>0 DEF PoolInv, TypeOK, Channels, CallArgs
  <2>3. Conservation'
    <3>1. /\ wjob[w] \in Items /\ wjob'[w] = 0 /\ taken' = taken /\ outcome' = outcome
          /\ results' = results \cup {wjob[w]} /\ got' = got
          /\ \A v \in Workers : v # w => wjob'[v] = wjob[v] /\ wpc'[v] = wpc[v]
          /\ outcome[wjob[w]] # "none" /\ wpc'[w] = "recv"
      BY DEF PoolInv, TypeOK, Channels, Conservation
    <3>2. \A v \in Workers : v # w => wjob[v] # wjob[w]
      BY <3>1 DEF PoolInv, TypeOK, Conservation
    <3>3. \A i \in Items :
            (\E v \in Workers : wjob[v] = i) <=> (\E v \in Workers : wjob'[v] = i) \/ i = wjob[w]
      BY <3>1
    <3>4. \A i \in Items :
            i <= taken <=> i \in results' \cup got' \/ \E v \in Workers : wjob'[v] = i
      BY <3>1, <3>3 DEF PoolInv, TypeOK, Conservation
    <3>5. \A v \in Workers : wjob'[v] \notin results' \cup got'
      BY <3>1, <3>2 DEF PoolInv, TypeOK, Conservation
    <3>6. results' \cap got' = {}
      <4>1. wjob[w] \notin results \cup got /\ results \cap got = {}
        BY DEF PoolInv, Conservation
      <4> QED BY <3>1, <4>1
    <3>7. ASSUME NEW u \in Workers, NEW v \in Workers,
                 wjob'[u] = wjob'[v], wjob'[u] # 0
          PROVE  u = v
      <4>1. u # w /\ v # w
        BY <3>1, <3>7
      <4>2. wjob[u] = wjob[v] /\ wjob[u] # 0
        BY <3>1, <3>7, <4>1
      <4> QED BY <4>2 DEF PoolInv, Conservation
    <3>8. ASSUME NEW v \in Workers
          PROVE  /\ wpc'[v] = "work" => outcome'[wjob'[v]] = "none"
                 /\ wpc'[v] = "send" => outcome'[wjob'[v]] # "none"
      <4>1. CASE v = w
        BY <3>1, <4>1
      <4>2. CASE v # w
        <5>1. wpc'[v] = wpc[v] /\ wjob'[v] = wjob[v] /\ outcome' = outcome
          BY <3>1, <4>2
        <5> QED BY <5>1 DEF PoolInv, Conservation
      <4> QED BY <4>1, <4>2
    <3>9. /\ \A i \in results' \cup got' : outcome'[i] # "none"
          /\ \A i \in Items : i > taken' => outcome'[i] = "none"
      BY <3>1 DEF PoolInv, TypeOK, Conservation
    <3>10. \A v \in Workers : wpc'[v] = "work" => outcome'[wjob'[v]] = "none"
      BY <3>8
    <3>11. \A v \in Workers : wpc'[v] = "send" => outcome'[wjob'[v]] # "none"
      BY <3>8
    <3> QED BY <3>4, <3>5, <3>6, <3>7, <3>9, <3>10, <3>11, ZenonT(40) DEF Conservation
  <2>4. CallerProgress'
    <3>1. GatherEnds' <=> GatherEnds
      BY DEF GatherEnds, Errors, Failed
    <3> QED BY <3>1 DEF PoolInv, TypeOK, CallerProgress
  <2> QED BY <2>1, <2>2, <2>3, <2>4 DEF PoolInv
<1>8. ASSUME NEW w \in Workers, HandResult(w) PROVE PoolInv'
  <2> USE <1>8 DEF HandResult, WorkerFree
  <2>1. TypeOK'
    <3>1. wjob[w] \in Items
      BY DEF PoolInv, TypeOK, Channels
    <3>2. wpc' \in [Workers -> {"unborn", "recv", "work", "send", "done"}]
      BY DEF PoolInv, TypeOK
    <3>3. wjob' \in [Workers -> 0..N]
      BY DEF PoolInv, TypeOK
    <3>4. results' \subseteq Items /\ got' \subseteq Items
      BY <3>1 DEF PoolInv, TypeOK
    <3> QED BY <3>2, <3>3, <3>4 DEF PoolInv, TypeOK
  <2>2. Channels'
    BY <1>0 DEF PoolInv, TypeOK, Channels, CallArgs
  <2>3. Conservation'
    <3>1. /\ wjob[w] \in Items /\ wjob'[w] = 0 /\ taken' = taken /\ outcome' = outcome
          /\ results' = results /\ got' = got \cup {wjob[w]}
          /\ \A v \in Workers : v # w => wjob'[v] = wjob[v] /\ wpc'[v] = wpc[v]
          /\ outcome[wjob[w]] # "none" /\ wpc'[w] = "recv"
      BY DEF PoolInv, TypeOK, Channels, Conservation
    <3>2. \A v \in Workers : v # w => wjob[v] # wjob[w]
      BY <3>1 DEF PoolInv, TypeOK, Conservation
    <3>3. \A i \in Items :
            (\E v \in Workers : wjob[v] = i) <=> (\E v \in Workers : wjob'[v] = i) \/ i = wjob[w]
      BY <3>1
    <3>4. \A i \in Items :
            i <= taken <=> i \in results' \cup got' \/ \E v \in Workers : wjob'[v] = i
      BY <3>1, <3>3 DEF PoolInv, TypeOK, Conservation
    <3>5. \A v \in Workers : wjob'[v] \notin results' \cup got'
      BY <3>1, <3>2 DEF PoolInv, TypeOK, Conservation
    <3>6. results' \cap got' = {}
      <4>1. wjob[w] \notin results \cup got /\ results \cap got = {}
        BY DEF PoolInv, Conservation
      <4> QED BY <3>1, <4>1
    <3>7. ASSUME NEW u \in Workers, NEW v \in Workers,
                 wjob'[u] = wjob'[v], wjob'[u] # 0
          PROVE  u = v
      <4>1. u # w /\ v # w
        BY <3>1, <3>7
      <4>2. wjob[u] = wjob[v] /\ wjob[u] # 0
        BY <3>1, <3>7, <4>1
      <4> QED BY <4>2 DEF PoolInv, Conservation
    <3>8. ASSUME NEW v \in Workers
          PROVE  /\ wpc'[v] = "work" => outcome'[wjob'[v]] = "none"
                 /\ wpc'[v] = "send" => outcome'[wjob'[v]] # "none"
      <4>1. CASE v = w
        BY <3>1, <4>1
      <4>2. CASE v # w
        <5>1. wpc'[v] = wpc[v] /\ wjob'[v] = wjob[v] /\ outcome' = outcome
          BY <3>1, <4>2
        <5> QED BY <5>1 DEF PoolInv, Conservation
      <4> QED BY <4>1, <4>2
    <3>9. /\ \A i \in results' \cup got' : outcome'[i] # "none"
          /\ \A i \in Items : i > taken' => outcome'[i] = "none"
      BY <3>1 DEF PoolInv, TypeOK, Conservation
    <3>10. \A v \in Workers : wpc'[v] = "work" => outcome'[wjob'[v]] = "none"
      BY <3>8
    <3>11. \A v \in Workers : wpc'[v] = "send" => outcome'[wjob'[v]] # "none"
      BY <3>8
    <3> QED BY <3>4, <3>5, <3>6, <3>7, <3>9, <3>10, <3>11, ZenonT(40) DEF Conservation
  <2>4. CallerProgress'
    BY DEF PoolInv, TypeOK, CallerProgress
  <2> QED BY <2>1, <2>2, <2>3, <2>4 DEF PoolInv
<1>9. ASSUME NEW w \in Workers, Stop(w) PROVE PoolInv'
  <2> USE <1>0, <1>9 DEF Stop
  <2>1. TypeOK'
    BY DEF PoolInv, TypeOK
  <2>2. Channels'
    BY DEF PoolInv, TypeOK, Channels, CallArgs
  <2>3. Conservation'
    BY DEF PoolInv, TypeOK, Conservation
  <2>4. CallerProgress'
    BY DEF PoolInv, TypeOK, CallerProgress, GatherEnds, Errors, Failed
  <2> QED BY <2>1, <2>2, <2>3, <2>4 DEF PoolInv
<1>10. ASSUME NEW i \in Items, Gather(i) PROVE PoolInv'
  <2> USE <1>0, <1>10 DEF Gather
  <2>1. TypeOK'
    BY DEF PoolInv, TypeOK
  <2>2. Channels'
    BY DEF PoolInv, TypeOK, Channels, CallArgs
  <2>3. Conservation'
    BY DEF PoolInv, TypeOK, Conservation
  <2>4. CallerProgress'
    BY DEF PoolInv, TypeOK, CallerProgress, GatherEnds, Errors, Failed
  <2> QED BY <2>1, <2>2, <2>3, <2>4 DEF PoolInv
<1>11. CASE UNCHANGED poolVars
  BY <1>11 DEF poolVars, PoolInv, TypeOK, Channels, Conservation, CallerProgress,
     GatherEnds, Errors, Failed
<1> QED
  BY <1>1, <1>2, <1>3, <1>4, <1>5, <1>6, <1>7, <1>8, <1>9, <1>10, <1>11
     DEF PoolNext, PoolStep, PoolIdle

\* Every reachable state of the pool satisfies its inductive invariant: the
\* channel bookkeeping and the conservation of inputs.
THEOREM PoolInvariant == PoolSpec => []PoolInv
<1> QED BY InitInv, NextInv, PTL DEF PoolSpec

\* When scatterGather returns, every input has been processed, whichever
\* aggregator the caller uses.
LEMMA AtReturn == PoolInv => AllProcessedAtReturn
  <1> SUFFICES ASSUME PoolInv, apc = "returned", NEW i \in Items
               PROVE  outcome[i] # "none"
    BY DEF AllProcessedAtReturn
  <1>1. N > 0 /\ 1 \in Workers /\ Width(call) \in Nat /\ Width(call) >= 1
    BY WidthType, PoolAssumption DEF PoolInv, TypeOK, Items, Workers
  <1>2. \A w \in Workers : wjob[w] = 0
    BY DEF PoolInv, Channels, CallerProgress
  <1>3. taken = N
    <2>1. wpc[1] # "unborn"
    BY <1>1 DEF PoolInv, Channels
  <2>2. wpc[1] = "done"
    BY <1>1, <2>1 DEF PoolInv, CallerProgress
  <2> QED BY <1>1, <2>2 DEF PoolInv, Channels
  <1>4. i \in results \cup got
    BY <1>2, <1>3, PoolAssumption DEF PoolInv, Conservation, Items
  <1> QED BY <1>4 DEF PoolInv, Conservation

\* No input of scatterGather is unprocessed when it returns, also when the
\* aggregator has stopped early.
THEOREM AllProcessed == PoolSpec => []AllProcessedAtReturn
<1> QED BY AtReturn, PoolInvariant, PTL

\* scatterGather's caller never mistakes a failed call for a successful one.
THEOREM ErrorsReported == PoolSpec => []NoErrorSwallowed
<1>1. PoolInv => NoErrorSwallowed
  <2> SUFFICES ASSUME PoolInv, apc = "returned" PROVE NoErrorSwallowed
    BY DEF NoErrorSwallowed
  <2>1. got = Items \/ (call.early /\ Errors # {})
    BY DEF PoolInv, CallerProgress, GatherEnds
  <2>2. Errors \subseteq Failed
    BY DEF Errors
  <2>3. got = Items => Errors = Failed
    BY DEF Errors, Failed
  <2> QED BY <2>1, <2>2, <2>3 DEF NoErrorSwallowed
<1> QED BY <1>1, PoolInvariant, PTL

\* The pool implements the parallel for of module ParallelFor: each of its
\* steps is a step of that specification or changes nothing it can see.
THEOREM Refinement == PoolSpec => ImplementsFor
<1> USE PoolAssumption DEF Items, Workers
<1> DEFINE busy == [w \in Workers |-> IF wpc[w] = "work" THEN wjob[w] ELSE 0]
           over == {i \in Items : outcome[i] # "none"}
<1>1. PoolInit => For!ForInit
  <2> SUFFICES ASSUME PoolInit PROVE For!ForInit
    OBVIOUS
  <2>1. busy = [w \in Workers |-> 0]
    BY DEF PoolInit
  <2>2. over = {}
    BY DEF PoolInit
  <2>3. Width(call) \in 0..MaxWidth /\ (N > 0 => Width(call) > 0)
    BY WidthType DEF PoolInit
  <2>4. (apc = "returned") = FALSE /\ taken = 0
    BY DEF PoolInit
  <2> HIDE DEF busy, over
  <2>5. busy = [w \in For!Slots |-> 0]
    BY <2>1 DEF For!Slots
  <2> QED BY <2>2, <2>3, <2>4, <2>5 DEF For!ForInit, busy, over
<1>2. PoolInv /\ [PoolNext]_poolVars => [For!ForNext]_(For!forVars)
  <2> SUFFICES ASSUME PoolInv, [PoolNext]_poolVars
               PROVE  [For!ForNext]_(For!forVars)
    OBVIOUS
  <2> HIDE DEF busy, over
  <2>a. (UNCHANGED <<call, taken, wpc, wjob, outcome, apc>>) => UNCHANGED For!forVars
    BY DEF For!forVars, Width, busy, over
  <2>1. CASE Produce \/ CloseJobs \/ (\E i \in Items : Gather(i)) \/ UNCHANGED poolVars
    BY <2>1, <2>a DEF Produce, CloseJobs, Gather, poolVars
  <2>2. CASE GatherDone
    BY <2>2 DEF GatherDone, For!forVars, Width
  <2>3. CASE WaitDone
    <3>1. \A w \in Workers : wpc[w] # "work"
      BY <2>3 DEF WaitDone
    <3>2. wpc' = wpc /\ outcome' = outcome /\ taken' = taken /\ call' = call /\ apc' = "returned"
      BY <2>3 DEF WaitDone
    <3>3. AllProcessedAtReturn'
      <4>1. PoolInv' => AllProcessedAtReturn'
        BY AtReturn, PTL
      <4> QED BY <4>1, NextInv
    <3>4. over = 1..N
      BY <3>2, <3>3 DEF AllProcessedAtReturn, over
    <3>5. busy = [w \in Workers |-> 0] /\ busy' = busy /\ over' = over
      BY <3>1, <3>2 DEF busy, over
    <3>6. For!ReturnAll
      BY <3>2, <3>4, <3>5 DEF For!ReturnAll, For!Slots, busy, over, Width
    <3> QED BY <3>6 DEF For!ForNext
  <2>4. ASSUME NEW w \in Workers, Take(w) PROVE For!Start(w)
    <3>1. /\ taken < N /\ taken' = taken + 1 /\ wpc[w] = "recv"
          /\ call' = call /\ outcome' = outcome /\ apc' = apc
      BY <2>4, WidthType DEF Take, PoolInv, TypeOK, Channels, CallArgs
    <3>2. w <= Width(call)
      BY <3>1, WidthType DEF PoolInv, TypeOK, Channels
    <3>3. busy' = [busy EXCEPT ![w] = taken + 1] /\ busy[w] = 0
      BY <2>4, <3>1 DEF Take, busy, PoolInv, TypeOK
    <3>4. over' = over /\ Width(call)' = Width(call)
      BY <3>1 DEF over, Width
    <3> QED BY <3>1, <3>2, <3>3, <3>4 DEF For!Start, busy, over
  <2>5. ASSUME NEW w \in Workers, NEW fails \in BOOLEAN, Work(w, fails) PROVE For!Finish(w)
    <3>1. /\ wjob[w] \in Items /\ wpc[w] = "work" /\ wpc' = [wpc EXCEPT ![w] = "send"]
          /\ call' = call /\ taken' = taken /\ apc' = apc /\ wjob' = wjob
      BY <2>5 DEF Work, PoolInv, TypeOK, Channels
    <3>2. busy' = [busy EXCEPT ![w] = 0] /\ busy[w] = wjob[w]
      BY <3>1 DEF busy, PoolInv, TypeOK
    <3>3. over' = over \cup {wjob[w]}
      BY <2>5, <3>1 DEF Work, over, PoolInv, TypeOK, Outcome
    <3>4. Width(call)' = Width(call)
      BY <3>1 DEF Width
    <3> QED BY <3>1, <3>2, <3>3, <3>4 DEF For!Finish, busy, over
  <2>6. ASSUME NEW w \in Workers, PutResult(w) \/ HandResult(w) \/ Stop(w)
        PROVE  UNCHANGED For!forVars
    <3>1. busy' = busy
      BY <2>6 DEF PutResult, HandResult, Stop, WorkerFree, busy, PoolInv, TypeOK
    <3>2. call' = call /\ taken' = taken /\ outcome' = outcome /\ apc'= apc
      BY <2>6 DEF PutResult, HandResult, Stop, WorkerFree
    <3> QED BY <3>1, <3>2 DEF For!forVars, Width, busy
  <2> QED
    BY <2>1, <2>2, <2>3, <2>4, <2>5, <2>6 DEF PoolNext, PoolStep, PoolIdle, For!ForNext, For!Slots
<1> QED BY <1>1, <1>2, PoolInvariant, PTL DEF ImplementsFor, For!ForSpec, PoolSpec
=============================================================================
