---------------------------- MODULE VisitProofs ----------------------------
(* The walk of the helmfile tree, for any tree, any paths and any depth: the *)
(* calls and goroutines end before those that started them, the outcome of   *)
(* the first call tells what happened below it, nested helmfiles come in     *)
(* order, and a walk without goroutines keeps its working directory.         *)
EXTENDS Visit, SequenceTheorems, TLAPS

Item == Visits \cup Jobs
Pos  == Nat \ {0}

-----------------------------------------------------------------------------
(* The names of calls and files.                                             *)

\* One step down the tree and up again.
LEMMA ChildName ==
  ASSUME NEW x \in Seq(Pos), NEW i \in Pos
  PROVE  /\ Child(x, i) \in Seq(Pos) /\ Len(Child(x, i)) = Len(x) + 1
         /\ Child(x, i)[Len(x) + 1] = i
         /\ \A n \in 1..Len(x) : SubSeq(Child(x, i), 1, n) = SubSeq(x, 1, n)
         /\ SubSeq(Child(x, i), 1, Len(x)) = x
<1>1. <<i>> \in Seq(Pos) /\ Len(<<i>>) = 1 /\ <<i>>[1] = i
  OBVIOUS
<1>2. Len(x) \in Nat
  BY LenProperties
<1>3. /\ Child(x, i) \in Seq(Pos) /\ Len(Child(x, i)) = Len(x) + 1
      /\ Child(x, i)[Len(x) + 1] = i
  BY <1>1, <1>2, ConcatProperties DEF Child
<1>4. ASSUME NEW n \in 1..Len(x) PROVE SubSeq(Child(x, i), 1, n) = SubSeq(x, 1, n)
  <2>1. 1 \in 1..Len(x)
    BY <1>2
  <2> QED BY <1>1, <2>1, SubSeqOfConcat1 DEF Child
<1>5. SubSeq(Child(x, i), 1, Len(x)) = x
  <2>1. CASE x = << >>
    <3>1. Len(x) = 0
      BY <2>1
    <3> QED BY <2>1, <3>1, SubSeqEmpty
  <2>2. CASE x # << >>
    <3>1. Len(x) \in 1..Len(x)
      BY <1>2, <2>2, EmptySeq
    <3> QED BY <1>4, <3>1, SubSeqFull
  <2> QED BY <2>1, <2>2
<1> QED BY <1>3, <1>4, <1>5

\* The caller of a child is its parent.
LEMMA ChildUp ==
  ASSUME NEW x \in Seq(Pos), NEW i \in Pos
  PROVE  VisitOf(Child(x, i)) = x /\ CallerOf(Child(x, i)) = x /\ Position(Child(x, i)) = i
<1>1. Len(x) \in Nat /\ Len(Child(x, i)) - 1 = Len(x)
  BY ChildName, LenProperties
<1> QED BY <1>1, ChildName DEF VisitOf, CallerOf, Position

\* Calls have names of even length, files of odd length.
LEMMA ItemName ==
  /\ \A v \in Visits : v \in Seq(Pos) /\ Len(v) % 2 = 0
  /\ \A j \in Jobs : j \in Seq(Pos) /\ Len(j) % 2 = 1
<1>1. \A v \in Visits : v \in Seq(Pos) /\ Len(v) % 2 = 0
  BY VisitAssumption DEF Pos
<1>2. ASSUME NEW j \in Jobs PROVE j \in Seq(Pos) /\ Len(j) % 2 = 1
  <2>1. PICK v \in Visits, i \in 1..MaxFiles : j = Child(v, i)
    BY DEF Jobs
  <2>2. i \in Pos /\ v \in Seq(Pos) /\ Len(v) % 2 = 0
    BY <1>1, VisitAssumption DEF Pos
  <2>3. j \in Seq(Pos) /\ Len(j) = Len(v) + 1
    BY <2>1, <2>2, ChildName
  <2>4. Len(v) \in Nat
    BY <2>2, LenProperties
  <2> QED BY <2>2, <2>3, <2>4
<1> QED BY <1>1, <1>2

\* Every file is a file of a call.
LEMMA JobName ==
  /\ \A v \in Visits : \A i \in 1..MaxFiles :
       /\ Child(v, i) \in Jobs /\ VisitOf(Child(v, i)) = v /\ Position(Child(v, i)) = i
       /\ \A k \in 1..MaxFiles : Child(v, i) = Child(v, k) => i = k
  /\ \A j \in Jobs :
       VisitOf(j) \in Visits /\ Position(j) \in 1..MaxFiles /\ j = Child(VisitOf(j), Position(j))
<1>1. ASSUME NEW v \in Visits, NEW i \in 1..MaxFiles
      PROVE Child(v, i) \in Jobs /\ VisitOf(Child(v, i)) = v /\ Position(Child(v, i)) = i
  <2>1. i \in Pos /\ v \in Seq(Pos)
    BY ItemName, VisitAssumption DEF Pos
  <2> QED BY <2>1, ChildUp DEF Jobs
<1>2. ASSUME NEW j \in Jobs
      PROVE VisitOf(j) \in Visits /\ Position(j) \in 1..MaxFiles /\ j = Child(VisitOf(j), Position(j))
  <2>1. PICK v \in Visits, i \in 1..MaxFiles : j = Child(v, i)
    BY DEF Jobs
  <2> QED BY <1>1, <2>1
<1> QED BY <1>1, <1>2

\* A nested helmfile is one of the file that nests it.
LEMMA NestedName ==
  ASSUME NEW j \in Jobs, NEW k \in Pos
  PROVE  /\ Child(j, k) # << >> /\ CallerOf(Child(j, k)) = j
         /\ \A i \in Jobs : \A l \in Pos : Child(j, k) = Child(i, l) => j = i /\ k = l
<1>1. \A i \in Jobs : i \in Seq(Pos)
  BY ItemName
<1>2. \A i \in Jobs : \A l \in Pos : CallerOf(Child(i, l)) = i /\ Position(Child(i, l)) = l
  BY <1>1, ChildUp
<1>3. Len(Child(j, k)) = Len(j) + 1 /\ Len(j) \in Nat
  BY <1>1, ChildName, LenProperties
<1>4. Len(<< >>) = 0
  BY EmptySeq
<1>5. Child(j, k) # << >>
  BY <1>3, <1>4
<1> QED BY <1>2, <1>5

\* Below is an order.
LEMMA BelowOrder ==
  ASSUME NEW x \in Seq(Pos), NEW y \in Seq(Pos), NEW z \in Seq(Pos)
  PROVE  /\ Below(x, x)
         /\ Below(x, y) /\ Below(y, x) => x = y
         /\ Below(x, y) /\ Below(y, z) => Below(x, z)
         /\ Below(x, y) /\ Below(x, z) => Below(y, z) \/ Below(z, y)
         /\ Below(x, << >>)
<1>1. /\ Len(x) \in Nat /\ Len(y) \in Nat /\ Len(z) \in Nat
      /\ SubSeq(x, 1, Len(x)) = x /\ SubSeq(y, 1, Len(y)) = y /\ SubSeq(z, 1, Len(z)) = z
  BY LenProperties, SubSeqFull
<1>2. ASSUME NEW s \in Seq(Pos), NEW m \in 0..Len(s), NEW n \in 0..m
      PROVE  SubSeq(SubSeq(s, 1, m), 1, n) = SubSeq(s, 1, n)
  <2>0. Len(s) \in Nat /\ m \in Nat /\ n \in Nat
    BY <1>2, LenProperties
  <2>1. CASE n = 0
    <3>1. SubSeq(s, 1, n) = << >>
      BY <2>1, SubSeqEmpty
    <3>2. SubSeq(SubSeq(s, 1, m), 1, n) = << >>
      BY <2>1, SubSeqEmpty
    <3> QED BY <3>1, <3>2
  <2>2. CASE n # 0
    <3>1. 1 \in 1..Len(s) /\ m \in 1..Len(s) /\ 1 \in 1..(m - 1 + 1) /\ n \in 1..(m - 1 + 1)
      BY <2>0, <2>2
    <3>2. SubSeq(SubSeq(s, 1, m), 1, n) = SubSeq(s, 1 + 1 - 1, 1 + n - 1)
      BY <3>1, <1>1, SubSeqOfSubSeq
    <3> QED BY <2>0, <3>2
  <2> QED BY <2>1, <2>2
<1>3. Below(x, x)
  BY <1>1 DEF Below
<1>4. Below(x, y) /\ Below(y, x) => x = y
  <2> SUFFICES ASSUME Below(x, y), Below(y, x) PROVE x = y
    OBVIOUS
  <2>0. Len(x) >= Len(y) /\ Len(y) >= Len(x) /\ SubSeq(x, 1, Len(y)) = y
    BY DEF Below
  <2>1. Len(x) \in Nat /\ Len(y) \in Nat
    BY <1>1
  <2>2. Len(x) = Len(y)
    BY <2>0, <2>1
  <2>3. SubSeq(x, 1, Len(x)) = y
    BY <2>0, <2>2
  <2> QED BY <1>1, <2>3
<1>5. Below(x, y) /\ Below(y, z) => Below(x, z)
  <2> SUFFICES ASSUME Below(x, y), Below(y, z) PROVE Below(x, z)
    OBVIOUS
  <2>1. Len(x) >= Len(y) /\ Len(y) >= Len(z) /\ SubSeq(x, 1, Len(y)) = y /\ SubSeq(y, 1, Len(z)) = z
    BY DEF Below
  <2>2. Len(y) \in 0..Len(x) /\ Len(z) \in 0..Len(y)
    BY <1>1, <2>1
  <2>3. SubSeq(SubSeq(x, 1, Len(y)), 1, Len(z)) = SubSeq(x, 1, Len(z))
    BY <1>2, <2>2
  <2> QED BY <1>1, <2>1, <2>3 DEF Below
<1>6. Below(x, y) /\ Below(x, z) => Below(y, z) \/ Below(z, y)
  <2> SUFFICES ASSUME Below(x, y), Below(x, z) PROVE Below(y, z) \/ Below(z, y)
    OBVIOUS
  <2>1. Len(x) >= Len(y) /\ Len(x) >= Len(z) /\ SubSeq(x, 1, Len(y)) = y /\ SubSeq(x, 1, Len(z)) = z
    BY DEF Below
  <2>2. Len(y) \in 0..Len(x) /\ Len(z) \in 0..Len(x)
    BY <1>1, <2>1
  <2>3. CASE Len(y) >= Len(z)
    <3>1. Len(z) \in 0..Len(y)
      BY <1>1, <2>3
    <3>2. SubSeq(SubSeq(x, 1, Len(y)), 1, Len(z)) = SubSeq(x, 1, Len(z))
      BY <1>2, <2>2, <3>1
    <3> QED BY <2>1, <2>3, <3>2 DEF Below
  <2>4. CASE Len(z) >= Len(y)
    <3>1. Len(y) \in 0..Len(z)
      BY <1>1, <2>4
    <3>2. SubSeq(SubSeq(x, 1, Len(z)), 1, Len(y)) = SubSeq(x, 1, Len(y))
      BY <1>2, <2>2, <3>1
    <3> QED BY <2>1, <2>4, <3>2 DEF Below
  <2> QED BY <1>1, <2>3, <2>4
<1>7. Below(x, << >>)
  <2>1. Len(<< >>) = 0 /\ SubSeq(x, 1, 0) = << >>
    BY EmptySeq, SubSeqEmpty
  <2> QED BY <1>1, <2>1 DEF Below
<1> QED BY <1>3, <1>4, <1>5, <1>6, <1>7

\* What is below a child is below its parent.
LEMMA BelowChild ==
  ASSUME NEW x \in Seq(Pos), NEW i \in Pos, NEW y \in Seq(Pos)
  PROVE  /\ Below(Child(x, i), x) /\ Child(x, i) # x
         /\ Below(Child(x, i), y) /\ y # Child(x, i) => Below(x, y)
<1>1. /\ Child(x, i) \in Seq(Pos) /\ Len(Child(x, i)) = Len(x) + 1 /\ SubSeq(Child(x, i), 1, Len(x)) = x
      /\ Len(x) \in Nat /\ Len(y) \in Nat
  BY ChildName, LenProperties
<1>2. Below(Child(x, i), x) /\ Child(x, i) # x
  BY <1>1 DEF Below
<1>3. ASSUME Below(Child(x, i), y), y # Child(x, i) PROVE Below(x, y)
  <2>1. Below(x, y) \/ Below(y, x)
    BY <1>1, <1>2, <1>3, BelowOrder
  <2>2. CASE Below(y, x) /\ y # x
    <3>1. Len(y) # Len(x)
      BY <1>1, <2>2, SubSeqFull DEF Below
    <3>0. Len(y) >= Len(x) /\ Len(Child(x, i)) >= Len(y)
      BY <1>3, <2>2 DEF Below
    <3>2. Len(y) = Len(Child(x, i))
      BY <1>1, <3>0, <3>1
    <3>3. SubSeq(Child(x, i), 1, Len(y)) = y
      BY <1>3 DEF Below
    <3>4. SubSeq(Child(x, i), 1, Len(Child(x, i))) = y
      BY <3>2, <3>3
    <3>5. Child(x, i) = y
      BY <1>1, <3>4, SubSeqFull
    <3> QED BY <1>3, <3>5
  <2> QED BY <1>1, <2>1, <2>2, BelowOrder
<1> QED BY <1>2, <1>3

\* The children of calls are files, and the other way round.
LEMMA ChildKind ==
  ASSUME NEW y \in Item, NEW k \in Pos, Child(y, k) \in Item
  PROVE  /\ y \in Visits => Child(y, k) \in Jobs /\ k \in 1..MaxFiles
         /\ y \in Jobs => Child(y, k) \in Visits
         /\ ~(y \in Visits /\ y \in Jobs)
<1>1. y \in Seq(Pos) /\ Len(y) \in Nat
  BY ItemName, LenProperties DEF Item
<1>2. Len(Child(y, k)) = Len(y) + 1
  BY <1>1, ChildName
<1>3. /\ y \in Visits => Len(y) % 2 = 0 /\ Len(Child(y, k)) % 2 = 1
      /\ y \in Jobs => Len(y) % 2 = 1 /\ Len(Child(y, k)) % 2 = 0
  BY <1>1, <1>2, ItemName
<1>4. /\ y \in Visits => Child(y, k) \in Jobs
      /\ y \in Jobs => Child(y, k) \in Visits
      /\ ~(y \in Visits /\ y \in Jobs)
  BY <1>3, ItemName DEF Item
<1>5. Child(y, k) \in Jobs => k \in 1..MaxFiles
  BY <1>1, JobName, ChildUp
<1> QED BY <1>4, <1>5

\* Between two names there is a child of the upper one.
LEMMA PathDown ==
  ASSUME NEW x \in Item, NEW y \in Item, Below(x, y), x # y
  PROVE  \E k \in Pos : Child(y, k) \in Item /\ Below(x, Child(y, k))
<1>1. x \in Seq(Pos) /\ y \in Seq(Pos) /\ Len(x) \in Nat /\ Len(y) \in Nat
  BY ItemName, LenProperties DEF Item
<1>2. Len(x) >= Len(y) /\ SubSeq(x, 1, Len(y)) = y
  BY DEF Below
<1>3. Len(x) # Len(y)
  BY <1>1, <1>2, SubSeqFull
<1>4. Len(y) + 1 \in 1..Len(x)
  BY <1>1, <1>2, <1>3
<1>5. x[Len(y) + 1] \in Pos
  BY <1>1, <1>4, ElementOfSeq
<1>6. SubSeq(x, 1, Len(y) + 1) = Child(y, x[Len(y) + 1])
  <2>1. 1 \in 1..Len(x) /\ Len(y) + 1 \in 1..Len(x) /\ Len(y) + 1 - 1 = Len(y)
    BY <1>1, <1>4
  <2>2. SubSeq(x, 1, Len(y) + 1) = SubSeq(x, 1, Len(y) + 1 - 1) \o <<x[Len(y) + 1]>>
    BY <1>1, <2>1, SubSeqRecursiveSecond
  <2> QED BY <1>2, <2>1, <2>2 DEF Child
<1>7. Below(x, Child(y, x[Len(y) + 1]))
  <2>1. Len(Child(y, x[Len(y) + 1])) = Len(y) + 1
    BY <1>1, <1>5, ChildName
  <2> QED BY <1>1, <1>4, <1>6, <2>1 DEF Below
<1>8. SubSeq(x, 1, Len(y) + 1) \in Item
  <2>1. CASE x \in Visits
    BY <1>4, <2>1, VisitAssumption DEF Item
  <2>2. CASE x \in Jobs
    <3>1. PICK v \in Visits, i \in 1..MaxFiles : x = Child(v, i)
      BY <2>2 DEF Jobs
    <3>2. i \in Pos /\ v \in Seq(Pos) /\ Len(v) \in Nat
      BY ItemName, LenProperties, VisitAssumption DEF Pos
    <3>3. Len(x) = Len(v) + 1
      BY <3>1, <3>2, ChildName
    <3>4. CASE Len(y) + 1 = Len(x)
      BY <1>1, <3>4, SubSeqFull
    <3>5. CASE Len(y) + 1 # Len(x)
      <4>1. Len(y) + 1 \in 1..Len(v)
        BY <1>1, <1>4, <3>2, <3>3, <3>5
      <4>2. SubSeq(x, 1, Len(y) + 1) = SubSeq(v, 1, Len(y) + 1)
        BY <3>1, <3>2, <4>1, ChildName
      <4> QED BY <4>1, <4>2, VisitAssumption DEF Item
    <3> QED BY <3>4, <3>5
  <2> QED BY <2>1, <2>2 DEF Item
<1> QED BY <1>5, <1>6, <1>7, <1>8

-----------------------------------------------------------------------------
(* The invariant: one file, one nested helmfile, one call, one of its files. *)

JobOK(j) ==
  /\ job[j].pc \in {"idle", "resolve", "chdir", "load"} =>
       job[j].read = Nowhere /\ ~job[j].failed /\ job[j].at = Nowhere
  /\ job[j].read = Nowhere => job[j].sub = 1 /\ job[j].noMatchSub /\ job[j].outcome = "none"
  /\ job[j].read # Nowhere => job[j].dir # Nowhere
  /\ job[j].pc \in {"subs", "template", "converge", "after"} => job[j].read # Nowhere
  /\ job[j].pc \in {"subs", "template", "converge"} => job[j].outcome = "none" /\ ~job[j].failed
  /\ job[j].pc = "subs" => ~options.reverse
  /\ job[j].pc \in {"template", "converge"} =>
       IF options.reverse THEN job[j].sub = 1 /\ job[j].noMatchSub ELSE job[j].sub \notin DOMAIN Subs(j)
  /\ job[j].pc = "after" => options.reverse /\ RanConverge(j)
  /\ RanConverge(j) /\ ~options.reverse => job[j].sub \notin DOMAIN Subs(j)
  /\ job[j].pc \in {"back", "done"} => job[j].outcome # "none" \/ job[j].failed
  /\ job[j].pc \in {"back", "done"} /\ ~job[j].failed /\ job[j].outcome # "skipped" =>
       job[j].sub \notin DOMAIN Subs(j)
  /\ job[j].outcome = "skipped" => job[j].noMatchSub /\ job[j].sub = 1

NestedOK(j, k) ==
  LET w == Child(j, k) IN
  /\ k < job[j].sub =>
       /\ w \in Visits /\ visit[w].pc = "done" /\ visit[w].result # "error"
       /\ job[j].noMatchSub => visit[w].result = "noMatch"
  /\ w \in Visits /\ k > job[j].sub => visit[w].pc = "idle"
  /\ w \in Visits /\ visit[w].pc # "idle" =>
       /\ job[j].read # Nowhere /\ k \in DOMAIN Subs(j)
       /\ options.reverse => RanConverge(j)
  /\ w \in Visits /\ visit[w].pc # "idle" /\ k = job[j].sub =>
       InSubs(j) \/ (job[j].pc \in {"back", "done"} /\ job[j].failed /\ visit[w].result = "error")

HeardSub(j) ==
  ~job[j].noMatchSub => \E k \in 1..(job[j].sub - 1) : visit[Child(j, k)].result = "ok"

CallOK(v) ==
  /\ visit[v].pc \in {"idle", "find", "again"} =>
       /\ visit[v].next = 1 /\ visit[v].errors = 0 /\ visit[v].matches = 0
       /\ visit[v].noMatch /\ ~visit[v].parallel
  /\ visit[v].pc # "idle" => visit[v].path \in Paths
  /\ visit[v].result = "none" <=> visit[v].pc # "done"
  /\ visit[v].pc = "walk" => ~visit[v].parallel
  /\ visit[v].pc = "wait" => visit[v].parallel
  /\ visit[v].result \in {"ok", "noMatch"} /\ ~visit[v].parallel =>
       visit[v].next \notin DOMAIN visit[v].files /\ (visit[v].result = "ok" <=> ~visit[v].noMatch)
  /\ visit[v].result \in {"ok", "noMatch"} /\ visit[v].parallel =>
       visit[v].errors = 0 /\ (visit[v].result = "ok" <=> visit[v].matches > 0)

Accounted(j) == job[j].read # Nowhere /\ job[j].sub \notin DOMAIN Subs(j) /\ ~InSubs(j)

FileOK(j) ==
  LET v == VisitOf(j)
      i == Position(j)
  IN
  /\ job[j].pc # "idle" => visit[v].pc \in {"walk", "wait", "done"} /\ i \in DOMAIN visit[v].files
  /\ visit[v].parallel =>
       /\ i \in DOMAIN visit[v].files => job[j].pc # "idle"
       /\ visit[v].pc = "done" => job[j].pc \in {"idle", "done"}
       /\ job[j].pc \notin {"chdir", "back"}
       /\ job[j].failed => visit[v].errors > 0
       /\ job[j].outcome = "processed" => visit[v].matches > 0
  /\ ~visit[v].parallel =>
       /\ i < visit[v].next => job[j].pc = "done" /\ ~job[j].failed
       /\ i > visit[v].next => job[j].pc = "idle"
       /\ job[j].pc \notin {"idle", "done"} => visit[v].pc = "walk"
       /\ visit[v].pc = "done" /\ job[j].failed => visit[v].result = "error"
       /\ job[j].pc = "load" => job[j].dir # Nowhere
       /\ job[j].outcome = "processed" => ~visit[v].noMatch
       /\ ~job[j].noMatchSub /\ Accounted(j) => ~visit[v].noMatch

HeardFile(v) ==
  /\ visit[v].parallel /\ visit[v].matches > 0 =>
       \E j \in Jobs : VisitOf(j) = v /\ job[j].outcome = "processed"
  /\ ~visit[v].parallel /\ ~visit[v].noMatch =>
       \E j \in Jobs : VisitOf(j) = v /\ (job[j].outcome = "processed" \/ ~job[j].noMatchSub)

LocalInv ==
  /\ VisitTypeOK
  /\ \A j \in Jobs : JobOK(j) /\ HeardSub(j) /\ FileOK(j)
  /\ \A j \in Jobs : \A k \in Pos : NestedOK(j, k)
  /\ \A v \in Visits : CallOK(v) /\ HeardFile(v)

-----------------------------------------------------------------------------
(* The invariant: the tree.                                                  *)

Active(x) ==
  \/ x \in Visits /\ visit[x].pc \notin {"idle", "done"}
  \/ x \in Jobs /\ job[x].pc \notin {"idle", "done"}
Started(x) ==
  \/ x \in Visits /\ visit[x].pc # "idle"
  \/ x \in Jobs /\ job[x].pc # "idle"
Trouble(x) ==
  \/ x \in Visits /\ visit[x].result = "error"
  \/ x \in Jobs /\ job[x].failed

\* The processed releases of file j count for call v.
Counts(j, v) ==
  /\ job[j].outcome = "processed" /\ Below(j, v)
  /\ \A u \in Visits : Below(j, u) /\ Below(u, v) /\ Parallel(u) => VisitOf(j) = u

ActiveUp  == \A x, y \in Item : Below(x, y) /\ Active(x) => Active(y)
StartedUp == \A x, y \in Item : Below(x, y) /\ Started(x) => Started(y)
TroubleUp == \A x, y \in Item : Below(x, y) /\ Trouble(x) => Active(y) \/ Trouble(y)
Told(v) ==
  /\ visit[v].result = "ok" => \E j \in Jobs : Counts(j, v)
  /\ visit[v].result = "noMatch" => \A j \in Jobs : ~Counts(j, v)

TreeInv == ActiveUp /\ StartedUp /\ TroubleUp /\ \A v \in Visits : Told(v)

Home(v) == IF v = << >> THEN Start ELSE job[CallerOf(v)].dir
Here(x) ==
  IF x \in Visits THEN Home(x)
  ELSE IF job[x].pc \in {"resolve", "chdir"} THEN Home(VisitOf(x)) ELSE job[x].dir
Top(x) == Active(x) /\ \A y \in Item : Active(y) /\ Below(y, x) => y = x

Chain   == \A x, y \in Item : Active(x) /\ Active(y) => Below(x, y) \/ Below(y, x)
WalkTop == \A x \in Item : Top(x) => cwd = Here(x)
WalkCall(v) ==
  /\ ~visit[v].parallel
  /\ visit[v].pc = "walk" =>
       LET place == Join[Home(v)][visit[v].path] IN place # Nowhere /\ visit[v].files = FilesAt(place)
WalkFile(j) ==
  /\ job[j].pc \notin {"idle", "resolve"} => job[j].dir = DirOf[Asked(j)]
  /\ job[j].pc \notin {"idle", "resolve", "done"} => job[j].prev = Home(VisitOf(j))
  /\ job[j].read # Nowhere => job[j].read = Asked(j) /\ job[j].at \in {Nowhere, DirOf[Asked(j)]}

WalkInv ==
  options.sequential =>
    /\ Chain /\ WalkTop
    /\ \A v \in Visits : WalkCall(v)
    /\ \A j \in Jobs : WalkFile(j)
    /\ Returned => cwd = Start

-----------------------------------------------------------------------------
(* What the parts of a step change.                                          *)

\* One file moves on.
LEMMA StepJob ==
  ASSUME VisitTypeOK, NEW j \in Jobs, NEW r \in JobType, Step(j, r)
  PROVE  job' \in [Jobs -> JobType] /\ job'[j] = r /\ \A i \in Jobs : i # j => job'[i] = job[i]
BY DEF VisitTypeOK, Step

\* One call moves on.
LEMMA SetVisit ==
  ASSUME VisitTypeOK, NEW v \in Visits, NEW r \in VisitType, Set(v, r)
  PROVE  visit' \in [Visits -> VisitType] /\ visit'[v] = r /\ \A u \in Visits : u # v => visit'[u] = visit[u]
BY DEF VisitTypeOK, Set

SameCall(u) ==
  /\ visit'[u].pc = visit[u].pc /\ visit'[u].path = visit[u].path /\ visit'[u].base = visit[u].base
  /\ visit'[u].parallel = visit[u].parallel /\ visit'[u].files = visit[u].files
  /\ visit'[u].next = visit[u].next /\ visit'[u].result = visit[u].result

\* File j moves on: the other files and the control of all calls stay, and its
\* call may hear of it.
Moves(j) ==
  LET v == VisitOf(j) IN
  /\ options' = options
  /\ job' \in [Jobs -> JobType] /\ visit' \in [Visits -> VisitType]
  /\ \A i \in Jobs : i # j => job'[i] = job[i]
  /\ \A u \in Visits : SameCall(u)
  /\ \A u \in Visits : u # v => visit'[u] = visit[u]
  /\ visit'[v].errors >= visit[v].errors /\ visit'[v].matches >= visit[v].matches
  /\ visit'[v].noMatch => visit[v].noMatch
  /\ job[j].outcome = "processed" => job'[j].outcome = "processed"
  /\ job'[j].noMatchSub => job[j].noMatchSub
  /\ visit'[v].matches = visit[v].matches \/ job'[j].outcome = "processed"
  /\ ~visit'[v].noMatch => ~visit[v].noMatch \/ job'[j].outcome = "processed" \/ ~job'[j].noMatchSub

\* Such a step needs to be looked at only where the file itself is concerned.
LEMMA MovesKeep ==
  ASSUME LocalInv, NEW j \in Jobs, Moves(j), job[j].pc \notin {"idle", "done"}, cwd' \in Dirs,
         JobOK(j)', HeardSub(j)', FileOK(j)', \A k \in Pos : NestedOK(j, k)'
  PROVE  LocalInv'
<1>0. VisitOf(j) \in Visits /\ visit[VisitOf(j)] \in VisitType /\ visit'[VisitOf(j)] \in VisitType
  BY JobName DEF LocalInv, VisitTypeOK, Moves
<1>1. VisitTypeOK'
  BY DEF LocalInv, VisitTypeOK, Moves, SameCall
<1>2. ASSUME NEW i \in Jobs, i # j PROVE JobOK(i)'
  <2>1. JobOK(i) /\ job'[i] = job[i] /\ options' = options
    BY <1>2 DEF LocalInv, Moves
  <2> QED BY <2>1 DEF JobOK, Subs, RanConverge
<1>3. ASSUME NEW i \in Jobs, i # j PROVE HeardSub(i)'
  <2>1. HeardSub(i) /\ job'[i] = job[i] /\ job[i] \in JobType
    BY <1>3 DEF LocalInv, VisitTypeOK, Moves
  <2>2. ASSUME NEW k \in 1..(job[i].sub - 1) PROVE visit'[Child(i, k)].result = visit[Child(i, k)].result
    <3>1. k \in Pos /\ k < job[i].sub
      BY <2>1 DEF JobType, Pos
    <3>2. NestedOK(i, k)
      BY <3>1 DEF LocalInv
    <3>3. Child(i, k) \in Visits
      BY <3>1, <3>2 DEF NestedOK
    <3> QED BY <3>3 DEF Moves, SameCall
  <2> QED BY <2>1, <2>2 DEF HeardSub
<1>4. ASSUME NEW i \in Jobs, i # j PROVE FileOK(i)'
  <2>1. FileOK(i) /\ job'[i] = job[i] /\ VisitOf(i) \in Visits /\ SameCall(VisitOf(i))
    BY <1>4, JobName DEF LocalInv, Moves
  <2>2. /\ visit[VisitOf(i)].errors \in Nat /\ visit'[VisitOf(i)].errors \in Nat
        /\ visit[VisitOf(i)].matches \in Nat /\ visit'[VisitOf(i)].matches \in Nat
    BY <2>1 DEF LocalInv, VisitTypeOK, VisitType, Moves
  <2>3. /\ visit'[VisitOf(i)].errors >= visit[VisitOf(i)].errors
        /\ visit'[VisitOf(i)].matches >= visit[VisitOf(i)].matches
        /\ visit'[VisitOf(i)].noMatch => visit[VisitOf(i)].noMatch
    BY <2>1, <2>2 DEF Moves
  <2>4. Accounted(i)' <=> Accounted(i)
    BY <2>1 DEF Accounted, InSubs, Subs
  <2> QED BY <2>1, <2>2, <2>3, <2>4 DEF FileOK, SameCall
<1>5. ASSUME NEW i \in Jobs, i # j, NEW k \in Pos PROVE NestedOK(i, k)'
  <2>1. NestedOK(i, k) /\ job'[i] = job[i] /\ options' = options
    BY <1>5 DEF LocalInv, Moves
  <2>2. Child(i, k) \in Visits => SameCall(Child(i, k))
    BY DEF Moves
  <2> QED BY <2>1, <2>2 DEF NestedOK, SameCall, InSubs, Subs, RanConverge
<1>6. ASSUME NEW u \in Visits PROVE CallOK(u)'
  <2>1. CallOK(u) /\ SameCall(u)
    BY DEF LocalInv, Moves
  <2>2. CASE u = VisitOf(j)
    <3>1. visit[u].pc \in {"walk", "wait"} /\ visit[u].result = "none"
      BY <2>1, <2>2 DEF LocalInv, FileOK, CallOK
    <3> QED BY <2>1, <3>1 DEF CallOK, SameCall
  <2>3. CASE u # VisitOf(j)
    BY <2>1, <2>3 DEF CallOK, Moves
  <2> QED BY <2>2, <2>3
<1>7. ASSUME NEW u \in Visits PROVE HeardFile(u)'
  <2>1. HeardFile(u) /\ SameCall(u)
    BY DEF LocalInv, Moves
  <2>2. \A i \in Jobs : (job[i].outcome = "processed" => job'[i].outcome = "processed")
                        /\ (job'[i].noMatchSub => job[i].noMatchSub)
    BY DEF Moves
  <2>3. CASE u = VisitOf(j)
    BY <1>0, <2>1, <2>2, <2>3 DEF HeardFile, SameCall, Moves
  <2>4. CASE u # VisitOf(j)
    BY <2>1, <2>2, <2>4 DEF HeardFile, Moves
  <2> QED BY <2>3, <2>4
<1> QED BY <1>1, <1>2, <1>3, <1>4, <1>5, <1>6, <1>7 DEF LocalInv

-----------------------------------------------------------------------------
(* The files.                                                                *)

\* A file that is worked on.
LEMMA AtWork ==
  ASSUME LocalInv, NEW j \in Jobs, job[j].pc \notin {"idle", "done"}
  PROVE  LET v == VisitOf(j) IN
         /\ v \in Visits /\ visit[v] \in VisitType /\ job[j] \in JobType
         /\ JobOK(j) /\ FileOK(j) /\ HeardSub(j) /\ \A k \in Pos : NestedOK(j, k)
         /\ visit[v].pc = (IF visit[v].parallel THEN "wait" ELSE "walk") /\ visit[v].result = "none"
         /\ Position(j) \in DOMAIN visit[v].files /\ Position(j) \in 1..MaxFiles
         /\ visit[v].files[Position(j)] \in Files
<1> DEFINE v == VisitOf(j)
<1>1. v \in Visits /\ visit[v] \in VisitType /\ job[j] \in JobType /\ Position(j) \in 1..MaxFiles
  BY JobName DEF LocalInv, VisitTypeOK
<1>2. JobOK(j) /\ FileOK(j) /\ HeardSub(j) /\ (\A k \in Pos : NestedOK(j, k)) /\ CallOK(v)
  BY <1>1 DEF LocalInv
<1>3. Position(j) \in DOMAIN visit[v].files
  BY <1>2 DEF FileOK
<1>4. visit[v].pc = (IF visit[v].parallel THEN "wait" ELSE "walk") /\ visit[v].result = "none"
  BY <1>1, <1>2 DEF FileOK, CallOK, VisitType
<1>5. visit[v].files[Position(j)] \in Files
  <2>1. visit[v].files \in Seq(Files)
    BY <1>1 DEF VisitType
  <2> QED BY <1>3, <2>1
<1> QED BY <1>1, <1>2, <1>3, <1>4, <1>5

\* What a path can stand for.
LEMMA Looked ==
  ASSUME LocalInv, NEW v \in Visits, visit[v].pc # "idle"
  PROVE  /\ Lookup(v) \in Dirs \cup Files \cup {Nowhere}
         /\ DirAt(Lookup(v)) \in Dirs \cup {Nowhere}
<1>1. visit[v] \in VisitType /\ CallOK(v) /\ cwd \in Dirs
  BY DEF LocalInv, VisitTypeOK
<1>2. visit[v].path \in Paths /\ visit[v].base \in Dirs
  BY <1>1 DEF VisitType, CallOK
<1>3. Lookup(v) \in Dirs \cup Files \cup {Nowhere}
  BY <1>1, <1>2, VisitAssumption DEF Lookup
<1> QED BY <1>3, VisitAssumption DEF DirAt

\* A step that leaves all calls alone.
LEMMA Alone ==
  ASSUME LocalInv, NEW j \in Jobs, NEW r \in JobType, Step(j, r), UNCHANGED <<options, visit>>,
         job[j].outcome = "processed" => r.outcome = "processed",
         r.noMatchSub => job[j].noMatchSub
  PROVE  Moves(j) /\ job'[j] = r
<1>1. job' \in [Jobs -> JobType] /\ job'[j] = r /\ \A i \in Jobs : i # j => job'[i] = job[i]
  BY StepJob DEF LocalInv
<1>2. visit' \in [Visits -> VisitType] /\ VisitOf(j) \in Visits
  BY JobName DEF LocalInv, VisitTypeOK
<1>3. visit[VisitOf(j)].errors \in Nat /\ visit[VisitOf(j)].matches \in Nat
  BY <1>2 DEF LocalInv, VisitTypeOK, VisitType
<1> QED BY <1>1, <1>2, <1>3 DEF Moves, SameCall

\* The file is found, its directory entered.
LEMMA ResolveKeeps == ASSUME LocalInv, NEW j \in Jobs, Resolve(j) PROVE Moves(j) /\ LocalInv'
<1> DEFINE r == [job[j] EXCEPT !.pc = IF Goroutine(j) THEN "load" ELSE "chdir",
                               !.dir = DirAt(Lookup(VisitOf(j))), !.prev = cwd]
<1>1. job[j].pc = "resolve" /\ Step(j, r) /\ UNCHANGED <<options, cwd, visit>>
  BY DEF Resolve
<1>2. /\ job[j] \in JobType /\ JobOK(j) /\ FileOK(j) /\ VisitOf(j) \in Visits
      /\ \A k \in Pos : NestedOK(j, k)
  BY <1>1, AtWork
<1>3. visit[VisitOf(j)].pc # "idle"
  BY <1>1, <1>2 DEF FileOK
<1>4. DirAt(Lookup(VisitOf(j))) \in Dirs \cup {Nowhere} /\ cwd \in Dirs
  BY <1>2, <1>3, Looked DEF LocalInv, VisitTypeOK
<1>5. /\ r \in JobType /\ r.pc = (IF Goroutine(j) THEN "load" ELSE "chdir")
      /\ r.read = job[j].read /\ r.sub = job[j].sub /\ r.at = job[j].at
      /\ r.noMatchSub = job[j].noMatchSub /\ r.outcome = job[j].outcome /\ r.failed = job[j].failed
  BY <1>2, <1>4 DEF JobType
<1> HIDE DEF r
<1>6. Moves(j) /\ job'[j] = r
  BY <1>1, <1>5, Alone
<1>7. JobOK(j)'
  BY <1>1, <1>2, <1>5, <1>6 DEF JobOK, Subs, RanConverge
<1>8. FileOK(j)'
  BY <1>1, <1>2, <1>5, <1>6 DEF FileOK, JobOK, Accounted, Goroutine, Parallel
<1>9. \A k \in Pos : NestedOK(j, k)'
  BY <1>1, <1>2, <1>5, <1>6 DEF NestedOK, JobOK, Subs, InSubs, RanConverge
<1>10. HeardSub(j)'
  BY <1>1, <1>2, <1>5, <1>6 DEF HeardSub, JobOK
<1> QED BY <1>1, <1>4, <1>6, <1>7, <1>8, <1>9, <1>10, MovesKeep

\* The directory of the file is entered.
LEMMA ChdirKeeps == ASSUME LocalInv, NEW j \in Jobs, Chdir(j) PROVE Moves(j) /\ LocalInv'
<1> DEFINE r == [job[j] EXCEPT !.pc = "load"]
<1>1. /\ job[j].pc = "chdir" /\ Step(j, r) /\ UNCHANGED <<options, visit>>
      /\ job[j].dir # Nowhere /\ cwd' = job[j].dir
  BY DEF Chdir, Goto
<1>2. /\ job[j] \in JobType /\ JobOK(j) /\ FileOK(j) /\ VisitOf(j) \in Visits
      /\ \A k \in Pos : NestedOK(j, k)
  BY <1>1, AtWork
<1>4. cwd' \in Dirs
  BY <1>1, <1>2 DEF JobType
<1>5. /\ r \in JobType /\ r.pc = "load" /\ r.dir = job[j].dir
      /\ r.read = job[j].read /\ r.sub = job[j].sub /\ r.at = job[j].at
      /\ r.noMatchSub = job[j].noMatchSub /\ r.outcome = job[j].outcome /\ r.failed = job[j].failed
  BY <1>2 DEF JobType
<1> HIDE DEF r
<1>6. Moves(j) /\ job'[j] = r
  BY <1>1, <1>5, Alone
<1>7. JobOK(j)'
  BY <1>1, <1>2, <1>5, <1>6 DEF JobOK, Subs, RanConverge
<1>8. FileOK(j)'
  BY <1>1, <1>2, <1>5, <1>6 DEF FileOK, JobOK, Accounted
<1>9. \A k \in Pos : NestedOK(j, k)'
  BY <1>1, <1>2, <1>5, <1>6 DEF NestedOK, JobOK, Subs, InSubs, RanConverge
<1>10. HeardSub(j)'
  BY <1>1, <1>2, <1>5, <1>6 DEF HeardSub, JobOK
<1> QED BY <1>1, <1>4, <1>6, <1>7, <1>8, <1>9, <1>10, MovesKeep

\* The file is loaded and there is nothing wrong with it.
LEMMA LoadKeeps == ASSUME LocalInv, NEW j \in Jobs, Load(j) PROVE Moves(j) /\ LocalInv'
<1>0. job[j].pc = "load" /\ UNCHANGED <<options, cwd, visit>>
  BY DEF Load
<1>1. PICK f \in Opened(j) : Step(j, [job[j] EXCEPT !.read = f,
                     !.pc = IF SubsOf[f] # << >> /\ ~options.reverse THEN "subs" ELSE "template"])
  BY DEF Load
<1> DEFINE r == [job[j] EXCEPT !.read = f,
                     !.pc = IF SubsOf[f] # << >> /\ ~options.reverse THEN "subs" ELSE "template"]
<1>2. /\ job[j] \in JobType /\ JobOK(j) /\ FileOK(j) /\ VisitOf(j) \in Visits
      /\ \A k \in Pos : NestedOK(j, k)
  BY <1>0, AtWork
<1>3. f \in Files /\ DirOf[f] = Base(j) /\ f # Nowhere /\ SubsOf[f] \in Seq(Paths)
  BY VisitAssumption DEF Opened
<1>4. job[j].dir # Nowhere
  <2>1. CASE Goroutine(j)
    BY <1>3, <2>1, VisitAssumption DEF Base
  <2>2. CASE ~Goroutine(j)
    BY <1>0, <1>2, <2>2 DEF FileOK, Goroutine, Parallel
  <2> QED BY <2>1, <2>2
<1>5. /\ r \in JobType /\ r.pc = (IF SubsOf[f] # << >> /\ ~options.reverse THEN "subs" ELSE "template")
      /\ r.read = f /\ r.sub = job[j].sub /\ r.at = job[j].at /\ r.dir = job[j].dir
      /\ r.noMatchSub = job[j].noMatchSub /\ r.outcome = job[j].outcome /\ r.failed = job[j].failed
  BY <1>2, <1>3 DEF JobType
<1>12. Step(j, r)
  BY <1>1
<1> HIDE DEF r
<1>6. Moves(j) /\ job'[j] = r
  BY <1>0, <1>5, <1>12, Alone
<1>7. JobOK(j)'
  <2>1. SubsOf[f] = << >> => 1 \notin DOMAIN SubsOf[f]
    OBVIOUS
  <2> QED BY <1>0, <1>2, <1>3, <1>4, <1>5, <1>6, <2>1 DEF JobOK, Subs, RanConverge
<1>8. FileOK(j)'
  BY <1>0, <1>2, <1>5, <1>6 DEF FileOK, JobOK, Accounted
<1>9. \A k \in Pos : NestedOK(j, k)'
  BY <1>0, <1>2, <1>5, <1>6 DEF NestedOK, JobOK, Subs, InSubs, RanConverge
<1>10. HeardSub(j)'
  BY <1>0, <1>2, <1>5, <1>6 DEF HeardSub, JobOK
<1>11. cwd' \in Dirs
  BY <1>0 DEF LocalInv, VisitTypeOK
<1> QED BY <1>0, <1>6, <1>7, <1>8, <1>9, <1>10, <1>11, MovesKeep

\* The file does not define the environment.
LEMMA UndefinedEnvKeeps == ASSUME LocalInv, NEW j \in Jobs, UndefinedEnv(j) PROVE Moves(j) /\ LocalInv'
<1>0. job[j].pc = "load" /\ UNCHANGED <<options, cwd, visit>>
  BY DEF UndefinedEnv
<1>1. PICK f \in Opened(j) : Step(j, [job[j] EXCEPT !.read = f, !.outcome = "skipped", !.pc = EndOf(j)])
  BY DEF UndefinedEnv
<1> DEFINE r == [job[j] EXCEPT !.read = f, !.outcome = "skipped", !.pc = EndOf(j)]
<1>2. /\ job[j] \in JobType /\ JobOK(j) /\ FileOK(j) /\ VisitOf(j) \in Visits
      /\ \A k \in Pos : NestedOK(j, k)
  BY <1>0, AtWork
<1>3. f \in Files /\ DirOf[f] = Base(j) /\ f # Nowhere
  BY VisitAssumption DEF Opened
<1>4. job[j].dir # Nowhere
  <2>1. CASE Goroutine(j)
    BY <1>3, <2>1, VisitAssumption DEF Base
  <2>2. CASE ~Goroutine(j)
    BY <1>0, <1>2, <2>2 DEF FileOK, Goroutine, Parallel
  <2> QED BY <2>1, <2>2
<1>5. /\ r \in JobType /\ r.pc = EndOf(j) /\ r.pc \in {"back", "done"}
      /\ r.read = f /\ r.sub = job[j].sub /\ r.at = job[j].at /\ r.dir = job[j].dir
      /\ r.noMatchSub = job[j].noMatchSub /\ r.outcome = "skipped" /\ r.failed = job[j].failed
  BY <1>2, <1>3 DEF JobType, EndOf
<1>12. Step(j, r)
  BY <1>1
<1> HIDE DEF r
<1>6. Moves(j) /\ job'[j] = r
  <2>1. job[j].outcome = "none"
    BY <1>0, <1>2 DEF JobOK
  <2> QED BY <1>0, <1>5, <1>12, <2>1, Alone
<1>7. JobOK(j)'
  BY <1>0, <1>2, <1>3, <1>4, <1>5, <1>6 DEF JobOK, Subs, RanConverge
<1>8. FileOK(j)'
  BY <1>0, <1>2, <1>5, <1>6 DEF FileOK, JobOK, Accounted, EndOf, Goroutine, Parallel
<1>9. \A k \in Pos : NestedOK(j, k)'
  BY <1>0, <1>2, <1>5, <1>6 DEF NestedOK, JobOK, Subs, InSubs, RanConverge
<1>10. HeardSub(j)'
  BY <1>0, <1>2, <1>5, <1>6 DEF HeardSub, JobOK
<1>11. cwd' \in Dirs
  BY <1>0 DEF LocalInv, VisitTypeOK
<1> QED BY <1>0, <1>6, <1>7, <1>8, <1>9, <1>10, <1>11, MovesKeep

\* The file fails: its goroutine tells so, or the walk is told by what it returns.
LEMMA FailMoves ==
  ASSUME LocalInv, NEW j \in Jobs, job[j].pc \notin {"idle", "done"}, NEW r \in JobType, Fail(j, r),
         options' = options, job[j].outcome = "processed" => r.outcome = "processed",
         r.noMatchSub => job[j].noMatchSub
  PROVE  /\ Moves(j) /\ job'[j] = [r EXCEPT !.pc = EndOf(j), !.failed = TRUE]
         /\ Parallel(VisitOf(j)) => visit'[VisitOf(j)].errors > 0
         /\ ~Parallel(VisitOf(j)) => visit' = visit
<1> DEFINE v == VisitOf(j)
           q == [r EXCEPT !.pc = EndOf(j), !.failed = TRUE]
           e == [visit[v] EXCEPT !.errors = @ + 1]
<1>1. v \in Visits /\ visit[v] \in VisitType /\ visit[v].errors \in Nat /\ visit[v].matches \in Nat
  BY AtWork DEF VisitType
<1>2. /\ q \in JobType /\ q.outcome = r.outcome /\ q.noMatchSub = r.noMatchSub
      /\ Step(j, q) /\ Sent(j)
  BY DEF JobType, EndOf, Fail
<1> HIDE DEF q
<1>3. job' \in [Jobs -> JobType] /\ job'[j] = q /\ \A i \in Jobs : i # j => job'[i] = job[i]
  BY <1>2, StepJob DEF LocalInv
<1>4. CASE Parallel(v)
  <2>1. /\ e \in VisitType /\ e.errors = visit[v].errors + 1
        /\ e.pc = visit[v].pc /\ e.path = visit[v].path /\ e.base = visit[v].base
        /\ e.parallel = visit[v].parallel /\ e.files = visit[v].files /\ e.next = visit[v].next
        /\ e.result = visit[v].result /\ e.matches = visit[v].matches /\ e.noMatch = visit[v].noMatch
    BY <1>1 DEF VisitType
  <2>2. Set(v, e)
    BY <1>2, <1>4 DEF Sent, Goroutine
  <2> HIDE DEF e
  <2>3. visit' \in [Visits -> VisitType] /\ visit'[v] = e /\ \A u \in Visits : u # v => visit'[u] = visit[u]
    BY <1>1, <2>1, <2>2, SetVisit DEF LocalInv
  <2>4. Moves(j)
    BY <1>1, <1>2, <1>3, <2>1, <2>3 DEF Moves, SameCall
  <2> QED BY <1>1, <1>3, <1>4, <2>1, <2>3, <2>4 DEF q
<1>5. CASE ~Parallel(v)
  <2>1. visit' = visit
    BY <1>2, <1>5 DEF Sent, Goroutine
  <2>2. Moves(j) /\ job'[j] = q
    BY <1>2, <2>1, Alone
  <2> QED BY <1>5, <2>1, <2>2 DEF q
<1> QED BY <1>4, <1>5

\* A failure before the releases are converged, or of a nested helmfile.
LEMMA FailsKeep ==
  ASSUME LocalInv, NEW j \in Jobs, LoadFails(j) \/ NestedFails(j) \/ TemplatesFail(j)
  PROVE  Moves(j) /\ LocalInv'
<1> DEFINE v == VisitOf(j)
<1>1. /\ job[j].pc \in {"load", "subs", "after", "template"} /\ Fail(j, job[j]) /\ UNCHANGED <<options, cwd>>
      /\ InSubs(j) => /\ Nested(j) \in Visits /\ visit[Nested(j)].result = "error"
                      /\ job[j].sub \in DOMAIN Subs(j)
  BY DEF LoadFails, NestedFails, TemplatesFail, AtNested, InSubs
<1>2. /\ job[j] \in JobType /\ JobOK(j) /\ FileOK(j) /\ v \in Visits
      /\ \A k \in Pos : NestedOK(j, k)
  BY <1>1, AtWork
<1>3. /\ Moves(j) /\ job'[j] = [job[j] EXCEPT !.pc = EndOf(j), !.failed = TRUE]
      /\ Parallel(v) => visit'[v].errors > 0
      /\ ~Parallel(v) => visit' = visit
  BY <1>1, <1>2, FailMoves
<1>4. /\ job'[j].pc = EndOf(j) /\ job'[j].failed
      /\ job'[j].read = job[j].read /\ job'[j].sub = job[j].sub /\ job'[j].at = job[j].at
      /\ job'[j].dir = job[j].dir /\ job'[j].noMatchSub = job[j].noMatchSub
      /\ job'[j].outcome = job[j].outcome
  BY <1>2, <1>3 DEF JobType
<1>5. SameCall(v) /\ options' = options /\ cwd' \in Dirs /\ visit[v].matches \in Nat
      /\ visit'[v].matches \in Nat /\ visit'[v].matches >= visit[v].matches
  BY <1>1, <1>2, <1>3 DEF Moves, LocalInv, VisitTypeOK, VisitType
<1>6. EndOf(j) = (IF visit[v].parallel THEN "done" ELSE "back")
  BY DEF EndOf, Goroutine, Parallel
<1>7. JobOK(j)'
  BY <1>1, <1>2, <1>4, <1>5, <1>6 DEF JobOK, Subs, RanConverge
<1>8. FileOK(j)'
  <2>1. CASE visit[v].parallel
    BY <1>1, <1>2, <1>3, <1>4, <1>5, <1>6, <2>1 DEF FileOK, SameCall, Parallel
  <2>2. CASE ~visit[v].parallel
    <3>1. visit' = visit /\ visit[v].pc = "walk"
      BY <1>1, <1>2, <1>3, <2>2, AtWork DEF Parallel
    <3>2. Accounted(j)' /\ ~job[j].noMatchSub => Accounted(j)
      BY <1>1, <1>2, <1>4 DEF Accounted, InSubs, Subs, JobOK
    <3> QED BY <1>1, <1>2, <1>4, <1>6, <2>2, <3>1, <3>2 DEF FileOK
  <2> QED BY <2>1, <2>2
<1>9. ASSUME NEW k \in Pos PROVE NestedOK(j, k)'
  <2>1. NestedOK(j, k) /\ (Child(j, k) \in Visits => SameCall(Child(j, k)))
    BY <1>2, <1>3 DEF Moves
  <2>2. Nested(j) = Child(j, job[j].sub)
    BY DEF Nested
  <2> QED BY <1>1, <1>2, <1>4, <1>5, <1>6, <2>1, <2>2 DEF NestedOK, Subs, InSubs, RanConverge, SameCall
<1>10. HeardSub(j)'
  <2>1. HeardSub(j)
    BY <1>1, AtWork
  <2>2. ASSUME NEW k \in 1..(job[j].sub - 1) PROVE visit'[Child(j, k)].result = visit[Child(j, k)].result
    <3>1. k \in Pos /\ k < job[j].sub
      BY <1>2 DEF JobType, Pos
    <3>2. Child(j, k) \in Visits
      BY <1>2, <3>1 DEF NestedOK
    <3> QED BY <1>3, <3>2 DEF Moves, SameCall
  <2> QED BY <1>4, <2>1, <2>2 DEF HeardSub
<1> QED BY <1>1, <1>3, <1>5, <1>7, <1>8, <1>9, <1>10, MovesKeep

\* The directory of the file cannot be entered.
LEMMA ChdirFailsKeeps == ASSUME LocalInv, NEW j \in Jobs, ChdirFails(j) PROVE Moves(j) /\ LocalInv'
<1> DEFINE r == [job[j] EXCEPT !.pc = "done", !.failed = TRUE]
<1>1. job[j].pc = "chdir" /\ Step(j, r) /\ UNCHANGED <<options, cwd, visit>>
  BY DEF ChdirFails
<1>2. /\ job[j] \in JobType /\ JobOK(j) /\ FileOK(j) /\ VisitOf(j) \in Visits
      /\ visit[VisitOf(j)].pc = (IF visit[VisitOf(j)].parallel THEN "wait" ELSE "walk")
      /\ \A k \in Pos : NestedOK(j, k)
  BY <1>1, AtWork
<1>5. /\ r \in JobType /\ r.pc = "done" /\ r.dir = job[j].dir
      /\ r.read = job[j].read /\ r.sub = job[j].sub /\ r.at = job[j].at
      /\ r.noMatchSub = job[j].noMatchSub /\ r.outcome = job[j].outcome /\ r.failed
  BY <1>2 DEF JobType
<1> HIDE DEF r
<1>6. Moves(j) /\ job'[j] = r
  BY <1>1, <1>5, Alone
<1>7. JobOK(j)'
  BY <1>1, <1>2, <1>5, <1>6 DEF JobOK, Subs, RanConverge
<1>8. FileOK(j)'
  BY <1>1, <1>2, <1>5, <1>6 DEF FileOK, JobOK, Accounted
<1>9. \A k \in Pos : NestedOK(j, k)'
  BY <1>1, <1>2, <1>5, <1>6 DEF NestedOK, JobOK, Subs, InSubs, RanConverge
<1>10. HeardSub(j)'
  BY <1>1, <1>2, <1>5, <1>6 DEF HeardSub, JobOK
<1>11. cwd' \in Dirs
  BY <1>1 DEF LocalInv, VisitTypeOK
<1> QED BY <1>1, <1>6, <1>7, <1>8, <1>9, <1>10, <1>11, MovesKeep

\* A nested helmfile is done without an error.
LEMMA NestedReturnsKeeps == ASSUME LocalInv, NEW j \in Jobs, NestedReturns(j) PROVE Moves(j) /\ LocalInv'
<1> DEFINE w == Nested(j)
           r == [job[j] EXCEPT !.sub = @ + 1, !.noMatchSub = @ /\ visit[w].result = "noMatch"]
<1>1. /\ job[j].pc \in {"subs", "after"} /\ Step(j, r) /\ UNCHANGED <<options, cwd, visit>>
      /\ job[j].sub \in DOMAIN Subs(j) /\ w \in Visits /\ w = Child(j, job[j].sub)
      /\ visit[w].pc = "done" /\ visit[w].result # "error"
  BY DEF NestedReturns, AtNested, InSubs, Nested
<1>2. /\ job[j] \in JobType /\ JobOK(j) /\ FileOK(j) /\ HeardSub(j) /\ VisitOf(j) \in Visits
      /\ \A k \in Pos : NestedOK(j, k)
  BY <1>1, AtWork
<1>3. visit[w].result \in {"ok", "noMatch"}
  <2>1. visit[w] \in VisitType /\ CallOK(w)
    BY <1>1 DEF LocalInv, VisitTypeOK
  <2> QED BY <1>1, <2>1 DEF VisitType, CallOK, Results
<1>4. job[j].sub \in Pos
  BY <1>2 DEF JobType, Pos
<1>5. /\ r \in JobType /\ r.pc = job[j].pc /\ r.dir = job[j].dir
      /\ r.read = job[j].read /\ r.sub = job[j].sub + 1 /\ r.at = job[j].at
      /\ (r.noMatchSub <=> job[j].noMatchSub /\ visit[w].result = "noMatch")
      /\ r.outcome = job[j].outcome /\ r.failed = job[j].failed
  <2> DEFINE m == job[j].noMatchSub /\ visit[w].result = "noMatch"
             n == job[j].sub + 1
  <2>1. n \in Nat \ {0} /\ m \in BOOLEAN
    BY <1>4 DEF Pos
  <2>2. r = [job[j] EXCEPT !.sub = n, !.noMatchSub = m]
    OBVIOUS
  <2> HIDE DEF r, m, n
  <2>3. /\ r \in JobType /\ r.pc = job[j].pc /\ r.dir = job[j].dir
        /\ r.read = job[j].read /\ r.sub = n /\ r.at = job[j].at
        /\ r.noMatchSub = m /\ r.outcome = job[j].outcome /\ r.failed = job[j].failed
    BY <1>2, <2>1, <2>2 DEF JobType
  <2> QED BY <2>3 DEF m, n
<1> HIDE DEF r, w
<1>6. Moves(j) /\ job'[j] = r
  BY <1>1, <1>5, Alone
<1>7. JobOK(j)'
  BY <1>1, <1>2, <1>5, <1>6 DEF JobOK, Subs, RanConverge
<1>8. FileOK(j)'
  BY <1>1, <1>2, <1>5, <1>6 DEF FileOK, JobOK, Accounted, InSubs
<1>9. ASSUME NEW k \in Pos PROVE NestedOK(j, k)'
  <2>1. NestedOK(j, k) /\ k \in Int /\ job[j].sub \in Int
    BY <1>2, <1>4 DEF Pos
  <2>2. k < job[j].sub \/ k = job[j].sub \/ k > job[j].sub
    BY <2>1
  <2> QED BY <1>1, <1>2, <1>3, <1>5, <1>6, <2>1, <2>2 DEF NestedOK, JobOK, Subs, InSubs, RanConverge
<1>10. HeardSub(j)'
  <2>1. CASE ~job[j].noMatchSub
    <3>1. PICK k \in 1..(job[j].sub - 1) : visit[Child(j, k)].result = "ok"
      BY <1>2, <2>1 DEF HeardSub
    <3>2. k \in 1..(job'[j].sub - 1)
      BY <1>4, <1>5, <1>6 DEF Pos
    <3>3. visit'[Child(j, k)].result = "ok"
      BY <1>1, <3>1
    <3> QED BY <3>2, <3>3 DEF HeardSub
  <2>2. CASE job[j].noMatchSub
    <3>1. job[j].sub \in 1..(job[j].sub + 1 - 1)
      BY <1>4 DEF Pos
    <3> QED BY <1>1, <1>3, <1>5, <1>6, <2>2, <3>1 DEF HeardSub
  <2> QED BY <2>1, <2>2
<1>11. cwd' \in Dirs
  BY <1>1 DEF LocalInv, VisitTypeOK
<1> QED BY <1>1, <1>6, <1>7, <1>8, <1>9, <1>10, <1>11, MovesKeep

\* All nested helmfiles are done.
LEMMA NestedDoneKeeps == ASSUME LocalInv, NEW j \in Jobs, NestedDone(j) PROVE Moves(j) /\ LocalInv'
<1> DEFINE v == VisitOf(j)
           r == [job[j] EXCEPT !.pc = IF job[j].pc = "subs" THEN "template" ELSE EndOf(j)]
           e == [visit[v] EXCEPT !.noMatch = @ /\ job[j].noMatchSub]
<1>1. /\ job[j].pc \in {"subs", "after"} /\ Step(j, r) /\ UNCHANGED <<options, cwd>>
      /\ job[j].sub \notin DOMAIN Subs(j)
      /\ IF visit[v].parallel THEN visit' = visit ELSE Set(v, e)
  BY DEF NestedDone, InSubs, Goto, Goroutine, Parallel
<1>2. /\ job[j] \in JobType /\ JobOK(j) /\ FileOK(j) /\ HeardSub(j) /\ v \in Visits /\ visit[v] \in VisitType
      /\ \A k \in Pos : NestedOK(j, k)
  BY <1>1, AtWork
<1>3. EndOf(j) = (IF visit[v].parallel THEN "done" ELSE "back")
  BY DEF EndOf, Goroutine, Parallel
<1>4. visit[v].errors \in Nat /\ visit[v].matches \in Nat
  BY <1>2 DEF VisitType
<1>5. /\ r \in JobType /\ r.pc = (IF job[j].pc = "subs" THEN "template" ELSE EndOf(j)) /\ r.dir = job[j].dir
      /\ r.read = job[j].read /\ r.sub = job[j].sub /\ r.at = job[j].at
      /\ r.noMatchSub = job[j].noMatchSub /\ r.outcome = job[j].outcome /\ r.failed = job[j].failed
  BY <1>2, <1>3 DEF JobType
<1>6. /\ e \in VisitType /\ e.errors = visit[v].errors
      /\ e.pc = visit[v].pc /\ e.path = visit[v].path /\ e.base = visit[v].base
      /\ e.parallel = visit[v].parallel /\ e.files = visit[v].files /\ e.next = visit[v].next
      /\ e.result = visit[v].result /\ e.matches = visit[v].matches
      /\ (e.noMatch <=> visit[v].noMatch /\ job[j].noMatchSub)
  BY <1>2 DEF VisitType, JobType
<1> HIDE DEF r, e
<1>7. job' \in [Jobs -> JobType] /\ job'[j] = r /\ \A i \in Jobs : i # j => job'[i] = job[i]
  BY <1>1, <1>5, StepJob DEF LocalInv
<1>8. /\ visit' \in [Visits -> VisitType] /\ \A u \in Visits : u # v => visit'[u] = visit[u]
      /\ visit'[v] = (IF visit[v].parallel THEN visit[v] ELSE e)
  <2>1. CASE visit[v].parallel
    BY <1>1, <2>1 DEF LocalInv, VisitTypeOK
  <2>2. CASE ~visit[v].parallel
    BY <1>1, <1>2, <1>6, <2>2, SetVisit DEF LocalInv
  <2> QED BY <2>1, <2>2
<1>9. Moves(j)
  BY <1>1, <1>2, <1>4, <1>5, <1>6, <1>7, <1>8 DEF Moves, SameCall
<1>10. JobOK(j)'
  BY <1>1, <1>2, <1>3, <1>5, <1>7 DEF JobOK, Subs, RanConverge
<1>11. FileOK(j)'
  BY <1>1, <1>2, <1>3, <1>5, <1>6, <1>7, <1>8 DEF FileOK, JobOK, Accounted, Subs
<1>12. ASSUME NEW k \in Pos PROVE NestedOK(j, k)'
  <2>1. NestedOK(j, k) /\ (Child(j, k) \in Visits => SameCall(Child(j, k)))
    BY <1>2, <1>9 DEF Moves
  <2> QED BY <1>1, <1>2, <1>3, <1>5, <1>7, <2>1 DEF NestedOK, JobOK, Subs, InSubs, RanConverge, SameCall
<1>13. HeardSub(j)'
  <2>1. ASSUME NEW k \in 1..(job[j].sub - 1) PROVE visit'[Child(j, k)].result = visit[Child(j, k)].result
    <3>1. k \in Pos /\ k < job[j].sub
      BY <1>2 DEF JobType, Pos
    <3>2. Child(j, k) \in Visits
      BY <1>2, <3>1 DEF NestedOK
    <3> QED BY <1>9, <3>2 DEF Moves, SameCall
  <2> QED BY <1>2, <1>5, <1>7, <2>1 DEF HeardSub
<1>14. cwd' \in Dirs
  BY <1>1 DEF LocalInv, VisitTypeOK
<1> QED BY <1>1, <1>9, <1>10, <1>11, <1>12, <1>13, <1>14, MovesKeep

\* The templates of the file are expanded; the working directory is restored.
LEMMA PassesKeep ==
  ASSUME LocalInv, NEW j \in Jobs, ExecuteTemplates(j) \/ ChdirBack(j)
  PROVE  Moves(j) /\ LocalInv'
<1>1. PICK p \in {"converge", "done"} :
        /\ job[j].pc = (IF p = "converge" THEN "template" ELSE "back")
        /\ Step(j, [job[j] EXCEPT !.pc = p]) /\ UNCHANGED <<options, visit>>
        /\ cwd' \in {cwd, job[j].prev}
  BY DEF ExecuteTemplates, ChdirBack, Goto
<1> DEFINE r == [job[j] EXCEPT !.pc = p]
<1>2. /\ job[j] \in JobType /\ JobOK(j) /\ FileOK(j) /\ HeardSub(j) /\ VisitOf(j) \in Visits
      /\ \A k \in Pos : NestedOK(j, k)
  BY <1>1, AtWork
<1>4. cwd' \in Dirs
  BY <1>1, <1>2 DEF JobType, LocalInv, VisitTypeOK
<1>5. /\ r \in JobType /\ r.pc = p /\ r.dir = job[j].dir
      /\ r.read = job[j].read /\ r.sub = job[j].sub /\ r.at = job[j].at
      /\ r.noMatchSub = job[j].noMatchSub /\ r.outcome = job[j].outcome /\ r.failed = job[j].failed
  BY <1>2 DEF JobType
<1>3. Step(j, r)
  BY <1>1
<1> HIDE DEF r
<1>6. Moves(j) /\ job'[j] = r
  BY <1>1, <1>3, <1>5, Alone
<1>7. JobOK(j)'
  BY <1>1, <1>2, <1>5, <1>6 DEF JobOK, Subs, RanConverge
<1>8. FileOK(j)'
  BY <1>1, <1>2, <1>5, <1>6 DEF FileOK, JobOK, Accounted, InSubs, Subs
<1>9. \A k \in Pos : NestedOK(j, k)'
  BY <1>1, <1>2, <1>5, <1>6 DEF NestedOK, JobOK, Subs, InSubs, RanConverge
<1>10. HeardSub(j)'
  BY <1>1, <1>2, <1>5, <1>6 DEF HeardSub, JobOK
<1> QED BY <1>1, <1>4, <1>6, <1>7, <1>8, <1>9, <1>10, MovesKeep

\* The releases of the file are converged. What is said of the file and its
\* nested helmfiles depends on the record of the file alone.
LEMMA ConvergedOK ==
  ASSUME LocalInv, NEW j \in Jobs, job[j].pc = "converge", Moves(j),
         job'[j].pc \in {After(j), EndOf(j)}, job'[j].pc # After(j) => job'[j].failed,
         RanConverge(j)',
         job'[j].dir = job[j].dir, job'[j].read = job[j].read, job'[j].sub = job[j].sub,
         job'[j].noMatchSub = job[j].noMatchSub
  PROVE  JobOK(j)' /\ HeardSub(j)' /\ \A k \in Pos : NestedOK(j, k)'
<1>1. /\ job[j] \in JobType /\ JobOK(j) /\ HeardSub(j)
      /\ \A k \in Pos : NestedOK(j, k)
  BY AtWork
<1>2. EndOf(j) \in {"back", "done"} /\ After(j) = (IF options.reverse /\ Subs(j) # << >> THEN "after" ELSE EndOf(j))
  BY DEF EndOf, After
<1>3. options' = options /\ Subs(j)' = Subs(j)
  BY DEF Moves, Subs
<1>4. Subs(j) = << >> => 1 \notin DOMAIN Subs(j)
  OBVIOUS
<1>5. JobOK(j)'
  BY <1>1, <1>2, <1>3, <1>4 DEF JobOK, RanConverge
<1>6. ASSUME NEW k \in Pos PROVE NestedOK(j, k)'
  <2>1. NestedOK(j, k) /\ (Child(j, k) \in Visits => SameCall(Child(j, k)))
    BY <1>1 DEF Moves
  <2> QED BY <1>1, <1>2, <1>3, <2>1 DEF NestedOK, JobOK, InSubs, SameCall
<1>7. HeardSub(j)'
  <2>1. ASSUME NEW k \in 1..(job[j].sub - 1) PROVE visit'[Child(j, k)].result = visit[Child(j, k)].result
    <3>1. k \in Pos /\ k < job[j].sub
      BY <1>1 DEF JobType, Pos
    <3>2. Child(j, k) \in Visits
      BY <1>1, <3>1 DEF NestedOK
    <3> QED BY <3>2 DEF Moves, SameCall
  <2> QED BY <1>1, <2>1 DEF HeardSub
<1> QED BY <1>5, <1>6, <1>7

\* The releases of the file are converged without an error.
LEMMA ConvergeKeeps ==
  ASSUME LocalInv, NEW j \in Jobs, NEW processed \in BOOLEAN, Converge(j, processed)
  PROVE  Moves(j) /\ LocalInv'
<1> DEFINE v == VisitOf(j)
           o == IF processed THEN "processed" ELSE "nothing"
           r == [job[j] EXCEPT !.at = Base(j), !.pc = After(j), !.outcome = o]
           n == visit[v].matches + IF processed THEN 1 ELSE 0
           b == visit[v].noMatch /\ ~processed
           e == IF visit[v].parallel THEN [visit[v] EXCEPT !.matches = n] ELSE [visit[v] EXCEPT !.noMatch = b]
<1>1. job[j].pc = "converge" /\ UNCHANGED <<options, cwd>>
  BY DEF Converge
<1>2. /\ job[j] \in JobType /\ JobOK(j) /\ FileOK(j) /\ HeardSub(j) /\ v \in Visits /\ visit[v] \in VisitType
      /\ visit[v].pc = (IF visit[v].parallel THEN "wait" ELSE "walk")
      /\ \A k \in Pos : NestedOK(j, k)
  BY <1>1, AtWork
<1>3. Step(j, r)
  BY DEF Converge, Converged
<1>4. Set(v, e)
  BY DEF Converge, Goroutine, Parallel
<1>5. Base(j) \in Dirs \cup {Nowhere}
  BY <1>2 DEF Base, JobType, LocalInv, VisitTypeOK
<1>6. After(j) \in {"after", "back", "done"} /\ (visit[v].parallel => After(j) # "back")
      /\ o \in {"nothing", "processed"} /\ (o = "processed" <=> processed)
  BY DEF After, EndOf, Goroutine, Parallel
<1> HIDE DEF o
<1>7. /\ r \in JobType /\ r.pc = After(j) /\ r.dir = job[j].dir
      /\ r.read = job[j].read /\ r.sub = job[j].sub /\ r.at = Base(j)
      /\ r.noMatchSub = job[j].noMatchSub /\ r.outcome = o /\ r.failed = job[j].failed
  BY <1>2, <1>5, <1>6 DEF JobType
<1>8. /\ n \in Nat /\ n >= visit[v].matches /\ b \in BOOLEAN /\ visit[v].errors \in Nat /\ visit[v].matches \in Nat
      /\ (processed => n > 0) /\ (~processed => n = visit[v].matches)
  BY <1>2 DEF VisitType
<1> HIDE DEF n, b
<1>9. /\ e \in VisitType /\ e.errors = visit[v].errors
      /\ e.pc = visit[v].pc /\ e.path = visit[v].path /\ e.base = visit[v].base
      /\ e.parallel = visit[v].parallel /\ e.files = visit[v].files /\ e.next = visit[v].next
      /\ e.result = visit[v].result
      /\ e.matches = (IF visit[v].parallel THEN n ELSE visit[v].matches)
      /\ e.noMatch = (IF visit[v].parallel THEN visit[v].noMatch ELSE b)
  BY <1>2, <1>8 DEF VisitType
<1> HIDE DEF r, e
<1>10. job' \in [Jobs -> JobType] /\ job'[j] = r /\ \A i \in Jobs : i # j => job'[i] = job[i]
  BY <1>3, <1>7, StepJob DEF LocalInv
<1>11. visit' \in [Visits -> VisitType] /\ visit'[v] = e /\ \A u \in Visits : u # v => visit'[u] = visit[u]
  BY <1>2, <1>4, <1>9, SetVisit DEF LocalInv
<1>12. b <=> visit[v].noMatch /\ ~processed
  BY DEF b
<1>13. job[j].outcome = "none"
  BY <1>1, <1>2 DEF JobOK
<1>14. Moves(j)
  BY <1>1, <1>2, <1>6, <1>7, <1>8, <1>9, <1>10, <1>11, <1>12, <1>13 DEF Moves, SameCall
<1>15. JobOK(j)' /\ HeardSub(j)' /\ \A k \in Pos : NestedOK(j, k)'
  BY <1>1, <1>6, <1>7, <1>10, <1>14, ConvergedOK DEF RanConverge
<1>16. FileOK(j)'
  BY <1>1, <1>2, <1>6, <1>7, <1>8, <1>9, <1>10, <1>11, <1>12, <1>13 DEF FileOK, JobOK, Accounted, InSubs, Subs
<1>17. cwd' \in Dirs
  BY <1>1 DEF LocalInv, VisitTypeOK
<1> QED BY <1>1, <1>14, <1>15, <1>16, <1>17, MovesKeep

\* The releases of the file are converged with an error.
LEMMA ConvergeFailsKeeps ==
  ASSUME LocalInv, NEW j \in Jobs, ConvergeFails(j)
  PROVE  Moves(j) /\ LocalInv'
<1> DEFINE v == VisitOf(j)
           r == [job[j] EXCEPT !.at = Base(j), !.outcome = "failed"]
           q == [job[j] EXCEPT !.at = Base(j), !.pc = After(j), !.outcome = "failed", !.failed = TRUE]
<1>1. job[j].pc = "converge" /\ UNCHANGED <<options, cwd>>
  BY DEF ConvergeFails
<1>2. /\ job[j] \in JobType /\ JobOK(j) /\ FileOK(j) /\ HeardSub(j) /\ v \in Visits /\ visit[v] \in VisitType
      /\ visit[v].pc = (IF visit[v].parallel THEN "wait" ELSE "walk")
      /\ \A k \in Pos : NestedOK(j, k)
  BY <1>1, AtWork
<1>3. Base(j) \in Dirs \cup {Nowhere}
  BY <1>2 DEF Base, JobType, LocalInv, VisitTypeOK
<1>4. /\ After(j) \in {"after", "back", "done"} /\ EndOf(j) = (IF visit[v].parallel THEN "done" ELSE "back")
      /\ ~visit[v].parallel => After(j) # "done"
  BY DEF After, EndOf, Goroutine, Parallel
<1>5. /\ r \in JobType /\ r.outcome = "failed" /\ r.pc = job[j].pc /\ r.dir = job[j].dir
      /\ r.read = job[j].read /\ r.sub = job[j].sub /\ r.at = Base(j)
      /\ r.noMatchSub = job[j].noMatchSub
  BY <1>2, <1>3 DEF JobType
<1>6. /\ q \in JobType /\ q.outcome = "failed" /\ q.pc = After(j) /\ q.dir = job[j].dir
      /\ q.read = job[j].read /\ q.sub = job[j].sub /\ q.at = Base(j)
      /\ q.noMatchSub = job[j].noMatchSub /\ q.failed
  BY <1>2, <1>3, <1>4 DEF JobType
<1>7. job[j].outcome = "none"
  BY <1>1, <1>2 DEF JobOK
<1>8. IF visit[v].parallel THEN Fail(j, r) ELSE Step(j, q) /\ visit' = visit
  BY DEF ConvergeFails, Converged, Goroutine, Parallel
<1> HIDE DEF q
<1>9. /\ Moves(j) /\ job'[j].pc = (IF visit[v].parallel THEN EndOf(j) ELSE After(j))
      /\ job'[j].failed /\ job'[j].outcome = "failed"
      /\ job'[j].dir = job[j].dir /\ job'[j].read = job[j].read /\ job'[j].sub = job[j].sub
      /\ job'[j].noMatchSub = job[j].noMatchSub
      /\ visit[v].parallel => visit'[v].errors > 0
      /\ ~visit[v].parallel => visit' = visit
  <2>1. CASE visit[v].parallel
    <3>1. Fail(j, r)
      BY <1>8, <2>1
    <3> HIDE DEF r
    <3>2. /\ Moves(j) /\ job'[j] = [r EXCEPT !.pc = EndOf(j), !.failed = TRUE]
          /\ visit'[v].errors > 0
      BY <1>1, <1>5, <1>7, <2>1, <3>1, FailMoves DEF Parallel
    <3>3. /\ job'[j].pc = EndOf(j) /\ job'[j].failed /\ job'[j].outcome = "failed"
          /\ job'[j].dir = job[j].dir /\ job'[j].read = job[j].read /\ job'[j].sub = job[j].sub
          /\ job'[j].noMatchSub = job[j].noMatchSub
      BY <1>5, <3>2 DEF JobType
    <3> QED BY <2>1, <3>2, <3>3
  <2>2. CASE ~visit[v].parallel
    <3>1. Moves(j) /\ job'[j] = q
      BY <1>1, <1>6, <1>7, <1>8, <2>2, Alone
    <3> QED BY <1>6, <1>8, <2>2, <3>1
  <2> QED BY <2>1, <2>2
<1>10. JobOK(j)' /\ HeardSub(j)' /\ \A k \in Pos : NestedOK(j, k)'
  BY <1>1, <1>9, ConvergedOK DEF RanConverge
<1>11. FileOK(j)'
  <2>1. SameCall(v) /\ visit[v].matches \in Nat /\ visit'[v].matches \in Nat
    BY <1>2, <1>9 DEF Moves, VisitType
  <2>2. CASE visit[v].parallel
    BY <1>1, <1>2, <1>4, <1>9, <2>1, <2>2 DEF FileOK, SameCall
  <2>3. CASE ~visit[v].parallel
    <3>1. Accounted(j)' => Accounted(j)
      BY <1>1, <1>9 DEF Accounted, InSubs, Subs
    <3> QED BY <1>1, <1>2, <1>4, <1>9, <2>3, <3>1 DEF FileOK
  <2> QED BY <2>2, <2>3
<1>12. cwd' \in Dirs
  BY <1>1 DEF LocalInv, VisitTypeOK
<1> QED BY <1>1, <1>9, <1>10, <1>11, <1>12, MovesKeep

-----------------------------------------------------------------------------
(* The calls.                                                                *)

\* A step that leaves all files alone.
LEMMA JobsStay ==
  ASSUME LocalInv, NEW i \in Jobs, UNCHANGED <<options, job>>
  PROVE  JobOK(i)' /\ (Accounted(i)' <=> Accounted(i))
<1>1. JobOK(i)
  BY DEF LocalInv
<1>2. JobOK(i)'
  BY <1>1 DEF JobOK, Subs, RanConverge
<1> QED BY <1>2 DEF Accounted, InSubs, Subs

\* The record of a call that begins.
LEMMA FreshRecord ==
  ASSUME NEW q, NEW d, NEW e, e = [Idle EXCEPT !.pc = "find", !.path = q, !.base = d]
  PROVE  e = [pc |-> "find", path |-> q, base |-> d, parallel |-> FALSE, files |-> << >>, next |-> 1,
              errors |-> 0, matches |-> 0, noMatch |-> TRUE, result |-> "none"]
BY DEF Idle

\* The same for the first call.
LEMMA FirstRecord ==
  ASSUME NEW q, NEW e, e = [Idle EXCEPT !.pc = "find", !.path = q]
  PROVE  e = [pc |-> "find", path |-> q, base |-> Start, parallel |-> FALSE, files |-> << >>, next |-> 1,
              errors |-> 0, matches |-> 0, noMatch |-> TRUE, result |-> "none"]
BY DEF Idle

\* Such a record is a record of a call, and says that nothing has happened.
LEMMA FreshCall ==
  ASSUME NEW q \in Paths, NEW d \in Dirs, NEW e,
         e = [pc |-> "find", path |-> q, base |-> d, parallel |-> FALSE, files |-> << >>, next |-> 1,
              errors |-> 0, matches |-> 0, noMatch |-> TRUE, result |-> "none"]
  PROVE  /\ e \in VisitType /\ e.pc = "find" /\ e.path \in Paths /\ ~e.parallel /\ e.files = << >> /\ e.next = 1
         /\ e.errors = 0 /\ e.matches = 0 /\ e.noMatch /\ e.result = "none"
<1>1. << >> \in Seq(Files) /\ "none" \in Results
  BY DEF Results
<1>2. e \in VisitType
  BY <1>1 DEF VisitType
<1> QED BY <1>2

\* A nested helmfile is visited.
LEMMA CallNestedKeeps == ASSUME LocalInv, NEW j \in Jobs, CallNested(j) PROVE LocalInv'
<1> DEFINE w == Nested(j)
           e == [Idle EXCEPT !.pc = "find", !.path = Subs(j)[job[j].sub], !.base = job[j].dir]
<1>1. /\ job[j].pc \in {"subs", "after"} /\ job[j].sub \in DOMAIN Subs(j) /\ w \in Visits
      /\ visit[w].pc = "idle" /\ Set(w, e) /\ UNCHANGED <<options, cwd, job>>
  BY DEF CallNested, AtNested, InSubs
<1>2. job[j] \in JobType /\ JobOK(j) /\ \A k \in Pos : NestedOK(j, k)
  BY <1>1, AtWork
<1>3. /\ w = Child(j, job[j].sub) /\ job[j].sub \in Pos
      /\ \A i \in Jobs : \A k \in Pos : Child(i, k) = w => i = j /\ k = job[j].sub
  <2>1. w = Child(j, job[j].sub) /\ job[j].sub \in Pos
    BY <1>2 DEF Nested, JobType, Pos
  <2> QED BY <2>1, NestedName
<1>4. job[j].read \in Files /\ job[j].dir \in Dirs /\ Subs(j)[job[j].sub] \in Paths
  <2>1. job[j].read \in Files /\ job[j].dir \in Dirs
    BY <1>1, <1>2 DEF JobType, JobOK
  <2>2. Subs(j) \in Seq(Paths)
    BY <2>1, VisitAssumption DEF Subs
  <2> QED BY <1>1, <2>1, <2>2
<1>5. /\ e \in VisitType /\ e.pc = "find" /\ e.path \in Paths /\ ~e.parallel /\ e.files = << >> /\ e.next = 1
      /\ e.errors = 0 /\ e.matches = 0 /\ e.noMatch /\ e.result = "none"
  <2>1. e = [pc |-> "find", path |-> Subs(j)[job[j].sub], base |-> job[j].dir, parallel |-> FALSE,
             files |-> << >>, next |-> 1, errors |-> 0, matches |-> 0, noMatch |-> TRUE, result |-> "none"]
    BY FreshRecord
  <2> HIDE DEF e
  <2> QED BY <1>4, <2>1, FreshCall
<1> HIDE DEF e, w
<1>6. visit' \in [Visits -> VisitType] /\ visit'[w] = e /\ \A u \in Visits : u # w => visit'[u] = visit[u]
  BY <1>1, <1>5, SetVisit DEF LocalInv
<1>7. VisitTypeOK'
  <2>1. \A v \in Visits : Len(visit'[v].files) <= MaxFiles
    <3>1. Len(<< >>) <= MaxFiles
      BY VisitAssumption
    <3> QED BY <1>5, <1>6, <3>1 DEF LocalInv, VisitTypeOK
  <2> QED BY <1>1, <1>6, <2>1 DEF LocalInv, VisitTypeOK
<1>8. ASSUME NEW i \in Jobs PROVE JobOK(i)' /\ HeardSub(i)'
  <2>1. HeardSub(i) /\ job[i] \in JobType
    BY DEF LocalInv, VisitTypeOK
  <2>2. ASSUME NEW k \in 1..(job[i].sub - 1) PROVE visit'[Child(i, k)].result = visit[Child(i, k)].result
    <3>1. k \in Pos /\ k < job[i].sub
      BY <2>1 DEF JobType, Pos
    <3>2. NestedOK(i, k)
      BY <3>1 DEF LocalInv
    <3>3. Child(i, k) \in Visits /\ Child(i, k) # w
      BY <1>1, <3>1, <3>2 DEF NestedOK
    <3> QED BY <1>6, <3>3
  <2> QED BY <1>1, <2>1, <2>2, JobsStay DEF HeardSub
<1>9. ASSUME NEW i \in Jobs PROVE FileOK(i)'
  <2>1. FileOK(i) /\ VisitOf(i) \in Visits /\ job'[i] = job[i] /\ JobOK(i)
    BY <1>1, JobName DEF LocalInv
  <2>2. CASE VisitOf(i) = w
    <3>1. job[i].pc = "idle" /\ ~job[i].failed /\ job[i].outcome = "none" /\ job[i].read = Nowhere
      BY <1>1, <2>1, <2>2 DEF FileOK, JobOK
    <3>2. Position(i) \in Nat /\ ~(Position(i) < 1)
      BY JobName, VisitAssumption
    <3>3. ~Accounted(i)'
      BY <2>1, <3>1 DEF Accounted
    <3> QED BY <1>1, <1>5, <1>6, <2>1, <2>2, <3>1, <3>2, <3>3 DEF FileOK
  <2>3. CASE VisitOf(i) # w
    BY <1>1, <1>6, <2>1, <2>3, JobsStay DEF FileOK
  <2> QED BY <2>2, <2>3
<1>10. ASSUME NEW i \in Jobs, NEW k \in Pos PROVE NestedOK(i, k)'
  <2>1. NestedOK(i, k) /\ job'[i] = job[i] /\ options' = options
    BY <1>1 DEF LocalInv
  <2>2. CASE Child(i, k) = w
    <3>1. i = j /\ k = job[j].sub /\ ~(k < job[j].sub) /\ ~(k > job[j].sub)
      BY <1>3, <2>2 DEF Pos
    <3> QED BY <1>1, <1>2, <1>5, <1>6, <2>1, <2>2, <3>1 DEF NestedOK, JobOK, InSubs, Subs, RanConverge
  <2>3. CASE Child(i, k) # w
    BY <1>6, <2>1, <2>3 DEF NestedOK, InSubs, Subs, RanConverge
  <2> QED BY <2>2, <2>3
<1>11. ASSUME NEW u \in Visits PROVE CallOK(u)' /\ HeardFile(u)'
  <2>1. CallOK(u) /\ HeardFile(u)
    BY DEF LocalInv
  <2>2. CASE u = w
    BY <1>5, <1>6, <2>2 DEF CallOK, HeardFile
  <2>3. CASE u # w
    BY <1>1, <1>6, <2>1, <2>3 DEF CallOK, HeardFile
  <2> QED BY <2>2, <2>3
<1> QED BY <1>7, <1>8, <1>9, <1>10, <1>11 DEF LocalInv

\* A call moves on, and may start files of its own.
Calls(v) ==
  /\ options' = options /\ cwd' = cwd
  /\ job' \in [Jobs -> JobType] /\ visit' \in [Visits -> VisitType]
  /\ \A u \in Visits : u # v => visit'[u] = visit[u]
  /\ \A i \in Jobs :
       \/ job'[i] = job[i]
       \/ VisitOf(i) = v /\ job[i].pc = "idle" /\ job'[i] = [job[i] EXCEPT !.pc = "resolve"]
  /\ visit'[v].pc # "idle" /\ visit'[v].path = visit[v].path /\ visit'[v].base = visit[v].base
  /\ Len(visit'[v].files) <= MaxFiles

\* Such a step needs to be looked at only where the call itself is concerned.
LEMMA CallsKeep ==
  ASSUME LocalInv, NEW v \in Visits, visit[v].pc \notin {"idle", "done"}, Calls(v),
         CallOK(v)', HeardFile(v)', \A i \in Jobs : VisitOf(i) = v => FileOK(i)'
  PROVE  LocalInv'
<1>1. VisitTypeOK'
  BY DEF LocalInv, VisitTypeOK, Calls
<1>2. ASSUME NEW i \in Jobs
      PROVE /\ job'[i].dir = job[i].dir /\ job'[i].read = job[i].read /\ job'[i].sub = job[i].sub
            /\ job'[i].at = job[i].at /\ job'[i].noMatchSub = job[i].noMatchSub
            /\ job'[i].outcome = job[i].outcome /\ job'[i].failed = job[i].failed
            /\ job'[i].pc = job[i].pc \/ (job[i].pc = "idle" /\ job'[i].pc = "resolve")
            /\ VisitOf(i) # v => job'[i] = job[i]
  <2>1. job[i] \in JobType
    BY DEF LocalInv, VisitTypeOK
  <2> QED BY <2>1 DEF Calls, JobType
<1>3. ASSUME NEW i \in Jobs PROVE JobOK(i)'
  <2>1. JobOK(i)
    BY DEF LocalInv
  <2> QED BY <1>2, <2>1 DEF JobOK, Subs, RanConverge, Calls
<1>4. ASSUME NEW i \in Jobs PROVE HeardSub(i)'
  <2>1. HeardSub(i) /\ job[i] \in JobType
    BY DEF LocalInv, VisitTypeOK
  <2>2. ASSUME NEW k \in 1..(job[i].sub - 1) PROVE visit'[Child(i, k)].result = visit[Child(i, k)].result
    <3>1. k \in Pos /\ k < job[i].sub
      BY <2>1 DEF JobType, Pos
    <3>2. NestedOK(i, k)
      BY <3>1 DEF LocalInv
    <3>3. Child(i, k) \in Visits /\ Child(i, k) # v
      BY <3>1, <3>2 DEF NestedOK
    <3> QED BY <3>3 DEF Calls
  <2> QED BY <1>2, <2>1, <2>2 DEF HeardSub
<1>5. ASSUME NEW i \in Jobs, VisitOf(i) # v PROVE FileOK(i)'
  <2>1. FileOK(i) /\ job'[i] = job[i] /\ VisitOf(i) \in Visits
    BY <1>2, <1>5, JobName DEF LocalInv
  <2>2. visit'[VisitOf(i)] = visit[VisitOf(i)]
    BY <1>5, <2>1 DEF Calls
  <2> QED BY <2>1, <2>2 DEF FileOK, Accounted, InSubs, Subs
<1>6. ASSUME NEW i \in Jobs, NEW k \in Pos PROVE NestedOK(i, k)'
  <2>1. NestedOK(i, k) /\ JobOK(i) /\ options' = options /\ job[i] \in JobType
    BY DEF LocalInv, VisitTypeOK, Calls
  <2>2. CASE Child(i, k) = v
    <3>1. CallOK(v) /\ visit[v].result = "none"
      BY DEF LocalInv, CallOK
    <3>2. ~(k < job[i].sub) /\ ~(k > job[i].sub) /\ k = job[i].sub /\ InSubs(i)
      <4>1. ~(k < job[i].sub) /\ ~(k > job[i].sub)
        BY <2>1, <2>2 DEF NestedOK
      <4>2. k = job[i].sub
        BY <2>1, <4>1 DEF JobType, Pos
      <4> QED BY <2>1, <2>2, <3>1, <4>1, <4>2 DEF NestedOK
    <3>3. InSubs(i)'
      BY <1>2, <3>2 DEF InSubs
    <3> QED BY <1>2, <2>1, <2>2, <3>2, <3>3 DEF NestedOK, Subs, RanConverge
  <2>3. CASE Child(i, k) # v
    <3>1. Child(i, k) \in Visits => visit'[Child(i, k)] = visit[Child(i, k)]
      BY <2>3 DEF Calls
    <3> QED BY <1>2, <2>1, <3>1 DEF NestedOK, InSubs, Subs, RanConverge, JobOK
  <2> QED BY <2>2, <2>3
<1>7. ASSUME NEW u \in Visits, u # v PROVE CallOK(u)' /\ HeardFile(u)'
  <2>1. CallOK(u) /\ HeardFile(u) /\ visit'[u] = visit[u]
    BY <1>7 DEF LocalInv, Calls
  <2> QED BY <1>2, <2>1 DEF CallOK, HeardFile
<1> QED BY <1>1, <1>3, <1>4, <1>5, <1>6, <1>7 DEF LocalInv

\* What is found at a place are state files, and no more than a directory holds.
LEMMA FilesFound ==
  ASSUME NEW place \in Dirs \cup Files
  PROVE  FilesAt(place) \in Seq(Files) /\ Len(FilesAt(place)) <= MaxFiles
<1>1. CASE place \in Files
  <2>1. <<place>> \in Seq(Files) /\ Len(<<place>>) = 1
    BY <1>1
  <2> QED BY <1>1, <2>1, VisitAssumption DEF FilesAt
<1>2. CASE place \in Dirs /\ place \notin Files
  <2>1. FilesIn[place] \in Seq(Files) /\ Len(FilesIn[place]) \in Nat /\ Len(FilesIn[place]) <= MaxFiles
    BY <1>2, VisitAssumption
  <2> DEFINE s == FilesIn[place]
  <2>2. DOMAIN s = 1..Len(s) /\ \A i \in 1..Len(s) : s[Len(s) + 1 - i] \in Files
    BY <2>1, LenProperties, ElementOfSeq
  <2> HIDE DEF s
  <2>3. Reversed(s) \in Seq(Files) /\ Len(Reversed(s)) = Len(s)
    BY <2>1, <2>2 DEF Reversed, s
  <2> QED BY <1>2, <2>1, <2>3 DEF FilesAt, s
<1> QED BY <1>1, <1>2

\* A call that is not over.
LEMMA AtCall ==
  ASSUME LocalInv, NEW v \in Visits, visit[v].pc \notin {"idle", "done"}
  PROVE  /\ visit[v] \in VisitType /\ CallOK(v) /\ HeardFile(v) /\ visit[v].result = "none"
         /\ Len(visit[v].files) <= MaxFiles
         /\ \A i \in Jobs : VisitOf(i) = v => FileOK(i) /\ JobOK(i) /\ Position(i) \in Nat \ {0} /\ job[i] \in JobType
<1>1. visit[v] \in VisitType /\ CallOK(v) /\ HeardFile(v) /\ Len(visit[v].files) <= MaxFiles
  BY DEF LocalInv, VisitTypeOK
<1>2. visit[v].result = "none"
  BY <1>1 DEF CallOK
<1>3. ASSUME NEW i \in Jobs PROVE FileOK(i) /\ JobOK(i) /\ Position(i) \in Nat \ {0} /\ job[i] \in JobType
  BY JobName, VisitAssumption DEF LocalInv, VisitTypeOK
<1> QED BY <1>1, <1>2, <1>3

\* A call that moves on without starting files.
LEMMA CallAlone ==
  ASSUME LocalInv, NEW v \in Visits, NEW e \in VisitType, Set(v, e), UNCHANGED <<options, cwd, job>>,
         e.pc # "idle", e.path = visit[v].path, e.base = visit[v].base, Len(e.files) <= MaxFiles
  PROVE  Calls(v) /\ visit'[v] = e
<1>1. visit' \in [Visits -> VisitType] /\ visit'[v] = e /\ \A u \in Visits : u # v => visit'[u] = visit[u]
  BY SetVisit DEF LocalInv
<1>2. job' \in [Jobs -> JobType]
  BY DEF LocalInv, VisitTypeOK
<1> QED BY <1>1, <1>2 DEF Calls

\* The files are found, and their goroutines started.
LEMMA FindKeeps == ASSUME LocalInv, NEW v \in Visits, Find(v) PROVE Calls(v) /\ LocalInv'
<1> DEFINE place == Lookup(v)
           fs    == IF place = Nowhere THEN << >> ELSE FilesAt(place)
           p     == Len(fs) > 1 /\ ~options.sequential
           e     == [visit[v] EXCEPT !.pc = IF p THEN "wait" ELSE "again", !.parallel = p, !.files = fs]
<1>1. visit[v].pc = "find" /\ UNCHANGED <<options, cwd>> /\ Set(v, e)
  BY DEF Find
<1>2. job' = [j \in Jobs |-> IF p /\ j \in {Child(v, i) : i \in DOMAIN fs}
                             THEN [job[j] EXCEPT !.pc = "resolve"] ELSE job[j]]
  BY DEF Find
<1>3. /\ visit[v] \in VisitType /\ CallOK(v) /\ HeardFile(v)
      /\ \A i \in Jobs : VisitOf(i) = v => FileOK(i) /\ JobOK(i) /\ Position(i) \in Nat \ {0} /\ job[i] \in JobType
  BY <1>1, AtCall
<1>4. fs \in Seq(Files) /\ Len(fs) <= MaxFiles /\ p \in BOOLEAN
  <2>1. place \in Dirs \cup Files \cup {Nowhere}
    BY <1>1, Looked
  <2>2. << >> \in Seq(Files) /\ Len(<< >>) <= MaxFiles
    BY VisitAssumption
  <2> QED BY <2>1, <2>2, FilesFound
<1> HIDE DEF fs, p
<1>5. /\ e \in VisitType /\ e.pc = (IF p THEN "wait" ELSE "again") /\ e.parallel = p /\ e.files = fs
      /\ e.path = visit[v].path /\ e.base = visit[v].base /\ e.next = visit[v].next
      /\ e.errors = visit[v].errors /\ e.matches = visit[v].matches
      /\ e.noMatch = visit[v].noMatch /\ e.result = visit[v].result
  BY <1>3, <1>4 DEF VisitType
<1> HIDE DEF e
<1>6. visit' \in [Visits -> VisitType] /\ visit'[v] = e /\ \A u \in Visits : u # v => visit'[u] = visit[u]
  BY <1>1, <1>5, SetVisit DEF LocalInv
<1>7. DOMAIN fs \subseteq 1..MaxFiles
  <2>1. DOMAIN fs = 1..Len(fs) /\ Len(fs) \in Nat
    BY <1>4, LenProperties
  <2>2. MaxFiles \in Nat /\ Len(fs) <= MaxFiles
    BY <1>4, VisitAssumption
  <2> QED BY <2>1, <2>2
<1>8. ASSUME NEW i \in Jobs
      PROVE job'[i] = IF p /\ VisitOf(i) = v /\ Position(i) \in DOMAIN fs
                      THEN [job[i] EXCEPT !.pc = "resolve"] ELSE job[i]
  <2>1. i \in {Child(v, k) : k \in DOMAIN fs} <=> VisitOf(i) = v /\ Position(i) \in DOMAIN fs
    BY <1>7, JobName
  <2> QED BY <1>2, <2>1
<1>9. \A i \in Jobs : VisitOf(i) = v => job[i].pc = "idle" /\ ~job[i].failed /\ job[i].outcome = "none" /\ job[i].read = Nowhere
  BY <1>1, <1>3 DEF FileOK, JobOK
<1>10. job' \in [Jobs -> JobType]
  <2>1. \A i \in Jobs : job[i] \in JobType
    BY DEF LocalInv, VisitTypeOK
  <2>2. \A i \in Jobs : [job[i] EXCEPT !.pc = "resolve"] \in JobType
    BY <2>1 DEF JobType
  <2>3. \A i \in Jobs : job'[i] \in JobType
    BY <1>8, <2>1, <2>2
  <2> QED BY <1>2, <2>3
<1>11. Calls(v)
  BY <1>1, <1>4, <1>5, <1>6, <1>8, <1>9, <1>10 DEF Calls
<1>12. CallOK(v)' /\ HeardFile(v)'
  BY <1>1, <1>3, <1>5, <1>6 DEF CallOK, HeardFile
<1>13. ASSUME NEW i \in Jobs, VisitOf(i) = v PROVE FileOK(i)'
  <2>1. /\ ~job'[i].failed /\ job'[i].outcome = "none" /\ job'[i].read = Nowhere
        /\ job'[i].pc = IF p /\ Position(i) \in DOMAIN fs THEN "resolve" ELSE "idle"
    <3>1. job[i] \in JobType /\ job[i].pc = "idle" /\ ~job[i].failed /\ job[i].outcome = "none"
          /\ job[i].read = Nowhere
      BY <1>3, <1>9, <1>13
    <3>2. CASE p /\ Position(i) \in DOMAIN fs
      <4>1. job'[i] = [job[i] EXCEPT !.pc = "resolve"]
        BY <1>8, <1>13, <3>2
      <4> QED BY <3>1, <3>2, <4>1 DEF JobType
    <3>3. CASE ~(p /\ Position(i) \in DOMAIN fs)
      <4>1. job'[i] = job[i]
        BY <1>8, <1>13, <3>3
      <4> QED BY <3>1, <3>3, <4>1
    <3> QED BY <3>2, <3>3
  <2>2. ~Accounted(i)'
    BY <2>1 DEF Accounted
  <2>3. visit'[v].next = 1 /\ ~(Position(i) < 1)
    BY <1>1, <1>3, <1>5, <1>6, <1>13 DEF CallOK
  <2> QED BY <1>5, <1>6, <1>13, <2>1, <2>2, <2>3 DEF FileOK
<1> QED BY <1>1, <1>11, <1>12, <1>13, CallsKeep

\* The files of a walk are found.
LEMMA FindAgainKeeps == ASSUME LocalInv, NEW v \in Visits, FindAgain(v) PROVE Calls(v) /\ LocalInv'
<1> DEFINE place == Lookup(v)
           e     == IF place = Nowhere THEN [visit[v] EXCEPT !.pc = "done", !.result = "error"]
                    ELSE [visit[v] EXCEPT !.pc = "walk", !.files = FilesAt(place)]
<1>1. visit[v].pc = "again" /\ UNCHANGED <<options, cwd, job>> /\ Set(v, e)
  BY DEF FindAgain
<1>2. /\ visit[v] \in VisitType /\ CallOK(v) /\ HeardFile(v) /\ Len(visit[v].files) <= MaxFiles
      /\ \A i \in Jobs : VisitOf(i) = v => FileOK(i) /\ JobOK(i) /\ Position(i) \in Nat \ {0}
  BY <1>1, AtCall
<1>3. place = Nowhere \/ (FilesAt(place) \in Seq(Files) /\ Len(FilesAt(place)) <= MaxFiles)
  BY <1>1, Looked, FilesFound
<1> HIDE DEF place
<1>4. /\ e \in VisitType /\ e.pc = (IF place = Nowhere THEN "done" ELSE "walk")
      /\ e.result = (IF place = Nowhere THEN "error" ELSE visit[v].result) /\ e.parallel = visit[v].parallel
      /\ e.path = visit[v].path /\ e.base = visit[v].base /\ e.next = visit[v].next
      /\ e.errors = visit[v].errors /\ e.matches = visit[v].matches
      /\ e.noMatch = visit[v].noMatch /\ Len(e.files) <= MaxFiles
  BY <1>2, <1>3 DEF VisitType, Results
<1> HIDE DEF e
<1>5. Calls(v) /\ visit'[v] = e
  BY <1>1, <1>4, CallAlone
<1>6. CallOK(v)' /\ HeardFile(v)'
  BY <1>1, <1>2, <1>4, <1>5 DEF CallOK, HeardFile
<1>7. ASSUME NEW i \in Jobs, VisitOf(i) = v PROVE FileOK(i)'
  <2>1. job'[i] = job[i] /\ job[i].pc = "idle" /\ ~job[i].failed /\ job[i].outcome = "none" /\ job[i].read = Nowhere
    BY <1>1, <1>2, <1>7 DEF FileOK, JobOK
  <2>2. ~Accounted(i)'
    BY <2>1 DEF Accounted
  <2>3. visit'[v].next = 1 /\ ~(Position(i) < 1) /\ ~visit'[v].parallel
    BY <1>1, <1>2, <1>4, <1>5, <1>7 DEF CallOK
  <2> QED BY <1>7, <2>1, <2>2, <2>3 DEF FileOK
<1> QED BY <1>1, <1>5, <1>6, <1>7, CallsKeep

\* The next file of a walk begins.
LEMMA NextFileKeeps == ASSUME LocalInv, NEW v \in Visits, NextFile(v) PROVE Calls(v) /\ LocalInv'
<1> DEFINE j == Child(v, visit[v].next)
           r == [job[j] EXCEPT !.pc = "resolve"]
<1>1. /\ visit[v].pc = "walk" /\ visit[v].next \in DOMAIN visit[v].files /\ job[j].pc = "idle"
      /\ Step(j, r) /\ UNCHANGED <<options, cwd, visit>>
  BY DEF NextFile, Goto
<1>2. /\ visit[v] \in VisitType /\ CallOK(v) /\ HeardFile(v) /\ Len(visit[v].files) <= MaxFiles
      /\ \A i \in Jobs : VisitOf(i) = v => FileOK(i) /\ JobOK(i) /\ Position(i) \in Nat \ {0} /\ job[i] \in JobType
  BY <1>1, AtCall
<1>3. visit[v].next \in 1..MaxFiles
  <2>1. visit[v].files \in Seq(Files)
    BY <1>2 DEF VisitType
  <2>2. DOMAIN visit[v].files = 1..Len(visit[v].files) /\ Len(visit[v].files) \in Nat
    BY <2>1, LenProperties
  <2> QED BY <1>1, <1>2, <2>2, VisitAssumption
<1>4. j \in Jobs /\ VisitOf(j) = v /\ Position(j) = visit[v].next
  BY <1>3, JobName
<1> HIDE DEF j
<1>5. /\ r \in JobType /\ r.pc = "resolve" /\ r.outcome = job[j].outcome /\ r.failed = job[j].failed
      /\ r.read = job[j].read /\ r.noMatchSub = job[j].noMatchSub
  BY <1>2, <1>4 DEF JobType
<1>6. job' \in [Jobs -> JobType] /\ job'[j] = r /\ \A i \in Jobs : i # j => job'[i] = job[i]
  BY <1>1, <1>4, <1>5, StepJob DEF LocalInv
<1>7. visit' \in [Visits -> VisitType]
  BY <1>1 DEF LocalInv, VisitTypeOK
<1>8. Calls(v)
  BY <1>1, <1>2, <1>4, <1>6, <1>7 DEF Calls
<1>9. CallOK(v)'
  BY <1>1, <1>2 DEF CallOK
<1>10. HeardFile(v)'
  <2>1. \A i \in Jobs : job'[i].outcome = job[i].outcome /\ job'[i].noMatchSub = job[i].noMatchSub
    BY <1>5, <1>6
  <2> QED BY <1>1, <1>2, <2>1 DEF HeardFile
<1>11. ASSUME NEW i \in Jobs, VisitOf(i) = v PROVE FileOK(i)'
  <2>1. CASE i = j
    <3>1. job[j].read = Nowhere /\ ~job[j].failed /\ job[j].outcome = "none" /\ ~visit[v].parallel
      BY <1>1, <1>2, <1>4 DEF JobOK, CallOK
    <3>2. /\ job'[i].read = Nowhere /\ ~job'[i].failed /\ job'[i].outcome = "none" /\ ~visit'[v].parallel
          /\ job'[i].pc = "resolve" /\ visit'[v] = visit[v]
      BY <1>1, <1>5, <1>6, <2>1, <3>1
    <3>3. ~Accounted(i)'
      BY <3>2 DEF Accounted
    <3>4. ~(Position(i) < visit[v].next) /\ ~(Position(i) > visit[v].next)
      BY <1>3, <1>4, <2>1, VisitAssumption
    <3> QED BY <1>1, <1>4, <1>11, <2>1, <3>2, <3>3, <3>4 DEF FileOK
  <2>2. CASE i # j
    <3>1. job'[i] = job[i] /\ visit' = visit /\ FileOK(i)
      BY <1>1, <1>2, <1>6, <1>11, <2>2
    <3> QED BY <3>1 DEF FileOK, Accounted, InSubs, Subs
  <2> QED BY <2>1, <2>2
<1> QED BY <1>1, <1>8, <1>9, <1>10, <1>11, CallsKeep

\* A file of a walk is over.
LEMMA FileDoneKeeps == ASSUME LocalInv, NEW v \in Visits, FileDone(v) PROVE Calls(v) /\ LocalInv'
<1> DEFINE j == Child(v, visit[v].next)
           e == IF job[j].failed THEN [visit[v] EXCEPT !.pc = "done", !.result = "error"]
                ELSE [visit[v] EXCEPT !.next = visit[v].next + 1]
<1>1. /\ visit[v].pc = "walk" /\ visit[v].next \in DOMAIN visit[v].files /\ job[j].pc = "done"
      /\ Set(v, e) /\ UNCHANGED <<options, cwd, job>>
  BY DEF FileDone
<1>2. /\ visit[v] \in VisitType /\ CallOK(v) /\ HeardFile(v) /\ Len(visit[v].files) <= MaxFiles
      /\ visit[v].result = "none"
      /\ \A i \in Jobs : VisitOf(i) = v => FileOK(i) /\ JobOK(i) /\ Position(i) \in Nat \ {0} /\ job[i] \in JobType
  BY <1>1, AtCall
<1>3. visit[v].next \in 1..MaxFiles
  <2>1. visit[v].files \in Seq(Files)
    BY <1>2 DEF VisitType
  <2>2. DOMAIN visit[v].files = 1..Len(visit[v].files) /\ Len(visit[v].files) \in Nat
    BY <2>1, LenProperties
  <2> QED BY <1>1, <1>2, <2>2, VisitAssumption
<1>4. j \in Jobs /\ VisitOf(j) = v /\ Position(j) = visit[v].next
  BY <1>3, JobName
<1>5. \A i \in Jobs : VisitOf(i) = v /\ Position(i) = visit[v].next => i = j
  BY JobName
<1> HIDE DEF j
<1>6. /\ e \in VisitType /\ e.pc = (IF job[j].failed THEN "done" ELSE "walk")
      /\ e.result = (IF job[j].failed THEN "error" ELSE "none") /\ e.parallel = visit[v].parallel
      /\ e.path = visit[v].path /\ e.base = visit[v].base
      /\ e.next = (IF job[j].failed THEN visit[v].next ELSE visit[v].next + 1)
      /\ e.errors = visit[v].errors /\ e.matches = visit[v].matches
      /\ e.noMatch = visit[v].noMatch /\ e.files = visit[v].files
  <2>1. CASE job[j].failed
    BY <1>1, <1>2, <2>1 DEF VisitType, Results
  <2>2. CASE ~job[j].failed
    BY <1>1, <1>2, <2>2 DEF VisitType
  <2> QED BY <2>1, <2>2
<1> HIDE DEF e
<1>7. Calls(v) /\ visit'[v] = e
  BY <1>1, <1>2, <1>6, CallAlone
<1>8. CallOK(v)'
  BY <1>1, <1>2, <1>6, <1>7 DEF CallOK
<1>9. HeardFile(v)'
  BY <1>1, <1>2, <1>6, <1>7 DEF HeardFile
<1>10. ASSUME NEW i \in Jobs, VisitOf(i) = v PROVE FileOK(i)'
  <2>1. /\ job'[i] = job[i] /\ FileOK(i) /\ Position(i) \in Nat \ {0} /\ visit[v].next \in Nat
        /\ ~visit[v].parallel
    BY <1>1, <1>2, <1>3, <1>10, VisitAssumption DEF CallOK
  <2>2. Position(i) = visit[v].next => job[i].pc = "done" /\ (job[i].failed <=> job[j].failed)
    BY <1>1, <1>5, <1>10
  <2>3. Accounted(i)' <=> Accounted(i)
    BY <2>1 DEF Accounted, InSubs, Subs
  <2>4. CASE job[j].failed
    <3>1. job[i].pc \in {"idle", "done"}
      BY <1>10, <2>1, <2>2 DEF FileOK
    <3> QED BY <1>6, <1>7, <1>10, <2>1, <2>3, <2>4, <3>1 DEF FileOK
  <2>5. CASE ~job[j].failed
    <3>1. visit'[v].next = visit[v].next + 1 /\ visit'[v].pc = "walk" /\ visit[v].pc = "walk"
          /\ visit'[v].files = visit[v].files /\ ~visit'[v].parallel /\ (visit'[v].noMatch <=> visit[v].noMatch)
      BY <1>1, <1>6, <1>7, <2>1, <2>5
    <3>2. Position(i) < visit[v].next + 1 => Position(i) < visit[v].next \/ Position(i) = visit[v].next
      BY <2>1
    <3>3. Position(i) > visit[v].next + 1 => Position(i) > visit[v].next
      BY <2>1
    <3> QED BY <1>10, <2>1, <2>2, <2>3, <2>5, <3>1, <3>2, <3>3 DEF FileOK
  <2> QED BY <2>4, <2>5
<1> QED BY <1>1, <1>7, <1>8, <1>9, <1>10, CallsKeep

\* A walk is over.
LEMMA WalkDoneKeeps == ASSUME LocalInv, NEW v \in Visits, WalkDone(v) PROVE Calls(v) /\ LocalInv'
<1> DEFINE e == [visit[v] EXCEPT !.pc = "done", !.result = IF visit[v].noMatch THEN "noMatch" ELSE "ok"]
<1>1. /\ visit[v].pc = "walk" /\ visit[v].next \notin DOMAIN visit[v].files
      /\ Set(v, e) /\ UNCHANGED <<options, cwd, job>>
  BY DEF WalkDone
<1>2. /\ visit[v] \in VisitType /\ CallOK(v) /\ HeardFile(v) /\ Len(visit[v].files) <= MaxFiles
      /\ \A i \in Jobs : VisitOf(i) = v => FileOK(i) /\ JobOK(i) /\ Position(i) \in Nat \ {0} /\ job[i] \in JobType
  BY <1>1, AtCall
<1>3. /\ e \in VisitType /\ e.pc = "done" /\ e.result = (IF visit[v].noMatch THEN "noMatch" ELSE "ok")
      /\ e.parallel = visit[v].parallel /\ e.next = visit[v].next
      /\ e.path = visit[v].path /\ e.base = visit[v].base
      /\ e.errors = visit[v].errors /\ e.matches = visit[v].matches
      /\ e.noMatch = visit[v].noMatch /\ e.files = visit[v].files
  BY <1>2 DEF VisitType, Results
<1> HIDE DEF e
<1>4. Calls(v) /\ visit'[v] = e
  BY <1>1, <1>2, <1>3, CallAlone
<1>5. CallOK(v)'
  BY <1>1, <1>2, <1>3, <1>4 DEF CallOK
<1>6. HeardFile(v)'
  BY <1>1, <1>2, <1>3, <1>4 DEF HeardFile
<1>7. ASSUME NEW i \in Jobs, VisitOf(i) = v PROVE FileOK(i)'
  <2>1. /\ job'[i] = job[i] /\ FileOK(i) /\ Position(i) \in Nat \ {0} /\ visit[v].next \in Nat
        /\ ~visit[v].parallel
    BY <1>1, <1>2, <1>7 DEF CallOK, VisitType
  <2>2. Position(i) < visit[v].next \/ Position(i) = visit[v].next \/ Position(i) > visit[v].next
    BY <2>1
  <2>3. job[i].pc \in {"idle", "done"} /\ ~job[i].failed
    <3>1. Position(i) = visit[v].next => job[i].pc = "idle"
      BY <1>1, <1>7, <2>1 DEF FileOK
    <3>2. job[i].pc = "idle" => ~job[i].failed
      BY <1>2, <1>7 DEF JobOK
    <3> QED BY <1>7, <2>1, <2>2, <3>1, <3>2 DEF FileOK
  <2>4. Accounted(i)' <=> Accounted(i)
    BY <2>1 DEF Accounted, InSubs, Subs
  <2> QED BY <1>3, <1>4, <1>7, <2>1, <2>3, <2>4 DEF FileOK
<1> QED BY <1>1, <1>4, <1>5, <1>6, <1>7, CallsKeep

\* All goroutines of a call are over.
LEMMA AllReturnedKeeps == ASSUME LocalInv, NEW v \in Visits, AllReturned(v) PROVE Calls(v) /\ LocalInv'
<1> DEFINE e == [visit[v] EXCEPT !.pc = "done",
                                 !.result = IF visit[v].errors > 0 THEN "error"
                                            ELSE IF visit[v].matches > 0 THEN "ok" ELSE "noMatch"]
<1>1. /\ visit[v].pc = "wait" /\ \A j \in JobsOf(v) : job[j].pc = "done"
      /\ Set(v, e) /\ UNCHANGED <<options, cwd, job>>
  BY DEF AllReturned
<1>2. /\ visit[v] \in VisitType /\ CallOK(v) /\ HeardFile(v) /\ Len(visit[v].files) <= MaxFiles
      /\ \A i \in Jobs : VisitOf(i) = v => FileOK(i) /\ JobOK(i) /\ Position(i) \in Nat \ {0} /\ job[i] \in JobType
  BY <1>1, AtCall
<1>3. /\ e \in VisitType /\ e.pc = "done"
      /\ e.result = (IF visit[v].errors > 0 THEN "error" ELSE IF visit[v].matches > 0 THEN "ok" ELSE "noMatch")
      /\ e.parallel = visit[v].parallel /\ e.next = visit[v].next
      /\ e.path = visit[v].path /\ e.base = visit[v].base
      /\ e.errors = visit[v].errors /\ e.matches = visit[v].matches
      /\ e.noMatch = visit[v].noMatch /\ e.files = visit[v].files
  BY <1>2 DEF VisitType, Results
<1> HIDE DEF e
<1>4. Calls(v) /\ visit'[v] = e
  BY <1>1, <1>2, <1>3, CallAlone
<1>5. CallOK(v)'
  <2>1. visit[v].errors \in Nat /\ visit[v].parallel
    BY <1>1, <1>2 DEF VisitType, CallOK
  <2>2. visit'[v].result \in {"ok", "noMatch"} =>
          visit'[v].errors = 0 /\ (visit'[v].result = "ok" <=> visit'[v].matches > 0)
    BY <1>3, <1>4, <2>1
  <2>3. visit'[v].result # "none" /\ visit'[v].pc = "done" /\ visit'[v].parallel
    BY <1>3, <1>4, <2>1
  <2>4. visit'[v].path \in Paths
    BY <1>1, <1>2, <1>3, <1>4 DEF CallOK
  <2> QED BY <2>2, <2>3, <2>4 DEF CallOK
<1>6. HeardFile(v)'
  BY <1>1, <1>2, <1>3, <1>4 DEF HeardFile
<1>7. ASSUME NEW i \in Jobs, VisitOf(i) = v PROVE FileOK(i)'
  <2>1. job'[i] = job[i] /\ FileOK(i) /\ visit[v].parallel
    BY <1>1, <1>2, <1>7 DEF CallOK
  <2>2. job[i].pc \in {"idle", "done"}
    <3>1. i = Child(v, Position(i))
      BY <1>7, JobName
    <3> QED BY <1>1, <1>7, <2>1, <3>1 DEF FileOK, JobsOf
  <2>3. Accounted(i)' <=> Accounted(i)
    BY <2>1 DEF Accounted, InSubs, Subs
  <2> QED BY <1>3, <1>4, <1>7, <2>1, <2>2, <2>3 DEF FileOK
<1> QED BY <1>1, <1>4, <1>5, <1>6, <1>7, CallsKeep

-----------------------------------------------------------------------------
(* The invariant of files and calls.                                         *)

\* Nothing has begun but the first call.
LEMMA LocalInit == ASSUME VisitInit PROVE LocalInv
<1> DEFINE first == [Idle EXCEPT !.pc = "find", !.path = options.root]
<1>1. /\ options \in Options /\ options.root \in Paths /\ cwd \in Dirs
  BY VisitAssumption DEF VisitInit
<1>2. << >> \in Seq(Files) /\ Len(<< >>) = 0 /\ 0 <= MaxFiles
  BY EmptySeq, VisitAssumption
<1>3. Idle \in VisitType
  BY <1>2, VisitAssumption DEF Idle, VisitType, Results
<1>4. first \in VisitType
  <2>1. first = [pc |-> "find", path |-> options.root, base |-> Start, parallel |-> FALSE, files |-> << >>,
                 next |-> 1, errors |-> 0, matches |-> 0, noMatch |-> TRUE, result |-> "none"]
    BY FirstRecord
  <2> HIDE DEF first
  <2> QED BY <1>1, <2>1, FreshCall, VisitAssumption
<1>5. Waiting \in JobType
  BY VisitAssumption DEF Waiting, JobType
<1>6. \A j \in Jobs : job[j] = Waiting
  BY DEF VisitInit
<1>7. \A v \in Visits : visit[v] = IF v = << >> THEN first ELSE Idle
  BY DEF VisitInit
<1>8. ASSUME NEW v \in Visits
      PROVE /\ visit[v].pc = (IF v = << >> THEN "find" ELSE "idle")
            /\ (v = << >> => visit[v].path \in Paths)
            /\ visit[v].next = 1 /\ visit[v].errors = 0 /\ visit[v].matches = 0 /\ visit[v].noMatch
            /\ ~visit[v].parallel /\ visit[v].result = "none" /\ visit[v].files = << >>
  <2>1. CASE v = << >>
    BY <1>1, <1>7, <2>1 DEF Idle
  <2>2. CASE v # << >>
    BY <1>7, <2>2 DEF Idle
  <2> QED BY <2>1, <2>2
<1>9. ASSUME NEW j \in Jobs
      PROVE /\ job[j].pc = "idle" /\ job[j].dir = Nowhere /\ job[j].read = Nowhere /\ job[j].at = Nowhere
            /\ job[j].sub = 1 /\ job[j].noMatchSub /\ job[j].outcome = "none" /\ ~job[j].failed
  BY <1>6 DEF Waiting
<1>10. VisitTypeOK
  <2>1. \A v \in Visits : visit[v] \in VisitType
    BY <1>3, <1>4, <1>7
  <2>2. visit \in [Visits -> VisitType]
    BY <2>1 DEF VisitInit
  <2>3. job \in [Jobs -> JobType]
    BY <1>5 DEF VisitInit
  <2> QED BY <1>1, <1>2, <1>8, <2>2, <2>3 DEF VisitTypeOK
<1>11. ASSUME NEW j \in Jobs PROVE JobOK(j) /\ HeardSub(j) /\ FileOK(j)
  <2>1. ~Accounted(j)
    BY <1>9 DEF Accounted
  <2>2. VisitOf(j) \in Visits /\ Position(j) \in Nat \ {0} /\ ~(Position(j) < 1)
    BY JobName, VisitAssumption
  <2>3. JobOK(j)
    BY <1>9 DEF JobOK, RanConverge
  <2>4. HeardSub(j)
    BY <1>9 DEF HeardSub
  <2>5. FileOK(j)
    <3>1. Position(j) \notin DOMAIN visit[VisitOf(j)].files \/ ~visit[VisitOf(j)].parallel
      BY <1>8, <2>2
    <3> QED BY <1>8, <1>9, <2>1, <2>2, <3>1 DEF FileOK
  <2> QED BY <2>3, <2>4, <2>5
<1>12. ASSUME NEW j \in Jobs, NEW k \in Pos PROVE NestedOK(j, k)
  <2>1. Child(j, k) \in Visits => visit[Child(j, k)].pc = "idle"
    BY <1>8, NestedName
  <2>2. ~(k < 1)
    BY DEF Pos
  <2> QED BY <1>9, <2>1, <2>2 DEF NestedOK
<1>13. ASSUME NEW v \in Visits PROVE CallOK(v) /\ HeardFile(v)
  BY <1>8 DEF CallOK, HeardFile
<1> QED BY <1>10, <1>11, <1>12, <1>13 DEF LocalInv

\* Every step of a call keeps the invariant.
LEMMA CallKeeps == ASSUME LocalInv, NEW v \in Visits, VisitStep(v) PROVE Calls(v) /\ LocalInv'
BY FindKeeps, FindAgainKeeps, NextFileKeeps, FileDoneKeeps, WalkDoneKeeps, AllReturnedKeeps DEF VisitStep

\* Every step of a file keeps the invariant; all but the call of a nested
\* helmfile leave the calls where they are.
LEMMA FileKeeps ==
  ASSUME LocalInv, NEW j \in Jobs, JobStep(j)
  PROVE  LocalInv' /\ (CallNested(j) \/ Moves(j))
<1>1. CASE LoadFails(j) \/ NestedFails(j) \/ TemplatesFail(j)
  BY <1>1, FailsKeep
<1>2. CASE ExecuteTemplates(j) \/ ChdirBack(j)
  BY <1>2, PassesKeep
<1>3. CASE CallNested(j)
  BY <1>3, CallNestedKeeps
<1>4. CASE \E processed \in BOOLEAN : Converge(j, processed)
  BY <1>4, ConvergeKeeps
<1>5. CASE Resolve(j) \/ Chdir(j) \/ ChdirFails(j) \/ Load(j) \/ UndefinedEnv(j)
  BY <1>5, ResolveKeeps, ChdirKeeps, ChdirFailsKeeps, LoadKeeps, UndefinedEnvKeeps
<1>6. CASE NestedReturns(j) \/ NestedDone(j) \/ ConvergeFails(j)
  BY <1>6, NestedReturnsKeeps, NestedDoneKeeps, ConvergeFailsKeeps
<1> QED BY <1>1, <1>2, <1>3, <1>4, <1>5, <1>6 DEF JobStep

\* A step that changes nothing.
LEMMA LocalStutter == ASSUME LocalInv, UNCHANGED visitVars PROVE LocalInv'
<1>1. VisitTypeOK'
  BY DEF LocalInv, VisitTypeOK, visitVars
<1>2. \A j \in Jobs : JobOK(j)' /\ HeardSub(j)' /\ FileOK(j)'
  BY DEF LocalInv, visitVars, JobOK, HeardSub, FileOK, Subs, RanConverge, Accounted, InSubs
<1>3. \A j \in Jobs : \A k \in Pos : NestedOK(j, k)'
  BY DEF LocalInv, visitVars, NestedOK, Subs, InSubs, RanConverge
<1>4. \A v \in Visits : CallOK(v)' /\ HeardFile(v)'
  BY DEF LocalInv, visitVars, CallOK, HeardFile
<1> QED BY <1>1, <1>2, <1>3, <1>4 DEF LocalInv

\* Every step keeps the invariant.
LEMMA LocalNext == ASSUME LocalInv, [VisitNext]_visitVars PROVE LocalInv'
BY CallKeeps, FileKeeps, LocalStutter DEF VisitNext, Finished

\* In every reachable state calls and files are of their types, and each agrees
\* with the calls and files next to it in the tree.
THEOREM VisitInvariant == VisitSpec => []LocalInv
<1>1. VisitInit => LocalInv
  BY LocalInit
<1>2. LocalInv /\ [VisitNext]_visitVars => LocalInv'
  BY LocalNext
<1> QED BY <1>1, <1>2, PTL DEF VisitSpec

\* Calls and files are of their types.
THEOREM VisitTypes == VisitSpec => []VisitTypeOK
<1>1. LocalInv => VisitTypeOK
  BY DEF LocalInv
<1> QED BY <1>1, VisitInvariant, PTL

\* The releases of a file are converged after those of every helmfile nested in
\* it, and before any of them when the walk is in reverse.
THEOREM NestedInOrder == VisitSpec => []NestedFirst
<1>1. ASSUME LocalInv PROVE NestedFirst
  <2> SUFFICES ASSUME NEW j \in Jobs, job[j].read # Nowhere, NEW i \in DOMAIN Subs(j)
               PROVE  LET v == Child(j, i) IN
                      IF options.reverse THEN v \in Visits /\ visit[v].pc # "idle" => RanConverge(j)
                      ELSE RanConverge(j) => v \in Visits /\ visit[v].pc = "done" /\ visit[v].result # "error"
    BY DEF NestedFirst
  <2>1. job[j] \in JobType /\ JobOK(j)
    BY <1>1 DEF LocalInv, VisitTypeOK
  <2>2. Subs(j) \in Seq(Paths)
    BY <2>1, VisitAssumption DEF Subs, JobType
  <2>3. DOMAIN Subs(j) = 1..Len(Subs(j)) /\ Len(Subs(j)) \in Nat
    BY <2>2, LenProperties
  <2>4. i \in Pos
    BY <2>3 DEF Pos
  <2>5. NestedOK(j, i)
    BY <1>1, <2>4 DEF LocalInv
  <2>6. CASE options.reverse
    BY <2>5, <2>6 DEF NestedOK
  <2>7. CASE ~options.reverse
    <3>1. SUFFICES ASSUME RanConverge(j) PROVE i < job[j].sub
      BY <2>5, <2>7 DEF NestedOK
    <3>2. job[j].sub \notin DOMAIN Subs(j) /\ job[j].sub \in Nat \ {0}
      BY <2>1, <2>7, <3>1 DEF JobOK, JobType
    <3> QED BY <2>3, <3>2
  <2> QED BY <2>6, <2>7
<1> QED BY <1>1, VisitInvariant, PTL

-----------------------------------------------------------------------------
(* What a step does to the tree.                                             *)

\* Calls are no files, and the state of an item is that of its record.
LEMMA ItemState ==
  /\ \A v \in Visits : v \in Item /\ v \notin Jobs
  /\ \A j \in Jobs : j \in Item /\ j \notin Visits
  /\ \A v \in Visits :
       /\ Active(v) <=> visit[v].pc \notin {"idle", "done"}
       /\ Active(v)' <=> visit'[v].pc \notin {"idle", "done"}
       /\ Started(v) <=> visit[v].pc # "idle"
       /\ Started(v)' <=> visit'[v].pc # "idle"
       /\ Trouble(v) <=> visit[v].result = "error"
       /\ Trouble(v)' <=> visit'[v].result = "error"
  /\ \A j \in Jobs :
       /\ Active(j) <=> job[j].pc \notin {"idle", "done"}
       /\ Active(j)' <=> job'[j].pc \notin {"idle", "done"}
       /\ Started(j) <=> job[j].pc # "idle"
       /\ Started(j)' <=> job'[j].pc # "idle"
       /\ Trouble(j) <=> job[j].failed
       /\ Trouble(j)' <=> job'[j].failed
<1>1. \A v \in Visits : v \notin Jobs
  BY ItemName
<1> QED BY <1>1 DEF Item, Active, Started, Trouble

\* What begins is a child of what runs; what ends has no child that runs, and
\* the trouble of its children; and one thing at a time.
TreeStep ==
  /\ \A x \in Item : Active(x)' /\ ~Active(x) =>
       \E y \in Item : \E k \in Pos : x = Child(y, k) /\ Active(y) /\ Active(y)'
  /\ \A y \in Item : Active(y) /\ ~Active(y)' =>
       \A k \in Pos : Child(y, k) \in Item =>
         ~Active(Child(y, k)) /\ (Trouble(Child(y, k)) => Trouble(y)')
  /\ \A x \in Item : Trouble(x)' /\ ~Trouble(x) =>
       Active(x) /\ \A y \in Item : y # x /\ Active(y) => Active(y)'
  /\ \A x \in Item :
       (Trouble(x) => Trouble(x)') /\ (Started(x) => Started(x)') /\ (Started(x)' => Started(x) \/ Active(x)')
  /\ \A v \in Visits :
       /\ visit[v].result # "none" => visit'[v].result = visit[v].result
       /\ Parallel(v) => Parallel(v)'
       /\ Parallel(v)' => Parallel(v) \/ Active(v)
  /\ \A v, w \in Visits : visit'[v].result # visit[v].result /\ visit'[w].result # visit[w].result => v = w
  /\ \A j \in Jobs :
       /\ job[j].outcome = "processed" => job'[j].outcome = "processed"
       /\ job'[j].outcome = "processed" => job[j].outcome = "processed" \/ Active(j)

\* A file that moves on stays started, and stays failed.
LEMMA KeepsOn ==
  ASSUME LocalInv, NEW j \in Jobs, JobStep(j), ~CallNested(j)
  PROVE  /\ job[j].pc \notin {"idle", "done"} /\ job'[j].pc # "idle"
         /\ job[j].failed => job'[j].failed
<1>1. job \in [Jobs -> JobType] /\ job[j] \in JobType
  BY DEF LocalInv, VisitTypeOK
<1>2. CASE Resolve(j)
  BY <1>1, <1>2 DEF Resolve, Step, JobType
<1>3. CASE Chdir(j)
  BY <1>1, <1>3 DEF Chdir, Goto, Step, JobType
<1>4. CASE ChdirFails(j)
  BY <1>1, <1>4 DEF ChdirFails, Step, JobType
<1>5. CASE Load(j)
  BY <1>1, <1>5 DEF Load, Step, JobType
<1>6. CASE LoadFails(j)
  BY <1>1, <1>6 DEF LoadFails, Fail, EndOf, Step, JobType
<1>7. CASE UndefinedEnv(j)
  BY <1>1, <1>7 DEF UndefinedEnv, EndOf, Step, JobType
<1>8. CASE NestedReturns(j)
  BY <1>1, <1>8 DEF NestedReturns, AtNested, InSubs, Step, JobType
<1>9. CASE NestedFails(j)
  BY <1>1, <1>9 DEF NestedFails, AtNested, InSubs, Fail, EndOf, Step, JobType
<1>10. CASE NestedDone(j)
  BY <1>1, <1>10 DEF NestedDone, InSubs, Goto, EndOf, Step, JobType
<1>11. CASE ExecuteTemplates(j)
  BY <1>1, <1>11 DEF ExecuteTemplates, Goto, Step, JobType
<1>12. CASE TemplatesFail(j)
  BY <1>1, <1>12 DEF TemplatesFail, Fail, EndOf, Step, JobType
<1>13. CASE ConvergeFails(j)
  <2>1. CASE Goroutine(j)
    <3>1. /\ job[j].pc = "converge"
          /\ job'[j] = [[Converged(j) EXCEPT !.outcome = "failed"] EXCEPT !.pc = "done", !.failed = TRUE]
      BY <1>1, <1>13, <2>1 DEF ConvergeFails, Fail, EndOf, Step
    <3>2. [Converged(j) EXCEPT !.outcome = "failed"] = [job[j] EXCEPT !.at = Base(j), !.outcome = "failed"]
      BY DEF Converged
    <3>3. job'[j].pc = "done" /\ job'[j].failed
      BY <1>1, <3>1, <3>2 DEF JobType
    <3> QED BY <3>1, <3>3
  <2>2. CASE ~Goroutine(j)
    <3>1. /\ job[j].pc = "converge" /\ After(j) \in {"after", "back"}
          /\ job'[j] = [Converged(j) EXCEPT !.pc = After(j), !.outcome = "failed", !.failed = TRUE]
      BY <1>1, <1>13, <2>2 DEF ConvergeFails, After, EndOf, Step
    <3> QED BY <1>1, <3>1 DEF Converged, JobType
  <2> QED BY <2>1, <2>2
<1>14. CASE ChdirBack(j)
  BY <1>1, <1>14 DEF ChdirBack, Goto, Step, JobType
<1>15. CASE \E processed \in BOOLEAN : Converge(j, processed)
  BY <1>1, <1>15 DEF Converge, Converged, After, EndOf, Step, JobType
<1> QED BY <1>2, <1>3, <1>4, <1>5, <1>6, <1>7, <1>8, <1>9, <1>10, <1>11, <1>12, <1>13, <1>14, <1>15 DEF JobStep

\* A step of a file.
LEMMA MovesStep ==
  ASSUME LocalInv, LocalInv', NEW j \in Jobs, Moves(j), job[j].pc \notin {"idle", "done"},
         job'[j].pc # "idle", job[j].failed => job'[j].failed
  PROVE  TreeStep
<1>1. ASSUME NEW v \in Visits
      PROVE visit'[v].pc = visit[v].pc /\ visit'[v].result = visit[v].result /\ visit'[v].parallel = visit[v].parallel
  BY DEF Moves, SameCall
<1>2. \A i \in Jobs : i # j => job'[i] = job[i]
  BY DEF Moves
<1>3. \A x \in Item : x # j => (Active(x)' <=> Active(x)) /\ (Trouble(x)' <=> Trouble(x)) /\ (Started(x)' <=> Started(x))
  BY <1>1, <1>2, ItemState DEF Item
<1>4. j \in Item /\ Active(j) /\ (Trouble(j) => Trouble(j)') /\ Started(j)'
  BY ItemState
<1>5. ASSUME ~Active(j)', NEW k \in Pos, Child(j, k) \in Item
      PROVE  ~Active(Child(j, k)) /\ (Trouble(Child(j, k)) => Trouble(j)')
  <2> DEFINE w == Child(j, k)
  <2>1. w \in Visits
    BY <1>4, <1>5, ChildKind
  <2>2. NestedOK(j, k)' /\ CallOK(w)' /\ job'[j] \in JobType /\ job'[j].pc = "done"
    BY <1>5, <2>1, ItemState DEF LocalInv, VisitTypeOK
  <2>3. k < job'[j].sub \/ k = job'[j].sub \/ k > job'[j].sub
    BY <2>2 DEF JobType, Pos
  <2>4. ~InSubs(j)'
    BY <2>2 DEF InSubs
  <2>5. /\ visit'[w].pc \in {"idle", "done"}
        /\ visit'[w].result = "error" => job'[j].failed
    BY <2>1, <2>2, <2>3, <2>4 DEF NestedOK, CallOK
  <2> QED BY <1>1, <2>1, <2>5, ItemState
<1>6. \A i \in Jobs : (job[i].outcome = "processed" => job'[i].outcome = "processed")
                      /\ (job'[i].outcome = "processed" => job[i].outcome = "processed" \/ Active(i))
  BY <1>2, <1>4 DEF Moves
<1>7. \A y \in Item : Active(y)' => Active(y)
  BY <1>3, <1>4
<1>8. \A y \in Item : Active(y) /\ ~Active(y)' => y = j
  BY <1>3
<1>9. \A x \in Item : Trouble(x)' /\ ~Trouble(x) => x = j
  BY <1>3
<1>10. \A x \in Item : (Trouble(x) => Trouble(x)') /\ (Started(x) => Started(x)') /\ (Started(x)' => Started(x) \/ Active(x)')
  <2>1. Started(j)
    BY ItemState
  <2> QED BY <1>3, <1>4, <2>1
<1>11. \A x \in Item : Trouble(x)' /\ ~Trouble(x) => Active(x) /\ \A y \in Item : y # x /\ Active(y) => Active(y)'
  BY <1>4, <1>8, <1>9
<1>12. \A y \in Item : Active(y) /\ ~Active(y)' =>
         \A k \in Pos : Child(y, k) \in Item => ~Active(Child(y, k)) /\ (Trouble(Child(y, k)) => Trouble(y)')
  BY <1>5, <1>8
<1> QED BY <1>1, <1>6, <1>7, <1>10, <1>11, <1>12 DEF TreeStep, Parallel

\* The step that calls a nested helmfile.
LEMMA CallNestedStep == ASSUME LocalInv, LocalInv', NEW j \in Jobs, CallNested(j) PROVE TreeStep
<1> DEFINE e == [Idle EXCEPT !.pc = "find", !.path = Subs(j)[job[j].sub], !.base = job[j].dir]
<1>1. PICK w \in Visits : w = Nested(j)
  BY DEF CallNested, AtNested
<1>2. job[j].pc \in {"subs", "after"} /\ visit[w].pc = "idle" /\ job' = job /\ Set(w, e)
  BY <1>1 DEF CallNested, AtNested, InSubs
<1>3. PICK k \in Pos : w = Child(j, k)
  BY <1>1 DEF Nested, LocalInv, VisitTypeOK, JobType, Pos
<1>4. visit'[w] = e /\ \A u \in Visits : u # w => visit'[u] = visit[u]
  BY <1>2 DEF Set, LocalInv, VisitTypeOK
<1>5. visit'[w].pc = "find" /\ visit'[w].result = "none" /\ ~visit'[w].parallel
  <2>1. e = [pc |-> "find", path |-> Subs(j)[job[j].sub], base |-> job[j].dir, parallel |-> FALSE,
             files |-> << >>, next |-> 1, errors |-> 0, matches |-> 0, noMatch |-> TRUE, result |-> "none"]
    BY FreshRecord
  <2> HIDE DEF e
  <2>2. e.pc = "find" /\ e.result = "none" /\ ~e.parallel
    BY <2>1
  <2> QED BY <1>4, <2>2
<1> HIDE DEF e
<1>6. visit[w].result = "none" /\ ~visit[w].parallel
  BY <1>2 DEF LocalInv, CallOK
<1>7. /\ Active(j) /\ Active(j)' /\ j \in Item
      /\ w \in Item /\ Active(w)' /\ ~Active(w) /\ ~Trouble(w) /\ ~Trouble(w)' /\ ~Started(w)
  BY <1>2, <1>5, <1>6, ItemState
<1>8. ASSUME NEW x \in Item, x # w
      PROVE (Active(x)' <=> Active(x)) /\ (Trouble(x)' <=> Trouble(x)) /\ (Started(x)' <=> Started(x))
  <2>1. CASE x \in Visits
    <3>1. visit'[x] = visit[x]
      BY <1>4, <1>8, <2>1
    <3> QED BY <2>1, <3>1, ItemState
  <2>2. CASE x \in Jobs
    BY <1>2, <2>2, ItemState
  <2> QED BY <2>1, <2>2 DEF Item
<1>9. \A v \in Visits : visit'[v].result = visit[v].result /\ (visit'[v].parallel <=> visit[v].parallel)
  BY <1>4, <1>5, <1>6
<1>10. \A x \in Item : Active(x)' /\ ~Active(x) =>
         \E y \in Item : \E l \in Pos : x = Child(y, l) /\ Active(y) /\ Active(y)'
  BY <1>3, <1>7, <1>8
<1>11. /\ \A y \in Item : Active(y) => Active(y)'
       /\ \A x \in Item : Trouble(x)' <=> Trouble(x)
       /\ \A x \in Item : (Started(x) => Started(x)') /\ (Started(x)' => Started(x) \/ Active(x)')
  BY <1>7, <1>8
<1> QED BY <1>2, <1>9, <1>10, <1>11 DEF TreeStep, Parallel

\* A step of a call.
LEMMA CallStep == ASSUME LocalInv, LocalInv', NEW v \in Visits, VisitStep(v), Calls(v) PROVE TreeStep
<1>1. visit[v].pc \notin {"idle", "done"} /\ visit'[v].pc # "idle" /\ visit[v].result = "none"
  <2>1. visit[v].pc \notin {"idle", "done"}
    BY DEF VisitStep, Find, FindAgain, NextFile, FileDone, WalkDone, AllReturned
  <2> QED BY <2>1, AtCall DEF Calls
<1>2. Parallel(v) => Parallel(v)'
  <2>1. SUFFICES ASSUME visit[v].parallel PROVE visit'[v].parallel
    BY DEF Parallel
  <2>2. visit[v].pc = "wait" /\ visit[v] \in VisitType
    BY <1>1, <2>1 DEF LocalInv, CallOK, VisitTypeOK, VisitType
  <2>3. AllReturned(v)
    BY <2>2 DEF VisitStep, Find, FindAgain, NextFile, FileDone, WalkDone
  <2> QED BY <2>1, <2>2, <2>3 DEF AllReturned, Set, LocalInv, VisitTypeOK, VisitType
<1>3. \A u \in Visits : u # v => visit'[u] = visit[u]
  BY DEF Calls
<1>4. ASSUME NEW i \in Jobs
      PROVE /\ job'[i].failed = job[i].failed /\ job'[i].outcome = job[i].outcome
            /\ job'[i] = job[i] \/ (job[i].pc = "idle" /\ job'[i].pc = "resolve" /\ VisitOf(i) = v)
  <2>1. job[i] \in JobType
    BY DEF LocalInv, VisitTypeOK
  <2> QED BY <2>1 DEF Calls, JobType
<1>5. v \in Item /\ Active(v) /\ ~Trouble(v) /\ Started(v) /\ Started(v)'
  BY <1>1, ItemState
<1>6. ASSUME NEW x \in Item, x # v
      PROVE /\ (Trouble(x)' <=> Trouble(x)) /\ (Active(x) => Active(x)') /\ (Started(x) => Started(x)')
            /\ (Started(x)' => Started(x) \/ Active(x)')
            /\ Active(x)' /\ ~Active(x) => x \in Jobs /\ VisitOf(x) = v
  <2>1. CASE x \in Visits
    <3>1. visit'[x] = visit[x]
      BY <1>3, <1>6, <2>1
    <3> QED BY <2>1, <3>1, ItemState
  <2>2. CASE x \in Jobs
    BY <1>4, <2>2, ItemState
  <2> QED BY <2>1, <2>2 DEF Item
<1>7. ASSUME NEW x \in Item, Active(x)', ~Active(x)
      PROVE  \E y \in Item : \E k \in Pos : x = Child(y, k) /\ Active(y) /\ Active(y)'
  <2>1. x \in Jobs /\ VisitOf(x) = v
    BY <1>5, <1>6, <1>7
  <2>2. x = Child(v, Position(x)) /\ Position(x) \in Pos
    BY <2>1, JobName, VisitAssumption DEF Pos
  <2>3. FileOK(x)' /\ job'[x].pc \notin {"idle", "done"}
    BY <1>7, <2>1, ItemState DEF LocalInv
  <2>4. visit'[v].pc # "done"
    BY <2>1, <2>3 DEF FileOK
  <2>5. Active(v)'
    BY <1>1, <2>4, ItemState
  <2> QED BY <1>5, <2>2, <2>5
<1>8. ASSUME ~Active(v)', NEW k \in Pos, Child(v, k) \in Item
      PROVE  ~Active(Child(v, k)) /\ (Trouble(Child(v, k)) => Trouble(v)')
  <2> DEFINE i == Child(v, k)
  <2>1. i \in Jobs /\ k \in 1..MaxFiles
    BY <1>5, <1>8, ChildKind
  <2>2. VisitOf(i) = v
    BY <2>1, JobName
  <2>3. FileOK(i)' /\ CallOK(v)' /\ visit'[v] \in VisitType /\ visit'[v].pc = "done"
    BY <1>1, <1>8, <2>1, ItemState DEF LocalInv, VisitTypeOK
  <2> HIDE DEF i
  <2>4. job'[i].pc \in {"idle", "done"}
    BY <2>2, <2>3 DEF FileOK
  <2>5. job[i].pc \in {"idle", "done"}
    BY <1>4, <2>1, <2>4
  <2>6. ASSUME job[i].failed PROVE visit'[v].result = "error"
    <3>1. job'[i].failed
      BY <1>4, <2>1, <2>6
    <3>2. CASE visit'[v].parallel
      <4>1. visit'[v].errors > 0 /\ visit'[v].errors \in Nat
        BY <2>2, <2>3, <3>1, <3>2 DEF FileOK, VisitType
      <4>2. visit'[v].errors # 0
        BY <4>1
      <4> QED BY <2>3, <3>2, <4>2 DEF CallOK, VisitType, Results
    <3>3. CASE ~visit'[v].parallel
      BY <2>2, <2>3, <3>1, <3>3 DEF FileOK
    <3> QED BY <3>2, <3>3
  <2> QED BY <2>1, <2>5, <2>6, ItemState DEF i
<1>9. \A x \in Item : (Trouble(x) => Trouble(x)') /\ (Started(x) => Started(x)') /\ (Started(x)' => Started(x) \/ Active(x)')
  BY <1>5, <1>6
<1>10. \A x \in Item : Trouble(x)' /\ ~Trouble(x) => Active(x) /\ \A y \in Item : y # x /\ Active(y) => Active(y)'
  BY <1>5, <1>6
<1>11. \A y \in Item : Active(y) /\ ~Active(y)' => y = v
  BY <1>6
<1>12. \A u \in Visits : /\ visit[u].result # "none" => visit'[u].result = visit[u].result
                         /\ Parallel(u) => Parallel(u)'
                         /\ Parallel(u)' => Parallel(u) \/ Active(u)
  BY <1>1, <1>2, <1>3, <1>5 DEF Parallel
<1>13. \A u, w \in Visits : visit'[u].result # visit[u].result /\ visit'[w].result # visit[w].result => u = w
  BY <1>3
<1> QED BY <1>4, <1>7, <1>8, <1>9, <1>10, <1>11, <1>12, <1>13 DEF TreeStep

\* Every step does so.
LEMMA StepGrows == ASSUME LocalInv, VisitNext PROVE TreeStep \/ UNCHANGED visitVars
<1>1. LocalInv'
  BY LocalNext
<1>2. ASSUME NEW v \in Visits, VisitStep(v) PROVE TreeStep
  BY <1>1, <1>2, CallKeeps, CallStep
<1>3. ASSUME NEW j \in Jobs, JobStep(j) PROVE TreeStep
  <2>1. CASE CallNested(j)
    BY <1>1, <2>1, CallNestedStep
  <2>2. CASE ~CallNested(j)
    BY <1>1, <1>3, <2>2, FileKeeps, KeepsOn, MovesStep
  <2> QED BY <2>1, <2>2
<1> QED BY <1>2, <1>3 DEF VisitNext, Finished

-----------------------------------------------------------------------------
(* The invariant of the tree.                                                *)

\* What runs above what runs.
LEMMA ActiveStep == ASSUME ActiveUp, TreeStep PROVE ActiveUp'
<1> SUFFICES ASSUME NEW x \in Item, NEW y \in Item, Below(x, y), Active(x)', x # y PROVE Active(y)'
  BY DEF ActiveUp, Below
<1>1. ASSUME NEW z \in Item, Active(z), Below(z, y), z # y PROVE Active(y)'
  <2>1. Active(y)
    BY <1>1 DEF ActiveUp
  <2>2. PICK k \in Pos : Child(y, k) \in Item /\ Below(z, Child(y, k))
    BY <1>1, PathDown
  <2>3. Active(Child(y, k))
    BY <1>1, <2>2 DEF ActiveUp
  <2> QED BY <2>1, <2>2, <2>3 DEF TreeStep
<1>2. CASE Active(x)
  BY <1>1, <1>2
<1>3. CASE ~Active(x)
  <2>1. PICK z \in Item, k \in Pos : x = Child(z, k) /\ Active(z) /\ Active(z)'
    BY <1>3 DEF TreeStep
  <2>2. Below(z, y)
    BY <2>1, BelowChild, ItemName DEF Item
  <2> QED BY <1>1, <2>1, <2>2
<1> QED BY <1>2, <1>3

\* What started is below what started.
LEMMA StartedStep == ASSUME StartedUp, ActiveUp', TreeStep PROVE StartedUp'
<1>1. \A x \in Item : Active(x)' => Started(x)'
  BY DEF Active, Started
<1> QED BY <1>1 DEF StartedUp, ActiveUp, TreeStep

\* Trouble is told upwards.
LEMMA TroubleStep == ASSUME ActiveUp, TroubleUp, TreeStep PROVE TroubleUp'
<1> SUFFICES ASSUME NEW x \in Item, NEW y \in Item, Below(x, y), Trouble(x)', x # y PROVE Active(y)' \/ Trouble(y)'
  BY DEF TroubleUp
<1>1. CASE ~Trouble(x)
  BY <1>1 DEF TreeStep, ActiveUp
<1>2. CASE Trouble(x) /\ Trouble(y)
  BY <1>2 DEF TreeStep
<1>3. CASE Trouble(x) /\ ~Trouble(y)
  <2>1. Active(y)
    BY <1>3 DEF TroubleUp
  <2>2. PICK k \in Pos : Child(y, k) \in Item /\ Below(x, Child(y, k))
    BY PathDown
  <2>3. Active(Child(y, k)) \/ Trouble(Child(y, k))
    BY <1>3, <2>2 DEF TroubleUp
  <2> QED BY <2>1, <2>2, <2>3 DEF TreeStep
<1> QED BY <1>1, <1>2, <1>3

\* A processed file of a call counts for it if that is a file of the call, or if
\* it counts for a helmfile that a file of its walk nests.
LEMMA CountsUp ==
  ASSUME LocalInv, NEW v \in Visits, NEW c \in Jobs, VisitOf(c) = v
  PROVE  /\ job[c].outcome = "processed" => Counts(c, v)
         /\ \A w \in Visits : \A k \in Pos : \A j \in Jobs :
              w = Child(c, k) /\ Counts(j, w) /\ ~Parallel(v) => Counts(j, v)
<1>1. c = Child(v, Position(c)) /\ Position(c) \in Pos /\ v \in Seq(Pos) /\ c \in Seq(Pos) /\ c \notin Visits
  BY JobName, ItemName, ItemState, VisitAssumption DEF Pos
<1>2. Below(c, v)
  BY <1>1, BelowChild
<1>3. ASSUME NEW u \in Visits, Below(c, u), Below(u, v) PROVE u = v
  <2>1. u \in Seq(Pos) /\ u # c
    BY <1>1, ItemName
  <2>2. Below(v, u)
    BY <1>1, <1>3, <2>1, BelowChild
  <2> QED BY <1>1, <1>3, <2>1, <2>2, BelowOrder
<1>4. ASSUME job[c].outcome = "processed" PROVE Counts(c, v)
  BY <1>2, <1>3, <1>4 DEF Counts
<1>5. ASSUME NEW w \in Visits, NEW k \in Pos, NEW j \in Jobs, w = Child(c, k), Counts(j, w), ~Parallel(v)
      PROVE  Counts(j, v)
  <2>1. w \in Seq(Pos) /\ j \in Seq(Pos) /\ Below(j, w) /\ job[j].outcome = "processed"
    BY <1>5, ItemName DEF Counts
  <2>2. Below(w, c)
    BY <1>1, <1>5, BelowChild
  <2>3. Below(j, v)
    BY <1>1, <1>2, <2>1, <2>2, BelowOrder
  <2>4. ASSUME NEW u \in Visits, Below(j, u), Below(u, v), Parallel(u) PROVE VisitOf(j) = u
    <3>1. u \in Seq(Pos)
      BY ItemName
    <3>2. CASE Below(u, w)
      BY <1>5, <2>4, <3>2 DEF Counts
    <3>3. CASE Below(w, u) /\ u # w
      <4>1. Below(c, u)
        BY <1>1, <1>5, <3>1, <3>3, BelowChild
      <4> QED BY <1>3, <1>5, <2>4, <4>1
    <3> QED BY <2>1, <2>4, <3>1, <3>2, <3>3, BelowOrder
  <2> QED BY <2>1, <2>3, <2>4 DEF Counts
<1> QED BY <1>4, <1>5

\* A call that returned without an error tells of its files and of what they
\* nest, if these tell the truth.
LEMMA ToldHere ==
  LocalInv /\ StartedUp => \A v \in Visits : (\A w \in Visits : w # v => Told(w)) => Told(v)
<1> SUFFICES ASSUME LocalInv, StartedUp, NEW v \in Visits, \A w \in Visits : w # v => Told(w)
             PROVE  Told(v)
  OBVIOUS
<1>1. CallOK(v) /\ HeardFile(v) /\ visit[v] \in VisitType /\ v \in Seq(Pos)
  BY ItemName DEF LocalInv, VisitTypeOK
<1>2. ASSUME NEW c \in Jobs, VisitOf(c) = v, NEW k \in Pos, Child(c, k) \in Visits PROVE Told(Child(c, k))
  <2>1. c = Child(v, Position(c)) /\ Position(c) \in Pos /\ c \in Seq(Pos)
    BY <1>2, JobName, ItemName, VisitAssumption DEF Pos
  <2>2. Len(c) = Len(v) + 1 /\ Len(Child(c, k)) = Len(c) + 1 /\ Len(v) \in Nat
    BY <1>1, <2>1, ChildName, LenProperties
  <2>3. Child(c, k) # v
    BY <2>2
  <2> QED BY <1>2, <2>3
<1>3. ASSUME visit[v].result = "ok" PROVE \E j \in Jobs : Counts(j, v)
  <2>1. CASE visit[v].parallel
    <3>1. PICK c \in Jobs : VisitOf(c) = v /\ job[c].outcome = "processed"
      BY <1>1, <1>3, <2>1 DEF CallOK, HeardFile
    <3> QED BY <3>1, CountsUp
  <2>2. CASE ~visit[v].parallel
    <3>1. PICK c \in Jobs : VisitOf(c) = v /\ (job[c].outcome = "processed" \/ ~job[c].noMatchSub)
      BY <1>1, <1>3, <2>2 DEF CallOK, HeardFile
    <3>2. CASE job[c].outcome = "processed"
      BY <3>1, <3>2, CountsUp
    <3>3. CASE ~job[c].noMatchSub
      <4>1. HeardSub(c) /\ job[c] \in JobType
        BY DEF LocalInv, VisitTypeOK
      <4>2. PICK k \in 1..(job[c].sub - 1) : visit[Child(c, k)].result = "ok"
        BY <3>3, <4>1 DEF HeardSub
      <4>3. k \in Pos /\ k < job[c].sub
        BY <4>1 DEF JobType, Pos
      <4>4. Child(c, k) \in Visits
        BY <4>3 DEF LocalInv, NestedOK
      <4>5. PICK j \in Jobs : Counts(j, Child(c, k))
        BY <1>2, <3>1, <4>2, <4>3, <4>4 DEF Told
      <4> QED BY <2>2, <3>1, <4>3, <4>4, <4>5, CountsUp DEF Parallel
    <3> QED BY <3>1, <3>2, <3>3
  <2> QED BY <2>1, <2>2
<1>4. ASSUME visit[v].result = "noMatch", NEW j \in Jobs, Counts(j, v) PROVE FALSE
  <2>1. /\ j \in Item /\ v \in Item /\ j # v /\ Below(j, v) /\ job[j].outcome = "processed" /\ j \in Seq(Pos)
    BY <1>4, ItemState, ItemName DEF Counts
  <2>2. PICK i \in Pos : Child(v, i) \in Item /\ Below(j, Child(v, i))
    BY <2>1, PathDown
  <2>3. PICK c \in Jobs : c = Child(v, i) /\ VisitOf(c) = v /\ Position(c) = i /\ Below(j, c) /\ c \in Seq(Pos)
    BY <2>1, <2>2, ChildKind, JobName, ItemName
  <2>4. FileOK(c) /\ JobOK(c) /\ job[c] \in JobType /\ visit[v].pc = "done"
    BY <1>1, <1>4 DEF LocalInv, VisitTypeOK, CallOK
  <2>5. c # j
    <3>1. SUFFICES ASSUME c = j PROVE FALSE
      OBVIOUS
    <3>2. CASE visit[v].parallel
      BY <1>1, <1>4, <2>1, <2>3, <2>4, <3>1, <3>2 DEF FileOK, CallOK
    <3>3. CASE ~visit[v].parallel
      BY <1>1, <1>4, <2>1, <2>3, <2>4, <3>1, <3>3 DEF FileOK, CallOK
    <3> QED BY <3>2, <3>3
  <2>6. ~visit[v].parallel
    <3>1. SUFFICES ASSUME Parallel(v) PROVE FALSE
      BY DEF Parallel
    <3>2. Below(v, v)
      BY <1>1, BelowOrder
    <3>3. VisitOf(j) = v
      BY <1>4, <2>1, <3>1, <3>2 DEF Counts
    <3>4. j = Child(v, Position(j)) /\ Position(j) \in Pos
      BY <3>3, JobName, VisitAssumption DEF Pos
    <3>5. Below(v, c)
      BY <1>1, <2>3, <2>5, <3>4, BelowChild
    <3>6. Below(c, v) /\ c # v
      BY <1>1, <2>3, BelowChild
    <3> QED BY <1>1, <2>3, <3>5, <3>6, BelowOrder
  <2>7. PICK k \in Pos : Child(c, k) \in Visits /\ Below(j, Child(c, k))
    <3>1. PICK k \in Pos : Child(c, k) \in Item /\ Below(j, Child(c, k))
      BY <2>1, <2>3, <2>5, PathDown DEF Item
    <3> QED BY <3>1, ChildKind DEF Item
  <2> DEFINE w == Child(c, k)
  <2>8. visit[w].pc # "idle" /\ job[c].pc # "idle"
    <3>1. job[j].pc # "idle"
      BY <2>1 DEF LocalInv, JobOK
    <3>2. Started(j) /\ w \in Item /\ c \in Item
      BY <2>7, <3>1, ItemState
    <3>3. Started(w) /\ Started(c)
      BY <2>1, <2>3, <2>7, <3>2 DEF StartedUp
    <3> QED BY <2>7, <3>3, ItemState
  <2>9. job[c].pc = "done" /\ ~job[c].failed
    <3>1. i \in DOMAIN visit[v].files /\ visit[v].next \notin DOMAIN visit[v].files
      BY <1>1, <1>4, <2>3, <2>4, <2>6, <2>8 DEF FileOK, CallOK
    <3>2. visit[v].files \in Seq(Files) /\ visit[v].next \in Nat \ {0}
      BY <1>1 DEF VisitType
    <3>3. DOMAIN visit[v].files = 1..Len(visit[v].files) /\ Len(visit[v].files) \in Nat
      BY <3>2, LenProperties
    <3>4. i < visit[v].next
      BY <3>1, <3>2, <3>3
    <3> QED BY <2>3, <2>4, <2>6, <3>4 DEF FileOK
  <2>10. NestedOK(c, k) /\ job[c].read # Nowhere /\ ~InSubs(c)
    <3>1. NestedOK(c, k)
      BY DEF LocalInv
    <3> QED BY <2>7, <2>8, <2>9, <3>1 DEF NestedOK, InSubs
  <2>11. k < job[c].sub
    <3>1. k < job[c].sub \/ k = job[c].sub \/ k > job[c].sub
      BY <2>4 DEF JobType, Pos
    <3> QED BY <2>7, <2>8, <2>9, <2>10, <3>1 DEF NestedOK
  <2>12. job[c].sub \notin DOMAIN Subs(c)
    <3>1. job[c].sub # 1
      BY <2>11 DEF Pos
    <3> QED BY <2>4, <2>9, <3>1 DEF JobOK
  <2>13. visit[w].result \in {"ok", "noMatch"}
    <3>1. visit[w].pc = "done" /\ visit[w].result # "error" /\ CallOK(w) /\ visit[w] \in VisitType
      BY <2>7, <2>10, <2>11 DEF NestedOK, LocalInv, VisitTypeOK
    <3> QED BY <3>1 DEF CallOK, VisitType, Results
  <2>14. visit[w].result # "noMatch"
    <3>1. SUFFICES Counts(j, w)
      BY <1>2, <2>3, <2>7 DEF Told
    <3>2. w \in Seq(Pos) /\ Below(w, v)
      <4>1. w \in Seq(Pos) /\ Below(w, c) /\ Below(c, v)
        BY <1>1, <2>3, <2>7, ItemName, BelowChild
      <4> QED BY <1>1, <2>3, <4>1, BelowOrder
    <3>3. ASSUME NEW u \in Visits, Below(j, u), Below(u, w), Parallel(u) PROVE VisitOf(j) = u
      <4>1. Below(u, v)
        BY <1>1, <3>2, <3>3, ItemName, BelowOrder
      <4> QED BY <1>4, <3>3, <4>1 DEF Counts
    <3> QED BY <2>1, <2>7, <3>3 DEF Counts
  <2>15. ~job[c].noMatchSub
    BY <2>7, <2>10, <2>11, <2>13, <2>14 DEF NestedOK
  <2>16. ~visit[v].noMatch
    BY <2>3, <2>4, <2>6, <2>10, <2>12, <2>15 DEF FileOK, Accounted
  <2> QED BY <1>1, <1>4, <2>6, <2>16 DEF CallOK
<1> QED BY <1>3, <1>4 DEF Told

\* What the calls told stays true, and what the next one tells is.
LEMMA ToldStep ==
  ASSUME LocalInv, ActiveUp, \A v \in Visits : Told(v), TreeStep, LocalInv', StartedUp'
  PROVE  \A v \in Visits : Told(v)'
<1>1. ASSUME NEW v \in Visits, visit'[v].result = visit[v].result PROVE Told(v)'
  <2>1. Told(v) /\ v \in Item
    BY ItemState
  <2>2. visit[v].result \in {"ok", "noMatch"} => ~Active(v)
    <3>1. CallOK(v)
      BY DEF LocalInv
    <3> QED BY <3>1, ItemState DEF CallOK
  <2>3. ASSUME NEW j \in Jobs, ~Active(v) PROVE Counts(j, v)' <=> Counts(j, v)
    <3>1. Below(j, v) => (job'[j].outcome = "processed" <=> job[j].outcome = "processed")
      <4>1. Below(j, v) => ~Active(j)
        BY <2>1, <2>3, ItemState DEF ActiveUp
      <4> QED BY <4>1 DEF TreeStep
    <3>2. ASSUME NEW u \in Visits, Below(u, v) PROVE Parallel(u)' <=> Parallel(u)
      <4>1. ~Active(u)
        BY <2>1, <2>3, <3>2, ItemState DEF ActiveUp
      <4> QED BY <4>1 DEF TreeStep
    <3> QED BY <3>1, <3>2 DEF Counts
  <2> QED BY <1>1, <2>1, <2>2, <2>3 DEF Told
<1>2. (LocalInv /\ StartedUp)' => (\A v \in Visits : (\A w \in Visits : w # v => Told(w)) => Told(v))'
  BY ToldHere, PTL
<1>3. ASSUME NEW v \in Visits, visit'[v].result # visit[v].result PROVE Told(v)'
  <2>1. \A w \in Visits : w # v => visit'[w].result = visit[w].result
    BY <1>3 DEF TreeStep
  <2>2. \A w \in Visits : w # v => Told(w)'
    BY <1>1, <2>1
  <2> QED BY <1>2, <2>2
<1> QED BY <1>1, <1>3

\* Only the first call runs, and it has told nothing.
LEMMA TreeInit == ASSUME VisitInit PROVE TreeInv
<1>1. LocalInv
  BY LocalInit
<1>2. \A v \in Visits : visit[v].pc = (IF v = << >> THEN "find" ELSE "idle")
  BY DEF VisitInit, Idle
<1>3. \A j \in Jobs : job[j].pc = "idle" /\ ~job[j].failed
  BY DEF VisitInit, Waiting
<1>4. \A v \in Visits : visit[v].result = "none"
  BY <1>1, <1>2 DEF LocalInv, CallOK
<1>5. \A x \in Item : ~Trouble(x)
  BY <1>3, <1>4, ItemState DEF Item
<1>6. \A x \in Item : (Active(x) <=> x = << >>) /\ (Started(x) <=> x = << >>)
  <2>1. << >> \in Visits
    BY VisitAssumption
  <2> QED BY <1>2, <1>3, <2>1, ItemState DEF Item
<1>7. \A y \in Item : Below(<< >>, y) => y = << >>
  <2>1. << >> \in Seq(Pos) /\ \A y \in Item : y \in Seq(Pos)
    BY ItemName DEF Item
  <2> QED BY <2>1, BelowOrder
<1>8. ActiveUp /\ StartedUp /\ TroubleUp
  BY <1>5, <1>6, <1>7 DEF ActiveUp, StartedUp, TroubleUp
<1>9. \A v \in Visits : Told(v)
  BY <1>4 DEF Told
<1> QED BY <1>8, <1>9 DEF TreeInv

\* Every step keeps the invariant of the tree.
LEMMA TreeNext == ASSUME LocalInv, TreeInv, [VisitNext]_visitVars PROVE TreeInv'
<1>1. CASE TreeStep
  <2>1. LocalInv'
    BY LocalNext
  <2>2. ActiveUp'
    BY <1>1, ActiveStep DEF TreeInv
  <2>3. StartedUp'
    BY <1>1, <2>2, StartedStep DEF TreeInv
  <2>4. TroubleUp'
    BY <1>1, TroubleStep DEF TreeInv
  <2>5. \A v \in Visits : Told(v)'
    BY <1>1, <2>1, <2>3, ToldStep DEF TreeInv
  <2> QED BY <2>2, <2>3, <2>4, <2>5 DEF TreeInv
<1>2. CASE UNCHANGED visitVars
  <2>1. \A x \in Item : (Active(x)' <=> Active(x)) /\ (Started(x)' <=> Started(x)) /\ (Trouble(x)' <=> Trouble(x))
    BY <1>2 DEF visitVars, Active, Started, Trouble
  <2>2. \A v \in Visits : Told(v)' <=> Told(v)
    BY <1>2 DEF visitVars, Told, Counts, Parallel
  <2> QED BY <2>1, <2>2 DEF TreeInv, ActiveUp, StartedUp, TroubleUp
<1> QED BY <1>1, <1>2, StepGrows

\* In every reachable state what runs, started or failed is below what runs,
\* started or failed too, and the calls that returned tell what happened below.
THEOREM TreeInvariant == VisitSpec => []TreeInv
<1>1. VisitInit => TreeInv
  BY TreeInit
<1>2. LocalInv /\ TreeInv /\ [VisitNext]_visitVars => TreeInv'
  BY TreeNext
<1> QED BY <1>1, <1>2, VisitInvariant, PTL DEF VisitSpec

\* A call that returned has left nothing running below it, and every one of its
\* files has been converged, passed over or has failed, unless it is a walk that
\* an error ended.
THEOREM CallsComplete == VisitSpec => []CallComplete
<1>1. ASSUME LocalInv, TreeInv PROVE CallComplete
  <2> SUFFICES ASSUME NEW v \in Visits, visit[v].pc = "done"
               PROVE  /\ \A j \in Jobs : Below(j, v) => job[j].pc \in {"idle", "done"}
                      /\ \A w \in Visits : Below(w, v) => visit[w].pc \in {"idle", "done"}
                      /\ visit[v].result # "error" \/ Parallel(v) =>
                           \A j \in JobsOf(v) : RanConverge(j) \/ job[j].outcome = "skipped" \/ job[j].failed
    BY DEF CallComplete
  <2>1. v \in Item /\ ~Active(v)
    BY ItemState
  <2>2. \A x \in Item : Below(x, v) => ~Active(x)
    BY <1>1, <2>1 DEF TreeInv, ActiveUp
  <2>3. ASSUME visit[v].result # "error" \/ Parallel(v), NEW j \in JobsOf(v)
        PROVE  RanConverge(j) \/ job[j].outcome = "skipped" \/ job[j].failed
    <3>1. PICK i \in DOMAIN visit[v].files : j = Child(v, i)
      BY DEF JobsOf
    <3>2. /\ visit[v] \in VisitType /\ CallOK(v) /\ Len(visit[v].files) <= MaxFiles
      BY <1>1 DEF LocalInv, VisitTypeOK
    <3>3. visit[v].files \in Seq(Files) /\ visit[v].next \in Nat \ {0}
      BY <3>2 DEF VisitType
    <3>4. DOMAIN visit[v].files = 1..Len(visit[v].files) /\ Len(visit[v].files) \in Nat
      BY <3>3, LenProperties
    <3>5. i \in 1..MaxFiles
      BY <3>2, <3>4, VisitAssumption
    <3>6. j \in Jobs /\ VisitOf(j) = v /\ Position(j) = i
      BY <3>1, <3>5, JobName
    <3>7. FileOK(j) /\ JobOK(j) /\ job[j] \in JobType
      BY <1>1, <3>6 DEF LocalInv, VisitTypeOK
    <3>8. job[j].pc = "done"
      <4>1. CASE visit[v].parallel
        BY <3>1, <3>6, <3>7, <4>1 DEF FileOK
      <4>2. CASE ~visit[v].parallel
        <5>1. visit[v].result \in {"ok", "noMatch"}
          BY <2>3, <3>2, <4>2 DEF Parallel, CallOK, VisitType, Results
        <5>2. visit[v].next \notin DOMAIN visit[v].files
          BY <3>2, <4>2, <5>1 DEF CallOK
        <5>3. i < visit[v].next
          BY <3>3, <3>4, <5>2
        <5> QED BY <3>6, <3>7, <4>2, <5>3 DEF FileOK
      <4> QED BY <4>1, <4>2
    <3>9. job[j].outcome # "none" \/ job[j].failed
      BY <3>7, <3>8 DEF JobOK
    <3> QED BY <3>7, <3>9 DEF JobType, RanConverge
  <2> QED BY <2>2, <2>3, ItemState
<1> QED BY <1>1, VisitInvariant, TreeInvariant, PTL

\* What the first call returns tells of the whole tree: an error if there was
\* one anywhere, and otherwise whether releases were processed.
THEOREM OutcomeIsTold == VisitSpec => []OutcomeTold
<1>1. ASSUME LocalInv, TreeInv PROVE OutcomeTold
  <2> SUFFICES ASSUME Returned
               PROVE  /\ visit[<< >>].result = "error" <=>
                           \/ \E j \in Jobs : job[j].failed
                           \/ \E v \in Visits : visit[v].result = "error"
                      /\ visit[<< >>].result = "ok" <=>
                           /\ visit[<< >>].result # "error"
                           /\ \E j \in Jobs : job[j].outcome = "processed" /\ Heard(j)
    BY DEF OutcomeTold
  <2>1. << >> \in Visits /\ << >> \in Item /\ ~Active(<< >>)
    <3>1. << >> \in Visits
      BY VisitAssumption
    <3> QED BY <3>1, ItemState DEF Returned
  <2>2. \A x \in Item : x \in Seq(Pos) /\ Below(x, << >>)
    <3>1. << >> \in Seq(Pos) /\ \A x \in Item : x \in Seq(Pos)
      BY ItemName DEF Item
    <3> QED BY <3>1, BelowOrder
  <2>3. \A x \in Item : Trouble(x) => Trouble(<< >>)
    BY <1>1, <2>1, <2>2 DEF TreeInv, TroubleUp
  <2>4. visit[<< >>].result = "error" <=>
          (\E j \in Jobs : job[j].failed) \/ (\E v \in Visits : visit[v].result = "error")
    BY <2>1, <2>3, ItemState
  <2>5. visit[<< >>].result \in {"ok", "noMatch", "error"}
    <3>1. visit[<< >>] \in VisitType /\ CallOK(<< >>)
      BY <1>1, <2>1 DEF LocalInv, VisitTypeOK
    <3> QED BY <3>1 DEF VisitType, Results, CallOK, Returned
  <2>6. \A j \in Jobs : Counts(j, << >>) <=> job[j].outcome = "processed" /\ Heard(j)
    BY <2>2, ItemState DEF Counts, Heard
  <2>7. Told(<< >>)
    BY <1>1, <2>1 DEF TreeInv
  <2> QED BY <2>4, <2>5, <2>6, <2>7 DEF Told
<1> QED BY <1>1, VisitInvariant, TreeInvariant, PTL

-----------------------------------------------------------------------------
(* Walks.                                                                    *)

\* Whoever takes a step has nothing running below it.
LEMMA FileIsTop == ASSUME LocalInv, ActiveUp, NEW j \in Jobs, JobStep(j) PROVE Top(j)
<1>1. j \in Item /\ job[j].pc \notin {"idle", "done"} /\ Active(j)
  <2>1. CASE CallNested(j)
    BY <2>1, ItemState DEF CallNested, AtNested, InSubs
  <2>2. CASE ~CallNested(j)
    BY <2>2, KeepsOn, ItemState
  <2> QED BY <2>1, <2>2
<1>2. InSubs(j) => job[j].sub \notin DOMAIN Subs(j) \/ (Nested(j) \in Visits /\ visit[Nested(j)].pc \in {"idle", "done"})
  <2>1. Nested(j) \in Visits /\ visit[Nested(j)].result = "error" => visit[Nested(j)].pc = "done"
    BY DEF LocalInv, CallOK
  <2> QED BY <2>1 DEF JobStep, Resolve, Chdir, ChdirFails, Load, LoadFails, UndefinedEnv, CallNested,
          NestedReturns, NestedFails, NestedDone, ExecuteTemplates, TemplatesFail, Converge, ConvergeFails, ChdirBack,
          InSubs, AtNested
<1>3. ASSUME NEW k \in Pos, Child(j, k) \in Item PROVE ~Active(Child(j, k))
  <2> DEFINE w == Child(j, k)
  <2>1. w \in Visits
    BY <1>1, <1>3, ChildKind
  <2>2. NestedOK(j, k) /\ CallOK(w) /\ job[j] \in JobType
    BY <2>1 DEF LocalInv, VisitTypeOK
  <2>3. k < job[j].sub \/ k = job[j].sub \/ k > job[j].sub
    BY <2>2 DEF JobType, Pos
  <2>4. visit[w].pc \in {"idle", "done"}
    <3>1. CASE k < job[j].sub \/ k > job[j].sub
      BY <2>1, <2>2, <3>1 DEF NestedOK
    <3>2. CASE k = job[j].sub
      <4>1. Nested(j) = w
        BY <3>2 DEF Nested
      <4> QED BY <1>2, <2>1, <2>2, <3>2, <4>1 DEF NestedOK, CallOK
    <3> QED BY <2>3, <3>1, <3>2
  <2> QED BY <2>1, <2>4, ItemState
<1>4. ASSUME NEW y \in Item, Active(y), Below(y, j), y # j PROVE FALSE
  <2>1. PICK k \in Pos : Child(j, k) \in Item /\ Below(y, Child(j, k))
    BY <1>1, <1>4, PathDown
  <2> QED BY <1>3, <1>4, <2>1 DEF ActiveUp
<1> QED BY <1>1, <1>4 DEF Top

\* The same for a call.
LEMMA CallIsTop == ASSUME LocalInv, ActiveUp, NEW v \in Visits, VisitStep(v) PROVE Top(v)
<1>1. v \in Item /\ visit[v].pc \notin {"idle", "done"} /\ Active(v)
  <2>1. visit[v].pc \notin {"idle", "done"}
    BY DEF VisitStep, Find, FindAgain, NextFile, FileDone, WalkDone, AllReturned
  <2> QED BY <2>1, ItemState
<1>2. /\ visit[v] \in VisitType /\ CallOK(v)
      /\ \A i \in Jobs : VisitOf(i) = v => FileOK(i) /\ Position(i) \in Nat \ {0} /\ i = Child(v, Position(i))
  BY <1>1, AtCall, JobName
<1>3. ASSUME NEW i \in Jobs, VisitOf(i) = v PROVE job[i].pc \in {"idle", "done"}
  <2>1. /\ FileOK(i) /\ Position(i) \in Nat \ {0} /\ i = Child(v, Position(i)) /\ visit[v].next \in Nat \ {0}
        /\ (job[i].pc # "idle" => Position(i) \in DOMAIN visit[v].files)
    BY <1>2, <1>3 DEF FileOK, VisitType
  <2>2. CASE visit[v].pc \in {"find", "again"}
    BY <1>3, <2>1, <2>2 DEF FileOK
  <2>3. CASE visit[v].pc = "wait"
    <3>1. AllReturned(v)
      BY <2>3 DEF VisitStep, Find, FindAgain, NextFile, FileDone, WalkDone
    <3> QED BY <2>1, <3>1 DEF AllReturned, JobsOf
  <2>4. CASE visit[v].pc = "walk"
    <3>1. ~visit[v].parallel
      BY <1>2, <2>4 DEF CallOK
    <3>2. visit[v].next \in DOMAIN visit[v].files => job[Child(v, visit[v].next)].pc \in {"idle", "done"}
      BY <2>4 DEF VisitStep, Find, FindAgain, NextFile, FileDone, WalkDone, AllReturned
    <3>3. Position(i) < visit[v].next \/ Position(i) = visit[v].next \/ Position(i) > visit[v].next
      BY <2>1
    <3> QED BY <1>3, <2>1, <3>1, <3>2, <3>3 DEF FileOK
  <2> QED BY <1>1, <1>2, <2>2, <2>3, <2>4 DEF VisitType
<1>4. ASSUME NEW y \in Item, Active(y), Below(y, v), y # v PROVE FALSE
  <2>1. PICK k \in Pos : Child(v, k) \in Item /\ Below(y, Child(v, k))
    BY <1>1, <1>4, PathDown
  <2>2. Child(v, k) \in Jobs /\ k \in 1..MaxFiles
    BY <1>1, <2>1, ChildKind
  <2>3. VisitOf(Child(v, k)) = v
    BY <2>2, JobName
  <2>4. ~Active(Child(v, k))
    BY <1>3, <2>2, <2>3, ItemState
  <2> QED BY <1>4, <2>1, <2>4 DEF ActiveUp
<1> QED BY <1>1, <1>4 DEF Top

\* What runs is a chain, and stays one: if nothing begins or ends, ...
LEMMA ChainSame ==
  ASSUME Chain, NEW x \in Item, Top(x), \A y \in Item : Active(y)' <=> Active(y)
  PROVE  Chain' /\ \A z \in Item : Top(z)' => z = x
<1>1. Chain'
  BY DEF Chain
<1>2. ASSUME NEW z \in Item, Top(z)' PROVE z = x
  <2>1. Active(z) /\ Active(x) /\ Active(x)'
    BY <1>2 DEF Top
  <2> QED BY <1>2, <2>1 DEF Chain, Top
<1> QED BY <1>1, <1>2

\* ... if something begins below the lowest, ...
LEMMA ChainDown ==
  ASSUME Chain, NEW x \in Item, Top(x), NEW k \in Pos, NEW c \in Item, c = Child(x, k),
         \A y \in Item : Active(y)' <=> Active(y) \/ y = c
  PROVE  Chain' /\ \A z \in Item : Top(z)' => z = c
<1>1. \A y \in Item : y \in Seq(Pos)
  BY ItemName DEF Item
<1>2. Below(c, x) /\ Below(c, c)
  BY <1>1, BelowChild, BelowOrder
<1>3. ASSUME NEW z \in Item, Active(z) PROVE Below(c, z)
  <2>1. Below(x, z)
    BY <1>3, <1>1, BelowOrder DEF Chain, Top
  <2> QED BY <1>1, <1>2, <2>1, BelowOrder
<1>4. \A z \in Item : Active(z)' => Below(c, z)
  BY <1>2, <1>3
<1>5. Chain'
  BY <1>2, <1>3, <1>4 DEF Chain
<1> QED BY <1>4, <1>5 DEF Top

\* ... and if the lowest ends.
LEMMA ChainUp ==
  ASSUME Chain, ActiveUp, NEW x \in Item, Top(x), \A y \in Item : Active(y)' <=> Active(y) /\ y # x
  PROVE  Chain' /\ \A z \in Item : Top(z)' => \E k \in Pos : x = Child(z, k)
<1>1. Chain'
  BY DEF Chain
<1>2. ASSUME NEW z \in Item, Top(z)' PROVE \E k \in Pos : x = Child(z, k)
  <2>1. Active(z) /\ Active(x) /\ z # x
    BY <1>2 DEF Top
  <2>2. Below(x, z)
    BY <2>1 DEF Chain, Top
  <2>3. PICK k \in Pos : Child(z, k) \in Item /\ Below(x, Child(z, k))
    BY <2>1, <2>2, PathDown
  <2>4. Active(Child(z, k))
    BY <2>1, <2>3 DEF ActiveUp
  <2>5. Below(Child(z, k), z) /\ Child(z, k) # z
    BY BelowChild, ItemName DEF Item
  <2> QED BY <1>2, <2>3, <2>4, <2>5 DEF Top
<1> QED BY <1>1, <1>2

\* A nested helmfile has a caller, which is at it while it runs.
LEMMA CallerKnown ==
  ASSUME LocalInv, NEW v \in Visits, v # << >>
  PROVE  /\ CallerOf(v) \in Jobs
         /\ visit[v].pc \notin {"idle", "done"} => InSubs(CallerOf(v))
<1>1. v \in Seq(Pos) /\ Len(v) % 2 = 0 /\ Len(v) \in Nat
  BY ItemName, LenProperties
<1>2. Len(v) # 0
  BY <1>1, EmptySeq
<1>3. Len(v) - 1 \in 1..Len(v) /\ (Len(v) - 1) % 2 = 1
  BY <1>1, <1>2
<1>4. CallerOf(v) \in Item
  BY <1>3, VisitAssumption DEF CallerOf, Item
<1>5. Len(CallerOf(v)) = Len(v) - 1
  BY <1>1, <1>3, SubSeqProperties DEF CallerOf
<1>6. CallerOf(v) \in Jobs
  <2>1. Len(CallerOf(v)) % 2 = 1
    BY <1>3, <1>5
  <2> QED BY <1>4, <2>1, ItemName DEF Item
<1>7. PICK k \in Pos : v = Child(CallerOf(v), k)
  <2>1. Below(v, CallerOf(v)) /\ v # CallerOf(v) /\ v \in Item
    <3>1. Len(CallerOf(v)) = Len(v) - 1 /\ SubSeq(v, 1, Len(CallerOf(v))) = CallerOf(v)
      BY <1>5 DEF CallerOf
    <3> QED BY <1>1, <3>1, ItemState DEF Below
  <2>2. PICK k \in Pos : Child(CallerOf(v), k) \in Item /\ Below(v, Child(CallerOf(v), k))
    BY <1>4, <2>1, PathDown
  <2>3. Child(CallerOf(v), k) \in Seq(Pos) /\ Len(Child(CallerOf(v), k)) = Len(v)
    <3>1. CallerOf(v) \in Seq(Pos)
      BY <1>4, ItemName DEF Item
    <3>2. Child(CallerOf(v), k) \in Seq(Pos) /\ Len(Child(CallerOf(v), k)) = Len(CallerOf(v)) + 1
      BY <3>1, ChildName
    <3> QED BY <1>1, <1>5, <3>2
  <2>4. v = Child(CallerOf(v), k)
    BY <1>1, <2>2, <2>3, SubSeqFull DEF Below
  <2> QED BY <2>4
<1>8. ASSUME visit[v].pc \notin {"idle", "done"} PROVE InSubs(CallerOf(v))
  <2> DEFINE i == CallerOf(v)
  <2>1. CallOK(v) /\ visit[v].result = "none" /\ NestedOK(i, k) /\ job[i] \in JobType
    BY <1>6, <1>8 DEF LocalInv, CallOK, VisitTypeOK
  <2>2. ~(k < job[i].sub) /\ ~(k > job[i].sub)
    BY <1>7, <1>8, <2>1 DEF NestedOK
  <2>3. k = job[i].sub
    BY <2>1, <2>2 DEF JobType, Pos
  <2> QED BY <1>7, <1>8, <2>1, <2>3 DEF NestedOK
<1> QED BY <1>6, <1>8

\* The directory a running call has been called in stays.
LEMMA HomeStays ==
  ASSUME LocalInv, NEW v \in Visits, visit[v].pc \notin {"idle", "done"},
         \A i \in Jobs : job[i].pc # "resolve" => job'[i].dir = job[i].dir
  PROVE  Home(v)' = Home(v)
BY CallerKnown DEF Home, InSubs

\* A walk looks for its path in the working directory.
LEMMA WalkLooks ==
  ASSUME LocalInv, \A u \in Visits : ~visit[u].parallel, NEW v \in Visits
  PROVE  Lookup(v) = Join[cwd][visit[v].path]
<1>1. v # << >> => VisitOf(CallerOf(v)) \in Visits
  BY CallerKnown, JobName
<1> QED BY <1>1 DEF Lookup, Absolute, Parallel

\* The files found at a place are in its directory.
LEMMA FoundThere ==
  ASSUME NEW place \in Dirs \cup Files, NEW i \in DOMAIN FilesAt(place)
  PROVE  FilesAt(place)[i] \in Files /\ DirOf[FilesAt(place)[i]] = DirAt(place)
<1>1. CASE place \in Files
  BY <1>1 DEF FilesAt, DirAt
<1>2. CASE place \notin Files
  <2> DEFINE s == FilesIn[place]
  <2>1. s \in Seq(Files) /\ Len(s) \in Nat /\ DOMAIN s = 1..Len(s) /\ \A n \in 1..Len(s) : s[n] \in Files /\ DirOf[s[n]] = place
    <3>1. s \in Seq(Files) /\ \A n \in DOMAIN s : DirOf[s[n]] = place
      BY <1>2, VisitAssumption
    <3>2. Len(s) \in Nat /\ DOMAIN s = 1..Len(s) /\ \A n \in 1..Len(s) : s[n] \in Files
      BY <3>1, LenProperties, ElementOfSeq
    <3> QED BY <3>1, <3>2
  <2>2. FilesAt(place) = IF options.reverse THEN Reversed(s) ELSE s
    BY <1>2 DEF FilesAt
  <2>3. DirAt(place) = place
    BY <1>2 DEF DirAt
  <2> HIDE DEF s
  <2>4. CASE options.reverse
    <3>1. FilesAt(place) = [n \in DOMAIN s |-> s[Len(s) + 1 - n]]
      BY <2>2, <2>4 DEF Reversed
    <3>2. i \in 1..Len(s) /\ FilesAt(place)[i] = s[Len(s) + 1 - i]
      BY <2>1, <3>1
    <3>3. Len(s) + 1 - i \in 1..Len(s)
      BY <2>1, <3>2
    <3> QED BY <2>1, <2>3, <3>2, <3>3
  <2>5. CASE ~options.reverse
    BY <2>1, <2>2, <2>3, <2>5
  <2> QED BY <2>4, <2>5
<1> QED BY <1>1, <1>2

\* A file of a walk moves on. What has to be seen is where the process is then.
LEMMA WalkMoves ==
  ASSUME LocalInv, ActiveUp, WalkInv, options.sequential, NEW j \in Jobs, Moves(j), Top(j),
         job'[j].pc \notin {"idle", "resolve"},
         cwd' = (IF job'[j].pc \in {"chdir", "done"} THEN Home(VisitOf(j)) ELSE job'[j].dir),
         job'[j].dir = DirOf[Asked(j)],
         job[j].pc # "resolve" => job'[j].dir = job[j].dir,
         job'[j].pc # "done" => job'[j].prev = Home(VisitOf(j)),
         job'[j].read # Nowhere => job'[j].read = Asked(j) /\ job'[j].at \in {Nowhere, DirOf[Asked(j)]}
  PROVE  WalkInv'
<1> DEFINE v == VisitOf(j)
<1>1. /\ Chain /\ (\A u \in Visits : WalkCall(u)) /\ (\A i \in Jobs : WalkFile(i))
      /\ v \in Visits /\ j \in Item /\ Active(j) /\ job[j].pc \notin {"idle", "done"}
  BY JobName, ItemState DEF WalkInv, Top
<1>2. /\ options' = options /\ (\A i \in Jobs : i # j => job'[i] = job[i])
      /\ \A u \in Visits : visit'[u].pc = visit[u].pc /\ visit'[u].path = visit[u].path
                           /\ visit'[u].files = visit[u].files /\ visit'[u].parallel = visit[u].parallel
  BY DEF Moves, SameCall
<1>3. \A u \in Visits : visit[u].pc \notin {"idle", "done"} => Home(u)' = Home(u)
  <2>1. \A i \in Jobs : job[i].pc # "resolve" => job'[i].dir = job[i].dir
    BY <1>2
  <2> QED BY <2>1, HomeStays
<1>4. visit[v].pc \notin {"idle", "done"}
  BY <1>1, AtWork
<1>5. \A y \in Item : y # j => (Active(y)' <=> Active(y))
  BY <1>2, ItemState DEF Item
<1>6. Chain' /\ WalkTop'
  <2>1. CASE job'[j].pc # "done"
    <3>1. Active(j)'
      BY <2>1, ItemState
    <3>2. Chain' /\ \A z \in Item : Top(z)' => z = j
      BY <1>1, <1>5, <3>1, ChainSame
    <3>3. Here(j)' = IF job'[j].pc \in {"resolve", "chdir"} THEN Home(v)' ELSE job'[j].dir
      BY ItemState DEF Here
    <3>4. cwd' = Here(j)'
      BY <1>3, <1>1, <1>4, <2>1, <3>3
    <3> QED BY <3>2, <3>4 DEF WalkTop
  <2>2. CASE job'[j].pc = "done"
    <3>1. ~Active(j)'
      BY <2>2, ItemState
    <3>2. Chain' /\ \A z \in Item : Top(z)' => \E k \in Pos : j = Child(z, k)
      BY <1>1, <1>5, <3>1, ChainUp
    <3>3. ASSUME NEW z \in Item, Top(z)' PROVE cwd' = Here(z)'
      <4>1. z = v
        BY <3>2, <3>3, ChildUp, ItemName DEF Item
      <4>2. Here(z)' = Home(z)'
        BY <1>1, <4>1 DEF Here
      <4> QED BY <1>1, <1>3, <1>4, <2>2, <4>1, <4>2
    <3> QED BY <3>2, <3>3 DEF WalkTop
  <2> QED BY <2>1, <2>2
<1>7. ASSUME NEW u \in Visits PROVE WalkCall(u)'
  <2>1. \A place : FilesAt(place)' = FilesAt(place)
    BY <1>2 DEF FilesAt
  <2>2. WalkCall(u) /\ (visit[u].pc = "walk" => Home(u)' = Home(u))
    BY <1>1, <1>3
  <2> QED BY <1>2, <2>1, <2>2 DEF WalkCall, FilesAt
<1>8. \A i \in Jobs : Asked(i)' = Asked(i)
  BY <1>2, JobName DEF Asked
<1>9. ASSUME NEW i \in Jobs, i # j PROVE WalkFile(i)'
  <2>1. WalkFile(i) /\ job'[i] = job[i]
    BY <1>1, <1>2, <1>9
  <2>2. job[i].pc \notin {"idle", "done"} => Home(VisitOf(i))' = Home(VisitOf(i))
    <3>1. job[i].pc \notin {"idle", "done"} => VisitOf(i) \in Visits /\ visit[VisitOf(i)].pc \notin {"idle", "done"}
      BY AtWork
    <3> QED BY <1>3, <3>1
  <2> QED BY <1>8, <2>1, <2>2 DEF WalkFile
<1>10. WalkFile(j)'
  BY <1>1, <1>3, <1>4, <1>8 DEF WalkFile
<1>11. ~Returned'
  <2>1. << >> \in Visits /\ << >> \in Item /\ Below(j, << >>)
    BY VisitAssumption, ItemState, ItemName, BelowOrder
  <2>2. Active(<< >>)
    BY <1>1, <2>1 DEF ActiveUp
  <2>3. visit'[<< >>].pc # "done"
    BY <1>2, <2>1, <2>2, ItemState
  <2> QED BY <2>3 DEF Returned
<1> QED BY <1>6, <1>7, <1>9, <1>10, <1>11 DEF WalkInv

\* A file is loaded, converged or left for what it nests: the process stays
\* where it is.
Quiet(j) ==
  /\ job[j].pc \in {"load", "subs", "after", "template", "converge"}
  /\ job'[j].pc \in {"subs", "after", "template", "converge", "back"}
  /\ job'[j].dir = job[j].dir /\ job'[j].prev = job[j].prev /\ cwd' = cwd
  /\ job'[j].read = job[j].read \/ (job[j].pc = "load" /\ job'[j].read \in Opened(j))
  /\ job'[j].at \in {job[j].at, Base(j)}

\* All steps of a file of a walk but those that change the directory do so.
LEMMA QuietSteps ==
  ASSUME LocalInv, NEW j \in Jobs, ~Goroutine(j), JobStep(j), ~CallNested(j), job[j].pc \notin {"resolve", "chdir", "back"}
  PROVE  Quiet(j)
<1>1. job \in [Jobs -> JobType] /\ job[j] \in JobType
  BY DEF LocalInv, VisitTypeOK
<1>2. EndOf(j) = "back"
  BY DEF EndOf
<1>3. CASE Load(j)
  <2>1. PICK f \in Opened(j) : \E p \in {"subs", "template"} : job'[j] = [job[j] EXCEPT !.read = f, !.pc = p]
    BY <1>1, <1>3 DEF Load, Step
  <2> QED BY <1>1, <1>3, <2>1 DEF Load, Quiet, JobType
<1>4. CASE UndefinedEnv(j)
  <2>1. PICK f \in Opened(j) : job'[j] = [job[j] EXCEPT !.read = f, !.outcome = "skipped", !.pc = "back"]
    BY <1>1, <1>2, <1>4 DEF UndefinedEnv, Step
  <2> QED BY <1>1, <1>4, <2>1 DEF UndefinedEnv, Quiet, JobType
<1>5. CASE LoadFails(j) \/ NestedFails(j) \/ TemplatesFail(j)
  <2>1. /\ job'[j] = [job[j] EXCEPT !.pc = "back", !.failed = TRUE] /\ cwd' = cwd
        /\ job[j].pc \in {"load", "subs", "after", "template"}
    BY <1>1, <1>2, <1>5 DEF LoadFails, NestedFails, TemplatesFail, Fail, Step, AtNested, InSubs
  <2> QED BY <1>1, <2>1 DEF Quiet, JobType
<1>6. CASE NestedReturns(j)
  <2>1. job[j].pc \in {"subs", "after"} /\ cwd' = cwd
    BY <1>6 DEF NestedReturns, AtNested, InSubs
  <2>2. /\ job'[j].pc = job[j].pc /\ job'[j].dir = job[j].dir /\ job'[j].prev = job[j].prev
        /\ job'[j].read = job[j].read /\ job'[j].at = job[j].at
    BY <1>1, <1>6 DEF NestedReturns, Step, JobType
  <2> QED BY <2>1, <2>2 DEF Quiet
<1>7. CASE NestedDone(j)
  <2>1. /\ job[j].pc \in {"subs", "after"} /\ cwd' = cwd
        /\ \E p \in {"template", "back"} : job'[j] = [job[j] EXCEPT !.pc = p]
    BY <1>1, <1>2, <1>7 DEF NestedDone, InSubs, Goto, Step
  <2> QED BY <1>1, <2>1 DEF Quiet, JobType
<1>8. CASE ExecuteTemplates(j)
  BY <1>1, <1>8 DEF ExecuteTemplates, Goto, Step, Quiet, JobType
<1>9. CASE ConvergeFails(j) \/ \E processed \in BOOLEAN : Converge(j, processed)
  <2>1. job[j].pc = "converge" /\ cwd' = cwd /\ After(j) \in {"after", "back"}
    BY <1>2, <1>9 DEF Converge, ConvergeFails, After
  <2>2. /\ job'[j].pc = After(j) /\ job'[j].dir = job[j].dir /\ job'[j].prev = job[j].prev
        /\ job'[j].read = job[j].read /\ job'[j].at = Base(j)
    <3>1. CASE ConvergeFails(j)
      <4>1. job'[j] = [[job[j] EXCEPT !.at = Base(j)] EXCEPT !.pc = After(j), !.outcome = "failed", !.failed = TRUE]
        BY <1>1, <3>1 DEF ConvergeFails, Converged, Step
      <4> QED BY <1>1, <4>1 DEF JobType
    <3>2. CASE \E processed \in BOOLEAN : Converge(j, processed)
      <4>1. PICK o \in {"processed", "nothing"} :
              job'[j] = [[job[j] EXCEPT !.at = Base(j)] EXCEPT !.pc = After(j), !.outcome = o]
        BY <1>1, <3>2 DEF Converge, Converged, Step
      <4> QED BY <1>1, <4>1 DEF JobType
    <3> QED BY <1>9, <3>1, <3>2
  <2> QED BY <2>1, <2>2 DEF Quiet
<1>10. ~(Resolve(j) \/ Chdir(j) \/ ChdirFails(j) \/ ChdirBack(j))
  BY DEF Resolve, Chdir, ChdirFails, ChdirBack
<1> QED BY <1>3, <1>4, <1>5, <1>6, <1>7, <1>8, <1>9, <1>10 DEF JobStep

\* A file of a walk takes any step but calling a nested helmfile.
LEMMA WalkFileStep ==
  ASSUME LocalInv, ActiveUp, WalkInv, options.sequential, NEW j \in Jobs, JobStep(j), ~CallNested(j)
  PROVE  WalkInv'
<1> DEFINE v == VisitOf(j)
<1>1. /\ Moves(j) /\ Top(j) /\ job[j].pc \notin {"idle", "done"} /\ cwd = Here(j) /\ j \in Item /\ j \notin Visits
      /\ (\A u \in Visits : WalkCall(u)) /\ WalkFile(j) /\ (\A u \in Visits : ~visit[u].parallel)
  BY FileKeeps, KeepsOn, FileIsTop, ItemState DEF WalkInv, WalkTop, WalkCall
<1>2. /\ v \in Visits /\ visit[v].pc = "walk" /\ job[j] \in JobType /\ job \in [Jobs -> JobType] /\ JobOK(j) /\ ~Goroutine(j)
      /\ Position(j) \in DOMAIN visit[v].files /\ Asked(j) \in Files /\ Asked(j) = visit[v].files[Position(j)]
  BY <1>1, AtWork DEF Goroutine, Parallel, Asked, LocalInv, VisitTypeOK
<1>3. DirOf[Asked(j)] \in Dirs /\ Nowhere \notin Dirs
  BY <1>2, VisitAssumption
<1>4. cwd = IF job[j].pc \in {"resolve", "chdir"} THEN Home(v) ELSE job[j].dir
  BY <1>1 DEF Here
<1>5. job[j].pc # "resolve" => job[j].dir = DirOf[Asked(j)] /\ job[j].prev = Home(v)
  BY <1>1 DEF WalkFile
<1>6. CASE Resolve(j)
  <2> DEFINE place == Join[Home(v)][visit[v].path]
             d == DirAt(Lookup(v))
  <2>1. job[j].pc = "resolve" /\ cwd' = cwd /\ job'[j] = [job[j] EXCEPT !.pc = "chdir", !.dir = d, !.prev = cwd]
    BY <1>2, <1>6 DEF Resolve, Step
  <2>2. place # Nowhere /\ visit[v].files = FilesAt(place) /\ Lookup(v) = place
    BY <1>1, <1>2, <1>4, <2>1, WalkLooks DEF WalkCall
  <2>3. place \in Dirs \cup Files
    BY <1>2, <2>2, Looked
  <2>4. d = DirOf[Asked(j)]
    BY <1>2, <2>2, <2>3, FoundThere
  <2> HIDE DEF d, place
  <2>5. /\ job'[j].pc = "chdir" /\ job'[j].dir = d /\ job'[j].prev = cwd
        /\ job'[j].read = job[j].read /\ job'[j].at = job[j].at
    BY <1>2, <2>1 DEF JobType
  <2>6. job[j].read = Nowhere
    BY <1>2, <2>1 DEF JobOK
  <2> QED BY <1>1, <1>4, <2>1, <2>4, <2>5, <2>6, WalkMoves
<1>7. CASE Chdir(j)
  <2>1. job[j].pc = "chdir" /\ cwd' = job[j].dir /\ job'[j] = [job[j] EXCEPT !.pc = "load"]
    BY <1>2, <1>7 DEF Chdir, Goto, Step
  <2>2. /\ job'[j].pc = "load" /\ job'[j].dir = job[j].dir /\ job'[j].prev = job[j].prev
        /\ job'[j].read = job[j].read /\ job'[j].at = job[j].at
    BY <1>2, <2>1 DEF JobType
  <2>3. job[j].read = Nowhere
    BY <1>2, <2>1 DEF JobOK
  <2> QED BY <1>1, <1>5, <2>1, <2>2, <2>3, WalkMoves
<1>8. CASE ChdirFails(j)
  BY <1>3, <1>5, <1>8 DEF ChdirFails
<1>9. CASE ChdirBack(j)
  <2>1. job[j].pc = "back" /\ cwd' = job[j].prev /\ job'[j] = [job[j] EXCEPT !.pc = "done"]
    BY <1>2, <1>9 DEF ChdirBack, Goto, Step
  <2>2. /\ job'[j].pc = "done" /\ job'[j].dir = job[j].dir /\ job'[j].prev = job[j].prev
        /\ job'[j].read = job[j].read /\ job'[j].at = job[j].at
    BY <1>2, <2>1 DEF JobType
  <2>3. job'[j].read # Nowhere => job'[j].read = Asked(j) /\ job'[j].at \in {Nowhere, DirOf[Asked(j)]}
    BY <1>1, <2>2 DEF WalkFile
  <2> QED BY <1>1, <1>5, <2>1, <2>2, <2>3, WalkMoves
<1>10. CASE job[j].pc \notin {"resolve", "chdir", "back"}
  <2>1. Quiet(j)
    BY <1>2, <1>10, QuietSteps
  <2>2. Base(j) = DirOf[Asked(j)]
    BY <1>2, <1>4, <1>5, <1>10 DEF Base
  <2>3. \A f \in Opened(j) : f = Asked(j)
    BY <1>2, <2>2, VisitAssumption DEF Opened
  <2>4. job[j].pc = "load" => job[j].read = Nowhere /\ job[j].at = Nowhere
    BY <1>2 DEF JobOK
  <2>5. job'[j].read # Nowhere => job'[j].read = Asked(j) /\ job'[j].at \in {Nowhere, DirOf[Asked(j)]}
    BY <1>1, <2>1, <2>2, <2>3, <2>4 DEF Quiet, WalkFile
  <2>6. /\ job'[j].pc \notin {"idle", "resolve", "chdir", "done"} /\ job[j].pc # "resolve"
        /\ job'[j].dir = job[j].dir /\ job'[j].prev = job[j].prev /\ cwd' = job'[j].dir
    BY <1>4, <1>10, <2>1 DEF Quiet
  <2> QED BY <1>1, <1>5, <2>5, <2>6, WalkMoves
<1>11. CASE job[j].pc \in {"resolve", "chdir", "back"}
  <2>1. Resolve(j) \/ Chdir(j) \/ ChdirFails(j) \/ ChdirBack(j)
    BY <1>11 DEF JobStep, Load, LoadFails, UndefinedEnv, NestedReturns, NestedFails, NestedDone, ExecuteTemplates,
       TemplatesFail, Converge, ConvergeFails, AtNested, InSubs
  <2> QED BY <1>6, <1>7, <1>8, <1>9, <2>1
<1> QED BY <1>10, <1>11

\* A file of a walk calls a nested helmfile.
LEMMA WalkNestedStep ==
  ASSUME LocalInv, ActiveUp, WalkInv, options.sequential, NEW j \in Jobs, CallNested(j)
  PROVE  WalkInv'
<1> DEFINE e == [Idle EXCEPT !.pc = "find", !.path = Subs(j)[job[j].sub], !.base = job[j].dir]
<1>1. PICK w \in Visits : w = Nested(j)
  BY DEF CallNested, AtNested
<1>2. job[j].pc \in {"subs", "after"} /\ visit[w].pc = "idle" /\ UNCHANGED <<options, cwd, job>> /\ Set(w, e)
  BY <1>1 DEF CallNested, AtNested, InSubs
<1>3. PICK k \in Pos : w = Child(j, k)
  BY <1>1 DEF Nested, LocalInv, VisitTypeOK, JobType, Pos
<1>4. visit'[w] = e /\ \A u \in Visits : u # w => visit'[u] = visit[u]
  BY <1>2 DEF Set, LocalInv, VisitTypeOK
<1>5. visit'[w].pc = "find" /\ ~visit'[w].parallel
  <2>1. e = [pc |-> "find", path |-> Subs(j)[job[j].sub], base |-> job[j].dir, parallel |-> FALSE,
             files |-> << >>, next |-> 1, errors |-> 0, matches |-> 0, noMatch |-> TRUE, result |-> "none"]
    BY FreshRecord
  <2> HIDE DEF e
  <2>2. e.pc = "find" /\ ~e.parallel
    BY <2>1
  <2> QED BY <1>4, <2>2
<1> HIDE DEF e
<1>6. /\ Chain /\ Top(j) /\ Active(j) /\ cwd = job[j].dir /\ j \in Item /\ w \in Item
      /\ (\A u \in Visits : WalkCall(u)) /\ (\A i \in Jobs : WalkFile(i))
  <2>1. JobStep(j)
    BY DEF JobStep
  <2>2. Top(j) /\ j \in Item /\ j \notin Visits /\ w \in Item
    BY <2>1, FileIsTop, ItemState
  <2>3. Here(j) = job[j].dir
    BY <1>2, <2>2 DEF Here
  <2> QED BY <2>2, <2>3 DEF WalkInv, WalkTop, Top
<1>7. ASSUME NEW y \in Item PROVE Active(y)' <=> Active(y) \/ y = w
  <2>1. CASE y = w
    BY <1>5, <2>1, ItemState
  <2>2. CASE y # w /\ y \in Visits
    <3>1. visit'[y] = visit[y]
      BY <1>4, <2>2
    <3> QED BY <2>2, <3>1, ItemState
  <2>3. CASE y # w /\ y \in Jobs
    BY <1>2, <2>3, ItemState
  <2> QED BY <2>1, <2>2, <2>3 DEF Item
<1>8. Chain' /\ \A z \in Item : Top(z)' => z = w
  BY <1>3, <1>6, <1>7, ChainDown
<1>9. CallerOf(w) = j /\ w # << >>
  BY <1>3, NestedName
<1>10. \A u \in Visits : Home(u)' = Home(u)
  BY <1>2 DEF Home
<1>11. WalkTop'
  <2>1. Home(w) = job[j].dir
    BY <1>9 DEF Home
  <2>2. Here(w)' = Home(w)'
    BY DEF Here
  <2>3. cwd' = Here(w)'
    BY <1>2, <1>6, <1>10, <2>1, <2>2
  <2> QED BY <1>8, <2>3 DEF WalkTop
<1>12. ASSUME NEW u \in Visits PROVE WalkCall(u)'
  <2>1. \A place : FilesAt(place)' = FilesAt(place)
    BY <1>2 DEF FilesAt
  <2>2. CASE u = w
    BY <1>5, <2>2 DEF WalkCall
  <2>3. CASE u # w
    <3>1. visit'[u] = visit[u] /\ WalkCall(u) /\ Home(u)' = Home(u)
      BY <1>4, <1>6, <1>10, <2>3
    <3> QED BY <1>2, <2>1, <3>1 DEF WalkCall, FilesAt
  <2> QED BY <2>2, <2>3
<1>13. ASSUME NEW i \in Jobs PROVE WalkFile(i)'
  <2>1. WalkFile(i) /\ job'[i] = job[i] /\ VisitOf(i) \in Visits /\ FileOK(i) /\ JobOK(i)
    BY <1>2, <1>6, JobName DEF LocalInv
  <2>2. CASE VisitOf(i) = w
    <3>1. job[i].pc = "idle" /\ job[i].read = Nowhere
      BY <1>2, <2>1, <2>2 DEF FileOK, JobOK
    <3> QED BY <2>1, <3>1 DEF WalkFile
  <2>3. CASE VisitOf(i) # w
    <3>1. Asked(i)' = Asked(i) /\ Home(VisitOf(i))' = Home(VisitOf(i))
      BY <1>4, <1>10, <2>1, <2>3 DEF Asked
    <3> QED BY <2>1, <3>1 DEF WalkFile
  <2> QED BY <2>2, <2>3
<1>14. ~Returned'
  <2>1. << >> \in Visits /\ << >> \in Item /\ Below(j, << >>)
    BY <1>6, VisitAssumption, ItemState, ItemName, BelowOrder
  <2>2. Active(<< >>)
    BY <1>6, <2>1 DEF ActiveUp
  <2>3. visit'[<< >>].pc # "done"
    BY <1>4, <1>9, <2>1, <2>2, ItemState
  <2> QED BY <2>3 DEF Returned
<1> QED BY <1>8, <1>11, <1>12, <1>13, <1>14 DEF WalkInv

\* What a call of a walk does: it never starts goroutines, and keeps the files it
\* has found in the directory it has been called in.
LEMMA WalkCallDoes ==
  ASSUME LocalInv, options.sequential, NEW v \in Visits, VisitStep(v), WalkCall(v),
         \A u \in Visits : ~visit[u].parallel, cwd = Home(v)
  PROVE  /\ ~visit'[v].parallel
         /\ visit'[v].pc = "walk" => LET place == Join[Home(v)][visit[v].path] IN
                                     place # Nowhere /\ visit'[v].files = FilesAt(place)
         /\ visit[v].pc = "walk" => visit'[v].files = visit[v].files
         /\ NextFile(v) \/ job' = job
<1>1. /\ visit \in [Visits -> VisitType] /\ visit[v] \in VisitType /\ job \in [Jobs -> JobType]
      /\ ~visit[v].parallel
  BY DEF LocalInv, VisitTypeOK
<1> DEFINE place == Join[Home(v)][visit[v].path]
<1>2. Lookup(v) = place
  BY WalkLooks
<1>3. CASE Find(v)
  <2> DEFINE fs == IF Lookup(v) = Nowhere THEN << >> ELSE FilesAt(Lookup(v))
  <2>1. visit'[v] = [visit[v] EXCEPT !.pc = "again", !.parallel = FALSE, !.files = fs]
    BY <1>1, <1>3 DEF Find, Set
  <2>2. job' = job
    <3>1. job' = [j \in Jobs |-> job[j]]
      BY <1>3 DEF Find
    <3> QED BY <1>1, <3>1
  <2>3. visit[v].pc = "find"
    BY <1>3 DEF Find
  <2> HIDE DEF fs
  <2> QED BY <1>1, <2>1, <2>2, <2>3 DEF VisitType
<1>4. CASE FindAgain(v)
  <2>1. visit[v].pc = "again" /\ job' = job
    BY <1>4 DEF FindAgain
  <2>2. visit'[v] = IF place = Nowhere THEN [visit[v] EXCEPT !.pc = "done", !.result = "error"]
                    ELSE [visit[v] EXCEPT !.pc = "walk", !.files = FilesAt(place)]
    BY <1>1, <1>2, <1>4 DEF FindAgain, Set
  <2> HIDE DEF place
  <2>3. CASE place = Nowhere
    BY <1>1, <2>1, <2>2, <2>3 DEF VisitType
  <2>4. CASE place # Nowhere
    BY <1>1, <2>1, <2>2, <2>4 DEF VisitType, place
  <2> QED BY <2>3, <2>4
<1>5. CASE NextFile(v)
  BY <1>1, <1>5 DEF NextFile, WalkCall
<1>6. CASE FileDone(v)
  <2> DEFINE failed == job[Child(v, visit[v].next)].failed
  <2>1. visit[v].pc = "walk" /\ job' = job
    BY <1>6 DEF FileDone
  <2>2. visit'[v] = IF failed THEN [visit[v] EXCEPT !.pc = "done", !.result = "error"]
                    ELSE [visit[v] EXCEPT !.next = @ + 1]
    BY <1>1, <1>6 DEF FileDone, Set
  <2> HIDE DEF failed
  <2>3. visit'[v].files = visit[v].files /\ visit'[v].parallel = visit[v].parallel
    BY <1>1, <2>2 DEF VisitType
  <2> QED BY <1>1, <2>1, <2>3 DEF WalkCall
<1>7. CASE WalkDone(v)
  <2>1. visit[v].pc = "walk" /\ job' = job
    BY <1>7 DEF WalkDone
  <2>2. PICK r \in Results : visit'[v] = [visit[v] EXCEPT !.pc = "done", !.result = r]
    BY <1>1, <1>7 DEF WalkDone, Set, Results
  <2>3. visit'[v].files = visit[v].files /\ visit'[v].parallel = visit[v].parallel
    BY <1>1, <2>2 DEF VisitType
  <2> QED BY <1>1, <2>1, <2>3 DEF WalkCall
<1>8. ~AllReturned(v)
  BY <1>1 DEF AllReturned, LocalInv, CallOK
<1> QED BY <1>3, <1>4, <1>5, <1>6, <1>7, <1>8 DEF VisitStep

\* A call of a walk takes any step.
LEMMA WalkCallStep ==
  ASSUME LocalInv, ActiveUp, WalkInv, options.sequential, NEW v \in Visits, VisitStep(v)
  PROVE  WalkInv'
<1>1. /\ Calls(v) /\ Top(v) /\ Active(v) /\ v \in Item /\ cwd = Home(v) /\ Chain
      /\ (\A u \in Visits : WalkCall(u)) /\ (\A i \in Jobs : WalkFile(i)) /\ (\A u \in Visits : ~visit[u].parallel)
  <2>1. Top(v) /\ Active(v) /\ v \in Item
    BY CallIsTop, ItemState DEF Top
  <2>2. Here(v) = Home(v)
    BY DEF Here
  <2> QED BY <2>1, <2>2, CallKeeps DEF WalkInv, WalkTop, WalkCall
<1>2. /\ ~visit'[v].parallel
      /\ visit'[v].pc = "walk" => LET place == Join[Home(v)][visit[v].path] IN
                                  place # Nowhere /\ visit'[v].files = FilesAt(place)
      /\ visit[v].pc = "walk" => visit'[v].files = visit[v].files
      /\ NextFile(v) \/ job' = job
  BY <1>1, WalkCallDoes
<1>3. /\ options' = options /\ cwd' = cwd /\ visit'[v].path = visit[v].path /\ visit'[v].pc # "idle"
      /\ \A u \in Visits : u # v => visit'[u] = visit[u]
  BY <1>1 DEF Calls
<1>4. ASSUME NEW i \in Jobs
      PROVE /\ job'[i].dir = job[i].dir /\ job'[i].read = job[i].read /\ job'[i].at = job[i].at /\ job'[i].prev = job[i].prev
            /\ job'[i].pc = job[i].pc \/ (job[i].pc = "idle" /\ job'[i].pc = "resolve" /\ VisitOf(i) = v)
  <2>1. job[i] \in JobType
    BY DEF LocalInv, VisitTypeOK
  <2> QED BY <1>1, <2>1 DEF Calls, JobType
<1>5. \A u \in Visits : Home(u)' = Home(u)
  BY <1>4, CallerKnown DEF Home
<1>6. Here(v)' = Home(v)' /\ cwd' = Home(v)'
  BY <1>1, <1>3, <1>5 DEF Here
<1>7. ASSUME NextFile(v) PROVE Chain' /\ WalkTop' /\ (Returned' => cwd' = Start)
  <2>1. /\ visit[v].pc = "walk" /\ visit' = visit /\ visit[v].next \in DOMAIN visit[v].files
        /\ Step(Child(v, visit[v].next), [job[Child(v, visit[v].next)] EXCEPT !.pc = "resolve"])
        /\ job[Child(v, visit[v].next)].pc = "idle"
    BY <1>7 DEF NextFile, Goto
  <2>2. PICK k \in 1..MaxFiles : k = visit[v].next
    <3>1. visit[v].files \in Seq(Files) /\ Len(visit[v].files) <= MaxFiles
      BY DEF LocalInv, VisitTypeOK, VisitType
    <3>2. DOMAIN visit[v].files = 1..Len(visit[v].files) /\ Len(visit[v].files) \in Nat
      BY <3>1, LenProperties
    <3> QED BY <2>1, <3>1, <3>2, VisitAssumption
  <2>3. PICK c \in Jobs : c = Child(v, k) /\ VisitOf(c) = v /\ c \in Item /\ k \in Pos
    BY JobName, ItemState, VisitAssumption DEF Pos
  <2>4. /\ job'[c].pc = "resolve" /\ job[c].pc = "idle" /\ \A i \in Jobs : i # c => job'[i] = job[i]
    BY <2>1, <2>2, <2>3 DEF Step, LocalInv, VisitTypeOK, JobType
  <2>5. \A y \in Item : Active(y)' <=> Active(y) \/ y = c
    BY <2>1, <2>3, <2>4, ItemState DEF Item
  <2>6. Chain' /\ \A z \in Item : Top(z)' => z = c
    BY <1>1, <2>3, <2>5, ChainDown
  <2>7. Here(c)' = Home(v)'
    BY <2>3, <2>4, ItemState DEF Here
  <2>8. WalkTop'
    BY <1>6, <2>6, <2>7 DEF WalkTop
  <2>9. ~Returned'
    <3>1. << >> \in Visits /\ << >> \in Item /\ Below(v, << >>)
      BY VisitAssumption, ItemState, ItemName, BelowOrder
    <3>2. Active(<< >>)
      BY <1>1, <3>1 DEF ActiveUp
    <3> QED BY <2>1, <3>1, <3>2, ItemState DEF Returned
  <2> QED BY <2>6, <2>8, <2>9
<1>8. ASSUME job' = job PROVE Chain' /\ WalkTop' /\ (Returned' => cwd' = Start)
  <2>1. \A y \in Item : y # v => (Active(y)' <=> Active(y))
    <3>1. ASSUME NEW y \in Visits, y # v PROVE Active(y)' <=> Active(y)
      BY <1>3, <3>1, ItemState
    <3>2. ASSUME NEW y \in Jobs PROVE Active(y)' <=> Active(y)
      BY <1>8, ItemState
    <3> QED BY <3>1, <3>2 DEF Item
  <2>2. CASE Active(v)'
    <3>1. Chain' /\ \A z \in Item : Top(z)' => z = v
      BY <1>1, <2>1, <2>2, ChainSame
    <3>2. WalkTop'
      BY <1>6, <3>1 DEF WalkTop
    <3>3. ~Returned'
      <4>1. << >> \in Visits /\ << >> \in Item /\ Below(v, << >>)
        BY VisitAssumption, ItemState, ItemName, BelowOrder
      <4>2. Active(<< >>)
        BY <1>1, <4>1 DEF ActiveUp
      <4>3. Active(<< >>)'
        BY <2>1, <2>2, <4>1, <4>2
      <4> QED BY <4>1, <4>3, ItemState DEF Returned
    <3> QED BY <3>1, <3>2, <3>3
  <2>3. CASE ~Active(v)'
    <3>1. Chain' /\ \A z \in Item : Top(z)' => \E k \in Pos : v = Child(z, k)
      BY <1>1, <2>1, <2>3, ChainUp
    <3>2. ASSUME NEW z \in Item, Top(z)' PROVE cwd' = Here(z)'
      <4>1. PICK k \in Pos : v = Child(z, k)
        BY <3>1, <3>2
      <4>2. z \in Seq(Pos) /\ v \in Seq(Pos)
        BY ItemName DEF Item
      <4>3. z = CallerOf(v)
        BY <4>1, <4>2, ChildUp
      <4>4. v # << >>
        <5>1. Len(v) = Len(z) + 1 /\ Len(z) \in Nat /\ Len(<< >>) = 0
          BY <4>1, <4>2, ChildName, LenProperties, EmptySeq
        <5> QED BY <5>1
      <4>5. z \in Jobs /\ InSubs(z) /\ z \notin Visits
        BY <1>1, <4>3, <4>4, CallerKnown, ItemState
      <4>6. Home(v) = job[z].dir
        BY <4>3, <4>4 DEF Home
      <4>7. Here(z)' = job'[z].dir
        BY <1>8, <4>5 DEF Here, InSubs
      <4> QED BY <1>1, <1>3, <1>8, <4>6, <4>7
    <3>3. Returned' => cwd' = Start
      <4>1. << >> \in Visits /\ << >> \in Item /\ Below(v, << >>)
        BY VisitAssumption, ItemState, ItemName, BelowOrder
      <4>2. Active(<< >>)
        BY <1>1, <4>1 DEF ActiveUp
      <4>3. v # << >> => ~Returned'
        BY <2>1, <4>1, <4>2, ItemState DEF Returned
      <4>4. v = << >> => Home(v) = Start
        BY DEF Home
      <4> QED BY <1>1, <1>3, <4>3, <4>4
    <3> QED BY <3>1, <3>2, <3>3 DEF WalkTop
  <2> QED BY <2>2, <2>3
<1>9. Chain' /\ WalkTop' /\ (Returned' => cwd' = Start)
  BY <1>2, <1>7, <1>8
<1>10. ASSUME NEW u \in Visits PROVE WalkCall(u)'
  <2>1. \A place : FilesAt(place)' = FilesAt(place)
    BY <1>3 DEF FilesAt
  <2>2. CASE u = v
    BY <1>2, <1>3, <1>5, <2>1, <2>2 DEF WalkCall, FilesAt
  <2>3. CASE u # v
    <3>1. visit'[u] = visit[u] /\ WalkCall(u) /\ Home(u)' = Home(u)
      BY <1>1, <1>3, <1>5, <2>3
    <3> QED BY <1>3, <2>1, <3>1 DEF WalkCall, FilesAt
  <2> QED BY <2>2, <2>3
<1>11. ASSUME NEW i \in Jobs PROVE WalkFile(i)'
  <2>1. WalkFile(i) /\ VisitOf(i) \in Visits /\ FileOK(i) /\ JobOK(i) /\ Home(VisitOf(i))' = Home(VisitOf(i))
    BY <1>1, <1>5, JobName DEF LocalInv
  <2>2. CASE job[i].pc = "idle"
    <3>1. job'[i].pc \in {"idle", "resolve"} /\ job'[i].read = Nowhere
      BY <1>4, <2>1, <2>2 DEF JobOK
    <3>2. job'[i].pc = "idle" \/ job'[i].pc = "resolve"
      BY <3>1
    <3> QED BY <3>1, <3>2 DEF WalkFile
  <2>3. CASE job[i].pc # "idle"
    <3>1. Asked(i)' = Asked(i)
      <4>1. CASE VisitOf(i) = v
        <5>1. visit[v].pc \notin {"idle", "done"}
          BY <1>1, ItemState
        <5>2. visit[v].pc \in {"walk", "wait"}
          BY <2>1, <2>3, <4>1, <5>1 DEF FileOK
        <5>3. visit[v].pc = "walk"
          BY <1>1, <5>2 DEF LocalInv, CallOK
        <5> QED BY <1>2, <4>1, <5>3 DEF Asked
      <4>2. CASE VisitOf(i) # v
        BY <1>3, <2>1, <4>2 DEF Asked
      <4> QED BY <4>1, <4>2
    <3> QED BY <1>4, <2>1, <2>3, <3>1 DEF WalkFile
  <2> QED BY <2>2, <2>3
<1> QED BY <1>9, <1>10, <1>11 DEF WalkInv

\* The process is where it was started.
LEMMA WalkInit == ASSUME VisitInit PROVE WalkInv
<1> SUFFICES ASSUME options.sequential PROVE Chain /\ WalkTop /\ (\A v \in Visits : WalkCall(v))
                                             /\ (\A j \in Jobs : WalkFile(j)) /\ (Returned => cwd = Start)
  BY DEF WalkInv
<1>1. \A v \in Visits : visit[v].pc = (IF v = << >> THEN "find" ELSE "idle") /\ ~visit[v].parallel
  BY DEF VisitInit, Idle
<1>2. \A j \in Jobs : job[j].pc = "idle" /\ job[j].read = Nowhere
  BY DEF VisitInit, Waiting
<1>3. \A x \in Item : Active(x) => x = << >>
  BY <1>1, <1>2, ItemState DEF Item
<1>4. Chain
  <2>1. << >> \in Seq(Pos)
    BY ItemName, VisitAssumption
  <2> QED BY <1>3, <2>1, BelowOrder DEF Chain
<1>5. WalkTop
  <2>1. Here(<< >>) = Start
    BY VisitAssumption DEF Here, Home
  <2> QED BY <1>3, <2>1 DEF WalkTop, Top, VisitInit
<1>6. \A v \in Visits : WalkCall(v)
  BY <1>1 DEF WalkCall
<1>7. \A j \in Jobs : WalkFile(j)
  BY <1>2 DEF WalkFile
<1> QED BY <1>4, <1>5, <1>6, <1>7 DEF VisitInit

\* Every step keeps the invariant of walks.
LEMMA WalkNext == ASSUME LocalInv, ActiveUp, WalkInv, [VisitNext]_visitVars PROVE WalkInv'
<1>1. options' = options
  <2>1. ASSUME NEW v \in Visits, VisitStep(v) PROVE options' = options
    BY <2>1, CallKeeps DEF Calls
  <2>2. ASSUME NEW j \in Jobs, JobStep(j) PROVE options' = options
    BY <2>2, FileKeeps DEF Moves, CallNested
  <2> QED BY <2>1, <2>2 DEF VisitNext, Finished, visitVars
<1>2. CASE ~options.sequential
  BY <1>1, <1>2 DEF WalkInv
<1>3. CASE options.sequential
  <2>1. ASSUME NEW v \in Visits, VisitStep(v) PROVE WalkInv'
    BY <1>3, <2>1, WalkCallStep
  <2>2. ASSUME NEW j \in Jobs, JobStep(j) PROVE WalkInv'
    <3>1. CASE CallNested(j)
      BY <1>3, <3>1, WalkNestedStep
    <3>2. CASE ~CallNested(j)
      BY <1>3, <2>2, <3>2, WalkFileStep
    <3> QED BY <3>1, <3>2
  <2>3. CASE UNCHANGED visitVars
    <3>1. /\ \A x \in Item : (Active(x)' <=> Active(x)) /\ Here(x)' = Here(x)
          /\ \A v \in Visits : WalkCall(v)' <=> WalkCall(v)
          /\ \A j \in Jobs : WalkFile(j)' <=> WalkFile(j)
      BY <2>3 DEF visitVars, Active, Here, Home, WalkCall, WalkFile, Asked, FilesAt
    <3>2. \A x \in Item : Top(x)' <=> Top(x)
      BY <3>1 DEF Top
    <3> QED BY <2>3, <3>1, <3>2 DEF visitVars, WalkInv, Chain, WalkTop, Returned
  <2> QED BY <2>1, <2>2, <2>3 DEF VisitNext, Finished
<1> QED BY <1>2, <1>3

\* In a walk what runs is a chain of calls and files, and the process is in the
\* directory its lowest link needs.
THEOREM WalkInvariant == VisitSpec => []WalkInv
<1>1. VisitInit => WalkInv
  BY WalkInit
<1>2. LocalInv /\ TreeInv /\ WalkInv /\ [VisitNext]_visitVars => WalkInv'
  BY WalkNext DEF TreeInv
<1> QED BY <1>1, <1>2, VisitInvariant, TreeInvariant, PTL DEF VisitSpec

\* In a walk every file is the one that was found, its releases are converged in
\* its own directory, and the process ends up in the directory it started in.
THEOREM WalkKeepsPlace == VisitSpec => []WalkKeepsDirectory
<1>1. WalkInv => WalkKeepsDirectory
  BY DEF WalkInv, WalkFile, WalkKeepsDirectory
<1> QED BY <1>1, WalkInvariant, PTL
=============================================================================
