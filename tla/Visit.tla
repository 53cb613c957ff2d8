-------------------------------- MODULE Visit --------------------------------
(* How the application walks the tree of helmfiles: visitStatesWithContext   *)
(* finds the state files a path stands for, loads each one, visits the       *)
(* helmfiles it nests, and converges its releases. Several files are         *)
(* processed by a goroutine each, unless --sequential-helmfiles is given; a  *)
(* single file is loaded from the process' working directory, which the code *)
(* changes before and restores afterwards.                                   *)
(*                                                                           *)
(* A visit is one call of visitStatesWithContext and a job the processing of *)
(* one of its files. Both are named by the way down from the root: << >> is  *)
(* the first visit, <<2>> the job of its second file, <<2, 1>> the visit of  *)
(* the first helmfile that file nests.  Helmfiles may nest one another for   *)
(* ever; Visits bounds how far down the model goes.                          *)
EXTENDS Integers, Sequences, FiniteSets

CONSTANTS
  Dirs,      \* directories
  Files,     \* state files
  Paths,     \* paths as they are written, in a helmfile or after --file
  Nowhere,   \* what a path stands for when nothing is there
  DirOf,     \* the directory of a file
  NameOf,    \* the base name of a file
  Join,      \* Join[d][p]: the directory or file that p stands for in directory d
  FilesIn,   \* the state files in a directory, in the order of their names
  SubsOf,    \* the paths of the helmfiles a file nests
  Start,     \* the working directory the process is started in
  Options,   \* [root : Paths, sequential : BOOLEAN, reverse : BOOLEAN]
  Visits,    \* the visits there can be: a bound on the depth of the tree
  Kinds,     \* what may come of a file when it is loaded, templated and converged
  MaxFiles   \* no directory holds more files than this

Kind == {"broken", "undefinedEnv", "badTemplates", "nothing", "matches", "fails"}

Child(x, i) == x \o <<i>>
Jobs == {Child(v, i) : v \in Visits, i \in 1..MaxFiles}

\* A path stands for a directory, a file or nothing; a directory tells its files
\* apart by their names. Every visit is that of a file of a visit.
ASSUME VisitAssumption ==
  /\ MaxFiles \in Nat \ {0}
  /\ Start \in Dirs /\ Nowhere \notin Dirs \cup Files /\ Dirs \cap Files = {}
  /\ DirOf \in [Files -> Dirs] /\ FilesIn \in [Dirs -> Seq(Files)] /\ SubsOf \in [Files -> Seq(Paths)]
  /\ Join \in [Dirs -> [Paths -> Dirs \cup Files \cup {Nowhere}]]
  /\ Options \subseteq [root : Paths, sequential : BOOLEAN, reverse : BOOLEAN]
  /\ Kinds \in [Files -> SUBSET Kind]
  /\ \A d \in Dirs : Len(FilesIn[d]) <= MaxFiles /\ \A i \in DOMAIN FilesIn[d] : DirOf[FilesIn[d][i]] = d
  /\ \A f, g \in Files : DirOf[f] = DirOf[g] /\ NameOf[f] = NameOf[g] => f = g
  /\ << >> \in Visits
  /\ \A v \in Visits :
       /\ v \in Seq(Nat \ {0}) /\ Len(v) % 2 = 0
       /\ \A n \in 1..Len(v) : SubSeq(v, 1, n) \in Visits \cup Jobs

VARIABLES
  options,
  cwd,       \* the working directory of the process
  visit,     \* the calls of visitStatesWithContext
  job        \* the files they process

visitVars == <<options, cwd, visit, job>>

Places  == Dirs \cup Files \cup {Nowhere}
Results == {"none", "ok", "noMatch", "error"}

VisitOf(j)  == SubSeq(j, 1, Len(j) - 1)
Position(j) == j[Len(j)]
JobsOf(v)   == {Child(v, i) : i \in DOMAIN visit[v].files}
Nested(j)   == Child(j, job[j].sub)
CallerOf(v) == SubSeq(v, 1, Len(v) - 1)

Reversed(s) == [i \in DOMAIN s |-> s[Len(s) + 1 - i]]

\* findDesiredStateFiles at a place: a file stands for itself, a directory for
\* the state files in it, in descending order when the walk is in reverse.
FilesAt(place) ==
  IF place \in Files THEN <<place>>
  ELSE IF options.reverse THEN Reversed(FilesIn[place]) ELSE FilesIn[place]

\* The paths a goroutine finds in its file are joined to the directory of the
\* file; those found by a file loaded from the working directory stay relative
\* and are looked up in whatever directory that is at the time.
Parallel(v) == visit[v].parallel
Absolute(v) == v # << >> /\ Parallel(VisitOf(CallerOf(v)))
Lookup(v)   == Join[IF Absolute(v) THEN visit[v].base ELSE cwd][visit[v].path]
DirAt(place) == IF place \in Files THEN DirOf[place] ELSE place

Idle ==
  [pc |-> "idle", path |-> Nowhere, base |-> Start, parallel |-> FALSE, files |-> << >>, next |-> 1,
   errors |-> 0, matches |-> 0, noMatch |-> TRUE, result |-> "none"]
Waiting ==
  [pc |-> "idle", dir |-> Nowhere, prev |-> Start, read |-> Nowhere, at |-> Nowhere, sub |-> 1,
   noMatchSub |-> TRUE, outcome |-> "none", failed |-> FALSE]

VisitInit ==
  /\ options \in Options
  /\ cwd = Start
  /\ visit = [v \in Visits |-> IF v = << >> THEN [Idle EXCEPT !.pc = "find", !.path = options.root] ELSE Idle]
  /\ job = [j \in Jobs |-> Waiting]

Set(v, r)  == visit' = [visit EXCEPT ![v] = r]
Step(j, r) == job' = [job EXCEPT ![j] = r]
Goto(j, p) == Step(j, [job[j] EXCEPT !.pc = p])

----------------------------------------------------------------------------
(* The call                                                                  *)

\* The files are looked for; when there are several, all their goroutines are
\* started. A path that is not found is looked for once more below.
Find(v) ==
  /\ visit[v].pc = "find"
  /\ LET place    == Lookup(v)
         files    == IF place = Nowhere THEN << >> ELSE FilesAt(place)
         parallel == Len(files) > 1 /\ ~options.sequential
     IN  /\ Set(v, [visit[v] EXCEPT !.pc = IF parallel THEN "wait" ELSE "again",
                                    !.parallel = parallel, !.files = files])
         /\ job' = [j \in Jobs |->
                      IF parallel /\ j \in {Child(v, i) : i \in DOMAIN files}
                      THEN [job[j] EXCEPT !.pc = "resolve"] ELSE job[j]]
  /\ UNCHANGED <<options, cwd>>

\* visitStateFiles looks for the files again, and fails when there is nothing.
FindAgain(v) ==
  /\ visit[v].pc = "again"
  /\ LET place == Lookup(v) IN
     Set(v, IF place = Nowhere
            THEN [visit[v] EXCEPT !.pc = "done", !.result = "error"]
            ELSE [visit[v] EXCEPT !.pc = "walk", !.files = FilesAt(place)])
  /\ UNCHANGED <<options, cwd, job>>

\* One file after the other, up to the first that fails.
NextFile(v) ==
  /\ visit[v].pc = "walk"
  /\ visit[v].next \in DOMAIN visit[v].files
  /\ job[Child(v, visit[v].next)].pc = "idle"
  /\ Goto(Child(v, visit[v].next), "resolve")
  /\ UNCHANGED <<options, cwd, visit>>

FileDone(v) ==
  /\ visit[v].pc = "walk"
  /\ visit[v].next \in DOMAIN visit[v].files
  /\ LET j == Child(v, visit[v].next) IN
     /\ job[j].pc = "done"
     /\ Set(v, IF job[j].failed
               THEN [visit[v] EXCEPT !.pc = "done", !.result = "error"]
               ELSE [visit[v] EXCEPT !.next = @ + 1])
  /\ UNCHANGED <<options, cwd, job>>

WalkDone(v) ==
  /\ visit[v].pc = "walk"
  /\ visit[v].next \notin DOMAIN visit[v].files
  /\ Set(v, [visit[v] EXCEPT !.pc = "done", !.result = IF visit[v].noMatch THEN "noMatch" ELSE "ok"])
  /\ UNCHANGED <<options, cwd, job>>

\* Mutant: the channels are read as soon as one goroutine is over.
AnyReturned(v) ==
  /\ visit[v].pc = "wait"
  /\ \E j \in JobsOf(v) : job[j].pc = "done"
  /\ Set(v, [visit[v] EXCEPT !.pc = "done",
                             !.result = IF visit[v].errors > 0 THEN "error"
                                        ELSE IF visit[v].matches > 0 THEN "ok" ELSE "noMatch"])
  /\ UNCHANGED <<options, cwd, job>>

\* wg.Wait, and then what is in the two channels decides.
AllReturned(v) ==
  /\ visit[v].pc = "wait"
  /\ \A j \in JobsOf(v) : job[j].pc = "done"
  /\ Set(v, [visit[v] EXCEPT !.pc = "done",
                             !.result = IF visit[v].errors > 0 THEN "error"
                                        ELSE IF visit[v].matches > 0 THEN "ok" ELSE "noMatch"])
  /\ UNCHANGED <<options, cwd, job>>

----------------------------------------------------------------------------
(* One file                                                                  *)

Goroutine(j) == Parallel(VisitOf(j))
\* Mutant: a channel is one slot short.
CapacityShort(v) == Len(visit[v].files) - 1

Capacity(v)  == Len(visit[v].files)

\* A goroutine sends its error and is over; a file of the walk returns it, once
\* the working directory is restored.
CanFail(j) == Goroutine(j) => visit[VisitOf(j)].errors < Capacity(VisitOf(j))
Sent(j)    ==
  LET v == VisitOf(j) IN
  IF Goroutine(j) THEN Set(v, [visit[v] EXCEPT !.errors = @ + 1]) ELSE UNCHANGED visit
EndOf(j)   == IF Goroutine(j) THEN "done" ELSE "back"
Fail(j, r) == CanFail(j) /\ Sent(j) /\ Step(j, [r EXCEPT !.pc = EndOf(j), !.failed = TRUE])

\* The directory of the file, made absolute with the working directory of the
\* moment, and for a file of the walk the working directory to come back to.
Resolve(j) ==
  /\ job[j].pc = "resolve"
  /\ Step(j, [job[j] EXCEPT !.pc = IF Goroutine(j) THEN "load" ELSE "chdir",
                            !.dir = DirAt(Lookup(VisitOf(j))), !.prev = cwd])
  /\ UNCHANGED <<options, cwd, visit>>

Chdir(j) ==
  /\ job[j].pc = "chdir"
  /\ job[j].dir # Nowhere
  /\ cwd' = job[j].dir
  /\ Goto(j, "load")
  /\ UNCHANGED <<options, visit>>

\* within returns before it has changed anything.
ChdirFails(j) ==
  /\ job[j].pc = "chdir"
  /\ job[j].dir = Nowhere
  /\ Step(j, [job[j] EXCEPT !.pc = "done", !.failed = TRUE])
  /\ UNCHANGED <<options, cwd, visit>>

\* The file is looked up by its base name: in the directory it was found in by
\* a goroutine, in the working directory otherwise.
Base(j)   == IF Goroutine(j) THEN job[j].dir ELSE cwd
Asked(j)  == visit[VisitOf(j)].files[Position(j)]
Opened(j) == {f \in Files : DirOf[f] = Base(j) /\ NameOf[f] = NameOf[Asked(j)]}
Expand(j, f) == \A i \in DOMAIN SubsOf[f] : Join[Base(j)][SubsOf[f][i]] # Nowhere

\* Mutant: the nested helmfiles are visited last in any case.
LoadSubsLast(j) ==
  /\ job[j].pc = "load"
  /\ \E f \in Opened(j) : Expand(j, f) /\ Step(j, [job[j] EXCEPT !.read = f, !.pc = "template"])
  /\ UNCHANGED <<options, cwd, visit>>

\* Nested helmfiles come first, or last when the walk is in reverse.
Load(j) ==
  /\ job[j].pc = "load"
  /\ \E f \in Opened(j) :
       /\ Expand(j, f)
       /\ Step(j, [job[j] EXCEPT !.read = f,
                     !.pc = IF SubsOf[f] # << >> /\ ~options.reverse THEN "subs" ELSE "template"])
  /\ UNCHANGED <<options, cwd, visit>>

LoadFails(j) ==
  /\ job[j].pc = "load"
  /\ \A f \in Opened(j) : Expand(j, f) => "broken" \in Kinds[f]
  /\ Fail(j, job[j])
  /\ UNCHANGED <<options, cwd>>

\* A helmfile that does not define the environment is passed over.
UndefinedEnv(j) ==
  /\ job[j].pc = "load"
  /\ \E f \in Opened(j) :
       /\ Expand(j, f) /\ "undefinedEnv" \in Kinds[f]
       /\ Step(j, [job[j] EXCEPT !.read = f, !.outcome = "skipped", !.pc = EndOf(j)])
  /\ UNCHANGED <<options, cwd, visit>>

Subs(j)  == SubsOf[job[j].read]
InSubs(j) == job[j].pc \in {"subs", "after"}
AtNested(j) == InSubs(j) /\ job[j].sub \in DOMAIN Subs(j) /\ Nested(j) \in Visits

CallNested(j) ==
  /\ AtNested(j)
  /\ visit[Nested(j)].pc = "idle"
  /\ Set(Nested(j), [Idle EXCEPT !.pc = "find", !.path = Subs(j)[job[j].sub], !.base = job[j].dir])
  /\ UNCHANGED <<options, cwd, job>>

\* Mutant: every error of a nested helmfile is tolerated.
NestedTolerated(j) ==
  /\ AtNested(j)
  /\ visit[Nested(j)].pc = "done"
  /\ Step(j, [job[j] EXCEPT !.sub = @ + 1,
                            !.noMatchSub = @ /\ visit[Nested(j)].result = "noMatch"])
  /\ UNCHANGED <<options, cwd, visit>>

\* That nothing matched in a nested helmfile is no error.
NestedReturns(j) ==
  /\ AtNested(j)
  /\ visit[Nested(j)].pc = "done"
  /\ visit[Nested(j)].result # "error"
  /\ Step(j, [job[j] EXCEPT !.sub = @ + 1,
                            !.noMatchSub = @ /\ visit[Nested(j)].result = "noMatch"])
  /\ UNCHANGED <<options, cwd, visit>>

NestedFails(j) ==
  /\ AtNested(j)
  /\ visit[Nested(j)].result = "error"
  /\ Fail(j, job[j])
  /\ UNCHANGED <<options, cwd>>

\* The walk keeps in mind that a nested helmfile matched, the goroutine does not.
NestedDone(j) ==
  /\ InSubs(j)
  /\ job[j].sub \notin DOMAIN Subs(j)
  /\ Goto(j, IF job[j].pc = "subs" THEN "template" ELSE EndOf(j))
  /\ LET v == VisitOf(j) IN
     IF Goroutine(j) THEN UNCHANGED visit
     ELSE Set(v, [visit[v] EXCEPT !.noMatch = @ /\ job[j].noMatchSub])
  /\ UNCHANGED <<options, cwd>>

ExecuteTemplates(j) ==
  /\ job[j].pc = "template"
  /\ Goto(j, "converge")
  /\ UNCHANGED <<options, cwd, visit>>

TemplatesFail(j) ==
  /\ job[j].pc = "template"
  /\ "badTemplates" \in Kinds[job[j].read]
  /\ Fail(j, job[j])
  /\ UNCHANGED <<options, cwd>>

Converged(j) == [job[j] EXCEPT !.at = Base(j)]
After(j)     == IF options.reverse /\ Subs(j) # << >> THEN "after" ELSE EndOf(j)

\* converge tells whether any release was processed. A goroutine reports a match
\* before it goes on.
Converge(j, processed) ==
  /\ job[j].pc = "converge"
  /\ (IF processed THEN "matches" ELSE "nothing") \in Kinds[job[j].read]
  /\ Step(j, [Converged(j) EXCEPT !.pc = After(j), !.outcome = IF processed THEN "processed" ELSE "nothing"])
  /\ LET v == VisitOf(j) IN
     /\ Goroutine(j) /\ processed => visit[v].matches < Capacity(v)
     /\ Set(v, IF Goroutine(j)
               THEN [visit[v] EXCEPT !.matches = @ + IF processed THEN 1 ELSE 0]
               ELSE [visit[v] EXCEPT !.noMatch = @ /\ ~processed])
  /\ UNCHANGED <<options, cwd>>

\* With an error a goroutine is over. The walk still visits the nested helmfiles
\* of a reversed walk: only the deferred clean turns the errors into the result.
ConvergeFails(j) ==
  /\ job[j].pc = "converge"
  /\ "fails" \in Kinds[job[j].read]
  /\ IF Goroutine(j) THEN Fail(j, [Converged(j) EXCEPT !.outcome = "failed"])
     ELSE /\ Step(j, [Converged(j) EXCEPT !.pc = After(j), !.outcome = "failed", !.failed = TRUE])
          /\ UNCHANGED visit
  /\ UNCHANGED <<options, cwd>>

\* Mutant: the working directory is not restored.
ChdirStays(j) ==
  /\ job[j].pc = "back"
  /\ Goto(j, "done")
  /\ UNCHANGED <<options, cwd, visit>>

ChdirBack(j) ==
  /\ job[j].pc = "back"
  /\ cwd' = job[j].prev
  /\ Goto(j, "done")
  /\ UNCHANGED <<options, visit>>

Finished == visit[<< >>].pc = "done" /\ UNCHANGED visitVars

VisitStep(v) == Find(v) \/ FindAgain(v) \/ NextFile(v) \/ FileDone(v) \/ WalkDone(v) \/ AllReturned(v)
JobStep(j) ==
  \/ Resolve(j) \/ Chdir(j) \/ ChdirFails(j) \/ Load(j) \/ LoadFails(j) \/ UndefinedEnv(j)
  \/ CallNested(j) \/ NestedReturns(j) \/ NestedFails(j) \/ NestedDone(j)
  \/ ExecuteTemplates(j) \/ TemplatesFail(j) \/ ConvergeFails(j) \/ ChdirBack(j)
  \/ \E processed \in BOOLEAN : Converge(j, processed)

VisitNext == (\E v \in Visits : VisitStep(v)) \/ (\E j \in Jobs : JobStep(j)) \/ Finished
VisitSpec == VisitInit /\ [][VisitNext]_visitVars

\* Every goroutine that can go on does, and none of these steps waits for
\* anything outside the process.
FairVisitSpec ==
  /\ VisitSpec
  /\ \A v \in Visits : WF_visitVars(VisitStep(v))
  /\ \A j \in Jobs : WF_visitVars(JobStep(j))
----------------------------------------------------------------------------
(* Properties                                                                *)

VisitType ==
  [pc : {"idle", "find", "again", "walk", "wait", "done"}, path : Paths \cup {Nowhere}, base : Dirs,
   parallel : BOOLEAN, files : Seq(Files), next : Nat \ {0}, errors : Nat, matches : Nat,
   noMatch : BOOLEAN, result : Results]
JobType ==
  [pc : {"idle", "resolve", "chdir", "load", "subs", "template", "converge", "after", "back", "done"},
   dir : Dirs \cup {Nowhere}, prev : Dirs, read : Files \cup {Nowhere}, at : Dirs \cup {Nowhere},
   sub : Nat \ {0}, noMatchSub : BOOLEAN,
   outcome : {"none", "skipped", "nothing", "processed", "failed"}, failed : BOOLEAN]

VisitTypeOK ==
  /\ options \in Options /\ cwd \in Dirs
  /\ visit \in [Visits -> VisitType] /\ job \in [Jobs -> JobType]
  /\ \A v \in Visits : Len(visit[v].files) <= MaxFiles

Below(c, v)    == Len(c) >= Len(v) /\ SubSeq(c, 1, Len(v)) = v
Returned       == visit[<< >>].pc = "done"
RanConverge(j) == job[j].outcome \in {"nothing", "processed", "failed"}

\* A goroutine does not tell its visit what its nested helmfiles matched.
Heard(j) == \A u \in Visits : Below(j, u) /\ Parallel(u) => VisitOf(j) = u

\* An error anywhere in the tree is what the first call returns: neither the
\* tolerance for nested helmfiles without a match nor a channel loses one, and
\* no error is returned when there was none.  Without an error, the first call
\* says that no release matched exactly if none was processed - not counting, if
\* the files of a call had a goroutine each, the helmfiles these files nest.
OutcomeTold ==
  LET result == visit[<< >>].result IN
  Returned =>
    /\ result = "error" <=>
         \/ \E j \in Jobs : job[j].failed
         \/ \E v \in Visits : visit[v].result = "error"
    /\ result = "ok" <=>
         /\ result # "error"
         /\ \E j \in Jobs : job[j].outcome = "processed" /\ Heard(j)

\* The releases of a file are converged after those of every helmfile nested in
\* it, and before any of them when the walk is in reverse (for a deletion).
NestedFirst ==
  \A j \in Jobs : job[j].read # Nowhere =>
    \A i \in DOMAIN Subs(j) :
      LET v == Child(j, i) IN
      IF options.reverse THEN v \in Visits /\ visit[v].pc # "idle" => RanConverge(j)
      ELSE RanConverge(j) => v \in Visits /\ visit[v].pc = "done" /\ visit[v].result # "error"

\* A call that returned has left nothing running below it: every goroutine and
\* every nested call it started is over.  And every file of the call has been
\* converged unless its environment is not defined: by any call that returned no
\* error, and if each file has a goroutine also when another one failed, up to
\* the errors of the file itself.
CallComplete ==
  \A v \in Visits : visit[v].pc = "done" =>
    /\ \A j \in Jobs : Below(j, v) => job[j].pc \in {"idle", "done"}
    /\ \A w \in Visits : Below(w, v) => visit[w].pc \in {"idle", "done"}
    /\ visit[v].result # "error" \/ Parallel(v) =>
         \A j \in JobsOf(v) : RanConverge(j) \/ job[j].outcome = "skipped" \/ job[j].failed

\* In a walk every file is the one that was found, its releases are converged in
\* its own directory, and the process ends up in the directory it started in.
WalkKeepsDirectory ==
  options.sequential =>
    /\ \A j \in Jobs : job[j].read # Nowhere =>
         job[j].read = Asked(j) /\ job[j].at \in {Nowhere, DirOf[Asked(j)]}
    /\ Returned => cwd = Start

\* The same with a goroutine per file, which the code does not provide for: the
\* file that is loaded is the one that was found.
LoadsFileFound == \A j \in Jobs : job[j].read # Nowhere => job[j].read = Asked(j)

\* The first call returns: no goroutine waits for a full channel, for a nested
\* call that does not return or for one another.
VisitReturns == <>Returned
=============================================================================
