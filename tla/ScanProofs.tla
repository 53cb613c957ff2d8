----------------------------- MODULE ScanProofs -----------------------------
(* What the report and the exit code of helmfile-validate say, for every     *)
(* directory and command line.                                               *)
EXTENDS Scan, FiniteSetTheorems, TLAPS

\* What is known of a file.
LEMMA FileFacts ==
  ASSUME input \in Inputs, NEW f \in Files
  PROVE  /\ File(f).reads \subseteq Files /\ File(f).listed \subseteq Files
         /\ File(f).bases \in Seq(Files) /\ File(f).helmfiles \in Seq(Entry)
         /\ File(f).defaults \in Seq(SUBSET Files)
         /\ File(f).overrides \subseteq Files /\ File(f).values \subseteq Files
         /\ File(f).hooks \subseteq Hooks
         /\ \A c \in File(f).calls : c.fn \in Fns
<1>1. input.file[f] \in FileType
  BY ScanAssumption DEF Input
<1>2. File(f).calls \subseteq Call
  BY <1>1 DEF File, FileType
<1>3. QED BY <1>1, <1>2 DEF File, FileType, Call

\* The elements of a sequence.
LEMMA RangeFacts ==
  ASSUME NEW S, NEW s \in Seq(S)
  PROVE  SeqRange(s) \subseteq S
<1> QED BY DEF SeqRange

\* Reading a file touches files.
LEMMA TouchesFacts ==
  ASSUME input \in Inputs, NEW f \in Files
  PROVE  Touches(f) \subseteq Files
<1> QED BY FileFacts DEF Touches

\* So does loading default values files, as far as it gets.
LEMMA DefaultsFacts ==
  ASSUME input \in Inputs, NEW s \in Seq(SUBSET Files)
  PROVE  DefaultsReached(s) \subseteq Files
<1> SUFFICES ASSUME NEW p \in Reached(s, ValuesLoad), NEW f \in p
             PROVE  Touches(f) \subseteq Files
  BY DEF DefaultsReached
<1>1. p \in SUBSET Files
  BY DEF Reached
<1> QED BY <1>1, TouchesFacts

\* What is opened for a base is a file.
LEMMA OpenedFacts ==
  ASSUME input \in Inputs, NEW b \in Files
  PROVE  Opened(b) \in Files
<1> QED BY ScanAssumption DEF Opened, Input

\* Loading the bases of a file touches files.
LEMMA BasesFacts ==
  ASSUME input \in Inputs, NEW f \in Files
  PROVE  BasesReached(f) \subseteq Files
<1> SUFFICES ASSUME NEW b \in Reached(File(f).bases, BaseLoads)
             PROVE  BaseTouches(b) \subseteq Files
  BY DEF BasesReached
<1>1. b \in Files
  BY FileFacts DEF Reached
<1>2. Opened(b) \in Files
  BY <1>1, OpenedFacts
<1>3. Touches(Opened(b)) \subseteq Files /\ DefaultsReached(File(Opened(b)).defaults) \subseteq Files
  BY <1>2, TouchesFacts, DefaultsFacts, FileFacts
<1> QED BY <1>3 DEF BaseTouches

\* And so does loading a helmfile.
LEMMA LoadFacts ==
  ASSUME input \in Inputs, NEW f \in Files
  PROVE  LoadTouches(f) \subseteq Files /\ LoadFileTouches(f) \subseteq Files
<1>1. DefaultsReached(File(f).defaults) \subseteq Files
  BY DefaultsFacts, FileFacts
<1>2. LoadTouches(f) \subseteq Files
  BY <1>1, BasesFacts DEF LoadTouches
<1> QED BY <1>2, TouchesFacts DEF LoadFileTouches

\* The layers of the loaded state are files, and what they name are files.
LEMMA LayerFacts ==
  ASSUME input \in Inputs, input.main # NoFile
  PROVE  /\ input.main \in Files
         /\ Layers \in Seq(Files)
         /\ MergedHooks \subseteq Hooks
         /\ MergedValues \subseteq Files /\ Overrides \subseteq Files
         /\ MergedEntries \subseteq Entry
<1>1. input.main \in Files
  BY ScanAssumption DEF Input
<1>2. Layers \in Seq(Files)
  <2>1. Main.bases \in Seq(Files)
    BY <1>1, FileFacts DEF Main, File
  <2>2. ASSUME NEW j \in 1..(Len(Main.bases) + 1)
        PROVE  (IF j <= Len(Main.bases) THEN Opened(Main.bases[j]) ELSE input.main) \in Files
    BY <1>1, <2>1, OpenedFacts
  <2>3. Len(Main.bases) + 1 \in Nat
    BY <2>1
  <2> QED BY <2>2, <2>3 DEF Layers
<1>3. SeqRange(Layers) \subseteq Files
  BY <1>2, RangeFacts
<1>4. MergedHooks \subseteq Hooks /\ MergedValues \subseteq Files /\ Overrides \subseteq Files
  BY <1>3, FileFacts DEF MergedHooks, MergedValues, Overrides
<1>5. MergedEntries \subseteq Entry
  BY <1>3, FileFacts, RangeFacts DEF MergedEntries
<1> QED BY <1>1, <1>2, <1>4, <1>5

\* What the entries of `helmfiles` match are files.
LEMMA MatchFacts ==
  ASSUME input \in Inputs, input.main # NoFile
  PROVE  Nested \subseteq Files /\ Globbed \subseteq Files
<1>1. \A e \in Entry : Matches(e) \subseteq Files
  BY DEF Matches, Entry
<1>2. Nested \subseteq Files
  BY <1>1, LayerFacts DEF Nested
<1>3. Globbed \subseteq Files
  <2>1. GlobbedLayers \subseteq DOMAIN Layers
    BY DEF GlobbedLayers
  <2>2. \A k \in DOMAIN Layers : Layers[k] \in Files
    BY LayerFacts
  <2>3. GlobbedEntries \subseteq Entry
    <3> SUFFICES ASSUME NEW k \in GlobbedLayers, NEW e \in Reached(File(Layers[k]).helmfiles, Expands)
                 PROVE  e \in Entry
      BY DEF GlobbedEntries
    <3>1. File(Layers[k]).helmfiles \in Seq(Entry)
      BY <2>1, <2>2, FileFacts
    <3> QED BY <3>1 DEF Reached
  <2> QED BY <2>3, <1>1 DEF Globbed
<1> QED BY <1>2, <1>3

-----------------------------------------------------------------------------
\* A main file has been found wherever its text is needed.
MainFound ==
  phase \notin {"flags", "find", "verdict", "exited"} => input.main # NoFile

ReportInv == ScanTypeOK /\ MainFound /\ CountsExact

\* The type of a step that only records files.
LEMMA Tracking ==
  ASSUME ScanTypeOK, NEW fs \in SUBSET Files, Track(fs),
         UNCHANGED <<input, todo, scanned, seen, usage, exit>>,
         phase' \in Phase, parsed' \in BOOLEAN, loaded' \in BOOLEAN, hooks' \subseteq Hooks
  PROVE  ScanTypeOK'
<1>1. tracked' \subseteq Files /\ tracked \subseteq tracked'
  BY DEF ScanTypeOK, Track
<1>2. seen' \subseteq tracked' /\ scanned' \subseteq seen'
  BY <1>1 DEF ScanTypeOK
<1>3. todo' \subseteq (tracked' \X {"tracked", "helper"})
  BY <1>1 DEF ScanTypeOK
<1> QED BY <1>1, <1>2, <1>3 DEF ScanTypeOK

\* Every step keeps the variables in their types.
LEMMA ScanTypeNext == ScanTypeOK /\ MainFound /\ [ScanNext]_scanVars => ScanTypeOK'
<1> SUFFICES ASSUME ScanTypeOK, MainFound, [ScanNext]_scanVars PROVE ScanTypeOK'
  OBVIOUS
<1>in. input \in Inputs
  BY DEF ScanTypeOK
<1>1. CASE CheckFlags
  BY <1>1 DEF ScanTypeOK, CheckFlags, Enter, Exit, Phase
<1>2. CASE FindHelmfileYaml
  BY <1>2 DEF ScanTypeOK, FindHelmfileYaml, Enter, Phase
<1>m. CASE phase \in {"read", "load", "hooks", "templates", "nested", "values", "collect"}
  <2> USE <1>m, <1>in
  <2>0. input.main # NoFile /\ input.main \in Files
    BY LayerFacts DEF MainFound
  <2>b. UNION {Touches(b) : b \in SeqRange(Main.bases)} \subseteq Files
    <3>1. SeqRange(Main.bases) \subseteq Files
      BY <2>0, FileFacts, RangeFacts DEF Main, File
    <3> QED BY <3>1, TouchesFacts
  <2>1. CASE ReadFails
    <3>1. {input.main} \in SUBSET Files
      BY <2>0
    <3>2. UNCHANGED <<input, todo, scanned, seen, usage, exit>> /\ phase' \in Phase
      BY <2>1 DEF ReadFails, Enter, Phase
    <3>3. parsed' \in BOOLEAN /\ loaded' \in BOOLEAN /\ hooks' \subseteq Hooks
      BY <2>1 DEF ReadFails, ScanTypeOK
    <3> QED BY <2>1, <3>1, <3>2, <3>3, Tracking DEF ReadFails
  <2>2. CASE Parse
    <3> DEFINE fs == {input.main} \cup (IF MainParses THEN UNION {Touches(b) : b \in SeqRange(Main.bases)} ELSE {})
    <3>1. fs \in SUBSET Files
      BY <2>0, <2>b
    <3>2. UNCHANGED <<input, todo, scanned, seen, usage, exit>> /\ phase' \in Phase
      BY <2>2 DEF Parse, Enter, Phase
    <3>p. Main.parses \in BOOLEAN /\ Main.parsesRaw \in BOOLEAN
      BY <2>0, ScanAssumption DEF Main, Input, FileType
    <3>3. parsed' \in BOOLEAN /\ loaded' \in BOOLEAN /\ hooks' \subseteq Hooks
      BY <2>2, <3>p DEF Parse, ScanTypeOK, MainParses
    <3>4. Track(fs)
      BY <2>2 DEF Parse
    <3> QED BY <3>1, <3>2, <3>3, <3>4, Tracking
  <2>3. CASE ParseAndLoad
    <3> DEFINE fs == IF parsed THEN LoadTouches(input.main) ELSE {}
    <3>1. fs \in SUBSET Files
      BY <2>0, LoadFacts
    <3>2. UNCHANGED <<input, todo, scanned, seen, usage, exit>> /\ phase' \in Phase
      BY <2>3 DEF ParseAndLoad, Enter, Phase
    <3>3. parsed' \in BOOLEAN /\ loaded' \in BOOLEAN /\ hooks' \subseteq Hooks
      BY <2>3 DEF ParseAndLoad, ScanTypeOK
    <3>4. Track(fs)
      BY <2>3 DEF ParseAndLoad
    <3> QED BY <3>1, <3>2, <3>3, <3>4, Tracking
  <2>4. CASE CollectHooks
    <3>1. hooks' \subseteq Hooks
      BY <2>4, <2>0, LayerFacts, FileFacts DEF CollectHooks, Main, File
    <3>2. phase' \in Phase
      BY <2>4 DEF CollectHooks, Enter, Phase
    <3> QED BY <2>4, <3>1, <3>2 DEF ScanTypeOK, CollectHooks
  <2>5. CASE TrackTemplates
    <3> DEFINE templates == {e.path : e \in {d \in MergedEntries : d.path # NoFile /\ File(d.path).gotmpl}}
               fs == (UNION {Touches(b) : b \in SeqRange(Main.bases)})
                     \cup (UNION {Touches(t) \cup (IF File(t).present THEN File(t).listed ELSE {}) : t \in templates})
    <3>t. templates \subseteq Files
      BY <2>0, LayerFacts DEF Entry
    <3>l. \A t \in templates : Touches(t) \cup (IF File(t).present THEN File(t).listed ELSE {}) \subseteq Files
      BY <3>t, TouchesFacts, FileFacts
    <3>1. fs \in SUBSET Files
      BY <3>l, <2>b
    <3>2. UNCHANGED <<input, todo, scanned, seen, usage, exit>> /\ phase' \in Phase
      BY <2>5 DEF TrackTemplates, Enter, Phase
    <3>3. parsed' \in BOOLEAN /\ loaded' \in BOOLEAN /\ hooks' \subseteq Hooks
      BY <2>5 DEF TrackTemplates, ScanTypeOK
    <3>4. Track(fs)
      BY <2>5 DEF TrackTemplates
    <3> QED BY <3>1, <3>2, <3>3, <3>4, Tracking
  <2>6. CASE LoadNested
    <3> DEFINE fs == Globbed \cup (IF AllExpand
                                   THEN (UNION {LoadFileTouches(n) : n \in Nested}) \cup Overrides
                                   ELSE {})
    <3>l. \A n \in Nested : LoadFileTouches(n) \subseteq Files
      BY <2>0, MatchFacts, LoadFacts
    <3>1. fs \in SUBSET Files
      BY <2>0, <3>l, MatchFacts, LayerFacts
    <3>2. UNCHANGED <<input, todo, scanned, seen, usage, exit>> /\ phase' \in Phase
      BY <2>6 DEF LoadNested, Enter, Phase
    <3>3. parsed' \in BOOLEAN /\ loaded' \in BOOLEAN /\ hooks' \subseteq Hooks
      BY <2>6 DEF LoadNested, ScanTypeOK
    <3>4. Track(fs)
      BY <2>6 DEF LoadNested
    <3> QED BY <3>1, <3>2, <3>3, <3>4, Tracking
  <2>7. CASE TrackValues
    <3>1. MergedValues \in SUBSET Files
      BY <2>0, LayerFacts
    <3>2. UNCHANGED <<input, todo, scanned, seen, usage, exit>> /\ phase' \in Phase
      BY <2>7 DEF TrackValues, Enter, Phase
    <3>3. parsed' \in BOOLEAN /\ loaded' \in BOOLEAN /\ hooks' \subseteq Hooks
      BY <2>7 DEF TrackValues, ScanTypeOK
    <3> QED BY <2>7, <3>1, <3>2, <3>3, Tracking DEF TrackValues
  <2>8. CASE GetAllFiles
    <3>1. input.helpers \subseteq Files
      BY ScanAssumption DEF Input
    <3>2. tracked' \subseteq Files /\ seen' \subseteq tracked'
      BY <2>8, <3>1 DEF GetAllFiles, Track, ScanTypeOK
    <3>3. todo' \subseteq (tracked' \X {"tracked", "helper"})
      BY <2>8 DEF GetAllFiles, Track
    <3>4. phase' \in Phase
      BY <2>8 DEF GetAllFiles, Enter, Phase
    <3> QED BY <2>8, <3>2, <3>3, <3>4 DEF GetAllFiles, ScanTypeOK
  <2>9. CASE \/ CheckFlags \/ FindHelmfileYaml \/ (\E x \in todo : ScanFile(x)) \/ ScanEnds
             \/ Verdict \/ Exited \/ UNCHANGED scanVars
    <3>1. CASE UNCHANGED scanVars
      BY <3>1 DEF ScanTypeOK, scanVars
    <3>2. CASE CheckFlags \/ FindHelmfileYaml \/ (\E x \in todo : ScanFile(x)) \/ ScanEnds \/ Verdict \/ Exited
      BY <3>2 DEF CheckFlags, FindHelmfileYaml, ScanFile, ScanEnds, Verdict, Exited
    <3> QED BY <2>9, <3>1, <3>2
  <2> QED BY <2>1, <2>2, <2>3, <2>4, <2>5, <2>6, <2>7, <2>8, <2>9 DEF ScanNext
<1>3. ASSUME NEW x \in todo, ScanFile(x) PROVE ScanTypeOK'
  <2>1. x[1] \in tracked /\ todo' \subseteq (tracked \X {"tracked", "helper"})
    BY <1>3 DEF ScanTypeOK, ScanFile
  <2>2. seen' \subseteq tracked /\ scanned' \subseteq seen' /\ tracked' = tracked
    BY <1>3, <2>1 DEF ScanTypeOK, ScanFile
  <2>3. usage' \in [Fns -> [files : SUBSET Files, count : Nat]]
    <3>1. CASE UNCHANGED usage
      BY <3>1 DEF ScanTypeOK
    <3>2. CASE Record(x[1])
      <4>1. x[1] \in Files
        BY <2>1 DEF ScanTypeOK
      <4>2. ASSUME NEW fn \in Fns
            PROVE  [files |-> usage[fn].files \cup {x[1]}, count |-> usage[fn].count + 1]
                     \in [files : SUBSET Files, count : Nat]
        BY <4>1 DEF ScanTypeOK
      <4>3. \A fn \in Fns : usage[fn] \in [files : SUBSET Files, count : Nat]
        BY DEF ScanTypeOK
      <4> QED BY <3>2, <4>2, <4>3 DEF Record
    <3> QED BY <1>3, <3>1, <3>2 DEF ScanFile
  <2> QED BY <1>3, <2>1, <2>2, <2>3 DEF ScanTypeOK, ScanFile
<1>4. CASE ScanEnds \/ Verdict \/ Exited \/ UNCHANGED scanVars
  BY <1>4 DEF ScanTypeOK, ScanEnds, Verdict, Exited, Enter, Exit, Phase, scanVars
<1> QED BY <1>1, <1>2, <1>m, <1>3, <1>4
        DEF ScanNext, ReadFails, Parse, ParseAndLoad, CollectHooks, TrackTemplates, LoadNested, TrackValues, GetAllFiles

\* Nothing has been found at the start.
LEMMA ReportInit == ScanInit => ReportInv
<1> SUFFICES ASSUME ScanInit PROVE ReportInv
  OBVIOUS
<1>1. ScanTypeOK
  <2>1. usage \in [Fns -> [files : SUBSET Files, count : Nat]]
    BY DEF ScanInit, Unused
  <2> QED BY <2>1 DEF ScanInit, ScanTypeOK, Phase
<1>2. MainFound
  BY DEF ScanInit, MainFound
<1>3. CountsExact
  BY FS_EmptySet DEF ScanInit, CountsExact, Unused
<1> QED BY <1>1, <1>2, <1>3 DEF ReportInv

\* A file is looked at once: the counts stay exact.
LEMMA CountsNext == ReportInv /\ [ScanNext]_scanVars => CountsExact'
<1> SUFFICES ASSUME ReportInv, [ScanNext]_scanVars PROVE CountsExact'
  OBVIOUS
<1> USE DEF ReportInv
<1>s. CASE UNCHANGED <<input, usage, scanned>>
  BY <1>s DEF CountsExact, Extract, File
<1>1. ASSUME NEW x \in todo, ScanFile(x), x[1] \notin seen, IsTemplate(x[1]) PROVE CountsExact'
  <2> DEFINE f == x[1]
  <2>1. f \notin scanned /\ scanned' = scanned \cup {f} /\ Record(f) /\ input' = input
    BY <1>1 DEF ScanFile, ScanTypeOK
  <2> SUFFICES ASSUME NEW fn \in Fns
               PROVE  /\ usage'[fn].files = {g \in scanned' : fn \in Extract(g)'}
                      /\ usage'[fn].count = Cardinality(usage'[fn].files)
    BY DEF CountsExact
  <2>2. \A g : Extract(g)' = Extract(g)
    BY <2>1 DEF Extract, File
  <2>3. /\ usage[fn].files = {g \in scanned : fn \in Extract(g)}
        /\ usage[fn].count = Cardinality(usage[fn].files)
    BY DEF CountsExact
  <2>4. CASE fn \in Extract(f)
    <3>1. usage'[fn] = [files |-> usage[fn].files \cup {f}, count |-> usage[fn].count + 1]
      BY <2>1, <2>4 DEF Record
    <3>2. IsFiniteSet(usage[fn].files)
      BY FS_Subset, ScanAssumption DEF ScanTypeOK
    <3>3. f \notin usage[fn].files
      BY <2>1, <2>3
    <3>4. Cardinality(usage[fn].files \cup {f}) = Cardinality(usage[fn].files) + 1
      BY <3>2, <3>3, FS_AddElement
    <3>5. usage[fn].files \cup {f} = {g \in scanned' : fn \in Extract(g)}
      BY <2>1, <2>3, <2>4
    <3>6. usage'[fn].files = usage[fn].files \cup {f} /\ usage'[fn].count = usage[fn].count + 1
      BY <3>1
    <3> QED BY <2>2, <2>3, <3>4, <3>5, <3>6
  <2>5. CASE fn \notin Extract(f)
    <3>1. usage'[fn] = usage[fn]
      BY <2>1, <2>5 DEF Record
    <3>2. {g \in scanned : fn \in Extract(g)} = {g \in scanned' : fn \in Extract(g)}
      BY <2>1, <2>5
    <3> QED BY <2>2, <2>3, <3>1, <3>2
  <2> QED BY <2>4, <2>5
<1>2. ASSUME NEW x \in todo, ScanFile(x) PROVE CountsExact'
  BY <1>1, <1>2, <1>s DEF ScanFile
<1>3. CASE \/ CheckFlags \/ FindHelmfileYaml \/ ReadFails \/ Parse \/ ParseAndLoad \/ CollectHooks
           \/ TrackTemplates \/ LoadNested \/ TrackValues \/ GetAllFiles
           \/ ScanEnds \/ Verdict \/ Exited \/ UNCHANGED scanVars
  BY <1>3, <1>s DEF CheckFlags, FindHelmfileYaml, ReadFails, Parse, ParseAndLoad, CollectHooks,
     TrackTemplates, LoadNested, TrackValues, GetAllFiles, ScanEnds, Verdict, Exited, scanVars
<1> QED BY <1>2, <1>3 DEF ScanNext

\* The text of the main file is only used once it has been found.
LEMMA MainNext == ReportInv /\ [ScanNext]_scanVars => MainFound'
<1> SUFFICES ASSUME ReportInv, [ScanNext]_scanVars PROVE MainFound'
  OBVIOUS
<1> QED
  BY DEF ReportInv, MainFound, ScanNext, scanVars, Enter, Exit, CheckFlags, FindHelmfileYaml, ReadFails,
     Parse, ParseAndLoad, CollectHooks, TrackTemplates, LoadNested, TrackValues, GetAllFiles,
     ScanFile, ScanEnds, Verdict, Exited

(* The report is exact for any directory: each function with the files that  *)
(* call it and their number (usageMap), in whatever order they are read.     *)
THEOREM Report == ScanSpec => [](ScanTypeOK /\ CountsExact)
<1>1. ReportInv /\ [ScanNext]_scanVars => ReportInv'
  BY ScanTypeNext, CountsNext, MainNext DEF ReportInv
<1>2. ReportInv => ScanTypeOK /\ CountsExact
  BY DEF ReportInv
<1> QED BY ReportInit, <1>1, <1>2, PTL DEF ScanSpec

-----------------------------------------------------------------------------
\* The functions the three lists of the report name are those some file calls.
LEMMA FoundFunctions ==
  ASSUME ScanTypeOK, CountsExact
  PROVE  AllFuncs = {fn \in Fns : \E f \in scanned : fn \in Extract(f)}
<1>1. ASSUME NEW fn \in Fns
      PROVE  usage[fn].count > 0 <=> \E f \in scanned : fn \in Extract(f)
  <2>1. /\ usage[fn].files = {f \in scanned : fn \in Extract(f)}
        /\ usage[fn].count = Cardinality(usage[fn].files)
    BY DEF CountsExact
  <2>2. IsFiniteSet(usage[fn].files) /\ usage[fn].count \in Nat
    BY FS_Subset, ScanAssumption DEF ScanTypeOK
  <2>3. usage[fn].count = 0 <=> usage[fn].files = {}
    BY <2>1, <2>2, FS_EmptySet
  <2>4. usage[fn].files # {} <=> \E f \in scanned : fn \in Extract(f)
    BY <2>1
  <2> QED BY <2>2, <2>3, <2>4
<1>2. AllFuncs = {fn \in Fns : usage[fn].count > 0}
  BY ScanAssumption DEF AllFuncs, InCategory
<1> QED BY <1>1, <1>2

\* The exit code is computed from what the files call and the hooks found.
LEMMA VerdictNext == ReportInv /\ VerdictExact /\ [ScanNext]_scanVars => VerdictExact'
<1> SUFFICES ASSUME ReportInv, VerdictExact, [ScanNext]_scanVars PROVE VerdictExact'
  OBVIOUS
<1>1. CASE Verdict
  <2>1. AllFuncs = {fn \in Fns : \E f \in scanned : fn \in Extract(f)}
    BY FoundFunctions DEF ReportInv
  <2>2. \A f \in scanned : Extract(f) \subseteq Fns
    BY FileFacts DEF ReportInv, ScanTypeOK, Extract
  <2>3. ~BothLists => (FunctionsValid <=> ~\E f \in scanned : \E fn \in Extract(f) : Forbidden(fn))
    BY <2>1, <2>2 DEF FunctionsValid, Forbidden, BothLists
  <2>4. HooksValid <=> ~(input.flags.noHooks /\ hooks # {})
    BY DEF HooksValid
  <2>5. UNCHANGED <<input, hooks, scanned>>
    BY <1>1 DEF Verdict
  <2>6. exit' = IF FunctionsValid /\ HooksValid THEN 0 ELSE 1
    BY <1>1 DEF Verdict, Exit
  <2> QED BY <2>3, <2>4, <2>5, <2>6 DEF VerdictExact, BothLists, Extract, Forbidden, File
<1>2. CASE Exited \/ UNCHANGED scanVars
  BY <1>2 DEF VerdictExact, Exited, scanVars, BothLists, Extract, Forbidden, File
<1>3. CASE CheckFlags
  BY <1>3 DEF CheckFlags, VerdictExact, Enter, Exit, BothLists, ReportInv, ScanTypeOK
<1>4. ASSUME phase' # "exited" PROVE VerdictExact'
  BY <1>4 DEF VerdictExact
<1>5. CASE \/ FindHelmfileYaml \/ ReadFails \/ Parse \/ ParseAndLoad \/ CollectHooks
           \/ TrackTemplates \/ LoadNested \/ TrackValues \/ GetAllFiles
           \/ (\E x \in todo : ScanFile(x)) \/ ScanEnds
  BY <1>5, <1>4 DEF FindHelmfileYaml, ReadFails, Parse, ParseAndLoad, CollectHooks,
     TrackTemplates, LoadNested, TrackValues, GetAllFiles, ScanFile, ScanEnds, Enter
<1> QED BY <1>1, <1>2, <1>3, <1>5 DEF ScanNext

(* The exit code is 1 exactly when a file looked at calls a forbidden        *)
(* function or forbidden hooks were found (validateFunctions, validateHooks, *)
(* and how main combines them).                                              *)
THEOREM ExitCode == ScanSpec => []VerdictExact
<1>1. ScanInit => VerdictExact
  BY DEF ScanInit, VerdictExact
<1>2. ReportInv /\ [ScanNext]_scanVars => ReportInv'
  BY ScanTypeNext, CountsNext, MainNext DEF ReportInv
<1> QED BY ReportInit, VerdictNext, <1>1, <1>2, PTL DEF ScanSpec

-----------------------------------------------------------------------------
(* Nothing is let off: what has to be looked at is recorded, and what is     *)
(* recorded is looked at.                                                    *)

Later == {"collect", "scan", "verdict", "exited"}

\* A main file that parses is recorded with the bases it names, and its hooks
\* are kept.
ParsedKept ==
  /\ phase \in {"flags", "find", "read"} => ~parsed
  /\ parsed => input.main # NoFile /\ {input.main} \cup SeqRange(Main.bases) \subseteq tracked
  /\ parsed /\ phase \notin {"load", "hooks"} => Main.hooks \subseteq hooks

\* What a loaded state names is recorded, step by step.
LoadedKept ==
  parsed /\ phase # "load" =>
    /\ loaded <=> Loads(input.main)
    /\ loaded =>
         /\ SeqRange(Layers) \subseteq tracked
         /\ phase # "hooks" => MergedHooks \subseteq hooks
         /\ phase \in {"values"} \cup Later =>
              /\ Globbed \subseteq tracked
              /\ AllExpand => Nested \cup Overrides \subseteq tracked
         /\ phase \in Later => MergedValues \subseteq tracked

\* A file recorded is to be looked at until it has been.
LookedAt ==
  /\ \A f \in seen : IsTemplate(f) => f \in scanned
  /\ phase = "scan" => \A f \in tracked : f \in seen \/ \E kind \in {"tracked", "helper"} : <<f, kind>> \in todo
  /\ phase \in {"verdict", "exited"} /\ parsed => tracked \subseteq seen

KeptInv == ReportInv /\ ParsedKept /\ LoadedKept /\ LookedAt

\* The layers are what was opened for the bases and the main file.
LEMMA LayerRange ==
  ASSUME input \in Inputs, input.main # NoFile
  PROVE  /\ SeqRange(Layers) = {Opened(b) : b \in SeqRange(Main.bases)} \cup {input.main}
         /\ Main.bases \in Seq(Files)
<1>1. Main.bases \in Seq(Files) /\ input.main \in Files
  BY LayerFacts, FileFacts DEF Main, File
<1>2. DOMAIN Layers = 1..(Len(Main.bases) + 1) /\ DOMAIN Main.bases = 1..Len(Main.bases)
      /\ Len(Main.bases) \in Nat
  BY <1>1 DEF Layers
<1>3. \A i \in DOMAIN Layers : Layers[i] = IF i <= Len(Main.bases) THEN Opened(Main.bases[i]) ELSE input.main
  BY <1>2 DEF Layers
<1>4. ASSUME NEW i \in DOMAIN Layers PROVE Layers[i] \in {Opened(b) : b \in SeqRange(Main.bases)} \cup {input.main}
  <2>1. CASE i <= Len(Main.bases)
    BY <1>2, <1>3, <2>1 DEF SeqRange
  <2>2. CASE ~(i <= Len(Main.bases))
    BY <1>3, <2>2
  <2> QED BY <2>1, <2>2
<1>5. ASSUME NEW i \in DOMAIN Main.bases PROVE Opened(Main.bases[i]) \in SeqRange(Layers)
  <2>1. i \in DOMAIN Layers /\ Layers[i] = Opened(Main.bases[i])
    BY <1>2, <1>3
  <2> QED BY <2>1 DEF SeqRange
<1>6. input.main \in SeqRange(Layers)
  <2>1. Len(Main.bases) + 1 \in DOMAIN Layers /\ Layers[Len(Main.bases) + 1] = input.main
    BY <1>2, <1>3
  <2> QED BY <2>1 DEF SeqRange
<1> QED BY <1>1, <1>4, <1>5, <1>6 DEF SeqRange

\* A state that loads has had all its bases opened.
LEMMA LayersTouched ==
  ASSUME input \in Inputs, input.main # NoFile, Loads(input.main)
  PROVE  SeqRange(Layers) \subseteq {input.main} \cup LoadTouches(input.main)
<1>1. ASSUME NEW b \in SeqRange(Main.bases) PROVE Opened(b) \in BasesReached(input.main)
  <2>1. PICK i \in DOMAIN Main.bases : b = Main.bases[i]
    BY DEF SeqRange
  <2>2. Main.bases = File(input.main).bases /\ Main.bases \in Seq(Files)
    BY LayerRange DEF Main, File
  <2>3. \A k \in 1..(i - 1) : BaseLoads(Main.bases[k])
    <3>1. 1..(i - 1) \subseteq DOMAIN Main.bases
      BY <2>2
    <3> QED BY <2>2, <3>1 DEF Loads, BasesLoad, SeqRange
  <2>4. b \in Reached(File(input.main).bases, BaseLoads)
    BY <2>1, <2>2, <2>3 DEF Reached
  <2>5. Opened(b) \in BaseTouches(b)
    BY DEF BaseTouches, Touches
  <2> QED BY <2>4, <2>5 DEF BasesReached
<1> QED BY <1>1, LayerRange DEF LoadTouches

\* The input does not change.
LEMMA SameInput == [ScanNext]_scanVars => input' = input
BY DEF ScanNext, scanVars, CheckFlags, FindHelmfileYaml, ReadFails, Parse, ParseAndLoad, CollectHooks,
   TrackTemplates, LoadNested, TrackValues, GetAllFiles, ScanFile, ScanEnds, Verdict, Exited

\* The layers follow from the input.
LEMMA SameLayers ==
  ASSUME input' = input
  PROVE  /\ SeqRange(Layers)' = SeqRange(Layers) /\ Main' = Main
         /\ (AllExpand' <=> AllExpand) /\ (Loads(input.main)' <=> Loads(input.main))
         /\ MergedHooks' = MergedHooks /\ Globbed' = Globbed
         /\ Nested' = Nested /\ Overrides' = Overrides /\ MergedValues' = MergedValues
         /\ \A f : IsTemplate(f)' <=> IsTemplate(f)
BY DEF Layers, Opened, Main, File, AllExpand, MergedEntries, Expands, Matches, Nested, Overrides, MergedValues,
   IsTemplate, SeqRange, MergedHooks, Globbed, GlobbedEntries, GlobbedLayers, Reached,
   Loads, BasesLoad, BaseLoads, BaseParses, DefaultsLoad, ValuesLoad, Renders

\* Recorded files stay recorded.
LEMMA TrackedStays == [ScanNext]_scanVars => tracked \subseteq tracked'
BY DEF ScanNext, scanVars, Track, CheckFlags, FindHelmfileYaml, ReadFails, Parse, ParseAndLoad, CollectHooks,
   TrackTemplates, LoadNested, TrackValues, GetAllFiles, ScanFile, ScanEnds, Verdict, Exited

\* The phases follow each other, and those between the loading and the
\* collection are skipped without a loaded state.
LEMMA Phases ==
  ASSUME [ScanNext]_scanVars, phase' # phase
  PROVE  \/ phase = "flags" /\ phase' \in {"find", "exited"} /\ CheckFlags
         \/ phase = "find" /\ phase' \in {"read", "verdict"} /\ FindHelmfileYaml
         \/ phase = "read" /\ phase' = "verdict" /\ ReadFails
         \/ phase = "read" /\ phase' = "load" /\ Parse
         \/ phase = "load" /\ phase' = "hooks" /\ ParseAndLoad
         \/ phase = "hooks" /\ phase' = (IF loaded THEN "templates" ELSE "collect") /\ CollectHooks
         \/ phase = "templates" /\ phase' = "nested" /\ TrackTemplates
         \/ phase = "nested" /\ phase' = "values" /\ LoadNested
         \/ phase = "values" /\ phase' = "collect" /\ TrackValues
         \/ phase = "collect" /\ phase' = "scan" /\ GetAllFiles
         \/ phase = "scan" /\ phase' = "verdict" /\ ScanEnds
         \/ phase = "verdict" /\ phase' = "exited" /\ Verdict
BY DEF ScanNext, scanVars, Enter, Exit, CheckFlags, FindHelmfileYaml, ReadFails, Parse, ParseAndLoad, CollectHooks,
   TrackTemplates, LoadNested, TrackValues, GetAllFiles, ScanFile, ScanEnds, Verdict, Exited

\* A step within a phase looks at a file, or does nothing.
LEMMA WithinPhase ==
  ASSUME [ScanNext]_scanVars, phase' = phase
  PROVE  /\ parsed' = parsed /\ loaded' = loaded /\ hooks' = hooks /\ tracked' = tracked
         /\ \/ UNCHANGED <<todo, seen, scanned>>
            \/ phase = "scan" /\ \E x \in todo : ScanFile(x)
BY DEF ScanNext, scanVars, Enter, Exit, CheckFlags, FindHelmfileYaml, ReadFails, Parse, ParseAndLoad, CollectHooks,
   TrackTemplates, LoadNested, TrackValues, GetAllFiles, ScanFile, ScanEnds, Verdict, Exited

\* Reading a file touches it.
LEMMA TouchesItself == \A f : f \in Touches(f) /\ f \in LoadFileTouches(f)
BY DEF Touches, LoadFileTouches

\* Every step keeps what is known of the main file.
LEMMA ParsedNext ==
  ASSUME KeptInv, [ScanNext]_scanVars
  PROVE  ParsedKept'
<1>0. /\ input' = input /\ input \in Inputs /\ tracked \subseteq tracked'
      /\ SeqRange(Layers)' = SeqRange(Layers) /\ Main' = Main
  BY SameInput, SameLayers, TrackedStays DEF KeptInv, ReportInv, ScanTypeOK
<1> USE <1>0 DEF KeptInv, ParsedKept
<1>1. CASE phase' = phase
  BY <1>1, WithinPhase
<1>2. CASE phase' \in {"find", "exited"} /\ CheckFlags
  BY <1>2 DEF CheckFlags
<1>3. CASE phase' \in {"read", "verdict"} /\ FindHelmfileYaml
  BY <1>3 DEF FindHelmfileYaml
<1>4. CASE phase' = "verdict" /\ ReadFails
  BY <1>4 DEF ReadFails
<1>5. CASE phase' = "load" /\ Parse
  <2>1. input.main # NoFile
    BY <1>5 DEF Parse, ReportInv, MainFound
  <2>2. parsed' => {input.main} \cup UNION {Touches(b) : b \in SeqRange(Main.bases)} \subseteq tracked'
    BY <1>5 DEF Parse, Track
  <2>3. parsed' => {input.main} \cup SeqRange(Main.bases) \subseteq tracked'
    BY <2>2, TouchesItself
  <2> QED BY <1>5, <2>1, <2>3
<1>6. CASE phase' = "hooks" /\ ParseAndLoad
  BY <1>6 DEF ParseAndLoad
<1>7. CASE phase' = (IF loaded THEN "templates" ELSE "collect") /\ CollectHooks
  <2>1. parsed' = parsed /\ hooks' = (IF loaded THEN MergedHooks ELSE IF parsed THEN Main.hooks ELSE {})
        /\ phase = "hooks"
    BY <1>7 DEF CollectHooks
  <2>2. input.main # NoFile => Main.hooks \subseteq MergedHooks
    <3>1. input.main # NoFile => input.main \in SeqRange(Layers)
      BY LayerRange
    <3> QED BY <3>1 DEF MergedHooks, Main, File
  <2> QED BY <1>7, <2>1, <2>2
<1>8. CASE \/ phase' = "nested" /\ TrackTemplates
           \/ phase' = "values" /\ LoadNested
           \/ phase' = "collect" /\ TrackValues
           \/ phase' = "scan" /\ GetAllFiles
  BY <1>8 DEF TrackTemplates, LoadNested, TrackValues, GetAllFiles
<1>9. CASE \/ phase' = "verdict" /\ ScanEnds
           \/ phase' = "exited" /\ Verdict
  BY <1>9 DEF ScanEnds, Verdict
<1> QED BY <1>1, <1>2, <1>3, <1>4, <1>5, <1>6, <1>7, <1>8, <1>9, Phases

\* Every step keeps what is known of the files a loaded state names.
LEMMA LoadedNext ==
  ASSUME KeptInv, [ScanNext]_scanVars
  PROVE  LoadedKept'
<1>0. /\ input' = input /\ tracked \subseteq tracked' /\ (AllExpand' <=> AllExpand)
      /\ SeqRange(Layers)' = SeqRange(Layers) /\ (Loads(input.main)' <=> Loads(input.main))
      /\ MergedHooks' = MergedHooks /\ Globbed' = Globbed
      /\ Nested' = Nested /\ Overrides' = Overrides /\ MergedValues' = MergedValues
  BY SameInput, SameLayers, TrackedStays
<1> USE <1>0 DEF KeptInv, LoadedKept, Later
<1>1. CASE phase' = phase
  BY <1>1, WithinPhase
<1>2. CASE phase' \in {"find", "exited"} /\ CheckFlags
  BY <1>2 DEF CheckFlags, ParsedKept
<1>3. CASE phase' \in {"read", "verdict"} /\ FindHelmfileYaml
  BY <1>3 DEF FindHelmfileYaml, ParsedKept
<1>4. CASE phase' = "verdict" /\ ReadFails
  BY <1>4 DEF ReadFails, ParsedKept
<1>5. CASE phase' = "load"
  BY <1>5
<1>6. CASE phase = "load" /\ phase' = "hooks" /\ ParseAndLoad
  <2>1. parsed' = parsed /\ (parsed => (loaded' <=> Loads(input.main)))
    BY <1>6 DEF ParseAndLoad
  <2>2. parsed /\ loaded' => SeqRange(Layers) \subseteq tracked'
    <3>1. parsed => {input.main} \cup LoadTouches(input.main) \subseteq tracked'
      BY <1>6 DEF ParseAndLoad, Track, ParsedKept
    <3> QED BY <2>1, <3>1, LayersTouched DEF ParsedKept, ReportInv, ScanTypeOK
  <2> QED BY <1>6, <2>1, <2>2
<1>7. CASE phase = "hooks" /\ phase' = (IF loaded THEN "templates" ELSE "collect") /\ CollectHooks
  <2>1. UNCHANGED <<parsed, loaded>> /\ (loaded => hooks' = MergedHooks)
    BY <1>7 DEF CollectHooks
  <2> QED BY <1>7, <2>1
<1>8. CASE phase = "templates" /\ phase' = "nested" /\ TrackTemplates
  BY <1>8 DEF TrackTemplates
<1>9. CASE phase = "nested" /\ phase' = "values" /\ LoadNested
  <2>1. Globbed \subseteq tracked'
        /\ (AllExpand => (UNION {LoadFileTouches(n) : n \in Nested}) \cup Overrides \subseteq tracked')
    BY <1>9 DEF LoadNested, Track
  <2>2. AllExpand => Nested \cup Overrides \subseteq tracked'
    BY <2>1, TouchesItself
  <2>3. UNCHANGED <<parsed, loaded, hooks>>
    BY <1>9 DEF LoadNested
  <2> QED BY <1>9, <2>1, <2>2, <2>3
<1>10. CASE phase = "values" /\ phase' = "collect" /\ TrackValues
  BY <1>10 DEF TrackValues, Track
<1>11. CASE phase = "collect" /\ phase' = "scan" /\ GetAllFiles
  BY <1>11 DEF GetAllFiles
<1>12. CASE \/ phase = "scan" /\ phase' = "verdict" /\ ScanEnds
            \/ phase = "verdict" /\ phase' = "exited" /\ Verdict
  BY <1>12 DEF ScanEnds, Verdict
<1> QED BY <1>1, <1>2, <1>3, <1>4, <1>5, <1>6, <1>7, <1>8, <1>9, <1>10, <1>11, <1>12, Phases

\* Every step keeps the files to be looked at, until they have been.
LEMMA LookedNext ==
  ASSUME KeptInv, [ScanNext]_scanVars
  PROVE  LookedAt'
<1>0. \A f : IsTemplate(f)' <=> IsTemplate(f)
  BY SameInput, SameLayers
<1> USE <1>0 DEF KeptInv, LookedAt
<1>1. CASE phase' = phase /\ UNCHANGED <<todo, seen, scanned>>
  BY <1>1, WithinPhase
<1>2. ASSUME phase' = phase, phase = "scan", NEW x \in todo, ScanFile(x) PROVE LookedAt'
  <2>1. /\ todo' = todo \ {x} /\ seen' = seen \cup {x[1]} /\ tracked' = tracked
        /\ IF x[1] \notin seen /\ IsTemplate(x[1]) THEN scanned' = scanned \cup {x[1]} ELSE scanned' = scanned
    BY <1>2 DEF ScanFile
  <2>2. \A f, kind : <<f, kind>> = x => f = x[1]
    OBVIOUS
  <2>3. ASSUME NEW f \in tracked, f \notin seen'
        PROVE  \E kind \in {"tracked", "helper"} : <<f, kind>> \in todo'
    BY <1>2, <2>1, <2>2, <2>3
  <2>4. \A f \in seen' : IsTemplate(f) => f \in scanned'
    BY <2>1
  <2> QED BY <1>2, <2>1, <2>3, <2>4
<1>3. CASE \/ phase' \in {"find", "exited"} /\ CheckFlags
           \/ phase' \in {"read", "verdict"} /\ FindHelmfileYaml
           \/ phase' = "verdict" /\ ReadFails
  BY <1>3 DEF CheckFlags, FindHelmfileYaml, ReadFails, ParsedKept
<1>4. CASE \/ phase' = "load" /\ Parse
           \/ phase' = "hooks" /\ ParseAndLoad
           \/ phase' = (IF loaded THEN "templates" ELSE "collect") /\ CollectHooks
           \/ phase' = "nested" /\ TrackTemplates
           \/ phase' = "values" /\ LoadNested
           \/ phase' = "collect" /\ TrackValues
  BY <1>4 DEF Parse, ParseAndLoad, CollectHooks, TrackTemplates, LoadNested, TrackValues
<1>5. CASE phase' = "scan" /\ GetAllFiles
  <2>1. tracked' = tracked \cup input.helpers /\ UNCHANGED <<seen, scanned>>
        /\ todo' = {<<f, "tracked">> : f \in tracked} \cup {<<f, "helper">> : f \in input.helpers}
    BY <1>5 DEF GetAllFiles, Track
  <2> QED BY <1>5, <2>1
<1>6. CASE phase = "scan" /\ phase' = "verdict" /\ ScanEnds
  BY <1>6 DEF ScanEnds
<1>7. CASE phase = "verdict" /\ phase' = "exited" /\ Verdict
  BY <1>7 DEF Verdict
<1> QED BY <1>1, <1>2, <1>3, <1>4, <1>5, <1>6, <1>7, Phases, WithinPhase

(* What a main helmfile that parses names is looked at, for any directory    *)
(* and command line, as far as SurvivesFailures says: its bases whatever     *)
(* fails; what the merged state names if its bases and default values load,  *)
(* whichever nested helmfiles fail (scanDirectoryUsingStateCreator of        *)
(* main.go and the trackers it calls).                                       *)
THEOREM NothingHidden == ScanSpec => []SurvivesFailures
<1>1. ScanInit => KeptInv
  <2> SUFFICES ASSUME ScanInit PROVE KeptInv
    OBVIOUS
  <2> QED BY ReportInit DEF ScanInit, KeptInv, ParsedKept, LoadedKept, LookedAt
<1>2. KeptInv /\ [ScanNext]_scanVars => KeptInv'
  <2> SUFFICES ASSUME KeptInv, [ScanNext]_scanVars PROVE KeptInv'
    OBVIOUS
  <2> QED BY ScanTypeNext, CountsNext, MainNext, ParsedNext, LoadedNext, LookedNext DEF KeptInv, ReportInv
<1>3. KeptInv => SurvivesFailures
  <2> SUFFICES ASSUME KeptInv, Scanned, parsed PROVE
        /\ Main.hooks \subseteq hooks
        /\ \A f \in {input.main} \cup SeqRange(Main.bases) : IsTemplate(f) => f \in scanned
        /\ Loads(input.main) =>
             /\ MergedHooks \subseteq hooks
             /\ \A f \in SeqRange(Layers) \cup Globbed \cup MergedValues : IsTemplate(f) => f \in scanned
             /\ AllExpand => \A f \in Nested \cup Overrides : IsTemplate(f) => f \in scanned
    BY DEF SurvivesFailures
  <2>1. phase \in {"verdict", "exited"}
    BY DEF Scanned
  <2>2. Main.hooks \subseteq hooks /\ {input.main} \cup SeqRange(Main.bases) \subseteq tracked
    BY <2>1 DEF KeptInv, ParsedKept
  <2>3. Loads(input.main) =>
          /\ MergedHooks \subseteq hooks
          /\ SeqRange(Layers) \cup Globbed \cup MergedValues \subseteq tracked
          /\ AllExpand => Nested \cup Overrides \subseteq tracked
    BY <2>1 DEF KeptInv, LoadedKept, Later
  <2>4. \A f \in tracked : IsTemplate(f) => f \in scanned
    BY <2>1 DEF KeptInv, LookedAt
  <2> QED BY <2>2, <2>3, <2>4
<1> QED BY <1>1, <1>2, <1>3, PTL DEF ScanSpec
=============================================================================
