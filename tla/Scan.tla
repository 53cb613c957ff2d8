-------------------------------- MODULE Scan --------------------------------
(***************************************************************************)
(* helmfile-validate itself (main.go): find the main helmfile, render and  *)
(* parse it, load it with helmfile's own StateCreator over a file system   *)
(* that records every file it reads, read the files the loaded state       *)
(* lists, look for template functions in each file recorded, and turn the  *)
(* functions and hooks found into an exit code.                            *)
(*                                                                         *)
(* A file is known by its absolute path.  Its text is abstracted to what   *)
(* the program learns of it (FileType).  Any part of loading may fail, and *)
(* each failure skips another part of the work: which files are looked at  *)
(* depends on it, and so may the verdict.  The files recorded are a Go map *)
(* and are looked at in any order.                                         *)
(***************************************************************************)
EXTENDS Naturals, FiniteSets, Sequences

CONSTANTS
  Files,
  Fns,        \* template functions, keywords included
  Keywords,   \* those extractFunctions leaves out
  Category,   \* "helmfile", "sprig" or "unknown" for each function
  Hooks,
  NoFile,     \* no file
  Inputs      \* the command lines and directories to consider, see InputType

Call == [fn : Fns, commented : BOOLEAN]

\* An entry of `helmfiles`: a path, or a pattern and the files it matches.
Entry == [path : Files \cup {NoFile}, matches : SUBSET Files]

FileType ==
  [present   : BOOLEAN,
   scannable : BOOLEAN,        \* extension .yaml, .yml, .gotmpl or .tpl
   gotmpl    : BOOLEAN,        \* extension .gotmpl
   template  : BOOLEAN,        \* contains {{ and }}
   calls     : SUBSET Call,
   renders   : BOOLEAN,        \* it can be rendered without values
   reads     : SUBSET Files,   \* read by the functions it calls when rendered
   listed    : SUBSET Files,   \* in the directories D of the calls readDir "D"
   parses    : BOOLEAN,        \* as YAML, once rendered where it has to be
   parsesRaw : BOOLEAN,        \* as YAML, as it stands
   bases     : Seq(Files),     \* written relative to the directory
   helmfiles : Seq(Entry),
   defaults  : Seq(SUBSET Files),  \* the entries of `values`, what each matches
   overrides : SUBSET Files,   \* values files of the entries of `helmfiles`
   values    : SUBSET Files,   \* values and secrets files of the releases
   hooks     : SUBSET Hooks]   \* of the state and of its releases

\* A list may be given and name nothing (",").
List  == [given : BOOLEAN, names : SUBSET Fns]
Flags == [black : List, white : List, noHooks : BOOLEAN, list : BOOLEAN, dirOk : BOOLEAN]

\* asBase: the file the path of a base names in the working directory, which is
\* the base itself when that is the directory scanned or the path is absolute,
\* else a file that happens to have its name or one that is not there.
\* lenient: the state's missingFileHandler is set and not "Error".
Input == [main : Files \cup {NoFile}, helpers : SUBSET Files, asBase : [Files -> Files],
          lenient : BOOLEAN, flags : Flags, file : [Files -> FileType]]

ASSUME ScanAssumption ==
  /\ IsFiniteSet(Files)
  /\ NoFile \notin Files
  /\ Keywords \subseteq Fns
  /\ Category \in [Fns -> {"helmfile", "sprig", "unknown"}]
  /\ Inputs \subseteq Input

VARIABLES
  input,    \* the command line and the directory; never changes
  phase,
  parsed,   \* parsedState is there
  loaded,   \* ParseAndLoad has succeeded
  hooks,    \* result.Hooks
  tracked,  \* the files the tracking file system has recorded
  todo,     \* the rest of allFiles: paths, and where they come from
  scanned,  \* seenFiles that had template syntax: result.FilesScanned
  seen,     \* seenFiles
  usage,    \* usageMap
  exit      \* the exit code

scanVars == <<input, phase, parsed, loaded, hooks, tracked, todo, scanned, seen, usage, exit>>

Phase == {"flags", "find", "read", "load", "hooks", "templates", "nested", "values",
          "collect", "scan", "verdict", "exited"}

File(f)  == input.file[f]
Main     == input.file[input.main]
Unused   == [files |-> {}, count |-> 0]
SeqRange(s) == {s[i] : i \in DOMAIN s}

ScanInit ==
  /\ input \in Inputs
  /\ phase = "flags"
  /\ parsed = FALSE /\ loaded = FALSE
  /\ hooks = {}
  /\ tracked = {} /\ todo = {} /\ scanned = {} /\ seen = {}
  /\ usage = [fn \in Fns |-> Unused]
  /\ exit = 0

-----------------------------------------------------------------------------
(* Loading.  A loop that returns at the first error reaches the elements    *)
(* of s before it, and that one.                                            *)
Reached(s, Good(_)) == {s[i] : i \in {j \in DOMAIN s : \A k \in 1..(j - 1) : Good(s[k])}}

\* Rendering and reading a file through the tracking file system.
Touches(f) == {f} \cup (IF File(f).gotmpl /\ File(f).present THEN File(f).reads ELSE {})
Renders(f) == File(f).present /\ (File(f).gotmpl => File(f).renders)

\* LoadEnvValues: the default values files.  The environment is named "",
\* and no environment values file is looked up.
ValuesLoad(pattern)  == pattern # {} /\ \A f \in pattern : Renders(f) /\ File(f).parses
DefaultsReached(s)   == UNION {UNION {Touches(f) : f \in pattern} : pattern \in Reached(s, ValuesLoad)}
DefaultsLoad(s)      == \A pattern \in SeqRange(s) : ValuesLoad(pattern)

\* loadBases gives LoadFile the path as it is written: it names a file of the
\* working directory.  A base of a base is refused.
Opened(b)     == input.asBase[b]
BaseParses(b) == Renders(Opened(b)) /\ File(Opened(b)).parses /\ File(Opened(b)).bases = <<>>
BaseLoads(b)  == BaseParses(b) /\ DefaultsLoad(File(Opened(b)).defaults)
BaseTouches(b) ==
  Touches(Opened(b)) \cup (IF BaseParses(b) THEN DefaultsReached(File(Opened(b)).defaults) ELSE {})
BasesLoad(f)    == \A b \in SeqRange(File(f).bases) : BaseLoads(b)
BasesReached(f) == UNION {BaseTouches(b) : b \in Reached(File(f).bases, BaseLoads)}

\* ParseAndLoad of a text that parses: the bases, then the default values of
\* the merged state (those of the bases have been read by then).
Loads(f) == BasesLoad(f) /\ DefaultsLoad(File(f).defaults)
LoadTouches(f) ==
  BasesReached(f) \cup (IF BasesLoad(f) THEN DefaultsReached(File(f).defaults) ELSE {})

\* LoadFile of a nested helmfile: only what it reads is of interest.
LoadFileTouches(f) ==
  Touches(f) \cup (IF Renders(f) /\ File(f).parses THEN LoadTouches(f) ELSE {})

\* The loaded state: what was opened for the bases, then the main file, merged.
Layers ==
  [j \in 1..(Len(Main.bases) + 1) |->
     IF j <= Len(Main.bases) THEN Opened(Main.bases[j]) ELSE input.main]
MergedHooks   == UNION {File(f).hooks : f \in SeqRange(Layers)}
MergedValues  == UNION {File(f).values : f \in SeqRange(Layers)}
MergedEntries == UNION {SeqRange(File(f).helmfiles) : f \in SeqRange(Layers)}
Overrides     == UNION {File(f).overrides : f \in SeqRange(Layers)}

\* ExpandedHelmfiles returns at the first entry without a match.
Matches(e) == {f \in (IF e.path = NoFile THEN e.matches ELSE {e.path}) : File(f).present}
Expands(e) == Matches(e) # {} \/ input.lenient
AllExpand  == \A e \in MergedEntries : Expands(e)
Nested     == UNION {Matches(e) : e \in MergedEntries}
GlobbedLayers  ==
  {j \in DOMAIN Layers : \A i \in 1..(j - 1) : \A e \in SeqRange(File(Layers[i]).helmfiles) : Expands(e)}
GlobbedEntries == UNION {Reached(File(Layers[k]).helmfiles, Expands) : k \in GlobbedLayers}
Globbed        == UNION {Matches(e) : e \in GlobbedEntries}

\* The text the program goes on with is the file as it stands when the first
\* pass cannot render it.
MainParses ==
  IF (Main.gotmpl \/ Main.template) /\ ~Main.renders THEN Main.parsesRaw ELSE Main.parses

\* extractFunctions, and the files it is applied to.
Extract(f)    == {c.fn : c \in {d \in File(f).calls : ~d.commented}} \ Keywords
IsTemplate(f) == File(f).scannable /\ File(f).present /\ File(f).template

-----------------------------------------------------------------------------
Track(fs) == tracked' = tracked \cup fs
Enter(p)  == phase' = p
Exit(code) == exit' = code /\ Enter("exited")

BothLists == input.flags.black.given /\ input.flags.white.given

CheckFlags ==
  /\ phase = "flags"
  /\ \/ BothLists /\ Exit(2)
     \/ ~BothLists /\ input.flags.list /\ Exit(0)
     \/ ~BothLists /\ ~input.flags.list /\ ~input.flags.dirOk /\ Exit(1)
     \/ ~BothLists /\ ~input.flags.list /\ input.flags.dirOk /\ Enter("find") /\ UNCHANGED exit
  /\ UNCHANGED <<input, parsed, loaded, hooks, tracked, todo, scanned, seen, usage>>

\* No main file: the result stays empty.
FindHelmfileYaml ==
  /\ phase = "find"
  /\ Enter(IF input.main = NoFile THEN "verdict" ELSE "read")
  /\ UNCHANGED <<input, parsed, loaded, hooks, tracked, todo, scanned, seen, usage, exit>>

\* It has been found, and may be unreadable all the same.
ReadFails ==
  /\ phase = "read"
  /\ ~Main.present
  /\ Enter("verdict")
  /\ Track({input.main})
  /\ UNCHANGED <<input, parsed, loaded, hooks, todo, scanned, seen, usage, exit>>

\* Read, render and parse the main file; record the bases it names.
Parse ==
  /\ phase = "read"
  /\ Main.present
  /\ parsed' = MainParses
  /\ Track({input.main} \cup (IF MainParses THEN UNION {Touches(b) : b \in SeqRange(Main.bases)} ELSE {}))
  /\ Enter("load")
  /\ UNCHANGED <<input, loaded, hooks, todo, scanned, seen, usage, exit>>

\* Any error leaves no loaded state at all.
ParseAndLoad ==
  /\ phase = "load"
  /\ loaded' = (parsed /\ Loads(input.main))
  /\ Track(IF parsed THEN LoadTouches(input.main) ELSE {})
  /\ Enter("hooks")
  /\ UNCHANGED <<input, parsed, hooks, todo, scanned, seen, usage, exit>>

\* Seeded bug: only a loaded state has hooks.
CollectHooksOfLoaded ==
  /\ phase = "hooks"
  /\ hooks' = IF loaded THEN MergedHooks ELSE {}
  /\ Enter(IF loaded THEN "templates" ELSE "collect")
  /\ UNCHANGED <<input, parsed, loaded, tracked, todo, scanned, seen, usage, exit>>

\* stateForHooks is the loaded state or, failing that, the parsed one.
CollectHooks ==
  /\ phase = "hooks"
  /\ hooks' = IF loaded THEN MergedHooks ELSE IF parsed THEN Main.hooks ELSE {}
  /\ Enter(IF loaded THEN "templates" ELSE "collect")
  /\ UNCHANGED <<input, parsed, loaded, tracked, todo, scanned, seen, usage, exit>>

\* The bases once more, and the files a nested helmfile lists with readDir.
TrackTemplates ==
  /\ phase = "templates"
  /\ LET templates == {e.path : e \in {d \in MergedEntries : d.path # NoFile /\ File(d.path).gotmpl}}
     IN Track((UNION {Touches(b) : b \in SeqRange(Main.bases)})
              \cup (UNION {Touches(t) \cup (IF File(t).present THEN File(t).listed ELSE {}) : t \in templates}))
  /\ Enter("nested")
  /\ UNCHANGED <<input, parsed, loaded, hooks, todo, scanned, seen, usage, exit>>

\* Each nested helmfile is loaded, or read when that fails.
LoadNested ==
  /\ phase = "nested"
  /\ Track(Globbed \cup (IF AllExpand
                         THEN (UNION {LoadFileTouches(n) : n \in Nested}) \cup Overrides
                         ELSE {}))
  /\ Enter("values")
  /\ UNCHANGED <<input, parsed, loaded, hooks, todo, scanned, seen, usage, exit>>

TrackValues ==
  /\ phase = "values"
  /\ Track(MergedValues)
  /\ Enter("collect")
  /\ UNCHANGED <<input, parsed, loaded, hooks, todo, scanned, seen, usage, exit>>

\* GetAllFiles, then the helper templates the pattern _*.tpl matches: a file
\* may be listed twice.
GetAllFiles ==
  /\ phase = "collect"
  /\ todo' = {<<f, "tracked">> : f \in tracked} \cup {<<f, "helper">> : f \in input.helpers}
  /\ Track(input.helpers)
  /\ Enter("scan")
  /\ UNCHANGED <<input, parsed, loaded, hooks, scanned, seen, usage, exit>>

Record(f) ==
  usage' = [fn \in Fns |->
              IF fn \in Extract(f)
              THEN [files |-> usage[fn].files \cup {f}, count |-> usage[fn].count + 1]
              ELSE usage[fn]]

\* Seeded bug: a file looked at is not entered in seenFiles.
ScanFileUnmarked(x) ==
  /\ phase = "scan" /\ x \in todo
  /\ x[2] = "helper" => \A y \in todo : y[2] = "helper"
  /\ todo' = todo \ {x}
  /\ IF x[1] \notin seen /\ IsTemplate(x[1])
     THEN scanned' = scanned \cup {x[1]} /\ Record(x[1])
     ELSE UNCHANGED <<scanned, usage>>
  /\ UNCHANGED <<input, phase, parsed, loaded, hooks, tracked, seen, exit>>

ScanFile(x) ==
  /\ phase = "scan" /\ x \in todo
  /\ x[2] = "helper" => \A y \in todo : y[2] = "helper"
  /\ todo' = todo \ {x}
  /\ seen' = seen \cup {x[1]}
  /\ IF x[1] \notin seen /\ IsTemplate(x[1])
     THEN scanned' = scanned \cup {x[1]} /\ Record(x[1])
     ELSE UNCHANGED <<scanned, usage>>
  /\ UNCHANGED <<input, phase, parsed, loaded, hooks, tracked, exit>>

ScanEnds ==
  /\ phase = "scan" /\ todo = {}
  /\ Enter("verdict")
  /\ UNCHANGED <<input, parsed, loaded, hooks, tracked, todo, scanned, seen, usage, exit>>

\* The functions of result.HelmfileFunctions, SprigFunctions, UnknownFunctions.
InCategory(c) == {fn \in Fns : usage[fn].count > 0 /\ Category[fn] = c}
AllFuncs      == InCategory("helmfile") \cup InCategory("sprig") \cup InCategory("unknown")

FunctionsValid ==
  CASE input.flags.black.given -> AllFuncs \cap input.flags.black.names = {}
    [] ~input.flags.black.given /\ input.flags.white.given -> AllFuncs \subseteq input.flags.white.names
    [] OTHER -> TRUE
HooksValid == input.flags.noHooks => hooks = {}

\* Seeded bug: the check of the hooks replaces that of the functions.
VerdictOfHooks ==
  /\ phase = "verdict"
  /\ Exit(IF (IF input.flags.noHooks THEN HooksValid ELSE FunctionsValid) THEN 0 ELSE 1)
  /\ UNCHANGED <<input, parsed, loaded, hooks, tracked, todo, scanned, seen, usage>>

Verdict ==
  /\ phase = "verdict"
  /\ Exit(IF FunctionsValid /\ HooksValid THEN 0 ELSE 1)
  /\ UNCHANGED <<input, parsed, loaded, hooks, tracked, todo, scanned, seen, usage>>

Exited == phase = "exited" /\ UNCHANGED scanVars

ScanNext ==
  \/ CheckFlags \/ FindHelmfileYaml \/ ReadFails \/ Parse \/ ParseAndLoad \/ CollectHooks
  \/ TrackTemplates \/ LoadNested \/ TrackValues \/ GetAllFiles
  \/ \E x \in todo : ScanFile(x)
  \/ ScanEnds \/ Verdict \/ Exited

ScanSpec == ScanInit /\ [][ScanNext]_scanVars

-----------------------------------------------------------------------------
ScanTypeOK ==
  /\ input \in Inputs
  /\ phase \in Phase
  /\ parsed \in BOOLEAN /\ loaded \in BOOLEAN
  /\ hooks \subseteq Hooks
  /\ tracked \subseteq Files /\ scanned \subseteq seen /\ seen \subseteq tracked
  /\ todo \subseteq (tracked \X {"tracked", "helper"})
  /\ usage \in [Fns -> [files : SUBSET Files, count : Nat]]
  /\ exit \in {0, 1, 2}

(* The report of a function lists exactly the files looked at that call it,  *)
(* in whatever order the map of recorded files is iterated, and its count is *)
(* the number of these files, not of the calls in them: a helper template    *)
(* listed a second time is not counted again.                                *)
CountsExact ==
  \A fn \in Fns :
    /\ usage[fn].files = {f \in scanned : fn \in Extract(f)}
    /\ usage[fn].count = Cardinality(usage[fn].files)

Forbidden(fn) ==
  \/ input.flags.black.given /\ fn \in input.flags.black.names
  \/ ~input.flags.black.given /\ input.flags.white.given /\ fn \notin input.flags.white.names

(* After a scan the program exits with 1 exactly when a file it looked at    *)
(* calls a function the lists forbid, of whatever category, or hooks were    *)
(* found that -no-hooks forbids: neither check hides the other's failure.    *)
VerdictExact ==
  phase = "exited" /\ ~BothLists /\ ~input.flags.list /\ input.flags.dirOk =>
    exit = IF \/ \E f \in scanned : \E fn \in Extract(f) : Forbidden(fn)
              \/ input.flags.noHooks /\ hooks # {}
           THEN 1 ELSE 0

Scanned == phase \in {"verdict", "exited"} /\ input.main # NoFile /\ Main.present
           /\ ~BothLists /\ ~input.flags.list /\ input.flags.dirOk

(* A main helmfile that parses is not let off because something fails to     *)
(* load: its own hooks are reported, and it and the bases it names are       *)
(* looked at, whatever fails.  Once its bases and default values load, so    *)
(* are the layers of the merged state, the nested helmfiles named up to the  *)
(* first entry without a match and the values and secrets files of the       *)
(* releases: no nested helmfile that fails to load and no entry without a    *)
(* match hides them.  If every entry matches, all nested helmfiles are       *)
(* looked at and the values files they are given.  Nothing is claimed of the *)
(* nested helmfiles and values files of a state with a base or a default     *)
(* values file that does not load: the program does not look at them.        *)
SurvivesFailures ==
  Scanned /\ parsed =>
    /\ Main.hooks \subseteq hooks
    /\ \A f \in {input.main} \cup SeqRange(Main.bases) : IsTemplate(f) => f \in scanned
    /\ Loads(input.main) =>
         /\ MergedHooks \subseteq hooks
         /\ \A f \in SeqRange(Layers) \cup Globbed \cup MergedValues : IsTemplate(f) => f \in scanned
         /\ AllExpand => \A f \in Nested \cup Overrides : IsTemplate(f) => f \in scanned
=============================================================================
