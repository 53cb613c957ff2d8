---------------------------- MODULE RemoteCache ----------------------------
(***************************************************************************)
(* The cache of remote files of pkg/helmfile/remote: Locate, Fetch and its *)
(* getters, for several state files of one process that load the same      *)
(* source.  A source for go-getter is a directory, cached when the         *)
(* directory exists; one over s3 or http is a file, cached when the file   *)
(* exists.  Nothing is locked, within the process or across processes.     *)
(*                                                                         *)
(* Servers and go-getter are external.                                     *)
(***************************************************************************)
EXTENDS StateFiles

CONSTANTS
  Sources    \* the sources to consider, see SourceType

Content == {"none", "partial", "whole", "wrong", "blocked"}

SourceType ==
  [kind   : {"local", "noURL", "badScheme", "dir", "http", "s3"},
   again  : BOOLEAN,    \* cache=false in the URL
   denied : BOOLEAN,    \* HELMFILE_DISABLE_INSECURE_FEATURES
   start  : Content]    \* what earlier commands left in the cache

ASSUME RemoteAssumption == Sources \subseteq SourceType

VARIABLES
  src,     \* the source; never changes
  entry,   \* what is in the cache: "blocked" is a file in place of a directory,
           \* "wrong" the page of an HTTP error
  cut,     \* history: the last download was cut short
  fetch,   \* where each state file is in Locate
  got      \* what it has loaded

remoteVars == <<src, entry, cut, fetch, got>>

FetchStages == {"start", "look", "head", "create", "writing", "pulling", "removing", "use",
                "done", "failed", "panic"}
Fetched(f) == fetch[f] = "done"

RemoteInit ==
  /\ src \in Sources
  /\ entry = src.start
  /\ cut = (entry = "partial")
  /\ fetch = [f \in Files |-> "start"]
  /\ got = [f \in Files |-> "none"]

Step(f, from, to) == fetch[f] = from /\ fetch' = [fetch EXCEPT ![f] = to]

-----------------------------------------------------------------------------
(* Locate returns what exists on this machine, and what is no URL at all, as *)
(* it is.  Another scheme than s3, http and https without a getter is an     *)
(* error, and so is any remote source when they are disabled.                *)
Locate(f) ==
  /\ \/ src.kind \in {"local", "noURL"} /\ Step(f, "start", "done")
     \/ src.kind = "badScheme" /\ Step(f, "start", "failed")
     \/ /\ src.kind \in {"dir", "http", "s3"}
        /\ IF src.denied THEN Step(f, "start", "failed") ELSE Step(f, "start", "look")
  /\ got' = [got EXCEPT ![f] = IF src.kind = "local" THEN "whole" ELSE @]
  /\ UNCHANGED <<src, entry, cut>>

Cached == entry \in {"partial", "whole", "wrong"} /\ ~src.again

\* Fetch looks for the entry, and downloads it unless it is there.
Look(f) ==
  /\ \/ entry = "blocked" /\ Step(f, "look", "failed")
     \/ entry # "blocked" /\ Cached /\ Step(f, "look", "use")
     \/ entry # "blocked" /\ ~Cached /\ src.kind # "dir" /\ Step(f, "look", "head")
  /\ UNCHANGED <<src, entry, cut, got>>

\* go-getter clones into the directory, or updates what is there.
Pull(f) ==
  /\ entry # "blocked" /\ ~Cached
  /\ src.kind = "dir"
  /\ Step(f, "look", "pulling")
  /\ entry' = "partial"
  /\ UNCHANGED <<src, cut, got>>

\* A directory removed by another state file in the meantime does not get whole.
Pulled(f) ==
  /\ Step(f, "pulling", "use")
  /\ entry' = IF entry = "none" THEN "partial" ELSE "whole"
  /\ cut' = (entry = "none")
  /\ UNCHANGED <<src, got>>

\* Seeded bug: the directory of a failed download stays.
PullFailsAndStays(f) ==
  /\ Step(f, "pulling", "failed")
  /\ UNCHANGED <<src, entry, cut, got>>

PullFails(f) ==
  /\ Step(f, "pulling", "removing")
  /\ UNCHANGED <<src, entry, cut, got>>

\* os.RemoveAll of the cache directory; its own error is joined.
RemoveEntry(f) ==
  /\ Step(f, "removing", "failed")
  /\ \/ entry' = "none" /\ cut' = FALSE
     \/ cut' = TRUE /\ UNCHANGED entry
  /\ UNCHANGED <<src, got>>

\* Is the file there?  HttpFileExists reads the answer of http.Head before it
\* looks at the error: without an answer the process panics.  S3FileExists
\* returns its errors.
AskServer(f) ==
  /\ \/ Step(f, "head", "create")
     \/ Step(f, "head", "failed")
     \/ src.kind = "http" /\ Step(f, "head", "panic")
  /\ UNCHANGED <<src, entry, cut, got>>

\* The request, and os.Create, which truncates a file that exists.
\* S3Getter.Get defers the closing of a body that is nil after an error.
Create(f) ==
  /\ \/ Step(f, "create", "writing") /\ entry' = "partial"
     \/ Step(f, "create", "failed") /\ UNCHANGED entry
     \/ src.kind = "s3" /\ Step(f, "create", "panic") /\ UNCHANGED entry
  /\ UNCHANGED <<src, cut, got>>

\* The body is written; of an HTTP answer whatever its status.
Write(f) ==
  /\ \/ Step(f, "writing", "use") /\ entry' = "whole" /\ cut' = FALSE
     \/ src.kind = "http" /\ Step(f, "writing", "use") /\ entry' = "wrong" /\ cut' = FALSE
     \/ Step(f, "writing", "failed") /\ cut' = TRUE /\ UNCHANGED entry
  /\ UNCHANGED <<src, got>>

\* The caller reads the path Locate returned.
Use(f) ==
  /\ IF entry = "none" THEN Step(f, "use", "failed") ELSE Step(f, "use", "done")
  /\ got' = [got EXCEPT ![f] = entry]
  /\ UNCHANGED <<src, entry, cut>>

FetchStep(f) ==
  \/ Locate(f) \/ Look(f) \/ Pull(f) \/ Pulled(f) \/ PullFails(f) \/ RemoveEntry(f)
  \/ AskServer(f) \/ Create(f) \/ Write(f) \/ Use(f)

\* What stays when the process ends, with downloads under way or not; and a
\* new process, which knows nothing of the old one.
Midway(f) == fetch[f] \in {"writing", "pulling", "removing"}
FetchAnew ==
  /\ cut' = (cut \/ (entry = "partial" /\ \E f \in Files : Midway(f)))
  /\ fetch' = [f \in Files |-> "start"]
  /\ got' = [f \in Files |-> "none"]
  /\ UNCHANGED <<src, entry>>

RemoteTypeOK ==
  /\ src \in Sources
  /\ entry \in Content
  /\ cut \in BOOLEAN
  /\ fetch \in [Files -> FetchStages]
  /\ got \in [Files -> Content]
=============================================================================
