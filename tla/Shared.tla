------------------------------- MODULE Shared -------------------------------
(***************************************************************************)
(* State files that are loaded from one remote source (module RemoteCache) *)
(* and processed with one helm (module HelmExec), one after the other or   *)
(* each in a goroutine of its own (visitStatesWithContext).  The process   *)
(* may be killed or panic, and a command that has failed may be run again: *)
(* the cache of remote files and helm's repositories are what stays.       *)
(***************************************************************************)
EXTENDS RemoteCache, HelmExec

CONSTANT MaxRestarts   \* how often the command may be run again

ASSUME SharedAssumption == MaxRestarts \in Nat

VARIABLES
  alive,      \* whether the process runs
  restarts    \* how often the command has been run again

sharedVars == <<remoteVars, helmVars, alive, restarts>>

SharedInit ==
  /\ RemoteInit
  /\ HelmInit
  /\ alive = TRUE
  /\ restarts = 0

Succeeded(f) == At(f, "done")
Failed(f)    == fetch[f] = "failed" \/ At(f, "failed")
Over(f)      == Succeeded(f) \/ Failed(f)

\* Without parallelism a state file is loaded when those before it are
\* processed, and not at all after an error.
Turn(f) == run.parallel \/ \A g \in 1..(f - 1) : Succeeded(g)

Load(f) ==
  /\ alive
  /\ Turn(f)
  /\ FetchStep(f)
  /\ UNCHANGED <<helmVars, restarts>>
  /\ alive' = (fetch'[f] # "panic")

Process(f) ==
  /\ alive
  /\ Fetched(f)
  /\ HelmStep(f)
  /\ UNCHANGED <<remoteVars, alive, restarts>>

CommandOver ==
  \/ \A f \in Files : Over(f)
  \/ ~run.parallel /\ \E f \in Files : Failed(f)

Kill ==
  /\ alive
  /\ restarts < MaxRestarts
  /\ ~CommandOver
  /\ alive' = FALSE
  /\ UNCHANGED <<remoteVars, helmVars, restarts>>

\* The command again, in a new process.
Restart ==
  /\ restarts < MaxRestarts
  /\ ~alive \/ (CommandOver /\ \E f \in Files : Failed(f))
  /\ restarts' = restarts + 1
  /\ alive' = TRUE
  /\ FetchAnew
  /\ HelmAnew

Ended ==
  /\ ~alive \/ CommandOver
  /\ UNCHANGED sharedVars

SharedNext ==
  \/ \E f \in Files : Load(f) \/ Process(f)
  \/ Kill \/ Restart \/ Ended

\* Goroutines that can go on do, nobody has to kill the process or to run
\* the command again.
SharedSpec ==
  SharedInit /\ [][SharedNext]_sharedVars /\ WF_sharedVars(\E f \in Files : Load(f) \/ Process(f))

-----------------------------------------------------------------------------
(* Properties *)

\* A state file loads a whole remote file, or none, also after failures,
\* crashes and retries - unless another one is loaded at the same time, a
\* download was cut short that Fetch cannot tell from a complete one, or an
\* HTTP server answered the request for an existing file with an error.
LoadsWhole ==
  \A f \in Files : Fetched(f) /\ src.kind # "noURL" =>
    \/ got[f] = "whole"
    \/ got[f] = "partial" /\ (run.parallel \/ cut)
    \/ got[f] = "wrong" /\ (src.kind = "http" \/ src.start = "wrong")

\* State files processed one after the other call helm with the arguments of
\* their own, also to decrypt the secrets of their releases; and with
\* template, what comes between the loading of a state file and that -
\* repositories, dependencies - gets none of the file before it.  The secrets
\* of an environment, decrypted while its file is loaded, may.
ArgsOwn ==
  ~run.parallel =>
    \A f \in Files :
      /\ At(f, "merging") \/ At(f, "done") => during[f] = run.args[f]
      /\ At(f, "decrypting") /\ loaded[f] => extra = run.args[f]
      /\ run.cmd = "template" => before[f] = {}

\* What a state file says of a repository is so: helm has it with the URL
\* named, or the credentials for the registry.  Where SyncRepos does nothing
\* there is nothing to find.
Registered(f, n) ==
  CASE Kind(f, n) \in {"chart", "acr"} -> repo[n] = run.url[f]
    [] Kind(f, n) = "oci" -> run.url[f] \in logins
    [] Kind(f, n) = "nothing" -> TRUE

\* A state file past its repositories finds each of them as it says, or as
\* another state file says that gives the name another meaning; also when one
\* failed for another file before.  A name that another state file gives an
\* unknown type, or a registry without credentials, may be missing: it is
\* recorded all the same, and skipped here.
ReposReady ==
  \A f \in Files : loaded[f] /\ stage[f] \notin {"repos", "adding", "failed"} =>
    \A n \in run.repos[f] : \E g \in Files : n \in run.repos[g] /\ Registered(g, n)

\* A state file that goes on after DecryptSecret, while it is loaded or in the
\* command, has the plain text, whoever decrypted it and whatever failed for
\* others; but for the error an .hcl file may cause.
SecretsTold ==
  \A f \in Files :
    (At(f, "begin") \/ At(f, "running")) /\ Wanted(f) # NoSecret =>
      plain[f] = "text" \/ (plain[f] = "empty" /\ Wanted(f) \in run.hcl)

\* When all state files are processed, the command knows whether one of them
\* had something to report; in parallel apply does, diff and lint may not.
ResultsTold ==
  (\A f \in Files : Succeeded(f)) /\ (~run.parallel \/ run.cmd = "apply")
     /\ run.cmd \in {"diff", "lint", "apply"}
    => affected = (run.changed # {})

\* Nobody waits forever, for a mutex or for a secret another one decrypts; not
\* in the first process, and not in one that runs the command again.
CommandEnds == []<>(~alive \/ CommandOver)
=============================================================================
