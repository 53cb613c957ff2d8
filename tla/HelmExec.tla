------------------------------ MODULE HelmExec ------------------------------
(***************************************************************************)
(* What the state files of one process share while they are processed: the *)
(* execer of helm (App.getHelm has one per helm binary and kube context)   *)
(* with its extra arguments and its cache of decrypted secrets, the list   *)
(* of repositories already added (app.Context), and the result variables   *)
(* of the command.                                                         *)
(*                                                                         *)
(* helm and its plugins are external: each call succeeds or fails.         *)
(***************************************************************************)
EXTENDS StateFiles

CONSTANTS
  Repos, Urls, NoUrl,    \* names of repositories and what they may stand for
  Secrets, NoSecret,     \* encrypted files
  Args,                  \* extra arguments
  Runs                   \* the inputs to consider, see RunType

Commands == {"diff", "lint", "apply", "template", "sync"}

\* What SyncRepos does with a repository: helm repo add, az acr helm repo add,
\* helm registry login, or nothing - for an OCI registry without credentials,
\* and for an unknown type, of which AddRepo only logs an error.
RepoKinds == {"chart", "acr", "oci", "nothing"}

RunType ==
  [cmd      : Commands,
   parallel : BOOLEAN,
   args     : [Files -> SUBSET Args],                 \* --args and helmDefaults.args
   general  : SUBSET Args,                            \* those helm dependency knows
   repos    : [Files -> SUBSET Repos],
   kind     : [Files -> [Repos -> RepoKinds]],        \* what a state file says of its repositories
   url      : [Files -> Urls],
   early    : [Files -> Secrets \cup {NoSecret}],     \* the secrets of its environment
   secret   : [Files -> Secrets \cup {NoSecret}],     \* those of its releases
   hcl      : SUBSET Secrets,                         \* .hcl files, with helm-secrets before 4
   changed  : SUBSET Files]                           \* state files with a result to report

ASSUME HelmAssumption ==
  /\ NoUrl \notin Urls
  /\ NoSecret \notin Secrets
  /\ Runs \subseteq RunType

VARIABLES
  run,       \* the input; never changes
  stage,     \* where each state file is
  loaded,    \* state files that are loaded, with their environment
  extra,     \* helm.extra
  saved,     \* savedExtra of BuildDeps
  before,    \* history: extra arguments of the calls between the loading of a state
             \* file and SetArgs
  during,    \* history: extra arguments of the command's main call
  ctx,       \* state file holding Context.mu, 0 if none
  updated,   \* Context.updatedRepos
  batch,     \* repositories added by a call of SyncRepos
  repo,      \* repositories of helm, on disk
  logins,    \* registries helm has credentials of, on disk
  mutex,     \* state file holding decryptedSecretMutex, 0 if none
  secret,    \* decryptedSecrets
  plain,     \* what DecryptSecret has returned to each state file for the secret in hand
  affected,  \* affectedAny of Diff and Apply, deferredLintErrors of Lint
  snap       \* what a state file has read of it

helmVars == <<run, stage, loaded, extra, saved, before, during, ctx, updated, batch, repo,
              logins, mutex, secret, plain, affected, snap>>
argVars    == <<extra, saved, before, during>>
repoVars   == <<ctx, updated, batch, repo, logins>>
secretVars == <<mutex, secret, plain>>
resultVars == <<affected, snap>>

HelmStages == {"start", "begin", "repos", "adding", "deps", "building", "args", "asking", "waiting",
               "decrypting", "running", "merging", "writing", "done", "failed"}
SecretStates == {"absent", "busy", "text", "error", "empty"}

HelmInit ==
  /\ run \in Runs
  /\ repo = [n \in Repos |-> NoUrl]
  /\ logins = {}
  /\ stage = [f \in Files |-> "start"]
  /\ loaded = [f \in Files |-> FALSE]
  /\ extra = {}
  /\ saved = [f \in Files |-> {}]
  /\ before = [f \in Files |-> {}]
  /\ during = [f \in Files |-> {}]
  /\ ctx = 0
  /\ updated = {}
  /\ batch = [f \in Files |-> {}]
  /\ mutex = 0
  /\ secret = [s \in Secrets |-> "absent"]
  /\ plain = [f \in Files |-> "absent"]
  /\ affected = FALSE
  /\ snap = [f \in Files |-> FALSE]

At(f, s) == stage[f] = s
Go(f, s) == stage' = [stage EXCEPT ![f] = s]

\* execer.exec and execStdIn append the extra arguments there are at the moment.
ExecBefore(f) == before' = [before EXCEPT ![f] = @ \cup extra]

\* The secret in hand: of the environment while the state file is loaded, of
\* the releases afterwards; and what comes when it is decrypted.
Wanted(f)    == IF loaded[f] THEN run.secret[f] ELSE run.early[f]
Decrypted(f) == IF loaded[f] THEN "running" ELSE "begin"

-----------------------------------------------------------------------------
(* Before the command: the loading, and withPreparedCharts *)

\* scatterGatherEnvSecretFiles decrypts the secrets of the environment with
\* the helm of the command, and the extra arguments it has at the moment.
LoadEnvironment(f) ==
  /\ At(f, "start")
  /\ Go(f, IF run.early[f] = NoSecret THEN "begin" ELSE "asking")
  /\ UNCHANGED <<run, loaded, argVars, repoVars, secretVars, resultVars>>

\* Seeded bug: the arguments of the state file before stay for template too.
BeginKeepsArgs(f) ==
  /\ At(f, "begin")
  /\ loaded' = [loaded EXCEPT ![f] = TRUE]
  /\ plain' = [plain EXCEPT ![f] = "absent"]
  /\ Go(f, "repos")
  /\ UNCHANGED <<run, argVars, repoVars, mutex, secret, resultVars>>

\* The state file is loaded and the command called: Template alone resets the
\* extra arguments of the state file before it.
Begin(f) ==
  /\ At(f, "begin")
  /\ loaded' = [loaded EXCEPT ![f] = TRUE]
  /\ plain' = [plain EXCEPT ![f] = "absent"]
  /\ extra' = IF run.cmd = "template" THEN {} ELSE extra
  /\ Go(f, "repos")
  /\ UNCHANGED <<run, saved, before, during, repoVars, mutex, secret, resultVars>>

\* --skip-deps, --skip-refresh and their defaults.
SkipRepos(f) ==
  /\ At(f, "repos")
  /\ run.repos[f] = {}
  /\ Go(f, "deps")
  /\ UNCHANGED <<run, loaded, argVars, repoVars, secretVars, resultVars>>

\* SyncReposOnce holds the mutex of the context while it adds repositories.
LockRepos(f) ==
  /\ At(f, "repos")
  /\ run.repos[f] # {}
  /\ ctx = 0
  /\ ctx' = f
  /\ batch' = [batch EXCEPT ![f] = {}]
  /\ Go(f, "adding")
  /\ UNCHANGED <<run, loaded, argVars, updated, repo, logins, secretVars, resultVars>>

ToAdd(f)   == run.repos[f] \ (updated \cup batch[f])
Kind(f, n) == run.kind[f][n]

\* helm is called with the extra arguments, az without.
Calls(f, n) == IF Kind(f, n) \in {"chart", "oci"} THEN ExecBefore(f) ELSE UNCHANGED before

\* AddRepo or RegistryLogin without an error: SyncRepos counts the repository
\* as updated, also when neither has done anything.
AddRepo(f, n) ==
  /\ At(f, "adding")
  /\ n \in ToAdd(f)
  /\ Calls(f, n)
  /\ repo' = IF Kind(f, n) \in {"chart", "acr"} THEN [repo EXCEPT ![n] = run.url[f]] ELSE repo
  /\ logins' = IF Kind(f, n) = "oci" THEN logins \cup {run.url[f]} ELSE logins
  /\ batch' = [batch EXCEPT ![f] = @ \cup {n}]
  /\ UNCHANGED <<run, stage, loaded, extra, saved, during, ctx, updated, secretVars, resultVars>>

\* Seeded bug: the repositories to add are recorded, added or not.
AddRepoFailsRecorded(f) ==
  /\ At(f, "adding")
  /\ \E n \in ToAdd(f) : Kind(f, n) # "nothing" /\ Calls(f, n)
  /\ updated' = updated \cup run.repos[f]
  /\ ctx' = 0
  /\ Go(f, "failed")
  /\ UNCHANGED <<run, loaded, extra, saved, during, batch, repo, logins, secretVars, resultVars>>

\* SyncRepos returns no list with an error: what it has added before is not
\* recorded.
AddRepoFails(f) ==
  /\ At(f, "adding")
  /\ \E n \in ToAdd(f) : Kind(f, n) # "nothing" /\ Calls(f, n)
  /\ ctx' = 0
  /\ Go(f, "failed")
  /\ UNCHANGED <<run, loaded, extra, saved, during, updated, batch, repo, logins, secretVars, resultVars>>

ReposAdded(f) ==
  /\ At(f, "adding")
  /\ ToAdd(f) = {}
  /\ updated' = updated \cup batch[f]
  /\ ctx' = 0
  /\ Go(f, "deps")
  /\ UNCHANGED <<run, loaded, argVars, batch, repo, logins, secretVars, resultVars>>

\* BuildDeps and UpdateDeps replace the extra arguments by those that helm
\* dependency knows; a state file may have no dependencies to build.
FilterArgs(f) ==
  /\ At(f, "deps")
  /\ \/ /\ saved' = [saved EXCEPT ![f] = extra]
        /\ extra' = extra \cap run.general
        /\ Go(f, "building")
     \/ Go(f, "args") /\ UNCHANGED <<extra, saved>>
  /\ UNCHANGED <<run, loaded, before, during, repoVars, secretVars, resultVars>>

\* The build, and the deferred restoration.
BuildDeps(f) ==
  /\ At(f, "building")
  /\ ExecBefore(f)
  /\ extra' = saved[f]
  /\ Go(f, "args") \/ Go(f, "failed")
  /\ UNCHANGED <<run, loaded, saved, during, repoVars, secretVars, resultVars>>

-----------------------------------------------------------------------------
(* The command *)

\* SetExtraArgs(GetArgs(...)).
SetArgs(f) ==
  /\ At(f, "args")
  /\ extra' = run.args[f]
  /\ Go(f, IF run.secret[f] = NoSecret THEN "running" ELSE "asking")
  /\ UNCHANGED <<run, loaded, saved, before, during, repoVars, secretVars, resultVars>>

\* DecryptSecret, a miss: the entry is made and locked under the mutex, and
\* decrypted without it.
Miss(f) ==
  /\ At(f, "asking")
  /\ mutex = 0
  /\ secret[Wanted(f)] = "absent"
  /\ secret' = [secret EXCEPT ![Wanted(f)] = "busy"]
  /\ Go(f, "decrypting")
  /\ UNCHANGED <<run, loaded, argVars, repoVars, mutex, plain, resultVars>>

\* A hit: the entry is locked for reading with the mutex held.
Hit(f) ==
  /\ At(f, "asking")
  /\ mutex = 0
  /\ secret[Wanted(f)] # "absent"
  /\ mutex' = f
  /\ Go(f, "waiting")
  /\ UNCHANGED <<run, loaded, argVars, repoVars, secret, plain, resultVars>>

\* Seeded bug: no error is kept in the cache.
DecryptedErrorLost(f) ==
  /\ At(f, "decrypting")
  /\ secret' = [secret EXCEPT ![Wanted(f)] = "empty"]
  /\ Go(f, "failed")
  /\ UNCHANGED <<run, loaded, argVars, repoVars, mutex, plain, resultVars>>

\* Seeded bug: the entry of a secret that cannot be decrypted stays locked.
DecryptLeaks(f) ==
  /\ At(f, "decrypting")
  /\ \/ /\ secret' = [secret EXCEPT ![Wanted(f)] = "text"]
        /\ plain' = [plain EXCEPT ![f] = "text"]
        /\ Go(f, Decrypted(f))
     \/ Go(f, "failed") /\ UNCHANGED <<secret, plain>>
  /\ UNCHANGED <<run, loaded, argVars, repoVars, mutex, resultVars>>

\* helm secrets, the extraction from the YAML around an .hcl file, and the
\* temporary file.  The error of the extraction is not kept in the cache.
Decrypt(f) ==
  /\ At(f, "decrypting")
  /\ \/ /\ secret' = [secret EXCEPT ![Wanted(f)] = "text"]
        /\ \/ plain' = [plain EXCEPT ![f] = "text"] /\ Go(f, Decrypted(f))
           \/ Go(f, "failed") /\ UNCHANGED plain
     \/ /\ \/ secret' = [secret EXCEPT ![Wanted(f)] = "error"]
           \/ Wanted(f) \in run.hcl /\ secret' = [secret EXCEPT ![Wanted(f)] = "empty"]
        /\ Go(f, "failed")
        /\ UNCHANGED plain
  /\ UNCHANGED <<run, loaded, argVars, repoVars, mutex, resultVars>>

ReadSecret(f) ==
  /\ At(f, "waiting")
  /\ secret[Wanted(f)] # "busy"
  /\ mutex' = 0
  /\ \/ /\ secret[Wanted(f)] # "error"
        /\ plain' = [plain EXCEPT ![f] = secret[Wanted(f)]]
        /\ Go(f, Decrypted(f))
     \/ Go(f, "failed") /\ UNCHANGED plain
  /\ UNCHANGED <<run, loaded, argVars, repoVars, secret, resultVars>>

\* The main calls of helm: upgrade, diff, template, lint.
RunHelm(f) ==
  /\ At(f, "running")
  /\ during' = [during EXCEPT ![f] = extra]
  /\ Go(f, "failed") \/ Go(f, IF run.cmd \in {"diff", "lint", "apply"} THEN "merging" ELSE "done")
  /\ UNCHANGED <<run, loaded, extra, saved, before, repoVars, secretVars, resultVars>>

\* Diff and Lint read and write the variable of the command without a lock.
ReadResults(f) ==
  /\ At(f, "merging")
  /\ run.cmd \in {"diff", "lint"}
  /\ snap' = [snap EXCEPT ![f] = affected]
  /\ Go(f, "writing")
  /\ UNCHANGED <<run, loaded, argVars, repoVars, secretVars, affected>>

\* Seeded bug: the last state file decides.
WriteResultsLast(f) ==
  /\ At(f, "writing")
  /\ affected' = (f \in run.changed)
  /\ Go(f, "done")
  /\ UNCHANGED <<run, loaded, argVars, repoVars, secretVars, snap>>

WriteResults(f) ==
  /\ At(f, "writing")
  /\ affected' = (snap[f] \/ f \in run.changed)
  /\ Go(f, "done")
  /\ UNCHANGED <<run, loaded, argVars, repoVars, secretVars, snap>>

\* Apply does so under a mutex.
MergeResults(f) ==
  /\ At(f, "merging")
  /\ run.cmd = "apply"
  /\ affected' = (affected \/ f \in run.changed)
  /\ Go(f, "done")
  /\ UNCHANGED <<run, loaded, argVars, repoVars, secretVars, snap>>

HelmStep(f) ==
  \/ LoadEnvironment(f) \/ Begin(f) \/ SkipRepos(f) \/ LockRepos(f)
  \/ (\E n \in Repos : AddRepo(f, n)) \/ AddRepoFails(f) \/ ReposAdded(f)
  \/ FilterArgs(f) \/ BuildDeps(f) \/ SetArgs(f)
  \/ Miss(f) \/ Hit(f) \/ Decrypt(f) \/ ReadSecret(f) \/ RunHelm(f)
  \/ ReadResults(f) \/ WriteResults(f) \/ MergeResults(f)

\* A new process starts over; the repositories and the credentials of helm
\* are on disk.
HelmAnew ==
  /\ stage' = [f \in Files |-> "start"]
  /\ loaded' = [f \in Files |-> FALSE]
  /\ extra' = {}
  /\ saved' = [f \in Files |-> {}]
  /\ before' = [f \in Files |-> {}]
  /\ during' = [f \in Files |-> {}]
  /\ ctx' = 0
  /\ updated' = {}
  /\ batch' = [f \in Files |-> {}]
  /\ mutex' = 0
  /\ secret' = [s \in Secrets |-> "absent"]
  /\ plain' = [f \in Files |-> "absent"]
  /\ affected' = FALSE
  /\ snap' = [f \in Files |-> FALSE]
  /\ UNCHANGED <<run, repo, logins>>

HelmTypeOK ==
  /\ run \in Runs
  /\ stage \in [Files -> HelmStages]
  /\ loaded \in [Files -> BOOLEAN]
  /\ extra \in SUBSET Args
  /\ saved \in [Files -> SUBSET Args]
  /\ before \in [Files -> SUBSET Args]
  /\ during \in [Files -> SUBSET Args]
  /\ ctx \in Files \cup {0}
  /\ updated \in SUBSET Repos
  /\ batch \in [Files -> SUBSET Repos]
  /\ repo \in [Repos -> Urls \cup {NoUrl}]
  /\ logins \in SUBSET Urls
  /\ mutex \in Files \cup {0}
  /\ secret \in [Secrets -> SecretStates]
  /\ plain \in [Files -> SecretStates]
  /\ affected \in BOOLEAN
  /\ snap \in [Files -> BOOLEAN]
=============================================================================
