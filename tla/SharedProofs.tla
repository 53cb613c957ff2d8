--------------------------- MODULE SharedProofs ---------------------------
(* What the run of Shared checks on two state files, proved for any number *)
(* of them, any sources, arguments, repositories, secrets and results, and *)
(* any number of crashes and retries.                                      *)
EXTENDS Shared, TLAPS

\* Where a state file may be before it is loaded, and after; and one that asks
\* for the text of a secret has one.
Asking == {"asking", "waiting", "decrypting"}

Asks(f) ==
  /\ stage[f] \in {"start", "begin"} => ~loaded[f]
  /\ stage[f] \notin {"start", "begin", "failed"} \cup Asking => loaded[f]
  /\ stage[f] \in Asking => Wanted(f) \in Secrets

TypeInv ==
  /\ RemoteTypeOK
  /\ HelmTypeOK
  /\ alive \in BOOLEAN
  /\ \A f \in Files : Asks(f)

\* What the type of the inputs says.
LEMMA InputTypes ==
  ASSUME TypeInv
  PROVE  /\ src \in SourceType
         /\ run \in RunType
         /\ run.args \in [Files -> SUBSET Args]
         /\ run.repos \in [Files -> SUBSET Repos]
         /\ run.kind \in [Files -> [Repos -> RepoKinds]]
         /\ run.url \in [Files -> Urls]
         /\ run.early \in [Files -> Secrets \cup {NoSecret}]
         /\ run.secret \in [Files -> Secrets \cup {NoSecret}]
         /\ run.changed \subseteq Files
         /\ run.cmd \in Commands /\ run.parallel \in BOOLEAN
         /\ \A f \in Files : run.url[f] # NoUrl
<1>1. src \in SourceType /\ run \in RunType
  BY RemoteAssumption, HelmAssumption DEF TypeInv, RemoteTypeOK, HelmTypeOK
<1>2. \A f \in Files : run.url[f] \in Urls
  BY <1>1 DEF RunType
<1> QED BY <1>1, <1>2, HelmAssumption DEF RunType

\* The source and the input of the command do not change.
LEMMA SameInput == [SharedNext]_sharedVars => src' = src /\ run' = run
<1>1. ASSUME NEW f \in Files, Load(f) PROVE src' = src /\ run' = run
  BY <1>1 DEF Load, FetchStep, Locate, Look, Pull, Pulled, PullFails, RemoveEntry, AskServer, Create,
     Write, Use, helmVars
<1>2. ASSUME NEW f \in Files, Process(f) PROVE src' = src /\ run' = run
  BY <1>2 DEF Process, HelmStep, LoadEnvironment, Begin, SkipRepos, LockRepos, AddRepo, AddRepoFails, ReposAdded, FilterArgs,
     BuildDeps, SetArgs, Miss, Hit, Decrypt, ReadSecret, RunHelm, ReadResults, WriteResults, MergeResults,
     remoteVars
<1>3. CASE Kill \/ Restart \/ Ended
  BY <1>3 DEF Kill, Restart, Ended, FetchAnew, HelmAnew, sharedVars, remoteVars, helmVars
<1>4. CASE UNCHANGED sharedVars
  BY <1>4 DEF sharedVars, remoteVars, helmVars
<1> QED BY <1>1, <1>2, <1>3, <1>4 DEF SharedNext

\* Loading a state file moves that one alone.
LEMMA FetchFrame ==
  ASSUME TypeInv, NEW f \in Files, FetchStep(f)
  PROVE  /\ fetch[f] \notin {"done", "failed", "panic"}
         /\ fetch' \in [Files -> FetchStages]
         /\ \A g \in Files : g # f => fetch'[g] = fetch[g] /\ got'[g] = got[g]
<1> USE DEF TypeInv, RemoteTypeOK, Step, FetchStages
<1>1. CASE Locate(f)
  BY <1>1 DEF Locate
<1>2. CASE Look(f) \/ Pull(f)
  BY <1>2 DEF Look, Pull
<1>3. CASE Pulled(f) \/ PullFails(f) \/ RemoveEntry(f)
  BY <1>3 DEF Pulled, PullFails, RemoveEntry
<1>4. CASE AskServer(f) \/ Create(f)
  BY <1>4 DEF AskServer, Create
<1>5. CASE Write(f) \/ Use(f)
  BY <1>5 DEF Write, Use
<1> QED BY <1>1, <1>2, <1>3, <1>4, <1>5 DEF FetchStep

\* Processing a state file moves that one alone, and starts with its being loaded.
LEMMA HelmFrame ==
  ASSUME TypeInv, NEW f \in Files, HelmStep(f)
  PROVE  /\ stage[f] \notin {"done", "failed"}
         /\ stage' \in [Files -> HelmStages]
         /\ loaded' \in [Files -> BOOLEAN]
         /\ \A g \in Files : g # f =>
              /\ stage'[g] = stage[g] /\ loaded'[g] = loaded[g]
              /\ saved'[g] = saved[g] /\ before'[g] = before[g] /\ during'[g] = during[g]
              /\ batch'[g] = batch[g] /\ plain'[g] = plain[g] /\ snap'[g] = snap[g]
<1> USE DEF TypeInv, HelmTypeOK, At, Go, HelmStages, Decrypted, argVars, repoVars, secretVars, resultVars
<1>1. CASE LoadEnvironment(f) \/ Begin(f) \/ SkipRepos(f) \/ LockRepos(f)
  BY <1>1 DEF LoadEnvironment, Begin, SkipRepos, LockRepos
<1>2. CASE \E n \in Repos : AddRepo(f, n)
  BY <1>2 DEF AddRepo, Calls, ExecBefore
<1>3. CASE AddRepoFails(f) \/ ReposAdded(f)
  BY <1>3 DEF AddRepoFails, ReposAdded, Calls, ExecBefore
<1>4. CASE FilterArgs(f)
  BY <1>4 DEF FilterArgs
<1>5. CASE BuildDeps(f)
  BY <1>5 DEF BuildDeps, ExecBefore
<1>6. CASE SetArgs(f)
  BY <1>6 DEF SetArgs
<1>7. CASE Miss(f) \/ Hit(f)
  BY <1>7 DEF Miss, Hit
<1>8. CASE Decrypt(f)
  BY <1>8 DEF Decrypt
<1>9. CASE ReadSecret(f)
  BY <1>9 DEF ReadSecret
<1>10. CASE RunHelm(f)
  BY <1>10 DEF RunHelm
<1>11. CASE ReadResults(f) \/ WriteResults(f) \/ MergeResults(f)
  BY <1>11 DEF ReadResults, WriteResults, MergeResults
<1> QED BY <1>1, <1>2, <1>3, <1>4, <1>5, <1>6, <1>7, <1>8, <1>9, <1>10, <1>11 DEF HelmStep

\* The first process starts with the types right.
LEMMA TypeInit == SharedInit => TypeInv
<1> SUFFICES ASSUME SharedInit PROVE TypeInv
  OBVIOUS
<1>1. RemoteTypeOK
  <2>1. src.start \in Content
    BY RemoteAssumption DEF SharedInit, RemoteInit, SourceType
  <2> QED BY <2>1 DEF SharedInit, RemoteInit, RemoteTypeOK, FetchStages, Content
<1>2. HelmTypeOK
  BY DEF SharedInit, HelmInit, HelmTypeOK, HelmStages, SecretStates
<1>3. \A f \in Files : Asks(f)
  BY DEF SharedInit, HelmInit, Asks, Asking
<1> QED BY <1>1, <1>2, <1>3 DEF SharedInit, TypeInv

\* So does each one after it.
LEMMA TypeAnew == TypeInv /\ Restart => TypeInv'
<1> SUFFICES ASSUME TypeInv, Restart PROVE TypeInv'
  OBVIOUS
<1>1. RemoteTypeOK'
  BY DEF TypeInv, Restart, FetchAnew, RemoteTypeOK, FetchStages, Content
<1>2. HelmTypeOK'
  BY DEF TypeInv, Restart, HelmAnew, HelmTypeOK, HelmStages, SecretStates
<1>3. \A f \in Files : Asks(f)'
  BY DEF Restart, HelmAnew, Asks, Asking
<1> QED BY <1>1, <1>2, <1>3 DEF Restart, TypeInv

\* Loading keeps the types.
LEMMA RemoteTypes ==
  ASSUME TypeInv, NEW f \in Files, FetchStep(f)
  PROVE  RemoteTypeOK'
<1> USE DEF TypeInv, RemoteTypeOK, Content
<1>0. fetch' \in [Files -> FetchStages]
  BY FetchFrame
<1>1. CASE Locate(f)
  BY <1>0, <1>1 DEF Locate
<1>2. CASE Look(f) \/ Pull(f)
  BY <1>0, <1>2 DEF Look, Pull
<1>3. CASE Pulled(f) \/ PullFails(f) \/ RemoveEntry(f)
  BY <1>0, <1>3 DEF Pulled, PullFails, RemoveEntry
<1>4. CASE AskServer(f) \/ Create(f)
  BY <1>0, <1>4 DEF AskServer, Create
<1>5. CASE Write(f) \/ Use(f)
  BY <1>0, <1>5 DEF Write, Use
<1> QED BY <1>1, <1>2, <1>3, <1>4, <1>5 DEF FetchStep

\* Processing keeps the types of the arguments.
LEMMA ArgTypes ==
  ASSUME TypeInv, NEW f \in Files, HelmStep(f)
  PROVE  /\ extra' \in SUBSET Args
         /\ saved' \in [Files -> SUBSET Args]
         /\ before' \in [Files -> SUBSET Args]
         /\ during' \in [Files -> SUBSET Args]
<1> USE DEF TypeInv, HelmTypeOK, argVars, Calls, ExecBefore
<1>1. CASE LoadEnvironment(f) \/ Begin(f) \/ SkipRepos(f) \/ LockRepos(f)
  BY <1>1 DEF LoadEnvironment, Begin, SkipRepos, LockRepos
<1>2. CASE (\E n \in Repos : AddRepo(f, n)) \/ AddRepoFails(f) \/ ReposAdded(f)
  BY <1>2 DEF AddRepo, AddRepoFails, ReposAdded
<1>3. CASE FilterArgs(f) \/ BuildDeps(f)
  BY <1>3 DEF FilterArgs, BuildDeps
<1>4. CASE SetArgs(f)
  BY <1>4, InputTypes DEF SetArgs
<1>5. CASE Miss(f) \/ Hit(f) \/ Decrypt(f) \/ ReadSecret(f)
  BY <1>5 DEF Miss, Hit, Decrypt, ReadSecret
<1>6. CASE RunHelm(f)
  BY <1>6 DEF RunHelm
<1>7. CASE ReadResults(f) \/ WriteResults(f) \/ MergeResults(f)
  BY <1>7 DEF ReadResults, WriteResults, MergeResults
<1> QED BY <1>1, <1>2, <1>3, <1>4, <1>5, <1>6, <1>7 DEF HelmStep

\* The same of the repositories.
LEMMA RepoTypes ==
  ASSUME TypeInv, NEW f \in Files, HelmStep(f)
  PROVE  /\ ctx' \in Files \cup {0}
         /\ updated' \in SUBSET Repos
         /\ batch' \in [Files -> SUBSET Repos]
         /\ repo' \in [Repos -> Urls \cup {NoUrl}]
         /\ logins' \in SUBSET Urls
<1> USE DEF TypeInv, HelmTypeOK, repoVars
<1>1. CASE LoadEnvironment(f) \/ Begin(f) \/ SkipRepos(f) \/ LockRepos(f)
  BY <1>1 DEF LoadEnvironment, Begin, SkipRepos, LockRepos
<1>2. CASE \E n \in Repos : AddRepo(f, n)
  BY <1>2, InputTypes DEF AddRepo
<1>3. CASE AddRepoFails(f) \/ ReposAdded(f)
  BY <1>3 DEF AddRepoFails, ReposAdded
<1>4. CASE FilterArgs(f) \/ BuildDeps(f) \/ SetArgs(f)
  BY <1>4 DEF FilterArgs, BuildDeps, SetArgs
<1>5. CASE Miss(f) \/ Hit(f) \/ Decrypt(f) \/ ReadSecret(f)
  BY <1>5 DEF Miss, Hit, Decrypt, ReadSecret
<1>6. CASE RunHelm(f) \/ ReadResults(f) \/ WriteResults(f) \/ MergeResults(f)
  BY <1>6 DEF RunHelm, ReadResults, WriteResults, MergeResults
<1> QED BY <1>1, <1>2, <1>3, <1>4, <1>5, <1>6 DEF HelmStep

\* The same of the secrets.
LEMMA SecretTypes ==
  ASSUME TypeInv, NEW f \in Files, HelmStep(f)
  PROVE  /\ mutex' \in Files \cup {0}
         /\ secret' \in [Secrets -> SecretStates]
         /\ plain' \in [Files -> SecretStates]
<1> USE DEF TypeInv, HelmTypeOK, Asks, Asking, Wanted, At, secretVars, SecretStates
<1>1. CASE LoadEnvironment(f) \/ Begin(f) \/ SkipRepos(f) \/ LockRepos(f)
  BY <1>1 DEF LoadEnvironment, Begin, SkipRepos, LockRepos
<1>2. CASE (\E n \in Repos : AddRepo(f, n)) \/ AddRepoFails(f) \/ ReposAdded(f)
  BY <1>2 DEF AddRepo, AddRepoFails, ReposAdded
<1>3. CASE FilterArgs(f) \/ BuildDeps(f) \/ SetArgs(f)
  BY <1>3 DEF FilterArgs, BuildDeps, SetArgs
<1>4. CASE Miss(f) \/ Hit(f)
  BY <1>4 DEF Miss, Hit
<1>5. CASE Decrypt(f)
  BY <1>5 DEF Decrypt
<1>6. CASE ReadSecret(f)
  BY <1>6 DEF ReadSecret
<1>7. CASE RunHelm(f) \/ ReadResults(f) \/ WriteResults(f) \/ MergeResults(f)
  BY <1>7 DEF RunHelm, ReadResults, WriteResults, MergeResults
<1> QED BY <1>1, <1>2, <1>3, <1>4, <1>5, <1>6, <1>7 DEF HelmStep

\* The same of the results.
LEMMA ResultTypes ==
  ASSUME TypeInv, NEW f \in Files, HelmStep(f)
  PROVE  affected' \in BOOLEAN /\ snap' \in [Files -> BOOLEAN]
<1> USE DEF TypeInv, HelmTypeOK, resultVars
<1>1. CASE LoadEnvironment(f) \/ Begin(f) \/ SkipRepos(f) \/ LockRepos(f)
  BY <1>1 DEF LoadEnvironment, Begin, SkipRepos, LockRepos
<1>2. CASE (\E n \in Repos : AddRepo(f, n)) \/ AddRepoFails(f) \/ ReposAdded(f)
  BY <1>2 DEF AddRepo, AddRepoFails, ReposAdded
<1>3. CASE FilterArgs(f) \/ BuildDeps(f) \/ SetArgs(f)
  BY <1>3 DEF FilterArgs, BuildDeps, SetArgs
<1>4. CASE Miss(f) \/ Hit(f) \/ Decrypt(f) \/ ReadSecret(f)
  BY <1>4 DEF Miss, Hit, Decrypt, ReadSecret
<1>5. CASE RunHelm(f) \/ ReadResults(f)
  BY <1>5 DEF RunHelm, ReadResults
<1>6. CASE WriteResults(f) \/ MergeResults(f)
  BY <1>6 DEF WriteResults, MergeResults
<1> QED BY <1>1, <1>2, <1>3, <1>4, <1>5, <1>6 DEF HelmStep

\* A state file comes to ask for a secret from SetArgs, which looks whether it has one.
LEMMA AsksNext ==
  ASSUME TypeInv, NEW f \in Files, HelmStep(f)
  PROVE  Asks(f)'
<1> USE DEF TypeInv, HelmTypeOK, Asks, Asking, Wanted, Decrypted, At, Go
<1>0. run' = run
  BY DEF HelmStep, LoadEnvironment, Begin, SkipRepos, LockRepos, AddRepo, AddRepoFails, ReposAdded, FilterArgs,
     BuildDeps, SetArgs, Miss, Hit, Decrypt, ReadSecret, RunHelm, ReadResults, WriteResults, MergeResults
<1>1. CASE LoadEnvironment(f) \/ Begin(f) \/ SkipRepos(f) \/ LockRepos(f)
  BY <1>0, <1>1, InputTypes DEF LoadEnvironment, Begin, SkipRepos, LockRepos
<1>2. CASE (\E n \in Repos : AddRepo(f, n)) \/ AddRepoFails(f) \/ ReposAdded(f)
  BY <1>2 DEF AddRepo, AddRepoFails, ReposAdded
<1>3. CASE FilterArgs(f) \/ BuildDeps(f)
  BY <1>3 DEF FilterArgs, BuildDeps
<1>4. CASE SetArgs(f)
  BY <1>0, <1>4, InputTypes DEF SetArgs
<1>5. CASE Miss(f) \/ Hit(f)
  BY <1>0, <1>5 DEF Miss, Hit
<1>6. CASE Decrypt(f) \/ ReadSecret(f)
  BY <1>6 DEF Decrypt, ReadSecret
<1>7. CASE RunHelm(f) \/ ReadResults(f) \/ WriteResults(f) \/ MergeResults(f)
  BY <1>7 DEF RunHelm, ReadResults, WriteResults, MergeResults
<1> QED BY <1>1, <1>2, <1>3, <1>4, <1>5, <1>6, <1>7 DEF HelmStep

\* Every step keeps the types.
LEMMA TypeNext == TypeInv /\ [SharedNext]_sharedVars => TypeInv'
<1> SUFFICES ASSUME TypeInv, [SharedNext]_sharedVars PROVE TypeInv'
  OBVIOUS
<1>0. src' = src /\ run' = run
  BY SameInput
<1>1. ASSUME NEW f \in Files, Load(f) PROVE TypeInv'
  <2>1. RemoteTypeOK'
    BY <1>1, RemoteTypes DEF Load
  <2>2. HelmTypeOK' /\ \A g \in Files : Asks(g)'
    BY <1>1 DEF Load, helmVars, TypeInv, HelmTypeOK, Asks, Wanted
  <2>3. alive' \in BOOLEAN
    BY <1>1 DEF Load
  <2> QED BY <2>1, <2>2, <2>3 DEF TypeInv
<1>2. ASSUME NEW f \in Files, Process(f) PROVE TypeInv'
  <2>0. HelmStep(f)
    BY <1>2 DEF Process
  <2>1. RemoteTypeOK' /\ alive' \in BOOLEAN
    BY <1>2 DEF Process, remoteVars, TypeInv, RemoteTypeOK
  <2>2. HelmTypeOK'
    <3>1. stage' \in [Files -> HelmStages] /\ loaded' \in [Files -> BOOLEAN] /\ run' \in Runs
      BY <1>0, <2>0, HelmFrame DEF TypeInv, HelmTypeOK
    <3> QED BY <2>0, <3>1, ArgTypes, RepoTypes, SecretTypes, ResultTypes, Zenon DEF HelmTypeOK
  <2>3. \A g \in Files : Asks(g)'
    BY <1>0, <2>0, HelmFrame, AsksNext DEF TypeInv, Asks, Wanted
  <2> QED BY <2>1, <2>2, <2>3 DEF TypeInv
<1>3. CASE Restart
  BY <1>3, TypeAnew
<1>4. CASE Kill
  BY <1>4 DEF Kill, remoteVars, helmVars, TypeInv, RemoteTypeOK, HelmTypeOK, Asks, Wanted
<1>5. CASE Ended \/ UNCHANGED sharedVars
  BY <1>5 DEF Ended, sharedVars, remoteVars, helmVars, TypeInv, RemoteTypeOK, HelmTypeOK, Asks, Wanted
<1> QED BY <1>1, <1>2, <1>3, <1>4, <1>5 DEF SharedNext

\* The types are right throughout, and a state file that asks for the text of
\* a secret has one.
THEOREM SharedTypes == SharedSpec => []TypeInv
BY TypeInit, TypeNext, PTL DEF SharedSpec

-----------------------------------------------------------------------------
(* Secrets *)

SecretOK(f) ==
  /\ stage[f] = "waiting" => secret[Wanted(f)] # "absent"
  /\ (At(f, "begin") \/ At(f, "running")) /\ Wanted(f) # NoSecret =>
       plain[f] = "text" \/ (plain[f] = "empty" /\ Wanted(f) \in run.hcl)

SecretInv ==
  /\ TypeInv
  /\ \A s \in Secrets : secret[s] = "empty" => s \in run.hcl
  /\ \A f \in Files : SecretOK(f)

\* An entry of the cache is made, then filled, and stays.
LEMMA EntriesStay ==
  ASSUME SecretInv, NEW f \in Files, HelmStep(f), NEW s \in Secrets
  PROVE  /\ secret[s] # "absent" => secret'[s] # "absent"
         /\ secret'[s] = "empty" => s \in run.hcl
<1> USE DEF SecretInv, TypeInv, HelmTypeOK, SecretStates, secretVars
<1>1. CASE LoadEnvironment(f) \/ Begin(f) \/ SkipRepos(f) \/ LockRepos(f)
  BY <1>1 DEF LoadEnvironment, Begin, SkipRepos, LockRepos
<1>2. CASE (\E n \in Repos : AddRepo(f, n)) \/ AddRepoFails(f) \/ ReposAdded(f)
  BY <1>2 DEF AddRepo, AddRepoFails, ReposAdded
<1>3. CASE FilterArgs(f) \/ BuildDeps(f) \/ SetArgs(f)
  BY <1>3 DEF FilterArgs, BuildDeps, SetArgs
<1>4. CASE Miss(f) \/ Hit(f)
  BY <1>4 DEF Miss, Hit
<1>5. CASE Decrypt(f)
  BY <1>5 DEF Decrypt
<1>6. CASE ReadSecret(f) \/ RunHelm(f) \/ ReadResults(f) \/ WriteResults(f) \/ MergeResults(f)
  BY <1>6 DEF ReadSecret, RunHelm, ReadResults, WriteResults, MergeResults
<1> QED BY <1>1, <1>2, <1>3, <1>4, <1>5, <1>6 DEF HelmStep

\* A state file waits for an entry that is there, and goes on with its text.
LEMMA SecretKept ==
  ASSUME SecretInv, NEW f \in Files, HelmStep(f), run' = run
  PROVE  SecretOK(f)'
<1> USE DEF SecretInv, SecretOK, TypeInv, HelmTypeOK, SecretStates, At, Go, Asks, Asking, Wanted, Decrypted
<1>1. CASE LoadEnvironment(f) \/ Begin(f) \/ SkipRepos(f) \/ LockRepos(f)
  BY <1>1 DEF LoadEnvironment, Begin, SkipRepos, LockRepos
<1>2. CASE (\E n \in Repos : AddRepo(f, n)) \/ AddRepoFails(f) \/ ReposAdded(f)
  BY <1>2 DEF AddRepo, AddRepoFails, ReposAdded
<1>3. CASE FilterArgs(f) \/ BuildDeps(f) \/ SetArgs(f)
  BY <1>3 DEF FilterArgs, BuildDeps, SetArgs
<1>4. CASE Miss(f) \/ Hit(f)
  BY <1>4 DEF Miss, Hit
<1>5. CASE Decrypt(f)
  BY <1>5 DEF Decrypt
<1>6. CASE ReadSecret(f)
  BY <1>6 DEF ReadSecret
<1>7. CASE RunHelm(f) \/ ReadResults(f) \/ WriteResults(f) \/ MergeResults(f)
  BY <1>7 DEF RunHelm, ReadResults, WriteResults, MergeResults
<1> QED BY <1>1, <1>2, <1>3, <1>4, <1>5, <1>6, <1>7 DEF HelmStep

\* Every step keeps what is known of the secrets.
LEMMA SecretNext == SecretInv /\ [SharedNext]_sharedVars => SecretInv'
<1> SUFFICES ASSUME SecretInv, [SharedNext]_sharedVars PROVE SecretInv'
  OBVIOUS
<1>0. src' = src /\ run' = run /\ TypeInv'
  BY SameInput, TypeNext DEF SecretInv
<1>1. ASSUME NEW f \in Files, Process(f) PROVE SecretInv'
  <2>0. HelmStep(f)
    BY <1>1 DEF Process
  <2>1. \A s \in Secrets : secret'[s] = "empty" => s \in run'.hcl
    BY <1>0, <2>0, EntriesStay
  <2>2. SecretOK(f)'
    BY <1>0, <2>0, SecretKept
  <2>3. ASSUME NEW g \in Files, g # f PROVE SecretOK(g)'
    <3>1. stage'[g] = stage[g] /\ plain'[g] = plain[g] /\ Wanted(g)' = Wanted(g)
      BY <1>0, <2>0, <2>3, HelmFrame DEF SecretInv, Wanted
    <3>2. stage[g] = "waiting" => secret'[Wanted(g)] # "absent"
      BY <2>0, EntriesStay DEF SecretInv, SecretOK, TypeInv, Asks, Asking
    <3> QED BY <1>0, <3>1, <3>2 DEF SecretInv, SecretOK, At, Wanted
  <2> QED BY <1>0, <2>1, <2>2, <2>3 DEF SecretInv
<1>2. CASE Restart
  BY <1>0, <1>2 DEF Restart, HelmAnew, SecretInv, SecretOK, At, Wanted
<1>3. CASE (\E f \in Files : Load(f)) \/ Kill \/ Ended \/ UNCHANGED sharedVars
  BY <1>0, <1>3 DEF Load, Kill, Ended, sharedVars, helmVars, SecretInv, SecretOK, At, Wanted
<1> QED BY <1>1, <1>2, <1>3 DEF SharedNext

\* A state file that goes on after DecryptSecret has the plain text, but for
\* the error an .hcl file may cause: the cache of DecryptSecret and its locks.
THEOREM TellsSecrets == SharedSpec => []SecretsTold
<1>1. SharedInit => SecretInv
  <2> SUFFICES ASSUME SharedInit PROVE SecretInv
    OBVIOUS
  <2> QED BY TypeInit DEF SharedInit, HelmInit, SecretInv, SecretOK, At, Wanted
<1>2. SecretInv => SecretsTold
  BY DEF SecretInv, SecretOK, SecretsTold
<1> QED BY <1>1, <1>2, SecretNext, PTL DEF SharedSpec

-----------------------------------------------------------------------------
(* Repositories *)

\* A repository is what some state file says of it.
Provided(n) == \E g \in Files : n \in run.repos[g] /\ Registered(g, n)

ReposOK(f) ==
  /\ \A n \in batch[f] : Provided(n)
  /\ loaded[f] /\ stage[f] \notin {"repos", "adding", "failed"} => \A n \in run.repos[f] : Provided(n)

ReposInv ==
  /\ TypeInv
  /\ \A n \in updated : Provided(n)
  /\ \A f \in Files : ReposOK(f)

\* What AddRepo does for a state file makes the repository what that one says,
\* and leaves the others what they are.
LEMMA AddRepoProvides ==
  ASSUME TypeInv, NEW f \in Files, NEW m \in Repos, AddRepo(f, m), NEW n \in Repos
  PROVE  Provided(m)' /\ (Provided(n) => Provided(n)')
<1>1. /\ m \in run.repos[f] /\ run' = run /\ Kind(f, m) \in RepoKinds
      /\ repo \in [Repos -> Urls \cup {NoUrl}]
  BY InputTypes DEF AddRepo, ToAdd, Kind, TypeInv, HelmTypeOK
<1>2. /\ repo' = IF Kind(f, m) \in {"chart", "acr"} THEN [repo EXCEPT ![m] = run.url[f]] ELSE repo
      /\ logins' = IF Kind(f, m) = "oci" THEN logins \cup {run.url[f]} ELSE logins
  BY DEF AddRepo
<1>3. \A g \in Files, k \in Repos : Kind(g, k) \in RepoKinds /\ Kind(g, k)' = Kind(g, k)
  BY <1>1, InputTypes DEF Kind
<1>4. Registered(f, m)'
  BY <1>1, <1>2, <1>3 DEF Registered, RepoKinds
<1>5. Provided(m)'
  BY <1>1, <1>4 DEF Provided
<1>6. ASSUME Provided(n), n # m PROVE Provided(n)'
  <2>1. PICK g \in Files : n \in run.repos[g] /\ Registered(g, n)
    BY <1>6 DEF Provided
  <2>2. repo'[n] = repo[n] /\ logins \subseteq logins'
    BY <1>1, <1>2, <1>6
  <2>3. Registered(g, n)'
    BY <1>1, <1>3, <2>1, <2>2 DEF Registered, RepoKinds
  <2> QED BY <1>1, <2>1, <2>3 DEF Provided
<1> QED BY <1>5, <1>6

\* No other step touches what helm has on disk.
LEMMA ReposUntouched ==
  ASSUME UNCHANGED <<run, repo, logins>>, NEW n
  PROVE  Provided(n)' <=> Provided(n)
<1>1. \A g \in Files : Registered(g, n)' <=> Registered(g, n)
  BY DEF Registered, Kind
<1> QED BY <1>1 DEF Provided

\* A repository stays what some state file says, though its URL may change to
\* that of another one; what is recorded as added is.
LEMMA ReposStay ==
  ASSUME ReposInv, NEW f \in Files, HelmStep(f), run' = run, NEW n \in Repos
  PROVE  /\ Provided(n) => Provided(n)'
         /\ n \in updated' => Provided(n)'
<1> USE DEF ReposInv, repoVars
<1>1. CASE LoadEnvironment(f) \/ Begin(f) \/ SkipRepos(f) \/ LockRepos(f)
  BY <1>1, ReposUntouched DEF LoadEnvironment, Begin, SkipRepos, LockRepos
<1>2. CASE \E m \in Repos : AddRepo(f, m)
  BY <1>2, AddRepoProvides DEF AddRepo
<1>3. CASE AddRepoFails(f)
  BY <1>3, ReposUntouched DEF AddRepoFails
<1>4. CASE ReposAdded(f)
  BY <1>4, ReposUntouched DEF ReposAdded, ReposOK
<1>5. CASE FilterArgs(f) \/ BuildDeps(f) \/ SetArgs(f)
  BY <1>5, ReposUntouched DEF FilterArgs, BuildDeps, SetArgs
<1>6. CASE Miss(f) \/ Hit(f) \/ Decrypt(f) \/ ReadSecret(f)
  BY <1>6, ReposUntouched DEF Miss, Hit, Decrypt, ReadSecret
<1>7. CASE RunHelm(f) \/ ReadResults(f) \/ WriteResults(f) \/ MergeResults(f)
  BY <1>7, ReposUntouched DEF RunHelm, ReadResults, WriteResults, MergeResults
<1> QED BY <1>1, <1>2, <1>3, <1>4, <1>5, <1>6, <1>7 DEF HelmStep

\* A state file leaves SyncReposOnce with its repositories as some state file
\* says.
LEMMA ReposKept ==
  ASSUME ReposInv, NEW f \in Files, HelmStep(f), run' = run
  PROVE  ReposOK(f)'
<1> DEFINE Past == loaded[f] /\ stage[f] \notin {"repos", "adding", "failed"}
<1>0. \A n \in Repos : Provided(n) => Provided(n)'
  BY ReposStay
<1>a. run.repos[f] \subseteq Repos /\ batch[f] \subseteq Repos
  BY InputTypes DEF ReposInv, TypeInv, HelmTypeOK
<1>b. TypeInv /\ \A n \in batch[f] : Provided(n)
  BY DEF ReposInv, ReposOK
<1>c. Past => \A n \in run.repos[f] : Provided(n)
  BY DEF ReposInv, ReposOK
<1>d. SUFFICES /\ \A n \in batch'[f] : Provided(n)'
               /\ Past' => Past \/ \A n \in run.repos[f] : Provided(n)'
  BY <1>0, <1>a, <1>c DEF ReposOK
<1> USE DEF TypeInv, HelmTypeOK, Asks, Asking, At, Go, repoVars
<1>1. CASE LoadEnvironment(f) \/ Begin(f)
  BY <1>0, <1>a, <1>b, <1>1 DEF LoadEnvironment, Begin
<1>2. CASE SkipRepos(f) \/ LockRepos(f)
  BY <1>0, <1>a, <1>b, <1>2 DEF SkipRepos, LockRepos
<1>3. CASE \E m \in Repos : AddRepo(f, m)
  <2>1. PICK m \in Repos : AddRepo(f, m)
    BY <1>3
  <2>2. Provided(m)' /\ batch'[f] = batch[f] \cup {m} /\ stage'[f] = "adding"
    BY <1>b, <2>1, AddRepoProvides DEF AddRepo
  <2> QED BY <1>0, <1>a, <1>b, <2>2
<1>4. CASE AddRepoFails(f)
  BY <1>0, <1>a, <1>b, <1>4 DEF AddRepoFails
<1>5. CASE ReposAdded(f)
  <2>1. \A n \in run.repos[f] : n \in updated \cup batch[f]
    BY <1>5 DEF ReposAdded, ToAdd
  <2>2. \A n \in run.repos[f] : Provided(n)
    BY <1>b, <2>1 DEF ReposInv
  <2>3. batch' = batch
    BY <1>5 DEF ReposAdded
  <2> QED BY <1>0, <1>a, <1>b, <2>2, <2>3
<1>6. CASE FilterArgs(f) \/ BuildDeps(f) \/ SetArgs(f)
  BY <1>0, <1>a, <1>b, <1>6 DEF FilterArgs, BuildDeps, SetArgs
<1>7. CASE Miss(f) \/ Hit(f) \/ Decrypt(f) \/ ReadSecret(f)
  BY <1>0, <1>a, <1>b, <1>7 DEF Miss, Hit, Decrypt, ReadSecret
<1>8. CASE RunHelm(f) \/ ReadResults(f) \/ WriteResults(f) \/ MergeResults(f)
  BY <1>0, <1>a, <1>b, <1>8 DEF RunHelm, ReadResults, WriteResults, MergeResults
<1> QED BY <1>1, <1>2, <1>3, <1>4, <1>5, <1>6, <1>7, <1>8 DEF HelmStep

\* Every step keeps what is known of the repositories; so does the end of the
\* process, which they outlive.
LEMMA ReposNext == ReposInv /\ [SharedNext]_sharedVars => ReposInv'
<1> SUFFICES ASSUME ReposInv, [SharedNext]_sharedVars PROVE ReposInv'
  OBVIOUS
<1>0. run' = run /\ TypeInv'
  BY SameInput, TypeNext DEF ReposInv
<1>1. ASSUME NEW f \in Files, Process(f) PROVE ReposInv'
  <2>0. HelmStep(f)
    BY <1>1 DEF Process
  <2>1. \A n \in updated' : Provided(n)'
    BY <1>0, <2>0, ReposStay DEF TypeInv, HelmTypeOK
  <2>2. ReposOK(f)'
    BY <1>0, <2>0, ReposKept
  <2>3. ASSUME NEW g \in Files, g # f PROVE ReposOK(g)'
    <3>1. stage'[g] = stage[g] /\ loaded'[g] = loaded[g] /\ batch'[g] = batch[g]
      BY <2>0, <2>3, HelmFrame DEF ReposInv
    <3>2. run.repos[g] \subseteq Repos /\ batch[g] \subseteq Repos
      BY InputTypes DEF ReposInv, TypeInv, HelmTypeOK
    <3>3. \A n \in Repos : Provided(n) => Provided(n)'
      BY <1>0, <2>0, ReposStay
    <3>4. ReposOK(g)
      BY DEF ReposInv
    <3> QED BY <1>0, <3>1, <3>2, <3>3, <3>4 DEF ReposOK
  <2> QED BY <1>0, <2>1, <2>2, <2>3 DEF ReposInv
<1>2. CASE Restart
  BY <1>0, <1>2 DEF Restart, HelmAnew, ReposInv, ReposOK
<1>3. CASE (\E f \in Files : Load(f)) \/ Kill \/ Ended \/ UNCHANGED sharedVars
  <2>1. UNCHANGED helmVars
    BY <1>3 DEF Load, Kill, Ended, sharedVars
  <2>2. UNCHANGED <<run, repo, logins, updated, batch, stage, loaded>>
    BY <2>1 DEF helmVars
  <2>3. \A n \in updated : Provided(n)'
    BY <2>2, ReposUntouched DEF ReposInv
  <2>4. ASSUME NEW f \in Files PROVE ReposOK(f)'
    BY <2>2, ReposUntouched DEF ReposInv, ReposOK
  <2> QED BY <1>0, <2>2, <2>3, <2>4 DEF ReposInv
<1> QED BY <1>1, <1>2, <1>3 DEF SharedNext

\* A state file past its repositories finds each of them as it says or as
\* another state file says that gives the same name another meaning, whatever
\* failed before, in this process or an earlier one: SyncReposOnce.
THEOREM FindsRepos == SharedSpec => []ReposReady
<1>1. SharedInit => ReposInv
  <2> SUFFICES ASSUME SharedInit PROVE ReposInv
    OBVIOUS
  <2> QED BY TypeInit DEF SharedInit, HelmInit, ReposInv, ReposOK
<1>2. ReposInv => ReposReady
  BY DEF ReposInv, ReposOK, Provided, ReposReady
<1> QED BY <1>1, <1>2, ReposNext, PTL DEF SharedSpec

-----------------------------------------------------------------------------
(* One state file after the other *)

InOrder(f) ==
  /\ stage[f] # "start" => Fetched(f)
  /\ ~run.parallel => \A g \in Files : g < f /\ fetch[f] # "start" => stage[g] = "done"

OrderInv == TypeInv /\ \A f \in Files : InOrder(f)

\* Without parallelism no other state file is under way with the one that moves.
LEMMA OthersAtRest ==
  ASSUME OrderInv, ~run.parallel, NEW f \in Files, Load(f) \/ Process(f), NEW g \in Files, g # f
  PROVE  fetch[g] \in {"start", "done"} /\ stage[g] \in {"start", "done"}
<1>1. f \in Nat /\ g \in Nat /\ (g < f \/ f < g)
  BY StateFilesAssumption DEF Files
<1>2. stage[f] # "done" /\ (stage[f] # "start" => Fetched(f))
  <2>1. stage[f] # "start" => Fetched(f)
    BY DEF OrderInv, InOrder
  <2>2. ASSUME Load(f) PROVE ~Fetched(f)
    BY <2>2, FetchFrame DEF Load, Fetched, OrderInv
  <2>3. ASSUME Process(f) PROVE stage[f] # "done"
    BY <2>3, HelmFrame DEF Process, OrderInv
  <2> QED BY <2>1, <2>2, <2>3
<1>3. CASE f < g
  BY <1>2, <1>3 DEF OrderInv, InOrder, Fetched
<1>4. CASE g < f
  <2>1. stage[g] = "done"
    <3>1. CASE Load(f)
      <4>1. g \in 1..(f - 1)
        BY <1>1, <1>4 DEF Files
      <4> QED BY <3>1, <4>1 DEF Load, Turn, Succeeded, At
    <3>2. CASE Process(f)
      BY <1>4, <3>2 DEF Process, Fetched, OrderInv, InOrder
    <3> QED BY <3>1, <3>2
  <2> QED BY <2>1 DEF OrderInv, InOrder, Fetched
<1> QED BY <1>1, <1>3, <1>4

\* Every step keeps the order.
LEMMA OrderNext == OrderInv /\ [SharedNext]_sharedVars => OrderInv'
<1> SUFFICES ASSUME OrderInv, [SharedNext]_sharedVars PROVE OrderInv'
  OBVIOUS
<1>0. run' = run /\ TypeInv'
  BY SameInput, TypeNext DEF OrderInv
<1>1. ASSUME NEW f \in Files, Load(f), NEW h \in Files PROVE InOrder(h)'
  <2>1. stage' = stage /\ FetchStep(f) /\ Turn(f)
    BY <1>1 DEF Load, helmVars
  <2>2. fetch[f] # "done" /\ \A g \in Files : g # f => fetch'[g] = fetch[g]
    BY <2>1, FetchFrame DEF OrderInv
  <2>3. CASE h # f
    BY <1>0, <2>1, <2>2, <2>3 DEF OrderInv, InOrder, Fetched
  <2>4. CASE h = f
    <3>1. stage[f] = "start"
      BY <2>2 DEF OrderInv, InOrder, Fetched
    <3>2. ASSUME ~run.parallel, NEW g \in Files, g < f PROVE stage[g] = "done"
      <4>1. g \in 1..(f - 1)
        BY <3>2, StateFilesAssumption DEF Files
      <4> QED BY <2>1, <3>2, <4>1 DEF Turn, Succeeded, At
    <3> QED BY <1>0, <2>1, <2>4, <3>1, <3>2 DEF InOrder
  <2> QED BY <2>3, <2>4
<1>2. ASSUME NEW f \in Files, Process(f), NEW h \in Files PROVE InOrder(h)'
  <2>1. fetch' = fetch /\ fetch[f] = "done" /\ HelmStep(f)
    BY <1>2 DEF Process, remoteVars, Fetched
  <2>2. stage[f] # "done" /\ \A g \in Files : g # f => stage'[g] = stage[g]
    BY <2>1, HelmFrame DEF OrderInv
  <2> QED BY <1>0, <2>1, <2>2 DEF OrderInv, InOrder, Fetched
<1>3. CASE Restart
  BY <1>0, <1>3 DEF Restart, FetchAnew, HelmAnew, OrderInv, InOrder
<1>4. CASE Kill \/ Ended \/ UNCHANGED sharedVars
  BY <1>0, <1>4 DEF Kill, Ended, sharedVars, remoteVars, helmVars, OrderInv, InOrder, Fetched
<1> QED BY <1>0, <1>1, <1>2, <1>3, <1>4 DEF SharedNext, OrderInv

\* At the start no state file is under way.
LEMMA OrderInit == SharedInit => OrderInv
<1> SUFFICES ASSUME SharedInit PROVE OrderInv
  OBVIOUS
<1> QED BY TypeInit DEF SharedInit, RemoteInit, HelmInit, OrderInv, InOrder

-----------------------------------------------------------------------------
(* Extra arguments, of one state file after the other *)

Unprepared == {"repos", "adding", "deps", "building", "args"}

ArgsOK(f) ==
  /\ stage[f] \in Asking \cup {"running"} /\ loaded[f] => extra = run.args[f]
  /\ stage[f] \in {"merging", "writing", "done"} => during[f] = run.args[f]
  /\ run.cmd = "template" =>
       /\ before[f] = {}
       /\ (stage[f] \in Unprepared => extra = {})
       /\ (stage[f] = "building" => saved[f] = {})

ArgsInv == OrderInv /\ (~run.parallel => \A f \in Files : ArgsOK(f))

\* The state file that moves has its own arguments, once the command has set them.
LEMMA ArgsKept ==
  ASSUME TypeInv, NEW f \in Files, ArgsOK(f), HelmStep(f), run' = run
  PROVE  ArgsOK(f)'
<1> USE DEF TypeInv, HelmTypeOK, ArgsOK, Asks, Asking, Decrypted, Unprepared, At, Go, Calls, ExecBefore, argVars
<1>1. CASE LoadEnvironment(f) \/ Begin(f)
  BY <1>1 DEF LoadEnvironment, Begin
<1>2. CASE SkipRepos(f) \/ LockRepos(f)
  BY <1>2 DEF SkipRepos, LockRepos
<1>3. CASE \E n \in Repos : AddRepo(f, n)
  BY <1>3 DEF AddRepo
<1>4. CASE AddRepoFails(f) \/ ReposAdded(f)
  BY <1>4 DEF AddRepoFails, ReposAdded
<1>5. CASE FilterArgs(f)
  BY <1>5 DEF FilterArgs
<1>6. CASE BuildDeps(f)
  BY <1>6 DEF BuildDeps
<1>7. CASE SetArgs(f)
  BY <1>7 DEF SetArgs
<1>8. CASE Miss(f) \/ Hit(f) \/ ReadSecret(f)
  BY <1>8 DEF Miss, Hit, ReadSecret
<1>9. CASE Decrypt(f)
  BY <1>9 DEF Decrypt
<1>10. CASE RunHelm(f)
  BY <1>10 DEF RunHelm
<1>11. CASE ReadResults(f) \/ WriteResults(f) \/ MergeResults(f)
  BY <1>11 DEF ReadResults, WriteResults, MergeResults
<1> QED BY <1>1, <1>2, <1>3, <1>4, <1>5, <1>6, <1>7, <1>8, <1>9, <1>10, <1>11 DEF HelmStep

\* Every step keeps the arguments apart.
LEMMA ArgsNext == ArgsInv /\ [SharedNext]_sharedVars => ArgsInv'
<1> SUFFICES ASSUME ArgsInv, [SharedNext]_sharedVars PROVE ArgsInv'
  OBVIOUS
<1>0. run' = run /\ OrderInv' /\ OrderInv /\ TypeInv
  BY SameInput, OrderNext DEF ArgsInv, OrderInv
<1>1. ASSUME NEW f \in Files, Process(f), ~run.parallel, NEW g \in Files PROVE ArgsOK(g)'
  <2>0. HelmStep(f)
    BY <1>1 DEF Process
  <2>1. CASE g = f
    BY <1>0, <1>1, <2>0, <2>1, ArgsKept DEF ArgsInv
  <2>2. CASE g # f
    <3>1. stage[g] \in {"start", "done"}
      BY <1>0, <1>1, <2>2, OthersAtRest
    <3>2. /\ stage'[g] = stage[g] /\ saved'[g] = saved[g] /\ before'[g] = before[g]
          /\ during'[g] = during[g]
      BY <1>0, <2>0, <2>2, HelmFrame
    <3> QED BY <1>0, <1>1, <3>1, <3>2 DEF ArgsInv, ArgsOK, Unprepared, Asking
  <2> QED BY <2>1, <2>2
<1>2. ASSUME Restart, NEW g \in Files PROVE ArgsOK(g)'
  BY <1>2 DEF Restart, HelmAnew, ArgsOK, Unprepared, Asking
<1>3. ASSUME (\E f \in Files : Load(f)) \/ Kill \/ Ended \/ UNCHANGED sharedVars,
             ~run.parallel, NEW g \in Files
      PROVE  ArgsOK(g)'
  BY <1>3 DEF Load, Kill, Ended, sharedVars, helmVars, ArgsInv, ArgsOK
<1> QED BY <1>0, <1>1, <1>2, <1>3 DEF SharedNext, ArgsInv

\* State files processed one after the other call helm with their own
\* arguments, and template with none before its own: GetArgs, SetExtraArgs and
\* the restoration of BuildDeps and UpdateDeps.
THEOREM OwnArgs == SharedSpec => []ArgsOwn
<1>1. SharedInit => ArgsInv
  <2> SUFFICES ASSUME SharedInit PROVE ArgsInv
    OBVIOUS
  <2> QED BY OrderInit DEF SharedInit, HelmInit, ArgsInv, ArgsOK, Unprepared, Asking
<1>2. ArgsInv => ArgsOwn
  BY DEF ArgsInv, ArgsOK, ArgsOwn, At, Asking
<1> QED BY <1>1, <1>2, ArgsNext, PTL DEF SharedSpec

-----------------------------------------------------------------------------
(* Results *)

\* Commands whose results are merged in turn.
Merged == (~run.parallel \/ run.cmd = "apply") /\ run.cmd \in {"diff", "lint", "apply"}

Told == affected <=> \E f \in run.changed : stage[f] = "done"

SnapOK(f) ==
  /\ run.cmd = "apply" => stage[f] # "writing"
  /\ stage[f] = "writing" => snap[f] = affected

ResultInv ==
  /\ OrderInv
  /\ Merged => Told /\ \A f \in Files : SnapOK(f)

\* A state file is done when its result is merged, and no sooner.
LEMMA MergedLast ==
  ASSUME TypeInv, NEW f \in Files, SnapOK(f), HelmStep(f),
         run.cmd \in {"diff", "lint", "apply"}, run' = run
  PROVE  /\ SnapOK(f)'
         /\ \/ stage'[f] # "done" /\ affected' = affected
            \/ stage'[f] = "done" /\ affected' = (affected \/ f \in run.changed)
<1> USE DEF TypeInv, HelmTypeOK, SnapOK, At, Go, resultVars
<1>1. CASE LoadEnvironment(f) \/ Begin(f) \/ SkipRepos(f) \/ LockRepos(f)
  BY <1>1 DEF LoadEnvironment, Begin, SkipRepos, LockRepos
<1>2. CASE (\E n \in Repos : AddRepo(f, n)) \/ AddRepoFails(f) \/ ReposAdded(f)
  BY <1>2 DEF AddRepo, AddRepoFails, ReposAdded
<1>3. CASE FilterArgs(f) \/ BuildDeps(f) \/ SetArgs(f)
  BY <1>3 DEF FilterArgs, BuildDeps, SetArgs
<1>4. CASE Miss(f) \/ Hit(f) \/ Decrypt(f) \/ ReadSecret(f)
  BY <1>4 DEF Miss, Hit, Decrypt, Decrypted, ReadSecret
<1>5. CASE RunHelm(f)
  BY <1>5 DEF RunHelm
<1>6. CASE ReadResults(f)
  BY <1>6 DEF ReadResults
<1>7. CASE WriteResults(f)
  BY <1>7 DEF WriteResults
<1>8. CASE MergeResults(f)
  BY <1>8 DEF MergeResults
<1> QED BY <1>1, <1>2, <1>3, <1>4, <1>5, <1>6, <1>7, <1>8 DEF HelmStep

\* Every step keeps the result that of the state files done.
LEMMA ResultNext == ResultInv /\ [SharedNext]_sharedVars => ResultInv'
<1> SUFFICES ASSUME ResultInv, [SharedNext]_sharedVars PROVE ResultInv'
  OBVIOUS
<1>0. run' = run /\ OrderInv' /\ OrderInv /\ TypeInv /\ (Merged' <=> Merged)
  BY SameInput, OrderNext DEF ResultInv, OrderInv, Merged
<1>1. ASSUME NEW f \in Files, Process(f), Merged PROVE Told' /\ \A g \in Files : SnapOK(g)'
  <2>0. HelmStep(f) /\ stage[f] # "done" /\ run.cmd \in {"diff", "lint", "apply"}
    BY <1>0, <1>1, HelmFrame DEF Process, Merged
  <2>1. /\ SnapOK(f)'
        /\ \/ stage'[f] # "done" /\ affected' = affected
           \/ stage'[f] = "done" /\ affected' = (affected \/ f \in run.changed)
    BY <1>0, <1>1, <2>0, MergedLast DEF ResultInv
  <2>2. \A g \in Files : g # f => stage'[g] = stage[g] /\ snap'[g] = snap[g]
    BY <1>0, <2>0, HelmFrame
  <2>3. run.changed \subseteq Files
    BY <1>0, InputTypes
  <2>4. Told'
    <3>1. \A g \in run.changed : g # f => stage'[g] = stage[g]
      BY <2>2, <2>3
    <3>2. affected <=> \E g \in run.changed : stage[g] = "done"
      BY <1>1 DEF ResultInv, Told
    <3>3. affected' <=> \E g \in run.changed : stage'[g] = "done"
      <4>1. CASE stage'[f] # "done" /\ affected' = affected
        <5>1. \A g \in run.changed : stage'[g] = "done" <=> stage[g] = "done"
          BY <2>0, <3>1, <4>1
        <5> QED BY <3>2, <4>1, <5>1
      <4>2. CASE stage'[f] = "done" /\ affected' = (affected \/ f \in run.changed)
        <5>1. CASE f \in run.changed
          BY <4>2, <5>1, Zenon
        <5>2. CASE f \notin run.changed
          <6>1. \A g \in run.changed : stage'[g] = stage[g]
            BY <3>1, <5>2
          <6>2. affected' <=> affected
            BY <4>2, <5>2, Zenon
          <6> QED BY <3>2, <6>1, <6>2
        <5> QED BY <5>1, <5>2
      <4> QED BY <2>1, <4>1, <4>2
    <3> QED BY <1>0, <3>3 DEF Told
  <2>5. ASSUME NEW g \in Files, g # f PROVE SnapOK(g)'
    <3>1. CASE run.cmd = "apply"
      BY <1>0, <1>1, <2>2, <2>5, <3>1 DEF ResultInv, SnapOK
    <3>2. CASE ~run.parallel
      <4>1. stage[g] \in {"start", "done"}
        BY <1>0, <1>1, <2>5, <3>2, OthersAtRest
      <4> QED BY <2>2, <2>5, <4>1 DEF SnapOK
    <3> QED BY <1>1, <3>1, <3>2 DEF Merged
  <2> QED BY <2>1, <2>4, <2>5
<1>2. ASSUME Restart PROVE Told' /\ \A g \in Files : SnapOK(g)'
  <2>1. run'.changed \subseteq Files
    BY <1>0, InputTypes
  <2> QED BY <1>2, <2>1 DEF Restart, HelmAnew, Told, SnapOK
<1>3. ASSUME (\E f \in Files : Load(f)) \/ Kill \/ Ended \/ UNCHANGED sharedVars, Merged
      PROVE  Told' /\ \A g \in Files : SnapOK(g)'
  BY <1>3 DEF Load, Kill, Ended, sharedVars, helmVars, ResultInv, Told, SnapOK
<1> QED BY <1>0, <1>1, <1>2, <1>3 DEF SharedNext, ResultInv

\* When all state files are processed, the command knows whether one of them
\* had something to report - of Apply with its mutex, and of Diff and Lint
\* without one when they process one state file after the other.
THEOREM TellsResults == SharedSpec => []ResultsTold
<1>1. SharedInit => ResultInv
  <2> SUFFICES ASSUME SharedInit PROVE ResultInv
    OBVIOUS
  <2>1. OrderInv /\ run.changed \subseteq Files
    BY OrderInit, InputTypes DEF OrderInv
  <2> QED BY <2>1 DEF SharedInit, HelmInit, ResultInv, Told, SnapOK
<1>2. ResultInv => ResultsTold
  <2> SUFFICES ASSUME ResultInv, \A f \in Files : Succeeded(f), Merged PROVE affected = (run.changed # {})
    BY DEF ResultsTold, Merged
  <2>1. run.changed \subseteq Files
    BY InputTypes DEF ResultInv, OrderInv
  <2>2. affected \in BOOLEAN
    BY DEF ResultInv, OrderInv, TypeInv, HelmTypeOK
  <2> QED BY <2>1, <2>2 DEF ResultInv, Told, Succeeded, At
<1> QED BY <1>1, <1>2, ResultNext, PTL DEF SharedSpec

-----------------------------------------------------------------------------
(* Remote files *)

\* Where the entry of the cache may be written.
Writing == {"head", "create", "writing", "pulling", "removing"}
Wrong == src.kind = "http" \/ src.start = "wrong"

LoadOK(f) ==
  /\ entry = "blocked" => fetch[f] \in {"start", "look", "done", "failed"}
  /\ Fetched(f) /\ src.kind # "noURL" => got[f] \in {"whole", "partial", "wrong"}
  /\ got[f] = "wrong" => Wrong

\* One after the other: what is incomplete is being written, or known to be cut short;
\* and when it was loaded, nobody writes it any more.
TurnOK(f) ==
  /\ fetch[f] = "pulling" => entry = "partial"
  /\ fetch[f] = "use" /\ entry = "partial" => cut /\ ~src.again
  /\ got[f] = "partial" => /\ cut /\ entry = "partial" /\ ~src.again
                           /\ \A g \in Files : fetch[g] \notin Writing

LoadInv ==
  /\ OrderInv
  /\ entry = "wrong" => Wrong
  /\ \A f \in Files : LoadOK(f)
  /\ ~run.parallel =>
       /\ (entry = "partial" => cut \/ \E f \in Files : Midway(f))
       /\ \A f \in Files : TurnOK(f)

\* What is loaded is in the cache, and what is wrong there has come from the
\* server or from before.
LEMMA LoadKept ==
  ASSUME LoadInv, NEW f \in Files, FetchStep(f), src' = src
  PROVE  /\ entry' = "wrong" => Wrong
         /\ entry' = "blocked" => entry = "blocked"
         /\ LoadOK(f)'
<1> USE DEF LoadInv, LoadOK, Wrong, OrderInv, TypeInv, RemoteTypeOK, Content, Step, Fetched
<1>1. CASE Locate(f)
  BY <1>1 DEF Locate
<1>2. CASE Look(f) \/ Pull(f)
  BY <1>2 DEF Look, Pull
<1>3. CASE Pulled(f) \/ PullFails(f) \/ RemoveEntry(f)
  BY <1>3 DEF Pulled, PullFails, RemoveEntry
<1>4. CASE AskServer(f) \/ Create(f)
  BY <1>4 DEF AskServer, Create
<1>5. CASE Write(f)
  BY <1>5 DEF Write
<1>6. CASE Use(f)
  BY <1>6 DEF Use
<1> QED BY <1>1, <1>2, <1>3, <1>4, <1>5, <1>6 DEF FetchStep

\* An incomplete entry nobody writes any more stays what it is.
LEMMA Settled ==
  ASSUME TypeInv, entry = "partial", ~src.again, NEW f \in Files, fetch[f] \notin Writing, FetchStep(f)
  PROVE  entry' = entry /\ cut' = cut /\ fetch'[f] \notin Writing
<1> USE DEF Writing, Step, TypeInv, RemoteTypeOK
<1>1. CASE Locate(f)
  BY <1>1 DEF Locate
<1>2. CASE Look(f) \/ Pull(f)
  BY <1>2 DEF Look, Pull, Cached
<1>3. CASE Pulled(f) \/ PullFails(f) \/ RemoveEntry(f)
  BY <1>3 DEF Pulled, PullFails, RemoveEntry
<1>4. CASE AskServer(f) \/ Create(f) \/ Write(f)
  BY <1>4 DEF AskServer, Create, Write
<1>5. CASE Use(f)
  BY <1>5 DEF Use
<1> QED BY <1>1, <1>2, <1>3, <1>4, <1>5 DEF FetchStep

\* One after the other, an incomplete entry is being written, or known to be
\* cut short.
LEMMA PartialKnown ==
  ASSUME LoadInv, ~run.parallel, NEW f \in Files, FetchStep(f),
         \A g \in Files : g # f => fetch[g] \in {"start", "done"}
  PROVE  /\ entry' = "partial" => cut' \/ Midway(f)'
         /\ fetch'[f] = "pulling" => entry' = "partial"
         /\ fetch'[f] = "use" /\ entry' = "partial" => cut' /\ ~src.again
         /\ got'[f] = "partial" =>
              \/ got[f] = "partial"
              \/ /\ fetch[f] = "use" /\ fetch'[f] = "done"
                 /\ entry = "partial" /\ entry' = entry /\ cut' = cut
<1>1. entry = "partial" => cut \/ Midway(f)
  BY DEF LoadInv, Midway
<1> USE DEF LoadInv, TurnOK, OrderInv, TypeInv, RemoteTypeOK, Content, Step, Midway
<1>2. CASE Locate(f)
  BY <1>1, <1>2 DEF Locate
<1>3. CASE Look(f)
  BY <1>1, <1>3 DEF Look, Cached
<1>4. CASE Pull(f)
  BY <1>4 DEF Pull
<1>5. CASE Pulled(f) \/ PullFails(f) \/ RemoveEntry(f)
  BY <1>1, <1>5 DEF Pulled, PullFails, RemoveEntry
<1>6. CASE AskServer(f) \/ Create(f)
  BY <1>1, <1>6 DEF AskServer, Create
<1>7. CASE Write(f)
  BY <1>1, <1>7 DEF Write
<1>8. CASE Use(f)
  BY <1>1, <1>8 DEF Use
<1> QED BY <1>2, <1>3, <1>4, <1>5, <1>6, <1>7, <1>8 DEF FetchStep

\* The same of each state file that has loaded what the cache had.
LEMMA TurnsKept ==
  ASSUME LoadInv, ~run.parallel, NEW f \in Files, Load(f), src' = src
  PROVE  /\ entry' = "partial" => cut' \/ \E g \in Files : Midway(g)'
         /\ \A g \in Files : TurnOK(g)'
<1>1. FetchStep(f) /\ OrderInv /\ TypeInv
  BY DEF Load, LoadInv, OrderInv
<1>2. \A g \in Files : g # f => fetch[g] \in {"start", "done"}
  BY <1>1, OthersAtRest
<1>3. /\ entry' = "partial" => cut' \/ Midway(f)'
      /\ fetch'[f] = "pulling" => entry' = "partial"
      /\ fetch'[f] = "use" /\ entry' = "partial" => cut' /\ ~src.again
      /\ got'[f] = "partial" =>
           \/ got[f] = "partial"
           \/ /\ fetch[f] = "use" /\ fetch'[f] = "done"
              /\ entry = "partial" /\ entry' = entry /\ cut' = cut
  BY <1>1, <1>2, PartialKnown
<1>4. \A g \in Files : g # f => fetch'[g] = fetch[g] /\ got'[g] = got[g]
  BY <1>1, FetchFrame
<1>5. ASSUME NEW g \in Files, got[g] = "partial"
      PROVE  cut' /\ entry' = "partial" /\ ~src.again /\ \A h \in Files : fetch'[h] \notin Writing
  <2>1. cut /\ entry = "partial" /\ ~src.again /\ \A h \in Files : fetch[h] \notin Writing
    BY <1>5 DEF LoadInv, TurnOK
  <2>2. entry' = entry /\ cut' = cut /\ fetch'[f] \notin Writing
    BY <1>1, <2>1, Settled
  <2> QED BY <1>4, <2>1, <2>2
<1>6. TurnOK(f)'
  <2>1. CASE got'[f] # "partial"
    BY <1>3, <2>1 DEF TurnOK
  <2>2. CASE got[f] = "partial"
    BY <1>3, <1>5, <2>2 DEF TurnOK
  <2>3. CASE /\ fetch[f] = "use" /\ fetch'[f] = "done"
             /\ entry = "partial" /\ entry' = entry /\ cut' = cut
    <3>1. cut /\ ~src.again
      BY <2>3 DEF LoadInv, TurnOK
    <3>2. \A h \in Files : fetch'[h] \notin Writing
      BY <1>2, <1>4, <2>3 DEF Writing
    <3> QED BY <2>3, <3>1, <3>2 DEF TurnOK
  <2> QED BY <1>3, <2>1, <2>2, <2>3
<1>7. ASSUME NEW g \in Files, g # f PROVE TurnOK(g)'
  <2>1. fetch'[g] \notin {"pulling", "use"}
    BY <1>2, <1>4, <1>7
  <2> QED BY <1>4, <1>5, <1>7, <2>1 DEF TurnOK
<1> QED BY <1>3, <1>6, <1>7

\* A new process finds a download cut short where one was under way.
LEMMA LoadAnew == LoadInv /\ Restart => LoadInv'
<1> SUFFICES ASSUME LoadInv, Restart PROVE LoadInv'
  OBVIOUS
<1>0. src' = src /\ run' = run /\ OrderInv'
  BY SameInput, OrderNext DEF LoadInv, SharedNext
<1>1. /\ entry' = entry
      /\ cut' = (cut \/ (entry = "partial" /\ \E f \in Files : Midway(f)))
      /\ \A f \in Files : fetch'[f] = "start" /\ got'[f] = "none"
  BY DEF Restart, FetchAnew
<1>2. (entry' = "wrong" => Wrong') /\ \A f \in Files : LoadOK(f)'
  BY <1>0, <1>1 DEF LoadInv, LoadOK, Wrong, Fetched
<1>3. \A f \in Files : TurnOK(f)'
  BY <1>1 DEF TurnOK
<1>4. ~run.parallel /\ entry = "partial" => cut \/ \E f \in Files : Midway(f)
  BY DEF LoadInv
<1> QED BY <1>0, <1>1, <1>2, <1>3, <1>4 DEF LoadInv

\* Every step keeps what is known of the cache.
LEMMA LoadNext == LoadInv /\ [SharedNext]_sharedVars => LoadInv'
<1> SUFFICES ASSUME LoadInv, [SharedNext]_sharedVars PROVE LoadInv'
  OBVIOUS
<1>0. src' = src /\ run' = run /\ OrderInv' /\ TypeInv
  BY SameInput, OrderNext DEF LoadInv, OrderInv
<1>1. ASSUME NEW f \in Files, Load(f) PROVE LoadInv'
  <2>0. FetchStep(f)
    BY <1>1 DEF Load
  <2>1. (entry' = "wrong" => Wrong) /\ (entry' = "blocked" => entry = "blocked") /\ LoadOK(f)'
    BY <1>0, <2>0, LoadKept
  <2>2. \A g \in Files : g # f => fetch'[g] = fetch[g] /\ got'[g] = got[g]
    BY <1>0, <2>0, FetchFrame
  <2>3. \A g \in Files : LoadOK(g)'
    BY <1>0, <2>1, <2>2 DEF LoadInv, LoadOK, Wrong, Fetched
  <2>4. ~run.parallel =>
          /\ entry' = "partial" => cut' \/ \E g \in Files : Midway(g)'
          /\ \A g \in Files : TurnOK(g)'
    BY <1>0, <1>1, TurnsKept
  <2> QED BY <1>0, <2>1, <2>3, <2>4 DEF LoadInv, Wrong
<1>2. CASE Restart
  BY <1>2, LoadAnew
<1>3. CASE (\E f \in Files : Process(f)) \/ Kill \/ Ended \/ UNCHANGED sharedVars
  <2>1. src' = src /\ entry' = entry /\ cut' = cut /\ fetch' = fetch /\ got' = got
    BY <1>3 DEF Process, Kill, Ended, sharedVars, remoteVars
  <2> QED BY <1>0, <2>1 DEF LoadInv, LoadOK, TurnOK, Wrong, Fetched, Midway
<1> QED BY <1>1, <1>2, <1>3 DEF SharedNext

\* A state file loads a whole remote file, or none, but for the exceptions
\* LoadsWhole names: Locate and Fetch, their failures, crashes and retries.
THEOREM LoadsWholeFiles == SharedSpec => []LoadsWhole
<1>1. SharedInit => LoadInv
  <2> SUFFICES ASSUME SharedInit PROVE LoadInv
    OBVIOUS
  <2>1. OrderInv
    BY OrderInit
  <2>2. (entry = "wrong" => Wrong) /\ (\A f \in Files : LoadOK(f))
    BY DEF SharedInit, RemoteInit, LoadOK, Wrong, Fetched
  <2>3. (entry = "partial" => cut) /\ \A f \in Files : TurnOK(f)
    BY DEF SharedInit, RemoteInit, TurnOK
  <2> QED BY <2>1, <2>2, <2>3 DEF LoadInv
<1>2. LoadInv => LoadsWhole
  BY DEF LoadInv, LoadOK, TurnOK, Wrong, LoadsWhole
<1> QED BY <1>1, <1>2, LoadNext, PTL DEF SharedSpec
=============================================================================
