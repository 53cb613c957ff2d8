----------------------------- MODULE MCShared -----------------------------
(* Shared with two state files.  The sources vary with one kind of run, the  *)
(* runs with a local source.                                                 *)
EXTENDS Shared, TLC

CONSTANTS a, b, general, main, stable, s1, s2

MCRepos   == {main, stable}
MCUrls    == {a, b}
MCSecrets == {s1, s2}
MCArgs    == {a, b, general}

Source(kind, again, start) == [kind |-> kind, again |-> again, denied |-> FALSE, start |-> start]
Local == Source("local", FALSE, "none")
MCSources ==
  {Source(kind, again, start) : kind \in {"dir", "http", "s3"}, again \in BOOLEAN,
                                start \in {"none", "partial", "whole"}}
  \cup {Source(kind, FALSE, "none") : kind \in {"local", "noURL", "badScheme"}}
  \cup {Source("dir", FALSE, "blocked"), [Source("dir", FALSE, "none") EXCEPT !.denied = TRUE]}

Each(x, y) == (1 :> x) @@ (2 :> y)
None      == Each({}, {})
NoSecrets == Each(NoSecret, NoSecret)

RunWith(cmd, parallel, args, repos, url, secrets) ==
  [cmd |-> cmd, parallel |-> parallel, args |-> args, general |-> {general}, repos |-> repos,
   kind |-> [f \in Files |-> [n \in MCRepos |-> "chart"]], url |-> url,
   early |-> NoSecrets, secret |-> secrets, hcl |-> {s2}, changed |-> {1}]

Plainly(parallel) == RunWith("template", parallel, None, None, Each(a, a), NoSecrets)

\* The name main stands for a repository of one kind, or of two.
OfKinds(parallel, k, l, url) ==
  [RunWith("sync", parallel, Each({a}, {b}), Each({main, stable}, {main}), Each(a, url), NoSecrets)
     EXCEPT !.kind = Each((main :> k) @@ (stable :> "chart"), (main :> l) @@ (stable :> "chart"))]

\* Secrets of environments, with those of releases.
Early(cmd, parallel, s, t) ==
  [RunWith(cmd, parallel, Each({a}, {b}), None, Each(a, a), Each(s1, t)) EXCEPT !.early = Each(s, s1)]

\* Extra arguments, repositories, their kinds, and secrets, in turn.
MCRuns ==
  {Plainly(parallel) : parallel \in BOOLEAN}
  \cup {RunWith(cmd, parallel, Each({a, general}, {b}), Each({main}, {main}), Each(a, a), NoSecrets) :
          cmd \in Commands, parallel \in BOOLEAN}
  \cup {RunWith("sync", parallel, None, Each({main, stable}, repos), Each(a, url), NoSecrets) :
          parallel \in BOOLEAN, repos \in {{main}, {main, stable}}, url \in MCUrls}
  \cup {RunWith("sync", parallel, None, None, Each(a, a), Each(s, t)) :
          parallel \in BOOLEAN, s \in {s1, s2}, t \in {s1, s2}}
  \cup {OfKinds(parallel, k, l, url) : parallel \in BOOLEAN, k \in RepoKinds, l \in RepoKinds,
                                       url \in MCUrls}
  \cup {Early(cmd, parallel, s, t) : cmd \in {"template", "sync"}, parallel \in BOOLEAN,
                                     s \in {s1, s2}, t \in {s2, NoSecret}}

MCInit == SharedInit /\ (src = Local \/ run \in {Plainly(parallel) : parallel \in BOOLEAN})
MCSpec == MCInit /\ [][SharedNext]_sharedVars /\ WF_sharedVars(\E f \in Files : Load(f) \/ Process(f))
=============================================================================
