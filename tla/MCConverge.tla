------------------------------ MODULE MCConverge ------------------------------
(* Converge on four entries for three releases, one of which is listed twice,  *)
(* with needs in a chain, in a fan, in a circle, and of a release that is not  *)
(* there.                                                                      *)
EXTENDS Converge, TLC

CONSTANTS x, y, z, none, ex, ey, ez, ey2

MCIds     == {x, y, z, none}
MCEntries == {ex, ey, ez, ey2}
MCIdOf    == (ex :> x) @@ (ey :> y) @@ (ez :> z) @@ (ey2 :> y)

Needs(nx, ny, nz) == (ex :> nx) @@ (ey :> ny) @@ (ey2 :> ny) @@ (ez :> nz)
Chain     == Needs({}, {x}, {y})
Fan       == Needs({}, {}, {x, y})
Circle    == Needs({y}, {x}, {})
Undefined == Needs({}, {none}, {y})

Flags(skip, include, transitive) == <<skip, include, transitive>>
AllFlags == {Flags(FALSE, FALSE, FALSE), Flags(TRUE, FALSE, FALSE), Flags(FALSE, TRUE, FALSE), Flags(FALSE, TRUE, TRUE)}

In(command, matching, desired, changed, needs, installed, flags, interactive) ==
  [command |-> command, matching |-> matching, desired |-> desired, changed |-> changed, needs |-> needs,
   installed |-> installed, skipNeeds |-> flags[1], includeNeeds |-> flags[2], transitive |-> flags[3],
   interactive |-> interactive]

Desired   == {MCEntries, {ex, ez}, {ey, ey2}}
Clusters  == {{}, {x, y}, {x, y, z}}

Runs(command, matchings, interactives) ==
  {In(command, matching, desired, changed, needs, installed, flags, interactive) :
     matching \in matchings, desired \in Desired,
     changed \in IF command = "apply" THEN {MCEntries, {ey, ez}} ELSE {{}},
     needs \in {Chain, Fan, Circle, Undefined}, installed \in Clusters,
     flags \in IF command = "destroy" THEN {Flags(FALSE, FALSE, FALSE)} ELSE AllFlags,
     interactive \in interactives}

MCInputs ==
  UNION {Runs(command, SUBSET MCEntries, {FALSE}) : command \in Commands}
  \cup UNION {Runs(command, {{ex, ez}}, {TRUE}) : command \in Commands}
===============================================================================
