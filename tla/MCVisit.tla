------------------------------ MODULE MCVisit ------------------------------
(* Visit on two trees: a helmfile.d of two files, each of which nests a        *)
(* helmfile.yaml in a directory of its own, the first of these a file in a     *)
(* directory below; and a single file that nests first a directory of two      *)
(* files, the first of which nests one of these helmfile.yaml, and then that   *)
(* helmfile.yaml again.                                                        *)
EXTENDS Visit, TLC

CONSTANTS start, confs, pair, x, y, z, empty, a, b, xf, yf, zf, top, c, d,
          toConfs, toTop, toX, toY, toZ, toPair, belowY, toEmpty, toNone

MCDirs   == {start, confs, pair, x, y, z, empty}
MCFiles  == {a, b, xf, yf, zf, top, c, d}
MCPaths  == {toConfs, toTop, toX, toY, toZ, toPair, belowY, toEmpty, toNone}

MCFilesIn ==
  (confs :> <<a, b>>) @@ (pair :> <<c, d>>) @@ (x :> <<xf>>) @@ (y :> <<yf>>) @@ (z :> <<zf>>)
  @@ (start :> <<top>>) @@ (empty :> << >>)
MCDirOf  == [f \in MCFiles |-> CHOOSE dir \in MCDirs : \E i \in DOMAIN MCFilesIn[dir] : MCFilesIn[dir][i] = f]
MCNameOf ==
  (a :> "a") @@ (b :> "b") @@ (c :> "c") @@ (d :> "d") @@ (top :> "top") @@ (zf :> "z")
  @@ (xf :> "helmfile") @@ (yf :> "helmfile")
MCSubsOf ==
  (a :> <<toX>>) @@ (b :> <<toY>>) @@ (xf :> <<toZ>>) @@ (top :> <<toPair, belowY>>) @@ (c :> <<toY>>)
  @@ [f \in {d, yf, zf} |-> << >>]

\* start holds top and the directories confs, pair, x, y and empty, and x holds z.
MCJoin ==
  [dir \in MCDirs |->
     [p \in MCPaths |->
        CASE dir = start /\ p = toConfs -> confs
          [] dir = start /\ p = toTop   -> top
          [] dir = start /\ p = toEmpty -> empty
          [] dir = start /\ p = toPair  -> pair
          [] dir = start /\ p = belowY  -> yf
          [] dir \notin {start, z} /\ p = toX -> xf
          [] dir \notin {start, z} /\ p = toY -> yf
          [] dir = x /\ p = toZ -> zf
          [] OTHER -> Nowhere]]

MCKinds ==
  (a :> Kind) @@ (b :> {"nothing", "matches", "fails"}) @@ (xf :> {"matches", "fails"})
  @@ (yf :> {"nothing", "matches"}) @@ (zf :> {"matches"}) @@ [f \in {top, c, d} |-> Kind]

MCVisits  == {<< >>, <<1, 1>>, <<1, 2>>, <<2, 1>>, <<1, 1, 1, 1>>, <<1, 1, 2, 1>>, <<2, 1, 1, 1>>}
MCOptions == [root : {toConfs, toTop, toEmpty, toNone}, sequential : BOOLEAN, reverse : BOOLEAN]
=============================================================================
