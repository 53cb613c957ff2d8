------------------------------- MODULE MCScan -------------------------------
(* Scan on directories with a main helmfile m, its base b, a nested helmfile *)
(* n with the default values d of its own, the values v of a release and the *)
(* helper template h, which the release names as well.  The working          *)
(* directory is the one scanned, or another one in which the name of the     *)
(* base means the file w with hooks and values of its own, or no file.       *)
EXTENDS Scan, TLC

CONSTANTS m, b, n, d, v, h, w, none, exec, quote, custom, if, mainHook, baseHook

MCFiles    == {m, b, n, d, v, h, w, none}
MCFns      == {exec, quote, custom, if}
MCHooks    == {mainHook, baseHook}
MCCategory == (exec :> "helmfile") @@ (quote :> "sprig") @@ (custom :> "unknown") @@ (if :> "sprig")

Calls(fs)   == [fn : fs, commented : {FALSE}]
Plain(path) == [path |-> path, matches |-> {}]
Glob(fs)    == [path |-> NoFile, matches |-> fs]

\* A YAML file with template syntax.
Text(calls) ==
  [present |-> TRUE, scannable |-> TRUE, gotmpl |-> FALSE, template |-> TRUE, calls |-> calls,
   renders |-> TRUE, reads |-> {}, listed |-> {}, parses |-> TRUE, parsesRaw |-> FALSE,
   bases |-> <<>>, helmfiles |-> <<>>, defaults |-> <<>>, overrides |-> {}, values |-> {},
   hooks |-> {}]

\* What varies: whether the main file renders, and parses as it stands;
\* whether the base is there, and has bases in turn; whether the nested
\* helmfile renders, and its default values file is there; how it is named;
\* whether there are hooks.
Directory(renders, raw, base, deep, nrenders, dthere, entries, hooked) ==
  (m :> [Text(Calls({quote, if})) EXCEPT !.renders = renders, !.parsesRaw = raw,
           !.bases = <<b>>, !.helmfiles = entries, !.values = {v, h}, !.overrides = {d},
           !.hooks = IF hooked THEN {mainHook} ELSE {}])
  @@ (b :> [Text(Calls({quote})) EXCEPT !.present = base, !.gotmpl = TRUE, !.reads = {v},
              !.bases = IF deep THEN <<v>> ELSE <<>>, !.hooks = IF hooked THEN {baseHook} ELSE {}])
  @@ (n :> [Text(Calls({exec, quote})) EXCEPT !.gotmpl = TRUE, !.renders = nrenders,
              !.listed = {v}, !.defaults = <<{d}>>])
  @@ (d :> [Text(Calls({quote})) EXCEPT !.present = dthere])
  @@ (v :> Text(Calls({custom}) \cup [fn : {exec}, commented : {TRUE}]))
  @@ (h :> Text(Calls({quote})))
  @@ (w :> [Text(Calls({custom})) EXCEPT !.values = {d}, !.hooks = {baseHook}])
  @@ (none :> [Text({}) EXCEPT !.present = FALSE])

Directories ==
  {Directory(renders, raw, base, deep, nrenders, TRUE, <<Plain(n)>>, TRUE) :
     renders \in BOOLEAN, raw \in BOOLEAN, base \in BOOLEAN, deep \in BOOLEAN, nrenders \in BOOLEAN}
  \cup
  {Directory(TRUE, FALSE, TRUE, FALSE, TRUE, dthere, entries, hooked) :
     dthere \in BOOLEAN, hooked \in BOOLEAN,
     entries \in {<<Plain(n)>>, <<Glob({n})>>, <<Glob({}), Plain(n)>>, <<Plain(n), Glob({})>>}}

NotGiven   == [given |-> FALSE, names |-> {}]
Given(fns) == [given |-> TRUE, names |-> fns]
Flag(black, white, noHooks, list, dirOk) ==
  [black |-> black, white |-> white, noHooks |-> noHooks, list |-> list, dirOk |-> dirOk]
MCFlags ==
  {Flag(black, NotGiven, noHooks, FALSE, TRUE) : black \in {NotGiven, Given({}), Given({exec})}, noHooks \in BOOLEAN}
  \cup {Flag(NotGiven, white, FALSE, FALSE, TRUE) : white \in {Given({quote}), Given({quote, exec, custom})}}

In(main, base, lenient, flags, file) ==
  [main |-> main, helpers |-> {h}, asBase |-> [f \in MCFiles |-> IF f = b THEN base ELSE f], lenient |-> lenient, flags |-> flags, file |-> file]

Whole == Directory(TRUE, FALSE, TRUE, FALSE, TRUE, TRUE, <<Plain(n)>>, FALSE)

MCInputs ==
  {In(m, base, lenient, flags, file) :
     base \in {b, w, none}, lenient \in BOOLEAN, flags \in MCFlags, file \in Directories}
  \cup {In(NoFile, b, FALSE, flags, Whole) : flags \in MCFlags}
  \cup {In(m, b, FALSE, flags, [Whole EXCEPT ![m].present = FALSE]) : flags \in MCFlags}
  \cup {In(m, b, FALSE, flags, Whole) :
          flags \in {Flag(Given({exec}), Given({quote}), FALSE, FALSE, TRUE), Flag(NotGiven, NotGiven, FALSE, TRUE, TRUE),
                     Flag(Given({exec}), NotGiven, FALSE, FALSE, FALSE)}}
=============================================================================
