---------------------------- MODULE EclassInherit ----------------------------
(***************************************************************************)
(* How eclasses are found and inherited (internal/eclass, ebuild/eclass.go *)
(* and eclass_bridge.go, ebuild/executor.go, internal/metadata).           *)
(*                                                                         *)
(* The same inherit line is followed in four ways: the executor of the     *)
(* dynamic loader runs every eclass in a shell of its own and accumulates  *)
(* its metadata; the phases embed a chain of eclasses found by scanning    *)
(* the text; the extraction of metadata sources them in one shell; the     *)
(* loader that is there without a cache runs them one inside the other.    *)
(*                                                                         *)
(* An eclass is a sequence of statements [op, var, words]: "set" and       *)
(* "append" a variable, "export" phases, "inherit" eclasses, "fail".  A    *)
(* value is the sequence of its words, and unset is the same as empty to   *)
(* what reads it.  tree: the statements of each eclass that there is.      *)
(***************************************************************************)
EXTENDS Integers, Sequences, FiniteSets, SequencesExt, Functions, TLC

\* Two of the nine variables that are handled alike.
MetadataVars == {"IUSE", "DEPEND"}

Without(f, S) == Restrict(f, DOMAIN f \ S)
ValueOf(f, v) == IF v \in DOMAIN f THEN f[v] ELSE <<>>

-----------------------------------------------------------------------------
(* eclass/executor.go *)

NewExecutor == [env |-> <<>>, acc |-> [v \in MetadataVars |-> <<>>], inherited |-> <<>>, exported |-> <<>>, current |-> "", loaded |-> <<>>]

ExportFunctions(e, phases) ==
    IF e.current = "" THEN [e |-> e, err |-> TRUE]
    ELSE [e |-> [e EXCEPT !.exported = [p \in Range(phases) |-> e.current] @@ @], err |-> FALSE]

backupMetadata(e) == Restrict(e.env, DOMAIN e.env \cap MetadataVars)
accumulateMetadata_Kept(e, backup) ==
    [e EXCEPT !.acc = [v \in MetadataVars |-> @[v] \o ValueOf(e.env, v)]]
accumulateMetadata(e, backup) ==
    [e EXCEPT !.acc = [v \in MetadataVars |-> @[v] \o ValueOf(e.env, v)],
              !.env = backup @@ Without(@, MetadataVars)]

RECURSIVE InheritAll(_, _, _), RunStatements(_, _, _, _)

\* The statements in a shell with variables vars, which the executor does not see
\* and which does not see what a nested inherit does to the executor.
RunStatements(tree, e, vars, stmts) ==
    IF stmts = <<>> THEN [e |-> e, vars |-> vars, err |-> FALSE]
    ELSE LET s == Head(stmts)
             r == CASE s.op = "inherit" -> InheritAll(tree, e, s.words)
                    [] s.op = "export" -> ExportFunctions(e, s.words)
                    [] OTHER -> [e |-> e, err |-> s.op = "fail"]
             now == CASE s.op = "set" -> (s.var :> s.words) @@ vars
                      [] s.op = "append" -> (s.var :> ValueOf(vars, s.var) \o s.words) @@ vars
                      [] OTHER -> vars
         IN IF r.err THEN [e |-> r.e, vars |-> now, err |-> TRUE] ELSE RunStatements(tree, r.e, now, Tail(stmts))

\* On success all variables of the shell come back, the ones it was started with
\* included, unless they are empty.
executeScript(tree, e, stmts) ==
    LET r == RunStatements(tree, e, e.env, stmts)
        back == Restrict(r.vars, {v \in DOMAIN r.vars : r.vars[v] # <<>>})
    IN [e |-> IF r.err THEN r.e ELSE [r.e EXCEPT !.env = back @@ @], err |-> r.err]

inheritSingle(tree, e, name) ==
    LET backup == backupMetadata(e)
        begun == [e EXCEPT !.current = name, !.env = ("ECLASS" :> <<name>>) @@ Without(@, MetadataVars)]
        r == executeScript(tree, begun, tree[name])
        ended == [r.e EXCEPT !.current = e.current,
                             !.env = IF e.current = "" THEN Without(@, {"ECLASS"}) ELSE ("ECLASS" :> <<e.current>>) @@ @]
        with == accumulateMetadata(ended, backup)
        listed == Append(with.inherited, name)
    IN IF name \in Range(e.inherited) THEN [e |-> e, err |-> FALSE]
       ELSE IF name \notin DOMAIN tree THEN [e |-> e, err |-> TRUE]
       ELSE IF r.err THEN [e |-> [ended EXCEPT !.env = backup @@ @], err |-> TRUE]
       ELSE [e |-> [with EXCEPT !.inherited = listed, !.env = ("INHERITED" :> listed) @@ @], err |-> FALSE]

\* eclass/integration.go: no implementation in Go is ever registered to fall back
\* on, so what the executor cannot do fails.
HybridInherit(tree, e, name) ==
    IF name \in Range(e.inherited) THEN [e |-> e, err |-> FALSE] ELSE inheritSingle(tree, e, name)

\* ebuild/eclass_bridge.go: an eclass counts as loaded before it is run.
InheritAll(tree, e, names) ==
    IF names = <<>> THEN [e |-> e, err |-> FALSE]
    ELSE LET r == IF Head(names) \in Range(e.loaded) THEN [e |-> e, err |-> FALSE]
                  ELSE HybridInherit(tree, [e EXCEPT !.loaded = Append(@, Head(names))], Head(names))
         IN IF r.err THEN r ELSE InheritAll(tree, r.e, Tail(names))

\* helpers_version.go: then each eclass is sourced in the shell of the ebuild, once
\* for every time that it is named; what fails there ends that eclass only.
RECURSIVE SourceInMain(_, _, _)
SourceInMain(tree, bash, stmts) ==
    IF stmts = <<>> \/ Head(stmts).op = "fail" THEN bash
    ELSE LET s == Head(stmts)
             one(b, n) == IF n \in DOMAIN tree THEN SourceInMain(tree, b, tree[n]) ELSE b
             now == CASE s.op = "set" -> (s.var :> s.words) @@ bash
                      [] s.op = "append" -> (s.var :> ValueOf(bash, s.var) \o s.words) @@ bash
                      [] s.op = "inherit" -> FoldLeft(one, bash, s.words)
                      [] OTHER -> bash
         IN SourceInMain(tree, now, Tail(stmts))

\* The variables of the ebuild's shell that are not empty go to the ExtraVars of the
\* environment (extra), where every later phase finds them whether or not the
\* inherit succeeds, and to the executor; then the eclasses are loaded.
InheritWithEnv(tree, e, extra, bash, names) ==
    LET shell == Restrict(bash, {v \in DOMAIN bash : bash[v] # <<>>})
        r == InheritAll(tree, [e EXCEPT !.env = shell @@ @], names)
    IN IF names = <<>> THEN [e |-> e, extra |-> extra, bash |-> bash, err |-> FALSE]
       ELSE [e |-> r.e, extra |-> shell @@ extra, err |-> r.err,
             bash |-> IF r.err THEN bash ELSE SourceInMain(tree, bash, <<[op |-> "inherit", var |-> "", words |-> names]>>)]

FinalizeMetadata(e) ==
    [e EXCEPT !.env = [v \in {w \in MetadataVars : e.acc[w] # <<>>} |-> ValueOf(e.env, v) \o e.acc[v]] @@ @]

\* An ebuild read with the executor: its statements run in the executor's own shell
\* and see the variables of the executor at the start only.
ReadByExecutor(tree, ebuild) ==
    LET r == executeScript(tree, NewExecutor, ebuild) IN [e |-> FinalizeMetadata(r.e), err |-> r.err]

-----------------------------------------------------------------------------
(* ebuild/executor.go: the chain that the phases embed *)

scanInheritCalls(stmts) == FlattenSeq([i \in DOMAIN stmts |-> IF stmts[i].op = "inherit" THEN stmts[i].words ELSE <<>>])
scanExportFunctions(stmts) == UNION {Range(stmts[i].words) : i \in {j \in DOMAIN stmts : stmts[j].op = "export"}}

RECURSIVE resolveEclassChain(_, _, _)
resolveEclassChain(tree, names, st) ==
    IF names = <<>> THEN st
    ELSE LET n == Head(names)
             seen == [st EXCEPT !.visited = @ \cup {n}]
             sub == resolveEclassChain(tree, scanInheritCalls(tree[n]), seen)
             one == [sub EXCEPT !.result = Append(@, n), !.exported = [p \in scanExportFunctions(tree[n]) |-> n] @@ @]
         IN resolveEclassChain(tree, Tail(names), IF n \in st.visited THEN st ELSE IF n \notin DOMAIN tree THEN seen ELSE one)
EclassChain(tree, names) == resolveEclassChain(tree, names, [visited |-> {}, result |-> <<>>, exported |-> <<>>])

-----------------------------------------------------------------------------
(* metadata/evaluator.go: one shell for the ebuild and its eclasses *)

\* A missing eclass is passed over, "die" only returns, and the name is noted after
\* the eclass has been sourced.
RECURSIVE SourceInShell(_, _, _, _)
SourceInShell(tree, vars, names, stmts) ==
    IF names # <<>> THEN
        LET n == Head(names)
            inner == SourceInShell(tree, ("ECLASS" :> <<n>>) @@ vars, <<>>, tree[n])
            after == ("ECLASS" :> ValueOf(vars, "ECLASS")) @@ ("INHERITED" :> Append(ValueOf(inner, "INHERITED"), n)) @@ inner
        IN SourceInShell(tree, IF n \in Range(ValueOf(vars, "INHERITED")) \/ n \notin DOMAIN tree THEN vars ELSE after, Tail(names), stmts)
    ELSE IF stmts = <<>> THEN vars
    ELSE LET s == Head(stmts)
             now == CASE s.op = "set" -> (s.var :> s.words) @@ vars
                      [] s.op = "append" -> (s.var :> ValueOf(vars, s.var) \o s.words) @@ vars
                      [] s.op = "inherit" -> SourceInShell(tree, vars, s.words, <<>>)
                      [] OTHER -> vars
         IN SourceInShell(tree, now, <<>>, Tail(stmts))
ExtractMetadata(tree, ebuild) == SourceInShell(tree, <<>>, <<>>, ebuild)

-----------------------------------------------------------------------------
(* ebuild/eclass.go: without a cache; eclass/metadata.go: the manager *)

\* An eclass counts as loaded once it has run; depth stands for the stack.
RECURSIVE loadEclass(_, _, _, _)
loadEclass(tree, st, names, depth) ==
    IF names = <<>> \/ st.err THEN st
    ELSE LET n == Head(names)
             inner == loadEclass(tree, [st EXCEPT !.current = n, !.runs = Append(@, n)], scanInheritCalls(tree[n]), depth - 1)
             failed == inner.err \/ \E i \in DOMAIN tree[n] : tree[n][i].op = "fail"
             one == [inner EXCEPT !.err = failed, !.current = st.current, !.loaded = IF failed THEN @ ELSE Append(@, n)]
         IN IF n \in Range(st.loaded) THEN loadEclass(tree, st, Tail(names), depth)
            ELSE IF n \notin DOMAIN tree \/ depth = 0 THEN [st EXCEPT !.err = TRUE, !.overflow = @ \/ depth = 0]
            ELSE loadEclass(tree, one, Tail(names), depth)
LoaderInherit(tree, names, depth) ==
    loadEclass(tree, [loaded |-> <<>>, runs |-> <<>>, current |-> "", err |-> FALSE, overflow |-> FALSE], names, depth)

\* The eclass whose inheriting began last is the current one until all have ended.
BeginInherit(m, name, env) == [m |-> [m EXCEPT !.depth = @ + 1, !.current = name], backup |-> Restrict(env, DOMAIN env \cap MetadataVars)]
EndInherit(m, name, env, backup) ==
    [m |-> [m EXCEPT !.depth = @ - 1, !.acc = [v \in MetadataVars |-> @[v] \o ValueOf(env, v)],
                     !.inherited = IF name \in Range(@) THEN @ ELSE Append(@, name),
                     !.current = IF m.depth = 1 THEN "" ELSE @],
     env |-> backup @@ Without(env, MetadataVars)]
ManagerExport(m, phases) == IF m.current = "" THEN m ELSE [m EXCEPT !.exported = [p \in Range(phases) |-> m.current] @@ @]
NewMetadataManager == [depth |-> 0, current |-> "", acc |-> [v \in MetadataVars |-> <<>>], inherited |-> <<>>, exported |-> <<>>]

\* An eclass run under the manager.
RECURSIVE Managed(_, _, _, _)
Managed(tree, m, env, stmts) ==
    IF stmts = <<>> THEN [m |-> m, env |-> env]
    ELSE LET s == Head(stmts)
             begun == BeginInherit(m, s.words[1], env)
             inner == Managed(tree, begun.m, Without(env, MetadataVars), tree[s.words[1]])
             r == CASE s.op = "inherit" -> EndInherit(inner.m, s.words[1], inner.env, begun.backup)
                    [] s.op = "export" -> [m |-> ManagerExport(m, s.words), env |-> env]
                    [] s.op = "set" -> [m |-> m, env |-> (s.var :> s.words) @@ env]
                    [] s.op = "append" -> [m |-> m, env |-> (s.var :> ValueOf(env, s.var) \o s.words) @@ env]
                    [] OTHER -> [m |-> m, env |-> env]
         IN Managed(tree, r.m, r.env, Tail(stmts))

-----------------------------------------------------------------------------
(* eclass/cache.go.  dirs: the eclasses of each location that exists, with their *)
(* modification times.                                                           *)

NewCache == [locations |-> <<>>, eclasses |-> <<>>, master |-> "none", masters |-> <<>>, repoNames |-> <<>>]

\* A location overrides what was found before, but for copies of the master's files.
scanDirectory(c, dirs, loc) ==
    LET here == IF loc \in DOMAIN dirs THEN dirs[loc] ELSE <<>>
        same(n) == loc # c.master /\ n \in DOMAIN c.masters /\ c.masters[n] = here[n]
        repo == IF loc \in DOMAIN c.repoNames THEN c.repoNames[loc] ELSE ""
    IN [c EXCEPT !.masters = IF loc = c.master THEN here @@ @ ELSE @,
                 !.eclasses = [n \in {k \in DOMAIN here : ~same(k)} |-> [loc |-> loc, mtime |-> here[n], repo |-> repo]] @@ @]
AddLocation(c, dirs, loc) ==
    IF loc \in Range(c.locations) THEN c ELSE scanDirectory([c EXCEPT !.locations = Append(@, loc)], dirs, loc)
AddLocations(c, dirs, locs) == FoldLeft(LAMBDA x, l : AddLocation(x, dirs, l), c, locs)

NamedRepo(c, loc, name) == [c EXCEPT !.repoNames = (loc :> name) @@ @]
AddRepoWithMasters(c, dirs, repo, masters) ==
    LET addMaster(x, m) == IF m \notin DOMAIN dirs THEN x
                           ELSE AddLocation(NamedRepo([x EXCEPT !.master = IF @ = "none" THEN m ELSE @], m, m), dirs, m)
        with == NamedRepo(FoldLeft(addMaster, c, masters), repo, repo)
    IN IF repo \in DOMAIN dirs THEN AddLocation(with, dirs, repo) ELSE with

\* integration.go: the first repository is everybody's master; a repository's own
\* masters are scanned before it.
BuildCacheFromRepos(dirs, repos, masters) ==
    LET add(c, i) ==
          LET r == repos[i]
              named == NamedRepo([c EXCEPT !.master = IF i = 1 THEN r ELSE @], r, r)
              of == IF r \in DOMAIN masters THEN SelectSeq(masters[r], LAMBDA m : m \in Range(repos)) ELSE <<>>
          IN IF r \notin DOMAIN dirs THEN c ELSE AddLocations(named, dirs, Append(of, r))
    IN FoldLeft(add, NewCache, [i \in DOMAIN repos |-> i])

Refresh(c, dirs) ==
    FoldLeft(LAMBDA x, l : scanDirectory(x, dirs, l), [c EXCEPT !.eclasses = <<>>, !.masters = <<>>], c.locations)

\* A file that is gone is forgotten; one that has changed is only reported.
ValidateEclass(c, dirs, n) ==
    LET e == c.eclasses[n]
        there == e.loc \in DOMAIN dirs /\ n \in DOMAIN dirs[e.loc]
    IN IF n \notin DOMAIN c.eclasses THEN [c |-> c, valid |-> FALSE]
       ELSE IF there THEN [c |-> c, valid |-> dirs[e.loc][n] = e.mtime]
       ELSE [c |-> [c EXCEPT !.eclasses = Without(@, {n})], valid |-> FALSE]

\* ebuild/eclass.go and integration.go: the first location that has it.
FindEclass(dirs, locs, n) ==
    SelectSeq(locs, LAMBDA l : l \in DOMAIN dirs /\ n \in DOMAIN dirs[l])
=============================================================================
