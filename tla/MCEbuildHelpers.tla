--------------------------- MODULE MCEbuildHelpers ---------------------------
(* A small source tree with a program, a library and a link to it, a man     *)
(* page, a catalogue and documents, and the calls a script is made of.       *)
EXTENDS EbuildHelpers

File(p, data, mode) == p :> FileOf(data, mode)
Dir(p) == p :> DirOf(M0755)

MCTree ==
    Dir(<<"S">>) @@ Dir(<<"W">>) @@ Dir(<<"D">>) @@ Dir(<<"P">>) @@ Dir(<<"R">>)
    @@ Dir(<<"S", "doc">>)
    @@ File(<<"S", "a">>, <<"a">>, M0644) @@ File(<<"S", "b">>, <<"b">>, M0755)
    @@ File(<<"S", "l.so">>, <<"l">>, M0644)
    @@ (<<"S", "m.so">> :> LinkTo(<<"l.so">>))
    @@ File(<<"S", "a.1">>, <<"man">>, M0644) @@ File(<<"S", "de.mo">>, <<"de">>, M0644)
    @@ File(<<"S", "doc", "n">>, <<"n">>, M0644) @@ File(<<"S", "README">>, <<"readme">>, M0644)
    @@ File(<<"S", "configure">>, <<"conf">>, M0755) @@ File(<<"S", "Makefile">>, <<"mk">>, M0644)
    @@ File(<<"P", "a">>, <<"other">>, M0644)
    @@ File(<<"W", "x">>, <<"plain">>, M0644)

MCArchives ==
    "z" :> <<[path |-> <<"s">>, node |-> DirOf(M0755)],
             [path |-> <<"s", "f">>, node |-> FileOf(<<"f">>, M0755)],
             [path |-> <<"s", "g">>, node |-> LinkTo(<<"f">>)]>>
    @@ "y" :> <<[path |-> <<"..", "W2", "f">>, node |-> FileOf(<<"f">>, M0644)],
                [path |-> <<"..", "out">>, node |-> FileOf(<<"f">>, M0644)]>>

MCExt == "l.so" :> "so" @@ "m.so" :> "so" @@ "a.1" :> "1" @@ "de.mo" :> "mo" @@ "c.5" :> "5"
MCStem == "l.so" :> "l" @@ "m.so" :> "m" @@ "a.1" :> "a" @@ "de.mo" :> "de" @@ "c.5" :> "c"
MCDocs == <<<<"doc">>, <<"missing">>>>
MCHtmlDocs == <<<<"a">>>>
MCStandardDocs == <<<<"README">>>>
MCA == <<<<"z">>>>
MCPatches == <<<<"p1">>>>
MCUserPatches == <<"p2">>
MCPatchOf == "p1" :> <<"S", "a">> @@ "p2" :> <<"S", "a">>
MCMakeInstalls ==
    Dir(<<"D", "usr">>) @@ Dir(<<"D", "usr", "bin">>) @@ File(<<"D", "usr", "bin", "b">>, <<"b">>, M0755)

Cmd(name, args) == [cmd |-> name, args |-> args, flag |-> FALSE, opts |-> Opts(M0644), ok |-> TRUE]
Flag(c) == [c EXCEPT !.flag = TRUE]
NotOk(c) == [c EXCEPT !.ok = FALSE]
With(c, o) == [c EXCEPT !.opts = o]
Clause(who, op, perms) == Symbolic(<<[who |-> who, op |-> op, perms |-> perms]>>)

Common == {Cmd("die", <<>>), Cmd("assert", <<>>), NotOk(Cmd("use", <<>>)), Cmd("default", <<>>)}

MCMenu ==
  [unpack |-> Common \cup
     {Cmd("unpack", <<<<"z">>>>), Cmd("unpack", <<<<"x">>>>), Cmd("unpack", <<<<"y">>>>), Cmd("unpack", <<>>),
      Cmd("cd", <<<<"s">>>>), Flag(Cmd("sed", <<<<"s", "f">>>>)), Cmd("cat", <<<<"W", "x">>>>),
      Cmd("grep", <<<<"other">>, <<"a">>>>), Cmd("mv", <<<<"s">>, <<"t">>>>),
      Flag(Cmd("cp", <<<<"s">>, <<"t">>>>)), Cmd("touch", <<<<"t", "h">>>>)},
   prepare |-> Common \cup
     {Cmd("eapply", <<<<"p1">>>>), Cmd("eapply", <<>>), Cmd("eapply_user", <<>>),
      Flag(Cmd("sed", <<<<"a">>, <<"b">>>>)), Cmd("sed", <<<<"missing">>>>),
      Cmd("rm", <<<<"a">>>>), NotOk(Flag(Cmd("rm", <<<<"doc">>>>))), Cmd("cp", <<<<"a">>, <<"doc">>>>),
      With(Flag(Cmd("chmod", <<<<"doc">>>>)), Opts(M0600)), With(Cmd("chmod", <<<<"a">>>>), Clause({}, "+", {"x"})),
      With(Flag(Cmd("chmod", <<<<"doc">>>>)), Clause({"u"}, "=", {"r", "s"})),
      Cmd("ln", <<<<"a">>, <<"k">>>>), NotOk(Cmd("ln", <<<<"b">>, <<"k">>>>)),
      Cmd("hasq", <<>>), Cmd("dosed", <<>>)},
   configure |-> Common \cup
     {Cmd("econf", <<>>), NotOk(Cmd("econf", <<>>)), NotOk(Cmd("default", <<>>)), Cmd("emake", <<>>),
      With(Cmd("chmod", <<<<"configure">>>>), Clause({}, "-", {"x"})), Cmd("cd", <<<<"doc">>>>)},
   compile |-> Common \cup
     {Cmd("emake", <<>>), NotOk(Cmd("emake", <<>>)), NotOk(Cmd("default", <<>>)), Cmd("cd", <<<<"doc">>>>),
      Cmd("mkdir", <<<<"o", "p">>>>), Flag(Cmd("mkdir", <<<<"o", "p">>>>)),
      Flag(With(Cmd("install", <<<<"D", "opt">>>>), Opts(M0755))), With(Cmd("install", <<<<"a">>, <<"D", "opt">>>>), Opts(M0755)),
      Cmd("rm", <<<<"Makefile">>>>)},
   test |-> Common \cup {NotOk(Cmd("default", <<>>))},
   install |-> Common \cup
     {Cmd("into", <<<<"opt">>>>), Cmd("into", <<<<>>>>), Cmd("insinto", <<<<"etc">>>>), Cmd("exeinto", <<<<"opt">>>>),
      Cmd("docinto", <<<<"html">>>>), Cmd("docinto", <<>>), Cmd("insinto", <<>>),
      Cmd("dobin", <<<<"b">>>>), Cmd("dobin", <<<<"a">>, <<"b">>>>), Cmd("newbin", <<<<"a">>, <<"b">>>>),
      Cmd("dosbin", <<<<"doc">>>>), Cmd("newsbin", <<<<"b">>, <<"a">>>>), Cmd("doexe", <<<<"b">>>>),
      Cmd("doins", <<<<"a">>, <<"missing">>>>), Flag(Cmd("doins", <<<<"doc">>>>)), Cmd("newins", <<Stdin, <<"a">>>>),
      Cmd("newins", <<<<"b">>, <<"a">>>>),
      Cmd("dolib", <<<<"l.so">>>>), Cmd("dolib.so", <<<<"l.so">>, <<"m.so">>>>), Cmd("dolib.a", <<<<"l.so">>>>),
      Cmd("doheader", <<<<"a">>>>), Cmd("doconfd", <<<<"a">>>>), Cmd("doconfd", <<<<"missing">>>>),
      Flag(Cmd("doenvd", <<<<"doc">>>>)), Cmd("doinitd", <<<<"b">>>>),
      Flag(Cmd("dodoc", <<<<"doc">>>>)), Cmd("newdoc", <<<<"a">>, <<"README">>>>), Cmd("newdoc", <<Stdin, <<"n">>>>),
      Cmd("doman", <<<<"a.1">>>>), Cmd("newman", <<<<"a.1">>, <<"c.5">>>>), Cmd("newman", <<<<"a">>, <<"a">>>>),
      Cmd("newman", <<Stdin, <<"a">>>>), Cmd("doinfo", <<<<"a">>>>), Cmd("domo", <<<<"de.mo">>>>),
      With(Cmd("insopts", <<>>), Opts(M0600)), With(Cmd("insopts", <<>>), BadMode), With(Cmd("exeopts", <<>>), NoMode),
      With(Cmd("diropts", <<>>), NoMode), Cmd("dodir", <<<<"usr", "bin">>>>), Cmd("keepdir", <<<<"etc">>>>),
      Cmd("dosym", <<<<"b">>, <<"usr", "bin", "a">>>>), Flag(Cmd("dosym", <<<<"usr", "bin", "b">>, <<"opt", "b">>>>)),
      With(Cmd("fperms", <<<<"usr", "bin", "b">>>>), Opts(M0600)), Flag(With(Cmd("fperms", <<<<"etc">>>>), Opts(M0644))),
      Cmd("einstalldocs", <<>>), NotOk(Cmd("default", <<>>)),
      NotOk(Cmd("hasv", <<>>)), Cmd("libopts", <<>>), Cmd("cd", <<<<"doc">>>>)}]
=============================================================================
