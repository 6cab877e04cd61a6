------------------------------ MODULE Sources ------------------------------
(***************************************************************************)
(* From SRC_URI to the distfiles of a package: the parser of               *)
(* internal/repo/srcuri_parser.go, the service of internal/distfile, the   *)
(* Manifest and the third-party mirrors of internal/fetch, and their two   *)
(* users, the fetch step of a build and the command grpm fetch.            *)
(*                                                                         *)
(* A token is a record [t, v, host, var]: t is "(", ")", "if", "unless"    *)
(* (v is the flag), "url" or "mirror" (v is the stem of its base name and  *)
(* host its site or its mirror), "->", "word", or "other".  The names of   *)
(* files consist of a stem and a part that a variable gives: var is "PV",  *)
(* "MY_PV" (a variable of the ebuild itself), or the text that replaced    *)
(* the variable, empty if nothing did.                                     *)
(*                                                                         *)
(* An ebuild is [lines, fails]: its assignments to SRC_URI, each [op,      *)
(* value, runs], where op is "set" (=) or "append" (+=) and runs is FALSE  *)
(* in a branch that is not taken; fails if the interpreter cannot source   *)
(* it.  A Manifest is [there, lines], each line [type, name, sum].         *)
(***************************************************************************)
EXTENDS Integers, Sequences, FiniteSets, SequencesExt, TLC

Tk(t, v, host, var) == [t |-> t, v |-> v, host |-> host, var |-> var]
Mark(t) == Tk(t, "", "", "")

\* tokenizeSrcURI, isUseCondition and parseUseCondition: the tokens of a SRC_URI, which
\* is written as trees [k, toks, flag, kids]: a file ("uri"), a group ("all") or a
\* conditional.
RECURSIVE tokenizeSrcURI(_)
tokenizeSrcURI(e) ==
    LET body == <<Mark("(")>> \o FlattenSeq([i \in DOMAIN e.kids |-> tokenizeSrcURI(e.kids[i])]) \o <<Mark(")")>>
    IN CASE e.k = "uri" -> e.toks [] e.k = "all" -> body [] OTHER -> <<Tk(e.k, e.flag, "", "")>> \o body

FileName(tok) == [stem |-> tok.v, var |-> tok.var]
VersionText(version) == "v" \o ToString(version)

\* What replaces the variables of the set known; expandVars and expandVariables know
\* those of the package manager, the shell those of the ebuild too.
Expand(ts, known, version) ==
    [i \in DOMAIN ts |-> IF ts[i].var \in known THEN [ts[i] EXCEPT !.var = VersionText(version)] ELSE ts[i]]
PackageVars == {"PV"}
ShellVars == {"PV", "MY_PV"}

-----------------------------------------------------------------------------
(* The parser.  Flags are [all, on]: all stands for a nil map.             *)

\* expandVariables of the parser: what nothing expands is removed.
expandVariables(name, version) ==
    [name EXCEPT !.var = IF @ \in PackageVars THEN VersionText(version) ELSE IF @ = "MY_PV" THEN "" ELSE @]

conditionMet(tok, flags) == flags.all \/ ((tok.t = "if") <=> tok.v \in flags.on)

\* parseURLEntry
parseURLEntry(ts, i, version) ==
    LET url == [host |-> ts[i].host, mirror |-> ts[i].t = "mirror", name |-> FileName(ts[i])]
    IN IF i + 2 <= Len(ts) /\ ts[i + 1].t = "->"
       THEN [entry |-> [url |-> url, name |-> expandVariables(FileName(ts[i + 2]), version)], next |-> i + 3]
       ELSE [entry |-> [url |-> url, name |-> url.name], next |-> i + 1]

\* Mutant: the entries of a block whose condition is not met end the list.
Included_OrStop(block, rest, met) == IF met THEN block \o rest ELSE <<>>

Included(block, rest, met) == (IF met THEN block ELSE <<>>) \o rest

\* parseTokens: the entries from token i up to the end of its group.
RECURSIVE parseSources(_, _, _, _)
parseSources(ts, i, flags, version) ==
    IF i > Len(ts) THEN [entries |-> <<>>, next |-> i, err |-> FALSE]
    ELSE IF ts[i].t = ")" THEN [entries |-> <<>>, next |-> i + 1, err |-> FALSE]
    ELSE IF ts[i].t \in {"if", "unless", "("}
         THEN LET cond  == ts[i].t # "("
                  open  == IF cond THEN i + 1 ELSE i
                  block == parseSources(ts, open + 1, flags, version)
                  rest  == parseSources(ts, block.next, flags, version)
              IN IF open > Len(ts) \/ ts[open].t # "(" \/ block.err THEN [entries |-> <<>>, next |-> i, err |-> TRUE]
                 ELSE [rest EXCEPT !.entries = Included(block.entries, @, cond => conditionMet(ts[i], flags))]
    ELSE IF ts[i].t \in {"url", "mirror"}
         THEN LET u == parseURLEntry(ts, i, version)
                  rest == parseSources(ts, u.next, flags, version)
              IN [rest EXCEPT !.entries = <<u.entry>> \o @]
    ELSE parseSources(ts, i + 1, flags, version)

ParseSrcURI(ts, flags, version) == parseSources(ts, 1, flags, version)

-----------------------------------------------------------------------------
(* Manifest and mirrors *)

EntryTypes == {"DIST", "EBUILD", "AUX", "MISC"}
parseManifestLine(l) == [err |-> l.type \notin EntryTypes, entry |-> l]

\* ParseManifest: a line that cannot be parsed spoils the whole file.  Among entries
\* of one name the last counts, whatever its type; the list keeps all DIST lines.
ParseManifest(m) ==
    LET named(n) == {i \in DOMAIN m.lines : m.lines[i].name = n}
        last(n) == m.lines[CHOOSE i \in named(n) : \A j \in named(n) : j <= i]
    IN [missing |-> ~m.there, bad |-> m.there /\ \E i \in DOMAIN m.lines : parseManifestLine(m.lines[i]).err,
        entries |-> [n \in {m.lines[i].name : i \in DOMAIN m.lines} |-> last(n)],
        dist |-> SelectSeq(m.lines, LAMBDA l : l.type = "DIST")]

NewDistfile(entry, uris) == [name |-> entry.name, sum |-> entry.sum, uris |-> uris]
GetDistfiles(manifest) == [i \in DOMAIN manifest.dist |-> NewDistfile(manifest.dist[i], <<>>)]

\* ParseThirdPartyMirrors: the last line of a name that has addresses.
ParseThirdPartyMirrors(lines) ==
    LET good == {i \in DOMAIN lines : lines[i].urls # <<>>}
        last(n) == CHOOSE i \in good : lines[i].name = n /\ \A j \in good : lines[j].name = n => j <= i
    IN [n \in {lines[i].name : i \in good} |-> lines[last(n)].urls]

\* ExpandMirrorURL: an unknown mirror stays as it is.
ExpandMirrorURL(mirrors, url) ==
    IF ~url.mirror \/ url.host \notin DOMAIN mirrors THEN <<url>>
    ELSE [i \in DOMAIN mirrors[url.host] |-> [url EXCEPT !.host = mirrors[url.host][i], !.mirror = FALSE]]

-----------------------------------------------------------------------------
(* SRC_URI of an ebuild *)

\* extractQuotedVariable and extractAppendAssignments: the text between the quotes of
\* the first assignment, and of every addition, whether the shell would run it or not.
extractQuotedVariable(text) ==
    LET sets == SelectSeq(text.lines, LAMBDA l : l.op = "set") IN IF sets = <<>> THEN <<>> ELSE sets[1].value
extractAppendAssignments(text) ==
    LET added == SelectSeq(text.lines, LAMBDA l : l.op = "append") IN FlattenSeq([i \in DOMAIN added |-> added[i].value])
extractSrcURIFromContent(text, version) == Expand(extractQuotedVariable(text), PackageVars, version)

\* evaluateWithGo: what the interpreter prints; if that is empty, the first literal
\* assignment with the variables of the package manager expanded.
EvaluateSrcURI(text, version) ==
    LET after[i \in 0 .. Len(text.lines)] ==
            IF i = 0 THEN <<>>
            ELSE LET l == text.lines[i] IN IF ~l.runs THEN after[i - 1] ELSE IF l.op = "set" THEN l.value ELSE after[i - 1] \o l.value
        out == Expand(after[Len(text.lines)], ShellVars, version)
    IN [err |-> text.fails, value |-> IF text.fails THEN <<>> ELSE IF out = <<>> THEN extractSrcURIFromContent(text, version) ELSE out]

\* extractRawSrcURI, for ebuilds that cannot be sourced.
extractRawSrcURI(text, version) ==
    Expand(extractQuotedVariable(text) \o extractAppendAssignments(text), PackageVars, version)

-----------------------------------------------------------------------------
(* The service *)

\* Stems of the names that end in .sig, .asc or .sign.
SignatureStems == {"sig"}
isSignatureFile(name) == name.stem \in SignatureStems
filterSignatureFiles(distfiles, on) ==
    IF "verify-sig" \in on THEN distfiles ELSE SelectSeq(distfiles, LAMBDA d : ~isSignatureFile(d.name))

\* ResolveDistfiles: the DIST lines that the parsed SRC_URI names, each with every
\* address of its name; without a SRC_URI to go by, all of the Manifest.
ResolveDistfiles(mirrors, text, version, on, manifest) ==
    LET evaluated == EvaluateSrcURI(text, version)
        srcURI == IF evaluated.err THEN extractRawSrcURI(text, version) ELSE evaluated.value
        parsed == ParseSrcURI(srcURI, [all |-> FALSE, on |-> on], version)
        uris(n) == LET of == SelectSeq(parsed.entries, LAMBDA e : e.name = n)
                   IN FlattenSeq([i \in DOMAIN of |-> ExpandMirrorURL(mirrors, of[i].url)])
        listed == SelectSeq(manifest.dist, LAMBDA l : \E i \in DOMAIN parsed.entries : parsed.entries[i].name = l.name)
    IN IF srcURI = <<>> \/ parsed.err THEN filterSignatureFiles(GetDistfiles(manifest), on)
       ELSE [i \in DOMAIN listed |-> NewDistfile(listed[i], uris(listed[i].name))]

\* findBestEbuild
findBestEbuild(ebuilds) == CHOOSE v \in DOMAIN ebuilds : \A w \in DOMAIN ebuilds : w <= v

\* ResolveDistfilesForAtom: no USE flags are known; version 0 is an atom without one.
ResolveDistfilesForAtom(mirrors, ebuilds, version, m) ==
    LET manifest == ParseManifest(m)
        v == IF version # 0 THEN version ELSE findBestEbuild(ebuilds)
        fails == manifest.missing \/ manifest.bad \/ (version = 0 /\ ebuilds = <<>>) \/ (version # 0 /\ version \notin DOMAIN ebuilds)
    IN [err |-> fails, files |-> IF fails THEN <<>> ELSE ResolveDistfiles(mirrors, ebuilds[v], v, {}, manifest)]

\* fetchPackageDistfiles: whatever the error was, the Manifest is tried alone.
fetchPackageDistfiles(mirrors, ebuilds, version, m) ==
    LET resolved == ResolveDistfilesForAtom(mirrors, ebuilds, version, m)
        manifest == ParseManifest(m)
    IN IF ~resolved.err THEN resolved
       ELSE [err |-> manifest.missing \/ manifest.bad,
             files |-> IF manifest.missing \/ manifest.bad THEN <<>> ELSE GetDistfiles(manifest)]

\* verifyDistfiles: of what is on the disk, by name.
verifyDistfiles(files, disk) == \A i \in DOMAIN files : files[i].name \in DOMAIN disk /\ disk[files[i].name] = files[i].sum

\* fetchDistfiles and updateArchiveList: what a build downloads, and the names in A.
updateArchiveList(files) == [i \in DOMAIN files |-> files[i].name]
fetchDistfiles(mirrors, text, version, on, m) ==
    LET manifest == ParseManifest(m)
        files == IF manifest.missing \/ manifest.bad THEN <<>> ELSE ResolveDistfiles(mirrors, text, version, on, manifest)
    IN [err |-> manifest.bad, files |-> files, A |-> updateArchiveList(files)]

\* entriesToDistfiles of the SrcURIFetcher: one address per name, and every name must
\* be in the Manifest.
entriesToDistfiles(entries, manifest) ==
    LET new == {i \in DOMAIN entries : \A j \in 1 .. i - 1 : entries[j].name # entries[i].name}
        at == SetToSortSeq(new, <)
        fails == \E i \in new : entries[i].name \notin DOMAIN manifest.entries
    IN [err |-> fails,
        files |-> IF fails THEN <<>> ELSE [i \in DOMAIN at |-> NewDistfile(manifest.entries[entries[at[i]].name], <<entries[at[i]].url>>)]]
FetchSrcURI(ts, manifest, flags, version) ==
    LET parsed == ParseSrcURI(ts, flags, version)
    IN IF parsed.err THEN [err |-> TRUE, files |-> <<>>] ELSE entriesToDistfiles(parsed.entries, manifest)
=============================================================================
