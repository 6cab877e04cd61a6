------------------------------ MODULE BuildTree ------------------------------
(***************************************************************************)
(* The directories of one build and the file operations that the commands  *)
(* of a phase script are made of (internal/ebuild/helpers_fs.go,           *)
(* helpers_unpack.go and installFile, installDir of helpers_install.go).   *)
(*                                                                         *)
(* A path is a sequence of names; the first one of an absolute path is a   *)
(* root: "S" the source directory ${S}, "W" ${WORKDIR}, "D" the image, "P" *)
(* the working directory of the grpm process, "R" the root of the system.  *)
(* A tree maps paths to nodes.  Content is a sequence of names, so that    *)
(* what sed makes of a file can be told from the file.                     *)
(*                                                                         *)
(* Every operation takes a record st with the fields fs (the tree), err    *)
(* ("none", "false" for an exit status other than 0, "die" for any other   *)
(* Go error), left (the write that will fail, counted from now; 0: none)   *)
(* and cwd (the directory the script is in), and returns the record        *)
(* afterwards.  Once err is set nothing more is done.                      *)
(***************************************************************************)
EXTENDS Naturals, SequencesExt

\* Paths, lists of paths, and below nodes and trees: what the types of Go grant.
IsSeq(s) == s \in Seq(Range(s))
AllPaths(s) == IsSeq(s) /\ \A i \in DOMAIN s : IsSeq(s[i])

Roots == {"S", "W", "D", "P", "R"}
IsAbs(p) == p # <<>> /\ p[1] \in Roots

(***************************************************************************)
(* Permissions are sets of <<who, permission>>.                            *)
(***************************************************************************)
Bits(who, perms) == who \X perms
All == {"u", "g", "o"}
M0644 == Bits(All, {"r"}) \cup Bits({"u"}, {"w"})
M0755 == M0644 \cup Bits(All, {"x"})
M0600 == Bits({"u"}, {"r", "w"})

FileOf(data, mode) == [kind |-> "file", data |-> data, mode |-> mode]
DirOf(mode) == [kind |-> "dir", data |-> <<>>, mode |-> mode]
LinkTo(target) == [kind |-> "link", data |-> target, mode |-> {}]

IsNode(n) == n = [x \in {"kind", "data", "mode"} |-> n[x]] /\ (n.kind = "link" => IsSeq(n.data))
IsTree(fs) ==
    /\ fs = [p \in DOMAIN fs |-> fs[p]] /\ IsFiniteSet(DOMAIN fs)
    /\ \A p \in DOMAIN fs : IsSeq(p) /\ IsNode(fs[p])

Ok(st) == st.err = "none"
Fail(st) == IF Ok(st) THEN [st EXCEPT !.err = "die"] ELSE st
False(st) == IF Ok(st) THEN [st EXCEPT !.err = "false"] ELSE st

-----------------------------------------------------------------------------
(***************************************************************************)
(* What the operating system does.                                         *)
(***************************************************************************)
\* One system call that changes the tree, or the one that fails.
Change(st, fs) ==
    CASE ~Ok(st) -> st
      [] Ok(st) /\ st.left = 1 -> Fail([st EXCEPT !.left = 0])
      [] OTHER -> [st EXCEPT !.fs = fs, !.left = IF @ = 0 THEN 0 ELSE @ - 1]

\* The path of a relative name, seen from a directory.
Resolve(dir, rel) ==
    FoldLeft(LAMBDA p, n: IF n = ".." THEN Front(p) ELSE Append(p, n), dir, rel)

\* Where an open of p arrives; a link to a link is not followed further.
Follow(fs, p) ==
    IF p \notin DOMAIN fs \/ fs[p].kind # "link" THEN p
    ELSE IF IsAbs(fs[p].data) THEN fs[p].data
    ELSE Resolve(Front(p), fs[p].data)

Exists(fs, p) == Follow(fs, p) \in DOMAIN fs
IsDir(fs, p) == Exists(fs, p) /\ fs[Follow(fs, p)].kind = "dir"
IsFile(fs, p) == Exists(fs, p) /\ fs[Follow(fs, p)].kind = "file"
Below(fs, p) == {q \in DOMAIN fs : IsStrictPrefix(p, q)}
Without(fs, gone) == [q \in DOMAIN fs \ gone |-> fs[q]]
\* A tree laid over another, and a node put at a path.
Over(new, fs) == [q \in DOMAIN new \cup DOMAIN fs |-> IF q \in DOMAIN new THEN new[q] ELSE fs[q]]
Put(fs, p, node) == Over([q \in {p} |-> node], fs)

\* os.MkdirAll
MkdirAll(st, p, mode) ==
    LET path == {SubSeq(p, 1, i) : i \in 1..Len(p)}
        missing == {q \in path : q \notin DOMAIN st.fs}
    IN CASE ~Ok(st) -> st
         [] Ok(st) /\ \E q \in path \ missing : ~IsDir(st.fs, q) -> Fail(st)
         [] Ok(st) /\ missing = {} -> st
         [] OTHER -> Change(st, Over([q \in missing |-> DirOf(mode)], st.fs))

\* os.OpenFile with O_CREATE and O_TRUNC, then the copy of the content: an
\* existing file keeps its permissions, and a copy that fails leaves it cut.
OpenAt(st, q, mode) ==
    IF Ok(st) /\ (IsDir(st.fs, q) \/ ~IsDir(st.fs, Front(q))) THEN Fail(st)
    ELSE Change(st, Put(st.fs, q, FileOf(<<"cut">>, IF q \in DOMAIN st.fs THEN st.fs[q].mode ELSE mode)))
FillAt(st, q, data) == Change(st, [st.fs EXCEPT ![q].data = data])
WriteAt(st, q, data, mode) == FillAt(OpenAt(st, q, mode), q, data)
WriteFile(st, p, data, mode) == WriteAt(st, Follow(st.fs, p), data, mode)

\* os.Symlink
Symlink(st, target, p) ==
    IF Ok(st) /\ (p \in DOMAIN st.fs \/ ~IsDir(st.fs, Front(p))) THEN Fail(st)
    ELSE Change(st, Put(st.fs, p, LinkTo(target)))

\* os.Remove whose error is ignored
TryRemove(st, p) ==
    IF ~Ok(st) \/ p \notin DOMAIN st.fs \/ Below(st.fs, p) # {} THEN st
    ELSE [st EXCEPT !.fs = Without(@, {p})]

\* The files and directories of a tree, parents first, as filepath.WalkDir
\* visits them; what is at p may be a file.
Walk(fs, p) ==
    LET tree == {p} \cup Below(fs, p)
        depth == Max({Len(q) : q \in tree})
    IN FoldLeft(LAMBDA w, d: w \o SetToSeq({q \in tree : Len(q) = d}), <<>>, [d \in 1..depth |-> d])

Moved(p, src, dst) == dst \o SubSeq(p, Len(src) + 1, Len(p))

-----------------------------------------------------------------------------
(***************************************************************************)
(* Names of the script.  File tools look from the script's directory; some *)
(* of them hand the name to the operating system as it is, which looks     *)
(* from the directory of the process; install helpers look from ${S}.      *)
(***************************************************************************)
resolvePath(st, p) == IF IsAbs(p) THEN p ELSE st.cwd \o p
processPath(p) == IF IsAbs(p) THEN p ELSE <<"P">> \o p
resolveSourcePath(p) == IF IsAbs(p) THEN p ELSE <<"S">> \o p

\* A link is copied as a link, and only if nothing is there yet.
installFile(st, src, dst, mode) ==
    IF ~Ok(st) THEN st
    ELSE IF src \notin DOMAIN st.fs THEN Fail(st)
    ELSE IF st.fs[src].kind = "link" THEN Symlink(st, st.fs[src].data, dst)
    ELSE IF st.fs[src].kind = "dir"
         THEN Fail(WriteFile(MkdirAll(st, Front(dst), M0755), dst, <<"cut">>, mode))
    ELSE WriteFile(MkdirAll(st, Front(dst), M0755), dst, st.fs[src].data, mode)

installDir(st, src, dst, mode) ==
    FoldLeft(LAMBDA s, p: IF IsDir(s.fs, p) /\ s.fs[p].kind = "dir"
                          THEN MkdirAll(s, Moved(p, src, dst), M0755)
                          ELSE installFile(s, p, Moved(p, src, dst), mode),
             st, Walk(st.fs, src))

-----------------------------------------------------------------------------
(***************************************************************************)
(* The file tools.                                                         *)
(***************************************************************************)
\* sed -i 's/../../' on every file; without -i the text is only printed.
Sed(st, files, inPlace) ==
    LET sedFile(s, f) ==
            LET p == resolvePath(s, f) IN
            IF ~Ok(s) THEN s
            ELSE IF ~IsFile(s.fs, p) THEN Fail(s)
            ELSE IF ~inPlace THEN s
            ELSE WriteFile(s, p, Append(s.fs[Follow(s.fs, p)].data, "sed"), M0644)
    IN FoldLeft(sedFile, st, files)

\* cat of named files; they are looked up from the process.
Cat(st, files) ==
    FoldLeft(LAMBDA s, f: IF IsFile(s.fs, processPath(f)) THEN s ELSE Fail(s), st, files)

\* grep: status 1 unless some file that can be read holds the pattern.
Grep(st, pattern, files) ==
    IF \E i \in DOMAIN files :
        /\ IsFile(st.fs, processPath(files[i]))
        /\ pattern \in Range(st.fs[Follow(st.fs, processPath(files[i]))].data)
    THEN st ELSE False(st)

Mkdir(st, dirs, createParents) ==
    LET Make(s, d) ==
            LET p == processPath(d) IN
            IF createParents THEN MkdirAll(s, p, M0755)
            ELSE IF Ok(s) /\ (p \in DOMAIN s.fs \/ ~IsDir(s.fs, Front(p))) THEN Fail(s)
            ELSE Change(s, Put(s.fs, p, DirOf(M0755)))
    IN FoldLeft(Make, st, dirs)

\* os.RemoveAll is content with a missing name, os.Remove is not; -f hides
\* every error.
Rm(st, targets, recursive, force) ==
    LET Delete(s, t) ==
            LET p == resolvePath(s, t)
                bad == ~recursive /\ (p \notin DOMAIN s.fs \/ Below(s.fs, p) # {})
                done == Change(s, Without(s.fs, {p} \cup Below(s.fs, p)))
            IN CASE ~Ok(s) -> s
                 [] Ok(s) /\ bad -> IF force THEN s ELSE Fail(s)
                 [] OTHER -> IF force THEN [done EXCEPT !.err = "none"] ELSE done
    IN FoldLeft(Delete, st, targets)

copyFile(st, src, dst) ==
    LET from == st.fs[Follow(st.fs, src)] IN
    IF ~Ok(st) THEN st
    ELSE IF ~IsFile(st.fs, src) THEN Fail(st)
    ELSE WriteFile(MkdirAll(st, Front(dst), M0755), dst, from.data, from.mode)

copyDir(st, src, dst) ==
    FoldLeft(LAMBDA s, p: IF s.fs[p].kind = "dir" THEN MkdirAll(s, Moved(p, src, dst), M0755)
                          ELSE copyFile(s, p, Moved(p, src, dst)),
             st, Walk(st.fs, src))

\* The destination is looked at again for each source.
Into(st, dest, src) == IF IsDir(st.fs, dest) THEN Append(dest, Last(src)) ELSE dest

Cp(st, sources, to, recursive) ==
    LET dest == resolvePath(st, to)
        Copy(s, f) ==
            LET src == resolvePath(s, f) IN
            CASE ~Ok(s) -> s
              [] Ok(s) /\ ~Exists(s.fs, src) -> Fail(s)
              [] Ok(s) /\ IsDir(s.fs, src) ->
                    IF recursive THEN copyDir(s, src, Append(dest, Last(src))) ELSE Fail(s)
              [] OTHER -> copyFile(s, src, Into(s, dest, src))
    IN IF sources = <<>> THEN Fail(st) ELSE FoldLeft(Copy, st, sources)

\* os.Rename within one file system
Rename(st, src, dst) ==
    LET moving == {src} \cup Below(st.fs, src)
        rest == Without(st.fs, moving)
    IN IF Ok(st) /\ \/ src \notin DOMAIN st.fs
                    \/ ~IsDir(st.fs, Front(dst))
                    \/ IsPrefix(src, dst) /\ src # dst
                    \/ dst \in DOMAIN st.fs /\ st.fs[dst].kind = "dir" /\ src # dst
       THEN Fail(st)
       ELSE Change(st, Over([q \in {Moved(p, src, dst) : p \in moving} |->
                                 st.fs[Moved(q, dst, src)]], rest))

Mv(st, sources, to) ==
    LET dest == resolvePath(st, to)
        Move(s, f) == LET src == resolvePath(s, f) IN Rename(s, src, Into(s, dest, src))
    IN IF sources = <<>> THEN Fail(st) ELSE FoldLeft(Move, st, sources)

\* One clause of a symbolic mode, e.g. go-w.  The mask of the classes has
\* no room for the set-id and sticky bits: s and t change nothing.
parseSymbolicMode(clauses, current) ==
    LET Apply(m, c) ==
            LET who == IF c.who = {} THEN All ELSE c.who
                bits == Bits(who, c.perms \ {"s", "t"})
            IN CASE c.op = "+" -> m \cup bits
                 [] c.op = "-" -> m \ bits
                 [] c.op = "=" -> (m \ Bits(who, {"r", "w", "x"})) \cup bits
    IN FoldLeft(Apply, current, clauses)

\* The mode has been given as an octal number or as clauses.  A symbolic mode
\* is computed once, from the permissions of the top.
applyMode(st, p, mode, recursive) ==
    LET top == Follow(st.fs, p)
        octal == mode.given = "mode"
        new == IF octal THEN mode.mode ELSE parseSymbolicMode(mode.clauses, st.fs[top].mode)
        Chmod1(s, q) == LET t == Follow(s.fs, q) IN
                        IF Ok(s) /\ t \notin DOMAIN s.fs THEN Fail(s)
                        ELSE Change(s, [s.fs EXCEPT ![t].mode = new])
    IN CASE ~Ok(st) -> st
         [] Ok(st) /\ top \notin DOMAIN st.fs ->
                IF octal /\ recursive THEN st ELSE Fail(st)
         [] OTHER -> IF recursive THEN FoldLeft(Chmod1, st, Walk(st.fs, p))
                     ELSE Chmod1(st, p)

Chmod(st, files, mode, recursive) ==
    FoldLeft(LAMBDA s, f: applyMode(s, resolvePath(s, f), mode, recursive), st, files)

\* ln -s: one name, several names and a directory, or a name and a link.
Ln(st, targets, force) ==
    LET last == resolvePath(st, Last(targets))
        Place(s, t, p) == Symlink(IF force THEN TryRemove(s, p) ELSE s, t, p)
    IN CASE targets = <<>> -> Fail(st)
         [] Len(targets) = 1 -> Place(st, targets[1], resolvePath(st, <<Last(targets[1])>>))
         [] Len(targets) > 2 /\ IsDir(st.fs, last) ->
                FoldLeft(LAMBDA s, t: Place(s, t, Append(last, Last(t))), st, Front(targets))
         [] OTHER -> Place(st, targets[1], resolvePath(st, targets[2]))

Touch(st, files) ==
    LET Make(s, f) ==
            LET p == resolvePath(s, f)
                d == MkdirAll(s, Front(p), M0755)
            IN IF ~Ok(d) \/ Exists(d.fs, p) THEN d ELSE WriteFile(d, p, <<>>, M0644)
    IN FoldLeft(Make, st, files)

\* install and install -d; names are looked up from the process.
Install(st, names, mode, createDirs) ==
    LET dest == processPath(Last(names))
        Copy(s, f) == LET src == processPath(f) IN installFile(s, src, Into(s, dest, src), mode)
    IN CASE createDirs -> FoldLeft(LAMBDA s, d: MkdirAll(s, processPath(d), mode), st, names)
         [] ~createDirs /\ Len(names) < 2 -> Fail(st)
         [] OTHER -> FoldLeft(Copy, st, Front(names))

-----------------------------------------------------------------------------
(***************************************************************************)
(* unpack.  An archive is a sequence of members, each a node with a path;  *)
(* a file that is no archive is copied.  A read that fails or a member     *)
(* outside the directory ends the extraction where it is; a member of a    *)
(* directory beside it whose name begins with its name counts as inside,   *)
(* because the paths are compared as strings.                              *)
(***************************************************************************)
\* "W2" stands for such a directory beside ${WORKDIR}.
BeginsWith(name, beginning) == name = beginning \/ (name = "W2" /\ beginning = "W")
HasPrefix(path, dest) ==
    /\ Len(path) >= Len(dest) /\ IsPrefix(Front(dest), path)
    /\ BeginsWith(path[Len(dest)], Last(dest))

extractMember(st, dest, m) ==
    LET target == Resolve(dest, m.path) IN
    CASE ~Ok(st) -> st
      [] Ok(st) /\ ~HasPrefix(target, dest) -> Fail(st)
      [] m.node.kind = "dir" -> MkdirAll(st, target, m.node.mode)
      [] m.node.kind = "file" ->
            WriteFile(MkdirAll(st, Front(target), M0755), target, m.node.data, m.node.mode)
      [] m.node.kind = "link" ->
            Symlink(TryRemove(MkdirAll(st, Front(target), M0755), target), m.node.data, target)

unpackArchive(st, name, archives, dest) ==
    IF name \in DOMAIN archives
    THEN FoldLeft(LAMBDA s, m: extractMember(s, dest, m), st, archives[name])
    ELSE IF IsFile(st.fs, dest \o <<name>>)
    THEN WriteFile(st, dest \o <<name>>, <<>>, M0644)   \* copied onto itself
    ELSE Fail(st)

Unpack(st, names, archives) ==
    IF names = <<>> THEN Fail(st)
    ELSE FoldLeft(LAMBDA s, n: unpackArchive(s, Last(n), archives, <<"W">>), st, names)
=============================================================================
