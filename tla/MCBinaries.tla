----------------------------- MODULE MCBinaries -----------------------------
(***************************************************************************)
(* Binary packages: every sequence of up to three operations on a binhost, *)
(* over archives of two packages whose names contain one another, and the  *)
(* choice of a client with every strategy and few options.                 *)
(***************************************************************************)
EXTENDS MCPolicy, BinaryPackages

MCNameContains == {<<"zlib", "zlib">>, <<"zlib-ng", "zlib">>, <<"zlib-ng", "zlib-ng">>}

Archive(pn, version, use, age, image, layout) ==
    [fmt |-> "gpkg", cat |-> "libs", pn |-> pn, version |-> version, use |-> use, age |-> age, signer |-> "none",
     image |-> image, layout |-> layout]
First == Archive("zlib", 1, {"x"}, 0, {"f1"}, PlainGPKG)
Rebuilt == Archive("zlib", 1, {"x"}, 20, {"f2"}, PlainGPKG)
Other == Archive("zlib-ng", 1, {}, 0, {"g1"}, PlainGPKG)
Dotted == Archive("zlib", 2, {"x"}, 0, {"f3"}, DottedGPKG)
Packed == Archive("zlib", 2, {"x"}, 0, {"f3"}, PackedGPKG)
OldFormat == [Archive("zlib", 1, {"x"}, 0, {"f4"}, PlainTBZ2) EXCEPT !.fmt = "tbz2"]

\* Built by grpm itself: signed, as either format, and once with a bad link.
Zlib2 == [cat |-> "libs", pn |-> "zlib", version |-> 2, use |-> {"x"}, files |-> {"f3", "link"}, badlinks |-> {}]
Own == UNION {Range(Build([Zlib2 EXCEPT !.badlinks = b], fmt, disk, signer)) :
                b \in SUBSET {"link"}, fmt \in {"gpkg", "tbz2"}, disk \in {{"f3"}, {"f3", "link"}}, signer \in {"gpg", "ssh"}}

HostOps ==
    [do : {"add"}, archive : {First, Rebuilt, Other, Dotted, Packed, OldFormat} \cup Own]
      \cup [do : {"upload", "scp"}, archive : {Rebuilt}]
      \cup [do : {"remove"}, cat : {"libs"}, pn : {"zlib"}, version : {1}]
      \cup [do : {"scan", "index", "clean"}]

BinOptions(strategies, required, ages, trust) ==
    [strategy : strategies, required : required, maxAge : ages, allowUntrusted : trust, minCoverage : {[n |-> 9, d |-> 10]}]
Require(on) == {[f |-> "x", on |-> on]}
BinhostInputs ==
    [kind : {"binhost"}, ops : SeqOf(HostOps, 3), type : {"local", "http"}, pn : {"zlib"},
     opts : BinOptions({"auto"}, {{}}, {0}, {TRUE})]
      \cup [kind : {"binhost"}, ops : SeqOf(HostOps, 2), type : {"local"}, pn : {"zlib", "zlib-ng"},
            opts : BinOptions({"prefer-binary", "binary-only", "prefer-source", "source-only"},
                              {{}, Require(TRUE), Require(FALSE)}, {0, 30}, BOOLEAN)]

SelectBinary ==
    /\ input.kind = "binhost" /\ answer = NoAnswer
    /\ LET host == HostAfter(input.ops)
           chosen == Select(Sync(host, input.type), "libs", input.pn, input.opts)
       IN answer' = [kind |-> "binhost", host |-> host, err |-> chosen.err, use |-> chosen.use,
                     got |-> [i \in DOMAIN chosen.use |-> Download(host, chosen.use[i].path)],
                     files |-> [i \in DOMAIN chosen.use |-> Extract(host.files[chosen.use[i].path])]]
    /\ UNCHANGED input

-----------------------------------------------------------------------------
\* The archive that was put last at a path by these operations.
LastPut(ops, path) ==
    LET puts == {i \in DOMAIN ops : ops[i].do \in {"add", "upload", "scp"} /\ PathOf(ops[i].archive) = path}
    IN ops[Max(puts)].archive
PutOnce(ops) ==
    LET puts == {i \in DOMAIN ops : ops[i].do \in {"add", "upload", "scp"}}
        name(i) == <<ops[i].archive.pn, ops[i].archive.version>>
    IN \A i, j \in puts : i # j => name(i) # name(j)
Removes(op, a) == op.do = "remove" /\ op.pn = a.pn /\ op.version = a.version

\* Archives of the portage layout: their members can be read.
Usable(a) == a.layout = PlainGPKG
Fits(a, pn, opts) ==
    /\ a.pn = pn /\ Usable(a) /\ opts.allowUntrusted
    /\ \A r \in opts.required : r.on /\ r.f \in a.use
    /\ opts.maxAge > 0 => 2 * a.age <= opts.maxAge

\* A binhost serves what was published.  (1) An index that has just been written
\* names for every entry the archive that was last put there, when nothing was put
\* twice.  (2) A binary that a client with a local host chooses is the archive last
\* put at its path; it has the flags that are required, is fresh and, where
\* signatures are required, signed; and it was not removed since.  (3) A usable
\* archive that is in its place and fits is never passed over for building from
\* source by prefer-binary, whatever else was published, scanned or cleaned; and
\* source-only never takes one.
HostServesWhatWasPublished ==
    answer.kind = "binhost" =>
        LET ops == input.ops
            host == answer.host
            opts == input.opts
            added(a) == \E i \in DOMAIN ops : ops[i].do = "add" /\ ops[i].archive = a
                            /\ \A j \in DOMAIN ops : j > i => ~Removes(ops[j], a)
        IN /\ ops # <<>> /\ Last(ops).do = "index" /\ PutOnce(ops)
              => \A i \in DOMAIN host.index : Download(host, host.index[i].path) = <<LastPut(ops, host.index[i].path)>>
           /\ \A i \in DOMAIN answer.use : LET c == answer.use[i] IN
                /\ answer.got[i] = <<LastPut(ops, c.path)>>
                /\ IsCompatible(answer.got[i][1], opts.required)
                /\ opts.maxAge > 0 => answer.got[i][1].age < opts.maxAge
                /\ opts.allowUntrusted \/ answer.got[i][1].signer # "none"
                /\ PutOnce(ops) => added(answer.got[i][1]) \/ \E j \in DOMAIN ops : ops[j].do \in {"upload", "scp"}
           /\ opts.strategy \in {"auto", "prefer-binary"} /\ input.type = "local" /\ PutOnce(ops)
              => (answer.use = <<>> => \A a \in {First, Rebuilt, Other} : added(a) => ~Fits(a, input.pn, opts))
           /\ opts.strategy = "source-only" => answer.use = <<>> /\ ~answer.err

\* Refuted: binhost.go:319 "Find searches for packages matching the given atom.":
\* a longer name that contains the one asked for is taken as well.
RequestedName == answer.kind = "binhost" => \A i \in DOMAIN answer.use : answer.use[i].pn = input.pn

\* Refuted: an archive built by grpm can be loaded and extracted by grpm
\* (builder.go:179 "Build builds the binary package.").
OwnArchivesReadable ==
    answer.kind = "binhost" =>
        \A i \in DOMAIN input.ops : input.ops[i].do = "add" /\ input.ops[i].archive \in Own =>
            Extract(input.ops[i].archive) = [ok |-> TRUE, files |-> {"f3", "link"}]

\* Refuted: binhost_manager.go:72 "Copy package file to binhost": a package that is
\* added a second time is copied onto itself, and its archive is cut to nothing.
AddingAgainKeeps ==
    answer.kind = "binhost" =>
        \A i \in DOMAIN input.ops : input.ops[i].do = "add" /\ Usable(input.ops[i].archive) =>
            \A path \in DOMAIN answer.host.files :
                path = PathOf(input.ops[i].archive) => answer.host.files[path].layout # {}

\* Refuted: binhost_manager.go:338 "Clean removes orphaned files": after a Scan, also
\* archives that do not load.
CleanKeepsAdded ==
    answer.kind = "binhost" =>
        \A i \in DOMAIN input.ops :
            input.ops[i].do = "add" /\ (\A j \in DOMAIN input.ops : ~Removes(input.ops[j], input.ops[i].archive))
            => PathOf(input.ops[i].archive) \in DOMAIN answer.host.files

\* Refuted: binhost.go:96 "Sync synchronizes the binhost package list.": of an HTTP
\* host nothing is ever found.
HTTPHostServes ==
    answer.kind = "binhost" /\ input.type = "http" /\ input.ops # <<>> /\ Last(input.ops).do = "index" /\ PutOnce(input.ops) =>
        \A i \in DOMAIN input.ops : input.ops[i].do = "add" => answer.use # <<>>

-----------------------------------------------------------------------------
BinariesNext == PolicyNext \/ SelectBinary
BinariesSpec == (Init \/ PolicyInit \/ (input \in BinhostInputs /\ answer = NoAnswer)) /\ [][BinariesNext]_vars
=============================================================================
