--------------------------- MODULE BinaryPackages ---------------------------
(***************************************************************************)
(* Binary packages (internal/binpkg): what the two writers put into an     *)
(* archive and what the loaders and extractors find in it, the directory   *)
(* that a BinhostManager keeps and indexes, and the choice that a Selector *)
(* makes for a request.                                                    *)
(*                                                                         *)
(* An archive is a record: fmt, cat, pn, version, use, age in days, signer *)
(* ("none", "gpg", "ssh", "rsa"), image, and layout, the members that are  *)
(* in it.  An image is a set of files.                                     *)
(***************************************************************************)
EXTENDS Integers, Sequences, FiniteSets, SequencesExt, FiniteSetsExt

CONSTANT NameContains  \* pairs of package names of which the first contains the second

-----------------------------------------------------------------------------
(* Writers and readers *)

\* Members of the archives that the loaders understand: nested tar files that are
\* not compressed, and an XPAK whose index gives length and offset of a value and
\* whose length does not count the footer.
PlainGPKG == {"metadata.tar", "image.tar"}
DottedGPKG == {"metadata.tar", "image.tar", "names start with ./"}
PackedGPKG == {"metadata.tar.zst", "image.tar.zst"}
PlainTBZ2 == {"tar.bz2", "xpak entry: length, offset", "xpak length: index and data"}

\* GPKGWriter.Write.  The Manifest has a checksum of every file, taken through its
\* links: one that leads to a directory or to nothing is an error.
writeMetadataXML == {"metadata.xml"}
writeManifest(p, staged) == IF p.badlinks \cap staged = {} THEN {"Manifest"} ELSE {}
writeContents(staged) == {"CONTENTS"}
writeImageDirectory(staged) == {"image/"}
WriteGPKG(p, staged) ==
  IF writeManifest(p, staged) = {} THEN {}
  ELSE writeMetadataXML \cup writeManifest(p, staged) \cup writeContents(staged) \cup writeImageDirectory(staged)

\* TBZ2Writer.Write: the tar file and an XPAK appended to it, whose index gives
\* offset and length and whose length counts the footer.
createTarBz2(staged) == {"tar.bz2"}
encodeXPAK == {"xpak entry: offset, length", "xpak length: index, data and footer"}
WriteTBZ2(staged) == createTarBz2(staged) \cup encodeXPAK

\* Sign leaves a file next to the archive whose name depends on the signer: gpg
\* writes armor by default, and what the RSA signer makes is only in memory.
signGPG(armor) == IF armor THEN ".asc" ELSE ".sig"
signSSH == ".sig"
signRSA == ""
SignatureFile(signer) ==
  CASE signer = "gpg" -> signGPG(TRUE) [] signer = "ssh" -> signSSH [] signer = "rsa" -> signRSA [] OTHER -> ""

\* extractFiles: everything but directories; what is missing on disk is an error.
extractFiles(p, disk) == IF p.files \subseteq disk THEN <<p.files>> ELSE <<>>
\* Build: the archive, or nothing when a step fails.
Build(p, fmt, disk, signer) ==
  LET staged == extractFiles(p, disk)
      layout == IF fmt = "gpkg" THEN WriteGPKG(p, staged[1]) ELSE WriteTBZ2(staged[1])
  IN IF staged = <<>> THEN <<>>
     ELSE IF layout = {} THEN <<>>
     ELSE <<[fmt |-> fmt, cat |-> p.cat, pn |-> p.pn, version |-> p.version, use |-> p.use, age |-> 0, signer |-> signer,
             image |-> staged[1], layout |-> layout]>>

ParseXPAK(a) == PlainTBZ2 \subseteq a.layout

\* LoadBinaryPackage: the name, the version and the flags are read from
\* metadata.tar; without it the name of the file gives a name without category,
\* and there are no flags and no age.  Of a .tbz2 the whole stem is taken for the
\* name.  A loaded package never has a signature.
Loaded(a, cat, use, age) ==
  <<[cat |-> cat, pn |-> a.pn, version |-> a.version, use |-> use, age |-> age, signer |-> "none", archive |-> a]>>
LoadGPKG(a) ==
  CASE "metadata.tar" \in a.layout -> Loaded(a, a.cat, a.use, a.age)
    [] "metadata.tar.zst" \in a.layout -> <<>>
    [] OTHER -> Loaded(a, "", {}, 0)
LoadTBZ2(a) == IF ParseXPAK(a) THEN Loaded(a, "", a.use, a.age) ELSE <<>>
LoadBinaryPackage(a) == IF a.fmt = "gpkg" THEN LoadGPKG(a) ELSE LoadTBZ2(a)

\* Extract: an error, or the files that are extracted; a name that starts with a
\* dot is passed over.
ExtractGPKG(a) ==
  CASE "image.tar" \notin a.layout -> [ok |-> FALSE, files |-> {}]
    [] "names start with ./" \in a.layout -> [ok |-> TRUE, files |-> {}]
    [] OTHER -> [ok |-> TRUE, files |-> a.image]
\* The archive ends where the length in the footer says that the XPAK begins.
ExtractTBZ2(a) ==
  IF "xpak length: index and data" \in a.layout THEN [ok |-> TRUE, files |-> a.image] ELSE [ok |-> FALSE, files |-> {}]
Extract(a) == IF a.fmt = "gpkg" THEN ExtractGPKG(a) ELSE ExtractTBZ2(a)

-----------------------------------------------------------------------------
(* BinhostManager: the files below Root, the list Packages and the index; and *)
(* moved, the packages of the caller whose Path leads into Root.              *)

EmptyHost == [files |-> <<>>, dirs |-> {}, sigs |-> {}, packages |-> <<>>, index |-> <<>>, moved |-> {}]
PathOf(a) == [cat |-> a.cat, pn |-> a.pn, version |-> a.version, fmt |-> a.fmt]
WithFile(m, a) == [k \in DOMAIN m.files \cup {PathOf(a)} |-> IF k = PathOf(a) THEN a ELSE m.files[k]]
HostEntry(p, path) == [cat |-> p.cat, pn |-> p.pn, version |-> p.version, use |-> p.use, path |-> path]

\* Add copies the archive over what is there, and the signature if it is a .sig,
\* and appends an entry whether or not there is one for the same file.
CopySignature(m, a) == IF SignatureFile(a.signer) = ".sig" THEN m.sigs \cup {PathOf(a)} ELSE m.sigs
AddFromElsewhere(m, a) ==
  [m EXCEPT !.files = WithFile(m, a), !.dirs = @ \cup {a.cat}, !.sigs = CopySignature(m, a),
            !.packages = Append(@, HostEntry(a, PathOf(a))), !.moved = @ \cup {a}]
\* Add sets the Path of the package to the copy.  When the same package is added
\* again the file is copied onto itself, which cuts it to nothing; or it is missing.
Emptied(a) == [a EXCEPT !.layout = {}, !.image = {}]
AddFromRoot(m, a) ==
  IF PathOf(a) \notin DOMAIN m.files THEN [m EXCEPT !.dirs = @ \cup {a.cat}]
  ELSE [m EXCEPT !.files[PathOf(a)] = Emptied(@), !.packages = Append(@, HostEntry(a, PathOf(a)))]
AddPackage(m, a) == IF a \in m.moved THEN AddFromRoot(m, a) ELSE AddFromElsewhere(m, a)

\* Mutant: the archive stays when its entry goes.
RemovePackage_EntryOnly(m, cat, pn, version) ==
  LET at == SelectInSeq(m.packages, LAMBDA e : e.cat = cat /\ e.pn = pn /\ e.version = version)
  IN IF at = 0 THEN m ELSE [m EXCEPT !.packages = RemoveAt(@, at)]
\* Remove takes the first entry of that name and version, and its files.
RemovePackage(m, cat, pn, version) ==
  LET at == SelectInSeq(m.packages, LAMBDA e : e.cat = cat /\ e.pn = pn /\ e.version = version)
      path == m.packages[at].path
  IN IF at = 0 THEN m
     ELSE [m EXCEPT !.files = [k \in DOMAIN @ \ {path} |-> @[k]], !.sigs = @ \ {path}, !.packages = RemoveAt(@, at)]

\* Scan and Sync walk the directory and pass over what does not load.
Before(j, k) == j.version < k.version \/ (j.version = k.version /\ j.fmt = "gpkg" /\ k.fmt = "tbz2")
Walk(m) ==
  LET Visit(found, k) == found \o LoadBinaryPackage(m.files[k])
  IN FoldLeft(Visit, <<>>, SetToSortSeq(DOMAIN m.files, Before))
Scan(m) == [m EXCEPT !.packages = [i \in DOMAIN Walk(m) |-> HostEntry(Walk(m)[i], PathOf(Walk(m)[i].archive))]]

GenerateIndex(m) == [m EXCEPT !.index = m.packages]

\* Clean removes the archives and signatures that no entry names, and empty directories.
Clean(m) ==
  LET valid == {m.packages[i].path : i \in DOMAIN m.packages}
  IN [m EXCEPT !.files = [k \in DOMAIN @ \cap valid |-> @[k]], !.sigs = @ \cap valid,
               !.dirs = {k.cat : k \in DOMAIN m.files \cap valid} \cap @]

\* Upload puts the archive, and then a .sig, onto a server and leaves its index alone.
Upload(m, a) == [m EXCEPT !.files = WithFile(m, a), !.dirs = @ \cup {a.cat}, !.sigs = CopySignature(m, a)]
\* Over SSH the directory of the category must be there: scp makes none.
UploadSSH(m, a) == IF a.cat \in m.dirs THEN Upload(m, a) ELSE m

HostStep(m, op) ==
  CASE op.do = "add" -> AddPackage(m, op.archive)
    [] op.do = "upload" -> Upload(m, op.archive)
    [] op.do = "scp" -> UploadSSH(m, op.archive)
    [] op.do = "remove" -> RemovePackage(m, op.cat, op.pn, op.version)
    [] op.do = "scan" -> Scan(m)
    [] op.do = "index" -> GenerateIndex(m)
    [] op.do = "clean" -> Clean(m)
HostAfter(ops) == FoldLeft(HostStep, EmptyHost, ops)

-----------------------------------------------------------------------------
(* Binhost: what a client sees *)

\* What is made of an entry of the index has no Package.
packageFromIndexEntry(e) ==
  [pkg |-> FALSE, cat |-> "", pn |-> "", version |-> 0, use |-> e.use, age |-> 0, signer |-> "none", path |-> e.path]
syncLocal(m) ==
  [i \in DOMAIN Walk(m) |-> LET p == Walk(m)[i] IN
     [pkg |-> TRUE, cat |-> p.cat, pn |-> p.pn, version |-> p.version, use |-> p.use, age |-> p.age,
      signer |-> p.signer, path |-> PathOf(p.archive)]]
syncHTTP(m) == [i \in DOMAIN m.index |-> packageFromIndexEntry(m.index[i])]
Sync(m, type) == IF type = "local" THEN syncLocal(m) ELSE syncHTTP(m)

\* Download: the archive at the path, or an error.
Download(m, path) == IF path \in DOMAIN m.files THEN <<m.files[path]>> ELSE <<>>

\* Find: a name is found in every name that contains it.
NameFound(c, cat, pn) == c.cat = cat /\ <<c.pn, pn>> \in NameContains
Find(packages, cat, pn) == SelectSeq(packages, LAMBDA c : c.pkg /\ NameFound(c, cat, pn))

-----------------------------------------------------------------------------
(* Selector.  A required flag is a record [f, on]; a score is a fraction. *)

IsCompatible(c, required) == \A r \in required : (r.f \in c.use) = r.on
IsFresh(c, maxAge) == c.age < maxAge

\* scorePackage: the share of the required flags that the binary has enabled, less
\* up to a fifth for its age.
scorePackage(c, opts) ==
  LET enabled == Cardinality({r \in opts.required : r.f \in c.use})
      all == Cardinality(opts.required)
      age == IF c.age > opts.maxAge THEN opts.maxAge ELSE c.age
  IN CASE ~IsCompatible(c, opts.required) -> [n |-> 0, d |-> 1]
       [] all = 0 -> [n |-> 1, d |-> 1]
       [] opts.maxAge = 0 -> [n |-> enabled, d |-> all]
       [] OTHER -> [n |-> enabled * (10 * opts.maxAge - 2 * age), d |-> all * 10 * opts.maxAge]
ScoreAtLeast(s, t) == s.n * t.d >= t.n * s.d

\* findBestBinary: the first of those with the best score.
MeetsMinimum(c, opts) ==
  /\ ScoreAtLeast(scorePackage(c, opts), opts.minCoverage)
  /\ opts.allowUntrusted \/ c.signer # "none"
  /\ opts.maxAge > 0 => IsFresh(c, opts.maxAge)
findBestBinary(candidates, opts) ==
  LET ok == SelectSeq(candidates, LAMBDA c : MeetsMinimum(c, opts))
      best == SelectInSeq(ok, LAMBDA c : \A j \in DOMAIN ok : ScoreAtLeast(scorePackage(c, opts), scorePackage(ok[j], opts)))
  IN IF best = 0 THEN <<>> ELSE <<ok[best]>>

Excellent == [n |-> 95, d |-> 100]
\* Select: the sequence of the binary that is used; of none, to build from source;
\* or an error.  The version of the request is not looked at.
Select(packages, cat, pn, opts) ==
  LET found == findBestBinary(Find(packages, cat, pn), opts)
      excellent == found # <<>> /\ ScoreAtLeast(scorePackage(found[1], opts), Excellent)
  IN CASE opts.strategy = "source-only" -> [err |-> FALSE, use |-> <<>>]
       [] opts.strategy = "binary-only" -> [err |-> found = <<>>, use |-> found]
       [] opts.strategy = "prefer-source" -> [err |-> FALSE, use |-> IF excellent THEN found ELSE <<>>]
       [] OTHER -> [err |-> FALSE, use |-> found]
=============================================================================
