--------------------------- MODULE PackageInstall ---------------------------
(***************************************************************************)
(* Installing, upgrading and removing packages: Installer, Merger and      *)
(* Unmerger (internal/install), the PackageDatabase in memory and the      *)
(* VarDB on disk (internal/state), and the commands of internal/cli that   *)
(* drive them.                                                             *)
(*                                                                         *)
(* Every command is a process of its own: it loads the database from the   *)
(* VarDB, works, and ends or is killed.  `grpm emerge` runs one Install    *)
(* per package on the workers of the BuildScheduler, all with the same     *)
(* Installer and database.  A step is one file operation, one critical     *)
(* section of the database or one file of a VarDB entry.                   *)
(*                                                                         *)
(* Only regular files are modelled: directories and symlinks are neither   *)
(* protected nor backed up, and take part in no collision that regular     *)
(* files do not show as well.  A path has no white space, which separates  *)
(* the fields of a CONTENTS line.                                          *)
(***************************************************************************)
EXTENDS Integers, FiniteSets

CONSTANTS
    Atoms,          \* category/name-version
    NameOf, SlotOf, \* atom -> category/name, atom -> slot
    Rank,           \* atom -> its place in the directory order of the VarDB
    Paths,
    ContentOf,      \* atom -> (path -> content of that file in the image)
    ConfigPaths,    \* paths under CONFIG_PROTECT and not masked
    MaxCfg,         \* ._cfgNNNN_ names per path (10000 in the code)
    Workers,
    Commands,       \* subset of {"emerge", "install", "uninstall"}
    Replace, ForceOpt, \* the options of emerge
    RootIsSlash,    \* installing into "/" (and not with --root)?
    MayCrash,
    MaxErrors,      \* I/O errors, hashes that cannot be computed included
    MaxCommands, MaxEdits,      \* bounds
    NoAtom, NoFile, Edited, Partial,
    NoHash          \* in a record: the file, with an empty hash

ASSUME AtomsAssumption == NoAtom \notin Atoms /\ Rank \in [Atoms -> Int]
ASSUME ContentAssumption ==
    /\ NoFile \notin {Edited, Partial} /\ Edited # Partial
    /\ NoHash \notin {NoFile, Edited, Partial}
    /\ \A a \in Atoms, p \in Paths : ContentOf[a][p] \notin {Edited, Partial, NoHash}
ASSUME PathsAssumption == ConfigPaths \subseteq Paths
ASSUME CommandsAssumption == Commands \subseteq {"emerge", "install", "uninstall"}
\* Only emerge takes --root.
ASSUME RootAssumption == RootIsSlash \/ Commands = {"emerge"}
ASSUME CfgAssumption == MaxCfg \in Nat /\ MaxErrors \in Nat

\* <<p, 0>> is the path p itself, <<p, i>> the name ._cfg000(i-1)_ beside it.
FileNames == Paths \X (0..MaxCfg)

VARIABLES
    fs,            \* file name -> its content, NoFile if there is none
    backup,        \* file name -> the content of its .grpm-backup
    vfiles,        \* atom -> its CONTENTS in the VarDB: file name -> content,
                   \* which stands for its hash
    vslot,         \* atoms whose VarDB entry has its SLOT file
    command,       \* the command under way, "none" between commands
    db, dbFiles,   \* packages, and the Files of each
    fileIndex,     \* file name -> atom
    wpc,           \* per worker: control point ...
    pkg,           \* ... the package it installs or removes
    old,           \* ... the installed version it unmerges
    todo,          \* ... file names the current loop has not reached
    files,         \* ... the Files it installed or removes
    numCommands, numEdits, numErrors,
    \* History: atoms whose installation was reported as successful and that
    \* nobody has begun to unmerge or to write anew since.
    acked,
    \* History: file names whose hash the last step could not compute.
    unhashed

diskVars == <<fs, backup, vfiles, vslot>>
dbVars   == <<db, dbFiles, fileIndex>>
workVars == <<wpc, pkg, old, todo, files>>
counters == <<numCommands, numEdits, numErrors>>
vars == <<diskVars, command, dbVars, workVars, counters, acked, unhashed>>

None == [n \in FileNames |-> NoFile]
Recorded(rec) == {n \in FileNames : rec[n] # NoFile}
\* parseContentsLine skips a line without a hash: it has too few fields.
Parsed(rec) == [n \in FileNames |-> IF rec[n] = NoHash THEN NoFile ELSE rec[n]]
Image(a) == {<<p, 0>> : p \in {q \in Paths : ContentOf[a][q] # NoFile}}

\* No process: nothing in memory.
NoProcess ==
    /\ command' = "none"
    /\ db' = {} /\ dbFiles' = [a \in Atoms |-> None]
    /\ fileIndex' = [n \in FileNames |-> NoAtom]
    /\ wpc' = [w \in Workers |-> "idle"]
    /\ pkg' = [w \in Workers |-> NoAtom] /\ old' = [w \in Workers |-> NoAtom]
    /\ todo' = [w \in Workers |-> {}] /\ files' = [w \in Workers |-> None]
    /\ unhashed' = {}

Init ==
    /\ fs = None /\ backup = None
    /\ vfiles = [a \in Atoms |-> None] /\ vslot = {}
    /\ command = "none"
    /\ db = {} /\ dbFiles = [a \in Atoms |-> None]
    /\ fileIndex = [n \in FileNames |-> NoAtom]
    /\ wpc = [w \in Workers |-> "idle"]
    /\ pkg = [w \in Workers |-> NoAtom] /\ old = [w \in Workers |-> NoAtom]
    /\ todo = [w \in Workers |-> {}] /\ files = [w \in Workers |-> None]
    /\ numCommands = 0 /\ numEdits = 0 /\ numErrors = 0
    /\ acked = {} /\ unhashed = {}

(***************************************************************************)
(* Commands.                                                               *)
(***************************************************************************)
\* LoadInto adds the entries that have CONTENTS and SLOT, in directory order:
\* of several owners of a file the last one is indexed.
LoadedOwner(n) ==
    LET owners == {a \in vslot : Parsed(vfiles[a])[n] # NoFile}
        last   == {a \in owners : \A b \in owners : Rank[b] <= Rank[a]}
    IN IF last = {} THEN NoAtom ELSE CHOOSE a \in last : TRUE

\* A resolution holds one version per name and slot.
Solution(choice) ==
    \A v, w \in Workers :
        (v # w /\ choice[v] # NoAtom /\ choice[w] # NoAtom) =>
            <<NameOf[choice[v]], SlotOf[choice[v]]>>
                # <<NameOf[choice[w]], SlotOf[choice[w]]>>

BeginCommand(kind, choice) ==
    /\ command = "none"
    /\ numCommands < MaxCommands /\ numCommands' = numCommands + 1
    /\ command' = kind
    /\ \E w \in Workers : choice[w] # NoAtom
    /\ Solution(choice)
    /\ kind # "emerge" => Cardinality({w \in Workers : choice[w] # NoAtom}) = 1
    /\ db' = vslot
    /\ dbFiles' = [a \in Atoms |-> IF a \in vslot THEN Parsed(vfiles[a]) ELSE None]
    /\ fileIndex' = [n \in FileNames |-> LoadedOwner(n)]
    /\ pkg' = choice
    /\ wpc' = [w \in Workers |->
                 IF choice[w] = NoAtom THEN "idle"
                 ELSE IF kind = "uninstall" THEN "has" ELSE "find"]
    /\ UNCHANGED <<diskVars, old, todo, files, numEdits, numErrors, acked,
                   unhashed>>

EndCommand ==
    /\ command # "none"
    /\ \A w \in Workers : wpc[w] \in {"idle", "ok", "error"}
    /\ NoProcess
    /\ UNCHANGED <<diskVars, counters, acked>>

Crash ==
    /\ MayCrash /\ command # "none"
    /\ \E w \in Workers : wpc[w] \notin {"idle", "ok", "error"}
    /\ NoProcess
    /\ UNCHANGED <<diskVars, counters, acked>>

\* The administrator changes a file between two commands.
UserEdit(p) ==
    /\ command = "none" /\ numEdits < MaxEdits
    /\ fs[<<p, 0>>] \notin {NoFile, Edited}
    /\ fs' = [fs EXCEPT ![<<p, 0>>] = Edited]
    /\ numEdits' = numEdits + 1
    /\ UNCHANGED <<backup, vfiles, vslot, command, dbVars, workVars,
                   numCommands, numErrors, acked, unhashed>>

\* A step of one worker that meets an I/O error (err) or does not.
FailsIf(err) ==
    /\ err => numErrors < MaxErrors
    /\ numErrors' = IF err THEN numErrors + 1 ELSE numErrors
    /\ UNCHANGED <<command, numCommands, numEdits>>

\* What a step of one worker leaves alone if nothing fails, and if it does.
OnlyWorker == FailsIf(FALSE) /\ unhashed' = {}
OnlyFails  == FailsIf(TRUE) /\ unhashed' = {}

(***************************************************************************)
(* Installer.Install.                                                      *)
(***************************************************************************)
\* findInstalledVersion: some installed package of that name, in the order of
\* a Go map; its slot plays no part.
FindInstalled(w, q) ==
    /\ wpc[w] = "find"
    /\ q \in db /\ NameOf[q] = NameOf[pkg[w]]
    /\ IF q = pkg[w] /\ ~(command = "emerge" /\ Replace)
         THEN /\ wpc' = [wpc EXCEPT ![w] = IF command = "install" THEN "rewrite"
                                                                  ELSE "ok"]
              /\ files' = [files EXCEPT ![w] = dbFiles[q]]
              /\ UNCHANGED old
         ELSE /\ wpc' = [wpc EXCEPT ![w] = "get"]
              /\ old' = [old EXCEPT ![w] = q]
              /\ UNCHANGED files
    /\ OnlyWorker /\ UNCHANGED <<diskVars, dbVars, pkg, todo, acked>>

\* The work of Merge begins; --force skips the collision check.
StartMerge(w) ==
    /\ wpc' = [wpc EXCEPT ![w] =
                 IF command = "emerge" /\ ForceOpt THEN "copy" ELSE "check"]
    /\ todo' = [todo EXCEPT ![w] = Image(pkg[w])]
    /\ files' = [files EXCEPT ![w] = None]

FindNone(w) ==
    /\ wpc[w] = "find"
    /\ \A q \in db : NameOf[q] # NameOf[pkg[w]]
    /\ StartMerge(w)
    /\ OnlyWorker /\ UNCHANGED <<diskVars, dbVars, pkg, old, acked>>

\* uninstallPackageReal: db.Has.
UninstallHas(w) ==
    /\ wpc[w] = "has"
    /\ IF pkg[w] \in db
         THEN /\ wpc' = [wpc EXCEPT ![w] = "get"]
              /\ old' = [old EXCEPT ![w] = pkg[w]]
         ELSE wpc' = [wpc EXCEPT ![w] = "error"] /\ UNCHANGED old
    /\ OnlyWorker /\ UNCHANGED <<diskVars, dbVars, pkg, todo, files, acked>>

(***************************************************************************)
(* Installer.Uninstall and Unmerger.                                       *)
(***************************************************************************)
\* DB.Get: another worker may have removed it since.
UninstallGet(w) ==
    /\ wpc[w] = "get"
    /\ IF old[w] \in db
         THEN /\ wpc' = [wpc EXCEPT ![w] = "remove"]
              /\ files' = [files EXCEPT ![w] = dbFiles[old[w]]]
              /\ todo' = [todo EXCEPT ![w] = Recorded(dbFiles[old[w]])]
              /\ acked' = acked \ {old[w]}
         ELSE /\ wpc' = [wpc EXCEPT ![w] = "error"]
              /\ UNCHANGED <<files, todo, acked>>
    /\ OnlyWorker /\ UNCHANGED <<diskVars, dbVars, pkg, old>>

\* Mutant: a changed file is removed like any other.
RemoveFile_NoBackup(w, n, hashErr) ==
    /\ wpc[w] = "remove" /\ n \in todo[w]
    /\ hashErr => fs[n] # NoFile /\ files[w][n] # NoHash
    /\ FailsIf(hashErr)
    /\ fs' = [fs EXCEPT ![n] = NoFile]
    /\ unhashed' = IF hashErr THEN {n} ELSE {}
    /\ todo' = [todo EXCEPT ![w] = @ \ {n}]
    /\ UNCHANGED <<backup, vfiles, vslot, dbVars, wpc, pkg, old, files, acked>>

\* A file that is gone is skipped, one whose hash has changed is renamed.  It
\* is removed without a comparison when its hash cannot be computed or the
\* record has none.
RemoveFile(w, n, hashErr) ==
    /\ wpc[w] = "remove" /\ n \in todo[w]
    /\ hashErr => fs[n] # NoFile /\ files[w][n] # NoHash
    /\ FailsIf(hashErr)
    /\ fs' = [fs EXCEPT ![n] = NoFile]
    /\ backup' = IF ~hashErr /\ fs[n] # NoFile /\ files[w][n] \notin {NoHash, fs[n]}
                   THEN [backup EXCEPT ![n] = fs[n]] ELSE backup
    /\ unhashed' = IF hashErr THEN {n} ELSE {}
    /\ todo' = [todo EXCEPT ![w] = @ \ {n}]
    /\ UNCHANGED <<vfiles, vslot, dbVars, wpc, pkg, old, files, acked>>

\* Mutant: DB.Remove leaves the index alone.
RemoveFromDB_KeepsIndex(w) ==
    /\ wpc[w] = "remove" /\ todo[w] = {}
    /\ IF old[w] \in db
         THEN /\ db' = db \ {old[w]}
              /\ dbFiles' = [dbFiles EXCEPT ![old[w]] = None]
              /\ IF command = "uninstall"
                   THEN /\ wpc' = [wpc EXCEPT ![w] = "drop"]
                        /\ UNCHANGED <<todo, files>>
                   ELSE StartMerge(w)
         ELSE /\ wpc' = [wpc EXCEPT ![w] = "error"]
              /\ UNCHANGED <<db, dbFiles, todo, files>>
    /\ OnlyWorker /\ UNCHANGED <<diskVars, fileIndex, pkg, old, acked>>

\* DB.Remove, with every index entry of its files.  The VarDB entry stays.
RemoveFromDB(w) ==
    /\ wpc[w] = "remove" /\ todo[w] = {}
    /\ IF old[w] \in db
         THEN /\ db' = db \ {old[w]}
              /\ dbFiles' = [dbFiles EXCEPT ![old[w]] = None]
              /\ fileIndex' = [n \in FileNames |->
                                 IF dbFiles[old[w]][n] # NoFile THEN NoAtom
                                 ELSE fileIndex[n]]
              /\ IF command = "uninstall"
                   THEN /\ wpc' = [wpc EXCEPT ![w] = "drop"]
                        /\ UNCHANGED <<todo, files>>
                   ELSE StartMerge(w)
         ELSE /\ wpc' = [wpc EXCEPT ![w] = "error"]
              /\ UNCHANGED <<dbVars, todo, files>>
    /\ OnlyWorker /\ UNCHANGED <<diskVars, pkg, old, acked>>

\* uninstallPackageReal removes the VarDB entry; a failure is only a warning.
DropVarDB(w, err) ==
    /\ wpc[w] = "drop"
    /\ IF err THEN UNCHANGED <<vfiles, vslot>>
       ELSE /\ vfiles' = [vfiles EXCEPT ![old[w]] = None]
            /\ vslot' = vslot \ {old[w]}
    /\ wpc' = [wpc EXCEPT ![w] = "ok"]
    /\ FailsIf(err) /\ unhashed' = {}
    /\ UNCHANGED <<fs, backup, dbVars, pkg, old, todo, files, acked>>

(***************************************************************************)
(* Merger.                                                                 *)
(***************************************************************************)
\* CollisionDetector looks the target path up in the index, whose keys are
\* relative to the root: with another root it finds nobody.
WhoOwns(n) == IF RootIsSlash THEN fileIndex[n] ELSE NoAtom

\* Mutant: files of other packages do not count.
Collides_Never(a, n) == FALSE

Collides(a, n) ==
    /\ fs[n] # NoFile
    /\ WhoOwns(n) # NoAtom /\ NameOf[WhoOwns(n)] # NameOf[a]

CheckFile(w, n) ==
    /\ wpc[w] = "check" /\ n \in todo[w]
    /\ IF Collides(pkg[w], n)
         THEN wpc' = [wpc EXCEPT ![w] = "error"] /\ UNCHANGED todo
         ELSE todo' = [todo EXCEPT ![w] = @ \ {n}] /\ UNCHANGED wpc
    /\ OnlyWorker /\ UNCHANGED <<diskVars, dbVars, pkg, old, files, acked>>

CheckEnd(w) ==
    /\ wpc[w] = "check" /\ todo[w] = {}
    /\ wpc' = [wpc EXCEPT ![w] = "copy"]
    /\ todo' = [todo EXCEPT ![w] = Image(pkg[w])]
    /\ OnlyWorker /\ UNCHANGED <<diskVars, dbVars, pkg, old, files, acked>>

\* ShouldProtect, and the file exists with another content.
Protected(n, content) ==
    RootIsSlash /\ n[1] \in ConfigPaths /\ fs[n] \notin {NoFile, content}

\* GenerateProtectedName: the first free ._cfg name, if there is one left.
Destinations(n, content) ==
    IF ~Protected(n, content) THEN {n}
    ELSE {<<n[1], i>> : i \in {k \in 1..MaxCfg :
            /\ fs[<<n[1], k>>] = NoFile
            /\ \A j \in 1..(k - 1) : fs[<<n[1], j>>] # NoFile}}

\* The hash is recorded, or an empty one if it cannot be computed.
CopyFile(w, n) ==
    LET content == ContentOf[pkg[w]][n[1]] IN
    /\ wpc[w] = "copy" /\ n \in todo[w]
    /\ \E dest \in Destinations(n, content), hash \in {content, NoHash} :
          /\ FailsIf(hash = NoHash)
          /\ fs' = [fs EXCEPT ![dest] = content]
          /\ files' = [files EXCEPT ![w][dest] = hash]
    /\ todo' = [todo EXCEPT ![w] = @ \ {n}] /\ unhashed' = {}
    /\ UNCHANGED <<backup, vfiles, vslot, dbVars, wpc, pkg, old, acked>>

\* "too many protected config files".
CopyNoName(w, n) ==
    /\ wpc[w] = "copy" /\ n \in todo[w]
    /\ Destinations(n, ContentOf[pkg[w]][n[1]]) = {}
    /\ wpc' = [wpc EXCEPT ![w] = "error"]
    /\ OnlyWorker
    /\ UNCHANGED <<diskVars, dbVars, pkg, old, todo, files, acked>>

\* The copy fails after os.Create has truncated the destination, or chmod fails
\* after the copy.
CopyFail(w, n) ==
    /\ wpc[w] = "copy" /\ n \in todo[w]
    /\ \E dest \in Destinations(n, ContentOf[pkg[w]][n[1]]),
          left \in {Partial, ContentOf[pkg[w]][n[1]]} :
             fs' = [fs EXCEPT ![dest] = left]
    /\ wpc' = [wpc EXCEPT ![w] = "error"]
    /\ OnlyFails
    /\ UNCHANGED <<backup, vfiles, vslot, dbVars, pkg, old, todo, files, acked>>

\* DB.Add: the index forgets the files of an entry that is replaced.
AddToDB(w) ==
    /\ wpc[w] = "copy" /\ todo[w] = {}
    /\ db' = db \union {pkg[w]}
    /\ dbFiles' = [dbFiles EXCEPT ![pkg[w]] = files[w]]
    /\ fileIndex' = [n \in FileNames |->
                       IF files[w][n] # NoFile THEN pkg[w]
                       ELSE IF dbFiles[pkg[w]][n] # NoFile THEN NoAtom
                       ELSE fileIndex[n]]
    /\ wpc' = [wpc EXCEPT ![w] = "contents"]
    /\ OnlyWorker /\ UNCHANGED <<diskVars, pkg, old, todo, files, acked>>

(***************************************************************************)
(* VarDBWriter.Write, called by Merger and, again, by installPackageReal   *)
(* (control points "rewrite", "refill" and "reslot").                      *)
(***************************************************************************)
Rewriting == {"rewrite", "refill", "reslot"}

\* os.Create truncates CONTENTS.
TruncateContents(w) ==
    /\ wpc[w] \in {"contents", "rewrite"}
    /\ vfiles' = [vfiles EXCEPT ![pkg[w]] = None]
    /\ wpc' = [wpc EXCEPT ![w] = IF @ = "contents" THEN "fill" ELSE "refill"]
    /\ acked' = acked \ {pkg[w]}
    /\ OnlyWorker
    /\ UNCHANGED <<fs, backup, vslot, dbVars, pkg, old, todo, files>>

FillContents(w) ==
    /\ wpc[w] \in {"fill", "refill"}
    /\ vfiles' = [vfiles EXCEPT ![pkg[w]] = files[w]]
    /\ wpc' = [wpc EXCEPT ![w] = IF @ = "fill" THEN "slot" ELSE "reslot"]
    /\ OnlyWorker
    /\ UNCHANGED <<fs, backup, vslot, dbVars, pkg, old, todo, files, acked>>

\* SLOT and the remaining files; Install returns nil.
WriteSlot(w) ==
    /\ wpc[w] \in {"slot", "reslot"}
    /\ vslot' = vslot \union {pkg[w]}
    /\ IF wpc[w] = "slot" /\ command = "install"
         THEN wpc' = [wpc EXCEPT ![w] = "rewrite"] /\ UNCHANGED acked
         ELSE wpc' = [wpc EXCEPT ![w] = "ok"] /\ acked' = acked \union {pkg[w]}
    /\ OnlyWorker
    /\ UNCHANGED <<fs, backup, vfiles, dbVars, pkg, old, todo, files>>

\* An error of stat, mkdir, rename, remove or a write ends Install or Uninstall; the
\* second Write of installPackageReal only warns.
IOFail(w) ==
    /\ \/ wpc[w] \in {"contents", "fill", "slot"} \union Rewriting
       \/ wpc[w] \in {"remove", "copy"} /\ todo[w] # {}
    /\ wpc' = [wpc EXCEPT ![w] = IF @ \in Rewriting THEN "ok" ELSE "error"]
    /\ OnlyFails
    /\ UNCHANGED <<diskVars, dbVars, pkg, old, todo, files, acked>>

(***************************************************************************)
(* The specification.                                                      *)
(***************************************************************************)
Worker(w) ==
    \/ \E q \in Atoms : FindInstalled(w, q)
    \/ FindNone(w)
    \/ UninstallHas(w)
    \/ UninstallGet(w)
    \/ \E n \in FileNames, hashErr \in BOOLEAN : RemoveFile(w, n, hashErr)
    \/ RemoveFromDB(w)
    \/ \E err \in BOOLEAN : DropVarDB(w, err)
    \/ \E n \in FileNames : CheckFile(w, n)
    \/ CheckEnd(w)
    \/ \E n \in FileNames : CopyFile(w, n)
    \/ \E n \in FileNames : CopyNoName(w, n)
    \/ \E n \in FileNames : CopyFail(w, n)
    \/ AddToDB(w)
    \/ TruncateContents(w)
    \/ FillContents(w)
    \/ WriteSlot(w)
    \/ IOFail(w)

Next ==
    \/ \E kind \in Commands, choice \in [Workers -> Atoms \union {NoAtom}] :
          BeginCommand(kind, choice)
    \/ EndCommand
    \/ Crash
    \/ \E p \in Paths : UserEdit(p)
    \/ \E w \in Workers : Worker(w)

Spec == Init /\ [][Next]_vars

(***************************************************************************)
(* Properties.                                                             *)
(***************************************************************************)
Contents == {ContentOf[a][p] : a \in Atoms, p \in Paths}
              \union {NoFile, Edited, Partial}
Listing  == [FileNames -> Contents]
Records  == [FileNames -> Contents \union {NoHash}]
Points   == {"idle", "ok", "error", "find", "has", "get", "remove", "drop",
             "check", "copy", "contents", "fill", "slot"} \union Rewriting
Unmerging == {"get", "remove", "drop"}

DiskOK ==
    /\ fs \in Listing /\ backup \in Listing
    /\ vfiles \in [Atoms -> Records] /\ vslot \in SUBSET Atoms

DatabaseOK ==
    /\ db \in SUBSET Atoms /\ dbFiles \in [Atoms -> Records]
    /\ fileIndex \in [FileNames -> Atoms \union {NoAtom}]

WorkersOK ==
    /\ wpc \in [Workers -> Points]
    /\ pkg \in [Workers -> Atoms \union {NoAtom}]
    /\ old \in [Workers -> Atoms \union {NoAtom}]
    /\ todo \in [Workers -> SUBSET FileNames]
    /\ files \in [Workers -> Records]
    /\ \A w \in Workers : /\ wpc[w] # "idle" => pkg[w] \in Atoms
                          /\ wpc[w] \in Unmerging => old[w] \in Atoms

\* The file system, the VarDB, the database and the workers have the shape
\* internal/install and internal/state give them; a worker at work has a
\* package, and a package to unmerge while it unmerges.
TypeOK ==
    /\ DiskOK /\ DatabaseOK /\ WorkersOK
    /\ command \in Commands \union {"none"}
    /\ numCommands \in Nat /\ numEdits \in Nat /\ numErrors \in Nat
    /\ acked \in SUBSET Atoms /\ unhashed \in SUBSET FileNames

\* WhoOwns (database.go:323) never answers with a package that is not installed
\* or that does not have the file, whatever order Add and Remove of several
\* workers take, with files that two packages share included.
IndexSound ==
    \A n \in FileNames :
        fileIndex[n] # NoAtom =>
            fileIndex[n] \in db /\ dbFiles[fileIndex[n]][n] # NoFile

\* No record of a package, in memory or in the VarDB, lists the administrator's
\* version of a file: the hash in a record is that of what was installed.
RecordsAsInstalled ==
    \A n \in FileNames :
        /\ \A a \in Atoms : vfiles[a][n] # Edited /\ dbFiles[a][n] # Edited
        /\ \A w \in Workers : files[w][n] # Edited

\* A record without a hash is of this process, which has written the file.
UnhashedIsOwn ==
    \A n \in FileNames :
        \/ fs[n] # Edited
        \/ /\ \A a \in Atoms : dbFiles[a][n] # NoHash
           /\ \A w \in Workers : files[w][n] # NoHash

\* Between commands nobody works and nothing is in memory.
MemoryEmpty ==
    command = "none" => /\ wpc = [w \in Workers |-> "idle"]
                        /\ files = [w \in Workers |-> None]
                        /\ dbFiles = [a \in Atoms |-> None]

\* The inductive invariant behind IndexSound and UserConfigKept.
IndInv == TypeOK /\ IndexSound /\ RecordsAsInstalled /\ UnhashedIsOwn /\ MemoryEmpty

\* CONFIG_PROTECT (protect.go:20) and the backup of unmerge.go: whatever is
\* installed, upgraded, removed or killed, the administrator's version of a
\* configuration file goes nowhere but into its backup, unless it cannot be
\* read at the very step that unmerges it.
UserConfigKept ==
    [][\A p \in ConfigPaths :
          LET n == <<p, 0>> IN
          (fs[n] = Edited /\ fs'[n] # Edited) => backup'[n] = Edited \/ n \in unhashed']_vars

\* Refuted by TLC with MaxErrors > 0: unmerge.go:141, "modified, backing up".
UserConfigAlwaysKept ==
    [][\A p \in ConfigPaths :
          LET n == <<p, 0>> IN
          (fs[n] = Edited /\ fs'[n] # Edited) => backup'[n] = Edited]_vars

\* The record lists, under its name or a ._cfg name, each of these files of a,
\* the ones that could not be hashed in a line without hash.
Lists(rec, a, names) ==
    \A n \in names : \E i \in 0..MaxCfg :
        \/ rec[<<n[1], i>>] = ContentOf[a][n[1]]
        \/ MaxErrors > 0 /\ rec[<<n[1], i>>] = NoHash

\* A package whose installation was reported as successful is found by every
\* later command until it is itself unmerged or written anew, with all of its
\* files but those that the merger could not hash: a crash or an error at any
\* point of the installation, upgrade or removal of other packages, other
\* versions included, leaves its entry alone.
Durable == \A a \in acked : a \in vslot /\ Lists(vfiles[a], a, Image(a))

\* Refuted by TLC with MaxErrors > 0: every file of a reported installation is read
\* back.  merge.go:373, "Hash calculation failure is not critical".
AllReadBack ==
    \A a \in acked : \A n \in Image(a) :
        \E i \in 0..MaxCfg : Parsed(vfiles[a])[<<n[1], i>>] = ContentOf[a][n[1]]

\* A worker that has the command for itself.
Alone(w) == \A v \in Workers : v # w => pkg[v] = NoAtom

\* merge.go:141, "Files owned by another package: FATAL, block installation":
\* between the collision check of a package and its last copy nothing makes a
\* sequential installation overwrite a file that the database gives to
\* another package.
ForeignFilesKept ==
    [][\A w \in Workers, n \in FileNames :
          (wpc[w] = "copy" /\ Alone(w) /\ fs'[n] # fs[n] /\ fs[n] # NoFile)
            => (fileIndex[n] = NoAtom \/ NameOf[fileIndex[n]] = NameOf[pkg[w]])]_vars

\* Neither the entry of a reported installation nor a file of another package is
\* lost to what other commands and workers do.
InstalledKept == []Durable /\ ForeignFilesKept

\* unmerge.go:78, "removeFiles removes all files owned by the package", and no
\* others: the files of an installed package stay on disk until it is itself
\* unmerged.
InstalledFilesStay ==
    \A a \in acked : \A n \in Recorded(vfiles[a]) : fs[n] # NoFile

(***************************************************************************)
(* What InstalledKept rests on, beside IndInv.                             *)
(***************************************************************************)
\* Who does what: uninstall only unmerges, emerge never touches the VarDB entry of
\* what it unmerges, and no two workers have the same package.
Duties ==
    /\ command = "uninstall" =>
          \A w \in Workers : wpc[w] \in Unmerging \union {"idle", "has", "ok", "error"}
    /\ command = "emerge" => \A w \in Workers : wpc[w] \notin {"has", "drop"} \union Rewriting
    /\ \A v, w \in Workers : v # w /\ pkg[v] # NoAtom => pkg[v] # pkg[w]

\* A worker's record is complete when it is written, its package counts as
\* installed only after that, and what uninstall removes does not.
EntriesWhole ==
    \A w \in Workers :
        /\ wpc[w] = "copy" => Lists(files[w], pkg[w], Image(pkg[w]) \ todo[w])
        /\ wpc[w] \in {"contents", "fill", "slot"} => Lists(files[w], pkg[w], Image(pkg[w]))
        /\ wpc[w] \in {"fill", "slot"} => pkg[w] \notin acked
        /\ wpc[w] = "slot" => vfiles[pkg[w]] = files[w]
        /\ wpc[w] \in {"remove", "drop"} /\ command = "uninstall" => old[w] \notin acked

\* What the collision check has passed stays passed until it is copied.
Checked ==
    \A w \in Workers :
        /\ wpc[w] \in {"check", "copy"} => todo[w] \subseteq Image(pkg[w])
        /\ wpc[w] = "check" /\ Alone(w) =>
              \A n \in Image(pkg[w]) \ todo[w] : ~Collides(pkg[w], n)
        /\ wpc[w] = "copy" /\ Alone(w) => \A n \in todo[w] : ~Collides(pkg[w], n)
=============================================================================
