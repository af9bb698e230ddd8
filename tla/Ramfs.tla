------------------------------- MODULE Ramfs --------------------------------
(***************************************************************************)
(* The RAM file system of ramfs.c.  A directory is a list of entries       *)
(* linked by nextDir, "." and ".." first; the extent of an entry is the    *)
(* first entry of the directory it names, or the file's block, held here   *)
(* in data.  Entries are numbered in the order kmalloc gave them; None is  *)
(* the pointer -1.  A path is the sequence of names between its slashes    *)
(* ("/" is the empty one): a slash at the end changes nothing.             *)
(*                                                                         *)
(* initramfs makes four calls of mkDir and mkFile and one of writeFS; the  *)
(* module allows any calls, with a directory as parent as there.  No       *)
(* interrupt handler comes here, so a call is one step.                    *)
(***************************************************************************)
EXTENDS Naturals, Sequences, FiniteSets

CONSTANTS
    DirNames, FileNames,    \* names given to directories and files
    Values,             \* contents of a file
    MaxDepth,           \* bound: names in a path
    MaxEntries,         \* bound: directory entries
    MaxWritten          \* bound: files written to (initramfs writes one)

Names == DirNames \union FileNames

ASSUME RamfsAssumption ==
    /\ "." \notin Names /\ ".." \notin Names
    /\ Values # {}
    /\ MaxDepth \in Nat /\ MaxEntries \in Nat /\ MaxWritten \in Nat

VARIABLES
    entries,            \* the directory entries
    failed              \* the function that used a bad pointer and faulted, or "none"

ramfsVars == <<entries, failed>>

None == 0
rootDir == 1
Zero == "zero"          \* the block as allocPage cleared it
Paths == UNION {[1 .. n -> Names] : n \in 0 .. MaxDepth}

Entry(next, extent, name, file) ==
    [nextDir |-> next, extent |-> extent, name |-> name, file |-> file, data |-> Zero]

(* initramfs, before its calls. *)
RamfsInit ==
    /\ entries = <<Entry(2, rootDir, ".", FALSE), Entry(None, rootDir, "..", FALSE)>>
    /\ failed = "none"

-----------------------------------------------------------------------------
(* The first entry of that name at or after e, and the last entry of e's   *)
(* list.                                                                   *)
Named(e, name) ==
    LET from[d \in 0 .. Len(entries)] ==
          IF d = None \/ entries[d].name = name THEN d ELSE from[entries[d].nextDir]
    IN  from[e]
LastOf(e) ==
    LET last[d \in 1 .. Len(entries)] ==
          IF entries[d].nextDir = None THEN d ELSE last[entries[d].nextDir]
    IN  last[e]

(* findDir: a file's entry, as soon as one is met, or the first entry of   *)
(* the directory; None when a name is missing.                             *)
findDir(path) ==
    LET walk[k \in 0 .. Len(path)] ==
          IF k = 0 THEN [at |-> rootDir, done |-> FALSE]
          ELSE LET w == walk[k - 1]
                   e == Named(w.at, path[k])
               IN  IF w.done THEN w
                   ELSE IF e = None \/ entries[e].file THEN [at |-> e, done |-> TRUE]
                   ELSE [at |-> entries[e].extent, done |-> FALSE]
    IN  walk[Len(path)].at

IsFile(e) == e # None /\ entries[e].file

(* Link a new entry at the end of a list. *)
Mut_LinkedFirst(list, new) == [entries EXCEPT ![list].nextDir = new]
Linked(list, new) == [entries EXCEPT ![LastOf(list)].nextDir = new]

(* mkDir makes the new directory's first two entries, then its name in the *)
(* parent.  Using the entry at -1 as a parent is a page fault.             *)
Mut_mkDir(path, name) ==
    LET parent == findDir(path)
        n == Len(entries)
    IN  /\ failed = "none" /\ n + 3 <= MaxEntries /\ ~IsFile(parent)
        /\ IF parent = None
             THEN failed' = "mkDir" /\ UNCHANGED entries
             ELSE /\ entries' = Linked(parent, n + 3)
                       \o <<Entry(n + 2, n + 1, ".", FALSE), Entry(None, rootDir, "..", FALSE),
                            Entry(None, n + 1, name, FALSE)>>
                  /\ UNCHANGED failed
mkDir(path, name) ==
    LET parent == findDir(path)
        n == Len(entries)
    IN  /\ failed = "none" /\ n + 3 <= MaxEntries /\ ~IsFile(parent)
        /\ IF parent = None
             THEN failed' = "mkDir" /\ UNCHANGED entries
             ELSE /\ entries' = Linked(parent, n + 3)
                       \o <<Entry(n + 2, n + 1, ".", FALSE), Entry(None, parent, "..", FALSE),
                            Entry(None, n + 1, name, FALSE)>>
                  /\ UNCHANGED failed

mkFile(path, name) ==
    LET dir == findDir(path)
        n == Len(entries)
    IN  /\ failed = "none" /\ n + 1 <= MaxEntries /\ ~IsFile(dir)
        /\ IF dir = None
             THEN failed' = "mkFile" /\ UNCHANGED entries
             ELSE /\ entries' = Linked(dir, n + 1) \o <<Entry(None, None, name, TRUE)>>
                  /\ UNCHANGED failed

(* writeFS (openFS (path), ...), as initramfs calls it for a file. *)
writeFS(path, value) ==
    /\ failed = "none" /\ IsFile(findDir(path))
    /\ Cardinality({e \in DOMAIN entries : entries[e].data # Zero} \union {findDir(path)}) <= MaxWritten
    /\ entries' = [entries EXCEPT ![findDir(path)].data = value]
    /\ UNCHANGED failed

RamfsNext ==
    \E path \in Paths :
        \/ \E name \in DirNames : mkDir(path, name)
        \/ \E name \in FileNames : mkFile(path, name)
        \/ \E value \in Values : writeFS(path, value)

-----------------------------------------------------------------------------
(* The path of a directory followed by ".." leads back to the directory it *)
(* is in, at every depth, and the root is its own parent.                  *)
DotDotIsParent ==
    \A path \in Paths :
        /\ path = <<>> => findDir(<<"..">>) = rootDir
        /\ path # <<>> /\ path[Len(path)] \in Names
           /\ findDir(path) # None /\ ~IsFile(findDir(path)) =>
             findDir(path \o <<"..">>) = findDir(SubSeq(path, 1, Len(path) - 1))

(* A path that leads to a file or directory leads to the same one for      *)
(* ever: what is created later, also under a name already in use, never    *)
(* takes its place.                                                        *)
PathsKeepTheirMeaning ==
    [][\A path \in Paths : findDir(path) # None => findDir(path)' = findDir(path)]_ramfsVars

=============================================================================
