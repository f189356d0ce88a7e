------------------------------- MODULE GitTree -------------------------------
(***************************************************************************)
(* The tree of a proposal's commit (internal/gitsync treeWithFile,         *)
(* rebuildTree, newPath, storeTree, sortEntries): the trees along the path *)
(* are opened from the root down, then copied from the deepest up with one *)
(* entry replaced or added, each written in the order git wants.           *)
(*                                                                         *)
(* The hash of a tree is its place among the trees stored; blobs are blobs.*)
(***************************************************************************)
EXTENDS Naturals, Sequences, FiniteSets, Collections

CONSTANTS
    Names,      \* names of tree entries
    KeyRank,    \* KeyRank[<<n, d>>], the place of n, or of n + "/", in byte order
    Blobs,      \* contents of files
    New,        \* the proposed content
    Bases,      \* repositories: the trees stored, the files of each, the root
    DocPaths    \* paths of proposals, as sequences of names

Modes       == {"file", "link", "dir"}
Entries     == [name : Names, mode : Modes, hash : Blobs \union Nat]
FileEntries == [path : Seq(Names) \ {<<>>}, mode : Modes \ {"dir"}, blob : Blobs]

Entry(name, mode, hash) == [name |-> name, mode |-> mode, hash |-> hash]
Key(e) == KeyRank[<<e.name, e.mode = "dir">>]

(* The files of a tree, as git checks them out, given those of the others. *)
Beneath(name, f)  == [path |-> <<name>> \o f.path, mode |-> f.mode, blob |-> f.blob]
FilesOfEntry(e, files) ==
    IF e.mode # "dir" THEN {[path |-> <<e.name>>, mode |-> e.mode, blob |-> e.hash]}
    ELSE IF e.hash \in DOMAIN files THEN {Beneath(e.name, f) : f \in files[e.hash]}
    ELSE {}
FilesOf(entries, files) == UNION {FilesOfEntry(entries[i], files) : i \in DOMAIN entries}

(* What git accepts as the t-th tree: sorted, each name once, directories  *)
(* that are there and not empty.                                           *)
WellFormed(t, trees, files) ==
    LET es == trees[t]
    IN  /\ \A i, j \in DOMAIN es : i < j => Key(es[i]) < Key(es[j]) /\ es[i].name # es[j].name
        /\ \A i \in DOMAIN es :
              IF es[i].mode = "dir" THEN es[i].hash \in 1 .. t - 1 /\ files[es[i].hash] # {}
              ELSE es[i].hash \in Blobs

ASSUME GitTreeAssumption ==
    /\ KeyRank \in [Names \X BOOLEAN -> Nat]
    /\ \A x, y \in Names \X BOOLEAN : KeyRank[x] = KeyRank[y] => x = y
    /\ Blobs \intersect Nat = {} /\ New \in Blobs
    /\ \A p \in DocPaths : p # <<>> /\ p \in Seq(Names)
    /\ \A b \in Bases :
          /\ b.trees \in Seq(Seq(Entries)) /\ b.files \in Seq(SUBSET FileEntries)
          /\ Len(b.files) = Len(b.trees) /\ b.root \in DOMAIN b.trees
          /\ \A t \in DOMAIN b.trees : /\ WellFormed(t, b.trees, b.files)
                                       /\ b.files[t] = FilesOf(b.trees[t], b.files)

VARIABLES
    treePc,     \* "idle", "open", "write", "done" or "failed"
    trees,      \* the trees stored
    files,      \* the files of each; what a checkout of it writes
    root,       \* the tree of the base commit
    path,       \* doc_path
    trail,      \* the trees opened along it that are not copied yet
    at,         \* the place in the path of the name the entry is for
    entry       \* the mode and hash for it

treeVars == <<treePc, trees, files, root, path, trail, at, entry>>

TreeInit ==
    /\ treePc = "idle" /\ trees = <<>> /\ files = <<>> /\ root = 0 /\ path = <<>>
    /\ trail = <<>> /\ at = 0 /\ entry = [mode |-> "file", hash |-> New]

TreeWithFile(b, parts) ==
    /\ treePc = "idle"
    /\ treePc' = "open"
    /\ trees' = b.trees /\ files' = b.files /\ root' = b.root
    /\ path' = parts /\ trail' = <<b.root>>
    /\ UNCHANGED <<at, entry>>

-----------------------------------------------------------------------------
(* The entries of the name that the path has next.                         *)
Copied   == trees[trail[Len(trail)]]
Replaced == {i \in DOMAIN Copied : Copied[i].name = path[Len(trail)]}

(* TreeObject fails where the path goes through a file.                    *)
OpenTree ==
    /\ treePc = "open" /\ Len(trail) < Len(path)
    /\ \E i \in Replaced :
          IF Copied[i].hash \in DOMAIN trees
            THEN trail' = Append(trail, Copied[i].hash) /\ UNCHANGED treePc
            ELSE treePc' = "failed" /\ UNCHANGED trail
    /\ UNCHANGED <<trees, files, root, path, at, entry>>

(* The last name, or one that is not there yet.                            *)
Bottom ==
    /\ treePc = "open" /\ (Len(trail) = Len(path) \/ Replaced = {})
    /\ treePc' = "write"
    /\ at' = Len(path) /\ entry' = [mode |-> "file", hash |-> New]
    /\ UNCHANGED <<trees, files, root, path, trail>>

-----------------------------------------------------------------------------
(* sortEntries: by name, a directory's followed by "/".                    *)
Sort(es, Rank(_)) ==
    LET S == {es[i] : i \in DOMAIN es}
    IN  SortBy(S, {de \in S \X S : Rank(de[1]) < Rank(de[2])})
SortByName(es)  == Sort(es, LAMBDA e : KeyRank[<<e.name, FALSE>>])
SortEntries(es) == Sort(es, Key)

StoreTree(es) ==
    /\ trees' = Append(trees, SortEntries(es))
    /\ files' = Append(files, FilesOf(SortEntries(es), files))
    /\ entry' = [mode |-> "dir", hash |-> Len(trees) + 1]
    /\ at' = at - 1

(* A directory that does not exist yet has one entry.                      *)
NewPath ==
    /\ treePc = "write" /\ at > Len(trail)
    /\ StoreTree(<<Entry(path[at], entry.mode, entry.hash)>>)
    /\ UNCHANGED <<treePc, root, path, trail>>

(* An entry keeps its mode, and every entry of the name is replaced.       *)
CopiedEntries ==
    IF Replaced = {} THEN Append(Copied, Entry(path[at], entry.mode, entry.hash))
    ELSE [i \in DOMAIN Copied |-> IF i \in Replaced
                                    THEN Entry(Copied[i].name, Copied[i].mode, entry.hash)
                                    ELSE Copied[i]]

RebuildTree ==
    /\ treePc = "write" /\ at = Len(trail)
    /\ StoreTree(CopiedEntries)
    /\ trail' = SubSeq(trail, 1, at - 1)
    /\ treePc' = IF at = 1 THEN "done" ELSE "write"
    /\ UNCHANGED <<root, path>>

TreeNext ==
    \/ \E b \in Bases, parts \in DocPaths : TreeWithFile(b, parts)
    \/ OpenTree \/ Bottom \/ NewPath \/ RebuildTree

TreeSpec == TreeInit /\ [][TreeNext]_treeVars

-----------------------------------------------------------------------------
(* path[1 .. n] is a directory, or a file, of the base.                    *)
DirectoryAt(n) == \E f \in files[root] : Len(f.path) > n /\ SubSeq(f.path, 1, n) = SubSeq(path, 1, n)
FileAt(n)      == \E f \in files[root] : f.path = SubSeq(path, 1, n)
ModesAtPath    == {f.mode : f \in {f \in files[root] : f.path = path}}

(* A proposal's tree is a tree git accepts that differs from its base in   *)
(* the one file only, which keeps its mode (gitsync.go:351-352); it cannot *)
(* be built where the path goes through a file.  The exception: where the  *)
(* path is a directory of the base, the blob takes the directory's mode,   *)
(* and git does not accept the tree (gitsync.go:387-389).                  *)
OneFileChanges ==
    /\ treePc \in {"done", "failed"} =>
          (treePc = "failed" <=> \E n \in 1 .. Len(path) - 1 : FileAt(n))
    /\ treePc = "done" /\ ~DirectoryAt(Len(path)) =>
          /\ \A t \in DOMAIN trees : WellFormed(t, trees, files)
          /\ \E mode \in IF ModesAtPath = {} THEN {"file"} ELSE ModesAtPath :
                files[entry.hash] = {f \in files[root] : f.path # path}
                                       \union {[path |-> path, mode |-> mode, blob |-> New]}
    /\ treePc = "done" /\ DirectoryAt(Len(path)) =>
          \E t \in DOMAIN trees : ~WellFormed(t, trees, files)
=============================================================================
