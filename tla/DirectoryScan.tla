---------------------------- MODULE DirectoryScan ----------------------------
(***************************************************************************)
(* scan_directory and _scan_file of engine/scanners/directory.py over a    *)
(* tree that other programs change: the stack of directories, the listing  *)
(* of one directory, and for each supported file the two stat calls with   *)
(* the reading, and perhaps the second reading, between them.              *)
(*                                                                         *)
(* A path is a sequence of names; names are numbers so that they sort.     *)
(* What a file holds is reduced to how reading it goes.                    *)
(***************************************************************************)
EXTENDS Naturals, Sequences, FiniteSets, SequencesExt

CONSTANTS
    Paths,          \* the paths below the root, with all their parents
    Hidden,         \* those whose name starts with a dot
    Unsupported,    \* those whose suffix is not supported
    Kinds,          \* what may be found at a path
    Chunks,         \* reads it takes to get through a file
    MaxChanges      \* bound: changes of the tree and errors of the device

Root  == <<>>
Nodes == Paths \cup {Root}

\* Read at once; in cp1252 only; not at all; over an archive or cell limit;
\* over the limit of st_size; damaged so that the readers raise something that
\* _scan_file does not catch.
File     == {"utf8", "legacy", "broken", "limit", "huge", "damaged"}
AllKinds == File \cup {"absent", "dir", "symlink", "special"}

ASSUME PathsAssumption ==
    /\ IsFiniteSet(Paths)
    /\ \A p \in Paths : /\ p \in Seq(Nat) /\ p # Root
                       /\ \A n \in 0..Len(p) : SubSeq(p, 1, n) \in Nodes
    /\ Hidden \subseteq Paths /\ Unsupported \subseteq Paths
    /\ Kinds \subseteq AllKinds

ASSUME ScanBounds == Chunks \in Nat \ {0} /\ MaxChanges \in Nat

VARIABLES
    kind,           \* what is at each path now
    version,        \* size and modification time of each path
    directories,    \* the stack
    entries,        \* what is left of the listing, as it was read
    children,
    pc,
    before,         \* the first stat of the file being scanned
    encoding,
    handle,         \* the open file: its kind and version, and whether it is
                    \* still what the path names
    chunk,
    versions,       \* history: the versions this reading has seen
    results,
    changes,
    touched         \* history: paths that changed or failed during the scan

tree  == <<kind, version, changes, touched>>
walk  == <<directories, entries, children>>
scan  == <<before, encoding, handle, chunk, versions>>
vars  == <<tree, walk, scan, pc, results>>

NoHandle == [kind |-> "absent", version |-> 0, live |-> FALSE]

Below(p, d) == Len(d) <= Len(p) /\ SubSeq(p, 1, Len(d)) = d

Trees == {k \in [Nodes -> Kinds] :
            /\ k[Root] = "dir"
            /\ \A p \in Paths : k[p] # "absent" => k[Front(p)] = "dir"}

\* The members of S, which have different names, in the order of their names.
ByName(S) ==
    CHOOSE s \in [1..Cardinality(S) -> S] :
        /\ \A p \in S : \E i \in DOMAIN s : s[i] = p
        /\ \A i, k \in DOMAIN s : i < k => Last(s[i]) < Last(s[k])

------------------------------------------------------------------------------
Init ==
    /\ kind \in Trees
    /\ version = [p \in Nodes |-> 0]
    /\ directories = <<Root>> /\ entries = <<>> /\ children = <<>>
    /\ pc = "walk"
    /\ before = 0 /\ encoding = "utf-8-sig" /\ handle = NoHandle
    /\ chunk = 0 /\ versions = {}
    /\ results = <<>>
    /\ changes = 0 /\ touched = {}

Yield(p, warnings) ==
    results' = Append(results, [path |-> p, warnings |-> warnings,
                                scanned |-> FALSE, versions |-> {}])

\* The device fails at p.
IoError(p) ==
    /\ changes < MaxChanges
    /\ changes' = changes + 1
    /\ touched' = touched \cup {p}
    /\ UNCHANGED <<kind, version>>

------------------------------------------------------------------------------
(* scan_directory.                                                           *)

Entry(p) == [path |-> p, kind |-> kind[p]]

\* os.scandir: the names in order, with the type of each as it was listed.
Listing(d) ==
    LET names == ByName({p \in Paths : Front(p) = d /\ kind[p] # "absent"})
    IN  [i \in 1..Len(names) |-> Entry(names[i])]

ListDirectory ==
    LET d == Last(directories) IN
    /\ pc = "walk" /\ directories # <<>> /\ kind[d] = "dir"
    /\ directories' = Front(directories)
    /\ entries' = Listing(d)
    /\ children' = <<>>
    /\ pc' = "entry"
    /\ UNCHANGED <<tree, scan, results>>

MutListUnreadable ==
    LET d == Last(directories) IN
    /\ pc = "walk" /\ directories # <<>>
    /\ \/ kind[d] # "dir" /\ UNCHANGED tree
       \/ IoError(d)
    /\ Yield(d, {"directory_unreadable"})
    /\ UNCHANGED <<walk, scan, pc>>

\* It is no directory any more, or cannot be listed.
ListUnreadable ==
    LET d == Last(directories) IN
    /\ pc = "walk" /\ directories # <<>>
    /\ \/ kind[d] # "dir" /\ UNCHANGED tree
       \/ IoError(d)
    /\ Yield(d, {"directory_unreadable"})
    /\ directories' = Front(directories)
    /\ UNCHANGED <<entries, children, scan, pc>>

AtEntry == pc = "entry" /\ entries # <<>>
NextEntry == entries' = Tail(entries)

IsSkipped(e, warning) ==
    CASE e.kind = "symlink"                              -> warning = "symlink_skipped"
      [] e.kind # "symlink" /\ e.path \in Hidden         -> warning = "hidden_path_skipped"
      [] e.kind \in File /\ e.path \in Unsupported \ Hidden -> warning = "unsupported_file_skipped"
      [] OTHER                                           -> FALSE

Skip(warning) ==
    /\ AtEntry /\ IsSkipped(Head(entries), warning)
    /\ Yield(Head(entries).path, {warning})
    /\ NextEntry
    /\ UNCHANGED <<tree, directories, children, scan, pc>>

Visible(e) == e.kind # "symlink" /\ e.path \notin Hidden

MutKeepChild ==
    LET e == Head(entries) IN
    /\ AtEntry /\ Visible(e) /\ e.kind = "dir"
    /\ children' = <<e.path>>
    /\ NextEntry
    /\ UNCHANGED <<tree, directories, scan, pc, results>>

KeepChild ==
    LET e == Head(entries) IN
    /\ AtEntry /\ Visible(e) /\ e.kind = "dir"
    /\ children' = Append(children, e.path)
    /\ NextEntry
    /\ UNCHANGED <<tree, directories, scan, pc, results>>

\* Neither a directory nor a regular file: passed over in silence.
PassOver ==
    /\ AtEntry /\ Visible(Head(entries)) /\ Head(entries).kind = "special"
    /\ NextEntry
    /\ UNCHANGED <<tree, directories, children, scan, pc, results>>

\* is_symlink, is_dir or is_file has to ask the device, which fails.
EntryFails ==
    /\ AtEntry /\ IoError(Head(entries).path)
    /\ Yield(Head(entries).path, {"path_unreadable"})
    /\ NextEntry
    /\ UNCHANGED <<directories, children, scan, pc>>

BeginFile ==
    LET e == Head(entries) IN
    /\ AtEntry /\ Visible(e) /\ e.kind \in File /\ e.path \notin Unsupported
    /\ pc' = "stat"
    /\ encoding' = "utf-8-sig"
    /\ UNCHANGED <<tree, walk, before, handle, chunk, versions, results>>

MutDescend ==
    /\ pc = "entry" /\ entries = <<>>
    /\ directories' = directories \o children
    /\ children' = <<>>
    /\ pc' = "walk"
    /\ UNCHANGED <<tree, entries, scan, results>>

\* The children go on the stack so that the first by name is popped first.
Descend ==
    /\ pc = "entry" /\ entries = <<>>
    /\ directories' = directories \o Reverse(children)
    /\ children' = <<>>
    /\ pc' = "walk"
    /\ UNCHANGED <<tree, entries, scan, results>>

Finish ==
    /\ pc = "walk" /\ directories = <<>>
    /\ pc' = "done"
    /\ UNCHANGED <<tree, walk, scan, results>>

------------------------------------------------------------------------------
(* _scan_file of the entry at hand.                                          *)

file == Head(entries).path

EndFile ==
    /\ pc' = "entry"
    /\ NextEntry
    /\ handle' = NoHandle /\ chunk' = 0 /\ versions' = {} /\ before' = 0
    /\ UNCHANGED <<directories, children, encoding>>

Rejected(warning) ==
    /\ Yield(file, {warning})
    /\ EndFile
    /\ UNCHANGED tree

Stat ==
    /\ pc = "stat"
    /\ \/ kind[file] = "absent" /\ Rejected("file_unreadable")
       \/ kind[file] = "huge"   /\ Rejected("file_too_large")
       \/ /\ kind[file] \notin {"absent", "huge"}
          /\ before' = version[file]
          /\ pc' = "open"
          /\ UNCHANGED <<tree, walk, encoding, handle, chunk, versions, results>>

Open ==
    /\ pc = "open" /\ kind[file] \in File
    /\ handle' = [kind |-> kind[file], version |-> version[file], live |-> TRUE]
    /\ chunk' = 0 /\ versions' = {}
    /\ pc' = "read"
    /\ UNCHANGED <<tree, walk, before, encoding, results>>

\* It is gone, or a directory by now.
OpenFails ==
    /\ pc = "open" /\ kind[file] \notin File
    /\ Rejected("file_unreadable")

\* Some of the file; its end decides how the reading as a whole went.
Read ==
    /\ pc = "read" /\ chunk < Chunks
    /\ chunk' = chunk + 1
    /\ versions' = versions \cup {handle.version}
    /\ UNCHANGED <<tree, walk, before, encoding, handle, pc, results>>

AllRead == pc = "read" /\ chunk = Chunks

ReadWell ==
    /\ AllRead
    /\ \/ handle.kind \in {"utf8", "huge"}
       \/ handle.kind = "legacy" /\ encoding = "cp1252"
    /\ pc' = "compare"
    /\ UNCHANGED <<tree, walk, scan, results>>

\* UnicodeDecodeError: everything is read again.
FallBack ==
    /\ AllRead /\ encoding = "utf-8-sig" /\ handle.kind \in {"legacy", "broken"}
    /\ encoding' = "cp1252"
    /\ pc' = "open"
    /\ UNCHANGED <<tree, walk, before, handle, chunk, versions, results>>

\* BadZipFile, csv.Error, UnicodeError, an I/O error, or one of the limits.
ReadFails ==
    /\ pc = "read"
    /\ \/ AllRead /\ handle.kind = "broken" /\ Rejected("file_unreadable")
       \/ AllRead /\ handle.kind = "limit"  /\ Rejected("limit_exceeded")
       \/ IoError(file) /\ Yield(file, {"file_unreadable"}) /\ EndFile

MutReadRaises ==
    /\ AllRead /\ handle.kind \in {"limit", "damaged"}
    /\ pc' = "aborted"
    /\ UNCHANGED <<tree, walk, scan, results>>

\* KeyError (a workbook without its parts), ParseError, zlib.error, RuntimeError
\* (an encrypted archive): neither the handler of _scan_file nor that of
\* scan_directory catches it, and the walk stops where it is.
ReadRaises ==
    /\ AllRead /\ handle.kind = "damaged"
    /\ pc' = "aborted"
    /\ UNCHANGED <<tree, walk, scan, results>>

MutCompare ==
    /\ pc = "compare" /\ kind[file] # "absent"
    /\ LET fallback == IF encoding = "cp1252" THEN {"encoding_fallback_cp1252"} ELSE {}
           unstable == IF version[file] < before THEN {"unstable_file"} ELSE {}
       IN  results' = Append(results, [path |-> file, warnings |-> fallback \cup unstable,
                                       scanned |-> TRUE, versions |-> versions])
    /\ EndFile
    /\ UNCHANGED tree

\* The second stat.
Compare ==
    /\ pc = "compare" /\ kind[file] # "absent"
    /\ LET fallback == IF encoding = "cp1252" THEN {"encoding_fallback_cp1252"} ELSE {}
           unstable == IF version[file] # before THEN {"unstable_file"} ELSE {}
       IN  results' = Append(results, [path |-> file, warnings |-> fallback \cup unstable,
                                       scanned |-> TRUE, versions |-> versions])
    /\ EndFile
    /\ UNCHANGED tree

CompareGone ==
    /\ pc = "compare" /\ kind[file] = "absent"
    /\ Rejected("file_unreadable")

------------------------------------------------------------------------------
(* Other programs.  Every change shows in size or modification time.         *)

Change ==
    /\ pc \notin {"done", "aborted"} /\ changes < MaxChanges
    /\ changes' = changes + 1

\* In place: a reader of the open file sees it.
Rewrite(p, k) ==
    /\ Change /\ kind[p] \in File /\ k \in Kinds \cap File
    /\ kind' = [kind EXCEPT ![p] = k]
    /\ version' = [version EXCEPT ![p] = @ + 1]
    /\ touched' = touched \cup {p}
    /\ handle' = IF handle.live /\ p = file
                 THEN [handle EXCEPT !.kind = k, !.version = version[p] + 1] ELSE handle
    /\ UNCHANGED <<walk, before, encoding, chunk, versions, pc, results>>

\* Created, removed or renamed over: a reader keeps the file it opened, and what
\* was below a directory is gone with it.
Replace(p, k) ==
    /\ Change /\ k \in Kinds \cap (File \cup {"absent", "dir"})
    /\ kind[p] # k \/ k # "absent"
    /\ p # Root => kind[Front(p)] = "dir"
    /\ kind' = [q \in Nodes |-> IF q = p THEN k
                                ELSE IF Below(q, p) THEN "absent" ELSE kind[q]]
    /\ version' = [q \in Nodes |-> IF Below(q, p) THEN version[q] + 1 ELSE version[q]]
    /\ touched' = touched \cup {q \in Nodes : Below(q, p)}
    /\ handle' = IF handle.live /\ Below(file, p) THEN [handle EXCEPT !.live = FALSE]
                 ELSE handle
    /\ UNCHANGED <<walk, before, encoding, chunk, versions, pc, results>>

------------------------------------------------------------------------------
Warnings == {"symlink_skipped", "hidden_path_skipped", "unsupported_file_skipped"}

Scan ==
    \/ ListDirectory \/ ListUnreadable \/ Descend \/ Finish
    \/ \E w \in Warnings : Skip(w)
    \/ KeepChild \/ PassOver \/ EntryFails
    \/ BeginFile \/ Stat \/ Open \/ OpenFails
    \/ Read \/ ReadWell \/ FallBack \/ ReadFails \/ ReadRaises
    \/ Compare \/ CompareGone

Next == Scan \/ \E p \in Nodes, k \in Kinds : Rewrite(p, k) \/ Replace(p, k)

Spec     == Init /\ [][Next]_vars
FairSpec == Spec /\ WF_vars(Scan)

------------------------------------------------------------------------------
\* No path is reported twice, however the tree changes: the unique index on the
\* inventory of a job never refuses a file.
EachPathOnce ==
    \A i, k \in 1..Len(results) : i # k => results[i].path # results[k].path

\* Docs/build-plan.md:150: a file that is not marked unstable was read from one
\* version only, from its first character to its last.
StableMeansOneVersion ==
    \A i \in 1..Len(results) :
        results[i].scanned /\ "unstable_file" \notin results[i].warnings
            => Cardinality(results[i].versions) = 1

\* What must be reported of a path that nothing disturbs.  No walk gets past a
\* damaged file, which is reported by the failure of the job alone.
Reading == [utf8    |-> {},
            legacy  |-> {"encoding_fallback_cp1252"},
            broken  |-> {"file_unreadable"},
            limit   |-> {"limit_exceeded"},
            huge    |-> {"file_too_large"},
            damaged |-> {"scan_failed"}]

Expected(p) ==
    CASE kind[p] = "symlink"                                  -> {{"symlink_skipped"}}
      [] kind[p] \notin {"absent", "symlink"} /\ p \in Hidden -> {{"hidden_path_skipped"}}
      [] kind[p] \in File /\ p \in Unsupported \ Hidden       -> {{"unsupported_file_skipped"}}
      [] kind[p] \in File /\ p \notin Unsupported \cup Hidden -> {Reading[kind[p]]}
      [] OTHER                                                -> {}

Reached(p)     == \A d \in Paths : d # p /\ Below(p, d) => kind[d] = "dir" /\ d \notin Hidden
Undisturbed(p) == \A d \in Nodes : Below(p, d) => d \notin touched

\* When the walk is over, every path that stayed as it was, in directories that
\* stayed, has been reported for what it is, whatever changed around it.
NothingOverlooked ==
    pc = "done" =>
        \A p \in Paths : Reached(p) /\ Undisturbed(p) =>
            {results[i].warnings : i \in {i \in 1..Len(results) : results[i].path = p}}
                = Expected(p)

\* What an undisturbed walk reports, in order: the entries of a directory by
\* name, then its subdirectories by name.
Walk[d \in Nodes] ==
    LET names  == ByName({p \in Paths : Front(p) = d})
        own(p) == SetToSeq({<<p, w>> : w \in Expected(p)})
        sub(p) == IF kind[p] = "dir" /\ p \notin Hidden THEN Walk[p] ELSE <<>>
    IN  FlattenSeq([i \in 1..Len(names) |-> own(names[i])])
        \o FlattenSeq([i \in 1..Len(names) |-> sub(names[i])])

\* Docs/build-plan.md:146: the traversal is deterministic: it reports what the
\* recursive walk in the order of names reports.
WalksByName ==
    pc = "done" /\ changes = 0 =>
        [i \in 1..Len(results) |-> <<results[i].path, results[i].warnings>>] = Walk[Root]

\* Of two results, at the first name in which their paths differ: an entry of the
\* directory comes before what is in a subdirectory, and otherwise the lesser name
\* comes first.  A directory that could not be listed is met where what is in it
\* would have been.
Inside(r, l) == Len(r.path) > l \/ r.warnings = {"directory_unreadable"}

Precedes(r, s) ==
    \E l \in 1..Len(r.path) :
        /\ l <= Len(s.path)
        /\ \A i \in 1..l - 1 : r.path[i] = s.path[i]
        /\ r.path[l] # s.path[l]
        /\ \/ ~Inside(r, l) /\ Inside(s, l)
           \/ (Inside(r, l) <=> Inside(s, l)) /\ r.path[l] < s.path[l]

\* That order is kept while the tree changes and devices fail.
InOrder == \A i, k \in 1..Len(results) : i < k => Precedes(results[i], results[k])

\* Docs/build-plan.md:146 asks a walk to continue past what it cannot read.  Every
\* walk ends, since each directory is listed once, whatever appears meanwhile; and
\* it ends at the end, unless the file at hand is damaged: a file that is gone, of
\* another type by now, unreadable or over a limit never stops it, nor does a
\* directory that cannot be listed.
OnlyDamageStopsTheWalk ==
    <>(pc = "done" \/ (pc = "aborted" /\ handle.kind = "damaged"))
==============================================================================
