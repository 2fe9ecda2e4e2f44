------------------------------ MODULE FileOps ------------------------------
(***************************************************************************)
(* The storage module's directory operations over a small tree: a page of  *)
(* a listing, and a delete that removes a tree entry by entry and may fail *)
(* part-way.  A command runs to its end under the registry's lock, so the  *)
(* steps of a delete are interleaved with nothing, but each of them may    *)
(* fail; a client's pages are separate commands, and anything may happen   *)
(* between two.                                                            *)
(***************************************************************************)
EXTENDS Naturals, Sequences, FiniteSets

CONSTANTS Names,      \* entry names, ordered as readdir() returns them
          Size(_),    \* bytes an entry of that name takes in a response
          TooLong,    \* names longer than PathSafe accepts
          Trees,      \* the trees a card may hold: path |-> "file" or "dir"
          Top,        \* the directory listed and deleted
          MaxDepth,   \* DELETE_MAX_DEPTH
          MaxEntries, \* DELETE_MAX_ENTRIES
          Budget,     \* LIST_BYTE_BUDGET
          Limits      \* the limits a client asks for, LIST_MAX_LIMIT the largest

NameSet == {Names[i] : i \in DOMAIN Names}
CutBack(p) == SubSeq(p, 1, Len(p) - 1)

\* A tree: what is in a directory has that directory above it.
IsTree(t) ==
  /\ t = [p \in DOMAIN t |-> t[p]] /\ IsFiniteSet(DOMAIN t)
  /\ \A p \in DOMAIN t :
       /\ p \in Seq(NameSet) /\ p # <<>> /\ t[p] \in {"file", "dir"}
       /\ Len(p) > 1 => CutBack(p) \in DOMAIN t /\ t[CutBack(p)] = "dir"

\* One entry always fits a page, and a page is asked for at least one.
ASSUME FilesAssumption ==
  /\ Names \in Seq(NameSet) /\ Len(Names) >= 2
  /\ \A i, j \in DOMAIN Names : Names[i] = Names[j] => i = j
  /\ Budget \in Nat /\ \A i \in DOMAIN Names : Size(Names[i]) \in 0 .. Budget
  /\ Limits # {} /\ \A limit \in Limits : limit \in Nat \ {0}
  /\ Top \in Seq(NameSet) /\ Top # <<>>
  /\ \A t \in Trees : IsTree(t)

VARIABLES tree,           \* what is on the card
          before,         \* history: the tree when the delete began
          full,           \* the path buffer of removeTree(); <<>> when no delete runs
          files, dirs,    \* DelState
          outcome,        \* how the last delete ended
          offset, pages,  \* a client's next offset, and the names it has been shown
          listing,        \* "no", "yes" or "done"
          undisturbed     \* history: the tree has not changed since the first page

deleting == <<full, files, dirs, outcome>>
client == <<offset, pages, listing>>
filesVars == <<tree, before, deleting, client, undisturbed>>

Children(t, p) == {n \in DOMAIN Names : Append(p, Names[n]) \in DOMAIN t}
\* The i-th entry readdir() returns.
Nth(t, p, i) == CHOOSE n \in Children(t, p) : Cardinality({m \in Children(t, p) : m < n}) = i - 1
Without(t, p) == [q \in DOMAIN t \ {p} |-> t[q]]

FilesInit ==
  /\ tree \in Trees /\ before = tree
  /\ full = <<>> /\ files = 0 /\ dirs = 0 /\ outcome = "none"
  /\ offset = 0 /\ pages = <<>> /\ listing = "no" /\ undisturbed = TRUE

Idle == full = <<>>

\* actDelete() of a directory, recursive: the walk starts at depth 1.
DeleteTree ==
  /\ Idle /\ Top \in DOMAIN tree /\ tree[Top] = "dir"
  /\ full' = Top /\ files' = 0 /\ dirs' = 0 /\ outcome' = "running" /\ before' = tree
  /\ UNCHANGED <<tree, client, undisturbed>>

\* actDelete() of a file, or of a directory without recursive: unlink() or
\* rmdir(), which wants it empty.
DeleteOne(p) ==
  /\ Idle /\ p \in DOMAIN tree
  /\ IF tree[p] = "dir" /\ Children(tree, p) # {}
     THEN outcome' = "ENOTEMPTY" /\ UNCHANGED <<tree, files, dirs>>
     ELSE /\ tree' = Without(tree, p) /\ outcome' = "ok"
          /\ files' = (IF tree[p] = "file" THEN 1 ELSE 0) /\ dirs' = 1 - files'
  /\ before' = tree /\ undisturbed' = (tree' = tree /\ undisturbed) /\ UNCHANGED <<full, client>>

\* actMkdir(): the parent must be there and the name free.
Mkdir(p) ==
  /\ Idle /\ p \notin DOMAIN tree /\ outcome # "running"
  /\ Len(p) = 1 \/ (SubSeq(p, 1, Len(p) - 1) \in DOMAIN tree /\ tree[SubSeq(p, 1, Len(p) - 1)] = "dir")
  /\ tree' = [q \in DOMAIN tree \cup {p} |-> IF q = p THEN "dir" ELSE tree[q]]
  /\ undisturbed' = FALSE /\ outcome' = "none"
  /\ UNCHANGED <<before, full, files, dirs, client>>

Stop(why) == full' = <<>> /\ outcome' = why /\ UNCHANGED <<files, dirs>>

Depth == Len(full) - Len(Top) + 1
First == Names[Nth(tree, full, 1)]

\* One turn of removeTree(): the depth on entry, the entry count, the first
\* entry, and what is done to it.  A directory is entered, and left again by
\* its own rmdir(); the path buffer is cut back to it on the way out.
TurnRefused ==
  /\ ~Idle
  /\ \/ Depth > MaxDepth /\ Stop("EDEPTH")
     \/ Depth <= MaxDepth /\ files + dirs >= MaxEntries /\ Stop("ELIMIT")
     \/ Depth <= MaxDepth /\ files + dirs < MaxEntries /\ Stop("EIO")  \* opendir() failed
     \/ /\ Depth <= MaxDepth /\ files + dirs < MaxEntries
        /\ Children(tree, full) # {} /\ First \in TooLong /\ Stop("EPATHLEN")
  /\ UNCHANGED <<tree, before, client, undisturbed>>

Turns == ~Idle /\ Depth <= MaxDepth /\ files + dirs < MaxEntries

Unlink(ok) ==
  /\ Turns /\ Children(tree, full) # {} /\ First \notin TooLong
  /\ tree[Append(full, First)] = "file"
  /\ IF ok THEN /\ tree' = Without(tree, Append(full, First)) /\ files' = files + 1
                /\ UNCHANGED <<full, dirs, outcome>>
     ELSE Stop("EIO") /\ UNCHANGED tree
  /\ undisturbed' = (undisturbed /\ ~ok) /\ UNCHANGED <<before, client>>

Descend ==
  /\ Turns /\ Children(tree, full) # {} /\ First \notin TooLong
  /\ tree[Append(full, First)] = "dir"
  /\ full' = Append(full, First)
  /\ UNCHANGED <<tree, before, files, dirs, outcome, client, undisturbed>>

\* A walk that does not count the directories it removes.
RmdirUncounted(ok) ==
  /\ Turns /\ Children(tree, full) = {} /\ ok
  /\ tree' = Without(tree, full) /\ UNCHANGED <<files, dirs>>
  /\ full' = IF full = Top THEN <<>> ELSE CutBack(full)
  /\ outcome' = IF full = Top THEN "complete" ELSE outcome
  /\ undisturbed' = FALSE /\ UNCHANGED <<before, client>>

Rmdir(ok) ==
  /\ Turns /\ Children(tree, full) = {}
  /\ IF ok THEN /\ tree' = Without(tree, full) /\ dirs' = dirs + 1
                /\ full' = IF full = Top THEN <<>> ELSE CutBack(full)
                /\ outcome' = IF full = Top THEN "complete" ELSE outcome
                /\ UNCHANGED files
     ELSE Stop("EIO") /\ UNCHANGED tree
  /\ undisturbed' = (undisturbed /\ ~ok) /\ UNCHANGED <<before, client>>

\* A turn of actList()'s loop over the entries: what it has listed and the bytes
\* they take, as long as the limit, the entries and the byte budget allow.
Listed(t, off, limit) ==
  LET page[k \in 0 .. limit] ==
        IF k = 0 THEN [count |-> 0, bytes |-> 0]
        ELSE LET p == page[k - 1]
                 more == off + p.count < Cardinality(Children(t, Top))
                 size == Size(Names[Nth(t, Top, off + p.count + 1)])
             IN IF p.count = k - 1 /\ more /\ p.bytes + size <= Budget
                THEN [count |-> k, bytes |-> p.bytes + size]
                ELSE p
  IN page[limit]

\* next_offset, and truncated when an entry was left.
PageCount(limit) == Listed(tree, offset, limit).count
\* A next offset that counts the entry the budget refused.
NextOffsetSkips(limit) ==
  LET n == PageCount(limit) IN
  offset + IF n < limit /\ offset + n < Cardinality(Children(tree, Top)) THEN n + 1 ELSE n

NextOffset(limit) == offset + PageCount(limit)
Truncated(limit) == offset + PageCount(limit) < Cardinality(Children(tree, Top))

\* actList(): one page, from the offset the client was given.
List(limit) ==
  /\ Idle /\ listing # "done" /\ Top \in DOMAIN tree /\ tree[Top] = "dir"
  /\ undisturbed' = (listing = "no" \/ undisturbed)
  /\ pages' = pages \o [i \in 1..PageCount(limit) |-> Names[Nth(tree, Top, offset + i)]]
  /\ offset' = NextOffset(limit)
  /\ listing' = IF Truncated(limit) THEN "yes" ELSE "done"
  /\ UNCHANGED <<tree, before, deleting>>

\* The client starts over.
Relist ==
  /\ listing = "done" /\ Idle
  /\ listing' = "no" /\ offset' = 0 /\ pages' = <<>>
  /\ UNCHANGED <<tree, before, deleting, undisturbed>>

FilesNext ==
  \/ DeleteTree \/ TurnRefused \/ Descend \/ Relist
  \/ \E p \in {Top, <<Names[2]>>, Append(Top, Names[1])} : DeleteOne(p)
  \/ \E p \in {Top, Append(Top, Names[1])} : Mkdir(p)
  \/ \E ok \in BOOLEAN : Unlink(ok) \/ Rmdir(ok)
  \/ \E limit \in Limits : List(limit)

FilesSpec == FilesInit /\ [][FilesNext]_filesVars
-----------------------------------------------------------------------------
Under(p) == Len(p) >= Len(Top) /\ SubSeq(p, 1, Len(Top)) = Top

\* However a recursive delete ends, and wherever it is, it has removed what
\* it says it has and nothing else: only entries under the directory named,
\* as many as it counts, never a directory from above an entry that is left,
\* and it says ok only when all of it is gone (mod_storage.cpp:1365-1545).
DeleteTruthful ==
  LET gone == DOMAIN before \ DOMAIN tree IN
  /\ outcome = "complete" => \A p \in DOMAIN tree : ~Under(p)
  /\ outcome \in {"running", "complete", "EDEPTH", "ELIMIT", "EIO", "EPATHLEN"} =>
       /\ \A p \in gone : Under(p)
       /\ files = Cardinality({p \in gone : before[p] = "file"})
       /\ dirs = Cardinality({p \in gone : before[p] = "dir"})
  /\ \A p \in DOMAIN tree : Len(p) > 1 => CutBack(p) \in DOMAIN tree

\* A client that follows next_offset until a page is not truncated has been
\* shown every entry exactly once, whatever limits it asked for and wherever
\* the byte budget cut a page, if nothing changed the directory meanwhile; it
\* is never asked to come back for nothing (mod_storage.cpp:970-1079).
PagesCover ==
  /\ listing = "yes" /\ undisturbed => \E limit \in Limits : PageCount(limit) > 0
  /\ listing = "done" /\ undisturbed =>
       /\ Len(pages) = Cardinality(Children(tree, Top))
       /\ \A i, j \in DOMAIN pages : i # j => pages[i] # pages[j]

=============================================================================
