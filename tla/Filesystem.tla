------------------------------ MODULE Filesystem ------------------------------
(***************************************************************************)
(* The agents' files: src/app/services/filesystem/ and the four tools      *)
(* read_file, search_file, write_file and manage_file.                     *)
(*                                                                         *)
(* An operation runs without a suspension, so each one is a step; but what *)
(* an agent has read is old when it writes, because agents of several      *)
(* sessions of a user share the user's mounts.  The tree is a function     *)
(* from the paths that exist to Dir or to the text of a file.  No tool     *)
(* makes a symbolic link, so resolve() leaves a path as it is.             *)
(*                                                                         *)
(* A name that a pattern of FS_EXCLUDE matches is in ExcludedNames, a path *)
(* in ExcludedTrees is matched by a pattern "path/**".                     *)
(***************************************************************************)
EXTENDS TextEdits, SequencesExt, FiniteSetsExt, Functions


CONSTANTS Names, Tokens,  \* what paths and texts are made of
          Agents,
          UserOf,         \* the user of an agent's session, or None
          WorkspaceOf,    \* the workspace_path of its session, or None
          Mounts,         \* the mounts of FS_MOUNTS
          Workspace,      \* the name of the mount that is the session's
          Up,             \* ".."
          Order,          \* every name, in the order of a listing
          Ignored, ExcludedNames, ExcludedTrees,
          Dir,
          MaxFileSize,
          Paths, Targets, \* the requested paths that each agent tries
          Inputs, Ranges, \* contents and line selectors
          Queries,        \* the names that are searched for
          Edits,          \* the edits that are tried
          StartTree,      \* the tree at the start
          StartView,      \* what each agent has read of it before
          MaxTokens,      \* bound: the tokens of a text
          MaxLength,      \* bound: the names of a path
          MaxSteps,       \* bound: the operations that are not denied
          DiskFails       \* whether the disk may fail in the middle of one

ASSUME FilesystemAssumption ==
  /\ Workspace \notin Mounts
  /\ \A q \in ExcludedTrees : q # <<>>
  /\ Dir # None /\ MaxFileSize \in Nat /\ MaxTokens \in Nat /\ MaxLength \in Nat
  /\ MaxSteps \in Nat /\ DiskFails \in BOOLEAN
  /\ {LF, CRLF, Sep} \subseteq Tokens /\ LF # CRLF /\ Sep \notin {LF, CRLF}
  /\ Dir \notin Seq(Tokens) /\ None \notin Seq(Tokens)
  /\ None # Junk /\ None \notin Nat \X Nat /\ Junk \notin Nat \X Nat

(* Requests name paths by names, never by bytes; what is asked for is      *)
(* nowhere below fs_root itself, but in a mount; the disk is a tree.       *)
ASSUME RequestsAssumption ==
  /\ Mounts \union {Workspace} \subseteq Names
  /\ Order \in Seq(Names) /\ Names \subseteq ToSet(Order) /\ IsInjective(Order)
  /\ \A a \in Agents :
       /\ UserOf[a] \in Names \union {None}
       /\ WorkspaceOf[a] \in Seq(Names) \union {None} /\ WorkspaceOf[a] # <<>>
       /\ Paths[a] \union Targets[a] \subseteq Seq(Names)
  /\ Inputs \subseteq Seq(Tokens)
  /\ Ranges \subseteq {None, Junk} \union (Nat \X Nat)
  /\ \A e \in Edits : /\ e.content \in Seq(Tokens) /\ e.action \in Actions
                      /\ e.lines \in {None, Junk} \union (Nat \X Nat)
  /\ \A p \in DOMAIN StartTree :
       /\ p \in Seq(Names) /\ p # <<>>
       /\ StartTree[p] \in Seq(Tokens) \union {Dir}
       /\ Len(p) > 1 => Front(p) \in DOMAIN StartTree /\ StartTree[Front(p)] = Dir
  /\ StartView \in [Agents -> [path : Seq(Names), text : Seq(Tokens)]]

VARIABLES tree,    \* what is on the disk, below fs_root
          view,    \* what each agent has last read or written: path and text
          reply,   \* the last operation: whose, what it was, how it ended
          steps    \* the operations so far

vars == <<tree, view, reply, steps>>

-------------------------------------------------------------------------------
(* Paths.                                                                  *)

Exists(t, p) == p = <<>> \/ p \in DOMAIN t
IsDir(t, p)  == p = <<>> \/ (p \in DOMAIN t /\ t[p] = Dir)
IsFile(t, p) == p \in DOMAIN t /\ t[p] # Dir
Parent(p)    == Front(p)
Below(t, p)  == {q \in DOMAIN t : IsPrefix(p, q)}
Files(t)     == {p \in DOMAIN t : t[p] # Dir}

MountNames == Mounts \union {Workspace}

(* normalize_virtual_path, which also refuses an absolute path.            *)
Normal(vp) == ~Contains(vp, Up)

(* FilesystemPathResolver: a requested path is in a mount, or refused.     *)
InMount(vp) == Normal(vp) /\ vp # <<>> /\ Head(vp) \in MountNames

(* _authorize_workspace_path and _authorize_user_scoped_path: the directory *)
(* that a mount is for an agent, or None.                                  *)
ScopedRoot(a, mount) ==
  IF mount = Workspace THEN WorkspaceOf[a]
  ELSE IF UserOf[a] = None THEN None ELSE <<UserOf[a], mount>>

(* _is_excluded_path.                                                      *)
Excluded(vp) == Last(vp) \in ExcludedNames \/ \E q \in ExcludedTrees : IsPrefix(q, vp)

(* resolve and the access policy.                                          *)
Reachable(a, vp) == InMount(vp) /\ ScopedRoot(a, Head(vp)) # None

(* _authorize.  _authorize_with_target asks whether the target is excluded *)
(* of the target as the request spells it, not of the path it is: a target *)
(* that is reachable and excluded is denied in one spelling of it and not  *)
(* in another.                                                             *)
Authorized(a, vp) == Reachable(a, vp) /\ ~Excluded(vp)

Real(a, vp) == ScopedRoot(a, Head(vp)) \o Tail(vp)

-------------------------------------------------------------------------------
(* Operations on the tree; each returns what is on the disk afterwards and *)
(* how it ended.  "refused" is a FilesystemToolError, "os" an error that   *)
(* the tree makes the file system raise, "io" one in the middle: a full    *)
(* disk, a name that is too long, an entry that cannot be removed.         *)

Done(t)      == [tree |-> t, end |-> "done"]
Fail(t, why) == [tree |-> t, end |-> why]

Put(t, p, node) == [q \in DOMAIN t \union {p} |-> IF q = p THEN node ELSE t[q]]
Without(t, p)   == Restrict(t, DOMAIN t \ Below(t, p))

(* Path.mkdir(parents=True, exist_ok=True).                                *)
CanMakeDirs(t, p) == \A q \in Prefixes(p) : Exists(t, q) => IsDir(t, q)
WithDirs(t, p)    == [q \in DOMAIN t \union (Prefixes(p) \ {<<>>}) |-> IF q \in DOMAIN t THEN t[q] ELSE Dir]

(* A copy of what is at and below src, at dst.                             *)
Grafted(t, src, dst) ==
  LET Moved(q)  == dst \o SubSeq(q, Len(src) + 1, Len(q))
      Source(p) == src \o SubSeq(p, Len(dst) + 1, Len(p))
      new       == {Moved(q) : q \in Below(t, src)}
  IN  [p \in DOMAIN t \union new |-> IF p \in new THEN t[Source(p)] ELSE t[p]]

(* _create_file.                                                           *)
Create(t, p, content, dirs, dry) ==
  LET u == IF dirs THEN WithDirs(t, Parent(p)) ELSE t IN
  IF Exists(t, p)                              THEN Fail(t, "refused")
  ELSE IF ~dirs /\ ~Exists(t, Parent(p))       THEN Fail(t, "refused")
  ELSE IF dirs /\ ~CanMakeDirs(t, Parent(p))   THEN Fail(t, "os")
  ELSE IF dry                                  THEN Done(u)
  ELSE IF ~IsDir(u, Parent(p))                 THEN Fail(t, "os")
  ELSE Done(Put(u, p, content))

(* Wrong: any checksum is as good as the file's.                           *)
NoMismatch(text, checksum) == FALSE

(* The checksum is one of the text that read_text returns.                 *)
Mismatch(text, checksum) == checksum # None /\ checksum # Universal(text)

(* _update_file.                                                           *)
Update(t, p, content, action, lines, checksum, dry) ==
  IF ~IsFile(t, p)                                          THEN Fail(t, "refused")
  ELSE IF IsBinary(t[p])                                    THEN Fail(t, "os")
  ELSE IF Mismatch(t[p], checksum)                          THEN Fail(t, "mismatch")
  ELSE IF ~EditAllowed(Universal(t[p]), action, lines)      THEN Fail(t, "refused")
  ELSE IF dry                                               THEN Done(t)
  ELSE Done(Put(t, p, Edited(Universal(t[p]), content, action, lines)))

(* _mkdir.                                                                 *)
Mkdir(t, p, recursive) ==
  IF IsDir(t, p) THEN Done(t)
  ELSE IF IF recursive THEN CanMakeDirs(t, p) ELSE ~Exists(t, p) /\ IsDir(t, Parent(p))
       THEN Done(WithDirs(t, p))
  ELSE Fail(t, "os")

(* Wrong: what is there is merged with, with force and without.            *)
CopyOver(t, src, dst, recursive, force) ==
  LET u == WithDirs(t, Parent(dst)) IN
  IF ~Exists(t, src) \/ (IsDir(t, src) /\ ~recursive)        THEN Fail(t, "refused")
  ELSE IF ~CanMakeDirs(t, Parent(dst)) \/ IsPrefix(src, dst) THEN Fail(t, "os")
  ELSE IF Exists(t, dst) /\ (IsDir(t, src) # IsDir(t, dst))   THEN Fail(u, "os")
  ELSE Done(Grafted(u, src, dst))

(* _delete.                                                                *)
Delete(t, p, isRoot, recursive, force) ==
  IF isRoot                              THEN Fail(t, "refused")
  ELSE IF ~Exists(t, p)                  THEN IF force THEN Done(t) ELSE Fail(t, "refused")
  ELSE IF IsDir(t, p) /\ ~recursive      THEN Fail(t, "refused")
  ELSE Done(Without(t, p))

(* shutil.move within a file system, a rename: into a directory that is    *)
(* there, onto a file that is there, and no directory into itself.         *)
Moved(t, src, dst) ==
  LET into == IsDir(t, dst) /\ dst # src
      real == IF into THEN Append(dst, Last(src)) ELSE dst IN
  IF into /\ Exists(t, real)             THEN Fail(t, "os")
  ELSE IF real = src                     THEN Done(t)
  ELSE IF IsDir(t, src) /\ (IsPrefix(src, real) \/ IsFile(t, real)) THEN Fail(t, "os")
  ELSE Done(Without(Grafted(t, src, real), src))

(* _move.                                                                  *)
Move(t, src, dst) ==
  IF ~Exists(t, src)                     THEN Fail(t, "refused")
  ELSE IF ~CanMakeDirs(t, Parent(dst))   THEN Fail(t, "os")
  ELSE Moved(WithDirs(t, Parent(dst)), src, dst)

(* copytree to below a child of the source finds its own copies and copies *)
(* them too, until a name is too long.  The copies within the copy are     *)
(* left out: they are of the same files.                                   *)
Nested(src, dst) == IsPrefix(src, dst) /\ Len(dst) > Len(src) + 1

(* _copy: with force, the target goes before the source is looked at.      *)
Copy(t, src, dst, recursive, force) ==
  LET cleared == Without(t, dst)
      u       == WithDirs(cleared, Parent(dst)) IN
  IF ~Exists(t, src)                             THEN Fail(t, "refused")
  ELSE IF Exists(t, dst) /\ ~force               THEN Fail(t, "refused")
  ELSE IF ~CanMakeDirs(cleared, Parent(dst))     THEN Fail(cleared, "os")
  ELSE IF IsDir(u, src) /\ ~recursive            THEN Fail(u, "refused")
  ELSE IF ~Exists(u, src)                        THEN Fail(u, "os")
  ELSE IF Nested(src, dst)                       THEN Fail(Grafted(u, src, dst), "io")
  ELSE Done(Grafted(u, src, dst))

-------------------------------------------------------------------------------
(* Errors in the middle.  rename and mkdir have no middle; what is not     *)
(* written at once is open, truncated, written, and a directory is copied  *)
(* and removed entry by entry.                                             *)

(* Some of what is at and below p is gone.                                 *)
Thinned(t, p) ==
  {Restrict(t, DOMAIN t \ gone) : gone \in {g \in SUBSET Below(t, p) : \A q \in g : Below(t, q) \subseteq g}}

(* The files at and below p have the first part of their texts.            *)
Shortened(t, p) ==
  LET files == Below(t, p) \intersect Files(t)
      cuts  == {n \in [files -> 0..MaxTokens] : \A q \in files : n[q] <= Len(t[q])}
  IN  {[q \in DOMAIN t |-> IF q \in files THEN SubSeq(t[q], 1, n[q]) ELSE t[q]] : n \in cuts}

(* Some of what should be at and below p is there.                         *)
Fragments(t, p) == UNION {Shortened(u, p) : u \in Thinned(t, p)}

Broken(trees) == {[tree |-> t, end |-> "io"] : t \in IF DiskFails THEN trees ELSE {}}

(* How an operation can end that should end with out.                      *)
Outcomes(out, trees) == {out} \union IF out.end \in {"done", "io"} THEN Broken(trees) ELSE {}

CreateOutcomes(t, p, content, dirs, dry) ==
  LET out == Create(t, p, content, dirs, dry)
  IN  Outcomes(out, IF dry THEN {} ELSE Fragments(out.tree, p))

(* write_text truncates the file before it writes.                         *)
UpdateOutcomes(t, p, content, action, lines, checksum, dry) ==
  LET out == Update(t, p, content, action, lines, checksum, dry)
  IN  Outcomes(out, IF dry THEN {} ELSE {t} \union Shortened(out.tree, p))

DeleteOutcomes(t, p, isRoot, recursive, force) ==
  Outcomes(Delete(t, p, isRoot, recursive, force), Thinned(t, p))

(* With force, the error may come while the target is removed.             *)
CopyOutcomes(t, src, dst, recursive, force) ==
  LET out == Copy(t, src, dst, recursive, force)
  IN  Outcomes(out, Fragments(out.tree, dst))
      \union IF force /\ Exists(t, src) /\ Exists(t, dst) THEN Broken(Thinned(t, dst)) ELSE {}

-------------------------------------------------------------------------------
(* Listings and searches, by an agent that asks for vp and gets base.      *)

(* _matches_filters, with the patterns as the names that they match.       *)
MatchesFilters(t, p, vp, types, glob, exclude) ==
  /\ types = {} \/ (IF IsDir(t, p) THEN "directory" ELSE "file") \in types
  /\ glob = {} \/ Last(p) \in glob
  /\ ~Excluded(vp)
  /\ Last(p) \notin exclude

(* What follows base in p, behind the path that was asked for.             *)
Display(base, vp, p) == vp \o SubSeq(p, Len(base) + 1, Len(p))

(* Those of the names, in the order of a listing.                          *)
Sorted(names) ==
  LET sorted[n \in 0..Len(Order)] ==
        IF n = 0 THEN <<>>
        ELSE IF Order[n] \in names THEN Append(sorted[n - 1], Order[n]) ELSE sorted[n - 1]
  IN  sorted[Len(Order)]

(* iterdir, directories first.                                             *)
Children(t, p) ==
  LET names == {n \in Names : Append(p, n) \in DOMAIN t}
  IN  Sorted({n \in names : IsDir(t, Append(p, n))}) \o Sorted({n \in names : IsFile(t, Append(p, n))})

(* Wrong: the limit holds for each directory.                              *)
RestOf(limit, out) == limit
Rest(limit, out)   == limit - Len(out)

(* _collect_directory_entries for one directory, from what it has for      *)
(* those below it: what is left out is not entered either.                 *)
Entries(t, call, shown, entered, collect) ==
  LET children == Children(t, call.dir)
      entries[n \in 0..Len(children)] ==
        IF n = 0 \/ call.levels = 0 THEN <<>>
        ELSE LET before == entries[n - 1]
                 c      == Append(call.dir, children[n])
                 out    == Append(before, c)
                 below  == [dir |-> c, levels |-> call.levels - 1, limit |-> Rest(call.limit, out)]
             IN  IF Len(before) >= call.limit \/ c \notin shown THEN before
                 ELSE IF Len(out) >= call.limit \/ c \notin entered THEN out
                 ELSE out \o collect[below]
  IN  entries[Len(children)]

Listing(t, base, vp, depth, limit, recursive, types) ==
  LET shown == {c \in DOMAIN t : Last(c) \notin Ignored
                                 /\ MatchesFilters(t, c, Display(base, vp, c), types, {}, {})}
      dirs  == {p \in DOMAIN t : IsDir(t, p)}
      collect[call \in [dir : dirs, levels : 0..depth, limit : 0..limit]] ==
        Entries(t, call, shown, IF recursive THEN dirs ELSE {}, collect)
  IN  IF IsDir(t, base) THEN collect[[dir |-> base, levels |-> depth, limit |-> limit]] ELSE <<>>

(* A page of a listing: the limit counts from the first entry, so a page   *)
(* that starts behind it is empty.                                         *)
ReadDirectory(t, base, vp, mode, depth, limit, offset, types) ==
  LET list == Listing(t, base, vp, IF mode = "tree" THEN depth ELSE 1, limit, mode = "tree", types)
  IN  SubSeq(list, offset + 1, Len(list))

(* A pattern is a name or a piece of text, and finds what equals it.       *)
MatchesFilename(p, query)    == Last(p) = query
MatchesContent(text, query)  == query \in Range(text)

(* _search_file.                                                           *)
FileHits(t, p, path, query, target) ==
  LET Hit(m) == \/ m = "filename" /\ target # "content" /\ MatchesFilename(p, query)
                \/ /\ m = "content" /\ target # "filename"
                   /\ Len(t[p]) <= MaxFileSize /\ ~IsBinary(t[p]) /\ MatchesContent(t[p], query)
  IN  {[path |-> path, match |-> m] : m \in {k \in {"filename", "content"} : Hit(k)}}

(* The directories that os.walk visits.                                    *)
Walked(t, base, vp, depth) ==
  {p \in Below(t, base) :
     /\ IsDir(t, p) /\ Len(p) - Len(base) <= depth
     /\ \A q \in Prefixes(p) : Len(q) > Len(base) =>
          Last(q) \notin Ignored /\ ~Excluded(Display(base, vp, q))}

(* _search_in_root, before max_results cuts it: the path of a search in    *)
(* one file has the name of the file twice.                                *)
SearchHits(t, base, vp, query, target, depth) ==
  LET walked   == Walked(t, base, vp, depth)
      found    == {p \in DOMAIN t : /\ Parent(p) \in walked /\ Last(p) \notin Ignored
                                    /\ ~Excluded(Display(base, vp, p))}
  IN  IF IsFile(t, base) THEN FileHits(t, base, Append(vp, Last(base)), query, target)
      ELSE {[path |-> Display(base, vp, p), match |-> "filename"] :
              p \in {q \in found : IsDir(t, q) /\ MatchesFilename(q, query)}}
           \union UNION {FileHits(t, p, Display(base, vp, p), query, target) : p \in {q \in found : IsFile(t, q)}}

(* A search of "." is one of every mount that the agent may search.        *)
SearchRoots(a, vp) ==
  {r \in (IF vp = <<>> THEN {<<m>> : m \in MountNames} ELSE {vp}) : Authorized(a, r)}

SearchFrom(a, vp, query, target, depth) ==
  UNION {SearchHits(tree, Real(a, r), r, query, target, depth) : r \in SearchRoots(a, vp)}

-------------------------------------------------------------------------------
NoReply == [by |-> None, op |-> "none", end |-> "done"]

Init == tree = StartTree /\ view = StartView /\ reply = NoReply /\ steps = 0

(* The bounds: nothing grows further.                                      *)
Within(t) == \A p \in DOMAIN t : Len(p) <= MaxLength /\ (t[p] # Dir => Len(t[p]) <= MaxTokens)

Answer(a, op, out) ==
  /\ Within(out.tree)
  /\ tree' = out.tree
  /\ steps' = steps + 1
  /\ reply' = [by |-> a, op |-> op, end |-> out.end]

(* The agent has the checksum of what it has read or written.              *)
Learn(a, p, known) ==
  view' = IF known THEN [view EXCEPT ![a] = [path |-> p, text |-> tree'[p]]] ELSE view

(* A path that is in no mount of the agent's, or excluded.                 *)
Deny(a) ==
  /\ \E vp \in Paths[a] \union Targets[a] : ~Authorized(a, vp)
  /\ reply' = [by |-> a, op |-> "denied", end |-> "refused"]
  /\ UNCHANGED <<tree, view, steps>>

(* read, of a file's content.                                              *)
ReadFile(a) ==
  \E vp \in Paths[a] :
    LET p == Real(a, vp) IN
    /\ Authorized(a, vp)
    /\ LET fits == IsFile(tree, p) /\ Len(tree[p]) <= MaxFileSize IN
       /\ Answer(a, "read", IF fits THEN Done(tree) ELSE Fail(tree, "refused"))
       /\ Learn(a, p, fits)

(* stat, which has the checksum of a file of any size.                     *)
StatPath(a) ==
  \E vp \in Paths[a] :
    LET p == Real(a, vp) IN
    /\ Authorized(a, vp)
    /\ Answer(a, "stat", IF Exists(tree, p) THEN Done(tree) ELSE Fail(tree, "refused"))
    /\ Learn(a, p, IsFile(tree, p))

CreateFile(a) ==
  \E vp \in Paths[a], content \in Inputs, dirs \in BOOLEAN, dry \in BOOLEAN :
    LET p  == Real(a, vp)
        op == IF dry THEN "dryRun" ELSE "create" IN
    /\ Authorized(a, vp)
    /\ \E out \in CreateOutcomes(tree, p, content, dirs, dry) :
         Answer(a, op, out) /\ Learn(a, p, out.end = "done" /\ ~dry)

(* With the checksum that the agent has of the file, or without one.       *)
UpdateFile(a) ==
  \E vp \in Paths[a], e \in Edits, checked \in BOOLEAN, dry \in BOOLEAN :
    LET p        == Real(a, vp)
        checksum == IF checked THEN view[a].text ELSE None
        op       == IF dry THEN "dryRun" ELSE IF checked THEN "checked"
                    ELSE IF e.action = "append" THEN "append" ELSE "blind" IN
    /\ Authorized(a, vp)
    /\ checked => view[a].path = p
    /\ \E out \in UpdateOutcomes(tree, p, e.content, e.action, e.lines, checksum, dry) :
         Answer(a, op, out) /\ Learn(a, p, out.end = "done" /\ ~dry)

MakeDirectory(a) ==
  \E vp \in Paths[a], recursive \in BOOLEAN :
    /\ Authorized(a, vp)
    /\ Answer(a, "mkdir", Mkdir(tree, Real(a, vp), recursive))
    /\ UNCHANGED view

DeletePath(a) ==
  \E vp \in Paths[a], recursive \in BOOLEAN, force \in BOOLEAN :
    /\ Authorized(a, vp)
    /\ \E out \in DeleteOutcomes(tree, Real(a, vp), Len(vp) = 1, recursive, force) : Answer(a, "delete", out)
    /\ UNCHANGED view

MovePath(a) ==
  \E vp \in Paths[a], target \in Targets[a] :
    /\ Authorized(a, vp) /\ Reachable(a, target)
    /\ Answer(a, "move", Move(tree, Real(a, vp), Real(a, target)))
    /\ UNCHANGED view

CopyPath(a) ==
  \E vp \in Paths[a], target \in Targets[a], recursive \in BOOLEAN, force \in BOOLEAN :
    /\ Authorized(a, vp) /\ Reachable(a, target)
    /\ \E out \in CopyOutcomes(tree, Real(a, vp), Real(a, target), recursive, force) :
         Answer(a, IF force THEN "overwrite" ELSE "copy", out)
    /\ UNCHANGED view

Next == \E a \in Agents :
  \/ Deny(a)
  \/ /\ steps < MaxSteps
     /\ \/ ReadFile(a) \/ StatPath(a) \/ CreateFile(a) \/ UpdateFile(a)
        \/ MakeDirectory(a) \/ DeletePath(a) \/ MovePath(a) \/ CopyPath(a)

Spec == Init /\ [][Next]_vars

-------------------------------------------------------------------------------
Operations == {"none", "denied", "read", "stat", "create", "checked", "append", "blind", "dryRun",
               "mkdir", "delete", "move", "copy", "overwrite"}

(* Every path is in a directory. *)
IsTree(t) ==
  \A p \in DOMAIN t :
    p \in Seq(Names) /\ p # <<>> /\ t[p] \in Seq(Tokens) \union {Dir} /\ IsDir(t, Parent(p))

(* The variables have their types, and the disk has a tree: the parents of *)
(* a file or a directory are directories, whatever was moved, copied or    *)
(* removed around them.                                                    *)
TypeOK ==
  /\ IsTree(tree)
  /\ view \in [Agents -> [path : Seq(Names), text : Seq(Tokens)]]
  /\ reply.by \in Agents \union {None}
  /\ reply.op \in Operations /\ reply.end \in {"done", "refused", "mismatch", "os", "io"}

(* A careful operation loses nobody's work: a create, a copy without force *)
(* and a mkdir leave every text that is there, an append that does not     *)
(* break off in the write only adds to one, and an update with a checksum  *)
(* replaces only a text whose checksum the agent has, however many others  *)
(* have written in between.                                                *)
CarefulLosesNothing ==
  [][reply'.op \in {"create", "copy", "mkdir", "checked"} \/ (reply'.op = "append" /\ reply'.end # "io") =>
       \A p \in Files(tree) :
         LET seen == view[reply'.by] IN
         \/ p \in Files(tree') /\ tree'[p] = tree[p]
         \/ reply'.op = "append" /\ p \in Files(tree') /\ IsPrefix(Universal(tree[p]), tree'[p])
         \/ reply'.op = "checked" /\ seen.path = p /\ Universal(seen.text) = Universal(tree[p])]_vars

(* What an operation that ends with an error has changed.  One that was    *)
(* refused, and a dry run: no file, directories at most.  A create or a    *)
(* copy that broke off, of a directory into itself too: no file that was   *)
(* there; it may leave what it has written.  An update that broke off: at  *)
(* most the text of one file.  Not so a delete that breaks off, and a copy *)
(* with force, which removes the target before it finds that it cannot     *)
(* copy.                                                                   *)
FailedChangesNoFile ==
  [][LET kept(p) == p \in Files(tree') /\ tree'[p] = tree[p] IN
     /\ (reply'.end \in {"refused", "mismatch", "os"} /\ reply'.op # "overwrite") \/ reply'.op = "dryRun" =>
          Files(tree') = Files(tree) /\ \A p \in Files(tree) : kept(p)
     /\ reply'.end = "io" /\ reply'.op \in {"create", "copy"} => \A p \in Files(tree) : kept(p)
     /\ reply'.end = "io" /\ reply'.op \in {"checked", "append", "blind"} =>
          Files(tree') = Files(tree) /\ \A p, q \in Files(tree) : kept(p) \/ kept(q) \/ p = q]_vars

(* What an agent sees below a directory, however deep it looks.            *)
Visible(base, vp, depth) ==
  {p \in Below(tree, base) \ {base} :
     /\ Len(p) - Len(base) <= depth
     /\ \A q \in Prefixes(p) : Len(q) > Len(base) =>
          Last(q) \notin Ignored /\ ~Excluded(Display(base, vp, q))}

(* A listing is complete up to its limit and its depth: it has as many of  *)
(* the visible entries as the limit allows, each once and behind its       *)
(* directory; and a search for a name finds the same entries as a listing. *)
(* A search of a file looks at that file, which no listing shows.          *)
ListingIsExact ==
  TypeOK /\ \A a \in Agents : \A vp \in {r \in Paths[a] \union {<<>>} : SearchRoots(a, r) # {}} :
    /\ vp # <<>> /\ IsDir(tree, Real(a, vp)) =>
         \A depth \in {1, 3}, limit \in {2, 9} :
           LET mode == IF depth = 1 THEN "list" ELSE "tree"
               list == ReadDirectory(tree, Real(a, vp), vp, mode, depth, limit, 0, {})
               all  == Visible(Real(a, vp), vp, depth)
           IN  /\ ToSet(list) \subseteq all
               /\ Len(list) = Cardinality(ToSet(list))
               /\ Len(list) = IF Cardinality(all) < limit THEN Cardinality(all) ELSE limit
               /\ \A i \in DOMAIN list :
                    Parent(list[i]) = Real(a, vp) \/ \E j \in 1..(i-1) : list[j] = Parent(list[i])
    /\ (\A r \in SearchRoots(a, vp) : ~IsFile(tree, Real(a, r))) =>
         \A n \in Queries :
           {h.path : h \in SearchFrom(a, vp, n, "filename", 1)} =
           UNION {{Display(Real(a, r), r, p) : p \in {q \in Visible(Real(a, r), r, 2) : Last(q) = n}} :
                    r \in SearchRoots(a, vp)}

(* The lines of a text as an agent sees them, without their ends.          *)
WithoutEnd(line) == IF Closed(line) THEN Front(line) ELSE line

Rows(text) ==
  LET shown == SelectLines(text, None, 0)
  IN  [i \in DOMAIN shown |-> WithoutEnd(shown[i][2])]

(* A text that ends in a separator other than a newline gets a newline     *)
(* too, when lines are put behind it or it is put in front of lines: an    *)
(* empty row.                                                              *)
Spaced(text) == IF Closed(text) /\ ~Terminated(text) THEN Append(Rows(text), <<>>) ELSE Rows(text)

AppendedRows(text, content) == IF content = <<>> THEN Rows(text) ELSE Spaced(text) \o Spaced(content)

ExpectedRows(text, content, action, lines) ==
  LET old          == Rows(text)
      Around(i, j) == SubSeq(old, 1, i) \o Spaced(content) \o SubSeq(old, j + 1, Len(old))
  IN  IF lines = None THEN IF action = "append" THEN AppendedRows(text, content) ELSE Rows(content)
      ELSE LET first == lines[1] - 1
               last  == IF lines[2] < Len(old) THEN lines[2] ELSE Len(old)
           IN  CASE action = "replace"       -> Around(first, last)
                 [] action = "insert_before" -> Around(first, first)
                 [] action = "insert_after"  -> Around(last, last)
                 [] action = "delete_lines"  -> SubSeq(old, 1, first) \o SubSeq(old, last + 1, Len(old))

EditIsExact(text, action, lines) ==
  EditAllowed(Universal(text), action, lines) =>
    \A content \in Inputs :
      Rows(Edited(Universal(text), content, action, lines)) = ExpectedRows(text, content, action, lines)

(* An edit of a line range changes the lines of the range and no others,   *)
(* counted as read shows them; an append adds lines of its own.  Not so an *)
(* insert behind a last line that has no end, which joins the two; and one *)
(* empty row is added behind a content, or by an append behind the old     *)
(* text, that ends in a separator of splitlines other than a newline.      *)
EditsKeepLines ==
  \A text \in {tree[p] : p \in Files(tree)}, action \in Actions, lines \in Ranges :
    \/ /\ action = "insert_after" /\ ParseRange(lines) # None
       /\ lines[2] >= Len(Lines(text)) /\ ~Closed(text)
    \/ EditIsExact(text, action, lines)

===============================================================================
