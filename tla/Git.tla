-------------------------------- MODULE Git ---------------------------------
(***************************************************************************)
(* The git operations (src/worker/git_status.go, git_diff.go,              *)
(* git_commit.go, git_gogit.go) on a repository whose work tree is the     *)
(* directory Repo of the file system.  go-git is external: a repository is *)
(* its branch (a sequence of commits), its index and its configuration,    *)
(* and is there as long as the directory .git is.                          *)
(***************************************************************************)
EXTENDS Files

CONSTANTS Repo,      \* the directory of the repository
          Names,     \* the files of its trees, by their paths relative to it
          InitAuthor \* the author fields the service was started with

NoFile == <<"no file">>   \* no contents are equal to it
DotGit == Append(Repo, ".git")
Fields == {"name", "email"}
EmptyTree == [n \in Names |-> NoFile]
EmptyRepo == [commits |-> <<>>, index |-> EmptyTree, remote |-> FALSE,
              local |-> {}, global |-> {}]

\* The files of the trees are in the repository's directory itself, and no
\* directory takes the place of one.
ASSUME RepoAssumption ==
  /\ {Repo, DotGit} \subseteq Places /\ isUnderDir(Home, Repo) /\ InitAuthor \subseteq Fields
  /\ Names \subseteq Seq(Segment)
  /\ \A n \in Names : /\ Len(n) = 1 /\ Repo \o n \in Places \ {DotGit}
                      /\ \A p \in Places : ~Below(Repo \o n, p)

HeadTree(g) == IF g.commits = <<>> THEN EmptyTree ELSE Last(g.commits).tree

\* The work tree: the regular files below Repo.
WorkTree(f) ==
  [n \in Names |-> LET node == At(f, Repo \o n) IN IF node.t = "file" THEN node.data ELSE NoFile]

Binary(data) == data # NoFile /\ Contains(data, "0")

\* git.PlainOpen: the directory itself must hold .git.
IsRepo(f, p) == Walk(f, p).path = Repo /\ At(f, DotGit).t = "dir"

-----------------------------------------------------------------------------
(* Status *)

\* What go-git says of a change from a to b.
Change(a, b) ==
  CASE a = b -> "Unmodified"
    [] a = NoFile /\ b # NoFile -> "Added"
    [] a # NoFile /\ b = NoFile -> "Deleted"
    [] OTHER -> "Modified"

\* Worktree.Status: both fields of a file that is not in the index say untracked, also
\* when HEAD has it.
Untracked(f, g, n) == g.index[n] = NoFile /\ WorkTree(f)[n] # NoFile
Staging(f, g, n) == IF Untracked(f, g, n) THEN "Untracked" ELSE Change(HeadTree(g)[n], g.index[n])
Worktree(f, g, n) == IF Untracked(f, g, n) THEN "Untracked" ELSE Change(g.index[n], WorkTree(f)[n])

\* Mutant: only the staging field is looked at.
StagingOnly(staging, worktree) ==
  CASE staging = "Untracked" -> "untracked" [] staging = "Added" -> "added"
    [] staging = "Deleted" -> "deleted" [] staging = "Modified" -> "modified" [] OTHER -> ""

mapGoGitStatus(staging, worktree) ==
  CASE staging = "Untracked" /\ worktree = "Untracked" -> "untracked"
    [] staging = "Added" -> "added"
    [] staging # "Added" /\ "Deleted" \in {staging, worktree} -> "deleted"
    [] staging # "Added" /\ "Deleted" \notin {staging, worktree}
         /\ "Modified" \in {staging, worktree} -> "modified"
    [] OTHER -> ""

OpenChecks(f, v) == PathChecks(v) \o Check(~IsRepo(f, v.path), "FailedPrecondition")

gitStatus(f, home, g, req) ==
  LET status(n) == mapGoGitStatus(Staging(f, g, n), Worktree(f, g, n))
      answer(code) ==
        [code |-> code,
         files |-> IF code # "ok" THEN {}
                   ELSE {[path |-> n, status |-> status(n)] : n \in {m \in Names : status(m) # ""}}]
  IN answer(FirstOf(OpenChecks(f, ValidatePath(f, home, req))))

-----------------------------------------------------------------------------
(* Diff *)

\* The contents a patch turns into one another; a binary file's are not shown.
FilePatch(n, from, to) ==
  IF Binary(from) \/ Binary(to) THEN [name |-> n, binary |-> TRUE]
  ELSE [name |-> n, binary |-> FALSE, from |-> from, to |-> to]

\* A file that is not in the index, or deleted, has an empty side.
buildUnstagedDiff(f, g, filter) ==
  LET changed == {n \in filter : Worktree(f, g, n) \notin {"Unmodified", "Untracked"}}
  IN {FilePatch(n, g.index[n], WorkTree(f)[n]) : n \in changed}

buildStagedDiff(f, g, filter) ==
  LET changed == {n \in filter : Staging(f, g, n) \notin {"Unmodified", "Untracked"}}
  IN {FilePatch(n, HeadTree(g)[n], g.index[n]) : n \in changed}

\* filePath is validated below the home directory and compared with names that
\* are relative to the repository; <<>> is no filter.
gitDiff(f, home, g, req, filePath, staged) ==
  LET filter == IF filePath = <<>> THEN Names ELSE Names \cap {filePath}
      answer(code) ==
        [code |-> code,
         patches |-> CASE code # "ok" -> {}
                       [] code = "ok" /\ staged -> buildStagedDiff(f, g, filter)
                       [] OTHER -> buildUnstagedDiff(f, g, filter)]
      validated(v, w) == answer(FirstOf(PathChecks(v) \o PathChecks(w) \o OpenChecks(f, v)))
  IN validated(ValidatePath(f, home, req), ValidatePath(f, home, Rel(filePath)))

-----------------------------------------------------------------------------
(* Commit *)

\* Worktree.Add: a file is put into the index as it is, a deleted one is taken
\* out of it; one that is nowhere is an error.
Addable(f, g, index, n) ==
  n \in Names /\ \E tree \in {WorkTree(f), index, HeadTree(g)} : tree[n] # NoFile

\* Mutant: the index is reset when a file cannot be added.
ResetOnError(f, home, g, acc, n) ==
  IF acc.code # "ok" THEN acc
  ELSE IF ~Addable(f, g, acc.index, n) THEN [code |-> "Internal", index |-> HeadTree(g)]
  ELSE [acc EXCEPT !.index[n] = WorkTree(f)[n]]

\* One round of the staging loop: what went in before an error stays there.  The
\* name is validated below the home directory (only a traversal counts) and added
\* below the repository.
Stage(f, home, g, acc, n) ==
  IF acc.code # "ok" THEN acc
  ELSE IF ValidatePath(f, home, Rel(n)).err = "traversal" THEN [acc EXCEPT !.code = "PermissionDenied"]
  ELSE IF ~Addable(f, g, acc.index, n) THEN [acc EXCEPT !.code = "Internal"]
  ELSE [acc EXCEPT !.index[n] = WorkTree(f)[n]]

\* The index and the outcome after the files of a commit were added, one by one.
Staged(f, home, g, files) ==
  LET stage[k \in 0..Len(files)] ==
        IF k = 0 THEN [code |-> "ok", index |-> g.index] ELSE Stage(f, home, g, stage[k - 1], files[k])
  IN stage[Len(files)]

\* The author: of the call, of the service, or of the configuration, in which the
\* fields of the repository stand in front of the user's; "none" when a field is missing.
resolveAuthor(g, call) ==
  CASE call # {} -> IF call = Fields THEN "call" ELSE "none"
    [] call = {} /\ InitAuthor = Fields -> "service"
    [] OTHER -> IF g.local \cup g.global = Fields THEN "config" ELSE "none"

\* By the status of the files as they are staged now.
NothingStaged(f, g) == \A n \in Names : Staging(f, g, n) \in {"Unmodified", "Untracked"}

gitCommit(f, home, g, req, message, files, call) ==
  LET failure(staged) ==
        FirstOf(Check(staged.code # "ok", staged.code)
                \o Check(NothingStaged(f, [g EXCEPT !.index = staged.index]), "FailedPrecondition")
                \o Check(resolveAuthor(g, call) = "none", "InvalidArgument"))
      answer(code, index) ==
        [code |-> code,
         git |-> [g EXCEPT !.index = index,
                           !.commits = IF code = "ok" THEN Append(@, [tree |-> index, by |-> "worker"]) ELSE @]]
      commit(staged) == answer(failure(staged), staged.index)
      validated(refused) ==
        IF refused # "ok" THEN [code |-> refused, git |-> g]
        ELSE commit(Staged(f, home, g, files))
  IN validated(FirstOf(Check(~message, "InvalidArgument") \o OpenChecks(f, ValidatePath(f, home, req))))

-----------------------------------------------------------------------------
(* Clone and push *)

\* The credentials a URL of each scheme is used with.
selectGitAuth(auth, scheme) ==
  CASE scheme = "ssh" -> auth.ssh [] scheme = "https" -> auth.https [] OTHER -> "nil"

Refused(auth, scheme) == scheme # "local" /\ selectGitAuth(auth, scheme) = "nil"

\* go-git: the work tree of a clone is that of the branch.
CheckedOut(f, tree) ==
  [q \in Places |-> IF q \in {Repo, DotGit} THEN Dir
                    ELSE IF \E n \in Names : q = Repo \o n /\ tree[n] # NoFile
                    THEN File(tree[RelPath(Repo, q)], "rw") ELSE f[q]]

\* git.PlainClone into Repo (the depth, which only shortens the history that is kept,
\* is left out): a failed one is cleaned away, but for directories above Repo that it
\* made, unless something was in Repo already, where it leaves an empty repository.
gitClone(f, home, g, req, origin, auth, url, reachable) ==
  LET fails == ~reachable \/ origin = <<>> \/ Refused(auth, url)
      clean == Entries(f, Repo) = {}
      half(into) == IF clean THEN [into EXCEPT ![Repo] = f[Repo]] ELSE [into EXCEPT ![DotGit] = Dir]
      answer(refused, into) ==
        CASE refused # "ok" -> [code |-> refused, fs |-> f, git |-> g]
          [] refused = "ok" /\ fails ->
               [code |-> "Internal", fs |-> half(into),
                git |-> IF clean THEN g ELSE [EmptyRepo EXCEPT !.remote = TRUE]]
          [] OTHER -> [code |-> "ok", fs |-> CheckedOut(into, Last(origin).tree),
                       git |-> [EmptyRepo EXCEPT !.commits = origin, !.index = Last(origin).tree,
                                                 !.remote = TRUE]]
      clone(v, into) ==
        answer(FirstOf(Check(url = "", "InvalidArgument")
                       \o Check(v.err = "traversal", "PermissionDenied")
                       \o Check(into.err # "none" \/ IsRepo(f, Repo), "Internal")), into.fs)
      validated(v) == clone(v, MkdirAll(f, IF v.err = "none" THEN v.path ELSE Clean(home \o req.segs)))
  IN validated(ValidatePath(f, home, req))

\* Mutant: a push that is not forced replaces what the remote has.
AlwaysForced(origin, commits, force) == TRUE

\* go-git: without force, the remote's branch must be a beginning of ours.
MayUpdate(origin, commits, force) == force \/ IsPrefix(origin, commits)

\* The remote has the branch already (NoErrAlreadyUpToDate), or takes it; the answer
\* may be lost after it has.
gitPush(f, home, g, req, origin, auth, scheme, force, reachable, lost) ==
  LET refusal(v) ==
        FirstOf(OpenChecks(f, v)
                \o Check(~g.remote, "FailedPrecondition")
                \o Check(~reachable \/ Refused(auth, scheme), "Internal")
                \o Check(g.commits \in {<<>>, origin}, "upToDate")
                \o Check(~MayUpdate(origin, g.commits, force), "Internal"))
      answer(code) ==
        [code |-> CASE code = "upToDate" -> "ok" [] code = "ok" /\ lost -> "Internal" [] OTHER -> code,
         origin |-> IF code = "ok" THEN g.commits ELSE origin]
  IN answer(refusal(ValidatePath(f, home, req)))
=============================================================================
