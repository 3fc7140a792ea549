------------------------------ MODULE GitProofs ------------------------------
(***************************************************************************)
(* Lemmas about the calls on a repository, for every file system and every *)
(* repository: what the early returns of a handler answer, that pushes are *)
(* safe, that the two diffs compose, and that a commit that failed can be  *)
(* repeated.  WorkspaceProofs adds the types of the state.                 *)
(***************************************************************************)
EXTENDS Workspace, FiniteSetTheorems, SequenceTheorems, WellFoundedInduction, TLAPS

-----------------------------------------
(* The early returns of a handler *)

Codes == {"ok", "upToDate", "InvalidArgument", "PermissionDenied", "NotFound", "FailedPrecondition", "Internal"}

\* The first of two lists of refusals is the first list's, unless that is empty.
LEMMA FirstOfJoin ==
  ASSUME NEW a \in Seq(Codes), NEW b \in Seq(Codes)
  PROVE  /\ a \o b \in Seq(Codes)
         /\ a \o b = <<>> <=> a = <<>> /\ b = <<>>
         /\ FirstOf(a \o b) = IF a = <<>> THEN FirstOf(b) ELSE FirstOf(a)
  BY DEF FirstOf

\* A single check that applies, and one that does not.
LEMMA OneCode ==
  ASSUME NEW c \in Codes
  PROVE  <<c>> \in Seq(Codes) /\ FirstOf(<<c>>) = c /\ <<>> \in Seq(Codes) /\ FirstOf(<<>>) = "ok" /\ <<c>> # <<>>
  BY DEF FirstOf

\* A path passes its checks exactly when validation neither refused it nor failed.
LEMMA PathChecksAre ==
  ASSUME NEW v
  PROVE  /\ PathChecks(v) \in Seq(Codes)
         /\ PathChecks(v) = <<>> <=> v.err \notin {"traversal", "other"}
         /\ FirstOf(PathChecks(v)) \in {"ok", "PermissionDenied", "Internal"}
         /\ FirstOf(PathChecks(v)) = "ok" <=> v.err \notin {"traversal", "other"}
<1>1. PICK x, y : /\ x = IF v.err = "traversal" THEN <<"PermissionDenied">> ELSE <<>>
                  /\ y = IF v.err = "other" THEN <<"Internal">> ELSE <<>>
                  /\ PathChecks(v) = x \o y
  BY DEF PathChecks, Check
<1> "PermissionDenied" \in Codes /\ "Internal" \in Codes
  BY DEF Codes
<1>2. /\ x \in Seq(Codes) /\ y \in Seq(Codes)
      /\ (x = <<>> <=> v.err # "traversal") /\ (y = <<>> <=> v.err # "other")
      /\ FirstOf(x) \in {"ok", "PermissionDenied"} /\ FirstOf(y) \in {"ok", "Internal"}
      /\ (FirstOf(x) = "ok" <=> x = <<>>) /\ (FirstOf(y) = "ok" <=> y = <<>>)
  BY <1>1, OneCode
<1>3. QED
  BY <1>1, <1>2, FirstOfJoin, ZenonT(60)

\* The checks before a repository is opened pass exactly for an accepted path to one.
LEMMA OpenChecksAre ==
  ASSUME NEW f, NEW v
  PROVE  /\ OpenChecks(f, v) \in Seq(Codes)
         /\ OpenChecks(f, v) = <<>> <=> v.err \notin {"traversal", "other"} /\ IsRepo(f, v.path)
         /\ FirstOf(OpenChecks(f, v)) \in {"ok", "PermissionDenied", "Internal", "FailedPrecondition"}
         /\ FirstOf(OpenChecks(f, v)) = "ok" <=> OpenChecks(f, v) = <<>>
<1>1. PICK x : /\ x = IF ~IsRepo(f, v.path) THEN <<"FailedPrecondition">> ELSE <<>>
               /\ OpenChecks(f, v) = PathChecks(v) \o x
  BY DEF OpenChecks, Check
<1> "FailedPrecondition" \in Codes
  BY DEF Codes
<1>2. x \in Seq(Codes) /\ (x = <<>> <=> IsRepo(f, v.path)) /\ FirstOf(x) = IF x = <<>> THEN "ok" ELSE "FailedPrecondition"
  BY <1>1, OneCode
<1>3. PICK a \in Seq(Codes) : a = PathChecks(v)
  BY PathChecksAre
<1>4. OpenChecks(f, v) = a \o x
  BY <1>1, <1>3
<1>5. a = <<>> <=> v.err \notin {"traversal", "other"}
  BY <1>3, PathChecksAre
<1>6. FirstOf(a) \in {"ok", "PermissionDenied", "Internal"} /\ (FirstOf(a) = "ok" <=> a = <<>>)
  BY <1>3, <1>5, PathChecksAre
<1>7. QED
  BY <1>2, <1>4, <1>5, <1>6, FirstOfJoin

\* The outcome of one check.
LEMMA CheckCode ==
  ASSUME NEW x, NEW c \in Codes, x \in {<<>>, <<c>>}
  PROVE  x \in Seq(Codes) /\ FirstOf(x) = IF x = <<>> THEN "ok" ELSE c
  BY OneCode

\* The first refusal of three checks in a row.
LEMMA FirstOfThree ==
  ASSUME NEW a \in Seq(Codes), NEW b \in Seq(Codes), NEW c \in Seq(Codes)
  PROVE  /\ (a \o b) \o c \in Seq(Codes)
         /\ (a \o b) \o c = <<>> <=> a = <<>> /\ b = <<>> /\ c = <<>>
         /\ FirstOf((a \o b) \o c) = IF a # <<>> THEN FirstOf(a) ELSE IF b # <<>> THEN FirstOf(b) ELSE FirstOf(c)
<1>1. PICK d \in Seq(Codes) : d = a \o b
  BY FirstOfJoin
<1>2. (d = <<>> <=> a = <<>> /\ b = <<>>) /\ FirstOf(d) = IF a = <<>> THEN FirstOf(b) ELSE FirstOf(a)
  BY <1>1, FirstOfJoin
<1>3. /\ d \o c \in Seq(Codes)
      /\ d \o c = <<>> <=> d = <<>> /\ c = <<>>
      /\ FirstOf(d \o c) = IF d = <<>> THEN FirstOf(c) ELSE FirstOf(d)
  BY FirstOfJoin
<1>4. QED
  BY <1>1, <1>2, <1>3, Zenon

\* What keeps a push from reaching the remote, whatever the remote has.
Unsent(f, home, g, req, auth, scheme, reachable) ==
  OpenChecks(f, ValidatePath(f, home, req))
  \o Check(~g.remote, "FailedPrecondition")
  \o Check(~reachable \/ Refused(auth, scheme), "Internal")

\* What stands in the way of a push before the remote's branch is looked at is a refusal.
LEMMA UnsentIs ==
  ASSUME NEW f, NEW home, NEW g, NEW req, NEW auth, NEW scheme, NEW reachable \in BOOLEAN
  PROVE  \E a \in Seq(Codes) : /\ a = Unsent(f, home, g, req, auth, scheme, reachable)
                               /\ a # <<>> => FirstOf(a) \notin {"ok", "upToDate"}
<1>1. PICK a, x, y : /\ a = OpenChecks(f, ValidatePath(f, home, req))
                     /\ x = Check(~g.remote, "FailedPrecondition")
                     /\ y = Check(~reachable \/ Refused(auth, scheme), "Internal")
  OBVIOUS
<1>2. x \in {<<>>, <<"FailedPrecondition">>} /\ y \in {<<>>, <<"Internal">>}
  BY <1>1 DEF Check
<1>3. "FailedPrecondition" \in Codes /\ "Internal" \in Codes
  BY DEF Codes
<1>4. /\ x \in Seq(Codes) /\ (x # <<>> => FirstOf(x) \notin {"ok", "upToDate"})
      /\ y \in Seq(Codes) /\ (y # <<>> => FirstOf(y) \notin {"ok", "upToDate"})
  BY <1>2, <1>3, CheckCode
<1>5. a \in Seq(Codes) /\ (a # <<>> => FirstOf(a) \notin {"ok", "upToDate"})
  BY <1>1, OpenChecksAre
<1>6. (a \o x) \o y \in Seq(Codes)
      /\ ((a \o x) \o y # <<>> => FirstOf((a \o x) \o y) \notin {"ok", "upToDate"})
  <2>1. /\ (a \o x) \o y \in Seq(Codes)
        /\ (a \o x) \o y = <<>> <=> a = <<>> /\ x = <<>> /\ y = <<>>
        /\ FirstOf((a \o x) \o y) = IF a # <<>> THEN FirstOf(a) ELSE IF x # <<>> THEN FirstOf(x) ELSE FirstOf(y)
    BY <1>4, <1>5, FirstOfThree
  <2>2. QED
    BY <1>4, <1>5, <2>1
<1>7. (a \o x) \o y = Unsent(f, home, g, req, auth, scheme, reachable)
  BY <1>1 DEF Unsent
<1>8. QED
  BY <1>6, <1>7

\* The four outcomes of gitPush: refused, up to date, taken by the remote, rejected by it.
LEMMA PushDoes ==
  ASSUME NEW f, NEW home, NEW g, NEW req, NEW o, NEW auth, NEW scheme,
         NEW force \in BOOLEAN, NEW reachable \in BOOLEAN, NEW lost \in BOOLEAN
  PROVE  LET a == Unsent(f, home, g, req, auth, scheme, reachable)
             p == gitPush(f, home, g, req, o, auth, scheme, force, reachable, lost)
         IN /\ a # <<>> => p.code # "ok" /\ p.origin = o
            /\ a = <<>> /\ g.commits \in {<<>>, o} => p = [code |-> "ok", origin |-> o]
            /\ a = <<>> /\ g.commits \notin {<<>>, o} /\ MayUpdate(o, g.commits, force) =>
                 p = [code |-> IF lost THEN "Internal" ELSE "ok", origin |-> g.commits]
            /\ a = <<>> /\ g.commits \notin {<<>>, o} /\ ~MayUpdate(o, g.commits, force) =>
                 p = [code |-> "Internal", origin |-> o]
<1>1. PICK a \in Seq(Codes) : /\ a = Unsent(f, home, g, req, auth, scheme, reachable)
                              /\ a # <<>> => FirstOf(a) \notin {"ok", "upToDate"}
  BY UnsentIs
<1>2. PICK x, y : /\ x = Check(g.commits \in {<<>>, o}, "upToDate")
                  /\ y = Check(~MayUpdate(o, g.commits, force), "Internal")
  OBVIOUS
<1>3. /\ x = IF g.commits \in {<<>>, o} THEN <<"upToDate">> ELSE <<>>
      /\ y = IF ~MayUpdate(o, g.commits, force) THEN <<"Internal">> ELSE <<>>
  BY <1>2 DEF Check
<1>4. "upToDate" \in Codes /\ "Internal" \in Codes
  BY DEF Codes
<1>5. /\ x \in Seq(Codes) /\ FirstOf(x) = IF x = <<>> THEN "ok" ELSE "upToDate"
      /\ y \in Seq(Codes) /\ FirstOf(y) = IF y = <<>> THEN "ok" ELSE "Internal"
  BY <1>3, <1>4, CheckCode
<1>6. PICK code : code = FirstOf((a \o x) \o y)
  OBVIOUS
<1>7. code = IF a # <<>> THEN FirstOf(a) ELSE IF x # <<>> THEN FirstOf(x) ELSE FirstOf(y)
  BY <1>5, <1>6, FirstOfThree
<1>8. gitPush(f, home, g, req, o, auth, scheme, force, reachable, lost)
        = [code |-> CASE code = "upToDate" -> "ok" [] code = "ok" /\ lost -> "Internal" [] OTHER -> code,
           origin |-> IF code = "ok" THEN g.commits ELSE o]
  BY <1>1, <1>2, <1>6, Zenon DEF gitPush, Unsent
<1>9. CASE a # <<>>
  BY <1>1, <1>7, <1>8, <1>9
<1>10. CASE a = <<>> /\ g.commits \in {<<>>, o}
  BY <1>1, <1>3, <1>5, <1>7, <1>8, <1>10
<1>11. CASE a = <<>> /\ g.commits \notin {<<>>, o} /\ MayUpdate(o, g.commits, force)
  <2>1. x = <<>> /\ y = <<>>
    BY <1>3, <1>11
  <2>2. code = "ok"
    BY <1>5, <1>7, <1>11, <2>1
  <2>3. QED
    BY <1>1, <1>8, <1>11, <2>2
<1>12. CASE a = <<>> /\ g.commits \notin {<<>>, o} /\ ~MayUpdate(o, g.commits, force)
  <2>1. x = <<>> /\ y # <<>>
    BY <1>3, <1>12
  <2>2. code = "Internal"
    BY <1>5, <1>7, <1>12, <2>1
  <2>3. QED
    BY <1>1, <1>8, <1>12, <2>2
<1>13. QED
  BY <1>9, <1>10, <1>11, <1>12

-----------------------------------------
(* Pushes and diffs *)

\* A branch is a beginning of itself.
LEMMA PrefixOfItself ==
  ASSUME NEW S, NEW s \in Seq(S)
  PROVE  IsPrefix(s, s)
  BY DEF IsPrefix

\* The outcomes of a push, and of the push that repeats it, satisfy PushSafe.
LEMMA PushesSafely ==
  ASSUME origin \in Seq(Commits)
  PROVE  PushSafe
<1>1. SUFFICES ASSUME NEW force \in BOOLEAN, NEW reachable \in BOOLEAN, NEW lost \in BOOLEAN,
                      NEW p, p = gitPush(fs, homeDir, git, RepoPath, origin, Auth, Scheme, force, reachable, lost)
               PROVE  /\ p.code = "ok" => git.commits \in {<<>>, p.origin}
                      /\ ~force => IsPrefix(origin, p.origin)
                      /\ p.origin # origin =>
                           gitPush(fs, homeDir, git, RepoPath, p.origin, Auth, Scheme, force, reachable, FALSE)
                             = [code |-> "ok", origin |-> p.origin]
  BY ZenonT(60) DEF PushSafe
<1>2. IsPrefix(origin, origin)
  BY PrefixOfItself
<1>3. PICK a : a = Unsent(fs, homeDir, git, RepoPath, Auth, Scheme, reachable)
  OBVIOUS
<1>4. /\ a # <<>> => p.code # "ok" /\ p.origin = origin
      /\ a = <<>> /\ git.commits \in {<<>>, origin} => p = [code |-> "ok", origin |-> origin]
      /\ a = <<>> /\ git.commits \notin {<<>>, origin} /\ MayUpdate(origin, git.commits, force) =>
           p = [code |-> IF lost THEN "Internal" ELSE "ok", origin |-> git.commits]
      /\ a = <<>> /\ git.commits \notin {<<>>, origin} /\ ~MayUpdate(origin, git.commits, force) =>
           p = [code |-> "Internal", origin |-> origin]
  BY <1>1, <1>3, PushDoes
<1>5. CASE p.origin = origin
  BY <1>2, <1>4, <1>5
<1>6. CASE p.origin # origin
  <2>1. a = <<>> /\ MayUpdate(origin, git.commits, force) /\ p.origin = git.commits
    BY <1>4, <1>6
  <2>2. ~force => IsPrefix(origin, p.origin)
    BY <2>1 DEF MayUpdate
  <2>3. gitPush(fs, homeDir, git, RepoPath, git.commits, Auth, Scheme, force, reachable, FALSE)
          = [code |-> "ok", origin |-> git.commits]
    <3>1. PICK c : c = git.commits
      OBVIOUS
    <3>2. PICK l \in BOOLEAN : ~l /\ l = FALSE
      BY Zenon
    <3>3. gitPush(fs, homeDir, git, RepoPath, c, Auth, Scheme, force, reachable, l)
            = [code |-> "ok", origin |-> c]
      <4>1. git.commits \in {<<>>, c} /\ a = <<>>
        BY <2>1, <3>1
      <4>2. /\ a = <<>> /\ git.commits \in {<<>>, c} =>
                 gitPush(fs, homeDir, git, RepoPath, c, Auth, Scheme, force, reachable, l) = [code |-> "ok", origin |-> c]
        BY <1>3, PushDoes
      <4>3. QED
        BY <4>1, <4>2
    <3>4. QED
      BY <3>1, <3>2, <3>3, Zenon
  <2>4. QED
    BY <2>1, <2>2, <2>3
<1>7. QED
  BY <1>5, <1>6

\* What status says of a file that is the same in two of the trees.
LEMMA ChangeIs ==
  ASSUME NEW a, NEW b
  PROVE  /\ Change(a, b) \in {"Unmodified", "Added", "Deleted", "Modified"}
         /\ Change(a, b) = "Unmodified" <=> a = b
         /\ Change(a, b) = "Added" => a = NoFile /\ b # NoFile
  BY DEF Change

\* A file on which mapGoGitStatus has nothing to say is the same in HEAD, index and work tree.
LEMMA SilentIsSame ==
  ASSUME NEW f, NEW g, NEW n, mapGoGitStatus(Staging(f, g, n), Worktree(f, g, n)) = ""
  PROVE  HeadTree(g)[n] = g.index[n] /\ g.index[n] = WorkTree(f)[n]
<1>1. PICK h, i, w, s, t : h = HeadTree(g)[n] /\ i = g.index[n] /\ w = WorkTree(f)[n]
                           /\ s = Staging(f, g, n) /\ t = Worktree(f, g, n)
  OBVIOUS
<1>2. /\ s = IF i = NoFile /\ w # NoFile THEN "Untracked" ELSE Change(h, i)
      /\ t = IF i = NoFile /\ w # NoFile THEN "Untracked" ELSE Change(i, w)
  BY <1>1 DEF Staging, Worktree, Untracked
<1>3. s # "Added" /\ s \notin {"Deleted", "Modified"} /\ t \notin {"Deleted", "Modified"}
      /\ ~(s = "Untracked" /\ t = "Untracked")
  BY <1>1 DEF mapGoGitStatus
<1>4. QED
  BY <1>1, <1>2, <1>3, ChangeIs, ZenonT(60)

\* The patches between two trees, restricted to the files of a filter.
Agree(n, from, to, patches) ==
  IF from = to THEN \A p \in patches : p.name # n
  ELSE \E p \in patches : p.name = n /\ (~p.binary => p.from = from /\ p.to = to)

\* A patch names its file and, unless it is binary, both of its sides.
LEMMA PatchIs ==
  ASSUME NEW n, NEW from, NEW to
  PROVE  /\ FilePatch(n, from, to).name = n
         /\ ~FilePatch(n, from, to).binary => FilePatch(n, from, to).from = from /\ FilePatch(n, from, to).to = to
<1>1. CASE Binary(from) \/ Binary(to)
  <2>1. FilePatch(n, from, to) = [name |-> n, binary |-> TRUE]
    BY <1>1 DEF FilePatch
  <2>2. QED
    BY <2>1
<1>2. CASE ~(Binary(from) \/ Binary(to))
  <2>1. FilePatch(n, from, to) = [name |-> n, binary |-> FALSE, from |-> from, to |-> to]
    BY <1>2 DEF FilePatch
  <2>2. QED
    BY <2>1
<1>3. QED
  BY <1>1, <1>2

\* The staged diff of a file agrees with HEAD and the index, unless the file is untracked.
LEMMA StagedAgrees ==
  ASSUME NEW f, NEW g, NEW filter, NEW n \in filter, ~Untracked(f, g, n)
  PROVE  Agree(n, HeadTree(g)[n], g.index[n], buildStagedDiff(f, g, filter))
<1>1. PICK ps, changed : /\ changed = {m \in filter : Staging(f, g, m) \notin {"Unmodified", "Untracked"}}
                         /\ ps = {FilePatch(m, HeadTree(g)[m], g.index[m]) : m \in changed}
                         /\ ps = buildStagedDiff(f, g, filter)
  BY Zenon DEF buildStagedDiff
<1>2. n \in changed <=> HeadTree(g)[n] # g.index[n]
  BY <1>1, ChangeIs DEF Staging
<1>3. CASE HeadTree(g)[n] = g.index[n]
  <2>1. \A p \in ps : p.name # n
    BY <1>1, <1>2, <1>3, PatchIs
  <2>2. QED
    BY <1>1, <1>3, <2>1 DEF Agree
<1>4. CASE HeadTree(g)[n] # g.index[n]
  <2>1. PICK p : p = FilePatch(n, HeadTree(g)[n], g.index[n])
    OBVIOUS
  <2>2. p \in ps
    BY <1>1, <1>2, <1>4, <2>1
  <2>3. p.name = n /\ (~p.binary => p.from = HeadTree(g)[n] /\ p.to = g.index[n])
    BY <2>1, PatchIs
  <2>4. QED
    BY <1>1, <1>4, <2>2, <2>3 DEF Agree
<1>5. QED
  BY <1>3, <1>4

\* An untracked file is in no staged diff, and git_status says what it is.
LEMMA UntrackedUnstaged ==
  ASSUME NEW f, NEW g, NEW n, Untracked(f, g, n)
  PROVE  /\ \A filter : \A p \in buildStagedDiff(f, g, filter) : p.name # n
         /\ mapGoGitStatus(Staging(f, g, n), Worktree(f, g, n)) = "untracked"
<1>1. Staging(f, g, n) = "Untracked" /\ Worktree(f, g, n) = "Untracked"
  BY DEF Staging, Worktree
<1>2. ASSUME NEW filter, NEW p \in buildStagedDiff(f, g, filter) PROVE p.name # n
  <2>1. PICK m : m # n /\ p = FilePatch(m, HeadTree(g)[m], g.index[m])
    BY <1>1, <1>2 DEF buildStagedDiff
  <2>2. QED
    BY <2>1, PatchIs
<1>3. QED
  BY <1>1, <1>2 DEF mapGoGitStatus

\* The unstaged diff of a tracked file agrees with the index and the work tree.
LEMMA UnstagedAgrees ==
  ASSUME NEW f, NEW g, NEW filter, NEW n \in filter, g.index[n] # NoFile
  PROVE  Agree(n, g.index[n], WorkTree(f)[n], buildUnstagedDiff(f, g, filter))
<1>1. PICK ps, changed : /\ changed = {m \in filter : Worktree(f, g, m) \notin {"Unmodified", "Untracked"}}
                         /\ ps = {FilePatch(m, g.index[m], WorkTree(f)[m]) : m \in changed}
                         /\ ps = buildUnstagedDiff(f, g, filter)
  BY Zenon DEF buildUnstagedDiff
<1>2. n \in changed <=> g.index[n] # WorkTree(f)[n]
  BY <1>1, ChangeIs DEF Worktree, Untracked
<1>3. CASE g.index[n] = WorkTree(f)[n]
  <2>1. \A p \in ps : p.name # n
    BY <1>1, <1>2, <1>3, PatchIs
  <2>2. QED
    BY <1>1, <1>3, <2>1 DEF Agree
<1>4. CASE g.index[n] # WorkTree(f)[n]
  <2>1. PICK p : p = FilePatch(n, g.index[n], WorkTree(f)[n])
    OBVIOUS
  <2>2. p \in ps
    BY <1>1, <1>2, <1>4, <2>1
  <2>3. p.name = n /\ (~p.binary => p.from = g.index[n] /\ p.to = WorkTree(f)[n])
    BY <2>1, PatchIs
  <2>4. QED
    BY <1>1, <1>4, <2>2, <2>3 DEF Agree
<1>5. QED
  BY <1>3, <1>4
Filter(path) == IF path = <<>> THEN Names ELSE Names \cap {path}

\* A diff that is answered is one of the two that are built.
LEMMA DiffIs ==
  ASSUME NEW f, NEW home, NEW g, NEW req, NEW path
  PROVE  /\ gitDiff(f, home, g, req, path, TRUE).code = "ok" =>
              gitDiff(f, home, g, req, path, TRUE).patches = buildStagedDiff(f, g, Filter(path))
         /\ gitDiff(f, home, g, req, path, FALSE).code = "ok" =>
              gitDiff(f, home, g, req, path, FALSE).patches = buildUnstagedDiff(f, g, Filter(path))
<1>1. ASSUME NEW staged \in BOOLEAN, gitDiff(f, home, g, req, path, staged).code = "ok"
      PROVE  gitDiff(f, home, g, req, path, staged).patches =
               IF staged THEN buildStagedDiff(f, g, Filter(path)) ELSE buildUnstagedDiff(f, g, Filter(path))
  <2>1. PICK code : gitDiff(f, home, g, req, path, staged) =
          [code |-> code,
           patches |-> CASE code # "ok" -> {}
                         [] code = "ok" /\ staged -> buildStagedDiff(f, g, Filter(path))
                         [] OTHER -> buildUnstagedDiff(f, g, Filter(path))]
    BY Zenon DEF gitDiff, Filter
  <2>2. code = "ok"
    BY <1>1, <2>1
  <2>3. QED
    BY <2>1, <2>2
<1>2. QED
  BY <1>1

\* git_status names a file with its status; one that it leaves out has none.
LEMMA StatusIs ==
  ASSUME NEW f, NEW home, NEW g, NEW req, gitStatus(f, home, g, req).code = "ok", NEW n \in Names
  PROVE  /\ mapGoGitStatus(Staging(f, g, n), Worktree(f, g, n)) # "" =>
              [path |-> n, status |-> mapGoGitStatus(Staging(f, g, n), Worktree(f, g, n))]
                \in gitStatus(f, home, g, req).files
         /\ n \notin {s.path : s \in gitStatus(f, home, g, req).files} =>
              mapGoGitStatus(Staging(f, g, n), Worktree(f, g, n)) = ""
<1> DEFINE status(m) == mapGoGitStatus(Staging(f, g, m), Worktree(f, g, m))
<1>1. PICK files : files = {[path |-> m, status |-> status(m)] : m \in {k \in Names : status(k) # ""}}
  OBVIOUS
<1>2. PICK code : gitStatus(f, home, g, req) = [code |-> code, files |-> IF code # "ok" THEN {} ELSE files]
  BY <1>1, Zenon DEF gitStatus
<1>3. code = "ok"
  BY <1>2
<1>4. gitStatus(f, home, g, req).files = files
  BY <1>2, <1>3
<1>5. SUFFICES ASSUME status(n) # ""
               PROVE  /\ [path |-> n, status |-> status(n)] \in files
                      /\ n \in {s.path : s \in files}
  BY <1>4, Zenon
<1>6. [path |-> n, status |-> status(n)] \in files
  BY <1>1, <1>5
<1>7. [path |-> n, status |-> status(n)].path = n
  OBVIOUS
<1>8. QED
  BY <1>6, <1>7, Zenon

\* The diffs compose in every state.
LEMMA DiffsAlwaysCompose == DiffsCompose
<1> DEFINE files == gitStatus(fs, homeDir, git, RepoPath).files
           diff(path, staged) == gitDiff(fs, homeDir, git, RepoPath, path, staged)
<1>1. SUFFICES ASSUME NEW status \in {gitStatus(fs, homeDir, git, RepoPath)}, status.code = "ok", NEW n \in Names
               PROVE  /\ \A path \in {<<>>, n} :
                           \A staged \in {diff(path, TRUE)}, unstaged \in {diff(path, FALSE)} : staged.code = "ok" =>
                             /\ IF Untracked(fs, git, n)
                                THEN /\ [path |-> n, status |-> "untracked"] \in status.files
                                     /\ \A p \in staged.patches : p.name # n
                                ELSE Agree(n, HeadTree(git)[n], git.index[n], staged.patches)
                             /\ git.index[n] # NoFile =>
                                  Agree(n, git.index[n], WorkTree(fs)[n], unstaged.patches)
                      /\ n \notin {s.path : s \in status.files} =>
                           HeadTree(git)[n] = git.index[n] /\ git.index[n] = WorkTree(fs)[n]
  BY Zenon DEF DiffsCompose, Agree
<1>2. status = gitStatus(fs, homeDir, git, RepoPath)
  OBVIOUS
<1>3. gitStatus(fs, homeDir, git, RepoPath).code = "ok" /\ files = status.files
  BY <1>1, <1>2, Zenon
<1>4. ASSUME n \notin {s.path : s \in files}
      PROVE  HeadTree(git)[n] = git.index[n] /\ git.index[n] = WorkTree(fs)[n]
  <2>1. mapGoGitStatus(Staging(fs, git, n), Worktree(fs, git, n)) = ""
    BY <1>3, <1>4, StatusIs, Zenon
  <2>2. QED
    BY <2>1, SilentIsSame, Zenon
<1>5. ASSUME NEW path \in {<<>>, n}, diff(path, TRUE).code = "ok"
      PROVE  /\ IF Untracked(fs, git, n)
                THEN /\ [path |-> n, status |-> "untracked"] \in files
                     /\ \A p \in diff(path, TRUE).patches : p.name # n
                ELSE Agree(n, HeadTree(git)[n], git.index[n], diff(path, TRUE).patches)
             /\ git.index[n] # NoFile => Agree(n, git.index[n], WorkTree(fs)[n], diff(path, FALSE).patches)
  <2>1. PICK filter : filter = Filter(path)
    OBVIOUS
  <2>2. n \in filter
    BY <1>5, <2>1 DEF Filter
  <2>3. diff(path, FALSE).code = diff(path, TRUE).code
    BY DEF gitDiff
  <2>4. diff(path, TRUE).patches = buildStagedDiff(fs, git, filter)
    BY <1>5, <2>1, DiffIs, ZenonT(60)
  <2>5. diff(path, FALSE).patches = buildUnstagedDiff(fs, git, filter)
    <3>1. diff(path, FALSE).code = "ok"
      BY <1>5, <2>3
    <3>2. QED
      BY <2>1, <3>1, DiffIs, ZenonT(60)
  <2>6. Untracked(fs, git, n) => /\ [path |-> n, status |-> "untracked"] \in files
                                 /\ \A p \in buildStagedDiff(fs, git, filter) : p.name # n
    <3>1. SUFFICES ASSUME Untracked(fs, git, n)
                   PROVE  /\ [path |-> n, status |-> "untracked"] \in files
                          /\ \A p \in buildStagedDiff(fs, git, filter) : p.name # n
      OBVIOUS
    <3>2. mapGoGitStatus(Staging(fs, git, n), Worktree(fs, git, n)) = "untracked"
      BY <3>1, UntrackedUnstaged
    <3>3. [path |-> n, status |-> "untracked"] \in files
      BY <1>3, <3>2, StatusIs
    <3>4. QED
      BY <3>1, <3>3, UntrackedUnstaged
  <2>7. ~Untracked(fs, git, n) => Agree(n, HeadTree(git)[n], git.index[n], buildStagedDiff(fs, git, filter))
    BY <2>2, StagedAgrees
  <2>8. git.index[n] # NoFile => Agree(n, git.index[n], WorkTree(fs)[n], buildUnstagedDiff(fs, git, filter))
    BY <2>2, UnstagedAgrees
  <2>9. QED
    BY <2>4, <2>5, <2>6, <2>7, <2>8, Zenon
<1>6. QED
  BY <1>3, <1>4, <1>5, Zenon

-----------------------------------------
(* Commits: the staging loop and its repetition *)

\* A set of numbers that is not empty has a least element.
LEMMA Least ==
  ASSUME NEW T, T \subseteq Nat, T # {}
  PROVE  \E n \in T : \A k \in T : ~(k < n)
<1>1. PICK n \in T : \A k \in T : <<k, n>> \notin OpToRel(<, Nat)
  BY WFMin, NatLessThanWellFounded, Zenon
<1>2. ASSUME NEW k \in T PROVE ~(k < n)
  <2>1. k \in Nat /\ n \in Nat
    OBVIOUS
  <2>2. QED
    BY <1>1, <2>1 DEF OpToRel
<1>3. QED
  BY <1>2

\* Induction over the indices of a sequence.
LEMMA UpTo ==
  ASSUME NEW n \in Nat, NEW G, 0 \in G, \A k \in 1..n : k - 1 \in G => k \in G
  PROVE  0..n \subseteq G
<1>1. PICK T : T = {k \in 0..n : k \notin G}
  OBVIOUS
<1>2. SUFFICES ASSUME T # {} PROVE FALSE
  BY <1>1
<1>3. PICK m \in T : \A k \in T : ~(k < m)
  <2>1. T \subseteq Nat
    BY <1>1
  <2>2. QED
    BY <1>2, <2>1, Least
<1>4. m \in 1..n /\ m - 1 \in 0..n /\ m - 1 < m
  BY <1>1, <1>3
<1>5. m - 1 \in G
  BY <1>1, <1>3, <1>4
<1>6. QED
  BY <1>1, <1>3, <1>4, <1>5

\* The rounds of the staging loop.
IsStaging(f, home, g, files, s) ==
  s = [k \in 0..Len(files) |-> IF k = 0 THEN [code |-> "ok", index |-> g.index]
                               ELSE Stage(f, home, g, s[k - 1], files[k])]

\* The rounds of the staging loop of gitCommit are a recursive function, which has a value.
LEMMA StagedIs ==
  ASSUME NEW f, NEW home, NEW g, NEW files, Len(files) \in Nat
  PROVE  \E s : IsStaging(f, home, g, files, s) /\ Staged(f, home, g, files) = s[Len(files)]
<1> DEFINE Rounds(m, s) == s = [k \in 0..m |-> IF k = 0 THEN [code |-> "ok", index |-> g.index]
                                               ELSE Stage(f, home, g, s[k - 1], files[k])]
           G == {m \in Nat : \E s : Rounds(m, s)}
<1>1. 0 \in G
  <2>1. PICK s : s = [k \in 0..0 |-> [code |-> "ok", index |-> g.index]]
    OBVIOUS
  <2>2. Rounds(0, s)
    BY <2>1
  <2>3. QED
    BY <2>2
<1>2. ASSUME NEW m \in 1..Len(files), m - 1 \in G PROVE m \in G
  <2>1. PICK s : Rounds(m - 1, s)
    BY <1>2
  <2>2. PICK r : r = [k \in 0..m |-> IF k = m THEN Stage(f, home, g, s[m - 1], files[m]) ELSE s[k]]
    OBVIOUS
  <2>3. \A k \in 0..(m - 1) : r[k] = s[k]
    BY <2>2
  <2>4. ASSUME NEW k \in 0..m PROVE r[k] = IF k = 0 THEN [code |-> "ok", index |-> g.index]
                                              ELSE Stage(f, home, g, r[k - 1], files[k])
    <3>1. CASE k = m
      <4>1. r[k] = Stage(f, home, g, s[m - 1], files[m]) /\ k # 0
        BY <2>2, <3>1
      <4>2. s[m - 1] = r[k - 1]
        BY <2>3, <3>1
      <4>3. QED
        BY <3>1, <4>1, <4>2, Zenon
    <3>2. CASE k # m
      <4>1. k \in 0..(m - 1)
        BY <3>2
      <4>2. r[k] = s[k]
        BY <2>3, <4>1
      <4>3. k # 0 => r[k - 1] = s[k - 1]
        BY <2>3, <4>1
      <4>4. s[k] = IF k = 0 THEN [code |-> "ok", index |-> g.index]
                   ELSE Stage(f, home, g, s[k - 1], files[k])
        BY <2>1, <4>1, Zenon
      <4>5. QED
        BY <4>2, <4>3, <4>4, Zenon
    <3>3. QED
      BY <3>1, <3>2
  <2>5. Rounds(m, r)
    BY <2>2, <2>4, Zenon
  <2>6. QED
    BY <2>5
<1>3. Len(files) \in G
  <2>1. PICK H : H = G
    OBVIOUS
  <2>2. 0 \in H /\ \A k \in 1..Len(files) : k - 1 \in H => k \in H
    BY <1>1, <1>2, <2>1, Zenon
  <2>3. 0..Len(files) \subseteq H
    BY <2>2, UpTo
  <2>4. QED
    BY <2>1, <2>3
<1>4. \E s : s = [k \in 0..Len(files) |-> IF k = 0 THEN [code |-> "ok", index |-> g.index]
                                          ELSE Stage(f, home, g, s[k - 1], files[k])]
  BY <1>3
<1>5. QED
  BY <1>4, Zenon DEF Staged, IsStaging

\* A tree into which the files K of another one are put.
Over(tree, K, other) == [n \in Names |-> IF n \in K THEN other[n] ELSE tree[n]]

\* Outcomes of a round.
StageCodes == {"ok", "PermissionDenied", "Internal"}

\* Whatever a file is staged as, the commit knows it.
Known(f, g, index, files) ==
  \A k \in 1..Len(files) : files[k] \in Names =>
    (index[files[k]] = NoFile \/ WorkTree(f)[files[k]] # NoFile \/ HeadTree(g)[files[k]] # NoFile)

\* The record after a round.
LEMMA StageIs ==
  ASSUME NEW f, NEW home, NEW g, NEW acc, NEW n, NEW c, NEW i, acc = [code |-> c, index |-> i]
  PROVE  Stage(f, home, g, acc, n) =
           IF c # "ok" THEN acc
           ELSE IF ValidatePath(f, home, Rel(n)).err = "traversal" THEN [code |-> "PermissionDenied", index |-> i]
           ELSE IF ~Addable(f, g, i, n) THEN [code |-> "Internal", index |-> i]
           ELSE [code |-> "ok", index |-> [i EXCEPT ![n] = WorkTree(f)[n]]]
<1>1. acc.code = c /\ acc.index = i
  OBVIOUS
<1>2. CASE c # "ok"
  BY <1>1, <1>2, Zenon DEF Stage
<1>3. CASE c = "ok" /\ ValidatePath(f, home, Rel(n)).err = "traversal"
  <2>1. Stage(f, home, g, acc, n) = [acc EXCEPT !.code = "PermissionDenied"]
    BY <1>1, <1>3, Zenon DEF Stage
  <2>2. [acc EXCEPT !.code = "PermissionDenied"] = [code |-> "PermissionDenied", index |-> i]
    OBVIOUS
  <2>3. QED
    BY <1>3, <2>1, <2>2, Zenon
<1>4. CASE c = "ok" /\ ValidatePath(f, home, Rel(n)).err # "traversal" /\ ~Addable(f, g, i, n)
  <2>1. Stage(f, home, g, acc, n) = [acc EXCEPT !.code = "Internal"]
    BY <1>1, <1>4, Zenon DEF Stage
  <2>2. [acc EXCEPT !.code = "Internal"] = [code |-> "Internal", index |-> i]
    OBVIOUS
  <2>3. QED
    BY <1>4, <2>1, <2>2, Zenon
<1>5. CASE c = "ok" /\ ValidatePath(f, home, Rel(n)).err # "traversal" /\ Addable(f, g, i, n)
  <2>1. Stage(f, home, g, acc, n) = [acc EXCEPT !.index[n] = WorkTree(f)[n]]
    BY <1>1, <1>5, Zenon DEF Stage
  <2>2. [acc EXCEPT !.index[n] = WorkTree(f)[n]] = [code |-> "ok", index |-> [i EXCEPT ![n] = WorkTree(f)[n]]]
    BY <1>5
  <2>3. QED
    BY <1>5, <2>1, <2>2, Zenon
<1>6. QED
  BY <1>2, <1>3, <1>4, <1>5, Zenon

\* An index over which the files K of a work tree were staged.
LEMMA OverIs ==
  ASSUME NEW i, i \in Trees, NEW K, NEW w
  PROVE  /\ \A n \in Names : Over(i, K, w)[n] = IF n \in K THEN w[n] ELSE i[n]
         /\ DOMAIN Over(i, K, w) = Names
         /\ Over(i, {}, w) = i
         /\ \A n \in Names : [Over(i, K, w) EXCEPT ![n] = w[n]] = Over(i, K \cup {n}, w)
         /\ Over(Over(i, K, w), K, w) = Over(i, K, w)
         /\ (\A n \in Names : w[n] \in Contents \cup {NoFile}) => Over(i, K, w) \in Trees
<1>1. i = [n \in Names |-> i[n]] /\ \A n \in Names : i[n] \in Contents \cup {NoFile}
  BY DEF Trees
<1>2. PICK o : o = Over(i, K, w) /\ o = [n \in Names |-> IF n \in K THEN w[n] ELSE i[n]]
  BY DEF Over
<1>3. Over(i, {}, w) = i
  BY <1>1 DEF Over
<1>4. ASSUME NEW n \in Names PROVE [o EXCEPT ![n] = w[n]] = Over(i, K \cup {n}, w)
  BY <1>2 DEF Over
<1>5. Over(o, K, w) = o
  BY <1>2 DEF Over
<1>6. (\A n \in Names : w[n] \in Contents \cup {NoFile}) => o \in Trees
  BY <1>1, <1>2 DEF Trees
<1>7. (\A n \in Names : o[n] = IF n \in K THEN w[n] ELSE i[n]) /\ DOMAIN o = Names
  BY <1>2
<1>8. QED
  BY <1>2, <1>3, <1>4, <1>5, <1>6, <1>7, Zenon

\* The files of the first rounds.
UpToRound(files, k) == {files[j] : j \in 1..k}

\* The files of the first k rounds of the staging loop.
LEMMA NextRound ==
  ASSUME NEW files, NEW n \in Nat, NEW k \in 1..n
  PROVE  UpToRound(files, k) = UpToRound(files, k - 1) \cup {files[k]} /\ UpToRound(files, 0) = {}
<1>1. \A j \in 1..k : j \in 1..(k - 1) \/ j = k
  OBVIOUS
<1>2. 1..(k - 1) \subseteq 1..k /\ k \in 1..k /\ 1..0 = {}
  OBVIOUS
<1>3. QED
  BY <1>1, <1>2 DEF UpToRound
Stages(f, home, g, files, c, K) ==
  Staged(f, home, g, files) = [code |-> c, index |-> Over(g.index, K, WorkTree(f))]

\* After k rounds some of the files are in the index as they are in the work tree:
\* all of them unless one was refused.
LEMMA StagedOnce ==
  ASSUME NEW f, NEW home, NEW g, g.index \in Trees, NEW files, Len(files) \in Nat
  PROVE  \E c \in StageCodes, K \in SUBSET Names :
           /\ Stages(f, home, g, files, c, K)
           /\ K \subseteq UpToRound(files, Len(files))
           /\ c = "ok" => K = UpToRound(files, Len(files))
<1>1. PICK s : IsStaging(f, home, g, files, s) /\ Staged(f, home, g, files) = s[Len(files)]
  BY StagedIs
<1>2. PICK i, w, N : i = g.index /\ w = WorkTree(f) /\ i \in Trees /\ N = Len(files) /\ N \in Nat
  OBVIOUS
<1>3. \A k \in 0..N : s[k] = IF k = 0 THEN [code |-> "ok", index |-> i] ELSE Stage(f, home, g, s[k - 1], files[k])
  BY <1>1, <1>2 DEF IsStaging
<1> DEFINE Is(k, c, K) == /\ s[k] = [code |-> c, index |-> Over(i, K, w)]
                          /\ K \subseteq UpToRound(files, k)
                          /\ c = "ok" => K = UpToRound(files, k)
<1>4. PICK G : G = {k \in 0..N : \E c \in StageCodes, K \in SUBSET Names : Is(k, c, K)}
  OBVIOUS
<1>5. 0 \in G
  <2>1. s[0] = [code |-> "ok", index |-> i]
    BY <1>2, <1>3
  <2>2. Over(i, {}, w) = i /\ UpToRound(files, 0) = {}
    BY <1>2, OverIs DEF UpToRound
  <2>3. Is(0, "ok", {}) /\ "ok" \in StageCodes /\ {} \in SUBSET Names /\ 0 \in 0..N
    BY <1>2, <2>1, <2>2 DEF StageCodes
  <2>4. QED
    BY <1>4, <2>3
<1>6. ASSUME NEW k \in 1..N, k - 1 \in G PROVE k \in G
  <2>1. PICK c \in StageCodes, K \in SUBSET Names : Is(k - 1, c, K)
    BY <1>4, <1>6
  <2>2. PICK n, o, acc : n = files[k] /\ o = Over(i, K, w) /\ acc = [code |-> c, index |-> o] /\ s[k - 1] = acc
    BY <2>1
  <2>3. s[k] = Stage(f, home, g, acc, n)
    BY <1>2, <1>3, <2>2
  <2>4. UpToRound(files, k) = UpToRound(files, k - 1) \cup {n}
    BY <1>2, <2>2, NextRound
  <2>5. s[k] = IF c # "ok" THEN acc
               ELSE IF ValidatePath(f, home, Rel(n)).err = "traversal" THEN [code |-> "PermissionDenied", index |-> o]
               ELSE IF ~Addable(f, g, o, n) THEN [code |-> "Internal", index |-> o]
               ELSE [code |-> "ok", index |-> [o EXCEPT ![n] = w[n]]]
    <3>1. acc = [code |-> c, index |-> o]
      BY <2>2
    <3>2. Stage(f, home, g, acc, n) =
            IF c # "ok" THEN acc
            ELSE IF ValidatePath(f, home, Rel(n)).err = "traversal" THEN [code |-> "PermissionDenied", index |-> o]
            ELSE IF ~Addable(f, g, o, n) THEN [code |-> "Internal", index |-> o]
            ELSE [code |-> "ok", index |-> [o EXCEPT ![n] = WorkTree(f)[n]]]
      BY <3>1, StageIs
    <3>3. w = WorkTree(f)
      BY <1>2
    <3>4. QED
      BY <2>3, <3>2, <3>3, Zenon
  <2>6. K \subseteq UpToRound(files, k)
    BY <2>1, <2>4
  <2>7. CASE c # "ok"
    <3>1. Is(k, c, K)
      BY <2>2, <2>5, <2>6, <2>7
    <3>2. QED
      BY <1>2, <1>4, <1>6, <3>1
  <2>8. CASE c = "ok" /\ ValidatePath(f, home, Rel(n)).err = "traversal"
    <3>1. Is(k, "PermissionDenied", K) /\ "PermissionDenied" \in StageCodes
      BY <2>2, <2>5, <2>6, <2>8 DEF StageCodes
    <3>2. QED
      BY <1>2, <1>4, <1>6, <3>1
  <2>9. CASE c = "ok" /\ ValidatePath(f, home, Rel(n)).err # "traversal" /\ ~Addable(f, g, o, n)
    <3>1. Is(k, "Internal", K) /\ "Internal" \in StageCodes
      BY <2>2, <2>5, <2>6, <2>9 DEF StageCodes
    <3>2. QED
      BY <1>2, <1>4, <1>6, <3>1
  <2>10. CASE c = "ok" /\ ValidatePath(f, home, Rel(n)).err # "traversal" /\ Addable(f, g, o, n)
    <3>1. n \in Names
      BY <2>10 DEF Addable
    <3>2. [o EXCEPT ![n] = w[n]] = Over(i, K \cup {n}, w)
      BY <1>2, <2>2, <3>1, OverIs
    <3>3. s[k] = [code |-> "ok", index |-> Over(i, K \cup {n}, w)]
      BY <2>5, <2>10, <3>2
    <3>4. K \cup {n} = UpToRound(files, k) /\ K \cup {n} \in SUBSET Names
      BY <2>1, <2>4, <2>10, <3>1
    <3>5. Is(k, "ok", K \cup {n}) /\ "ok" \in StageCodes
      BY <3>3, <3>4 DEF StageCodes
    <3>6. QED
      <4>1. k \in 0..N
        BY <1>2, <1>6
      <4>2. QED
        BY <1>4, <3>4, <3>5, <4>1, Zenon
  <2>11. QED
    BY <2>7, <2>8, <2>9, <2>10
<1>7. 0..N \subseteq G
  BY <1>2, <1>5, <1>6, UpTo
<1>8. N \in G
  BY <1>2, <1>7
<1>9. \E c \in StageCodes, K \in SUBSET Names : Is(N, c, K)
  BY <1>4, <1>8
<1>10. QED
  BY <1>1, <1>2, <1>9, Zenon DEF Stages

\* Whether a file can be added does not depend on the files that were staged before it.
LEMMA AddableIs ==
  ASSUME NEW f, NEW g, NEW i, NEW files, Known(f, g, i, files), NEW k \in 1..Len(files),
         NEW o, o[files[k]] \in {i[files[k]], WorkTree(f)[files[k]]}
  PROVE  Addable(f, g, o, files[k]) <=>
           /\ files[k] \in Names
           /\ WorkTree(f)[files[k]] # NoFile \/ HeadTree(g)[files[k]] # NoFile
<1>1. Addable(f, g, o, files[k]) <=>
        /\ files[k] \in Names
        /\ WorkTree(f)[files[k]] # NoFile \/ o[files[k]] # NoFile \/ HeadTree(g)[files[k]] # NoFile
  BY DEF Addable
<1>2. files[k] \in Names => i[files[k]] = NoFile \/ WorkTree(f)[files[k]] # NoFile \/ HeadTree(g)[files[k]] # NoFile
  BY DEF Known
<1>3. QED
  BY <1>1, <1>2

\* Two repositories with one branch stage the same files with the same outcome.
LEMMA StagedAlike ==
  ASSUME NEW f, NEW home, NEW files, Len(files) \in Nat,
         NEW g, g.index \in Trees, NEW h, h.index \in Trees, HeadTree(g) = HeadTree(h),
         Known(f, g, g.index, files), Known(f, h, h.index, files)
  PROVE  \E c \in StageCodes, K \in SUBSET Names :
           Stages(f, home, g, files, c, K) /\ Stages(f, home, h, files, c, K)
<1>1. PICK s : IsStaging(f, home, g, files, s) /\ Staged(f, home, g, files) = s[Len(files)]
  BY StagedIs
<1>2. PICK t : IsStaging(f, home, h, files, t) /\ Staged(f, home, h, files) = t[Len(files)]
  BY StagedIs
<1>3. PICK i, j, w, N : /\ i = g.index /\ i \in Trees /\ j = h.index /\ j \in Trees
                        /\ w = WorkTree(f) /\ N = Len(files) /\ N \in Nat
  OBVIOUS
<1>4. \A k \in 0..N :
        /\ s[k] = IF k = 0 THEN [code |-> "ok", index |-> i] ELSE Stage(f, home, g, s[k - 1], files[k])
        /\ t[k] = IF k = 0 THEN [code |-> "ok", index |-> j] ELSE Stage(f, home, h, t[k - 1], files[k])
  BY <1>1, <1>2, <1>3 DEF IsStaging
<1> DEFINE Is(k, c, K) == /\ s[k] = [code |-> c, index |-> Over(i, K, w)]
                          /\ t[k] = [code |-> c, index |-> Over(j, K, w)]
<1>5. PICK G : G = {k \in 0..N : \E c \in StageCodes, K \in SUBSET Names : Is(k, c, K)}
  OBVIOUS
<1>6. 0 \in G
  <2>1. s[0] = [code |-> "ok", index |-> i] /\ t[0] = [code |-> "ok", index |-> j]
    BY <1>3, <1>4
  <2>2. Over(i, {}, w) = i /\ Over(j, {}, w) = j
    BY <1>3, OverIs
  <2>3. Is(0, "ok", {}) /\ "ok" \in StageCodes /\ {} \in SUBSET Names /\ 0 \in 0..N
    BY <1>3, <2>1, <2>2 DEF StageCodes
  <2>4. QED
    BY <1>5, <2>3
<1>7. ASSUME NEW k \in 1..N, k - 1 \in G PROVE k \in G
  <2>1. PICK c \in StageCodes, K \in SUBSET Names : Is(k - 1, c, K)
    BY <1>5, <1>7
  <2>2. PICK n, o, p, a, b : /\ n = files[k] /\ o = Over(i, K, w) /\ p = Over(j, K, w)
                             /\ a = [code |-> c, index |-> o] /\ s[k - 1] = a
                             /\ b = [code |-> c, index |-> p] /\ t[k - 1] = b
    BY <2>1
  <2>3. s[k] = Stage(f, home, g, a, n) /\ t[k] = Stage(f, home, h, b, n)
    BY <1>3, <1>4, <2>2
  <2>4. k \in 0..N /\ k \in 1..Len(files)
    BY <1>3
  <2>5. PICK adds \in BOOLEAN : /\ adds <=> Addable(f, g, o, n)
                                /\ adds <=> Addable(f, h, p, n)
                                /\ adds => n \in Names
    <3>1. n \in Names => o[n] \in {i[n], w[n]} /\ p[n] \in {j[n], w[n]}
      BY <1>3, <2>2, OverIs
    <3>2. n \notin Names => ~Addable(f, g, o, n) /\ ~Addable(f, h, p, n)
      BY DEF Addable
    <3>3. CASE n \in Names
      <4>1. o[files[k]] \in {g.index[files[k]], WorkTree(f)[files[k]]}
        BY <1>3, <2>2, <3>1, <3>3
      <4>2. p[files[k]] \in {h.index[files[k]], WorkTree(f)[files[k]]}
        BY <1>3, <2>2, <3>1, <3>3
      <4>3. Addable(f, g, o, files[k]) <=>
              files[k] \in Names /\ (WorkTree(f)[files[k]] # NoFile \/ HeadTree(g)[files[k]] # NoFile)
        BY <2>4, <4>1, AddableIs
      <4>4. Addable(f, h, p, files[k]) <=>
              files[k] \in Names /\ (WorkTree(f)[files[k]] # NoFile \/ HeadTree(h)[files[k]] # NoFile)
        BY <2>4, <4>2, AddableIs
      <4>5. Addable(f, g, o, n) <=> Addable(f, h, p, n)
        BY <2>2, <4>3, <4>4
      <4>6. QED
        BY <3>3, <4>5
    <3>4. QED
      BY <3>2, <3>3
  <2>6. s[k] = IF c # "ok" THEN a
               ELSE IF ValidatePath(f, home, Rel(n)).err = "traversal" THEN [code |-> "PermissionDenied", index |-> o]
               ELSE IF ~Addable(f, g, o, n) THEN [code |-> "Internal", index |-> o]
               ELSE [code |-> "ok", index |-> [o EXCEPT ![n] = WorkTree(f)[n]]]
    <3>1. a = [code |-> c, index |-> o]
      BY <2>2
    <3>2. QED
      BY <2>3, <3>1, StageIs
  <2>7. t[k] = IF c # "ok" THEN b
               ELSE IF ValidatePath(f, home, Rel(n)).err = "traversal" THEN [code |-> "PermissionDenied", index |-> p]
               ELSE IF ~Addable(f, h, p, n) THEN [code |-> "Internal", index |-> p]
               ELSE [code |-> "ok", index |-> [p EXCEPT ![n] = WorkTree(f)[n]]]
    <3>1. b = [code |-> c, index |-> p]
      BY <2>2
    <3>2. QED
      BY <2>3, <3>1, StageIs
  <2>8. CASE c # "ok"
    <3>1. Is(k, c, K)
      BY <2>2, <2>6, <2>7, <2>8
    <3>2. QED
      BY <1>5, <2>4, <3>1, Zenon
  <2>9. CASE c = "ok" /\ ValidatePath(f, home, Rel(n)).err = "traversal"
    <3>1. Is(k, "PermissionDenied", K) /\ "PermissionDenied" \in StageCodes
      BY <2>2, <2>6, <2>7, <2>9 DEF StageCodes
    <3>2. QED
      BY <1>5, <2>4, <3>1, Zenon
  <2>10. CASE c = "ok" /\ ValidatePath(f, home, Rel(n)).err # "traversal" /\ ~adds
    <3>1. Is(k, "Internal", K) /\ "Internal" \in StageCodes
      BY <2>2, <2>5, <2>6, <2>7, <2>10 DEF StageCodes
    <3>2. QED
      BY <1>5, <2>4, <3>1, Zenon
  <2>11. CASE c = "ok" /\ ValidatePath(f, home, Rel(n)).err # "traversal" /\ adds
    <3>1. n \in Names
      BY <2>5, <2>11
    <3>2. [o EXCEPT ![n] = w[n]] = Over(i, K \cup {n}, w) /\ [p EXCEPT ![n] = w[n]] = Over(j, K \cup {n}, w)
      BY <1>3, <2>2, <3>1, OverIs
    <3>3. s[k] = [code |-> "ok", index |-> [o EXCEPT ![n] = w[n]]]
      BY <1>3, <2>5, <2>6, <2>11
    <3>4. t[k] = [code |-> "ok", index |-> [p EXCEPT ![n] = w[n]]]
      BY <1>3, <2>5, <2>7, <2>11
    <3>5. Is(k, "ok", K \cup {n}) /\ "ok" \in StageCodes /\ K \cup {n} \in SUBSET Names
      BY <3>1, <3>2, <3>3, <3>4 DEF StageCodes
    <3>6. QED
      BY <1>5, <2>4, <3>5, Zenon
  <2>12. QED
    BY <2>8, <2>9, <2>10, <2>11
<1>8. 0..N \subseteq G
  BY <1>3, <1>6, <1>7, UpTo
<1>9. N \in G
  BY <1>3, <1>8
<1>10. \E c \in StageCodes, K \in SUBSET Names : Is(N, c, K)
  BY <1>5, <1>9
<1>11. QED
  BY <1>1, <1>2, <1>3, <1>10, Zenon DEF Stages

\* What a commit does with the files it has staged.
CommitFailure(f, g, c, index, call) ==
  IF c # "ok" THEN c ELSE IF NothingStaged(f, [g EXCEPT !.index = index]) THEN "FailedPrecondition"
  ELSE IF resolveAuthor(g, call) = "none" THEN "InvalidArgument" ELSE "ok"
Committed(f, g, r, c, index, call) ==
  IF r # "ok" THEN [code |-> r, git |-> g]
  ELSE [code |-> CommitFailure(f, g, c, index, call),
        git |-> [g EXCEPT !.index = index,
                   !.commits = IF CommitFailure(f, g, c, index, call) = "ok"
                               THEN Append(@, [tree |-> index, by |-> "worker"]) ELSE @]]
HasMessage(message) == Check(~message, "InvalidArgument") = <<>>
StagedAs(f, home, g, files, c, index) == Staged(f, home, g, files) = [code |-> c, index |-> index]

\* The answer of gitCommit, from the outcome of its staging loop.
LEMMA CommitIs ==
  ASSUME NEW f, NEW home, NEW g, NEW req, NEW message, HasMessage(message), NEW files, NEW call,
         NEW c \in StageCodes, NEW index, StagedAs(f, home, g, files, c, index)
  PROVE  gitCommit(f, home, g, req, message, files, call) =
           Committed(f, g, FirstOf(OpenChecks(f, ValidatePath(f, home, req))), c, index, call)
<1>1. PICK staged : staged = Staged(f, home, g, files) /\ staged.code = c /\ staged.index = index
  BY DEF StagedAs
<1>2. PICK x, y, z : /\ x = Check(staged.code # "ok", staged.code)
                     /\ y = Check(NothingStaged(f, [g EXCEPT !.index = staged.index]), "FailedPrecondition")
                     /\ z = Check(resolveAuthor(g, call) = "none", "InvalidArgument")
  OBVIOUS
<1>3. /\ x = IF c # "ok" THEN <<c>> ELSE <<>>
      /\ y = IF NothingStaged(f, [g EXCEPT !.index = index]) THEN <<"FailedPrecondition">> ELSE <<>>
      /\ z = IF resolveAuthor(g, call) = "none" THEN <<"InvalidArgument">> ELSE <<>>
  BY <1>1, <1>2 DEF Check
<1>4. c \in Codes /\ "FailedPrecondition" \in Codes /\ "InvalidArgument" \in Codes
  BY DEF Codes, StageCodes
<1>5. /\ x \in Seq(Codes) /\ FirstOf(x) = IF x = <<>> THEN "ok" ELSE c
      /\ y \in Seq(Codes) /\ FirstOf(y) = IF y = <<>> THEN "ok" ELSE "FailedPrecondition"
      /\ z \in Seq(Codes) /\ FirstOf(z) = IF z = <<>> THEN "ok" ELSE "InvalidArgument"
  BY <1>3, <1>4, CheckCode
<1>6. PICK code : code = FirstOf((x \o y) \o z)
  OBVIOUS
<1>7. code = CommitFailure(f, g, c, index, call)
  <2>1. code = IF x # <<>> THEN FirstOf(x) ELSE IF y # <<>> THEN FirstOf(y) ELSE FirstOf(z)
    BY <1>5, <1>6, FirstOfThree
  <2>2. QED
    BY <1>3, <1>5, <2>1 DEF CommitFailure
<1>8. PICK r : r = FirstOf(OpenChecks(f, ValidatePath(f, home, req)))
  OBVIOUS
<1>9. FirstOf(Check(~message, "InvalidArgument") \o OpenChecks(f, ValidatePath(f, home, req))) = r
  <2>1. PICK e, a : e = Check(~message, "InvalidArgument") /\ a = OpenChecks(f, ValidatePath(f, home, req))
    OBVIOUS
  <2>2. e = <<>> /\ a \in Seq(Codes)
    BY <2>1, OpenChecksAre DEF HasMessage
  <2>3. e \o a = a
    BY <2>2
  <2>4. QED
    BY <1>8, <2>1, <2>3
<1>10. gitCommit(f, home, g, req, message, files, call) =
         IF r # "ok" THEN [code |-> r, git |-> g]
         ELSE [code |-> code,
               git |-> [g EXCEPT !.index = staged.index,
                          !.commits = IF code = "ok" THEN Append(@, [tree |-> staged.index, by |-> "worker"]) ELSE @]]
  BY <1>1, <1>2, <1>6, <1>9, Zenon DEF gitCommit
<1>11. QED
  BY <1>1, <1>7, <1>8, <1>10, Zenon DEF Committed

\* A repository whose index and branch are replaced, and replaced again.
LEMMA Rewritten ==
  ASSUME NEW g, RepoInv(g), NEW i, NEW j, NEW cs, NEW ds
  PROVE  /\ [g EXCEPT !.index = i, !.commits = cs].index = i
         /\ [g EXCEPT !.index = i, !.commits = cs].commits = cs
         /\ [g EXCEPT !.index = i, !.commits = cs].local = g.local
         /\ [g EXCEPT !.index = i, !.commits = cs].global = g.global
         /\ [[g EXCEPT !.index = i, !.commits = cs] EXCEPT !.index = j, !.commits = ds]
              = [g EXCEPT !.index = j, !.commits = ds]
  BY DEF RepoInv

\* The last element of a sequence that was appended to, and those before it.
LEMMA LastFront ==
  ASSUME NEW S, NEW s \in Seq(S), NEW x \in S
  PROVE  Last(Append(s, x)) = x /\ Front(Append(s, x)) = s
  BY DEF Last, Front

\* What is said of one commit.
Retriable(f, home, g, req, message, files, call) ==
  LET commit(r, by) == gitCommit(f, home, r, req, message, files, by)
      tree == [n \in Names |-> IF n \in UpToRound(files, Len(files)) THEN WorkTree(f)[n] ELSE g.index[n]]
      onlyIndexed == \E n \in UpToRound(files, Len(files)) \cap Names :
        g.index[n] # NoFile /\ WorkTree(f)[n] = NoFile /\ HeadTree(g)[n] = NoFile
  IN \A c \in {commit(g, call)} :
     IF c.code = "ok"
     THEN Last(c.git.commits).tree = tree /\ Front(c.git.commits) = g.commits
     ELSE /\ c.git.commits = g.commits
          /\ \A n \in Names : c.git.index[n] \in {g.index[n], tree[n]}
          /\ onlyIndexed \/ commit(c.git, Fields) = commit(g, Fields)

\* A commit that failed can be repeated.
LEMMA RetriesOf ==
  ASSUME NEW f, NEW home, NEW g, RepoInv(g), NEW req, NEW message, HasMessage(message), NEW files, Len(files) \in Nat, NEW call,
         \A n \in Names : WorkTree(f)[n] \in Contents \cup {NoFile}
  PROVE  Retriable(f, home, g, req, message, files, call)
<1> DEFINE commit(r, by) == gitCommit(f, home, r, req, message, files, by)
<1>1. PICK tree, R : /\ R = UpToRound(files, Len(files))
                     /\ tree = [n \in Names |-> IF n \in R THEN WorkTree(f)[n] ELSE g.index[n]]
  OBVIOUS
<1>2. PICK i, w : i = g.index /\ i \in Trees /\ w = WorkTree(f)
  BY DEF RepoInv
<1>3. PICK c \in StageCodes, K \in SUBSET Names :
        Stages(f, home, g, files, c, K) /\ K \subseteq R /\ (c = "ok" => K = R)
  <2>1. g.index \in Trees
    BY <1>2
  <2>2. QED
    BY <1>1, <2>1, StagedOnce
<1>4. PICK o : o = Over(i, K, w)
  OBVIOUS
<1>5. PICK r, code : r = FirstOf(OpenChecks(f, ValidatePath(f, home, req))) /\ code = CommitFailure(f, g, c, o, call)
  OBVIOUS
<1>6. PICK a : a = commit(g, call)
  OBVIOUS
<1>7. a = IF r # "ok" THEN [code |-> r, git |-> g]
          ELSE [code |-> code,
                git |-> [g EXCEPT !.index = o,
                           !.commits = IF code = "ok" THEN Append(@, [tree |-> o, by |-> "worker"]) ELSE @]]
  <2>1. StagedAs(f, home, g, files, c, o)
    BY <1>2, <1>3, <1>4 DEF Stages, StagedAs
  <2>2. gitCommit(f, home, g, req, message, files, call) = Committed(f, g, FirstOf(OpenChecks(f, ValidatePath(f, home, req))), c, o, call)
    BY <1>3, <2>1, CommitIs
  <2>3. QED
    BY <1>5, <1>6, <2>2, Zenon DEF Committed
<1>8. o \in Trees /\ (\A n \in Names : o[n] = IF n \in K THEN w[n] ELSE i[n]) /\ DOMAIN o = Names
  BY <1>2, <1>4, OverIs
<1>9. SUFFICES IF a.code = "ok"
               THEN Last(a.git.commits).tree = tree /\ Front(a.git.commits) = g.commits
               ELSE /\ a.git.commits = g.commits
                    /\ \A n \in Names : a.git.index[n] \in {g.index[n], tree[n]}
                    /\ \/ \E n \in R \cap Names : g.index[n] # NoFile /\ WorkTree(f)[n] = NoFile /\ HeadTree(g)[n] = NoFile
                       \/ commit(a.git, Fields) = commit(g, Fields)
  BY <1>1, <1>6, Zenon DEF Retriable
<1>10. CASE r # "ok"
  <2>1. a.code # "ok" /\ a.git = g
    BY <1>7, <1>10
  <2>2. QED
    BY <2>1
<1>11. CASE r = "ok" /\ code = "ok"
  <2>1. a = [code |-> code, git |-> [g EXCEPT !.index = o, !.commits = Append(@, [tree |-> o, by |-> "worker"])]]
    BY <1>7, <1>11
  <2>2. g.commits \in Seq(Commits)
    BY DEF RepoInv
  <2>3. PICK cs : cs = Append(g.commits, [tree |-> o, by |-> "worker"])
    OBVIOUS
  <2>4. a.code = "ok" /\ a.git.commits = cs
    BY <1>11, <2>1, <2>3 DEF RepoInv
  <2>5. PICK new \in Commits : new = [tree |-> o, by |-> "worker"]
    BY <1>8 DEF Commits
  <2>6. Last(cs).tree = o /\ Front(cs) = g.commits
    BY <2>2, <2>3, <2>5, LastFront
  <2>7. c = "ok"
    BY <1>5, <1>11 DEF CommitFailure
  <2>8. o = tree
    BY <1>1, <1>2, <1>3, <1>4, <2>7 DEF Over
  <2>9. QED
    BY <2>4, <2>6, <2>8
<1>12. CASE r = "ok" /\ code # "ok"
  <2>1. PICK h : h = [g EXCEPT !.index = o, !.commits = g.commits]
    OBVIOUS
  <2>2. a = [code |-> code, git |-> h]
    BY <1>7, <1>12, <2>1
  <2>3. a.code # "ok" /\ a.git = h
    BY <1>12, <2>2
  <2>4. h.commits = g.commits /\ h.index = o
    BY <2>1 DEF RepoInv
  <2>5. \A n \in Names : o[n] \in {g.index[n], tree[n]}
    BY <1>1, <1>2, <1>3, <1>8
  <2>6. ASSUME ~\E n \in R \cap Names : g.index[n] # NoFile /\ WorkTree(f)[n] = NoFile /\ HeadTree(g)[n] = NoFile
        PROVE  commit(h, Fields) = commit(g, Fields)
    <3>1. HeadTree(h) = HeadTree(g)
      BY <2>4 DEF HeadTree
    <3>2. \A k \in 1..Len(files) : files[k] \in R
      BY <1>1 DEF UpToRound
    <3>3. Known(f, g, g.index, files)
      BY <2>6, <3>2 DEF Known
    <3>4. Known(f, h, h.index, files)
      BY <1>2, <1>8, <2>4, <2>6, <3>1, <3>2 DEF Known
    <3>5. PICK d \in StageCodes, L \in SUBSET Names :
            Stages(f, home, g, files, d, L) /\ Stages(f, home, h, files, d, L)
      <4>1. g.index \in Trees /\ h.index \in Trees /\ HeadTree(g) = HeadTree(h)
        BY <1>2, <1>8, <2>4, <3>1
      <4>2. QED
        BY <3>3, <3>4, <4>1, StagedAlike
    <3>6. Over(i, L, w) = o
      BY <1>2, <1>3, <1>4, <3>5 DEF Stages
    <3>7. Over(o, L, w) = o
      BY <1>2, <3>6, OverIs
    <3>8. Staged(f, home, g, files) = [code |-> d, index |-> o] /\ Staged(f, home, h, files) = [code |-> d, index |-> o]
      BY <1>2, <2>4, <3>5, <3>6, <3>7 DEF Stages
    <3>9. PICK e : e = CommitFailure(f, g, d, o, Fields)
      OBVIOUS
    <3>10. CommitFailure(f, h, d, o, Fields) = e
      <4>1. resolveAuthor(g, Fields) = resolveAuthor(h, Fields)
        BY DEF resolveAuthor, Fields
      <4>2. [h EXCEPT !.index = o] = [g EXCEPT !.index = o]
        BY <2>1 DEF RepoInv
      <4>3. QED
        BY <3>9, <4>1, <4>2, Zenon DEF CommitFailure
    <3>11. commit(g, Fields) =
             IF r # "ok" THEN [code |-> r, git |-> g]
             ELSE [code |-> e,
                   git |-> [g EXCEPT !.index = o,
                              !.commits = IF e = "ok" THEN Append(@, [tree |-> o, by |-> "worker"]) ELSE @]]
      <4>1. StagedAs(f, home, g, files, d, o)
        BY <3>8 DEF StagedAs
      <4>2. gitCommit(f, home, g, req, message, files, Fields) = Committed(f, g, FirstOf(OpenChecks(f, ValidatePath(f, home, req))), d, o, Fields)
        BY <3>5, <4>1, CommitIs
      <4>3. QED
        BY <1>5, <3>9, <4>2, Zenon DEF Committed
    <3>12. commit(h, Fields) =
             IF r # "ok" THEN [code |-> r, git |-> h]
             ELSE [code |-> e,
                   git |-> [h EXCEPT !.index = o,
                              !.commits = IF e = "ok" THEN Append(@, [tree |-> o, by |-> "worker"]) ELSE @]]
      <4>1. StagedAs(f, home, h, files, d, o)
        BY <3>8 DEF StagedAs
      <4>2. gitCommit(f, home, h, req, message, files, Fields) = Committed(f, h, FirstOf(OpenChecks(f, ValidatePath(f, home, req))), d, o, Fields)
        BY <3>5, <4>1, CommitIs
      <4>3. QED
        BY <1>5, <3>10, <4>2, Zenon DEF Committed
    <3>13. PICK cs : cs = IF e = "ok" THEN Append(g.commits, [tree |-> o, by |-> "worker"]) ELSE g.commits
      OBVIOUS
    <3>14. [h EXCEPT !.index = o, !.commits = cs] = [g EXCEPT !.index = o, !.commits = cs]
      BY <2>1, Rewritten
    <3>15. commit(g, Fields) = [code |-> e, git |-> [g EXCEPT !.index = o, !.commits = cs]]
      BY <1>12, <3>11, <3>13
    <3>16. commit(h, Fields) = [code |-> e, git |-> [h EXCEPT !.index = o, !.commits = cs]]
      BY <1>12, <2>4, <3>12, <3>13
    <3>17. QED
      BY <3>14, <3>15, <3>16, Zenon
  <2>7. QED
    BY <2>3, <2>4, <2>5, <2>6, Zenon
<1>13. QED
  BY <1>10, <1>11, <1>12
==============================================================================
