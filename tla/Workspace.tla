----------------------------- MODULE Workspace ------------------------------
(***************************************************************************)
(* The calls that work on files, composed on one file system: files, grep  *)
(* and git, with what a bash command and another user of the remote        *)
(* repository do in between.  Calls that only read are operators of the    *)
(* state; the properties look at their answers in every state.             *)
(***************************************************************************)
EXTENDS Grep, Git

CONSTANTS Outside,    \* a directory that is not below the home directory
          Requests,   \* the paths that requests name
          Writes,     \* the arguments of writeFile that change the instance
          Deletes,    \* the paths that are deleted
          LinkPlace,  \* where a bash command makes links
          Targets,    \* where they lead
          Scheme,     \* of the remote's URL
          Auth,       \* the credentials of the service
          CommitCalls,\* the file lists of commits
          Samples,    \* texts that are searched
          Origin,     \* the remote's first commit
          PeerTree,   \* what another user pushes
          MaxCommits  \* the bound on the length of a branch

VARIABLES fs,       \* every place of the file system
          homeDir,  \* Service.homeDir, as it was configured
          git,      \* the repository's .git
          origin    \* the branch of the remote repository
vars == <<fs, homeDir, git, origin>>

\* The directories above the home directory, the alias and the outside directory,
\* these three, and files in the outside directory.
Initially ==
  [p \in Places |->
     IF p = Alias THEN Link(Home)
     ELSE IF \E q \in {Home, Alias, Outside} : IsPrefix(p, q) THEN Dir
     ELSE IF Front(p) = Outside THEN File(<<"x">>, "rw") ELSE None]

\* A link may lead to anything, inside or outside, that is there or not (but not through
\* the alias).
Apart(p, q) == ~IsPrefix(p, q) /\ ~IsPrefix(q, p)
IsRequest(req) == req \in [abs : BOOLEAN, segs : Seq(Segment)]
ASSUME WorkspaceAssumption ==
  /\ Outside \in Places /\ Apart(Home, Alias) /\ Apart(Home, Outside) /\ Apart(Alias, Outside)
  /\ \A req \in Requests \cup Deletes : IsRequest(req)
  /\ \A w \in Writes : IsRequest(w.req) /\ w.data \in Data /\ w.full \in BOOLEAN
                        /\ w.mode \in {"unset", "rw", "ro"}
  /\ LinkPlace \in Places /\ Below(Home, LinkPlace) /\ ~IsPrefix(LinkPlace, Repo)
  /\ LinkPlace # DotGit /\ \A n \in Names : LinkPlace # Repo \o n
  /\ \A to \in Targets : to \in Places /\ ~IsPrefix(Alias, to)
  /\ {Origin, PeerTree} \subseteq [Names -> Seq(Byte)] /\ MaxCommits \in Nat
  /\ CommitCalls \subseteq Seq(Seq(Segment)) /\ Samples \cup {<<"x">>} \subseteq Seq(Byte)

Init ==
  /\ homeDir \in {Home, Alias}
  /\ fs = Initially
  /\ git = EmptyRepo
  /\ origin = << [tree |-> Origin, by |-> "peer"] >>

-----------------------------------------------------------------------------
RepoPath == Rel(RelPath(Home, Repo))

\* The bound: a request stays within Places.
InBounds(f, req) ==
  LET inPlaces(w) == w.path \o w.rest \in Places
  IN inPlaces(Walk(f, ValidatePath(f, homeDir, req).path))

WriteFile(w) ==
  /\ InBounds(fs, w.req)
  /\ fs' = writeFile(fs, homeDir, w.req, w.data, w.mode, w.full).fs
  /\ UNCHANGED <<homeDir, git, origin>>

DeleteFile(req, recursive) ==
  /\ fs' = deleteFile(fs, homeDir, req, recursive).fs
  /\ git' = IF fs'[DotGit].t = "dir" THEN git ELSE EmptyRepo
  /\ UNCHANGED <<homeDir, origin>>

GitCommit(files, call) ==
  /\ Len(git.commits) < MaxCommits
  /\ git' = gitCommit(fs, homeDir, git, RepoPath, TRUE, files, call).git
  /\ UNCHANGED <<fs, homeDir, origin>>

GitClone(reachable) ==
  /\ \E c \in {gitClone(fs, homeDir, git, RepoPath, origin, Auth, Scheme, reachable)} :
       fs' = c.fs /\ git' = c.git
  /\ UNCHANGED <<homeDir, origin>>

GitPush(force, reachable) ==
  /\ origin' = gitPush(fs, homeDir, git, RepoPath, origin, Auth, Scheme, force, reachable, FALSE).origin
  /\ UNCHANGED <<fs, homeDir, git>>

-----------------------------------------------------------------------------
(* External: bash commands and the other users of the remote. *)

BashLink(to) ==
  /\ fs[LinkPlace].t = "none" /\ fs[Front(LinkPlace)].t = "dir"
  /\ fs' = [fs EXCEPT ![LinkPlace] = Link(to)]
  /\ UNCHANGED <<homeDir, git, origin>>

BashGitInit ==
  /\ fs[Repo].t = "dir" /\ fs[DotGit].t = "none"
  /\ fs' = [fs EXCEPT ![DotGit] = Dir] /\ git' = EmptyRepo
  /\ UNCHANGED <<homeDir, origin>>

PeerPushes ==
  /\ Len(origin) < MaxCommits /\ Last(origin).tree # PeerTree
  /\ origin' = Append(origin, [tree |-> PeerTree, by |-> "peer"])
  /\ UNCHANGED <<fs, homeDir, git>>

Next ==
  \/ \E w \in Writes : WriteFile(w)
  \/ \E req \in Deletes, recursive \in BOOLEAN : DeleteFile(req, recursive)
  \/ \E files \in CommitCalls, call \in {{}, {"name"}, Fields} : GitCommit(files, call)
  \/ \E reachable \in BOOLEAN : GitClone(reachable)
  \/ \E force, reachable \in BOOLEAN : GitPush(force, reachable)
  \/ \E to \in Targets : BashLink(to)
  \/ BashGitInit
  \/ PeerPushes

Spec == Init /\ [][Next]_vars

-----------------------------------------------------------------------------
(* Properties *)

\* The file system stays a tree of the instance's objects, whatever order files
\* are written and deleted in: everything is in a directory, a repository has a
\* branch only where its .git is, and a home directory that was configured by
\* its own path ("Don't allow deleting the home directory itself") is there.
TreeOK ==
  /\ \A p \in Places : /\ fs[p].t \in {"none", "dir", "file", "link"}
                       /\ p # <<>> /\ fs[p].t # "none" => fs[Front(p)].t = "dir"
  /\ fs[DotGit].t = "none" => git = EmptyRepo
  /\ homeDir = Home => fs[Home].t = "dir"

\* The inductive invariant: beside TreeOK, what was outside the home directory is as
\* it was, only files are new there, and the only links are the alias and the one that
\* a command made.
Contents == Data \cup {<<>>, <<"x">>} \cup {Origin[n] : n \in Names} \cup {PeerTree[n] : n \in Names}
Nodes == {None, Dir} \cup [t : {"file"}, data : Contents, mode : {"rw", "ro"}]
                    \cup [t : {"link"}, to : Seq(Segment)]
Tree(f) == \A p \in Places : p # <<>> /\ f[p].t # "none" => f[Front(p)].t = "dir"
LinksLead(f) == \A p \in Places : f[p].t = "link" =>
                  p = Alias \/ (p = LinkPlace /\ f[p].to \in Targets)
FsInv(f) ==
  /\ f \in [Places -> Nodes] /\ Tree(f) /\ LinksLead(f) /\ f[Home].t \in {"dir", "none"}
  /\ \A p \in Places : ~isUnderDir(Home, p) =>
       f[p] = Initially[p] \/ (Initially[p].t = "none" /\ f[p].t = "file")
Trees == [Names -> Contents \cup {NoFile}]
Commits == [tree : Trees, by : {"peer", "worker"}]
RepoInv(g) == g \in [commits : Seq(Commits), index : Trees, remote : BOOLEAN,
                     local : SUBSET Fields, global : SUBSET Fields]
WorkspaceInv ==
  FsInv(fs) /\ homeDir \in {Home, Alias} /\ TreeOK /\ RepoInv(git) /\ origin \in Seq(Commits) \ {<<>>}

\* "All file paths are validated to be under homeDir": no call changes or removes
\* anything outside the home directory, also through links and paths that leave it and
\* come back.  What is not there is not validated, only the directory that its name is
\* in: where a command has made a link to nothing, a file can be written.
OutsideUntouched ==
  [][\A p \in Places : ~isUnderDir(Home, p) /\ fs'[p] # fs[p] =>
       fs[p].t = "none" /\ fs'[p].t = "file" /\ fs[LinkPlace] = Link(p)]_vars

\* A file that was written is read back, whole or in pieces, by the name it was
\* written under, unless it was written outside, where the name does not lead any
\* more once there is a file; a write that is refused changes no file, and leaves at
\* most new directories.
Left(f) == \E p \in Places : ~isUnderDir(Home, p) /\ f[p] # fs[p]
WritesAgree ==
  \A req \in Requests, data \in Data, mode \in {"unset", "ro"} :
    InBounds(fs, req) => \A w \in {writeFile(fs, homeDir, req, data, mode, FALSE)} :
      IF w.code = "ok"
      THEN IF Left(w.fs) THEN readFile(w.fs, homeDir, req, 0, 0).code = "PermissionDenied" ELSE
           /\ readFile(w.fs, homeDir, req, 0, 0) = [code |-> "ok", data |-> data]
           /\ \A n \in 1..3 : readFile(w.fs, homeDir, req, 0, n).data
                                \o readFile(w.fs, homeDir, req, n, 1).data
                                \o readFile(w.fs, homeDir, req, n + 1, 0).data = data
      ELSE \A p \in Places : fs[p].t # "none" \/ w.fs[p].t # "dir" => w.fs[p] = fs[p]

\* What is listed or globbed as a file can be read by the name given.
ListingsAgree ==
  /\ \A req \in Requests, recursive \in BOOLEAN :
       \A e \in listFiles(fs, homeDir, req, recursive).files :
         e.type = "file" => readFile(fs, homeDir, Rel(e.path), 0, 0).code = "ok"
  /\ \A req \in Requests : \A m \in glob(fs, homeDir, "**", req).matches :
       At(fs, ValidatePath(fs, homeDir, req).path \o m).t = "file" =>
         readFile(fs, homeDir, [req EXCEPT !.segs = @ \o m], 0, 0).code = "ok"

\* What was deleted is not found by the name it was deleted under, also where
\* links led to it or it held them (unless the home directory went with it).
DeletesAgree ==
  \A req \in Requests, recursive \in BOOLEAN :
    \A d \in {deleteFile(fs, homeDir, req, recursive)} :
      d.code = "ok" /\ d.fs[Home].t = "dir" => readFile(d.fs, homeDir, req, 0, 0).code = "NotFound"

\* What the calls say of one object agrees.
CallsAgree == WritesAgree /\ ListingsAgree /\ DeletesAgree

\* The reference for the search: line n of a text is what lies between its
\* newlines n - 1 and n.
LineOf(data, i) == 1 + Cardinality({j \in 1..(i - 1) : data[j] = "nl"})
Bytes(data, n) == {i \in 1..Len(data) : LineOf(data, i) = n /\ data[i] # "nl"}
Line(data, n) ==
  IF Bytes(data, n) = {} THEN <<>> ELSE SubSeq(data, Min(Bytes(data, n)), Max(Bytes(data, n)))
Lines(data, a, b) == [k \in 1..(b - a + 1) |-> Line(data, a + k - 1)]

\* Both searches of one text find its matching lines; the Go search adds the
\* lines around each, and the lines that the parser of ripgrep's output adds
\* are lines of the text between this match and the next.
SearchCorrect(data, c) ==
  LET last == LineOf(data, Len(data) + 1)
      wanted == IF Contains(data, "0") THEN {} ELSE {n \in 1..last : Contains(Line(data, n), "x")}
      go == searchFile(data, <<>>, c)
      rg == Range(parseRipgrepJSON(RipgrepJSON(data, c), <<>>))
      first(n) == IF n > c THEN n - c ELSE 1
      final(n) == IF n + c < last THEN n + c ELSE last
  IN /\ \A found \in {go, rg} : {<<m.line, m.content>> : m \in found} = {<<n, Line(data, n)>> : n \in wanted}
     /\ \A m \in go : m.before = Lines(data, first(m.line), m.line - 1)
                      /\ m.after = Lines(data, m.line + 1, final(m.line))
     /\ \A m \in rg : \E n \in m.line..last :
          /\ wanted \cap (m.line + 1)..n = {}
          /\ Range(m.after) \subseteq Range(Lines(data, m.line + 1, n))
SearchesCorrect == \A data \in Samples, c \in 0..2 : SearchCorrect(data, c)

\* grep reports a regular file's matching lines, whichever program searches it, under
\* a name that read with the directory searched is that file.  Only ripgrep skips what
\* is hidden or ignored and gives up at a line that is too long for its parser; and
\* a glob filter, which is a name at any depth for it, is one in the directory itself
\* for the fallback.
FilesFound(req, only, rg) ==
  LET dir == ValidatePath(fs, homeDir, req).path
  IN {m \in grep(fs, homeDir, rg, "x", req, only, 0).matches :
        /\ ~\E p \in Skipped : Below(dir, p) /\ IsPrefix(p, dir \o m.path)
        /\ At(fs, dir \o m.path).t = "file"}
HitsAgree ==
  \A req \in Requests, only \in BOOLEAN :
    \A found \in {FilesFound(req, only, TRUE)}, foundByGo \in {FilesFound(req, only, FALSE)} :
      /\ grep(fs, homeDir, TRUE, "x", req, only, 0).code # "Unknown" =>
           foundByGo = {m \in found : only => Len(m.path) = 1}
      /\ \A m \in found \cup foundByGo :
           \A r \in {readFile(fs, homeDir, [req EXCEPT !.segs = @ \o m.path], 0, 0)} :
             r.code = "ok" /\ Line(r.data, m.line) = m.content

\* The two searches, of a text and of the files below a directory.
GrepAgrees == SearchesCorrect /\ HitsAgree

\* The branch, patched with the staged diff, is the index, and the index,
\* patched with the unstaged diff, the tracked part of the work tree, also for
\* one file at a time; a file that git_status does not name is the same in
\* all three.  But a file whose deletion is staged and that is there again is
\* untracked for git_status and in neither diff.
DiffsCompose ==
  LET diff(path, staged) == gitDiff(fs, homeDir, git, RepoPath, path, staged)
      agree(n, from, to, patches) ==
        IF from = to THEN \A p \in patches : p.name # n
        ELSE \E p \in patches : p.name = n /\ (~p.binary => p.from = from /\ p.to = to)
  IN \A status \in {gitStatus(fs, homeDir, git, RepoPath)} : status.code = "ok" => \A n \in Names :
       /\ \A path \in {<<>>, n} :
            \A staged \in {diff(path, TRUE)}, unstaged \in {diff(path, FALSE)} : staged.code = "ok" =>
              /\ IF Untracked(fs, git, n)
                 THEN /\ [path |-> n, status |-> "untracked"] \in status.files
                      /\ \A p \in staged.patches : p.name # n
                 ELSE agree(n, HeadTree(git)[n], git.index[n], staged.patches)
              /\ git.index[n] # NoFile => agree(n, git.index[n], WorkTree(fs)[n], unstaged.patches)
       /\ n \notin {s.path : s \in status.files} =>
            HeadTree(git)[n] = git.index[n] /\ git.index[n] = WorkTree(fs)[n]

\* A commit holds the listed files as they are and the rest as it was staged.
\* One that fails leaves the branch alone and every file staged as it was or as
\* asked for; repeated with the same files, once an author is known, it gives what
\* it would have given at first, unless a file is nowhere but in the index (the
\* first attempt removes it from there, the second one does not find it).
CommitRetries ==
  \A files \in CommitCalls, call \in {{}, {"name"}, Fields},
     known \in {git, [git EXCEPT !.local = Fields]} :
    LET commit(g, by) == gitCommit(fs, homeDir, g, RepoPath, TRUE, files, by)
        tree == [n \in Names |-> IF n \in Range(files) THEN WorkTree(fs)[n] ELSE git.index[n]]
        onlyIndexed == \E n \in Range(files) \cap Names :
          git.index[n] # NoFile /\ WorkTree(fs)[n] = NoFile /\ HeadTree(git)[n] = NoFile
    IN \A c \in {commit(known, call)} :
       IF c.code = "ok"
       THEN Last(c.git.commits).tree = tree /\ Front(c.git.commits) = git.commits
       ELSE /\ c.git.commits = git.commits
            /\ \A n \in Names : c.git.index[n] \in {git.index[n], tree[n]}
            /\ onlyIndexed \/ commit(c.git, Fields) = commit(known, Fields)

\* A push that is answered with success left our branch at the remote; without
\* force nothing the remote had is lost; and when only the answer was lost, the
\* call can be repeated.
PushSafe ==
  \A force, reachable, lost \in BOOLEAN :
    LET push(o, l) == gitPush(fs, homeDir, git, RepoPath, o, Auth, Scheme, force, reachable, l)
    IN \A p \in {push(origin, lost)} :
       /\ p.code = "ok" => git.commits \in {<<>>, p.origin}
       /\ ~force => IsPrefix(origin, p.origin)
       /\ p.origin # origin => push(p.origin, FALSE) = [code |-> "ok", origin |-> p.origin]
=============================================================================
