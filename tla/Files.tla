------------------------------- MODULE Files -------------------------------
(***************************************************************************)
(* The file operations of the worker (src/worker/file.go) and the path     *)
(* validation they start with (src/worker/path.go), on one file system.    *)
(*                                                                         *)
(* A handler is a function of the file system, the configured home and its *)
(* request: it returns the response code with the data answered or the     *)
(* file system it leaves behind.  A path is the sequence of its names;     *)
(* bytes are kept where reads, lines and patches tell them apart.          *)
(***************************************************************************)
EXTENDS Integers, SequencesExt

CONSTANTS Home,      \* the home directory, by its canonical path
          Alias,     \* a link to it, which may be configured instead
          Places,    \* the bound: the paths at which something can exist
          Data,      \* contents that are written (sequences of bytes)
          MaxLinks   \* links one resolution follows before it gives up

Segment == STRING   \* the names a path is made of
Byte == STRING

ASSUME PlacesAssumption ==
  /\ Places \subseteq Seq(Segment) /\ <<>> \in Places /\ {Home, Alias} \subseteq Places
  /\ \A p \in Places : /\ p # <<>> => Front(p) \in Places
                       /\ \A i \in DOMAIN p : p[i] \notin {".", ".."}
  /\ Data \subseteq Seq(Byte)
  /\ MaxLinks \in Nat

None == [t |-> "none"]
Dir == [t |-> "dir"]
File(data, mode) == [t |-> "file", data |-> data, mode |-> mode]
Link(to) == [t |-> "link", to |-> to]

At(f, p) == IF p \in Places THEN f[p] ELSE None
Below(p, q) == IsPrefix(p, q) /\ p # q

\* A file the worker, which is not root, may not write.
ReadOnly(node) == node.t = "file" /\ node.mode = "ro"

\* The early returns of a handler, in their order: those that apply, and the
\* code of the first of them.
Check(applies, code) == IF applies THEN <<code>> ELSE <<>>
FirstOf(checks) == IF checks = <<>> THEN "ok" ELSE Head(checks)

-----------------------------------------------------------------------------
(* Name resolution by the kernel and by filepath.EvalSymlinks *)

\* A resolution under way: the links it may still follow, the directory it has
\* reached, and the names that are left.
Walks == [links : 0..MaxLinks, done : Seq(Segment), todo : Seq(Segment)]

\* Resolves the next name.  "err" of a result is "none", "notexist" (then "path" is
\* the missing object and "rest" what should have been below it), "notdir" or "loop".
NextName(w) == Append(w.done, Head(w.todo))
Ends(f, w) ==
  \/ w.todo = <<>>
  \/ At(f, NextName(w)).t = "none"
  \/ At(f, NextName(w)).t = "file" /\ Tail(w.todo) # <<>>
  \/ At(f, NextName(w)).t = "link" /\ w.links = 0
Result(f, w) ==
  LET result(e, q, r) == [err |-> e, path |-> q, rest |-> r]
  IN IF w.todo = <<>> THEN result("none", w.done, <<>>)
     ELSE IF At(f, NextName(w)).t = "none" THEN result("notexist", NextName(w), Tail(w.todo))
     ELSE result(IF At(f, NextName(w)).t = "file" THEN "notdir" ELSE "loop", NextName(w), <<>>)
After(f, w) ==
  IF At(f, NextName(w)).t = "link"
  THEN [links |-> w.links - 1, done |-> <<>>, todo |-> At(f, NextName(w)).to \o Tail(w.todo)]
  ELSE [links |-> w.links, done |-> NextName(w), todo |-> Tail(w.todo)]

Resolve(f) == LET go[w \in Walks] == IF Ends(f, w) THEN Result(f, w) ELSE go[After(f, w)] IN go

\* Follows every link of p, from the root.
Walk(f, p) == Resolve(f)[[links |-> MaxLinks, done |-> <<>>, todo |-> p]]

\* As Walk, but a link in the last place is not followed.
Lstat(f, p) ==
  LET in(up, q) ==
        [err  |-> CASE up.err # "none" -> up.err
                    [] up.err = "none" /\ At(f, up.path).t = "file" -> "notdir"
                    [] OTHER -> IF At(f, q).t = "none" THEN "notexist" ELSE "none",
         path |-> q, rest |-> <<>>]
      entry(up) == in(up, Append(up.path, Last(p)))
  IN IF p = <<>> THEN Walk(f, p) ELSE entry(Walk(f, Front(p)))

-----------------------------------------------------------------------------
(* Path validation *)

\* A request names a path: its segments, and whether it starts at the root.
EmptyPath(req) == ~req.abs /\ req.segs = <<>>
Rel(segs) == [abs |-> FALSE, segs |-> segs]

\* filepath.Clean: "." goes away, ".." takes the name before it, also at the root.
CleanName(p, s) ==
  CASE s = "." -> p [] s = ".." -> IF p = <<>> THEN p ELSE Front(p) [] OTHER -> Append(p, s)
Clean(segs) ==
  LET clean[k \in 0..Len(segs)] == IF k = 0 THEN <<>> ELSE CleanName(clean[k - 1], segs[k])
  IN clean[Len(segs)]

isUnderDir(dir, p) == IsPrefix(dir, p)

Traversal == [err |-> "traversal", path |-> <<>>]
Failed == [err |-> "other", path |-> <<>>]
Valid(p) == [err |-> "none", path |-> p]

\* The nearest ancestor that exists must resolve into the home directory, and
\* the path is returned as it was asked for.  The home directory exists, so the
\* loop ends at it at the latest.
validateNonExistentPath(f, realHome, target) ==
  LET missing(k) == Lstat(f, SubSeq(target, 1, k)).err = "notexist"
      nearest == CHOOSE k \in 0..(Len(target) - 1) :
                   ~missing(k) /\ \A j \in (k + 1)..(Len(target) - 1) : missing(j)
      verdict(stat, real) ==
        CASE stat.err # "none" \/ real.err # "none" -> Failed
          [] stat.err = "none" /\ real.err = "none" /\ ~isUnderDir(realHome, real.path) -> Traversal
          [] OTHER -> Valid(target)
      below(parent) == verdict(Lstat(f, parent), Walk(f, parent))
  IN below(SubSeq(target, 1, nearest))

\* Mutant: what an existing path resolves to is not compared with the home directory.
LexicalOnly(f, home, req) ==
  LET target == Clean(IF req.abs THEN req.segs ELSE home \o req.segs)
  IN IF isUnderDir(home, target) THEN Valid(Walk(f, target).path) ELSE Traversal

ValidatePath(f, home, req) ==
  LET resolved(realHome, target, real) ==
        IF ~isUnderDir(home, target) /\ ~isUnderDir(realHome, target) THEN Traversal
        ELSE IF real.err = "notexist" THEN validateNonExistentPath(f, realHome, target)
        ELSE IF real.err # "none" THEN Failed
        ELSE IF isUnderDir(realHome, real.path) THEN Valid(real.path) ELSE Traversal
      validated(realHome, target) ==
        CASE realHome.err # "none" -> Failed
          [] realHome.err = "none" /\ EmptyPath(req) -> Valid(realHome.path)
          [] OTHER -> resolved(realHome.path, target, Walk(f, target))
  IN validated(Walk(f, home), Clean(IF req.abs THEN req.segs ELSE home \o req.segs))

\* The code a handler answers a rejected path with.
PathChecks(v) == Check(v.err = "traversal", "PermissionDenied") \o Check(v.err = "other", "Internal")
StatChecks(s) == Check(s.err = "notexist", "NotFound") \o Check(s.err # "none", "Internal")

-----------------------------------------------------------------------------
(* Reading *)

\* Mutant: the limit counts from the beginning of the file.
LimitFromStart(data, offset, limit) ==
  SubSeq(data, offset + 1, IF limit > 0 /\ limit < Len(data) THEN limit ELSE Len(data))

\* Seek, then io.LimitReader; zero or less means from the start, and to the end.
Slice(data, offset, limit) ==
  LET from == IF offset > 0 THEN offset ELSE 0
      to == IF limit > 0 /\ from + limit < Len(data) THEN from + limit ELSE Len(data)
  IN SubSeq(data, from + 1, to)

readFile(f, home, req, offset, limit) ==
  LET answer(code, node) ==
        [code |-> code, data |-> IF code = "ok" THEN Slice(node.data, offset, limit) ELSE <<>>]
      opened(v, s, node) ==
        answer(FirstOf(PathChecks(v) \o StatChecks(s) \o Check(node.t = "dir", "InvalidArgument")), node)
      stat(v, s) == opened(v, s, At(f, s.path))
      read(v) == stat(v, Walk(f, v.path))
  IN read(ValidatePath(f, home, req))

\* The checks with which listFiles, glob and grep begin.
DirChecks(f, v) ==
  LET checks(s) == PathChecks(v) \o StatChecks(s) \o Check(At(f, s.path).t # "dir", "InvalidArgument")
  IN checks(Walk(f, v.path))

Entries(f, dir) == {q \in Places : Below(dir, q) /\ f[q].t # "none"}
RelPath(base, q) == SubSeq(q, Len(base) + 1, Len(q))

\* Entries are named relative to the resolved home directory; links are not entered.
listFiles(f, home, req, recursive) ==
  LET shown(dir) == {q \in Entries(f, dir) : recursive \/ Len(q) = Len(dir) + 1}
      answer(code, dir, base) ==
        [code |-> code,
         files |-> IF code # "ok" THEN {}
                   ELSE {[path |-> RelPath(base, q), type |-> f[q].t] : q \in shown(dir)}]
      list(v) == answer(FirstOf(DirChecks(f, v)), v.path, Walk(f, home).path)
  IN list(ValidatePath(f, home, req))

\* What doublestar walks: a pattern is "*", "**" or malformed ("[").
GlobMatches(f, dir, pattern) ==
  {q \in Entries(f, dir) : pattern = "**" \/ Len(q) = Len(dir) + 1}

\* Matches are named relative to the directory searched.
glob(f, home, pattern, req) ==
  LET answer(code, dir) ==
        [code |-> code,
         matches |-> IF code # "ok" THEN {}
                     ELSE {RelPath(dir, q) : q \in GlobMatches(f, dir, pattern)}]
      search(v) == answer(FirstOf(DirChecks(f, v) \o Check(pattern = "[", "InvalidArgument")), v.path)
  IN search(ValidatePath(f, home, req))

-----------------------------------------------------------------------------
(* Writing *)

\* os.MkdirAll, which creates nothing here when it fails: a link that leads to nothing
\* is in its way.
Dangling(f, p) == Lstat(f, p).err = "none" /\ Walk(f, p).err = "notexist"
MkdirAll(f, p) ==
  LET new(s) == {s.path \o SubSeq(s.rest, 1, k) : k \in 0..Len(s.rest)}
      make(s, stuck) ==
        CASE s.err = "none" /\ At(f, s.path).t = "dir" -> [err |-> "none", fs |-> f]
          [] s.err = "notexist" /\ new(s) \subseteq Places /\ ~stuck ->
               [err |-> "none", fs |-> [q \in Places |-> IF q \in new(s) THEN Dir ELSE f[q]]]
          [] OTHER -> [err |-> "notdir", fs |-> f]
  IN make(Walk(f, p), \E k \in 0..Len(p) : Dangling(f, SubSeq(p, 1, k)))

\* Where open(2) with O_CREATE puts the file: also behind a link to nothing.
CreateAt(f, p) ==
  LET create(s) ==
        IF s.err = "notexist" /\ s.rest = <<>> /\ s.path \in Places /\ At(f, Front(s.path)).t = "dir"
        THEN [err |-> "none", path |-> s.path] ELSE s
  IN create(Walk(f, p))

\* The mode is set also for a file that existed: without one it becomes 0644.
ModeAfter(node, mode) == IF mode = "unset" THEN "rw" ELSE mode

\* The whole handler: the directories stay when the write fails.  "full" is a
\* device without room: the file is truncated and stays empty, with its old mode.
writeFile(f, home, req, data, mode, full) ==
  LET new(node) ==
        IF full THEN File(<<>>, IF node.t = "file" THEN node.mode ELSE ModeAfter(node, mode))
        ELSE File(data, ModeAfter(node, mode))
      failure(dirs, w, node) ==
        FirstOf(Check(dirs.err # "none" \/ w.err # "none" \/ node.t = "dir", "Internal")
                \o Check(ReadOnly(node), "PermissionDenied"))
      put(dirs, w, node, code) ==
        IF code # "ok" THEN [code |-> code, fs |-> dirs.fs]
        ELSE [code |-> IF full THEN "Internal" ELSE "ok", fs |-> [dirs.fs EXCEPT ![w.path] = new(node)]]
      open(dirs, w, node) == put(dirs, w, node, failure(dirs, w, node))
      create(dirs, w) == open(dirs, w, At(dirs.fs, w.path))
      inside(v, dirs) == create(dirs, CreateAt(dirs.fs, v.path))
      write(v, rejected) ==
        IF rejected # "ok" THEN [code |-> rejected, fs |-> f]
        ELSE inside(v, MkdirAll(f, Front(v.path)))
      validated(v) == write(v, FirstOf(Check(EmptyPath(req), "InvalidArgument") \o PathChecks(v)))
  IN validated(ValidatePath(f, home, req))

\* Mutant: only the object itself goes, what is below it stays.
RemoveNode(f, p) == [f EXCEPT ![p] = None]

RemoveAll(f, p) == [q \in Places |-> IF IsPrefix(p, q) THEN None ELSE f[q]]

\* The path is resolved first, so a link's target is deleted and not the link,
\* and compared with the home directory as it was configured.
deleteFile(f, home, req, recursive) ==
  LET refusal(v, l) ==
        FirstOf(Check(EmptyPath(req), "InvalidArgument") \o PathChecks(v) \o
                Check(v.path = home, "InvalidArgument") \o StatChecks(l) \o
                Check(~recursive /\ Entries(f, l.path) # {}, "FailedPrecondition"))
      answer(code, l) == [code |-> code, fs |-> IF code = "ok" THEN RemoveAll(f, l.path) ELSE f]
      stat(v, l) == answer(refusal(v, l), l)
      delete(v) == stat(v, Lstat(f, v.path))
  IN delete(ValidatePath(f, home, req))
=============================================================================
