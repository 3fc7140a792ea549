----------------------------- MODULE WatchFiles -----------------------------
(***************************************************************************)
(* One call of watchFiles (worker/watch.go): the walk that collects the    *)
(* directories, the watcher.Add calls, and the event loop, while other     *)
(* programs change the tree.  A path is a model value with a fixed parent  *)
(* and kind; which paths the patterns match is a constant.                 *)
(*                                                                         *)
(* fsnotify is external: a watched directory delivers an event for every   *)
(* change of its entries, in order, through a bounded queue.               *)
(***************************************************************************)
EXTENDS Naturals, Sequences

CONSTANTS
  Home,        \* the resolved home directory
  Dirs,        \* directories that may exist, Home among them
  Files,       \* files that may exist
  Parent(_),   \* the directory a path is in
  Matching,    \* the paths that some pattern matches
  InitialTree, \* what exists when the call is made
  QueueCap,    \* events the watcher holds (16384 in Linux)
  MaxChanges,  \* bound: changes of the tree
  Faults       \* adverse behaviour of the environment a run admits

\* "startError": bad patterns or no watcher; "addError": watcher.Add fails on
\* a directory that exists; "sendError": the stream breaks; "cancel": the
\* client leaves.
AllFaults == {"startError", "addError", "sendError", "cancel"}
Paths == Dirs \cup Files

ASSUME TreeAssumption ==
  /\ Home \in Dirs /\ Dirs \cap Files = {}
  /\ \A x \in Paths \ {Home} : Parent(x) \in Dirs
  /\ InitialTree \subseteq Paths /\ Home \in InitialTree
  /\ \A x \in InitialTree \ {Home} : Parent(x) \in InitialTree
ASSUME WatchBoundsAssumption ==
  /\ QueueCap \in Nat \ {0} /\ MaxChanges \in Nat
  /\ Matching \subseteq Paths /\ Faults \subseteq AllFaults

VARIABLES
  pc,        \* "idle", "walk", "add", "loop", "returned", "rejected"
  toVisit,   \* directories the walk has found and not read
  toWatch,   \* dirsToWatch, less those watcher.Add was called for
  watched,   \* the watcher's directories
  queue,     \* events not yet received by the loop
  sent,      \* history: what the client was sent
  exists,    \* the paths that exist
  changes,   \* number of changes made
  reportable,\* history: changes of matching paths in watched directories
  owed,      \* history: directories the walk read, or that were created in a
             \* watched directory, and for which watcher.Add has not failed
  lost       \* history: an event was lost because the queue was full

callVars == <<pc, toVisit, toWatch, sent>>
vars == <<callVars, watched, queue, exists, changes, reportable, owed, lost>>

Ops == {"create", "write", "remove", "rename", "chmod"}
Events == [path : Paths, op : Ops]
Reports == [path : Paths, type : {"created", "modified", "deleted"}]
Over == {"returned", "rejected"}
Entries(d) == {x \in exists \ {Home} : Parent(x) = d}

Init ==
  /\ pc = "idle" /\ toVisit = {} /\ toWatch = {} /\ watched = {}
  /\ queue = <<>> /\ sent = <<>>
  /\ exists = InitialTree /\ changes = 0
  /\ reportable = <<>> /\ owed = {} /\ lost = FALSE

\* Mutant: a rename is not reported.
RenameIgnored(op) ==
  CASE op = "create" -> "created" [] op = "write" -> "modified"
    [] op = "remove" -> "deleted" [] OTHER -> ""

mapFsnotifyEvent(op) ==
  CASE op = "create" -> "created" [] op = "write" -> "modified"
    [] op \in {"remove", "rename"} -> "deleted" [] OTHER -> ""

-----------------------------------------------------------------------------
(* Changes of the tree, and the events they cause *)

\* What a client should be told of an event.
ReportOf(e) ==
  IF e.path \in Matching /\ e.op # "chmod"
  THEN << [path |-> e.path, type |-> IF e.op = "create" THEN "created"
                                     ELSE IF e.op = "write" THEN "modified" ELSE "deleted"] >>
  ELSE <<>>

\* The reports that a sequence of events should lead to.
Pending[es \in Seq(Events)] ==
  IF es = <<>> THEN <<>> ELSE ReportOf(Head(es)) \o Pending[Tail(es)]

HasRoom(k) == Len(queue) + k <= QueueCap

\* The tree changes; if a watch sees it, the events es are queued if there is
\* room for them.
Deliver(seen, es) ==
  /\ changes < MaxChanges
  /\ changes' = changes + 1
  /\ queue' = IF seen /\ HasRoom(Len(es)) THEN queue \o es ELSE queue
  /\ lost' = (lost \/ (seen /\ ~HasRoom(Len(es))))
  /\ reportable' = IF seen THEN reportable \o Pending[es] ELSE reportable
  /\ UNCHANGED callVars

Create(x) ==
  /\ x \notin exists /\ Parent(x) \in exists
  /\ exists' = exists \cup {x}
  /\ owed' = IF x \in Dirs /\ Parent(x) \in watched THEN owed \cup {x} ELSE owed
  /\ Deliver(Parent(x) \in watched, <<[path |-> x, op |-> "create"]>>)
  /\ UNCHANGED watched

Touch(f, op) ==
  /\ f \in exists
  /\ Deliver(Parent(f) \in watched, <<[path |-> f, op |-> op]>>)
  /\ UNCHANGED <<exists, owed, watched>>

\* A file or an empty directory is removed.  A directory's watch goes with it,
\* and reports the removal if that of the parent does not.
Remove(x) ==
  /\ x \in exists /\ Entries(x) = {}
  /\ exists' = exists \ {x}
  /\ owed' = owed \ {x}
  /\ watched' = watched \ {x}
  /\ Deliver({x, Parent(x)} \cap watched # {}, <<[path |-> x, op |-> "remove"]>>)

\* A file is renamed within its directory.
Rename(f, g) ==
  /\ f \in exists /\ g \notin exists /\ Parent(f) = Parent(g)
  /\ exists' = (exists \ {f}) \cup {g}
  /\ Deliver(Parent(f) \in watched,
             <<[path |-> f, op |-> "rename"], [path |-> g, op |-> "create"]>>)
  /\ UNCHANGED <<owed, watched>>

Change ==
  \/ \E x \in Paths \ {Home} : Create(x) \/ Remove(x)
  \/ \E f \in Files : Touch(f, "write") \/ Touch(f, "chmod")
  \/ \E f, g \in Files : Rename(f, g)

-----------------------------------------------------------------------------
(* The call *)

envVars == <<exists, changes, reportable>>

Reject ==
  /\ "startError" \in Faults
  /\ pc = "idle"
  /\ pc' = "rejected"
  /\ UNCHANGED <<toVisit, toWatch, sent, watched, queue, envVars, owed, lost>>

\* The call returns; the deferred watcher.Close drops watches and events.
Return ==
  /\ pc' = "returned" /\ watched' = {} /\ queue' = <<>>
  /\ UNCHANGED <<toVisit, toWatch, sent, envVars, owed, lost>>

\* The watcher is made and the home directory is the first to be watched.
Begin ==
  /\ pc = "idle"
  /\ pc' = "walk" /\ toVisit' = {Home} /\ toWatch' = {Home}
  /\ UNCHANGED <<sent, watched, queue, envVars, owed, lost>>

\* Mutant: only directories that hold a matching file are watched.
WithMatch(d) == IF Entries(d) \cap Matching # {} THEN {d} ELSE {}

\* What the walk adds to dirsToWatch for directory d; the parents of matching
\* files are among the directories it visits.
Collect(d) == {d}

\* WalkDir calls its function for d and reads d, if it is still there.
Visit(d) ==
  /\ pc = "walk" /\ d \in toVisit
  /\ toWatch' = toWatch \cup Collect(d)
  /\ toVisit' = (toVisit \ {d}) \cup (IF d \in exists THEN Entries(d) \cap Dirs ELSE {})
  /\ owed' = owed \cup ({d} \cap exists)
  /\ UNCHANGED <<pc, sent, watched, queue, envVars, lost>>

EndWalk ==
  /\ pc = "walk" /\ toVisit = {}
  /\ pc' = "add"
  /\ UNCHANGED <<toVisit, toWatch, sent, watched, queue, envVars, owed, lost>>

\* watcher.Add(d): an error is logged and ignored.
Add(d) ==
  \/ d \in exists /\ watched' = watched \cup {d} /\ UNCHANGED owed
  \/ d \notin exists /\ UNCHANGED <<watched, owed>>
  \/ "addError" \in Faults /\ owed' = owed \ {d} /\ UNCHANGED watched

AddNext(d) ==
  /\ pc = "add" /\ d \in toWatch
  /\ toWatch' = toWatch \ {d}
  /\ Add(d)
  /\ UNCHANGED <<pc, toVisit, sent, queue, envVars, lost>>

EndAdd ==
  /\ pc = "add" /\ toWatch = {}
  /\ pc' = "loop"
  /\ UNCHANGED <<toVisit, toWatch, sent, watched, queue, envVars, owed, lost>>

\* Mutant: a directory that is created is not watched.
NeverAdded(e) == FALSE

\* A new directory: created, and os.Stat still finds it.
NewDirectory(e) == e.op = "create" /\ e.path \in Dirs /\ e.path \in exists

\* An event that matches nothing is dropped, after a new directory was added.
Unmatched ==
  /\ pc = "loop" /\ queue # <<>> /\ Head(queue).path \notin Matching
  /\ queue' = Tail(queue)
  /\ IF NewDirectory(Head(queue)) THEN Add(Head(queue).path) ELSE UNCHANGED <<watched, owed>>
  /\ UNCHANGED <<callVars, envVars, lost>>

\* An event of a matching path is sent, unless its kind is not reported; when
\* that fails the call returns.
Matched ==
  LET e == Head(queue)
      type == mapFsnotifyEvent(e.op) IN
  /\ pc = "loop" /\ queue # <<>> /\ e.path \in Matching
  /\ \/ /\ queue' = Tail(queue)
        /\ sent' = IF type = "" THEN sent ELSE Append(sent, [path |-> e.path, type |-> type])
        /\ UNCHANGED <<pc, toVisit, toWatch, watched, envVars, owed, lost>>
     \/ "sendError" \in Faults /\ type # "" /\ Return

Cancel == "cancel" \in Faults /\ pc = "loop" /\ Return

Setup == (\E d \in Dirs : Visit(d) \/ AddNext(d)) \/ EndWalk \/ EndAdd
Loop == Unmatched \/ Matched

Waiting == pc \in Over \cup {"loop"} /\ UNCHANGED vars

Next == Change \/ Reject \/ Begin \/ Setup \/ Loop \/ Cancel \/ Waiting

Spec == Init /\ [][Next]_vars

\* The goroutine of the call runs when it is not blocked; nobody has to change
\* the tree or to cancel.
FairSpec == Spec /\ WF_vars(Setup) /\ WF_vars(Loop)
-----------------------------------------------------------------------------
(* Properties *)

\* Every variable has a value of its kind; the queue is bounded.
TypeOK ==
  /\ pc \in {"idle", "walk", "add", "loop"} \cup Over
  /\ toVisit \subseteq Dirs /\ toWatch \subseteq Dirs /\ watched \subseteq Dirs
  /\ queue \in Seq(Events) /\ Len(queue) <= QueueCap
  /\ sent \in Seq(Reports) /\ reportable \in Seq(Reports)
  /\ exists \subseteq Paths /\ Home \in exists
  /\ changes \in 0..MaxChanges
  /\ owed \subseteq exists \cap Dirs
  /\ lost \in BOOLEAN

\* What the client was sent, followed by what is under way, is exactly the
\* sequence of changes of matching paths in directories that were watched when
\* they happened, from the first watcher.Add on, as long as no event was lost.
ReportsFaithful ==
  /\ TypeOK
  /\ pc \notin Over /\ ~lost => sent \o Pending[queue] = reportable

\* "Always add directories to watch for detecting new files", "If a new
\* directory was created, add it to the watcher": a directory that the walk
\* read, or that was created in a watched directory, is watched or still on
\* its way to be, whatever is removed and created again meanwhile.
NoDirForgotten ==
  pc \notin Over /\ ~lost =>
    \A d \in owed : \/ d \in watched \cup toWatch
                    \/ \E n \in DOMAIN queue : queue[n] = [path |-> d, op |-> "create"]

\* The inductive invariant behind NoDirForgotten.
DirInv ==
  /\ queue \in Seq(Events)
  /\ owed \subseteq exists \cap Dirs
  /\ pc = "idle" => owed = {} /\ watched = {}
  /\ NoDirForgotten

\* Such a directory is watched in the end, unless it goes or the call ends.
EventuallyWatched ==
  \A d \in Dirs : (d \in owed) ~> (d \in watched \/ d \notin owed \/ pc \in Over \/ lost)

\* Once the tree is left alone the client has been told of every change.
EventuallyAllReported ==
  <>[](pc \in Over \/ lost \/ sent = reportable)

\* The call catches up with the tree: with its new directories and with its changes.
EventuallyCaughtUp == EventuallyWatched /\ EventuallyAllReported
=============================================================================
