--------------------------- MODULE ProcessManager ---------------------------
(***************************************************************************)
(* The background-process manager of worker/process.go: Start, the two     *)
(* pipe readers and the waiter goroutine of every process, Stop, StopAll,  *)
(* List, Logs and Tail, together with the part of the operating system     *)
(* they depend on (process groups, pipes, zombies, pid allocation).        *)
(*                                                                         *)
(* Everything the code does while it holds ProcessManager.mu is one        *)
(* action; nothing in those sections blocks.  Everything outside the lock  *)
(* (signals, channel receives, pipe reads, cmd.Wait) is an action of its   *)
(* own.  A line of output is its index in its stream: line n of stream s   *)
(* is the n-th line that the process wrote to s, so a pipe, a log file and *)
(* a process's output are counters.                                        *)
(***************************************************************************)
EXTENDS Integers, Sequences, FiniteSets

CONSTANTS
  Procs,      \* calls of Start, each of which may create one process
  Pids,       \* the process ids the kernel hands out
  Tails,      \* calls of Tail
  Clients,    \* calls of Stop made by RPC clients
  ExitCodes,  \* codes with which a process exits by itself
  MaxLines,   \* bound: lines of output per process
  PipeCap,    \* lines a pipe holds before a write blocks
  ChanCap,    \* capacity of a subscriber channel (256 in the code)
  ChildKinds, \* background descendants the commands may leave behind
  Faults,     \* adverse behaviour of the environment a run admits
  NoProc, NoPid, NoCode, NoEvent

Streams == {"stdout", "stderr"}

\* A descendant that outlives the leader: it holds the pipes and stays in the
\* process group, or it redirected its output and stays in the group, or it
\* holds the pipes and left the group (setsid).
AllChildKinds == {"pipe", "silent", "escaped"}

\* "startError": Start is called with bad arguments or cannot launch bash;
\* "logCreate": os.Create of a log file fails; "overlongLine": a line longer
\* than the scanner's buffer; "killDenied": kill(2) fails with something else
\* than ESRCH; "sendError": the Tail client's stream breaks; "cancel": the
\* Tail client goes away; "pidReuse": the kernel hands out a freed pid again;
\* "shutdown": the service is closed, which calls StopAll.
AllFaults == {"startError", "logCreate", "overlongLine", "killDenied",
              "sendError", "cancel", "pidReuse", "shutdown"}

Signaled == -1  \* ExitError.ExitCode() of a process that a signal ended

ASSUME ProcsAssumption == NoProc \notin Procs
ASSUME PidsAssumption == NoPid \notin Pids /\ Pids \cap Clients = {}
ASSUME CodesAssumption == /\ ExitCodes \subseteq Nat
                          /\ NoCode \notin ExitCodes \cup {Signaled}
ASSUME BoundsAssumption == /\ MaxLines \in Nat
                           /\ PipeCap \in Nat \ {0}
                           /\ ChanCap \in Nat \ {0}
ASSUME EnvironmentAssumption == /\ ChildKinds \subseteq AllChildKinds
                                /\ Faults \subseteq AllFaults
ASSUME EventAssumption == NoEvent \notin [stream : Streams, line : 0..MaxLines]

VARIABLES
  \* ProcessManager and trackedProcess, protected by mu
  processes,    \* [Pids -> Procs \cup {NoProc}]  the map
  status,       \* "none" | "running" | "exited"
  exitCode,     \* the exit code published, NoCode while nil
  subscribers,  \* the Tail calls whose channel is in proc.subscribers
  \* the goroutines of a process
  start,        \* progress of the Start call
  reader,       \* reader[p][s]: the pipeReader goroutine of stream s
  waiter,       \* the waitForExit goroutine
  done,         \* proc.done is closed
  logged,       \* lines of stream s read and written to its log file
  logOwner,     \* logOwner[q][s]: whose output the file <q>.<s> holds
  \* the operating system
  pid,          \* pid of the process
  leader,       \* "none" | "alive" | "zombie" | "reaped": the bash process
  osCode,       \* the code the kernel keeps for the dead leader
  child,        \* "none" or the kind of the surviving descendant
  sig,          \* strongest signal delivered to the group
  written,      \* lines written into the pipe of stream s
  \* Tail calls
  tail,         \* progress of the call
  tailProc,     \* the process it follows
  channel,      \* the buffered events of its channel
  closed,       \* the channel is closed
  held,         \* the event received and not yet sent to the client
  sent,         \* history: what the client was sent
  since,        \* history: lines fanned out before the subscription
  dropped,      \* history: an event was dropped because the channel was full
  \* Stop calls (of clients, and one per pid made by StopAll) and StopAll
  stop, stopProc, stopAll,
  snapshot,     \* history: the processes StopAll saw running
  present       \* history: the commands that ran when StopAll was called

mgrVars  == <<processes, status, exitCode, subscribers>>
runVars  == <<start, reader, waiter, done, logged, logOwner>>
osVars   == <<pid, leader, osCode, child, sig, written>>
tailVars == <<tail, tailProc, channel, closed, held, sent, since, dropped>>
stopVars == <<stop, stopProc, stopAll, snapshot, present>>
vars == <<mgrVars, runVars, osVars, tailVars, stopVars>>

Stops == Clients \cup Pids
StopPending  == {"check", "term", "wait", "kill", "final"}
StopReturned == {"notFound", "exited", "error", "ok"}
Codes == ExitCodes \cup {Signaled}
Lines == 0..MaxLines
LineEvents == [stream : Streams, line : Lines]
ExitEvents == [exit : Codes]
ReaderEnded == {"eof", "failed"}

Init ==
  /\ processes = [q \in Pids |-> NoProc]
  /\ status = [p \in Procs |-> "none"]
  /\ exitCode = [p \in Procs |-> NoCode]
  /\ subscribers = [p \in Procs |-> {}]
  /\ start = [p \in Procs |-> "idle"]
  /\ reader = [p \in Procs |-> [s \in Streams |-> "off"]]
  /\ waiter = [p \in Procs |-> "off"]
  /\ done = [p \in Procs |-> FALSE]
  /\ logged = [p \in Procs |-> [s \in Streams |-> 0]]
  /\ logOwner = [q \in Pids |-> [s \in Streams |-> NoProc]]
  /\ pid = [p \in Procs |-> NoPid]
  /\ leader = [p \in Procs |-> "none"]
  /\ osCode = [p \in Procs |-> NoCode]
  /\ child = [p \in Procs |-> "none"]
  /\ sig = [p \in Procs |-> "none"]
  /\ written = [p \in Procs |-> [s \in Streams |-> 0]]
  /\ tail = [t \in Tails |-> "idle"]
  /\ tailProc = [t \in Tails |-> NoProc]
  /\ channel = [t \in Tails |-> <<>>]
  /\ closed = [t \in Tails |-> FALSE]
  /\ held = [t \in Tails |-> NoEvent]
  /\ sent = [t \in Tails |-> <<>>]
  /\ since = [t \in Tails |-> [s \in Streams |-> 0]]
  /\ dropped = [t \in Tails |-> FALSE]
  /\ stop = [i \in Stops |-> "idle"]
  /\ stopProc = [i \in Stops |-> NoProc]
  /\ stopAll = "idle"
  /\ snapshot = {}
  /\ present = {}

-----------------------------------------------------------------------------
(* The operating system *)

\* Some process still has the write ends of p's pipes open.
PipeOpen(p) == leader[p] = "alive" \/ child[p] \in {"pipe", "escaped"}

\* Some process of p's group can still receive a signal.
GroupAlive(p) == leader[p] = "alive" \/ child[p] \in {"pipe", "silent"}

\* The kernel reuses a pid only when no process and no process group has it.
PidFree(q) ==
  \A p \in Procs : pid[p] = q =>
    /\ "pidReuse" \in Faults
    /\ leader[p] = "reaped"
    /\ ~GroupAlive(p)

\* The processes whose group kill(-q, ...) reaches; if there is none the call
\* fails with ESRCH and changes nothing.
Group(q) == {p \in Procs : pid[p] = q /\ GroupAlive(p)}

Signal(ps, k) ==
  sig' = [p \in Procs |-> IF p \in ps /\ sig[p] # "kill" THEN k ELSE sig[p]]

\* The command or its descendant writes a line.  A full pipe blocks the write,
\* and after cmd.Wait has closed the read ends it fails.
Write(p, s) ==
  /\ \/ leader[p] = "alive" /\ sig[p] # "kill"
     \/ child[p] = "pipe" /\ sig[p] # "kill"
     \/ child[p] = "escaped"
  /\ leader[p] # "reaped"
  /\ written[p][s] - logged[p][s] < PipeCap
  /\ written[p]["stdout"] + written[p]["stderr"] < MaxLines
  /\ written' = [written EXCEPT ![p][s] = @ + 1]
  /\ UNCHANGED <<mgrVars, runVars, pid, leader, osCode, child, sig, tailVars, stopVars>>

\* The command leaves a descendant of kind k behind.
Fork(p, k) ==
  /\ leader[p] = "alive" /\ sig[p] # "kill" /\ child[p] = "none"
  /\ child' = [child EXCEPT ![p] = k]
  /\ UNCHANGED <<mgrVars, runVars, pid, leader, osCode, sig, written, tailVars, stopVars>>

\* The leader ends: by itself with code c, or by a signal.
LeaderExit(p, c) ==
  /\ leader[p] = "alive"
  /\ \/ c \in ExitCodes /\ sig[p] # "kill"
     \/ c = Signaled /\ sig[p] # "none"
  /\ leader' = [leader EXCEPT ![p] = "zombie"]
  /\ osCode' = [osCode EXCEPT ![p] = c]
  /\ UNCHANGED <<mgrVars, runVars, pid, child, sig, written, tailVars, stopVars>>

ChildExit(p) ==
  /\ child[p] # "none"
  /\ child' = [child EXCEPT ![p] = "none"]
  /\ UNCHANGED <<mgrVars, runVars, pid, leader, osCode, sig, written, tailVars, stopVars>>

\* SIGKILL takes effect on the members of the group.
LeaderKilled(p) == sig[p] = "kill" /\ LeaderExit(p, Signaled)
ChildKilled(p) == sig[p] = "kill" /\ child[p] # "escaped" /\ ChildExit(p)

-----------------------------------------------------------------------------
(* Start *)

\* No command, a bad working directory, or bash that cannot be launched: Start
\* returns an error and leaves nothing behind.
StartRejected(p) ==
  /\ "startError" \in Faults
  /\ start[p] = "idle"
  /\ start' = [start EXCEPT ![p] = "rejected"]
  /\ UNCHANGED <<mgrVars, reader, waiter, done, logged, logOwner, osVars, tailVars, stopVars>>

\* cmd.Start: the group leader runs, with pid q, before anybody knows of it.
Spawn(p, q) ==
  /\ start[p] = "idle" /\ PidFree(q)
  /\ start' = [start EXCEPT ![p] = "spawned"]
  /\ pid' = [pid EXCEPT ![p] = q]
  /\ leader' = [leader EXCEPT ![p] = "alive"]
  /\ UNCHANGED <<mgrVars, reader, waiter, done, logged, logOwner,
                 osCode, child, sig, written, tailVars, stopVars>>

\* os.Create of <pid>.stdout and then of <pid>.stderr, which truncates a file
\* that an earlier process with this pid left.
CreateLog(p, s) ==
  /\ start[p] = IF s = "stdout" THEN "spawned" ELSE "stdoutLog"
  /\ start' = [start EXCEPT ![p] = IF s = "stdout" THEN "stdoutLog" ELSE "logged"]
  /\ logOwner' = [logOwner EXCEPT ![pid[p]][s] = p]
  /\ UNCHANGED <<mgrVars, reader, waiter, done, logged, osVars, tailVars, stopVars>>

\* A log file cannot be created: the group is killed, nobody calls cmd.Wait.
CreateLogFails(p) ==
  /\ "logCreate" \in Faults
  /\ start[p] \in {"spawned", "stdoutLog"}
  /\ start' = [start EXCEPT ![p] = "failed"]
  /\ Signal(Group(pid[p]), "kill")
  /\ UNCHANGED <<mgrVars, reader, waiter, done, logged, logOwner,
                 pid, leader, osCode, child, written, tailVars, stopVars>>

\* Mutant: an entry that is already in the map is kept.
EntryKept(q, p) == IF processes[q] = NoProc THEN p ELSE processes[q]

\* What the map holds under pid q after p was stored there.
Entry(q, p) == p

\* The process enters the map and its three goroutines start.
Register(p) ==
  /\ start[p] = "logged"
  /\ start' = [start EXCEPT ![p] = "returned"]
  /\ processes' = [processes EXCEPT ![pid[p]] = Entry(pid[p], p)]
  /\ status' = [status EXCEPT ![p] = "running"]
  /\ reader' = [reader EXCEPT ![p] = [s \in Streams |-> "scan"]]
  /\ waiter' = [waiter EXCEPT ![p] = "pipes"]
  /\ UNCHANGED <<exitCode, subscribers, done, logged, logOwner, osVars, tailVars, stopVars>>

-----------------------------------------------------------------------------
(* pipeReader *)

\* A line is read and written to the log file.
Scan(p, s) ==
  /\ reader[p][s] = "scan" /\ logged[p][s] < written[p][s]
  /\ logged' = [logged EXCEPT ![p][s] = @ + 1]
  /\ reader' = [reader EXCEPT ![p][s] = "fanout"]
  /\ UNCHANGED <<mgrVars, start, waiter, done, logOwner, osVars, tailVars, stopVars>>

HasRoom(t) == Len(channel[t]) < ChanCap

\* Under mu: the line goes to every subscriber whose channel has room.
FanOut(p, s) ==
  /\ reader[p][s] = "fanout"
  /\ reader' = [reader EXCEPT ![p][s] = "scan"]
  /\ channel' = [t \in Tails |->
       IF t \in subscribers[p] /\ HasRoom(t)
       THEN Append(channel[t], [stream |-> s, line |-> logged[p][s]])
       ELSE channel[t]]
  /\ dropped' = [t \in Tails |->
       dropped[t] \/ (t \in subscribers[p] /\ ~HasRoom(t))]
  /\ UNCHANGED <<mgrVars, start, waiter, done, logged, logOwner, osVars,
                 tail, tailProc, closed, held, sent, since, stopVars>>

\* Mutant: the reader stops when the writers are gone, whatever is in the pipe.
AtEOFEarly(p, s) == ~PipeOpen(p)

AtEOF(p, s) == logged[p][s] = written[p][s] /\ ~PipeOpen(p)

ReaderEOF(p, s) ==
  /\ reader[p][s] = "scan" /\ AtEOF(p, s)
  /\ reader' = [reader EXCEPT ![p][s] = "eof"]
  /\ UNCHANGED <<mgrVars, start, waiter, done, logged, logOwner, osVars, tailVars, stopVars>>

\* scanner.Err(): the reader gives up and nobody empties the pipe any more.
ReaderFails(p, s) ==
  /\ "overlongLine" \in Faults
  /\ reader[p][s] = "scan" /\ logged[p][s] < written[p][s]
  /\ reader' = [reader EXCEPT ![p][s] = "failed"]
  /\ UNCHANGED <<mgrVars, start, waiter, done, logged, logOwner, osVars, tailVars, stopVars>>

-----------------------------------------------------------------------------
(* waitForExit *)

\* Mutants: no wait at all; wg.Done not reached on an error.
NoWaitForReaders(p) == TRUE
ReadersAtEOF(p) == \A s \in Streams : reader[p][s] = "eof"

\* The counter of pipeWg is zero.
ReadersEnded(p) == \A s \in Streams : reader[p][s] \in ReaderEnded

WaitPipes(p) ==
  /\ waiter[p] = "pipes" /\ ReadersEnded(p)
  /\ waiter' = [waiter EXCEPT ![p] = "reap"]
  /\ UNCHANGED <<mgrVars, start, reader, done, logged, logOwner, osVars, tailVars, stopVars>>

Reaped(p) == "reaped"

\* cmd.Wait(): the zombie is reaped, its pid may be used again.
Reap(p) ==
  /\ waiter[p] = "reap" /\ leader[p] = "zombie"
  /\ waiter' = [waiter EXCEPT ![p] = "publish"]
  /\ leader' = [leader EXCEPT ![p] = Reaped(p)]
  /\ UNCHANGED <<mgrVars, start, reader, done, logged, logOwner,
                 pid, osCode, child, sig, written, tailVars, stopVars>>

\* Mutants: the exit code is not stored; the channels are not closed;
\* proc.subscribers is not reset.
CodeNotStored(p) == exitCode[p]
NoneToClose(p) == {}
SubscribersKept(p) == subscribers[p]

\* The exit code taken from cmd.Wait's error (one that is not the exit status, which is
\* logged and counts as code 1, is left out), the channels to close, and what is left of
\* proc.subscribers afterwards.
WaitCode(p) == osCode[p]
ToClose(p) == subscribers[p]
SubscribersLeft(p) == {}

\* Under mu: status and exit code are set, every subscriber channel is closed.
Publish(p) ==
  /\ waiter[p] = "publish"
  /\ waiter' = [waiter EXCEPT ![p] = "closeDone"]
  /\ status' = [status EXCEPT ![p] = "exited"]
  /\ exitCode' = [exitCode EXCEPT ![p] = WaitCode(p)]
  /\ closed' = [t \in Tails |-> closed[t] \/ t \in ToClose(p)]
  /\ subscribers' = [subscribers EXCEPT ![p] = SubscribersLeft(p)]
  /\ UNCHANGED <<processes, start, reader, done, logged, logOwner, osVars,
                 tail, tailProc, channel, held, sent, since, dropped, stopVars>>

DoneClosed(p) == TRUE

CloseDone(p) ==
  /\ waiter[p] = "closeDone"
  /\ waiter' = [waiter EXCEPT ![p] = "over"]
  /\ done' = [done EXCEPT ![p] = DoneClosed(p)]
  /\ UNCHANGED <<mgrVars, start, reader, logged, logOwner, osVars, tailVars, stopVars>>

-----------------------------------------------------------------------------
(* List and Logs read the state and change nothing *)

\* The processes List reports.  (What it leaves out, the server's own pid, is never in
\* the map: no child has the pid of the process that started it.)
List(includeExited) ==
  {p \in {processes[q] : q \in Pids} \ {NoProc} :
     includeExited \/ status[p] = "running"}

\* The output that Logs(q) finds on disk: for each stream, whose lines and how many.
Logs(q) ==
  [s \in Streams |->
     IF logOwner[q][s] = NoProc THEN <<NoProc, 0>>
     ELSE <<logOwner[q][s], logged[logOwner[q][s]][s]>>]

-----------------------------------------------------------------------------
(* Tail *)

\* No such process, or it has exited.
TailRejected(t, q) ==
  /\ tail[t] = "idle"
  /\ processes[q] # NoProc => status[processes[q]] = "exited"
  /\ tail' = [tail EXCEPT ![t] = "rejected"]
  /\ UNCHANGED <<mgrVars, runVars, osVars, tailProc, channel, closed, held,
                 sent, since, dropped, stopVars>>

\* Lines of stream s of p that have been fanned out.
Fanned(p, s) == logged[p][s] - (IF reader[p][s] = "fanout" THEN 1 ELSE 0)

\* A new channel is empty.
NewChannel(p) == <<>>

\* In the critical section that saw the process running, the channel is added
\* to its subscribers.
Subscribe(t, q) ==
  LET p == processes[q] IN
  /\ tail[t] = "idle"
  /\ p # NoProc /\ status[p] # "exited"
  /\ tail' = [tail EXCEPT ![t] = "receive"]
  /\ tailProc' = [tailProc EXCEPT ![t] = p]
  /\ subscribers' = [subscribers EXCEPT ![p] = @ \cup {t}]
  /\ since' = [since EXCEPT ![t] = [s \in Streams |-> Fanned(p, s)]]
  /\ channel' = [channel EXCEPT ![t] = NewChannel(p)]
  /\ UNCHANGED <<processes, status, exitCode, runVars, osVars, closed,
                 held, sent, dropped, stopVars>>

\* ctx.Done() is chosen by the select.
TailCancelled(t) ==
  /\ "cancel" \in Faults
  /\ tail[t] = "receive"
  /\ tail' = [tail EXCEPT ![t] = "remove"]
  /\ UNCHANGED <<mgrVars, runVars, osVars, tailProc, channel, closed, held,
                 sent, since, dropped, stopVars>>

Receive(t) ==
  /\ tail[t] = "receive" /\ channel[t] # <<>>
  /\ tail' = [tail EXCEPT ![t] = "send"]
  /\ held' = [held EXCEPT ![t] = Head(channel[t])]
  /\ channel' = [channel EXCEPT ![t] = Tail(channel[t])]
  /\ UNCHANGED <<mgrVars, runVars, osVars, tailProc, closed, sent, since, dropped, stopVars>>

Send(t) ==
  /\ tail[t] = "send"
  /\ \/ /\ tail' = [tail EXCEPT ![t] = "receive"]
        /\ sent' = [sent EXCEPT ![t] = Append(@, held[t])]
     \/ /\ "sendError" \in Faults
        /\ tail' = [tail EXCEPT ![t] = "remove"]
        /\ UNCHANGED sent
  /\ held' = [held EXCEPT ![t] = NoEvent]
  /\ UNCHANGED <<mgrVars, runVars, osVars, tailProc, channel, closed, since, dropped, stopVars>>

\* Mutant: the exit is noticed before the channel is drained.
ClosedSeen(t) == closed[t]

\* A receive finds the channel closed, which it does only when it is empty.
ReceiveFails(t) == closed[t] /\ channel[t] = <<>>

\* The channel is closed and empty: the exit code is read under mu and sent; an
\* error of this last send is ignored.
SendExit(t) ==
  /\ tail[t] = "receive" /\ ReceiveFails(t)
  /\ tail' = [tail EXCEPT ![t] = "remove"]
  /\ LET code == exitCode[tailProc[t]] IN
     \/ sent' = [sent EXCEPT ![t] =
                   Append(@, [exit |-> IF code = NoCode THEN 0 ELSE code])]
     \/ "sendError" \in Faults /\ UNCHANGED sent
  /\ UNCHANGED <<mgrVars, runVars, osVars, tailProc, channel, closed, held,
                 since, dropped, stopVars>>

\* Mutant: every subscriber is removed.
RemoveAll(subs, t) == {}

RemoveOne(subs, t) == subs \ {t}

\* The deferred call: the process is looked up again by its pid.
RemoveSubscriber(t) ==
  LET q == pid[tailProc[t]] IN
  /\ tail[t] = "remove"
  /\ tail' = [tail EXCEPT ![t] = "returned"]
  /\ subscribers' = [subscribers EXCEPT ![processes[q]] = RemoveOne(@, t)]
  /\ UNCHANGED <<processes, status, exitCode, runVars, osVars, tailProc, channel,
                 closed, held, sent, since, dropped, stopVars>>

-----------------------------------------------------------------------------
(* Stop and StopAll *)

\* Stop(q) begins in goroutine i: a client's call, or the one StopAll made for q.
StopBegins(i, q) == \/ i \in Clients /\ stop[i] = "idle"
                    \/ i = q /\ stop[i] = "check"

StopRejected(i, q) ==
  /\ StopBegins(i, q)
  /\ \/ processes[q] = NoProc /\ stop' = [stop EXCEPT ![i] = "notFound"]
     \/ /\ processes[q] # NoProc /\ status[processes[q]] = "exited"
        /\ stop' = [stop EXCEPT ![i] = "exited"]
  /\ UNCHANGED <<mgrVars, runVars, osVars, tailVars, stopProc, stopAll, snapshot, present>>

StopCheck(i, q) ==
  /\ StopBegins(i, q)
  /\ processes[q] # NoProc /\ status[processes[q]] # "exited"
  /\ stop' = [stop EXCEPT ![i] = "term"]
  /\ stopProc' = [stopProc EXCEPT ![i] = processes[q]]
  /\ UNCHANGED <<mgrVars, runVars, osVars, tailVars, stopAll, snapshot, present>>

\* Mutant: kill(-1, ...), which reaches every group.
EveryGroup(i) == {p \in Procs : GroupAlive(p)}

StopGroup(i) == Group(pid[stopProc[i]])

\* kill(-pid, k) of goroutine i, with ESRCH ignored and any other error, which
\* there is only when the group exists, returned.
StopSignals(i, k, next) ==
  /\ \/ /\ Signal(StopGroup(i), k)
        /\ stop' = [stop EXCEPT ![i] = next]
     \/ /\ "killDenied" \in Faults /\ StopGroup(i) # {}
        /\ stop' = [stop EXCEPT ![i] = "error"]
        /\ UNCHANGED sig
  /\ UNCHANGED <<mgrVars, runVars, pid, leader, osCode, child, written, tailVars,
                 stopProc, stopAll, snapshot, present>>

SigTerm(i) == stop[i] = "term" /\ StopSignals(i, "term", "wait")


\* Mutant: SIGTERM is sent again.
TermAgain(i) == "term"

FinalSignal(i) == "kill"
SigKill(i) == stop[i] = "kill" /\ StopSignals(i, FinalSignal(i), "final")

\* Mutant: Stop does not wait after SIGKILL.
SeesDoneOrKilled(i) == stop[i] = "final" \/ done[stopProc[i]]

SeesDone(i) == done[stopProc[i]]

\* <-proc.done, in the select and after SIGKILL
StopDone(i) ==
  /\ stop[i] \in {"wait", "final"} /\ SeesDone(i)
  /\ stop' = [stop EXCEPT ![i] = "ok"]
  /\ UNCHANGED <<mgrVars, runVars, osVars, tailVars, stopProc, stopAll, snapshot, present>>

\* <-time.After(stopGracePeriod); when proc.done is closed as well the select
\* may still choose it.
GraceExpires(i) ==
  /\ stop[i] = "wait"
  /\ stop' = [stop EXCEPT ![i] = "kill"]
  /\ UNCHANGED <<mgrVars, runVars, osVars, tailVars, stopProc, stopAll, snapshot, present>>

\* StopAll collects the running pids under mu and starts one Stop for each.
StopAllBegins ==
  LET pids == {q \in Pids : processes[q] # NoProc /\ status[processes[q]] = "running"} IN
  /\ "shutdown" \in Faults
  /\ stopAll = "idle"
  /\ stopAll' = "waiting"
  /\ stop' = [i \in Stops |-> IF i \in pids THEN "check" ELSE stop[i]]
  /\ snapshot' = {processes[q] : q \in pids}
  /\ present' = {p \in Procs : leader[p] = "alive"}
  /\ UNCHANGED <<mgrVars, runVars, osVars, tailVars, stopProc>>

\* Mutant: StopAll does not wait for its goroutines.
NoWaitForStops == TRUE

\* The counter of StopAll's WaitGroup is zero.
StopsReturned == \A q \in Pids : stop[q] \notin StopPending

StopAllReturns ==
  /\ stopAll = "waiting" /\ StopsReturned
  /\ stopAll' = "returned"
  /\ UNCHANGED <<mgrVars, runVars, osVars, tailVars, stop, stopProc, snapshot, present>>

-----------------------------------------------------------------------------

\* Every call has returned, or was never made, and every process has ended.
Quiescent ==
  /\ \A p \in Procs : start[p] \in {"rejected", "failed"} \/ waiter[p] = "over"
  /\ \A t \in Tails : tail[t] \in {"idle", "rejected", "returned"}
  /\ \A i \in Stops : stop[i] \notin StopPending
  /\ stopAll # "waiting"
Terminated == Quiescent /\ UNCHANGED vars

OSNext(p) ==
  \/ \E s \in Streams : Write(p, s)
  \/ \E k \in ChildKinds : Fork(p, k)
  \/ \E c \in Codes : LeaderExit(p, c)
  \/ ChildExit(p)
StartNext(p) ==
  \/ StartRejected(p)
  \/ \E q \in Pids : Spawn(p, q)
  \/ \E s \in Streams : CreateLog(p, s)
  \/ CreateLogFails(p)
  \/ Register(p)
ReaderNext(p, s) == Scan(p, s) \/ FanOut(p, s) \/ ReaderEOF(p, s) \/ ReaderFails(p, s)
WaiterNext(p) == WaitPipes(p) \/ Reap(p) \/ Publish(p) \/ CloseDone(p)
TailRuns(t) == Receive(t) \/ Send(t) \/ SendExit(t) \/ RemoveSubscriber(t)
TailNext(t) ==
  \/ \E q \in Pids : TailRejected(t, q) \/ Subscribe(t, q)
  \/ TailCancelled(t)
  \/ TailRuns(t)
StopRuns(i) == SigTerm(i) \/ StopDone(i) \/ GraceExpires(i) \/ SigKill(i)
StopNext(i) ==
  \/ \E q \in Pids : StopRejected(i, q) \/ StopCheck(i, q)
  \/ StopRuns(i)

Next ==
  \/ \E p \in Procs : OSNext(p) \/ StartNext(p) \/ WaiterNext(p)
  \/ \E p \in Procs, s \in Streams : ReaderNext(p, s)
  \/ \E t \in Tails : TailNext(t)
  \/ \E i \in Stops : StopNext(i)
  \/ StopAllBegins
  \/ StopAllReturns
  \/ Terminated

Spec == Init /\ [][Next]_vars

\* The Go scheduler runs every goroutine that is not blocked, the grace-period
\* timer fires, the kernel carries out SIGKILL, and a client either takes what
\* it is sent or breaks the stream.  Nothing makes a command exit, a
\* descendant end or a client call.
Fairness ==
  /\ \A p \in Procs :
       /\ WF_vars(\E s \in Streams : CreateLog(p, s)) /\ WF_vars(Register(p))
       /\ \A s \in Streams : WF_vars(ReaderNext(p, s))
       /\ WF_vars(WaiterNext(p))
       /\ WF_vars(LeaderKilled(p)) /\ WF_vars(ChildKilled(p))
  /\ \A t \in Tails : WF_vars(TailRuns(t))
  /\ \A i \in Stops : WF_vars(StopRuns(i))
  /\ \A q \in Pids : WF_vars(StopRejected(q, q) \/ StopCheck(q, q))
  /\ WF_vars(StopAllReturns)

FairSpec == Spec /\ Fairness
=============================================================================
