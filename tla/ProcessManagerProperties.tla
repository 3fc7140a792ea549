---------------------- MODULE ProcessManagerProperties ----------------------
(***************************************************************************)
(* What is checked and proved about ProcessManager: invariants, action     *)
(* properties, liveness, the inductive invariant behind the proofs, and    *)
(* the refinement of ProcessLifecycle.                                     *)
(***************************************************************************)
EXTENDS ProcessManager, EventStreams

-----------------------------------------------------------------------------
(* What is sent to a Tail client *)

\* Everything on its way to the client of t, oldest first.
Stream(t) == sent[t] \o (IF held[t] = NoEvent THEN <<>> ELSE <<held[t]>>) \o channel[t]

\* The client got the exit event.
GotExit(t) == sent[t] # <<>> /\ IsExit(sent[t][Len(sent[t])])

-----------------------------------------------------------------------------
(* Properties *)

\* Every variable has a value of its kind; the bounds of the pipes, of the
\* channels and of the output hold.
TypeOK ==
  /\ processes \in [Pids -> Procs \cup {NoProc}]
  /\ status \in [Procs -> {"none", "running", "exited"}]
  /\ exitCode \in [Procs -> Codes \cup {NoCode}]
  /\ subscribers \in [Procs -> SUBSET Tails]
  /\ start \in [Procs -> {"idle", "rejected", "spawned", "stdoutLog", "logged",
                          "failed", "returned"}]
  /\ reader \in [Procs -> [Streams -> {"off", "scan", "fanout"} \cup ReaderEnded]]
  /\ waiter \in [Procs -> {"off", "pipes", "reap", "publish", "closeDone", "over"}]
  /\ done \in [Procs -> BOOLEAN]
  /\ logged \in [Procs -> [Streams -> Lines]]
  /\ logOwner \in [Pids -> [Streams -> Procs \cup {NoProc}]]
  /\ pid \in [Procs -> Pids \cup {NoPid}]
  /\ leader \in [Procs -> {"none", "alive", "zombie", "reaped"}]
  /\ osCode \in [Procs -> Codes \cup {NoCode}]
  /\ child \in [Procs -> ChildKinds \cup {"none"}]
  /\ sig \in [Procs -> {"none", "term", "kill"}]
  /\ written \in [Procs -> [Streams -> Lines]]
  /\ tail \in [Tails -> {"idle", "rejected", "receive", "send", "remove", "returned"}]
  /\ tailProc \in [Tails -> Procs \cup {NoProc}]
  /\ channel \in [Tails -> Seq(LineEvents)]
  /\ \A t \in Tails : Len(channel[t]) <= ChanCap
  /\ closed \in [Tails -> BOOLEAN]
  /\ held \in [Tails -> LineEvents \cup {NoEvent}]
  /\ sent \in [Tails -> Seq(LineEvents \cup ExitEvents)]
  /\ since \in [Tails -> [Streams -> Lines]]
  /\ dropped \in [Tails -> BOOLEAN]
  /\ stop \in [Stops -> {"idle"} \cup StopPending \cup StopReturned]
  /\ stopProc \in [Stops -> Procs \cup {NoProc}]
  /\ stopAll \in {"idle", "waiting", "returned"}
  /\ snapshot \subseteq Procs
  /\ present \subseteq Procs

\* pipeReader sends on, and waitForExit closes, every channel in
\* proc.subscribers: either panics on a closed channel.  A subscribed channel
\* is open, belongs to one process only, and that process is not yet exited,
\* so that somebody will still close it.
SubscribersOpen ==
  \A p \in Procs : \A t \in subscribers[p] :
    ~closed[t] /\ tailProc[t] = p /\ status[p] = "running"

\* The lines of one stream reach a Tail client in the order the process wrote
\* them and without duplicates, are on disk before they are sent, and begin
\* after those fanned out before the client subscribed, whatever was dropped.
OrderOf(t) ==
  tailProc[t] # NoProc =>
    \A s \in Streams : Ordered(Stream(t), s, since[t][s], Fanned(tailProc[t], s))
TailOrder == \A t \in Tails : OrderOf(t)

\* While a Tail follows its process, and when it ends with the exit event, it
\* has every line fanned out since it subscribed unless its channel was full:
\* a process that exits loses none of its last lines.
CompleteOf(t) ==
  (tail[t] \in {"receive", "send"} \/ GotExit(t)) /\ ~dropped[t] =>
    \A s \in Streams : Complete(IF GotExit(t) THEN sent[t] ELSE Stream(t), s,
                                since[t][s], Fanned(tailProc[t], s))
TailComplete == \A t \in Tails : CompleteOf(t)

\* The exit event of Tail is the last event, comes after every buffered line,
\* when the process is gone and its output is in the log files, and carries
\* the code the process really ended with.
ExitOf(t) ==
  \A n \in DOMAIN sent[t] : IsExit(sent[t][n]) =>
    /\ n = Len(sent[t]) /\ channel[t] = <<>> /\ tail[t] \in {"remove", "returned"}
    /\ leader[tailProc[t]] = "reaped"
    /\ sent[t][n].exit = osCode[tailProc[t]]
ExitEventLast == \A t \in Tails : ExitOf(t)

\* What a Tail client is sent is true: ordered lines, then the one exit event.
TailTruthful == TailOrder /\ ExitEventLast

\* A process that is reported exited has been reaped, has no subscriber left,
\* carries its real exit code, and Logs returns every line it wrote unless a
\* reader gave up on an overlong line (where no pid is used twice).
ExitedMeansDrained ==
  \A p \in Procs : status[p] = "exited" =>
    /\ leader[p] = "reaped" /\ exitCode[p] = osCode[p] /\ subscribers[p] = {}
    /\ \A s \in Streams :
         /\ reader[p][s] \in ReaderEnded
         /\ reader[p][s] = "eof" => Logs(pid[p])[s] = <<p, written[p][s]>>

\* Once a process is published as exited, it keeps its status, its exit code and the
\* number of lines that were logged of it: no reader logs anything late.  (The files go
\* by the pid: a later process with the pid truncates them.)
ExitedIsFinal ==
  [][\A p \in Procs : status[p] = "exited" =>
       /\ status'[p] = "exited" /\ exitCode'[p] = exitCode[p]
       /\ logged'[p] = logged[p] /\ leader'[p] = "reaped"]_vars

\* A process that Start returned is listed as running, and is found by its pid,
\* until it is reaped, even when pids are reused.
UnreapedListed ==
  \A p \in Procs : start[p] = "returned" /\ leader[p] # "reaped" =>
    p \in List(FALSE) /\ processes[pid[p]] = p

\* Stop returns nil only when the process it looked up is gone and exited.
StopMeansGone ==
  \A i \in Stops : stop[i] = "ok" =>
    leader[stopProc[i]] = "reaped" /\ status[stopProc[i]] = "exited"

\* When StopAll returns, every process it saw running has been reaped, unless
\* the kernel refused a signal.
StopAllStopsSnapshot ==
  stopAll = "returned" =>
    \A p \in snapshot : stop[pid[p]] # "error" => leader[p] = "reaped"

\* "StopAll stops all running processes in parallel and waits for completion":
\* no command that ran when it was called runs when it returns.
StopAllStopsEverything ==
  stopAll = "returned" => \A p \in present : leader[p] # "alive"

\* Start signals only the group it just launched, and Stop only the group of
\* the process it looked up, as long as that process is not reaped: a foreign
\* group is hit only when the target was reaped after Stop's check and its pid
\* is already in use again.
SignalReachesTarget ==
  [][\A p \in Procs : sig'[p] # sig[p] =>
       \/ start'[p] = "failed" /\ start[p] # "failed"
       \/ \E i \in Stops :
            /\ stop'[i] # stop[i]
            /\ \/ stopProc[i] = p
               \/ leader[stopProc[i]] = "reaped" /\ pid[stopProc[i]] = pid[p]]_vars

\* Every Stop returns: SIGKILL ends the group, the pipes close, the readers
\* and the waiter finish.
StopTerminates ==
  \A i \in Stops : (stop[i] \in StopPending) ~> (stop[i] \in StopReturned)

\* StopAll, which waits for one Stop of every process it saw, returns.
StopAllTerminates == (stopAll = "waiting") ~> (stopAll = "returned")

\* Whoever stops processes is answered: a client's Stop and the worker's StopAll.
StopsTerminate == StopTerminates /\ StopAllTerminates

\* A Tail of a process that has exited ends.
TailTerminates ==
  \A t \in Tails :
    (tailProc[t] # NoProc /\ status[tailProc[t]] = "exited") ~> (tail[t] = "returned")

\* A started process that no longer holds its pipes is reported exited.
ExitIsNoticed ==
  \A p \in Procs :
    (start[p] = "returned" /\ ~PipeOpen(p)) ~> (status[p] = "exited" /\ done[p])

-----------------------------------------------------------------------------
(* The inductive invariant behind the safety properties: how the goroutines *)
(* of a process, the map, the Tail calls and the Stop calls fit together.   *)

\* The waiter's progress determines what is published and what was reaped.
WaiterInv(p) ==
  /\ waiter[p] = "off" <=> start[p] # "returned"
  /\ status[p] = IF waiter[p] = "off" THEN "none"
                 ELSE IF waiter[p] \in {"closeDone", "over"} THEN "exited" ELSE "running"
  /\ leader[p] = "reaped" <=> waiter[p] \in {"publish", "closeDone", "over"}
  /\ done[p] <=> waiter[p] = "over"
  /\ exitCode[p] = IF status[p] = "exited" THEN osCode[p] ELSE NoCode
  /\ osCode[p] # NoCode <=> leader[p] \in {"zombie", "reaped"}

\* A reader that ended drained the pipe and no writer is left, unless it
\* failed; the waiter passes the readers only when both have ended.
ReaderInv(p, s) ==
  /\ logged[p][s] <= written[p][s]
  /\ reader[p][s] = "off" <=> waiter[p] = "off"
  /\ reader[p][s] = "off" => logged[p][s] = 0
  /\ reader[p][s] = "fanout" => logged[p][s] > 0
  /\ reader[p][s] = "eof" => logged[p][s] = written[p][s] /\ ~PipeOpen(p)
  /\ waiter[p] \in {"reap", "publish", "closeDone", "over"} => reader[p][s] \in ReaderEnded

\* Start's progress; pids of processes that are not reaped are distinct.
PidInv(p) ==
  /\ start[p] \in {"idle", "rejected"} <=> pid[p] = NoPid
  /\ start[p] \in {"idle", "rejected"} <=> leader[p] = "none"
  /\ leader[p] = "none" => child[p] = "none"
  /\ start[p] = "returned" /\ leader[p] # "reaped" => processes[pid[p]] = p
  /\ \A o \in Procs : pid[o] = pid[p] /\ pid[p] # NoPid /\ o # p =>
       leader[o] = "reaped" \/ leader[p] = "reaped"

MapInv(q) ==
  processes[q] # NoProc => start[processes[q]] = "returned" /\ pid[processes[q]] = q

\* Where pids are not reused, the log files named after a pid are those of the
\* only process that ever had it.
LogInv(p) ==
  "pidReuse" \notin Faults =>
    /\ \A o \in Procs : pid[o] = pid[p] /\ pid[p] # NoPid => o = p
    /\ start[p] \in {"stdoutLog", "logged", "returned"} => logOwner[pid[p]]["stdout"] = p
    /\ start[p] \in {"logged", "returned"} => logOwner[pid[p]]["stderr"] = p

\* A Tail call is subscribed to the process it follows as long as its channel
\* is open and it receives; a channel is closed when that process has exited.
TailInv(t) ==
  /\ tail[t] \in {"idle", "rejected"} <=> tailProc[t] = NoProc
  /\ tailProc[t] # NoProc => start[tailProc[t]] = "returned"
  /\ tail[t] = "send" <=> held[t] # NoEvent
  /\ closed[t] => tailProc[t] # NoProc /\ status[tailProc[t]] = "exited"
  /\ tail[t] \in {"receive", "send"} /\ ~closed[t] => t \in subscribers[tailProc[t]]
  /\ \A p \in Procs : t \in subscribers[p] =>
       tailProc[t] = p /\ ~closed[t] /\ status[p] = "running"

\* A Stop call beyond its check has a target, which is done when it succeeds.
StopInv(i) ==
  /\ stop[i] \in {"term", "wait", "kill", "final", "ok"} => stopProc[i] # NoProc
  /\ stopProc[i] # NoProc => start[stopProc[i]] = "returned"
  /\ stop[i] = "ok" => done[stopProc[i]]

\* The goroutines, the map and the calls agree with one another.
ManagerInv ==
  /\ TypeOK
  /\ \A p \in Procs : WaiterInv(p) /\ PidInv(p) /\ \A s \in Streams : ReaderInv(p, s)
  /\ \A p \in Procs : LogInv(p)
  /\ \A q \in Pids : MapInv(q)
  /\ \A t \in Tails : TailInv(t)
  /\ \A i \in Stops : StopInv(i)

\* What is under way to the client of t, for the proofs of TailTruthful and
\* TailComplete: a call that follows nothing has nothing, and the exit event is
\* sent only after the channel was closed.
EventsInv(t) ==
  /\ tailProc[t] = NoProc => sent[t] = <<>> /\ channel[t] = <<>>
  /\ GotExit(t) => closed[t]
  /\ tailProc[t] # NoProc =>
       \A s \in Streams : since[t][s] <= Fanned(tailProc[t], s)
  /\ OrderOf(t) /\ CompleteOf(t) /\ ExitOf(t)

\* A process whose pid another process has got since has nothing left in its group.
GroupInv(p) ==
  \A o \in Procs : pid[o] = pid[p] /\ pid[p] # NoPid /\ o # p =>
    \/ leader[o] = "reaped" /\ ~GroupAlive(o)
    \/ leader[p] = "reaped" /\ ~GroupAlive(p)

\* The Stop that StopAll makes for a process of its snapshot works on that process,
\* or fails, as long as the process is there; no Stop has a target before its check.
SnapshotInv ==
  /\ stopAll = "idle" => snapshot = {} /\ \A q \in Pids : stop[q] = "idle"
  /\ stopAll = "returned" => StopsReturned
  /\ \A i \in Stops : stop[i] \in {"idle", "check"} => stopProc[i] = NoProc
  /\ \A p \in snapshot :
       /\ start[p] = "returned"
       /\ leader[p] # "reaped" =>
            \/ stop[pid[p]] \in {"check", "error"}
            \/ stop[pid[p]] \in {"term", "wait", "kill", "final"} /\ stopProc[pid[p]] = p

-----------------------------------------------------------------------------
(* The abstract view: what clients are promised about a process's life. *)
Lifecycle == INSTANCE ProcessLifecycle WITH
  phase <- status,
  ended <- osCode,
  code <- exitCode,
  follows <- tailProc,
  told <- [t \in Tails |-> IF GotExit(t) THEN sent[t][Len(sent[t])].exit ELSE NoCode],
  target <- stopProc,
  stopped <- {i \in Stops : stop[i] = "ok"}

\* The manager implements ProcessLifecycle: an end is announced once, with the
\* real code, and no Tail or Stop learns of it before or otherwise.
ImplementsLifecycle == Lifecycle!Spec
=============================================================================
