------------------------------ MODULE RunBash ------------------------------
(***************************************************************************)
(* One call of runBash (worker/bash.go): the handler's own goroutine, the  *)
(* goroutine that watches the context, the two goroutines that stream the  *)
(* output, and the process group they run.  A line of output is its index  *)
(* in its stream.                                                          *)
(***************************************************************************)
EXTENDS Integers, Sequences, EventStreams

CONSTANTS
  ExitCodes,   \* codes with which the command exits by itself
  MaxLines,    \* bound: lines of output
  PipeCap,     \* lines a pipe holds before a write blocks
  ChildKinds,  \* "pipe": a descendant in the group that holds the pipes;
               \* "silent": one in the group with redirected output;
               \* "escaped": one that holds the pipes and left the group
  Faults,      \* adverse behaviour of the environment a run admits
  NoCode

Streams == {"stdout", "stderr"}
AllFaults == {"startError", "overlongLine", "sendError", "cancel"}
Signaled == -1
ExitCodeTimeout == 137

ASSUME BashCodesAssumption ==
  ExitCodes \subseteq 0..127 /\ NoCode \notin ExitCodes \cup {Signaled, ExitCodeTimeout}
ASSUME BashBoundsAssumption == MaxLines \in Nat /\ PipeCap \in Nat \ {0}
ASSUME BashEnvironmentAssumption ==
  ChildKinds \subseteq {"pipe", "silent", "escaped"} /\ Faults \subseteq AllFaults

VARIABLES
  main,      \* the handler: "idle", "readers", "reap", "decide", "sendExit", then
             \* "returned", "sendFailed", or "rejected"
  ctx,       \* "live" | "deadline" | "cancelled" | "released" (deferred cancel)
  watcher,   \* "off" | "waiting" | "kill" | "over"
  timedOut,
  exitCode,  \* the code chosen for the final event
  reader,    \* reader[s]: "off" | "scan" | "send" | "eof" | "failed"
  read,      \* lines of stream s the scanner returned
  sent,      \* history: the events the client got
  leader,    \* "none" | "alive" | "zombie" | "reaped"
  osCode, child, sig, written,
  felled     \* history: the watcher's SIGKILL found the command running

osVars == <<leader, osCode, child, sig, written, felled>>
vars == <<main, ctx, watcher, timedOut, exitCode, reader, read, sent, osVars>>

Codes == ExitCodes \cup {Signaled}
Ended == {"eof", "failed"}
Returned == {"returned", "sendFailed", "rejected"}

Init ==
  /\ main = "idle" /\ ctx = "live" /\ watcher = "off" /\ timedOut = FALSE
  /\ exitCode = NoCode
  /\ reader = [s \in Streams |-> "off"]
  /\ read = [s \in Streams |-> 0]
  /\ sent = <<>>
  /\ leader = "none" /\ osCode = NoCode /\ child = "none" /\ sig = "none"
  /\ written = [s \in Streams |-> 0]
  /\ felled = FALSE

-----------------------------------------------------------------------------
(* The operating system and the client *)

PipeOpen == leader = "alive" \/ child \in {"pipe", "escaped"}
GroupAlive == leader = "alive" \/ child \in {"pipe", "silent"}

Write(s) ==
  /\ \/ leader = "alive" /\ sig # "kill"
     \/ child = "pipe" /\ sig # "kill"
     \/ child = "escaped"
  /\ leader # "reaped"
  /\ written[s] - read[s] < PipeCap
  /\ written["stdout"] + written["stderr"] < MaxLines
  /\ written' = [written EXCEPT ![s] = @ + 1]
  /\ UNCHANGED <<main, ctx, watcher, timedOut, exitCode, reader, read, sent,
                 leader, osCode, child, sig, felled>>

Fork(k) ==
  /\ leader = "alive" /\ sig # "kill" /\ child = "none"
  /\ child' = k
  /\ UNCHANGED <<main, ctx, watcher, timedOut, exitCode, reader, read, sent,
                 leader, osCode, sig, written, felled>>

\* The command ends by itself or by a signal, after SIGKILL by that.
LeaderExit(c) ==
  /\ leader = "alive"
  /\ sig = "kill" => c = Signaled
  /\ leader' = "zombie" /\ osCode' = c
  /\ UNCHANGED <<main, ctx, watcher, timedOut, exitCode, reader, read, sent,
                 child, sig, written, felled>>

ChildExit ==
  /\ child # "none"
  /\ child' = "none"
  /\ UNCHANGED <<main, ctx, watcher, timedOut, exitCode, reader, read, sent,
                 leader, osCode, sig, written, felled>>

LeaderKilled == sig = "kill" /\ LeaderExit(Signaled)
ChildKilled == sig = "kill" /\ child # "escaped" /\ ChildExit

Deadline ==
  /\ main \notin Returned /\ main # "idle" /\ ctx = "live"
  /\ ctx' = "deadline"
  /\ UNCHANGED <<main, watcher, timedOut, exitCode, reader, read, sent, osVars>>

ClientCancels ==
  /\ "cancel" \in Faults
  /\ main \notin Returned /\ ctx = "live"
  /\ ctx' = "cancelled"
  /\ UNCHANGED <<main, watcher, timedOut, exitCode, reader, read, sent, osVars>>

-----------------------------------------------------------------------------
(* The handler *)

\* Mutant: cancel is not deferred, so that the watcher outlives the call.
NotCancelled == ctx

\* The context after the deferred cancel.
Cancelled == IF ctx = "live" THEN "released" ELSE ctx

\* Bad arguments, or bash cannot be launched; the deferred cancel runs.
Rejected ==
  /\ "startError" \in Faults
  /\ main = "idle"
  /\ main' = "rejected" /\ ctx' = Cancelled
  /\ UNCHANGED <<watcher, timedOut, exitCode, reader, read, sent, osVars>>

\* cmd.Start, and the three goroutines.
Launch ==
  /\ main = "idle"
  /\ main' = "readers"
  /\ watcher' = "waiting"
  /\ reader' = [s \in Streams |-> "scan"]
  /\ leader' = "alive"
  /\ UNCHANGED <<ctx, timedOut, exitCode, read, sent, osCode, child, sig, written,
                 felled>>

\* The counter of wg is zero.
ReadersEnded == \A s \in Streams : reader[s] \in Ended

\* wg.Wait()
WaitReaders ==
  /\ main = "readers" /\ ReadersEnded
  /\ main' = "reap"
  /\ UNCHANGED <<ctx, watcher, timedOut, exitCode, reader, read, sent, osVars>>

\* cmd.Wait()
Reap ==
  /\ main = "reap" /\ leader = "zombie"
  /\ main' = "decide"
  /\ leader' = "reaped"
  /\ UNCHANGED <<ctx, watcher, timedOut, exitCode, reader, read, sent,
                 osCode, child, sig, written, felled>>

\* A timeout takes precedence over the code in cmd.Wait's error.
ChosenCode == IF timedOut THEN ExitCodeTimeout ELSE osCode

\* timedOut is read under its lock.
Decide ==
  /\ main = "decide"
  /\ main' = "sendExit"
  /\ exitCode' = ChosenCode
  /\ UNCHANGED <<ctx, watcher, timedOut, reader, read, sent, osVars>>

\* The exit event; then the handler returns and the deferred cancel runs.
SendExit ==
  /\ main = "sendExit"
  /\ \/ main' = "returned" /\ sent' = Append(sent, [exit |-> exitCode])
     \/ "sendError" \in Faults /\ main' = "sendFailed" /\ UNCHANGED sent
  /\ ctx' = Cancelled
  /\ UNCHANGED <<watcher, timedOut, exitCode, reader, read, osVars>>

-----------------------------------------------------------------------------
(* The goroutine that watches the context *)

Marks ==
  /\ watcher = "waiting" /\ ctx # "live"
  /\ watcher' = "kill"
  /\ timedOut' = TRUE
  /\ UNCHANGED <<main, ctx, exitCode, reader, read, sent, osVars>>

\* Mutant: only the leader is killed, not its group.
KillsLeaderOnly ==
  /\ watcher = "kill"
  /\ watcher' = "over"
  /\ leader' = IF leader = "alive" THEN "zombie" ELSE leader
  /\ osCode' = IF leader = "alive" THEN Signaled ELSE osCode
  /\ felled' = (felled \/ leader = "alive")
  /\ UNCHANGED <<main, ctx, timedOut, exitCode, reader, read, sent,
                 child, sig, written>>

\* syscall.Kill(-pid, SIGKILL); the model has nobody else whose group could
\* have the pid once the command is reaped.
Kills ==
  /\ watcher = "kill"
  /\ watcher' = "over"
  /\ sig' = IF GroupAlive THEN "kill" ELSE sig
  /\ felled' = (felled \/ leader = "alive")
  /\ UNCHANGED <<main, ctx, timedOut, exitCode, reader, read, sent,
                 leader, osCode, child, written>>

\* Mutant: the group is killed first and timedOut set afterwards.
MarksAfterKill ==
  \/ /\ watcher = "waiting" /\ ctx # "live"
     /\ watcher' = "kill"
     /\ sig' = IF GroupAlive THEN "kill" ELSE sig
     /\ felled' = (felled \/ leader = "alive")
     /\ UNCHANGED <<main, ctx, timedOut, exitCode, reader, read, sent,
                    leader, osCode, child, written>>
  \/ /\ watcher = "kill"
     /\ watcher' = "over"
     /\ timedOut' = TRUE
     /\ UNCHANGED <<main, ctx, exitCode, reader, read, sent, osVars>>

WatcherNext == Marks \/ Kills

-----------------------------------------------------------------------------
(* The goroutines that stream stdout and stderr *)

ScanReturns(s) == read[s] < written[s]

Scan(s) ==
  /\ reader[s] = "scan" /\ ScanReturns(s)
  /\ read' = [read EXCEPT ![s] = @ + 1]
  /\ reader' = [reader EXCEPT ![s] = "send"]
  /\ UNCHANGED <<main, ctx, watcher, timedOut, exitCode, sent, osVars>>

\* send; an error ends the goroutine.
SendLine(s) ==
  /\ reader[s] = "send"
  /\ \/ /\ reader' = [reader EXCEPT ![s] = "scan"]
        /\ sent' = Append(sent, [stream |-> s, line |-> read[s]])
     \/ /\ "sendError" \in Faults
        /\ reader' = [reader EXCEPT ![s] = "failed"]
        /\ UNCHANGED sent
  /\ UNCHANGED <<main, ctx, watcher, timedOut, exitCode, read, osVars>>

ReaderEOF(s) ==
  /\ reader[s] = "scan" /\ read[s] = written[s] /\ ~PipeOpen
  /\ reader' = [reader EXCEPT ![s] = "eof"]
  /\ UNCHANGED <<main, ctx, watcher, timedOut, exitCode, read, sent, osVars>>

ReaderFails(s) ==
  /\ "overlongLine" \in Faults
  /\ reader[s] = "scan" /\ read[s] < written[s]
  /\ reader' = [reader EXCEPT ![s] = "failed"]
  /\ UNCHANGED <<main, ctx, watcher, timedOut, exitCode, read, sent, osVars>>

ReaderNext(s) == Scan(s) \/ SendLine(s) \/ ReaderEOF(s) \/ ReaderFails(s)

-----------------------------------------------------------------------------

MainNext == WaitReaders \/ Reap \/ Decide \/ SendExit
Terminated ==
  /\ main \in Returned /\ watcher \in {"off", "over"} /\ UNCHANGED vars

Next ==
  \/ \E s \in Streams : Write(s) \/ ReaderNext(s)
  \/ \E k \in ChildKinds : Fork(k)
  \/ \E c \in Codes : LeaderExit(c)
  \/ ChildExit \/ Deadline \/ ClientCancels
  \/ Rejected \/ Launch \/ MainNext \/ WatcherNext
  \/ Terminated

Spec == Init /\ [][Next]_vars

\* Goroutines that are not blocked run, the context's deadline passes, and the
\* kernel carries out SIGKILL.  Nothing makes the command or a descendant end.
Fairness ==
  /\ WF_vars(Deadline) /\ WF_vars(MainNext) /\ WF_vars(WatcherNext)
  /\ \A s \in Streams : WF_vars(ReaderNext(s))
  /\ WF_vars(LeaderKilled) /\ WF_vars(ChildKilled)

FairSpec == Spec /\ Fairness

-----------------------------------------------------------------------------
(* Properties *)

LineEvents == [stream : Streams, line : 0..MaxLines]
ExitEvents == [exit : Codes \cup {ExitCodeTimeout}]

\* Every variable has a value of its kind.
TypeOK ==
  /\ main \in {"idle", "readers", "reap", "decide", "sendExit"} \cup Returned
  /\ ctx \in {"live", "deadline", "cancelled", "released"}
  /\ watcher \in {"off", "waiting", "kill", "over"}
  /\ timedOut \in BOOLEAN
  /\ exitCode \in Codes \cup {ExitCodeTimeout, NoCode}
  /\ reader \in [Streams -> {"off", "scan", "send"} \cup Ended]
  /\ read \in [Streams -> 0..MaxLines]
  /\ sent \in Seq(LineEvents \cup ExitEvents)
  /\ leader \in {"none", "alive", "zombie", "reaped"}
  /\ osCode \in Codes \cup {NoCode}
  /\ child \in ChildKinds \cup {"none"}
  /\ sig \in {"none", "kill"}
  /\ written \in [Streams -> 0..MaxLines]
  /\ felled \in BOOLEAN

\* "The final event is always the exit code": a call that returns nil sent it,
\* once, after every line the two streams produced (all that was written,
\* unless a reader failed), each stream in order and without duplicates.
ExitEventFinal ==
  /\ main = "returned" => sent # <<>> /\ IsExit(sent[Len(sent)])
  /\ \A n \in DOMAIN sent : IsExit(sent[n]) =>
       /\ n = Len(sent) /\ leader = "reaped"
       /\ \A s \in Streams :
            /\ Ordered(sent, s, 0, read[s])
            /\ reader[s] = "eof" => Complete(sent, s, 0, written[s])

\* A command that the watcher's SIGKILL found running is reported with 137, never with
\* the raw wait status: timedOut is set before the signal is sent.
KilledIsReported ==
  exitCode # NoCode /\ felled => exitCode = ExitCodeTimeout

\* The code of a call whose context was still live when it was chosen is the
\* command's own.
OwnCodeWhenLive ==
  exitCode # NoCode /\ ctx \in {"live", "released"} => exitCode = osCode

\* The answer of a call is true: one exit event, after all that could be read, with
\* 137 for a command that was killed and its own code where the context was live.
AnswerTruthful ==
  /\ TypeOK
  /\ ExitEventFinal
  /\ KilledIsReported
  /\ OwnCodeWhenLive

\* Every call ends, at the latest after its timeout.
CallTerminates == (main = "readers") ~> (main \in Returned)

\* No member of the command's process group survives the call: the deferred
\* cancel makes the watcher kill what is left.
NoSurvivors == (main \in {"returned", "sendFailed"}) ~> ~GroupAlive

-----------------------------------------------------------------------------
(* The inductive invariant behind AnswerTruthful *)

\* Lines of stream s that have been sent, or lost to a send error.
Streamed(s) == read[s] - (IF reader[s] = "send" THEN 1 ELSE 0)

\* The handler's progress determines what runs, what is reaped and what is decided.
HandlerInv ==
  /\ leader = "none" <=> main \in {"idle", "rejected"}
  /\ leader = "reaped" <=> main \in {"decide", "sendExit", "returned", "sendFailed"}
  /\ leader = "none" => child = "none" /\ sent = <<>>
  /\ osCode # NoCode <=> leader \in {"zombie", "reaped"}
  /\ exitCode # NoCode <=> main \in {"sendExit", "returned", "sendFailed"}
  /\ main \in {"reap", "decide", "sendExit", "returned", "sendFailed"} => ReadersEnded
  /\ watcher = "off" <=> leader = "none"

\* timedOut is set before the signal and only when the context has ended; the
\* deferred cancel runs after the code was chosen.
WatcherInv ==
  /\ timedOut <=> watcher \in {"kill", "over"}
  /\ felled => timedOut
  /\ timedOut => ctx # "live"
  /\ ctx = "released" => main \in Returned
  /\ KilledIsReported /\ OwnCodeWhenLive

\* What the client has of stream s.
OutputInv(s) ==
  /\ reader[s] = "off" <=> leader = "none"
  /\ reader[s] = "off" => read[s] = 0
  /\ reader[s] = "send" => read[s] > 0
  /\ read[s] <= written[s]
  /\ reader[s] = "eof" => read[s] = written[s] /\ ~PipeOpen
  /\ Ordered(sent, s, 0, Streamed(s))
  /\ reader[s] # "failed" => Complete(sent, s, 0, Streamed(s))

\* The exit event is the last one.
ExitInv ==
  /\ main = "returned" => sent # <<>> /\ IsExit(sent[Len(sent)])
  /\ \A n \in DOMAIN sent : IsExit(sent[n]) => n = Len(sent) /\ main = "returned"

\* The handler, the watcher, the readers and the answer agree with one another.
BashInv == TypeOK /\ HandlerInv /\ WatcherInv /\ ExitInv /\ \A s \in Streams : OutputInv(s)
=============================================================================
