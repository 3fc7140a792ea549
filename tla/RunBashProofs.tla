---------------------------- MODULE RunBashProofs ----------------------------
(***************************************************************************)
(* The answer of runBash is true, for every bound, every exit code, every  *)
(* descendant and every fault.  BashInv is inductive: one step per action, *)
(* and the lemmas on event streams for the steps that send.                *)
(***************************************************************************)
EXTENDS RunBash, SequenceTheorems, TLAPS

-----------------------------------------------------------------------------
(* Streams of events: another event at the end *)

\* The lines among the events E are numbered.
Linear(E) == \A e \in E : ~IsExit(e) => e.line \in Int

\* The lines of a sequence of events have numbers.
LEMMA LineTypes ==
  ASSUME NEW E, Linear(E), NEW es \in Seq(E), NEW s, NEW n \in LinesOf(es, s)
  PROVE  n \in 1..Len(es) /\ es[n] \in E /\ es[n].line \in Int
<1>1. n \in 1..Len(es) /\ es[n] \in E /\ ~IsExit(es[n])
  BY DEF LinesOf
<1>2. QED
  BY <1>1 DEF Linear

\* fs is es with one more event e.
Extended(E, es, e, fs) ==
  /\ es \in Seq(E) /\ e \in E /\ fs \in Seq(E)
  /\ Len(fs) = Len(es) + 1
  /\ \A n \in 1..Len(es) : fs[n] = es[n]
  /\ fs[Len(es) + 1] = e

\* What a further event does to the lines of a stream.
LEMMA ExtendedLines ==
  ASSUME NEW E, NEW es, NEW s, NEW e, NEW fs, Extended(E, es, e, fs)
  PROVE  /\ fs \in Seq(E) /\ Len(es) \in Nat
         /\ \A n \in LinesOf(fs, s) :
              \/ n \in LinesOf(es, s) /\ fs[n] = es[n]
              \/ n = Len(es) + 1 /\ fs[n] = e /\ ~IsExit(e) /\ e.stream = s
         /\ \A n \in LinesOf(es, s) : n \in LinesOf(fs, s) /\ fs[n] = es[n]
         /\ ~IsExit(e) /\ e.stream = s => Len(es) + 1 \in LinesOf(fs, s)
         /\ fs[Len(es) + 1] = e
<1>1. DOMAIN fs = 1..(Len(es) + 1) /\ DOMAIN es = 1..Len(es) /\ Len(es) \in Nat
  BY DEF Extended
<1>2. QED
  BY <1>1 DEF LinesOf, Extended

\* A line that continues the stream keeps the order.
LEMMA OrderedAppendLine ==
  ASSUME NEW E, Linear(E), NEW es, NEW e, NEW fs, Extended(E, es, e, fs),
         NEW s, NEW lo \in Int, NEW hi \in Int, lo <= hi,
         Ordered(es, s, lo, hi), ~IsExit(e), e.stream = s, e.line = hi + 1
  PROVE  Ordered(fs, s, lo, hi + 1)
<1>1. es \in Seq(E)
  BY DEF Extended
<1>2. \A n \in LinesOf(fs, s) :
         (n \in LinesOf(es, s) /\ fs[n] = es[n]) \/ (n = Len(es) + 1 /\ fs[n] = e)
  BY ExtendedLines
<1>3. \A n \in LinesOf(es, s) : n \in 1..Len(es) /\ es[n].line \in Int
  BY <1>1, LineTypes
<1>4. Len(es) \in Nat
  BY <1>1
<1>5. QED
  BY <1>2, <1>3, <1>4, SMTT(30) DEF Ordered

\* So does an event that is no line of the stream.
LEMMA OrderedAppendOther ==
  ASSUME NEW E, Linear(E), NEW es, NEW e, NEW fs, Extended(E, es, e, fs),
         NEW s, NEW lo \in Int, NEW hi \in Int,
         Ordered(es, s, lo, hi), IsExit(e) \/ e.stream # s
  PROVE  Ordered(fs, s, lo, hi)
<1>1. \A n \in LinesOf(fs, s) : n \in LinesOf(es, s) /\ fs[n] = es[n]
  BY ExtendedLines
<1>2. QED
  BY <1>1 DEF Ordered

\* A line that the client misses does not disturb the order of those it has.
LEMMA OrderedMore ==
  ASSUME NEW E, Linear(E), NEW es \in Seq(E), NEW s, NEW lo \in Int, NEW hi \in Int,
         Ordered(es, s, lo, hi)
  PROVE  Ordered(es, s, lo, hi + 1)
<1>1. \A n \in LinesOf(es, s) : es[n].line \in Int
  BY LineTypes
<1>2. QED
  BY <1>1 DEF Ordered

\* The next line completes the lines up to it.
LEMMA CompleteAppendLine ==
  ASSUME NEW E, Linear(E), NEW es, NEW e, NEW fs, Extended(E, es, e, fs),
         NEW s, NEW lo \in Int, NEW hi \in Int,
         Complete(es, s, lo, hi), ~IsExit(e), e.stream = s, e.line = hi + 1
  PROVE  Complete(fs, s, lo, hi + 1)
<1>2. \A n \in LinesOf(es, s) : n \in LinesOf(fs, s) /\ fs[n] = es[n]
  BY ExtendedLines
<1>3. Len(es) + 1 \in LinesOf(fs, s) /\ fs[Len(es) + 1] = e
  BY ExtendedLines
<1>4. \A k \in (lo + 1)..hi : HasLine(fs, s, k)
  BY <1>2 DEF Complete, HasLine
<1>5. HasLine(fs, s, hi + 1)
  BY <1>3 DEF HasLine
<1>6. \A k \in (lo + 1)..(hi + 1) : k \in (lo + 1)..hi \/ k = hi + 1
  OBVIOUS
<1>7. QED
  BY <1>4, <1>5, <1>6 DEF Complete

\* Nothing is lost when an event is appended.
LEMMA CompleteAppend ==
  ASSUME NEW E, Linear(E), NEW es, NEW e, NEW fs, Extended(E, es, e, fs),
         NEW s, NEW lo \in Int, NEW hi \in Int,
         Complete(es, s, lo, hi)
  PROVE  Complete(fs, s, lo, hi)
<1>1. \A n \in LinesOf(es, s) : n \in LinesOf(fs, s) /\ fs[n] = es[n]
  BY ExtendedLines
<1>2. QED
  BY <1>1 DEF Complete, HasLine

-----------------------------------------------------------------------------
(* The answer of runBash *)

Events == LineEvents \cup ExitEvents

\* A line is not an exit event and an exit event is one.
LEMMA EventKinds ==
  /\ \A e \in LineEvents : ~IsExit(e) /\ e.line \in Int
  /\ \A e \in ExitEvents : IsExit(e)
  /\ Linear(Events)
<1>1. \A e \in LineEvents : ~IsExit(e) /\ e.line \in Int
  BY BashBoundsAssumption DEF LineEvents, IsExit
<1>2. \A e \in ExitEvents : IsExit(e)
  BY DEF ExitEvents, IsExit
<1>3. QED
  BY <1>1, <1>2 DEF Linear, Events

\* The code that Decide chooses is not NoCode.
LEMMA CodesDiffer == NoCode \notin Codes \cup {ExitCodeTimeout}
<1>1. QED
  BY BashCodesAssumption DEF Codes, ExitCodeTimeout, Signaled

\* BashInv holds when the call begins.
LEMMA InitEstablishes == Init => BashInv
<1> SUFFICES ASSUME Init PROVE BashInv
  OBVIOUS
<1>1. TypeOK
  <2>1. sent \in Seq(LineEvents \cup ExitEvents)
    BY DEF Init
  <2>2. read \in [Streams -> 0..MaxLines] /\ written \in [Streams -> 0..MaxLines]
    BY BashBoundsAssumption DEF Init
  <2>3. reader \in [Streams -> {"off", "scan", "send"} \cup Ended]
    BY DEF Init
  <2>4. /\ main \in {"idle", "readers", "reap", "decide", "sendExit"} \cup Returned
        /\ ctx \in {"live", "deadline", "cancelled", "released"}
        /\ watcher \in {"off", "waiting", "kill", "over"}
        /\ exitCode \in Codes \cup {ExitCodeTimeout, NoCode}
        /\ leader \in {"none", "alive", "zombie", "reaped"}
        /\ osCode \in Codes \cup {NoCode}
        /\ child \in ChildKinds \cup {"none"} /\ sig \in {"none", "kill"}
    BY DEF Init
  <2>5. timedOut \in BOOLEAN /\ felled \in BOOLEAN
    BY DEF Init
  <2>6. QED
    BY <2>1, <2>2, <2>3, <2>4, <2>5 DEF TypeOK
<1>2. HandlerInv /\ WatcherInv /\ ExitInv
  BY DEF Init, HandlerInv, WatcherInv, KilledIsReported, OwnCodeWhenLive, ExitInv, Returned
<1>3. \A s \in Streams : OutputInv(s)
  BY DEF Init, OutputInv, Streamed, Ordered, Complete, LinesOf, PipeOpen
<1>4. QED
  BY <1>1, <1>2, <1>3 DEF BashInv

\* OutputInv is kept by a step that leaves the streams alone and opens no pipe.
LEMMA OutputUnmoved ==
  ASSUME BashInv, reader' = reader, read' = read, sent' = sent, written' = written,
         PipeOpen' => PipeOpen, leader' = "none" <=> leader = "none"
  PROVE  \A s \in Streams : OutputInv(s)'
<1>1. \A s \in Streams : Streamed(s)' = Streamed(s)
  BY DEF Streamed
<1>2. QED
  BY <1>1 DEF BashInv, OutputInv

\* What the operating system and the client do keeps BashInv.
LEMMA EnvironmentKeeps ==
  ASSUME BashInv,
         \/ \E s \in Streams : Write(s)
         \/ \E k \in ChildKinds : Fork(k)
         \/ \E c \in Codes : LeaderExit(c)
         \/ ChildExit \/ Deadline \/ ClientCancels
  PROVE  BashInv'
<1>1. ASSUME NEW s \in Streams, Write(s) PROVE BashInv'
  <2>1. /\ written' = [written EXCEPT ![s] = written[s] + 1] /\ PipeOpen
        /\ written["stdout"] + written["stderr"] < MaxLines
        /\ \A y \in Streams : written[y] \in 0..MaxLines
        /\ UNCHANGED <<main, ctx, watcher, timedOut, exitCode, reader, read, sent,
                       leader, osCode, child, sig, felled>>
    BY <1>1 DEF Write, PipeOpen, BashInv, TypeOK
  <2>2. written' \in [Streams -> 0..MaxLines]
    BY <2>1, BashBoundsAssumption DEF Streams, BashInv, TypeOK
  <2>3. TypeOK'
    BY <2>1, <2>2 DEF BashInv, TypeOK
  <2>4. HandlerInv' /\ WatcherInv' /\ ExitInv'
    BY <2>1 DEF BashInv, HandlerInv, WatcherInv, ExitInv, KilledIsReported, OwnCodeWhenLive, ReadersEnded
  <2>5. \A y \in Streams : OutputInv(y)'
    <3>1. \A y \in Streams : read[y] \in Int /\ written[y] \in Int /\ written[y] <= written'[y]
      BY <2>1, BashBoundsAssumption DEF BashInv, TypeOK
    <3>2. \A y \in Streams : Streamed(y)' = Streamed(y) /\ reader[y] # "eof"
      BY <2>1 DEF Streamed, BashInv, OutputInv
    <3>3. QED
      BY <2>1, <3>1, <3>2 DEF BashInv, OutputInv
  <2>6. QED
    BY <2>3, <2>4, <2>5 DEF BashInv
<1>2. ASSUME NEW k \in ChildKinds, Fork(k) PROVE BashInv'
  <2>1. TypeOK' /\ HandlerInv' /\ WatcherInv' /\ ExitInv'
    BY <1>2 DEF Fork, BashInv, TypeOK, HandlerInv, WatcherInv, ExitInv, KilledIsReported,
      OwnCodeWhenLive, ReadersEnded
  <2>2. \A y \in Streams : OutputInv(y)'
    BY <1>2, OutputUnmoved DEF Fork, PipeOpen
  <2>3. QED
    BY <2>1, <2>2 DEF BashInv
<1>3. ASSUME NEW c \in Codes, LeaderExit(c) PROVE BashInv'
  <2>1. TypeOK'
    BY <1>3 DEF LeaderExit, BashInv, TypeOK
  <2>2. HandlerInv' /\ WatcherInv' /\ ExitInv'
    BY <1>3, CodesDiffer DEF LeaderExit, BashInv, HandlerInv, WatcherInv, ExitInv, KilledIsReported,
      OwnCodeWhenLive, ReadersEnded
  <2>3. \A y \in Streams : OutputInv(y)'
    BY <1>3, OutputUnmoved DEF LeaderExit, PipeOpen
  <2>4. QED
    BY <2>1, <2>2, <2>3 DEF BashInv
<1>4. CASE ChildExit
  <2>1. TypeOK' /\ HandlerInv' /\ WatcherInv' /\ ExitInv'
    BY <1>4 DEF ChildExit, BashInv, TypeOK, HandlerInv, WatcherInv, ExitInv, KilledIsReported,
      OwnCodeWhenLive, ReadersEnded
  <2>2. \A y \in Streams : OutputInv(y)'
    BY <1>4, OutputUnmoved DEF ChildExit, PipeOpen
  <2>3. QED
    BY <2>1, <2>2 DEF BashInv
<1>5. CASE Deadline \/ ClientCancels
  <2>1. TypeOK' /\ HandlerInv' /\ WatcherInv' /\ ExitInv'
    BY <1>5 DEF Deadline, ClientCancels, osVars, BashInv, TypeOK, HandlerInv, WatcherInv, ExitInv,
      KilledIsReported, OwnCodeWhenLive, ReadersEnded, Returned
  <2>2. \A y \in Streams : OutputInv(y)'
    BY <1>5, OutputUnmoved DEF Deadline, ClientCancels, osVars, PipeOpen
  <2>3. QED
    BY <2>1, <2>2 DEF BashInv
<1>6. QED
  BY <1>1, <1>2, <1>3, <1>4, <1>5

\* Exit is not yet sent while a reader or the handler still has something to send.
LEMMA NoExitYet ==
  ASSUME BashInv, main # "returned"
  PROVE  /\ sent \in Seq(Events) /\ DOMAIN sent = 1..Len(sent) /\ Len(sent) \in Nat
         /\ \A n \in 1..Len(sent) : ~IsExit(sent[n])
<1>1. sent \in Seq(Events)
  BY DEF BashInv, TypeOK, Events
<1>2. QED
  BY <1>1 DEF BashInv, ExitInv

\* An event that is sent extends the stream.
LEMMA SendExtends ==
  ASSUME BashInv, NEW e \in Events, sent' = Append(sent, e)
  PROVE  /\ Extended(Events, sent, e, sent')
         /\ sent' # <<>> /\ sent'[Len(sent')] = e
<1>1. sent \in Seq(Events)
  BY DEF BashInv, TypeOK, Events
<1>2. /\ sent' \in Seq(Events) /\ Len(sent') = Len(sent) + 1 /\ Len(sent) \in Nat
      /\ \A n \in 1..Len(sent) : sent'[n] = sent[n]
      /\ sent'[Len(sent) + 1] = e
  BY <1>1
<1>3. sent' # <<>>
  BY <1>2
<1>4. QED
  BY <1>1, <1>2, <1>3 DEF Extended

\* The steps of the handler keep BashInv.
LEMMA HandlerKeeps ==
  ASSUME BashInv, Rejected \/ Launch \/ MainNext
  PROVE  BashInv'
<1>1. CASE Rejected
  <2>1. TypeOK' /\ HandlerInv' /\ WatcherInv' /\ ExitInv'
    BY <1>1 DEF Rejected, Cancelled, osVars, BashInv, TypeOK, HandlerInv, WatcherInv, ExitInv,
      KilledIsReported, OwnCodeWhenLive, ReadersEnded, Returned
  <2>2. \A y \in Streams : OutputInv(y)'
    BY <1>1, OutputUnmoved DEF Rejected, osVars, PipeOpen
  <2>3. QED
    BY <2>1, <2>2 DEF BashInv
<1>2. CASE Launch
  <2>1. TypeOK'
    BY <1>2 DEF Launch, BashInv, TypeOK
  <2>2. HandlerInv' /\ WatcherInv' /\ ExitInv'
    BY <1>2 DEF Launch, BashInv, TypeOK, HandlerInv, WatcherInv, ExitInv,
      KilledIsReported, OwnCodeWhenLive, ReadersEnded, Returned
  <2>3. \A y \in Streams : OutputInv(y)'
    <3>1. \A y \in Streams : read[y] = 0 /\ reader[y] = "off" /\ Streamed(y) = read[y]
      BY <1>2 DEF Launch, BashInv, HandlerInv, OutputInv, Streamed
    <3>2. \A y \in Streams : reader'[y] = "scan" /\ Streamed(y)' = Streamed(y)
      BY <1>2, <3>1 DEF Launch, Streamed
    <3>3. QED
      BY <1>2, <3>1, <3>2 DEF Launch, BashInv, OutputInv
  <2>4. QED
    BY <2>1, <2>2, <2>3 DEF BashInv
<1>3. CASE WaitReaders \/ Reap
  <2>1. TypeOK' /\ HandlerInv' /\ WatcherInv' /\ ExitInv'
    BY <1>3 DEF WaitReaders, Reap, osVars, BashInv, TypeOK, HandlerInv, WatcherInv, ExitInv,
      KilledIsReported, OwnCodeWhenLive, ReadersEnded, Returned
  <2>2. \A y \in Streams : OutputInv(y)'
    BY <1>3, OutputUnmoved DEF WaitReaders, Reap, osVars, PipeOpen
  <2>3. QED
    BY <2>1, <2>2 DEF BashInv
<1>4. CASE Decide
  <2>1. exitCode' = (IF timedOut THEN ExitCodeTimeout ELSE osCode)
        /\ osCode \in Codes /\ exitCode' \in Codes \cup {ExitCodeTimeout}
    BY <1>4, CodesDiffer DEF Decide, ChosenCode, BashInv, TypeOK, HandlerInv
  <2>2. TypeOK'
    BY <1>4, <2>1 DEF Decide, osVars, BashInv, TypeOK
  <2>3. HandlerInv' /\ ExitInv'
    BY <1>4, <2>1, CodesDiffer DEF Decide, osVars, BashInv, HandlerInv, ExitInv, ReadersEnded
  <2>4. WatcherInv'
    BY <1>4, <2>1 DEF Decide, osVars, BashInv, TypeOK, HandlerInv, WatcherInv, KilledIsReported,
      OwnCodeWhenLive, Returned
  <2>5. \A y \in Streams : OutputInv(y)'
    BY <1>4, OutputUnmoved DEF Decide, osVars, PipeOpen
  <2>6. QED
    BY <2>2, <2>3, <2>4, <2>5 DEF BashInv
<1>5. CASE SendExit
  <2>1. /\ main = "sendExit" /\ ctx' = (IF ctx = "live" THEN "released" ELSE ctx)
        /\ main' \in {"returned", "sendFailed"}
        /\ UNCHANGED <<watcher, timedOut, exitCode, reader, read, leader, osCode, child, sig,
                       written, felled>>
    BY <1>5 DEF SendExit, Cancelled, osVars
  <2>2. HandlerInv' /\ WatcherInv'
    BY <2>1 DEF BashInv, TypeOK, HandlerInv, WatcherInv, KilledIsReported, OwnCodeWhenLive,
      ReadersEnded, Returned
  <2>3. exitCode \in Codes \cup {ExitCodeTimeout}
    BY <2>1, CodesDiffer DEF BashInv, TypeOK, HandlerInv
  <2>4. CASE sent' = sent
    <3>1. main' = "sendFailed"
      <4>1. CASE sent' = Append(sent, [exit |-> exitCode])
        <5>1. sent \in Seq(Events) /\ [exit |-> exitCode] \in Events
          BY <2>3 DEF BashInv, TypeOK, Events, ExitEvents
        <5>2. Len(sent') = Len(sent) + 1 /\ Len(sent) \in Nat
          BY <4>1, <5>1
        <5>3. QED
          BY <2>4, <5>2
      <4>2. QED
        BY <1>5, <4>1 DEF SendExit
    <3>2. TypeOK' /\ ExitInv'
      BY <2>1, <2>4, <3>1 DEF BashInv, TypeOK, ExitInv, Returned
    <3>3. \A y \in Streams : OutputInv(y)'
      BY <2>1, <2>4, OutputUnmoved DEF PipeOpen
    <3>4. QED
      BY <2>2, <3>2, <3>3 DEF BashInv
  <2>5. CASE sent' # sent
    <3>1. PICK e \in Events : e = [exit |-> exitCode] /\ IsExit(e)
      <4>1. [exit |-> exitCode] \in ExitEvents
        BY <2>3 DEF ExitEvents
      <4>2. QED
        BY <4>1, EventKinds DEF Events
    <3>2. sent' = Append(sent, e) /\ main' = "returned"
      BY <1>5, <2>5, <3>1 DEF SendExit
    <3>3. /\ Extended(Events, sent, e, sent') /\ sent' # <<>> /\ sent'[Len(sent')] = e
      BY <3>2, SendExtends
    <3>4. TypeOK'
      BY <2>1, <3>2, <3>3 DEF BashInv, TypeOK, Returned, Extended, Events
    <3>5. ExitInv'
      BY <2>1, <3>1, <3>2, <3>3, NoExitYet DEF ExitInv, Extended
    <3>6. \A y \in Streams : OutputInv(y)'
      <4>1. SUFFICES ASSUME NEW y \in Streams PROVE OutputInv(y)'
        OBVIOUS
      <4>2. Streamed(y)' = Streamed(y) /\ Streamed(y) \in Int
        BY <2>1, BashBoundsAssumption DEF Streamed, BashInv, TypeOK
      <4>3. Ordered(sent', y, 0, Streamed(y))
        BY <3>1, <3>3, <4>2, EventKinds, OrderedAppendOther DEF BashInv, OutputInv
      <4>4. reader[y] # "failed" => Complete(sent', y, 0, Streamed(y))
        BY <3>3, <4>2, EventKinds, CompleteAppend DEF BashInv, OutputInv
      <4>5. QED
        BY <2>1, <4>2, <4>3, <4>4 DEF BashInv, OutputInv, PipeOpen
    <3>7. QED
      BY <2>2, <3>4, <3>5, <3>6 DEF BashInv
  <2>6. QED
    BY <2>4, <2>5
<1>6. QED
  BY <1>1, <1>2, <1>3, <1>4, <1>5 DEF MainNext

\* The steps of the watcher keep BashInv.
LEMMA WatcherKeeps ==
  ASSUME BashInv, WatcherNext
  PROVE  BashInv'
<1>1. TypeOK' /\ HandlerInv' /\ ExitInv'
  BY ZenonT(60) DEF WatcherNext, Marks, Kills, osVars, BashInv, TypeOK, HandlerInv, ExitInv, ReadersEnded
<1>2. WatcherInv'
  BY DEF WatcherNext, Marks, Kills, osVars, BashInv, TypeOK, HandlerInv, WatcherInv,
    KilledIsReported, OwnCodeWhenLive, Returned
<1>3. \A y \in Streams : OutputInv(y)'
  BY OutputUnmoved DEF WatcherNext, Marks, Kills, osVars, PipeOpen
<1>4. QED
  BY <1>1, <1>2, <1>3 DEF BashInv

\* The steps of the two readers keep BashInv.
LEMMA ReaderKeeps ==
  ASSUME BashInv, NEW s \in Streams, ReaderNext(s)
  PROVE  BashInv'
<1>1. /\ reader[s] \in {"scan", "send"} /\ main = "readers"
      /\ UNCHANGED <<main, ctx, watcher, timedOut, exitCode, leader, osCode, child, sig, written,
                     felled>>
  <2>1. reader[s] \in {"scan", "send"}
    BY DEF ReaderNext, Scan, SendLine, ReaderEOF, ReaderFails
  <2>2. main = "readers"
    BY <2>1 DEF BashInv, TypeOK, HandlerInv, OutputInv, ReadersEnded, Ended, Returned
  <2>3. QED
    BY <2>1, <2>2 DEF ReaderNext, Scan, SendLine, ReaderEOF, ReaderFails, osVars
<1>2. WatcherInv'
  BY <1>1 DEF BashInv, WatcherInv, KilledIsReported, OwnCodeWhenLive
<1>3. leader # "none" /\ HandlerInv'
  BY <1>1 DEF BashInv, HandlerInv
<1>4. /\ \A y \in Streams : read[y] \in Int /\ written[y] \in Int
      /\ PipeOpen' = PipeOpen /\ MaxLines \in Int
  BY <1>1, BashBoundsAssumption DEF BashInv, TypeOK, PipeOpen
<1>5. CASE Scan(s)
  <2>1. /\ reader' = [reader EXCEPT ![s] = "send"] /\ read' = [read EXCEPT ![s] = read[s] + 1]
        /\ reader[s] = "scan" /\ read[s] < written[s] /\ sent' = sent
    BY <1>5 DEF Scan, ScanReturns
  <2>2. TypeOK' /\ ExitInv'
    BY <1>1, <1>4, <2>1 DEF BashInv, TypeOK, ExitInv
  <2>3. \A y \in Streams : Streamed(y)' = Streamed(y)
    BY <1>4, <2>1 DEF Streamed, BashInv, TypeOK
  <2>4. \A y \in Streams : OutputInv(y)'
    BY <1>1, <1>3, <1>4, <2>1, <2>3 DEF BashInv, TypeOK, OutputInv
  <2>5. QED
    BY <1>2, <1>3, <2>2, <2>4 DEF BashInv
<1>6. ASSUME NEW end \in Ended, reader' = [reader EXCEPT ![s] = end], read' = read, sent' = sent,
             end = "eof" => reader[s] = "scan" /\ read[s] = written[s] /\ ~PipeOpen
      PROVE  BashInv'
  <2>1. TypeOK' /\ ExitInv'
    BY <1>1, <1>6 DEF BashInv, TypeOK, ExitInv
  <2>2. \A y \in Streams : y # s => Streamed(y)' = Streamed(y) /\ reader'[y] = reader[y]
    BY <1>6 DEF Streamed, BashInv, TypeOK
  <2>3. /\ Streamed(s)' = read[s] /\ reader'[s] = end
        /\ Streamed(s) \in Int /\ (Streamed(s)' = Streamed(s) \/ Streamed(s)' = Streamed(s) + 1)
        /\ end = "eof" => Streamed(s)' = Streamed(s)
    BY <1>4, <1>6 DEF Streamed, BashInv, TypeOK, Ended
  <2>4. Ordered(sent, s, 0, Streamed(s)')
    <3>1. Ordered(sent, s, 0, Streamed(s)) /\ sent \in Seq(Events)
      BY DEF BashInv, OutputInv, TypeOK, Events
    <3>2. Ordered(sent, s, 0, Streamed(s) + 1)
      BY <2>3, <3>1, EventKinds, OrderedMore
    <3>3. QED
      BY <2>3, <3>1, <3>2
  <2>5. OutputInv(s)'
    BY <1>1, <1>3, <1>4, <1>6, <2>3, <2>4 DEF BashInv, OutputInv, Ended
  <2>6. \A y \in Streams : y # s => OutputInv(y)'
    BY <1>1, <1>4, <1>6, <2>2 DEF BashInv, OutputInv
  <2>7. QED
    BY <1>2, <1>3, <2>1, <2>5, <2>6 DEF BashInv
<1>7. CASE ReaderEOF(s) \/ ReaderFails(s) \/ (SendLine(s) /\ reader'[s] = "failed")
  <2>1. \/ ReaderEOF(s) /\ reader' = [reader EXCEPT ![s] = "eof"]
        \/ /\ ReaderFails(s) \/ SendLine(s)
           /\ reader' = [reader EXCEPT ![s] = "failed"]
           /\ sent' = sent
    BY <1>7 DEF ReaderEOF, ReaderFails, SendLine, BashInv, TypeOK
  <2>2. CASE ReaderEOF(s)
    BY <1>6, <2>2 DEF ReaderEOF, Ended
  <2>3. CASE /\ ReaderFails(s) \/ SendLine(s)
             /\ reader' = [reader EXCEPT ![s] = "failed"] /\ sent' = sent
    BY <1>6, <2>3 DEF ReaderFails, SendLine, Ended
  <2>4. QED
    BY <2>1, <2>2, <2>3
<1>8. CASE SendLine(s) /\ reader'[s] # "failed"
  <2>1. /\ reader' = [reader EXCEPT ![s] = "scan"] /\ read' = read /\ reader[s] = "send"
        /\ sent' = Append(sent, [stream |-> s, line |-> read[s]])
    BY <1>8 DEF SendLine, BashInv, TypeOK
  <2>2. PICK e \in Events : e = [stream |-> s, line |-> read[s]] /\ ~IsExit(e)
    <3>1. [stream |-> s, line |-> read[s]] \in LineEvents
      BY DEF LineEvents, BashInv, TypeOK
    <3>2. QED
      BY <3>1, EventKinds DEF Events
  <2>3. e.stream = s /\ e.line = read[s] /\ sent' = Append(sent, e)
    BY <2>1, <2>2
  <2>4. Extended(Events, sent, e, sent') /\ sent' # <<>> /\ sent'[Len(sent')] = e
    BY <2>3, SendExtends
  <2>5. TypeOK'
    BY <1>1, <2>1, <2>4 DEF BashInv, TypeOK, Extended, Events
  <2>6. ExitInv'
    <3>1. sent' \in Seq(Events) /\ DOMAIN sent' = 1..(Len(sent) + 1)
      BY <2>4 DEF Extended
    <3>2. \A n \in DOMAIN sent' : ~IsExit(sent'[n])
      BY <1>1, <2>2, <2>4, <3>1, NoExitYet DEF Extended
    <3>3. QED
      BY <1>1, <3>2 DEF ExitInv
  <2>7. /\ Streamed(s) \in Int /\ Streamed(s)' = Streamed(s) + 1 /\ read[s] = Streamed(s) + 1
        /\ 0 <= Streamed(s)
        /\ \A y \in Streams : y # s =>
             Streamed(y)' = Streamed(y) /\ Streamed(y) \in Int /\ reader'[y] = reader[y]
    BY <1>4, <2>1 DEF Streamed, BashInv, TypeOK, OutputInv
  <2>8. Ordered(sent', s, 0, Streamed(s)') /\ Complete(sent', s, 0, Streamed(s)')
    <3>1. Ordered(sent, s, 0, Streamed(s)) /\ Complete(sent, s, 0, Streamed(s))
      BY <2>1 DEF BashInv, OutputInv
    <3>2. Ordered(sent', s, 0, Streamed(s) + 1)
      BY <2>2, <2>3, <2>4, <2>7, <3>1, EventKinds, OrderedAppendLine
    <3>3. Complete(sent', s, 0, Streamed(s) + 1)
      BY <2>2, <2>3, <2>4, <2>7, <3>1, EventKinds, CompleteAppendLine
    <3>4. QED
      BY <2>7, <3>2, <3>3
  <2>9. OutputInv(s)'
    BY <1>1, <1>3, <1>4, <2>1, <2>8 DEF BashInv, TypeOK, OutputInv
  <2>10. ASSUME NEW y \in Streams, y # s PROVE OutputInv(y)'
    <3>1. Ordered(sent', y, 0, Streamed(y))
      BY <2>3, <2>4, <2>7, <2>10, EventKinds, OrderedAppendOther DEF BashInv, OutputInv
    <3>2. reader[y] # "failed" => Complete(sent', y, 0, Streamed(y))
      BY <2>4, <2>7, <2>10, EventKinds, CompleteAppend DEF BashInv, OutputInv
    <3>3. QED
      BY <1>1, <1>4, <2>1, <2>7, <2>10, <3>1, <3>2 DEF BashInv, OutputInv
  <2>11. QED
    BY <1>2, <1>3, <2>5, <2>6, <2>9, <2>10 DEF BashInv
<1>9. QED
  BY <1>5, <1>7, <1>8 DEF ReaderNext

\* BashInv is an invariant of runBash.
THEOREM BashInvariant == Spec => []BashInv
<1>1. BashInv /\ [Next]_vars => BashInv'
  <2> SUFFICES ASSUME BashInv, [Next]_vars PROVE BashInv'
    OBVIOUS
  <2>1. CASE Terminated \/ UNCHANGED vars
    <3>1. UNCHANGED vars
      BY <2>1 DEF Terminated
    <3>2. TypeOK' /\ HandlerInv' /\ WatcherInv' /\ ExitInv'
      BY <3>1 DEF vars, osVars, BashInv, TypeOK, HandlerInv, WatcherInv, ExitInv, KilledIsReported,
        OwnCodeWhenLive, ReadersEnded
    <3>3. \A y \in Streams : OutputInv(y)'
      BY <3>1, OutputUnmoved DEF vars, osVars, PipeOpen
    <3>4. QED
      BY <3>2, <3>3 DEF BashInv
  <2>2. QED
    BY <2>1, EnvironmentKeeps, HandlerKeeps, WatcherKeeps, ReaderKeeps DEF Next
<1>2. QED
  BY <1>1, InitEstablishes, PTL DEF Spec

\* The answer of runBash is true: the exit event is the last one and comes after all
\* that was read, in order; a command the watcher killed is reported with 137, and
\* one whose context was live with its own code.
THEOREM AnswersTruthful == FairSpec => []AnswerTruthful
<1>1. BashInv => AnswerTruthful
  <2> SUFFICES ASSUME BashInv PROVE ExitEventFinal
    BY DEF BashInv, WatcherInv, AnswerTruthful
  <2>1. main = "returned" => sent # <<>> /\ IsExit(sent[Len(sent)])
    BY DEF BashInv, ExitInv
  <2>2. ASSUME NEW n \in DOMAIN sent, IsExit(sent[n])
        PROVE  /\ n = Len(sent) /\ leader = "reaped"
               /\ \A s \in Streams :
                    /\ Ordered(sent, s, 0, read[s])
                    /\ reader[s] = "eof" => Complete(sent, s, 0, written[s])
    <3>1. n = Len(sent) /\ main = "returned"
      BY <2>2 DEF BashInv, ExitInv
    <3>2. leader = "reaped" /\ \A s \in Streams : reader[s] \in Ended
      BY <3>1 DEF BashInv, HandlerInv, ReadersEnded
    <3>3. \A s \in Streams : Streamed(s) = read[s]
      BY <3>2, BashBoundsAssumption, SMTT(30) DEF Streamed, Ended, BashInv, TypeOK
    <3>4. QED
      BY <3>1, <3>2, <3>3 DEF BashInv, OutputInv
  <2>3. QED
    BY <2>1, <2>2 DEF ExitEventFinal
<1>2. QED
  BY <1>1, BashInvariant, PTL DEF FairSpec
=============================================================================
