------------------------ MODULE ProcessManagerProofs ------------------------
(***************************************************************************)
(* Proofs about ProcessManager for every set of processes, pids, Tail and  *)
(* Stop calls, every bound and every fault.  ManagerInv is inductive: one  *)
(* lemma per action shows that the action keeps it, and the theorems       *)
(* follow from it.  In each lemma the parts of ManagerInv that mention no  *)
(* variable the action changes are kept together in one step, the others   *)
(* have a step each.  The second half is about what a Tail client is sent, *)
(* and shows that the process manager implements ProcessLifecycle.         *)
(***************************************************************************)
EXTENDS ProcessManagerProperties, SequenceTheorems, TLAPS

-----------------------------------------------------------------------------
(* Streams of events: another event at the end, and one lost on the way *)

\* The lines among the events E are numbered.
Linear(E) == \A e \in E : ~IsExit(e) => e.line \in Int

\* The lines of a sequence of events have numbers.
LEMMA LineTypes ==
  ASSUME NEW E, Linear(E), NEW es \in Seq(E), NEW s, NEW n \in LinesOf(es, s)
  PROVE  n \in 1..Len(es) /\ es[n] \in E /\ es[n].line \in Int
<1>1. n \in 1..Len(es) /\ es[n] \in E /\ ~IsExit(es[n])
  BY DEF LinesOf
<1>2. QED
  BY <1>1 DEF Linear

\* fs is es with one more event e.
Extended(E, es, e, fs) ==
  /\ es \in Seq(E) /\ e \in E /\ fs \in Seq(E)
  /\ Len(fs) = Len(es) + 1
  /\ \A n \in 1..Len(es) : fs[n] = es[n]
  /\ fs[Len(es) + 1] = e

\* What a further event does to the lines of a stream.
LEMMA ExtendedLines ==
  ASSUME NEW E, NEW es, NEW s, NEW e, NEW fs, Extended(E, es, e, fs)
  PROVE  /\ fs \in Seq(E) /\ Len(es) \in Nat
         /\ \A n \in LinesOf(fs, s) :
              \/ n \in LinesOf(es, s) /\ fs[n] = es[n]
              \/ n = Len(es) + 1 /\ fs[n] = e /\ ~IsExit(e) /\ e.stream = s
         /\ \A n \in LinesOf(es, s) : n \in LinesOf(fs, s) /\ fs[n] = es[n]
         /\ ~IsExit(e) /\ e.stream = s => Len(es) + 1 \in LinesOf(fs, s)
         /\ fs[Len(es) + 1] = e
<1>1. DOMAIN fs = 1..(Len(es) + 1) /\ DOMAIN es = 1..Len(es) /\ Len(es) \in Nat
  BY DEF Extended
<1>2. QED
  BY <1>1 DEF LinesOf, Extended

\* A line that continues the stream keeps the order.
LEMMA OrderedAppendLine ==
  ASSUME NEW E, Linear(E), NEW es, NEW e, NEW fs, Extended(E, es, e, fs),
         NEW s, NEW lo \in Int, NEW hi \in Int, lo <= hi,
         Ordered(es, s, lo, hi), ~IsExit(e), e.stream = s, e.line = hi + 1
  PROVE  Ordered(fs, s, lo, hi + 1)
<1>1. es \in Seq(E)
  BY DEF Extended
<1>2. \A n \in LinesOf(fs, s) :
         (n \in LinesOf(es, s) /\ fs[n] = es[n]) \/ (n = Len(es) + 1 /\ fs[n] = e)
  BY ExtendedLines
<1>3. \A n \in LinesOf(es, s) : n \in 1..Len(es) /\ es[n].line \in Int
  BY <1>1, LineTypes
<1>4. Len(es) \in Nat
  BY <1>1
<1>5. QED
  BY <1>2, <1>3, <1>4, SMTT(30) DEF Ordered

\* So does an event that is no line of the stream.
LEMMA OrderedAppendOther ==
  ASSUME NEW E, Linear(E), NEW es, NEW e, NEW fs, Extended(E, es, e, fs),
         NEW s, NEW lo \in Int, NEW hi \in Int,
         Ordered(es, s, lo, hi), IsExit(e) \/ e.stream # s
  PROVE  Ordered(fs, s, lo, hi)
<1>1. \A n \in LinesOf(fs, s) : n \in LinesOf(es, s) /\ fs[n] = es[n]
  BY ExtendedLines
<1>2. QED
  BY <1>1 DEF Ordered

\* A line that the client misses does not disturb the order of those it has.
LEMMA OrderedMore ==
  ASSUME NEW E, Linear(E), NEW es \in Seq(E), NEW s, NEW lo \in Int, NEW hi \in Int,
         Ordered(es, s, lo, hi)
  PROVE  Ordered(es, s, lo, hi + 1)
<1>1. \A n \in LinesOf(es, s) : es[n].line \in Int
  BY LineTypes
<1>2. QED
  BY <1>1 DEF Ordered

\* An event lost on the way does not disturb the order of the others.
LEMMA OrderedRemove ==
  ASSUME NEW E, NEW a \in Seq(E), NEW h \in E, NEW b \in Seq(E),
         NEW s, NEW lo \in Int, NEW hi \in Int, Ordered(a \o <<h>> \o b, s, lo, hi)
  PROVE  Ordered(a \o b, s, lo, hi)
<1> DEFINE es == a \o <<h>> \o b
           fs == a \o b
           f(n) == IF n <= Len(a) THEN n ELSE n + 1
<1>1. Len(a) \in Nat /\ Len(b) \in Nat /\ <<h>> \in Seq(E) /\ Len(<<h>>) = 1
  OBVIOUS
<1>2. /\ a \o <<h>> \in Seq(E) /\ Len(a \o <<h>>) = Len(a) + 1
      /\ \A n \in 1..Len(a) : (a \o <<h>>)[n] = a[n]
  BY <1>1
<1>3. /\ es \in Seq(E) /\ Len(es) = Len(a) + 1 + Len(b)
      /\ \A n \in 1..Len(a) : es[n] = a[n]
      /\ \A n \in 1..Len(b) : es[Len(a) + 1 + n] = b[n]
  <2>1. /\ es \in Seq(E) /\ Len(es) = Len(a \o <<h>>) + Len(b)
        /\ \A n \in 1..Len(a \o <<h>>) : es[n] = (a \o <<h>>)[n]
        /\ \A n \in 1..Len(b) : es[Len(a \o <<h>>) + n] = b[n]
    BY <1>2, ConcatProperties
  <2>2. QED
    BY <1>1, <1>2, <2>1
<1>4. /\ fs \in Seq(E) /\ Len(fs) = Len(a) + Len(b)
      /\ \A n \in 1..Len(a) : fs[n] = a[n]
      /\ \A n \in 1..Len(b) : fs[Len(a) + n] = b[n]
  BY ConcatProperties
<1>5. DOMAIN fs = 1..Len(fs) /\ DOMAIN es = 1..Len(es)
  BY <1>3, <1>4
<1> HIDE DEF es, fs
<1>6. \A n \in 1..Len(fs) : f(n) \in 1..Len(es) /\ es[f(n)] = fs[n]
  <2>1. SUFFICES ASSUME NEW n \in 1..Len(fs) PROVE f(n) \in 1..Len(es) /\ es[f(n)] = fs[n]
    OBVIOUS
  <2>2. CASE n <= Len(a)
    <3>1. n \in 1..Len(a) /\ n \in 1..(Len(a) + 1 + Len(b)) /\ f(n) = n
      BY <1>1, <1>4, <2>1, <2>2
    <3>2. QED
      BY <1>3, <1>4, <3>1
  <2>3. CASE n > Len(a)
    <3>1. n - Len(a) \in 1..Len(b) /\ n = Len(a) + (n - Len(a)) /\ n + 1 = Len(a) + 1 + (n - Len(a))
      BY <1>1, <1>4, <2>1, <2>3
    <3>2. fs[n] = b[n - Len(a)] /\ es[n + 1] = b[n - Len(a)]
      BY <3>1, <1>3, <1>4
    <3>3. QED
      BY <1>1, <1>3, <1>4, <2>1, <2>3, <3>2
  <2>4. QED
    BY <1>1, <2>1, <2>2, <2>3
<1>7. \A n \in LinesOf(fs, s) : n \in 1..Len(fs) /\ f(n) \in LinesOf(es, s) /\ es[f(n)] = fs[n]
  BY <1>5, <1>6 DEF LinesOf
<1>8. \A m, n \in 1..Len(fs) : m < n => f(m) < f(n)
  BY <1>1, <1>4
<1> HIDE DEF f
<1>9. Ordered(fs, s, lo, hi)
  <2>1. Ordered(es, s, lo, hi)
    BY DEF es
  <2>2. QED
    BY <1>7, <1>8, <2>1 DEF Ordered
<1>10. QED
  BY <1>9 DEF fs

\* The next line completes the lines up to it.
LEMMA CompleteAppendLine ==
  ASSUME NEW E, Linear(E), NEW es, NEW e, NEW fs, Extended(E, es, e, fs),
         NEW s, NEW lo \in Int, NEW hi \in Int,
         Complete(es, s, lo, hi), ~IsExit(e), e.stream = s, e.line = hi + 1
  PROVE  Complete(fs, s, lo, hi + 1)
<1>2. \A n \in LinesOf(es, s) : n \in LinesOf(fs, s) /\ fs[n] = es[n]
  BY ExtendedLines
<1>3. Len(es) + 1 \in LinesOf(fs, s) /\ fs[Len(es) + 1] = e
  BY ExtendedLines
<1>4. \A k \in (lo + 1)..hi : HasLine(fs, s, k)
  BY <1>2 DEF Complete, HasLine
<1>5. HasLine(fs, s, hi + 1)
  BY <1>3 DEF HasLine
<1>6. \A k \in (lo + 1)..(hi + 1) : k \in (lo + 1)..hi \/ k = hi + 1
  OBVIOUS
<1>7. QED
  BY <1>4, <1>5, <1>6 DEF Complete

\* Nothing is lost when an event is appended.
LEMMA CompleteAppend ==
  ASSUME NEW E, Linear(E), NEW es, NEW e, NEW fs, Extended(E, es, e, fs),
         NEW s, NEW lo \in Int, NEW hi \in Int,
         Complete(es, s, lo, hi)
  PROVE  Complete(fs, s, lo, hi)
<1>1. \A n \in LinesOf(es, s) : n \in LinesOf(fs, s) /\ fs[n] = es[n]
  BY ExtendedLines
<1>2. QED
  BY <1>1 DEF Complete, HasLine

-----------------------------------------------------------------------------
(* The manager *)

\* ManagerInv holds when NewProcessManager has returned.
LEMMA InitEstablishes == Init => ManagerInv
<1> SUFFICES ASSUME Init PROVE ManagerInv
  OBVIOUS
<1>1. TypeOK
  BY BoundsAssumption DEF Init, TypeOK, Lines, ReaderEnded
<1>2. \A p \in Procs : WaiterInv(p) /\ PidInv(p) /\ \A s \in Streams : ReaderInv(p, s)
  BY DEF Init, WaiterInv, PidInv, ReaderInv, PipeOpen
<1>3. \A p \in Procs : LogInv(p)
  BY DEF Init, LogInv
<1>4. \A q \in Pids : MapInv(q)
  BY DEF Init, MapInv
<1>5. \A t \in Tails : TailInv(t)
  BY DEF Init, TailInv
<1>6. \A i \in Stops : StopInv(i)
  BY DEF Init, StopInv
<1>7. QED
  BY <1>1, <1>2, <1>3, <1>4, <1>5, <1>6 DEF ManagerInv

\* ManagerInv is kept when the command writes a line.
LEMMA WriteKeeps ==
  ASSUME ManagerInv, NEW p \in Procs, NEW s \in Streams, Write(p, s)
  PROVE  ManagerInv'
<1>1. TypeOK'
  <2>1. written' \in [Procs -> [Streams -> Lines]]
    BY BoundsAssumption DEF ManagerInv, TypeOK, Write, Streams, Lines
  <2>2. QED
    BY <2>1 DEF ManagerInv, TypeOK, Write, mgrVars, runVars, tailVars, stopVars
<1>2. /\ \A x \in Procs : LogInv(x)'
      /\ \A x \in Procs : WaiterInv(x)'
      /\ \A x \in Procs : PidInv(x)'
      /\ \A x \in Pids : MapInv(x)'
      /\ \A x \in Tails : TailInv(x)'
      /\ \A x \in Stops : StopInv(x)'
  BY DEF ManagerInv, Write, mgrVars, runVars, tailVars, stopVars, LogInv, WaiterInv,
    PidInv, MapInv, TailInv, StopInv
<1>3. \A x \in Procs, y \in Streams : ReaderInv(x, y)'
  BY BoundsAssumption, SMTT(30) DEF ManagerInv, Write, mgrVars, runVars, tailVars, stopVars,
    ReaderInv, PipeOpen, TypeOK, Streams, Lines
<1>4. QED
  BY <1>1, <1>2, <1>3 DEF ManagerInv

\* ManagerInv is kept when the command leaves a descendant behind.
LEMMA ForkKeeps ==
  ASSUME ManagerInv, NEW p \in Procs, NEW k \in ChildKinds, Fork(p, k)
  PROVE  ManagerInv'
<1>1. TypeOK'
  BY DEF ManagerInv, Fork, mgrVars, runVars, tailVars, stopVars, TypeOK
<1>2. /\ \A x \in Procs : LogInv(x)'
      /\ \A x \in Procs : WaiterInv(x)'
      /\ \A x \in Pids : MapInv(x)'
      /\ \A x \in Tails : TailInv(x)'
      /\ \A x \in Stops : StopInv(x)'
  BY DEF ManagerInv, Fork, mgrVars, runVars, tailVars, stopVars, LogInv, WaiterInv, MapInv,
    TailInv, StopInv
<1>3. \A x \in Procs, y \in Streams : ReaderInv(x, y)'
  BY DEF ManagerInv, Fork, mgrVars, runVars, tailVars, stopVars, ReaderInv, PipeOpen, TypeOK
<1>4. \A x \in Procs : PidInv(x)'
  BY DEF ManagerInv, Fork, mgrVars, runVars, tailVars, stopVars, PidInv, TypeOK
<1>5. QED
  BY <1>1, <1>2, <1>3, <1>4 DEF ManagerInv

\* ManagerInv is kept when the group leader ends.
LEMMA LeaderExitKeeps ==
  ASSUME ManagerInv, NEW p \in Procs, NEW c \in Codes, LeaderExit(p, c)
  PROVE  ManagerInv'
<1>1. TypeOK'
  BY CodesAssumption DEF ManagerInv, LeaderExit, mgrVars, runVars, tailVars, stopVars,
    TypeOK
<1>2. /\ \A x \in Procs : LogInv(x)'
      /\ \A x \in Pids : MapInv(x)'
      /\ \A x \in Tails : TailInv(x)'
      /\ \A x \in Stops : StopInv(x)'
  BY DEF ManagerInv, LeaderExit, mgrVars, runVars, tailVars, stopVars, LogInv, MapInv,
    TailInv, StopInv
<1>3. \A x \in Procs : WaiterInv(x)'
  BY CodesAssumption DEF ManagerInv, LeaderExit, mgrVars, runVars, tailVars, stopVars,
    WaiterInv, TypeOK, Codes
<1>4. \A x \in Procs, y \in Streams : ReaderInv(x, y)'
  BY CodesAssumption DEF ManagerInv, LeaderExit, mgrVars, runVars, tailVars, stopVars,
    ReaderInv, PipeOpen, TypeOK
<1>5. \A x \in Procs : PidInv(x)'
  BY CodesAssumption DEF ManagerInv, LeaderExit, mgrVars, runVars, tailVars, stopVars,
    PidInv, TypeOK
<1>6. QED
  BY <1>1, <1>2, <1>3, <1>4, <1>5 DEF ManagerInv

\* ManagerInv is kept when the descendant ends.
LEMMA ChildExitKeeps ==
  ASSUME ManagerInv, NEW p \in Procs, ChildExit(p)
  PROVE  ManagerInv'
<1>1. TypeOK'
  BY DEF ManagerInv, ChildExit, mgrVars, runVars, tailVars, stopVars, TypeOK
<1>2. /\ \A x \in Procs : LogInv(x)'
      /\ \A x \in Procs : WaiterInv(x)'
      /\ \A x \in Pids : MapInv(x)'
      /\ \A x \in Tails : TailInv(x)'
      /\ \A x \in Stops : StopInv(x)'
  BY DEF ManagerInv, ChildExit, mgrVars, runVars, tailVars, stopVars, LogInv, WaiterInv,
    MapInv, TailInv, StopInv
<1>3. \A x \in Procs, y \in Streams : ReaderInv(x, y)'
  BY DEF ManagerInv, ChildExit, mgrVars, runVars, tailVars, stopVars, ReaderInv, PipeOpen,
    TypeOK
<1>4. \A x \in Procs : PidInv(x)'
  BY DEF ManagerInv, ChildExit, mgrVars, runVars, tailVars, stopVars, PidInv, TypeOK
<1>5. QED
  BY <1>1, <1>2, <1>3, <1>4 DEF ManagerInv

\* ManagerInv is kept when Start returns an error at once.
LEMMA StartRejectedKeeps ==
  ASSUME ManagerInv, NEW p \in Procs, StartRejected(p)
  PROVE  ManagerInv'
<1>1. TypeOK'
  BY DEF ManagerInv, StartRejected, mgrVars, osVars, tailVars, stopVars, TypeOK
<1>2. \A x \in Procs, y \in Streams : ReaderInv(x, y)'
  BY DEF ManagerInv, StartRejected, mgrVars, osVars, tailVars, stopVars, ReaderInv, PipeOpen
<1>3. \A x \in Procs : LogInv(x)'
  BY DEF ManagerInv, StartRejected, mgrVars, osVars, tailVars, stopVars, LogInv, TypeOK
<1>4. \A x \in Procs : WaiterInv(x)'
  BY DEF ManagerInv, StartRejected, mgrVars, osVars, tailVars, stopVars, WaiterInv, TypeOK
<1>5. \A x \in Procs : PidInv(x)'
  BY DEF ManagerInv, StartRejected, mgrVars, osVars, tailVars, stopVars, PidInv, TypeOK
<1>6. \A x \in Pids : MapInv(x)'
  BY DEF ManagerInv, StartRejected, mgrVars, osVars, tailVars, stopVars, MapInv, TypeOK
<1>7. \A x \in Tails : TailInv(x)'
  BY DEF ManagerInv, StartRejected, mgrVars, osVars, tailVars, stopVars, TailInv, TypeOK
<1>8. \A x \in Stops : StopInv(x)'
  BY DEF ManagerInv, StartRejected, mgrVars, osVars, tailVars, stopVars, StopInv, TypeOK
<1>9. QED
  BY <1>1, <1>2, <1>3, <1>4, <1>5, <1>6, <1>7, <1>8 DEF ManagerInv

\* ManagerInv is kept by cmd.Start in Start.
LEMMA SpawnKeeps ==
  ASSUME ManagerInv, NEW p \in Procs, NEW q \in Pids, Spawn(p, q)
  PROVE  ManagerInv'
<1>1. TypeOK'
  BY PidsAssumption DEF ManagerInv, Spawn, mgrVars, tailVars, stopVars, TypeOK
<1>2. \A x \in Procs : LogInv(x)'
  BY PidsAssumption DEF ManagerInv, Spawn, mgrVars, tailVars, stopVars, LogInv, TypeOK,
    PidFree, PidInv
<1>3. \A x \in Procs : WaiterInv(x)'
  <2>1. leader[p] = "none"
    BY DEF ManagerInv, PidInv, Spawn
  <2>2. QED
    BY <2>1 DEF ManagerInv, TypeOK, Spawn, WaiterInv, mgrVars
<1>4. \A x \in Procs, y \in Streams : ReaderInv(x, y)'
  BY PidsAssumption DEF ManagerInv, Spawn, mgrVars, tailVars, stopVars, ReaderInv,
    PipeOpen, TypeOK, WaiterInv
<1>5. \A x \in Procs : PidInv(x)'
  BY PidsAssumption DEF ManagerInv, Spawn, mgrVars, tailVars, stopVars, PidInv, TypeOK,
    PidFree
<1>6. \A x \in Pids : MapInv(x)'
  BY PidsAssumption DEF ManagerInv, Spawn, mgrVars, tailVars, stopVars, MapInv, TypeOK
<1>7. \A x \in Tails : TailInv(x)'
  BY PidsAssumption DEF ManagerInv, Spawn, mgrVars, tailVars, stopVars, TailInv, TypeOK
<1>8. \A x \in Stops : StopInv(x)'
  BY PidsAssumption DEF ManagerInv, Spawn, mgrVars, tailVars, stopVars, StopInv, TypeOK
<1>9. QED
  BY <1>1, <1>2, <1>3, <1>4, <1>5, <1>6, <1>7, <1>8 DEF ManagerInv

\* ManagerInv is kept by os.Create of a log file in Start.
LEMMA CreateLogKeeps ==
  ASSUME ManagerInv, NEW p \in Procs, NEW s \in Streams, CreateLog(p, s)
  PROVE  ManagerInv'
<1>1. TypeOK'
  BY DEF ManagerInv, CreateLog, mgrVars, osVars, tailVars, stopVars, TypeOK, Streams
<1>2. \A x \in Procs, y \in Streams : ReaderInv(x, y)'
  BY DEF ManagerInv, CreateLog, mgrVars, osVars, tailVars, stopVars, ReaderInv, PipeOpen
<1>3. \A x \in Procs : LogInv(x)'
  BY DEF ManagerInv, CreateLog, mgrVars, osVars, tailVars, stopVars, LogInv, TypeOK,
    PidInv, Streams
<1>4. \A x \in Procs : WaiterInv(x)'
  BY DEF ManagerInv, CreateLog, mgrVars, osVars, tailVars, stopVars, WaiterInv, TypeOK
<1>5. \A x \in Procs : PidInv(x)'
  BY DEF ManagerInv, CreateLog, mgrVars, osVars, tailVars, stopVars, PidInv, TypeOK,
    WaiterInv
<1>6. \A x \in Pids : MapInv(x)'
  BY DEF ManagerInv, CreateLog, mgrVars, osVars, tailVars, stopVars, MapInv, TypeOK
<1>7. \A x \in Tails : TailInv(x)'
  BY DEF ManagerInv, CreateLog, mgrVars, osVars, tailVars, stopVars, TailInv, TypeOK
<1>8. \A x \in Stops : StopInv(x)'
  BY DEF ManagerInv, CreateLog, mgrVars, osVars, tailVars, stopVars, StopInv, TypeOK
<1>9. QED
  BY <1>1, <1>2, <1>3, <1>4, <1>5, <1>6, <1>7, <1>8 DEF ManagerInv

\* ManagerInv is kept by the error path of os.Create in Start.
LEMMA CreateLogFailsKeeps ==
  ASSUME ManagerInv, NEW p \in Procs, CreateLogFails(p)
  PROVE  ManagerInv'
<1>1. TypeOK'
  BY DEF ManagerInv, CreateLogFails, mgrVars, tailVars, stopVars, TypeOK, Signal
<1>2. \A x \in Procs, y \in Streams : ReaderInv(x, y)'
  BY DEF ManagerInv, CreateLogFails, mgrVars, tailVars, stopVars, ReaderInv, PipeOpen
<1>3. \A x \in Procs : LogInv(x)'
  BY DEF ManagerInv, CreateLogFails, mgrVars, tailVars, stopVars, LogInv, TypeOK
<1>4. \A x \in Procs : WaiterInv(x)'
  BY DEF ManagerInv, CreateLogFails, mgrVars, tailVars, stopVars, WaiterInv, TypeOK
<1>5. \A x \in Procs : PidInv(x)'
  BY DEF ManagerInv, CreateLogFails, mgrVars, tailVars, stopVars, PidInv, TypeOK, WaiterInv
<1>6. \A x \in Pids : MapInv(x)'
  BY DEF ManagerInv, CreateLogFails, mgrVars, tailVars, stopVars, MapInv, TypeOK
<1>7. \A x \in Tails : TailInv(x)'
  BY DEF ManagerInv, CreateLogFails, mgrVars, tailVars, stopVars, TailInv, TypeOK
<1>8. \A x \in Stops : StopInv(x)'
  BY DEF ManagerInv, CreateLogFails, mgrVars, tailVars, stopVars, StopInv, TypeOK
<1>9. QED
  BY <1>1, <1>2, <1>3, <1>4, <1>5, <1>6, <1>7, <1>8 DEF ManagerInv

\* ManagerInv is kept when Start puts the process into the map and starts its goroutines.
LEMMA RegisterKeeps ==
  ASSUME ManagerInv, NEW p \in Procs, Register(p)
  PROVE  ManagerInv'
<1>1. TypeOK'
  BY ProcsAssumption, PidsAssumption DEF ManagerInv, Register, Entry, osVars, tailVars,
    stopVars, TypeOK
<1>2. \A x \in Procs : LogInv(x)'
  BY ProcsAssumption, PidsAssumption DEF ManagerInv, Register, Entry, osVars, tailVars,
    stopVars, LogInv, TypeOK
<1>3. \A x \in Procs : WaiterInv(x)'
  BY ProcsAssumption, PidsAssumption DEF ManagerInv, Register, Entry, osVars, tailVars,
    stopVars, WaiterInv, TypeOK, PidInv
<1>4. \A x \in Procs, y \in Streams : ReaderInv(x, y)'
  BY ProcsAssumption, PidsAssumption DEF ManagerInv, Register, Entry, osVars, tailVars,
    stopVars, ReaderInv, PipeOpen, TypeOK, WaiterInv
<1>5. \A x \in Procs : PidInv(x)'
  BY ProcsAssumption, PidsAssumption DEF ManagerInv, Register, Entry, osVars, tailVars,
    stopVars, PidInv, TypeOK, WaiterInv, MapInv
<1>6. \A x \in Pids : MapInv(x)'
  BY ProcsAssumption, PidsAssumption DEF ManagerInv, Register, Entry, osVars, tailVars,
    stopVars, MapInv, TypeOK, PidInv
<1>7. \A x \in Tails : TailInv(x)'
  BY ProcsAssumption, PidsAssumption DEF ManagerInv, Register, Entry, osVars, tailVars,
    stopVars, TailInv, TypeOK, WaiterInv
<1>8. \A x \in Stops : StopInv(x)'
  BY ProcsAssumption, PidsAssumption DEF ManagerInv, Register, Entry, osVars, tailVars,
    stopVars, StopInv, TypeOK, WaiterInv
<1>9. QED
  BY <1>1, <1>2, <1>3, <1>4, <1>5, <1>6, <1>7, <1>8 DEF ManagerInv

\* ManagerInv is kept when pipeReader reads and logs a line.
LEMMA ScanKeeps ==
  ASSUME ManagerInv, NEW p \in Procs, NEW s \in Streams, Scan(p, s)
  PROVE  ManagerInv'
<1>1. TypeOK'
  BY BoundsAssumption DEF ManagerInv, Scan, mgrVars, osVars, tailVars, stopVars, TypeOK,
    Lines
<1>2. /\ \A x \in Procs : LogInv(x)'
      /\ \A x \in Procs : WaiterInv(x)'
      /\ \A x \in Procs : PidInv(x)'
      /\ \A x \in Pids : MapInv(x)'
      /\ \A x \in Tails : TailInv(x)'
      /\ \A x \in Stops : StopInv(x)'
  BY DEF ManagerInv, Scan, mgrVars, osVars, tailVars, stopVars, LogInv, WaiterInv, PidInv,
    MapInv, TailInv, StopInv
<1>3. \A x \in Procs, y \in Streams : ReaderInv(x, y)'
  BY BoundsAssumption DEF ManagerInv, Scan, mgrVars, osVars, tailVars, stopVars, ReaderInv,
    PipeOpen, TypeOK, Lines, ReaderEnded
<1>4. QED
  BY <1>1, <1>2, <1>3 DEF ManagerInv

\* ManagerInv is kept when pipeReader hands a line to the subscribers.
LEMMA FanOutKeeps ==
  ASSUME ManagerInv, NEW p \in Procs, NEW s \in Streams, FanOut(p, s)
  PROVE  ManagerInv'
<1>1. TypeOK'
  <2>1. [stream |-> s, line |-> logged[p][s]] \in LineEvents
    BY DEF ManagerInv, TypeOK, LineEvents
  <2>2. \A t \in Tails : channel[t] \in Seq(LineEvents) /\ Len(channel[t]) <= ChanCap
    BY DEF ManagerInv, TypeOK
  <2>3. /\ channel' \in [Tails -> Seq(LineEvents)]
        /\ \A t \in Tails : Len(channel'[t]) <= ChanCap
    BY <2>1, <2>2, BoundsAssumption DEF FanOut, HasRoom
  <2>4. QED
    BY <2>3 DEF ManagerInv, TypeOK, FanOut, mgrVars, osVars, stopVars
<1>2. /\ \A x \in Procs : LogInv(x)'
      /\ \A x \in Procs : WaiterInv(x)'
      /\ \A x \in Procs : PidInv(x)'
      /\ \A x \in Pids : MapInv(x)'
      /\ \A x \in Tails : TailInv(x)'
      /\ \A x \in Stops : StopInv(x)'
  BY DEF ManagerInv, FanOut, mgrVars, osVars, stopVars, LogInv, WaiterInv, PidInv, MapInv,
    TailInv, StopInv
<1>3. \A x \in Procs, y \in Streams : ReaderInv(x, y)'
  BY BoundsAssumption DEF ManagerInv, FanOut, mgrVars, osVars, stopVars, ReaderInv,
    PipeOpen, TypeOK, ReaderEnded
<1>4. QED
  BY <1>1, <1>2, <1>3 DEF ManagerInv

\* ManagerInv is kept when pipeReader ends at end of file.
LEMMA ReaderEOFKeeps ==
  ASSUME ManagerInv, NEW p \in Procs, NEW s \in Streams, ReaderEOF(p, s)
  PROVE  ManagerInv'
<1>1. TypeOK'
  BY DEF ManagerInv, ReaderEOF, AtEOF, mgrVars, osVars, tailVars, stopVars, TypeOK,
    ReaderEnded
<1>2. /\ \A x \in Procs : LogInv(x)'
      /\ \A x \in Procs : WaiterInv(x)'
      /\ \A x \in Procs : PidInv(x)'
      /\ \A x \in Pids : MapInv(x)'
      /\ \A x \in Tails : TailInv(x)'
      /\ \A x \in Stops : StopInv(x)'
  BY DEF ManagerInv, ReaderEOF, AtEOF, mgrVars, osVars, tailVars, stopVars, LogInv,
    WaiterInv, PidInv, MapInv, TailInv, StopInv
<1>3. \A x \in Procs, y \in Streams : ReaderInv(x, y)'
  BY DEF ManagerInv, ReaderEOF, AtEOF, mgrVars, osVars, tailVars, stopVars, ReaderInv,
    PipeOpen, TypeOK, ReaderEnded
<1>4. QED
  BY <1>1, <1>2, <1>3 DEF ManagerInv

\* ManagerInv is kept when pipeReader gives up on a scanner error.
LEMMA ReaderFailsKeeps ==
  ASSUME ManagerInv, NEW p \in Procs, NEW s \in Streams, ReaderFails(p, s)
  PROVE  ManagerInv'
<1>1. TypeOK'
  BY DEF ManagerInv, ReaderFails, mgrVars, osVars, tailVars, stopVars, TypeOK, ReaderEnded
<1>2. /\ \A x \in Procs : LogInv(x)'
      /\ \A x \in Procs : WaiterInv(x)'
      /\ \A x \in Procs : PidInv(x)'
      /\ \A x \in Pids : MapInv(x)'
      /\ \A x \in Tails : TailInv(x)'
      /\ \A x \in Stops : StopInv(x)'
  BY DEF ManagerInv, ReaderFails, mgrVars, osVars, tailVars, stopVars, LogInv, WaiterInv,
    PidInv, MapInv, TailInv, StopInv
<1>3. \A x \in Procs, y \in Streams : ReaderInv(x, y)'
  BY DEF ManagerInv, ReaderFails, mgrVars, osVars, tailVars, stopVars, ReaderInv, PipeOpen,
    TypeOK, ReaderEnded
<1>4. QED
  BY <1>1, <1>2, <1>3 DEF ManagerInv

\* ManagerInv is kept when waitForExit passes pipeWg.Wait.
LEMMA WaitPipesKeeps ==
  ASSUME ManagerInv, NEW p \in Procs, WaitPipes(p)
  PROVE  ManagerInv'
<1>1. TypeOK'
  BY DEF ManagerInv, WaitPipes, ReadersEnded, mgrVars, osVars, tailVars, stopVars, TypeOK
<1>2. /\ \A x \in Procs : LogInv(x)'
      /\ \A x \in Procs : PidInv(x)'
      /\ \A x \in Pids : MapInv(x)'
      /\ \A x \in Tails : TailInv(x)'
      /\ \A x \in Stops : StopInv(x)'
  BY DEF ManagerInv, WaitPipes, ReadersEnded, mgrVars, osVars, tailVars, stopVars, LogInv,
    PidInv, MapInv, TailInv, StopInv
<1>3. \A x \in Procs : WaiterInv(x)'
  BY DEF ManagerInv, WaitPipes, ReadersEnded, mgrVars, osVars, tailVars, stopVars,
    WaiterInv, TypeOK
<1>4. \A x \in Procs, y \in Streams : ReaderInv(x, y)'
  BY DEF ManagerInv, WaitPipes, ReadersEnded, mgrVars, osVars, tailVars, stopVars,
    ReaderInv, PipeOpen, TypeOK
<1>5. QED
  BY <1>1, <1>2, <1>3, <1>4 DEF ManagerInv

\* ManagerInv is kept when waitForExit passes cmd.Wait.
LEMMA ReapKeeps ==
  ASSUME ManagerInv, NEW p \in Procs, Reap(p)
  PROVE  ManagerInv'
<1>1. TypeOK'
  BY DEF ManagerInv, Reap, Reaped, mgrVars, tailVars, stopVars, TypeOK
<1>2. /\ \A x \in Procs : LogInv(x)'
      /\ \A x \in Pids : MapInv(x)'
      /\ \A x \in Tails : TailInv(x)'
      /\ \A x \in Stops : StopInv(x)'
  BY DEF ManagerInv, Reap, Reaped, mgrVars, tailVars, stopVars, LogInv, MapInv, TailInv,
    StopInv
<1>3. \A x \in Procs : WaiterInv(x)'
  BY DEF ManagerInv, Reap, Reaped, mgrVars, tailVars, stopVars, WaiterInv, TypeOK
<1>4. \A x \in Procs, y \in Streams : ReaderInv(x, y)'
  BY DEF ManagerInv, Reap, Reaped, mgrVars, tailVars, stopVars, ReaderInv, PipeOpen, TypeOK
<1>5. \A x \in Procs : PidInv(x)'
  BY DEF ManagerInv, Reap, Reaped, mgrVars, tailVars, stopVars, PidInv, TypeOK, WaiterInv
<1>6. QED
  BY <1>1, <1>2, <1>3, <1>4, <1>5 DEF ManagerInv

\* ManagerInv is kept when waitForExit publishes the exit and closes the channels.
LEMMA PublishKeeps ==
  ASSUME ManagerInv, NEW p \in Procs, Publish(p)
  PROVE  ManagerInv'
<1>1. TypeOK'
  BY ProcsAssumption DEF ManagerInv, Publish, WaitCode, ToClose, SubscribersLeft, osVars,
    stopVars, TypeOK
<1>2. /\ \A x \in Procs : LogInv(x)'
      /\ \A x \in Procs : PidInv(x)'
      /\ \A x \in Pids : MapInv(x)'
      /\ \A x \in Stops : StopInv(x)'
  BY DEF ManagerInv, Publish, WaitCode, ToClose, SubscribersLeft, osVars, stopVars, LogInv,
    PidInv, MapInv, StopInv
<1>3. \A x \in Procs : WaiterInv(x)'
  BY ProcsAssumption DEF ManagerInv, Publish, WaitCode, ToClose, SubscribersLeft, osVars,
    stopVars, WaiterInv, TypeOK
<1>4. \A x \in Procs, y \in Streams : ReaderInv(x, y)'
  BY ProcsAssumption DEF ManagerInv, Publish, WaitCode, ToClose, SubscribersLeft, osVars,
    stopVars, ReaderInv, PipeOpen, TypeOK
<1>5. \A x \in Tails : TailInv(x)'
  <2>1. status[p] = "running" /\ status'[p] = "exited"
    BY DEF ManagerInv, WaiterInv, TypeOK, Publish
  <2> SUFFICES ASSUME NEW t \in Tails PROVE TailInv(t)'
    OBVIOUS
  <2>2. CASE t \in subscribers[p]
    <3>1. tailProc[t] = p /\ TailInv(t)
      BY <2>2 DEF ManagerInv, TypeOK, TailInv
    <3>2. \A o \in Procs : t \notin subscribers'[o]
      BY <2>2, <3>1 DEF ManagerInv, TypeOK, TailInv, Publish, SubscribersLeft
    <3>3. closed'[t]
      BY <2>2 DEF Publish, ToClose
    <3>4. QED
      BY <2>1, <3>1, <3>2, <3>3, ProcsAssumption DEF TailInv, Publish, SubscribersLeft
  <2>3. CASE t \notin subscribers[p]
    <3>1. closed'[t] = closed[t]
      BY <2>3 DEF ManagerInv, TypeOK, Publish, ToClose
    <3>2. \A o \in Procs : t \in subscribers'[o] =>
            o # p /\ t \in subscribers[o] /\ status'[o] = status[o]
      BY <2>3 DEF ManagerInv, TypeOK, Publish, SubscribersLeft
    <3>3. tail[t] \in {"receive", "send"} /\ ~closed[t] => t \in subscribers'[tailProc[t]]
      BY <2>3 DEF ManagerInv, TypeOK, TailInv, Publish, SubscribersLeft
    <3>4. QED
      BY <2>1, <3>1, <3>2, <3>3 DEF ManagerInv, TypeOK, TailInv, Publish, SubscribersLeft
  <2>4. QED
    BY <2>2, <2>3
<1>6. QED
  BY <1>1, <1>2, <1>3, <1>4, <1>5 DEF ManagerInv

\* ManagerInv is kept when waitForExit closes proc.done.
LEMMA CloseDoneKeeps ==
  ASSUME ManagerInv, NEW p \in Procs, CloseDone(p)
  PROVE  ManagerInv'
<1>1. TypeOK'
  BY DEF ManagerInv, CloseDone, DoneClosed, mgrVars, osVars, tailVars, stopVars, TypeOK
<1>2. /\ \A x \in Procs : LogInv(x)'
      /\ \A x \in Procs : PidInv(x)'
      /\ \A x \in Pids : MapInv(x)'
      /\ \A x \in Tails : TailInv(x)'
  BY DEF ManagerInv, CloseDone, DoneClosed, mgrVars, osVars, tailVars, stopVars, LogInv,
    PidInv, MapInv, TailInv
<1>3. \A x \in Procs : WaiterInv(x)'
  BY DEF ManagerInv, CloseDone, DoneClosed, mgrVars, osVars, tailVars, stopVars, WaiterInv,
    TypeOK
<1>4. \A x \in Procs, y \in Streams : ReaderInv(x, y)'
  BY DEF ManagerInv, CloseDone, DoneClosed, mgrVars, osVars, tailVars, stopVars, ReaderInv,
    PipeOpen, TypeOK
<1>5. \A x \in Stops : StopInv(x)'
  BY DEF ManagerInv, CloseDone, DoneClosed, mgrVars, osVars, tailVars, stopVars, StopInv,
    TypeOK
<1>6. QED
  BY <1>1, <1>2, <1>3, <1>4, <1>5 DEF ManagerInv

\* ManagerInv is kept when Tail returns an error.
LEMMA TailRejectedKeeps ==
  ASSUME ManagerInv, NEW t \in Tails, NEW q \in Pids, TailRejected(t, q)
  PROVE  ManagerInv'
<1>1. TypeOK'
  BY DEF ManagerInv, TailRejected, mgrVars, runVars, osVars, stopVars, TypeOK
<1>2. /\ \A x \in Procs : LogInv(x)'
      /\ \A x \in Procs : WaiterInv(x)'
      /\ \A x \in Procs, y \in Streams : ReaderInv(x, y)'
      /\ \A x \in Procs : PidInv(x)'
      /\ \A x \in Pids : MapInv(x)'
      /\ \A x \in Stops : StopInv(x)'
  BY DEF ManagerInv, TailRejected, mgrVars, runVars, osVars, stopVars, LogInv, WaiterInv,
    ReaderInv, PipeOpen, PidInv, MapInv, StopInv
<1>3. \A x \in Tails : TailInv(x)'
  BY DEF ManagerInv, TailRejected, mgrVars, runVars, osVars, stopVars, TailInv, TypeOK
<1>4. QED
  BY <1>1, <1>2, <1>3 DEF ManagerInv

\* ManagerInv is kept when Tail subscribes.
LEMMA SubscribeKeeps ==
  ASSUME ManagerInv, NEW t \in Tails, NEW q \in Pids, Subscribe(t, q)
  PROVE  ManagerInv'
<1>1. TypeOK'
  <2>1. processes[q] \in Procs
    BY DEF ManagerInv, TypeOK, Subscribe
  <2>2. [s \in Streams |-> Fanned(processes[q], s)] \in [Streams -> Lines]
    BY <2>1, BoundsAssumption DEF ManagerInv, TypeOK, ReaderInv, Fanned, Lines
  <2>3. <<>> \in Seq(LineEvents) /\ Len(<<>>) = 0
    OBVIOUS
  <2>4. /\ channel' \in [Tails -> Seq(LineEvents)]
        /\ \A x \in Tails : Len(channel'[x]) <= ChanCap
    BY <2>3, BoundsAssumption DEF ManagerInv, TypeOK, Subscribe, NewChannel
  <2>5. QED
    BY <2>1, <2>2, <2>4 DEF ManagerInv, TypeOK, Subscribe, runVars, osVars, stopVars
<1>2. /\ \A x \in Procs : LogInv(x)'
      /\ \A x \in Procs : WaiterInv(x)'
      /\ \A x \in Procs, y \in Streams : ReaderInv(x, y)'
      /\ \A x \in Procs : PidInv(x)'
      /\ \A x \in Pids : MapInv(x)'
      /\ \A x \in Stops : StopInv(x)'
  BY DEF ManagerInv, Subscribe, runVars, osVars, stopVars, LogInv, WaiterInv, ReaderInv,
    PipeOpen, PidInv, MapInv, StopInv
<1>3. \A x \in Tails : TailInv(x)'
  BY ProcsAssumption DEF ManagerInv, Subscribe, runVars, osVars, stopVars, TailInv, TypeOK,
    MapInv, WaiterInv
<1>4. QED
  BY <1>1, <1>2, <1>3 DEF ManagerInv

\* ManagerInv is kept when Tail sees ctx.Done.
LEMMA TailCancelledKeeps ==
  ASSUME ManagerInv, NEW t \in Tails, TailCancelled(t)
  PROVE  ManagerInv'
<1>1. TypeOK'
  BY DEF ManagerInv, TailCancelled, mgrVars, runVars, osVars, stopVars, TypeOK
<1>2. /\ \A x \in Procs : LogInv(x)'
      /\ \A x \in Procs : WaiterInv(x)'
      /\ \A x \in Procs, y \in Streams : ReaderInv(x, y)'
      /\ \A x \in Procs : PidInv(x)'
      /\ \A x \in Pids : MapInv(x)'
      /\ \A x \in Stops : StopInv(x)'
  BY DEF ManagerInv, TailCancelled, mgrVars, runVars, osVars, stopVars, LogInv, WaiterInv,
    ReaderInv, PipeOpen, PidInv, MapInv, StopInv
<1>3. \A x \in Tails : TailInv(x)'
  BY DEF ManagerInv, TailCancelled, mgrVars, runVars, osVars, stopVars, TailInv, TypeOK
<1>4. QED
  BY <1>1, <1>2, <1>3 DEF ManagerInv

\* ManagerInv is kept when Tail receives an event.
LEMMA ReceiveKeeps ==
  ASSUME ManagerInv, NEW t \in Tails, Receive(t)
  PROVE  ManagerInv'
<1>1. TypeOK'
  <2>1. channel[t] \in Seq(LineEvents) /\ channel[t] # <<>>
    BY DEF ManagerInv, TypeOK, Receive
  <2>2. /\ Head(channel[t]) \in LineEvents
        /\ Tail(channel[t]) \in Seq(LineEvents)
        /\ Len(Tail(channel[t])) <= Len(channel[t])
    BY <2>1
  <2>3. QED
    BY <2>2, BoundsAssumption DEF ManagerInv, TypeOK, Receive, mgrVars, runVars, osVars,
      stopVars
<1>2. /\ \A x \in Procs : LogInv(x)'
      /\ \A x \in Procs : WaiterInv(x)'
      /\ \A x \in Procs, y \in Streams : ReaderInv(x, y)'
      /\ \A x \in Procs : PidInv(x)'
      /\ \A x \in Pids : MapInv(x)'
      /\ \A x \in Stops : StopInv(x)'
  BY DEF ManagerInv, Receive, mgrVars, runVars, osVars, stopVars, LogInv, WaiterInv,
    ReaderInv, PipeOpen, PidInv, MapInv, StopInv
<1>3. \A x \in Tails : TailInv(x)'
  <2>1. channel[t] \in Seq(LineEvents) /\ channel[t] # <<>>
    BY DEF ManagerInv, TypeOK, Receive
  <2>2. Head(channel[t]) \in LineEvents
    BY <2>1
  <2>3. Head(channel[t]) # NoEvent
    BY <2>2, EventAssumption DEF LineEvents, Lines
  <2>4. QED
    BY <2>3 DEF ManagerInv, TypeOK, TailInv, Receive, mgrVars, runVars
<1>4. QED
  BY <1>1, <1>2, <1>3 DEF ManagerInv

\* ManagerInv is kept when Tail sends a line.
LEMMA SendKeeps ==
  ASSUME ManagerInv, NEW t \in Tails, Send(t)
  PROVE  ManagerInv'
<1>1. TypeOK'
  <2>1. /\ held[t] \in LineEvents
        /\ sent[t] \in Seq(LineEvents \cup ExitEvents)
    BY DEF ManagerInv, TypeOK, TailInv, Send
  <2>2. Append(sent[t], held[t]) \in Seq(LineEvents \cup ExitEvents)
    BY <2>1
  <2>3. sent' \in [Tails -> Seq(LineEvents \cup ExitEvents)]
    BY <2>2, ZenonT(60) DEF ManagerInv, TypeOK, Send
  <2>4. \E pc \in {"receive", "remove"} : tail' = [tail EXCEPT ![t] = pc]
    BY Zenon DEF Send
  <2>5. QED
    BY <2>3, <2>4 DEF ManagerInv, TypeOK, Send, mgrVars, runVars, osVars, stopVars
<1>2. /\ \A x \in Procs : LogInv(x)'
      /\ \A x \in Procs : WaiterInv(x)'
      /\ \A x \in Procs, y \in Streams : ReaderInv(x, y)'
      /\ \A x \in Procs : PidInv(x)'
      /\ \A x \in Pids : MapInv(x)'
      /\ \A x \in Stops : StopInv(x)'
  BY DEF ManagerInv, Send, mgrVars, runVars, osVars, stopVars, LogInv, WaiterInv,
    ReaderInv, PipeOpen, PidInv, MapInv, StopInv
<1>3. \A x \in Tails : TailInv(x)'
  BY DEF ManagerInv, Send, mgrVars, runVars, osVars, stopVars, TailInv, TypeOK
<1>4. QED
  BY <1>1, <1>2, <1>3 DEF ManagerInv

\* ManagerInv is kept when Tail sends the exit event.
LEMMA SendExitKeeps ==
  ASSUME ManagerInv, NEW t \in Tails, SendExit(t)
  PROVE  ManagerInv'
<1>1. TypeOK'
  <2> DEFINE code == exitCode[tailProc[t]]
             event == [exit |-> IF code = NoCode THEN 0 ELSE code]
  <2>1. code \in Codes
    BY CodesAssumption DEF ManagerInv, TypeOK, TailInv, WaiterInv, SendExit, ReceiveFails,
      Codes
  <2>2. event \in ExitEvents
    BY <2>1, CodesAssumption DEF ExitEvents, Codes
  <2>3. sent[t] \in Seq(LineEvents \cup ExitEvents)
    BY DEF ManagerInv, TypeOK
  <2>4. Append(sent[t], event) \in Seq(LineEvents \cup ExitEvents)
    BY <2>2, <2>3
  <2>5. sent' = [sent EXCEPT ![t] = Append(sent[t], event)] \/ sent' = sent
    BY DEF SendExit
  <2> HIDE DEF event
  <2>6. sent' \in [Tails -> Seq(LineEvents \cup ExitEvents)]
    BY <2>4, <2>5 DEF ManagerInv, TypeOK
  <2>7. QED
    BY <2>6 DEF ManagerInv, TypeOK, SendExit, mgrVars, runVars, osVars, stopVars
<1>2. /\ \A x \in Procs : LogInv(x)'
      /\ \A x \in Procs : WaiterInv(x)'
      /\ \A x \in Procs, y \in Streams : ReaderInv(x, y)'
      /\ \A x \in Procs : PidInv(x)'
      /\ \A x \in Pids : MapInv(x)'
      /\ \A x \in Stops : StopInv(x)'
  BY DEF ManagerInv, SendExit, ReceiveFails, mgrVars, runVars, osVars, stopVars, LogInv,
    WaiterInv, ReaderInv, PipeOpen, PidInv, MapInv, StopInv
<1>3. \A x \in Tails : TailInv(x)'
  BY CodesAssumption DEF ManagerInv, SendExit, ReceiveFails, mgrVars, runVars, osVars,
    stopVars, TailInv, TypeOK
<1>4. QED
  BY <1>1, <1>2, <1>3 DEF ManagerInv

\* ManagerInv is kept by removeSubscriber.
LEMMA RemoveSubscriberKeeps ==
  ASSUME ManagerInv, NEW t \in Tails, RemoveSubscriber(t)
  PROVE  ManagerInv'
<1>1. TypeOK'
  BY ZenonT(60) DEF ManagerInv, RemoveSubscriber, RemoveOne, runVars, osVars, stopVars, TypeOK
<1>2. /\ \A x \in Procs : LogInv(x)'
      /\ \A x \in Procs : WaiterInv(x)'
      /\ \A x \in Procs, y \in Streams : ReaderInv(x, y)'
      /\ \A x \in Procs : PidInv(x)'
      /\ \A x \in Pids : MapInv(x)'
      /\ \A x \in Stops : StopInv(x)'
  BY DEF ManagerInv, RemoveSubscriber, RemoveOne, runVars, osVars, stopVars, LogInv,
    WaiterInv, ReaderInv, PipeOpen, PidInv, MapInv, StopInv
<1>3. \A x \in Tails : TailInv(x)'
  BY DEF ManagerInv, RemoveSubscriber, RemoveOne, runVars, osVars, stopVars, TailInv, TypeOK
<1>4. QED
  BY <1>1, <1>2, <1>3 DEF ManagerInv

\* ManagerInv is kept when Stop returns NotFound or FailedPrecondition.
LEMMA StopRejectedKeeps ==
  ASSUME ManagerInv, NEW i \in Stops, NEW q \in Pids, StopRejected(i, q)
  PROVE  ManagerInv'
<1>1. TypeOK'
  <2>1. \E pc \in StopReturned : stop' = [stop EXCEPT ![i] = pc]
    BY Zenon DEF StopRejected, StopReturned
  <2>2. stop' \in [Stops -> {"idle"} \cup StopPending \cup StopReturned]
    BY <2>1 DEF ManagerInv, TypeOK
  <2>3. QED
    BY <2>2 DEF ManagerInv, TypeOK, StopRejected, mgrVars, runVars, osVars, tailVars
<1>2. /\ \A x \in Procs : LogInv(x)'
      /\ \A x \in Procs : WaiterInv(x)'
      /\ \A x \in Procs, y \in Streams : ReaderInv(x, y)'
      /\ \A x \in Procs : PidInv(x)'
      /\ \A x \in Pids : MapInv(x)'
      /\ \A x \in Tails : TailInv(x)'
  BY DEF ManagerInv, StopRejected, mgrVars, runVars, osVars, tailVars, LogInv, WaiterInv,
    ReaderInv, PipeOpen, PidInv, MapInv, TailInv
<1>3. \A x \in Stops : StopInv(x)'
  BY DEF ManagerInv, StopRejected, mgrVars, runVars, osVars, tailVars, StopInv, TypeOK
<1>4. QED
  BY <1>1, <1>2, <1>3 DEF ManagerInv

\* ManagerInv is kept when Stop finds a running process.
LEMMA StopCheckKeeps ==
  ASSUME ManagerInv, NEW i \in Stops, NEW q \in Pids, StopCheck(i, q)
  PROVE  ManagerInv'
<1>1. TypeOK'
  BY ProcsAssumption DEF ManagerInv, StopCheck, mgrVars, runVars, osVars, tailVars, TypeOK,
    StopPending
<1>2. /\ \A x \in Procs : LogInv(x)'
      /\ \A x \in Procs : WaiterInv(x)'
      /\ \A x \in Procs, y \in Streams : ReaderInv(x, y)'
      /\ \A x \in Procs : PidInv(x)'
      /\ \A x \in Pids : MapInv(x)'
      /\ \A x \in Tails : TailInv(x)'
  BY DEF ManagerInv, StopCheck, mgrVars, runVars, osVars, tailVars, LogInv, WaiterInv,
    ReaderInv, PipeOpen, PidInv, MapInv, TailInv
<1>3. \A x \in Stops : StopInv(x)'
  BY ProcsAssumption DEF ManagerInv, StopCheck, mgrVars, runVars, osVars, tailVars,
    StopInv, TypeOK, MapInv
<1>4. QED
  BY <1>1, <1>2, <1>3 DEF ManagerInv

\* ManagerInv is kept when Stop sends SIGTERM.
LEMMA SigTermKeeps ==
  ASSUME ManagerInv, NEW i \in Stops, SigTerm(i)
  PROVE  ManagerInv'
<1>1. TypeOK'
  <2>1. sig' \in [Procs -> {"none", "term", "kill"}]
    BY DEF ManagerInv, TypeOK, SigTerm, FinalSignal, StopSignals, Signal
  <2>2. \E pc \in StopPending \cup StopReturned : stop' = [stop EXCEPT ![i] = pc]
    BY Zenon DEF SigTerm, StopSignals, StopPending, StopReturned
  <2>3. stop' \in [Stops -> {"idle"} \cup StopPending \cup StopReturned]
    BY <2>2 DEF ManagerInv, TypeOK
  <2>4. QED
    BY <2>1, <2>3 DEF ManagerInv, TypeOK, SigTerm, StopSignals, mgrVars, runVars, tailVars
<1>2. /\ \A x \in Procs : LogInv(x)'
      /\ \A x \in Procs : WaiterInv(x)'
      /\ \A x \in Procs, y \in Streams : ReaderInv(x, y)'
      /\ \A x \in Procs : PidInv(x)'
      /\ \A x \in Pids : MapInv(x)'
      /\ \A x \in Tails : TailInv(x)'
  BY DEF ManagerInv, SigTerm, StopSignals, mgrVars, runVars, tailVars, LogInv, WaiterInv,
    ReaderInv, PipeOpen, PidInv, MapInv, TailInv
<1>3. \A x \in Stops : StopInv(x)'
  BY DEF ManagerInv, SigTerm, StopSignals, mgrVars, runVars, tailVars, StopInv, TypeOK
<1>4. QED
  BY <1>1, <1>2, <1>3 DEF ManagerInv

\* ManagerInv is kept when Stop sends SIGKILL.
LEMMA SigKillKeeps ==
  ASSUME ManagerInv, NEW i \in Stops, SigKill(i)
  PROVE  ManagerInv'
<1>1. TypeOK'
  <2>1. sig' \in [Procs -> {"none", "term", "kill"}]
    BY DEF ManagerInv, TypeOK, SigKill, FinalSignal, StopSignals, Signal
  <2>2. \E pc \in StopPending \cup StopReturned : stop' = [stop EXCEPT ![i] = pc]
    BY Zenon DEF SigKill, StopSignals, StopPending, StopReturned
  <2>3. stop' \in [Stops -> {"idle"} \cup StopPending \cup StopReturned]
    BY <2>2 DEF ManagerInv, TypeOK
  <2>4. QED
    BY <2>1, <2>3 DEF ManagerInv, TypeOK, SigKill, StopSignals, mgrVars, runVars, tailVars
<1>2. /\ \A x \in Procs : LogInv(x)'
      /\ \A x \in Procs : WaiterInv(x)'
      /\ \A x \in Procs, y \in Streams : ReaderInv(x, y)'
      /\ \A x \in Procs : PidInv(x)'
      /\ \A x \in Pids : MapInv(x)'
      /\ \A x \in Tails : TailInv(x)'
  BY DEF ManagerInv, SigKill, StopSignals, mgrVars, runVars, tailVars, LogInv, WaiterInv,
    ReaderInv, PipeOpen, PidInv, MapInv, TailInv
<1>3. \A x \in Stops : StopInv(x)'
  BY DEF ManagerInv, SigKill, StopSignals, mgrVars, runVars, tailVars, StopInv, TypeOK
<1>4. QED
  BY <1>1, <1>2, <1>3 DEF ManagerInv

\* ManagerInv is kept when Stop sees proc.done closed.
LEMMA StopDoneKeeps ==
  ASSUME ManagerInv, NEW i \in Stops, StopDone(i)
  PROVE  ManagerInv'
<1>1. TypeOK'
  BY DEF ManagerInv, StopDone, SeesDone, mgrVars, runVars, osVars, tailVars, TypeOK,
    StopReturned
<1>2. /\ \A x \in Procs : LogInv(x)'
      /\ \A x \in Procs : WaiterInv(x)'
      /\ \A x \in Procs, y \in Streams : ReaderInv(x, y)'
      /\ \A x \in Procs : PidInv(x)'
      /\ \A x \in Pids : MapInv(x)'
      /\ \A x \in Tails : TailInv(x)'
  BY DEF ManagerInv, StopDone, SeesDone, mgrVars, runVars, osVars, tailVars, LogInv,
    WaiterInv, ReaderInv, PipeOpen, PidInv, MapInv, TailInv
<1>3. \A x \in Stops : StopInv(x)'
  BY DEF ManagerInv, StopDone, SeesDone, mgrVars, runVars, osVars, tailVars, StopInv, TypeOK
<1>4. QED
  BY <1>1, <1>2, <1>3 DEF ManagerInv

\* ManagerInv is kept when the grace period of Stop ends.
LEMMA GraceExpiresKeeps ==
  ASSUME ManagerInv, NEW i \in Stops, GraceExpires(i)
  PROVE  ManagerInv'
<1>1. TypeOK'
  BY DEF ManagerInv, GraceExpires, mgrVars, runVars, osVars, tailVars, TypeOK, StopPending
<1>2. /\ \A x \in Procs : LogInv(x)'
      /\ \A x \in Procs : WaiterInv(x)'
      /\ \A x \in Procs, y \in Streams : ReaderInv(x, y)'
      /\ \A x \in Procs : PidInv(x)'
      /\ \A x \in Pids : MapInv(x)'
      /\ \A x \in Tails : TailInv(x)'
  BY DEF ManagerInv, GraceExpires, mgrVars, runVars, osVars, tailVars, LogInv, WaiterInv,
    ReaderInv, PipeOpen, PidInv, MapInv, TailInv
<1>3. \A x \in Stops : StopInv(x)'
  BY DEF ManagerInv, GraceExpires, mgrVars, runVars, osVars, tailVars, StopInv, TypeOK
<1>4. QED
  BY <1>1, <1>2, <1>3 DEF ManagerInv

\* ManagerInv is kept when StopAll collects the running pids.
LEMMA StopAllBeginsKeeps ==
  ASSUME ManagerInv, StopAllBegins
  PROVE  ManagerInv'
<1>1. TypeOK'
  BY ProcsAssumption DEF ManagerInv, StopAllBegins, mgrVars, runVars, osVars, tailVars,
    TypeOK, StopPending, Stops
<1>2. /\ \A x \in Procs : LogInv(x)'
      /\ \A x \in Procs : WaiterInv(x)'
      /\ \A x \in Procs, y \in Streams : ReaderInv(x, y)'
      /\ \A x \in Procs : PidInv(x)'
      /\ \A x \in Pids : MapInv(x)'
      /\ \A x \in Tails : TailInv(x)'
  BY DEF ManagerInv, StopAllBegins, mgrVars, runVars, osVars, tailVars, LogInv, WaiterInv,
    ReaderInv, PipeOpen, PidInv, MapInv, TailInv
<1>3. \A x \in Stops : StopInv(x)'
  BY ProcsAssumption DEF ManagerInv, StopAllBegins, mgrVars, runVars, osVars, tailVars,
    StopInv, TypeOK, Stops
<1>4. QED
  BY <1>1, <1>2, <1>3 DEF ManagerInv

\* ManagerInv is kept when StopAll returns.
LEMMA StopAllReturnsKeeps ==
  ASSUME ManagerInv, StopAllReturns
  PROVE  ManagerInv'
<1>1. TypeOK'
  BY DEF ManagerInv, StopAllReturns, mgrVars, runVars, osVars, tailVars, TypeOK
<1>2. /\ \A x \in Procs : LogInv(x)'
      /\ \A x \in Procs : WaiterInv(x)'
      /\ \A x \in Procs, y \in Streams : ReaderInv(x, y)'
      /\ \A x \in Procs : PidInv(x)'
      /\ \A x \in Pids : MapInv(x)'
      /\ \A x \in Tails : TailInv(x)'
      /\ \A x \in Stops : StopInv(x)'
  BY DEF ManagerInv, StopAllReturns, mgrVars, runVars, osVars, tailVars, LogInv, WaiterInv,
    ReaderInv, PipeOpen, PidInv, MapInv, TailInv, StopInv
<1>3. QED
  BY <1>1, <1>2 DEF ManagerInv

\* A step that changes nothing keeps ManagerInv.
LEMMA StutterKeeps == ManagerInv /\ UNCHANGED vars => ManagerInv'
<1> SUFFICES ASSUME ManagerInv, UNCHANGED vars PROVE ManagerInv'
  OBVIOUS
<1>1. TypeOK'
  BY DEF ManagerInv, TypeOK, vars, mgrVars, runVars, osVars, tailVars, stopVars
<1>2. \A p \in Procs : (WaiterInv(p) /\ PidInv(p) /\ \A s \in Streams : ReaderInv(p, s))'
  BY DEF ManagerInv, WaiterInv, PidInv, ReaderInv, PipeOpen, vars, mgrVars, runVars, osVars
<1>3. /\ \A p \in Procs : LogInv(p)'
      /\ \A q \in Pids : MapInv(q)'
      /\ \A t \in Tails : TailInv(t)'
      /\ \A i \in Stops : StopInv(i)'
  BY DEF ManagerInv, LogInv, MapInv, TailInv, StopInv, vars, mgrVars, runVars, osVars, tailVars,
    stopVars
<1>4. QED
  BY <1>1, <1>2, <1>3 DEF ManagerInv

\* Every step of the manager and of its environment keeps ManagerInv.
LEMMA StepKeeps == ManagerInv /\ [Next]_vars => ManagerInv'
<1> SUFFICES ASSUME ManagerInv, [Next]_vars PROVE ManagerInv'
  OBVIOUS
<1>1. ASSUME NEW p \in Procs, OSNext(p) PROVE ManagerInv'
  BY <1>1, WriteKeeps, ForkKeeps, LeaderExitKeeps, ChildExitKeeps DEF OSNext
<1>2. ASSUME NEW p \in Procs, StartNext(p) PROVE ManagerInv'
  BY <1>2, StartRejectedKeeps, SpawnKeeps, CreateLogKeeps, CreateLogFailsKeeps,
    RegisterKeeps DEF StartNext
<1>3. ASSUME NEW p \in Procs, WaiterNext(p) PROVE ManagerInv'
  BY <1>3, WaitPipesKeeps, ReapKeeps, PublishKeeps, CloseDoneKeeps DEF WaiterNext
<1>4. ASSUME NEW p \in Procs, NEW s \in Streams, ReaderNext(p, s) PROVE ManagerInv'
  BY <1>4, ScanKeeps, FanOutKeeps, ReaderEOFKeeps, ReaderFailsKeeps DEF ReaderNext
<1>5. ASSUME NEW t \in Tails, TailNext(t) PROVE ManagerInv'
  BY <1>5, TailRejectedKeeps, SubscribeKeeps, TailCancelledKeeps, ReceiveKeeps,
    SendKeeps, SendExitKeeps, RemoveSubscriberKeeps DEF TailNext, TailRuns
<1>6. ASSUME NEW i \in Stops, StopNext(i) PROVE ManagerInv'
  BY <1>6, StopRejectedKeeps, StopCheckKeeps, SigTermKeeps, SigKillKeeps, StopDoneKeeps,
    GraceExpiresKeeps DEF StopNext, StopRuns
<1>7. CASE Terminated \/ UNCHANGED vars
  BY <1>7, StutterKeeps DEF Terminated
<1>8. QED
  BY <1>1, <1>2, <1>3, <1>4, <1>5, <1>6, <1>7, StopAllBeginsKeeps, StopAllReturnsKeeps
  DEF Next

\* ManagerInv is an invariant of the process manager.
THEOREM ManagerInvariant == Spec => []ManagerInv
<1>1. QED
  BY InitEstablishes, StepKeeps, PTL DEF Spec

\* Type correctness, with the bounds of pipes, channels and output.
THEOREM TypeCorrect == Spec => []TypeOK
<1>1. ManagerInv => TypeOK
  BY DEF ManagerInv
<1>2. QED
  BY <1>1, ManagerInvariant, PTL

\* No reader ever sends on, and no waiter ever closes, a closed channel, and a
\* subscribed Tail always has a process that will still close its channel.
THEOREM SubscribersAlwaysOpen == Spec => []SubscribersOpen
<1>1. ManagerInv => SubscribersOpen
  BY DEF ManagerInv, TypeOK, TailInv, SubscribersOpen
<1>2. QED
  BY <1>1, ManagerInvariant, PTL

\* Stop returns nil only when its target has been reaped and published.
THEOREM StopAlwaysMeansGone == Spec => []StopMeansGone
<1>1. ManagerInv => StopMeansGone
  BY DEF ManagerInv, TypeOK, StopInv, WaiterInv, StopMeansGone
<1>2. QED
  BY <1>1, ManagerInvariant, PTL

\* A started process is listed as running and found by its pid until reaped,
\* also when the kernel reuses pids.
THEOREM UnreapedAlwaysListed == Spec => []UnreapedListed
<1>1. ManagerInv => UnreapedListed
  <2> SUFFICES ASSUME ManagerInv, NEW p \in Procs,
                      start[p] = "returned", leader[p] # "reaped"
               PROVE  p \in List(FALSE) /\ processes[pid[p]] = p
    BY DEF UnreapedListed
  <2>1. PidInv(p) /\ pid[p] \in Pids \cup {NoPid}
    BY DEF ManagerInv, TypeOK
  <2>2. pid[p] \in Pids /\ processes[pid[p]] = p
    BY <2>1 DEF PidInv
  <2>3. status[p] = "running"
    BY DEF ManagerInv, TypeOK, WaiterInv
  <2>4. p \in {processes[q] : q \in Pids} \ {NoProc}
    BY <2>2, ProcsAssumption
  <2>5. QED
    BY <2>2, <2>3, <2>4 DEF List
<1>2. QED
  BY <1>1, ManagerInvariant, PTL

\* Where pids are not reused: a process reported exited has been reaped, has
\* no subscriber, carries its real exit code, and Logs returns all it wrote.
THEOREM ExitedAlwaysDrained ==
  ASSUME "pidReuse" \notin Faults
  PROVE  Spec => []ExitedMeansDrained
<1>1. ManagerInv => ExitedMeansDrained
  <2> SUFFICES ASSUME ManagerInv, NEW p \in Procs, status[p] = "exited"
               PROVE  /\ leader[p] = "reaped" /\ exitCode[p] = osCode[p]
                      /\ subscribers[p] = {}
                      /\ \A s \in Streams :
                           /\ reader[p][s] \in ReaderEnded
                           /\ reader[p][s] = "eof" => Logs(pid[p])[s] = <<p, written[p][s]>>
    BY DEF ExitedMeansDrained
  <2>1. /\ leader[p] = "reaped" /\ exitCode[p] = osCode[p]
        /\ start[p] = "returned" /\ waiter[p] \in {"closeDone", "over"}
    BY DEF ManagerInv, TypeOK, WaiterInv
  <2>2. subscribers[p] = {}
    BY DEF ManagerInv, TypeOK, TailInv
  <2>3. \A s \in Streams :
          /\ reader[p][s] \in ReaderEnded
          /\ reader[p][s] = "eof" => logged[p][s] = written[p][s]
    BY <2>1 DEF ManagerInv, ReaderInv
  <2>4. pid[p] \in Pids /\ \A s \in Streams : logOwner[pid[p]][s] = p
    BY <2>1 DEF ManagerInv, TypeOK, LogInv, PidInv, Streams
  <2>5. \A s \in Streams : Logs(pid[p])[s] = <<p, logged[p][s]>>
    BY <2>4, ProcsAssumption DEF Logs
  <2>6. QED
    BY <2>1, <2>2, <2>3, <2>5
<1>2. QED
  BY <1>1, ManagerInvariant, PTL

\* No step of anybody changes the status, the exit code or the number of logged lines
\* of a process that has been published as exited, also when its pid is reused.
THEOREM ExitedStaysFinal == Spec => ExitedIsFinal
<1> DEFINE Final(p) == /\ status'[p] = "exited" /\ exitCode'[p] = exitCode[p]
                       /\ logged'[p] = logged[p] /\ leader'[p] = "reaped"
<1>1. ASSUME ManagerInv, [Next]_vars, NEW p \in Procs, status[p] = "exited"
      PROVE  Final(p)
  <2>1. /\ leader[p] = "reaped" /\ start[p] = "returned"
        /\ waiter[p] \in {"closeDone", "over"}
        /\ \A s \in Streams : reader[p][s] \in ReaderEnded
    BY <1>1 DEF ManagerInv, TypeOK, WaiterInv, ReaderInv
  <2>2. ASSUME NEW o \in Procs, OSNext(o) PROVE Final(p)
    BY <1>1, <2>1, <2>2 DEF OSNext, Write, Fork, LeaderExit, ChildExit, ManagerInv, TypeOK,
      mgrVars, runVars
  <2>3. ASSUME NEW o \in Procs, StartNext(o) PROVE Final(p)
    BY <1>1, <2>1, <2>3 DEF StartNext, StartRejected, Spawn, CreateLog, CreateLogFails,
      Register, ManagerInv, TypeOK, mgrVars, osVars
  <2>4. ASSUME NEW o \in Procs, WaiterNext(o) PROVE Final(p)
    BY <1>1, <2>1, <2>4 DEF WaiterNext, WaitPipes, Reap, Reaped, Publish, CloseDone,
      ManagerInv, TypeOK, mgrVars, osVars
  <2>5. ASSUME NEW o \in Procs, NEW s \in Streams, ReaderNext(o, s) PROVE Final(p)
    BY <1>1, <2>1, <2>5 DEF ReaderNext, Scan, FanOut, ReaderEOF, ReaderFails, ReaderEnded,
      ManagerInv, TypeOK, mgrVars, osVars
  <2>6. ASSUME NEW t \in Tails, TailNext(t) PROVE Final(p)
    BY <1>1, <2>1, <2>6 DEF TailNext, TailRuns, TailRejected, Subscribe, TailCancelled,
      Receive, Send, SendExit, RemoveSubscriber, mgrVars, runVars, osVars
  <2>7. ASSUME NEW i \in Stops, StopNext(i) PROVE Final(p)
    BY <1>1, <2>1, <2>7 DEF StopNext, StopRuns, StopRejected, StopCheck, SigTerm, SigKill,
      StopSignals, StopDone, GraceExpires, mgrVars, runVars, osVars
  <2>8. CASE StopAllBegins \/ StopAllReturns \/ Terminated \/ UNCHANGED vars
    BY <1>1, <2>1, <2>8 DEF StopAllBegins, StopAllReturns, Terminated, vars, mgrVars,
      runVars, osVars
  <2>9. QED
    BY <1>1, <2>2, <2>3, <2>4, <2>5, <2>6, <2>7, <2>8 DEF Next
<1>2. ManagerInv /\ [Next]_vars =>
        [\A p \in Procs : status[p] = "exited" => Final(p)]_vars
  BY <1>1
<1>3. QED
  BY <1>2, ManagerInvariant, PTL DEF Spec, ExitedIsFinal

-----------------------------------------------------------------------------
(* Signals and StopAll: what the pids that Stop works with stand for. *)

\* What a step does to the operating system's side of a process: a process keeps
\* its pid, and a reaped leader stays reaped.
LEMMA PidStable ==
  ASSUME ManagerInv, [Next]_vars, NEW p \in Procs, start[p] \notin {"idle", "rejected"}
  PROVE  /\ pid'[p] = pid[p]
         /\ leader[p] = "reaped" => leader'[p] = "reaped"
         /\ start[p] = "returned" => start'[p] = "returned"
         /\ start'[p] \notin {"idle", "rejected"}
<1> DEFINE Kept == /\ pid'[p] = pid[p]
                   /\ leader[p] = "reaped" => leader'[p] = "reaped"
                   /\ start[p] = "returned" => start'[p] = "returned"
                   /\ start'[p] \notin {"idle", "rejected"}
<1> USE DEF ManagerInv, TypeOK
<1>1. ASSUME NEW o \in Procs, OSNext(o) PROVE Kept
  BY <1>1 DEF OSNext, Write, Fork, LeaderExit, ChildExit, runVars
<1>2. ASSUME NEW o \in Procs, StartNext(o) PROVE Kept
  BY <1>2 DEF StartNext, StartRejected, Spawn, CreateLog, CreateLogFails, Register, osVars
<1>3. ASSUME NEW o \in Procs, WaiterNext(o) PROVE Kept
  BY <1>3 DEF WaiterNext, WaitPipes, Reap, Reaped, Publish, CloseDone, osVars
<1>4. ASSUME NEW o \in Procs, NEW s \in Streams, ReaderNext(o, s) PROVE Kept
  BY <1>4 DEF ReaderNext, Scan, FanOut, ReaderEOF, ReaderFails, osVars
<1>5. ASSUME NEW t \in Tails, TailNext(t) PROVE Kept
  BY <1>5 DEF TailNext, TailRuns, TailRejected, Subscribe, TailCancelled,
    Receive, Send, SendExit, RemoveSubscriber, runVars, osVars
<1>6. ASSUME NEW i \in Stops, StopNext(i) PROVE Kept
  BY <1>6 DEF StopNext, StopRuns, StopRejected, StopCheck, SigTerm, SigKill,
    StopSignals, StopDone, GraceExpires, runVars, osVars
<1>7. CASE StopAllBegins \/ StopAllReturns \/ Terminated \/ UNCHANGED vars
  BY <1>7 DEF StopAllBegins, StopAllReturns, Terminated, vars, runVars, osVars
<1>8. QED
  BY <1>1, <1>2, <1>3, <1>4, <1>5, <1>6, <1>7 DEF Next

\* A process that has lost its pid to another one gets nothing into its group any
\* more: only a living leader leaves descendants behind.
LEMMA GroupInvKept ==
  ASSUME ManagerInv, \A p \in Procs : GroupInv(p), [Next]_vars
  PROVE  \A p \in Procs : GroupInv(p)'
<1> DEFINE Quiet == pid' = pid /\ leader' = leader /\ child' = child
<1>1. CASE Quiet
  BY <1>1 DEF GroupInv, GroupAlive
<1>2. ASSUME NEW o \in Procs, OSNext(o) PROVE \A p \in Procs : GroupInv(p)'
  <2>1. ASSUME NEW k \in ChildKinds, Fork(o, k) PROVE \A p \in Procs : GroupInv(p)'
    BY <2>1 DEF Fork, ManagerInv, TypeOK, GroupInv, GroupAlive
  <2>2. ASSUME NEW c \in Codes, LeaderExit(o, c) PROVE \A p \in Procs : GroupInv(p)'
    BY <2>2 DEF LeaderExit, ManagerInv, TypeOK, GroupInv, GroupAlive
  <2>3. CASE ChildExit(o)
    BY <2>3 DEF ChildExit, ManagerInv, TypeOK, GroupInv, GroupAlive
  <2>4. CASE \E s \in Streams : Write(o, s)
    BY <2>4, <1>1 DEF Write
  <2>5. QED
    BY <1>2, <2>1, <2>2, <2>3, <2>4 DEF OSNext
<1>3. ASSUME NEW o \in Procs, StartNext(o) PROVE \A p \in Procs : GroupInv(p)'
  <2>1. ASSUME NEW q \in Pids, Spawn(o, q) PROVE \A p \in Procs : GroupInv(p)'
    <3>1. /\ pid' = [pid EXCEPT ![o] = q] /\ leader' = [leader EXCEPT ![o] = "alive"]
          /\ child' = child
      BY <2>1 DEF Spawn
    <3>2. \A x \in Procs : pid[x] = q => leader[x] = "reaped" /\ ~GroupAlive(x)
      BY <2>1 DEF Spawn, PidFree
    <3>3. \A x \in Procs : x # o =>
            /\ pid'[x] = pid[x] /\ leader'[x] = leader[x] /\ GroupAlive(x)' = GroupAlive(x)
      BY <3>1 DEF GroupAlive, ManagerInv, TypeOK
    <3>4. pid'[o] = q
      BY <3>1 DEF ManagerInv, TypeOK
    <3>5. QED
      BY <3>2, <3>3, <3>4 DEF GroupInv
  <2>2. CASE StartRejected(o) \/ CreateLogFails(o) \/ Register(o) \/ \E s \in Streams : CreateLog(o, s)
    BY <2>2, <1>1 DEF StartRejected, CreateLogFails, Register, CreateLog, osVars
  <2>3. QED
    BY <1>3, <2>1, <2>2 DEF StartNext
<1>4. ASSUME NEW o \in Procs, WaiterNext(o) PROVE \A p \in Procs : GroupInv(p)'
  <2>1. CASE Reap(o)
    BY <2>1 DEF Reap, Reaped, ManagerInv, TypeOK, GroupInv, GroupAlive
  <2>2. CASE WaitPipes(o) \/ Publish(o) \/ CloseDone(o)
    BY <2>2, <1>1 DEF WaitPipes, Publish, CloseDone, osVars
  <2>3. QED
    BY <1>4, <2>1, <2>2 DEF WaiterNext
<1>5. ASSUME NEW o \in Procs, NEW s \in Streams, ReaderNext(o, s) PROVE Quiet
  BY <1>5 DEF ReaderNext, Scan, FanOut, ReaderEOF, ReaderFails, osVars
<1>6. ASSUME NEW t \in Tails, TailNext(t) PROVE Quiet
  BY <1>6 DEF TailNext, TailRuns, TailRejected, Subscribe, TailCancelled,
    Receive, Send, SendExit, RemoveSubscriber, osVars
<1>7. ASSUME NEW i \in Stops, StopNext(i) PROVE Quiet
  BY <1>7 DEF StopNext, StopRuns, StopRejected, StopCheck, SigTerm, SigKill,
    StopSignals, StopDone, GraceExpires, osVars
<1>8. StopAllBegins \/ StopAllReturns \/ Terminated \/ UNCHANGED vars => Quiet
  BY DEF StopAllBegins, StopAllReturns, Terminated, vars, osVars
<1>9. QED
  BY <1>1, <1>2, <1>3, <1>4, <1>5, <1>6, <1>7, <1>8 DEF Next

\* The Stop calls of StopAll work on the processes of its snapshot: while such a
\* process is not reaped its pid leads to it and to no other.
LEMMA SnapshotInvKept ==
  ASSUME ManagerInv, SnapshotInv, [Next]_vars
  PROVE  SnapshotInv'
<1> DEFINE Quiet == stop' = stop /\ stopProc' = stopProc /\ stopAll' = stopAll /\ snapshot' = snapshot
<1>1. snapshot \subseteq Procs /\ \A p \in snapshot : start[p] = "returned"
  BY DEF ManagerInv, TypeOK, SnapshotInv
<1>2. \A p \in snapshot : /\ start'[p] = "returned" /\ pid'[p] = pid[p]
                          /\ leader'[p] # "reaped" => leader[p] # "reaped"
  BY <1>1, PidStable
<1>3. CASE Quiet
  BY <1>2, <1>3 DEF SnapshotInv, StopsReturned
<1>4. \A p \in snapshot : leader[p] # "reaped" =>
        /\ pid[p] \in Pids /\ processes[pid[p]] = p /\ status[p] = "running" /\ ~done[p]
  <2>1. SUFFICES ASSUME NEW p \in snapshot, leader[p] # "reaped"
                 PROVE  /\ pid[p] \in Pids /\ processes[pid[p]] = p
                        /\ status[p] = "running" /\ ~done[p]
    OBVIOUS
  <2>2. p \in Procs /\ start[p] = "returned" /\ PidInv(p) /\ WaiterInv(p)
    BY <1>1 DEF ManagerInv
  <2>3. pid[p] \in Pids \cup {NoPid}
    BY <2>2 DEF ManagerInv, TypeOK
  <2>4. pid[p] \in Pids /\ processes[pid[p]] = p
    BY <2>1, <2>2, <2>3 DEF PidInv
  <2>5. QED
    BY <2>1, <2>2, <2>4 DEF WaiterInv, ManagerInv, TypeOK
<1>5. ASSUME NEW i \in Stops, StopNext(i) PROVE SnapshotInv'
  <2>1. stopAll' = stopAll /\ snapshot' = snapshot
    BY <1>5 DEF StopNext, StopRuns, StopRejected, StopCheck, SigTerm, SigKill,
      StopSignals, StopDone, GraceExpires, stopVars
  <2>2. stopAll = "idle" => \A q \in Pids : stop'[q] = "idle"
    <3>1. SUFFICES ASSUME stopAll = "idle", NEW q \in Pids PROVE stop'[q] = "idle"
      OBVIOUS
    <3>2. stop[q] = "idle" /\ q \in Stops
      BY <3>1 DEF SnapshotInv, Stops
    <3>3. i # q
      BY <1>5, <3>1, <3>2, PidsAssumption DEF StopNext, StopRuns, StopRejected, StopCheck, StopBegins,
        SigTerm, SigKill, StopDone, GraceExpires
    <3>4. \E pc : stop' = [stop EXCEPT ![i] = pc]
      BY <1>5, Zenon DEF StopNext, StopRuns, StopRejected, StopCheck, SigTerm, SigKill,
        StopSignals, StopDone, GraceExpires
    <3>5. QED
      BY <3>2, <3>3, <3>4 DEF ManagerInv, TypeOK
  <2>5. stopAll = "returned" => \A q \in Pids : stop'[q] \notin StopPending
    <3>1. SUFFICES ASSUME stopAll = "returned", NEW q \in Pids PROVE stop'[q] \notin StopPending
      OBVIOUS
    <3>2. stop[q] \notin StopPending /\ q \in Stops
      BY <3>1 DEF SnapshotInv, StopsReturned, Stops
    <3>3. i # q
      BY <1>5, <3>1, <3>2, PidsAssumption DEF StopNext, StopRuns, StopRejected, StopCheck, StopBegins,
        SigTerm, SigKill, StopDone, GraceExpires, StopPending
    <3>4. \E pc : stop' = [stop EXCEPT ![i] = pc]
      BY <1>5, Zenon DEF StopNext, StopRuns, StopRejected, StopCheck, SigTerm, SigKill,
        StopSignals, StopDone, GraceExpires
    <3>5. QED
      BY <3>2, <3>3, <3>4 DEF ManagerInv, TypeOK
  <2>3. ASSUME NEW p \in snapshot, leader'[p] # "reaped"
        PROVE  \/ stop'[pid[p]] \in {"check", "error"}
               \/ stop'[pid[p]] \in {"term", "wait", "kill", "final"} /\ stopProc'[pid[p]] = p
    <3>1. /\ leader[p] # "reaped" /\ pid[p] \in Pids /\ pid[p] \in Stops
          /\ processes[pid[p]] = p /\ status[p] = "running" /\ ~done[p]
      BY <2>3, <1>2, <1>4 DEF Stops
    <3>2. \/ stop[pid[p]] \in {"check", "error"}
          \/ stop[pid[p]] \in {"term", "wait", "kill", "final"} /\ stopProc[pid[p]] = p
      BY <3>1 DEF SnapshotInv
    <3>3. CASE i # pid[p]
      <4>1. /\ \E pc : stop' = [stop EXCEPT ![i] = pc]
            /\ \E o : stopProc' = [stopProc EXCEPT ![i] = o]
        <5>1. \E pc : stop' = [stop EXCEPT ![i] = pc]
          BY <1>5, Zenon DEF StopNext, StopRuns, StopRejected, StopCheck, SigTerm, SigKill,
            StopSignals, StopDone, GraceExpires
        <5>2. stopProc' = stopProc \/ \E o : stopProc' = [stopProc EXCEPT ![i] = o]
          BY <1>5, Zenon DEF StopNext, StopRuns, StopRejected, StopCheck, SigTerm, SigKill,
            StopSignals, StopDone, GraceExpires
        <5>3. stopProc = [stopProc EXCEPT ![i] = stopProc[i]]
          BY DEF ManagerInv, TypeOK
        <5>4. QED
          BY <5>1, <5>2, <5>3
      <4>2. QED
        BY <3>1, <3>2, <3>3, <4>1 DEF ManagerInv, TypeOK
    <3>4. ASSUME i = pid[p], NEW q \in Pids, StopRejected(i, q) \/ StopCheck(i, q)
          PROVE  stop'[i] = "term" /\ stopProc'[i] = p
      <4>1. q = i
        BY <3>1, <3>4, PidsAssumption DEF StopRejected, StopCheck, StopBegins
      <4>2. QED
        BY <3>1, <3>4, <4>1, ProcsAssumption DEF StopRejected, StopCheck, ManagerInv, TypeOK
    <3>5. CASE i = pid[p] /\ (SigTerm(i) \/ SigKill(i))
      BY <3>1, <3>2, <3>5 DEF SigTerm, SigKill, StopSignals, ManagerInv, TypeOK
    <3>6. CASE i = pid[p] /\ (StopDone(i) \/ GraceExpires(i))
      BY <3>1, <3>2, <3>6 DEF StopDone, SeesDone, GraceExpires, ManagerInv, TypeOK
    <3>7. QED
      BY <1>5, <3>3, <3>4, <3>5, <3>6 DEF StopNext, StopRuns
  <2>4. \A j \in Stops : stop'[j] \in {"idle", "check"} => stopProc'[j] = NoProc
    BY <1>5 DEF StopNext, StopRuns, StopRejected, StopCheck, SigTerm, SigKill, StopSignals,
      StopDone, GraceExpires, SnapshotInv, ManagerInv, TypeOK
  <2>6. QED
    BY <1>2, <2>1, <2>2, <2>3, <2>4, <2>5 DEF SnapshotInv, StopsReturned
<1>6. CASE StopAllBegins
  <2> DEFINE pids == {q \in Pids : processes[q] # NoProc /\ status[processes[q]] = "running"}
  <2>1. /\ stopAll' = "waiting" /\ snapshot' = {processes[q] : q \in pids}
        /\ stop' = [i \in Stops |-> IF i \in pids THEN "check" ELSE stop[i]]
        /\ start' = start /\ pid' = pid
    BY <1>6 DEF StopAllBegins, runVars, osVars
  <2>2. \A q \in pids : start[processes[q]] = "returned" /\ pid[processes[q]] = q /\ q \in Stops
    BY DEF ManagerInv, MapInv, Stops
  <2>3. stopProc' = stopProc /\ \A q \in Pids : stop[q] = "idle"
    BY <1>6 DEF StopAllBegins, SnapshotInv
  <2>4. \A j \in Stops : stop'[j] \in {"idle", "check"} => stopProc'[j] = NoProc
    BY <2>1, <2>3 DEF SnapshotInv
  <2>5. QED
    BY <2>1, <2>2, <2>4 DEF SnapshotInv
<1>7. CASE StopAllReturns
  BY <1>2, <1>7 DEF StopAllReturns, SnapshotInv, StopsReturned
<1>8. ASSUME NEW o \in Procs, OSNext(o) PROVE Quiet
  BY <1>8 DEF OSNext, Write, Fork, LeaderExit, ChildExit, stopVars
<1>9. ASSUME NEW o \in Procs, StartNext(o) PROVE Quiet
  BY <1>9 DEF StartNext, StartRejected, Spawn, CreateLog, CreateLogFails, Register, stopVars
<1>10. ASSUME NEW o \in Procs, WaiterNext(o) PROVE Quiet
  BY <1>10 DEF WaiterNext, WaitPipes, Reap, Publish, CloseDone, stopVars
<1>11. ASSUME NEW o \in Procs, NEW s \in Streams, ReaderNext(o, s) PROVE Quiet
  BY <1>11 DEF ReaderNext, Scan, FanOut, ReaderEOF, ReaderFails, stopVars
<1>12. ASSUME NEW t \in Tails, TailNext(t) PROVE Quiet
  BY <1>12 DEF TailNext, TailRuns, TailRejected, Subscribe, TailCancelled,
    Receive, Send, SendExit, RemoveSubscriber, stopVars
<1>13. Terminated \/ UNCHANGED vars => Quiet
  BY DEF Terminated, vars, stopVars
<1>14. QED
  BY <1>3, <1>5, <1>6, <1>7, <1>8, <1>9, <1>10, <1>11, <1>12, <1>13 DEF Next

\* ManagerInv with the parts about groups and about StopAll's snapshot.
THEOREM StopInvariant == Spec => [](ManagerInv /\ SnapshotInv /\ \A p \in Procs : GroupInv(p))
<1> DEFINE GInv == \A p \in Procs : GroupInv(p)
<1>1. Init => SnapshotInv /\ GInv
  BY DEF Init, SnapshotInv, GroupInv, Stops
<1>2. ManagerInv /\ SnapshotInv /\ GInv /\ [Next]_vars => SnapshotInv' /\ GInv'
  BY SnapshotInvKept, GroupInvKept
<1>3. QED
  BY <1>1, <1>2, InitEstablishes, StepKeeps, PTL DEF Spec

\* StopAll returns only when every process it saw running is reaped or its Stop
\* reported that the kernel refused the signal.
THEOREM StopAllAlwaysStops == Spec => []StopAllStopsSnapshot
<1>1. ManagerInv /\ SnapshotInv => StopAllStopsSnapshot
  <2>1. SUFFICES ASSUME ManagerInv, SnapshotInv, stopAll = "returned", NEW p \in snapshot,
                        leader[p] # "reaped"
                 PROVE  stop[pid[p]] = "error"
    BY DEF StopAllStopsSnapshot
  <2>2. pid[p] \in Pids
    <3>1. p \in Procs /\ start[p] = "returned" /\ PidInv(p)
      BY <2>1 DEF ManagerInv, TypeOK, SnapshotInv
    <3>2. pid[p] \in Pids \cup {NoPid}
      BY <2>1, <3>1 DEF ManagerInv, TypeOK
    <3>3. QED
      BY <3>1, <3>2 DEF PidInv
  <2>3. QED
    BY <2>1, <2>2 DEF SnapshotInv, StopsReturned, StopPending
<1>2. QED
  BY <1>1, StopInvariant, PTL

\* Only Start's error path and a Stop call send signals, and each reaches the group
\* of its own process, or, when that process was reaped and its pid is in use
\* again, the group of the process that has got the pid.
THEOREM SignalsReachTarget == Spec => SignalReachesTarget
<1> DEFINE GInv == \A p \in Procs : GroupInv(p)
           Aimed(p) == \/ start'[p] = "failed" /\ start[p] # "failed"
                       \/ \E i \in Stops :
                            /\ stop'[i] # stop[i]
                            /\ \/ stopProc[i] = p
                               \/ leader[stopProc[i]] = "reaped" /\ pid[stopProc[i]] = pid[p]
<1>1. ASSUME ManagerInv, GInv, Next, NEW p \in Procs, sig'[p] # sig[p] PROVE Aimed(p)
  <2>1. ASSUME NEW o \in Procs, CreateLogFails(o) PROVE Aimed(p)
    <3>1. p \in Group(pid[o]) /\ start[o] \in {"spawned", "stdoutLog"}
      BY <1>1, <2>1 DEF CreateLogFails, Signal, ManagerInv, TypeOK
    <3>2. pid[o] # NoPid /\ leader[o] # "reaped" /\ pid[p] = pid[o] /\ GroupAlive(p)
      BY <1>1, <3>1 DEF ManagerInv, WaiterInv, PidInv, TypeOK, Group
    <3>3. o = p
      BY <1>1, <3>2 DEF GroupInv
    <3>4. QED
      BY <1>1, <2>1, <3>1, <3>3 DEF CreateLogFails, ManagerInv, TypeOK
  <2>2. ASSUME NEW i \in Stops, SigTerm(i) \/ SigKill(i) PROVE Aimed(p)
    <3>1. p \in Group(pid[stopProc[i]]) /\ stop'[i] # stop[i]
      BY <1>1, <2>2 DEF SigTerm, SigKill, FinalSignal, StopSignals, StopGroup, Signal, ManagerInv, TypeOK
    <3>2. stopProc[i] \in Procs /\ start[stopProc[i]] = "returned"
      BY <1>1, <2>2 DEF SigTerm, SigKill, ManagerInv, TypeOK, StopInv
    <3>3. pid[stopProc[i]] # NoPid /\ pid[p] = pid[stopProc[i]] /\ GroupAlive(p)
      BY <1>1, <3>1, <3>2 DEF ManagerInv, PidInv, Group
    <3>4. stopProc[i] = p \/ leader[stopProc[i]] = "reaped"
      BY <1>1, <3>2, <3>3 DEF GroupInv
    <3>5. QED
      BY <3>1, <3>3, <3>4
  <2>3. ASSUME NEW o \in Procs, OSNext(o) PROVE sig' = sig
    BY <2>3 DEF OSNext, Write, Fork, LeaderExit, ChildExit
  <2>4. ASSUME NEW o \in Procs, StartNext(o), ~CreateLogFails(o) PROVE sig' = sig
    BY <2>4 DEF StartNext, StartRejected, Spawn, CreateLog, Register, osVars
  <2>5. ASSUME NEW o \in Procs, WaiterNext(o) PROVE sig' = sig
    BY <2>5 DEF WaiterNext, WaitPipes, Reap, Publish, CloseDone, osVars
  <2>6. ASSUME NEW o \in Procs, NEW s \in Streams, ReaderNext(o, s) PROVE sig' = sig
    BY <2>6 DEF ReaderNext, Scan, FanOut, ReaderEOF, ReaderFails, osVars
  <2>7. ASSUME NEW t \in Tails, TailNext(t) PROVE sig' = sig
    BY <2>7 DEF TailNext, TailRuns, TailRejected, Subscribe, TailCancelled,
      Receive, Send, SendExit, RemoveSubscriber, osVars
  <2>8. ASSUME NEW i \in Stops, StopNext(i), ~SigTerm(i), ~SigKill(i) PROVE sig' = sig
    BY <2>8 DEF StopNext, StopRuns, StopRejected, StopCheck, StopDone, GraceExpires, osVars
  <2>9. StopAllBegins \/ StopAllReturns \/ Terminated => sig' = sig
    BY DEF StopAllBegins, StopAllReturns, Terminated, vars, osVars
  <2>10. QED
    BY <1>1, <2>1, <2>2, <2>3, <2>4, <2>5, <2>6, <2>7, <2>8, <2>9 DEF Next
<1>2. ManagerInv /\ GInv /\ [Next]_vars => [\A p \in Procs : sig'[p] # sig[p] => Aimed(p)]_vars
  BY <1>1
<1>3. QED
  BY <1>2, StopInvariant, PTL DEF Spec, SignalReachesTarget

-----------------------------------------------------------------------------
(***************************************************************************)
(* What a Tail client is sent.  Everything on its way to a client is one   *)
(* sequence, Stream(t): a receive and a successful send only move events   *)
(* along it, a line fanned out and the exit event extend it at its end,    *)
(* and a failed send takes one event out of it.                            *)
(***************************************************************************)

-----------------------------------------------------------------------------
(* Events *)

Events == LineEvents \cup ExitEvents

\* A line is not an exit event, an exit event is one, and NoEvent is neither.
LEMMA EventKinds ==
  /\ \A e \in LineEvents : ~IsExit(e) /\ e.stream \in Streams /\ e.line \in Lines
  /\ \A e \in ExitEvents : IsExit(e) /\ e.exit \in Codes
  /\ NoEvent \notin LineEvents
<1>1. \A e \in LineEvents : ~IsExit(e) /\ e.stream \in Streams /\ e.line \in Lines
  BY DEF LineEvents, IsExit
<1>2. \A e \in ExitEvents : IsExit(e) /\ e.exit \in Codes
  BY DEF ExitEvents, IsExit
<1>3. NoEvent \notin LineEvents
  BY EventAssumption DEF LineEvents, Lines
<1>4. QED
  BY <1>1, <1>2, <1>3

\* Both kinds of events are events of the lemmas on streams.
LEMMA EventsLinear == Linear(Events)
<1>1. QED
  BY EventKinds, BoundsAssumption DEF Linear, Events, Lines

-----------------------------------------------------------------------------
(* The steps of the calls and of the readers, seen from the stream *)

\* Concatenation of events is associative.
LEMMA EventsAssociative ==
  ASSUME NEW a \in Seq(Events), NEW b \in Seq(Events), NEW c \in Seq(Events)
  PROVE  (a \o b) \o c = a \o (b \o c)
<1>1. QED
  BY ConcatAssociative

\* What is on its way to the client of t, as the calls move it along.
LEMMA StreamTypes ==
  ASSUME ManagerInv, NEW t \in Tails
  PROVE  /\ sent[t] \in Seq(Events) /\ channel[t] \in Seq(Events) /\ Stream(t) \in Seq(Events)
         /\ held[t] = NoEvent => Stream(t) = sent[t] \o channel[t]
         /\ held[t] # NoEvent => held[t] \in LineEvents /\ Stream(t) = sent[t] \o <<held[t]>> \o channel[t]
<1>1. /\ sent[t] \in Seq(Events) /\ channel[t] \in Seq(LineEvents)
      /\ held[t] \in LineEvents \cup {NoEvent}
  BY DEF ManagerInv, TypeOK, Events
<1>2. channel[t] \in Seq(Events)
  BY <1>1 DEF Events
<1>3. CASE held[t] = NoEvent
  <2>1. Stream(t) = sent[t] \o <<>> \o channel[t]
    BY <1>3 DEF Stream
  <2>2. sent[t] \o <<>> = sent[t]
    BY <1>1, ConcatEmptySeq
  <2>3. Stream(t) = sent[t] \o channel[t]
    BY <2>1, <2>2
  <2>4. QED
    BY <1>1, <1>2, <1>3, <2>3, ConcatProperties
<1>4. CASE held[t] # NoEvent
  <2>1. Stream(t) = sent[t] \o <<held[t]>> \o channel[t]
    BY <1>4 DEF Stream
  <2>2. <<held[t]>> \in Seq(Events)
    BY <1>1, <1>4 DEF Events
  <2>3. sent[t] \o <<held[t]>> \in Seq(Events)
    BY <1>1, <2>2, ConcatProperties
  <2>4. Stream(t) \in Seq(Events)
    BY <1>2, <2>1, <2>3, ConcatProperties
  <2>5. QED
    BY <1>1, <1>2, <1>4, <2>1, <2>4
<1>5. QED
  BY <1>3, <1>4

\* Receive and a successful Send move events along and lose none.
LEMMA StreamMoves ==
  ASSUME ManagerInv, ManagerInv', NEW t \in Tails,
         Receive(t) \/ (Send(t) /\ tail'[t] = "receive")
  PROVE  Stream(t)' = Stream(t)
<1>1. CASE Receive(t)
  <2>1. /\ held[t] = NoEvent /\ channel[t] # <<>> /\ sent'[t] = sent[t]
        /\ held'[t] = Head(channel[t]) /\ channel'[t] = Tail(channel[t])
    BY <1>1 DEF Receive, ManagerInv, TypeOK, TailInv
  <2>2. held'[t] \in LineEvents
    BY <2>1 DEF ManagerInv, TypeOK
  <2>3. held'[t] # NoEvent
    BY <2>2, EventKinds
  <2>4. Stream(t)' = sent[t] \o <<Head(channel[t])>> \o Tail(channel[t])
    BY <2>1, <2>3 DEF Stream
  <2>5. Stream(t) = sent[t] \o channel[t]
    BY <2>1, StreamTypes
  <2>6. /\ sent[t] \in Seq(Events) /\ channel[t] \in Seq(Events)
    BY StreamTypes
  <2>9. Head(channel[t]) \in Events /\ Tail(channel[t]) \in Seq(Events)
    BY <2>1, <2>6, HeadTailProperties
  <2>10. <<Head(channel[t])>> \in Seq(Events)
    BY <2>9
  <2>7. <<Head(channel[t])>> \o Tail(channel[t]) = channel[t]
    BY <2>1, <2>6
  <2>8. (sent[t] \o <<Head(channel[t])>>) \o Tail(channel[t])
        = sent[t] \o (<<Head(channel[t])>> \o Tail(channel[t]))
    BY <2>6, <2>9, <2>10, EventsAssociative
  <2>11. QED
    BY <2>4, <2>5, <2>7, <2>8
<1>2. CASE Send(t) /\ tail'[t] = "receive"
  <2>1. /\ held[t] # NoEvent /\ held'[t] = NoEvent /\ channel'[t] = channel[t]
        /\ sent'[t] = Append(sent[t], held[t])
    BY <1>2 DEF Send, ManagerInv, TypeOK, TailInv
  <2>2. sent[t] \in Seq(Events) /\ held[t] \in Events
    BY <2>1, StreamTypes DEF Events
  <2>3. sent'[t] = sent[t] \o <<held[t]>>
    BY <2>1, <2>2, AppendIsConcat
  <2>4. Stream(t) = sent[t] \o <<held[t]>> \o channel[t]
    BY <2>1, StreamTypes
  <2>5. Stream(t)' = sent'[t] \o channel'[t]
    <3>1. sent'[t] \o <<>> = sent'[t]
      BY <2>1, <2>2, ConcatEmptySeq
    <3>2. QED
      BY <2>1, <3>1 DEF Stream
  <2>6. QED
    BY <2>1, <2>3, <2>4, <2>5
<1>3. QED
  BY <1>1, <1>2

\* A line with room in the channel extends the stream, and so does the exit event.
LEMMA StreamExtended ==
  ASSUME ManagerInv, NEW t \in Tails, NEW e \in Events,
         tailProc'[t] = tailProc[t], held'[t] = held[t],
         \/ sent'[t] = sent[t] /\ channel'[t] = Append(channel[t], e)
         \/ /\ sent'[t] = Append(sent[t], e) /\ channel'[t] = channel[t]
            /\ held[t] = NoEvent /\ channel[t] = <<>>
  PROVE  Extended(Events, Stream(t), e, Stream(t)')
<1>1. sent[t] \in Seq(Events) /\ channel[t] \in Seq(Events) /\ Stream(t) \in Seq(Events)
  BY StreamTypes
<1>2. Stream(t)' = Append(Stream(t), e)
  <2> DEFINE front == sent[t] \o (IF held[t] = NoEvent THEN <<>> ELSE <<held[t]>>)
  <2>1. front \in Seq(Events) /\ Stream(t) = front \o channel[t]
    <3>1. (IF held[t] = NoEvent THEN <<>> ELSE <<held[t]>>) \in Seq(Events)
      <4>1. CASE held[t] = NoEvent
        BY <4>1
      <4>2. CASE held[t] # NoEvent
        <5>1. held[t] \in Events
          BY <4>2, StreamTypes DEF Events
        <5>2. QED
          BY <4>2, <5>1
      <4>3. QED
        BY <4>1, <4>2
    <3>2. QED
      BY <1>1, <3>1, ConcatProperties DEF Stream
  <2>2. CASE sent'[t] = sent[t] /\ channel'[t] = Append(channel[t], e)
    <3>1. Stream(t)' = front \o Append(channel[t], e)
      BY <2>2 DEF Stream
    <3>2. Append(channel[t], e) = channel[t] \o <<e>> /\ <<e>> \in Seq(Events)
      BY <1>1, AppendIsConcat
    <3>3. front \o (channel[t] \o <<e>>) = (front \o channel[t]) \o <<e>>
      BY <1>1, <2>1, <3>2, EventsAssociative, ZenonT(60)
    <3>4. Append(Stream(t), e) = Stream(t) \o <<e>>
      BY <1>1, AppendIsConcat
    <3> HIDE DEF front
    <3>5. QED
      BY <2>1, <3>1, <3>2, <3>3, <3>4
  <2>3. CASE /\ sent'[t] = Append(sent[t], e) /\ channel'[t] = channel[t]
             /\ held[t] = NoEvent /\ channel[t] = <<>>
    <3>1. Stream(t) = sent[t] \o <<>> \o <<>> /\ Stream(t)' = Append(sent[t], e) \o <<>> \o <<>>
      BY <2>3 DEF Stream
    <3>2. sent[t] \o <<>> = sent[t]
      BY <1>1, ConcatEmptySeq
    <3>3. Append(sent[t], e) \in Seq(Events)
      BY <1>1
    <3>4. Append(sent[t], e) \o <<>> = Append(sent[t], e)
      BY <3>3, ConcatEmptySeq
    <3>5. QED
      BY <3>1, <3>2, <3>4
  <2>4. QED
    BY <2>2, <2>3
<1>3. QED
  BY <1>1, <1>2 DEF Extended

\* Only the step that fans a line out moves the count of the lines fanned out.
LEMMA FannedMoves ==
  ASSUME ManagerInv, [Next]_vars, NEW p \in Procs, NEW s \in Streams
  PROVE  /\ Fanned(p, s) \in Int
         /\ FanOut(p, s) => Fanned(p, s)' = Fanned(p, s) + 1
         /\ ~FanOut(p, s) => Fanned(p, s)' = Fanned(p, s)
<1> DEFINE Same == Fanned(p, s)' = Fanned(p, s)
<1>1. \A o \in Procs, y \in Streams : logged[o][y] \in Int
  BY BoundsAssumption DEF ManagerInv, TypeOK, Lines
<1>2. Fanned(p, s) \in Int
  BY <1>1 DEF Fanned
<1>3. FanOut(p, s) => Fanned(p, s)' = Fanned(p, s) + 1
  BY <1>1 DEF FanOut, Fanned, ManagerInv, TypeOK
<1>4. UNCHANGED <<logged, reader>> => Same
  BY DEF Fanned
<1>5. ASSUME NEW o \in Procs, OSNext(o) PROVE Same
  BY <1>4, <1>5 DEF OSNext, Write, Fork, LeaderExit, ChildExit, runVars
<1>6. ASSUME NEW o \in Procs, StartNext(o) PROVE Same
  <2>1. CASE Register(o)
    <3>1. logged' = logged
      BY <2>1 DEF Register
    <3>2. reader'[p][s] = "fanout" <=> reader[p][s] = "fanout"
      <4>1. reader[o][s] = "off"
        BY <2>1 DEF Register, ManagerInv, WaiterInv, ReaderInv
      <4>2. QED
        BY <2>1, <4>1 DEF Register, ManagerInv, TypeOK
    <3>3. QED
      BY <3>1, <3>2 DEF Fanned
  <2>2. CASE ~Register(o)
    BY <1>4, <1>6, <2>2 DEF StartNext, StartRejected, Spawn, CreateLog, CreateLogFails
  <2>3. QED
    BY <2>1, <2>2
<1>7. ASSUME NEW o \in Procs, WaiterNext(o) PROVE Same
  BY <1>4, <1>7 DEF WaiterNext, WaitPipes, Reap, Publish, CloseDone
<1>8. ASSUME NEW o \in Procs, NEW y \in Streams, ReaderNext(o, y), ~FanOut(p, s) PROVE Same
  <2>1. CASE Scan(o, y)
    BY <1>1, <2>1 DEF Scan, Fanned, ManagerInv, TypeOK
  <2>2. CASE FanOut(o, y)
    <3>1. o # p \/ y # s
      BY <1>8, <2>2
    <3>2. QED
      BY <1>1, <2>2, <3>1 DEF FanOut, Fanned, ManagerInv, TypeOK
  <2>3. CASE ReaderEOF(o, y) \/ ReaderFails(o, y)
    <3>1. PICK end \in {"eof", "failed"} : reader' = [reader EXCEPT ![o][y] = end]
      BY <2>3 DEF ReaderEOF, ReaderFails
    <3>2. logged' = logged /\ reader[o][y] = "scan"
      BY <2>3 DEF ReaderEOF, ReaderFails
    <3>3. reader'[p][s] = "fanout" <=> reader[p][s] = "fanout"
      BY <3>1, <3>2 DEF ManagerInv, TypeOK
    <3>4. QED
      BY <3>2, <3>3 DEF Fanned
  <2>4. QED
    BY <1>8, <2>1, <2>2, <2>3 DEF ReaderNext
<1>9. ASSUME NEW t \in Tails, TailNext(t) PROVE Same
  BY <1>4, <1>9 DEF TailNext, TailRuns, TailRejected, Subscribe, TailCancelled,
    Receive, Send, SendExit, RemoveSubscriber, runVars
<1>10. ASSUME NEW i \in Stops, StopNext(i) PROVE Same
  BY <1>4, <1>10 DEF StopNext, StopRuns, StopRejected, StopCheck, SigTerm, SigKill,
    StopSignals, StopDone, GraceExpires, runVars
<1>11. StopAllBegins \/ StopAllReturns \/ Terminated \/ UNCHANGED vars => Same
  BY <1>4 DEF StopAllBegins, StopAllReturns, Terminated, vars, runVars
<1>12. QED
  BY <1>2, <1>3, <1>5, <1>6, <1>7, <1>8, <1>9, <1>10, <1>11 DEF Next

\* The exit event, when the client got it, is behind everything else.
LEMMA ExitEndsStream ==
  ASSUME ManagerInv, NEW t \in Tails, ExitOf(t), GotExit(t)
  PROVE  /\ Stream(t) = sent[t] /\ tail[t] \in {"remove", "returned"}
         /\ channel[t] = <<>> /\ held[t] = NoEvent
<1>1. sent[t] \in Seq(Events) /\ sent[t] # <<>>
  BY StreamTypes DEF GotExit
<1>2. Len(sent[t]) \in DOMAIN sent[t]
  BY <1>1
<1>3. channel[t] = <<>> /\ tail[t] \in {"remove", "returned"}
  BY <1>2 DEF ExitOf, GotExit
<1>4. held[t] = NoEvent
  BY <1>3 DEF ManagerInv, TailInv
<1>5. sent[t] \o <<>> = sent[t]
  BY <1>1, ConcatEmptySeq
<1>6. QED
  BY <1>3, <1>4, <1>5, StreamTypes

\* A step that concerns neither what is on its way to the client of t nor the lines
\* fanned out to it keeps EventsInv(t); the call may have been cancelled or return.
LEMMA QuietKeepsEvents ==
  ASSUME ManagerInv, [Next]_vars, NEW t \in Tails, EventsInv(t),
         sent'[t] = sent[t], held'[t] = held[t], channel'[t] = channel[t],
         tailProc'[t] = tailProc[t], since'[t] = since[t], dropped'[t] = dropped[t],
         tail'[t] = tail[t] \/ tail'[t] \in {"remove", "returned"},
         closed[t] => closed'[t],
         tailProc[t] # NoProc =>
           /\ tailProc[t] \in Procs
           /\ \A s \in Streams : Fanned(tailProc[t], s)' = Fanned(tailProc[t], s)
           /\ leader[tailProc[t]] = "reaped" =>
                leader'[tailProc[t]] = "reaped" /\ osCode'[tailProc[t]] = osCode[tailProc[t]]
  PROVE  EventsInv(t)'
<1>1. Stream(t)' = Stream(t) /\ (GotExit(t)' <=> GotExit(t))
  BY DEF Stream, GotExit
<1>2. tailProc[t] = NoProc => sent[t] = <<>> /\ channel[t] = <<>> /\ ~GotExit(t)
  BY DEF EventsInv, GotExit
<1>3. OrderOf(t)'
  BY <1>1 DEF EventsInv, OrderOf
<1>4. CompleteOf(t)'
  <2>1. tail[t] \in {"receive", "send"} => tailProc[t] # NoProc
    BY DEF ManagerInv, TailInv
  <2>2. SUFFICES ASSUME tail'[t] \in {"receive", "send"} \/ GotExit(t), ~dropped[t],
                        NEW s \in Streams
                 PROVE  Complete(IF GotExit(t) THEN sent[t] ELSE Stream(t), s,
                                 since[t][s], Fanned(tailProc[t], s)')
    BY <1>1 DEF CompleteOf
  <2>3. tailProc[t] # NoProc /\ (tail[t] \in {"receive", "send"} \/ GotExit(t))
    BY <1>2, <2>1, <2>2
  <2>4. Fanned(tailProc[t], s)' = Fanned(tailProc[t], s)
    BY <2>3
  <2>5. QED
    BY <2>2, <2>3, <2>4 DEF EventsInv, CompleteOf
<1>5. ExitOf(t)'
  BY <1>2 DEF EventsInv, ExitOf
<1>6. QED
  BY <1>1, <1>2, <1>3, <1>4, <1>5 DEF EventsInv

\* The events of t survive the fan-out of a line of any process.
LEMMA FanOutKeepsEvents ==
  ASSUME ManagerInv, ManagerInv', Next, NEW t \in Tails, EventsInv(t),
         NEW p \in Procs, NEW s \in Streams, FanOut(p, s)
  PROVE  EventsInv(t)'
<1> DEFINE e == [stream |-> s, line |-> logged[p][s]]
<1>1. /\ tail' = tail /\ tailProc' = tailProc /\ closed' = closed /\ held' = held /\ sent' = sent
      /\ since' = since /\ leader' = leader /\ osCode' = osCode
      /\ channel'[t] = IF t \in subscribers[p] /\ HasRoom(t) THEN Append(channel[t], e) ELSE channel[t]
      /\ dropped'[t] = (dropped[t] \/ (t \in subscribers[p] /\ ~HasRoom(t)))
  BY DEF FanOut, osVars
<1>2. /\ GotExit(t)' <=> GotExit(t)
      /\ tailProc[t] \in Procs \cup {NoProc}
  BY <1>1 DEF GotExit, ManagerInv, TypeOK
<1>3. CASE tailProc[t] # p
  <2>1. channel'[t] = channel[t] /\ dropped'[t] = dropped[t]
    BY <1>1, <1>3 DEF ManagerInv, TailInv, TypeOK
  <2>3. \A y \in Streams : tailProc[t] # NoProc =>
          Fanned(tailProc[t], y)' = Fanned(tailProc[t], y)
    <3>1. \A o \in Procs, y \in Streams : o # p => ~FanOut(o, y)
      BY DEF FanOut, ManagerInv, TypeOK
    <3>2. \A o \in Procs, y \in Streams : o # p => Fanned(o, y)' = Fanned(o, y)
      BY <3>1, FannedMoves
    <3>3. QED
      BY <1>1, <1>2, <1>3, <3>2 DEF Fanned
  <2>4. QED
    BY <1>1, <1>2, <2>1, <2>3, QuietKeepsEvents
<1>4. CASE tailProc[t] = p
  <2>1. /\ p # NoProc /\ reader[p][s] = "fanout" /\ status[p] # "exited"
    BY ProcsAssumption DEF FanOut, ManagerInv, TypeOK, WaiterInv, ReaderInv, ReaderEnded
  <2>2. ~closed[t] /\ ~GotExit(t)
    BY <1>4, <2>1 DEF ManagerInv, TailInv, EventsInv
  <2>3. e \in Events /\ ~IsExit(e) /\ e.stream = s /\ e.line = Fanned(p, s) + 1
    <3>1. e \in LineEvents /\ e.stream = s /\ e.line = Fanned(p, s) + 1
      BY <2>1, BoundsAssumption DEF ManagerInv, TypeOK, LineEvents, Fanned, Lines
    <3>2. QED
      BY <3>1, EventKinds DEF Events
  <2>4. /\ Fanned(p, s) \in Int /\ Fanned(p, s)' = Fanned(p, s) + 1
        /\ \A y \in Streams : y # s => Fanned(p, y) \in Int /\ Fanned(p, y)' = Fanned(p, y)
    <3>1. \A y \in Streams : y # s => ~FanOut(p, y)
      BY <2>1 DEF FanOut, ManagerInv, TypeOK
    <3>2. QED
      BY <3>1, FannedMoves
  <2>5. /\ Stream(t) \in Seq(Events) /\ \A y \in Streams : since[t][y] \in Int
        /\ \A y \in Streams : since[t][y] <= Fanned(p, y) /\ Ordered(Stream(t), y, since[t][y], Fanned(p, y))
    <3>1. Stream(t) \in Seq(Events)
      BY StreamTypes
    <3>2. \A y \in Streams : since[t][y] \in Int
      BY BoundsAssumption DEF ManagerInv, TypeOK, Lines
    <3>3. QED
      BY <1>4, <2>1, <3>1, <3>2 DEF EventsInv, OrderOf
  <2> HIDE DEF e
  <2>6. CASE t \in subscribers[p] /\ HasRoom(t)
    <3>1. Extended(Events, Stream(t), e, Stream(t)')
      BY <1>1, <2>3, <2>6, StreamExtended
    <3>2. \A y \in Streams : Ordered(Stream(t)', y, since[t][y], Fanned(p, y)')
      <4>1. Ordered(Stream(t)', s, since[t][s], Fanned(p, s)')
        BY <2>3, <2>4, <2>5, <3>1, EventsLinear, OrderedAppendLine
      <4>2. ASSUME NEW y \in Streams, y # s PROVE Ordered(Stream(t)', y, since[t][y], Fanned(p, y)')
        BY <2>3, <2>4, <2>5, <3>1, <4>2, EventsLinear, OrderedAppendOther
      <4>3. QED
        BY <4>1, <4>2
    <3>3. ASSUME tail[t] \in {"receive", "send"}, ~dropped[t], NEW y \in Streams
          PROVE  Complete(Stream(t)', y, since[t][y], Fanned(p, y)')
      <4>1. Complete(Stream(t), y, since[t][y], Fanned(p, y))
        BY <1>4, <2>2, <3>3 DEF EventsInv, CompleteOf
      <4>2. CASE y = s
        BY <2>3, <2>4, <2>5, <3>1, <4>1, <4>2, EventsLinear, CompleteAppendLine
      <4>3. CASE y # s
        BY <2>4, <2>5, <3>1, <4>1, <4>3, EventsLinear, CompleteAppend
      <4>4. QED
        BY <4>2, <4>3
    <3>4. OrderOf(t)'
      BY <1>1, <1>4, <3>2 DEF OrderOf
    <3>5. CompleteOf(t)'
      BY <1>1, <1>2, <1>4, <2>2, <3>3 DEF CompleteOf
    <3>6. ExitOf(t)'
      <4>1. \A n \in DOMAIN sent[t] : ~IsExit(sent[t][n])
        BY <2>2, StreamTypes DEF EventsInv, ExitOf, GotExit
      <4>2. QED
        BY <1>1, <4>1 DEF ExitOf
    <3>7. \A y \in Streams : since[t][y] <= Fanned(p, y)'
      BY <2>4, <2>5
    <3>8. QED
      BY <1>1, <1>2, <1>4, <2>1, <2>2, <3>4, <3>5, <3>6, <3>7 DEF EventsInv
  <2>7. CASE ~(t \in subscribers[p] /\ HasRoom(t))
    <3>1. Stream(t)' = Stream(t) /\ channel'[t] = channel[t]
      BY <1>1, <2>7 DEF Stream
    <3>2. OrderOf(t)'
      <4>1. \A y \in Streams : Ordered(Stream(t)', y, since[t][y], Fanned(p, y)')
        BY <2>4, <2>5, <3>1, EventsLinear, OrderedMore
      <4>2. QED
        BY <1>1, <1>4, <4>1 DEF OrderOf
    <3>3. CompleteOf(t)'
      <4>1. tail[t] \in {"receive", "send"} => t \in subscribers[p]
        BY <1>4, <2>2 DEF ManagerInv, TailInv
      <4>2. tail[t] \in {"receive", "send"} => dropped'[t]
        BY <1>1, <2>7, <4>1
      <4>3. QED
        BY <1>1, <1>2, <2>2, <4>2 DEF CompleteOf
    <3>4. ExitOf(t)'
      BY <1>1, <3>1 DEF EventsInv, ExitOf
    <3>5. \A y \in Streams : since[t][y] <= Fanned(p, y)'
      BY <2>4, <2>5
    <3>6. QED
      BY <1>1, <1>2, <1>4, <2>1, <2>2, <3>2, <3>3, <3>4, <3>5 DEF EventsInv
  <2>8. QED
    BY <2>6, <2>7
<1>5. QED
  BY <1>3, <1>4

\* The events of t survive the steps of the call itself.
LEMMA TailKeepsEvents ==
  ASSUME ManagerInv, ManagerInv', Next, NEW t \in Tails, EventsInv(t), TailNext(t)
  PROVE  EventsInv(t)'
<1>1. /\ leader' = leader /\ osCode' = osCode /\ logged' = logged /\ reader' = reader
      /\ exitCode' = exitCode /\ closed' = closed /\ status' = status
  BY DEF TailNext, TailRuns, TailRejected, Subscribe, TailCancelled, Receive, Send, SendExit,
    RemoveSubscriber, mgrVars, runVars, osVars
<1>2. \A p \in Procs, s \in Streams : Fanned(p, s) \in Int /\ Fanned(p, s)' = Fanned(p, s)
  BY <1>1, BoundsAssumption DEF Fanned, ManagerInv, TypeOK, Lines
<1>3. tailProc[t] \in Procs \cup {NoProc} /\ \A s \in Streams : since[t][s] \in Int
  BY BoundsAssumption DEF ManagerInv, TypeOK, Lines
<1>4. tailProc'[t] = tailProc[t] /\ tailProc[t] # NoProc =>
        \A s \in Streams : Fanned(tailProc[t], s)' = Fanned(tailProc[t], s)
  BY <1>1 DEF Fanned
<1>5. /\ Stream(t) \in Seq(Events) /\ sent[t] \in Seq(Events) /\ channel[t] \in Seq(Events)
      /\ tailProc[t] # NoProc => \A s \in Streams :
           Ordered(Stream(t), s, since[t][s], Fanned(tailProc[t], s))
  BY StreamTypes DEF EventsInv, OrderOf
<1>6. CASE TailCancelled(t) \/ RemoveSubscriber(t) \/ \E q \in Pids : TailRejected(t, q)
  <2>1. CASE \E q \in Pids : TailRejected(t, q)
    <3>1. tailProc[t] = NoProc /\ tail[t] = "idle"
      BY <2>1 DEF TailRejected, ManagerInv, TailInv
    <3>2. /\ UNCHANGED <<sent, held, channel, tailProc, since, dropped>>
          /\ tail'[t] = "rejected" /\ sent[t] = <<>> /\ ~GotExit(t)
      BY <2>1, <3>1 DEF TailRejected, EventsInv, GotExit, ManagerInv, TypeOK
    <3>3. QED
      BY <3>1, <3>2 DEF EventsInv, OrderOf, CompleteOf, ExitOf, GotExit
  <2>2. CASE TailCancelled(t) \/ RemoveSubscriber(t)
    <3>1. /\ UNCHANGED <<sent, held, channel, tailProc, since, dropped>>
          /\ tail'[t] \in {"remove", "returned"}
      BY <2>2 DEF TailCancelled, RemoveSubscriber, ManagerInv, TypeOK
    <3>2. QED
      BY <1>1, <1>3, <1>4, <3>1, QuietKeepsEvents
  <2>3. QED
    BY <1>6, <2>1, <2>2
<1>7. ASSUME NEW q \in Pids, Subscribe(t, q) PROVE EventsInv(t)'
  <2>0. PICK p \in Procs : p = processes[q]
    BY <1>7 DEF Subscribe, ManagerInv, TypeOK
  <2>1. /\ tailProc[t] = NoProc /\ held[t] = NoEvent
        /\ tailProc'[t] = p /\ sent' = sent /\ held' = held /\ channel'[t] = <<>>
        /\ since'[t] = [s \in Streams |-> Fanned(p, s)] /\ tail'[t] = "receive"
    BY <1>7, <2>0 DEF Subscribe, NewChannel, ManagerInv, TypeOK, TailInv
  <2>2. sent'[t] = <<>> /\ ~GotExit(t)'
    BY <2>1 DEF EventsInv, GotExit
  <2>3. Stream(t)' = <<>>
    <3>1. Stream(t)' = (<<>> \o <<>>) \o <<>>
      BY <2>1, <2>2 DEF Stream
    <3>2. <<>> \in Seq(Events)
      OBVIOUS
    <3>3. <<>> \o <<>> = <<>>
      BY <3>2, ConcatEmptySeq
    <3>4. QED
      BY <3>1, <3>3
  <2>4. \A s \in Streams : since'[t][s] = Fanned(p, s)' /\ Fanned(p, s)' \in Int
    BY <1>2, <2>1
  <2>5. \A s \in Streams : LinesOf(Stream(t)', s) = {}
    BY <2>3 DEF LinesOf
  <2>6. OrderOf(t)'
    BY <2>1, <2>5 DEF OrderOf, Ordered
  <2>7. CompleteOf(t)'
    BY <2>1, <2>2, <2>4 DEF CompleteOf, Complete
  <2>8. ExitOf(t)'
    BY <2>2 DEF ExitOf
  <2>9. QED
    BY <2>1, <2>2, <2>4, <2>6, <2>7, <2>8, ProcsAssumption DEF EventsInv
<1>8. CASE Receive(t) \/ (Send(t) /\ tail'[t] = "receive")
  <2>1. Stream(t)' = Stream(t)
    BY <1>8, StreamMoves
  <2>2. /\ tail[t] \in {"receive", "send"} /\ tail'[t] \in {"receive", "send"}
        /\ tailProc' = tailProc /\ since' = since /\ dropped' = dropped
    BY <1>8 DEF Receive, Send, ManagerInv, TypeOK
  <2>3. tailProc[t] # NoProc
    BY <2>2 DEF ManagerInv, TailInv
  <2>4. \A n \in DOMAIN sent[t] : ~IsExit(sent[t][n])
    BY <2>2 DEF EventsInv, ExitOf
  <2>5. \/ sent'[t] = sent[t]
        \/ sent'[t] = Append(sent[t], held[t]) /\ held[t] \in LineEvents
    BY <1>8, StreamTypes DEF Receive, Send, ManagerInv, TypeOK, TailInv
  <2>6. \A n \in DOMAIN sent'[t] : ~IsExit(sent'[t][n])
    <3>1. ASSUME sent'[t] = Append(sent[t], held[t]), held[t] \in LineEvents, NEW n \in DOMAIN sent'[t]
          PROVE  ~IsExit(sent'[t][n])
      <4>1. ~IsExit(held[t])
        BY <3>1, EventKinds
      <4>2. /\ DOMAIN sent'[t] = 1..(Len(sent[t]) + 1) /\ DOMAIN sent[t] = 1..Len(sent[t])
            /\ Len(sent[t]) \in Nat
            /\ \A m \in 1..Len(sent[t]) : sent'[t][m] = sent[t][m]
            /\ sent'[t][Len(sent[t]) + 1] = held[t]
        BY <1>5, <3>1
      <4>3. QED
        BY <2>4, <3>1, <4>1, <4>2
    <3>2. QED
      BY <2>4, <2>5, <3>1
  <2>7. ~GotExit(t) /\ ~GotExit(t)'
    <3>1. sent[t] # <<>> => Len(sent[t]) \in DOMAIN sent[t]
      BY <1>5
    <3>2. sent'[t] \in Seq(Events)
      BY StreamTypes DEF ManagerInv, TypeOK, Events
    <3>3. sent'[t] # <<>> => Len(sent'[t]) \in DOMAIN sent'[t]
      BY <3>2
    <3>4. QED
      BY <2>4, <2>6, <3>1, <3>3 DEF GotExit
  <2>8. OrderOf(t)'
    BY <1>4, <2>1, <2>2, <2>3 DEF EventsInv, OrderOf
  <2>9. CompleteOf(t)'
    BY <1>4, <2>1, <2>2, <2>3, <2>7 DEF EventsInv, CompleteOf
  <2>10. ExitOf(t)'
    BY <2>6 DEF ExitOf
  <2>11. QED
    BY <1>4, <2>2, <2>3, <2>7, <2>8, <2>9, <2>10 DEF EventsInv
<1>9. CASE Send(t) /\ tail'[t] # "receive"
  <2>1. /\ tail[t] = "send" /\ tail'[t] = "remove" /\ held'[t] = NoEvent
        /\ UNCHANGED <<sent, channel, tailProc, since, dropped>>
    BY <1>9 DEF Send, ManagerInv, TypeOK
  <2>2. tailProc[t] # NoProc /\ held[t] # NoEvent
    BY <2>1 DEF ManagerInv, TailInv
  <2>3. /\ held[t] \in Events /\ Stream(t) = sent[t] \o <<held[t]>> \o channel[t]
        /\ Stream(t)' = sent[t] \o channel[t]
    <3>1. sent[t] \o <<>> = sent[t]
      BY <1>5, ConcatEmptySeq
    <3>2. QED
      BY <2>1, <2>2, <3>1, StreamTypes DEF Stream, Events
  <2>4. ~GotExit(t) /\ ~GotExit(t)'
    <3>1. ~GotExit(t)
      BY <2>1, ExitEndsStream DEF EventsInv
    <3>2. QED
      BY <2>1, <3>1 DEF GotExit
  <2>5. OrderOf(t)'
    <3>1. SUFFICES ASSUME NEW s \in Streams
                   PROVE  Ordered(sent[t] \o channel[t], s, since[t][s], Fanned(tailProc[t], s))
      BY <1>4, <2>1, <2>2, <2>3 DEF OrderOf
    <3>2. Ordered(sent[t] \o <<held[t]>> \o channel[t], s, since[t][s], Fanned(tailProc[t], s))
      BY <1>5, <2>2, <2>3
    <3>3. Fanned(tailProc[t], s) \in Int
      BY <1>2, <1>3, <2>2
    <3>4. QED
      BY <1>3, <1>5, <2>3, <3>2, <3>3, EventsLinear, OrderedRemove
  <2>6. CompleteOf(t)'
    BY <2>1, <2>4 DEF CompleteOf
  <2>7. ExitOf(t)'
    <3>1. \A n \in DOMAIN sent[t] : ~IsExit(sent[t][n])
      BY <2>1 DEF EventsInv, ExitOf
    <3>2. QED
      BY <2>1, <3>1 DEF ExitOf
  <2>8. QED
    BY <1>4, <2>1, <2>2, <2>4, <2>5, <2>6, <2>7 DEF EventsInv
<1>10. CASE SendExit(t)
  <2>1. /\ tail[t] = "receive" /\ closed[t] /\ channel[t] = <<>> /\ tail'[t] = "remove"
        /\ UNCHANGED <<held, channel, tailProc, since, dropped>>
    BY <1>10 DEF SendExit, ReceiveFails, ManagerInv, TypeOK
  <2>2. PICK p \in Procs : p = tailProc[t]
    BY <1>3, <2>1 DEF ManagerInv, TailInv
  <2>3. p # NoProc /\ held[t] = NoEvent /\ status[p] = "exited"
    BY <2>1, <2>2, ProcsAssumption DEF ManagerInv, TailInv
  <2>4. leader[p] = "reaped" /\ exitCode[p] = osCode[p] /\ osCode[p] \in Codes
    <3>1. leader[p] = "reaped" /\ exitCode[p] = osCode[p] /\ osCode[p] # NoCode
      BY <2>3 DEF ManagerInv, TypeOK, WaiterInv
    <3>2. osCode[p] \in Codes \cup {NoCode}
      BY DEF ManagerInv, TypeOK
    <3>3. QED
      BY <3>1, <3>2
  <2>5. ~GotExit(t) /\ \A n \in DOMAIN sent[t] : ~IsExit(sent[t][n])
    <3>1. \A n \in DOMAIN sent[t] : ~IsExit(sent[t][n])
      BY <2>1 DEF EventsInv, ExitOf
    <3>2. sent[t] # <<>> => Len(sent[t]) \in DOMAIN sent[t]
      BY <1>5
    <3>3. QED
      BY <3>1, <3>2 DEF GotExit
  <2>6. CASE sent' = sent
    <3>1. Stream(t)' = Stream(t) /\ ~GotExit(t)'
      BY <2>1, <2>5, <2>6 DEF Stream, GotExit
    <3>2. OrderOf(t)' /\ CompleteOf(t)' /\ ExitOf(t)'
      BY <1>4, <2>1, <2>2, <2>3, <2>5, <2>6, <3>1 DEF EventsInv, OrderOf, CompleteOf, ExitOf
    <3>3. QED
      BY <1>4, <2>1, <2>2, <2>3, <3>1, <3>2 DEF EventsInv
  <2>7. CASE sent' # sent
    <3>1. PICK e \in Events : e = [exit |-> osCode[p]]
      BY <2>4 DEF Events, ExitEvents
    <3>2. sent'[t] = Append(sent[t], e)
      <4>1. osCode[p] # NoCode
        BY <2>4, CodesAssumption DEF Codes
      <4>2. QED
        BY <1>10, <2>2, <2>4, <2>7, <3>1, <4>1 DEF SendExit, ManagerInv, TypeOK
    <3>3. IsExit(e) /\ e.exit = osCode[p]
      BY <3>1, <2>4, EventKinds DEF ExitEvents
    <3>4. Extended(Events, Stream(t), e, Stream(t)')
      BY <2>1, <2>3, <3>2, StreamExtended
    <3>5. /\ Len(sent[t]) \in Nat /\ sent'[t] \in Seq(Events) /\ sent'[t] # <<>>
          /\ Len(sent'[t]) = Len(sent[t]) + 1 /\ DOMAIN sent'[t] = 1..(Len(sent[t]) + 1)
          /\ \A n \in 1..Len(sent[t]) : sent'[t][n] = sent[t][n]
          /\ sent'[t][Len(sent[t]) + 1] = e /\ DOMAIN sent[t] = 1..Len(sent[t])
      <4>1. /\ Len(sent[t]) \in Nat /\ sent'[t] \in Seq(Events)
            /\ Len(sent'[t]) = Len(sent[t]) + 1
            /\ \A n \in 1..Len(sent[t]) : sent'[t][n] = sent[t][n]
            /\ sent'[t][Len(sent[t]) + 1] = e
        BY <1>5, <3>2
      <4>2. DOMAIN sent'[t] = 1..(Len(sent[t]) + 1) /\ DOMAIN sent[t] = 1..Len(sent[t])
        BY <1>5, <4>1
      <4>3. sent'[t] # <<>>
        BY <4>1
      <4>4. QED
        BY <4>1, <4>2, <4>3
    <3>6. GotExit(t)'
      BY <3>3, <3>5 DEF GotExit
    <3>7. Stream(t)' = sent'[t]
      <4>1. (sent'[t] \o <<>>) \o <<>> = sent'[t]
        BY <3>5, ConcatEmptySeq
      <4>2. QED
        BY <2>1, <2>3, <4>1 DEF Stream
    <3>8. OrderOf(t)'
      <4>1. SUFFICES ASSUME NEW s \in Streams
                     PROVE  Ordered(Stream(t)', s, since[t][s], Fanned(p, s))
        BY <1>4, <2>1, <2>2, <2>3 DEF OrderOf
      <4>2. Ordered(Stream(t), s, since[t][s], Fanned(p, s))
        BY <1>5, <2>2, <2>3
      <4>3. QED
        BY <1>2, <1>3, <3>3, <3>4, <4>2, EventsLinear, OrderedAppendOther
    <3>9. CompleteOf(t)'
      <4>1. SUFFICES ASSUME NEW s \in Streams, ~dropped[t]
                     PROVE  Complete(Stream(t)', s, since[t][s], Fanned(p, s))
        BY <1>4, <2>1, <2>2, <2>3, <3>6, <3>7 DEF CompleteOf
      <4>2. Complete(Stream(t), s, since[t][s], Fanned(p, s))
        BY <2>1, <2>2, <2>5, <4>1 DEF EventsInv, CompleteOf
      <4>3. QED
        BY <1>2, <1>3, <3>4, <4>2, EventsLinear, CompleteAppend
    <3>10. ExitOf(t)'
      <4>1. SUFFICES ASSUME NEW n \in DOMAIN sent'[t], IsExit(sent'[t][n])
                     PROVE  n = Len(sent'[t]) /\ sent'[t][n].exit = osCode[p]
        BY <1>1, <2>1, <2>2, <2>4 DEF ExitOf
      <4>2. n = Len(sent[t]) + 1
        BY <2>5, <3>5, <4>1
      <4>3. QED
        BY <3>3, <3>5, <4>2
    <3>11. QED
      BY <1>1, <1>4, <2>1, <2>2, <2>3, <3>8, <3>9, <3>10 DEF EventsInv
  <2>8. QED
    BY <2>6, <2>7
<1>11. QED
  BY <1>6, <1>7, <1>8, <1>9, <1>10 DEF TailNext, TailRuns

\* EventsInv is kept by every step of anybody.
LEMMA EventsKept ==
  ASSUME ManagerInv, ManagerInv', [Next]_vars, NEW t \in Tails, EventsInv(t)
  PROVE  EventsInv(t)'
<1> DEFINE Same == UNCHANGED <<tail[t], sent[t], held[t], channel[t], tailProc[t], since[t], dropped[t]>>
<1>1. tailProc[t] \in Procs \cup {NoProc}
  BY DEF ManagerInv, TypeOK
<1>2. ASSUME \A o \in Procs, y \in Streams : ~FanOut(o, y),
             Same, closed[t] => closed'[t],
             \A o \in Procs : leader[o] = "reaped" => osCode'[o] = osCode[o]
      PROVE  EventsInv(t)'
  <2>1. CASE tailProc[t] = NoProc
    BY <1>2, <2>1, QuietKeepsEvents
  <2>2. CASE tailProc[t] # NoProc
    <3>1. PICK p \in Procs : p = tailProc[t]
      BY <1>1, <2>2
    <3>2. \A s \in Streams : Fanned(p, s)' = Fanned(p, s)
      BY <1>2, FannedMoves
    <3>3. start[p] = "returned"
      BY <2>2, <3>1 DEF ManagerInv, TailInv
    <3>4. leader[p] = "reaped" => leader'[p] = "reaped"
      BY <3>3, PidStable
    <3>5. /\ \A s \in Streams : Fanned(tailProc[t], s)' = Fanned(tailProc[t], s)
          /\ leader[tailProc[t]] = "reaped" =>
               leader'[tailProc[t]] = "reaped" /\ osCode'[tailProc[t]] = osCode[tailProc[t]]
      BY <1>2, <3>1, <3>2, <3>4 DEF Fanned
    <3>6. QED
      BY <1>1, <1>2, <2>2, <3>5, QuietKeepsEvents
  <2>3. QED
    BY <2>1, <2>2
<1>3. CASE \E o \in Procs, y \in Streams : FanOut(o, y)
  BY <1>3, FanOutKeepsEvents DEF Next, ReaderNext
<1>4. CASE TailNext(t)
  BY <1>4, TailKeepsEvents DEF Next
<1>5. ASSUME \A o \in Procs, y \in Streams : ~FanOut(o, y), ~TailNext(t)
      PROVE  /\ Same /\ (closed[t] => closed'[t])
             /\ \A o \in Procs : leader[o] = "reaped" => osCode'[o] = osCode[o]
  <2> DEFINE Quiet == /\ Same /\ (closed[t] => closed'[t])
                      /\ \A o \in Procs : leader[o] = "reaped" => osCode'[o] = osCode[o]
  <2> SUFFICES Quiet
    OBVIOUS
  <2>1. ASSUME NEW o \in Procs, OSNext(o) PROVE Quiet
    BY <2>1 DEF OSNext, Write, Fork, LeaderExit, ChildExit, tailVars, ManagerInv, TypeOK
  <2>2. ASSUME NEW o \in Procs, StartNext(o) PROVE Quiet
    BY <2>2 DEF StartNext, StartRejected, Spawn, CreateLog, CreateLogFails, Register, tailVars, osVars
  <2>3. ASSUME NEW o \in Procs, WaiterNext(o) PROVE Quiet
    BY <2>3 DEF WaiterNext, WaitPipes, Reap, Publish, CloseDone, tailVars, osVars
  <2>4. ASSUME NEW o \in Procs, NEW y \in Streams, ReaderNext(o, y) PROVE Quiet
    BY <1>5, <2>4 DEF ReaderNext, Scan, ReaderEOF, ReaderFails, tailVars, osVars
  <2>5. ASSUME NEW u \in Tails, TailNext(u) PROVE Quiet
    <3>1. u # t
      BY <1>5, <2>5
    <3>2. /\ \E x : tail' = [tail EXCEPT ![u] = x]
          /\ sent' = sent \/ \E x : sent' = [sent EXCEPT ![u] = x]
          /\ held' = held \/ \E x : held' = [held EXCEPT ![u] = x]
          /\ channel' = channel \/ \E x : channel' = [channel EXCEPT ![u] = x]
          /\ tailProc' = tailProc \/ \E x : tailProc' = [tailProc EXCEPT ![u] = x]
          /\ since' = since \/ \E x : since' = [since EXCEPT ![u] = x]
          /\ dropped' = dropped /\ closed' = closed /\ osCode' = osCode
      BY <2>5, Zenon DEF TailNext, TailRuns, TailRejected, Subscribe, TailCancelled,
        Receive, Send, SendExit, RemoveSubscriber, osVars
    <3>3. QED
      BY <3>1, <3>2 DEF ManagerInv, TypeOK
  <2>6. ASSUME NEW i \in Stops, StopNext(i) PROVE Quiet
    BY <2>6 DEF StopNext, StopRuns, StopRejected, StopCheck, SigTerm, SigKill,
      StopSignals, StopDone, GraceExpires, tailVars, osVars
  <2>7. StopAllBegins \/ StopAllReturns \/ Terminated \/ UNCHANGED vars => Quiet
    BY DEF StopAllBegins, StopAllReturns, Terminated, vars, tailVars, osVars
  <2>8. QED
    BY <2>1, <2>2, <2>3, <2>4, <2>5, <2>6, <2>7 DEF Next
<1>6. QED
  BY <1>2, <1>3, <1>4, <1>5

\* ManagerInv together with EventsInv for every Tail call.
THEOREM EventsInvariant == Spec => [](ManagerInv /\ \A t \in Tails : EventsInv(t))
<1>1. Init => \A t \in Tails : EventsInv(t)
  BY DEF Init, EventsInv, OrderOf, CompleteOf, ExitOf, GotExit
<1>2. ManagerInv /\ ManagerInv' /\ (\A t \in Tails : EventsInv(t)) /\ [Next]_vars =>
        (\A t \in Tails : EventsInv(t))'
  BY EventsKept
<1>3. QED
  BY <1>1, <1>2, InitEstablishes, StepKeeps, PTL DEF Spec

\* What a Tail client is sent is ordered and without duplicates, and its exit
\* event is last and true, whatever is dropped, cancelled or lost on the way.
THEOREM TailsTruthful == Spec => []TailTruthful
<1>1. (\A t \in Tails : EventsInv(t)) => TailTruthful
  BY DEF EventsInv, TailTruthful, TailOrder, ExitEventLast
<1>2. QED
  BY <1>1, EventsInvariant, PTL

\* A Tail that lost nothing to a full channel has every line since it subscribed.
THEOREM TailsComplete == Spec => []TailComplete
<1>1. (\A t \in Tails : EventsInv(t)) => TailComplete
  BY DEF EventsInv, TailComplete
<1>2. QED
  BY <1>1, EventsInvariant, PTL

-----------------------------------------------------------------------------
(* The manager implements ProcessLifecycle. *)

\* The code the client of t was told, as the refinement mapping has it.
Told(t) == IF GotExit(t) THEN sent[t][Len(sent[t])].exit ELSE NoCode

\* A Tail client is told nothing by a step that sends no exit event, and is told the
\* published code by the step that does.
LEMMA ToldMoves ==
  ASSUME ManagerInv, ManagerInv', NEW t \in Tails, EventsInv(t), EventsInv(t)', TailNext(t)
  PROVE  \/ Told(t)' = Told(t)
         \/ /\ SendExit(t) /\ Told(t) = NoCode /\ tailProc[t] \in Procs
            /\ status[tailProc[t]] = "exited" /\ Told(t)' = exitCode[tailProc[t]]
<1>1. CASE sent'[t] = sent[t]
  BY <1>1 DEF Told, GotExit
<1>2. CASE sent'[t] # sent[t] /\ Send(t)
  <2>1. tail[t] = "send" /\ tail'[t] = "receive"
    BY <1>2 DEF Send, ManagerInv, TypeOK
  <2>2. ~GotExit(t)
    BY <2>1, ExitEndsStream DEF EventsInv
  <2>3. ~GotExit(t)'
    <3>1. \A n \in DOMAIN sent'[t] : ~IsExit(sent'[t][n])
      BY <2>1 DEF EventsInv, ExitOf
    <3>2. sent'[t] \in Seq(Events)
      BY DEF ManagerInv, TypeOK, Events
    <3>3. sent'[t] # <<>> => Len(sent'[t]) \in DOMAIN sent'[t]
      BY <3>2
    <3>4. QED
      BY <3>1, <3>3 DEF GotExit
  <2>4. QED
    BY <2>2, <2>3 DEF Told
<1>3. CASE sent'[t] # sent[t] /\ SendExit(t)
  <2>1. tail[t] = "receive" /\ closed[t]
    BY <1>3 DEF SendExit, ReceiveFails
  <2>2. ~GotExit(t)
    BY <2>1, ExitEndsStream DEF EventsInv
  <2>3. tailProc[t] \in Procs /\ status[tailProc[t]] = "exited"
    BY <2>1 DEF ManagerInv, TypeOK, TailInv
  <2>4. PICK c \in Codes : c = exitCode[tailProc[t]]
    <3>1. exitCode[tailProc[t]] = osCode[tailProc[t]] /\ osCode[tailProc[t]] # NoCode
      BY <2>3 DEF ManagerInv, TypeOK, WaiterInv
    <3>2. osCode[tailProc[t]] \in Codes \cup {NoCode}
      BY <2>3 DEF ManagerInv, TypeOK
    <3>3. QED
      BY <3>1, <3>2
  <2>5. c # NoCode /\ [exit |-> c] \in ExitEvents /\ IsExit([exit |-> c])
    BY CodesAssumption, EventKinds DEF Codes, ExitEvents
  <2>6. sent'[t] = Append(sent[t], [exit |-> c])
    BY <1>3, <2>4, <2>5 DEF SendExit, ManagerInv, TypeOK
  <2>7. PICK e : e = [exit |-> c] /\ IsExit(e) /\ e.exit = c /\ e \in Events
    BY <2>5 DEF Events
  <2>8. sent'[t] # <<>> /\ sent'[t][Len(sent'[t])] = e
    <3>1. sent[t] \in Seq(Events) /\ sent'[t] = Append(sent[t], e)
      BY <2>6, <2>7, StreamTypes
    <3>2. sent'[t] \in Seq(Events) /\ Len(sent'[t]) = Len(sent[t]) + 1 /\ Len(sent[t]) \in Nat
          /\ sent'[t][Len(sent[t]) + 1] = e
      BY <2>7, <3>1
    <3>3. QED
      BY <3>2
  <2>9. GotExit(t)' /\ Told(t)' = c
    BY <2>7, <2>8 DEF GotExit, Told
  <2>10. QED
    BY <1>3, <2>2, <2>3, <2>4, <2>9 DEF Told
<1>4. sent'[t] = sent[t] \/ Send(t) \/ SendExit(t)
  BY DEF TailNext, TailRuns, TailRejected, Subscribe, TailCancelled, Receive, RemoveSubscriber
<1>5. QED
  BY <1>1, <1>2, <1>3, <1>4

\* Every step is a step of ProcessLifecycle or leaves its variables alone.
LEMMA LifecycleStep ==
  ASSUME ManagerInv, ManagerInv', SnapshotInv, \A t \in Tails : EventsInv(t),
         (\A t \in Tails : EventsInv(t))', [Next]_vars
  PROVE  [Lifecycle!Next]_(Lifecycle!lifecycleVars)
<1> DEFINE told == [t \in Tails |-> Told(t)]
           stopped == {i \in Stops : stop[i] = "ok"}
           Step == [Lifecycle!Next]_(Lifecycle!lifecycleVars)
           Quiet == UNCHANGED <<status, osCode, exitCode, tailProc, stopProc, sent, stopped>>
<1>1. CASE Quiet
  BY <1>1 DEF Lifecycle!lifecycleVars, GotExit
<1>2. ASSUME NEW p \in Procs, OSNext(p) PROVE Step
  <2>1. ASSUME NEW c \in Codes, LeaderExit(p, c) PROVE Lifecycle!End(p, c)
    <3>1. osCode[p] = NoCode
      BY <2>1 DEF LeaderExit, ManagerInv, WaiterInv
    <3>2. QED
      BY <2>1, <3>1 DEF LeaderExit, Lifecycle!End, mgrVars, tailVars, stopVars, GotExit
  <2>2. (\A c \in Codes : ~LeaderExit(p, c)) => Quiet
    BY <1>2 DEF OSNext, Write, Fork, ChildExit, mgrVars, tailVars, stopVars
  <2>3. QED
    BY <1>1, <2>1, <2>2 DEF Lifecycle!Next
<1>3. ASSUME NEW p \in Procs, StartNext(p) PROVE Step
  <2>1. CASE Register(p)
    <3>1. status[p] = "none"
      BY <2>1 DEF Register, ManagerInv, WaiterInv
    <3>2. Lifecycle!Launch(p)
      BY <2>1, <3>1 DEF Register, Lifecycle!Launch, osVars, tailVars, stopVars, GotExit
    <3>3. QED
      BY <3>2 DEF Lifecycle!Next
  <2>2. ~Register(p) => Quiet
    BY <1>3 DEF StartNext, StartRejected, Spawn, CreateLog, CreateLogFails, mgrVars, osVars, tailVars, stopVars
  <2>3. QED
    BY <1>1, <2>1, <2>2
<1>4. ASSUME NEW p \in Procs, WaiterNext(p) PROVE Step
  <2>1. CASE Publish(p)
    <3>1. status[p] = "running" /\ osCode[p] # NoCode
      BY <2>1 DEF Publish, ManagerInv, WaiterInv
    <3>2. Lifecycle!Announce(p)
      BY <2>1, <3>1 DEF Publish, WaitCode, Lifecycle!Announce, osVars, stopVars, GotExit
    <3>3. QED
      BY <3>2 DEF Lifecycle!Next
  <2>2. ~Publish(p) => Quiet
    BY <1>4 DEF WaiterNext, WaitPipes, Reap, CloseDone, mgrVars, osVars, tailVars, stopVars
  <2>3. QED
    BY <1>1, <2>1, <2>2
<1>5. ASSUME NEW p \in Procs, NEW s \in Streams, ReaderNext(p, s) PROVE Step
  BY <1>1, <1>5 DEF ReaderNext, Scan, FanOut, ReaderEOF, ReaderFails, mgrVars, osVars, tailVars, stopVars
<1>6. ASSUME NEW t \in Tails, TailNext(t) PROVE Step
  <2>1. /\ status' = status /\ exitCode' = exitCode /\ osCode' = osCode
        /\ stop' = stop /\ stopProc' = stopProc
        /\ \A u \in Tails : u # t => sent'[u] = sent[u]
    <3>1. /\ status' = status /\ exitCode' = exitCode /\ osCode' = osCode
          /\ stop' = stop /\ stopProc' = stopProc
      BY <1>6 DEF TailNext, TailRuns, TailRejected, Subscribe, TailCancelled, Receive, Send, SendExit,
        RemoveSubscriber, mgrVars, osVars, stopVars
    <3>2. sent' = sent \/ \E x : sent' = [sent EXCEPT ![t] = x]
      BY <1>6, Zenon DEF TailNext, TailRuns, TailRejected, Subscribe, TailCancelled, Receive, Send,
        SendExit, RemoveSubscriber
    <3>3. QED
      BY <3>1, <3>2 DEF ManagerInv, TypeOK
  <2>2. \A u \in Tails : u # t => Told(u)' = Told(u)
    BY <2>1 DEF Told, GotExit
  <2>3. ASSUME NEW q \in Pids, Subscribe(t, q) PROVE Step
    <3>1. PICK p \in Procs : p = processes[q]
      BY <2>3 DEF Subscribe, ManagerInv, TypeOK
    <3>2. tailProc[t] = NoProc /\ status[p] = "running"
      BY <2>3, <3>1 DEF Subscribe, ManagerInv, TypeOK, TailInv, MapInv, WaiterInv
    <3>3. Lifecycle!Follow(t, p)
      BY <2>3, <3>1, <3>2 DEF Subscribe, Lifecycle!Follow, osVars, stopVars, GotExit
    <3>4. QED
      BY <3>3 DEF Lifecycle!Next
  <2>4. CASE \A q \in Pids : ~Subscribe(t, q)
    <3>1. tailProc' = tailProc
      BY <1>6, <2>4 DEF TailNext, TailRuns, TailRejected, TailCancelled, Receive, Send, SendExit,
        RemoveSubscriber
    <3>2. CASE Told(t)' = Told(t)
      <4>1. told' = told
        BY <2>2, <3>2
      <4>2. QED
        BY <2>1, <3>1, <4>1 DEF Lifecycle!lifecycleVars, Told
    <3>3. CASE /\ Told(t) = NoCode /\ tailProc[t] \in Procs
               /\ status[tailProc[t]] = "exited" /\ Told(t)' = exitCode[tailProc[t]]
      <4>1. told' = [told EXCEPT ![t] = exitCode[tailProc[t]]] /\ told[t] = NoCode
        BY <2>2, <3>3
      <4>2. PICK p \in Procs : p = tailProc[t]
        BY <3>3
      <4>3. Lifecycle!Tell(t, p)
        BY <2>1, <3>1, <3>3, <4>1, <4>2 DEF Lifecycle!Tell, Told
      <4>4. QED
        BY <4>3 DEF Lifecycle!Next
    <3>4. QED
      BY <1>6, <3>2, <3>3, ToldMoves
  <2>5. QED
    BY <2>3, <2>4
<1>7. ASSUME NEW i \in Stops, StopNext(i) PROVE Step
  <2>1. UNCHANGED <<status, osCode, exitCode, tailProc, sent>>
    BY <1>7 DEF StopNext, StopRuns, StopRejected, StopCheck, SigTerm, SigKill,
      StopSignals, StopDone, GraceExpires, mgrVars, osVars, tailVars
  <2>2. ASSUME NEW q \in Pids, StopCheck(i, q) PROVE Step
    <3>1. PICK p \in Procs : p = processes[q]
      BY <2>2 DEF StopCheck, ManagerInv, TypeOK
    <3>2. status[p] = "running" /\ stop[i] \in {"idle", "check"}
      BY <2>2, <3>1 DEF StopCheck, StopBegins, ManagerInv, TypeOK, MapInv, WaiterInv
    <3>3. stopProc[i] = NoProc /\ stopProc' = [stopProc EXCEPT ![i] = p]
      BY <2>2, <3>1, <3>2 DEF StopCheck, SnapshotInv
    <3>4. stopped' = stopped
      BY <2>2, <3>2 DEF StopCheck, ManagerInv, TypeOK
    <3>5. Lifecycle!Aim(i, p)
      BY <2>1, <3>2, <3>3, <3>4 DEF Lifecycle!Aim, GotExit
    <3>6. QED
      BY <3>5 DEF Lifecycle!Next
  <2>3. CASE StopDone(i)
    <3>1. stop[i] \in {"wait", "final"} /\ stopProc[i] \in Procs /\ status[stopProc[i]] = "exited"
      BY <2>3 DEF StopDone, SeesDone, ManagerInv, TypeOK, StopInv, WaiterInv
    <3>2. stopProc' = stopProc /\ stopped' = stopped \cup {i} /\ i \notin stopped
      BY <2>3, <3>1 DEF StopDone, ManagerInv, TypeOK
    <3>3. PICK p \in Procs : p = stopProc[i]
      BY <3>1
    <3>4. Lifecycle!Succeed(i, p)
      BY <2>1, <3>1, <3>2, <3>3 DEF Lifecycle!Succeed, GotExit
    <3>5. QED
      BY <3>4 DEF Lifecycle!Next
  <2>4. ASSUME ~StopDone(i), \A q \in Pids : ~StopCheck(i, q) PROVE Quiet
    <3>1. stopProc' = stopProc
      BY <1>7, <2>4 DEF StopNext, StopRuns, StopRejected, SigTerm, SigKill, StopSignals, GraceExpires
    <3>2. \E x : x # "ok" /\ stop' = [stop EXCEPT ![i] = x]
      BY <1>7, <2>4 DEF StopNext, StopRuns, StopRejected, SigTerm, SigKill, StopSignals, GraceExpires
    <3>3. stop[i] # "ok"
      BY <1>7 DEF StopNext, StopRuns, StopRejected, StopCheck, StopBegins, SigTerm, SigKill,
        StopDone, GraceExpires
    <3>4. stopped' = stopped
      BY <3>2, <3>3 DEF ManagerInv, TypeOK
    <3>5. QED
      BY <2>1, <3>1, <3>4
  <2>5. QED
    BY <1>1, <2>2, <2>3, <2>4
<1>8. CASE StopAllBegins
  <2>1. UNCHANGED <<status, osCode, exitCode, tailProc, sent, stopProc>>
    BY <1>8 DEF StopAllBegins, mgrVars, osVars, tailVars
  <2>2. \A i \in Stops : stop'[i] = stop[i] \/ (stop[i] = "idle" /\ stop'[i] = "check")
    BY <1>8 DEF StopAllBegins, SnapshotInv
  <2>3. stopped' = stopped
    BY <2>2
  <2>4. QED
    BY <1>1, <2>1, <2>3
<1>9. StopAllReturns \/ Terminated \/ UNCHANGED vars => Quiet
  BY DEF StopAllReturns, Terminated, vars, mgrVars, osVars, tailVars, stopVars
<1>10. QED
  BY <1>1, <1>2, <1>3, <1>4, <1>5, <1>6, <1>7, <1>8, <1>9 DEF Next

\* The manager implements ProcessLifecycle: the end of a process is announced once
\* and with its real code, a Tail client is told that code, once and after the
\* announcement, and a Stop succeeds only after it.
THEOREM LifecycleImplemented == Spec => ImplementsLifecycle
<1>1. Init => Lifecycle!Init
  BY DEF Init, Lifecycle!Init, GotExit
<1>2. ManagerInv /\ ManagerInv' /\ SnapshotInv /\ (\A t \in Tails : EventsInv(t))
      /\ (\A t \in Tails : EventsInv(t))' /\ [Next]_vars =>
        [Lifecycle!Next]_(Lifecycle!lifecycleVars)
  BY LifecycleStep
<1>3. QED
  BY <1>1, <1>2, EventsInvariant, StopInvariant, PTL DEF Spec, ImplementsLifecycle, Lifecycle!Spec
=============================================================================
