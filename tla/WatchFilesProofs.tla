-------------------------- MODULE WatchFilesProofs --------------------------
(***************************************************************************)
(* Proofs about watchFiles, for every tree, queue and number of changes:   *)
(* what the client is told is what happened, and no directory is forgotten *)
(* as long as the patterns match none.                                     *)
(***************************************************************************)
EXTENDS WatchFiles, WellFoundedInduction, TLAPS

-----------------------------------------------------------------------------
(* Directories *)

\* The Create event of directory d is queued.
Announced(d, es) == \E n \in DOMAIN es : es[n] = [path |-> d, op |-> "create"]

\* An event stays queued when others are appended.
LEMMA AppendKeeps ==
  ASSUME NEW q \in Seq(Events), NEW es \in Seq(Events), NEW d
  PROVE  /\ q \o es \in Seq(Events)
         /\ Announced(d, q) => Announced(d, q \o es)
         /\ Announced(d, es) => Announced(d, q \o es)
<1>1. q \o es \in Seq(Events)
  OBVIOUS
<1>2. ASSUME NEW n \in DOMAIN q, q[n] = [path |-> d, op |-> "create"]
      PROVE  n \in DOMAIN (q \o es) /\ (q \o es)[n] = q[n]
  OBVIOUS
<1>3. ASSUME NEW n \in DOMAIN es, es[n] = [path |-> d, op |-> "create"]
      PROVE  Len(q) + n \in DOMAIN (q \o es) /\ (q \o es)[Len(q) + n] = es[n]
  OBVIOUS
<1>4. QED
  BY <1>1, <1>2, <1>3 DEF Announced

\* An event that is not the first stays queued when the first is received.
LEMMA TailKeeps ==
  ASSUME NEW q \in Seq(Events), q # <<>>, NEW d, Announced(d, q),
         Head(q) # [path |-> d, op |-> "create"]
  PROVE  Announced(d, Tail(q))
<1>1. PICK n \in DOMAIN q : q[n] = [path |-> d, op |-> "create"]
  BY DEF Announced
<1>2. n # 1
  BY <1>1
<1>3. n - 1 \in DOMAIN Tail(q) /\ Tail(q)[n - 1] = q[n]
  BY <1>1, <1>2
<1>4. QED
  BY <1>1, <1>3 DEF Announced

\* DirInv holds when the call is made.
LEMMA InitDirInv == Init => DirInv
  BY DEF Init, DirInv, NoDirForgotten

\* A change of the tree keeps DirInv if a directory it adds to owed is announced.
LEMMA DeliverKeeps ==
  ASSUME DirInv, NEW seen \in BOOLEAN, NEW es \in Seq(Events), Deliver(seen, es),
         owed' \subseteq exists' \cap Dirs,
         pc = "idle" => owed' = {} /\ watched' = {},
         \A d \in owed' : \/ d \in owed /\ (d \in watched => d \in watched')
                          \/ seen /\ Announced(d, es)
  PROVE  DirInv'
<1>1. queue' \in Seq(Events) /\ (pc' = "idle" => owed' = {} /\ watched' = {})
  BY AppendKeeps DEF DirInv, Deliver, callVars
<1>2. SUFFICES ASSUME pc' \notin Over, ~lost', NEW d \in owed'
               PROVE  d \in watched' \cup toWatch' \/ Announced(d, queue')
  BY <1>1 DEF DirInv, NoDirForgotten, Announced
<1>3. pc \notin Over /\ ~lost /\ toWatch' = toWatch
  BY <1>2 DEF Deliver, callVars
<1>4. seen => queue' = queue \o es
  BY <1>2 DEF Deliver
<1>5. ~seen => queue' = queue
  BY DEF Deliver
<1>6. CASE d \in owed /\ (d \in watched => d \in watched')
  <2>1. d \in watched \cup toWatch \/ Announced(d, queue)
    BY <1>3, <1>6 DEF DirInv, NoDirForgotten, Announced
  <2>2. Announced(d, queue) => Announced(d, queue')
    BY <1>4, <1>5, AppendKeeps DEF DirInv
  <2>3. QED
    BY <1>3, <1>6, <2>1, <2>2
<1>7. CASE seen /\ Announced(d, es)
  BY <1>4, <1>7, AppendKeeps DEF DirInv
<1>8. QED
  BY <1>6, <1>7

\* DirInv is kept by every change of the tree.
LEMMA ChangeKeeps ==
  ASSUME DirInv, Change
  PROVE  DirInv'
<1>1. ASSUME NEW x \in Paths \ {Home}, Create(x) PROVE DirInv'
  <2> DEFINE es == <<[path |-> x, op |-> "create"]>>
             seen == Parent(x) \in watched
  <2>1. es \in Seq(Events) /\ seen \in BOOLEAN
    BY DEF Events, Ops
  <2>2. Announced(x, es)
    <3>1. 1 \in DOMAIN es /\ es[1] = [path |-> x, op |-> "create"]
      OBVIOUS
    <3>2. QED
      BY <3>1 DEF Announced
  <2>3. owed' \subseteq exists' \cap Dirs /\ (pc = "idle" => owed' = {} /\ watched' = {})
    BY <1>1 DEF Create, DirInv
  <2>4. \A d \in owed' : \/ d \in owed /\ (d \in watched => d \in watched')
                         \/ seen /\ Announced(d, es)
    <3>1. \A d \in owed' : d \in owed \/ (seen /\ d = x)
      BY <1>1 DEF Create
    <3>2. watched' = watched
      BY <1>1 DEF Create
    <3>3. QED
      BY <2>2, <3>1, <3>2
  <2>5. Deliver(seen, es)
    BY <1>1 DEF Create
  <2>6. HIDE DEF es, seen
  <2>7. QED
    BY <2>1, <2>3, <2>4, <2>5, DeliverKeeps
<1>2. ASSUME NEW x \in Paths \ {Home}, Remove(x) PROVE DirInv'
  <2> DEFINE es == <<[path |-> x, op |-> "remove"]>>
             seen == {x, Parent(x)} \cap watched # {}
  <2>1. es \in Seq(Events) /\ seen \in BOOLEAN
    BY DEF Events, Ops
  <2>2. Deliver(seen, es)
    BY <1>2 DEF Remove
  <2>3. /\ owed' \subseteq exists' \cap Dirs
        /\ pc = "idle" => owed' = {} /\ watched' = {}
        /\ \A d \in owed' : d \in owed /\ (d \in watched => d \in watched')
    BY <1>2 DEF Remove, DirInv
  <2>4. HIDE DEF es, seen
  <2>5. QED
    BY <2>1, <2>2, <2>3, DeliverKeeps
<1>3. ASSUME NEW f \in Files, NEW op \in {"write", "chmod"}, Touch(f, op) PROVE DirInv'
  <2> DEFINE es == <<[path |-> f, op |-> op]>>
             seen == Parent(f) \in watched
  <2>1. es \in Seq(Events) /\ seen \in BOOLEAN
    BY DEF Events, Ops, Paths
  <2>2. Deliver(seen, es)
    BY <1>3 DEF Touch
  <2>3. /\ owed' \subseteq exists' \cap Dirs
        /\ pc = "idle" => owed' = {} /\ watched' = {}
        /\ \A d \in owed' : d \in owed /\ (d \in watched => d \in watched')
    BY <1>3 DEF Touch, DirInv
  <2>4. HIDE DEF es, seen
  <2>5. QED
    BY <2>1, <2>2, <2>3, DeliverKeeps
<1>4. ASSUME NEW f \in Files, NEW g \in Files, Rename(f, g) PROVE DirInv'
  <2> DEFINE es == <<[path |-> f, op |-> "rename"], [path |-> g, op |-> "create"]>>
             seen == Parent(f) \in watched
  <2>1. es \in Seq(Events) /\ seen \in BOOLEAN
    BY DEF Events, Ops, Paths
  <2>2. Deliver(seen, es)
    BY <1>4 DEF Rename
  <2>3. /\ owed' \subseteq exists' \cap Dirs
        /\ pc = "idle" => owed' = {} /\ watched' = {}
        /\ \A d \in owed' : d \in owed /\ (d \in watched => d \in watched')
    BY <1>4, TreeAssumption DEF Rename, DirInv
  <2>4. HIDE DEF es, seen
  <2>5. QED
    BY <2>1, <2>2, <2>3, DeliverKeeps
<1>5. ASSUME NEW f \in Files, Touch(f, "write") \/ Touch(f, "chmod") PROVE DirInv'
  <2>1. PICK op \in {"write", "chmod"} : Touch(f, op)
    BY <1>5
  <2>2. QED
    BY <1>3, <2>1
<1>6. QED
  BY <1>1, <1>2, <1>4, <1>5 DEF Change

\* DirInv is kept by the walk and by the watcher.Add calls that follow it.
LEMMA SetupKeeps ==
  ASSUME DirInv, Reject \/ Begin \/ Setup
  PROVE  DirInv'
<1>1. CASE Reject
  BY <1>1 DEF Reject, DirInv, NoDirForgotten, Over, envVars
<1>2. CASE Begin
  BY <1>2 DEF Begin, DirInv, NoDirForgotten, Over, envVars
<1>3. ASSUME NEW d \in Dirs, Visit(d) PROVE DirInv'
  BY <1>3 DEF Visit, Collect, DirInv, NoDirForgotten, Over, envVars
<1>4. ASSUME NEW d \in Dirs, AddNext(d) PROVE DirInv'
  BY <1>4 DEF AddNext, Add, DirInv, NoDirForgotten, Over, envVars
<1>5. CASE EndWalk \/ EndAdd
  BY <1>5 DEF EndWalk, EndAdd, DirInv, NoDirForgotten, Over, envVars
<1>6. QED
  BY <1>1, <1>2, <1>3, <1>4, <1>5 DEF Setup

\* DirInv is kept when the call returns.
LEMMA ReturnKeeps ==
  ASSUME DirInv, Return
  PROVE  DirInv'
<1>1. <<>> \in Seq(Events)
  OBVIOUS
<1>2. QED
  BY <1>1 DEF Return, DirInv, NoDirForgotten, Over, envVars

\* DirInv is kept by the event loop if no pattern matches a directory: the
\* event of a directory that is still owed a watch leads to watcher.Add.
LEMMA LoopKeeps ==
  ASSUME Matching \cap Dirs = {}, DirInv, Loop
  PROVE  DirInv'
<1>1. ASSUME pc = "loop", queue # <<>>, queue' = Tail(queue),
             UNCHANGED <<pc, toWatch, exists, lost>>, watched \subseteq watched', owed' \subseteq owed,
             \A d \in owed' : Head(queue) = [path |-> d, op |-> "create"] => d \in watched'
      PROVE  DirInv'
  <2>1. queue' \in Seq(Events)
    BY <1>1 DEF DirInv
  <2>2. SUFFICES ASSUME pc \notin Over, ~lost, NEW d \in owed'
                 PROVE  d \in watched' \cup toWatch \/ Announced(d, queue')
    BY <1>1, <2>1 DEF DirInv, NoDirForgotten, Announced
  <2>3. d \in watched \cup toWatch \/ Announced(d, queue)
    BY <1>1, <2>2 DEF DirInv, NoDirForgotten, Announced
  <2>4. CASE Announced(d, queue) /\ Head(queue) # [path |-> d, op |-> "create"]
    BY <1>1, <2>4, TailKeeps DEF DirInv
  <2>5. QED
    BY <1>1, <2>2, <2>3, <2>4
<1>2. CASE Unmatched
  <2>1. ASSUME NEW d \in owed', Head(queue) = [path |-> d, op |-> "create"]
        PROVE  d \in watched'
    <3>1. d \in owed
      BY <1>2, <2>1 DEF Unmatched, Add
    <3>2. NewDirectory(Head(queue)) /\ Head(queue).path = d
      BY <2>1, <3>1 DEF NewDirectory, DirInv
    <3>3. Add(d)
      BY <1>2, <3>2 DEF Unmatched
    <3>4. QED
      BY <2>1, <3>1, <3>3 DEF Add, DirInv
  <2>2. watched \subseteq watched' /\ owed' \subseteq owed
    BY <1>2 DEF Unmatched, Add
  <2>3. QED
    BY <1>1, <1>2, <2>1, <2>2 DEF Unmatched, callVars, envVars
<1>3. CASE Matched /\ ~Return
  <2>1. /\ pc = "loop" /\ queue # <<>> /\ queue' = Tail(queue) /\ Head(queue).path \in Matching
        /\ UNCHANGED <<pc, toWatch, exists, lost, watched, owed>>
    BY <1>3 DEF Matched, envVars
  <2>2. \A d \in owed : Head(queue) # [path |-> d, op |-> "create"]
    BY <2>1 DEF DirInv
  <2>3. QED
    BY <1>1, <2>1, <2>2
<1>4. QED
  BY <1>2, <1>3, ReturnKeeps DEF Loop

\* Every step keeps DirInv if no pattern matches a directory.
LEMMA StepKeepsDirInv ==
  ASSUME Matching \cap Dirs = {}
  PROVE  DirInv /\ [Next]_vars => DirInv'
<1> SUFFICES ASSUME DirInv, [Next]_vars PROVE DirInv'
  OBVIOUS
<1>1. CASE UNCHANGED vars
  BY <1>1 DEF vars, callVars, DirInv, NoDirForgotten
<1>2. CASE Cancel
  BY <1>2, ReturnKeeps DEF Cancel
<1>3. QED
  BY <1>1, <1>2, ChangeKeeps, SetupKeeps, LoopKeeps DEF Next, Waiting

\* If no pattern matches a directory, every directory the walk read or that
\* was created in a watched one is watched or on its way to be.
THEOREM NoDirEverForgotten ==
  ASSUME Matching \cap Dirs = {}
  PROVE  Spec => []NoDirForgotten
<1>1. DirInv => NoDirForgotten
  BY DEF DirInv
<1>2. QED
  BY <1>1, InitDirInv, StepKeepsDirInv, PTL DEF Spec

-----------------------------------------------------------------------------
(* Pending satisfies its recursive definition *)

\* A set of numbers that is not empty has a least element.
LEMMA Least ==
  ASSUME NEW T, T \subseteq Nat, T # {}
  PROVE  \E n \in T : \A k \in T : ~(k < n)
<1>1. PICK n \in T : \A k \in T : <<k, n>> \notin OpToRel(<, Nat)
  BY WFMin, NatLessThanWellFounded, Zenon
<1>2. ASSUME NEW k \in T PROVE ~(k < n)
  <2>1. k \in Nat /\ n \in Nat
    OBVIOUS
  <2>2. QED
    BY <1>1, <2>1 DEF OpToRel
<1>3. QED
  BY <1>2

\* What the head and the tail of a sequence, and of its extensions, are.
LEMMA SeqParts ==
  ASSUME NEW S, NEW q \in Seq(S), q # <<>>
  PROVE  /\ Head(q) \in S /\ Tail(q) \in Seq(S)
         /\ Len(q) \in Nat \ {0} /\ Len(Tail(q)) = Len(q) - 1
         /\ \A es \in Seq(S) : /\ q \o es \in Seq(S) /\ q \o es # <<>>
                               /\ Head(q \o es) = Head(q) /\ Tail(q \o es) = Tail(q) \o es
  OBVIOUS

\* The sequences of at most n events, and what Pending must be on them.
Short(n) == {es \in Seq(Events) : Len(es) <= n}
Reporting(f, D) == f = [es \in D |-> IF es = <<>> THEN <<>> ELSE ReportOf(Head(es)) \o f[Tail(es)]]

\* What such a function is at a sequence.
LEMMA ReportingAt ==
  ASSUME NEW f, NEW D, Reporting(f, D), NEW es \in D
  PROVE  f[es] = IF es = <<>> THEN <<>> ELSE ReportOf(Head(es)) \o f[Tail(es)]
  BY DEF Reporting

\* The tail of a short sequence is shorter.
LEMMA ShortTail ==
  ASSUME NEW n \in Nat, NEW es \in Short(n), es # <<>>
  PROVE  n # 0 /\ Tail(es) \in Short(n - 1) /\ Tail(es) \in Short(n) /\ Len(Tail(es)) = Len(es) - 1 /\ Len(es) \in Nat \ {0}
<1>1. es \in Seq(Events) /\ Len(es) <= n
  BY DEF Short
<1>2. Tail(es) \in Seq(Events) /\ Len(Tail(es)) = Len(es) - 1 /\ Len(es) \in Nat \ {0}
  BY <1>1, SeqParts
<1>3. QED
  BY <1>1, <1>2 DEF Short

\* There is one for the sequences of each length.
LEMMA ReportingShort == \A n \in Nat : \E f : Reporting(f, Short(n))
<1> DEFINE T == {n \in Nat : ~ \E f : Reporting(f, Short(n))}
<1>1. SUFFICES ASSUME T # {} PROVE FALSE
  OBVIOUS
<1>2. PICK n \in T : \A k \in T : ~(k < n)
  BY <1>1, Least
<1>3. CASE n = 0
  <2>1. [es \in Short(0) |-> <<>>] = [es \in Short(0) |->
          IF es = <<>> THEN <<>> ELSE ReportOf(Head(es)) \o [fs \in Short(0) |-> <<>>][Tail(es)]]
    BY ShortTail
  <2>2. QED
    BY <1>2, <1>3, <2>1 DEF Reporting
<1>4. CASE n # 0
  <2>1. n - 1 \in Nat /\ n - 1 \notin T
    BY <1>2, <1>4
  <2>2. PICK f : Reporting(f, Short(n - 1))
    BY <2>1
  <2>3. PICK g : g = [es \in Short(n) |-> IF es = <<>> THEN <<>> ELSE ReportOf(Head(es)) \o f[Tail(es)]]
    OBVIOUS
  <2>4. ASSUME NEW es \in Short(n), es # <<>> PROVE g[Tail(es)] = f[Tail(es)]
    <3>1. Tail(es) \in Short(n) /\ Tail(es) \in Short(n - 1)
      BY <2>4, ShortTail
    <3>2. PICK t : t = Tail(es)
      OBVIOUS
    <3>3. g[t] = IF t = <<>> THEN <<>> ELSE ReportOf(Head(t)) \o f[Tail(t)]
      BY <2>3, <3>1, <3>2
    <3>4. f[t] = IF t = <<>> THEN <<>> ELSE ReportOf(Head(t)) \o f[Tail(t)]
      BY <2>2, <3>1, <3>2, ReportingAt
    <3>5. QED
      BY <3>2, <3>3, <3>4
  <2>5. Reporting(g, Short(n))
    BY <2>3, <2>4, Zenon DEF Reporting
  <2>6. QED
    BY <2>5
<1>5. QED
  BY <1>3, <1>4

\* Two of them agree where both are defined.
LEMMA ReportingAgree ==
  ASSUME NEW m \in Nat, NEW n \in Nat, NEW f, NEW g, Reporting(f, Short(m)), Reporting(g, Short(n)),
         NEW es \in Short(m) \cap Short(n)
  PROVE  f[es] = g[es]
<1> DEFINE Bad(k) == \E t \in Short(m) \cap Short(n) : Len(t) = k /\ f[t] # g[t]
           T == {k \in Nat : Bad(k)}
<1>1. T = {}
  <2>1. SUFFICES ASSUME T # {} PROVE FALSE
    OBVIOUS
  <2>2. PICK k \in T : \A j \in T : ~(j < k)
    BY <2>1, Least
  <2>3. PICK t \in Short(m) \cap Short(n) : Len(t) = k /\ f[t] # g[t]
    BY <2>2
  <2>4. /\ f[t] = IF t = <<>> THEN <<>> ELSE ReportOf(Head(t)) \o f[Tail(t)]
        /\ g[t] = IF t = <<>> THEN <<>> ELSE ReportOf(Head(t)) \o g[Tail(t)]
    BY ReportingAt, Zenon
  <2>5. t # <<>>
    BY <2>3, <2>4
  <2>6. Tail(t) \in Short(m) \cap Short(n) /\ Len(Tail(t)) \in Nat /\ Len(Tail(t)) < k
    BY <2>3, <2>5, ShortTail
  <2>7. f[Tail(t)] # g[Tail(t)]
    BY <2>3, <2>4, <2>5
  <2>8. Bad(Len(Tail(t)))
    BY <2>6, <2>7
  <2>9. QED
    BY <2>2, <2>6, <2>8
<1>2. Len(es) \in Nat
  BY DEF Short
<1>3. QED
  BY <1>1, <1>2

\* Pending satisfies the equation by which it is defined.
LEMMA PendingDefined == Reporting(Pending, Seq(Events))
<1> DEFINE of(n) == CHOOSE f : Reporting(f, Short(n))
<1>1. ASSUME NEW n \in Nat PROVE Reporting(of(n), Short(n))
  BY ReportingShort
<1> HIDE DEF of
<1>2. PICK F : F = [es \in Seq(Events) |-> of(Len(es))[es]]
  OBVIOUS
<1>3. ASSUME NEW es \in Seq(Events)
      PROVE  F[es] = IF es = <<>> THEN <<>> ELSE ReportOf(Head(es)) \o F[Tail(es)]
  <2>1. Len(es) \in Nat /\ es \in Short(Len(es))
    BY DEF Short
  <2>2. of(Len(es))[es] = IF es = <<>> THEN <<>> ELSE ReportOf(Head(es)) \o of(Len(es))[Tail(es)]
    BY <1>1, <2>1, ReportingAt
  <2>3. ASSUME es # <<>> PROVE of(Len(es))[Tail(es)] = F[Tail(es)]
    <3>1. PICK t \in Seq(Events), n \in Nat, m \in Nat :
            /\ t = Tail(es) /\ n = Len(es) /\ m = Len(t)
            /\ t \in Short(n) /\ t \in Short(m)
      <4>1. Tail(es) \in Seq(Events) /\ Len(Tail(es)) \in Nat /\ Tail(es) \in Short(Len(Tail(es)))
        BY <2>3, SeqParts DEF Short
      <4>2. Tail(es) \in Short(Len(es))
        BY <2>1, <2>3, ShortTail
      <4>3. QED
        BY <2>1, <4>1, <4>2
    <3>2. of(n)[t] = of(m)[t]
      BY <1>1, <3>1, ReportingAgree
    <3>3. QED
      BY <1>2, <3>1, <3>2
  <2>4. F[es] = of(Len(es))[es]
    BY <1>2
  <2>5. QED
    BY <2>2, <2>3, <2>4
<1>4. F = [es \in Seq(Events) |-> IF es = <<>> THEN <<>> ELSE ReportOf(Head(es)) \o F[Tail(es)]]
  BY <1>2, <1>3, Zenon
<1>5. QED
  BY <1>4, Zenon DEF Reporting, Pending

\* The reports of no event, of the first and the others.
LEMMA PendingParts ==
  ASSUME NEW q \in Seq(Events)
  PROVE  Pending[q] = IF q = <<>> THEN <<>> ELSE ReportOf(Head(q)) \o Pending[Tail(q)]
  BY PendingDefined, ReportingAt

\* A report is one of the reports, or there is none.
LEMMA ReportOfType ==
  ASSUME NEW e \in Events
  PROVE  ReportOf(e) \in Seq(Reports)
<1>1. CASE e.path \in Matching /\ e.op # "chmod"
  <2>1. PICK r \in Reports : ReportOf(e) = <<r>>
    BY <1>1 DEF ReportOf, Events, Reports
  <2>2. QED
    BY <2>1
<1>2. CASE ~(e.path \in Matching /\ e.op # "chmod")
  BY <1>2 DEF ReportOf
<1>3. QED
  BY <1>1, <1>2

\* The reports of events are a sequence of reports, by induction on their number.
LEMMA PendingType == \A q \in Seq(Events) : Pending[q] \in Seq(Reports)
<1> DEFINE Bad(k) == \E q \in Seq(Events) : Len(q) = k /\ Pending[q] \notin Seq(Reports)
           T == {k \in Nat : Bad(k)}
<1>1. T = {}
  <2>1. SUFFICES ASSUME T # {} PROVE FALSE
    OBVIOUS
  <2>2. PICK k \in T : \A j \in T : ~(j < k)
    BY <2>1, Least
  <2>3. PICK q \in Seq(Events) : Len(q) = k /\ Pending[q] \notin Seq(Reports)
    BY <2>2
  <2>4. q # <<>>
    BY <2>3, PendingParts
  <2>5. Tail(q) \in Seq(Events) /\ Head(q) \in Events /\ Len(Tail(q)) \in Nat /\ Len(Tail(q)) < k
    BY <2>3, <2>4, SeqParts
  <2>6. Pending[Tail(q)] \in Seq(Reports)
    BY <2>2, <2>5
  <2>7. ReportOf(Head(q)) \o Pending[Tail(q)] \in Seq(Reports)
    <3>1. ReportOf(Head(q)) \in Seq(Reports)
      BY <2>5, ReportOfType
    <3>2. QED
      BY <2>6, <3>1
  <2>8. QED
    BY <2>3, <2>4, <2>7, PendingParts
<1>2. QED
  BY <1>1

\* The reports of events and of further events follow each other.
LEMMA PendingConcat ==
  ASSUME NEW es \in Seq(Events)
  PROVE  \A q \in Seq(Events) : Pending[q \o es] = Pending[q] \o Pending[es]
<1> DEFINE Bad(k) == \E q \in Seq(Events) : Len(q) = k /\ Pending[q \o es] # Pending[q] \o Pending[es]
           T == {k \in Nat : Bad(k)}
<1>1. T = {}
  <2>1. SUFFICES ASSUME T # {} PROVE FALSE
    OBVIOUS
  <2>2. PICK k \in T : \A j \in T : ~(j < k)
    BY <2>1, Least
  <2>3. PICK q \in Seq(Events) : Len(q) = k /\ Pending[q \o es] # Pending[q] \o Pending[es]
    BY <2>2
  <2>4. q # <<>>
    <3>1. SUFFICES ASSUME q = <<>> PROVE FALSE
      OBVIOUS
    <3>2. q \o es = es /\ Pending[q] = <<>>
      <4>1. <<>> \o es = es
        OBVIOUS
      <4>2. QED
        BY <3>1, <4>1, PendingParts, Zenon
    <3>3. PICK r \in Seq(Reports) : r = Pending[es]
      BY PendingType
    <3>4. <<>> \o r = r
      OBVIOUS
    <3>5. QED
      BY <2>3, <3>2, <3>3, <3>4
  <2>5. /\ Tail(q) \in Seq(Events) /\ Head(q) \in Events /\ Len(Tail(q)) \in Nat /\ Len(Tail(q)) < k
        /\ q \o es \in Seq(Events) /\ q \o es # <<>>
        /\ Head(q \o es) = Head(q) /\ Tail(q \o es) = Tail(q) \o es
    BY <2>3, <2>4, SeqParts
  <2>6. Pending[Tail(q) \o es] = Pending[Tail(q)] \o Pending[es]
    BY <2>2, <2>5
  <2>7. PICK r \in Seq(Reports), a \in Seq(Reports), b \in Seq(Reports) :
          r = ReportOf(Head(q)) /\ a = Pending[Tail(q)] /\ b = Pending[es]
    BY <2>5, ReportOfType, PendingType
  <2>8. r \o (a \o b) = (r \o a) \o b
    OBVIOUS
  <2>9. Pending[q \o es] = r \o (a \o b) /\ Pending[q] = r \o a
    BY <2>4, <2>5, <2>6, <2>7, PendingParts
  <2>10. QED
    BY <2>3, <2>7, <2>8, <2>9
<1>2. ASSUME NEW q \in Seq(Events) PROVE Pending[q \o es] = Pending[q] \o Pending[es]
  <2>1. Len(q) \in Nat
    OBVIOUS
  <2>2. QED
    BY <1>1, <2>1
<1>3. QED
  BY <1>2

-----------------------------------------------------------------------------
(* What the client is told *)

\* A change of the tree keeps ReportsFaithful.
LEMMA DeliverReports ==
  ASSUME ReportsFaithful, NEW seen \in BOOLEAN, NEW es \in Seq(Events), Deliver(seen, es),
         watched' \subseteq watched, exists' \subseteq Paths, Home \in exists', owed' \subseteq exists' \cap Dirs
  PROVE  ReportsFaithful'
<1>1. TypeOK /\ UNCHANGED <<pc, toVisit, toWatch, sent>>
  BY DEF ReportsFaithful, Deliver, callVars
<1>2. queue' \in Seq(Events) /\ Len(queue') <= QueueCap
  <2>1. PICK q \in Seq(Events) : q = queue /\ Len(q) <= QueueCap
    BY <1>1 DEF TypeOK
  <2>2. q \o es \in Seq(Events) /\ Len(q \o es) = Len(q) + Len(es)
    OBVIOUS
  <2>3. queue' = q \/ (queue' = q \o es /\ Len(q) + Len(es) <= QueueCap)
    BY <2>1 DEF Deliver, HasRoom
  <2>4. QED
    BY <2>1, <2>2, <2>3
<1>3. PICK p \in Seq(Reports), r \in Seq(Reports), s \in Seq(Reports), o \in Seq(Reports) :
        p = Pending[queue] /\ r = Pending[es] /\ s = sent /\ o = reportable
  BY <1>1, PendingType DEF TypeOK
<1>4. reportable' \in Seq(Reports)
  <2>1. o \o r \in Seq(Reports)
    OBVIOUS
  <2>2. reportable' = o \/ reportable' = o \o r
    BY <1>3 DEF Deliver
  <2>3. QED
    BY <2>1, <2>2
<1>5. changes' \in 0..MaxChanges /\ lost' \in BOOLEAN
  BY <1>1, WatchBoundsAssumption DEF TypeOK, Deliver
<1>6. TypeOK'
  BY <1>1, <1>2, <1>4, <1>5 DEF TypeOK
<1>7. ASSUME pc' \notin Over, ~lost' PROVE sent' \o Pending[queue'] = reportable'
  <2>1. s \o p = o
    BY <1>1, <1>3, <1>7 DEF ReportsFaithful, Deliver
  <2>2. CASE seen
    <3>1. queue' = queue \o es /\ reportable' = o \o r
      BY <1>3, <1>7, <2>2 DEF Deliver
    <3>2. Pending[queue'] = p \o r
      BY <1>1, <1>3, <3>1, PendingConcat DEF TypeOK
    <3>3. s \o (p \o r) = (s \o p) \o r
      OBVIOUS
    <3>4. QED
      BY <1>1, <1>3, <2>1, <3>1, <3>2, <3>3
  <2>3. CASE ~seen
    BY <1>1, <1>3, <2>1, <2>3 DEF Deliver
  <2>4. QED
    BY <2>2, <2>3
<1>8. QED
  BY <1>6, <1>7 DEF ReportsFaithful

\* Every change of the tree delivers what it is about.
LEMMA ChangeReports ==
  ASSUME ReportsFaithful, Change
  PROVE  ReportsFaithful'
<1>0. exists \subseteq Paths /\ Home \in exists /\ owed \subseteq exists \cap Dirs
  BY DEF ReportsFaithful, TypeOK
<1>1. ASSUME NEW x \in Paths \ {Home}, Create(x) PROVE ReportsFaithful'
  <2>1. PICK es \in Seq(Events), seen \in BOOLEAN : Deliver(seen, es)
    <3>1. <<[path |-> x, op |-> "create"]>> \in Seq(Events)
      BY DEF Events, Ops
    <3>2. (Parent(x) \in watched) \in BOOLEAN
      OBVIOUS
    <3>3. QED
      BY <1>1, <3>1, <3>2, Zenon DEF Create
  <2>2. watched' \subseteq watched /\ exists' \subseteq Paths /\ Home \in exists' /\ owed' \subseteq exists' \cap Dirs
    BY <1>0, <1>1 DEF Create
  <2>3. QED
    BY <2>1, <2>2, DeliverReports
<1>2. ASSUME NEW x \in Paths \ {Home}, Remove(x) PROVE ReportsFaithful'
  <2>1. PICK es \in Seq(Events), seen \in BOOLEAN : Deliver(seen, es)
    <3>1. <<[path |-> x, op |-> "remove"]>> \in Seq(Events)
      BY DEF Events, Ops
    <3>2. QED
      BY <1>2, <3>1 DEF Remove
  <2>2. watched' \subseteq watched /\ exists' \subseteq Paths /\ Home \in exists' /\ owed' \subseteq exists' \cap Dirs
    BY <1>0, <1>2 DEF Remove
  <2>3. QED
    BY <2>1, <2>2, DeliverReports
<1>3. ASSUME NEW f \in Files, NEW op \in {"write", "chmod"}, Touch(f, op) PROVE ReportsFaithful'
  <2>1. PICK es \in Seq(Events), seen \in BOOLEAN : Deliver(seen, es)
    <3>1. <<[path |-> f, op |-> op]>> \in Seq(Events)
      BY DEF Events, Ops, Paths
    <3>2. (Parent(f) \in watched) \in BOOLEAN
      OBVIOUS
    <3>3. QED
      BY <1>3, <3>1, <3>2, Zenon DEF Touch
  <2>2. watched' \subseteq watched /\ exists' \subseteq Paths /\ Home \in exists' /\ owed' \subseteq exists' \cap Dirs
    BY <1>0, <1>3 DEF Touch
  <2>3. QED
    BY <2>1, <2>2, DeliverReports
<1>4. ASSUME NEW f \in Files, NEW g \in Files, Rename(f, g) PROVE ReportsFaithful'
  <2>1. PICK es \in Seq(Events), seen \in BOOLEAN : Deliver(seen, es)
    <3>1. <<[path |-> f, op |-> "rename"], [path |-> g, op |-> "create"]>> \in Seq(Events)
      BY DEF Events, Ops, Paths
    <3>2. (Parent(f) \in watched) \in BOOLEAN
      OBVIOUS
    <3>3. QED
      BY <1>4, <3>1, <3>2, Zenon DEF Rename
  <2>2. watched' \subseteq watched /\ exists' \subseteq Paths /\ Home \in exists' /\ owed' \subseteq exists' \cap Dirs
    BY <1>0, <1>4, TreeAssumption DEF Rename, Paths
  <2>3. QED
    BY <2>1, <2>2, DeliverReports
<1>5. QED
  BY <1>1, <1>2, <1>3, <1>4 DEF Change

\* The walk, the watcher.Add calls and the return keep ReportsFaithful.
LEMMA SetupReports ==
  ASSUME ReportsFaithful, Reject \/ Begin \/ Setup \/ Return \/ UNCHANGED vars
  PROVE  ReportsFaithful'
<1>0. TypeOK /\ (pc \notin Over /\ ~lost => sent \o Pending[queue] = reportable)
  BY DEF ReportsFaithful
<1>1. CASE Reject
  BY <1>0, <1>1 DEF Reject, ReportsFaithful, TypeOK, Over, envVars
<1>2. CASE Begin
  BY <1>0, <1>2, TreeAssumption DEF Begin, ReportsFaithful, TypeOK, Over, envVars
<1>3. ASSUME NEW d \in Dirs, Visit(d) PROVE ReportsFaithful'
  BY <1>0, <1>3 DEF Visit, Collect, Entries, ReportsFaithful, TypeOK, Over, envVars
<1>4. ASSUME NEW d \in Dirs, AddNext(d) PROVE ReportsFaithful'
  BY <1>0, <1>4 DEF AddNext, Add, ReportsFaithful, TypeOK, Over, envVars
<1>5. CASE EndWalk \/ EndAdd
  BY <1>0, <1>5 DEF EndWalk, EndAdd, ReportsFaithful, TypeOK, Over, envVars
<1>6. CASE Return
  <2>1. <<>> \in Seq(Events) /\ Len(<<>>) = 0 /\ QueueCap \in Nat
    BY WatchBoundsAssumption
  <2>2. QED
    BY <1>0, <1>6, <2>1 DEF Return, ReportsFaithful, TypeOK, Over, envVars
<1>7. CASE UNCHANGED vars
  BY <1>0, <1>7 DEF vars, callVars, ReportsFaithful, TypeOK
<1>8. QED
  BY <1>1, <1>2, <1>3, <1>4, <1>5, <1>6, <1>7 DEF Setup

\* The event loop sends what the event it receives should be told as.
LEMMA LoopReports ==
  ASSUME ReportsFaithful, Loop
  PROVE  ReportsFaithful'
<1>0. TypeOK /\ (pc \notin Over /\ ~lost => sent \o Pending[queue] = reportable)
  BY DEF ReportsFaithful
<1>1. ASSUME queue # <<>>, queue' = Tail(queue), sent' = sent \o ReportOf(Head(queue)),
             UNCHANGED <<pc, toVisit, toWatch, exists, changes, reportable, lost>>,
             watched' \subseteq Dirs, owed' \subseteq owed
      PROVE  ReportsFaithful'
  <2>1. Head(queue) \in Events /\ Tail(queue) \in Seq(Events) /\ Len(Tail(queue)) = Len(queue) - 1 /\ Len(queue) \in Nat
    BY <1>0, <1>1, SeqParts DEF TypeOK
  <2>2. PICK s \in Seq(Reports), r \in Seq(Reports), p \in Seq(Reports) :
          s = sent /\ r = ReportOf(Head(queue)) /\ p = Pending[Tail(queue)]
    BY <1>0, <2>1, ReportOfType, PendingType DEF TypeOK
  <2>3. s \o r \in Seq(Reports) /\ (s \o r) \o p = s \o (r \o p)
    OBVIOUS
  <2>4. Pending[queue] = r \o p
    BY <1>0, <1>1, <2>2, PendingParts DEF TypeOK
  <2>5. Len(queue') <= QueueCap
    BY <1>0, <1>1, <2>1, WatchBoundsAssumption DEF TypeOK
  <2>6. sent' \in Seq(Reports)
    BY <1>1, <2>2, <2>3
  <2>7. TypeOK'
    BY <1>0, <1>1, <2>1, <2>5, <2>6 DEF TypeOK
  <2>8. QED
    BY <1>0, <1>1, <2>2, <2>3, <2>4, <2>7 DEF ReportsFaithful
<1>2. CASE Unmatched
  <2>1. ReportOf(Head(queue)) = <<>>
    BY <1>2 DEF Unmatched, ReportOf
  <2>2. sent \o <<>> = sent
    BY <1>0 DEF TypeOK
  <2>3. watched' \subseteq Dirs /\ owed' \subseteq owed
    BY <1>0, <1>2 DEF Unmatched, Add, NewDirectory, TypeOK
  <2>4. QED
    BY <1>1, <1>2, <2>1, <2>2, <2>3 DEF Unmatched, callVars, envVars
<1>3. CASE Matched /\ ~Return
  <2>1. /\ queue # <<>> /\ queue' = Tail(queue) /\ Head(queue).path \in Matching
        /\ UNCHANGED <<pc, toVisit, toWatch, watched, exists, changes, reportable, owed, lost>>
        /\ sent' = IF mapFsnotifyEvent(Head(queue).op) = "" THEN sent
                   ELSE Append(sent, [path |-> Head(queue).path, type |-> mapFsnotifyEvent(Head(queue).op)])
    BY <1>3 DEF Matched, envVars
  <2>2. Head(queue) \in Events /\ sent \in Seq(Reports)
    BY <1>0, <2>1, SeqParts DEF TypeOK
  <2>3. PICK e \in Events : e = Head(queue)
    BY <2>2
  <2>4. sent' = sent \o ReportOf(e)
    <3>1. CASE e.op = "chmod"
      <4>1. mapFsnotifyEvent(e.op) = "" /\ ReportOf(e) = <<>>
        BY <3>1 DEF mapFsnotifyEvent, ReportOf
      <4>2. sent \o <<>> = sent
        BY <2>2
      <4>3. QED
        BY <2>1, <2>3, <4>1, <4>2
    <3>2. CASE e.op # "chmod"
      <4>1. PICK type \in {"created", "modified", "deleted"} :
              mapFsnotifyEvent(e.op) = type /\ ReportOf(e) = <<[path |-> e.path, type |-> type]>>
        BY <2>1, <2>3, <3>2 DEF mapFsnotifyEvent, ReportOf, Events, Ops
      <4>2. PICK r \in Reports : r = [path |-> e.path, type |-> type]
        BY DEF Reports, Events
      <4>3. sent \o <<r>> = Append(sent, r)
        BY <2>2
      <4>4. QED
        BY <2>1, <2>3, <4>1, <4>2, <4>3
    <3>3. QED
      BY <3>1, <3>2
  <2>5. QED
    BY <1>0, <1>1, <2>1, <2>3, <2>4 DEF TypeOK
<1>4. QED
  BY <1>2, <1>3, SetupReports DEF Loop

\* watch.go: what the client was sent and what is under way are the changes of the
\* matching paths that a watch saw, in their order, whatever the patterns match.
THEOREM ReportsAlwaysFaithful == Spec => []ReportsFaithful
<1>1. Init => ReportsFaithful
  <2>1. SUFFICES ASSUME Init PROVE ReportsFaithful
    OBVIOUS
  <2>2. <<>> \in Seq(Events) /\ <<>> \in Seq(Reports) /\ Len(<<>>) = 0 /\ <<>> \o <<>> = <<>>
    OBVIOUS
  <2>3. Pending[<<>>] = <<>>
    BY <2>2, PendingParts
  <2>4. TypeOK
    <3>1. 0 \in 0..MaxChanges /\ 0 <= QueueCap
      BY WatchBoundsAssumption
    <3>2. queue = <<>> /\ sent = <<>> /\ reportable = <<>> /\ changes = 0 /\ lost = FALSE
          /\ pc = "idle" /\ toVisit = {} /\ toWatch = {} /\ watched = {} /\ owed = {} /\ exists = InitialTree
      BY <2>1 DEF Init
    <3>3. exists \subseteq Paths /\ Home \in exists
      BY <3>2, TreeAssumption
    <3>4. queue \in Seq(Events) /\ Len(queue) <= QueueCap /\ sent \in Seq(Reports) /\ reportable \in Seq(Reports)
      BY <2>2, <3>1, <3>2
    <3>5. QED
      BY <3>1, <3>2, <3>3, <3>4 DEF TypeOK
  <2>5. QED
    BY <2>1, <2>2, <2>3, <2>4 DEF Init, ReportsFaithful
<1>2. ReportsFaithful /\ [Next]_vars => ReportsFaithful'
  BY ChangeReports, SetupReports, LoopReports DEF Next, Cancel, Waiting
<1>3. QED
  BY <1>1, <1>2, PTL DEF Spec
=============================================================================
