------------------------ MODULE BrowserManagerProofs ------------------------
(***************************************************************************)
(* Proofs about BrowserManager, for any number of tabs, any documents and  *)
(* any action lists: what the manager keeps of pages and references stays  *)
(* sound, and Act and its waits report what happened.                      *)
(***************************************************************************)
EXTENDS BrowserManager, FiniteSetTheorems, TLAPS

-----------------------------------------------------------------------------
(* Operators *)

\* The tree a snapshot returns has references of kept nodes only.
LEMMA TreeRefsKept == ASSUME NEW ax PROVE TreeRefs(ax) \subseteq NodeRefs(ax)
<1>1. InTree(ax) \subseteq Kept(ax)
  BY DEF InTree
<1>2. QED
  BY <1>1 DEF TreeRefs, NodeRefs

\* A list is a function on 1..Len.
LEMMA SeqIsSeq == ASSUME NEW S, NEW s \in Seq(S) PROVE IsSeq(s)
<1> DEFINE R == {s[i] : i \in DOMAIN s}
<1>1. Len(s) \in Nat /\ DOMAIN s = 1..Len(s)
  OBVIOUS
<1>2. s \in [1..Len(s) -> R]
  BY <1>1
<1>3. s \in Seq(R)
  BY <1>1, <1>2
<1>4. QED
  BY <1>3 DEF IsSeq

\* What is a sequence has a length and is defined up to it.
LEMMA IsSeqLen == ASSUME NEW s, IsSeq(s) PROVE Len(s) \in Nat /\ DOMAIN s = 1..Len(s)
  BY DEF IsSeq

\* A function on 1..n is a list of its values.
LEMMA FunctionSeq ==
  ASSUME NEW S, NEW n \in Nat, NEW f, f = [i \in 1..n |-> f[i]], \A i \in 1..n : f[i] \in S
  PROVE  f \in Seq(S) /\ Len(f) = n
<1>1. f \in [1..n -> S]
  OBVIOUS
<1>2. QED
  BY <1>1

\* The elements of a concatenation.
LEMMA ConcatElements ==
  ASSUME NEW S, NEW a \in Seq(S), NEW b \in Seq(S)
  PROVE  /\ a \o b \in Seq(S) /\ Len(a \o b) = Len(a) + Len(b)
         /\ Len(a) \in Nat /\ Len(b) \in Nat
         /\ \A i \in 1..Len(a) : (a \o b)[i] = a[i]
         /\ \A i \in 1..Len(b) : (a \o b)[Len(a) + i] = b[i]
  OBVIOUS

\* s is a, then b, then c.
Parts(s, a, b, c) ==
  /\ Len(s) = Len(a) + Len(b) + Len(c)
  /\ \A i \in 1..Len(a) : s[i] = a[i]
  /\ \A i \in 1..Len(b) : s[Len(a) + i] = b[i]
  /\ \A i \in 1..Len(c) : s[Len(a) + Len(b) + i] = c[i]

\* The entries of three sequences put together.
LEMMA ConcatThree ==
  ASSUME NEW S, NEW a \in Seq(S), NEW b \in Seq(S), NEW c \in Seq(S)
  PROVE  (a \o b) \o c \in Seq(S) /\ Parts((a \o b) \o c, a, b, c)
<1>0. PICK ab : ab = a \o b
  OBVIOUS
<1>1. /\ ab \in Seq(S) /\ Len(ab) = Len(a) + Len(b) /\ Len(a) \in Nat /\ Len(b) \in Nat
      /\ \A i \in 1..Len(a) : ab[i] = a[i]
      /\ \A i \in 1..Len(b) : ab[Len(a) + i] = b[i]
  BY <1>0, ConcatElements
<1>2. /\ ab \o c \in Seq(S) /\ Len(ab \o c) = Len(ab) + Len(c)
      /\ \A i \in 1..Len(ab) : (ab \o c)[i] = ab[i]
      /\ \A i \in 1..Len(c) : (ab \o c)[Len(ab) + i] = c[i]
  <2>1. ab \in Seq(S)
    BY <1>1
  <2>2. QED
    BY <2>1
<1>3. /\ \A i \in 1..Len(a) : i \in 1..Len(ab)
      /\ \A i \in 1..Len(b) : Len(a) + i \in 1..Len(ab)
  BY <1>1
<1>4. QED
  BY <1>0, <1>1, <1>2, <1>3 DEF Parts

\* The rest of a list.
LEMMA TailElements ==
  ASSUME NEW S, NEW s \in Seq(S), s # <<>>
  PROVE  /\ Tail(s) \in Seq(S) /\ Len(s) \in Nat /\ Len(s) > 0 /\ Len(Tail(s)) = Len(s) - 1
         /\ \A i \in 1..Len(Tail(s)) : Tail(s)[i] = s[i + 1]
  OBVIOUS

\* Two lists that release what they press do so one after the other.
LEMMA ReleasedConcat ==
  ASSUME NEW a, NEW b, IsSeq(a), IsSeq(b), Released(a), Released(b)
  PROVE  IsSeq(a \o b) /\ Released(a \o b)
<1> DEFINE S == {a[i] : i \in DOMAIN a} \cup {b[i] : i \in DOMAIN b}
<1>1. a \in Seq(S) /\ b \in Seq(S)
  BY DEF IsSeq
<1> HIDE DEF S
<1>2. /\ a \o b \in Seq(S) /\ Len(a \o b) = Len(a) + Len(b)
      /\ Len(a) \in Nat /\ Len(b) \in Nat
      /\ \A i \in 1..Len(a) : (a \o b)[i] = a[i]
      /\ \A i \in 1..Len(b) : (a \o b)[Len(a) + i] = b[i]
  BY <1>1, ConcatElements
<1>3. IsSeq(a \o b)
  BY <1>2, SeqIsSeq
<1>4. ASSUME NEW i \in 1..Len(a \o b), (a \o b)[i][1] = "press"
      PROVE  \E j \in (i + 1)..Len(a \o b) : (a \o b)[j] = <<"release", (a \o b)[i][2]>>
  <2>1. CASE i \in 1..Len(a)
    <3>1. PICK j \in (i + 1)..Len(a) : a[j] = <<"release", a[i][2]>>
      BY <1>2, <1>4, <2>1 DEF Released
    <3>2. j \in (i + 1)..Len(a \o b) /\ (a \o b)[j] = a[j] /\ (a \o b)[i] = a[i]
      BY <1>2, <2>1
    <3>3. QED
      BY <3>1, <3>2
  <2>2. CASE i \notin 1..Len(a)
    <3> DEFINE k == i - Len(a)
    <3>1. k \in 1..Len(b) /\ i = Len(a) + k
      BY <1>2, <1>4, <2>2
    <3> HIDE DEF k
    <3>2. (a \o b)[i] = b[k]
      BY <1>2, <3>1
    <3>3. PICK j \in (k + 1)..Len(b) : b[j] = <<"release", b[k][2]>>
      BY <1>4, <3>1, <3>2 DEF Released
    <3>4. Len(a) + j \in (i + 1)..Len(a \o b) /\ (a \o b)[Len(a) + j] = b[j]
      BY <1>2, <3>1
    <3>5. QED
      BY <3>2, <3>3, <3>4
  <2>3. QED
    BY <2>1, <2>2
<1>5. QED
  BY <1>3, <1>4 DEF Released

\* The modifiers that have a key are a list.
LEMMA KnownModifiersSeq ==
  ASSUME NEW mods, IsSeq(mods)
  PROVE  \E n \in Nat : DOMAIN KnownModifiers(mods) = 1..n /\ IsSeq(KnownModifiers(mods))
<1> DEFINE known == {i \in DOMAIN mods : mapModifierToKey(mods[i])}
           f == KnownModifiers(mods)
<1>1. Len(mods) \in Nat /\ DOMAIN mods = 1..Len(mods)
  BY IsSeqLen
<1>2. IsFiniteSet(1..Len(mods)) /\ known \subseteq 1..Len(mods)
  BY <1>1, FS_Interval
<1>3. f = [n \in 1..Cardinality(known) |-> f[n]]
  BY DEF KnownModifiers
<1> HIDE DEF known, f
<1>4. Cardinality(known) \in Nat
  BY <1>2, FS_Subset, FS_CardinalityType
<1>5. f \in Seq({f[i] : i \in 1..Cardinality(known)})
  BY <1>3, <1>4, FunctionSeq
<1>6. DOMAIN f = 1..Cardinality(known)
  BY <1>3
<1>7. QED
  BY <1>4, <1>5, <1>6, SeqIsSeq DEF f

\* p presses the known modifiers, t types, q releases the modifiers in reverse.
Chord(p, t, q, known) ==
  /\ Len(q) = Len(p)
  /\ \A i \in 1..Len(p) : p[i] = <<"press", known[i]>>
  /\ \A i \in 1..Len(t) : t[i][1] = "type"
  /\ \A i \in 1..Len(q) : q[i] = <<"release", known[Len(p) + 1 - i]>>

\* The modifiers pressed first and released last, in reverse, are all released.
LEMMA PressTypeRelease ==
  ASSUME NEW S, NEW p \in Seq(S), NEW t \in Seq(S), NEW q \in Seq(S), NEW known,
         Chord(p, t, q, known)
  PROVE  IsSeq((p \o t) \o q) /\ Released((p \o t) \o q)
<1>a. PICK all : all = (p \o t) \o q
  OBVIOUS
<1>0. PICK n \in Nat, m \in Nat : n = Len(p) /\ m = Len(t) /\ n = Len(q)
  BY DEF Chord
<1>1. /\ all \in Seq(S) /\ Len(all) = n + m + n
      /\ \A i \in 1..n : all[i] = p[i]
      /\ \A i \in 1..m : all[n + i] = t[i]
      /\ \A i \in 1..n : all[n + m + i] = q[i]
  <2>1. /\ all \in Seq(S) /\ Len(all) = Len(p) + Len(t) + Len(q)
        /\ \A i \in 1..Len(p) : all[i] = p[i]
        /\ \A i \in 1..Len(t) : all[Len(p) + i] = t[i]
        /\ \A i \in 1..Len(q) : all[Len(p) + Len(t) + i] = q[i]
    <3>1. (p \o t) \o q \in Seq(S) /\ Parts((p \o t) \o q, p, t, q)
      BY ConcatThree, Zenon
    <3>2. QED
      BY <1>a, <3>1 DEF Parts
  <2>2. QED
    BY <1>0, <2>1
<1>2. \A i \in 1..n : all[i] = <<"press", known[i]>>
  BY <1>0, <1>1 DEF Chord
<1>3. \A i \in 1..m : all[n + i][1] = "type"
  BY <1>0, <1>1 DEF Chord
<1>4. \A i \in 1..n : all[n + m + i] = <<"release", known[n + 1 - i]>>
  BY <1>0, <1>1 DEF Chord
<1>5. Len(all) = n + m + n
  BY <1>1
<1>6. IsSeq(all)
  BY <1>1, SeqIsSeq
<1>7. ASSUME NEW i \in 1..Len(all), all[i][1] = "press"
      PROVE  \E j \in (i + 1)..Len(all) : all[j] = <<"release", all[i][2]>>
  <2>1. ASSUME NEW k \in 1..m, i = n + k PROVE FALSE
    BY <1>3, <1>7, <2>1
  <2>2. ASSUME NEW k \in 1..n, i = n + m + k PROVE FALSE
    <3>1. all[i] = <<"release", known[n + 1 - k]>>
      BY <1>4, <2>2
    <3>2. QED
      BY <1>7, <3>1
  <2>3. i \in 1..n
    <3>1. i \in 1..n \/ i - n \in 1..m \/ i - n - m \in 1..n
      BY <1>5
    <3>2. i = n + (i - n) /\ i = n + m + (i - n - m)
      BY <1>5
    <3>3. QED
      BY <2>1, <2>2, <3>1, <3>2
  <2>4. PICK k \in 1..n : n + 1 - k = i
    <3>1. n + 1 - i \in 1..n /\ n + 1 - (n + 1 - i) = i
      BY <2>3
    <3>2. QED
      BY <3>1
  <2>5. all[n + m + k] = <<"release", known[i]>>
    BY <1>4, <2>4
  <2>6. n + m + k \in (i + 1)..Len(all)
    BY <1>5, <2>3, <2>4
  <2>7. all[i][2] = known[i]
    <3>1. all[i] = <<"press", known[i]>>
      BY <1>2, <2>3
    <3>2. QED
      BY <3>1
  <2>8. QED
    BY <2>5, <2>6, <2>7, Zenon
<1>8. QED
  BY <1>a, <1>6, <1>7 DEF Released

\* actionPress releases every modifier it presses.
LEMMA KeyActionsReleased ==
  ASSUME NEW mods, NEW keys, IsSeq(mods), IsSeq(keys)
  PROVE  IsSeq(KeyActions(mods, keys)) /\ Released(KeyActions(mods, keys))
<1>1. PICK known : known = KnownModifiers(mods)
  OBVIOUS
<1>2. PICK n \in Nat, m \in Nat : DOMAIN known = 1..n /\ Len(known) = n /\ DOMAIN keys = 1..m
  BY <1>1, KnownModifiersSeq, IsSeqLen
<1>3. PICK p, t, q :
        /\ p = [i \in 1..n |-> <<"press", known[i]>>]
        /\ t = [i \in 1..m |-> <<"type", keys[i]>>]
        /\ q = [i \in 1..n |-> <<"release", known[n + 1 - i]>>]
  OBVIOUS
<1>4. KeyActions(mods, keys) = (p \o t) \o q
  BY <1>1, <1>2, <1>3 DEF KeyActions, Pressed
<1>5. PICK S : S = {p[i] : i \in 1..n} \cup {t[i] : i \in 1..m} \cup {q[i] : i \in 1..n}
  OBVIOUS
<1>6. p \in Seq(S) /\ Len(p) = n
  <2>1. p = [i \in 1..n |-> p[i]]
    BY <1>3
  <2>2. \A i \in 1..n : p[i] \in S
    BY <1>5
  <2>3. QED
    BY <2>1, <2>2, FunctionSeq
<1>7. t \in Seq(S) /\ Len(t) = m
  <2>1. t = [i \in 1..m |-> t[i]]
    BY <1>3
  <2>2. \A i \in 1..m : t[i] \in S
    BY <1>5
  <2>3. QED
    BY <2>1, <2>2, FunctionSeq
<1>8. q \in Seq(S) /\ Len(q) = n
  <2>1. q = [i \in 1..n |-> q[i]]
    BY <1>3
  <2>2. \A i \in 1..n : q[i] \in S
    BY <1>5
  <2>3. QED
    BY <2>1, <2>2, FunctionSeq
<1>9. /\ \A i \in 1..n : p[i] = <<"press", known[i]>>
      /\ \A i \in 1..m : t[i][1] = "type"
      /\ \A i \in 1..n : q[i] = <<"release", known[n + 1 - i]>>
  BY <1>3
<1>10. Chord(p, t, q, known)
  BY <1>6, <1>7, <1>8, <1>9 DEF Chord
<1>11. IsSeq((p \o t) \o q) /\ Released((p \o t) \o q)
  BY <1>6, <1>7, <1>8, <1>10, PressTypeRelease, Zenon
<1>12. QED
  BY <1>4, <1>11

-----------------------------------------------------------------------------
(* Steps of the Act under way *)

\* The first action of the Act under way ends: with no key sent, with a combination
\* sent, or with an error in the middle of one.
ActionDone ==
  \/ Done("ok", <<>>)
  \/ \E mods, keys : IsSeq(mods) /\ IsSeq(keys) /\ Done("ok", KeyActions(mods, keys))
  \/ \E cut : Ends("error", <<>>, cut)

ActionStep == ActStep \/ CheckedAsWanted \/ (CallFails /\ call.todo # <<>>)

\* A step of an Act completes its first action, with the mutex held.
LEMMA ActionStepDone ==
  ASSUME TypeOK, CallInv, ActionStep
  PROVE  ~Unlocked /\ call.todo # <<>> /\ ActionDone
<1>1. call.todo # <<>>
  BY DEF ActionStep, ActStep, CheckedAsWanted, UnknownOrNoSelector, PointerAndText, FormAndHover,
         Focus, ElementScreenshot, ScrollTo, ScrollBy, Press, Evaluate, WaitReached, WaitEnds,
         OnElement, Waiting, Current
<1>2. ~Unlocked
  BY <1>1 DEF Unlocked, NoCall
<1>3. ASSUME NEW types, OnElement(types) PROVE ActionDone
  BY <1>3 DEF OnElement, Done, ActionDone
<1>4. ASSUME NEW a, KeysCut(a) PROVE ActionDone
  BY <1>4 DEF KeysCut, ActionDone
<1>5. ASSUME Press PROVE ActionDone
  <2> DEFINE a == Head(call.todo)
  <2>1. a = call.todo[1] /\ 1 \in 1..Len(call.todo)
    BY <1>1 DEF TypeOK, CallInv, IsSeq
  <2>2. a.type = "press"
    BY <1>5 DEF Press, Current
  <2>3. IsSeq(a.mods) /\ IsSeq(a.keys)
    <3> HIDE DEF a
    <3>1. QED
      BY <2>1, <2>2 DEF CallInv
  <2>4. KeysCut(a) \/ Done("error", <<>>) \/ Done("ok", KeyActions(a.mods, a.keys))
    BY <1>5 DEF Press
  <2>5. CASE KeysCut(a)
    BY <1>4, <2>5
  <2>6. CASE Done("error", <<>>) \/ Done("ok", KeyActions(a.mods, a.keys))
    BY <2>3, <2>6 DEF Done, ActionDone
  <2>7. QED
    BY <2>4, <2>5, <2>6
<1>6. ASSUME CallFails PROVE ActionDone
  <2>1. \/ KeysCut(Head(call.todo)) \/ Done("ok", <<>>) \/ Done("error", <<>>)
    BY <1>1, <1>6 DEF CallFails
  <2>2. QED
    BY <1>4, <2>1 DEF Done, ActionDone
<1>7. ASSUME UnknownOrNoSelector \/ ElementScreenshot \/ ScrollBy \/ Evaluate \/ WaitReached
             \/ WaitEnds \/ CheckedAsWanted
      PROVE  ActionDone
  BY <1>7 DEF UnknownOrNoSelector, ElementScreenshot, ScrollBy, Evaluate, WaitReached, WaitEnds,
              CheckedAsWanted, Done, ActionDone
<1>8. QED
  BY <1>1, <1>2, <1>3, <1>5, <1>6, <1>7
     DEF ActionStep, ActStep, PointerAndText, FormAndHover, Focus, ScrollTo

\* An action that succeeded: it was the last one, or the rest is still to do.
LEMMA DoneOk ==
  ASSUME TypeOK, CallInv, call.todo # <<>>, NEW keys, Done("ok", keys)
  PROVE  \/ /\ call' = NoCall
            /\ reply' = [results |-> Append(call.results, "ok"), keys |-> call.keys \o keys,
                         cut |-> <<>>]
         \/ /\ Len(call.todo) > 1
            /\ call' = [method |-> call.method, page |-> call.page, todo |-> Tail(call.todo),
                        results |-> Append(call.results, "ok"), keys |-> call.keys \o keys]
            /\ reply' = reply
<1>1. IsSeq(call.todo) /\ call.todo # <<>> /\ call.results \in Seq({"ok"})
  BY DEF TypeOK, CallInv
<1>2. PICK T : call.todo \in Seq(T)
  BY <1>1 DEF IsSeq
<1>3. Len(call.todo) \in Nat /\ Len(call.todo) > 0
  BY <1>1, <1>2
<1>4. ResultsWith("ok") = Append(call.results, "ok")
  BY <1>1 DEF ResultsWith
<1>5. Len(Append(call.results, "ok")) = Len(call.results) + 1 /\ Len(call.results) \in Nat
  BY <1>1
<1>6. CASE Len(call.todo) = 1
  BY <1>4, <1>5, <1>6 DEF Done, Ends
<1>7. CASE Len(call.todo) # 1
  <2>1. Tail(call.todo) # <<>> /\ Len(call.todo) > 1
    <3>1. Len(Tail(call.todo)) = Len(call.todo) - 1
      BY <1>1, <1>2, TailElements, Zenon
    <3>a. PICK l \in Nat : l = Len(call.todo)
      BY <1>3
    <3>b. l > 0 /\ l # 1
      BY <1>3, <1>7, <3>a, Zenon
    <3>c. l > 1 /\ l - 1 # 0
      BY <3>b
    <3>2. Len(call.todo) > 1
      BY <3>a, <3>c, Zenon
    <3>3. Len(Tail(call.todo)) # 0
      BY <3>1, <3>a, <3>c, Zenon
    <3>4. Len(<<>>) = 0
      OBVIOUS
    <3>5. QED
      BY <3>2, <3>3, <3>4, Zenon
  <2>2. QED
    BY <1>4, <1>5, <1>7, <2>1 DEF Done, Ends
<1>8. QED
  BY <1>6, <1>7

\* n successes, one error and m actions skipped.
StopsAt(r, n, m) ==
  /\ DOMAIN r = 1..(n + 1 + m) /\ Len(r) = n + 1 + m
  /\ \A i \in 1..n : r[i] = "ok"
  /\ r[n + 1] = "error"
  /\ \A i \in 1..m : r[n + 1 + i] = "skipped"

\* After an error Act returns: the rest is reported as skipped.
LEMMA DoneError ==
  ASSUME TypeOK, CallInv, call.todo # <<>>, NEW cut, Ends("error", <<>>, cut)
  PROVE  /\ call' = NoCall
         /\ reply'.keys = call.keys
         /\ \E n, m \in Nat : StopsAt(reply'.results, n, m)
<1>1. IsSeq(call.todo) /\ call.todo # <<>> /\ call.results \in Seq({"ok"}) /\ IsSeq(call.keys)
  BY DEF TypeOK, CallInv
<1>2. PICK m \in Nat : Len(call.todo) = m + 1
  <2>1. PICK T : call.todo \in Seq(T)
    BY <1>1 DEF IsSeq
  <2>2. PICK l \in Nat : l = Len(call.todo) /\ l > 0
    BY <1>1, <2>1
  <2>3. l - 1 \in Nat /\ l = (l - 1) + 1
    BY <2>2
  <2>4. QED
    BY <2>2, <2>3
<1>3. PICK n \in Nat : Len(call.results) = n /\ \A i \in 1..n : call.results[i] = "ok"
  BY <1>1
<1>4. PICK S : S = {"ok", "error", "skipped"}
  OBVIOUS
<1>5. PICK a, b, c : a = call.results /\ b = <<"error">> /\ c = [i \in 1..m |-> "skipped"]
  OBVIOUS
<1>6. a \in Seq(S) /\ Len(a) = n
  BY <1>1, <1>3, <1>4, <1>5
<1>7. b \in Seq(S) /\ Len(b) = 1 /\ b[1] = "error"
  BY <1>4, <1>5
<1>8. c \in Seq(S) /\ Len(c) = m
  <2>1. c = [i \in 1..m |-> c[i]] /\ \A i \in 1..m : c[i] \in S
    BY <1>4, <1>5
  <2>2. QED
    BY <2>1, FunctionSeq
<1>9. ResultsWith("error") = (a \o b) \o c
  BY <1>2, <1>5 DEF ResultsWith
<1>10. PICK r : r = ResultsWith("error")
  OBVIOUS
<1>11. /\ r \in Seq(S) /\ Len(r) = n + 1 + m
       /\ \A i \in 1..n : r[i] = a[i]
       /\ \A i \in 1..1 : r[n + i] = b[i]
       /\ \A i \in 1..m : r[n + 1 + i] = c[i]
  <2>1. (a \o b) \o c \in Seq(S) /\ Parts((a \o b) \o c, a, b, c)
    <3>1. a \in Seq(S) /\ b \in Seq(S) /\ c \in Seq(S)
      BY <1>6, <1>7, <1>8
    <3>2. QED
      BY <3>1, ConcatThree, Zenon
  <2>2. QED
    BY <1>6, <1>7, <1>8, <1>9, <1>10, <2>1 DEF Parts
<1>12. StopsAt(r, n, m)
  BY <1>3, <1>5, <1>7, <1>11 DEF StopsAt
<1>13. Len(r) = Len(call.results) + Len(call.todo)
  BY <1>2, <1>3, <1>11
<1>14. call.keys \o <<>> = call.keys
  BY <1>1 DEF IsSeq
<1>15. call' = NoCall /\ reply'.keys = call.keys /\ reply'.results = r
  BY <1>10, <1>13, <1>14 DEF Ends
<1>16. QED
  BY <1>12, <1>15


\* A reply with an error in it has successes before and skipped actions after it.
LEMMA StopsAtFirstError ==
  ASSUME NEW n \in Nat, NEW m \in Nat, StopsAt(reply'.results, n, m)
  PROVE  StopOnFirstError'
<1>1. PICK r : r = reply'.results
  OBVIOUS
<1>2. /\ DOMAIN r = 1..(n + 1 + m)
      /\ \A i \in 1..n : r[i] = "ok"
      /\ r[n + 1] = "error"
      /\ \A i \in 1..m : r[n + 1 + i] = "skipped"
  BY <1>1 DEF StopsAt
<1>3. ASSUME NEW i \in DOMAIN r, NEW j \in DOMAIN r, i < j
      PROVE  IF r[i] = "ok" THEN r[j] # "skipped" \/ \E k \in (i + 1)..(j - 1) : r[k] = "error"
                            ELSE r[j] = "skipped"
  <2>0. i \in 1..(n + 1 + m) /\ j \in 1..(n + 1 + m)
    BY <1>2
  <2>1. CASE i \in 1..n
    <3>1. r[i] = "ok"
      BY <1>2, <2>1
    <3>2. CASE j <= n + 1
      <4>1. r[j] # "skipped"
        BY <1>2, <1>3, <3>2
      <4>2. QED
        BY <3>1, <4>1
    <3>3. CASE j > n + 1
      <4>1. n + 1 \in (i + 1)..(j - 1)
        BY <1>2, <1>3, <2>1, <3>3
      <4>2. QED
        BY <1>2, <3>1, <4>1
    <3>4. QED
      BY <1>2, <1>3, <3>2, <3>3
  <2>2. CASE i \notin 1..n
    <3>1. PICK k \in 1..m : j = n + 1 + k
      <4>1. j - n - 1 \in 1..m /\ j = n + 1 + (j - n - 1)
        BY <1>2, <1>3, <2>2
      <4>2. QED
        BY <4>1
    <3>2. r[j] = "skipped"
      BY <1>2, <3>1
    <3>3. r[i] # "ok"
      <4>1. CASE i = n + 1
        BY <1>2, <4>1
      <4>2. CASE i # n + 1
        <5>1. i - n - 1 \in 1..m /\ i = n + 1 + (i - n - 1)
          BY <2>0, <1>3, <2>2, <4>2
        <5>2. QED
          BY <1>2, <5>1
      <4>3. QED
        BY <4>1, <4>2
    <3>4. QED
      BY <3>2, <3>3
  <2>3. QED
    BY <2>1, <2>2
<1>4. QED
  BY <1>1, <1>3 DEF StopOnFirstError

\* CallInv is kept by every step of the Act under way.
LEMMA ActionKeepsCallInv ==
  ASSUME TypeOK, CallInv, ActionStep
  PROVE  CallInv'
<1>1. call.todo # <<>> /\ ActionDone
  BY ActionStepDone
<1>2. IsSeq(call.todo) /\ IsSeq(call.keys) /\ Released(call.keys) /\ call.results \in Seq({"ok"}) /\ call.todo # <<>>
  BY <1>1 DEF CallInv, TypeOK
<1>3. IsSeq(<<>>) /\ Released(<<>>) /\ <<>> \in Seq({"ok"}) /\ Len(<<>>) = 0
  BY DEF IsSeq, Released
<1>4. ASSUME NEW keys, IsSeq(keys), Released(keys), Done("ok", keys) PROVE CallInv'
  <2>1. IsSeq(call.keys \o keys) /\ Released(call.keys \o keys)
    BY <1>2, <1>4, ReleasedConcat
  <2>2. PICK oks : oks = Append(call.results, "ok")
    OBVIOUS
  <2>3. oks \in Seq({"ok"}) /\ \A i \in DOMAIN oks : oks[i] = "ok"
    BY <1>2, <2>2
  <2>4. CASE call' = NoCall /\ reply' = [results |-> oks, keys |-> call.keys \o keys, cut |-> <<>>]
    <3>1. StopOnFirstError'
      BY <2>3, <2>4 DEF StopOnFirstError
    <3>2. KeysReleased'
      BY <2>1, <2>4 DEF KeysReleased
    <3>3. call'.todo = <<>> /\ call'.keys = <<>> /\ call'.results = <<>>
      BY <2>4 DEF NoCall
    <3>4. KeysDownTold'
      BY <1>3, <2>4 DEF KeysDownTold
    <3>5. QED
      BY <1>3, <3>1, <3>2, <3>3, <3>4 DEF CallInv, ActTruthful
  <2>5. CASE /\ call' = [method |-> call.method, page |-> call.page, todo |-> Tail(call.todo),
                         results |-> oks, keys |-> call.keys \o keys]
             /\ reply' = reply
    <3>1. call'.todo = Tail(call.todo) /\ call'.results = oks /\ call'.keys = call.keys \o keys
      BY <2>5
    <3>2. PICK rest : rest = Tail(call.todo)
      OBVIOUS
    <3>3. /\ IsSeq(rest) /\ Len(rest) \in Nat /\ Len(call.todo) \in Nat /\ Len(rest) = Len(call.todo) - 1
          /\ \A i \in 1..Len(rest) : rest[i] = call.todo[i + 1]
      <4>1. PICK T : call.todo \in Seq(T)
        BY <1>2 DEF IsSeq
      <4>2. /\ rest \in Seq(T) /\ Len(call.todo) \in Nat /\ Len(rest) = Len(call.todo) - 1
            /\ \A i \in 1..Len(rest) : rest[i] = call.todo[i + 1]
        BY <1>2, <3>2, <4>1, TailElements, Zenon
      <4>3. QED
        BY <4>2, SeqIsSeq
    <3>4. \A i \in 1..Len(rest) : i + 1 \in 1..Len(call.todo)
      BY <3>3
    <3>5. \A i \in 1..Len(rest) : rest[i].type = "press" => IsSeq(rest[i].mods) /\ IsSeq(rest[i].keys)
      BY <3>3, <3>4 DEF CallInv
    <3>6. ActTruthful'
      BY <2>5 DEF CallInv, ActTruthful, StopOnFirstError, KeysReleased, KeysDownTold
    <3>7. QED
      BY <2>1, <2>3, <3>1, <3>2, <3>3, <3>5, <3>6 DEF CallInv
  <2>6. QED
    BY <1>1, <1>4, <2>2, <2>4, <2>5, DoneOk
<1>5. ASSUME NEW cut, Ends("error", <<>>, cut) PROVE CallInv'
  <2>1. PICK n \in Nat, m \in Nat : StopsAt(reply'.results, n, m)
    BY <1>1, <1>5, DoneError
  <2>2. call' = NoCall /\ reply'.keys = call.keys
    BY <1>1, <1>5, DoneError
  <2>3. StopOnFirstError'
    BY <2>1, StopsAtFirstError
  <2>4. KeysReleased'
    BY <1>2, <2>2 DEF KeysReleased
  <2>5. KeysDownTold'
    <3>1. n + 1 \in DOMAIN reply'.results /\ reply'.results[n + 1] = "error"
      BY <2>1 DEF StopsAt
    <3>2. QED
      BY <3>1 DEF KeysDownTold
  <2>6. call'.todo = <<>> /\ call'.keys = <<>> /\ call'.results = <<>>
    BY <2>2 DEF NoCall
  <2>7. QED
    BY <1>3, <2>3, <2>4, <2>5, <2>6 DEF CallInv, ActTruthful
<1>6. ASSUME NEW mods, NEW keys, IsSeq(mods), IsSeq(keys), Done("ok", KeyActions(mods, keys)) PROVE CallInv'
  BY <1>4, <1>6, KeyActionsReleased
<1>7. QED
  BY <1>1, <1>3, <1>4, <1>5, <1>6 DEF ActionDone

\* A method begins with nothing done.
LEMMA BeginKeepsCallInv ==
  ASSUME CallInv, NEW method, NEW t, NEW todo, Begin(method, t, todo), IsSeq(todo),
         \A i \in DOMAIN todo : todo[i].type = "press" => IsSeq(todo[i].mods) /\ IsSeq(todo[i].keys)
  PROVE  CallInv'
<1>1. /\ call'.todo = todo /\ call'.results = <<>> /\ call'.keys = <<>>
      /\ reply' = NoReply
  BY DEF Begin, NoCall
<1>2. IsSeq(<<>>) /\ Released(<<>>) /\ <<>> \in Seq({"ok"})
  BY DEF IsSeq, Released
<1>3. ActTruthful'
  BY <1>1, <1>2 DEF ActTruthful, StopOnFirstError, KeysReleased, KeysDownTold, NoReply
<1>4. DOMAIN todo = 1..Len(todo)
  BY IsSeqLen
<1>5. QED
  BY <1>1, <1>2, <1>3, <1>4 DEF CallInv

\* The Screenshot of an element, too.
LEMMA ScreenshotKeepsCallInv ==
  ASSUME CallInv, NEW id, NEW sel, Screenshot(id, sel)
  PROVE  CallInv'
<1>1. PICK todo : todo = << [type |-> "screenshot", sel |-> sel] >>
  OBVIOUS
<1>2. todo \in Seq({[type |-> "screenshot", sel |-> sel]}) /\ DOMAIN todo = 1..1
  BY <1>1
<1>3. IsSeq(todo)
  BY <1>2, SeqIsSeq
<1>4. \A i \in DOMAIN todo : todo[i].type # "press"
  BY <1>1, <1>2
<1>5. Begin("screenshot", getPage(id), todo)
  BY <1>1 DEF Screenshot
<1>6. QED
  BY <1>3, <1>4, <1>5, BeginKeepsCallInv

\* The steps outside Act leave its reply or drop it.
LEMMA OtherKeepsCallInv ==
  ASSUME CallInv, call' = call \/ call' = NoCall, reply' = reply \/ reply' = NoReply
  PROVE  CallInv'
<1>0. IsSeq(<<>>) /\ Released(<<>>) /\ <<>> \in Seq({"ok"}) /\ Len(<<>>) = 0
  BY DEF IsSeq, Released
<1>1. ActTruthful'
  <2>1. CASE reply' = reply
    BY <2>1 DEF CallInv, ActTruthful, StopOnFirstError, KeysReleased, KeysDownTold
  <2>2. CASE reply' = NoReply
    BY <1>0, <2>2 DEF ActTruthful, StopOnFirstError, KeysReleased, KeysDownTold, NoReply
  <2>3. QED
    BY <2>1, <2>2
<1>2. CASE call' = call
  BY <1>1, <1>2 DEF CallInv
<1>3. CASE call' = NoCall
  BY <1>0, <1>1, <1>3 DEF CallInv, NoCall
<1>4. QED
  BY <1>2, <1>3

\* A method that does no actions takes the mutex.
BeginStep ==
  \/ Stop
  \/ \E id \in Tabs \cup {NoTab}, t \in Tabs, ax \in Layouts : Navigate(id, t, ax)
  \/ \E t \in Tabs : ClosePage(t)
  \/ \E id \in Tabs \cup {NoTab} : Snapshot(id) \/ PageScreenshot(id)

\* Such a method returns.
ReturnStep ==
  \/ Stopped \/ Loaded \/ PageClosed \/ SnapshotTaken \/ NothingDone \/ LoadFails
  \/ CallFails /\ call.todo = <<>>

\* The mutex is left alone.
OtherStep ==
  \/ Start \/ ListPages
  \/ \E t \in Tabs : PageGoes(t)
  \/ \E t \in Tabs, s \in ElStates : ElementChanges(t, s)
  \/ \E t \in Tabs, moment \in Moments : PageTurns(t, moment)
  \/ \E t \in Tabs, ax \in Layouts : PageNavigates(t, ax)
  \/ ChromiumCrashes

LEMMA BeginStepCall == BeginStep => \E method, t : Begin(method, t, <<>>)
  BY DEF BeginStep, Stop, Navigate, ClosePage, Snapshot, PageScreenshot

LEMMA ReturnStepCall == ReturnStep => call' = NoCall /\ reply' = reply /\ \E m : Return(m)
  BY DEF ReturnStep, Stopped, Loaded, PageClosed, SnapshotTaken, NothingDone, LoadFails,
         CallFails, Return

LEMMA OtherStepCall == OtherStep => call' = call /\ (reply' = reply \/ reply' = NoReply)
  BY DEF OtherStep, Start, ListPages, PageGoes, ElementChanges, PageTurns, PageNavigates,
         ChromiumCrashes

LEMMA NextSteps ==
  ASSUME Next
  PROVE  \/ BeginStep \/ ReturnStep \/ OtherStep \/ ActionStep
         \/ \E id \in Tabs \cup {NoTab}, script \in Scripts : Act(id, script)
         \/ \E id \in Tabs \cup {NoTab}, sel \in Selectors : Screenshot(id, sel)
  BY DEF Next, CallStep, BeginStep, ReturnStep, OtherStep, ActionStep

\* Every step keeps CallInv.
LEMMA StepKeepsCallInv == TypeOK /\ CallInv /\ [Next]_vars => CallInv'
<1> SUFFICES ASSUME TypeOK, CallInv, [Next]_vars PROVE CallInv'
  OBVIOUS
<1>1. ASSUME NEW id \in Tabs \cup {NoTab}, NEW script \in Scripts, Act(id, script) PROVE CallInv'
  <2>1. Begin("act", getPage(id), script)
    BY <1>1 DEF Act
  <2>2. IsSeq(script) /\ \A i \in DOMAIN script :
          script[i].type = "press" => IsSeq(script[i].mods) /\ IsSeq(script[i].keys)
    BY ScriptsAssumption
  <2>3. QED
    BY <2>1, <2>2, BeginKeepsCallInv
<1>2. ASSUME NEW id \in Tabs \cup {NoTab}, NEW sel \in Selectors, Screenshot(id, sel) PROVE CallInv'
  BY <1>2, ScreenshotKeepsCallInv
<1>3. CASE ActionStep
  BY <1>3, ActionKeepsCallInv
<1>4. CASE BeginStep
  <2>1. PICK method, t : Begin(method, t, <<>>)
    BY <1>4, BeginStepCall
  <2>2. IsSeq(<<>>) /\ DOMAIN <<>> = {}
    BY DEF IsSeq
  <2>3. QED
    BY <2>1, <2>2, BeginKeepsCallInv
<1>5. CASE ReturnStep \/ OtherStep \/ UNCHANGED vars
  BY <1>5, ReturnStepCall, OtherStepCall, OtherKeepsCallInv DEF vars
<1>6. QED
  BY <1>1, <1>2, <1>3, <1>4, <1>5, NextSteps

-----------------------------------------------------------------------------
(* Pages and references *)

PageInv == BrowserInv /\ RefsOfLastSnapshot

\* A document is replaced: the references of the other documents are as before.
LEMMA ReplaceKeeps ==
  ASSUME PageInv, NEW t \in Tabs, NEW d \in Docs \cup {NoDoc}, Replace(t, d)
  PROVE  /\ dom' \in [Tabs -> Docs \cup {NoDoc}] /\ refDoc' \in Tabs \cup {NoTab}
         /\ refMap # {} /\ refDoc' # NoTab => refMap \subseteq NodeRefs(dom'[refDoc'].ax)
<1>1. TypeOK
  BY DEF PageInv, BrowserInv
<1>2. dom' = [dom EXCEPT ![t] = d] /\ refDoc' = IF refDoc = t THEN NoTab ELSE refDoc
  BY DEF Replace
<1>3. refDoc' # NoTab => refDoc' = refDoc /\ refDoc \in Tabs /\ dom'[refDoc] = dom[refDoc]
  BY <1>1, <1>2 DEF TypeOK
<1>4. QED
  BY <1>1, <1>2, <1>3 DEF TypeOK, PageInv, RefsOfLastSnapshot

\* PageInv is kept by Start: nothing was left by an earlier browser.
LEMMA StartKeeps == ASSUME PageInv, Start PROVE PageInv'
<1>1. ~browser /\ UNCHANGED <<pages, lastPageID, refMap, call, dom, refDoc, given>> /\ Unlocked
  BY DEF Start
<1>2. browser = FALSE /\ chromium = FALSE
  BY <1>1 DEF PageInv, BrowserInv, TypeOK, NoStrayChromium
<1>3. \/ browser' = TRUE /\ chromium' = TRUE
      \/ browser' = FALSE /\ chromium' = FALSE
  BY <1>2, Zenon DEF Start, LaunchedAfterFailure
<1>4. QED
  BY <1>1, <1>3 DEF PageInv, BrowserInv, TypeOK, CallOK, LastPageUsable, NoStrayChromium, Live,
                    RefsOfLastSnapshot, Unlocked

\* PageInv is kept when Stop is done: the pages go with the browser.
LEMMA StoppedKeeps == ASSUME PageInv, Stopped PROVE PageInv'
<1>1. dom' \in [Tabs -> Docs \cup {NoDoc}] /\ \A t \in Tabs : dom'[t] = NoDoc
  BY DEF Stopped
<1>2. QED
  BY <1>1 DEF Stopped, Return, PageInv, BrowserInv, TypeOK, CallOK, LastPageUsable, NoStrayChromium,
              Live, RefsOfLastSnapshot, Unlocked

\* A method has begun: its page is tracked, where it needs one.
LEMMA BeginKeeps ==
  ASSUME PageInv, NEW method, NEW t, NEW todo, Begin(method, t, todo),
         method \in {"navigate", "stop", "close", "snapshot", "screenshot", "act"},
         method = "navigate" => t \in Tabs,
         method \in {"close", "snapshot", "screenshot", "act"} => t \in pages,
         IF method = "act" THEN todo # <<>> ELSE todo = <<>> \/ method = "screenshot",
         chromium' = chromium, given' = given, dom' \in [Tabs -> Docs \cup {NoDoc}],
         refDoc' \in Tabs \cup {NoTab},
         refMap # {} /\ refDoc' # NoTab => refMap \subseteq NodeRefs(dom'[refDoc'].ax)
  PROVE  PageInv'
<1>1. /\ call'.method = method /\ call'.page = t /\ call'.todo = todo
      /\ browser /\ UNCHANGED bmVars
  BY DEF Begin, NoCall
<1>2. CallOK'
  BY <1>1 DEF CallOK, bmVars
<1>3. QED
  BY <1>1, <1>2 DEF bmVars, PageInv, BrowserInv, TypeOK, LastPageUsable, NoStrayChromium,
                    RefsOfLastSnapshot

\* The page of getPage is tracked.
LEMMA GetPageTracked == \A id : getPage(id) # NoTab => getPage(id) \in pages
  BY DEF getPage

\* PageInv is kept when a method takes the mutex.
LEMMA BeginStepKeeps == ASSUME PageInv, BeginStep PROVE PageInv'
<1>0. /\ dom \in [Tabs -> Docs \cup {NoDoc}] /\ refDoc \in Tabs \cup {NoTab}
      /\ refMap # {} /\ refDoc # NoTab => refMap \subseteq NodeRefs(dom[refDoc].ax)
  BY DEF PageInv, BrowserInv, TypeOK, RefsOfLastSnapshot
<1>1. CASE Stop
  BY <1>0, <1>1, BeginKeeps DEF Stop
<1>2. ASSUME NEW id \in Tabs \cup {NoTab}, NEW t \in Tabs, NEW ax \in Layouts, Navigate(id, t, ax)
      PROVE  PageInv'
  <2>1. Loading(ax) \in Docs
    BY DEF Docs, ElStates, Moments, Loading
  <2>2. /\ dom' \in [Tabs -> Docs \cup {NoDoc}] /\ refDoc' \in Tabs \cup {NoTab}
        /\ refMap # {} /\ refDoc' # NoTab => refMap \subseteq NodeRefs(dom'[refDoc'].ax)
    BY <1>2, <2>1, ReplaceKeeps DEF Navigate
  <2>3. QED
    BY <1>2, <2>2, BeginKeeps DEF Navigate
<1>3. ASSUME NEW t \in Tabs, ClosePage(t) PROVE PageInv'
  BY <1>0, <1>3, BeginKeeps DEF ClosePage
<1>4. ASSUME NEW id \in Tabs \cup {NoTab}, Snapshot(id) PROVE PageInv'
  BY <1>0, <1>4, GetPageTracked, BeginKeeps DEF Snapshot
<1>5. ASSUME NEW id \in Tabs \cup {NoTab}, PageScreenshot(id) PROVE PageInv'
  BY <1>0, <1>5, GetPageTracked, BeginKeeps DEF PageScreenshot
<1>6. QED
  BY <1>1, <1>2, <1>3, <1>4, <1>5 DEF BeginStep

\* PageInv is kept when an Act or the Screenshot of an element begins.
LEMMA ActKeeps ==
  ASSUME PageInv, NEW id, \/ \E script : Act(id, script)
                          \/ \E sel : Screenshot(id, sel)
  PROVE  PageInv'
<1>0. /\ dom \in [Tabs -> Docs \cup {NoDoc}] /\ refDoc \in Tabs \cup {NoTab}
      /\ refMap # {} /\ refDoc # NoTab => refMap \subseteq NodeRefs(dom[refDoc].ax)
  BY DEF PageInv, BrowserInv, TypeOK, RefsOfLastSnapshot
<1>1. ASSUME NEW script, Act(id, script) PROVE PageInv'
  BY <1>0, <1>1, GetPageTracked, BeginKeeps DEF Act
<1>2. ASSUME NEW sel, Screenshot(id, sel) PROVE PageInv'
  BY <1>0, <1>2, GetPageTracked, BeginKeeps DEF Screenshot
<1>3. QED
  BY <1>1, <1>2

\* PageInv is kept when a page has loaded, on a new page or on one that is open.
LEMMA LoadedKeeps == ASSUME PageInv, Loaded PROVE PageInv'
<1>1. /\ call.method = "navigate" /\ call' = NoCall
      /\ pages' = pages \cup {call.page} /\ lastPageID' = call.page /\ refMap' = {}
      /\ refDoc' = NoTab /\ given' = {} /\ UNCHANGED <<browser, chromium, dom>>
  BY DEF Loaded, Return, Tracked
<1>2. browser /\ call.page \in Tabs
  BY <1>1 DEF PageInv, BrowserInv, TypeOK, CallOK, Unlocked, NoCall
<1>3. QED
  BY <1>1, <1>2 DEF PageInv, BrowserInv, TypeOK, CallOK, LastPageUsable, NoStrayChromium,
                    RefsOfLastSnapshot, Unlocked

\* PageInv is kept when a page is closed: another page is the last one used.
LEMMA PageClosedKeeps == ASSUME PageInv, PageClosed PROVE PageInv'
<1>0. call.method = "close" /\ call' = NoCall
  BY DEF PageClosed, Return
<1>1. browser /\ call.page \in pages /\ call.page \in Tabs
  BY <1>0 DEF PageInv, BrowserInv, TypeOK, CallOK, Unlocked, NoCall
<1>2. /\ dom' \in [Tabs -> Docs \cup {NoDoc}] /\ refDoc' \in Tabs \cup {NoTab}
      /\ refMap # {} /\ refDoc' # NoTab => refMap \subseteq NodeRefs(dom'[refDoc'].ax)
  BY <1>1, ReplaceKeeps DEF PageClosed
<1>3. pages' = pages \ {call.page} /\ UNCHANGED <<browser, refMap, chromium, given>>
  BY DEF PageClosed
<1>4. LastPageUsable' /\ lastPageID' \in Tabs \cup {NoTab}
  <2>1. lastPageID \in pages /\ pages \subseteq Tabs
    BY <1>1 DEF PageInv, BrowserInv, LastPageUsable, TypeOK
  <2>2. QED
    BY <1>1, <1>3, <2>1 DEF PageClosed, LastPageAfter, LastPageUsable
<1>5. QED
  BY <1>0, <1>1, <1>2, <1>3, <1>4
     DEF PageInv, BrowserInv, TypeOK, CallOK, NoStrayChromium, RefsOfLastSnapshot, Unlocked

\* PageInv is kept by a snapshot, which replaces the refs of its page.
LEMMA SnapshotKeeps == ASSUME PageInv, SnapshotTaken PROVE PageInv'
<1>1. PICK t : t = call.page
  OBVIOUS
<1>2. /\ call.method = "snapshot" /\ call' = NoCall /\ Live(t)
      /\ refMap' = NodeRefs(dom[t].ax) /\ given' = {TreeRefs(dom[t].ax)} /\ refDoc' = t
      /\ UNCHANGED <<browser, pages, lastPageID, chromium, dom>>
  BY <1>1 DEF SnapshotTaken, Return
<1>3. browser /\ t \in Tabs
  BY <1>1, <1>2 DEF PageInv, BrowserInv, TypeOK, CallOK, Unlocked, NoCall
<1>4. dom[t].ax \in Layouts
  BY <1>2, <1>3 DEF PageInv, BrowserInv, TypeOK, Live, Docs
<1>5. refMap' \subseteq AllRefs /\ TreeRefs(dom[t].ax) \subseteq refMap'
  BY <1>2, <1>4, TreeRefsKept DEF AllRefs
<1>6. QED
  BY <1>2, <1>3, <1>5 DEF PageInv, BrowserInv, TypeOK, CallOK, LastPageUsable, NoStrayChromium, Live,
                          RefsOfLastSnapshot, Unlocked

\* PageInv is kept by what pages do on their own.
LEMMA PagesOnTheirOwnKeep ==
  ASSUME PageInv, NEW t \in Tabs,
         \/ PageGoes(t)
         \/ \E s \in ElStates : ElementChanges(t, s)
         \/ \E moment \in Moments : PageTurns(t, moment)
         \/ \E ax \in Layouts : PageNavigates(t, ax)
  PROVE  PageInv'
<1>0. browser /\ UNCHANGED <<bmVars, call, chromium, given>> /\ Live(t)
  BY DEF PageGoes, ElementChanges, PageTurns, PageNavigates, PageInv, BrowserInv, NoStrayChromium
<1>1. /\ dom' \in [Tabs -> Docs \cup {NoDoc}] /\ refDoc' \in Tabs \cup {NoTab}
      /\ refMap # {} /\ refDoc' # NoTab => refMap \subseteq NodeRefs(dom'[refDoc'].ax)
  <2>1. CASE PageGoes(t)
    BY <2>1, ReplaceKeeps DEF PageGoes
  <2>2. ASSUME NEW ax \in Layouts, PageNavigates(t, ax)
        PROVE  <1>1!:
    <3>1. Loading(ax) \in Docs
      BY DEF Docs, ElStates, Moments, Loading
    <3>2. QED
      BY <2>2, <3>1, ReplaceKeeps DEF PageNavigates
  <2>3. ASSUME \/ \E s \in ElStates : ElementChanges(t, s)
               \/ \E moment \in Moments : PageTurns(t, moment)
        PROVE  <1>1!:
    <3>1. dom[t] \in Docs /\ dom \in [Tabs -> Docs \cup {NoDoc}] /\ refDoc \in Tabs \cup {NoTab}
      BY <1>0 DEF Live, PageInv, BrowserInv, TypeOK
    <3>2. \E d \in Docs : dom' = [dom EXCEPT ![t] = d] /\ d.ax = dom[t].ax /\ refDoc' = refDoc
      <4>1. CASE \E s \in ElStates : ElementChanges(t, s)
        <5>1. PICK s \in ElStates : ElementChanges(t, s)
          BY <4>1
        <5>2. dom' = [dom EXCEPT ![t] = [dom[t] EXCEPT !.el = s]] /\ refDoc' = refDoc
          BY <5>1 DEF ElementChanges
        <5>3. [dom[t] EXCEPT !.el = s] \in Docs /\ [dom[t] EXCEPT !.el = s].ax = dom[t].ax
          BY <3>1 DEF Docs
        <5>4. QED
          BY <5>2, <5>3
      <4>2. CASE \E moment \in Moments : PageTurns(t, moment)
        <5>1. PICK moment \in Moments : PageTurns(t, moment)
          BY <4>2
        <5>2. dom' = [dom EXCEPT ![t] = [dom[t] EXCEPT !.now = moment]] /\ refDoc' = refDoc
          BY <5>1 DEF PageTurns
        <5>3. [dom[t] EXCEPT !.now = moment] \in Docs /\ [dom[t] EXCEPT !.now = moment].ax = dom[t].ax
          BY <3>1 DEF Docs
        <5>4. QED
          BY <5>2, <5>3
      <4>3. QED
        BY <2>3, <4>1, <4>2
    <3>3. PICK d \in Docs : dom' = [dom EXCEPT ![t] = d] /\ d.ax = dom[t].ax /\ refDoc' = refDoc
      BY <3>2
    <3>4. \A u \in Tabs : dom'[u].ax = dom[u].ax
      BY <3>1, <3>3
    <3>5. QED
      BY <3>1, <3>3, <3>4 DEF PageInv, RefsOfLastSnapshot
  <2>4. QED
    BY <2>1, <2>2, <2>3
<1>2. QED
  BY <1>0, <1>1 DEF bmVars, PageInv, BrowserInv, TypeOK, CallOK, LastPageUsable, NoStrayChromium,
                    RefsOfLastSnapshot, Unlocked

\* PageInv is kept when Chromium crashes.
LEMMA CrashKeeps == ASSUME PageInv, ChromiumCrashes PROVE PageInv'
<1>1. dom' \in [Tabs -> Docs \cup {NoDoc}] /\ \A t \in Tabs : dom'[t] = NoDoc
  BY DEF ChromiumCrashes
<1>2. QED
  BY <1>1 DEF ChromiumCrashes, bmVars, PageInv, BrowserInv, TypeOK, CallOK, LastPageUsable,
              NoStrayChromium, Live, RefsOfLastSnapshot, Unlocked

\* Steps that leave the manager and the browser as they are, but for the call.
LEMMA QuietKeeps ==
  ASSUME PageInv, UNCHANGED <<bmVars, chromium, dom, refDoc, given>>, CallOK'
  PROVE  PageInv'
  BY DEF bmVars, PageInv, BrowserInv, TypeOK, LastPageUsable, NoStrayChromium, Live,
         RefsOfLastSnapshot

\* PageInv is kept by the steps of the Act under way.
LEMMA ActionKeeps == ASSUME PageInv, CallInv, ActionStep PROVE PageInv'
<1>1. TypeOK
  BY DEF PageInv, BrowserInv
<1>2. ~Unlocked /\ call.todo # <<>> /\ ActionDone
  BY <1>1, ActionStepDone
<1>3. UNCHANGED <<bmVars, chromium, dom, refDoc, given>>
  BY <1>2 DEF ActionDone, Done, Ends
<1>4. call' = NoCall \/ (call'.method = call.method /\ call'.page = call.page /\ call'.todo # <<>>)
  <2>1. ASSUME NEW r, NEW keys, NEW cut, Ends(r, keys, cut)
        PROVE  <1>4!:
    <3> DEFINE rest == IF Len(ResultsWith(r)) = Len(call.results) + Len(call.todo)
                       THEN <<>> ELSE Tail(call.todo)
    <3>1. IF rest = <<>>
          THEN call' = NoCall
          ELSE call' = [method |-> call.method, page |-> call.page, todo |-> rest,
                        results |-> ResultsWith(r), keys |-> call.keys \o keys]
      BY <2>1, Zenon DEF Ends
    <3> HIDE DEF rest
    <3>2. QED
      BY <3>1
  <2>2. QED
    BY <1>2, <2>1 DEF ActionDone, Done
<1>5. CallOK'
  BY <1>1, <1>2, <1>3, <1>4 DEF TypeOK, CallOK, Unlocked, bmVars
<1>6. QED
  BY <1>3, <1>5, QuietKeeps

\* PageInv is kept when a method returns.
LEMMA ReturnStepKeeps == ASSUME PageInv, ReturnStep PROVE PageInv'
<1>1. call' = NoCall
  BY ReturnStepCall
<1>2. ASSUME NothingDone \/ LoadFails \/ (CallFails /\ call.todo = <<>>) PROVE PageInv'
  <2>1. UNCHANGED <<bmVars, chromium, dom, refDoc, given>>
    BY <1>2 DEF NothingDone, LoadFails, CallFails
  <2>2. QED
    BY <1>1, <2>1, QuietKeeps DEF CallOK, Unlocked
<1>3. QED
  BY <1>2, StoppedKeeps, LoadedKeeps, PageClosedKeeps, SnapshotKeeps DEF ReturnStep

\* PageInv is kept by the steps that leave the mutex alone.
LEMMA OtherStepKeeps == ASSUME PageInv, OtherStep PROVE PageInv'
<1>1. CASE Start
  BY <1>1, StartKeeps
<1>2. CASE ListPages
  <2>1. UNCHANGED <<bmVars, call, chromium, dom, refDoc, given>>
    BY <1>2 DEF ListPages
  <2>2. CallOK'
    BY <2>1 DEF PageInv, BrowserInv, TypeOK, CallOK, Unlocked, bmVars
  <2>3. QED
    BY <2>1, <2>2, QuietKeeps
<1>3. ASSUME NEW t \in Tabs,
             \/ PageGoes(t)
             \/ \E s \in ElStates : ElementChanges(t, s)
             \/ \E moment \in Moments : PageTurns(t, moment)
             \/ \E ax \in Layouts : PageNavigates(t, ax)
      PROVE  PageInv'
  BY <1>3, PagesOnTheirOwnKeep
<1>4. CASE ChromiumCrashes
  BY <1>4, CrashKeeps
<1>5. QED
  BY <1>1, <1>2, <1>3, <1>4 DEF OtherStep

\* Every step keeps PageInv.
LEMMA StepKeepsPageInv == PageInv /\ CallInv /\ [Next]_vars => PageInv'
<1> SUFFICES ASSUME PageInv, CallInv, [Next]_vars PROVE PageInv'
  OBVIOUS
<1>1. CASE BeginStep
  BY <1>1, BeginStepKeeps
<1>2. CASE ReturnStep
  BY <1>2, ReturnStepKeeps
<1>3. CASE OtherStep
  BY <1>3, OtherStepKeeps
<1>4. CASE ActionStep
  BY <1>4, ActionKeeps
<1>5. ASSUME NEW id, \/ \E script : Act(id, script)
                     \/ \E sel : Screenshot(id, sel)
      PROVE  PageInv'
  BY <1>5, ActKeeps
<1>6. CASE UNCHANGED vars
  <2>1. UNCHANGED <<bmVars, call, chromium, dom, refDoc, given>>
    BY <1>6 DEF vars
  <2>2. CallOK'
    BY <2>1 DEF PageInv, BrowserInv, TypeOK, CallOK, Unlocked, bmVars
  <2>3. QED
    BY <2>1, <2>2, QuietKeeps
<1>7. QED
  BY <1>1, <1>2, <1>3, <1>4, <1>5, <1>6, NextSteps

-----------------------------------------------------------------------------
(* Theorems *)

\* Both invariants hold when the manager is made.
LEMMA InitBrowserManager == Init => PageInv /\ CallInv
<1> SUFFICES ASSUME Init PROVE PageInv /\ CallInv
  OBVIOUS
<1>1. IsSeq(<<>>) /\ Released(<<>>) /\ <<>> \in Seq({"ok"}) /\ Len(<<>>) = 0
  BY DEF IsSeq, Released
<1>2. ActTruthful
  BY <1>1 DEF Init, ActTruthful, StopOnFirstError, KeysReleased, KeysDownTold, NoReply
<1>3. CallInv
  BY <1>1, <1>2 DEF Init, CallInv, NoCall
<1>4. PageInv
  BY DEF Init, PageInv, BrowserInv, TypeOK, CallOK, LastPageUsable, NoStrayChromium, Live,
         RefsOfLastSnapshot, Unlocked
<1>5. QED
  BY <1>3, <1>4

\* The manager's pages, references and the call that holds the mutex are always
\* sound together.
THEOREM BrowserInvariant == Spec => [](PageInv /\ CallInv)
<1>1. PageInv => TypeOK
  BY DEF PageInv, BrowserInv
<1>2. QED
  BY <1>1, InitBrowserManager, StepKeepsPageInv, StepKeepsCallInv, PTL DEF Spec

\* The default page is usable and nothing is left behind by a stopped manager.
THEOREM BrowserStaysSound == Spec => []BrowserInv
<1>1. PageInv => BrowserInv
  BY DEF PageInv
<1>2. QED
  BY <1>1, BrowserInvariant, PTL

\* refMap holds the references of the last snapshot, or none.
THEOREM RefsStayOfLastSnapshot == Spec => []RefsOfLastSnapshot
<1>1. PageInv => RefsOfLastSnapshot
  BY DEF PageInv
<1>2. QED
  BY <1>1, BrowserInvariant, PTL

\* Act stops at the first error, says so, and leaves no key down.
THEOREM ActsTruthful == Spec => []ActTruthful
<1>1. CallInv => ActTruthful
  BY DEF CallInv
<1>2. QED
  BY <1>1, BrowserInvariant, PTL


\* An Act that ended with an error does not end with a success.
LEMMA LastAfterError ==
  ASSUME NEW r, NEW n \in Nat, NEW m \in Nat, StopsAt(r, n, m)
  PROVE  r[Len(r)] # "ok"
<1>1. CASE m = 0
  BY <1>1 DEF StopsAt
<1>2. CASE m # 0
  <2>1. m \in 1..m
    BY <1>2
  <2>2. QED
    BY <2>1 DEF StopsAt
<1>3. QED
  BY <1>1, <1>2

\* While no protocol call fails, the only steps of a wait for a selector are
\* that it succeeds and that it ends with an error.
LEMMA WaitingSteps ==
  ASSUME ~Failing(call.page), Waiting, ActionStep
  PROVE  WaitReached \/ WaitEnds
<1>1. /\ Head(call.todo).type = "wait_for_selector" /\ ~Malformed(Head(call.todo))
      /\ call.todo # <<>>
  BY DEF Waiting, Current
<1>2. ~UnknownOrNoSelector /\ ~CallFails
  BY <1>1 DEF UnknownOrNoSelector, CallFails
<1>3. ~PointerAndText /\ ~FormAndHover /\ ~Focus /\ ~ScrollTo
  BY <1>1 DEF PointerAndText, FormAndHover, Focus, ScrollTo, OnElement
<1>4. ~ScrollBy /\ ~Press /\ ~Evaluate /\ ~ElementScreenshot /\ ~CheckedAsWanted
  BY <1>1 DEF ScrollBy, Press, Evaluate, ElementScreenshot, CheckedAsWanted, Current
<1>5. QED
  BY <1>2, <1>3, <1>4 DEF ActionStep, ActStep

\* A wait that succeeds on a live page saw the element as it was waited for, unless
\* the protocol call of its lookup failed at that moment (actionWaitForSelector).
THEOREM WaitsTruthful == Spec => WaitTruthful
<1> DEFINE Seen == CASE Head(call.todo).state = "detached" -> dom[call.page].el = "absent"
                     [] Head(call.todo).state = "hidden" -> dom[call.page].el # "visible"
                     [] Head(call.todo).state \in {"attached", "visible"} -> dom[call.page].el # "absent"
                     [] OTHER -> TRUE
<1>1. ASSUME PageInv, CallInv, [Next]_vars
      PROVE  [WaitTold /\ ~Failing(call.page) => Seen]_vars
  <2> SUFFICES ASSUME Next, WaitTold, ~Failing(call.page) PROVE Seen
    BY <1>1
  <2>1. Waiting /\ Head(call.todo).sel.by # "ref" /\ Live(call.page) /\ TypeOK /\ call.todo # <<>>
    BY <1>1 DEF WaitTold, Waiting, Current, PageInv, BrowserInv
  <2>2. ~Unlocked
    BY <2>1 DEF Unlocked, NoCall
  <2>3. ~OtherStep
    <3>1. ASSUME OtherStep PROVE FALSE
      <4>1. call' = call /\ call # NoCall
        BY <2>2, <3>1, OtherStepCall DEF Unlocked
      <4>2. Len(call.results) > Len(call.results)
        BY <4>1 DEF WaitTold
      <4>3. PICK l \in Nat : l = Len(call.results)
        BY <1>1 DEF CallInv
      <4>4. l > l
        BY <4>2, <4>3, Zenon
      <4>5. QED
        BY <4>4
    <3>2. QED
      BY <3>1
  <2>4. ~ReturnStep
    <3>1. call.method = "act" \/ call.method = "screenshot"
      BY <2>1, <2>2 DEF TypeOK, CallOK
    <3>2. QED
      BY <2>1, <3>1 DEF ReturnStep, Stopped, Loaded, PageClosed, SnapshotTaken, NothingDone,
                        LoadFails, Return
  <2>5. ActionStep
    <3>1. \A method, t, todo : ~Begin(method, t, todo)
      BY <2>2 DEF Begin
    <3>2. ~BeginStep
      BY <3>1, BeginStepCall
    <3>3. \A id : (\A script : ~Act(id, script)) /\ (\A sel : ~Screenshot(id, sel))
      BY <3>1 DEF Act, Screenshot
    <3>4. QED
      BY <2>3, <2>4, <3>2, <3>3, NextSteps
  <2>6. WaitReached
    <3>1. ASSUME WaitEnds PROVE FALSE
      <4>1. Ends("error", <<>>, <<>>)
        BY <3>1 DEF WaitEnds, Done
      <4>2. PICK n \in Nat, m \in Nat : StopsAt(reply'.results, n, m)
        BY <1>1, <2>1, <4>1, DoneError
      <4>3. call' = NoCall
        BY <1>1, <2>1, <4>1, DoneError
      <4>4. reply'.results[Len(reply'.results)] = "ok"
        BY <4>3 DEF WaitTold
      <4>5. QED
        BY <4>2, <4>4, LastAfterError
    <3>2. QED
      BY <2>1, <2>5, <3>1, WaitingSteps
  <2>7. Reached(call.page, Head(call.todo))
    BY <2>6 DEF WaitReached
  <2>8. /\ Found(call.page, Head(call.todo).sel) <=> dom[call.page].el # "absent"
    BY <2>1 DEF Found, findByRole
  <2>9. QED
    BY <2>1, <2>7, <2>8 DEF Reached, Hidden, Detached
<1>2. QED
  BY <1>1, BrowserInvariant, PTL DEF Spec, WaitTruthful

=============================================================================
