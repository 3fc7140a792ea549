--------------------------- MODULE WorkspaceProofs ---------------------------
(***************************************************************************)
(* Proofs about Workspace: the properties of pushes, commits and diffs     *)
(* from the types of the state, and those of the file system, TreeOK,      *)
(* OutsideUntouched, CallsAgree and GrepAgrees, from WorkspaceInv.  The    *)
(* latter rest on what name resolution does: Resolve is a recursive        *)
(* function on Walks, which decreases the links left and then the names    *)
(* left, so facts about walks are proved from a minimal counterexample.    *)
(* What is found in a text is proved by induction over its bytes, the      *)
(* lines that ripgrep prints and the messages that its parser reads.       *)
(***************************************************************************)
EXTENDS GitProofs

-----------------------------------------
(* Paths as sequences *)

\* Sequences with the same elements are equal.
LEMMA SameSeq ==
  ASSUME NEW S, NEW s \in Seq(S), NEW t \in Seq(S), Len(s) = Len(t), \A i \in 1..Len(s) : s[i] = t[i]
  PROVE  s = t
  OBVIOUS

\* The elements of a concatenation.
LEMMA Joined ==
  ASSUME NEW S, NEW p \in Seq(S), NEW q \in Seq(S)
  PROVE  /\ p \o q \in Seq(S) /\ Len(p \o q) = Len(p) + Len(q)
         /\ \A i \in 1..Len(p) : (p \o q)[i] = p[i]
         /\ \A i \in 1..Len(q) : (p \o q)[Len(p) + i] = q[i]
         /\ \A i \in (Len(p) + 1)..(Len(p) + Len(q)) : (p \o q)[i] = q[i - Len(p)]
  OBVIOUS

\* The elements of a part of a sequence.
LEMMA Cut ==
  ASSUME NEW S, NEW p \in Seq(S), NEW a \in 1..(Len(p) + 1), NEW b \in (a - 1)..Len(p)
  PROVE  /\ SubSeq(p, a, b) \in Seq(S) /\ Len(SubSeq(p, a, b)) = b - a + 1
         /\ \A i \in 1..(b - a + 1) : SubSeq(p, a, b)[i] = p[a + i - 1]
  OBVIOUS

\* A prefix, element by element.
LEMMA PrefixIs ==
  ASSUME NEW S, NEW p \in Seq(S), NEW q \in Seq(S)
  PROVE  IsPrefix(p, q) <=> Len(p) <= Len(q) /\ \A i \in 1..Len(p) : p[i] = q[i]
  BY SameSeq, Cut DEF IsPrefix

\* What has a prefix is the prefix and a rest.
LEMMA PrefixRest ==
  ASSUME NEW S, NEW p \in Seq(S), NEW q \in Seq(S)
  PROVE  IsPrefix(p, q) <=> \E r \in Seq(S) : q = p \o r
<1>1. ASSUME NEW r \in Seq(S), q = p \o r PROVE IsPrefix(p, q)
  <2>1. Len(q) = Len(p) + Len(r) /\ \A i \in 1..Len(p) : q[i] = p[i]
    BY <1>1, Joined
  <2>2. Len(p) \in Nat /\ Len(r) \in Nat
    OBVIOUS
  <2>3. Len(p) <= Len(q) /\ \A i \in 1..Len(p) : p[i] = q[i]
    BY <2>1, <2>2
  <2>4. QED
    BY <2>3, PrefixIs, SMTT(30)
<1>2. ASSUME IsPrefix(p, q) PROVE \E r \in Seq(S) : q = p \o r
  <2>1. Len(p) <= Len(q) /\ \A i \in 1..Len(p) : p[i] = q[i]
    BY <1>2, PrefixIs
  <2>2. PICK r \in Seq(S) : /\ Len(r) = Len(q) - Len(p)
                            /\ \A i \in 1..Len(r) : r[i] = q[Len(p) + i]
    <3>1. PICK r : r = SubSeq(q, Len(p) + 1, Len(q))
      OBVIOUS
    <3>2. Len(p) + 1 \in 1..(Len(q) + 1) /\ Len(q) \in (Len(p) + 1 - 1)..Len(q)
      BY <2>1
    <3>3. r \in Seq(S) /\ Len(r) = Len(q) - Len(p) /\ \A i \in 1..(Len(q) - Len(p)) : r[i] = q[Len(p) + i]
      BY <3>1, <3>2, Cut
    <3>4. QED
      BY <3>3
  <2>3. p \o r \in Seq(S) /\ Len(p \o r) = Len(q)
    BY <2>2, Joined
  <2>4. ASSUME NEW i \in 1..Len(q) PROVE (p \o r)[i] = q[i]
    <3>1. CASE i <= Len(p)
      BY <2>1, <2>2, <3>1, Joined
    <3>2. CASE i > Len(p)
      <4>1. PICK k \in 1..Len(r) : i = Len(p) + k
        <5>1. Len(p) \in Nat /\ Len(q) \in Nat /\ Len(r) = Len(q) - Len(p)
          BY <2>2
        <5>2. i - Len(p) \in 1..Len(r) /\ i = Len(p) + (i - Len(p))
          BY <3>2, <5>1
        <5>3. QED
          BY <5>2
      <4>2. (p \o r)[Len(p) + k] = r[k]
        BY <2>2, <4>1, Joined
      <4>3. r[k] = q[Len(p) + k]
        BY <2>2, <4>1
      <4>4. QED
        BY <4>1, <4>2, <4>3
    <3>3. i <= Len(p) \/ i > Len(p)
      <4>1. i \in Int /\ Len(p) \in Int
        OBVIOUS
      <4>2. QED
        BY <4>1
    <3>4. QED
      BY <3>1, <3>2, <3>3
  <2>5. QED
    BY <2>3, <2>4, SameSeq
<1>3. QED
  BY <1>1, <1>2

\* A prefix of a prefix is a prefix.
LEMMA PrefixTrans ==
  ASSUME NEW S, NEW p \in Seq(S), NEW q \in Seq(S), NEW r \in Seq(S), IsPrefix(p, q), IsPrefix(q, r)
  PROVE  IsPrefix(p, r)
<1>1. Len(p) \in Nat /\ Len(q) \in Nat /\ Len(r) \in Nat
  OBVIOUS
<1>2. QED
  BY <1>1, PrefixIs

\* Of two prefixes of one path, one is a prefix of the other.
LEMMA PrefixBoth ==
  ASSUME NEW S, NEW p \in Seq(S), NEW q \in Seq(S), NEW r \in Seq(S), IsPrefix(p, r), IsPrefix(q, r)
  PROVE  /\ IsPrefix(p, q) \/ IsPrefix(q, p)
         /\ Len(p) <= Len(q) => IsPrefix(p, q)
<1>1. Len(p) \in Nat /\ Len(q) \in Nat /\ Len(r) \in Nat
  OBVIOUS
<1>2. QED
  BY <1>1, PrefixIs

\* A path is a prefix of itself, and the empty path of every one.
LEMMA PrefixSelf ==
  ASSUME NEW S, NEW p \in Seq(S)
  PROVE  IsPrefix(p, p) /\ IsPrefix(<<>>, p) /\ <<>> \in Seq(S) /\ Len(<<>>) = 0 /\ p \o <<>> = p /\ <<>> \o p = p
<1>1. Len(p) \in Nat /\ <<>> \in Seq(S) /\ Len(<<>>) = 0
  OBVIOUS
<1>2. IsPrefix(p, p)
  BY <1>1, PrefixIs
<1>3. IsPrefix(<<>>, p)
  BY <1>1 DEF IsPrefix
<1>4. p \o <<>> = p /\ <<>> \o p = p
  BY ConcatEmptySeq
<1>5. QED
  BY <1>1, <1>2, <1>3, <1>4

\* A path is a prefix of its extensions.
LEMMA PrefixJoin ==
  ASSUME NEW S, NEW p \in Seq(S), NEW q \in Seq(S)
  PROVE  IsPrefix(p, p \o q) /\ p \o q \in Seq(S) /\ Len(p \o q) = Len(p) + Len(q)
<1>1. p \o q \in Seq(S) /\ Len(p \o q) = Len(p) + Len(q)
  BY Joined
<1>2. IsPrefix(p, p \o q)
  BY <1>1, PrefixRest
<1>3. QED
  BY <1>1, <1>2

\* A prefix that is not shorter is the path itself.
LEMMA PrefixSame ==
  ASSUME NEW S, NEW p \in Seq(S), NEW q \in Seq(S), IsPrefix(p, q)
  PROVE  /\ Len(p) \in Nat /\ Len(q) \in Nat /\ Len(p) <= Len(q)
         /\ Len(q) <= Len(p) => p = q
<1>1. Len(p) \in Nat /\ Len(q) \in Nat
  OBVIOUS
<1>2. QED
  BY <1>1, PrefixIs, SameSeq

\* A path is its parent and its last name, and its proper prefixes are prefixes of the parent.
LEMMA LastName ==
  ASSUME NEW S, NEW p \in Seq(S), p # <<>>
  PROVE  /\ Front(p) \in Seq(S) /\ Last(p) \in S /\ p = Append(Front(p), Last(p)) /\ Len(p) = Len(Front(p)) + 1
         /\ IsPrefix(Front(p), p) /\ Front(p) # p
         /\ \A q \in Seq(S) : IsPrefix(q, p) => q = p \/ IsPrefix(q, Front(p))
<1>1. /\ Front(p) \in Seq(S) /\ Last(p) \in S /\ Len(p) = Len(Front(p)) + 1
      /\ \A i \in 1..Len(Front(p)) : Front(p)[i] = p[i]
  <2>1. Len(p) \in Nat \ {0}
    BY EmptySeq
  <2>2. Len(p) - 1 \in (1 - 1)..Len(p) /\ 1 \in 1..(Len(p) + 1) /\ Len(p) \in 1..Len(p)
    BY <2>1
  <2>3. PICK f : f = SubSeq(p, 1, Len(p) - 1)
    OBVIOUS
  <2>4. f \in Seq(S) /\ Len(f) = Len(p) - 1 /\ \A i \in 1..(Len(p) - 1) : f[i] = p[i]
    <3>1. f \in Seq(S) /\ Len(f) = Len(p) - 1 - 1 + 1 /\ \A i \in 1..(Len(p) - 1 - 1 + 1) : f[i] = p[1 + i - 1]
      BY <2>2, <2>3, Cut, Zenon
    <3>2. Len(p) - 1 - 1 + 1 = Len(p) - 1 /\ \A i \in 1..(Len(p) - 1) : 1 + i - 1 = i
      BY <2>1
    <3>3. QED
      BY <3>1, <3>2
  <2>5. Last(p) \in S
    BY <2>2, ElementOfSeq DEF Last
  <2>6. QED
    BY <2>1, <2>3, <2>4, <2>5 DEF Front
<1>2. PICK f, l : f = Front(p) /\ l = Last(p) /\ f \in Seq(S) /\ l \in S /\ l = p[Len(p)]
  BY <1>1 DEF Last
<1>3. p = Append(f, l)
  BY <1>1, <1>2
<1>4. IsPrefix(f, p)
  BY <1>1, <1>2, PrefixIs
<1>5. ASSUME NEW q \in Seq(S), IsPrefix(q, p) PROVE q = p \/ IsPrefix(q, f)
  <2>1. Len(q) <= Len(p) /\ \A i \in 1..Len(q) : q[i] = p[i]
    BY <1>5, PrefixIs
  <2>2. CASE Len(q) = Len(p)
    BY <2>1, <2>2, SameSeq
  <2>3. CASE Len(q) # Len(p)
    <3>1. Len(q) <= Len(f)
      BY <1>1, <1>2, <2>1, <2>3
    <3>2. \A i \in 1..Len(q) : q[i] = f[i]
      BY <1>1, <1>2, <2>1, <3>1
    <3>3. QED
      BY <1>2, <3>1, <3>2, PrefixIs
  <2>4. QED
    BY <2>2, <2>3
<1>6. QED
  BY <1>1, <1>2, <1>3, <1>4, <1>5

\* What is left of a path below one of its prefixes.
LEMMA RestOf ==
  ASSUME NEW S, NEW p \in Seq(S), NEW q \in Seq(S)
  PROVE  SubSeq(p \o q, Len(p) + 1, Len(p \o q)) = q
<1>1. PICK r : r = p \o q
  OBVIOUS
<1>2. r \in Seq(S) /\ Len(r) = Len(p) + Len(q) /\ \A i \in 1..Len(q) : r[Len(p) + i] = q[i]
  BY <1>1, Joined
<1>3. Len(p) + 1 \in 1..(Len(r) + 1) /\ Len(r) \in (Len(p) + 1 - 1)..Len(r)
  BY <1>2
<1>4. PICK t : t = SubSeq(r, Len(p) + 1, Len(r))
  OBVIOUS
<1>5. /\ t \in Seq(S) /\ Len(t) = Len(r) - (Len(p) + 1) + 1
      /\ \A i \in 1..(Len(r) - (Len(p) + 1) + 1) : t[i] = r[Len(p) + 1 + i - 1]
  BY <1>2, <1>3, <1>4, Cut
<1>6. Len(t) = Len(q) /\ \A i \in 1..Len(t) : t[i] = q[i]
  BY <1>2, <1>5, SMTT(30)
<1>7. QED
  BY <1>1, <1>4, <1>5, <1>6, SameSeq

\* Concatenation is associative.
LEMMA Regroup ==
  ASSUME NEW S, NEW p \in Seq(S), NEW q \in Seq(S), NEW r \in Seq(S)
  PROVE  p \o (q \o r) = (p \o q) \o r
  OBVIOUS

\* A path, cut into two parts.
LEMMA CutAt ==
  ASSUME NEW S, NEW p \in Seq(S), NEW k \in 0..Len(p)
  PROVE  p = SubSeq(p, 1, k) \o SubSeq(p, k + 1, Len(p))
<1>1. PICK n \in Nat : n = Len(p)
  OBVIOUS
<1>2. k \in Nat /\ k <= n /\ n - k \in Nat /\ k + (n - k) = n
  BY <1>1
<1>0. PICK a, b : a = SubSeq(p, 1, k) /\ b = SubSeq(p, k + 1, Len(p))
  OBVIOUS
<1>3. a \in Seq(S) /\ Len(a) = k /\ \A i \in 1..k : a[i] = p[i]
  BY <1>0, <1>1, <1>2
<1>4. b \in Seq(S) /\ Len(b) = n - k /\ \A i \in 1..(n - k) : b[i] = p[k + i]
  BY <1>0, <1>1, <1>2
<1>5. PICK c : c = a \o b
  OBVIOUS
<1>6. /\ c \in Seq(S) /\ Len(c) = Len(a) + Len(b) /\ \A i \in 1..Len(a) : c[i] = a[i]
      /\ \A i \in 1..Len(b) : c[Len(a) + i] = b[i]
  <2>1. a \in Seq(S) /\ b \in Seq(S)
    BY <1>3, <1>4
  <2>2. QED
    BY <1>5, <2>1, Joined
<1>7. Len(c) = n
  BY <1>2, <1>3, <1>4, <1>6
<1>8. ASSUME NEW i \in 1..n PROVE c[i] = p[i]
  <2>1. CASE i <= k
    <3>1. i \in 1..k
      BY <1>2, <2>1
    <3>2. QED
      BY <1>3, <1>6, <3>1
  <2>2. CASE i > k
    <3>1. PICK j : j = i - k /\ j \in 1..(n - k) /\ k + j = i
      BY <1>2, <2>2
    <3>2. c[k + j] = b[j] /\ b[j] = p[k + j]
      BY <1>3, <1>4, <1>6, <3>1
    <3>3. QED
      BY <3>1, <3>2
  <2>3. QED
    BY <1>2, <2>1, <2>2
<1>9. c = p
  BY <1>1, <1>6, <1>7, <1>8, SameSeq
<1>10. QED
  BY <1>0, <1>5, <1>9

-----------------------------------------
(* Name resolution *)

\* The links of a file system lead to paths.
LinkTyped(f) == \A q \in Places : f[q].t = "link" => f[q].to \in Seq(Segment)

\* A path is its first name and the names behind it.
LEMMA SegParts ==
  ASSUME NEW s \in Seq(Segment), s # <<>>
  PROVE  /\ Head(s) \in Segment /\ Tail(s) \in Seq(Segment) /\ Len(Tail(s)) = Len(s) - 1 /\ Len(s) \in Nat \ {0}
         /\ \A d \in Seq(Segment) : /\ Append(d, Head(s)) \in Seq(Segment) /\ Append(d, Head(s)) \o Tail(s) = d \o s
                                    /\ Append(d, Head(s)) # <<>> /\ Front(Append(d, Head(s))) = d
                                    /\ Len(Append(d, Head(s))) = Len(d) + 1
         /\ \A d \in Seq(Segment) : d \o Tail(s) \in Seq(Segment) /\ s \o d # <<>>
                                    /\ Head(s \o d) = Head(s) /\ Tail(s \o d) = Tail(s) \o d
  BY DEF Front

\* What a walk is, and what it has at its next name.
LEMMA WalkParts ==
  ASSUME NEW w \in Walks
  PROVE  /\ w.links \in 0..MaxLinks /\ w.links \in Nat /\ w.done \in Seq(Segment) /\ w.todo \in Seq(Segment) /\ Len(w.todo) \in Nat
         /\ w = [links |-> w.links, done |-> w.done, todo |-> w.todo]
         /\ w.todo # <<>> => NextName(w) \in Seq(Segment) /\ Tail(w.todo) \in Seq(Segment)
                             /\ NextName(w) # <<>> /\ Front(NextName(w)) = w.done
                             /\ NextName(w) \o Tail(w.todo) = w.done \o w.todo
<1>1. /\ w.links \in 0..MaxLinks /\ w.links \in Nat /\ w.done \in Seq(Segment) /\ w.todo \in Seq(Segment) /\ Len(w.todo) \in Nat
      /\ w = [links |-> w.links, done |-> w.done, todo |-> w.todo]
  BY PlacesAssumption DEF Walks
<1>2. QED
  BY <1>1, SegParts DEF NextName

\* A step of a walk is a walk that has fewer links to follow, or as many and fewer names.
LEMMA AfterSmaller ==
  ASSUME NEW f, LinkTyped(f), NEW w \in Walks, ~Ends(f, w)
  PROVE  /\ After(f, w) \in Walks
         /\ \/ After(f, w).links < w.links
            \/ After(f, w).links = w.links /\ Len(After(f, w).todo) < Len(w.todo)
<1>1. w.todo # <<>>
  BY DEF Ends
<1>2. PICK node : node = At(f, NextName(w))
  OBVIOUS
<1>3. CASE node.t = "link"
  <2>1. NextName(w) \in Places /\ node.to \in Seq(Segment)
    BY <1>2, <1>3 DEF At, None, LinkTyped
  <2>2. w.links # 0
    BY <1>2, <1>3 DEF Ends
  <2>3. After(f, w) = [links |-> w.links - 1, done |-> <<>>, todo |-> node.to \o Tail(w.todo)]
    BY <1>2, <1>3 DEF After
  <2>4. w.links - 1 \in 0..MaxLinks /\ w.links \in Nat
    <3>1. PICK n \in 0..MaxLinks : n = w.links
      BY WalkParts
    <3>2. QED
      BY <2>2, <3>1, PlacesAssumption
  <2>5. node.to \o Tail(w.todo) \in Seq(Segment) /\ <<>> \in Seq(Segment)
    <3>1. Tail(w.todo) \in Seq(Segment)
      BY <1>1, WalkParts
    <3>2. QED
      BY <2>1, <3>1
  <2>6. QED
    BY <2>3, <2>4, <2>5 DEF Walks
<1>4. CASE node.t # "link"
  <2>1. After(f, w) = [links |-> w.links, done |-> NextName(w), todo |-> Tail(w.todo)]
    BY <1>2, <1>4 DEF After
  <2>2. NextName(w) \in Seq(Segment) /\ Tail(w.todo) \in Seq(Segment) /\ w.links \in 0..MaxLinks
    BY <1>1, WalkParts
  <2>3. Len(Tail(w.todo)) < Len(w.todo)
    BY <1>1, WalkParts, SegParts
  <2>4. QED
    BY <2>1, <2>2, <2>3 DEF Walks
<1>5. QED
  BY <1>3, <1>4

\* Every walk ends: the principle of induction for the lemmas below.
LEMMA WalksEnd ==
  ASSUME NEW f, LinkTyped(f), NEW Bad, Bad \subseteq Walks,
         \A w \in Bad : ~Ends(f, w) /\ After(f, w) \in Bad
  PROVE  Bad = {}
<1>1. SUFFICES ASSUME Bad # {} PROVE FALSE
  OBVIOUS
<1>2. PICK T : T = {w.links : w \in Bad}
  OBVIOUS
<1>3. T \subseteq Nat /\ T # {}
  BY <1>1, <1>2, WalkParts
<1>4. PICK n \in T : \A k \in T : ~(k < n)
  BY <1>3, Least
<1>5. PICK U : U = {Len(w.todo) : w \in {u \in Bad : u.links = n}}
  OBVIOUS
<1>6. U \subseteq Nat /\ U # {}
  BY <1>2, <1>4, <1>5, WalkParts
<1>7. PICK l \in U : \A k \in U : ~(k < l)
  BY <1>6, Least
<1>8. PICK w \in Bad : w.links = n /\ Len(w.todo) = l
  BY <1>5, <1>7
<1>9. PICK u \in Bad : u = After(f, w) /\ (u.links < n \/ (u.links = n /\ Len(u.todo) < l))
  BY <1>8, AfterSmaller
<1>10. u.links \in T
  BY <1>2, <1>9
<1>11. u.links = n
  BY <1>4, <1>9, <1>10
<1>12. Len(u.todo) \in U
  BY <1>5, <1>9, <1>11
<1>13. QED
  BY <1>3, <1>4, <1>7, <1>9, <1>11, <1>12

\* g is the result of the walks D, which are all that they lead to.
Solves(f, D, g) ==
  /\ D \subseteq Walks
  /\ \A w \in D : IF Ends(f, w) THEN g[w] = Result(f, w) ELSE After(f, w) \in D /\ g[w] = g[After(f, w)]

\* Two such functions agree.
LEMMA SolutionsAgree ==
  ASSUME NEW f, LinkTyped(f), NEW D, NEW g, Solves(f, D, g), NEW E, NEW h, Solves(f, E, h), NEW w \in D \cap E
  PROVE  g[w] = h[w]
<1>1. PICK Bad : Bad = {u \in D \cap E : g[u] # h[u]}
  OBVIOUS
<1>2. Bad \subseteq Walks
  BY <1>1 DEF Solves
<1>3. ASSUME NEW u \in Bad PROVE ~Ends(f, u) /\ After(f, u) \in Bad
  BY <1>1 DEF Solves
<1>4. Bad = {}
  BY <1>2, <1>3, WalksEnd
<1>5. QED
  BY <1>1, <1>4

\* Every walk has one.
LEMMA WalkSolved ==
  ASSUME NEW f, LinkTyped(f), NEW w \in Walks
  PROVE  \E D, g : w \in D /\ Solves(f, D, g)
<1>1. PICK Bad : Bad = {u \in Walks : ~ \E D, g : u \in D /\ Solves(f, D, g)}
  OBVIOUS
<1>2. ASSUME NEW u \in Bad PROVE ~Ends(f, u) /\ After(f, u) \in Bad
  <2>1. ~Ends(f, u)
    <3>1. SUFFICES ASSUME Ends(f, u) PROVE FALSE
      OBVIOUS
    <3>2. Solves(f, {u}, [v \in {u} |-> Result(f, u)])
      BY <1>1, <3>1 DEF Solves
    <3>3. QED
      BY <1>1, <3>2
  <2>2. After(f, u) \in Walks
    BY <1>1, <2>1, AfterSmaller
  <2>3. SUFFICES ASSUME NEW D, NEW g, After(f, u) \in D, Solves(f, D, g) PROVE FALSE
    BY <1>1, <2>1, <2>2
  <2>4. u \notin D
    BY <1>1, <2>3
  <2>5. PICK E, h : E = D \cup {u} /\ h = [v \in E |-> IF v = u THEN g[After(f, u)] ELSE g[v]]
    OBVIOUS
  <2>6. E \subseteq Walks
    BY <1>1, <2>3, <2>5 DEF Solves
  <2>7. h[u] = h[After(f, u)] /\ After(f, u) \in E
    BY <2>3, <2>4, <2>5
  <2>8. ASSUME NEW v \in D
        PROVE  IF Ends(f, v) THEN h[v] = Result(f, v) ELSE After(f, v) \in E /\ h[v] = h[After(f, v)]
    <3>1. h[v] = g[v]
      BY <2>4, <2>5
    <3>2. CASE Ends(f, v)
      BY <2>3, <3>1, <3>2 DEF Solves
    <3>3. CASE ~Ends(f, v)
      <4>1. After(f, v) \in D /\ g[v] = g[After(f, v)]
        BY <2>3, <3>3 DEF Solves
      <4>2. h[After(f, v)] = g[After(f, v)]
        BY <2>4, <2>5, <4>1
      <4>3. QED
        BY <2>5, <3>1, <3>3, <4>1, <4>2
    <3>4. QED
      BY <3>2, <3>3
  <2>9. Solves(f, E, h)
    BY <2>1, <2>5, <2>6, <2>7, <2>8 DEF Solves
  <2>10. QED
    BY <1>1, <2>5, <2>9
<1>3. Bad = {}
  BY <1>1, <1>2, WalksEnd
<1>4. QED
  BY <1>1, <1>3

\* Resolve satisfies the equation by which it is defined.
LEMMA ResolveIs ==
  ASSUME NEW f, LinkTyped(f)
  PROVE  \A w \in Walks : Resolve(f)[w] = IF Ends(f, w) THEN Result(f, w) ELSE Resolve(f)[After(f, w)]
<1> DEFINE Val(w) == CHOOSE a : \E D, g : w \in D /\ Solves(f, D, g) /\ a = g[w]
<1>1. ASSUME NEW w \in Walks, NEW D, NEW g, w \in D, Solves(f, D, g) PROVE Val(w) = g[w]
  <2>1. \E a : \E E, h : w \in E /\ Solves(f, E, h) /\ a = h[w]
    BY <1>1
  <2>2. \E E, h : w \in E /\ Solves(f, E, h) /\ Val(w) = h[w]
    BY <2>1
  <2>3. QED
    BY <1>1, <2>2, SolutionsAgree
<1>2. ASSUME NEW w \in Walks PROVE Val(w) = IF Ends(f, w) THEN Result(f, w) ELSE Val(After(f, w))
  <2>1. PICK D, g : w \in D /\ Solves(f, D, g)
    BY WalkSolved
  <2>2. Val(w) = g[w]
    BY <1>1, <2>1
  <2>3. CASE Ends(f, w)
    BY <2>1, <2>2, <2>3 DEF Solves
  <2>4. CASE ~Ends(f, w)
    <3>1. After(f, w) \in D /\ g[w] = g[After(f, w)]
      BY <2>1, <2>4 DEF Solves
    <3>2. After(f, w) \in Walks
      BY <2>4, AfterSmaller
    <3>3. Val(After(f, w)) = g[After(f, w)]
      BY <1>1, <2>1, <3>1, <3>2
    <3>4. QED
      BY <2>2, <2>4, <3>1, <3>3
  <2>5. QED
    BY <2>3, <2>4
<1> HIDE DEF Val
<1>3. PICK F : F = [w \in Walks |-> Val(w)]
  OBVIOUS
<1>4. ASSUME NEW w \in Walks PROVE F[w] = IF Ends(f, w) THEN Result(f, w) ELSE F[After(f, w)]
  BY <1>2, <1>3, AfterSmaller
<1>5. F = [w \in Walks |-> IF Ends(f, w) THEN Result(f, w) ELSE F[After(f, w)]]
  BY <1>3, <1>4, Zenon
<1>6. Resolve(f) = [w \in Walks |-> IF Ends(f, w) THEN Result(f, w) ELSE Resolve(f)[After(f, w)]]
  BY <1>5, Zenon DEF Resolve
<1>7. QED
  BY <1>6

-----------------------------------------
(* What the handlers leave behind *)

Files0 == [t : {"file"}, data : Contents, mode : {"rw", "ro"}]
Typed(f) == f \in [Places -> Nodes]

\* What an object of the file system is, by its kind.
LEMMA NodeIs ==
  ASSUME NEW x \in Nodes
  PROVE  /\ x.t \in {"none", "dir", "file", "link"}
         /\ x.t = "none" => x = None
         /\ x.t = "dir" => x = Dir
         /\ x.t = "file" => x \in Files0 /\ x.data \in Contents /\ x.mode \in {"rw", "ro"}
         /\ x.t = "link" => x.to \in Seq(Segment) /\ x = Link(x.to)
<1>1. CASE x \in {None, Dir}
  BY <1>1 DEF None, Dir
<1>2. CASE x \in Files0
  BY <1>2 DEF Files0
<1>3. CASE x \in [t : {"link"}, to : Seq(Segment)]
  BY <1>3 DEF Link
<1>4. QED
  BY <1>1, <1>2, <1>3 DEF Nodes, Files0

\* The objects that calls and commands make are objects of the file system.
LEMMA NodesHold ==
  /\ None \in Nodes /\ Dir \in Nodes /\ Files0 \subseteq Nodes /\ None.t = "none" /\ Dir.t = "dir"
  /\ \A d \in Contents, m \in {"rw", "ro"} : File(d, m) \in Files0
  /\ \A to \in Seq(Segment) : Link(to) \in Nodes
  BY DEF Nodes, Files0, File, Link, None, Dir

\* What is at a path, also at one that is not among the places.
LEMMA AtIs ==
  ASSUME NEW f, Typed(f), NEW p
  PROVE  /\ At(f, p) \in Nodes
         /\ At(f, p).t # "none" => p \in Places
         /\ p \in Places => At(f, p) = f[p]
         /\ \A q \in Places : f[q] \in Nodes
  BY NodesHold DEF At, Typed

\* The work tree of a file system is a tree.
LEMMA WorkTreeTyped ==
  ASSUME NEW f, Typed(f)
  PROVE  WorkTree(f) \in Trees
<1>1. ASSUME NEW n \in Names
      PROVE  LET node == At(f, Repo \o n) IN (IF node.t = "file" THEN node.data ELSE NoFile) \in Contents \cup {NoFile}
  BY AtIs, NodeIs
<1>2. QED
  BY <1>1 DEF WorkTree, Trees

\* The directories that os.MkdirAll makes.
NewDirs(s) == {s.path \o SubSeq(s.rest, 1, k) : k \in 0..Len(s.rest)}
WithDirs(f, D) == [q \in Places |-> IF q \in D THEN Dir ELSE f[q]]
Stuck(f, p) == \E k \in 0..Len(p) : Dangling(f, SubSeq(p, 1, k))

\* os.MkdirAll finds the directory, makes the missing ones, or fails and makes nothing.
LEMMA MkdirIs ==
  ASSUME NEW f, NEW p, NEW s, s = Walk(f, p), NEW m, m = MkdirAll(f, p)
  PROVE  \/ m.err = "none" /\ m.fs = f /\ s.err = "none" /\ At(f, s.path).t = "dir"
         \/ /\ m.err = "none" /\ s.err = "notexist" /\ NewDirs(s) \subseteq Places /\ ~Stuck(f, p)
            /\ m.fs = WithDirs(f, NewDirs(s))
         \/ m.err # "none" /\ m.fs = f
<1>1. PICK D : D = NewDirs(s)
  OBVIOUS
<1>2. m = CASE s.err = "none" /\ At(f, s.path).t = "dir" -> [err |-> "none", fs |-> f]
            [] s.err = "notexist" /\ D \subseteq Places /\ ~Stuck(f, p) -> [err |-> "none", fs |-> WithDirs(f, D)]
            [] OTHER -> [err |-> "notdir", fs |-> f]
  BY <1>1, Zenon DEF MkdirAll, NewDirs, WithDirs, Stuck
<1>3. CASE s.err = "none" /\ At(f, s.path).t = "dir"
  BY <1>2, <1>3
<1>4. CASE s.err = "notexist" /\ D \subseteq Places /\ ~Stuck(f, p)
  <2>1. m = [err |-> "none", fs |-> WithDirs(f, D)]
    BY <1>2, <1>4
  <2>2. QED
    BY <1>1, <1>4, <2>1
<1>5. CASE ~(s.err = "none" /\ At(f, s.path).t = "dir") /\ ~(s.err = "notexist" /\ D \subseteq Places /\ ~Stuck(f, p))
  BY <1>2, <1>5
<1>6. QED
  BY <1>3, <1>4, <1>5

\* os.MkdirAll leaves a file system.
LEMMA DirsTyped ==
  ASSUME NEW f, Typed(f), NEW p
  PROVE  Typed(MkdirAll(f, p).fs)
<1>1. PICK s, m : s = Walk(f, p) /\ m = MkdirAll(f, p)
  OBVIOUS
<1>2. m.fs = f \/ m.fs = WithDirs(f, NewDirs(s))
  BY <1>1, MkdirIs
<1>3. Typed(WithDirs(f, NewDirs(s)))
  BY NodesHold DEF Typed, WithDirs
<1>4. QED
  BY <1>1, <1>2, <1>3

\* A path that is accepted.
Accepted(req, v) == ~EmptyPath(req) /\ v.err \notin {"traversal", "other"}

\* writeFile and deleteFile go on exactly with a path that is not empty and was accepted.
LEMMA RejectedIs ==
  ASSUME NEW req, NEW v
  PROVE  /\ Check(EmptyPath(req), "InvalidArgument") \o PathChecks(v) \in Seq(Codes)
         /\ FirstOf(Check(EmptyPath(req), "InvalidArgument") \o PathChecks(v)) = "ok" <=> Accepted(req, v)
         /\ Check(EmptyPath(req), "InvalidArgument") \o PathChecks(v) = <<>> <=> Accepted(req, v)
<1>1. PICK x, a : x = Check(EmptyPath(req), "InvalidArgument") /\ a = PathChecks(v)
  OBVIOUS
<1>2. x = IF EmptyPath(req) THEN <<"InvalidArgument">> ELSE <<>>
  BY <1>1 DEF Check
<1>3. "InvalidArgument" \in Codes
  BY DEF Codes
<1>4. x \in Seq(Codes) /\ FirstOf(x) = IF x = <<>> THEN "ok" ELSE "InvalidArgument"
  BY <1>2, <1>3, CheckCode
<1>5. a \in Seq(Codes) /\ (a = <<>> <=> v.err \notin {"traversal", "other"})
      /\ (FirstOf(a) = "ok" <=> v.err \notin {"traversal", "other"})
  BY <1>1, PathChecksAre
<1>6. x \o a \in Seq(Codes) /\ (x \o a = <<>> <=> x = <<>> /\ a = <<>>)
      /\ FirstOf(x \o a) = IF x = <<>> THEN FirstOf(a) ELSE FirstOf(x)
  BY <1>4, <1>5, FirstOfJoin
<1>7. QED
  BY <1>1, <1>2, <1>4, <1>5, <1>6 DEF Accepted

\* What writeFile leaves behind: what was there, the directories of a failed write,
\* or a file in them.
Wrote(f, v, g) ==
  LET dirs == MkdirAll(f, Front(v.path))
      w == CreateAt(dirs.fs, v.path)
  IN \/ g = dirs.fs
     \/ /\ dirs.err = "none" /\ w.err = "none" /\ At(dirs.fs, w.path).t # "dir"
        /\ \E new \in Files0 : g = [dirs.fs EXCEPT ![w.path] = new]

\* writeFile changes nothing, or it made directories and possibly wrote one file.
LEMMA WriteIs ==
  ASSUME NEW f, Typed(f), NEW home, NEW req, NEW data \in Data, NEW mode \in {"unset", "rw", "ro"}, NEW full,
         NEW g, g = writeFile(f, home, req, data, mode, full).fs,
         NEW v, v = ValidatePath(f, home, req)
  PROVE  g = f \/ (Accepted(req, v) /\ Wrote(f, v, g))
<1>1. PICK rejected : rejected = FirstOf(Check(EmptyPath(req), "InvalidArgument") \o PathChecks(v))
  OBVIOUS
<1>2. PICK dirs, w, node : dirs = MkdirAll(f, Front(v.path)) /\ w = CreateAt(dirs.fs, v.path) /\ node = At(dirs.fs, w.path)
  OBVIOUS
<1>3. PICK code : code = FirstOf(Check(dirs.err # "none" \/ w.err # "none" \/ node.t = "dir", "Internal")
                                 \o Check(ReadOnly(node), "PermissionDenied"))
  OBVIOUS
<1>4. PICK new : new = IF full THEN File(<<>>, IF node.t = "file" THEN node.mode ELSE ModeAfter(node, mode))
                       ELSE File(data, ModeAfter(node, mode))
  OBVIOUS
<1>5. writeFile(f, home, req, data, mode, full) =
        IF rejected # "ok" THEN [code |-> rejected, fs |-> f]
        ELSE IF code # "ok" THEN [code |-> code, fs |-> dirs.fs]
        ELSE [code |-> IF full THEN "Internal" ELSE "ok", fs |-> [dirs.fs EXCEPT ![w.path] = new]]
  BY <1>1, <1>2, <1>3, <1>4, Zenon DEF writeFile
<1>6. CASE rejected # "ok"
  <2>1. writeFile(f, home, req, data, mode, full) = [code |-> rejected, fs |-> f]
    BY <1>5, <1>6, Zenon
  <2>2. QED
    BY <2>1
<1>7. CASE rejected = "ok" /\ code # "ok"
  <2>1. writeFile(f, home, req, data, mode, full) = [code |-> code, fs |-> dirs.fs]
    BY <1>5, <1>7, Zenon
  <2>2. g = dirs.fs
    BY <2>1
  <2>3. Accepted(req, v)
    BY <1>1, <1>7, RejectedIs
  <2>4. QED
    BY <1>2, <2>2, <2>3 DEF Wrote
<1>8. CASE rejected = "ok" /\ code = "ok"
  <2>1. writeFile(f, home, req, data, mode, full) =
          [code |-> IF full THEN "Internal" ELSE "ok", fs |-> [dirs.fs EXCEPT ![w.path] = new]]
    BY <1>5, <1>8, Zenon
  <2>2. g = [dirs.fs EXCEPT ![w.path] = new]
    BY <2>1
  <2>3. Accepted(req, v)
    BY <1>1, <1>8, RejectedIs
  <2>4. dirs.err = "none" /\ w.err = "none" /\ node.t # "dir"
    <3>1. PICK x, y : /\ x = Check(dirs.err # "none" \/ w.err # "none" \/ node.t = "dir", "Internal")
                      /\ y = Check(ReadOnly(node), "PermissionDenied")
      OBVIOUS
    <3>2. /\ x = IF dirs.err # "none" \/ w.err # "none" \/ node.t = "dir" THEN <<"Internal">> ELSE <<>>
          /\ y = IF ReadOnly(node) THEN <<"PermissionDenied">> ELSE <<>>
      BY <3>1 DEF Check
    <3>3. "Internal" \in Codes /\ "PermissionDenied" \in Codes
      BY DEF Codes
    <3>4. x \in Seq(Codes) /\ FirstOf(x) = (IF x = <<>> THEN "ok" ELSE "Internal") /\ y \in Seq(Codes)
      BY <3>2, <3>3, CheckCode
    <3>5. FirstOf(x \o y) = IF x = <<>> THEN FirstOf(y) ELSE FirstOf(x)
      BY <3>4, FirstOfJoin
    <3>6. QED
      <4>1. code = FirstOf(x \o y)
        BY <1>3, <3>1, Zenon
      <4>2. x = <<>>
        BY <1>8, <3>4, <3>5, <4>1
      <4>3. <<"Internal">> # <<>>
        OBVIOUS
      <4>4. QED
        BY <3>2, <4>2, <4>3, Zenon
  <2>5. new \in Files0
    <3>1. node.t = "file" => node.mode \in {"rw", "ro"}
      <4>1. Typed(dirs.fs)
        BY <1>2, DirsTyped
      <4>2. node \in Nodes
        BY <1>2, <4>1, AtIs
      <4>3. QED
        BY <4>2, NodeIs
    <3>2. ModeAfter(node, mode) \in {"rw", "ro"}
      BY DEF ModeAfter
    <3>3. data \in Contents /\ <<>> \in Contents
      BY DEF Contents
    <3>4. PICK m : m = IF node.t = "file" THEN node.mode ELSE ModeAfter(node, mode)
      OBVIOUS
    <3>5. m \in {"rw", "ro"}
      BY <3>1, <3>2, <3>4
    <3>6. File(<<>>, m) \in Files0 /\ File(data, ModeAfter(node, mode)) \in Files0
      BY <3>2, <3>3, <3>5, NodesHold
    <3>7. new = File(<<>>, m) \/ new = File(data, ModeAfter(node, mode))
      BY <1>4, <3>4, Zenon
    <3>8. QED
      BY <3>6, <3>7, Zenon
  <2>6. QED
    BY <1>2, <2>2, <2>3, <2>4, <2>5 DEF Wrote
<1>9. QED
  BY <1>6, <1>7, <1>8

\* writeFile leaves a file system.
LEMMA WroteTyped ==
  ASSUME NEW f, Typed(f), NEW v, NEW g, Wrote(f, v, g)
  PROVE  Typed(g)
<1>1. PICK dirs, w : dirs = MkdirAll(f, Front(v.path)) /\ w = CreateAt(dirs.fs, v.path)
  OBVIOUS
<1>2. Typed(dirs.fs)
  BY <1>1, DirsTyped
<1>3. g = dirs.fs \/ \E new \in Files0 : g = [dirs.fs EXCEPT ![w.path] = new]
  BY <1>1 DEF Wrote
<1>4. QED
  BY <1>2, <1>3, NodesHold DEF Typed

\* What deleteFile leaves behind.
LEMMA DeleteIs ==
  ASSUME NEW f, NEW home, NEW req, NEW recursive, NEW g, g = deleteFile(f, home, req, recursive).fs,
         NEW v, v = ValidatePath(f, home, req), NEW l, l = Lstat(f, v.path)
  PROVE  \/ g = f /\ deleteFile(f, home, req, recursive).code # "ok"
         \/ Accepted(req, v) /\ v.path # home /\ l.err = "none" /\ g = RemoveAll(f, l.path)
<1>1. PICK x, a, h, s, e : /\ x = Check(EmptyPath(req), "InvalidArgument") /\ a = PathChecks(v)
                           /\ h = Check(v.path = home, "InvalidArgument") /\ s = StatChecks(l)
                           /\ e = Check(~recursive /\ Entries(f, l.path) # {}, "FailedPrecondition")
  OBVIOUS
<1>2. PICK code : code = FirstOf((((x \o a) \o h) \o s) \o e)
  OBVIOUS
<1>3. deleteFile(f, home, req, recursive) = [code |-> code, fs |-> IF code = "ok" THEN RemoveAll(f, l.path) ELSE f]
  BY <1>1, <1>2, Zenon DEF deleteFile
<1>4. CASE code # "ok"
  BY <1>3, <1>4
<1>5. CASE code = "ok"
  <2>1. g = RemoveAll(f, l.path)
    BY <1>3, <1>5
  <2>2. "InvalidArgument" \in Codes /\ "FailedPrecondition" \in Codes /\ "NotFound" \in Codes /\ "Internal" \in Codes
    BY DEF Codes
  <2>3. x \o a \in Seq(Codes) /\ (FirstOf(x \o a) = "ok" <=> Accepted(req, v)) /\ (x \o a = <<>> <=> Accepted(req, v))
    BY <1>1, RejectedIs
  <2>4. h = (IF v.path = home THEN <<"InvalidArgument">> ELSE <<>>) /\ e \in {<<>>, <<"FailedPrecondition">>}
    BY <1>1 DEF Check
  <2>5. /\ h \in Seq(Codes) /\ FirstOf(h) = (IF h = <<>> THEN "ok" ELSE "InvalidArgument")
        /\ e \in Seq(Codes) /\ FirstOf(e) = IF e = <<>> THEN "ok" ELSE "FailedPrecondition"
    BY <2>2, <2>4, CheckCode
  <2>6. s \in Seq(Codes) /\ (FirstOf(s) = "ok" <=> l.err = "none") /\ (s = <<>> <=> l.err = "none")
    <3>1. PICK y, z : y = Check(l.err = "notexist", "NotFound") /\ z = Check(l.err # "none", "Internal") /\ s = y \o z
      BY <1>1 DEF StatChecks
    <3>2. y = (IF l.err = "notexist" THEN <<"NotFound">> ELSE <<>>) /\ z = IF l.err # "none" THEN <<"Internal">> ELSE <<>>
      BY <3>1 DEF Check
    <3>3. /\ y \in Seq(Codes) /\ FirstOf(y) = (IF y = <<>> THEN "ok" ELSE "NotFound")
          /\ z \in Seq(Codes) /\ FirstOf(z) = IF z = <<>> THEN "ok" ELSE "Internal"
      BY <2>2, <3>2, CheckCode
    <3>4. /\ y \o z \in Seq(Codes) /\ (y \o z = <<>> <=> y = <<>> /\ z = <<>>)
          /\ FirstOf(y \o z) = IF y = <<>> THEN FirstOf(z) ELSE FirstOf(y)
      BY <3>3, FirstOfJoin
    <3>5. (y = <<>> <=> l.err # "notexist") /\ (z = <<>> <=> l.err = "none")
      BY <3>2
    <3>6. QED
      BY <3>1, <3>3, <3>4, <3>5
  <2>7. PICK b : b = x \o a /\ b \in Seq(Codes)
    BY <2>3
  <2>8. (b \o h) \o s \in Seq(Codes)
        /\ ((b \o h) \o s = <<>> <=> b = <<>> /\ h = <<>> /\ s = <<>>)
        /\ FirstOf((b \o h) \o s) = IF b # <<>> THEN FirstOf(b) ELSE IF h # <<>> THEN FirstOf(h) ELSE FirstOf(s)
    BY <2>5, <2>6, <2>7, FirstOfThree, ZenonT(60)
  <2>9. PICK d : d = (b \o h) \o s /\ d \in Seq(Codes)
    BY <2>8
  <2>10. FirstOf(d \o e) = IF d = <<>> THEN FirstOf(e) ELSE FirstOf(d)
    BY <2>5, <2>9, FirstOfJoin
  <2>11. code = FirstOf(d \o e)
    BY <1>2, <2>7, <2>9
  <2>12. d = <<>> \/ FirstOf(d) = "ok"
    BY <1>5, <2>10, <2>11
  <2>13. b = <<>> /\ h = <<>> /\ s = <<>>
    BY <2>3, <2>5, <2>6, <2>7, <2>8, <2>9, <2>12
  <2>14. <<"InvalidArgument">> # <<>>
    OBVIOUS
  <2>15. Accepted(req, v) /\ v.path # home /\ l.err = "none"
    BY <2>3, <2>4, <2>6, <2>7, <2>13, <2>14
  <2>16. QED
    BY <2>1, <2>15
<1>6. QED
  BY <1>4, <1>5

\* What gitClone leaves behind.
Cloned(f, g, p, o, f2, g2) ==
  LET into == MkdirAll(f, p)
      clean == Entries(f, Repo) = {}
  IN /\ into.err = "none" /\ ~IsRepo(f, Repo)
     /\ \/ clean /\ f2 = [into.fs EXCEPT ![Repo] = f[Repo]] /\ g2 = g
        \/ ~clean /\ f2 = [into.fs EXCEPT ![DotGit] = Dir] /\ g2 = [EmptyRepo EXCEPT !.remote = TRUE]
        \/ /\ o # <<>> /\ f2 = CheckedOut(into.fs, Last(o).tree)
           /\ g2 = [EmptyRepo EXCEPT !.commits = o, !.index = Last(o).tree, !.remote = TRUE]

\* gitClone changes nothing, or it leaves one of the three results of git.PlainClone.
LEMMA CloneIs ==
  ASSUME NEW f, NEW home, NEW g, NEW req, NEW o, NEW auth, NEW url, NEW reachable,
         NEW c, c = gitClone(f, home, g, req, o, auth, url, reachable),
         NEW v, v = ValidatePath(f, home, req),
         NEW p, p = IF v.err = "none" THEN v.path ELSE Clean(home \o req.segs)
  PROVE  \/ c.fs = f /\ c.git = g
         \/ v.err # "traversal" /\ Cloned(f, g, p, o, c.fs, c.git)
<1>1. PICK into : into = MkdirAll(f, p)
  OBVIOUS
<1>2. PICK fails, clean : fails \in BOOLEAN /\ clean \in BOOLEAN
                          /\ (fails <=> (~reachable \/ o = <<>> \/ Refused(auth, url)))
                          /\ (clean <=> Entries(f, Repo) = {})
  <2>1. (~reachable \/ o = <<>> \/ Refused(auth, url)) \in BOOLEAN /\ (Entries(f, Repo) = {}) \in BOOLEAN
    BY Zenon
  <2>2. QED
    BY <2>1, Zenon
<1>3. PICK u, t, m : /\ u = Check(url = "", "InvalidArgument") /\ t = Check(v.err = "traversal", "PermissionDenied")
                     /\ m = Check(into.err # "none" \/ IsRepo(f, Repo), "Internal")
  OBVIOUS
<1>4. PICK refused : refused = FirstOf((u \o t) \o m)
  OBVIOUS
<1>5. PICK f1, f2, g1, g2 : /\ f1 = (IF clean THEN [into.fs EXCEPT ![Repo] = f[Repo]] ELSE [into.fs EXCEPT ![DotGit] = Dir])
                            /\ g1 = (IF clean THEN g ELSE [EmptyRepo EXCEPT !.remote = TRUE])
                            /\ f2 = CheckedOut(into.fs, Last(o).tree)
                            /\ g2 = [EmptyRepo EXCEPT !.commits = o, !.index = Last(o).tree, !.remote = TRUE]
  OBVIOUS
<1>6. c = CASE refused # "ok" -> [code |-> refused, fs |-> f, git |-> g]
            [] refused = "ok" /\ fails -> [code |-> "Internal", fs |-> f1, git |-> g1]
            [] OTHER -> [code |-> "ok", fs |-> f2, git |-> g2]
  <2>1. PICK cc : cc = gitClone(f, home, g, req, o, auth, url, reachable)
    OBVIOUS
  <2>2. cc = CASE refused # "ok" -> [code |-> refused, fs |-> f, git |-> g]
            [] refused = "ok" /\ (~reachable \/ o = <<>> \/ Refused(auth, url)) ->
                 [code |-> "Internal",
                  fs |-> IF Entries(f, Repo) = {} THEN [into.fs EXCEPT ![Repo] = f[Repo]] ELSE [into.fs EXCEPT ![DotGit] = Dir],
                  git |-> IF Entries(f, Repo) = {} THEN g ELSE [EmptyRepo EXCEPT !.remote = TRUE]]
            [] OTHER -> [code |-> "ok", fs |-> f2, git |-> g2]
    BY <1>1, <1>3, <1>4, <1>5, <2>1, Zenon DEF gitClone
  <2>3. QED
    BY <1>2, <1>5, <2>1, <2>2
<1>7. CASE refused # "ok"
  BY <1>6, <1>7
<1>8. CASE refused = "ok"
  <2>1. "InvalidArgument" \in Codes /\ "PermissionDenied" \in Codes /\ "Internal" \in Codes
    BY DEF Codes
  <2>2. /\ u \in {<<>>, <<"InvalidArgument">>}
        /\ t = IF v.err = "traversal" THEN <<"PermissionDenied">> ELSE <<>>
        /\ m = IF into.err # "none" \/ IsRepo(f, Repo) THEN <<"Internal">> ELSE <<>>
    BY <1>3 DEF Check
  <2>3. /\ u \in Seq(Codes) /\ FirstOf(u) = (IF u = <<>> THEN "ok" ELSE "InvalidArgument")
        /\ t \in Seq(Codes) /\ FirstOf(t) = (IF t = <<>> THEN "ok" ELSE "PermissionDenied")
        /\ m \in Seq(Codes) /\ FirstOf(m) = (IF m = <<>> THEN "ok" ELSE "Internal")
    BY <2>1, <2>2, CheckCode
  <2>4. FirstOf((u \o t) \o m) = IF u # <<>> THEN FirstOf(u) ELSE IF t # <<>> THEN FirstOf(t) ELSE FirstOf(m)
    BY <2>3, FirstOfThree
  <2>5. u = <<>> /\ t = <<>> /\ m = <<>>
    BY <1>4, <1>8, <2>3, <2>4
  <2>6. <<"PermissionDenied">> # <<>> /\ <<"Internal">> # <<>>
    OBVIOUS
  <2>7. v.err # "traversal" /\ into.err = "none" /\ ~IsRepo(f, Repo)
    BY <2>2, <2>5, <2>6
  <2>8. CASE fails
    <3>1. c.fs = f1 /\ c.git = g1
      BY <1>6, <1>8, <2>8
    <3>2. QED
      BY <1>1, <1>2, <1>5, <2>7, <3>1 DEF Cloned
  <2>9. CASE ~fails
    <3>1. c.fs = f2 /\ c.git = g2
      BY <1>6, <1>8, <2>9
    <3>2. o # <<>>
      BY <1>2, <2>9
    <3>3. QED
      BY <1>1, <1>5, <2>7, <3>1, <3>2 DEF Cloned
  <2>10. QED
    BY <2>8, <2>9
<1>9. QED
  BY <1>7, <1>8

\* A file of the repository's trees has a place, and is named by its path below the repository.
LEMMA NameIs ==
  ASSUME NEW n \in Names
  PROVE  Repo \o n \in Places /\ Repo \o n # DotGit /\ RelPath(Repo, Repo \o n) = n /\ n \in Seq(Segment) /\ Len(n) = 1
<1>1. Repo \in Seq(Segment) /\ n \in Seq(Segment) /\ Repo \o n \in Places /\ Repo \o n # DotGit /\ Len(n) = 1
  BY PlacesAssumption, RepoAssumption
<1>2. SubSeq(Repo \o n, Len(Repo) + 1, Len(Repo \o n)) = n
  BY <1>1, RestOf
<1>3. QED
  BY <1>1, <1>2 DEF RelPath

\* A checkout leaves a file system.
LEMMA CheckedOutTyped ==
  ASSUME NEW f, Typed(f), NEW tree \in Trees
  PROVE  Typed(CheckedOut(f, tree))
<1>1. ASSUME NEW q \in Places, NEW n \in Names, q = Repo \o n, tree[n] # NoFile
      PROVE  File(tree[RelPath(Repo, q)], "rw") \in Nodes
  <2>1. RelPath(Repo, q) = n
    BY <1>1, NameIs
  <2>2. tree[n] \in Contents
    BY <1>1 DEF Trees
  <2>3. QED
    BY <2>1, <2>2, NodesHold
<1>2. ASSUME NEW q \in Places
      PROVE  (IF q \in {Repo, DotGit} THEN Dir
              ELSE IF \E n \in Names : q = Repo \o n /\ tree[n] # NoFile
              THEN File(tree[RelPath(Repo, q)], "rw") ELSE f[q]) \in Nodes
  BY <1>1, AtIs, NodesHold
<1>3. QED
  BY <1>2 DEF CheckedOut, Typed

\* The empty tree and the empty repository have their types.
LEMMA EmptyTyped == EmptyTree \in Trees /\ RepoInv(EmptyRepo)
<1>1. EmptyTree \in Trees
  BY DEF EmptyTree, Trees
<1>2. <<>> \in Seq(Commits) /\ {} \in SUBSET Fields
  OBVIOUS
<1>3. QED
  BY <1>1, <1>2 DEF EmptyRepo, RepoInv

\* The last element of a sequence is one of its elements.
LEMMA LastIs ==
  ASSUME NEW S, NEW s \in Seq(S), s # <<>>
  PROVE  Last(s) \in S
  BY DEF Last

\* gitClone leaves a file system and a repository.
LEMMA ClonedTyped ==
  ASSUME NEW f, Typed(f), NEW g, RepoInv(g), NEW p, NEW o \in Seq(Commits), NEW f2, NEW g2, Cloned(f, g, p, o, f2, g2)
  PROVE  Typed(f2) /\ RepoInv(g2)
<1>1. PICK into : into = MkdirAll(f, p).fs
  OBVIOUS
<1>2. Typed(into)
  BY <1>1, DirsTyped
<1>3. PICK clean \in BOOLEAN : clean <=> Entries(f, Repo) = {}
  <2>1. (Entries(f, Repo) = {}) \in BOOLEAN
    BY Zenon
  <2>2. QED
    BY <2>1, Zenon
<1>4. CASE f2 = [into EXCEPT ![Repo] = f[Repo]] /\ g2 = g
  <2>1. f[Repo] \in Nodes
    BY AtIs, RepoAssumption
  <2>2. QED
    BY <1>2, <1>4, <2>1 DEF Typed
<1>5. CASE f2 = [into EXCEPT ![DotGit] = Dir] /\ g2 = [EmptyRepo EXCEPT !.remote = TRUE]
  <2>1. Typed(f2)
    BY <1>2, <1>5, NodesHold DEF Typed
  <2>2. RepoInv(g2)
    BY <1>5, EmptyTyped DEF RepoInv
  <2>3. QED
    BY <2>1, <2>2
<1>6. CASE /\ o # <<>> /\ f2 = CheckedOut(into, Last(o).tree)
           /\ g2 = [EmptyRepo EXCEPT !.commits = o, !.index = Last(o).tree, !.remote = TRUE]
  <2>1. PICK tree : tree = Last(o).tree /\ tree \in Trees
    BY <1>6, LastIs DEF Commits
  <2>2. Typed(f2)
    BY <1>2, <1>6, <2>1, CheckedOutTyped
  <2>3. RepoInv(g2)
    BY <1>6, <2>1, EmptyTyped DEF RepoInv
  <2>4. QED
    BY <2>2, <2>3
<1>7. QED
  BY <1>1, <1>4, <1>5, <1>6, Zenon DEF Cloned

\* The repository after a commit: without a repository it is not touched.
RepoAfter(f, home, g, req, after) ==
  RepoInv(after) /\ (FirstOf(OpenChecks(f, ValidatePath(f, home, req))) # "ok" => after = g)

\* gitCommit leaves a repository.
LEMMA CommittedTyped ==
  ASSUME NEW f, Typed(f), NEW home, NEW g, RepoInv(g), NEW req, NEW message, HasMessage(message),
         NEW files, Len(files) \in Nat, NEW call
  PROVE  RepoAfter(f, home, g, req, gitCommit(f, home, g, req, message, files, call).git)
<1>1. PICK w : w = WorkTree(f) /\ w \in Trees
  BY WorkTreeTyped
<1>2. g.index \in Trees
  BY DEF RepoInv
<1>3. PICK c \in StageCodes, K \in SUBSET Names : Stages(f, home, g, files, c, K)
  BY <1>2, StagedOnce
<1>4. PICK o : o = Over(g.index, K, w) /\ o \in Trees
  <2>1. \A n \in Names : w[n] \in Contents \cup {NoFile}
    BY <1>1 DEF Trees
  <2>2. QED
    BY <1>2, <2>1, OverIs
<1>5. StagedAs(f, home, g, files, c, o)
  BY <1>1, <1>3, <1>4 DEF Stages, StagedAs
<1>6. PICK r : r = FirstOf(OpenChecks(f, ValidatePath(f, home, req)))
  OBVIOUS
<1>7. gitCommit(f, home, g, req, message, files, call) = Committed(f, g, r, c, o, call)
  BY <1>5, <1>6, CommitIs
<1>8. PICK code, new : code = CommitFailure(f, g, c, o, call) /\ new = [tree |-> o, by |-> "worker"]
  OBVIOUS
<1>9. new \in Commits
  BY <1>4, <1>8 DEF Commits
<1>10. Append(g.commits, new) \in Seq(Commits)
  BY <1>9 DEF RepoInv
<1>11. Committed(f, g, r, c, o, call) =
         IF r # "ok" THEN [code |-> r, git |-> g]
         ELSE [code |-> code, git |-> [g EXCEPT !.index = o, !.commits = IF code = "ok" THEN Append(@, new) ELSE @]]
  BY <1>8, Zenon DEF Committed
<1>12. CASE r # "ok"
  BY <1>6, <1>7, <1>11, <1>12 DEF RepoAfter
<1>13. CASE r = "ok" /\ code = "ok"
  <2>1. Committed(f, g, r, c, o, call).git = [g EXCEPT !.index = o, !.commits = Append(@, new)]
    BY <1>11, <1>13
  <2>2. QED
    BY <1>4, <1>6, <1>7, <1>10, <1>13, <2>1, ZenonT(60) DEF RepoInv, RepoAfter
<1>14. CASE r = "ok" /\ code # "ok"
  <2>1. Committed(f, g, r, c, o, call).git = [g EXCEPT !.index = o, !.commits = @]
    BY <1>11, <1>14
  <2>2. QED
    BY <1>4, <1>6, <1>7, <1>14, <2>1, ZenonT(60) DEF RepoInv, RepoAfter
<1>15. QED
  BY <1>12, <1>13, <1>14

-----------------------------------------
(* Resolution of names: what it finds *)

\* What resolution needs of a file system.
Shape(f) == Typed(f) /\ f[<<>>].t = "dir"

\* In a file system of the right shape links lead to paths and every object has a kind.
LEMMA ShapeIs ==
  ASSUME NEW f, Shape(f)
  PROVE  LinkTyped(f) /\ \A q \in Places : f[q].t \in {"none", "dir", "file", "link"}
  BY AtIs, NodeIs DEF Shape, LinkTyped

\* A walk stands in a directory, or has come to its end.
Seated(f, w) ==
  w.done \in Places /\ (f[w.done].t = "dir" \/ (f[w.done].t = "file" /\ w.todo = <<>>))

\* What is at the next name of a walk.
LEMMA NextNode ==
  ASSUME NEW f, Shape(f), NEW w \in Walks, w.todo # <<>>, NEW node, node = At(f, NextName(w))
  PROVE  /\ node.t \in {"none", "dir", "file", "link"}
         /\ node.t # "none" => NextName(w) \in Places /\ node = f[NextName(w)]
         /\ node.t = "link" => node.to \in Seq(Segment)
  BY AtIs, NodeIs DEF Shape

\* The walk a step leads to.
LEMMA AfterIs ==
  ASSUME NEW f, Shape(f), NEW w \in Walks, ~Ends(f, w)
  PROVE  /\ w.todo # <<>> /\ NextName(w) \in Places /\ At(f, NextName(w)) = f[NextName(w)]
         /\ f[NextName(w)].t \in {"dir", "file", "link"}
         /\ f[NextName(w)].t = "file" => Tail(w.todo) = <<>>
         /\ f[NextName(w)].t = "link" =>
              /\ w.links # 0
              /\ After(f, w) = [links |-> w.links - 1, done |-> <<>>, todo |-> f[NextName(w)].to \o Tail(w.todo)]
         /\ f[NextName(w)].t # "link" =>
              After(f, w) = [links |-> w.links, done |-> NextName(w), todo |-> Tail(w.todo)]
         /\ After(f, w) \in Walks /\ Resolve(f)[After(f, w)] = Resolve(f)[w]
<1>1. w.todo # <<>>
  BY DEF Ends
<1>2. LinkTyped(f)
  BY ShapeIs
<1>3. /\ NextName(w) \in Places /\ At(f, NextName(w)) = f[NextName(w)]
      /\ f[NextName(w)].t \in {"dir", "file", "link"}
  BY <1>1, NextNode DEF Ends
<1>4. /\ f[NextName(w)].t = "file" => Tail(w.todo) = <<>>
      /\ f[NextName(w)].t = "link" => w.links # 0
  BY <1>3 DEF Ends
<1>5. After(f, w) \in Walks /\ Resolve(f)[After(f, w)] = Resolve(f)[w]
  BY <1>2, AfterSmaller, ResolveIs
<1>6. QED
  BY <1>1, <1>3, <1>4, <1>5 DEF After

\* A step keeps a walk seated.
LEMMA AfterSeated ==
  ASSUME NEW f, Shape(f), NEW w \in Walks, ~Ends(f, w)
  PROVE  Seated(f, After(f, w))
<1>1. PICK u, q : u = After(f, w) /\ q = NextName(w)
  OBVIOUS
<1>2. q \in Places /\ f[q].t \in {"dir", "file", "link"} /\ (f[q].t = "file" => Tail(w.todo) = <<>>)
  BY <1>1, AfterIs
<1>3. CASE f[q].t = "link"
  <2>1. u = [links |-> w.links - 1, done |-> <<>>, todo |-> f[q].to \o Tail(w.todo)]
    BY <1>1, <1>3, AfterIs
  <2>2. u.done = <<>>
    BY <2>1
  <2>3. QED
    BY <1>1, <2>2, PlacesAssumption DEF Seated, Shape
<1>4. CASE f[q].t # "link"
  <2>1. u = [links |-> w.links, done |-> q, todo |-> Tail(w.todo)]
    BY <1>1, <1>4, AfterIs
  <2>2. u.done = q /\ u.todo = Tail(w.todo)
    BY <2>1
  <2>3. QED
    BY <1>1, <1>2, <1>4, <2>2 DEF Seated
<1>5. QED
  BY <1>3, <1>4

\* The result of a walk that ends.
Ended(f, w, r) ==
  \/ w.todo = <<>> /\ r = [err |-> "none", path |-> w.done, rest |-> <<>>]
  \/ /\ w.todo # <<>> /\ At(f, NextName(w)).t = "none"
     /\ r = [err |-> "notexist", path |-> NextName(w), rest |-> Tail(w.todo)]
  \/ /\ w.todo # <<>> /\ At(f, NextName(w)).t = "file" /\ Tail(w.todo) # <<>>
     /\ r = [err |-> "notdir", path |-> NextName(w), rest |-> <<>>]
  \/ /\ w.todo # <<>> /\ At(f, NextName(w)).t = "link" /\ w.links = 0
     /\ r = [err |-> "loop", path |-> NextName(w), rest |-> <<>>]

\* The result of a walk that has come to its end.
LEMMA EndIs ==
  ASSUME NEW f, Shape(f), NEW w \in Walks, Ends(f, w)
  PROVE  Ended(f, w, Resolve(f)[w])
<1>1. PICK r : r = Resolve(f)[w] /\ r = Result(f, w)
  BY ResolveIs, ShapeIs
<1>2. w.todo # <<>> => At(f, NextName(w)).t \in {"none", "dir", "file", "link"}
  BY NextNode
<1>3. Ended(f, w, r)
  BY <1>1, <1>2 DEF Result, Ends, Ended
<1>4. QED
  BY <1>1, <1>3

\* What the results of seated walks are: an object that is no link, or a name
\* that is missing in a directory.
Found(f, r) ==
  /\ r.err \in {"none", "notexist", "notdir", "loop"} /\ r.path \in Seq(Segment) /\ r.rest \in Seq(Segment)
  /\ r = [err |-> r.err, path |-> r.path, rest |-> r.rest]
  /\ r.err = "none" => r.rest = <<>> /\ r.path \in Places /\ f[r.path].t \in {"dir", "file"}
  /\ r.err = "notexist" => /\ r.path # <<>> /\ At(f, r.path).t = "none"
                           /\ Front(r.path) \in Places /\ f[Front(r.path)].t = "dir"

\* A walk that stands in a directory finds an object, or the directory in which one is missing.
LEMMA WalkFinds ==
  ASSUME NEW f, Shape(f), NEW w \in Walks, Seated(f, w)
  PROVE  Found(f, Resolve(f)[w])
<1>1. PICK Bad : Bad = {u \in Walks : Seated(f, u) /\ ~Found(f, Resolve(f)[u])}
  OBVIOUS
<1>2. ASSUME NEW u \in Bad PROVE ~Ends(f, u)
  <2>1. SUFFICES ASSUME Ends(f, u) PROVE Found(f, Resolve(f)[u])
    BY <1>1
  <2>2. PICK r : r = Resolve(f)[u]
    OBVIOUS
  <2>3. u.done \in Seq(Segment) /\ <<>> \in Seq(Segment)
    <3>1. u \in Walks
      BY <1>1
    <3>2. u.done \in Seq(Segment)
      BY <3>1, WalkParts
    <3>3. <<>> \in Seq(Segment)
      OBVIOUS
    <3>4. QED
      BY <3>2, <3>3
  <2>4. u.todo # <<>> => NextName(u) \in Seq(Segment) /\ Tail(u.todo) \in Seq(Segment)
                         /\ NextName(u) # <<>> /\ Front(NextName(u)) = u.done
    BY <1>1, WalkParts
  <2>5. u.done \in Places /\ f[u.done].t \in {"dir", "file"} /\ (u.todo # <<>> => f[u.done].t = "dir")
    BY <1>1 DEF Seated
  <2>6. Ended(f, u, r)
    BY <1>1, <2>1, <2>2, EndIs
  <2>7. Found(f, r)
    <3>1. CASE u.todo = <<>> /\ r = [err |-> "none", path |-> u.done, rest |-> <<>>]
      BY <2>3, <2>5, <3>1 DEF Found
    <3>2. CASE /\ u.todo # <<>> /\ At(f, NextName(u)).t = "none"
               /\ r = [err |-> "notexist", path |-> NextName(u), rest |-> Tail(u.todo)]
      BY <2>4, <2>5, <3>2 DEF Found
    <3>3. CASE u.todo # <<>> /\ r = [err |-> "notdir", path |-> NextName(u), rest |-> <<>>]
      BY <2>3, <2>4, <3>3 DEF Found
    <3>4. CASE u.todo # <<>> /\ r = [err |-> "loop", path |-> NextName(u), rest |-> <<>>]
      BY <2>3, <2>4, <3>4 DEF Found
    <3>5. QED
      BY <2>6, <3>1, <3>2, <3>3, <3>4 DEF Ended
  <2>8. QED
    BY <2>2, <2>7
<1>3. ASSUME NEW u \in Bad PROVE After(f, u) \in Bad
  BY <1>1, <1>2, AfterIs, AfterSeated
<1>4. Bad = {}
  BY <1>1, <1>2, <1>3, WalksEnd, ShapeIs
<1>5. QED
  BY <1>1, <1>4

\* The names of a walk, those it has passed and those that are left.
All(w) == w.done \o w.todo
Straight(f, w) ==
  \A q \in Places : IsPrefix(q, All(w)) /\ Len(q) > Len(w.done) => f[q].t # "link"
Freely(f, X, d, r) ==
  /\ r.path \in Seq(Segment) /\ r.rest \in Seq(Segment) /\ r.err \in {"none", "notexist", "notdir"}
  /\ IsPrefix(d, r.path) /\ IsPrefix(r.path, X)
  /\ r.err = "none" => r.path = X /\ r.rest = <<>>
  /\ r.err = "notexist" => r.path \o r.rest = X /\ At(f, r.path).t = "none" /\ Len(r.path) > Len(d)
  /\ r.err = "notdir" => At(f, r.path).t = "file" /\ r.path # X

\* The next name of a walk lies between what it has reached and where it is going.
LEMMA NextIs ==
  ASSUME NEW w \in Walks, w.todo # <<>>
  PROVE  /\ All(w) \in Seq(Segment) /\ w.done \in Seq(Segment) /\ NextName(w) \in Seq(Segment)
         /\ Tail(w.todo) \in Seq(Segment) /\ NextName(w) \o Tail(w.todo) = All(w)
         /\ IsPrefix(w.done, NextName(w)) /\ IsPrefix(NextName(w), All(w))
         /\ Len(NextName(w)) = Len(w.done) + 1 /\ Front(NextName(w)) = w.done /\ Last(NextName(w)) = Head(w.todo)
         /\ Tail(w.todo) # <<>> => NextName(w) # All(w)
<1>1. /\ w.done \in Seq(Segment) /\ w.todo \in Seq(Segment) /\ NextName(w) \in Seq(Segment) /\ Tail(w.todo) \in Seq(Segment)
      /\ NextName(w) # <<>> /\ Front(NextName(w)) = w.done /\ NextName(w) \o Tail(w.todo) = All(w)
  BY WalkParts DEF All
<1>2. PICK d, q, t, s : d = w.done /\ q = NextName(w) /\ t = Tail(w.todo) /\ s = Head(w.todo)
                        /\ d \in Seq(Segment) /\ q \in Seq(Segment) /\ t \in Seq(Segment) /\ s \in Segment
  BY <1>1, SegParts
<1>3. q = Append(d, s)
  BY <1>2 DEF NextName
<1>4. Len(q) = Len(d) + 1 /\ Last(q) = s
  BY <1>2, <1>3 DEF Last
<1>5. IsPrefix(d, q) /\ Front(q) = d
  BY <1>1, <1>2, LastName
<1>6. IsPrefix(q, q \o t) /\ q \o t \in Seq(Segment) /\ Len(q \o t) = Len(q) + Len(t)
  BY <1>2, PrefixJoin
<1>7. t # <<>> => q # q \o t
  BY <1>2, ConcatEqualIffEmpty
<1>8. QED
  BY <1>1, <1>2, <1>4, <1>5, <1>6, <1>7

\* The result of a straight walk that has come to its end.
LEMMA FreeEnds ==
  ASSUME NEW f, Shape(f), NEW w \in Walks, Straight(f, w), Ends(f, w)
  PROVE  Freely(f, All(w), w.done, Resolve(f)[w])
<1>1. PICK r, d, t, X, q : /\ r = Resolve(f)[w] /\ d = w.done /\ t = w.todo /\ X = All(w) /\ q = NextName(w)
                           /\ d \in Seq(Segment) /\ t \in Seq(Segment) /\ X = d \o t
  BY WalkParts DEF All
<1>2. Ended(f, w, r)
  BY <1>1, EndIs
<1>3. <<>> \in Seq(Segment) /\ IsPrefix(d, d) /\ d \o <<>> = d
  BY <1>1, PrefixSelf
<1>4. CASE t = <<>>
  <2>1. r = [err |-> "none", path |-> d, rest |-> <<>>]
    BY <1>1, <1>2, <1>4 DEF Ended
  <2>2. X = d
    BY <1>1, <1>3, <1>4
  <2>3. Freely(f, X, d, r)
    BY <1>1, <1>3, <2>1, <2>2 DEF Freely
  <2>4. QED
    BY <1>1, <2>3
<1>5. CASE t # <<>>
  <2>1. /\ X \in Seq(Segment) /\ q \in Seq(Segment) /\ Tail(t) \in Seq(Segment) /\ q \o Tail(t) = X
        /\ IsPrefix(d, q) /\ IsPrefix(q, X) /\ Len(q) = Len(d) + 1 /\ (Tail(t) # <<>> => q # X)
    BY <1>1, <1>5, NextIs
  <2>2. Len(q) > Len(d)
    BY <1>1, <2>1
  <2>3. At(f, q).t # "link"
    <3>1. At(f, q).t = "link" => q \in Places /\ f[q].t = "link"
      BY AtIs DEF Shape
    <3>2. QED
      BY <1>1, <2>1, <2>2, <3>1 DEF Straight
  <2>4. CASE At(f, q).t = "none" /\ r = [err |-> "notexist", path |-> q, rest |-> Tail(t)]
    <3>1. Freely(f, X, d, r)
      BY <2>1, <2>2, <2>4 DEF Freely
    <3>2. QED
      BY <1>1, <3>1
  <2>5. CASE At(f, q).t = "file" /\ Tail(t) # <<>> /\ r = [err |-> "notdir", path |-> q, rest |-> <<>>]
    <3>1. Freely(f, X, d, r)
      BY <1>3, <2>1, <2>5 DEF Freely
    <3>2. QED
      BY <1>1, <3>1
  <2>6. QED
    BY <1>1, <1>2, <1>5, <2>3, <2>4, <2>5 DEF Ended
<1>6. QED
  BY <1>4, <1>5

\* A straight walk stays straight, with the same destination.
LEMMA FreeSteps ==
  ASSUME NEW f, Shape(f), NEW w \in Walks, Straight(f, w), ~Ends(f, w), NEW u, u = After(f, w)
  PROVE  /\ u \in Walks /\ Straight(f, u) /\ All(u) = All(w) /\ u.done = NextName(w) /\ u.todo = Tail(w.todo)
         /\ u.links = w.links /\ Resolve(f)[u] = Resolve(f)[w]
<1>1. PICK q : q = NextName(w)
  OBVIOUS
<1>2. w.todo # <<>> /\ q \in Places
  BY <1>1, AfterIs
<1>3. IsPrefix(q, All(w)) /\ Len(q) = Len(w.done) + 1 /\ q \o Tail(w.todo) = All(w)
  BY <1>1, <1>2, NextIs
<1>4. Len(w.done) \in Nat
  BY WalkParts
<1>5. f[q].t # "link"
  BY <1>2, <1>3, <1>4 DEF Straight
<1>6. u = [links |-> w.links, done |-> q, todo |-> Tail(w.todo)]
  BY <1>1, <1>5, AfterIs
<1>7. u.done = q /\ u.todo = Tail(w.todo) /\ u.links = w.links
  BY <1>6
<1>8. All(u) = All(w)
  BY <1>3, <1>7 DEF All
<1>9. Straight(f, u)
  <2>1. ASSUME NEW p \in Places, IsPrefix(p, All(u)), Len(p) > Len(u.done) PROVE f[p].t # "link"
    <3>1. Len(p) \in Nat
      BY PlacesAssumption
    <3>2. Len(p) > Len(w.done)
      BY <1>3, <1>4, <1>7, <2>1, <3>1
    <3>3. QED
      BY <1>8, <2>1, <3>2 DEF Straight
  <2>2. QED
    BY <2>1 DEF Straight
<1>10. QED
  BY <1>1, <1>7, <1>8, <1>9, AfterIs

\* A walk that meets no link stays on its names.
LEMMA Free ==
  ASSUME NEW f, Shape(f), NEW w \in Walks, Straight(f, w)
  PROVE  Freely(f, All(w), w.done, Resolve(f)[w])
<1>1. PICK Bad : Bad = {u \in Walks : Straight(f, u) /\ ~Freely(f, All(u), u.done, Resolve(f)[u])}
  OBVIOUS
<1>2. ASSUME NEW u \in Bad PROVE ~Ends(f, u)
  BY <1>1, FreeEnds
<1>3. ASSUME NEW u \in Bad PROVE After(f, u) \in Bad
  <2>1. PICK x : x = After(f, u)
    OBVIOUS
  <2>2. u \in Walks /\ Straight(f, u) /\ ~Ends(f, u)
    BY <1>1, <1>2
  <2>3. /\ x \in Walks /\ Straight(f, x) /\ All(x) = All(u) /\ x.done = NextName(u) /\ u.todo # <<>>
        /\ Resolve(f)[x] = Resolve(f)[u]
    <3>1. u.todo # <<>>
      BY <2>2, AfterIs
    <3>2. QED
      BY <2>1, <2>2, <3>1, FreeSteps
  <2>4. u.done \in Seq(Segment) /\ x.done \in Seq(Segment) /\ IsPrefix(u.done, x.done) /\ Len(x.done) = Len(u.done) + 1
    BY <2>2, <2>3, NextIs
  <2>5. SUFFICES ASSUME Freely(f, All(u), x.done, Resolve(f)[u]) PROVE Freely(f, All(u), u.done, Resolve(f)[u])
    BY <1>1, <2>1, <2>3
  <2>6. PICK r : r = Resolve(f)[u]
    OBVIOUS
  <2>7. r.path \in Seq(Segment) /\ IsPrefix(x.done, r.path)
    BY <2>5, <2>6 DEF Freely
  <2>8. IsPrefix(u.done, r.path)
    BY <2>4, <2>7, PrefixTrans
  <2>9. Len(r.path) > Len(x.done) => Len(r.path) > Len(u.done)
    <3>1. Len(r.path) \in Nat /\ Len(u.done) \in Nat
      BY <2>4, <2>7
    <3>2. QED
      BY <2>4, <3>1
  <2>10. QED
    BY <2>5, <2>6, <2>8, <2>9 DEF Freely
<1>4. Bad = {}
  BY <1>1, <1>2, <1>3, WalksEnd, ShapeIs
<1>5. QED
  BY <1>1, <1>4

\* Everything above an object that exists is a directory.
LEMMA TreeUp ==
  ASSUME NEW f, Tree(f), NEW p \in Places, f[p].t # "none", NEW q \in Seq(Segment), IsPrefix(q, p), q # p
  PROVE  q \in Places /\ f[q].t = "dir"
<1>1. PICK B : B = {x \in Places : f[x].t # "none" /\ IsPrefix(q, x) /\ q # x}
  OBVIOUS
<1>2. SUFFICES ASSUME ~(q \in Places /\ f[q].t = "dir") PROVE FALSE
  OBVIOUS
<1>3. PICK T : T = {Len(x) : x \in B}
  OBVIOUS
<1>4. B \subseteq Seq(Segment) /\ p \in B
  BY <1>1, PlacesAssumption
<1>5. T \subseteq Nat /\ T # {}
  BY <1>3, <1>4
<1>6. PICK n \in T : \A k \in T : ~(k < n)
  BY <1>5, Least
<1>7. PICK x \in B : Len(x) = n
  BY <1>3, <1>6
<1>8. x \in Places /\ x \in Seq(Segment) /\ f[x].t # "none" /\ IsPrefix(q, x) /\ q # x
  BY <1>1, <1>4, <1>7
<1>9. x # <<>>
  <2>1. SUFFICES ASSUME x = <<>> PROVE FALSE
    OBVIOUS
  <2>2. Len(x) = 0
    BY <2>1
  <2>3. Len(x) <= Len(q)
    BY <2>2
  <2>4. QED
    BY <1>8, <2>3, PrefixSame
<1>10. PICK y : y = Front(x) /\ y \in Seq(Segment) /\ Len(x) = Len(y) + 1 /\ (q = x \/ IsPrefix(q, y))
  BY <1>8, <1>9, LastName
<1>11. y \in Places /\ f[y].t = "dir"
  BY <1>8, <1>9, <1>10, PlacesAssumption DEF Tree
<1>12. y \in B
  BY <1>1, <1>2, <1>8, <1>10, <1>11
<1>13. Len(y) \in T /\ Len(y) \in Nat
  BY <1>3, <1>10, <1>12
<1>14. QED
  BY <1>6, <1>7, <1>10, <1>13

\* The walk that resolves a path.
From(p) == [links |-> MaxLinks, done |-> <<>>, todo |-> p]

\* A resolution starts at the root, so it finds an object or a directory in which one is missing.
LEMMA WalkIs ==
  ASSUME NEW f, Shape(f), NEW p \in Seq(Segment)
  PROVE  /\ From(p) \in Walks /\ Walk(f, p) = Resolve(f)[From(p)] /\ All(From(p)) = p /\ From(p).done = <<>>
         /\ From(p).todo = p /\ Seated(f, From(p)) /\ Found(f, Walk(f, p))
<1>1. From(p).done = <<>> /\ From(p).todo = p /\ From(p).links = MaxLinks
  BY DEF From
<1>2. MaxLinks \in 0..MaxLinks /\ <<>> \in Seq(Segment) /\ <<>> \o p = p
  BY PlacesAssumption, PrefixSelf
<1>3. From(p) \in Walks
  BY <1>2 DEF From, Walks
<1>4. Walk(f, p) = Resolve(f)[From(p)]
  BY DEF Walk, From
<1>5. Seated(f, From(p))
  BY <1>1, PlacesAssumption DEF Seated, Shape
<1>6. Found(f, Walk(f, p))
  BY <1>3, <1>4, <1>5, WalkFinds
<1>7. QED
  BY <1>1, <1>2, <1>3, <1>4, <1>5, <1>6 DEF All

\* A path on which there is no link is where it says.
LEMMA Plain ==
  ASSUME NEW f, Shape(f), NEW p \in Seq(Segment),
         \A q \in Places : IsPrefix(q, p) => f[q].t # "link"
  PROVE  Freely(f, p, <<>>, Walk(f, p))
<1>1. Straight(f, From(p))
  BY WalkIs DEF Straight
<1>2. QED
  BY <1>1, WalkIs, Free

\* An object that exists and is no link is found under its own path.
LEMMA Canon ==
  ASSUME NEW f, Shape(f), Tree(f), NEW p \in Places, f[p].t \in {"dir", "file"}
  PROVE  Walk(f, p) = [err |-> "none", path |-> p, rest |-> <<>>]
<1>1. p \in Seq(Segment)
  BY PlacesAssumption
<1>2. ASSUME NEW q \in Seq(Segment), IsPrefix(q, p), q # p PROVE q \in Places /\ f[q].t = "dir" /\ At(f, q).t = "dir"
  BY <1>1, <1>2, TreeUp DEF At
<1>3. PICK r : r = Walk(f, p) /\ Found(f, r)
  BY <1>1, WalkIs
<1>4. \A q \in Places : IsPrefix(q, p) => f[q].t # "link"
  BY <1>2, PlacesAssumption
<1>5. Freely(f, p, <<>>, r)
  BY <1>1, <1>3, <1>4, Plain
<1>6. r.path \in Seq(Segment) /\ IsPrefix(r.path, p) /\ At(f, p).t \in {"dir", "file"}
  BY <1>5 DEF Freely, At
<1>7. r.err = "none"
  BY <1>2, <1>5, <1>6 DEF Freely
<1>8. r.path = p /\ r.rest = <<>>
  BY <1>5, <1>7 DEF Freely
<1>9. QED
  BY <1>3, <1>7, <1>8 DEF Found

\* g holds what f holds, and may hold more.
Extends(f, g) == \A q \in Places : f[q].t # "none" => g[q] = f[q]

\* A walk that finds an object finds the same one when objects were only added.
LEMMA Keeps ==
  ASSUME NEW f, Shape(f), NEW g, Shape(g), Extends(f, g), NEW w \in Walks, Resolve(f)[w].err = "none"
  PROVE  Resolve(g)[w] = Resolve(f)[w]
<1>1. PICK Bad : Bad = {u \in Walks : Resolve(f)[u].err = "none" /\ Resolve(g)[u] # Resolve(f)[u]}
  OBVIOUS
<1>2. ASSUME NEW u \in Bad PROVE ~Ends(f, u) /\ After(f, u) \in Bad
  <2>1. u \in Walks /\ Resolve(f)[u].err = "none" /\ Resolve(g)[u] # Resolve(f)[u]
    BY <1>1
  <2>2. ~Ends(f, u)
    <3>1. SUFFICES ASSUME Ends(f, u) PROVE FALSE
      OBVIOUS
    <3>2. PICK r : r = Resolve(f)[u] /\ Ended(f, u, r)
      BY <2>1, <3>1, EndIs
    <3>3. u.todo = <<>> /\ r = [err |-> "none", path |-> u.done, rest |-> <<>>]
      BY <2>1, <3>2 DEF Ended
    <3>4. Ends(g, u)
      BY <3>3 DEF Ends
    <3>5. PICK s : s = Resolve(g)[u] /\ Ended(g, u, s)
      BY <2>1, <3>4, EndIs
    <3>6. s = r
      BY <3>3, <3>5 DEF Ended
    <3>7. QED
      BY <2>1, <3>2, <3>5, <3>6
  <2>3. PICK q : q = NextName(u) /\ q \in Places /\ At(f, q) = f[q] /\ f[q].t \in {"dir", "file", "link"}
    BY <2>1, <2>2, AfterIs
  <2>4. At(g, q) = At(f, q)
    BY <2>3 DEF Extends, At
  <2>5. ~Ends(g, u) /\ After(g, u) = After(f, u)
    BY <2>2, <2>3, <2>4 DEF Ends, After
  <2>6. After(f, u) \in Walks /\ Resolve(f)[After(f, u)] = Resolve(f)[u]
    BY <2>1, <2>2, AfterIs
  <2>7. Resolve(g)[After(g, u)] = Resolve(g)[u]
    BY <2>1, <2>5, AfterIs
  <2>8. QED
    BY <1>1, <2>1, <2>2, <2>5, <2>6, <2>7
<1>3. Bad = {}
  BY <1>1, <1>2, WalksEnd, ShapeIs
<1>4. QED
  BY <1>1, <1>3

\* A walk with more names behind its own.
Plus(w, b) == [links |-> w.links, done |-> w.done, todo |-> w.todo \o b]
Stand(m, d, t) == [links |-> m, done |-> d, todo |-> t]

\* A walk that has reached d, with the names t left and m links.
LEMMA StandIs ==
  ASSUME NEW m \in 0..MaxLinks, NEW d \in Seq(Segment), NEW t \in Seq(Segment)
  PROVE  /\ Stand(m, d, t) \in Walks /\ Stand(m, d, t).links = m /\ Stand(m, d, t).done = d /\ Stand(m, d, t).todo = t
         /\ All(Stand(m, d, t)) = d \o t
  BY DEF Stand, Walks, All

\* More names at the end of a path do not change the step of its walk.
LEMMA PlusSteps ==
  ASSUME NEW f, Shape(f), NEW w \in Walks, ~Ends(f, w), NEW b \in Seq(Segment),
         f[NextName(w)].t # "file"
  PROVE  Plus(w, b) \in Walks /\ Resolve(f)[Plus(w, b)] = Resolve(f)[Plus(After(f, w), b)]
<1>1. PICK l, d, t, q : /\ l = w.links /\ d = w.done /\ t = w.todo /\ q = NextName(w)
                        /\ l \in 0..MaxLinks /\ d \in Seq(Segment) /\ t \in Seq(Segment)
  BY WalkParts
<1>2. /\ t # <<>> /\ q \in Places /\ At(f, q) = f[q] /\ f[q].t \in {"dir", "link"}
      /\ (f[q].t = "link" => l # 0)
  BY <1>1, AfterIs
<1>3. PICK y : y = Plus(w, b)
  OBVIOUS
<1>4. t \o b \in Seq(Segment) /\ t \o b # <<>> /\ Head(t \o b) = Head(t) /\ Tail(t \o b) = Tail(t) \o b
  <2>1. t \in Seq(Segment) /\ t # <<>>
    BY <1>1, <1>2
  <2>2. t \o b \in Seq(Segment)
    BY <2>1, PrefixJoin
  <2>3. \A d2 \in Seq(Segment) : t \o d2 # <<>> /\ Head(t \o d2) = Head(t) /\ Tail(t \o d2) = Tail(t) \o d2
    BY <2>1, SegParts, Zenon
  <2>4. QED
    BY <2>2, <2>3, Zenon
<1>5. y = Stand(l, d, t \o b) /\ y \in Walks /\ y.links = l /\ y.done = d /\ y.todo = t \o b
  BY <1>1, <1>3, <1>4, StandIs DEF Plus, Stand
<1>6. NextName(y) = q
  BY <1>1, <1>4, <1>5 DEF NextName
<1>7. ~Ends(f, y)
  BY <1>2, <1>4, <1>5, <1>6 DEF Ends
<1>8. After(f, y) = Plus(After(f, w), b)
  <2>1. CASE f[q].t = "link"
    <3>1. PICK to : to = f[q].to /\ to \in Seq(Segment)
      BY <1>2, <2>1, ShapeIs DEF LinkTyped
    <3>2. After(f, w) = [links |-> l - 1, done |-> <<>>, todo |-> to \o Tail(t)]
      BY <1>1, <1>2, <2>1, <3>1 DEF After
    <3>3. After(f, y) = [links |-> l - 1, done |-> <<>>, todo |-> to \o (Tail(t) \o b)]
      BY <1>2, <1>4, <1>5, <1>6, <2>1, <3>1 DEF After
    <3>4. PICK c : c = Tail(t) /\ c \in Seq(Segment)
      BY <1>1, <1>2, SegParts
    <3>5. to \o (c \o b) = (to \o c) \o b
      <4>1. to \in Seq(Segment) /\ c \in Seq(Segment)
        BY <3>1, <3>4, Zenon
      <4>2. QED
        BY <4>1, Regroup
    <3>6. PICK z : z = After(f, w)
      OBVIOUS
    <3>7. z.links = l - 1 /\ z.done = <<>> /\ z.todo = to \o c
      BY <3>2, <3>4, <3>6
    <3>8. Plus(z, b) = [links |-> l - 1, done |-> <<>>, todo |-> (to \o c) \o b]
      BY <3>7 DEF Plus
    <3>9. After(f, y) = [links |-> l - 1, done |-> <<>>, todo |-> to \o (c \o b)]
      BY <3>3, <3>4
    <3>10. QED
      BY <3>5, <3>6, <3>8, <3>9, Zenon
  <2>2. CASE f[q].t # "link"
    <3>1. After(f, w) = [links |-> l, done |-> q, todo |-> Tail(t)]
      BY <1>1, <1>2, <2>2 DEF After
    <3>2. After(f, y) = [links |-> l, done |-> q, todo |-> Tail(t) \o b]
      BY <1>2, <1>4, <1>5, <1>6, <2>2 DEF After
    <3>3. QED
      BY <3>1, <3>2 DEF Plus
  <2>3. QED
    BY <2>1, <2>2
<1>9. Resolve(f)[After(f, y)] = Resolve(f)[y]
  BY <1>5, <1>7, AfterIs
<1>10. QED
  BY <1>3, <1>5, <1>8, <1>9, Zenon

\* Where the walk of the names before has come to, the names behind start.
LEMMA Split ==
  ASSUME NEW f, Shape(f), NEW w \in Walks, NEW b \in Seq(Segment), NEW P,
         Resolve(f)[w].err = "none", Resolve(f)[w].path = P, f[P].t = "dir"
  PROVE  \E m \in 0..MaxLinks : Resolve(f)[Plus(w, b)] = Resolve(f)[Stand(m, P, b)]
<1> DEFINE Goal(u) == \E m \in 0..MaxLinks : Resolve(f)[Plus(u, b)] = Resolve(f)[Stand(m, P, b)]
<1>1. PICK Bad : Bad = {u \in Walks : Resolve(f)[u].err = "none" /\ Resolve(f)[u].path = P /\ ~Goal(u)}
  OBVIOUS
<1>2. ASSUME NEW u \in Walks, u \in Bad PROVE ~Ends(f, u)
  <2>1. SUFFICES ASSUME Ends(f, u) PROVE FALSE
    OBVIOUS
  <2>2. PICK r : r = Resolve(f)[u] /\ Ended(f, u, r)
    BY <2>1, EndIs
  <2>3. r.err = "none" /\ r.path = P /\ ~Goal(u)
    BY <1>1, <1>2, <2>2
  <2>4. u.todo = <<>> /\ u.done = P
    BY <2>2, <2>3 DEF Ended
  <2>5. <<>> \o b = b /\ u.links \in 0..MaxLinks
    BY PrefixSelf, WalkParts
  <2>6. Plus(u, b) = Stand(u.links, P, b)
    BY <2>4, <2>5 DEF Plus, Stand
  <2>7. QED
    BY <2>3, <2>5, <2>6
<1>3. ASSUME NEW u \in Walks, u \in Bad PROVE After(f, u) \in Bad
  <2>1. ~Ends(f, u) /\ Resolve(f)[u].err = "none" /\ Resolve(f)[u].path = P /\ ~Goal(u)
    BY <1>1, <1>2, <1>3
  <2>2. PICK x, q : x = After(f, u) /\ q = NextName(u) /\ x \in Walks /\ Resolve(f)[x] = Resolve(f)[u]
    <3>1. After(f, u) \in Walks /\ Resolve(f)[After(f, u)] = Resolve(f)[u]
      BY <2>1, AfterIs
    <3>2. QED
      BY <3>1
  <2>3. f[q].t # "file"
    <3>1. SUFFICES ASSUME f[q].t = "file" PROVE FALSE
      OBVIOUS
    <3>2. x = [links |-> u.links, done |-> q, todo |-> Tail(u.todo)] /\ Tail(u.todo) = <<>>
      BY <2>1, <2>2, <3>1, AfterIs
    <3>3. x.done = q /\ x.todo = <<>>
      BY <3>2
    <3>4. Ends(f, x)
      BY <3>3 DEF Ends
    <3>5. Ended(f, x, Resolve(f)[x])
      BY <2>2, <3>4, EndIs
    <3>6. Resolve(f)[x].path = q
      BY <3>3, <3>5 DEF Ended
    <3>7. QED
      BY <2>1, <2>2, <3>1, <3>6
  <2>4. Resolve(f)[Plus(u, b)] = Resolve(f)[Plus(x, b)]
    BY <2>1, <2>2, <2>3, PlusSteps
  <2>5. ~Goal(x)
    BY <2>1, <2>4
  <2>6. QED
    BY <1>1, <2>1, <2>2, <2>5
<1> HIDE DEF Goal
<1>4. Bad \subseteq Walks /\ \A u \in Bad : ~Ends(f, u) /\ After(f, u) \in Bad
  BY <1>1, <1>2, <1>3
<1>5. Bad = {}
  BY <1>4, WalksEnd, ShapeIs
<1>6. Goal(w)
  BY <1>1, <1>5
<1>7. QED
  BY <1>6 DEF Goal

\* A path is resolved by resolving its beginning, and the rest from there.
LEMMA WalkSplit ==
  ASSUME NEW f, Shape(f), NEW a \in Seq(Segment), NEW b \in Seq(Segment), NEW P,
         Walk(f, a).err = "none", Walk(f, a).path = P, f[P].t = "dir"
  PROVE  \E m \in 0..MaxLinks : Walk(f, a \o b) = Resolve(f)[Stand(m, P, b)]
<1>1. a \o b \in Seq(Segment)
  BY PrefixJoin
<1>2. Plus(From(a), b) = From(a \o b)
  BY DEF Plus, From
<1>3. From(a) \in Walks /\ Walk(f, a) = Resolve(f)[From(a)] /\ Walk(f, a \o b) = Resolve(f)[From(a \o b)]
  BY <1>1, WalkIs
<1>4. \E m \in 0..MaxLinks : Resolve(f)[Plus(From(a), b)] = Resolve(f)[Stand(m, P, b)]
  BY <1>3, Split
<1>5. QED
  BY <1>2, <1>3, <1>4

-----------------------------------------
(* The file system at the start, and the walks below the home directory *)

\* The paths of the instance, and how they lie.
LEMMA Lie ==
  /\ Home \in Seq(Segment) /\ Alias \in Seq(Segment) /\ Outside \in Seq(Segment)
  /\ Home \in Places /\ Alias \in Places /\ Outside \in Places
  /\ Home # <<>> /\ Alias # <<>> /\ Outside # <<>> /\ Home # Alias /\ Home # Outside /\ Alias # Outside
  /\ ~IsPrefix(Home, Alias) /\ ~IsPrefix(Alias, Home) /\ ~IsPrefix(Home, Outside) /\ ~IsPrefix(Outside, Home)
  /\ ~IsPrefix(Alias, Outside) /\ ~IsPrefix(Outside, Alias)
<1>1. /\ Home \in Seq(Segment) /\ Alias \in Seq(Segment) /\ Outside \in Seq(Segment)
      /\ Home \in Places /\ Alias \in Places /\ Outside \in Places
  BY PlacesAssumption, WorkspaceAssumption
<1>2. /\ ~IsPrefix(Home, Alias) /\ ~IsPrefix(Alias, Home) /\ ~IsPrefix(Home, Outside) /\ ~IsPrefix(Outside, Home)
      /\ ~IsPrefix(Alias, Outside) /\ ~IsPrefix(Outside, Alias)
  BY WorkspaceAssumption DEF Apart
<1>3. /\ IsPrefix(Home, Home) /\ IsPrefix(Alias, Alias) /\ IsPrefix(Outside, Outside)
      /\ IsPrefix(<<>>, Home) /\ IsPrefix(<<>>, Alias) /\ IsPrefix(<<>>, Outside)
  BY <1>1, PrefixSelf
<1>4. QED
  BY <1>1, <1>2, <1>3, Zenon

\* The file system at the start, case by case.
LEMMA InitiallyIs ==
  ASSUME NEW p \in Places
  PROVE  /\ p = Alias => Initially[p] = Link(Home)
         /\ p # Alias /\ (\E q \in {Home, Alias, Outside} : IsPrefix(p, q)) => Initially[p] = Dir
         /\ p # Alias /\ ~(\E q \in {Home, Alias, Outside} : IsPrefix(p, q)) /\ Front(p) = Outside =>
              Initially[p] = File(<<"x">>, "rw")
         /\ p # Alias /\ ~(\E q \in {Home, Alias, Outside} : IsPrefix(p, q)) /\ Front(p) # Outside => Initially[p] = None
  BY Zenon DEF Initially

\* The file system at the start is a tree, whose only link is the alias.
LEMMA InitiallyTree == Tree(Initially) /\ LinksLead(Initially) /\ Initially[Home] = Dir
<1>1. Initially[Home] = Dir
  BY Lie, InitiallyIs, PrefixSelf
<1>2. ASSUME NEW p \in Places, p # <<>>, Initially[p].t # "none" PROVE Initially[Front(p)].t = "dir"
  <2>1. p \in Seq(Segment) /\ Front(p) \in Places
    BY <1>2, PlacesAssumption
  <2>2. PICK y : y = Front(p) /\ y \in Seq(Segment) /\ IsPrefix(y, p) /\ y # p
    BY <1>2, <2>1, LastName
  <2>3. CASE \E q \in {Home, Alias, Outside} : IsPrefix(p, q)
    <3>1. PICK q \in {Home, Alias, Outside} : IsPrefix(p, q)
      BY <2>3
    <3>2. q \in Seq(Segment) /\ IsPrefix(y, q)
      <4>1. q \in Seq(Segment)
        BY Lie
      <4>2. QED
        BY <2>1, <2>2, <3>1, <4>1, PrefixTrans
    <3>3. y # Alias
      <4>1. SUFFICES ASSUME y = Alias PROVE FALSE
        OBVIOUS
      <4>2. q = Alias
        BY <3>1, <3>2, <4>1, Lie
      <4>3. Len(p) <= Len(y) /\ Len(y) <= Len(p)
        BY <2>1, <2>2, <3>1, <3>2, <4>1, <4>2, PrefixSame
      <4>4. QED
        BY <2>1, <2>2, <4>3, PrefixSame
    <3>4. y \in Places
      BY <2>1, <2>2
    <3>5. Initially[y] = Dir
      BY <3>1, <3>2, <3>3, <3>4, InitiallyIs
    <3>6. QED
      BY <2>2, <3>5, NodesHold
  <2>4. CASE ~ \E q \in {Home, Alias, Outside} : IsPrefix(p, q)
    <3>1. p # Alias
      BY <2>4, Lie, PrefixSelf
    <3>2. y = Outside
      BY <1>2, <2>2, <2>4, <3>1, InitiallyIs, NodesHold
    <3>3. Initially[y] = Dir
      BY <3>2, Lie, InitiallyIs, PrefixSelf
    <3>4. QED
      BY <2>2, <3>3, NodesHold
  <2>5. QED
    BY <2>3, <2>4
<1>3. ASSUME NEW p \in Places, Initially[p].t = "link" PROVE p = Alias
  <2>1. File(<<"x">>, "rw").t = "file"
    BY DEF File
  <2>2. QED
    BY <1>3, <2>1, InitiallyIs, NodesHold
<1>4. QED
  BY <1>1, <1>2, <1>3 DEF Tree, LinksLead

\* An object outside the home directory: as it was at the start, or a new file.
AtStart(f, p) == f[p] = Initially[p] \/ (Initially[p].t = "none" /\ f[p].t = "file")

\* What the invariant says of a file system.
LEMMA Ground ==
  ASSUME NEW f, FsInv(f)
  PROVE  /\ Shape(f) /\ Typed(f) /\ Tree(f) /\ f[Home].t \in {"dir", "none"} /\ f[Alias] = Link(Home)
         /\ \A p \in Seq(Segment) : (IsPrefix(p, Home) /\ p # Home) \/ (IsPrefix(p, Alias) /\ p # Alias) =>
              p \in Places /\ f[p].t = "dir"
         /\ \A p \in Places : f[p].t = "link" => p = Alias \/ (p = LinkPlace /\ f[p].to \in Targets)
         /\ \A p \in Places : ~IsPrefix(Home, p) => AtStart(f, p)
<1>1. /\ Typed(f) /\ Tree(f) /\ f[Home].t \in {"dir", "none"}
      /\ \A p \in Places : ~IsPrefix(Home, p) => AtStart(f, p)
      /\ \A p \in Places : f[p].t = "link" => p = Alias \/ (p = LinkPlace /\ f[p].to \in Targets)
  BY DEF FsInv, Typed, isUnderDir, LinksLead, AtStart
<1>2. f[Alias] = Link(Home)
  BY <1>1, Lie, InitiallyIs DEF AtStart, Link
<1>3. ASSUME NEW p \in Seq(Segment), IsPrefix(p, Home), p # Home PROVE p \in Places /\ f[p].t = "dir"
  <2>1. Initially[Home].t # "none"
    BY InitiallyTree, NodesHold
  <2>2. p \in Places /\ Initially[p].t = "dir"
    BY <1>3, <2>1, InitiallyTree, TreeUp, Lie
  <2>3. ~IsPrefix(Home, p)
    <3>1. SUFFICES ASSUME IsPrefix(Home, p) PROVE FALSE
      OBVIOUS
    <3>2. Len(p) <= Len(Home) /\ Len(Home) <= Len(p)
      BY <1>3, <3>1, Lie, PrefixSame
    <3>3. QED
      BY <1>3, <3>2, Lie, PrefixSame
  <2>4. QED
    BY <1>1, <2>2, <2>3 DEF AtStart
<1>4. ASSUME NEW p \in Seq(Segment), IsPrefix(p, Alias), p # Alias PROVE p \in Places /\ f[p].t = "dir"
  <2>1. f[Alias].t # "none"
    BY <1>2 DEF Link
  <2>2. QED
    BY <1>1, <1>4, <2>1, TreeUp, Lie
<1>5. f[<<>>].t = "dir"
  BY <1>3, Lie, PrefixSelf
<1>6. QED
  BY <1>1, <1>2, <1>3, <1>4, <1>5 DEF Shape

\* A walk that starts at the root.
LEMMA StartIs ==
  ASSUME NEW m \in 0..MaxLinks, NEW p \in Seq(Segment)
  PROVE  /\ Stand(m, <<>>, p) \in Walks /\ All(Stand(m, <<>>, p)) = p /\ Stand(m, <<>>, p).done = <<>>
<1>1. <<>> \in Seq(Segment) /\ <<>> \o p = p
  BY PrefixSelf
<1>2. Stand(m, <<>>, p).done = <<>> /\ Stand(m, <<>>, p).todo = p
  BY DEF Stand
<1>3. Stand(m, <<>>, p) \in Walks
  BY <1>1 DEF Stand, Walks
<1>4. QED
  BY <1>1, <1>2, <1>3 DEF All

\* A path on which there is no link is where it says, with however many links left.
LEMMA PlainFrom ==
  ASSUME NEW f, Shape(f), NEW p \in Seq(Segment), \A q \in Places : IsPrefix(q, p) => f[q].t # "link", NEW m \in 0..MaxLinks
  PROVE  Freely(f, p, <<>>, Resolve(f)[Stand(m, <<>>, p)])
<1>1. PICK w : w = Stand(m, <<>>, p) /\ w \in Walks /\ All(w) = p /\ w.done = <<>>
  BY StartIs
<1>2. Straight(f, w)
  BY <1>1 DEF Straight
<1>3. QED
  BY <1>1, <1>2, Free

\* With however many links left, an object that exists is found under its own path.
LEMMA CanonFrom ==
  ASSUME NEW f, Shape(f), Tree(f), NEW p \in Places, f[p].t \in {"dir", "file"}, NEW m \in 0..MaxLinks
  PROVE  Resolve(f)[Stand(m, <<>>, p)].err = "none"
<1>1. p \in Seq(Segment)
  BY PlacesAssumption
<1>2. ASSUME NEW q \in Seq(Segment), IsPrefix(q, p), q # p PROVE q \in Places /\ f[q].t = "dir" /\ At(f, q).t = "dir"
  BY <1>1, <1>2, TreeUp DEF At
<1>3. \A q \in Places : IsPrefix(q, p) => f[q].t # "link"
  BY <1>2, PlacesAssumption
<1>4. PICK r : r = Resolve(f)[Stand(m, <<>>, p)] /\ Freely(f, p, <<>>, r)
  BY <1>1, <1>3, PlainFrom
<1>5. r.path \in Seq(Segment) /\ IsPrefix(r.path, p) /\ At(f, p).t \in {"dir", "file"}
  BY <1>4 DEF Freely, At
<1>6. r.err = "none"
  BY <1>2, <1>4, <1>5 DEF Freely
<1>7. QED
  BY <1>4, <1>6

\* The names of a walk lead below the home directory.
Homeward(w) == IsPrefix(Home, All(w))

\* A walk towards the home directory or below it stays so, and does not meet the alias.
LEMMA HomewardNext ==
  ASSUME NEW f, FsInv(f), NEW w \in Walks, Homeward(w), w.todo # <<>>, NEW q, q = NextName(w)
  PROVE  /\ IsPrefix(Home, q) \/ (IsPrefix(q, Home) /\ q # Home /\ q \in Places /\ f[q].t = "dir")
         /\ q # Alias
<1>1. q \in Seq(Segment) /\ All(w) \in Seq(Segment) /\ IsPrefix(q, All(w))
  BY NextIs
<1>2. IsPrefix(Home, q) \/ IsPrefix(q, Home)
  BY <1>1, Lie, PrefixBoth DEF Homeward
<1>3. q = Home => IsPrefix(Home, q)
  BY Lie, PrefixSelf
<1>4. IsPrefix(q, Home) /\ q # Home => q \in Places /\ f[q].t = "dir"
  BY <1>1, Ground
<1>5. q # Alias
  BY <1>2, Lie
<1>6. QED
  BY <1>2, <1>3, <1>4, <1>5

\* If links lead below the home directory, such a walk ends there when it misses something.
LEMMA Inward ==
  ASSUME NEW f, FsInv(f), f[LinkPlace].t = "link" => IsPrefix(Home, f[LinkPlace].to),
         NEW w \in Walks, Homeward(w), Resolve(f)[w].err = "notexist"
  PROVE  IsPrefix(Home, Resolve(f)[w].path)
<1>1. PICK Bad : Bad = {u \in Walks : Homeward(u) /\ Resolve(f)[u].err = "notexist" /\ ~IsPrefix(Home, Resolve(f)[u].path)}
  OBVIOUS
<1>2. Shape(f)
  BY Ground
<1>3. ASSUME NEW u \in Walks, u \in Bad PROVE ~Ends(f, u)
  <2>1. SUFFICES ASSUME Ends(f, u) PROVE FALSE
    OBVIOUS
  <2>2. PICK r : r = Resolve(f)[u] /\ Ended(f, u, r)
    BY <1>2, <2>1, EndIs
  <2>3. Homeward(u) /\ r.err = "notexist" /\ ~IsPrefix(Home, r.path)
    BY <1>1, <1>3, <2>2
  <2>4. u.todo # <<>> /\ At(f, NextName(u)).t = "none" /\ r.path = NextName(u)
    BY <2>2, <2>3 DEF Ended
  <2>5. PICK q : q = NextName(u) /\ q \in Places /\ f[q].t = "dir"
    BY <2>3, <2>4, HomewardNext
  <2>6. QED
    BY <2>4, <2>5 DEF At
<1>4. ASSUME NEW u \in Walks, u \in Bad PROVE After(f, u) \in Bad
  <2>1. ~Ends(f, u) /\ Homeward(u)
    BY <1>1, <1>3, <1>4
  <2>2. After(f, u) \in Walks /\ Resolve(f)[After(f, u)] = Resolve(f)[u]
    BY <1>2, <2>1, AfterIs
  <2>3. PICK x, q, t : x = After(f, u) /\ q = NextName(u) /\ t = Tail(u.todo)
    OBVIOUS
  <2>4. u.todo # <<>> /\ q \in Places
    BY <1>2, <2>1, <2>3, AfterIs
  <2>5. t \in Seq(Segment) /\ q \o t = All(u)
    BY <2>3, <2>4, NextIs
  <2>6. Homeward(x)
    <3>1. CASE f[q].t = "link"
      <4>1. q # Alias
        BY <2>1, <2>3, <2>4, HomewardNext
      <4>2. q = LinkPlace
        BY <2>4, <3>1, <4>1, Ground
      <4>3. PICK to : to = f[q].to /\ to \in Seq(Segment)
        BY <1>2, <2>4, <3>1, ShapeIs DEF LinkTyped
      <4>4. IsPrefix(Home, to)
        BY <3>1, <4>2, <4>3
      <4>5. x.done = <<>> /\ x.todo = to \o t
        <5>1. x = [links |-> u.links - 1, done |-> <<>>, todo |-> f[q].to \o t]
          BY <1>2, <2>1, <2>3, <3>1, AfterIs
        <5>2. QED
          BY <4>3, <5>1
      <4>6. IsPrefix(to, to \o t) /\ to \o t \in Seq(Segment)
        BY <2>5, <4>3, PrefixJoin
      <4>7. IsPrefix(Home, to \o t)
        BY <4>3, <4>4, <4>6, PrefixTrans, Lie
      <4>8. All(x) = to \o t
        BY <4>5, <4>6, PrefixSelf DEF All
      <4>9. QED
        BY <4>7, <4>8 DEF Homeward
    <3>2. CASE f[q].t # "link"
      <4>1. x = [links |-> u.links, done |-> q, todo |-> t]
        BY <1>2, <2>1, <2>3, <3>2, AfterIs
      <4>2. All(x) = q \o t
        BY <4>1 DEF All
      <4>3. QED
        BY <2>1, <2>5, <4>2 DEF Homeward
    <3>3. QED
      BY <3>1, <3>2
  <2>7. QED
    BY <1>1, <1>4, <2>2, <2>3, <2>6
<1>5. Bad \subseteq Walks /\ \A u \in Bad : ~Ends(f, u) /\ After(f, u) \in Bad
  BY <1>1, <1>3, <1>4
<1>6. Bad = {}
  BY <1>2, <1>5, WalksEnd, ShapeIs
<1>7. QED
  BY <1>1, <1>6

\* A name between two paths belongs to either.
LEMMA Rejoin ==
  ASSUME NEW a \in Seq(Segment), NEW x \in Segment, NEW c \in Seq(Segment), NEW b, b = <<x>> \o c
  PROVE  b \in Seq(Segment) /\ b # <<>> /\ Head(b) = x /\ Tail(b) = c /\ a \o b = Append(a, x) \o c
<1>1. b \in Seq(Segment) /\ b # <<>> /\ Head(b) = x /\ Tail(b) = c
  OBVIOUS
<1>2. a \o b = Append(a, x) \o c
  OBVIOUS
<1>3. QED
  BY <1>1, <1>2

\* Behind the alias a walk starts again at the home directory.
LEMMA AliasWalk ==
  ASSUME NEW f, FsInv(f), NEW rel \in Seq(Segment)
  PROVE  \/ Walk(f, Alias \o rel).err = "loop"
         \/ \E m \in 0..MaxLinks : Walk(f, Alias \o rel) = Resolve(f)[Stand(m, <<>>, Home \o rel)]
<1>1. PICK a, x : a = Front(Alias) /\ x = Last(Alias) /\ a \in Seq(Segment) /\ x \in Segment /\ Alias = Append(a, x)
                  /\ IsPrefix(a, Alias) /\ a # Alias
  BY Lie, LastName
<1>2. a \in Places /\ f[a].t = "dir" /\ Shape(f) /\ Tree(f)
  BY <1>1, Ground
<1>3. Walk(f, a).err = "none" /\ Walk(f, a).path = a
  BY <1>2, Canon
<1>4. PICK b : b \in Seq(Segment) /\ b # <<>> /\ Head(b) = x /\ Tail(b) = rel /\ a \o b = Alias \o rel
  <2>1. a \in Seq(Segment) /\ x \in Segment
    BY <1>1
  <2>2. PICK b : b = <<x>> \o rel
    OBVIOUS
  <2>3. b \in Seq(Segment) /\ b # <<>> /\ Head(b) = x /\ Tail(b) = rel /\ a \o b = Append(a, x) \o rel
    BY <2>1, <2>2, Rejoin
  <2>4. QED
    BY <1>1, <2>3, Zenon
<1>5. PICK m \in 0..MaxLinks : Walk(f, Alias \o rel) = Resolve(f)[Stand(m, a, b)]
  <2>1. a \in Seq(Segment) /\ b \in Seq(Segment) /\ Walk(f, a).err = "none" /\ Walk(f, a).path = a /\ f[a].t = "dir" /\ Shape(f)
    BY <1>1, <1>2, <1>3, <1>4
  <2>2. \E m \in 0..MaxLinks : Walk(f, a \o b) = Resolve(f)[Stand(m, a, b)]
    BY <2>1, WalkSplit
  <2>3. QED
    BY <1>4, <2>2, Zenon
<1>6. PICK w : w = Stand(m, a, b) /\ w \in Walks /\ w.links = m /\ w.done = a /\ w.todo = b
  <2>1. a \in Seq(Segment) /\ b \in Seq(Segment) /\ m \in 0..MaxLinks
    BY <1>1, <1>4, <1>5
  <2>2. Stand(m, a, b) \in Walks /\ Stand(m, a, b).links = m /\ Stand(m, a, b).done = a /\ Stand(m, a, b).todo = b
    BY <2>1, StandIs
  <2>3. QED
    BY <2>2, Zenon
<1>7. NextName(w) = Alias
  BY <1>1, <1>4, <1>6 DEF NextName
<1>8. At(f, Alias).t = "link" /\ At(f, Alias).to = Home /\ f[Alias].t = "link" /\ f[Alias].to = Home
  <2>1. f[Alias] = Link(Home) /\ At(f, Alias) = f[Alias]
    BY Ground, AtIs, Lie
  <2>2. QED
    BY <2>1 DEF Link
<1>9. CASE m = 0
  <2>1. Ends(f, w)
    BY <1>6, <1>7, <1>8, <1>9 DEF Ends
  <2>2. Ended(f, w, Resolve(f)[w])
    BY <1>2, <1>6, <2>1, EndIs
  <2>3. Resolve(f)[w].err = "loop"
    BY <1>4, <1>6, <1>7, <1>8, <2>2 DEF Ended
  <2>4. QED
    BY <1>5, <1>6, <2>3
<1>10. CASE m # 0
  <2>1. ~Ends(f, w)
    BY <1>4, <1>6, <1>7, <1>8, <1>10 DEF Ends
  <2>2. /\ After(f, w) = [links |-> w.links - 1, done |-> <<>>, todo |-> f[NextName(w)].to \o Tail(w.todo)]
        /\ Resolve(f)[After(f, w)] = Resolve(f)[w]
    BY <1>2, <1>6, <1>7, <1>8, <2>1, AfterIs
  <2>3. After(f, w) = Stand(m - 1, <<>>, Home \o rel)
    BY <1>4, <1>6, <1>7, <1>8, <2>2 DEF Stand
  <2>4. m - 1 \in 0..MaxLinks
    BY <1>5, <1>10, PlacesAssumption
  <2>5. QED
    BY <1>5, <1>6, <2>2, <2>3, <2>4
<1>11. QED
  BY <1>9, <1>10

-----------------------------------------
(* Path validation *)

\* The rounds of filepath.Clean.
IsCleaning(segs, s) ==
  s = [k \in 0..Len(segs) |-> IF k = 0 THEN <<>> ELSE CleanName(s[k - 1], segs[k])]

\* The rounds of filepath.Clean are a recursive function, which has a value.
LEMMA CleanIs ==
  ASSUME NEW segs, Len(segs) \in Nat
  PROVE  \E s : IsCleaning(segs, s) /\ Clean(segs) = s[Len(segs)]
<1> DEFINE Rounds(m, s) == s = [k \in 0..m |-> IF k = 0 THEN <<>> ELSE CleanName(s[k - 1], segs[k])]
           G == {m \in Nat : \E s : Rounds(m, s)}
<1>1. 0 \in G
  <2>1. PICK s : s = [k \in 0..0 |-> <<>>]
    OBVIOUS
  <2>2. Rounds(0, s)
    BY <2>1
  <2>3. QED
    BY <2>2
<1>2. ASSUME NEW m \in 1..Len(segs), m - 1 \in G PROVE m \in G
  <2>1. PICK s : Rounds(m - 1, s)
    BY <1>2
  <2>2. PICK r : r = [k \in 0..m |-> IF k = m THEN CleanName(s[m - 1], segs[m]) ELSE s[k]]
    OBVIOUS
  <2>3. \A k \in 0..(m - 1) : r[k] = s[k]
    BY <2>2
  <2>4. ASSUME NEW k \in 0..m PROVE r[k] = IF k = 0 THEN <<>> ELSE CleanName(r[k - 1], segs[k])
    <3>1. CASE k = m
      <4>1. r[k] = CleanName(s[m - 1], segs[m]) /\ k # 0
        BY <2>2, <3>1
      <4>2. s[m - 1] = r[k - 1]
        BY <2>3, <3>1
      <4>3. QED
        BY <3>1, <4>1, <4>2, Zenon
    <3>2. CASE k # m
      <4>1. k \in 0..(m - 1)
        BY <3>2
      <4>2. r[k] = s[k]
        BY <2>3, <4>1
      <4>3. k # 0 => r[k - 1] = s[k - 1]
        BY <2>3, <4>1
      <4>4. s[k] = IF k = 0 THEN <<>> ELSE CleanName(s[k - 1], segs[k])
        BY <2>1, <4>1, Zenon
      <4>5. QED
        BY <4>2, <4>3, <4>4, Zenon
    <3>3. QED
      BY <3>1, <3>2
  <2>5. Rounds(m, r)
    BY <2>2, <2>4, Zenon
  <2>6. m \in Nat
    OBVIOUS
  <2>7. QED
    BY <2>5, <2>6, Zenon
<1>3. Len(segs) \in G
  <2>1. PICK H : H = G
    OBVIOUS
  <2>2. 0 \in H /\ \A k \in 1..Len(segs) : k - 1 \in H => k \in H
    BY <1>1, <1>2, <2>1, Zenon
  <2>3. 0..Len(segs) \subseteq H
    BY <2>2, UpTo
  <2>4. QED
    BY <2>1, <2>3
<1>4. \E s : s = [k \in 0..Len(segs) |-> IF k = 0 THEN <<>> ELSE CleanName(s[k - 1], segs[k])]
  BY <1>3
<1>5. QED
  BY <1>4, Zenon DEF Clean, IsCleaning

\* A name of a path, cleaned.
LEMMA CleanNameIs ==
  ASSUME NEW p \in Seq(Segment), NEW s \in Segment
  PROVE  /\ CleanName(p, s) \in Seq(Segment)
         /\ s \notin {".", ".."} => CleanName(p, s) = Append(p, s)
<1>1. p # <<>> => Front(p) \in Seq(Segment)
  BY LastName
<1>2. Append(p, s) \in Seq(Segment)
  OBVIOUS
<1>3. CleanName(p, s) = IF s = "." THEN p ELSE IF s = ".." THEN (IF p = <<>> THEN p ELSE Front(p)) ELSE Append(p, s)
  BY DEF CleanName
<1>4. QED
  BY <1>1, <1>2, <1>3

\* filepath.Clean makes a path of a path.
LEMMA CleanTyped ==
  ASSUME NEW segs \in Seq(Segment)
  PROVE  Clean(segs) \in Seq(Segment)
<1>1. Len(segs) \in Nat
  OBVIOUS
<1>2. PICK s : IsCleaning(segs, s) /\ Clean(segs) = s[Len(segs)]
  BY <1>1, CleanIs
<1>3. PICK G : G = {k \in 0..Len(segs) : s[k] \in Seq(Segment)}
  OBVIOUS
<1>4. 0 \in G
  BY <1>1, <1>2, <1>3 DEF IsCleaning
<1>5. ASSUME NEW k \in 1..Len(segs), k - 1 \in G PROVE k \in G
  <2>1. s[k - 1] \in Seq(Segment) /\ segs[k] \in Segment /\ k \in 0..Len(segs)
    BY <1>3, <1>5
  <2>2. s[k] = CleanName(s[k - 1], segs[k])
    BY <1>2, <2>1, SMTT(30) DEF IsCleaning
  <2>3. CleanName(s[k - 1], segs[k]) \in Seq(Segment)
    BY <2>1, CleanNameIs
  <2>4. QED
    BY <1>3, <2>1, <2>2, <2>3
<1>6. 0..Len(segs) \subseteq G
  BY <1>1, <1>4, <1>5, UpTo
<1>7. QED
  BY <1>1, <1>2, <1>3, <1>6

\* A path without dots is clean.
LEMMA CleanSame ==
  ASSUME NEW segs \in Seq(Segment), \A i \in 1..Len(segs) : segs[i] \notin {".", ".."}
  PROVE  Clean(segs) = segs
<1>1. Len(segs) \in Nat
  OBVIOUS
<1>2. PICK s : IsCleaning(segs, s) /\ Clean(segs) = s[Len(segs)]
  BY <1>1, CleanIs
<1>3. PICK G : G = {k \in 0..Len(segs) : s[k] = SubSeq(segs, 1, k)}
  OBVIOUS
<1>4. 0 \in G
  <2>1. s[0] = <<>>
    BY <1>1, <1>2 DEF IsCleaning
  <2>2. SubSeq(segs, 1, 0) = <<>>
    OBVIOUS
  <2>3. 0 \in 0..Len(segs) /\ s[0] = SubSeq(segs, 1, 0)
    BY <1>1, <2>1, <2>2
  <2>4. QED
    BY <1>3, <2>3, Zenon
<1>5. ASSUME NEW k \in 1..Len(segs), k - 1 \in G PROVE k \in G
  <2>1. s[k - 1] = SubSeq(segs, 1, k - 1) /\ segs[k] \in Segment /\ k \in 0..Len(segs)
    BY <1>3, <1>5
  <2>2. s[k] = CleanName(s[k - 1], segs[k])
    BY <1>2, <2>1 DEF IsCleaning
  <2>3. SubSeq(segs, 1, k - 1) \in Seq(Segment)
    BY <1>1
  <2>4. s[k] = Append(SubSeq(segs, 1, k - 1), segs[k])
    BY <2>1, <2>2, <2>3, CleanNameIs
  <2>5. Append(SubSeq(segs, 1, k - 1), segs[k]) = SubSeq(segs, 1, k)
    BY <1>1, <2>1
  <2>6. QED
    BY <1>3, <2>1, <2>4, <2>5
<1>6. 0..Len(segs) \subseteq G
  BY <1>1, <1>4, <1>5, UpTo
<1>7. Len(segs) \in G
  BY <1>1, <1>6
<1>8. SubSeq(segs, 1, Len(segs)) = segs
  OBVIOUS
<1>9. QED
  BY <1>2, <1>3, <1>7, <1>8

\* What Lstat answers.
LstatErr(f, up, q) ==
  IF up.err # "none" THEN up.err ELSE IF At(f, up.path).t = "file" THEN "notdir"
  ELSE IF At(f, q).t = "none" THEN "notexist" ELSE "none"

\* os.Lstat resolves the parent and looks for the last name in it.
LEMMA LstatIs ==
  ASSUME NEW f, NEW p, p # <<>>, NEW up, up = Walk(f, Front(p)), NEW q, q = Append(up.path, Last(p))
  PROVE  Lstat(f, p).path = q /\ Lstat(f, p).err = LstatErr(f, up, q)
<1>1. PICK e : e = CASE up.err # "none" -> up.err
                     [] up.err = "none" /\ At(f, up.path).t = "file" -> "notdir"
                     [] OTHER -> IF At(f, q).t = "none" THEN "notexist" ELSE "none"
  OBVIOUS
<1>2. Lstat(f, p) = [err |-> e, path |-> q, rest |-> <<>>]
  BY <1>1, Zenon DEF Lstat
<1>3. e = LstatErr(f, up, q)
  BY <1>1 DEF LstatErr
<1>4. Lstat(f, p).path = q /\ Lstat(f, p).err = e
  BY <1>2
<1>5. QED
  BY <1>3, <1>4, Zenon

\* The cases of ValidatePath.
ValidOf(f, home, req, h, t, r) ==
  IF h.err # "none" THEN Failed ELSE IF EmptyPath(req) THEN Valid(h.path)
  ELSE IF ~isUnderDir(home, t) /\ ~isUnderDir(h.path, t) THEN Traversal
  ELSE IF r.err = "notexist" THEN validateNonExistentPath(f, h.path, t)
  ELSE IF r.err # "none" THEN Failed
  ELSE IF isUnderDir(h.path, r.path) THEN Valid(r.path) ELSE Traversal
Asked(home, req) == IF req.abs THEN req.segs ELSE home \o req.segs

\* ValidatePath as the cases it distinguishes.
LEMMA ValidateIs ==
  ASSUME NEW f, NEW home, NEW req, NEW h, h = Walk(f, home), NEW t, t = Clean(Asked(home, req)), NEW r, r = Walk(f, t)
  PROVE  ValidatePath(f, home, req) = ValidOf(f, home, req, h, t, r)
<1>1. PICK e : e = IF ~isUnderDir(home, t) /\ ~isUnderDir(h.path, t) THEN Traversal
                   ELSE IF r.err = "notexist" THEN validateNonExistentPath(f, h.path, t)
                   ELSE IF r.err # "none" THEN Failed
                   ELSE IF isUnderDir(h.path, r.path) THEN Valid(r.path) ELSE Traversal
  OBVIOUS
<1>2. ValidatePath(f, home, req) = CASE h.err # "none" -> Failed
                                     [] h.err = "none" /\ EmptyPath(req) -> Valid(h.path)
                                     [] OTHER -> e
  BY <1>1, Zenon DEF ValidatePath, Asked
<1>3. ValidatePath(f, home, req) = IF h.err # "none" THEN Failed ELSE IF EmptyPath(req) THEN Valid(h.path) ELSE e
  BY <1>2
<1>4. QED
  BY <1>1, <1>3, Zenon DEF ValidOf

\* The three verdicts of the validation.
LEMMA VerdictErrs == Failed.err = "other" /\ Traversal.err = "traversal" /\ \A p : Valid(p).err = "none" /\ Valid(p).path = p
  BY DEF Failed, Traversal, Valid

\* The ancestor of a missing path that the check looks at.
IsNearest(f, t, k) ==
  /\ k \in 0..(Len(t) - 1) /\ Lstat(f, SubSeq(t, 1, k)).err # "notexist"
  /\ \A j \in (k + 1)..(Len(t) - 1) : Lstat(f, SubSeq(t, 1, j)).err = "notexist"

\* A missing path has a nearest ancestor that is not missing: the root is not.
LEMMA NearestIs ==
  ASSUME NEW f, NEW t \in Seq(Segment), t # <<>>, Lstat(f, <<>>).err # "notexist"
  PROVE  \E k \in 0..(Len(t) - 1) : IsNearest(f, t, k)
<1>1. PICK n \in Nat : n = Len(t) - 1
  <2>1. Len(t) \in Nat /\ Len(t) # 0
    OBVIOUS
  <2>2. QED
    BY <2>1
<1>2. PICK T : T = {n - k : k \in {i \in 0..n : Lstat(f, SubSeq(t, 1, i)).err # "notexist"}}
  OBVIOUS
<1>3. n \in T
  <2>1. SubSeq(t, 1, 0) = <<>>
    OBVIOUS
  <2>2. Lstat(f, SubSeq(t, 1, 0)).err # "notexist"
    BY <2>1, Zenon
  <2>3. 0 \in 0..n /\ n - 0 = n
    OBVIOUS
  <2>4. QED
    BY <1>2, <2>2, <2>3
<1>4. T \subseteq Nat
  BY <1>2
<1>5. PICK d \in T : \A e \in T : ~(e < d)
  BY <1>3, <1>4, Least
<1>6. PICK k \in 0..n : d = n - k /\ Lstat(f, SubSeq(t, 1, k)).err # "notexist"
  BY <1>2, <1>5
<1>7. ASSUME NEW j \in (k + 1)..n PROVE Lstat(f, SubSeq(t, 1, j)).err = "notexist"
  <2>1. SUFFICES ASSUME Lstat(f, SubSeq(t, 1, j)).err # "notexist" PROVE FALSE
    OBVIOUS
  <2>2. j \in 0..n
    OBVIOUS
  <2>3. n - j \in T
    BY <1>2, <2>1, <2>2
  <2>4. n - j < d
    BY <1>6, <2>2
  <2>5. QED
    BY <1>5, <2>3, <2>4
<1>8. IsNearest(f, t, k)
  BY <1>1, <1>6, <1>7 DEF IsNearest
<1>9. QED
  BY <1>1, <1>8

\* A missing path is accepted when its nearest ancestor resolves into the home directory.
LEMMA NonExistentIs ==
  ASSUME NEW f, NEW real, NEW t \in Seq(Segment), t # <<>>, Lstat(f, <<>>).err # "notexist",
         NEW v, v = validateNonExistentPath(f, real, t)
  PROVE  /\ v.err \in {"none", "other", "traversal"}
         /\ v.err = "none" => \E k \in 0..(Len(t) - 1) :
              /\ v.path = t /\ IsNearest(f, t, k)
              /\ Walk(f, SubSeq(t, 1, k)).err = "none" /\ IsPrefix(real, Walk(f, SubSeq(t, 1, k)).path)
         /\ v # Valid(t) => \E k \in 0..(Len(t) - 1) :
              /\ IsNearest(f, t, k)
              /\ \/ Lstat(f, SubSeq(t, 1, k)).err # "none" \/ Walk(f, SubSeq(t, 1, k)).err # "none"
                 \/ ~IsPrefix(real, Walk(f, SubSeq(t, 1, k)).path)
<1>1. PICK k : k = CHOOSE i \in 0..(Len(t) - 1) :
                     ~(Lstat(f, SubSeq(t, 1, i)).err = "notexist")
                     /\ \A j \in (i + 1)..(Len(t) - 1) : Lstat(f, SubSeq(t, 1, j)).err = "notexist"
  OBVIOUS
<1>2. IsNearest(f, t, k)
  <2>1. PICK i \in 0..(Len(t) - 1) : IsNearest(f, t, i)
    BY NearestIs
  <2>2. /\ ~(Lstat(f, SubSeq(t, 1, i)).err = "notexist")
        /\ \A j \in (i + 1)..(Len(t) - 1) : Lstat(f, SubSeq(t, 1, j)).err = "notexist"
    BY <2>1, Zenon DEF IsNearest
  <2>3. /\ k \in 0..(Len(t) - 1) /\ ~(Lstat(f, SubSeq(t, 1, k)).err = "notexist")
        /\ \A j \in (k + 1)..(Len(t) - 1) : Lstat(f, SubSeq(t, 1, j)).err = "notexist"
    BY <1>1, <2>2, Zenon
  <2>4. QED
    BY <2>3, Zenon DEF IsNearest
<1>3. PICK s, w : s = Lstat(f, SubSeq(t, 1, k)) /\ w = Walk(f, SubSeq(t, 1, k))
  OBVIOUS
<1>4. v = CASE s.err # "none" \/ w.err # "none" -> Failed
            [] s.err = "none" /\ w.err = "none" /\ ~isUnderDir(real, w.path) -> Traversal
            [] OTHER -> Valid(t)
  BY <1>1, <1>3, Zenon DEF validateNonExistentPath
<1>5. v = IF s.err # "none" \/ w.err # "none" THEN Failed ELSE IF ~isUnderDir(real, w.path) THEN Traversal ELSE Valid(t)
  BY <1>4
<1>6. CASE v = Failed \/ v = Traversal
  <2>1. v.err \in {"other", "traversal"} /\ Valid(t).err = "none"
    BY <1>6, VerdictErrs
  <2>2. v # Valid(t)
    BY <2>1
  <2>3. s.err # "none" \/ w.err # "none" \/ ~IsPrefix(real, w.path)
    BY <1>5, <2>2 DEF isUnderDir
  <2>4. k \in 0..(Len(t) - 1)
    BY <1>2 DEF IsNearest
  <2>5. QED
    BY <1>2, <1>3, <2>1, <2>3, <2>4
<1>7. CASE w.err = "none" /\ isUnderDir(real, w.path) /\ v = Valid(t)
  <2>1. v.err = "none" /\ v.path = t
    BY <1>7, VerdictErrs
  <2>2. k \in 0..(Len(t) - 1)
    BY <1>2 DEF IsNearest
  <2>3. QED
    BY <1>2, <1>3, <1>7, <2>1, <2>2 DEF isUnderDir
<1>8. QED
  BY <1>5, <1>6, <1>7

\* An object below the home directory, under its own path.
Real(f, p) == p \in Places /\ f[p].t \in {"dir", "file"} /\ IsPrefix(Home, p)

\* A missing path whose nearest ancestor P is below the home directory: its last name is
\* looked up in P, or the names b behind P start with one that is missing.
LastIn(f, t, P) == Walk(f, Front(t)).err = "none" /\ Walk(f, Front(t)).path = P
RestIn(f, t, P) ==
  \E a, b \in Seq(Segment) :
    /\ t = a \o b /\ Len(b) > 1 /\ Walk(f, a).err = "none" /\ Walk(f, a).path = P
    /\ f[P].t = "dir" /\ At(f, Append(P, Head(b))).t = "none"
Behind(f, t) ==
  /\ t \in Seq(Segment) /\ t # <<>> /\ Walk(f, t).err = "notexist"
  /\ \E P \in Places : IsPrefix(Home, P) /\ (LastIn(f, t, P) \/ RestIn(f, t, P))

\* The home directory, when it can be resolved.
LEMMA HomeIs ==
  ASSUME NEW f, FsInv(f), NEW home \in {Home, Alias}, Walk(f, home).err = "none"
  PROVE  Walk(f, home).path = Home /\ f[Home].t = "dir"
<1>1. Shape(f) /\ Tree(f) /\ f[Home].t \in {"dir", "none"}
  BY Ground
<1>2. \A q \in Places : IsPrefix(q, Home) => f[q].t # "link"
  <2>1. ASSUME NEW q \in Places, IsPrefix(q, Home) PROVE f[q].t # "link"
    <3>1. q \in Seq(Segment)
      BY PlacesAssumption
    <3>2. CASE q = Home
      BY <1>1, <3>2
    <3>3. CASE q # Home
      BY <2>1, <3>1, <3>3, Ground
    <3>4. QED
      BY <3>2, <3>3
  <2>2. QED
    BY <2>1
<1>3. Freely(f, Home, <<>>, Walk(f, home))
  <2>1. CASE home = Home
    BY <1>1, <1>2, <2>1, Plain, Lie
  <2>2. CASE home = Alias
    <3>1. <<>> \in Seq(Segment) /\ Alias \o <<>> = Alias /\ Home \o <<>> = Home
      BY Lie, PrefixSelf
    <3>2. \/ Walk(f, Alias \o <<>>).err = "loop"
          \/ \E m \in 0..MaxLinks : Walk(f, Alias \o <<>>) = Resolve(f)[Stand(m, <<>>, Home \o <<>>)]
      BY <3>1, AliasWalk
    <3>3. PICK m \in 0..MaxLinks : Walk(f, home) = Resolve(f)[Stand(m, <<>>, Home)]
      BY <2>2, <3>1, <3>2
    <3>4. QED
      BY <1>1, <1>2, <3>3, PlainFrom, Lie
  <2>3. QED
    BY <2>1, <2>2
<1>4. PICK r : r = Walk(f, home) /\ r.path = Home
  BY <1>3 DEF Freely
<1>5. Found(f, Walk(f, home))
  BY <1>1, WalkIs, Lie
<1>6. QED
  BY <1>1, <1>4, <1>5 DEF Found

\* A missing path whose nearest ancestor resolves to P: only its last name may be there, as a link.
LEMMA MissingIn ==
  ASSUME NEW f, FsInv(f), NEW t \in Seq(Segment), t # <<>>, NEW k \in 0..(Len(t) - 1), IsNearest(f, t, k),
         NEW P, Walk(f, SubSeq(t, 1, k)).err = "none", P = Walk(f, SubSeq(t, 1, k)).path
  PROVE  P \in Places /\ (LastIn(f, t, P) \/ RestIn(f, t, P))
<1>1. PICK a, n : a = SubSeq(t, 1, k) /\ a \in Seq(Segment) /\ n = Len(t) /\ n \in Nat /\ n > 0
  <2>1. Len(t) \in Nat /\ Len(t) > 0
    OBVIOUS
  <2>2. SubSeq(t, 1, k) \in Seq(Segment)
    BY <2>1
  <2>3. QED
    BY <2>1, <2>2
<1>2. PICK r : r = Walk(f, a) /\ Found(f, r) /\ r.err = "none" /\ r.path = P
  BY <1>1, WalkIs, Ground
<1>3. P \in Places /\ f[P].t \in {"dir", "file"} /\ At(f, P) = f[P]
  BY <1>2 DEF Found, At
<1>4. CASE k = n - 1
  <2>1. a = Front(t)
    BY <1>1, <1>4 DEF Front
  <2>2. QED
    BY <1>2, <1>3, <2>1 DEF LastIn
<1>5. CASE k < n - 1
  <2>1. PICK c : c = SubSeq(t, 1, k + 1)
    OBVIOUS
  <2>2. c # <<>> /\ Front(c) = a /\ Last(c) = t[k + 1]
    <3>1. c \in Seq(Segment) /\ Len(c) = k + 1
      BY <1>1, <1>5, <2>1
    <3>2. c # <<>>
      BY <3>1
    <3>3. Last(c) = t[k + 1]
      BY <1>1, <1>5, <2>1, <3>1 DEF Last
    <3>4. Front(c) = SubSeq(c, 1, k)
      BY <3>1 DEF Front
    <3>5. SubSeq(c, 1, k) = a
      BY <1>1, <1>5, <2>1
    <3>6. QED
      BY <3>2, <3>3, <3>4, <3>5
  <2>3. Lstat(f, c).err = "notexist"
    <3>1. k + 1 \in (k + 1)..(Len(t) - 1)
      BY <1>1, <1>5
    <3>2. QED
      BY <2>1, <3>1 DEF IsNearest
  <2>4. PICK q : q = Append(r.path, Last(c))
    OBVIOUS
  <2>5. r = Walk(f, Front(c))
    BY <1>2, <2>2
  <2>6. Lstat(f, c).err = LstatErr(f, r, q)
    BY <2>2, <2>4, <2>5, LstatIs, ZenonT(60)
  <2>7. f[P].t = "dir" /\ At(f, q).t = "none"
    BY <1>2, <1>3, <2>3, <2>6 DEF LstatErr
  <2>8. PICK b : b = SubSeq(t, k + 1, n)
    OBVIOUS
  <2>9. b \in Seq(Segment) /\ Len(b) > 1 /\ Head(b) = t[k + 1]
    BY <1>1, <1>5, <2>8
  <2>10. t = a \o b
    <3>1. k \in 0..Len(t) /\ b = SubSeq(t, k + 1, Len(t)) /\ a = SubSeq(t, 1, k)
      BY <1>1, <1>5, <2>8
    <3>2. QED
      BY <3>1, CutAt
  <2>11. At(f, Append(P, Head(b))).t = "none"
    BY <1>2, <2>2, <2>4, <2>7, <2>9
  <2>12. RestIn(f, t, P)
    BY <1>1, <1>2, <2>7, <2>9, <2>10, <2>11, Zenon DEF RestIn
  <2>13. QED
    BY <1>3, <2>12
<1>6. QED
  BY <1>1, <1>4, <1>5

\* What an accepted path is.
LEMMA Validated ==
  ASSUME NEW f, FsInv(f), NEW home \in {Home, Alias}, NEW req, IsRequest(req),
         NEW v, v = ValidatePath(f, home, req), v.err \notin {"traversal", "other"}
  PROVE  f[Home].t = "dir" /\ v.err = "none" /\ (Real(f, v.path) \/ Behind(f, v.path))
<1>1. PICK segs : segs = Asked(home, req) /\ segs \in Seq(Segment)
  <2>1. req.segs \in Seq(Segment) /\ home \in Seq(Segment)
    BY Lie DEF IsRequest
  <2>2. home \o req.segs \in Seq(Segment)
    BY <2>1, PrefixJoin
  <2>3. QED
    BY <2>1, <2>2 DEF Asked
<1>2. PICK h, t, r : h = Walk(f, home) /\ t = Clean(segs) /\ r = Walk(f, t)
  OBVIOUS
<1>3. t \in Seq(Segment)
  BY <1>1, <1>2, CleanTyped
<1>4. v = ValidOf(f, home, req, h, t, r)
  <2>1. h = Walk(f, home) /\ t = Clean(Asked(home, req)) /\ r = Walk(f, t)
    BY <1>1, <1>2
  <2>2. ValidatePath(f, home, req) = ValidOf(f, home, req, h, t, r)
    BY <2>1, ValidateIs
  <2>3. QED
    BY <2>2, Zenon
<1>5. v # Failed /\ v # Traversal
  BY VerdictErrs
<1>6. h.err = "none"
  BY <1>4, <1>5 DEF ValidOf
<1>7. h.path = Home /\ f[Home].t = "dir"
  BY <1>2, <1>6, HomeIs
<1>8. Shape(f) /\ Tree(f)
  BY Ground
<1>9. \/ v = Valid(Home)
      \/ r.err = "notexist" /\ v = validateNonExistentPath(f, Home, t)
      \/ r.err = "none" /\ isUnderDir(Home, r.path) /\ v = Valid(r.path)
  BY <1>4, <1>5, <1>6, <1>7 DEF ValidOf
<1>10. CASE v = Valid(Home)
  <2>1. v.err = "none" /\ v.path = Home
    BY <1>10, VerdictErrs
  <2>2. Real(f, Home)
    BY <1>7, Lie, PrefixSelf DEF Real
  <2>3. QED
    BY <1>7, <2>1, <2>2
<1>11. CASE r.err = "none" /\ isUnderDir(Home, r.path) /\ v = Valid(r.path)
  <2>1. v.err = "none" /\ v.path = r.path
    BY <1>11, VerdictErrs
  <2>2. Found(f, r)
    BY <1>2, <1>3, <1>8, WalkIs
  <2>3. Real(f, r.path)
    BY <1>11, <2>2 DEF Real, Found, isUnderDir
  <2>4. QED
    BY <1>7, <2>1, <2>3
<1>12. CASE r.err = "notexist" /\ v = validateNonExistentPath(f, Home, t)
  <2>1. <<>> \in Places /\ f[<<>>].t = "dir"
    BY <1>8, PlacesAssumption DEF Shape
  <2>2. Walk(f, <<>>).err = "none"
    BY <1>8, <2>1, Canon
  <2>3. t # <<>>
    BY <1>2, <1>12, <2>2
  <2>4. Lstat(f, <<>>).err # "notexist"
    <3>1. Lstat(f, <<>>) = Walk(f, <<>>)
      BY DEF Lstat
    <3>2. QED
      BY <2>2, <3>1
  <2>5. v.err \in {"none", "other", "traversal"}
    BY <1>3, <1>12, <2>3, <2>4, NonExistentIs
  <2>6. v.err = "none"
    BY <2>5
  <2>7. PICK k \in 0..(Len(t) - 1) : /\ v.path = t /\ IsNearest(f, t, k) /\ Walk(f, SubSeq(t, 1, k)).err = "none"
                                     /\ IsPrefix(Home, Walk(f, SubSeq(t, 1, k)).path)
    BY <1>3, <1>12, <2>3, <2>4, <2>6, NonExistentIs
  <2>8. PICK P : P = Walk(f, SubSeq(t, 1, k)).path
    OBVIOUS
  <2>9. P \in Places /\ (LastIn(f, t, P) \/ RestIn(f, t, P))
    BY <1>3, <2>3, <2>7, <2>8, MissingIn
  <2>10. Behind(f, t)
    BY <1>2, <1>3, <1>12, <2>3, <2>7, <2>8, <2>9 DEF Behind
  <2>11. QED
    BY <1>7, <2>6, <2>7, <2>10
<1>13. QED
  BY <1>9, <1>10, <1>11, <1>12

-----------------------------------------
(* Changes below the home directory *)

\* An object put into a directory below the home directory, or a new file outside.
MayHold(f, q, new) ==
  /\ q \in Places /\ (IsPrefix(Home, q) \/ (new.t = "file" /\ f[q].t = "none")) /\ f[Front(q)].t = "dir" /\ new \in Nodes /\ new.t # "none"
  /\ f[q].t = "dir" => new.t = "dir"
  /\ q = Home => new.t = "dir"
  /\ new.t = "link" => q = LinkPlace /\ new.to \in Targets

\* An object that may be put at q leaves a good file system.
LEMMA PutKeeps ==
  ASSUME NEW f, FsInv(f), NEW q, NEW new, MayHold(f, q, new), NEW g, g = [f EXCEPT ![q] = new]
  PROVE  FsInv(g)
<1>1. /\ Typed(f) /\ Tree(f) /\ f[Home].t \in {"dir", "none"}
      /\ \A p \in Places : f[p].t = "link" => p = Alias \/ (p = LinkPlace /\ f[p].to \in Targets)
      /\ \A p \in Places : ~IsPrefix(Home, p) => AtStart(f, p)
  BY Ground
<1>2. q \in Places /\ g[q] = new /\ \A p \in Places : p # q => g[p] = f[p]
  BY <1>1 DEF MayHold, Typed
<1>3. g \in [Places -> Nodes]
  BY <1>1 DEF Typed, MayHold
<1>4. ASSUME NEW p \in Places, p # <<>>, g[p].t # "none" PROVE g[Front(p)].t = "dir"
  <2>1. p \in Seq(Segment) /\ Front(p) \in Places
    BY <1>4, PlacesAssumption
  <2>2. Front(p) # p
    BY <1>4, <2>1, LastName
  <2>3. CASE p = q
    BY <1>2, <2>1, <2>2, <2>3 DEF MayHold
  <2>4. CASE p # q
    <3>1. f[p].t # "none" /\ f[Front(p)].t = "dir"
      BY <1>1, <1>2, <1>4, <2>4 DEF Tree
    <3>2. QED
      BY <1>2, <2>1, <3>1 DEF MayHold
  <2>5. QED
    BY <2>3, <2>4
<1>5. ASSUME NEW p \in Places, g[p].t = "link" PROVE p = Alias \/ (p = LinkPlace /\ g[p].to \in Targets)
  BY <1>1, <1>2, <1>5 DEF MayHold
<1>6. ASSUME NEW p \in Places, ~IsPrefix(Home, p) PROVE AtStart(g, p)
  BY <1>1, <1>2, <1>6 DEF MayHold, AtStart
<1>7. g[Home].t \in {"dir", "none"}
  BY <1>1, <1>2, Lie DEF MayHold
<1>8. QED
  BY <1>3, <1>4, <1>5, <1>6, <1>7 DEF FsInv, Tree, LinksLead, isUnderDir, AtStart

\* The removal of a tree below the home directory.
LEMMA RemoveKeeps ==
  ASSUME NEW f, FsInv(f), NEW q \in Seq(Segment), IsPrefix(Home, q), NEW g, g = RemoveAll(f, q)
  PROVE  FsInv(g)
<1>1. /\ Typed(f) /\ Tree(f) /\ f[Home].t \in {"dir", "none"}
      /\ \A p \in Places : f[p].t = "link" => p = Alias \/ (p = LinkPlace /\ f[p].to \in Targets)
      /\ \A p \in Places : ~IsPrefix(Home, p) => AtStart(f, p)
  BY Ground
<1>2. /\ \A p \in Places : IsPrefix(q, p) => g[p] = None
      /\ \A p \in Places : ~IsPrefix(q, p) => g[p] = f[p]
      /\ None.t = "none" /\ None \in Nodes
  BY NodesHold DEF RemoveAll
<1>3. g \in [Places -> Nodes]
  BY <1>1, <1>2 DEF Typed, RemoveAll
<1>4. ASSUME NEW p \in Places, p # <<>>, g[p].t # "none" PROVE g[Front(p)].t = "dir"
  <2>1. p \in Seq(Segment) /\ Front(p) \in Places
    BY <1>4, PlacesAssumption
  <2>2. ~IsPrefix(q, p) /\ f[p].t # "none"
    BY <1>2, <1>4
  <2>3. f[Front(p)].t = "dir"
    BY <1>1, <1>4, <2>2 DEF Tree
  <2>4. Front(p) \in Seq(Segment) /\ IsPrefix(Front(p), p)
    BY <1>4, <2>1, LastName
  <2>5. ~IsPrefix(q, Front(p))
    BY <2>1, <2>2, <2>4, PrefixTrans
  <2>6. QED
    BY <1>2, <2>1, <2>3, <2>5
<1>5. ASSUME NEW p \in Places, g[p].t = "link" PROVE p = Alias \/ (p = LinkPlace /\ g[p].to \in Targets)
  BY <1>1, <1>2, <1>5
<1>6. ASSUME NEW p \in Places, ~IsPrefix(Home, p) PROVE AtStart(g, p)
  <2>1. ~IsPrefix(q, p)
    BY <1>6, Lie, PlacesAssumption, PrefixTrans
  <2>2. QED
    BY <1>1, <1>2, <1>6, <2>1 DEF AtStart
<1>7. g[Home].t \in {"dir", "none"}
  BY <1>1, <1>2, Lie
<1>8. QED
  BY <1>3, <1>4, <1>5, <1>6, <1>7 DEF FsInv, Tree, LinksLead, isUnderDir, AtStart

\* The directories of MkdirAll, one below the other.
LEMMA NewDirsAre ==
  ASSUME NEW s, NEW p \in Seq(Segment), s.path = p, p # <<>>, NEW r \in Seq(Segment), s.rest = r, NEW d \in NewDirs(s)
  PROVE  d \in Seq(Segment) /\ IsPrefix(p, d) /\ (d = p \/ (d # <<>> /\ Front(d) \in NewDirs(s)))
<1>1. PICK k \in 0..Len(r) : d = p \o SubSeq(r, 1, k)
  BY DEF NewDirs
<1>2. Len(r) \in Nat /\ k \in Nat
  OBVIOUS
<1>3. PICK c : c = SubSeq(r, 1, k) /\ c \in Seq(Segment) /\ Len(c) = k
  <2>1. SubSeq(r, 1, k) \in Seq(Segment) /\ Len(SubSeq(r, 1, k)) = k
    BY <1>2
  <2>2. QED
    BY <2>1, Zenon
<1>4. d \in Seq(Segment) /\ IsPrefix(p, d)
  BY <1>1, <1>3, PrefixJoin
<1>5. CASE k = 0
  <2>1. c = <<>>
    BY <1>3, <1>5
  <2>2. d = p
    BY <1>1, <1>3, <2>1, PrefixSelf
  <2>3. QED
    BY <1>4, <2>2
<1>6. CASE k # 0
  <2>1. PICK e : e = SubSeq(r, 1, k - 1) /\ e \in Seq(Segment) /\ k - 1 \in 0..Len(r)
    <3>1. k - 1 \in 0..Len(r) /\ k - 1 \in Nat
      BY <1>2, <1>6
    <3>2. SubSeq(r, 1, k - 1) \in Seq(Segment)
      BY <1>2, <3>1
    <3>3. QED
      BY <3>1, <3>2, Zenon
  <2>2. c = Append(e, r[k]) /\ r[k] \in Segment
    BY <1>2, <1>3, <1>6, <2>1
  <2>3. PICK x \in Segment : x = r[k]
    BY <2>2
  <2>4. d = p \o Append(e, x)
    BY <1>1, <1>3, <2>2, <2>3
  <2>5. p \o Append(e, x) = Append(p \o e, x) /\ p \o e \in Seq(Segment)
    BY <2>1, <2>3
  <2>6. d # <<>> /\ Front(d) = p \o e
    <3>1. PICK z : z = p \o e /\ z \in Seq(Segment) /\ d = Append(z, x)
      BY <2>4, <2>5
    <3>2. Append(z, x) # <<>> /\ Front(Append(z, x)) = z
      <4>1. z \in Seq(Segment) /\ x \in Segment
        BY <2>3, <3>1
      <4>2. QED
        BY <4>1, LastFront
    <3>3. QED
      BY <3>1, <3>2
  <2>7. p \o e \in NewDirs(s)
    BY <2>1 DEF NewDirs
  <2>8. QED
    BY <1>4, <2>6, <2>7
<1>7. QED
  BY <1>5, <1>6

\* What os.MkdirAll makes below the home directory.
LEMMA DirsKeep ==
  ASSUME NEW f, FsInv(f), NEW s, Found(f, s), s.err = "notexist", IsPrefix(Home, s.path), NewDirs(s) \subseteq Places,
         NEW g, g = WithDirs(f, NewDirs(s))
  PROVE  FsInv(g) /\ Extends(f, g) /\ \A q \in Places : g[q] # f[q] => IsPrefix(s.path, q) /\ q \in NewDirs(s) /\ g[q] = Dir
<1>1. /\ Typed(f) /\ Tree(f) /\ f[Home].t \in {"dir", "none"}
      /\ \A p \in Places : f[p].t = "link" => p = Alias \/ (p = LinkPlace /\ f[p].to \in Targets)
      /\ \A p \in Places : ~IsPrefix(Home, p) => AtStart(f, p)
  BY Ground
<1>2. PICK y, r, D : y = s.path /\ r = s.rest /\ D = NewDirs(s)
  OBVIOUS
<1>3. y \in Seq(Segment) /\ r \in Seq(Segment) /\ y # <<>> /\ At(f, y).t = "none" /\ Front(y) \in Places /\ f[Front(y)].t = "dir"
  BY <1>2 DEF Found
<1>4. ASSUME NEW d \in D PROVE d \in Places /\ d \in Seq(Segment) /\ IsPrefix(y, d) /\ (d = y \/ (d # <<>> /\ Front(d) \in D))
  BY <1>2, <1>3, NewDirsAre
<1>5. /\ \A p \in Places : p \in D => g[p] = Dir
      /\ \A p \in Places : p \notin D => g[p] = f[p]
      /\ Dir.t = "dir" /\ Dir \in Nodes
  BY <1>2, NodesHold DEF WithDirs
<1>6. g \in [Places -> Nodes]
  BY <1>1, <1>2, <1>5 DEF Typed, WithDirs
<1>7. ASSUME NEW p \in Places, f[p].t # "none" PROVE p \notin D
  <2>1. SUFFICES ASSUME p \in D PROVE FALSE
    OBVIOUS
  <2>2. IsPrefix(y, p)
    BY <1>4, <2>1
  <2>3. y \in Places /\ f[y].t # "none"
    BY <1>1, <1>3, <1>7, <2>2, TreeUp
  <2>4. QED
    BY <1>3, <2>3 DEF At
<1>8. ASSUME NEW p \in Places, p # <<>>, g[p].t # "none" PROVE g[Front(p)].t = "dir"
  <2>1. Front(p) \in Places
    BY <1>8, PlacesAssumption
  <2>2. f[Front(p)].t = "dir" \/ Front(p) \in D
    <3>1. CASE p \in D
      BY <1>3, <1>4, <3>1
    <3>2. CASE p \notin D
      BY <1>1, <1>5, <1>8, <3>2 DEF Tree
    <3>3. QED
      BY <3>1, <3>2
  <2>3. QED
    BY <1>5, <2>1, <2>2
<1>9. ASSUME NEW p \in Places, g[p].t = "link" PROVE p = Alias \/ (p = LinkPlace /\ g[p].to \in Targets)
  BY <1>1, <1>5, <1>9
<1>10. ASSUME NEW p \in Places, ~IsPrefix(Home, p) PROVE AtStart(g, p)
  <2>1. p \notin D
    BY <1>2, <1>3, <1>4, <1>10, Lie, PrefixTrans
  <2>2. QED
    BY <1>1, <1>5, <1>10, <2>1 DEF AtStart
<1>11. g[Home].t \in {"dir", "none"}
  BY <1>1, <1>5, Lie
<1>12. FsInv(g)
  BY <1>6, <1>8, <1>9, <1>10, <1>11 DEF FsInv, Tree, LinksLead, isUnderDir, AtStart
<1>13. Extends(f, g)
  BY <1>5, <1>7 DEF Extends
<1>14. ASSUME NEW q \in Places, g[q] # f[q] PROVE IsPrefix(s.path, q) /\ q \in NewDirs(s) /\ g[q] = Dir
  BY <1>2, <1>4, <1>5, <1>14
<1>15. QED
  BY <1>12, <1>13, <1>14

\* The parent of a path of two parts.
LEMMA FrontJoin ==
  ASSUME NEW a \in Seq(Segment), NEW b \in Seq(Segment), Len(b) > 1
  PROVE  /\ Front(a \o b) = a \o Front(b) /\ Front(b) \in Seq(Segment) /\ Front(b) # <<>> /\ Head(Front(b)) = Head(b)
         /\ b # <<>>
<1>1. b # <<>> /\ Len(b) \in Nat
  OBVIOUS
<1>2. PICK c, x : c = Front(b) /\ x = Last(b) /\ c \in Seq(Segment) /\ x \in Segment /\ b = Append(c, x) /\ Len(b) = Len(c) + 1
  BY <1>1, LastName
<1>3. c # <<>> /\ Head(c) = Head(b)
  BY <1>1, <1>2
<1>4. PICK z : z = a \o c /\ z \in Seq(Segment)
  BY <1>2, PrefixJoin
<1>5. a \o b = Append(z, x)
  BY <1>2, <1>4
<1>6. Front(Append(z, x)) = z
  <2>1. z \in Seq(Segment) /\ x \in Segment
    BY <1>2, <1>4
  <2>2. QED
    BY <2>1, LastFront
<1>7. QED
  BY <1>1, <1>2, <1>3, <1>4, <1>5, <1>6

\* A walk that misses the next name ends there.
LEMMA StopsAt ==
  ASSUME NEW f, Shape(f), NEW m \in 0..MaxLinks, NEW P \in Seq(Segment), NEW b \in Seq(Segment), b # <<>>,
         At(f, Append(P, Head(b))).t = "none"
  PROVE  Resolve(f)[Stand(m, P, b)].err = "notexist" /\ Resolve(f)[Stand(m, P, b)].path = Append(P, Head(b))
<1>1. PICK w : w = Stand(m, P, b) /\ w \in Walks /\ w.done = P /\ w.todo = b
  BY StandIs
<1>2. NextName(w) = Append(P, Head(b))
  BY <1>1 DEF NextName
<1>3. Ends(f, w)
  BY <1>2 DEF Ends
<1>4. Ended(f, w, Resolve(f)[w])
  BY <1>1, <1>3, EndIs
<1>5. PICK r : r = Resolve(f)[w]
  OBVIOUS
<1>6. r.err = "notexist" /\ r.path = Append(P, Head(b))
  BY <1>1, <1>2, <1>4, <1>5 DEF Ended
<1>7. QED
  BY <1>1, <1>5, <1>6

\* The names behind P, of which the first is missing, are missing in every directory on the way.
LEMMA FrontMissing ==
  ASSUME NEW f, Shape(f), NEW P \in Places, NEW a \in Seq(Segment), NEW b \in Seq(Segment), Len(b) > 1,
         Walk(f, a).err = "none", Walk(f, a).path = P, f[P].t = "dir", At(f, Append(P, Head(b))).t = "none"
  PROVE  Walk(f, Front(a \o b)).err = "notexist" /\ Walk(f, Front(a \o b)).path = Append(P, Head(b))
<1>1. PICK c : c = Front(b) /\ c \in Seq(Segment) /\ c # <<>> /\ Head(c) = Head(b) /\ Front(a \o b) = a \o c
  BY FrontJoin
<1>2. PICK m \in 0..MaxLinks : Walk(f, a \o c) = Resolve(f)[Stand(m, P, c)]
  <2>1. c \in Seq(Segment)
    BY <1>1
  <2>2. QED
    BY <2>1, WalkSplit
<1>3. P \in Seq(Segment)
  BY PlacesAssumption
<1>4. At(f, Append(P, Head(c))).t = "none"
  BY <1>1
<1>5. Resolve(f)[Stand(m, P, c)].err = "notexist" /\ Resolve(f)[Stand(m, P, c)].path = Append(P, Head(c))
  BY <1>1, <1>2, <1>3, <1>4, StopsAt
<1>6. QED
  BY <1>1, <1>2, <1>5

\* A name below a path.
LEMMA UnderHome ==
  ASSUME NEW P \in Seq(Segment), IsPrefix(Home, P), NEW x \in Segment, NEW q, q = Append(P, x)
  PROVE  q \in Seq(Segment) /\ IsPrefix(P, q) /\ IsPrefix(Home, q) /\ q # Home /\ q # <<>> /\ Front(q) = P /\ Len(q) = Len(P) + 1
         /\ ~IsPrefix(q, Home)
<1>1. q \in Seq(Segment) /\ q # <<>> /\ Len(q) = Len(P) + 1 /\ Len(P) \in Nat
  OBVIOUS
<1>2. Front(q) = P
  BY LastFront
<1>3. IsPrefix(P, q)
  BY <1>1, <1>2, LastName
<1>4. IsPrefix(Home, q)
  BY <1>1, <1>3, Lie, PrefixTrans
<1>5. Len(Home) <= Len(P) /\ Len(Home) \in Nat
  BY Lie, PrefixSame
<1>6. ~IsPrefix(q, Home)
  <2>1. SUFFICES ASSUME IsPrefix(q, Home) PROVE FALSE
    OBVIOUS
  <2>2. Len(q) <= Len(Home)
    BY <1>1, <2>1, Lie, PrefixSame
  <2>3. QED
    BY <1>1, <1>5, <2>2
<1>7. q # Home
  BY <1>6, Lie, PrefixSelf
<1>8. QED
  BY <1>1, <1>2, <1>3, <1>4, <1>6, <1>7

\* A walk to a place outside the home directory meets no link.
LEMMA OutwardWalk ==
  ASSUME NEW f, FsInv(f), NEW to \in Targets, ~IsPrefix(Home, to), NEW m \in 0..MaxLinks
  PROVE  Freely(f, to, <<>>, Resolve(f)[Stand(m, <<>>, to)])
<1>1. to \in Seq(Segment) /\ ~IsPrefix(Alias, to) /\ LinkPlace \in Seq(Segment) /\ IsPrefix(Home, LinkPlace)
  BY WorkspaceAssumption, PlacesAssumption DEF Below
<1>2. ASSUME NEW q \in Places, IsPrefix(q, to) PROVE f[q].t # "link"
  <2>1. q # Alias
    BY <1>1, <1>2
  <2>2. q # LinkPlace
    BY <1>1, <1>2, Lie, PrefixTrans
  <2>3. QED
    BY <2>1, <2>2, Ground
<1>3. QED
  BY <1>1, <1>2, Ground, PlainFrom

\* The one place outside where a missing object may be found: where the link leads.
Outward(f, r) == r.err = "notexist" /\ ~IsPrefix(Home, r.path) /\ (r.rest = <<>> => f[LinkPlace] = Link(r.path))

\* A missing object in a directory below the home directory is below it, also behind a link,
\* unless the link leads outside.
LEMMA LastUnder ==
  ASSUME NEW f, FsInv(f), NEW P \in Places, IsPrefix(Home, P), NEW x \in Segment, NEW m \in 0..MaxLinks,
         Resolve(f)[Stand(m, P, <<x>>)].err = "notexist"
  PROVE  LET r == Resolve(f)[Stand(m, P, <<x>>)] IN IsPrefix(Home, r.path) \/ Outward(f, r)
<1>1. P \in Seq(Segment) /\ Shape(f) /\ Tree(f)
  BY PlacesAssumption, Ground
<1>2. PICK q : q = Append(P, x)
  OBVIOUS
<1>3. q \in Seq(Segment) /\ IsPrefix(P, q) /\ IsPrefix(Home, q) /\ Len(q) = Len(P) + 1 /\ Len(P) \in Nat
  <2>1. P \in Seq(Segment)
    BY <1>1
  <2>2. q \in Seq(Segment) /\ IsPrefix(P, q) /\ IsPrefix(Home, q) /\ Len(q) = Len(P) + 1
    BY <1>2, <2>1, UnderHome, Zenon
  <2>3. QED
    BY <2>1, <2>2
<1>4. PICK b : b = <<x>> /\ b \in Seq(Segment) /\ b # <<>> /\ Head(b) = x /\ Tail(b) = <<>> /\ P \o b = q
  <2>1. PICK b : b = <<x>>
    OBVIOUS
  <2>2. b \in Seq(Segment) /\ b # <<>> /\ Head(b) = x /\ Tail(b) = <<>>
    BY <2>1
  <2>3. P \o b = q
    <3>1. P \in Seq(Segment)
      BY <1>1
    <3>2. QED
      BY <1>2, <2>1, <3>1
  <2>4. QED
    BY <2>1, <2>2, <2>3, Zenon
<1>5. PICK w : w = Stand(m, P, b) /\ w \in Walks /\ w.links = m /\ w.done = P /\ w.todo = b /\ All(w) = q
  <2>1. b \in Seq(Segment) /\ P \in Seq(Segment)
    BY <1>1, <1>4
  <2>2. Stand(m, P, b) \in Walks /\ Stand(m, P, b).links = m /\ Stand(m, P, b).done = P /\ Stand(m, P, b).todo = b
        /\ All(Stand(m, P, b)) = P \o b
    BY <2>1, StandIs
  <2>3. QED
    BY <1>4, <2>2
<1>6. NextName(w) = q
  BY <1>2, <1>4, <1>5 DEF NextName
<1>7. PICK r : r = Resolve(f)[w] /\ r.err = "notexist"
  BY <1>4, <1>5
<1>8. IsPrefix(Home, r.path) \/ Outward(f, r)
  <2>1. CASE q \in Places /\ f[q].t = "link"
    <3>1. q # Alias
      BY <1>3, Lie
    <3>2. q = LinkPlace /\ f[q].to \in Targets
      BY <2>1, <3>1, Ground
    <3>3. PICK to : to = f[q].to
      OBVIOUS
    <3>4. to \in Places /\ to \in Seq(Segment)
      BY <3>2, <3>3, WorkspaceAssumption, PlacesAssumption
    <3>5. At(f, q) = f[q]
      BY <2>1 DEF At
    <3>6. ~Ends(f, w)
      <4>1. SUFFICES ASSUME Ends(f, w) PROVE FALSE
        OBVIOUS
      <4>2. Ended(f, w, r)
        BY <1>1, <1>5, <1>7, <4>1, EndIs
      <4>3. QED
        BY <1>4, <1>5, <1>6, <1>7, <2>1, <3>5, <4>2 DEF Ended
    <3>7. /\ w.links # 0 /\ Resolve(f)[After(f, w)] = Resolve(f)[w]
          /\ After(f, w) = [links |-> w.links - 1, done |-> <<>>, todo |-> f[q].to \o Tail(w.todo)]
      <4>1. f[NextName(w)].t = "link"
        BY <1>6, <2>1
      <4>2. /\ w.links # 0 /\ Resolve(f)[After(f, w)] = Resolve(f)[w]
            /\ After(f, w) = [links |-> w.links - 1, done |-> <<>>, todo |-> f[NextName(w)].to \o Tail(w.todo)]
        BY <1>1, <1>5, <3>6, <4>1, AfterIs
      <4>3. QED
        BY <1>6, <4>2, Zenon
    <3>8. PICK n \in 0..MaxLinks : n = m - 1
      BY <1>5, <3>7, PlacesAssumption
    <3>9. to \o <<>> = to
      BY <3>4, PrefixSelf
    <3>10. After(f, w) = Stand(n, <<>>, to)
      BY <1>4, <1>5, <3>3, <3>7, <3>8, <3>9 DEF Stand
    <3>11. r = Resolve(f)[Stand(n, <<>>, to)]
      BY <1>7, <3>7, <3>10
    <3>12. CASE ~IsPrefix(Home, to)
      <4>1. Freely(f, to, <<>>, r)
        BY <3>2, <3>3, <3>8, <3>11, <3>12, OutwardWalk
      <4>2. r.path \in Seq(Segment) /\ IsPrefix(r.path, to) /\ r.path \o r.rest = to
        BY <1>7, <4>1 DEF Freely
      <4>3. ~IsPrefix(Home, r.path)
        BY <3>4, <3>12, <4>2, Lie, PrefixTrans
      <4>4. r.rest = <<>> => r.path = to
        BY <4>2, PrefixSelf
      <4>5. f[LinkPlace] = Link(to)
        <5>1. f[LinkPlace] \in Nodes /\ f[LinkPlace].t = "link" /\ f[LinkPlace].to = to
          BY <1>1, <2>1, <3>2, <3>3 DEF Shape, Typed
        <5>2. QED
          BY <5>1, NodeIs DEF Link
      <4>6. QED
        BY <1>7, <4>3, <4>4, <4>5 DEF Outward
    <3>13. CASE IsPrefix(Home, to)
      <4>1. PICK u : u = Stand(n, <<>>, to) /\ u \in Walks /\ All(u) = to
        BY <3>4, <3>8, StartIs
      <4>2. Homeward(u)
        BY <3>13, <4>1 DEF Homeward
      <4>3. Resolve(f)[u].err = "notexist" /\ r = Resolve(f)[u]
        BY <1>7, <3>11, <4>1
      <4>4. f[LinkPlace].t = "link" => IsPrefix(Home, f[LinkPlace].to)
        BY <3>2, <3>3, <3>13
      <4>5. IsPrefix(Home, Resolve(f)[u].path)
        BY <4>1, <4>2, <4>3, <4>4, Inward
      <4>6. QED
        BY <4>3, <4>5
    <3>14. QED
      BY <3>12, <3>13
  <2>2. CASE ~(q \in Places /\ f[q].t = "link")
    <3>1. ASSUME NEW y \in Places, IsPrefix(y, All(w)), Len(y) > Len(w.done) PROVE f[y].t # "link"
      <4>1. y \in Seq(Segment) /\ Len(y) \in Nat /\ IsPrefix(y, q) /\ Len(y) > Len(P)
        BY <1>5, <3>1, PlacesAssumption
      <4>2. Len(q) <= Len(y)
        BY <1>3, <4>1
      <4>3. y = q
        BY <1>3, <4>1, <4>2, PrefixSame
      <4>4. QED
        BY <2>2, <4>3
    <3>2. Straight(f, w)
      BY <3>1 DEF Straight
    <3>3. Freely(f, q, P, r)
      BY <1>1, <1>5, <1>7, <3>2, Free
    <3>4. r.path \in Seq(Segment) /\ IsPrefix(P, r.path)
      BY <3>3 DEF Freely
    <3>5. QED
      BY <1>1, <3>4, Lie, PrefixTrans
  <2>3. QED
    BY <2>1, <2>2
<1>9. QED
  BY <1>4, <1>5, <1>7, <1>8

\* Where open puts a file.
LEMMA CreateIs ==
  ASSUME NEW g, Shape(g), Tree(g), NEW p \in Seq(Segment), NEW s, s = Walk(g, p), NEW w, w = CreateAt(g, p), w.err = "none"
  PROVE  /\ w.path = s.path /\ s.path \in Places /\ s.err \in {"none", "notexist"}
         /\ s.path # <<>> => g[Front(s.path)].t = "dir"
         /\ s.err = "notexist" => s.rest = <<>>
<1>1. w = IF s.err = "notexist" /\ s.rest = <<>> /\ s.path \in Places /\ At(g, Front(s.path)).t = "dir"
          THEN [err |-> "none", path |-> s.path] ELSE s
  BY Zenon DEF CreateAt
<1>2. Found(g, s)
  BY WalkIs
<1>3. CASE s.err = "notexist" /\ s.rest = <<>> /\ s.path \in Places /\ At(g, Front(s.path)).t = "dir"
  <2>1. w.path = s.path
    BY <1>1, <1>3
  <2>2. QED
    BY <1>2, <1>3, <2>1 DEF Found
<1>4. CASE w = s
  <2>1. s.err = "none" /\ s.path \in Places /\ g[s.path].t \in {"dir", "file"}
    BY <1>2, <1>4 DEF Found
  <2>2. QED
    BY <1>4, <2>1 DEF Tree
<1>5. QED
  BY <1>1, <1>3, <1>4

\* Where a write puts its directories and its file.
Within(f, g) == \A q \in Places : ~IsPrefix(Home, q) \/ g[q].t = "link" => g[q] = f[q]
Lands(f, p) ==
  \E dirs : /\ dirs = MkdirAll(f, Front(p)) /\ FsInv(dirs.fs) /\ Extends(f, dirs.fs) /\ Within(f, dirs.fs)
            /\ dirs.err = "none" => IsPrefix(Home, Walk(dirs.fs, p).path) \/ Outward(dirs.fs, Walk(dirs.fs, p))

\* writeFile to an object that exists makes no directories, and writes to that object.
LEMMA RealLands ==
  ASSUME NEW f, FsInv(f), NEW p, Real(f, p)
  PROVE  Lands(f, p)
<1>1. Shape(f) /\ Tree(f) /\ p \in Places /\ p \in Seq(Segment) /\ f[p].t \in {"dir", "file"} /\ IsPrefix(Home, p)
  BY Ground, PlacesAssumption DEF Real
<1>2. p # <<>>
  <2>1. SUFFICES ASSUME p = <<>> PROVE FALSE
    OBVIOUS
  <2>2. IsPrefix(<<>>, Home) /\ IsPrefix(Home, <<>>) /\ <<>> \in Seq(Segment) /\ Len(<<>>) = 0
    BY <1>1, <2>1, Lie, PrefixSelf
  <2>3. Len(<<>>) <= Len(Home) /\ Len(Home) <= Len(<<>>)
    BY <2>2, Lie, PrefixSame
  <2>4. QED
    BY <2>2, <2>3, Lie, PrefixSame
<1>3. Front(p) \in Places /\ f[Front(p)].t = "dir"
  BY <1>1, <1>2, PlacesAssumption DEF Tree
<1>4. Walk(f, Front(p)).err = "none"
  BY <1>1, <1>3, Canon
<1>5. PICK dirs : dirs = MkdirAll(f, Front(p)) /\ dirs.fs = f
  <2>1. PICK dirs, s : dirs = MkdirAll(f, Front(p)) /\ s = Walk(f, Front(p))
    OBVIOUS
  <2>2. dirs.fs = f
    BY <1>4, <2>1, MkdirIs
  <2>3. QED
    BY <2>1, <2>2
<1>6. Walk(f, p).path = p
  BY <1>1, Canon
<1>7. QED
  BY <1>1, <1>5, <1>6 DEF Lands, Extends, Within

\* writeFile into a directory that exists writes below the home directory, also through a
\* link, or where the link leads outside.
LEMMA LastLands ==
  ASSUME NEW f, FsInv(f), NEW t \in Seq(Segment), t # <<>>, Walk(f, t).err = "notexist",
         NEW P \in Places, IsPrefix(Home, P), LastIn(f, t, P)
  PROVE  Lands(f, t)
<1>1. Shape(f) /\ Tree(f) /\ P \in Seq(Segment)
  BY Ground, PlacesAssumption
<1>2. PICK a, x : a = Front(t) /\ x = Last(t) /\ a \in Seq(Segment) /\ x \in Segment /\ t = Append(a, x)
  BY LastName
<1>3. PICK dirs, s : dirs = MkdirAll(f, a) /\ s = Walk(f, a) /\ s.err = "none" /\ s.path = P
  BY <1>2 DEF LastIn
<1>4. dirs.fs = f /\ (dirs.err = "none" => At(f, P).t = "dir")
  BY <1>3, MkdirIs
<1>5. ASSUME dirs.err = "none" PROVE IsPrefix(Home, Walk(f, t).path) \/ Outward(f, Walk(f, t))
  <2>1. f[P].t = "dir"
    BY <1>4, <1>5 DEF At
  <2>2. PICK b : b = <<x>> /\ b \in Seq(Segment) /\ a \o b = t
    <3>1. PICK b : b = <<x>>
      OBVIOUS
    <3>2. a \in Seq(Segment) /\ x \in Segment
      BY <1>2
    <3>3. b \in Seq(Segment) /\ a \o b = Append(a, x)
      BY <3>1, <3>2
    <3>4. QED
      BY <1>2, <3>1, <3>3, Zenon
  <2>3. PICK m \in 0..MaxLinks : Walk(f, t) = Resolve(f)[Stand(m, P, b)]
    <3>1. a \in Seq(Segment) /\ b \in Seq(Segment) /\ Walk(f, a).err = "none" /\ Walk(f, a).path = P
      BY <1>2, <1>3, <2>2
    <3>2. \E m \in 0..MaxLinks : Walk(f, a \o b) = Resolve(f)[Stand(m, P, b)]
      BY <1>1, <2>1, <3>1, WalkSplit, SMTT(30)
    <3>3. QED
      BY <2>2, <3>2
  <2>4. Resolve(f)[Stand(m, P, <<x>>)].err = "notexist"
    BY <2>2, <2>3
  <2>5. PICK r : r = Resolve(f)[Stand(m, P, <<x>>)] /\ (IsPrefix(Home, r.path) \/ Outward(f, r))
    BY <1>2, <2>3, <2>4, LastUnder
  <2>6. QED
    BY <2>2, <2>3, <2>5
<1>6. QED
  BY <1>2, <1>3, <1>4, <1>5 DEF Lands, Extends, Within

\* writeFile into missing directories makes them, and its file, below the home directory.
LEMMA RestLands ==
  ASSUME NEW f, FsInv(f), NEW P \in Places, IsPrefix(Home, P), NEW a \in Seq(Segment), NEW b \in Seq(Segment), Len(b) > 1,
         Walk(f, a).err = "none", Walk(f, a).path = P, f[P].t = "dir", At(f, Append(P, Head(b))).t = "none"
  PROVE  Lands(f, a \o b)
<1>1. Shape(f) /\ Tree(f) /\ P \in Seq(Segment) /\ Front(a \o b) \in Seq(Segment) /\ b # <<>>
  <2>1. a \o b \in Seq(Segment) /\ Len(a \o b) = Len(a) + Len(b) /\ Len(a) \in Nat
    BY PrefixJoin
  <2>2. a \o b # <<>> /\ b # <<>>
    BY <2>1
  <2>3. Front(a \o b) \in Seq(Segment)
    BY <2>1, <2>2, LastName
  <2>4. QED
    BY <2>2, <2>3, Ground, PlacesAssumption
<1>2. PICK dirs, s, q, D : dirs = MkdirAll(f, Front(a \o b)) /\ s = Walk(f, Front(a \o b)) /\ q = Append(P, Head(b)) /\ D = NewDirs(s)
  OBVIOUS
<1>3. s.err = "notexist" /\ s.path = q
  BY <1>1, <1>2, FrontMissing
<1>4. PICK x \in Segment : x = Head(b) /\ q = Append(P, x)
  BY <1>1, <1>2, SegParts
<1>5. q \in Seq(Segment) /\ IsPrefix(Home, q) /\ IsPrefix(P, q) /\ Len(q) = Len(P) + 1 /\ Len(P) \in Nat
  <2>1. P \in Seq(Segment) /\ q = Append(P, x)
    BY <1>1, <1>4
  <2>2. q \in Seq(Segment) /\ IsPrefix(Home, q) /\ IsPrefix(P, q) /\ Len(q) = Len(P) + 1
    BY <2>1, UnderHome, Zenon
  <2>3. QED
    BY <2>1, <2>2
<1>6. Found(f, s)
  BY <1>1, <1>2, WalkIs
<1>7. \/ dirs.err = "none" /\ D \subseteq Places /\ dirs.fs = WithDirs(f, D)
      \/ dirs.err # "none" /\ dirs.fs = f
  BY <1>2, <1>3, MkdirIs
<1>8. CASE dirs.err # "none" /\ dirs.fs = f
  BY <1>2, <1>8 DEF Lands, Extends, Within
<1>9. CASE dirs.err = "none" /\ D \subseteq Places /\ dirs.fs = WithDirs(f, D)
  <2>1. PICK g : /\ g = dirs.fs /\ FsInv(g) /\ Extends(f, g)
                 /\ \A y \in Places : g[y] # f[y] => g[y] = Dir /\ IsPrefix(q, y)
    <3>1. PICK g : g = dirs.fs /\ g = WithDirs(f, NewDirs(s))
      BY <1>2, <1>9
    <3>2. NewDirs(s) \subseteq Places /\ IsPrefix(Home, s.path)
      BY <1>2, <1>3, <1>5, <1>9
    <3>3. FsInv(g) /\ Extends(f, g) /\ \A y \in Places : g[y] # f[y] => g[y] = Dir /\ IsPrefix(q, y)
      BY <1>3, <1>6, <3>1, <3>2, DirsKeep
    <3>4. QED
      BY <3>1, <3>3
  <2>2. Shape(g) /\ Tree(g)
    BY <2>1, Ground
  <2>3. Walk(g, a).err = "none" /\ Walk(g, a).path = P /\ g[P].t = "dir"
    <3>1. From(a) \in Walks /\ Walk(f, a) = Resolve(f)[From(a)] /\ Walk(g, a) = Resolve(g)[From(a)]
      BY <1>1, <2>2, WalkIs
    <3>2. Resolve(g)[From(a)] = Resolve(f)[From(a)]
      BY <1>1, <2>1, <2>2, <3>1, Keeps
    <3>3. g[P] = f[P]
      BY <2>1 DEF Extends
    <3>4. QED
      BY <3>1, <3>2, <3>3
  <2>4. PICK m \in 0..MaxLinks : Walk(g, a \o b) = Resolve(g)[Stand(m, P, b)]
    BY <2>2, <2>3, WalkSplit
  <2>5. PICK w : w = Stand(m, P, b) /\ w \in Walks /\ w.done = P /\ All(w) = P \o b
    <3>1. Stand(m, P, b) \in Walks /\ Stand(m, P, b).done = P /\ All(Stand(m, P, b)) = P \o b
      BY <1>1, <2>4, StandIs, SMTT(30)
    <3>2. QED
      BY <3>1
  <2>6. P \o b \in Seq(Segment) /\ IsPrefix(q, P \o b)
    <3>1. PICK c : c = Tail(b) /\ c \in Seq(Segment) /\ Append(P, Head(b)) \o c = P \o b
      <4>1. b \in Seq(Segment) /\ b # <<>> /\ P \in Seq(Segment)
        BY <1>1
      <4>2. Tail(b) \in Seq(Segment) /\ Append(P, Head(b)) \o Tail(b) = P \o b
        BY <4>1, SegParts
      <4>3. QED
        BY <4>2, Zenon
    <3>2. q \o c = P \o b
      BY <1>2, <3>1
    <3>3. IsPrefix(q, q \o c) /\ q \o c \in Seq(Segment)
      BY <1>5, <3>1, PrefixJoin
    <3>4. QED
      BY <3>2, <3>3
  <2>7. ASSUME NEW y \in Places, IsPrefix(y, P \o b), Len(y) > Len(P) PROVE g[y].t # "link"
    <3>1. SUFFICES ASSUME g[y].t = "link" PROVE FALSE
      OBVIOUS
    <3>2. g[y] = f[y]
      BY <2>1, <3>1, NodesHold
    <3>3. y \in Seq(Segment) /\ Len(y) \in Nat
      BY PlacesAssumption
    <3>4. Len(q) <= Len(y)
      BY <1>5, <2>7, <3>3
    <3>5. IsPrefix(q, y)
      BY <1>5, <2>6, <2>7, <3>3, <3>4, PrefixBoth
    <3>6. q \in Places /\ f[q].t # "none"
      <4>1. CASE q = y
        BY <3>1, <3>2, <4>1
      <4>2. CASE q # y
        BY <1>1, <1>5, <3>1, <3>2, <3>5, <4>2, TreeUp
      <4>3. QED
        BY <4>1, <4>2
    <3>7. QED
      BY <1>2, <3>6 DEF At
  <2>8. Straight(g, w)
    BY <2>5, <2>7 DEF Straight
  <2>9. Freely(g, P \o b, P, Resolve(g)[w])
    BY <2>2, <2>5, <2>8, Free
  <2>10. PICK r : r = Resolve(g)[w] /\ r.path \in Seq(Segment) /\ IsPrefix(P, r.path)
    BY <2>9 DEF Freely
  <2>11. IsPrefix(Home, r.path)
    BY <1>1, <2>10, Lie, PrefixTrans
  <2>12. IsPrefix(Home, Walk(dirs.fs, a \o b).path)
    BY <2>1, <2>4, <2>5, <2>10, <2>11
  <2>13. Within(f, g)
    BY <1>5, <2>1, Lie, PlacesAssumption, PrefixTrans, NodesHold DEF Within
  <2>14. QED
    BY <1>2, <2>1, <2>12, <2>13 DEF Lands
<1>10. QED
  BY <1>7, <1>8, <1>9

\* writeFile to a missing path that was accepted writes below the home directory.
LEMMA BehindLands ==
  ASSUME NEW f, FsInv(f), NEW t, Behind(f, t)
  PROVE  Lands(f, t)
<1>1. t \in Seq(Segment) /\ t # <<>> /\ Walk(f, t).err = "notexist"
  BY DEF Behind
<1>2. PICK P \in Places : IsPrefix(Home, P) /\ (LastIn(f, t, P) \/ RestIn(f, t, P))
  BY DEF Behind
<1>3. CASE LastIn(f, t, P)
  BY <1>1, <1>2, <1>3, LastLands
<1>4. CASE RestIn(f, t, P)
  <2>1. PICK a, b \in Seq(Segment) :
          /\ t = a \o b /\ Len(b) > 1 /\ Walk(f, a).err = "none" /\ Walk(f, a).path = P
          /\ f[P].t = "dir" /\ At(f, Append(P, Head(b))).t = "none"
    BY <1>4, Zenon DEF RestIn
  <2>2. Lands(f, a \o b)
    BY <1>2, <2>1, RestLands
  <2>3. QED
    BY <2>1, <2>2, Zenon
<1>5. QED
  BY <1>2, <1>3, <1>4

\* Nothing outside the home directory is changed.
Stays(f, g) == \A q \in Places : ~IsPrefix(Home, q) => g[q] = f[q]

\* What a call may do outside the home directory: make a file where the link leads.
Respects(f, g) ==
  \A q \in Places : ~IsPrefix(Home, q) /\ g[q] # f[q] =>
    f[q].t = "none" /\ g[q].t = "file" /\ f[LinkPlace] = Link(q)

\* What writeFile leaves behind: a good file system, with the home directory and .git where they were.
LEMMA WriteKeeps ==
  ASSUME NEW f, FsInv(f), f[Home].t = "dir", NEW v, Real(f, v.path) \/ Behind(f, v.path), NEW g, Wrote(f, v, g)
  PROVE  FsInv(g) /\ Respects(f, g) /\ g[Home].t = "dir" /\ (f[DotGit].t # "none" => g[DotGit].t # "none")
<1>1. PICK p : p = v.path /\ p \in Seq(Segment)
  BY PlacesAssumption DEF Real, Behind
<1>2. Lands(f, p)
  BY <1>1, RealLands, BehindLands
<1>3. PICK dirs : /\ dirs = MkdirAll(f, Front(p)) /\ FsInv(dirs.fs) /\ Extends(f, dirs.fs) /\ Within(f, dirs.fs)
                  /\ dirs.err = "none" => IsPrefix(Home, Walk(dirs.fs, p).path) \/ Outward(dirs.fs, Walk(dirs.fs, p))
  BY <1>2 DEF Lands
<1>4. PICK d : d = dirs.fs /\ FsInv(d) /\ Extends(f, d) /\ Within(f, d)
  BY <1>3
<1>5. PICK w : w = CreateAt(d, p)
  OBVIOUS
<1>6. \/ g = d
      \/ /\ dirs.err = "none" /\ w.err = "none" /\ At(d, w.path).t # "dir"
         /\ \E new \in Files0 : g = [d EXCEPT ![w.path] = new]
  BY <1>1, <1>3, <1>4, <1>5 DEF Wrote
<1>7. d[Home] = f[Home] /\ (f[DotGit].t # "none" => d[DotGit] = f[DotGit]) /\ DotGit \in Places
  BY <1>4, Lie, RepoAssumption DEF Extends
<1>8. CASE g = d
  BY <1>4, <1>7, <1>8 DEF Respects, Within
<1>9. CASE dirs.err = "none" /\ w.err = "none" /\ At(d, w.path).t # "dir" /\ \E new \in Files0 : g = [d EXCEPT ![w.path] = new]
  <2>1. PICK new \in Files0 : g = [d EXCEPT ![w.path] = new]
    BY <1>9
  <2>2. new \in Nodes /\ new.t = "file"
    BY NodesHold DEF Files0
  <2>3. Shape(d) /\ Tree(d) /\ Typed(d)
    BY <1>4, Ground
  <2>4. PICK s : s = Walk(d, p)
    OBVIOUS
  <2>5. w.path = s.path /\ s.path \in Places /\ (s.path # <<>> => d[Front(s.path)].t = "dir")
    BY <1>1, <1>5, <1>9, <2>3, <2>4, CreateIs
  <2>6. PICK q : q = w.path /\ q \in Places /\ (q # <<>> => d[Front(q)].t = "dir")
    BY <2>5
  <2>7. IsPrefix(Home, q) \/ (d[q].t = "none" /\ d[LinkPlace] = Link(q))
    <3>1. SUFFICES ASSUME ~IsPrefix(Home, q) PROVE d[q].t = "none" /\ d[LinkPlace] = Link(q)
      OBVIOUS
    <3>2. Outward(d, s) /\ q = s.path
      BY <1>3, <1>4, <1>9, <2>4, <2>5, <2>6, <3>1
    <3>3. Found(d, s)
      BY <1>1, <2>3, <2>4, WalkIs
    <3>4. s.err = "notexist" => s.rest = <<>>
      BY <1>1, <1>5, <1>9, <2>3, <2>4, CreateIs
    <3>5. QED
      BY <2>6, <3>2, <3>3, <3>4 DEF Outward, Found, At
  <2>8. d[q].t # "dir"
    BY <1>9, <2>6 DEF At
  <2>9. q # Home /\ q # <<>>
    BY <1>7, <2>3, <2>8 DEF Shape
  <2>10. MayHold(d, q, new)
    BY <2>2, <2>6, <2>7, <2>8, <2>9 DEF MayHold
  <2>11. g = [d EXCEPT ![q] = new]
    BY <2>1, <2>6
  <2>12. FsInv(g)
    BY <1>4, <2>10, <2>11, PutKeeps
  <2>13. g[q] = new /\ \A y \in Places : y # q => g[y] = d[y]
    BY <2>3, <2>6, <2>11 DEF Typed
  <2>14. Respects(f, g)
    <3>1. LinkPlace \in Places
      BY WorkspaceAssumption
    <3>2. ASSUME NEW y \in Places, ~IsPrefix(Home, y), g[y] # f[y]
          PROVE  f[y].t = "none" /\ g[y].t = "file" /\ f[LinkPlace] = Link(y)
      <4>1. d[y] = f[y]
        BY <1>4, <3>2 DEF Within
      <4>2. y = q /\ d[LinkPlace] = Link(y) /\ d[y].t = "none" /\ g[y].t = "file"
        BY <2>2, <2>7, <2>13, <3>2, <4>1
      <4>3. QED
        BY <1>4, <3>1, <4>1, <4>2 DEF Within, Link
    <3>3. QED
      BY <3>2 DEF Respects
  <2>15. QED
    BY <1>7, <2>2, <2>9, <2>12, <2>13, <2>14, Lie
<1>10. QED
  BY <1>6, <1>8, <1>9

\* The entry of a canonical path.
LEMMA RealEntry ==
  ASSUME NEW f, FsInv(f), NEW p, Real(f, p)
  PROVE  p \in Seq(Segment) /\ p # <<>> /\ Lstat(f, p).path = p
<1>1. Shape(f) /\ Tree(f)
  BY Ground
<1>2. p \in Places /\ p \in Seq(Segment) /\ f[p].t \in {"dir", "file"} /\ IsPrefix(Home, p)
  BY PlacesAssumption DEF Real
<1>3. p # <<>>
  <2>1. SUFFICES ASSUME p = <<>> PROVE FALSE
    OBVIOUS
  <2>2. IsPrefix(<<>>, Home) /\ IsPrefix(Home, <<>>) /\ <<>> \in Seq(Segment) /\ Len(<<>>) = 0
    BY <1>2, <2>1, Lie, PrefixSelf
  <2>3. Len(<<>>) <= Len(Home) /\ Len(Home) <= Len(<<>>)
    BY <2>2, Lie, PrefixSame
  <2>4. QED
    BY <2>2, <2>3, Lie, PrefixSame
<1>4. Front(p) \in Places /\ f[Front(p)].t = "dir"
  BY <1>1, <1>2, <1>3, PlacesAssumption DEF Tree
<1>5. PICK up, q : up = Walk(f, Front(p)) /\ q = Append(up.path, Last(p))
  OBVIOUS
<1>6. up.path = Front(p)
  BY <1>1, <1>4, <1>5, Canon
<1>7. Lstat(f, p).path = q
  BY <1>3, <1>5, LstatIs, ZenonT(60)
<1>8. q = p
  BY <1>2, <1>3, <1>5, <1>6, LastName
<1>9. QED
  BY <1>2, <1>3, <1>7, <1>8

\* What is removed is below the home directory, and above it only under another name of it.
LEMMA DeletesBelow ==
  ASSUME NEW f, FsInv(f), NEW p, Real(f, p) \/ Behind(f, p), NEW l, l = Lstat(f, p), l.err = "none"
  PROVE  l.path \in Seq(Segment) /\ IsPrefix(Home, l.path) /\ (IsPrefix(l.path, Home) => p = Home)
<1>1. Shape(f) /\ Tree(f)
  BY Ground
<1>2. CASE Real(f, p)
  <2>1. p \in Places /\ p \in Seq(Segment) /\ f[p].t \in {"dir", "file"} /\ IsPrefix(Home, p)
    BY <1>2, PlacesAssumption DEF Real
  <2>2. l.path = p
    BY <1>2, RealEntry
  <2>3. IsPrefix(p, Home) => p = Home
    <3>1. SUFFICES ASSUME IsPrefix(p, Home) PROVE p = Home
      OBVIOUS
    <3>2. Len(p) <= Len(Home) /\ Len(Home) <= Len(p)
      BY <2>1, <3>1, Lie, PrefixSame
    <3>3. QED
      BY <2>1, <3>1, <3>2, Lie, PrefixSame
  <2>4. QED
    BY <2>1, <2>2, <2>3
<1>3. CASE Behind(f, p)
  <2>1. p \in Seq(Segment) /\ p # <<>>
    BY <1>3 DEF Behind
  <2>2. PICK P \in Places : IsPrefix(Home, P) /\ (LastIn(f, p, P) \/ RestIn(f, p, P))
    BY <1>3 DEF Behind
  <2>3. PICK up, q : up = Walk(f, Front(p)) /\ q = Append(up.path, Last(p))
    OBVIOUS
  <2>4. l.path = q /\ l.err = LstatErr(f, up, q)
    BY <2>1, <2>3, LstatIs, ZenonT(60)
  <2>5. up.err = "none"
    BY <2>4 DEF LstatErr
  <2>6. CASE RestIn(f, p, P)
    <3>1. PICK a, b \in Seq(Segment) :
            /\ p = a \o b /\ Len(b) > 1 /\ Walk(f, a).err = "none" /\ Walk(f, a).path = P
            /\ f[P].t = "dir" /\ At(f, Append(P, Head(b))).t = "none"
      BY <2>6, Zenon DEF RestIn
    <3>2. Walk(f, Front(a \o b)).err = "notexist"
      BY <1>1, <3>1, FrontMissing
    <3>3. Walk(f, Front(p)).err = "notexist"
      BY <3>1, <3>2, Zenon
    <3>4. QED
      BY <2>3, <2>5, <3>3
  <2>7. CASE LastIn(f, p, P)
    <3>1. up.path = P /\ P \in Seq(Segment)
      BY <2>3, <2>7, PlacesAssumption DEF LastIn
    <3>2. PICK x \in Segment : x = Last(p)
      BY <2>1, LastName
    <3>3. q = Append(P, x)
      BY <2>3, <3>1, <3>2
    <3>4. q \in Seq(Segment) /\ IsPrefix(Home, q) /\ ~IsPrefix(q, Home)
      BY <2>2, <3>1, <3>3, UnderHome, Zenon
    <3>5. QED
      BY <2>4, <3>4
  <2>8. QED
    BY <2>2, <2>6, <2>7
<1>4. QED
  BY <1>2, <1>3

-----------------------------------------
(* Clones *)

\* Where the repository lies.
LEMMA RepoLies ==
  \E rel \in Seq(Segment) :
    /\ rel = RelPath(Home, Repo) /\ Repo = Home \o rel /\ Repo \in Seq(Segment) /\ Repo \in Places /\ DotGit \in Places
    /\ IsPrefix(Home, Repo) /\ DotGit \in Seq(Segment) /\ Front(DotGit) = Repo /\ DotGit # Repo /\ DotGit # Home
    /\ IsPrefix(Home, DotGit) /\ DotGit # <<>>
    /\ RepoPath.segs = rel /\ IsRequest(RepoPath) /\ ~RepoPath.abs
<1>1. Repo \in Seq(Segment) /\ Repo \in Places /\ DotGit \in Places /\ IsPrefix(Home, Repo)
  BY RepoAssumption, PlacesAssumption DEF isUnderDir
<1>2. PICK rel \in Seq(Segment) : Repo = Home \o rel
  BY <1>1, Lie, PrefixRest, ZenonT(60)
<1>3. SubSeq(Repo, Len(Home) + 1, Len(Repo)) = rel
  BY <1>2, Lie, RestOf
<1>4. rel = RelPath(Home, Repo)
  BY <1>3 DEF RelPath
<1>5. PICK x \in Segment : x = ".git"
  <2>1. DotGit \in Seq(Segment) /\ Repo \in Seq(Segment)
    BY RepoAssumption, PlacesAssumption
  <2>2. PICK x : x = ".git"
    OBVIOUS
  <2>3. DotGit = Append(Repo, x)
    BY <2>2 DEF DotGit
  <2>4. Len(DotGit) = Len(Repo) + 1 /\ DotGit[Len(Repo) + 1] = x
    BY <2>1, <2>3
  <2>5. QED
    BY <2>1, <2>2, <2>4
<1>6. DotGit = Append(Repo, x)
  BY <1>5 DEF DotGit
<1>7. /\ DotGit \in Seq(Segment) /\ IsPrefix(Home, DotGit) /\ DotGit # Home /\ DotGit # <<>> /\ Front(DotGit) = Repo
      /\ Len(DotGit) = Len(Repo) + 1
  BY <1>1, <1>6, UnderHome, Zenon
<1>8. DotGit # Repo
  BY <1>1, <1>7
<1>9. RepoPath = [abs |-> FALSE, segs |-> rel]
  BY <1>4 DEF RepoPath, Rel
<1>10. RepoPath.segs = rel /\ IsRequest(RepoPath) /\ ~RepoPath.abs
  BY <1>2, <1>9 DEF IsRequest
<1>11. QED
  BY <1>1, <1>2, <1>4, <1>7, <1>8, <1>10

\* There are no links on the way to the repository.
LEMMA RepoUnlinked ==
  ASSUME NEW f, FsInv(f), NEW q \in Places, IsPrefix(q, Repo)
  PROVE  f[q].t # "link"
<1>1. Repo \in Seq(Segment) /\ IsPrefix(Home, Repo) /\ q \in Seq(Segment)
  BY RepoLies, PlacesAssumption
<1>2. q # Alias
  <2>1. IsPrefix(q, Home) \/ IsPrefix(Home, q)
    BY <1>1, Lie, PrefixBoth
  <2>2. QED
    BY <2>1, Lie
<1>3. q # LinkPlace
  BY WorkspaceAssumption
<1>4. QED
  BY <1>2, <1>3, Ground

\* A name of the repository leads to it.
LEMMA RepoWalk ==
  ASSUME NEW f, FsInv(f), NEW home \in {Home, Alias}, NEW p \in {Repo, home \o RepoPath.segs}
  PROVE  p \in Seq(Segment) /\ (Walk(f, p).err = "loop" \/ Freely(f, Repo, <<>>, Walk(f, p)))
<1>1. PICK rel \in Seq(Segment) : Repo = Home \o rel /\ RepoPath.segs = rel /\ Repo \in Seq(Segment)
  BY RepoLies
<1>2. Shape(f) /\ \A q \in Places : IsPrefix(q, Repo) => f[q].t # "link"
  BY Ground, RepoUnlinked
<1>3. CASE p = Repo
  BY <1>1, <1>2, <1>3, Plain
<1>4. CASE p = Alias \o rel
  <2>1. p \in Seq(Segment)
    BY <1>1, <1>4, Lie, PrefixJoin
  <2>2. \/ Walk(f, Alias \o rel).err = "loop"
        \/ \E m \in 0..MaxLinks : Walk(f, Alias \o rel) = Resolve(f)[Stand(m, <<>>, Home \o rel)]
    BY AliasWalk
  <2>3. ASSUME NEW m \in 0..MaxLinks, Walk(f, p) = Resolve(f)[Stand(m, <<>>, Repo)]
        PROVE  Freely(f, Repo, <<>>, Walk(f, p))
    <3>1. Freely(f, Repo, <<>>, Resolve(f)[Stand(m, <<>>, Repo)])
      BY <1>1, <1>2, PlainFrom
    <3>2. QED
      BY <2>3, <3>1
  <2>4. QED
    BY <1>1, <1>4, <2>1, <2>2, <2>3
<1>5. QED
  BY <1>1, <1>3, <1>4

\* filepath.Clean has nothing to do for the path of the repository.
LEMMA RepoClean ==
  ASSUME NEW home \in {Home, Alias}, NEW t, t = home \o RepoPath.segs
  PROVE  Clean(t) = t /\ t \in Seq(Segment)
<1>1. PICK rel \in Seq(Segment) : Repo = Home \o rel /\ RepoPath.segs = rel /\ Repo \in Seq(Segment) /\ Repo \in Places
  BY RepoLies
<1>2. home \in Seq(Segment) /\ home \in Places /\ Home \in Seq(Segment)
  BY Lie
<1>3. /\ t = home \o rel /\ t \in Seq(Segment) /\ Len(t) = Len(home) + Len(rel)
      /\ \A i \in 1..Len(home) : t[i] = home[i]
      /\ \A i \in 1..Len(rel) : t[Len(home) + i] = rel[i]
  BY <1>1, <1>2, Joined
<1>4. /\ Len(Repo) = Len(Home) + Len(rel) /\ \A i \in 1..Len(rel) : Repo[Len(Home) + i] = rel[i]
  BY <1>1, <1>2, Joined
<1>5. Len(home) \in Nat /\ Len(Home) \in Nat /\ Len(rel) \in Nat /\ DOMAIN home = 1..Len(home) /\ DOMAIN Repo = 1..Len(Repo)
  BY <1>1, <1>2, LenProperties
<1>6. ASSUME NEW i \in 1..Len(t) PROVE t[i] \notin {".", ".."}
  <2>1. CASE i \in 1..Len(home)
    <3>1. home[i] \notin {".", ".."}
      BY <1>2, <1>5, <2>1, PlacesAssumption
    <3>2. QED
      BY <1>3, <2>1, <3>1
  <2>2. CASE i \notin 1..Len(home)
    <3>1. PICK j \in 1..Len(rel) : i = Len(home) + j
      BY <1>3, <1>5, <2>2
    <3>2. Len(Home) + j \in 1..Len(Repo)
      BY <1>4, <1>5
    <3>3. Repo[Len(Home) + j] \notin {".", ".."}
      BY <1>1, <1>5, <3>2, PlacesAssumption
    <3>4. QED
      BY <1>3, <1>4, <3>1, <3>3
  <2>3. QED
    BY <2>1, <2>2
<1>7. QED
  BY <1>3, <1>6, CleanSame

\* The path that a clone is made at.
LEMMA ClonesAt ==
  ASSUME NEW f, FsInv(f), NEW home \in {Home, Alias}, NEW v, v = ValidatePath(f, home, RepoPath), v.err # "traversal",
         NEW p, p = IF v.err = "none" THEN v.path ELSE Clean(home \o RepoPath.segs)
  PROVE  p \in {Repo, home \o RepoPath.segs}
<1>1. PICK h, t, r : h = Walk(f, home) /\ t = home \o RepoPath.segs /\ r = Walk(f, t)
  OBVIOUS
<1>2. Clean(t) = t /\ t \in Seq(Segment)
  BY <1>1, RepoClean
<1>3. v = ValidOf(f, home, RepoPath, h, t, r)
  <2>1. Asked(home, RepoPath) = t
    BY <1>1, RepoLies DEF Asked
  <2>2. h = Walk(f, home) /\ t = Clean(Asked(home, RepoPath)) /\ r = Walk(f, t)
    BY <1>1, <1>2, <2>1
  <2>3. ValidatePath(f, home, RepoPath) = ValidOf(f, home, RepoPath, h, t, r)
    BY <2>2, ValidateIs
  <2>4. QED
    BY <2>3, Zenon
<1>4. CASE v.err # "none"
  <2>1. p = Clean(t)
    BY <1>1, <1>4
  <2>2. QED
    BY <1>1, <1>2, <2>1
<1>5. CASE v.err = "none"
  <2>1. p = v.path
    BY <1>5
  <2>2. v # Failed /\ v # Traversal
    BY <1>5, VerdictErrs
  <2>3. h.err = "none"
    BY <1>3, <2>2 DEF ValidOf
  <2>4. h.path = Home /\ f[Home].t = "dir"
    BY <1>1, <2>3, HomeIs
  <2>5. \/ EmptyPath(RepoPath) /\ v = Valid(Home)
        \/ r.err = "notexist" /\ v = validateNonExistentPath(f, Home, t)
        \/ r.err = "none" /\ v = Valid(r.path)
    BY <1>3, <2>2, <2>3, <2>4 DEF ValidOf
  <2>6. CASE EmptyPath(RepoPath) /\ v = Valid(Home)
    <3>1. PICK rel \in Seq(Segment) : Repo = Home \o rel /\ RepoPath.segs = rel
      BY RepoLies
    <3>2. rel = <<>>
      BY <2>6, <3>1 DEF EmptyPath
    <3>3. Repo = Home
      BY <3>1, <3>2, Lie, PrefixSelf
    <3>4. QED
      BY <2>1, <2>6, <3>3, VerdictErrs
  <2>7. CASE r.err = "none" /\ v = Valid(r.path)
    <3>1. r.err = "loop" \/ Freely(f, Repo, <<>>, r)
      BY <1>1, RepoWalk
    <3>2. r.path = Repo
      BY <2>7, <3>1 DEF Freely
    <3>3. QED
      BY <2>1, <2>7, <3>2, VerdictErrs
  <2>8. CASE r.err = "notexist" /\ v = validateNonExistentPath(f, Home, t)
    <3>1. Shape(f) /\ Tree(f)
      BY Ground
    <3>2. <<>> \in Places /\ f[<<>>].t = "dir"
      BY <3>1, PlacesAssumption DEF Shape
    <3>3. Walk(f, <<>>).err = "none"
      BY <3>1, <3>2, Canon
    <3>4. t # <<>>
      BY <1>1, <2>8, <3>3
    <3>5. Lstat(f, <<>>).err # "notexist"
      <4>1. Lstat(f, <<>>) = Walk(f, <<>>)
        BY DEF Lstat
      <4>2. QED
        BY <3>3, <4>1
    <3>6. v.path = t
      BY <1>2, <1>5, <2>8, <3>4, <3>5, NonExistentIs
    <3>7. QED
      BY <1>1, <2>1, <3>6
  <2>9. QED
    BY <2>5, <2>6, <2>7, <2>8
<1>6. QED
  BY <1>4, <1>5

\* What a clone finds when the directories are made: the repository's directory and what was there.
Made(f, d) ==
  /\ FsInv(d) /\ Extends(f, d) /\ d[Repo].t = "dir"
  /\ \A q \in Places : d[q] # f[q] => IsPrefix(q, Repo)

\* The directories that gitClone makes are those on the way to the repository.
LEMMA CloneDirs ==
  ASSUME NEW f, FsInv(f), NEW home \in {Home, Alias}, NEW p \in {Repo, home \o RepoPath.segs},
         NEW into, into = MkdirAll(f, p), into.err = "none"
  PROVE  Made(f, into.fs)
<1>1. Repo \in Seq(Segment) /\ IsPrefix(Home, Repo) /\ Repo \in Places
  BY RepoLies
<1>2. PICK s : s = Walk(f, p)
  OBVIOUS
<1>3. p \in Seq(Segment) /\ (s.err = "loop" \/ Freely(f, Repo, <<>>, s))
  BY <1>2, RepoWalk
<1>4. \/ into.fs = f /\ s.err = "none" /\ At(f, s.path).t = "dir"
      \/ s.err = "notexist" /\ NewDirs(s) \subseteq Places /\ into.fs = WithDirs(f, NewDirs(s))
  BY <1>2, MkdirIs
<1>5. CASE into.fs = f /\ s.err = "none" /\ At(f, s.path).t = "dir"
  <2>1. f[Repo].t = "dir"
    BY <1>1, <1>3, <1>5 DEF Freely, At
  <2>2. QED
    BY <1>5, <2>1 DEF Made, Extends
<1>6. CASE s.err = "notexist" /\ NewDirs(s) \subseteq Places /\ into.fs = WithDirs(f, NewDirs(s))
  <2>1. PICK y, r : y = s.path /\ r = s.rest
    OBVIOUS
  <2>2. y \in Seq(Segment) /\ r \in Seq(Segment) /\ IsPrefix(y, Repo) /\ y \o r = Repo /\ At(f, y).t = "none"
    BY <1>3, <1>6, <2>1 DEF Freely
  <2>3. Found(f, s)
    BY <1>2, <1>3, Ground, WalkIs
  <2>4. IsPrefix(Home, y)
    <3>1. IsPrefix(Home, y) \/ IsPrefix(y, Home)
      BY <1>1, <2>2, Lie, PrefixBoth
    <3>2. CASE IsPrefix(y, Home) /\ y # Home
      <4>1. y \in Places /\ f[y].t = "dir"
        BY <2>2, <3>2, Ground
      <4>2. QED
        BY <2>2, <4>1 DEF At
    <3>3. QED
      BY <3>1, <3>2, Lie, PrefixSelf
  <2>5. PICK d : d = into.fs /\ d = WithDirs(f, NewDirs(s))
    BY <1>6
  <2>6. FsInv(d) /\ Extends(f, d) /\ \A q \in Places : d[q] # f[q] => q \in NewDirs(s)
    BY <1>6, <2>1, <2>3, <2>4, <2>5, DirsKeep
  <2>7. Repo \in NewDirs(s) /\ \A q \in NewDirs(s) : IsPrefix(q, Repo)
    <3>1. Len(r) \in Nat /\ SubSeq(r, 1, Len(r)) = r /\ Len(r) \in 0..Len(r)
      BY <2>2
    <3>2. Repo \in NewDirs(s)
      BY <2>1, <2>2, <3>1 DEF NewDirs
    <3>3. ASSUME NEW q \in NewDirs(s) PROVE IsPrefix(q, Repo)
      <4>1. PICK k \in 0..Len(r) : q = y \o SubSeq(r, 1, k)
        BY <2>1 DEF NewDirs
      <4>2. PICK a, b : a = SubSeq(r, 1, k) /\ b = SubSeq(r, k + 1, Len(r)) /\ a \in Seq(Segment) /\ b \in Seq(Segment)
        <5>1. SubSeq(r, 1, k) \in Seq(Segment) /\ SubSeq(r, k + 1, Len(r)) \in Seq(Segment)
          BY <2>2
        <5>2. QED
          BY <5>1, Zenon
      <4>3. r = a \o b
        BY <2>2, <4>2, CutAt
      <4>4. y \o (a \o b) = (y \o a) \o b /\ y \o a \in Seq(Segment)
        <5>1. y \in Seq(Segment) /\ a \in Seq(Segment) /\ b \in Seq(Segment)
          BY <2>2, <4>2
        <5>2. y \o (a \o b) = (y \o a) \o b
          BY <5>1, Regroup, SMTT(30)
        <5>3. y \o a \in Seq(Segment)
          BY <5>1, PrefixJoin
        <5>4. QED
          BY <5>2, <5>3
      <4>5. PICK z : z = y \o a /\ z \in Seq(Segment) /\ z \o b = Repo /\ q = z
        BY <2>2, <4>1, <4>2, <4>3, <4>4
      <4>6. IsPrefix(z, z \o b)
        BY <4>2, <4>5, PrefixJoin
      <4>7. QED
        BY <4>5, <4>6
    <3>4. QED
      BY <3>2, <3>3
  <2>8. d[Repo].t = "dir"
    BY <1>1, <2>5, <2>7, NodesHold DEF WithDirs
  <2>9. QED
    BY <2>5, <2>6, <2>7, <2>8 DEF Made
<1>7. QED
  BY <1>4, <1>5, <1>6

\* A clone that failed is cleaned away.
LEMMA CleansUp ==
  ASSUME NEW f, FsInv(f), NEW d, Made(f, d), NEW g, g = [d EXCEPT ![Repo] = f[Repo]]
  PROVE  FsInv(g)
<1>1. Typed(f) /\ Tree(f) /\ Typed(d)
  BY Ground DEF Made
<1>2. Repo \in Seq(Segment) /\ IsPrefix(Home, Repo) /\ Repo \in Places
  BY RepoLies
<1>3. CASE f[Repo].t # "none"
  <2>1. d[Repo] = f[Repo]
    BY <1>2, <1>3 DEF Made, Extends
  <2>2. g = d
    BY <1>1, <1>2, <2>1 DEF Typed
  <2>3. QED
    BY <2>2 DEF Made
<1>4. CASE f[Repo].t = "none"
  <2>1. ASSUME NEW q \in Places, IsPrefix(Repo, q) PROVE g[q] = None
    <3>1. f[q] \in Nodes /\ q \in Seq(Segment)
      BY <1>1, PlacesAssumption DEF Typed
    <3>2. CASE q = Repo
      BY <1>1, <1>4, <3>1, <3>2, NodeIs DEF Typed
    <3>3. CASE q # Repo
      <4>1. f[q].t = "none"
        <5>1. SUFFICES ASSUME f[q].t # "none" PROVE FALSE
          OBVIOUS
        <5>2. f[Repo].t = "dir"
          BY <1>1, <1>2, <2>1, <3>3, <5>1, TreeUp
        <5>3. QED
          BY <1>4, <5>2
      <4>2. d[q] = f[q]
        <5>1. SUFFICES ASSUME IsPrefix(q, Repo) PROVE FALSE
          BY DEF Made
        <5>2. Len(q) <= Len(Repo)
          BY <1>2, <3>1, <5>1, PrefixSame
        <5>3. QED
          BY <1>2, <2>1, <3>1, <3>3, <5>2, PrefixSame
      <4>3. g[q] = d[q]
        BY <1>1, <3>3 DEF Typed
      <4>4. QED
        BY <3>1, <4>1, <4>2, <4>3, NodeIs
    <3>4. QED
      BY <3>2, <3>3
  <2>2. ASSUME NEW q \in Places, ~IsPrefix(Repo, q) PROVE g[q] = d[q]
    <3>1. q # Repo
      BY <1>2, <2>2, PrefixSelf
    <3>2. QED
      BY <1>1, <3>1 DEF Typed
  <2>3. g = RemoveAll(d, Repo)
    <3>1. g = [q \in Places |-> g[q]]
      BY <1>1, <1>2 DEF Typed
    <3>2. QED
      BY <2>1, <2>2, <3>1 DEF RemoveAll
  <2>4. QED
    BY <1>2, <2>3, RemoveKeeps DEF Made
<1>5. QED
  BY <1>3, <1>4

\* A path and one more name.
LEMMA OneName ==
  ASSUME NEW r \in Seq(Segment), NEW n \in Seq(Segment), Len(n) = 1
  PROVE  \E x \in Segment : r \o n = Append(r, x)
<1>1. n # <<>>
  <2>1. SUFFICES ASSUME n = <<>> PROVE Len(n) # 1
    OBVIOUS
  <2>2. Len(<<>>) = 0 /\ 0 # 1
    OBVIOUS
  <2>3. QED
    BY <2>1, <2>2, Zenon
<1>2. PICK x \in Segment, c \in Seq(Segment) : x = Head(n) /\ c = Tail(n)
  BY <1>1, SegParts
<1>3. PICK z \in Seq(Segment) : z = Append(r, x)
  <2>1. Append(r, x) \in Seq(Segment)
    BY <1>1, <1>2, SegParts
  <2>2. QED
    BY <2>1, Zenon
<1>4. Len(c) = 0 /\ z \o c = r \o n
  BY <1>1, <1>2, <1>3, SegParts, SMTT(30)
<1>5. c = <<>>
  BY <1>4
<1>6. z \o <<>> = z
  BY PrefixSelf
<1>7. QED
  BY <1>3, <1>4, <1>5, <1>6

\* A file of a tree of the repository.
LEMMA TreeFile ==
  ASSUME NEW n \in Names, NEW q, q = Repo \o n
  PROVE  /\ q \in Places /\ q \in Seq(Segment) /\ q # DotGit /\ IsPrefix(Home, q) /\ q # Home /\ q # Repo /\ Front(q) = Repo
         /\ RelPath(Repo, q) = n
         /\ \A p \in Places : p # <<>> => Front(p) # q
<1>1. Repo \in Seq(Segment) /\ IsPrefix(Home, Repo) /\ n \in Seq(Segment) /\ Len(n) = 1 /\ q \in Places /\ q # DotGit
  BY RepoLies, RepoAssumption
<1>2. PICK x \in Segment : Repo \o n = Append(Repo, x)
  BY <1>1, OneName
<1>3. q = Append(Repo, x)
  BY <1>2
<1>4. q \in Seq(Segment) /\ IsPrefix(Home, q) /\ q # Home /\ q # <<>> /\ Front(q) = Repo /\ Len(q) = Len(Repo) + 1
  BY <1>1, <1>3, UnderHome, Zenon
<1>5. q # Repo
  BY <1>1, <1>4
<1>6. SubSeq(Repo \o n, Len(Repo) + 1, Len(Repo \o n)) = n
  BY <1>1, RestOf
<1>7. RelPath(Repo, q) = n
  BY <1>6 DEF RelPath
<1>8. ASSUME NEW p \in Places, p # <<>>, Front(p) = q PROVE FALSE
  <2>1. p \in Seq(Segment)
    BY PlacesAssumption
  <2>2. IsPrefix(q, p) /\ q # p
    BY <1>8, <2>1, LastName
  <2>3. QED
    BY <2>2, RepoAssumption DEF Below
<1>9. QED
  BY <1>1, <1>4, <1>5, <1>7, <1>8

\* The files of a tree, put into the directory of the repository.
LEMMA ChecksOut ==
  ASSUME NEW d, FsInv(d), d[Repo] = Dir, d[DotGit] = Dir, NEW tree \in Trees, NEW g, g = CheckedOut(d, tree)
  PROVE  FsInv(g) /\ g[DotGit] = Dir /\ g[Home] = d[Home] /\ Stays(d, g)
<1>1. /\ Typed(d) /\ Tree(d) /\ d[Home].t \in {"dir", "none"}
      /\ \A p \in Places : d[p].t = "link" => p = Alias \/ (p = LinkPlace /\ d[p].to \in Targets)
      /\ \A p \in Places : ~IsPrefix(Home, p) => AtStart(d, p)
  BY Ground
<1>2. PICK X : X = {q \in Places : \E n \in Names : q = Repo \o n /\ tree[n] # NoFile}
  OBVIOUS
<1>3. ASSUME NEW q \in X
      PROVE  /\ q \in Places /\ g[q] \in Files0 /\ IsPrefix(Home, q) /\ q # Home /\ q # Repo /\ q # DotGit /\ Front(q) = Repo
             /\ \A p \in Places : p # <<>> => Front(p) # q
  <2>1. PICK n \in Names : q = Repo \o n /\ tree[n] # NoFile
    BY <1>2
  <2>2. /\ q \in Places /\ IsPrefix(Home, q) /\ q # Home /\ q # Repo /\ q # DotGit /\ Front(q) = Repo /\ RelPath(Repo, q) = n
        /\ \A p \in Places : p # <<>> => Front(p) # q
    BY <2>1, TreeFile
  <2>3. tree[n] \in Contents
    BY <2>1 DEF Trees
  <2>4. g[q] = File(tree[RelPath(Repo, q)], "rw")
    BY <2>1, <2>2, Zenon DEF CheckedOut
  <2>5. File(tree[n], "rw") \in Files0
    BY <2>3, NodesHold
  <2>6. QED
    BY <2>2, <2>4, <2>5
<1>4. ASSUME NEW q \in Places, q \notin X PROVE g[q] = d[q]
  <2>1. g[q] = IF q \in {Repo, DotGit} THEN Dir
               ELSE IF \E n \in Names : q = Repo \o n /\ tree[n] # NoFile
               THEN File(tree[RelPath(Repo, q)], "rw") ELSE d[q]
    BY Zenon DEF CheckedOut
  <2>2. QED
    BY <1>2, <1>4, <2>1
<1>5. Files0 \subseteq Nodes /\ (\A x \in Files0 : x.t = "file") /\ Dir.t = "dir"
  BY NodesHold DEF Files0
<1>6. g \in [Places -> Nodes]
  <2>1. g = [q \in Places |-> g[q]]
    BY DEF CheckedOut
  <2>2. \A q \in Places : g[q] \in Nodes
    BY <1>1, <1>3, <1>4, <1>5 DEF Typed
  <2>3. QED
    BY <2>1, <2>2
<1>7. Repo \in Places /\ DotGit \in Places /\ Repo \notin X /\ DotGit \notin X /\ Home \notin X
  BY <1>3, RepoLies
<1>8. ASSUME NEW p \in Places, p # <<>>, g[p].t # "none" PROVE g[Front(p)].t = "dir"
  <2>1. Front(p) \in Places
    BY <1>8, PlacesAssumption
  <2>2. CASE p \in X
    <3>1. Front(p) = Repo
      BY <1>3, <2>2
    <3>2. QED
      BY <1>4, <1>5, <1>7, <3>1
  <2>3. CASE p \notin X
    <3>1. d[p].t # "none" /\ d[Front(p)].t = "dir"
      BY <1>1, <1>4, <1>8, <2>3 DEF Tree
    <3>2. Front(p) \notin X
      BY <1>3, <1>8
    <3>3. QED
      BY <1>4, <2>1, <3>1, <3>2
  <2>4. QED
    BY <2>2, <2>3
<1>9. ASSUME NEW p \in Places, g[p].t = "link" PROVE p = Alias \/ (p = LinkPlace /\ g[p].to \in Targets)
  <2>1. p \notin X
    BY <1>3, <1>5, <1>9
  <2>2. QED
    BY <1>1, <1>4, <1>9, <2>1
<1>10. ASSUME NEW p \in Places, ~IsPrefix(Home, p) PROVE AtStart(g, p)
  BY <1>1, <1>3, <1>4, <1>10 DEF AtStart
<1>11. g[Home] = d[Home] /\ g[DotGit] = Dir
  BY <1>4, <1>7, Lie
<1>12. FsInv(g)
  BY <1>1, <1>6, <1>8, <1>9, <1>10, <1>11 DEF FsInv, Tree, LinksLead, isUnderDir, AtStart
<1>13. Stays(d, g)
  BY <1>3, <1>4 DEF Stays
<1>14. QED
  BY <1>11, <1>12, <1>13

\* What a clone keeps, whether it fails or not.
Kept(f, g, f2, g2) ==
  /\ FsInv(f2) /\ Stays(f, f2) /\ (f[Home].t = "dir" => f2[Home].t = "dir")
  /\ f2[DotGit].t = "none" => f[DotGit].t = "none" /\ g2 = g

\* The three results of git.PlainClone, in the directory that was found or made.
LEMMA ClonedKeeps ==
  ASSUME NEW f, FsInv(f), NEW home \in {Home, Alias}, NEW p \in {Repo, home \o RepoPath.segs},
         NEW g, NEW o \in Seq(Commits), NEW f2, NEW g2, Cloned(f, g, p, o, f2, g2)
  PROVE  Kept(f, g, f2, g2)
<1>1. PICK into : into = MkdirAll(f, p) /\ into.err = "none"
  BY DEF Cloned
<1>2. PICK d : d = into.fs /\ Made(f, d)
  BY <1>1, CloneDirs
<1>3. /\ FsInv(d) /\ Typed(d) /\ Tree(d) /\ Extends(f, d) /\ d[Repo].t = "dir" /\ Typed(f)
      /\ d[Repo] = Dir /\ Dir.t = "dir" /\ Dir \in Nodes
  <2>1. FsInv(d) /\ Typed(d) /\ Tree(d) /\ Typed(f) /\ Extends(f, d) /\ d[Repo].t = "dir"
    BY <1>2, Ground DEF Made
  <2>2. d[Repo] \in Nodes
    BY <2>1, RepoLies DEF Typed
  <2>3. QED
    BY <2>1, <2>2, NodeIs, NodesHold
<1>4. f[Home].t = "dir" => d[Home] = f[Home]
  BY <1>3, Lie DEF Extends
<1>5. Repo \in Places /\ DotGit \in Places /\ DotGit # Repo /\ DotGit # Home /\ IsPrefix(Home, DotGit) /\ Front(DotGit) = Repo
  BY RepoLies
<1>6. f[DotGit].t # "none" => d[DotGit] = f[DotGit]
  BY <1>3, <1>5 DEF Extends
<1>7. Stays(f, d)
  <2>1. SUFFICES ASSUME NEW q \in Places, ~IsPrefix(Home, q), d[q] # f[q] PROVE FALSE
    BY DEF Stays
  <2>2. IsPrefix(q, Repo) /\ q \in Seq(Segment) /\ Repo \in Seq(Segment) /\ IsPrefix(Home, Repo)
    BY <1>2, <2>1, RepoLies, PlacesAssumption DEF Made
  <2>3. IsPrefix(q, Home) /\ q # Home
    BY <2>1, <2>2, Lie, PrefixBoth, PrefixSelf
  <2>4. f[q].t = "dir"
    BY <2>2, <2>3, Ground
  <2>5. QED
    BY <1>3, <2>1, <2>4 DEF Extends
<1>8. \/ f2 = [d EXCEPT ![Repo] = f[Repo]] /\ g2 = g
      \/ f2 = [d EXCEPT ![DotGit] = Dir]
      \/ o # <<>> /\ f2 = CheckedOut(d, Last(o).tree)
  BY <1>1, <1>2 DEF Cloned
<1>9. CASE f2 = [d EXCEPT ![Repo] = f[Repo]] /\ g2 = g
  <2>1. FsInv(f2)
    BY <1>2, <1>9, CleansUp
  <2>2. f2[Repo] = f[Repo] /\ \A q \in Places : q # Repo => f2[q] = d[q]
    BY <1>3, <1>5, <1>9 DEF Typed
  <2>3. Stays(f, f2)
    BY <1>7, <2>2, RepoLies DEF Stays
  <2>4. QED
    BY <1>4, <1>5, <1>6, <1>9, <2>1, <2>2, <2>3, Lie DEF Kept
<1>10. PICK e : e = [d EXCEPT ![DotGit] = Dir]
  OBVIOUS
<1>11. FsInv(e) /\ e[DotGit] = Dir /\ \A q \in Places : q # DotGit => e[q] = d[q]
  <2>1. MayHold(d, DotGit, Dir)
    BY <1>3, <1>5 DEF MayHold
  <2>2. FsInv(e)
    BY <1>3, <1>10, <2>1, PutKeeps
  <2>3. QED
    BY <1>3, <1>5, <1>10, <2>2 DEF Typed
<1>12. Stays(f, e)
  BY <1>5, <1>11, <1>7 DEF Stays
<1>13. CASE f2 = e
  BY <1>12, <1>3, <1>4, <1>5, <1>11, <1>13, Lie DEF Kept
<1>14. CASE o # <<>> /\ f2 = CheckedOut(d, Last(o).tree)
  <2>1. PICK tree \in Trees : tree = Last(o).tree
    <3>1. Last(o) \in Commits
      BY <1>14, LastName
    <3>2. QED
      BY <3>1 DEF Commits
  <2>2. CheckedOut(d, tree) = CheckedOut(e, tree)
    <3>1. \A q \in Places : q \notin {Repo, DotGit} => e[q] = d[q]
      BY <1>11
    <3>2. QED
      BY <3>1, Zenon DEF CheckedOut
  <2>3. f2 = CheckedOut(e, tree)
    BY <1>14, <2>1, <2>2
  <2>4. e[Repo] = Dir
    BY <1>3, <1>5, <1>11
  <2>5. FsInv(f2) /\ f2[DotGit] = Dir /\ f2[Home] = e[Home] /\ Stays(e, f2)
    BY <1>11, <2>3, <2>4, ChecksOut
  <2>6. Stays(f, f2)
    BY <1>12, <2>5 DEF Stays
  <2>7. QED
    BY <1>3, <1>4, <1>5, <1>11, <2>5, <2>6, Lie DEF Kept
<1>15. QED
  BY <1>8, <1>9, <1>10, <1>13, <1>14

-----------------------------------------
(* What the reading calls answer *)

\* The checks of os.Stat.
LEMMA StatChecksAre ==
  ASSUME NEW s
  PROVE  /\ StatChecks(s) \in Seq(Codes)
         /\ StatChecks(s) = <<>> <=> s.err = "none"
         /\ FirstOf(StatChecks(s)) = "ok" <=> s.err = "none"
         /\ s.err = "notexist" => FirstOf(StatChecks(s)) = "NotFound"
<1>1. PICK y, z : /\ y = Check(s.err = "notexist", "NotFound") /\ z = Check(s.err # "none", "Internal")
                  /\ StatChecks(s) = y \o z
  BY DEF StatChecks
<1>2. y = (IF s.err = "notexist" THEN <<"NotFound">> ELSE <<>>) /\ z = IF s.err # "none" THEN <<"Internal">> ELSE <<>>
  BY <1>1 DEF Check
<1>3. "NotFound" \in Codes /\ "Internal" \in Codes
  BY DEF Codes
<1>4. /\ y \in Seq(Codes) /\ FirstOf(y) = (IF y = <<>> THEN "ok" ELSE "NotFound")
      /\ z \in Seq(Codes) /\ FirstOf(z) = IF z = <<>> THEN "ok" ELSE "Internal"
  BY <1>2, <1>3, CheckCode
<1>5. /\ y \o z \in Seq(Codes) /\ (y \o z = <<>> <=> y = <<>> /\ z = <<>>)
      /\ FirstOf(y \o z) = IF y = <<>> THEN FirstOf(z) ELSE FirstOf(y)
  BY <1>4, FirstOfJoin
<1>6. (y = <<>> <=> s.err # "notexist") /\ (z = <<>> <=> s.err = "none")
  BY <1>2
<1>7. QED
  BY <1>1, <1>4, <1>5, <1>6

\* The checks on a path, on what os.Stat says of it, and one more.
LEMMA ThreeChecks ==
  ASSUME NEW v, NEW s, NEW bad, NEW c, c = FirstOf(PathChecks(v) \o StatChecks(s) \o Check(bad, "InvalidArgument"))
  PROVE  /\ PathChecks(v) \o StatChecks(s) \o Check(bad, "InvalidArgument") \in Seq(Codes)
         /\ (c = "ok" <=> v.err \notin {"traversal", "other"} /\ s.err = "none" /\ ~bad)
         /\ (PathChecks(v) \o StatChecks(s) \o Check(bad, "InvalidArgument") = <<>> <=> c = "ok")
         /\ (v.err = "none" /\ s.err = "notexist" => c = "NotFound")
<1>1. PICK x, y, z : x = PathChecks(v) /\ y = StatChecks(s) /\ z = Check(bad, "InvalidArgument")
  OBVIOUS
<1>2. z = IF bad THEN <<"InvalidArgument">> ELSE <<>>
  BY <1>1 DEF Check
<1>3. "InvalidArgument" \in Codes
  BY DEF Codes
<1>4. z \in Seq(Codes) /\ FirstOf(z) = (IF z = <<>> THEN "ok" ELSE "InvalidArgument") /\ (z = <<>> <=> ~bad)
  <2>1. z \in {<<>>, <<"InvalidArgument">>} /\ (z = <<>> <=> ~bad)
    BY <1>2
  <2>2. QED
    BY <1>3, <2>1, CheckCode
<1>5. x \in Seq(Codes) /\ (x = <<>> <=> v.err \notin {"traversal", "other"}) /\ (FirstOf(x) = "ok" <=> x = <<>>)
  BY <1>1, PathChecksAre
<1>6. y \in Seq(Codes) /\ (y = <<>> <=> s.err = "none") /\ (FirstOf(y) = "ok" <=> y = <<>>)
      /\ (s.err = "notexist" => FirstOf(y) = "NotFound")
  BY <1>1, StatChecksAre
<1>7. /\ (x \o y) \o z \in Seq(Codes)
      /\ (x \o y) \o z = <<>> <=> x = <<>> /\ y = <<>> /\ z = <<>>
      /\ FirstOf((x \o y) \o z) = IF x # <<>> THEN FirstOf(x) ELSE IF y # <<>> THEN FirstOf(y) ELSE FirstOf(z)
  <2>1. x \in Seq(Codes) /\ y \in Seq(Codes) /\ z \in Seq(Codes)
    BY <1>4, <1>5, <1>6
  <2>2. QED
    BY <2>1, FirstOfThree
<1>8. c = FirstOf((x \o y) \o z)
  BY <1>1
<1>9. c = "ok" <=> x = <<>> /\ y = <<>> /\ z = <<>>
  BY <1>4, <1>5, <1>6, <1>7, <1>8
<1>10. v.err = "none" /\ s.err = "notexist" => c = "NotFound"
  BY <1>5, <1>6, <1>7, <1>8
<1>11. QED
  BY <1>1, <1>4, <1>5, <1>6, <1>7, <1>9, <1>10

\* The refusal of a path that leaves the home directory comes first.
LEMMA TraversalDenied ==
  ASSUME NEW v, v.err = "traversal", NEW s, NEW bad
  PROVE  FirstOf(PathChecks(v) \o StatChecks(s) \o Check(bad, "InvalidArgument")) = "PermissionDenied"
<1>1. PICK x, y, z : x = PathChecks(v) /\ y = StatChecks(s) /\ z = Check(bad, "InvalidArgument")
  OBVIOUS
<1>2. x = <<"PermissionDenied">> /\ "PermissionDenied" \in Codes /\ "InvalidArgument" \in Codes
  <2>1. Check(v.err = "traversal", "PermissionDenied") = <<"PermissionDenied">> /\ Check(v.err = "other", "Internal") = <<>>
    BY DEF Check
  <2>2. x = <<"PermissionDenied">> \o <<>>
    BY <1>1, <2>1, Zenon DEF PathChecks
  <2>3. "PermissionDenied" \in Codes /\ "InvalidArgument" \in Codes
    BY DEF Codes
  <2>4. QED
    BY <2>2, <2>3
<1>3. x \in Seq(Codes) /\ x # <<>> /\ FirstOf(x) = "PermissionDenied"
  BY <1>2, CheckCode
<1>4. y \in Seq(Codes)
  BY <1>1, StatChecksAre
<1>5. z \in {<<>>, <<"InvalidArgument">>}
  BY <1>1 DEF Check
<1>6. z \in Seq(Codes)
  BY <1>2, <1>5, CheckCode
<1>7. FirstOf((x \o y) \o z) = IF x # <<>> THEN FirstOf(x) ELSE IF y # <<>> THEN FirstOf(y) ELSE FirstOf(z)
  BY <1>3, <1>4, <1>6, FirstOfThree
<1>8. QED
  BY <1>1, <1>3, <1>7

\* readFile answers with the content of a file that is found, and that a missing one is not.
LEMMA ReadIs ==
  ASSUME NEW f, NEW home, NEW req, NEW offset, NEW limit, NEW v, v = ValidatePath(f, home, req),
         NEW s, s = Walk(f, v.path), NEW node, node = At(f, s.path), NEW a, a = readFile(f, home, req, offset, limit)
  PROVE  /\ v.err = "none" /\ s.err = "none" /\ node.t # "dir" => a = [code |-> "ok", data |-> Slice(node.data, offset, limit)]
         /\ v.err = "none" /\ s.err = "notexist" => a.code = "NotFound"
<1>1. PICK c : c = FirstOf(PathChecks(v) \o StatChecks(s) \o Check(node.t = "dir", "InvalidArgument"))
  OBVIOUS
<1>2. a = [code |-> c, data |-> IF c = "ok" THEN Slice(node.data, offset, limit) ELSE <<>>]
  BY <1>1, Zenon DEF readFile
<1>3. /\ (c = "ok" <=> v.err \notin {"traversal", "other"} /\ s.err = "none" /\ node.t # "dir")
      /\ (v.err = "none" /\ s.err = "notexist" => c = "NotFound")
  <2>1. PICK bad : bad = (node.t = "dir")
    OBVIOUS
  <2>2. c = FirstOf(PathChecks(v) \o StatChecks(s) \o Check(bad, "InvalidArgument"))
    BY <1>1, <2>1, Zenon
  <2>3. (c = "ok" <=> v.err \notin {"traversal", "other"} /\ s.err = "none" /\ ~bad)
        /\ (v.err = "none" /\ s.err = "notexist" => c = "NotFound")
    BY <2>2, ThreeChecks
  <2>4. QED
    BY <2>1, <2>3
<1>4. QED
  BY <1>2, <1>3

\* A directory that listFiles or glob goes on with.
MaySearch(f, v) == v.err \notin {"traversal", "other"} /\ Walk(f, v.path).err = "none"

\* The checks with which a listing or a search begins.
LEMMA DirChecksAre ==
  ASSUME NEW f, NEW v
  PROVE  /\ DirChecks(f, v) \in Seq(Codes)
         /\ FirstOf(DirChecks(f, v)) = "ok" => MaySearch(f, v)
         /\ DirChecks(f, v) = <<>> => MaySearch(f, v)
<1>1. PICK s : s = Walk(f, v.path)
  OBVIOUS
<1>2. PICK bad : bad = (At(f, s.path).t # "dir")
  OBVIOUS
<1>3. DirChecks(f, v) = PathChecks(v) \o StatChecks(s) \o Check(bad, "InvalidArgument")
  BY <1>1, <1>2, Zenon DEF DirChecks
<1>4. QED
  BY <1>1, <1>3, ThreeChecks DEF MaySearch

\* What listFiles shows.
LEMMA ListIs ==
  ASSUME NEW f, NEW home, NEW req, NEW recursive, NEW e \in listFiles(f, home, req, recursive).files,
         NEW v, v = ValidatePath(f, home, req)
  PROVE  /\ MaySearch(f, v)
         /\ \E q \in Places : Below(v.path, q) /\ e = [path |-> RelPath(Walk(f, home).path, q), type |-> f[q].t]
<1>1. PICK c, base : c = FirstOf(DirChecks(f, v)) /\ base = Walk(f, home).path
  OBVIOUS
<1>2. PICK shown : shown = {q \in Entries(f, v.path) : recursive \/ Len(q) = Len(v.path) + 1}
  OBVIOUS
<1>3. listFiles(f, home, req, recursive) =
        [code |-> c, files |-> IF c # "ok" THEN {} ELSE {[path |-> RelPath(base, q), type |-> f[q].t] : q \in shown}]
  BY <1>1, <1>2, Zenon DEF listFiles
<1>4. c = "ok" /\ e \in {[path |-> RelPath(base, q), type |-> f[q].t] : q \in shown}
  BY <1>3
<1>5. PICK q \in shown : e = [path |-> RelPath(base, q), type |-> f[q].t]
  BY <1>4
<1>6. q \in Places /\ Below(v.path, q)
  BY <1>2, <1>5 DEF Entries
<1>7. QED
  BY <1>1, <1>4, <1>5, <1>6, DirChecksAre

\* What glob finds.
LEMMA GlobIs ==
  ASSUME NEW f, NEW home, NEW req, NEW m \in glob(f, home, "**", req).matches, NEW v, v = ValidatePath(f, home, req)
  PROVE  MaySearch(f, v) /\ \E q \in Places : Below(v.path, q) /\ m = RelPath(v.path, q)
<1>1. PICK x, z, c : x = DirChecks(f, v) /\ z = Check("**" = "[", "InvalidArgument") /\ c = FirstOf(x \o z)
  OBVIOUS
<1>2. PICK shown : shown = GlobMatches(f, v.path, "**")
  OBVIOUS
<1>3. glob(f, home, "**", req) = [code |-> c, matches |-> IF c # "ok" THEN {} ELSE {RelPath(v.path, q) : q \in shown}]
  BY <1>1, <1>2, Zenon DEF glob
<1>4. c = "ok" /\ m \in {RelPath(v.path, q) : q \in shown}
  BY <1>3
<1>5. PICK q \in shown : m = RelPath(v.path, q)
  BY <1>4
<1>6. q \in Places /\ Below(v.path, q)
  BY <1>2, <1>5 DEF Entries, GlobMatches
<1>7. z = <<>>
  BY <1>1 DEF Check
<1>8. x \in Seq(Codes) /\ x \o z = x
  BY <1>1, <1>7, DirChecksAre
<1>9. QED
  BY <1>1, <1>4, <1>5, <1>6, <1>8, DirChecksAre

\* A name behind two joined sequences.
LEMMA AppendJoin ==
  ASSUME NEW d \in Seq(Segment), NEW e \in Seq(Segment), NEW x \in Segment
  PROVE  Append(d \o e, x) = d \o Append(e, x)
  OBVIOUS

\* Names without dots behind a path stay there.
LEMMA CleanJoin ==
  ASSUME NEW a \in Seq(Segment), NEW b \in Seq(Segment), \A i \in 1..Len(b) : b[i] \notin {".", ".."}
  PROVE  Clean(a \o b) = Clean(a) \o b
<1>1. PICK n \in Nat, k0 \in Nat : n = Len(b) /\ k0 = Len(a)
  OBVIOUS
<1>2. PICK c : c = a \o b /\ c \in Seq(Segment) /\ Len(c) = k0 + n
  BY <1>1, PrefixJoin
<1>3. (\A i \in 1..k0 : c[i] = a[i]) /\ \A i \in 1..n : c[k0 + i] = b[i]
  BY <1>1, <1>2, Joined
<1>4. PICK s : IsCleaning(c, s) /\ Clean(c) = s[k0 + n]
  <2>1. Len(c) \in Nat
    BY <1>2
  <2>2. PICK s : IsCleaning(c, s) /\ Clean(c) = s[Len(c)]
    BY <2>1, CleanIs
  <2>3. QED
    BY <1>2, <2>2, Zenon
<1>5. PICK u : IsCleaning(a, u) /\ Clean(a) = u[k0]
  BY <1>1, CleanIs
<1>6. /\ s[0] = <<>> /\ u[0] = <<>>
      /\ \A k \in 1..(k0 + n) : s[k] = CleanName(s[k - 1], c[k])
      /\ \A k \in 1..k0 : u[k] = CleanName(u[k - 1], a[k])
  <2>1. s = [k \in 0..(k0 + n) |-> IF k = 0 THEN <<>> ELSE CleanName(s[k - 1], c[k])]
    BY <1>2, <1>4 DEF IsCleaning
  <2>2. u = [k \in 0..k0 |-> IF k = 0 THEN <<>> ELSE CleanName(u[k - 1], a[k])]
    BY <1>1, <1>5 DEF IsCleaning
  <2>3. s[0] = <<>> /\ \A k \in 1..(k0 + n) : s[k] = CleanName(s[k - 1], c[k])
    BY <2>1
  <2>4. u[0] = <<>> /\ \A k \in 1..k0 : u[k] = CleanName(u[k - 1], a[k])
    BY <2>2
  <2>5. QED
    BY <2>3, <2>4
<1>7. s[k0] = u[k0]
  <2>1. PICK G : G = {k \in 0..k0 : s[k] = u[k]}
    OBVIOUS
  <2>2. 0 \in G
    BY <1>6, <2>1
  <2>3. ASSUME NEW k \in 1..k0, k - 1 \in G PROVE k \in G
    <3>1. s[k - 1] = u[k - 1] /\ k \in 0..k0 /\ k \in 1..(k0 + n)
      BY <2>1, <2>3
    <3>2. s[k] = CleanName(s[k - 1], c[k]) /\ u[k] = CleanName(u[k - 1], a[k]) /\ c[k] = a[k]
      BY <1>3, <1>6, <3>1
    <3>3. QED
      BY <2>1, <3>1, <3>2
  <2>4. 0..k0 \subseteq G
    BY <2>2, <2>3, UpTo
  <2>5. QED
    BY <2>1, <2>4
<1>8. PICK d : d = s[k0] /\ d \in Seq(Segment) /\ d = Clean(a)
  BY <1>5, <1>7, CleanTyped
<1>9. s[k0 + n] = d \o b
  <2>1. PICK G : G = {j \in 0..n : s[k0 + j] = d \o SubSeq(b, 1, j)}
    OBVIOUS
  <2>2. 0 \in G
    <3>1. SubSeq(b, 1, 0) = <<>> /\ d \o <<>> = d
      BY <1>8, PrefixSelf
    <3>2. s[k0 + 0] = s[k0] /\ 0 \in 0..n
      OBVIOUS
    <3>3. QED
      BY <1>8, <2>1, <3>1, <3>2, Zenon
  <2>3. ASSUME NEW j \in 1..n, j - 1 \in G PROVE j \in G
    <3>1. PICK e : e = SubSeq(b, 1, j - 1) /\ e \in Seq(Segment) /\ s[k0 + (j - 1)] = d \o e
      <4>1. SubSeq(b, 1, j - 1) \in Seq(Segment)
        BY <1>1
      <4>2. s[k0 + (j - 1)] = d \o SubSeq(b, 1, j - 1)
        BY <2>1, <2>3
      <4>3. QED
        BY <4>1, <4>2, Zenon
    <3>2. b[j] \in Segment /\ b[j] \notin {".", ".."} /\ SubSeq(b, 1, j) = Append(e, b[j])
      BY <1>1, <3>1
    <3>3. s[k0 + j] = CleanName(s[k0 + (j - 1)], b[j])
      <4>1. k0 + j \in 1..(k0 + n) /\ (k0 + j) - 1 = k0 + (j - 1)
        OBVIOUS
      <4>2. s[k0 + j] = CleanName(s[(k0 + j) - 1], c[k0 + j]) /\ c[k0 + j] = b[j]
        BY <1>3, <1>6, <4>1
      <4>3. QED
        BY <4>1, <4>2, Zenon
    <3>4. PICK y, x : y = d \o e /\ x = b[j] /\ y \in Seq(Segment) /\ x \in Segment /\ x \notin {".", ".."}
      BY <1>8, <3>1, <3>2, PrefixJoin
    <3>5. CleanName(y, x) = Append(y, x)
      BY <3>4, CleanNameIs
    <3>6. Append(d \o e, x) = d \o Append(e, x)
      <4>1. d \in Seq(Segment) /\ e \in Seq(Segment) /\ x \in Segment
        BY <1>8, <3>1, <3>4, Zenon
      <4>2. QED
        BY <4>1, AppendJoin, Zenon
    <3>7. s[k0 + j] = d \o SubSeq(b, 1, j)
      BY <3>1, <3>2, <3>3, <3>4, <3>5, <3>6, Zenon
    <3>8. QED
      BY <2>1, <3>7
  <2>4. 0..n \subseteq G
    BY <2>2, <2>3, UpTo
  <2>5. n \in G /\ SubSeq(b, 1, n) = b
    BY <1>1, <2>4
  <2>6. QED
    BY <2>1, <2>5
<1>10. QED
  BY <1>2, <1>4, <1>8, <1>9

\* A walk from a directory to an object below it, which is no link, finds that object.
LEMMA CanonBelow ==
  ASSUME NEW f, Shape(f), Tree(f), NEW P \in Places, f[P].t = "dir", NEW b \in Seq(Segment), NEW q \in Places, q = P \o b,
         f[q].t \in {"dir", "file"}, NEW m \in 0..MaxLinks
  PROVE  Resolve(f)[Stand(m, P, b)] = [err |-> "none", path |-> q, rest |-> <<>>]
<1>1. P \in Seq(Segment) /\ q \in Seq(Segment)
  BY PlacesAssumption
<1>2. PICK w : w = Stand(m, P, b) /\ w \in Walks /\ w.done = P /\ w.todo = b /\ All(w) = q
  <2>1. Stand(m, P, b) \in Walks /\ Stand(m, P, b).done = P /\ Stand(m, P, b).todo = b /\ All(Stand(m, P, b)) = P \o b
    BY <1>1, StandIs
  <2>2. QED
    BY <2>1, Zenon
<1>3. ASSUME NEW y \in Seq(Segment), IsPrefix(y, q), y # q PROVE y \in Places /\ f[y].t = "dir" /\ At(f, y).t = "dir"
  BY <1>3, TreeUp DEF At
<1>4. Straight(f, w)
  <2>1. ASSUME NEW y \in Places, IsPrefix(y, q) PROVE f[y].t # "link"
    BY <1>3, <2>1, PlacesAssumption
  <2>2. QED
    BY <1>2, <2>1 DEF Straight
<1>5. PICK r : r = Resolve(f)[w] /\ Freely(f, q, P, r)
  BY <1>2, <1>4, Free
<1>6. Found(f, r)
  <2>1. Seated(f, w)
    BY <1>2 DEF Seated
  <2>2. QED
    BY <1>2, <1>5, <2>1, WalkFinds
<1>7. r.path \in Seq(Segment) /\ IsPrefix(r.path, q) /\ At(f, q).t \in {"dir", "file"}
  BY <1>5 DEF Freely, At
<1>8. r.err = "none"
  BY <1>3, <1>5, <1>7 DEF Freely
<1>9. r.path = q /\ r.rest = <<>>
  BY <1>5, <1>8 DEF Freely
<1>10. r = [err |-> "none", path |-> q, rest |-> <<>>]
  BY <1>6, <1>8, <1>9 DEF Found
<1>11. QED
  BY <1>2, <1>5, <1>10

\* A path that leads to an object.
Reaches(f, a, P) == Walk(f, a).err = "none" /\ Walk(f, a).path = P

\* A path to a directory, continued, leads to what is below the directory.
LEMMA BelowWalk ==
  ASSUME NEW f, Shape(f), Tree(f), NEW a \in Seq(Segment), NEW b \in Seq(Segment),
         NEW P \in Places, Reaches(f, a, P), f[P].t = "dir", NEW q \in Places, q = P \o b, f[q].t \in {"dir", "file"}
  PROVE  Reaches(f, a \o b, q)
<1>1. Walk(f, a).err = "none" /\ Walk(f, a).path = P
  BY DEF Reaches
<1>2. PICK m \in 0..MaxLinks : Walk(f, a \o b) = Resolve(f)[Stand(m, P, b)]
  BY <1>1, WalkSplit
<1>3. m \in 0..MaxLinks
  BY <1>2
<1>4. Resolve(f)[Stand(m, P, b)] = [err |-> "none", path |-> q, rest |-> <<>>]
  BY <1>3, CanonBelow, ZenonT(30)
<1>5. Walk(f, a \o b) = [err |-> "none", path |-> q, rest |-> <<>>]
  BY <1>2, <1>4, Zenon
<1>6. QED
  BY <1>5 DEF Reaches

\* The path that a request stands for.
IsTarget(home, req, t) == t = Clean(Asked(home, req)) /\ t \in Seq(Segment) /\ (IsPrefix(home, t) \/ IsPrefix(Home, t))

\* A request that stands for a file below the home directory.
Denotes(f, home, req, q) ==
  /\ ~EmptyPath(req) /\ Walk(f, home).err = "none" /\ IsPrefix(Home, q) /\ f[q].t = "file"
  /\ \E t : IsTarget(home, req, t) /\ Reaches(f, t, q)

\* A request for a path that resolves to a file below the home directory reads that file.
LEMMA ReadsAt ==
  ASSUME NEW f, FsInv(f), NEW home \in {Home, Alias}, NEW req, NEW q, Denotes(f, home, req, q), NEW offset, NEW limit
  PROVE  readFile(f, home, req, offset, limit) = [code |-> "ok", data |-> Slice(f[q].data, offset, limit)]
<1>1. Shape(f) /\ Tree(f)
  BY Ground
<1>0. PICK t : /\ ~EmptyPath(req) /\ Walk(f, home).err = "none" /\ IsPrefix(Home, q) /\ f[q].t = "file"
               /\ IsTarget(home, req, t) /\ Reaches(f, t, q)
  BY DEF Denotes
<1>2. PICK h, r : h = Walk(f, home) /\ r = Walk(f, t) /\ h.err = "none" /\ h.path = Home /\ r.err = "none" /\ r.path = q
  BY <1>0, HomeIs DEF Reaches
<1>3. t = Clean(Asked(home, req)) /\ t \in Seq(Segment) /\ (isUnderDir(home, t) \/ isUnderDir(Home, t))
  BY <1>0 DEF IsTarget, isUnderDir
<1>4. q \in Places
  <2>1. Found(f, r)
    BY <1>1, <1>2, <1>3, WalkIs
  <2>2. QED
    BY <1>2, <2>1 DEF Found
<1>5. PICK v : v = ValidatePath(f, home, req)
  OBVIOUS
<1>6. v = ValidOf(f, home, req, h, t, r)
  BY <1>2, <1>3, <1>5, ValidateIs
<1>7. v = Valid(q)
  <2>1. h.err = "none" /\ h.path = Home /\ r.err = "none" /\ r.path = q /\ isUnderDir(Home, q)
    BY <1>0, <1>2 DEF isUnderDir
  <2>2. QED
    BY <1>0, <1>3, <1>6, <2>1 DEF ValidOf
<1>8. v.err = "none" /\ v.path = q
  BY <1>7, VerdictErrs
<1>9. PICK s, node : s = Walk(f, v.path) /\ node = At(f, s.path)
  OBVIOUS
<1>10. s.err = "none" /\ s.path = q
  BY <1>0, <1>1, <1>4, <1>8, <1>9, Canon
<1>11. node = f[q] /\ node.t # "dir"
  BY <1>0, <1>4, <1>9, <1>10 DEF At
<1>12. PICK a : a = readFile(f, home, req, offset, limit)
  OBVIOUS
<1>13. a = [code |-> "ok", data |-> Slice(node.data, offset, limit)]
  BY <1>5, <1>8, <1>9, <1>10, <1>11, <1>12, ReadIs
<1>14. QED
  BY <1>11, <1>12, <1>13

\* Joining names.
LEMMA JoinNames ==
  ASSUME NEW a \in Seq(Segment), NEW b \in Seq(Segment), NEW c \in Seq(Segment)
  PROVE  a \o (b \o c) = (a \o b) \o c
  BY Regroup

\* What the names of a request's path are.
LEMMA AskedIs ==
  ASSUME NEW home \in {Home, Alias}, NEW req, IsRequest(req)
  PROVE  /\ req.segs \in Seq(Segment) /\ home \in Seq(Segment) /\ Asked(home, req) \in Seq(Segment)
         /\ Clean(Asked(home, req)) \in Seq(Segment)
<1>1. req.segs \in Seq(Segment) /\ home \in Seq(Segment)
  BY Lie DEF IsRequest
<1>2. home \o req.segs \in Seq(Segment)
  BY <1>1, PrefixJoin
<1>3. Asked(home, req) \in Seq(Segment)
  BY <1>1, <1>2 DEF Asked
<1>4. QED
  BY <1>1, <1>3, CleanTyped

\* The two configured paths of the home directory are clean.
LEMMA HomeClean ==
  ASSUME NEW home \in {Home, Alias}
  PROVE  Clean(home) = home /\ \A i \in 1..Len(home) : home[i] \notin {".", ".."}
<1>1. home \in Places /\ home \in Seq(Segment) /\ DOMAIN home = 1..Len(home)
  BY Lie
<1>2. \A i \in 1..Len(home) : home[i] \notin {".", ".."}
  BY <1>1, PlacesAssumption
<1>3. QED
  BY <1>1, <1>2, CleanSame

\* An accepted path is where its request leads, or what its request stands for if nothing is there.
Leads(f, home, req, t, v) ==
  /\ Walk(f, home).err = "none" /\ Walk(f, home).path = Home /\ f[Home].t = "dir" /\ v.err = "none"
  /\ IsTarget(home, req, t)
  /\ \/ Walk(f, t).err = "none" /\ Walk(f, t).path = v.path /\ Real(f, v.path)
     \/ Walk(f, t).err = "notexist" /\ v.path = t /\ Behind(f, t)

\* An accepted path leads somewhere.
LEMMA LeadsTo ==
  ASSUME NEW f, FsInv(f), NEW home \in {Home, Alias}, NEW req, IsRequest(req),
         NEW v, v = ValidatePath(f, home, req), v.err \notin {"traversal", "other"}
  PROVE  \E t : Leads(f, home, req, t, v)
<1>1. f[Home].t = "dir" /\ v.err = "none" /\ (Real(f, v.path) \/ Behind(f, v.path))
  BY Validated
<1>2. PICK h, t, r : h = Walk(f, home) /\ t = Clean(Asked(home, req)) /\ r = Walk(f, t)
  OBVIOUS
<1>3. t \in Seq(Segment) /\ home \in Seq(Segment)
  BY <1>2, AskedIs
<1>4. v = ValidOf(f, home, req, h, t, r)
  BY <1>2, ValidateIs
<1>5. v # Failed /\ v # Traversal
  BY VerdictErrs
<1>6. h.err = "none"
  BY <1>4, <1>5 DEF ValidOf
<1>7. h.path = Home
  BY <1>2, <1>6, HomeIs
<1>8. Shape(f) /\ Tree(f)
  BY Ground
<1>9. Real(f, v.path) => Walk(f, v.path).err = "none" /\ Walk(f, v.path).path = v.path
  BY <1>8, Canon DEF Real
<1>10. CASE EmptyPath(req)
  <2>1. v = Valid(Home)
    BY <1>4, <1>6, <1>7, <1>10 DEF ValidOf
  <2>2. Asked(home, req) = home
    <3>1. ~req.abs /\ req.segs = <<>>
      BY <1>10 DEF EmptyPath
    <3>2. home \o <<>> = home
      BY <1>3, PrefixSelf
    <3>3. QED
      BY <3>1, <3>2 DEF Asked
  <2>3. t = home
    BY <1>2, <2>2, HomeClean
  <2>4. v.path = Home /\ Walk(f, t).path = Home /\ Walk(f, t).err = "none"
    BY <1>2, <1>6, <1>7, <2>1, <2>3, VerdictErrs
  <2>5. IsPrefix(home, t)
    BY <1>3, <2>3, PrefixSelf
  <2>6. Real(f, v.path)
    BY <1>1, <2>4, Lie, PrefixSelf DEF Real
  <2>7. Leads(f, home, req, t, v)
    BY <1>1, <1>2, <1>3, <1>6, <1>7, <2>4, <2>5, <2>6 DEF Leads, IsTarget
  <2>8. QED
    BY <2>7
<1>11. CASE ~EmptyPath(req)
  <2>1. isUnderDir(home, t) \/ isUnderDir(Home, t)
    BY <1>4, <1>5, <1>6, <1>7, <1>11 DEF ValidOf
  <2>2. IsTarget(home, req, t)
    BY <1>2, <1>3, <2>1 DEF IsTarget, isUnderDir
  <2>3. \/ r.err = "notexist" /\ v = validateNonExistentPath(f, Home, t)
        \/ r.err = "none" /\ isUnderDir(Home, r.path) /\ v = Valid(r.path)
    BY <1>4, <1>5, <1>6, <1>7, <1>11 DEF ValidOf
  <2>4. CASE r.err = "none" /\ isUnderDir(Home, r.path) /\ v = Valid(r.path)
    <3>1. v.path = r.path
      BY <2>4, VerdictErrs
    <3>2. Found(f, r)
      BY <1>2, <1>3, <1>8, WalkIs
    <3>3. Real(f, v.path)
      BY <2>4, <3>1, <3>2 DEF Real, Found, isUnderDir
    <3>4. Leads(f, home, req, t, v)
      BY <1>1, <1>2, <1>6, <1>7, <2>2, <2>4, <3>1, <3>3 DEF Leads
    <3>5. QED
      BY <3>4
  <2>5. CASE r.err = "notexist" /\ v = validateNonExistentPath(f, Home, t)
    <3>1. <<>> \in Places /\ f[<<>>].t = "dir"
      BY <1>8, PlacesAssumption DEF Shape
    <3>2. Walk(f, <<>>).err = "none"
      BY <1>8, <3>1, Canon
    <3>3. t # <<>>
      BY <1>2, <2>5, <3>2
    <3>4. Lstat(f, <<>>).err # "notexist"
      <4>1. Lstat(f, <<>>) = Walk(f, <<>>)
        BY DEF Lstat
      <4>2. QED
        BY <3>2, <4>1
    <3>5. v.path = t
      BY <1>1, <1>3, <2>5, <3>3, <3>4, NonExistentIs
    <3>6. ~Real(f, v.path)
      BY <1>2, <1>9, <2>5, <3>5
    <3>7. Leads(f, home, req, t, v)
      BY <1>1, <1>2, <1>6, <1>7, <2>2, <2>5, <3>5, <3>6 DEF Leads
    <3>8. QED
      BY <3>7
  <2>6. QED
    BY <2>3, <2>4, <2>5
<1>12. QED
  BY <1>10, <1>11

\* A directory that is searched is a directory below the home directory, to which its request leads.
LEMMA SearchedIs ==
  ASSUME NEW f, FsInv(f), NEW home \in {Home, Alias}, NEW req, IsRequest(req),
         NEW v, v = ValidatePath(f, home, req), MaySearch(f, v)
  PROVE  \E t : Leads(f, home, req, t, v) /\ Walk(f, t).err = "none"
<1>1. PICK t : Leads(f, home, req, t, v)
  BY LeadsTo DEF MaySearch
<1>2. Walk(f, t).err = "none"
  BY <1>1 DEF Leads, MaySearch
<1>3. QED
  BY <1>1, <1>2

\* What is below a directory that is searched: a path without dots, and a rest.
LEMMA EntryIs ==
  ASSUME NEW P \in Places, IsPrefix(Home, P), NEW q \in Places, Below(P, q), NEW m, m = RelPath(P, q)
  PROVE  /\ m \in Seq(Segment) /\ m # <<>> /\ q = P \o m /\ IsPrefix(Home, q) /\ q # Home
         /\ \A i \in 1..Len(m) : m[i] \notin {".", ".."}
<1>1. P \in Seq(Segment) /\ q \in Seq(Segment) /\ IsPrefix(P, q) /\ P # q
  BY PlacesAssumption DEF Below
<1>2. PICK r \in Seq(Segment) : q = P \o r
  BY <1>1, PrefixRest
<1>3. m = r
  BY <1>1, <1>2, RestOf DEF RelPath
<1>4. r # <<>>
  <2>1. r = <<>> => P \o r = P
    BY <1>1, PrefixSelf
  <2>2. QED
    BY <1>1, <1>2, <2>1
<1>5. IsPrefix(Home, q)
  BY <1>1, Lie, PrefixTrans
<1>6. q # Home
  <2>1. SUFFICES ASSUME q = Home PROVE FALSE
    OBVIOUS
  <2>2. Len(P) <= Len(q) /\ Len(q) <= Len(P)
    BY <1>1, <2>1, Lie, PrefixSame
  <2>3. QED
    BY <1>1, <2>2, PrefixSame
<1>7. ASSUME NEW i \in 1..Len(r) PROVE r[i] \notin {".", ".."}
  <2>1. q[Len(P) + i] = r[i] /\ Len(q) = Len(P) + Len(r)
    BY <1>1, <1>2, Joined
  <2>2. Len(P) + i \in DOMAIN q
    <3>1. DOMAIN q = 1..Len(q) /\ Len(P) \in Nat /\ Len(r) \in Nat
      BY <1>1
    <3>2. QED
      BY <2>1, <3>1
  <2>3. QED
    BY <2>1, <2>2, PlacesAssumption
<1>8. QED
  BY <1>2, <1>3, <1>4, <1>5, <1>6, <1>7

\* A request for a path and names behind it.
Continues(home, req, t, m) == Clean(Asked(home, req)) = t \o m /\ ~EmptyPath(req)

\* A request that reads all of a file.
Reads(f, home, req, q) == readFile(f, home, req, 0, 0) = [code |-> "ok", data |-> Slice(f[q].data, 0, 0)]

\* A request that leads to a directory, continued with names, reads a file below that directory.
LEMMA ReadsBelow ==
  ASSUME NEW f, FsInv(f), NEW home \in {Home, Alias}, Walk(f, home).err = "none",
         NEW t \in Seq(Segment), IsPrefix(home, t) \/ IsPrefix(Home, t), NEW P \in Places, Reaches(f, t, P), IsPrefix(Home, P),
         NEW q \in Places, Below(P, q), f[q].t = "file", NEW req, Continues(home, req, t, RelPath(P, q))
  PROVE  Reads(f, home, req, q)
<1>1. Shape(f) /\ Tree(f)
  BY Ground
<1>2. PICK m \in Seq(Segment) : m = RelPath(P, q) /\ q = P \o m /\ IsPrefix(Home, q)
  BY EntryIs
<1>3. f[P].t = "dir"
  BY <1>1, TreeUp, PlacesAssumption DEF Below
<1>4. Reaches(f, t \o m, q)
  <2>1. m \in Seq(Segment) /\ q = P \o m /\ f[q].t \in {"dir", "file"}
    BY <1>2
  <2>2. QED
    BY <1>1, <1>3, <2>1, BelowWalk, ZenonT(30)
<1>5. PICK u : u = t \o m /\ u \in Seq(Segment) /\ IsPrefix(t, u)
  BY <1>2, PrefixJoin
<1>6. IsPrefix(home, u) \/ IsPrefix(Home, u)
  BY <1>5, Lie, PrefixTrans
<1>7. IsTarget(home, req, u) /\ ~EmptyPath(req)
  BY <1>2, <1>5, <1>6 DEF IsTarget, Continues
<1>8. Reaches(f, u, q) /\ IsPrefix(Home, q)
  BY <1>2, <1>4, <1>5
<1>9. Denotes(f, home, req, q)
  BY <1>7, <1>8 DEF Denotes
<1>10. QED
  BY <1>9, ReadsAt DEF Reads

\* What a listing shows as a file can be read by its name.
LEMMA ListedIsRead ==
  ASSUME NEW f, FsInv(f), NEW home \in {Home, Alias}, NEW req, IsRequest(req), NEW recursive,
         NEW e \in listFiles(f, home, req, recursive).files, e.type = "file"
  PROVE  readFile(f, home, Rel(e.path), 0, 0).code = "ok"
<1>1. PICK v : v = ValidatePath(f, home, req)
  OBVIOUS
<1>2. /\ MaySearch(f, v)
      /\ \E q \in Places : Below(v.path, q) /\ e = [path |-> RelPath(Walk(f, home).path, q), type |-> f[q].t]
  BY <1>1, ListIs
<1>3. PICK t : Leads(f, home, req, t, v) /\ Walk(f, t).err = "none"
  BY <1>1, <1>2, SearchedIs
<1>4. /\ Walk(f, home).err = "none" /\ Walk(f, home).path = Home /\ f[Home].t = "dir" /\ Real(f, v.path)
      /\ home \in Seq(Segment) /\ IsPrefix(home, home)
  <2>1. home \in Seq(Segment)
    BY Lie
  <2>2. QED
    BY <1>3, <2>1, PrefixSelf DEF Leads
<1>5. PICK q \in Places : Below(v.path, q) /\ e = [path |-> RelPath(Home, q), type |-> f[q].t]
  BY <1>2, <1>4
<1>6. f[q].t = "file" /\ e.path = RelPath(Home, q)
  BY <1>5
<1>7. Below(Home, q)
  <2>1. v.path \in Places /\ IsPrefix(Home, v.path)
    BY <1>4 DEF Real
  <2>2. IsPrefix(Home, q) /\ q # Home
    BY <1>5, <2>1, EntryIs
  <2>3. QED
    BY <2>2 DEF Below
<1>8. PICK m : m = e.path /\ m \in Seq(Segment) /\ m # <<>> /\ \A i \in 1..Len(m) : m[i] \notin {".", ".."}
  BY <1>6, <1>7, EntryIs, Lie, PrefixSelf
<1>9. PICK rq : rq = Rel(m) /\ ~rq.abs /\ rq.segs = m
  <2>1. PICK rq : rq = Rel(m)
    OBVIOUS
  <2>2. rq = [abs |-> FALSE, segs |-> m]
    BY <2>1 DEF Rel
  <2>3. ~rq.abs /\ rq.segs = m
    BY <2>2
  <2>4. QED
    BY <2>1, <2>3
<1>10. Asked(home, rq) = home \o m /\ ~EmptyPath(rq)
  BY <1>8, <1>9 DEF Asked, EmptyPath
<1>11. Clean(home \o m) = Clean(home) \o m
  BY <1>4, <1>8, CleanJoin
<1>12. Clean(Asked(home, rq)) = home \o m
  BY <1>10, <1>11, HomeClean
<1>13. Reads(f, home, rq, q)
  <2>1. Home \in Places /\ IsPrefix(Home, Home) /\ home \in Seq(Segment) /\ IsPrefix(home, home)
    BY <1>4, Lie, PrefixSelf
  <2>2. Continues(home, rq, home, RelPath(Home, q)) /\ Reaches(f, home, Home)
    BY <1>4, <1>6, <1>8, <1>10, <1>12 DEF Continues, Reaches
  <2>3. QED
    BY <1>4, <1>6, <1>7, <2>1, <2>2, ReadsBelow, ZenonT(30)
<1>14. readFile(f, home, rq, 0, 0).code = "ok"
  BY <1>13 DEF Reads
<1>15. QED
  BY <1>8, <1>9, <1>14

\* A file below a directory that is searched is read by its name there, behind the path of that directory.
LEMMA BelowIsRead ==
  ASSUME NEW f, FsInv(f), NEW home \in {Home, Alias}, NEW req, IsRequest(req),
         NEW v, v = ValidatePath(f, home, req), MaySearch(f, v),
         NEW q \in Places, Below(v.path, q), f[q].t = "file", NEW m, m = RelPath(v.path, q),
         NEW rq, rq = [req EXCEPT !.segs = @ \o m]
  PROVE  Reads(f, home, rq, q)
<1>2. PICK t : Leads(f, home, req, t, v) /\ Walk(f, t).err = "none"
  BY SearchedIs
<1>3. /\ Walk(f, home).err = "none" /\ Real(f, v.path) /\ IsTarget(home, req, t) /\ Walk(f, t).path = v.path
  BY <1>2 DEF Leads
<1>4. PICK P \in Places : P = v.path /\ IsPrefix(Home, P)
  BY <1>3 DEF Real
<1>6. m \in Seq(Segment) /\ m # <<>> /\ q = P \o m /\ \A i \in 1..Len(m) : m[i] \notin {".", ".."}
  BY <1>4, EntryIs
<1>8. rq.abs = req.abs /\ rq.segs = req.segs \o m
  <2>1. PICK s : s = req.segs \o m
    OBVIOUS
  <2>2. rq = [req EXCEPT !.segs = s]
    BY <2>1
  <2>3. rq.abs = req.abs /\ rq.segs = s
    BY <2>2 DEF IsRequest
  <2>4. QED
    BY <2>1, <2>2, <2>3, Zenon
<1>9. req.segs \in Seq(Segment) /\ home \in Seq(Segment) /\ Asked(home, req) \in Seq(Segment)
  BY AskedIs
<1>10. Asked(home, rq) = Asked(home, req) \o m
  <2>1. home \o (req.segs \o m) = (home \o req.segs) \o m
    <3>1. PICK s : s = req.segs /\ s \in Seq(Segment) /\ m \in Seq(Segment) /\ home \in Seq(Segment)
      BY <1>6, <1>9
    <3>2. home \o (s \o m) = (home \o s) \o m
      BY <3>1, JoinNames, Zenon
    <3>3. QED
      BY <3>1, <3>2, Zenon
  <2>2. QED
    BY <1>8, <2>1 DEF Asked
<1>11. ~EmptyPath(rq)
  <2>1. req.segs \o m # <<>>
    BY <1>6, <1>9
  <2>2. QED
    BY <1>8, <2>1 DEF EmptyPath
<1>12. t = Clean(Asked(home, req)) /\ t \in Seq(Segment) /\ (IsPrefix(home, t) \/ IsPrefix(Home, t))
  BY <1>3 DEF IsTarget
<1>13. Clean(Asked(home, rq)) = t \o m
  BY <1>6, <1>9, <1>10, <1>12, CleanJoin
<1>14. Reaches(f, t, P) /\ Continues(home, rq, t, RelPath(P, q))
  BY <1>2, <1>3, <1>4, <1>11, <1>13 DEF Reaches, Continues
<1>15. Reads(f, home, rq, q)
  <2>1. q \in Places /\ P \in Places /\ IsPrefix(Home, P) /\ Below(P, q) /\ Walk(f, home).err = "none"
    BY <1>3, <1>4
  <2>2. t \in Seq(Segment) /\ (IsPrefix(home, t) \/ IsPrefix(Home, t))
    BY <1>12
  <2>3. QED
    BY <1>14, <2>1, <2>2, ReadsBelow, ZenonT(30)
<1>16. QED
  BY <1>15

\* What glob finds and is a file can be read by its name below the directory searched.
LEMMA GlobbedIsRead ==
  ASSUME NEW f, FsInv(f), NEW home \in {Home, Alias}, NEW req, IsRequest(req),
         NEW m \in glob(f, home, "**", req).matches, At(f, ValidatePath(f, home, req).path \o m).t = "file"
  PROVE  readFile(f, home, [req EXCEPT !.segs = @ \o m], 0, 0).code = "ok"
<1>1. PICK v : v = ValidatePath(f, home, req)
  OBVIOUS
<1>2. MaySearch(f, v) /\ \E q \in Places : Below(v.path, q) /\ m = RelPath(v.path, q)
  BY <1>1, GlobIs
<1>3. PICK q \in Places : Below(v.path, q) /\ m = RelPath(v.path, q)
  BY <1>2
<1>4. v.path \in Places /\ IsPrefix(Home, v.path)
  BY <1>1, <1>2, SearchedIs DEF Leads, Real
<1>5. f[q].t = "file"
  <2>1. q = v.path \o m
    BY <1>3, <1>4, EntryIs
  <2>2. At(f, q).t = "file"
    BY <1>1, <2>1
  <2>3. QED
    BY <2>2 DEF At
<1>6. PICK rq : rq = [req EXCEPT !.segs = @ \o m]
  OBVIOUS
<1>7. Reads(f, home, rq, q)
  BY <1>1, <1>2, <1>3, <1>5, <1>6, BelowIsRead
<1>8. readFile(f, home, rq, 0, 0).code = "ok"
  BY <1>7 DEF Reads
<1>9. QED
  BY <1>6, <1>8

-----------------------------------------
(* What was written is read *)

\* The two parts of an answer.
LEMMA AnswerIs ==
  ASSUME NEW c, NEW code, NEW f, c = [code |-> code, fs |-> f]
  PROVE  c.code = code /\ c.fs = f
  OBVIOUS

\* What writeFile answers on a disk that is not full: an error, with at most directories made,
\* or success, with the file in place.
Parts(f, home, req, v, dirs, w, node) ==
  /\ v = ValidatePath(f, home, req) /\ dirs = MkdirAll(f, Front(v.path))
  /\ w = CreateAt(dirs.fs, v.path) /\ node = At(dirs.fs, w.path)
WriteRefused(f, req, v, dirs, c) == c.code # "ok" /\ (c.fs = f \/ (Accepted(req, v) /\ c.fs = dirs.fs))
WriteDone(req, data, mode, v, dirs, w, node, c) ==
  /\ c.code = "ok" /\ Accepted(req, v) /\ dirs.err = "none" /\ w.err = "none" /\ node.t # "dir"
  /\ c.fs = [dirs.fs EXCEPT ![w.path] = File(data, ModeAfter(node, mode))]

\* What writeFile answers.
LEMMA WriteAnswers ==
  ASSUME NEW f, NEW home, NEW req, NEW data, NEW mode, NEW v, NEW dirs, NEW w, NEW node, Parts(f, home, req, v, dirs, w, node)
  PROVE  \/ WriteRefused(f, req, v, dirs, writeFile(f, home, req, data, mode, FALSE))
         \/ WriteDone(req, data, mode, v, dirs, w, node, writeFile(f, home, req, data, mode, FALSE))
<1>0. PICK c : c = writeFile(f, home, req, data, mode, FALSE)
  OBVIOUS
<1>1. PICK rejected : rejected = FirstOf(Check(EmptyPath(req), "InvalidArgument") \o PathChecks(v))
  OBVIOUS
<1>2. PICK x, y : /\ x = Check(dirs.err # "none" \/ w.err # "none" \/ node.t = "dir", "Internal")
                  /\ y = Check(ReadOnly(node), "PermissionDenied")
  OBVIOUS
<1>3. PICK code, new : code = FirstOf(x \o y) /\ new = File(data, ModeAfter(node, mode))
  OBVIOUS
<1>4. writeFile(f, home, req, data, mode, FALSE) =
        IF rejected # "ok" THEN [code |-> rejected, fs |-> f]
        ELSE IF code # "ok" THEN [code |-> code, fs |-> dirs.fs]
        ELSE [code |-> "ok", fs |-> [dirs.fs EXCEPT ![w.path] = new]]
  BY <1>1, <1>2, <1>3, Zenon DEF writeFile, Parts
<1>5. CASE rejected # "ok"
  <2>1. c = [code |-> rejected, fs |-> f]
    BY <1>0, <1>4, <1>5, Zenon
  <2>2. c.code = rejected /\ c.fs = f
    BY <2>1, AnswerIs, Zenon
  <2>3. QED
    BY <1>0, <1>5, <2>2, Zenon DEF WriteRefused
<1>6. CASE rejected = "ok" /\ code # "ok"
  <2>1. c = [code |-> code, fs |-> dirs.fs]
    BY <1>0, <1>4, <1>6, Zenon
  <2>2. c.code = code /\ c.fs = dirs.fs
    BY <2>1, AnswerIs, Zenon
  <2>3. QED
    <3>1. Accepted(req, v)
      BY <1>1, <1>6, RejectedIs
    <3>2. QED
      BY <1>0, <1>6, <2>2, <3>1, Zenon DEF WriteRefused
<1>7. CASE rejected = "ok" /\ code = "ok"
  <2>1. c = [code |-> "ok", fs |-> [dirs.fs EXCEPT ![w.path] = new]]
    BY <1>0, <1>4, <1>7, Zenon
  <2>2. Accepted(req, v)
    BY <1>1, <1>7, RejectedIs
  <2>3. x = (IF dirs.err # "none" \/ w.err # "none" \/ node.t = "dir" THEN <<"Internal">> ELSE <<>>)
        /\ y = IF ReadOnly(node) THEN <<"PermissionDenied">> ELSE <<>>
    BY <1>2 DEF Check
  <2>4. "Internal" \in Codes /\ "PermissionDenied" \in Codes
    BY DEF Codes
  <2>5. x \in Seq(Codes) /\ FirstOf(x) = (IF x = <<>> THEN "ok" ELSE "Internal") /\ y \in Seq(Codes)
    BY <2>3, <2>4, CheckCode
  <2>6. FirstOf(x \o y) = IF x = <<>> THEN FirstOf(y) ELSE FirstOf(x)
    BY <2>5, FirstOfJoin
  <2>7. x = <<>>
    BY <1>3, <1>7, <2>5, <2>6
  <2>8. <<"Internal">> # <<>>
    OBVIOUS
  <2>9. dirs.err = "none" /\ w.err = "none" /\ node.t # "dir"
    BY <2>3, <2>7, <2>8, Zenon
  <2>10. c.code = "ok" /\ c.fs = [dirs.fs EXCEPT ![w.path] = new]
    <3>1. PICK d : d = [dirs.fs EXCEPT ![w.path] = new]
      OBVIOUS
    <3>2. c = [code |-> "ok", fs |-> d]
      BY <2>1, <3>1, Zenon
    <3>3. c.code = "ok" /\ c.fs = d
      BY <3>2, AnswerIs, Zenon
    <3>4. QED
      BY <3>1, <3>3, Zenon
  <2>11. QED
    BY <1>0, <1>3, <2>2, <2>9, <2>10, Zenon DEF WriteDone
<1>8. QED
  BY <1>5, <1>6, <1>7

\* A walk that found an object, or missed only its last name, finds the file that was put there.
LEMMA PutFinds ==
  ASSUME NEW f, Shape(f), NEW g, Shape(g), NEW q \in Places, \A y \in Places : y # q => g[y] = f[y],
         f[q].t \in {"none", "file"}, g[q].t = "file", NEW w \in Walks,
         Resolve(f)[w].err = "none" \/ (Resolve(f)[w].err = "notexist" /\ Resolve(f)[w].path = q /\ Resolve(f)[w].rest = <<>>)
  PROVE  Resolve(g)[w].err = "none" /\ Resolve(g)[w].path = Resolve(f)[w].path
<1> DEFINE Fine(u) == \/ Resolve(f)[u].err = "none"
                      \/ Resolve(f)[u].err = "notexist" /\ Resolve(f)[u].path = q /\ Resolve(f)[u].rest = <<>>
           Goal(u) == Resolve(g)[u].err = "none" /\ Resolve(g)[u].path = Resolve(f)[u].path
<1>1. PICK Bad : Bad = {u \in Walks : Fine(u) /\ ~Goal(u)}
  OBVIOUS
<1>2. ASSUME NEW u \in Walks, Fine(u), Ends(f, u) PROVE Goal(u)
  <2>1. PICK r : r = Resolve(f)[u] /\ Ended(f, u, r)
    BY <1>2, EndIs
  <2>2. r.err = "none" \/ (r.err = "notexist" /\ r.path = q /\ r.rest = <<>>)
    BY <1>2, <2>1
  <2>3. CASE u.todo = <<>> /\ r = [err |-> "none", path |-> u.done, rest |-> <<>>]
    <3>1. Ends(g, u)
      BY <2>3 DEF Ends
    <3>2. PICK s : s = Resolve(g)[u] /\ Ended(g, u, s)
      BY <3>1, EndIs
    <3>3. s = r
      BY <2>3, <3>2 DEF Ended
    <3>4. s.err = "none" /\ s.path = r.path
      BY <2>3, <3>3
    <3>5. QED
      BY <2>1, <3>2, <3>4
  <2>4. CASE u.todo # <<>> /\ At(f, NextName(u)).t = "none" /\ r = [err |-> "notexist", path |-> NextName(u), rest |-> Tail(u.todo)]
    <3>1. NextName(u) = q /\ Tail(u.todo) = <<>> /\ r.path = q
      BY <2>2, <2>4
    <3>2. At(g, NextName(u)) = g[q]
      BY <3>1 DEF At
    <3>3. ~Ends(g, u)
      BY <2>4, <3>1, <3>2 DEF Ends
    <3>4. PICK x : x = After(g, u)
      OBVIOUS
    <3>5. x \in Walks /\ Resolve(g)[x] = Resolve(g)[u] /\ x = [links |-> u.links, done |-> q, todo |-> <<>>]
      <4>1. g[NextName(u)].t # "link" /\ NextName(u) = q /\ Tail(u.todo) = <<>>
        BY <3>1
      <4>2. After(g, u) \in Walks /\ Resolve(g)[After(g, u)] = Resolve(g)[u]
            /\ After(g, u) = [links |-> u.links, done |-> NextName(u), todo |-> Tail(u.todo)]
        BY <3>3, <4>1, AfterIs
      <4>3. QED
        BY <3>4, <4>1, <4>2, Zenon
    <3>6. x.done = q /\ x.todo = <<>>
      BY <3>5
    <3>7. Ends(g, x)
      BY <3>6 DEF Ends
    <3>8. PICK s : s = Resolve(g)[x] /\ Ended(g, x, s)
      BY <3>5, <3>7, EndIs
    <3>9. s.err = "none" /\ s.path = q
      BY <3>6, <3>8 DEF Ended
    <3>10. QED
      BY <2>1, <3>1, <3>5, <3>8, <3>9
  <2>5. QED
    BY <2>1, <2>2, <2>3, <2>4 DEF Ended
<1>3. ASSUME NEW u \in Walks, Fine(u), ~Goal(u), ~Ends(f, u) PROVE After(f, u) \in Walks /\ Fine(After(f, u)) /\ ~Goal(After(f, u))
  <2>1. PICK y : y = NextName(u) /\ y \in Places /\ At(f, y) = f[y] /\ f[y].t \in {"dir", "file", "link"} /\ u.todo # <<>>
                 /\ (f[y].t = "file" => Tail(u.todo) = <<>>) /\ (f[y].t = "link" => u.links # 0)
    BY <1>3, AfterIs
  <2>2. At(g, y) = g[y]
    BY <2>1 DEF At
  <2>3. y # q => g[y] = f[y]
    BY <2>1
  <2>4. g[y].t = f[y].t /\ (f[y].t = "link" => g[y] = f[y])
    BY <2>1, <2>3
  <2>5. ~Ends(g, u)
    BY <2>1, <2>2, <2>4 DEF Ends
  <2>6. After(g, u) = After(f, u)
    BY <2>1, <2>2, <2>4 DEF After
  <2>7. After(f, u) \in Walks /\ Resolve(f)[After(f, u)] = Resolve(f)[u]
    BY <1>3, AfterIs
  <2>8. Resolve(g)[After(g, u)] = Resolve(g)[u]
    BY <2>5, AfterIs
  <2>9. QED
    BY <1>3, <2>6, <2>7, <2>8
<1> HIDE DEF Fine, Goal
<1>4. Bad \subseteq Walks /\ \A u \in Bad : ~Ends(f, u) /\ After(f, u) \in Bad
  BY <1>1, <1>2, <1>3
<1>5. Bad = {}
  BY <1>4, WalksEnd, ShapeIs
<1>6. Fine(w)
  BY DEF Fine
<1>7. Goal(w)
  BY <1>1, <1>5, <1>6
<1>8. QED
  BY <1>7 DEF Goal

\* What os.MkdirAll changes are missing names, which become directories.
LEMMA DirsOnly ==
  ASSUME NEW f, NEW p, NEW q \in Places, f \in [Places -> Nodes]
  PROVE  MkdirAll(f, p).fs[q] # f[q] => MkdirAll(f, p).fs[q] = Dir
<1>1. PICK s, m : s = Walk(f, p) /\ m = MkdirAll(f, p)
  OBVIOUS
<1>2. m.fs = f \/ m.fs = WithDirs(f, NewDirs(s))
  BY <1>1, MkdirIs
<1>3. WithDirs(f, NewDirs(s))[q] # f[q] => WithDirs(f, NewDirs(s))[q] = Dir
  BY DEF WithDirs
<1>4. QED
  BY <1>1, <1>2, <1>3

\* A write that the handler can be asked for.
MayWrite(f, home, req, data, mode) ==
  FsInv(f) /\ home \in {Home, Alias} /\ IsRequest(req) /\ data \in Data /\ mode \in {"unset", "rw", "ro"}

\* The answer of a write on a disk that is not full.
Answered(f, home, req, data, mode, c) == c = writeFile(f, home, req, data, mode, FALSE)

\* A write that is refused changes no object, and makes at most directories.
LEMMA RefusedWrite ==
  ASSUME NEW f, NEW home, NEW req, NEW data, NEW mode, MayWrite(f, home, req, data, mode),
         NEW c, Answered(f, home, req, data, mode, c), c.code # "ok",
         NEW p \in Places, f[p].t # "none" \/ c.fs[p].t # "dir"
  PROVE  c.fs[p] = f[p]
<1>0. FsInv(f) /\ home \in {Home, Alias} /\ IsRequest(req)
  BY DEF MayWrite
<1>1. Typed(f)
  BY <1>0, Ground
<1>2. PICK v, dirs : v = ValidatePath(f, home, req) /\ dirs = MkdirAll(f, Front(v.path))
  OBVIOUS
<1>3. PICK g : g = c.fs /\ (f[p].t # "none" \/ g[p].t # "dir")
  OBVIOUS
<1>4. g = f \/ (Accepted(req, v) /\ g = dirs.fs)
  <2>1. PICK w, node : w = CreateAt(dirs.fs, v.path) /\ node = At(dirs.fs, w.path)
    OBVIOUS
  <2>2. Parts(f, home, req, v, dirs, w, node)
    BY <1>2, <2>1 DEF Parts
  <2>3. \/ WriteRefused(f, req, v, dirs, writeFile(f, home, req, data, mode, FALSE))
        \/ WriteDone(req, data, mode, v, dirs, w, node, writeFile(f, home, req, data, mode, FALSE))
    BY <2>2, WriteAnswers, ZenonT(30)
  <2>4. WriteRefused(f, req, v, dirs, c) \/ WriteDone(req, data, mode, v, dirs, w, node, c)
    BY <2>3, Zenon DEF Answered
  <2>5. WriteRefused(f, req, v, dirs, c)
    BY <2>4, Zenon DEF WriteDone
  <2>6. QED
    BY <1>3, <2>5, Zenon DEF WriteRefused
<1>6. CASE g = f
  BY <1>3, <1>6, Zenon
<1>7. CASE Accepted(req, v) /\ g = dirs.fs
  <2>1. Real(f, v.path) \/ Behind(f, v.path)
    BY <1>0, <1>2, <1>7, Validated DEF Accepted
  <2>2. Lands(f, v.path)
    BY <1>0, <2>1, RealLands, BehindLands
  <2>3. Extends(f, dirs.fs)
    BY <1>2, <2>2 DEF Lands
  <2>4. dirs.fs[p] # f[p] => dirs.fs[p] = Dir
    BY <1>1, <1>2, DirsOnly DEF Typed
  <2>5. g[p] = f[p]
    BY <1>3, <1>7, <2>3, <2>4, NodesHold DEF Extends
  <2>6. QED
    BY <1>3, <2>5, Zenon
<1>8. QED
  BY <1>4, <1>6, <1>7, Zenon

\* What changed outside the home directory.
Leaves(f, g) == \E p \in Places : ~IsPrefix(Home, p) /\ g[p] # f[p]

\* The file that a write leaves is where the request leads.
WrittenTo(f, home, req, data, g, q) ==
  /\ FsInv(g) /\ ~EmptyPath(req) /\ Walk(g, home).err = "none" /\ g[q].t = "file" /\ g[q].data = data
  /\ (IsPrefix(Home, q) <=> ~Leaves(f, g))
  /\ \E t : IsTarget(home, req, t) /\ Reaches(g, t, q)

\* A write that succeeds leaves a file there.
LEMMA WriteLeads ==
  ASSUME NEW f, NEW home, NEW req, NEW data, NEW mode, MayWrite(f, home, req, data, mode),
         NEW c, Answered(f, home, req, data, mode, c), c.code = "ok"
  PROVE  \E q \in Places : WrittenTo(f, home, req, data, c.fs, q)
<1>0. FsInv(f) /\ home \in {Home, Alias} /\ IsRequest(req) /\ data \in Data /\ mode \in {"unset", "rw", "ro"}
  BY DEF MayWrite
<1>1. PICK v, p, dirs, d, w, node, g :
        /\ v = ValidatePath(f, home, req) /\ p = v.path /\ dirs = MkdirAll(f, Front(v.path)) /\ d = dirs.fs
        /\ w = CreateAt(dirs.fs, v.path) /\ node = At(dirs.fs, w.path) /\ g = c.fs
  OBVIOUS
<1>2. PICK new : new = File(data, ModeAfter(node, mode)) /\ new.t = "file" /\ new.data = data /\ new \in Files0
  <2>1. PICK m \in {"rw", "ro"} : m = ModeAfter(node, mode)
    BY <1>0 DEF ModeAfter
  <2>2. data \in Contents
    BY <1>0 DEF Contents
  <2>3. File(data, m) \in Files0
    BY <2>1, <2>2, NodesHold
  <2>4. File(data, m).t = "file" /\ File(data, m).data = data
    BY DEF File
  <2>5. QED
    BY <2>1, <2>3, <2>4
<1>3. /\ Accepted(req, v) /\ dirs.err = "none" /\ w.err = "none" /\ node.t # "dir"
      /\ g = [d EXCEPT ![w.path] = new]
  <2>1. Parts(f, home, req, v, dirs, w, node)
    BY <1>1, Zenon DEF Parts
  <2>2. \/ WriteRefused(f, req, v, dirs, writeFile(f, home, req, data, mode, FALSE))
        \/ WriteDone(req, data, mode, v, dirs, w, node, writeFile(f, home, req, data, mode, FALSE))
    BY <2>1, WriteAnswers, ZenonT(30)
  <2>3. WriteRefused(f, req, v, dirs, c) \/ WriteDone(req, data, mode, v, dirs, w, node, c)
    BY <2>2, Zenon DEF Answered
  <2>4. WriteDone(req, data, mode, v, dirs, w, node, c)
    BY <2>3, Zenon DEF WriteRefused
  <2>5. QED
    BY <1>1, <1>2, <2>4, Zenon DEF WriteDone
<1>4. PICK t : Leads(f, home, req, t, v)
  BY <1>0, <1>1, <1>3, LeadsTo DEF Accepted
<1>5. /\ Walk(f, home).err = "none" /\ f[Home].t = "dir" /\ IsTarget(home, req, t) /\ t \in Seq(Segment)
      /\ (Real(f, p) \/ Behind(f, p))
  BY <1>1, <1>4 DEF Leads, IsTarget
<1>6. p \in Seq(Segment) /\ home \in Seq(Segment)
  BY <1>0, <1>5, PlacesAssumption, Lie DEF Real, Behind
<1>7. FsInv(d) /\ Extends(f, d) /\ Within(f, d) /\ (IsPrefix(Home, Walk(d, p).path) \/ Outward(d, Walk(d, p)))
  <2>1. Lands(f, p)
    BY <1>0, <1>5, RealLands, BehindLands
  <2>2. QED
    BY <1>1, <1>3, <2>1 DEF Lands
<1>8. Shape(f) /\ Tree(f) /\ Shape(d) /\ Tree(d) /\ Typed(d)
  BY <1>0, <1>7, Ground
<1>9. PICK s : s = Walk(d, p) /\ Found(d, s)
  BY <1>6, <1>8, WalkIs
<1>10. PICK q \in Places : /\ q = w.path /\ q = s.path /\ s.err \in {"none", "notexist"} /\ (s.err = "notexist" => s.rest = <<>>)
                           /\ (IsPrefix(Home, q) \/ s.err = "notexist")
  <2>1. IsPrefix(Home, s.path) \/ s.err = "notexist"
    BY <1>7, <1>9 DEF Outward
  <2>2. QED
    BY <1>1, <1>3, <1>6, <1>8, <1>9, <2>1, CreateIs
<1>11. d[q].t \in {"none", "file"}
  <2>1. node = d[q]
    BY <1>1, <1>10 DEF At
  <2>2. s.err = "none" => d[q].t \in {"dir", "file"}
    BY <1>9, <1>10 DEF Found
  <2>3. s.err = "notexist" => d[q].t = "none"
    BY <1>9, <1>10 DEF Found, At
  <2>4. QED
    BY <1>3, <1>10, <2>1, <2>2, <2>3
<1>12. g[q] = new /\ \A y \in Places : y # q => g[y] = d[y]
  BY <1>3, <1>8, <1>10 DEF Typed
<1>13. FsInv(g) /\ Shape(g)
  <2>1. Wrote(f, v, g)
    BY <1>1, <1>2, <1>3, Zenon DEF Wrote
  <2>2. FsInv(g)
    BY <1>0, <1>1, <1>5, <2>1, WriteKeeps
  <2>3. QED
    BY <2>2, Ground
<1>14. PICK r : r = Walk(d, t) /\ r.path = q /\ (r.err = "none" \/ (r.err = "notexist" /\ r.rest = <<>>))
  <2>1. CASE Walk(f, t).err = "none" /\ Walk(f, t).path = p /\ Real(f, p)
    <3>1. Walk(d, t) = Walk(f, t)
      BY <1>5, <1>7, <1>8, <2>1, WalkIs, Keeps
    <3>2. p \in Places /\ d[p].t \in {"dir", "file"}
      BY <1>7, <2>1 DEF Real, Extends
    <3>3. s.path = p
      BY <1>8, <1>9, <3>2, Canon
    <3>4. QED
      BY <1>10, <2>1, <3>1, <3>3
  <2>2. CASE p = t
    BY <1>9, <1>10, <2>2
  <2>3. QED
    BY <1>1, <1>4, <2>1, <2>2 DEF Leads
<1>15. Walk(g, t).err = "none" /\ Walk(g, t).path = q
  <2>1. From(t) \in Walks /\ Walk(d, t) = Resolve(d)[From(t)] /\ Walk(g, t) = Resolve(g)[From(t)]
    BY <1>5, <1>8, <1>13, WalkIs
  <2>2. g[q].t = "file"
    BY <1>2, <1>12
  <2>3. QED
    BY <1>8, <1>10, <1>11, <1>12, <1>13, <1>14, <2>1, <2>2, PutFinds
<1>16. Walk(g, home).err = "none"
  <2>1. From(home) \in Walks /\ Walk(f, home) = Resolve(f)[From(home)] /\ Walk(d, home) = Resolve(d)[From(home)]
        /\ Walk(g, home) = Resolve(g)[From(home)]
    BY <1>6, <1>8, <1>13, WalkIs
  <2>2. Resolve(d)[From(home)].err = "none"
    BY <1>5, <1>7, <1>8, <2>1, Keeps
  <2>3. g[q].t = "file"
    BY <1>2, <1>12
  <2>4. QED
    BY <1>8, <1>10, <1>11, <1>12, <1>13, <2>1, <2>2, <2>3, PutFinds
<1>17. IsPrefix(Home, q) <=> ~Leaves(f, g)
  <2>1. ASSUME ~IsPrefix(Home, q) PROVE g[q] # f[q]
    <3>1. d[q] = f[q] /\ d[q].t = "none"
      BY <1>7, <1>9, <1>10, <2>1 DEF Within, Found, At
    <3>2. QED
      BY <1>2, <1>12, <3>1
  <2>2. ASSUME IsPrefix(Home, q), NEW y \in Places, ~IsPrefix(Home, y) PROVE g[y] = f[y]
    BY <1>7, <1>12, <2>2 DEF Within
  <2>3. QED
    BY <2>1, <2>2 DEF Leaves
<1>18. WrittenTo(f, home, req, data, g, q)
  <2>1. ~EmptyPath(req) /\ Reaches(g, t, q) /\ g[q].t = "file" /\ g[q].data = data
    BY <1>2, <1>3, <1>12, <1>15 DEF Accepted, Reaches
  <2>2. QED
    BY <1>5, <1>13, <1>16, <1>17, <2>1 DEF WrittenTo
<1>19. QED
  BY <1>1, <1>10, <1>18

\* It can be read by the name it was made under, if it is below the home directory.
LEMMA WrittenIsRead ==
  ASSUME NEW f, NEW home, NEW req, NEW data, NEW mode, MayWrite(f, home, req, data, mode),
         NEW c, Answered(f, home, req, data, mode, c), c.code = "ok", ~Leaves(f, c.fs), NEW offset, NEW limit
  PROVE  readFile(c.fs, home, req, offset, limit) = [code |-> "ok", data |-> Slice(data, offset, limit)]
<1>1. PICK g : g = c.fs
  OBVIOUS
<1>2. PICK q \in Places : WrittenTo(f, home, req, data, g, q)
  BY <1>1, WriteLeads
<1>3. FsInv(g) /\ g[q].data = data /\ Denotes(g, home, req, q)
  BY <1>1, <1>2 DEF WrittenTo, Denotes
<1>4. home \in {Home, Alias}
  BY DEF MayWrite
<1>5. readFile(g, home, req, offset, limit) = [code |-> "ok", data |-> Slice(g[q].data, offset, limit)]
  BY <1>3, <1>4, ReadsAt
<1>6. QED
  BY <1>1, <1>3, <1>5

\* Where it is not, the name is refused from then on.
LEMMA WrittenIsDenied ==
  ASSUME NEW f, NEW home, NEW req, NEW data, NEW mode, MayWrite(f, home, req, data, mode),
         NEW c, Answered(f, home, req, data, mode, c), c.code = "ok", Leaves(f, c.fs)
  PROVE  readFile(c.fs, home, req, 0, 0).code = "PermissionDenied"
<1>1. PICK g : g = c.fs
  OBVIOUS
<1>2. PICK q \in Places : WrittenTo(f, home, req, data, g, q)
  BY <1>1, WriteLeads
<1>3. home \in {Home, Alias} /\ FsInv(g) /\ Walk(g, home).err = "none"
  BY <1>2 DEF WrittenTo, MayWrite
<1>4. PICK t : IsTarget(home, req, t) /\ Reaches(g, t, q)
  BY <1>2 DEF WrittenTo
<1>5. PICK h, r : h = Walk(g, home) /\ r = Walk(g, t) /\ h.err = "none" /\ h.path = Home /\ r.err = "none" /\ r.path = q
  BY <1>3, <1>4, HomeIs DEF Reaches
<1>6. t = Clean(Asked(home, req)) /\ (isUnderDir(home, t) \/ isUnderDir(Home, t))
  BY <1>4 DEF IsTarget, isUnderDir
<1>7. PICK v : v = ValidatePath(g, home, req)
  OBVIOUS
<1>8. v = ValidOf(g, home, req, h, t, r)
  BY <1>5, <1>6, <1>7, ValidateIs
<1>9. ~EmptyPath(req) /\ ~isUnderDir(Home, q)
  BY <1>1, <1>2 DEF WrittenTo, isUnderDir
<1>10. v = Traversal
  BY <1>5, <1>6, <1>8, <1>9 DEF ValidOf
<1>11. v.err = "traversal"
  BY <1>10, VerdictErrs
<1>12. PICK s, node : s = Walk(g, v.path) /\ node = At(g, s.path)
  OBVIOUS
<1>13. PICK e : e = FirstOf(PathChecks(v) \o StatChecks(s) \o Check(node.t = "dir", "InvalidArgument"))
  OBVIOUS
<1>14. readFile(g, home, req, 0, 0) = [code |-> e, data |-> IF e = "ok" THEN Slice(node.data, 0, 0) ELSE <<>>]
  BY <1>7, <1>12, <1>13, Zenon DEF readFile
<1>15. e = "PermissionDenied"
  BY <1>11, <1>13, TraversalDenied
<1>16. PICK a : a = readFile(g, home, req, 0, 0)
  OBVIOUS
<1>17. a.code = e
  BY <1>14, <1>16
<1>18. QED
  BY <1>1, <1>15, <1>16, <1>17

\* Reading from the start to the end.
LEMMA WholeSlice ==
  ASSUME NEW data \in Seq(Byte)
  PROVE  Slice(data, 0, 0) = data
<1>1. Slice(data, 0, 0) = SubSeq(data, 1, Len(data))
  BY DEF Slice
<1>2. QED
  BY <1>1

\* Two neighbouring parts of a sequence.
LEMMA OneMore ==
  ASSUME NEW data \in Seq(Byte), NEW n \in 1..(Len(data) - 1)
  PROVE  SubSeq(data, 1, n) \o SubSeq(data, n + 1, n + 1) = SubSeq(data, 1, n + 1)
<1>1. PICK a, b, c : a = SubSeq(data, 1, n) /\ b = SubSeq(data, n + 1, n + 1) /\ c = SubSeq(data, 1, n + 1)
  OBVIOUS
<1>2. /\ a \in Seq(Byte) /\ Len(a) = n /\ \A i \in 1..n : a[i] = data[i]
      /\ b \in Seq(Byte) /\ Len(b) = 1 /\ b[1] = data[n + 1]
      /\ c \in Seq(Byte) /\ Len(c) = n + 1 /\ \A i \in 1..(n + 1) : c[i] = data[i]
  <2>1. Len(data) \in Nat /\ n \in Nat /\ n < Len(data)
    OBVIOUS
  <2>2. a \in Seq(Byte) /\ Len(a) = n - 1 + 1 /\ \A i \in 1..(n - 1 + 1) : a[i] = data[1 + i - 1]
    <3>1. 1 \in 1..(Len(data) + 1) /\ n \in (1 - 1)..Len(data)
      BY <2>1
    <3>2. QED
      BY <1>1, <3>1, Cut, Zenon
  <2>3. b \in Seq(Byte) /\ Len(b) = (n + 1) - (n + 1) + 1
        /\ \A i \in 1..((n + 1) - (n + 1) + 1) : b[i] = data[(n + 1) + i - 1]
    <3>1. n + 1 \in 1..(Len(data) + 1) /\ n + 1 \in ((n + 1) - 1)..Len(data)
      BY <2>1
    <3>2. QED
      BY <1>1, <3>1, Cut, Zenon
  <2>4. c \in Seq(Byte) /\ Len(c) = (n + 1) - 1 + 1 /\ \A i \in 1..((n + 1) - 1 + 1) : c[i] = data[1 + i - 1]
    <3>1. 1 \in 1..(Len(data) + 1) /\ n + 1 \in (1 - 1)..Len(data)
      BY <2>1
    <3>2. QED
      BY <1>1, <3>1, Cut, Zenon
  <2>5. Len(a) = n /\ \A i \in 1..n : a[i] = data[i]
    <3>1. n - 1 + 1 = n /\ \A i \in 1..n : 1 + i - 1 = i
      BY <2>1
    <3>2. QED
      BY <2>2, <3>1, Zenon
  <2>6. Len(b) = 1 /\ b[1] = data[n + 1]
    <3>1. (n + 1) - (n + 1) + 1 = 1 /\ (n + 1) + 1 - 1 = n + 1 /\ 1 \in 1..1
      BY <2>1
    <3>2. QED
      BY <2>3, <3>1, Zenon
  <2>7. Len(c) = n + 1 /\ \A i \in 1..(n + 1) : c[i] = data[i]
    <3>1. (n + 1) - 1 + 1 = n + 1 /\ \A i \in 1..(n + 1) : 1 + i - 1 = i
      BY <2>1
    <3>2. QED
      BY <2>4, <3>1, Zenon
  <2>8. QED
    BY <2>2, <2>3, <2>4, <2>5, <2>6, <2>7, Zenon
<1>3. a \o b \in Seq(Byte) /\ Len(a \o b) = n + 1 /\ (\A i \in 1..n : (a \o b)[i] = a[i]) /\ (a \o b)[n + 1] = b[1]
  <2>1. a \in Seq(Byte) /\ b \in Seq(Byte) /\ Len(a) = n /\ Len(b) = 1 /\ n \in Nat /\ 1 \in 1..1
    BY <1>2
  <2>2. /\ a \o b \in Seq(Byte) /\ Len(a \o b) = Len(a) + Len(b)
        /\ \A i \in 1..Len(a) : (a \o b)[i] = a[i]
        /\ \A i \in 1..Len(b) : (a \o b)[Len(a) + i] = b[i]
        /\ \A i \in (Len(a) + 1)..(Len(a) + Len(b)) : (a \o b)[i] = b[i - Len(a)]
    <3>1. a \in Seq(Byte) /\ b \in Seq(Byte)
      BY <2>1, Zenon
    <3>2. QED
      BY <3>1, Joined, Zenon
  <2>3. \A i \in 1..n : (a \o b)[i] = a[i]
    BY <2>1, <2>2, Zenon
  <2>4. (a \o b)[n + 1] = b[1]
    BY <2>1, <2>2, Zenon
  <2>5. QED
    BY <2>1, <2>2, <2>3, <2>4, Zenon
<1>4. \A i \in 1..(n + 1) : (a \o b)[i] = c[i]
  BY <1>2, <1>3
<1>5. a \o b = c
  BY <1>2, <1>3, <1>4, SameSeq
<1>6. QED
  BY <1>1, <1>5

\* Three reads that follow one another give the whole.
LEMMA PieceSlices ==
  ASSUME NEW data \in Seq(Byte), NEW n \in 1..3
  PROVE  Slice(data, 0, n) \o Slice(data, n, 1) \o Slice(data, n + 1, 0) = data
<1>1. PICK a, b, c : a = Slice(data, 0, n) /\ b = Slice(data, n, 1) /\ c = Slice(data, n + 1, 0)
  OBVIOUS
<1>2. Len(data) \in Nat /\ n \in Nat /\ n > 0
  OBVIOUS
<1>3. CASE Len(data) <= n
  <2>1. a = SubSeq(data, 1, Len(data)) /\ b = SubSeq(data, n + 1, Len(data)) /\ c = SubSeq(data, n + 2, Len(data))
    <3>1. a = SubSeq(data, 1, Len(data))
      BY <1>1, <1>2, <1>3 DEF Slice
    <3>2. b = SubSeq(data, n + 1, Len(data))
      BY <1>1, <1>2, <1>3 DEF Slice
    <3>3. c = SubSeq(data, n + 2, Len(data))
      <4>1. c = SubSeq(data, (n + 1) + 1, Len(data))
        BY <1>1, <1>2, <1>3 DEF Slice
      <4>2. (n + 1) + 1 = n + 2
        BY <1>2
      <4>3. QED
        BY <4>1, <4>2, Zenon
    <3>4. QED
      BY <3>1, <3>2, <3>3
  <2>2. a = data /\ b = <<>> /\ c = <<>>
    BY <1>2, <1>3, <2>1
  <2>3. data \o <<>> \o <<>> = data
    OBVIOUS
  <2>4. QED
    BY <1>1, <2>2, <2>3, Zenon
<1>4. CASE n < Len(data)
  <2>1. a = SubSeq(data, 1, n)
    BY <1>1, <1>2, <1>4 DEF Slice
  <2>2. b = SubSeq(data, n + 1, n + 1)
    <3>1. PICK from : from = IF n > 0 THEN n ELSE 0
      OBVIOUS
    <3>2. PICK to : to = IF 1 > 0 /\ from + 1 < Len(data) THEN from + 1 ELSE Len(data)
      OBVIOUS
    <3>3. b = SubSeq(data, from + 1, to)
      BY <1>1, <3>1, <3>2, Zenon DEF Slice
    <3>4. from = n /\ to = n + 1
      BY <1>2, <1>4, <3>1, <3>2
    <3>5. QED
      BY <3>3, <3>4, Zenon
  <2>3. c = SubSeq(data, (n + 1) + 1, Len(data))
    BY <1>1, <1>2, <1>4 DEF Slice
  <2>4. n \in 1..(Len(data) - 1) /\ n + 1 \in 0..Len(data)
    BY <1>2, <1>4
  <2>5. a \o b = SubSeq(data, 1, n + 1)
    BY <2>1, <2>2, <2>4, OneMore, Zenon
  <2>6. data = SubSeq(data, 1, n + 1) \o SubSeq(data, (n + 1) + 1, Len(data))
    BY <2>4, CutAt
  <2>7. QED
    BY <1>1, <2>3, <2>5, <2>6, Zenon
<1>5. QED
  BY <1>2, <1>3, <1>4

\* What an answer to a write promises.
ReadsBack(f, home, req, data, w) ==
  IF w.code = "ok"
  THEN IF Leaves(f, w.fs) THEN readFile(w.fs, home, req, 0, 0).code = "PermissionDenied" ELSE
       /\ readFile(w.fs, home, req, 0, 0) = [code |-> "ok", data |-> data]
       /\ \A n \in 1..3 : readFile(w.fs, home, req, 0, n).data \o readFile(w.fs, home, req, n, 1).data
                            \o readFile(w.fs, home, req, n + 1, 0).data = data
  ELSE \A p \in Places : f[p].t # "none" \/ w.fs[p].t # "dir" => w.fs[p] = f[p]

\* What was written is read back, and a write that is refused changes no file.
LEMMA WriteReads ==
  ASSUME NEW f, NEW home, NEW req, NEW data, NEW mode, MayWrite(f, home, req, data, mode),
         NEW w, Answered(f, home, req, data, mode, w)
  PROVE  ReadsBack(f, home, req, data, w)
<1>1. data \in Seq(Byte)
  BY PlacesAssumption DEF MayWrite
<1>2. CASE w.code = "ok" /\ ~Leaves(f, w.fs)
  <2>1. ASSUME NEW offset, NEW limit
        PROVE  readFile(w.fs, home, req, offset, limit) = [code |-> "ok", data |-> Slice(data, offset, limit)]
    <3>1. w.code = "ok" /\ ~Leaves(f, w.fs)
      BY <1>2
    <3>2. QED
      BY <3>1, WrittenIsRead, SMTT(30)
  <2>2. ASSUME NEW offset, NEW limit PROVE readFile(w.fs, home, req, offset, limit).data = Slice(data, offset, limit)
    <3>1. PICK a, s : a = readFile(w.fs, home, req, offset, limit) /\ s = Slice(data, offset, limit)
      OBVIOUS
    <3>2. a = [code |-> "ok", data |-> s]
      BY <2>1, <3>1, Zenon
    <3>3. a.data = s
      BY <3>2
    <3>4. QED
      BY <3>1, <3>3, Zenon
  <2>3. readFile(w.fs, home, req, 0, 0) = [code |-> "ok", data |-> data]
    <3>1. readFile(w.fs, home, req, 0, 0) = [code |-> "ok", data |-> Slice(data, 0, 0)]
      BY <2>1, Zenon
    <3>2. Slice(data, 0, 0) = data
      BY <1>1, WholeSlice
    <3>3. QED
      BY <3>1, <3>2, Zenon
  <2>4. ASSUME NEW n \in 1..3
        PROVE  readFile(w.fs, home, req, 0, n).data \o readFile(w.fs, home, req, n, 1).data
                 \o readFile(w.fs, home, req, n + 1, 0).data = data
    <3>1. Slice(data, 0, n) \o Slice(data, n, 1) \o Slice(data, n + 1, 0) = data
      BY <1>1, PieceSlices
    <3>2. /\ readFile(w.fs, home, req, 0, n).data = Slice(data, 0, n)
          /\ readFile(w.fs, home, req, n, 1).data = Slice(data, n, 1)
          /\ readFile(w.fs, home, req, n + 1, 0).data = Slice(data, n + 1, 0)
      BY <2>2, Zenon
    <3>3. QED
      BY <3>1, <3>2, Zenon
  <2>5. QED
    BY <1>2, <2>3, <2>4, Zenon DEF ReadsBack
<1>3. CASE w.code # "ok"
  <2>1. ASSUME NEW p \in Places, f[p].t # "none" \/ w.fs[p].t # "dir" PROVE w.fs[p] = f[p]
    BY <1>3, <2>1, RefusedWrite, SMTT(30)
  <2>2. QED
    BY <1>3, <2>1, Zenon DEF ReadsBack
<1>4. CASE w.code = "ok" /\ Leaves(f, w.fs)
  <2>1. readFile(w.fs, home, req, 0, 0).code = "PermissionDenied"
    BY <1>4, WrittenIsDenied, SMTT(30)
  <2>2. QED
    BY <1>4, <2>1, Zenon DEF ReadsBack
<1>5. QED
  BY <1>2, <1>3, <1>4

\* The same in every state.
LEMMA WritesAgreeHolds ==
  ASSUME WorkspaceInv
  PROVE  WritesAgree
<1>1. FsInv(fs) /\ homeDir \in {Home, Alias}
  BY DEF WorkspaceInv
<1>2. ASSUME NEW req \in Requests, NEW data \in Data, NEW mode \in {"unset", "ro"}, NEW w, Answered(fs, homeDir, req, data, mode, w)
      PROVE  ReadsBack(fs, homeDir, req, data, w)
  <2>1. IsRequest(req) /\ mode \in {"unset", "rw", "ro"}
    BY WorkspaceAssumption
  <2>2. MayWrite(fs, homeDir, req, data, mode)
    BY <1>1, <2>1 DEF MayWrite
  <2>3. QED
    BY <1>2, <2>2, WriteReads, Zenon
<1>3. ASSUME NEW g PROVE Leaves(fs, g) <=> Left(g)
  BY Zenon DEF Leaves, Left, isUnderDir
<1>4. QED
  BY <1>2, <1>3, Zenon DEF WritesAgree, ReadsBack, Answered

\* What is listed or globbed can be read.
LEMMA ListingsAgreeHolds ==
  ASSUME WorkspaceInv
  PROVE  ListingsAgree
<1>1. FsInv(fs) /\ homeDir \in {Home, Alias}
  BY DEF WorkspaceInv
<1>2. \A req \in Requests : IsRequest(req)
  BY WorkspaceAssumption
<1>3. ASSUME NEW req \in Requests, NEW recursive \in BOOLEAN, NEW e \in listFiles(fs, homeDir, req, recursive).files, e.type = "file"
      PROVE  readFile(fs, homeDir, Rel(e.path), 0, 0).code = "ok"
  BY <1>1, <1>2, <1>3, ListedIsRead, ZenonT(30)
<1>4. ASSUME NEW req \in Requests, NEW m \in glob(fs, homeDir, "**", req).matches,
             At(fs, ValidatePath(fs, homeDir, req).path \o m).t = "file"
      PROVE  readFile(fs, homeDir, [req EXCEPT !.segs = @ \o m], 0, 0).code = "ok"
  BY <1>1, <1>2, <1>4, GlobbedIsRead, SMTT(30)
<1>5. QED
  BY <1>3, <1>4, Zenon DEF ListingsAgree

-----------------------------------------
(* What was deleted is not found *)

\* Something below the home directory is gone.
Gone(f, L, g) ==
  /\ FsInv(f) /\ L \in Seq(Segment) /\ IsPrefix(Home, L) /\ ~IsPrefix(L, Home) /\ g = RemoveAll(f, L)

\* What is left then, and where nothing is found any more.
LEMMA GoneIs ==
  ASSUME NEW f, NEW L, NEW g, Gone(f, L, g)
  PROVE  /\ FsInv(f) /\ FsInv(g) /\ Shape(f) /\ Shape(g) /\ Tree(f) /\ Tree(g) /\ Extends(g, f) /\ g[Home] = f[Home]
         /\ \A q \in Places : IsPrefix(L, q) => g[q].t = "none"
         /\ \A q \in Places : ~IsPrefix(L, q) => g[q] = f[q]
         /\ \A q : At(g, q).t # "none" => At(g, q) = At(f, q)
         /\ \A q : ~IsPrefix(L, q) => At(g, q) = At(f, q)
         /\ \A q : IsPrefix(L, q) => At(g, q).t = "none"
<1>1. FsInv(f) /\ FsInv(g)
  BY RemoveKeeps DEF Gone
<1>2. Shape(f) /\ Shape(g) /\ Tree(f) /\ Tree(g)
  BY <1>1, Ground
<1>3. /\ \A q \in Places : IsPrefix(L, q) => g[q] = None
      /\ \A q \in Places : ~IsPrefix(L, q) => g[q] = f[q]
      /\ None.t = "none"
  BY NodesHold DEF Gone, RemoveAll
<1>4. g[Home] = f[Home]
  BY <1>3, Lie DEF Gone
<1>5. Extends(g, f)
  BY <1>3 DEF Extends
<1>6. /\ \A q : At(g, q).t # "none" => At(g, q) = At(f, q)
      /\ \A q : ~IsPrefix(L, q) => At(g, q) = At(f, q)
      /\ \A q : IsPrefix(L, q) => At(g, q).t = "none"
  BY <1>3 DEF At
<1>7. QED
  BY <1>1, <1>2, <1>3, <1>4, <1>5, <1>6

\* A walk that ends where something is gone.
Misses(g, L, w) == Resolve(g)[w].err = "notexist" /\ IsPrefix(L, Resolve(g)[w].path)

\* Both walks take the same steps until then.
LEMMA GoneWalk ==
  ASSUME NEW f, NEW L, NEW g, Gone(f, L, g), NEW w \in Walks
  PROVE  Resolve(g)[w] = Resolve(f)[w] \/ Misses(g, L, w)
<1>1. PICK Bad : Bad = {u \in Walks : ~(Resolve(g)[u] = Resolve(f)[u] \/ Misses(g, L, u))}
  OBVIOUS
<1>2. ASSUME NEW u \in Bad PROVE ~Ends(f, u) /\ After(f, u) \in Bad
  <2>1. u \in Walks /\ Resolve(g)[u] # Resolve(f)[u] /\ ~Misses(g, L, u) /\ Shape(f) /\ Shape(g)
    BY <1>1, GoneIs
  <2>2. u.todo # <<>>
    <3>1. SUFFICES ASSUME u.todo = <<>> PROVE FALSE
      OBVIOUS
    <3>2. Ends(f, u) /\ Ends(g, u)
      BY <3>1 DEF Ends
    <3>3. PICK r, s : r = Resolve(f)[u] /\ s = Resolve(g)[u] /\ Ended(f, u, r) /\ Ended(g, u, s)
      BY <2>1, <3>2, EndIs
    <3>4. r = s
      BY <3>1, <3>3 DEF Ended
    <3>5. QED
      BY <2>1, <3>3, <3>4
  <2>3. PICK q : q = NextName(u)
    OBVIOUS
  <2>4. ~IsPrefix(L, q)
    <3>1. SUFFICES ASSUME IsPrefix(L, q) PROVE FALSE
      OBVIOUS
    <3>2. At(g, q).t = "none"
      BY <3>1, GoneIs
    <3>3. Ends(g, u)
      BY <2>2, <2>3, <3>2 DEF Ends
    <3>4. PICK s : s = Resolve(g)[u] /\ Ended(g, u, s)
      BY <2>1, <3>3, EndIs
    <3>5. s.err = "notexist" /\ s.path = q
      BY <2>2, <2>3, <3>2, <3>4 DEF Ended
    <3>6. QED
      BY <2>1, <3>1, <3>4, <3>5 DEF Misses
  <2>5. At(g, q) = At(f, q)
    BY <2>4, GoneIs
  <2>6. ~Ends(f, u)
    <3>1. SUFFICES ASSUME Ends(f, u) PROVE FALSE
      OBVIOUS
    <3>2. Ends(g, u)
      BY <2>3, <2>5, <3>1 DEF Ends
    <3>3. PICK r, s : r = Resolve(f)[u] /\ s = Resolve(g)[u] /\ Ended(f, u, r) /\ Ended(g, u, s)
      BY <2>1, <3>1, <3>2, EndIs
    <3>4. r = s
      BY <2>2, <2>3, <2>5, <3>3 DEF Ended
    <3>5. QED
      BY <2>1, <3>3, <3>4
  <2>7. ~Ends(g, u) /\ After(g, u) = After(f, u)
    BY <2>3, <2>5, <2>6 DEF Ends, After
  <2>8. After(f, u) \in Walks /\ Resolve(f)[After(f, u)] = Resolve(f)[u]
    BY <2>1, <2>6, AfterIs
  <2>9. Resolve(g)[After(f, u)] = Resolve(g)[u]
    <3>1. Resolve(g)[After(g, u)] = Resolve(g)[u]
      BY <2>1, <2>7, AfterIs
    <3>2. QED
      BY <2>7, <3>1, Zenon
  <2>10. ~Misses(g, L, After(f, u))
    BY <2>1, <2>9 DEF Misses
  <2>11. QED
    BY <1>1, <2>1, <2>6, <2>8, <2>9, <2>10
<1>3. Bad = {}
  BY <1>1, <1>2, WalksEnd, ShapeIs, GoneIs
<1>4. QED
  BY <1>1, <1>3

\* The same of a path.
LEMMA GonePath ==
  ASSUME NEW f, NEW L, NEW g, Gone(f, L, g), NEW p \in Seq(Segment)
  PROVE  /\ Walk(g, p) = Walk(f, p) \/ (Walk(g, p).err = "notexist" /\ IsPrefix(L, Walk(g, p).path))
         /\ Walk(g, p).err = "none" => Walk(f, p) = Walk(g, p)
<1>1. From(p) \in Walks /\ Walk(g, p) = Resolve(g)[From(p)] /\ Walk(f, p) = Resolve(f)[From(p)]
  BY GoneIs, WalkIs
<1>2. Resolve(g)[From(p)] = Resolve(f)[From(p)] \/ Misses(g, L, From(p))
  BY <1>1, GoneWalk
<1>3. QED
  BY <1>1, <1>2 DEF Misses

\* A path that leads to an object leads through a directory before each of its names.
LEMMA Through ==
  ASSUME NEW f, Shape(f), NEW w \in Walks, NEW b \in Seq(Segment), b # <<>>,
         Seated(f, Plus(w, b)), Resolve(f)[Plus(w, b)].err = "none"
  PROVE  Resolve(f)[w].err = "none" /\ f[Resolve(f)[w].path].t = "dir"
<1> DEFINE Goal(u) == Resolve(f)[u].err = "none" /\ f[Resolve(f)[u].path].t = "dir"
<1>1. PICK Bad : Bad = {u \in Walks : Seated(f, Plus(u, b)) /\ Resolve(f)[Plus(u, b)].err = "none" /\ ~Goal(u)}
  OBVIOUS
<1>2. ASSUME NEW u \in Bad PROVE ~Ends(f, u) /\ After(f, u) \in Bad
  <2>1. u \in Walks /\ Seated(f, Plus(u, b)) /\ Resolve(f)[Plus(u, b)].err = "none" /\ ~Goal(u)
    BY <1>1
  <2>2. PICK l, d, t, y : /\ l = u.links /\ d = u.done /\ t = u.todo /\ l \in 0..MaxLinks /\ d \in Seq(Segment) /\ t \in Seq(Segment)
                          /\ y = Plus(u, b) /\ y.links = l /\ y.done = d /\ y.todo = t \o b
    <3>1. u.links \in 0..MaxLinks /\ u.done \in Seq(Segment) /\ u.todo \in Seq(Segment)
      BY <2>1, WalkParts
    <3>2. Plus(u, b).links = u.links /\ Plus(u, b).done = u.done /\ Plus(u, b).todo = u.todo \o b
      BY DEF Plus
    <3>3. QED
      BY <3>1, <3>2, Zenon
  <2>3. t \o b \in Seq(Segment) /\ t \o b # <<>> /\ (t = <<>> => t \o b = b)
    <3>1. t \o b \in Seq(Segment) /\ Len(t \o b) = Len(t) + Len(b) /\ Len(t) \in Nat /\ Len(b) \in Nat \ {0}
      BY <2>2, PrefixJoin
    <3>2. t = <<>> => t \o b = b
      BY PrefixSelf
    <3>3. QED
      BY <3>1, <3>2
  <2>4. y \in Walks
    BY <2>2, <2>3 DEF Plus, Walks
  <2>5. ~Ends(f, y)
    <3>1. SUFFICES ASSUME Ends(f, y) PROVE FALSE
      OBVIOUS
    <3>2. PICK r : r = Resolve(f)[y] /\ Ended(f, y, r)
      BY <2>4, <3>1, EndIs
    <3>3. QED
      BY <2>1, <2>2, <2>3, <3>2 DEF Ended
  <2>6. t # <<>>
    <3>1. SUFFICES ASSUME t = <<>> PROVE FALSE
      OBVIOUS
    <3>2. Ends(f, u)
      BY <2>2, <3>1 DEF Ends
    <3>3. PICK r : r = Resolve(f)[u] /\ Ended(f, u, r)
      BY <2>1, <3>2, EndIs
    <3>4. r.err = "none" /\ r.path = d
      BY <2>2, <3>1, <3>3 DEF Ended
    <3>5. f[d].t = "dir"
      BY <2>1, <2>2, <2>3 DEF Seated
    <3>6. QED
      BY <2>1, <3>3, <3>4, <3>5
  <2>7. \E c : c = Tail(t) /\ c \in Seq(Segment) /\ Head(t \o b) = Head(t) /\ Tail(t \o b) = c \o b /\ c \o b # <<>>
    <3>1. \A d2 \in Seq(Segment) : t \o d2 # <<>> /\ Head(t \o d2) = Head(t) /\ Tail(t \o d2) = Tail(t) \o d2
      BY <2>2, <2>6, SegParts, Zenon
    <3>2. Tail(t) \in Seq(Segment)
      BY <2>2, <2>6, SegParts
    <3>3. PICK c : c = Tail(t) /\ c \in Seq(Segment)
      BY <3>2
    <3>4. Len(c \o b) = Len(c) + Len(b) /\ Len(c) \in Nat /\ Len(b) \in Nat \ {0}
      BY <3>3, PrefixJoin
    <3>5. c \o b # <<>>
      BY <3>4
    <3>6. QED
      BY <3>1, <3>3, <3>5, Zenon
  <2>8. PICK q : q = NextName(u) /\ q = NextName(y)
    BY <2>2, <2>7 DEF NextName
  <2>9. /\ q \in Places /\ At(f, q) = f[q] /\ f[q].t \in {"dir", "file", "link"} /\ f[q].t # "file"
        /\ (f[q].t = "link" => l # 0)
    <3>1. PICK e : e = Tail(y.todo) /\ e # <<>>
      BY <2>2, <2>7, Zenon
    <3>2. /\ NextName(y) \in Places /\ At(f, NextName(y)) = f[NextName(y)] /\ f[NextName(y)].t \in {"dir", "file", "link"}
          /\ (f[NextName(y)].t = "file" => Tail(y.todo) = <<>>) /\ (f[NextName(y)].t = "link" => y.links # 0)
      BY <2>4, <2>5, AfterIs
    <3>3. f[q].t # "file"
      BY <2>8, <3>1, <3>2, Zenon
    <3>4. QED
      BY <2>2, <2>8, <3>2, <3>3, Zenon
  <2>10. ~Ends(f, u)
    BY <2>2, <2>6, <2>8, <2>9 DEF Ends
  <2>11. PICK x : x = After(f, u) /\ x \in Walks /\ Resolve(f)[x] = Resolve(f)[u]
    <3>1. After(f, u) \in Walks /\ Resolve(f)[After(f, u)] = Resolve(f)[u]
      BY <2>1, <2>10, AfterIs
    <3>2. QED
      BY <3>1
  <2>12. Resolve(f)[y] = Resolve(f)[Plus(x, b)]
    <3>1. f[NextName(u)].t # "file"
      BY <2>8, <2>9, Zenon
    <3>2. Resolve(f)[Plus(u, b)] = Resolve(f)[Plus(After(f, u), b)]
      BY <2>1, <2>10, <3>1, PlusSteps
    <3>3. QED
      BY <2>2, <2>11, <3>2, Zenon
  <2>13. ~Goal(x)
    BY <2>1, <2>11
  <2>14. Seated(f, Plus(x, b))
    <3>1. CASE f[q].t = "link"
      <4>1. x.done = <<>>
        <5>1. f[NextName(u)].t = "link"
          BY <2>8, <3>1, Zenon
        <5>2. After(f, u) = [links |-> u.links - 1, done |-> <<>>, todo |-> f[NextName(u)].to \o Tail(u.todo)]
          BY <2>1, <2>10, <5>1, AfterIs
        <5>3. QED
          BY <2>11, <5>2
      <4>2. QED
        BY <4>1, PlacesAssumption DEF Seated, Plus, Shape
    <3>2. CASE f[q].t # "link"
      <4>1. x.done = q
        <5>1. f[NextName(u)].t # "link"
          BY <2>8, <3>2, Zenon
        <5>2. After(f, u) = [links |-> u.links, done |-> NextName(u), todo |-> Tail(u.todo)]
          BY <2>1, <2>10, <5>1, AfterIs
        <5>3. PICK e : e = Tail(u.todo)
          OBVIOUS
        <5>4. x = [links |-> u.links, done |-> q, todo |-> e]
          BY <2>8, <2>11, <5>2, <5>3, Zenon
        <5>5. QED
          BY <5>4
      <4>2. QED
        BY <2>9, <3>2, <4>1 DEF Seated, Plus
    <3>3. QED
      BY <3>1, <3>2
  <2>15. QED
    BY <1>1, <2>1, <2>2, <2>10, <2>11, <2>12, <2>13, <2>14
<1> HIDE DEF Goal
<1>3. Bad = {}
  BY <1>1, <1>2, WalksEnd, ShapeIs
<1>4. Goal(w)
  BY <1>1, <1>3
<1>5. QED
  BY <1>4 DEF Goal

\* The same of a path.
LEMMA ThroughPath ==
  ASSUME NEW f, Shape(f), NEW a \in Seq(Segment), NEW b \in Seq(Segment), b # <<>>, Walk(f, a \o b).err = "none"
  PROVE  Walk(f, a).err = "none" /\ f[Walk(f, a).path].t = "dir"
<1>1. a \o b \in Seq(Segment)
  BY PrefixJoin
<1>2. /\ From(a) \in Walks /\ Walk(f, a) = Resolve(f)[From(a)]
      /\ Walk(f, a \o b) = Resolve(f)[From(a \o b)] /\ Seated(f, From(a \o b))
  BY <1>1, WalkIs
<1>3. From(a \o b) = Plus(From(a), b)
  BY DEF From, Plus
<1>4. QED
  BY <1>2, <1>3, Through

\* A link that leads to what is below itself leads nowhere.
LEMMA LoopsAtLink ==
  ASSUME NEW f, FsInv(f), f[LinkPlace].t = "link", NEW to, to = f[LinkPlace].to, to \in Seq(Segment), IsPrefix(LinkPlace, to),
         NEW m \in 0..MaxLinks
  PROVE  Resolve(f)[Stand(m, <<>>, to)].err # "none"
<1>1. PICK Bad : Bad = {u \in Walks : /\ IsPrefix(LinkPlace, All(u)) /\ IsPrefix(u.done, LinkPlace) /\ u.done # LinkPlace
                                      /\ Resolve(f)[u].err = "none"}
  OBVIOUS
<1>2. Shape(f) /\ Tree(f) /\ LinkPlace \in Places /\ LinkPlace \in Seq(Segment) /\ LinkPlace # <<>>
  <2>1. IsPrefix(Home, LinkPlace) /\ LinkPlace \in Places /\ LinkPlace \in Seq(Segment)
    BY WorkspaceAssumption, PlacesAssumption DEF Below
  <2>2. LinkPlace # <<>>
    BY <2>1, Lie, PrefixSame, PrefixSelf
  <2>3. QED
    BY <2>1, <2>2, Ground
<1>3. ASSUME NEW u \in Bad PROVE ~Ends(f, u) /\ After(f, u) \in Bad
  <2>1. /\ u \in Walks /\ IsPrefix(LinkPlace, All(u)) /\ IsPrefix(u.done, LinkPlace) /\ u.done # LinkPlace
        /\ Resolve(f)[u].err = "none" /\ u.done \in Seq(Segment)
    BY <1>1, WalkParts
  <2>2. u.todo # <<>>
    <3>1. SUFFICES ASSUME u.todo = <<>> PROVE FALSE
      OBVIOUS
    <3>2. All(u) = u.done
      BY <2>1, <3>1, PrefixSelf DEF All
    <3>3. QED
      BY <1>2, <2>1, <3>2, PrefixSame
  <2>3. ~Ends(f, u)
    <3>1. SUFFICES ASSUME Ends(f, u) PROVE FALSE
      OBVIOUS
    <3>2. PICK r : r = Resolve(f)[u] /\ Ended(f, u, r)
      BY <2>1, <3>1, EndIs, <1>2
    <3>3. QED
      BY <2>1, <2>2, <3>2 DEF Ended
  <2>4. PICK q, c : /\ q = NextName(u) /\ c = Tail(u.todo) /\ q \in Seq(Segment) /\ c \in Seq(Segment)
                    /\ q \o c = All(u) /\ All(u) \in Seq(Segment) /\ IsPrefix(q, All(u)) /\ Len(q) = Len(u.done) + 1
    BY <2>1, <2>2, NextIs
  <2>5. IsPrefix(q, LinkPlace)
    <3>1. Len(u.done) \in Nat /\ Len(LinkPlace) \in Nat /\ Len(u.done) < Len(LinkPlace)
      BY <1>2, <2>1, PrefixSame
    <3>2. Len(q) <= Len(LinkPlace)
      BY <2>4, <3>1
    <3>3. QED
      BY <1>2, <2>1, <2>4, <3>2, PrefixBoth
  <2>6. PICK x : x = After(f, u) /\ x \in Walks /\ Resolve(f)[x] = Resolve(f)[u]
    <3>1. After(f, u) \in Walks /\ Resolve(f)[After(f, u)] = Resolve(f)[u]
      BY <1>2, <2>1, <2>3, AfterIs
    <3>2. QED
      BY <3>1
  <2>7. CASE q = LinkPlace
    <3>1. x = [links |-> u.links - 1, done |-> <<>>, todo |-> to \o c]
      <4>1. f[NextName(u)].t = "link"
        BY <2>4, <2>7
      <4>2. After(f, u) = [links |-> u.links - 1, done |-> <<>>, todo |-> f[NextName(u)].to \o Tail(u.todo)]
        BY <1>2, <2>1, <2>3, <4>1, AfterIs
      <4>3. QED
        BY <2>4, <2>6, <2>7, <4>2, Zenon
    <3>2. x.done = <<>> /\ x.todo = to \o c /\ to \o c \in Seq(Segment) /\ IsPrefix(to, to \o c)
      <4>1. to \o c \in Seq(Segment) /\ IsPrefix(to, to \o c)
        BY <2>4, PrefixJoin
      <4>2. x.done = <<>> /\ x.todo = to \o c
        BY <3>1
      <4>3. QED
        BY <4>1, <4>2, Zenon
    <3>3. All(x) = to \o c
      BY <3>2, PrefixSelf DEF All
    <3>4. IsPrefix(LinkPlace, All(x)) /\ IsPrefix(x.done, LinkPlace) /\ x.done # LinkPlace
      <4>1. PICK e : e = to \o c /\ e \in Seq(Segment) /\ IsPrefix(to, e)
        BY <3>2
      <4>2. IsPrefix(LinkPlace, e)
        BY <1>2, <4>1, PrefixTrans
      <4>3. IsPrefix(<<>>, LinkPlace)
        BY <1>2, PrefixSelf
      <4>4. QED
        BY <1>2, <3>2, <3>3, <4>1, <4>2, <4>3, Zenon
    <3>5. QED
      BY <1>1, <2>1, <2>3, <2>6, <3>4
  <2>8. CASE q # LinkPlace
    <3>1. q \in Places /\ f[q].t = "dir"
      BY <1>2, <2>4, <2>5, <2>8, TreeUp
    <3>2. x = [links |-> u.links, done |-> q, todo |-> c]
      <4>1. f[NextName(u)].t # "link"
        BY <2>4, <3>1
      <4>2. After(f, u) = [links |-> u.links, done |-> NextName(u), todo |-> Tail(u.todo)]
        BY <1>2, <2>1, <2>3, <4>1, AfterIs
      <4>3. QED
        BY <2>4, <2>6, <4>2, Zenon
    <3>3. All(x) = q \o c /\ x.done = q
      BY <3>2 DEF All
    <3>4. QED
      BY <1>1, <2>1, <2>3, <2>4, <2>5, <2>6, <2>8, <3>3
  <2>9. QED
    BY <2>7, <2>8
<1>4. Bad = {}
  BY <1>1, <1>2, <1>3, WalksEnd, ShapeIs
<1>5. PICK w : w = Stand(m, <<>>, to) /\ w \in Walks /\ All(w) = to /\ w.done = <<>>
  BY StartIs
<1>6. IsPrefix(w.done, LinkPlace) /\ w.done # LinkPlace
  BY <1>2, <1>5, PrefixSelf
<1>7. QED
  BY <1>1, <1>4, <1>5, <1>6

\* The directory above what is below the home directory.
LEMMA FrontUnder ==
  ASSUME NEW Q \in Seq(Segment), NEW x \in Segment, NEW n, n = Append(Q, x), IsPrefix(Home, n), n # Home
  PROVE  IsPrefix(Home, Q)
<1>1. n \in Seq(Segment) /\ n # <<>>
  BY DEF Append
<1>2. Front(n) = Q
  BY LastFront
<1>3. Home = n \/ IsPrefix(Home, Front(n))
  BY <1>1, Lie, LastName
<1>4. QED
  BY <1>2, <1>3

\* The links on the way to what is below the home directory.
LEMMA LinksOn ==
  ASSUME NEW f, FsInv(f), NEW y \in Places, f[y].t = "link", NEW z \in Seq(Segment), IsPrefix(y, z), IsPrefix(Home, z)
  PROVE  y = LinkPlace /\ f[y].to \in Targets
<1>1. y \in Seq(Segment)
  BY PlacesAssumption
<1>2. IsPrefix(y, Home) \/ IsPrefix(Home, y)
  BY <1>1, Lie, PrefixBoth
<1>3. y # Alias
  BY <1>2, Lie
<1>4. QED
  BY <1>3, Ground

\* The last name of a path.
LEMMA LastSplit ==
  ASSUME NEW p \in Seq(Segment), p # <<>>
  PROVE  \E a \in Seq(Segment), x \in Segment : /\ a = Front(p) /\ x = Last(p) /\ p = Append(a, x) /\ p = a \o <<x>>
                                                /\ <<x>> \in Seq(Segment) /\ <<x>> # <<>> /\ Head(<<x>>) = x
<1>1. PICK a, x : a = Front(p) /\ x = Last(p) /\ a \in Seq(Segment) /\ x \in Segment /\ p = Append(a, x)
  BY LastName
<1>2. Append(a, x) = a \o <<x>> /\ <<x>> \in Seq(Segment) /\ <<x>> # <<>> /\ Head(<<x>>) = x
  BY <1>1
<1>3. QED
  BY <1>1, <1>2, Zenon

\* A path that leads to a link goes on where the link leads.
Follows(f, p, to) == Walk(f, p).err = "loop" \/ \E m \in 0..MaxLinks : Walk(f, p) = Resolve(f)[Stand(m, <<>>, to)]

\* One name further: an object, nothing or a link.
LEMMA NextFound ==
  ASSUME NEW f, Shape(f), Tree(f), NEW a \in Seq(Segment), NEW x \in Segment, NEW B \in Places, Reaches(f, a, B), f[B].t = "dir",
         NEW q, q = Append(B, x), NEW p, p = Append(a, x)
  PROVE  /\ At(f, q).t \in {"dir", "file"} => Reaches(f, p, q)
         /\ At(f, q).t = "none" => Walk(f, p).err = "notexist"
         /\ At(f, q).t = "link" => Follows(f, p, f[q].to)
<1>1. PICK b : b = <<x>> /\ b \in Seq(Segment) /\ b # <<>> /\ Head(b) = x /\ Tail(b) = <<>>
  <2>1. PICK b : b = <<x>>
    OBVIOUS
  <2>2. b \in Seq(Segment) /\ b # <<>> /\ Head(b) = x /\ Tail(b) = <<>>
    BY <2>1
  <2>3. QED
    BY <2>1, <2>2, Zenon
<1>2. B \in Seq(Segment)
  BY PlacesAssumption
<1>3. p = a \o b /\ q = B \o b
  BY <1>1, <1>2
<1>4. q \in Seq(Segment)
  BY <1>2
<1>5. ASSUME At(f, q).t \in {"dir", "file"} PROVE Reaches(f, p, q)
  <2>1. At(f, q).t # "none"
    BY <1>5
  <2>2. q \in Places /\ f[q].t \in {"dir", "file"}
    <3>1. q \in Places
      BY <2>1, AtIs DEF Shape
    <3>2. QED
      BY <1>5, <3>1 DEF At
  <2>3. Reaches(f, a \o b, q)
    BY <1>1, <1>3, <2>2, BelowWalk
  <2>4. QED
    BY <1>3, <2>3, Zenon
<1>6. PICK m \in 0..MaxLinks : Walk(f, p) = Resolve(f)[Stand(m, B, b)]
  <2>1. Walk(f, a).err = "none" /\ Walk(f, a).path = B /\ b \in Seq(Segment)
    BY <1>1 DEF Reaches
  <2>2. \E m \in 0..MaxLinks : Walk(f, a \o b) = Resolve(f)[Stand(m, B, b)]
    BY <2>1, WalkSplit
  <2>3. QED
    BY <1>3, <2>2, Zenon
<1>7. ASSUME At(f, q).t = "none" PROVE Walk(f, p).err = "notexist"
  <2>1. At(f, Append(B, Head(b))).t = "none"
    BY <1>1, <1>7
  <2>2. b \in Seq(Segment) /\ b # <<>> /\ B \in Seq(Segment) /\ m \in 0..MaxLinks
    BY <1>1, <1>2, <1>6, Zenon
  <2>4. Resolve(f)[Stand(m, B, b)].err = "notexist"
    BY <2>1, <2>2, StopsAt
  <2>5. QED
    BY <1>6, <2>4
<1>8. ASSUME At(f, q).t = "link" PROVE Follows(f, p, f[q].to)
  <2>1. PICK to : to = f[q].to /\ q \in Places /\ At(f, q) = f[q] /\ to \in Seq(Segment)
    <3>1. At(f, q).t # "none"
      BY <1>8
    <3>2. q \in Places /\ At(f, q) = f[q]
      BY <3>1, AtIs DEF Shape
    <3>3. f[q].to \in Seq(Segment)
      BY <1>8, <3>2, ShapeIs DEF LinkTyped
    <3>4. QED
      BY <3>2, <3>3
  <2>2. PICK w : w = Stand(m, B, b) /\ w \in Walks /\ w.links = m /\ w.done = B /\ w.todo = b
    <3>1. Stand(m, B, b) \in Walks /\ Stand(m, B, b).links = m /\ Stand(m, B, b).done = B /\ Stand(m, B, b).todo = b
      <4>1. b \in Seq(Segment) /\ B \in Seq(Segment) /\ m \in 0..MaxLinks
        BY <1>1, <1>2, <1>6, Zenon
      <4>2. QED
        BY <4>1, StandIs
    <3>2. QED
      BY <3>1, Zenon
  <2>3. NextName(w) = q
    BY <1>1, <2>2 DEF NextName
  <2>4. CASE m = 0
    <3>1. Ends(f, w)
      BY <1>8, <2>2, <2>3, <2>4 DEF Ends
    <3>2. Ended(f, w, Resolve(f)[w])
      BY <2>2, <3>1, EndIs
    <3>3. Resolve(f)[w].err = "loop"
      <4>1. w.todo # <<>> /\ At(f, NextName(w)).t = "link"
        BY <1>1, <1>8, <2>2, <2>3, Zenon
      <4>2. QED
        BY <3>2, <4>1 DEF Ended
    <3>4. QED
      BY <1>6, <2>2, <3>3 DEF Follows
  <2>5. CASE m # 0
    <3>1. ~Ends(f, w)
      BY <1>1, <1>8, <2>2, <2>3, <2>5 DEF Ends
    <3>2. f[NextName(w)].t = "link"
      BY <1>8, <2>1, <2>3
    <3>3. /\ After(f, w) = [links |-> w.links - 1, done |-> <<>>, todo |-> f[NextName(w)].to \o Tail(w.todo)]
          /\ Resolve(f)[After(f, w)] = Resolve(f)[w]
      BY <2>2, <3>1, <3>2, AfterIs
    <3>4. to \o <<>> = to
      BY <2>1, PrefixSelf
    <3>5. After(f, w) = Stand(m - 1, <<>>, to)
      BY <1>1, <2>1, <2>2, <2>3, <3>3, <3>4 DEF Stand
    <3>6. m - 1 \in 0..MaxLinks
      BY <1>6, <2>5, PlacesAssumption
    <3>7. QED
      BY <1>6, <2>1, <2>2, <3>3, <3>5, <3>6 DEF Follows
  <2>6. QED
    BY <2>4, <2>5
<1>9. QED
  BY <1>5, <1>7, <1>8

\* The home directory is found as before.
LEMMA HomeStays ==
  ASSUME NEW f, NEW L, NEW g, Gone(f, L, g), f[Home].t = "dir", NEW home \in {Home, Alias}, Walk(f, home).err = "none"
  PROVE  Walk(g, home).err = "none" /\ Walk(g, home).path = Home
<1>1. FsInv(g) /\ Shape(g) /\ Tree(g) /\ g[Home].t = "dir"
  BY GoneIs
<1>2. Walk(g, home).err = "none"
  <2>1. CASE home = Home
    BY <1>1, <2>1, Lie, Canon
  <2>2. CASE home = Alias
    <3>1. Alias \o <<>> = Alias /\ Home \o <<>> = Home /\ <<>> \in Seq(Segment)
      BY Lie, PrefixSelf
    <3>2. \/ Walk(g, Alias).err = "loop"
          \/ \E m \in 0..MaxLinks : Walk(g, Alias) = Resolve(g)[Stand(m, <<>>, Home)]
      <4>1. \/ Walk(g, Alias \o <<>>).err = "loop"
            \/ \E m \in 0..MaxLinks : Walk(g, Alias \o <<>>) = Resolve(g)[Stand(m, <<>>, Home \o <<>>)]
        BY <1>1, <3>1, AliasWalk
      <4>2. QED
        BY <3>1, <4>1, Zenon
    <3>3. ASSUME NEW m \in 0..MaxLinks PROVE Resolve(g)[Stand(m, <<>>, Home)].err = "none"
      BY <1>1, <3>3, Lie, CanonFrom
    <3>4. Walk(g, Alias) = Walk(f, Alias) \/ Walk(g, Alias).err = "notexist"
      BY Lie, GonePath
    <3>5. QED
      BY <2>2, <3>2, <3>3, <3>4
  <2>3. QED
    BY <2>1, <2>2
<1>3. QED
  BY <1>1, <1>2, HomeIs

\* The path t led to L, which is gone: to the object, or to the link in its last place.
Loses(f, t, L, g) ==
  /\ Gone(f, L, g) /\ f[Home].t = "dir" /\ t \in Seq(Segment) /\ t # <<>> /\ Walk(f, Front(t)).err = "none" /\ L \in Places
  /\ \/ Reaches(f, t, L)
     \/ Walk(f, t).err = "notexist" /\ f[L].t = "link" /\ L = Append(Walk(f, Front(t)).path, Last(t))

\* It leads to nothing now.
LEMMA NowMissing ==
  ASSUME NEW f, NEW t, NEW L, NEW g, Loses(f, t, L, g)
  PROVE  Walk(g, t).err = "notexist"
<1>1. Gone(f, L, g) /\ t \in Seq(Segment) /\ L \in Places /\ L \in Seq(Segment)
  BY DEF Loses, Gone
<1>2. Walk(g, t) = Walk(f, t) \/ Walk(g, t).err = "notexist"
  BY <1>1, GonePath
<1>3. CASE Reaches(f, t, L)
  <2>1. g[L].t = "none"
    BY <1>1, GoneIs, PrefixSelf
  <2>2. Shape(g)
    BY <1>1, GoneIs
  <2>3. Found(g, Walk(g, t))
    BY <1>1, <2>2, WalkIs
  <2>4. QED
    BY <1>2, <1>3, <2>1, <2>3 DEF Found, Reaches
<1>4. CASE ~Reaches(f, t, L)
  BY <1>2, <1>4 DEF Loses
<1>5. QED
  BY <1>3, <1>4

\* The nearest ancestor that is left lies in the home directory.
LEMMA NearestIn ==
  ASSUME NEW f, NEW t, NEW L, NEW g, Loses(f, t, L, g), NEW k \in 0..(Len(t) - 1), IsNearest(g, t, k),
         NEW Q, Walk(g, SubSeq(t, 1, k)).err = "none", Q = Walk(g, SubSeq(t, 1, k)).path
  PROVE  IsPrefix(Home, Q)
<1>1. /\ Gone(f, L, g) /\ t \in Seq(Segment) /\ t # <<>> /\ Walk(f, Front(t)).err = "none"
      /\ L \in Places /\ L \in Seq(Segment) /\ IsPrefix(Home, L) /\ L # Home
  BY Lie, PrefixSelf DEF Loses, Gone
<1>2. FsInv(f) /\ FsInv(g) /\ Shape(f) /\ Shape(g) /\ Tree(f) /\ Tree(g) /\ Extends(g, f)
  BY <1>1, GoneIs
<1>3. Q \in Places /\ (LastIn(g, t, Q) \/ RestIn(g, t, Q))
  BY <1>1, <1>2, MissingIn
<1>4. Q \in Seq(Segment)
  BY <1>3, PlacesAssumption
<1>5. PICK F \in Seq(Segment), x \in Segment : /\ F = Front(t) /\ x = Last(t) /\ t = Append(F, x) /\ t = F \o <<x>>
                                               /\ <<x>> \in Seq(Segment) /\ <<x>> # <<>>
  BY <1>1, LastSplit
<1>6. CASE LastIn(g, t, Q)
  <2>1. Walk(f, F).err = "none" /\ Walk(f, F).path = Q
    <3>1. Walk(g, F).err = "none" /\ Walk(g, F).path = Q
      BY <1>5, <1>6 DEF LastIn
    <3>2. Walk(f, F) = Walk(g, F)
      BY <1>1, <1>5, <3>1, GonePath
    <3>3. QED
      BY <3>1, <3>2
  <2>2. PICK n : n = Append(Q, x)
    OBVIOUS
  <2>3. CASE n = L
    BY <1>1, <1>4, <2>2, <2>3, FrontUnder
  <2>4. CASE n # L
    <3>1. Reaches(f, t, L)
      BY <1>5, <2>1, <2>2, <2>4 DEF Loses
    <3>2. Walk(f, t).err = "none" /\ Walk(f, t).path = L
      BY <3>1 DEF Reaches
    <3>3. f[Q].t = "dir"
      <4>1. Walk(f, F \o <<x>>).err = "none"
        BY <1>5, <3>2, Zenon
      <4>2. f[Walk(f, F).path].t = "dir"
        BY <1>2, <1>5, <4>1, ThroughPath
      <4>3. QED
        BY <2>1, <4>2
    <3>4. Reaches(f, F, Q)
      BY <2>1 DEF Reaches
    <3>5. /\ At(f, n).t \in {"dir", "file"} => Reaches(f, t, n)
          /\ At(f, n).t = "none" => Walk(f, t).err = "notexist"
          /\ At(f, n).t = "link" => Follows(f, t, f[n].to)
      <4>1. /\ Shape(f) /\ Tree(f) /\ F \in Seq(Segment) /\ x \in Segment /\ Q \in Places /\ Reaches(f, F, Q) /\ f[Q].t = "dir"
            /\ n = Append(Q, x) /\ t = Append(F, x)
        BY <1>2, <1>3, <1>5, <2>2, <3>3, <3>4, Zenon
      <4>2. QED
        BY <4>1, NextFound, Zenon
    <3>6. At(f, n).t \in {"none", "dir", "file", "link"}
      BY <1>2, AtIs, NodeIs DEF Shape
    <3>7. At(f, n).t = "link"
      BY <2>4, <3>2, <3>5, <3>6 DEF Reaches
    <3>8. n \in Places /\ f[n].t = "link"
      BY <3>7, NodesHold DEF At
    <3>9. n = Alias \/ n = LinkPlace
      BY <1>2, <3>8, Ground
    <3>10. CASE n = Alias
      <4>1. f[n].to = Home
        BY <1>2, <3>10, Ground DEF Link
      <4>2. PICK m \in 0..MaxLinks : Walk(f, t) = Resolve(f)[Stand(m, <<>>, Home)]
        BY <3>2, <3>5, <3>7, <4>1 DEF Follows
      <4>3. \A y \in Places : IsPrefix(y, Home) => f[y].t # "link"
        <5>1. ASSUME NEW y \in Places, IsPrefix(y, Home), f[y].t = "link" PROVE FALSE
          <6>1. IsPrefix(Home, Home)
            BY Lie, PrefixSelf
          <6>2. y = LinkPlace
            BY <1>2, <5>1, <6>1, Lie, LinksOn
          <6>3. f[Home].t = "dir" /\ Home # y
            BY <5>1 DEF Loses
          <6>4. Below(Home, LinkPlace)
            BY WorkspaceAssumption
          <6>5. IsPrefix(Home, y) /\ y \in Seq(Segment)
            BY <6>2, <6>4, PlacesAssumption DEF Below
          <6>6. QED
            BY <5>1, <6>3, <6>5, Lie, PrefixSame
        <5>2. QED
          BY <5>1
      <4>4. Freely(f, Home, <<>>, Walk(f, t))
        BY <1>2, <4>2, <4>3, Lie, PlainFrom
      <4>5. QED
        BY <1>1, <3>2, <4>4 DEF Freely
    <3>11. CASE n = LinkPlace
      <4>1. IsPrefix(Home, n) /\ n # Home
        BY <3>11, WorkspaceAssumption DEF Below
      <4>2. QED
        BY <1>4, <2>2, <4>1, FrontUnder
    <3>12. QED
      BY <3>9, <3>10, <3>11
  <2>5. QED
    BY <2>3, <2>4
<1>7. CASE RestIn(g, t, Q)
  <2>1. PICK a, b \in Seq(Segment) :
          /\ t = a \o b /\ Len(b) > 1 /\ Walk(g, a).err = "none" /\ Walk(g, a).path = Q
          /\ g[Q].t = "dir" /\ At(g, Append(Q, Head(b))).t = "none"
    BY <1>7, Zenon DEF RestIn
  <2>2. Walk(f, a).err = "none" /\ Walk(f, a).path = Q
    <3>1. Walk(f, a) = Walk(g, a)
      BY <1>1, <2>1, GonePath
    <3>2. QED
      BY <2>1, <3>1
  <2>3. f[Q].t = "dir" /\ ~IsPrefix(L, Q)
    BY <1>1, <1>3, <2>1, GoneIs
  <2>4. PICK y, n : y = Head(b) /\ y \in Segment /\ n = Append(Q, y) /\ n \in Seq(Segment) /\ n # <<>> /\ Front(n) = Q
    <3>1. PICK y : y = Head(b) /\ y \in Segment
      BY <2>1
    <3>2. PICK n : n = Append(Q, y)
      OBVIOUS
    <3>3. n \in Seq(Segment) /\ n # <<>>
      BY <1>4, <3>1, <3>2, SMTT(30)
    <3>4. Front(n) = Q
      BY <1>4, <3>1, <3>2, LastFront
    <3>5. QED
      BY <3>1, <3>2, <3>3, <3>4
  <2>5. At(f, n).t # "none"
    <3>1. SUFFICES ASSUME At(f, n).t = "none" PROVE FALSE
      OBVIOUS
    <3>2. At(f, Append(Q, Head(b))).t = "none"
      BY <2>4, <3>1
    <3>3. Walk(f, Front(a \o b)).err = "notexist"
      BY <1>2, <1>3, <2>1, <2>2, <2>3, <3>2, FrontMissing
    <3>4. Walk(f, Front(t)).err = "notexist"
      BY <2>1, <3>3, Zenon
    <3>5. QED
      BY <1>1, <3>4
  <2>6. At(g, n).t = "none"
    BY <2>1, <2>4
  <2>7. IsPrefix(L, n)
    BY <1>1, <2>5, <2>6, GoneIs
  <2>8. L = n \/ IsPrefix(L, Front(n))
    BY <1>1, <2>4, <2>7, LastName
  <2>9. L = n
    BY <2>3, <2>4, <2>8
  <2>10. IsPrefix(Home, n) /\ n # Home
    BY <1>1, <2>9
  <2>11. QED
    BY <1>4, <2>4, <2>10, FrontUnder
<1>8. QED
  BY <1>3, <1>6, <1>7

\* What is found by its path has an entry.
LEMMA HasEntry ==
  ASSUME NEW g, Shape(g), NEW A \in Seq(Segment), Walk(g, A).err = "none", Lstat(g, A).err # "notexist"
  PROVE  Lstat(g, A).err = "none"
<1>1. CASE A = <<>>
  BY <1>1 DEF Lstat
<1>2. CASE A # <<>>
  <2>1. PICK a \in Seq(Segment), x \in Segment : /\ a = Front(A) /\ x = Last(A) /\ A = Append(a, x) /\ A = a \o <<x>>
                                                 /\ <<x>> \in Seq(Segment) /\ <<x>> # <<>>
    BY <1>2, LastSplit
  <2>2. Walk(g, a).err = "none" /\ g[Walk(g, a).path].t = "dir"
    <3>1. Walk(g, a \o <<x>>).err = "none"
      BY <2>1, Zenon
    <3>2. QED
      BY <2>1, <3>1, ThroughPath
  <2>3. PICK up, q : up = Walk(g, Front(A)) /\ q = Append(up.path, Last(A))
    OBVIOUS
  <2>4. Lstat(g, A).err = LstatErr(g, up, q)
    BY <1>2, <2>3, LstatIs, ZenonT(60)
  <2>5. up.err = "none" /\ g[up.path].t = "dir"
    BY <2>1, <2>2, <2>3
  <2>6. At(g, up.path).t # "file"
    <3>1. Found(g, Walk(g, a))
      BY <2>1, WalkIs
    <3>2. Walk(g, a).path \in Places
      BY <2>2, <3>1 DEF Found
    <3>3. up.path \in Places
      BY <2>1, <2>3, <3>2
    <3>4. QED
      BY <2>5, <3>3 DEF At
  <2>7. QED
    BY <2>4, <2>5, <2>6 DEF LstatErr
<1>3. QED
  BY <1>1, <1>2

\* A path that meets no link leads to what it names.
GoesStraight(f, m, to, b) == Resolve(f)[Stand(m, to, b)].path = to \o b

\* One below a place that is not above the link of a command.
LEMMA StraightOn ==
  ASSUME NEW f, FsInv(f), NEW to \in Seq(Segment), IsPrefix(Home, to), NEW b \in Seq(Segment), b # <<>>, NEW m \in 0..MaxLinks,
         ~IsPrefix(to, LinkPlace), Resolve(f)[Stand(m, to, b)].err = "none"
  PROVE  GoesStraight(f, m, to, b)
<1>1. PICK w : w = Stand(m, to, b) /\ w \in Walks /\ w.done = to /\ All(w) = to \o b
  <2>1. Stand(m, to, b) \in Walks /\ Stand(m, to, b).done = to /\ All(Stand(m, to, b)) = to \o b
    BY StandIs
  <2>2. QED
    BY <2>1, Zenon
<1>2. PICK z : z = to \o b /\ z \in Seq(Segment) /\ IsPrefix(to, z) /\ IsPrefix(Home, z)
  <2>1. to \o b \in Seq(Segment) /\ IsPrefix(to, to \o b)
    BY PrefixJoin
  <2>2. IsPrefix(Home, to \o b)
    BY <2>1, Lie, PrefixTrans
  <2>3. QED
    BY <2>1, <2>2
<1>3. ASSUME NEW y \in Places, IsPrefix(y, z), Len(y) > Len(to), f[y].t = "link" PROVE FALSE
  <2>1. y \in Seq(Segment) /\ Len(y) \in Nat /\ Len(to) \in Nat
    BY PlacesAssumption
  <2>2. IsPrefix(to, y)
    <3>1. Len(to) <= Len(y)
      BY <1>3, <2>1
    <3>2. QED
      BY <1>2, <1>3, <2>1, <3>1, PrefixBoth, Zenon
  <2>3. y = LinkPlace
    BY <1>2, <1>3, LinksOn
  <2>4. QED
    BY <2>2, <2>3
<1>4. Straight(f, w)
  BY <1>1, <1>2, <1>3 DEF Straight
<1>5. Freely(f, z, to, Resolve(f)[w])
  <2>1. Shape(f)
    BY Ground
  <2>2. Freely(f, All(w), w.done, Resolve(f)[w])
    BY <1>1, <1>4, <2>1, Free
  <2>3. QED
    BY <1>1, <1>2, <2>2, Zenon
<1>6. QED
  BY <1>1, <1>2, <1>5 DEF Freely, GoesStraight

\* What is left of t behind A, which led to a directory.
Remains(f, t, L, A, b) ==
  b # <<>> /\ t = A \o b /\ (Reaches(f, t, L) => f[Walk(f, A).path].t = "dir")

\* An ancestor of t was there.
LEMMA Ancestor ==
  ASSUME NEW f, NEW t, NEW L, NEW g, Loses(f, t, L, g), NEW k \in 0..(Len(t) - 1), NEW A, A = SubSeq(t, 1, k)
  PROVE  /\ A \in Seq(Segment) /\ Walk(f, A).err = "none"
         /\ \E b \in Seq(Segment) : Remains(f, t, L, A, b)
<1>1. t \in Seq(Segment) /\ t # <<>> /\ Walk(f, Front(t)).err = "none" /\ Shape(f)
  BY GoneIs DEF Loses
<1>2. PICK b : b = SubSeq(t, k + 1, Len(t))
  OBVIOUS
<1>3. k \in 0..Len(t) /\ Len(t) \in Nat /\ k + 1 \in 1..(Len(t) + 1) /\ Len(t) \in ((k + 1) - 1)..Len(t) /\ k \in Nat
  BY <1>1
<1>4. A \in Seq(Segment) /\ Len(A) = k
  <2>1. 1 \in 1..(Len(t) + 1) /\ k \in (1 - 1)..Len(t)
    BY <1>3
  <2>2. SubSeq(t, 1, k) \in Seq(Segment) /\ Len(SubSeq(t, 1, k)) = k - 1 + 1
    BY <1>1, <2>1, Cut
  <2>3. QED
    BY <1>3, <2>2
<1>5. b \in Seq(Segment) /\ Len(b) = Len(t) - k /\ b # <<>>
  <2>1. b \in Seq(Segment) /\ Len(b) = Len(t) - (k + 1) + 1
    BY <1>1, <1>2, <1>3, Cut
  <2>2. Len(b) = Len(t) - k /\ Len(b) > 0
    BY <1>3, <2>1
  <2>3. QED
    BY <2>1, <2>2
<1>6. t = A \o b
  BY <1>1, <1>2, <1>3, CutAt
<1>7. Walk(f, A).err = "none"
  <2>1. CASE Len(b) = 1
    <3>1. Front(t) = A
      <4>1. PICK F : F = Front(t) /\ F \in Seq(Segment) /\ Len(t) = Len(F) + 1 /\ IsPrefix(F, t)
        BY <1>1, LastName
      <4>2. IsPrefix(A, t)
        BY <1>4, <1>5, <1>6, PrefixJoin
      <4>3. Len(F) = Len(A)
        <5>1. Len(F) \in Nat
          BY <4>1
        <5>2. Len(t) - k = 1
          BY <1>5, <2>1
        <5>3. QED
          BY <1>3, <1>4, <4>1, <5>1, <5>2
      <4>4. IsPrefix(A, F)
        <5>1. Len(A) <= Len(F)
          BY <1>3, <1>4, <4>3
        <5>2. QED
          BY <1>1, <1>4, <4>1, <4>2, <5>1, PrefixBoth, Zenon
      <4>5. Len(F) <= Len(A)
        BY <1>3, <1>4, <4>3
      <4>6. QED
        BY <1>4, <4>1, <4>4, <4>5, PrefixSame
    <3>2. QED
      BY <1>1, <3>1
  <2>2. CASE Len(b) > 1
    <3>1. Front(A \o b) = A \o Front(b) /\ Front(b) \in Seq(Segment) /\ Front(b) # <<>>
      BY <1>4, <1>5, <2>2, FrontJoin
    <3>2. PICK c : c = Front(b) /\ c \in Seq(Segment) /\ c # <<>>
      BY <3>1
    <3>3. Walk(f, A \o c).err = "none"
      BY <1>1, <1>6, <3>1, <3>2, Zenon
    <3>4. QED
      BY <1>1, <1>4, <3>2, <3>3, ThroughPath
  <2>3. QED
    BY <1>3, <1>5, <2>1, <2>2
<1>8. ASSUME Reaches(f, t, L) PROVE f[Walk(f, A).path].t = "dir"
  <2>1. Walk(f, A \o b).err = "none"
    BY <1>6, <1>8, Zenon DEF Reaches
  <2>2. QED
    BY <1>1, <1>4, <1>5, <2>1, ThroughPath
<1>9. QED
  BY <1>4, <1>5, <1>6, <1>7, <1>8 DEF Remains

\* The way through the link cannot have lost what it led to.
LEMMA LinkHolds ==
  ASSUME NEW f, NEW t, NEW L, NEW g, Loses(f, t, L, g), NEW A \in Seq(Segment), NEW b \in Seq(Segment), Remains(f, t, L, A, b),
         Walk(f, A).err = "none",
         g[LinkPlace].t = "link", NEW to, to = g[LinkPlace].to, Follows(f, A, to), Follows(g, A, to),
         Walk(g, A).err = "notexist", IsPrefix(L, Walk(g, A).path)
  PROVE  FALSE
<1>1. /\ Gone(f, L, g) /\ t \in Seq(Segment) /\ L \in Places /\ L \in Seq(Segment) /\ IsPrefix(Home, L)
      /\ b # <<>> /\ t = A \o b /\ (Reaches(f, t, L) => f[Walk(f, A).path].t = "dir")
  BY DEF Loses, Gone, Remains
<1>2. FsInv(f) /\ FsInv(g) /\ Shape(f) /\ Shape(g) /\ Tree(f) /\ Tree(g)
  BY <1>1, GoneIs
<1>3. /\ LinkPlace \in Places /\ LinkPlace \in Seq(Segment) /\ IsPrefix(Home, LinkPlace) /\ LinkPlace # Alias
  BY Lie, WorkspaceAssumption, PlacesAssumption DEF Below
<1>4. ~IsPrefix(L, LinkPlace) /\ g[LinkPlace] = f[LinkPlace]
  BY <1>1, <1>3, GoneIs
<1>5. f[LinkPlace].t = "link" /\ to = f[LinkPlace].to /\ to \in Targets
  BY <1>2, <1>3, <1>4, Ground
<1>6. to \in Places /\ to \in Seq(Segment)
  BY <1>5, WorkspaceAssumption, PlacesAssumption
<1>7. PICK m \in 0..MaxLinks : Walk(f, A) = Resolve(f)[Stand(m, <<>>, to)]
  <2>1. Walk(f, A).err # "loop"
    OBVIOUS
  <2>2. QED
    BY <2>1 DEF Follows
<1>8. PICK n \in 0..MaxLinks : Walk(g, A) = Resolve(g)[Stand(n, <<>>, to)]
  <2>1. Walk(g, A).err # "loop"
    OBVIOUS
  <2>2. QED
    BY <2>1 DEF Follows
<1>9. IsPrefix(Home, to)
  <2>1. SUFFICES ASSUME ~IsPrefix(Home, to) PROVE FALSE
    OBVIOUS
  <2>2. Freely(g, to, <<>>, Resolve(g)[Stand(n, <<>>, to)])
    BY <1>2, <1>5, <2>1, OutwardWalk
  <2>3. PICK y : y = Walk(g, A).path /\ y \in Seq(Segment) /\ IsPrefix(y, to)
    BY <1>8, <2>2 DEF Freely
  <2>4. IsPrefix(L, to)
    BY <1>1, <1>6, <2>3, PrefixTrans
  <2>5. QED
    BY <1>1, <1>6, <2>1, <2>4, Lie, PrefixTrans
<1>10. ~IsPrefix(LinkPlace, to)
  BY <1>2, <1>5, <1>6, <1>7, LoopsAtLink
<1>11. \A y \in Places : IsPrefix(y, to) => f[y].t # "link" /\ g[y].t # "link"
  BY <1>2, <1>6, <1>9, <1>10, LinksOn
<1>12. Freely(f, to, <<>>, Walk(f, A))
  <2>1. \A y \in Places : IsPrefix(y, to) => f[y].t # "link"
    BY <1>11
  <2>2. Freely(f, to, <<>>, Resolve(f)[Stand(m, <<>>, to)])
    BY <1>2, <1>6, <2>1, PlainFrom
  <2>3. QED
    BY <1>7, <2>2, Zenon
<1>13. Freely(g, to, <<>>, Walk(g, A))
  <2>1. \A y \in Places : IsPrefix(y, to) => g[y].t # "link"
    BY <1>11
  <2>2. Freely(g, to, <<>>, Resolve(g)[Stand(n, <<>>, to)])
    BY <1>2, <1>6, <2>1, PlainFrom
  <2>3. QED
    BY <1>8, <2>2, Zenon
<1>14. Walk(f, A).path = to
  BY <1>12 DEF Freely
<1>15. IsPrefix(L, to)
  <2>1. Walk(g, A).path \in Seq(Segment) /\ IsPrefix(Walk(g, A).path, to)
    BY <1>13 DEF Freely
  <2>2. QED
    BY <1>1, <1>6, <2>1, PrefixTrans
<1>16. Reaches(f, t, L)
  <2>1. SUFFICES ASSUME ~Reaches(f, t, L) PROVE FALSE
    OBVIOUS
  <2>2. f[L].t = "link"
    BY <2>1 DEF Loses
  <2>3. IsPrefix(L, L)
    BY <1>1, PrefixSelf
  <2>4. L = LinkPlace
    BY <1>1, <1>2, <2>2, <2>3, LinksOn
  <2>5. QED
    BY <1>4, <2>3, <2>4
<1>17. f[to].t = "dir"
  BY <1>1, <1>14, <1>16
<1>18. PICK l \in 0..MaxLinks : Walk(f, t) = Resolve(f)[Stand(l, to, b)]
  <2>1. \E l \in 0..MaxLinks : Walk(f, A \o b) = Resolve(f)[Stand(l, to, b)]
    BY <1>2, <1>14, <1>17, WalkSplit
  <2>2. QED
    BY <1>1, <2>1
<1>19. ~IsPrefix(to, LinkPlace)
  BY <1>1, <1>3, <1>4, <1>6, <1>15, PrefixTrans
<1>20. Resolve(f)[Stand(l, to, b)].err = "none" /\ Resolve(f)[Stand(l, to, b)].path = L
  BY <1>16, <1>18 DEF Reaches
<1>21. L = to \o b
  <2>1. Resolve(f)[Stand(l, to, b)].path = to \o b
    <3>1. /\ FsInv(f) /\ to \in Seq(Segment) /\ IsPrefix(Home, to) /\ b \in Seq(Segment) /\ b # <<>> /\ l \in 0..MaxLinks
          /\ ~IsPrefix(to, LinkPlace) /\ Resolve(f)[Stand(l, to, b)].err = "none"
      BY <1>1, <1>2, <1>6, <1>9, <1>18, <1>19, <1>20, Zenon
    <3>2. GoesStraight(f, l, to, b)
      BY <3>1, StraightOn
    <3>3. QED
      BY <3>2, Zenon DEF GoesStraight
  <2>2. QED
    BY <1>20, <2>1, Zenon
<1>22. Len(L) = Len(to) + Len(b) /\ Len(to) \in Nat /\ Len(b) \in Nat \ {0} /\ Len(L) <= Len(to)
  <2>1. Len(to \o b) = Len(to) + Len(b) /\ Len(to) \in Nat /\ Len(b) \in Nat \ {0}
    BY <1>1, <1>6, PrefixJoin
  <2>2. Len(L) <= Len(to)
    BY <1>1, <1>6, <1>15, PrefixSame
  <2>3. QED
    BY <1>21, <2>1, <2>2, Zenon
<1>23. QED
  BY <1>22

\* The nearest ancestor that has an entry is found.
LEMMA NearestHolds ==
  ASSUME NEW f, NEW t, NEW L, NEW g, Loses(f, t, L, g), NEW k \in 0..(Len(t) - 1), IsNearest(g, t, k),
         NEW A, A = SubSeq(t, 1, k)
  PROVE  Walk(g, A).err = "none"
<1>1. Gone(f, L, g) /\ f[Home].t = "dir" /\ t \in Seq(Segment) /\ L \in Places /\ L \in Seq(Segment)
  BY DEF Loses, Gone
<1>2. FsInv(f) /\ FsInv(g) /\ Shape(f) /\ Shape(g) /\ Tree(f) /\ Tree(g) /\ g[Home].t = "dir"
  BY <1>1, GoneIs
<1>3. PICK b \in Seq(Segment) : A \in Seq(Segment) /\ Walk(f, A).err = "none" /\ Remains(f, t, L, A, b)
  <2>1. /\ A \in Seq(Segment) /\ Walk(f, A).err = "none"
        /\ \E b \in Seq(Segment) : Remains(f, t, L, A, b)
    BY Ancestor
  <2>2. QED
    BY <2>1, Zenon
<1>4. SUFFICES ASSUME Walk(g, A).err # "none" PROVE FALSE
  OBVIOUS
<1>5. Walk(g, A).err = "notexist" /\ IsPrefix(L, Walk(g, A).path)
  BY <1>1, <1>3, <1>4, GonePath
<1>6. A # <<>>
  <2>1. SUFFICES ASSUME A = <<>> PROVE FALSE
    OBVIOUS
  <2>2. <<>> \in Places /\ g[<<>>].t = "dir"
    BY <1>2, PlacesAssumption DEF Shape
  <2>3. Walk(g, <<>>).err = "none"
    BY <1>2, <2>2, Canon
  <2>4. QED
    BY <1>4, <2>1, <2>3, Zenon
<1>7. PICK a \in Seq(Segment), x \in Segment : /\ a = Front(A) /\ x = Last(A) /\ A = Append(a, x) /\ A = a \o <<x>>
                                               /\ <<x>> \in Seq(Segment) /\ <<x>> # <<>>
  BY <1>3, <1>6, LastSplit
<1>8. PICK up, n : up = Walk(g, Front(A)) /\ n = Append(up.path, Last(A))
  OBVIOUS
<1>9. LstatErr(g, up, n) # "notexist"
  <2>1. Lstat(g, A).err = LstatErr(g, up, n)
    BY <1>6, <1>8, LstatIs, ZenonT(60)
  <2>2. Lstat(g, A).err # "notexist"
    BY DEF IsNearest
  <2>3. QED
    BY <2>1, <2>2
<1>10. up.err # "notexist"
  BY <1>9 DEF LstatErr
<1>11. up = Walk(f, a) /\ up = Walk(g, a)
  <2>1. Walk(g, a) = Walk(f, a) \/ Walk(g, a).err = "notexist"
    BY <1>1, <1>7, GonePath
  <2>2. up = Walk(g, a)
    BY <1>7, <1>8
  <2>3. QED
    BY <1>10, <2>1, <2>2
<1>12. Walk(f, a).err = "none" /\ f[Walk(f, a).path].t = "dir"
  <2>1. Walk(f, a \o <<x>>).err = "none"
    BY <1>3, <1>7, Zenon
  <2>2. QED
    BY <1>2, <1>7, <2>1, ThroughPath
<1>13. PICK B \in Places : B = up.path /\ up.err = "none" /\ f[B].t = "dir" /\ g[B].t = "dir" /\ n = Append(B, x)
  <2>1. up.err = "none" /\ f[up.path].t = "dir"
    BY <1>11, <1>12
  <2>2. Found(g, up)
    BY <1>2, <1>7, <1>11, WalkIs
  <2>3. up.path \in Places /\ g[up.path].t \in {"dir", "file"}
    BY <2>1, <2>2 DEF Found
  <2>4. g[up.path] = f[up.path]
    BY <1>1, <2>3, GoneIs
  <2>5. n = Append(up.path, x)
    BY <1>7, <1>8
  <2>6. QED
    BY <2>1, <2>3, <2>4, <2>5
<1>14. At(g, n).t # "none"
  <2>1. At(g, B).t = "dir"
    BY <1>13 DEF At
  <2>2. At(g, up.path).t # "file"
    BY <1>13, <2>1
  <2>3. QED
    BY <1>9, <1>13, <2>2 DEF LstatErr
<1>15. At(g, n) = At(f, n)
  BY <1>1, <1>14, GoneIs
<1>16. /\ At(g, n).t \in {"dir", "file"} => Reaches(g, A, n)
       /\ At(g, n).t = "link" => Follows(g, A, g[n].to)
  <2>1. Reaches(g, a, B)
    BY <1>11, <1>13 DEF Reaches
  <2>2. /\ Shape(g) /\ Tree(g) /\ a \in Seq(Segment) /\ x \in Segment /\ B \in Places /\ g[B].t = "dir"
        /\ n = Append(B, x) /\ A = Append(a, x)
    BY <1>2, <1>7, <1>13, Zenon
  <2>3. QED
    BY <2>1, <2>2, NextFound, Zenon
<1>17. At(f, n).t = "link" => Follows(f, A, f[n].to)
  <2>1. Reaches(f, a, B)
    BY <1>11, <1>13 DEF Reaches
  <2>2. /\ Shape(f) /\ Tree(f) /\ a \in Seq(Segment) /\ x \in Segment /\ B \in Places /\ f[B].t = "dir"
        /\ n = Append(B, x) /\ A = Append(a, x)
    BY <1>2, <1>7, <1>13, Zenon
  <2>3. QED
    BY <2>1, <2>2, NextFound, Zenon
<1>18. At(g, n).t \in {"none", "dir", "file", "link"} /\ n \in Places /\ At(g, n) = g[n] /\ At(f, n) = f[n]
  <2>1. At(g, n) \in Nodes /\ n \in Places
    BY <1>2, <1>14, AtIs DEF Shape
  <2>2. At(g, n).t \in {"none", "dir", "file", "link"}
    BY <2>1, NodeIs
  <2>3. QED
    BY <2>1, <2>2 DEF At
<1>19. ~Reaches(g, A, n)
  BY <1>4 DEF Reaches
<1>20. g[n].t = "link" /\ f[n] = g[n] /\ Follows(g, A, g[n].to) /\ Follows(f, A, g[n].to)
  BY <1>14, <1>15, <1>16, <1>17, <1>18, <1>19
<1>21. n = Alias \/ n = LinkPlace
  BY <1>2, <1>18, <1>20, Ground
<1>22. CASE n = Alias
  <2>1. g[n].to = Home
    BY <1>2, <1>22, Ground DEF Link
  <2>2. PICK m \in 0..MaxLinks : Walk(g, A) = Resolve(g)[Stand(m, <<>>, Home)]
    <3>1. Follows(g, A, Home)
      BY <1>20, <2>1
    <3>2. Walk(g, A).err # "loop"
      BY <1>5
    <3>3. QED
      BY <3>1, <3>2 DEF Follows
  <2>3. Resolve(g)[Stand(m, <<>>, Home)].err = "none"
    BY <1>2, Lie, CanonFrom
  <2>4. QED
    BY <1>4, <2>2, <2>3
<1>23. CASE n = LinkPlace
  <2>1. PICK to : to = g[LinkPlace].to
    OBVIOUS
  <2>2. Follows(g, A, to) /\ Follows(f, A, to) /\ g[LinkPlace].t = "link"
    BY <1>20, <1>23, <2>1
  <2>3. QED
    BY <1>3, <1>5, <2>1, <2>2, LinkHolds
<1>24. QED
  BY <1>21, <1>22, <1>23

\* The entry of a path: its directory, and its place in it.
EntryOf(f, p, up, q) ==
  up = Walk(f, Front(p)) /\ q = Append(up.path, Last(p)) /\ Lstat(f, p).path = q /\ Lstat(f, p).err = LstatErr(f, up, q)

\* Every path but the root has one.
LEMMA EntryFound ==
  ASSUME NEW f, NEW p, p # <<>>
  PROVE  \E up, q : EntryOf(f, p, up, q)
<1>1. PICK up, q : up = Walk(f, Front(p)) /\ q = Append(up.path, Last(p))
  OBVIOUS
<1>2. Lstat(f, p).path = q
  BY <1>1, LstatIs, ZenonT(60)
<1>3. Lstat(f, p).err = LstatErr(f, up, q)
  BY <1>1, LstatIs, ZenonT(60)
<1>4. QED
  BY <1>1, <1>2, <1>3, Zenon DEF EntryOf

\* What a delete takes away.
LEMMA DeleteLoses ==
  ASSUME NEW f, FsInv(f), NEW home \in {Home, Alias}, NEW req, IsRequest(req),
         NEW v, v = ValidatePath(f, home, req), Accepted(req, v), NEW l, l = Lstat(f, v.path), l.err = "none",
         NEW g, g = RemoveAll(f, l.path), g[Home].t = "dir"
  PROVE  \E t : Loses(f, t, l.path, g) /\ IsTarget(home, req, t) /\ Walk(f, home).err = "none"
<1>1. PICK t : Leads(f, home, req, t, v)
  BY LeadsTo DEF Accepted
<1>2. /\ Walk(f, home).err = "none" /\ f[Home].t = "dir" /\ IsTarget(home, req, t) /\ t \in Seq(Segment)
      /\ (IsPrefix(home, t) \/ IsPrefix(Home, t)) /\ (Real(f, v.path) \/ Behind(f, v.path))
  BY <1>1 DEF Leads, IsTarget
<1>3. PICK p, L : p = v.path /\ L = l.path /\ L \in Seq(Segment) /\ IsPrefix(Home, L)
  BY <1>2, DeletesBelow
<1>4. ~IsPrefix(L, Home)
  <2>1. IsPrefix(L, Home) => g[Home] = None
    BY <1>3, Lie DEF RemoveAll
  <2>2. QED
    BY <2>1, NodesHold
<1>5. Gone(f, L, g)
  BY <1>3, <1>4 DEF Gone
<1>6. Shape(f) /\ Tree(f)
  BY Ground
<1>7. t # <<>>
  <2>1. home \in Seq(Segment) /\ home # <<>> /\ Home \in Seq(Segment) /\ Home # <<>>
    BY Lie
  <2>2. ASSUME t = <<>> PROVE FALSE
    <3>1. \A h \in Seq(Segment) : IsPrefix(h, <<>>) => h = <<>>
      BY PrefixSame, PrefixSelf
    <3>2. QED
      BY <1>2, <2>1, <2>2, <3>1
  <2>3. QED
    BY <2>2
<1>8. PICK F \in Seq(Segment), x \in Segment : /\ F = Front(t) /\ x = Last(t) /\ t = Append(F, x) /\ t = F \o <<x>>
                                               /\ <<x>> \in Seq(Segment) /\ <<x>> # <<>>
  BY <1>2, <1>7, LastSplit
<1>9. CASE Walk(f, t).err = "none" /\ Walk(f, t).path = p /\ Real(f, p)
  <2>1. L = p /\ L \in Places
    BY <1>3, <1>9, RealEntry DEF Real
  <2>2. Walk(f, F).err = "none"
    <3>1. Walk(f, F \o <<x>>).err = "none"
      BY <1>8, <1>9, Zenon
    <3>2. QED
      BY <1>6, <1>8, <3>1, ThroughPath
  <2>3. Reaches(f, t, L)
    BY <1>9, <2>1 DEF Reaches
  <2>4. Loses(f, t, L, g)
    BY <1>2, <1>5, <1>7, <1>8, <2>1, <2>2, <2>3 DEF Loses
  <2>5. QED
    BY <1>2, <1>3, <2>4
<1>10. CASE Walk(f, t).err = "notexist" /\ p = t
  <2>1. PICK up, q : EntryOf(f, t, up, q)
    BY <1>7, EntryFound
  <2>2. up = Walk(f, Front(t)) /\ q = Append(up.path, Last(t)) /\ Lstat(f, t).path = q /\ Lstat(f, t).err = LstatErr(f, up, q)
    BY <2>1 DEF EntryOf
  <2>3. L = q /\ LstatErr(f, up, q) = "none"
    BY <1>3, <1>10, <2>2
  <2>4. up.err = "none" /\ At(f, up.path).t # "file" /\ At(f, q).t # "none"
    BY <2>3 DEF LstatErr
  <2>5. PICK B \in Places : B = up.path /\ f[B].t = "dir" /\ Reaches(f, F, B) /\ q = Append(B, x)
    <3>1. Found(f, up)
      BY <1>6, <1>8, <2>2, WalkIs
    <3>2. up.path \in Places /\ f[up.path].t \in {"dir", "file"}
      BY <2>4, <3>1 DEF Found
    <3>3. f[up.path].t = "dir"
      BY <2>4, <3>2 DEF At
    <3>4. Reaches(f, F, up.path) /\ q = Append(up.path, x)
      BY <1>8, <2>2, <2>4 DEF Reaches
    <3>5. QED
      BY <3>2, <3>3, <3>4
  <2>6. q \in Places /\ At(f, q) = f[q] /\ f[q].t \in {"none", "dir", "file", "link"}
    <3>1. q \in Places /\ At(f, q) = f[q] /\ f[q] \in Nodes
      BY <1>6, <2>4, AtIs DEF Shape
    <3>2. QED
      BY <3>1, NodeIs
  <2>7. ~Reaches(f, t, q)
    BY <1>10 DEF Reaches
  <2>8. At(f, q).t \in {"dir", "file"} => Reaches(f, t, q)
    <3>1. /\ Shape(f) /\ Tree(f) /\ F \in Seq(Segment) /\ x \in Segment /\ B \in Places /\ Reaches(f, F, B) /\ f[B].t = "dir"
          /\ q = Append(B, x) /\ t = Append(F, x)
      BY <1>6, <1>8, <2>5, Zenon
    <3>2. QED
      BY <3>1, NextFound, Zenon
  <2>9. f[q].t = "link"
    BY <2>4, <2>6, <2>7, <2>8
  <2>10. Loses(f, t, L, g)
    BY <1>2, <1>5, <1>7, <1>10, <2>2, <2>3, <2>4, <2>6, <2>9 DEF Loses
  <2>11. QED
    BY <1>2, <1>3, <2>10
<1>11. QED
  BY <1>1, <1>3, <1>9, <1>10 DEF Leads

\* It is accepted by its path again, and not found.
LEMMA GoneIsMissed ==
  ASSUME NEW f, NEW t, NEW L, NEW g, Loses(f, t, L, g), NEW home \in {Home, Alias}, NEW req, IsTarget(home, req, t), ~EmptyPath(req),
         Walk(f, home).err = "none", NEW offset, NEW limit
  PROVE  readFile(g, home, req, offset, limit).code = "NotFound"
<1>1. Gone(f, L, g) /\ f[Home].t = "dir" /\ t \in Seq(Segment) /\ t # <<>>
  BY DEF Loses
<1>2. FsInv(g) /\ Shape(g)
  BY <1>1, GoneIs
<1>3. PICK v, h, r : v = ValidatePath(g, home, req) /\ h = Walk(g, home) /\ r = Walk(g, t)
  OBVIOUS
<1>4. h.err = "none" /\ h.path = Home
  BY <1>1, <1>3, HomeStays
<1>5. r.err = "notexist"
  BY <1>3, NowMissing
<1>6. v = validateNonExistentPath(g, Home, t)
  <2>1. t = Clean(Asked(home, req)) /\ (isUnderDir(home, t) \/ isUnderDir(Home, t))
    BY DEF IsTarget, isUnderDir
  <2>2. v = ValidOf(g, home, req, h, t, r)
    BY <1>3, <2>1, ValidateIs, ZenonT(30)
  <2>3. QED
    BY <1>4, <1>5, <2>1, <2>2 DEF ValidOf
<1>7. Lstat(g, <<>>).err # "notexist"
  <2>1. <<>> \in Places /\ g[<<>>].t = "dir" /\ Tree(g)
    BY <1>2, PlacesAssumption, Ground DEF Shape
  <2>2. Walk(g, <<>>).err = "none"
    BY <1>2, <2>1, Canon
  <2>3. QED
    BY <2>2 DEF Lstat
<1>8. ASSUME NEW k \in 0..(Len(t) - 1), IsNearest(g, t, k),
             \/ Lstat(g, SubSeq(t, 1, k)).err # "none" \/ Walk(g, SubSeq(t, 1, k)).err # "none"
             \/ ~IsPrefix(Home, Walk(g, SubSeq(t, 1, k)).path)
      PROVE  FALSE
  <2>1. PICK A : A = SubSeq(t, 1, k) /\ A \in Seq(Segment)
    BY Ancestor
  <2>2. Walk(g, A).err = "none"
    BY <1>8, <2>1, NearestHolds
  <2>3. IsPrefix(Home, Walk(g, A).path)
    BY <1>8, <2>1, <2>2, NearestIn
  <2>4. Lstat(g, A).err # "notexist"
    BY <1>8, <2>1 DEF IsNearest
  <2>5. Lstat(g, A).err = "none"
    BY <1>2, <2>1, <2>2, <2>4, HasEntry
  <2>6. QED
    BY <1>8, <2>1, <2>2, <2>3, <2>5
<1>9. v = Valid(t)
  <2>1. v # Valid(t) => \E k \in 0..(Len(t) - 1) :
          /\ IsNearest(g, t, k)
          /\ \/ Lstat(g, SubSeq(t, 1, k)).err # "none" \/ Walk(g, SubSeq(t, 1, k)).err # "none"
             \/ ~IsPrefix(Home, Walk(g, SubSeq(t, 1, k)).path)
    BY <1>1, <1>6, <1>7, NonExistentIs
  <2>2. QED
    BY <1>8, <2>1
<1>10. v.err = "none" /\ v.path = t
  BY <1>9, VerdictErrs
<1>11. PICK s, node, c : s = Walk(g, v.path) /\ node = At(g, s.path) /\ c = readFile(g, home, req, offset, limit)
  OBVIOUS
<1>12. s.err = "notexist"
  BY <1>3, <1>5, <1>10, <1>11
<1>13. c.code = "NotFound"
  BY <1>3, <1>10, <1>11, <1>12, ReadIs
<1>14. QED
  BY <1>11, <1>13

\* The same in every state.
LEMMA DeletesAgreeHolds ==
  ASSUME WorkspaceInv
  PROVE  DeletesAgree
<1>1. FsInv(fs) /\ homeDir \in {Home, Alias}
  BY DEF WorkspaceInv
<1>2. ASSUME NEW req \in Requests, NEW recursive \in BOOLEAN, NEW d, d = deleteFile(fs, homeDir, req, recursive),
             d.code = "ok", d.fs[Home].t = "dir"
      PROVE  readFile(d.fs, homeDir, req, 0, 0).code = "NotFound"
  <2>1. PICK v, l, g : v = ValidatePath(fs, homeDir, req) /\ l = Lstat(fs, v.path) /\ g = d.fs
    OBVIOUS
  <2>2. IsRequest(req)
    BY WorkspaceAssumption
  <2>3. Accepted(req, v) /\ l.err = "none" /\ g = RemoveAll(fs, l.path)
    BY <1>2, <2>1, DeleteIs
  <2>4. g[Home].t = "dir"
    BY <1>2, <2>1
  <2>5. PICK t : Loses(fs, t, l.path, g) /\ IsTarget(homeDir, req, t) /\ Walk(fs, homeDir).err = "none"
    BY <1>1, <2>1, <2>2, <2>3, <2>4, DeleteLoses
  <2>6. ~EmptyPath(req)
    BY <2>3 DEF Accepted
  <2>7. readFile(g, homeDir, req, 0, 0).code = "NotFound"
    BY <1>1, <2>5, <2>6, GoneIsMissed
  <2>8. QED
    BY <2>1, <2>7
<1>3. QED
  BY <1>2 DEF DeletesAgree

-----------------------------------------
(* The lines of a text *)

\* The rounds of strings.Split.
IsSplitting(data, s) ==
  s = [k \in 0..Len(data) |-> IF k = 0 THEN << <<>> >> ELSE SplitByte(s[k - 1], data[k])]

\* The rounds of strings.Split are a recursive function, which has a value.
LEMMA SplitIs ==
  ASSUME NEW data, Len(data) \in Nat
  PROVE  \E s : IsSplitting(data, s) /\ SplitLines(data) = s[Len(data)]
<1> DEFINE Rounds(m, s) == s = [k \in 0..m |-> IF k = 0 THEN << <<>> >> ELSE SplitByte(s[k - 1], data[k])]
           G == {m \in Nat : \E s : Rounds(m, s)}
<1>1. 0 \in G
  <2>1. PICK s : s = [k \in 0..0 |-> << <<>> >>]
    OBVIOUS
  <2>2. Rounds(0, s)
    BY <2>1
  <2>3. QED
    BY <2>2
<1>2. ASSUME NEW m \in 1..Len(data), m - 1 \in G PROVE m \in G
  <2>1. PICK s : Rounds(m - 1, s)
    BY <1>2
  <2>2. PICK r : r = [k \in 0..m |-> IF k = m THEN SplitByte(s[m - 1], data[m]) ELSE s[k]]
    OBVIOUS
  <2>3. \A k \in 0..(m - 1) : r[k] = s[k]
    BY <2>2
  <2>4. ASSUME NEW k \in 0..m PROVE r[k] = IF k = 0 THEN << <<>> >> ELSE SplitByte(r[k - 1], data[k])
    <3>1. CASE k = m
      <4>1. r[k] = SplitByte(s[m - 1], data[m]) /\ k # 0
        BY <2>2, <3>1
      <4>2. s[m - 1] = r[k - 1]
        BY <2>3, <3>1
      <4>3. QED
        BY <3>1, <4>1, <4>2, Zenon
    <3>2. CASE k # m
      <4>1. k \in 0..(m - 1)
        BY <3>2
      <4>2. r[k] = s[k]
        BY <2>3, <4>1
      <4>3. k # 0 => r[k - 1] = s[k - 1]
        BY <2>3, <4>1
      <4>4. s[k] = IF k = 0 THEN << <<>> >> ELSE SplitByte(s[k - 1], data[k])
        BY <2>1, <4>1, Zenon
      <4>5. QED
        BY <4>2, <4>3, <4>4, Zenon
    <3>3. QED
      BY <3>1, <3>2
  <2>5. Rounds(m, r)
    BY <2>2, <2>4, Zenon
  <2>6. m \in Nat
    OBVIOUS
  <2>7. QED
    BY <2>5, <2>6, Zenon
<1>3. Len(data) \in G
  <2>1. PICK H : H = G
    OBVIOUS
  <2>2. 0 \in H /\ \A k \in 1..Len(data) : k - 1 \in H => k \in H
    BY <1>1, <1>2, <2>1, Zenon
  <2>3. 0..Len(data) \subseteq H
    BY <2>2, UpTo
  <2>4. QED
    BY <2>1, <2>3
<1>4. \E s : s = [k \in 0..Len(data) |-> IF k = 0 THEN << <<>> >> ELSE SplitByte(s[k - 1], data[k])]
  BY <1>3
<1>5. QED
  BY <1>4, Zenon DEF SplitLines, IsSplitting

\* The line of a byte is the line of the byte before it, or the next one after a newline.
LEMMA LineOfIs ==
  ASSUME NEW data, Len(data) \in Nat
  PROVE  /\ LineOf(data, 1) = 1
         /\ \A i \in 1..(Len(data) + 1) : LineOf(data, i) \in Nat \ {0}
         /\ \A i \in 1..Len(data) :
              LineOf(data, i + 1) = IF data[i] = "nl" THEN LineOf(data, i) + 1 ELSE LineOf(data, i)
<1> DEFINE Nls(i) == {j \in 1..(i - 1) : data[j] = "nl"}
<1>1. ASSUME NEW i \in 1..(Len(data) + 1) PROVE IsFiniteSet(Nls(i)) /\ Cardinality(Nls(i)) \in Nat
  <2>1. IsFiniteSet(1..(i - 1))
    <3>1. 1 \in Int /\ i - 1 \in Int
      OBVIOUS
    <3>2. QED
      BY <3>1, FS_Interval
  <2>2. IsFiniteSet(Nls(i))
    BY <2>1, FS_Subset
  <2>3. QED
    BY <2>2, FS_CardinalityType
<1>2. ASSUME NEW i \in 1..(Len(data) + 1) PROVE LineOf(data, i) = 1 + Cardinality(Nls(i)) /\ LineOf(data, i) \in Nat \ {0}
  <2>1. LineOf(data, i) = 1 + Cardinality(Nls(i))
    BY Zenon DEF LineOf
  <2>2. QED
    BY <1>1, <2>1
<1>3. LineOf(data, 1) = 1
  <2>1. Nls(1) = {}
    OBVIOUS
  <2>2. Cardinality(Nls(1)) = 0
    BY <2>1, FS_EmptySet, Zenon
  <2>3. QED
    BY <1>2, <2>2
<1>4. ASSUME NEW i \in 1..Len(data)
      PROVE  LineOf(data, i + 1) = IF data[i] = "nl" THEN LineOf(data, i) + 1 ELSE LineOf(data, i)
  <2>1. i \in 1..(Len(data) + 1) /\ i + 1 \in 1..(Len(data) + 1) /\ i \notin Nls(i)
    OBVIOUS
  <2>2. Nls(i + 1) = IF data[i] = "nl" THEN Nls(i) \cup {i} ELSE Nls(i)
    OBVIOUS
  <2>3. Cardinality(Nls(i) \cup {i}) = Cardinality(Nls(i)) + 1
    BY <1>1, <2>1, FS_AddElement, Zenon
  <2>4. Cardinality(Nls(i + 1)) = IF data[i] = "nl" THEN Cardinality(Nls(i)) + 1 ELSE Cardinality(Nls(i))
    <3>1. CASE data[i] = "nl"
      <4>1. Nls(i + 1) = Nls(i) \cup {i}
        BY <2>2, <3>1, Zenon
      <4>2. QED
        BY <2>3, <3>1, <4>1, Zenon
    <3>2. CASE data[i] # "nl"
      <4>1. Nls(i + 1) = Nls(i)
        BY <2>2, <3>2, Zenon
      <4>2. QED
        BY <3>2, <4>1, Zenon
    <3>3. QED
      BY <3>1, <3>2, Zenon
  <2>5. LineOf(data, i) = 1 + Cardinality(Nls(i)) /\ LineOf(data, i + 1) = 1 + Cardinality(Nls(i + 1))
        /\ Cardinality(Nls(i)) \in Nat
    BY <1>1, <1>2, <2>1
  <2>6. PICK a, b : a = Cardinality(Nls(i)) /\ b = Cardinality(Nls(i + 1))
    OBVIOUS
  <2>7. a \in Nat /\ LineOf(data, i) = 1 + a /\ LineOf(data, i + 1) = 1 + b /\ b = IF data[i] = "nl" THEN a + 1 ELSE a
    BY <2>4, <2>5, <2>6, Zenon
  <2>8. QED
    BY <2>7
<1>5. QED
  BY <1>2, <1>3, <1>4

\* Lines do not decrease along a text.
LEMMA LineOfGrows ==
  ASSUME NEW data, Len(data) \in Nat, NEW i \in 1..(Len(data) + 1), NEW j \in 1..(Len(data) + 1), i <= j
  PROVE  LineOf(data, i) <= LineOf(data, j)
<1>1. PICK L, n : n = Len(data) /\ L = [k \in 1..(n + 1) |-> LineOf(data, k)]
  OBVIOUS
<1>2. /\ n \in Nat /\ \A k \in 1..(n + 1) : L[k] \in Nat
      /\ \A k \in 1..n : L[k + 1] = L[k] + 1 \/ L[k + 1] = L[k]
  <2>1. ASSUME NEW k \in 1..n PROVE L[k + 1] = L[k] + 1 \/ L[k + 1] = L[k]
    <3>1. k \in 1..(n + 1) /\ k + 1 \in 1..(n + 1)
      BY <1>1
    <3>2. L[k] = LineOf(data, k) /\ L[k + 1] = LineOf(data, k + 1)
      BY <1>1, <3>1
    <3>3. LineOf(data, k + 1) = LineOf(data, k) + 1 \/ LineOf(data, k + 1) = LineOf(data, k)
      BY <1>1, LineOfIs
    <3>4. QED
      BY <3>2, <3>3
  <2>2. QED
    BY <1>1, <2>1, LineOfIs
<1>3. PICK G : G = {d \in 0..(n + 1 - i) : L[i] <= L[i + d]}
  OBVIOUS
<1>4. 0 \in G
  BY <1>1, <1>2, <1>3
<1>5. ASSUME NEW d \in 1..(n + 1 - i), d - 1 \in G PROVE d \in G
  <2>1. L[i] <= L[i + (d - 1)]
    BY <1>3, <1>5
  <2>2. i + (d - 1) \in 1..n /\ i + d \in 1..(n + 1) /\ (i + (d - 1)) + 1 = i + d /\ i \in 1..(n + 1)
        /\ i + (d - 1) \in 1..(n + 1)
    BY <1>1, <1>2
  <2>3. L[i + d] = L[i + (d - 1)] + 1 \/ L[i + d] = L[i + (d - 1)]
    BY <1>2, <2>2
  <2>4. L[i] <= L[i + d]
    <3>1. L[i] \in Nat /\ L[i + (d - 1)] \in Nat /\ L[i + d] \in Nat
      BY <1>2, <2>2
    <3>2. QED
      BY <2>1, <2>3, <3>1
  <2>5. QED
    BY <1>3, <2>4
<1>6. j - i \in G
  <2>1. n + 1 - i \in Nat /\ j - i \in 0..(n + 1 - i)
    BY <1>1, <1>2
  <2>2. 0..(n + 1 - i) \subseteq G
    BY <1>4, <1>5, <2>1, UpTo
  <2>3. QED
    BY <2>1, <2>2
<1>7. L[i] <= L[i + (j - i)] /\ i + (j - i) = j
  BY <1>3, <1>6
<1>8. QED
  BY <1>1, <1>7

\* The greatest number of a set.
LEMMA MaxIs ==
  ASSUME NEW S, S \subseteq Nat, NEW m \in S, \A y \in S : y <= m
  PROVE  Max(S) = m
<1>1. \A y \in S : m >= y
  OBVIOUS
<1>2. PICK x : x = Max(S)
  OBVIOUS
<1>3. x \in S /\ \A y \in S : x >= y
  BY <1>1, <1>2 DEF Max
<1>4. x >= m /\ x <= m /\ x \in Nat /\ m \in Nat
  BY <1>3
<1>5. QED
  BY <1>2, <1>4

\* The least number of a set.
LEMMA MinIs ==
  ASSUME NEW S, S \subseteq Nat, NEW m \in S, \A y \in S : m <= y
  PROVE  Min(S) = m
<1>1. \A y \in S : m =< y
  OBVIOUS
<1>2. PICK x : x = Min(S)
  OBVIOUS
<1>3. x \in S /\ \A y \in S : x =< y
  BY <1>1, <1>2 DEF Min
<1>4. x >= m /\ x <= m /\ x \in Nat /\ m \in Nat
  BY <1>3
<1>5. QED
  BY <1>2, <1>4

\* The part of a text from the first to the last of some places.
Part(data, S) == IF S = {} THEN <<>> ELSE SubSeq(data, Min(S), Max(S))

\* A sequence of one element.
LEMMA Single ==
  ASSUME NEW S, NEW x \in S
  PROVE  <<x>> \in Seq(S) /\ Len(<<x>>) = 1 /\ <<x>>[1] = x
  OBVIOUS

\* A part continued by the next byte.
LEMMA PartGrows ==
  ASSUME NEW data \in Seq(Byte), NEW k \in 0..(Len(data) - 1), NEW S, S \subseteq 1..k, S = {} \/ k \in S
  PROVE  Part(data, S \cup {k + 1}) = Append(Part(data, S), data[k + 1]) /\ Part(data, S) \in Seq(Byte)
<1>1. Len(data) \in Nat /\ k + 1 \in 1..Len(data) /\ data[k + 1] \in Byte /\ S \subseteq Nat /\ k \in Nat
  OBVIOUS
<1>2. PICK T : T = S \cup {k + 1} /\ T \subseteq Nat
  <2>1. PICK T : T = S \cup {k + 1}
    OBVIOUS
  <2>2. k + 1 \in Nat
    BY <1>1
  <2>3. QED
    BY <1>1, <2>1, <2>2
<1>3. Max(T) = k + 1
  <2>1. k + 1 \in T /\ \A y \in T : y <= k + 1
    BY <1>1, <1>2
  <2>2. QED
    BY <1>2, <2>1, MaxIs
<1>4. Part(data, T) = SubSeq(data, Min(T), k + 1)
  BY <1>2, <1>3, Zenon DEF Part
<1>5. CASE S = {}
  <2>1. T = {k + 1}
    BY <1>2, <1>5
  <2>2. Min(T) = k + 1
    BY <1>1, <1>2, <2>1, MinIs
  <2>3. Part(data, T) = SubSeq(data, k + 1, k + 1)
    BY <1>4, <2>2, Zenon
  <2>4. SubSeq(data, k + 1, k + 1) = <<data[k + 1]>>
    <3>1. PICK i, s : i = k + 1 /\ s = SubSeq(data, i, i)
      OBVIOUS
    <3>2. i \in 1..(Len(data) + 1) /\ i \in (i - 1)..Len(data)
      BY <1>1, <3>1
    <3>3. s \in Seq(Byte) /\ Len(s) = i - i + 1 /\ \A x \in 1..(i - i + 1) : s[x] = data[i + x - 1]
      BY <3>1, <3>2, Cut
    <3>4. Len(s) = 1 /\ s[1] = data[k + 1]
      BY <1>1, <3>1, <3>3
    <3>5. s = <<data[k + 1]>>
      <4>1. PICK x, t : x = data[k + 1] /\ x \in Byte /\ t = <<x>>
        BY <1>1
      <4>2. t \in Seq(Byte) /\ Len(t) = 1 /\ t[1] = x
        BY <4>1, Single
      <4>3. Len(s) = Len(t) /\ \A y \in 1..Len(s) : s[y] = t[y]
        BY <3>4, <4>1, <4>2
      <4>4. s = t
        BY <3>3, <4>2, <4>3, SameSeq
      <4>5. QED
        BY <4>1, <4>4
    <3>6. QED
      BY <3>1, <3>5
  <2>5. Part(data, S) = <<>>
    BY <1>5 DEF Part
  <2>6. QED
    BY <1>1, <1>2, <2>3, <2>4, <2>5
<1>6. CASE S # {}
  <2>1. k \in S /\ \A y \in S : y <= k
    <3>1. k \in S
      BY <1>6
    <3>2. \A y \in 1..k : y <= k
      BY <1>1
    <3>3. QED
      BY <3>1, <3>2, Zenon
  <2>2. Max(S) = k
    BY <1>1, <2>1, MaxIs
  <2>3. PICK m \in S : \A y \in S : ~(y < m)
    BY <1>1, <1>6, Least
  <2>4. m \in 1..k /\ \A y \in S : m <= y
    BY <1>1, <2>3
  <2>5. Min(S) = m
    BY <1>1, <2>3, <2>4, MinIs
  <2>6. m \in T /\ \A y \in T : m <= y
    BY <1>2, <2>3, <2>4
  <2>7. Min(T) = m
    BY <1>2, <2>6, MinIs
  <2>8. Part(data, S) = SubSeq(data, m, k) /\ Part(data, T) = SubSeq(data, m, k + 1)
    BY <1>4, <1>6, <2>2, <2>5, <2>7, Zenon DEF Part
  <2>9. SubSeq(data, m, k + 1) = Append(SubSeq(data, m, k), data[k + 1]) /\ SubSeq(data, m, k) \in Seq(Byte)
    BY <1>1, <2>4
  <2>10. QED
    BY <1>2, <2>8, <2>9
<1>7. QED
  BY <1>5, <1>6

\* The places of line n among the first k bytes.
BytesTo(data, n, k) == {i \in 1..k : LineOf(data, i) = n /\ data[i] # "nl"}

\* The lines that the first k bytes make.
LinesTo(data, ls, k) ==
  /\ ls \in Seq(Seq(Byte)) /\ Len(ls) = LineOf(data, k + 1)
  /\ \A n \in 1..Len(ls) : ls[n] = Part(data, BytesTo(data, n, k))

\* A round of strings.Split.
LEMMA SplitStep ==
  ASSUME NEW data \in Seq(Byte), NEW k \in 0..(Len(data) - 1), NEW ls, LinesTo(data, ls, k)
  PROVE  LinesTo(data, SplitByte(ls, data[k + 1]), k + 1)
<1>1. PICK i, b : i = k + 1 /\ b = data[i]
  OBVIOUS
<1>2. /\ Len(data) \in Nat /\ k \in Nat /\ i \in 1..Len(data) /\ i \in 1..(Len(data) + 1) /\ i + 1 \in 1..(Len(data) + 1)
      /\ b \in Byte
  BY <1>1
<1>3. PICK m : m = LineOf(data, i) /\ m \in Nat \ {0} /\ LineOf(data, i + 1) = IF b = "nl" THEN m + 1 ELSE m
  BY <1>1, <1>2, LineOfIs
<1>4. ls \in Seq(Seq(Byte)) /\ Len(ls) = m /\ \A n \in 1..m : ls[n] = Part(data, BytesTo(data, n, k))
  BY <1>1, <1>3, Zenon DEF LinesTo
<1>5. ASSUME NEW n, n # m \/ b = "nl" PROVE BytesTo(data, n, i) = BytesTo(data, n, k)
  <2>1. 1..i = (1..k) \cup {i}
    BY <1>1, <1>2
  <2>2. ~(LineOf(data, i) = n /\ data[i] # "nl")
    BY <1>1, <1>3, <1>5
  <2>3. QED
    BY <2>1, <2>2, Zenon DEF BytesTo
<1>6. CASE b = "nl"
  <2>1. PICK new : new = Append(ls, <<>>) /\ SplitByte(ls, b) = new
    BY <1>6 DEF SplitByte
  <2>2. new \in Seq(Seq(Byte)) /\ Len(new) = m + 1 /\ new[m + 1] = <<>> /\ \A n \in 1..m : new[n] = ls[n]
    <3>1. <<>> \in Seq(Byte)
      OBVIOUS
    <3>2. QED
      BY <1>3, <1>4, <2>1, <3>1
  <2>3. BytesTo(data, m + 1, i) = {}
    <3>1. ASSUME NEW j \in 1..i PROVE LineOf(data, j) # m + 1
      <4>1. j \in 1..(Len(data) + 1) /\ j <= i
        BY <1>2, <3>1
      <4>2. LineOf(data, j) <= m
        BY <1>2, <1>3, <4>1, LineOfGrows
      <4>3. QED
        BY <1>3, <4>2
    <3>2. QED
      BY <3>1, Zenon DEF BytesTo
  <2>4. ASSUME NEW n \in 1..(m + 1) PROVE new[n] = Part(data, BytesTo(data, n, i))
    <3>1. CASE n = m + 1
      BY <2>2, <2>3, <3>1, Zenon DEF Part
    <3>2. CASE n # m + 1
      <4>1. n \in 1..m
        BY <1>3, <3>2
      <4>2. new[n] = Part(data, BytesTo(data, n, k))
        BY <1>4, <2>2, <4>1, Zenon
      <4>3. QED
        BY <1>5, <1>6, <4>2, Zenon
    <3>3. QED
      BY <3>1, <3>2
  <2>5. Len(new) = LineOf(data, i + 1)
    BY <1>3, <1>6, <2>2
  <2>6. LinesTo(data, new, i)
    BY <1>3, <2>2, <2>4, <2>5 DEF LinesTo
  <2>7. QED
    BY <1>1, <2>1, <2>6
<1>7. CASE b # "nl"
  <2>1. PICK x : x = Append(ls[m], b)
    OBVIOUS
  <2>2. PICK new : new = [ls EXCEPT ![m] = x]
    OBVIOUS
  <2>3. SplitByte(ls, b) = new
    BY <1>4, <1>7, <2>1, <2>2, Zenon DEF SplitByte
  <2>4. m \in 1..m /\ ls[m] = Part(data, BytesTo(data, m, k))
    BY <1>3, <1>4
  <2>5. BytesTo(data, m, i) = BytesTo(data, m, k) \cup {i}
    <3>1. 1..i = (1..k) \cup {i}
      BY <1>1, <1>2
    <3>2. LineOf(data, i) = m /\ data[i] # "nl"
      BY <1>1, <1>3, <1>7
    <3>3. QED
      BY <3>1, <3>2, Zenon DEF BytesTo
  <2>6. BytesTo(data, m, k) = {} \/ k \in BytesTo(data, m, k)
    <3>1. SUFFICES ASSUME NEW j \in BytesTo(data, m, k) PROVE k \in BytesTo(data, m, k)
      OBVIOUS
    <3>2. j \in 1..k /\ LineOf(data, j) = m
      BY <3>1 DEF BytesTo
    <3>3. /\ k \in 1..Len(data) /\ j <= k /\ j \in 1..(Len(data) + 1) /\ k \in 1..(Len(data) + 1)
          /\ k <= i
      BY <1>1, <1>2, <3>2
    <3>4. m <= LineOf(data, k) /\ LineOf(data, k) <= m /\ LineOf(data, k) \in Nat
      BY <1>2, <1>3, <3>2, <3>3, LineOfGrows, LineOfIs
    <3>5. LineOf(data, k) = m
      BY <1>3, <3>4
    <3>6. LineOf(data, k + 1) = IF data[k] = "nl" THEN LineOf(data, k) + 1 ELSE LineOf(data, k)
      BY <1>2, <3>3, LineOfIs
    <3>7. data[k] # "nl"
      BY <1>1, <1>3, <3>5, <3>6
    <3>8. k \in 1..k
      BY <3>3
    <3>9. QED
      BY <3>5, <3>7, <3>8, Zenon DEF BytesTo
  <2>7. BytesTo(data, m, k) \subseteq 1..k
    BY DEF BytesTo
  <2>8. Part(data, BytesTo(data, m, i)) = x /\ ls[m] \in Seq(Byte)
    <3>1. PICK S : S = BytesTo(data, m, k) /\ S \subseteq 1..k /\ (S = {} \/ k \in S)
      BY <2>6, <2>7
    <3>2. Part(data, S \cup {k + 1}) = Append(Part(data, S), data[k + 1]) /\ Part(data, S) \in Seq(Byte)
      BY <3>1, PartGrows
    <3>3. QED
      BY <1>1, <2>1, <2>4, <2>5, <3>1, <3>2, Zenon
  <2>9. x \in Seq(Byte)
    BY <1>2, <2>1, <2>8
  <2>10. new \in Seq(Seq(Byte)) /\ Len(new) = m /\ \A n \in 1..m : new[n] = IF n = m THEN x ELSE ls[n]
    BY <1>3, <1>4, <2>2, <2>9
  <2>11. ASSUME NEW n \in 1..m PROVE new[n] = Part(data, BytesTo(data, n, i))
    <3>1. CASE n = m
      BY <2>8, <2>10, <3>1, Zenon
    <3>2. CASE n # m
      BY <1>4, <1>5, <2>10, <3>2, Zenon
    <3>3. QED
      BY <3>1, <3>2
  <2>12. Len(new) = LineOf(data, i + 1)
    BY <1>3, <1>7, <2>10
  <2>13. LinesTo(data, new, i)
    BY <2>10, <2>11, <2>12 DEF LinesTo
  <2>14. QED
    BY <1>1, <2>3, <2>13
<1>8. QED
  BY <1>6, <1>7

\* strings.Split gives the lines of the reference.
LEMMA SplitLinesAre ==
  ASSUME NEW data \in Seq(Byte), NEW ls, ls = SplitLines(data)
  PROVE  /\ ls \in Seq(Seq(Byte)) /\ Len(ls) = LineOf(data, Len(data) + 1) /\ Len(ls) \in Nat \ {0}
         /\ \A n \in 1..Len(ls) : ls[n] = Line(data, n)
<1>1. PICK z : z = Len(data) /\ z \in Nat
  OBVIOUS
<1>2. PICK s : IsSplitting(data, s) /\ ls = s[z]
  BY <1>1, SplitIs
<1>3. PICK G : G = {k \in 0..z : LinesTo(data, s[k], k)}
  OBVIOUS
<1>4. 0 \in G
  <2>1. s[0] = << <<>> >>
    BY <1>1, <1>2 DEF IsSplitting
  <2>2. BytesTo(data, 1, 0) = {}
    BY DEF BytesTo
  <2>3. Part(data, BytesTo(data, 1, 0)) = <<>>
    BY <2>2, Zenon DEF Part
  <2>4. LineOf(data, 1) = 1
    BY <1>1, LineOfIs
  <2>5. PICK e : e = << <<>> >> /\ e \in Seq(Seq(Byte)) /\ Len(e) = 1 /\ e[1] = <<>>
    <3>1. <<>> \in Seq(Byte)
      OBVIOUS
    <3>2. PICK e : e = << <<>> >>
      OBVIOUS
    <3>3. e \in Seq(Seq(Byte)) /\ Len(e) = 1 /\ e[1] = <<>>
      BY <3>1, <3>2, Single, Zenon
    <3>4. QED
      BY <3>2, <3>3
  <2>6. LinesTo(data, e, 0)
    BY <2>3, <2>4, <2>5 DEF LinesTo
  <2>7. QED
    BY <1>1, <1>3, <2>1, <2>5, <2>6
<1>5. ASSUME NEW k \in 1..z, k - 1 \in G PROVE k \in G
  <2>1. PICK j : j = k - 1 /\ j \in 0..(Len(data) - 1) /\ k = j + 1 /\ k \in 0..z
    BY <1>1
  <2>2. LinesTo(data, s[j], j)
    BY <1>3, <1>5, <2>1
  <2>3. s[k] = SplitByte(s[j], data[j + 1])
    BY <1>1, <1>2, <2>1, SMTT(30) DEF IsSplitting
  <2>4. LinesTo(data, SplitByte(s[j], data[j + 1]), j + 1)
    BY <2>1, <2>2, SplitStep
  <2>5. LinesTo(data, s[k], k)
    BY <2>1, <2>3, <2>4, Zenon
  <2>6. QED
    BY <1>3, <2>1, <2>5
<1>6. LinesTo(data, ls, z)
  <2>1. 0..z \subseteq G
    BY <1>1, <1>4, <1>5, UpTo
  <2>2. QED
    BY <1>1, <1>2, <1>3, <2>1
<1>7. ls \in Seq(Seq(Byte)) /\ Len(ls) = LineOf(data, z + 1) /\ \A n \in 1..Len(ls) : ls[n] = Part(data, BytesTo(data, n, z))
  BY <1>6 DEF LinesTo
<1>8. ASSUME NEW n PROVE Part(data, BytesTo(data, n, z)) = Line(data, n)
  <2>1. BytesTo(data, n, z) = Bytes(data, n)
    BY <1>1, Zenon DEF BytesTo, Bytes
  <2>2. QED
    BY <2>1, Zenon DEF Part, Line
<1>9. Len(ls) \in Nat \ {0}
  <2>1. z + 1 \in 1..(z + 1)
    BY <1>1
  <2>2. QED
    BY <1>1, <1>7, <2>1, LineOfIs
<1>10. QED
  BY <1>1, <1>7, <1>8, <1>9

-----------------------------------------
(* What the searches print and find *)

\* A match as it is first made.
LEMMA MatchIs ==
  ASSUME NEW p, NEW n, NEW line, NEW m, m = MatchOf(p, n, line)
  PROVE  m.path = p /\ m.line = n /\ m.content = line /\ m.before = <<>> /\ m.after = <<>>
  BY DEF MatchOf

\* The first and the last of the lines around line n.
FirstNear(n, c) == IF n > c THEN n - c ELSE 1
LastNear(n, c, last) == IF n + c < last THEN n + c ELSE last

\* A match in line n and the lines around it.
Shows(ls, p, n, c, m) ==
  /\ m.path = p /\ m.line = n /\ m.content = ls[n]
  /\ m.before = SubSeq(ls, FirstNear(n, c), n - 1)
  /\ m.after = SubSeq(ls, n + 1, LastNear(n, c, Len(ls)))
  /\ c = 0 => m = MatchOf(p, n, ls[n])

\* A match of the Go search.
LEMMA LineMatchIs ==
  ASSUME NEW ls \in Seq(Seq(Byte)), NEW p, NEW n \in 1..Len(ls), NEW c \in Nat, NEW m, m = LineMatch(ls, p, n, c)
  PROVE  Shows(ls, p, n, c, m)
<1>0. PICK a, b : a = FirstNear(n, c) /\ b = LastNear(n, c, Len(ls))
  OBVIOUS
<1>1. PICK x, y : /\ x = (IF c > 0 THEN SubSeq(ls, a, n - 1) ELSE <<>>)
                  /\ y = (IF c > 0 THEN SubSeq(ls, n + 1, b) ELSE <<>>)
  OBVIOUS
<1>2. m = [MatchOf(p, n, ls[n]) EXCEPT !.before = x, !.after = y]
  BY <1>0, <1>1, Zenon DEF LineMatch, FirstNear, LastNear
<1>3. m = [path |-> p, line |-> n, content |-> ls[n], before |-> x, after |-> y]
  BY <1>2 DEF MatchOf
<1>4. c = 0 => SubSeq(ls, a, n - 1) = <<>> /\ SubSeq(ls, n + 1, b) = <<>>
  <2>1. SUFFICES ASSUME c = 0 PROVE SubSeq(ls, a, n - 1) = <<>> /\ SubSeq(ls, n + 1, b) = <<>>
    OBVIOUS
  <2>2. a = n /\ b = n /\ n \in Nat
    BY <1>0, <2>1 DEF FirstNear, LastNear
  <2>3. n - 1 < n /\ n < n + 1 /\ n - 1 \in Int /\ n + 1 \in Int /\ n \in Int
    BY <2>2
  <2>4. QED
    BY <2>2, <2>3, SubSeqEmpty
<1>5. x = SubSeq(ls, a, n - 1) /\ y = SubSeq(ls, n + 1, b)
  <2>1. c = 0 \/ c > 0
    OBVIOUS
  <2>2. QED
    BY <1>1, <1>4, <2>1
<1>6. c = 0 => x = <<>> /\ y = <<>>
  BY <1>1
<1>7. c = 0 => m = MatchOf(p, n, ls[n])
  BY <1>3, <1>6, Zenon DEF MatchOf
<1>8. m.path = p /\ m.line = n /\ m.content = ls[n] /\ m.before = x /\ m.after = y
  BY <1>3
<1>9. QED
  BY <1>0, <1>5, <1>7, <1>8, Zenon DEF Shows

\* What the Go search finds in a text.
LEMMA SearchIs ==
  ASSUME NEW data, NEW p, NEW c
  PROVE  searchFile(data, p, c) =
           IF Contains(data, "0") THEN {} ELSE {LineMatch(SplitLines(data), p, n, c) : n \in Hits(SplitLines(data))}
  BY Zenon DEF searchFile, Hits

\* The lines of ripgrep are those of strings.Split, without an empty last one.
LEMMA TextLinesAre ==
  ASSUME NEW data \in Seq(Byte), NEW ls, ls = SplitLines(data), NEW ts, ts = TextLines(data)
  PROVE  /\ ts \in Seq(Seq(Byte)) /\ Len(ts) <= Len(ls) /\ \A n \in 1..Len(ts) : ts[n] = ls[n]
         /\ Hits(ts) = Hits(ls)
<1>1. PICK m : m = Len(ls) /\ m \in Nat \ {0} /\ ls \in Seq(Seq(Byte))
  BY SplitLinesAre
<1>2. ts = IF ls[m] = <<>> THEN SubSeq(ls, 1, m - 1) ELSE ls
  BY <1>1, Zenon DEF TextLines, Last, Front
<1>3. CASE ls[m] # <<>>
  BY <1>1, <1>2, <1>3
<1>4. CASE ls[m] = <<>>
  <2>1. PICK a, b : a = 1 /\ b = m - 1 /\ a \in 1..(Len(ls) + 1) /\ b \in (a - 1)..Len(ls)
    BY <1>1
  <2>2. ts \in Seq(Seq(Byte)) /\ Len(ts) = b - a + 1 /\ \A i \in 1..(b - a + 1) : ts[i] = ls[a + i - 1]
    <3>1. ts = SubSeq(ls, a, b)
      BY <1>2, <1>4, <2>1
    <3>2. /\ SubSeq(ls, a, b) \in Seq(Seq(Byte)) /\ Len(SubSeq(ls, a, b)) = b - a + 1
          /\ \A i \in 1..(b - a + 1) : SubSeq(ls, a, b)[i] = ls[a + i - 1]
      BY <1>1, <2>1, Cut
    <3>3. QED
      BY <3>1, <3>2, Zenon
  <2>3. Len(ts) = m - 1 /\ \A i \in 1..(m - 1) : ts[i] = ls[i]
    BY <1>1, <2>1, <2>2
  <2>4. ~Matches(ls[m])
    <3>1. PICK e : e = <<>> /\ Len(e) = 0
      OBVIOUS
    <3>2. ~Matches(e)
      BY <3>1 DEF Matches, Contains
    <3>3. QED
      BY <1>4, <3>1, <3>2
  <2>5. ASSUME NEW n PROVE n \in Hits(ts) <=> n \in Hits(ls)
    <3>1. n \in 1..(m - 1) <=> n \in 1..m /\ n # m
      BY <1>1
    <3>2. n \in Hits(ls) <=> n \in 1..m /\ Matches(ls[n])
      BY <1>1, Zenon DEF Hits
    <3>3. n \in Hits(ts) <=> n \in 1..(m - 1) /\ Matches(ts[n])
      BY <2>3, Zenon DEF Hits
    <3>4. QED
      BY <2>3, <2>4, <3>1, <3>2, <3>3, Zenon
  <2>6. QED
    BY <1>1, <2>2, <2>3, <2>5
<1>5. QED
  BY <1>3, <1>4

\* The rounds of ripgrep's printing.
Begin == [type |-> "begin"]
PrintLine(ls, c, ms, n) == IF Near(ls, n, c) THEN Append(ms, Message(ls, n)) ELSE ms
IsPrinting(ls, c, s) == s = [k \in 0..Len(ls) |-> IF k = 0 THEN <<Begin>> ELSE PrintLine(ls, c, s[k - 1], k)]

\* The rounds of ripgrep's printing are a recursive function, which has a value.
LEMMA PrintedIs ==
  ASSUME NEW ls, NEW c, Len(ls) \in Nat
  PROVE  \E s : IsPrinting(ls, c, s) /\ Printed(ls, c) = s[Len(ls)]
<1> DEFINE Rounds(m, s) == s = [k \in 0..m |-> IF k = 0 THEN <<Begin>> ELSE PrintLine(ls, c, s[k - 1], k)]
           G == {m \in Nat : \E s : Rounds(m, s)}
<1>1. 0 \in G
  <2>1. PICK s : s = [k \in 0..0 |-> <<Begin>>]
    OBVIOUS
  <2>2. Rounds(0, s)
    BY <2>1
  <2>3. QED
    BY <2>2
<1>2. ASSUME NEW m \in 1..Len(ls), m - 1 \in G PROVE m \in G
  <2>1. PICK s : Rounds(m - 1, s)
    BY <1>2
  <2>2. PICK r : r = [k \in 0..m |-> IF k = m THEN PrintLine(ls, c, s[m - 1], m) ELSE s[k]]
    OBVIOUS
  <2>3. \A k \in 0..(m - 1) : r[k] = s[k]
    BY <2>2
  <2>4. ASSUME NEW k \in 0..m PROVE r[k] = IF k = 0 THEN <<Begin>> ELSE PrintLine(ls, c, r[k - 1], k)
    <3>1. CASE k = m
      <4>1. r[k] = PrintLine(ls, c, s[m - 1], m) /\ k # 0
        BY <2>2, <3>1
      <4>2. s[m - 1] = r[k - 1]
        BY <2>3, <3>1
      <4>3. QED
        BY <3>1, <4>1, <4>2, Zenon
    <3>2. CASE k # m
      <4>1. k \in 0..(m - 1)
        BY <3>2
      <4>2. r[k] = s[k]
        BY <2>3, <4>1
      <4>3. k # 0 => r[k - 1] = s[k - 1]
        BY <2>3, <4>1
      <4>4. s[k] = IF k = 0 THEN <<Begin>> ELSE PrintLine(ls, c, s[k - 1], k)
        BY <2>1, <4>1, Zenon
      <4>5. QED
        BY <4>2, <4>3, <4>4, Zenon
    <3>3. QED
      BY <3>1, <3>2
  <2>5. Rounds(m, r)
    BY <2>2, <2>4, Zenon
  <2>6. m \in Nat
    OBVIOUS
  <2>7. QED
    BY <2>5, <2>6, Zenon
<1>3. Len(ls) \in G
  <2>1. PICK H : H = G
    OBVIOUS
  <2>2. 0 \in H /\ \A k \in 1..Len(ls) : k - 1 \in H => k \in H
    BY <1>1, <1>2, <2>1, Zenon
  <2>3. 0..Len(ls) \subseteq H
    BY <2>2, UpTo
  <2>4. QED
    BY <2>1, <2>3
<1>4. \E s : s = [k \in 0..Len(ls) |-> IF k = 0 THEN <<Begin>> ELSE PrintLine(ls, c, s[k - 1], k)]
  BY <1>3
<1>5. QED
  BY <1>4, Zenon DEF Printed, PrintLine, Begin, IsPrinting

\* The messages that can be printed about a text.
Messages(ls) == {Begin} \cup {Message(ls, n) : n \in 1..Len(ls)}

\* What is printed about the first n lines: those near a match, numbered w, in their order.
Prints(ls, c, ms, w, n) ==
  /\ ms \in Seq(Messages(ls)) /\ w \in Seq(Nat) /\ Len(ms) = Len(w) + 1 /\ ms[1] = Begin
  /\ \A k \in 1..Len(w) : w[k] \in 1..n /\ Near(ls, w[k], c) /\ ms[k + 1] = Message(ls, w[k])
  /\ \A j, k \in 1..Len(w) : j < k => w[j] < w[k]
  /\ \A x \in 1..n : Near(ls, x, c) => \E k \in 1..Len(w) : w[k] = x

\* A round of ripgrep's printing.
LEMMA PrintStep ==
  ASSUME NEW ls, Len(ls) \in Nat, NEW c, NEW n \in 0..(Len(ls) - 1), NEW ms, NEW w, Prints(ls, c, ms, w, n)
  PROVE  \E v : Prints(ls, c, PrintLine(ls, c, ms, n + 1), v, n + 1)
<1>1. PICK x : x = n + 1 /\ x \in 1..Len(ls) /\ 1..x = (1..n) \cup {x} /\ \A y \in 1..n : y < x /\ x \in Nat
  OBVIOUS
<1>2. CASE ~Near(ls, x, c)
  <2>1. PrintLine(ls, c, ms, x) = ms
    BY <1>2 DEF PrintLine
  <2>2. Prints(ls, c, ms, w, x)
    BY <1>1, <1>2 DEF Prints
  <2>3. QED
    BY <1>1, <2>1, <2>2
<1>3. CASE Near(ls, x, c)
  <2>1. PICK m : m = Message(ls, x) /\ m \in Messages(ls)
    BY <1>1 DEF Messages
  <2>2. PICK l : l = Len(w) /\ l \in Nat /\ Len(ms) = l + 1 /\ w \in Seq(Nat) /\ ms \in Seq(Messages(ls)) /\ ms[1] = Begin
    <3>1. w \in Seq(Nat) /\ Len(ms) = Len(w) + 1 /\ ms \in Seq(Messages(ls)) /\ ms[1] = Begin
      BY Zenon DEF Prints
    <3>2. PICK l : l = Len(w)
      OBVIOUS
    <3>3. l \in Nat
      BY <3>1, <3>2
    <3>4. QED
      BY <3>1, <3>2, <3>3, Zenon
  <2>3. PICK v, ns : v = Append(w, x) /\ ns = Append(ms, m)
    OBVIOUS
  <2>4. v \in Seq(Nat) /\ Len(v) = l + 1 /\ v[l + 1] = x /\ \A k \in 1..l : v[k] = w[k]
    BY <1>1, <2>2, <2>3
  <2>5. ns \in Seq(Messages(ls)) /\ Len(ns) = l + 2 /\ ns[l + 2] = m /\ \A k \in 1..(l + 1) : ns[k] = ms[k]
    BY <2>1, <2>2, <2>3
  <2>6. PrintLine(ls, c, ms, x) = ns
    BY <1>3, <2>1, <2>3 DEF PrintLine
  <2>7. ASSUME NEW k \in 1..(l + 1) PROVE v[k] \in 1..x /\ Near(ls, v[k], c) /\ ns[k + 1] = Message(ls, v[k])
    <3>1. CASE k = l + 1
      BY <1>1, <1>3, <2>1, <2>2, <2>4, <2>5, <3>1
    <3>2. CASE k # l + 1
      <4>1. k \in 1..l /\ k + 1 \in 1..(l + 1)
        BY <2>2, <3>2
      <4>2. w[k] \in 1..n /\ Near(ls, w[k], c) /\ ms[k + 1] = Message(ls, w[k])
        BY <2>2, <4>1 DEF Prints
      <4>3. QED
        BY <1>1, <2>4, <2>5, <4>1, <4>2
    <3>3. QED
      BY <3>1, <3>2
  <2>8. ASSUME NEW j \in 1..(l + 1), NEW k \in 1..(l + 1), j < k PROVE v[j] < v[k]
    <3>1. j \in 1..l
      BY <2>2, <2>8
    <3>2. v[j] = w[j] /\ w[j] \in 1..n
      BY <2>2, <2>4, <3>1 DEF Prints
    <3>3. CASE k = l + 1
      BY <1>1, <2>4, <3>2, <3>3
    <3>4. CASE k # l + 1
      <4>1. k \in 1..l
        BY <2>2, <3>4
      <4>2. w[j] < w[k]
        BY <2>2, <2>8, <3>1, <4>1 DEF Prints
      <4>3. QED
        BY <2>4, <3>2, <4>1, <4>2
    <3>5. QED
      BY <3>3, <3>4
  <2>9. ASSUME NEW y \in 1..x, Near(ls, y, c) PROVE \E k \in 1..(l + 1) : v[k] = y
    <3>1. CASE y = x
      <4>1. l + 1 \in 1..(l + 1)
        BY <2>2
      <4>2. QED
        BY <2>4, <3>1, <4>1
    <3>2. CASE y # x
      <4>1. y \in 1..n
        BY <1>1, <3>2
      <4>2. PICK k \in 1..l : w[k] = y
        BY <2>2, <2>9, <4>1 DEF Prints
      <4>3. k \in 1..(l + 1) /\ v[k] = y
        BY <2>2, <2>4, <4>2
      <4>4. QED
        BY <4>3
    <3>3. QED
      BY <3>1, <3>2
  <2>10. ns[1] = Begin /\ Len(ns) = Len(v) + 1
    <3>1. 1 \in 1..(l + 1)
      BY <2>2
    <3>2. QED
      BY <2>2, <2>4, <2>5, <3>1
  <2>11. Prints(ls, c, ns, v, x)
    <3>1. Len(v) = l + 1
      BY <2>4
    <3>2. QED
      BY <2>4, <2>5, <2>7, <2>8, <2>9, <2>10, <3>1, Zenon DEF Prints
  <2>12. QED
    BY <1>1, <2>6, <2>11
<1>4. QED
  BY <1>2, <1>3

\* What ripgrep prints about a text.
LEMMA PrintsAll ==
  ASSUME NEW ls, Len(ls) \in Nat, NEW c
  PROVE  \E w : Prints(ls, c, Printed(ls, c), w, Len(ls))
<1>1. PICK z : z = Len(ls) /\ z \in Nat
  OBVIOUS
<1>2. PICK s : IsPrinting(ls, c, s) /\ Printed(ls, c) = s[z]
  BY <1>1, PrintedIs
<1>3. PICK G : G = {k \in 0..z : \E w : Prints(ls, c, s[k], w, k)}
  OBVIOUS
<1>4. 0 \in G
  <2>1. s[0] = <<Begin>>
    BY <1>1, <1>2 DEF IsPrinting
  <2>2. Begin \in Messages(ls)
    BY DEF Messages
  <2>3. PICK e, w : /\ e = <<Begin>> /\ e \in Seq(Messages(ls)) /\ Len(e) = 1 /\ e[1] = Begin
                    /\ w = <<>> /\ w \in Seq(Nat) /\ Len(w) = 0
    <3>1. PICK e, w : e = <<Begin>> /\ w = <<>>
      OBVIOUS
    <3>2. e \in Seq(Messages(ls)) /\ Len(e) = 1 /\ e[1] = Begin
      BY <2>2, <3>1, Single, Zenon
    <3>3. w \in Seq(Nat) /\ Len(w) = 0
      BY <3>1
    <3>4. QED
      BY <3>1, <3>2, <3>3
  <2>4. Prints(ls, c, e, w, 0)
    BY <2>3 DEF Prints
  <2>5. QED
    BY <1>1, <1>3, <2>1, <2>3, <2>4
<1>5. ASSUME NEW k \in 1..z, k - 1 \in G PROVE k \in G
  <2>1. PICK j : j = k - 1 /\ j \in 0..(Len(ls) - 1) /\ k = j + 1 /\ k \in 0..z
    BY <1>1
  <2>2. PICK w : Prints(ls, c, s[j], w, j)
    BY <1>3, <1>5, <2>1
  <2>3. s[k] = PrintLine(ls, c, s[j], k)
    BY <1>1, <1>2, <2>1, SMTT(30) DEF IsPrinting
  <2>4. \E v : Prints(ls, c, PrintLine(ls, c, s[j], j + 1), v, j + 1)
    BY <2>1, <2>2, PrintStep
  <2>5. \E v : Prints(ls, c, s[k], v, k)
    BY <2>1, <2>3, <2>4, Zenon
  <2>6. QED
    BY <1>3, <2>1, <2>5
<1>6. 0..z \subseteq G
  BY <1>1, <1>4, <1>5, UpTo
<1>7. z \in G
  BY <1>1, <1>6
<1>8. QED
  BY <1>1, <1>2, <1>3, <1>7

-----------------------------------------
(* The parser of the output of ripgrep *)

\* The rounds of the parser of ripgrep's output.
IsParsing(ms, p, s) ==
  s = [k \in 0..Len(ms) |-> IF k = 0 THEN <<>> ELSE ParseMessage(s[k - 1], ms[k], p)]

\* The rounds of the parser are a recursive function, which has a value.
LEMMA ParsedIs ==
  ASSUME NEW ms, NEW p, Len(ms) \in Nat
  PROVE  \E s : IsParsing(ms, p, s) /\ parseRipgrepJSON(ms, p) = s[Len(ms)]
<1> DEFINE Rounds(m, s) == s = [k \in 0..m |-> IF k = 0 THEN <<>> ELSE ParseMessage(s[k - 1], ms[k], p)]
           G == {m \in Nat : \E s : Rounds(m, s)}
<1>1. 0 \in G
  <2>1. PICK s : s = [k \in 0..0 |-> <<>>]
    OBVIOUS
  <2>2. Rounds(0, s)
    BY <2>1
  <2>3. QED
    BY <2>2
<1>2. ASSUME NEW m \in 1..Len(ms), m - 1 \in G PROVE m \in G
  <2>1. PICK s : Rounds(m - 1, s)
    BY <1>2
  <2>2. PICK r : r = [k \in 0..m |-> IF k = m THEN ParseMessage(s[m - 1], ms[m], p) ELSE s[k]]
    OBVIOUS
  <2>3. \A k \in 0..(m - 1) : r[k] = s[k]
    BY <2>2
  <2>4. ASSUME NEW k \in 0..m PROVE r[k] = IF k = 0 THEN <<>> ELSE ParseMessage(r[k - 1], ms[k], p)
    <3>1. CASE k = m
      <4>1. r[k] = ParseMessage(s[m - 1], ms[m], p) /\ k # 0
        BY <2>2, <3>1
      <4>2. s[m - 1] = r[k - 1]
        BY <2>3, <3>1
      <4>3. QED
        BY <3>1, <4>1, <4>2, Zenon
    <3>2. CASE k # m
      <4>1. k \in 0..(m - 1)
        BY <3>2
      <4>2. r[k] = s[k]
        BY <2>3, <4>1
      <4>3. k # 0 => r[k - 1] = s[k - 1]
        BY <2>3, <4>1
      <4>4. s[k] = IF k = 0 THEN <<>> ELSE ParseMessage(s[k - 1], ms[k], p)
        BY <2>1, <4>1, Zenon
      <4>5. QED
        BY <4>2, <4>3, <4>4, Zenon
    <3>3. QED
      BY <3>1, <3>2
  <2>5. Rounds(m, r)
    BY <2>2, <2>4, Zenon
  <2>6. m \in Nat
    OBVIOUS
  <2>7. QED
    BY <2>5, <2>6, Zenon
<1>3. Len(ms) \in G
  <2>1. PICK H : H = G
    OBVIOUS
  <2>2. 0 \in H /\ \A k \in 1..Len(ms) : k - 1 \in H => k \in H
    BY <1>1, <1>2, <2>1, Zenon
  <2>3. 0..Len(ms) \subseteq H
    BY <2>2, UpTo
  <2>4. QED
    BY <2>1, <2>3
<1>4. \E s : s = [k \in 0..Len(ms) |-> IF k = 0 THEN <<>> ELSE ParseMessage(s[k - 1], ms[k], p)]
  BY <1>3
<1>5. QED
  BY <1>4, Zenon DEF parseRipgrepJSON, IsParsing

\* The matches that the parser makes, and one of them: a line with a match, and
\* after it lines up to z, between which and the match there is no other match.
ParsedMatches(p) == [path : {p}, line : Nat, content : Seq(Byte), before : {<<>>}, after : Seq(Seq(Byte))]
Follow(ls, m, z) ==
  /\ Hits(ls) \cap (m.line + 1)..z = {}
  /\ \A y \in 1..Len(m.after) : \E x \in (m.line + 1)..z : m.after[y] = ls[x]
Good(ls, c, m, u) ==
  /\ m.line \in Hits(ls) /\ m.line <= u /\ m.content = ls[m.line] /\ (c = 0 => m.after = <<>>)
  /\ \E z \in m.line..u : Follow(ls, m, z)

\* What was parsed after the lines up to u.
Parsed(ls, c, p, qs, u) ==
  /\ qs \in Seq(ParsedMatches(p))
  /\ \A i \in 1..Len(qs) : Good(ls, c, qs[i], u) /\ qs[i].line <= qs[Len(qs)].line
  /\ \A h \in Hits(ls) : h <= u => \E i \in 1..Len(qs) : qs[i].line = h

\* Lines between two printed ones have no matches.
NextPrinted(ls, c, u, x) ==
  /\ u \in 0..(x - 1) /\ x \in 1..Len(ls) /\ Near(ls, x, c)
  /\ \A y \in 1..Len(ls) : u < y /\ y < x => ~Near(ls, y, c)

\* The fields of a message.
LEMMA MessageIs ==
  ASSUME NEW ls, NEW n, NEW m, m = Message(ls, n)
  PROVE  m.type = (IF n \in Hits(ls) THEN "match" ELSE "context") /\ m.line = n /\ m.text = ls[n]
  BY DEF Message

\* What the parser does with the message of a line.
LEMMA ParseLine ==
  ASSUME NEW ls \in Seq(Seq(Byte)), NEW p, NEW n \in 1..Len(ls), NEW qs \in Seq(ParsedMatches(p)),
         Len(qs) > 0 => qs[Len(qs)].line < n, NEW new, new = ParseMessage(qs, Message(ls, n), p)
  PROVE  new = IF n \in Hits(ls) THEN Append(qs, MatchOf(p, n, ls[n]))
               ELSE IF qs = <<>> THEN qs
               ELSE [qs EXCEPT ![Len(qs)].after = Append(@, ls[n])]
<1>1. PICK m : m = Message(ls, n)
  OBVIOUS
<1>2. m.type = (IF n \in Hits(ls) THEN "match" ELSE "context") /\ m.line = n /\ m.text = ls[n]
  BY <1>1, MessageIs
<1>3. PICK l : l = Len(qs) /\ l \in Nat /\ (l = 0 <=> qs = <<>>)
  OBVIOUS
<1>4. CASE n \in Hits(ls)
  <2>1. m.type = "match"
    BY <1>2, <1>4
  <2>2. ParseMessage(qs, m, p) = Append(qs, MatchOf(p, m.line, m.text))
    BY <2>1, Zenon DEF ParseMessage
  <2>3. QED
    BY <1>1, <1>2, <1>4, <2>2, Zenon
<1>5. CASE n \notin Hits(ls)
  <2>1. m.type = "context"
    BY <1>2, <1>5
  <2>2. CASE l = 0
    <3>1. ~(l > 0) /\ m.type # "match"
      BY <2>1, <2>2
    <3>2. ParseMessage(qs, m, p) = qs
      BY <1>3, <3>1, Zenon DEF ParseMessage
    <3>3. QED
      BY <1>1, <1>3, <1>5, <2>2, <3>2, Zenon
  <2>3. CASE l # 0
    <3>1. l > 0 /\ qs[l].line < n /\ qs[l] \in ParsedMatches(p)
      BY <1>3, <2>3
    <3>2. qs[l].line \in Nat
      BY <3>1 DEF ParsedMatches
    <3>3. m.type # "match" /\ ~(m.line < qs[l].line) /\ m.line > qs[l].line
      BY <1>2, <2>1, <3>1, <3>2
    <3>4. PICK after, before, match : /\ after = [qs EXCEPT ![l].after = Append(@, m.text)]
                                      /\ before = [qs EXCEPT ![l].before = Append(@, m.text)]
                                      /\ match = Append(qs, MatchOf(p, m.line, m.text))
      OBVIOUS
    <3>5. ParseMessage(qs, m, p) = CASE m.type = "match" -> match
                                     [] m.type = "context" /\ l > 0 /\ m.line < qs[l].line -> before
                                     [] m.type = "context" /\ l > 0 /\ m.line > qs[l].line -> after
                                     [] OTHER -> qs
      BY <1>3, <3>4, Zenon DEF ParseMessage
    <3>6. ParseMessage(qs, m, p) = after
      BY <2>1, <3>1, <3>3, <3>5
    <3>7. QED
      BY <1>1, <1>2, <1>3, <1>5, <2>3, <3>4, <3>6, Zenon
  <2>4. QED
    BY <2>2, <2>3
<1>6. QED
  BY <1>4, <1>5

\* A sequence in which one element is replaced.
LEMMA Replaced ==
  ASSUME NEW S, NEW s \in Seq(S), NEW i \in 1..Len(s), NEW e \in S, NEW t, t = [s EXCEPT ![i] = e]
  PROVE  t \in Seq(S) /\ Len(t) = Len(s) /\ \A k \in 1..Len(s) : t[k] = IF k = i THEN e ELSE s[k]
  OBVIOUS

\* A message of ripgrep, parsed.
LEMMA ParseStep ==
  ASSUME NEW ls \in Seq(Seq(Byte)), NEW c \in Nat, NEW p, NEW u, NEW x, NextPrinted(ls, c, u, x),
         NEW qs, Parsed(ls, c, p, qs, u)
  PROVE  Parsed(ls, c, p, ParseMessage(qs, Message(ls, x), p), x)
<1>0. PICK l : l = Len(qs) /\ l \in Nat /\ qs \in Seq(ParsedMatches(p))
  <2>1. qs \in Seq(ParsedMatches(p))
    BY DEF Parsed
  <2>2. QED
    BY <2>1
<1>1. u \in Nat /\ x \in 1..Len(ls) /\ u < x /\ x \in Nat /\ ls[x] \in Seq(Byte) /\ Hits(ls) \subseteq 1..Len(ls)
  BY DEF NextPrinted, Hits
<1>2. ASSUME NEW i \in 1..l
      PROVE  /\ qs[i] \in ParsedMatches(p) /\ qs[i].line \in Nat /\ Good(ls, c, qs[i], u)
             /\ qs[i].line <= qs[l].line /\ qs[i].line <= u
  <2>1. qs[i] \in ParsedMatches(p)
    BY <1>0
  <2>2. PICK m : m = qs[i] /\ m \in ParsedMatches(p) /\ m.line \in Nat
    <3>1. PICK m : m = qs[i] /\ m \in ParsedMatches(p)
      BY <2>1
    <3>2. m.line \in Nat
      BY <3>1 DEF ParsedMatches
    <3>3. QED
      BY <3>1, <3>2
  <2>3. Good(ls, c, qs[i], u) /\ qs[i].line <= qs[l].line
    BY <1>0, Zenon DEF Parsed
  <2>4. m.line <= u
    BY <2>2, <2>3 DEF Good
  <2>5. QED
    BY <2>1, <2>2, <2>3, <2>4
<1>3. ASSUME NEW h \in Hits(ls), h <= x, h # x PROVE h <= u
  <2>1. h \in 1..Len(ls) /\ h \in Nat /\ h < x
    BY <1>1, <1>3
  <2>2. Near(ls, h, c)
    <3>1. h - c <= h /\ h <= h + c
      BY <2>1
    <3>2. QED
      BY <3>1 DEF Near
  <2>3. ~(u < h)
    BY <2>1, <2>2 DEF NextPrinted
  <2>4. QED
    BY <1>1, <2>1, <2>3
<1>4. ASSUME NEW i \in 1..l PROVE Good(ls, c, qs[i], x)
  <2>1. PICK m : m = qs[i] /\ m.line \in Nat /\ Good(ls, c, m, u)
    BY <1>2
  <2>2. PICK z \in m.line..u : Follow(ls, m, z)
    BY <2>1 DEF Good
  <2>3. z \in m.line..x /\ m.line <= x
    BY <1>1, <2>1, <2>2 DEF Good
  <2>4. Good(ls, c, m, x)
    BY <2>1, <2>2, <2>3 DEF Good
  <2>5. QED
    BY <2>1, <2>4
<1>5. PICK new : new = ParseMessage(qs, Message(ls, x), p)
  OBVIOUS
<1>6. new = IF x \in Hits(ls) THEN Append(qs, MatchOf(p, x, ls[x]))
            ELSE IF qs = <<>> THEN qs
            ELSE [qs EXCEPT ![Len(qs)].after = Append(@, ls[x])]
  <2>1. Len(qs) > 0 => qs[Len(qs)].line < x
    <3>1. l > 0 => l \in 1..l
      BY <1>0
    <3>2. l > 0 => qs[l].line <= u /\ qs[l].line \in Nat
      BY <1>2, <3>1
    <3>3. QED
      BY <1>0, <1>1, <3>2
  <2>2. QED
    BY <1>0, <1>1, <1>5, <2>1, ParseLine, SMTT(30)
<1>7. ASSUME NEW h \in Hits(ls), h <= u PROVE \E i \in 1..l : qs[i].line = h
  BY <1>0, <1>7 DEF Parsed
<1>8. CASE x \in Hits(ls)
  <2>1. PICK m : m = MatchOf(p, x, ls[x])
    OBVIOUS
  <2>2. m = [path |-> p, line |-> x, content |-> ls[x], before |-> <<>>, after |-> <<>>]
    BY <2>1 DEF MatchOf
  <2>3. m \in ParsedMatches(p) /\ m.line = x /\ m.content = ls[x] /\ m.after = <<>>
    <3>1. <<>> \in Seq(Seq(Byte)) /\ <<>> \in {<<>>} /\ p \in {p}
      OBVIOUS
    <3>2. QED
      BY <1>1, <2>2, <3>1 DEF ParsedMatches
  <2>4. new = Append(qs, m)
    BY <1>6, <1>8, <2>1
  <2>5. new \in Seq(ParsedMatches(p)) /\ Len(new) = l + 1 /\ new[l + 1] = m /\ \A i \in 1..l : new[i] = qs[i]
    BY <1>0, <2>3, <2>4
  <2>6. Good(ls, c, m, x)
    <3>1. Follow(ls, m, x)
      <4>1. (m.line + 1)..x = {} /\ Len(m.after) = 0
        BY <1>1, <2>3
      <4>2. QED
        BY <4>1 DEF Follow
    <3>2. x \in m.line..x
      BY <1>1, <2>3
    <3>3. QED
      BY <1>1, <1>8, <2>3, <3>1, <3>2 DEF Good
  <2>7. ASSUME NEW i \in 1..(l + 1) PROVE Good(ls, c, new[i], x) /\ new[i].line <= new[l + 1].line
    <3>1. CASE i = l + 1
      BY <1>1, <2>3, <2>5, <2>6, <3>1
    <3>2. CASE i # l + 1
      <4>1. i \in 1..l
        BY <1>0, <3>2
      <4>2. new[i] = qs[i] /\ qs[i].line <= u /\ qs[i].line \in Nat
        BY <1>2, <2>5, <4>1
      <4>3. QED
        BY <1>1, <1>4, <2>3, <2>5, <4>1, <4>2
    <3>3. QED
      BY <3>1, <3>2
  <2>8. ASSUME NEW h \in Hits(ls), h <= x PROVE \E i \in 1..(l + 1) : new[i].line = h
    <3>1. CASE h = x
      <4>1. l + 1 \in 1..(l + 1)
        BY <1>0
      <4>2. QED
        BY <2>3, <2>5, <3>1, <4>1
    <3>2. CASE h # x
      <4>1. PICK i \in 1..l : qs[i].line = h
        BY <1>3, <1>7, <2>8, <3>2
      <4>2. i \in 1..(l + 1) /\ new[i] = qs[i]
        BY <1>0, <2>5, <4>1
      <4>3. QED
        BY <4>1, <4>2
    <3>3. QED
      BY <3>1, <3>2
  <2>9. Parsed(ls, c, p, new, x)
    BY <2>5, <2>7, <2>8, Zenon DEF Parsed
  <2>10. QED
    BY <1>5, <2>9
<1>9. CASE x \notin Hits(ls)
  <2>1. \A h \in Hits(ls) : h <= x => h <= u
    BY <1>3, <1>9
  <2>2. CASE qs = <<>>
    <3>1. new = qs
      BY <1>6, <1>9, <2>2
    <3>2. Parsed(ls, c, p, qs, x)
      <4>1. \A i \in 1..Len(qs) : Good(ls, c, qs[i], x) /\ qs[i].line <= qs[Len(qs)].line
        BY <1>0, <1>2, <1>4
      <4>2. \A h \in Hits(ls) : h <= x => \E i \in 1..Len(qs) : qs[i].line = h
        BY <1>0, <1>7, <2>1
      <4>3. QED
        BY <1>0, <4>1, <4>2, Zenon DEF Parsed
    <3>3. QED
      BY <1>5, <3>1, <3>2
  <2>3. CASE qs # <<>>
    <3>1. l \in 1..l /\ l # 0
      BY <1>0, <2>3
    <3>2. PICK m : m = qs[l] /\ m \in ParsedMatches(p) /\ m.line \in Nat /\ Good(ls, c, m, u) /\ m.after \in Seq(Seq(Byte))
      BY <1>2, <3>1 DEF ParsedMatches
    <3>3. PICK a : a = Append(m.after, ls[x])
      OBVIOUS
    <3>4. PICK n : n = [m EXCEPT !.after = a]
      OBVIOUS
    <3>5. new = [qs EXCEPT ![l] = n]
      <4>1. new = [qs EXCEPT ![l].after = Append(@, ls[x])]
        BY <1>0, <1>6, <1>9, <2>3, Zenon
      <4>2. [qs EXCEPT ![l].after = Append(@, ls[x])] = [qs EXCEPT ![l] = [qs[l] EXCEPT !.after = Append(qs[l].after, ls[x])]]
        OBVIOUS
      <4>3. QED
        BY <3>2, <3>3, <3>4, <4>1, <4>2, Zenon
    <3>6. /\ n \in ParsedMatches(p) /\ n.line = m.line /\ n.content = m.content /\ n.after = a /\ a \in Seq(Seq(Byte))
          /\ Len(a) = Len(m.after) + 1 /\ a[Len(a)] = ls[x] /\ \A y \in 1..Len(m.after) : a[y] = m.after[y]
      <4>1. a \in Seq(Seq(Byte)) /\ Len(a) = Len(m.after) + 1 /\ a[Len(a)] = ls[x] /\ \A y \in 1..Len(m.after) : a[y] = m.after[y]
        BY <1>1, <3>2, <3>3
      <4>2. n \in ParsedMatches(p) /\ n.line = m.line /\ n.content = m.content /\ n.after = a
        BY <3>2, <3>4, <4>1 DEF ParsedMatches
      <4>3. QED
        BY <4>1, <4>2
    <3>7. new \in Seq(ParsedMatches(p)) /\ Len(new) = l /\ \A i \in 1..l : new[i] = IF i = l THEN n ELSE qs[i]
      BY <1>0, <3>1, <3>5, <3>6, Replaced
    <3>8. \A i \in 1..l : new[i].line = qs[i].line
      BY <3>2, <3>6, <3>7
    <3>9. c # 0
      <4>1. SUFFICES ASSUME c = 0 PROVE x \in Hits(ls)
        BY <1>9
      <4>2. PICK h \in Hits(ls) : x - c <= h /\ h <= x + c
        BY DEF NextPrinted, Near
      <4>3. h = x
        BY <1>1, <4>1, <4>2
      <4>4. QED
        BY <4>2, <4>3
    <3>10. Follow(ls, n, x)
      <4>1. ASSUME NEW h \in Hits(ls), h \in (n.line + 1)..x PROVE FALSE
        <5>1. h <= x /\ h > m.line /\ h \in Nat
          BY <1>1, <3>2, <3>6, <4>1, SMTT(30)
        <5>2. PICK i \in 1..l : qs[i].line = h
          BY <1>7, <2>1, <4>1, <5>1
        <5>3. h <= m.line
          BY <1>2, <3>2, <5>2
        <5>4. QED
          BY <3>2, <5>1, <5>3
      <4>2. PICK z \in m.line..u : Follow(ls, m, z)
        BY <3>2 DEF Good
      <4>3. ASSUME NEW y \in 1..Len(n.after) PROVE \E w \in (n.line + 1)..x : n.after[y] = ls[w]
        <5>1. CASE y = Len(a)
          <6>1. m.line <= u
            BY <3>2 DEF Good
          <6>2. x \in (n.line + 1)..x
            BY <1>1, <3>2, <3>6, <6>1, SMTT(30)
          <6>3. n.after[y] = ls[x]
            BY <3>6, <5>1
          <6>4. QED
            BY <6>2, <6>3
        <5>2. CASE y # Len(a)
          <6>1. y \in 1..Len(m.after)
            BY <3>2, <3>6, <4>3, <5>2, SMTT(30)
          <6>2. PICK w \in (m.line + 1)..z : m.after[y] = ls[w]
            BY <4>2, <6>1 DEF Follow
          <6>3. w \in (n.line + 1)..x /\ n.after[y] = ls[w]
            BY <1>1, <3>2, <3>6, <4>2, <6>1, <6>2, SMTT(30)
          <6>4. QED
            BY <6>3
        <5>3. QED
          BY <5>1, <5>2
      <4>4. QED
        BY <4>1, <4>3 DEF Follow
    <3>11. Good(ls, c, n, x)
      <4>1. m.line \in Hits(ls) /\ m.line <= u /\ m.content = ls[m.line]
        BY <3>2 DEF Good
      <4>2. x \in n.line..x /\ n.line <= x
        BY <1>1, <3>2, <3>6, <4>1
      <4>3. QED
        BY <3>6, <3>9, <3>10, <4>1, <4>2 DEF Good
    <3>12. ASSUME NEW i \in 1..l PROVE Good(ls, c, new[i], x) /\ new[i].line <= new[l].line
      <4>1. Good(ls, c, new[i], x)
        BY <1>4, <3>7, <3>11
      <4>2. new[i].line <= new[l].line
        BY <1>2, <3>1, <3>8
      <4>3. QED
        BY <4>1, <4>2
    <3>13. ASSUME NEW h \in Hits(ls), h <= x PROVE \E i \in 1..l : new[i].line = h
      BY <1>7, <2>1, <3>8, <3>13
    <3>14. Parsed(ls, c, p, new, x)
      BY <3>7, <3>12, <3>13, Zenon DEF Parsed
    <3>15. QED
      BY <1>5, <3>14
  <2>4. QED
    BY <2>2, <2>3
<1>10. QED
  BY <1>8, <1>9

\* What ripgrep prints about a text with matches, parsed.
LEMMA ParsesAll ==
  ASSUME NEW ls \in Seq(Seq(Byte)), NEW c \in Nat, NEW p, NEW qs, qs = parseRipgrepJSON(Printed(ls, c), p)
  PROVE  \E u \in 0..Len(ls) : Parsed(ls, c, p, qs, u) /\ \A h \in Hits(ls) : h <= u
<1>1. Len(ls) \in Nat
  OBVIOUS
<1>2. PICK ms, w : ms = Printed(ls, c) /\ Prints(ls, c, ms, w, Len(ls))
  BY <1>1, PrintsAll
<1>3. PICK l : l = Len(w) /\ l \in Nat /\ w \in Seq(Nat) /\ Len(ms) = l + 1 /\ ms[1] = Begin
  <2>1. w \in Seq(Nat) /\ Len(ms) = Len(w) + 1 /\ ms[1] = Begin
    BY <1>2, Zenon DEF Prints
  <2>2. PICK l : l = Len(w)
    OBVIOUS
  <2>3. QED
    BY <2>1, <2>2
<1>4. PICK s : IsParsing(ms, p, s) /\ qs = s[l + 1]
  <2>1. Len(ms) \in Nat /\ qs = parseRipgrepJSON(ms, p)
    BY <1>2, <1>3
  <2>2. PICK s : IsParsing(ms, p, s) /\ parseRipgrepJSON(ms, p) = s[Len(ms)]
    BY <2>1, ParsedIs
  <2>3. QED
    BY <1>3, <2>1, <2>2
<1>5. PICK U : U = [k \in 0..l |-> IF k = 0 THEN 0 ELSE w[k]]
  OBVIOUS
<1>6. U[0] = 0 /\ (\A k \in 1..l : U[k] = w[k] /\ w[k] \in 1..Len(ls)) /\ \A k \in 0..l : U[k] \in 0..Len(ls)
  <2>1. \A k \in 1..l : w[k] \in 1..Len(ls)
    BY <1>2, <1>3 DEF Prints
  <2>2. QED
    BY <1>1, <1>3, <1>5, <2>1
<1>7. PICK G : G = {k \in 0..l : Parsed(ls, c, p, s[k + 1], U[k])}
  OBVIOUS
<1>8. 0 \in G
  <2>1. s[0] = <<>> /\ s[1] = ParseMessage(s[0], ms[1], p)
    <3>1. 0 \in 0..Len(ms) /\ 1 \in 0..Len(ms)
      BY <1>3
    <3>2. QED
      BY <1>4, <3>1, SMTT(30) DEF IsParsing
  <2>2. ParseMessage(<<>>, Begin, p) = <<>>
    <3>1. PICK b : b = Begin /\ b.type = "begin"
      <4>1. PICK b : b = Begin
        OBVIOUS
      <4>2. b.type = "begin"
        BY <4>1 DEF Begin
      <4>3. QED
        BY <4>1, <4>2
    <3>2. b.type # "match" /\ b.type # "context"
      BY <3>1
    <3>3. ParseMessage(<<>>, b, p) = <<>>
      BY <3>2, Zenon DEF ParseMessage
    <3>4. QED
      BY <3>1, <3>3
  <2>3. PICK e : e = <<>> /\ e \in Seq(ParsedMatches(p)) /\ Len(e) = 0
    <3>1. PICK e : e = <<>>
      OBVIOUS
    <3>2. e \in Seq(ParsedMatches(p)) /\ Len(e) = 0
      BY <3>1
    <3>3. QED
      BY <3>1, <3>2
  <2>4. Parsed(ls, c, p, e, 0)
    <3>1. \A h \in Hits(ls) : ~(h <= 0)
      BY <1>1 DEF Hits
    <3>2. QED
      BY <2>3, <3>1 DEF Parsed
  <2>5. s[0 + 1] = e
    BY <1>3, <2>1, <2>2, <2>3
  <2>6. QED
    BY <1>3, <1>6, <1>7, <2>4, <2>5
<1>9. ASSUME NEW k \in 1..l, k - 1 \in G PROVE k \in G
  <2>1. PICK j : j = k - 1 /\ j \in 0..l /\ k = j + 1 /\ k \in 0..l /\ k + 1 \in 0..Len(ms) /\ k + 1 # 0
    BY <1>3
  <2>2. Parsed(ls, c, p, s[k], U[j])
    BY <1>7, <1>9, <2>1
  <2>3. s[k + 1] = ParseMessage(s[k], ms[k + 1], p)
    <3>1. \A x \in 0..Len(ms) : x # 0 => s[x] = ParseMessage(s[x - 1], ms[x], p)
      BY <1>4, Zenon DEF IsParsing
    <3>2. (k + 1) - 1 = k
      BY <2>1
    <3>3. s[k + 1] = ParseMessage(s[(k + 1) - 1], ms[k + 1], p)
      BY <2>1, <3>1, Zenon
    <3>4. QED
      BY <3>2, <3>3, Zenon
  <2>4. ms[k + 1] = Message(ls, w[k]) /\ U[k] = w[k] /\ w[k] \in 1..Len(ls) /\ Near(ls, w[k], c)
    BY <1>2, <1>3, <1>6 DEF Prints
  <2>5. NextPrinted(ls, c, U[j], w[k])
    <3>1. U[j] \in 0..(w[k] - 1)
      <4>1. CASE j = 0
        BY <1>6, <2>4, <4>1
      <4>2. CASE j # 0
        <5>1. j \in 1..l /\ j < k
          BY <2>1, <4>2
        <5>2. w[j] < w[k] /\ U[j] = w[j] /\ w[j] \in 1..Len(ls)
          BY <1>2, <1>3, <1>6, <5>1 DEF Prints
        <5>3. QED
          BY <2>4, <5>2
      <4>3. QED
        BY <4>1, <4>2
    <3>2. ASSUME NEW y \in 1..Len(ls), U[j] < y, y < w[k], Near(ls, y, c) PROVE FALSE
      <4>1. PICK i \in 1..l : w[i] = y
        BY <1>2, <1>3, <3>2 DEF Prints
      <4>2. CASE i = k
        BY <2>4, <3>2, <4>1, <4>2
      <4>3. CASE i > k
        <5>1. w[k] < w[i]
          BY <1>2, <1>3, <4>1, <4>3 DEF Prints
        <5>2. QED
          BY <2>4, <3>2, <4>1, <5>1
      <4>4. CASE i < k
        <5>1. j # 0 /\ j \in 1..l /\ i <= j
          BY <2>1, <4>1, <4>4
        <5>2. i = j \/ w[i] < w[j]
          BY <1>2, <1>3, <4>1, <5>1 DEF Prints
        <5>3. U[j] = w[j] /\ w[j] \in Nat
          BY <1>6, <5>1
        <5>4. QED
          BY <3>2, <4>1, <5>2, <5>3
      <4>5. QED
        BY <4>1, <4>2, <4>3, <4>4
    <3>3. QED
      BY <2>4, <3>1, <3>2 DEF NextPrinted
  <2>6. Parsed(ls, c, p, ParseMessage(s[k], Message(ls, w[k]), p), w[k])
    BY <2>2, <2>5, ParseStep
  <2>7. QED
    BY <1>7, <2>1, <2>3, <2>4, <2>6
<1>10. l \in G
  <2>1. 0..l \subseteq G
    BY <1>3, <1>8, <1>9, UpTo
  <2>2. QED
    BY <1>3, <2>1
<1>11. Parsed(ls, c, p, qs, U[l]) /\ U[l] \in 0..Len(ls)
  BY <1>3, <1>4, <1>6, <1>7, <1>10
<1>12. ASSUME NEW h \in Hits(ls) PROVE h <= U[l]
  <2>1. h \in 1..Len(ls) /\ h \in Nat
    BY <1>1 DEF Hits
  <2>2. Near(ls, h, c)
    <3>1. h - c <= h /\ h <= h + c
      BY <2>1
    <3>2. QED
      BY <3>1 DEF Near
  <2>3. PICK i \in 1..l : w[i] = h
    BY <1>2, <1>3, <2>1, <2>2 DEF Prints
  <2>4. l \in 1..l /\ (i = l \/ i < l)
    BY <1>3, <2>3
  <2>5. i = l \/ w[i] < w[l]
    BY <1>2, <1>3, <2>3, <2>4 DEF Prints
  <2>6. U[l] = w[l] /\ w[l] \in Nat
    BY <1>6, <2>4
  <2>7. QED
    BY <2>1, <2>3, <2>5, <2>6
<1>13. QED
  BY <1>11, <1>12

-----------------------------------------
(* The two searches of a text *)

\* The lines to be found in a text.
Wanted(data, ls) == IF Contains(data, "0") THEN {} ELSE Hits(ls)

\* A match of ripgrep: a line with a match, and lines after it before the next one.
Reported(ls, c, p, m) ==
  /\ m \in ParsedMatches(p) /\ m.content = ls[m.line] /\ (c = 0 => m.after = <<>>)
  /\ \E z \in m.line..Len(ls) : Follow(ls, m, z)

\* What is found with ripgrep in a text.
LEMMA RipgrepIs ==
  ASSUME NEW data \in Seq(Byte), NEW ls, ls = SplitLines(data), NEW c \in Nat, NEW p,
         NEW rg, rg = Range(parseRipgrepJSON(RipgrepJSON(data, c), p))
  PROVE  /\ \A m \in rg : m.line \in Wanted(data, ls) /\ Reported(ls, c, p, m)
         /\ \A n \in Wanted(data, ls) : \E m \in rg : m.line = n
<1>1. PICK ts : ts = TextLines(data)
  OBVIOUS
<1>2. /\ ts \in Seq(Seq(Byte)) /\ Len(ts) <= Len(ls) /\ (\A n \in 1..Len(ts) : ts[n] = ls[n])
      /\ Hits(ts) = Hits(ls) /\ ls \in Seq(Seq(Byte))
  <2>1. ls \in Seq(Seq(Byte))
    BY SplitLinesAre
  <2>2. /\ ts \in Seq(Seq(Byte)) /\ Len(ts) <= Len(ls) /\ \A n \in 1..Len(ts) : ts[n] = ls[n]
        /\ Hits(ts) = Hits(ls)
    BY <1>1, TextLinesAre
  <2>3. QED
    BY <2>1, <2>2
<1>3. RipgrepJSON(data, c) = IF Hits(ts) = {} \/ Contains(data, "0") THEN <<>> ELSE Printed(ts, c)
  BY <1>1, Zenon DEF RipgrepJSON
<1>4. CASE Hits(ts) = {} \/ Contains(data, "0")
  <2>1. Wanted(data, ls) = {}
    BY <1>2, <1>4 DEF Wanted
  <2>2. PICK e : e = <<>> /\ Len(e) = 0 /\ e \in Seq(Nat)
    <3>1. PICK e : e = <<>>
      OBVIOUS
    <3>2. Len(e) = 0 /\ e \in Seq(Nat)
      BY <3>1
    <3>3. QED
      BY <3>1, <3>2
  <2>3. parseRipgrepJSON(e, p) = <<>>
    <3>1. PICK s : IsParsing(e, p, s) /\ parseRipgrepJSON(e, p) = s[Len(e)]
      BY <2>2, ParsedIs
    <3>2. s[0] = <<>>
      BY <2>2, <3>1 DEF IsParsing
    <3>3. QED
      BY <2>2, <3>1, <3>2
  <2>4. RipgrepJSON(data, c) = e
    BY <1>3, <1>4, <2>2
  <2>5. rg = Range(e)
    BY <2>2, <2>3, <2>4, Zenon
  <2>6. DOMAIN e = {}
    BY <2>2
  <2>7. rg = {}
    BY <2>5, <2>6, Zenon DEF Range
  <2>8. QED
    BY <2>1, <2>7
<1>5. CASE ~(Hits(ts) = {} \/ Contains(data, "0"))
  <2>1. Wanted(data, ls) = Hits(ts) /\ RipgrepJSON(data, c) = Printed(ts, c)
    BY <1>2, <1>3, <1>5 DEF Wanted
  <2>2. PICK qs : qs = parseRipgrepJSON(Printed(ts, c), p) /\ rg = Range(qs)
    BY <2>1, Zenon
  <2>3. PICK u \in 0..Len(ts) : Parsed(ts, c, p, qs, u) /\ \A h \in Hits(ts) : h <= u
    BY <1>2, <2>2, ParsesAll
  <2>4. qs \in Seq(ParsedMatches(p)) /\ DOMAIN qs = 1..Len(qs)
    <3>1. qs \in Seq(ParsedMatches(p))
      BY <2>3, Zenon DEF Parsed
    <3>2. QED
      BY <3>1
  <2>5. \A m : m \in rg <=> \E i \in 1..Len(qs) : m = qs[i]
    BY <2>2, <2>4, Zenon DEF Range
  <2>6. ASSUME NEW m \in rg PROVE m.line \in Wanted(data, ls) /\ Reported(ls, c, p, m)
    <3>1. PICK i \in 1..Len(qs) : m = qs[i]
      BY <2>5, <2>6
    <3>2. m \in ParsedMatches(p) /\ Good(ts, c, m, u)
      BY <2>3, <2>4, <3>1 DEF Parsed
    <3>3. m.line \in Hits(ts) /\ m.content = ts[m.line] /\ (c = 0 => m.after = <<>>)
      BY <3>2 DEF Good
    <3>4. PICK z \in m.line..u : Follow(ts, m, z)
      BY <3>2 DEF Good
    <3>5. m.line \in 1..Len(ts) /\ m.line \in Nat /\ Len(ts) \in Nat /\ Len(ls) \in Nat /\ u \in Nat /\ u <= Len(ts)
      BY <1>2, <2>3, <3>3, SMTT(30) DEF Hits
    <3>6. m.content = ls[m.line] /\ z \in m.line..Len(ls)
      <4>1. ts[m.line] = ls[m.line] /\ Len(ts) <= Len(ls)
        BY <1>2, <3>5
      <4>2. z \in m.line..Len(ls)
        BY <3>4, <3>5, <4>1
      <4>3. QED
        BY <3>3, <4>1, <4>2
    <3>7. Follow(ls, m, z)
      <4>1. \A x \in (m.line + 1)..z : ts[x] = ls[x]
        BY <1>2, <3>4, <3>5
      <4>2. QED
        BY <1>2, <3>4, <4>1 DEF Follow
    <3>8. QED
      BY <2>1, <3>2, <3>3, <3>6, <3>7 DEF Reported
  <2>7. ASSUME NEW n \in Wanted(data, ls) PROVE \E m \in rg : m.line = n
    <3>1. n \in Hits(ts) /\ n <= u
      BY <2>1, <2>3, <2>7
    <3>2. PICK i \in 1..Len(qs) : qs[i].line = n
      BY <2>3, <3>1 DEF Parsed
    <3>3. QED
      BY <2>5, <3>2
  <2>8. QED
    BY <2>6, <2>7
<1>6. QED
  BY <1>4, <1>5

\* What the Go search finds in a text.
LEMMA GoIs ==
  ASSUME NEW data, NEW ls, ls = SplitLines(data), NEW c, NEW p, NEW m
  PROVE  m \in searchFile(data, p, c) <=> \E n \in Wanted(data, ls) : m = LineMatch(ls, p, n, c)
<1>1. searchFile(data, p, c) = IF Contains(data, "0") THEN {} ELSE {LineMatch(ls, p, n, c) : n \in Hits(ls)}
  BY SearchIs, Zenon
<1>2. CASE Contains(data, "0")
  BY <1>1, <1>2, Zenon DEF Wanted
<1>3. CASE ~Contains(data, "0")
  BY <1>1, <1>3, Zenon DEF Wanted
<1>4. QED
  BY <1>2, <1>3

\* A part of the lines of a text.
LEMMA LinesAre ==
  ASSUME NEW data \in Seq(Byte), NEW ls, ls = SplitLines(data), NEW a \in 1..(Len(ls) + 1), NEW b \in (a - 1)..Len(ls)
  PROVE  SubSeq(ls, a, b) = Lines(data, a, b)
<1>1. ls \in Seq(Seq(Byte)) /\ Len(ls) \in Nat \ {0} /\ \A n \in 1..Len(ls) : ls[n] = Line(data, n)
  BY SplitLinesAre
<1>2. PICK s, t : s = SubSeq(ls, a, b) /\ t = Lines(data, a, b)
  OBVIOUS
<1>3. s \in Seq(Seq(Byte)) /\ Len(s) = b - a + 1 /\ \A i \in 1..(b - a + 1) : s[i] = ls[a + i - 1]
  BY <1>1, <1>2, Cut
<1>4. t = [k \in 1..(b - a + 1) |-> Line(data, a + k - 1)]
  BY <1>2, Zenon DEF Lines
<1>5. ASSUME NEW k \in 1..(b - a + 1) PROVE Line(data, a + k - 1) = s[k]
  <2>1. a + k - 1 \in 1..Len(ls)
    BY <1>1
  <2>2. QED
    BY <1>1, <1>3, <2>1
<1>6. t = [k \in 1..(b - a + 1) |-> s[k]]
  BY <1>4, <1>5
<1>7. s = [k \in 1..(b - a + 1) |-> s[k]]
  BY <1>3
<1>8. QED
  BY <1>2, <1>6, <1>7

\* Both searches of a text are correct.
LEMMA SearchesAgree ==
  ASSUME NEW data \in Seq(Byte), NEW c \in Nat
  PROVE  SearchCorrect(data, c)
<1>1. PICK ls, last : ls = SplitLines(data) /\ last = Len(ls)
  OBVIOUS
<1>2. /\ ls \in Seq(Seq(Byte)) /\ last = LineOf(data, Len(data) + 1) /\ last \in Nat \ {0}
      /\ \A n \in 1..last : ls[n] = Line(data, n)
  BY <1>1, SplitLinesAre
<1>3. PICK W : W = Wanted(data, ls) /\ W \subseteq 1..last
               /\ W = IF Contains(data, "0") THEN {} ELSE {n \in 1..last : Contains(Line(data, n), "x")}
  <2>1. Hits(ls) = {n \in 1..last : Contains(Line(data, n), "x")}
    BY <1>1, <1>2, Zenon DEF Hits, Matches
  <2>2. QED
    BY <2>1, Zenon DEF Wanted
<1>4. PICK go, rg, p : go = searchFile(data, p, c) /\ rg = Range(parseRipgrepJSON(RipgrepJSON(data, c), p)) /\ p = <<>>
  OBVIOUS
<1>5. ASSUME NEW m PROVE m \in go <=> \E n \in W : m = LineMatch(ls, p, n, c)
  <2>1. ls = SplitLines(data)
    BY <1>1
  <2>2. m \in searchFile(data, p, c) <=> \E n \in Wanted(data, ls) : m = LineMatch(ls, p, n, c)
    BY <2>1, GoIs
  <2>3. QED
    BY <1>3, <1>4, <2>2, Zenon
<1>6. /\ \A m \in rg : m.line \in W /\ Reported(ls, c, p, m)
      /\ \A n \in W : \E m \in rg : m.line = n
  <2>1. ls = SplitLines(data)
    BY <1>1
  <2>2. /\ \A m \in rg : m.line \in Wanted(data, ls) /\ Reported(ls, c, p, m)
        /\ \A n \in Wanted(data, ls) : \E m \in rg : m.line = n
    BY <1>4, <2>1, RipgrepIs
  <2>3. QED
    BY <1>3, <2>2, Zenon
<1>7. ASSUME NEW n \in W, NEW m, m = LineMatch(ls, p, n, c)
      PROVE  /\ m.line = n /\ m.content = ls[n] /\ m.before = SubSeq(ls, FirstNear(n, c), n - 1)
             /\ m.after = SubSeq(ls, n + 1, LastNear(n, c, last))
  <2>1. n \in 1..Len(ls) /\ ls \in Seq(Seq(Byte))
    BY <1>1, <1>2, <1>3
  <2>2. Shows(ls, p, n, c, m)
    BY <1>7, <2>1, LineMatchIs
  <2>3. QED
    BY <1>1, <2>2, Zenon DEF Shows
<1>8. {<<m.line, m.content>> : m \in go} = {<<n, Line(data, n)>> : n \in W}
  <2>1. ASSUME NEW m \in go PROVE \E n \in W : <<m.line, m.content>> = <<n, Line(data, n)>>
    <3>1. PICK n \in W : m = LineMatch(ls, p, n, c)
      BY <1>5, <2>1
    <3>2. m.line = n /\ m.content = Line(data, n)
      BY <1>2, <1>3, <1>7, <3>1
    <3>3. QED
      BY <3>2
  <2>2. ASSUME NEW n \in W PROVE \E m \in go : <<m.line, m.content>> = <<n, Line(data, n)>>
    <3>1. PICK m : m = LineMatch(ls, p, n, c)
      OBVIOUS
    <3>2. m \in go /\ m.line = n /\ m.content = Line(data, n)
      BY <1>2, <1>3, <1>5, <1>7, <3>1
    <3>3. QED
      BY <3>2
  <2>3. QED
    BY <2>1, <2>2
<1>9. {<<m.line, m.content>> : m \in rg} = {<<n, Line(data, n)>> : n \in W}
  <2>1. ASSUME NEW m \in rg PROVE m.line \in W /\ m.content = Line(data, m.line)
    <3>1. m.line \in W /\ m.content = ls[m.line]
      BY <1>6, <2>1 DEF Reported
    <3>2. QED
      BY <1>2, <1>3, <3>1
  <2>2. ASSUME NEW m \in rg PROVE \E n \in W : <<m.line, m.content>> = <<n, Line(data, n)>>
    BY <2>1, <2>2
  <2>3. ASSUME NEW n \in W PROVE \E m \in rg : <<m.line, m.content>> = <<n, Line(data, n)>>
    <3>1. PICK m \in rg : m.line = n
      BY <1>6, <2>3
    <3>2. m.content = Line(data, n)
      BY <2>1, <3>1
    <3>3. QED
      BY <3>1, <3>2
  <2>4. QED
    BY <2>2, <2>3
<1>10. ASSUME NEW m \in go
       PROVE  /\ m.before = Lines(data, FirstNear(m.line, c), m.line - 1)
              /\ m.after = Lines(data, m.line + 1, LastNear(m.line, c, last))
  <2>1. PICK n \in W : m = LineMatch(ls, p, n, c)
    BY <1>5, <1>10
  <2>2. PICK a, b : a = FirstNear(n, c) /\ b = LastNear(n, c, last)
    OBVIOUS
  <2>3. m.line = n /\ m.before = SubSeq(ls, a, n - 1) /\ m.after = SubSeq(ls, n + 1, b)
    BY <1>7, <2>1, <2>2, Zenon
  <2>4. n \in 1..last /\ a \in 1..(last + 1) /\ n - 1 \in (a - 1)..last /\ n + 1 \in 1..(last + 1) /\ b \in (n + 1 - 1)..last
    <3>1. n \in 1..last
      BY <1>3
    <3>2. QED
      BY <1>2, <2>2, <3>1 DEF FirstNear, LastNear
  <2>5. SubSeq(ls, a, n - 1) = Lines(data, a, n - 1) /\ SubSeq(ls, n + 1, b) = Lines(data, n + 1, b)
    <3>1. PICK d, e : d = n - 1 /\ e = n + 1
      OBVIOUS
    <3>2. /\ a \in 1..(Len(ls) + 1) /\ d \in (a - 1)..Len(ls)
          /\ e \in 1..(Len(ls) + 1) /\ b \in (e - 1)..Len(ls)
      BY <1>1, <2>4, <3>1
    <3>3. SubSeq(ls, a, d) = Lines(data, a, d) /\ SubSeq(ls, e, b) = Lines(data, e, b)
      BY <1>1, <3>2, LinesAre
    <3>4. QED
      BY <3>1, <3>3
  <2>6. QED
    BY <2>2, <2>3, <2>5
<1>11. ASSUME NEW m \in rg
       PROVE  \E n \in m.line..last : W \cap (m.line + 1)..n = {} /\ Range(m.after) \subseteq Range(Lines(data, m.line + 1, n))
  <2>1. m.line \in W /\ m \in ParsedMatches(p)
    BY <1>6 DEF Reported
  <2>2. PICK z \in m.line..last : Follow(ls, m, z)
    BY <1>1, <1>6 DEF Reported
  <2>3. W \cap (m.line + 1)..z = {}
    <3>1. W \subseteq Hits(ls)
      BY <1>3 DEF Wanted
    <3>2. Hits(ls) \cap (m.line + 1)..z = {}
      BY <2>2 DEF Follow
    <3>3. QED
      BY <3>1, <3>2, Zenon
  <2>4. PICK l, after : l = m.line /\ l \in 1..last /\ after = m.after /\ after \in Seq(Seq(Byte)) /\ z \in l..last
    <3>1. m.after \in Seq(Seq(Byte))
      BY <2>1 DEF ParsedMatches
    <3>2. QED
      BY <1>3, <2>1, <2>2, <3>1
  <2>5. PICK t : t = Lines(data, l + 1, z) /\ t = [k \in 1..(z - (l + 1) + 1) |-> Line(data, (l + 1) + k - 1)]
    BY Zenon DEF Lines
  <2>6. ASSUME NEW y \in 1..Len(after) PROVE \E k \in DOMAIN t : after[y] = t[k]
    <3>1. PICK x \in (l + 1)..z : after[y] = ls[x]
      BY <2>2, <2>4, <2>6 DEF Follow
    <3>2. PICK k : k = x - l
      OBVIOUS
    <3>3. k \in 1..(z - (l + 1) + 1) /\ (l + 1) + k - 1 = x /\ x \in 1..last
      <4>1. l \in Nat /\ l >= 1 /\ last \in Nat /\ z \in Nat /\ z <= last
        BY <1>2, <2>4
      <4>2. x \in Nat /\ l + 1 <= x /\ x <= z
        BY <3>1, <4>1
      <4>3. k \in Nat /\ 1 <= k /\ k <= z - l
        BY <3>2, <4>1, <4>2
      <4>4. z - (l + 1) + 1 = z - l
        BY <4>1
      <4>5. k \in 1..(z - (l + 1) + 1)
        BY <4>1, <4>3, <4>4
      <4>6. (l + 1) + k - 1 = x
        BY <3>2, <4>1, <4>2
      <4>7. QED
        BY <4>1, <4>2, <4>5, <4>6
    <3>4. t[k] = Line(data, x) /\ k \in DOMAIN t
      BY <2>5, <3>3
    <3>5. QED
      BY <1>2, <3>1, <3>3, <3>4
  <2>7. Range(after) \subseteq Range(t)
    <3>1. DOMAIN after = 1..Len(after)
      BY <2>4
    <3>2. QED
      BY <2>6, <3>1, Zenon DEF Range
  <2>8. QED
    BY <2>2, <2>3, <2>4, <2>5, <2>7
<1>12. QED
  <2>1. \A found \in {go, rg} : {<<m.line, m.content>> : m \in found} = {<<n, Line(data, n)>> : n \in W}
    BY <1>8, <1>9, Zenon
  <2>2. QED
    BY <1>2, <1>3, <1>4, <1>10, <1>11, <2>1, Zenon DEF SearchCorrect, FirstNear, LastNear

-----------------------------------------
(* The two searches of a directory *)

\* What both searches find in a text when no lines around a match are asked for.
TextHits(data, p) == {MatchOf(p, n, SplitLines(data)[n]) : n \in Wanted(data, SplitLines(data))}

\* The lines to be found are lines of the text.
LEMMA WantedIs ==
  ASSUME NEW data \in Seq(Byte), NEW ls, ls = SplitLines(data), NEW n \in Wanted(data, ls)
  PROVE  n \in 1..Len(ls) /\ ls \in Seq(Seq(Byte)) /\ ls[n] = Line(data, n)
<1>1. n \in Hits(ls)
  BY DEF Wanted
<1>2. n \in 1..Len(ls)
  BY <1>1 DEF Hits
<1>3. QED
  BY <1>2, SplitLinesAre

\* The Go search.
LEMMA GoHits ==
  ASSUME NEW data \in Seq(Byte), NEW p
  PROVE  searchFile(data, p, 0) = TextHits(data, p)
<1>1. PICK ls, c : ls = SplitLines(data) /\ c = 0
  OBVIOUS
<1>2. ASSUME NEW n \in Wanted(data, ls) PROVE LineMatch(ls, p, n, c) = MatchOf(p, n, ls[n])
  <2>1. n \in 1..Len(ls) /\ ls \in Seq(Seq(Byte)) /\ c \in Nat
    BY <1>1, <1>2, WantedIs
  <2>2. PICK m : m = LineMatch(ls, p, n, c)
    OBVIOUS
  <2>3. Shows(ls, p, n, c, m)
    BY <2>1, <2>2, LineMatchIs
  <2>4. QED
    BY <1>1, <2>2, <2>3, Zenon DEF Shows
<1>3. ASSUME NEW m PROVE m \in searchFile(data, p, c) <=> \E n \in Wanted(data, ls) : m = LineMatch(ls, p, n, c)
  BY <1>1, GoIs
<1>4. ASSUME NEW m PROVE m \in searchFile(data, p, c) <=> \E n \in Wanted(data, ls) : m = MatchOf(p, n, ls[n])
  BY <1>2, <1>3, Zenon
<1>5. ASSUME NEW m PROVE m \in TextHits(data, p) <=> \E n \in Wanted(data, ls) : m = MatchOf(p, n, ls[n])
  BY <1>1, Zenon DEF TextHits
<1>6. searchFile(data, p, c) = TextHits(data, p)
  BY <1>4, <1>5, Zenon
<1>7. QED
  BY <1>1, <1>6, Zenon

\* ripgrep.
LEMMA RipgrepHits ==
  ASSUME NEW data \in Seq(Byte), NEW p
  PROVE  Range(parseRipgrepJSON(RipgrepJSON(data, 0), p)) = TextHits(data, p)
<1>1. PICK ls, c : ls = SplitLines(data) /\ c = 0
  OBVIOUS
<1>2. PICK rg : rg = Range(parseRipgrepJSON(RipgrepJSON(data, c), p))
  OBVIOUS
<1>3. /\ \A m \in rg : m.line \in Wanted(data, ls) /\ Reported(ls, c, p, m)
      /\ \A n \in Wanted(data, ls) : \E m \in rg : m.line = n
  <2>1. c \in Nat
    BY <1>1
  <2>2. QED
    BY <1>1, <1>2, <2>1, RipgrepIs
<1>4. ASSUME NEW m \in rg PROVE m = MatchOf(p, m.line, ls[m.line])
  <2>1. m \in ParsedMatches(p) /\ m.content = ls[m.line] /\ m.after = <<>>
    BY <1>1, <1>3, <1>4 DEF Reported
  <2>2. m = [path |-> p, line |-> m.line, content |-> ls[m.line], before |-> <<>>, after |-> <<>>]
    BY <2>1 DEF ParsedMatches
  <2>3. QED
    BY <2>2, Zenon DEF MatchOf
<1>5. ASSUME NEW m PROVE m \in rg <=> \E n \in Wanted(data, ls) : m = MatchOf(p, n, ls[n])
  <2>1. ASSUME m \in rg PROVE \E n \in Wanted(data, ls) : m = MatchOf(p, n, ls[n])
    BY <1>3, <1>4, <2>1
  <2>2. ASSUME NEW n \in Wanted(data, ls), m = MatchOf(p, n, ls[n]) PROVE m \in rg
    <3>1. PICK k \in rg : k.line = n
      BY <1>3
    <3>2. k = MatchOf(p, n, ls[n])
      BY <1>4, <3>1
    <3>3. QED
      BY <2>2, <3>1, <3>2
  <2>3. QED
    BY <2>1, <2>2
<1>6. ASSUME NEW m PROVE m \in TextHits(data, p) <=> \E n \in Wanted(data, ls) : m = MatchOf(p, n, ls[n])
  BY <1>1, Zenon DEF TextHits
<1>7. rg = TextHits(data, p)
  BY <1>5, <1>6, Zenon
<1>8. QED
  BY <1>1, <1>2, <1>7, Zenon

\* A match that a search of the files below a directory finds.
InFile(f, dir, only, m) ==
  \E q \in Searched(f, dir, only) : m \in searchFile(At(f, Walk(f, q).path).data, RelPath(dir, q), 0)
InOutput(f, dir, only, m) ==
  \E q \in RipgrepFiles(f, dir, only) : m \in Range(parseRipgrepJSON(RipgrepJSON(f[q].data, 0), RelPath(dir, q)))

\* The search that the parser of ripgrep's output gives up.
Stops(f, dir, only) == \E q \in RipgrepFiles(f, dir, only) : TooLong(RipgrepJSON(f[q].data, 0))

\* What grep answers.
LEMMA GrepIs ==
  ASSUME NEW f, NEW home, NEW rg \in BOOLEAN, NEW req, NEW only, NEW v, v = ValidatePath(f, home, req), NEW m
  PROVE  /\ m \in grep(f, home, rg, "x", req, only, 0).matches <=>
              /\ FirstOf(DirChecks(f, v)) = "ok"
              /\ \/ rg /\ ~Stops(f, v.path, only) /\ InOutput(f, v.path, only, m)
                 \/ ~rg /\ InFile(f, v.path, only, m)
         /\ rg /\ FirstOf(DirChecks(f, v)) = "ok" /\ Stops(f, v.path, only) =>
              grep(f, home, rg, "x", req, only, 0).code = "Unknown"
<1>1. PICK code, dir : code = FirstOf(DirChecks(f, v)) /\ dir = v.path
  OBVIOUS
<1>2. PICK no : no = [code |-> code, matches |-> {}] /\ no.matches = {}
  <2>1. PICK no : no = [code |-> code, matches |-> {}]
    OBVIOUS
  <2>2. no.matches = {}
    BY <2>1
  <2>3. QED
    BY <2>1, <2>2
<1>3. PICK a, b : a = grepWithRipgrep(f, dir, "x", only, 0) /\ b = grepWithGo(f, dir, "x", only, 0)
  OBVIOUS
<1>4. grep(f, home, rg, "x", req, only, 0) = CASE code # "ok" -> no [] code = "ok" /\ rg -> a [] OTHER -> b
  BY <1>1, <1>2, <1>3, Zenon DEF grep
<1>5. grep(f, home, rg, "x", req, only, 0) = IF code # "ok" THEN no ELSE IF rg THEN a ELSE b
  BY <1>4
<1>6. /\ m \in a.matches <=> ~Stops(f, dir, only) /\ InOutput(f, dir, only, m)
      /\ Stops(f, dir, only) => a.code = "Unknown"
  <2>1. PICK s : s = UNION {Range(parseRipgrepJSON(RipgrepJSON(f[q].data, 0), RelPath(dir, q))) : q \in RipgrepFiles(f, dir, only)}
    OBVIOUS
  <2>2. PICK c : c = (IF 0 > 0 THEN 0 ELSE 0) /\ c = 0
    OBVIOUS
  <2>3. a = CASE "x" = "(" -> [code |-> "InvalidArgument", matches |-> {}]
              [] "x" # "(" /\ Stops(f, dir, only) -> [code |-> "Unknown", matches |-> {}]
              [] OTHER -> [code |-> "ok", matches |-> s]
    BY <1>3, <2>1, <2>2, Zenon DEF grepWithRipgrep, Stops
  <2>4. a = IF Stops(f, dir, only) THEN [code |-> "Unknown", matches |-> {}] ELSE [code |-> "ok", matches |-> s]
    BY <2>3
  <2>5. CASE Stops(f, dir, only)
    <3>1. a = [code |-> "Unknown", matches |-> {}]
      BY <2>4, <2>5
    <3>2. a.code = "Unknown" /\ a.matches = {}
      BY <3>1
    <3>3. QED
      BY <2>5, <3>2
  <2>6. CASE ~Stops(f, dir, only)
    <3>1. a = [code |-> "ok", matches |-> s]
      BY <2>4, <2>6
    <3>2. a.matches = s
      BY <3>1
    <3>3. QED
      BY <2>1, <2>6, <3>2, Zenon DEF InOutput
  <2>7. QED
    BY <2>5, <2>6
<1>7. m \in b.matches <=> InFile(f, dir, only, m)
  <2>1. PICK s : s = UNION {searchFile(At(f, Walk(f, q).path).data, RelPath(dir, q), 0) : q \in Searched(f, dir, only)}
    OBVIOUS
  <2>2. b = [code |-> "ok", matches |-> s]
    BY <1>3, <2>1 DEF grepWithGo
  <2>3. b.matches = s
    BY <2>2
  <2>4. QED
    BY <2>1, <2>3, Zenon DEF InFile
<1>8. QED
  BY <1>1, <1>2, <1>5, <1>6, <1>7

\* Hidden or ignored, for a search of dir.
Hidden(dir, q) == \E p \in Skipped : Below(dir, p) /\ IsPrefix(p, q)

\* The regular files below a directory that are not, and that the filter lets through.
Filtered(dir, rg, only, q) == only => IF rg THEN Last(q) = OnlyName ELSE RelPath(dir, q) = <<OnlyName>>
Shown(f, dir, rg, only) ==
  {q \in Places : Below(dir, q) /\ f[q].t = "file" /\ ~Hidden(dir, q) /\ Filtered(dir, rg, only, q)}

\* The two meanings of the filter agree on the files of the directory itself.
LEMMA FiltersAgree ==
  ASSUME NEW P \in Places, IsPrefix(Home, P), NEW q \in Places, Below(P, q), NEW only \in BOOLEAN
  PROVE  Filtered(P, FALSE, only, q) <=> Filtered(P, TRUE, only, q) /\ (only => Len(RelPath(P, q)) = 1)
<1>1. PICK r : r = RelPath(P, q)
  OBVIOUS
<1>2. P \in Seq(Segment)
  BY PlacesAssumption
<1>3. r \in Seq(Segment) /\ r # <<>> /\ q = P \o r
  BY <1>1, EntryIs
<1>4. Last(q) = r[Len(r)]
  <2>1. Len(q) = Len(P) + Len(r) /\ Len(r) \in Nat \ {0} /\ Len(P) \in Nat
    BY <1>1, <1>2, <1>3
  <2>2. q[Len(P) + Len(r)] = r[Len(r)]
    BY <1>1, <1>2, <1>3, <2>1
  <2>3. QED
    BY <2>1, <2>2 DEF Last
<1>5. Len(r) = 1 => (r = <<OnlyName>> <=> r[Len(r)] = OnlyName)
  BY <1>3, GrepAssumption
<1>6. r = <<OnlyName>> => Len(r) = 1 /\ r[1] = OnlyName
  OBVIOUS
<1>7. QED
  BY <1>1, <1>4, <1>5, <1>6 DEF Filtered

\* The matches of a file bear its name.
LEMMA MatchNames ==
  ASSUME NEW data, NEW p, NEW m
  PROVE  /\ m \in searchFile(data, p, 0) => m.path = p
         /\ m \in TextHits(data, p) => m.path = p
<1>1. ASSUME m \in searchFile(data, p, 0) PROVE m.path = p
  <2>1. PICK ls, c : ls = SplitLines(data) /\ c = 0
    OBVIOUS
  <2>2. PICK n \in Wanted(data, ls) : m = LineMatch(ls, p, n, c)
    BY <1>1, <2>1, GoIs
  <2>3. PICK o, x, y : o = MatchOf(p, n, ls[n]) /\ m = [o EXCEPT !.before = x, !.after = y]
    BY <2>2, Zenon DEF LineMatch
  <2>4. QED
    BY <2>3 DEF MatchOf
<1>2. ASSUME m \in TextHits(data, p) PROVE m.path = p
  BY <1>2, MatchIs DEF TextHits
<1>3. QED
  BY <1>1, <1>2

\* Both searches look at the regular files, and find the same in one.
LEMMA FileSearches ==
  ASSUME NEW f, FsInv(f), NEW P \in Places, NEW q \in Places, Below(P, q), f[q].t = "file", NEW p, p = RelPath(P, q)
  PROVE  /\ At(f, Walk(f, q).path) = f[q] /\ f[q].data \in Seq(Byte)
         /\ searchFile(At(f, Walk(f, q).path).data, p, 0) = TextHits(f[q].data, p)
         /\ Range(parseRipgrepJSON(RipgrepJSON(f[q].data, 0), p)) = TextHits(f[q].data, p)
<1>1. Shape(f) /\ Tree(f)
  BY Ground
<1>2. At(f, Walk(f, q).path) = f[q]
  <2>1. Walk(f, q).path = q
    BY <1>1, Canon
  <2>2. QED
    BY <2>1 DEF At
<1>3. f[q].data \in Seq(Byte)
  <2>1. Contents \subseteq Seq(Byte)
    <3>1. \A n \in Names : Origin[n] \in Seq(Byte) /\ PeerTree[n] \in Seq(Byte)
      BY WorkspaceAssumption
    <3>2. Data \subseteq Seq(Byte) /\ <<>> \in Seq(Byte)
      BY PlacesAssumption
    <3>3. Samples \cup {<<"x">>} \subseteq Seq(Byte)
      BY WorkspaceAssumption
    <3>4. <<"x">> \in Seq(Byte)
      BY <3>3, Zenon
    <3>5. QED
      BY <3>1, <3>2, <3>4 DEF Contents
  <2>2. f[q].data \in Contents
    BY NodeIs DEF FsInv
  <2>3. QED
    BY <2>1, <2>2
<1>4. searchFile(At(f, Walk(f, q).path).data, p, 0) = TextHits(f[q].data, p)
  BY <1>2, <1>3, GoHits, Zenon
<1>5. Range(parseRipgrepJSON(RipgrepJSON(f[q].data, 0), p)) = TextHits(f[q].data, p)
  BY <1>3, RipgrepHits, Zenon
<1>6. QED
  BY <1>2, <1>3, <1>4, <1>5, Zenon

\* Which files each of them looks at.
LEMMA FileFilters ==
  ASSUME NEW f, FsInv(f), NEW P \in Places, NEW only \in BOOLEAN, NEW q \in Places, Below(P, q), f[q].t = "file"
  PROVE  /\ q \in Searched(f, P, only) <=> Filtered(P, FALSE, only, q)
         /\ ~Hidden(P, q) => (q \in RipgrepFiles(f, P, only) <=> Filtered(P, TRUE, only, q))
<1>1. Shape(f) /\ Tree(f)
  BY Ground
<1>2. At(f, Walk(f, q).path) = f[q]
  <2>1. Walk(f, q).path = q
    BY <1>1, Canon
  <2>2. QED
    BY <2>1 DEF At
<1>3. q \in Searched(f, P, only) <=> Filtered(P, FALSE, only, q)
  BY <1>2 DEF Searched, Entries, Filtered
<1>4. ~Hidden(P, q) => (q \in RipgrepFiles(f, P, only) <=> Filtered(P, TRUE, only, q))
  BY DEF RipgrepFiles, Entries, Filtered, Hidden
<1>5. QED
  BY <1>3, <1>4

\* A match in a file that is shown.
Finds(f, dir, rg, only, m) == \E q \in Shown(f, dir, rg, only) : m \in TextHits(f[q].data, RelPath(dir, q))

\* The matches in files that are not hidden, of either search.
LEMMA FoundIs ==
  ASSUME NEW f, FsInv(f), NEW home \in {Home, Alias}, NEW rg \in BOOLEAN, NEW req, IsRequest(req), NEW only \in BOOLEAN,
         NEW v, v = ValidatePath(f, home, req), NEW m
  PROVE  /\ m \in grep(f, home, rg, "x", req, only, 0).matches
         /\ ~Hidden(v.path, v.path \o m.path) /\ At(f, v.path \o m.path).t = "file"
         <=> /\ FirstOf(DirChecks(f, v)) = "ok" /\ (rg => ~Stops(f, v.path, only))
             /\ Finds(f, v.path, rg, only, m)
<1>1. CASE FirstOf(DirChecks(f, v)) # "ok" \/ (rg /\ Stops(f, v.path, only))
  BY <1>1, GrepIs
<1>2. CASE FirstOf(DirChecks(f, v)) = "ok" /\ (rg => ~Stops(f, v.path, only))
  <2>1. MaySearch(f, v)
    BY <1>2, DirChecksAre
  <2>2. PICK P \in Places : P = v.path /\ IsPrefix(Home, P)
    BY <2>1, SearchedIs DEF Leads, Real
  <2>3. m \in grep(f, home, rg, "x", req, only, 0).matches <=>
           (rg /\ InOutput(f, P, only, m)) \/ (~rg /\ InFile(f, P, only, m))
    BY <1>2, <2>2, GrepIs
  <2>4. ASSUME NEW q \in Places, Below(P, q) PROVE q = P \o RelPath(P, q)
    BY <2>2, <2>4, EntryIs
  <2>5. ASSUME m \in grep(f, home, rg, "x", req, only, 0).matches,
               ~Hidden(P, P \o m.path), At(f, P \o m.path).t = "file"
        PROVE  Finds(f, P, rg, only, m)
    <3>1. CASE rg
      <4>1. PICK q \in RipgrepFiles(f, P, only) : m \in Range(parseRipgrepJSON(RipgrepJSON(f[q].data, 0), RelPath(P, q)))
        BY <2>3, <2>5, <3>1 DEF InOutput
      <4>2. f[q].t = "file" /\ q \in Places /\ Below(P, q)
        BY <4>1 DEF RipgrepFiles, Entries
      <4>3. m \in TextHits(f[q].data, RelPath(P, q))
        BY <4>1, <4>2, FileSearches
      <4>4. m.path = RelPath(P, q)
        BY <4>3, MatchNames
      <4>5. ~Hidden(P, q)
        BY <2>4, <2>5, <4>2, <4>4
      <4>6. Filtered(P, TRUE, only, q)
        BY <4>1, <4>2, <4>5, FileFilters
      <4>7. q \in Shown(f, P, rg, only)
        BY <3>1, <4>2, <4>5, <4>6 DEF Shown, Filtered
      <4>8. QED
        BY <4>3, <4>7 DEF Finds
    <3>2. CASE ~rg
      <4>1. PICK q \in Searched(f, P, only) : m \in searchFile(At(f, Walk(f, q).path).data, RelPath(P, q), 0)
        BY <2>3, <2>5, <3>2 DEF InFile
      <4>2. m.path = RelPath(P, q)
        BY <4>1, MatchNames
      <4>3. q \in Places /\ Below(P, q)
        BY <4>1 DEF Searched, Entries
      <4>4. f[q].t = "file" /\ ~Hidden(P, q)
        BY <2>4, <2>5, <4>2, <4>3 DEF At
      <4>5. m \in TextHits(f[q].data, RelPath(P, q))
        BY <4>1, <4>3, <4>4, FileSearches
      <4>6. Filtered(P, FALSE, only, q)
        BY <4>1, <4>3, <4>4, FileFilters
      <4>7. q \in Shown(f, P, rg, only)
        BY <3>2, <4>3, <4>4, <4>6 DEF Shown, Filtered
      <4>8. QED
        BY <4>5, <4>7 DEF Finds
    <3>3. QED
      BY <3>1, <3>2
  <2>6. ASSUME NEW q \in Shown(f, P, rg, only), m \in TextHits(f[q].data, RelPath(P, q))
        PROVE  /\ m \in grep(f, home, rg, "x", req, only, 0).matches
               /\ ~Hidden(P, P \o m.path) /\ At(f, P \o m.path).t = "file"
    <3>1. q \in Places /\ Below(P, q) /\ f[q].t = "file" /\ ~Hidden(P, q) /\ Filtered(P, rg, only, q)
      BY <2>6 DEF Shown
    <3>2. (rg => q \in RipgrepFiles(f, P, only)) /\ (~rg => q \in Searched(f, P, only))
      <4>1. CASE rg
        BY <3>1, <4>1, FileFilters DEF Filtered
      <4>2. CASE ~rg
        BY <3>1, <4>2, FileFilters DEF Filtered
      <4>3. QED
        BY <4>1, <4>2
    <3>3. m \in Range(parseRipgrepJSON(RipgrepJSON(f[q].data, 0), RelPath(P, q)))
          /\ m \in searchFile(At(f, Walk(f, q).path).data, RelPath(P, q), 0)
      BY <2>6, <3>1, FileSearches
    <3>4. m \in grep(f, home, rg, "x", req, only, 0).matches
      BY <2>3, <3>2, <3>3 DEF InFile, InOutput
    <3>5. m.path = RelPath(P, q) /\ q = P \o RelPath(P, q)
      BY <2>4, <2>6, <3>1, MatchNames
    <3>6. QED
      BY <3>1, <3>4, <3>5 DEF At
  <2>7. QED
    BY <1>2, <2>2, <2>5, <2>6 DEF Finds
<1>3. QED
  BY <1>1, <1>2

\* What the fallback finds is what ripgrep finds, with a filter only in the directory itself.
LEMMA GoFinds ==
  ASSUME NEW f, NEW P \in Places, IsPrefix(Home, P), NEW only \in BOOLEAN, NEW m
  PROVE  Finds(f, P, FALSE, only, m) <=> Finds(f, P, TRUE, only, m) /\ (only => Len(m.path) = 1)
<1>1. ASSUME NEW q \in Places, m \in TextHits(f[q].data, RelPath(P, q))
      PROVE  q \in Shown(f, P, FALSE, only) <=> q \in Shown(f, P, TRUE, only) /\ (only => Len(m.path) = 1)
  <2>1. m.path = RelPath(P, q)
    BY <1>1, MatchNames
  <2>2. Below(P, q) => (Filtered(P, FALSE, only, q) <=> Filtered(P, TRUE, only, q) /\ (only => Len(m.path) = 1))
    BY <2>1, FiltersAgree
  <2>3. QED
    BY <2>2 DEF Shown
<1>2. \A b \in BOOLEAN : Shown(f, P, b, only) \subseteq Places
  BY DEF Shown
<1>3. QED
  BY <1>1, <1>2 DEF Finds

\* A match that readFile shows as well.
ShowsLine(f, home, req, m) ==
  \A r \in {readFile(f, home, [req EXCEPT !.segs = @ \o m.path], 0, 0)} :
    r.code = "ok" /\ Line(r.data, m.line) = m.content

\* Every match in a file that is shown is a line of what readFile answers for it.
LEMMA HitIsRead ==
  ASSUME NEW f, FsInv(f), NEW home \in {Home, Alias}, NEW req, IsRequest(req), NEW only,
         NEW v, v = ValidatePath(f, home, req), FirstOf(DirChecks(f, v)) = "ok", NEW m, NEW rg, Finds(f, v.path, rg, only, m)
  PROVE  ShowsLine(f, home, req, m)
<1>0. PICK rq, r : rq = [req EXCEPT !.segs = @ \o m.path] /\ r = readFile(f, home, rq, 0, 0)
  OBVIOUS
<1>1. PICK q \in Shown(f, v.path, rg, only) : m \in TextHits(f[q].data, RelPath(v.path, q))
  BY DEF Finds
<1>2. PICK data, p : data = f[q].data /\ p = RelPath(v.path, q) /\ m \in TextHits(data, p)
  BY <1>1
<1>3. MaySearch(f, v)
  BY DirChecksAre
<1>4. v.path \in Places /\ IsPrefix(Home, v.path)
  BY <1>3, SearchedIs DEF Leads, Real
<1>5. q \in Places /\ Below(v.path, q) /\ f[q].t = "file"
  BY <1>1 DEF Shown
<1>6. data \in Seq(Byte)
  BY <1>2, <1>4, <1>5, FileSearches
<1>7. m.path = p
  BY <1>2, MatchNames
<1>8. Reads(f, home, rq, q)
  BY <1>0, <1>2, <1>3, <1>5, <1>7, BelowIsRead
<1>9. r.code = "ok" /\ r.data = data
  <2>1. r = [code |-> "ok", data |-> Slice(data, 0, 0)]
    BY <1>0, <1>2, <1>8, Zenon DEF Reads
  <2>2. QED
    BY <1>6, <2>1, WholeSlice
<1>10. PICK ls : ls = SplitLines(data)
  OBVIOUS
<1>11. PICK n \in Wanted(data, ls) : m = MatchOf(p, n, ls[n])
  BY <1>2, <1>10, Zenon DEF TextHits
<1>12. m.line = n /\ m.content = ls[n]
  BY <1>11, MatchIs
<1>13. ls[n] = Line(data, n)
  BY <1>6, <1>10, <1>11, WantedIs
<1>14. r.code = "ok" /\ Line(r.data, m.line) = m.content
  BY <1>9, <1>12, <1>13
<1>15. QED
  BY <1>0, <1>14, Zenon DEF ShowsLine

\* Both searches of the samples are correct.
LEMMA SearchesHold == SearchesCorrect
<1>1. ASSUME NEW data \in Samples, NEW c \in 0..2 PROVE SearchCorrect(data, c)
  <2>1. data \in Seq(Byte) /\ c \in Nat
    BY WorkspaceAssumption
  <2>2. QED
    BY <2>1, SearchesAgree
<1>2. QED
  BY <1>1, Zenon DEF SearchesCorrect

\* Both searches of a directory find the same lines, which readFile shows.
LEMMA HitsHold ==
  ASSUME WorkspaceInv
  PROVE  HitsAgree
<1>1. FsInv(fs) /\ homeDir \in {Home, Alias}
  BY DEF WorkspaceInv
<1>2. ASSUME NEW req \in Requests, NEW only \in BOOLEAN, NEW found, found = FilesFound(req, only, TRUE),
             NEW foundByGo, foundByGo = FilesFound(req, only, FALSE)
      PROVE  /\ grep(fs, homeDir, TRUE, "x", req, only, 0).code # "Unknown" =>
                   foundByGo = {m \in found : only => Len(m.path) = 1}
             /\ \A m \in found \cup foundByGo : ShowsLine(fs, homeDir, req, m)
  <2>1. IsRequest(req)
    BY WorkspaceAssumption
  <2>2. PICK v : v = ValidatePath(fs, homeDir, req)
    OBVIOUS
  <2>3. ASSUME NEW rg \in BOOLEAN, NEW m
        PROVE  m \in FilesFound(req, only, rg) <=>
                 /\ FirstOf(DirChecks(fs, v)) = "ok" /\ (rg => ~Stops(fs, v.path, only))
                 /\ Finds(fs, v.path, rg, only, m)
    <3>1. /\ m \in grep(fs, homeDir, rg, "x", req, only, 0).matches
          /\ ~Hidden(v.path, v.path \o m.path) /\ At(fs, v.path \o m.path).t = "file"
          <=> /\ FirstOf(DirChecks(fs, v)) = "ok" /\ (rg => ~Stops(fs, v.path, only))
              /\ Finds(fs, v.path, rg, only, m)
      BY <1>1, <2>1, <2>2, FoundIs
    <3>2. QED
      BY <2>2, <3>1, Zenon DEF FilesFound, Hidden
  <2>4. ASSUME grep(fs, homeDir, TRUE, "x", req, only, 0).code # "Unknown"
        PROVE  foundByGo = {m \in found : only => Len(m.path) = 1}
    <3>1. FirstOf(DirChecks(fs, v)) # "ok" \/ ~Stops(fs, v.path, only)
      BY <2>2, <2>4, GrepIs
    <3>2. FirstOf(DirChecks(fs, v)) = "ok" => v.path \in Places /\ IsPrefix(Home, v.path)
      BY <1>1, <2>1, <2>2, DirChecksAre, SearchedIs DEF Leads, Real
    <3>3. ASSUME NEW m PROVE m \in foundByGo <=> m \in found /\ (only => Len(m.path) = 1)
      BY <1>2, <2>3, <3>1, <3>2, GoFinds
    <3>4. QED
      BY <3>3
  <2>5. ASSUME NEW m \in found \cup foundByGo PROVE ShowsLine(fs, homeDir, req, m)
    <3>1. PICK rg \in BOOLEAN : FirstOf(DirChecks(fs, v)) = "ok" /\ Finds(fs, v.path, rg, only, m)
      BY <1>2, <2>3, <2>5
    <3>2. QED
      BY <1>1, <2>1, <2>2, <3>1, HitIsRead
  <2>6. QED
    BY <2>4, <2>5, Zenon
<1>3. SUFFICES ASSUME NEW req \in Requests, NEW only \in BOOLEAN, NEW found \in {FilesFound(req, only, TRUE)},
                      NEW foundByGo \in {FilesFound(req, only, FALSE)}
               PROVE  /\ grep(fs, homeDir, TRUE, "x", req, only, 0).code # "Unknown" =>
                            foundByGo = {m \in found : only => Len(m.path) = 1}
                      /\ \A m \in found \cup foundByGo : ShowsLine(fs, homeDir, req, m)
  BY Zenon DEF HitsAgree, ShowsLine
<1>4. found = FilesFound(req, only, TRUE) /\ foundByGo = FilesFound(req, only, FALSE)
  OBVIOUS
<1>5. QED
  BY <1>2, <1>4, Zenon

-----------------------------------------
(* The types of the state, and the theorems that need no more *)

StateTyped == Typed(fs) /\ homeDir \in {Home, Alias} /\ RepoInv(git) /\ origin \in Seq(Commits) \ {<<>>}

\* The file system at the start has its type.
LEMMA InitiallyTyped == Typed(Initially)
<1>1. Link(Home) \in Nodes /\ Dir \in Nodes /\ None \in Nodes
  BY NodesHold, PlacesAssumption
<1>2. File(<<"x">>, "rw") \in Nodes
  <2>1. <<"x">> \in Contents
    BY DEF Contents
  <2>2. QED
    BY <2>1, NodesHold
<1>3. QED
  BY <1>1, <1>2 DEF Typed, Initially

\* The commits of other users are commits.
LEMMA TreesHold ==
  /\ [tree |-> Origin, by |-> "peer"] \in Commits /\ [tree |-> PeerTree, by |-> "peer"] \in Commits
<1>1. Origin \in Trees /\ PeerTree \in Trees
  <2>1. Origin = [n \in Names |-> Origin[n]] /\ PeerTree = [n \in Names |-> PeerTree[n]]
    BY WorkspaceAssumption
  <2>2. \A n \in Names : Origin[n] \in Contents /\ PeerTree[n] \in Contents
    BY DEF Contents
  <2>3. QED
    BY <2>1, <2>2 DEF Trees
<1>2. QED
  BY <1>1 DEF Commits

\* The initial states are typed.
LEMMA InitTyped == Init => StateTyped
<1>1. SUFFICES ASSUME Init PROVE StateTyped
  OBVIOUS
<1>2. PICK c \in Commits : c = [tree |-> Origin, by |-> "peer"]
  BY TreesHold
<1>3. <<c>> \in Seq(Commits) \ {<<>>}
  BY <1>2
<1>4. QED
  BY <1>1, <1>2, <1>3, InitiallyTyped, EmptyTyped DEF Init, StateTyped

\* gitPush leaves a branch at the remote.
LEMMA PushTyped ==
  ASSUME StateTyped, NEW force \in BOOLEAN, NEW reachable \in BOOLEAN,
         origin' = gitPush(fs, homeDir, git, RepoPath, origin, Auth, Scheme, force, reachable, FALSE).origin
  PROVE  origin' \in Seq(Commits) \ {<<>>}
<1>1. PICK l \in BOOLEAN : ~l /\ l = FALSE
  BY Zenon
<1>2. PICK p : p = gitPush(fs, homeDir, git, RepoPath, origin, Auth, Scheme, force, reachable, l)
  OBVIOUS
<1>3. origin' = p.origin
  BY <1>1, <1>2, Zenon
<1>4. PICK a : a = Unsent(fs, homeDir, git, RepoPath, Auth, Scheme, reachable)
  OBVIOUS
<1>5. /\ a # <<>> => p.code # "ok" /\ p.origin = origin
      /\ a = <<>> /\ git.commits \in {<<>>, origin} => p = [code |-> "ok", origin |-> origin]
      /\ a = <<>> /\ git.commits \notin {<<>>, origin} /\ MayUpdate(origin, git.commits, force) =>
           p = [code |-> IF l THEN "Internal" ELSE "ok", origin |-> git.commits]
      /\ a = <<>> /\ git.commits \notin {<<>>, origin} /\ ~MayUpdate(origin, git.commits, force) =>
           p = [code |-> "Internal", origin |-> origin]
  BY <1>2, <1>4, PushDoes
<1>6. p.origin = origin \/ (p.origin = git.commits /\ git.commits # <<>>)
  BY <1>5
<1>7. QED
  BY <1>3, <1>6 DEF StateTyped, RepoInv

\* What a commit leaves of the repository.
LEMMA CommitLeaves ==
  ASSUME StateTyped, NEW files \in CommitCalls, NEW call \in {{}, {"name"}, Fields}, GitCommit(files, call)
  PROVE  RepoAfter(fs, homeDir, git, RepoPath, git')
<1>1. Len(files) \in Nat
  BY WorkspaceAssumption
<1>2. PICK message : HasMessage(message) /\ message = TRUE
  BY Zenon DEF HasMessage, Check
<1>3. RepoAfter(fs, homeDir, git, RepoPath, gitCommit(fs, homeDir, git, RepoPath, message, files, call).git)
  BY <1>1, <1>2, CommittedTyped DEF StateTyped
<1>4. git' = gitCommit(fs, homeDir, git, RepoPath, message, files, call).git
  BY <1>2, Zenon DEF GitCommit
<1>5. QED
  BY <1>3, <1>4, Zenon

\* Every step leaves a typed state.
LEMMA StepTyped == StateTyped /\ [Next]_vars => StateTyped'
<1>1. SUFFICES ASSUME StateTyped, [Next]_vars PROVE StateTyped'
  OBVIOUS
<1> USE DEF StateTyped
<1>2. ASSUME NEW w \in Writes, WriteFile(w) PROVE StateTyped'
  <2>1. PICK v : v = ValidatePath(fs, homeDir, w.req)
    OBVIOUS
  <2>2. PICK g : g = fs' /\ g = writeFile(fs, homeDir, w.req, w.data, w.mode, w.full).fs
    BY <1>2 DEF WriteFile
  <2>3. w.data \in Data /\ w.mode \in {"unset", "rw", "ro"}
    BY WorkspaceAssumption
  <2>4. g = fs \/ Wrote(fs, v, g)
    BY <1>1, <2>1, <2>2, <2>3, WriteIs
  <2>5. Typed(g)
    BY <1>1, <2>4, WroteTyped
  <2>6. QED
    BY <1>1, <1>2, <2>2, <2>5 DEF WriteFile
<1>3. ASSUME NEW req \in Deletes, NEW recursive \in BOOLEAN, DeleteFile(req, recursive) PROVE StateTyped'
  <2>1. PICK v, l : v = ValidatePath(fs, homeDir, req) /\ l = Lstat(fs, v.path)
    OBVIOUS
  <2>2. PICK g : g = fs' /\ g = deleteFile(fs, homeDir, req, recursive).fs
    BY <1>3 DEF DeleteFile
  <2>3. g = fs \/ g = RemoveAll(fs, l.path)
    BY <2>1, <2>2, DeleteIs
  <2>4. Typed(RemoveAll(fs, l.path))
    BY <1>1, NodesHold DEF Typed, RemoveAll
  <2>5. Typed(g)
    BY <1>1, <2>3, <2>4
  <2>6. RepoInv(git')
    BY <1>1, <1>3, EmptyTyped DEF DeleteFile
  <2>7. QED
    BY <1>1, <1>3, <2>2, <2>5, <2>6 DEF DeleteFile
<1>4. ASSUME NEW files \in CommitCalls, NEW call \in {{}, {"name"}, Fields}, GitCommit(files, call) PROVE StateTyped'
  <2>1. RepoInv(git')
    BY <1>1, <1>4, CommitLeaves DEF RepoAfter
  <2>2. QED
    BY <1>1, <1>4, <2>1 DEF GitCommit
<1>5. ASSUME NEW reachable \in BOOLEAN, GitClone(reachable) PROVE StateTyped'
  <2>1. PICK c : /\ c = gitClone(fs, homeDir, git, RepoPath, origin, Auth, Scheme, reachable)
                 /\ fs' = c.fs /\ git' = c.git
    BY <1>5 DEF GitClone
  <2>2. PICK v, p : v = ValidatePath(fs, homeDir, RepoPath) /\ p = IF v.err = "none" THEN v.path ELSE Clean(homeDir \o RepoPath.segs)
    OBVIOUS
  <2>3. (c.fs = fs /\ c.git = git) \/ Cloned(fs, git, p, origin, c.fs, c.git)
    BY <2>1, <2>2, CloneIs
  <2>4. PICK f2, g2 : f2 = c.fs /\ g2 = c.git
    OBVIOUS
  <2>5. Typed(f2) /\ RepoInv(g2)
    BY <1>1, <2>3, <2>4, ClonedTyped
  <2>6. QED
    BY <1>1, <1>5, <2>1, <2>4, <2>5 DEF GitClone
<1>6. ASSUME NEW force \in BOOLEAN, NEW reachable \in BOOLEAN, GitPush(force, reachable) PROVE StateTyped'
  <2>1. origin' \in Seq(Commits) \ {<<>>}
    BY <1>1, <1>6, PushTyped DEF GitPush
  <2>2. QED
    BY <1>1, <1>6, <2>1 DEF GitPush
<1>7. ASSUME NEW to \in Targets, BashLink(to) PROVE StateTyped'
  <2>1. Link(to) \in Nodes
    BY WorkspaceAssumption, PlacesAssumption, NodesHold
  <2>2. QED
    BY <1>1, <1>7, <2>1 DEF BashLink, Typed
<1>8. ASSUME BashGitInit PROVE StateTyped'
  BY <1>1, <1>8, NodesHold, EmptyTyped DEF BashGitInit, Typed
<1>9. ASSUME PeerPushes PROVE StateTyped'
  <2>1. PICK c \in Commits : c = [tree |-> PeerTree, by |-> "peer"]
    BY TreesHold
  <2>2. origin' = Append(origin, c)
    BY <1>9, <2>1 DEF PeerPushes
  <2>3. Append(origin, c) \in Seq(Commits) \ {<<>>}
    BY <1>1, <2>1
  <2>4. QED
    BY <1>1, <1>9, <2>2, <2>3 DEF PeerPushes
<1>10. ASSUME UNCHANGED vars PROVE StateTyped'
  BY <1>1, <1>10 DEF vars
<1>11. QED
  BY <1>1, <1>2, <1>3, <1>4, <1>5, <1>6, <1>7, <1>8, <1>9, <1>10 DEF Next

\* In a typed state every commit that fails can be repeated.
LEMMA CommitsRetry ==
  ASSUME StateTyped
  PROVE  CommitRetries
<1>1. SUFFICES ASSUME NEW files \in CommitCalls, NEW call \in {{}, {"name"}, Fields},
                      NEW known \in {git, [git EXCEPT !.local = Fields]}
               PROVE  LET commit(g, by) == gitCommit(fs, homeDir, g, RepoPath, TRUE, files, by)
                          tree == [n \in Names |-> IF n \in Range(files) THEN WorkTree(fs)[n] ELSE git.index[n]]
                          onlyIndexed == \E n \in Range(files) \cap Names :
                            git.index[n] # NoFile /\ WorkTree(fs)[n] = NoFile /\ HeadTree(git)[n] = NoFile
                      IN \A c \in {commit(known, call)} :
                         IF c.code = "ok"
                         THEN Last(c.git.commits).tree = tree /\ Front(c.git.commits) = git.commits
                         ELSE /\ c.git.commits = git.commits
                              /\ \A n \in Names : c.git.index[n] \in {git.index[n], tree[n]}
                              /\ onlyIndexed \/ commit(c.git, Fields) = commit(known, Fields)
  BY Zenon DEF CommitRetries
<1>2. RepoInv(known) /\ known.index = git.index /\ known.commits = git.commits
  BY DEF StateTyped, RepoInv
<1>3. HeadTree(known) = HeadTree(git)
  BY <1>2 DEF HeadTree
<1>4. Len(files) \in Nat /\ Range(files) = UpToRound(files, Len(files))
  <2>1. files \in Seq(Seq(Segment))
    BY WorkspaceAssumption
  <2>2. DOMAIN files = 1..Len(files) /\ Len(files) \in Nat
    BY <2>1, LenProperties
  <2>3. QED
    BY <2>2 DEF Range, UpToRound
<1>5. \A n \in Names : WorkTree(fs)[n] \in Contents \cup {NoFile}
  BY WorkTreeTyped DEF StateTyped, Trees
<1>6. PICK message : HasMessage(message) /\ message = TRUE
  BY Zenon DEF HasMessage, Check
<1>7. Retriable(fs, homeDir, known, RepoPath, message, files, call)
  BY <1>2, <1>4, <1>5, <1>6, RetriesOf
<1>8. QED
  <2>1. Retriable(fs, homeDir, known, RepoPath, TRUE, files, call)
    BY <1>6, <1>7, Zenon
  <2>2. PICK R : R = Range(files) /\ R = UpToRound(files, Len(files))
    BY <1>4
  <2>3. PICK i, h, cs : i = git.index /\ i = known.index /\ h = HeadTree(git) /\ h = HeadTree(known)
                        /\ cs = git.commits /\ cs = known.commits
    BY <1>2, <1>3
  <2>4. LET commit(r, by) == gitCommit(fs, homeDir, r, RepoPath, TRUE, files, by)
            tree == [n \in Names |-> IF n \in R THEN WorkTree(fs)[n] ELSE i[n]]
            onlyIndexed == \E n \in R \cap Names : i[n] # NoFile /\ WorkTree(fs)[n] = NoFile /\ h[n] = NoFile
        IN \A c \in {commit(known, call)} :
           IF c.code = "ok"
           THEN Last(c.git.commits).tree = tree /\ Front(c.git.commits) = cs
           ELSE /\ c.git.commits = cs
                /\ \A n \in Names : c.git.index[n] \in {i[n], tree[n]}
                /\ onlyIndexed \/ commit(c.git, Fields) = commit(known, Fields)
    <3>1. R = UpToRound(files, Len(files)) /\ i = known.index /\ h = HeadTree(known) /\ cs = known.commits
      BY <2>2, <2>3
    <3>2. QED
      BY <2>1, <3>1, Zenon DEF Retriable
  <2>5. R = Range(files) /\ i = git.index /\ h = HeadTree(git) /\ cs = git.commits
    BY <2>2, <2>3
  <2>6. QED
    BY <2>4, <2>5, Zenon

\* Every reachable state has its type: the file system holds objects at its places, the
\* repository and the remote hold commits of trees, whatever calls of the handlers led there.
THEOREM AlwaysTyped == Spec => []StateTyped
  BY InitTyped, StepTyped, PTL DEF Spec

\* A push that succeeds left our branch at the remote, one without force loses nothing there,
\* and one whose answer was lost can be repeated (gitPush).
THEOREM PushesAreSafe == Spec => []PushSafe
<1>1. StateTyped => PushSafe
  BY PushesSafely DEF StateTyped
<1>2. QED
  BY <1>1, AlwaysTyped, PTL

\* gitCommit commits what was asked for, or leaves the branch alone and the index so that the
\* same call gives the same commit once an author is known.
THEOREM CommitsCanBeRetried == Spec => []CommitRetries
<1>1. StateTyped => CommitRetries
  BY CommitsRetry
<1>2. QED
  BY <1>1, AlwaysTyped, PTL

\* The staged and the unstaged diff of gitDiff lead from HEAD to the index to the work tree, and
\* gitStatus names every file on which these differ.
THEOREM DiffsAlways == Spec => []DiffsCompose
  BY DiffsAlwaysCompose, PTL

-----------------------------------------
(* The invariant *)

\* The parts of the invariant.
LEMMA InvParts ==
  ASSUME WorkspaceInv
  PROVE  StateTyped /\ FsInv(fs) /\ (fs[DotGit].t = "none" => git = EmptyRepo) /\ (homeDir = Home => fs[Home].t = "dir")
  BY DEF WorkspaceInv, StateTyped, FsInv, Typed, TreeOK

\* What the invariant asks of a file system, a repository and the configured home directory.
Holds(f, g, home) ==
  FsInv(f) /\ (f[DotGit].t = "none" => g = EmptyRepo) /\ (home = Home => f[Home].t = "dir")

\* The parts make the invariant.
LEMMA InvFrom ==
  ASSUME StateTyped, Holds(fs, git, homeDir)
  PROVE  WorkspaceInv
<1>1. \A p \in Places : fs[p].t \in {"none", "dir", "file", "link"}
  BY AtIs, NodeIs DEF StateTyped
<1>2. Tree(fs)
  BY DEF Holds, FsInv
<1>3. TreeOK
  BY <1>1, <1>2 DEF TreeOK, Tree, Holds
<1>4. QED
  BY <1>3 DEF WorkspaceInv, StateTyped, Holds

\* The invariant holds initially.
LEMMA InitHolds == Init => WorkspaceInv
<1>1. SUFFICES ASSUME Init PROVE WorkspaceInv
  OBVIOUS
<1>2. StateTyped
  BY <1>1, InitTyped
<1>3. Tree(Initially) /\ LinksLead(Initially) /\ Initially[Home].t = "dir"
  BY InitiallyTree, NodesHold
<1>4. FsInv(Initially)
  BY <1>3, InitiallyTyped DEF FsInv, Typed
<1>5. Holds(fs, git, homeDir)
  BY <1>1, <1>3, <1>4 DEF Init, Holds
<1>6. QED
  BY <1>2, <1>5, InvFrom

\* writeFile keeps the invariant.
LEMMA WriteHolds ==
  ASSUME WorkspaceInv, NEW w \in Writes, WriteFile(w)
  PROVE  Holds(fs', git', homeDir') /\ Respects(fs, fs')
<1>1. /\ StateTyped /\ FsInv(fs) /\ (fs[DotGit].t = "none" => git = EmptyRepo) /\ (homeDir = Home => fs[Home].t = "dir")
      /\ homeDir \in {Home, Alias} /\ Typed(fs)
  BY InvParts DEF StateTyped
<1>2. PICK v : v = ValidatePath(fs, homeDir, w.req)
  OBVIOUS
<1>3. PICK g : g = fs' /\ g = writeFile(fs, homeDir, w.req, w.data, w.mode, w.full).fs
  BY DEF WriteFile
<1>4. w.data \in Data /\ w.mode \in {"unset", "rw", "ro"} /\ IsRequest(w.req)
  BY WorkspaceAssumption
<1>5. g = fs \/ (Accepted(w.req, v) /\ Wrote(fs, v, g))
  BY <1>1, <1>2, <1>3, <1>4, WriteIs
<1>6. git' = git /\ homeDir' = homeDir
  BY DEF WriteFile
<1>7. CASE g = fs
  BY <1>1, <1>3, <1>6, <1>7 DEF Holds, Respects
<1>8. CASE Accepted(w.req, v) /\ Wrote(fs, v, g)
  <2>1. v.err \notin {"traversal", "other"}
    BY <1>8 DEF Accepted
  <2>2. fs[Home].t = "dir" /\ (Real(fs, v.path) \/ Behind(fs, v.path))
    BY <1>1, <1>2, <1>4, <2>1, Validated
  <2>3. FsInv(g) /\ Respects(fs, g) /\ g[Home].t = "dir" /\ (fs[DotGit].t # "none" => g[DotGit].t # "none")
    BY <1>1, <1>8, <2>2, WriteKeeps
  <2>4. QED
    BY <1>1, <1>3, <1>6, <2>3 DEF Holds
<1>9. QED
  BY <1>5, <1>7, <1>8

\* deleteFile keeps the invariant: the home directory goes only when it was configured by its alias.
LEMMA DeleteHolds ==
  ASSUME WorkspaceInv, NEW req \in Deletes, NEW recursive \in BOOLEAN, DeleteFile(req, recursive)
  PROVE  Holds(fs', git', homeDir') /\ Respects(fs, fs')
<1>1. /\ StateTyped /\ FsInv(fs) /\ (homeDir = Home => fs[Home].t = "dir")
      /\ homeDir \in {Home, Alias} /\ Typed(fs) /\ IsRequest(req)
  BY InvParts, WorkspaceAssumption DEF StateTyped
<1>2. PICK v, l : v = ValidatePath(fs, homeDir, req) /\ l = Lstat(fs, v.path)
  OBVIOUS
<1>3. PICK g : g = fs' /\ g = deleteFile(fs, homeDir, req, recursive).fs
  BY DEF DeleteFile
<1>4. g = fs \/ (Accepted(req, v) /\ v.path # homeDir /\ l.err = "none" /\ g = RemoveAll(fs, l.path))
  BY <1>2, <1>3, DeleteIs
<1>5. git' = (IF g[DotGit].t = "dir" THEN git ELSE EmptyRepo) /\ homeDir' = homeDir
  BY <1>3 DEF DeleteFile
<1>6. g[DotGit].t = "none" => git' = EmptyRepo
  BY <1>5
<1>7. FsInv(g) /\ Respects(fs, g) /\ (homeDir = Home => g[Home].t = "dir")
  <2>1. CASE g = fs
    BY <1>1, <2>1 DEF Respects
  <2>2. CASE Accepted(req, v) /\ v.path # homeDir /\ l.err = "none" /\ g = RemoveAll(fs, l.path)
    <3>1. v.err \notin {"traversal", "other"}
      BY <2>2 DEF Accepted
    <3>2. Real(fs, v.path) \/ Behind(fs, v.path)
      BY <1>1, <1>2, <3>1, Validated
    <3>3. l.path \in Seq(Segment) /\ IsPrefix(Home, l.path) /\ (IsPrefix(l.path, Home) => v.path = Home)
      BY <1>1, <1>2, <2>2, <3>2, DeletesBelow
    <3>4. FsInv(g)
      BY <1>1, <2>2, <3>3, RemoveKeeps
    <3>5. homeDir = Home => g[Home].t = "dir"
      BY <1>1, <2>2, <3>3, Lie DEF RemoveAll
    <3>6. Respects(fs, g)
      <4>1. ASSUME NEW q \in Places, ~IsPrefix(Home, q) PROVE g[q] = fs[q]
        <5>1. ~IsPrefix(l.path, q)
          BY <3>3, <4>1, Lie, PlacesAssumption, PrefixTrans
        <5>2. QED
          BY <2>2, <5>1 DEF RemoveAll
      <4>2. QED
        BY <4>1 DEF Respects
    <3>7. QED
      BY <3>4, <3>5, <3>6
  <2>3. QED
    BY <1>4, <2>1, <2>2
<1>8. QED
  BY <1>3, <1>5, <1>6, <1>7 DEF Holds

\* gitClone keeps the invariant, also when it fails half way.
LEMMA CloneHolds ==
  ASSUME WorkspaceInv, NEW reachable \in BOOLEAN, GitClone(reachable)
  PROVE  Holds(fs', git', homeDir') /\ Respects(fs, fs')
<1>1. /\ StateTyped /\ FsInv(fs) /\ (fs[DotGit].t = "none" => git = EmptyRepo) /\ (homeDir = Home => fs[Home].t = "dir")
      /\ homeDir \in {Home, Alias} /\ origin \in Seq(Commits)
  BY InvParts DEF StateTyped
<1>2. PICK c : /\ c = gitClone(fs, homeDir, git, RepoPath, origin, Auth, Scheme, reachable)
               /\ fs' = c.fs /\ git' = c.git
  BY DEF GitClone
<1>3. homeDir' = homeDir
  BY DEF GitClone
<1>4. PICK v, p : v = ValidatePath(fs, homeDir, RepoPath) /\ p = IF v.err = "none" THEN v.path ELSE Clean(homeDir \o RepoPath.segs)
  OBVIOUS
<1>5. (c.fs = fs /\ c.git = git) \/ (v.err # "traversal" /\ Cloned(fs, git, p, origin, c.fs, c.git))
  BY <1>2, <1>4, CloneIs
<1>6. CASE c.fs = fs /\ c.git = git
  BY <1>1, <1>2, <1>3, <1>6 DEF Holds, Respects
<1>7. CASE v.err # "traversal" /\ Cloned(fs, git, p, origin, c.fs, c.git)
  <2>1. p \in {Repo, homeDir \o RepoPath.segs}
    BY <1>1, <1>4, <1>7, ClonesAt
  <2>2. PICK f2, g2 : f2 = c.fs /\ g2 = c.git /\ Cloned(fs, git, p, origin, f2, g2)
    BY <1>7
  <2>3. Kept(fs, git, f2, g2)
    BY <1>1, <2>1, <2>2, ClonedKeeps
  <2>4. QED
    BY <1>1, <1>2, <1>3, <2>2, <2>3 DEF Holds, Kept, Stays, Respects
<1>8. QED
  BY <1>5, <1>6, <1>7

\* The commands that make a link or a repository keep the invariant.
LEMMA BashHolds ==
  ASSUME WorkspaceInv, (\E to \in Targets : BashLink(to)) \/ BashGitInit
  PROVE  Holds(fs', git', homeDir') /\ Respects(fs, fs')
<1>1. /\ FsInv(fs) /\ (fs[DotGit].t = "none" => git = EmptyRepo) /\ (homeDir = Home => fs[Home].t = "dir") /\ Typed(fs)
  BY InvParts DEF StateTyped
<1>2. ASSUME NEW to \in Targets, BashLink(to) PROVE Holds(fs', git', homeDir') /\ Respects(fs, fs')
  <2>1. PICK new : new = Link(to) /\ new \in Nodes /\ new.t = "link" /\ new.to = to
    <3>1. to \in Seq(Segment)
      BY WorkspaceAssumption, PlacesAssumption
    <3>2. Link(to) \in Nodes
      BY <3>1, NodesHold
    <3>3. Link(to).t = "link" /\ Link(to).to = to
      BY DEF Link
    <3>4. QED
      BY <3>2, <3>3, Zenon
  <2>2. /\ LinkPlace \in Places /\ IsPrefix(Home, LinkPlace) /\ LinkPlace # Home /\ LinkPlace # DotGit
    BY WorkspaceAssumption DEF Below
  <2>3. MayHold(fs, LinkPlace, new)
    BY <1>2, <2>1, <2>2 DEF MayHold, BashLink
  <2>4. FsInv(fs')
    BY <1>1, <1>2, <2>1, <2>3, PutKeeps DEF BashLink
  <2>5. fs'[Home] = fs[Home] /\ fs'[DotGit] = fs[DotGit]
    BY <1>1, <1>2, <2>2, Lie, RepoLies DEF BashLink, Typed
  <2>6. Respects(fs, fs')
    BY <1>1, <1>2, <2>2 DEF BashLink, Respects, Typed
  <2>7. QED
    BY <1>1, <1>2, <2>4, <2>5, <2>6 DEF BashLink, Holds
<1>3. ASSUME BashGitInit PROVE Holds(fs', git', homeDir') /\ Respects(fs, fs')
  <2>1. /\ DotGit \in Places /\ IsPrefix(Home, DotGit) /\ DotGit # Home /\ Front(DotGit) = Repo
    BY RepoLies
  <2>2. MayHold(fs, DotGit, Dir)
    BY <1>3, <2>1, NodesHold DEF MayHold, BashGitInit
  <2>3. FsInv(fs')
    BY <1>1, <1>3, <2>2, PutKeeps DEF BashGitInit
  <2>4. fs'[Home] = fs[Home]
    BY <1>1, <1>3, <2>1, Lie DEF BashGitInit, Typed
  <2>5. Respects(fs, fs')
    BY <1>1, <1>3, <2>1 DEF BashGitInit, Respects, Typed
  <2>6. QED
    BY <1>1, <1>3, <2>3, <2>4, <2>5 DEF BashGitInit, Holds
<1>4. QED
  BY <1>2, <1>3

\* gitCommit keeps the invariant: it needs a repository.
LEMMA CommitHolds ==
  ASSUME WorkspaceInv, NEW files \in CommitCalls, NEW call \in {{}, {"name"}, Fields}, GitCommit(files, call)
  PROVE  Holds(fs', git', homeDir')
<1>1. /\ StateTyped /\ FsInv(fs) /\ (fs[DotGit].t = "none" => git = EmptyRepo) /\ (homeDir = Home => fs[Home].t = "dir")
  BY InvParts
<1>2. RepoAfter(fs, homeDir, git, RepoPath, git')
  BY <1>1, CommitLeaves
<1>3. ASSUME fs[DotGit].t = "none" PROVE git' = git
  <2>1. PICK v : v = ValidatePath(fs, homeDir, RepoPath)
    OBVIOUS
  <2>2. ~IsRepo(fs, v.path)
    BY <1>3, NodesHold DEF IsRepo, At
  <2>3. FirstOf(OpenChecks(fs, v)) # "ok"
    BY <2>2, OpenChecksAre
  <2>4. QED
    BY <1>2, <2>1, <2>3 DEF RepoAfter
<1>4. QED
  BY <1>1, <1>3 DEF GitCommit, Holds

\* Every step keeps the invariant.
LEMMA StepHolds == WorkspaceInv /\ [Next]_vars => WorkspaceInv'
<1>1. SUFFICES ASSUME WorkspaceInv, [Next]_vars PROVE WorkspaceInv'
  OBVIOUS
<1>2. StateTyped'
  BY <1>1, InvParts, StepTyped
<1>3. Holds(fs, git, homeDir)
  BY <1>1, InvParts DEF Holds
<1>4. Holds(fs', git', homeDir')
  <2>1. ASSUME UNCHANGED <<fs, git, homeDir>> PROVE Holds(fs', git', homeDir')
    BY <1>3, <2>1
  <2>2. CASE \E force, reachable \in BOOLEAN : GitPush(force, reachable)
    BY <2>1, <2>2 DEF GitPush
  <2>3. CASE PeerPushes
    BY <2>1, <2>3 DEF PeerPushes
  <2>4. CASE UNCHANGED vars
    BY <2>1, <2>4 DEF vars
  <2>5. QED
    BY <1>1, <2>2, <2>3, <2>4, WriteHolds, DeleteHolds, CommitHolds, CloneHolds, BashHolds DEF Next
<1>5. (StateTyped /\ Holds(fs, git, homeDir) => WorkspaceInv)'
  BY InvFrom, PTL
<1>6. QED
  BY <1>2, <1>4, <1>5

\* The inductive invariant holds in every reachable state: beside the types and TreeOK, the only
\* links are the alias and the one a command made, and outside the home directory everything that
\* was there is as it was and only files are new.
THEOREM AlwaysHolds == Spec => []WorkspaceInv
  BY InitHolds, StepHolds, PTL DEF Spec

\* The file system stays a tree, a repository has a branch only where its .git is, and a home
\* directory that was configured by its own path is never deleted (writeFile, deleteFile, gitClone).
THEOREM AlwaysATree == Spec => []TreeOK
<1>1. WorkspaceInv => TreeOK
  BY DEF WorkspaceInv
<1>2. QED
  BY <1>1, AlwaysHolds, PTL

\* No step does more outside the home directory than that.
LEMMA StepRespects == WorkspaceInv /\ [Next]_vars => Respects(fs, fs')
<1>1. SUFFICES ASSUME WorkspaceInv, [Next]_vars PROVE Respects(fs, fs')
  OBVIOUS
<1>2. ASSUME fs' = fs PROVE Respects(fs, fs')
  BY <1>2 DEF Respects
<1>3. CASE \E files \in CommitCalls, call \in {{}, {"name"}, Fields} : GitCommit(files, call)
  BY <1>2, <1>3 DEF GitCommit
<1>4. CASE \E force, reachable \in BOOLEAN : GitPush(force, reachable)
  BY <1>2, <1>4 DEF GitPush
<1>5. CASE PeerPushes
  BY <1>2, <1>5 DEF PeerPushes
<1>6. CASE UNCHANGED vars
  BY <1>2, <1>6 DEF vars
<1>7. QED
  BY <1>1, <1>3, <1>4, <1>5, <1>6, WriteHolds, DeleteHolds, CloneHolds, BashHolds DEF Next

\* No call changes or removes anything outside the home directory, whatever links a command has made
\* and whatever path a request names: validatePath and validateNonExistentPath keep every write, removal
\* and clone below it, but for a file that writeFile makes where the link of a command leads to nothing.
THEOREM NothingOutsideChanges == Spec => OutsideUntouched
<1>1. ASSUME WorkspaceInv, [Next]_vars
      PROVE  [\A p \in Places : ~isUnderDir(Home, p) /\ fs'[p] # fs[p] =>
                 fs[p].t = "none" /\ fs'[p].t = "file" /\ fs[LinkPlace] = Link(p)]_vars
  BY <1>1, StepRespects DEF Respects, isUnderDir
<1>2. QED
  BY <1>1, AlwaysHolds, PTL DEF Spec, OutsideUntouched

\* The calls agree on what a path names, whatever links a command has made: what writeFile wrote is read
\* back by the same path (or refused, if a link led the write outside), a write that is refused changes no
\* file, what listFiles and glob name can be read, and what deleteFile took away is not found.
THEOREM CallsAlwaysAgree == Spec => []CallsAgree
<1>1. WorkspaceInv => CallsAgree
  BY WritesAgreeHolds, ListingsAgreeHolds, DeletesAgreeHolds DEF CallsAgree
<1>2. QED
  BY <1>1, AlwaysHolds, PTL

\* grep finds in a text the lines its pattern matches, with the lines around them that are theirs,
\* and in a directory the same lines of the same files whether ripgrep is installed or not, except what
\* it skips, where its parser gives up, and below the directory under a filter (searchFile,
\* parseRipgrepJSON, grepWithGo); readFile shows each of them under the name grep gives.
THEOREM GrepsAlwaysAgree == Spec => []GrepAgrees
<1>1. WorkspaceInv => GrepAgrees
  BY SearchesHold, HitsHold DEF GrepAgrees
<1>2. QED
  BY <1>1, AlwaysHolds, PTL
=============================================================================
