--------------------------- MODULE BrowserManager ---------------------------
(***************************************************************************)
(* The browser of a worker (worker/browser.go and the Browser* handlers of *)
(* worker/service.go).  Every method of BrowserManager runs under bm.mu.   *)
(* A method that talks to a page takes the mutex in one step, waits for    *)
(* the page while the pages go on by themselves, and gives the mutex back  *)
(* in a later step; Start and ListPages, which talk to chromium only, are  *)
(* one step.  The handlers test IsRunning in a critical section of their   *)
(* own and the method repeats the test, with the same answer; the first    *)
(* one is left out, and so is snapshotID, which is only reported.          *)
(*                                                                         *)
(* A document is its accessibility tree, the state of the one element the  *)
(* css and role selectors of a model select, and what the page does: it is *)
(* busy (it loads, runs a script or shows a dialog, covers, disables or    *)
(* moves its elements, or has not settled a promise), or protocol calls to *)
(* it fail at the moment, or neither.  A reference e<n> is the backend     *)
(* node id n, unique within a renderer process only: documents of          *)
(* different processes share ids.                                          *)
(***************************************************************************)
EXTENDS Naturals, Sequences, FiniteSets

CONSTANTS
  Tabs,      \* CDP target ids
  NoTab,
  Layouts,   \* accessibility trees: node -> [parent, backend, ignored], 0: none
  Scripts,   \* the action lists clients send
  Faults     \* what the browser or a page may do wrong

AllFaults == {"launch", "connect", "cdp", "load", "crash"}
ElStates == {"absent", "hidden", "visible"}
Moments == {"idle", "busy", "failing"}
Docs == [ax : Layouts, el : ElStates, now : Moments]
NoDoc == [ax |-> <<>>, el |-> "absent", now |-> "idle"]
Loading(ax) == [ax |-> ax, el |-> "visible", now |-> "busy"]

IsSeq(s) == s \in Seq({s[i] : i \in DOMAIN s})

ASSUME TabsAssumption == NoTab \notin Tabs
ASSUME FaultsAssumption == Faults \subseteq AllFaults
ASSUME LayoutsAssumption ==
  \A ax \in Layouts : ax # <<>> /\
     \A n \in DOMAIN ax : ax[n].parent \in (DOMAIN ax \cup {0}) /\ ax[n].parent < n
ASSUME ScriptsAssumption ==
  \A script \in Scripts : IsSeq(script) /\
     \A i \in DOMAIN script : script[i].type = "press" => IsSeq(script[i].mods) /\ IsSeq(script[i].keys)

VARIABLES
  browser,     \* bm.browser # nil
  pages,       \* keys of bm.pages
  lastPageID,
  refMap,      \* backend ids of bm.refMap
  call,        \* the method that holds bm.mu and talks to a page, or NoCall
  chromium,    \* external: the launched chromium runs
  dom,         \* external: the document of a live tab, or NoDoc
  refDoc,      \* history: the tab whose present document refMap is of
  given,       \* history: {the refs the client was given}, or {} when none is valid any more
  reply        \* history: the results of the last Act

bmVars == <<browser, pages, lastPageID, refMap>>
vars == <<bmVars, call, chromium, dom, refDoc, given, reply>>

\* What is left to do of an Act (or the Screenshot of an element), the results so
\* far and the keys the completed actions sent.
NoCall == [method |-> "none", page |-> NoTab, todo |-> <<>>, results |-> <<>>, keys |-> <<>>]
\* cut: the keys sent by a press that failed on the way.
NoReply == [results |-> <<>>, keys |-> <<>>, cut |-> <<>>]
Unlocked == call = NoCall
Live(t) == dom[t] # NoDoc
Busy(t) == dom[t].now = "busy"
Failing(t) == t \in Tabs /\ Live(t) /\ dom[t].now = "failing"

Init ==
  /\ browser = FALSE /\ pages = {} /\ lastPageID = NoTab /\ refMap = {}
  /\ call = NoCall /\ reply = NoReply
  /\ chromium = FALSE /\ dom = [t \in Tabs |-> NoDoc]
  /\ refDoc = NoTab /\ given = {}

\* The document of tab t is replaced by d: the snapshot of the old one is stale.
Replace(t, d) ==
  /\ dom' = [dom EXCEPT ![t] = d]
  /\ refDoc' = IF refDoc = t THEN NoTab ELSE refDoc

-----------------------------------------------------------------------------
(* Start and Stop *)

\* Mutant: a chromium that cannot be connected to is left running.
LaunchedLeft == TRUE

\* l.Kill() after a failed Connect.
LaunchedAfterFailure == FALSE

Start ==
  /\ Unlocked
  /\ ~browser
  /\ \/ /\ browser' = TRUE /\ chromium' = TRUE
     \/ /\ "launch" \in Faults
        /\ UNCHANGED <<browser, chromium>>
     \/ /\ "connect" \in Faults
        /\ chromium' = LaunchedAfterFailure
        /\ UNCHANGED browser
  /\ reply' = NoReply
  /\ UNCHANGED <<pages, lastPageID, refMap, call, dom, refDoc, given>>

\* A method takes the mutex and turns to page t.
Begin(method, t, todo) ==
  /\ Unlocked /\ browser
  /\ call' = [NoCall EXCEPT !.method = method, !.page = t, !.todo = todo]
  /\ reply' = NoReply
  /\ UNCHANGED bmVars

\* A method other than Act returns.
Return(method) == call.method = method /\ call' = NoCall /\ UNCHANGED reply

\* Stop closes the pages first, for which it needs them to answer.
Stop == Begin("stop", NoTab, <<>>) /\ UNCHANGED <<chromium, dom, refDoc, given>>

\* Whether closing the pages and browser.Close succeed or not, the launcher kills
\* chromium.
Stopped ==
  /\ Return("stop")
  /\ browser' = FALSE /\ pages' = {} /\ lastPageID' = NoTab /\ refMap' = {}
  /\ chromium' = FALSE /\ dom' = [t \in Tabs |-> NoDoc]
  /\ refDoc' = NoTab /\ given' = {}

-----------------------------------------------------------------------------
(* Pages *)

\* getPage: the page asked for, or the last active one; NoTab when not tracked.
getPage(id) ==
  LET p == IF id = NoTab THEN lastPageID ELSE id
  IN  IF p \in pages THEN p ELSE NoTab

\* Mutant: the references of the page that was left stay in use.
TrackedWithRefs(t) ==
  /\ pages' = pages \cup {t}
  /\ lastPageID' = t
  /\ refDoc' = NoTab /\ given' = {} /\ UNCHANGED refMap

\* The tail of Navigate once the page has loaded.
Tracked(t) ==
  /\ pages' = pages \cup {t}
  /\ lastPageID' = t
  /\ refMap' = {} /\ refDoc' = NoTab /\ given' = {}

\* Navigate(id): in a tracked page, or in a new one when id = NoTab.  Where
\* navigating or creating fails nothing changes.
Navigate(id, t, ax) ==
  /\ Begin("navigate", t, <<>>)
  /\ chromium
  /\ IF id = NoTab THEN ~Live(t) /\ t \notin pages
                   ELSE t = id /\ id \in pages /\ Live(t)
  /\ Replace(t, Loading(ax))
  /\ UNCHANGED <<chromium, given>>

\* WaitLoad returns, without any timeout of its own, when the page has loaded.
Loaded ==
  /\ Return("navigate")
  /\ Live(call.page) /\ ~Busy(call.page)
  /\ Tracked(call.page)
  /\ UNCHANGED <<browser, chromium, dom>>

\* lastPageID after page t was removed.
LastPageAfter(t) ==
  IF lastPageID # t THEN lastPageID' = lastPageID
  ELSE IF pages = {t} THEN lastPageID' = NoTab
  ELSE \E p \in pages \ {t} : lastPageID' = p

ClosePage(t) ==
  /\ t \in pages
  /\ Begin("close", t, <<>>)
  /\ UNCHANGED <<chromium, dom, refDoc, given>>

PageClosed ==
  LET t == call.page IN
  /\ Return("close")
  /\ Live(t)
  /\ Replace(t, NoDoc)
  /\ pages' = pages \ {t}
  /\ LastPageAfter(t)
  /\ UNCHANGED <<browser, refMap, chromium, given>>

\* Page.Info is a question to chromium: nothing changes.
ListPages ==
  /\ Unlocked /\ browser
  /\ reply' = NoReply
  /\ UNCHANGED <<bmVars, call, chromium, dom, refDoc, given>>

\* A screenshot of the viewport or of the full page.
PageScreenshot(id) ==
  /\ getPage(id) # NoTab
  /\ Begin("screenshot", getPage(id), <<>>)
  /\ UNCHANGED <<chromium, dom, refDoc, given>>

-----------------------------------------------------------------------------
(* Snapshots *)

Kept(ax) == {n \in DOMAIN ax : ~ax[n].ignored}

\* The references buildAccessibilityTree enters in refMap.
NodeRefs(ax) == {ax[n].backend : n \in Kept(ax)} \ {0}

\* The tree it returns: from a root that is not ignored, along kept nodes only.
\* (Parents come first, so a set closed under them contains the paths to a root.)
InTree(ax) ==
  UNION {S \in SUBSET Kept(ax) : \A n \in S : ax[n].parent \in S \cup {0}}
TreeRefs(ax) == {ax[n].backend : n \in InTree(ax)} \ {0}

Snapshot(id) ==
  /\ getPage(id) # NoTab
  /\ Begin("snapshot", getPage(id), <<>>)
  /\ UNCHANGED <<chromium, dom, refDoc, given>>

\* The accessibility tree was fetched: the refMap is replaced.
SnapshotTaken ==
  LET t == call.page IN
  /\ Return("snapshot")
  /\ Live(t)
  /\ refMap' = NodeRefs(dom[t].ax)
  /\ refDoc' = t /\ given' = {TreeRefs(dom[t].ax)}
  /\ UNCHANGED <<browser, pages, lastPageID, chromium, dom>>

\* A screenshot was taken, or the page is gone and the method fails: a page that
\* did not load is not tracked, one that could not be closed still is, and the
\* references are those of the last snapshot that succeeded.
NothingDone ==
  /\ UNCHANGED <<bmVars, chromium, dom, refDoc, given>>
  /\ \/ Return("screenshot") /\ call.todo = <<>>
     \/ \E m \in {"navigate", "close", "snapshot"} : Return(m) /\ ~Live(call.page)

-----------------------------------------------------------------------------
(* Elements *)

\* A reference is looked up in refMap and then in the page's document, whichever
\* page the snapshot was of.
resolveRef(t, n) == n \in refMap /\ Live(t) /\ n \in NodeRefs(dom[t].ax)

\* One query of the page, with no waiting.
findByRole(t) == Live(t) /\ dom[t].el # "absent"

\* findElement; css stands for xpath and text too, which search until the element
\* is there, with no timeout.
Found(t, sel) == IF sel.by = "ref" THEN resolveRef(t, sel.node) ELSE findByRole(t)
Searching(t, sel) == sel.by = "css" /\ Live(t) /\ dom[t].el = "absent"

ElementTypes == {"click", "fill", "type", "select_option", "check", "uncheck", "hover", "focus"}
ActionTypes == ElementTypes \cup {"press", "scroll", "evaluate", "wait_for_selector"}

\* rod waits, with no timeout, until an element can take input: it is shown, not
\* covered, enabled and still.
Ready(t, sel) == ~Busy(t) /\ (sel.by # "ref" => dom[t].el = "visible")

\* requireSelector fails, or executeAction does not know the type.
Malformed(a) ==
  \/ a.type \in ElementTypes \cup {"wait_for_selector"} /\ a.sel.by = "none"
  \/ a.type \notin ActionTypes \cup {"screenshot"}

mapKeyName(k) == k # "unknown"
mapModifierToKey(m) == m # "unspecified"

\* The modifiers that have a key, in their order.
KnownModifiers(mods) ==
  LET known == {i \in DOMAIN mods : mapModifierToKey(mods[i])}
      nth(n) == CHOOSE i \in known : Cardinality({j \in known : j <= i}) = n
  IN  [n \in 1..Cardinality(known) |-> mods[nth(n)]]

Pressed(known) == [i \in DOMAIN known |-> <<"press", known[i]>>]

\* The key actions of actionPress: the modifiers are pressed, every part of the
\* combination is typed, the modifiers are released in reverse.
KeyActions(mods, keys) ==
  LET known == KnownModifiers(mods)
  IN  Pressed(known) \o [i \in DOMAIN keys |-> <<"type", keys[i]>>] \o
      [i \in DOMAIN known |-> <<"release", known[Len(known) + 1 - i]>>]

-----------------------------------------------------------------------------
(* Act *)

Act(id, script) ==
  /\ getPage(id) # NoTab
  /\ script # <<>>
  /\ Begin("act", getPage(id), script)
  /\ UNCHANGED <<chromium, dom, refDoc, given>>

\* The results so far when the current action ended with r: after an error the
\* remaining actions are marked as skipped.
ResultsWith(r) ==
  call.results \o <<r>> \o
  (IF r = "ok" THEN <<>> ELSE [i \in 1..(Len(call.todo) - 1) |-> "skipped"])

\* The current action ended with r, having sent keys, or having failed after cut.
Ends(r, keys, cut) ==
  LET results == ResultsWith(r)
      rest == IF Len(results) = Len(call.results) + Len(call.todo) THEN <<>>
                                                                    ELSE Tail(call.todo)
  IN /\ IF rest = <<>>
        THEN /\ call' = NoCall
             /\ reply' = [results |-> results, keys |-> call.keys \o keys, cut |-> cut]
        ELSE /\ call' = [method |-> call.method, page |-> call.page, todo |-> rest,
                         results |-> results, keys |-> call.keys \o keys]
             /\ UNCHANGED reply
     /\ UNCHANGED <<bmVars, chromium, dom, refDoc, given>>
Done(r, keys) == Ends(r, keys, <<>>)

Current(type) == call.todo # <<>> /\ Head(call.todo).type = type
Waiting == Current("wait_for_selector") /\ ~Malformed(Head(call.todo))

\* An action of one of the types on the element it selects.  There is no step
\* while it searches for the element or waits until it is ready.
OnElement(types) ==
  LET a == Head(call.todo) IN
  /\ call.todo # <<>> /\ a.type \in types /\ a.sel.by # "none"
  /\ \/ ~Found(call.page, a.sel) /\ ~Searching(call.page, a.sel) /\ Done("error", <<>>)
     \/ Found(call.page, a.sel) /\ Ready(call.page, a.sel) /\ Done("ok", <<>>)

UnknownOrNoSelector ==
  call.todo # <<>> /\ Malformed(Head(call.todo)) /\ Done("error", <<>>)
PointerAndText == OnElement({"click", "fill", "type"})
FormAndHover == OnElement({"select_option", "check", "uncheck", "hover"})
Focus == OnElement({"focus"})
ScrollTo == OnElement({"scroll"})

\* check and uncheck read the element's state and click when it is not as wanted.
CheckedAsWanted ==
  /\ Current("check") \/ Current("uncheck")
  /\ Found(call.page, Head(call.todo).sel)
  /\ Done("ok", <<>>)

\* The clip of an element that is found; a hidden one has none.
ElementScreenshot ==
  /\ Current("screenshot")
  /\ ~Searching(call.page, Head(call.todo).sel)
  /\ \/ Done("error", <<>>)
     \/ Found(call.page, Head(call.todo).sel) /\ Done("ok", <<>>)

ScrollBy ==
  /\ Current("scroll") /\ Head(call.todo).sel.by = "none"
  /\ Done(IF Live(call.page) THEN "ok" ELSE "error", <<>>)

KeysKnown(a) == a.keys # <<>> /\ \A i \in DOMAIN a.keys : mapKeyName(a.keys[i])

\* ka.Do sends one key action after the other and stops at the first that fails.
KeysCut(a) ==
  LET keys == KeyActions(a.mods, a.keys)
  IN  \E n \in 0..Len(keys) : Ends("error", <<>>, SubSeq(keys, 1, n))

\* Mutant: the keys are sent while the combination is parsed.
PressAtOnce ==
  LET a == Head(call.todo) IN
  /\ Current("press")
  /\ \/ KeysKnown(a) /\ Live(call.page) /\ Done("ok", KeyActions(a.mods, a.keys))
     \/ ~KeysKnown(a) /\ Done("error", Pressed(KnownModifiers(a.mods)))

\* An unknown key is found before any key is sent.
Press ==
  LET a == Head(call.todo) IN
  /\ Current("press")
  /\ \/ KeysKnown(a) /\ Live(call.page) /\ Done("ok", KeyActions(a.mods, a.keys))
     \/ KeysKnown(a) /\ ~Live(call.page) /\ KeysCut(a)
     \/ ~KeysKnown(a) /\ Done("error", <<>>)

\* page.Eval awaits what the expression returns when that is a promise.
Evaluate ==
  LET js == Head(call.todo).js IN
  /\ Current("evaluate")
  /\ \/ (js = "none" \/ ~Live(call.page)) /\ Done("error", <<>>)
     \/ js = "value" /\ Live(call.page) /\ Done("ok", <<>>)
     \/ js = "promise" /\ Live(call.page) /\ ~Busy(call.page) /\ Done("ok", <<>>)

\* Mutant: an element that is not visible counts as detached.
NotVisible(t, sel) == ~Found(t, sel) \/ dom[t].el = "hidden"

\* The poll of a wait for "detached" that finds no element.
Detached(t, sel) == ~Found(t, sel)
Hidden(t, sel) == ~Found(t, sel) \/ dom[t].el = "hidden"

\* The element is in the state waited for.  "visible" waits for the element to be
\* in the document only.  The polls for "hidden" and "detached" call findElement,
\* which searches for an absent element instead of reporting it.  A state the
\* switch does not know is waited for by nothing.
Reached(t, a) ==
  CASE a.state = "hidden"   -> ~Searching(t, a.sel) /\ Hidden(t, a.sel)
    [] a.state = "detached" -> ~Searching(t, a.sel) /\ Detached(t, a.sel)
    [] a.state \in {"attached", "visible"} -> Found(t, a.sel)
    [] OTHER -> TRUE

\* Mutant: a poll looks at its deadline only when the page answers with an element.
DeadlineIfPresent(t, a) == ~Live(t) \/ dom[t].el # "absent"

\* The timeout is looked at by a search with its own timeout and between polls.
TimeoutSeen(t, a) ==
  IF a.state \in {"hidden", "detached"} THEN ~Searching(t, a.sel) ELSE TRUE

WaitReached ==
  /\ Waiting
  /\ Reached(call.page, Head(call.todo))
  /\ Done("ok", <<>>)

\* The timeout, a cancelled context, or (for a ref or a dead page) an error at once.
WaitEnds ==
  /\ Waiting
  /\ ~Reached(call.page, Head(call.todo)) /\ TimeoutSeen(call.page, Head(call.todo))
  /\ Done("error", <<>>)

\* A protocol call to the page fails: nothing else comes of the method.  A poll
\* for "hidden" or "detached" takes the failed lookup for an element that is gone.
CallFails ==
  LET a == Head(call.todo) IN
  /\ Failing(call.page)
  /\ \/ /\ \E m \in {"screenshot", "close", "snapshot"} : Return(m)
        /\ call.todo = <<>>
        /\ UNCHANGED <<bmVars, chromium, dom, refDoc, given>>
     \/ /\ call.todo # <<>> /\ ~Malformed(a)
        /\ CASE a.type = "press" -> KeysKnown(a) /\ KeysCut(a)
             [] a.type = "wait_for_selector" ->
                  Done(IF a.state \in {"hidden", "detached"} THEN "ok" ELSE "error", <<>>)
             [] OTHER -> Done("error", <<>>)

\* WaitLoad fails: the document was replaced, but nothing is recorded.
LoadFails ==
  /\ "load" \in Faults
  /\ Return("navigate")
  /\ UNCHANGED <<bmVars, chromium, dom, refDoc, given>>

ActStep ==
  \/ UnknownOrNoSelector \/ PointerAndText \/ FormAndHover \/ Focus \/ ElementScreenshot
  \/ ScrollTo \/ ScrollBy \/ Press \/ Evaluate \/ WaitReached \/ WaitEnds
CallStep == ActStep \/ Stopped \/ Loaded \/ PageClosed \/ SnapshotTaken \/ NothingDone

\* Screenshot of an element: like an action, for the time the search takes.
Screenshot(id, sel) ==
  /\ getPage(id) # NoTab
  /\ Begin("screenshot", getPage(id), << [type |-> "screenshot", sel |-> sel] >>)
  /\ UNCHANGED <<chromium, dom, refDoc, given>>

-----------------------------------------------------------------------------
(* The pages and chromium, on their own *)

\* An element appears, hides or goes.
ElementChanges(t, s) ==
  /\ Live(t) /\ s # dom[t].el
  /\ dom' = [dom EXCEPT ![t].el = s]
  /\ UNCHANGED <<bmVars, call, chromium, refDoc, given, reply>>

\* A page gets busy or is done; protocol calls to it fail for a while.
PageTurns(t, moment) ==
  /\ Live(t) /\ moment # dom[t].now
  /\ moment = "failing" => "cdp" \in Faults
  /\ dom' = [dom EXCEPT ![t].now = moment]
  /\ UNCHANGED <<bmVars, call, chromium, refDoc, given, reply>>

\* A script, a link that was clicked or a form replaces the document.
PageNavigates(t, ax) ==
  /\ Live(t)
  /\ Replace(t, Loading(ax))
  /\ UNCHANGED <<bmVars, call, chromium, given, reply>>

PageGoes(t) ==
  /\ "crash" \in Faults /\ Live(t)
  /\ Replace(t, NoDoc)
  /\ UNCHANGED <<bmVars, call, chromium, given, reply>>

ChromiumCrashes ==
  /\ "crash" \in Faults /\ chromium
  /\ chromium' = FALSE /\ dom' = [t \in Tabs |-> NoDoc] /\ refDoc' = NoTab
  /\ UNCHANGED <<bmVars, call, given, reply>>

-----------------------------------------------------------------------------
AllRefs == UNION {NodeRefs(ax) : ax \in Layouts}
Selectors == {[by |-> "css"], [by |-> "role"]} \cup
             {[by |-> "ref", node |-> n] : n \in AllRefs}

Next ==
  \/ Start \/ Stop \/ ListPages
  \/ \E id \in Tabs \cup {NoTab}, t \in Tabs, ax \in Layouts : Navigate(id, t, ax)
  \/ \E t \in Tabs : ClosePage(t) \/ PageGoes(t)
  \/ \E id \in Tabs \cup {NoTab} :
        \/ Snapshot(id) \/ PageScreenshot(id)
        \/ \E script \in Scripts : Act(id, script)
        \/ \E sel \in Selectors : Screenshot(id, sel)
  \/ CallStep \/ CheckedAsWanted \/ CallFails \/ LoadFails
  \/ \E t \in Tabs, s \in ElStates : ElementChanges(t, s)
  \/ \E t \in Tabs, moment \in Moments : PageTurns(t, moment)
  \/ \E t \in Tabs, ax \in Layouts : PageNavigates(t, ax)
  \/ ChromiumCrashes

Spec == Init /\ [][Next]_vars

\* rod's search under the timeout of the wait.
TimedSearch(a) == Waiting /\ a.sel.by = "css" /\ a.state \notin {"hidden", "detached"}

\* A method waits, with no timeout, for what a page that is there withholds: its
\* answer while it is busy, an element that is not there, or one that cannot take
\* the input.
Stuck ==
  /\ ~Unlocked
  /\ IF call.method = "stop" THEN \E t \in pages : Live(t) /\ Busy(t)
     ELSE /\ Live(call.page)
          /\ IF call.todo = <<>> THEN Busy(call.page)
             ELSE LET a == Head(call.todo) IN
                  /\ ~TimedSearch(a)
                  /\ \/ Busy(call.page) \/ Searching(call.page, a.sel)
                     \/ /\ a.type \in ElementTypes \cup {"scroll"} /\ a.sel.by # "none"
                        /\ ~Ready(call.page, a.sel)

\* A running goroutine and a timer go on, and a page answers when it withholds
\* nothing; nothing else is sure.
FairSpec == Spec /\ WF_vars(CallStep /\ ~Stuck)

-----------------------------------------------------------------------------
(* Properties *)

\* The method that holds the mutex has a browser and, but for Stop and a Navigate
\* that may create it, a page that is tracked; an Act has something left to do.
CallOK ==
  \/ Unlocked
  \/ /\ browser
     /\ call.method \in {"navigate", "stop", "close", "snapshot", "screenshot", "act"}
     /\ call.method = "navigate" => call.page \in Tabs
     /\ call.method \in {"close", "snapshot", "screenshot", "act"} => call.page \in pages
     /\ IF call.method = "act" THEN call.todo # <<>>
                               ELSE call.todo = <<>> \/ call.method = "screenshot"

TypeOK ==
  /\ browser \in BOOLEAN /\ chromium \in BOOLEAN
  /\ pages \subseteq Tabs /\ lastPageID \in Tabs \cup {NoTab}
  /\ refDoc \in Tabs \cup {NoTab}
  /\ dom \in [Tabs -> Docs \cup {NoDoc}]
  /\ refMap \subseteq AllRefs /\ given \subseteq SUBSET AllRefs
  /\ CallOK

\* The default page (lastPageID) is a tracked page whenever there is one, after
\* any order of Navigate, ClosePage, Stop and failures of them.
LastPageUsable == IF pages = {} THEN lastPageID = NoTab ELSE lastPageID \in pages

\* A manager that is not started holds no page or reference and leaves neither a
\* chromium nor a tab behind, also when Connect failed, when WaitLoad failed and
\* left a tab untracked, or when chromium crashed before Stop.
NoStrayChromium ==
  ~browser => /\ ~chromium /\ \A t \in Tabs : ~Live(t)
              /\ pages = {} /\ lastPageID = NoTab /\ refMap = {}

\* What the manager keeps of its browser and pages is sound after every call.
BrowserInv == TypeOK /\ LastPageUsable /\ NoStrayChromium

\* refMap holds the references of the last snapshot or none: either all that the
\* client was given by it are there, or a Navigate or Stop since then removed every
\* one.  While the document is the one of the snapshot, refMap holds nodes of it only.
RefsOfLastSnapshot ==
  refMap # {} =>
    /\ given # {} /\ \A refs \in given : refs \subseteq refMap
    /\ refDoc # NoTab => refMap \subseteq NodeRefs(dom[refDoc].ax)

\* Act reports one result per action: some successes, at most one error, and
\* everything after it skipped.
StopOnFirstError ==
  \A i, j \in DOMAIN reply.results :
    i < j => IF reply.results[i] = "ok" THEN reply.results[j] # "skipped" \/
                  \E k \in (i + 1)..(j - 1) : reply.results[k] = "error"
             ELSE reply.results[j] = "skipped"

Released(keys) ==
  \A i \in 1..Len(keys) : keys[i][1] = "press" =>
    \E j \in (i + 1)..Len(keys) : keys[j] = <<"release", keys[i][2]>>

\* Every key pressed by the actions of an Act that ended by themselves, with
\* success or not, is released again.
KeysReleased == Released(reply.keys)

\* A key is left down only where a protocol call failed in the middle of a
\* combination, and then Act reports an error: after a success none is down.
KeysDownTold == ~Released(reply.cut) => \E i \in DOMAIN reply.results : reply.results[i] = "error"

\* Act stops at the first error and tells so, and no key it pressed stays down
\* without an error that tells of it.
ActTruthful == StopOnFirstError /\ KeysReleased /\ KeysDownTold

\* What the Act under way keeps: it goes on only as long as every action
\* succeeded, and what it pressed it has released.
CallInv ==
  /\ IsSeq(call.todo) /\ IsSeq(call.keys) /\ call.results \in Seq({"ok"})
  /\ \A i \in 1..Len(call.todo) : call.todo[i].type = "press" =>
       IsSeq(call.todo[i].mods) /\ IsSeq(call.todo[i].keys)
  /\ Released(call.keys)
  /\ ActTruthful

\* A wait for a css or role selector succeeds on a live page.
WaitTold ==
  LET a == Head(call.todo) IN
  /\ Waiting /\ a.sel.by # "ref" /\ Live(call.page)
  /\ IF call' = NoCall THEN reply'.results # <<>> /\ reply'.results[Len(reply'.results)] = "ok"
                       ELSE Len(call'.results) > Len(call.results)

\* While no protocol call fails, a wait that succeeds does so with the element as
\* it was waited for: in the document for "attached", not in it for "detached", not
\* visible for "hidden".  Of "visible" it is only true that the element is in the
\* document: the code looks for no more.
WaitTruthful ==
  [][WaitTold /\ ~Failing(call.page) =>
       CASE Head(call.todo).state = "detached" -> dom[call.page].el = "absent"
         [] Head(call.todo).state = "hidden" -> dom[call.page].el # "visible"
         [] Head(call.todo).state \in {"attached", "visible"} -> dom[call.page].el # "absent"
         [] OTHER -> TRUE]_vars

\* The mutex is released again by every method, unless it is stuck: waiting
\* without a timeout for what the page withholds.
OnlyPageBlocks == ~Unlocked ~> (Unlocked \/ Stuck)
=============================================================================
