----------------------------- MODULE HttpClient -----------------------------
(***************************************************************************)
(* The HTTP client of worker/http.go: concurrent calls of Do share one     *)
(* cookie jar, which ClearCookies (and a call with clearCookies) replaces. *)
(* A cookie is the call whose response set it; every response sets a       *)
(* cookie of its own name, or none, for one host.                          *)
(*                                                                         *)
(* http.Client reads its Jar field twice per exchange, when it attaches    *)
(* the cookies and when it stores those of the response.  For a call that  *)
(* does not follow redirects the field is hc.client.Jar, read without the  *)
(* lock: it holds the old jar or the new one.                              *)
(***************************************************************************)
EXTENDS FiniteSets, Naturals

CONSTANTS
  Reqs,     \* calls of Do
  Clears,   \* calls of the HttpClearCookies RPC
  Jars,     \* identities of cookie jars; a bound on the number of clears
  MaxHops   \* redirects a call follows (10 in net/http)

ASSUME HopsAssumption == MaxHops \in Nat

VARIABLES
  jar,        \* hc.jar
  clientJar,  \* hc.client.Jar
  used,       \* the jars made so far
  cookies,    \* cookies[j]: contents of jar j
  clear,      \* progress of a HttpClearCookies call
  call,       \* progress of a Do call
  follow,     \* its followRedirects argument
  own,        \* the jar it read under the lock
  hops,       \* redirects followed
  attached,   \* history: cookies sent with its last exchange
  stored,     \* history: calls with a cookie stored in some jar
  since,      \* history: calls that chose their jar after the last clear
  gone,       \* history: calls that had ended when the jar was last replaced
  goneAt      \* history: gone when the call chose its jar

jarVars == <<jar, clientJar, used>>
vars == <<jarVars, cookies, clear, call, follow, own, hops, attached, stored,
          since, gone, goneAt>>

Ended == {"rejected", "failed", "returned"}
EndedCalls == {r \in Reqs : call[r] \in Ended}

Init ==
  /\ jar \in Jars /\ clientJar = jar /\ used = {jar}
  /\ cookies = [j \in Jars |-> {}]
  /\ clear = [k \in Clears |-> "idle"]
  /\ call = [r \in Reqs |-> "idle"]
  /\ follow = [r \in Reqs |-> FALSE]
  /\ own = [r \in Reqs |-> jar]
  /\ hops = [r \in Reqs |-> 0]
  /\ attached = [r \in Reqs |-> {}]
  /\ stored = {} /\ since = {} /\ gone = {}
  /\ goneAt = [r \in Reqs |-> {}]

-----------------------------------------------------------------------------
(* ClearCookies *)

\* Mutants: hc.client keeps its jar; the jar of a new session is not empty.
ClientJarKept(j) == clientJar
ContentsCopied(j) == cookies[jar]

NewClientJar(j) == j
FreshContents(j) == {}

\* Under mu, both fields get the new jar.
ClearCookies ==
  \E j \in Jars \ used :
    /\ jar' = j /\ clientJar' = NewClientJar(j) /\ used' = used \cup {j}
    /\ cookies' = [cookies EXCEPT ![j] = FreshContents(j)]
    /\ since' = {} /\ gone' = EndedCalls

HttpClearCookies(k) ==
  /\ clear[k] = "idle"
  /\ clear' = [clear EXCEPT ![k] = "returned"]
  /\ ClearCookies
  /\ UNCHANGED <<call, follow, own, hops, attached, stored, goneAt>>

-----------------------------------------------------------------------------
(* Do *)

\* Invalid method or URL: the jar is not touched.
Reject(r) ==
  /\ call[r] = "idle"
  /\ call' = [call EXCEPT ![r] = "rejected"]
  /\ UNCHANGED <<jarVars, cookies, clear, follow, own, hops, attached, stored,
                 since, gone, goneAt>>

\* The call is accepted, with clearCookies c and followRedirects f.
Accept(r, c, f) ==
  /\ call[r] = "idle"
  /\ call' = [call EXCEPT ![r] = "accepted"]
  /\ follow' = [follow EXCEPT ![r] = f]
  /\ IF c THEN ClearCookies ELSE UNCHANGED <<jarVars, cookies, since, gone>>
  /\ UNCHANGED <<clear, own, hops, attached, stored, goneAt>>

\* http.NewRequestWithContext, the exchange (refused, timed out, cancelled) or
\* reading the body fails.
Fail(r) ==
  /\ call[r] \in {"accepted", "sent", "read"}
  /\ call' = [call EXCEPT ![r] = "failed"]
  /\ UNCHANGED <<jarVars, cookies, clear, follow, own, hops, attached, stored,
                 since, gone, goneAt>>

\* hc.jar is read under mu.
ChooseJar(r) ==
  /\ call[r] = "accepted"
  /\ call' = [call EXCEPT ![r] = "chosen"]
  /\ own' = [own EXCEPT ![r] = jar]
  /\ since' = since \cup {r}
  /\ goneAt' = [goneAt EXCEPT ![r] = gone]
  /\ UNCHANGED <<jarVars, cookies, clear, follow, hops, attached, stored, gone>>

\* Mutant: calls that follow redirects use the shared client as well.
SharedJar(r) == clientJar

\* The Jar field of the client that call r uses, at the time it is read.
JarOf(r) == IF follow[r] THEN own[r] ELSE clientJar

\* http.Client attaches the cookies of its jar and sends the request.
Attach(r) ==
  /\ call[r] = "chosen"
  /\ call' = [call EXCEPT ![r] = "sent"]
  /\ attached' = [attached EXCEPT ![r] = cookies[JarOf(r)]]
  /\ UNCHANGED <<jarVars, cookies, clear, follow, own, hops, stored, since, gone, goneAt>>

\* The redirect policy of the client in use.
MayFollow(r) == follow[r] /\ hops[r] < MaxHops

\* The response arrives; its cookie, if it has one (c), is stored.  A redirect
\* is followed by a call that asked for it, the next exchange being a new one
\* with the same client; otherwise the response is the result.
Respond(r, c, redirect) ==
  /\ call[r] = "sent"
  /\ redirect => MayFollow(r)
  /\ call' = [call EXCEPT ![r] = IF redirect THEN "chosen" ELSE "read"]
  /\ hops' = [hops EXCEPT ![r] = IF redirect THEN @ + 1 ELSE @]
  /\ IF c
     THEN /\ cookies' = [cookies EXCEPT ![JarOf(r)] = @ \cup {r}]
          /\ stored' = stored \cup {r}
     ELSE UNCHANGED <<cookies, stored>>
  /\ UNCHANGED <<jarVars, clear, follow, own, attached, since, gone, goneAt>>

\* The body is read and the result returned.
Return(r) ==
  /\ call[r] = "read"
  /\ call' = [call EXCEPT ![r] = "returned"]
  /\ UNCHANGED <<jarVars, cookies, clear, follow, own, hops, attached, stored,
                 since, gone, goneAt>>

-----------------------------------------------------------------------------

Terminated == EndedCalls = Reqs /\ UNCHANGED vars

DoNext(r) ==
  \/ Reject(r)
  \/ \E c, f \in BOOLEAN : Accept(r, c, f)
  \/ Fail(r)
  \/ ChooseJar(r)
  \/ Attach(r)
  \/ \E c, redirect \in BOOLEAN : Respond(r, c, redirect)
  \/ Return(r)

Next ==
  \/ \E r \in Reqs : DoNext(r)
  \/ \E k \in Clears : HttpClearCookies(k)
  \/ Terminated

Spec == Init /\ [][Next]_vars

-----------------------------------------------------------------------------
(* Properties *)

\* Every variable has a value of its kind; jars not made yet are empty.
TypeOK ==
  /\ jar \in used /\ clientJar \in used /\ used \subseteq Jars
  /\ cookies \in [Jars -> SUBSET Reqs]
  /\ clear \in [Clears -> {"idle", "returned"}]
  /\ call \in [Reqs -> {"idle", "accepted", "chosen", "sent", "read"} \cup Ended]
  /\ follow \in [Reqs -> BOOLEAN]
  /\ own \in [Reqs -> used]
  /\ hops \in [Reqs -> 0..MaxHops]
  /\ attached \in [Reqs -> SUBSET Reqs]
  /\ stored \subseteq Reqs /\ since \subseteq Reqs /\ gone \subseteq Reqs
  /\ goneAt \in [Reqs -> SUBSET Reqs]

\* "useful for testing auth flows that require a clean session": a call never
\* sends a cookie of a call that had ended when the cookies were last cleared
\* before it chose its jar, whatever is still in flight and however often the
\* jar is replaced meanwhile.
CleanSession ==
  \A r \in Reqs : attached[r] \cap goneAt[r] = {}

\* The inductive invariant behind CleanSession: both fields hold the same jar,
\* the calls that had ended when it was made are not in it, and a call's own
\* jar has no cookie of a call that was gone when it was chosen.
JarInv ==
  /\ TypeOK
  /\ clientJar = jar
  /\ gone \subseteq EndedCalls
  /\ cookies[jar] \cap gone = {}
  /\ \A r \in Reqs :
       /\ goneAt[r] \subseteq gone
       /\ call[r] \in {"idle", "accepted"} => attached[r] = {} /\ goneAt[r] = {}
       /\ cookies[own[r]] \cap goneAt[r] = {}
  /\ CleanSession

\* What the two properties below rest on: the calls that chose the current jar
\* find their cookies in it, and a call that follows redirects finds its own
\* cookie in the jar it chose.
SessionInv ==
  /\ \A r \in since : call[r] \notin {"idle", "accepted"} /\ own[r] = jar
  /\ since \cap stored \subseteq cookies[jar]
  /\ \A r \in Reqs :
       /\ call[r] \in {"idle", "accepted"} => hops[r] = 0 /\ r \notin stored
       /\ hops[r] > 0 => follow[r]
       /\ follow[r] /\ r \in stored => r \in cookies[own[r]]

\* "a persistent cookie jar for session continuity across requests": a call
\* sends the cookies of all calls that have ended, unless the cookies were
\* cleared after the earlier call or this one chose its jar.
SessionContinuity ==
  [][\A r \in since : call[r] = "chosen" /\ call'[r] = "sent" =>
       since \cap stored \cap EndedCalls \subseteq attached'[r]]_vars

\* A cookie set by a redirect is sent to the redirect's target, also when the
\* cookies are cleared between the two exchanges.
RedirectKeepsCookies ==
  [][\A r \in Reqs : call[r] = "chosen" /\ call'[r] = "sent" /\ hops[r] > 0 /\ r \in stored =>
       r \in attached'[r]]_vars
=============================================================================
