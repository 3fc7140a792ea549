-------------------------- MODULE HttpClientProofs --------------------------
(***************************************************************************)
(* Proofs about HttpClient: after the cookies are cleared no call sends a  *)
(* cookie of a session that had ended, for any number of calls and clears. *)
(***************************************************************************)
EXTENDS HttpClient, TLAPS

\* JarInv holds when the client is made.
LEMMA InitJarInv == Init => JarInv
  BY HopsAssumption DEF Init, JarInv, TypeOK, EndedCalls, Ended, CleanSession

\* A fresh jar, put into both fields, keeps what JarInv says of jars and calls.
LEMMA ClearCookiesKeeps ==
  ASSUME JarInv, ClearCookies, call' \in [Reqs -> {"idle", "accepted", "chosen", "sent", "read"} \cup Ended],
         EndedCalls' = EndedCalls,
         \A r \in Reqs : call'[r] \in {"idle", "accepted"} => call[r] \in {"idle", "accepted"},
         clear' \in [Clears -> {"idle", "returned"}], follow' \in [Reqs -> BOOLEAN],
         UNCHANGED <<own, hops, attached, stored, goneAt>>
  PROVE  JarInv'
<1>1. PICK j \in Jars \ used :
        /\ jar' = j /\ clientJar' = j /\ used' = used \cup {j}
        /\ cookies' = [cookies EXCEPT ![j] = {}]
        /\ since' = {} /\ gone' = EndedCalls
  BY DEF ClearCookies, NewClientJar, FreshContents
<1>2. TypeOK'
  BY <1>1 DEF JarInv, TypeOK, EndedCalls
<1>3. \A r \in Reqs : cookies'[own[r]] = cookies[own[r]]
  BY <1>1 DEF JarInv, TypeOK
<1>4. cookies'[jar'] = {}
  BY <1>1 DEF JarInv, TypeOK
<1>5. QED
  BY <1>1, <1>2, <1>3, <1>4 DEF JarInv, CleanSession

\* JarInv is kept by the HttpClearCookies RPC.
LEMMA HttpClearCookiesKeeps ==
  ASSUME JarInv, NEW k \in Clears, HttpClearCookies(k)
  PROVE  JarInv'
  BY ClearCookiesKeeps DEF HttpClearCookies, JarInv, TypeOK, EndedCalls

\* JarInv is kept when Do returns without having touched a jar.
LEMMA EndKeeps ==
  ASSUME JarInv, NEW r \in Reqs, Reject(r) \/ Fail(r) \/ Return(r)
  PROVE  JarInv'
<1>1. TypeOK'
  BY DEF JarInv, TypeOK, Reject, Fail, Return, jarVars, Ended
<1>2. EndedCalls \subseteq EndedCalls'
  BY DEF JarInv, TypeOK, Reject, Fail, Return, EndedCalls, Ended
<1>3. QED
  BY <1>1, <1>2 DEF JarInv, TypeOK, Reject, Fail, Return, jarVars, Ended, CleanSession

\* JarInv is kept when Do accepts a call, with or without clearing.
LEMMA AcceptKeeps ==
  ASSUME JarInv, NEW r \in Reqs, NEW c \in BOOLEAN, NEW f \in BOOLEAN, Accept(r, c, f)
  PROVE  JarInv'
<1>1. /\ EndedCalls' = EndedCalls
      /\ \A x \in Reqs : call'[x] \in {"idle", "accepted"} => call[x] \in {"idle", "accepted"}
      /\ call' \in [Reqs -> {"idle", "accepted", "chosen", "sent", "read"} \cup Ended]
      /\ follow' \in [Reqs -> BOOLEAN]
  BY DEF JarInv, TypeOK, Accept, EndedCalls, Ended
<1>2. CASE c
  BY <1>1, <1>2, ClearCookiesKeeps DEF Accept, JarInv, TypeOK
<1>3. CASE ~c
  BY <1>1, <1>3 DEF Accept, JarInv, TypeOK, jarVars, CleanSession
<1>4. QED
  BY <1>2, <1>3

\* JarInv is kept when Do reads hc.jar.
LEMMA ChooseJarKeeps ==
  ASSUME JarInv, NEW r \in Reqs, ChooseJar(r)
  PROVE  JarInv'
<1>1. TypeOK' /\ EndedCalls' = EndedCalls
  BY DEF JarInv, TypeOK, ChooseJar, jarVars, EndedCalls, Ended
<1>2. QED
  BY <1>1 DEF JarInv, TypeOK, ChooseJar, jarVars, CleanSession

\* JarInv is kept when the cookies are attached, from either jar.
LEMMA AttachKeeps ==
  ASSUME JarInv, NEW r \in Reqs, Attach(r)
  PROVE  JarInv'
<1>1. JarOf(r) \in used /\ cookies[JarOf(r)] \cap goneAt[r] = {}
  BY DEF JarInv, TypeOK, JarOf
<1>2. TypeOK' /\ EndedCalls' = EndedCalls
  BY <1>1 DEF JarInv, TypeOK, Attach, jarVars, EndedCalls, Ended
<1>3. QED
  BY <1>1, <1>2 DEF JarInv, TypeOK, Attach, jarVars, CleanSession

\* JarInv is kept when a response's cookie is stored: the call has not ended,
\* so it is not among those that are gone.
LEMMA RespondKeeps ==
  ASSUME JarInv, NEW r \in Reqs, NEW c \in BOOLEAN, NEW redirect \in BOOLEAN,
         Respond(r, c, redirect)
  PROVE  JarInv'
<1>1. r \notin gone /\ \A x \in Reqs : r \notin goneAt[x]
  BY DEF JarInv, Respond, EndedCalls, Ended
<1>2. JarOf(r) \in Jars
  BY DEF JarInv, TypeOK, JarOf
<1>3. \A j \in Jars : cookies'[j] \subseteq cookies[j] \cup {r}
  BY <1>2 DEF JarInv, TypeOK, Respond
<1>4. cookies' \in [Jars -> SUBSET Reqs] /\ stored' \subseteq Reqs
  BY <1>2 DEF JarInv, TypeOK, Respond
<1>5. hops' \in [Reqs -> 0..MaxHops]
  BY HopsAssumption DEF JarInv, TypeOK, Respond, MayFollow
<1>6. TypeOK' /\ EndedCalls' = EndedCalls
  BY <1>4, <1>5 DEF JarInv, TypeOK, Respond, jarVars, EndedCalls, Ended
<1>7. jar \in Jars /\ \A x \in Reqs : own[x] \in Jars
  BY DEF JarInv, TypeOK
<1>8. QED
  BY <1>1, <1>3, <1>6, <1>7 DEF JarInv, TypeOK, Respond, jarVars, CleanSession

\* JarInv is kept by a step that changes nothing.
LEMMA JarStutterKeeps == JarInv /\ UNCHANGED vars => JarInv'
  BY DEF vars, jarVars, JarInv, TypeOK, EndedCalls, CleanSession

\* Every step keeps JarInv.
LEMMA StepKeepsJarInv == JarInv /\ [Next]_vars => JarInv'
<1> SUFFICES ASSUME JarInv, [Next]_vars PROVE JarInv'
  OBVIOUS
<1>1. ASSUME NEW r \in Reqs, DoNext(r) PROVE JarInv'
  BY <1>1, EndKeeps, AcceptKeeps, ChooseJarKeeps, AttachKeeps, RespondKeeps DEF DoNext
<1>2. ASSUME NEW k \in Clears, HttpClearCookies(k) PROVE JarInv'
  BY <1>2, HttpClearCookiesKeeps
<1>3. CASE Terminated \/ UNCHANGED vars
  BY <1>3, JarStutterKeeps DEF Terminated
<1>4. QED
  BY <1>1, <1>2, <1>3 DEF Next

\* The jars and the calls always agree in the way JarInv says.
THEOREM JarInvariant == Spec => []JarInv
<1>1. QED
  BY InitJarInv, StepKeepsJarInv, PTL DEF Spec

\* No call sends a cookie of a call that had ended when the cookies were last
\* cleared before it chose its jar.
THEOREM AlwaysCleanSession == Spec => []CleanSession
<1>1. JarInv => CleanSession
  BY DEF JarInv
<1>2. QED
  BY <1>1, JarInvariant, PTL

-----------------------------------------------------------------------------
(* Continuity of a session and of a chain of redirects *)

\* SessionInv holds when the client is made.
LEMMA InitSessionInv == Init => SessionInv
  BY DEF Init, SessionInv

\* A fresh jar starts a session without calls and leaves the older jars alone.
LEMMA ClearCookiesSession ==
  ASSUME JarInv, SessionInv, ClearCookies, UNCHANGED <<own, hops, stored>>
  PROVE  /\ since' = {}
         /\ \A r \in Reqs : follow[r] /\ r \in stored => r \in cookies'[own[r]]
<1>1. PICK j \in Jars \ used :
        cookies' = [cookies EXCEPT ![j] = {}] /\ since' = {}
  BY DEF ClearCookies, FreshContents
<1>2. \A r \in Reqs : cookies'[own[r]] = cookies[own[r]]
  BY <1>1 DEF JarInv, TypeOK
<1>3. QED
  BY <1>1, <1>2 DEF SessionInv

\* SessionInv is kept by the HttpClearCookies RPC.
LEMMA HttpClearCookiesSession ==
  ASSUME JarInv, SessionInv, NEW k \in Clears, HttpClearCookies(k)
  PROVE  SessionInv'
  BY ClearCookiesSession DEF HttpClearCookies, SessionInv

\* SessionInv is kept when Do accepts a call: it has stored nothing yet.
LEMMA AcceptSession ==
  ASSUME JarInv, SessionInv, NEW r \in Reqs, NEW c \in BOOLEAN, NEW f \in BOOLEAN,
         Accept(r, c, f)
  PROVE  SessionInv'
<1>1. /\ \A x \in Reqs : call'[x] \in {"idle", "accepted"} => hops'[x] = 0 /\ x \notin stored'
      /\ \A x \in Reqs : hops'[x] > 0 => follow'[x]
      /\ \A x \in Reqs : follow'[x] /\ x \in stored' => follow[x]
      /\ r \notin since
      /\ UNCHANGED <<own, hops, stored>>
  BY DEF JarInv, TypeOK, SessionInv, Accept
<1>2. CASE c
  BY <1>1, <1>2, ClearCookiesSession DEF Accept, SessionInv
<1>3. CASE ~c
  BY <1>1, <1>3 DEF Accept, JarInv, TypeOK, SessionInv, jarVars
<1>4. QED
  BY <1>2, <1>3

\* SessionInv is kept by the steps of Do that store nothing.
LEMMA QuietSession ==
  ASSUME JarInv, SessionInv, NEW r \in Reqs,
         Reject(r) \/ Fail(r) \/ ChooseJar(r) \/ Attach(r) \/ Return(r)
  PROVE  SessionInv'
<1>1. CASE Reject(r) \/ Fail(r) \/ Return(r)
  BY <1>1 DEF Reject, Fail, Return, JarInv, TypeOK, SessionInv, jarVars, Ended
<1>2. CASE ChooseJar(r)
  BY <1>2 DEF ChooseJar, JarInv, TypeOK, SessionInv, jarVars
<1>3. CASE Attach(r)
  BY <1>3 DEF Attach, JarInv, TypeOK, SessionInv, jarVars
<1>4. QED
  BY <1>1, <1>2, <1>3

\* SessionInv is kept when a response arrives: a call of the session stores
\* into the session's jar, one that follows redirects into its own.
LEMMA RespondSession ==
  ASSUME JarInv, SessionInv, NEW r \in Reqs, NEW c \in BOOLEAN, NEW redirect \in BOOLEAN,
         Respond(r, c, redirect)
  PROVE  SessionInv'
<1>1. JarOf(r) \in Jars /\ (r \in since => JarOf(r) = jar) /\ (follow[r] => JarOf(r) = own[r])
  BY DEF JarInv, TypeOK, SessionInv, JarOf
<1>2. /\ \A j \in Jars : cookies[j] \subseteq cookies'[j]
      /\ stored' \subseteq stored \cup {r}
      /\ r \in stored' => r \in stored \/ r \in cookies'[JarOf(r)]
  BY <1>1 DEF JarInv, TypeOK, Respond
<1>3. jar \in Jars /\ \A x \in Reqs : own[x] \in Jars
  BY DEF JarInv, TypeOK
<1>4. \A x \in Reqs :
        /\ call'[x] \in {"idle", "accepted"} => x # r /\ call[x] \in {"idle", "accepted"}
        /\ x # r => call'[x] = call[x] /\ hops'[x] = hops[x]
        /\ hops'[x] > 0 => follow[x]
  BY DEF JarInv, TypeOK, SessionInv, Respond, MayFollow
<1>5. since \subseteq Reqs /\ UNCHANGED <<jar, own, follow, since>>
  BY DEF JarInv, TypeOK, Respond, jarVars
<1>6. \A x \in since' : call'[x] \notin {"idle", "accepted"} /\ own'[x] = jar'
  BY <1>4, <1>5 DEF SessionInv
<1>7. since' \cap stored' \subseteq cookies'[jar']
  BY <1>1, <1>2, <1>3, <1>5 DEF SessionInv
<1>8. \A x \in Reqs : follow'[x] /\ x \in stored' => x \in cookies'[own'[x]]
  BY <1>1, <1>2, <1>3, <1>5 DEF SessionInv
<1>9. QED
  BY <1>2, <1>4, <1>5, <1>6, <1>7, <1>8 DEF SessionInv

\* Every step keeps SessionInv.
LEMMA StepKeepsSessionInv == JarInv /\ SessionInv /\ [Next]_vars => SessionInv'
<1> SUFFICES ASSUME JarInv, SessionInv, [Next]_vars PROVE SessionInv'
  OBVIOUS
<1>1. ASSUME NEW r \in Reqs, DoNext(r) PROVE SessionInv'
  BY <1>1, AcceptSession, QuietSession, RespondSession DEF DoNext
<1>2. ASSUME NEW k \in Clears, HttpClearCookies(k) PROVE SessionInv'
  BY <1>2, HttpClearCookiesSession
<1>3. CASE Terminated \/ UNCHANGED vars
  BY <1>3 DEF Terminated, vars, jarVars, SessionInv
<1>4. QED
  BY <1>1, <1>2, <1>3 DEF Next

\* The session and the redirects find their cookies, always.
THEOREM SessionInvariant == Spec => [](JarInv /\ SessionInv)
<1>1. QED
  BY InitJarInv, InitSessionInv, StepKeepsJarInv, StepKeepsSessionInv, PTL DEF Spec

\* Only Attach sends a request.
LEMMA SendingAttaches ==
  ASSUME JarInv, Next, NEW r \in Reqs, call[r] = "chosen", call'[r] = "sent"
  PROVE  Attach(r)
<1>1. ASSUME NEW x \in Reqs, DoNext(x) PROVE Attach(r)
  BY <1>1 DEF DoNext, Reject, Accept, Fail, ChooseJar, Attach, Respond, Return, JarInv, TypeOK, Ended
<1>2. ASSUME NEW k \in Clears, HttpClearCookies(k) PROVE FALSE
  BY <1>2 DEF HttpClearCookies
<1>3. CASE Terminated
  BY <1>3 DEF Terminated, vars
<1>4. QED
  BY <1>1, <1>2, <1>3 DEF Next

\* A call sends the cookies of all earlier calls of its session.
THEOREM SessionsContinue == Spec => SessionContinuity
<1>1. ASSUME JarInv, SessionInv, [Next]_vars
      PROVE  [\A r \in since : call[r] = "chosen" /\ call'[r] = "sent" =>
                since \cap stored \cap EndedCalls \subseteq attached'[r]]_vars
  <2> SUFFICES ASSUME Next, NEW r \in since, call[r] = "chosen", call'[r] = "sent"
               PROVE  since \cap stored \cap EndedCalls \subseteq attached'[r]
    BY <1>1
  <2>1. r \in Reqs /\ Attach(r)
    BY <1>1, SendingAttaches DEF JarInv, TypeOK
  <2>2. JarOf(r) = jar
    BY <1>1, <2>1 DEF JarInv, SessionInv, JarOf
  <2>3. QED
    BY <1>1, <2>1, <2>2 DEF JarInv, TypeOK, SessionInv, Attach
<1>2. QED
  BY <1>1, SessionInvariant, PTL DEF Spec, SessionContinuity

\* A cookie set by a redirect is sent to the redirect's target.
THEOREM RedirectsKeepCookies == Spec => RedirectKeepsCookies
<1>1. ASSUME JarInv, SessionInv, [Next]_vars
      PROVE  [\A r \in Reqs : call[r] = "chosen" /\ call'[r] = "sent" /\ hops[r] > 0 /\ r \in stored =>
                r \in attached'[r]]_vars
  <2> SUFFICES ASSUME Next, NEW r \in Reqs, call[r] = "chosen", call'[r] = "sent",
                      hops[r] > 0, r \in stored
               PROVE  r \in attached'[r]
    BY <1>1
  <2>1. Attach(r)
    BY <1>1, SendingAttaches
  <2>2. JarOf(r) = own[r] /\ r \in cookies[own[r]]
    BY <1>1 DEF SessionInv, JarOf
  <2>3. QED
    BY <1>1, <2>1, <2>2 DEF JarInv, TypeOK, Attach
<1>2. QED
  BY <1>1, SessionInvariant, PTL DEF Spec, RedirectKeepsCookies
=============================================================================
