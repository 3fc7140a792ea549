---------------------------- MODULE ServerProofs ----------------------------
(***************************************************************************)
(* Proofs about Server, for any calls, tools, callers and bound on lines:  *)
(* no handler runs for a caller without the token, what was due at the     *)
(* shutdown and not refused its kill is gone at the exit, and run_bash     *)
(* answers what the command did.                                           *)
(***************************************************************************)
EXTENDS Server, FiniteSetTheorems, TLAPS

-----------------------------------------------------------------------------
(* Steps of one call *)

\* The handler or the caller of c goes on: the call is the same, the others are too.
Goes(c, at, told) ==
  /\ call' \in [Calls -> CallStates]
  /\ \A d \in Calls \ {c} : call'[d] = call[d]
  /\ call'[c].mcp = call[c].mcp /\ call'[c].rpc = call[c].rpc /\ call'[c].header = call[c].header
  /\ call'[c].at = at /\ call'[c].told = told

\* Setting the two fields that change.
LEMMA SettingGoes ==
  ASSUME TypeOK, NEW c \in Calls, NEW at \in Stages, NEW told \in Answers
  PROVE  /\ call' = [call EXCEPT ![c].at = at] => Goes(c, at, call[c].told)
         /\ call' = [call EXCEPT ![c].told = told] => Goes(c, call[c].at, told)
         /\ Answer(c, told) => Goes(c, "over", IF call[c].told = "" THEN told ELSE call[c].told)
<1>1. call \in [Calls -> CallStates] /\ call[c] \in CallStates /\ "over" \in Stages
  BY DEF TypeOK, Stages
<1>2. ASSUME NEW x \in Stages, NEW y \in Answers,
             call' = [call EXCEPT ![c] = [call[c] EXCEPT !.at = x, !.told = y]]
      PROVE  Goes(c, x, y)
  BY <1>1, <1>2 DEF CallStates, Goes
<1>3. call[c].at \in Stages /\ call[c].told \in Answers
  BY <1>1 DEF CallStates
<1>4. ASSUME call' = [call EXCEPT ![c].at = at] PROVE Goes(c, at, call[c].told)
  <2>1. call' = [call EXCEPT ![c] = [call[c] EXCEPT !.at = at, !.told = call[c].told]]
    BY <1>1, <1>4 DEF CallStates
  <2>2. QED
    BY <1>2, <1>3, <2>1
<1>5. ASSUME call' = [call EXCEPT ![c].told = told] PROVE Goes(c, call[c].at, told)
  <2>1. call' = [call EXCEPT ![c] = [call[c] EXCEPT !.at = call[c].at, !.told = told]]
    BY <1>1, <1>5 DEF CallStates
  <2>2. QED
    BY <1>2, <1>3, <2>1
<1>6. ASSUME Answer(c, told)
      PROVE  Goes(c, "over", IF call[c].told = "" THEN told ELSE call[c].told)
  <2>1. call' = [call EXCEPT ![c] =
                  [call[c] EXCEPT !.at = "over", !.told = IF call[c].told = "" THEN told ELSE call[c].told]]
    BY <1>1, <1>6 DEF Answer, Told, CallStates
  <2>2. QED
    BY <1>1, <1>2, <1>3, <2>1
<1>7. QED
  BY <1>4, <1>5, <1>6

\* What holds of a stream that is left alone still does.
LEMMA StreamSame ==
  ASSUME NEW c \in Calls, StreamOf(c), call'[c] = call[c], wire'[c] = wire[c], heard'[c] = heard[c],
         said'[c] = said[c], command'[c] = command[c]
  PROVE  StreamOf(c)'
<1>1. Finished(c)' <=> Finished(c)
  BY DEF Finished, At
<1>2. QED
  BY <1>1 DEF StreamOf, At

\* What holds of a handler that is left alone still does.
LEMMA HandlerSame ==
  ASSUME NEW c \in Calls, HandlerOf(c), call'[c] = call[c],
         c \in alive' => c \in alive, c \in listed' => c \in listed, browser' = c => browser = c,
         wire'[c] = wire[c], heard'[c] = heard[c], said'[c] = said[c], command'[c] = command[c]
  PROVE  HandlerOf(c)'
  BY DEF HandlerOf, At

\* What a unary handler may change: what it starts is its own, what it stops is gone.
UnaryStep(c, at, told) ==
  /\ Goes(c, at, told) /\ told \in {call[c].told, "answered"}
  /\ call[c].at \notin {"idle", "over", "streaming"} /\ call[c].rpc \notin Streams
  /\ at \notin {"idle", "handling", "streaming"}
  /\ at = "spawned" => call[c].rpc = "ProcessStart"
  /\ at \in {"checked", "acting"} => call[c].rpc \in PageCalls
  /\ at = "stuck" => call[c].rpc \in Untimed
  /\ call[c].rpc = "ProcessStart" => at \in {"spawned", "over"}
  /\ alive' \subseteq alive \cup {c} /\ (c \in alive' \ alive => call[c].rpc = "ProcessStart" /\ at = "spawned")
  /\ listed \subseteq listed' /\ listed' \subseteq listed \cup {c}
  /\ c \in listed' \ listed => call[c].rpc = "ProcessStart" /\ at = "over"
  /\ browser' \in {browser, Nobody, c} /\ (browser' = c /\ browser # c => call[c].rpc = "BrowserStart" /\ at = "over")
  /\ mutex' \in Calls \cup {Nobody, Main}
  /\ UNCHANGED <<mainVars, streamVars>>

\* ServerInv is kept by such a step.
LEMMA UnaryKeeps ==
  ASSUME ServerInv, NEW c \in Calls, NEW at, NEW told, UnaryStep(c, at, told)
  PROVE  ServerInv'
<1>0. TypeOK /\ AuthExact /\ ShutdownInv /\ \A d \in Calls : HandlerOf(d) /\ StreamOf(d)
  BY DEF ServerInv
<1>1. Goes(c, at, told) /\ UNCHANGED <<config, listening, phase, stopping, due, wire, heard, said, command>>
  BY DEF UnaryStep, mainVars, streamVars
<1>2. TypeOK'
  BY <1>0, <1>1 DEF UnaryStep, TypeOK, Goes, Starters
<1>3. c \notin listed /\ c # browser /\ c \notin due /\ (c \in alive => at \in {"spawned", "over"})
  BY <1>0 DEF UnaryStep, HandlerOf, ShutdownInv, At
<1>4. ASSUME NEW d \in Calls PROVE HandlerOf(d)'
  <2>1. CASE d # c
    <3>1. /\ call'[d] = call[d] /\ (d \in alive' => d \in alive) /\ (d \in listed' => d \in listed)
          /\ browser' = d => browser = d
      BY <1>1, <2>1, CallsAssumption DEF UnaryStep, Goes
    <3>2. QED
      BY <1>0, <1>1, <3>1, HandlerSame
  <2>2. CASE d = c
    <3>1. c # Nobody /\ browser' = c => call[c].rpc = "BrowserStart" /\ at = "over"
      BY <1>3 DEF UnaryStep
    <3>2. c \in alive' => call[c].rpc = "ProcessStart" /\ at \in {"spawned", "over"}
      BY <1>0, <1>3 DEF UnaryStep, HandlerOf
    <3>3. c \in listed' => call[c].rpc = "ProcessStart" /\ at = "over"
      BY <1>3 DEF UnaryStep
    <3>4. call'[c].at = at /\ call'[c].rpc = call[c].rpc /\ c # Nobody
      BY <1>1, CallsAssumption DEF Goes
    <3>5. HandlerOf(c)'
      BY <3>1, <3>2, <3>3, <3>4 DEF UnaryStep, HandlerOf, At
    <3>6. QED
      BY <2>2, <3>5
  <2>3. QED
    BY <2>1, <2>2
<1>5. AuthExact'
  BY <1>0, <1>1, CallsAssumption, ZenonT(60) DEF UnaryStep, AuthExact, Goes
<1>6. ShutdownInv'
  BY <1>0, <1>1, <1>3, CallsAssumption DEF UnaryStep, ShutdownInv, Goes, At, Earlier, Nobody
<1>7. ASSUME NEW d \in Calls PROVE StreamOf(d)'
  <2>1. CASE d # c
    BY <1>0, <1>1, <2>1, StreamSame DEF Goes
  <2>2. CASE d = c
    BY <1>1, <2>2 DEF UnaryStep, StreamOf, Goes, Streams
  <2>3. QED
    BY <2>1, <2>2
<1>8. QED
  BY <1>2, <1>4, <1>5, <1>6, <1>7 DEF ServerInv

\* Each unary handler takes such steps.
LEMMA UnaryHandlersKeep ==
  ASSUME ServerInv, NEW c \in Calls,
         \/ PlainHandler(c) \/ ProcessStart(c) \/ ProcessStop(c)
         \/ BrowserStart(c) \/ BrowserStop(c) \/ IsRunning(c) \/ PageMethod(c) \/ PageReturns(c)
  PROVE  ServerInv'
<1>0. TypeOK /\ HandlerOf(c)
  BY DEF ServerInv
<1>1. ASSUME Answer(c, "answered")
      PROVE  \E told \in {call[c].told, "answered"} : Goes(c, "over", told)
  BY <1>0, <1>1, SettingGoes DEF Answers, Stages
<1>2. ASSUME NEW at \in Stages, call' = [call EXCEPT ![c].at = at]
      PROVE  \E told \in {call[c].told, "answered"} : Goes(c, at, told)
  BY <1>0, <1>2, SettingGoes DEF Answers
<1>3. Plain \cap Streams = {} /\ PageCalls \cap Streams = {} /\ "ProcessStart" \notin Plain \cup PageCalls \cup Streams
      /\ "ProcessStop" \notin Streams /\ "BrowserStart" \notin Streams /\ "BrowserStop" \notin Streams
  BY DEF Plain, FileCalls, GitCalls, RequestCalls, ProcessQueries, Streams, PageCalls
<1>4. {"handling", "spawned", "checked", "acting", "stuck", "over"} \subseteq Stages /\ mutex \in Calls \cup {Nobody, Main}
  BY <1>0 DEF Stages, TypeOK
<1>5. CASE PlainHandler(c)
  <2>1. PICK told \in {call[c].told, "answered"} : Goes(c, "over", told)
    BY <1>1, <1>5 DEF PlainHandler
  <2>2. UnaryStep(c, "over", told)
    BY <1>3, <1>4, <1>5, <2>1 DEF PlainHandler, UnaryStep, Runs, At, managed
  <2>3. QED
    BY <2>2, UnaryKeeps
<1>6. CASE ProcessStart(c)
  <2>1. CASE Runs(c, {"ProcessStart"}) /\ Answer(c, "answered") /\ UNCHANGED <<alive, listed>>
    <3>1. PICK told \in {call[c].told, "answered"} : Goes(c, "over", told)
      BY <1>1, <2>1
    <3>2. UnaryStep(c, "over", told)
      BY <1>3, <1>4, <1>6, <2>1, <3>1 DEF ProcessStart, UnaryStep, Runs, At
    <3>3. QED
      BY <3>2, UnaryKeeps
  <2>2. CASE /\ Runs(c, {"ProcessStart"}) /\ alive' = alive \cup {c}
             /\ call' = [call EXCEPT ![c].at = "spawned"] /\ UNCHANGED listed
    <3>1. PICK told \in {call[c].told, "answered"} : Goes(c, "spawned", told)
      BY <1>2, <1>4, <2>2
    <3>2. UnaryStep(c, "spawned", told)
      BY <1>3, <1>4, <1>6, <2>2, <3>1 DEF ProcessStart, UnaryStep, Runs, At
    <3>3. QED
      BY <3>2, UnaryKeeps
  <2>3. CASE At(c, "spawned") /\ listed' = listed \cup {c} /\ Answer(c, "answered") /\ UNCHANGED alive
    <3>1. PICK told \in {call[c].told, "answered"} : Goes(c, "over", told)
      BY <1>1, <2>3
    <3>2. UnaryStep(c, "over", told)
      BY <1>0, <1>3, <1>4, <1>6, <2>3, <3>1 DEF ProcessStart, UnaryStep, HandlerOf, At
    <3>3. QED
      BY <3>2, UnaryKeeps
  <2>4. QED
    BY <1>6, <2>1, <2>2, <2>3 DEF ProcessStart
<1>7. CASE ProcessStop(c)
  <2>1. PICK at \in {"over", "stuck"}, told \in {call[c].told, "answered"} : Goes(c, at, told)
    BY <1>1, <1>2, <1>4, <1>7 DEF ProcessStop, Sticks
  <2>2. alive' \subseteq alive
    BY <1>7 DEF ProcessStop
  <2>3. UnaryStep(c, at, told)
    BY <1>3, <1>4, <1>7, <2>1, <2>2 DEF ProcessStop, UnaryStep, Runs, At, Untimed
  <2>4. QED
    BY <2>3, UnaryKeeps
<1>8. CASE BrowserStart(c) \/ BrowserStop(c)
  <2>1. PICK at \in {"over", "stuck"}, told \in {call[c].told, "answered"} :
          Goes(c, at, told) /\ (at = "stuck" => BrowserStop(c) /\ UNCHANGED browser)
    <3>1. Answer(c, "answered") \/ (BrowserStop(c) /\ Sticks(c) /\ UNCHANGED browser)
      BY <1>8 DEF BrowserStart, BrowserStop
    <3>2. CASE Answer(c, "answered")
      BY <1>1, <3>2
    <3>3. CASE BrowserStop(c) /\ Sticks(c) /\ UNCHANGED browser
      BY <1>2, <1>4, <3>3 DEF Sticks
    <3>4. QED
      BY <3>1, <3>2, <3>3
  <2>2. browser' \in {browser, Nobody, c} /\ (browser' = c /\ browser # c => BrowserStart(c))
    BY <1>8, CallsAssumption DEF BrowserStart, BrowserStop
  <2>3. call[c].rpc \in {"BrowserStart", "BrowserStop"} /\ call[c].at = "handling"
        /\ (BrowserStart(c) => call[c].rpc = "BrowserStart") /\ (BrowserStop(c) => call[c].rpc = "BrowserStop")
        /\ mutex' \in {mutex, c} /\ UNCHANGED <<mainVars, streamVars, alive, listed>>
    BY <1>8 DEF BrowserStart, BrowserStop, Runs, At
  <2>4. UnaryStep(c, at, told)
    BY <1>3, <1>4, <2>1, <2>2, <2>3 DEF UnaryStep, Untimed
  <2>5. QED
    BY <2>4, UnaryKeeps
<1>9. CASE IsRunning(c)
  <2>1. PICK at \in {"over", "checked"}, told \in {call[c].told, "answered"} : Goes(c, at, told)
    BY <1>1, <1>2, <1>4, <1>9 DEF IsRunning
  <2>2. UnaryStep(c, at, told)
    BY <1>3, <1>4, <1>9, <2>1 DEF IsRunning, UnaryStep, Runs, At, managed
  <2>3. QED
    BY <2>2, UnaryKeeps
<1>10. CASE PageMethod(c)
  <2>1. PICK at \in {"over", "acting", "stuck"}, told \in {call[c].told, "answered"} :
          Goes(c, at, told) /\ (at = "stuck" => call[c].rpc \in PageWaits)
    <3>1. Answer(c, "answered") \/ call' = [call EXCEPT ![c].at = "acting"] \/ (call[c].rpc \in PageWaits /\ Sticks(c))
      BY <1>10 DEF PageMethod
    <3>2. QED
      BY <1>1, <1>2, <1>4, <3>1 DEF Sticks
  <2>2. mutex' \in Calls \cup {Nobody, Main}
    BY <1>4, <1>10 DEF PageMethod
  <2>3. call[c].rpc \in PageCalls /\ call[c].at = "checked"
    BY <1>0, <1>10 DEF PageMethod, HandlerOf, At
  <2>4. UnaryStep(c, at, told)
    BY <1>3, <1>4, <1>10, <2>1, <2>2, <2>3 DEF PageMethod, UnaryStep, Untimed
  <2>5. QED
    BY <2>4, UnaryKeeps
<1>11. CASE PageReturns(c)
  <2>1. PICK told \in {call[c].told, "answered"} : Goes(c, "over", told)
    BY <1>1, <1>11 DEF PageReturns
  <2>2. mutex' = Nobody /\ call[c].rpc \in PageCalls /\ call[c].at = "acting"
    BY <1>0, <1>11 DEF PageReturns, Unlocked, HandlerOf, At
  <2>3. UnaryStep(c, "over", told)
    BY <1>3, <1>4, <1>11, <2>1, <2>2 DEF PageReturns, UnaryStep
  <2>4. QED
    BY <2>3, UnaryKeeps
<1>12. QED
  BY <1>5, <1>6, <1>7, <1>8, <1>9, <1>10, <1>11

-----------------------------------------------------------------------------
(* Streams *)

\* Receiving a message moves it from the wire to what was heard.
LEMMA Moving ==
  ASSUME NEW S, NEW h \in Seq(S), NEW w \in Seq(S), w # <<>>
  PROVE  /\ Head(w) \in S /\ Tail(w) \in Seq(S)
         /\ Append(h, Head(w)) \o Tail(w) = h \o w
         /\ Len(h) \in Nat /\ Len(h) + 1 \in 1..Len(h \o w) /\ (h \o w)[Len(h) + 1] = Head(w)
  OBVIOUS

\* Sending appends to what is on its way.
LEMMA Sending ==
  ASSUME NEW h \in Seq(Messages), NEW w \in Seq(Messages), NEW a \in Messages, NEW b \in Messages
  PROVE  /\ h \o (w \o <<a>>) = Append(h \o w, a)
         /\ h \o (w \o <<a, b>>) = Append(Append(h \o w, a), b)
<1>1. \A x \in Seq(Messages), e \in Messages : h \o Append(x, e) = Append(h \o x, e)
  OBVIOUS
<1>2. w \o <<a>> = Append(w, a)
  OBVIOUS
<1>3. w \o <<a, b>> = Append(Append(w, a), b)
  OBVIOUS
<1>4. Append(w, a) \in Seq(Messages)
  OBVIOUS
<1>5. QED
  BY <1>1, <1>2, <1>3, <1>4

\* Who hears the end next has heard what was said.
LEMMA EndComes ==
  ASSUME NEW h \in Seq(Messages), NEW w \in Seq(Messages), NEW s \in Seq(Messages),
         w # <<>>, Head(w) = "end", h \o w = Append(s, "end"), \A i \in 1..Len(s) : s[i] # "end"
  PROVE  h = s
<1>1. Len(h) \in Nat /\ Len(s) \in Nat /\ Len(w) \in Nat /\ Len(h) + Len(w) = Len(s) + 1
  <2>1. Len(h \o w) = Len(h) + Len(w) /\ Len(Append(s, "end")) = Len(s) + 1
    OBVIOUS
  <2>2. QED
    BY <2>1
<1>2. Len(h) + 1 \in 1..Len(Append(s, "end")) /\ Append(s, "end")[Len(h) + 1] = "end"
  BY Moving
<1>3. Len(h) = Len(s)
  BY <1>1, <1>2
<1>4. \A i \in 1..Len(h) : h[i] = s[i]
  <2>1. \A i \in 1..Len(h) : (h \o w)[i] = h[i]
    OBVIOUS
  <2>2. \A i \in 1..Len(s) : Append(s, "end")[i] = s[i]
    OBVIOUS
  <2>3. QED
    BY <1>3, <2>1, <2>2
<1>5. QED
  BY <1>3, <1>4

\* What the end of a stream may change, the handler's or the caller's.
StreamStep(c, at, told) ==
  /\ Goes(c, at, told)
  /\ \/ at = call[c].at
     \/ call[c].at \in {"handling", "streaming"} /\ call[c].rpc \in Streams /\ at \in {"streaming", "over"}
  /\ told \in {call[c].told, "ok", "error", "Unavailable"}
  /\ wire' \in [Calls -> Seq(Messages)] /\ heard' \in [Calls -> Seq(Messages)]
  /\ said' \in [Calls -> Seq(Messages)] /\ command' \in [Calls -> {"none", "running", "exited"}]
  /\ \A d \in Calls \ {c} :
       wire'[d] = wire[d] /\ heard'[d] = heard[d] /\ said'[d] = said[d] /\ command'[d] = command[d]
  /\ at \in {"idle", "handling"} => wire'[c] = <<>> /\ heard'[c] = <<>> /\ said'[c] = <<>> /\ command'[c] = "none"
  /\ said'[c] # <<>> => said[c] # <<>> \/ call[c].at = "streaming"
  /\ UNCHANGED <<mainVars, managed>>

\* Such a step keeps ServerInv if it keeps what holds of its stream.
LEMMA StreamKeeps ==
  ASSUME ServerInv, NEW c \in Calls, NEW at, NEW told, StreamStep(c, at, told), StreamOf(c)'
  PROVE  ServerInv'
<1>0. TypeOK /\ AuthExact /\ ShutdownInv /\ \A d \in Calls : HandlerOf(d) /\ StreamOf(d)
  BY DEF ServerInv
<1>1. Goes(c, at, told)
      /\ UNCHANGED <<config, listening, phase, stopping, due, alive, listed, browser, mutex>>
  BY DEF StreamStep, mainVars, managed
<1>2. TypeOK'
  BY <1>0, <1>1 DEF StreamStep, TypeOK, Goes
<1>3. ASSUME NEW d \in Calls PROVE HandlerOf(d)'
  <2>1. CASE d # c
    <3>1. call'[d] = call[d] /\ wire'[d] = wire[d] /\ heard'[d] = heard[d] /\ said'[d] = said[d]
          /\ command'[d] = command[d]
      BY <1>1, <2>1 DEF StreamStep, Goes
    <3>2. QED
      BY <1>0, <1>1, <3>1, HandlerSame
  <2>2. CASE d = c
    <3>1. call'[c].at = at /\ call'[c].rpc = call[c].rpc
      BY <1>1 DEF Goes
    <3>2. {"ProcessStart", "BrowserStart"} \cap Streams = {}
      BY DEF Streams
    <3>3. HandlerOf(c)'
      BY <1>0, <1>1, <3>1, <3>2 DEF StreamStep, HandlerOf, At
    <3>4. QED
      BY <2>2, <3>3
  <2>3. QED
    BY <2>1, <2>2
<1>4. ASSUME NEW d \in Calls
      PROVE  /\ call'[d].mcp = call[d].mcp /\ call'[d].rpc = call[d].rpc /\ call'[d].header = call[d].header
             /\ call'[d].at \in {"idle", "over"} \/ call[d].at \notin {"idle", "over"}
             /\ call[d].at = "over" => call'[d].at = "over"
             /\ call'[d].told = "Unauthenticated" => call[d].told = "Unauthenticated"
             /\ said'[d] # <<>> => said[d] # <<>> \/ call[d].at \notin {"idle", "over"}
  BY <1>1 DEF StreamStep, Goes
<1>5. AuthExact'
  BY <1>0, <1>1, <1>4 DEF AuthExact
<1>6. ShutdownInv'
  BY <1>0, <1>1, <1>4 DEF ShutdownInv, At
<1>7. ASSUME NEW d \in Calls PROVE StreamOf(d)'
  <2>1. CASE d # c
    <3>1. call'[d] = call[d] /\ wire'[d] = wire[d] /\ heard'[d] = heard[d] /\ said'[d] = said[d]
          /\ command'[d] = command[d]
      BY <1>1, <2>1 DEF StreamStep, Goes
    <3>2. QED
      BY <1>0, <3>1, StreamSame
  <2>2. QED
    BY <2>1
<1>8. QED
  BY <1>2, <1>3, <1>5, <1>6, <1>7 DEF ServerInv

\* What a handler sends is on its way if the caller is still there.
LEMMA SendGoes ==
  ASSUME TypeOK, NEW c \in Calls, NEW ms \in Seq(Messages), Send(c, ms)
  PROVE  /\ wire' \in [Calls -> Seq(Messages)] /\ \A d \in Calls \ {c} : wire'[d] = wire[d]
         /\ call[c].told = "" => wire'[c] = wire[c] \o ms
<1>1. wire \in [Calls -> Seq(Messages)] /\ wire[c] \in Seq(Messages) /\ wire[c] \o ms \in Seq(Messages)
  <2>1. wire \in [Calls -> Seq(Messages)] /\ wire[c] \in Seq(Messages)
    BY DEF TypeOK
  <2>2. QED
    BY <2>1
<1>2. PICK w \in Seq(Messages) :
        wire' = [wire EXCEPT ![c] = w] /\ (call[c].told = "" => w = wire[c] \o ms)
  BY <1>1 DEF Send
<1>3. QED
  BY <1>1, <1>2

\* ServerInv is kept when a stream begins or fails at once.
LEMMA StreamBeginsKeeps ==
  ASSUME ServerInv, NEW c \in Calls, StreamBegins(c)
  PROVE  ServerInv'
<1>0. TypeOK /\ HandlerOf(c) /\ StreamOf(c) /\ call[c].at = "handling" /\ call[c].rpc \in Streams
      /\ UNCHANGED <<mainVars, managed, heard, said>>
  BY DEF ServerInv, StreamBegins, Runs, At
<1>1. wire[c] = <<>> /\ heard[c] = <<>> /\ said[c] = <<>> /\ command[c] = "none"
  BY <1>0 DEF HandlerOf
<1>2. call[c].rpc = "RunBash" => call[c].told # "ok"
  BY <1>0 DEF StreamOf, Finished, At
<1>3. heard \in [Calls -> Seq(Messages)] /\ said \in [Calls -> Seq(Messages)] /\ wire \in [Calls -> Seq(Messages)]
      /\ command \in [Calls -> {"none", "running", "exited"}]
  BY <1>0 DEF TypeOK
<1>4. "streaming" \in Stages /\ "over" \in Stages /\ "" \in Answers
  BY DEF Stages, Answers
<1>5. CASE /\ call' = [call EXCEPT ![c].at = "streaming"] /\ UNCHANGED wire
           /\ command' = [command EXCEPT ![c] = IF call[c].rpc = "RunBash" THEN "running" ELSE @]
  <2>1. Goes(c, "streaming", call[c].told)
    BY <1>0, <1>4, <1>5, SettingGoes
  <2>2. /\ command' \in [Calls -> {"none", "running", "exited"}] /\ \A d \in Calls \ {c} : command'[d] = command[d]
        /\ call[c].rpc = "RunBash" => command'[c] = "running"
    BY <1>3, <1>5
  <2>3. StreamStep(c, "streaming", call[c].told)
    BY <1>0, <1>1, <1>3, <1>5, <2>1, <2>2 DEF StreamStep
  <2>4. StreamOf(c)'
    <3>1. call'[c].at = "streaming" /\ call'[c].rpc = call[c].rpc /\ call'[c].told = call[c].told
          /\ wire'[c] = <<>> /\ heard'[c] = <<>> /\ said'[c] = <<>>
      BY <1>0, <1>1, <1>5, <2>1 DEF Goes
    <3>2. QED
      BY <1>2, <2>2, <3>1 DEF StreamOf, At
  <2>5. QED
    BY <2>3, <2>4, StreamKeeps
<1>6. CASE call' = [call EXCEPT ![c].at = "over"] /\ Send(c, <<"err">>) /\ UNCHANGED command
  <2>1. Goes(c, "over", call[c].told)
    BY <1>0, <1>4, <1>6, SettingGoes
  <2>2. /\ wire' \in [Calls -> Seq(Messages)] /\ \A d \in Calls \ {c} : wire'[d] = wire[d]
        /\ call[c].told = "" => wire'[c] = wire[c] \o <<"err">>
    <3>1. <<"err">> \in Seq(Messages)
      BY DEF Messages
    <3>2. QED
      BY <1>0, <1>6, <3>1, SendGoes
  <2>3. StreamStep(c, "over", call[c].told)
    BY <1>0, <1>1, <1>3, <1>6, <2>1, <2>2 DEF StreamStep
  <2>4. StreamOf(c)'
    <3>1. call'[c].at = "over" /\ call'[c].rpc = call[c].rpc /\ call'[c].told = call[c].told
          /\ heard'[c] = <<>>
      BY <1>0, <1>1, <2>1 DEF Goes
    <3>2. <<>> \o <<"err">> = <<"err">>
      OBVIOUS
    <3>3. QED
      BY <1>1, <1>2, <2>2, <3>1, <3>2 DEF StreamOf, At
  <2>5. QED
    BY <2>3, <2>4, StreamKeeps
<1>7. QED
  BY <1>5, <1>6 DEF StreamBegins

\* ServerInv is kept when a command writes a line, which is sent.
LEMMA CommandWritesKeeps ==
  ASSUME ServerInv, NEW c \in Calls, CommandWrites(c)
  PROVE  ServerInv'
<1>0. TypeOK /\ HandlerOf(c) /\ StreamOf(c) /\ call[c].at = "streaming"
      /\ UNCHANGED <<mainVars, managed, call, heard, command>>
  BY DEF ServerInv, CommandWrites, At
<1>1. heard \in [Calls -> Seq(Messages)] /\ said \in [Calls -> Seq(Messages)] /\ wire \in [Calls -> Seq(Messages)]
      /\ command \in [Calls -> {"none", "running", "exited"}] /\ call \in [Calls -> CallStates]
  BY <1>0 DEF TypeOK
<1>2. "line" \in Messages /\ <<"line">> \in Seq(Messages)
  BY DEF Messages
<1>3. /\ wire' \in [Calls -> Seq(Messages)] /\ \A d \in Calls \ {c} : wire'[d] = wire[d]
      /\ call[c].told = "" => wire'[c] = wire[c] \o <<"line">>
  BY <1>0, <1>2, SendGoes DEF CommandWrites
<1>4. /\ said' \in [Calls -> Seq(Messages)] /\ \A d \in Calls \ {c} : said'[d] = said[d]
      /\ said'[c] = Append(said[c], "line")
  BY <1>1, <1>2 DEF CommandWrites
<1>5. StreamStep(c, call[c].at, call[c].told)
  BY <1>0, <1>1, <1>3, <1>4 DEF StreamStep, Goes
<1>6. StreamOf(c)'
  <2>1. SUFFICES ASSUME call[c].rpc = "RunBash"
                 PROVE  StreamOf(c)'
    BY <1>0 DEF StreamOf
  <2>2. command[c] = "running" /\ \A i \in 1..Len(said[c]) : said[c][i] = "line"
    BY <1>0, <2>1 DEF StreamOf, At
  <2>3. call[c].told # "ok"
    BY <1>0, <2>1 DEF StreamOf, Finished, At
  <2>4. \A i \in 1..Len(said'[c]) : said'[c][i] = "line"
    <3>1. PICK s \in Seq(Messages) : s = said[c]
      BY <1>1
    <3>2. \A i \in 1..Len(Append(s, "line")) : Append(s, "line")[i] = "line"
      BY <2>2, <3>1
    <3>3. QED
      BY <1>4, <3>1, <3>2
  <2>5. call[c].told = "" => heard[c] \o wire'[c] = said'[c]
    <3>1. call[c].told = "" => heard[c] \o wire[c] = said[c]
      BY <1>0, <2>1 DEF StreamOf, At
    <3>2. heard[c] \o (wire[c] \o <<"line">>) = Append(heard[c] \o wire[c], "line")
      BY <1>1, <1>2, Sending
    <3>3. QED
      BY <1>3, <1>4, <3>1, <3>2
  <2>6. QED
    BY <1>0, <2>2, <2>3, <2>4, <2>5 DEF StreamOf, At
<1>7. QED
  BY <1>5, <1>6, StreamKeeps

\* ServerInv is kept when RunBash sends the exit code and the end.
LEMMA RunBashReturnsKeeps ==
  ASSUME ServerInv, NEW c \in Calls, RunBashReturns(c)
  PROVE  ServerInv'
<1>0. TypeOK /\ StreamOf(c) /\ call[c].at = "streaming" /\ call[c].rpc = "RunBash"
      /\ UNCHANGED <<mainVars, managed, heard>>
  BY DEF ServerInv, RunBashReturns, At
<1>1. heard \in [Calls -> Seq(Messages)] /\ said \in [Calls -> Seq(Messages)] /\ wire \in [Calls -> Seq(Messages)]
      /\ command \in [Calls -> {"none", "running", "exited"}]
  BY <1>0 DEF TypeOK
<1>2. PICK code \in ExitCodes : said' = [said EXCEPT ![c] = Append(@, code)] /\ Send(c, <<code, "end">>)
  BY DEF RunBashReturns, ExitCodes
<1>3. code \in Messages /\ "end" \in Messages /\ <<code, "end">> \in Seq(Messages)
  BY DEF Messages
<1>4. /\ wire' \in [Calls -> Seq(Messages)] /\ \A d \in Calls \ {c} : wire'[d] = wire[d]
      /\ call[c].told = "" => wire'[c] = wire[c] \o <<code, "end">>
  BY <1>0, <1>2, <1>3, SendGoes
<1>5. /\ said' \in [Calls -> Seq(Messages)] /\ \A d \in Calls \ {c} : said'[d] = said[d]
      /\ said'[c] = Append(said[c], code)
  BY <1>1, <1>2, <1>3
<1>6. /\ command' \in [Calls -> {"none", "running", "exited"}] /\ \A d \in Calls \ {c} : command'[d] = command[d]
      /\ command'[c] = "exited"
  BY <1>1 DEF RunBashReturns
<1>7. Goes(c, "over", call[c].told)
  <2>1. "over" \in Stages /\ "" \in Answers
    BY DEF Stages, Answers
  <2>2. QED
    BY <1>0, <2>1, SettingGoes DEF RunBashReturns
<1>8. StreamStep(c, "over", call[c].told)
  BY <1>0, <1>1, <1>4, <1>5, <1>6, <1>7 DEF StreamStep, Streams
<1>9. StreamOf(c)'
  <2>1. call'[c].at = "over" /\ call'[c].rpc = "RunBash" /\ call'[c].told = call[c].told /\ heard'[c] = heard[c]
    BY <1>0, <1>7 DEF Goes
  <2>2. call[c].told # "ok" /\ \A i \in 1..Len(said[c]) : said[c][i] = "line"
    BY <1>0 DEF StreamOf, Finished, At
  <2>3. Finished(c)'
    <3>1. PICK s \in Seq(Messages) : s = said[c]
      BY <1>1
    <3>2. Append(s, code) # <<>> /\ Len(Append(s, code)) = Len(s) + 1 /\ Len(s) \in Nat
          /\ Append(s, code)[Len(s) + 1] = code /\ \A i \in 1..Len(s) : Append(s, code)[i] = s[i]
      BY <1>3
    <3>3. said'[c] = Append(s, code) /\ Len(said'[c]) - 1 = Len(s)
      BY <1>5, <3>1, <3>2
    <3>4. \A i \in 1..(Len(said'[c]) - 1) : said'[c][i] = "line"
      BY <2>2, <3>1, <3>2, <3>3
    <3>5. said'[c] # <<>> /\ said'[c][Len(said'[c])] = code
      BY <3>2, <3>3
    <3>6. QED
      BY <1>6, <2>1, <3>4, <3>5 DEF Finished, At
  <2>4. call[c].told = "" => heard[c] \o wire'[c] = Append(said'[c], "end")
    <3>1. call[c].told = "" => heard[c] \o wire[c] = said[c]
      BY <1>0 DEF StreamOf, At
    <3>2. heard[c] \o (wire[c] \o <<code, "end">>) = Append(Append(heard[c] \o wire[c], code), "end")
      <4>1. PICK h \in Seq(Messages), w \in Seq(Messages) : h = heard[c] /\ w = wire[c]
        BY <1>1
      <4>2. h \o (w \o <<code, "end">>) = Append(Append(h \o w, code), "end")
        BY <1>3, Sending
      <4>3. QED
        BY <4>1, <4>2
    <3>3. QED
      BY <1>4, <1>5, <3>1, <3>2
  <2>5. QED
    BY <2>1, <2>2, <2>3, <2>4 DEF StreamOf, At
<1>10. QED
  BY <1>8, <1>9, StreamKeeps

\* ServerInv is kept when ProcessTail ends.
LEMMA TailReturnsKeeps ==
  ASSUME ServerInv, NEW c \in Calls, TailReturns(c)
  PROVE  ServerInv'
<1>0. TypeOK /\ call[c].at = "streaming" /\ call[c].rpc = "ProcessTail"
      /\ UNCHANGED <<mainVars, managed, heard, said, command>>
  BY DEF ServerInv, TailReturns, At
<1>1. heard \in [Calls -> Seq(Messages)] /\ said \in [Calls -> Seq(Messages)]
      /\ command \in [Calls -> {"none", "running", "exited"}]
  BY <1>0 DEF TypeOK
<1>2. wire' \in [Calls -> Seq(Messages)] /\ \A d \in Calls \ {c} : wire'[d] = wire[d]
  <2>1. <<"end">> \in Seq(Messages)
    BY DEF Messages
  <2>2. QED
    BY <1>0, <2>1, SendGoes DEF TailReturns
<1>3. Goes(c, "over", call[c].told)
  <2>1. "over" \in Stages /\ "" \in Answers
    BY DEF Stages, Answers
  <2>2. QED
    BY <1>0, <2>1, SettingGoes DEF TailReturns
<1>4. StreamStep(c, "over", call[c].told)
  BY <1>0, <1>1, <1>2, <1>3 DEF StreamStep, Streams
<1>5. StreamOf(c)'
  BY <1>0, <1>3 DEF StreamOf, Goes
<1>6. QED
  BY <1>4, <1>5, StreamKeeps

\* ServerInv is kept when the handler of a caller that is gone returns.
LEMMA StreamCancelledKeeps ==
  ASSUME ServerInv, NEW c \in Calls, StreamCancelled(c)
  PROVE  ServerInv'
<1>0. TypeOK /\ HandlerOf(c) /\ StreamOf(c) /\ call[c].at = "streaming"
      /\ UNCHANGED <<mainVars, managed, wire, heard, said>>
  BY DEF ServerInv, StreamCancelled, At
<1>1. heard \in [Calls -> Seq(Messages)] /\ said \in [Calls -> Seq(Messages)] /\ wire \in [Calls -> Seq(Messages)]
      /\ command \in [Calls -> {"none", "running", "exited"}]
  BY <1>0 DEF TypeOK
<1>2. call[c].rpc \in Streams
  BY <1>0 DEF HandlerOf, At
<1>3. call[c].told # ""
  BY <1>2 DEF StreamCancelled, Waiting, Streams
<1>4. command' \in [Calls -> {"none", "running", "exited"}] /\ \A d \in Calls \ {c} : command'[d] = command[d]
  BY <1>1 DEF StreamCancelled
<1>5. Goes(c, "over", call[c].told)
  <2>1. "over" \in Stages /\ "" \in Answers
    BY DEF Stages, Answers
  <2>2. QED
    BY <1>0, <2>1, SettingGoes DEF StreamCancelled
<1>6. StreamStep(c, "over", call[c].told)
  BY <1>0, <1>1, <1>2, <1>4, <1>5 DEF StreamStep
<1>7. StreamOf(c)'
  <2>1. call[c].rpc = "RunBash" => call[c].told # "ok"
    BY <1>0 DEF StreamOf, Finished, At
  <2>2. QED
    BY <1>3, <1>5, <2>1 DEF StreamOf, Goes, At
<1>8. QED
  BY <1>6, <1>7, StreamKeeps

\* ServerInv is kept when a connection breaks: the caller is told.
LEMMA ConnectionLostKeeps ==
  ASSUME ServerInv, NEW c \in Calls, ConnectionLost(c)
  PROVE  ServerInv'
<1>0. TypeOK /\ HandlerOf(c) /\ StreamOf(c) /\ UNCHANGED <<mainVars, managed, heard, said, command>>
  BY DEF ServerInv, ConnectionLost
<1>1. heard \in [Calls -> Seq(Messages)] /\ said \in [Calls -> Seq(Messages)] /\ wire \in [Calls -> Seq(Messages)]
      /\ command \in [Calls -> {"none", "running", "exited"}] /\ call \in [Calls -> CallStates]
  BY <1>0 DEF TypeOK
<1>2. wire' \in [Calls -> Seq(Messages)] /\ wire'[c] = <<>> /\ \A d \in Calls \ {c} : wire'[d] = wire[d]
  BY <1>1 DEF ConnectionLost
<1>3. Goes(c, call[c].at, "Unavailable")
  <2>1. Lost(c) = "Unavailable" /\ "Unavailable" \in Answers /\ call[c].at \in Stages
    BY <1>1 DEF Lost, StreamResult, Answers, CallStates
  <2>2. QED
    BY <1>0, <2>1, SettingGoes DEF ConnectionLost
<1>4. StreamStep(c, call[c].at, "Unavailable")
  BY <1>0, <1>1, <1>2, <1>3 DEF StreamStep, HandlerOf
<1>5. StreamOf(c)'
  BY <1>0, <1>3 DEF StreamOf, Goes, At
<1>6. QED
  BY <1>4, <1>5, StreamKeeps

\* ServerInv is kept when a message arrives: the end of a stream finds its
\* caller with all that was said.
LEMMA ReceiveKeeps ==
  ASSUME ServerInv, NEW c \in Calls, Receive(c)
  PROVE  ServerInv'
<1>0. TypeOK /\ HandlerOf(c) /\ StreamOf(c) /\ wire[c] # <<>> /\ call[c].told = ""
      /\ UNCHANGED <<mainVars, managed, said, command>>
  BY DEF ServerInv, Receive, Waiting
<1>1. heard \in [Calls -> Seq(Messages)] /\ said \in [Calls -> Seq(Messages)] /\ wire \in [Calls -> Seq(Messages)]
      /\ command \in [Calls -> {"none", "running", "exited"}] /\ call \in [Calls -> CallStates]
  BY <1>0 DEF TypeOK
<1>2. /\ Head(wire[c]) \in Messages /\ Tail(wire[c]) \in Seq(Messages)
      /\ Append(heard[c], Head(wire[c])) \o Tail(wire[c]) = heard[c] \o wire[c]
      /\ Len(heard[c]) + 1 \in 1..Len(heard[c] \o wire[c])
      /\ (heard[c] \o wire[c])[Len(heard[c]) + 1] = Head(wire[c])
  <2>1. PICK h \in Seq(Messages), w \in Seq(Messages) : h = heard[c] /\ w = wire[c]
    BY <1>1
  <2>2. /\ Head(w) \in Messages /\ Tail(w) \in Seq(Messages)
        /\ Append(h, Head(w)) \o Tail(w) = h \o w
        /\ Len(h) + 1 \in 1..Len(h \o w) /\ (h \o w)[Len(h) + 1] = Head(w)
    <3>1. w # <<>>
      BY <1>0, <2>1
    <3>2. QED
      BY <3>1, Moving, Zenon
  <2>3. QED
    BY <2>1, <2>2
<1>3. wire' \in [Calls -> Seq(Messages)] /\ wire'[c] = Tail(wire[c]) /\ \A d \in Calls \ {c} : wire'[d] = wire[d]
  BY <1>1, <1>2 DEF Receive
<1>4. call[c].at \notin {"idle", "handling"}
  BY <1>0 DEF HandlerOf
<1>5. CASE Head(wire[c]) \in {"end", "err"}
  <2>1. PICK told \in {"ok", "error"} :
          call' = [call EXCEPT ![c].told = told] /\ (told = "ok" => Head(wire[c]) = "end")
    BY <1>5 DEF Receive, StreamResult
  <2>2. Goes(c, call[c].at, told) /\ heard' = heard
    <3>1. told \in Answers /\ call[c].at \in Stages
      BY <1>1 DEF Answers, CallStates
    <3>2. QED
      BY <1>0, <1>5, <2>1, <3>1, SettingGoes DEF Receive
  <2>3. StreamStep(c, call[c].at, told)
    BY <1>0, <1>1, <1>3, <1>4, <2>2 DEF StreamStep
  <2>4. ASSUME call[c].rpc = "RunBash", told = "ok"
        PROVE  Finished(c) /\ heard[c] = said[c]
    <3>1. Head(wire[c]) = "end"
      BY <2>1, <2>4
    <3>2. ~At(c, "streaming")
      <4>1. SUFFICES ASSUME At(c, "streaming") PROVE FALSE
        OBVIOUS
      <4>2. heard[c] \o wire[c] = said[c] /\ \A i \in 1..Len(said[c]) : said[c][i] = "line"
        BY <1>0, <2>4, <4>1 DEF StreamOf
      <4>3. QED
        BY <1>2, <3>1, <4>2
    <3>3. At(c, "over")
      BY <1>0, <1>1, <1>4, <2>4, <3>2 DEF At, CallStates, Stages, HandlerOf, Untimed, PageWaits, PageCalls
    <3>4. wire[c] # <<"err">>
      BY <3>1
    <3>5. Finished(c) /\ heard[c] \o wire[c] = Append(said[c], "end")
      BY <1>0, <2>4, <3>3, <3>4 DEF StreamOf
    <3>6. \A i \in 1..Len(said[c]) : said[c][i] # "end"
      <4>1. PICK s \in Seq(Messages) : s = said[c]
        BY <1>1
      <4>2. Len(s) \in Nat /\ (\A i \in 1..(Len(s) - 1) : s[i] = "line") /\ s[Len(s)] \in ExitCodes
        BY <3>5, <4>1 DEF Finished
      <4>3. s[Len(s)] # "end"
        BY <4>2 DEF ExitCodes
      <4>4. PICK l \in Nat : l = Len(s)
        BY <4>2
      <4>5. ASSUME NEW i \in 1..l PROVE s[i] # "end"
        <5>1. i = l \/ i \in 1..(l - 1)
          OBVIOUS
        <5>2. QED
          BY <4>2, <4>3, <4>4, <5>1
      <4>6. QED
        BY <4>1, <4>4, <4>5
    <3>7. PICK h \in Seq(Messages), w \in Seq(Messages), s \in Seq(Messages) :
            h = heard[c] /\ w = wire[c] /\ s = said[c]
      BY <1>1
    <3>8. h = s
      <4>1. w # <<>> /\ Head(w) = "end" /\ h \o w = Append(s, "end") /\ \A i \in 1..Len(s) : s[i] # "end"
        BY <1>0, <3>1, <3>5, <3>6, <3>7
      <4>2. QED
        BY <4>1, EndComes
    <3>9. QED
      BY <3>5, <3>7, <3>8
  <2>5. StreamOf(c)'
    <3>1. call'[c].rpc = call[c].rpc /\ call'[c].at = call[c].at /\ call'[c].told = told
      BY <2>2 DEF Goes
    <3>2. Finished(c)' <=> Finished(c)
      BY <1>0, <3>1 DEF Finished, At
    <3>3. QED
      BY <1>0, <2>2, <2>4, <3>1, <3>2 DEF StreamOf, At
  <2>6. QED
    BY <2>3, <2>5, StreamKeeps
<1>6. CASE Head(wire[c]) \notin {"end", "err"}
  <2>1. /\ heard' \in [Calls -> Seq(Messages)] /\ heard'[c] = Append(heard[c], Head(wire[c])) /\ call' = call
        /\ \A d \in Calls \ {c} : heard'[d] = heard[d]
    <3>1. heard' = [heard EXCEPT ![c] = Append(@, Head(wire[c]))] /\ call' = call
      BY <1>6 DEF Receive
    <3>2. heard[c] \in Seq(Messages)
      BY <1>1
    <3>3. Append(heard[c], Head(wire[c])) \in Seq(Messages)
      BY <1>2, <3>2
    <3>4. QED
      BY <1>1, <3>1, <3>3
  <2>2. StreamStep(c, call[c].at, call[c].told)
    BY <1>0, <1>1, <1>3, <1>4, <2>1 DEF StreamStep, Goes
  <2>3. heard'[c] \o wire'[c] = heard[c] \o wire[c] /\ wire[c] # <<"err">>
    <3>1. wire[c] = <<"err">> => Head(wire[c]) = "err"
      OBVIOUS
    <3>2. QED
      BY <1>2, <1>3, <1>6, <2>1, <3>1
  <2>4. Finished(c)' <=> Finished(c)
    BY <1>0, <2>1 DEF Finished, At
  <2>5. StreamOf(c)'
    BY <1>0, <2>1, <2>3, <2>4 DEF StreamOf, At
  <2>6. QED
    BY <2>2, <2>5, StreamKeeps
<1>7. QED
  BY <1>5, <1>6

-----------------------------------------------------------------------------
(* Making a call *)

\* A header is none, or a scheme and a token.
LEMMA HeaderShape ==
  ASSUME NEW header \in Headers
  PROVE  header = NoHeader \/ header = <<header[1], header[2]>>
<1>1. CASE header = Bearer(Token)
  <2>1. header = <<"Bearer", Token>>
    BY <1>1 DEF Bearer
  <2>2. header[1] = "Bearer" /\ header[2] = Token
    BY <2>1
  <2>3. QED
    BY <2>1, <2>2
<1>2. CASE header # Bearer(Token) /\ header # NoHeader
  <2>1. PICK probe \in Probed : header = probe[2]
    BY <1>2 DEF Headers
  <2>2. QED
    BY <2>1, ProbedAssumption, Zenon DEF NoHeader
<1>3. QED
  BY <1>1, <1>2

\* A call that is not turned away carries the worker's token, if it has one, and a
\* call with that token is not turned away for it.
LEMMA Authenticated ==
  ASSUME NEW rpc, NEW header \in Headers
  PROVE  /\ ServeHTTP(rpc, header) \in {"", "NotFound", "Unauthenticated"}
         /\ ServeHTTP(rpc, header) = "" => config.worker = "" \/ header = Bearer(config.worker)
         /\ header = Bearer(config.worker) => ServeHTTP(rpc, header) # "Unauthenticated"
<1>1. Admitted(rpc, header) <=> config.worker = "" \/ validateBearerToken(header, config.worker)
  BY DEF Admitted, NewAuthInterceptor, NewStreamAuthInterceptor
<1>2. validateBearerToken(header, config.worker) <=> header = Bearer(config.worker)
  <2>1. ASSUME validateBearerToken(header, config.worker) PROVE header = Bearer(config.worker)
    <3>1. header = <<header[1], header[2]>> /\ header[1] = "Bearer" /\ header[2] = config.worker
      BY <2>1, HeaderShape DEF validateBearerToken
    <3>2. QED
      BY <3>1 DEF Bearer
  <2>2. ASSUME header = Bearer(config.worker) PROVE validateBearerToken(header, config.worker)
    BY <2>2 DEF validateBearerToken, Bearer, NoHeader
  <2>3. QED
    BY <2>1, <2>2
<1>3. QED
  BY <1>1, <1>2 DEF ServeHTTP

\* ServerInv is kept when a call is made, accepted or turned away.
LEMMA CallKeeps ==
  ASSUME ServerInv, NEW c \in Calls, NEW mcp \in BOOLEAN, NEW rpc \in Rpcs, NEW header \in Headers,
         mcp => header = Bearer(Token), Call(c, mcp, rpc, header)
  PROVE  ServerInv'
<1>0. TypeOK /\ AuthExact /\ ShutdownInv /\ \A d \in Calls : HandlerOf(d) /\ StreamOf(d)
  BY DEF ServerInv
<1>1. UNCHANGED <<config, listening, phase, stopping, due, wire, heard, said, command, alive, listed, browser, mutex>>
  BY DEF Call, mainVars, streamVars, managed
<1>2. PICK told, at :
        /\ call' = [call EXCEPT ![c] = [mcp |-> mcp, rpc |-> rpc, header |-> header, told |-> told, at |-> at]]
        /\ told = (IF listening THEN ServeHTTP(rpc, header) ELSE "Unavailable")
        /\ at = IF told = "" THEN "handling" ELSE "over"
  BY DEF Call
<1>3. /\ told \in {"", "NotFound", "Unauthenticated", "Unavailable"}
      /\ at \in {"handling", "over"} /\ (at = "over" <=> told # "")
      /\ told = "" => config.worker = "" \/ header = Bearer(config.worker)
      /\ header = Bearer(config.worker) => told # "Unauthenticated"
  BY <1>2, Authenticated
<1>4. /\ call' \in [Calls -> CallStates] /\ \A d \in Calls \ {c} : call'[d] = call[d]
      /\ call'[c].mcp = mcp /\ call'[c].rpc = rpc /\ call'[c].header = header
      /\ call'[c].told = told /\ call'[c].at = at
  <2>1. [mcp |-> mcp, rpc |-> rpc, header |-> header, told |-> told, at |-> at] \in CallStates
    BY <1>3 DEF CallStates, Answers, Stages
  <2>2. QED
    BY <1>0, <1>2, <2>1 DEF TypeOK
<1>5. /\ call[c].at = "idle" /\ c \notin alive /\ c \notin listed /\ c # browser /\ c \notin due
      /\ wire[c] = <<>> /\ heard[c] = <<>> /\ said[c] = <<>> /\ command[c] = "none"
  BY <1>0 DEF Call, At, HandlerOf, ShutdownInv
<1>6. TypeOK'
  BY <1>0, <1>1, <1>4 DEF TypeOK
<1>7. AuthExact'
  <2>1. config.mcp = Token
    BY <1>0 DEF TypeOK
  <2>2. QED
    BY <1>0, <1>1, <1>3, <1>4, <1>5, <2>1 DEF AuthExact
<1>8. ShutdownInv'
  BY <1>0, <1>1, <1>4, <1>5 DEF ShutdownInv, At
<1>9. ASSUME NEW d \in Calls PROVE HandlerOf(d)' /\ StreamOf(d)'
  <2>1. CASE d # c
    BY <1>0, <1>1, <1>4, <2>1, HandlerSame, StreamSame
  <2>2. CASE d = c
    <3>1. HandlerOf(c)'
      BY <1>1, <1>3, <1>4, <1>5 DEF HandlerOf, At
    <3>2. StreamOf(c)'
      BY <1>3, <1>4 DEF StreamOf, At
    <3>3. QED
      BY <2>2, <3>1, <3>2
  <2>3. QED
    BY <2>1, <2>2
<1>10. QED
  BY <1>6, <1>7, <1>8, <1>9 DEF ServerInv

\* The MCP server's calls and those of others are such calls.
LEMMA CallersKeep ==
  ASSUME ServerInv, NEW c \in Calls,
         \/ \E tool \in Tried : CallTool(c, tool)
         \/ \E probe \in Probed : OtherCalls(c, probe[1], probe[2])
  PROVE  ServerInv'
<1>1. CASE \E tool \in Tried : CallTool(c, tool)
  <2>1. PICK tool \in Tried : Call(c, TRUE, Tools[tool], inject(config.mcp))
    BY <1>1 DEF CallTool
  <2>2. inject(config.mcp) = Bearer(Token)
    BY ServerAssumption DEF ServerInv, TypeOK, inject
  <2>3. Tools[tool] \in Rpcs /\ Bearer(Token) \in Headers
    BY DEF Rpcs, Headers
  <2>4. QED
    BY <2>1, <2>2, <2>3, CallKeeps
<1>2. CASE \E probe \in Probed : OtherCalls(c, probe[1], probe[2])
  <2>1. PICK probe \in Probed : Call(c, FALSE, probe[1], probe[2])
    BY <1>2 DEF OtherCalls
  <2>2. probe[1] \in Rpcs /\ probe[2] \in Headers
    BY DEF Rpcs, Headers
  <2>3. QED
    BY <2>1, <2>2, CallKeeps
<1>3. QED
  BY <1>1, <1>2

-----------------------------------------------------------------------------
(* main *)

\* A step of main that starts nothing and leaves the calls alone keeps what holds of them.
LEMMA CallsSame ==
  ASSUME ServerInv, UNCHANGED <<config, call, wire, heard, said, command, listed>>,
         alive' \subseteq alive, browser' \in {browser, Nobody}
  PROVE  AuthExact' /\ \A c \in Calls : HandlerOf(c)' /\ StreamOf(c)'
<1>1. AuthExact'
  BY CallsAssumption DEF ServerInv, AuthExact
<1>2. ASSUME NEW c \in Calls PROVE HandlerOf(c)' /\ StreamOf(c)'
  <2>1. HandlerOf(c) /\ StreamOf(c) /\ (browser' = c => browser = c)
    BY CallsAssumption DEF ServerInv
  <2>2. QED
    BY <2>1, HandlerSame, StreamSame
<1>3. QED
  BY <1>1, <1>2

\* What was due and runs is listed: the processes that StopAll must find.
LEMMA DueIsListed ==
  ASSUME ServerInv
  PROVE  due \cap alive \subseteq listed
<1>1. SUFFICES ASSUME NEW d \in due \cap alive PROVE d \in listed
  OBVIOUS
<1>2. TypeOK /\ ShutdownInv /\ \A c \in Calls : HandlerOf(c)
  BY DEF ServerInv
<1>3. d \in Starters
  BY <1>1, <1>2 DEF TypeOK
<1>4. CASE d = Earlier
  BY <1>1, <1>2, <1>4 DEF ShutdownInv
<1>5. CASE d \in Calls
  BY <1>1, <1>2, <1>5 DEF ShutdownInv, HandlerOf
<1>6. QED
  BY <1>3, <1>4, <1>5 DEF Starters

\* ServerInv is kept by the signal, by StopAll and by the stop of the browser.
LEMMA ShutdownKeeps ==
  ASSUME ServerInv, (\E listens \in BOOLEAN : Signal(listens)) \/ StopAll \/ CloseBrowser
  PROVE  ServerInv'
<1>0. TypeOK /\ ShutdownInv /\ \A d \in Calls : HandlerOf(d)
  BY DEF ServerInv
<1>1. CASE \E listens \in BOOLEAN : Signal(listens)
  <2>1. /\ phase = "serving" /\ phase' = "stopAll" /\ listening' \in BOOLEAN /\ due' = listed \cup {browser}
        /\ UNCHANGED <<config, stopping, call, wire, heard, said, command, alive, listed, browser, mutex>>
    BY <1>1 DEF Signal, streamVars, managed
  <2>2. TypeOK'
    BY <1>0, <2>1 DEF TypeOK
  <2>3. ShutdownInv'
    BY <1>0, <2>1 DEF ShutdownInv, HandlerOf, At
  <2>4. QED
    BY <2>1, <2>2, <2>3, CallsSame DEF ServerInv
<1>2. CASE StopAll
  <2>1. UNCHANGED <<config, listening, due, call, wire, heard, said, command, listed, browser, mutex>>
    BY <1>2 DEF StopAll, streamVars
  <2>2. \/ phase = "stopAll" /\ phase' = "stopping" /\ stopping' = listed /\ UNCHANGED alive
        \/ /\ phase = "stopping" /\ phase' \in {"browserStop", "hung"}
           /\ stopping' \subseteq stopping /\ alive' \subseteq alive /\ alive' \cap stopping \subseteq stopping'
    BY <1>2 DEF StopAll
  <2>3. TypeOK'
    BY <1>0, <2>1, <2>2 DEF TypeOK
  <2>4. ShutdownInv'
    BY <1>0, <2>1, <2>2, DueIsListed DEF ShutdownInv, At
  <2>5. QED
    BY <2>1, <2>2, <2>3, <2>4, CallsSame DEF ServerInv
<1>3. CASE CloseBrowser
  <2>1. /\ phase = "browserStop" /\ mutex' \in {mutex, Main}
        /\ (phase' = "serverClose" /\ browser' = Nobody) \/ (phase' = "hung" /\ UNCHANGED browser)
        /\ UNCHANGED <<config, listening, stopping, due, call, wire, heard, said, command, alive, listed>>
    BY <1>3 DEF CloseBrowser, BrowserAfterClose, streamVars
  <2>2. TypeOK'
    BY <1>0, <2>1 DEF TypeOK
  <2>3. ShutdownInv'
    BY <1>0, <2>1 DEF ShutdownInv, At
  <2>4. QED
    BY <2>1, <2>2, <2>3, CallsSame DEF ServerInv
<1>4. QED
  BY <1>1, <1>2, <1>3

\* ServerInv is kept by the exit, at which every caller is told.
LEMMA ExitKeeps ==
  ASSUME ServerInv, Exit
  PROVE  ServerInv'
<1>0. TypeOK /\ AuthExact /\ ShutdownInv /\ \A d \in Calls : HandlerOf(d) /\ StreamOf(d)
  BY DEF ServerInv
<1>1. /\ phase = "serverClose" /\ phase' = "exited" /\ listening' = FALSE /\ wire' = [c \in Calls |-> <<>>]
      /\ UNCHANGED <<config, stopping, due, heard, said, alive, listed, browser, mutex>>
  BY DEF Exit, managed
<1>2. /\ command' \in [Calls -> {"none", "running", "exited"}]
      /\ \A c \in Calls : command'[c] = command[c] \/ (command[c] = "running" /\ command'[c] = "exited")
  <2>1. PICK killed \in SUBSET {c \in Calls : command[c] = "running"} :
          command' = [c \in Calls |-> IF c \in killed THEN "exited" ELSE command[c]]
    BY DEF Exit
  <2>2. QED
    BY <1>0, <2>1 DEF TypeOK
<1>3. ASSUME NEW c \in Calls
      PROVE  /\ call'[c] \in CallStates
             /\ call'[c].mcp = call[c].mcp /\ call'[c].rpc = call[c].rpc /\ call'[c].header = call[c].header
             /\ IF call[c].at = "idle" THEN call'[c] = call[c]
                ELSE call'[c].at = "over" /\ call'[c].told = IF call[c].told = "" THEN "Unavailable" ELSE call[c].told
  <2>1. Lost(c) = "Unavailable" /\ call[c] \in CallStates
    BY <1>0 DEF Lost, StreamResult, TypeOK
  <2>2. call'[c] = IF call[c].at = "idle" THEN call[c]
                   ELSE [call[c] EXCEPT !.at = "over", !.told = IF @ = "" THEN "Unavailable" ELSE @]
    BY <2>1 DEF Exit, At
  <2>3. "over" \in Stages /\ "Unavailable" \in Answers
    BY DEF Stages, Answers
  <2>4. QED
    BY <2>1, <2>2, <2>3 DEF CallStates
<1>4. TypeOK'
  <2>1. call' = [c \in Calls |-> call'[c]]
    BY DEF Exit
  <2>2. call' \in [Calls -> CallStates]
    BY <1>3, <2>1
  <2>3. wire' \in [Calls -> Seq(Messages)]
    BY <1>1
  <2>4. QED
    BY <1>0, <1>1, <1>2, <2>2, <2>3 DEF TypeOK
<1>5. AuthExact'
  BY <1>0, <1>1, <1>3 DEF AuthExact
<1>6. ShutdownInv'
  BY <1>0, <1>1, <1>3 DEF ShutdownInv, At
<1>7. ASSUME NEW c \in Calls PROVE HandlerOf(c)' /\ StreamOf(c)'
  <2>1. HandlerOf(c) /\ StreamOf(c) /\ wire'[c] = <<>> /\ (c \in due => At(c, "over"))
    BY <1>0, <1>1 DEF ShutdownInv
  <2>2. CASE call[c].at = "idle"
    <3>1. command'[c] = command[c] /\ wire'[c] = wire[c] /\ call'[c] = call[c]
      BY <1>2, <1>3, <2>1, <2>2 DEF HandlerOf
    <3>2. QED
      BY <1>1, <2>1, <3>1, HandlerSame, StreamSame
  <2>3. CASE call[c].at # "idle"
    <3>1. HandlerOf(c)'
      BY <1>1, <1>3, <2>1, <2>3 DEF HandlerOf, At
    <3>2. Finished(c) => Finished(c)'
      BY <1>1, <1>2, <1>3, <2>3 DEF Finished, At
    <3>3. StreamOf(c)'
      BY <1>1, <1>3, <2>1, <2>3, <3>2 DEF StreamOf, At
    <3>4. QED
      BY <3>1, <3>3
  <2>4. QED
    BY <2>2, <2>3
<1>8. QED
  BY <1>4, <1>5, <1>6, <1>7 DEF ServerInv

-----------------------------------------------------------------------------
(* The worker *)

\* ServerInv holds when the worker has started.
LEMMA InitServer ==
  ASSUME Init
  PROVE  ServerInv
<1>1. TypeOK
  <2>1. NoCall \in CallStates
    BY DEF NoCall, CallStates, Rpcs, Headers, Stages, Answers
  <2>2. config \in [worker : {"", Token}, mcp : {Token}] /\ listening \in BOOLEAN
        /\ phase \in {"serving", "stopAll", "stopping", "browserStop", "serverClose", "exited", "hung"}
    BY DEF Init
  <2>3. call \in [Calls -> CallStates] /\ command \in [Calls -> {"none", "running", "exited"}]
    BY <2>1 DEF Init
  <2>4. wire \in [Calls -> Seq(Messages)] /\ heard = wire /\ said = wire
    <3>1. <<>> \in Seq(Messages)
      OBVIOUS
    <3>2. QED
      BY <3>1 DEF Init
  <2>5. /\ alive \subseteq Starters /\ listed \subseteq Starters /\ stopping \subseteq Starters
        /\ browser \in Starters \cup {Nobody} /\ mutex \in Calls \cup {Nobody, Main} /\ due \subseteq Starters \cup {Nobody}
    BY DEF Init, Starters
  <2>6. QED
    BY <2>2, <2>3, <2>4, <2>5 DEF TypeOK
<1>2. \A c \in Calls : call[c] = NoCall /\ wire[c] = <<>> /\ heard[c] = <<>> /\ said[c] = <<>> /\ command[c] = "none"
                       /\ c \notin alive /\ c \notin listed /\ c # browser
  <2>1. call = [c \in Calls |-> NoCall] /\ wire = [c \in Calls |-> <<>>] /\ heard = wire /\ said = wire
        /\ command = [c \in Calls |-> "none"]
    BY DEF Init
  <2>2. alive \subseteq {Earlier} /\ listed \subseteq {Earlier} /\ browser \in {Earlier, Nobody}
    BY DEF Init
  <2>3. QED
    BY <2>1, <2>2, CallsAssumption
<1>3. AuthExact
  <2>1. NoCall.at = "idle" /\ NoCall.mcp = FALSE /\ NoCall.rpc = "" /\ NoCall.told = ""
    BY DEF NoCall
  <2>2. QED
    BY <1>2, <2>1 DEF AuthExact
<1>4. ShutdownInv
  BY DEF Init, ShutdownInv
<1>5. \A c \in Calls : HandlerOf(c) /\ StreamOf(c)
  <2>1. NoCall.at = "idle" /\ NoCall.rpc = "" /\ NoCall.told = ""
    BY DEF NoCall
  <2>2. QED
    BY <1>2, <2>1 DEF HandlerOf, StreamOf, At
<1>6. QED
  BY <1>1, <1>3, <1>4, <1>5 DEF ServerInv

\* Every step keeps ServerInv.
LEMMA NextServer ==
  ASSUME ServerInv, [Next]_vars
  PROVE  ServerInv'
<1>1. CASE UNCHANGED vars
  <2>1. UNCHANGED <<config, listening, phase, call, wire, heard, said, command, alive, listed, stopping, browser, mutex, due>>
    BY <1>1 DEF vars
  <2>2. TypeOK' /\ ShutdownInv'
    BY <2>1 DEF ServerInv, TypeOK, ShutdownInv, At
  <2>3. QED
    BY <2>1, <2>2, CallsSame DEF ServerInv
<1>2. CASE Next
  <2>1. CASE \E c \in Calls, tool \in Tried : CallTool(c, tool)
    BY <2>1, CallersKeep
  <2>2. CASE \E c \in Calls, probe \in Probed : OtherCalls(c, probe[1], probe[2])
    BY <2>2, CallersKeep
  <2>3. CASE \E c \in Calls : Handle(c) \/ TailReturns(c) \/ CommandWrites(c) \/ Receive(c) \/ ConnectionLost(c)
    BY <2>3, UnaryHandlersKeep, StreamBeginsKeeps, RunBashReturnsKeeps, StreamCancelledKeeps, TailReturnsKeeps,
       CommandWritesKeeps, ReceiveKeeps, ConnectionLostKeeps DEF Handle
  <2>4. CASE (\E listens \in BOOLEAN : Signal(listens)) \/ Shutdown
    BY <2>4, ShutdownKeeps, ExitKeeps DEF Shutdown
  <2>5. QED
    BY <1>2, <2>1, <2>2, <2>3, <2>4 DEF Next
<1>3. QED
  BY <1>1, <1>2

\* The invariant of the worker process holds in every state, with any number of calls
\* of any callers, before, during and after the shutdown of main.go.
THEOREM ServerInvariant == Spec => []ServerInv
  BY InitServer, NextServer, PTL DEF Spec

\* auth.go: no handler runs for a caller without the worker's token, and the MCP
\* server with the same environment is never turned away.
THEOREM AuthAlwaysExact == Spec => []AuthExact
<1>1. ServerInv => AuthExact
  BY DEF ServerInv
<1>2. QED
  BY <1>1, ServerInvariant, PTL

\* Service.Close and main.go: what was listed or running when the shutdown began is
\* gone when the worker has exited, but for the processes whose kill was refused.
THEOREM ExitLeavesOnlyLateCalls == Spec => []ExitLeavesOnlyLate
<1>1. ServerInv => ExitLeavesOnlyLate
  BY DEF ServerInv, ShutdownInv, ExitLeavesOnlyLate
<1>2. QED
  BY <1>1, ServerInvariant, PTL

\* What run_bash makes of the messages of a command that has ended.
LEMMA ResultOfAll ==
  ASSUME NEW s \in Seq(Messages), s # <<>>, \A i \in 1..(Len(s) - 1) : s[i] = "line", s[Len(s)] \in ExitCodes
  PROVE  RunBash(s) = [lines |-> Len(s) - 1, code |-> Last(s)]
<1> DEFINE codes == {i \in DOMAIN s : s[i] # "line"}
<1>1. Len(s) \in Nat \ {0} /\ DOMAIN s = 1..Len(s)
  OBVIOUS
<1>2. codes = {Len(s)}
  <2>1. s[Len(s)] # "line"
    BY DEF ExitCodes
  <2>2. PICK l \in Nat \ {0} : l = Len(s)
    BY <1>1
  <2>3. ASSUME NEW i \in 1..l PROVE i = l \/ s[i] = "line"
    <3>1. i = l \/ i \in 1..(l - 1)
      OBVIOUS
    <3>2. QED
      BY <2>2, <3>1
  <2>4. DOMAIN s = 1..l /\ l \in 1..l
    BY <1>1, <2>2
  <2>5. l \in codes
    BY <2>1, <2>2, <2>4
  <2>6. ASSUME NEW i \in codes PROVE i = l
    BY <2>3, <2>4
  <2>7. QED
    BY <2>2, <2>5, <2>6
<1>3. DOMAIN s \ codes = 1..(Len(s) - 1)
  BY <1>1, <1>2
<1>4. Cardinality(1..(Len(s) - 1)) = Len(s) - 1
  BY <1>1, FS_Interval
<1>5. Max({Len(s)}) = Len(s)
  BY <1>1 DEF Max
<1>6. RunBash(s) = [lines |-> Cardinality(DOMAIN s \ codes), code |-> IF codes = {} THEN "exit 0" ELSE s[Max(codes)]]
  BY DEF RunBash
<1>7. QED
  BY <1>2, <1>3, <1>4, <1>5, <1>6 DEF Last

\* bash.go and direct_ops.go: run_bash answers without an error only with all the
\* lines and the exit code of a command that has ended.
THEOREM BashAlwaysFaithful == Spec => []BashAnswersFaithful
<1>1. ASSUME ServerInv PROVE BashAnswersFaithful
  <2>1. SUFFICES ASSUME NEW c \in Calls, call[c].rpc = "RunBash", call[c].told = "ok"
                 PROVE  command[c] = "exited"
                        /\ RunBash(heard[c]) = [lines |-> Len(said[c]) - 1, code |-> Last(said[c])]
    BY DEF BashAnswersFaithful
  <2>2. Finished(c) /\ heard[c] = said[c] /\ said[c] \in Seq(Messages)
    BY <1>1, <2>1 DEF ServerInv, StreamOf, TypeOK
  <2>3. QED
    BY <2>2, ResultOfAll DEF Finished
<1>2. QED
  BY <1>1, ServerInvariant, PTL
=============================================================================
