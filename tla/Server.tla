------------------------------- MODULE Server -------------------------------
(***************************************************************************)
(* A worker process from the first call to its exit: the routing and the   *)
(* interceptors in front of the handlers (service.connect.go, auth.go),    *)
(* the handlers of service.go as far as calls get in each other's way, the *)
(* shutdown of src/cmd/remotehands/main.go, and at the other end of the    *)
(* connections the MCP server of src/cmd/remotehands-mcp.                  *)
(*                                                                         *)
(* What the handlers do within one component is in the component's own     *)
(* module.  Kept of it here: a process is started before it is listed, a   *)
(* kill may be refused and a stop may wait for ever for the pipes of a     *)
(* descendant (process.go), the browser's methods hold one mutex, for ever *)
(* when a page does not answer (browser.go), and a stream ends in success  *)
(* or in an error.                                                         *)
(***************************************************************************)
EXTENDS McpTools, FiniteSets

CONSTANTS Calls,      \* calls, of the MCP server or of anybody else
          Tried,      \* the tools that are used
          Probed,     \* calls of others: a procedure and a header
          Token,      \* a token
          MaxLines    \* the bound on the lines of a command

Earlier == "earlier"   \* a call that ended before the run begins
Nobody == "nobody"
Main == "main"         \* the shutdown

ASSUME CallsAssumption == {Earlier, Nobody, Main} \cap Calls = {}
ASSUME ServerAssumption ==
  Tried \subseteq DOMAIN Tools /\ Token # "" /\ MaxLines \in Nat
\* A header is empty or a scheme and a token.
ASSUME ProbedAssumption ==
  \A probe \in Probed : probe[2] = <<>> \/ probe[2] = <<probe[2][1], probe[2][2]>>

(* The procedures of NewServiceHandler *)
Streams == {"RunBash", "WatchFiles", "ProcessTail"}
PageCalls == {"BrowserNavigate", "BrowserListPages", "BrowserClosePage", "BrowserScreenshot",
              "BrowserSnapshot", "BrowserAct"}
BrowserCalls == PageCalls \cup {"BrowserStart", "BrowserStop"}
(* The methods that wait for a page, with the mutex and without a timeout *)
PageWaits == PageCalls \ {"BrowserListPages"}
(* The calls that may never return *)
Untimed == PageWaits \cup {"BrowserStop", "ProcessStop"}
(* The handlers that make one call of their component and answer what it returns *)
FileCalls == {"ReadFile", "WriteFile", "DeleteFile", "ListFiles", "Glob", "Grep"}
GitCalls == {"GitStatus", "GitDiff", "GitCommit", "GitClone", "GitPush"}
RequestCalls == {"HttpRequest", "HttpClearCookies", "GrpcRequest"}
ProcessQueries == {"ProcessList", "ProcessLogs"}
Plain == FileCalls \cup GitCalls \cup RequestCalls \cup ProcessQueries
Procedures == Streams \cup BrowserCalls \cup Plain \cup {"ProcessStart", "ProcessStop"}

NoHeader == <<>>
Bearer(t) == <<"Bearer", t>>

VARIABLES
  config,    \* the tokens in the environments of the worker ("" if none) and of the MCP server
  listening, \* the server accepts connections
  phase,     \* how far main has come
  call,      \* per call: procedure, header, handler, and what the caller has been told
  wire,      \* messages of a stream on their way
  heard,     \* the messages the caller has received
  said,      \* history: the lines of a call's command and its exit code
  command,   \* per call: its bash command
  alive,     \* running processes, by the call that started them
  listed,    \* ProcessManager.processes
  stopping,  \* StopAll's copy of them, then those whose kill was refused
  browser,   \* the call that started the running browser
  mutex,     \* BrowserManager.mu
  due        \* history: what ran when the shutdown began
vars == <<config, listening, phase, call, wire, heard, said, command, alive, listed, stopping, browser, mutex, due>>
streamVars == <<wire, heard, said, command>>
managed == <<alive, listed, browser, mutex>>
mainVars == <<config, listening, phase, stopping, due>>

NoCall == [mcp |-> FALSE, rpc |-> "", header |-> NoHeader, at |-> "idle", told |-> ""]

\* A worker that has just started, with a token or without, or a worker with a token
\* that has started a process and a browser.
Init ==
  /\ config \in [worker : {"", Token}, mcp : {Token}]
  /\ listening = TRUE /\ phase = "serving" /\ stopping = {} /\ due = {}
  /\ call = [c \in Calls |-> NoCall]
  /\ wire = [c \in Calls |-> <<>>] /\ heard = wire /\ said = wire
  /\ command = [c \in Calls |-> "none"]
  /\ mutex = Nobody
  /\ \/ alive = {} /\ listed = {} /\ browser = Nobody
     \/ alive = {Earlier} /\ listed = {Earlier} /\ browser = Earlier /\ config.worker = Token

At(c, where) == call[c].at = where
Runs(c, rpcs) == At(c, "handling") /\ call[c].rpc \in rpcs
Waiting(c) == call[c].rpc # "" /\ call[c].told = ""

\* The handler of c returns; the caller is told unless it has lost the connection.
\* The answer of a unary handler, good or bad, is that of the component's module.
Told(c, what) == [call EXCEPT ![c].at = "over", ![c].told = IF @ = "" THEN what ELSE @]
Answer(c, what) == call' = Told(c, what)

-----------------------------------------------------------------------------
(* Making a call *)

\* streamingHeaderInterceptor of a direct connection: unary calls and streams alike.
inject(token) == IF token # "" THEN Bearer(token) ELSE NoHeader

validateBearerToken(header, expected) ==
  header # NoHeader /\ header[1] = "Bearer" /\ header[2] = expected

NewAuthInterceptor(token, header) == token = "" \/ validateBearerToken(header, token)

\* Mutant: streams pass.
StreamsPass(token, header) == TRUE

NewStreamAuthInterceptor(token, header) == token = "" \/ validateBearerToken(header, token)

\* The interceptors are installed only for a worker with a token; each guards one kind of procedure.
Admitted(rpc, header) ==
  \/ config.worker = ""
  \/ IF rpc \in Streams THEN NewStreamAuthInterceptor(config.worker, header)
     ELSE NewAuthInterceptor(config.worker, header)

\* The handler of NewServiceHandler: the route comes before the interceptors.
ServeHTTP(rpc, header) ==
  CASE rpc \notin Procedures -> "NotFound"
    [] rpc \in Procedures /\ ~Admitted(rpc, header) -> "Unauthenticated"
    [] OTHER -> ""

\* A call is made and, unless it is turned away, its handler begins.
Call(c, mcp, rpc, header) ==
  LET refusal == IF listening THEN ServeHTTP(rpc, header) ELSE "Unavailable"
  IN /\ At(c, "idle")
     /\ call' = [call EXCEPT ![c] = [mcp |-> mcp, rpc |-> rpc, header |-> header, told |-> refusal,
                                     at |-> IF refusal = "" THEN "handling" ELSE "over"]]
     /\ UNCHANGED <<mainVars, streamVars, managed>>

CallTool(c, tool) == Call(c, TRUE, Tools[tool], inject(config.mcp))
OtherCalls(c, rpc, header) == Call(c, FALSE, rpc, header)

-----------------------------------------------------------------------------
(* Unary handlers *)

PlainHandler(c) ==
  /\ Runs(c, Plain)
  /\ Answer(c, "answered")
  /\ UNCHANGED <<mainVars, streamVars, managed>>

\* ProcessStart: the process runs before it is in the map.
ProcessStart(c) ==
  /\ UNCHANGED <<mainVars, streamVars, browser, mutex>>
  /\ \/ Runs(c, {"ProcessStart"}) /\ Answer(c, "answered") /\ UNCHANGED <<alive, listed>>
     \/ /\ Runs(c, {"ProcessStart"}) /\ alive' = alive \cup {c}
        /\ call' = [call EXCEPT ![c].at = "spawned"] /\ UNCHANGED listed
     \/ At(c, "spawned") /\ listed' = listed \cup {c} /\ Answer(c, "answered") /\ UNCHANGED alive

Sticks(c) == call' = [call EXCEPT ![c].at = "stuck"]

\* Nothing is stopped (there is no such process, or the kill is refused), or the group
\* is killed; and then Stop waits, for ever when a descendant keeps the pipes.
ProcessStop(c) ==
  /\ Runs(c, {"ProcessStop"})
  /\ \/ Answer(c, "answered") /\ UNCHANGED alive
     \/ \E p \in listed : alive' = alive \ {p} /\ (Answer(c, "answered") \/ Sticks(c))
  /\ UNCHANGED <<mainVars, streamVars, listed, browser, mutex>>

BrowserStart(c) ==
  /\ Runs(c, {"BrowserStart"}) /\ mutex = Nobody
  /\ \/ browser' = (IF browser = Nobody THEN c ELSE browser) /\ Answer(c, "answered")
     \/ browser = Nobody /\ Answer(c, "answered") /\ UNCHANGED browser
  /\ UNCHANGED <<mainVars, streamVars, alive, listed, mutex>>

\* The pages are closed first, and one may not answer.
BrowserStop(c) ==
  /\ Runs(c, {"BrowserStop"}) /\ mutex = Nobody
  /\ \/ browser' = Nobody /\ Answer(c, "answered") /\ UNCHANGED mutex
     \/ browser # Nobody /\ mutex' = c /\ Sticks(c) /\ UNCHANGED browser
  /\ UNCHANGED <<mainVars, streamVars, alive, listed>>

\* The handlers ask IsRunning first, and the method asks again: both take the mutex.
IsRunning(c) ==
  /\ Runs(c, PageCalls) /\ mutex = Nobody
  /\ IF browser = Nobody THEN Answer(c, "answered")
     ELSE call' = [call EXCEPT ![c].at = "checked"]
  /\ UNCHANGED <<mainVars, streamVars, managed>>

PageMethod(c) ==
  /\ At(c, "checked") /\ mutex = Nobody
  /\ \/ browser = Nobody /\ Answer(c, "answered") /\ UNCHANGED mutex
     \/ /\ browser # Nobody /\ mutex' = c
        /\ \/ call' = [call EXCEPT ![c].at = "acting"]
           \/ call[c].rpc \in PageWaits /\ Sticks(c)
  /\ UNCHANGED <<mainVars, streamVars, alive, listed, browser>>

\* Mutant: the mutex is not given back when the method fails.
LockedOnError(what) == IF what = "ok" THEN Nobody ELSE mutex

\* The deferred Unlock.
Unlocked(what) == Nobody

PageReturns(c) ==
  /\ At(c, "acting")
  /\ Answer(c, "answered") /\ \E what \in {"ok", "error"} : mutex' = Unlocked(what)
  /\ UNCHANGED <<mainVars, streamVars, alive, listed, browser>>

-----------------------------------------------------------------------------
(* Streams *)

\* What is sent to a caller that is gone is lost.
Send(c, ms) == wire' = [wire EXCEPT ![c] = IF call[c].told = "" THEN @ \o ms ELSE @]

\* The handler begins, or returns an error at once.
StreamBegins(c) ==
  /\ Runs(c, Streams)
  /\ \/ /\ call' = [call EXCEPT ![c].at = "streaming"] /\ UNCHANGED wire
        /\ command' = [command EXCEPT ![c] = IF call[c].rpc = "RunBash" THEN "running" ELSE @]
     \/ call' = [call EXCEPT ![c].at = "over"] /\ Send(c, <<"err">>) /\ UNCHANGED command
  /\ UNCHANGED <<mainVars, managed, heard, said>>

\* External: the command writes a line.  (The events of the other streams are in
\* their own modules.)
CommandWrites(c) ==
  /\ command[c] = "running" /\ At(c, "streaming") /\ Len(said[c]) < MaxLines
  /\ said' = [said EXCEPT ![c] = Append(@, "line")] /\ Send(c, <<"line">>)
  /\ UNCHANGED <<mainVars, managed, call, heard, command>>

\* RunBash ends with the exit event and the end of the stream, ProcessTail with the
\* exit of its process; WatchFiles goes on until its caller is gone.
RunBashReturns(c) ==
  /\ At(c, "streaming") /\ call[c].rpc = "RunBash"
  /\ \E code \in {"exit 0", "exit 1"} :
       said' = [said EXCEPT ![c] = Append(@, code)] /\ Send(c, <<code, "end">>)
  /\ command' = [command EXCEPT ![c] = "exited"]
  /\ call' = [call EXCEPT ![c].at = "over"]
  /\ UNCHANGED <<mainVars, managed, heard>>

TailReturns(c) ==
  /\ At(c, "streaming") /\ call[c].rpc = "ProcessTail"
  /\ Send(c, <<"end">>) /\ call' = [call EXCEPT ![c].at = "over"]
  /\ UNCHANGED <<mainVars, managed, heard, said, command>>

\* The caller is gone: the context is cancelled, a command is killed.
StreamCancelled(c) ==
  /\ At(c, "streaming") /\ ~Waiting(c)
  /\ call' = [call EXCEPT ![c].at = "over"]
  /\ command' = [command EXCEPT ![c] = IF @ = "running" THEN "exited" ELSE @]
  /\ UNCHANGED <<mainVars, managed, wire, heard, said>>

-----------------------------------------------------------------------------
(* The caller's end *)

\* Mutant: stream.Err is not looked at.
ErrIgnored(how) == "ok"

\* A stream's answer: stream.Err after the last message.
StreamResult(how) == CASE how = "end" -> "ok" [] how = "err" -> "error" [] OTHER -> "Unavailable"

Receive(c) ==
  /\ Waiting(c) /\ wire[c] # <<>>
  /\ wire' = [wire EXCEPT ![c] = Tail(@)]
  /\ IF Head(wire[c]) \in {"end", "err"}
     THEN call' = [call EXCEPT ![c].told = StreamResult(Head(wire[c]))] /\ UNCHANGED heard
     ELSE heard' = [heard EXCEPT ![c] = Append(@, Head(wire[c]))] /\ UNCHANGED call
  /\ UNCHANGED <<mainVars, managed, said, command>>

\* The result of run_bash: how many lines it has (they are all alike here), and the
\* last exit code, which is zero without one.
RunBash(ms) ==
  LET codes == {i \in DOMAIN ms : ms[i] # "line"}
  IN [lines |-> Cardinality(DOMAIN ms \ codes),
      code |-> IF codes = {} THEN "exit 0" ELSE ms[Max(codes)]]

\* External: the connection breaks; what was on its way is lost.
Lost(c) == IF call[c].rpc \in Streams THEN StreamResult("lost") ELSE "Unavailable"
ConnectionLost(c) ==
  /\ Waiting(c)
  /\ call' = [call EXCEPT ![c].told = Lost(c)] /\ wire' = [wire EXCEPT ![c] = <<>>]
  /\ UNCHANGED <<mainVars, managed, heard, said, command>>

-----------------------------------------------------------------------------
(* main *)

\* SIGTERM, or server.Serve fails: then no more connections are accepted.
Signal(listens) ==
  /\ phase = "serving" /\ phase' = "stopAll" /\ listening' = listens
  /\ due' = listed \cup {browser}
  /\ UNCHANGED <<config, stopping, call, streamVars, managed>>

\* Service.Close: StopAll copies the map and stops what is in the copy, but for those
\* whose kill is refused, which it logs, or waits for ever for one of them, ...
StopAll ==
  /\ UNCHANGED <<config, listening, due, call, streamVars, listed, browser, mutex>>
  /\ \/ phase = "stopAll" /\ phase' = "stopping" /\ stopping' = listed /\ UNCHANGED alive
     \/ \E refused \in SUBSET (stopping \cap alive) :
          /\ phase = "stopping"
          /\ phase' = "browserStop" \/ (stopping # {} /\ phase' = "hung")
          /\ alive' = alive \ (stopping \ refused) /\ stopping' = refused

\* Mutant: Close does not stop the browser.
BrowserKept == browser

\* BrowserManager.Stop of Service.Close.
BrowserAfterClose == Nobody

\* ... then the browser is stopped, for which the mutex and answers of the pages are
\* needed, ...
CloseBrowser ==
  /\ phase = "browserStop" /\ mutex = Nobody
  /\ \/ phase' = "serverClose" /\ browser' = BrowserAfterClose /\ UNCHANGED mutex
     \/ browser # Nobody /\ phase' = "hung" /\ mutex' = Main /\ UNCHANGED browser
  /\ UNCHANGED <<config, listening, stopping, due, call, streamVars, alive, listed>>

\* ... and the process ends, and with it every handler and connection.  A command
\* that runs is killed if its handler gets to it in time.
Exit ==
  /\ phase = "serverClose" /\ phase' = "exited" /\ listening' = FALSE
  /\ call' = [c \in Calls |-> IF At(c, "idle") THEN call[c]
                              ELSE [call[c] EXCEPT !.at = "over", !.told = IF @ = "" THEN Lost(c) ELSE @]]
  /\ wire' = [c \in Calls |-> <<>>]
  /\ \E killed \in SUBSET {c \in Calls : command[c] = "running"} :
       command' = [c \in Calls |-> IF c \in killed THEN "exited" ELSE command[c]]
  /\ UNCHANGED <<config, stopping, due, heard, said, managed>>

-----------------------------------------------------------------------------
Handle(c) ==
  \/ PlainHandler(c) \/ ProcessStart(c) \/ ProcessStop(c)
  \/ BrowserStart(c) \/ BrowserStop(c) \/ IsRunning(c) \/ PageMethod(c) \/ PageReturns(c)
  \/ StreamBegins(c) \/ RunBashReturns(c) \/ StreamCancelled(c)

Shutdown == StopAll \/ CloseBrowser \/ Exit

Next ==
  \/ \E c \in Calls, tool \in Tried : CallTool(c, tool)
  \/ \E c \in Calls, probe \in Probed : OtherCalls(c, probe[1], probe[2])
  \/ \E c \in Calls : Handle(c) \/ TailReturns(c) \/ CommandWrites(c) \/ Receive(c) \/ ConnectionLost(c)
  \/ \E listens \in BOOLEAN : Signal(listens)
  \/ Shutdown

\* Handlers and callers go on (a command is ended by its timeout) unless they are
\* stuck, and so does main.  Nothing is assumed of the environment: calls, output,
\* the exit of a process that is followed, lost connections and the signal may never
\* come.
Fairness ==
  /\ \A c \in Calls : WF_vars(Handle(c)) /\ WF_vars(Receive(c))
  /\ WF_vars(Shutdown)
Spec == Init /\ [][Next]_vars /\ Fairness

-----------------------------------------------------------------------------
(* Properties *)

\* "validates 'Authorization: Bearer <token>' on every request": no handler, of a
\* unary procedure or of a stream, runs for a caller without the worker's token,
\* before or during the shutdown; and the MCP server with the same environment is
\* never turned away.
AuthExact ==
  \A c \in Calls :
    /\ call[c].at \notin {"idle", "over"} \/ c \in alive \cup {browser} \/ said[c] # <<>> =>
         config.worker = "" \/ call[c].header = Bearer(config.worker)
    /\ call[c].mcp /\ config.mcp = config.worker => call[c].told # "Unauthenticated"

\* What was listed or running when the shutdown began is gone when the worker has
\* exited, whatever calls were accepted meanwhile, but for the processes whose kill
\* was refused.  (What these calls started may be left, and so may bash commands: main
\* waits for none of them.)
ExitLeavesOnlyLate ==
  phase = "exited" => alive \cap due \subseteq stopping /\ browser \notin due \ {Nobody}

\* run_bash answers without an error only with all the lines the handler has read
\* and the exit code of a command that has ended, also when the connection breaks or
\* the worker exits between the last line, the exit code and the end of the stream.
BashAnswersFaithful ==
  \A c \in Calls : call[c].rpc = "RunBash" /\ call[c].told = "ok" =>
    /\ command[c] = "exited"
    /\ RunBash(heard[c]) = [lines |-> Len(said[c]) - 1, code |-> Last(said[c])]

(* What these three rest on *)

Stages == {"idle", "handling", "spawned", "checked", "acting", "stuck", "streaming", "over"}
Answers == {"", "NotFound", "Unauthenticated", "Unavailable", "answered", "ok", "error"}
ExitCodes == {"exit 0", "exit 1"}
Messages == {"line", "end", "err"} \cup ExitCodes
Rpcs == {""} \cup {Tools[tool] : tool \in Tried} \cup {probe[1] : probe \in Probed}
Headers == {NoHeader, Bearer(Token)} \cup {probe[2] : probe \in Probed}
CallStates == [mcp : BOOLEAN, rpc : Rpcs, header : Headers, at : Stages, told : Answers]
Starters == Calls \cup {Earlier}

\* Every variable has a value of its kind.
TypeOK ==
  /\ config \in [worker : {"", Token}, mcp : {Token}] /\ listening \in BOOLEAN
  /\ phase \in {"serving", "stopAll", "stopping", "browserStop", "serverClose", "exited", "hung"}
  /\ call \in [Calls -> CallStates]
  /\ wire \in [Calls -> Seq(Messages)] /\ heard \in [Calls -> Seq(Messages)]
  /\ said \in [Calls -> Seq(Messages)]
  /\ command \in [Calls -> {"none", "running", "exited"}]
  /\ alive \subseteq Starters /\ listed \subseteq Starters /\ stopping \subseteq Starters
  /\ browser \in Starters \cup {Nobody} /\ mutex \in Calls \cup {Nobody, Main}
  /\ due \subseteq Starters \cup {Nobody}

\* A handler is where its procedure can take it, and what a call has started or sent
\* is that of a handler that got so far.
HandlerOf(c) ==
  /\ At(c, "spawned") => call[c].rpc = "ProcessStart"
  /\ call[c].at \in {"checked", "acting"} => call[c].rpc \in PageCalls
  /\ At(c, "stuck") => call[c].rpc \in Untimed
  /\ At(c, "streaming") => call[c].rpc \in Streams
  /\ c \in alive => call[c].rpc = "ProcessStart" /\ call[c].at \in {"spawned", "over"}
  /\ c \in listed => call[c].rpc = "ProcessStart" /\ At(c, "over")
  /\ c = browser => call[c].rpc = "BrowserStart" /\ At(c, "over")
  /\ call[c].at \in {"idle", "handling"} => wire[c] = <<>> /\ heard[c] = <<>> /\ said[c] = <<>>
  /\ call[c].at \in {"idle", "handling"} => command[c] = "none"

\* The shutdown's progress on what was due when it began.
ShutdownInv ==
  /\ Earlier \in alive => Earlier \in listed
  /\ phase = "serving" => due = {}
  /\ \A c \in due \cap Calls : At(c, "over") /\ (c \in listed \/ call[c].rpc = "BrowserStart")
  /\ phase \in {"stopping", "browserStop", "serverClose", "exited"} => due \cap alive \subseteq stopping
  /\ phase \in {"serverClose", "exited"} => browser \notin due \ {Nobody}

\* A command that has ended has said its lines and one exit code.
Finished(c) ==
  /\ At(c, "over") /\ command[c] = "exited" /\ said[c] # <<>>
  /\ \A i \in 1..(Len(said[c]) - 1) : said[c][i] = "line"
  /\ said[c][Len(said[c])] \in ExitCodes

\* As long as the caller of RunBash has been told nothing, what it has heard and what is
\* on its way are what the command said, then the end of the stream.
StreamOf(c) ==
  call[c].rpc = "RunBash" =>
    /\ At(c, "streaming") => command[c] = "running" /\ \A i \in 1..Len(said[c]) : said[c][i] = "line"
    /\ At(c, "streaming") /\ call[c].told = "" => heard[c] \o wire[c] = said[c]
    /\ At(c, "over") /\ call[c].told = "" =>
         \/ Finished(c) /\ heard[c] \o wire[c] = Append(said[c], "end")
         \/ heard[c] = <<>> /\ wire[c] = <<"err">>
    /\ call[c].told = "ok" => Finished(c) /\ heard[c] = said[c]

\* The inductive invariant of the three.
ServerInv ==
  /\ TypeOK
  /\ AuthExact
  /\ ShutdownInv
  /\ \A c \in Calls : HandlerOf(c) /\ StreamOf(c)

\* Every call that waits for other calls, or others for it, is answered (of the plain
\* handlers nothing is said: a remote may keep one waiting; WatchFiles and ProcessTail
\* last as long as their caller or process), and a shutdown that has begun ends, unless
\* it is stuck itself: a stop with a descendant's pipes, a browser's method with a page
\* that does not answer.  The latter keeps the other calls to the browser, and the
\* shutdown, waiting for the mutex, and no others.
Blocked == mutex = Main \/ \E c \in Calls : At(c, "stuck") /\ mutex = c
CallsEnd ==
  /\ \A c \in Calls :
       At(c, "handling") /\ call[c].rpc \in BrowserCalls \cup {"ProcessStart", "ProcessStop", "RunBash"} ~>
         ~Waiting(c) \/ At(c, "stuck") \/ (call[c].rpc \in BrowserCalls /\ Blocked)
  /\ phase # "serving" ~> phase \in {"exited", "hung"} \/ Blocked

\* Actions a browser_act call may list.  A wait for a visible element is not among
\* them: the worker takes it for one for an attached element (browser.go:1090).
Actions ==
  [type : {"Click", "type", "press", "scroll", "wait_for_selector", "hover", "tap"}, selector : {"", "#a"},
   delay : {-1, 0, 5}, button : {"", "left", "RIGHT", "middle", "fourth"}, clicks : {-1, 0, 2},
   modifiers : {<<>>, <<"Shift", "hyper", "alt">>}, scroll : {-3, 0, 3} \X {0, 3},
   state : {"attached", "Hidden", "detached"}, timeout : {0, 100}]

\* What such an action asks for by the tool's words for it.
DefaultWait == 30000
AtLeast(n, default) == IF n > 0 THEN n ELSE default
ButtonAsked(word) == CASE word = "RIGHT" -> "right" [] word = "middle" -> "middle" [] OTHER -> "left"
KeysAsked(words) == IF words = <<>> THEN <<>> ELSE <<"shift", "alt">>
StateAsked(word) == IF word = "Hidden" THEN "hidden" ELSE word
Asked(a) ==
  CASE a.type = "Click" /\ a.selector # "" ->
         [does |-> "click", clicks |-> AtLeast(a.clicks, 1), button |-> ButtonAsked(a.button)]
    [] a.type = "type" /\ a.selector # "" -> [does |-> "type", delay |-> AtLeast(a.delay, 0)]
    [] a.type = "press" -> [does |-> "press", held |-> KeysAsked(a.modifiers)]
    [] a.type = "scroll" /\ a.selector # "" -> [does |-> "scroll into view"]
    [] a.type = "scroll" /\ a.selector = "" -> [does |-> "scroll by", x |-> a.scroll[1], y |-> a.scroll[2]]
    [] a.type = "wait_for_selector" /\ a.selector # "" ->
         [does |-> "wait", timeout |-> AtLeast(a.timeout, DefaultWait), until |-> StateAsked(a.state)]
    [] a.type = "hover" /\ a.selector # "" -> [does |-> "hover"]
    [] OTHER -> [does |-> "error"]

\* The status codes of gRPC, in the order of their numbers from zero.
Statuses == <<"OK", "Canceled", "Unknown", "InvalidArgument", "DeadlineExceeded", "NotFound", "AlreadyExists",
              "PermissionDenied", "ResourceExhausted", "FailedPrecondition", "Aborted", "OutOfRange",
              "Unimplemented", "Internal", "Unavailable", "DataLoss", "Unauthenticated">>

\* The tools' words and the worker's reading of them, over all such actions, and over
\* the formats, the snapshot types and the statuses.
WordsCarry ==
  /\ \A a \in Actions : executeAction(convertBrowserActionToWorker(a)) = Asked(a)
  /\ BrowserSnapshot(<<>>) = {"dom", "accessibility"} /\ BrowserSnapshot(<<"DOM">>) = {"dom"}
  /\ BrowserSnapshot(<<"accessibility", "DOM">>) = {"dom", "accessibility"}
  /\ \A f \in {"", "png", "gif"} : BrowserScreenshot(f) = "image/png"
  /\ \A f \in {"JPG", "jpeg"} : BrowserScreenshot(f) = "image/jpeg"
  /\ \A n \in DOMAIN Statuses :
       grpcRequest(TRUE, TRUE, "none", FALSE, 64 + n - 1,
                   << <<"ERROR:", "">>, <<"Code: ", Statuses[n]>>, <<"Message: ", "m">> >>)
         = [error |-> "", code |-> n - 1, message |-> "m"]
  /\ grpcRequest(TRUE, TRUE, "none", FALSE, 1, << <<"Failed", "to dial">> >>).code = 2

\* What a tool's words ask for is what the worker does, with zero, empty, unknown and
\* negative values taken for the worker's defaults on both sides of the protocol;
\* and the status grpcurl prints is the status the tool answers, UNKNOWN if it prints
\* none: so for every tool call that a handler has taken.
ToolsCarry == \A c \in Calls : call[c].mcp /\ ~At(c, "idle") => WordsCarry
=============================================================================
