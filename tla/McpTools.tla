------------------------------ MODULE McpTools ------------------------------
(***************************************************************************)
(* The MCP server's side of a call: the tools (src/cmd/remotehands-mcp),   *)
(* how their arguments become a request of the worker and how the worker's *)
(* answer becomes a tool result (src/mcptools/direct_ops.go), with what    *)
(* the worker reads out of such a request (src/worker/browser.go) and out  *)
(* of grpcurl's output (src/worker/grpc.go).  Fields that are copied as    *)
(* they are (paths, URLs, bodies, page ids, the value of an action, which  *)
(* is given where the action needs one) are left out.                      *)
(***************************************************************************)
EXTENDS Integers, SequencesExt

(* Each tool calls one procedure; an error of the call is its answer. *)
FileTools == [read_file |-> "ReadFile", write_file |-> "WriteFile", delete_file |-> "DeleteFile",
              list_files |-> "ListFiles", glob |-> "Glob", grep |-> "Grep"]
GitTools == [git_status |-> "GitStatus", git_diff |-> "GitDiff", git_commit |-> "GitCommit",
             git_clone |-> "GitClone", git_push |-> "GitPush"]
BrowserTools == [browser_start |-> "BrowserStart", browser_stop |-> "BrowserStop",
                 browser_navigate |-> "BrowserNavigate", browser_list_pages |-> "BrowserListPages",
                 browser_close_page |-> "BrowserClosePage", browser_screenshot |-> "BrowserScreenshot",
                 browser_snapshot |-> "BrowserSnapshot", browser_act |-> "BrowserAct"]
RequestTools == [http_request |-> "HttpRequest", http_clear_cookies |-> "HttpClearCookies",
                 grpc_request |-> "GrpcRequest"]
ProcessTools == [process_start |-> "ProcessStart", process_stop |-> "ProcessStop",
                 process_list |-> "ProcessList", process_logs |-> "ProcessLogs"]
StreamTools == [run_bash |-> "RunBash", watch_files |-> "WatchFiles"]
Tools == FileTools @@ GitTools @@ BrowserTools @@ RequestTools @@ ProcessTools @@ StreamTools

-----------------------------------------------------------------------------
(* Words of the tools' arguments, and the enumerations of the protocol *)

Unspecified == "unspecified"
ActionTypes == {"click", "fill", "type", "press", "select_option", "check", "uncheck", "hover",
                "scroll", "focus", "evaluate", "wait_for_selector"}
Buttons == {"left", "right", "middle"}
Modifiers == {"alt", "control", "meta", "shift"}
WaitStates == {"visible", "hidden", "attached", "detached"}

ToLower(w) == CASE w = "Click" -> "click" [] w = "RIGHT" -> "right" [] w = "Shift" -> "shift"
                [] w = "Hidden" -> "hidden" [] w = "JPG" -> "jpg" [] w = "DOM" -> "dom" [] OTHER -> w

Enum(words, w) == IF ToLower(w) \in words THEN ToLower(w) ELSE Unspecified
parseActionTypeWorker(t) == Enum(ActionTypes, t)
parseMouseButtonWorker(b) == Enum(Buttons, b)
parseModifierWorker(m) == Enum(Modifiers, m)
parseWaitStateWorker(s) == Enum(WaitStates, s)
parseSnapshotTypeWorker(t) == Enum({"dom", "accessibility"}, t)
parseScreenshotFormatWorker(f) ==
  CASE ToLower(f) \in {"jpeg", "jpg"} -> "jpeg" [] ToLower(f) = "webp" -> "webp" [] OTHER -> "png"

-----------------------------------------------------------------------------
(* browser_act *)

Nil == <<>>
Optional(v, zero) == IF v = zero THEN Nil ELSE <<v>>
OrElse(opt, default) == IF opt = Nil THEN default ELSE Head(opt)

\* Mutant: only a positive offset counts as given.
OffsetIfPositive(v) == IF v <= 0 THEN Nil ELSE <<v>>

\* scroll_x and scroll_y: zero is not sent.
Offset(v) == Optional(v, 0)

\* A zero value is a field that is not set.
convertBrowserActionToWorker(a) ==
  [type      |-> parseActionTypeWorker(a.type),
   selector  |-> Optional(a.selector, ""),
   delay     |-> Optional(a.delay, 0),
   button    |-> IF a.button = "" THEN Nil ELSE <<parseMouseButtonWorker(a.button)>>,
   clicks    |-> Optional(a.clicks, 0),
   modifiers |-> [i \in DOMAIN a.modifiers |-> parseModifierWorker(a.modifiers[i])],
   scroll    |-> <<Offset(a.scroll[1]), Offset(a.scroll[2])>>,
   state     |-> IF a.state = "" THEN Nil ELSE <<parseWaitStateWorker(a.state)>>,
   timeout   |-> Optional(a.timeout, 0)]

\* The worker's defaults for what is not set, not positive or unspecified.
Positive(opt, default) == IF OrElse(opt, 0) > 0 THEN Head(opt) ELSE default
DefaultTimeout == 30000

\* The modifiers of a press, without those the protocol does not know.
Hold(held, m) == IF m = Unspecified THEN held ELSE Append(held, m)
Held(modifiers) ==
  LET held[i \in 0..Len(modifiers)] == IF i = 0 THEN <<>> ELSE Hold(held[i - 1], modifiers[i])
  IN held[Len(modifiers)]

\* What executeAction does with a request.
executeAction(w) ==
  LET onElement == w.type \in ActionTypes \ {"press", "scroll", "evaluate"}
  IN CASE w.type = Unspecified \/ (onElement /\ w.selector = Nil) -> [does |-> "error"]
       [] w.type = "click" /\ w.selector # Nil ->
            [does |-> "click", clicks |-> Positive(w.clicks, 1),
             button |-> IF w.button \in {<<"right">>, <<"middle">>} THEN Head(w.button) ELSE "left"]
       [] w.type = "type" /\ w.selector # Nil -> [does |-> "type", delay |-> Positive(w.delay, 0)]
       [] w.type = "press" -> [does |-> "press", held |-> Held(w.modifiers)]
       [] w.type = "scroll" -> IF w.selector # Nil THEN [does |-> "scroll into view"]
                               ELSE [does |-> "scroll by", x |-> OrElse(w.scroll[1], 0), y |-> OrElse(w.scroll[2], 0)]
       [] w.type = "wait_for_selector" /\ w.selector # Nil ->
            [does |-> "wait", timeout |-> Positive(w.timeout, DefaultTimeout),
             until |-> IF OrElse(w.state, Unspecified) \in {"hidden", "detached"} THEN Head(w.state) ELSE "attached"]
       [] OTHER -> [does |-> w.type]

\* The parts of a snapshot: those named, or both when none is.
Snapshot(types) ==
  LET named == ToSet(types) \ {Unspecified} IN IF named = {} THEN {"dom", "accessibility"} ELSE named
BrowserSnapshot(types) == Snapshot([i \in DOMAIN types |-> parseSnapshotTypeWorker(types[i])])

screenshotFormatMapping(f) ==
  CASE f = "jpeg" -> "image/jpeg" [] f = "webp" -> "image/webp" [] OTHER -> "image/png"
BrowserScreenshot(format) == screenshotFormatMapping(parseScreenshotFormatWorker(format))

-----------------------------------------------------------------------------
(* grpc_request *)

grpcCodeMap ==
  [OK |-> 0, Canceled |-> 1, Unknown |-> 2, InvalidArgument |-> 3, DeadlineExceeded |-> 4,
   NotFound |-> 5, AlreadyExists |-> 6, PermissionDenied |-> 7, ResourceExhausted |-> 8,
   FailedPrecondition |-> 9, Aborted |-> 10, OutOfRange |-> 11, Unimplemented |-> 12,
   Internal |-> 13, Unavailable |-> 14, DataLoss |-> 15, Unauthenticated |-> 16]

\* A line of grpcurl's stderr is a pair: "Code: ", "Message: " or another start, and the rest.
\* The last line of each kind counts; without one, UNKNOWN and the whole text.
parseGrpcurlError(stderr) ==
  LET codes == {i \in DOMAIN stderr : stderr[i][1] = "Code: " /\ stderr[i][2] \in DOMAIN grpcCodeMap}
      messages == {i \in DOMAIN stderr : stderr[i][1] = "Message: "}
  IN [code |-> IF codes = {} THEN 2 ELSE grpcCodeMap[stderr[Max(codes)][2]],
      message |-> IF messages = {} THEN "all of stderr" ELSE stderr[Max(messages)][2]]

\* "missing" is grpcurl not being installed; exit is its status.
grpcRequest(address, method, protoFile, missing, exit, stderr) ==
  CASE ~address \/ ~method -> [error |-> "InvalidArgument"]
    [] address /\ method /\ protoFile = "rejected" -> [error |-> "NotFound"]
    [] address /\ method /\ protoFile # "rejected" /\ missing -> [error |-> "Internal"]
    [] address /\ method /\ protoFile # "rejected" /\ ~missing /\ exit = 0 ->
         [error |-> "", code |-> 0, message |-> ""]
    [] OTHER -> LET parsed == parseGrpcurlError(stderr)
                IN [error |-> "", code |-> parsed.code, message |-> parsed.message]
=============================================================================
