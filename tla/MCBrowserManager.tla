-------------------------- MODULE MCBrowserManager --------------------------
(* BrowserManager with two tabs, documents that share node ids, one with an *)
(* ignored node inside, and short action lists.                             *)
EXTENDS BrowserManager

Node(parent, backend, ignored) ==
  [parent |-> parent, backend |-> backend, ignored |-> ignored]
MCLayouts ==
  {<<Node(0, 1, FALSE), Node(1, 2, FALSE)>>,
   <<Node(0, 2, FALSE), Node(1, 1, TRUE), Node(2, 3, FALSE)>>}

css == [by |-> "css"]
role == [by |-> "role"]
none == [by |-> "none"]
On(type, sel) == [type |-> type, sel |-> sel]
Keys(mods, keys) == [type |-> "press", sel |-> none, mods |-> mods, keys |-> keys]
Eval(js) == [type |-> "evaluate", sel |-> none, js |-> js]
Wait(sel, s) == [type |-> "wait_for_selector", sel |-> sel, state |-> s]

MCScripts ==
  {<<On("click", css), On("fill", [by |-> "ref", node |-> 2])>>,
   <<Keys(<<"Control", "unspecified", "Shift">>, <<"a", "b">>), Keys(<<"Alt">>, <<"unknown">>)>>,
   <<On("scroll", none), Eval("value"), On("hover", none), On("hover", css)>>,
   <<On("check", role), On("focus", role), On("scroll", role), On("nonsense", none)>>,
   <<Eval("promise"), Wait(css, "visible"), Eval("none")>>,
   <<Wait(css, "hidden")>>, <<Wait(css, "detached")>>, <<Wait(role, "hidden")>>,
   <<Wait(role, "detached")>>, <<Wait(role, "attached")>>, <<Wait(role, "unknown")>>}
=============================================================================
