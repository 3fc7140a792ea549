------------------------------ MODULE MCServer ------------------------------
(* One tool per kind of handler, and callers with no, a wrong and the right header. *)
EXTENDS Server

MCTried == {"run_bash", "watch_files", "process_start", "process_stop",
            "browser_start", "browser_act", "browser_stop"}
MCProbed == {<<"Unknown", NoHeader>>, <<"Glob", NoHeader>>, <<"Glob", <<"Basic", Token>>>>,
             <<"ProcessTail", Bearer("other")>>, <<"ProcessTail", Bearer(Token)>>}
=============================================================================
