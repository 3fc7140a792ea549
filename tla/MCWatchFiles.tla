---------------------------- MODULE MCWatchFiles ----------------------------
EXTENDS WatchFiles

\* home/{f, g, sub/{h, new/}}
MCParent(x) ==
  CASE x \in {"f", "g", "sub"} -> "home"
    [] x \in {"h", "new"} -> "sub"
    [] OTHER -> "home"
=============================================================================
