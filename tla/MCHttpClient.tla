---------------------------- MODULE MCHttpClient ----------------------------
EXTENDS HttpClient, TLC

\* Calls, and jars, differ only in what happens to them.
CallSymmetry == Permutations(Reqs) \cup Permutations(Jars)
=============================================================================
