-------------------------- MODULE ProcessLifecycle --------------------------
(***************************************************************************)
(* What the process manager promises its clients, without goroutines,      *)
(* pipes, channels or signals: a process is launched once, ends once, and  *)
(* its end is announced once, with the code it ended with; whoever follows *)
(* it with Tail is told that code after the announcement and at most once; *)
(* a Stop that took it as its target succeeds only after the announcement. *)
(***************************************************************************)
CONSTANTS Procs, Tails, Stops, Codes, NoProc, NoCode

VARIABLES
  phase,    \* "none" | "running" | "exited", as List reports it
  ended,    \* the code the process ended with
  code,     \* the code announced
  follows,  \* the process a Tail follows
  told,     \* the code its client was sent
  target,   \* the process a Stop works on
  stopped   \* the Stops that returned nil

lifecycleVars == <<phase, ended, code, follows, told, target, stopped>>

Init ==
  /\ phase = [p \in Procs |-> "none"]
  /\ ended = [p \in Procs |-> NoCode]
  /\ code = [p \in Procs |-> NoCode]
  /\ follows = [t \in Tails |-> NoProc]
  /\ told = [t \in Tails |-> NoCode]
  /\ target = [i \in Stops |-> NoProc]
  /\ stopped = {}

Launch(p) ==
  /\ phase[p] = "none"
  /\ phase' = [phase EXCEPT ![p] = "running"]
  /\ UNCHANGED <<ended, code, follows, told, target, stopped>>

End(p, c) ==
  /\ ended[p] = NoCode
  /\ ended' = [ended EXCEPT ![p] = c]
  /\ UNCHANGED <<phase, code, follows, told, target, stopped>>

Announce(p) ==
  /\ phase[p] = "running" /\ ended[p] # NoCode
  /\ phase' = [phase EXCEPT ![p] = "exited"]
  /\ code' = [code EXCEPT ![p] = ended[p]]
  /\ UNCHANGED <<ended, follows, told, target, stopped>>

Follow(t, p) ==
  /\ follows[t] = NoProc /\ phase[p] = "running"
  /\ follows' = [follows EXCEPT ![t] = p]
  /\ UNCHANGED <<phase, ended, code, told, target, stopped>>

Tell(t, p) ==
  /\ follows[t] = p /\ phase[p] = "exited" /\ told[t] = NoCode
  /\ told' = [told EXCEPT ![t] = code[p]]
  /\ UNCHANGED <<phase, ended, code, follows, target, stopped>>

Aim(i, p) ==
  /\ target[i] = NoProc /\ phase[p] = "running"
  /\ target' = [target EXCEPT ![i] = p]
  /\ UNCHANGED <<phase, ended, code, follows, told, stopped>>

Succeed(i, p) ==
  /\ target[i] = p /\ phase[p] = "exited" /\ i \notin stopped
  /\ stopped' = stopped \cup {i}
  /\ UNCHANGED <<phase, ended, code, follows, told, target>>

Next ==
  \E p \in Procs :
    \/ Launch(p) \/ Announce(p) \/ \E c \in Codes : End(p, c)
    \/ \E t \in Tails : Follow(t, p) \/ Tell(t, p)
    \/ \E i \in Stops : Aim(i, p) \/ Succeed(i, p)

Spec == Init /\ [][Next]_lifecycleVars
=============================================================================
