---------------------------- MODULE ProcService ----------------------------
(***************************************************************************)
(* What the server promises its clients and its host, whatever the         *)
(* interleaving of its threads and of the SIGCHLD handler: a session       *)
(* serves one command at a time and answers each, only a session that is   *)
(* serving a command creates children, a child that a session kills ends,  *)
(* and every child that ends is reaped, exactly once.                      *)
(***************************************************************************)
CONSTANTS Thread, Pid

VARIABLES live,    \* children that run
          dead,    \* children that ended and are still in the process table
          condemned, \* running children that a session has killed
          session  \* each session: closed, idle, or busy with a command

vars == <<live, dead, condemned, session>>

Init ==
  /\ live = {}
  /\ dead = {}
  /\ condemned = {}
  /\ session = [t \in Thread |-> "closed"]

Move(t, from, to) ==
  /\ session[t] = from
  /\ session' = [session EXCEPT ![t] = to]

Connect(t) == Move(t, "closed", "idle") /\ UNCHANGED <<live, dead, condemned>>
Leave(t)   == Move(t, "idle", "closed") /\ UNCHANGED <<live, dead, condemned>>
Ask(t)     == Move(t, "idle", "busy") /\ UNCHANGED <<live, dead, condemned>>
Done(t)    == Move(t, "busy", "idle") /\ UNCHANGED <<live, dead, condemned>>

Create(t, p) ==
  /\ session[t] = "busy"
  /\ p \notin live \cup dead
  /\ live' = live \cup {p}
  /\ UNCHANGED <<dead, condemned, session>>

Condemn(t, p) ==
  /\ session[t] = "busy"
  /\ p \in live
  /\ condemned' = condemned \cup {p}
  /\ UNCHANGED <<live, dead, session>>

End(p) ==
  /\ p \in live
  /\ live' = live \ {p}
  /\ dead' = dead \cup {p}
  /\ condemned' = condemned \ {p}
  /\ UNCHANGED session

Bury(p) ==
  /\ p \in dead
  /\ dead' = dead \ {p}
  /\ UNCHANGED <<live, condemned, session>>

Next ==
  \/ \E t \in Thread : Connect(t) \/ Leave(t) \/ Ask(t) \/ Done(t)
  \/ \E t \in Thread, p \in Pid : Create(t, p) \/ Condemn(t, p)
  \/ \E p \in Pid : End(p) \/ Bury(p)

SafeSpec == Init /\ [][Next]_vars

Spec ==
  /\ SafeSpec
  /\ \A t \in Thread : WF_vars(Done(t))
  /\ \A p \in Pid : WF_vars(Bury(p)) /\ WF_vars(p \in condemned /\ End(p))
=============================================================================
