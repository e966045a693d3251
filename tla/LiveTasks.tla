------------------------------- MODULE LiveTasks -------------------------------
(***************************************************************************)
(* What a reader of several projects' tasks is promised: each project it   *)
(* reads, it sees as that project's store stands at one moment of the read *)
(* (task-lists lib.rs:11, "one moment of the store"), however it came by   *)
(* what it knows of it.                                                    *)
(***************************************************************************)
CONSTANT Projects

VARIABLES
  there,  \* project -> the live tasks its store holds
  seen    \* project -> the tasks the reader last saw there

vars == <<there, seen>>

Init == seen = [p \in Projects |-> {}]

\* Those who write make whatever they make of what is there; nothing is seen.
Write == UNCHANGED seen

Read(p) ==
  /\ seen' = [seen EXCEPT ![p] = there[p]]
  /\ UNCHANGED there

Next == Write \/ \E p \in Projects : Read(p)

Spec == Init /\ [][Next]_vars
=============================================================================
