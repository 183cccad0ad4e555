------------------------------- MODULE RWLock -------------------------------
(* What a file lock promises its callers: readers share the file, a writer *)
(* has it alone.                                                           *)
CONSTANTS Writer, Reader

VARIABLE inside    \* the processes within their `with' blocks

Enter(p) ==
  /\ p \notin inside
  /\ IF p \in Reader THEN inside \subseteq Reader ELSE inside = {}
  /\ inside' = inside \cup {p}

Exit(p) == p \in inside /\ inside' = inside \ {p}

Init == inside = {}
Next == \E p \in Writer \cup Reader : Enter(p) \/ Exit(p)
Spec == Init /\ [][Next]_inside
=============================================================================
