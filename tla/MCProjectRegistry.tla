-------------------------- MODULE MCProjectRegistry --------------------------
(***************************************************************************)
(* A checkout m, a worktree w of it and another tree k, beside three ids.  *)
(***************************************************************************)
EXTENDS ProjectRegistry, TLC

CONSTANTS m, w, k, x, y, z, a, b

MCPrimary == (m :> m) @@ (w :> m) @@ (k :> k)

Call(op, tree, ids, share) == [op |-> op, tree |-> tree, ids |-> ids, share |-> share]
Writes(trees) == {Call("write", r, {}, FALSE) : r \in trees}
Heals(trees) == {Call("heal", r, {}, FALSE) : r \in trees}
Repoints(trees, ids) == {Call("repoint", r, {id}, FALSE) : r \in trees, id \in ids}

NoMarks == [r \in Trees |-> Absent]
Entry(id, path) == [id |-> id, path |-> path]
Start(marks, olds, entries, held) ==
  [marker |-> marks, legacy |-> olds, index |-> entries, databases |-> held]

\* Nothing yet, but an orphan; k marked by an older version, and registered as
\* two projects; k a clone marked as m is registered; w's marker blank.
MCStarts ==
  {Start(NoMarks, NoMarks, <<>>, {x}),
   Start(NoMarks, [NoMarks EXCEPT ![k] = x], <<Entry(y, k), Entry(x, k)>>, {x, y}),
   Start([NoMarks EXCEPT ![k] = y], NoMarks, <<Entry(y, m)>>, {y}),
   Start([NoMarks EXCEPT ![w] = Blank], NoMarks, <<Entry(x, m), Entry(y, k)>>, {x, y})}

\* Two processes that write, heal, repoint m and w, and remove.
MCCalls ==
  (a :> Writes({w, k}) \cup Heals({m, k}) \cup {Call("repoint", w, {x}, TRUE)})
  @@ (b :> Writes({w}) \cup Repoints({m}, {x, y}) \cup Repoints({w}, {y})
           \cup {Call("remove", m, {x}, FALSE), Call("remove", k, {x, y}, FALSE)})

=============================================================================
