---------------------------- MODULE RequestBook ----------------------------
(***************************************************************************)
(* What adding a task under a request key promises, with the store's       *)
(* streams, its calls and their retries left out: a request's task is at   *)
(* one harp, which no other request's is at; however often the request is  *)
(* sent, it is added only when it is nowhere, and it never moves.  A prune *)
(* frees it.                                                               *)
(***************************************************************************)
CONSTANTS Keys, Harps, NoHarp

VARIABLE added   \* key -> the harp its task is at, or NoHarp

Init == added \in [Keys -> Harps \cup {NoHarp}]

Add(k, h) ==
  /\ added[k] = NoHarp
  /\ \A j \in Keys : added[j] # h
  /\ added' = [added EXCEPT ![k] = h]

Free(k) ==
  /\ added[k] # NoHarp
  /\ added' = [added EXCEPT ![k] = NoHarp]

Next == \E k \in Keys : Free(k) \/ \E h \in Harps : Add(k, h)

Spec == Init /\ [][Next]_added
=============================================================================
