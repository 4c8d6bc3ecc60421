---------------------------- MODULE EditDelivery ----------------------------
(***************************************************************************)
(* What becomes of an edit made on the device: it waits in the outbox, it  *)
(* takes effect on the server, or it is given up explicitly.  It never     *)
(* disappears, and an effect is never forgotten.                           *)
(***************************************************************************)
CONSTANT Edit

VARIABLE fate    \* per edit, "unmade", "pending", "landed" or "dropped"

Init == fate = [n \in Edit |-> "unmade"]

Move(n, from, to) == fate[n] \in from /\ fate' = [fate EXCEPT ![n] = to]

Make(n) == Move(n, {"unmade"}, "pending")

\* The request that carries several edits lands with all of them; one that is
\* late may land after its edits were given up.
Land(some) ==
  /\ \A n \in some : fate[n] \in {"pending", "landed", "dropped"}
  /\ fate' = [n \in Edit |-> IF n \in some THEN "landed" ELSE fate[n]]

Drop(some) ==
  /\ \A n \in some : fate[n] # "unmade"
  /\ fate' = [n \in Edit |-> IF n \in some /\ fate[n] = "pending" THEN "dropped" ELSE fate[n]]

Next == \/ \E n \in Edit : Make(n)
        \/ \E some \in SUBSET Edit : Land(some) \/ Drop(some)

Spec == Init /\ [][Next]_fate
=============================================================================
