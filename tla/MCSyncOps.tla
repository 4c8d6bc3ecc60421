----------------------------- MODULE MCSyncOps -----------------------------
(* A timer on task t is started (q1: it creates entry n, stops entry a and     *)
(* changes t); an edit of t was sent under the same op_id (q1x).  The device's *)
(* next operation deletes t and its entry a (q2).                              *)
EXTENDS SyncOps, TLC

CONSTANTS o1, o2, q1, q1x, q2, d1, t, a, n

MCIdOf == [q \in Request |-> IF q = q2 THEN o2 ELSE o1]
MCDeviceOf == [o \in OpId |-> d1]
MCSeqOf == [o \in OpId |-> IF o = o1 THEN 0 ELSE 1]
MCActionOf == [q \in Request |-> CASE q = q1 -> "create" [] q = q1x -> "update" [] q = q2 -> "delete"]
MCEntityOf == [q \in Request |-> IF q = q1 THEN n ELSE t]
MCAlsoOf == [q \in Request |-> CASE q = q1 -> {{a, t}} [] q = q1x -> {{}} [] q = q2 -> {{a}}]
MCBaseOf == [q \in Request |-> IF q = q2 THEN 0 ELSE NoBase]
MCMaxOther == [e \in Entity |-> IF e = t THEN 1 ELSE 0]
=============================================================================
