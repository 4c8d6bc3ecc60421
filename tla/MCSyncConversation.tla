------------------------- MODULE MCSyncConversation -------------------------
(* One conversation, with a project that its second user may not read. *)
EXTENDS SyncConversation, TLC

CONSTANTS u1, u2, open, closed

MCReadableBy == [p \in Project |-> IF p = open THEN {u1, u2} ELSE {u1}]
ConversationSymmetry == Permutations(Tx) \cup Permutations(Message)
=============================================================================
