----------------------------- MODULE MCRpcTracker -----------------------------
(* One device, and two clients of different priority. *)
EXTENDS RpcTracker

CONSTANTS s1, c1, c2

MCPriority == [c \in {c1, c2} |-> IF c = c1 THEN 1 ELSE 2]
=============================================================================
