----------------------------- MODULE MCDstcRpc -----------------------------
(***************************************************************************)
(* DstcRpc for TLC: two servers that both reply, and two clients, of which *)
(* one makes several calls.                                                *)
(***************************************************************************)
EXTENDS DstcRpc

CONSTANTS c1, c2, s1, s2, a1
MCClients == {c1, c2}
MCServers == {s1, s2}
MCMaxCalls == [c \in Clients |-> IF c = c1 THEN 2 ELSE 1]
MCPlacements == {p \in [Clients -> Addresses] : p[c1] = a1}
MCConnected == {Links, {<<c1, s1>>}}
============================================================================
