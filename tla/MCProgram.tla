----------------------------- MODULE MCProgram -----------------------------
(***************************************************************************)
(* Small instances of Program for TLC.                                     *)
(***************************************************************************)
EXTENDS Program, TLC

CONSTANTS o1, o2, o3, u1, r1

MCFds == 3 .. 5
NoRaw == {}
OneRaw == {r1}
WithUdp == {u1}
UdpPtrs == {o1, o2, o3, u1}
RawPtrs == {o1, o2, o3, r1}
UdpOwners == [fd \in MCFds |-> UdpPtrs]
RawOwners == [fd \in MCFds |-> RawPtrs]
ReadOnly == {"POLLIN"}
MCContainers == {Listeners, Clients, Connections}
Symmetry == Permutations({o1, o2, o3})

Hooks == ServerHooks \cup ClientHooks \cup RawHooks \cup BasicHooks \cup UdpHooks
AnyOp == {"listen", "connect", "close", "close_server", "close_client",
          "open", "bind", "send_to", "raw_open", "raw_receive", "raw_send"}

(* User code calls anything anywhere.                                      *)
AnyHooks == [hook \in Hooks |-> AnyOp]

(* A program that lets a socket finish closing before it closes the server *)
(* or the client, or opens a listener or a connection again.  A listener   *)
(* is not even opened by DISCONNECT: the client may have been closed by    *)
(* the CLOSED hook of another listener, whose key is not free yet.  Udp    *)
(* and raw sockets may be opened again in their CLOSED hooks.              *)
CarefulHooks ==
    [hook \in Hooks |->
        CASE hook \in {"ACCEPT", "CONNECT", "RECEIVE", "UDP_RECEIVE"} -> AnyOp
          [] hook = "LISTEN" -> {"listen", "close"}
          [] hook \in {"CLOSED", "DISCONNECT", "ERROR"} -> {"close"}
          [] hook = "UDP_CLOSED" -> {"bind"}
          [] hook = "SOCKET_CLOSED" -> {"raw_open"}
          [] hook = "READABLE" -> {"raw_receive", "close"}
          [] hook \in RawHooks -> {"raw_send", "close"}
          [] hook = "BIND" -> {"send_to"}]

(* The server is closed by the hook that hears of a lost client.           *)
CloseOnDisconnect == [CarefulHooks EXCEPT !["DISCONNECT"] = {"close_server"}]

(* A lost connection is opened again by the hook that hears of it.         *)
ConnectOnClosed == [CarefulHooks EXCEPT !["CLOSED"] = {"connect"}]

=============================================================================
