------------------------------ MODULE UdpEcho ------------------------------
(***************************************************************************)
(* The programs examples/udp-client and examples/udp-server.  The client   *)
(* sends a datagram after each return of events::poll, the server answers  *)
(* each one it hears of in its RECEIVE hook, and nothing else makes either *)
(* of them send: there is no timeout and no retry.                         *)
(*                                                                         *)
(* Datagrams are counted; which of them is which does not matter to either *)
(* program, so that reordering them changes nothing.                       *)
(***************************************************************************)
EXTENDS Integers

CONSTANT MaxFaults  \* bound on the losses, on the duplicates and on the signals

ASSUME UdpEchoAssumption == MaxFaults \in Nat

VARIABLES
    udp_client,   \* where the client program is
    udp_server,   \* where the server program is
    requests,     \* datagrams in front of the server's socket
    replies,      \* datagrams in front of the client's socket
    faults        \* history: datagrams lost and duplicated, polls interrupted

udpEchoVars == <<udp_client, udp_server, requests, replies, faults>>

Faults == {"lost", "duplicated", "interrupted"}

UdpEchoInit ==
    /\ udp_client = "send" /\ udp_server = "bind"
    /\ requests = 0 /\ replies = 0
    /\ faults = [fault \in Faults |-> 0]

Fault(fault) ==
    /\ faults[fault] < MaxFaults
    /\ faults' = [faults EXCEPT ![fault] = @ + 1]

Lose == Fault("lost")

-----------------------------------------------------------------------------
(* The client program.                                                     *)

(* send_to succeeds; a datagram for a socket that is not bound is lost.    *)
ClientSendsTo ==
    /\ udp_client = "send" /\ udp_client' = "poll"
    /\ \/ udp_server # "bind" /\ requests' = requests + 1 /\ UNCHANGED faults
       \/ udp_server = "bind" /\ Lose /\ UNCHANGED requests
    /\ UNCHANGED <<udp_server, replies>>

(* send_to fails: ERROR is executed, and the loop goes on.                 *)
ClientSendFails ==
    /\ udp_client = "send" /\ udp_client' = "poll" /\ Lose
    /\ UNCHANGED <<udp_server, requests, replies>>

(* A mutation of ClientPolls: it does not wait for an answer.              *)
ClientPollsAnyway ==
    /\ udp_client = "poll"
    /\ udp_client' = "send" /\ replies' = replies - 1
    /\ UNCHANGED <<udp_server, requests, faults>>

(* events::poll returns after recvfrom() took an answer, or failed: true   *)
(* either way, so that the client sends.                                   *)
ClientPolls ==
    /\ udp_client = "poll" /\ replies > 0
    /\ udp_client' = "send" /\ replies' = replies - 1
    /\ UNCHANGED <<udp_server, requests, faults>>

(* poll(2) fails: events::poll returns true without a callback.            *)
ClientPollInterrupted ==
    /\ udp_client = "poll" /\ udp_client' = "send" /\ Fault("interrupted")
    /\ UNCHANGED <<udp_server, requests, replies>>

-----------------------------------------------------------------------------
(* The server program.                                                     *)

(* bind(), sooner or later: a server that never binds hears of nothing.    *)
ServerBinds ==
    /\ udp_server = "bind" /\ udp_server' = "poll"
    /\ UNCHANGED <<udp_client, requests, replies, faults>>

(* A mutation of ServerHears: the last datagram is left where it is.       *)
ServerLeavesLast ==
    /\ udp_server = "poll" /\ requests > 1
    /\ requests' = requests - 1
    /\ \/ udp_server' = "send" /\ UNCHANGED faults
       \/ udp_server' = "poll" /\ Lose
    /\ UNCHANGED <<udp_client, replies>>

(* recvfrom() and the RECEIVE hook, or an error: the datagram is gone.     *)
ServerHears ==
    /\ udp_server = "poll" /\ requests > 0
    /\ requests' = requests - 1
    /\ \/ udp_server' = "send" /\ UNCHANGED faults
       \/ udp_server' = "poll" /\ Lose
    /\ UNCHANGED <<udp_client, replies>>

(* A mutation of ServerAnswers: the hook is there twice.                   *)
ServerAnswersTwice ==
    /\ udp_server = "send" /\ udp_server' = "poll"
    /\ replies' = replies + 2
    /\ UNCHANGED <<udp_client, requests, faults>>

(* send_to in the hook, which may fail.                                    *)
ServerAnswers ==
    /\ udp_server = "send" /\ udp_server' = "poll"
    /\ \/ replies' = replies + 1 /\ UNCHANGED faults
       \/ Lose /\ UNCHANGED replies
    /\ UNCHANGED <<udp_client, requests>>

-----------------------------------------------------------------------------
(* The network.                                                            *)

NetworkLoses ==
    /\ \/ requests > 0 /\ requests' = requests - 1 /\ UNCHANGED replies
       \/ replies > 0 /\ replies' = replies - 1 /\ UNCHANGED requests
    /\ Lose
    /\ UNCHANGED <<udp_client, udp_server>>

NetworkDuplicates ==
    /\ \/ requests > 0 /\ requests' = requests + 1 /\ UNCHANGED replies
       \/ replies > 0 /\ replies' = replies + 1 /\ UNCHANGED requests
    /\ Fault("duplicated")
    /\ UNCHANGED <<udp_client, udp_server>>

-----------------------------------------------------------------------------
UdpPrograms == ClientSendsTo \/ ClientPolls \/ ServerBinds \/ ServerHears \/ ServerAnswers

UdpFaults == ClientSendFails \/ ClientPollInterrupted \/ NetworkLoses \/ NetworkDuplicates

UdpEchoNext == UdpPrograms \/ UdpFaults

(* Each program runs on while it can; every action is one program's only   *)
(* choice where it is enabled.                                             *)
UdpEchoFairness ==
    /\ WF_udpEchoVars(ClientSendsTo \/ ClientPolls)
    /\ WF_udpEchoVars(ServerBinds \/ ServerHears \/ ServerAnswers)

-----------------------------------------------------------------------------
UdpEchoTypeOK ==
    /\ udp_client \in {"send", "poll"} /\ udp_server \in {"bind", "poll", "send"}
    /\ requests \in Nat /\ replies \in Nat
    /\ faults \in [Faults -> 0 .. MaxFaults]

(* The turns to send that are anywhere: with a program, or under way.      *)
Turns ==
    requests + replies
        + (IF udp_client = "send" THEN 1 ELSE 0) + (IF udp_server = "send" THEN 1 ELSE 0)

(* The two programs pass turns to and fro: one at the start, one more for  *)
(* each duplicate and each failed poll, one less for each datagram lost or *)
(* not sent.  The exchange can neither multiply nor revive by itself.      *)
TurnsConserved ==
    Turns = 1 + faults["duplicated"] + faults["interrupted"] - faults["lost"]

(* The client is heard of again and again, unless the last turn was lost:  *)
(* both programs then wait for ever.                                       *)
PingPongUnlessLost == []<>(udp_client = "send") \/ <>[](Turns = 0)

=============================================================================
