------------------------------ MODULE Examples ------------------------------
(***************************************************************************)
(* The programs of examples/ that talk to each other, a client and a       *)
(* server of them at a time.                                               *)
(***************************************************************************)
EXTENDS RoundTrip, UdpEcho, CloseCommand

VARIABLE pair  \* the pair of programs that was started

examplesVars == <<pair, roundTripVars, udpEchoVars, closeCommandVars>>

Init ==
    /\ pair \in {"tcp-rtt-speed-test", "udp", "tcp"}
    /\ RoundTripInit /\ UdpEchoInit /\ CloseCommandInit

Next ==
    /\ UNCHANGED pair
    /\ \/ /\ pair = "tcp-rtt-speed-test" /\ RoundTripNext
          /\ UNCHANGED <<udpEchoVars, closeCommandVars>>
       \/ /\ pair = "udp" /\ UdpEchoNext
          /\ UNCHANGED <<roundTripVars, closeCommandVars>>
       \/ /\ pair = "tcp" /\ CloseCommandNext
          /\ UNCHANGED <<roundTripVars, udpEchoVars>>

(* Only the programs that were started run on.                             *)
Spec ==
    /\ Init /\ [][Next]_examplesVars
    /\ pair = "tcp-rtt-speed-test" => RoundTripFairness
    /\ pair = "udp" => UdpEchoFairness
    /\ pair = "tcp" => CloseCommandFairness

-----------------------------------------------------------------------------
TypeOK == RoundTripTypeOK /\ UdpEchoTypeOK /\ CloseCommandTypeOK

(* tcp-rtt-speed-test: every message comes back and the client ends, see   *)
(* EveryRoundTripEnds.                                                     *)
RoundTripsEnd == pair = "tcp-rtt-speed-test" => EveryRoundTripEnds

(* udp-client and udp-server: the exchange goes on, see                    *)
(* PingPongUnlessLost.                                                     *)
PingPong == pair = "udp" => PingPongUnlessLost

(* tcp-client and tcp-server: the close command ends everything, see       *)
(* CommandEndsAll.                                                         *)
CommandEnds == pair = "tcp" => CommandEndsAll

=============================================================================
