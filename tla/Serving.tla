------------------------------- MODULE Serving ------------------------------
(* What runs for a long time and must come to an end: the UDP sessions and  *)
(* the IP device with its relays, the local web proxy, a WebSocket          *)
(* connection, the Psiphon dialer, and the runs of outline-cli.  None       *)
(* writes another's state, so a behaviour follows one of them while the     *)
(* others keep an initial state.                                            *)
EXTENDS UdpSessions, LwipDevice, ProxyServer, WebsocketConn, PsiphonDialer, OutlineCli

CONSTANT Parts        \* of "udp", "device", "proxy", "websocket", "psiphon", "cli"
VARIABLE part

servingVars == <<part, udpVars, deviceVars, proxyVars, websocketVars, psiphonVars, cliVars>>

ServingInit ==
  /\ part \in Parts
  /\ UdpInit /\ DeviceInit /\ ProxyInit /\ WebsocketInit /\ PsiphonInit /\ CliInit
  /\ part = "cli" \/ (ipv6 /\ conf = [f \in Files |-> "user"])

ServingNext ==
  \/ /\ part = "udp" /\ UdpNext
     /\ UNCHANGED <<part, deviceVars, proxyVars, websocketVars, psiphonVars, cliVars>>
  \/ /\ part = "device" /\ DeviceNext
     /\ UNCHANGED <<part, udpVars, proxyVars, websocketVars, psiphonVars, cliVars>>
  \/ /\ part = "proxy" /\ ProxyNext
     /\ UNCHANGED <<part, udpVars, deviceVars, websocketVars, psiphonVars, cliVars>>
  \/ /\ part = "websocket" /\ WebsocketNext
     /\ UNCHANGED <<part, udpVars, deviceVars, proxyVars, psiphonVars, cliVars>>
  \/ /\ part = "psiphon" /\ PsiphonNext
     /\ UNCHANGED <<part, udpVars, deviceVars, proxyVars, websocketVars, cliVars>>
  \/ /\ part = "cli" /\ CliNext
     /\ UNCHANGED <<part, udpVars, deviceVars, proxyVars, websocketVars, psiphonVars>>

ServingSpec == ServingInit /\ [][ServingNext]_servingVars
\* In the initial states of the parts nothing they are fair to is enabled: the
\* fairness of a part that does not run holds.
ServingFairSpec ==
  /\ ServingSpec
  /\ UdpFairness
  /\ DeviceFairness
  /\ ProxyFairness
  /\ WebsocketFairness

\* Types of all six parts; and the tunnel that the Psiphon dialer hands to
\* DialStream is running when it does, whatever Starts and Stops run at once.
ServingTypeOK ==
  /\ UdpTypeOK /\ DeviceTypeOK /\ ProxyTypeOK /\ WebsocketTypeOK /\ PsiphonTypeOK
  /\ CliTypeOK /\ TunnelRuns
=============================================================================
