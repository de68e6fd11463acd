------------------------------ MODULE MCServing -----------------------------
(* All parts of Serving, or one of them.                                    *)
EXTENDS Serving

MCParts == {"udp", "device", "proxy", "websocket", "psiphon", "cli"}
DeviceOnly == {"device"}
PsiphonOnly == {"psiphon"}
=============================================================================
