------------------------------ MODULE MCXpsLoop ------------------------------
(***************************************************************************)
(* Instances of XpsLoop for TLC.                                           *)
(***************************************************************************)
EXTENDS XpsLoopProperties, TLC

CONSTANTS ClientSends, UpstreamSends
MCPeerSends == [kind \in {"client", "upstream"} |->
                  IF kind = "client" THEN ClientSends ELSE UpstreamSends]
=============================================================================
