------------------------------ MODULE MCXpsCore ------------------------------
(***************************************************************************)
(* Instances of XpsCore for TLC.                                           *)
(***************************************************************************)
EXTENDS XpsCore, TLC

CONSTANTS ClientSends, UpstreamSends
MCPeerSends == [kind \in {"client", "upstream"} |->
                  IF kind = "client" THEN ClientSends ELSE UpstreamSends]
Symmetry == Permutations(Client)
=============================================================================
