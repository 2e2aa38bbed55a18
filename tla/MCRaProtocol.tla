---------------------------- MODULE MCRaProtocol ----------------------------
(* Instances of RaProtocol for TLC. *)
EXTENDS RaProtocolInv, TLC

CONSTANTS c1, c2, imx, other

\* c1 runs on the endorsed device, c2 on another one
TwoDevices == (c1 :> imx) @@ (c2 :> other)
\* both run on the endorsed device
SameDevice == (c1 :> imx) @@ (c2 :> imx)
=============================================================================
