----------------------------- MODULE MCNbdHeal -----------------------------
(* NbdHeal on small instances. *)
EXTENDS NbdHeal

CONSTANTS d1, d2

TwoDevices == <<d1, d2>>
TwoPools == <<"tank", "vault">>

\* Every pool lies on every device.
MCBacking == [p \in Pools |-> Devices]
=============================================================================
