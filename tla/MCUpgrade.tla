----------------------------- MODULE MCUpgrade -----------------------------
(* Upgrade on small instances: a kernel that both releases share, and an    *)
(* initrd and a bootloader entry that they do not.                           *)
EXTENDS Upgrade

MCFiles == <<"kernel", "initrd", "entry">>
MCHash ==
  [r1 |-> [kernel |-> "k", initrd |-> "i1", entry |-> "e1"],
   r2 |-> [kernel |-> "k", initrd |-> "i2", entry |-> "e2"]]
=============================================================================
