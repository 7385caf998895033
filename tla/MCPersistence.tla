--------------------------- MODULE MCPersistence ---------------------------
(* Persistence on two devices. *)
EXTENDS Persistence

CONSTANTS sda, sdb

\* Around half a gigabyte, around a multiple of five gigabytes, and around the
\* size from which swap is capped.
Sizes == (10..60) \cup (490..510) \cup (7490..7510) \cup (7990..8010)

TwoDrives == <<sda, sdb>>
=============================================================================
