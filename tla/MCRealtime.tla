----------------------------- MODULE MCRealtime -----------------------------
(***************************************************************************)
(* One client, who watches the district in which the rate collector        *)
(* (critical events) and the stock collector publish.                      *)
(***************************************************************************)
EXTENDS Realtime, TLC

CONSTANT c1
MCClientDistrict == [c \in Clients |-> "d1"]
MCEventDistrict == [s \in Sources |-> "d1"]
MCBroadcast(b) == [src |-> "broadcast", n |-> b]
=============================================================================
