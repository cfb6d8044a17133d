------------------------------ MODULE MCDevice ------------------------------
(***************************************************************************)
(* StreamDispatcher for TLC: one device and one peer.                      *)
(***************************************************************************)
EXTENDS StreamDispatcher

(* As many events as the channels, the forwarder and the loop can hold:    *)
(* with one more the runtime may wait for a loop that waits for it.        *)
WhatChannelsHold == EventCap + UserCap + 2
=============================================================================
