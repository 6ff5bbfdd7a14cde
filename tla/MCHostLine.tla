----------------------------- MODULE MCHostLine -----------------------------
(* HostLine with byte values from 0 to 7, so that a length read in the wrong *)
(* place runs out within a behaviour.  The heartbeat's sequence number and   *)
(* id look like a topic, its data like the first byte of a frame.            *)
EXTENDS HostLine

Heartbeat == <<3, 5, 7, 3, 5, 1, 7, 0, 0>>
Query     == <<4, 5, 7, 0, 6, 0, 0, 0>>
AtCommand == <<1, 5, 0>>
UsrNotice == <<6, 6, 0>>

MCSessions == {<<Query, Query, Query, Query>>,
               <<Heartbeat, Query, Heartbeat>>, <<Heartbeat, Heartbeat, Query>>,
               <<AtCommand, Heartbeat, Query>>, <<Heartbeat, AtCommand, Query>>,
               <<UsrNotice, Query, Query>>}
MCUsrPrefix == <<6, 6>>
MCNoByte   == [v |-> 0, of |-> 0, at |-> 0]
=============================================================================
