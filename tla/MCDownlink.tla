----------------------------- MODULE MCDownlink -----------------------------
(***************************************************************************)
(* Model checking of Downlink: two flows that share the first hop.  Node 2 *)
(* is the destination of one and forwards the other, as node 44 of the     *)
(* firmware.                                                               *)
(***************************************************************************)
EXTENDS Downlink

TwoFlows == 0 .. 1
SrcDst   == [f \in TwoFlows |-> IF f = 0 THEN <<5, 2>> ELSE <<6, 4>>]
Forwards == [f \in TwoFlows |-> IF f = 0 THEN <<>> ELSE <<2, 3>>]

-----------------------------------------------------------------------------
(***************************************************************************)
(* The tables of the firmware, one for each value of REMOVE_NODES.         *)
(***************************************************************************)
FromZero(s) == [f \in 0 .. Len(s) - 1 |-> s[f + 1]]

Ends == FromZero(<<<<43, 42>>, <<45, 44>>, <<4, 10>>, <<19, 16>>,
                   <<23, 31>>, <<24, 26>>, <<33, 34>>, <<40, 36>>>>)

Remove0  == FromZero(<<<<39, 41>>, <<39, 41, 45>>, <<39, 41, 45, 44, 4>>, <<20, 21, 18>>,
                       <<20, 22, 23>>, <<20, 22, 23, 24>>, <<20, 22, 23, 24, 32>>, <<37, 38>>>>)
Remove6  == FromZero(<<<<39>>, <<39, 45>>, <<39, 45, 44, 4>>, <<21, 18>>,
                       <<22, 23>>, <<22, 23, 24>>, <<22, 23, 24, 32>>, <<38>>>>)
Remove12 == FromZero(<<<<39>>, <<39, 45>>, <<39, 45, 44, 4>>, <<18>>,
                       <<23>>, <<23, 24>>, <<23, 24>>, <<38>>>>)
Remove18 == FromZero(<<<<>>, <<45>>, <<45, 44, 4>>, <<>>,
                       <<23>>, <<23, 24>>, <<23, 24>>, <<>>>>)

\* In all of them a node has one parent for all its flows, as its single
\* receive slot needs.
ASSUME FirmwareTablesAreTrees ==
    \A forwarders \in {Remove0, Remove6, Remove12, Remove18} : IsTree(PathsOf(forwarders, Ends))
=============================================================================
