--------------------------- MODULE MCFecEndpoint ---------------------------
(***************************************************************************)
(* The shapes and bytes FecEndpoint is checked with: the default of four   *)
(* data and two parity frames, single-frame groups, and more parity than   *)
(* data.                                                                   *)
(***************************************************************************)
EXTENDS FecEndpoint

MCShapes == {<<1, 1>>, <<1, 3>>, <<2, 3>>, <<3, 2>>, <<4, 2>>}

MCSample == {0, 1, 142, 255}
=============================================================================
