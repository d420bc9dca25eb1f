--------------------------- MODULE MCAtaTaskfile ---------------------------
(***************************************************************************)
(* AtaTaskfile for TLC: arguments whose bytes are all different, so that a *)
(* byte in the wrong place shows, and bytes at the ends of their range.    *)
(***************************************************************************)
EXTENDS AtaTaskfile

MCCodes == {90, 255}
MCCounts == {<<1, 2>>, <<255, 0>>}
MCLbas == {<<11, 12, 13, 30, 15, 16>>, <<0, 255, 0, 255, 255, 0>>}
MCLeftovers == {77}
=============================================================================
