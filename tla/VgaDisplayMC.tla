---------------------------- MODULE VgaDisplayMC ----------------------------
(* Instances of VgaDisplay for TLC, with glyph n for character n and color *)
(* n for attribute n.                                                      *)
EXTENDS VgaDisplay

DefaultIdentity == [b \in Font \cup Palette |-> b[2]]
=============================================================================
