--------------------------- MODULE MCContentEncoder ---------------------------
(***************************************************************************)
(* ContentEncoder with up to three chunks, two encoders, and prefixes that *)
(* have no room, or room for one more entry.                               *)
(***************************************************************************)
EXTENDS ContentEncoder, TLC

MCRoom == {0, 1}
=============================================================================
