--------------------------- MODULE MCNodeRegistry ----------------------------
(* Instances of NodeRegistry for TLC. *)
EXTENDS NodeRegistry

CONSTANTS t, u, l, h1, h2

Battery == {t, u}
Mixed   == {t, l}
Light   == {l}
None    == {}
One     == {h1}
==============================================================================
