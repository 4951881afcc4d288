------------------------- MODULE MCStatusCatalog -------------------------
\* Instances of StatusCatalog for TLC.
EXTENDS StatusCatalog

CONSTANTS w1, w2, r1

TwoWatchers == {w1, w2}
OneRequest  == {r1}
=============================================================================
