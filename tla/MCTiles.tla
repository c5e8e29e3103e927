------------------------------ MODULE MCTiles ------------------------------
EXTENDS Tiles
OneMode == [s \in Sessions |-> 0]
OwnMode == [s \in Sessions |-> s - 1]
OneArea == {<<1, 1>>}
TwoAreas == {<<1, 2>>, <<3, 4>>}
=============================================================================
