------------------------------ MODULE MCDieline ------------------------------
(* The dieline detector on points and rectangles of two extents, one of    *)
(* them drawn backwards, and thresholds a few operators reach.             *)
EXTENDS Dieline

MCPoints == {<<0, 0>>, <<2, 1>>}
MCRects == {<<1, 1, 2, 3>>, <<1, 1, 0 - 2, 1>>}
MCMatrices == {<<2, 0, 0, 2, 1, 0>>}
MCCalibration == [foldDash |-> 2, foldStroke |-> 1, stroke |-> 1, path |-> 2, thin |-> 2]
=============================================================================
