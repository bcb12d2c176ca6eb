------------------------------ MODULE MCAiLane ------------------------------
(* The AI lane with costs two calls of which go over the cap, and requests  *)
(* for kinds of every sort or for no AI field at all.                       *)
EXTENDS AiLane

MCVisionCost == [k \in VisionKinds |-> IF k = "trap_zones" THEN 3 ELSE 2]
MCAskedKinds == {{"classification", "barcodes", "symbols", "trap_zones"}, {}}
=============================================================================
