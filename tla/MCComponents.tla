---------------------------- MODULE MCComponents ----------------------------
(* Components that share no state, one at a time: each behaviour is one of  *)
(* a single component, the subject, and the others stand still.            *)
EXTENDS MCAiLane, Retention, Edge, UrlIngest, SparseFields, MCDieline, MemoryBlobs,
        MCPress, Heatmap, MCSpot, MCGeometry

VARIABLE subject

EdgeBody(json, sha, doc) == [json |-> json, sha |-> sha, doc |-> doc]
MCBodies == {EdgeBody(FALSE, "nothing", "a"), EdgeBody(TRUE, "a", "nothing"),
             EdgeBody(TRUE, "a", "a"), EdgeBody(TRUE, "a", "b")}

MCAskedFields == {{}} \union {{f, g} : f, g \in Fields \union {"findings"}}
MCFailures == {{}} \union {{f} : f \in Runs}

MCBlobSize == [b \in {"small", "medium", "huge"} |->
                   CASE b = "small" -> 1 [] b = "medium" -> 2 [] OTHER -> 6]

MCHeatWords == {[x0 |-> w[1], y0 |-> w[2], x1 |-> w[3], y1 |-> w[4]] :
                   w \in {<<10, 10, 20, 20>>, <<0, 11, 6, 21>>, <<24, 8, 30, 20>>,
                          <<40, 10, 50, 20>>, <<0 - 3, 60, 5, 61>>, <<10, 30, 50, 95>>}}
MCImages == {[w |-> 3, h |-> 5], [w |-> 50, h |-> 100]}
MCPageSizes == {[w |-> 50, h |-> 80], [w |-> 0, h |-> 0], [w |-> 7, h |-> 9]}
MCSamples == {0 - 1, 0, 3, 7, 9, 80}

(* Requests are interchangeable with others of their kind.                 *)
Symmetry == Permutations(AiRequests) \union Permutations(Puts) \union Permutations(EdgeRequests)

Init == /\ AiInit /\ RetentionInit /\ EdgeInit /\ IngestInit /\ SparseInit /\ DielineInit
        /\ BlobInit /\ PressInit /\ HeatInit
        /\ subject \in {"ai", "retention", "edge", "ingest", "sparse", "dieline",
                        "blobs", "press", "heat", "ink", "geom"}
        /\ SpotInit /\ (subject # "ink" => aiEnabled)
        /\ IF subject = "geom" THEN GeomInit ELSE geom = Asked("rest", FALSE, <<>>)

Next ==
  \/ /\ subject = "ai" /\ AiNext
     /\ UNCHANGED <<subject, retentionVars, edgeVars, fetch, sparse, scan,
                    blobVars, press, heat, spotVars, geom>>
  \/ /\ subject = "retention" /\ RetentionNext
     /\ UNCHANGED <<subject, aiVars, edgeVars, fetch, sparse, scan,
                    blobVars, press, heat, spotVars, geom>>
  \/ /\ subject = "edge" /\ EdgeNext
     /\ UNCHANGED <<subject, aiVars, retentionVars, fetch, sparse, scan,
                    blobVars, press, heat, spotVars, geom>>
  \/ /\ subject = "ingest" /\ IngestNext
     /\ UNCHANGED <<subject, aiVars, retentionVars, edgeVars, sparse, scan,
                    blobVars, press, heat, spotVars, geom>>
  \/ /\ subject = "sparse" /\ SparseNext
     /\ UNCHANGED <<subject, aiVars, retentionVars, edgeVars, fetch, scan,
                    blobVars, press, heat, spotVars, geom>>
  \/ /\ subject = "dieline" /\ DielineNext
     /\ UNCHANGED <<subject, aiVars, retentionVars, edgeVars, fetch, sparse,
                    blobVars, press, heat, spotVars, geom>>
  \/ /\ subject = "blobs" /\ BlobNext
     /\ UNCHANGED <<subject, aiVars, retentionVars, edgeVars, fetch, sparse,
                    scan, press, heat, spotVars, geom>>
  \/ /\ subject = "press" /\ PressNext
     /\ UNCHANGED <<subject, aiVars, retentionVars, edgeVars, fetch, sparse,
                    scan, blobVars, heat, spotVars, geom>>
  \/ /\ subject = "heat" /\ HeatNext
     /\ UNCHANGED <<subject, aiVars, retentionVars, edgeVars, fetch, sparse,
                    scan, blobVars, press, spotVars, geom>>
  \/ /\ subject = "ink" /\ SpotNext
     /\ UNCHANGED <<subject, aiVars, retentionVars, edgeVars, fetch, sparse,
                    scan, blobVars, press, heat, geom>>
  \/ /\ subject = "geom" /\ GeomNext
     /\ UNCHANGED <<subject, aiVars, retentionVars, edgeVars, fetch, sparse,
                    scan, blobVars, press, heat, spotVars>>
=============================================================================
