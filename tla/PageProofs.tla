----------------------------- MODULE PageProofs -----------------------------
(***************************************************************************)
(* Theorems about what is said of a page: its sparse answers, its layers   *)
(* and plates, its heatmap and its dieline.                                *)
(***************************************************************************)
EXTENDS SparseFields, Separations, Heatmap, Dieline, SelectionProofs, NaturalsInduction

-----------------------------------------------------------------------------
(* Sparse extraction.                                                      *)

AiNames == {"document_classification", "detected_language", "detected_barcodes", "detected_logos",
            "detected_symbols", "spell_candidates", "trap_zone_candidates"}

LEMMA FieldsOfAi == \A g \in AiGroups : AiFieldOf[g] \in AiNames
BY DEF AiGroups, AiFieldOf, AiNames

LEMMA NamesOfAi == {AiFieldOf[g] : g \in AiGroups} = AiNames
<1>1. /\ AiFieldOf["classification"] = "document_classification"
      /\ AiFieldOf["language"] = "detected_language" /\ AiFieldOf["barcodes"] = "detected_barcodes"
      /\ AiFieldOf["logos"] = "detected_logos" /\ AiFieldOf["symbols"] = "detected_symbols"
      /\ AiFieldOf["spell"] = "spell_candidates"
      /\ AiFieldOf["trap_zones"] = "trap_zone_candidates"
  BY DEF AiFieldOf
<1>2. \A n \in AiNames : \E g \in AiGroups : AiFieldOf[g] = n
  BY <1>1 DEF AiNames, AiGroups
<1> QED
  BY <1>2, FieldsOfAi

\* A field carries the same passes whichever of the passes it is not made of have run; the
\* derived ones can only carry less.
LEMMA PartAgrees ==
  ASSUME NEW a, NEW b, a \subseteq b, \A p \in b \ a : p \in Pikepdf, NEW f \in PayloadFields,
         f \in {"output_intents", "color_spaces"} /\ "color" \in b => "color" \in a,
         f = "ocgs" /\ "ocgs" \in b => "ocgs" \in a,
         f = "form_xobjects" /\ "forms" \in b => "forms" \in a,
         f = "analysis" /\ "signals" \in b => "signals" \in a
  PROVE  IF f \in {"summary", "findings", "trap_evidence"}
         THEN Assembled(a)[f] \subseteq Assembled(b)[f]
         ELSE Assembled(a)[f] = Assembled(b)[f]
<1>1. \A p : p \in b /\ p \notin Pikepdf <=> p \in a /\ p \notin Pikepdf
  OBVIOUS
<1>2. CASE f \in Structural
  BY <1>1, <1>2 DEF Assembled, Structural, Pikepdf
<1>3. CASE f \in {"fonts", "images", "annotations", "ocgs"}
  BY <1>1, <1>3 DEF Assembled, Structural, Pikepdf
<1>4. CASE f \in {"output_intents", "color_spaces"}
  BY <1>1, <1>4 DEF Assembled, Structural, Pikepdf
<1>5. CASE f \in {"form_xobjects", "analysis"}
  BY <1>1, <1>5 DEF Assembled, Structural, Pikepdf
<1>6. CASE f \in {"trap_evidence", "summary", "findings"}
  BY <1>6 DEF Assembled, Structural
<1>7. CASE f \in {"pages", "inventory", "transparency_tree"}
  BY <1>1, <1>7 DEF Assembled, Structural, Pikepdf
<1>8. CASE f \notin Structural \union {"fonts", "images", "annotations", "ocgs", "output_intents",
                 "color_spaces", "form_xobjects", "analysis", "trap_evidence", "summary",
                 "findings", "pages", "inventory", "transparency_tree"}
  BY <1>8 DEF Assembled
<1> QED
  BY <1>2, <1>3, <1>4, <1>5, <1>6, <1>7, <1>8

\* What the header asks for of the passes over pikepdf is run, and of the AI kinds.
LEMMA GroupsAsked ==
  ASSUME NEW fields, fields \subseteq Fields \union {"findings"}, NEW f \in Effective(fields)
  PROVE  /\ f \in Fields \ {"spot_colors"} \/ f = "findings"
         /\ f \in {"output_intents", "color_spaces"} => "color" \in ResolveGroups(fields)
         /\ f = "ocgs" => "ocgs" \in ResolveGroups(fields)
         /\ f = "form_xobjects" => "forms" \in ResolveGroups(fields)
         /\ f = "analysis" => "signals" \in ResolveGroups(fields)
         /\ \A g \in AiGroups : AiFieldOf[g] = f => g \in ResolveAiKinds(fields)
<1>1. \A e \in fields : e \in Fields => FieldGroups[e] \subseteq ResolveGroups(fields)
  BY DEF ResolveGroups
<1>2. \/ f \in fields /\ f # "spot_colors"
      \/ f = "color_spaces" /\ "spot_colors" \in fields
  BY DEF Effective
<1>3. /\ {"output_intents", "color_spaces", "spot_colors", "ocgs", "form_xobjects", "analysis"}
           \subseteq Fields
      /\ FieldGroups["output_intents"] = {"color"} /\ FieldGroups["color_spaces"] = {"color"}
      /\ FieldGroups["spot_colors"] = {"color"} /\ FieldGroups["ocgs"] = {"ocgs"}
      /\ FieldGroups["form_xobjects"] = {"forms"} /\ FieldGroups["analysis"] = {"signals"}
  BY DEF FieldGroups, Fields, Structural
<1>4. \A g \in AiGroups : /\ AiFieldOf[g] \in Fields
                          /\ FieldGroups[AiFieldOf[g]] = {h \in AiGroups : AiFieldOf[h] = AiFieldOf[g]}
  <2> SUFFICES ASSUME NEW g \in AiGroups
               PROVE  /\ AiFieldOf[g] \in Fields
                      /\ FieldGroups[AiFieldOf[g]] = {h \in AiGroups : AiFieldOf[h] = AiFieldOf[g]}
    OBVIOUS
  <2> DEFINE n == AiFieldOf[g]
  <2>1. n \in Fields
    BY DEF Fields
  <2>2. n \in AiNames
    BY FieldsOfAi
  <2> HIDE DEF n
  <2>3. n \notin Structural \union {"trap_evidence", "pages", "fonts", "images", "annotations",
                   "inventory", "ocgs", "output_intents", "color_spaces", "spot_colors",
                   "icc_profiles", "transparency_tree", "form_xobjects", "analysis"}
    BY <2>2 DEF AiNames, Structural
  <2>4. FieldGroups[n] = {h \in AiGroups : AiFieldOf[h] = n}
    BY <2>1, <2>3 DEF FieldGroups
  <2> QED
    BY <2>1, <2>4 DEF n
<1>5. \A g \in AiGroups : AiFieldOf[g] # "color_spaces"
  BY FieldsOfAi DEF AiNames
<1>6. f \in Fields \ {"spot_colors"} \/ f = "findings"
  BY <1>2, <1>3
<1>7. ASSUME NEW g \in AiGroups, AiFieldOf[g] = f PROVE g \in ResolveAiKinds(fields)
  BY <1>1, <1>2, <1>4, <1>5, <1>7 DEF ResolveAiKinds
<1> QED
  BY <1>1, <1>2, <1>3, <1>6, <1>7

\* The two payloads, the lane's results included.
Full(failed, runnable) == IF runnable THEN WithSignals(ExtractDocument(failed), AiGroups, failed)
                          ELSE ExtractDocument(failed)
Sparse(fields, failed, runnable) ==
  IF runnable THEN WithSignals(ExtractDocumentSparse(fields, failed), ResolveAiKinds(fields), failed)
  ELSE ExtractDocumentSparse(fields, failed)

LEMMA FieldAgrees ==
  ASSUME NEW fields, fields \subseteq Fields \union {"findings"}, NEW failed, NEW runnable,
         NEW f \in PayloadFields, f \in Effective(fields) \union AlwaysInclude \union {"pages"}
  PROVE  LET sent == Sparse(fields, failed, runnable)[f]
             full == Full(failed, runnable)[f]
         IN  IF f \in {"summary", "findings", "trap_evidence"} THEN sent \subseteq full ELSE sent = full
<1> DEFINE G == ResolveGroups(fields)
           a == (Fitz \union (Pikepdf \intersect G) \union {"text_regions"}) \ failed
           b == (Runs \ AiGroups) \ failed
           gotS == {g \in ResolveAiKinds(fields) \ failed : AiFieldOf[g] = f}
           gotF == {g \in AiGroups \ failed : AiFieldOf[g] = f}
<1>1. Runs \ AiGroups = Fitz \union Pikepdf \union {"text_regions"}
  BY DEF Runs, Fitz, Pikepdf, AiGroups
<1>2. a \subseteq b /\ \A p \in b \ a : p \in Pikepdf
  BY <1>1
<1>3. \A p \in Pikepdf : p \in b => (p \in a <=> p \in G)
  BY <1>1 DEF Fitz, Pikepdf
<1>4. \/ f \in Effective(fields)
      \/ f \in AlwaysInclude \union {"pages"} /\ f \notin AiNames
           /\ f \notin {"output_intents", "color_spaces", "ocgs", "form_xobjects", "analysis"}
  BY DEF AlwaysInclude, AiNames
<1>5. gotS = gotF
  <2>1. CASE f \in Effective(fields)
    BY <2>1, GroupsAsked DEF ResolveAiKinds
  <2>2. CASE f \notin AiNames
    BY <2>2, FieldsOfAi DEF ResolveAiKinds
  <2> QED
    BY <1>4, <2>1, <2>2
<1>6. /\ f \in {"output_intents", "color_spaces"} => "color" \in G \/ f \notin Effective(fields)
      /\ f = "ocgs" => "ocgs" \in G \/ f \notin Effective(fields)
      /\ f = "form_xobjects" => "forms" \in G \/ f \notin Effective(fields)
      /\ f = "analysis" => "signals" \in G \/ f \notin Effective(fields)
  BY GroupsAsked
<1> HIDE DEF G, a, b, gotS, gotF
<1>7. {"color", "ocgs", "forms", "signals"} \subseteq Pikepdf
  BY DEF Pikepdf
<1>8. IF f \in {"summary", "findings", "trap_evidence"}
      THEN Assembled(a)[f] \subseteq Assembled(b)[f] ELSE Assembled(a)[f] = Assembled(b)[f]
  BY <1>2, <1>3, <1>4, <1>6, <1>7, PartAgrees
<1>9. \A ok : DOMAIN Assembled(ok) = PayloadFields
  BY DEF Assembled
<1>10. ExtractDocument(failed) = Assembled(b) /\ ExtractDocumentSparse(fields, failed) = Assembled(a)
  BY DEF ExtractDocument, ExtractDocumentSparse, a, b, G
<1>11. WithSignals(Assembled(a), ResolveAiKinds(fields), failed)[f]
         = IF f \in PageSubfields /\ "structure" \in failed THEN Assembled(a)[f]
           ELSE Assembled(a)[f] \union gotS
  BY <1>9 DEF WithSignals, gotS
<1>12. WithSignals(Assembled(b), AiGroups, failed)[f]
         = IF f \in PageSubfields /\ "structure" \in failed THEN Assembled(b)[f]
           ELSE Assembled(b)[f] \union gotF
  BY <1>9 DEF WithSignals, gotF
<1>13. /\ Sparse(fields, failed, runnable)[f]
             = IF ~runnable \/ (f \in PageSubfields /\ "structure" \in failed) THEN Assembled(a)[f]
               ELSE Assembled(a)[f] \union gotF
       /\ Full(failed, runnable)[f]
             = IF ~runnable \/ (f \in PageSubfields /\ "structure" \in failed) THEN Assembled(b)[f]
               ELSE Assembled(b)[f] \union gotF
  BY <1>5, <1>10, <1>11, <1>12 DEF Sparse, Full
<1> QED
  BY <1>8, <1>13

\* The request so far: its fields, and the payload as far as it was made.
SparseInv ==
  /\ sparse.pc \in {"header", "extract", "signals", "filter", "answered"}
  /\ sparse.pc # "header" => sparse.fields \in AskedFields
  /\ sparse.pc = "signals" /\ sparse.fields # {} =>
       sparse.payload = ExtractDocumentSparse(sparse.fields, sparse.failed)
  /\ sparse.pc = "filter" =>
       /\ DOMAIN sparse = {"pc", "fields", "failed", "runnable", "payload"}
       /\ sparse.fields # {} =>
            sparse.payload = Sparse(sparse.fields, sparse.failed, sparse.runnable)
  /\ sparse.pc = "answered" /\ sparse.fields # {} =>
       sparse.payload = FilterDocumentPayload(
                          Sparse(sparse.fields, sparse.failed, sparse.runnable), sparse.fields)

LEMMA SparseInvHolds == SparseSpec => []SparseInv
<1>1. SparseInit => SparseInv
  BY DEF SparseInit, SparseInv
<1>2. SparseInv /\ [SparseNext]_sparseVars => SparseInv'
  <2> SUFFICES ASSUME SparseInv, [SparseNext]_sparseVars PROVE SparseInv'
    OBVIOUS
  <2>1. ASSUME NEW fields \in AskedFields, ParseFieldsHeader(fields) PROVE SparseInv'
    BY <2>1 DEF ParseFieldsHeader, SparseInv
  <2>2. ASSUME NEW failed, Extract(failed) PROVE SparseInv'
    <3>1. /\ sparse'.pc = "signals" /\ sparse'.fields = sparse.fields /\ sparse'.failed = failed
          /\ sparse.fields # {} => sparse'.payload = ExtractDocumentSparse(sparse.fields, failed)
          /\ sparse.pc = "extract"
      BY <2>2 DEF Extract
    <3> QED
      BY <3>1 DEF SparseInv
  <2>3. ASSUME NEW runnable \in BOOLEAN, RunSignals(runnable) PROVE SparseInv'
    <3> DEFINE sent == IF runnable
                       THEN WithSignals(sparse.payload, ResolveAiKinds(sparse.fields), sparse.failed)
                       ELSE sparse.payload
    <3>1. /\ sparse'.pc = "filter" /\ sparse'.fields = sparse.fields
          /\ sparse'.failed = sparse.failed /\ sparse'.runnable = runnable
          /\ DOMAIN sparse' = {"pc", "fields", "failed", "runnable", "payload"}
          /\ sparse.fields # {} => sparse'.payload = sent
          /\ sparse.pc = "signals"
      BY <2>3 DEF RunSignals
    <3>2. sparse.fields # {} => sent = Sparse(sparse.fields, sparse.failed, runnable)
      BY <3>1 DEF SparseInv, Sparse
    <3> HIDE DEF sent
    <3> QED
      BY <3>1, <3>2 DEF SparseInv
  <2>4. ASSUME Project PROVE SparseInv'
    <3>1. /\ sparse.pc = "filter" /\ DOMAIN sparse = {"pc", "fields", "failed", "runnable", "payload"}
          /\ sparse.fields \in AskedFields
          /\ sparse.fields # {} =>
               sparse.payload = Sparse(sparse.fields, sparse.failed, sparse.runnable)
      BY <2>4 DEF Project, SparseInv
    <3>2. sparse' = [sparse EXCEPT !.pc = "answered",
            !.payload = IF sparse.fields = {} THEN @ ELSE FilterDocumentPayload(@, sparse.fields)]
      BY <2>4 DEF Project
    <3>3. /\ sparse'.pc = "answered" /\ sparse'.fields = sparse.fields
          /\ sparse'.failed = sparse.failed /\ sparse'.runnable = sparse.runnable
          /\ sparse.fields # {} => sparse'.payload = FilterDocumentPayload(sparse.payload, sparse.fields)
      BY <3>1, <3>2
    <3> QED
      BY <3>1, <3>3 DEF SparseInv
  <2>5. CASE UNCHANGED sparseVars
    BY <2>5 DEF sparseVars, SparseInv
  <2> QED
    BY <2>1, <2>2, <2>3, <2>4, <2>5 DEF SparseNext
<1> QED
  BY <1>1, <1>2, PTL DEF SparseSpec

\* Whatever the fields of the header and whichever passes raise, the sparse answer is a
\* projection of the full one on them.
THEOREM SparseAnswersAgree == SparseSpec => []SparseAgrees
<1>1. SparseInv => SparseAgrees
  <2> SUFFICES ASSUME SparseInv, sparse.pc = "answered", sparse.fields # {}
               PROVE  SparseAgrees
    BY DEF SparseAgrees
  <2> DEFINE fields == sparse.fields
             failed == sparse.failed
             runnable == sparse.runnable
             wanted == Effective(fields)
             sent == Sparse(fields, failed, runnable)
             pages == IF wanted \intersect (PageSubfields \union {"pages"}) # {} THEN {"pages"} ELSE {}
             keys == AlwaysInclude \union wanted \union pages
  <2>1. /\ fields \subseteq Fields \union {"findings"}
        /\ sparse.payload = FilterDocumentPayload(sent, fields)
    BY SparseAssumption DEF SparseInv, SparseAssumption
  <2>2. DOMAIN sent = PayloadFields
    BY DEF Sparse, WithSignals, ExtractDocumentSparse, Assembled
  <2>3. /\ DOMAIN sparse.payload = PayloadFields \intersect keys
        /\ \A f \in PayloadFields \intersect keys : sparse.payload[f] = sent[f]
    <3> HIDE DEF sent
    <3> QED
      BY <2>1, <2>2 DEF FilterDocumentPayload
  <2>4. wanted \subseteq PayloadFields
    BY <2>1, GroupsAsked DEF PayloadFields
  <2> DEFINE full == Full(failed, runnable)
  <2>5. full = IF runnable THEN WithSignals(ExtractDocument(failed), AiGroups, failed)
               ELSE ExtractDocument(failed)
    BY DEF Full
  <2>6. ASSUME NEW f \in PayloadFields \intersect keys
        PROVE  IF f \in {"summary", "findings", "trap_evidence"}
               THEN sent[f] \subseteq full[f] ELSE sent[f] = full[f]
    <3>1. f \in Effective(fields) \union AlwaysInclude \union {"pages"} /\ f \in PayloadFields
      OBVIOUS
    <3>2. fields \subseteq Fields \union {"findings"}
      BY <2>1
    <3> HIDE DEF keys, pages, fields, failed, runnable
    <3>3. LET s == Sparse(fields, failed, runnable)[f]
              t == Full(failed, runnable)[f]
          IN  IF f \in {"summary", "findings", "trap_evidence"} THEN s \subseteq t ELSE s = t
      BY <3>1, <3>2, FieldAgrees
    <3> QED
      BY <3>3
  <2>7. \A f \in PayloadFields \intersect keys :
          \/ f \in wanted \union AlwaysInclude
          \/ f = "pages" /\ wanted \intersect PageSubfields # {}
    OBVIOUS
  <2> HIDE DEF sent, full
  <2>8. /\ wanted \subseteq DOMAIN sparse.payload
        /\ \A f \in DOMAIN sparse.payload :
             IF f \in {"summary", "findings", "trap_evidence"}
             THEN sparse.payload[f] \subseteq full[f] ELSE sparse.payload[f] = full[f]
    BY <2>3, <2>4, <2>6
  <2> QED
    BY <2>3, <2>5, <2>7, <2>8 DEF SparseAgrees
<1> QED
  BY <1>1, SparseInvHolds, PTL

-----------------------------------------------------------------------------
(* Layers and plates.                                                      *)

\* The walk over a page: what has been found is on the pages; each page that owns its Resources
\* and has been begun has a set of dictionaries entered, whose spaces are found and what is below
\* them too, unless it was passed over or cut or a frame of the stack is yet to come to it.
PressFields == {"pc", "doc", "page", "spots", "families", "stack", "stale", "lost", "cut"}
Frames(R) == [of : R, next : Nat \ {0}, opened : BOOLEAN, reused : SUBSET Nat]
Met(w, spaces) == SpotsOf(spaces) \subseteq w.spots /\ FamiliesOf(spaces) \subseteq w.families
Settled(w, n, E, r, i) ==
  LET below == Below(w.doc.resources[r])[i]
  IN  \/ <<n, r, i>> \in w.lost \union w.cut
      \/ Met(w, below.spaces) /\ (below.of = Missing \/ below.of \in E)
Traced(w, n, E, stack) ==
  /\ E \in SUBSET DOMAIN w.doc.resources /\ w.doc.pages[n].of \in E
  /\ \A r \in E : /\ Met(w, w.doc.resources[r].spaces)
                  /\ \A i \in DOMAIN Below(w.doc.resources[r]) :
                       \/ Settled(w, n, E, r, i)
                       \/ \E k \in DOMAIN stack : stack[k].of = r /\ stack[k].next <= i
Grown(w, v) == /\ v.doc = w.doc /\ w.spots \subseteq v.spots /\ w.families \subseteq v.families
               /\ w.lost \subseteq v.lost /\ w.cut \subseteq v.cut
Used(doc) == UNION {SpacesOn(doc, n, {}) : n \in DOMAIN doc.pages}
Sound(w) == w.spots \subseteq SpotsOf(Used(w.doc)) /\ w.families \subseteq FamiliesOf(Used(w.doc))
OnStack(w) ==
  /\ w.stack \in Seq(Frames(DOMAIN w.doc.resources))
  /\ w.stack # <<>> =>
       /\ w.page \in DOMAIN w.doc.pages /\ w.doc.pages[w.page].own
       /\ \A k \in DOMAIN w.stack : w.stack[k].of \in Reached(w.doc, w.page, {})
Walks(w) == \A n \in 1 .. w.page : w.doc.pages[n].own =>
              \E E : Traced(w, n, E, IF n = w.page THEN w.stack ELSE <<>>)

\* No id is stale where no dictionary but the page's own has XObjects.
AloneInv(w) ==
  /\ \A n : Alone(w.doc, n) => \A lost \in w.lost : lost[1] # n
  /\ w.stack # <<>> /\ Alone(w.doc, w.page) =>
       /\ w.stale = 0
       /\ \A k \in DOMAIN w.stack : /\ w.stack[k].reused = {}
                                    /\ k # 1 => w.stack[k].of # w.doc.pages[w.page].of
WalkInv(w) == /\ DOMAIN w = PressFields /\ w.doc \in PressDocs /\ w.page \in 0 .. Len(w.doc.pages)
              /\ OnStack(w) /\ Sound(w) /\ Walks(w) /\ AloneInv(w)
ScanInv == /\ press.pc \in {"scan", "ready"} => WalkInv(press)
           /\ press.pc = "ready" => press.stack = <<>> /\ press.page = Len(press.doc.pages)

\* Ghostscript's files are files it may write, the process inks always.
FilesInv == press.pc = "plates" =>
              Processes \union {Composite} \subseteq press.files /\ press.files \subseteq ToSet(FileOrder)

PressInv == ScanInv /\ FilesInv /\ LayersObeyed /\ PlatesTrue

LEMMA OverridesObeyed ==
  ASSUME PressInv, NEW on, NEW off, ApplyOcgOverrides(on, off)
  PROVE  PressInv'
<1> DEFINE doc == press.doc
           conflict == \/ on \intersect off # {}
                       \/ ~(on \union off \subseteq 0 .. doc.layers - 1)
           new == [doc EXCEPT !.off = OffWithOverrides(doc, on, off)]
           all == 0 .. doc.layers - 1
<1>1. press.pc = "ready" /\ doc \in PressDocs
  BY DEF ApplyOcgOverrides, PressInv, ScanInv, WalkInv
<1>2. /\ press'.pc = IF conflict THEN "refused" ELSE "painted"
      /\ press'.doc = new /\ press'.forced = on /\ press'.hidden = off /\ press'.before = doc
  BY DEF ApplyOcgOverrides
<1>3. /\ doc.layers \in Nat /\ doc.base \in {"ON", "OFF"}
      /\ doc.on \union doc.off \subseteq all
      /\ {"off", "on", "base", "layers"} \subseteq DOMAIN doc
  BY <1>1, PressAssumption DEF PressAssumption
<1>4. /\ new.off = (doc.off \union off) \ on
      /\ new.on = doc.on /\ new.base = doc.base /\ new.layers = doc.layers
  BY <1>3 DEF OffWithOverrides
<1> HIDE DEF new, conflict
<1>5. ASSUME press'.pc = "painted" PROVE LayersObeyed'
  <2>1. on \intersect off = {} /\ on \union off \subseteq all
    BY <1>2, <1>5 DEF conflict
  <2>2. VisibleLayers(new) = (IF doc.base = "ON" THEN all ELSE doc.on) \ ((doc.off \union off) \ on)
    BY <1>4 DEF VisibleLayers
  <2>3. VisibleLayers(doc) = (IF doc.base = "ON" THEN all ELSE doc.on) \ doc.off
    BY DEF VisibleLayers
  <2> HIDE DEF all
  <2> DEFINE shown == VisibleLayers(new)
  <2>4. shown \intersect off = {}
    BY <2>1, <2>2
  <2>5. on \ shown # {} => doc.base = "OFF"
    BY <1>3, <2>1, <2>2
  <2>6. on \intersect doc.on \subseteq shown
    BY <1>3, <2>1, <2>2
  <2>7. shown \ on = VisibleLayers(doc) \ (off \union on)
    BY <2>2, <2>3
  <2> HIDE DEF shown
  <2>8. shown = VisibleLayers(press.doc)'
    BY <1>2 DEF shown
  <2> QED
    BY <1>2, <1>4, <2>4, <2>5, <2>6, <2>7, <2>8 DEF LayersObeyed
<1>6. press'.pc \notin {"scan", "ready", "plates", "printed"}
  BY <1>2
<1> QED
  BY <1>5, <1>6 DEF PressInv, ScanInv, FilesInv, PlatesTrue, LayersObeyed

-----------------------------------------------------------------------------
(* The scan.                                                               *)

LEMMA DocShape ==
  ASSUME NEW d \in PressDocs
  PROVE  /\ Missing \notin DOMAIN d.resources
         /\ \A r \in DOMAIN d.resources :
              /\ d.resources[r].spaces \in SUBSET Spaces
              /\ d.resources[r].patterns \in Seq(DOMAIN d.resources)
              /\ d.resources[r].xobjects \in Seq(XObjects(DOMAIN d.resources))
         /\ Len(d.pages) \in Nat /\ DOMAIN d.pages = 1 .. Len(d.pages)
         /\ \A n \in DOMAIN d.pages : /\ d.pages[n].of \in DOMAIN d.resources
                                      /\ d.pages[n].direct \subseteq Processes
<1> DEFINE R == DOMAIN d.resources
           dictionary == [spaces : SUBSET Spaces, patterns : Seq(R), xobjects : Seq(XObjects(R))]
           page == [of : R, own : BOOLEAN, direct : SUBSET Processes]
<1>1. Missing \notin R /\ d.resources \in [R -> dictionary] /\ d.pages \in Seq(page)
  BY PressAssumption DEF PressAssumption
<1>2. \A x \in dictionary : /\ x.spaces \in SUBSET Spaces /\ x.patterns \in Seq(R)
                            /\ x.xobjects \in Seq(XObjects(R))
  OBVIOUS
<1>3. \A p \in page : p.of \in R /\ p.direct \subseteq Processes
  OBVIOUS
<1> HIDE DEF dictionary
<1>4. \A r \in R : d.resources[r] \in dictionary
  BY <1>1
<1>5. \A r \in R : /\ d.resources[r].spaces \in SUBSET Spaces /\ d.resources[r].patterns \in Seq(R)
                   /\ d.resources[r].xobjects \in Seq(XObjects(R))
  BY <1>2, <1>4
<1> HIDE DEF R
<1>6. d.pages \in Seq(page) /\ Len(d.pages) \in Nat /\ DOMAIN d.pages = 1 .. Len(d.pages)
      /\ \A n \in DOMAIN d.pages : d.pages[n] \in page
  <2> HIDE DEF page
  <2> QED
    BY <1>1
<1>7. \A n \in DOMAIN d.pages : d.pages[n].of \in R /\ d.pages[n].direct \subseteq Processes
  BY <1>3, <1>6
<1> QED
  BY <1>1, <1>5, <1>6, <1>7 DEF R

LEMMA BelowShape ==
  ASSUME NEW d \in PressDocs, NEW r \in DOMAIN d.resources
  PROVE  /\ Len(Below(d.resources[r])) \in Nat
         /\ DOMAIN Below(d.resources[r]) = 1 .. Len(Below(d.resources[r]))
         /\ Len(d.resources[r].patterns) \in Nat
         /\ Len(Below(d.resources[r])) = Len(d.resources[r].patterns) + Len(d.resources[r].xobjects)
         /\ \A i \in DOMAIN Below(d.resources[r]) :
              /\ i \in Nat \ {0}
              /\ Below(d.resources[r])[i].spaces \in SUBSET Spaces
              /\ Below(d.resources[r])[i].of \in DOMAIN d.resources \union {Missing}
<1> DEFINE R == DOMAIN d.resources
           patterns == d.resources[r].patterns
           xobjects == d.resources[r].xobjects
           first == [i \in DOMAIN patterns |-> [spaces |-> {}, of |-> patterns[i]]]
           X == XObjects(R)
<1>1. patterns \in Seq(R) /\ xobjects \in Seq(X)
  BY DocShape
<1>2. first \in Seq(X) /\ Len(first) = Len(patterns)
  <2>1. \A e \in R : [spaces |-> {}, of |-> e] \in X
    BY DEF XObjects
  <2>2. \A i \in 1 .. Len(patterns) : patterns[i] \in R
    BY <1>1
  <2> HIDE DEF X, R, patterns
  <2>3. \A i \in 1 .. Len(patterns) : [spaces |-> {}, of |-> patterns[i]] \in X
    BY <2>1, <2>2
  <2>4. first = [i \in 1 .. Len(patterns) |-> [spaces |-> {}, of |-> patterns[i]]]
    BY <1>1
  <2>5. first \in [1 .. Len(patterns) -> X]
    BY <2>3, <2>4
  <2> HIDE DEF first
  <2> QED
    BY <1>1, <2>5
<1>3. Below(d.resources[r]) = first \o xobjects
  BY DEF Below
<1>4. \A e \in X : e.spaces \in SUBSET Spaces /\ e.of \in R \union {Missing}
  BY DEF XObjects
<1> DEFINE below == Below(d.resources[r])
<1> HIDE DEF X, R, first, patterns, xobjects, below
<1>5. first \o xobjects \in Seq(X) /\ Len(first \o xobjects) = Len(first) + Len(xobjects)
  BY <1>1, <1>2
<1>6. below \in Seq(X) /\ Len(below) = Len(patterns) + Len(xobjects)
  BY <1>2, <1>3, <1>5 DEF below
<1>7. \A i \in DOMAIN below : below[i] \in X
  BY <1>6
<1>8. \A i \in DOMAIN below : below[i].spaces \in SUBSET Spaces /\ below[i].of \in R \union {Missing}
  BY <1>4, <1>7
<1>9. /\ Len(below) \in Nat /\ DOMAIN below = 1 .. Len(below) /\ Len(patterns) \in Nat
  BY <1>1, <1>6
<1>10. \A i \in DOMAIN below : i \in Nat \ {0}
  BY <1>9
<1> QED
  BY <1>6, <1>8, <1>9, <1>10 DEF R, patterns, xobjects, below

\* What is reached from a page is reached through what it reaches.
LEMMA ReachedOn ==
  ASSUME NEW d \in PressDocs, NEW n \in DOMAIN d.pages, NEW without
  PROVE  /\ d.pages[n].of \in Reached(d, n, without)
         /\ Reached(d, n, without) \subseteq DOMAIN d.resources
         /\ \A r \in Reached(d, n, without) : \A i \in DOMAIN Below(d.resources[r]) :
              LET e == Below(d.resources[r])[i].of
              IN  e = Missing \/ <<n, r, i>> \in without \/ e \in Reached(d, n, without)
<1>1. d.pages[n].of \in DOMAIN d.resources
  BY DocShape
<1>2. ASSUME NEW r \in Reached(d, n, without), NEW i \in DOMAIN Below(d.resources[r]),
             Below(d.resources[r])[i].of # Missing, <<n, r, i>> \notin without
      PROVE  Below(d.resources[r])[i].of \in Reached(d, n, without)
  <2> DEFINE e == Below(d.resources[r])[i].of
  <2>1. r \in DOMAIN d.resources
    BY DEF Reached
  <2>2. e \in DOMAIN d.resources
    BY <1>2, <2>1, BelowShape
  <2>3. ASSUME NEW S \in SUBSET DOMAIN d.resources, Closed(d, S, n, without)
        PROVE  e \in S
    <3>1. r \in S
      BY <2>3 DEF Reached
    <3> QED
      BY <1>2, <2>3, <3>1 DEF Closed
  <2> HIDE DEF e
  <2>4. e \in Reached(d, n, without)
    BY <2>2, <2>3 DEF Reached
  <2> QED
    BY <2>4 DEF e
<1>3. d.pages[n].of \in Reached(d, n, without)
  BY <1>1 DEF Reached, Closed
<1> QED
  BY <1>2, <1>3 DEF Reached

LEMMA SpacesOfAreSpaces ==
  ASSUME NEW d \in PressDocs, NEW r \in DOMAIN d.resources, NEW n, NEW without
  PROVE  SpacesOf(d, r, n, without) \subseteq Spaces
<1> DEFINE below == Below(d.resources[r])
           kept == {i \in DOMAIN below : <<n, r, i>> \notin without}
<1>1. \A i \in kept : below[i].spaces \in SUBSET Spaces
  BY BelowShape
<1>2. d.resources[r].spaces \in SUBSET Spaces
  BY DocShape
<1> HIDE DEF kept, below
<1> QED
  BY <1>1, <1>2 DEF SpacesOf, kept, below

\* tiffsep's names are those of the page's spaces.
LEMMA UsedAreFiles ==
  ASSUME NEW d \in PressDocs, NEW n \in DOMAIN d.pages
  PROVE  UsedOn(d, n) \subseteq ToSet(FileOrder)
<1>1. \A s \in Spaces : SpotsIn(s) \subseteq ToSet(FileOrder)
  <2> SUFFICES ASSUME NEW s \in Spaces PROVE SpotsIn(s) \subseteq ToSet(FileOrder)
    OBVIOUS
  <2>1. s.names \subseteq ToSet(FileOrder) \union {"All", "None"}
    BY DEF Spaces
  <2>2. CASE s.kind = "Separation"
    BY <2>1, <2>2 DEF SpotsIn
  <2>3. CASE s.kind = "DeviceN"
    BY <2>1, <2>3 DEF SpotsIn
  <2>4. CASE s.kind # "Separation" /\ s.kind # "DeviceN"
    BY <2>4 DEF SpotsIn
  <2> QED
    BY <2>2, <2>3, <2>4
<1>2. \A r \in Reached(d, n, {}) : SpacesOf(d, r, n, {}) \subseteq Spaces
  BY SpacesOfAreSpaces DEF Reached
<1>3. SpacesOn(d, n, {}) \subseteq Spaces
  BY <1>2 DEF SpacesOn
<1>4. SpotsOf(SpacesOn(d, n, {})) \subseteq ToSet(FileOrder)
  BY <1>1, <1>3 DEF SpotsOf
<1>5. d.pages[n].direct \subseteq Processes /\ Processes \subseteq ToSet(FileOrder)
  BY DocShape, PressAssumption DEF PressAssumption
<1> QED
  BY <1>4, <1>5 DEF UsedOn

-----------------------------------------------------------------------------
(* A step of the walk, of which w is the state.                            *)

LEMMA ExtractedIs ==
  ASSUME NEW w, DOMAIN w = PressFields, NEW spaces, NEW v, v = Extracted(spaces, w)
  PROVE  /\ DOMAIN v = PressFields /\ v.spots = w.spots \union SpotsOf(spaces)
         /\ v.families = w.families \union FamiliesOf(spaces)
         /\ v.pc = w.pc /\ v.doc = w.doc /\ v.page = w.page /\ v.stack = w.stack
         /\ v.stale = w.stale /\ v.lost = w.lost /\ v.cut = w.cut
BY DEF Extracted, PressFields

LEMMA SteppedIs ==
  ASSUME NEW w, DOMAIN w = PressFields, NEW v, v = Stepped(w)
  PROVE  /\ DOMAIN v = PressFields /\ v.spots = w.spots /\ v.families = w.families
         /\ v.pc = w.pc /\ v.doc = w.doc /\ v.page = w.page
         /\ v.stack = [w.stack EXCEPT ![Len(w.stack)].next = @ + 1]
         /\ v.stale = w.stale /\ v.lost = w.lost /\ v.cut = w.cut
BY DEF Stepped, PressFields

LEMMA EnteredIs ==
  ASSUME NEW w, DOMAIN w = PressFields, NEW r, NEW v, v = Entered(r, w)
  PROVE  /\ DOMAIN v = PressFields
         /\ v.spots = w.spots \union SpotsOf(w.doc.resources[r].spaces)
         /\ v.families = w.families \union FamiliesOf(w.doc.resources[r].spaces)
         /\ v.pc = w.pc /\ v.doc = w.doc /\ v.page = w.page
         /\ v.stack = Append(w.stack, Frame(r))
         /\ v.stale = w.stale /\ v.lost = w.lost /\ v.cut = w.cut
<1> DEFINE u == [w EXCEPT !.stack = Append(@, Frame(r))]
<1>1. /\ DOMAIN u = PressFields /\ u.stack = Append(w.stack, Frame(r))
      /\ u.spots = w.spots /\ u.families = w.families /\ u.pc = w.pc /\ u.doc = w.doc
      /\ u.page = w.page /\ u.stale = w.stale /\ u.lost = w.lost /\ u.cut = w.cut
  BY DEF PressFields
<1>2. v = Extracted(w.doc.resources[r].spaces, u)
  BY DEF Entered
<1> HIDE DEF u
<1> QED
  BY <1>1, <1>2, ExtractedIs

\* A stack's top and the rest of it; its top changed; and a frame more.
LEMMA Stacks ==
  ASSUME NEW R, NEW stack \in Seq(R), stack # <<>>
  PROVE  /\ Len(stack) \in Nat \ {0} /\ DOMAIN stack = 1 .. Len(stack)
         /\ Last(stack) = stack[Len(stack)] /\ Last(stack) \in R
         /\ Front(stack) \in Seq(R) /\ DOMAIN Front(stack) = 1 .. Len(stack) - 1
         /\ \A k \in 1 .. Len(stack) - 1 : Front(stack)[k] = stack[k]
<1>1. /\ Len(stack) \in Nat \ {0} /\ DOMAIN stack = 1 .. Len(stack)
      /\ \A k \in 1 .. Len(stack) : stack[k] \in R
  OBVIOUS
<1>2. Last(stack) = stack[Len(stack)] /\ Last(stack) \in R
  BY <1>1 DEF Last
<1>3. Front(stack) \in Seq(R) /\ DOMAIN Front(stack) = 1 .. Len(stack) - 1
      /\ \A k \in 1 .. Len(stack) - 1 : Front(stack)[k] = stack[k]
  BY <1>1 DEF Front
<1> QED
  BY <1>1, <1>2, <1>3

LEMMA TopChanged ==
  ASSUME NEW R, NEW stack \in Seq(R), stack # <<>>, NEW e \in R,
         NEW changed, changed = [stack EXCEPT ![Len(stack)] = e]
  PROVE  /\ changed \in Seq(R) /\ Len(changed) = Len(stack) /\ changed[Len(stack)] = e
         /\ DOMAIN changed = DOMAIN stack /\ changed # <<>>
         /\ \A k \in 1 .. Len(stack) : k # Len(stack) => changed[k] = stack[k]
OBVIOUS

LEMMA Pushed ==
  ASSUME NEW R, NEW stack \in Seq(R), NEW e \in R, NEW pushed, pushed = Append(stack, e)
  PROVE      /\ pushed \in Seq(R) /\ pushed # <<>> /\ DOMAIN pushed = 1 .. Len(stack) + 1
             /\ Len(stack) \in Nat /\ pushed[Len(stack) + 1] = e
             /\ \A k \in 1 .. Len(stack) : pushed[k] = stack[k]
OBVIOUS

\* What is settled stays so while more is found and passed over.
LEMMA TracedOn ==
  ASSUME NEW w, NEW v, Grown(w, v), NEW n, NEW E, Traced(w, n, E, <<>>)
  PROVE  Traced(v, n, E, <<>>)
BY DEF Grown, Traced, Settled, Met

\* A page that has been walked has been walked to all it leads to.
LEMMA TracedToTheEnd ==
  ASSUME NEW w, w.doc \in PressDocs, NEW n \in DOMAIN w.doc.pages, NEW E, Traced(w, n, E, <<>>)
  PROVE  LET spaces == SpacesOn(w.doc, n, w.lost \union w.cut)
         IN  SpotsOf(spaces) \subseteq w.spots /\ FamiliesOf(spaces) \subseteq w.families
<1> DEFINE missed == w.lost \union w.cut
           d == w.doc
<1>1. /\ E \in SUBSET DOMAIN d.resources /\ d.pages[n].of \in E
      /\ \A r \in E : /\ Met(w, d.resources[r].spaces)
                      /\ \A i \in DOMAIN Below(d.resources[r]) : Settled(w, n, E, r, i)
  BY DEF Traced
<1>2. Closed(d, E, n, missed)
  BY <1>1 DEF Closed, Settled
<1>3. Reached(d, n, missed) \subseteq E
  BY <1>1, <1>2 DEF Reached
<1>4. ASSUME NEW r \in E, NEW s \in SpacesOf(d, r, n, missed)
      PROVE  SpotsIn(s) \subseteq w.spots /\ FamiliesIn(s) \subseteq w.families
  <2> DEFINE below == Below(d.resources[r])
  <2>1. CASE s \in d.resources[r].spaces
    BY <1>1, <2>1 DEF Met, SpotsOf, FamiliesOf
  <2>2. CASE \E i \in DOMAIN below : <<n, r, i>> \notin missed /\ s \in below[i].spaces
    <3>1. PICK i \in DOMAIN below : <<n, r, i>> \notin missed /\ s \in below[i].spaces
      BY <2>2
    <3>2. Met(w, below[i].spaces)
      BY <1>1, <3>1 DEF Settled
    <3> QED
      BY <3>1, <3>2 DEF Met, SpotsOf, FamiliesOf
  <2> QED
    BY <1>4, <2>1, <2>2 DEF SpacesOf
<1> HIDE DEF missed, d
<1>5. \A s \in SpacesOn(d, n, missed) : SpotsIn(s) \subseteq w.spots /\ FamiliesIn(s) \subseteq w.families
  BY <1>3, <1>4 DEF SpacesOn
<1> QED
  BY <1>5 DEF SpotsOf, FamiliesOf, missed, d

\* What the walk finds under a dictionary it reached is on the page.
LEMMA FoundOnPage ==
  ASSUME NEW d \in PressDocs, NEW n \in DOMAIN d.pages, NEW r \in Reached(d, n, {}),
         NEW spaces, \/ spaces = d.resources[r].spaces
                     \/ \E i \in DOMAIN Below(d.resources[r]) : spaces = Below(d.resources[r])[i].spaces
  PROVE  /\ SpotsOf(spaces) \subseteq SpotsOf(Used(d))
         /\ FamiliesOf(spaces) \subseteq FamiliesOf(Used(d))
<1>1. spaces \subseteq SpacesOf(d, r, n, {})
  BY DEF SpacesOf
<1>2. SpacesOf(d, r, n, {}) \subseteq SpacesOn(d, n, {})
  BY DEF SpacesOn
<1>3. spaces \subseteq Used(d)
  BY <1>1, <1>2 DEF Used
<1> HIDE DEF Used
<1> QED
  BY <1>3 DEF SpotsOf, FamiliesOf

-----------------------------------------------------------------------------
(* The walk keeps its invariant.                                           *)

LEMMA WalkGoesOn ==
  ASSUME press'.pc = "scan", WalkInv(press')
  PROVE  PressInv'
BY DEF PressInv, ScanInv, FilesInv, PlatesTrue, LayersObeyed

LEMMA ScanKeeps ==
  ASSUME PressInv, ScanPageColorspaces
  PROVE  PressInv'
<1> DEFINE d == press.doc
           n == press.page + 1
           page == d.pages[n]
           begun == [press EXCEPT !.page = @ + 1, !.stale = 0]
           v == press'
           R == DOMAIN d.resources
<1>1. /\ press.pc = "scan" /\ press.stack = <<>> /\ press.page < Len(d.pages)
      /\ v = IF page.own THEN Entered(page.of, begun) ELSE begun
  BY DEF ScanPageColorspaces
<1>2. /\ DOMAIN press = PressFields /\ d \in PressDocs /\ press.page \in 0 .. Len(d.pages)
      /\ OnStack(press) /\ Sound(press) /\ Walks(press) /\ AloneInv(press)
  BY <1>1 DEF PressInv, ScanInv, WalkInv
<1>3. /\ DOMAIN begun = PressFields /\ begun.page = n /\ begun.stale = 0 /\ begun.pc = "scan"
      /\ begun.doc = d /\ begun.spots = press.spots /\ begun.families = press.families
      /\ begun.stack = <<>> /\ begun.lost = press.lost /\ begun.cut = press.cut
  BY <1>1, <1>2 DEF PressFields
<1> HIDE DEF begun
<1>4. /\ n \in 1 .. Len(d.pages) /\ n \in DOMAIN d.pages /\ Len(d.pages) \in Nat /\ press.page \in Nat
      /\ page.of \in R /\ page.of \in Reached(d, n, {})
  BY <1>1, <1>2, DocShape, ReachedOn
<1>5. \A m : m \in 1 .. n <=> m \in 1 .. press.page \/ m = n
  BY <1>4
<1>6. \A m \in 1 .. press.page : m # n
  BY <1>4
<1>7. \A m \in 1 .. press.page : d.pages[m].own => \E E : Traced(press, m, E, <<>>)
  BY <1>1, <1>2 DEF Walks
<1>8. CASE page.own
  <2> DEFINE spaces == d.resources[page.of].spaces
             E == {page.of}
  <2>1. /\ DOMAIN v = PressFields /\ v.spots = press.spots \union SpotsOf(spaces)
        /\ v.families = press.families \union FamiliesOf(spaces)
        /\ v.pc = "scan" /\ v.doc = d /\ v.page = n /\ v.stack = Append(<<>>, Frame(page.of))
        /\ v.stale = 0 /\ v.lost = press.lost /\ v.cut = press.cut
    <3>1. v = Entered(page.of, begun)
      BY <1>1, <1>8
    <3> HIDE DEF v, page
    <3>2. /\ DOMAIN v = PressFields
          /\ v.spots = begun.spots \union SpotsOf(begun.doc.resources[page.of].spaces)
          /\ v.families = begun.families \union FamiliesOf(begun.doc.resources[page.of].spaces)
          /\ v.pc = begun.pc /\ v.doc = begun.doc /\ v.page = begun.page
          /\ v.stack = Append(begun.stack, Frame(page.of))
          /\ v.stale = begun.stale /\ v.lost = begun.lost /\ v.cut = begun.cut
      BY <1>3, <3>1, EnteredIs
    <3> QED
      BY <1>3, <3>2
  <2> HIDE DEF v
  <2>2. /\ v.stack = <<Frame(page.of)>> /\ DOMAIN v.stack = {1}
        /\ v.stack[1].of = page.of /\ v.stack[1].next = 1 /\ v.stack[1].reused = {}
        /\ v.stack \in Seq(Frames(R))
    <3>1. Frame(page.of) \in Frames(R)
      BY <1>4 DEF Frame, Frames
    <3> DEFINE f == Frame(page.of)
    <3>2. f.of = page.of /\ f.next = 1 /\ f.reused = {}
      BY DEF Frame
    <3> HIDE DEF f
    <3>3. v.stack = <<f>>
      BY <2>1 DEF f
    <3>4. v.stack \in Seq(Frames(R)) /\ DOMAIN v.stack = {1} /\ v.stack[1] = f
      <4> DEFINE F == Frames(R)
      <4>1. f \in F
        BY <3>1 DEF f
      <4> HIDE DEF F
      <4>2. <<f>> \in Seq(F) /\ DOMAIN <<f>> = {1} /\ <<f>>[1] = f
        BY <4>1
      <4> QED
        BY <3>3, <4>2 DEF F
    <3> QED
      BY <3>2, <3>3, <3>4 DEF f
  <2>3. OnStack(v)
    <3>1. \A k \in DOMAIN v.stack : v.stack[k].of \in Reached(v.doc, v.page, {})
      BY <1>4, <2>1, <2>2
    <3>2. v.stack \in Seq(Frames(DOMAIN v.doc.resources))
      BY <2>1, <2>2
    <3>3. v.page \in DOMAIN v.doc.pages /\ v.doc.pages[v.page].own
      BY <1>4, <1>8, <2>1
    <3> QED
      BY <3>1, <3>2, <3>3 DEF OnStack
  <2>4. Sound(v)
    <3>1. /\ SpotsOf(spaces) \subseteq SpotsOf(Used(d))
          /\ FamiliesOf(spaces) \subseteq FamiliesOf(Used(d))
      BY <1>2, <1>4, FoundOnPage
    <3> HIDE DEF spaces
    <3>2. /\ press.spots \subseteq SpotsOf(Used(d)) /\ press.families \subseteq FamiliesOf(Used(d))
      BY <1>2 DEF Sound
    <3> QED
      BY <2>1, <3>1, <3>2 DEF Sound
  <2>5. Grown(press, v)
    BY <2>1 DEF Grown
  <2>6. Traced(v, n, E, v.stack)
    <3>1. Met(v, spaces)
      BY <2>1 DEF Met
    <3>2. \A i \in DOMAIN Below(d.resources[page.of]) : v.stack[1].next <= i
      <4>1. \A i \in DOMAIN Below(d.resources[page.of]) : i \in Nat \ {0}
        BY <1>2, <1>4, BelowShape
      <4>2. \A i \in Nat \ {0} : 1 <= i
        OBVIOUS
      <4>3. v.stack[1].next = 1
        BY <2>2
      <4> QED
        BY <4>1, <4>2, <4>3, Zenon
    <3> QED
      BY <1>4, <2>1, <2>2, <3>1, <3>2 DEF Traced
  <2>7. Walks(v)
    <3> SUFFICES ASSUME NEW m \in 1 .. n, d.pages[m].own
                 PROVE  \E F : Traced(v, m, F, IF m = n THEN v.stack ELSE <<>>)
      BY <2>1 DEF Walks
    <3>1. CASE m = n
      BY <2>6, <3>1
    <3>2. CASE m \in 1 .. press.page
      <4>1. PICK F : Traced(press, m, F, <<>>)
        BY <1>7, <3>2
      <4> QED
        BY <1>6, <2>5, <3>2, <4>1, TracedOn
    <3> QED
      BY <1>5, <3>1, <3>2
  <2>8. AloneInv(v)
    <3>1. \A m : Alone(v.doc, m) => \A lost \in v.lost : lost[1] # m
      BY <1>2, <2>1 DEF AloneInv
    <3>2. \A k \in DOMAIN v.stack :
            v.stack[k].reused = {} /\ (k # 1 => v.stack[k].of # v.doc.pages[v.page].of)
      BY <2>2
    <3> QED
      BY <2>1, <3>1, <3>2 DEF AloneInv
  <2>9. WalkInv(v)
    <3>1. n \in 0 .. Len(d.pages)
      BY <1>4
    <3>2. v.page \in 0 .. Len(v.doc.pages)
      BY <2>1, <3>1, Zenon
    <3> QED
      BY <1>2, <2>1, <2>3, <2>4, <2>7, <2>8, <3>2 DEF WalkInv
  <2> QED
    BY <2>1, <2>9, WalkGoesOn DEF v
<1>9. CASE ~page.own
  <2>1. v = begun
    BY <1>1, <1>9
  <2> HIDE DEF v
  <2>2. OnStack(v)
    <3>1. v.stack = <<>>
      BY <1>3, <2>1
    <3>2. <<>> \in Seq(Frames(DOMAIN v.doc.resources))
      OBVIOUS
    <3> QED
      BY <3>1, <3>2 DEF OnStack
  <2>3. Sound(v) /\ Grown(press, v) /\ AloneInv(v)
    BY <1>2, <1>3, <2>1 DEF Sound, Grown, AloneInv
  <2>4. Walks(v)
    <3> SUFFICES ASSUME NEW m \in 1 .. n, d.pages[m].own
                 PROVE  \E F : Traced(v, m, F, IF m = n THEN v.stack ELSE <<>>)
      BY <1>3, <2>1 DEF Walks
    <3>1. m \in 1 .. press.page
      BY <1>5, <1>9
    <3>2. PICK F : Traced(press, m, F, <<>>)
      BY <1>7, <3>1
    <3> QED
      BY <1>6, <2>3, <3>1, <3>2, TracedOn
  <2>5. WalkInv(v)
    BY <1>2, <1>3, <1>4, <2>1, <2>2, <2>3, <2>4 DEF WalkInv
  <2> QED
    BY <1>3, <2>1, <2>5, WalkGoesOn DEF v
<1> QED
  BY <1>8, <1>9

\* Where the walk is.
LEMMA WalkAt ==
  ASSUME PressInv, Scanning
  PROVE  /\ press.pc = "scan" /\ DOMAIN press = PressFields /\ press.doc \in PressDocs
         /\ press.page \in 0 .. Len(press.doc.pages) /\ press.page \in Nat
         /\ OnStack(press) /\ Sound(press) /\ Walks(press) /\ AloneInv(press)
         /\ press.stack \in Seq(Frames(DOMAIN press.doc.resources)) /\ press.stack # <<>>
         /\ Len(press.stack) \in Nat \ {0} /\ DOMAIN press.stack = 1 .. Len(press.stack)
         /\ Top = press.stack[Len(press.stack)] /\ Top \in Frames(DOMAIN press.doc.resources)
         /\ press.page \in DOMAIN press.doc.pages /\ press.page \in 1 .. press.page
         /\ press.doc.pages[press.page].own
         /\ \A k \in DOMAIN press.stack :
              press.stack[k].of \in Reached(press.doc, press.page, {})
         /\ Top.of \in DOMAIN press.doc.resources
         /\ Top.of \in Reached(press.doc, press.page, {}) /\ Top.next \in Nat \ {0}
         /\ TopBelow = Below(press.doc.resources[Top.of])
         /\ TopPatterns = Len(press.doc.resources[Top.of].patterns)
<1> DEFINE d == press.doc
           R == DOMAIN d.resources
           F == Frames(R)
<1>1. press.pc = "scan" /\ press.stack # <<>> /\ WalkInv(press)
  BY DEF Scanning, PressInv, ScanInv
<1>2. /\ DOMAIN press = PressFields /\ d \in PressDocs /\ press.page \in 0 .. Len(d.pages)
      /\ OnStack(press) /\ Sound(press) /\ Walks(press) /\ AloneInv(press)
  BY <1>1 DEF WalkInv
<1>3. /\ press.stack \in Seq(F) /\ press.page \in DOMAIN d.pages /\ d.pages[press.page].own
      /\ \A k \in DOMAIN press.stack : press.stack[k].of \in Reached(d, press.page, {})
  BY <1>1, <1>2 DEF OnStack
<1>4. \A f \in F : f.of \in R /\ f.next \in Nat \ {0}
  BY DEF Frames
<1> HIDE DEF F
<1>5. /\ Len(press.stack) \in Nat \ {0} /\ DOMAIN press.stack = 1 .. Len(press.stack)
      /\ Top = press.stack[Len(press.stack)] /\ Top \in F
  BY <1>1, <1>3, Stacks DEF Top
<1>6. press.page \in Nat /\ press.page \in 1 .. press.page
  BY <1>2, <1>3, DocShape
<1>7. Top.of \in R /\ Top.next \in Nat \ {0} /\ Top.of \in Reached(d, press.page, {})
  BY <1>3, <1>4, <1>5
<1>8. TopBelow = Below(d.resources[Top.of]) /\ TopPatterns = Len(d.resources[Top.of].patterns)
  BY DEF TopBelow, TopPatterns
<1> QED
  BY <1>1, <1>2, <1>3, <1>5, <1>6, <1>7, <1>8 DEF F

\* The pages before the one that is walked stay as they are.
LEMMA OtherPages ==
  ASSUME PressInv, Scanning, NEW v, Grown(press, v), v.page = press.page,
         \A E : Traced(press, press.page, E, press.stack) =>
                  \E F : Traced(v, press.page, F, v.stack)
  PROVE  Walks(v)
<1>1. Walks(press) /\ v.doc = press.doc
  BY WalkAt DEF Grown
<1> SUFFICES ASSUME NEW m \in 1 .. press.page, press.doc.pages[m].own
             PROVE  \E F : Traced(v, m, F, IF m = press.page THEN v.stack ELSE <<>>)
  BY <1>1 DEF Walks
<1>2. PICK E : Traced(press, m, E, IF m = press.page THEN press.stack ELSE <<>>)
  BY <1>1 DEF Walks
<1>3. CASE m = press.page
  BY <1>2, <1>3
<1>4. CASE m # press.page
  BY <1>2, <1>4, TracedOn
<1> QED
  BY <1>3, <1>4

\* Frames move on but only past what has been settled.
LEMMA TracedByFrames ==
  ASSUME NEW w, NEW v, Grown(w, v), NEW n, NEW E, NEW stack, NEW later,
         Traced(w, n, E, stack),
         \A r \in E : \A i \in DOMAIN Below(w.doc.resources[r]) :
           (\E k \in DOMAIN stack : stack[k].of = r /\ stack[k].next <= i)
             => Settled(v, n, E, r, i) \/ \E k \in DOMAIN later : later[k].of = r /\ later[k].next <= i
  PROVE  Traced(v, n, E, later)
<1>1. \A r, i : Settled(w, n, E, r, i) => Settled(v, n, E, r, i)
  BY DEF Grown, Settled, Met
<1>2. \A spaces : Met(w, spaces) => Met(v, spaces)
  BY DEF Grown, Met
<1>3. v.doc = w.doc
  BY DEF Grown
<1> QED
  BY <1>1, <1>2, <1>3 DEF Traced

\* The stack with its top moved to the next.
LEMMA SteppedStack ==
  ASSUME PressInv, Scanning,
         NEW later, later = [press.stack EXCEPT ![Len(press.stack)].next = @ + 1]
  PROVE  /\ later \in Seq(Frames(DOMAIN press.doc.resources)) /\ Len(later) = Len(press.stack)
         /\ DOMAIN later = DOMAIN press.stack /\ later # <<>>
         /\ \A k \in DOMAIN press.stack :
              /\ later[k].of = press.stack[k].of /\ later[k].reused = press.stack[k].reused
              /\ k # Len(press.stack) => later[k].next = press.stack[k].next
         /\ later[Len(press.stack)].next = Top.next + 1
<1> DEFINE stack == press.stack
           F == Frames(DOMAIN press.doc.resources)
           top == [Top EXCEPT !.next = @ + 1]
<1>1. /\ stack \in Seq(F) /\ stack # <<>> /\ Len(stack) \in Nat \ {0} /\ DOMAIN stack = 1 .. Len(stack)
      /\ Top = stack[Len(stack)] /\ Top \in F
  BY WalkAt
<1>2. top \in F /\ top.of = Top.of /\ top.reused = Top.reused /\ top.next = Top.next + 1
  <2> DEFINE R == DOMAIN press.doc.resources
  <2>1. Top \in [of : R, next : Nat \ {0}, opened : BOOLEAN, reused : SUBSET Nat]
    BY <1>1 DEF Frames
  <2> HIDE DEF R
  <2>2. top \in [of : R, next : Nat \ {0}, opened : BOOLEAN, reused : SUBSET Nat]
        /\ top.of = Top.of /\ top.reused = Top.reused /\ top.next = Top.next + 1
    BY <2>1
  <2> QED
    BY <2>2 DEF Frames, R
<1>3. later = [stack EXCEPT ![Len(stack)] = top]
  BY <1>1
<1> HIDE DEF F, top
<1>4. /\ later \in Seq(F) /\ Len(later) = Len(stack) /\ later[Len(stack)] = top
      /\ DOMAIN later = DOMAIN stack /\ later # <<>>
      /\ \A k \in 1 .. Len(stack) : k # Len(stack) => later[k] = stack[k]
  BY <1>1, <1>2, <1>3, TopChanged
<1> QED
  BY <1>1, <1>2, <1>4 DEF F

LEMMA PassKeeps ==
  ASSUME PressInv, PassOver
  PROVE  PressInv'
<1> DEFINE d == press.doc
           n == press.page
           v == press'
           link == <<n, Top.of, Top.next>>
           later == [press.stack EXCEPT ![Len(press.stack)].next = @ + 1]
<1>0. Scanning /\ Top.next \in Top.reused
  BY DEF PassOver
<1>1. /\ press.pc = "scan" /\ DOMAIN press = PressFields /\ d \in PressDocs
      /\ n \in 0 .. Len(d.pages) /\ OnStack(press) /\ Sound(press) /\ AloneInv(press)
      /\ press.stack # <<>> /\ Len(press.stack) \in Nat \ {0} /\ DOMAIN press.stack = 1 .. Len(press.stack)
      /\ Top = press.stack[Len(press.stack)] /\ n \in DOMAIN d.pages /\ d.pages[n].own
      /\ \A k \in DOMAIN press.stack : press.stack[k].of \in Reached(d, n, {})
  BY <1>0, WalkAt
<1>2. /\ DOMAIN v = PressFields /\ v.pc = "scan" /\ v.doc = d /\ v.page = n
      /\ v.spots = press.spots /\ v.families = press.families /\ v.stale = press.stale
      /\ v.stack = later /\ v.lost = press.lost \union {link} /\ v.cut = press.cut
  <2> DEFINE u == Stepped(press)
  <2>1. /\ DOMAIN u = PressFields /\ u.pc = "scan" /\ u.doc = d /\ u.page = n
        /\ u.spots = press.spots /\ u.families = press.families /\ u.stale = press.stale
        /\ u.stack = later /\ u.lost = press.lost /\ u.cut = press.cut
    BY <1>1, SteppedIs
  <2>2. v = [u EXCEPT !.lost = @ \union {link}]
    BY DEF PassOver
  <2> HIDE DEF u, v, later, link
  <2> QED
    BY <2>1, <2>2 DEF PressFields
<1>3. /\ later \in Seq(Frames(DOMAIN d.resources)) /\ DOMAIN later = DOMAIN press.stack /\ later # <<>>
      /\ \A k \in DOMAIN press.stack : /\ later[k].of = press.stack[k].of
                                       /\ later[k].reused = press.stack[k].reused
                                       /\ k # Len(press.stack) => later[k].next = press.stack[k].next
  BY <1>0, SteppedStack
<1> HIDE DEF v, later
<1>4. Grown(press, v)
  BY <1>2 DEF Grown
<1>5. ASSUME NEW E, Traced(press, n, E, press.stack) PROVE Traced(v, n, E, v.stack)
  <2>1. ASSUME NEW r \in E, NEW i \in DOMAIN Below(d.resources[r]), NEW k \in DOMAIN press.stack,
               press.stack[k].of = r, press.stack[k].next <= i
        PROVE  Settled(v, n, E, r, i) \/ \E j \in DOMAIN later : later[j].of = r /\ later[j].next <= i
    <3>1. CASE k # Len(press.stack)
      BY <1>3, <2>1, <3>1
    <3>2. CASE k = Len(press.stack) /\ i = Top.next
      BY <1>1, <1>2, <2>1, <3>2 DEF Settled
    <3>3. CASE k = Len(press.stack) /\ i # Top.next
      <4>1. DOMAIN Below(d.resources[r]) = 1 .. Len(Below(d.resources[r])) /\ i \in Nat
        <5>1. r \in DOMAIN d.resources
          BY <1>5 DEF Traced
        <5> QED
          BY <1>1, <5>1, BelowShape
      <4>2. Top.next + 1 <= i /\ later[k].next = Top.next + 1
        <5>1. later[k].next = Top.next + 1
          BY <1>0, <3>3, SteppedStack DEF later
        <5>2. Top.next \in Nat /\ Top.next <= i
          BY <1>0, <1>1, <2>1, <3>3, WalkAt
        <5> QED
          BY <3>3, <4>1, <5>1, <5>2
      <4> QED
        BY <1>3, <2>1, <4>2
    <3> QED
      BY <3>1, <3>2, <3>3
  <2> QED
    BY <1>2, <1>4, <1>5, <2>1, TracedByFrames
<1>6. Walks(v)
  BY <1>0, <1>2, <1>4, <1>5, OtherPages
<1>7. OnStack(v) /\ Sound(v)
  BY <1>1, <1>2, <1>3 DEF OnStack, Sound
<1>8. AloneInv(v)
  <2>1. ~Alone(d, n)
    BY <1>0, <1>1 DEF AloneInv
  <2>2. link[1] = n
    OBVIOUS
  <2> HIDE DEF link
  <2> QED
    BY <1>1, <1>2, <2>1, <2>2 DEF AloneInv
<1>9. WalkInv(v)
  BY <1>1, <1>2, <1>6, <1>7, <1>8 DEF WalkInv
<1> QED
  BY <1>2, <1>9, WalkGoesOn DEF v

LEMMA OpenXObjectsKeeps ==
  ASSUME PressInv, NEW reused, OpenXObjects(reused)
  PROVE  PressInv'
<1> DEFINE d == press.doc
           n == press.page
           v == press'
           stack == press.stack
           F == Frames(DOMAIN d.resources)
           top == [Top EXCEPT !.opened = TRUE, !.reused = reused]
           later == [stack EXCEPT ![Len(stack)] = top]
<1>0. /\ Scanning /\ reused \subseteq TopPatterns + 1 .. Len(TopBelow)
      /\ Cardinality(reused) <= press.stale
  BY DEF OpenXObjects
<1>1. /\ press.pc = "scan" /\ DOMAIN press = PressFields /\ d \in PressDocs
      /\ n \in 0 .. Len(d.pages) /\ OnStack(press) /\ Sound(press) /\ AloneInv(press)
      /\ stack \in Seq(F) /\ stack # <<>> /\ Len(stack) \in Nat \ {0} /\ DOMAIN stack = 1 .. Len(stack)
      /\ Top = stack[Len(stack)] /\ Top \in F /\ n \in DOMAIN d.pages /\ d.pages[n].own
      /\ \A k \in DOMAIN stack : stack[k].of \in Reached(d, n, {})
  BY <1>0, WalkAt
<1>2. /\ TopPatterns \in Nat /\ Len(TopBelow) \in Nat
  BY <1>0, <1>1, WalkAt, BelowShape
<1>3. /\ reused \subseteq Nat /\ IsFiniteSet(reused)
      /\ Cardinality(reused) \in Nat /\ (Cardinality(reused) = 0 => reused = {})
  <2>1. IsFiniteSet(TopPatterns + 1 .. Len(TopBelow))
    BY <1>2, FS_Interval
  <2>2. IsFiniteSet(reused)
    BY <1>0, <2>1, FS_Subset
  <2>3. reused \subseteq Nat
    BY <1>0, <1>2
  <2> QED
    BY <2>2, <2>3, FS_CardinalityType, FS_EmptySet
<1>4. top \in F /\ top.of = Top.of /\ top.next = Top.next /\ top.reused = reused
  BY <1>1, <1>3 DEF Frames
<1>5. /\ DOMAIN v = PressFields /\ v.pc = "scan" /\ v.doc = d /\ v.page = n
      /\ v.spots = press.spots /\ v.families = press.families
      /\ v.stale = press.stale - Cardinality(reused)
      /\ v.stack = later /\ v.lost = press.lost /\ v.cut = press.cut
  <2>1. v = [press EXCEPT !.stale = @ - Cardinality(reused),
                          !.stack[Len(press.stack)] = [@ EXCEPT !.opened = TRUE, !.reused = reused]]
    BY DEF OpenXObjects
  <2>2. later = [stack EXCEPT ![Len(stack)] = [@ EXCEPT !.opened = TRUE, !.reused = reused]]
    BY <1>1
  <2> HIDE DEF v, later
  <2> QED
    BY <1>1, <2>1, <2>2 DEF PressFields
<1> HIDE DEF v, top
<1>6. /\ later \in Seq(F) /\ later # <<>> /\ DOMAIN later = DOMAIN stack
      /\ later[Len(stack)] = top
      /\ \A k \in 1 .. Len(stack) : k # Len(stack) => later[k] = stack[k]
  BY <1>1, <1>4, TopChanged
<1> HIDE DEF later
<1>7. \A k \in DOMAIN stack : later[k].of = stack[k].of /\ later[k].next = stack[k].next
  BY <1>1, <1>4, <1>6
<1>8. Grown(press, v)
  BY <1>5 DEF Grown
<1>9. ASSUME NEW E, Traced(press, n, E, stack) PROVE Traced(v, n, E, v.stack)
  BY <1>5, <1>6, <1>7, <1>8, <1>9, TracedByFrames
<1>10. Walks(v)
  BY <1>0, <1>5, <1>8, <1>9, OtherPages
<1>11. OnStack(v) /\ Sound(v)
  BY <1>1, <1>5, <1>6, <1>7 DEF OnStack, Sound
<1>12. AloneInv(v)
  <2>1. ASSUME Alone(d, n)
        PROVE  /\ v.stale = 0
               /\ \A k \in DOMAIN later : later[k].reused = {} /\ (k # 1 => later[k].of # d.pages[n].of)
    <3>1. press.stale = 0
          /\ \A k \in DOMAIN stack : stack[k].reused = {} /\ (k # 1 => stack[k].of # d.pages[n].of)
      BY <1>1, <2>1 DEF AloneInv
    <3>2. Cardinality(reused) = 0 /\ reused = {}
      BY <1>0, <1>3, <3>1
    <3>3. v.stale = 0
      BY <1>5, <3>1, <3>2
    <3> QED
      BY <1>1, <1>4, <1>6, <1>7, <3>1, <3>2, <3>3
  <2> QED
    BY <1>1, <1>5, <2>1 DEF AloneInv
<1>13. WalkInv(v)
  BY <1>1, <1>5, <1>10, <1>11, <1>12 DEF WalkInv
<1> QED
  BY <1>5, <1>13, WalkGoesOn DEF v

LEMMA LeaveKeeps ==
  ASSUME PressInv, LeaveResources
  PROVE  PressInv'
<1> DEFINE d == press.doc
           n == press.page
           v == press'
           stack == press.stack
           F == Frames(DOMAIN d.resources)
           later == Front(stack)
<1>0. Scanning /\ Top.next > Len(TopBelow)
  BY DEF LeaveResources
<1>1. /\ press.pc = "scan" /\ DOMAIN press = PressFields /\ d \in PressDocs
      /\ n \in 0 .. Len(d.pages) /\ OnStack(press) /\ Sound(press) /\ AloneInv(press)
      /\ stack \in Seq(F) /\ stack # <<>> /\ Len(stack) \in Nat \ {0} /\ DOMAIN stack = 1 .. Len(stack)
      /\ Top = stack[Len(stack)] /\ n \in DOMAIN d.pages /\ d.pages[n].own
      /\ Top.of \in DOMAIN d.resources /\ Top.of \in Reached(d, n, {}) /\ Top.next \in Nat \ {0}
      /\ TopBelow = Below(d.resources[Top.of]) /\ TopPatterns = Len(d.resources[Top.of].patterns)
      /\ \A k \in DOMAIN stack : stack[k].of \in Reached(d, n, {})
  BY <1>0, WalkAt
<1>2. /\ DOMAIN v = PressFields /\ v.pc = "scan" /\ v.doc = d /\ v.page = n
      /\ v.spots = press.spots /\ v.families = press.families
      /\ v.stale = press.stale + Len(TopBelow) - TopPatterns
      /\ v.stack = later /\ v.lost = press.lost /\ v.cut = press.cut
  BY <1>1 DEF LeaveResources, PressFields
<1> HIDE DEF v
<1>3. /\ later \in Seq(F) /\ DOMAIN later = 1 .. Len(stack) - 1
      /\ \A k \in DOMAIN later : later[k] = stack[k] /\ k \in DOMAIN stack
  <2>1. /\ later \in Seq(F) /\ DOMAIN later = 1 .. Len(stack) - 1
        /\ \A k \in 1 .. Len(stack) - 1 : later[k] = stack[k]
    BY <1>1, Stacks
  <2>2. \A k \in 1 .. Len(stack) - 1 : k \in 1 .. Len(stack)
    BY <1>1
  <2> QED
    BY <1>1, <2>1, <2>2
<1> HIDE DEF later, F
<1>4. Grown(press, v)
  BY <1>2 DEF Grown
<1>5. ASSUME NEW E, Traced(press, n, E, stack) PROVE Traced(v, n, E, v.stack)
  <2>1. ASSUME NEW r \in E, NEW i \in DOMAIN Below(d.resources[r]), NEW k \in DOMAIN stack,
               stack[k].of = r, stack[k].next <= i
        PROVE  \E j \in DOMAIN later : later[j].of = r /\ later[j].next <= i
    <3>1. k # Len(stack)
      <4>1. SUFFICES ASSUME k = Len(stack) PROVE FALSE
        OBVIOUS
      <4>2. r = Top.of /\ Top.next <= i /\ i \in DOMAIN TopBelow
        BY <1>1, <2>1, <4>1
      <4>3. i \in 1 .. Len(TopBelow) /\ Len(TopBelow) \in Nat
        BY <1>1, <4>2, BelowShape
      <4>4. Top.next \in Nat /\ i \in Nat /\ i <= Len(TopBelow)
        <5>1. \A m \in Nat : \A j \in 1 .. m : j \in Nat /\ j <= m
          OBVIOUS
        <5>2. i \in Nat /\ i <= Len(TopBelow)
          BY <4>3, <5>1, Zenon
        <5>3. Top.next \in Nat
          BY <1>1
        <5> QED
          BY <5>2, <5>3, Zenon
      <4>5. \A a, b, c \in Nat : ~(a > b /\ a <= c /\ c <= b)
        OBVIOUS
      <4> QED
        BY <1>0, <4>2, <4>3, <4>4, <4>5, Zenon
    <3>2. k \in DOMAIN later
      BY <1>1, <1>3, <3>1
    <3> QED
      BY <1>3, <2>1, <3>2
  <2> QED
    BY <1>2, <1>4, <1>5, <2>1, TracedByFrames
<1>6. Walks(v)
  BY <1>0, <1>2, <1>4, <1>5, OtherPages
<1>7. OnStack(v) /\ Sound(v)
  BY <1>1, <1>2, <1>3 DEF OnStack, Sound, F
<1>8. AloneInv(v)
  <2>1. ASSUME Alone(d, n), later # <<>>
        PROVE  /\ v.stale = 0
               /\ \A k \in DOMAIN later : later[k].reused = {} /\ (k # 1 => later[k].of # d.pages[n].of)
    <3>1. press.stale = 0
          /\ \A k \in DOMAIN stack : stack[k].reused = {} /\ (k # 1 => stack[k].of # d.pages[n].of)
      BY <1>1, <2>1 DEF AloneInv
    <3>2. Len(stack) # 1
      <4>1. SUFFICES ASSUME Len(stack) = 1 PROVE FALSE
        OBVIOUS
      <4>2. DOMAIN later = {}
        BY <1>3, <4>1
      <4>3. later \in Seq(F) /\ DOMAIN later = 1 .. Len(later) /\ Len(later) \in Nat
        BY <1>3
      <4>4. Len(later) = 0
        BY <4>2, <4>3
      <4> QED
        BY <2>1, <4>3, <4>4
    <3>3. Top.of # d.pages[n].of
      <4>1. Len(stack) \in DOMAIN stack
        BY <1>1
      <4> QED
        BY <1>1, <3>1, <3>2, <4>1
    <3>4. d.resources[Top.of].xobjects = <<>>
      BY <1>1, <2>1, <3>3 DEF Alone
    <3>5. Len(TopBelow) = TopPatterns /\ TopPatterns \in Nat
      <4>1. Len(d.resources[Top.of].xobjects) = 0
        BY <3>4
      <4>2. /\ Len(TopBelow) = TopPatterns + Len(d.resources[Top.of].xobjects)
            /\ TopPatterns \in Nat
        BY <1>1, BelowShape
      <4> QED
        BY <4>1, <4>2
    <3>6. v.stale = 0
      BY <1>2, <3>1, <3>5
    <3> QED
      BY <1>3, <3>1, <3>6
  <2>2. \A m : Alone(v.doc, m) => \A lost \in v.lost : lost[1] # m
    BY <1>1, <1>2 DEF AloneInv
  <2> QED
    BY <1>2, <2>1, <2>2 DEF AloneInv
<1>9. WalkInv(v)
  BY <1>1, <1>2, <1>6, <1>7, <1>8 DEF WalkInv
<1> QED
  BY <1>2, <1>9, WalkGoesOn DEF v

\* The next thing below is settled: its space is found, and its dictionary entered or cut.
LEMMA NextKeeps ==
  ASSUME PressInv, ScanNext
  PROVE  PressInv'
<1> DEFINE d == press.doc
           n == press.page
           v == press'
           stack == press.stack
           R == DOMAIN d.resources
           F == Frames(R)
           below == TopBelow[Top.next]
           link == <<n, Top.of, Top.next>>
           walk == Extracted(below.spaces, Stepped(press))
           later == [stack EXCEPT ![Len(stack)].next = @ + 1]
<1>0. /\ Scanning /\ Top.next <= Len(TopBelow)
      /\ v = CASE below.of = Missing -> walk
               [] below.of # Missing /\ Len(stack) > MaxDepth -> [walk EXCEPT !.cut = @ \union {link}]
               [] OTHER -> Entered(below.of, walk)
  BY DEF ScanNext
<1>1. /\ press.pc = "scan" /\ DOMAIN press = PressFields /\ d \in PressDocs
      /\ n \in 0 .. Len(d.pages) /\ OnStack(press) /\ Sound(press) /\ AloneInv(press)
      /\ stack \in Seq(F) /\ stack # <<>> /\ Len(stack) \in Nat \ {0} /\ DOMAIN stack = 1 .. Len(stack)
      /\ Top = stack[Len(stack)] /\ n \in DOMAIN d.pages /\ d.pages[n].own
      /\ Top.of \in R /\ Top.of \in Reached(d, n, {}) /\ Top.next \in Nat \ {0}
      /\ TopBelow = Below(d.resources[Top.of])
      /\ \A k \in DOMAIN stack : stack[k].of \in Reached(d, n, {})
  BY <1>0, WalkAt
<1>2. /\ Top.next \in DOMAIN TopBelow /\ below.of \in R \union {Missing} /\ Missing \notin R
      /\ below.of # Missing => below.of \in Reached(d, n, {})
  <2>1. DOMAIN TopBelow = 1 .. Len(TopBelow) /\ Len(TopBelow) \in Nat
    BY <1>1, BelowShape
  <2>2. Top.next \in DOMAIN TopBelow
    <3>1. Top.next \in Nat \ {0} /\ Top.next <= Len(TopBelow)
      BY <1>0, <1>1
    <3> HIDE DEF below
    <3> QED
      BY <2>1, <3>1
  <2>3. below.of # Missing => below.of \in Reached(d, n, {})
    BY <1>1, <2>2, ReachedOn
  <2> QED
    BY <1>1, <2>2, <2>3, BelowShape, DocShape
<1>3. /\ DOMAIN walk = PressFields /\ walk.pc = "scan" /\ walk.doc = d /\ walk.page = n
      /\ walk.spots = press.spots \union SpotsOf(below.spaces)
      /\ walk.families = press.families \union FamiliesOf(below.spaces)
      /\ walk.stale = press.stale /\ walk.stack = later /\ walk.lost = press.lost
      /\ walk.cut = press.cut
  <2> DEFINE u == Stepped(press)
  <2>1. /\ DOMAIN u = PressFields /\ u.pc = "scan" /\ u.doc = d /\ u.page = n
        /\ u.spots = press.spots /\ u.families = press.families /\ u.stale = press.stale
        /\ u.stack = later /\ u.lost = press.lost /\ u.cut = press.cut
    BY <1>1, SteppedIs
  <2> HIDE DEF u, later, below
  <2> QED
    BY <2>1, ExtractedIs DEF u
<1>4. /\ later \in Seq(F) /\ DOMAIN later = DOMAIN stack /\ later # <<>> /\ Len(later) = Len(stack)
      /\ \A k \in DOMAIN stack : /\ later[k].of = stack[k].of /\ later[k].reused = stack[k].reused
                                 /\ k # Len(stack) => later[k].next = stack[k].next
      /\ later[Len(stack)].next = Top.next + 1
  BY <1>0, SteppedStack
<1> HIDE DEF v, walk, later, F
<1>5. /\ DOMAIN v = PressFields /\ v.pc = "scan" /\ v.doc = d /\ v.page = n
      /\ v.lost = press.lost /\ v.stale = press.stale
  <2>1. CASE below.of = Missing
    BY <1>0, <1>3, <2>1
  <2>2. CASE below.of # Missing /\ Len(stack) > MaxDepth
    <3>1. v = [walk EXCEPT !.cut = @ \union {link}]
      BY <1>0, <2>2
    <3> HIDE DEF link, below
    <3> QED
      BY <1>3, <3>1 DEF PressFields
  <2>3. CASE below.of # Missing /\ ~(Len(stack) > MaxDepth)
    <3>1. v = Entered(below.of, walk)
      BY <1>0, <2>3
    <3> QED
      BY <1>3, <3>1, EnteredIs
  <2> QED
    BY <2>1, <2>2, <2>3
<1> DEFINE entered == below.of # Missing /\ ~(Len(stack) > MaxDepth)
           spaces == d.resources[below.of].spaces
<1>6. /\ v.cut = press.cut \/ v.cut = press.cut \union {link}
      /\ ~entered => /\ v.stack = later /\ v.spots = walk.spots /\ v.families = walk.families
                     /\ below.of = Missing \/ link \in v.cut
      /\ entered => /\ v.stack = Append(later, Frame(below.of))
                    /\ v.spots = walk.spots \union SpotsOf(spaces)
                    /\ v.families = walk.families \union FamiliesOf(spaces)
  <2>1. CASE below.of = Missing
    BY <1>0, <1>3, <2>1
  <2>2. CASE below.of # Missing /\ Len(stack) > MaxDepth
    <3>1. v = [walk EXCEPT !.cut = @ \union {link}]
      BY <1>0, <2>2
    <3>2. /\ v.cut = press.cut \union {link} /\ v.stack = later /\ v.spots = walk.spots
          /\ v.families = walk.families
      <4> HIDE DEF link, below
      <4> QED
        BY <1>3, <3>1 DEF PressFields
    <3> QED
      BY <2>2, <3>2
  <2>3. CASE below.of # Missing /\ ~(Len(stack) > MaxDepth)
    <3>1. v = Entered(below.of, walk)
      BY <1>0, <2>3
    <3>2. /\ v.spots = walk.spots \union SpotsOf(walk.doc.resources[below.of].spaces)
          /\ v.families = walk.families \union FamiliesOf(walk.doc.resources[below.of].spaces)
          /\ v.stack = Append(walk.stack, Frame(below.of)) /\ v.cut = walk.cut
      <4> HIDE DEF below
      <4> QED
        BY <1>3, <3>1, EnteredIs
    <3> QED
      BY <1>3, <2>3, <3>2
  <2> QED
    BY <2>1, <2>2, <2>3
<1>7. Grown(press, v) /\ Met(v, below.spaces)
  BY <1>3, <1>5, <1>6 DEF Grown, Met
<1>8. Sound(v)
  <2>1. /\ SpotsOf(below.spaces) \subseteq SpotsOf(Used(d))
        /\ FamiliesOf(below.spaces) \subseteq FamiliesOf(Used(d))
    BY <1>1, <1>2, FoundOnPage
  <2>2. entered => /\ SpotsOf(spaces) \subseteq SpotsOf(Used(d))
                   /\ FamiliesOf(spaces) \subseteq FamiliesOf(Used(d))
    BY <1>1, <1>2, FoundOnPage
  <2> HIDE DEF spaces, entered, below
  <2> QED
    BY <1>1, <1>3, <1>5, <1>6, <2>1, <2>2 DEF Sound
\* The new stack holds the old one, moved on, and at most one frame more.
<1> DEFINE frame == Frame(below.of)
<1>9. /\ v.stack \in Seq(F) /\ v.stack # <<>>
      /\ \A k \in DOMAIN later : k \in DOMAIN v.stack /\ v.stack[k] = later[k]
      /\ \A k \in DOMAIN v.stack :
           k \in DOMAIN later \/ (entered /\ k = Len(stack) + 1 /\ v.stack[k] = frame)
      /\ entered => Len(stack) + 1 \in DOMAIN v.stack /\ v.stack[Len(stack) + 1] = frame
  <2>1. CASE ~entered
    BY <1>4, <1>6, <2>1
  <2>2. CASE entered
    <3>1. frame \in F
      BY <1>2, <2>2 DEF Frame, Frames, F
    <3>2. v.stack = Append(later, frame)
      BY <1>6, <2>2
    <3>3. /\ v.stack \in Seq(F) /\ v.stack # <<>> /\ DOMAIN v.stack = 1 .. Len(later) + 1
          /\ v.stack[Len(later) + 1] = frame
          /\ \A k \in 1 .. Len(later) : v.stack[k] = later[k]
      <4> HIDE DEF frame
      <4> QED
        BY <1>4, <3>1, <3>2, Pushed
    <3>4. \A k : k \in 1 .. Len(stack) + 1 <=> k \in 1 .. Len(stack) \/ k = Len(stack) + 1
      BY <1>1
    <3> HIDE DEF frame
    <3> QED
      BY <1>1, <1>4, <2>2, <3>2, <3>3, <3>4
  <2> QED
    BY <2>1, <2>2
<1>10. frame.of = below.of /\ frame.next = 1 /\ frame.reused = {}
  BY DEF Frame
<1>11. OnStack(v)
  <2>1. \A k \in DOMAIN later : later[k].of \in Reached(d, n, {})
    BY <1>1, <1>4
  <2>2. entered => frame.of \in Reached(d, n, {})
    BY <1>2, <1>10
  <2>3. \A k \in DOMAIN v.stack : v.stack[k].of \in Reached(d, n, {})
    <3> HIDE DEF frame, entered, d, n
    <3> QED
      BY <1>9, <2>1, <2>2
  <2> QED
    BY <1>1, <1>5, <1>9, <2>3 DEF OnStack, F
<1>12. ASSUME NEW E, Traced(press, n, E, stack)
       PROVE  \E G : Traced(v, n, G, v.stack)
  <2> DEFINE G == IF entered THEN E \union {below.of} ELSE E
  <2>1. /\ E \in SUBSET R /\ d.pages[n].of \in E
        /\ \A r \in E : /\ Met(press, d.resources[r].spaces)
                        /\ \A i \in DOMAIN Below(d.resources[r]) :
                             \/ Settled(press, n, E, r, i)
                             \/ \E k \in DOMAIN stack : stack[k].of = r /\ stack[k].next <= i
    BY <1>12 DEF Traced
  <2>2. G \in SUBSET R /\ E \subseteq G
    BY <1>2, <2>1
  <2>3. \A r, i : Settled(press, n, E, r, i) => Settled(v, n, G, r, i)
    BY <1>7, <2>2 DEF Settled, Grown, Met
  <2>4. Settled(v, n, G, Top.of, Top.next)
    BY <1>1, <1>5, <1>6, <1>7 DEF Settled
  <2>5. ASSUME NEW r \in E, NEW i \in DOMAIN Below(d.resources[r]), NEW k \in DOMAIN stack,
               stack[k].of = r, stack[k].next <= i
        PROVE  Settled(v, n, G, r, i) \/ \E j \in DOMAIN v.stack : v.stack[j].of = r /\ v.stack[j].next <= i
    <3>1. CASE k # Len(stack)
      <4>1. later[k].of = r /\ later[k].next <= i /\ k \in DOMAIN later
        BY <1>4, <2>5, <3>1
      <4> QED
        BY <1>9, <4>1
    <3>2. CASE k = Len(stack) /\ i = Top.next
      BY <1>1, <2>4, <2>5, <3>2
    <3>3. CASE k = Len(stack) /\ i # Top.next
      <4>1. i \in Nat
        <5>1. r \in DOMAIN d.resources
          BY <2>1
        <5> QED
          BY <1>1, <5>1, BelowShape
      <4>2. Top.next + 1 <= i
        BY <1>1, <2>5, <3>3, <4>1
      <4>3. later[k].of = r /\ later[k].next <= i /\ k \in DOMAIN later
        BY <1>4, <2>5, <3>3, <4>2
      <4> QED
        BY <1>9, <4>3
    <3> QED
      BY <3>1, <3>2, <3>3
  <2>6. ASSUME entered, NEW i \in DOMAIN Below(d.resources[below.of])
        PROVE  \E j \in DOMAIN v.stack : v.stack[j].of = below.of /\ v.stack[j].next <= i
    <3>1. DOMAIN Below(d.resources[below.of]) = 1 .. Len(Below(d.resources[below.of]))
      BY <1>1, <1>2, <2>6, BelowShape
    <3>2. 1 <= i
      BY <2>6, <3>1
    <3> QED
      BY <1>9, <1>10, <2>6, <3>2
  <2>7. entered => Met(v, spaces)
    BY <1>6 DEF Met
  <2>8. \A r \in E : Met(v, d.resources[r].spaces)
    BY <1>7, <2>1 DEF Grown, Met
  <2>9. \A r \in G : r \in E \/ (entered /\ r = below.of)
    OBVIOUS
  <2> HIDE DEF G, entered, below, R
  <2>10. \A r \in G : /\ Met(v, d.resources[r].spaces)
                      /\ \A i \in DOMAIN Below(d.resources[r]) :
                           \/ Settled(v, n, G, r, i)
                           \/ \E j \in DOMAIN v.stack : v.stack[j].of = r /\ v.stack[j].next <= i
    <3> SUFFICES ASSUME NEW r \in G
                 PROVE  /\ Met(v, d.resources[r].spaces)
                        /\ \A i \in DOMAIN Below(d.resources[r]) :
                             \/ Settled(v, n, G, r, i)
                             \/ \E j \in DOMAIN v.stack : v.stack[j].of = r /\ v.stack[j].next <= i
      OBVIOUS
    <3>1. CASE r \in E
      BY <2>1, <2>3, <2>5, <2>8, <3>1
    <3>2. CASE entered /\ r = below.of
      BY <2>6, <2>7, <3>2
    <3> QED
      BY <2>9, <3>1, <3>2
  <2> QED
    BY <1>5, <2>1, <2>2, <2>10 DEF Traced, R
<1>13. Walks(v)
  BY <1>0, <1>5, <1>7, <1>12, OtherPages
<1>14. AloneInv(v)
  <2>1. ASSUME Alone(d, n)
        PROVE  /\ v.stale = 0
               /\ \A k \in DOMAIN v.stack :
                    v.stack[k].reused = {} /\ (k # 1 => v.stack[k].of # d.pages[n].of)
    <3>1. press.stale = 0
          /\ \A k \in DOMAIN stack : stack[k].reused = {} /\ (k # 1 => stack[k].of # d.pages[n].of)
      BY <1>1, <2>1 DEF AloneInv
    <3>2. below.of # d.pages[n].of
      BY <1>1, <1>2, <2>1 DEF Alone
    <3> HIDE DEF frame, below, entered
    <3>3. \A k \in DOMAIN later : later[k].reused = {} /\ (k # 1 => later[k].of # d.pages[n].of)
      BY <1>4, <3>1
    <3>4. frame.reused = {} /\ frame.of # d.pages[n].of
      BY <1>10, <3>2
    <3>5. v.stale = 0
      BY <1>5, <3>1
    <3> HIDE DEF d, n
    <3> QED
      BY <1>9, <3>3, <3>4, <3>5
  <2> QED
    BY <1>1, <1>5, <2>1 DEF AloneInv
<1>15. WalkInv(v)
  BY <1>1, <1>5, <1>8, <1>11, <1>13, <1>14 DEF WalkInv
<1> QED
  BY <1>5, <1>15, WalkGoesOn DEF v

-----------------------------------------------------------------------------
(* The plates.                                                             *)

\* The file found for a channel is one whose name has the channel's in it: the channel's own,
\* unless another has it too; and one is found when the channel's own is there.
LEMMA TifFound ==
  ASSUME NEW files, files \subseteq ToSet(FileOrder), NEW channel
  PROVE  LET f == FindChannelTif(files, channel)
         IN  /\ f # Missing => f \in files /\ (f = channel \/ <<channel, f>> \in NameWithin)
             /\ channel \in files => f # Missing
<1> DEFINE named == {f \in files : f = channel \/ <<channel, f>> \in NameWithin}
           hits == Those(FileOrder, named)
           S == ToSet(FileOrder)
<1>1. FileOrder \in Seq(S) /\ Missing \notin S
  BY PressAssumption DEF PressAssumption
<1>2. hits \in Seq(S) /\ ToSet(hits) = S \cap named
  BY <1>1, ThoseAreInOrder
<1>3. FindChannelTif(files, channel) = IF hits = <<>> THEN Missing ELSE Head(hits)
  BY DEF FindChannelTif
<1>4. channel \in files => channel \in named /\ channel \in S
  OBVIOUS
<1> HIDE DEF hits, named, S
<1>5. hits # <<>> => Head(hits) \in ToSet(hits)
  <2> SUFFICES ASSUME hits # <<>> PROVE Head(hits) \in ToSet(hits)
    OBVIOUS
  <2>1. 1 \in DOMAIN hits /\ Head(hits) = hits[1]
    BY <1>2
  <2> QED
    BY <2>1 DEF ToSet
<1>6. hits = <<>> => ToSet(hits) = {}
  BY DEF ToSet
<1>7. hits # <<>> => Head(hits) \in named /\ Head(hits) # Missing
  BY <1>1, <1>2, <1>5
<1>8. CASE hits = <<>>
  BY <1>2, <1>3, <1>4, <1>6, <1>8
<1>9. CASE hits # <<>>
  BY <1>3, <1>7, <1>9 DEF named
<1> QED
  BY <1>8, <1>9

\* The plates found for some channels, with the channels they are of.
LEMMA FoundPlates ==
  ASSUME NEW files, files \subseteq ToSet(FileOrder), NEW S, NEW channels \in Seq(S)
  PROVE  LET shown == Those(channels, {c \in ToSet(channels) : FindChannelTif(files, c) # Missing})
         IN  /\ shown \in Seq(S)
             /\ ToSet(shown) = {c \in ToSet(channels) : FindChannelTif(files, c) # Missing}
             /\ DOMAIN Found(files, channels) = DOMAIN shown
             /\ \A i \in DOMAIN shown :
                  Found(files, channels)[i] = Plate(shown[i], FindChannelTif(files, shown[i]))
BY ThoseAreInOrder DEF Found

\* Names no file but its own contains.
ClearIn(files, channel) == \A f \in files \ {channel} : <<channel, f>> \notin NameWithin

LEMMA FoundTrue ==
  ASSUME NEW files, files \subseteq ToSet(FileOrder), NEW S, NEW channels \in Seq(S)
  PROVE  LET plates == Found(files, channels)
         IN  /\ \A i \in DOMAIN plates : ClearIn(files, plates[i].channel)
                                           => plates[i].file = plates[i].channel
             /\ \A ch \in files \intersect ToSet(channels) :
                  \E i \in DOMAIN plates : plates[i].channel = ch
<1> DEFINE plates == Found(files, channels)
           found == {c \in ToSet(channels) : FindChannelTif(files, c) # Missing}
           shown == Those(channels, found)
<1>1. /\ shown \in Seq(S) /\ ToSet(shown) = found /\ DOMAIN plates = DOMAIN shown
      /\ \A i \in DOMAIN shown : plates[i] = Plate(shown[i], FindChannelTif(files, shown[i]))
  BY FoundPlates
<1> HIDE DEF plates, shown
<1>2. \A i \in DOMAIN plates : /\ plates[i].channel = shown[i] /\ shown[i] \in found
                               /\ plates[i].file = FindChannelTif(files, shown[i])
  BY <1>1 DEF Plate, ToSet
<1>3. ASSUME NEW i \in DOMAIN plates, ClearIn(files, plates[i].channel)
      PROVE  plates[i].file = plates[i].channel
  BY <1>2, <1>3, TifFound DEF ClearIn
<1>4. ASSUME NEW ch \in files \intersect ToSet(channels)
      PROVE  \E i \in DOMAIN plates : plates[i].channel = ch
  <2>1. ch \in found
    BY TifFound
  <2>2. PICK i \in DOMAIN shown : shown[i] = ch
    BY <1>1, <2>1 DEF ToSet
  <2> QED
    BY <1>1, <1>2, <2>2
<1> QED
  BY <1>3, <1>4 DEF plates

LEMMA PlateFields ==
  \A channel, file : Plate(channel, file).channel = channel /\ Plate(channel, file).file = file
BY DEF Plate

LEMMA JoinedRead ==
  ASSUME NEW R, NEW a \in Seq(R), NEW b \in Seq(R)
  PROVE  /\ DOMAIN (a \o b) = 1 .. Len(a) + Len(b)
         /\ \A i \in 1 .. Len(a) : (a \o b)[i] = a[i]
         /\ \A i \in 1 .. Len(b) : i + Len(a) \in 1 .. Len(a) + Len(b) /\ (a \o b)[i + Len(a)] = b[i]
<1>1. DOMAIN (a \o b) = 1 .. Len(a) + Len(b)
  OBVIOUS
<1>2. \A i \in 1 .. Len(a) : (a \o b)[i] = a[i]
  OBVIOUS
<1>3. \A i \in 1 .. Len(b) : (a \o b)[i + Len(a)] = b[i]
  OBVIOUS
<1>4. \A i \in 1 .. Len(b) : i + Len(a) \in 1 .. Len(a) + Len(b)
  OBVIOUS
<1> QED
  BY <1>1, <1>2, <1>3, <1>4

LEMMA CollectedTrue ==
  ASSUME NEW files, files \subseteq ToSet(FileOrder), Processes \union {Composite} \subseteq files
  PROVE  LET plates == Collected(files)
             shown == [i \in DOMAIN plates |-> plates[i].file]
         IN  /\ \A i \in DOMAIN plates : ClearIn(files, plates[i].channel)
                                           => plates[i].file = plates[i].channel
             /\ /\ \A p \in Processes : ClearIn(files, p)
                /\ \A f, g \in files : SameName(f, g) => f = g
                => IsInjective(shown) /\ ToSet(shown) = files \ {Composite}
<1> DEFINE S == ToSet(FileOrder)
           taken == {f \in files : \E g \in Processes \union files :
                       SameName(g, f) /\ (g \in Processes \/ Earlier(g, f))}
           rest == files \ ({Composite} \union taken)
           v == Those(FileOrder, rest)
           found == {c \in ToSet(Process) : FindChannelTif(files, c) # Missing}
           u == Those(Process, found)
           first == Found(files, Process)
           second == [i \in DOMAIN v |-> Plate(v[i], v[i])]
           plates == Collected(files)
           shown == [i \in DOMAIN plates |-> plates[i].file]
<1>1. FileOrder \in Seq(S) /\ \A i, j \in DOMAIN FileOrder : FileOrder[i] = FileOrder[j] => i = j
  BY PressAssumption DEF PressAssumption, IsInjective
<1>2. v \in Seq(S) /\ ToSet(v) = rest /\ \A i, j \in DOMAIN v : v[i] = v[j] => i = j
  <2>1. rest \subseteq S
    OBVIOUS
  <2> HIDE DEF rest, S
  <2>2. v \in Seq(S) /\ ToSet(v) = ToSet(FileOrder) \cap rest
    BY <1>1, ThoseAreInOrder
  <2>3. \A i, j \in DOMAIN v : v[i] = v[j] => i = j
    BY <1>1, ThoseAreDistinct
  <2> HIDE DEF v
  <2> QED
    BY <2>1, <2>2, <2>3 DEF S
<1>3. Process \in Seq(Processes) /\ \A i, j \in DOMAIN Process : Process[i] = Process[j] => i = j
  BY DEF Process, Processes, ToSet
<1>4. u \in Seq(Processes) /\ ToSet(u) = found /\ \A i, j \in DOMAIN u : u[i] = u[j] => i = j
  <2>1. found \subseteq ToSet(Process)
    OBVIOUS
  <2> HIDE DEF found
  <2>2. u \in Seq(Processes) /\ ToSet(u) = ToSet(Process) \cap found
    BY <1>3, ThoseAreInOrder
  <2>3. \A i, j \in DOMAIN u : u[i] = u[j] => i = j
    BY <1>3, ThoseAreDistinct
  <2> HIDE DEF u
  <2> QED
    BY <2>1, <2>2, <2>3
<1>5. /\ DOMAIN first = DOMAIN u
      /\ \A i \in DOMAIN u : first[i] = Plate(u[i], FindChannelTif(files, u[i]))
  BY <1>3, FoundPlates
<1>6. plates = first \o second
  BY DEF Collected
<1> HIDE DEF taken, rest, v, u, first, S, found
<1>7. \A i \in DOMAIN u : u[i] \in Processes /\ u[i] \in found
  BY <1>4 DEF ToSet
<1>8. /\ Len(u) \in Nat /\ DOMAIN u = 1 .. Len(u) /\ Len(v) \in Nat /\ DOMAIN v = 1 .. Len(v)
  BY <1>2, <1>4
<1>9. first \in Seq({first[i] : i \in DOMAIN u}) /\ Len(first) = Len(u)
  <2>1. first = [i \in DOMAIN u |-> first[i]]
    BY <1>3, FoundPlates DEF first, u, found, Found
  <2> DEFINE R == {first[i] : i \in DOMAIN u}
  <2>2. \A i \in 1 .. Len(u) : first[i] \in R
    BY <1>8
  <2> HIDE DEF R
  <2>3. first \in [1 .. Len(u) -> R]
    BY <1>8, <2>1, <2>2
  <2> QED
    BY <1>8, <2>3 DEF R
<1>10. second \in Seq({Plate(v[i], v[i]) : i \in DOMAIN v}) /\ Len(second) = Len(v)
  <2> DEFINE R == {Plate(v[i], v[i]) : i \in DOMAIN v}
  <2>1. \A i \in 1 .. Len(v) : Plate(v[i], v[i]) \in R
    BY <1>8
  <2> HIDE DEF R
  <2>2. second \in [1 .. Len(v) -> R]
    BY <1>8, <2>1 DEF second
  <2> QED
    BY <1>8, <2>2 DEF R
<1>11. /\ DOMAIN plates = 1 .. Len(u) + Len(v)
       /\ \A i \in 1 .. Len(u) : plates[i] = Plate(u[i], FindChannelTif(files, u[i]))
       /\ \A i \in 1 .. Len(v) : i + Len(u) \in DOMAIN plates /\ plates[i + Len(u)] = Plate(v[i], v[i])
       /\ \A i \in DOMAIN plates : i \in 1 .. Len(u) \/ (i - Len(u) \in 1 .. Len(v) /\ (i - Len(u)) + Len(u) = i)
  <2> DEFINE R == {first[i] : i \in DOMAIN u} \cup {Plate(v[i], v[i]) : i \in DOMAIN v}
  <2>1. first \in Seq(R) /\ second \in Seq(R)
    BY <1>9, <1>10
  <2> HIDE DEF R
  <2>2. /\ DOMAIN (first \o second) = 1 .. Len(u) + Len(v)
        /\ \A i \in 1 .. Len(u) : (first \o second)[i] = first[i]
        /\ \A i \in 1 .. Len(v) : i + Len(u) \in 1 .. Len(u) + Len(v)
                                  /\ (first \o second)[i + Len(u)] = second[i]
    <3> HIDE DEF first, second
    <3>1. Len(first) = Len(u) /\ Len(second) = Len(v)
      BY <1>9, <1>10
    <3>2. /\ DOMAIN (first \o second) = 1 .. Len(first) + Len(second)
          /\ \A i \in 1 .. Len(first) : (first \o second)[i] = first[i]
          /\ \A i \in 1 .. Len(second) : i + Len(first) \in 1 .. Len(first) + Len(second)
                                          /\ (first \o second)[i + Len(first)] = second[i]
      BY <2>1, JoinedRead
    <3> QED
      BY <3>1, <3>2
  <2>3. \A i \in 1 .. Len(v) : second[i] = Plate(v[i], v[i])
    BY <1>8 DEF second
  <2>4. \A i \in 1 .. Len(u) + Len(v) :
          i \in 1 .. Len(u) \/ (i - Len(u) \in 1 .. Len(v) /\ (i - Len(u)) + Len(u) = i)
    BY <1>8
  <2> HIDE DEF plates
  <2> QED
    BY <1>5, <1>6, <1>8, <2>2, <2>3, <2>4
<1> HIDE DEF plates
<1>12. ASSUME NEW i \in DOMAIN plates, ClearIn(files, plates[i].channel)
       PROVE  plates[i].file = plates[i].channel
  <2>1. CASE i \in 1 .. Len(u)
    <3>1. plates[i].channel = u[i] /\ plates[i].file = FindChannelTif(files, u[i])
      BY <1>11, <2>1, PlateFields
    <3>2. FindChannelTif(files, u[i]) # Missing
      BY <1>7, <1>8, <2>1 DEF found
    <3> QED
      BY <1>12, <3>1, <3>2, TifFound DEF ClearIn
  <2>2. CASE i - Len(u) \in 1 .. Len(v) /\ (i - Len(u)) + Len(u) = i
    <3>1. plates[i] = Plate(v[i - Len(u)], v[i - Len(u)])
      BY <1>11, <2>2
    <3> QED
      BY <3>1, PlateFields
  <2> QED
    BY <1>11, <2>1, <2>2
<1>13. ASSUME \A p \in Processes : ClearIn(files, p), \A f, g \in files : SameName(f, g) => f = g
       PROVE  IsInjective(shown) /\ ToSet(shown) = files \ {Composite}
  <2>1. found = Processes
    BY TifFound DEF found, Processes
  <2>2. \A p \in Processes : FindChannelTif(files, p) = p
    <3> SUFFICES ASSUME NEW p \in Processes PROVE FindChannelTif(files, p) = p
      OBVIOUS
    <3>1. FindChannelTif(files, p) # Missing
      BY TifFound
    <3> QED
      BY <1>13, <3>1, TifFound DEF ClearIn
  <2>3. taken = Processes
    <3>1. \A f : ~Earlier(f, f)
      BY <1>1 DEF Earlier
    <3>2. \A f, g \in files : SameName(g, f) => g = f
      BY <1>13
    <3>3. \A f \in files : SameName(f, f)
      BY DEF SameName
    <3>4. \A f \in taken : f \in Processes
      BY <3>1, <3>2 DEF taken
    <3>5. \A f \in Processes : f \in taken
      BY <3>3 DEF taken
    <3> QED
      BY <3>4, <3>5
  <2>4. Composite \notin Processes
    BY DEF Composite, Processes, Process, ToSet
  <2>5. rest \cap Processes = {} /\ rest \cup Processes = files \ {Composite}
    BY <2>3, <2>4 DEF rest
  <2> DEFINE w == u \o v
             T == S \cup Processes
  <2>6. u \in Seq(T) /\ v \in Seq(T)
    BY <1>2, <1>4
  <2> HIDE DEF T
  <2>7. /\ w \in Seq(T) /\ \A i, j \in DOMAIN w : w[i] = w[j] => i = j
        /\ ToSet(w) = ToSet(u) \cup ToSet(v)
    BY <1>2, <1>4, <2>1, <2>5, <2>6, JoinedAreDistinct
  <2>8. /\ DOMAIN w = 1 .. Len(u) + Len(v) /\ \A i \in 1 .. Len(u) : w[i] = u[i]
        /\ \A i \in 1 .. Len(v) : w[i + Len(u)] = v[i]
    BY <1>8, <2>6
  <2> HIDE DEF w
  <2>9. \A i \in DOMAIN plates : plates[i].file = w[i]
    <3> SUFFICES ASSUME NEW i \in DOMAIN plates PROVE plates[i].file = w[i]
      OBVIOUS
    <3>1. CASE i \in 1 .. Len(u)
      <4>1. plates[i] = Plate(u[i], FindChannelTif(files, u[i])) /\ w[i] = u[i]
        BY <1>11, <2>8, <3>1
      <4>2. FindChannelTif(files, u[i]) = u[i]
        BY <1>7, <1>8, <2>2, <3>1
      <4> QED
        BY <4>1, <4>2, PlateFields
    <3>2. CASE i - Len(u) \in 1 .. Len(v) /\ (i - Len(u)) + Len(u) = i
      <4>1. plates[i] = Plate(v[i - Len(u)], v[i - Len(u)]) /\ w[i] = v[i - Len(u)]
        BY <1>11, <2>8, <3>2
      <4> QED
        BY <4>1, PlateFields
    <3> QED
      BY <1>11, <3>1, <3>2
  <2>10. DOMAIN shown = DOMAIN w /\ \A i \in DOMAIN w : shown[i] = w[i]
    BY <1>11, <2>8, <2>9
  <2> HIDE DEF shown
  <2>11. ToSet(shown) = ToSet(w)
    BY <2>10 DEF ToSet
  <2>12. IsInjective(shown)
    BY <2>7, <2>10 DEF IsInjective
  <2> QED
    BY <1>2, <1>4, <2>1, <2>5, <2>7, <2>11, <2>12
<1> QED
  BY <1>12, <1>13 DEF plates

\* A print of what tiffsep wrote shows true plates.
LEMMA PrintKeeps ==
  ASSUME PressInv, press.pc = "plates", NEW how, NEW plates, Printed(how, plates),
         how = "separations" => plates = Found(press.files, Inventory(press.spots, press.families)),
         how = "channel" => \E channel : plates = Found(press.files, <<channel>>),
         how \in {"density", "layer"} => plates = Collected(press.files),
         how \in {"separations", "channel", "density", "layer"}
  PROVE  PressInv'
<1> DEFINE files == press.files
           inks == Inventory(press.spots, press.families)
           shown == [i \in DOMAIN plates |-> plates[i].file]
<1>1. Processes \union {Composite} \subseteq files /\ files \subseteq ToSet(FileOrder)
  BY DEF PressInv, FilesInv
<1>2. /\ press'.pc = "printed" /\ press'.spots = press.spots /\ press'.families = press.families
      /\ press'.files = files /\ press'.how = how /\ press'.plates = plates
  BY DEF Printed
<1>3. inks \in Seq(ToSet(FileOrder))
  <2>1. Process \in Seq(ToSet(FileOrder))
    <3>1. Process \in Seq(Processes)
      BY DEF Process, Processes, ToSet
    <3>2. Processes \subseteq ToSet(FileOrder)
      BY PressAssumption DEF PressAssumption
    <3> HIDE DEF inks
    <3> QED
      BY <3>1, <3>2
  <2>2. Those(FileOrder, press.spots) \in Seq(ToSet(FileOrder))
    <3>1. FileOrder \in Seq(ToSet(FileOrder))
      BY PressAssumption DEF PressAssumption
    <3> DEFINE S == ToSet(FileOrder)
    <3> HIDE DEF S
    <3>2. \A T : Those(FileOrder, T) \in Seq(S)
      BY <3>1, ThoseAreInOrder DEF S
    <3> QED
      BY <3>2 DEF S
  <2>3. \A m, n \in Seq(ToSet(FileOrder)) : m \o n \in Seq(ToSet(FileOrder))
    OBVIOUS
  <2>4. <<>> \in Seq(ToSet(FileOrder))
    OBVIOUS
  <2> QED
    BY <2>1, <2>2, <2>3, <2>4 DEF Inventory
<1> HIDE DEF inks, files
<1>4. \A i \in DOMAIN plates : ClearIn(files, plates[i].channel) => plates[i].file = plates[i].channel
  <2>1. CASE how = "separations"
    <3>1. plates = Found(files, inks)
      BY <2>1 DEF inks, files
    <3> QED
      BY <1>1, <1>3, <3>1, FoundTrue
  <2>2. CASE how = "channel"
    <3>1. PICK channel : plates = Found(files, <<channel>>)
      BY <2>2 DEF files
    <3>2. <<channel>> \in Seq({channel})
      OBVIOUS
    <3> DEFINE channels == <<channel>>
    <3> HIDE DEF channels
    <3>3. channels \in Seq({channel}) /\ plates = Found(files, channels)
      BY <3>1, <3>2 DEF channels
    <3> QED
      BY <1>1, <3>3, FoundTrue
  <2>3. CASE how \in {"density", "layer"}
    <3>1. plates = Collected(files)
      BY <2>3 DEF files
    <3> QED
      BY <1>1, <3>1, CollectedTrue
  <2> QED
    BY <2>1, <2>2, <2>3
<1>5. how = "separations" => \A ch \in files \intersect ToSet(inks) :
                               \E i \in DOMAIN plates : plates[i].channel = ch
  <2> SUFFICES ASSUME how = "separations"
               PROVE  \A ch \in files \intersect ToSet(inks) : \E i \in DOMAIN plates : plates[i].channel = ch
    OBVIOUS
  <2>1. plates = Found(files, inks)
    BY DEF inks, files
  <2>2. \A ch \in files \intersect ToSet(inks) :
          \E i \in DOMAIN Found(files, inks) : Found(files, inks)[i].channel = ch
    <3> DEFINE S == ToSet(FileOrder)
    <3>1. inks \in Seq(S) /\ files \subseteq ToSet(FileOrder)
      BY <1>1, <1>3
    <3> HIDE DEF S
    <3>2. LET found == Found(files, inks)
          IN  /\ \A i \in DOMAIN found : ClearIn(files, found[i].channel)
                                           => found[i].file = found[i].channel
              /\ \A ch \in files \intersect ToSet(inks) :
                   \E i \in DOMAIN found : found[i].channel = ch
      BY <3>1, FoundTrue
    <3> QED
      BY <3>2
  <2> QED
    BY <2>1, <2>2
<1>6. /\ how \in {"density", "layer"}
      /\ \A p \in Processes : ClearIn(files, p)
      /\ \A f, g \in files : SameName(f, g) => f = g
      => IsInjective(shown) /\ ToSet(shown) = files \ {Composite}
  <2> SUFFICES ASSUME how \in {"density", "layer"}, \A p \in Processes : ClearIn(files, p),
                      \A f, g \in files : SameName(f, g) => f = g
               PROVE  IsInjective(shown) /\ ToSet(shown) = files \ {Composite}
    OBVIOUS
  <2>1. plates = Collected(files)
    BY DEF files
  <2> QED
    BY <1>1, <2>1, CollectedTrue
<1>7. \A channel : ClearIn(press'.files, channel) <=> Clear(channel)'
  BY DEF ClearIn, Clear
<1>8. inks = Inventory(press'.spots, press'.families)
  BY <1>2 DEF inks
<1>9. PlatesTrue'
  <2>1. shown = [i \in DOMAIN press'.plates |-> press'.plates[i].file]
    BY <1>2
  <2> HIDE DEF shown
  <2>2. \A i \in DOMAIN press'.plates :
           Clear(press.plates[i].channel)' => press'.plates[i].file = press'.plates[i].channel
    BY <1>2, <1>4, <1>7
  <2>3. press'.how = "separations" =>
          \A ch \in press'.files \intersect ToSet(Inventory(press'.spots, press'.families)) :
            \E i \in DOMAIN press'.plates : press'.plates[i].channel = ch
    BY <1>2, <1>5, <1>8
  <2>4. /\ press'.how \in {"density", "layer"}
        /\ \A p \in Processes : Clear(p)'
        /\ \A f, g \in press'.files : SameName(f, g) => f = g
        => IsInjective(shown) /\ ToSet(shown) = press'.files \ {Composite}
    BY <1>2, <1>6, <1>7
  <2> QED
    BY <1>2, <2>1, <2>2, <2>3, <2>4 DEF PlatesTrue
<1> QED
  BY <1>2, <1>9 DEF PressInv, ScanInv, FilesInv, LayersObeyed

LEMMA PressStarts == PressInit => PressInv
BY DEF PressInit, PressInv, ScanInv, FilesInv, LayersObeyed, PlatesTrue

LEMMA OpenKeeps ==
  ASSUME PressInv, NEW doc \in PressDocs, OpenPdf(doc)
  PROVE  PressInv'
<1> DEFINE v == press'
<1>1. v = [pc |-> "scan", doc |-> doc, page |-> 0, spots |-> {}, families |-> {},
           stack |-> <<>>, stale |-> 0, lost |-> {}, cut |-> {}]
  BY DEF OpenPdf
<1>2. /\ DOMAIN v = PressFields /\ v.pc = "scan" /\ v.doc = doc /\ v.page = 0 /\ v.spots = {}
      /\ v.families = {} /\ v.stack = <<>> /\ v.lost = {}
  BY <1>1 DEF PressFields
<1> HIDE DEF v
<1>3. 0 \in 0 .. Len(doc.pages) /\ 1 .. 0 = {}
  BY DocShape
<1>4. WalkInv(v)
  BY <1>2, <1>3 DEF WalkInv, OnStack, Sound, Walks, AloneInv
<1> QED
  BY <1>2, <1>4, WalkGoesOn DEF v

\* The scan ends past the last page, so that every page was walked.
LEMMA EndKeeps ==
  ASSUME PressInv, EndScan
  PROVE  PressInv'
<1> DEFINE d == press.doc
           v == press'
           missed == v.lost \union v.cut
<1>1. /\ press.pc = "scan" /\ press.stack = <<>> /\ press.page = Len(d.pages)
      /\ v = [press EXCEPT !.pc = "ready"] /\ WalkInv(press)
  BY DEF EndScan, PressInv, ScanInv
<1>2. /\ DOMAIN press = PressFields /\ d \in PressDocs /\ press.page \in 0 .. Len(d.pages)
      /\ OnStack(press) /\ Sound(press) /\ Walks(press) /\ AloneInv(press)
  BY <1>1 DEF WalkInv
<1>3. /\ DOMAIN v = PressFields /\ v.pc = "ready" /\ v.doc = d /\ v.page = press.page
      /\ v.spots = press.spots /\ v.families = press.families /\ v.stack = <<>>
      /\ v.stale = press.stale /\ v.lost = press.lost /\ v.cut = press.cut
  BY <1>1, <1>2 DEF PressFields
<1> HIDE DEF v
<1>4. OnStack(v) /\ Sound(v) /\ AloneInv(v)
  BY <1>1, <1>2, <1>3 DEF OnStack, Sound, AloneInv
<1>5. Grown(press, v)
  BY <1>3 DEF Grown
<1>6. \A n \in 1 .. v.page : d.pages[n].own => \E E : Traced(v, n, E, <<>>)
  <2> SUFFICES ASSUME NEW n \in 1 .. v.page, d.pages[n].own PROVE \E E : Traced(v, n, E, <<>>)
    OBVIOUS
  <2>1. PICK E : Traced(press, n, E, <<>>)
    BY <1>1, <1>2, <1>3 DEF Walks
  <2> QED
    BY <1>5, <2>1, TracedOn
<1>7. WalkInv(v)
  <2>1. Walks(v)
    BY <1>3, <1>6 DEF Walks
  <2> QED
    BY <1>2, <1>3, <1>4, <2>1 DEF WalkInv
<1>8. DOMAIN d.pages = 1 .. Len(d.pages)
  BY <1>2, DocShape
<1>9. ASSUME NEW n \in DOMAIN d.pages, d.pages[n].own
      PROVE  /\ SpotsOf(SpacesOn(d, n, missed)) \subseteq v.spots
             /\ FamiliesOf(SpacesOn(d, n, missed)) \subseteq v.families
  <2>1. n \in 1 .. v.page
    BY <1>1, <1>3, <1>8
  <2>2. PICK E : Traced(v, n, E, <<>>)
    BY <1>6, <1>9, <2>1
  <2> QED
    BY <1>2, <1>3, <2>2, TracedToTheEnd
<1>10. \A n \in DOMAIN d.pages : Alone(d, n) => \A lost \in v.lost : lost[1] # n
  BY <1>3, <1>4 DEF AloneInv
<1>11. PlatesTrue'
  <2>1. /\ v.spots \subseteq SpotsOf(Used(d)) /\ v.families \subseteq FamiliesOf(Used(d))
    BY <1>3, <1>4 DEF Sound
  <2>2. /\ press'.spots \subseteq SpotsOf(UNION {SpacesOn(press'.doc, n, {}) : n \in DOMAIN press'.doc.pages})
        /\ press'.families \subseteq FamiliesOf(UNION {SpacesOn(press'.doc, n, {}) : n \in DOMAIN press'.doc.pages})
    BY <1>3, <2>1 DEF Used, v
  <2>3. \A n \in DOMAIN press'.doc.pages :
          /\ press'.doc.pages[n].own =>
               /\ SpotsOf(SpacesOn(press'.doc, n, press'.lost \union press'.cut)) \subseteq press'.spots
               /\ FamiliesOf(SpacesOn(press'.doc, n, press'.lost \union press'.cut)) \subseteq press'.families
          /\ Alone(press'.doc, n) => \A lost \in press'.lost : lost[1] # n
    BY <1>3, <1>9, <1>10 DEF v
  <2>4. press'.pc = "ready"
    BY <1>3 DEF v
  <2> QED
    BY <2>2, <2>3, <2>4 DEF PlatesTrue
<1>12. ScanInv'
  BY <1>1, <1>3, <1>7 DEF ScanInv, v
<1> QED
  BY <1>3, <1>11, <1>12 DEF PressInv, FilesInv, LayersObeyed, v

LEMMA TiffsepKeeps ==
  ASSUME PressInv, NEW page, NEW painted, RunTiffsep(page, painted)
  PROVE  PressInv'
<1>1. press.pc = "ready" /\ press.doc \in PressDocs
  BY DEF RunTiffsep, PressInv, ScanInv, WalkInv
<1>2. /\ page \in DOMAIN press.doc.pages /\ painted \subseteq UsedOn(press.doc, page)
      /\ press'.pc = "plates" /\ press'.files = Processes \union painted \union {Composite}
  BY DEF RunTiffsep
<1>3. painted \subseteq ToSet(FileOrder)
  BY <1>1, <1>2, UsedAreFiles
<1>4. Processes \union {Composite} \subseteq ToSet(FileOrder)
  BY PressAssumption DEF PressAssumption
<1> QED
  BY <1>2, <1>3, <1>4 DEF PressInv, ScanInv, FilesInv, LayersObeyed, PlatesTrue

LEMMA PressStops ==
  ASSUME press'.pc \in {"refused", "failed"}
  PROVE  PressInv'
BY DEF PressInv, ScanInv, FilesInv, LayersObeyed, PlatesTrue

LEMMA PressRests ==
  ASSUME PressInv, UNCHANGED pressVars
  PROVE  PressInv'
<1>1. press' = press
  BY DEF pressVars
<1>2. (ScanInv <=> ScanInv') /\ (FilesInv <=> FilesInv') /\ (LayersObeyed <=> LayersObeyed')
  BY <1>1 DEF ScanInv, FilesInv, LayersObeyed
<1>3. PlatesTrue <=> PlatesTrue'
  BY <1>1 DEF PlatesTrue, Clear
<1> QED
  BY <1>2, <1>3 DEF PressInv

LEMMA PressKeepsItsInvariant == PressInv /\ [PressNext]_pressVars => PressInv'
<1> SUFFICES ASSUME PressInv, [PressNext]_pressVars PROVE PressInv'
  OBVIOUS
<1>1. ASSUME NEW doc \in PressDocs, OpenPdf(doc) PROVE PressInv'
  BY <1>1, OpenKeeps
<1>2. ASSUME ScanPageColorspaces \/ ScanNext \/ PassOver \/ LeaveResources PROVE PressInv'
  BY <1>2, ScanKeeps, NextKeeps, PassKeeps, LeaveKeeps
<1>12. ASSUME NEW reused, OpenXObjects(reused) PROVE PressInv'
  BY <1>12, OpenXObjectsKeeps
<1>3. ASSUME EndScan PROVE PressInv'
  BY <1>3, EndKeeps
<1>4. ASSUME NEW on, NEW off, ApplyOcgOverrides(on, off) PROVE PressInv'
  BY <1>4, OverridesObeyed
<1>5. ASSUME NEW layer, NEW all, RenderLayer(layer, all) PROVE PressInv'
  <2>1. CASE layer \in all
    BY <1>4, <1>5, <2>1 DEF RenderLayer
  <2>2. CASE layer \notin all
    <3>1. press'.pc = "refused"
      <4>1. press.pc = "ready" /\ DOMAIN press = PressFields
        BY <1>5, <2>2 DEF RenderLayer, PressInv, ScanInv, WalkInv
      <4> QED
        BY <1>5, <2>2, <4>1 DEF RenderLayer, PressFields
    <3> QED
      BY <3>1, PressStops
  <2> QED
    BY <2>1, <2>2
<1>6. ASSUME NEW page, NEW painted, RunTiffsep(page, painted) PROVE PressInv'
  BY <1>6, TiffsepKeeps
<1>7. ASSUME TiffsepFails PROVE PressInv'
  <2>1. press'.pc = "failed"
    <3>1. press.pc = "ready" /\ DOMAIN press = PressFields
      BY <1>7 DEF TiffsepFails, PressInv, ScanInv, WalkInv
    <3> QED
      BY <1>7, <3>1 DEF TiffsepFails
  <2> QED
    BY <2>1, PressStops
<1>8. ASSUME RenderSeparations PROVE PressInv'
  <2> DEFINE plates == Found(press.files, Inventory(press.spots, press.families))
  <2>1. press.pc = "plates" /\ Printed("separations", plates)
    BY <1>8 DEF RenderSeparations
  <2>2. plates = Found(press.files, Inventory(press.spots, press.families))
    OBVIOUS
  <2> HIDE DEF plates
  <2> QED
    BY <2>1, <2>2, PrintKeeps
<1>9. ASSUME NEW channel, RenderSeparationChannel(channel) PROVE PressInv'
  <2> DEFINE plates == Found(press.files, <<channel>>)
  <2>1. press.pc = "plates" /\ Printed("channel", plates)
    BY <1>9 DEF RenderSeparationChannel
  <2>2. plates = Found(press.files, <<channel>>)
    OBVIOUS
  <2> HIDE DEF plates
  <2> QED
    BY <2>1, <2>2, PrintKeeps
<1>10. ASSUME SampleDensity \/ CompositeViaSeparations PROVE PressInv'
  <2> DEFINE plates == Collected(press.files)
  <2>1. press.pc = "plates" /\ (Printed("density", plates) \/ Printed("layer", plates))
    BY <1>10 DEF SampleDensity, CompositeViaSeparations
  <2>2. plates = Collected(press.files)
    OBVIOUS
  <2> HIDE DEF plates
  <2> QED
    BY <2>1, <2>2, PrintKeeps
<1>11. CASE UNCHANGED pressVars
  BY <1>11, PressRests
<1> QED
  BY <1>1, <1>2, <1>3, <1>4, <1>5, <1>6, <1>7, <1>8, <1>9, <1>10, <1>11, <1>12 DEF PressNext

LEMMA PressInvHolds == PressSpec => []PressInv
<1> QED
  BY PressStarts, PressKeepsItsInvariant, PTL DEF PressSpec

\* A render with layers forced or hidden shows and hides those and leaves the others, whatever
\* the document's own layer states; a document whose layers are off by default is the exception.
THEOREM LayersAreObeyed == PressSpec => []LayersObeyed
<1>1. PressInv => LayersObeyed
  BY DEF PressInv
<1> QED
  BY <1>1, PressInvHolds, PTL

\* Every channel is shown its own plate, and the densitometer and the composite take each ink
\* once, for every document, every order of files and every way names contain each other.
THEOREM PlatesAreTrue == PressSpec => []PlatesTrue
<1>1. PressInv => PlatesTrue
  BY DEF PressInv
<1> QED
  BY <1>1, PressInvHolds, PTL

-----------------------------------------------------------------------------
(* The heatmap and the densitometer.                                       *)

LEMMA Extremes ==
  ASSUME NEW m \in Int, NEW n \in Int
  PROVE  /\ AtLeast(n, m) = IF n >= m THEN n ELSE m
         /\ Min({n, m}) = IF n <= m THEN n ELSE m
<1>1. CASE n >= m
  <2>1. Max({n, m}) = n
    BY <1>1 DEF Max
  <2>2. Min({n, m}) = m
    BY <1>1 DEF Min
  <2> QED
    BY <1>1, <2>1, <2>2 DEF AtLeast
<1>2. CASE n < m
  <2>1. Max({n, m}) = m
    BY <1>2 DEF Max
  <2>2. Min({n, m}) = n
    BY <1>2 DEF Min
  <2> QED
    BY <1>2, <2>1, <2>2 DEF AtLeast
<1> QED
  BY <1>1, <1>2

LEMMA AtLeastIs == \A n, m \in Int : AtLeast(n, m) = IF n >= m THEN n ELSE m
BY Extremes
LEMMA LeastIs == \A n, m \in Int : Min({n, m}) = IF n <= m THEN n ELSE m
BY Extremes

LEMMA AbsIs == \A n \in Int : Abs(n) = IF n >= 0 THEN n ELSE 0 - n
<1> SUFFICES ASSUME NEW n \in Int PROVE Abs(n) = IF n >= 0 THEN n ELSE 0 - n
  OBVIOUS
<1>1. AtLeast(n, 0 - n) = IF n >= 0 - n THEN n ELSE 0 - n
  BY AtLeastIs
<1> QED
  BY <1>1 DEF Abs

\* Rounding gives a whole number at most a half away.
LEMMA RoundNear ==
  ASSUME NEW n \in Int, NEW d \in Nat \ {0}
  PROVE  /\ Round(n, d) \in Int
         /\ 2 * (Round(n, d) * d - n) <= d /\ 2 * (n - Round(n, d) * d) <= d
<1> DEFINE q == n \div d
           r == n % d
<1>1. q \in Int /\ r \in Int /\ n = d * q + r /\ 0 <= r /\ r < d
  OBVIOUS
<1>2. Round(n, d) = IF 2 * r < d \/ (2 * r = d /\ q % 2 = 0) THEN q ELSE q + 1
  BY DEF Round
<1> HIDE DEF q, r
<1>3. d * q \in Int /\ q * d = d * q /\ (q + 1) * d = d * q + d
  BY <1>1
<1>4. CASE Round(n, d) = q /\ 2 * r <= d
  BY <1>1, <1>3, <1>4
<1>5. CASE Round(n, d) = q + 1 /\ 2 * r >= d
  BY <1>1, <1>3, <1>5
<1> QED
  BY <1>1, <1>2, <1>4, <1>5

LEMMA ClampIs ==
  ASSUME NEW n \in Int, NEW size \in Nat \ {0}
  PROVE  Clamp(n, size) = IF n <= 0 THEN 0 ELSE IF n <= size - 1 THEN n ELSE size - 1
<1> DEFINE top == size - 1
           low == Min({n, top})
<1>1. top \in Int /\ top >= 0
  OBVIOUS
<1> HIDE DEF top
<1>2. low = IF n <= top THEN n ELSE top
  BY <1>1, LeastIs
<1> HIDE DEF low
<1>3. AtLeast(0, low) = IF 0 >= low THEN 0 ELSE low
  BY <1>1, <1>2, AtLeastIs
<1>4. Clamp(n, size) = AtLeast(0, low)
  BY DEF Clamp, low, top
<1>5. Clamp(n, size) = IF n <= 0 THEN 0 ELSE IF n <= top THEN n ELSE top
  BY <1>1, <1>2, <1>3, <1>4
<1> QED
  BY <1>5 DEF top

\* A rounded scale of a point of the page is a pixel or the edge of the raster, which Clamp
\* brings in by one.
LEMMA ClampNear ==
  ASSUME NEW v \in Int, NEW size \in Nat \ {0}, NEW d \in Nat \ {0}, 0 <= v, v <= size * d
  PROVE  LET p == Clamp(Round(v, d), size)
         IN  2 * (p * d - v) <= 2 * d /\ 2 * (v - p * d) <= 2 * d
<1> DEFINE r == Round(v, d)
<1>1. r \in Int /\ 2 * (r * d - v) <= d /\ 2 * (v - r * d) <= d
  BY RoundNear
<1> HIDE DEF r
<1>4. Clamp(r, size) = IF r <= 0 THEN 0 ELSE IF r <= size - 1 THEN r ELSE size - 1
  BY <1>1, ClampIs
<1>5. CASE r <= 0
  <2>1. r * d <= 0
    BY <1>1, <1>5
  <2>2. Clamp(r, size) * d = 0
    BY <1>4, <1>5
  <2> QED
    BY <1>1, <2>1, <2>2 DEF r
<1>6. CASE 0 < r /\ r <= size - 1
  <2>1. Clamp(r, size) = r
    BY <1>1, <1>4, <1>6
  <2> QED
    BY <1>1, <2>1 DEF r
<1>7. CASE r >= size
  <2>1. Clamp(r, size) = size - 1
    BY <1>1, <1>4, <1>7
  <2>2. r * d >= size * d /\ (size - 1) * d = size * d - d /\ size * d \in Int /\ r * d \in Int
    BY <1>1, <1>7
  <2> QED
    BY <1>1, <2>1, <2>2 DEF r
<1> QED
  BY <1>1, <1>5, <1>6, <1>7

LEMMA ClampInside ==
  ASSUME NEW n \in Int, NEW size \in Nat \ {0}
  PROVE  Clamp(n, size) \in 0 .. size - 1
BY ClampIs

-----------------------------------------------------------------------------
(* Merging.                                                                *)

LineBoxes == [x0 : Int, y0 : Int, x1 : Int, y1 : Int]
\* The word lies in the line, but for a left edge that an earlier word of the line, higher up,
\* lies right of.
Held(words, merged, into, i) ==
  LET w == words[i]
      line == merged[into[i]]
  IN  /\ line.y0 <= w.y0 /\ line.y1 >= w.y1 /\ line.x1 >= w.x1
      /\ \/ line.x0 <= w.x0
         \/ \E j \in 1 .. i - 1 : into[j] = into[i] /\ words[j].y0 < w.y0
Sorted(words) == \A i \in 1 .. Len(words) - 1 : InOrder(words[i], words[i + 1])
Merging(words, merged, into) ==
  /\ words \in Seq(HeatWords) /\ Sorted(words)
  /\ merged \in Seq(LineBoxes)
  /\ into \in Seq(1 .. Len(merged)) /\ Len(into) <= Len(words)
  /\ \A j \in DOMAIN into : InOrder(words[j], words[Len(into)])
  /\ \A i \in DOMAIN into : Held(words, merged, into, i)
  /\ \A n \in DOMAIN merged : \E j \in DOMAIN into : into[j] = n /\ words[j].x0 = merged[n].x0

\* The line a word joins: as before, but for the edges that follow the word.
LEMMA WidenedLine ==
  ASSUME NEW line \in LineBoxes, NEW w \in LineBoxes
  PROVE  LET new == WithWord(line, w)
         IN  /\ new \in LineBoxes /\ new.x0 = line.x0
             /\ new.x1 >= line.x1 /\ new.x1 >= w.x1 /\ new.y1 >= line.y1 /\ new.y1 >= w.y1
             /\ new.y0 <= line.y0 /\ new.y0 <= w.y0
<1> DEFINE x1 == AtLeast(line.x1, w.x1)
           y1 == AtLeast(line.y1, w.y1)
           y0 == Min({line.y0, w.y0})
<1>1. /\ x1 \in Int /\ x1 >= line.x1 /\ x1 >= w.x1
      /\ y1 \in Int /\ y1 >= line.y1 /\ y1 >= w.y1
      /\ y0 \in Int /\ y0 <= line.y0 /\ y0 <= w.y0
  <2>1. line.x1 \in Int /\ w.x1 \in Int /\ line.y1 \in Int /\ w.y1 \in Int
        /\ line.y0 \in Int /\ w.y0 \in Int
    BY DEF LineBoxes
  <2> QED
    BY <2>1, AtLeastIs, LeastIs
<1>2. WithWord(line, w) = [line EXCEPT !.x1 = x1, !.y1 = y1, !.y0 = y0]
  BY DEF WithWord
<1> HIDE DEF x1, y1, y0
<1> QED
  BY <1>1, <1>2 DEF LineBoxes

LEMMA OrderedOn ==
  ASSUME NEW a \in LineBoxes, NEW b \in LineBoxes, NEW c \in LineBoxes, InOrder(a, b), InOrder(b, c)
  PROVE  InOrder(a, c)
BY DEF InOrder, LineBoxes

LEMMA WordMerged ==
  ASSUME NEW words, NEW merged, NEW into, Merging(words, merged, into), Len(into) < Len(words)
  PROVE  LET w == words[Len(into) + 1]
             n == Len(merged)
             joins == n > 0 /\ Joins(merged[n], w)
         IN  Merging(words,
                     IF joins THEN [merged EXCEPT ![n] = WithWord(@, w)] ELSE Append(merged, w),
                     Append(into, IF joins THEN n ELSE n + 1))
<1> DEFINE k == Len(into)
           w == words[k + 1]
           n == Len(merged)
           joins == n > 0 /\ Joins(merged[n], w)
           more == IF joins THEN [merged EXCEPT ![n] = WithWord(@, w)] ELSE Append(merged, w)
           to == IF joins THEN n ELSE n + 1
           next == Append(into, to)
<1>1. /\ words \in Seq(HeatWords) /\ Sorted(words) /\ merged \in Seq(LineBoxes)
      /\ into \in Seq(1 .. n) /\ k < Len(words)
      /\ \A j \in DOMAIN into : InOrder(words[j], words[k])
      /\ \A i \in DOMAIN into : Held(words, merged, into, i)
      /\ \A m \in DOMAIN merged : \E j \in DOMAIN into : into[j] = m /\ words[j].x0 = merged[m].x0
  BY DEF Merging
<1>2. /\ k \in Nat /\ n \in Nat /\ Len(words) \in Nat /\ k + 1 \in 1 .. Len(words)
      /\ DOMAIN into = 1 .. k /\ DOMAIN merged = 1 .. n /\ DOMAIN words = 1 .. Len(words)
      /\ \A i \in 1 .. k : into[i] \in 1 .. n
      /\ \A i \in 1 .. n : merged[i] \in LineBoxes
  BY <1>1
<1>a. /\ \A j \in 1 .. k : InOrder(words[j], words[k])
      /\ \A i \in 1 .. k : Held(words, merged, into, i)
      /\ \A m \in 1 .. n : \E j \in 1 .. k : into[j] = m /\ words[j].x0 = merged[m].x0
  BY <1>1, <1>2
<1>b. /\ words \in Seq(HeatWords) /\ Sorted(words) /\ merged \in Seq(LineBoxes) /\ into \in Seq(1 .. n)
      /\ n = Len(merged) /\ k = Len(into) /\ k < Len(words)
  BY <1>1
<1> HIDE DEF k, n
<1>3. \A i \in 1 .. Len(words) : words[i] \in LineBoxes
  <2>1. \A i \in 1 .. Len(words) : words[i] \in HeatWords
    BY <1>b
  <2> QED
    BY <2>1, HeatAssumption DEF HeatAssumption, LineBoxes
<1>4. w \in LineBoxes
  BY <1>2, <1>3
<1>5. \A j \in 1 .. k + 1 : InOrder(words[j], w)
  <2> SUFFICES ASSUME NEW j \in 1 .. k + 1 PROVE InOrder(words[j], w)
    OBVIOUS
  <2>1. CASE j = k + 1
    BY <1>4, <2>1 DEF InOrder, LineBoxes
  <2>2. CASE j \in 1 .. k
    <3>1. k \in 1 .. Len(words) - 1 /\ InOrder(words[j], words[k])
      <4>1. k \in 1 .. Len(words) - 1
        BY <1>2, <1>b, <2>2
      <4> QED
        BY <1>a, <2>2, <4>1
    <3>2. InOrder(words[k], w)
      BY <1>b, <3>1 DEF Sorted, w
    <3>3. words[j] \in LineBoxes /\ words[k] \in LineBoxes
      BY <1>2, <1>3, <2>2, <3>1
    <3> QED
      BY <1>4, <3>1, <3>2, <3>3, OrderedOn
  <2> QED
    BY <1>2, <2>1, <2>2
<1>6. /\ Len(next) = k + 1 /\ DOMAIN next = 1 .. k + 1 /\ next[k + 1] = to
      /\ \A i \in 1 .. k : next[i] = into[i]
  <2>1. to \in Int
    BY <1>2
  <2> HIDE DEF to
  <2> QED
    BY <1>b, <1>2, <2>1
<1> HIDE DEF w, next
<1>7. CASE joins
  <2> DEFINE wide == WithWord(merged[n], w)
  <2>1. n \in 1 .. n /\ merged[n] \in LineBoxes /\ to = n
    BY <1>2, <1>7
  <2>2. /\ wide \in LineBoxes /\ wide.x0 = merged[n].x0
        /\ wide.x1 >= merged[n].x1 /\ wide.x1 >= w.x1
        /\ wide.y1 >= merged[n].y1 /\ wide.y1 >= w.y1
        /\ wide.y0 <= merged[n].y0 /\ wide.y0 <= w.y0
    BY <1>4, <2>1, WidenedLine
  <2> HIDE DEF wide
  <2>3. more = [merged EXCEPT ![n] = wide]
    BY <1>7 DEF wide
  <2> HIDE DEF more
  <2>4. /\ more \in Seq(LineBoxes) /\ Len(more) = n /\ DOMAIN more = 1 .. n /\ more[n] = wide
        /\ \A i \in 1 .. n : i # n => more[i] = merged[i]
    <3>1. merged \in [1 .. n -> LineBoxes]
      BY <1>2, <1>b
    <3>2. more \in [1 .. n -> LineBoxes] /\ more[n] = wide
          /\ \A i \in 1 .. n : i # n => more[i] = merged[i]
      BY <2>1, <2>2, <2>3, <3>1
    <3> QED
      BY <1>2, <3>2
  <2>5. next \in Seq(1 .. Len(more))
    <3>1. into \in Seq(1 .. n) /\ to \in 1 .. n
      BY <1>b, <2>1
    <3> HIDE DEF to
    <3> QED
      BY <2>4, <3>1 DEF next
  <2>6. ASSUME NEW m \in 1 .. n
        PROVE  \E j \in DOMAIN next : next[j] = m /\ words[j].x0 = more[m].x0
    <3>1. PICK j \in 1 .. k : into[j] = m /\ words[j].x0 = merged[m].x0
      BY <1>a
    <3>2. more[m].x0 = merged[m].x0
      BY <2>2, <2>4
    <3> QED
      BY <1>2, <1>6, <3>1, <3>2
  <2>7. ASSUME NEW i \in 1 .. k PROVE Held(words, more, next, i)
    <3>1. Held(words, merged, into, i) /\ into[i] \in 1 .. n
      BY <1>a, <1>2
    <3>2. next[i] = into[i] /\ \A j \in 1 .. i - 1 : next[j] = into[j]
      BY <1>2, <1>6
    <3> DEFINE old == merged[into[i]]
               new == more[next[i]]
    <3>3. /\ new.x0 = old.x0 /\ new.y0 <= old.y0 /\ new.y1 >= old.y1 /\ new.x1 >= old.x1
          /\ old \in LineBoxes /\ new \in LineBoxes /\ words[i] \in LineBoxes
      <4>1. new \in LineBoxes /\ old \in LineBoxes /\ words[i] \in LineBoxes
        <5>1. words[i] \in LineBoxes
          BY <1>2, <1>3, <1>b
        <5>2. \A l \in 1 .. n : more[l] \in LineBoxes
          BY <2>4
        <5> QED
          BY <1>2, <3>1, <3>2, <5>1, <5>2
      <4>2. CASE into[i] = n
        <5>1. old = merged[n] /\ new = wide
          BY <2>4, <3>2, <4>2
        <5> HIDE DEF old, new
        <5> QED
          BY <2>2, <4>1, <5>1
      <4>3. CASE into[i] # n
        <5>1. new = old
          BY <2>4, <3>1, <3>2, <4>3
        <5> QED
          BY <4>1, <5>1 DEF LineBoxes
      <4> QED
        BY <4>1, <4>2, <4>3
    <3> HIDE DEF old, new
    <3>4. /\ old.y0 <= words[i].y0 /\ old.y1 >= words[i].y1 /\ old.x1 >= words[i].x1
          /\ \/ old.x0 <= words[i].x0
             \/ \E j \in 1 .. i - 1 : into[j] = into[i] /\ words[j].y0 < words[i].y0
      BY <3>1 DEF Held, old
    <3>5. new.y0 <= words[i].y0 /\ new.y1 >= words[i].y1 /\ new.x1 >= words[i].x1
      BY <3>3, <3>4, SMTT(30) DEF LineBoxes
    <3>6. \/ new.x0 <= words[i].x0
          \/ \E j \in 1 .. i - 1 : next[j] = next[i] /\ words[j].y0 < words[i].y0
      BY <3>2, <3>3, <3>4
    <3> QED
      BY <3>5, <3>6 DEF Held, new
  <2>8. Held(words, more, next, k + 1)
    <3>1. PICK j \in 1 .. k : into[j] = n /\ words[j].x0 = merged[n].x0
      BY <1>a, <2>1
    <3>2. words[j] \in LineBoxes /\ InOrder(words[j], w) /\ next[j] = next[k + 1] /\ j \in 1 .. (k + 1) - 1
      <4>1. j \in 1 .. k + 1 /\ j \in 1 .. Len(words) /\ j \in 1 .. (k + 1) - 1
        BY <1>2, <1>b, <3>1
      <4>2. next[j] = n /\ next[k + 1] = n
        BY <1>6, <2>1, <3>1
      <4> QED
        BY <1>3, <1>5, <4>1, <4>2
    <3>3. more[next[k + 1]] = wide
      BY <1>6, <2>1, <2>4
    <3>4. wide.x0 <= w.x0 \/ words[j].y0 < w.y0
      BY <1>4, <2>2, <3>1, <3>2 DEF InOrder, LineBoxes
    <3> QED
      BY <2>2, <3>2, <3>3, <3>4 DEF Held, w
  <2>9. \A i \in DOMAIN next : Held(words, more, next, i) /\ InOrder(words[i], words[Len(next)])
    BY <1>2, <1>5, <1>6, <2>7, <2>8 DEF w
  <2>10. Merging(words, more, next)
    <3>1. Len(next) <= Len(words)
      BY <1>2, <1>6
    <3> QED
      BY <1>b, <2>4, <2>5, <2>6, <2>9, <3>1 DEF Merging
  <2> QED
    BY <2>10 DEF more, next, w, k, n, to
<1>8. CASE ~joins
  <2>1. more = Append(merged, w) /\ to = n + 1
    BY <1>8
  <2> HIDE DEF more
  <2>2. /\ more \in Seq(LineBoxes) /\ Len(more) = n + 1 /\ DOMAIN more = 1 .. n + 1
        /\ more[n + 1] = w /\ \A i \in 1 .. n : more[i] = merged[i]
    BY <1>b, <1>2, <1>4, <2>1
  <2>3. next \in Seq(1 .. Len(more))
    <3>1. into \in Seq(1 .. n + 1) /\ n + 1 \in 1 .. n + 1
      BY <1>b, <1>2
    <3> QED
      BY <2>1, <2>2, <3>1 DEF next
  <2>4. ASSUME NEW m \in 1 .. n + 1
        PROVE  \E j \in DOMAIN next : next[j] = m /\ words[j].x0 = more[m].x0
    <3>1. CASE m \in 1 .. n
      <4>1. PICK j \in 1 .. k : into[j] = m /\ words[j].x0 = merged[m].x0
        BY <1>a, <3>1
      <4> QED
        <5>1. more[m] = merged[m] /\ next[j] = into[j] /\ j \in DOMAIN next
          BY <1>2, <1>6, <2>2, <3>1
        <5> QED
          BY <4>1, <5>1
    <3>2. CASE m = n + 1
      BY <1>2, <1>6, <2>1, <2>2, <3>2 DEF w
    <3> QED
      BY <1>2, <3>1, <3>2
  <2>5. ASSUME NEW i \in 1 .. k PROVE Held(words, more, next, i)
    <3>1. Held(words, merged, into, i) /\ into[i] \in 1 .. n
      BY <1>a, <1>2
    <3>2. next[i] = into[i] /\ \A j \in 1 .. i - 1 : next[j] = into[j]
      BY <1>2, <1>6
    <3>3. more[next[i]] = merged[into[i]]
      BY <2>2, <3>1, <3>2
    <3> QED
      BY <3>1, <3>2, <3>3 DEF Held
  <2>6. Held(words, more, next, k + 1)
    <3>1. more[next[k + 1]] = words[k + 1] /\ words[k + 1] \in LineBoxes
      BY <1>4, <1>6, <2>1, <2>2 DEF w
    <3> QED
      BY <3>1 DEF Held, LineBoxes
  <2>7. \A i \in DOMAIN next : Held(words, more, next, i) /\ InOrder(words[i], words[Len(next)])
    BY <1>2, <1>5, <1>6, <2>5, <2>6 DEF w
  <2>8. Merging(words, more, next)
    <3>1. Len(next) <= Len(words)
      BY <1>2, <1>6
    <3> QED
      BY <1>b, <2>2, <2>3, <2>4, <2>7, <3>1 DEF Merging
  <2> QED
    BY <2>8 DEF more, next, w, k, n, to
<1> QED
  BY <1>7, <1>8

\* What a line covers of the raster is cut to it.
LEMMA PixelsClipped ==
  ASSUME NEW b \in LineBoxes, NEW image \in Images, NEW page \in PageSizes
  PROVE  LET r == PixelRect(b, image, page)
         IN  /\ r \in LineBoxes /\ 0 <= r.x0 /\ 0 <= r.y0 /\ r.x1 <= image.w /\ r.y1 <= image.h
<1>1. image.w \in Nat \ {0} /\ image.h \in Nat \ {0} /\ page.w \in Nat /\ page.h \in Nat
  BY HeatAssumption DEF HeatAssumption
<1>2. Positive(page.w) \in Nat \ {0} /\ Positive(page.h) \in Nat \ {0}
  BY <1>1 DEF Positive
<1>3. b.x0 \in Int /\ b.y0 \in Int /\ b.x1 \in Int /\ b.y1 \in Int
  BY DEF LineBoxes
<1> DEFINE x0 == Round(b.x0 * image.w, Positive(page.w))
           y0 == Round(b.y0 * image.h, Positive(page.h))
           x1 == Round(b.x1 * image.w, Positive(page.w))
           y1 == Round(b.y1 * image.h, Positive(page.h))
<1>4. x0 \in Int /\ y0 \in Int /\ x1 \in Int /\ y1 \in Int
  <2>1. /\ b.x0 * image.w \in Int /\ b.y0 * image.h \in Int
        /\ b.x1 * image.w \in Int /\ b.y1 * image.h \in Int
    BY <1>1, <1>3
  <2> QED
    BY <1>2, <2>1, RoundNear
<1>5. PixelRect(b, image, page) = [x0 |-> AtLeast(0, x0), y0 |-> AtLeast(0, y0),
                                   x1 |-> Min({image.w, x1}), y1 |-> Min({image.h, y1})]
  BY DEF PixelRect
<1> HIDE DEF x0, y0, x1, y1
<1>6. /\ AtLeast(0, x0) \in Int /\ AtLeast(0, x0) >= 0
      /\ AtLeast(0, y0) \in Int /\ AtLeast(0, y0) >= 0
  BY <1>4, AtLeastIs
<1>7. /\ Min({image.w, x1}) \in Int /\ Min({image.w, x1}) <= image.w
      /\ Min({image.h, y1}) \in Int /\ Min({image.h, y1}) <= image.h
  BY <1>1, <1>4, LeastIs
<1> HIDE DEF LineBoxes
<1> QED
  BY <1>5, <1>6, <1>7 DEF LineBoxes

LEMMA RunsInside ==
  ASSUME NEW merged \in Seq(LineBoxes), NEW image \in Images, NEW page \in PageSizes, NEW last \in Nat,
         last <= Len(merged)
  PROVE  LET rects == [i \in DOMAIN SubSeq(merged, 1, last) |->
                         PixelRect(SubSeq(merged, 1, last)[i], image, page)]
             runs == Those(rects, {r \in ToSet(rects) : r.x1 - r.x0 >= 2 /\ r.y1 - r.y0 >= 2})
         IN  \A i \in DOMAIN runs : Inside(runs[i], image)
<1> DEFINE kept == SubSeq(merged, 1, last)
           rects == [i \in DOMAIN kept |-> PixelRect(kept[i], image, page)]
           large == {r \in ToSet(rects) : r.x1 - r.x0 >= 2 /\ r.y1 - r.y0 >= 2}
           runs == Those(rects, large)
           R == {r \in LineBoxes : 0 <= r.x0 /\ 0 <= r.y0 /\ r.x1 <= image.w /\ r.y1 <= image.h}
<1>1. kept \in Seq(LineBoxes)
  OBVIOUS
<1> HIDE DEF kept
<1>2. DOMAIN kept = 1 .. Len(kept) /\ Len(kept) \in Nat /\ \A i \in DOMAIN kept : kept[i] \in LineBoxes
  BY <1>1
<1>3. \A i \in DOMAIN kept : PixelRect(kept[i], image, page) \in R
  BY <1>2, PixelsClipped
<1>4. R \subseteq LineBoxes /\ \A r \in R : 0 <= r.x0 /\ 0 <= r.y0 /\ r.x1 <= image.w /\ r.y1 <= image.h
  OBVIOUS
<1> HIDE DEF R
<1>5. rects \in Seq(R)
  <2>1. rects \in [1 .. Len(kept) -> R]
    BY <1>2, <1>3
  <2> HIDE DEF rects
  <2> QED
    BY <1>2, <2>1
<1> HIDE DEF rects
<1>6. runs \in Seq(R) /\ ToSet(runs) = ToSet(rects) \cap large
  <2> HIDE DEF large
  <2> QED
    BY <1>5, ThoseAreInOrder
<1> HIDE DEF runs
<1>7. ASSUME NEW i \in DOMAIN runs PROVE Inside(runs[i], image)
  <2>1. runs[i] \in R
    BY <1>6
  <2>2. runs[i] \in large
    BY <1>6 DEF ToSet
  <2>3. runs[i].x1 - runs[i].x0 >= 2 /\ runs[i].y1 - runs[i].y0 >= 2
    BY <2>2
  <2>4. image.w \in Nat /\ image.h \in Nat
    BY HeatAssumption DEF HeatAssumption
  <2> QED
    BY <1>4, <2>1, <2>3, <2>4 DEF Inside, LineBoxes
<1> QED
  BY <1>7 DEF runs, large, rects, kept

\* The pixel of a point, and the patch around it.
LEMMA PatchAround ==
  ASSUME NEW image \in Images, NEW p, p.x \in 0 .. image.w - 1, p.y \in 0 .. image.h - 1
  PROVE  LET patch == SamplePatch(p, image)
         IN  /\ Inside(patch, image)
             /\ p.x \in patch.x0 .. patch.x1 - 1 /\ p.y \in patch.y0 .. patch.y1 - 1
<1>1. image.w \in Nat \ {0} /\ image.h \in Nat \ {0}
  BY HeatAssumption DEF HeatAssumption
<1> DEFINE x0 == AtLeast(0, p.x - 1)
           x1 == Min({image.w, p.x + 2})
           y0 == AtLeast(0, p.y - 1)
           y1 == Min({image.h, p.y + 2})
<1>2. /\ x0 = (IF 0 >= p.x - 1 THEN 0 ELSE p.x - 1) /\ y0 = IF 0 >= p.y - 1 THEN 0 ELSE p.y - 1
  <2>1. p.x - 1 \in Int /\ p.y - 1 \in Int
    BY <1>1
  <2> QED
    BY <2>1, AtLeastIs
<1>3. /\ x1 = (IF image.w <= p.x + 2 THEN image.w ELSE p.x + 2)
      /\ y1 = IF image.h <= p.y + 2 THEN image.h ELSE p.y + 2
  <2>1. p.x + 2 \in Int /\ p.y + 2 \in Int
    BY <1>1
  <2> QED
    BY <1>1, <2>1, LeastIs
<1>4. SamplePatch(p, image) = [x0 |-> x0, x1 |-> x1, y0 |-> y0, y1 |-> y1]
  BY DEF SamplePatch
<1> HIDE DEF x0, x1, y0, y1
<1>5. /\ 0 <= x0 /\ x0 <= p.x /\ p.x < x1 /\ x1 <= image.w /\ x0 \in Int /\ x1 \in Int
      /\ 0 <= y0 /\ y0 <= p.y /\ p.y < y1 /\ y1 <= image.h /\ y0 \in Int /\ y1 \in Int
  BY <1>1, <1>2, <1>3
<1> QED
  BY <1>1, <1>4, <1>5 DEF Inside

LEMMA PixelNear ==
  ASSUME NEW x \in Int, NEW y \in Int, NEW image \in Images, NEW page \in PageSizes
  PROVE  LET p == PixelAt(x, y, image, page)
         IN  /\ p.x \in 0 .. image.w - 1 /\ p.y \in 0 .. image.h - 1
             /\ page.w > 0 /\ x \in 0 .. page.w =>
                  Abs(2 * (p.x * page.w - x * image.w)) <= 2 * page.w
             /\ page.h > 0 /\ y \in 0 .. page.h =>
                  Abs(2 * ((image.h - p.y) * page.h - y * image.h)) <= 2 * page.h
<1>1. image.w \in Nat \ {0} /\ image.h \in Nat \ {0} /\ page.w \in Nat /\ page.h \in Nat
  BY HeatAssumption DEF HeatAssumption
<1> DEFINE sx == ScaleOf(image.w, page.w)
           sy == ScaleOf(image.h, page.h)
           px == Clamp(Round(x * sx[1], sx[2]), image.w)
           py == Clamp(Round(image.h * sy[2] - y * sy[1], sy[2]), image.h)
<1>2. PixelAt(x, y, image, page).x = px /\ PixelAt(x, y, image, page).y = py
  BY DEF PixelAt
<1>3. /\ sx[1] \in Nat \ {0} /\ sx[2] \in Nat \ {0} /\ sy[1] \in Nat \ {0} /\ sy[2] \in Nat \ {0}
      /\ page.w > 0 => sx[1] = image.w /\ sx[2] = page.w
      /\ page.h > 0 => sy[1] = image.h /\ sy[2] = page.h
  BY <1>1 DEF ScaleOf
<1> HIDE DEF sx, sy
<1> DEFINE u == x * sx[1]
           v == image.h * sy[2] - y * sy[1]
<1>4. u \in Int /\ v \in Int
  BY <1>1, <1>3
<1>5. px \in 0 .. image.w - 1 /\ py \in 0 .. image.h - 1
  <2> HIDE DEF u, v
  <2>1. Round(u, sx[2]) \in Int /\ Round(v, sy[2]) \in Int
    BY <1>3, <1>4, RoundNear
  <2> QED
    BY <1>1, <2>1, ClampInside DEF u, v
<1>6. ASSUME page.w > 0, x \in 0 .. page.w
      PROVE  Abs(2 * (px * page.w - x * image.w)) <= 2 * page.w
  <2> DEFINE n == x * image.w
  <2>1. n \in Int /\ 0 <= n /\ n <= image.w * page.w
    BY <1>1, <1>6
  <2>2. px = Clamp(Round(n, page.w), image.w)
    BY <1>3, <1>6
  <2> HIDE DEF n, px
  <2>3. 2 * (px * page.w - n) <= 2 * page.w /\ 2 * (n - px * page.w) <= 2 * page.w
    BY <1>1, <1>6, <2>1, <2>2, ClampNear, SMTT(30)
  <2>4. px * page.w \in Int
    BY <1>1, <1>5
  <2> DEFINE far == 2 * (px * page.w - n)
  <2>5. far \in Int /\ far <= 2 * page.w /\ 0 - far <= 2 * page.w
    BY <1>1, <2>1, <2>3, <2>4
  <2> HIDE DEF far
  <2>6. Abs(far) <= 2 * page.w
    BY <1>1, <2>5, AbsIs
  <2> QED
    BY <2>6 DEF far, n
<1>7. ASSUME page.h > 0, y \in 0 .. page.h
      PROVE  Abs(2 * ((image.h - py) * page.h - y * image.h)) <= 2 * page.h
  <2> DEFINE n == image.h * page.h - y * image.h
  <2>1. n \in Int /\ 0 <= n /\ n <= image.h * page.h
    BY <1>1, <1>7
  <2>2. py = Clamp(Round(n, page.h), image.h)
    BY <1>3, <1>7
  <2>3. (image.h - py) * page.h - y * image.h = n - py * page.h
    BY <1>1, <1>5
  <2> HIDE DEF n, py
  <2>4. 2 * (py * page.h - n) <= 2 * page.h /\ 2 * (n - py * page.h) <= 2 * page.h
    <3> DEFINE d == page.h
               size == image.h
    <3>1. /\ d \in Nat \ {0} /\ size \in Nat \ {0} /\ n \in Int /\ 0 <= n /\ n <= size * d
          /\ py = Clamp(Round(n, d), size)
      BY <1>1, <1>7, <2>1, <2>2
    <3> HIDE DEF d, size
    <3>2. 2 * (py * d - n) <= 2 * d /\ 2 * (n - py * d) <= 2 * d
      BY <3>1, ClampNear
    <3> QED
      BY <3>2 DEF d
  <2>5. py * page.h \in Int
    BY <1>1, <1>5
  <2> DEFINE far == 2 * (n - py * page.h)
  <2>6. far \in Int /\ far <= 2 * page.h /\ 0 - far <= 2 * page.h
    BY <1>1, <2>1, <2>4, <2>5
  <2> HIDE DEF far
  <2>7. Abs(far) <= 2 * page.h
    BY <1>1, <2>6, AbsIs
  <2> QED
    BY <2>3, <2>7 DEF far
<1> QED
  BY <1>2, <1>5, <1>6, <1>7

HeatInv ==
  /\ heat.pc \in {"start", "merge", "drawn", "sampled"}
  /\ heat.pc = "merge" => /\ DOMAIN heat = {"pc", "words", "merged", "into"}
                          /\ Merging(heat.words, heat.merged, heat.into)
  /\ HeatmapTrue

LEMMA HeatInvHolds == HeatSpec => []HeatInv
<1>1. HeatInit => HeatInv
  BY DEF HeatInit, HeatInv, HeatmapTrue
<1>2. HeatInv /\ [HeatNext]_heatVars => HeatInv'
  <2> SUFFICES ASSUME HeatInv, [HeatNext]_heatVars PROVE HeatInv'
    OBVIOUS
  <2>1. ASSUME NEW words \in SeqOf(HeatWords, MaxWords), ExtractTextBboxes(words) PROVE HeatInv'
    <3>1. words \in Seq(HeatWords) /\ Sorted(words)
      <4>1. Sorted(words)
        BY <2>1 DEF ExtractTextBboxes, Sorted
      <4>2. PICK m \in 0 .. MaxWords : words \in [1 .. m -> HeatWords]
        BY DEF SeqOf
      <4>3. m \in Nat
        BY HeatAssumption DEF HeatAssumption
      <4> QED
        BY <4>1, <4>2, <4>3
    <3>2. Merging(words, <<>>, <<>>)
      BY <3>1 DEF Merging
    <3>3. heat' = [pc |-> "merge", words |-> words, merged |-> <<>>, into |-> <<>>]
      BY <2>1 DEF ExtractTextBboxes
    <3>4. /\ heat'.pc = "merge" /\ heat'.words = words /\ heat'.merged = <<>> /\ heat'.into = <<>>
          /\ DOMAIN heat' = {"pc", "words", "merged", "into"}
      BY <3>3
    <3> QED
      BY <3>2, <3>4 DEF HeatInv, HeatmapTrue
  <2>2. ASSUME MergeWord PROVE HeatInv'
    <3> DEFINE w == heat.words[Len(heat.into) + 1]
               n == Len(heat.merged)
               joins == n > 0 /\ Joins(heat.merged[n], w)
               more == IF joins THEN [heat.merged EXCEPT ![n] = WithWord(@, w)]
                       ELSE Append(heat.merged, w)
               next == Append(heat.into, IF joins THEN n ELSE n + 1)
    <3>1. /\ heat.pc = "merge" /\ Len(heat.into) < Len(heat.words)
          /\ DOMAIN heat = {"pc", "words", "merged", "into"}
          /\ Merging(heat.words, heat.merged, heat.into)
      BY <2>2 DEF MergeWord, HeatInv
    <3>2. heat' = [heat EXCEPT !.merged = more, !.into = next]
      BY <2>2 DEF MergeWord
    <3>3. Merging(heat.words, more, next)
      BY <3>1, WordMerged
    <3> HIDE DEF more, next
    <3>4. /\ heat'.pc = "merge" /\ heat'.words = heat.words /\ heat'.merged = more
          /\ heat'.into = next /\ DOMAIN heat' = DOMAIN heat
      BY <3>1, <3>2
    <3> QED
      BY <3>1, <3>3, <3>4 DEF HeatInv, HeatmapTrue
  <2>3. ASSUME NEW image \in Images, NEW page \in PageSizes, RenderHeatmap(image, page)
        PROVE  HeatInv'
    <3> DEFINE last == Min({MaxLines, Len(heat.merged)})
               kept == SubSeq(heat.merged, 1, last)
               rects == [i \in DOMAIN kept |-> PixelRect(kept[i], image, page)]
               runs == Those(rects, {r \in ToSet(rects) : r.x1 - r.x0 >= 2 /\ r.y1 - r.y0 >= 2})
    <3>1. /\ heat.pc = "merge" /\ Len(heat.into) = Len(heat.words)
          /\ Merging(heat.words, heat.merged, heat.into)
      BY <2>3 DEF RenderHeatmap, HeatInv
    <3>2. heat' = [pc |-> "drawn", words |-> heat.words, merged |-> heat.merged,
                   into |-> heat.into, image |-> image, runs |-> runs]
      BY <2>3 DEF RenderHeatmap
    <3>3. /\ heat.words \in Seq(HeatWords) /\ heat.into \in Seq(1 .. Len(heat.merged))
          /\ heat.merged \in Seq(LineBoxes)
          /\ \A i \in DOMAIN heat.into : Held(heat.words, heat.merged, heat.into, i)
      BY <3>1 DEF Merging
    <3>4. last \in Nat /\ last <= Len(heat.merged)
      <4>1. MaxLines \in Nat /\ Len(heat.merged) \in Nat
        BY <3>3, HeatAssumption DEF HeatAssumption
      <4> QED
        BY <4>1, LeastIs
    <3> HIDE DEF last
    <3>5. \A i \in DOMAIN runs : Inside(runs[i], image)
      BY <3>3, <3>4, RunsInside
    <3>6. \A i \in DOMAIN heat.words : Held(heat.words, heat.merged, heat.into, i)
      <4>1. DOMAIN heat.words = DOMAIN heat.into
        BY <3>1, <3>3
      <4> QED
        BY <3>3, <4>1
    <3> HIDE DEF runs
    <3>7. /\ heat'.pc = "drawn" /\ heat'.words = heat.words /\ heat'.merged = heat.merged
          /\ heat'.into = heat.into /\ heat'.image = image /\ heat'.runs = runs
      BY <3>2
    <3>8. HeatmapTrue'
      BY <3>5, <3>6, <3>7 DEF HeatmapTrue, Held
    <3> QED
      BY <3>7, <3>8 DEF HeatInv
  <2>4. ASSUME NEW image \in Images, NEW page \in PageSizes, NEW x \in Samples, NEW y \in Samples,
               SamplePoint(x, y, image, page)
        PROVE  HeatInv'
    <3> DEFINE p == PixelAt(x, y, image, page)
    <3>1. heat' = [pc |-> "sampled", x |-> x, y |-> y, image |-> image, page |-> page,
                   pixel |-> p, patch |-> SamplePatch(p, image)]
      BY <2>4 DEF SamplePoint
    <3>2. x \in Int /\ y \in Int
      BY HeatAssumption DEF HeatAssumption
    <3>3. /\ p.x \in 0 .. image.w - 1 /\ p.y \in 0 .. image.h - 1
          /\ page.w > 0 /\ x \in 0 .. page.w =>
               Abs(2 * (p.x * page.w - x * image.w)) <= 2 * page.w
          /\ page.h > 0 /\ y \in 0 .. page.h =>
               Abs(2 * ((image.h - p.y) * page.h - y * image.h)) <= 2 * page.h
      BY <3>2, PixelNear
    <3> HIDE DEF p
    <3> DEFINE patch == SamplePatch(p, image)
    <3>4. /\ Inside(patch, image)
          /\ p.x \in patch.x0 .. patch.x1 - 1 /\ p.y \in patch.y0 .. patch.y1 - 1
      BY <3>3, PatchAround
    <3> HIDE DEF patch
    <3>5. /\ heat'.pc = "sampled" /\ heat'.x = x /\ heat'.y = y /\ heat'.image = image
          /\ heat'.page = page /\ heat'.pixel = p /\ heat'.patch = patch
      BY <3>1 DEF patch
    <3>6. HeatmapTrue'
      BY <3>3, <3>4, <3>5 DEF HeatmapTrue
    <3> QED
      BY <3>5, <3>6 DEF HeatInv
  <2>5. CASE UNCHANGED heatVars
    BY <2>5 DEF heatVars, HeatInv, HeatmapTrue
  <2> QED
    BY <2>1, <2>2, <2>3, <2>4, <2>5 DEF HeatNext
<1> QED
  BY <1>1, <1>2, PTL DEF HeatSpec

\* Words lie in the lines they are merged into, runs and patches in the raster, and a point of
\* the page is measured at its pixel or the next, for every page, raster and text.
THEOREM HeatmapIsTrue == HeatSpec => []HeatmapTrue
<1>1. HeatInv => HeatmapTrue
  BY DEF HeatInv
<1> QED
  BY <1>1, HeatInvHolds, PTL

-----------------------------------------------------------------------------
(* The dieline detector.                                                   *)

LEMMA FiniteFacts ==
  /\ IsFiniteSet({})
  /\ \A S, x : IsFiniteSet(S) => IsFiniteSet(S \union {x})
  /\ \A S, T : IsFiniteSet(S) /\ IsFiniteSet(T) => IsFiniteSet(S \union T)
BY FS_EmptySet, FS_AddElement, FS_Union

LEMMA PairFinite == ASSUME NEW x, NEW y PROVE IsFiniteSet({x, y})
<1>1. IsFiniteSet({} \union {x})
  BY FiniteFacts
<1>2. IsFiniteSet(({} \union {x}) \union {y})
  BY <1>1, FiniteFacts
<1>3. ({} \union {x}) \union {y} = {x, y}
  OBVIOUS
<1> QED
  BY <1>2, <1>3

\* The box of points: each edge is the coordinate of one, and none lies outside.
Spanned(b, points) == /\ \E p \in points : p[1] = b.x0
                      /\ \E p \in points : p[2] = b.y0
                      /\ \E p \in points : p[1] = b.x1
                      /\ \E p \in points : p[2] = b.y1
Covers(b, p) == b.x0 <= p[1] /\ p[1] <= b.x1 /\ b.y0 <= p[2] /\ p[2] <= b.y1
BoxSet == [x0 : Int, y0 : Int, x1 : Int, y1 : Int]

LEMMA BoxOfPoints ==
  ASSUME NEW P, IsFiniteSet(P), P # {}, P \subseteq Int \X Int
  PROVE  /\ Box(P) \in BoxSet /\ Spanned(Box(P), P) /\ \A p \in P : Covers(Box(P), p)
         /\ Box(P) = [x0 |-> Min({p[1] : p \in P}), y0 |-> Min({p[2] : p \in P}),
                      x1 |-> Max({p[1] : p \in P}), y1 |-> Max({p[2] : p \in P})]
<1> DEFINE X == {p[1] : p \in P}
           Y == {p[2] : p \in P}
           f == [p \in P |-> p[1]]
           g == [p \in P |-> p[2]]
<1>1. /\ Min(X) \in X /\ \A v \in X : Min(X) <= v
      /\ Max(X) \in X /\ \A v \in X : v <= Max(X)
  <2>1. f \in [P -> Int] /\ X = {f[p] : p \in P}
    OBVIOUS
  <2> HIDE DEF f, X
  <2> QED
    BY <2>1, ExtremesOf
<1>2. /\ Min(Y) \in Y /\ \A v \in Y : Min(Y) <= v
      /\ Max(Y) \in Y /\ \A v \in Y : v <= Max(Y)
  <2>1. g \in [P -> Int] /\ Y = {g[p] : p \in P}
    OBVIOUS
  <2> HIDE DEF g, Y
  <2> QED
    BY <2>1, ExtremesOf
<1>3. X \subseteq Int /\ Y \subseteq Int
  OBVIOUS
<1>4. /\ \A p \in P : p[1] \in X /\ p[2] \in Y
      /\ \A v \in X : \E p \in P : p[1] = v
      /\ \A v \in Y : \E p \in P : p[2] = v
  OBVIOUS
<1>5. Box(P) = [x0 |-> Min(X), y0 |-> Min(Y), x1 |-> Max(X), y1 |-> Max(Y)]
  BY DEF Box
<1>6. QED
  <2> HIDE DEF X, Y
  <2> DEFINE b == [x0 |-> Min(X), y0 |-> Min(Y), x1 |-> Max(X), y1 |-> Max(Y)]
  <2>1. b.x0 = Min(X) /\ b.y0 = Min(Y) /\ b.x1 = Max(X) /\ b.y1 = Max(Y) /\ b \in BoxSet
    BY <1>1, <1>2, <1>3 DEF BoxSet
  <2> HIDE DEF b
  <2>2. Spanned(b, P)
    BY <1>1, <1>2, <1>4, <2>1 DEF Spanned
  <2>3. \A p \in P : Covers(b, p)
    BY <1>1, <1>2, <1>4, <2>1 DEF Covers
  <2> QED
    BY <1>5, <2>1, <2>2, <2>3 DEF b, X, Y

-----------------------------------------------------------------------------
(* A page while its operators are walked.                                  *)

PageFields == {"points", "boxes", "out", "count", "marked", "ctm", "saved", "drawn", "inked",
               "mirrored", "displaced", "dashes"}
\* What is boxed is what is drawn: the open subpath, and the boxes of those before it; and of
\* what was stroked, out.
Boxed(at) ==
  /\ DOMAIN at = PageFields /\ at.mirrored \in BOOLEAN
  /\ at.points \subseteq at.drawn /\ at.drawn \subseteq Int \X Int /\ at.inked \subseteq Int \X Int
  /\ IsFiniteSet(at.points) /\ IsFiniteSet(at.boxes) /\ IsFiniteSet(at.out)
  /\ IsFiniteSet(at.drawn) /\ IsFiniteSet(at.inked)
  /\ \A b \in at.boxes : b \in BoxSet /\ Spanned(b, at.drawn)
  /\ \A b \in at.out : b \in BoxSet /\ Spanned(b, at.inked)
  /\ ~at.mirrored => /\ \A p \in at.drawn \ at.points : \E b \in at.boxes : Covers(b, p)
                     /\ \A p \in at.inked : \E b \in at.out : Covers(b, p)

\* So it is of a page whose vertices all lie at their operands.
Walked(at) == /\ DOMAIN at = PageFields /\ at.mirrored \in BOOLEAN /\ at.displaced \in BOOLEAN
              /\ ~at.displaced => Boxed(at)

LEMMA FreshWalked == Walked(FreshPage)
BY FS_EmptySet DEF FreshPage, Boxed, PageFields, NoCounts, Walked

LEMMA SpannedMore ==
  ASSUME NEW b, NEW S, NEW T, S \subseteq T, Spanned(b, S)
  PROVE  Spanned(b, T)
BY DEF Spanned

\* What an operator leaves alone stays true.
LEMMA SameWalked ==
  ASSUME NEW at, Walked(at), NEW new, DOMAIN new = PageFields,
         \A field \in {"points", "boxes", "out", "drawn", "inked", "mirrored", "displaced"} :
           new[field] = at[field]
  PROVE  Walked(new)
<1>1. Boxed(at) => Boxed(new)
  BY DEF Boxed
<1> QED
  BY <1>1 DEF Walked

LEMMA CountedWalked ==
  ASSUME NEW at, Walked(at), NEW op, NEW what
  PROVE  /\ Walked(Counted(at, op, what))
         /\ DOMAIN Counted(at, op, what) = PageFields
         /\ \A field \in PageFields \ {"count"} : Counted(at, op, what)[field] = at[field]
<1> DEFINE new == Counted(at, op, what)
<1>1. /\ DOMAIN new = PageFields
      /\ \A field \in PageFields \ {"count"} : new[field] = at[field]
  BY DEF Counted, Walked
<1> HIDE DEF new
<1>2. Walked(new)
  BY <1>1, SameWalked DEF PageFields
<1> QED
  BY <1>1, <1>2 DEF new

LEMMA SealedBoxed ==
  ASSUME NEW at, Boxed(at)
  PROVE  LET s == Sealed(at)
         IN  /\ Boxed(s) /\ s.points = {} /\ s.drawn = at.drawn /\ s.inked = at.inked
             /\ s.out = at.out /\ s.mirrored = at.mirrored /\ at.boxes \subseteq s.boxes
<1>1. CASE at.points = {}
  BY <1>1 DEF Sealed
<1>2. CASE at.points # {}
  <2> DEFINE b == Box(at.points)
             s == [at EXCEPT !.points = {}, !.boxes = @ \union {b}]
  <2>1. b \in BoxSet /\ Spanned(b, at.points) /\ \A p \in at.points : Covers(b, p)
    BY <1>2, BoxOfPoints DEF Boxed
  <2>2. Sealed(at) = s
    BY <1>2 DEF Sealed
  <2> HIDE DEF b
  <2>3. /\ DOMAIN s = PageFields /\ s.points = {} /\ s.boxes = at.boxes \union {b} /\ s.drawn = at.drawn
        /\ s.inked = at.inked /\ s.out = at.out /\ s.mirrored = at.mirrored
    BY DEF Boxed, PageFields
  <2> HIDE DEF s
  <2>4. IsFiniteSet(s.points) /\ IsFiniteSet(s.boxes)
    <3>1. IsFiniteSet(at.boxes)
      BY DEF Boxed
    <3>2. IsFiniteSet(at.boxes \union {b}) /\ IsFiniteSet({})
      BY <3>1, FiniteFacts, Zenon
    <3> QED
      BY <2>3, <3>2
  <2>5. Spanned(b, at.drawn)
    BY <2>1, SpannedMore DEF Boxed
  <2>6. ~s.mirrored => \A p \in s.drawn \ s.points : \E c \in s.boxes : Covers(c, p)
    <3> SUFFICES ASSUME ~at.mirrored, NEW p \in at.drawn PROVE \E c \in s.boxes : Covers(c, p)
      BY <2>3
    <3>1. CASE p \in at.points
      BY <2>1, <2>3, <3>1
    <3>2. CASE p \notin at.points
      <4>1. \E c \in at.boxes : Covers(c, p)
        BY <3>2 DEF Boxed
      <4> QED
        BY <2>3, <4>1
    <3> QED
      BY <3>1, <3>2
  <2>7. Boxed(s)
    BY <2>1, <2>3, <2>4, <2>5, <2>6 DEF Boxed
  <2> QED
    BY <2>2, <2>3, <2>7
<1> QED
  BY <1>1, <1>2

LEMMA DrawnMore ==
  ASSUME NEW P, IsFiniteSet(P), P \subseteq Int \X Int, NEW Q, IsFiniteSet(Q), Q \subseteq Int \X Int
  PROVE  IsFiniteSet(P \union Q) /\ P \union Q \subseteq Int \X Int
BY FS_Union

\* The identity leaves a vertex at its operands.
LEMMA PlacedAtOperands ==
  ASSUME NEW p \in Int \X Int
  PROVE  Placed(Identity, p) = p
<1>1. PICK x \in Int, y \in Int : p = <<x, y>>
  OBVIOUS
<1>2. 1 * x + 0 * y + 0 = x /\ 0 * x + 1 * y + 0 = y
  OBVIOUS
<1> QED
  BY <1>1, <1>2 DEF Placed, Identity

\* m, l: the point joins the open subpath.
LEMMA PointBoxed ==
  ASSUME NEW at, Boxed(at), at.ctm = Identity, NEW p \in Int \X Int, NEW P, P = at.points \union {p}
  PROVE  Boxed(Drawn([at EXCEPT !.points = P], {p}))
<1> DEFINE s == Drawn([at EXCEPT !.points = P], {p})
<1>0. {Placed(at.ctm, u) : u \in {p}} = {p}
  BY PlacedAtOperands
<1>1. /\ DOMAIN s = PageFields /\ s.points = P /\ s.drawn = at.drawn \union {p}
      /\ s.boxes = at.boxes /\ s.out = at.out /\ s.inked = at.inked /\ s.mirrored = at.mirrored
  BY <1>0 DEF Drawn, Boxed, PageFields
<1> HIDE DEF s
<1>2. P = at.points \union {p}
  OBVIOUS
<1>3. IsFiniteSet(s.points) /\ IsFiniteSet(s.drawn)
  <2>1. IsFiniteSet(at.points) /\ IsFiniteSet(at.drawn)
    BY DEF Boxed
  <2>2. IsFiniteSet(at.points \union {p}) /\ IsFiniteSet(at.drawn \union {p})
    BY <2>1, FiniteFacts, Zenon
  <2> QED
    BY <1>1, <1>2, <2>2
<1>4. \A b \in s.boxes : b \in BoxSet /\ Spanned(b, s.drawn)
  BY <1>1, SpannedMore DEF Boxed
<1>5. s.points \subseteq s.drawn /\ s.drawn \subseteq Int \X Int
  BY <1>1, <1>2 DEF Boxed
<1>6. ~s.mirrored => \A q \in s.drawn \ s.points : \E b \in s.boxes : Covers(b, q)
  BY <1>1, <1>2 DEF Boxed
<1>7. /\ s.inked \subseteq Int \X Int /\ IsFiniteSet(s.boxes) /\ IsFiniteSet(s.out) /\ IsFiniteSet(s.inked)
      /\ \A b \in s.out : b \in BoxSet /\ Spanned(b, s.inked)
      /\ ~s.mirrored => \A q \in s.inked : \E b \in s.out : Covers(b, q)
  BY <1>1 DEF Boxed
<1> QED
  BY <1>1, <1>3, <1>4, <1>5, <1>6, <1>7 DEF Boxed, s

\* re: a box of its own, true to its corners unless an extent is negative.
LEMMA RectangleBoxed ==
  ASSUME NEW at, Boxed(at), at.ctm = Identity, NEW r \in Int \X Int \X Int \X Int, at.points = {}
  PROVE  LET box == [x0 |-> r[1], y0 |-> r[2], x1 |-> r[1] + r[3], y1 |-> r[2] + r[4]]
         IN  Boxed(Drawn([at EXCEPT !.boxes = @ \union {box}, !.mirrored = @ \/ r[3] < 0 \/ r[4] < 0],
                          BoxCorners(box)))
<1> DEFINE box == [x0 |-> r[1], y0 |-> r[2], x1 |-> r[1] + r[3], y1 |-> r[2] + r[4]]
           C == BoxCorners(box)
           s == Drawn([at EXCEPT !.boxes = @ \union {box}, !.mirrored = @ \/ r[3] < 0 \/ r[4] < 0], C)
<1>0. C = {box.x0, box.x1} \X {box.y0, box.y1} /\ C \subseteq Int \X Int
      /\ {Placed(at.ctm, u) : u \in C} = C
  <2>1. C = {box.x0, box.x1} \X {box.y0, box.y1}
    BY DEF BoxCorners
  <2>2. box.x0 \in Int /\ box.x1 \in Int /\ box.y0 \in Int /\ box.y1 \in Int
    OBVIOUS
  <2> HIDE DEF box
  <2>3. C \subseteq Int \X Int
    BY <2>1, <2>2
  <2> HIDE DEF C
  <2>4. \A u \in C : Placed(at.ctm, u) = u
    BY <2>3, PlacedAtOperands
  <2>5. {Placed(at.ctm, u) : u \in C} = {u : u \in C}
    BY <2>4, Zenon
  <2> QED
    BY <2>1, <2>3, <2>5
<1>1. /\ DOMAIN s = PageFields /\ s.points = {} /\ s.drawn = at.drawn \union C
      /\ s.boxes = at.boxes \union {box} /\ s.out = at.out /\ s.inked = at.inked
      /\ s.mirrored = (at.mirrored \/ r[3] < 0 \/ r[4] < 0)
  <2> DEFINE m == at.mirrored \/ r[3] < 0 \/ r[4] < 0
  <2>1. m \in BOOLEAN
    OBVIOUS
  <2>2. s = Drawn([at EXCEPT !.boxes = @ \union {box}, !.mirrored = m], C)
    OBVIOUS
  <2> HIDE DEF m, s, C, box
  <2>3. s.mirrored = m /\ DOMAIN s = PageFields /\ s.points = {} /\ s.drawn = at.drawn \union C
        /\ s.boxes = at.boxes \union {box} /\ s.out = at.out /\ s.inked = at.inked
    BY <1>0, <2>2 DEF Drawn, Boxed, PageFields
  <2> QED
    BY <2>3 DEF m
<1> HIDE DEF s
<1>2. /\ r[1] \in Int /\ r[2] \in Int /\ r[3] \in Int /\ r[4] \in Int
      /\ box \in BoxSet
      /\ r[3] >= 0 => box.x0 <= box.x1
      /\ r[4] >= 0 => box.y0 <= box.y1
  BY DEF BoxSet
<1> HIDE DEF box, C
<1>3. Spanned(box, C) /\ (r[3] >= 0 /\ r[4] >= 0 => \A u \in C : Covers(box, u))
  <2>1. box.x0 \in Int /\ box.x1 \in Int /\ box.y0 \in Int /\ box.y1 \in Int
    BY <1>2 DEF BoxSet
  <2>2. C = {box.x0, box.x1} \X {box.y0, box.y1}
    BY <1>0
  <2>3. <<box.x0, box.y0>> \in C /\ <<box.x1, box.y1>> \in C
    BY <2>2
  <2>4. Spanned(box, C)
    BY <2>3 DEF Spanned
  <2>5. ASSUME r[3] >= 0, r[4] >= 0, NEW u \in C PROVE Covers(box, u)
    <3>1. /\ u[1] = box.x0 \/ u[1] = box.x1
          /\ u[2] = box.y0 \/ u[2] = box.y1
      BY <2>2
    <3> QED
      BY <1>2, <2>1, <2>5, <3>1 DEF Covers
  <2> QED
    BY <2>4, <2>5
<1>4. IsFiniteSet(s.boxes) /\ IsFiniteSet(s.drawn) /\ IsFiniteSet(s.points)
  <2>1. IsFiniteSet({box.x0, box.x1}) /\ IsFiniteSet({box.y0, box.y1})
    BY PairFinite, Zenon
  <2>2. IsFiniteSet(C)
    BY <1>0, <2>1, FS_Product
  <2>3. IsFiniteSet(at.drawn \union C)
    BY <2>2, FiniteFacts DEF Boxed
  <2> QED
    <3>1. IsFiniteSet(at.boxes)
      BY DEF Boxed
    <3>2. IsFiniteSet(at.boxes \union {box}) /\ IsFiniteSet({})
      BY <3>1, FiniteFacts, Zenon
    <3> QED
      BY <1>1, <2>3, <3>2
<1>5. \A b \in s.boxes : b \in BoxSet /\ Spanned(b, s.drawn)
  BY <1>1, <1>2, <1>3, SpannedMore DEF Boxed
<1>6. s.points \subseteq s.drawn /\ s.drawn \subseteq Int \X Int
  BY <1>0, <1>1, <1>2 DEF Boxed
<1>7. ~s.mirrored => \A q \in s.drawn \ s.points : \E b \in s.boxes : Covers(b, q)
  <2> SUFFICES ASSUME ~s.mirrored, NEW q \in s.drawn PROVE \E b \in s.boxes : Covers(b, q)
    OBVIOUS
  <2>1. ~at.mirrored /\ r[3] >= 0 /\ r[4] >= 0
    <3>1. ~(at.mirrored \/ r[3] < 0 \/ r[4] < 0)
      BY <1>1, Zenon
    <3>2. ~at.mirrored /\ ~(r[3] < 0) /\ ~(r[4] < 0)
      BY <3>1, Zenon
    <3> QED
      BY <1>2, <3>2
  <2>2. CASE q \in at.drawn
    BY <1>1, <2>1, <2>2 DEF Boxed
  <2>3. CASE q \in C
    BY <1>1, <1>3, <2>1, <2>3
  <2> QED
    BY <1>1, <2>2, <2>3
<1>8. /\ s.inked \subseteq Int \X Int /\ IsFiniteSet(s.out) /\ IsFiniteSet(s.inked)
      /\ \A b \in s.out : b \in BoxSet /\ Spanned(b, s.inked)
      /\ ~s.mirrored => \A q \in s.inked : \E b \in s.out : Covers(b, q)
  BY <1>1 DEF Boxed
<1> QED
  BY <1>1, <1>4, <1>5, <1>6, <1>7, <1>8, ZenonT(30) DEF Boxed, s, box, C

\* A stroke: the boxes of the path, its open subpath sealed, are those of the ink.
LEMMA PaintedBoxed ==
  ASSUME NEW at, Boxed(at)
  PROVE  Boxed(Painted(at))
<1> DEFINE s == Sealed(at)
           t == [s EXCEPT !.out = @ \union s.boxes, !.boxes = {}, !.inked = @ \union at.drawn, !.drawn = {}]
<1>1. /\ Boxed(s) /\ s.points = {} /\ s.drawn = at.drawn /\ s.inked = at.inked
      /\ s.out = at.out /\ s.mirrored = at.mirrored
  BY SealedBoxed
<1>2. Painted(at) = t
  BY DEF Painted
<1> HIDE DEF s
<1>3. /\ DOMAIN t = PageFields /\ t.points = {} /\ t.drawn = {} /\ t.boxes = {}
      /\ t.out = s.out \union s.boxes /\ t.inked = s.inked \union s.drawn /\ t.mirrored = s.mirrored
      /\ t.mirrored \in BOOLEAN
  BY <1>1 DEF Boxed, PageFields
<1> HIDE DEF t
<1>4. /\ IsFiniteSet(t.out) /\ IsFiniteSet(t.inked) /\ IsFiniteSet(t.points)
      /\ IsFiniteSet(t.drawn) /\ IsFiniteSet(t.boxes)
  <2>1. IsFiniteSet(s.out) /\ IsFiniteSet(s.boxes) /\ IsFiniteSet(s.inked) /\ IsFiniteSet(s.drawn)
    BY <1>1 DEF Boxed
  <2> QED
    BY <1>1, <1>3, <2>1, FiniteFacts
<1>5. \A b \in t.out : b \in BoxSet /\ Spanned(b, t.inked)
  BY <1>1, <1>3, SpannedMore DEF Boxed
<1>6. ~t.mirrored => \A p \in t.inked : \E b \in t.out : Covers(b, p)
  <2> SUFFICES ASSUME ~s.mirrored, NEW p \in s.inked \union s.drawn
               PROVE  \E b \in s.out \union s.boxes : Covers(b, p)
    BY <1>3
  <2>1. CASE p \in s.inked
    BY <1>1, <2>1 DEF Boxed
  <2>2. CASE p \in s.drawn
    <3>1. \E b \in s.boxes : Covers(b, p)
      BY <1>1, <2>2 DEF Boxed
    <3> QED
      BY <3>1
  <2> QED
    BY <2>1, <2>2
<1>7. t.inked \subseteq Int \X Int
  BY <1>1, <1>3 DEF Boxed
<1> QED
  BY <1>2, <1>3, <1>4, <1>5, <1>6, <1>7 DEF Boxed

LEMMA DroppedBoxed ==
  ASSUME NEW at, Boxed(at)
  PROVE  Boxed(Dropped(at))
<1> DEFINE t == Dropped(at)
<1>1. /\ DOMAIN t = PageFields /\ t.points = {} /\ t.drawn = {} /\ t.boxes = {}
      /\ t.out = at.out /\ t.inked = at.inked /\ t.mirrored = at.mirrored
  BY DEF Dropped, Boxed, PageFields
<1> HIDE DEF t
<1>2. IsFiniteSet(t.points) /\ IsFiniteSet(t.drawn) /\ IsFiniteSet(t.boxes)
  BY <1>1, FS_EmptySet
<1> QED
  BY <1>1, <1>2 DEF Boxed, t

\* m: the open subpath is sealed and another begun.
LEMMA MoveWalked ==
  ASSUME NEW at, Walked(at), NEW p \in Int \X Int
  PROVE  Walked(Drawn([Sealed(at) EXCEPT !.points = {p}], {p}))
<1> DEFINE s == Sealed(at)
           P == {p}
           new == Drawn([s EXCEPT !.points = P], {p})
<1>1. /\ DOMAIN s = PageFields /\ s.ctm = at.ctm /\ s.displaced = at.displaced
      /\ s.mirrored = at.mirrored
  BY DEF Sealed, Walked, PageFields
<1>2. ASSUME Boxed(at), at.ctm = Identity PROVE Boxed(new)
  <2>1. Boxed(s) /\ s.points = {} /\ s.ctm = Identity
    BY <1>1, <1>2, SealedBoxed
  <2> HIDE DEF s
  <2>2. P = s.points \union {p}
    BY <2>1
  <2> HIDE DEF P
  <2> QED
    BY <2>1, <2>2, PointBoxed
<1> HIDE DEF s, P
<1>3. /\ DOMAIN new = PageFields /\ new.mirrored = at.mirrored
      /\ new.displaced = (at.displaced \/ at.ctm # Identity)
  BY <1>1 DEF Drawn, PageFields
<1> HIDE DEF new
<1>4. Walked(new)
  BY <1>2, <1>3 DEF Walked
<1> QED
  BY <1>4 DEF new, s, P

LEMMA LineWalked ==
  ASSUME NEW at, Walked(at), NEW p \in Int \X Int
  PROVE  Walked(Drawn([at EXCEPT !.points = @ \union {p}], {p}))
<1> DEFINE P == at.points \union {p}
           new == Drawn([at EXCEPT !.points = P], {p})
<1>1. P = at.points \union {p} /\ DOMAIN at = PageFields
  BY DEF Walked
<1> HIDE DEF P
<1>2. Boxed(at) /\ at.ctm = Identity => Boxed(new)
  BY <1>1, PointBoxed
<1>3. /\ DOMAIN new = PageFields /\ new.mirrored = at.mirrored
      /\ new.displaced = (at.displaced \/ at.ctm # Identity)
  BY <1>1 DEF Drawn, PageFields
<1> HIDE DEF new
<1>4. Walked(new)
  BY <1>2, <1>3 DEF Walked
<1> QED
  BY <1>4 DEF new, P

LEMMA RectangleWalked ==
  ASSUME NEW at, Walked(at), NEW r \in Int \X Int \X Int \X Int
  PROVE  LET box == [x0 |-> r[1], y0 |-> r[2], x1 |-> r[1] + r[3], y1 |-> r[2] + r[4]]
         IN  Walked(Drawn([Sealed(at) EXCEPT !.boxes = @ \union {box},
                                             !.mirrored = @ \/ r[3] < 0 \/ r[4] < 0],
                          BoxCorners(box)))
<1> DEFINE box == [x0 |-> r[1], y0 |-> r[2], x1 |-> r[1] + r[3], y1 |-> r[2] + r[4]]
           s == Sealed(at)
           C == BoxCorners(box)
           new == Drawn([s EXCEPT !.boxes = @ \union {box},
                                  !.mirrored = @ \/ r[3] < 0 \/ r[4] < 0], C)
<1>1. /\ DOMAIN s = PageFields /\ s.ctm = at.ctm /\ s.displaced = at.displaced
      /\ s.mirrored = at.mirrored
  BY DEF Sealed, Walked, PageFields
<1>2. ASSUME Boxed(at), at.ctm = Identity PROVE Boxed(new)
  <2>1. Boxed(s) /\ s.points = {} /\ s.ctm = Identity
    BY <1>1, <1>2, SealedBoxed
  <2> HIDE DEF s
  <2> QED
    BY <2>1, RectangleBoxed, Zenon
<1> HIDE DEF s, C, box
<1>3. /\ DOMAIN new = PageFields /\ new.mirrored \in BOOLEAN
      /\ new.displaced = (at.displaced \/ at.ctm # Identity)
  <2> DEFINE m == s.mirrored \/ r[3] < 0 \/ r[4] < 0
             boxes == s.boxes \union {box}
  <2>1. m \in BOOLEAN
    OBVIOUS
  <2>2. new = Drawn([s EXCEPT !.boxes = boxes, !.mirrored = m], C)
    OBVIOUS
  <2> HIDE DEF m, new, boxes
  <2>3. DOMAIN new = PageFields /\ new.mirrored = m
        /\ new.displaced = (s.displaced \/ s.ctm # Identity)
    BY <1>1, <2>2 DEF Drawn, PageFields
  <2> QED
    BY <1>1, <2>1, <2>3
<1> HIDE DEF new
<1>4. Walked(new)
  BY <1>2, <1>3 DEF Walked
<1> QED
  BY <1>4, Zenon DEF new, s, C, box

LEMMA PaintedWalked ==
  ASSUME NEW at, Walked(at)
  PROVE  Walked(Painted(at))
<1> DEFINE new == Painted(at)
<1>1. /\ DOMAIN new = PageFields /\ new.displaced = at.displaced
      /\ new.mirrored = at.mirrored
  BY DEF Painted, Sealed, Walked, PageFields
<1>2. Boxed(at) => Boxed(new)
  BY PaintedBoxed
<1> HIDE DEF new
<1>3. Walked(new)
  BY <1>1, <1>2 DEF Walked
<1> QED
  BY <1>3 DEF new

LEMMA DroppedWalked ==
  ASSUME NEW at, Walked(at)
  PROVE  Walked(Dropped(at))
<1> DEFINE new == Dropped(at)
<1>1. /\ DOMAIN new = PageFields /\ new.displaced = at.displaced
      /\ new.mirrored = at.mirrored
  BY DEF Dropped, Walked, PageFields
<1>2. Boxed(at) => Boxed(new)
  BY DroppedBoxed
<1> HIDE DEF new
<1>3. Walked(new)
  BY <1>1, <1>2 DEF Walked
<1> QED
  BY <1>3 DEF new

-----------------------------------------------------------------------------
(* The pages together.                                                     *)

InkOn(inked, q) == {v[2] : v \in {v \in inked : v[1] = q}}
\* The boxes of the pages are those of their ink.
Measured(boxes, inked, mirrored, pages) ==
  /\ IsFiniteSet(inked) /\ inked \subseteq pages \X (Int \X Int) /\ mirrored \in BOOLEAN
  /\ \A q \in pages : /\ IsFiniteSet(boxes[q])
                      /\ \A b \in boxes[q] : b \in BoxSet /\ Spanned(b, InkOn(inked, q))
  /\ ~mirrored => \A v \in inked : \E b \in boxes[v[1]] : Covers(b, v[2])

Joined(inked, p, at) == inked \union ({p} \X at.inked)
Turned(mirrored, at) == mirrored \/ at.mirrored
Appended(after, boxes, pages, p, at) == after[p] = at.out /\ \A q \in pages : after[q] = boxes[q]

LEMMA PageMeasured ==
  ASSUME NEW p, NEW pages, p \notin pages, NEW boxes, NEW inked, NEW mirrored,
         Measured(boxes, inked, mirrored, pages), NEW at, Boxed(at),
         NEW after, Appended(after, boxes, pages, p, at)
  PROVE  Measured(after, Joined(inked, p, at), Turned(mirrored, at), pages \union {p})
<1> DEFINE more == inked \union ({p} \X at.inked)
           turned == mirrored \/ at.mirrored
<1>0. after[p] = at.out /\ \A q \in pages : after[q] = boxes[q]
  BY DEF Appended
<1>1. /\ IsFiniteSet(inked) /\ inked \subseteq (pages) \X (Int \X Int) /\ mirrored \in BOOLEAN
      /\ \A q \in pages : /\ IsFiniteSet(boxes[q])
                               /\ \A b \in boxes[q] : b \in BoxSet /\ Spanned(b, InkOn(inked, q))
      /\ ~mirrored => \A v \in inked : \E b \in boxes[v[1]] : Covers(b, v[2])
  BY DEF Measured
<1>2. /\ IsFiniteSet(at.inked) /\ at.inked \subseteq Int \X Int /\ at.mirrored \in BOOLEAN
      /\ IsFiniteSet(at.out)
      /\ \A b \in at.out : b \in BoxSet /\ Spanned(b, at.inked)
      /\ ~at.mirrored => \A q \in at.inked : \E b \in at.out : Covers(b, q)
  BY DEF Boxed
<1>3. IsFiniteSet(more)
  <2>1. IsFiniteSet({p} \X at.inked)
    BY <1>2, FS_Singleton, FS_Product
  <2> QED
    BY <1>1, <2>1, FS_Union
<1>4. more \subseteq (pages \union {p}) \X (Int \X Int)
  <2>1. pages \subseteq pages \union {p} /\ p \in pages \union {p}
    OBVIOUS
  <2> QED
    BY <1>1, <1>2, <2>1
<1>5. \A q : InkOn(inked, q) \subseteq InkOn(more, q)
  BY DEF InkOn
<1>6. at.inked \subseteq InkOn(more, p)
  <2> SUFFICES ASSUME NEW u \in at.inked PROVE u \in InkOn(more, p)
    OBVIOUS
  <2>1. <<p, u>> \in more /\ <<p, u>>[1] = p /\ <<p, u>>[2] = u
    OBVIOUS
  <2> QED
    BY <2>1 DEF InkOn
<1>7. ASSUME NEW q \in pages \union {p}
      PROVE  IsFiniteSet(after[q]) /\ \A b \in after[q] : b \in BoxSet /\ Spanned(b, InkOn(more, q))
  <2>1. CASE q = p
    BY <1>0, <1>2, <1>6, <2>1, SpannedMore
  <2>2. CASE q \in pages
    <3>1. after[q] = boxes[q] /\ IsFiniteSet(boxes[q])
          /\ \A b \in boxes[q] : b \in BoxSet /\ Spanned(b, InkOn(inked, q))
      BY <1>0, <1>1, <2>2
    <3>2. InkOn(inked, q) \subseteq InkOn(more, q)
      BY <1>5
    <3> HIDE DEF more
    <3> QED
      BY <3>1, <3>2, SpannedMore
  <2>3. q = p \/ q \in pages
    OBVIOUS
  <2> QED
    BY <2>1, <2>2, <2>3
<1>8. ASSUME ~mirrored, ~at.mirrored, NEW v \in more PROVE \E b \in after[v[1]] : Covers(b, v[2])
  <2>1. CASE v \in inked
    <3>1. v[1] \in pages
      BY <1>1, <2>1
    <3> QED
      BY <1>0, <1>1, <1>8, <2>1, <3>1
  <2>2. CASE v \in {p} \X at.inked
    <3>1. v[1] = p /\ v[2] \in at.inked
      BY <2>2
    <3> QED
      BY <1>0, <1>2, <1>8, <3>1
  <2> QED
    BY <2>1, <2>2
<1>9. turned \in BOOLEAN /\ (~turned => ~mirrored /\ ~at.mirrored)
  OBVIOUS
<1> HIDE DEF more, turned
<1>10. Measured(after, more, turned, pages \union {p})
  BY <1>3, <1>4, <1>7, <1>8, <1>9 DEF Measured
<1> QED
  BY <1>10 DEF more, turned, Joined, Turned

\* The ink of the pages whose vertices lie at their operands.
InPlaceInk(inked, displaced) == {v \in inked : v[1] \notin displaced}
OnPages(inked, pages) == \A v \in inked : v[1] \in pages
Gauged(boxes, inked, mirrored, displaced, pages) ==
  /\ OnPages(inked, pages) /\ mirrored \in BOOLEAN
  /\ Measured(boxes, InPlaceInk(inked, displaced), mirrored, pages \ displaced)

LEMMA PageGauged ==
  ASSUME NEW p \in Nat \ {0}, NEW boxes, NEW inked, NEW mirrored, NEW displaced,
         displaced \subseteq 1 .. p - 1,
         Gauged(boxes, inked, mirrored, displaced, 1 .. p - 1), NEW at, Walked(at),
         NEW after, Appended(after, boxes, 1 .. p - 1, p, at),
         NEW turned, turned = Turned(mirrored, at)
  PROVE  /\ Gauged(after, Joined(inked, p, at), turned,
                   displaced \union {q \in {p} : at.displaced}, 1 .. p)
         /\ displaced \union {q \in {p} : at.displaced} \subseteq 1 .. p
<1> DEFINE S == 1 .. p - 1
           T == 1 .. p
           more == Joined(inked, p, at)
           gone == displaced \union {q \in {p} : at.displaced}
<1>1. /\ OnPages(inked, S) /\ mirrored \in BOOLEAN
      /\ Measured(boxes, InPlaceInk(inked, displaced), mirrored, S \ displaced)
  BY DEF Gauged
<1>2. T = S \union {p} /\ p \notin S /\ displaced \subseteq S /\ gone \subseteq T
  <2>1. T = S \union {p} /\ p \notin S
    OBVIOUS
  <2> QED
    BY <2>1
<1> HIDE DEF S, T
<1>3. OnPages(more, T)
  BY <1>1, <1>2 DEF OnPages, Joined
<1>4. at.mirrored \in BOOLEAN /\ at.displaced \in BOOLEAN /\ turned \in BOOLEAN
      /\ (~turned => ~mirrored /\ ~at.mirrored)
  BY <1>1 DEF Walked, Turned
<1>5. Measured(after, InPlaceInk(more, gone), turned, T \ gone)
  <2> DEFINE ink == InPlaceInk(inked, displaced)
             pages == S \ displaced
  <2>1. CASE at.displaced
    <3>1. gone = displaced \union {p}
      BY <2>1
    <3>2. T \ gone = pages
      BY <1>2, <3>1
    <3>3. InPlaceInk(more, gone) = ink
      <4>1. ASSUME NEW v \in InPlaceInk(more, gone) PROVE v \in ink
        <5>1. v[1] # p /\ v[1] \notin displaced /\ (v \in inked \/ v \in {p} \X at.inked)
          BY <3>1, <4>1 DEF InPlaceInk, Joined
        <5> QED
          BY <5>1 DEF InPlaceInk
      <4>2. ASSUME NEW v \in ink PROVE v \in InPlaceInk(more, gone)
        <5>1. v \in inked /\ v[1] \notin displaced /\ v[1] \in S
          BY <1>1, <4>2 DEF InPlaceInk, OnPages
        <5> QED
          BY <1>2, <3>1, <5>1 DEF InPlaceInk, Joined
      <4> QED
        BY <4>1, <4>2
    <3>4. \A q \in pages : after[q] = boxes[q]
      BY DEF Appended, S
    <3>5. \A v \in ink : v[1] \in pages
      BY <1>1 DEF InPlaceInk, OnPages
    <3> HIDE DEF ink, pages, gone, more
    <3>6. Measured(after, ink, turned, pages)
      BY <1>1, <1>4, <3>4, <3>5 DEF Measured, ink, pages
    <3> QED
      BY <3>2, <3>3, <3>6
  <2>2. CASE ~at.displaced
    <3>1. gone = displaced /\ Boxed(at)
      BY <2>2 DEF Walked
    <3>2. T \ gone = pages \union {p} /\ p \notin pages
      BY <1>2, <3>1
    <3>3. InPlaceInk(more, gone) = Joined(ink, p, at)
      <4>1. ASSUME NEW v \in InPlaceInk(more, gone) PROVE v \in Joined(ink, p, at)
        BY <3>1, <4>1 DEF InPlaceInk, Joined
      <4>2. ASSUME NEW v \in Joined(ink, p, at) PROVE v \in InPlaceInk(more, gone)
        <5>1. CASE v \in ink
          BY <3>1, <5>1 DEF InPlaceInk, Joined
        <5>2. CASE v \in {p} \X at.inked
          <6>1. v[1] = p /\ p \notin displaced
            BY <1>2, <5>2
          <6> QED
            BY <3>1, <5>2, <6>1 DEF InPlaceInk, Joined
        <5> QED
          BY <4>2, <5>1, <5>2 DEF Joined
      <4> QED
        BY <4>1, <4>2
    <3>4. Appended(after, boxes, pages, p, at)
      BY DEF Appended, S
    <3>5. Measured(boxes, ink, mirrored, pages)
      BY <1>1
    <3> HIDE DEF ink, pages, gone, more
    <3>6. Measured(after, Joined(ink, p, at), Turned(mirrored, at), pages \union {p})
      BY <3>1, <3>2, <3>4, <3>5, PageMeasured
    <3> QED
      BY <3>2, <3>3, <3>6
  <2> QED
    BY <1>4, <2>1, <2>2
<1> QED
  BY <1>2, <1>3, <1>4, <1>5 DEF Gauged, S, T

\* The size of the chosen pages is that of their ink.
SizeAndInk(hull, ink, mirrored) ==
  /\ hull.x0 >= Min({p[1] : p \in ink}) /\ hull.y0 >= Min({p[2] : p \in ink})
  /\ hull.x1 <= Max({p[1] : p \in ink}) /\ hull.y1 <= Max({p[2] : p \in ink})
  /\ ~mirrored => hull = Box(ink)

LEMMA PagesFinite ==
  ASSUME NEW chosen, IsFiniteSet(chosen), NEW boxes, \A p \in chosen : IsFiniteSet(boxes[p]),
         NEW all, \A b : b \in all <=> \E p \in chosen : b \in boxes[p]
  PROVE  IsFiniteSet(all)
<1> DEFINE f == [p \in chosen |-> boxes[p]]
           sets == {boxes[p] : p \in chosen}
<1>1. sets = {f[p] : p \in chosen}
  OBVIOUS
<1>2. DOMAIN f = chosen
  OBVIOUS
<1>3. \A T \in sets : IsFiniteSet(T)
  OBVIOUS
<1> HIDE DEF f, sets
<1>4. IsFiniteSet(sets)
  BY <1>1, <1>2, FiniteImage
<1>5. IsFiniteSet(UNION sets)
  BY <1>3, <1>4, FS_UNION
<1>6. all = UNION sets
  BY DEF sets
<1> QED
  BY <1>5, <1>6

LEMMA EdgesOf ==
  ASSUME NEW all, IsFiniteSet(all), all # {}, all \subseteq BoxSet
  PROVE  LET x0 == Min({b.x0 : b \in all})
             y0 == Min({b.y0 : b \in all})
             x1 == Max({b.x1 : b \in all})
             y1 == Max({b.y1 : b \in all})
         IN  /\ \E b \in all : x0 = b.x0 /\ \A c \in all : x0 <= c.x0
             /\ \E b \in all : y0 = b.y0 /\ \A c \in all : y0 <= c.y0
             /\ \E b \in all : x1 = b.x1 /\ \A c \in all : c.x1 <= x1
             /\ \E b \in all : y1 = b.y1 /\ \A c \in all : c.y1 <= y1
<1> DEFINE X0 == {b.x0 : b \in all}
           Y0 == {b.y0 : b \in all}
           X1 == {b.x1 : b \in all}
           Y1 == {b.y1 : b \in all}
<1>1. /\ Min(X0) \in X0 /\ \A v \in X0 : Min(X0) <= v
  <2> DEFINE f == [b \in all |-> b.x0]
  <2>1. f \in [all -> Int] /\ X0 = {f[b] : b \in all}
    BY DEF BoxSet
  <2> HIDE DEF f, X0
  <2> QED
    BY <2>1, ExtremesOf
<1>2. /\ Min(Y0) \in Y0 /\ \A v \in Y0 : Min(Y0) <= v
  <2> DEFINE f == [b \in all |-> b.y0]
  <2>1. f \in [all -> Int] /\ Y0 = {f[b] : b \in all}
    BY DEF BoxSet
  <2> HIDE DEF f, Y0
  <2> QED
    BY <2>1, ExtremesOf
<1>3. /\ Max(X1) \in X1 /\ \A v \in X1 : v <= Max(X1)
  <2> DEFINE f == [b \in all |-> b.x1]
  <2>1. f \in [all -> Int] /\ X1 = {f[b] : b \in all}
    BY DEF BoxSet
  <2> HIDE DEF f, X1
  <2> QED
    BY <2>1, ExtremesOf
<1>4. /\ Max(Y1) \in Y1 /\ \A v \in Y1 : v <= Max(Y1)
  <2> DEFINE f == [b \in all |-> b.y1]
  <2>1. f \in [all -> Int] /\ Y1 = {f[b] : b \in all}
    BY DEF BoxSet
  <2> HIDE DEF f, Y1
  <2> QED
    BY <2>1, ExtremesOf
<1>5. /\ \A m \in X0 : \E b \in all : m = b.x0
      /\ \A m \in Y0 : \E b \in all : m = b.y0
      /\ \A m \in X1 : \E b \in all : m = b.x1
      /\ \A m \in Y1 : \E b \in all : m = b.y1
      /\ \A b \in all : b.x0 \in X0 /\ b.y0 \in Y0 /\ b.x1 \in X1 /\ b.y1 \in Y1
  OBVIOUS
<1> HIDE DEF X0, Y0, X1, Y1
<1>6. /\ \E b \in all : Min(X0) = b.x0 /\ \A c \in all : Min(X0) <= c.x0
      /\ \E b \in all : Min(Y0) = b.y0 /\ \A c \in all : Min(Y0) <= c.y0
      /\ \E b \in all : Max(X1) = b.x1 /\ \A c \in all : c.x1 <= Max(X1)
      /\ \E b \in all : Max(Y1) = b.y1 /\ \A c \in all : c.y1 <= Max(Y1)
  BY <1>1, <1>2, <1>3, <1>4, <1>5
<1> QED
  BY <1>6 DEF X0, Y0, X1, Y1

HullOf(all) == [x0 |-> Min({b.x0 : b \in all}), y0 |-> Min({b.y0 : b \in all}),
                x1 |-> Max({b.x1 : b \in all}), y1 |-> Max({b.y1 : b \in all})]
InkOf(inked, chosen) == {v[2] : v \in {v \in inked : v[1] \in chosen}}

LEMMA SizeTrue ==
  ASSUME NEW boxes, NEW inked, NEW mirrored, NEW pages \in SUBSET (1 .. PageNums),
         Measured(boxes, inked, mirrored, pages), NEW chosen, chosen \subseteq pages,
         NEW all, all # {}, \A b : b \in all <=> \E p \in chosen : b \in boxes[p]
  PROVE  SizeAndInk(HullOf(all), InkOf(inked, chosen), mirrored)
<1> DEFINE those == {v \in inked : v[1] \in chosen}
           ink == {v[2] : v \in those}
           X0 == {b.x0 : b \in all}
           Y0 == {b.y0 : b \in all}
           X1 == {b.x1 : b \in all}
           Y1 == {b.y1 : b \in all}
<1>1. /\ IsFiniteSet(inked) /\ inked \subseteq pages \X (Int \X Int) /\ mirrored \in BOOLEAN
      /\ \A q \in chosen : /\ IsFiniteSet(boxes[q])
                          /\ \A b \in boxes[q] : b \in BoxSet /\ Spanned(b, InkOn(inked, q))
      /\ ~mirrored => \A v \in inked : \E b \in boxes[v[1]] : Covers(b, v[2])
  BY DEF Measured
<1>2. IsFiniteSet(all)
  <2>1. PageNums \in Nat
    BY DielineAssumption DEF DielineAssumption
  <2>2. IsFiniteSet(chosen)
    <3>1. IsFiniteSet(1 .. PageNums)
      BY <2>1, FS_Interval
    <3>2. chosen \in SUBSET (1 .. PageNums)
      OBVIOUS
    <3> QED
      BY <3>1, <3>2, FS_Subset
  <2>3. \A p \in chosen : IsFiniteSet(boxes[p])
    BY <1>1
  <2>4. \A b : b \in all <=> \E p \in chosen : b \in boxes[p]
    OBVIOUS
  <2> QED
    BY <2>2, <2>3, <2>4, PagesFinite
<1>3. \A b \in all : b \in BoxSet /\ Spanned(b, ink)
  <2> SUFFICES ASSUME NEW q \in chosen, NEW b \in boxes[q] PROVE b \in BoxSet /\ Spanned(b, ink)
    OBVIOUS
  <2>1. InkOn(inked, q) \subseteq ink
    BY DEF InkOn
  <2> QED
    BY <1>1, <2>1, SpannedMore
<1>4. IsFiniteSet(ink) /\ ink \subseteq Int \X Int
  <2>1. IsFiniteSet(those)
    BY <1>1, FS_Subset
  <2> DEFINE f == [v \in those |-> v[2]]
  <2>2. ink = {f[v] : v \in those} /\ DOMAIN f = those
    OBVIOUS
  <2>3. ink \subseteq Int \X Int
    BY <1>1
  <2> HIDE DEF f, ink, those
  <2> QED
    BY <2>1, <2>2, <2>3, FiniteImage
<1>5. ~mirrored => \A p \in ink : \E b \in all : Covers(b, p)
  <2> SUFFICES ASSUME ~mirrored, NEW v \in those PROVE \E b \in all : Covers(b, v[2])
    OBVIOUS
  <2>1. PICK b \in boxes[v[1]] : Covers(b, v[2])
    BY <1>1
  <2> QED
    BY <2>1
<1> HIDE DEF ink, those
<1>6. ink # {}
  BY <1>3 DEF Spanned
<1> DEFINE PX == {p[1] : p \in ink}
           PY == {p[2] : p \in ink}
<1>7. /\ \A p \in ink : Covers(Box(ink), p) /\ p \in Int \X Int
      /\ Spanned(Box(ink), ink) /\ Box(ink) \in BoxSet
      /\ Box(ink) = [x0 |-> Min(PX), y0 |-> Min(PY), x1 |-> Max(PX), y1 |-> Max(PY)]
  BY <1>4, <1>6, BoxOfPoints
<1> DEFINE ib == Box(ink)
           x0 == Min(X0)
           y0 == Min(Y0)
           x1 == Max(X1)
           y1 == Max(Y1)
<1>12. /\ ib.x0 = Min(PX) /\ ib.y0 = Min(PY) /\ ib.x1 = Max(PX) /\ ib.y1 = Max(PY)
       /\ ib.x0 \in Int /\ ib.y0 \in Int /\ ib.x1 \in Int /\ ib.y1 \in Int
  <2> HIDE DEF PX, PY
  <2>1. ib.x0 = Min(PX) /\ ib.y0 = Min(PY) /\ ib.x1 = Max(PX) /\ ib.y1 = Max(PY)
    BY <1>7
  <2> HIDE DEF ib
  <2>2. ib \in BoxSet
    BY <1>7 DEF ib
  <2> QED
    BY <2>1, <2>2 DEF BoxSet
<1>13. /\ \E b \in all : x0 = b.x0 /\ \A c \in all : x0 <= c.x0
       /\ \E b \in all : y0 = b.y0 /\ \A c \in all : y0 <= c.y0
       /\ \E b \in all : x1 = b.x1 /\ \A c \in all : c.x1 <= x1
       /\ \E b \in all : y1 = b.y1 /\ \A c \in all : c.y1 <= y1
  <2>1. all \subseteq BoxSet
    BY <1>3
  <2> QED
    BY <1>2, <2>1, EdgesOf
<1> HIDE DEF X0, Y0, X1, Y1, x0, y0, x1, y1, ib, PX, PY
<1>14. ib.x0 <= x0 /\ ib.y0 <= y0 /\ x1 <= ib.x1 /\ y1 <= ib.y1
  <2>1. \A b \in all : \A p \in ink : ib.x0 <= p[1] /\ p[1] <= ib.x1 /\ ib.y0 <= p[2] /\ p[2] <= ib.y1
    BY <1>7 DEF Covers, ib
  <2>2. \A b \in all : ib.x0 <= b.x0 /\ ib.y0 <= b.y0 /\ b.x1 <= ib.x1 /\ b.y1 <= ib.y1
    BY <1>3, <2>1 DEF Spanned
  <2> QED
    BY <1>13, <2>2
<1>15. ASSUME ~mirrored PROVE x0 <= ib.x0 /\ y0 <= ib.y0 /\ ib.x1 <= x1 /\ ib.y1 <= y1
  <2>1. \A p \in ink : p \in Int \X Int /\ \E b \in all : Covers(b, p) /\ b \in BoxSet
    BY <1>3, <1>5, <1>7, <1>15
  <2>2. x0 \in Int /\ y0 \in Int /\ x1 \in Int /\ y1 \in Int
    BY <1>3, <1>13 DEF BoxSet
  <2>3. \A p \in ink : x0 <= p[1] /\ y0 <= p[2] /\ p[1] <= x1 /\ p[2] <= y1
    <3> SUFFICES ASSUME NEW p \in ink PROVE x0 <= p[1] /\ y0 <= p[2] /\ p[1] <= x1 /\ p[2] <= y1
      OBVIOUS
    <3>1. PICK b \in all : Covers(b, p) /\ b \in BoxSet /\ p \in Int \X Int
      BY <2>1
    <3>2. x0 <= b.x0 /\ y0 <= b.y0 /\ b.x1 <= x1 /\ b.y1 <= y1
      BY <1>13
    <3>3. b.x0 \in Int /\ b.y0 \in Int /\ b.x1 \in Int /\ b.y1 \in Int /\ p[1] \in Int /\ p[2] \in Int
      BY <3>1 DEF BoxSet
    <3> QED
      BY <2>2, <3>1, <3>2, <3>3, SMTT(30) DEF Covers
  <2>4. Spanned(ib, ink)
    BY <1>7 DEF ib
  <2> QED
    BY <2>3, <2>4 DEF Spanned
<1>16. /\ x0 \in Int /\ y0 \in Int /\ x1 \in Int /\ y1 \in Int
  BY <1>3, <1>13 DEF BoxSet
<1> DEFINE hull == [x0 |-> x0, y0 |-> y0, x1 |-> x1, y1 |-> y1]
<1>17. ~mirrored => hull = Box(ink)
  <2> SUFFICES ASSUME ~mirrored PROVE hull = Box(ink)
    OBVIOUS
  <2>1. x0 = ib.x0 /\ y0 = ib.y0 /\ x1 = ib.x1 /\ y1 = ib.y1
    BY <1>12, <1>14, <1>15, <1>16
  <2> QED
    BY <1>7, <1>12, <2>1
<1>18. /\ hull.x0 >= Min(PX) /\ hull.y0 >= Min(PY) /\ hull.x1 <= Max(PX) /\ hull.y1 <= Max(PY)
  BY <1>12, <1>14, <1>16
<1>19. SizeAndInk(hull, ink, mirrored)
  BY <1>17, <1>18 DEF SizeAndInk, PX, PY
<1>20. HullOf(all) = hull /\ InkOf(inked, chosen) = ink
  BY DEF ink, those, x0, y0, x1, y1, X0, Y0, X1, Y1, HullOf, InkOf
<1> QED
  BY <1>19, <1>20

\* Without a size there is no extent.
LEMMA NothingMissed ==
  ASSUME NEW boxes, NEW inked, NEW pages \in SUBSET (1 .. PageNums),
         Measured(boxes, inked, FALSE, pages), NEW chosen, chosen \subseteq pages,
         NEW all, \A b : b \in all <=> \E p \in chosen : b \in boxes[p],
         all = {} \/ ~(HullOf(all).x1 > HullOf(all).x0 \/ HullOf(all).y1 > HullOf(all).y0)
  PROVE  \A p, q \in InkOf(inked, chosen) : p = q
<1>1. /\ inked \subseteq pages \X (Int \X Int)
      /\ \A q \in chosen : IsFiniteSet(boxes[q]) /\ \A b \in boxes[q] : b \in BoxSet
      /\ \A v \in inked : \E b \in boxes[v[1]] : Covers(b, v[2])
  BY DEF Measured
<1>2. \A p \in InkOf(inked, chosen) : p \in Int \X Int /\ \E b \in all : Covers(b, p)
  <2> SUFFICES ASSUME NEW v \in inked, v[1] \in chosen
               PROVE  v[2] \in Int \X Int /\ \E b \in all : Covers(b, v[2])
    BY DEF InkOf
  <2> QED
    BY <1>1
<1>3. CASE all = {}
  BY <1>2, <1>3
<1>4. CASE all # {}
  <2>1. IsFiniteSet(all) /\ all \subseteq BoxSet
    <3>1. IsFiniteSet(chosen)
      <4>1. PageNums \in Nat
        BY DielineAssumption DEF DielineAssumption
      <4>2. IsFiniteSet(1 .. PageNums) /\ chosen \in SUBSET (1 .. PageNums)
        BY <4>1, FS_Interval
      <4> QED
        BY <4>2, FS_Subset
    <3>2. \A p \in chosen : IsFiniteSet(boxes[p])
      BY <1>1
    <3>3. \A b : b \in all <=> \E p \in chosen : b \in boxes[p]
      OBVIOUS
    <3> QED
      BY <1>1, <3>1, <3>2, <3>3, PagesFinite
  <2> DEFINE x0 == Min({b.x0 : b \in all})
             y0 == Min({b.y0 : b \in all})
             x1 == Max({b.x1 : b \in all})
             y1 == Max({b.y1 : b \in all})
  <2>2. /\ \E b \in all : x0 = b.x0 /\ \A c \in all : x0 <= c.x0
        /\ \E b \in all : y0 = b.y0 /\ \A c \in all : y0 <= c.y0
        /\ \E b \in all : x1 = b.x1 /\ \A c \in all : c.x1 <= x1
        /\ \E b \in all : y1 = b.y1 /\ \A c \in all : c.y1 <= y1
    BY <1>4, <2>1, EdgesOf
  <2>3. ~(x1 > x0 \/ y1 > y0)
    BY <1>4 DEF HullOf
  <2> HIDE DEF x0, y0, x1, y1
  <2>4. x0 \in Int /\ y0 \in Int /\ x1 \in Int /\ y1 \in Int
    BY <2>1, <2>2 DEF BoxSet
  <2>5. ASSUME NEW p \in InkOf(inked, chosen)
        PROVE  p \in Int \X Int /\ p[1] = x0 /\ p[2] = y0
    <3>1. PICK b \in all : Covers(b, p)
      BY <1>2
    <3>2. /\ p \in Int \X Int /\ p[1] \in Int /\ p[2] \in Int
          /\ b.x0 \in Int /\ b.y0 \in Int /\ b.x1 \in Int /\ b.y1 \in Int
      BY <1>2, <2>1, <3>1 DEF BoxSet
    <3>3. x0 <= b.x0 /\ y0 <= b.y0 /\ b.x1 <= x1 /\ b.y1 <= y1
      BY <2>2, <3>1
    <3> QED
      BY <2>3, <2>4, <3>1, <3>2, <3>3 DEF Covers
  <2> QED
    BY <2>5
<1> QED
  BY <1>3, <1>4

-----------------------------------------------------------------------------
(* The invariant.                                                          *)

ScanFields == {"pc", "page", "ops", "at", "boxes", "inked", "mirrored", "displaced", "folded",
               "candidates"}
\* A candidate is of a page, or of none, and sure to some degree.
Plausible(candidates) == \A c \in candidates : c.page \in 0 .. PageNums /\ c.confidence \in 1 .. 100

DielineInv ==
  /\ scan.pc \in {"named", "page", "detect", "detected"}
  /\ scan.pc \in {"page", "detect"} => DOMAIN scan = ScanFields /\ Plausible(scan.candidates)
  /\ scan.pc = "page" =>
       /\ scan.page \in 1 .. PageNums /\ DOMAIN scan.boxes = 1 .. scan.page
       /\ Walked(scan.at)
       /\ scan.displaced \subseteq 1 .. scan.page - 1
       /\ Gauged(scan.boxes, scan.inked, scan.mirrored, scan.displaced, 1 .. scan.page - 1)
  /\ scan.pc = "detect" =>
       /\ scan.displaced \subseteq 1 .. PageNums
       /\ Gauged(scan.boxes, scan.inked, scan.mirrored, scan.displaced, 1 .. PageNums)
  /\ SizeOfInk

LEMMA StepKeeps ==
  ASSUME DielineInv, NEW at, Walked(at), Step(at)
  PROVE  DielineInv'
<1>1. /\ scan.pc = "page" /\ DOMAIN scan = ScanFields /\ scan' = [scan EXCEPT !.ops = @ + 1, !.at = at]
  BY DEF Step, DielineInv
<1>2. /\ scan'.pc = "page" /\ scan'.at = at /\ scan'.page = scan.page /\ scan'.boxes = scan.boxes
      /\ scan'.inked = scan.inked /\ scan'.mirrored = scan.mirrored
      /\ scan'.displaced = scan.displaced
      /\ scan'.candidates = scan.candidates /\ DOMAIN scan' = ScanFields
  BY <1>1 DEF ScanFields
<1> QED
  BY <1>1, <1>2 DEF DielineInv, SizeOfInk

LEMMA SignalsPlausible ==
  ASSUME NEW page \in 1 .. PageNums, NEW at
  PROVE  Plausible(SignalCandidates(page, at))
<1>1. PageNums \in Nat
  BY DielineAssumption DEF DielineAssumption
<1>2. \A n \in 0 .. 20 : LeastOf(90, 80 + n) \in 1 .. 100 /\ LeastOf(95, 95 + n) \in 1 .. 100
  BY DEF LeastOf
<1> SUFFICES ASSUME NEW c \in SignalCandidates(page, at)
             PROVE  c.page \in 0 .. PageNums /\ c.confidence \in 1 .. 100
  BY DEF Plausible
<1>3. c.page = page /\ c.confidence \in 1 .. 100
  <2> DEFINE more(yes, gain) == IF yes THEN gain ELSE 0
             n == at.count
             fold == LeastOf(90, 80 + more(n.thin >= 1, 10))
             cut == LeastOf(95, 95 + more(n.thin >= Calibration.thin, 5) + more(n.dash >= 1, 5))
  <2>1. fold \in 1 .. 100 /\ cut \in 1 .. 100
    BY DEF LeastOf
  <2>2. \/ c = Candidate("marked", page, 92)
        \/ c = Candidate("fold", page, fold)
        \/ c = Candidate("cut", page, cut)
    <3> HIDE DEF fold, cut
    <3>1. SignalCandidates(page, at) \subseteq
            {Candidate("marked", page, 92), Candidate("fold", page, fold), Candidate("cut", page, cut)}
      <4>1. \A S, T, U, a, b, d : S \subseteq {a} /\ T \subseteq {b} /\ U \subseteq {d}
                                    => ((S \union T) \union U) \subseteq {a, b, d}
        OBVIOUS
      <4> DEFINE foldLike == n.dash >= Calibration.foldDash /\ n.stroke >= Calibration.foldStroke
                 dielineLike == /\ n.stroke >= Calibration.stroke /\ n.path >= Calibration.path
                                /\ n.fill <= Max({1, n.stroke \div 4})
                                /\ \/ n.thin >= Calibration.thin
                                   \/ n.dash >= Calibration.foldDash - 1
                 S == {Candidate("marked", page, 92) : m \in {m \in {TRUE} : at.marked}}
                 T == {Candidate("fold", page, fold) : f \in {f \in {TRUE} : foldLike}}
                 U == {Candidate("cut", page, cut) : d \in {d \in {TRUE} : dielineLike}}
      <4>2. SignalCandidates(page, at) = (S \union T) \union U
        BY DEF SignalCandidates, fold, cut
      <4>3. S \subseteq {Candidate("marked", page, 92)}
        OBVIOUS
      <4>4. T \subseteq {Candidate("fold", page, fold)}
        OBVIOUS
      <4>5. U \subseteq {Candidate("cut", page, cut)}
        OBVIOUS
      <4> HIDE DEF S, T, U
      <4> QED
        BY <4>1, <4>2, <4>3, <4>4, <4>5
    <3> QED
      BY <3>1
  <2> HIDE DEF fold, cut
  <2> QED
    BY <2>1, <2>2 DEF Candidate
<1> QED
  BY <1>1, <1>3

LEMMA PageKeeps ==
  ASSUME DielineInv, EndPage
  PROVE  DielineInv'
<1> DEFINE p == scan.page
           inked == scan.inked \union ({p} \X scan.at.inked)
           turned == scan.mirrored \/ scan.at.mirrored
           displaced == scan.displaced \union {q \in {p} : scan.at.displaced}
           folded == scan.folded \union
                       {q \in {p} : /\ scan.at.dashes >= Calibration.foldDash
                                   /\ scan.at.count.stroke >= Calibration.foldStroke}
           candidates == scan.candidates \union SignalCandidates(p, scan.at)
           boxes == [scan.boxes EXCEPT ![p] = scan.at.out]
           seen == [scan EXCEPT !.candidates = candidates, !.boxes = boxes, !.inked = inked,
                                !.mirrored = turned, !.displaced = displaced, !.folded = folded]
           wider == [q \in 1 .. p + 1 |-> IF q <= p THEN boxes[q] ELSE {}]
<1>1. /\ scan.pc = "page" /\ DOMAIN scan = ScanFields /\ Plausible(scan.candidates)
      /\ p \in 1 .. PageNums /\ DOMAIN scan.boxes = 1 .. p /\ Walked(scan.at)
      /\ scan.displaced \subseteq 1 .. p - 1
      /\ Gauged(scan.boxes, scan.inked, scan.mirrored, scan.displaced, 1 .. p - 1)
  BY DEF EndPage, DielineInv
<1>2. PageNums \in Nat /\ p \in Nat \ {0}
  BY <1>1, DielineAssumption DEF DielineAssumption
<1>3. Plausible(candidates)
  BY <1>1, SignalsPlausible DEF Plausible
<1>4. boxes[p] = scan.at.out /\ \A q \in 1 .. p - 1 : boxes[q] = scan.boxes[q]
  BY <1>1, <1>2
<1>5. wider[p] = scan.at.out /\ \A q \in 1 .. p - 1 : wider[q] = scan.boxes[q]
  BY <1>2, <1>4
<1>6. DOMAIN wider = 1 .. p + 1
  OBVIOUS
<1> HIDE DEF boxes, wider, candidates
<1>7. /\ Gauged(boxes, inked, turned, displaced, 1 .. p)
      /\ Gauged(wider, inked, turned, displaced, 1 .. p)
      /\ displaced \subseteq 1 .. p
  <2> DEFINE at == scan.at
             before == scan.boxes
             ink == scan.inked
             mirrored == scan.mirrored
             away == scan.displaced
  <2>1. /\ p \in Nat \ {0} /\ Walked(at) /\ Gauged(before, ink, mirrored, away, 1 .. p - 1)
        /\ away \subseteq 1 .. p - 1
        /\ Appended(boxes, before, 1 .. p - 1, p, at) /\ Appended(wider, before, 1 .. p - 1, p, at)
    BY <1>1, <1>2, <1>4, <1>5 DEF Appended
  <2>2. inked = Joined(ink, p, at) /\ turned = Turned(mirrored, at)
        /\ displaced = away \union {q \in {p} : at.displaced}
    BY DEF Joined, Turned
  <2> HIDE DEF p, at, before, inked, turned, ink, mirrored, away, displaced
  <2> QED
    BY <2>1, <2>2, PageGauged
<1>8. turned \in BOOLEAN
  BY <1>7 DEF Gauged
<1> HIDE DEF inked, turned, displaced, folded
<1>9. /\ DOMAIN seen = ScanFields /\ seen.pc = "page" /\ seen.page = p /\ seen.candidates = candidates
      /\ seen.boxes = boxes /\ seen.inked = inked /\ seen.mirrored = turned
      /\ seen.displaced = displaced
  BY <1>1 DEF ScanFields
<1>10. scan' = IF p < PageNums
               THEN [seen EXCEPT !.page = p + 1, !.at = FreshPage,
                                 !.boxes = [q \in 1 .. p + 1 |-> IF q <= p THEN seen.boxes[q] ELSE {}]]
               ELSE [seen EXCEPT !.pc = "detect"]
  BY DEF EndPage, inked, turned, candidates, boxes, displaced, folded
<1> HIDE DEF seen
<1>11. wider = [q \in 1 .. p + 1 |-> IF q <= p THEN seen.boxes[q] ELSE {}]
  BY <1>9 DEF wider
<1>12. CASE p < PageNums
  <2>1. scan' = [seen EXCEPT !.page = p + 1, !.at = FreshPage, !.boxes = wider]
    BY <1>10, <1>11, <1>12
  <2>2. /\ scan'.pc = "page" /\ scan'.page = p + 1 /\ scan'.at = FreshPage /\ scan'.boxes = wider
        /\ scan'.inked = inked /\ scan'.mirrored = turned /\ scan'.candidates = candidates
        /\ scan'.displaced = displaced /\ DOMAIN scan' = ScanFields
    BY <1>9, <2>1 DEF ScanFields
  <2>3. p + 1 \in 1 .. PageNums /\ (p + 1) - 1 = p
    BY <1>2, <1>12
  <2> HIDE DEF p
  <2> QED
    BY <1>3, <1>6, <1>7, <2>2, <2>3, FreshWalked DEF DielineInv, SizeOfInk
<1>13. CASE ~(p < PageNums)
  <2>1. p = PageNums
    BY <1>1, <1>2, <1>13
  <2>2. scan' = [seen EXCEPT !.pc = "detect"]
    BY <1>10, <1>13
  <2>3. /\ scan'.pc = "detect" /\ scan'.boxes = boxes
        /\ scan'.inked = inked /\ scan'.mirrored = turned /\ scan'.candidates = candidates
        /\ scan'.displaced = displaced /\ DOMAIN scan' = ScanFields
    BY <1>9, <2>2 DEF ScanFields
  <2>4. Gauged(boxes, inked, turned, displaced, 1 .. PageNums) /\ displaced \subseteq 1 .. PageNums
    BY <1>7, <2>1
  <2> QED
    BY <1>3, <2>3, <2>4 DEF DielineInv, SizeOfInk
<1> QED
  BY <1>12, <1>13

LEMMA DetectKeeps ==
  ASSUME DielineInv, DetectDieline
  PROVE  DielineInv'
<1> DEFINE V == {c.confidence : c \in scan.candidates}
           overall == IF scan.candidates = {} THEN 0 ELSE Max(V)
           chosen == Selected(scan.candidates)
           size == EstimateSize(scan.candidates, scan.boxes, overall)
           bare == scan.candidates = {} /\ size.available
           all == UNION {scan.boxes[p] : p \in chosen}
           hull == [x0 |-> Min({b.x0 : b \in all}), y0 |-> Min({b.y0 : b \in all}),
                    x1 |-> Max({b.x1 : b \in all}), y1 |-> Max({b.y1 : b \in all})]
           ink == {v[2] : v \in {v \in scan.inked : v[1] \in chosen}}
<1>1. /\ scan.pc = "detect" /\ Plausible(scan.candidates)
      /\ Gauged(scan.boxes, scan.inked, scan.mirrored, scan.displaced, 1 .. PageNums)
  BY DEF DetectDieline, DielineInv
<1>2. scan.candidates # {} => overall \in 1 .. 100
  <2> SUFFICES ASSUME scan.candidates # {} PROVE Max(V) \in 1 .. 100
    OBVIOUS
  <2>1. V \subseteq 1 .. 100 /\ V # {}
    BY <1>1 DEF Plausible
  <2> HIDE DEF V
  <2>2. IsFiniteSet(1 .. 100)
    <3>1. 1 \in Int /\ 100 \in Int
      OBVIOUS
    <3> QED
      BY <3>1, FS_Interval
  <2>3. V \in SUBSET (1 .. 100)
    BY <2>1
  <2>4. IsFiniteSet(V)
    BY <2>2, <2>3, FS_Subset
  <2> DEFINE f == [v \in V |-> v]
  <2>5. f \in [V -> Int] /\ V = {f[v] : v \in V}
    <3>1. \A v \in V : v \in Int /\ f[v] = v
      BY <2>1
    <3>2. f \in [V -> Int]
      BY <3>1
    <3> HIDE DEF f
    <3> QED
      BY <3>1, <3>2
  <2> HIDE DEF f
  <2>6. Max(V) \in V
    BY <2>1, <2>4, <2>5, ExtremesOf
  <2> QED
    BY <2>1, <2>6
<1>3. chosen \subseteq 1 .. PageNums
  <2>1. PageNums \in Nat
    BY DielineAssumption DEF DielineAssumption
  <2> QED
    BY <1>1, <2>1 DEF Selected, Plausible
<1> HIDE DEF chosen, overall
<1>4. scan.displaced \cap chosen = {} =>
        /\ all # {} => SizeAndInk(hull, ink, scan.mirrored)
        /\ ~scan.mirrored /\ (all = {} \/ ~(hull.x1 > hull.x0 \/ hull.y1 > hull.y0))
             => \A p, q \in ink : p = q
  <2> SUFFICES ASSUME scan.displaced \cap chosen = {}
               PROVE  /\ all # {} => SizeAndInk(hull, ink, scan.mirrored)
                      /\ ~scan.mirrored /\ (all = {} \/ ~(hull.x1 > hull.x0 \/ hull.y1 > hull.y0))
                           => \A p, q \in ink : p = q
    OBVIOUS
  <2> DEFINE boxes == scan.boxes
             inked == InPlaceInk(scan.inked, scan.displaced)
             mirrored == scan.mirrored
             pages == (1 .. PageNums) \ scan.displaced
  <2>1. hull = HullOf(all) /\ ink = InkOf(inked, chosen)
    <3>1. {v \in scan.inked : v[1] \in chosen} = {v \in inked : v[1] \in chosen}
      BY DEF InPlaceInk
    <3> QED
      BY <3>1 DEF HullOf, InkOf
  <2>2. \A b : b \in all <=> \E p \in chosen : b \in boxes[p]
    OBVIOUS
  <2>3. Measured(boxes, inked, mirrored, pages) /\ mirrored \in BOOLEAN
    BY <1>1 DEF Gauged
  <2>4. pages \in SUBSET (1 .. PageNums) /\ chosen \subseteq pages
    BY <1>3
  <2> HIDE DEF all, hull, ink, boxes, inked, mirrored, pages
  <2>5. all # {} => SizeAndInk(hull, ink, mirrored)
    BY <2>1, <2>2, <2>3, <2>4, SizeTrue
  <2>6. ASSUME ~mirrored, all = {} \/ ~(hull.x1 > hull.x0 \/ hull.y1 > hull.y0)
        PROVE  \A p, q \in ink : p = q
    <3>1. mirrored = FALSE
      BY <2>3, <2>6
    <3>2. Measured(boxes, inked, FALSE, pages)
      BY <2>3, <3>1
    <3>3. all = {} \/ ~(HullOf(all).x1 > HullOf(all).x0 \/ HullOf(all).y1 > HullOf(all).y0)
      BY <2>1, <2>6
    <3>4. \A v, w \in InkOf(inked, chosen) : v = w
      BY <2>2, <2>4, <3>2, <3>3, NothingMissed
    <3> QED
      BY <2>1, <3>4
  <2> QED
    BY <2>5, <2>6 DEF mirrored
<1>5. size = IF all = {} \/ ~(hull.x1 > hull.x0 \/ hull.y1 > hull.y0) THEN NoSize
             ELSE [available |-> TRUE, hull |-> hull, confidence |-> IF overall > 0 THEN overall ELSE 35]
  BY DEF EstimateSize, chosen
<1> HIDE DEF size, hull, ink
<1>6. size.available \in BOOLEAN /\
        (size.available => /\ all # {} /\ size.hull = hull
                           /\ size.confidence = IF overall > 0 THEN overall ELSE 35)
        /\ (~size.available => all = {} \/ ~(hull.x1 > hull.x0 \/ hull.y1 > hull.y0))
  BY <1>5 DEF NoSize
<1>7. scan' = [pc |-> "detected", size |-> size, inked |-> scan.inked, mirrored |-> scan.mirrored,
               displaced |-> scan.displaced, folded |-> scan.folded,
               candidates |-> IF bare THEN {Candidate("analysis_stroke_bbox", 0, size.confidence)}
                              ELSE scan.candidates,
               overall |-> IF bare THEN size.confidence ELSE overall,
               selected |-> chosen]
  BY DEF DetectDieline, size, overall, chosen
<1> HIDE DEF all
<1>8. /\ scan'.pc = "detected" /\ scan'.size = size /\ scan'.inked = scan.inked
      /\ scan'.mirrored = scan.mirrored /\ scan'.selected = chosen
      /\ scan'.displaced = scan.displaced
      /\ scan'.candidates = (IF bare THEN {Candidate("analysis_stroke_bbox", 0, size.confidence)}
                             ELSE scan.candidates)
      /\ scan'.overall = IF bare THEN size.confidence ELSE overall
  BY <1>7
<1>9. size.available => /\ scan'.candidates # {} /\ size.confidence = scan'.overall
                        /\ scan'.overall \in 1 .. 100
  <2>1. CASE scan.candidates = {}
    <3>1. overall = 0
      BY <2>1 DEF overall
    <3> QED
      BY <1>6, <1>8, <2>1, <3>1
  <2>2. CASE scan.candidates # {}
    BY <1>2, <1>6, <1>8, <2>2
  <2> QED
    BY <2>1, <2>2
<1>10. ink = {v[2] : v \in {v \in scan'.inked : v[1] \in scan'.selected}}
  BY <1>8 DEF ink
<1>11. SizeOfInk'
  <2>1. size.available /\ scan.displaced \cap chosen = {}
          => SizeAndInk(hull, ink, scan.mirrored) /\ size.hull = hull
    BY <1>4, <1>6
  <2>2. ~size.available /\ scan.displaced \cap chosen = {} /\ ~scan.mirrored
          => \A p, q \in ink : p = q
    BY <1>4, <1>6
  <2> HIDE DEF bare
  <2> QED
    BY <1>8, <1>9, <1>10, <2>1, <2>2 DEF SizeOfInk, SizeAndInk
<1> QED
  BY <1>8, <1>11 DEF DielineInv

LEMMA DielineInvHolds == DielineSpec => []DielineInv
<1>1. DielineInit => DielineInv
  BY DEF DielineInit, DielineInv, SizeOfInk
<1>2. DielineInv /\ [DielineNext]_dielineVars => DielineInv'
  <2> SUFFICES ASSUME DielineInv, [DielineNext]_dielineVars PROVE DielineInv'
    OBVIOUS
  <2> DEFINE at == scan.at
  <2>a. scan.pc = "page" => Walked(at)
    BY DEF DielineInv
  <2>b. \A new : Step(new) => scan.pc = "page"
    BY DEF Step
  <2>1. ASSUME NEW sources \in SUBSET DOMAIN NamedSources, NamedCandidates(sources) PROVE DielineInv'
    <3> DEFINE candidates == {Candidate(s, 0, NamedSources[s]) : s \in sources}
    <3>1. scan' = [pc |-> "page", page |-> 1, ops |-> 0, at |-> FreshPage, boxes |-> <<{}>>,
                   inked |-> {}, mirrored |-> FALSE, displaced |-> {}, folded |-> {},
                   candidates |-> candidates]
      BY <2>1 DEF NamedCandidates
    <3>2. Plausible(candidates)
      <4>1. PageNums \in Nat
        BY DielineAssumption DEF DielineAssumption
      <4>2. \A s \in sources : NamedSources[s] \in 1 .. 100
        BY DEF NamedSources
      <4>3. \A s \in sources : Candidate(s, 0, NamedSources[s]).page = 0
                              /\ Candidate(s, 0, NamedSources[s]).confidence = NamedSources[s]
        BY DEF Candidate
      <4> QED
        BY <4>1, <4>2, <4>3 DEF Plausible
    <3> HIDE DEF candidates
    <3>3. /\ scan'.pc = "page" /\ scan'.page = 1 /\ scan'.at = FreshPage /\ scan'.boxes = <<{}>>
          /\ scan'.inked = {} /\ scan'.mirrored = FALSE /\ scan'.candidates = candidates
          /\ scan'.displaced = {}
          /\ DOMAIN scan' = ScanFields
      BY <3>1 DEF ScanFields
    <3>4. Gauged(<<{}>>, {}, FALSE, {}, 1 .. 1 - 1)
      <4>1. InPlaceInk({}, {}) = {} /\ (1 .. 1 - 1) \ {} = {}
        BY DEF InPlaceInk
      <4>2. Measured(<<{}>>, {}, FALSE, {})
        BY FS_EmptySet DEF Measured
      <4> QED
        BY <4>1, <4>2 DEF Gauged, OnPages
    <3>5. 1 \in 1 .. PageNums /\ DOMAIN <<{}>> = 1 .. 1
      BY DielineAssumption DEF DielineAssumption
    <3> QED
      BY <3>2, <3>3, <3>4, <3>5, FreshWalked DEF DielineInv, SizeOfInk
  <2>2. ASSUME NEW p \in Points, MoveTo(p) PROVE DielineInv'
    <3> DEFINE c == Counted(at, "m", "path")
               s == Sealed(c)
               new == Drawn([s EXCEPT !.points = {p}], {p})
    <3>1. Step(new)
      BY <2>2 DEF MoveTo
    <3>2. Walked(c) /\ p \in Int \X Int
      BY <2>a, <2>b, <3>1, CountedWalked, DielineAssumption DEF DielineAssumption
    <3> HIDE DEF c
    <3>3. Walked(new)
      BY <3>2, MoveWalked
    <3> QED
      BY <3>1, <3>3, StepKeeps
  <2>3. ASSUME NEW p \in Points, LineTo(p) PROVE DielineInv'
    <3> DEFINE s == Counted(at, "l", "path")
               new == Drawn([s EXCEPT !.points = @ \union {p}], {p})
    <3>1. Step(new)
      BY <2>3 DEF LineTo
    <3>2. Walked(s) /\ p \in Int \X Int
      BY <2>a, <2>b, <3>1, CountedWalked, DielineAssumption DEF DielineAssumption
    <3> HIDE DEF s
    <3>3. Walked(new)
      BY <3>2, LineWalked
    <3> QED
      BY <3>1, <3>3, StepKeeps
  <2>4. ASSUME NEW r \in Rects, Rectangle(r) PROVE DielineInv'
    <3> DEFINE c == Counted(at, "re", "path")
               box == [x0 |-> r[1], y0 |-> r[2], x1 |-> r[1] + r[3], y1 |-> r[2] + r[4]]
               new == Drawn([Sealed(c) EXCEPT !.boxes = @ \union {box},
                                              !.mirrored = @ \/ r[3] < 0 \/ r[4] < 0],
                            BoxCorners(box))
    <3>1. Step(new)
      BY <2>4, Zenon DEF Rectangle
    <3>2. Walked(c) /\ r \in Int \X Int \X Int \X Int
      BY <2>a, <2>b, <3>1, CountedWalked, DielineAssumption DEF DielineAssumption
    <3> HIDE DEF c
    <3>3. Walked(new)
      BY <3>2, RectangleWalked, Zenon
    <3> HIDE DEF new
    <3> QED
      BY <3>1, <3>3, StepKeeps
  <2>5. ASSUME ClosePath \/ Dash \/ ThinLine PROVE DielineInv'
    <3>1. ASSUME NEW old, Walked(old), NEW op, NEW what, Step(Counted(old, op, what))
          PROVE  DielineInv'
      BY <3>1, CountedWalked, StepKeeps
    <3>2. CASE ClosePath
      BY <2>a, <2>b, <3>1, <3>2 DEF ClosePath
    <3>3. CASE ThinLine
      BY <2>a, <2>b, <3>1, <3>3 DEF ThinLine
    <3>4. CASE Dash
      <4> DEFINE old == [at EXCEPT !.dashes = @ + 1]
      <4>1. Step(Counted(old, "d", "dash"))
        BY <3>4 DEF Dash
      <4>2. Walked(at)
        BY <2>a, <2>b, <4>1
      <4>3. DOMAIN old = PageFields /\ \A f \in PageFields \ {"dashes"} : old[f] = at[f]
        BY <4>2 DEF Walked
      <4> HIDE DEF old
      <4>4. Walked(old)
        BY <4>2, <4>3, SameWalked DEF PageFields
      <4> QED
        BY <3>1, <4>1, <4>4
    <3> QED
      BY <2>5, <3>2, <3>3, <3>4
  <2>6. ASSUME Stroke \/ FillAndStroke PROVE DielineInv'
    <3>1. ASSUME NEW op, NEW what, Step(Painted(Counted(at, op, what))) PROVE DielineInv'
      BY <2>a, <2>b, <3>1, CountedWalked, PaintedWalked, StepKeeps
    <3> QED
      BY <2>6, <3>1 DEF Stroke, FillAndStroke
  <2>7. ASSUME Fill PROVE DielineInv'
    <3>1. Step(Dropped(Counted(at, "f", "fill")))
      BY <2>7 DEF Fill
    <3> QED
      BY <2>a, <2>b, <3>1, CountedWalked, DroppedWalked, StepKeeps
  <2>8. ASSUME EndPath PROVE DielineInv'
    <3>1. Step(Dropped(at))
      BY <2>8 DEF EndPath
    <3> QED
      BY <2>a, <2>b, <3>1, DroppedWalked, StepKeeps
  <2>9. ASSUME MarkedContent PROVE DielineInv'
    <3> DEFINE new == [at EXCEPT !.marked = TRUE]
    <3>1. Step(new)
      BY <2>9 DEF MarkedContent
    <3>2. Walked(new)
      <4>1. Walked(at)
        BY <2>a, <2>b, <3>1
      <4>2. /\ DOMAIN new = PageFields
            /\ \A field \in PageFields \ {"marked"} : new[field] = at[field]
        BY <4>1 DEF Walked
      <4> HIDE DEF new
      <4> QED
        BY <4>1, <4>2, SameWalked DEF PageFields
    <3> QED
      BY <3>1, <3>2, StepKeeps
  <2>10. ASSUME EndPage PROVE DielineInv'
    BY <2>10, PageKeeps
  <2>11. ASSUME DetectDieline PROVE DielineInv'
    BY <2>11, DetectKeeps
  <2>13. ASSUME Save \/ Restore \/ \E m \in Matrices : Concat(m) PROVE DielineInv'
    <3>1. PICK ctm, saved : Step([at EXCEPT !.ctm = ctm, !.saved = saved])
      <4>1. CASE Save
        <5> DEFINE saved == Append(at.saved, at.ctm)
        <5>1. Step([at EXCEPT !.saved = saved])
          BY <4>1 DEF Save
        <5>2. [at EXCEPT !.saved = saved] = [at EXCEPT !.ctm = at.ctm, !.saved = saved]
          BY <2>a, <2>b, <5>1 DEF Walked, PageFields
        <5> QED
          BY <5>1, <5>2
      <4>2. CASE Restore
        <5>1. Step([at EXCEPT !.ctm = Last(at.saved), !.saved = Front(at.saved)])
          BY <2>a, <4>2 DEF Restore, Walked, PageFields
        <5> QED
          BY <5>1
      <4>3. ASSUME NEW m \in Matrices, Concat(m)
            PROVE  \E ctm, saved : Step([at EXCEPT !.ctm = ctm, !.saved = saved])
        <5> DEFINE ctm == Product(m, at.ctm)
        <5>1. Step([at EXCEPT !.ctm = ctm])
          BY <4>3 DEF Concat
        <5>2. [at EXCEPT !.ctm = ctm] = [at EXCEPT !.ctm = ctm, !.saved = at.saved]
          BY <2>a, <2>b, <5>1 DEF Walked, PageFields
        <5> QED
          BY <5>1, <5>2
      <4> QED
        BY <2>13, <4>1, <4>2, <4>3
    <3> DEFINE new == [at EXCEPT !.ctm = ctm, !.saved = saved]
    <3>2. Walked(at)
      BY <2>a, <2>b, <3>1
    <3>3. DOMAIN new = PageFields /\ \A f \in PageFields \ {"ctm", "saved"} : new[f] = at[f]
      BY <3>2 DEF Walked, PageFields
    <3> HIDE DEF new
    <3>4. Walked(new)
      BY <3>2, <3>3, SameWalked DEF PageFields
    <3> QED
      BY <3>1, <3>4, StepKeeps DEF new
  <2>14. ASSUME NEW p \in Points, DoForm(p) PROVE DielineInv'
    <3> DEFINE ink == at.inked \union {Placed(at.ctm, p)}
               new == [at EXCEPT !.inked = ink, !.displaced = TRUE]
    <3>1. Step(new)
      BY <2>14 DEF DoForm
    <3>2. Walked(at)
      BY <2>a, <2>b, <3>1
    <3> HIDE DEF ink
    <3>3. DOMAIN new = PageFields /\ new.displaced = TRUE /\ new.mirrored = at.mirrored
      BY <3>2 DEF Walked, PageFields
    <3> HIDE DEF new
    <3>4. Walked(new)
      BY <3>2, <3>3 DEF Walked
    <3> QED
      BY <3>1, <3>4, StepKeeps
  <2>12. CASE UNCHANGED dielineVars
    BY <2>12 DEF dielineVars, DielineInv, SizeOfInk
  <2> QED
    BY <2>1, <2>2, <2>3, <2>4, <2>5, <2>6, <2>7, <2>8, <2>9, <2>10, <2>11, <2>12, <2>13,
       <2>14 DEF DielineNext
<1> QED
  BY <1>1, <1>2, PTL DEF DielineSpec

\* Where no chosen page draws under a matrix or invokes a form, the size the detector gives is
\* that of the ink of the pages it chose, whatever their operators, in any order and number,
\* and it is missing only where there is no extent; it always comes with a candidate.
THEOREM SizeIsOfInk == DielineSpec => []SizeOfInk
<1>1. DielineInv => SizeOfInk
  BY DEF DielineInv
<1> QED
  BY <1>1, DielineInvHolds, PTL
=============================================================================
