----------------------------- MODULE SparseFields -----------------------------
(***************************************************************************)
(* One extract with an X-Codex-Fields header: which passes run for the     *)
(* fields asked, how their results are assembled into a CodexDocument, the *)
(* AI kinds, and the projection of the payload on the fields.  A value is  *)
(* the set of passes whose result it carries, so that the sparse payload   *)
(* can be compared with the full one, field by field.                      *)
(***************************************************************************)

CONSTANTS AskedFields,      \* the field sets callers send, {} for no header
          Failures          \* the sets of passes that may raise in one extract

(* Passes over PyMuPDF and over pikepdf, and the text-region pass.         *)
Fitz == {"structure", "fonts", "images", "annotations", "inventory", "transparency"}
Pikepdf == {"color", "ocgs", "forms", "signals"}
AiGroups == {"classification", "language", "barcodes", "logos", "symbols", "spell", "trap_zones"}
Runs == Fitz \union Pikepdf \union AiGroups \union {"text_regions"}

Structural == {"pdf_version", "is_encrypted", "is_linearized", "conformance", "info", "xmp",
               "trapped_flag"}
AiFieldOf == [classification |-> "document_classification", language |-> "detected_language",
              barcodes |-> "detected_barcodes", logos |-> "detected_logos",
              symbols |-> "detected_symbols", spell |-> "spell_candidates",
              trap_zones |-> "trap_zone_candidates"]
PageSubfields == {"inventory", "transparency_tree"}
                   \union {AiFieldOf[g] : g \in AiGroups \ {"classification"}}
AlwaysInclude == {"schema_version", "codex_version", "document_id", "source", "pdf_sha256",
                  "extraction_warnings", "stage_durations_ms", "preflight_reports",
                  "conformance_verdicts", "ai_status"}

(* FIELD_EXTRACTOR_GROUPS.                                                 *)
Fields == Structural
  \union {"trap_evidence", "pages", "fonts", "images", "annotations", "inventory", "ocgs",
          "output_intents", "color_spaces", "spot_colors", "icc_profiles", "transparency_tree",
          "form_xobjects", "analysis", "summary"}
  \union {AiFieldOf[g] : g \in AiGroups}
FieldGroups == [f \in Fields |->
  CASE f \in Structural \union {"trap_evidence", "pages"} -> {"structure"}
    [] f \in {"fonts", "images", "annotations", "inventory", "ocgs"} -> {f}
    [] f \in {"output_intents", "color_spaces", "spot_colors", "icc_profiles"} -> {"color"}
    [] f = "transparency_tree" -> {"transparency"}
    [] f = "form_xobjects" -> {"forms"}
    [] f = "analysis" -> {"signals"}
    [] OTHER -> {g \in AiGroups : AiFieldOf[g] = f}]

ASSUME SparseAssumption == /\ \A fs \in AskedFields : fs \subseteq Fields \union {"findings"}
                           /\ \A failed \in Failures : failed \subseteq Runs

ResolveGroups(fields) == UNION {FieldGroups[f] : f \in fields \intersect Fields}
ResolveAiKinds(fields) == ResolveGroups(fields) \intersect AiGroups

(* What a pass that has run and not raised gives; a page's parts only with *)
(* the pages of the structure pass.                                        *)
DielinePasses == {"ocgs", "signals"}
PayloadFields == (Fields \ {"spot_colors"}) \union {"findings"} \union AlwaysInclude
Assembled(ok) ==
  LET onPages(p) == IF "structure" \in ok THEN {p} \intersect ok ELSE {}
  IN  [f \in PayloadFields |->
        CASE f \in Structural -> {"structure"} \intersect ok
          [] f \in {"fonts", "images", "annotations", "ocgs"} -> {f} \intersect ok
          [] f \in {"output_intents", "color_spaces"} -> {"color"} \intersect ok
          [] f = "form_xobjects" -> {"forms"} \intersect ok
          [] f = "analysis" -> {"signals"} \intersect ok
          [] f = "trap_evidence" -> {"structure", "ocgs", "annotations"} \intersect ok
          [] f = "summary" -> ({"structure", "fonts", "images", "color"} \union DielinePasses)
                                \intersect ok
          [] f = "pages" -> onPages("structure") \union onPages("text_regions")
          [] f = "inventory" -> onPages("inventory")
          [] f = "transparency_tree" -> onPages("transparency")
          [] f = "findings" -> ({"images", "annotations"} \union DielinePasses) \intersect ok
          [] OTHER -> {}]

(* extract_document runs every pass; extract_document_sparse always those  *)
(* over PyMuPDF, and those over pikepdf whose group is asked for;          *)
(* assemble_codex_document, for both, the text regions too.                *)
ExtractDocument(failed) == Assembled((Runs \ AiGroups) \ failed)

(* A mutant: the passes over PyMuPDF are chosen by the fields as well.     *)
ExtractDocumentOnly(fields, failed) ==
  Assembled((((Fitz \union Pikepdf) \intersect ResolveGroups(fields)) \union {"text_regions"})
              \ failed)

ExtractDocumentSparse(fields, failed) ==
  Assembled((Fitz \union (Pikepdf \intersect ResolveGroups(fields)) \union {"text_regions"})
              \ failed)

(* run_signals_on_document: the lane's results, onto the pages there are.  *)
WithSignals(payload, kinds, failed) ==
  [f \in DOMAIN payload |->
     LET got == {g \in kinds \ failed : AiFieldOf[g] = f}
     IN  IF f \in PageSubfields /\ "structure" \in failed THEN payload[f]
         ELSE payload[f] \union got]

Effective(fields) == IF "spot_colors" \in fields
                     THEN (fields \ {"spot_colors"}) \union {"color_spaces"} ELSE fields
FilterDocumentPayload(payload, fields) ==
  LET wanted == Effective(fields)
      pages == IF wanted \intersect (PageSubfields \union {"pages"}) # {} THEN {"pages"} ELSE {}
      keys == AlwaysInclude \union wanted \union pages
  IN  [f \in DOMAIN payload \intersect keys |-> payload[f]]

VARIABLE sparse
sparseVars == <<sparse>>

SparseInit == sparse = [pc |-> "header"]

ParseFieldsHeader(fields) ==
  /\ sparse.pc = "header"
  /\ sparse' = [pc |-> "extract", fields |-> fields]

(* The same passes raise for the sparse extract as would for the full one. *)
Extract(failed) ==
  /\ sparse.pc = "extract"
  /\ sparse' = [pc |-> "signals", fields |-> sparse.fields, failed |-> failed,
                payload |-> IF sparse.fields = {} THEN ExtractDocument(failed)
                            ELSE ExtractDocumentSparse(sparse.fields, failed)]

(* The AI lane, if its gate is open: all kinds, those asked for, or none.  *)
RunSignals(runnable) ==
  /\ sparse.pc = "signals"
  /\ LET kinds == IF sparse.fields = {} THEN AiGroups ELSE ResolveAiKinds(sparse.fields)
     IN  sparse' = [pc |-> "filter", fields |-> sparse.fields, failed |-> sparse.failed,
                    runnable |-> runnable,
                    payload |-> IF runnable THEN WithSignals(sparse.payload, kinds, sparse.failed)
                                ELSE sparse.payload]

Project ==
  /\ sparse.pc = "filter"
  /\ sparse' = [sparse EXCEPT !.pc = "answered",
       !.payload = IF sparse.fields = {} THEN @ ELSE FilterDocumentPayload(@, sparse.fields)]

SparseNext ==
  \/ \E fields \in AskedFields : ParseFieldsHeader(fields)
  \/ \E failed \in Failures : Extract(failed)
  \/ \E runnable \in BOOLEAN : RunSignals(runnable)
  \/ Project

SparseSpec == SparseInit /\ [][SparseNext]_sparseVars

(***************************************************************************)
(* Properties.                                                             *)
(***************************************************************************)

(* The sparse answer is a projection of the full one: each field asked for *)
(* carries what it carries there, whichever passes raised, and no field    *)
(* that was neither asked for nor always sent comes along, but the pages   *)
(* of a part asked for.  Not so the fields derived from others: summary    *)
(* and findings, and the trap evidence, whose layers come from the OCG     *)
(* names the table does not list for it: those may carry less.             *)
SparseAgrees ==
  sparse.pc = "answered" /\ sparse.fields # {} =>
    LET full == IF sparse.runnable
                THEN WithSignals(ExtractDocument(sparse.failed), AiGroups, sparse.failed)
                ELSE ExtractDocument(sparse.failed)
        wanted == Effective(sparse.fields)
    IN  /\ wanted \subseteq DOMAIN sparse.payload
        /\ \A f \in DOMAIN sparse.payload :
             /\ \/ f \in wanted \union AlwaysInclude
                \/ f = "pages" /\ wanted \intersect PageSubfields # {}
             /\ IF f \in {"summary", "findings", "trap_evidence"}
                THEN sparse.payload[f] \subseteq full[f]
                ELSE sparse.payload[f] = full[f]
=============================================================================
