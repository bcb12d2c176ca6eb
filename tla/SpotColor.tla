------------------------------ MODULE SpotColor ------------------------------
(***************************************************************************)
(* The colour of a spot ink: what extraction finds in the document         *)
(* (extract/color.py, color/alt_space.py), the ladder that turns a name    *)
(* and that intent into a swatch (color/resolver.py, color/pantone.py),    *)
(* the summary's list of inks (extract/summary.py) and /v1/color/resolve.  *)
(*                                                                         *)
(* Requests run in a thread pool and share the estimates of the language   *)
(* model, an lru_cache that lives as long as the process.  A colour is a   *)
(* tuple of integers, Full standing for 1.0; a converted colour is what it *)
(* was converted from; None is <<>>.                                       *)
(***************************************************************************)
EXTENDS TintFunctions, FiniteSets, Selections

CONSTANTS
    SpotWorkers,
    SpotDocs,        \* documents: the named spaces of each page, and names found by analysis
    NamedSpaces,     \* the spaces of those pages, under their resource names
    ColorBodies,     \* bodies of /v1/color/resolve
    InkNames,
    Lowered,         \* str.lower of a name
    PantoneKey,      \* normalize_pantone_name
    AlternateKey,    \* alternate_pantone_key: <<>> or the one key
    Catalogue,       \* the bundled reference: keys to entries
    CuratedInks,     \* names that contain a curated token
    EstimateSlots,   \* maxsize of the lru_cache
    MaxColorJobs     \* bound on requests

ASSUME SpotAssumption == EstimateSlots \in Nat \ {0}

ASSUME DocAssumption ==
    /\ \A doc \in SpotDocs : doc.pages \in Seq(Seq(NamedSpaces)) /\ doc.analysis \in Seq(InkNames)
    /\ \A entry \in NamedSpaces :
          /\ entry.space.family = "Separation" =>
                /\ entry.space.names \in Seq(InkNames) /\ Len(entry.space.names) = 1
                /\ entry.space.fn \in Transforms
          /\ entry.space.family = "DeviceN" => entry.space.names \in Seq(InkNames \cup {"All", "None"})

VARIABLES
    estimates,   \* the lru_cache, oldest first: <<name, Lab or None>>
    aiEnabled,   \* CODEX_AI_ENABLED and a key
    painter,     \* what each worker is doing
    colorJobs,   \* requests so far, for the bound
    calls,       \* history: calls to the model by name
    excused      \* history: names evicted, or asked for by two workers at once

spotVars == <<estimates, aiEnabled, painter, colorJobs, calls, excused>>

Intent(rgb, lab, cmyk, pantone) == [rgb |-> rgb, lab |-> lab, cmyk |-> cmyk, pantone |-> pantone]
NoIntent == Intent(<<>>, <<>>, <<>>, <<>>)
OfLab(lab) == <<"lab">> \o lab
OfCmyk(cmyk) == <<"cmyk">> \o cmyk
OfName(name) == <<"hue", name>>

Clamp01(v) == Most(0, Least(Full, v))
Clamped(values) == [i \in DOMAIN values |-> Clamp01(values[i])]

-----------------------------------------------------------------------------
(* The alternate space of a separation.                                    *)

\* alt_to_swatch: an ICC profile is read as the device space of its N.
Family(alt, values) ==
    LET n == IF alt.n = 0 THEN Len(values) ELSE alt.n
    IN  IF alt.family # "ICCBased" THEN alt.family
        ELSE CASE n = 4 -> "DeviceCMYK" [] n = 3 -> "DeviceRGB" [] n = 1 -> "DeviceGray"
               [] OTHER -> "none"

AltToSwatch(values, alt) ==
    LET family == Family(alt, values)
        v == Clamped(values)
    IN  CASE family = "DeviceCMYK" /\ Len(values) = 4 -> Intent(OfCmyk(v), <<>>, v, <<>>)
          [] family \in {"DeviceRGB", "CalRGB"} /\ Len(values) = 3 -> Intent(v, <<>>, <<>>, <<>>)
          [] family = "DeviceGray" /\ Len(values) = 1 ->
               Intent(<<v[1], v[1], v[1]>>, <<>>, <<>>, <<>>)
          [] family = "Lab" /\ Len(values) = 3 -> Intent(OfLab(values), values, <<>>, <<>>)
          [] OTHER -> NoIntent

-----------------------------------------------------------------------------
(* Extraction.                                                             *)

\* _evaluate_separation_intent.
SeparationIntent(space) ==
    IF space.alt.family = "none" THEN NoIntent
    ELSE AltToSwatch(EvaluateFunction(space.fn, Full), space.alt)

Ink(name, intent) == [name |-> name, intent |-> intent]

\* extract_color_space: the spot colorants of a space; <<>> for a space of another family.
Colorants(space) ==
    CASE space.family = "Separation" -> <<Ink(space.names[1], SeparationIntent(space))>>
      [] space.family = "DeviceN" ->
           LET names == Those(space.names, ToSet(space.names) \ {"All", "None"})
           IN  [i \in DOMAIN names |-> Ink(names[i], NoIntent)]
      [] OTHER -> <<>>

\* extract_color_world_pikepdf: the first space of each resource name, unless it is broken.
ColorWorld(doc) ==
    LET all == FlattenSeq(doc.pages)
        first == {i \in DOMAIN all : \A j \in 1 .. i - 1 : all[j].id # all[i].id}
        sound == {i \in first : all[i].space.family # "broken"}
        places == Those([i \in DOMAIN all |-> i], sound)
    IN  [n \in DOMAIN places |-> all[places[n]]]

-----------------------------------------------------------------------------
(* The ladder.                                                             *)

Swatch(source, i) ==
    [source |-> source, lab |-> i.lab, cmyk |-> i.cmyk, pantone |-> i.pantone,
     rgb |-> IF i.rgb # <<>> THEN i.rgb
             ELSE IF i.lab # <<>> THEN OfLab(i.lab) ELSE OfCmyk(i.cmyk)]

Colored(i) == i.rgb # <<>> \/ i.lab # <<>> \/ i.cmyk # <<>>

\* _coerce_entry: an entry with neither Lab nor CMYK is dropped.
Coerced(book) == [k \in {k \in DOMAIN book : Colored(book[k])} |-> book[k]]

\* lookup_pantone_spot: the caller's overrides by the key, then by the alternate key, then
\* the bundled catalogue.  A set of at most one entry.
LookupPantone(name, extra) ==
    LET keys == <<PantoneKey[name]>> \o AlternateKey[PantoneKey[name]]
        tries == [i \in 1 .. 2 * Len(keys) |->
                     IF i <= Len(keys) THEN <<Coerced(extra), keys[i]>>
                     ELSE <<Coerced(Catalogue), keys[i - Len(keys)]>>]
        hits == {i \in DOMAIN tries : tries[i][2] \in DOMAIN tries[i][1]}
    IN  IF hits = {} THEN {}
        ELSE LET i == CHOOSE i \in hits : \A j \in hits : i <= j
             IN  {tries[i][1][tries[i][2]]}

FromPantone(entry) == Swatch("pantone", entry)

\* _try_host, _try_codex, _try_pantone and _try_curated, in that order: at most one swatch.
Known(name, host, intent, extra) ==
    CASE Colored(host) -> {Swatch("host", host)}
      [] Colored(intent) -> {Swatch("codex", intent)}
      [] OTHER ->
           LET named == IF intent.pantone = <<>> THEN {}
                        ELSE LookupPantone(intent.pantone[1], extra)
               found == IF named # {} THEN named ELSE LookupPantone(name, extra)
           IN  IF found # {} THEN {FromPantone(e) : e \in found}
               ELSE IF name \in CuratedInks
                    THEN {[Swatch("curated", NoIntent) EXCEPT !.rgb = <<"curated", name>>]}
                    ELSE {}

\* _try_ai, and the hash of the name.
Estimated(name, lab) ==
    IF lab # <<>> THEN Swatch("ai", [NoIntent EXCEPT !.lab = lab])
    ELSE [Swatch("hash", NoIntent) EXCEPT !.rgb = OfName(name)]

-----------------------------------------------------------------------------
(* The workers.                                                            *)

Item(from, name, host, intent, extra) ==
    [from |-> from, name |-> name, host |-> host, intent |-> intent, extra |-> extra]
NoExtra == [k \in {} |-> NoIntent]
Resting == [doing |-> "rest", todo |-> <<>>, doc |-> <<>>, shown |-> <<>>]

\* _spot_colors: the colorants, then the names analysis found.
InksOf(doc) ==
    LET spaces == ColorWorld(doc)
        found == FlattenSeq([i \in DOMAIN spaces |-> Colorants(spaces[i].space)])
        inks == found \o [i \in DOMAIN doc.analysis |-> Ink(doc.analysis[i], NoIntent)]
    IN  [i \in DOMAIN inks |->
            Item(IF i <= Len(found) THEN "page" ELSE "analysis",
                 inks[i].name, NoIntent, inks[i].intent, NoExtra)]

\* build_document_summary of a document, or /v1/color/resolve.
Ask(w) ==
    /\ painter[w].doing = "rest" /\ colorJobs < MaxColorJobs
    /\ colorJobs' = colorJobs + 1
    /\ \/ \E doc \in SpotDocs :
             painter' = [painter EXCEPT ![w] =
                 [doing |-> "look", todo |-> InksOf(doc), doc |-> <<doc>>, shown |-> <<>>]]
       \/ \E body \in ColorBodies :
             painter' = [painter EXCEPT ![w] =
                 [doing |-> "look", todo |-> <<body>>, doc |-> <<>>, shown |-> <<>>]]
    /\ UNCHANGED <<estimates, aiEnabled, calls, excused>>

\* What is answered of a resolved colour: a summary gives the document's own Lab and CMYK next
\* to it, and its own reference name but for a name found by analysis.  (The summary's names
\* for where a colour came from are left out.)
SwatchGiven(item, swatch) ==
    IF item.from = "caller" THEN swatch
    ELSE [swatch EXCEPT !.lab = item.intent.lab, !.cmyk = item.intent.cmyk,
                        !.pantone = IF item.from = "page" THEN item.intent.pantone ELSE @]

\* The ink at the head of the list is done; _add_spot keeps the first of a name.
Shown(j, swatch) ==
    LET entry == [name |-> Head(j.todo).name, swatch |-> SwatchGiven(Head(j.todo), swatch)]
    IN  [j EXCEPT !.doing = "look", !.todo = Tail(j.todo), !.shown = Append(j.shown, entry)]

Repeated(j) ==
    \E i \in DOMAIN j.shown : Lowered[j.shown[i].name] = Lowered[Head(j.todo).name]

EstimatesOf(name) == {e \in ToSet(estimates) : e[1] = name}

\* What the ladder knows, or what lru_cache remembers (and moves to its end).
Look(w) ==
    LET j == painter[w]
        head == Head(j.todo)
        known == Known(head.name, head.host, head.intent, head.extra)
        held == Those(estimates, EstimatesOf(head.name))
    IN  /\ j.doing = "look" /\ j.todo # <<>>
        /\ IF Repeated(j)
           THEN painter' = [painter EXCEPT ![w].todo = Tail(j.todo)] /\ UNCHANGED estimates
           ELSE IF known # {}
           THEN /\ \E swatch \in known : painter' = [painter EXCEPT ![w] = Shown(j, swatch)]
                /\ UNCHANGED estimates
           ELSE IF held # <<>>
           THEN /\ painter' = [painter EXCEPT ![w] = Shown(j, Estimated(head.name, held[1][2]))]
                /\ estimates' = Those(estimates, ToSet(estimates) \ EstimatesOf(head.name)) \o held
           ELSE /\ painter' = [painter EXCEPT ![w].doing = "ask"]
                /\ UNCHANGED estimates
        /\ UNCHANGED <<aiEnabled, colorJobs, calls, excused>>

\* A mutant: an estimate is kept only when there is one.
RememberAnswer(name, lab) ==
    IF lab = <<>> THEN estimates
    ELSE LET kept == IF Len(estimates) < EstimateSlots THEN estimates ELSE Tail(estimates)
         IN  Append(kept, <<name, lab>>)

\* lru_cache: an entry another worker put there meanwhile is left as it is.
Remember(name, lab) ==
    IF \E i \in DOMAIN estimates : estimates[i][1] = name THEN estimates
    ELSE LET kept == IF Len(estimates) < EstimateSlots THEN estimates ELSE Tail(estimates)
         IN  Append(kept, <<name, lab>>)

\* _ai_lab_estimate: a Lab, or None: the model is off, says null, or the call fails.
Estimate(w) ==
    LET j == painter[w]
        name == Head(j.todo).name
    IN  /\ j.doing = "ask"
        /\ \E lab \in {<<>>} \cup (IF aiEnabled THEN {<<1, 0, 0>>} ELSE {}) :
              /\ painter' = [painter EXCEPT ![w] = Shown(j, Estimated(name, lab))]
              /\ estimates' = Remember(name, lab)
        /\ calls' = IF aiEnabled THEN [calls EXCEPT ![name] = @ + 1] ELSE calls
        /\ excused' = excused
              \cup {n \in InkNames : \E i \in DOMAIN estimates :
                       estimates[i][1] = n /\ ~\E k \in DOMAIN estimates' : estimates'[k][1] = n}
              \cup {n \in {name} : \E v \in SpotWorkers \ {w} :
                       painter[v].doing = "ask" /\ Head(painter[v].todo).name = n}
        /\ UNCHANGED <<aiEnabled, colorJobs>>

\* The response is sent.
Respond(w) ==
    /\ painter[w].doing = "look" /\ painter[w].todo = <<>>
    /\ painter' = [painter EXCEPT ![w] = Resting]
    /\ UNCHANGED <<estimates, aiEnabled, colorJobs, calls, excused>>

SpotInit ==
    /\ estimates = <<>> /\ aiEnabled \in BOOLEAN
    /\ painter = [w \in SpotWorkers |-> Resting]
    /\ colorJobs = 0 /\ calls = [n \in InkNames |-> 0] /\ excused = {}

SpotNext == \E w \in SpotWorkers : Ask(w) \/ Look(w) \/ Estimate(w) \/ Respond(w)

-----------------------------------------------------------------------------
(* Properties.                                                             *)

\* _ai_lab_estimate: "each unique name is queried at most once per process", unless the name
\* was evicted, or two workers missed it at the same time.
AskedOnce == \A n \in InkNames \ excused : calls[n] <= 1

\* The inks of a space, and what a page's own space (the first of its name) carries.
CarriedBy(space) ==
    CASE space.family = "Separation" -> {space.names[1]}
      [] space.family = "DeviceN" -> ToSet(space.names) \ {"All", "None"}
      [] OTHER -> {}
Carries(all, i, ink) ==
    /\ ~\E j \in 1 .. i - 1 : all[j].id = all[i].id
    /\ \E n \in CarriedBy(all[i].space) : Lowered[n] = ink

\* A separation over CMYK whose full tint ends in functions of four components; and a colour
\* that is this full tint, shown with the CMYK it was converted from.
OverCmyk(alt) == alt.family = "DeviceCMYK" \/ (alt.family = "ICCBased" /\ alt.n \in {0, 4})
Readable(space) ==
    /\ space.family = "Separation" /\ OverCmyk(space.alt)
    /\ \A call \in Readings(space.fn, Full) : Supported(call)
IsFullTint(space, swatch) ==
    /\ \E call \in Readings(space.fn, Full) : Gives(call, swatch.cmyk)
    /\ swatch.rgb = OfCmyk(swatch.cmyk)

FullTint(space, swatch) ==
    Readable(space) /\ ~ReachesBound(space.fn, Full) => IsFullTint(space, swatch)

\* A finished summary lists each ink of the document once, and no other; and an ink has the
\* full tint of the first of the pages' own spaces that carries it (_spot_colors over
\* extract_color_world_pikepdf, with the ladder and the tint transforms in between), unless
\* the full tint falls on a bound between two pieces of a stitched function, where
\* _eval_type3 takes the lower one and the format means the upper.
SummaryTrue ==
    \A w \in {v \in SpotWorkers : painter[v].doc # <<>> /\ painter[v].todo = <<>>} :
        LET doc == painter[w].doc[1]
            shown == painter[w].shown
            all == FlattenSeq(doc.pages)
            Name(k) == Lowered[shown[k].name]
        IN  /\ \A i, k \in DOMAIN shown : Name(i) = Name(k) => i = k
            /\ \A k \in DOMAIN shown :
                  \/ \E n \in ToSet(doc.analysis) : Lowered[n] = Name(k)
                  \/ \E i \in DOMAIN all : Carries(all, i, Name(k))
            /\ \A n \in ToSet(doc.analysis) : \E k \in DOMAIN shown : Name(k) = Lowered[n]
            /\ \A ink \in {Lowered[n] : n \in InkNames} : \A i \in DOMAIN all :
                  Carries(all, i, ink) /\ (\A j \in 1 .. i - 1 : ~Carries(all, j, ink)) =>
                      \E k \in DOMAIN shown :
                          Name(k) = ink /\ FullTint(all[i].space, shown[k].swatch)
=============================================================================
