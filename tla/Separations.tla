---------------------------- MODULE Separations ----------------------------
(***************************************************************************)
(* Rendering: the scan for ink channels (list_separations), Ghostscript's  *)
(* plates (tiffsep writes one file for each process ink and for each spot  *)
(* it meets on the page) and how the renderers pick them, and the layer    *)
(* overrides before a page or a layer is rendered.  A plate is named for   *)
(* the ink it is of; the pixels are left out.                              *)
(***************************************************************************)
EXTENDS Integers, Sequences, Selections, SequencesExt

CONSTANTS PressDocs,   \* documents
          FileOrder,   \* tiffsep's files as sorted() puts them: the inks they
                       \* are of, and the composite, Composite
          NameWithin,  \* <<a, b>>: a in lower case is part of b's file name
          MaxDepth     \* _MAX_XOBJECT_DEPTH

Process == <<"Cyan", "Magenta", "Yellow", "Black">>
Processes == ToSet(Process)
Composite == "composite"
Missing == "missing"

(* A colour space, with the one under it if it is Indexed or a Pattern.    *)
FamilyOf == [DeviceCMYK |-> "cmyk", ICC4 |-> "cmyk", DeviceRGB |-> "rgb", ICC3 |-> "rgb",
             Lab |-> "rgb", DeviceGray |-> "gray", ICC1 |-> "gray"]
Spaces == [kind : DOMAIN FamilyOf \union {"Separation", "DeviceN"},
           names : SUBSET (ToSet(FileOrder) \union {"All", "None"})]

(* A document: resource dictionaries that may lead to each other and to    *)
(* themselves, each with the spaces of its colour spaces and shadings, the *)
(* dictionaries of its patterns, and its XObjects in order: an image has a *)
(* space and a form a dictionary.  Then its pages: the dictionary of each, *)
(* whether the page owns it or inherits it from the page tree, and the     *)
(* process inks its content sets by operators, which need no dictionary;   *)
(* and optional content.                                                   *)
XObjects(resources) == [spaces : SUBSET Spaces, of : resources \union {Missing}]
ASSUME PressAssumption ==
  /\ FileOrder \in Seq(ToSet(FileOrder)) /\ IsInjective(FileOrder) /\ MaxDepth \in Nat
  /\ Processes \union {Composite} \subseteq ToSet(FileOrder) /\ Missing \notin ToSet(FileOrder)
  /\ \A d \in PressDocs :
       LET resources == DOMAIN d.resources
       IN  /\ DOMAIN d = {"resources", "pages", "layers", "base", "on", "off"}
           /\ Missing \notin resources
           /\ d.resources \in [resources -> [spaces : SUBSET Spaces, patterns : Seq(resources),
                                            xobjects : Seq(XObjects(resources))]]
           /\ d.pages \in Seq([of : resources, own : BOOLEAN, direct : SUBSET Processes])
           /\ d.layers \in Nat /\ d.base \in {"ON", "OFF"}
           /\ d.on \union d.off \subseteq 0 .. d.layers - 1

VARIABLE press
pressVars == <<press>>

PressInit == press = [pc |-> "open"]
OpenPdf(doc) == /\ press.pc = "open"
                /\ press' = [pc |-> "scan", doc |-> doc, page |-> 0, spots |-> {},
                             families |-> {}, stack |-> <<>>, stale |-> 0, lost |-> {}, cut |-> {}]

(* A Separation of a process ink is listed as a spot; one in DeviceN is    *)
(* not, and makes the page a CMYK one.                                     *)
SpotsIn(space) == CASE space.kind = "Separation" -> space.names \ {"All", "None"}
                    [] space.kind = "DeviceN" -> space.names \ ({"All", "None"} \union Processes)
                    [] OTHER -> {}
FamiliesIn(space) ==
  CASE space.kind \in DOMAIN FamilyOf -> {FamilyOf[space.kind]}
    [] space.kind = "DeviceN" /\ space.names \intersect Processes # {} -> {"cmyk"}
    [] OTHER -> {}

(* The walk over a page's dictionaries.  What lies below a dictionary: its *)
(* patterns, then its XObjects.  A frame of the walk is at the next of     *)
(* them.  XObjects are known by id() of wrappers that live only while the  *)
(* dictionary they are in is walked: one of a later dictionary of the page *)
(* may get the id of one walked before, stale, and is then passed over     *)
(* with all that is below it.  For reference, lost and cut hold what was   *)
(* passed over, and what lay too deep.                                     *)
Below(r) == [i \in DOMAIN r.patterns |-> [spaces |-> {}, of |-> r.patterns[i]]] \o r.xobjects
Frame(r) == [of |-> r, next |-> 1, opened |-> FALSE, reused |-> {}]
SpotsOf(spaces) == UNION {SpotsIn(s) : s \in spaces}
FamiliesOf(spaces) == UNION {FamiliesIn(s) : s \in spaces}
Extracted(spaces, walk) == [walk EXCEPT !.spots = @ \union SpotsOf(spaces),
                                        !.families = @ \union FamiliesOf(spaces)]
Entered(r, walk) == Extracted(walk.doc.resources[r].spaces,
                              [walk EXCEPT !.stack = Append(@, Frame(r))])
Stepped(walk) == [walk EXCEPT !.stack[Len(walk.stack)].next = @ + 1]

Scanning == press.pc = "scan" /\ press.stack # <<>>
Top == Last(press.stack)
TopBelow == Below(press.doc.resources[Top.of])
TopPatterns == Len(press.doc.resources[Top.of].patterns)
AtXObjects == Top.next > TopPatterns

(* A page without Resources of its own is not scanned at all.              *)
ScanPageColorspaces ==
  /\ press.pc = "scan" /\ press.stack = <<>>
  /\ press.page < Len(press.doc.pages)
  /\ LET page == press.doc.pages[press.page + 1]
         begun == [press EXCEPT !.page = @ + 1, !.stale = 0]
     IN  press' = IF page.own THEN Entered(page.of, begun) ELSE begun

(* The wrappers of a dictionary's XObjects are made together, some of them *)
(* with ids that an earlier dictionary's have left.                        *)
OpenXObjects(reused) ==
  /\ Scanning /\ AtXObjects /\ ~Top.opened
  /\ reused \subseteq TopPatterns + 1 .. Len(TopBelow)
  /\ Cardinality(reused) <= press.stale
  /\ press' = [press EXCEPT !.stale = @ - Cardinality(reused),
                            !.stack[Len(press.stack)] = [@ EXCEPT !.opened = TRUE,
                                                                  !.reused = reused]]

(* The next thing below: its space, or, unless too deep, its dictionary.   *)
ScanNext ==
  /\ Scanning /\ (AtXObjects => Top.opened)
  /\ Top.next <= Len(TopBelow) /\ Top.next \notin Top.reused
  /\ LET below == TopBelow[Top.next]
         walk == Extracted(below.spaces, Stepped(press))
     IN  press' = CASE below.of = Missing -> walk
                    [] below.of # Missing /\ Len(press.stack) > MaxDepth ->
                         [walk EXCEPT !.cut = @ \union {<<press.page, Top.of, Top.next>>}]
                    [] OTHER -> Entered(below.of, walk)
PassOver ==
  /\ Scanning /\ Top.next \in Top.reused
  /\ press' = [Stepped(press) EXCEPT !.lost = @ \union {<<press.page, Top.of, Top.next>>}]
LeaveResources ==
  /\ Scanning /\ Top.opened /\ Top.next > Len(TopBelow)
  /\ press' = [press EXCEPT !.stack = Front(@), !.stale = @ + Len(TopBelow) - TopPatterns]

(* list_separations: spots behind the process inks.                        *)
Inventory(spots, families) ==
  (IF "cmyk" \in families THEN Process ELSE <<>>)
    \o Those(FileOrder, spots)
EndScan == /\ press.pc = "scan" /\ press.stack = <<>>
           /\ press.page = Len(press.doc.pages)
           /\ press' = [press EXCEPT !.pc = "ready"]

(* Layers.  Overrides rewrite /D/OFF and know neither BaseState nor ON; a  *)
(* conflict, or an index there is no layer for, is a 422.                  *)

(* A mutant: the overrides replace what the document hides.                *)
OffWithOverridesOnly(doc, on, off) == off \ on

OffWithOverrides(doc, on, off) == (doc.off \union off) \ on
ApplyOcgOverrides(on, off) ==
  /\ press.pc = "ready"
  /\ press' = [pc |-> IF \/ on \intersect off # {}
                         \/ ~(on \union off \subseteq 0 .. press.doc.layers - 1)
                      THEN "refused" ELSE "painted",
               doc |-> [press.doc EXCEPT !.off = OffWithOverrides(press.doc, on, off)],
               forced |-> on, hidden |-> off, before |-> press.doc]
RenderLayer(layer, all) ==
  IF layer \in all THEN ApplyOcgOverrides({layer}, all \ {layer})
  ELSE /\ press.pc = "ready"
       /\ press' = [press EXCEPT !.pc = "refused"]

(* What a viewer shows of a document.                                      *)
VisibleLayers(doc) == (IF doc.base = "ON" THEN 0 .. doc.layers - 1 ELSE doc.on) \ doc.off

(* What a page leads to: whatever is in every set that has its dictionary  *)
(* and all that is below its members, but for the things below in without. *)
Closed(doc, S, n, without) ==
  /\ doc.pages[n].of \in S
  /\ \A r \in S : \A i \in DOMAIN Below(doc.resources[r]) :
       LET d == Below(doc.resources[r])[i].of
       IN  d = Missing \/ d \in S \/ <<n, r, i>> \in without
Reached(doc, n, without) ==
  {r \in DOMAIN doc.resources : \A S \in SUBSET DOMAIN doc.resources :
                                  Closed(doc, S, n, without) => r \in S}
SpacesOf(doc, r, n, without) ==
  LET below == Below(doc.resources[r])
  IN  doc.resources[r].spaces
        \union UNION {below[i].spaces : i \in {i \in DOMAIN below : <<n, r, i>> \notin without}}
SpacesOn(doc, n, without) ==
  UNION {SpacesOf(doc, r, n, without) : r \in Reached(doc, n, without)}

(* _run_tiffsep: the process inks and what the page paints, or a failure.  *)
UsedOn(doc, n) == SpotsOf(SpacesOn(doc, n, {})) \union doc.pages[n].direct
RunTiffsep(page, painted) ==
  /\ press.pc = "ready"
  /\ page \in DOMAIN press.doc.pages
  /\ painted \subseteq UsedOn(press.doc, page)
  /\ press' = [pc |-> "plates", spots |-> press.spots, families |-> press.families,
               files |-> Processes \union painted \union {Composite}]
TiffsepFails == press.pc = "ready" /\ press' = [press EXCEPT !.pc = "failed"]

(* The first file in order whose name has the channel's in it, anywhere.   *)
FindChannelTif(files, channel) ==
  LET hits == Those(FileOrder, {f \in files : f = channel \/ <<channel, f>> \in NameWithin})
  IN  IF hits = <<>> THEN Missing ELSE Head(hits)
Plate(channel, file) == [channel |-> channel, file |-> file]
Found(files, channels) ==
  LET shown == Those(channels, {c \in ToSet(channels) : FindChannelTif(files, c) # Missing})
  IN  [i \in DOMAIN shown |-> Plate(shown[i], FindChannelTif(files, shown[i]))]

(* The densitometer and the layer composite take the process inks so, and  *)
(* then every other file that names a spot, by a name not yet taken.       *)
SameName(a, b) == a = b \/ {<<a, b>>, <<b, a>>} \subseteq NameWithin
Earlier(a, b) == \E i, j \in DOMAIN FileOrder : i < j /\ FileOrder[i] = a /\ FileOrder[j] = b

(* A mutant: names already taken are not left out.                         *)
CollectedTwice(files) ==
  LET named == Those(FileOrder, files \ {Composite})
  IN  Found(files, Process) \o [i \in DOMAIN named |-> Plate(named[i], named[i])]

Collected(files) ==
  LET taken == {f \in files : \E g \in Processes \union files :
                  SameName(g, f) /\ (g \in Processes \/ Earlier(g, f))}
      spots == Those(FileOrder, files \ ({Composite} \union taken))
  IN  Found(files, Process) \o [i \in DOMAIN spots |-> Plate(spots[i], spots[i])]

Printed(how, plates) == press' = [pc |-> "printed", spots |-> press.spots,
                                  families |-> press.families, files |-> press.files,
                                  how |-> how, plates |-> plates]
RenderSeparations ==
  /\ press.pc = "plates"
  /\ Printed("separations", Found(press.files, Inventory(press.spots, press.families)))
RenderSeparationChannel(channel) ==
  /\ press.pc = "plates"
  /\ Printed("channel", Found(press.files, <<channel>>))
SampleDensity == press.pc = "plates" /\ Printed("density", Collected(press.files))
CompositeViaSeparations == /\ press.pc = "plates"
                           /\ press.spots # {}
                           /\ Printed("layer", Collected(press.files))

PressNext ==
  \/ \E doc \in PressDocs : OpenPdf(doc)
  \/ ScanPageColorspaces \/ ScanNext \/ PassOver \/ LeaveResources
  \/ Scanning /\ \E reused \in SUBSET (TopPatterns + 1 .. Len(TopBelow)) : OpenXObjects(reused)
  \/ EndScan
  \/ press.pc = "ready" /\
       \/ \E on, off \in SUBSET (0 .. press.doc.layers) : ApplyOcgOverrides(on, off)
       \/ \E layer \in 0 .. press.doc.layers, all \in SUBSET (0 .. press.doc.layers) :
            RenderLayer(layer, all)
       \/ \E page \in DOMAIN press.doc.pages :
            \E painted \in SUBSET UsedOn(press.doc, page) : RunTiffsep(page, painted)
  \/ TiffsepFails
  \/ RenderSeparations \/ SampleDensity \/ CompositeViaSeparations
  \/ \E channel \in ToSet(FileOrder) \ {Composite} : RenderSeparationChannel(channel)

PressSpec == PressInit /\ [][PressNext]_pressVars

(***************************************************************************)
(* Properties.                                                             *)
(***************************************************************************)

(* Names no other file of the page contains.                               *)
Clear(channel) == \A f \in press.files \ {channel} : <<channel, f>> \notin NameWithin

(* A page only one of whose dictionaries, its own, holds XObjects.         *)
Alone(doc, n) ==
  \A r \in Reached(doc, n, {}) :
    /\ r # doc.pages[n].of => doc.resources[r].xobjects = <<>>
    /\ \A i \in DOMAIN Below(doc.resources[r]) : Below(doc.resources[r])[i].of # doc.pages[n].of

(* Whatever the scan and the page: a channel is shown its own plate, and   *)
(* is shown when it has one, unless its name is part of another's; what is *)
(* measured and composited is each ink of the page once, unless a process  *)
(* ink's name is part of a spot's or two spots share a name.  The          *)
(* inventory invents no ink and no family.  On a page that owns its        *)
(* Resources it misses neither the spots nor the families (and so the      *)
(* process inks) of any space, however forms, patterns and images lead to  *)
(* it, but behind an XObject passed over for its id or too deep; and it    *)
(* passes over none where the page's own dictionary alone holds XObjects.  *)
(* Nothing is claimed of a page that inherits its Resources, nor of inks   *)
(* that operators set: both are missed.                                    *)
PlatesTrue ==
  /\ press.pc = "printed" =>
       /\ \A i \in DOMAIN press.plates :
            Clear(press.plates[i].channel) => press.plates[i].file = press.plates[i].channel
       /\ press.how = "separations" =>
            \A ch \in press.files \intersect ToSet(Inventory(press.spots, press.families)) :
              \E i \in DOMAIN press.plates : press.plates[i].channel = ch
       /\ /\ press.how \in {"density", "layer"}
          /\ \A p \in Processes : Clear(p)
          /\ \A f, g \in press.files : SameName(f, g) => f = g
          =>
            LET files == [i \in DOMAIN press.plates |-> press.plates[i].file]
            IN  IsInjective(files) /\ ToSet(files) = press.files \ {Composite}
  /\ press.pc = "ready" =>
       LET doc == press.doc
           missed == press.lost \union press.cut
           used == UNION {SpacesOn(doc, n, {}) : n \in DOMAIN doc.pages}
       IN  /\ press.spots \subseteq SpotsOf(used) /\ press.families \subseteq FamiliesOf(used)
           /\ \A n \in DOMAIN doc.pages :
                /\ doc.pages[n].own =>
                     /\ SpotsOf(SpacesOn(doc, n, missed)) \subseteq press.spots
                     /\ FamiliesOf(SpacesOn(doc, n, missed)) \subseteq press.families
                /\ Alone(doc, n) => \A lost \in press.lost : lost[1] # n

(* A render with layers forced shows those and none of the hidden, and the *)
(* others as before; unless the document's layers are off by default, when *)
(* forcing one shows it only if the document had it among its own ON.      *)
LayersObeyed ==
  press.pc = "painted" =>
    LET all == 0 .. press.doc.layers - 1
        shown == VisibleLayers(press.doc)
    IN  /\ shown \intersect press.hidden = {}
        /\ press.forced \ shown # {} => press.doc.base = "OFF"
        /\ press.forced \intersect press.doc.on \subseteq shown
        /\ shown \ press.forced = VisibleLayers(press.before) \ (press.hidden \union press.forced)
=============================================================================
