------------------------------- MODULE Dieline -------------------------------
(***************************************************************************)
(* The dieline detector: page by page it walks the recorded content        *)
(* operators, counting them for two heuristics and boxing what is stroked, *)
(* and then concludes on candidates and on a size.  The operators are      *)
(* those of a page's content; signals.py records some and leaves out       *)
(* others.                                                                 *)
(***************************************************************************)
EXTENDS Integers, FiniteSetsExt, SequencesExt

CONSTANTS Points,       \* <<x, y>>
          Rects,        \* <<x, y, width, height>>, extents of any sign
          Matrices,     \* what cm may concatenate: <<a, b, c, d, e, f>>
          PageNums,     \* 1 .. n
          Calibration,  \* DielineCalibration's thresholds
          MaxOps        \* bound on the operators of a document

ASSUME DielineAssumption ==
  /\ Points \subseteq Int \X Int /\ Rects \subseteq Int \X Int \X Int \X Int
  /\ Matrices \subseteq [1 .. 6 -> Int]
  /\ PageNums \in Nat \ {0} /\ MaxOps \in Nat
  /\ Calibration \in [foldDash : Nat, foldStroke : Nat, stroke : Nat, path : Nat, thin : Nat]

VARIABLE scan
dielineVars == <<scan>>

(* Names that match the keyword pattern, by where they were found.         *)
NamedSources == [ocg_name |-> 95, ocg_processing_step |-> 98, trap_layer |-> 90]
Candidate(source, page, confidence) == [source |-> source, page |-> page, confidence |-> confidence]

(* The operators signals.py records, those of colour and text aside.  It   *)
(* leaves out d and w.                                                     *)
LintRelevantOps == {"m", "l", "c", "v", "y", "re", "h", "S", "s", "f", "F", "f*", "B", "B*",
                    "b", "b*", "n", "W", "W*", "q", "Q", "cm", "gs", "BDC", "BMC", "EMC", "Do"}

NoCounts == [path |-> 0, stroke |-> 0, fill |-> 0, dash |-> 0, thin |-> 0]

(* What the detector knows of a page, and for reference what the format    *)
(* makes of its operators: the matrix in force and those saved, where the  *)
(* vertices of the path since it was last painted lie on the page, and of  *)
(* those a stroke painted; whether any lie elsewhere than their operands   *)
(* say; and how many dash patterns were set.                               *)
Identity == <<1, 0, 0, 1, 0, 0>>
FreshPage == [points |-> {}, boxes |-> {}, out |-> {}, count |-> NoCounts, marked |-> FALSE,
              ctm |-> Identity, saved |-> <<>>, drawn |-> {}, inked |-> {},
              mirrored |-> FALSE, displaced |-> FALSE, dashes |-> 0]
DielineInit == scan = [pc |-> "named"]

(* The OCGs and the trap layers come first.                                *)
NamedCandidates(sources) ==
  /\ scan.pc = "named"
  /\ scan' = [pc |-> "page", page |-> 1, ops |-> 0, at |-> FreshPage, boxes |-> <<{}>>,
              inked |-> {}, mirrored |-> FALSE, displaced |-> {}, folded |-> {},
              candidates |-> {Candidate(s, 0, NamedSources[s]) : s \in sources}]

(* The box of the points of a subpath is sealed when the next one begins   *)
(* or when the path is painted.                                            *)
Box(points) == [x0 |-> Min({p[1] : p \in points}), y0 |-> Min({p[2] : p \in points}),
                x1 |-> Max({p[1] : p \in points}), y1 |-> Max({p[2] : p \in points})]
Sealed(at) == IF at.points = {} THEN at
              ELSE [at EXCEPT !.points = {}, !.boxes = @ \union {Box(at.points)}]
Counted(at, op, what) == IF op \in LintRelevantOps
                         THEN [at EXCEPT !.count[what] = @ + 1] ELSE at

Step(at) == /\ scan.pc = "page"
            /\ scan.ops < MaxOps
            /\ scan' = [scan EXCEPT !.ops = @ + 1, !.at = at]

(* The reference places a vertex by the matrix in force.                   *)
Placed(m, p) == <<m[1] * p[1] + m[3] * p[2] + m[5], m[2] * p[1] + m[4] * p[2] + m[6]>>
Product(m, n) == <<m[1] * n[1] + m[2] * n[3], m[1] * n[2] + m[2] * n[4],
                   m[3] * n[1] + m[4] * n[3], m[3] * n[2] + m[4] * n[4],
                   m[5] * n[1] + m[6] * n[3] + n[5], m[5] * n[2] + m[6] * n[4] + n[6]>>
Drawn(at, points) == [at EXCEPT !.drawn = @ \union {Placed(at.ctm, p) : p \in points},
                                !.displaced = @ \/ at.ctm # Identity]

MoveTo(p) == Step(Drawn([Sealed(Counted(scan.at, "m", "path")) EXCEPT !.points = {p}], {p}))
LineTo(p) == Step(Drawn([Counted(scan.at, "l", "path") EXCEPT !.points = @ \union {p}], {p}))
ClosePath == Step(Counted(scan.at, "h", "path"))
BoxCorners(box) == {box.x0, box.x1} \X {box.y0, box.y1}
Rectangle(r) ==
  LET box == [x0 |-> r[1], y0 |-> r[2], x1 |-> r[1] + r[3], y1 |-> r[2] + r[4]]
  IN  Step(Drawn([Sealed(Counted(scan.at, "re", "path")) EXCEPT
                    !.boxes = @ \union {box}, !.mirrored = @ \/ r[3] < 0 \/ r[4] < 0],
                 BoxCorners(box)))

(* A mutant: the subpath that painting ends is lost.                       *)
PaintedUnsealed(at) == [at EXCEPT !.out = @ \union at.boxes, !.boxes = {}, !.points = {},
                                  !.inked = @ \union at.drawn, !.drawn = {}]

(* A stroke keeps the boxes of its path; a fill or an n drops them.        *)
Painted(at) == [Sealed(at) EXCEPT !.out = @ \union Sealed(at).boxes, !.boxes = {},
                                  !.inked = @ \union at.drawn, !.drawn = {}]
Dropped(at) == [at EXCEPT !.points = {}, !.boxes = {}, !.drawn = {}]
Stroke == Step(Painted(Counted(scan.at, "S", "stroke")))
FillAndStroke == Step(Painted(Counted(scan.at, "B", "fill")))
Fill == Step(Dropped(Counted(scan.at, "f", "fill")))
EndPath == Step(Dropped(scan.at))

(* What changes the line is counted where it is recorded.                  *)
Dash == Step(Counted([scan.at EXCEPT !.dashes = @ + 1], "d", "dash"))
ThinLine == Step(Counted(scan.at, "w", "thin"))

(* q, Q, cm and Do are recorded, and the detector passes over them: they   *)
(* change the reference only.  The strokes of a form are ink as well.      *)
Save == Step([scan.at EXCEPT !.saved = Append(@, scan.at.ctm)])
Restore == /\ scan.pc = "page" /\ scan.at.saved # <<>>
           /\ Step([scan.at EXCEPT !.ctm = Last(scan.at.saved), !.saved = Front(@)])
Concat(m) == Step([scan.at EXCEPT !.ctm = Product(m, @)])
DoForm(p) == Step([scan.at EXCEPT !.inked = @ \union {Placed(scan.at.ctm, p)},
                                  !.displaced = TRUE])

MarkedContent == Step([scan.at EXCEPT !.marked = TRUE])

(* What a page's counters say: fold lines, a network of cuts, or marked    *)
(* content of a layer with a telling name.                                 *)
LeastOf(a, b) == IF a < b THEN a ELSE b
SignalCandidates(page, at) ==
  LET n == at.count
      allowedFill == Max({1, n.stroke \div 4})
      foldLike == n.dash >= Calibration.foldDash /\ n.stroke >= Calibration.foldStroke
      dielineLike == /\ n.stroke >= Calibration.stroke /\ n.path >= Calibration.path
                     /\ n.fill <= allowedFill
                     /\ \/ n.thin >= Calibration.thin
                        \/ n.dash >= Calibration.foldDash - 1
      more(yes, gain) == IF yes THEN gain ELSE 0
  IN  {Candidate("marked", page, 92) : m \in {m \in {TRUE} : at.marked}}
        \union {Candidate("fold", page, LeastOf(90, 80 + more(n.thin >= 1, 10)))
                  : f \in {f \in {TRUE} : foldLike}}
        \union {Candidate("cut", page, LeastOf(95, 95 + more(n.thin >= Calibration.thin, 5)
                                                      + more(n.dash >= 1, 5)))
                  : d \in {d \in {TRUE} : dielineLike}}

EndPage ==
  /\ scan.pc = "page"
  /\ LET p == scan.page
         seen == [scan EXCEPT !.candidates = @ \union SignalCandidates(p, scan.at),
                              !.boxes = [@ EXCEPT ![p] = scan.at.out],
                              !.inked = @ \union ({p} \X scan.at.inked),
                              !.mirrored = @ \/ scan.at.mirrored,
                              !.displaced = @ \union {q \in {p} : scan.at.displaced},
                              !.folded = @ \union
                                {q \in {p} : /\ scan.at.dashes >= Calibration.foldDash
                                            /\ scan.at.count.stroke >= Calibration.foldStroke}]
     IN  scan' = IF p < PageNums
                 THEN [seen EXCEPT !.page = p + 1, !.at = FreshPage,
                                   !.boxes = [q \in 1 .. p + 1 |-> IF q <= p THEN seen.boxes[q]
                                                                   ELSE {}]]
                 ELSE [seen EXCEPT !.pc = "detect"]

(* The pages the size is taken from: those a candidate names, or else all. *)
Selected(candidates) == LET named == {c.page : c \in candidates} \ {0}
                        IN  IF named = {} THEN 1 .. PageNums ELSE named
NoSize == [available |-> FALSE, confidence |-> 0]
EstimateSize(candidates, boxes, overall) ==
  LET all == UNION {boxes[p] : p \in Selected(candidates)}
      hull == [x0 |-> Min({b.x0 : b \in all}), y0 |-> Min({b.y0 : b \in all}),
               x1 |-> Max({b.x1 : b \in all}), y1 |-> Max({b.y1 : b \in all})]
      available == hull.x1 > hull.x0 \/ hull.y1 > hull.y0
  IN  IF all = {} \/ ~available THEN NoSize
      ELSE [available |-> TRUE, hull |-> hull,
            confidence |-> IF overall > 0 THEN overall ELSE 35]

DetectDieline ==
  /\ scan.pc = "detect"
  /\ LET overall == IF scan.candidates = {} THEN 0
                    ELSE Max({c.confidence : c \in scan.candidates})
         size == EstimateSize(scan.candidates, scan.boxes, overall)
         bare == scan.candidates = {} /\ size.available
     IN  scan' = [pc |-> "detected", size |-> size, inked |-> scan.inked,
                  mirrored |-> scan.mirrored, displaced |-> scan.displaced,
                  folded |-> scan.folded,
                  candidates |-> IF bare
                                 THEN {Candidate("analysis_stroke_bbox", 0, size.confidence)}
                                 ELSE scan.candidates,
                  overall |-> IF bare THEN size.confidence ELSE overall,
                  selected |-> Selected(scan.candidates)]

DielineNext ==
  \/ \E sources \in SUBSET DOMAIN NamedSources : NamedCandidates(sources)
  \/ \E p \in Points : MoveTo(p) \/ LineTo(p) \/ DoForm(p)
  \/ \E r \in Rects : Rectangle(r)
  \/ ClosePath \/ Stroke \/ FillAndStroke \/ Fill \/ EndPath
  \/ Dash \/ ThinLine \/ MarkedContent \/ Save \/ Restore
  \/ \E m \in Matrices : Concat(m)
  \/ EndPage \/ DetectDieline

DielineSpec == DielineInit /\ [][DielineNext]_dielineVars

(***************************************************************************)
(* Properties.                                                             *)
(***************************************************************************)

(* Where each vertex lies at its operands, the size is that of what is     *)
(* inked: of the vertices of every stroked path of the chosen pages,       *)
(* however the path was cut into subpaths, and of nothing merely filled or *)
(* dropped; and it is missing only where there is no extent to measure.    *)
(* (A rectangle drawn with a negative extent can shrink it, never stretch  *)
(* it.)  Nothing is claimed of a chosen page that draws under a matrix or  *)
(* invokes a form: the detector passes over cm, q, Q and Do, and its size  *)
(* is then that of the operands.  A size never comes without a candidate   *)
(* and a confidence of the same document.                                  *)
SizeOfInk ==
  scan.pc = "detected" =>
    LET inked == {v[2] : v \in {v \in scan.inked : v[1] \in scan.selected}}
        hull == scan.size.hull
        inPlace == scan.displaced \cap scan.selected = {}
    IN  /\ scan.size.available =>
             /\ inPlace =>
                  /\ hull.x0 >= Min({p[1] : p \in inked}) /\ hull.y0 >= Min({p[2] : p \in inked})
                  /\ hull.x1 <= Max({p[1] : p \in inked}) /\ hull.y1 <= Max({p[2] : p \in inked})
                  /\ ~scan.mirrored => hull = Box(inked)
             /\ scan.candidates # {}
             /\ scan.size.confidence = scan.overall
             /\ scan.overall \in 1 .. 100
        /\ inPlace /\ ~scan.mirrored /\ ~scan.size.available => \A p, q \in inked : p = q

(* signals.py records what the analyzers consume, dieline first, and says  *)
(* of all other operators, "line-width" among them, that "no downstream    *)
(* reader uses them".  The detector's fold rule counts the dash patterns   *)
(* of a page, which are among those: a page that sets as many dashes and   *)
(* strokes as the calibration asks is no fold candidate.                   *)
FoldsFound ==
  scan.pc = "detected" =>
    \A p \in scan.folded :
      \E c \in scan.candidates : c.source = "fold" /\ c.page = p
=============================================================================
