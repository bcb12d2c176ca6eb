------------------------------ MODULE Heatmap ------------------------------
(***************************************************************************)
(* The TAC heatmap and the densitometer: the words pdftotext finds are     *)
(* merged into lines, each line becomes a run over the pixels it covers,   *)
(* and a point of the page becomes a pixel and the patch around it.        *)
(* Coordinates are whole points.                                           *)
(***************************************************************************)
EXTENDS Integers, Sequences, Selections, SequencesExt, FiniteSetsExt

CONSTANTS HeatWords,   \* boxes, with x0 < x1 and y0 < y1
          MaxWords,    \* bound on the words of a page
          MaxLines,    \* lines kept (400)
          Images,      \* [w, h] of the raster, in pixels
          PageSizes,   \* [w, h] of the page, in points, zero included
          Samples      \* coordinates a caller may ask for

ASSUME HeatAssumption ==
  /\ HeatWords \subseteq [x0 : Int, y0 : Int, x1 : Int, y1 : Int]
  /\ \A b \in HeatWords : b.x0 < b.x1 /\ b.y0 < b.y1
  /\ MaxWords \in Nat /\ MaxLines \in Nat
  /\ Images \subseteq [w : Nat \ {0}, h : Nat \ {0}]
  /\ PageSizes \subseteq [w : Nat, h : Nat] /\ Samples \subseteq Int

VARIABLE heat
heatVars == <<heat>>

HeatInit == heat = [pc |-> "start"]

(* Words come sorted by their upper edge, then from left to right.         *)
InOrder(v, w) == v.y0 < w.y0 \/ (v.y0 = w.y0 /\ v.x0 <= w.x0)
ExtractTextBboxes(words) ==
  /\ heat.pc = "start"
  /\ \A i \in 1 .. Len(words) - 1 : InOrder(words[i], words[i + 1])
  /\ heat' = [pc |-> "merge", words |-> words, merged |-> <<>>, into |-> <<>>]

(* A word joins the last line when the two are level, of a height, and     *)
(* close; of the line, three of its edges follow.                          *)
AtLeast(n, m) == Max({n, m})
Abs(n) == AtLeast(n, 0 - n)
Joins(line, w) ==
  LET height == w.y1 - w.y0
      lineHeight == line.y1 - line.y0
  IN  /\ Abs(w.y0 - line.y0) <= 2
      /\ Abs(w.y1 - line.y1) <= 4
      /\ 10 * Abs(height - lineHeight) <= AtLeast(20, 3 * lineHeight)
      /\ 4 * (w.x0 - line.x1) <= AtLeast(24, 3 * height)

(* A mutant: the line ends with its last word.                             *)
WithLastWord(line, w) == [line EXCEPT !.x1 = w.x1, !.y1 = AtLeast(@, w.y1), !.y0 = Min({@, w.y0})]

WithWord(line, w) == [line EXCEPT !.x1 = AtLeast(@, w.x1), !.y1 = AtLeast(@, w.y1),
                                  !.y0 = Min({@, w.y0})]
MergeWord ==
  /\ heat.pc = "merge"
  /\ Len(heat.into) < Len(heat.words)
  /\ LET w == heat.words[Len(heat.into) + 1]
         n == Len(heat.merged)
         joins == n > 0 /\ Joins(heat.merged[n], w)
         merged == IF joins THEN [heat.merged EXCEPT ![n] = WithWord(@, w)]
                   ELSE Append(heat.merged, w)
     IN  heat' = [heat EXCEPT !.merged = merged,
                              !.into = Append(@, IF joins THEN n ELSE n + 1)]

(* round(): to the nearest, halves to the even neighbour.                  *)
Round(n, d) == LET q == n \div d
                   r == n % d
               IN  IF 2 * r < d \/ (2 * r = d /\ q % 2 = 0) THEN q ELSE q + 1
Positive(n) == IF n = 0 THEN 1 ELSE n

(* Each line's pixels, clipped to the raster; slivers are left out.        *)
PixelRect(b, image, page) ==
  [x0 |-> AtLeast(0, Round(b.x0 * image.w, Positive(page.w))),
   y0 |-> AtLeast(0, Round(b.y0 * image.h, Positive(page.h))),
   x1 |-> Min({image.w, Round(b.x1 * image.w, Positive(page.w))}),
   y1 |-> Min({image.h, Round(b.y1 * image.h, Positive(page.h))})]
RenderHeatmap(image, page) ==
  /\ heat.pc = "merge"
  /\ Len(heat.into) = Len(heat.words)
  /\ LET kept == SubSeq(heat.merged, 1, Min({MaxLines, Len(heat.merged)}))
         rects == [i \in DOMAIN kept |-> PixelRect(kept[i], image, page)]
     IN  heat' = [pc |-> "drawn", words |-> heat.words, merged |-> heat.merged,
                  into |-> heat.into, image |-> image,
                  runs |-> Those(rects, {r \in ToSet(rects) : r.x1 - r.x0 >= 2 /\ r.y1 - r.y0 >= 2})]

(* The densitometer: the origin of the page is below, that of the raster   *)
(* above; a page without a width is taken for one point a pixel.           *)
Clamp(n, size) == AtLeast(0, Min({n, size - 1}))
ScaleOf(pixels, points) == IF points = 0 THEN <<1, 1>> ELSE <<pixels, points>>
PixelAt(x, y, image, page) ==
  LET sx == ScaleOf(image.w, page.w)
      sy == ScaleOf(image.h, page.h)
  IN  [x |-> Clamp(Round(x * sx[1], sx[2]), image.w),
       y |-> Clamp(Round(image.h * sy[2] - y * sy[1], sy[2]), image.h)]
SamplePatch(p, image) == [x0 |-> AtLeast(0, p.x - 1), x1 |-> Min({image.w, p.x + 2}),
                          y0 |-> AtLeast(0, p.y - 1), y1 |-> Min({image.h, p.y + 2})]
SamplePoint(x, y, image, page) ==
  /\ heat.pc = "start"
  /\ LET p == PixelAt(x, y, image, page)
     IN  heat' = [pc |-> "sampled", x |-> x, y |-> y, image |-> image, page |-> page,
                  pixel |-> p, patch |-> SamplePatch(p, image)]

HeatNext ==
  \/ heat.pc = "start" /\ \E words \in SeqOf(HeatWords, MaxWords) : ExtractTextBboxes(words)
  \/ MergeWord
  \/ \E image \in Images, page \in PageSizes :
       \/ RenderHeatmap(image, page)
       \/ \E x, y \in Samples : SamplePoint(x, y, image, page)

HeatSpec == HeatInit /\ [][HeatNext]_heatVars

(***************************************************************************)
(* Property.                                                               *)
(***************************************************************************)

Inside(r, image) == 0 <= r.x0 /\ r.x0 < r.x1 /\ r.x1 <= image.w
                      /\ 0 <= r.y0 /\ r.y0 < r.y1 /\ r.y1 <= image.h

(* Every word lies in the line it was merged into, but for a left edge     *)
(* that sticks out when a word a little lower stands left of the line;     *)
(* a run or a patch is never empty and never outside the raster, wherever  *)
(* the page says its words are; and a point of the page is measured at     *)
(* the pixel it falls on, or next to it.                                   *)
HeatmapTrue ==
  /\ heat.pc = "drawn" =>
       /\ \A i \in DOMAIN heat.words :
            LET w == heat.words[i]
                line == heat.merged[heat.into[i]]
            IN  /\ line.y0 <= w.y0 /\ line.y1 >= w.y1 /\ line.x1 >= w.x1
                /\ \/ line.x0 <= w.x0
                   \/ \E j \in 1 .. i - 1 : heat.into[j] = heat.into[i] /\ heat.words[j].y0 < w.y0
       /\ \A i \in DOMAIN heat.runs : Inside(heat.runs[i], heat.image)
  /\ heat.pc = "sampled" =>
       /\ Inside(heat.patch, heat.image)
       /\ heat.pixel.x \in heat.patch.x0 .. heat.patch.x1 - 1
       /\ heat.pixel.y \in heat.patch.y0 .. heat.patch.y1 - 1
       /\ heat.page.w > 0 /\ heat.x \in 0 .. heat.page.w =>
            Abs(2 * (heat.pixel.x * heat.page.w - heat.x * heat.image.w)) <= 2 * heat.page.w
       /\ heat.page.h > 0 /\ heat.y \in 0 .. heat.page.h =>
            Abs(2 * ((heat.image.h - heat.pixel.y) * heat.page.h - heat.y * heat.image.h))
              <= 2 * heat.page.h
=============================================================================
