----------------------------- MODULE MCGeometry -----------------------------
(* Paths, offsets and grids for the geometry endpoints: rectangles that    *)
(* overlap, touch or lie apart, one ring that is no rectangle, and a path  *)
(* of two rings.                                                           *)
EXTENDS Geometry

RectRing(x0, y0, x1, y1) == << <<x0, y0>>, <<x1, y0>>, <<x1, y1>>, <<x0, y1>> >>
Square == RectRing(0, 0, 2, 2)
Tall == RectRing(1, 0, 2, 3)
Wide == RectRing(0, 1, 3, 2)
Far == RectRing(3, 3, 4, 4)
Ell == << <<0, 0>>, <<3, 0>>, <<3, 1>>, <<1, 1>>, <<1, 3>>, <<0, 3>> >>
MCPolygons == {Square, Tall, Ell, Append(Tall, Tall[1])}
MCPathLists == {<<>>, <<(<<Square, Far>>)>>, <<(<<Ell>>), <<Tall>>, <<Wide>>>>}
                 \union {<<(<<r>>)>> : r \in {Square, Tall, Far, Ell}}
                 \union {<<(<<r>>), <<q>>>> : r \in {Square, Wide, Ell}, q \in {Tall, Far, Ell}}
MCDistances == {0 - 1, 0, 1, 2}
MarksZone(top, right, bottom, left) ==
  [top |-> top, right |-> right, bottom |-> bottom, left |-> left]
MCTileGrids ==
  [sheet : {<<0, 0, 5, 4>>, <<1, 1, 2, 1>>}, cellW : 0 .. 2, cellH : {1, 3},
   gutterX : {0, 1}, gutterY : {0, 1}, origin : {"bottom-left", "top-left"},
   marks : {MarksZone(0, 0, 0, 0), MarksZone(0, 1, 1, 1), MarksZone(3, 0, 1, 0)}]
=============================================================================
