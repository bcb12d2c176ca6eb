------------------------------- MODULE MCSpot -------------------------------
(* Documents with separations, and bodies of /v1/color/resolve.             *)
EXTENDS SpotColor

Cmyk == [family |-> "DeviceCMYK", n |-> 0]
Tint(c0, c1) == [type |-> 2, domain |-> <<0, 2>>, c0 |-> c0, c1 |-> c1]
Stitched(encode, fns) ==
  [type |-> 3, domain |-> <<0, 2>>, bounds |-> <<1>>, encode |-> encode, functions |-> fns]
Light == Tint(<<0, 0, 0, 0>>, <<0, 2, 0, 0>>)
Dark == Tint(<<0, 2, 0, 0>>, <<2, 2, 0, 1>>)
Black == Tint(<<0, 0, 0, 0>>, <<0, 0, 0, 2>>)
Rich == Tint(<<0, 0 - 1, 0, 0>>, <<2, 1, 3, 2>>)
Metal == Tint(<<0, 0, 0>>, <<2, 1, 1>>)
Program == [type |-> 4]
Falling == Stitched(<<0, 2, 2, 0>>, <<Light, Dark>>)
Plain == Stitched(<<>>, <<Light, Dark>>)
Nested == Stitched(<<0, 2, 2, 1>>, <<Rich, Plain>>)
Deep == Stitched(<<0, 2, 2, 0>>, <<Rich, Falling>>)
MCTransforms == {Light, Dark, Black, Rich, Metal, Program, Falling, Plain, Nested, Deep}
Named(id, family, names, alt, fn) ==
  [id |-> id, space |-> [family |-> family, names |-> names, alt |-> alt, fn |-> fn]]
SpotSpace(id, name, alt, fn) == Named(id, "Separation", <<name>>, alt, fn)
MCSpotDocs ==
  { [pages |-> << <<SpotSpace("CS0", "Zed", Cmyk, Falling),
                    Named("CS1", "DeviceN", <<"Yum", "All", "P485 C">>, Cmyk, Program)>>,
                  <<SpotSpace("CS0", "Foil", Cmyk, Black),
                    Named("CS2", "broken", <<>>, Cmyk, Program),
                    SpotSpace("CS3", "zed", Cmyk, Rich)>> >>,
     analysis |-> <<"ZED", "Foil">>],
    [pages |-> << <<SpotSpace("CS0", "zed", Cmyk, Program),
                    SpotSpace("CS1", "Foil", [family |-> "Lab", n |-> 0], Metal),
                    SpotSpace("CS2", "Yum", [family |-> "ICCBased", n |-> 4], Nested),
                    SpotSpace("CS3", "P485 C", Cmyk, Deep)>> >>,
     analysis |-> <<>>] }
MCNamedSpaces == UNION {UNION {ToSet(page) : page \in ToSet(doc.pages)} : doc \in MCSpotDocs}
MCInkNames == {"Zed", "zed", "ZED", "Yum", "Foil", "P485 C"}
MCLowered == [n \in MCInkNames |-> IF n \in {"Zed", "ZED"} THEN "zed" ELSE n]
MCAlternateKey == [n \in MCInkNames |-> IF n = "P485 C" THEN <<"P485C">> ELSE <<>>]
Pantone485(lab) == Intent(<<>>, lab, <<>>, <<"P485 C">>)
MCCatalogue == [k \in {"P485C"} |-> Pantone485(<<1, 1, 1>>)]
MCColorBodies ==
  { Item("caller", "Yum", NoIntent, NoIntent, NoExtra),
    Item("caller", "Zed", NoIntent, NoIntent, NoExtra),
    Item("caller", "P485 C", NoIntent, NoIntent, [k \in {"P485 C"} |-> Pantone485(<<>>)]),
    Item("caller", "Yum", Intent(<<>>, <<>>, <<0, 0, 0, 1>>, <<>>), NoIntent, NoExtra),
    Item("caller", "Yum", NoIntent, Intent(<<>>, <<>>, <<>>, <<"P485 C">>), NoExtra) }
=============================================================================
