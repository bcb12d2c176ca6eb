------------------------------ MODULE MCPress ------------------------------
(* Documents to scan for inks and to print: pages without and with forms,  *)
(* one form leading to the other and back, a pattern with an image, and a  *)
(* page that inherits its Resources.                                       *)
EXTENDS Separations

MCFileOrder == <<"All Black", "Black", "Cyan", "GOLD", "Gold Foil", "Gold", "Magenta",
                 "Yellow", "composite">>
MCNameWithin == {<<"Black", "All Black">>}
                  \union ({"Gold", "GOLD"} \X {"Gold", "GOLD", "Gold Foil"})
PdfSpace(kind, names) == [kind |-> kind, names |-> names]
Resources(spaces, patterns, xobjects) ==
  [spaces |-> spaces, patterns |-> patterns, xobjects |-> xobjects]
Image(kind, names) == [spaces |-> {PdfSpace(kind, names)}, of |-> Missing]
Form(of) == [spaces |-> {}, of |-> of]
PdfPage(of, own, direct) == [of |-> of, own |-> own, direct |-> direct]
Plainly == Resources({PdfSpace("DeviceCMYK", {}), PdfSpace("Separation", {"Black"})}, <<>>,
                     <<Image("Separation", {"Gold Foil"})>>)
MCResources ==
  [r \in {"plain", "page", "tile", "form", "inner"} |->
     CASE r = "plain" -> Plainly
       [] r = "page" -> Resources({PdfSpace("ICC3", {})}, <<"tile">>,
                                  <<Form("form"), Image("DeviceN", {"Cyan", "Gold", "None"})>>)
       [] r = "tile" -> Resources({}, <<>>, <<Image("Separation", {"All Black"})>>)
       [] r = "form" -> Resources({PdfSpace("Separation", {"Gold"})}, <<>>,
                                  <<Image("Separation", {"GOLD"}), Form("inner")>>)
       [] OTHER -> Resources({PdfSpace("DeviceCMYK", {})}, <<>>, <<Form("form")>>)]
PdfDoc(pages, base, on, off) ==
  [resources |-> MCResources, pages |-> pages, layers |-> 3, base |-> base, on |-> on, off |-> off]
MCPressDocs ==
  {PdfDoc(<<PdfPage("page", TRUE, {}), PdfPage("plain", FALSE, {"Cyan"})>>, "ON", {}, {}),
   PdfDoc(<<PdfPage("plain", TRUE, {}), PdfPage("form", TRUE, {})>>, "ON", {}, {})}
    \union {PdfDoc(<<PdfPage("plain", TRUE, {})>>, base, on, off) :
               base \in {"ON", "OFF"}, on, off \in {{}, {0}, {1, 2}}}
=============================================================================
