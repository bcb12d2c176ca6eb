------------------------------ MODULE UrlIngest ------------------------------
(***************************************************************************)
(* How a request that links its PDF comes to have the bytes: the auth      *)
(* dependency, then fetch_pdf_from_url, which resolves and checks each hop *)
(* of a redirect chain, connects to the address it checked, and reads the  *)
(* body in chunks under a cap.  Resolvers and servers answer as they like, *)
(* anew at every hop.                                                      *)
(***************************************************************************)
EXTENDS Integers, Sequences, SequencesExt

CONSTANTS Urls,          \* absolute URLs, the redirect targets among them
          UnfetchableUrls, \* those whose scheme is not http(s), or without a host
          PdfPaths,      \* those whose path ends in .pdf
          MaxRedirects,  \* FETCH_MAX_REDIRECTS
          MaxBytes,      \* FETCH_MAX_BYTES, in units
          ChunkSizes     \* what one read may return, in units

ASSUME IngestAssumption == /\ UnfetchableUrls \subseteq Urls /\ PdfPaths \subseteq Urls
                           /\ MaxRedirects \in Nat /\ MaxBytes \in Nat \ {0}
                           /\ ChunkSizes \subseteq Nat \ {0}

VARIABLE fetch   \* the one request, by the step it is at
ingestVars == <<fetch>>

(***************************************************************************)
(* Authentication.                                                         *)
(***************************************************************************)
Modes == {"bearer", "api-key", "internal", "basic"}

(* An environment: the locked list of modes, if any, and what is set.      *)
AuthSettings == {"bearer", "api-key", "internal", "basic-enabled", "user", "password"}
ModeLists == {{}} \union {{m} : m \in Modes \union {"none"}} \union {{"none", "bearer"}}

(* A mutant: basic is inferred from the whole login only.                  *)
AllowedModesWholeBasic(list, set) ==
  LET inferred == {m \in Modes : (IF m = "basic" THEN {"basic-enabled", "user", "password"}
                                                ELSE {m}) \subseteq set}
  IN  IF list # {} THEN list ELSE IF inferred # {} THEN inferred ELSE {"none"}

(* A mode is inferred from its secret; basic from either half of its.      *)
AllowedModes(list, set) ==
  LET inferred == (set \intersect {"bearer", "api-key", "internal"})
        \union (IF "basic-enabled" \in set /\ set \intersect {"user", "password"} # {}
                THEN {"basic"} ELSE {})
  IN  IF list # {} THEN list ELSE IF inferred # {} THEN inferred ELSE {"none"}
AuthRequired(modes) == \E m \in modes : m # "none"

(* A mode passes when its whole secret is set and is the one presented.    *)
Secret(m) == IF m = "basic" THEN {"basic-enabled", "user", "password"} ELSE {m}
Authenticated(list, set, presented) ==
  LET modes == AllowedModes(list, set)
  IN  \/ ~AuthRequired(modes)
      \/ \E m \in modes \intersect presented : Secret(m) \subseteq set

(* Presented: the modes whose header carries the right secret.  The bearer *)
(* and the basic scheme share one header.                                  *)
Presentable == {p \in SUBSET Modes : ~ {"bearer", "basic"} \subseteq p}

IngestInit == fetch = [pc |-> "auth"]

Answer(code) == fetch' = [pc |-> "answered", code |-> code]

Authenticate(list, set, presented) ==
  /\ fetch.pc = "auth"
  /\ fetch' = [pc |-> "gate", list |-> list, set |-> set, presented |-> presented,
               passed |-> Authenticated(list, set, presented)]

Unauthorized == fetch.pc = "gate" /\ ~fetch.passed /\ Answer("401")

(***************************************************************************)
(* The fetch.                                                              *)
(***************************************************************************)
FetchPdf(enabled, allowPrivate, url) ==
  /\ fetch.pc = "gate"
  /\ fetch.passed
  /\ IF enabled
     THEN fetch' = [pc |-> "hop", hop |-> 0, current |-> url, visited |-> <<>>,
                    allowPrivate |-> allowPrivate, connected |-> <<>>]
     ELSE Answer("400")

Addresses == {"public", "private"}

(* A mutant: only the first hop is checked, and loops are not noticed.     *)
ResolveSafeFirstHop(addresses) ==
  /\ fetch.pc = "hop"
  /\ IF \/ fetch.current \in UnfetchableUrls
        \/ addresses = <<>>
        \/ /\ fetch.hop = 0
           /\ ~fetch.allowPrivate /\ \E i \in DOMAIN addresses : addresses[i] = "private"
     THEN Answer("400")
     ELSE fetch' = [fetch EXCEPT !.pc = "request", !.visited = Append(@, fetch.current),
                                 !.connected = Append(@, Head(addresses))]

(* A URL seen before is a loop; then the scheme, the host, and every       *)
(* address the name resolves to: one that is private (as is any address of *)
(* a forbidden name) spoils them all.  The connection is to the first.     *)
ResolveSafe(addresses) ==
  /\ fetch.pc = "hop"
  /\ IF \/ \E i \in DOMAIN fetch.visited : fetch.visited[i] = fetch.current
        \/ fetch.current \in UnfetchableUrls
        \/ addresses = <<>>
        \/ ~fetch.allowPrivate /\ \E i \in DOMAIN addresses : addresses[i] = "private"
     THEN Answer("400")
     ELSE fetch' = [fetch EXCEPT !.pc = "request", !.visited = Append(@, fetch.current),
                                 !.connected = Append(@, Head(addresses))]

(* connect() or send raises past the handlers, as it does when an https    *)
(* certificate does not name the very address; getresponse() times out, or *)
(* fails in another way.                                                   *)
RequestFails(code) == /\ fetch.pc = "request"
                      /\ code \in {"500", "408", "400"}
                      /\ Answer(code)

(* A redirect; or one without a Location, or a status from 400.            *)
Redirect(target) ==
  /\ fetch.pc = "request"
  /\ IF fetch.hop >= MaxRedirects
     THEN Answer("400")
     ELSE fetch' = [fetch EXCEPT !.pc = IF fetch.hop + 1 \in 0 .. MaxRedirects
                                        THEN "hop" ELSE "exceeded",
                                 !.hop = @ + 1, !.current = target]
UpstreamRefuses == fetch.pc = "request" /\ Answer("400")

(* A body begins: a declared length over the cap is not read at all.       *)
BodyBegins(declared, pdfType, magic) ==
  /\ fetch.pc = "request"
  /\ IF declared > MaxBytes
     THEN Answer("413")
     ELSE fetch' = [pc |-> "reading", hop |-> fetch.hop, current |-> fetch.current,
                    visited |-> fetch.visited, allowPrivate |-> fetch.allowPrivate,
                    connected |-> fetch.connected, received |-> 0,
                    pdfType |-> pdfType, magic |-> magic]

ReadChunk(n) ==
  /\ fetch.pc = "reading"
  /\ IF fetch.received + n > MaxBytes
     THEN Answer("413")
     ELSE fetch' = [fetch EXCEPT !.received = @ + n]
ReadFails == fetch.pc = "reading" /\ Answer("500")

(* The body is over: empty, of another type, without the magic, or a PDF.  *)
BodyEnds ==
  /\ fetch.pc = "reading"
  /\ IF \/ fetch.received = 0
        \/ ~fetch.pdfType /\ fetch.current \notin PdfPaths
        \/ ~fetch.magic
     THEN Answer("400")
     ELSE fetch' = [fetch EXCEPT !.pc = "fetched"]

IngestNext ==
  \/ \E list \in ModeLists, set \in SUBSET AuthSettings, presented \in Presentable :
       Authenticate(list, set, presented)
  \/ Unauthorized
  \/ \E enabled, allow \in BOOLEAN, url \in Urls : FetchPdf(enabled, allow, url)
  \/ \E addresses \in SeqOf(Addresses, 2) : ResolveSafe(addresses)
  \/ \E code \in {"500", "408", "400"} : RequestFails(code)
  \/ \E target \in Urls : Redirect(target)
  \/ UpstreamRefuses
  \/ \E declared \in 0 .. MaxBytes + 1, pdfType, magic \in BOOLEAN :
       BodyBegins(declared, pdfType, magic)
  \/ \E n \in ChunkSizes : ReadChunk(n)
  \/ ReadFails \/ BodyEnds

IngestSpec == IngestInit /\ [][IngestNext]_ingestVars

(***************************************************************************)
(* Properties.                                                             *)
(***************************************************************************)

(* A deployment that was given a whole secret, and not told to run open,   *)
(* answers nobody who does not present a whole secret of its own; and one  *)
(* with half a basic login answers nobody at all by it, rather than        *)
(* everybody.                                                              *)
SecretLocks ==
  fetch.pc = "gate" /\ fetch.passed =>
    \/ \E m \in fetch.presented : Secret(m) \subseteq fetch.set
    \/ fetch.list = {"none"}
    \/ /\ fetch.list = {}
       /\ fetch.set \intersect {"bearer", "api-key", "internal"} = {}
       /\ "basic-enabled" \in fetch.set => {"user", "password"} \intersect fetch.set = {}

(* Every address connected to was resolved and checked at its own hop, no  *)
(* URL twice, at most one more than the redirects allowed; what is kept of *)
(* a body stays under the cap, whatever length was declared; the loop      *)
(* never runs out without an answer (its last raise is dead code).         *)
FetchContained ==
  /\ fetch.pc # "exceeded"
  /\ fetch.pc \in {"request", "reading", "fetched"} =>
       /\ Len(fetch.connected) = fetch.hop + 1
       /\ fetch.hop <= MaxRedirects
       /\ IsInjective(fetch.visited)
       /\ "private" \in ToSet(fetch.connected) => fetch.allowPrivate
  /\ fetch.pc \in {"reading", "fetched"} => fetch.received <= MaxBytes
=============================================================================
