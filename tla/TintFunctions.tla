---------------------------- MODULE TintFunctions ----------------------------
(***************************************************************************)
(* The tint transform of a separation (color/alt_space.py): a function of  *)
(* one number, exponential (type 2, with N = 1), or stitched from pieces   *)
(* (type 3).  A number is an integer, Full standing for 1.0.  A malformed  *)
(* dictionary gives None, as one of a type that is not supported, or       *)
(* raises: its space is then of the family "broken" (SpotColor).           *)
(***************************************************************************)
EXTENDS Integers, Sequences, SequencesExt

CONSTANTS
    Full,
    Transforms,   \* the functions in the documents, and their pieces
    MaxNesting    \* bound on stitched functions inside one another

Domain(fn) == fn.domain \in Seq(Int) /\ Len(fn.domain) = 2 /\ fn.domain[1] <= fn.domain[2]

ASSUME TintAssumption ==
    /\ Full \in Nat \ {0} /\ MaxNesting \in Nat
    /\ \A fn \in Transforms :
          /\ fn.type = 2 => Domain(fn) /\ fn.c0 \in Seq(Int) /\ fn.c1 \in Seq(Int)
          /\ fn.type = 3 =>
                /\ Domain(fn) /\ fn.encode \in Seq(Int) /\ fn.bounds \in Seq(Int)
                /\ fn.functions \in Seq(Transforms) /\ Len(fn.functions) = Len(fn.bounds) + 1

Least(a, b) == IF a < b THEN a ELSE b
Most(a, b) == IF a > b THEN a ELSE b

\* Both types first bring x into the domain.
OnDomain(fn, x) == Most(fn.domain[1], Least(fn.domain[2], x))

\* _eval_type2.
EvalType2(fn, x0) ==
    LET x == OnDomain(fn, x0)
    IN  IF Len(fn.c0) # Len(fn.c1) THEN <<>>
        ELSE [i \in DOMAIN fn.c0 |-> fn.c0[i] + (x * (fn.c1[i] - fn.c0[i])) \div Full]

Edges(fn) == <<fn.domain[1]>> \o fn.bounds \o <<fn.domain[2]>>

\* The first piece whose upper edge is not below x; the last when there is none.
Piece(fn, x) ==
    LET upTo == {k \in DOMAIN fn.functions : x <= Edges(fn)[k + 1]}
    IN  IF upTo = {} THEN Len(fn.functions) ELSE CHOOSE k \in upTo : \A j \in upTo : k <= j

\* A mutant: Encode is read for every piece as if it were absent.
EncodedAsIs(fn, k, x) == x

\* Interpolation into the piece's Encode range.
Encoded(fn, k, x) ==
    LET a == Edges(fn)[k]
        b == Edges(fn)[k + 1]
        e0 == IF 2 * k <= Len(fn.encode) THEN fn.encode[2 * k - 1] ELSE a
        e1 == IF 2 * k <= Len(fn.encode) THEN fn.encode[2 * k] ELSE b
    IN  IF a = b THEN e0 ELSE e0 + ((x - a) * (e1 - e0)) \div (b - a)

Call(fn, x) == [fn |-> fn, x |-> x]

\* _eval_type3 ends with a call of a piece's function.
Stitch(call) ==
    IF call.fn.type # 3 THEN call
    ELSE LET x == OnDomain(call.fn, call.x)
             k == Piece(call.fn, x)
         IN  Call(call.fn.functions[k], Encoded(call.fn, k, x))

LastCall(fn, x) ==
    LET after[n \in 0 .. MaxNesting] == IF n = 0 THEN Call(fn, x) ELSE Stitch(after[n - 1])
    IN  after[MaxNesting]

\* evaluate_function: no other type is supported.
EvaluateFunction(fn, x) ==
    LET last == LastCall(fn, x)
    IN  IF last.fn.type = 2 THEN EvalType2(last.fn, last.x) ELSE <<>>

-----------------------------------------------------------------------------
(* What a transform means, for the properties.  PDF 7.10.4 closes the      *)
(* interval of a piece on the left and opens it on the right, and closes   *)
(* the last on both sides: at a bound, the piece above it is meant.        *)

\* The interval of a piece, and what it is encoded to.
Lower(fn, k) == IF k = 1 THEN fn.domain[1] ELSE fn.bounds[k - 1]
Upper(fn, k) == IF k = Len(fn.functions) THEN fn.domain[2] ELSE fn.bounds[k]
EncodeRange(fn, k) == IF 2 * k > Len(fn.encode) THEN <<Lower(fn, k), Upper(fn, k)>>
                      ELSE SubSeq(fn.encode, 2 * k - 1, 2 * k)

Within(fn, k, x) == Lower(fn, k) <= x /\ (x < Upper(fn, k) \/ (k = Len(fn.functions) /\ x = Upper(fn, k)))

\* y is as far into the Encode range of piece k as x is into its interval, rounded down.
Maps(fn, k, x, y) ==
    LET a == Lower(fn, k)
        b == Upper(fn, k)
        e == EncodeRange(fn, k)
    IN  /\ Within(fn, k, x)
        /\ IF a = b THEN y = e[1]
           ELSE (x - a) * (e[2] - e[1]) - (y - e[1]) * (b - a) \in 0 .. b - a - 1

\* A stitched function is the piece that has x in its interval.
Pieces(call) ==
    IF call.fn.type # 3 THEN {call}
    ELSE UNION {LET e == EncodeRange(call.fn, k)
                    range == Least(e[1], e[2]) .. Most(e[1], e[2])
                IN  {Call(call.fn.functions[k], y) :
                        y \in {v \in range : Maps(call.fn, k, OnDomain(call.fn, call.x), v)}} :
                k \in DOMAIN call.fn.functions}

\* The calls a call comes to by reading n stitched functions inside one another.
Reading(fn, x) ==
    LET after[n \in 0 .. MaxNesting] ==
            IF n = 0 THEN {Call(fn, x)} ELSE UNION {Pieces(call) : call \in after[n - 1]}
    IN  after

Readings(fn, x) == Reading(fn, x)[MaxNesting]

\* x lies where two pieces of a stitched function meet, in the reading of it.
OnBound(call) == call.fn.type = 3 /\ OnDomain(call.fn, call.x) \in ToSet(call.fn.bounds)
ReachesBound(fn, x) == \E n \in 0 .. MaxNesting : \E call \in Reading(fn, x)[n] : OnBound(call)

\* The value of a component, scaled by Full, and its share of the ink: rounded down, and
\* brought between 0 and Full.
Exactly(fn, i, x) == Full * fn.c0[i] + x * (fn.c1[i] - fn.c0[i])
Shares(exact, v) ==
    /\ v \in 0 .. Full
    /\ exact - Full * v \in 0 .. Full - 1 \/ (v = 0 /\ exact < 0) \/ (v = Full /\ exact > Full * Full)

Supported(call) == call.fn.type = 2 /\ Len(call.fn.c0) = 4 /\ Len(call.fn.c1) = 4

\* The four shares are those of a reading.
Gives(call, cmyk) ==
    /\ Len(cmyk) = 4
    /\ \A i \in 1 .. 4 : Shares(Exactly(call.fn, i, OnDomain(call.fn, call.x)), cmyk[i])
=============================================================================
