----------------------------- MODULE SpanRedaction -----------------------------
(***************************************************************************)
(* How pkg/redact takes secrets out of an event, once its patterns have    *)
(* found them.  In a string each rule finds spans; those of the host's     *)
(* home directories overlap (a home inside another, the same home given    *)
(* twice, a home that overlaps itself) and are merged (mergeOverlapping)   *)
(* before replaceSpans writes the string anew with a marker for each.  In  *)
(* an object the keys are redacted too, and keys that become equal must    *)
(* not hide each other's values (walk).                                    *)
(*                                                                         *)
(* Abstractions.  What a pattern matches is not modelled: any spans may be *)
(* found.  The spans of a regular expression do not overlap, and merging   *)
(* leaves them as they are.  A text is its length and a piece of it a      *)
(* span; the new text is the sequence of its pieces.  A name is a base and *)
(* the numbers put behind it: <<b, 1>> is "b#1".                           *)
(***************************************************************************)
EXTENDS Integers, Sequences, FiniteSets

CONSTANTS
  Length,       \* the length of the text
  MaxSpans,     \* bound: spans found in it
  Fields,       \* the keys of the object
  Names         \* what a key can be redacted to

ASSUME RedactionAssumption ==
  /\ Length \in Nat /\ MaxSpans \in Nat
  /\ IsFiniteSet(Fields) /\ Names \subseteq Seq(Nat)

\* The positions from lo up to hi, without hi.
Span == {s \in [lo : 0..Length, hi : 0..Length] : s.lo < s.hi}

VARIABLES
  found,        \* the spans found, in the order the code goes through them
  next,         \* the span of the loop's next turn
  merged,       \* the spans merged so far
  pieces,       \* the new text so far: spans of the old one, kept or cut
  last,         \* where the next kept piece begins
  hits,         \* how many hits were recorded
  clean,        \* clean[k]: what key k is redacted to
  walked,       \* the keys that have been walked
  fields,       \* the new object so far: from names to the keys they stand for
  phase         \* the loop that runs, or has run

text == <<found, next, merged, pieces, last, hits>>
object == <<clean, walked, fields>>
redactVars == <<text, object, phase>>

\* sort.Slice: by lo, in any order among equals.
Sorted(spans) == \A i, j \in DOMAIN spans : i < j => spans[i].lo <= spans[j].lo

\* walk is given a string, or an object.
RedactInit ==
  /\ next = 1 /\ merged = <<>> /\ pieces = <<>> /\ last = 0 /\ hits = 0
  /\ walked = {} /\ fields = <<>>
  /\ \/ /\ phase = "merging"
        /\ \E n \in 0..MaxSpans : found \in {s \in [1..n -> Span] : Sorted(s)}
        /\ clean = <<>>
     \/ /\ phase = "walking"
        /\ found = <<>>
        /\ clean \in [Fields -> Names]

-------------------------------------------------------------------------------
(* mergeOverlapping: one turn per span. *)

Prev == merged[Len(merged)]

\* The later span ends the merged one, also if it is the shorter one.
LaterEndsBug(sp) == [merged EXCEPT ![Len(merged)].hi = sp.hi]

\* A span that begins inside the one before is taken into it.
Absorbed(sp) ==
  IF sp.hi > Prev.hi THEN [merged EXCEPT ![Len(merged)].hi = sp.hi] ELSE merged

MergeSpan ==
  /\ phase = "merging" /\ next <= Len(found)
  /\ LET sp == found[next] IN
       merged' = IF merged # <<>> /\ sp.lo < Prev.hi THEN Absorbed(sp) ELSE Append(merged, sp)
  /\ next' = next + 1
  /\ UNCHANGED <<found, pieces, last, hits, object, phase>>

MergeEnds ==
  /\ phase = "merging" /\ next > Len(found)
  /\ phase' = "writing" /\ next' = 1
  /\ UNCHANGED <<found, merged, pieces, last, hits, object>>

-------------------------------------------------------------------------------
(* replaceSpans. *)

Kept(lo, hi) == IF lo < hi THEN <<[lo |-> lo, hi |-> hi, cut |-> FALSE]>> ELSE <<>>
Cut(sp) == [lo |-> sp.lo, hi |-> sp.hi, cut |-> TRUE]

\* What lies before the span is kept, and a marker (and a hit) stands for it.
WriteSpan ==
  /\ phase = "writing" /\ next <= Len(merged)
  /\ LET sp == merged[next] IN
       /\ pieces' = Append(pieces \o Kept(last, sp.lo), Cut(sp))
       /\ last' = sp.hi
  /\ hits' = hits + 1
  /\ next' = next + 1
  /\ UNCHANGED <<found, merged, object, phase>>

WriteEnds ==
  /\ phase = "writing" /\ next > Len(merged)
  /\ pieces' = pieces \o Kept(last, Length)
  /\ phase' = "written"
  /\ UNCHANGED <<found, next, merged, last, hits, object>>

-------------------------------------------------------------------------------
(* walk, for an object. *)

\* A key that is redacted to a name already there takes its place.
OverwritesBug(k) == clean[k]

\* The name itself, or with the first number behind it that is not taken.
FreeName(k) ==
  IF clean[k] \notin DOMAIN fields
    THEN clean[k]
    ELSE LET Taken(i) == Append(clean[k], i) \in DOMAIN fields
         IN  Append(clean[k], CHOOSE i \in 1..(Cardinality(DOMAIN fields) + 1) :
                                ~Taken(i) /\ \A j \in 1..(i - 1) : Taken(j))

\* A Go map is walked in any order.
WalkField(k) ==
  /\ phase = "walking" /\ k \notin walked
  /\ walked' = walked \cup {k}
  /\ fields' = [n \in DOMAIN fields \cup {FreeName(k)} |->
                  IF n = FreeName(k) THEN k ELSE fields[n]]
  /\ UNCHANGED <<text, clean, phase>>

WalkEnds ==
  /\ phase = "walking" /\ walked = Fields
  /\ phase' = "walked"
  /\ UNCHANGED <<text, object>>

RedactNext ==
  \/ MergeSpan \/ MergeEnds \/ WriteSpan \/ WriteEnds
  \/ \E k \in Fields : WalkField(k)
  \/ WalkEnds

RedactSpec == RedactInit /\ [][RedactNext]_redactVars

-------------------------------------------------------------------------------
(* Properties. *)

Piece == [lo : 0..Length, hi : 0..Length, cut : BOOLEAN]

RedactTypeOK ==
  /\ found \in Seq(Span) /\ merged \in Seq(Span) /\ pieces \in Seq(Piece)
  /\ next \in Nat \ {0} /\ last \in 0..Length /\ hits \in Nat
  /\ walked \subseteq Fields
  /\ DOMAIN fields \subseteq Seq(Nat) /\ \A n \in DOMAIN fields : fields[n] \in walked
  /\ phase \in {"merging", "writing", "written", "walking", "walked"}

Covered(p) == \E i \in DOMAIN found : found[i].lo <= p /\ p < found[i].hi

(* Where a string is done, its pieces are the whole of it, in order and     *)
(* without a gap; exactly what some span covers is cut -- not a byte of a   *)
(* secret is left between two spans that touch, nest or are equal, and      *)
(* nothing else is lost -- and each cut has its hit for the audit.          *)
PiecesExact ==
  /\ \A i \in DOMAIN pieces :
       /\ pieces[i].lo = (IF i = 1 THEN 0 ELSE pieces[i - 1].hi)
       /\ \A p \in pieces[i].lo..(pieces[i].hi - 1) : pieces[i].cut <=> Covered(p)
  /\ Length > 0 => pieces # <<>> /\ pieces[Len(pieces)].hi = Length
  /\ hits = Cardinality({i \in DOMAIN pieces : pieces[i].cut})

(* Where an object is done, every field is there once, whatever its key was *)
(* redacted to and in whichever order the map was walked (redact.go:379).   *)
FieldsExact == \A k \in Fields : Cardinality({n \in DOMAIN fields : fields[n] = k}) = 1

RedactsExactly ==
  (phase = "written" => PiecesExact) /\ (phase = "walked" => FieldsExact)
===============================================================================
