------------------------ MODULE PropertyAttributes -------------------------
(***************************************************************************)
(* The attributes of the triangles of a mesh (writeTriangles in encoder.go *)
(* and triangleDecoder in decoder.go) and of the segments of a slice       *)
(* (slices/encoder.go and slices/decoder.go): the encoder leaves out what  *)
(* the decoder will fill in, and writes all elements through one array of  *)
(* attributes, of which it shows a part.                                   *)
(*                                                                         *)
(* pid names a group of properties, p1, p2 and p3 index it at the corners. *)
(* The vertices, which are always written, are left out.                   *)
(***************************************************************************)
EXTENDS Naturals, Sequences

CONSTANTS
  UInt32,  \* the values of a uint32
  MaxLen   \* bound on the elements of a list

ASSUME UInt32Assumption == UInt32 \subseteq Nat /\ 0 \in UInt32 /\ MaxLen \in Nat

AttrNames == {"pid", "p1", "p2", "p3"}

(* A Triangle; a Segment has no p3.                                        *)
Element == [AttrNames -> UInt32]
Segments == {s \in Element : s.p3 = 0}

Properties(pid, p1, p2, p3) == [pid |-> pid, p1 |-> p1, p2 |-> p2, p3 |-> p3]

(* PID and PIndex of an object.                                            *)
Object == [pid : UInt32, pindex : UInt32]

VARIABLES
  kind,     \* "triangle" or "segment"
  object,   \* the object of the mesh
  elems,    \* what is written
  attrs,    \* the array of attributes of the encoder
  out,      \* the attributes that were written, for each element
  decoded   \* what is read from them

vars == <<kind, object, elems, attrs, out, decoded>>

Init ==
  /\ kind \in {"triangle", "segment"}
  /\ object \in Object
  /\ elems \in UNION {[1..n -> IF kind = "triangle" THEN Element ELSE Segments] : n \in 0..MaxLen}
  /\ attrs = [a \in AttrNames |-> 0]
  /\ out = <<>> /\ decoded = <<>>

-----------------------------------------------------------------------------
(* Mutant: the default of the object is taken for any index. *)
TriangleShows_AnyIndex(t) ==
  IF t.pid = 0 THEN {}
  ELSE IF t.p1 # t.p2 \/ t.p1 # t.p3 THEN AttrNames
  ELSE IF t.pid # object.pid THEN {"pid", "p1"}
  ELSE {}

(* The attributes of a triangle that writeTriangles sets and shows.        *)
TriangleShows(t) ==
  IF t.pid = 0 THEN {}
  ELSE IF t.p1 # t.p2 \/ t.p1 # t.p3 THEN AttrNames
  ELSE IF t.pid # object.pid \/ t.p1 # object.pindex THEN {"pid", "p1"}
  ELSE {}

SegmentShows(s) ==
  IF s.pid = 0 THEN {}
  ELSE IF s.p1 # s.p2 THEN {"pid", "p1", "p2"}
  ELSE {"pid", "p1"}

Shows(e) == IF kind = "triangle" THEN TriangleShows(e) ELSE SegmentShows(e)

(* The array after an element: what is not shown stays from those before.  *)
Filled(e) == [a \in AttrNames |-> IF a \in Shows(e) THEN e[a] ELSE attrs[a]]

WriteElement ==
  /\ Len(out) < Len(elems)
  /\ LET e == elems[Len(out) + 1]
         f == Filled(e)
     IN  /\ attrs' = f
         /\ out' = Append(out, [a \in Shows(e) |-> f[a]])
  /\ UNCHANGED <<kind, object, elems, decoded>>

-----------------------------------------------------------------------------
ApplyDefault(x, a, default) == IF a \in DOMAIN x THEN x[a] ELSE default

ReadTriangle(x) ==
  LET p1 == ApplyDefault(x, "p1", object.pindex)
  IN  Properties(ApplyDefault(x, "pid", object.pid), p1,
                 ApplyDefault(x, "p2", p1), ApplyDefault(x, "p3", p1))

(* Start of polygonSegmentDecoder, whatever the order of the attributes.   *)
ReadSegment(x) ==
  LET p1 == ApplyDefault(x, "p1", 0)
  IN  Properties(ApplyDefault(x, "pid", 0), p1, ApplyDefault(x, "p2", p1), 0)

Read(x) == IF kind = "triangle" THEN ReadTriangle(x) ELSE ReadSegment(x)

(* Start of the decoder, which one element after the other is given to.    *)
ReadElement ==
  /\ Len(out) = Len(elems)
  /\ Len(decoded) < Len(out)
  /\ decoded' = Append(decoded, Read(out[Len(decoded) + 1]))
  /\ UNCHANGED <<kind, object, elems, attrs, out>>

Next == WriteElement \/ ReadElement

Spec == Init /\ [][Next]_vars

-----------------------------------------------------------------------------
(* Every variable holds a value of the Go type it stands for, and nothing  *)
(* is written or read that was not there.                                  *)
TypeOK ==
  /\ kind \in {"triangle", "segment"}
  /\ object \in Object
  /\ elems \in Seq(Element)
  /\ attrs \in Element
  /\ out \in Seq(UNION {[A -> UInt32] : A \in SUBSET AttrNames})
  /\ decoded \in Seq(Element)
  /\ Len(decoded) <= Len(out) /\ Len(out) <= Len(elems)

(***************************************************************************)
(* What an element means: one without properties takes those of the        *)
(* object, if it is a triangle, and its own indices count for nothing.     *)
(***************************************************************************)
Meaning(e) ==
  IF e.pid # 0 THEN e
  ELSE IF kind = "triangle"
       THEN Properties(object.pid, object.pindex, object.pindex, object.pindex)
       ELSE Properties(0, 0, 0, 0)

(***************************************************************************)
(* Reading what was written gives every element with its meaning, however  *)
(* the properties of its neighbours, its corners and the object coincide:  *)
(* what the encoder leaves out the decoder fills in, and nothing of an     *)
(* element shows up in a later one.                                        *)
(***************************************************************************)
ReadAsMeant == \A k \in DOMAIN decoded : decoded[k] = Meaning(elems[k])
=============================================================================
