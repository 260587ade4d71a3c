-------------------------- MODULE ModelData_proofs --------------------------
(***************************************************************************)
(* Proofs about the data of a model, whatever its size and its values:     *)
(*  - the attributes of triangles and segments, and of beams, which are    *)
(*    read as they were meant;                                             *)
(*  - the list that ValidateCoherency returns, which has one error for     *)
(*    every incoherent object, and a mesh, which is found coherent exactly *)
(*    when its triangles close;                                            *)
(*  - the indices of a model that Validate accepts, which resolve, and its *)
(*    stacks of slices, which ascend;                                      *)
(*  - the mesh an STL file is imported as, which is the whole file or not  *)
(*    there, and the ID of its object, which is the lowest one free.       *)
(***************************************************************************)
EXTENDS PropertyAttributes, BeamAttributes, ResourceValidation,
        MeshCoherency, ModelCoherency, MeshBuilding,
        FiniteSetTheorems, Recursion_proofs, TLAPS

(***************************************************************************)
(* What was written for each element is its own value of every attribute   *)
(* that is shown: none is left from the elements before it.                *)
(***************************************************************************)
OwnValues == \A k \in 1..Len(out) : out[k] = [a \in Shows(elems[k]) |-> elems[k][a]]

Indices == \A k \in 1..Len(decoded) : decoded[k] = Meaning(elems[k])

SegmentsOnly == kind = "segment" => \A k \in 1..Len(elems) : elems[k].p3 = 0

Inv == TypeOK /\ OwnValues /\ Indices /\ SegmentsOnly

-----------------------------------------------------------------------------
(* What is shown for an element is read as what it means.                  *)
LEMMA ReadShownTriangle ==
  ASSUME NEW t \in Element, object \in Object
  PROVE  ReadTriangle([a \in TriangleShows(t) |-> t[a]])
         = IF t.pid # 0 THEN t
           ELSE Properties(object.pid, object.pindex, object.pindex, object.pindex)
<1>1. CASE t.pid = 0
  BY <1>1 DEF TriangleShows, ReadTriangle, ApplyDefault, Properties
<1>2. CASE t.pid # 0 /\ (t.p1 # t.p2 \/ t.p1 # t.p3)
  BY <1>2 DEF TriangleShows, ReadTriangle, ApplyDefault, Properties, Element, AttrNames
<1>3. CASE t.pid # 0 /\ t.p1 = t.p2 /\ t.p1 = t.p3 /\ (t.pid # object.pid \/ t.p1 # object.pindex)
  BY <1>3 DEF TriangleShows, ReadTriangle, ApplyDefault, Properties, Element, AttrNames
<1>4. CASE t.pid # 0 /\ t.p1 = t.p2 /\ t.p1 = t.p3 /\ t.pid = object.pid /\ t.p1 = object.pindex
  BY <1>4 DEF TriangleShows, ReadTriangle, ApplyDefault, Properties, Element, AttrNames
<1>. QED  BY <1>1, <1>2, <1>3, <1>4

LEMMA ReadShownSegment ==
  ASSUME NEW s \in Element, s.p3 = 0
  PROVE  ReadSegment([a \in SegmentShows(s) |-> s[a]])
         = IF s.pid # 0 THEN s ELSE Properties(0, 0, 0, 0)
<1>1. CASE s.pid = 0
  BY <1>1 DEF SegmentShows, ReadSegment, ApplyDefault, Properties
<1>2. CASE s.pid # 0 /\ s.p1 # s.p2
  BY <1>2 DEF SegmentShows, ReadSegment, ApplyDefault, Properties, Element, AttrNames
<1>3. CASE s.pid # 0 /\ s.p1 = s.p2
  BY <1>3 DEF SegmentShows, ReadSegment, ApplyDefault, Properties, Element, AttrNames
<1>. QED  BY <1>1, <1>2, <1>3

LEMMA ReadShown ==
  ASSUME NEW el \in Element, object \in Object, kind \in {"triangle", "segment"},
         kind = "segment" => el.p3 = 0
  PROVE  Read([a \in Shows(el) |-> el[a]]) = Meaning(el)
<1>1. CASE kind = "triangle"
  BY <1>1, ReadShownTriangle DEF Read, Shows, Meaning
<1>2. CASE kind = "segment"
  BY <1>2, ReadShownSegment DEF Read, Shows, Meaning
<1>. QED  BY <1>1, <1>2

LEMMA ShowsNames ==
  ASSUME NEW el
  PROVE  Shows(el) \subseteq AttrNames
  BY DEF Shows, TriangleShows, SegmentShows, AttrNames

LEMMA MeaningType ==
  ASSUME NEW el \in Element, object \in Object
  PROVE  Meaning(el) \in Element
<1>1. Properties(object.pid, object.pindex, object.pindex, object.pindex) \in Element
  BY DEF Properties, Element, AttrNames, Object
<1>2. Properties(0, 0, 0, 0) \in Element
  BY UInt32Assumption DEF Properties, Element, AttrNames
<1>. QED  BY <1>1, <1>2 DEF Meaning

-----------------------------------------------------------------------------
LEMMA InvInit == Init => Inv
<1>. SUFFICES ASSUME Init PROVE Inv
  OBVIOUS
<1>1. PICK n \in 0..MaxLen : elems \in [1..n -> IF kind = "triangle" THEN Element ELSE Segments]
  BY DEF Init
<1>2. n \in Nat
  BY UInt32Assumption
<1>3. Segments \subseteq Element
  BY DEF Segments
<1>4. elems \in Seq(Element) /\ Len(elems) = n
  BY <1>1, <1>2, <1>3
<1>5. attrs \in Element
  BY UInt32Assumption DEF Init, Element
<1>6. TypeOK
  BY <1>4, <1>5, <1>2 DEF Init, TypeOK
<1>7. SegmentsOnly
  BY <1>1, <1>4 DEF SegmentsOnly, Segments
<1>. QED  BY <1>6, <1>7 DEF Init, Inv, OwnValues, Indices

LEMMA WriteStep == Inv /\ WriteElement => Inv'
<1>. SUFFICES ASSUME Inv, WriteElement PROVE Inv'
  OBVIOUS
<1>. USE DEF Inv
<1>. DEFINE el == elems[Len(out) + 1]
            x == [a \in Shows(el) |-> Filled(el)[a]]
<1>1. /\ out \in Seq(UNION {[A -> UInt32] : A \in SUBSET AttrNames})
      /\ Len(out) \in Nat /\ Len(elems) \in Nat /\ Len(out) < Len(elems)
  BY DEF TypeOK, WriteElement
<1>2. el \in Element
  BY <1>1 DEF TypeOK
<1>3. Filled(el) \in Element
  BY <1>2 DEF Filled, TypeOK, Element
<1>4. x = [a \in Shows(el) |-> el[a]]
  BY ShowsNames DEF Filled
<1>5. x \in [Shows(el) -> UInt32]
  BY <1>3, ShowsNames DEF Element
<1>6. x \in UNION {[A -> UInt32] : A \in SUBSET AttrNames}
  BY <1>5, ShowsNames
<1>7. /\ out' = Append(out, x) /\ attrs' = Filled(el)
      /\ UNCHANGED <<kind, object, elems, decoded>>
  BY DEF WriteElement
<1>8. /\ out' \in Seq(UNION {[A -> UInt32] : A \in SUBSET AttrNames})
      /\ Len(out') = Len(out) + 1
      /\ out'[Len(out) + 1] = x
      /\ \A k \in 1..Len(out) : out'[k] = out[k]
  BY <1>1, <1>6, <1>7
<1>9. TypeOK'
  BY <1>1, <1>3, <1>7, <1>8 DEF TypeOK
<1>10. \A f : Shows(f)' = Shows(f)
  BY <1>7 DEF Shows, TriangleShows, SegmentShows
<1>11. OwnValues'
  <2>1. SUFFICES ASSUME NEW k \in 1..Len(out')
                 PROVE  out'[k] = [a \in Shows(elems[k]) |-> elems[k][a]]
    BY <1>7, <1>10 DEF OwnValues
  <2>2. CASE k \in 1..Len(out)
    BY <2>2, <1>8 DEF OwnValues
  <2>3. CASE k = Len(out) + 1
    BY <2>3, <1>8, <1>4
  <2>. QED  BY <2>2, <2>3, <1>8, <1>1
<1>12. Indices' /\ SegmentsOnly'
  BY <1>7 DEF Indices, SegmentsOnly, Meaning
<1>. QED  BY <1>9, <1>11, <1>12

LEMMA ReadStep == Inv /\ ReadElement => Inv'
<1>. SUFFICES ASSUME Inv, ReadElement PROVE Inv'
  OBVIOUS
<1>. USE DEF Inv
<1>. DEFINE n == Len(decoded) + 1
            m == Read(out[n])
<1>1. /\ decoded \in Seq(Element) /\ Len(decoded) \in Nat
      /\ Len(out) \in Nat /\ Len(elems) \in Nat
      /\ n \in 1..Len(out) /\ n \in 1..Len(elems)
  BY DEF TypeOK, ReadElement
<1>2. elems[n] \in Element /\ object \in Object /\ kind \in {"triangle", "segment"}
  BY <1>1 DEF TypeOK
<1>3. m = Meaning(elems[n])
  BY <1>1, <1>2, ReadShown DEF OwnValues, SegmentsOnly
<1>4. m \in Element
  BY <1>2, <1>3, MeaningType
<1>5. decoded' = Append(decoded, m) /\ UNCHANGED <<kind, object, elems, attrs, out>>
  BY DEF ReadElement
<1>6. /\ decoded' \in Seq(Element) /\ Len(decoded') = n /\ decoded'[n] = m
      /\ \A k \in 1..Len(decoded) : decoded'[k] = decoded[k]
  BY <1>1, <1>4, <1>5
<1>7. TypeOK'
  BY <1>1, <1>5, <1>6 DEF TypeOK
<1>8. OwnValues' /\ SegmentsOnly'
  <2>1. UNCHANGED <<kind, object, elems, out>>
    BY <1>5
  <2>2. \A f : Shows(f)' = Shows(f)
    BY ONLY <2>1 DEF Shows, TriangleShows, SegmentShows
  <2>3. OwnValues /\ SegmentsOnly
    OBVIOUS
  <2>4. OwnValues'
    BY ONLY <2>1, <2>2, <2>3 DEF OwnValues
  <2>5. SegmentsOnly'
    BY ONLY <2>1, <2>3 DEF SegmentsOnly
  <2>. QED
    BY <2>4, <2>5
<1>9. \A f : Meaning(f)' = Meaning(f)
  BY <1>5 DEF Meaning
<1>10. Indices'
  <2>1. SUFFICES ASSUME NEW k \in 1..Len(decoded')
                 PROVE  decoded'[k] = Meaning(elems[k])
    BY <1>5, <1>9 DEF Indices
  <2>2. CASE k \in 1..Len(decoded)
    BY <2>2, <1>6 DEF Indices
  <2>3. CASE k = n
    BY <2>3, <1>6, <1>3
  <2>. QED  BY <2>2, <2>3, <1>6, <1>1
<1>. QED  BY <1>7, <1>8, <1>10

LEMMA InvStep == Inv /\ [Next]_vars => Inv'
<1>1. Inv /\ UNCHANGED vars => Inv'
  BY DEF Inv, vars, TypeOK, OwnValues, Indices, SegmentsOnly,
         Shows, TriangleShows, SegmentShows, Meaning
<1>. QED  BY <1>1, WriteStep, ReadStep DEF Next

(* Every variable keeps its type, and no more is read than was written.     *)
THEOREM AttributesTypeCorrect == Spec => []TypeOK
<1>1. Inv => TypeOK
  BY DEF Inv
<1>. QED  BY <1>1, InvInit, InvStep, PTL DEF Spec

(***************************************************************************)
(* The elements of a mesh or a slice are read as they were meant, for      *)
(* lists of any length, any groups, and any indices.                       *)
(***************************************************************************)
THEOREM ElementsReadAsMeant == Spec => []ReadAsMeant
<1>1. Inv => ReadAsMeant
  BY DEF Inv, TypeOK, Indices, ReadAsMeant
<1>. QED  BY <1>1, InvInit, InvStep, PTL DEF Spec

-----------------------------------------------------------------------------
(* What marshalBeams writes for a beam.                                     *)
Attrs(b) == [a \in BeamShows(b) |-> IF a \in {"r1", "r2"} THEN Rounded[b[a]] ELSE b[a]]

Written == \A k \in 1..Len(written) : written[k] = Attrs(beams[k])

LatticeOpened == IF opened THEN defaults = ReadLattice /\ Len(written) = Len(beams) ELSE Len(decodedBeams) = 0

ReadBack == \A k \in 1..Len(decodedBeams) : decodedBeams[k] = BeamRead(Attrs(beams[k]))

OutTyped == written \in Seq(UNION {[A -> Radii \cup CapModes] : A \in SUBSET {"r1", "r2", "cap1", "cap2"}})

BeamInv == BeamTypeOK /\ OutTyped /\ Written /\ LatticeOpened /\ (opened => ReadBack)

-----------------------------------------------------------------------------
LEMMA Rounding == \A r \in Radii : Rounded[r] \in Radii /\ r \in Nat
  BY BeamAssumption

LEMMA BeamShowsNames == ASSUME NEW b PROVE BeamShows(b) \subseteq {"r1", "r2", "cap1", "cap2"}
  BY DEF BeamShows

(* What is shown for a beam, attribute by attribute.                        *)
LEMMA GivenAttrs ==
  ASSUME NEW b \in Beam, NEW d
  PROVE  /\ Given(Attrs(b), "r1", 0) = IF b.r1 > 0 /\ b.r1 # lattice.radius THEN Rounded[b.r1] ELSE 0
         /\ Given(Attrs(b), "r2", 0) = IF b.r2 > 0 /\ b.r2 # lattice.radius THEN Rounded[b.r2] ELSE 0
         /\ Given(Attrs(b), "cap1", d) = IF b.cap1 # lattice.cap THEN b.cap1 ELSE d
         /\ Given(Attrs(b), "cap2", d) = IF b.cap2 # lattice.cap THEN b.cap2 ELSE d
  BY DEF Given, Attrs, BeamShows

LEMMA ReadTyped ==
  ASSUME NEW b \in Beam, lattice \in Lattice, defaults \in Lattice
  PROVE  BeamRead(Attrs(b)) \in Beam
<1>. DEFINE x == Attrs(b)
            r1 == OrElse(Given(x, "r1", 0), defaults.radius)
            r2 == OrElse(Given(x, "r2", 0), r1)
<1>1. /\ b.r1 \in Radii /\ b.r2 \in Radii /\ b.cap1 \in CapModes /\ b.cap2 \in CapModes
      /\ defaults.radius \in Radii /\ defaults.cap \in CapModes
  BY DEF Beam, Lattice
<1>2. Given(x, "r1", 0) \in Radii /\ Given(x, "r2", 0) \in Radii
  <2>1. /\ Given(x, "r1", 0) = IF b.r1 > 0 /\ b.r1 # lattice.radius THEN Rounded[b.r1] ELSE 0
        /\ Given(x, "r2", 0) = IF b.r2 > 0 /\ b.r2 # lattice.radius THEN Rounded[b.r2] ELSE 0
    BY ONLY GivenAttrs, b \in Beam
  <2>. QED
    BY ONLY <1>1, <2>1, BeamAssumption
<1>3. r1 \in Radii /\ r2 \in Radii
  BY <1>1, <1>2 DEF OrElse
<1>4. Given(x, "cap1", defaults.cap) \in CapModes /\ Given(x, "cap2", defaults.cap) \in CapModes
  BY <1>1, GivenAttrs
<1>5. BeamRead(x) = [r1 |-> r1, r2 |-> r2, cap1 |-> Given(x, "cap1", defaults.cap),
                 cap2 |-> Given(x, "cap2", defaults.cap)]
  BY DEF BeamRead
<1>. HIDE DEF r1, r2
<1>. QED  BY <1>3, <1>4, <1>5 DEF Beam

(* A regular beam is read as it is meant.                                   *)
LEMMA ReadRegular ==
  ASSUME NEW b \in Beam, lattice \in Lattice, defaults = ReadLattice, Regular(b)
  PROVE  BeamRead(Attrs(b)) = BeamMeaning(b)
<1>. DEFINE x == Attrs(b)
            r1 == OrElse(Given(x, "r1", 0), defaults.radius)
            r2 == OrElse(Given(x, "r2", 0), r1)
<1>1. /\ b.r1 \in Radii /\ b.r2 \in Radii /\ lattice.radius \in Radii
      /\ defaults.radius = Rounded[lattice.radius] /\ defaults.cap = lattice.cap
  BY DEF Beam, Lattice, ReadLattice
<1>2. /\ b.r1 \in Nat /\ b.r2 \in Nat /\ lattice.radius \in Nat /\ Rounded[0] = 0
      /\ b.r1 # 0 => Rounded[b.r1] # 0
      /\ b.r2 # 0 => Rounded[b.r2] # 0
      /\ b.r2 = lattice.radius => Radius1(b) = lattice.radius
  BY <1>1, BeamAssumption DEF Regular
<1>3. r1 = Rounded[Radius1(b)]
  BY <1>1, <1>2, GivenAttrs DEF OrElse, Radius1
<1>4. r2 = Rounded[Radius2(b)]
  BY <1>1, <1>2, <1>3, GivenAttrs DEF OrElse, Radius1, Radius2
<1>5. Given(x, "cap1", defaults.cap) = b.cap1 /\ Given(x, "cap2", defaults.cap) = b.cap2
  BY <1>1, GivenAttrs
<1>6. BeamRead(x) = [r1 |-> r1, r2 |-> r2, cap1 |-> b.cap1, cap2 |-> b.cap2]
  BY <1>5 DEF BeamRead
<1>. HIDE DEF r1, r2
<1>. QED  BY <1>3, <1>4, <1>6 DEF BeamMeaning

-----------------------------------------------------------------------------
LEMMA BeamInvInit == BeamInit => BeamInv
<1>. SUFFICES ASSUME BeamInit PROVE BeamInv
  OBVIOUS
<1>1. PICK n \in 0..MaxBeams : beams \in [1..n -> Beam]
  BY DEF BeamInit
<1>2. n \in Nat
  BY BeamAssumption
<1>3. beams \in Seq(Beam) /\ Len(beams) = n
  BY <1>1, <1>2
<1>4. defaults \in Lattice
  BY BeamAssumption DEF BeamInit, Lattice
<1>5. written = <<>> /\ decodedBeams = <<>> /\ opened = FALSE /\ lattice \in Lattice
  BY DEF BeamInit
<1>6. BeamTypeOK
  <2>1. decodedBeams \in Seq(Beam) /\ Len(decodedBeams) = 0 /\ Len(written) = 0
    BY <1>5
  <2>2. opened \in BOOLEAN
    BY <1>5
  <2>3. Len(decodedBeams) <= Len(written) /\ Len(written) <= Len(beams)
    BY <1>2, <1>3, <2>1
  <2>. QED  BY <1>3, <1>4, <1>5, <2>1, <2>2, <2>3 DEF BeamTypeOK
<1>. QED  BY <1>6 DEF BeamInit, BeamInv, OutTyped, Written, LatticeOpened

LEMMA BeamWriteStep == BeamInv /\ WriteBeam => BeamInv'
<1>. SUFFICES ASSUME BeamInv, WriteBeam PROVE BeamInv'
  OBVIOUS
<1>. USE DEF BeamInv
<1>. DEFINE n == Len(written) + 1
            S == UNION {[A -> Radii \cup CapModes] : A \in SUBSET {"r1", "r2", "cap1", "cap2"}}
<1>1. /\ Len(written) \in Nat /\ Len(beams) \in Nat /\ n \in 1..Len(beams) /\ written \in Seq(S)
      /\ UNCHANGED <<lattice, beams, opened, defaults, decodedBeams>>
      /\ written' = Append(written, Attrs(beams[n]))
  BY DEF BeamTypeOK, OutTyped, WriteBeam, Attrs
<1>2. beams[n] \in Beam
  BY <1>1 DEF BeamTypeOK
<1>3. Attrs(beams[n]) \in S
  <2>1. \A a \in {"r1", "r2"} : Rounded[beams[n][a]] \in Radii
    BY <1>2, Rounding DEF Beam
  <2>2. \A a \in {"cap1", "cap2"} : beams[n][a] \in CapModes
    BY <1>2 DEF Beam
  <2>3. Attrs(beams[n]) \in [BeamShows(beams[n]) -> Radii \cup CapModes]
    BY <2>1, <2>2, BeamShowsNames DEF Attrs
  <2>. QED  BY <2>3, BeamShowsNames
<1>4. /\ written' \in Seq(S) /\ Len(written') = n /\ written'[n] = Attrs(beams[n])
      /\ \A k \in 1..Len(written) : written'[k] = written[k]
  BY <1>1, <1>3
<1>5. ~opened
  BY <1>1 DEF LatticeOpened
<1>6. BeamTypeOK' /\ OutTyped'
  BY <1>1, <1>4 DEF BeamTypeOK, OutTyped
<1>7. Written'
  <2>1. \A b : Attrs(b)' = Attrs(b)
    BY <1>1 DEF Attrs, BeamShows
  <2>2. SUFFICES ASSUME NEW k \in 1..Len(written') PROVE written'[k] = Attrs(beams[k])
    BY <1>1, <2>1 DEF Written
  <2>3. CASE k \in 1..Len(written)
    BY <2>3, <1>4 DEF Written
  <2>4. CASE k = n
    BY <2>4, <1>4
  <2>. QED  BY <2>3, <2>4, <1>4, <1>1
<1>8. LatticeOpened' /\ ~opened'
  BY <1>1, <1>5 DEF LatticeOpened
<1>. QED  BY <1>6, <1>7, <1>8

LEMMA DefaultsStep == BeamInv /\ ReadDefaults => BeamInv'
<1>. SUFFICES ASSUME BeamInv, ReadDefaults PROVE BeamInv'
  OBVIOUS
<1>. USE DEF BeamInv
<1>1. /\ opened' = TRUE /\ ~opened /\ defaults' = ReadLattice /\ Len(written) = Len(beams)
      /\ UNCHANGED <<lattice, beams, written, decodedBeams>>
  BY DEF ReadDefaults
<1>2. ReadLattice \in Lattice
  BY Rounding DEF ReadLattice, Lattice, BeamTypeOK
<1>3. BeamTypeOK' /\ OutTyped'
  BY <1>1, <1>2 DEF BeamTypeOK, OutTyped
<1>4. Written'
  <2>1. \A b : Attrs(b)' = Attrs(b)
    BY <1>1 DEF Attrs, BeamShows
  <2>. QED  BY <1>1, <2>1 DEF Written
<1>5. LatticeOpened' /\ ReadBack'
  BY <1>1 DEF LatticeOpened, ReadLattice, ReadBack
<1>. QED  BY <1>3, <1>4, <1>5

LEMMA BeamReadStep == BeamInv /\ ReadBeam => BeamInv'
<1>. SUFFICES ASSUME BeamInv, ReadBeam PROVE BeamInv'
  OBVIOUS
<1>. USE DEF BeamInv
<1>. DEFINE n == Len(decodedBeams) + 1
            m == BeamRead(written[n])
<1>1. /\ opened /\ decodedBeams' = Append(decodedBeams, m)
      /\ UNCHANGED <<lattice, beams, written, opened, defaults>>
      /\ decodedBeams \in Seq(Beam) /\ Len(decodedBeams) \in Nat /\ Len(written) \in Nat /\ Len(beams) \in Nat
      /\ n \in 1..Len(written) /\ n \in 1..Len(beams)
  BY DEF ReadBeam, BeamTypeOK, OutTyped
<1>2. beams[n] \in Beam /\ lattice \in Lattice /\ defaults \in Lattice
  BY <1>1 DEF BeamTypeOK
<1>3. m = BeamRead(Attrs(beams[n]))
  BY <1>1 DEF Written
<1>4. m \in Beam
  BY <1>2, <1>3, ReadTyped
<1>5. /\ decodedBeams' \in Seq(Beam) /\ Len(decodedBeams') = n /\ decodedBeams'[n] = m
      /\ \A k \in 1..Len(decodedBeams) : decodedBeams'[k] = decodedBeams[k]
  BY <1>1, <1>4
<1>6. BeamTypeOK' /\ OutTyped'
  BY <1>1, <1>5 DEF BeamTypeOK, OutTyped
<1>7. \A b : Attrs(b)' = Attrs(b)
  BY <1>1 DEF Attrs, BeamShows
<1>8. Written' /\ LatticeOpened'
  BY <1>1, <1>7 DEF Written, LatticeOpened, ReadLattice
<1>9. ReadBack'
  <2>1. \A x : BeamRead(x)' = BeamRead(x)
    BY <1>1 DEF BeamRead
  <2>2. SUFFICES ASSUME NEW k \in 1..Len(decodedBeams') PROVE decodedBeams'[k] = BeamRead(Attrs(beams[k]))
    BY <1>1, <1>7, <2>1 DEF ReadBack
  <2>3. CASE k \in 1..Len(decodedBeams)
    BY <2>3, <1>5, <1>1 DEF ReadBack
  <2>4. CASE k = n
    BY <2>4, <1>5, <1>3
  <2>. QED  BY <2>3, <2>4, <1>5, <1>1
<1>. QED  BY <1>6, <1>8, <1>9

LEMMA BeamInvStep == BeamInv /\ [BeamNext]_beamVars => BeamInv'
<1>1. ASSUME BeamInv, UNCHANGED beamVars PROVE BeamInv'
  <2>. USE <1>1 DEF BeamInv, beamVars
  <2>1. \A b : Attrs(b)' = Attrs(b)
    BY DEF Attrs, BeamShows
  <2>2. \A x : BeamRead(x)' = BeamRead(x)
    BY DEF BeamRead
  <2>3. BeamTypeOK' /\ OutTyped'
    BY DEF BeamTypeOK, OutTyped
  <2>4. LatticeOpened'
    BY DEF LatticeOpened, ReadLattice
  <2>5. Written' /\ (opened => ReadBack)'
    BY <2>1, <2>2 DEF Written, ReadBack
  <2>. QED  BY <2>3, <2>4, <2>5
<1>. QED  BY <1>1, BeamWriteStep, DefaultsStep, BeamReadStep DEF BeamNext

(***************************************************************************)
(* Every regular beam is read as it was meant, in lattices of any length,  *)
(* whatever the radii and whatever FormatFloat makes of them.              *)
(***************************************************************************)
THEOREM BeamsAlwaysReadAsMeant == BeamSpec => []RegularBeamsReadAsMeant
<1>1. BeamInv => RegularBeamsReadAsMeant
  <2>. SUFFICES ASSUME BeamInv, NEW k \in DOMAIN decodedBeams, Regular(beams[k])
                PROVE  decodedBeams[k] = BeamMeaning(beams[k])
    BY DEF RegularBeamsReadAsMeant
  <2>. USE DEF BeamInv
  <2>1. k \in 1..Len(decodedBeams) /\ k \in 1..Len(beams) /\ lattice \in Lattice
    BY DEF BeamTypeOK, OutTyped
  <2>2. beams[k] \in Beam
    BY <2>1 DEF BeamTypeOK
  <2>3. opened
    BY <2>1 DEF LatticeOpened
  <2>4. defaults = ReadLattice /\ decodedBeams[k] = BeamRead(Attrs(beams[k]))
    BY <2>1, <2>3 DEF LatticeOpened, ReadBack
  <2>. QED  BY <2>1, <2>2, <2>4, ReadRegular
<1>. QED  BY <1>1, BeamInvInit, BeamInvStep, PTL DEF BeamSpec

-----------------------------------------------------------------------------
(***************************************************************************)
(* The goroutines.  What makes OneErrorPerObject inductive: the WaitGroup  *)
(* counts those that are not done, the list is about those that are, and   *)
(* the one that has read the list holds the mutex.                         *)
(***************************************************************************)
Unfinished == {o \in Running : gpc[o] # "done"}

CountInv ==
  /\ layout \in Layouts
  /\ started \subseteq DOMAIN layout.sizes
  /\ Running = UNION {ObjectsIn(p) : p \in started}
  /\ \A o \in Running : gpc[o] \in {"check", "lock", "append", "done"}
  /\ IsFiniteSet(Unfinished) /\ wg = Cardinality(Unfinished)

MutexInv ==
  \A o \in Running :
    /\ gpc[o] \in {"lock", "append"} => o \in layout.bad
    /\ gpc[o] = "append" => mu = o /\ read[o] = list

About(s) == {s[k] : k \in DOMAIN s}
NoRepeat(s) == \A j, k \in DOMAIN s : s[j] = s[k] => j = k

ListInv ==
  /\ list \in Seq(layout.bad) /\ NoRepeat(list)
  /\ About(list) = {o \in Running \cap layout.bad : gpc[o] = "done"}

DoneInv == checked => AllStarted /\ wg = 0

ModelInv == CountInv /\ MutexInv /\ ListInv /\ DoneInv

LEMMA ObjectsFinite ==
  ASSUME NEW p, layout.sizes[p] \in Nat
  PROVE  /\ IsFiniteSet(ObjectsIn(p)) /\ Cardinality(ObjectsIn(p)) = layout.sizes[p]
         /\ \A o \in ObjectsIn(p) : o[1] = p /\ o # NoOne
<1>. DEFINE n == layout.sizes[p]
<1>0. n \in Nat
  OBVIOUS
<1>. HIDE DEF n
<1>1. IsFiniteSet(1..n) /\ Cardinality(1..n) = n
  BY <1>0, FS_Interval
<1>2. IsFiniteSet({p}) /\ Cardinality({p}) = 1
  BY FS_Singleton
<1>3. IsFiniteSet({p} \X (1..n)) /\ Cardinality({p} \X (1..n)) = 1 * n
  BY ONLY Zenon, <1>1, <1>2, FS_Product
<1>4. 1 * n = n
  BY <1>0
<1>5. \A o \in {p} \X (1..n) : o[1] = p /\ o # NoOne
  BY <1>0 DEF NoOne
<1>. QED
  BY <1>3, <1>4, <1>5 DEF ObjectsIn, n

LEMMA ModelInitInv == ModelInit => ModelInv
<1>. SUFFICES ASSUME ModelInit PROVE ModelInv
  OBVIOUS
<1>. USE DEF ModelInit
<1>1. Running = {} /\ Unfinished = {}
  BY DEF Running, Unfinished
<1>2. CountInv
  BY <1>1, FS_EmptySet DEF CountInv
<1>3. MutexInv
  BY <1>1 DEF MutexInv
<1>4. ListInv
  BY <1>1 DEF ListInv, About, NoRepeat
<1>. QED
  BY <1>2, <1>3, <1>4 DEF ModelInv, DoneInv

LEMMA NoOneRuns ==
  ASSUME CountInv
  PROVE  /\ NoOne \notin Running
         /\ \A p \in DOMAIN layout.sizes : layout.sizes[p] \in Nat
         /\ \A p \in DOMAIN layout.sizes : \A o \in ObjectsIn(p) : p \notin started => o \notin Running
<1>1. \A p \in DOMAIN layout.sizes : layout.sizes[p] \in Nat
  BY LayoutsAssumption DEF CountInv, LayoutsAssumption
<1>2. \A p \in DOMAIN layout.sizes : \A o \in ObjectsIn(p) : o[1] = p /\ o # NoOne
  BY <1>1, ObjectsFinite
<1>. QED
  BY <1>1, <1>2 DEF CountInv

LEMMA AppendList ==
  ASSUME NEW S, NEW s \in Seq(S), NEW x \in S, NoRepeat(s), x \notin About(s)
  PROVE  /\ Append(s, x) \in Seq(S) /\ NoRepeat(Append(s, x))
         /\ About(Append(s, x)) = About(s) \cup {x}
<1>1. /\ DOMAIN Append(s, x) = DOMAIN s \cup {Len(s) + 1}
      /\ \A k \in DOMAIN s : Append(s, x)[k] = s[k]
      /\ Append(s, x)[Len(s) + 1] = x
      /\ Append(s, x) \in Seq(S)
  OBVIOUS
<1>2. About(Append(s, x)) = About(s) \cup {x}
  BY <1>1 DEF About
<1>3. NoRepeat(Append(s, x))
  BY <1>1 DEF NoRepeat, About
<1>. QED
  BY <1>1, <1>2, <1>3

(* A goroutine that moves on, but is not done, or that is.                  *)
LEMMA MovedOn ==
  ASSUME CountInv, NEW o \in Running, NEW pc \in {"lock", "append", "done"}, Move(o, pc),
         gpc[o] # "done", UNCHANGED <<layout, started>>,
         wg' = IF pc = "done" THEN wg - 1 ELSE wg
  PROVE  /\ CountInv'
         /\ Running' = Running /\ gpc'[o] = pc
         /\ \A g \in Running : g # o => gpc'[g] = gpc[g]
<1>1. /\ Running' = Running /\ gpc'[o] = pc
      /\ \A g \in Running : g # o => gpc'[g] = gpc[g]
  BY DEF Move, Running
<1>2. Unfinished' = IF pc = "done" THEN Unfinished \ {o} ELSE Unfinished
  BY <1>1 DEF Unfinished
<1>3. o \in Unfinished /\ IsFiniteSet(Unfinished) /\ wg = Cardinality(Unfinished)
  BY DEF Unfinished, CountInv
<1>4. IsFiniteSet(Unfinished') /\ wg' = Cardinality(Unfinished')
  BY <1>2, <1>3, FS_RemoveElement
<1>5. \A g \in Running : gpc'[g] \in {"check", "lock", "append", "done"}
  BY <1>1 DEF CountInv
<1>6. \A p : ObjectsIn(p)' = ObjectsIn(p)
  BY DEF ObjectsIn
<1>7. Running' = UNION {ObjectsIn(p)' : p \in started'}
  BY <1>1, <1>6 DEF CountInv
<1>. QED
  BY <1>1, <1>4, <1>5, <1>7 DEF CountInv

LEMMA ModelStepInv == ModelInv /\ [ModelNext]_modelVars => ModelInv'
<1>. SUFFICES ASSUME ModelInv, [ModelNext]_modelVars PROVE ModelInv'
  OBVIOUS
<1>. USE DEF ModelInv
<1>0. ~checked \/ \A o \in Running : gpc[o] = "done"
  BY FS_EmptySet DEF CountInv, DoneInv, Unfinished
<1>1. ASSUME NEW p \in DOMAIN layout.sizes, StartPart(p) PROVE ModelInv'
  <2>1. /\ Running' = Running \cup ObjectsIn(p) /\ UNCHANGED <<layout, mu, read, list, checked>>
        /\ \A o \in Running : gpc'[o] = gpc[o]
        /\ \A o \in ObjectsIn(p) : o \notin Running => gpc'[o] = "check"
        /\ started' = started \cup {p} /\ p \notin started
        /\ wg' = wg + layout.sizes[p]
    BY <1>1 DEF StartPart, Running
  <2>2. /\ \A o \in ObjectsIn(p) : o \notin Running /\ gpc'[o] = "check"
        /\ IsFiniteSet(ObjectsIn(p)) /\ Cardinality(ObjectsIn(p)) = layout.sizes[p]
    BY <2>1, NoOneRuns, ObjectsFinite
  <2>3. Unfinished' = Unfinished \cup ObjectsIn(p) /\ Unfinished \cap ObjectsIn(p) = {}
    BY <2>1, <2>2 DEF Unfinished
  <2>4. IsFiniteSet(Unfinished') /\ wg' = Cardinality(Unfinished')
    <3>1. IsFiniteSet(Unfinished) /\ wg = Cardinality(Unfinished) /\ wg \in Nat
      BY FS_CardinalityType DEF CountInv
    <3>2. layout.sizes[p] \in Nat /\ Cardinality({}) = 0
      BY NoOneRuns, FS_EmptySet
    <3>3. /\ IsFiniteSet(Unfinished \cup ObjectsIn(p))
          /\ Cardinality(Unfinished \cup ObjectsIn(p)) = wg + layout.sizes[p] - 0
      BY <2>2, <2>3, <3>1, <3>2, FS_Union
    <3>. QED
      BY <2>1, <2>3, <3>1, <3>2, <3>3
  <2>5. \A q : ObjectsIn(q)' = ObjectsIn(q)
    BY <2>1 DEF ObjectsIn
  <2>6. Running' = UNION {ObjectsIn(q)' : q \in started'}
    BY <2>1, <2>5 DEF CountInv
  <2>7. \A o \in Running' : gpc'[o] \in {"check", "lock", "append", "done"}
    BY <2>1, <2>2 DEF CountInv
  <2>8. CountInv'
    BY <2>1, <2>4, <2>6, <2>7 DEF CountInv
  <2>9. MutexInv'
    BY <2>1, <2>2 DEF MutexInv
  <2>10. ListInv'
    BY <2>1, <2>2 DEF ListInv, About, NoRepeat
  <2>11. DoneInv'
    BY <2>1 DEF DoneInv, AllStarted
  <2>. QED
    BY <2>8, <2>9, <2>10, <2>11
<1>2. ASSUME NEW o \in Running, CheckMesh(o) PROVE ModelInv'
  <2>1. /\ gpc[o] = "check" /\ UNCHANGED <<layout, started, mu, read, list, checked>>
        /\ ~checked
    BY <1>0, <1>2 DEF CheckMesh
  <2>2. PICK pc \in {"lock", "done"} :
          /\ Move(o, pc) /\ (pc = "lock" <=> o \in layout.bad)
          /\ wg' = IF pc = "done" THEN wg - 1 ELSE wg
    BY <1>2 DEF CheckMesh
  <2>3. /\ CountInv' /\ Running' = Running /\ gpc'[o] = pc
        /\ \A g \in Running : g # o => gpc'[g] = gpc[g]
    BY <2>1, <2>2, MovedOn
  <2>4. MutexInv'
    BY <2>1, <2>2, <2>3 DEF MutexInv
  <2>5. {g \in Running \cap layout.bad : gpc[g] = "done"}
          = {g \in Running \cap layout.bad : gpc'[g] = "done"}
    BY <2>1, <2>2, <2>3
  <2>6. ListInv'
    BY <2>1, <2>3, <2>5 DEF ListInv, About, NoRepeat
  <2>. QED
    BY <2>1, <2>3, <2>4, <2>6 DEF DoneInv
<1>3. ASSUME NEW o \in Running, Lock(o) PROVE ModelInv'
  <2>1. /\ gpc[o] = "lock" /\ mu = NoOne /\ mu' = o /\ Move(o, "append")
        /\ UNCHANGED <<layout, started, wg, list, checked>> /\ read'[o] = list
        /\ ~checked
    BY <1>0, <1>3 DEF Lock
  <2>2. /\ CountInv' /\ Running' = Running /\ gpc'[o] = "append"
        /\ \A g \in Running : g # o => gpc'[g] = gpc[g]
    BY <2>1, MovedOn
  <2>3. \A g \in Running : gpc[g] # "append"
    BY <2>1, NoOneRuns DEF MutexInv
  <2>4. MutexInv'
    BY <2>1, <2>2, <2>3 DEF MutexInv
  <2>5. ListInv'
    BY <2>1, <2>2 DEF ListInv, About, NoRepeat
  <2>. QED
    BY <2>1, <2>2, <2>4, <2>5 DEF DoneInv
<1>4. ASSUME NEW o \in Running, AppendError(o) PROVE ModelInv'
  <2>1. /\ gpc[o] = "append" /\ list' = Append(read[o], o) /\ Move(o, "done") /\ wg' = wg - 1
        /\ UNCHANGED <<layout, started, read, checked>> /\ ~checked
    BY <1>0, <1>4 DEF AppendError
  <2>2. mu = o /\ read[o] = list /\ o \in layout.bad
    BY <2>1 DEF MutexInv
  <2>3. /\ CountInv' /\ Running' = Running /\ gpc'[o] = "done"
        /\ \A g \in Running : g # o => gpc'[g] = gpc[g]
    BY <2>1, MovedOn
  <2>4. \A g \in Running : g # o => gpc[g] # "append"
    BY <2>2 DEF MutexInv
  <2>5. MutexInv'
    BY <2>1, <2>3, <2>4 DEF MutexInv
  <2>6. o \notin About(list)
    BY <2>1 DEF ListInv
  <2>7. /\ list' \in Seq(layout.bad) /\ NoRepeat(list')
        /\ About(list') = About(list) \cup {o}
    BY <2>1, <2>2, <2>6, AppendList DEF ListInv
  <2>8. {g \in Running \cap layout.bad : gpc'[g] = "done"}
          = {g \in Running \cap layout.bad : gpc[g] = "done"} \cup {o}
    BY <2>2, <2>3
  <2>9. ListInv'
    BY <2>1, <2>3, <2>7, <2>8 DEF ListInv, About, NoRepeat
  <2>. QED
    BY <2>1, <2>3, <2>5, <2>9 DEF DoneInv
<1>5. CASE Wait \/ UNCHANGED modelVars
  <2>1. UNCHANGED <<layout, started, gpc, wg, mu, read, list>>
    BY <1>5 DEF Wait, modelVars
  <2>2. CountInv' /\ MutexInv' /\ ListInv'
    BY <2>1 DEF CountInv, MutexInv, ListInv, About, NoRepeat, Running, Unfinished, ObjectsIn
  <2>3. DoneInv'
    BY <1>5, <2>1 DEF DoneInv, Wait, modelVars, AllStarted
  <2>. QED
    BY <2>2, <2>3
<1>. QED
  BY <1>1, <1>2, <1>3, <1>4, <1>5 DEF ModelNext, Goroutine

(***************************************************************************)
(* One error for every incoherent solid object, however many goroutines    *)
(* there are and whichever way they interleave.                            *)
(***************************************************************************)
THEOREM ErrorsAreExact == ModelSpec => []OneErrorPerObject
<1>1. ModelInv => OneErrorPerObject
  <2>. SUFFICES ASSUME ModelInv, checked
                PROVE  About(list) = layout.bad /\ NoRepeat(list)
    BY DEF OneErrorPerObject, About, NoRepeat
  <2>. USE DEF ModelInv
  <2>1. \A o \in Running : gpc[o] = "done"
    BY FS_EmptySet DEF CountInv, DoneInv, Unfinished
  <2>2. layout.bad \subseteq Running
    <3>1. layout.bad \subseteq UNION {{p} \X (1..layout.sizes[p]) : p \in DOMAIN layout.sizes}
      BY LayoutsAssumption DEF CountInv, LayoutsAssumption
    <3>2. Running = UNION {{p} \X (1..layout.sizes[p]) : p \in DOMAIN layout.sizes}
      BY DEF CountInv, DoneInv, AllStarted, ObjectsIn
    <3>. QED
      BY <3>1, <3>2
  <2>. QED
    BY <2>1, <2>2 DEF ListInv
<1>. QED
  BY <1>1, ModelInitInv, ModelStepInv, PTL DEF ModelSpec

(***************************************************************************)
(* The mesh.  What makes NilMeansClosed inductive: the pairs are numbered  *)
(* one to one, and the counts are those of the edges counted so far.       *)
(***************************************************************************)
Number(k) == pairMatching[newPairEntry(Edge(k))]
PairNumbers   == 0..(edgeCounter - 1)
Matched   == IF phase = "match" THEN e - 1 ELSE EdgeCount
Counted   == IF phase = "count" THEN e - 1 ELSE EdgeCount

Ups(n, m)   == {k \in 1..m : Number(k) = n /\ Ascends(Edge(k))}
Downs(n, m) == {k \in 1..m : Number(k) = n /\ ~Ascends(Edge(k))}

PositionInv ==
  /\ mesh \in Meshes
  /\ phase \in {"sizes", "match", "count", "compare", "done"}
  /\ phase = "sizes" => e = 1
  /\ phase \in {"match", "count"} => e \in 1..(EdgeCount + 1)
  /\ phase = "compare" => e \in 0..edgeCounter
  /\ phase = "done" <=> coherent \in {"sizes", "nil", "consistency"}

MatchInv ==
  /\ edgeCounter \in Nat
  /\ DOMAIN pairMatching = {newPairEntry(Edge(k)) : k \in 1..Matched}
  /\ \A p \in DOMAIN pairMatching : pairMatching[p] \in PairNumbers
  /\ \A n \in PairNumbers : \E p \in DOMAIN pairMatching : pairMatching[p] = n
  /\ \A p, q \in DOMAIN pairMatching : pairMatching[p] = pairMatching[q] => p = q

UsesInv ==
  /\ positive \in [PairNumbers -> Nat] /\ negative \in [PairNumbers -> Nat]
  /\ \A n \in PairNumbers : /\ positive[n] = Cardinality(Ups(n, Counted))
                        /\ negative[n] = Cardinality(Downs(n, Counted))

OnceInv ==
  /\ phase = "compare" => \A n \in 0..(e - 1) : Once(n)
  /\ coherent = "nil" => \A n \in PairNumbers : Once(n)
  /\ coherent = "consistency" => \E n \in PairNumbers : ~Once(n)

MeshInv ==
  /\ PositionInv
  /\ phase = "sizes" => pairMatching = <<>> /\ edgeCounter = 0
  /\ phase # "sizes" /\ coherent # "sizes" => MatchInv
  /\ phase \in {"count", "compare", "done"} /\ coherent # "sizes" => UsesInv
  /\ OnceInv

LEMMA EdgeCountType ==
  ASSUME mesh \in Meshes
  PROVE  /\ EdgeCount \in Nat
         /\ \A k \in 1..EdgeCount : Edge(k) \in Nat \X Nat
<1>1. mesh.triangles \in Seq(Triangles)
  BY MeshesAssumption DEF MeshesAssumption
<1>2. EdgeCount \in Nat
  BY <1>1 DEF EdgeCount
<1>3. ASSUME NEW k \in 1..EdgeCount PROVE Edge(k) \in Nat \X Nat
  <2>1. 1 + ((k - 1) \div 3) \in 1..Len(mesh.triangles)
    BY <1>1 DEF EdgeCount
  <2>2. Face(k) \in Triangles
    BY <1>1, <2>1 DEF Face
  <2>3. Corner(k) \in {1, 2, 3}
    BY <1>1 DEF Corner, EdgeCount
  <2>4. 1 + (Corner(k) % 3) \in {1, 2, 3}
    BY <2>3
  <2>5. \A c \in {1, 2, 3} : Face(k)[c] \in Nat
    BY <2>2 DEF Triangles
  <2>. QED
    BY <2>3, <2>4, <2>5 DEF Edge
<1>. QED
  BY <1>2, <1>3

(* The pair of two edges is one exactly when they join the same vertices.   *)
LEMMA OnePair ==
  ASSUME NEW x \in Nat \X Nat, NEW y \in Nat \X Nat
  PROVE  /\ newPairEntry(x) = newPairEntry(y) /\ (Ascends(x) <=> Ascends(y)) => x = y
         /\ newPairEntry(x) = newPairEntry(y) /\ ~(Ascends(x) <=> Ascends(y)) => x = Reverse2(y)
         /\ x = Reverse2(y) => newPairEntry(x) = newPairEntry(y)
         /\ x = Reverse2(y) /\ x # y => ~(Ascends(x) <=> Ascends(y))
  BY DEF newPairEntry, Ascends, Reverse2

LEMMA MeshInitInv == CoherencyInit => MeshInv
<1>. SUFFICES ASSUME CoherencyInit PROVE MeshInv
  OBVIOUS
<1>1. PositionInv
  BY DEF CoherencyInit, PositionInv
<1>. QED
  BY <1>1 DEF CoherencyInit, MeshInv, OnceInv

(* The numbering, one edge later.                                          *)
LEMMA MatchStep ==
  ASSUME MeshInv, MatchEdge
  PROVE  MatchInv'
<1>. DEFINE pair == newPairEntry(Edge(e))
<1>1. /\ phase = "match" /\ phase' = "match" /\ e' = e + 1 /\ e \in 1..EdgeCount
      /\ UNCHANGED <<mesh, coherent>> /\ MatchInv /\ mesh \in Meshes
  BY EdgeCountType DEF MatchEdge, MeshInv, PositionInv
<1>2. /\ EdgeCount' = EdgeCount
      /\ \A k : newPairEntry(Edge(k))' = newPairEntry(Edge(k))
  BY <1>1 DEF EdgeCount, Edge, Face, Corner, newPairEntry, Reverse2
<1>3. Matched = e - 1 /\ Matched' = e /\ e \in Nat \ {0}
  BY <1>1, EdgeCountType DEF Matched
<1>4. 1..e = (1..(e - 1)) \cup {e}
  BY <1>3
<1>. DEFINE Pairs == {newPairEntry(Edge(k)) : k \in 1..(e - 1)}
<1>5. {newPairEntry(Edge(k))' : k \in 1..e} = Pairs \cup {pair}
  BY <1>2, <1>4
<1>6. DOMAIN pairMatching = Pairs
  BY <1>1, <1>3 DEF MatchInv
<1>. HIDE DEF pair, Pairs
<1>7. CASE pair \in DOMAIN pairMatching
  <2>1. UNCHANGED <<pairMatching, edgeCounter>>
    BY <1>7 DEF MatchEdge, pair
  <2>2. DOMAIN pairMatching' = {newPairEntry(Edge(k))' : k \in 1..e}
    BY <1>5, <1>6, <1>7, <2>1
  <2>. QED
    BY <1>1, <1>3, <2>1, <2>2 DEF MatchInv, PairNumbers
<1>8. CASE pair \notin DOMAIN pairMatching
  <2>1. /\ pairMatching' = [p \in DOMAIN pairMatching \cup {pair} |->
                             IF p = pair THEN edgeCounter ELSE pairMatching[p]]
        /\ edgeCounter' = edgeCounter + 1
    BY <1>8 DEF MatchEdge, pair
  <2>2. DOMAIN pairMatching' = {newPairEntry(Edge(k))' : k \in 1..e}
    BY <1>5, <1>6, <2>1
  <2>3. edgeCounter \in Nat /\ PairNumbers' = PairNumbers \cup {edgeCounter} /\ edgeCounter \notin PairNumbers
    BY <1>1, <2>1 DEF MatchInv, PairNumbers
  <2>4. /\ DOMAIN pairMatching' = DOMAIN pairMatching \cup {pair}
        /\ pairMatching'[pair] = edgeCounter
        /\ \A p \in DOMAIN pairMatching : pairMatching'[p] = pairMatching[p]
    BY <1>8, <2>1
  <2>5. \A p \in DOMAIN pairMatching' : pairMatching'[p] \in PairNumbers'
    BY <1>1, <2>3, <2>4 DEF MatchInv
  <2>6. \A n \in PairNumbers' : \E p \in DOMAIN pairMatching' : pairMatching'[p] = n
    BY <1>1, <2>3, <2>4 DEF MatchInv
  <2>7. \A p, q \in DOMAIN pairMatching' : pairMatching'[p] = pairMatching'[q] => p = q
    BY <1>1, <2>3, <2>4 DEF MatchInv
  <2>8. edgeCounter' \in Nat
    BY <2>1, <2>3
  <2>. QED
    BY <1>3, <2>2, <2>5, <2>6, <2>7, <2>8 DEF MatchInv
<1>. QED
  BY <1>7, <1>8

(* The uses of a number among the first m edges, and among one edge more.   *)
LEMMA OneUseMore ==
  ASSUME NEW n, NEW m \in Nat
  PROVE  /\ Ups(n, m + 1) = Ups(n, m) \cup
              (IF Number(m + 1) = n /\ Ascends(Edge(m + 1)) THEN {m + 1} ELSE {})
         /\ Downs(n, m + 1) = Downs(n, m) \cup
              (IF Number(m + 1) = n /\ ~Ascends(Edge(m + 1)) THEN {m + 1} ELSE {})
         /\ m + 1 \notin Ups(n, m) /\ m + 1 \notin Downs(n, m)
         /\ IsFiniteSet(Ups(n, m)) /\ IsFiniteSet(Downs(n, m))
<1>1. 1..(m + 1) = (1..m) \cup {m + 1} /\ m + 1 \notin 1..m
  OBVIOUS
<1>2. IsFiniteSet(1..m)
  BY FS_Interval
<1>3. IsFiniteSet(Ups(n, m)) /\ IsFiniteSet(Downs(n, m))
  BY <1>2, FS_Subset DEF Ups, Downs
<1>. QED
  BY <1>1, <1>3 DEF Ups, Downs

LEMMA CountStep ==
  ASSUME MeshInv, CountEdge
  PROVE  UsesInv' /\ MatchInv'
<1>1. /\ phase = "count" /\ phase' = "count" /\ e' = e + 1 /\ e \in 1..EdgeCount
      /\ UNCHANGED <<mesh, pairMatching, edgeCounter, coherent>>
      /\ MatchInv /\ UsesInv /\ mesh \in Meshes /\ EdgeCount \in Nat
  BY EdgeCountType DEF CountEdge, MeshInv, PositionInv
<1>2. /\ EdgeCount' = EdgeCount
      /\ \A k : newPairEntry(Edge(k))' = newPairEntry(Edge(k))
      /\ \A k : Number(k)' = Number(k)
      /\ \A k : Ascends(Edge(k))' = Ascends(Edge(k))
      /\ PairNumbers' = PairNumbers
  BY <1>1 DEF EdgeCount, Edge, Face, Corner, newPairEntry, Reverse2, Number, Ascends, PairNumbers
<1>3. /\ Counted = e - 1 /\ Counted' = e /\ e - 1 \in Nat /\ (e - 1) + 1 = e
      /\ Matched = EdgeCount /\ Matched' = EdgeCount
  BY <1>1, <1>2 DEF Counted, Matched
<1>4. MatchInv'
  BY <1>1, <1>2, <1>3 DEF MatchInv
<1>. DEFINE n == Number(e)
<1>5. n \in PairNumbers
  BY <1>1, <1>3 DEF MatchInv, Number
<1>6. ASSUME NEW k \in PairNumbers
      PROVE  /\ positive'[k] = IF k = n /\ Ascends(Edge(e)) THEN positive[k] + 1 ELSE positive[k]
             /\ negative'[k] = IF k = n /\ ~Ascends(Edge(e)) THEN negative[k] + 1 ELSE negative[k]
  BY <1>1 DEF CountEdge, Increment, Number, UsesInv
<1>7. positive' \in [PairNumbers -> Nat] /\ negative' \in [PairNumbers -> Nat]
  BY <1>1 DEF CountEdge, Increment, UsesInv
<1>8. ASSUME NEW k \in PairNumbers
      PROVE  /\ positive'[k] = Cardinality(Ups(k, e))
             /\ negative'[k] = Cardinality(Downs(k, e))
  <2>1. /\ Ups(k, e) = Ups(k, e - 1) \cup (IF n = k /\ Ascends(Edge(e)) THEN {e} ELSE {})
        /\ Downs(k, e) = Downs(k, e - 1) \cup (IF n = k /\ ~Ascends(Edge(e)) THEN {e} ELSE {})
        /\ e \notin Ups(k, e - 1) /\ e \notin Downs(k, e - 1)
        /\ IsFiniteSet(Ups(k, e - 1)) /\ IsFiniteSet(Downs(k, e - 1))
    BY <1>3, OneUseMore
  <2>2. /\ positive[k] = Cardinality(Ups(k, e - 1)) /\ negative[k] = Cardinality(Downs(k, e - 1))
    BY <1>1, <1>3 DEF UsesInv
  <2>3. /\ Cardinality(Ups(k, e - 1) \cup {e}) = positive[k] + 1
        /\ Cardinality(Downs(k, e - 1) \cup {e}) = negative[k] + 1
    BY ONLY <2>1, <2>2, FS_AddElement
  <2>. HIDE DEF n
  <2>4. positive'[k] = Cardinality(Ups(k, e))
    BY <1>6, <2>1, <2>2, <2>3
  <2>5. negative'[k] = Cardinality(Downs(k, e))
    BY <1>6, <2>1, <2>2, <2>3
  <2>. QED
    BY <2>4, <2>5
<1>9. \A k, m : Ups(k, m)' = Ups(k, m) /\ Downs(k, m)' = Downs(k, m)
  BY <1>2 DEF Ups, Downs
<1>10. UsesInv'
  BY <1>2, <1>3, <1>7, <1>8, <1>9 DEF UsesInv
<1>. QED
  BY <1>4, <1>10

LEMMA MeshStepInv == MeshInv /\ [CoherencyNext]_coherencyVars => MeshInv'
<1>. SUFFICES ASSUME MeshInv, [CoherencyNext]_coherencyVars PROVE MeshInv'
  OBVIOUS
<1>0. mesh \in Meshes /\ EdgeCount \in Nat
  BY EdgeCountType DEF MeshInv, PositionInv
<1>1. CASE CheckSizes
  <2>1. /\ phase = "sizes" /\ UNCHANGED <<mesh, e, pairMatching, edgeCounter, positive, negative>>
        /\ e = 1 /\ coherent \notin {"sizes", "nil", "consistency"}
        /\ pairMatching = <<>> /\ edgeCounter = 0
        /\ \/ phase' = "done" /\ coherent' = "sizes"
           \/ phase' = "match" /\ coherent' = coherent
        /\ EdgeCount' = EdgeCount
    BY <1>1 DEF CheckSizes, MeshInv, PositionInv, EdgeCount
  <2>2. PositionInv'
    BY <1>0, <2>1 DEF PositionInv
  <2>3. OnceInv'
    BY <2>1 DEF OnceInv
  <2>4. ASSUME phase' = "match" PROVE MatchInv'
    <3>1. Matched' = 0 /\ PairNumbers' = {} /\ DOMAIN pairMatching' = {}
      BY <2>1, <2>4 DEF Matched, PairNumbers
    <3>. QED
      BY <2>1, <3>1 DEF MatchInv
  <2>. QED
    BY <2>1, <2>2, <2>3, <2>4 DEF MeshInv
<1>2. CASE MatchEdge
  <2>1. MatchInv'
    BY <1>2, MatchStep
  <2>2. /\ phase = "match" /\ phase' = "match" /\ e' = e + 1 /\ e \in 1..EdgeCount
        /\ UNCHANGED <<mesh, coherent>> /\ EdgeCount' = EdgeCount
        /\ coherent \notin {"sizes", "nil", "consistency"}
    BY <1>0, <1>2 DEF MatchEdge, MeshInv, PositionInv, EdgeCount
  <2>3. PositionInv'
    BY <1>0, <2>2 DEF PositionInv
  <2>. QED
    BY <2>1, <2>2, <2>3 DEF MeshInv, OnceInv
<1>3. CASE StartCounting
  <2>1. /\ phase = "match" /\ phase' = "count" /\ e' = 1 /\ e = EdgeCount + 1
        /\ UNCHANGED <<mesh, pairMatching, edgeCounter, coherent>> /\ EdgeCount' = EdgeCount
        /\ coherent \notin {"sizes", "nil", "consistency"} /\ MatchInv
    BY <1>0, <1>3 DEF StartCounting, MeshInv, PositionInv, EdgeCount
  <2>2. PositionInv'
    BY <1>0, <2>1 DEF PositionInv
  <2>3. /\ \A k : newPairEntry(Edge(k))' = newPairEntry(Edge(k))
        /\ Matched = EdgeCount /\ Matched' = EdgeCount /\ Counted' = 0
        /\ PairNumbers' = PairNumbers
    BY <1>0, <2>1 DEF Edge, Face, Corner, newPairEntry, Reverse2, Matched, Counted, PairNumbers
  <2>4. MatchInv'
    BY <2>1, <2>3 DEF MatchInv
  <2>5. /\ positive' = [n \in PairNumbers |-> 0] /\ negative' = [n \in PairNumbers |-> 0]
    BY <1>3 DEF StartCounting, Zeros, PairNumbers
  <2>6. \A n : Ups(n, 0)' = {} /\ Downs(n, 0)' = {}
    BY DEF Ups, Downs
  <2>7. UsesInv'
    BY <2>3, <2>5, <2>6, FS_EmptySet DEF UsesInv
  <2>. QED
    BY <2>1, <2>2, <2>4, <2>7 DEF MeshInv, OnceInv
<1>4. CASE CountEdge
  <2>1. UsesInv' /\ MatchInv'
    BY <1>4, CountStep
  <2>2. /\ phase = "count" /\ phase' = "count" /\ e' = e + 1 /\ e \in 1..EdgeCount
        /\ UNCHANGED <<mesh, coherent>> /\ EdgeCount' = EdgeCount
        /\ coherent \notin {"sizes", "nil", "consistency"}
    BY <1>0, <1>4 DEF CountEdge, MeshInv, PositionInv, EdgeCount
  <2>3. PositionInv'
    BY <1>0, <2>2 DEF PositionInv
  <2>. QED
    BY <2>1, <2>2, <2>3 DEF MeshInv, OnceInv
<1>5. CASE StartComparing \/ Compare
  <2>1. /\ UNCHANGED <<mesh, pairMatching, edgeCounter, positive, negative>>
        /\ coherent \notin {"sizes", "nil", "consistency"} /\ MatchInv
        /\ phase \in {"count", "compare"} /\ phase' \in {"compare", "done"} /\ UsesInv
    BY <1>5 DEF StartComparing, Compare, MeshInv, PositionInv
  <2>2. /\ \A k : newPairEntry(Edge(k))' = newPairEntry(Edge(k)) /\ Number(k)' = Number(k)
        /\ \A k : Ascends(Edge(k))' = Ascends(Edge(k))
        /\ EdgeCount' = EdgeCount /\ PairNumbers' = PairNumbers /\ \A n : Once(n)' = Once(n)
    BY <2>1 DEF Edge, Face, Corner, newPairEntry, Reverse2, Ascends, PairNumbers, EdgeCount, Number, Once
  <2>3. /\ Matched = EdgeCount /\ Matched' = EdgeCount /\ Counted' = EdgeCount /\ Counted = EdgeCount
    <3>1. phase = "count" => e = EdgeCount + 1
      BY <1>0, <1>5, <2>1 DEF StartComparing, Compare, MeshInv, PositionInv
    <3>. QED
      BY <1>0, <2>1, <2>2, <3>1 DEF Matched, Counted
  <2>4. MatchInv'
    BY <2>1, <2>2, <2>3 DEF MatchInv
  <2>5. \A k, m : Ups(k, m)' = Ups(k, m) /\ Downs(k, m)' = Downs(k, m)
    BY <2>2 DEF Ups, Downs
  <2>6. UsesInv'
    BY <2>1, <2>2, <2>3, <2>5 DEF UsesInv
  <2>7. PositionInv' /\ OnceInv'
    <3>1. edgeCounter \in Nat /\ edgeCounter' = edgeCounter
      BY <2>1 DEF MatchInv
    <3>2. CASE StartComparing
      <4>1. phase' = "compare" /\ e' = 0 /\ coherent' = coherent
        BY <3>2 DEF StartComparing
      <4>. QED
        BY <1>0, <2>1, <3>1, <4>1 DEF PositionInv, OnceInv
    <3>3. CASE Compare /\ e < edgeCounter /\ Once(e)
      <4>1. /\ phase = "compare" /\ phase' = "compare" /\ e' = e + 1 /\ coherent' = coherent
            /\ e \in 0..edgeCounter /\ \A n \in 0..(e - 1) : Once(n)
        BY <3>3 DEF Compare, MeshInv, PositionInv, OnceInv
      <4>2. PositionInv'
        BY <1>0, <2>1, <3>1, <3>3, <4>1 DEF PositionInv
      <4>3. \A n \in 0..(e' - 1) : Once(n)
        BY <3>1, <3>3, <4>1
      <4>. QED
        BY <2>1, <2>2, <4>1, <4>2, <4>3 DEF OnceInv
    <3>4. CASE Compare /\ ~(e < edgeCounter /\ Once(e))
      <4>1. /\ phase = "compare" /\ phase' = "done" /\ e' = e
            /\ coherent' = IF e < edgeCounter THEN "consistency" ELSE "nil"
            /\ e \in 0..edgeCounter /\ \A n \in 0..(e - 1) : Once(n)
        BY <3>4 DEF Compare, MeshInv, PositionInv, OnceInv
      <4>2. PositionInv'
        BY <1>0, <2>1, <3>1, <4>1 DEF PositionInv
      <4>3. CASE e < edgeCounter
        <5>1. e \in PairNumbers /\ ~Once(e) /\ coherent' = "consistency"
          BY <3>1, <3>4, <4>1, <4>3 DEF PairNumbers
        <5>. QED
          BY <2>2, <4>1, <4>2, <5>1 DEF OnceInv
      <4>4. CASE ~(e < edgeCounter)
        <5>1. e = edgeCounter /\ coherent' = "nil"
          BY <3>1, <4>1, <4>4
        <5>. QED
          BY <2>2, <4>1, <4>2, <5>1 DEF OnceInv, PairNumbers
      <4>. QED
        BY <4>3, <4>4
    <3>. QED
      BY <1>5, <3>2, <3>3, <3>4
  <2>. QED
    BY <2>1, <2>4, <2>6, <2>7 DEF MeshInv
<1>6. CASE UNCHANGED coherencyVars
  <2>1. UNCHANGED <<mesh, phase, e, pairMatching, edgeCounter, positive, negative, coherent>>
    BY <1>6 DEF coherencyVars
  <2>2. /\ \A k : newPairEntry(Edge(k))' = newPairEntry(Edge(k)) /\ Number(k)' = Number(k)
        /\ \A k : Ascends(Edge(k))' = Ascends(Edge(k))
        /\ EdgeCount' = EdgeCount /\ PairNumbers' = PairNumbers /\ \A n : Once(n)' = Once(n)
        /\ Matched' = Matched /\ Counted' = Counted
    BY <2>1 DEF Edge, Face, Corner, newPairEntry, Reverse2, Ascends, PairNumbers, EdgeCount, Number, Once,
                Matched, Counted
  <2>3. \A k, m : Ups(k, m)' = Ups(k, m) /\ Downs(k, m)' = Downs(k, m)
    BY <2>2 DEF Ups, Downs
  <2>4. PositionInv' /\ OnceInv'
    BY <2>1, <2>2 DEF MeshInv, PositionInv, OnceInv
  <2>5. MatchInv' <=> MatchInv
    BY <2>1, <2>2 DEF MatchInv
  <2>6. UsesInv' <=> UsesInv
    BY <2>1, <2>2, <2>3 DEF UsesInv
  <2>. QED
    BY <2>1, <2>4, <2>5, <2>6 DEF MeshInv
<1>. QED
  BY <1>1, <1>2, <1>3, <1>4, <1>5, <1>6 DEF CoherencyNext

LEMMA OneUse ==
  ASSUME NEW S, IsFiniteSet(S)
  PROVE  Cardinality(S) = 1 <=> \E k : S = {k}
  BY FS_Singleton

(* All numbers are used once both ways exactly when the mesh is closed.      *)
LEMMA OnceIsClosed ==
  ASSUME mesh \in Meshes, MatchInv, UsesInv, Matched = EdgeCount, Counted = EdgeCount
  PROVE  (\A n \in PairNumbers : Once(n)) <=> Closed
<1>. DEFINE E == 1..EdgeCount
<1>1. EdgeCount \in Nat /\ \A k \in E : Edge(k) \in Nat \X Nat
  BY EdgeCountType
<1>2. \A k \in E : Number(k) \in PairNumbers
  BY DEF MatchInv, Number
<1>3. \A n \in PairNumbers : \E k \in E : Number(k) = n
  BY DEF MatchInv, Number
<1>4. \A j, k \in E : Number(j) = Number(k) => newPairEntry(Edge(j)) = newPairEntry(Edge(k))
  BY DEF MatchInv, Number
<1>5. \A j, k \in E : newPairEntry(Edge(j)) = newPairEntry(Edge(k)) => Number(j) = Number(k)
  BY DEF Number
<1>. DEFINE Up(n) == Ups(n, EdgeCount)
            Down(n) == Downs(n, EdgeCount)
<1>6. \A n \in PairNumbers : Once(n) <=> (\E k : Up(n) = {k}) /\ (\E k : Down(n) = {k})
  <2>1. \A n : IsFiniteSet(Up(n)) /\ IsFiniteSet(Down(n))
    BY <1>1, OneUseMore
  <2>2. \A n \in PairNumbers : positive[n] = Cardinality(Up(n)) /\ negative[n] = Cardinality(Down(n))
    BY DEF UsesInv
  <2>3. \A n : (Cardinality(Up(n)) = 1 <=> \E k : Up(n) = {k})
               /\ (Cardinality(Down(n)) = 1 <=> \E k : Down(n) = {k})
    BY <2>1, OneUse
  <2>. QED
    BY <2>2, <2>3 DEF Once
<1>7. \A n : /\ Up(n) = {k \in E : Number(k) = n /\ Ascends(Edge(k))}
             /\ Down(n) = {k \in E : Number(k) = n /\ ~Ascends(Edge(k))}
  BY DEF Ups, Downs
<1>. HIDE DEF E, Up, Down
<1>8. ASSUME \A n \in PairNumbers : Once(n), NEW k \in E
      PROVE  /\ \A j \in E : Edge(j) = Edge(k) => j = k
             /\ \E j \in E : Edge(j) = Reverse2(Edge(k)) /\ j # k
  <2>. DEFINE n == Number(k)
  <2>1. PICK u, d : Up(n) = {u} /\ Down(n) = {d}
    BY <1>2, <1>6, <1>8
  <2>2. u \in E /\ d \in E /\ Number(u) = n /\ Number(d) = n /\ Ascends(Edge(u)) /\ ~Ascends(Edge(d))
    BY <1>7, <2>1
  <2>3. k = u \/ k = d
    BY <1>7, <2>1
  <2>4. ASSUME NEW j \in E, Edge(j) = Edge(k) PROVE j = k
    <3>1. Number(j) = n /\ (Ascends(Edge(j)) <=> Ascends(Edge(k)))
      BY <2>4 DEF Number
    <3>. QED
      BY <1>7, <2>1, <2>2, <2>3, <3>1
  <2>5. Edge(u) = Reverse2(Edge(d)) /\ Edge(d) = Reverse2(Edge(u)) /\ u # d
    BY <1>1, <1>4, <2>2, OnePair
  <2>. QED
    BY <2>2, <2>3, <2>4, <2>5
<1>9. ASSUME \A k \in E : /\ \A j \in E : Edge(j) = Edge(k) => j = k
                          /\ \E j \in E : Edge(j) = Reverse2(Edge(k)) /\ j # k,
             NEW n \in PairNumbers
      PROVE  Once(n)
  <2>1. PICK k \in E : Number(k) = n
    BY <1>3
  <2>2. PICK j \in E : Edge(j) = Reverse2(Edge(k)) /\ j # k
    BY <1>9
  <2>3. Edge(j) # Edge(k)
    BY <1>9, <2>2
  <2>4. Number(j) = n /\ ~(Ascends(Edge(j)) <=> Ascends(Edge(k)))
    BY <1>1, <1>5, <2>1, <2>2, <2>3, OnePair
  <2>5. \A i \in E : Number(i) = n => i = j \/ i = k
    <3>. SUFFICES ASSUME NEW i \in E, Number(i) = n PROVE i = j \/ i = k
      OBVIOUS
    <3>1. CASE Ascends(Edge(i)) <=> Ascends(Edge(k))
      BY <1>1, <1>4, <1>9, <2>1, <3>1, OnePair
    <3>2. CASE ~(Ascends(Edge(i)) <=> Ascends(Edge(k)))
      <4>1. Ascends(Edge(i)) <=> Ascends(Edge(j))
        BY <2>4, <3>2
      <4>. QED
        BY <1>1, <1>4, <1>9, <2>4, <4>1, OnePair
    <3>. QED
      BY <3>1, <3>2
  <2>6. CASE Ascends(Edge(k))
    <3>1. Up(n) = {k} /\ Down(n) = {j}
      BY <1>7, <2>1, <2>4, <2>5, <2>6
    <3>. QED
      BY <1>6, <3>1
  <2>7. CASE ~Ascends(Edge(k))
    <3>1. Up(n) = {j} /\ Down(n) = {k}
      BY <1>7, <2>1, <2>4, <2>5, <2>7
    <3>. QED
      BY <1>6, <3>1
  <2>. QED
    BY <2>6, <2>7
<1>. QED
  BY <1>8, <1>9 DEF Closed, E

(***************************************************************************)
(* A mesh of any size is found coherent exactly when every edge is used    *)
(* once in each direction.                                                 *)
(***************************************************************************)
THEOREM CoherentIsClosed == CoherencySpec => []NilMeansClosed
<1>1. MeshInv => NilMeansClosed
  <2>. SUFFICES ASSUME MeshInv, coherent \in {"nil", "consistency"}
                PROVE  coherent = "nil" <=> Closed
    BY DEF NilMeansClosed
  <2>1. mesh \in Meshes /\ phase = "done" /\ MatchInv /\ UsesInv
    BY DEF MeshInv, PositionInv
  <2>2. (\A n \in PairNumbers : Once(n)) <=> Closed
    BY <2>1, OnceIsClosed DEF Matched, Counted
  <2>. QED
    BY <2>2 DEF MeshInv, OnceInv
<1>. QED
  BY <1>1, MeshInitInv, MeshStepInv, PTL DEF CoherencySpec

-----------------------------------------------------------------------------
(***************************************************************************)
(* In any model that Validate accepts the properties of the     *)
(* triangles can be looked up, and the slices of the stacks ascend.        *)
(*                                                                         *)
(* The invariant says what the resources that were visited have been       *)
(* checked for, as long as no error was found: none has errors of its own, *)
(* and an asset has no ID that another had before it.  The two come        *)
(* together only when the whole part is done: the lookup that validates a  *)
(* triangle takes the first asset with the ID, and the loop over the       *)
(* assets says that there is no other.  The slices that a stack refers to  *)
(* are in another part, which has to be done as well.                      *)
(***************************************************************************)
Total(path) == Len(AssetsOf(path)) + Len(ObjectsOf(path))

(* No two of the assets before place p have the same ID, other than none.  *)
DistinctBefore(path, p) ==
  \A j, k \in DOMAIN AssetsOf(path) :
    j < k /\ k < p /\ AssetsOf(path)[j].id = AssetsOf(path)[k].id => AssetsOf(path)[k].id = 0

(* The objects before place p have no errors.                              *)
SoundBefore(path, p) ==
  \A k \in DOMAIN ObjectsOf(path) :
    Len(AssetsOf(path)) + k < p => ObjectErrors(path, ObjectsOf(path)[k]) = {}

(* The assets before place p have none either.                             *)
AssetsSoundBefore(path, p) ==
  \A k \in DOMAIN AssetsOf(path) : k < p => AssetErrors(path, AssetsOf(path)[k]) = {}

CleanBefore(path, p) ==
  DistinctBefore(path, p) /\ AssetsSoundBefore(path, p) /\ SoundBefore(path, p)

PlaceOK ==
  /\ package \in Packages
  /\ part \in Nat /\ place \in Nat
  /\ 1 <= part /\ part <= Len(PartOrder) + 1

SeenOK ==
  ~Checked => \A k \in DOMAIN AssetsOf(Path) : k < place => AssetsOf(Path)[k].id \in seen

(* The resources of the parts before this one were visited, and those of   *)
(* this part up to the place.                                              *)
Reached(path, p) ==
  \/ p = Total(path) + 1 /\ \E n \in 1..Len(PartOrder) : n < part /\ path = PartOrder[n]
  \/ ~Checked /\ path = Path /\ p = place

CleanOK ==
  errs = {} => \A path \in PartPaths, p \in Nat : Reached(path, p) => CleanBefore(path, p)

VInv == PlaceOK /\ SeenOK /\ CleanOK

-----------------------------------------------------------------------------
(* What is a sequence has a length and is defined up to it. *)
LEMMA SequenceFacts ==
  ASSUME NEW s, IsSeq(s)
  PROVE  /\ Len(s) \in Nat
         /\ DOMAIN s = 1..Len(s)
BY DEF IsSeq

LEMMA PartFacts ==
  /\ Len(PartOrder) \in Nat
  /\ DOMAIN PartOrder = 1..Len(PartOrder)
  /\ \A n \in 1..Len(PartOrder) : PartOrder[n] \in PartPaths
<1>1. IsSeq(PartOrder)
  BY PackagesAssumption
<1> QED
  BY <1>1, SequenceFacts DEF PartPaths

(* The resources of a part are sequences, also those of its property groups. *)
LEMMA ResourceFacts ==
  ASSUME package \in Packages, NEW path \in PartPaths
  PROVE  /\ DOMAIN package.resources = PartPaths
         /\ Len(AssetsOf(path)) \in Nat
         /\ DOMAIN AssetsOf(path) = 1..Len(AssetsOf(path))
         /\ Len(ObjectsOf(path)) \in Nat
         /\ DOMAIN ObjectsOf(path) = 1..Len(ObjectsOf(path))
         /\ \A k \in DOMAIN AssetsOf(path) :
              AssetsOf(path)[k].kind \in PropertyGroups => Len(AssetsOf(path)[k].elements) \in Nat
         /\ \A k \in DOMAIN ObjectsOf(path) :
              ObjectsOf(path)[k].mesh # <<>> => ObjectsOf(path)[k].mesh[1].triangles \in Seq(Triangle)
<1>1. DOMAIN package.resources = PartPaths
  BY PackagesAssumption
<1>2. /\ IsSeq(AssetsOf(path)) /\ IsSeq(ObjectsOf(path))
      /\ \A k \in DOMAIN AssetsOf(path) :
           AssetsOf(path)[k].kind \in PropertyGroups => IsSeq(AssetsOf(path)[k].elements)
      /\ \A k \in DOMAIN ObjectsOf(path) :
           ObjectsOf(path)[k].mesh # <<>> => ObjectsOf(path)[k].mesh[1].triangles \in Seq(Triangle)
  BY PackagesAssumption DEF AssetsOf, ObjectsOf
<1> QED
  BY <1>1, <1>2, SequenceFacts

(* Only what is an error counts. *)
LEMMA NoErr ==
  ASSUME NEW condition \in BOOLEAN, NEW name, Err(condition, name) = {}
  PROVE  ~condition
BY DEF Err

-----------------------------------------------------------------------------
(* An index that is no error leads to an element of the one asset that has *)
(* the ID.                                                                 *)
LEMMA IndexResolves ==
  ASSUME package \in Packages, NEW path \in PartPaths,
         DistinctBefore(path, Total(path) + 1),
         NEW pid, pid # 0, NEW indices, NEW i \in indices, i \in Nat,
         PropertyErrors(path, pid, indices) = {}
  PROVE  Resolves(path, pid, i)
<1> DEFINE assets == AssetsOf(path)
<1>1. HasAsset(path, pid)
  BY DEF PropertyErrors
<1>2. PICK k \in DOMAIN assets : assets[k].id = pid
  BY <1>1 DEF HasAsset, WithID
<1>3. /\ Len(assets) \in Nat /\ DOMAIN assets = 1..Len(assets) /\ Len(ObjectsOf(path)) \in Nat
  BY ResourceFacts
<1>4. ASSUME NEW j \in DOMAIN assets, assets[j].id = pid
      PROVE  j = k
  <2>1. j \in 1..Len(assets) /\ k \in 1..Len(assets)
    BY <1>2, <1>3, <1>4
  <2>2. j < Total(path) + 1 /\ k < Total(path) + 1
    BY <2>1, <1>3 DEF Total
  <2>3. ~(j < k) /\ ~(k < j)
    BY <2>2, <1>2, <1>4 DEF DistinctBefore
  <2> QED
    BY <2>1, <2>3
<1>5. WithID(assets, pid) = {k}
  BY <1>2, <1>4 DEF WithID
<1>6. k <= k
  BY <1>2, <1>3
<1>7. FindAsset(path, pid) = assets[k]
  BY <1>5, <1>6 DEF FindAsset, First
<1>8. ASSUME assets[k].kind \in PropertyGroups
      PROVE  i < Len(assets[k].elements)
  <2>1. Err(/\ FindAsset(path, pid).kind \in PropertyGroups
            /\ \E n \in indices : n >= Len(FindAsset(path, pid).elements), "ErrIndexOutOfBounds") = {}
    BY <1>1 DEF PropertyErrors
  <2>2. ~(\E n \in indices : n >= Len(FindAsset(path, pid).elements))
    BY <2>1, <1>7, <1>8 DEF Err
  <2>3. Len(assets[k].elements) \in Nat
    BY <1>2, <1>8, ResourceFacts
  <2> QED
    BY <2>2, <2>3, <1>7
<1> HIDE DEF assets
<1> QED
  BY <1>2, <1>5, <1>8 DEF Resolves, assets

(* The triangles of an object without errors resolve, those that are       *)
(* passed over because they have the properties of the object too.         *)
LEMMA SoundTrianglesResolve ==
  ASSUME package \in Packages, NEW path \in PartPaths,
         DistinctBefore(path, Total(path) + 1),
         NEW n \in DOMAIN ObjectsOf(path),
         ObjectErrors(path, ObjectsOf(path)[n]) = {},
         ObjectsOf(path)[n].mesh # <<>>
  PROVE  TrianglesResolve(path, ObjectsOf(path)[n])
<1> DEFINE o         == ObjectsOf(path)[n]
           triangles == o.mesh[1].triangles
<1>1. MeshErrors(path, o) = {}
  BY DEF ObjectErrors
<1>2. triangles \in Seq(Triangle)
  BY ResourceFacts
<1>3. (IF o.pid = 0 THEN {} ELSE PropertyErrors(path, o.pid, {o.pindex})) = {}
  BY <1>1 DEF MeshErrors
<1>4. \A t \in DOMAIN triangles : TriangleErrors(path, o, triangles[t]) = {}
  BY <1>1 DEF MeshErrors
<1>5. SUFFICES ASSUME NEW t \in DOMAIN triangles, triangles[t].pid # 0, NEW c \in 1..3
               PROVE  Resolves(path, triangles[t].pid, triangles[t].p[c])
  BY DEF TrianglesResolve
<1>6. triangles[t] \in Triangle
  BY <1>2, <1>5
<1>7. triangles[t].p[c] \in Nat
  BY <1>6 DEF Triangle
<1>8. CASE IsDefault(o, triangles[t])
  <2>1. o.pid = triangles[t].pid /\ triangles[t].p[c] = o.pindex
    BY <1>8 DEF IsDefault
  <2>2. PropertyErrors(path, triangles[t].pid, {triangles[t].p[c]}) = {}
    BY <2>1, <1>3, <1>5
  <2> HIDE DEF o, triangles
  <2> QED
    BY <2>2, <1>5, <1>7, IndexResolves
<1>9. CASE ~IsDefault(o, triangles[t])
  <2>1. (IF triangles[t].pid = 0 \/ IsDefault(o, triangles[t]) THEN {}
         ELSE PropertyErrors(path, triangles[t].pid,
                             {triangles[t].p[1], triangles[t].p[2], triangles[t].p[3]})) = {}
    <3>1. TriangleErrors(path, o, triangles[t]) = {}
      BY <1>4, <1>5
    <3> HIDE DEF o, triangles
    <3> QED
      BY <3>1 DEF TriangleErrors
  <2>2. PropertyErrors(path, triangles[t].pid,
                       {triangles[t].p[1], triangles[t].p[2], triangles[t].p[3]}) = {}
    <3> HIDE DEF o, triangles
    <3> QED
      BY ONLY <2>1, <1>5, <1>9
  <2>3. triangles[t].p[c] \in {triangles[t].p[1], triangles[t].p[2], triangles[t].p[3]}
    BY <1>5
  <2> HIDE DEF o, triangles
  <2> QED
    BY <2>2, <2>3, <1>5, <1>7, IndexResolves
<1> QED
  BY <1>8, <1>9

-----------------------------------------------------------------------------
(* Nothing but the place is looked at before the first resource. *)
LEMMA CleanAtFirst ==
  ASSUME package \in Packages, NEW path \in PartPaths
  PROVE  CleanBefore(path, 1) /\ ~(\E k \in DOMAIN AssetsOf(path) : k < 1)
<1>1. /\ DOMAIN AssetsOf(path) = 1..Len(AssetsOf(path)) /\ Len(AssetsOf(path)) \in Nat
      /\ DOMAIN ObjectsOf(path) = 1..Len(ObjectsOf(path)) /\ Len(ObjectsOf(path)) \in Nat
  BY ResourceFacts
<1>2. DistinctBefore(path, 1)
  BY <1>1 DEF DistinctBefore
<1>3. SoundBefore(path, 1) /\ AssetsSoundBefore(path, 1)
  BY <1>1 DEF SoundBefore, AssetsSoundBefore
<1> QED
  BY <1>1, <1>2, <1>3 DEF CleanBefore

LEMMA InitVInv == ValidateInit => VInv
<1> SUFFICES ASSUME ValidateInit PROVE VInv
  OBVIOUS
<1>1. package \in Packages /\ part = 1 /\ place = 1
  BY DEF ValidateInit
<1>2. PlaceOK
  BY <1>1, PartFacts DEF PlaceOK
<1>3. ASSUME ~Checked PROVE Path \in PartPaths
  BY <1>1, <1>3, PartFacts DEF Checked, Path
<1>4. SeenOK
  <2> SUFFICES ASSUME ~Checked, NEW k \in DOMAIN AssetsOf(Path), k < place PROVE FALSE
    BY DEF SeenOK
  <2>1. k \in 1..Len(AssetsOf(Path)) /\ Len(AssetsOf(Path)) \in Nat
    BY <1>1, <1>3, ResourceFacts
  <2> QED
    BY <2>1, <1>1
<1>5. CleanOK
  <2> SUFFICES ASSUME NEW path \in PartPaths, NEW p \in Nat, Reached(path, p)
               PROVE  CleanBefore(path, p)
    BY DEF CleanOK
  <2>1. ~(\E n \in 1..Len(PartOrder) : n < part)
    BY <1>1
  <2>2. p = 1
    BY <2>1, <1>1 DEF Reached
  <2> QED
    BY <2>2, <1>1, CleanAtFirst
<1> QED
  BY <1>2, <1>4, <1>5 DEF VInv

-----------------------------------------------------------------------------
LEMMA PathInParts ==
  ASSUME PlaceOK, ~Checked
  PROVE  part \in 1..Len(PartOrder) /\ Path \in PartPaths
BY PartFacts DEF PlaceOK, Checked, Path

(* What the resources of a package are does not change. *)
LEMMA SamePackage ==
  ASSUME package' = package
  PROVE  \A path, p :
           /\ AssetsOf(path)' = AssetsOf(path)
           /\ ObjectsOf(path)' = ObjectsOf(path)
           /\ CleanBefore(path, p)' = CleanBefore(path, p)
           /\ Total(path)' = Total(path)
<1> SUFFICES ASSUME NEW path, NEW p
             PROVE  /\ AssetsOf(path)' = AssetsOf(path)
                    /\ ObjectsOf(path)' = ObjectsOf(path)
                    /\ CleanBefore(path, p)' = CleanBefore(path, p)
                    /\ Total(path)' = Total(path)
  OBVIOUS
<1>1. AssetsOf(path)' = AssetsOf(path) /\ ObjectsOf(path)' = ObjectsOf(path)
  BY DEF AssetsOf, ObjectsOf
<1>2. Total(path)' = Total(path)
  BY <1>1 DEF Total
<1>3. DistinctBefore(path, p)' = DistinctBefore(path, p)
  BY <1>1 DEF DistinctBefore
<1>4. \A o : ObjectErrors(path, o)' = ObjectErrors(path, o)
  <2> SUFFICES ASSUME NEW o PROVE ObjectErrors(path, o)' = ObjectErrors(path, o)
    OBVIOUS
  <2>1. \A q : AssetsOf(q)' = AssetsOf(q) /\ ObjectsOf(q)' = ObjectsOf(q)
    BY DEF AssetsOf, ObjectsOf
  <2>2. \A q, id : HasAsset(q, id)' = HasAsset(q, id) /\ FindAsset(q, id)' = FindAsset(q, id)
    BY <2>1 DEF HasAsset, FindAsset
  <2>3. \A q, id, type : IsA(q, id, type)' = IsA(q, id, type)
    BY <2>2 DEF IsA
  <2>4. \A q, pid, indices : PropertyErrors(q, pid, indices)' = PropertyErrors(q, pid, indices)
    BY <2>2 DEF PropertyErrors
  <2>11. \A t : TriangleErrors(path, o, t)' = TriangleErrors(path, o, t)
    BY <2>4 DEF TriangleErrors
  <2>5. MeshErrors(path, o)' = MeshErrors(path, o)
    BY ONLY <2>4, <2>11 DEF MeshErrors
  <2>12. \A c : ComponentErrors(path, o, c)' = ComponentErrors(path, o, c)
    BY ONLY <2>1, package' = package DEF ComponentErrors
  <2>6. PartsErrors(path, o)' = PartsErrors(path, o)
    BY ONLY <2>12 DEF PartsErrors
  <2>8. SlicedErrors(path, o)' = SlicedErrors(path, o)
    BY DEF SlicedErrors, AllClosed, RefSlices, IsA, HasAsset, FindAsset, AssetsOf
  <2>9. LatticeErrors(path, o)' = LatticeErrors(path, o)
    BY DEF LatticeErrors, RefMeshErrors, ObjectsOf
  <2>10. \A ext : Declared(ext)' = Declared(ext)
    BY DEF Declared
  <2> QED
    BY <2>5, <2>6, <2>8, <2>9, <2>10 DEF ObjectErrors
<1>5. SoundBefore(path, p)' = SoundBefore(path, p)
  BY <1>1, <1>4 DEF SoundBefore
<1>6. \A r : AssetErrors(path, r)' = AssetErrors(path, r)
  <2> SUFFICES ASSUME NEW r PROVE AssetErrors(path, r)' = AssetErrors(path, r)
    OBVIOUS
  <2>1. \A q : AssetsOf(q)' = AssetsOf(q)
    BY DEF AssetsOf
  <2>2. \A q, id : HasAsset(q, id)' = HasAsset(q, id) /\ FindAsset(q, id)' = FindAsset(q, id)
    BY <2>1 DEF HasAsset, FindAsset
  <2>3. \A q, id, type : IsA(q, id, type)' = IsA(q, id, type)
    BY <2>2 DEF IsA
  <2>4. \A ref : RefSlices(ref)' = RefSlices(ref) /\ RefStack(path, ref)' = RefStack(path, ref)
    BY <2>2, <2>3 DEF RefSlices, RefStack
  <2>5. \A refs, i : LastTop(path, refs, i)' = LastTop(path, refs, i)
    BY DEF LastTop, RefStack, RefGiven, RefSlices, IsA, HasAsset, FindAsset, AssetsOf
  <2>6. \A i : RefErrors(path, r, i)' = RefErrors(path, r, i)
    BY <2>2, <2>4, <2>5 DEF RefErrors
  <2>7. StackErrors(path, r)' = StackErrors(path, r)
    <3>1. \A k : SliceErrors(r, k)' = SliceErrors(r, k)
      BY DEF SliceErrors
    <3>2. UNION {RefErrors(path, r, i)' : i \in DOMAIN r.refs}
            = UNION {RefErrors(path, r, i) : i \in DOMAIN r.refs}
      BY <2>6
    <3>3. UNION {SliceErrors(r, k)' : k \in DOMAIN r.slices}
            = UNION {SliceErrors(r, k) : k \in DOMAIN r.slices}
      BY <3>1
    <3> QED
      BY <3>2, <3>3 DEF StackErrors
  <2>8. MaterialErrors(path, r)' = MaterialErrors(path, r)
    <3>1. TextureGroupErrors(path, r)' = TextureGroupErrors(path, r)
      BY <2>3 DEF TextureGroupErrors
    <3>2. CompositeErrors(path, r)' = CompositeErrors(path, r)
      BY <2>2, <2>3 DEF CompositeErrors
    <3>3. \A pid : MultiLength(path, pid)' = MultiLength(path, pid)
      BY <2>2, <2>3 DEF MultiLength
    <3>4. MultiErrors(path, r)' = MultiErrors(path, r)
      BY DEF MultiErrors, MultiLength, IsA, HasAsset, FindAsset, AssetsOf
    <3> QED
      BY <3>1, <3>2, <3>4 DEF MaterialErrors
  <2>9. \A ext : Declared(ext)' = Declared(ext)
    BY DEF Declared
  <2> QED
    BY <2>7, <2>8, <2>9 DEF AssetErrors
<1>7. AssetsSoundBefore(path, p)' = AssetsSoundBefore(path, p)
  BY <1>1, <1>6 DEF AssetsSoundBefore
<1> QED
  BY <1>1, <1>2, <1>3, <1>5, <1>7 DEF CleanBefore

(* An iteration that leaves no error found none, and no ID twice. *)
LEMMA IterationFacts ==
  ASSUME PlaceOK, ~Checked, NEW r, NEW errors, Validate(r, errors)
  PROVE  /\ package' = package /\ part' = part /\ place' = place + 1
         /\ seen' = seen \cup {r.id}
         /\ Path' = Path /\ ~Checked'
         /\ PlaceOK'
         /\ errs' = {} => errs = {} /\ errors = {} /\ (r.id # 0 => r.id \notin seen)
<1>1. package' = package /\ part' = part /\ place' = place + 1 /\ seen' = seen \cup {r.id}
  BY DEF Validate
<1>2. Path' = Path /\ ~Checked'
  BY <1>1 DEF Path, Checked
<1>3. PlaceOK'
  BY <1>1 DEF PlaceOK
<1>4. ASSUME errs' = {}
      PROVE  errs = {} /\ errors = {} /\ (r.id # 0 => r.id \notin seen)
  <2> DEFINE names == errors \cup Err(r.id # 0 /\ r.id \in seen, "ErrDuplicatedID")
  <2>1. errs' = errs \cup {<<Path, place, name>> : name \in names}
    BY DEF Validate
  <2>2. errs = {} /\ names = {}
    BY <2>1, <1>4
  <2>3. Err(r.id # 0 /\ r.id \in seen, "ErrDuplicatedID") = {}
    BY <2>2
  <2> QED
    BY <2>2, <2>3 DEF Err
<1> QED
  BY <1>1, <1>2, <1>3, <1>4

LEMMA AssetStep ==
  ASSUME VInv, ValidateAsset
  PROVE  VInv'
<1>0. PICK r, errors : r = AssetsOf(Path)[place] /\ errors = AssetErrors(Path, r)
  OBVIOUS
<1>1. PlaceOK /\ SeenOK /\ CleanOK /\ ~Checked /\ place <= Len(AssetsOf(Path)) /\ Validate(r, errors)
  BY <1>0 DEF VInv, ValidateAsset
<1>2. /\ package' = package /\ part' = part /\ place' = place + 1
      /\ seen' = seen \cup {r.id} /\ Path' = Path /\ ~Checked' /\ PlaceOK'
      /\ errs' = {} => errs = {} /\ errors = {} /\ (r.id # 0 => r.id \notin seen)
  BY <1>1, IterationFacts
<1>3. package \in Packages /\ place \in Nat /\ Path \in PartPaths
  BY <1>1, PathInParts DEF PlaceOK
<1>4. /\ DOMAIN AssetsOf(Path) = 1..Len(AssetsOf(Path)) /\ Len(AssetsOf(Path)) \in Nat
      /\ DOMAIN ObjectsOf(Path) = 1..Len(ObjectsOf(Path)) /\ Len(ObjectsOf(Path)) \in Nat
  BY <1>3, ResourceFacts
<1>5. \A path, p : /\ AssetsOf(path)' = AssetsOf(path)
                   /\ CleanBefore(path, p)' = CleanBefore(path, p)
                   /\ Total(path)' = Total(path)
  BY <1>2, SamePackage
<1>6. \A k \in DOMAIN AssetsOf(Path) : k < place => AssetsOf(Path)[k].id \in seen
  BY <1>1 DEF SeenOK
<1>7. SeenOK'
  <2>1. ASSUME NEW k \in DOMAIN AssetsOf(Path), k < place + 1
        PROVE  AssetsOf(Path)[k].id \in seen'
    <3>1. CASE k < place
      BY <3>1, <1>2, <1>6
    <3>2. CASE k = place
      BY <3>2, <1>0, <1>2
    <3> QED
      BY <2>1, <3>1, <3>2, <1>3, <1>4
  <2>2. AssetsOf(Path)' = AssetsOf(Path)
    BY <1>2 DEF AssetsOf
  <2> QED
    BY <2>1, <2>2, <1>2 DEF SeenOK
<1>8. ASSUME errors = {}, r.id # 0 => r.id \notin seen, CleanBefore(Path, place)
      PROVE  CleanBefore(Path, place + 1)
  <2>1. DistinctBefore(Path, place + 1)
    <3> SUFFICES ASSUME NEW j \in DOMAIN AssetsOf(Path), NEW k \in DOMAIN AssetsOf(Path),
                        j < k, k < place + 1, AssetsOf(Path)[j].id = AssetsOf(Path)[k].id
                 PROVE  AssetsOf(Path)[k].id = 0
      BY DEF DistinctBefore
    <3>1. CASE k < place
      BY <3>1, <1>8 DEF CleanBefore, DistinctBefore
    <3>2. CASE k = place
      <4>1. AssetsOf(Path)[j].id \in seen
        BY <3>2, <1>6
      <4> QED
        BY <4>1, <3>2, <1>0, <1>8
    <3> QED
      BY <3>1, <3>2, <1>3, <1>4
  <2>2. SoundBefore(Path, place + 1)
    <3> SUFFICES ASSUME NEW k \in DOMAIN ObjectsOf(Path), Len(AssetsOf(Path)) + k < place + 1
                 PROVE  FALSE
      BY DEF SoundBefore
    <3> QED
      BY <1>1, <1>3, <1>4
  <2>3. AssetsSoundBefore(Path, place + 1)
    <3> SUFFICES ASSUME NEW k \in DOMAIN AssetsOf(Path), k < place + 1
                 PROVE  AssetErrors(Path, AssetsOf(Path)[k]) = {}
      BY DEF AssetsSoundBefore
    <3>1. CASE k < place
      BY <3>1, <1>8 DEF CleanBefore, AssetsSoundBefore
    <3>2. CASE k = place
      BY <3>2, <1>0, <1>8
    <3> QED
      BY <3>1, <3>2, <1>3, <1>4
  <2> QED
    BY <2>1, <2>2, <2>3 DEF CleanBefore
<1>9. CleanOK'
  <2> SUFFICES ASSUME errs' = {}, NEW path \in PartPaths, NEW p \in Nat, Reached(path, p)'
               PROVE  CleanBefore(path, p)'
    BY DEF CleanOK
  <2>1. errs = {} /\ errors = {} /\ (r.id # 0 => r.id \notin seen)
    BY <1>2
  <2>2. \/ p = Total(path) + 1 /\ \E n \in 1..Len(PartOrder) : n < part /\ path = PartOrder[n]
        \/ path = Path /\ p = place + 1
    BY <1>2, <1>5 DEF Reached
  <2>3. CASE p = Total(path) + 1 /\ \E n \in 1..Len(PartOrder) : n < part /\ path = PartOrder[n]
    BY <2>1, <2>3, <1>1, <1>5 DEF CleanOK, Reached
  <2>4. CASE path = Path /\ p = place + 1
    <3>1. CleanBefore(Path, place)
      BY <2>1, <1>1, <1>3 DEF CleanOK, Reached
    <3> QED
      BY <3>1, <2>1, <2>4, <1>5, <1>8
  <2> QED
    BY <2>2, <2>3, <2>4
<1> QED
  BY <1>2, <1>7, <1>9 DEF VInv

LEMMA ObjectStep ==
  ASSUME VInv, ValidateObject
  PROVE  VInv'
<1>0. PICK r, errors : r = ObjectAt /\ errors = ObjectErrors(Path, r)
  OBVIOUS
<1>1. /\ PlaceOK /\ SeenOK /\ CleanOK /\ ~Checked /\ Validate(r, errors)
      /\ place > Len(AssetsOf(Path)) /\ place <= Len(AssetsOf(Path)) + Len(ObjectsOf(Path))
  BY <1>0 DEF VInv, ValidateObject
<1>2. /\ package' = package /\ part' = part /\ place' = place + 1
      /\ seen' = seen \cup {r.id} /\ Path' = Path /\ ~Checked' /\ PlaceOK'
      /\ errs' = {} => errs = {} /\ errors = {}
  BY <1>1, IterationFacts
<1>3. package \in Packages /\ place \in Nat /\ Path \in PartPaths
  BY <1>1, PathInParts DEF PlaceOK
<1>4. /\ DOMAIN AssetsOf(Path) = 1..Len(AssetsOf(Path)) /\ Len(AssetsOf(Path)) \in Nat
      /\ DOMAIN ObjectsOf(Path) = 1..Len(ObjectsOf(Path)) /\ Len(ObjectsOf(Path)) \in Nat
  BY <1>3, ResourceFacts
<1>5. \A path, p : /\ AssetsOf(path)' = AssetsOf(path)
                   /\ CleanBefore(path, p)' = CleanBefore(path, p)
                   /\ Total(path)' = Total(path)
  BY <1>2, SamePackage
<1>6. SeenOK'
  <2>1. ASSUME NEW k \in DOMAIN AssetsOf(Path)
        PROVE  AssetsOf(Path)[k].id \in seen'
    <3>1. k < place
      BY <1>1, <1>3, <1>4
    <3> QED
      BY <3>1, <1>1, <1>2 DEF SeenOK
  <2>2. AssetsOf(Path)' = AssetsOf(Path)
    BY <1>2 DEF AssetsOf
  <2> QED
    BY <2>1, <2>2, <1>2 DEF SeenOK
<1>7. ASSUME errors = {}, CleanBefore(Path, place)
      PROVE  CleanBefore(Path, place + 1)
  <2>1. \A k \in DOMAIN AssetsOf(Path) : k < place
    BY <1>1, <1>3, <1>4
  <2>2. DistinctBefore(Path, place + 1)
    BY <2>1, <1>7 DEF CleanBefore, DistinctBefore
  <2>3. SoundBefore(Path, place + 1)
    <3> SUFFICES ASSUME NEW k \in DOMAIN ObjectsOf(Path), Len(AssetsOf(Path)) + k < place + 1
                 PROVE  ObjectErrors(Path, ObjectsOf(Path)[k]) = {}
      BY DEF SoundBefore
    <3>1. CASE Len(AssetsOf(Path)) + k < place
      BY <3>1, <1>7 DEF CleanBefore, SoundBefore
    <3>2. CASE k = place - Len(AssetsOf(Path))
      BY <3>2, <1>0, <1>7 DEF ObjectAt
    <3> QED
      BY <3>1, <3>2, <1>3, <1>4
  <2>4. AssetsSoundBefore(Path, place + 1)
    BY <2>1, <1>7 DEF CleanBefore, AssetsSoundBefore
  <2> QED
    BY <2>2, <2>3, <2>4 DEF CleanBefore
<1>8. CleanOK'
  <2> SUFFICES ASSUME errs' = {}, NEW path \in PartPaths, NEW p \in Nat, Reached(path, p)'
               PROVE  CleanBefore(path, p)'
    BY DEF CleanOK
  <2>1. errs = {} /\ errors = {}
    BY <1>2
  <2>2. \/ p = Total(path) + 1 /\ \E n \in 1..Len(PartOrder) : n < part /\ path = PartOrder[n]
        \/ path = Path /\ p = place + 1
    BY <1>2, <1>5 DEF Reached
  <2>3. CASE p = Total(path) + 1 /\ \E n \in 1..Len(PartOrder) : n < part /\ path = PartOrder[n]
    BY <2>1, <2>3, <1>1, <1>5 DEF CleanOK, Reached
  <2>4. CASE path = Path /\ p = place + 1
    <3>1. CleanBefore(Path, place)
      BY <2>1, <1>1, <1>3 DEF CleanOK, Reached
    <3> QED
      BY <3>1, <2>1, <2>4, <1>5, <1>7
  <2> QED
    BY <2>2, <2>3, <2>4
<1> QED
  BY <1>2, <1>6, <1>8 DEF VInv

LEMMA PartStep ==
  ASSUME VInv, NextPart
  PROVE  VInv'
<1>1. /\ PlaceOK /\ CleanOK /\ ~Checked
      /\ place > Len(AssetsOf(Path)) + Len(ObjectsOf(Path))
      /\ part' = part + 1 /\ place' = 1 /\ package' = package /\ errs' = errs
  BY DEF VInv, NextPart
<1>2. package \in Packages /\ place \in Nat /\ part \in 1..Len(PartOrder) /\ Path \in PartPaths
  BY <1>1, PathInParts DEF PlaceOK
<1>3. PlaceOK'
  BY <1>1, <1>2, PartFacts DEF PlaceOK
<1>4. \A path, p : /\ AssetsOf(path)' = AssetsOf(path)
                   /\ CleanBefore(path, p)' = CleanBefore(path, p)
                   /\ Total(path)' = Total(path)
  BY <1>1, SamePackage
<1>5. SeenOK'
  <2> SUFFICES ASSUME ~Checked'
               PROVE  ~(\E k \in DOMAIN AssetsOf(Path)' : k < 1)
    BY <1>1 DEF SeenOK
  <2>1. part + 1 \in 1..Len(PartOrder)
    BY <1>1, <1>2, PartFacts DEF Checked
  <2>2. Path' = PartOrder[part + 1]
    BY <1>1 DEF Path
  <2>3. PartOrder[part + 1] \in PartPaths
    BY <2>1, PartFacts
  <2>4. AssetsOf(Path)' = AssetsOf(PartOrder[part + 1])
    BY <2>2, <1>1 DEF AssetsOf
  <2> QED
    BY <2>3, <2>4, <1>2, CleanAtFirst
<1>6. CleanOK'
  <2> SUFFICES ASSUME errs = {}, NEW path \in PartPaths, NEW p \in Nat, Reached(path, p)'
               PROVE  CleanBefore(path, p)
    BY <1>1, <1>4 DEF CleanOK
  <2>1. \/ p = Total(path) + 1 /\ \E n \in 1..Len(PartOrder) : n < part + 1 /\ path = PartOrder[n]
        \/ p = 1
    BY <1>1, <1>4 DEF Reached
  <2>2. CASE p = 1
    BY <2>2, <1>2, CleanAtFirst
  <2>3. CASE p = Total(path) + 1 /\ \E n \in 1..Len(PartOrder) : n < part /\ path = PartOrder[n]
    BY <2>3, <1>1 DEF CleanOK, Reached
  <2>4. CASE p = Total(path) + 1 /\ path = Path
    <3>1. CleanBefore(path, place)
      BY <2>4, <1>1, <1>2 DEF CleanOK, Reached
    <3>2. /\ DOMAIN AssetsOf(path) = 1..Len(AssetsOf(path)) /\ Len(AssetsOf(path)) \in Nat
          /\ DOMAIN ObjectsOf(path) = 1..Len(ObjectsOf(path)) /\ Len(ObjectsOf(path)) \in Nat
      BY <1>2, ResourceFacts
    <3>3. \A n \in Nat : n < p => n < place
      BY <2>4, <3>2, <1>1, <1>2 DEF Total
    <3>4. DistinctBefore(path, p)
      BY <3>1, <3>2, <3>3 DEF CleanBefore, DistinctBefore
    <3>5. SoundBefore(path, p)
      BY <3>1, <3>2, <3>3 DEF CleanBefore, SoundBefore
    <3>6. AssetsSoundBefore(path, p)
      BY <3>1, <3>2, <3>3 DEF CleanBefore, AssetsSoundBefore
    <3> QED
      BY <3>4, <3>5, <3>6 DEF CleanBefore
  <2>5. \A n \in 1..Len(PartOrder) : n < part + 1 => n < part \/ n = part
    BY <1>2, PartFacts
  <2> QED
    BY <2>1, <2>2, <2>3, <2>4, <2>5 DEF Path
<1> QED
  BY <1>3, <1>5, <1>6 DEF VInv

LEMMA StepVInv == VInv /\ [ValidateNext]_validateVars => VInv'
<1> SUFFICES ASSUME VInv, [ValidateNext]_validateVars PROVE VInv'
  OBVIOUS
<1>1. CASE ValidateAsset
  BY <1>1, AssetStep
<1>2. CASE ValidateObject
  BY <1>2, ObjectStep
<1>3. CASE NextPart
  BY <1>3, PartStep
<1>4. CASE UNCHANGED validateVars
  <2>1. package' = package /\ part' = part /\ place' = place /\ seen' = seen /\ errs' = errs
    BY <1>4 DEF validateVars
  <2>2. PlaceOK'
    BY <2>1 DEF VInv, PlaceOK
  <2>3. SeenOK'
    BY <2>1 DEF VInv, SeenOK, Checked, Path, AssetsOf
  <2>4. \A path, p : /\ CleanBefore(path, p)' = CleanBefore(path, p)
                     /\ Total(path)' = Total(path)
    BY <2>1, SamePackage
  <2>5. \A path, p : Reached(path, p)' <=> Reached(path, p)
    BY <2>1, <2>4 DEF Reached, Checked, Path
  <2>6. CleanOK'
    BY <2>1, <2>4, <2>5 DEF VInv, CleanOK
  <2> QED
    BY <2>2, <2>3, <2>6 DEF VInv
<1> QED
  BY <1>1, <1>2, <1>3, <1>4 DEF ValidateNext

-----------------------------------------------------------------------------
LEMMA CheckedModelsResolve == VInv => AcceptedIndicesResolve
<1> SUFFICES ASSUME VInv, Accepted, NEW path \in PartPaths, NEW k \in DOMAIN ObjectsOf(path),
                    ObjectsOf(path)[k].mesh # <<>>
             PROVE  TrianglesResolve(path, ObjectsOf(path)[k])
  BY DEF AcceptedIndicesResolve
<1>1. package \in Packages /\ part \in Nat /\ part > Len(PartOrder) /\ errs = {}
  BY DEF VInv, PlaceOK, Accepted, Checked
<1>2. /\ Len(AssetsOf(path)) \in Nat
      /\ DOMAIN ObjectsOf(path) = 1..Len(ObjectsOf(path)) /\ Len(ObjectsOf(path)) \in Nat
  BY <1>1, ResourceFacts
<1>3. PICK n \in 1..Len(PartOrder) : path = PartOrder[n]
  BY PartFacts DEF PartPaths
<1>4. n < part
  BY <1>1, PartFacts
<1>5. Reached(path, Total(path) + 1)
  BY <1>3, <1>4 DEF Reached
<1>6. CleanBefore(path, Total(path) + 1)
  BY <1>1, <1>2, <1>5 DEF VInv, CleanOK, Total
<1>7. ObjectErrors(path, ObjectsOf(path)[k]) = {}
  BY <1>2, <1>6 DEF CleanBefore, SoundBefore, Total
<1> QED
  BY <1>1, <1>6, <1>7, SoundTrianglesResolve DEF CleanBefore

(***************************************************************************)
(* In a model of any size that Validate accepts, the group of every        *)
(* triangle is the only asset with its ID and has as many elements as the  *)
(* triangle takes (validate.go:166-196, 267-281).                          *)
(***************************************************************************)
THEOREM AcceptedIndicesAlwaysResolve == ValidateSpec => []AcceptedIndicesResolve
<1>1. ValidateSpec => []VInv
  BY InitVInv, StepVInv, PTL DEF ValidateSpec
<1> QED
  BY <1>1, CheckedModelsResolve, PTL

-----------------------------------------------------------------------------
LEMMA GreatestNat ==
  ASSUME NEW S, S \subseteq Nat, S # {}, NEW n \in Nat, \A y \in S : y <= n
  PROVE  \E x \in S : \A y \in S : y <= x
<1> DEFINE U == {u \in Nat : \A y \in S : y <= u}
<1>1. PICK u \in U : \A v \in U : u <= v
  BY LeastNat
<1>2. SUFFICES ASSUME u \notin S PROVE FALSE
  OBVIOUS
<1>3. PICK y \in S : TRUE
  OBVIOUS
<1>4. u # 0
  BY <1>2, <1>3
<1>5. \A z \in S : z <= u - 1
  BY <1>2
<1>6. u - 1 \in U
  BY <1>4, <1>5
<1> QED
  BY <1>1, <1>6

-----------------------------------------------------------------------------
(* Neighbours that ascend are enough.                                      *)
LEMMA NeighboursAscend ==
  ASSUME NEW s, IsSeq(s), \A k \in DOMAIN s : s[k].top \in Int,
         \A k \in DOMAIN s : k > 1 => s[k - 1].top < s[k].top
  PROVE  Ascend(s)
<1>1. Len(s) \in Nat /\ DOMAIN s = 1..Len(s)
  BY SequenceFacts
<1> DEFINE Bad == {k \in DOMAIN s : \E j \in DOMAIN s : j < k /\ ~(s[j].top < s[k].top)}
<1>2. SUFFICES ASSUME Bad # {} PROVE FALSE
  BY DEF Ascend
<1>3. PICK k \in Bad : \A y \in Bad : k <= y
  <2>1. Bad \subseteq Nat
    BY <1>1
  <2> QED
    BY <1>2, <2>1, LeastNat
<1>4. PICK j \in DOMAIN s : j < k /\ ~(s[j].top < s[k].top)
  OBVIOUS
<1>5. PICK m : m = k - 1
  OBVIOUS
<1>6. m \in DOMAIN s /\ m < k /\ k > 1 /\ (j = m \/ j < m)
  BY <1>1, <1>4, <1>5
<1>7. s[m].top < s[k].top
  BY <1>5, <1>6
<1>8. m \notin Bad
  BY <1>1, <1>3, <1>6
<1>9. j < m => s[j].top < s[m].top
  BY <1>6, <1>8
<1> QED
  BY <1>4, <1>6, <1>7, <1>9

(* Slices that were found to be in order.                                  *)
Ordered(slices) ==
  /\ Len(slices) \in Nat /\ DOMAIN slices = 1..Len(slices)
  /\ slices # <<>> => Len(slices) # 0
  /\ \A k \in DOMAIN slices : slices[k].top \in Int /\ slices[k].top # NaN
  /\ Ascend(slices)

LEMMA SoundStack ==
  ASSUME NEW path, NEW r, r.kind = "stack", StackErrors(path, r) = {},
         IsSeq(r.slices), IsSeq(r.refs),
         \A k \in DOMAIN r.slices : r.slices[k].top \in Int /\ r.slices[k].top # NaN
  PROVE  Ordered(r.slices) /\ \A i \in DOMAIN r.refs : RefErrors(path, r, i) = {}
<1>1. /\ \A i \in DOMAIN r.refs : RefErrors(path, r, i) = {}
      /\ \A k \in DOMAIN r.slices : SliceErrors(r, k) = {}
  <2>1. /\ UNION {RefErrors(path, r, i) : i \in DOMAIN r.refs} = {}
        /\ UNION {SliceErrors(r, k) : k \in DOMAIN r.slices} = {}
    BY DEF StackErrors
  <2> QED
    BY <2>1
<1>2. Len(r.slices) \in Nat /\ DOMAIN r.slices = 1..Len(r.slices)
  BY SequenceFacts
<1>3. ASSUME NEW k \in DOMAIN r.slices, k > 1
      PROVE  r.slices[k - 1].top < r.slices[k].top
  <2>1. PICK m : m = k - 1
    OBVIOUS
  <2>2. m \in DOMAIN r.slices
    BY <1>2, <1>3, <2>1
  <2>3. SliceErrors(r, k) = {}
    BY <1>1
  <2>4. Err(k > 1 /\ AtMost(r.slices[k].top, r.slices[m].top), "ErrSliceNoMonotonic") = {}
    BY <2>1, <2>3 DEF SliceErrors
  <2>5. ~AtMost(r.slices[k].top, r.slices[m].top)
    BY <1>3, <2>4 DEF Err
  <2>6. ~(r.slices[k].top <= r.slices[m].top)
    BY <2>2, <2>5 DEF AtMost
  <2> QED
    BY <2>1, <2>2, <2>6
<1>4. Ascend(r.slices)
  BY <1>3, NeighboursAscend
<1>5. r.slices # <<>> => Len(r.slices) # 0
  BY DEF IsSeq
<1> QED
  BY <1>1, <1>2, <1>4, <1>5 DEF Ordered

LEMMA AcceptedStack ==
  ASSUME VInv, Accepted, Declared("slices"), Numbers,
         NEW path \in PartPaths, NEW k \in DOMAIN AssetsOf(path), AssetsOf(path)[k].kind = "stack"
  PROVE  /\ IsSeq(AssetsOf(path)[k].refs) /\ Ordered(AssetsOf(path)[k].slices)
         /\ \A i \in DOMAIN AssetsOf(path)[k].refs : RefErrors(path, AssetsOf(path)[k], i) = {}
<1>1. package \in Packages /\ part \in Nat /\ part > Len(PartOrder) /\ errs = {}
  BY DEF VInv, PlaceOK, Accepted, Checked
<1>2. /\ DOMAIN AssetsOf(path) = 1..Len(AssetsOf(path)) /\ Len(AssetsOf(path)) \in Nat
      /\ Len(ObjectsOf(path)) \in Nat
  BY <1>1, ResourceFacts
<1>3. PICK n \in 1..Len(PartOrder) : path = PartOrder[n]
  BY PartFacts DEF PartPaths
<1>4. n < part
  BY <1>1, PartFacts
<1>5. Reached(path, Total(path) + 1)
  BY <1>3, <1>4 DEF Reached
<1>6. CleanBefore(path, Total(path) + 1)
  BY <1>1, <1>2, <1>5 DEF VInv, CleanOK, Total
<1>7. AssetErrors(path, AssetsOf(path)[k]) = {}
  BY <1>2, <1>6 DEF CleanBefore, AssetsSoundBefore, Total
<1>8. StackErrors(path, AssetsOf(path)[k]) = {}
  BY <1>7 DEF AssetErrors
<1>9. /\ IsSeq(AssetsOf(path)[k].slices) /\ IsSeq(AssetsOf(path)[k].refs)
      /\ \A n2 \in DOMAIN AssetsOf(path)[k].slices :
           AssetsOf(path)[k].slices[n2].top = NaN \/ AssetsOf(path)[k].slices[n2].top \in Int
  <2>1. package \in Packages
    BY <1>1
  <2>. QED
    BY ONLY <2>1, PackagesAssumption, path \in PartPaths, k \in DOMAIN AssetsOf(path),
            AssetsOf(path)[k].kind = "stack"
       DEF AssetsOf
<1>10. \A n2 \in DOMAIN AssetsOf(path)[k].slices : AssetsOf(path)[k].slices[n2].top # NaN
  BY DEF Numbers, Stacks
<1> QED
  BY <1>8, <1>9, <1>10, SoundStack

(* The lookup takes an asset of the part.                                  *)
LEMMA FoundAsset ==
  ASSUME package \in Packages, NEW path, NEW id, HasAsset(path, id)
  PROVE  path \in PartPaths /\ \E k \in DOMAIN AssetsOf(path) : FindAsset(path, id) = AssetsOf(path)[k]
<1>1. path \in PartPaths
  <2>1. path \in DOMAIN package.resources
    BY DEF HasAsset
  <2>2. DOMAIN package.resources = PartPaths
    BY ONLY package \in Packages, PackagesAssumption
  <2>. QED
    BY <2>1, <2>2
<1>2. DOMAIN AssetsOf(path) = 1..Len(AssetsOf(path)) /\ Len(AssetsOf(path)) \in Nat
  BY <1>1, ResourceFacts
<1> DEFINE W == WithID(AssetsOf(path), id)
<1>3. W # {} /\ W \subseteq Nat /\ W \subseteq DOMAIN AssetsOf(path)
  BY <1>2 DEF HasAsset, WithID
<1>4. \E k \in W : \A j \in W : k <= j
  BY <1>3, LeastNat
<1>5. PICK k \in W : k = CHOOSE x \in W : \A j \in W : x <= j
  BY <1>4
<1>6. FindAsset(path, id) = AssetsOf(path)[k]
  BY <1>5 DEF FindAsset, First
<1> QED
  BY <1>1, <1>3, <1>6

(* A reference leads to slices that ascend, the lowest above those before. *)
LEMMA AcceptedReference ==
  ASSUME VInv, Accepted, Declared("slices"), Numbers,
         NEW path \in PartPaths, NEW r, NEW i \in DOMAIN r.refs, RefErrors(path, r, i) = {}
  PROVE  /\ RefStack(path, r.refs[i]) /\ Ordered(RefSlices(r.refs[i]))
         /\ RefSlices(r.refs[i]) # <<>> /\ LastTop(path, r.refs, i) # <<>> =>
              ~AtMost(RefSlices(r.refs[i])[1].top, LastTop(path, r.refs, i)[1])
<1> DEFINE ref == r.refs[i]
<1>1. RefGiven(path, ref)
  <2>1. /\ Err(ref.path = "" \/ ref.id = 0, "MissingFieldError") = {}
        /\ Err(ref.path = path, "ErrSliceRefSamePart") = {}
    BY DEF RefErrors
  <2> QED
    BY <2>1 DEF Err, RefGiven
<1>2. HasAsset(ref.path, ref.id)
  BY <1>1 DEF RefErrors
<1>3. RefStack(path, ref)
  BY <1>1, <1>2 DEF RefErrors
<1>4. Err(/\ RefSlices(ref) # <<>> /\ LastTop(path, r.refs, i) # <<>>
          /\ AtMost(RefSlices(ref)[1].top, LastTop(path, r.refs, i)[1]), "ErrSliceNoMonotonic") = {}
  BY <1>1, <1>2, <1>3 DEF RefErrors
<1>5. PICK k \in DOMAIN AssetsOf(ref.path) :
        ref.path \in PartPaths /\ FindAsset(ref.path, ref.id) = AssetsOf(ref.path)[k]
  BY <1>2, FoundAsset DEF VInv, PlaceOK
<1>6. AssetsOf(ref.path)[k].kind = "stack" /\ RefSlices(ref) = AssetsOf(ref.path)[k].slices
  BY <1>3, <1>5 DEF RefStack, IsA, RefSlices
<1>7. Ordered(RefSlices(ref))
  BY <1>5, <1>6, AcceptedStack
<1> QED
  BY <1>3, <1>4, <1>7 DEF Err

(* What lies between is passed over only when it has no slices.            *)
LEMMA ReferencesAscend ==
  ASSUME VInv, Accepted, Declared("slices"), Numbers,
         NEW path \in PartPaths, NEW r, IsSeq(r.refs),
         \A i \in DOMAIN r.refs : RefErrors(path, r, i) = {}
  PROVE  \A i, j \in DOMAIN r.refs :
           i < j => OnTop(RefSlices(r.refs[i]), RefSlices(r.refs[j]))
<1> DEFINE S(i)    == RefSlices(r.refs[i])
           high(i) == S(i)[Len(S(i))].top
           low(i)  == S(i)[1].top
           Full    == {i \in DOMAIN r.refs : S(i) # <<>>}
<1>1. Len(r.refs) \in Nat /\ DOMAIN r.refs = 1..Len(r.refs)
  BY SequenceFacts
<1>2. \A i \in DOMAIN r.refs :
        /\ RefStack(path, r.refs[i]) /\ Ordered(S(i))
        /\ S(i) # <<>> /\ LastTop(path, r.refs, i) # <<>> =>
             ~AtMost(low(i), LastTop(path, r.refs, i)[1])
  BY AcceptedReference
<1>3. ASSUME NEW i \in Full
      PROVE  /\ low(i) \in Int /\ high(i) \in Int /\ NaN \notin {low(i), high(i)}
             /\ low(i) <= high(i)
             /\ \A k \in DOMAIN S(i) : low(i) <= S(i)[k].top /\ S(i)[k].top <= high(i)
  <2>1. PICK s : s = S(i)
    OBVIOUS
  <2>2. Ordered(s) /\ s # <<>>
    BY <1>2, <2>1
  <2>3. 1 \in DOMAIN s /\ Len(s) \in DOMAIN s
    BY <2>2 DEF Ordered
  <2>4. /\ s[1].top \in Int /\ s[Len(s)].top \in Int
        /\ s[1].top # NaN /\ s[Len(s)].top # NaN
    BY <2>2, <2>3 DEF Ordered
  <2>5. ASSUME NEW k \in DOMAIN s
        PROVE  s[1].top <= s[k].top /\ s[k].top <= s[Len(s)].top
    <3>1. s[k].top \in Int
      BY <2>2 DEF Ordered
    <3>2. (k = 1 \/ 1 < k) /\ (k = Len(s) \/ k < Len(s))
      BY <2>2 DEF Ordered
    <3>3. 1 < k => s[1].top < s[k].top
      BY <2>2, <2>3 DEF Ordered, Ascend
    <3>4. k < Len(s) => s[k].top < s[Len(s)].top
      BY <2>2, <2>3 DEF Ordered, Ascend
    <3> QED
      BY <2>4, <3>1, <3>2, <3>3, <3>4
  <2>6. s[1].top <= s[Len(s)].top
    BY <2>3, <2>5
  <2> QED
    BY <2>1, <2>4, <2>5, <2>6
<1>4. ASSUME NEW j \in Full, NEW i \in Full, i < j
      PROVE  \E m \in Full : i <= m /\ m < j /\ high(m) < low(j)
  <2> DEFINE B == {n \in 1..(j - 1) : RefStack(path, r.refs[n]) /\ RefSlices(r.refs[n]) # <<>>}
  <2>1. /\ i \in B /\ B \subseteq Nat /\ \A n \in B : n <= Len(r.refs)
        /\ \A n \in B : n \in Full /\ n < j
    BY <1>1, <1>2, <1>4
  <2>2. \E x \in B : \A y \in B : y <= x
    BY <1>1, <2>1, GreatestNat
  <2>3. PICK m : m = CHOOSE x \in B : \A y \in B : y <= x
    OBVIOUS
  <2>4. m \in B /\ i <= m
    BY <2>1, <2>2, <2>3
  <2>5. LastTop(path, r.refs, j) = <<high(m)>>
    <3>1. B # {}
      BY <2>1
    <3>2. LastTop(path, r.refs, j) =
            IF B = {} THEN <<>>
            ELSE LET slices == RefSlices(r.refs[CHOOSE x \in B : \A y \in B : y <= x])
                 IN  <<slices[Len(slices)].top>>
      BY ONLY DEF LastTop
    <3>. HIDE DEF B
    <3>. QED
      BY ONLY <2>3, <3>1, <3>2
  <2>6. ~AtMost(low(j), high(m))
    BY <1>2, <2>5
  <2>7. high(m) < low(j)
    <3>1. /\ low(j) \in Int /\ high(m) \in Int
          /\ NaN \notin {low(j), high(j)} /\ NaN \notin {low(m), high(m)}
      BY <1>3, <2>1, <2>4
    <3>2. ~(low(j) <= high(m))
      BY <2>6, <3>1 DEF AtMost
    <3> QED
      BY <3>1, <3>2
  <2> QED
    BY <2>1, <2>4, <2>7
<1> HIDE DEF S, Full
<1>5. \A i, j \in Full : i < j => high(i) < low(j)
  <2> DEFINE Bad == {j \in Full : \E i \in Full : i < j /\ ~(high(i) < low(j))}
  <2>1. SUFFICES ASSUME Bad # {} PROVE FALSE
    OBVIOUS
  <2>2. Full \subseteq Nat
    BY <1>1 DEF Full
  <2>3. PICK j \in Bad : \A y \in Bad : j <= y
    <3>1. Bad \subseteq Nat
      BY <2>2
    <3> QED
      BY <2>1, <3>1, LeastNat
  <2>4. PICK i \in Full : i < j /\ ~(high(i) < low(j))
    OBVIOUS
  <2>5. PICK m \in Full : i <= m /\ m < j /\ high(m) < low(j)
    BY <1>4, <2>4
  <2>6. i # m
    BY <2>4, <2>5
  <2>7. i < m
    BY <2>2, <2>5, <2>6
  <2>8. m \notin Bad
    BY <2>2, <2>3, <2>5
  <2>9. high(i) < low(m)
    BY <2>7, <2>8
  <2>10. /\ low(m) <= high(m) /\ low(m) \in Int /\ high(m) \in Int
         /\ high(i) \in Int /\ low(j) \in Int
    BY <1>3, <2>4, <2>5
  <2> HIDE DEF high, low
  <2> QED
    BY <2>4, <2>5, <2>9, <2>10
<1>6. SUFFICES ASSUME NEW i \in DOMAIN r.refs, NEW j \in DOMAIN r.refs, i < j,
                      NEW a \in DOMAIN S(i), NEW b \in DOMAIN S(j)
               PROVE  S(i)[a].top < S(j)[b].top
  BY DEF OnTop, S
<1>7. i \in Full /\ j \in Full
  BY <1>2, <1>6 DEF Full, Ordered
<1>8. /\ S(i)[a].top <= high(i) /\ low(j) <= S(j)[b].top
      /\ high(i) \in Int /\ low(j) \in Int
  BY <1>3, <1>6, <1>7
<1>9. S(i)[a].top \in Int /\ S(j)[b].top \in Int
  BY <1>2, <1>6 DEF Ordered
<1>10. high(i) < low(j)
  BY <1>5, <1>6, <1>7
<1> HIDE DEF high, low
<1> QED
  BY <1>8, <1>9, <1>10

LEMMA CheckedStacksAscend == VInv => AcceptedStacksAscend
<1> SUFFICES ASSUME VInv, Accepted, Declared("slices"), Numbers, NEW r \in Stacks
             PROVE  /\ Ascend(r.slices)
                    /\ \A i, j \in DOMAIN r.refs :
                         i < j => OnTop(RefSlices(r.refs[i]), RefSlices(r.refs[j]))
  BY DEF AcceptedStacksAscend
<1>1. PICK path \in PartPaths :
        \E k \in DOMAIN AssetsOf(path) : r = AssetsOf(path)[k] /\ AssetsOf(path)[k].kind = "stack"
  BY DEF Stacks
<1>2. /\ IsSeq(r.refs) /\ Ordered(r.slices)
      /\ \A i \in DOMAIN r.refs : RefErrors(path, r, i) = {}
  BY <1>1, AcceptedStack
<1>3. \A i, j \in DOMAIN r.refs :
        i < j => OnTop(RefSlices(r.refs[i]), RefSlices(r.refs[j]))
  BY <1>2, ReferencesAscend
<1> QED
  BY <1>2, <1>3 DEF Ordered

(***************************************************************************)
(* In a model of any size that Validate accepts, the slices of every stack *)
(* ascend, and so do those of all the stacks that a stack refers to, one   *)
(* after the other, also over references that have no slices               *)
(* (slices/validate.go:75-180).                                            *)
(***************************************************************************)
THEOREM AcceptedStacksAlwaysAscend == ValidateSpec => []AcceptedStacksAscend
<1>1. ValidateSpec => []VInv
  BY InitVInv, StepVInv, PTL DEF ValidateSpec
<1> QED
  BY <1>1, CheckedStacksAscend, PTL

-----------------------------------------------------------------------------
(***************************************************************************)
(* The mesh of an import: the tree numbers the vertices of the cells.      *)
(***************************************************************************)
Points  == DOMAIN Cell
Trees   == UNION {[D -> Nat] : D \in SUBSET {Cell[p] : p \in Points}}
Builder == [vertices : Seq(Points), tree : Trees, triangles : Seq([1..3 -> Nat])]

Numbered(b) ==
  /\ \A v \in 1..Len(b.vertices) : /\ Cell[b.vertices[v]] \in DOMAIN b.tree
                                   /\ b.tree[Cell[b.vertices[v]]] = v
  /\ \A c \in DOMAIN b.tree : /\ b.tree[c] \in 1..Len(b.vertices)
                              /\ Cell[b.vertices[b.tree[c]]] = c

(* The vertices of b keep their indices in n.                              *)
Grows(b, n) ==
  /\ Len(b.vertices) <= Len(n.vertices) /\ n.triangles = b.triangles
  /\ \A v \in 1..Len(b.vertices) : n.vertices[v] = b.vertices[v]
  /\ \A c \in DOMAIN b.tree : c \in DOMAIN n.tree

Shows3(b, triangle, face) ==
  \A k \in 1..3 : triangle[k] \in 1..Len(b.vertices) /\ Cell[b.vertices[triangle[k]]] = Cell[face[k]]

MeshOf(b, faces) ==
  /\ b \in Builder /\ Numbered(b) /\ Len(b.triangles) <= Len(faces)
  /\ \A t \in 1..Len(b.triangles) : Shows3(b, b.triangles[t], faces[t])

LEMMA VectorAdded ==
  ASSUME NEW tree \in Trees, NEW p \in Points, NEW n \in Nat
  PROVE  /\ AddVector(tree, Cell[p], n) \in Trees
         /\ DOMAIN AddVector(tree, Cell[p], n) = DOMAIN tree \cup {Cell[p]}
         /\ AddVector(tree, Cell[p], n)[Cell[p]] = n
         /\ \A c \in DOMAIN tree : c # Cell[p] => AddVector(tree, Cell[p], n)[c] = tree[c]
<1>1. PICK cells : cells = {Cell[q] : q \in Points}
  OBVIOUS
<1>2. PICK D \in SUBSET cells : tree \in [D -> Nat]
  BY <1>1 DEF Trees
<1>3. PICK c0 \in cells : c0 = Cell[p]
  BY <1>1
<1>4. PICK new : new = [c \in D \cup {c0} |-> IF c = c0 THEN n ELSE tree[c]]
  OBVIOUS
<1>5. AddVector(tree, c0, n) = new
  BY <1>2, <1>4 DEF AddVector
<1>6. new \in [D \cup {c0} -> Nat] /\ D \cup {c0} \in SUBSET cells
  BY <1>2, <1>3, <1>4
<1>7. new \in Trees
  BY <1>1, <1>6 DEF Trees
<1>8. DOMAIN new = D \cup {c0} /\ new[c0] = n /\ \A c \in D : c # c0 => new[c] = tree[c]
  BY <1>4
<1>. QED
  BY <1>2, <1>3, <1>5, <1>7, <1>8

LEMMA VertexAdded ==
  ASSUME NEW b \in Builder, Numbered(b), NEW p \in Points, NEW n, n = AddVertex(b, p)
  PROVE  n \in Builder /\ Numbered(n) /\ Grows(b, n) /\ Cell[p] \in DOMAIN n.tree
<1>1. b.vertices \in Seq(Points) /\ b.tree \in Trees /\ Len(b.vertices) \in Nat
  BY DEF Builder
<1>2. CASE Cell[p] \in DOMAIN b.tree
  <2>1. n = b
    BY <1>2 DEF AddVertex
  <2>. QED
    BY <1>1, <1>2, <2>1 DEF Grows
<1>3. CASE Cell[p] \notin DOMAIN b.tree
  <2>1. PICK m \in Nat : m = Len(b.vertices) + 1
    BY <1>1
  <2>2. PICK vertices : vertices = Append(b.vertices, p)
    OBVIOUS
  <2>3. PICK tree : tree = AddVector(b.tree, Cell[p], m)
    OBVIOUS
  <2>4. n = [b EXCEPT !.vertices = vertices, !.tree = tree]
    BY <1>3, <2>1, <2>2, <2>3 DEF AddVertex
  <2>5. /\ vertices \in Seq(Points) /\ Len(vertices) = m /\ vertices[m] = p
        /\ \A v \in 1..Len(b.vertices) : vertices[v] = b.vertices[v]
    BY <1>1, <2>1, <2>2
  <2>6. /\ tree \in Trees /\ DOMAIN tree = DOMAIN b.tree \cup {Cell[p]} /\ tree[Cell[p]] = m
        /\ \A c \in DOMAIN b.tree : tree[c] = b.tree[c]
    <3>1. PICK t \in Trees : t = b.tree
      BY <1>1
    <3>2. /\ AddVector(t, Cell[p], m) \in Trees
          /\ DOMAIN AddVector(t, Cell[p], m) = DOMAIN t \cup {Cell[p]}
          /\ AddVector(t, Cell[p], m)[Cell[p]] = m
          /\ \A c \in DOMAIN t : c # Cell[p] => AddVector(t, Cell[p], m)[c] = t[c]
      BY ONLY <1>1, <2>1, VectorAdded, p \in Points, t \in Trees
    <3>3. \A c \in DOMAIN t : c # Cell[p]
      BY <1>3, <3>1
    <3>. QED
      BY <2>3, <3>1, <3>2, <3>3
  <2>7. n.vertices = vertices /\ n.tree = tree /\ n.triangles = b.triangles /\ n \in Builder
    BY <2>4, <2>5, <2>6 DEF Builder
  <2>8. ASSUME NEW v \in 1..m PROVE Cell[vertices[v]] \in DOMAIN tree /\ tree[Cell[vertices[v]]] = v
    <3>1. CASE v = m
      BY <2>5, <2>6, <3>1
    <3>2. CASE v # m
      <4>1. v \in 1..Len(b.vertices)
        BY <1>1, <2>1, <3>2
      <4>2. Cell[b.vertices[v]] \in DOMAIN b.tree /\ b.tree[Cell[b.vertices[v]]] = v
        BY <4>1 DEF Numbered
      <4>. QED
        BY <2>5, <2>6, <4>1, <4>2
    <3>. QED
      BY <3>1, <3>2
  <2>9. ASSUME NEW c \in DOMAIN tree PROVE tree[c] \in 1..m /\ Cell[vertices[tree[c]]] = c
    <3>1. CASE c = Cell[p]
      BY <1>1, <2>1, <2>5, <2>6, <3>1
    <3>2. CASE c # Cell[p]
      <4>1. c \in DOMAIN b.tree /\ tree[c] = b.tree[c]
        BY <2>6, <3>2
      <4>2. b.tree[c] \in 1..Len(b.vertices) /\ Cell[b.vertices[b.tree[c]]] = c
        BY <4>1 DEF Numbered
      <4>3. tree[c] \in 1..m
        BY <1>1, <2>1, <4>1, <4>2
      <4>. QED
        BY <2>5, <4>1, <4>2, <4>3
    <3>. QED
      BY <3>1, <3>2
  <2>10. Numbered(n)
    BY <2>5, <2>7, <2>8, <2>9 DEF Numbered
  <2>11. Grows(b, n)
    BY <1>1, <2>1, <2>5, <2>6, <2>7 DEF Grows
  <2>. QED
    BY <2>6, <2>7, <2>10, <2>11
<1>. QED
  BY <1>2, <1>3

LEMMA GrowsOn ==
  ASSUME NEW a, NEW b \in Builder, NEW c \in Builder, Grows(a, b), Grows(b, c), a \in Builder
  PROVE  Grows(a, c)
<1>1. Len(a.vertices) \in Nat /\ Len(b.vertices) \in Nat /\ Len(c.vertices) \in Nat
  BY DEF Builder
<1>2. \A v \in 1..Len(a.vertices) : v \in 1..Len(b.vertices)
  BY <1>1 DEF Grows
<1>. QED
  BY <1>1, <1>2 DEF Grows

LEMMA StillShown ==
  ASSUME NEW b \in Builder, NEW n \in Builder, Grows(b, n), NEW faces,
         \A t \in 1..Len(b.triangles) : Shows3(b, b.triangles[t], faces[t])
  PROVE  \A t \in 1..Len(b.triangles) : Shows3(n, b.triangles[t], faces[t])
<1>1. Len(b.vertices) \in Nat /\ Len(n.vertices) \in Nat
  BY DEF Builder
<1>2. \A v \in 1..Len(b.vertices) : v \in 1..Len(n.vertices) /\ n.vertices[v] = b.vertices[v]
  BY <1>1 DEF Grows
<1>3. ASSUME NEW t \in 1..Len(b.triangles), NEW k \in 1..3
      PROVE  /\ b.triangles[t][k] \in 1..Len(n.vertices)
             /\ Cell[n.vertices[b.triangles[t][k]]] = Cell[faces[t][k]]
  <2>1. PICK v \in 1..Len(b.vertices) : v = b.triangles[t][k] /\ Cell[b.vertices[v]] = Cell[faces[t][k]]
    BY Zenon DEF Shows3
  <2>2. v \in 1..Len(n.vertices) /\ n.vertices[v] = b.vertices[v]
    BY <1>2
  <2>. QED
    BY ONLY Zenon, <2>1, <2>2
<1>. QED
  BY ONLY Zenon, <1>3 DEF Shows3

LEMMA FaceAdded ==
  ASSUME NEW b, NEW faces \in Seq([1..3 -> Points]), MeshOf(b, faces), Len(b.triangles) < Len(faces),
         NEW n, n = AddFace(b, faces[Len(b.triangles) + 1])
  PROVE  MeshOf(n, faces) /\ Len(n.triangles) = Len(b.triangles) + 1
<1>1. /\ b \in Builder /\ Numbered(b) /\ b.triangles \in Seq([1..3 -> Nat])
      /\ \A t \in 1..Len(b.triangles) : Shows3(b, b.triangles[t], faces[t])
  BY DEF MeshOf, Builder
<1>2. PICK m \in Nat : m = Len(b.triangles)
  BY <1>1
<1>3. m + 1 \in 1..Len(faces) /\ Len(faces) \in Nat
  BY <1>2
<1>4. PICK face \in [1..3 -> Points] : face = faces[m + 1]
  BY <1>3
<1>5. face[1] \in Points /\ face[2] \in Points /\ face[3] \in Points
  BY <1>4
<1>6. PICK b1 : b1 = AddVertex(b, face[1])
  OBVIOUS
<1>7. PICK b2 : b2 = AddVertex(b1, face[2])
  OBVIOUS
<1>8. PICK b3 : b3 = AddVertex(b2, face[3])
  OBVIOUS
<1>9. b1 \in Builder /\ Numbered(b1) /\ Grows(b, b1) /\ Cell[face[1]] \in DOMAIN b1.tree
  BY <1>1, <1>5, <1>6, VertexAdded
<1>10. b2 \in Builder /\ Numbered(b2) /\ Grows(b1, b2) /\ Cell[face[2]] \in DOMAIN b2.tree
  BY <1>5, <1>7, <1>9, VertexAdded
<1>11. b3 \in Builder /\ Numbered(b3) /\ Grows(b2, b3) /\ Cell[face[3]] \in DOMAIN b3.tree
  BY <1>5, <1>8, <1>10, VertexAdded
<1>12. Grows(b, b3)
  <2>1. Grows(b, b2)
    BY <1>1, <1>9, <1>10, GrowsOn
  <2>. QED
    BY <1>1, <1>10, <1>11, <2>1, GrowsOn
<1>13. \A k \in 1..3 : Cell[face[k]] \in DOMAIN b3.tree
  <2>1. Cell[face[1]] \in DOMAIN b3.tree /\ Cell[face[2]] \in DOMAIN b3.tree
    BY <1>9, <1>10, <1>11 DEF Grows
  <2>. QED
    BY <1>11, <2>1
<1>14. PICK triangle : triangle = [k \in 1..3 |-> b3.tree[Cell[face[k]]]]
  OBVIOUS
<1>15. Shows3(b3, triangle, face)
  <2>1. \A k \in 1..3 : triangle[k] = b3.tree[Cell[face[k]]]
    BY <1>14
  <2>2. \A k \in 1..3 : triangle[k] \in 1..Len(b3.vertices) /\ Cell[b3.vertices[triangle[k]]] = Cell[face[k]]
    BY <1>11, <1>13, <2>1 DEF Numbered
  <2>. QED
    BY ONLY <2>2 DEF Shows3
<1>16. triangle \in [1..3 -> Nat]
  <2>1. \A k \in 1..3 : triangle[k] \in Nat
    <3>1. Len(b3.vertices) \in Nat
      BY <1>11 DEF Builder
    <3>. QED
      BY <1>15, <3>1 DEF Shows3
  <2>2. triangle = [k \in 1..3 |-> triangle[k]]
    BY <1>14
  <2>. QED
    BY <2>1, <2>2
<1>17. b3.triangles = b.triangles
  BY <1>12 DEF Grows
<1>18. PICK triangles : triangles = Append(b.triangles, triangle)
  OBVIOUS
<1>19. /\ triangles \in Seq([1..3 -> Nat]) /\ Len(triangles) = m + 1 /\ triangles[m + 1] = triangle
       /\ \A t \in 1..m : triangles[t] = b.triangles[t]
  BY <1>1, <1>2, <1>16, <1>18
<1>20. n = [b3 EXCEPT !.triangles = triangles]
  <2>1. AddFace(b, face) = [b3 EXCEPT !.triangles = Append(@, [k \in 1..3 |-> b3.tree[Cell[face[k]]]])]
    BY ONLY <1>6, <1>7, <1>8 DEF AddFace
  <2>2. AddFace(b, face) = [b3 EXCEPT !.triangles = Append(b3.triangles, triangle)]
    BY <1>14, <2>1
  <2>. QED
    BY <1>2, <1>4, <1>17, <1>18, <2>2
<1>21. n.vertices = b3.vertices /\ n.tree = b3.tree /\ n.triangles = triangles /\ n \in Builder
  BY <1>11, <1>19, <1>20 DEF Builder
<1>22. Numbered(n)
  BY <1>11, <1>21 DEF Numbered
<1>23. ASSUME NEW t \in 1..(m + 1) PROVE Shows3(n, triangles[t], faces[t])
  <2>1. CASE t = m + 1
    <3>1. triangles[t] = triangle /\ faces[t] = face
      BY <1>4, <1>19, <2>1
    <3>2. Shows3(n, triangle, face)
      BY ONLY <1>15, <1>21 DEF Shows3
    <3>. QED
      BY ONLY <3>1, <3>2
  <2>2. CASE t # m + 1
    <3>1. t \in 1..m
      BY <1>2, <2>2
    <3>2. Shows3(b3, b.triangles[t], faces[t])
      BY <1>1, <1>2, <1>11, <1>12, <3>1, StillShown
    <3>. QED
      BY <1>19, <1>21, <3>1, <3>2 DEF Shows3
  <2>. QED
    BY <2>1, <2>2
<1>24. n.triangles = triangles /\ Len(n.triangles) = m + 1 /\ m + 1 <= Len(faces)
  BY <1>3, <1>19, <1>21
<1>25. \A t \in 1..Len(n.triangles) : Shows3(n, n.triangles[t], faces[t])
  BY <1>23, <1>24
<1>26. MeshOf(n, faces)
  BY ONLY <1>21, <1>22, <1>24, <1>25 DEF MeshOf
<1>. QED
  BY ONLY <1>2, <1>24, <1>26

LEMMA VerticesAdded ==
  ASSUME NEW b \in Builder, Numbered(b), NEW points \in Seq(Points), NEW n, n = AddVertices(b, points)
  PROVE  n \in Builder /\ Numbered(n) /\ Grows(b, n)
<1>1. PICK m \in Nat : m = Len(points)
  OBVIOUS
<1>2. PICK S : S = {c \in Builder : Numbered(c)}
  OBVIOUS
<1>3. PICK step : step = [k \in 1..m |-> [c \in S |-> AddVertex(c, points[k])]]
  OBVIOUS
<1>4. ASSUME NEW k \in 1..m, NEW c \in S
      PROVE  AddVertex(c, points[k]) \in S /\ Grows(c, AddVertex(c, points[k]))
  <2>1. points[k] \in Points /\ c \in Builder /\ Numbered(c)
    BY <1>1, <1>2
  <2>. QED
    BY ONLY <1>2, <2>1, VertexAdded
<1>5. step \in [1..m -> [S -> S]] /\ b \in S
  BY <1>2, <1>3, <1>4
<1>6. PICK g \in [0..m -> S] : Follows(g, m, b, step)
  BY <1>5, RecursionExists
<1>. DEFINE Next0(h, k) == AddVertex(h[k - 1], points[k])
<1>7. g[0] = b /\ \A k \in 1..m : g[k] = Next0(g, k)
  <2>1. ASSUME NEW k \in 1..m PROVE g[k] = Next0(g, k)
    <3>1. k - 1 \in 0..m
      OBVIOUS
    <3>2. PICK c \in S : c = g[k - 1]
      BY <3>1
    <3>3. g[k] = step[k][c]
      BY <1>6, <3>2 DEF Follows
    <3>. QED
      BY <1>3, <3>2, <3>3
  <2>. QED
    BY <1>6, <2>1 DEF Follows
<1>. HIDE DEF Next0
<1>8. PICK H : H = [k \in 0..m |-> IF k = 0 THEN b ELSE Next0(g, k)]
  OBVIOUS
<1>9. g = H
  <2>1. \A k \in 0..m : k = 0 \/ k \in 1..m
    OBVIOUS
  <2>2. H[0] = b /\ \A k \in 1..m : H[k] = Next0(g, k)
    BY <1>8
  <2>3. \A k \in 0..m : g[k] = H[k]
    BY <1>7, <2>1, <2>2
  <2>. QED
    BY <1>8, <2>3
<1>10. PICK w : w = CHOOSE h : h = [k \in 0..m |-> IF k = 0 THEN b ELSE Next0(h, k)]
  OBVIOUS
<1>11. g = [k \in 0..m |-> IF k = 0 THEN b ELSE Next0(g, k)]
  BY <1>8, <1>9
<1>12. w = [k \in 0..m |-> IF k = 0 THEN b ELSE Next0(w, k)]
  BY <1>10, <1>11, Zenon
<1>13. w[0] = b /\ \A k \in 1..m : w[k] = Next0(w, k)
  <2>1. 0 \in 0..m /\ \A k \in 1..m : k \in 0..m /\ k # 0
    OBVIOUS
  <2>. QED
    BY <1>12, <2>1
<1>14. n = w[m]
  BY <1>1, <1>10 DEF AddVertices, Next0
<1>15. PICK holds : holds = [k \in 0..m |-> w[k] \in S /\ Grows(b, w[k])]
  OBVIOUS
<1>16. holds[0]
  <2>1. Grows(b, b)
    BY DEF Grows, Builder
  <2>2. 0 \in 0..m
    OBVIOUS
  <2>. QED
    BY <1>5, <1>13, <1>15, <2>1, <2>2
<1>17. ASSUME NEW k \in 1..m, holds[k - 1] PROVE holds[k]
  <2>1. k - 1 \in 0..m /\ k \in 0..m
    OBVIOUS
  <2>2. PICK c \in S : c = w[k - 1] /\ Grows(b, c)
    BY <1>15, <1>17, <2>1
  <2>3. w[k] = AddVertex(c, points[k])
    BY <1>13, <2>2 DEF Next0
  <2>4. w[k] \in S /\ Grows(c, w[k])
    BY <1>4, <2>3
  <2>5. Grows(b, w[k])
    BY <1>2, <1>5, <2>2, <2>4, GrowsOn
  <2>. QED
    BY <1>15, <2>1, <2>4, <2>5
<1>18. \A k \in 0..m : holds[k]
  BY <1>16, <1>17, AllFollow
<1>19. m \in 0..m
  OBVIOUS
<1>. QED
  BY <1>2, <1>14, <1>15, <1>18, <1>19

-----------------------------------------------------------------------------
(***************************************************************************)
(* UnusedID: the list is sorted, and its first gap is the lowest ID free.  *)
(***************************************************************************)
Ascending(s) == \A j, k \in 1..Len(s) : j < k => s[j] < s[k]
Among(x, s) == \E j \in 1..Len(s) : s[j] = x

(* What Insert puts in place k.                                            *)
Placed(s, id, k) == IF k <= Len(s) /\ s[k] <= id THEN s[k]
                    ELSE IF k = 1 \/ s[k - 1] <= id THEN id ELSE s[k - 1]

LEMMA Inserted ==
  ASSUME NEW s \in Seq(Nat), NEW id \in Nat, NEW r, r = Insert(s, id)
  PROVE  /\ r \in Seq(Nat) /\ Len(r) = Len(s) + 1
         /\ \A k \in 1..(Len(s) + 1) : r[k] = Placed(s, id, k)
<1>1. PICK n \in Nat : n = Len(s)
  OBVIOUS
<1>2. r = [k \in 1..(n + 1) |-> Placed(s, id, k)]
  BY <1>1 DEF Insert, Placed
<1>3. ASSUME NEW k \in 1..(n + 1) PROVE Placed(s, id, k) \in Nat
  <2>1. k <= n => s[k] \in Nat
    BY <1>1
  <2>2. k # 1 => k - 1 \in 1..n
    BY <1>1
  <2>3. k # 1 => s[k - 1] \in Nat
    BY <1>1, <2>2
  <2>. QED
    BY <1>1, <2>1, <2>3 DEF Placed
<1>4. r \in [1..(n + 1) -> Nat]
  BY <1>2, <1>3
<1>5. n + 1 \in Nat
  OBVIOUS
<1>6. r \in Seq(Nat) /\ Len(r) = n + 1
  BY <1>4, <1>5
<1>7. \A k \in 1..(n + 1) : r[k] = Placed(s, id, k)
  BY <1>2
<1>. QED
  BY <1>1, <1>6, <1>7

LEMMA InsertedInOrder ==
  ASSUME NEW s \in Seq(Nat), NEW id \in Nat, Ascending(s), ~Among(id, s), NEW r, r = Insert(s, id)
  PROVE  Ascending(r) /\ \A x : Among(x, r) <=> x = id \/ Among(x, s)
<1>1. PICK n \in Nat : n = Len(s)
  OBVIOUS
<1>2. r \in Seq(Nat) /\ Len(r) = n + 1 /\ \A k \in 1..(n + 1) : r[k] = Placed(s, id, k)
  BY <1>1, Inserted
<1>3. PICK from : from = {k \in 1..(n + 1) : k = n + 1 \/ s[k] > id}
  OBVIOUS
<1>4. PICK p \in from : \A k \in from : p <= k
  <2>1. n + 1 \in from /\ from \subseteq Nat
    BY <1>3
  <2>. QED
    BY <2>1, LeastNat
<1>5. p \in 1..(n + 1) /\ (p = n + 1 \/ s[p] > id)
  BY <1>3, <1>4
<1>6. ASSUME NEW k \in 1..n PROVE s[k] \in Nat /\ s[k] # id
  BY <1>1 DEF Among
<1>7. ASSUME NEW k \in 1..n, k < p PROVE s[k] < id
  <2>1. k \notin from
    BY <1>4, <1>5, <1>7
  <2>2. ~(s[k] > id)
    BY <1>3, <2>1
  <2>. QED
    BY <1>6, <2>2
<1>8. ASSUME NEW k \in 1..n, k >= p PROVE s[k] > id
  <2>1. p \in 1..n /\ s[p] > id
    BY <1>5, <1>8
  <2>2. CASE k = p
    BY <2>1, <2>2
  <2>3. CASE k # p
    <3>1. s[p] < s[k]
      BY <1>1, <1>5, <1>8, <2>1, <2>3 DEF Ascending
    <3>. QED
      BY <1>6, <2>1, <3>1
  <2>. QED
    BY <2>2, <2>3
<1>9. ASSUME NEW k \in 1..n, k < p PROVE r[k] = s[k]
  BY <1>1, <1>2, <1>6, <1>7, <1>9 DEF Placed
<1>10. r[p] = id
  <2>1. ~(p <= n /\ s[p] <= id)
    BY <1>5, <1>6
  <2>2. p = 1 \/ s[p - 1] <= id
    <3>1. p # 1 => p - 1 \in 1..n /\ p - 1 < p
      BY <1>5
    <3>. QED
      BY <1>6, <1>7, <3>1
  <2>3. Placed(s, id, p) = id
    BY ONLY <1>1, <2>1, <2>2 DEF Placed
  <2>4. p \in 1..(n + 1)
    BY <1>5
  <2>. QED
    BY ONLY <1>1, <1>2, <2>3, <2>4
<1>11. ASSUME NEW k \in 1..(n + 1), k > p PROVE r[k] = s[k - 1] /\ k - 1 \in 1..n /\ k - 1 >= p
  <2>1. k - 1 \in 1..n /\ k - 1 >= p /\ k # 1
    BY <1>5, <1>11
  <2>2. s[k - 1] > id /\ s[k - 1] \in Nat
    BY <1>6, <1>8, <2>1
  <2>3. k <= n => s[k] > id /\ s[k] \in Nat
    BY <1>6, <1>8, <1>5, <1>11
  <2>. QED
    BY <1>1, <1>2, <2>1, <2>2, <2>3 DEF Placed
<1>12. ASSUME NEW j \in 1..(n + 1), NEW k \in 1..(n + 1), j < k PROVE r[j] < r[k]
  <2>1. CASE k < p
    <3>1. j \in 1..n /\ k \in 1..n /\ j < p
      BY <1>5, <1>12, <2>1
    <3>2. s[j] < s[k]
      BY <1>1, <1>12, <3>1 DEF Ascending
    <3>. QED
      BY <1>9, <2>1, <3>1, <3>2
  <2>2. CASE k = p
    <3>1. j \in 1..n /\ j < p
      BY <1>5, <1>12, <2>2
    <3>. QED
      BY <1>7, <1>9, <1>10, <2>2, <3>1
  <2>3. CASE k > p
    <3>1. r[k] = s[k - 1] /\ k - 1 \in 1..n /\ k - 1 >= p
      BY <1>11, <2>3
    <3>2. s[k - 1] > id /\ s[k - 1] \in Nat
      BY <1>6, <1>8, <3>1
    <3>3. CASE j < p
      <4>1. j \in 1..n
        BY <1>5, <3>3
      <4>2. r[j] = s[j] /\ s[j] < id /\ s[j] \in Nat
        BY <1>6, <1>7, <1>9, <3>3, <4>1
      <4>. QED
        BY <3>1, <3>2, <4>2
    <3>4. CASE j = p
      BY <1>10, <3>1, <3>2, <3>4
    <3>5. CASE j > p
      <4>1. r[j] = s[j - 1] /\ j - 1 \in 1..n
        BY <1>11, <3>5
      <4>2. s[j - 1] < s[k - 1]
        <5>1. j - 1 < k - 1 /\ j - 1 \in 1..Len(s) /\ k - 1 \in 1..Len(s)
          BY <1>1, <1>12, <3>1, <4>1
        <5>2. Ascending(s)
          OBVIOUS
        <5>. QED
          BY ONLY <5>1, <5>2 DEF Ascending
      <4>. QED
        BY <3>1, <4>1, <4>2
    <3>. QED
      BY <1>5, <3>3, <3>4, <3>5
  <2>. QED
    BY <1>5, <2>1, <2>2, <2>3
<1>13. ASSUME NEW x, Among(x, r) PROVE x = id \/ Among(x, s)
  <2>1. PICK k \in 1..(n + 1) : r[k] = x
    BY <1>2, <1>13 DEF Among
  <2>2. CASE k < p
    <3>1. k \in 1..n /\ s[k] = x
      BY <1>5, <1>9, <2>1, <2>2
    <3>. QED
      BY <1>1, <3>1 DEF Among
  <2>3. CASE k = p
    BY <1>10, <2>1, <2>3
  <2>4. CASE k > p
    <3>1. k - 1 \in 1..n /\ s[k - 1] = x
      BY <1>11, <2>1, <2>4
    <3>. QED
      BY <1>1, <3>1 DEF Among
  <2>. QED
    BY <1>5, <2>2, <2>3, <2>4
<1>14. Among(id, r)
  BY <1>2, <1>5, <1>10 DEF Among
<1>15. ASSUME NEW x, Among(x, s) PROVE Among(x, r)
  <2>1. PICK k \in 1..n : s[k] = x
    BY <1>1, <1>15 DEF Among
  <2>2. CASE k < p
    <3>1. k \in 1..(n + 1) /\ r[k] = x
      BY <1>9, <2>1, <2>2
    <3>. QED
      BY <1>2, <3>1 DEF Among
  <2>3. CASE k >= p
    <3>1. PICK m : m = k + 1
      OBVIOUS
    <3>2. m \in 1..(n + 1) /\ m > p /\ m - 1 = k
      BY <1>5, <2>3, <3>1
    <3>3. r[m] = x
      BY <1>11, <2>1, <3>2
    <3>. QED
      BY <1>2, <3>2, <3>3 DEF Among
  <2>. QED
    BY <1>5, <2>2, <2>3
<1>16. Ascending(r)
  BY <1>2, <1>12 DEF Ascending
<1>. QED
  BY <1>13, <1>14, <1>15, <1>16

LEMMA SortedInOrder ==
  ASSUME NEW numbers \in Seq(Nat), NEW s, s = Sorted(numbers)
  PROVE  /\ s \in Seq(Nat) /\ Len(s) = Len(numbers)
         /\ (\A j, k \in 1..Len(numbers) : numbers[j] = numbers[k] => j = k)
              => Ascending(s) /\ \A x : Among(x, s) <=> Among(x, numbers)
<1>1. PICK m \in Nat : m = Len(numbers)
  OBVIOUS
<1>2. PICK step : step = [k \in 1..m |-> [c \in Seq(Nat) |-> Insert(c, numbers[k])]]
  OBVIOUS
<1>3. ASSUME NEW k \in 1..m PROVE numbers[k] \in Nat
  BY <1>1
<1>4. ASSUME NEW k \in 1..m, NEW c \in Seq(Nat)
      PROVE  Insert(c, numbers[k]) \in Seq(Nat) /\ Len(Insert(c, numbers[k])) = Len(c) + 1
  BY <1>3, Inserted
<1>5. step \in [1..m -> [Seq(Nat) -> Seq(Nat)]] /\ << >> \in Seq(Nat)
  BY <1>2, <1>4
<1>6. PICK g \in [0..m -> Seq(Nat)] : Follows(g, m, << >>, step)
  BY <1>5, RecursionExists
<1>. DEFINE Next0(h, k) == Insert(h[k - 1], numbers[k])
<1>7. g[0] = << >> /\ \A k \in 1..m : g[k] = Next0(g, k)
  <2>1. ASSUME NEW k \in 1..m PROVE g[k] = Next0(g, k)
    <3>1. k - 1 \in 0..m
      OBVIOUS
    <3>2. PICK c \in Seq(Nat) : c = g[k - 1]
      BY <3>1
    <3>3. g[k] = step[k][c]
      BY <1>6, <3>2 DEF Follows
    <3>. QED
      BY <1>2, <3>2, <3>3
  <2>. QED
    BY <1>6, <2>1 DEF Follows
<1>. HIDE DEF Next0
<1>8. PICK H : H = [k \in 0..m |-> IF k = 0 THEN << >> ELSE Next0(g, k)]
  OBVIOUS
<1>9. g = H
  <2>1. \A k \in 0..m : k = 0 \/ k \in 1..m
    OBVIOUS
  <2>2. H[0] = << >> /\ \A k \in 1..m : H[k] = Next0(g, k)
    BY <1>8
  <2>3. \A k \in 0..m : g[k] = H[k]
    BY <1>7, <2>1, <2>2
  <2>. QED
    BY <1>8, <2>3
<1>10. PICK w : w = CHOOSE h : h = [k \in 0..m |-> IF k = 0 THEN << >> ELSE Next0(h, k)]
  OBVIOUS
<1>11. g = [k \in 0..m |-> IF k = 0 THEN << >> ELSE Next0(g, k)]
  BY <1>8, <1>9
<1>12. w = [k \in 0..m |-> IF k = 0 THEN << >> ELSE Next0(w, k)]
  BY <1>10, <1>11, Zenon
<1>13. w[0] = << >> /\ \A k \in 1..m : w[k] = Next0(w, k)
  <2>1. 0 \in 0..m /\ \A k \in 1..m : k \in 0..m /\ k # 0
    OBVIOUS
  <2>. QED
    BY <1>12, <2>1
<1>14. s = w[m]
  BY <1>1, <1>10 DEF Sorted, Next0
<1>15. PICK holds : holds = [k \in 0..m |-> w[k] \in Seq(Nat) /\ Len(w[k]) = k]
  OBVIOUS
<1>16. holds[0]
  <2>1. 0 \in 0..m /\ << >> \in Seq(Nat) /\ Len(<< >>) = 0
    OBVIOUS
  <2>. QED
    BY <1>13, <1>15, <2>1
<1>17. ASSUME NEW k \in 1..m, holds[k - 1] PROVE holds[k]
  <2>1. k - 1 \in 0..m /\ k \in 0..m
    OBVIOUS
  <2>2. PICK c \in Seq(Nat) : c = w[k - 1] /\ Len(c) = k - 1
    BY <1>15, <1>17, <2>1
  <2>3. w[k] = Insert(c, numbers[k])
    BY <1>13, <2>2 DEF Next0
  <2>4. w[k] \in Seq(Nat) /\ Len(w[k]) = (k - 1) + 1
    BY <1>4, <2>2, <2>3
  <2>5. Len(w[k]) = k
    BY <2>4
  <2>. QED
    BY <1>15, <2>1, <2>4, <2>5
<1>18. \A k \in 0..m : w[k] \in Seq(Nat) /\ Len(w[k]) = k
  <2>1. m \in Nat
    OBVIOUS
  <2>2. \A k \in 0..m : holds[k]
    BY ONLY <1>16, <1>17, <2>1, AllFollow
  <2>. QED
    BY ONLY <1>15, <2>2
<1>19. ASSUME \A j, k \in 1..m : numbers[j] = numbers[k] => j = k
       PROVE  Ascending(s) /\ \A x : Among(x, s) <=> Among(x, numbers)
  <2>1. PICK good : good = [k \in 0..m |-> /\ Ascending(w[k])
                                           /\ \A x : Among(x, w[k]) <=> \E j \in 1..k : numbers[j] = x]
    OBVIOUS
  <2>2. good[0]
    <3>1. Ascending(w[0]) /\ \A x : ~Among(x, w[0])
      BY <1>13 DEF Ascending, Among
    <3>2. 0 \in 0..m /\ 1..0 = {}
      OBVIOUS
    <3>. QED
      BY <2>1, <3>1, <3>2
  <2>3. ASSUME NEW k \in 1..m, good[k - 1] PROVE good[k]
    <3>1. k - 1 \in 0..m /\ k \in 0..m
      OBVIOUS
    <3>2. PICK c \in Seq(Nat) : c = w[k - 1]
      BY <1>18, <3>1
    <3>3. Ascending(c) /\ \A x : Among(x, c) <=> \E j \in 1..(k - 1) : numbers[j] = x
      BY <2>1, <2>3, <3>1, <3>2
    <3>4. w[k] = Insert(c, numbers[k])
      BY <1>13, <3>2 DEF Next0
    <3>5. ~Among(numbers[k], c)
      <4>1. \A j \in 1..(k - 1) : j \in 1..m /\ j # k
        OBVIOUS
      <4>2. \A j \in 1..(k - 1) : numbers[j] # numbers[k]
        BY <1>19, <4>1
      <4>. QED
        BY <3>3, <4>2
    <3>6. Ascending(w[k]) /\ \A x : Among(x, w[k]) <=> x = numbers[k] \/ Among(x, c)
      BY <1>3, <3>3, <3>4, <3>5, InsertedInOrder
    <3>7. \A j : j \in 1..k <=> j \in 1..(k - 1) \/ j = k
      OBVIOUS
    <3>8. \A x : Among(x, w[k]) <=> \E j \in 1..k : numbers[j] = x
      BY <3>3, <3>6, <3>7
    <3>. QED
      BY <2>1, <3>1, <3>6, <3>8
  <2>4. \A k \in 0..m : good[k]
    BY <2>2, <2>3, AllFollow
  <2>5. m \in 0..m
    OBVIOUS
  <2>6. Ascending(w[m]) /\ \A x : Among(x, w[m]) <=> \E j \in 1..m : numbers[j] = x
    BY <2>1, <2>4, <2>5
  <2>7. \A x : Among(x, numbers) <=> \E j \in 1..m : numbers[j] = x
    BY <1>1 DEF Among
  <2>. QED
    BY <1>14, <2>6, <2>7
<1>20. m \in 0..m
  OBVIOUS
<1>. QED
  BY <1>1, <1>14, <1>18, <1>19, <1>20

LEMMA GapIsANumber ==
  ASSUME NEW s \in Seq(Nat), Len(s) > 0
  PROVE  FirstGap(s) \in Nat
<1>1. PICK n \in Nat : n = Len(s) /\ n > 0 /\ DOMAIN s = 1..n
  OBVIOUS
<1>2. PICK off : off = {k \in DOMAIN s : s[k] # k - 1}
  OBVIOUS
<1>3. CASE off = {}
  <2>1. Last(s) \in Nat
    BY <1>1 DEF Last
  <2>. QED
    BY <1>2, <1>3, <2>1 DEF FirstGap
<1>4. CASE off # {}
  <2>1. off \subseteq Nat
    BY <1>1, <1>2
  <2>2. PICK p : p = CHOOSE k \in off : \A j \in off : k <= j
    OBVIOUS
  <2>3. p \in off
    BY <1>4, <2>1, <2>2, LeastNat
  <2>4. p \in 1..n
    BY <1>1, <1>2, <2>3
  <2>5. FirstGap(s) = p - 1
    BY <1>2, <1>4, <2>2 DEF FirstGap
  <2>. QED
    BY <2>4, <2>5
<1>. QED
  BY <1>3, <1>4

LEMMA GapIsLowest ==
  ASSUME NEW s \in Seq(Nat), Len(s) > 0, s[1] = 0, Ascending(s), NEW id, id = FirstGap(s)
  PROVE  /\ id \in 1..Len(s) /\ ~Among(id, s)
         /\ \A x \in 1..Len(s) : ~Among(x, s) => id <= x
<1>1. PICK n \in Nat : n = Len(s) /\ n > 0 /\ DOMAIN s = 1..n
  OBVIOUS
<1>2. PICK off : off = {k \in 1..n : s[k] # k - 1}
  OBVIOUS
<1>3. ASSUME NEW k \in 1..n PROVE s[k] \in Nat
  BY <1>1
<1>4. CASE off = {}
  <2>1. \A k \in 1..n : s[k] = k - 1
    BY <1>2, <1>4
  <2>2. id = n
    <3>1. Last(s) = n - 1
      BY <1>1, <2>1 DEF Last
    <3>. QED
      BY <1>1, <1>2, <1>4, <3>1 DEF FirstGap
  <2>3. ~Among(id, s)
    BY <1>1, <2>1, <2>2 DEF Among
  <2>4. ASSUME NEW x \in 1..n, ~Among(x, s) PROVE id <= x
    <3>1. CASE x = n
      BY <2>2, <3>1
    <3>2. CASE x # n
      <4>1. PICK k : k = x + 1
        OBVIOUS
      <4>2. k \in 1..n /\ k - 1 = x
        BY <3>2, <4>1
      <4>3. s[k] = x
        BY <2>1, <4>2
      <4>. QED
        BY <1>1, <2>4, <4>2, <4>3 DEF Among
    <3>. QED
      BY <3>1, <3>2
  <2>. QED
    BY <1>1, <2>2, <2>3, <2>4
<1>5. CASE off # {}
  <2>1. off \subseteq Nat
    BY <1>2
  <2>2. PICK p : p = CHOOSE k \in off : \A j \in off : k <= j
    OBVIOUS
  <2>3. p \in off /\ \A j \in off : p <= j
    BY <1>5, <2>1, <2>2, LeastNat
  <2>4. p \in 1..n /\ s[p] # p - 1
    BY <1>2, <2>3
  <2>5. id = p - 1
    BY <1>1, <1>2, <1>5, <2>2 DEF FirstGap
  <2>6. p # 1
    BY <2>4
  <2>7. ASSUME NEW k \in 1..n, k < p PROVE s[k] = k - 1
    BY <1>2, <2>3, <2>4, <2>7
  <2>8. PICK l : l = p - 1
    OBVIOUS
  <2>9. l \in 1..n /\ l < p /\ s[l] = l - 1 /\ id = l
    BY <2>4, <2>5, <2>6, <2>7, <2>8
  <2>10. s[p] > l
    <3>1. s[l] < s[p]
      BY <1>1, <2>4, <2>9 DEF Ascending
    <3>. QED
      BY <1>3, <2>4, <2>8, <2>9, <3>1
  <2>11. ASSUME NEW k \in 1..n, s[k] = l PROVE FALSE
    <3>1. CASE k < p
      BY <2>7, <2>8, <2>4, <2>11, <3>1
    <3>2. CASE k = p
      BY <2>4, <2>9, <2>10, <2>11, <3>2
    <3>3. CASE k > p
      <4>1. s[p] < s[k]
        BY <1>1, <2>4, <3>3 DEF Ascending
      <4>. QED
        BY <1>3, <2>4, <2>9, <2>10, <2>11, <4>1
    <3>. QED
      BY <2>4, <3>1, <3>2, <3>3
  <2>12. ~Among(id, s)
    BY <1>1, <2>9, <2>11 DEF Among
  <2>13. ASSUME NEW x \in 1..n, ~Among(x, s) PROVE id <= x
    <3>1. SUFFICES ASSUME x < l PROVE FALSE
      BY <2>9
    <3>2. PICK k : k = x + 1
      OBVIOUS
    <3>3. k \in 1..n /\ k < p /\ k - 1 = x
      BY <2>8, <2>9, <2>4, <3>1, <3>2
    <3>4. s[k] = x
      BY <2>7, <3>3
    <3>. QED
      BY <1>1, <2>13, <3>3, <3>4 DEF Among
  <2>. QED
    BY <1>1, <2>9, <2>12, <2>13
<1>. QED
  BY <1>4, <1>5

LEMMA ZeroBefore ==
  ASSUME NEW used \in Seq(Nat), NEW numbers, numbers = << 0 >> \o used
  PROVE  /\ numbers \in Seq(Nat) /\ Len(numbers) = Len(used) + 1 /\ numbers[1] = 0
         /\ \A k \in 1..Len(used) : numbers[k + 1] = used[k]
  OBVIOUS

LEMMA LowestIsUnused ==
  ASSUME NEW used \in Seq(Nat), NEW id, id = UnusedID(used)
  PROVE  /\ id \in Nat
         /\ (/\ \A j, k \in 1..Len(used) : used[j] = used[k] => j = k
             /\ ~Among(0, used))
              => /\ id \in 1..(Len(used) + 1) /\ ~Among(id, used)
                 /\ \A x \in 1..(Len(used) + 1) : ~Among(x, used) => id <= x
<1>1. PICK n \in Nat : n = Len(used)
  OBVIOUS
<1>2. CASE used = << >>
  <2>1. id = 1 /\ n = 0 /\ \A x : ~Among(x, used)
    BY <1>1, <1>2 DEF UnusedID, Among
  <2>. QED
    BY <1>1, <2>1
<1>3. CASE used # << >>
  <2>1. PICK numbers : numbers = << 0 >> \o used
    OBVIOUS
  <2>2. /\ numbers \in Seq(Nat) /\ Len(numbers) = n + 1 /\ numbers[1] = 0
        /\ \A k \in 1..n : numbers[k + 1] = used[k]
    BY <1>1, <2>1, ZeroBefore
  <2>3. PICK s : s = Sorted(numbers)
    OBVIOUS
  <2>4. s \in Seq(Nat) /\ Len(s) = n + 1
    BY <2>2, <2>3, SortedInOrder
  <2>5. id = FirstGap(s)
    BY <1>3, <2>1, <2>3 DEF UnusedID
  <2>6. id \in Nat
    BY <2>4, <2>5, GapIsANumber
  <2>7. ASSUME \A j, k \in 1..n : used[j] = used[k] => j = k, ~Among(0, used)
        PROVE  /\ id \in 1..(n + 1) /\ ~Among(id, used)
               /\ \A x \in 1..(n + 1) : ~Among(x, used) => id <= x
    <3>1. ASSUME NEW k \in 1..(n + 1), k # 1 PROVE k - 1 \in 1..n /\ numbers[k] = used[k - 1]
      <4>1. PICK j : j = k - 1
        OBVIOUS
      <4>2. j \in 1..n /\ j + 1 = k
        BY <3>1, <4>1
      <4>. QED
        BY <2>2, <4>1, <4>2
    <3>2. ASSUME NEW k \in 1..n PROVE used[k] \in Nat /\ used[k] # 0
      BY <1>1, <2>7 DEF Among
    <3>3. ASSUME NEW j \in 1..(n + 1), NEW k \in 1..(n + 1), numbers[j] = numbers[k] PROVE j = k
      <4>1. CASE j = 1 /\ k # 1
        BY <2>2, <3>1, <3>2, <3>3, <4>1
      <4>2. CASE j # 1 /\ k = 1
        BY <2>2, <3>1, <3>2, <3>3, <4>2
      <4>3. CASE j # 1 /\ k # 1
        <5>1. j - 1 \in 1..n /\ k - 1 \in 1..n /\ used[j - 1] = used[k - 1]
          BY <3>1, <3>3, <4>3
        <5>2. j - 1 = k - 1
          BY <2>7, <5>1
        <5>. QED
          BY <5>2
      <4>. QED
        BY <4>1, <4>2, <4>3
    <3>4. Ascending(s) /\ \A x : Among(x, s) <=> Among(x, numbers)
      BY <2>2, <2>3, <3>3, SortedInOrder
    <3>5. ASSUME NEW x PROVE Among(x, numbers) <=> x = 0 \/ Among(x, used)
      <4>1. Among(x, numbers) => x = 0 \/ Among(x, used)
        BY <1>1, <2>2, <3>1 DEF Among
      <4>2. Among(0, numbers)
        BY <2>2 DEF Among
      <4>3. ASSUME NEW k \in 1..n PROVE k + 1 \in 1..(n + 1) /\ numbers[k + 1] = used[k]
        BY <2>2
      <4>4. Among(x, used) => Among(x, numbers)
        BY <1>1, <2>2, <4>3 DEF Among
      <4>. QED
        BY <4>1, <4>2, <4>4
    <3>6. s[1] = 0
      <4>1. PICK k \in 1..(n + 1) : s[k] = 0
        BY <2>4, <3>4, <3>5 DEF Among
      <4>2. 1 \in 1..(n + 1) /\ s[1] \in Nat
        BY <2>4
      <4>3. k # 1 => s[1] < s[k]
        BY <2>4, <3>4, <4>2 DEF Ascending
      <4>. QED
        BY <4>1, <4>2, <4>3
    <3>7. /\ id \in 1..(n + 1) /\ ~Among(id, s)
          /\ \A x \in 1..(n + 1) : ~Among(x, s) => id <= x
      BY <2>4, <2>5, <3>4, <3>6, GapIsLowest
    <3>8. \A x \in 1..(n + 1) : Among(x, s) <=> Among(x, used)
      BY <3>4, <3>5
    <3>. QED
      BY <3>7, <3>8
  <2>. QED
    BY <1>1, <2>6, <2>7
<1>. QED
  BY <1>2, <1>3

-----------------------------------------------------------------------------
(***************************************************************************)
(* The importer: the mesh is that of the faces read so far, a call that    *)
(* was cancelled was asked to, and a binary file that will fail has        *)
(* failed, or has a face left to fail at.                                  *)
(***************************************************************************)
BuildTypes ==
  /\ stl \in Files /\ canceled \in BOOLEAN /\ returned \in BOOLEAN
  /\ decodeErr \in {"nil", "read", "canceled"}
  /\ ids \in Seq(Nat) /\ added \in Seq([id : Nat, mesh : Builder])

BuildInv ==
  /\ BuildTypes
  /\ MeshOf(mb, stl.faces)
  /\ ~returned /\ decodeErr = "canceled" => canceled
  /\ ~returned /\ ~stl.ascii /\ stl.fails => decodeErr = "read" \/ Len(mb.triangles) < Len(stl.faces)

LEMMA FileFacts ==
  ASSUME NEW f \in Files
  PROVE  /\ f.faces \in Seq([1..3 -> Points]) /\ f.rest \in Seq(Points)
         /\ f.ascii \in BOOLEAN /\ f.fails \in BOOLEAN
         /\ ~f.ascii /\ f.fails => 0 < Len(f.faces)
<1>1. /\ f.faces \in Seq([1..3 -> Points]) /\ f.rest \in Seq(Points)
      /\ f.ascii \in BOOLEAN /\ f.fails \in BOOLEAN
      /\ f.ascii \/ f.faces # << >> \/ ~f.fails
  BY BuildingAssumption DEF BuildingAssumption, Points
<1>. QED
  BY <1>1

LEMMA NewIsMesh ==
  ASSUME NEW faces, Len(faces) \in Nat
  PROVE  MeshOf(NewMeshBuilder, faces) /\ Len(NewMeshBuilder.triangles) = 0
<1>1. PICK tree : tree = [cell \in {} |-> 0]
  OBVIOUS
<1>2. tree \in [{} -> Nat] /\ DOMAIN tree = {}
  BY <1>1
<1>3. tree \in Trees
  <2>1. {} \in SUBSET {Cell[p] : p \in Points}
    OBVIOUS
  <2>. QED
    BY <1>2, <2>1 DEF Trees
<1>4. PICK b : b = NewMeshBuilder
  OBVIOUS
<1>5. b.vertices = << >> /\ b.tree = tree /\ b.triangles = << >>
  BY <1>1, <1>4 DEF NewMeshBuilder
<1>6. b \in Builder
  BY <1>1, <1>3, <1>4 DEF NewMeshBuilder, Builder
<1>7. Numbered(b)
  BY <1>2, <1>5 DEF Numbered
<1>8. MeshOf(b, faces)
  BY <1>5, <1>6, <1>7 DEF MeshOf
<1>. QED
  BY <1>4, <1>5, <1>8

LEMMA BuildInvInit == BuildInit => BuildInv
<1>. SUFFICES ASSUME BuildInit PROVE BuildInv
  OBVIOUS
<1>1. stl \in Files /\ ids \in Seq(Nat)
  BY BuildingAssumption DEF BuildInit, BuildingAssumption
<1>2. Len(stl.faces) \in Nat /\ (~stl.ascii /\ stl.fails => 0 < Len(stl.faces))
  BY <1>1, FileFacts
<1>3. MeshOf(mb, stl.faces) /\ Len(mb.triangles) = 0
  BY <1>2, NewIsMesh DEF BuildInit
<1>4. canceled = FALSE /\ decodeErr = "nil" /\ returned = FALSE /\ added = << >>
  BY DEF BuildInit
<1>5. BuildTypes
  <2>1. PICK S : S = [id : Nat, mesh : Builder]
    OBVIOUS
  <2>2. added \in Seq(S)
    BY <1>4
  <2>. QED
    BY <1>1, <1>4, <2>1, <2>2 DEF BuildTypes
<1>. QED
  BY <1>2, <1>3, <1>4, <1>5 DEF BuildInv

LEMMA ImportStep == BuildInv /\ Import => BuildInv'
<1>. SUFFICES ASSUME BuildInv, Import PROVE BuildInv'
  OBVIOUS
<1>1. stl' \in Files /\ mb' = NewMeshBuilder
  BY DEF Import, Opened
<1>2. Len(stl'.faces) \in Nat /\ (~stl'.ascii /\ stl'.fails => 0 < Len(stl'.faces))
  BY <1>1, FileFacts
<1>3. MeshOf(mb', stl'.faces) /\ Len(mb'.triangles) = 0
  BY <1>1, <1>2, NewIsMesh
<1>4. canceled' = FALSE /\ decodeErr' = "nil" /\ returned' = FALSE /\ UNCHANGED <<ids, added>>
  BY DEF Import, Opened
<1>. QED
  BY <1>1, <1>2, <1>3, <1>4 DEF BuildInv, BuildTypes

LEMMA ReadFaceStep == BuildInv /\ ReadFace => BuildInv'
<1>. SUFFICES ASSUME BuildInv, ReadFace PROVE BuildInv'
  OBVIOUS
<1>1. /\ BuildTypes /\ MeshOf(mb, stl.faces) /\ ~returned
      /\ ~stl.ascii /\ stl.fails => decodeErr = "read" \/ Len(mb.triangles) < Len(stl.faces)
  BY DEF BuildInv, ReadFace
<1>2. stl.faces \in Seq([1..3 -> Points])
  BY <1>1, FileFacts DEF BuildTypes
<1>3. Len(mb.triangles) \in Nat /\ Len(stl.faces) \in Nat
  BY <1>1, <1>2 DEF MeshOf, Builder
<1>4. Looping /\ FaceRead = Len(mb.triangles) + 1 /\ FaceRead <= Len(stl.faces)
  BY DEF ReadFace, FaceRead
<1>5. UNCHANGED <<stl, canceled, returned, ids, added>>
  BY DEF ReadFace
<1>6. CASE ~stl.ascii /\ stl.fails /\ FaceRead = Len(stl.faces)
  <2>1. decodeErr' = "read" /\ mb' = mb
    BY <1>6 DEF ReadFace
  <2>. QED
    BY <1>1, <1>5, <2>1 DEF BuildInv, BuildTypes, MeshOf
<1>7. CASE ~(~stl.ascii /\ stl.fails /\ FaceRead = Len(stl.faces))
  <2>1. mb' = AddFace(mb, stl.faces[FaceRead])
    BY <1>7 DEF ReadFace
  <2>2. decodeErr' = IF FaceRead > faceCheck /\ canceled THEN "canceled" ELSE "nil"
    BY <1>7 DEF ReadFace
  <2>3. MeshOf(mb', stl.faces) /\ Len(mb'.triangles) = FaceRead
    BY <1>1, <1>2, <1>3, <1>4, <2>1, FaceAdded
  <2>4. decodeErr' \in {"nil", "read", "canceled"} /\ (decodeErr' = "canceled" => canceled)
    BY <2>2
  <2>5. ~stl.ascii /\ stl.fails => Len(mb'.triangles) < Len(stl.faces)
    BY <1>3, <1>4, <1>7, <2>3
  <2>6. MeshOf(mb', stl'.faces)
    BY <1>5, <2>3
  <2>7. BuildTypes'
    BY <1>1, <1>5, <2>4 DEF BuildTypes
  <2>. QED
    BY <1>5, <2>4, <2>5, <2>6, <2>7 DEF BuildInv
<1>. QED
  BY <1>6, <1>7

LEMMA FinishResult ==
  ASSUME BuildInv, Finish
  PROVE  /\ decodeErr' \in {"nil", "read", "canceled"}
         /\ decodeErr' = "nil" =>
              /\ AddVertices(mb, stl.rest) \in Builder /\ UnusedID(ids) \in Nat
              /\ ids' = Append(ids, UnusedID(ids))
              /\ added' = Append(added, [id |-> UnusedID(ids), mesh |-> AddVertices(mb, stl.rest)])
         /\ decodeErr' # "nil" => UNCHANGED <<ids, added>>
         /\ decodeErr' = decodeErr \/ decodeErr' = "read"
         /\ decodeErr' = "nil" => decodeErr = "nil" /\ ~(stl.ascii /\ stl.fails)
<1>1. PICK whole : whole = AddVertices(mb, stl.rest)
  OBVIOUS
<1>2. PICK id : id = UnusedID(ids)
  OBVIOUS
<1>3. PICK err : err = IF stl.ascii /\ decodeErr = "nil" /\ stl.fails THEN "read" ELSE decodeErr
  OBVIOUS
<1>4. BuildTypes /\ MeshOf(mb, stl.faces)
  BY DEF BuildInv
<1>5. whole \in Builder
  <2>1. mb \in Builder /\ Numbered(mb) /\ stl.rest \in Seq(Points)
    BY <1>4, FileFacts DEF MeshOf, BuildTypes
  <2>. QED
    BY <1>1, <2>1, VerticesAdded
<1>6. id \in Nat
  BY <1>2, <1>4, LowestIsUnused DEF BuildTypes
<1>7. decodeErr' = err
  BY <1>3 DEF Finish
<1>8. err = "nil" => /\ ids' = Append(ids, id)
                     /\ added' = Append(added, [id |-> id, mesh |-> whole])
  BY <1>1, <1>2, <1>3 DEF Finish
<1>9. err # "nil" => UNCHANGED <<ids, added>>
  BY <1>3 DEF Finish
<1>10. /\ err \in {"nil", "read", "canceled"} /\ (err = decodeErr \/ err = "read")
       /\ err = "nil" => decodeErr = "nil" /\ ~(stl.ascii /\ stl.fails)
  BY <1>3, <1>4 DEF BuildTypes
<1>. QED
  BY <1>1, <1>2, <1>5, <1>6, <1>7, <1>8, <1>9, <1>10

LEMMA FinishStep == BuildInv /\ Finish => BuildInv'
<1>. SUFFICES ASSUME BuildInv, Finish PROVE BuildInv'
  OBVIOUS
<1>1. BuildTypes /\ MeshOf(mb, stl.faces)
  BY DEF BuildInv
<1>2. returned' = TRUE /\ UNCHANGED <<stl, mb, canceled>>
  BY DEF Finish
<1>3. decodeErr' \in {"nil", "read", "canceled"}
  BY FinishResult
<1>4. ids' \in Seq(Nat) /\ added' \in Seq([id : Nat, mesh : Builder])
  <2>1. ids \in Seq(Nat) /\ added \in Seq([id : Nat, mesh : Builder])
    BY <1>1 DEF BuildTypes
  <2>2. CASE decodeErr' = "nil"
    <3>1. PICK id \in Nat : id = UnusedID(ids) /\ ids' = Append(ids, id)
      BY <2>2, FinishResult
    <3>2. PICK whole \in Builder : whole = AddVertices(mb, stl.rest)
      BY <2>2, FinishResult
    <3>3. added' = Append(added, [id |-> id, mesh |-> whole])
      BY <2>2, <3>1, <3>2, FinishResult
    <3>4. [id |-> id, mesh |-> whole] \in [id : Nat, mesh : Builder]
      OBVIOUS
    <3>. QED
      BY <2>1, <3>1, <3>3, <3>4
  <2>3. CASE decodeErr' # "nil"
    BY <2>1, <2>3, FinishResult
  <2>. QED
    BY <2>2, <2>3
<1>5. BuildTypes'
  BY <1>1, <1>2, <1>3, <1>4 DEF BuildTypes
<1>6. MeshOf(mb', stl'.faces)
  BY <1>1, <1>2
<1>. QED
  BY <1>2, <1>5, <1>6 DEF BuildInv

LEMMA BuildStep == BuildInv /\ [BuildNext]_buildVars => BuildInv'
<1>. SUFFICES ASSUME BuildInv, [BuildNext]_buildVars PROVE BuildInv'
  OBVIOUS
<1>1. CASE Import
  BY <1>1, ImportStep
<1>2. CASE Cancel
  <2>1. canceled' = TRUE /\ UNCHANGED <<stl, mb, decodeErr, returned, ids, added>>
    BY <1>2 DEF Cancel
  <2>2. BuildTypes'
    BY <2>1 DEF BuildInv, BuildTypes
  <2>3. MeshOf(mb', stl'.faces)
    BY <2>1 DEF BuildInv
  <2>. QED
    BY <2>1, <2>2, <2>3 DEF BuildInv
<1>3. CASE ReadFace
  BY <1>3, ReadFaceStep
<1>4. CASE Finish
  BY <1>4, FinishStep
<1>5. CASE UNCHANGED buildVars
  <2>1. UNCHANGED <<stl, mb, canceled, decodeErr, returned, ids, added>>
    BY <1>5 DEF buildVars
  <2>2. BuildTypes'
    BY <2>1 DEF BuildInv, BuildTypes
  <2>3. MeshOf(mb', stl'.faces)
    BY <2>1 DEF BuildInv
  <2>. QED
    BY <2>1, <2>2, <2>3 DEF BuildInv
<1>. QED
  BY <1>1, <1>2, <1>3, <1>4, <1>5 DEF BuildNext

(* A mesh of all faces, with the vertices of a triangle that is cut.       *)
LEMMA WholeMesh ==
  ASSUME NEW b, NEW file \in Files, MeshOf(b, file.faces), Len(b.triangles) = Len(file.faces),
         NEW whole, whole = AddVertices(b, file.rest)
  PROVE  Meets(whole, file)
<1>1. file.faces \in Seq([1..3 -> Points]) /\ file.rest \in Seq(Points)
  BY FileFacts
<1>2. /\ b \in Builder /\ Numbered(b)
      /\ \A t \in 1..Len(b.triangles) : Shows3(b, b.triangles[t], file.faces[t])
  BY DEF MeshOf
<1>3. whole \in Builder /\ Numbered(whole) /\ Grows(b, whole)
  BY <1>1, <1>2, VerticesAdded
<1>4. whole.triangles = b.triangles
  BY <1>3 DEF Grows
<1>5. \A t \in 1..Len(b.triangles) : Shows3(whole, b.triangles[t], file.faces[t])
  BY <1>2, <1>3, StillShown
<1>6. PICK n \in Nat : n = Len(file.faces) /\ DOMAIN file.faces = 1..n
  BY <1>1
<1>7. \A t \in DOMAIN file.faces : \A k \in 1..3 :
        Cell[whole.vertices[whole.triangles[t][k]]] = Cell[file.faces[t][k]]
  <2>1. ASSUME NEW t \in DOMAIN file.faces, NEW k \in 1..3
        PROVE  Cell[whole.vertices[whole.triangles[t][k]]] = Cell[file.faces[t][k]]
    <3>1. t \in 1..Len(b.triangles)
      BY <1>6
    <3>2. Shows3(whole, b.triangles[t], file.faces[t])
      BY ONLY <1>5, <3>1
    <3>. QED
      BY ONLY <1>4, <3>2, k \in 1..3 DEF Shows3
  <2>. QED
    BY ONLY <2>1
<1>8. ASSUME NEW v \in DOMAIN whole.vertices, NEW w \in DOMAIN whole.vertices,
             Cell[whole.vertices[v]] = Cell[whole.vertices[w]]
      PROVE  v = w
  <2>1. DOMAIN whole.vertices = 1..Len(whole.vertices)
    BY <1>3 DEF Builder
  <2>2. whole.tree[Cell[whole.vertices[v]]] = v /\ whole.tree[Cell[whole.vertices[w]]] = w
    BY <1>3, <2>1 DEF Numbered
  <2>. QED
    BY <1>8, <2>2
<1>. QED
  BY <1>4, <1>6, <1>7, <1>8 DEF Meets

(* What Finish does to the mesh and the error.                             *)
LEMMA FinishedWhole ==
  ASSUME BuildInv, Finish, decodeErr' = "nil"
  PROVE  Len(added') = Len(added) + 1 /\ Meets(Last(added').mesh, stl) /\ ~stl.fails
<1>1. BuildTypes /\ MeshOf(mb, stl.faces) /\ ~returned
  BY DEF BuildInv, Finish
<1>2. decodeErr = "nil" /\ ~(stl.ascii /\ stl.fails)
  BY FinishResult
<1>3. stl \in Files /\ stl.ascii \in BOOLEAN /\ stl.fails \in BOOLEAN
  BY <1>1, FileFacts DEF BuildTypes
<1>4. Len(mb.triangles) \in Nat /\ Len(stl.faces) \in Nat /\ Len(mb.triangles) <= Len(stl.faces)
  BY <1>1, <1>3, FileFacts DEF MeshOf, Builder
<1>5. Len(mb.triangles) = Len(stl.faces)
  <2>1. Looping
    BY <1>2 DEF Looping
  <2>2. Len(mb.triangles) + 1 > Len(stl.faces)
    BY <2>1 DEF Finish, FaceRead
  <2>. QED
    BY <1>4, <2>2
<1>6. ~stl.fails
  <2>1. ~stl.ascii /\ stl.fails => Len(mb.triangles) < Len(stl.faces)
    BY <1>1, <1>2 DEF BuildInv
  <2>. QED
    BY <1>2, <1>3, <1>4, <1>5, <2>1
<1>7. PICK whole : whole = AddVertices(mb, stl.rest)
  OBVIOUS
<1>8. Meets(whole, stl)
  BY <1>1, <1>3, <1>5, <1>7, WholeMesh
<1>9. PICK item \in [id : Nat, mesh : Builder] : item.mesh = whole /\ added' = Append(added, item)
  <2>1. whole \in Builder /\ UnusedID(ids) \in Nat
    BY <1>7, FinishResult
  <2>2. added' = Append(added, [id |-> UnusedID(ids), mesh |-> whole])
    BY <1>7, FinishResult
  <2>. QED
    BY <2>1, <2>2
<1>10. Len(added') = Len(added) + 1 /\ Last(added') = item
  BY <1>1, <1>9 DEF BuildTypes, Last
<1>. QED
  BY <1>6, <1>8, <1>9, <1>10

(* Only Finish returns, and only Finish adds an object.                    *)
LEMMA OnlyFinish ==
  ASSUME BuildInv, [BuildNext]_buildVars
  PROVE  /\ ~returned /\ returned' => Finish
         /\ Len(added') > Len(added) => Finish
<1>1. Len(added) \in Nat
  BY DEF BuildInv, BuildTypes
<1>2. CASE Import
  BY <1>1, <1>2 DEF Import
<1>3. CASE Cancel
  BY <1>1, <1>3 DEF Cancel
<1>4. CASE ReadFace
  BY <1>1, <1>4 DEF ReadFace
<1>5. CASE UNCHANGED buildVars
  BY <1>1, <1>5 DEF buildVars
<1>. QED
  BY <1>2, <1>3, <1>4, <1>5 DEF BuildNext

(***************************************************************************)
(* For every set of files, of any number of faces, and every interval of   *)
(* the polls, an import without an error has added the whole mesh, and one *)
(* with an error nothing (Decoder.DecodeContext, importer/stl).            *)
(***************************************************************************)
THEOREM ImportsAlwaysWholeOrNot == BuildSpec => ImportedWholeOrNot
<1>1. BuildInv /\ [BuildNext]_buildVars =>
        [ /\ ~returned /\ returned' /\ decodeErr' = "nil" =>
               /\ Len(added') = Len(added) + 1 /\ Meets(Last(added').mesh, stl)
               /\ ~stl.fails
          /\ ~returned /\ returned' /\ decodeErr' # "nil" => UNCHANGED <<ids, added>>
          /\ ~returned /\ returned' /\ decodeErr' = "canceled" => canceled ]_buildVars
  <2>. SUFFICES ASSUME BuildInv, [BuildNext]_buildVars, ~returned, returned'
       PROVE  /\ decodeErr' = "nil" => /\ Len(added') = Len(added) + 1
                                       /\ Meets(Last(added').mesh, stl) /\ ~stl.fails
              /\ decodeErr' # "nil" => UNCHANGED <<ids, added>>
              /\ decodeErr' = "canceled" => canceled
    OBVIOUS
  <2>1. Finish
    BY OnlyFinish
  <2>2. decodeErr' = "nil" => /\ Len(added') = Len(added) + 1
                              /\ Meets(Last(added').mesh, stl) /\ ~stl.fails
    BY <2>1, FinishedWhole
  <2>3. decodeErr' # "nil" => UNCHANGED <<ids, added>>
    BY <2>1, FinishResult
  <2>4. decodeErr' = "canceled" => canceled
    <3>1. decodeErr' = decodeErr \/ decodeErr' = "read"
      BY <2>1, FinishResult
    <3>. QED
      BY <3>1 DEF BuildInv
  <2>. QED
    BY <2>2, <2>3, <2>4
<1>. QED
  BY <1>1, BuildInvInit, BuildStep, PTL DEF BuildSpec, ImportedWholeOrNot

(***************************************************************************)
(* For every list of IDs a model starts with, and every number of imports, *)
(* an object that is added gets the lowest ID that is free, as long as no  *)
(* two resources share one (Resources.UnusedID, core.go).                  *)
(***************************************************************************)
THEOREM IDsAlwaysFresh == BuildSpec => IDsAreFresh
<1>1. BuildInv /\ [BuildNext]_buildVars =>
        [ Len(added') > Len(added) /\ Distinct(ids) /\ 0 \notin Range(ids) =>
            Last(added').id \in Unused /\ \A n \in Unused : Last(added').id <= n ]_buildVars
  <2>. SUFFICES ASSUME BuildInv, [BuildNext]_buildVars,
                       Len(added') > Len(added), Distinct(ids), 0 \notin Range(ids)
       PROVE  Last(added').id \in Unused /\ \A n \in Unused : Last(added').id <= n
    OBVIOUS
  <2>1. Finish
    BY OnlyFinish
  <2>2. ids \in Seq(Nat) /\ added \in Seq([id : Nat, mesh : Builder])
    BY DEF BuildInv, BuildTypes
  <2>3. decodeErr' = "nil"
    BY <2>1, <2>2, FinishResult
  <2>4. PICK id \in Nat : id = UnusedID(ids)
    BY <2>1, <2>3, FinishResult
  <2>5. Last(added').id = id
    <3>1. PICK item \in [id : Nat, mesh : Builder] : item.id = id /\ added' = Append(added, item)
      <4>1. AddVertices(mb, stl.rest) \in Builder
        BY <2>1, <2>3, FinishResult
      <4>2. added' = Append(added, [id |-> id, mesh |-> AddVertices(mb, stl.rest)])
        BY <2>1, <2>3, <2>4, FinishResult
      <4>. QED
        BY <4>1, <4>2
    <3>2. Last(added') = item
      BY <2>2, <3>1 DEF Last
    <3>. QED
      BY <3>1, <3>2
  <2>6. DOMAIN ids = 1..Len(ids)
    BY <2>2
  <2>7. \A x : x \in Range(ids) <=> Among(x, ids)
    BY <2>6 DEF Range, Among
  <2>8. /\ id \in 1..(Len(ids) + 1) /\ ~Among(id, ids)
        /\ \A x \in 1..(Len(ids) + 1) : ~Among(x, ids) => id <= x
    <3>1. \A j, k \in 1..Len(ids) : ids[j] = ids[k] => j = k
      BY <2>6 DEF Distinct
    <3>2. ~Among(0, ids)
      BY <2>7
    <3>. QED
      BY <2>2, <2>4, <3>1, <3>2, LowestIsUnused
  <2>. QED
    BY <2>5, <2>7, <2>8 DEF Unused
<1>. QED
  BY <1>1, BuildInvInit, BuildStep, PTL DEF BuildSpec, IDsAreFresh
=============================================================================
