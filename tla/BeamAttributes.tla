--------------------------- MODULE BeamAttributes --------------------------
(***************************************************************************)
(* The attributes of a beam lattice and of its beams, as                   *)
(* beamlattice/encoder.go writes them and beamlattice/decoder.go reads     *)
(* them: a radius or a cap mode that is left out has a default, the radius *)
(* at the second end another one than at the first.                        *)
(***************************************************************************)
EXTENDS Naturals, Sequences

CONSTANTS
  Radii,     \* the radii, of which 0 stands for none
  Rounded,   \* [Radii -> Radii]: a radius with FloatPrecision decimals
  CapModes,
  CapModeSphere,
  MaxBeams   \* bound on the beams of a lattice

ASSUME BeamAssumption ==
  /\ 0 \in Radii /\ Radii \subseteq Nat
  /\ Rounded \in [Radii -> Radii] /\ Rounded[0] = 0
  /\ CapModeSphere \in CapModes
  /\ MaxBeams \in Nat

Beam    == [r1 : Radii, r2 : Radii, cap1 : CapModes, cap2 : CapModes]
Lattice == [radius : Radii, cap : CapModes]

VARIABLES
  lattice,      \* the lattice that is written: its defaults
  beams,        \* and its beams
  written,      \* the attributes that were written for each beam
  opened,       \* the lattice was read
  defaults,     \* the defaults it has
  decodedBeams  \* and its beams

beamVars == <<lattice, beams, written, opened, defaults, decodedBeams>>

(* Marshal3MF writes the radius always, and the cap mode unless it is the  *)
(* one that Start of beamLatticeDecoder has without it.                    *)
ReadLattice == [radius |-> Rounded[lattice.radius], cap |-> lattice.cap]

BeamInit ==
  /\ lattice \in Lattice
  /\ beams \in UNION {[1..n -> Beam] : n \in 0..MaxBeams}
  /\ written = <<>>
  /\ opened = FALSE
  /\ defaults = [radius |-> 0, cap |-> CapModeSphere]
  /\ decodedBeams = <<>>

-----------------------------------------------------------------------------
(* Mutant: the default cap mode is always that of a sphere. *)
BeamShows_SphereIsDefault(b) ==
  {a \in {"r1"} : b.r1 > 0 /\ b.r1 # lattice.radius}
  \cup {a \in {"r2"} : b.r2 > 0 /\ b.r2 # lattice.radius}
  \cup {a \in {"cap1"} : b.cap1 # CapModeSphere}
  \cup {a \in {"cap2"} : b.cap2 # CapModeSphere}

(* The attributes that marshalBeams writes.                                *)
BeamShows(b) ==
  {a \in {"r1"} : b.r1 > 0 /\ b.r1 # lattice.radius}
  \cup {a \in {"r2"} : b.r2 > 0 /\ b.r2 # lattice.radius}
  \cup {a \in {"cap1"} : b.cap1 # lattice.cap}
  \cup {a \in {"cap2"} : b.cap2 # lattice.cap}

WriteBeam ==
  /\ Len(written) < Len(beams)
  /\ LET b == beams[Len(written) + 1]
     IN  written' = Append(written, [a \in BeamShows(b) |-> IF a \in {"r1", "r2"} THEN Rounded[b[a]] ELSE b[a]])
  /\ UNCHANGED <<lattice, beams, opened, defaults, decodedBeams>>

(* Start of beamLatticeDecoder.                                            *)
ReadDefaults ==
  /\ ~opened /\ opened' = TRUE
  /\ Len(written) = Len(beams)
  /\ defaults' = ReadLattice
  /\ UNCHANGED <<lattice, beams, written, decodedBeams>>

-----------------------------------------------------------------------------
Given(x, a, default) == IF a \in DOMAIN x THEN x[a] ELSE default
OrElse(r, default)   == IF r = 0 THEN default ELSE r

(* Start of beamDecoder.                                                   *)
BeamRead(x) ==
  LET r1 == OrElse(Given(x, "r1", 0), defaults.radius)
  IN  [r1   |-> r1,
       r2   |-> OrElse(Given(x, "r2", 0), r1),
       cap1 |-> Given(x, "cap1", defaults.cap),
       cap2 |-> Given(x, "cap2", defaults.cap)]

ReadBeam ==
  /\ opened
  /\ Len(decodedBeams) < Len(written)
  /\ decodedBeams' = Append(decodedBeams, BeamRead(written[Len(decodedBeams) + 1]))
  /\ UNCHANGED <<lattice, beams, written, opened, defaults>>

BeamNext == WriteBeam \/ ReadDefaults \/ ReadBeam

BeamSpec == BeamInit /\ [][BeamNext]_beamVars

-----------------------------------------------------------------------------
(* Every variable holds a value of the Go type it stands for: the first    *)
(* part of the inductive invariant in BeamAttributes_proofs.               *)
BeamTypeOK ==
  /\ lattice \in Lattice /\ defaults \in Lattice
  /\ beams \in Seq(Beam) /\ decodedBeams \in Seq(Beam)
  /\ opened \in BOOLEAN
  /\ Len(decodedBeams) <= Len(written) /\ Len(written) <= Len(beams)

(***************************************************************************)
(* The radii of a beam: at an end that has none, those of the lattice or   *)
(* of the first end.                                                       *)
(***************************************************************************)
Radius1(b) == OrElse(b.r1, lattice.radius)
Radius2(b) == OrElse(b.r2, Radius1(b))

BeamMeaning(b) == [r1 |-> Rounded[Radius1(b)], r2 |-> Rounded[Radius2(b)],
               cap1 |-> b.cap1, cap2 |-> b.cap2]

(***************************************************************************)
(* The test of the package (beamlattice/encoder_test.go) writes a lattice, *)
(* reads it, and asks for the same lattice.  Up to rounding, and to the    *)
(* defaults that are filled in, every beam is read as it was written, but  *)
(* for two kinds: one that has the radius of the lattice at its second end *)
(* only (encoder.go leaves that radius out, decoder.go fills in the one of *)
(* the first end), and one with a radius so small that it is rounded to    *)
(* none.                                                                   *)
(***************************************************************************)
Regular(b) ==
  /\ b.r2 = lattice.radius => Radius1(b) = lattice.radius
  /\ \A r \in {b.r1, b.r2} : r # 0 => Rounded[r] # 0

RegularBeamsReadAsMeant ==
  \A k \in DOMAIN decodedBeams : Regular(beams[k]) => decodedBeams[k] = BeamMeaning(beams[k])
=============================================================================
