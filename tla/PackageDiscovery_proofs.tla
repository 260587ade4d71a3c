----------------------- MODULE PackageDiscovery_proofs -----------------------
(* What package discovery guarantees for packages of any size and any number *)
(* of calls of Decode: proofs of the invariants of PackageDiscovery.         *)
EXTENDS PackageDiscovery, Recursion_proofs, TLAPS

AllDistinct(atts) ==
  \A i, j \in DOMAIN atts : SameName(atts[i], atts[j]) => i = j

(* What addAttachment does to the list: it grows, keeps its elements where   *)
(* they are, stays free of equal names, and holds the part if it is readable.*)
LEMMA AddAttachmentFacts ==
  ASSUME NEW atts \in Seq(Names), NEW name \in Names
  PROVE  /\ AddAttachment(atts, name) \in Seq(Names)
         /\ DOMAIN atts \subseteq DOMAIN AddAttachment(atts, name)
         /\ \A i \in DOMAIN atts : AddAttachment(atts, name)[i] = atts[i]
         /\ name \in pkg.readable =>
              \E i \in DOMAIN AddAttachment(atts, name) :
                SameName(AddAttachment(atts, name)[i], name)
         /\ AllDistinct(atts) => AllDistinct(AddAttachment(atts, name))
<1> DEFINE new == AddAttachment(atts, name)
<1>1. CASE new = atts
  BY <1>1 DEF AddAttachment, SameName, AllDistinct
<1>2. CASE new # atts
  <2>1. /\ new = Append(atts, name)
        /\ \A i \in DOMAIN atts : ~SameName(atts[i], name)
    BY <1>2 DEF AddAttachment
  <2>2. /\ new \in Seq(Names)
        /\ Len(new) = Len(atts) + 1
        /\ \A i \in 1..Len(atts) : new[i] = atts[i]
        /\ new[Len(atts) + 1] = name
    BY <2>1
  <2>3. DOMAIN new = DOMAIN atts \cup {Len(atts) + 1}
    BY <2>2
  <2>. QED
    BY <2>1, <2>2, <2>3 DEF SameName, AllDistinct
<1>. QED
  BY <1>1, <1>2

(* Resolving a relationship of a part always gives a name.                   *)
LEMMA PartOfType ==
  ASSUME NEW s \in Sources, NEW r \in Rel
  PROVE  PartOf(s, r) \in Names
BY DiscoveryAssumption DEF PartOf, Rel

LEMMA RelType ==
  ASSUME IsPackage(pkg), NEW s \in Sources, NEW i \in DOMAIN pkg.rels[s]
  PROVE  /\ pkg.rels[s] \in Seq(Rel)
         /\ pkg.rels[s][i] \in Rel
         /\ PartOf(s, pkg.rels[s][i]) \in Names
<1>1. pkg.rels[s] \in Seq(Rel)
  BY DEF IsPackage
<1>2. pkg.rels[s][i] \in Rel
  BY <1>1
<1>. QED
  BY <1>1, <1>2, PartOfType

(* No step of discovery, whatever the package holds, leaves the types.       *)
LEMMA DiscoveryTypeInductive ==
  ASSUME DiscoveryTypeOK, [DiscoveryNext]_discVars
  PROVE  DiscoveryTypeOK'
<1> USE DiscoveryAssumption DEF Sources
<1>1. CASE OpenPackage
  BY <1>1 DEF OpenPackage, DiscoveryTypeOK, Phases, modelVars
<1>2. CASE VisitRootModel
  <2>1. PartOf(PackageRoot, PackageRel) \in Names
    BY <1>2, RelType DEF VisitRootModel, DiscoveryTypeOK, PackageRel
  <2>. QED
    BY <1>2, <2>1 DEF VisitRootModel, DiscoveryTypeOK, Phases
<1>3. CASE VisitPackageAttachment
  <2>1. PackageRel \in Rel /\ PartOf(PackageRoot, PackageRel) \in Names
    BY <1>3, RelType DEF VisitPackageAttachment, DiscoveryTypeOK, PackageRel
  <2>2. /\ AddAttachment(attachments, PartOf(PackageRoot, PackageRel)) \in Seq(Names)
        /\ Append(rootRelationships, PackageRel) \in Seq(Rel)
    BY <2>1, AddAttachmentFacts DEF DiscoveryTypeOK
  <2>3. attachments' \in Seq(Names) /\ rootRelationships' \in Seq(Rel)
    BY <1>3, <2>2 DEF VisitPackageAttachment, DiscoveryTypeOK
  <2>. QED
    BY <1>3, <2>3 DEF VisitPackageAttachment, DiscoveryTypeOK, Phases
<1>4. CASE EndDiscovery
  BY <1>4 DEF EndDiscovery, DiscoveryTypeOK, Phases, modelVars
<1>5. CASE AddChildModel
  <2>1. PartOf(rootFile, CoreRel) \in Names
    BY <1>5, RelType DEF AddChildModel, DiscoveryTypeOK, CoreRel
  <2>2. nonRootModels' \in Seq(Names)
    BY <1>5, <2>1 DEF AddChildModel, DiscoveryTypeOK
  <2>3. /\ DOMAIN childs' \subseteq Names
        /\ \A n \in DOMAIN childs' : childs'[n] \in Seq(Rel)
    BY <1>5, <2>1 DEF AddChildModel, WithChild, DiscoveryTypeOK
  <2>. QED
    BY <1>5, <2>2, <2>3 DEF AddChildModel, DiscoveryTypeOK, Phases
<1>6. CASE AddModelAttachment
  <2>1. CoreRel \in Rel /\ PartOf(rootFile, CoreRel) \in Names
    BY <1>6, RelType DEF AddModelAttachment, DiscoveryTypeOK, CoreRel
  <2>2. attachments' \in Seq(Names) /\ relationships' \in Seq(Rel)
    BY <1>6, <2>1, AddAttachmentFacts DEF AddModelAttachment, DiscoveryTypeOK
  <2>. QED
    BY <1>6, <2>2 DEF AddModelAttachment, DiscoveryTypeOK, Phases
<1>7. CASE SkipCoreRel
  BY <1>7 DEF SkipCoreRel, DiscoveryTypeOK, Phases, modelVars
<1>8. CASE EndCore
  BY <1>8 DEF EndCore, DiscoveryTypeOK, Phases, modelVars
<1>9. CASE VisitChildRel
  <2>1. ChildName \in Names
    BY <1>9 DEF VisitChildRel, DiscoveryTypeOK, ChildName
  <2>2. ChildRel \in Rel /\ PartOf(ChildName, ChildRel) \in Names
    BY <1>9, <2>1, RelType DEF VisitChildRel, DiscoveryTypeOK, ChildRel
  <2>a. AddAttachment(attachments, PartOf(ChildName, ChildRel)) \in Seq(Names)
    BY <2>2, AddAttachmentFacts DEF DiscoveryTypeOK
  <2>3. attachments' \in Seq(Names)
    BY <1>9, <2>a DEF VisitChildRel, DiscoveryTypeOK
  <2>4. /\ DOMAIN childs' = DOMAIN childs
        /\ \A n \in DOMAIN childs' : childs'[n] \in Seq(Rel)
    <3>1. CASE KeepsChildRel
      <4>1. childs' = [childs EXCEPT ![ChildName] = Append(childs[ChildName], ChildRel)]
        BY <1>9, <3>1 DEF VisitChildRel, WithChildRel
      <4>2. Append(childs[ChildName], ChildRel) \in Seq(Rel)
        BY <2>2, <3>1 DEF KeepsChildRel, DiscoveryTypeOK
      <4>. QED
        BY <4>1, <4>2, <3>1 DEF DiscoveryTypeOK
    <3>2. CASE ~KeepsChildRel
      BY <1>9, <3>2 DEF VisitChildRel, DiscoveryTypeOK
    <3>. QED
      BY <3>1, <3>2
  <2>. QED
    BY <1>9, <2>3, <2>4 DEF VisitChildRel, DiscoveryTypeOK, Phases
<1>10. CASE NextChild
  BY <1>10 DEF NextChild, DiscoveryTypeOK, Phases, modelVars
<1>11. CASE EndChildren
  BY <1>11 DEF EndChildren, DiscoveryTypeOK, Phases, modelVars
<1>12. CASE DecodeAgain
  BY <1>12 DEF DecodeAgain, DiscoveryTypeOK, Phases
<1>13. CASE UNCHANGED discVars
  BY <1>13 DEF discVars, cursors, modelVars, DiscoveryTypeOK
<1>. QED
  BY <1>1, <1>2, <1>3, <1>4, <1>5, <1>6, <1>7, <1>8, <1>9, <1>10, <1>11,
     <1>12, <1>13 DEF DiscoveryNext, ProcessOPC

(* The types of the state, and of the calls of Decode, are kept: nothing the *)
(* package holds makes discovery leave them (processOPC and its helpers).    *)
THEOREM DiscoveryTypeCorrect == DiscoverySpec => []DiscoveryTypeOK
<1>1. DiscoveryInit => DiscoveryTypeOK
  BY DiscoveryAssumption DEF DiscoveryInit, DiscoveryTypeOK, Phases
<1>. QED
  BY <1>1, DiscoveryTypeInductive, PTL DEF DiscoverySpec

-----------------------------------------------------------------------------
(***************************************************************************)
(* Linked(i, j, n): the j-th relationship of the root model part that the  *)
(* i-th package relationship names makes n a child.                        *)
(***************************************************************************)
TopRel(i)  == pkg.rels[PackageRoot][i]
TopPart(i) == PartOf(PackageRoot, TopRel(i))

IsRootRel(i) ==
  /\ i \in DOMAIN pkg.rels[PackageRoot]
  /\ TopRel(i).type = ModelType
  /\ Found(PackageRoot, TopRel(i))

Linked(i, j, n) ==
  /\ IsRootRel(i)
  /\ j \in DOMAIN pkg.rels[TopPart(i)]
  /\ Found(TopPart(i), pkg.rels[TopPart(i)][j])
  /\ pkg.rels[TopPart(i)][j].type = ModelType
  /\ n = PartOf(TopPart(i), pkg.rels[TopPart(i)][j])

(***************************************************************************)
(* Why ChildrenHaveEntries holds: nonRootModels holds only linked parts,   *)
(* of this call or of an earlier one, and every part linked so far in this *)
(* call has its entry; when discovery ends all links have been followed.   *)
(***************************************************************************)
AtRootRel == phase \in {"core", "child"} => IsRootRel(ri) /\ rootFile = TopPart(ri)

EntriesInv ==
  /\ \A k \in DOMAIN nonRootModels :
       \E i, j \in Nat \ {0} : Linked(i, j, nonRootModels[k])
  /\ phase \in {"package", "core", "child", "found"} =>
       \A i, j \in Nat \ {0} : \A n \in Names :
         i < ri /\ Linked(i, j, n) => n \in DOMAIN childs
  /\ AtRootRel
  /\ phase = "core" => \A j \in Nat \ {0} : \A n \in Names :
       j < rj /\ Linked(ri, j, n) => n \in DOMAIN childs
  /\ phase = "child" => \A j \in Nat \ {0} : \A n \in Names :
       Linked(ri, j, n) => n \in DOMAIN childs
  /\ phase = "found" => ri \notin DOMAIN pkg.rels[PackageRoot]
  /\ phase = "closed" => ri = 1

LEMMA EntriesInductive ==
  ASSUME DiscoveryTypeOK, DiscoveryTypeOK', EntriesInv, [DiscoveryNext]_discVars
  PROVE  EntriesInv'
<1> USE DiscoveryAssumption DEF Sources
<1>0. pkg' = pkg
  BY DEF DiscoveryNext, ProcessOPC, OpenPackage, VisitRootModel,
     VisitPackageAttachment, EndDiscovery, AddChildModel, AddModelAttachment,
     SkipCoreRel, EndCore, VisitChildRel, NextChild, EndChildren, DecodeAgain,
     discVars
<1>l. \A i, j, n : Linked(i, j, n)' <=> Linked(i, j, n)
  BY <1>0 DEF Linked, IsRootRel, TopPart, TopRel, PartOf, Found
<1>r. \A i : IsRootRel(i)' <=> IsRootRel(i)
  BY <1>0 DEF IsRootRel, TopRel, PartOf, Found
<1>t. \A i : TopPart(i)' = TopPart(i)
  BY <1>0 DEF TopPart, TopRel, PartOf
<1>n. \A i, j \in Nat \ {0} : \A n : Linked(i, j, n) => n \in Names
  <2> SUFFICES ASSUME NEW i \in Nat \ {0}, NEW j \in Nat \ {0}, NEW n, Linked(i, j, n)
               PROVE  n \in Names
    OBVIOUS
  <2>1. TopPart(i) \in Names
    BY RelType DEF Linked, IsRootRel, TopPart, TopRel, DiscoveryTypeOK
  <2>. QED
    BY <2>1, RelType DEF Linked, DiscoveryTypeOK
<1>1. CASE OpenPackage
  BY <1>1, <1>0, <1>l DEF OpenPackage, EntriesInv, AtRootRel, DiscoveryTypeOK, modelVars
<1>2. CASE VisitRootModel
  <2>1. phase' = "core" => IsRootRel(ri) /\ rootFile' = TopPart(ri)
    BY <1>2 DEF VisitRootModel, IsRootRel, TopRel, TopPart, PackageRel
  <2>. QED
    BY <1>2, <2>1, <1>0, <1>l, <1>r, <1>t DEF VisitRootModel, EntriesInv, AtRootRel, DiscoveryTypeOK
<1>3. CASE VisitPackageAttachment
  <2>1. ~IsRootRel(ri)
    BY <1>3 DEF VisitPackageAttachment, IsRootRel, TopRel, PackageRel
  <2>2. \A i \in Nat \ {0} : i < ri' => i < ri \/ i = ri
    BY <1>3 DEF VisitPackageAttachment, DiscoveryTypeOK
  <2>3. \A j, n : ~Linked(ri, j, n)
    BY <2>1 DEF Linked
  <2>. QED
    BY <1>3, <2>2, <2>3, <1>0, <1>l DEF VisitPackageAttachment, EntriesInv, AtRootRel
<1>4. CASE EndDiscovery
  BY <1>4, <1>0, <1>l DEF EndDiscovery, EntriesInv, AtRootRel, modelVars
<1>5. CASE AddChildModel
  <2> DEFINE child == PartOf(rootFile, CoreRel)
  <2>1. Linked(ri, rj, child)
    BY <1>5 DEF AddChildModel, EntriesInv, AtRootRel, Linked, CoreRel
  <2>2. /\ DOMAIN childs' = DOMAIN childs \cup {child}
        /\ nonRootModels' = Append(nonRootModels, child)
    BY <1>5 DEF AddChildModel, WithChild
  <2>3. \A k \in DOMAIN nonRootModels' :
          \E i, j \in Nat \ {0} : Linked(i, j, nonRootModels'[k])
    <3>1. nonRootModels \in Seq(Names) /\ ri \in Nat \ {0} /\ rj \in Nat \ {0}
      BY DEF DiscoveryTypeOK
    <3>2. \A k \in DOMAIN nonRootModels' :
            \/ k \in DOMAIN nonRootModels /\ nonRootModels'[k] = nonRootModels[k]
            \/ nonRootModels'[k] = child
      BY <2>2, <3>1
    <3>3. \A k \in DOMAIN nonRootModels :
            \E i, j \in Nat \ {0} : Linked(i, j, nonRootModels[k])
      BY DEF EntriesInv
    <3>. QED
      BY <3>1, <3>2, <3>3, <2>1
  <2>4. \A j \in Nat \ {0} : \A n \in Names :
          j < rj' /\ Linked(ri, j, n) => n \in DOMAIN childs'
    <3>1. \A j \in Nat \ {0} : j < rj' => j < rj \/ j = rj
      <4>1. rj' = rj + 1
        BY ONLY <1>5 DEF AddChildModel
      <4>2. rj \in Nat
        BY DEF DiscoveryTypeOK
      <4>. QED
        BY ONLY <4>1, <4>2
    <3>2. \A n : Linked(ri, rj, n) => n = child
      BY <1>5 DEF AddChildModel, EntriesInv, AtRootRel, Linked, CoreRel
    <3>. QED
      BY <1>5, <3>1, <3>2, <2>2 DEF AddChildModel, EntriesInv
  <2>. QED
    BY <1>5, <2>2, <2>3, <2>4, <1>l, <1>r, <1>t DEF AddChildModel, EntriesInv, AtRootRel
<1>6. CASE AddModelAttachment
  <2>a. rootFile = TopPart(ri)
    BY <1>6 DEF AddModelAttachment, EntriesInv, AtRootRel
  <2>b. pkg.rels[TopPart(ri)][rj].type # ModelType
    BY <1>6, <2>a DEF AddModelAttachment, CoreRel
  <2>1. \A n : ~Linked(ri, rj, n)
    BY <2>b DEF Linked
  <2>2. \A j \in Nat \ {0} : j < rj' => j < rj \/ j = rj
    BY <1>6 DEF AddModelAttachment, DiscoveryTypeOK
  <2>3. /\ phase = "core"
        /\ UNCHANGED <<phase, ri, rootFile, nonRootModels, childs>>
    BY <1>6 DEF AddModelAttachment
  <2>. QED
    BY <2>1, <2>2, <2>3, <1>l, <1>r, <1>t DEF EntriesInv, AtRootRel
<1>7. CASE SkipCoreRel
  <2>1. \A n : ~Linked(ri, rj, n)
    BY <1>7 DEF SkipCoreRel, EntriesInv, AtRootRel, Linked, CoreRel
  <2>2. \A j \in Nat \ {0} : j < rj' => j < rj \/ j = rj
    BY <1>7 DEF SkipCoreRel, DiscoveryTypeOK
  <2>. QED
    BY <1>7, <2>1, <2>2, <1>l, <1>r, <1>t DEF SkipCoreRel, EntriesInv, AtRootRel, modelVars
<1>8. CASE EndCore
  <2>1. \A j \in Nat \ {0} : \A n : Linked(ri, j, n) => j < rj
    <3>1. pkg.rels[rootFile] \in Seq(Rel)
      BY <1>8 DEF EndCore, DiscoveryTypeOK, IsPackage
    <3>2. \A j \in Nat \ {0} : j \in DOMAIN pkg.rels[rootFile] => j < rj
      <4>1. rj \in Nat \ {0} /\ rj \notin DOMAIN pkg.rels[rootFile]
        BY <1>8 DEF EndCore, DiscoveryTypeOK
      <4>2. PICK rels : rels = pkg.rels[rootFile]
        OBVIOUS
      <4>. QED
        BY ONLY <3>1, <4>1, <4>2
    <3>. QED
      BY <1>8, <3>2 DEF EndCore, EntriesInv, AtRootRel, Linked
  <2>. QED
    BY <1>8, <2>1, <1>l, <1>r, <1>t DEF EndCore, EntriesInv, AtRootRel, modelVars
<1>9. CASE VisitChildRel
  <2>1. DOMAIN childs' = DOMAIN childs
    BY <1>9 DEF VisitChildRel, WithChildRel
  <2>. QED
    BY <1>9, <2>1, <1>l, <1>r, <1>t DEF VisitChildRel, EntriesInv, AtRootRel
<1>10. CASE NextChild
  BY <1>10, <1>l, <1>r, <1>t DEF NextChild, EntriesInv, AtRootRel, modelVars
<1>11. CASE EndChildren
  <2>1. \A i \in Nat \ {0} : i < ri' => i < ri \/ i = ri
    BY <1>11 DEF EndChildren, DiscoveryTypeOK
  <2>. QED
    BY <1>11, <2>1, <1>l DEF EndChildren, EntriesInv, AtRootRel, modelVars
<1>12. CASE DecodeAgain
  BY <1>12, <1>0, <1>l DEF DecodeAgain, EntriesInv, AtRootRel
<1>13. CASE UNCHANGED discVars
  BY <1>13, <1>l, <1>r, <1>t DEF discVars, cursors, modelVars, EntriesInv, AtRootRel
<1>. QED
  BY <1>1, <1>2, <1>3, <1>4, <1>5, <1>6, <1>7, <1>8, <1>9, <1>10, <1>11,
     <1>12, <1>13 DEF DiscoveryNext, ProcessOPC

(***************************************************************************)
(* Every part that processNonRootModels will decode has its entry in       *)
(* model.Childs, for any package and any number of calls on one Decoder.   *)
(***************************************************************************)
THEOREM ChildrenAlwaysHaveEntries == DiscoverySpec => []ChildrenHaveEntries
<1>1. DiscoveryInit => EntriesInv
  BY DEF DiscoveryInit, EntriesInv, AtRootRel
<1>2. DiscoveryTypeOK /\ EntriesInv => ChildrenHaveEntries
  <2> SUFFICES ASSUME DiscoveryTypeOK, EntriesInv, phase = "found",
                      NEW k \in DOMAIN nonRootModels
               PROVE  nonRootModels[k] \in DOMAIN childs
    BY DEF ChildrenHaveEntries, Range
  <2>1. PICK i \in Nat \ {0}, j \in Nat \ {0} : Linked(i, j, nonRootModels[k])
    BY DEF EntriesInv
  <2>2. i < ri
    <3>1. pkg.rels[PackageRoot] \in Seq(Rel)
      BY DiscoveryAssumption DEF DiscoveryTypeOK, IsPackage, Sources
    <3>2. i \in DOMAIN pkg.rels[PackageRoot]
      BY <2>1 DEF Linked, IsRootRel
    <3>3. ri \in Nat \ {0} /\ ri \notin DOMAIN pkg.rels[PackageRoot]
      BY DEF EntriesInv, DiscoveryTypeOK
    <3>4. PICK rels : rels = pkg.rels[PackageRoot]
      OBVIOUS
    <3>. QED
      BY ONLY <3>1, <3>2, <3>3, <3>4, i \in Nat \ {0}
  <2>3. nonRootModels[k] \in Names
    BY DEF DiscoveryTypeOK
  <2>. QED
    BY <2>1, <2>2, <2>3 DEF EntriesInv
<1>. QED
  BY <1>1, <1>2, EntriesInductive, DiscoveryTypeCorrect, PTL DEF DiscoverySpec

-----------------------------------------------------------------------------
(***************************************************************************)
(* The attachments only grow by addAttachment within a call, so what was   *)
(* attached stays attached.  The relationships of the root model are those *)
(* of the part at model.Path as long as the package has one root model:    *)
(* none is kept before it is visited.                                      *)
(***************************************************************************)
NoneBeforeRoot ==
  /\ OneRootModel
  /\ phase \in {"closed", "package"}
  /\ \A i \in DOMAIN pkg.rels[PackageRoot] : i < ri => TopRel(i).type # ModelType

AttachInv ==
  /\ AttachmentsDistinct
  /\ KeptRelationshipsAreAttached
  /\ NoneBeforeRoot => relationships = <<>>
  /\ AtRootRel

(* new holds every part that atts holds.                                   *)
Grows(atts, new) == \A name : Attached(atts, name) => Attached(new, name)

(* Attaching one more part, or none, loses no attachment.                  *)
LEMMA AttachGrows ==
  ASSUME NEW atts \in Seq(Names), NEW n \in Names
  PROVE  /\ AllDistinct(atts) => AllDistinct(AddAttachment(atts, n))
         /\ Grows(atts, AddAttachment(atts, n))
         /\ n \in pkg.readable => Attached(AddAttachment(atts, n), n)
BY AddAttachmentFacts DEF Attached, Grows

(* What was covered stays covered when no attachment is lost.              *)
LEMMA CoversGrows ==
  ASSUME NEW readable, NEW atts, NEW new, NEW src, NEW rels, Grows(atts, new),
         Covers(readable, atts, src, rels)
  PROVE  Covers(readable, new, src, rels)
BY DEF Covers, Grows

LEMMA CoversAppend ==
  ASSUME NEW readable, NEW atts, NEW new, NEW src, NEW rels \in Seq(Rel),
         NEW r \in Rel, Grows(atts, new), Covers(readable, atts, src, rels),
         PartOf(src, r) \in readable => Attached(new, PartOf(src, r))
  PROVE  Covers(readable, new, src, Append(rels, r))
<1>1. \A i \in DOMAIN Append(rels, r) :
        \/ i \in DOMAIN rels /\ Append(rels, r)[i] = rels[i]
        \/ Append(rels, r)[i] = r
  OBVIOUS
<1>. QED
  BY <1>1 DEF Covers, Grows

LEMMA CoversNothing ==
  ASSUME NEW readable, NEW atts, NEW src
  PROVE  Covers(readable, atts, src, <<>>)
BY DEF Covers

LEMMA AttachInductive ==
  ASSUME DiscoveryTypeOK, AttachInv, [DiscoveryNext]_discVars, AtRootRel'
  PROVE  AttachInv'
<1> USE DiscoveryAssumption DEF Sources
<1> DEFINE Kept == KeptRelationshipsAreAttached
<1>0. pkg' = pkg
  BY DEF DiscoveryNext, ProcessOPC, OpenPackage, VisitRootModel,
     VisitPackageAttachment, EndDiscovery, AddChildModel, AddModelAttachment,
     SkipCoreRel, EndCore, VisitChildRel, NextChild, EndChildren, DecodeAgain,
     discVars
<1>o. OneRootModel' <=> OneRootModel
  BY <1>0 DEF OneRootModel, HasOneRootModel
<1>t. \A i : TopRel(i)' = TopRel(i)
  BY <1>0 DEF TopRel
<1>a. ASSUME UNCHANGED attachments
      PROVE  AttachmentsDistinct'
  BY <1>a DEF AttachInv, AttachmentsDistinct, SameName
<1>k. ASSUME UNCHANGED modelVars
      PROVE  AttachmentsDistinct' /\ Kept'
  BY <1>k, <1>0, <1>o, <1>a DEF AttachInv, KeptRelationshipsAreAttached, modelVars
<1>g. ASSUME NEW n \in Names, attachments' = AddAttachment(attachments, n)
      PROVE  /\ AttachmentsDistinct'
             /\ Grows(attachments, attachments')
             /\ n \in pkg.readable => Attached(attachments', n)
  <2>1. attachments \in Seq(Names) /\ AllDistinct(attachments)
    BY DEF DiscoveryTypeOK, AttachInv, AttachmentsDistinct, AllDistinct
  <2>. QED
    BY <2>1, <1>g, AttachGrows DEF AttachmentsDistinct, AllDistinct, SameName
<1>1. CASE OpenPackage
  BY <1>1, <1>k, <1>o, <1>t, <1>0 DEF OpenPackage, AttachInv, NoneBeforeRoot, modelVars
<1>2. CASE VisitRootModel
  <2>1. OneRootModel => relationships = <<>>
    <3>1. ASSUME OneRootModel PROVE NoneBeforeRoot
      BY <1>2, <3>1 DEF VisitRootModel, NoneBeforeRoot, OneRootModel, HasOneRootModel, TopRel,
         PackageRel, DiscoveryTypeOK
    <3>. QED
      BY <3>1 DEF AttachInv
  <2>2. UNCHANGED <<attachments, rootRelationships, relationships, childs>>
    BY <1>2 DEF VisitRootModel
  <2>3. Kept'
    BY <2>1, <2>2, <1>0, <1>o, CoversNothing DEF AttachInv, KeptRelationshipsAreAttached
  <2>4. ~NoneBeforeRoot'
    BY <1>2 DEF VisitRootModel, NoneBeforeRoot
  <2>. QED
    BY <2>2, <2>3, <2>4, <1>a DEF AttachInv
<1>3. CASE VisitPackageAttachment
  <2>0. NoneBeforeRoot' => NoneBeforeRoot
    <3>1. /\ ri' = ri + 1 /\ phase' = phase /\ ri \in Nat
          /\ pkg.rels[PackageRoot] \in Seq(Rel)
      BY <1>3 DEF VisitPackageAttachment, DiscoveryTypeOK, IsPackage
    <3>2. \A i \in DOMAIN pkg.rels[PackageRoot] : i < ri => i < ri'
      BY <3>1
    <3>. QED
      BY <3>1, <3>2, <1>0, <1>o, <1>t DEF NoneBeforeRoot
  <2>1. CASE Found(PackageRoot, PackageRel)
    <3> DEFINE part == PartOf(PackageRoot, PackageRel)
    <3>1. /\ PackageRel \in Rel /\ part \in Names
          /\ rootRelationships \in Seq(Rel)
      BY <1>3, RelType DEF VisitPackageAttachment, DiscoveryTypeOK, PackageRel
    <3>2. /\ attachments' = AddAttachment(attachments, part)
          /\ rootRelationships' = Append(rootRelationships, PackageRel)
          /\ UNCHANGED <<relationships, childs, path>>
      BY <1>3, <2>1 DEF VisitPackageAttachment
    <3>3. Covers(pkg.readable, attachments', PackageRoot, rootRelationships')
      BY <3>1, <3>2, <1>g, CoversAppend DEF AttachInv, KeptRelationshipsAreAttached
    <3>4. Kept'
      BY <3>1, <3>2, <3>3, <1>0, <1>o, <1>g, CoversGrows DEF AttachInv, KeptRelationshipsAreAttached
    <3>. QED
      BY <2>0, <3>1, <3>2, <3>4, <1>g DEF AttachInv
  <2>2. CASE ~Found(PackageRoot, PackageRel)
    BY <2>0, <2>2, <1>3, <1>k DEF VisitPackageAttachment, AttachInv, modelVars
  <2>. QED
    BY <2>1, <2>2
<1>4. CASE EndDiscovery
  BY <1>4, <1>k DEF EndDiscovery, AttachInv, NoneBeforeRoot, modelVars
<1>5. CASE AddChildModel
  <2> DEFINE child == PartOf(rootFile, CoreRel)
  <2>1. /\ UNCHANGED <<attachments, rootRelationships, relationships, path>>
        /\ childs' = WithChild(child)
        /\ phase' = "core"
    BY <1>5 DEF AddChildModel
  <2>2. \A n \in DOMAIN childs' : Covers(pkg.readable, attachments, n, childs'[n])
    BY <2>1, CoversNothing DEF WithChild, AttachInv, KeptRelationshipsAreAttached
  <2>3. Kept'
    BY <2>1, <2>2, <1>0, <1>o DEF AttachInv, KeptRelationshipsAreAttached
  <2>. QED
    BY <2>1, <2>3, <1>a DEF AttachInv, NoneBeforeRoot
<1>6. CASE AddModelAttachment
  <2> DEFINE part == PartOf(rootFile, CoreRel)
  <2>1. CoreRel \in Rel /\ part \in Names /\ relationships \in Seq(Rel)
    BY <1>6, RelType DEF AddModelAttachment, DiscoveryTypeOK, CoreRel
  <2>2. /\ attachments' = AddAttachment(attachments, part)
        /\ relationships' = Append(relationships, CoreRel)
        /\ UNCHANGED <<rootRelationships, childs, path>>
        /\ phase' = "core"
        /\ path = rootFile
    BY <1>6 DEF AddModelAttachment, DiscoveryTypeOK
  <2>3. OneRootModel => Covers(pkg.readable, attachments', path, relationships')
    BY <2>1, <2>2, <1>g, CoversAppend DEF AttachInv, KeptRelationshipsAreAttached
  <2>4. Kept'
    BY <2>1, <2>2, <2>3, <1>0, <1>o, <1>g, CoversGrows DEF AttachInv, KeptRelationshipsAreAttached
  <2>. QED
    BY <2>1, <2>2, <2>4, <1>g DEF AttachInv, NoneBeforeRoot
<1>7. CASE SkipCoreRel
  BY <1>7, <1>k DEF SkipCoreRel, AttachInv, NoneBeforeRoot, modelVars
<1>8. CASE EndCore
  BY <1>8, <1>k DEF EndCore, AttachInv, NoneBeforeRoot, modelVars
<1>9. CASE VisitChildRel
  <2>0. UNCHANGED <<rootRelationships, relationships, path, phase>> /\ phase = "child"
    BY <1>9 DEF VisitChildRel
  <2>1. CASE KeepsChildRel
    <3> DEFINE part == PartOf(ChildName, ChildRel)
    <3>1. /\ ChildRel \in Rel /\ part \in Names
          /\ ChildName \in DOMAIN childs /\ childs[ChildName] \in Seq(Rel)
      <4>1. ChildName \in Names /\ ChildName \in DOMAIN childs
        BY <2>1 DEF KeepsChildRel, DiscoveryTypeOK
      <4>. QED
        BY <4>1, <1>9, RelType DEF VisitChildRel, DiscoveryTypeOK, ChildRel
    <3>2. /\ attachments' = AddAttachment(attachments, part)
          /\ childs' = [childs EXCEPT ![ChildName] = Append(childs[ChildName], ChildRel)]
      BY <1>9, <2>1 DEF VisitChildRel, WithChildRel
    <3>3. \A n \in DOMAIN childs' : Covers(pkg.readable, attachments', n, childs'[n])
      <4> SUFFICES ASSUME NEW n \in DOMAIN childs'
                   PROVE  Covers(pkg.readable, attachments', n, childs'[n])
        OBVIOUS
      <4>0. n \in DOMAIN childs /\ Covers(pkg.readable, attachments, n, childs[n])
        BY <3>2 DEF AttachInv, KeptRelationshipsAreAttached
      <4>1. CASE n = ChildName
        <5>1. childs'[n] = Append(childs[ChildName], ChildRel)
          BY <4>1, <3>1, <3>2
        <5>. QED
          BY <5>1, <4>0, <4>1, <3>1, <3>2, <1>g, CoversAppend
      <4>2. CASE n # ChildName
        <5>1. childs'[n] = childs[n]
          BY <4>2, <4>0, <3>2
        <5>. QED
          BY <5>1, <4>0, <3>1, <3>2, <1>g, CoversGrows
      <4>. QED
        BY <4>1, <4>2
    <3>4. Kept'
      BY <2>0, <3>1, <3>2, <3>3, <1>0, <1>o, <1>g, CoversGrows DEF AttachInv, KeptRelationshipsAreAttached
    <3>. QED
      BY <2>0, <3>1, <3>2, <3>4, <1>g DEF AttachInv, NoneBeforeRoot
  <2>2. CASE ~KeepsChildRel
    BY <2>0, <2>2, <1>9, <1>k DEF VisitChildRel, AttachInv, NoneBeforeRoot, modelVars
  <2>. QED
    BY <2>1, <2>2
<1>10. CASE NextChild
  BY <1>10, <1>k DEF NextChild, AttachInv, NoneBeforeRoot, modelVars
<1>11. CASE EndChildren
  <2>1. ~NoneBeforeRoot'
    <3>1. /\ IsRootRel(ri) /\ ri' = ri + 1 /\ ri \in Nat
      BY <1>11 DEF EndChildren, AttachInv, AtRootRel, DiscoveryTypeOK
    <3>2. /\ pkg.rels[PackageRoot][ri].type = ModelType
          /\ ri \in DOMAIN pkg.rels[PackageRoot] /\ ri < ri'
      BY <3>1 DEF IsRootRel, TopRel
    <3>3. /\ pkg'.rels[PackageRoot][ri].type = ModelType
          /\ ri \in DOMAIN pkg'.rels[PackageRoot]
      BY <3>2, <1>0
    <3>. QED
      BY <3>2, <3>3 DEF NoneBeforeRoot, IsRootRel, TopRel
  <2>. QED
    BY <1>11, <2>1, <1>k DEF EndChildren, AttachInv, modelVars
<1>12. CASE DecodeAgain
  BY <1>12 DEF DecodeAgain, AttachInv, AttachmentsDistinct, KeptRelationshipsAreAttached, Covers
<1>13. CASE UNCHANGED discVars
  BY <1>13, <1>k, <1>o, <1>t DEF discVars, cursors, modelVars, AttachInv, NoneBeforeRoot
<1>. QED
  BY <1>1, <1>2, <1>3, <1>4, <1>5, <1>6, <1>7, <1>8, <1>9, <1>10, <1>11,
     <1>12, <1>13 DEF DiscoveryNext, ProcessOPC

LEMMA AttachInvariant == DiscoverySpec => []AttachInv
<1>1. DiscoveryInit => EntriesInv
  BY DEF DiscoveryInit, EntriesInv, AtRootRel
<1>2. DiscoveryInit => AttachInv
  BY DEF DiscoveryInit, AttachInv, AttachmentsDistinct,
     KeptRelationshipsAreAttached, Covers, AtRootRel
<1>3. EntriesInv => AtRootRel
  BY DEF EntriesInv
<1>. QED
  BY <1>1, <1>2, <1>3, EntriesInductive, AttachInductive, DiscoveryTypeCorrect,
     PTL DEF DiscoverySpec

(***************************************************************************)
(* model.Attachments never holds a part twice under names that differ only *)
(* in case.                                                                *)
(***************************************************************************)
THEOREM AttachmentsAlwaysDistinct == DiscoverySpec => []AttachmentsDistinct
<1>1. AttachInv => AttachmentsDistinct
  BY DEF AttachInv
<1>. QED
  BY <1>1, AttachInvariant, PTL

(***************************************************************************)
(* Every relationship the model keeps, whose part can be read, has its     *)
(* attachment.                                                             *)
(***************************************************************************)
THEOREM KeptRelationshipsAlwaysAttached ==
  DiscoverySpec => []KeptRelationshipsAreAttached
<1>1. AttachInv => KeptRelationshipsAreAttached
  BY DEF AttachInv
<1>. QED
  BY <1>1, AttachInvariant, PTL

-----------------------------------------------------------------------------
(***************************************************************************)
(* The other way round, every attachment is there because of some          *)
(* relationship that was kept.  What could lose it is that an entry of     *)
(* Childs is replaced, or model.Path: with one root model both come before *)
(* any child or model relationship is kept.                                *)
(***************************************************************************)
Leads(src, rels, name) == \E i \in DOMAIN rels : PartOf(src, rels[i]) = name

Reached(name) ==
  \/ Leads(PackageRoot, rootRelationships, name)
  \/ Leads(path, relationships, name)
  \/ \E n \in DOMAIN childs : Leads(n, childs[n], name)

NoChildRels == \A n \in DOMAIN childs : childs[n] = <<>>

ReachInv ==
  OneRootModel =>
    /\ NoneBeforeRoot \/ phase = "core" => NoChildRels
    /\ \A k \in DOMAIN attachments : Reached(attachments[k])

LEMMA AttachedIs ==
  ASSUME NEW atts \in Seq(Names), NEW name \in Names,
         NEW k \in DOMAIN AddAttachment(atts, name)
  PROVE  \/ AddAttachment(atts, name)[k] = name
         \/ k \in DOMAIN atts /\ AddAttachment(atts, name)[k] = atts[k]
<1>1. CASE AddAttachment(atts, name) = atts
  BY <1>1
<1>2. CASE AddAttachment(atts, name) # atts
  <2>1. AddAttachment(atts, name) = Append(atts, name)
    BY <1>2 DEF AddAttachment
  <2> QED
    BY <2>1
<1> QED
  BY <1>1, <1>2

LEMMA LeadsMore ==
  ASSUME NEW src, NEW rels \in Seq(Rel), NEW r \in Rel
  PROVE  /\ \A name : Leads(src, rels, name) => Leads(src, Append(rels, r), name)
         /\ Leads(src, Append(rels, r), PartOf(src, r))
<1>1. /\ \A i \in DOMAIN rels : i \in DOMAIN Append(rels, r) /\ Append(rels, r)[i] = rels[i]
      /\ Len(rels) + 1 \in DOMAIN Append(rels, r) /\ Append(rels, r)[Len(rels) + 1] = r
  OBVIOUS
<1> QED
  BY <1>1 DEF Leads, SameName

LEMMA ReachInductive ==
  ASSUME DiscoveryTypeOK, AttachInv, ReachInv, [DiscoveryNext]_discVars
  PROVE  ReachInv'
<1> USE DiscoveryAssumption DEF Sources
<1>0. pkg' = pkg
  BY DEF DiscoveryNext, ProcessOPC, OpenPackage, VisitRootModel,
     VisitPackageAttachment, EndDiscovery, AddChildModel, AddModelAttachment,
     SkipCoreRel, EndCore, VisitChildRel, NextChild, EndChildren, DecodeAgain,
     discVars
<1>o. OneRootModel' <=> OneRootModel
  BY <1>0 DEF OneRootModel, HasOneRootModel
<1>t. \A i : TopRel(i)' = TopRel(i)
  BY <1>0 DEF TopRel
<1>n. SUFFICES ASSUME OneRootModel
               PROVE  /\ NoneBeforeRoot' \/ phase' = "core" => NoChildRels'
                      /\ (\A k \in DOMAIN attachments : Reached(attachments[k]))'
  BY <1>o DEF ReachInv
<1>r. /\ NoneBeforeRoot \/ phase = "core" => NoChildRels
      /\ \A k \in DOMAIN attachments : Reached(attachments[k])
  BY <1>n DEF ReachInv
<1>k. ASSUME UNCHANGED modelVars, NoneBeforeRoot' \/ phase' = "core" => NoneBeforeRoot \/ phase = "core"
      PROVE  /\ NoneBeforeRoot' \/ phase' = "core" => NoChildRels'
             /\ (\A k \in DOMAIN attachments : Reached(attachments[k]))'
  BY <1>k, <1>r, <1>0 DEF modelVars, NoChildRels, Reached, Leads, PartOf, SameName
(* A part is attached because of a relationship that is kept.                *)
<1>a. ASSUME NEW part \in Names, attachments' = AddAttachment(attachments, part),
             Reached(part)', \A name : Reached(name) => Reached(name)'
      PROVE  (\A k \in DOMAIN attachments : Reached(attachments[k]))'
  <2>1. \A k \in DOMAIN attachments' :
          attachments'[k] = part \/ (k \in DOMAIN attachments /\ attachments'[k] = attachments[k])
    BY <1>a, AttachedIs DEF DiscoveryTypeOK
  <2> QED
    BY <2>1, <1>a, <1>r
<1>1. CASE OpenPackage
  <2>1. NoneBeforeRoot' => NoneBeforeRoot
    BY <1>1, <1>0, <1>o, <1>t DEF OpenPackage, NoneBeforeRoot
  <2>2. UNCHANGED modelVars /\ phase' # "core"
    BY <1>1 DEF OpenPackage
  <2> QED
    BY <2>1, <2>2, <1>k
<1>2. CASE VisitRootModel
  <2>1. NoneBeforeRoot
    BY <1>2, <1>n DEF VisitRootModel, NoneBeforeRoot, OneRootModel, HasOneRootModel, TopRel,
       PackageRel, DiscoveryTypeOK
  <2>2. relationships = <<>> /\ NoChildRels
    BY <2>1, <1>r DEF AttachInv
  <2>3. UNCHANGED <<attachments, rootRelationships, relationships, childs>>
    BY <1>2 DEF VisitRootModel
  <2>4. \A name : Reached(name) => Leads(PackageRoot, rootRelationships, name)
    BY <2>2 DEF Reached, NoChildRels, Leads
  <2>5. \A name : Reached(name) => Reached(name)'
    BY <2>3, <2>4 DEF Reached, Leads, PartOf, SameName
  <2> QED
    BY <2>2, <2>3, <2>5, <1>r DEF NoChildRels
<1>3. CASE VisitPackageAttachment
  <2>0. NoneBeforeRoot' => NoneBeforeRoot
    <3>1. /\ ri' = ri + 1 /\ phase' = phase /\ ri \in Nat
          /\ pkg.rels[PackageRoot] \in Seq(Rel)
      BY <1>3 DEF VisitPackageAttachment, DiscoveryTypeOK, IsPackage
    <3>2. \A i \in DOMAIN pkg.rels[PackageRoot] : i < ri => i < ri'
      BY <3>1
    <3>. QED
      BY <3>1, <3>2, <1>0, <1>o, <1>t DEF NoneBeforeRoot
  <2>1. CASE Found(PackageRoot, PackageRel)
    <3>1. PICK r \in Rel, part \in Names : r = PackageRel /\ part = PartOf(PackageRoot, r)
      BY <1>3, RelType DEF VisitPackageAttachment, DiscoveryTypeOK, PackageRel
    <3>2. /\ attachments' = AddAttachment(attachments, part)
          /\ rootRelationships' = Append(rootRelationships, r)
          /\ UNCHANGED <<relationships, childs, path, phase>>
      BY <1>3, <2>1, <3>1 DEF VisitPackageAttachment
    <3>3. /\ \A name : Leads(PackageRoot, rootRelationships, name) =>
                        Leads(PackageRoot, rootRelationships', name)
          /\ Leads(PackageRoot, rootRelationships', part)
      BY <3>1, <3>2, LeadsMore DEF DiscoveryTypeOK
    <3>4. \A name : Reached(name)' <=>
            \/ Leads(PackageRoot, rootRelationships', name)
            \/ Leads(path, relationships, name)
            \/ \E n \in DOMAIN childs : Leads(n, childs[n], name)
      BY <3>2 DEF Reached, Leads, PartOf
    <3>5. Reached(part)' /\ \A name : Reached(name) => Reached(name)'
      BY <3>3, <3>4 DEF Reached
    <3> QED
      BY <2>0, <3>2, <3>5, <1>a, <1>r DEF NoChildRels
  <2>2. CASE ~Found(PackageRoot, PackageRel)
    BY <2>0, <2>2, <1>3, <1>k DEF VisitPackageAttachment, modelVars
  <2>. QED
    BY <2>1, <2>2
<1>4. CASE EndDiscovery
  BY <1>4, <1>k DEF EndDiscovery, NoneBeforeRoot
<1>5. CASE AddChildModel
  <2>1. /\ UNCHANGED <<attachments, rootRelationships, relationships, path>>
        /\ childs' = WithChild(PartOf(rootFile, CoreRel)) /\ phase = "core"
    BY <1>5 DEF AddChildModel
  <2>2. NoChildRels
    BY <2>1, <1>r
  <2>3. NoChildRels'
    BY <2>1, <2>2 DEF NoChildRels, WithChild
  <2>4. \A name : Reached(name) => Reached(name)'
    BY <2>1, <2>2 DEF Reached, NoChildRels, Leads, PartOf, SameName
  <2> QED
    BY <2>1, <2>3, <2>4, <1>r
<1>6. CASE AddModelAttachment
  <2>1. PICK r \in Rel, part \in Names : r = CoreRel /\ part = PartOf(rootFile, r)
    BY <1>6, RelType DEF AddModelAttachment, DiscoveryTypeOK, CoreRel
  <2>2. /\ attachments' = AddAttachment(attachments, part)
        /\ relationships' = Append(relationships, r)
        /\ UNCHANGED <<rootRelationships, childs, path>> /\ phase = "core"
        /\ path = rootFile
    BY <1>6, <2>1 DEF AddModelAttachment, DiscoveryTypeOK
  <2>3. /\ \A name : Leads(path, relationships, name) => Leads(path, relationships', name)
        /\ Leads(path, relationships', part)
    BY <2>1, <2>2, LeadsMore DEF DiscoveryTypeOK
  <2>4. \A name : Reached(name)' <=>
          \/ Leads(PackageRoot, rootRelationships, name)
          \/ Leads(path, relationships', name)
          \/ \E n \in DOMAIN childs : Leads(n, childs[n], name)
    BY <2>2 DEF Reached, Leads, PartOf
  <2>5. Reached(part)' /\ \A name : Reached(name) => Reached(name)'
    BY <2>3, <2>4 DEF Reached
  <2> QED
    BY <2>2, <2>5, <1>a, <1>r DEF NoChildRels
<1>7. CASE SkipCoreRel
  BY <1>7, <1>k DEF SkipCoreRel
<1>8. CASE EndCore
  <2>1. phase' = "child" /\ UNCHANGED modelVars
    BY <1>8 DEF EndCore
  <2> QED
    BY <2>1, <1>k DEF NoneBeforeRoot
<1>9. CASE VisitChildRel
  <2>0. UNCHANGED <<rootRelationships, relationships, path, phase>> /\ phase = "child"
    BY <1>9 DEF VisitChildRel
  <2>1. CASE KeepsChildRel
    <3>1. PICK c \in Names, r \in Rel, part \in Names :
            /\ c = ChildName /\ r = ChildRel /\ part = PartOf(c, r)
            /\ c \in DOMAIN childs /\ childs[c] \in Seq(Rel)
      <4>1. ChildName \in Names /\ ChildName \in DOMAIN childs
        BY <2>1 DEF KeepsChildRel, DiscoveryTypeOK
      <4>. QED
        BY <4>1, <1>9, RelType DEF VisitChildRel, DiscoveryTypeOK, ChildRel
    <3>2. /\ attachments' = AddAttachment(attachments, part)
          /\ childs' = [childs EXCEPT ![c] = Append(childs[c], r)]
      BY <1>9, <2>1, <3>1 DEF VisitChildRel, WithChildRel
    <3>3. /\ DOMAIN childs' = DOMAIN childs /\ childs'[c] = Append(childs[c], r)
          /\ \A n \in DOMAIN childs : n # c => childs'[n] = childs[n]
      BY <3>1, <3>2
    <3>4. /\ \A name : Leads(c, childs[c], name) => Leads(c, childs'[c], name)
          /\ Leads(c, childs'[c], part)
      BY <3>1, <3>3, LeadsMore
    <3>5. \A n \in DOMAIN childs : \A name : Leads(n, childs[n], name) => Leads(n, childs'[n], name)
      BY <3>3, <3>4
    <3>6. Reached(part)' /\ \A name : Reached(name) => Reached(name)'
      <4>1. \A name : Reached(name)' <=>
              \/ Leads(PackageRoot, rootRelationships, name)
              \/ Leads(path, relationships, name)
              \/ \E n \in DOMAIN childs' : Leads(n, childs'[n], name)
        BY <2>0 DEF Reached, Leads, PartOf, SameName
      <4>2. Reached(part)'
        BY <3>1, <3>3, <3>4, <4>1
      <4>3. ASSUME NEW name, Reached(name)  PROVE Reached(name)'
        <5>1. CASE \E n \in DOMAIN childs : Leads(n, childs[n], name)
          <6>1. PICK n \in DOMAIN childs : Leads(n, childs[n], name)
            BY <5>1
          <6>2. n \in DOMAIN childs' /\ Leads(n, childs'[n], name)
            BY <6>1, <3>3, <3>5
          <6> QED
            BY <6>2, <4>1
        <5>2. CASE ~ \E n \in DOMAIN childs : Leads(n, childs[n], name)
          <6>1. \/ Leads(PackageRoot, rootRelationships, name)
                \/ Leads(path, relationships, name)
            BY <5>2, <4>3 DEF Reached
          <6> QED
            BY <6>1, <4>1
        <5> QED
          BY <5>1, <5>2
      <4> QED
        BY <4>2, <4>3
    <3> QED
      BY <2>0, <3>2, <3>6, <1>a DEF NoneBeforeRoot
  <2>2. CASE ~KeepsChildRel
    BY <2>0, <2>2, <1>9, <1>k DEF VisitChildRel, NoneBeforeRoot, modelVars
  <2>. QED
    BY <2>1, <2>2
<1>10. CASE NextChild
  BY <1>10, <1>k DEF NextChild, NoneBeforeRoot
<1>11. CASE EndChildren
  <2>1. ~NoneBeforeRoot'
    <3>1. /\ IsRootRel(ri) /\ ri' = ri + 1 /\ ri \in Nat
      BY <1>11 DEF EndChildren, AttachInv, AtRootRel, DiscoveryTypeOK
    <3>2. /\ pkg'.rels[PackageRoot][ri].type = ModelType
          /\ ri \in DOMAIN pkg'.rels[PackageRoot] /\ ri < ri'
      BY <3>1, <1>0 DEF IsRootRel, TopRel
    <3>. QED
      BY <3>2 DEF NoneBeforeRoot, IsRootRel, TopRel
  <2>2. phase' = "package" /\ UNCHANGED modelVars
    BY <1>11 DEF EndChildren
  <2>. QED
    BY <2>1, <2>2, <1>k
<1>12. CASE DecodeAgain
  BY <1>12 DEF DecodeAgain, NoChildRels
<1>13. CASE UNCHANGED discVars
  <2>1. UNCHANGED <<pkg, phase, ri, modelVars>>
    BY <1>13 DEF discVars, cursors
  <2>2. NoneBeforeRoot' => NoneBeforeRoot
    BY <2>1, <1>t DEF NoneBeforeRoot, OneRootModel, HasOneRootModel
  <2> QED
    BY <2>1, <2>2, <1>k
<1>. QED
  BY <1>1, <1>2, <1>3, <1>4, <1>5, <1>6, <1>7, <1>8, <1>9, <1>10, <1>11,
     <1>12, <1>13 DEF DiscoveryNext, ProcessOPC

(***************************************************************************)
(* In a package with one root model, every attachment of the model is the  *)
(* target of a relationship that the model keeps.                          *)
(***************************************************************************)
THEOREM AttachmentsAlwaysReachable == DiscoverySpec => []AttachmentsReachable
<1>1. DiscoveryInit => ReachInv
  BY DEF DiscoveryInit, ReachInv, NoChildRels
<1>2. ReachInv => AttachmentsReachable
  BY DEF ReachInv, AttachmentsReachable, Reached, Leads, Reaches, SameName, Range
<1>. QED
  BY <1>1, <1>2, ReachInductive, AttachInvariant, DiscoveryTypeCorrect, PTL DEF DiscoverySpec

-----------------------------------------------------------------------------
(* What the recursion of ResolvableUpTo computes.                          *)
Keeps(src, r) == r.type # ModelType /\ Found(src, r)

KeepsSoFar(kept, src, rels) ==
  /\ kept[0] = <<>>
  /\ \A k \in 1..Len(rels) :
       kept[k] = IF Keeps(src, rels[k]) THEN Append(kept[k - 1], rels[k]) ELSE kept[k - 1]

LEMMA ResolvableIs ==
  ASSUME NEW src, NEW rels \in Seq(Rel)
  PROVE  /\ KeepsSoFar(ResolvableUpTo(src, rels), src, rels)
         /\ \A k \in 0..Len(rels) : ResolvableUpTo(src, rels)[k] \in Seq(Rel)
<1>1. PICK n : n = Len(rels) /\ n \in Nat
  OBVIOUS
<1>2. PICK step : step = [k \in 1..n |-> [s \in Seq(Rel) |->
                            IF Keeps(src, rels[k]) THEN Append(s, rels[k]) ELSE s]]
  OBVIOUS
<1>3. \A k \in 1..n : rels[k] \in Rel
  BY <1>1
<1>4. \A k \in 1..n : \A s \in Seq(Rel) : Append(s, rels[k]) \in Seq(Rel)
  BY <1>3
<1>5. step \in [1..n -> [Seq(Rel) -> Seq(Rel)]]
  BY <1>2, <1>4
<1>6. <<>> \in Seq(Rel)
  OBVIOUS
<1>7. PICK g \in [0..n -> Seq(Rel)] : Follows(g, n, <<>>, step)
  BY ONLY <1>1, <1>5, <1>6, RecursionExists
<1>8. KeepsSoFar(g, src, rels)
  <2>1. ASSUME NEW k \in 1..n
        PROVE  g[k] = IF Keeps(src, rels[k]) THEN Append(g[k - 1], rels[k]) ELSE g[k - 1]
    <3>1. k - 1 \in 0..n
      BY <1>1
    <3>2. g[k - 1] \in Seq(Rel)
      BY <3>1, <1>7
    <3>. QED
      BY <3>2, <1>2, <1>7 DEF Follows
  <2>. QED
    BY <2>1, <1>1, <1>7 DEF Follows, KeepsSoFar
<1>9. g = [k \in 0..n |-> IF k = 0 THEN <<>>
                          ELSE IF rels[k].type # ModelType /\ Found(src, rels[k])
                          THEN Append(g[k - 1], rels[k]) ELSE g[k - 1]]
  <2>1. \A k \in 0..n : k # 0 => k \in 1..n
    BY <1>1
  <2>. QED
    BY <2>1, <1>1, <1>7, <1>8 DEF KeepsSoFar, Keeps
<1>10. PICK f : f = ResolvableUpTo(src, rels)
  OBVIOUS
<1>11. f = [k \in 0..n |-> IF k = 0 THEN <<>>
                          ELSE IF rels[k].type # ModelType /\ Found(src, rels[k])
                          THEN Append(f[k - 1], rels[k]) ELSE f[k - 1]]
  BY Zenon, <1>1, <1>9, <1>10 DEF ResolvableUpTo
<1>12. KeepsSoFar(f, src, rels)
  <2>1. 0 \in 0..n /\ \A k \in 1..n : k \in 0..n /\ k # 0
    BY <1>1
  <2>. QED
    BY <2>1, <1>1, <1>11 DEF KeepsSoFar, Keeps
<1>13. \A k \in 0..n : f[k] \in Seq(Rel)
  <2>1. PICK typed : typed = [k \in 0..n |-> f[k] \in Seq(Rel)]
    OBVIOUS
  <2>2. typed[0]
    <3>1. 0 \in 0..n /\ f[0] \in Seq(Rel)
      BY <1>1, <1>12, <1>6 DEF KeepsSoFar
    <3>. QED
      BY <2>1, <3>1
  <2>3. ASSUME NEW k \in 1..n, typed[k - 1]  PROVE typed[k]
    <3>1. k - 1 \in 0..n /\ k \in 0..n
      BY <1>1
    <3>2. f[k - 1] \in Seq(Rel)
      BY <3>1, <2>1, <2>3
    <3>3. Append(f[k - 1], rels[k]) \in Seq(Rel)
      BY <3>2, <1>4
    <3>. QED
      BY <3>1, <3>2, <3>3, <2>1, <1>1, <1>12 DEF KeepsSoFar
  <2>4. \A k \in 0..n : typed[k]
    BY ONLY <2>2, <2>3, <1>1, AllFollow
  <2>. QED
    BY <2>1, <2>4
<1>. QED
  BY <1>1, <1>10, <1>12, <1>13

(***************************************************************************)
(* Why ChildRelationshipsExact holds: in a package with one root model the *)
(* children are visited once, in order, after all of them were entered     *)
(* with no relationship; the visit of the child at ci has kept those of    *)
(* its relationships before rj that can be resolved.                       *)
(***************************************************************************)
VisitedUpTo(k) ==
  IF k < ci THEN Len(pkg.rels[nonRootModels[k]]) ELSE IF k = ci THEN rj - 1 ELSE 0

ExactFor(n, k) == childs[n] = ResolvableUpTo(n, pkg.rels[n])[k]

ExactInv ==
  /\ DOMAIN childs \subseteq Range(nonRootModels)
  /\ phase = "closed" => DOMAIN childs = {}
  /\ phase = "child" /\ ci \in DOMAIN nonRootModels => rj <= Len(pkg.rels[ChildName]) + 1
  /\ OneRootModel =>
       /\ phase = "child" =>
            \A k \in DOMAIN nonRootModels :
              nonRootModels[k] \in DOMAIN childs /\ Once(nonRootModels[k]) =>
                ExactFor(nonRootModels[k], VisitedUpTo(k))
       /\ phase \in {"package", "found"} =>
            \A n \in DOMAIN childs : Once(n) => ExactFor(n, Len(pkg.rels[n]))

LEMMA ChildExact ==
  ASSUME DiscoveryTypeOK, ExactInv, OneRootModel, VisitChildRel,
         NEW k \in DOMAIN nonRootModels, nonRootModels[k] \in DOMAIN childs', Once(nonRootModels[k])
  PROVE  ExactFor(nonRootModels[k], VisitedUpTo(k))'
<1>0. /\ ci \in DOMAIN nonRootModels /\ rj \in DOMAIN pkg.rels[ChildName] /\ phase = "child"
      /\ rj' = rj + 1 /\ UNCHANGED <<pkg, nonRootModels, ci>>
  BY DEF VisitChildRel
<1>1. PICK c, n, r, rels : /\ c = ChildName /\ n = nonRootModels[k] /\ r = ChildRel
                           /\ rels = pkg.rels[n]
  OBVIOUS
<1>2. n \in Names /\ c \in Names /\ rels \in Seq(Rel) /\ c \in Range(nonRootModels)
  BY <1>0, <1>1 DEF DiscoveryTypeOK, IsPackage, Sources, ChildName, Range
<1>3. DOMAIN childs' = DOMAIN childs /\ \A m \in DOMAIN childs : m # c => childs'[m] = childs[m]
  BY <1>1 DEF VisitChildRel, WithChildRel
<1>4. ExactFor(n, VisitedUpTo(k))
  BY <1>0, <1>1, <1>3 DEF ExactInv
<1>5. k \in Nat /\ ci \in Nat /\ rj \in Nat
  BY DEF DiscoveryTypeOK
<1>6. CASE n # c
  <2>1. k # ci
    BY <1>1, <1>6 DEF ChildName
  <2>2. VisitedUpTo(k)' = VisitedUpTo(k)
    BY <1>0, <2>1 DEF VisitedUpTo
  <2>3. childs'[n] = childs[n]
    BY <1>1, <1>3, <1>6
  <2>4. pkg' = pkg /\ nonRootModels'[k] = n
    BY <1>0, <1>1
  <2>5. ResolvableUpTo(n, pkg.rels[n])' = ResolvableUpTo(n, pkg.rels[n])
    BY ONLY <2>4 DEF ResolvableUpTo, Found, PartOf
  <2>6. childs[n] = ResolvableUpTo(n, pkg.rels[n])[VisitedUpTo(k)]
    BY <1>4 DEF ExactFor
  <2>7. childs'[n] = ResolvableUpTo(n, pkg.rels[n])'[VisitedUpTo(k)']
    BY ONLY <2>2, <2>3, <2>5, <2>6
  <2>. QED
    BY ONLY <2>4, <2>7 DEF ExactFor
<1>7. CASE n = c
  <2>1. k = ci
    BY <1>0, <1>1, <1>7 DEF Once, ChildName
  <2>2. VisitedUpTo(k) = rj - 1 /\ VisitedUpTo(k)' = rj
    BY <1>0, <1>5, <2>1 DEF VisitedUpTo
  <2>3. rj \in 1..Len(rels) /\ r = rels[rj]
    BY <1>0, <1>1, <1>2, <1>7 DEF ChildRel
  <2>4. ResolvableUpTo(n, rels)[rj] =
          IF Keeps(n, r) THEN Append(childs[n], r) ELSE childs[n]
    <3>1. childs[n] = ResolvableUpTo(n, rels)[rj - 1]
      BY <1>1, <1>4, <2>2 DEF ExactFor
    <3>. QED
      BY <1>2, <2>3, <3>1, ResolvableIs DEF KeepsSoFar
  <2>5. childs'[n] = IF Keeps(n, r) THEN Append(childs[n], r) ELSE childs[n]
    <3>1. n \in DOMAIN childs
      BY <1>1, <1>3
    <3>2. KeepsChildRel <=> Keeps(n, r)
      BY <1>1, <1>7, <3>1 DEF KeepsChildRel, Keeps
    <3>. QED
      BY <1>1, <1>7, <3>1, <3>2 DEF VisitChildRel, WithChildRel
  <2>6. ResolvableUpTo(n, pkg.rels[n])' = ResolvableUpTo(n, rels)
    BY <1>0, <1>1 DEF ResolvableUpTo, Found, PartOf
  <2>. QED
    BY <1>0, <1>1, <2>2, <2>4, <2>5, <2>6 DEF ExactFor
<1>. QED
  BY <1>6, <1>7

LEMMA ExactInductive ==
  ASSUME DiscoveryTypeOK, ReachInv, ExactInv, [DiscoveryNext]_discVars
  PROVE  ExactInv'
<1> USE DiscoveryAssumption DEF Sources
<1>0. pkg' = pkg
  BY DEF DiscoveryNext, ProcessOPC, OpenPackage, VisitRootModel,
     VisitPackageAttachment, EndDiscovery, AddChildModel, AddModelAttachment,
     SkipCoreRel, EndCore, VisitChildRel, NextChild, EndChildren, DecodeAgain,
     discVars
<1>o. OneRootModel' <=> OneRootModel
  BY <1>0 DEF OneRootModel, HasOneRootModel
<1>u. \A n, rels : ResolvableUpTo(n, rels)' = ResolvableUpTo(n, rels)
  BY <1>0 DEF ResolvableUpTo, Found, PartOf
<1>i. \A n \in Names : pkg.rels[n] \in Seq(Rel)
  BY DEF DiscoveryTypeOK, IsPackage
(* A step that leaves the children as they are, and does not visit them.   *)
<1>k. ASSUME UNCHANGED <<childs, nonRootModels>>, phase' \notin {"closed", "child"},
             phase' \in {"package", "found"} => phase \in {"closed", "package", "found"}
      PROVE  ExactInv'
  <2>1. /\ DOMAIN childs' \subseteq Range(nonRootModels')
        /\ phase = "closed" => DOMAIN childs = {}
    BY <1>k DEF ExactInv
  <2>2. ASSUME OneRootModel, phase' \in {"package", "found"}, NEW n \in DOMAIN childs', Once(n)'
        PROVE  ExactFor(n, Len(pkg.rels[n]))'
    <3>1. n \in DOMAIN childs /\ Once(n) /\ phase \in {"package", "found"}
      BY <1>k, <2>1, <2>2 DEF Once
    <3>2. ExactFor(n, Len(pkg.rels[n]))
      BY <3>1, <2>2 DEF ExactInv
    <3>. QED
      BY <3>2, <1>0, <1>k, <1>u DEF ExactFor
  <2>. QED
    BY <1>o, <1>k, <2>1, <2>2 DEF ExactInv
<1>1. CASE OpenPackage
  BY <1>1, <1>k DEF OpenPackage, modelVars
<1>2. CASE VisitRootModel
  BY <1>2, <1>k DEF VisitRootModel
<1>3. CASE VisitPackageAttachment
  BY <1>3, <1>k DEF VisitPackageAttachment
<1>4. CASE EndDiscovery
  BY <1>4, <1>k DEF EndDiscovery, modelVars
<1>5. CASE AddChildModel
  <2>1. PICK child : child = PartOf(rootFile, CoreRel)
    OBVIOUS
  <2>2. /\ nonRootModels' = Append(nonRootModels, child)
        /\ DOMAIN childs' = DOMAIN childs \cup {child}
        /\ phase' = "core"
    BY <1>5, <2>1 DEF AddChildModel, WithChild
  <2>3. DOMAIN childs' \subseteq Range(nonRootModels')
    <3>1. DOMAIN childs \subseteq Range(nonRootModels)
      BY DEF ExactInv
    <3>2. child \in Names
      BY <1>5, <2>1, RelType DEF AddChildModel, DiscoveryTypeOK, CoreRel
    <3>3. nonRootModels \in Seq(Names)
      BY DEF DiscoveryTypeOK
    <3>4. /\ \A k \in DOMAIN nonRootModels : k \in DOMAIN nonRootModels' /\ nonRootModels'[k] = nonRootModels[k]
          /\ \E k \in DOMAIN nonRootModels' : nonRootModels'[k] = child
      <4>1. PICK last : last = Len(nonRootModels) + 1
        OBVIOUS
      <4>2. last \in DOMAIN nonRootModels' /\ nonRootModels'[last] = child
        BY <2>2, <3>2, <3>3, <4>1
      <4>. QED
        BY <2>2, <3>2, <3>3, <4>2
    <3>. QED
      BY <2>2, <3>1, <3>4 DEF Range
  <2>. QED
    BY <2>2, <2>3 DEF ExactInv
<1>6. CASE AddModelAttachment
  BY <1>6, <1>k DEF AddModelAttachment
<1>7. CASE SkipCoreRel
  BY <1>7, <1>k DEF SkipCoreRel, modelVars
<1>8. CASE EndCore
  <2>1. /\ UNCHANGED <<childs, nonRootModels>> /\ phase = "core" /\ phase' = "child"
        /\ ci' = 1 /\ rj' = 1
    BY <1>8 DEF EndCore, modelVars
  <2>2. ChildName' = nonRootModels[ci'] /\ DOMAIN nonRootModels' = DOMAIN nonRootModels
    BY <2>1 DEF ChildName
  <2>3. ci' \in DOMAIN nonRootModels' => rj' <= Len(pkg'.rels[ChildName']) + 1
    BY <1>0, <1>i, <2>1, <2>2 DEF DiscoveryTypeOK
  <2>4. ASSUME OneRootModel, NEW k \in DOMAIN nonRootModels, nonRootModels[k] \in DOMAIN childs
        PROVE  ExactFor(nonRootModels[k], VisitedUpTo(k))'
    <3>1. childs[nonRootModels[k]] = <<>>
      BY <2>1, <2>4 DEF ReachInv, NoChildRels
    <3>2. k \in Nat \ {0} /\ nonRootModels[k] \in Names
      BY DEF DiscoveryTypeOK
    <3>3. VisitedUpTo(k)' = 0
      BY <2>1, <3>2 DEF VisitedUpTo
    <3>4. ResolvableUpTo(nonRootModels[k], pkg.rels[nonRootModels[k]])[0] = <<>>
      BY <1>i, <3>2, ResolvableIs DEF KeepsSoFar
    <3>. QED
      BY <1>0, <1>u, <2>1, <3>1, <3>3, <3>4 DEF ExactFor
  <2>. QED
    BY <1>o, <2>1, <2>3, <2>4 DEF ExactInv
<1>9. CASE VisitChildRel
  <2>1. /\ ci \in DOMAIN nonRootModels /\ rj \in DOMAIN pkg.rels[ChildName]
        /\ phase = "child" /\ phase' = "child"
        /\ rj' = rj + 1 /\ UNCHANGED <<nonRootModels, ci>>
        /\ DOMAIN childs' = DOMAIN childs
    BY <1>9 DEF VisitChildRel, WithChildRel
  <2>2. ChildName' = ChildName /\ ChildName \in Names
    BY <2>1 DEF ChildName, DiscoveryTypeOK
  <2>3. rj' <= Len(pkg'.rels[ChildName']) + 1
    BY <1>0, <1>i, <2>1, <2>2 DEF DiscoveryTypeOK
  <2>4. \A k : (Once(nonRootModels[k]))' <=> Once(nonRootModels[k])
    BY <2>1 DEF Once
  <2>5. OneRootModel => \A k \in DOMAIN nonRootModels :
          nonRootModels[k] \in DOMAIN childs' /\ Once(nonRootModels[k]) =>
             ExactFor(nonRootModels[k], VisitedUpTo(k))'
    BY <1>9, ChildExact
  <2>. QED
    BY <1>o, <2>1, <2>3, <2>4, <2>5 DEF ExactInv
<1>10. CASE NextChild
  <2>1. /\ ci \in DOMAIN nonRootModels /\ rj \notin DOMAIN pkg.rels[ChildName]
        /\ phase = "child" /\ phase' = "child"
        /\ rj' = 1 /\ ci' = ci + 1 /\ UNCHANGED <<nonRootModels, childs>>
    BY <1>10 DEF NextChild, modelVars
  <2>2. ci' \in DOMAIN nonRootModels => rj' <= Len(pkg.rels[nonRootModels[ci']]) + 1
    BY <1>i, <2>1 DEF DiscoveryTypeOK
  <2>3. ci' \in DOMAIN nonRootModels' => rj' <= Len(pkg'.rels[ChildName']) + 1
    BY <1>0, <2>1, <2>2 DEF ChildName
  <2>4. \A k : (Once(nonRootModels[k]))' <=> Once(nonRootModels[k])
    BY <2>1 DEF Once
  <2>5. ASSUME NEW k \in DOMAIN nonRootModels
        PROVE  VisitedUpTo(k)' = VisitedUpTo(k)
    <3>1. ChildName \in Names /\ k \in Nat \ {0} /\ ci \in Nat /\ rj \in Nat \ {0}
      BY <2>1 DEF ChildName, DiscoveryTypeOK
    <3>2. rj - 1 = Len(pkg.rels[ChildName])
      <4>1. rj <= Len(pkg.rels[ChildName]) + 1
        BY <2>1 DEF ExactInv
      <4>. QED
        BY <1>i, <2>1, <3>1, <4>1
    <3>. QED
      BY <1>0, <2>1, <3>1, <3>2 DEF VisitedUpTo, ChildName
  <2>6. ASSUME OneRootModel, NEW k \in DOMAIN nonRootModels,
               nonRootModels[k] \in DOMAIN childs, Once(nonRootModels[k])
        PROVE  ExactFor(nonRootModels[k], VisitedUpTo(k))'
    <3>1. ExactFor(nonRootModels[k], VisitedUpTo(k))
      BY <2>1, <2>6 DEF ExactInv
    <3>. QED
      BY <1>0, <1>u, <2>1, <2>5, <3>1 DEF ExactFor
  <2>. QED
    BY <1>o, <2>1, <2>3, <2>4, <2>6 DEF ExactInv
<1>11. CASE EndChildren
  <2>1. /\ ci \notin DOMAIN nonRootModels /\ phase = "child" /\ phase' = "package"
        /\ UNCHANGED <<nonRootModels, childs>>
    BY <1>11 DEF EndChildren, modelVars
  <2>2. DOMAIN childs \subseteq Range(nonRootModels)
    BY DEF ExactInv
  <2>3. ASSUME OneRootModel, NEW n \in DOMAIN childs, Once(n)'
        PROVE  ExactFor(n, Len(pkg.rels[n]))'
    <3>1. PICK k \in DOMAIN nonRootModels : nonRootModels[k] = n
      BY <2>2 DEF Range
    <3>2. Once(n)
      BY <2>1, <2>3 DEF Once
    <3>3. VisitedUpTo(k) = Len(pkg.rels[n])
      <4>1. k < ci
        BY <2>1 DEF DiscoveryTypeOK
      <4>. QED
        BY <3>1, <4>1 DEF VisitedUpTo
    <3>4. ExactFor(n, VisitedUpTo(k))
      BY <2>1, <2>3, <3>1, <3>2 DEF ExactInv
    <3>. QED
      BY <1>0, <1>u, <2>1, <3>3, <3>4 DEF ExactFor
  <2>. QED
    BY <1>o, <2>1, <2>2, <2>3 DEF ExactInv
<1>12. CASE DecodeAgain
  BY <1>12 DEF DecodeAgain, ExactInv
<1>13. CASE UNCHANGED discVars
  <2>1. UNCHANGED <<pkg, phase, childs, nonRootModels, ci, rj>>
    BY <1>13 DEF discVars, cursors, modelVars
  <2>. QED
    BY <2>1, <1>o, <1>u DEF ExactInv, ExactFor, VisitedUpTo, ChildName, Once
<1>. QED
  BY <1>1, <1>2, <1>3, <1>4, <1>5, <1>6, <1>7, <1>8, <1>9, <1>10, <1>11,
     <1>12, <1>13 DEF DiscoveryNext, ProcessOPC

(***************************************************************************)
(* In a package with one root model, a child that is listed once keeps     *)
(* exactly those of its relationships that resolve to a part, in their     *)
(* order, for any package and any number of calls (extractCoreAttachments).*)
(***************************************************************************)
THEOREM ChildRelationshipsAlwaysExact == DiscoverySpec => []ChildRelationshipsExact
<1>1. DiscoveryInit => ReachInv /\ ExactInv
  BY DEF DiscoveryInit, ReachInv, NoChildRels, ExactInv
<1>2. ExactInv => ChildRelationshipsExact
  BY DEF ExactInv, ExactFor, ChildRelationshipsExact, Resolvable
<1>. QED
  BY <1>1, <1>2, ReachInductive, ExactInductive, AttachInvariant, DiscoveryTypeCorrect, PTL
     DEF DiscoverySpec

-----------------------------------------------------------------------------
(***************************************************************************)
(* What the loops have kept when they are at ri and at rj: of the package  *)
(* relationships those that resolve, and of the relationships of the root  *)
(* model as well, when there is one root model.                            *)
(***************************************************************************)
KeptInv ==
  /\ ri <= Len(pkg.rels[PackageRoot]) + 1
  /\ rootRelationships = ResolvableUpTo(PackageRoot, pkg.rels[PackageRoot])[ri - 1]
  /\ phase = "core" => rj <= Len(pkg.rels[path]) + 1
  /\ phase = "closed" => path = NoPart
  /\ OneRootModel =>
       /\ phase = "core" => relationships = ResolvableUpTo(path, pkg.rels[path])[rj - 1]
       /\ phase = "child" \/ (phase \in {"package", "found"} /\ path # NoPart) =>
            relationships = Resolvable(path, pkg.rels[path])
  /\ \A i \in DOMAIN relationships : relationships[i].type # ModelType
  /\ \A k \in DOMAIN attachments : attachments[k] \in pkg.readable

LEMMA AttachedReadable ==
  ASSUME NEW atts \in Seq(Names), NEW name \in Names, \A k \in DOMAIN atts : atts[k] \in pkg.readable
  PROVE  \A k \in DOMAIN AddAttachment(atts, name) : AddAttachment(atts, name)[k] \in pkg.readable
<1>1. CASE AddAttachment(atts, name) = atts
  BY <1>1
<1>2. CASE AddAttachment(atts, name) # atts
  <2>1. AddAttachment(atts, name) = Append(atts, name) /\ name \in pkg.readable
    BY <1>2 DEF AddAttachment
  <2> QED
    BY <2>1
<1> QED
  BY <1>1, <1>2

LEMMA KeptInductive ==
  ASSUME DiscoveryTypeOK, AttachInv, KeptInv, [DiscoveryNext]_discVars
  PROVE  KeptInv'
<1> USE DiscoveryAssumption DEF Sources
<1>0. pkg' = pkg
  BY DEF DiscoveryNext, ProcessOPC, OpenPackage, VisitRootModel,
     VisitPackageAttachment, EndDiscovery, AddChildModel, AddModelAttachment,
     SkipCoreRel, EndCore, VisitChildRel, NextChild, EndChildren, DecodeAgain,
     discVars
<1>o. OneRootModel' <=> OneRootModel
  BY <1>0 DEF OneRootModel, HasOneRootModel
<1>u. \A n, rels : ResolvableUpTo(n, rels)' = ResolvableUpTo(n, rels)
  BY <1>0 DEF ResolvableUpTo, Found, PartOf
<1>v. \A n, rels : Resolvable(n, rels)' = Resolvable(n, rels)
  BY <1>u DEF Resolvable
<1>i. \A n \in Sources : pkg.rels[n] \in Seq(Rel)
  BY DEF DiscoveryTypeOK, IsPackage
<1>p. PICK top : top = pkg.rels[PackageRoot] /\ top \in Seq(Rel)
  BY <1>i
<1>n. ri \in Nat \ {0} /\ rj \in Nat \ {0} /\ path = rootFile
  BY DEF DiscoveryTypeOK
(* A step after which the same is kept.                                    *)
<1>k. ASSUME UNCHANGED <<ri, path, relationships, rootRelationships>>,
             \A k \in DOMAIN attachments' : attachments'[k] \in pkg.readable,
             phase' \notin {"closed", "core"},
             OneRootModel /\ (phase' = "child" \/ (phase' \in {"package", "found"} /\ path # NoPart)) =>
               relationships = Resolvable(path, pkg.rels[path])
      PROVE  KeptInv'
  BY <1>k, <1>0, <1>o, <1>u, <1>v DEF KeptInv
<1>a. \A k \in DOMAIN attachments : attachments[k] \in pkg.readable
  BY DEF KeptInv
<1>1. CASE OpenPackage
  <2>1. path = NoPart
    BY <1>1 DEF OpenPackage, KeptInv
  <2>. QED
    BY <1>1, <2>1, <1>k, <1>a DEF OpenPackage, modelVars
<1>2. CASE VisitRootModel
  <2>1. OneRootModel => NoneBeforeRoot
    BY <1>2 DEF VisitRootModel, NoneBeforeRoot, OneRootModel, HasOneRootModel, TopRel,
       PackageRel, DiscoveryTypeOK
  <2>2. OneRootModel => relationships = <<>>
    BY <2>1 DEF AttachInv
  <2>3. /\ UNCHANGED <<ri, relationships, rootRelationships, attachments>>
        /\ rj' = 1 /\ phase' \in {"core", "failed"}
    BY <1>2 DEF VisitRootModel
  <2>4. phase' = "core" => path' \in Names
    BY <1>2, RelType DEF VisitRootModel, DiscoveryTypeOK, PackageRel
  <2>5. phase' = "core" => 1 <= Len(pkg.rels[path']) + 1
    BY <2>4, <1>i
  <2>6. phase' = "core" => ResolvableUpTo(path', pkg.rels[path'])[0] = <<>>
    BY <2>4, <1>i, ResolvableIs DEF KeepsSoFar
  <2>. QED
    BY <2>2, <2>3, <2>5, <2>6, <1>0, <1>o, <1>u DEF KeptInv
<1>3. CASE VisitPackageAttachment
  <2>1. PICK r \in Rel : r = top[ri] /\ r = PackageRel /\ ri \in 1..Len(top)
    BY <1>3, <1>p DEF VisitPackageAttachment, PackageRel
  <2>2. ResolvableUpTo(PackageRoot, top)[ri] =
          IF Keeps(PackageRoot, r) THEN Append(rootRelationships, r) ELSE rootRelationships
    <3>1. rootRelationships = ResolvableUpTo(PackageRoot, top)[ri - 1]
      BY <1>p DEF KeptInv
    <3>2. KeepsSoFar(ResolvableUpTo(PackageRoot, top), PackageRoot, top)
      BY ONLY <1>p, ResolvableIs
    <3>. QED
      BY <2>1, <3>1, <3>2 DEF KeepsSoFar
  <2>3. rootRelationships' = ResolvableUpTo(PackageRoot, top)[ri' - 1]
    <3>1. ri' - 1 = ri
      BY <1>3, <1>n DEF VisitPackageAttachment
    <3>2. Keeps(PackageRoot, r) <=> Found(PackageRoot, PackageRel)
      BY <1>3, <2>1 DEF VisitPackageAttachment, Keeps
    <3>. QED
      BY <1>3, <2>1, <2>2, <3>1, <3>2 DEF VisitPackageAttachment
  <2>4. ri' <= Len(top) + 1
    BY <1>3, <1>p, <2>1 DEF VisitPackageAttachment
  <2>5. \A k \in DOMAIN attachments' : attachments'[k] \in pkg.readable
    <3>1. PartOf(PackageRoot, PackageRel) \in Names
      BY <2>1, PartOfType
    <3>2. attachments' \in {attachments, AddAttachment(attachments, PartOf(PackageRoot, PackageRel))}
      BY <1>3 DEF VisitPackageAttachment
    <3>. QED
      BY <3>1, <3>2, <1>a, AttachedReadable DEF DiscoveryTypeOK
  <2>6. UNCHANGED <<phase, path, relationships>> /\ phase = "package"
    BY <1>3 DEF VisitPackageAttachment
  <2>. QED
    BY <1>0, <1>o, <1>p, <1>u, <1>v, <2>3, <2>4, <2>5, <2>6 DEF KeptInv
<1>4. CASE EndDiscovery
  BY <1>4, <1>k, <1>a DEF EndDiscovery, modelVars, KeptInv
(* The loop over the relationships of the root model goes on.              *)
<1>c. ASSUME phase = "core", rj \in DOMAIN pkg.rels[rootFile],
             UNCHANGED <<phase, ri, path, rootRelationships>>, rj' = rj + 1,
             \A k \in DOMAIN attachments' : attachments'[k] \in pkg.readable,
             relationships' = IF Keeps(path, CoreRel) THEN Append(relationships, CoreRel) ELSE relationships
      PROVE  KeptInv'
  <2>1. PICK rels : rels = pkg.rels[path] /\ rels \in Seq(Rel) /\ rj \in 1..Len(rels) /\ CoreRel = rels[rj]
    <3>1. path = rootFile /\ rj \in DOMAIN pkg.rels[path]
      BY <1>c DEF DiscoveryTypeOK
    <3>2. CoreRel = pkg.rels[path][rj]
      BY <3>1 DEF CoreRel
    <3>3. pkg.rels[path] \in Seq(Rel)
      BY <1>c, <1>i, <1>n, <3>1 DEF DiscoveryTypeOK
    <3>4. PICK s : s = pkg.rels[path]
      OBVIOUS
    <3>. QED
      BY ONLY <3>1, <3>2, <3>3, <3>4
  <2>2. ResolvableUpTo(path, rels)[rj] =
          IF Keeps(path, CoreRel) THEN Append(ResolvableUpTo(path, rels)[rj - 1], CoreRel)
          ELSE ResolvableUpTo(path, rels)[rj - 1]
    BY <2>1, ResolvableIs DEF KeepsSoFar
  <2>3. rj' - 1 = rj /\ rj' <= Len(rels) + 1
    BY <1>c, <2>1
  <2>4. OneRootModel => relationships' = ResolvableUpTo(path, rels)[rj' - 1]
    BY <1>c, <2>1, <2>2, <2>3 DEF KeptInv
  <2>5. \A i \in DOMAIN relationships' : relationships'[i].type # ModelType
    <3>1. relationships \in Seq(Rel) /\ CoreRel \in Rel /\ \A i \in DOMAIN relationships : relationships[i].type # ModelType
      BY <2>1 DEF DiscoveryTypeOK, KeptInv
    <3>2. Keeps(path, CoreRel) => CoreRel.type # ModelType
      BY DEF Keeps
    <3>. QED
      BY <1>c, <3>1, <3>2
  <2>. QED
    BY <1>0, <1>c, <1>o, <1>u, <2>1, <2>3, <2>4, <2>5 DEF KeptInv
<1>5. CASE AddChildModel
  <2>1. ~Keeps(path, CoreRel)
    BY <1>5 DEF AddChildModel, Keeps
  <2>. QED
    BY <1>5, <2>1, <1>c, <1>a DEF AddChildModel
<1>6. CASE AddModelAttachment
  <2>1. Keeps(path, CoreRel)
    BY <1>6, <1>n DEF AddModelAttachment, Keeps
  <2>2. PartOf(rootFile, CoreRel) \in Names
    BY <1>6, RelType DEF AddModelAttachment, DiscoveryTypeOK, CoreRel
  <2>3. \A k \in DOMAIN attachments' : attachments'[k] \in pkg.readable
    BY <1>6, <2>2, <1>a, AttachedReadable DEF AddModelAttachment, DiscoveryTypeOK
  <2>. QED
    BY <1>6, <2>1, <2>3, <1>c DEF AddModelAttachment
<1>7. CASE SkipCoreRel
  <2>1. ~Keeps(path, CoreRel)
    BY <1>7, <1>n DEF SkipCoreRel, Keeps
  <2>. QED
    BY <1>7, <2>1, <1>c, <1>a DEF SkipCoreRel, modelVars
<1>8. CASE EndCore
  <2>1. PICK rels : rels = pkg.rels[path] /\ rels \in Seq(Rel)
    BY <1>8, <1>i, <1>n DEF EndCore, DiscoveryTypeOK
  <2>2. rj - 1 = Len(rels)
    BY <1>8, <1>n, <2>1 DEF EndCore, KeptInv
  <2>3. OneRootModel => relationships = Resolvable(path, rels)
    BY <1>8, <2>1, <2>2 DEF EndCore, KeptInv, Resolvable
  <2>. QED
    BY <1>8, <2>1, <2>3, <1>k, <1>a DEF EndCore, modelVars
<1>9. CASE VisitChildRel
  <2>1. UNCHANGED <<ri, path, relationships, rootRelationships, phase>> /\ phase = "child"
    BY <1>9 DEF VisitChildRel
  <2>2. OneRootModel => relationships = Resolvable(path, pkg.rels[path])
    BY <2>1 DEF KeptInv
  <2>3. \A k \in DOMAIN attachments' : attachments'[k] \in pkg.readable
    <3>1. ChildName \in Names
      BY <1>9 DEF VisitChildRel, DiscoveryTypeOK, ChildName
    <3>2. PartOf(ChildName, ChildRel) \in Names
      BY <1>9, <3>1, RelType DEF VisitChildRel, DiscoveryTypeOK, ChildRel
    <3>3. attachments' \in {attachments, AddAttachment(attachments, PartOf(ChildName, ChildRel))}
      BY <1>9 DEF VisitChildRel
    <3>. QED
      BY <3>2, <3>3, <1>a, AttachedReadable DEF DiscoveryTypeOK
  <2>. QED
    BY <2>1, <2>2, <2>3, <1>k
<1>10. CASE NextChild
  BY <1>10, <1>k, <1>a DEF NextChild, modelVars, KeptInv
<1>11. CASE EndChildren
  <2>1. /\ ri' = ri + 1 /\ phase = "child" /\ phase' = "package"
        /\ UNCHANGED <<path, relationships, rootRelationships, attachments>>
    BY <1>11 DEF EndChildren, modelVars
  <2>2. PICK r \in Rel : r = top[ri] /\ ri \in 1..Len(top) /\ r.type = ModelType
    <3>1. IsRootRel(ri)
      BY <2>1 DEF AttachInv, AtRootRel
    <3>. QED
      BY <1>p, <3>1 DEF IsRootRel, TopRel
  <2>3. ResolvableUpTo(PackageRoot, top)[ri] = ResolvableUpTo(PackageRoot, top)[ri - 1]
    BY <1>p, <2>2, ResolvableIs DEF KeepsSoFar, Keeps
  <2>4. ri' - 1 = ri /\ ri' <= Len(top) + 1
    BY <1>p, <2>1, <2>2
  <2>5. rootRelationships' = ResolvableUpTo(PackageRoot, top)[ri' - 1]
    BY <1>p, <2>1, <2>3, <2>4 DEF KeptInv
  <2>. QED
    BY <1>0, <1>o, <1>p, <1>u, <1>v, <2>1, <2>4, <2>5 DEF KeptInv
<1>12. CASE DecodeAgain
  <2>1. /\ ri' = 1 /\ path' = NoPart /\ phase' = "closed" /\ rootRelationships' = <<>>
        /\ relationships' = <<>> /\ attachments' = <<>>
    BY <1>12 DEF DecodeAgain
  <2>2. ResolvableUpTo(PackageRoot, top)[0] = <<>>
    BY <1>p, ResolvableIs DEF KeepsSoFar
  <2>3. ri' - 1 = 0 /\ ri' <= Len(top) + 1
    BY <1>p, <2>1
  <2>. QED
    BY <1>0, <1>p, <1>u, <2>1, <2>2, <2>3 DEF KeptInv
<1>13. CASE UNCHANGED discVars
  <2>1. UNCHANGED <<pkg, phase, ri, rj, path, attachments, relationships, rootRelationships>>
    BY <1>13 DEF discVars, cursors, modelVars
  <2>. QED
    BY <2>1, <1>o, <1>u, <1>v DEF KeptInv
<1>. QED
  BY <1>1, <1>2, <1>3, <1>4, <1>5, <1>6, <1>7, <1>8, <1>9, <1>10, <1>11,
     <1>12, <1>13 DEF DiscoveryNext, ProcessOPC
=============================================================================
