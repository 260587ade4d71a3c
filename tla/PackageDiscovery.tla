-------------------------- MODULE PackageDiscovery --------------------------
(***************************************************************************)
(* Decoder.processOPC (read.go): before any model file is parsed, the      *)
(* decoder opens the package and follows its relationships.  The package   *)
(* relationships name the root model and its attachments; those of the     *)
(* root model part name the child models; those of the child parts name    *)
(* more attachments.  The two nested loops of the code run here one        *)
(* relationship per step, so that the invariants can be stated, and        *)
(* proved, for packages of any size.                                       *)
(*                                                                         *)
(* A Decoder may be used for several calls of Decode: nonRootModels is a   *)
(* field of the Decoder and no call resets it.                             *)
(***************************************************************************)
EXTENDS Integers, Sequences, Functions

CONSTANTS
  Names,        \* part names, as the package writer stored them
  Targets,      \* relationship targets, as written in the .rels parts
  PackageRoot,  \* the source "/" of the package relationships
  Resolve,      \* [source -> [target -> part name]], opc.ResolveRelationship
  FoldCase,     \* [part name -> its case-folded form]
  Packages,     \* the packages that can be decoded
  NoPart,       \* the nil packageFile
  MaxCalls      \* [package -> bound on the calls of Decode made with one Decoder]

ModelType == "3dmodel"
RelTypes  == {ModelType, "other"}
Sources   == Names \cup {PackageRoot}
Rel       == [type : RelTypes, target : Targets]

(***************************************************************************)
(* opens: the zip directory can be read; parts: the parts it holds;        *)
(* readable: those whose data can be opened and read to the end; rels: the *)
(* relationships of the package and of each part.                          *)
(***************************************************************************)
IsPackage(p) ==
  /\ p.opens \in BOOLEAN
  /\ p.parts \subseteq Names
  /\ p.readable \subseteq p.parts
  /\ p.rels \in [Sources -> Seq(Rel)]

ASSUME DiscoveryAssumption ==
  /\ PackageRoot \notin Names
  /\ NoPart \notin Names
  /\ Resolve \in [Sources -> [Targets -> Names]]
  /\ Names \subseteq DOMAIN FoldCase
  /\ \A p \in Packages : IsPackage(p) /\ MaxCalls[p] \in Nat \ {0}

VARIABLES
  pkg,               \* the package being decoded
  calls,             \* calls of Decode started with this Decoder
  phase,             \* where processOPC is
  ri,                \* index into the package relationships
  rj,                \* index into the relationships of the part visited
  ci,                \* index into nonRootModels while visiting the children
  rootFile,          \* the root model part found last
  nonRootModels,     \* Decoder.nonRootModels
  path,              \* model.Path
  childs,            \* model.Childs: [part name -> kept relationships]
  attachments,       \* paths of model.Attachments
  relationships,     \* model.Relationships
  rootRelationships  \* model.RootRelationships

cursors   == <<phase, ri, rj, ci, rootFile>>
modelVars == <<path, childs, attachments, relationships, rootRelationships>>
discVars  == <<pkg, calls, cursors, nonRootModels, modelVars>>

(***************************************************************************)
(* findOPCFileFromName after ResolveRelationship: the name must match a    *)
(* part exactly.                                                           *)
(***************************************************************************)
PartOf(src, rel) == Resolve[src][rel.target]
Found(src, rel)  == PartOf(src, rel) \in pkg.parts

SameName(m, n) == FoldCase[m] = FoldCase[n]    \* strings.EqualFold

(* Mutant: the loop returns at its first element. *)
AddAttachment_FirstOnly(atts, name) ==
  IF \/ atts # <<>>
     \/ name \notin pkg.readable
  THEN atts
  ELSE Append(atts, name)

(***************************************************************************)
(* addAttachment: a part already attached under an equal name is skipped,  *)
(* and so, silently, is a part that cannot be copied.                      *)
(***************************************************************************)
AddAttachment(atts, name) ==
  IF \/ \E i \in DOMAIN atts : SameName(atts[i], name)
     \/ name \notin pkg.readable
  THEN atts
  ELSE Append(atts, name)

-----------------------------------------------------------------------------
DiscoveryInit ==
  /\ pkg \in Packages
  /\ calls = 1
  /\ phase = "closed"
  /\ ri = 1 /\ rj = 1 /\ ci = 1
  /\ rootFile = NoPart
  /\ nonRootModels = <<>>
  /\ path = NoPart
  /\ childs = [n \in {} |-> <<>>]
  /\ attachments = <<>>
  /\ relationships = <<>>
  /\ rootRelationships = <<>>

(* d.p.Open: reads the zip directory, or ends the call with its error.     *)
OpenPackage ==
  /\ phase = "closed"
  /\ phase' = IF pkg.opens THEN "package" ELSE "failed"
  /\ UNCHANGED <<pkg, calls, ri, rj, ci, rootFile, nonRootModels, modelVars>>

PackageRel == pkg.rels[PackageRoot][ri]

(***************************************************************************)
(* The body of the loop over the package relationships, for one of the     *)
(* model type: a missing part ends the call; otherwise it becomes the root *)
(* and its relationships are visited next (phase "core").                  *)
(***************************************************************************)
VisitRootModel ==
  /\ phase = "package"
  /\ ri \in DOMAIN pkg.rels[PackageRoot]
  /\ PackageRel.type = ModelType
  /\ IF Found(PackageRoot, PackageRel)
     THEN /\ rootFile' = PartOf(PackageRoot, PackageRel)
          /\ path' = rootFile'
          /\ phase' = "core"
     ELSE /\ phase' = "failed"
          /\ UNCHANGED <<rootFile, path>>
  /\ rj' = 1
  /\ UNCHANGED <<pkg, calls, ri, ci, nonRootModels,
                 childs, attachments, relationships, rootRelationships>>

(* The same loop, for a relationship of any other type.                    *)
VisitPackageAttachment ==
  /\ phase = "package"
  /\ ri \in DOMAIN pkg.rels[PackageRoot]
  /\ PackageRel.type # ModelType
  /\ IF Found(PackageRoot, PackageRel)
     THEN /\ rootRelationships' = Append(rootRelationships, PackageRel)
          /\ attachments' =
               AddAttachment(attachments, PartOf(PackageRoot, PackageRel))
     ELSE UNCHANGED <<rootRelationships, attachments>>
  /\ ri' = ri + 1
  /\ UNCHANGED <<pkg, calls, phase, rj, ci, rootFile, nonRootModels,
                 path, childs, relationships>>

(* The end of the loop: processOPC fails when no root model was seen.      *)
EndDiscovery ==
  /\ phase = "package"
  /\ ri \notin DOMAIN pkg.rels[PackageRoot]
  /\ phase' = IF rootFile = NoPart THEN "failed" ELSE "found"
  /\ UNCHANGED <<pkg, calls, ri, rj, ci, rootFile, nonRootModels, modelVars>>

-----------------------------------------------------------------------------
(* extractCoreAttachments(rootFile, model, true), one relationship.        *)
CoreRel == pkg.rels[rootFile][rj]

(* Mutant: only the first child gets an entry. *)
WithChild_OnlyFirst(n) == IF DOMAIN childs = {} THEN [m \in {n} |-> <<>>] ELSE childs

(* model.Childs[n] = new(ChildModel)                                       *)
WithChild(n) == [m \in DOMAIN childs \cup {n} |->
                   IF m = n THEN <<>> ELSE childs[m]]

(* A model part becomes a child, replacing the entry it may already have.  *)
AddChildModel ==
  /\ phase = "core"
  /\ rj \in DOMAIN pkg.rels[rootFile]
  /\ Found(rootFile, CoreRel)
  /\ CoreRel.type = ModelType
  /\ LET child == PartOf(rootFile, CoreRel)
     IN  /\ nonRootModels' = Append(nonRootModels, child)
         /\ childs' = WithChild(child)
  /\ rj' = rj + 1
  /\ UNCHANGED <<pkg, calls, phase, ri, ci, rootFile,
                 path, attachments, relationships, rootRelationships>>

AddModelAttachment ==
  /\ phase = "core"
  /\ rj \in DOMAIN pkg.rels[rootFile]
  /\ Found(rootFile, CoreRel)
  /\ CoreRel.type # ModelType
  /\ attachments' = AddAttachment(attachments, PartOf(rootFile, CoreRel))
  /\ relationships' = Append(relationships, CoreRel)
  /\ rj' = rj + 1
  /\ UNCHANGED <<pkg, calls, phase, ri, ci, rootFile, nonRootModels,
                 path, childs, rootRelationships>>

SkipCoreRel ==
  /\ phase = "core"
  /\ rj \in DOMAIN pkg.rels[rootFile]
  /\ ~Found(rootFile, CoreRel)
  /\ rj' = rj + 1
  /\ UNCHANGED <<pkg, calls, phase, ri, ci, rootFile, nonRootModels, modelVars>>

(* The loop over d.nonRootModels starts, with those of earlier visits.     *)
EndCore ==
  /\ phase = "core"
  /\ rj \notin DOMAIN pkg.rels[rootFile]
  /\ phase' = "child"
  /\ ci' = 1
  /\ rj' = 1
  /\ UNCHANGED <<pkg, calls, ri, rootFile, nonRootModels, modelVars>>

-----------------------------------------------------------------------------
(* extractCoreAttachments(file, model, false), one relationship.           *)
ChildName == nonRootModels[ci]
ChildRel  == pkg.rels[ChildName][rj]

(* Mutant: model relationships of a child are kept too. *)
KeepsChildRel_AnyType ==
  /\ Found(ChildName, ChildRel)
  /\ ChildName \in DOMAIN childs

KeepsChildRel ==
  /\ Found(ChildName, ChildRel)
  /\ ChildRel.type # ModelType
  /\ ChildName \in DOMAIN childs

(* Mutant: the relationship of a child is forgotten. *)
WithChildRel_None == childs

WithChildRel == [childs EXCEPT ![ChildName] = Append(@, ChildRel)]

VisitChildRel ==
  /\ phase = "child"
  /\ ci \in DOMAIN nonRootModels
  /\ rj \in DOMAIN pkg.rels[ChildName]
  /\ IF KeepsChildRel
     THEN /\ attachments' =
               AddAttachment(attachments, PartOf(ChildName, ChildRel))
          /\ childs' = WithChildRel
     ELSE UNCHANGED <<attachments, childs>>
  /\ rj' = rj + 1
  /\ UNCHANGED <<pkg, calls, phase, ri, ci, rootFile, nonRootModels,
                 path, relationships, rootRelationships>>

NextChild ==
  /\ phase = "child"
  /\ ci \in DOMAIN nonRootModels
  /\ rj \notin DOMAIN pkg.rels[ChildName]
  /\ ci' = ci + 1
  /\ rj' = 1
  /\ UNCHANGED <<pkg, calls, phase, ri, rootFile, nonRootModels, modelVars>>

EndChildren ==
  /\ phase = "child"
  /\ ci \notin DOMAIN nonRootModels
  /\ phase' = "package"
  /\ ri' = ri + 1
  /\ UNCHANGED <<pkg, calls, rj, ci, rootFile, nonRootModels, modelVars>>

ProcessOPC ==
  \/ OpenPackage
  \/ VisitRootModel \/ VisitPackageAttachment \/ EndDiscovery
  \/ AddChildModel \/ AddModelAttachment \/ SkipCoreRel \/ EndCore
  \/ VisitChildRel \/ NextChild \/ EndChildren

(* Another call of Decode on the same Decoder, filling another model.      *)
DecodeAgain ==
  /\ phase \in {"found", "failed"}
  /\ calls < MaxCalls[pkg]
  /\ calls' = calls + 1
  /\ phase' = "closed"
  /\ ri' = 1 /\ rj' = 1 /\ ci' = 1
  /\ rootFile' = NoPart
  /\ path' = NoPart
  /\ childs' = [n \in {} |-> <<>>]
  /\ attachments' = <<>>
  /\ relationships' = <<>>
  /\ rootRelationships' = <<>>
  /\ UNCHANGED <<pkg, nonRootModels>>

DiscoveryNext == ProcessOPC \/ DecodeAgain

DiscoverySpec == DiscoveryInit /\ [][DiscoveryNext]_discVars

-----------------------------------------------------------------------------
Phases == {"closed", "package", "core", "child", "found", "failed"}

(* Every variable holds a value of the Go type it stands for.              *)
DiscoveryTypeOK ==
  /\ IsPackage(pkg)
  /\ calls \in Nat
  /\ phase \in Phases
  /\ ri \in Nat \ {0} /\ rj \in Nat \ {0} /\ ci \in Nat \ {0}
  /\ rootFile \in Names \cup {NoPart}
  /\ phase \in {"core", "child", "found"} => rootFile \in Names
  /\ nonRootModels \in Seq(Names)
  /\ path = rootFile
  /\ DOMAIN childs \subseteq Names
  /\ \A n \in DOMAIN childs : childs[n] \in Seq(Rel)
  /\ attachments \in Seq(Names)
  /\ relationships \in Seq(Rel)
  /\ rootRelationships \in Seq(Rel)

(***************************************************************************)
(* Every part that processNonRootModels will decode has its entry in       *)
(* model.Childs, also when the Decoder was used before: FindResources      *)
(* returns nil for a part without one, and resourceDecoder writes through  *)
(* what it returns.                                                        *)
(***************************************************************************)
ChildrenHaveEntries ==
  phase = "found" => Range(nonRootModels) \subseteq DOMAIN childs

(***************************************************************************)
(* model.Attachments never holds a part twice under names that differ only *)
(* in case, whichever relationships lead to it.                            *)
(***************************************************************************)
AttachmentsDistinct ==
  \A i, j \in DOMAIN attachments :
    SameName(attachments[i], attachments[j]) => i = j

Attached(atts, name) == \E i \in DOMAIN atts : SameName(atts[i], name)
Covers(readable, atts, src, rels) ==
  \A i \in DOMAIN rels :
    PartOf(src, rels[i]) \in readable => Attached(atts, PartOf(src, rels[i]))

(* The package has at most one root model relationship, as 3MF asks.       *)
HasOneRootModel(p) ==
  \A i, j \in DOMAIN p.rels[PackageRoot] :
    LET r == p.rels[PackageRoot][i]
        s == p.rels[PackageRoot][j]
    IN  r.type = ModelType /\ s.type = ModelType => i = j

OneRootModel == HasOneRootModel(pkg)

(***************************************************************************)
(* Whatever relationship the model keeps, of the package, of the root or   *)
(* of a child, the readable part it points to is one of the attachments:   *)
(* validateRelationship reports a relationship without one.                *)
(***************************************************************************)
KeptRelationshipsAreAttached ==
  /\ Covers(pkg.readable, attachments, PackageRoot, rootRelationships)
  /\ \A n \in DOMAIN childs : Covers(pkg.readable, attachments, n, childs[n])
  /\ OneRootModel => Covers(pkg.readable, attachments, path, relationships)

(***************************************************************************)
(* Conversely, when discovery ends, each attachment is the target of some  *)
(* relationship the model kept, so that a package written from the model   *)
(* reaches it again.  Stated for packages with one root model part, whose  *)
(* relationships are then all those of the part at model.Path.             *)
(***************************************************************************)
Reaches(src, rels, name) ==
  \E i \in DOMAIN rels : SameName(PartOf(src, rels[i]), name)

AttachmentsReachable ==
  phase = "found" /\ OneRootModel =>
    \A a \in Range(attachments) :
      \/ Reaches(PackageRoot, rootRelationships, a)
      \/ Reaches(path, relationships, a)
      \/ \E n \in DOMAIN childs : Reaches(n, childs[n], a)

(* What extractCoreAttachments keeps of the first k relationships of src.  *)
ResolvableUpTo(src, rels) ==
  LET kept[k \in 0..Len(rels)] ==
        IF k = 0 THEN <<>>
        ELSE IF rels[k].type # ModelType /\ Found(src, rels[k])
        THEN Append(kept[k - 1], rels[k]) ELSE kept[k - 1]
  IN  kept

Resolvable(src, rels) == ResolvableUpTo(src, rels)[Len(rels)]

(***************************************************************************)
(* A child that is listed once keeps its resolvable relationships exactly  *)
(* once and in their order, whatever else the package links to it.         *)
(***************************************************************************)
Once(n) == \A i, j \in DOMAIN nonRootModels :
             nonRootModels[i] = n /\ nonRootModels[j] = n => i = j

ChildRelationshipsExact ==
  phase = "found" /\ OneRootModel =>
    \A n \in DOMAIN childs :
      Once(n) => childs[n] = Resolvable(n, pkg.rels[n])
=============================================================================
