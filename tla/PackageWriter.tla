--------------------------- MODULE PackageWriter ---------------------------
(***************************************************************************)
(* Encoder.Encode (encoder.go) on a model that processOPC has read, and    *)
(* processOPC again on the package it writes: attachments, root model and  *)
(* child models become parts, one after the other, each with its           *)
(* relationships.                                                          *)
(*                                                                         *)
(* The zip writer (github.com/qmuntal/opc) is external: it refuses a part  *)
(* whose name is taken up to case, and stores the relationships of a part  *)
(* when the next one is created or the package is closed.                  *)
(***************************************************************************)
EXTENDS PackageDiscovery, SequencesExt

CONSTANT Contents  \* [package -> what its model files may hold, as far as Encode
                   \* looks at it]

(* thumbnail: Model.Thumbnail, or NoPart; objects: the thumbnails of the   *)
(* objects of each model part.                                             *)
ASSUME WriterAssumption ==
  /\ Names \subseteq Targets
  /\ \A s \in Sources : \A n \in Names : Resolve[s][n] = n
  /\ DOMAIN Contents = Packages
  /\ \A p \in Packages : \A c \in Contents[p] :
       /\ c.thumbnail \in Targets \cup {NoPart}
       /\ c.objects \in [Names -> Seq(Targets)]

VARIABLES
  content,  \* the content of the model
  before,   \* the model that is written, and the package it comes from
  step,     \* where Encode is
  wi,       \* index into Attachments
  left,     \* the children not written yet
  writing,  \* the part that w stands for
  pending,  \* enc.relationships
  zip,      \* the parts stored in the package, each with its relationships
  current,  \* the part being written, in a sequence of at most one
  topRels   \* the relationships of the package

writeVars == <<content, before, step, wi, left, writing, pending, zip, current, topRels>>

Thumbnail(target) == [type |-> "other", target |-> target]
ModelRel(name)    == [type |-> ModelType, target |-> name]
ThumbnailsOf(n)   == [k \in DOMAIN content.objects[n] |-> Thumbnail(content.objects[n][k])]

(* AddRelationship of opcPart and of opcWriter.                            *)
AddRelationship(rels, r) == IF r \in Range(rels) THEN rels ELSE Append(rels, r)

AddAll(rels, more) ==
  LET added[k \in 0..Len(more)] ==
        IF k = 0 THEN rels ELSE AddRelationship(added[k - 1], more[k])
  IN  added[Len(more)]

Part(name, rels) == [name |-> name, rels |-> rels]

CanCreate(name) == ~\E p \in Range(zip \o current) : SameName(p.name, name)

(* opc.Writer.CreatePart, unless the part exists.                          *)
Create(name) ==
  /\ zip' = zip \o current
  /\ current' = <<Part(name, <<>>)>>

(* The relationships added to a part count while it is the current one.    *)
AddToPart(name, rels) ==
  current' = [k \in DOMAIN current |->
                IF current[k].name = name
                THEN Part(name, AddAll(current[k].rels, rels)) ELSE current[k]]

TheModel == [pkg |-> pkg, path |-> path, childs |-> childs, attachments |-> attachments,
             relationships |-> relationships, rootRelationships |-> rootRelationships]

-----------------------------------------------------------------------------
WriterInit ==
  /\ DiscoveryInit
  /\ content \in Contents[pkg]
  /\ before = TheModel
  /\ step = "reading"
  /\ wi = 1 /\ left = {} /\ writing = NoPart /\ pending = <<>>
  /\ zip = <<>> /\ current = <<>> /\ topRels = <<>>

ReadPackage ==
  /\ step \in {"reading", "rereading"}
  /\ ProcessOPC
  /\ UNCHANGED writeVars

(* The Decoder is used again, before anything is written.                  *)
ReadAgain ==
  /\ step = "reading"
  /\ DecodeAgain
  /\ UNCHANGED writeVars

(* Decode has returned nil: the model files have been read as well.        *)
StartEncode ==
  /\ step = "reading" /\ phase = "found"
  /\ {path} \cup Range(nonRootModels) \subseteq pkg.readable
  /\ before' = TheModel
  /\ step' = "attachments"
  /\ UNCHANGED <<discVars, content, wi, left, writing, pending, zip, current, topRels>>

(* A step of Encode, after which it goes on at next, or returns the error  *)
(* of the zip writer.                                                      *)
GoesOn(now, next) ==
  /\ step = now /\ step' = next
  /\ UNCHANGED <<discVars, content, before>>

WriteAttachment ==
  /\ GoesOn("attachments", "attachments")
  /\ wi \in DOMAIN attachments
  /\ CanCreate(attachments[wi])
  /\ Create(attachments[wi])
  /\ wi' = wi + 1
  /\ UNCHANGED <<left, writing, pending, topRels>>

(* Mutant: the children are not related to the root. *)
RootRelationships_NoChilds(order) == relationships \o ThumbnailsOf(path)

(* enc.relationships of the root, after writeModel; the children come in   *)
(* the order of the map.                                                   *)
RootRelationships(order) ==
  relationships \o [k \in DOMAIN order |-> ModelRel(order[k])] \o ThumbnailsOf(path)

PackageRelationships ==
  rootRelationships \o <<ModelRel(path)>>
  \o (IF content.thumbnail = NoPart THEN <<>> ELSE <<Thumbnail(content.thumbnail)>>)

(* The package relationships, then the root model part up to writeModel.   *)
CreateRoot ==
  /\ GoesOn("attachments", "root")
  /\ wi \notin DOMAIN attachments
  /\ CanCreate(path)
  /\ Create(path)
  /\ topRels' = AddAll(topRels, PackageRelationships)
  /\ writing' = path
  /\ \E order \in SetToSeqs(DOMAIN childs) : pending' = RootRelationships(order)
  /\ left' = DOMAIN childs
  /\ UNCHANGED wi

(* Mutant: the relationships of the root are added when all is written. *)
AddRootRelationships_Late ==
  /\ GoesOn("root", "children")
  /\ UNCHANGED <<wi, left, writing, pending, zip, current, topRels>>

AddRootRelationships ==
  /\ GoesOn("root", "children")
  /\ AddToPart(writing, pending)
  /\ UNCHANGED <<wi, left, writing, pending, zip, topRels>>

CreateChild(n) ==
  /\ GoesOn("children", "child")
  /\ n \in left
  /\ CanCreate(Resolve[path][n])
  /\ Create(Resolve[path][n])
  /\ writing' = Resolve[path][n]
  /\ pending' = childs[n] \o ThumbnailsOf(n)
  /\ left' = left \ {n}
  /\ UNCHANGED <<wi, topRels>>

AddChildRelationships ==
  /\ GoesOn("child", "children")
  /\ AddToPart(writing, pending)
  /\ UNCHANGED <<wi, left, writing, pending, zip, topRels>>

CloseWriter ==
  /\ left = {}
  /\ GoesOn("children", "nil")
  /\ zip' = zip \o current
  /\ current' = <<>>
  /\ UNCHANGED <<wi, left, writing, pending, topRels>>

(* Any write may fail, and Create fails for a name that is taken.          *)
WriteError ==
  /\ step \in {"attachments", "root", "children", "child"}
  /\ step' = "error"
  /\ UNCHANGED <<discVars, content, before, wi, left, writing, pending, zip, current, topRels>>

(* A new Decoder opens the package that was written.                       *)
Written ==
  [opens    |-> TRUE,
   parts    |-> {p.name : p \in Range(zip)},
   readable |-> {p.name : p \in Range(zip)},
   rels     |-> [s \in Sources |->
                   IF s = PackageRoot THEN topRels
                   ELSE IF \E p \in Range(zip) : p.name = s
                        THEN (CHOOSE p \in Range(zip) : p.name = s).rels
                        ELSE <<>>]]

Reopen ==
  /\ step = "nil" /\ step' = "rereading"
  /\ pkg' = Written
  /\ phase' = "closed"
  /\ ri' = 1 /\ rj' = 1 /\ ci' = 1
  /\ rootFile' = NoPart /\ path' = NoPart
  /\ nonRootModels' = <<>>
  /\ childs' = [n \in {} |-> <<>>]
  /\ attachments' = <<>> /\ relationships' = <<>> /\ rootRelationships' = <<>>
  /\ UNCHANGED <<calls, content, before, wi, left, writing, pending, zip, current, topRels>>

Encode ==
  \/ StartEncode \/ WriteAttachment
  \/ CreateRoot \/ AddRootRelationships
  \/ (\E n \in left : CreateChild(n)) \/ AddChildRelationships
  \/ CloseWriter \/ WriteError

WriterNext == ReadPackage \/ ReadAgain \/ Encode \/ Reopen

WriterSpec == WriterInit /\ [][WriterNext]_<<discVars, writeVars>>

-----------------------------------------------------------------------------
Distinct(s) == \A j, k \in DOMAIN s : s[j] = s[k] => j = k

(***************************************************************************)
(* When Encode returns nil the package holds one part for each attachment, *)
(* child and the root, and the parts have all the relationships that the   *)
(* model has for them, each once: "Duplicated relationships will be        *)
(* removed before encoding" (encoder.go, AddRelationship).                 *)
(***************************************************************************)
NilMeansWritten ==
  step = "nil" =>
    /\ Distinct([k \in DOMAIN zip |-> zip[k].name])
    /\ Distinct(topRels) /\ \A p \in Range(zip) : Distinct(p.rels)
    /\ {p.name : p \in Range(zip)} = Range(attachments) \cup {path} \cup DOMAIN childs
    /\ Range(rootRelationships) \cup {ModelRel(path)} \subseteq Range(topRels)
    /\ Range(relationships) \cup {ModelRel(n) : n \in DOMAIN childs}
         \subseteq Range(Written.rels[path])
    /\ \A n \in DOMAIN childs :
         Range(childs[n]) \cup Range(ThumbnailsOf(n)) \subseteq Range(Written.rels[n])

(* The part n is what some thumbnail of the model names.                   *)
IsThumbnail(n) ==
  \/ content.thumbnail # NoPart /\ Resolve[PackageRoot][content.thumbnail] = n
  \/ \E src \in {path} \cup DOMAIN childs :
       \E target \in Range(content.objects[src]) : Resolve[src][target] = n

(***************************************************************************)
(* A package that was written can be read, and gives the same model.  The  *)
(* relationships of thumbnails may be new, when their part exists; so may  *)
(* those be gone that led nowhere, or to a part that could not be copied.  *)
(* Attachments may change their order, and a model part that a thumbnail   *)
(* names becomes one.  The attachments are compared for a package with one *)
(* root model: the relationships of another may lead elsewhere from here.  *)
(***************************************************************************)
SameModel ==
  /\ step = "rereading" => phase # "failed"
  /\ step = "rereading" /\ phase = "found" =>
      /\ path = before.path
      /\ DOMAIN childs = DOMAIN before.childs
      /\ HasOneRootModel(before.pkg) =>
           Range(attachments) = Range(before.attachments)
             \cup {n \in {path} \cup DOMAIN childs : IsThumbnail(n)}
      /\ rootRelationships =
           Resolvable(PackageRoot,
             AddAll(AddAll(<<>>, before.rootRelationships),
                    IF content.thumbnail = NoPart THEN <<>> ELSE <<Thumbnail(content.thumbnail)>>))
      /\ relationships =
           Resolvable(path, AddAll(AddAll(<<>>, before.relationships), ThumbnailsOf(path)))
      /\ \A n \in DOMAIN childs :
           childs[n] = Resolvable(n, AddAll(AddAll(<<>>, before.childs[n]), ThumbnailsOf(n)))
=============================================================================
