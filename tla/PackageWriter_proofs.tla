------------------------ MODULE PackageWriter_proofs ------------------------
(***************************************************************************)
(* What Encode writes, and what a Decoder reads of it, for any model that  *)
(* was read: proofs of the invariants of PackageWriter.                    *)
(***************************************************************************)
EXTENDS PackageWriter, PackageDiscovery_proofs, FiniteSetTheorems, TLAPS

(***************************************************************************)
(* AddRelationship, called for one relationship after the other.           *)
(***************************************************************************)
LEMMA AddOne ==
  ASSUME NEW rels \in Seq(Rel), NEW r \in Rel
  PROVE  /\ AddRelationship(rels, r) \in Seq(Rel)
         /\ Range(AddRelationship(rels, r)) = Range(rels) \cup {r}
         /\ Distinct(rels) => Distinct(AddRelationship(rels, r))
<1>1. CASE r \in Range(rels)
  BY <1>1 DEF AddRelationship
<1>2. CASE r \notin Range(rels)
  <2>1. PICK new, n : new = Append(rels, r) /\ n = Len(rels)
    OBVIOUS
  <2>2. /\ new \in Seq(Rel) /\ Len(new) = n + 1 /\ n \in Nat /\ new[n + 1] = r
        /\ \A i \in 1..n : new[i] = rels[i]
        /\ DOMAIN new = 1..(n + 1) /\ DOMAIN rels = 1..n
    BY <2>1
  <2>3. AddRelationship(rels, r) = new
    BY <1>2, <2>1 DEF AddRelationship
  <2>4. \A i \in 1..(n + 1) : i \in 1..n \/ i = n + 1
    BY <2>2
  <2>5. Range(new) = Range(rels) \cup {r}
    <3>1. Range(new) \subseteq Range(rels) \cup {r}
      BY <2>2, <2>4 DEF Range
    <3>2. \A i \in 1..n : i \in 1..(n + 1)
      BY <2>2
    <3>3. Range(rels) \subseteq Range(new)
      BY <2>2, <3>2 DEF Range
    <3>4. n + 1 \in 1..(n + 1)
      BY <2>2
    <3>5. r \in Range(new)
      BY <2>2, <3>4 DEF Range
    <3> QED
      BY <3>1, <3>3, <3>5
  <2>6. ASSUME Distinct(rels) PROVE Distinct(new)
    <3>1. \A i \in 1..n : rels[i] # r
      BY <1>2, <2>2 DEF Range
    <3>2. ASSUME NEW i \in 1..(n + 1), NEW j \in 1..(n + 1), new[i] = new[j]
          PROVE  i = j
      BY <2>2, <2>4, <2>6, <3>1, <3>2 DEF Distinct
    <3> QED
      BY <2>2, <3>2 DEF Distinct
  <2> QED
    BY <2>2, <2>3, <2>5, <2>6
<1> QED
  BY <1>1, <1>2

(* The relationships after the first k were added.                         *)
Adds(f, rels, more) ==
  /\ f[0] = rels
  /\ \A k \in 1..Len(more) : f[k] = AddRelationship(f[k - 1], more[k])
  /\ \A k \in 0..Len(more) : f[k] \in Seq(Rel)

LEMMA AddAllIs ==
  ASSUME NEW rels \in Seq(Rel), NEW more \in Seq(Rel)
  PROVE  \E f : Adds(f, rels, more) /\ AddAll(rels, more) = f[Len(more)]
<1>1. PICK n : n = Len(more) /\ n \in Nat
  OBVIOUS
<1>2. PICK steps : steps = [k \in 1..n |-> [s \in Seq(Rel) |-> AddRelationship(s, more[k])]]
  OBVIOUS
<1>3. \A k \in 1..n : more[k] \in Rel
  BY <1>1
<1>4. steps \in [1..n -> [Seq(Rel) -> Seq(Rel)]]
  BY <1>2, <1>3, AddOne
<1>5. PICK g \in [0..n -> Seq(Rel)] : Follows(g, n, rels, steps)
  BY ONLY <1>1, <1>4, rels \in Seq(Rel), RecursionExists
<1>6. \A k \in 1..n : k - 1 \in 0..n /\ k \in 0..n
  BY <1>1
<1>7. \A k \in 1..n : g[k] = AddRelationship(g[k - 1], more[k])
  BY <1>2, <1>5, <1>6 DEF Follows
<1>8. g = [k \in 0..n |-> IF k = 0 THEN rels ELSE AddRelationship(g[k - 1], more[k])]
  <2>1. \A k \in 0..n : k # 0 => k \in 1..n
    BY <1>1
  <2>. QED
    BY <2>1, <1>5, <1>7 DEF Follows
<1>9. PICK f : f = CHOOSE h : h = [k \in 0..n |-> IF k = 0 THEN rels ELSE AddRelationship(h[k - 1], more[k])]
  OBVIOUS
<1>10. f = [k \in 0..n |-> IF k = 0 THEN rels ELSE AddRelationship(f[k - 1], more[k])]
  BY <1>8, <1>9
<1>11. AddAll(rels, more) = f[n]
  BY <1>1, <1>9 DEF AddAll
<1>12. f[0] = rels /\ \A k \in 1..n : f[k] = AddRelationship(f[k - 1], more[k])
  <2>1. 0 \in 0..n /\ \A k \in 1..n : k \in 0..n /\ k # 0
    BY <1>1
  <2>. QED
    BY ONLY <1>10, <2>1
<1>13. \A k \in 0..n : f[k] \in Seq(Rel)
  <2>1. PICK typed : typed = [k \in 0..n |-> f[k] \in Seq(Rel)]
    OBVIOUS
  <2>2. typed[0]
    <3>1. 0 \in 0..n /\ f[0] \in Seq(Rel)
      BY <1>1, <1>12
    <3>. QED
      BY <2>1, <3>1
  <2>3. ASSUME NEW k \in 1..n, typed[k - 1]  PROVE typed[k]
    <3>1. f[k - 1] \in Seq(Rel)
      BY <1>6, <2>1, <2>3
    <3>. QED
      BY <1>3, <1>6, <1>12, <2>1, <3>1, AddOne
  <2>4. \A k \in 0..n : typed[k]
    BY ONLY <2>2, <2>3, <1>1, AllFollow
  <2>. QED
    BY <2>1, <2>4
<1>. QED
  BY <1>1, <1>11, <1>12, <1>13 DEF Adds

(* No relationship is twice in the result, and none is lost.               *)
LEMMA AddAllFacts ==
  ASSUME NEW rels \in Seq(Rel), NEW more \in Seq(Rel)
  PROVE  /\ AddAll(rels, more) \in Seq(Rel)
         /\ Range(AddAll(rels, more)) = Range(rels) \cup Range(more)
         /\ Distinct(rels) => Distinct(AddAll(rels, more))
<1>1. PICK f, n : Adds(f, rels, more) /\ AddAll(rels, more) = f[n] /\ n = Len(more) /\ n \in Nat
  BY AddAllIs
<1>2. PICK Good : Good = [k \in 0..n |-> /\ Range(f[k]) = Range(rels) \cup {more[i] : i \in 1..k}
                                         /\ Distinct(rels) => Distinct(f[k])]
  OBVIOUS
<1>3. Good[0]
  <2>1. 0 \in 0..n /\ f[0] = rels /\ 1..0 = {}
    BY <1>1 DEF Adds
  <2>. QED
    BY <1>2, <2>1
<1>4. ASSUME NEW k \in 1..n, Good[k - 1] PROVE Good[k]
  <2>1. k - 1 \in 0..n /\ k \in 0..n /\ 1..k = (1..(k - 1)) \cup {k}
    BY <1>1
  <2>2. /\ f[k - 1] \in Seq(Rel) /\ more[k] \in Rel
        /\ f[k] = AddRelationship(f[k - 1], more[k])
    BY <1>1, <2>1 DEF Adds
  <2>3. /\ Range(f[k - 1]) = Range(rels) \cup {more[i] : i \in 1..(k - 1)}
        /\ Distinct(rels) => Distinct(f[k - 1])
    BY <1>2, <1>4, <2>1
  <2>4. /\ Range(f[k]) = Range(f[k - 1]) \cup {more[k]}
        /\ Distinct(f[k - 1]) => Distinct(f[k])
    BY <2>2, AddOne
  <2>5. Range(f[k]) = Range(rels) \cup {more[i] : i \in 1..k}
    BY <2>1, <2>3, <2>4
  <2>. QED
    BY <1>2, <2>1, <2>3, <2>4, <2>5
<1>5. \A k \in 0..n : Good[k]
  BY ONLY <1>1, <1>3, <1>4, AllFollow
<1>6. n \in 0..n /\ Range(more) = {more[i] : i \in 1..n}
  BY <1>1 DEF Range
<1>. QED
  BY <1>1, <1>2, <1>5, <1>6 DEF Adds

LEMMA ConcatIs ==
  ASSUME NEW S, NEW a \in Seq(S), NEW b \in Seq(S)
  PROVE  /\ a \o b \in Seq(S) /\ Len(a \o b) = Len(a) + Len(b)
         /\ \A k \in 1..Len(a) : (a \o b)[k] = a[k]
         /\ \A k \in 1..Len(b) : (a \o b)[Len(a) + k] = b[k]
<1>1. a \o b \in Seq(S) /\ Len(a \o b) = Len(a) + Len(b)
  OBVIOUS
<1>2. \A k \in 1..Len(a) : (a \o b)[k] = a[k]
  OBVIOUS
<1>3. \A k \in 1..Len(b) : (a \o b)[Len(a) + k] = b[k]
  OBVIOUS
<1>. QED
  BY <1>1, <1>2, <1>3

LEMMA AddAllConcat ==
  ASSUME NEW rels \in Seq(Rel), NEW a \in Seq(Rel), NEW b \in Seq(Rel)
  PROVE  AddAll(rels, a \o b) = AddAll(AddAll(rels, a), b)
<1>a. PICK ab : ab = a \o b
  OBVIOUS
<1>b. PICK m, n : m = Len(a) /\ n = Len(b)
  OBVIOUS
<1>1. /\ ab = a \o b /\ m = Len(a) /\ n = Len(b) /\ m \in Nat /\ n \in Nat
      /\ ab \in Seq(Rel) /\ Len(ab) = m + n
      /\ \A k \in 1..m : ab[k] = a[k]
      /\ \A k \in 1..n : ab[m + k] = b[k]
  <2>1. /\ a \o b \in Seq(Rel) /\ Len(a \o b) = Len(a) + Len(b)
        /\ \A k \in 1..Len(a) : (a \o b)[k] = a[k]
        /\ \A k \in 1..Len(b) : (a \o b)[Len(a) + k] = b[k]
    BY ONLY a \in Seq(Rel), b \in Seq(Rel), ConcatIs
  <2>2. Len(a) \in Nat /\ Len(b) \in Nat
    OBVIOUS
  <2>. QED
    BY ONLY <1>a, <1>b, <2>1, <2>2
<1>2. PICK f : Adds(f, rels, ab) /\ AddAll(rels, ab) = f[m + n]
  <2>1. \E f : Adds(f, rels, ab) /\ AddAll(rels, ab) = f[Len(ab)]
    BY ONLY <1>1, rels \in Seq(Rel), AddAllIs
  <2>. QED
    BY <1>1, <2>1
<1>3. PICK g : Adds(g, rels, a) /\ AddAll(rels, a) = g[m]
  BY <1>1, AddAllIs
<1>4. g[m] \in Seq(Rel)
  BY <1>1, <1>3 DEF Adds
<1>5. PICK h : Adds(h, g[m], b) /\ AddAll(g[m], b) = h[n]
  <2>1. \E h : Adds(h, g[m], b) /\ AddAll(g[m], b) = h[Len(b)]
    BY ONLY Zenon, <1>4, b \in Seq(Rel), AddAllIs
  <2>. QED
    BY ONLY Zenon, <1>1, <2>1
<1>6. f[m] = g[m]
  <2>1. PICK same : same = [k \in 0..m |-> f[k] = g[k]]
    OBVIOUS
  <2>2. same[0]
    <3>1. 0 \in 0..m /\ f[0] = g[0]
      BY <1>1, <1>2, <1>3 DEF Adds
    <3>. QED
      BY <2>1, <3>1
  <2>3. ASSUME NEW k \in 1..m, same[k - 1] PROVE same[k]
    <3>1. k \in 0..m /\ k - 1 \in 0..m /\ k \in 1..(m + n)
      BY <1>1
    <3>2. f[k - 1] = g[k - 1]
      BY <2>1, <2>3, <3>1
    <3>3. f[k] = AddRelationship(f[k - 1], ab[k]) /\ g[k] = AddRelationship(g[k - 1], a[k])
      BY <1>1, <1>2, <1>3, <3>1 DEF Adds
    <3>. QED
      BY <1>1, <2>1, <3>1, <3>2, <3>3
  <2>4. \A k \in 0..m : same[k]
    BY ONLY <2>2, <2>3, <1>1, AllFollow
  <2>5. m \in 0..m
    BY <1>1
  <2>. QED
    BY <2>1, <2>4, <2>5
<1>7. f[m + n] = h[n]
  <2>1. PICK same : same = [k \in 0..n |-> f[m + k] = h[k]]
    OBVIOUS
  <2>2. same[0]
    <3>1. 0 \in 0..n /\ m + 0 = m /\ h[0] = g[m]
      BY <1>1, <1>5 DEF Adds
    <3>. QED
      BY <1>6, <2>1, <3>1
  <2>3. ASSUME NEW k \in 1..n, same[k - 1] PROVE same[k]
    <3>1. k \in 0..n /\ k - 1 \in 0..n /\ m + k \in 1..(m + n) /\ (m + k) - 1 = m + (k - 1)
      BY <1>1
    <3>2. f[m + (k - 1)] = h[k - 1]
      BY <2>1, <2>3, <3>1
    <3>3. f[m + k] = AddRelationship(f[(m + k) - 1], ab[m + k]) /\ h[k] = AddRelationship(h[k - 1], b[k])
      BY <1>1, <1>2, <1>5, <3>1 DEF Adds
    <3>4. f[m + k] = h[k]
      BY <1>1, <3>1, <3>2, <3>3
    <3>. QED
      BY <2>1, <3>1, <3>4
  <2>4. \A k \in 0..n : same[k]
    BY ONLY <2>2, <2>3, <1>1, AllFollow
  <2>5. n \in 0..n
    BY <1>1
  <2>. QED
    BY <2>1, <2>4, <2>5
<1>. QED
  BY <1>1, <1>2, <1>3, <1>5, <1>7

-----------------------------------------------------------------------------
IsPlain(rels) == rels \in Seq(Rel) /\ \A k \in 1..Len(rels) : rels[k].type # ModelType

(* No child keeps a relationship to a model.                               *)
PlainInv == \A n \in DOMAIN childs : IsPlain(childs[n])

LEMMA PlainInductive ==
  ASSUME DiscoveryTypeOK, PlainInv, [DiscoveryNext]_discVars
  PROVE  PlainInv'
<1>1. CASE UNCHANGED childs
  BY <1>1 DEF PlainInv
<1>2. CASE AddChildModel
  <2>1. PICK n : childs' = [m \in DOMAIN childs \cup {n} |-> IF m = n THEN <<>> ELSE childs[m]]
    BY <1>2 DEF AddChildModel, WithChild
  <2>2. IsPlain(<<>>)
    BY DEF IsPlain
  <2>3. ASSUME NEW m \in DOMAIN childs' PROVE IsPlain(childs'[m])
    BY <2>1, <2>2 DEF PlainInv
  <2>. QED
    BY <2>3 DEF PlainInv
<1>3. CASE VisitChildRel /\ KeepsChildRel
  <2>1. PICK n, r : n = ChildName /\ r = ChildRel
    OBVIOUS
  <2>2. n \in DOMAIN childs /\ r.type # ModelType /\ childs' = [childs EXCEPT ![n] = Append(@, r)]
    BY <1>3, <2>1 DEF VisitChildRel, KeepsChildRel, WithChildRel
  <2>3. r \in Rel
    <3>1. ChildName \in Names /\ rj \in DOMAIN pkg.rels[ChildName]
      BY <1>3 DEF VisitChildRel, ChildName, DiscoveryTypeOK
    <3>2. pkg.rels[ChildName] \in Seq(Rel)
      BY <3>1 DEF DiscoveryTypeOK, IsPackage, Sources
    <3>. QED
      BY <2>1, <3>1, <3>2 DEF ChildRel
  <2>4. PICK old : old = childs[n] /\ IsPlain(old)
    BY <2>2 DEF PlainInv
  <2>5. IsPlain(Append(old, r))
    BY <2>2, <2>3, <2>4 DEF IsPlain
  <2>6. ASSUME NEW m \in DOMAIN childs' PROVE IsPlain(childs'[m])
    BY <2>2, <2>4, <2>5 DEF PlainInv
  <2>. QED
    BY <2>6 DEF PlainInv
<1>4. CASE VisitChildRel /\ ~KeepsChildRel
  BY <1>1, <1>4 DEF VisitChildRel
<1>5. CASE DecodeAgain
  BY <1>5 DEF DecodeAgain, PlainInv
<1>. QED
  BY <1>1, <1>2, <1>3, <1>4, <1>5
  DEF DiscoveryNext, ProcessOPC, OpenPackage, VisitRootModel, VisitPackageAttachment, EndDiscovery,
      AddModelAttachment, SkipCoreRel, EndCore, NextChild, EndChildren, discVars, modelVars

(* The invariants of discovery together.                                   *)
DiscoveryInv ==
  DiscoveryTypeOK /\ EntriesInv /\ AttachInv /\ ReachInv /\ ExactInv /\ KeptInv /\ PlainInv

LEMMA DiscoveryInvStep ==
  ASSUME DiscoveryInv, [DiscoveryNext]_discVars
  PROVE  DiscoveryInv'
<1>1. DiscoveryTypeOK'
  BY DiscoveryTypeInductive DEF DiscoveryInv
<1>2. EntriesInv'
  BY <1>1, EntriesInductive DEF DiscoveryInv
<1>3. AttachInv'
  BY <1>2, AttachInductive DEF DiscoveryInv, EntriesInv
<1>4. ReachInv'
  BY ReachInductive DEF DiscoveryInv
<1>5. ExactInv'
  BY ExactInductive DEF DiscoveryInv
<1>6. KeptInv'
  BY KeptInductive DEF DiscoveryInv
<1>7. PlainInv'
  BY PlainInductive DEF DiscoveryInv
<1>. QED
  BY <1>1, <1>2, <1>3, <1>4, <1>5, <1>6, <1>7 DEF DiscoveryInv

(* A Decoder that has not started, and the model it is to fill.            *)
NotStarted ==
  /\ IsPackage(pkg) /\ calls \in Nat
  /\ phase = "closed" /\ ri = 1 /\ rj = 1 /\ ci = 1
  /\ rootFile = NoPart /\ nonRootModels = <<>>
  /\ path = NoPart /\ childs = [n \in {} |-> <<>>]
  /\ attachments = <<>> /\ relationships = <<>> /\ rootRelationships = <<>>

LEMMA DiscoveryInvInit == NotStarted => DiscoveryInv
<1>. SUFFICES ASSUME NotStarted PROVE DiscoveryInv
  OBVIOUS
<1>1. DiscoveryTypeOK
  BY DEF NotStarted, DiscoveryTypeOK, Phases
<1>2. EntriesInv
  BY DEF NotStarted, EntriesInv, AtRootRel
<1>3. AttachInv
  BY DEF NotStarted, AttachInv, AtRootRel, AttachmentsDistinct, KeptRelationshipsAreAttached, Covers
<1>4. ReachInv
  BY DEF NotStarted, ReachInv, NoChildRels
<1>5. ExactInv
  BY DEF NotStarted, ExactInv
<1>6. KeptInv
  <2>1. pkg.rels[PackageRoot] \in Seq(Rel)
    BY DEF NotStarted, IsPackage, Sources
  <2>2. KeepsSoFar(ResolvableUpTo(PackageRoot, pkg.rels[PackageRoot]), PackageRoot, pkg.rels[PackageRoot])
    BY ONLY <2>1, ResolvableIs
  <2>3. 1 - 1 = 0 /\ 1 <= Len(pkg.rels[PackageRoot]) + 1
    BY <2>1
  <2>. QED
    BY <2>2, <2>3 DEF NotStarted, KeptInv, KeepsSoFar
<1>7. PlainInv
  BY DEF NotStarted, PlainInv
<1>. QED
  BY <1>1, <1>2, <1>3, <1>4, <1>5, <1>6, <1>7 DEF DiscoveryInv

-----------------------------------------------------------------------------
(* The order in which a map is walked has each of its keys once.           *)
LEMMA OrderIs ==
  ASSUME NEW S, IsFiniteSet(S), NEW order \in SetToSeqs(S)
  PROVE  /\ order \in Seq(S) /\ Range(order) = S
         /\ \A i, j \in DOMAIN order : order[i] = order[j] => i = j
<1>1. PICK n : n = Cardinality(S) /\ n \in Nat
  BY FS_CardinalityType
<1>2. order \in [1..n -> S] /\ \A i, j \in 1..n : i # j => order[i] # order[j]
  BY <1>1 DEF SetToSeqs
<1>3. order \in Injection(1..n, S)
  BY <1>2 DEF Injection, IsInjective
<1>4. Cardinality(1..n) = n
  BY <1>1, FS_Interval
<1>5. order \in Surjection(1..n, S)
  BY <1>1, <1>3, <1>4, FS_Injection
<1>6. \A s \in S : \E i \in 1..n : order[i] = s
  BY <1>5 DEF Surjection
<1>7. order \in Seq(S) /\ DOMAIN order = 1..n
  BY ONLY <1>1, <1>2
<1>. QED
  BY <1>2, <1>6, <1>7 DEF Range

PartRec == [name : Names, rels : Seq(Rel)]

NamesOf(parts) == {parts[k].name : k \in DOMAIN parts}
HasPart(parts, name, rels) == \E k \in DOMAIN parts : parts[k] = Part(name, rels)

(* The parts of a package, of which no two have names the zip writer takes *)
(* for the same, and none has a relationship twice.                        *)
IsParts(parts) ==
  /\ parts \in Seq(PartRec)
  /\ \A j, k \in DOMAIN parts : SameName(parts[j].name, parts[k].name) => j = k
  /\ \A k \in DOMAIN parts : Distinct(parts[k].rels)

LEMMA OnePartMore ==
  ASSUME NEW parts, IsParts(parts), NEW name \in Names,
         \A k \in DOMAIN parts : ~SameName(parts[k].name, name),
         NEW more, more = Append(parts, Part(name, <<>>))
  PROVE  /\ IsParts(more)
         /\ NamesOf(more) = NamesOf(parts) \cup {name}
         /\ HasPart(more, name, <<>>)
         /\ \A n, rels : HasPart(parts, n, rels) => HasPart(more, n, rels)
<1>1. PICK p, l : p = Part(name, <<>>) /\ l = Len(parts) /\ l \in Nat
  BY DEF IsParts
<1>2. p \in PartRec /\ p.name = name /\ p.rels = <<>>
  BY <1>1 DEF Part, PartRec
<1>3. /\ more \in Seq(PartRec) /\ DOMAIN more = 1..(l + 1) /\ more[l + 1] = p
      /\ DOMAIN parts = 1..l /\ \A k \in 1..l : more[k] = parts[k]
  BY <1>1, <1>2 DEF IsParts
<1>4. /\ \A k \in 1..(l + 1) : k \in 1..l \/ k = l + 1
      /\ \A k \in 1..l : k \in 1..(l + 1)
      /\ l + 1 \in 1..(l + 1)
  BY <1>1
<1>5. IsParts(more)
  <2>1. ASSUME NEW j \in 1..(l + 1), NEW k \in 1..(l + 1), SameName(more[j].name, more[k].name)
        PROVE  j = k
    BY <1>2, <1>3, <1>4, <2>1 DEF IsParts, SameName
  <2>2. \A k \in 1..(l + 1) : Distinct(more[k].rels)
    BY <1>2, <1>3, <1>4 DEF IsParts, Distinct
  <2>. QED
    BY <1>3, <2>1, <2>2 DEF IsParts
<1>6. NamesOf(more) = NamesOf(parts) \cup {name}
  BY <1>2, <1>3, <1>4 DEF NamesOf
<1>7. HasPart(more, name, <<>>)
  BY <1>1, <1>3, <1>4 DEF HasPart
<1>8. \A n, rels : HasPart(parts, n, rels) => HasPart(more, n, rels)
  BY <1>3, <1>4 DEF HasPart
<1>. QED
  BY <1>5, <1>6, <1>7, <1>8

(* In more, the part gets its relationships; the others keep theirs.       *)
GetsRels(parts, more, name, rels) ==
  /\ IsParts(more)
  /\ NamesOf(more) = NamesOf(parts)
  /\ HasPart(more, name, rels)
  /\ \A n, rs : n # name /\ HasPart(parts, n, rs) => HasPart(more, n, rs)

(* The last part, of which nothing was known, gets its relationships.      *)
LEMMA LastPartRelated ==
  ASSUME NEW zipped \in Seq(PartRec), NEW name \in Names, NEW rels \in Seq(Rel), Distinct(rels),
         NEW parts, parts = zipped \o <<Part(name, <<>>)>>, IsParts(parts),
         NEW more, more = zipped \o <<Part(name, rels)>>
  PROVE  GetsRels(parts, more, name, rels)
<1>a. PICK p, q : p = Part(name, <<>>) /\ q = Part(name, rels)
  OBVIOUS
<1>b. PICK l \in Nat : l = Len(zipped)
  OBVIOUS
<1>1. p = Part(name, <<>>) /\ q = Part(name, rels) /\ l = Len(zipped) /\ l \in Nat
  BY <1>a, <1>b
<1>2. p \in PartRec /\ p.name = name /\ q \in PartRec /\ q.name = name /\ q.rels = rels
  BY <1>1 DEF Part, PartRec
<1>3. /\ parts = Append(zipped, p) /\ more = Append(zipped, q)
  BY <1>1, <1>2
<1>4. /\ more \in Seq(PartRec) /\ DOMAIN more = 1..(l + 1) /\ more[l + 1] = q
      /\ DOMAIN parts = 1..(l + 1) /\ parts[l + 1] = p
      /\ \A k \in 1..l : more[k] = parts[k]
  BY <1>1, <1>2, <1>3
<1>5. /\ \A k \in 1..(l + 1) : k \in 1..l \/ k = l + 1
      /\ \A k \in 1..l : k \in 1..(l + 1)
      /\ l + 1 \in 1..(l + 1)
  BY <1>1
<1>6. \A k \in 1..(l + 1) : more[k].name = parts[k].name
  BY <1>2, <1>4, <1>5
<1>7. IsParts(more)
  <2>1. \A k \in 1..(l + 1) : Distinct(more[k].rels)
    BY <1>2, <1>4, <1>5 DEF IsParts
  <2>2. ASSUME NEW j \in 1..(l + 1), NEW k \in 1..(l + 1), SameName(more[j].name, more[k].name)
        PROVE  j = k
    <3>1. SameName(parts[j].name, parts[k].name)
      BY <1>6, <2>2
    <3>. QED
      BY <1>4, <3>1 DEF IsParts
  <2>. QED
    BY <1>4, <2>1, <2>2 DEF IsParts
<1>8. NamesOf(more) = NamesOf(parts)
  BY ONLY Zenon, <1>4, <1>6 DEF NamesOf
<1>9. HasPart(more, name, rels)
  BY <1>1, <1>4, <1>5 DEF HasPart
<1>10. ASSUME NEW n, NEW rs, n # name, HasPart(parts, n, rs) PROVE HasPart(more, n, rs)
  <2>1. PICK k \in 1..(l + 1) : parts[k] = Part(n, rs)
    BY <1>4, <1>10 DEF HasPart
  <2>2. Part(n, rs).name = n
    BY DEF Part
  <2>3. k \in 1..l
    BY <1>2, <1>4, <1>5, <1>10, <2>1, <2>2
  <2>. QED
    BY <1>4, <2>1, <2>3, <1>5 DEF HasPart
<1>. QED
  BY <1>7, <1>8, <1>9, <1>10 DEF GetsRels

-----------------------------------------------------------------------------
ContentOK ==
  /\ content.thumbnail \in Targets \cup {NoPart}
  /\ content.objects \in [Names -> Seq(Targets)]

(* What a child part gets.                                                 *)
ChildNeeds(n) == childs[n] \o ThumbnailsOf(n)

LEMMA ThumbnailsTyped ==
  ASSUME ContentOK, NEW n \in Names
  PROVE  ThumbnailsOf(n) \in Seq(Rel)
<1>1. PICK targets : targets = content.objects[n] /\ targets \in Seq(Targets)
  BY DEF ContentOK
<1>2. \A k \in DOMAIN targets : Thumbnail(targets[k]) \in Rel
  BY <1>1 DEF Thumbnail, Rel, RelTypes
<1>3. ThumbnailsOf(n) = [k \in DOMAIN targets |-> Thumbnail(targets[k])]
  BY <1>1 DEF ThumbnailsOf
<1>4. PICK l : l = Len(targets) /\ l \in Nat /\ DOMAIN targets = 1..l
  BY <1>1
<1>5. [k \in 1..l |-> Thumbnail(targets[k])] \in [1..l -> Rel]
  BY <1>2, <1>4
<1>6. \A s \in [1..l -> Rel] : s \in Seq(Rel)
  BY <1>4
<1>. QED
  BY <1>3, <1>4, <1>5, <1>6

ModelRels(order) == [k \in DOMAIN order |-> ModelRel(order[k])]

LEMMA ModelRelsTyped ==
  ASSUME NEW order \in Seq(Names)
  PROVE  ModelRels(order) \in Seq(Rel)
<1>1. \A k \in DOMAIN order : ModelRel(order[k]) \in Rel
  BY WriterAssumption DEF ModelRel, Rel, RelTypes
<1>2. PICK l : l = Len(order) /\ l \in Nat /\ DOMAIN order = 1..l
  OBVIOUS
<1>3. [k \in 1..l |-> ModelRel(order[k])] \in [1..l -> Rel]
  BY <1>1, <1>2
<1>4. \A s \in [1..l -> Rel] : s \in Seq(Rel)
  BY <1>2
<1>. QED
  BY <1>2, <1>3, <1>4 DEF ModelRels

LEMMA ChildsAre ==
  ASSUME DiscoveryInv
  PROVE  /\ DOMAIN childs \subseteq Names /\ IsFiniteSet(DOMAIN childs)
         /\ \A n \in DOMAIN childs : childs[n] \in Seq(Rel)
<1>1. DOMAIN childs \subseteq Range(nonRootModels)
  BY DEF DiscoveryInv, ExactInv
<1>2. PICK l : l \in Nat /\ l = Len(nonRootModels) /\ DOMAIN nonRootModels = 1..l
  BY DEF DiscoveryInv, DiscoveryTypeOK
<1>3. IsFiniteSet(Range(nonRootModels))
  <2>1. IsFiniteSet(1..l)
    BY <1>2, FS_Interval
  <2>2. nonRootModels \in Surjection(1..l, Range(nonRootModels))
    <3>1. nonRootModels \in [1..l -> Range(nonRootModels)]
      BY <1>2 DEF Range, DiscoveryInv, DiscoveryTypeOK
    <3>. QED
      BY <1>2, <3>1 DEF Surjection, Range
  <2>. QED
    BY <2>1, <2>2, FS_Surjection
<1>. QED
  BY <1>1, <1>3, FS_Subset DEF DiscoveryInv, DiscoveryTypeOK

LEMMA NeedsTyped ==
  ASSUME DiscoveryInv, phase = "found", ContentOK
  PROVE  /\ path \in Names
         /\ PackageRelationships \in Seq(Rel)
         /\ \A n \in DOMAIN childs : ChildNeeds(n) \in Seq(Rel)
         /\ \A order \in SetToSeqs(DOMAIN childs) : RootRelationships(order) \in Seq(Rel)
<1>1. path \in Names /\ rootRelationships \in Seq(Rel) /\ relationships \in Seq(Rel)
  BY DEF DiscoveryInv, DiscoveryTypeOK
<1>2. PackageRelationships \in Seq(Rel)
  <2>1. ModelRel(path) \in Rel
    BY <1>1, WriterAssumption DEF ModelRel, Rel, RelTypes
  <2>2. content.thumbnail # NoPart => Thumbnail(content.thumbnail) \in Rel
    BY DEF ContentOK, Thumbnail, Rel, RelTypes
  <2>. QED
    BY <1>1, <2>1, <2>2 DEF PackageRelationships
<1>3. ASSUME NEW n \in DOMAIN childs PROVE ChildNeeds(n) \in Seq(Rel)
  <2>1. childs[n] \in Seq(Rel) /\ ThumbnailsOf(n) \in Seq(Rel)
    BY ChildsAre, ThumbnailsTyped
  <2>. QED
    BY <2>1 DEF ChildNeeds
<1>4. ASSUME NEW order \in SetToSeqs(DOMAIN childs) PROVE RootRelationships(order) \in Seq(Rel)
  <2>1. order \in Seq(DOMAIN childs)
    BY ChildsAre, OrderIs
  <2>2. order \in Seq(Names)
    BY <2>1, ChildsAre
  <2>3. ModelRels(order) \in Seq(Rel) /\ ThumbnailsOf(path) \in Seq(Rel)
    BY <1>1, <2>2, ModelRelsTyped, ThumbnailsTyped
  <2>4. RootRelationships(order) = relationships \o ModelRels(order) \o ThumbnailsOf(path)
    BY DEF RootRelationships, ModelRels
  <2>. QED
    BY <1>1, <2>3, <2>4
<1>. QED
  BY <1>1, <1>2, <1>3, <1>4

-----------------------------------------------------------------------------
(***************************************************************************)
(* While the model is written it does not change.                          *)
(***************************************************************************)
Source ==
  /\ DiscoveryInv /\ phase = "found" /\ before = TheModel /\ ContentOK
  /\ {path} \cup Range(nonRootModels) \subseteq pkg.readable

Parts == zip \o current

(* What has been stored, and what the part being written will get.         *)
PartsInv ==
  zip \in Seq(PartRec) /\ current \in Seq(PartRec) /\ IsParts(Parts)

AttachmentsInv ==
  step = "attachments" =>
    /\ wi \in Nat \ {0} /\ wi <= Len(attachments) + 1 /\ topRels = <<>>
    /\ NamesOf(Parts) = {attachments[i] : i \in 1..(wi - 1)}

RootInv ==
  step = "root" =>
    /\ left = DOMAIN childs /\ current = <<Part(path, <<>>)>> /\ writing = path
    /\ \E order \in SetToSeqs(DOMAIN childs) : pending = RootRelationships(order)

ModelPartsInv ==
  step \in {"root", "children", "child", "nil"} =>
    /\ topRels = AddAll(<<>>, PackageRelationships)
    /\ left \subseteq DOMAIN childs
    /\ NamesOf(Parts) = Range(attachments) \cup {path} \cup (DOMAIN childs \ left)
    /\ \A a \in Range(attachments) : \A m \in {path} \cup (DOMAIN childs \ left) : ~SameName(a, m)

RelatedInv ==
  step \in {"children", "child", "nil"} =>
    /\ \E order \in SetToSeqs(DOMAIN childs) :
         HasPart(Parts, path, AddAll(<<>>, RootRelationships(order)))
    /\ \A n \in DOMAIN childs \ left :
         (step = "child" /\ n = writing) \/ HasPart(Parts, n, AddAll(<<>>, ChildNeeds(n)))

ChildInv ==
  step = "child" =>
    /\ writing \in DOMAIN childs \ left /\ writing # path
    /\ current = <<Part(writing, <<>>)>> /\ pending = ChildNeeds(writing)

ClosedInv == step = "nil" => left = {} /\ current = <<>>

Progress ==
  PartsInv /\ AttachmentsInv /\ RootInv /\ ModelPartsInv /\ RelatedInv /\ ChildInv /\ ClosedInv

LEMMA SourceStays ==
  ASSUME Source, UNCHANGED <<discVars, content, before>>
  PROVE  /\ Source'
         /\ UNCHANGED <<path, childs, attachments>> /\ UNCHANGED PackageRelationships
         /\ \A n : UNCHANGED ChildNeeds(n)
         /\ \A order : UNCHANGED RootRelationships(order)
<1>1. DiscoveryInv'
  BY DiscoveryInvStep DEF Source
<1>2. UNCHANGED <<pkg, phase, path, childs, attachments, relationships, rootRelationships, nonRootModels>>
  BY DEF discVars, cursors, modelVars
<1>3. Source'
  BY <1>1, <1>2 DEF Source, TheModel, ContentOK
<1>4. UNCHANGED PackageRelationships
  BY <1>2 DEF PackageRelationships
<1>5. \A n : UNCHANGED ThumbnailsOf(n)
  BY <1>2 DEF ThumbnailsOf
<1>6. \A n : UNCHANGED ChildNeeds(n)
  BY <1>2, <1>5 DEF ChildNeeds
<1>7. \A order : UNCHANGED RootRelationships(order)
  BY <1>2, <1>5 DEF RootRelationships
<1>. QED
  BY <1>2, <1>3, <1>4, <1>6, <1>7

(* Creating a part.                                                        *)
LEMMA CreateIs ==
  ASSUME PartsInv, NEW name \in Names, CanCreate(name), Create(name)
  PROVE  /\ PartsInv'
         /\ current' = <<Part(name, <<>>)>>
         /\ NamesOf(Parts') = NamesOf(Parts) \cup {name}
         /\ \A n, rels : HasPart(Parts, n, rels) => HasPart(Parts', n, rels)
         /\ \A n \in NamesOf(Parts) : ~SameName(n, name)
<1>1. /\ zip \in Seq(PartRec) /\ current \in Seq(PartRec) /\ IsParts(Parts) /\ Parts \in Seq(PartRec)
  BY DEF PartsInv, IsParts
<1>2. Part(name, <<>>) \in PartRec
  BY DEF Part, PartRec
<1>3. /\ zip' = Parts /\ current' = <<Part(name, <<>>)>> /\ Parts' = Append(Parts, Part(name, <<>>))
      /\ zip' \in Seq(PartRec) /\ current' \in Seq(PartRec)
  BY <1>1, <1>2 DEF Create, Parts
<1>4. \A k \in DOMAIN Parts : ~SameName(Parts[k].name, name)
  BY DEF CanCreate, Parts, Range
<1>5. /\ IsParts(Parts')
      /\ NamesOf(Parts') = NamesOf(Parts) \cup {name}
      /\ \A n, rels : HasPart(Parts, n, rels) => HasPart(Parts', n, rels)
  BY ONLY <1>1, <1>3, <1>4, name \in Names, OnePartMore
<1>. QED
  BY <1>3, <1>4, <1>5 DEF PartsInv, NamesOf

(* The part that is written last gets its relationships.                   *)
LEMMA RelatedIs ==
  ASSUME PartsInv, NEW name \in Names, NEW rels \in Seq(Rel),
         current = <<Part(name, <<>>)>>, AddToPart(name, rels), UNCHANGED zip
  PROVE  /\ PartsInv'
         /\ NamesOf(Parts') = NamesOf(Parts)
         /\ HasPart(Parts', name, AddAll(<<>>, rels))
         /\ \A n, rs : n # name /\ HasPart(Parts, n, rs) => HasPart(Parts', n, rs)
<1>1. PICK all : all = AddAll(<<>>, rels)
  OBVIOUS
<1>2. all \in Seq(Rel) /\ Distinct(all)
  <2>1. <<>> \in Seq(Rel) /\ Distinct(<<>>)
    BY DEF Distinct
  <2>. QED
    BY <1>1, <2>1, AddAllFacts
<1>3. current' = <<Part(name, all)>>
  <2>1. Part(name, <<>>).name = name /\ Part(name, <<>>).rels = <<>>
    BY DEF Part
  <2>2. DOMAIN current = {1} /\ current[1] = Part(name, <<>>)
    OBVIOUS
  <2>3. current' = [k \in {1} |-> Part(name, all)]
    BY <1>1, <2>1, <2>2 DEF AddToPart
  <2>. QED
    BY <2>3
<1>4. Part(name, all) \in PartRec
  BY <1>2 DEF Part, PartRec
<1>5. /\ Parts = zip \o <<Part(name, <<>>)>> /\ Parts' = zip \o <<Part(name, all)>>
      /\ zip \in Seq(PartRec) /\ IsParts(Parts) /\ zip' = zip
  BY <1>3 DEF Parts, PartsInv
<1>6. PICK zipped : zipped = zip
  OBVIOUS
<1>7. PICK parts : parts = Parts
  OBVIOUS
<1>8. PICK more : more = zipped \o <<Part(name, all)>>
  OBVIOUS
<1>9. zipped \in Seq(PartRec) /\ parts = zipped \o <<Part(name, <<>>)>> /\ IsParts(parts) /\ more = Parts'
  BY <1>5, <1>6, <1>7, <1>8
<1>10. GetsRels(parts, more, name, all)
  BY ONLY <1>2, <1>8, <1>9, name \in Names, LastPartRelated
<1>11. zip' \in Seq(PartRec) /\ current' \in Seq(PartRec)
  BY <1>3, <1>4, <1>5
<1>12. PartsInv'
  BY <1>9, <1>10, <1>11 DEF PartsInv, GetsRels
<1>. QED
  BY <1>1, <1>7, <1>9, <1>10, <1>12 DEF GetsRels

-----------------------------------------------------------------------------
Moving == {"attachments", "root", "children", "child"}

LEMMA StartEncodeProgress ==
  ASSUME DiscoveryInv, ContentOK, StartEncode,
         wi = 1, zip = <<>>, current = <<>>, topRels = <<>>
  PROVE  Source' /\ Progress'
<1>1. UNCHANGED <<discVars, content, wi, zip, current, topRels>> /\ step' = "attachments" /\ before' = TheModel
  BY DEF StartEncode
<1>2. DiscoveryInv'
  BY <1>1, DiscoveryInvStep
<1>3. UNCHANGED <<pkg, phase, path, childs, attachments, relationships, rootRelationships, nonRootModels>>
  BY <1>1 DEF discVars, cursors, modelVars
<1>4. Source'
  BY <1>1, <1>2, <1>3 DEF Source, TheModel, ContentOK, StartEncode
<1>5. Parts' = <<>> /\ zip' = <<>> /\ current' = <<>>
  BY <1>1 DEF Parts
<1>6. PartsInv'
  BY <1>5 DEF PartsInv, IsParts
<1>7. AttachmentsInv'
  <2>1. Len(attachments) \in Nat
    BY DEF DiscoveryInv, DiscoveryTypeOK
  <2>2. 1 <= Len(attachments') + 1 /\ 1..(1 - 1) = {}
    BY <1>3, <2>1
  <2>3. NamesOf(Parts') = {}
    BY <1>5 DEF NamesOf
  <2>. QED
    BY <1>1, <1>5, <2>2, <2>3 DEF AttachmentsInv
<1>8. RootInv' /\ ModelPartsInv' /\ RelatedInv' /\ ChildInv' /\ ClosedInv'
  BY <1>1 DEF RootInv, ModelPartsInv, RelatedInv, ChildInv, ClosedInv
<1>. QED
  BY <1>4, <1>6, <1>7, <1>8 DEF Progress

LEMMA WriteAttachmentProgress ==
  ASSUME Source, Progress, WriteAttachment
  PROVE  Progress'
<1>1. /\ step = "attachments" /\ step' = "attachments" /\ UNCHANGED <<discVars, content, before>>
      /\ wi \in DOMAIN attachments /\ CanCreate(attachments[wi]) /\ Create(attachments[wi])
      /\ wi' = wi + 1 /\ UNCHANGED topRels
  BY DEF WriteAttachment, GoesOn
<1>2. attachments' = attachments
  BY <1>1 DEF discVars, modelVars
<1>3. attachments \in Seq(Names) /\ attachments[wi] \in Names
  BY <1>1 DEF Source, DiscoveryInv, DiscoveryTypeOK
<1>4. PICK name : name = attachments[wi] /\ name \in Names
  BY <1>3
<1>5. PartsInv /\ CanCreate(name) /\ Create(name)
  BY <1>1, <1>4 DEF Progress
<1>6. PartsInv' /\ NamesOf(Parts') = NamesOf(Parts) \cup {name}
  BY ONLY <1>4, <1>5, CreateIs
<1>7. AttachmentsInv'
  <2>1. PICK l : l = Len(attachments) /\ l \in Nat /\ DOMAIN attachments = 1..l
    BY <1>3
  <2>2. wi \in Nat \ {0} /\ wi <= l /\ topRels = <<>>
        /\ NamesOf(Parts) = {attachments[i] : i \in 1..(wi - 1)}
    BY <1>1, <2>1 DEF Progress, AttachmentsInv
  <2>3. wi + 1 \in Nat \ {0} /\ wi + 1 <= l + 1 /\ 1..((wi + 1) - 1) = (1..(wi - 1)) \cup {wi}
    BY <2>1, <2>2
  <2>4. NamesOf(Parts') = {attachments[i] : i \in 1..((wi + 1) - 1)}
    BY <1>4, <1>6, <2>2, <2>3
  <2>. QED
    BY <1>1, <1>2, <2>1, <2>2, <2>3, <2>4 DEF AttachmentsInv
<1>8. RootInv' /\ ModelPartsInv' /\ RelatedInv' /\ ChildInv' /\ ClosedInv'
  BY <1>1 DEF RootInv, ModelPartsInv, RelatedInv, ChildInv, ClosedInv
<1>. QED
  BY <1>6, <1>7, <1>8 DEF Progress

LEMMA CreateRootProgress ==
  ASSUME Source, Progress, CreateRoot
  PROVE  Progress'
<1>1. /\ step = "attachments" /\ step' = "root" /\ UNCHANGED <<discVars, content, before>>
      /\ wi \notin DOMAIN attachments /\ CanCreate(path) /\ Create(path)
      /\ topRels' = AddAll(topRels, PackageRelationships)
      /\ writing' = path /\ left' = DOMAIN childs
      /\ \E order \in SetToSeqs(DOMAIN childs) : pending' = RootRelationships(order)
  BY DEF CreateRoot, GoesOn
<1>2. /\ Source' /\ UNCHANGED <<path, childs, attachments>> /\ UNCHANGED PackageRelationships
      /\ \A order : UNCHANGED RootRelationships(order)
  BY <1>1, SourceStays
<1>3. path \in Names /\ attachments \in Seq(Names)
  BY NeedsTyped DEF Source, DiscoveryInv, DiscoveryTypeOK
<1>4. PICK name : name = path
  OBVIOUS
<1>5. PartsInv /\ CanCreate(name) /\ Create(name) /\ name \in Names
  BY <1>1, <1>3, <1>4 DEF Progress
<1>6. /\ PartsInv' /\ current' = <<Part(name, <<>>)>>
      /\ NamesOf(Parts') = NamesOf(Parts) \cup {name}
      /\ \A n \in NamesOf(Parts) : ~SameName(n, name)
  BY ONLY <1>5, CreateIs
<1>7. NamesOf(Parts) = Range(attachments) /\ topRels = <<>>
  <2>1. PICK l : l = Len(attachments) /\ l \in Nat /\ DOMAIN attachments = 1..l
    BY <1>3
  <2>2. wi \in Nat \ {0} /\ wi <= l + 1 /\ topRels = <<>>
        /\ NamesOf(Parts) = {attachments[i] : i \in 1..(wi - 1)}
    BY <1>1, <2>1 DEF Progress, AttachmentsInv
  <2>3. 1..(wi - 1) = 1..l
    BY <1>1, <2>1, <2>2
  <2>. QED
    BY <2>1, <2>2, <2>3 DEF Range
<1>8. RootInv'
  BY <1>1, <1>2, <1>4, <1>6 DEF RootInv
<1>9. ModelPartsInv'
  <2>1. DOMAIN childs \ DOMAIN childs = {}
    OBVIOUS
  <2>2. NamesOf(Parts') = Range(attachments') \cup {path'} \cup (DOMAIN childs' \ left')
    BY <1>1, <1>2, <1>4, <1>6, <1>7, <2>1
  <2>3. \A a \in Range(attachments') : \A m \in {path'} \cup (DOMAIN childs' \ left') : ~SameName(a, m)
    BY <1>1, <1>2, <1>4, <1>6, <1>7, <2>1
  <2>4. left' \subseteq DOMAIN childs'
    BY <1>1, <1>2
  <2>5. topRels' = AddAll(<<>>, PackageRelationships')
    BY <1>1, <1>2, <1>7
  <2>. QED
    BY <2>2, <2>3, <2>4, <2>5 DEF ModelPartsInv
<1>10. AttachmentsInv' /\ RelatedInv' /\ ChildInv' /\ ClosedInv'
  BY <1>1 DEF AttachmentsInv, RelatedInv, ChildInv, ClosedInv
<1>. QED
  BY <1>6, <1>8, <1>9, <1>10 DEF Progress

LEMMA AddRootRelationshipsProgress ==
  ASSUME Source, Progress, AddRootRelationships
  PROVE  Progress'
<1>1. /\ step = "root" /\ step' = "children" /\ UNCHANGED <<discVars, content, before>>
      /\ AddToPart(writing, pending) /\ UNCHANGED <<left, zip, topRels>>
  BY DEF AddRootRelationships, GoesOn
<1>2. /\ Source' /\ UNCHANGED <<path, childs, attachments>> /\ UNCHANGED PackageRelationships
      /\ \A order : UNCHANGED RootRelationships(order)
  BY <1>1, SourceStays
<1>3. PICK order \in SetToSeqs(DOMAIN childs) : pending = RootRelationships(order)
  BY <1>1 DEF Progress, RootInv
<1>4. path \in Names /\ pending \in Seq(Rel)
  BY <1>3, NeedsTyped DEF Source
<1>5. /\ left = DOMAIN childs /\ current = <<Part(path, <<>>)>> /\ writing = path /\ PartsInv
  BY <1>1 DEF Progress, RootInv
<1>6. PICK name, rels : name = path /\ rels = pending
  OBVIOUS
<1>7. /\ PartsInv' /\ NamesOf(Parts') = NamesOf(Parts)
      /\ HasPart(Parts', name, AddAll(<<>>, rels))
  <2>1. /\ PartsInv /\ name \in Names /\ rels \in Seq(Rel) /\ current = <<Part(name, <<>>)>>
        /\ AddToPart(name, rels) /\ UNCHANGED zip
    BY <1>1, <1>4, <1>5, <1>6
  <2>. QED
    BY ONLY <2>1, RelatedIs
<1>8. RelatedInv'
  <2>1. DOMAIN childs' \ left' = {}
    BY <1>1, <1>2, <1>5
  <2>2. order \in SetToSeqs(DOMAIN childs') /\ RootRelationships(order)' = rels
    BY <1>2, <1>3, <1>6
  <2>3. HasPart(Parts', path', AddAll(<<>>, RootRelationships(order)'))
    BY <1>2, <1>6, <1>7, <2>2
  <2>. QED
    BY <2>1, <2>2, <2>3 DEF RelatedInv
<1>9. ModelPartsInv'
  <2>1. step \in {"root", "children", "child", "nil"}
    BY <1>1
  <2>. QED
    BY <1>1, <1>2, <1>7, <2>1 DEF ModelPartsInv, Progress
<1>10. AttachmentsInv' /\ RootInv' /\ ChildInv' /\ ClosedInv'
  BY <1>1 DEF AttachmentsInv, RootInv, ChildInv, ClosedInv
<1>. QED
  BY <1>7, <1>8, <1>9, <1>10 DEF Progress

LEMMA CreateChildProgress ==
  ASSUME Source, Progress, NEW n \in left, CreateChild(n)
  PROVE  Progress'
<1>1. /\ step = "children" /\ step' = "child" /\ UNCHANGED <<discVars, content, before>>
      /\ CanCreate(Resolve[path][n]) /\ Create(Resolve[path][n]) /\ writing' = Resolve[path][n]
      /\ pending' = ChildNeeds(n) /\ left' = left \ {n} /\ UNCHANGED topRels
  BY DEF CreateChild, GoesOn, ChildNeeds
<1>2. /\ Source' /\ UNCHANGED <<path, childs, attachments>> /\ UNCHANGED PackageRelationships
      /\ \A order : UNCHANGED RootRelationships(order)
      /\ \A m : UNCHANGED ChildNeeds(m)
  BY <1>1, SourceStays
<1>3. left \subseteq DOMAIN childs /\ n \in Names /\ path \in Names
  <2>1. left \subseteq DOMAIN childs
    BY <1>1 DEF Progress, ModelPartsInv
  <2>2. DOMAIN childs \subseteq Names /\ path \in Names
    BY ChildsAre, NeedsTyped DEF Source
  <2>. QED
    BY <2>1, <2>2
<1>4. Resolve[path][n] = n
  BY <1>3, WriterAssumption DEF Sources
<1>5. PartsInv /\ CanCreate(n) /\ Create(n) /\ writing' = n
  BY <1>1, <1>4 DEF Progress
<1>6. /\ PartsInv' /\ current' = <<Part(n, <<>>)>>
      /\ NamesOf(Parts') = NamesOf(Parts) \cup {n}
      /\ \A m, rels : HasPart(Parts, m, rels) => HasPart(Parts', m, rels)
      /\ \A m \in NamesOf(Parts) : ~SameName(m, n)
  BY ONLY <1>3, <1>5, CreateIs
<1>7. /\ topRels = AddAll(<<>>, PackageRelationships)
      /\ NamesOf(Parts) = Range(attachments) \cup {path} \cup (DOMAIN childs \ left)
      /\ \A a \in Range(attachments) : \A m \in {path} \cup (DOMAIN childs \ left) : ~SameName(a, m)
  BY <1>1 DEF Progress, ModelPartsInv
<1>8. DOMAIN childs' \ left' = (DOMAIN childs \ left) \cup {n}
  BY <1>1, <1>2, <1>3
<1>9. n # path /\ \A a \in Range(attachments) : ~SameName(a, n)
  <2>1. \A a \in Range(attachments) : ~SameName(a, n)
    BY <1>6, <1>7
  <2>2. ~SameName(path, n)
    BY <1>6, <1>7
  <2>. QED
    BY <2>1, <2>2 DEF SameName
<1>10. ModelPartsInv'
  <2>1. topRels' = AddAll(<<>>, PackageRelationships')
    BY <1>1, <1>2, <1>7
  <2>2. NamesOf(Parts') = Range(attachments') \cup {path'} \cup (DOMAIN childs' \ left')
    BY <1>2, <1>6, <1>7, <1>8
  <2>3. \A a \in Range(attachments') : \A m \in {path'} \cup (DOMAIN childs' \ left') : ~SameName(a, m)
    BY <1>2, <1>7, <1>8, <1>9
  <2>4. left' \subseteq DOMAIN childs'
    BY <1>1, <1>2, <1>3
  <2>. QED
    BY <2>1, <2>2, <2>3, <2>4 DEF ModelPartsInv
<1>11. RelatedInv'
  <2>1. PICK order \in SetToSeqs(DOMAIN childs) : HasPart(Parts, path, AddAll(<<>>, RootRelationships(order)))
    BY <1>1 DEF Progress, RelatedInv
  <2>2. \A m \in DOMAIN childs \ left : HasPart(Parts, m, AddAll(<<>>, ChildNeeds(m)))
    BY <1>1 DEF Progress, RelatedInv
  <2>3. HasPart(Parts', path', AddAll(<<>>, RootRelationships(order)')) /\ order \in SetToSeqs(DOMAIN childs')
    BY <1>2, <1>6, <2>1
  <2>4. ASSUME NEW m \in (DOMAIN childs \ left) \cup {n}, m # n
        PROVE  HasPart(Parts', m, AddAll(<<>>, ChildNeeds(m)'))
    BY <1>2, <1>6, <2>2, <2>4
  <2>5. \A m \in DOMAIN childs' \ left' :
          (step' = "child" /\ m = writing') \/ HasPart(Parts', m, AddAll(<<>>, ChildNeeds(m)'))
    BY <1>1, <1>5, <1>8, <2>4
  <2>. QED
    BY <2>3, <2>5 DEF RelatedInv
<1>12. ChildInv'
  <2>1. pending' = ChildNeeds(writing)'
    BY <1>1, <1>2, <1>5
  <2>. QED
    BY <1>1, <1>2, <1>5, <1>6, <1>8, <1>9, <2>1 DEF ChildInv
<1>13. AttachmentsInv' /\ RootInv' /\ ClosedInv'
  BY <1>1 DEF AttachmentsInv, RootInv, ClosedInv
<1>. QED
  BY <1>6, <1>10, <1>11, <1>12, <1>13 DEF Progress

LEMMA AddChildRelationshipsProgress ==
  ASSUME Source, Progress, AddChildRelationships
  PROVE  Progress'
<1>1. /\ step = "child" /\ step' = "children" /\ UNCHANGED <<discVars, content, before>>
      /\ AddToPart(writing, pending) /\ UNCHANGED <<left, zip, topRels>>
  BY DEF AddChildRelationships, GoesOn
<1>2. /\ Source' /\ UNCHANGED <<path, childs, attachments>> /\ UNCHANGED PackageRelationships
      /\ \A order : UNCHANGED RootRelationships(order)
      /\ \A m : UNCHANGED ChildNeeds(m)
  BY <1>1, SourceStays
<1>3. /\ writing \in DOMAIN childs \ left /\ writing # path
      /\ current = <<Part(writing, <<>>)>> /\ pending = ChildNeeds(writing) /\ PartsInv
  BY <1>1 DEF Progress, ChildInv
<1>4. writing \in Names /\ pending \in Seq(Rel)
  BY <1>3, ChildsAre, NeedsTyped DEF Source
<1>5. PICK name, rels : name = writing /\ rels = pending
  OBVIOUS
<1>6. /\ PartsInv' /\ NamesOf(Parts') = NamesOf(Parts)
      /\ HasPart(Parts', name, AddAll(<<>>, rels))
      /\ \A n, rs : n # name /\ HasPart(Parts, n, rs) => HasPart(Parts', n, rs)
  <2>1. /\ PartsInv /\ name \in Names /\ rels \in Seq(Rel) /\ current = <<Part(name, <<>>)>>
        /\ AddToPart(name, rels) /\ UNCHANGED zip
    BY <1>1, <1>3, <1>4, <1>5
  <2>. QED
    BY ONLY <2>1, RelatedIs
<1>7. RelatedInv'
  <2>1. PICK order \in SetToSeqs(DOMAIN childs) : HasPart(Parts, path, AddAll(<<>>, RootRelationships(order)))
    BY <1>1 DEF Progress, RelatedInv
  <2>2. \A m \in DOMAIN childs \ left : m = writing \/ HasPart(Parts, m, AddAll(<<>>, ChildNeeds(m)))
    BY <1>1 DEF Progress, RelatedInv
  <2>3. HasPart(Parts', path', AddAll(<<>>, RootRelationships(order)')) /\ order \in SetToSeqs(DOMAIN childs')
    BY <1>2, <1>3, <1>5, <1>6, <2>1
  <2>4. ASSUME NEW m \in DOMAIN childs \ left
        PROVE  HasPart(Parts', m, AddAll(<<>>, ChildNeeds(m)'))
    <3>1. CASE m = writing
      BY <1>2, <1>3, <1>5, <1>6, <3>1
    <3>2. CASE m # writing
      BY <1>2, <1>5, <1>6, <2>2, <3>2
    <3>. QED
      BY <3>1, <3>2
  <2>5. DOMAIN childs' \ left' = DOMAIN childs \ left
    BY <1>1, <1>2
  <2>. QED
    BY <2>3, <2>4, <2>5 DEF RelatedInv
<1>8. ModelPartsInv'
  <2>1. step \in {"root", "children", "child", "nil"}
    BY <1>1
  <2>. QED
    BY <1>1, <1>2, <1>6, <2>1 DEF ModelPartsInv, Progress
<1>9. AttachmentsInv' /\ RootInv' /\ ChildInv' /\ ClosedInv'
  BY <1>1 DEF AttachmentsInv, RootInv, ChildInv, ClosedInv
<1>. QED
  BY <1>6, <1>7, <1>8, <1>9 DEF Progress

LEMMA CloseWriterProgress ==
  ASSUME Source, Progress, CloseWriter
  PROVE  Progress'
<1>1. /\ step = "children" /\ step' = "nil" /\ UNCHANGED <<discVars, content, before>>
      /\ left = {} /\ zip' = zip \o current /\ current' = <<>> /\ UNCHANGED <<left, topRels>>
  BY DEF CloseWriter, GoesOn
<1>2. /\ Source' /\ UNCHANGED <<path, childs, attachments>> /\ UNCHANGED PackageRelationships
      /\ \A order : UNCHANGED RootRelationships(order)
      /\ \A m : UNCHANGED ChildNeeds(m)
  BY <1>1, SourceStays
<1>3. zip \in Seq(PartRec) /\ current \in Seq(PartRec) /\ IsParts(Parts)
  BY DEF Progress, PartsInv
<1>4. Parts' = Parts
  BY <1>1, <1>3 DEF Parts
<1>5. PartsInv'
  BY <1>1, <1>3, <1>4 DEF PartsInv, Parts
<1>6. RelatedInv'
  BY <1>1, <1>2, <1>4 DEF Progress, RelatedInv
<1>7. ModelPartsInv'
  <2>1. step \in {"root", "children", "child", "nil"}
    BY <1>1
  <2>. QED
    BY <1>1, <1>2, <1>4, <2>1 DEF ModelPartsInv, Progress
<1>8. AttachmentsInv' /\ RootInv' /\ ChildInv' /\ ClosedInv'
  BY <1>1 DEF AttachmentsInv, RootInv, ChildInv, ClosedInv
<1>. QED
  BY <1>5, <1>6, <1>7, <1>8 DEF Progress

-----------------------------------------------------------------------------
Done == {"nil", "error", "rereading"}

(* Where Encode is, what it was given and what it has done of it.          *)
WriteInv ==
  /\ step \in {"reading"} \cup Moving \cup Done
  /\ step = "reading" =>
       /\ DiscoveryInv /\ ContentOK
       /\ wi = 1 /\ zip = <<>> /\ current = <<>> /\ topRels = <<>>
  /\ step \in Moving \cup {"nil"} => Source /\ Progress

LEMMA WriteInvInit == WriterInit => WriteInv
<1>. SUFFICES ASSUME WriterInit PROVE WriteInv
  OBVIOUS
<1>1. NotStarted
  BY DiscoveryAssumption DEF WriterInit, DiscoveryInit, NotStarted
<1>2. DiscoveryInv
  BY <1>1, DiscoveryInvInit
<1>3. ContentOK
  BY WriterAssumption DEF WriterInit, DiscoveryInit, ContentOK
<1>. QED
  BY <1>2, <1>3 DEF WriterInit, WriteInv, Moving, Done

LEMMA WriteInvStep ==
  ASSUME WriteInv, [WriterNext]_<<discVars, writeVars>>
  PROVE  WriteInv'
<1>1. CASE UNCHANGED <<discVars, writeVars>>
  <2>1. UNCHANGED <<discVars, content, before, step, wi, left, writing, pending, zip, current, topRels>>
    BY <1>1 DEF writeVars
  <2>2. CASE step = "reading"
    <3>1. DiscoveryInv'
      BY <2>1, <2>2, DiscoveryInvStep DEF WriteInv
    <3>. QED
      BY <2>1, <2>2, <3>1 DEF WriteInv, ContentOK, Moving, Done
  <2>3. CASE step \in Moving \cup {"nil"}
    <3>1. /\ Source' /\ UNCHANGED <<path, childs, attachments>> /\ UNCHANGED PackageRelationships
          /\ \A order : UNCHANGED RootRelationships(order)
          /\ \A m : UNCHANGED ChildNeeds(m)
      BY <2>1, <2>3, SourceStays DEF WriteInv
    <3>2. Parts' = Parts
      BY <2>1 DEF Parts
    <3>3. PartsInv' /\ AttachmentsInv' /\ RootInv'
      BY <2>1, <2>3, <3>1, <3>2 DEF WriteInv, Progress, PartsInv, AttachmentsInv, RootInv
    <3>4. ModelPartsInv'
      BY <2>1, <2>3, <3>1, <3>2 DEF WriteInv, Progress, ModelPartsInv
    <3>5. RelatedInv'
      BY <2>1, <2>3, <3>1, <3>2 DEF WriteInv, Progress, RelatedInv
    <3>6. ChildInv' /\ ClosedInv'
      BY <2>1, <2>3, <3>1 DEF WriteInv, Progress, ChildInv, ClosedInv
    <3>7. Progress'
      BY <3>3, <3>4, <3>5, <3>6 DEF Progress
    <3>. QED
      BY <2>1, <2>3, <3>1, <3>7 DEF WriteInv, Moving, Done
  <2>4. CASE step \in {"error", "rereading"}
    BY <2>1, <2>4 DEF WriteInv, Moving, Done
  <2>. QED
    BY <2>2, <2>3, <2>4 DEF WriteInv, Done
<1>2. CASE ReadPackage
  <2>1. /\ DiscoveryNext
        /\ UNCHANGED <<content, before, step, wi, left, writing, pending, zip, current, topRels>>
        /\ step \in {"reading", "rereading"}
    BY <1>2 DEF ReadPackage, DiscoveryNext, writeVars
  <2>2. CASE step = "reading"
    <3>1. DiscoveryInv'
      BY <2>1, <2>2, DiscoveryInvStep DEF WriteInv
    <3>. QED
      BY <2>1, <2>2, <3>1 DEF WriteInv, ContentOK, Moving, Done
  <2>. QED
    BY <2>1, <2>2 DEF WriteInv, Moving, Done
<1>3. CASE ReadAgain
  <2>1. /\ DiscoveryNext
        /\ UNCHANGED <<content, before, step, wi, left, writing, pending, zip, current, topRels>>
        /\ step = "reading"
    BY <1>3 DEF ReadAgain, DiscoveryNext, writeVars
  <2>2. DiscoveryInv'
    BY <2>1, DiscoveryInvStep DEF WriteInv
  <2>. QED
    BY <2>1, <2>2 DEF WriteInv, ContentOK, Moving, Done
<1>4. CASE Encode
  <2>1. CASE StartEncode
    <3>1. step = "reading" /\ step' = "attachments"
      BY <2>1 DEF StartEncode
    <3>2. Source' /\ Progress'
      BY <2>1, <3>1, StartEncodeProgress DEF WriteInv
    <3>. QED
      BY <3>1, <3>2 DEF WriteInv, Moving, Done
  <2>2. ASSUME NEW now \in Moving, NEW next \in Moving \cup {"nil"}, GoesOn(now, next), Source /\ Progress => Progress'
        PROVE  WriteInv'
    <3>1. step \in Moving /\ step' \in Moving \cup {"nil"} /\ UNCHANGED <<discVars, content, before>>
      BY <2>2 DEF GoesOn
    <3>2. Source /\ Progress
      BY <3>1 DEF WriteInv
    <3>3. Source'
      BY <3>1, <3>2, SourceStays
    <3>. QED
      BY <2>2, <3>1, <3>2, <3>3 DEF WriteInv, Moving, Done
  <2>3. CASE WriteAttachment
    <3>1. GoesOn("attachments", "attachments") /\ (Source /\ Progress => Progress')
      BY <2>3, WriteAttachmentProgress DEF WriteAttachment
    <3>. QED
      BY <2>2, <3>1 DEF Moving
  <2>4. CASE CreateRoot
    <3>1. GoesOn("attachments", "root") /\ (Source /\ Progress => Progress')
      BY <2>4, CreateRootProgress DEF CreateRoot
    <3>. QED
      BY <2>2, <3>1 DEF Moving
  <2>5. CASE AddRootRelationships
    <3>1. GoesOn("root", "children") /\ (Source /\ Progress => Progress')
      BY <2>5, AddRootRelationshipsProgress DEF AddRootRelationships
    <3>. QED
      BY <2>2, <3>1 DEF Moving
  <2>6. ASSUME NEW n \in left, CreateChild(n) PROVE WriteInv'
    <3>1. GoesOn("children", "child") /\ (Source /\ Progress => Progress')
      BY <2>6, CreateChildProgress DEF CreateChild
    <3>. QED
      BY <2>2, <3>1 DEF Moving
  <2>7. CASE AddChildRelationships
    <3>1. GoesOn("child", "children") /\ (Source /\ Progress => Progress')
      BY <2>7, AddChildRelationshipsProgress DEF AddChildRelationships
    <3>. QED
      BY <2>2, <3>1 DEF Moving
  <2>8. CASE CloseWriter
    <3>1. GoesOn("children", "nil") /\ (Source /\ Progress => Progress')
      BY <2>8, CloseWriterProgress DEF CloseWriter
    <3>. QED
      BY <2>2, <3>1 DEF Moving
  <2>9. CASE WriteError
    BY <2>9 DEF WriteError, WriteInv, Moving, Done
  <2>. QED
    BY <1>4, <2>1, <2>3, <2>4, <2>5, <2>6, <2>7, <2>8, <2>9 DEF Encode
<1>5. CASE Reopen
  BY <1>5 DEF Reopen, WriteInv, Moving, Done
<1>. QED
  BY <1>1, <1>2, <1>3, <1>4, <1>5 DEF WriterNext

-----------------------------------------------------------------------------
LEMMA ConcatRange ==
  ASSUME NEW a \in Seq(Rel), NEW b \in Seq(Rel)
  PROVE  a \o b \in Seq(Rel) /\ Range(a \o b) = Range(a) \cup Range(b)
<1>a. PICK ab : ab = a \o b
  OBVIOUS
<1>b. PICK m, n : m = Len(a) /\ n = Len(b)
  OBVIOUS
<1>1. /\ ab \in Seq(Rel) /\ Len(ab) = m + n /\ m \in Nat /\ n \in Nat
      /\ DOMAIN ab = 1..(m + n) /\ DOMAIN a = 1..m /\ DOMAIN b = 1..n
      /\ \A k \in 1..m : ab[k] = a[k]
      /\ \A k \in 1..n : ab[m + k] = b[k]
  <2>1. /\ a \o b \in Seq(Rel) /\ Len(a \o b) = Len(a) + Len(b)
        /\ \A k \in 1..Len(a) : (a \o b)[k] = a[k]
        /\ \A k \in 1..Len(b) : (a \o b)[Len(a) + k] = b[k]
    BY ONLY a \in Seq(Rel), b \in Seq(Rel), ConcatIs
  <2>2. Len(a) \in Nat /\ Len(b) \in Nat /\ DOMAIN a = 1..Len(a) /\ DOMAIN b = 1..Len(b)
    OBVIOUS
  <2>3. ab \in Seq(Rel) /\ Len(ab) = m + n
    BY ONLY <1>a, <1>b, <2>1
  <2>4. DOMAIN ab = 1..(m + n)
    BY ONLY <2>3
  <2>. QED
    BY ONLY <1>a, <1>b, <2>1, <2>2, <2>3, <2>4
<1>2. \A k \in 1..(m + n) : k \in 1..m \/ (k - m \in 1..n /\ m + (k - m) = k)
  BY <1>1
<1>3. \A k \in 1..m : k \in 1..(m + n)
  BY <1>1
<1>4. \A k \in 1..n : m + k \in 1..(m + n)
  BY <1>1
<1>5. Range(ab) \subseteq Range(a) \cup Range(b)
  <2>. SUFFICES ASSUME NEW k \in 1..(m + n) PROVE ab[k] \in Range(a) \cup Range(b)
    BY <1>1 DEF Range
  <2>1. CASE k \in 1..m
    BY <1>1, <2>1 DEF Range
  <2>2. CASE k - m \in 1..n /\ m + (k - m) = k
    BY <1>1, <2>2 DEF Range
  <2>. QED
    BY <1>2, <2>1, <2>2
<1>6. Range(a) \subseteq Range(ab)
  BY <1>1, <1>3 DEF Range
<1>7. Range(b) \subseteq Range(ab)
  BY ONLY Zenon, <1>1, <1>4 DEF Range
<1>. QED
  BY <1>a, <1>1, <1>5, <1>6, <1>7

(* What Written says of a part that was stored.                            *)
LEMMA WrittenIs ==
  ASSUME IsParts(zip)
  PROVE  /\ Written.opens = TRUE
         /\ Written.parts = NamesOf(zip) /\ Written.readable = NamesOf(zip)
         /\ Written.rels[PackageRoot] = topRels
         /\ \A n \in Names : \A rels : HasPart(zip, n, rels) => Written.rels[n] = rels
         /\ \A n \in Names \ NamesOf(zip) : Written.rels[n] = <<>>
<1>1. NamesOf(zip) = {p.name : p \in Range(zip)}
  BY DEF NamesOf, Range
<1>2. PackageRoot \in Sources /\ PackageRoot \notin Names /\ Names \subseteq Sources
  BY DiscoveryAssumption DEF Sources
<1>3. ASSUME NEW n \in Names, NEW rels, HasPart(zip, n, rels)
      PROVE  Written.rels[n] = rels
  <2>1. PICK k \in DOMAIN zip : zip[k] = Part(n, rels)
    BY <1>3 DEF HasPart
  <2>2. zip[k].name = n /\ zip[k].rels = rels /\ zip[k] \in Range(zip)
    BY <2>1 DEF Part, Range
  <2>3. \A p \in Range(zip) : p.name = n => p = zip[k]
    <3>. SUFFICES ASSUME NEW j \in DOMAIN zip, zip[j].name = n PROVE zip[j] = zip[k]
      BY DEF Range
    <3>1. j = k
      BY <2>2 DEF IsParts, SameName
    <3>. QED
      BY <3>1
  <2>4. (CHOOSE p \in Range(zip) : p.name = n) = zip[k]
    BY <2>2, <2>3
  <2>. QED
    BY <1>2, <2>2, <2>4 DEF Written
<1>4. ASSUME NEW n \in Names \ NamesOf(zip) PROVE Written.rels[n] = <<>>
  BY <1>1, <1>2 DEF Written
<1>5. Written.parts = NamesOf(zip) /\ Written.readable = NamesOf(zip) /\ Written.opens = TRUE
  BY <1>1 DEF Written
<1>6. Written.rels[PackageRoot] = topRels
  BY <1>2 DEF Written
<1>. QED
  BY <1>3, <1>4, <1>5, <1>6

(* When Encode has returned nil, what the package holds.                   *)
LEMMA NilIs ==
  ASSUME Source, Progress, step = "nil"
  PROVE  /\ IsParts(zip)
         /\ topRels = AddAll(<<>>, PackageRelationships)
         /\ NamesOf(zip) = Range(attachments) \cup {path} \cup DOMAIN childs
         /\ \A a \in Range(attachments) : \A m \in {path} \cup DOMAIN childs : ~SameName(a, m)
         /\ \E order \in SetToSeqs(DOMAIN childs) :
              HasPart(zip, path, AddAll(<<>>, RootRelationships(order)))
         /\ \A n \in DOMAIN childs : HasPart(zip, n, AddAll(<<>>, ChildNeeds(n)))
<1>1. left = {} /\ current = <<>> /\ zip \in Seq(PartRec) /\ IsParts(Parts)
  BY DEF Progress, ClosedInv, PartsInv
<1>2. Parts = zip
  BY <1>1 DEF Parts
<1>3. DOMAIN childs \ left = DOMAIN childs
  BY <1>1
<1>4. ModelPartsInv /\ RelatedInv
  BY DEF Progress
<1>5. \E order \in SetToSeqs(DOMAIN childs) :
         HasPart(zip, path, AddAll(<<>>, RootRelationships(order)))
  BY <1>2, <1>4 DEF RelatedInv
<1>6. \A n \in DOMAIN childs : HasPart(zip, n, AddAll(<<>>, ChildNeeds(n)))
  BY <1>2, <1>3, <1>4 DEF RelatedInv
<1>. QED
  BY <1>1, <1>2, <1>3, <1>4, <1>5, <1>6 DEF ModelPartsInv

LEMMA NilIsWritten ==
  ASSUME Source, Progress
  PROVE  NilMeansWritten
<1>. SUFFICES ASSUME step = "nil" PROVE NilMeansWritten
  BY DEF NilMeansWritten
<1>1. IsParts(zip) /\ topRels = AddAll(<<>>, PackageRelationships)
      /\ NamesOf(zip) = Range(attachments) \cup {path} \cup DOMAIN childs
  BY NilIs
<1>2. PICK order \in SetToSeqs(DOMAIN childs) :
         HasPart(zip, path, AddAll(<<>>, RootRelationships(order)))
  BY NilIs
<1>3. \A n \in DOMAIN childs : HasPart(zip, n, AddAll(<<>>, ChildNeeds(n)))
  BY NilIs
<1>4. <<>> \in Seq(Rel) /\ Distinct(<<>>) /\ Range(<<>>) = {}
  BY DEF Distinct, Range
<1>5. /\ path \in Names /\ PackageRelationships \in Seq(Rel) /\ RootRelationships(order) \in Seq(Rel)
      /\ \A n \in DOMAIN childs : ChildNeeds(n) \in Seq(Rel)
  BY NeedsTyped DEF Source
<1>6. \A rels \in Seq(Rel) : Range(AddAll(<<>>, rels)) = Range(rels) /\ Distinct(AddAll(<<>>, rels))
  <2>1. ASSUME NEW rels \in Seq(Rel)
        PROVE  Range(AddAll(<<>>, rels)) = Range(<<>>) \cup Range(rels)
    BY ONLY <1>4, rels \in Seq(Rel), AddAllFacts
  <2>2. ASSUME NEW rels \in Seq(Rel)
        PROVE  Distinct(AddAll(<<>>, rels))
    BY ONLY <1>4, rels \in Seq(Rel), AddAllFacts
  <2>. QED
    BY <1>4, <2>1, <2>2
<1>7. /\ relationships \in Seq(Rel) /\ rootRelationships \in Seq(Rel) /\ DOMAIN childs \subseteq Names
      /\ \A n \in DOMAIN childs : childs[n] \in Seq(Rel)
      /\ \A n \in DOMAIN childs \cup {path} : ThumbnailsOf(n) \in Seq(Rel)
      /\ order \in Seq(DOMAIN childs) /\ order \in Seq(Names) /\ Range(order) = DOMAIN childs
  <2>1. DOMAIN childs \subseteq Names /\ \A n \in DOMAIN childs : childs[n] \in Seq(Rel)
    BY ChildsAre DEF Source
  <2>2. order \in Seq(DOMAIN childs) /\ Range(order) = DOMAIN childs
    BY ChildsAre, OrderIs DEF Source
  <2>3. order \in Seq(Names)
    BY <2>1, <2>2
  <2>4. \A n \in DOMAIN childs \cup {path} : ThumbnailsOf(n) \in Seq(Rel)
    BY <1>5, <2>1, ThumbnailsTyped DEF Source
  <2>. QED
    BY <2>1, <2>2, <2>3, <2>4 DEF Source, DiscoveryInv, DiscoveryTypeOK
<1>8. Distinct([k \in DOMAIN zip |-> zip[k].name])
  BY <1>1 DEF Distinct, IsParts, SameName
<1>9. Distinct(topRels)
  BY <1>1, <1>5, <1>6
<1>10. \A p \in Range(zip) : Distinct(p.rels)
  BY <1>1 DEF IsParts, Range
<1>11. {p.name : p \in Range(zip)} = NamesOf(zip)
  BY DEF NamesOf, Range
<1>12. Range(rootRelationships) \cup {ModelRel(path)} \subseteq Range(topRels)
  <2>1. PICK m : m = <<ModelRel(path)>> /\ m \in Seq(Rel) /\ Range(m) = {ModelRel(path)}
    <3>1. ModelRel(path) \in Rel
      BY <1>5, WriterAssumption DEF ModelRel, Rel, RelTypes
    <3>2. <<ModelRel(path)>> \in Seq(Rel) /\ Range(<<ModelRel(path)>>) = {ModelRel(path)}
      BY <3>1 DEF Range
    <3>. QED
      BY <3>2
  <2>2. PICK t : t = IF content.thumbnail = NoPart THEN <<>> ELSE <<Thumbnail(content.thumbnail)>>
    OBVIOUS
  <2>3. t \in Seq(Rel)
    <3>1. content.thumbnail # NoPart => Thumbnail(content.thumbnail) \in Rel
      BY DEF Source, ContentOK, Thumbnail, Rel, RelTypes
    <3>. QED
      BY <2>2, <3>1
  <2>4. PICK rm : rm = rootRelationships \o m
    OBVIOUS
  <2>5. rm \in Seq(Rel) /\ Range(rm) = Range(rootRelationships) \cup Range(m)
    BY <1>7, <2>1, <2>4, ConcatRange
  <2>6. Range(rm \o t) = Range(rm) \cup Range(t)
    BY <2>3, <2>5, ConcatRange
  <2>7. PackageRelationships = rm \o t
    BY <2>1, <2>2, <2>4 DEF PackageRelationships
  <2>. QED
    BY <1>1, <1>5, <1>6, <2>1, <2>5, <2>6, <2>7
<1>13. Written.rels[path] = AddAll(<<>>, RootRelationships(order))
  BY <1>1, <1>2, <1>5, WrittenIs
<1>14. Range(relationships) \cup {ModelRel(n) : n \in DOMAIN childs} \subseteq Range(Written.rels[path])
  <2>1. PICK m : m = ModelRels(order)
    OBVIOUS
  <2>2. m \in Seq(Rel)
    BY <1>7, <2>1, ModelRelsTyped
  <2>3. Range(m) = {ModelRel(n) : n \in DOMAIN childs}
    BY <1>7, <2>1 DEF ModelRels, Range
  <2>4. PICK t : t = ThumbnailsOf(path) /\ t \in Seq(Rel)
    BY <1>7
  <2>5. PICK rm : rm = relationships \o m
    OBVIOUS
  <2>6. rm \in Seq(Rel) /\ Range(rm) = Range(relationships) \cup Range(m)
    BY <1>7, <2>2, <2>5, ConcatRange
  <2>7. Range(rm \o t) = Range(rm) \cup Range(t)
    BY <2>4, <2>6, ConcatRange
  <2>8. RootRelationships(order) = rm \o t
    BY <2>1, <2>4, <2>5 DEF RootRelationships, ModelRels
  <2>. QED
    BY <1>5, <1>6, <1>13, <2>3, <2>6, <2>7, <2>8
<1>15. ASSUME NEW n \in DOMAIN childs
       PROVE  Range(childs[n]) \cup Range(ThumbnailsOf(n)) \subseteq Range(Written.rels[n])
  <2>1. Written.rels[n] = AddAll(<<>>, ChildNeeds(n))
    BY <1>1, <1>3, <1>7, WrittenIs
  <2>2. Range(ChildNeeds(n)) = Range(childs[n]) \cup Range(ThumbnailsOf(n))
    BY <1>7, ConcatRange DEF ChildNeeds
  <2>. QED
    BY <1>5, <1>6, <2>1, <2>2
<1>. QED
  BY <1>1, <1>8, <1>9, <1>10, <1>11, <1>12, <1>14, <1>15 DEF NilMeansWritten

(***************************************************************************)
(* When Encode returns nil, all parts have been written, each once and     *)
(* with all its relationships, each once (Encoder.Encode, encoder.go).     *)
(***************************************************************************)
THEOREM NilAlwaysMeansWritten == WriterSpec => []NilMeansWritten
<1>1. WriterInit => WriteInv
  BY WriteInvInit
<1>2. WriteInv /\ [WriterNext]_<<discVars, writeVars>> => WriteInv'
  BY WriteInvStep
<1>3. WriteInv => NilMeansWritten
  BY NilIsWritten DEF WriteInv, NilMeansWritten
<1>. QED
  BY <1>1, <1>2, <1>3, PTL DEF WriterSpec

-----------------------------------------------------------------------------
(***************************************************************************)
(* What can be resolved of a sequence of relationships, and of a longer    *)
(* one.                                                                    *)
(***************************************************************************)
LEMMA AppendRange ==
  ASSUME NEW s \in Seq(Rel), NEW r \in Rel
  PROVE  Append(s, r) \in Seq(Rel) /\ Range(Append(s, r)) = Range(s) \cup {r}
<1>1. <<r>> \in Seq(Rel) /\ Range(<<r>>) = {r}
  BY DEF Range
<1>2. Append(s, r) = s \o <<r>>
  OBVIOUS
<1>. QED
  BY <1>1, <1>2, ConcatRange

LEMMA ResolvableFacts ==
  ASSUME NEW src, NEW rels \in Seq(Rel)
  PROVE  /\ Resolvable(src, rels) \in Seq(Rel)
         /\ Range(Resolvable(src, rels)) = {r \in Range(rels) : Keeps(src, r)}
<1>1. PICK n : n = Len(rels) /\ n \in Nat
  OBVIOUS
<1>2. PICK kept : kept = ResolvableUpTo(src, rels)
  OBVIOUS
<1>3. KeepsSoFar(kept, src, rels) /\ \A k \in 0..n : kept[k] \in Seq(Rel)
  BY <1>1, <1>2, ResolvableIs
<1>4. PICK good : good = [k \in 0..n |-> Range(kept[k]) = {r \in {rels[i] : i \in 1..k} : Keeps(src, r)}]
  OBVIOUS
<1>5. good[0]
  <2>1. 0 \in 0..n /\ kept[0] = <<>> /\ 1..0 = {} /\ Range(<<>>) = {}
    BY <1>1, <1>3 DEF KeepsSoFar, Range
  <2>. QED
    BY <1>4, <2>1
<1>6. ASSUME NEW k \in 1..n, good[k - 1] PROVE good[k]
  <2>1. k - 1 \in 0..n /\ k \in 0..n /\ 1..k = (1..(k - 1)) \cup {k}
    BY <1>1
  <2>2. Range(kept[k - 1]) = {r \in {rels[i] : i \in 1..(k - 1)} : Keeps(src, r)}
    BY <1>4, <1>6, <2>1
  <2>3. kept[k] = IF Keeps(src, rels[k]) THEN Append(kept[k - 1], rels[k]) ELSE kept[k - 1]
    BY <1>1, <1>3 DEF KeepsSoFar
  <2>4. kept[k - 1] \in Seq(Rel) /\ rels[k] \in Rel
    BY <1>1, <1>3, <2>1
  <2>5. Range(Append(kept[k - 1], rels[k])) = Range(kept[k - 1]) \cup {rels[k]}
    BY <2>4, AppendRange
  <2>6. {rels[i] : i \in 1..k} = {rels[i] : i \in 1..(k - 1)} \cup {rels[k]}
    BY <2>1
  <2>7. Range(kept[k]) = {r \in {rels[i] : i \in 1..k} : Keeps(src, r)}
    BY <2>2, <2>3, <2>5, <2>6
  <2>. QED
    BY <1>4, <2>1, <2>7
<1>7. \A k \in 0..n : good[k]
  BY ONLY <1>1, <1>5, <1>6, AllFollow
<1>8. n \in 0..n /\ Range(rels) = {rels[i] : i \in 1..n}
  BY <1>1 DEF Range
<1>9. Resolvable(src, rels) = kept[n]
  BY <1>1, <1>2 DEF Resolvable
<1>. QED
  BY <1>3, <1>4, <1>7, <1>8, <1>9

LEMMA ResolvableMore ==
  ASSUME NEW src, NEW rels \in Seq(Rel), NEW r \in Rel
  PROVE  Resolvable(src, Append(rels, r)) =
           IF Keeps(src, r) THEN Append(Resolvable(src, rels), r) ELSE Resolvable(src, rels)
<1>1. PICK n : n = Len(rels) /\ n \in Nat
  OBVIOUS
<1>2. PICK more : more = Append(rels, r)
  OBVIOUS
<1>3. /\ more \in Seq(Rel) /\ Len(more) = n + 1 /\ more[n + 1] = r
      /\ \A k \in 1..n : more[k] = rels[k]
  BY <1>1, <1>2
<1>4. PICK f : f = ResolvableUpTo(src, rels)
  OBVIOUS
<1>5. PICK g : g = ResolvableUpTo(src, more)
  OBVIOUS
<1>6. KeepsSoFar(f, src, rels)
  BY <1>4, ResolvableIs
<1>7. KeepsSoFar(g, src, more)
  BY <1>3, <1>5, ResolvableIs
<1>8. PICK same : same = [k \in 0..n |-> f[k] = g[k]]
  OBVIOUS
<1>9. same[0]
  <2>1. 0 \in 0..n /\ f[0] = g[0]
    BY <1>1, <1>6, <1>7 DEF KeepsSoFar
  <2>. QED
    BY <1>8, <2>1
<1>10. ASSUME NEW k \in 1..n, same[k - 1] PROVE same[k]
  <2>1. k \in 0..n /\ k - 1 \in 0..n /\ k \in 1..(n + 1)
    BY <1>1
  <2>2. f[k - 1] = g[k - 1]
    BY <1>8, <1>10, <2>1
  <2>3. f[k] = IF Keeps(src, rels[k]) THEN Append(f[k - 1], rels[k]) ELSE f[k - 1]
    BY <1>1, <1>6 DEF KeepsSoFar
  <2>4. g[k] = IF Keeps(src, rels[k]) THEN Append(g[k - 1], rels[k]) ELSE g[k - 1]
    BY <1>3, <1>7, <2>1 DEF KeepsSoFar
  <2>5. f[k] = g[k]
    BY <2>2, <2>3, <2>4
  <2>. QED
    BY <1>8, <2>1, <2>5
<1>11. \A k \in 0..n : same[k]
  BY ONLY <1>1, <1>9, <1>10, AllFollow
<1>12. n \in 0..n /\ n + 1 \in 1..(n + 1) /\ (n + 1) - 1 = n
  BY <1>1
<1>13. g[n + 1] = IF Keeps(src, r) THEN Append(g[n], r) ELSE g[n]
  BY <1>3, <1>7, <1>12 DEF KeepsSoFar
<1>14. f[n] = g[n]
  BY <1>8, <1>11, <1>12
<1>15. Resolvable(src, rels) = f[n] /\ Resolvable(src, more) = g[n + 1]
  BY <1>1, <1>3, <1>4, <1>5 DEF Resolvable
<1>. QED
  BY <1>2, <1>13, <1>14, <1>15

(***************************************************************************)
(* Two sequences of relationships that differ in relationships of the      *)
(* model type only, which are not kept.                                    *)
(***************************************************************************)
Alike(src, s, t) ==
  /\ s \in Seq(Rel) /\ t \in Seq(Rel)
  /\ Resolvable(src, s) = Resolvable(src, t)
  /\ \A r \in Rel : r.type # ModelType => (r \in Range(s) <=> r \in Range(t))

LEMMA AlikeModel ==
  ASSUME NEW src, NEW s, NEW t, Alike(src, s, t), NEW r \in Rel, r.type = ModelType
  PROVE  Alike(src, AddRelationship(s, r), t)
<1>1. CASE r \in Range(s)
  BY <1>1 DEF AddRelationship
<1>2. CASE r \notin Range(s)
  <2>1. AddRelationship(s, r) = Append(s, r)
    BY <1>2 DEF AddRelationship
  <2>2. s \in Seq(Rel) /\ ~Keeps(src, r)
    BY DEF Alike, Keeps
  <2>3. Resolvable(src, Append(s, r)) = Resolvable(src, s)
    BY <2>2, ResolvableMore
  <2>4. Append(s, r) \in Seq(Rel) /\ Range(Append(s, r)) = Range(s) \cup {r}
    BY <2>2, AppendRange
  <2>. QED
    BY <2>1, <2>3, <2>4 DEF Alike
<1>. QED
  BY <1>1, <1>2

LEMMA AlikeBoth ==
  ASSUME NEW src, NEW s, NEW t, Alike(src, s, t), NEW r \in Rel, r.type # ModelType
  PROVE  Alike(src, AddRelationship(s, r), AddRelationship(t, r))
<1>1. CASE r \in Range(s)
  BY <1>1 DEF AddRelationship, Alike
<1>2. CASE r \notin Range(s)
  <2>1. AddRelationship(s, r) = Append(s, r) /\ AddRelationship(t, r) = Append(t, r)
    BY <1>2 DEF AddRelationship, Alike
  <2>2. s \in Seq(Rel) /\ t \in Seq(Rel)
    BY DEF Alike
  <2>3. Resolvable(src, Append(s, r)) = Resolvable(src, Append(t, r))
    <3>1. Resolvable(src, s) = Resolvable(src, t)
      BY DEF Alike
    <3>2. Resolvable(src, Append(s, r)) =
            IF Keeps(src, r) THEN Append(Resolvable(src, s), r) ELSE Resolvable(src, s)
      BY ONLY Zenon, <2>2, r \in Rel, ResolvableMore
    <3>3. Resolvable(src, Append(t, r)) =
            IF Keeps(src, r) THEN Append(Resolvable(src, t), r) ELSE Resolvable(src, t)
      BY ONLY Zenon, <2>2, r \in Rel, ResolvableMore
    <3>. QED
      BY ONLY <3>1, <3>2, <3>3
  <2>4. Append(s, r) \in Seq(Rel) /\ Range(Append(s, r)) = Range(s) \cup {r}
    BY <2>2, AppendRange
  <2>5. Append(t, r) \in Seq(Rel) /\ Range(Append(t, r)) = Range(t) \cup {r}
    BY <2>2, AppendRange
  <2>. QED
    BY <2>1, <2>3, <2>4, <2>5 DEF Alike
<1>. QED
  BY <1>1, <1>2

LEMMA AlikeModels ==
  ASSUME NEW src, NEW s, NEW t, Alike(src, s, t), NEW more \in Seq(Rel),
         \A k \in 1..Len(more) : more[k].type = ModelType
  PROVE  Alike(src, AddAll(s, more), t)
<1>1. PICK n : n = Len(more) /\ n \in Nat
  OBVIOUS
<1>2. PICK f : Adds(f, s, more) /\ AddAll(s, more) = f[n]
  BY <1>1, AddAllIs DEF Alike
<1>3. PICK good : good = [k \in 0..n |-> Alike(src, f[k], t)]
  OBVIOUS
<1>4. good[0]
  <2>1. 0 \in 0..n /\ Alike(src, f[0], t)
    BY <1>1, <1>2 DEF Adds
  <2>. QED
    BY <1>3, <2>1
<1>5. ASSUME NEW k \in 1..n, good[k - 1] PROVE good[k]
  <2>1. k \in 0..n /\ k - 1 \in 0..n
    BY <1>1
  <2>2. Alike(src, f[k - 1], t) /\ f[k] = AddRelationship(f[k - 1], more[k])
    BY <1>1, <1>2, <1>3, <1>5, <2>1 DEF Adds
  <2>3. more[k] \in Rel /\ more[k].type = ModelType
    BY <1>1
  <2>4. Alike(src, f[k], t)
    BY <2>2, <2>3, AlikeModel
  <2>. QED
    BY <1>3, <2>1, <2>4
<1>6. \A k \in 0..n : good[k]
  BY ONLY <1>1, <1>4, <1>5, AllFollow
<1>7. n \in 0..n
  BY <1>1
<1>. QED
  BY <1>2, <1>3, <1>6, <1>7

LEMMA AlikeAll ==
  ASSUME NEW src, NEW s, NEW t, Alike(src, s, t), NEW more, IsPlain(more)
  PROVE  Alike(src, AddAll(s, more), AddAll(t, more))
<1>1. PICK n : n = Len(more) /\ n \in Nat
  BY DEF IsPlain
<1>2. PICK f : Adds(f, s, more) /\ AddAll(s, more) = f[n]
  BY <1>1, AddAllIs DEF Alike, IsPlain
<1>3. PICK g : Adds(g, t, more) /\ AddAll(t, more) = g[n]
  BY <1>1, AddAllIs DEF Alike, IsPlain
<1>4. PICK good : good = [k \in 0..n |-> Alike(src, f[k], g[k])]
  OBVIOUS
<1>5. good[0]
  <2>1. 0 \in 0..n /\ Alike(src, f[0], g[0])
    BY <1>1, <1>2, <1>3 DEF Adds
  <2>. QED
    BY <1>4, <2>1
<1>6. ASSUME NEW k \in 1..n, good[k - 1] PROVE good[k]
  <2>1. k \in 0..n /\ k - 1 \in 0..n
    BY <1>1
  <2>2. Alike(src, f[k - 1], g[k - 1])
    BY <1>4, <1>6, <2>1
  <2>3. f[k] = AddRelationship(f[k - 1], more[k]) /\ g[k] = AddRelationship(g[k - 1], more[k])
    BY <1>1, <1>2, <1>3 DEF Adds
  <2>4. more[k] \in Rel /\ more[k].type # ModelType
    BY <1>1 DEF IsPlain
  <2>5. Alike(src, f[k], g[k])
    BY <2>2, <2>3, <2>4, AlikeBoth
  <2>. QED
    BY <1>4, <2>1, <2>5
<1>7. \A k \in 0..n : good[k]
  BY ONLY <1>1, <1>5, <1>6, AllFollow
<1>8. n \in 0..n
  BY <1>1
<1>. QED
  BY <1>2, <1>3, <1>4, <1>7, <1>8

(* Relationships of the model type in between change nothing.              *)
LEMMA ModelsBetween ==
  ASSUME NEW src, NEW a \in Seq(Rel), NEW models \in Seq(Rel), NEW b, IsPlain(b),
         \A k \in 1..Len(models) : models[k].type = ModelType
  PROVE  Resolvable(src, AddAll(AddAll(AddAll(<<>>, a), models), b)) =
           Resolvable(src, AddAll(AddAll(<<>>, a), b))
<1>1. PICK s : s = AddAll(<<>>, a)
  OBVIOUS
<1>2. s \in Seq(Rel)
  <2>1. <<>> \in Seq(Rel)
    OBVIOUS
  <2>. QED
    BY <1>1, <2>1, AddAllFacts
<1>3. Alike(src, s, s)
  BY <1>2 DEF Alike
<1>4. Alike(src, AddAll(s, models), s)
  BY <1>3, AlikeModels
<1>5. Alike(src, AddAll(AddAll(s, models), b), AddAll(s, b))
  BY <1>4, AlikeAll
<1>. QED
  BY <1>1, <1>5 DEF Alike

-----------------------------------------------------------------------------
(***************************************************************************)
(* The package that was written, in terms of the model it was written      *)
(* from.                                                                   *)
(***************************************************************************)
ModelParts == {before.path} \cup DOMAIN before.childs
TopThumbs  == IF content.thumbnail = NoPart THEN <<>> ELSE <<Thumbnail(content.thumbnail)>>

FromModel(name) ==
  \/ Leads(PackageRoot, before.rootRelationships, name)
  \/ Leads(before.path, before.relationships, name)
  \/ \E n \in DOMAIN before.childs : Leads(n, before.childs[n], name)

StoredParts ==
  /\ ContentOK /\ IsParts(zip)
  /\ before.path \in Names /\ DOMAIN before.childs \subseteq Names
  /\ before.attachments \in Seq(Names)
  /\ IsPlain(before.rootRelationships) /\ IsPlain(before.relationships)
  /\ \A n \in DOMAIN before.childs : IsPlain(before.childs[n])
  /\ NamesOf(zip) = Range(before.attachments) \cup ModelParts
  /\ \A a \in Range(before.attachments) : \A m \in ModelParts : ~SameName(a, m)

StoredRels ==
  /\ topRels = AddAll(AddAll(AddAll(<<>>, before.rootRelationships), <<ModelRel(before.path)>>), TopThumbs)
  /\ \E order \in Seq(Names) :
       /\ Range(order) = DOMAIN before.childs
       /\ HasPart(zip, before.path,
            AddAll(AddAll(AddAll(<<>>, before.relationships), ModelRels(order)), ThumbnailsOf(before.path)))
  /\ \A n \in DOMAIN before.childs :
       HasPart(zip, n, AddAll(AddAll(<<>>, before.childs[n]), ThumbnailsOf(n)))

(* The relationships of the model lead to its attachments and to no model. *)
StoredLinks ==
  HasOneRootModel(before.pkg) =>
    \A n \in NamesOf(zip) : FromModel(n) <=> n \in Range(before.attachments)

Stored == StoredParts /\ StoredRels /\ StoredLinks

LEMMA StoredStays ==
  ASSUME Stored, UNCHANGED <<before, content, zip, topRels>>
  PROVE  Stored'
<1>1. \A n : UNCHANGED ThumbnailsOf(n)
  BY DEF ThumbnailsOf
<1>2. UNCHANGED TopThumbs
  BY DEF TopThumbs
<1>3. StoredParts'
  BY DEF Stored, StoredParts, ContentOK, ModelParts
<1>4. StoredRels'
  BY <1>1, <1>2 DEF Stored, StoredRels
<1>5. StoredLinks'
  BY DEF Stored, StoredLinks, FromModel
<1>. QED
  BY <1>3, <1>4, <1>5 DEF Stored

LEMMA FoundIs ==
  ASSUME DiscoveryInv, phase = "found"
  PROVE  /\ rootRelationships = Resolvable(PackageRoot, pkg.rels[PackageRoot])
         /\ OneRootModel => relationships = Resolvable(path, pkg.rels[path])
         /\ DOMAIN childs = Range(nonRootModels)
         /\ OneRootModel => \A n \in DOMAIN childs : Once(n) => childs[n] = Resolvable(n, pkg.rels[n])
         /\ OneRootModel => \A k \in DOMAIN attachments : Reached(attachments[k])
         /\ \A k \in DOMAIN attachments : attachments[k] \in pkg.readable
<1>1. PICK top : top = pkg.rels[PackageRoot] /\ top \in Seq(Rel)
  BY DEF DiscoveryInv, DiscoveryTypeOK, IsPackage, Sources
<1>2. ri \in Nat \ {0} /\ ri \notin 1..Len(top) /\ ri <= Len(top) + 1
  BY <1>1 DEF DiscoveryInv, DiscoveryTypeOK, EntriesInv, KeptInv
<1>3. ri - 1 = Len(top)
  BY <1>1, <1>2
<1>4. rootRelationships = Resolvable(PackageRoot, pkg.rels[PackageRoot])
  BY <1>1, <1>3 DEF DiscoveryInv, KeptInv, Resolvable
<1>5. path # NoPart
  BY DiscoveryAssumption DEF DiscoveryInv, DiscoveryTypeOK
<1>6. OneRootModel => relationships = Resolvable(path, pkg.rels[path])
  BY <1>5 DEF DiscoveryInv, KeptInv
<1>7. Range(nonRootModels) \subseteq DOMAIN childs
  <2>1. nonRootModels \in Seq(Names)
    BY DEF DiscoveryInv, DiscoveryTypeOK
  <2>. SUFFICES ASSUME NEW k \in DOMAIN nonRootModels PROVE nonRootModels[k] \in DOMAIN childs
    BY DEF Range
  <2>2. PICK i, j \in Nat \ {0} : Linked(i, j, nonRootModels[k])
    BY DEF DiscoveryInv, EntriesInv
  <2>3. i < ri
    BY <1>1, <1>2, <2>2 DEF Linked, IsRootRel
  <2>4. nonRootModels[k] \in Names
    BY <2>1
  <2>. QED
    BY <2>2, <2>3, <2>4 DEF DiscoveryInv, EntriesInv
<1>8. DOMAIN childs = Range(nonRootModels)
  BY <1>7 DEF DiscoveryInv, ExactInv
<1>9. OneRootModel => \A n \in DOMAIN childs : Once(n) => childs[n] = Resolvable(n, pkg.rels[n])
  BY DEF DiscoveryInv, ExactInv, ExactFor, Resolvable
<1>10. OneRootModel => \A k \in DOMAIN attachments : Reached(attachments[k])
  BY DEF DiscoveryInv, ReachInv
<1>11. \A k \in DOMAIN attachments : attachments[k] \in pkg.readable
  BY DEF DiscoveryInv, KeptInv
<1>. QED
  BY <1>4, <1>6, <1>8, <1>9, <1>10, <1>11

LEMMA ResolvableIsPlain ==
  ASSUME NEW src, NEW rels \in Seq(Rel)
  PROVE  IsPlain(Resolvable(src, rels))
<1>1. PICK kept : kept = Resolvable(src, rels)
  OBVIOUS
<1>2. kept \in Seq(Rel) /\ Range(kept) = {r \in Range(rels) : Keeps(src, r)}
  BY <1>1, ResolvableFacts
<1>3. \A k \in 1..Len(kept) : kept[k] \in Range(kept)
  BY <1>2 DEF Range
<1>. QED
  BY <1>1, <1>2, <1>3 DEF IsPlain, Keeps

(* The relationships of the model, before it is written.                   *)
LEMMA LinksAre ==
  ASSUME Source, OneRootModel, NamesOf(zip) = Range(attachments) \cup {path} \cup DOMAIN childs,
         \A a \in Range(attachments) : \A m \in {path} \cup DOMAIN childs : ~SameName(a, m),
         NEW n \in NamesOf(zip)
  PROVE  Reached(n) <=> n \in Range(attachments)
<1>1. n \in Range(attachments) => Reached(n)
  BY FoundIs DEF Source, Range
<1>2. ASSUME Reached(n), n \notin Range(attachments) PROVE FALSE
  <2>1. n \in {path} \cup DOMAIN childs
    BY <1>2
  <2>2. DOMAIN childs = Range(nonRootModels)
    BY FoundIs DEF Source
  <2>3. n \in pkg.readable
    BY <2>1, <2>2 DEF Source
  <2>4. KeptRelationshipsAreAttached
    BY DEF Source, DiscoveryInv, AttachInv
  <2>5. Attached(attachments, n)
    <3>1. CASE Leads(PackageRoot, rootRelationships, n)
      BY <2>3, <2>4, <3>1 DEF KeptRelationshipsAreAttached, Covers, Leads
    <3>2. CASE Leads(path, relationships, n)
      BY <2>3, <2>4, <3>2 DEF KeptRelationshipsAreAttached, Covers, Leads
    <3>3. CASE \E m \in DOMAIN childs : Leads(m, childs[m], n)
      BY <2>3, <2>4, <3>3 DEF KeptRelationshipsAreAttached, Covers, Leads
    <3>. QED
      BY <1>2, <3>1, <3>2, <3>3 DEF Reached
  <2>6. PICK k \in DOMAIN attachments : SameName(attachments[k], n)
    BY <2>5 DEF Attached
  <2>7. attachments[k] \in Range(attachments)
    BY DEF Range
  <2>. QED
    BY <2>1, <2>6, <2>7
<1>. QED
  BY <1>1, <1>2

LEMMA NilIsStored ==
  ASSUME Source, Progress, step = "nil"
  PROVE  Stored
<1>1. /\ IsParts(zip) /\ topRels = AddAll(<<>>, PackageRelationships)
      /\ NamesOf(zip) = Range(attachments) \cup {path} \cup DOMAIN childs
      /\ \A a \in Range(attachments) : \A m \in {path} \cup DOMAIN childs : ~SameName(a, m)
  BY NilIs
<1>2. PICK order \in SetToSeqs(DOMAIN childs) :
         HasPart(zip, path, AddAll(<<>>, RootRelationships(order)))
  BY NilIs
<1>3. \A n \in DOMAIN childs : HasPart(zip, n, AddAll(<<>>, ChildNeeds(n)))
  BY NilIs
<1>4. /\ before.pkg = pkg /\ before.path = path /\ before.childs = childs /\ before.attachments = attachments
      /\ before.relationships = relationships /\ before.rootRelationships = rootRelationships
  BY DEF Source, TheModel
<1>5. DiscoveryInv /\ phase = "found" /\ ContentOK
  BY DEF Source
<1>6. path \in Names /\ attachments \in Seq(Names) /\ DOMAIN childs \subseteq Names
  BY <1>5, ChildsAre, NeedsTyped DEF DiscoveryInv, DiscoveryTypeOK
<1>7. IsPlain(rootRelationships)
  <2>1. pkg.rels[PackageRoot] \in Seq(Rel)
    BY <1>5 DEF DiscoveryInv, DiscoveryTypeOK, IsPackage, Sources
  <2>. QED
    BY <1>5, <2>1, FoundIs, ResolvableIsPlain
<1>8. IsPlain(relationships)
  <2>1. relationships \in Seq(Rel) /\ \A k \in DOMAIN relationships : relationships[k].type # ModelType
    BY <1>5 DEF DiscoveryInv, DiscoveryTypeOK, KeptInv
  <2>. QED
    BY <2>1 DEF IsPlain
<1>9. \A n \in DOMAIN childs : IsPlain(childs[n])
  BY <1>5 DEF DiscoveryInv, PlainInv
<1>10. StoredParts
  BY <1>1, <1>4, <1>5, <1>6, <1>7, <1>8, <1>9 DEF StoredParts, ModelParts
<1>11. <<>> \in Seq(Rel)
  OBVIOUS
<1>12. \A n \in Names : ThumbnailsOf(n) \in Seq(Rel)
  BY <1>5, ThumbnailsTyped
<1>13. topRels = AddAll(AddAll(AddAll(<<>>, rootRelationships), <<ModelRel(path)>>), TopThumbs)
  <2>1. PICK m : m = <<ModelRel(path)>>
    OBVIOUS
  <2>2. PICK t : t = TopThumbs
    OBVIOUS
  <2>3. m \in Seq(Rel)
    <3>1. ModelRel(path) \in Rel
      BY <1>6, WriterAssumption DEF ModelRel, Rel, RelTypes
    <3>. QED
      BY <2>1, <3>1
  <2>4. t \in Seq(Rel)
    <3>1. content.thumbnail # NoPart => Thumbnail(content.thumbnail) \in Rel
      BY <1>5 DEF ContentOK, Thumbnail, Rel, RelTypes
    <3>. QED
      BY <2>2, <3>1 DEF TopThumbs
  <2>5. PICK rr : rr = rootRelationships /\ rr \in Seq(Rel)
    BY <1>7 DEF IsPlain
  <2>6. PICK rm : rm = rr \o m
    OBVIOUS
  <2>7. rm \in Seq(Rel)
    BY <2>3, <2>5, <2>6
  <2>8. PackageRelationships = rm \o t
    BY <2>1, <2>2, <2>5, <2>6 DEF PackageRelationships, TopThumbs
  <2>9. AddAll(<<>>, rm \o t) = AddAll(AddAll(<<>>, rm), t)
    BY ONLY Zenon, <1>11, <2>4, <2>7, AddAllConcat
  <2>10. AddAll(<<>>, rr \o m) = AddAll(AddAll(<<>>, rr), m)
    BY ONLY <1>11, <2>3, <2>5, AddAllConcat
  <2>. QED
    BY <1>1, <2>1, <2>2, <2>5, <2>6, <2>8, <2>9, <2>10
<1>14. HasPart(zip, path, AddAll(AddAll(AddAll(<<>>, relationships), ModelRels(order)), ThumbnailsOf(path)))
       /\ order \in Seq(Names) /\ Range(order) = DOMAIN childs
  <2>1. order \in Seq(DOMAIN childs) /\ Range(order) = DOMAIN childs
    BY <1>5, ChildsAre, OrderIs
  <2>2. order \in Seq(Names)
    BY <1>6, <2>1
  <2>3. PICK m : m = ModelRels(order)
    OBVIOUS
  <2>4. PICK t : t = ThumbnailsOf(path) /\ t \in Seq(Rel)
    BY <1>6, <1>12
  <2>5. m \in Seq(Rel)
    BY <2>2, <2>3, ModelRelsTyped
  <2>6. PICK rr : rr = relationships /\ rr \in Seq(Rel)
    BY <1>8 DEF IsPlain
  <2>7. PICK rm : rm = rr \o m
    OBVIOUS
  <2>8. rm \in Seq(Rel)
    BY <2>5, <2>6, <2>7
  <2>9. RootRelationships(order) = rm \o t
    BY <2>3, <2>4, <2>6, <2>7 DEF RootRelationships, ModelRels
  <2>10. AddAll(<<>>, rm \o t) = AddAll(AddAll(<<>>, rm), t)
    BY ONLY <1>11, <2>4, <2>8, AddAllConcat
  <2>11. AddAll(<<>>, rr \o m) = AddAll(AddAll(<<>>, rr), m)
    BY ONLY <1>11, <2>5, <2>6, AddAllConcat
  <2>. QED
    BY <1>2, <2>1, <2>2, <2>3, <2>4, <2>6, <2>7, <2>9, <2>10, <2>11
<1>15. ASSUME NEW n \in DOMAIN childs
       PROVE  HasPart(zip, n, AddAll(AddAll(<<>>, childs[n]), ThumbnailsOf(n)))
  <2>1. childs[n] \in Seq(Rel) /\ ThumbnailsOf(n) \in Seq(Rel)
    BY <1>6, <1>9, <1>12 DEF IsPlain
  <2>2. AddAll(<<>>, ChildNeeds(n)) = AddAll(AddAll(<<>>, childs[n]), ThumbnailsOf(n))
    BY <1>11, <2>1, AddAllConcat DEF ChildNeeds
  <2>. QED
    BY <1>3, <2>2
<1>16. StoredRels
  BY <1>4, <1>13, <1>14, <1>15 DEF StoredRels
<1>17. StoredLinks
  <2>1. HasOneRootModel(before.pkg) <=> OneRootModel
    BY <1>4 DEF OneRootModel
  <2>2. \A n : FromModel(n) <=> Reached(n)
    BY <1>4 DEF FromModel, Reached
  <2>. QED
    BY <1>1, <1>4, <2>1, <2>2, LinksAre DEF StoredLinks
<1>. QED
  BY <1>10, <1>16, <1>17 DEF Stored

-----------------------------------------------------------------------------
LEMMA AddAllThree ==
  ASSUME NEW a \in Seq(Rel), NEW b \in Seq(Rel), NEW c \in Seq(Rel)
  PROVE  /\ AddAll(AddAll(AddAll(<<>>, a), b), c) \in Seq(Rel)
         /\ Distinct(AddAll(AddAll(AddAll(<<>>, a), b), c))
         /\ Range(AddAll(AddAll(AddAll(<<>>, a), b), c)) = Range(a) \cup Range(b) \cup Range(c)
<1>0. <<>> \in Seq(Rel) /\ Distinct(<<>>) /\ Range(<<>>) = {}
  BY DEF Distinct, Range
<1>1. PICK e : e = <<>>
  OBVIOUS
<1>2. PICK s : s = AddAll(e, a)
  OBVIOUS
<1>3. s \in Seq(Rel) /\ Distinct(s) /\ Range(s) = Range(a)
  <2>1. e \in Seq(Rel) /\ Distinct(e) /\ Range(e) = {}
    BY <1>0, <1>1
  <2>2. AddAll(e, a) \in Seq(Rel)
    BY <2>1, AddAllFacts
  <2>3. Range(AddAll(e, a)) = Range(e) \cup Range(a)
    BY <2>1, AddAllFacts
  <2>4. Distinct(AddAll(e, a))
    BY <2>1, AddAllFacts
  <2>. QED
    BY <1>2, <2>1, <2>2, <2>3, <2>4
<1>4. PICK t : t = AddAll(s, b)
  OBVIOUS
<1>5. t \in Seq(Rel) /\ Distinct(t) /\ Range(t) = Range(s) \cup Range(b)
  <2>1. AddAll(s, b) \in Seq(Rel)
    BY <1>3, AddAllFacts
  <2>2. Range(AddAll(s, b)) = Range(s) \cup Range(b)
    BY <1>3, AddAllFacts
  <2>3. Distinct(AddAll(s, b))
    BY <1>3, AddAllFacts
  <2>. QED
    BY <1>4, <2>1, <2>2, <2>3
<1>6. PICK u : u = AddAll(t, c)
  OBVIOUS
<1>7. u \in Seq(Rel) /\ Distinct(u) /\ Range(u) = Range(t) \cup Range(c)
  <2>1. AddAll(t, c) \in Seq(Rel)
    BY <1>5, AddAllFacts
  <2>2. Range(AddAll(t, c)) = Range(t) \cup Range(c)
    BY <1>5, AddAllFacts
  <2>3. Distinct(AddAll(t, c))
    BY <1>5, AddAllFacts
  <2>. QED
    BY <1>6, <2>1, <2>2, <2>3
<1>. QED
  BY <1>1, <1>2, <1>3, <1>4, <1>5, <1>6, <1>7

ThumbRels(n) == {Thumbnail(t) : t \in Range(content.objects[n])}

LEMMA ThumbsAre ==
  ASSUME ContentOK
  PROVE  /\ TopThumbs \in Seq(Rel)
         /\ Range(TopThumbs) = IF content.thumbnail = NoPart THEN {} ELSE {Thumbnail(content.thumbnail)}
         /\ \A n \in Names : ThumbnailsOf(n) \in Seq(Rel) /\ Range(ThumbnailsOf(n)) = ThumbRels(n)
<1>1. content.thumbnail # NoPart => Thumbnail(content.thumbnail) \in Rel
  BY DEF ContentOK, Thumbnail, Rel, RelTypes
<1>2. TopThumbs \in Seq(Rel)
  BY <1>1 DEF TopThumbs
<1>3. Range(TopThumbs) = IF content.thumbnail = NoPart THEN {} ELSE {Thumbnail(content.thumbnail)}
  BY <1>1 DEF TopThumbs, Range
<1>4. \A n \in Names : ThumbnailsOf(n) \in Seq(Rel)
  BY ThumbnailsTyped
<1>5. \A n \in Names : Range(ThumbnailsOf(n)) = ThumbRels(n)
  BY DEF ThumbnailsOf, ThumbRels, Range
<1>. QED
  BY <1>2, <1>3, <1>4, <1>5

(* What the parts of the written package link to.                          *)
CoreRels == Written.rels[before.path]

LEMMA WrittenLinks ==
  ASSUME Stored
  PROVE  /\ topRels \in Seq(Rel) /\ Distinct(topRels)
         /\ Range(topRels) = Range(before.rootRelationships) \cup {ModelRel(before.path)} \cup Range(TopThumbs)
         /\ CoreRels \in Seq(Rel) /\ Distinct(CoreRels)
         /\ Range(CoreRels) = Range(before.relationships)
              \cup {ModelRel(n) : n \in DOMAIN before.childs} \cup ThumbRels(before.path)
         /\ \A n \in DOMAIN before.childs :
              /\ Written.rels[n] = AddAll(AddAll(<<>>, before.childs[n]), ThumbnailsOf(n))
              /\ Written.rels[n] \in Seq(Rel)
              /\ Range(Written.rels[n]) = Range(before.childs[n]) \cup ThumbRels(n)
<1>0. StoredParts /\ StoredRels /\ ContentOK /\ IsParts(zip)
  BY DEF Stored, StoredParts
<1>1. before.path \in Names /\ DOMAIN before.childs \subseteq Names
      /\ before.rootRelationships \in Seq(Rel) /\ before.relationships \in Seq(Rel)
      /\ \A n \in DOMAIN before.childs : before.childs[n] \in Seq(Rel)
  BY <1>0 DEF StoredParts, IsPlain
<1>2. \A n \in Names : ModelRel(n) \in Rel
  BY WriterAssumption DEF ModelRel, Rel, RelTypes
<1>3. topRels \in Seq(Rel) /\ Distinct(topRels)
      /\ Range(topRels) = Range(before.rootRelationships) \cup {ModelRel(before.path)} \cup Range(TopThumbs)
  <2>1. PICK m : m = <<ModelRel(before.path)>> /\ m \in Seq(Rel) /\ Range(m) = {ModelRel(before.path)}
    <3>1. <<ModelRel(before.path)>> \in Seq(Rel) /\ Range(<<ModelRel(before.path)>>) = {ModelRel(before.path)}
      BY <1>1, <1>2 DEF Range
    <3>. QED
      BY <3>1
  <2>2. PICK t : t = TopThumbs /\ t \in Seq(Rel)
    BY <1>0, ThumbsAre
  <2>3. PICK rr : rr = before.rootRelationships /\ rr \in Seq(Rel)
    BY <1>1
  <2>4. topRels = AddAll(AddAll(AddAll(<<>>, rr), m), t)
    BY <1>0, <2>1, <2>2, <2>3 DEF StoredRels
  <2>c. rr \in Seq(Rel) /\ m \in Seq(Rel) /\ t \in Seq(Rel)
    BY <2>1, <2>2, <2>3
  <2>5. AddAll(AddAll(AddAll(<<>>, rr), m), t) \in Seq(Rel)
    BY ONLY <2>c, AddAllThree
  <2>6. Distinct(AddAll(AddAll(AddAll(<<>>, rr), m), t))
    BY ONLY <2>c, AddAllThree
  <2>7. Range(AddAll(AddAll(AddAll(<<>>, rr), m), t)) = Range(rr) \cup Range(m) \cup Range(t)
    BY ONLY <2>c, AddAllThree
  <2>. QED
    BY <2>1, <2>2, <2>3, <2>4, <2>5, <2>6, <2>7
<1>4. /\ CoreRels \in Seq(Rel) /\ Distinct(CoreRels)
      /\ Range(CoreRels) = Range(before.relationships)
              \cup {ModelRel(n) : n \in DOMAIN before.childs} \cup ThumbRels(before.path)
  <2>1. PICK order \in Seq(Names) :
          /\ Range(order) = DOMAIN before.childs
          /\ HasPart(zip, before.path,
               AddAll(AddAll(AddAll(<<>>, before.relationships), ModelRels(order)), ThumbnailsOf(before.path)))
    BY <1>0 DEF StoredRels
  <2>2. PICK m : m = ModelRels(order) /\ m \in Seq(Rel)
    BY ModelRelsTyped
  <2>3. Range(m) = {ModelRel(n) : n \in DOMAIN before.childs}
    BY <2>1, <2>2 DEF ModelRels, Range
  <2>4. PICK t : t = ThumbnailsOf(before.path) /\ t \in Seq(Rel) /\ Range(t) = ThumbRels(before.path)
    BY <1>0, <1>1, ThumbsAre
  <2>5. PICK rr : rr = before.relationships /\ rr \in Seq(Rel)
    BY <1>1
  <2>6. CoreRels = AddAll(AddAll(AddAll(<<>>, rr), m), t)
    BY <1>0, <1>1, <2>1, <2>2, <2>4, <2>5, WrittenIs DEF CoreRels
  <2>7. AddAll(AddAll(AddAll(<<>>, rr), m), t) \in Seq(Rel)
    BY <2>2, <2>4, <2>5, AddAllThree
  <2>8. Distinct(AddAll(AddAll(AddAll(<<>>, rr), m), t))
    BY <2>2, <2>4, <2>5, AddAllThree
  <2>9. Range(AddAll(AddAll(AddAll(<<>>, rr), m), t)) = Range(rr) \cup Range(m) \cup Range(t)
    BY <2>2, <2>4, <2>5, AddAllThree
  <2>. QED
    BY <2>3, <2>4, <2>5, <2>6, <2>7, <2>8, <2>9
<1>5. ASSUME NEW n \in DOMAIN before.childs
      PROVE  /\ Written.rels[n] = AddAll(AddAll(<<>>, before.childs[n]), ThumbnailsOf(n))
             /\ Written.rels[n] \in Seq(Rel)
             /\ Range(Written.rels[n]) = Range(before.childs[n]) \cup ThumbRels(n)
  <2>1. Written.rels[n] = AddAll(AddAll(<<>>, before.childs[n]), ThumbnailsOf(n))
    BY <1>0, <1>1, WrittenIs DEF StoredRels
  <2>2. PICK t : t = ThumbnailsOf(n) /\ t \in Seq(Rel) /\ Range(t) = ThumbRels(n)
    BY <1>0, <1>1, ThumbsAre
  <2>3. PICK c : c = before.childs[n] /\ c \in Seq(Rel)
    BY <1>1
  <2>4. PICK e : e = <<>> /\ e \in Seq(Rel) /\ Range(e) = {}
    <3>1. <<>> \in Seq(Rel) /\ Range(<<>>) = {}
      BY DEF Range
    <3>. QED
      BY <3>1
  <2>5. PICK s : s = AddAll(e, c)
    OBVIOUS
  <2>6. AddAll(e, c) \in Seq(Rel) /\ Range(AddAll(e, c)) = Range(e) \cup Range(c)
    <3>1. AddAll(e, c) \in Seq(Rel)
      BY <2>3, <2>4, AddAllFacts
    <3>2. Range(AddAll(e, c)) = Range(e) \cup Range(c)
      BY <2>3, <2>4, AddAllFacts
    <3>. QED
      BY <3>1, <3>2
  <2>7. s \in Seq(Rel) /\ Range(s) = Range(c)
    BY <2>4, <2>5, <2>6
  <2>8. AddAll(s, t) \in Seq(Rel) /\ Range(AddAll(s, t)) = Range(s) \cup Range(t)
    <3>1. AddAll(s, t) \in Seq(Rel)
      BY <2>2, <2>7, AddAllFacts
    <3>2. Range(AddAll(s, t)) = Range(s) \cup Range(t)
      BY <2>2, <2>7, AddAllFacts
    <3>. QED
      BY <3>1, <3>2
  <2>. QED
    BY <2>1, <2>2, <2>3, <2>4, <2>5, <2>7, <2>8
<1>. QED
  BY <1>3, <1>4, <1>5

LEMMA PlainRange ==
  ASSUME NEW rels, IsPlain(rels), NEW r \in Range(rels)
  PROVE  r \in Rel /\ r.type # ModelType
BY DEF IsPlain, Range

LEMMA WrittenModels ==
  ASSUME Stored
  PROVE  /\ IsPackage(Written) /\ HasOneRootModel(Written)
         /\ \A i \in DOMAIN topRels : topRels[i].type = ModelType => topRels[i] = ModelRel(before.path)
         /\ \E i \in DOMAIN topRels : topRels[i] = ModelRel(before.path)
         /\ \A j \in DOMAIN CoreRels : CoreRels[j].type = ModelType =>
              \E n \in DOMAIN before.childs : CoreRels[j] = ModelRel(n)
         /\ \A n \in DOMAIN before.childs : \E j \in DOMAIN CoreRels : CoreRels[j] = ModelRel(n)
<1>0. StoredParts /\ StoredRels /\ ContentOK /\ IsParts(zip)
  BY DEF Stored, StoredParts
<1>1. \A t \in Targets : Thumbnail(t).type # ModelType
  BY DEF Thumbnail, ModelType
<1>2. \A n \in Names : ModelRel(n).type = ModelType
  BY DEF ModelRel
<1>3. \A r \in Range(TopThumbs) : r.type # ModelType
  BY <1>0, <1>1, ThumbsAre DEF ContentOK
<1>4. \A n \in Names : \A r \in ThumbRels(n) : r.type # ModelType
  BY <1>0, <1>1 DEF ThumbRels, Thumbnail, ModelType
<1>5. topRels \in Seq(Rel) /\ Distinct(topRels)
      /\ Range(topRels) = Range(before.rootRelationships) \cup {ModelRel(before.path)} \cup Range(TopThumbs)
  BY WrittenLinks
<1>6. \A i \in DOMAIN topRels : topRels[i].type = ModelType => topRels[i] = ModelRel(before.path)
  <2>. SUFFICES ASSUME NEW i \in DOMAIN topRels, topRels[i].type = ModelType
                PROVE  topRels[i] = ModelRel(before.path)
    OBVIOUS
  <2>1. PICK r : r = topRels[i] /\ r \in Range(topRels)
    BY DEF Range
  <2>2. r \notin Range(before.rootRelationships)
    BY <1>0, <2>1, PlainRange DEF StoredParts
  <2>. QED
    BY <1>3, <1>5, <2>1, <2>2
<1>7. \E i \in DOMAIN topRels : topRels[i] = ModelRel(before.path)
  <2>1. ModelRel(before.path) \in Range(topRels)
    BY <1>5
  <2>. QED
    BY <2>1 DEF Range
<1>8. Written.rels[PackageRoot] = topRels
  BY <1>0, WrittenIs
<1>9. HasOneRootModel(Written)
  BY <1>5, <1>6, <1>8 DEF HasOneRootModel, Distinct
<1>10. CoreRels \in Seq(Rel)
       /\ Range(CoreRels) = Range(before.relationships)
              \cup {ModelRel(n) : n \in DOMAIN before.childs} \cup ThumbRels(before.path)
  BY WrittenLinks
<1>11. ASSUME NEW j \in DOMAIN CoreRels, CoreRels[j].type = ModelType
       PROVE  \E n \in DOMAIN before.childs : CoreRels[j] = ModelRel(n)
  <2>1. PICK r : r = CoreRels[j] /\ r \in Range(CoreRels)
    BY DEF Range
  <2>2. r \notin Range(before.relationships)
    BY <1>0, <1>11, <2>1, PlainRange DEF StoredParts
  <2>3. r \notin ThumbRels(before.path)
    BY <1>0, <1>4, <1>11, <2>1 DEF StoredParts
  <2>. QED
    BY <1>10, <2>1, <2>2, <2>3
<1>12. ASSUME NEW n \in DOMAIN before.childs
       PROVE  \E j \in DOMAIN CoreRels : CoreRels[j] = ModelRel(n)
  <2>1. ModelRel(n) \in Range(CoreRels)
    BY <1>10
  <2>. QED
    BY <2>1 DEF Range
<1>13. IsPackage(Written)
  <2>1. Written.opens \in BOOLEAN /\ Written.parts = NamesOf(zip) /\ Written.readable = NamesOf(zip)
    BY <1>0, WrittenIs
  <2>2. NamesOf(zip) \subseteq Names
    <3>1. \A k \in DOMAIN zip : zip[k] \in PartRec
      BY <1>0 DEF IsParts
    <3>2. \A k \in DOMAIN zip : zip[k].name \in Names
      BY <3>1 DEF PartRec
    <3>. QED
      BY <3>2 DEF NamesOf
  <2>3. DOMAIN Written.rels = Sources
    BY DEF Written
  <2>4. ASSUME NEW s \in Sources PROVE Written.rels[s] \in Seq(Rel)
    <3>1. CASE s = PackageRoot
      BY <1>5, <1>8, <3>1
    <3>2. CASE s \in Names \ NamesOf(zip)
      <4>1. \A n \in Names \ NamesOf(zip) : Written.rels[n] = <<>>
        BY <1>0, WrittenIs
      <4>2. Written.rels[s] = <<>> /\ <<>> \in Seq(Rel)
        BY <3>2, <4>1
      <4>. QED
        BY <4>2
    <3>3. CASE s \in NamesOf(zip)
      <4>1. PICK k \in DOMAIN zip : zip[k].name = s
        BY <3>3 DEF NamesOf
      <4>2. zip[k] \in PartRec
        BY <1>0 DEF IsParts
      <4>3. zip[k] = Part(s, zip[k].rels) /\ s \in Names /\ zip[k].rels \in Seq(Rel)
        BY <4>1, <4>2 DEF Part, PartRec
      <4>4. HasPart(zip, s, zip[k].rels)
        BY <4>3 DEF HasPart
      <4>5. Written.rels[s] = zip[k].rels
        BY <1>0, <4>3, <4>4, WrittenIs
      <4>. QED
        BY <4>3, <4>5
    <3>. QED
      BY <2>2, <3>1, <3>2, <3>3 DEF Sources
  <2>5. Written.rels = [s \in Sources |-> Written.rels[s]]
    BY DEF Written
  <2>6. Written.rels \in [Sources -> Seq(Rel)]
    BY <2>4, <2>5
  <2>. QED
    BY <2>1, <2>2, <2>6 DEF IsPackage
<1>. QED
  BY <1>6, <1>7, <1>9, <1>11, <1>12, <1>13

-----------------------------------------------------------------------------
(***************************************************************************)
(* Reading the package that was written: it has one root model, which is   *)
(* the one of the model, and the models it links to are the children.      *)
(***************************************************************************)
TopSeen == \E i \in DOMAIN topRels : i < ri /\ topRels[i].type = ModelType

CoreSeen ==
  /\ \A k \in DOMAIN nonRootModels :
       \E j \in DOMAIN CoreRels : j < rj /\ CoreRels[j] = ModelRel(nonRootModels[k])
  /\ \A j \in DOMAIN CoreRels : \A n \in DOMAIN before.childs :
       j < rj /\ CoreRels[j] = ModelRel(n) => \E k \in DOMAIN nonRootModels : nonRootModels[k] = n
  /\ Distinct(nonRootModels)

AllChilds == Range(nonRootModels) = DOMAIN before.childs /\ Distinct(nonRootModels)

RereadInv ==
  /\ Stored /\ DiscoveryInv /\ pkg = Written
  /\ phase # "failed"
  /\ rootFile \in {NoPart, before.path}
  /\ rootFile = NoPart => nonRootModels = <<>>
  /\ phase = "closed" => rootFile = NoPart /\ ri = 1
  /\ phase = "package" => (rootFile = NoPart <=> ~TopSeen)
  /\ phase = "core" => CoreSeen
  /\ phase \in {"child", "package", "found"} /\ rootFile # NoPart => AllChilds

LEMMA ModelRelIs ==
  ASSUME NEW m \in Names, NEW n \in Names, ModelRel(m) = ModelRel(n)
  PROVE  m = n
<1>1. ModelRel(m).target = m /\ ModelRel(n).target = n
  BY DEF ModelRel
<1>. QED
  BY <1>1

LEMMA RereadStep ==
  ASSUME RereadInv, ProcessOPC, UNCHANGED writeVars
  PROVE  RereadInv'
<1>0. /\ Stored /\ DiscoveryInv /\ pkg = Written /\ DiscoveryTypeOK
      /\ UNCHANGED <<before, content, zip, topRels>>
  BY DEF RereadInv, DiscoveryInv, writeVars
<1>1. /\ DiscoveryNext /\ pkg' = pkg
  BY DEF DiscoveryNext, ProcessOPC, OpenPackage, VisitRootModel,
     VisitPackageAttachment, EndDiscovery, AddChildModel, AddModelAttachment,
     SkipCoreRel, EndCore, VisitChildRel, NextChild, EndChildren
<1>2. Stored' /\ DiscoveryInv'
  BY <1>0, <1>1, StoredStays, DiscoveryInvStep
<1>3. Written' = Written
  BY <1>0 DEF Written
<1>4. CoreRels' = CoreRels
  BY <1>0, <1>3 DEF CoreRels
<1>5. /\ pkg.rels[PackageRoot] = topRels /\ pkg.rels[before.path] = CoreRels
      /\ pkg.opens = TRUE /\ pkg.parts = NamesOf(zip)
  BY <1>0, WrittenIs DEF Stored, StoredParts, CoreRels
<1>6. /\ before.path \in Names /\ DOMAIN before.childs \subseteq Names /\ ContentOK
      /\ NamesOf(zip) = Range(before.attachments) \cup ModelParts
  BY <1>0 DEF Stored, StoredParts
<1>7. topRels \in Seq(Rel) /\ Distinct(topRels) /\ CoreRels \in Seq(Rel) /\ Distinct(CoreRels)
  BY <1>0, WrittenLinks
<1>8. /\ \A i \in DOMAIN topRels : topRels[i].type = ModelType => topRels[i] = ModelRel(before.path)
      /\ \E i \in DOMAIN topRels : topRels[i] = ModelRel(before.path)
      /\ \A j \in DOMAIN CoreRels : CoreRels[j].type = ModelType =>
              \E n \in DOMAIN before.childs : CoreRels[j] = ModelRel(n)
      /\ \A n \in DOMAIN before.childs : \E j \in DOMAIN CoreRels : CoreRels[j] = ModelRel(n)
  BY <1>0, WrittenModels
<1>9. /\ NoPart \notin Names
      /\ \A s \in Sources : \A n \in Names : PartOf(s, ModelRel(n)) = n
  BY DiscoveryAssumption, WriterAssumption DEF PartOf, ModelRel
<1>10. /\ ri \in Nat \ {0} /\ rj \in Nat \ {0} /\ nonRootModels \in Seq(Names)
       /\ rootFile \in {NoPart, before.path} /\ (rootFile = NoPart => nonRootModels = <<>>)
       /\ (phase \in {"core", "child", "found"} => rootFile = before.path)
  BY <1>0, <1>9 DEF DiscoveryTypeOK, RereadInv
<1>11. \A n : ModelRel(n).type = ModelType
  BY DEF ModelRel
(* What is left to show of a step that keeps the package.                  *)
<1>k. ASSUME phase' # "failed", rootFile' \in {NoPart, before.path},
             rootFile' = NoPart => nonRootModels' = <<>>,
             phase' # "closed",
             phase' = "package" => (rootFile' = NoPart <=> ~TopSeen'),
             phase' = "core" => CoreSeen',
             phase' \in {"child", "package", "found"} /\ rootFile' # NoPart => AllChilds'
      PROVE  RereadInv'
  BY <1>k, <1>0, <1>1, <1>2, <1>3 DEF RereadInv
<1>a. (rootFile # NoPart /\ phase \in {"child", "package", "found"}) => AllChilds
  BY DEF RereadInv
<1>b. UNCHANGED nonRootModels => AllChilds' = AllChilds
  BY <1>0 DEF AllChilds
<1>12. CASE OpenPackage
  <2>1. /\ phase = "closed" /\ phase' = "package" /\ UNCHANGED <<ri, rootFile, nonRootModels>>
    BY <1>5, <1>12 DEF OpenPackage
  <2>2. rootFile = NoPart /\ ri = 1
    BY <2>1 DEF RereadInv
  <2>3. ~TopSeen'
    BY <1>0, <1>7, <2>1, <2>2 DEF TopSeen
  <2>. QED
    BY <1>k, <1>10, <2>1, <2>2, <2>3
<1>13. CASE VisitRootModel
  <2>1. /\ phase = "package" /\ ri \in DOMAIN topRels /\ topRels[ri].type = ModelType
        /\ rj' = 1 /\ UNCHANGED <<ri, nonRootModels>>
    BY <1>5, <1>13 DEF VisitRootModel, PackageRel
  <2>2. PackageRel = ModelRel(before.path)
    BY <1>5, <1>8, <2>1 DEF PackageRel
  <2>3. PartOf(PackageRoot, PackageRel) = before.path
    BY <1>6, <1>9, <2>2 DEF Sources
  <2>4. Found(PackageRoot, PackageRel)
    BY <1>5, <1>6, <2>3 DEF Found, ModelParts
  <2>5. phase' = "core" /\ rootFile' = before.path
    BY <1>13, <2>3, <2>4 DEF VisitRootModel
  <2>6. ~TopSeen
    <3>. SUFFICES ASSUME NEW i \in DOMAIN topRels, i < ri, topRels[i].type = ModelType PROVE FALSE
      BY DEF TopSeen
    <3>1. topRels[i] = topRels[ri]
      BY <1>8, <2>1
    <3>2. i = ri
      BY <1>7, <2>1, <3>1 DEF Distinct
    <3>. QED
      BY <1>10, <3>2
  <2>7. nonRootModels = <<>>
    BY <1>10, <2>1, <2>6 DEF RereadInv
  <2>8. CoreSeen'
    <3>1. \A j \in DOMAIN CoreRels : ~(j < 1)
      BY <1>7
    <3>. QED
      BY <1>0, <1>4, <2>1, <2>7, <3>1 DEF CoreSeen, Distinct
  <2>. QED
    BY <1>k, <1>6, <1>9, <2>5, <2>8
<1>14. CASE VisitPackageAttachment
  <2>1. /\ phase = "package" /\ phase' = "package" /\ ri \in DOMAIN topRels /\ topRels[ri].type # ModelType
        /\ ri' = ri + 1 /\ UNCHANGED <<rootFile, nonRootModels>>
    BY <1>5, <1>14 DEF VisitPackageAttachment, PackageRel
  <2>2. TopSeen' <=> TopSeen
    <3>1. \A i \in DOMAIN topRels : i < ri + 1 <=> i < ri \/ i = ri
      BY <1>7, <1>10
    <3>. QED
      BY <1>0, <2>1, <3>1 DEF TopSeen
  <2>. QED
    BY <1>k, <1>a, <1>b, <1>10, <2>1, <2>2 DEF RereadInv
<1>15. CASE EndDiscovery
  <2>1. /\ phase = "package" /\ ri \notin DOMAIN topRels /\ UNCHANGED <<rootFile, nonRootModels>>
        /\ phase' = IF rootFile = NoPart THEN "failed" ELSE "found"
    BY <1>5, <1>15 DEF EndDiscovery
  <2>2. TopSeen
    <3>1. PICK i \in DOMAIN topRels : topRels[i] = ModelRel(before.path)
      BY <1>8
    <3>2. i < ri
      BY <1>7, <1>10, <2>1
    <3>. QED
      BY <1>11, <3>1, <3>2 DEF TopSeen
  <2>3. rootFile # NoPart
    BY <2>1, <2>2 DEF RereadInv
  <2>. QED
    BY <1>k, <1>a, <1>b, <1>10, <2>1, <2>3
<1>16. CASE AddChildModel
  <2>1. /\ phase = "core" /\ phase' = "core" /\ rj \in DOMAIN CoreRels /\ CoreRels[rj].type = ModelType
        /\ rootFile = before.path /\ rj' = rj + 1 /\ UNCHANGED rootFile
        /\ nonRootModels' = Append(nonRootModels, PartOf(before.path, CoreRels[rj]))
    BY <1>5, <1>10, <1>16 DEF AddChildModel, CoreRel
  <2>2. PICK n \in DOMAIN before.childs : CoreRels[rj] = ModelRel(n)
    BY <1>8, <2>1
  <2>3. PartOf(before.path, CoreRels[rj]) = n /\ n \in Names
    BY <1>6, <1>9, <2>2 DEF Sources
  <2>4. PICK old, l : old = nonRootModels /\ old \in Seq(Names) /\ l = Len(old) /\ l \in Nat
    BY <1>10
  <2>5. PICK new : new = Append(old, n)
    OBVIOUS
  <2>6. /\ nonRootModels' = new /\ new \in Seq(Names) /\ DOMAIN new = 1..(l + 1) /\ new[l + 1] = n
        /\ DOMAIN old = 1..l /\ \A k \in 1..l : new[k] = old[k]
    BY <2>1, <2>3, <2>4, <2>5
  <2>7. /\ \A k \in 1..(l + 1) : k \in 1..l \/ k = l + 1
        /\ \A k \in 1..l : k \in 1..(l + 1)
        /\ l + 1 \in 1..(l + 1)
    BY <2>4
  <2>8. CoreSeen
    BY <2>1 DEF RereadInv
  <2>9. \A j \in DOMAIN CoreRels : j < rj + 1 <=> j < rj \/ j = rj
    BY <1>7, <1>10
  <2>10. \A k \in 1..l : \E j \in DOMAIN CoreRels : j < rj /\ CoreRels[j] = ModelRel(old[k])
    BY <2>4, <2>6, <2>8 DEF CoreSeen
  <2>11. \A k \in 1..(l + 1) : \E j \in DOMAIN CoreRels : j < rj + 1 /\ CoreRels[j] = ModelRel(new[k])
    <3>1. \A k \in 1..l : \E j \in DOMAIN CoreRels : j < rj + 1 /\ CoreRels[j] = ModelRel(new[k])
      BY <2>6, <2>9, <2>10
    <3>2. \E j \in DOMAIN CoreRels : j < rj + 1 /\ CoreRels[j] = ModelRel(new[l + 1])
      BY <2>1, <2>2, <2>6, <2>9
    <3>. QED
      BY <2>7, <3>1, <3>2
  <2>12. ASSUME NEW j \in DOMAIN CoreRels, NEW m \in DOMAIN before.childs, j < rj + 1, CoreRels[j] = ModelRel(m)
         PROVE  \E k \in 1..(l + 1) : new[k] = m
    <3>1. CASE j < rj
      <4>1. PICK k \in 1..l : old[k] = m
        BY <2>4, <2>6, <2>8, <2>12, <3>1 DEF CoreSeen
      <4>. QED
        BY <2>6, <2>7, <4>1
    <3>2. CASE j = rj
      <4>1. m = n
        BY <1>6, <2>2, <2>12, <3>2, ModelRelIs
      <4>. QED
        BY <2>6, <2>7, <4>1
    <3>. QED
      BY <2>9, <2>12, <3>1, <3>2
  <2>13. Distinct(new)
    <3>1. ASSUME NEW k \in 1..l PROVE old[k] # n
      <4>1. PICK j \in DOMAIN CoreRels : j < rj /\ CoreRels[j] = ModelRel(old[k])
        BY <2>10
      <4>2. old[k] = n => j = rj
        BY <1>7, <2>1, <2>2, <4>1 DEF Distinct
      <4>. QED
        BY <1>10, <4>1, <4>2
    <3>2. \A i, j \in 1..l : old[i] = old[j] => i = j
      BY <2>4, <2>6, <2>8 DEF CoreSeen, Distinct
    <3>. QED
      BY <2>6, <2>7, <3>1, <3>2 DEF Distinct
  <2>14. CoreSeen'
    BY <1>0, <1>4, <2>1, <2>6, <2>11, <2>12, <2>13 DEF CoreSeen
  <2>. QED
    BY <1>k, <1>6, <1>9, <2>1, <2>14
<1>17. CASE AddModelAttachment \/ SkipCoreRel
  <2>1. /\ phase = "core" /\ phase' = "core" /\ rj \in DOMAIN CoreRels
        /\ rootFile = before.path /\ rj' = rj + 1 /\ UNCHANGED <<rootFile, nonRootModels>>
        /\ CoreRels[rj].type # ModelType \/ ~Found(before.path, CoreRels[rj])
    BY <1>5, <1>10, <1>17 DEF AddModelAttachment, SkipCoreRel, CoreRel
  <2>2. CoreRels[rj].type # ModelType
    <3>. SUFFICES ASSUME CoreRels[rj].type = ModelType PROVE Found(before.path, CoreRels[rj])
      BY <2>1
    <3>1. PICK n \in DOMAIN before.childs : CoreRels[rj] = ModelRel(n)
      BY <1>8, <2>1
    <3>2. PartOf(before.path, CoreRels[rj]) = n
      BY <1>6, <1>9, <3>1 DEF Sources
    <3>. QED
      BY <1>5, <1>6, <3>2 DEF Found, ModelParts
  <2>3. CoreSeen
    BY <2>1 DEF RereadInv
  <2>4. \A j \in DOMAIN CoreRels : j < rj + 1 <=> j < rj \/ j = rj
    BY <1>7, <1>10
  <2>5. \A n : CoreRels[rj] # ModelRel(n)
    BY <1>11, <2>2
  <2>6. CoreSeen'
    BY <1>0, <1>4, <2>1, <2>3, <2>4, <2>5 DEF CoreSeen
  <2>. QED
    BY <1>k, <1>6, <1>9, <2>1, <2>6
<1>18. CASE EndCore
  <2>1. /\ phase = "core" /\ phase' = "child" /\ rj \notin DOMAIN CoreRels
        /\ rootFile = before.path /\ UNCHANGED <<rootFile, nonRootModels>>
    BY <1>5, <1>10, <1>18 DEF EndCore
  <2>2. CoreSeen
    BY <2>1 DEF RereadInv
  <2>3. Range(nonRootModels) \subseteq DOMAIN before.childs
    <3>. SUFFICES ASSUME NEW k \in DOMAIN nonRootModels PROVE nonRootModels[k] \in DOMAIN before.childs
      BY DEF Range
    <3>1. PICK j \in DOMAIN CoreRels : CoreRels[j] = ModelRel(nonRootModels[k])
      BY <2>2 DEF CoreSeen
    <3>2. PICK n \in DOMAIN before.childs : CoreRels[j] = ModelRel(n)
      BY <1>8, <1>11, <3>1
    <3>3. nonRootModels[k] \in Names
      BY <1>10
    <3>4. nonRootModels[k] = n
      BY <1>6, <3>1, <3>2, <3>3, ModelRelIs
    <3>. QED
      BY <3>4
  <2>4. DOMAIN before.childs \subseteq Range(nonRootModels)
    <3>. SUFFICES ASSUME NEW n \in DOMAIN before.childs PROVE n \in Range(nonRootModels)
      OBVIOUS
    <3>1. PICK j \in DOMAIN CoreRels : CoreRels[j] = ModelRel(n)
      BY <1>8
    <3>2. j < rj
      BY <1>7, <1>10, <2>1
    <3>. QED
      BY <2>2, <3>1, <3>2 DEF CoreSeen, Range
  <2>5. AllChilds
    BY <2>2, <2>3, <2>4 DEF AllChilds, CoreSeen
  <2>. QED
    BY <1>k, <1>b, <1>6, <1>9, <2>1, <2>5
<1>19. CASE VisitChildRel \/ NextChild
  <2>1. /\ phase = "child" /\ phase' = "child" /\ rootFile = before.path /\ UNCHANGED <<rootFile, nonRootModels>>
    BY <1>10, <1>19 DEF VisitChildRel, NextChild
  <2>. QED
    BY <1>k, <1>a, <1>b, <1>6, <1>9, <2>1
<1>20. CASE EndChildren
  <2>1. /\ phase = "child" /\ phase' = "package" /\ ri' = ri + 1
        /\ rootFile = before.path /\ UNCHANGED <<rootFile, nonRootModels>>
    BY <1>10, <1>20 DEF EndChildren
  <2>2. IsRootRel(ri)
    BY <1>0, <2>1 DEF DiscoveryInv, EntriesInv, AtRootRel
  <2>3. ri \in DOMAIN topRels /\ topRels[ri].type = ModelType
    BY <1>5, <2>2 DEF IsRootRel, TopRel
  <2>4. ri < ri + 1
    BY <1>10
  <2>5. TopSeen'
    BY <1>0, <2>1, <2>3, <2>4 DEF TopSeen
  <2>. QED
    BY <1>k, <1>a, <1>b, <1>6, <1>9, <2>1, <2>5
<1>. QED
  BY <1>12, <1>13, <1>14, <1>15, <1>16, <1>17, <1>18, <1>19, <1>20 DEF ProcessOPC

-----------------------------------------------------------------------------
LEMMA DiscoveryInvReopened == NotStarted' => DiscoveryInv'
<1>1. NotStarted => DiscoveryInv
  BY DiscoveryInvInit
<1>. QED
  BY <1>1, PTL

LEMMA ReopenStep ==
  ASSUME Source, Progress, Reopen
  PROVE  RereadInv'
<1>1. /\ step = "nil" /\ UNCHANGED <<calls, before, content, zip, topRels>>
      /\ pkg' = Written /\ phase' = "closed" /\ ri' = 1 /\ rj' = 1 /\ ci' = 1
      /\ rootFile' = NoPart /\ path' = NoPart /\ nonRootModels' = <<>>
      /\ childs' = [n \in {} |-> <<>>]
      /\ attachments' = <<>> /\ relationships' = <<>> /\ rootRelationships' = <<>>
  BY DEF Reopen
<1>2. Stored
  BY <1>1, NilIsStored
<1>3. Stored'
  BY <1>1, <1>2, StoredStays
<1>4. Written' = Written
  BY <1>1 DEF Written
<1>5. IsPackage(Written)
  BY <1>2, WrittenModels
<1>6. calls \in Nat
  BY DEF Source, DiscoveryInv, DiscoveryTypeOK
<1>7. NotStarted'
  BY <1>1, <1>5, <1>6 DEF NotStarted, IsPackage
<1>8. DiscoveryInv'
  BY <1>7, DiscoveryInvReopened
<1>. QED
  BY <1>1, <1>3, <1>4, <1>8 DEF RereadInv

-----------------------------------------------------------------------------
(* What a relationship of the written package leads to is attached.        *)
LEMMA RelatedIsAttached ==
  ASSUME RereadInv, phase = "found", NEW n \in NamesOf(zip),
         NEW src \in {PackageRoot, before.path} \cup DOMAIN before.childs,
         NEW r \in Range(Written.rels[src]), r.type # ModelType, PartOf(src, r) = n
  PROVE  n \in Range(attachments)
<1>0. Stored /\ DiscoveryInv /\ pkg = Written /\ OneRootModel
  BY WrittenModels DEF RereadInv, OneRootModel
<1>1. /\ rootRelationships = Resolvable(PackageRoot, pkg.rels[PackageRoot])
      /\ relationships = Resolvable(path, pkg.rels[path])
      /\ \A k \in DOMAIN attachments : attachments[k] \in pkg.readable
      /\ DOMAIN childs = Range(nonRootModels)
      /\ \A m \in DOMAIN childs : Once(m) => childs[m] = Resolvable(m, pkg.rels[m])
  BY <1>0, FoundIs
<1>2. path = before.path /\ before.path \in Names /\ DOMAIN before.childs \subseteq Names /\ IsParts(zip)
  <2>1. NoPart \notin Names
    BY DiscoveryAssumption
  <2>. QED
    BY <1>0, <2>1 DEF RereadInv, DiscoveryInv, DiscoveryTypeOK, Stored, StoredParts
<1>3. AllChilds
  <2>1. rootFile # NoPart
    BY <1>0, <1>2, DiscoveryAssumption DEF DiscoveryInv, DiscoveryTypeOK
  <2>. QED
    BY <2>1 DEF RereadInv
<1>4. DOMAIN childs = DOMAIN before.childs /\ \A m \in DOMAIN childs : Once(m)
  BY <1>1, <1>3 DEF AllChilds, Distinct, Once
<1>5. pkg.parts = NamesOf(zip) /\ pkg.readable = NamesOf(zip)
  BY <1>0, <1>2, WrittenIs
<1>6. src \in Sources /\ pkg.rels[src] \in Seq(Rel) /\ r \in Range(pkg.rels[src])
  <2>1. src \in Sources
    BY <1>2 DEF Sources
  <2>. QED
    BY <1>0, <2>1 DEF DiscoveryInv, DiscoveryTypeOK, IsPackage
<1>7. Keeps(src, r)
  BY <1>5 DEF Keeps, Found
<1>8. r \in Range(Resolvable(src, pkg.rels[src]))
  BY <1>6, <1>7, ResolvableFacts
<1>9. KeptRelationshipsAreAttached
  BY <1>0 DEF DiscoveryInv, AttachInv
<1>10. Attached(attachments, n)
  <2>1. CASE src = PackageRoot
    BY <1>1, <1>5, <1>8, <1>9, <2>1 DEF KeptRelationshipsAreAttached, Covers, Range
  <2>2. CASE src = before.path
    BY <1>0, <1>1, <1>2, <1>5, <1>8, <1>9, <2>2 DEF KeptRelationshipsAreAttached, Covers, Range
  <2>3. CASE src \in DOMAIN before.childs
    <3>1. r \in Range(childs[src]) /\ src \in DOMAIN childs
      BY <1>1, <1>4, <1>8, <2>3
    <3>. QED
      BY <1>5, <1>9, <3>1 DEF KeptRelationshipsAreAttached, Covers, Range
  <2>. QED
    BY <2>1, <2>2, <2>3
<1>11. PICK k \in DOMAIN attachments : SameName(attachments[k], n)
  BY <1>10 DEF Attached
<1>12. attachments[k] \in NamesOf(zip)
  BY <1>1, <1>5
<1>13. attachments[k] = n
  <2>1. PICK i \in DOMAIN zip : zip[i].name = attachments[k]
    BY <1>12 DEF NamesOf
  <2>2. PICK j \in DOMAIN zip : zip[j].name = n
    BY DEF NamesOf
  <2>3. i = j
    BY <1>2, <1>11, <2>1, <2>2 DEF IsParts
  <2>. QED
    BY <2>1, <2>2, <2>3
<1>. QED
  BY <1>13 DEF Range

LEMMA RereadIsSame ==
  ASSUME RereadInv, phase = "found", step = "rereading"
  PROVE  SameModel
<1>0. Stored /\ StoredParts /\ StoredLinks /\ ContentOK /\ DiscoveryInv /\ pkg = Written /\ OneRootModel /\ phase # "failed"
  BY WrittenModels DEF RereadInv, OneRootModel, Stored, StoredParts
<1>1. /\ rootRelationships = Resolvable(PackageRoot, pkg.rels[PackageRoot])
      /\ relationships = Resolvable(path, pkg.rels[path])
      /\ \A k \in DOMAIN attachments : attachments[k] \in pkg.readable
      /\ \A k \in DOMAIN attachments : Reached(attachments[k])
      /\ DOMAIN childs = Range(nonRootModels)
      /\ \A m \in DOMAIN childs : Once(m) => childs[m] = Resolvable(m, pkg.rels[m])
  BY <1>0, FoundIs
<1>2. path = before.path /\ before.path \in Names /\ DOMAIN before.childs \subseteq Names /\ IsParts(zip)
  <2>1. NoPart \notin Names
    BY DiscoveryAssumption
  <2>. QED
    BY <1>0, <2>1 DEF RereadInv, DiscoveryInv, DiscoveryTypeOK, Stored, StoredParts
<1>3. AllChilds
  <2>1. rootFile # NoPart
    BY <1>0, <1>2, DiscoveryAssumption DEF DiscoveryInv, DiscoveryTypeOK
  <2>. QED
    BY <2>1 DEF RereadInv
<1>4. DOMAIN childs = DOMAIN before.childs /\ \A m \in DOMAIN childs : Once(m)
  BY <1>1, <1>3 DEF AllChilds, Distinct, Once
<1>5. /\ pkg.parts = NamesOf(zip) /\ pkg.readable = NamesOf(zip)
      /\ pkg.rels[PackageRoot] = topRels /\ pkg.rels[path] = CoreRels
  BY <1>0, <1>2, WrittenIs DEF CoreRels
<1>6. NamesOf(zip) = Range(before.attachments) \cup ModelParts
  BY <1>0 DEF StoredParts
<1>7. /\ IsPlain(before.rootRelationships) /\ IsPlain(before.relationships)
      /\ \A n \in DOMAIN before.childs : IsPlain(before.childs[n])
  BY <1>0 DEF StoredParts
<1>8. /\ topRels \in Seq(Rel) /\ CoreRels \in Seq(Rel)
      /\ Range(topRels) = Range(before.rootRelationships) \cup {ModelRel(before.path)} \cup Range(TopThumbs)
      /\ Range(CoreRels) = Range(before.relationships)
              \cup {ModelRel(n) : n \in DOMAIN before.childs} \cup ThumbRels(before.path)
      /\ \A n \in DOMAIN before.childs :
              /\ Written.rels[n] = AddAll(AddAll(<<>>, before.childs[n]), ThumbnailsOf(n))
              /\ Written.rels[n] \in Seq(Rel)
              /\ Range(Written.rels[n]) = Range(before.childs[n]) \cup ThumbRels(n)
  BY <1>0, WrittenLinks
<1>9. /\ TopThumbs \in Seq(Rel)
      /\ Range(TopThumbs) = IF content.thumbnail = NoPart THEN {} ELSE {Thumbnail(content.thumbnail)}
      /\ \A n \in Names : ThumbnailsOf(n) \in Seq(Rel) /\ Range(ThumbnailsOf(n)) = ThumbRels(n)
  BY <1>0, ThumbsAre
<1>10. \A t : Thumbnail(t).type # ModelType /\ Thumbnail(t).target = t
  BY DEF Thumbnail, ModelType
<1>11. IsPlain(TopThumbs)
  <2>1. \A k \in 1..Len(TopThumbs) : TopThumbs[k] \in Range(TopThumbs)
    BY <1>9 DEF Range
  <2>. QED
    BY <1>9, <1>10, <2>1 DEF IsPlain
<1>12. \A n \in Names : IsPlain(ThumbnailsOf(n))
  <2>. SUFFICES ASSUME NEW n \in Names PROVE IsPlain(ThumbnailsOf(n))
    OBVIOUS
  <2>1. ThumbnailsOf(n) \in Seq(Rel) /\ Range(ThumbnailsOf(n)) = ThumbRels(n)
    BY <1>9
  <2>2. \A k \in 1..Len(ThumbnailsOf(n)) : ThumbnailsOf(n)[k] \in Range(ThumbnailsOf(n))
    BY <2>1 DEF Range
  <2>3. \A r \in ThumbRels(n) : r.type # ModelType
    BY <1>10 DEF ThumbRels
  <2>. QED
    BY <2>1, <2>2, <2>3 DEF IsPlain
<1>13. rootRelationships =
         Resolvable(PackageRoot, AddAll(AddAll(<<>>, before.rootRelationships), TopThumbs))
  <2>1. PICK m : m = <<ModelRel(before.path)>>
    OBVIOUS
  <2>2. m \in Seq(Rel) /\ \A k \in 1..Len(m) : m[k].type = ModelType
    <3>1. ModelRel(before.path) \in Rel /\ ModelRel(before.path).type = ModelType
      BY <1>2, WriterAssumption DEF ModelRel, Rel, RelTypes
    <3>. QED
      BY <2>1, <3>1
  <2>3. topRels = AddAll(AddAll(AddAll(<<>>, before.rootRelationships), m), TopThumbs)
    BY <1>0, <2>1 DEF Stored, StoredRels
  <2>4. PICK a, b : a = before.rootRelationships /\ b = TopThumbs
    OBVIOUS
  <2>5. a \in Seq(Rel) /\ IsPlain(b)
    BY <1>7, <1>11, <2>4 DEF IsPlain
  <2>6. Resolvable(PackageRoot, AddAll(AddAll(AddAll(<<>>, a), m), b)) =
          Resolvable(PackageRoot, AddAll(AddAll(<<>>, a), b))
    BY ONLY <2>2, <2>5, ModelsBetween
  <2>. QED
    BY <1>1, <1>5, <2>3, <2>4, <2>6
<1>14. relationships =
         Resolvable(path, AddAll(AddAll(<<>>, before.relationships), ThumbnailsOf(path)))
  <2>1. PICK order \in Seq(Names) :
          /\ Range(order) = DOMAIN before.childs
          /\ HasPart(zip, before.path,
               AddAll(AddAll(AddAll(<<>>, before.relationships), ModelRels(order)), ThumbnailsOf(before.path)))
    BY <1>0 DEF Stored, StoredRels
  <2>2. PICK m : m = ModelRels(order)
    OBVIOUS
  <2>3. m \in Seq(Rel)
    BY <2>2, ModelRelsTyped
  <2>4. \A k \in 1..Len(m) : m[k].type = ModelType
    <3>1. DOMAIN m = 1..Len(m)
      BY <2>3
    <3>2. \A k \in DOMAIN m : m[k].type = ModelType
      BY <2>2 DEF ModelRels, ModelRel
    <3>. QED
      BY <3>1, <3>2
  <2>5. CoreRels = AddAll(AddAll(AddAll(<<>>, before.relationships), m), ThumbnailsOf(path))
    BY <1>2, <2>1, <2>2, WrittenIs DEF CoreRels
  <2>6. PICK a, b : a = before.relationships /\ b = ThumbnailsOf(path)
    OBVIOUS
  <2>7. a \in Seq(Rel) /\ IsPlain(b)
    BY <1>2, <1>7, <1>12, <2>6 DEF IsPlain
  <2>8. PICK src : src = path
    OBVIOUS
  <2>9. Resolvable(src, AddAll(AddAll(AddAll(<<>>, a), m), b)) =
          Resolvable(src, AddAll(AddAll(<<>>, a), b))
    BY ONLY <2>3, <2>4, <2>7, ModelsBetween
  <2>. QED
    BY <1>1, <1>5, <2>5, <2>6, <2>8, <2>9
<1>15. ASSUME NEW n \in DOMAIN childs
       PROVE  childs[n] = Resolvable(n, AddAll(AddAll(<<>>, before.childs[n]), ThumbnailsOf(n)))
  BY <1>0, <1>1, <1>4, <1>8
<1>16. ASSUME HasOneRootModel(before.pkg), NEW n \in Range(before.attachments)
       PROVE  n \in Range(attachments)
  <2>1. n \in NamesOf(zip)
    BY <1>6
  <2>2. FromModel(n)
    BY <1>0, <1>16, <2>1 DEF StoredLinks
  <2>3. ASSUME NEW src \in {PackageRoot, before.path} \cup DOMAIN before.childs,
               NEW rels, IsPlain(rels), Range(rels) \subseteq Range(Written.rels[src]), Leads(src, rels, n)
        PROVE  n \in Range(attachments)
    <3>1. PICK i \in DOMAIN rels : PartOf(src, rels[i]) = n
      BY <2>3 DEF Leads
    <3>2. PICK r : r = rels[i] /\ r \in Range(rels)
      BY DEF Range
    <3>3. r.type # ModelType /\ r \in Range(Written.rels[src])
      BY <2>3, <3>2, PlainRange
    <3>. QED
      BY <2>1, <3>1, <3>2, <3>3, RelatedIsAttached
  <2>4. CASE Leads(PackageRoot, before.rootRelationships, n)
    BY <1>0, <1>5, <1>7, <1>8, <2>3, <2>4
  <2>5. CASE Leads(before.path, before.relationships, n)
    BY <1>7, <1>8, <2>3, <2>5 DEF CoreRels
  <2>6. CASE \E m \in DOMAIN before.childs : Leads(m, before.childs[m], n)
    BY <1>7, <1>8, <2>3, <2>6
  <2>. QED
    BY <2>2, <2>4, <2>5, <2>6 DEF FromModel
<1>17. ASSUME NEW n \in {path} \cup DOMAIN childs, IsThumbnail(n)
       PROVE  n \in Range(attachments)
  <2>1. n \in NamesOf(zip)
    BY <1>2, <1>4, <1>6 DEF ModelParts
  <2>2. CASE content.thumbnail # NoPart /\ Resolve[PackageRoot][content.thumbnail] = n
    <3>1. PICK r : r = Thumbnail(content.thumbnail)
      OBVIOUS
    <3>2. r \in Range(Written.rels[PackageRoot]) /\ r.type # ModelType /\ PartOf(PackageRoot, r) = n
      BY <1>0, <1>5, <1>8, <1>9, <1>10, <2>2, <3>1 DEF PartOf
    <3>. QED
      BY <2>1, <3>2, RelatedIsAttached
  <2>3. CASE \E src \in {path} \cup DOMAIN childs :
               \E target \in Range(content.objects[src]) : Resolve[src][target] = n
    <3>0. PICK src \in {path} \cup DOMAIN childs :
             \E target \in Range(content.objects[src]) : Resolve[src][target] = n
      BY <2>3
    <3>1. PICK target \in Range(content.objects[src]) : Resolve[src][target] = n
      BY <3>0
    <3>2. PICK r : r = Thumbnail(target)
      OBVIOUS
    <3>3. r \in ThumbRels(src)
      BY <3>2 DEF ThumbRels
    <3>4. src \in {before.path} \cup DOMAIN before.childs
      BY <1>2, <1>4
    <3>5. r \in Range(Written.rels[src])
      BY <1>8, <3>3, <3>4 DEF CoreRels
    <3>6. r.type # ModelType /\ PartOf(src, r) = n
      BY <1>10, <3>1, <3>2 DEF PartOf
    <3>. QED
      BY <2>1, <3>4, <3>5, <3>6, RelatedIsAttached
  <2>. QED
    BY <1>17, <2>2, <2>3 DEF IsThumbnail
<1>18. ASSUME HasOneRootModel(before.pkg), NEW n \in Range(attachments), n \notin Range(before.attachments)
       PROVE  n \in {path} \cup DOMAIN childs /\ IsThumbnail(n)
  <2>1. PICK k \in DOMAIN attachments : attachments[k] = n
    BY DEF Range
  <2>2. n \in NamesOf(zip) /\ Reached(n)
    BY <1>1, <1>5, <2>1
  <2>3. n \in {path} \cup DOMAIN childs
    BY <1>2, <1>4, <1>6, <1>18, <2>2 DEF ModelParts
  <2>4. ~FromModel(n)
    BY <1>0, <1>18, <2>2 DEF StoredLinks
  <2>5. ASSUME NEW src, NEW rels \in Seq(Rel), Leads(src, Resolvable(src, rels), n)
        PROVE  \E r \in Range(rels) : PartOf(src, r) = n /\ r.type # ModelType
    <3>1. PICK kept : kept = Resolvable(src, rels)
      OBVIOUS
    <3>2. PICK i \in DOMAIN kept : PartOf(src, kept[i]) = n
      BY <2>5, <3>1 DEF Leads
    <3>3. kept[i] \in Range(kept)
      BY DEF Range
    <3>4. Range(kept) = {r \in Range(rels) : Keeps(src, r)}
      BY <3>1, ResolvableFacts
    <3>. QED
      BY <3>2, <3>3, <3>4 DEF Keeps
  <2>6. \A src, rels, r : r \in Range(rels) /\ PartOf(src, r) = n => Leads(src, rels, n)
    BY DEF Leads, Range
  <2>7. \A m : ModelRel(m).type = ModelType
    BY DEF ModelRel
  <2>8. CASE Leads(PackageRoot, rootRelationships, n)
    <3>1. PICK r \in Range(topRels) : PartOf(PackageRoot, r) = n /\ r.type # ModelType
      BY <1>1, <1>5, <1>8, <2>5, <2>8
    <3>2. r \notin Range(before.rootRelationships)
      BY <2>4, <2>6, <3>1 DEF FromModel
    <3>3. content.thumbnail # NoPart /\ r = Thumbnail(content.thumbnail)
      BY <1>8, <1>9, <2>7, <3>1, <3>2
    <3>. QED
      BY <1>10, <2>3, <3>1, <3>3 DEF IsThumbnail, PartOf
  <2>9. CASE Leads(path, relationships, n)
    <3>1. PICK r \in Range(CoreRels) : PartOf(path, r) = n /\ r.type # ModelType
      BY <1>1, <1>5, <1>8, <2>5, <2>9
    <3>2. r \notin Range(before.relationships)
      BY <1>2, <2>4, <2>6, <3>1 DEF FromModel
    <3>3. r \in ThumbRels(path)
      BY <1>2, <1>8, <2>7, <3>1, <3>2
    <3>. QED
      BY <1>10, <2>3, <3>1, <3>3 DEF IsThumbnail, PartOf, ThumbRels
  <2>10. CASE \E m \in DOMAIN childs : Leads(m, childs[m], n)
    <3>0. PICK m \in DOMAIN childs : Leads(m, childs[m], n)
      BY <2>10
    <3>1. childs[m] = Resolvable(m, Written.rels[m]) /\ Written.rels[m] \in Seq(Rel)
      BY <1>0, <1>1, <1>4, <1>8
    <3>2. PICK r \in Range(Written.rels[m]) : PartOf(m, r) = n /\ r.type # ModelType
      BY <2>5, <3>0, <3>1
    <3>3. r \notin Range(before.childs[m])
      BY <1>4, <2>4, <2>6, <3>2 DEF FromModel
    <3>4. r \in ThumbRels(m)
      BY <1>4, <1>8, <3>2, <3>3
    <3>. QED
      BY <1>10, <2>3, <3>2, <3>4 DEF IsThumbnail, PartOf, ThumbRels
  <2>. QED
    BY <2>2, <2>8, <2>9, <2>10 DEF Reached
<1>19. HasOneRootModel(before.pkg) =>
         Range(attachments) = Range(before.attachments) \cup {n \in {path} \cup DOMAIN childs : IsThumbnail(n)}
  BY <1>16, <1>17, <1>18
<1>. QED
  BY <1>0, <1>2, <1>4, <1>13, <1>14, <1>15, <1>19 DEF SameModel, TopThumbs

(***************************************************************************)
(* The package is written, and then read.                                  *)
(***************************************************************************)
RoundTripInv == WriteInv /\ (step = "rereading" => RereadInv)

LEMMA RoundTripStep ==
  ASSUME RoundTripInv, [WriterNext]_<<discVars, writeVars>>
  PROVE  RoundTripInv'
<1>1. WriteInv'
  BY WriteInvStep DEF RoundTripInv
<1>2. ASSUME step' = "rereading" PROVE RereadInv'
  <2>1. CASE UNCHANGED <<discVars, writeVars>>
    <3>1. step = "rereading" /\ RereadInv
      BY <1>2, <2>1 DEF RoundTripInv, writeVars
    <3>2. UNCHANGED <<before, content, zip, topRels, pkg, phase, rootFile, nonRootModels, ri, rj>>
      BY <2>1 DEF writeVars, discVars, cursors
    <3>3. Stored' /\ DiscoveryInv'
      BY <2>1, <3>1, <3>2, StoredStays, DiscoveryInvStep DEF RereadInv
    <3>4. Written' = Written
      BY <3>2 DEF Written
    <3>5. CoreRels' = CoreRels
      BY <3>2, <3>4 DEF CoreRels
    <3>6. TopSeen' = TopSeen /\ AllChilds' = AllChilds /\ CoreSeen' = CoreSeen
      BY <3>2, <3>5 DEF TopSeen, AllChilds, CoreSeen
    <3>. QED
      BY <3>1, <3>2, <3>3, <3>4, <3>6 DEF RereadInv
  <2>2. CASE ReadPackage
    <3>1. ProcessOPC /\ UNCHANGED writeVars /\ step = "rereading"
      BY <1>2, <2>2 DEF ReadPackage, writeVars
    <3>. QED
      BY <3>1, RereadStep DEF RoundTripInv
  <2>3. CASE Reopen
    <3>1. Source /\ Progress
      BY <2>3 DEF RoundTripInv, WriteInv, Reopen
    <3>. QED
      BY <2>3, <3>1, ReopenStep
  <2>4. CASE ReadAgain
    BY <1>2, <2>4 DEF ReadAgain, writeVars
  <2>5. CASE Encode
    BY <1>2, <2>5 DEF Encode, StartEncode, GoesOn, WriteAttachment, CreateRoot, AddRootRelationships,
       CreateChild, AddChildRelationships, CloseWriter, WriteError
  <2>. QED
    BY <2>1, <2>2, <2>3, <2>4, <2>5 DEF WriterNext
<1>. QED
  BY <1>1, <1>2 DEF RoundTripInv

(***************************************************************************)
(* A package that was written is read without an error and gives the model *)
(* it was written from (Encoder.Encode, then Decoder.processOPC).          *)
(***************************************************************************)
THEOREM ModelAlwaysSame == WriterSpec => []SameModel
<1>1. WriterInit => RoundTripInv
  BY WriteInvInit DEF RoundTripInv, WriterInit
<1>2. RoundTripInv /\ [WriterNext]_<<discVars, writeVars>> => RoundTripInv'
  BY RoundTripStep
<1>3. RoundTripInv => SameModel
  <2>1. CASE step = "rereading" /\ phase = "found"
    BY <2>1, RereadIsSame DEF RoundTripInv
  <2>2. CASE ~(step = "rereading" /\ phase = "found")
    BY <2>2 DEF RoundTripInv, RereadInv, SameModel
  <2>. QED
    BY <2>1, <2>2
<1>. QED
  BY <1>1, <1>2, <1>3, PTL DEF WriterSpec
=============================================================================
