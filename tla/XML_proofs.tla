------------------------------ MODULE XML_proofs -----------------------------
(***************************************************************************)
(* Proofs about the parser: that one map with a stack of what to undo is   *)
(* lexical scoping, for documents of any depth and any declarations; that  *)
(* its events are those of nested elements; and that the linked cells are  *)
(* a stack.                                                                *)
(*                                                                         *)
(* The invariant of the scopes says what is on the stack for every open    *)
(* element: how each of its declarations changed the bindings that were in *)
(* scope before it, then its name as those in scope with it translate it.  *)
(* So an element that ends restores the bindings outside it, and the end   *)
(* of the innermost open element is found on top however it is translated. *)
(*                                                                         *)
(* The invariant of the cells names the two lists: sequences of addresses  *)
(* that the next fields link, that share no cell and leave none out.       *)
(*                                                                         *)
(* That of the printer says of the elements that are open in what is       *)
(* printed that each declares what it declared where it was read, and is   *)
(* spelled as its end tag will be, and that the map undoes the bindings in *)
(* scope in it.                                                            *)
(***************************************************************************)
EXTENDS XMLPrinter, XMLCells, SequenceTheorems, FiniteSetTheorems, Recursion_proofs, TLAPS

Elem == [raw : RawNames, decls : Seq(Declared)]

(* The bindings inside the first i elements.                               *)
Env(elems, i) == Lexical(SubSeq(elems, 1, i))

(* The records of an element, above the first from ones.                   *)
Segment(s, from, env, e) ==
  /\ \A k \in 1..Len(e.decls) : s[from + k] = Undo(env, e.decls, k)
  /\ s[from + Len(e.decls) + 1] = StartOf(Translate(Bind(env, e.decls), e.raw))

(* b[i] is the height of the stack with the first i elements.              *)
Heights(s, elems, b) ==
  /\ b \in [0..Len(elems) -> Nat]
  /\ b[0] = 0 /\ b[Len(elems)] = Len(s)
  /\ \A i \in 1..Len(elems) : b[i] = b[i - 1] + Len(elems[i].decls) + 1
  /\ \A i, j \in 0..Len(elems) : i <= j => b[i] <= b[j]

Holds(s, elems, b) ==
  /\ Heights(s, elems, b)
  /\ \A i \in 1..Len(elems) : Segment(s, b[i - 1], Env(elems, i - 1), elems[i])

ScopesTypeOK ==
  /\ open \in Seq(Elem)
  /\ \E S : stk \in Seq(S)

ScopesInv ==
  /\ ScopesTypeOK
  /\ err = "none" => ns = Lexical(open) /\ \E b : Holds(stk, open, b)
  /\ needClose => err = "none" /\ open # <<>> /\ toClose = Last(open).raw

-----------------------------------------------------------------------------
LEMMA MinIs ==
  ASSUME NEW S, S \subseteq Nat, S # {}
  PROVE  Min(S) \in S /\ \A y \in S : Min(S) <= y
  BY LeastNat DEF Min

LEMMA MaxIs ==
  ASSUME NEW S, S \subseteq Nat, S # {}, NEW n \in Nat, \A y \in S : y <= n
  PROVE  Max(S) \in S /\ \A y \in S : y <= Max(S)
<1> DEFINE U == {u \in Nat : \A y \in S : y <= u}
<1>1. PICK u \in U : \A v \in U : u <= v
  BY LeastNat
<1>2. PICK y \in S : y = u
  <2>1. SUFFICES ASSUME u \notin S PROVE FALSE
    OBVIOUS
  <2>2. PICK y \in S : TRUE
    OBVIOUS
  <2>3. u # 0
    BY <2>1, <2>2
  <2>4. \A z \in S : z <= u - 1
    BY <2>1
  <2>5. u - 1 \in U
    BY <2>3, <2>4
  <2> QED
    BY <1>1, <2>5
<1>3. \E x \in S : \A z \in S : x >= z
  BY <1>2
<1>4. Max(S) \in S /\ \A z \in S : Max(S) >= z
  BY <1>3 DEF Max
<1>5. \A z \in S : z \in Nat
  OBVIOUS
<1> QED
  BY <1>4, <1>5

-----------------------------------------------------------------------------
Decls == Seq(Declared)

(* The declaration of a prefix that counts.                                *)
LEMMA LastForIs ==
  ASSUME NEW decls \in Decls, NEW p \in PrefixesOf(decls)
  PROVE  /\ LastFor(decls, p) \in 1..Len(decls)
         /\ decls[LastFor(decls, p)].prefix = p
         /\ \A k \in 1..Len(decls) : decls[k].prefix = p => k <= LastFor(decls, p)
<1> DEFINE S == {k \in DOMAIN decls : decls[k].prefix = p}
<1>1. DOMAIN decls = 1..Len(decls) /\ Len(decls) \in Nat
  BY DEF Decls
<1>2. S # {} /\ S \subseteq Nat /\ \A y \in S : y <= Len(decls)
  BY <1>1 DEF PrefixesOf
<1>3. Max(S) \in S /\ \A y \in S : y <= Max(S)
  BY <1>1, <1>2, MaxIs
<1> QED
  BY <1>1, <1>3 DEF LastFor

(* Bindings are functions.                                                 *)
IsEnv(env) == env = [p \in DOMAIN env |-> env[p]]

(* An element that is opened binds its declarations over what is in scope. *)
LEMMA LexicalAppend ==
  ASSUME NEW elems \in Seq(Elem), NEW e \in Elem
  PROVE  Lexical(Append(elems, e)) = Bind(Lexical(elems), e.decls)
<1> DEFINE more == Append(elems, e)
           n    == Len(elems)
           D    == UNION {PrefixesOf(elems[k].decls) : k \in DOMAIN elems}
<1>1. /\ n \in Nat /\ DOMAIN elems = 1..n /\ DOMAIN more = 1..(n + 1)
      /\ more[n + 1] = e /\ \A k \in 1..n : more[k] = elems[k]
  OBVIOUS
<1>2. UNION {PrefixesOf(more[k].decls) : k \in DOMAIN more} = D \cup PrefixesOf(e.decls)
  <2>1. \A p : (\E k \in 1..(n + 1) : p \in PrefixesOf(more[k].decls))
               <=> (\E k \in 1..n : p \in PrefixesOf(elems[k].decls)) \/ p \in PrefixesOf(e.decls)
    BY <1>1
  <2> QED
    BY <1>1, <2>1
<1>3. ASSUME NEW p \in PrefixesOf(e.decls)
      PROVE  more[Max(Declaring(more, p))] = e
  <2>1. /\ n + 1 \in Declaring(more, p) /\ Declaring(more, p) \subseteq Nat
        /\ \A k \in Declaring(more, p) : k <= n + 1
    BY <1>1, <1>3 DEF Declaring
  <2>2. Max(Declaring(more, p)) \in Declaring(more, p) /\ n + 1 <= Max(Declaring(more, p))
    BY <1>1, <2>1, MaxIs
  <2>3. Max(Declaring(more, p)) = n + 1
    BY <1>1, <2>1, <2>2
  <2> QED
    BY <1>1, <2>3
<1>4. ASSUME NEW p \in D, p \notin PrefixesOf(e.decls)
      PROVE  more[Max(Declaring(more, p))] = elems[Max(Declaring(elems, p))]
  <2>1. Declaring(more, p) = Declaring(elems, p)
    BY <1>1, <1>4 DEF Declaring
  <2>2. /\ Declaring(elems, p) # {} /\ Declaring(elems, p) \subseteq Nat
        /\ \A k \in Declaring(elems, p) : k <= n
    BY <1>1, <1>4 DEF Declaring
  <2>3. Max(Declaring(elems, p)) \in 1..n
    BY <1>1, <2>2, MaxIs DEF Declaring
  <2> QED
    BY <1>1, <2>1, <2>3
<1>5. DOMAIN Lexical(elems) = D
  BY DEF Lexical
<1> HIDE DEF more, D
<1>6. Lexical(more) = [p \in D \cup PrefixesOf(e.decls) |->
                         LET decls == more[Max(Declaring(more, p))].decls
                         IN  decls[LastFor(decls, p)].uri]
  BY <1>2 DEF Lexical
<1>7. \A p \in D : Lexical(elems)[p] = LET decls == elems[Max(Declaring(elems, p))].decls
                                       IN  decls[LastFor(decls, p)].uri
  BY DEF Lexical, D
<1>8. ASSUME NEW p \in D \cup PrefixesOf(e.decls)
      PROVE  (LET decls == more[Max(Declaring(more, p))].decls
              IN  decls[LastFor(decls, p)].uri)
             = IF p \in PrefixesOf(e.decls) THEN e.decls[LastFor(e.decls, p)].uri ELSE Lexical(elems)[p]
  <2>1. CASE p \in PrefixesOf(e.decls)
    BY ONLY <1>3, <2>1
  <2>2. CASE p \notin PrefixesOf(e.decls)
    BY ONLY <1>4, <1>7, <1>8, <2>2
  <2> QED
    BY ONLY <2>1, <2>2
<1>9. Bind(Lexical(elems), e.decls) =
        [p \in D \cup PrefixesOf(e.decls) |->
           IF p \in PrefixesOf(e.decls) THEN e.decls[LastFor(e.decls, p)].uri ELSE Lexical(elems)[p]]
  BY ONLY <1>5 DEF Bind
<1>10. Lexical(more) = Bind(Lexical(elems), e.decls)
  BY ONLY <1>6, <1>8, <1>9
<1> QED
  BY <1>10 DEF more

LEMMA LexicalOfNone == Lexical(<<>>) = <<>>
<1>1. UNION {PrefixesOf(<<>>[k].decls) : k \in DOMAIN <<>>} = {}
  OBVIOUS
<1> QED
  BY <1>1 DEF Lexical

LEMMA LexicalIsEnv == ASSUME NEW elems PROVE IsEnv(Lexical(elems))
  BY DEF Lexical, IsEnv

-----------------------------------------------------------------------------
LEMMA RecordIs ==
  ASSUME NEW p, NEW env, NEW n, NEW u, NEW r,
         r = [kind |-> "ns", prefix |-> p, ok |-> p \in DOMAIN env, name |-> n, uri |-> u]
  PROVE  r.kind = "ns" /\ r.prefix = p /\ (r.ok <=> p \in DOMAIN env) /\ r.uri = u
<1>1. r.kind = "ns"
  OBVIOUS
<1>2. r.prefix = p
  OBVIOUS
<1>3. r.ok <=> p \in DOMAIN env
  BY Zenon
<1>4. r.uri = u
  OBVIOUS
<1> QED
  BY <1>1, <1>2, <1>3, <1>4

LEMMA UndoIs ==
  ASSUME NEW env, NEW decls, NEW k, NEW before, before = Bind(env, SubSeq(decls, 1, k - 1)),
         NEW r, r = Undo(env, decls, k)
  PROVE  /\ r.kind = "ns" /\ r.prefix = decls[k].prefix
         /\ r.ok <=> decls[k].prefix \in DOMAIN before
         /\ decls[k].prefix \in DOMAIN before => r.uri = before[decls[k].prefix]
<1>1. PICK p, u : p = decls[k].prefix /\ u = IF p \in DOMAIN before THEN before[p] ELSE ""
  OBVIOUS
<1>2. r = [kind |-> "ns", prefix |-> p, ok |-> p \in DOMAIN before, name |-> NoName, uri |-> u]
  BY <1>1 DEF Undo, UndoOf
<1>3. r.kind = "ns" /\ r.prefix = p /\ (r.ok <=> p \in DOMAIN before) /\ r.uri = u
  BY <1>2, RecordIs
<1> QED
  BY <1>1, <1>3

(* Undoing the records of an element, of which the oldest for a prefix has *)
(* the last word, restores what was in scope outside it.                   *)
LEMMA UndoingRestores ==
  ASSUME NEW env, IsEnv(env), NEW decls \in Decls, ns = Bind(env, decls),
         DOMAIN Undone = 1..Len(decls),
         \A k \in 1..Len(decls) : Undone[k] = Undo(env, decls, k)
  PROVE  Restored = env
<1>1. \A k \in 1..Len(decls) : Undone[k].prefix = decls[k].prefix
  BY UndoIs
<1>2. DOMAIN decls = 1..Len(decls) /\ Len(decls) \in Nat
  BY DEF Decls
<1>3. PrefixesOf(Undone) = PrefixesOf(decls)
  BY <1>1, <1>2 DEF PrefixesOf
<1>4. ASSUME NEW p \in PrefixesOf(Undone)
      PROVE  /\ Undone[UndoneFor(p)].ok <=> p \in DOMAIN env
             /\ p \in DOMAIN env => Undone[UndoneFor(p)].uri = env[p]
  <2> DEFINE S == {k \in DOMAIN Undone : Undone[k].prefix = p}
             m == UndoneFor(p)
             before == Bind(env, SubSeq(decls, 1, m - 1))
  <2>1. S \subseteq Nat /\ S # {}
    BY <1>2, <1>4 DEF PrefixesOf
  <2>2. UndoneFor(p) = Min(S)
    BY DEF UndoneFor
  <2>3. UndoneFor(p) \in S /\ \A k \in S : UndoneFor(p) <= k
    BY <2>1, <2>2, MinIs
  <2>4. m \in 1..Len(decls) /\ decls[m].prefix = p /\ \A j \in 1..(m - 1) : decls[j].prefix # p
    BY <1>1, <1>2, <2>3
  <2>5. /\ DOMAIN SubSeq(decls, 1, m - 1) = 1..(m - 1)
        /\ \A j \in 1..(m - 1) : SubSeq(decls, 1, m - 1)[j] = decls[j]
    BY <1>2, <2>4 DEF Decls
  <2>6. p \notin PrefixesOf(SubSeq(decls, 1, m - 1))
    BY <2>4, <2>5 DEF PrefixesOf
  <2>7. (p \in DOMAIN before <=> p \in DOMAIN env) /\ (p \in DOMAIN env => before[p] = env[p])
    BY <2>6 DEF Bind
  <2>8. Undone[m] = Undo(env, decls, m)
    BY <2>4
  <2> HIDE DEF before, m
  <2>9. (Undone[m].ok <=> p \in DOMAIN before) /\ (p \in DOMAIN before => Undone[m].uri = before[p])
    BY <2>4, <2>8, UndoIs DEF before
  <2> QED
    BY <2>7, <2>9 DEF m
<1>5. DOMAIN ns = DOMAIN env \cup PrefixesOf(Undone)
  BY <1>3 DEF Bind
<1>6. \A p \in DOMAIN ns : p \notin PrefixesOf(Undone) => ns[p] = env[p]
  BY <1>3 DEF Bind
<1>7. {p \in DOMAIN ns : p \in PrefixesOf(Undone) => Undone[UndoneFor(p)].ok} = DOMAIN env
  BY <1>4, <1>5
<1>8. \A p \in DOMAIN env : (IF p \in PrefixesOf(Undone) THEN Undone[UndoneFor(p)].uri ELSE ns[p]) = env[p]
  BY <1>4, <1>5, <1>6
<1> QED
  BY <1>7, <1>8 DEF IsEnv, Restored

-----------------------------------------------------------------------------
(* The elements around an element, of some that are open.                  *)
LEMMA FirstOfMore ==
  ASSUME NEW elems \in Seq(Elem), NEW e \in Elem, NEW i \in 0..Len(elems)
  PROVE  SubSeq(Append(elems, e), 1, i) = SubSeq(elems, 1, i)
  OBVIOUS

LEMMA FirstOfFront ==
  ASSUME NEW elems \in Seq(Elem), elems # <<>>, NEW i \in 0..(Len(elems) - 1)
  PROVE  SubSeq(Front(elems), 1, i) = SubSeq(elems, 1, i)
  BY DEF Front

LEMMA EnvOfAll ==
  ASSUME NEW elems \in Seq(Elem), elems # <<>>, NEW n, n = Len(elems)
  PROVE  /\ n \in Nat \ {0} /\ elems[n] \in Elem
         /\ Lexical(elems) = Bind(Env(elems, n - 1), elems[n].decls)
         /\ Lexical(Front(elems)) = Env(elems, n - 1)
         /\ Front(elems) \in Seq(Elem) /\ Len(Front(elems)) = n - 1
<1>1. n \in Nat \ {0} /\ elems[n] \in Elem
  BY ElementOfSeq
<1>2. Front(elems) \in Seq(Elem) /\ Len(Front(elems)) = n - 1 /\ Front(elems) = SubSeq(elems, 1, n - 1)
  BY <1>1, SubSeqProperties DEF Front
<1>3. elems = Append(Front(elems), elems[n])
  BY <1>1, <1>2
<1>4. Lexical(elems) = Bind(Lexical(Front(elems)), elems[n].decls)
  BY <1>1, <1>2, <1>3, LexicalAppend
<1> QED
  BY <1>1, <1>2, <1>4 DEF Env

-----------------------------------------------------------------------------
(* The records of one more element go on top of those of the others.       *)
LEMMA PushedIs ==
  ASSUME NEW env, NEW decls \in Decls, NEW name
  PROVE  /\ \E T : Pushed(env, decls, name) \in Seq(T)
         /\ Len(decls) \in Nat /\ Len(Pushed(env, decls, name)) = Len(decls) + 1
         /\ \A k \in 1..Len(decls) : Pushed(env, decls, name)[k] = Undo(env, decls, k)
         /\ Pushed(env, decls, name)[Len(decls) + 1] = StartOf(name)
<1> DEFINE P == Pushed(env, decls, name)
           d == Len(decls)
           U == {Undo(env, decls, k) : k \in 1..d}
           u == [k \in 1..d |-> Undo(env, decls, k)]
<1>1. d \in Nat /\ DOMAIN decls = 1..d
  BY DEF Decls
<1>2. u \in Seq(U) /\ Len(u) = d
  BY <1>1
<1>3. P = u \o <<StartOf(name)>>
  BY <1>1 DEF Pushed
<1>4. \A k \in 1..d : u[k] = Undo(env, decls, k)
  OBVIOUS
<1> HIDE DEF u
<1>5. u \in Seq(U \cup {StartOf(name)}) /\ <<StartOf(name)>> \in Seq(U \cup {StartOf(name)})
  BY <1>2
<1>6. P \in Seq(U \cup {StartOf(name)})
  BY <1>3, <1>5
<1> QED
  BY <1>1, <1>2, <1>3, <1>4, <1>5, <1>6

LEMMA HoldsAppend ==
  ASSUME NEW elems \in Seq(Elem), NEW S, NEW s \in Seq(S), NEW b, Holds(s, elems, b),
         NEW e \in Elem, NEW name, name = Translate(Lexical(Append(elems, e)), e.raw)
  PROVE  /\ \E T : s \o Pushed(Lexical(elems), e.decls, name) \in Seq(T)
         /\ \E c : Holds(s \o Pushed(Lexical(elems), e.decls, name), Append(elems, e), c)
<1>0. PICK n, d, h, c, env, more, t :
         /\ n = Len(elems) /\ d = Len(e.decls) /\ h = Len(s)
         /\ c = [i \in 0..(n + 1) |-> IF i = n + 1 THEN h + d + 1 ELSE b[i]]
         /\ env = Lexical(elems) /\ more = Append(elems, e)
         /\ t = s \o Pushed(env, e.decls, name)
  OBVIOUS
<1>1. /\ n \in Nat /\ h \in Nat /\ Len(more) = n + 1 /\ more[n + 1] = e
      /\ \A i \in 1..n : more[i] = elems[i]
  BY <1>0
<1>2. e.decls \in Decls
  BY DEF Elem, Decls
<1>3. PICK P : P = Pushed(env, e.decls, name)
  OBVIOUS
<1>4. /\ \E T : P \in Seq(T)
      /\ d \in Nat /\ Len(P) = d + 1
      /\ \A k \in 1..d : P[k] = Undo(env, e.decls, k)
      /\ P[d + 1] = StartOf(name)
  BY <1>0, <1>2, <1>3, PushedIs
<1>5. PICK T : P \in Seq(T)
  BY <1>4
<1>6. PICK U : s \in Seq(U) /\ P \in Seq(U) /\ t = s \o P
  <2>1. s \in Seq(S \cup T) /\ P \in Seq(S \cup T)
    BY <1>5
  <2> QED
    BY <1>0, <1>3, <2>1
<1>7. /\ t \in Seq(U) /\ Len(t) = h + d + 1
      /\ \A j \in 1..h : t[j] = s[j]
      /\ \A k \in 1..(d + 1) : t[h + k] = P[k]
  <2>1. /\ t \in Seq(U) /\ Len(t) = Len(s) + Len(P)
        /\ \A j \in 1..Len(t) : t[j] = IF j <= Len(s) THEN s[j] ELSE P[j - Len(s)]
    BY <1>6, ConcatProperties
  <2>2. Len(t) = h + d + 1
    BY <1>0, <1>1, <1>4, <2>1
  <2>3. \A j \in 1..Len(t) : t[j] = IF j <= h THEN s[j] ELSE P[j - h]
    BY <1>0, <2>1
  <2>4. \A j \in 1..h : t[j] = s[j]
    BY <1>1, <1>4, <2>2, <2>3
  <2>5. ASSUME NEW k \in 1..(d + 1) PROVE t[h + k] = P[k]
    <3>1. PICK j : j = h + k
      OBVIOUS
    <3>2. j \in 1..Len(t) /\ ~(j <= h) /\ j - h = k
      BY <1>1, <1>4, <2>2, <3>1
    <3>3. t[j] = P[j - h]
      BY <2>3, <3>2
    <3> QED
      BY <3>1, <3>2, <3>3
  <2> QED
    BY <2>1, <2>2, <2>4, <2>5
<1>8. /\ b \in [0..n -> Nat] /\ b[0] = 0 /\ b[n] = h
      /\ \A i \in 1..n : b[i] = b[i - 1] + Len(elems[i].decls) + 1
      /\ \A i, j \in 0..n : i <= j => b[i] <= b[j]
  BY <1>0 DEF Holds, Heights
<1>9. c[n + 1] = h + d + 1 /\ \A i \in 0..n : c[i] = b[i]
  BY <1>0, <1>1
<1>10. Heights(t, more, c)
  <2>1. c \in [0..(n + 1) -> Nat]
    BY <1>0, <1>1, <1>4, <1>8
  <2>2. c[0] = 0 /\ c[n + 1] = Len(t)
    BY <1>1, <1>7, <1>8, <1>9
  <2>3. ASSUME NEW i \in 1..(n + 1)
        PROVE  c[i] = c[i - 1] + Len(more[i].decls) + 1
    <3>1. CASE i = n + 1
      <4>1. c[n] = h /\ more[i] = e /\ i - 1 = n
        BY <1>1, <1>8, <1>9, <3>1
      <4> QED
        BY <1>0, <1>4, <1>9, <3>1, <4>1
    <3>2. CASE i \in 1..n
      <4>1. c[i] = b[i] /\ c[i - 1] = b[i - 1] /\ more[i] = elems[i]
        <5>1. i \in 0..n /\ i - 1 \in 0..n
          BY <1>1, <3>2
        <5> QED
          BY <1>1, <1>9, <3>2, <5>1
      <4> QED
        BY <1>8, <3>2, <4>1
    <3> QED
      BY <1>1, <3>1, <3>2
  <2>4. ASSUME NEW i \in 0..(n + 1), NEW j \in 0..(n + 1), i <= j
        PROVE  c[i] <= c[j]
    <3>1. \A k \in 0..n : b[k] <= h /\ b[k] \in Nat
      BY <1>1, <1>8
    <3>2. CASE j \in 0..n
      <4>1. i \in 0..n
        BY <1>1, <2>4, <3>2
      <4> QED
        BY <1>8, <1>9, <2>4, <3>2, <4>1
    <3>3. CASE j = n + 1 /\ i \in 0..n
      <4>1. c[j] = h + d + 1 /\ c[i] = b[i]
        BY <1>9, <3>3
      <4>2. b[i] <= h /\ b[i] \in Nat
        BY <3>1, <3>3
      <4>3. h \in Nat /\ d \in Nat
        BY <1>1, <1>4
      <4> QED
        BY ONLY <4>1, <4>2, <4>3
    <3>4. CASE j = n + 1 /\ i = n + 1
      BY <1>1, <1>4, <1>9, <3>4
    <3> QED
      BY <1>1, <2>4, <3>2, <3>3, <3>4
  <2> QED
    BY <1>1, <2>1, <2>2, <2>3, <2>4 DEF Heights
<1>11. ASSUME NEW i \in 1..n
       PROVE  Segment(t, c[i - 1], Env(more, i - 1), more[i])
  <2>1. Env(more, i - 1) = Env(elems, i - 1)
    <3>1. i - 1 \in 0..Len(elems)
      BY <1>0, <1>1
    <3>2. SubSeq(more, 1, i - 1) = SubSeq(elems, 1, i - 1)
      BY <1>0, <3>1, FirstOfMore
    <3> QED
      BY <3>2 DEF Env
  <2>2. Segment(s, b[i - 1], Env(elems, i - 1), elems[i])
    BY <1>0 DEF Holds
  <2>3. PICK from, m : from = b[i - 1] /\ m = Len(elems[i].decls)
    OBVIOUS
  <2>4. m \in Nat
    BY <1>0, <2>3, ElementOfSeq DEF Elem
  <2>5. c[i - 1] = from /\ from \in Nat /\ from + m + 1 <= h
    <3>1. i \in 1..n /\ i - 1 \in 0..n /\ i \in 0..n /\ n \in 0..n
      BY <1>0, <1>1
    <3>2. b[i] = from + m + 1 /\ c[i - 1] = from
      BY ONLY <1>8, <1>9, <2>3, <3>1
    <3>3. b[i - 1] \in Nat /\ b[i] <= b[n] /\ b[n] = h
      BY ONLY <1>1, <1>8, <3>1
    <3> QED
      BY ONLY <2>3, <3>2, <3>3
  <2>6. \A k \in 1..m : from + k \in 1..h
    BY <1>1, <2>4, <2>5
  <2>7. from + m + 1 \in 1..h
    BY <1>1, <2>4, <2>5
  <2>8. /\ \A k \in 1..m : t[from + k] = s[from + k]
        /\ t[from + m + 1] = s[from + m + 1]
    BY <1>7, <2>6, <2>7
  <2>9. more[i] = elems[i]
    BY <1>1
  <2>10. PICK x, before : x = elems[i] /\ before = Env(elems, i - 1)
    OBVIOUS
  <2>11. Segment(s, from, before, x) /\ m = Len(x.decls)
    BY ONLY <2>2, <2>3, <2>10
  <2>12. Segment(t, from, before, x)
    BY ONLY <2>8, <2>11 DEF Segment
  <2> QED
    BY ONLY <2>1, <2>5, <2>9, <2>10, <2>12
<1>12. Segment(t, c[n], Env(more, n), e)
  <2>1. Env(more, n) = env
    <3>1. SubSeq(more, 1, n) = SubSeq(elems, 1, n)
      BY <1>0, <1>1, FirstOfMore
    <3>2. SubSeq(elems, 1, n) = elems
      BY <1>0, SubSeqFull
    <3> QED
      BY <1>0, <3>1, <3>2 DEF Env
  <2>2. Lexical(more) = Bind(env, e.decls)
    BY <1>0, LexicalAppend
  <2>3. c[n] = h
    BY <1>1, <1>8, <1>9
  <2>4. t[h + d + 1] = StartOf(Translate(Lexical(more), e.raw))
    <3>1. d + 1 \in 1..(d + 1) /\ h + d + 1 = h + (d + 1)
      BY <1>1, <1>4
    <3>2. t[h + (d + 1)] = P[d + 1]
      BY <1>7, <3>1
    <3> QED
      BY <1>0, <1>4, <3>1, <3>2
  <2>5. \A k \in 1..d : t[h + k] = Undo(env, e.decls, k)
    BY <1>1, <1>4, <1>7
  <2>6. Segment(t, h, env, e)
    BY ONLY <1>0, <2>2, <2>4, <2>5 DEF Segment
  <2> QED
    BY ONLY <2>1, <2>3, <2>6
<1>13. Holds(t, more, c)
  <2>1. ASSUME NEW i \in 1..(n + 1)
        PROVE  Segment(t, c[i - 1], Env(more, i - 1), more[i])
    <3>1. CASE i \in 1..n
      BY <1>11, <3>1
    <3>2. CASE i = n + 1
      <4>1. i - 1 = n /\ more[i] = e
        BY <1>1, <3>2
      <4> QED
        BY <1>12, <4>1
    <3> QED
      BY <1>1, <3>1, <3>2
  <2> QED
    BY <1>1, <1>10, <2>1 DEF Holds
<1> QED
  BY <1>0, <1>7, <1>13

LEMMA StartIs == ASSUME NEW name PROVE StartOf(name).kind = "start" /\ StartOf(name).name = name
  BY Zenon DEF StartOf

(* The records of the innermost element are those on top.                  *)
LEMMA TopIs ==
  ASSUME NEW elems \in Seq(Elem), elems # <<>>, NEW S, NEW s \in Seq(S), NEW b, Holds(s, elems, b),
         NEW n, n = Len(elems), NEW decls, decls = elems[n].decls, NEW low, low = b[n - 1]
  PROVE  /\ decls \in Decls /\ Len(decls) \in Nat /\ low \in Nat
         /\ Len(s) = low + Len(decls) + 1
         /\ s[Len(s)] = StartOf(Translate(Lexical(elems), elems[n].raw))
         /\ \A k \in 1..Len(decls) : s[low + k] = Undo(Env(elems, n - 1), decls, k)
         /\ low # 0 => s[low].kind = "start"
<1>1. n \in Nat \ {0} /\ elems[n] \in Elem /\ Lexical(elems) = Bind(Env(elems, n - 1), decls)
  BY EnvOfAll
<1>2. decls \in Decls /\ Len(decls) \in Nat
  BY <1>1 DEF Elem, Decls
<1>3. n \in 1..n /\ n - 1 \in 0..n
  BY <1>1
<1>4. /\ b \in [0..n -> Nat] /\ b[0] = 0 /\ b[n] = Len(s)
      /\ \A i \in 1..n : b[i] = b[i - 1] + Len(elems[i].decls) + 1
  BY DEF Holds, Heights
<1>5. low \in Nat /\ Len(s) = low + Len(decls) + 1
  BY <1>3, <1>4
<1>6. Segment(s, low, Env(elems, n - 1), elems[n])
  BY <1>3 DEF Holds
<1>7. ASSUME low # 0 PROVE s[low].kind = "start"
  <2>1. n - 1 # 0
    BY <1>4, <1>7
  <2>2. PICK m : m = n - 1
    OBVIOUS
  <2>3. m \in 1..n /\ m - 1 \in 0..n
    BY <1>1, <2>1, <2>2
  <2>4. Segment(s, b[m - 1], Env(elems, m - 1), elems[m]) /\ b[m] = b[m - 1] + Len(elems[m].decls) + 1
    BY <1>4, <2>3 DEF Holds
  <2>5. s[low] = StartOf(Translate(Bind(Env(elems, m - 1), elems[m].decls), elems[m].raw))
    BY <2>2, <2>4 DEF Segment
  <2> QED
    BY <2>5, StartIs
<1> QED
  BY <1>1, <1>2, <1>5, <1>6, <1>7 DEF Segment

LEMMA TopUndoes ==
  ASSUME NEW elems \in Seq(Elem), elems # <<>>, NEW s, NEW b, Holds(s, elems, b),
         NEW n, n = Len(elems), NEW decls, decls = elems[n].decls, NEW low, low = b[n - 1]
  PROVE  \A k \in 1..Len(decls) : s[low + k] = Undo(Env(elems, n - 1), decls, k)
<1>1. n \in 1..n
  <2>1. n \in Nat \ {0}
    BY EnvOfAll
  <2> QED
    BY <2>1
<1>2. PICK before, e : before = Env(elems, n - 1) /\ e = elems[n]
  OBVIOUS
<1>3. Segment(s, low, before, e) /\ decls = e.decls
  BY <1>1, <1>2 DEF Holds
<1>4. \A k \in 1..Len(decls) : s[low + k] = Undo(before, decls, k)
  BY ONLY <1>3 DEF Segment
<1> QED
  BY <1>2, <1>4

LEMMA HoldsFront ==
  ASSUME NEW elems \in Seq(Elem), elems # <<>>, NEW S, NEW s \in Seq(S), NEW b, Holds(s, elems, b),
         NEW n, n = Len(elems), NEW t, t = SubSeq(s, 1, b[n - 1])
  PROVE  t \in Seq(S) /\ \E c : Holds(t, Front(elems), c)
<1>1. /\ n \in Nat \ {0} /\ Front(elems) \in Seq(Elem) /\ Len(Front(elems)) = n - 1
      /\ \A i \in 1..(n - 1) : Front(elems)[i] = elems[i]
  BY EnvOfAll DEF Front
<1>2. PICK low, m, c : low = b[n - 1] /\ m = n - 1 /\ c = [i \in 0..m |-> b[i]]
  OBVIOUS
<1>3. /\ b \in [0..n -> Nat] /\ b[0] = 0 /\ b[n] = Len(s)
      /\ \A i \in 1..n : b[i] = b[i - 1] + Len(elems[i].decls) + 1
      /\ \A i, j \in 0..n : i <= j => b[i] <= b[j]
  BY DEF Holds, Heights
<1>4. m \in Nat /\ m \in 0..n /\ n \in 0..n /\ m <= n /\ 0..m \subseteq 0..n /\ 1..m \subseteq 1..n
  BY <1>1, <1>2
<1>5. low \in Nat /\ low <= Len(s) /\ low = b[m] /\ Len(s) \in Nat
  BY <1>2, <1>3, <1>4
<1>6. t \in Seq(S) /\ Len(t) = low /\ \A j \in 1..low : t[j] = s[j]
  BY <1>2, <1>5, SubSeqProperties
<1>7. \A i \in 0..m : c[i] = b[i] /\ b[i] \in Nat /\ b[i] <= low
  <2>1. \A i \in 0..m : c[i] = b[i] /\ i \in 0..n /\ i <= m
    BY <1>2, <1>4
  <2> QED
    BY <1>3, <1>4, <1>5, <2>1
<1>8. \A i \in 1..m : i \in 0..m /\ i - 1 \in 0..m /\ i \in 1..n
  BY <1>4
<1>9. Heights(t, Front(elems), c)
  <2>1. c \in [0..m -> Nat]
    BY <1>2, <1>3, <1>4
  <2>2. c[0] = 0 /\ c[m] = Len(t)
    <3>1. 0 \in 0..m /\ m \in 0..m
      BY <1>4
    <3> QED
      BY <1>3, <1>5, <1>6, <1>7, <3>1
  <2>3. \A i \in 1..m : c[i] = c[i - 1] + Len(Front(elems)[i].decls) + 1
    BY <1>1, <1>2, <1>3, <1>7, <1>8
  <2>4. \A i, j \in 0..m : i <= j => c[i] <= c[j]
    BY <1>3, <1>4, <1>7
  <2> QED
    BY <1>1, <1>2, <2>1, <2>2, <2>3, <2>4 DEF Heights
<1>10. ASSUME NEW i \in 1..m
       PROVE  Segment(t, c[i - 1], Env(Front(elems), i - 1), Front(elems)[i])
  <2>1. Env(Front(elems), i - 1) = Env(elems, i - 1)
    <3>1. i - 1 \in 0..(Len(elems) - 1)
      BY <1>2, <1>4, <1>8
    <3> QED
      BY <3>1, FirstOfFront DEF Env
  <2>2. Segment(s, b[i - 1], Env(elems, i - 1), elems[i])
    BY <1>8 DEF Holds
  <2>3. PICK from, d : from = b[i - 1] /\ d = Len(elems[i].decls)
    OBVIOUS
  <2>4. d \in Nat
    BY <1>8, <2>3, ElementOfSeq DEF Elem
  <2>5. c[i - 1] = from /\ from \in Nat /\ from + d + 1 <= low
    BY <1>3, <1>7, <1>8, <2>3
  <2>6. \A k \in 1..d : from + k \in 1..low
    BY <1>5, <2>4, <2>5
  <2>7. from + d + 1 \in 1..low
    BY <1>5, <2>4, <2>5
  <2>8. /\ \A k \in 1..d : t[from + k] = s[from + k]
        /\ t[from + d + 1] = s[from + d + 1]
    BY <1>6, <2>6, <2>7
  <2>9. Front(elems)[i] = elems[i]
    BY <1>1, <1>2
  <2> QED
    BY <2>1, <2>2, <2>3, <2>5, <2>8, <2>9 DEF Segment
<1>11. Holds(t, Front(elems), c)
  BY <1>1, <1>2, <1>9, <1>10 DEF Holds
<1> QED
  BY <1>6, <1>11

-----------------------------------------------------------------------------
LEMMA Above ==
  ASSUME NEW low \in Nat, NEW d \in Nat, NEW k \in Nat, ~(k <= low), k \in 1..(low + d)
  PROVE  k - low \in 1..d /\ k = low + (k - low)
  OBVIOUS

LEMMA AboveIs ==
  ASSUME NEW S, NEW s \in Seq(S), NEW low \in Nat, NEW d \in Nat, Len(s) = low + d + 1
  PROVE  /\ DOMAIN SubSeq(s, low + 1, low + d) = 1..d
         /\ \A k \in 1..d : SubSeq(s, low + 1, low + d)[k] = s[low + k]
<1>1. PICK lo, hi : lo = low + 1 /\ hi = low + d
  OBVIOUS
<1>2. hi - lo + 1 = d /\ lo \in Int /\ hi \in Int
  BY <1>1
<1>3. DOMAIN SubSeq(s, lo, hi) = 1..d /\ \A k \in 1..d : SubSeq(s, lo, hi)[k] = s[lo + k - 1]
  BY <1>2
<1>4. \A k \in 1..d : lo + k - 1 = low + k
  BY <1>1
<1> QED
  BY <1>1, <1>3, <1>4

(* What popElement keeps is below the records of the innermost element.    *)
LEMMA KeptIs ==
  ASSUME NEW S, stk \in Seq(S), open \in Seq(Elem), open # <<>>, NEW b, Holds(stk, open, b),
         NEW n, n = Len(open), NEW decls, decls = open[n].decls, NEW low, low = b[n - 1]
  PROVE  /\ Kept = low
         /\ DOMAIN Undone = 1..Len(decls)
         /\ \A k \in 1..Len(decls) : Undone[k] = Undo(Env(open, n - 1), decls, k)
<1>1. PICK d, h : d = Len(decls) /\ h = Len(stk)
  OBVIOUS
<1>2. /\ \A k \in 1..d : stk[low + k] = Undo(Env(open, n - 1), decls, k)
      /\ low # 0 => stk[low].kind = "start"
  <2>0. PICK s, elems : s = stk /\ elems = open
    OBVIOUS
  <2>a. /\ s \in Seq(S) /\ elems \in Seq(Elem) /\ elems # <<>> /\ Holds(s, elems, b)
        /\ n = Len(elems) /\ decls = elems[n].decls /\ low = b[n - 1]
    BY <2>0
  <2>b. /\ \A k \in 1..Len(decls) : s[low + k] = Undo(Env(elems, n - 1), decls, k)
        /\ low # 0 => s[low].kind = "start"
    <3>1. low # 0 => s[low].kind = "start"
      BY ONLY <2>a, TopIs
    <3>2. \A k \in 1..Len(decls) : s[low + k] = Undo(Env(elems, n - 1), decls, k)
      BY ONLY <2>a, TopUndoes
    <3> QED
      BY <3>1, <3>2
  <2>1. /\ \A k \in 1..Len(decls) : stk[low + k] = Undo(Env(open, n - 1), decls, k)
        /\ low # 0 => stk[low].kind = "start"
    BY ONLY <2>0, <2>b
  <2> QED
    BY <1>1, <2>1
<1>3. d \in Nat /\ low \in Nat /\ h = low + d + 1
  BY <1>1, TopIs
<1>4. PICK K : K = {0} \cup {k \in 1..(h - 1) : stk[k].kind = "start"}
  OBVIOUS
<1>5. low \in K
  <2>1. low # 0 => low \in 1..(h - 1)
    BY <1>3
  <2> QED
    BY <1>2, <1>4, <2>1
<1>6. ASSUME NEW k \in K PROVE k \in Nat /\ k <= low
  <2>1. k \in Nat
    BY <1>3, <1>4
  <2>2. SUFFICES ASSUME ~(k <= low) PROVE FALSE
    BY <2>1
  <2>3. k \in 1..(h - 1) /\ stk[k].kind = "start"
    BY <1>3, <1>4, <2>2
  <2>4. PICK j : j = k - low
    OBVIOUS
  <2>5. j \in 1..d /\ k = low + j
    <3>1. k \in 1..(low + d)
      <4>1. h - 1 = low + d
        BY <1>3
      <4> QED
        BY <2>3, <4>1
    <3> QED
      BY <1>3, <2>1, <2>2, <2>4, <3>1, Above
  <2>6. stk[k].kind = "ns"
    BY <1>2, <2>5, UndoIs
  <2> QED
    BY <2>3, <2>6
<1>7. Max(K) \in K /\ low <= Max(K)
  BY <1>3, <1>5, <1>6, MaxIs
<1>8. Max(K) = low
  BY <1>3, <1>6, <1>7
<1>9. Kept = low
  BY <1>1, <1>4, <1>8 DEF Kept
<1>10. Undone = SubSeq(stk, low + 1, low + d)
  <2>1. h - 1 = low + d
    BY <1>3
  <2> QED
    BY <1>1, <1>9, <2>1 DEF Undone
<1>11. DOMAIN Undone = 1..d /\ \A k \in 1..d : Undone[k] = stk[low + k]
  <2>1. PICK s : s = stk
    OBVIOUS
  <2>2. s \in Seq(S)
    BY <2>1
  <2>3. Len(s) = low + d + 1
    BY <1>1, <1>3, <2>1
  <2>4. d \in Nat /\ low \in Nat
    BY <1>3
  <2>5. /\ DOMAIN SubSeq(s, low + 1, low + d) = 1..d
        /\ \A k \in 1..d : SubSeq(s, low + 1, low + d)[k] = s[low + k]
    BY ONLY <2>2, <2>3, <2>4, AboveIs
  <2> QED
    BY <1>10, <2>1, <2>5
<1> QED
  BY <1>1, <1>2, <1>9, <1>11

LEMMA RestoredIs ==
  ASSUME NEW S, stk \in Seq(S), open \in Seq(Elem), open # <<>>, NEW b, Holds(stk, open, b),
         ns = Lexical(open)
  PROVE  Restored = Lexical(Front(open))
<1>1. PICK n, decls, low, env :
        n = Len(open) /\ decls = open[n].decls /\ low = b[n - 1] /\ env = Env(open, n - 1)
  OBVIOUS
<1>2. /\ decls \in Decls /\ IsEnv(env)
      /\ ns = Bind(env, decls) /\ Lexical(Front(open)) = env
  <2>1. decls \in Decls
    BY <1>1, TopIs
  <2> QED
    BY <1>1, <2>1, EnvOfAll, LexicalIsEnv DEF Env
<1>3. DOMAIN Undone = 1..Len(decls) /\ \A k \in 1..Len(decls) : Undone[k] = Undo(env, decls, k)
  BY <1>1, KeptIs
<1> QED
  BY <1>2, <1>3, UndoingRestores

LEMMA ClosesIs ==
  ASSUME NEW S, stk \in Seq(S), open \in Seq(Elem), open # <<>>, NEW b, Holds(stk, open, b),
         ns = Lexical(open), NEW raw, raw = Last(open).raw
  PROVE  Closes(Translate(ns, raw))
<1>1. PICK n, decls, low : n = Len(open) /\ decls = open[n].decls /\ low = b[n - 1]
  OBVIOUS
<1>2. /\ Len(decls) \in Nat /\ low \in Nat /\ Len(stk) = low + Len(decls) + 1
      /\ stk[Len(stk)] = StartOf(Translate(Lexical(open), open[n].raw))
  BY <1>1, TopIs
<1>3. Len(stk) # 0 /\ stk # <<>>
  BY <1>2
<1>4. Top = StartOf(Translate(ns, raw))
  BY <1>1, <1>2 DEF Top, Last
<1> QED
  BY <1>3, <1>4, StartIs DEF Closes

-----------------------------------------------------------------------------
LEMMA InvInit == Init => ScopesInv
<1> SUFFICES ASSUME Init PROVE ScopesInv
  OBVIOUS
<1>1. open = <<>> /\ stk = <<>> /\ ns = <<>> /\ ~needClose
  BY DEF Init
<1>2. open \in Seq(Elem) /\ stk \in Seq({}) /\ Len(open) = 0 /\ Len(stk) = 0
  BY <1>1
<1>3. ns = Lexical(open)
  BY <1>1, LexicalOfNone
<1>4. PICK b : b = [i \in 0..0 |-> 0]
  OBVIOUS
<1>5. Holds(stk, open, b)
  <2>1. Heights(stk, open, b)
    BY <1>2, <1>4 DEF Heights
  <2> QED
    BY <1>2, <2>1 DEF Holds
<1> QED
  BY <1>1, <1>2, <1>3, <1>5 DEF ScopesInv, ScopesTypeOK

LEMMA StartStep ==
  ASSUME ScopesInv, NEW raw \in RawNames, NEW decls \in Decls, NEW empty \in BOOLEAN,
         StartElement(raw, decls, empty)
  PROVE  ScopesInv'
<1>1. PICK S, b : stk \in Seq(S) /\ Holds(stk, open, b)
  BY DEF ScopesInv, ScopesTypeOK, StartElement
<1>2. PICK e : e = [raw |-> raw, decls |-> decls]
  OBVIOUS
<1>3. e \in Elem /\ e.raw = raw /\ e.decls = decls
  BY <1>2 DEF Elem, Decls
<1>4. open \in Seq(Elem) /\ ns = Lexical(open) /\ err = "none"
  BY DEF ScopesInv, ScopesTypeOK, StartElement
<1>5. open' = Append(open, e) /\ open' \in Seq(Elem) /\ Last(open') = e /\ open' # <<>>
  BY <1>2, <1>3, <1>4 DEF StartElement, Last
<1>6. ns' = Lexical(open')
  BY <1>3, <1>4, <1>5, LexicalAppend DEF StartElement
<1>7. stk' = stk \o Pushed(Lexical(open), e.decls, Translate(Lexical(open'), e.raw))
  BY <1>3, <1>4, <1>6 DEF StartElement
<1>8. (\E T : stk' \in Seq(T)) /\ \E c : Holds(stk', open', c)
  <2>1. PICK elems, s, name :
          elems = open /\ s = stk /\ name = Translate(Lexical(Append(elems, e)), e.raw)
    OBVIOUS
  <2>2. elems \in Seq(Elem) /\ s \in Seq(S) /\ Holds(s, elems, b)
    BY <1>1, <1>4, <2>1
  <2>3. /\ \E T : s \o Pushed(Lexical(elems), e.decls, name) \in Seq(T)
        /\ \E c : Holds(s \o Pushed(Lexical(elems), e.decls, name), Append(elems, e), c)
    BY <1>3, <2>1, <2>2, HoldsAppend
  <2>4. stk' = s \o Pushed(Lexical(elems), e.decls, name) /\ open' = Append(elems, e)
    BY <1>5, <1>7, <2>1
  <2> QED
    BY <2>3, <2>4
<1>9. err' = "none" /\ (needClose' => toClose' = raw)
  BY <1>4 DEF StartElement
<1> QED
  BY <1>3, <1>5, <1>6, <1>8, <1>9 DEF ScopesInv, ScopesTypeOK

LEMMA EndStep ==
  ASSUME ScopesInv, err = "none", NEW raw, HandleEnd(raw), ~needClose'
  PROVE  ScopesInv'
<1>1. PICK S, b : stk \in Seq(S) /\ Holds(stk, open, b)
  BY DEF ScopesInv, ScopesTypeOK
<1>2. open \in Seq(Elem) /\ ns = Lexical(open)
  BY DEF ScopesInv, ScopesTypeOK
<1>3. CASE Closes(Translate(ns, raw))
  <2>1. stk # <<>>
    BY <1>3 DEF Closes
  <2>2. open # <<>>
    <3>1. SUFFICES ASSUME open = <<>> PROVE FALSE
      OBVIOUS
    <3>2. Len(open) = 0
      BY <3>1
    <3>3. Len(stk) = 0
      BY <1>1, <3>2 DEF Holds, Heights
    <3> QED
      BY <1>1, <2>1, <3>3
  <2>3. PICK n, low : n = Len(open) /\ low = b[n - 1]
    OBVIOUS
  <2>4. ns' = Restored /\ stk' = SubSeq(stk, 1, Kept) /\ open' = Front(open) /\ err' = "none"
    BY <1>3 DEF HandleEnd
  <2>5. Kept = low
    BY <1>1, <1>2, <2>2, <2>3, KeptIs
  <2>6. ns' = Lexical(open')
    BY <1>1, <1>2, <2>2, <2>4, RestoredIs
  <2>7. stk' \in Seq(S) /\ \E c : Holds(stk', open', c)
    BY <1>1, <1>2, <2>2, <2>3, <2>4, <2>5, HoldsFront
  <2>8. open' \in Seq(Elem)
    BY <1>2, <2>2, <2>4, EnvOfAll
  <2> QED
    BY <2>4, <2>6, <2>7, <2>8 DEF ScopesInv, ScopesTypeOK
<1>4. CASE ~Closes(Translate(ns, raw))
  <2>1. err' = "syntax" /\ UNCHANGED open /\ stk' = IF stk = <<>> THEN stk ELSE Front(stk)
    BY <1>4 DEF HandleEnd
  <2>2. stk # <<>> => Front(stk) \in Seq(S)
    BY <1>1 DEF Front
  <2>3. stk' \in Seq(S)
    BY <1>1, <2>1, <2>2
  <2> QED
    BY <1>2, <2>1, <2>3 DEF ScopesInv, ScopesTypeOK
<1> QED
  BY <1>3, <1>4

LEMMA InvStep == ScopesInv /\ [Next]_vars => ScopesInv'
<1> SUFFICES ASSUME ScopesInv, [Next]_vars PROVE ScopesInv'
  OBVIOUS
<1>1. ASSUME NEW raw \in RawNames, NEW decls \in Declarations, NEW empty \in BOOLEAN,
             StartElement(raw, decls, empty)
      PROVE  ScopesInv'
  <2>1. decls \in Decls
    BY ScopesAssumption DEF Decls
  <2>. QED
    BY <1>1, <2>1, StartStep
<1>2. ASSUME NEW raw \in RawNames, EndElement(raw) PROVE ScopesInv'
  BY <1>2, EndStep DEF EndElement
<1>3. CASE CloseEmpty
  BY <1>3, EndStep DEF CloseEmpty
<1>4. CASE Malformed
  BY <1>4 DEF Malformed, ScopesInv, ScopesTypeOK
<1>5. CASE EndOfInput
  BY <1>5 DEF EndOfInput, ScopesInv, ScopesTypeOK
<1>6. CASE UNCHANGED vars
  BY <1>6 DEF vars, ScopesInv, ScopesTypeOK
<1> QED
  BY <1>1, <1>2, <1>3, <1>4, <1>5, <1>6 DEF Next

LEMMA InvAlways == Spec => []ScopesInv
  BY InvInit, InvStep, PTL DEF Spec

(***************************************************************************)
(* At every point of a document, of any depth and with any declarations,   *)
(* the one map of the parser binds what the open elements declare, each    *)
(* prefix as the innermost of them does (xml.go:202-333).                  *)
(***************************************************************************)
THEOREM ScopesAlwaysLexical == Spec => []ScopesAreLexical
<1>1. ScopesInv => ScopesAreLexical
  BY DEF ScopesInv, ScopesAreLexical
<1> QED
  BY <1>1, InvAlways, PTL

(***************************************************************************)
(* An end element with the spelling of the innermost start element is      *)
(* taken for its end, whatever was bound and undone between them           *)
(* (xml.go:239-265).                                                       *)
(***************************************************************************)
THEOREM SameSpellingAlwaysCloses == Spec => SameSpellingCloses
<1> DEFINE Closing == \A raw \in RawNames :
                        EndElement(raw) /\ open # <<>> /\ Last(open).raw = raw => err' = "none"
<1>1. ScopesInv /\ [Next]_vars => [Closing]_vars
  <2>1. SUFFICES ASSUME ScopesInv, NEW raw \in RawNames, EndElement(raw), open # <<>>,
                        Last(open).raw = raw
                 PROVE  err' = "none"
    OBVIOUS
  <2>2. PICK S, b : stk \in Seq(S) /\ Holds(stk, open, b) /\ ns = Lexical(open) /\ open \in Seq(Elem)
    BY <2>1 DEF ScopesInv, ScopesTypeOK, EndElement
  <2>3. Closes(Translate(ns, raw))
    BY <2>1, <2>2, ClosesIs
  <2> QED
    BY <2>1, <2>3 DEF EndElement, HandleEnd
<1> QED
  BY <1>1, InvAlways, PTL DEF Spec, SameSpellingCloses

(***************************************************************************)
(* A self-closing element is closed by the call after the one that read    *)
(* it, which never fails (xml.go:328).                                     *)
(***************************************************************************)
THEOREM EmptyElementsAlwaysClose == Spec => EmptyElementsClose
<1> DEFINE Closing == needClose => err' = "none" /\ open' = Front(open) /\ ~needClose'
<1>1. ScopesInv /\ [Next]_vars => [Closing]_vars
  <2>1. SUFFICES ASSUME ScopesInv, Next, needClose
                 PROVE  err' = "none" /\ open' = Front(open) /\ ~needClose'
    OBVIOUS
  <2>2. CloseEmpty
    BY <2>1 DEF Next, StartElement, EndElement, Malformed, EndOfInput
  <2>3. PICK S, b : /\ stk \in Seq(S) /\ Holds(stk, open, b) /\ ns = Lexical(open)
                    /\ open \in Seq(Elem) /\ open # <<>> /\ toClose = Last(open).raw
    BY <2>1 DEF ScopesInv, ScopesTypeOK
  <2>4. Closes(Translate(ns, toClose))
    BY <2>3, ClosesIs
  <2> QED
    BY <2>2, <2>4 DEF CloseEmpty, HandleEnd
<1> QED
  BY <1>1, InvAlways, PTL DEF Spec, EmptyElementsClose

-----------------------------------------------------------------------------
(***************************************************************************)
(* The refinement of ElementStream.  Its elements that are open are those  *)
(* with a record on the stack.  StartNames is a recursive function; what   *)
(* it is for a longer stack is shown by least counterexamples.             *)
(***************************************************************************)
Gathers(f, s, n) ==
  f = [k \in 0..n |-> IF k = 0 THEN <<>>
                      ELSE IF s[k].kind = "start" THEN Append(f[k - 1], s[k].name)
                      ELSE f[k - 1]]

LEMMA GatherExists ==
  ASSUME NEW s, NEW n \in Nat
  PROVE  \E f : Gathers(f, s, n)
<1> DEFINE S == {m \in Nat : ~ \E f : Gathers(f, s, m)}
<1>1. SUFFICES ASSUME S # {} PROVE FALSE
  OBVIOUS
<1>2. PICK m \in S : \A k \in S : m <= k
  BY <1>1, LeastNat
<1>3. CASE m = 0
  <2>1. PICK f : f = [k \in 0..0 |-> <<>>]
    OBVIOUS
  <2>2. Gathers(f, s, 0)
    BY <2>1 DEF Gathers
  <2> QED
    BY <1>2, <1>3, <2>2
<1>4. CASE m # 0
  <2>1. m \in Nat /\ m - 1 \in Nat /\ m - 1 \notin S
    BY <1>2, <1>4
  <2>2. PICK f : Gathers(f, s, m - 1)
    BY <2>1
  <2>3. PICK g : g = [k \in 0..m |->
                        IF k # m THEN f[k]
                        ELSE IF s[m].kind = "start" THEN Append(f[m - 1], s[m].name)
                        ELSE f[m - 1]]
    OBVIOUS
  <2>4. \A k \in 0..(m - 1) : g[k] = f[k]
    BY <2>1, <2>3
  <2>5. ASSUME NEW k \in 0..m
        PROVE  g[k] = IF k = 0 THEN <<>>
                      ELSE IF s[k].kind = "start" THEN Append(g[k - 1], s[k].name)
                      ELSE g[k - 1]
    <3>1. CASE k = m
      BY <1>4, <2>1, <2>3, <2>4, <3>1
    <3>2. CASE k # m
      <4>1. k \in 0..(m - 1) /\ (k # 0 => k - 1 \in 0..(m - 1))
        BY <2>1, <3>2
      <4> QED
        BY <2>2, <2>4, <4>1 DEF Gathers
    <3> QED
      BY <3>1, <3>2
  <2>6. Gathers(g, s, m)
    BY <2>3, <2>5 DEF Gathers
  <2> QED
    BY <1>2, <2>6
<1> QED
  BY <1>3, <1>4

LEMMA GatherAgrees ==
  ASSUME NEW s, NEW t, NEW f, NEW g, NEW n \in Nat, NEW m \in Nat, n <= m,
         Gathers(f, s, n), Gathers(g, t, m), \A k \in 1..n : t[k] = s[k]
  PROVE  g[n] = f[n]
<1>1. PICK S : S = {k \in 0..n : g[k] # f[k]}
  OBVIOUS
<1>2. SUFFICES ASSUME S # {} PROVE FALSE
  BY <1>1
<1>3. S \subseteq Nat
  BY <1>1
<1>4. PICK k \in S : \A j \in S : k <= j
  BY <1>2, <1>3, LeastNat
<1>5. k \in 0..n /\ k \in 0..m /\ g[k] # f[k]
  BY <1>1, <1>4
<1>6. k # 0
  BY <1>5 DEF Gathers
<1>7. k - 1 \in 0..n /\ ~(k <= k - 1) /\ k \in 1..n /\ k - 1 \in 0..m
  BY <1>5, <1>6
<1>8. g[k - 1] = f[k - 1] /\ t[k] = s[k]
  BY <1>1, <1>4, <1>7
<1>9. f[k] = IF s[k].kind = "start" THEN Append(f[k - 1], s[k].name) ELSE f[k - 1]
  BY <1>5, <1>6 DEF Gathers
<1>10. g[k] = IF t[k].kind = "start" THEN Append(g[k - 1], t[k].name) ELSE g[k - 1]
  BY <1>5, <1>6 DEF Gathers
<1> QED
  BY <1>5, <1>8, <1>9, <1>10

LEMMA NamesGathered ==
  ASSUME NEW S, NEW s \in Seq(S)
  PROVE  \E f : Gathers(f, s, Len(s)) /\ StartNames(s) = f[Len(s)]
<1> DEFINE F == CHOOSE f : Gathers(f, s, Len(s))
<1>1. Gathers(F, s, Len(s))
  <2>1. Len(s) \in Nat
    OBVIOUS
  <2> QED
    BY <2>1, GatherExists
<1>2. StartNames(s) = F[Len(s)]
  BY DEF StartNames, Gathers
<1> HIDE DEF F
<1> QED
  BY <1>1, <1>2

(* A stack with the records of one more element has one more name.         *)
LEMMA NamesAppend ==
  ASSUME NEW S, NEW s \in Seq(S), NEW T, NEW t \in Seq(T), NEW h, h = Len(s), NEW d \in Nat,
         Len(t) = h + d + 1, \A k \in 1..h : t[k] = s[k],
         \A k \in 1..d : t[h + k].kind # "start", t[Len(t)].kind = "start"
  PROVE  StartNames(t) = Append(StartNames(s), t[Len(t)].name)
<1>1. PICK f : Gathers(f, s, h) /\ StartNames(s) = f[h]
  BY NamesGathered
<1>2. PICK n, g : n = Len(t) /\ Gathers(g, t, n) /\ StartNames(t) = g[n]
  BY NamesGathered
<1>3. h \in Nat /\ n \in Nat /\ n = h + d + 1
  BY <1>2
<1>4. g[h] = f[h]
  <2>1. h <= n /\ \A k \in 1..h : t[k] = s[k]
    BY <1>3
  <2> QED
    BY ONLY <1>1, <1>2, <1>3, <2>1, GatherAgrees
<1>5. \A k \in 0..n : g[k] = IF k = 0 THEN <<>>
                             ELSE IF t[k].kind = "start" THEN Append(g[k - 1], t[k].name)
                             ELSE g[k - 1]
  BY <1>2 DEF Gathers
<1>6. g[h + d] = g[h]
  <2>0. PICK Wrong : Wrong = {j \in 0..d : g[h + j] # g[h]}
    OBVIOUS
  <2>1. SUFFICES ASSUME Wrong # {} PROVE FALSE
    <3>1. d \in 0..d
      OBVIOUS
    <3> QED
      BY <2>0, <3>1
  <2>a. Wrong \subseteq Nat
    BY <2>0
  <2>2. PICK j \in Wrong : \A i \in Wrong : j <= i
    BY <2>1, <2>a, LeastNat
  <2>3. j \in 0..d /\ g[h + j] # g[h]
    BY <2>0, <2>2
  <2>4. j # 0
    <3>1. h + 0 = h
      BY <1>3
    <3> QED
      BY <2>3, <3>1
  <2>5. j - 1 \in 0..d /\ ~(j <= j - 1) /\ j \in 1..d
    BY <2>3, <2>4
  <2>6. g[h + (j - 1)] = g[h]
    BY <2>0, <2>2, <2>5
  <2>7. PICK k : k = h + j
    OBVIOUS
  <2>8. k \in 0..n /\ k # 0 /\ k - 1 = h + (j - 1)
    BY <1>3, <2>5, <2>7
  <2>9. t[k].kind # "start"
    BY <2>5, <2>7
  <2>10. g[k] = g[k - 1]
    BY <1>5, <2>8, <2>9
  <2> QED
    BY <2>3, <2>6, <2>7, <2>8, <2>10
<1>7. n \in 0..n /\ n # 0 /\ n - 1 = h + d
  BY <1>3
<1>8. g[n] = Append(g[n - 1], t[n].name)
  BY <1>2, <1>5, <1>7
<1> QED
  BY <1>1, <1>2, <1>4, <1>6, <1>7, <1>8

LEMMA NamesOfNone == StartNames(<<>>) = <<>>
<1>1. PICK s : s = <<>>
  OBVIOUS
<1>2. s \in Seq({}) /\ Len(s) = 0
  BY <1>1
<1>3. PICK f : Gathers(f, s, 0) /\ StartNames(s) = f[0]
  BY <1>2, NamesGathered
<1>4. f[0] = <<>>
  BY <1>3 DEF Gathers
<1> QED
  BY <1>1, <1>3, <1>4

(* A name is translated to one of the namespaces that a document may use.  *)
LEMMA BoundToURIs ==
  ASSUME NEW elems \in Seq(Elem), NEW p \in DOMAIN Lexical(elems)
  PROVE  Lexical(elems)[p] \in URIs
<1>1. PICK D : D = Declaring(elems, p)
  OBVIOUS
<1>2. D # {} /\ D \subseteq 1..Len(elems) /\ Len(elems) \in Nat
  BY <1>1 DEF Lexical, Declaring
<1>3. D \subseteq Nat /\ \A k \in D : k <= Len(elems)
  BY <1>2
<1>4. PICK k : k = Max(D)
  OBVIOUS
<1>5. k \in D
  BY <1>2, <1>3, <1>4, MaxIs
<1>6. PICK decls : decls = elems[k].decls
  OBVIOUS
<1>7. p \in PrefixesOf(decls) /\ decls \in Decls
  <2>1. k \in 1..Len(elems)
    BY <1>2, <1>5
  <2>2. elems[k] \in Elem
    BY <2>1, ElementOfSeq
  <2>3. decls \in Decls
    BY <1>6, <2>2 DEF Elem, Decls
  <2>4. p \in PrefixesOf(decls)
    BY <1>1, <1>5, <1>6 DEF Declaring
  <2> QED
    BY <2>3, <2>4
<1>8. LastFor(decls, p) \in 1..Len(decls)
  BY <1>7, LastForIs
<1>9. decls[LastFor(decls, p)] \in Declared
  BY <1>7, <1>8 DEF Decls
<1>10. decls[LastFor(decls, p)].uri \in URIs
  BY <1>9 DEF Declared, Declares
<1>11. Lexical(elems)[p] = decls[LastFor(decls, p)].uri
  BY <1>1, <1>4, <1>6 DEF Lexical
<1> QED
  BY <1>10, <1>11

LEMMA TranslatedIsFull ==
  ASSUME NEW elems \in Seq(Elem), NEW raw \in RawNames
  PROVE  Translate(Lexical(elems), raw) \in FullNames
<1>1. PICK env : env = Lexical(elems) /\ \A p \in DOMAIN env : env[p] \in URIs
  BY BoundToURIs
<1>2. \A u \in NsPrefixes \cup URIs \cup {xmlURL} : [raw EXCEPT !.space = u] \in FullNames
  BY DEF RawNames, FullNames
<1>3. raw \in FullNames
  BY DEF RawNames, FullNames
<1> QED
  BY <1>1, <1>2, <1>3 DEF Translate

LEMMA NamesAreSeq ==
  ASSUME NEW S, NEW s \in Seq(S)
  PROVE  \E T : StartNames(s) \in Seq(T)
<1>1. PICK n, f : n = Len(s) /\ Gathers(f, s, n) /\ StartNames(s) = f[n]
  BY NamesGathered
<1>2. PICK T : T = {s[j].name : j \in 1..n}
  OBVIOUS
<1>3. PICK Wrong : Wrong = {k \in 0..n : f[k] \notin Seq(T)}
  OBVIOUS
<1>4. n \in Nat
  BY <1>1
<1>5. SUFFICES ASSUME Wrong # {} PROVE FALSE
  BY <1>1, <1>3, <1>4
<1>6. Wrong \subseteq Nat
  BY <1>3
<1>7. PICK k \in Wrong : \A j \in Wrong : k <= j
  BY <1>5, <1>6, LeastNat
<1>8. k \in 0..n /\ f[k] \notin Seq(T)
  BY <1>3, <1>7
<1>9. k # 0
  BY <1>8, <1>1 DEF Gathers
<1>10. k - 1 \in 0..n /\ ~(k <= k - 1) /\ k \in 1..n
  BY <1>4, <1>8, <1>9
<1>11. f[k - 1] \in Seq(T)
  BY <1>3, <1>7, <1>10
<1>12. s[k].name \in T
  BY <1>2, <1>10
<1>13. f[k] = IF s[k].kind = "start" THEN Append(f[k - 1], s[k].name) ELSE f[k - 1]
  BY <1>1, <1>8, <1>9 DEF Gathers
<1> QED
  BY <1>8, <1>11, <1>12, <1>13

(* The names before and after the innermost element ends.                  *)
LEMMA NamesFront ==
  ASSUME NEW elems \in Seq(Elem), elems # <<>>, NEW S, NEW s \in Seq(S), NEW b,
         Holds(s, elems, b), NEW t, t = SubSeq(s, 1, b[Len(elems) - 1])
  PROVE  /\ StartNames(t) = Front(StartNames(s))
         /\ s[Len(s)].name = Last(StartNames(s))
         /\ StartNames(s) # <<>>
<1>1. PICK n, decls, low, d : /\ n = Len(elems) /\ decls = elems[n].decls
                              /\ low = b[n - 1] /\ d = Len(decls)
  OBVIOUS
<1>2. low \in Nat /\ d \in Nat /\ Len(s) = low + d + 1
  BY ONLY <1>1, TopIs, elems \in Seq(Elem), elems # <<>>, s \in Seq(S), Holds(s, elems, b)
<1>3. s[Len(s)] = StartOf(Translate(Lexical(elems), elems[n].raw))
  BY ONLY <1>1, TopIs, elems \in Seq(Elem), elems # <<>>, s \in Seq(S), Holds(s, elems, b)
<1>4. \A k \in 1..d : s[low + k] = Undo(Env(elems, n - 1), decls, k)
  <2>0. n = Len(elems) /\ decls = elems[n].decls /\ low = b[n - 1]
    BY <1>1
  <2>1. \A k \in 1..Len(decls) : s[low + k] = Undo(Env(elems, n - 1), decls, k)
    BY ONLY <2>0, TopUndoes, elems \in Seq(Elem), elems # <<>>, Holds(s, elems, b)
  <2> QED
    BY ONLY <1>1, <2>1
<1>5. t \in Seq(S) /\ Len(t) = low /\ \A j \in 1..low : s[j] = t[j]
  <2>1. low <= Len(s) /\ Len(s) \in Nat /\ t = SubSeq(s, 1, low)
    BY <1>1, <1>2
  <2>2. /\ t \in Seq(S) /\ Len(t) = IF 1 <= low THEN low - 1 + 1 ELSE 0
        /\ \A i \in 1..(low - 1 + 1) : t[i] = s[1 + i - 1]
    <3>1. \A i \in 1..low : s[i] \in S
      BY <1>2, <2>1
    <3> QED
      BY ONLY <1>2, <2>1, <3>1, SubSeqProperties
  <2>3. low - 1 + 1 = low /\ (low = 0 \/ 1 <= low) /\ \A i \in 1..low : 1 + i - 1 = i
    BY <1>2
  <2> QED
    BY <2>2, <2>3
<1>6. \A k \in 1..d : s[low + k].kind # "start"
  <2>1. \A k \in 1..d : s[low + k].kind = "ns"
    BY <1>4, UndoIs
  <2> QED
    BY <2>1
<1>7. s[Len(s)].kind = "start"
  BY <1>3, StartIs
<1>8. StartNames(s) = Append(StartNames(t), s[Len(s)].name)
  <2>1. Len(s) = low + d + 1 /\ low = Len(t)
    BY <1>2, <1>5
  <2> QED
    BY ONLY <1>2, <1>5, <1>6, <1>7, <2>1, s \in Seq(S), NamesAppend
<1>9. PICK T, names : names = StartNames(t) /\ names \in Seq(T)
  BY <1>5, NamesAreSeq
<1>10. PICK e, more : e = s[Len(s)].name /\ more = StartNames(s)
  OBVIOUS
<1>11. more = Append(names, e) /\ names \in Seq(T \cup {e})
  BY <1>8, <1>9, <1>10
<1>12. Front(more) = names /\ Last(more) = e /\ more # <<>>
  <2>1. /\ Len(names) \in Nat /\ Len(more) = Len(names) + 1 /\ more[Len(names) + 1] = e
        /\ SubSeq(more, 1, Len(names)) = names
    BY ONLY <1>11
  <2>2. Len(more) - 1 = Len(names) /\ more # <<>>
    BY ONLY <2>1
  <2> QED
    BY ONLY <2>1, <2>2 DEF Front, Last
<1> QED
  BY <1>9, <1>10, <1>12

StackWith(s, env, decls, name) == s \o Pushed(env, decls, name)
NamesWith(s, name) == Append(StartNames(s), name)

LEMMA NamesPushed ==
  ASSUME NEW S, NEW s \in Seq(S), NEW env, NEW decls \in Decls, NEW name
  PROVE  StartNames(StackWith(s, env, decls, name)) = NamesWith(s, name)
<1>1. PICK P, t, d, h : /\ P = Pushed(env, decls, name) /\ t = s \o P
                        /\ d = Len(decls) /\ h = Len(s)
  OBVIOUS
<1>2. /\ \E T : P \in Seq(T)
      /\ d \in Nat /\ Len(P) = d + 1
      /\ \A k \in 1..d : P[k] = Undo(env, decls, k)
      /\ P[d + 1] = StartOf(name)
  BY <1>1, PushedIs
<1>3. PICK T : P \in Seq(T)
  BY <1>2
<1>4. PICK U : s \in Seq(U) /\ P \in Seq(U)
  <2>1. s \in Seq(S \cup T) /\ P \in Seq(S \cup T)
    BY <1>3
  <2> QED
    BY <2>1
<1>5. h \in Nat
  BY <1>1
<1>6. /\ t \in Seq(U) /\ Len(t) = h + (d + 1)
      /\ \A j \in 1..Len(t) : t[j] = IF j <= h THEN s[j] ELSE P[j - h]
  <2>1. t = s \o P
    BY <1>1
  <2>2. /\ t \in Seq(U) /\ Len(t) = Len(s) + Len(P)
        /\ \A j \in 1..Len(t) : t[j] = IF j <= Len(s) THEN s[j] ELSE P[j - Len(s)]
    BY <1>4, <2>1, ConcatProperties
  <2> QED
    BY <1>1, <1>2, <2>2
<1>7. Len(t) = h + d + 1
  BY <1>2, <1>5, <1>6
<1>8. \A k \in 1..h : t[k] = s[k]
  BY <1>2, <1>5, <1>6, <1>7
<1>9. ASSUME NEW k \in 1..(d + 1) PROVE t[h + k] = P[k]
  <2>1. PICK j : j = h + k
    OBVIOUS
  <2>2. j \in 1..Len(t) /\ ~(j <= h) /\ j - h = k
    BY <1>2, <1>5, <1>7, <2>1
  <2>3. t[j] = P[j - h]
    BY <1>6, <2>2
  <2> QED
    BY <2>1, <2>2, <2>3
<1>10. \A k \in 1..d : t[h + k].kind # "start"
  <2>1. \A k \in 1..d : P[k].kind = "ns"
    BY <1>2, UndoIs
  <2>2. \A k \in 1..d : k \in 1..(d + 1)
    BY <1>2
  <2> QED
    BY <1>9, <2>1, <2>2
<1>11. t[Len(t)] = StartOf(name)
  <2>1. d + 1 \in 1..(d + 1) /\ h + d + 1 = h + (d + 1)
    BY <1>2, <1>5
  <2> QED
    BY <1>2, <1>7, <1>9, <2>1
<1>12. t[Len(t)].kind = "start" /\ t[Len(t)].name = name
  BY <1>11, StartIs
<1>13. StartNames(t) = Append(StartNames(s), t[Len(t)].name)
  <2>1. h = Len(s) /\ d \in Nat /\ t \in Seq(U)
    BY <1>1, <1>2, <1>6
  <2>2. t[Len(t)].kind = "start"
    BY <1>12
  <2>3. StartNames(t) = Append(StartNames(s), t[Len(t)].name)
    BY ONLY Zenon, <2>1, <1>7, <1>8, <1>10, <2>2, s \in Seq(S), NamesAppend
  <2> QED
    BY <2>3
<1> QED
  BY <1>1, <1>12, <1>13 DEF StackWith, NamesWith

-----------------------------------------------------------------------------
LEMMA StartImplements ==
  ASSUME ScopesInv, NEW raw \in RawNames, NEW decls \in Declarations, NEW empty \in BOOLEAN,
         StartElement(raw, decls, empty)
  PROVE  Elements!Next
<1>1. PICK S : stk \in Seq(S)
  BY DEF ScopesInv, ScopesTypeOK
<1>2. PICK e, elems, s : e = [raw |-> raw, decls |-> decls] /\ elems = open /\ s = stk
  OBVIOUS
<1>3. e \in Elem /\ e.decls = decls /\ decls \in Decls
  BY <1>2, ScopesAssumption DEF Elem, Decls
<1>4. elems \in Seq(Elem) /\ s \in Seq(S) /\ ns = Lexical(elems) /\ err = "none"
  BY <1>1, <1>2 DEF ScopesInv, ScopesTypeOK, StartElement
<1>5. PICK name, env : env = Bind(ns, decls) /\ name = Translate(env, raw)
  OBVIOUS
<1>6. name \in FullNames
  <2>1. env = Lexical(Append(elems, e)) /\ Append(elems, e) \in Seq(Elem)
    BY <1>3, <1>4, <1>5, LexicalAppend
  <2> QED
    BY <1>5, <2>1, TranslatedIsFull
<1>7. /\ stk' = s \o Pushed(Lexical(elems), decls, name)
      /\ event' = [op |-> "start", name |-> name]
      /\ err' = err
  BY <1>2, <1>4, <1>5 DEF StartElement
<1>8. stk' = StackWith(s, Lexical(elems), decls, name)
  BY <1>7 DEF StackWith
<1>9. StartNames(StackWith(s, Lexical(elems), decls, name)) = NamesWith(s, name)
  BY ONLY <1>3, <1>4, NamesPushed
<1>10. StartNames(stk') = Append(StartNames(stk), name)
  BY <1>2, <1>8, <1>9 DEF NamesWith
<1>11. Elements!OnStart(name)
  BY <1>4, <1>7, <1>10 DEF Elements!OnStart, Elements!Event
<1> QED
  BY <1>6, <1>11 DEF Elements!Next

LEMMA EndImplements ==
  ASSUME ScopesInv, err = "none", NEW raw, HandleEnd(raw)
  PROVE  Elements!Next
<1>1. PICK S, b : stk \in Seq(S) /\ Holds(stk, open, b)
  BY DEF ScopesInv, ScopesTypeOK
<1>2. open \in Seq(Elem)
  BY DEF ScopesInv, ScopesTypeOK
<1>3. CASE Closes(Translate(ns, raw))
  <2>1. stk # <<>> /\ Top.name = Translate(ns, raw)
    BY <1>3 DEF Closes
  <2>2. open # <<>>
    <3>1. SUFFICES ASSUME open = <<>> PROVE FALSE
      OBVIOUS
    <3>2. Len(stk) = 0
      BY <1>1, <3>1 DEF Holds, Heights
    <3> QED
      BY <1>1, <2>1, <3>2
  <2>3. PICK elems, s, t : elems = open /\ s = stk /\ t = SubSeq(s, 1, b[Len(elems) - 1])
    OBVIOUS
  <2>4. stk' = t
    <3>1. Kept = b[Len(open) - 1]
      BY <1>1, <1>2, <2>2, KeptIs
    <3>2. stk' = SubSeq(stk, 1, Kept)
      BY <1>3 DEF HandleEnd
    <3> QED
      BY <2>3, <3>1, <3>2
  <2>5. /\ elems \in Seq(Elem) /\ elems # <<>> /\ s \in Seq(S) /\ Holds(s, elems, b)
        /\ t = SubSeq(s, 1, b[Len(elems) - 1])
    BY <1>1, <1>2, <2>2, <2>3
  <2>6. /\ StartNames(t) = Front(StartNames(s))
        /\ s[Len(s)].name = Last(StartNames(s))
        /\ StartNames(s) # <<>>
    <3>1. StartNames(t) = Front(StartNames(s))
      BY ONLY <2>5, NamesFront
    <3>2. s[Len(s)].name = Last(StartNames(s))
      BY ONLY <2>5, NamesFront
    <3>3. StartNames(s) # <<>>
      BY ONLY <2>5, NamesFront
    <3> QED
      BY <3>1, <3>2, <3>3
  <2>7. StartNames(stk') = Front(StartNames(stk)) /\ StartNames(stk) # <<>>
    BY <2>3, <2>4, <2>6
  <2>8. Translate(ns, raw) = Last(StartNames(stk))
    BY <2>1, <2>3, <2>6 DEF Top, Last
  <2>9. event' = [op |-> "end", name |-> Last(StartNames(stk))] /\ err' = err
    BY <1>3, <2>8 DEF HandleEnd
  <2>10. Elements!OnEnd
    <3>1. StartNames(stk)' = Front(StartNames(stk))
      BY <2>7
    <3>2. event' = Elements!Event("end", Last(StartNames(stk)))
      BY <2>9 DEF Elements!Event
    <3> QED
      BY <2>7, <2>9, <3>1, <3>2 DEF Elements!OnEnd, Elements!Front, Elements!Last, Front, Last
  <2> QED
    BY <2>10 DEF Elements!Next
<1>4. CASE ~Closes(Translate(ns, raw))
  <2>1. err' = "syntax" /\ event' = event
    BY <1>4 DEF HandleEnd
  <2> QED
    BY <2>1 DEF Elements!Next, Elements!Fail
<1> QED
  BY <1>3, <1>4

(***************************************************************************)
(* The parser keeps the promise of ElementStream: its events are those of  *)
(* properly nested elements, an end carries the name that its start had,   *)
(* whatever was bound between them, and the input ends without error only  *)
(* when every element is closed (xml.go:202-333).                          *)
(***************************************************************************)
THEOREM ParserRefinesElementStream == Spec => RefinesElementStream
<1>1. Init => Elements!Init
  BY NamesOfNone DEF Init, Elements!Init
<1>2. ScopesInv /\ [Next]_vars => [Elements!Next]_(Elements!vars)
  <2>1. SUFFICES ASSUME ScopesInv, [Next]_vars
                 PROVE  Elements!Next \/ UNCHANGED Elements!vars
    OBVIOUS
  <2>2. ASSUME NEW raw \in RawNames, NEW decls \in Declarations, NEW empty \in BOOLEAN,
               StartElement(raw, decls, empty)
        PROVE  Elements!Next
    BY <2>1, <2>2, StartImplements
  <2>3. ASSUME NEW raw \in RawNames, EndElement(raw) PROVE Elements!Next
    BY <2>1, <2>3, EndImplements DEF EndElement
  <2>4. CASE CloseEmpty
    BY <2>1, <2>4, EndImplements DEF CloseEmpty
  <2>5. CASE Malformed
    BY <2>5 DEF Malformed, Elements!Next, Elements!Fail
  <2>6. CASE EndOfInput
    <3>1. CASE stk = <<>>
      BY <2>6, <3>1, NamesOfNone DEF EndOfInput, Elements!Next, Elements!End
    <3>2. CASE stk # <<>>
      BY <2>6, <3>2 DEF EndOfInput, Elements!Next, Elements!Fail
    <3> QED
      BY <3>1, <3>2
  <2>7. CASE UNCHANGED vars
    BY <2>7 DEF vars, Elements!vars
  <2> QED
    BY <2>1, <2>2, <2>3, <2>4, <2>5, <2>6, <2>7 DEF Next
<1> QED
  BY <1>1, <1>2, InvAlways, PTL DEF Spec, RefinesElementStream, Elements!Spec

-----------------------------------------------------------------------------
(***************************************************************************)
(* The cells.  A list is described by a sequence of addresses; Walk, which *)
(* follows the next fields, is shown to visit them in order.               *)
(***************************************************************************)
CellType == [next : Nat, kind : {"start", "ns"}, name : CellNames, ok : BOOLEAN]

At(f, n, i) == IF i <= n THEN f[i] ELSE nil

(* The n cells of the list that starts at p are at f[1], ..., f[n].        *)
Linked(c, p, n, f) ==
  /\ n \in Nat /\ f \in [1..n -> 1..Len(c)]
  /\ p = At(f, n, 1)
  /\ \A i \in 1..n : c[f[i]].next = At(f, n, i + 1)
  /\ \A i, j \in 1..n : f[i] = f[j] => i = j

(* Two lists share no cell, and leave none out.                            *)
Split(c, n, s, m, f) ==
  /\ n + m = Len(c)
  /\ \A i \in 1..n, j \in 1..m : s[i] # f[j]
  /\ \A a \in 1..Len(c) : (\E i \in 1..n : s[i] = a) \/ (\E j \in 1..m : f[j] = a)

Lists(c, h, p, n, s, m, f) ==
  c \in Seq(CellType) /\ Linked(c, h, n, s) /\ Linked(c, p, m, f) /\ Split(c, n, s, m, f)

CellsInv ==
  /\ deepest = Len(cells)
  /\ \E n, s, m, f : Lists(cells, head, free, n, s, m, f)

LEMMA WalkIs ==
  ASSUME NEW N, N = Len(cells), N \in Nat, NEW p, NEW n, NEW f, Linked(cells, p, n, f), n <= N
  PROVE  Walk(p) = [k \in 0..N |-> At(f, n, k + 1)]
<1> DEFINE Steps(at) == at = [k \in 0..N |->
                          IF k = 0 THEN p ELSE IF at[k - 1] = nil THEN nil
                          ELSE cells[at[k - 1]].next]
<1>1. PICK g : g = [k \in 0..N |-> At(f, n, k + 1)]
  OBVIOUS
<1>2. Steps(g)
  <2>1. ASSUME NEW k \in 0..N
        PROVE  g[k] = IF k = 0 THEN p ELSE IF g[k - 1] = nil THEN nil ELSE cells[g[k - 1]].next
    <3>1. CASE k = 0
      BY <1>1, <3>1 DEF Linked
    <3>2. CASE k # 0
      <4>1. k \in Nat /\ k - 1 \in 0..N /\ (k - 1) + 1 = k
        BY <3>2
      <4>2. g[k] = At(f, n, k + 1) /\ g[k - 1] = At(f, n, k)
        BY <1>1, <4>1
      <4>3. CASE k <= n
        <5>1. k \in 1..n
          BY <3>2, <4>1, <4>3 DEF Linked
        <5>2. f[k] \in 1..N /\ cells[f[k]].next = At(f, n, k + 1) /\ At(f, n, k) = f[k]
          BY <4>3, <5>1 DEF Linked, At
        <5>3. f[k] # nil
          BY <5>2 DEF nil
        <5> QED
          BY <3>2, <4>2, <5>2, <5>3
      <4>4. CASE ~(k <= n)
        <5>1. ~(k + 1 <= n)
          BY <4>1, <4>4 DEF Linked
        <5> QED
          BY <3>2, <4>2, <4>4, <5>1 DEF At
      <4> QED
        BY <4>3, <4>4
    <3> QED
      BY <3>1, <3>2
  <2> QED
    BY <1>1, <2>1
<1>3. ASSUME NEW h, Steps(h) PROVE h = g
  <2>1. PICK Wrong : Wrong = {k \in 0..N : h[k] # g[k]}
    OBVIOUS
  <2>2. SUFFICES ASSUME Wrong # {} PROVE FALSE
    BY <1>1, <1>3, <2>1
  <2>3. Wrong \subseteq Nat
    BY <2>1
  <2>4. PICK k \in Wrong : \A j \in Wrong : k <= j
    BY <2>2, <2>3, LeastNat
  <2>5. k \in 0..N /\ h[k] # g[k]
    BY <2>1, <2>4
  <2>6. k # 0
    BY <1>2, <1>3, <2>5
  <2>7. k - 1 \in 0..N /\ ~(k <= k - 1)
    BY <2>5, <2>6
  <2>8. h[k - 1] = g[k - 1]
    BY <2>1, <2>4, <2>7
  <2>9. h[k] = IF k = 0 THEN p ELSE IF h[k - 1] = nil THEN nil ELSE cells[h[k - 1]].next
    BY ONLY <1>3, <2>5
  <2>10. g[k] = IF k = 0 THEN p ELSE IF g[k - 1] = nil THEN nil ELSE cells[g[k - 1]].next
    BY ONLY <1>2, <2>5
  <2> QED
    BY ONLY <2>5, <2>6, <2>8, <2>9, <2>10
<1>4. Walk(p) = CHOOSE at : Steps(at)
  BY DEF Walk
<1> HIDE DEF Steps
<1> QED
  BY <1>1, <1>2, <1>3, <1>4

LEMMA ListIs ==
  ASSUME NEW p, NEW n, NEW f, Linked(cells, p, n, f), Len(cells) \in Nat, n <= Len(cells)
  PROVE  /\ Ends(p) /\ Count(p) = n /\ OnList(p) = {f[i] : i \in 1..n}
         /\ \A i \in 1..n : Walk(p)[i - 1] = f[i]
<1>1. PICK N : N = Len(cells)
  OBVIOUS
<1>2. N \in Nat /\ n \in Nat /\ n <= N
  BY <1>1 DEF Linked
<1>3. Walk(p) = [k \in 0..N |-> At(f, n, k + 1)]
  BY <1>1, <1>2, WalkIs
<1>4. DOMAIN Walk(p) = 0..N /\ \A k \in 0..N : Walk(p)[k] = At(f, n, k + 1)
  BY <1>3
<1>5. \A i \in 1..n : f[i] # nil /\ i - 1 \in 0..N /\ i - 1 \in 0..(n - 1)
  BY <1>1, <1>2 DEF Linked, nil
<1>6. \A i \in 1..n : Walk(p)[i - 1] = f[i]
  <2>1. ASSUME NEW i \in 1..n PROVE Walk(p)[i - 1] = f[i]
    <3>1. (i - 1) + 1 = i /\ i <= n
      BY <1>2
    <3>2. Walk(p)[i - 1] = At(f, n, (i - 1) + 1)
      BY <1>4, <1>5
    <3> QED
      BY <3>1, <3>2 DEF At
  <2> QED
    BY <2>1
<1>7. \A k \in 0..N : IF k < n THEN k + 1 \in 1..n /\ Walk(p)[k] = f[k + 1] ELSE Walk(p)[k] = nil
  BY <1>2, <1>4 DEF At
<1>8. Ends(p)
  <2>1. n \in 0..N /\ ~(n < n)
    BY <1>2
  <2> QED
    BY <1>4, <1>7, <2>1 DEF Ends
<1>9. Count(p) = n
  <2>1. {k \in DOMAIN Walk(p) : Walk(p)[k] # nil} = 0..(n - 1)
    <3>1. ASSUME NEW k \in 0..N PROVE Walk(p)[k] # nil <=> k \in 0..(n - 1)
      BY <1>2, <1>5, <1>7
    <3>2. 0..(n - 1) \subseteq 0..N
      BY <1>2
    <3> QED
      BY <1>4, <3>1, <3>2
  <2>2. Cardinality(0..(n - 1)) = n
    <3>1. 0 \in Int /\ n - 1 \in Int /\ (0 > n - 1 => n = 0) /\ (n - 1) - 0 + 1 = n
      BY <1>2
    <3> QED
      BY <3>1, FS_Interval
  <2> QED
    BY <2>1, <2>2 DEF Count
<1>10. OnList(p) = {f[i] : i \in 1..n}
  <2>1. ASSUME NEW a \in OnList(p) PROVE a \in {f[i] : i \in 1..n}
    <3>1. PICK k \in 0..N : a = Walk(p)[k] /\ a # nil
      BY <1>4 DEF OnList
    <3> QED
      BY <1>7, <3>1
  <2>2. ASSUME NEW i \in 1..n PROVE f[i] \in OnList(p)
    <3>1. i - 1 \in DOMAIN Walk(p) /\ Walk(p)[i - 1] = f[i] /\ f[i] # nil
      BY <1>4, <1>5, <1>6
    <3> QED
      BY <3>1 DEF OnList
  <2> QED
    BY <2>1, <2>2
<1> QED
  BY <1>6, <1>8, <1>9, <1>10

LEMMA PartitionedIs == CellsInv => CellsPartitioned
<1> SUFFICES ASSUME CellsInv PROVE CellsPartitioned
  OBVIOUS
<1>1. PICK n, s, m, f : /\ cells \in Seq(CellType)
                        /\ Linked(cells, head, n, s) /\ Linked(cells, free, m, f)
                        /\ Split(cells, n, s, m, f)
  BY DEF CellsInv, Lists
<1>2. PICK N : N = Len(cells)
  OBVIOUS
<1>3. N \in Nat /\ DOMAIN cells = 1..N /\ N = deepest
  BY <1>1, <1>2 DEF CellsInv
<1>4. n \in Nat /\ m \in Nat /\ n <= N /\ m <= N
  BY <1>1, <1>2, <1>3 DEF Linked, Split
<1>5. Ends(head) /\ OnList(head) = {s[i] : i \in 1..n}
  BY <1>1, <1>2, <1>3, <1>4, ListIs
<1>6. Ends(free) /\ OnList(free) = {f[i] : i \in 1..m}
  BY <1>1, <1>2, <1>3, <1>4, ListIs
<1>7. OnList(head) \cap OnList(free) = {}
  BY <1>1, <1>5, <1>6 DEF Split
<1>8. OnList(head) \cup OnList(free) = DOMAIN cells
  <2>1. ASSUME NEW a \in 1..N PROVE a \in OnList(head) \cup OnList(free)
    BY <1>1, <1>2, <1>5, <1>6 DEF Split
  <2>2. OnList(head) \subseteq 1..N /\ OnList(free) \subseteq 1..N
    BY <1>1, <1>2, <1>5, <1>6 DEF Linked
  <2> QED
    BY <1>3, <2>1, <2>2
<1> QED
  BY <1>2, <1>3, <1>5, <1>6, <1>7, <1>8 DEF CellsPartitioned

(* The list after a cell is put in front of it, and after its first cell   *)
(* is taken.                                                               *)
Prepend(a, n, s) == [i \in 1..(n + 1) |-> IF i = 1 THEN a ELSE s[i - 1]]
Rest(n, s) == [i \in 1..(n - 1) |-> s[i + 1]]

LEMMA LinkedPrepend ==
  ASSUME NEW c, NEW p, NEW n, NEW s, Linked(c, p, n, s), Len(c) \in Nat,
         NEW d, NEW a \in 1..Len(d), Len(d) \in Nat, Len(c) <= Len(d),
         d[a].next = p, \A i \in 1..n : s[i] # a,
         \A b \in 1..Len(c) : b # a => d[b].next = c[b].next
  PROVE  Linked(d, a, n + 1, Prepend(a, n, s))
<1>1. PICK t : t = Prepend(a, n, s)
  OBVIOUS
<1>2. n \in Nat /\ s \in [1..n -> 1..Len(c)]
  BY DEF Linked
<1>3. t[1] = a /\ \A i \in 1..n : t[i + 1] = s[i]
  <2>1. 1 \in 1..(n + 1) /\ \A i \in 1..n : i + 1 \in 1..(n + 1) /\ i + 1 # 1 /\ (i + 1) - 1 = i
    BY <1>2
  <2> QED
    BY <1>1, <2>1 DEF Prepend
<1>4. \A i \in 1..(n + 1) : i # 1 => i - 1 \in 1..n /\ (i - 1) + 1 = i
  BY <1>2
<1>5. \A i \in 1..(n + 1) : i # 1 => t[i] = s[i - 1]
  BY <1>3, <1>4
<1>6. t \in [1..(n + 1) -> 1..Len(d)]
  <2>1. \A i \in 1..(n + 1) : t[i] \in 1..Len(d)
    <3>1. \A i \in 1..n : s[i] \in 1..Len(d)
      BY <1>2
    <3> QED
      BY <1>3, <1>4, <1>5, <3>1
  <2> QED
    BY <1>1, <2>1 DEF Prepend
<1>7. a = At(t, n + 1, 1)
  BY <1>2, <1>3 DEF At
<1>8. ASSUME NEW i \in 1..(n + 1) PROVE d[t[i]].next = At(t, n + 1, i + 1)
  <2>1. CASE i = 1
    <3>1. d[t[i]].next = At(s, n, 1)
      BY <1>3, <2>1 DEF Linked
    <3>2. At(t, n + 1, i + 1) = At(s, n, 1)
      <4>1. CASE 1 <= n
        <5>1. 1 \in 1..n /\ i + 1 <= n + 1
          BY <1>2, <2>1, <4>1
        <5> QED
          BY <1>3, <2>1, <4>1, <5>1 DEF At
      <4>2. CASE ~(1 <= n)
        BY <1>2, <2>1, <4>2 DEF At
      <4> QED
        BY <4>1, <4>2
    <3> QED
      BY <3>1, <3>2
  <2>2. CASE i # 1
    <3>1. PICK j : j = i - 1
      OBVIOUS
    <3>2. j \in 1..n /\ i = j + 1
      BY <1>4, <2>2, <3>1
    <3>3. t[i] = s[j] /\ s[j] \in 1..Len(c) /\ s[j] # a
      BY <1>2, <1>3, <3>2
    <3>4. d[t[i]].next = At(s, n, j + 1)
      BY <3>2, <3>3 DEF Linked
    <3>5. At(t, n + 1, i + 1) = At(s, n, j + 1)
      <4>1. CASE j + 1 <= n
        <5>1. j + 1 \in 1..n /\ i + 1 <= n + 1 /\ i + 1 = (j + 1) + 1
          BY <1>2, <3>2, <4>1
        <5> QED
          BY <1>3, <4>1, <5>1 DEF At
      <4>2. CASE ~(j + 1 <= n)
        <5>1. ~(i + 1 <= n + 1)
          BY <1>2, <3>2, <4>2
        <5> QED
          BY <4>2, <5>1 DEF At
      <4> QED
        BY <4>1, <4>2
    <3> QED
      BY <3>4, <3>5
  <2> QED
    BY <2>1, <2>2
<1>9. ASSUME NEW i \in 1..(n + 1), NEW j \in 1..(n + 1), t[i] = t[j] PROVE i = j
  <2>1. CASE i = 1 /\ j = 1
    BY <2>1
  <2>2. CASE i = 1 /\ j # 1
    BY <1>3, <1>4, <1>5, <1>9, <2>2
  <2>3. CASE i # 1 /\ j = 1
    BY <1>3, <1>4, <1>5, <1>9, <2>3
  <2>4. CASE i # 1 /\ j # 1
    <3>1. i - 1 \in 1..n /\ j - 1 \in 1..n /\ s[i - 1] = s[j - 1]
      BY <1>4, <1>5, <1>9, <2>4
    <3>2. i - 1 = j - 1
      BY <3>1 DEF Linked
    <3> QED
      BY <1>4, <2>4, <3>2
  <2> QED
    BY <2>1, <2>2, <2>3, <2>4
<1>10. n + 1 \in Nat
  BY <1>2
<1> QED
  BY <1>1, <1>6, <1>7, <1>8, <1>9, <1>10 DEF Linked

LEMMA LinkedRest ==
  ASSUME NEW c, NEW p, NEW n, NEW s, Linked(c, p, n, s), p # nil, Len(c) \in Nat,
         NEW d, Len(d) = Len(c),
         \A b \in 1..Len(c) : b # p => d[b].next = c[b].next
  PROVE  /\ n \in Nat \ {0} /\ p = s[1] /\ p \in 1..Len(c)
         /\ Linked(d, c[p].next, n - 1, Rest(n, s))
         /\ \A i \in 1..(n - 1) : Rest(n, s)[i] = s[i + 1] /\ s[i + 1] # p
<1>1. PICK t, q : t = Rest(n, s) /\ q = c[p].next
  OBVIOUS
<1>2. n \in Nat /\ s \in [1..n -> 1..Len(c)]
  BY DEF Linked
<1>3. n # 0 /\ p = s[1] /\ 1 \in 1..n
  BY <1>2 DEF Linked, At
<1>4. \A i \in 1..(n - 1) : i + 1 \in 1..n /\ i + 1 # 1 /\ t[i] = s[i + 1] /\ i \in 1..n
  BY <1>1, <1>2 DEF Rest
<1>5. \A i \in 1..(n - 1) : s[i + 1] # p
  BY <1>3, <1>4 DEF Linked
<1>6. t \in [1..(n - 1) -> 1..Len(d)]
  <2>1. \A i \in 1..(n - 1) : t[i] \in 1..Len(d)
    BY <1>2, <1>4
  <2> QED
    BY <1>1, <2>1 DEF Rest
<1>7. \A i \in Nat : At(t, n - 1, i) = At(s, n, i + 1) \/ i = 0
  <2>1. ASSUME NEW i \in Nat, i # 0 PROVE At(t, n - 1, i) = At(s, n, i + 1)
    <3>1. CASE i <= n - 1
      <4>1. i \in 1..(n - 1) /\ i + 1 <= n
        BY <1>2, <2>1, <3>1
      <4> QED
        BY <1>4, <3>1, <4>1 DEF At
    <3>2. CASE ~(i <= n - 1)
      <4>1. ~(i + 1 <= n)
        BY <1>2, <3>2
      <4> QED
        BY <3>2, <4>1 DEF At
    <3> QED
      BY <3>1, <3>2
  <2> QED
    BY <2>1
<1>8. q = At(t, n - 1, 1)
  <2>1. c[s[1]].next = At(s, n, 1 + 1)
    BY <1>3 DEF Linked
  <2>2. 1 \in Nat /\ 1 # 0
    OBVIOUS
  <2> QED
    BY <1>1, <1>3, <1>7, <2>1, <2>2
<1>9. ASSUME NEW i \in 1..(n - 1) PROVE d[t[i]].next = At(t, n - 1, i + 1)
  <2>1. i + 1 \in Nat /\ i + 1 # 0 /\ i + 1 \in 1..n
    BY <1>4
  <2>2. d[t[i]].next = c[s[i + 1]].next
    BY <1>2, <1>4, <1>5, <2>1
  <2>3. c[s[i + 1]].next = At(s, n, (i + 1) + 1)
    BY <2>1 DEF Linked
  <2> QED
    BY <1>7, <2>1, <2>2, <2>3
<1>10. ASSUME NEW i \in 1..(n - 1), NEW j \in 1..(n - 1), t[i] = t[j] PROVE i = j
  <2>1. i + 1 \in 1..n /\ j + 1 \in 1..n /\ s[i + 1] = s[j + 1]
    BY <1>4, <1>10
  <2>2. i + 1 = j + 1
    BY <2>1 DEF Linked
  <2> QED
    BY <2>2
<1>11. n - 1 \in Nat
  BY <1>2, <1>3
<1>12. Linked(d, q, n - 1, t)
  BY <1>6, <1>8, <1>9, <1>10, <1>11 DEF Linked
<1>13. p \in 1..Len(c)
  BY <1>2, <1>3
<1> QED
  BY <1>1, <1>2, <1>3, <1>4, <1>5, <1>12, <1>13

LEMMA LinkedGrows ==
  ASSUME NEW c, NEW p, NEW n, NEW s, Linked(c, p, n, s), Len(c) \in Nat,
         NEW d, Len(d) \in Nat, Len(c) <= Len(d),
         \A i \in 1..n : d[s[i]].next = c[s[i]].next
  PROVE  Linked(d, p, n, s)
<1>1. n \in Nat /\ s \in [1..n -> 1..Len(c)]
  BY DEF Linked
<1>2. s \in [1..n -> 1..Len(d)]
  <2>1. \A i \in 1..n : s[i] \in 1..Len(d)
    BY <1>1
  <2> QED
    BY <1>1, <2>1
<1> QED
  BY <1>1, <1>2 DEF Linked

(* The memory c after a cell is pushed at address t, and after the cell at *)
(* address h is popped.                                                    *)
Pushes(c, h, p, t, cell, d, q) ==
  /\ t = (IF p # nil THEN p ELSE Len(c) + 1)
  /\ cell \in CellType /\ cell.next = h
  /\ d = [a \in DOMAIN c \cup {t} |-> IF a = t THEN cell ELSE c[a]]
  /\ q = (IF p # nil THEN c[p].next ELSE p)

Pops(c, h, p, d) == h # nil /\ p \in Nat /\ d = [c EXCEPT ![h].next = p]

SameCells(c, n, s, d) == \A i \in 1..n : d[s[i]] = c[s[i]]
SameItems(c, n, s, d, r) ==
  \A i \in 1..(n - 1) : r[i] = s[i + 1] /\ Item(d[s[i + 1]]) = Item(c[s[i + 1]])

AfterPush(c, n, s, d, t, q, cell) ==
  /\ Len(d) = (IF n + 1 > Len(c) THEN n + 1 ELSE Len(c)) /\ n + 1 <= Len(d)
  /\ \E k, g : Lists(d, t, q, n + 1, Prepend(t, n, s), k, g)
  /\ d[t] = cell /\ SameCells(c, n, s, d)

AfterPop(c, n, s, d, h) ==
  /\ Len(d) = Len(c) /\ n \in Nat \ {0} /\ n <= Len(c)
  /\ \E k, g : Lists(d, c[h].next, h, n - 1, Rest(n, s), k, g)
  /\ SameItems(c, n, s, d, Rest(n, s))

LEMMA PushLists ==
  ASSUME NEW c, NEW h, NEW p, NEW n, NEW s, NEW m, NEW f, Lists(c, h, p, n, s, m, f),
         NEW t, NEW cell, NEW d, NEW q, Pushes(c, h, p, t, cell, d, q)
  PROVE  AfterPush(c, n, s, d, t, q, cell)
<1>0. /\ c \in Seq(CellType) /\ Linked(c, h, n, s) /\ Linked(c, p, m, f) /\ Split(c, n, s, m, f)
      /\ t = (IF p # nil THEN p ELSE Len(c) + 1)
      /\ cell \in CellType /\ cell.next = h
      /\ d = [a \in DOMAIN c \cup {t} |-> IF a = t THEN cell ELSE c[a]]
      /\ q = (IF p # nil THEN c[p].next ELSE p)
  BY DEF Lists, Pushes
<1> USE <1>0
<1>1. PICK N : N = Len(c) /\ N \in Nat /\ DOMAIN c = 1..N
  OBVIOUS
<1>2. /\ n \in Nat /\ m \in Nat /\ n + m = N
      /\ s \in [1..n -> 1..N] /\ f \in [1..m -> 1..N]
  BY <1>1 DEF Linked, Split
<1>3. PICK r : r = Prepend(t, n, s)
  OBVIOUS
<1>4. /\ r[1] = t /\ \A i \in 1..n : i + 1 \in 1..(n + 1) /\ r[i + 1] = s[i]
      /\ \A i \in 1..(n + 1) : i = 1 \/ (i - 1 \in 1..n /\ r[i] = s[i - 1])
  <2>1. n \in Nat
    BY <1>2
  <2>2. r = Prepend(t, n, s)
    BY <1>3
  <2>3. 1 \in 1..(n + 1) /\ \A i \in 1..n : i + 1 \in 1..(n + 1) /\ i + 1 # 1 /\ (i + 1) - 1 = i
    BY <2>1
  <2>4. r[1] = t /\ \A i \in 1..n : r[i + 1] = s[i]
    BY <2>2, <2>3 DEF Prepend
  <2>5. \A i \in 1..(n + 1) : i # 1 => i - 1 \in 1..n
    BY <2>1
  <2>6. \A i \in 1..(n + 1) : i # 1 => r[i] = s[i - 1]
    BY <2>2 DEF Prepend
  <2> QED
    BY <2>3, <2>4, <2>5, <2>6
<1>5. CASE p = nil
  <2>1. t = N + 1 /\ q = p /\ m = 0
    <3>1. m = 0
      <4>1. SUFFICES ASSUME 1 <= m PROVE FALSE
        BY <1>2
      <4>2. 1 \in 1..m /\ p = f[1]
        BY <1>2, <4>1 DEF Linked, At
      <4>3. f[1] \in 1..N
        BY <1>2, <4>2
      <4> QED
        BY <1>5, <4>2, <4>3 DEF nil
    <3> QED
      BY <1>1, <1>5, <3>1
  <2>2. d = [a \in 1..(N + 1) |-> IF a = N + 1 THEN cell ELSE c[a]]
    <3>1. DOMAIN c \cup {t} = 1..(N + 1)
      BY <1>1, <2>1
    <3> QED
      BY <2>1, <3>1
  <2>3. \A a \in 1..(N + 1) : (IF a = N + 1 THEN cell ELSE c[a]) \in CellType
    <3>1. \A a \in 1..(N + 1) : a # N + 1 => a \in 1..N
      BY <1>1
    <3>2. \A a \in 1..N : c[a] \in CellType
      BY <1>1, ElementOfSeq
    <3> QED
      BY <3>1, <3>2
  <2>4. d \in Seq(CellType) /\ Len(d) = N + 1
    <3>1. PICK k : k = N + 1 /\ k \in Nat
      BY <1>1
    <3>2. d \in [1..k -> CellType]
      BY <2>2, <2>3, <3>1
    <3>3. d \in Seq(CellType) /\ Len(d) = k
      BY ONLY <3>1, <3>2
    <3> QED
      BY <3>1, <3>3
  <2>5. d[t] = cell /\ \A a \in 1..N : d[a] = c[a] /\ a # t
    BY <1>1, <2>1, <2>2
  <2>6. \A i \in 1..n : s[i] # t /\ d[s[i]] = c[s[i]]
    BY <1>2, <2>5
  <2>7. Linked(d, t, n + 1, r)
    <3>1. t \in 1..Len(d) /\ Len(d) \in Nat /\ Len(c) <= Len(d) /\ Len(c) \in Nat
      BY ONLY <1>1, <2>1, <2>4
    <3>2. \A b \in 1..Len(c) : b # t => d[b].next = c[b].next
      BY <1>1, <2>5
    <3>3. d[t].next = h
      BY <2>5
    <3> QED
      <4>1. Linked(c, h, n, s) /\ r = Prepend(t, n, s)
        BY <1>3
      <4>2. \A i \in 1..n : s[i] # t
        BY <2>6
      <4> QED
        BY ONLY Zenon, <3>1, <3>2, <3>3, <4>1, <4>2, LinkedPrepend
  <2>8. Linked(d, q, m, f)
    <3>1. Len(d) \in Nat /\ Len(c) <= Len(d) /\ Len(c) \in Nat
      BY <1>1, <2>4
    <3>2. \A i \in 1..m : d[f[i]].next = c[f[i]].next
      BY <1>2, <2>5
    <3> QED
      BY <2>1, <3>1, <3>2, LinkedGrows
  <2>9. Split(d, n + 1, r, m, f)
    <3>1. (n + 1) + m = Len(d)
      BY <1>2, <2>4
    <3>2. 1..m = {}
      BY <2>1
    <3>3. ASSUME NEW a \in 1..Len(d) PROVE \E i \in 1..(n + 1) : r[i] = a
      <4>1. CASE a = t
        <5>1. 1 \in 1..(n + 1)
          BY <1>2
        <5> QED
          BY <1>4, <4>1, <5>1
      <4>2. CASE a # t
        <5>1. a \in 1..N
          BY <1>1, <2>1, <2>4, <4>2
        <5>2. PICK i \in 1..n : s[i] = a
          BY <1>1, <3>2, <5>1 DEF Split
        <5> QED
          BY <1>4, <5>2
      <4> QED
        BY <4>1, <4>2
    <3> QED
      BY <3>1, <3>2, <3>3 DEF Split
  <2>10. Len(d) = (IF n + 1 > Len(c) THEN n + 1 ELSE Len(c)) /\ n + 1 <= Len(d)
    <3>1. n + 1 > N /\ n + 1 = N + 1
      BY ONLY <1>1, <1>2, <2>1
    <3> QED
      BY ONLY <1>1, <2>4, <3>1
  <2> QED
    BY <1>3, <2>4, <2>5, <2>6, <2>7, <2>8, <2>9, <2>10 DEF AfterPush, Lists, SameCells
<1>6. CASE p # nil
  <2>1. t = p /\ q = c[p].next
    BY <1>6
  <2>2. /\ m \in Nat \ {0} /\ p = f[1] /\ p \in 1..N
    <3>1. 1 <= m /\ p = f[1]
      BY <1>2, <1>6 DEF Linked, At
    <3>2. 1 \in 1..m
      BY <1>2, <3>1
    <3> QED
      BY <1>2, <3>1, <3>2
  <2>3. d = [a \in 1..N |-> IF a = p THEN cell ELSE c[a]]
    <3>1. DOMAIN c \cup {t} = 1..N
      BY <1>1, <2>1, <2>2
    <3> QED
      BY <2>1, <3>1
  <2>4. d \in Seq(CellType) /\ Len(d) = N
    <3>1. \A a \in 1..N : c[a] \in CellType
      BY <1>1, ElementOfSeq
    <3>2. d \in [1..N -> CellType]
      BY <2>3, <3>1
    <3> QED
      BY <1>1, <3>2
  <2>5. d[t] = cell /\ \A a \in 1..N : a # t => d[a] = c[a]
    BY <2>1, <2>2, <2>3
  <2>6. \A i \in 1..n : s[i] # t /\ d[s[i]] = c[s[i]]
    <3>1. 1 \in 1..m
      BY <2>2
    <3>2. \A i \in 1..n : s[i] # f[1]
      BY <3>1 DEF Split
    <3> QED
      BY <1>2, <2>1, <2>2, <2>5, <3>2
  <2>7. \A b \in 1..Len(c) : b # t => d[b].next = c[b].next
    BY <1>1, <2>5
  <2>8. Linked(d, t, n + 1, r)
    <3>1. t \in 1..Len(d) /\ Len(d) \in Nat /\ Len(c) <= Len(d) /\ Len(c) \in Nat
      BY <1>1, <2>1, <2>2, <2>4
    <3>2. d[t].next = h
      BY <2>5
    <3> QED
      <4>1. Linked(c, h, n, s) /\ r = Prepend(t, n, s)
        BY <1>3
      <4>2. \A i \in 1..n : s[i] # t
        BY <2>6
      <4> QED
        BY ONLY Zenon, <2>7, <3>1, <3>2, <4>1, <4>2, LinkedPrepend
  <2>9. PICK g : g = Rest(m, f)
    OBVIOUS
  <2>10. /\ Linked(d, q, m - 1, g)
         /\ \A i \in 1..(m - 1) : g[i] = f[i + 1] /\ f[i + 1] # p
    <3>1. Len(d) = Len(c) /\ Len(c) \in Nat /\ \A b \in 1..Len(c) : b # p => d[b].next = c[b].next
      BY <1>1, <2>1, <2>4, <2>7
    <3> QED
      BY <1>6, <2>1, <2>9, <3>1, LinkedRest
  <2>11. \A i \in 1..(m - 1) : i + 1 \in 1..m
    BY <2>2
  <2>12. Split(d, n + 1, r, m - 1, g)
    <3>1. (n + 1) + (m - 1) = Len(d)
      BY ONLY <1>2, <2>2, <2>4
    <3>2. ASSUME NEW i \in 1..(n + 1), NEW j \in 1..(m - 1) PROVE r[i] # g[j]
      <4>1. g[j] = f[j + 1] /\ f[j + 1] # p /\ j + 1 \in 1..m
        BY <2>10, <2>11
      <4>2. CASE i = 1
        BY <1>4, <2>1, <4>1, <4>2
      <4>3. CASE i # 1
        <5>1. i - 1 \in 1..n /\ r[i] = s[i - 1]
          BY <1>4, <4>3
        <5> QED
          BY <4>1, <5>1 DEF Split
      <4> QED
        BY <4>2, <4>3
    <3>3. ASSUME NEW a \in 1..Len(d)
          PROVE  (\E i \in 1..(n + 1) : r[i] = a) \/ (\E j \in 1..(m - 1) : g[j] = a)
      <4>1. CASE a = t
        <5>1. 1 \in 1..(n + 1)
          BY <1>2
        <5> QED
          BY <1>4, <4>1, <5>1
      <4>2. CASE \E i \in 1..n : s[i] = a
        BY <1>4, <4>2
      <4>3. CASE a # t /\ \E j \in 1..m : f[j] = a
        <5>1. PICK j \in 1..m : f[j] = a
          BY <4>3
        <5>2. j # 1
          BY <2>1, <2>2, <4>3, <5>1
        <5>3. PICK i : i = j - 1
          OBVIOUS
        <5>4. i \in 1..(m - 1) /\ i + 1 = j
          BY <1>2, <5>2, <5>3
        <5>5. g[i] = a
          BY <2>10, <5>1, <5>4
        <5> QED
          BY <5>4, <5>5
      <4>4. a \in 1..Len(c)
        BY <1>1, <2>4
      <4> QED
        BY <4>1, <4>2, <4>3, <4>4 DEF Split
    <3> QED
      BY <3>1, <3>2, <3>3 DEF Split
  <2>13. Len(d) = (IF n + 1 > Len(c) THEN n + 1 ELSE Len(c)) /\ n + 1 <= Len(d)
    <3>1. ~(n + 1 > N) /\ n + 1 <= N
      BY ONLY <1>1, <1>2, <2>2
    <3> QED
      BY ONLY <1>1, <2>4, <3>1
  <2> QED
    BY <1>3, <2>4, <2>5, <2>6, <2>8, <2>10, <2>12, <2>13 DEF AfterPush, Lists, SameCells
<1> QED
  BY <1>5, <1>6

LEMMA PopLists ==
  ASSUME NEW c, NEW h, NEW p, NEW n, NEW s, NEW m, NEW f, Lists(c, h, p, n, s, m, f),
         NEW d, Pops(c, h, p, d)
  PROVE  AfterPop(c, n, s, d, h)
<1>0. /\ c \in Seq(CellType) /\ Linked(c, h, n, s) /\ Linked(c, p, m, f) /\ Split(c, n, s, m, f)
      /\ h # nil /\ p \in Nat /\ d = [c EXCEPT ![h].next = p]
  BY DEF Lists, Pops
<1> USE <1>0
<1>1. PICK N : N = Len(c) /\ N \in Nat /\ DOMAIN c = 1..N
  OBVIOUS
<1>2. /\ n \in Nat /\ m \in Nat /\ n + m = N
      /\ s \in [1..n -> 1..N] /\ f \in [1..m -> 1..N]
  BY <1>1 DEF Linked, Split
<1>3. \A a \in 1..N : c[a] \in CellType
  BY <1>1, ElementOfSeq
<1>4. d = [a \in 1..N |-> IF a = h THEN [c[a] EXCEPT !.next = p] ELSE c[a]]
  <2>1. c = [a \in 1..N |-> c[a]]
    BY <1>1
  <2> QED
    BY <1>1, <2>1
<1>5. \A a \in 1..N : (IF a = h THEN [c[a] EXCEPT !.next = p] ELSE c[a]) \in CellType
  BY <1>3 DEF CellType
<1>6. d \in Seq(CellType) /\ Len(d) = N
  <2>1. d \in [1..N -> CellType]
    BY <1>4, <1>5
  <2> QED
    BY <1>1, <2>1
<1>7. PICK r, g : r = Rest(n, s) /\ g = Prepend(h, m, f)
  OBVIOUS
<1>8. \A b \in 1..N : b # h => d[b] = c[b]
  BY <1>4
<1>9. /\ n \in Nat \ {0} /\ h = s[1] /\ h \in 1..N
      /\ Linked(d, c[h].next, n - 1, r)
      /\ \A i \in 1..(n - 1) : r[i] = s[i + 1] /\ s[i + 1] # h
  <2>1. Len(d) = Len(c) /\ Len(c) \in Nat /\ \A b \in 1..Len(c) : b # h => d[b].next = c[b].next
    BY <1>1, <1>6, <1>8
  <2>2. Linked(c, h, n, s) /\ h # nil
    OBVIOUS
  <2>3. n \in Nat \ {0} /\ h = s[1] /\ h \in 1..Len(c)
    BY ONLY <2>1, <2>2, LinkedRest
  <2>4. Linked(d, c[h].next, n - 1, Rest(n, s))
    BY ONLY <2>1, <2>2, LinkedRest
  <2>5. \A i \in 1..(n - 1) : Rest(n, s)[i] = s[i + 1] /\ s[i + 1] # h
    BY ONLY <2>1, <2>2, LinkedRest
  <2> QED
    BY <1>1, <1>7, <2>3, <2>4, <2>5
<1>10. d[h].next = p
  <2>1. c[h] \in CellType /\ d[h] = [c[h] EXCEPT !.next = p]
    BY <1>3, <1>4, <1>9
  <2> QED
    BY <2>1 DEF CellType
<1>11. \A j \in 1..m : f[j] # h
  <2>1. 1 \in 1..n
    BY <1>9
  <2> QED
    BY <1>9, <2>1 DEF Split
<1>12. Linked(d, h, m + 1, g)
  <2>1. h \in 1..Len(d) /\ Len(d) \in Nat /\ Len(c) <= Len(d) /\ Len(c) \in Nat
    BY <1>1, <1>6, <1>9
  <2>2. \A b \in 1..Len(c) : b # h => d[b].next = c[b].next
    BY <1>1, <1>8
  <2> QED
    BY <1>7, <1>10, <1>11, <2>1, <2>2, LinkedPrepend
<1>13. /\ g[1] = h /\ \A i \in 1..m : i + 1 \in 1..(m + 1) /\ g[i + 1] = f[i]
       /\ \A i \in 1..(m + 1) : i = 1 \/ (i - 1 \in 1..m /\ g[i] = f[i - 1])
  <2>1. m \in Nat
    BY <1>2
  <2>2. g = Prepend(h, m, f)
    BY <1>7
  <2>3. 1 \in 1..(m + 1) /\ \A i \in 1..m : i + 1 \in 1..(m + 1) /\ i + 1 # 1 /\ (i + 1) - 1 = i
    BY <2>1
  <2>4. g[1] = h /\ \A i \in 1..m : g[i + 1] = f[i]
    BY <2>2, <2>3 DEF Prepend
  <2>5. \A i \in 1..(m + 1) : i # 1 => i - 1 \in 1..m
    BY <2>1
  <2>6. \A i \in 1..(m + 1) : i # 1 => g[i] = f[i - 1]
    BY <2>2 DEF Prepend
  <2> QED
    BY <2>3, <2>4, <2>5, <2>6
<1>14. \A i \in 1..(n - 1) : i + 1 \in 1..n
  BY <1>2
<1>15. Split(d, n - 1, r, m + 1, g)
  <2>1. (n - 1) + (m + 1) = Len(d)
    BY <1>2, <1>6
  <2>2. ASSUME NEW i \in 1..(n - 1), NEW j \in 1..(m + 1) PROVE r[i] # g[j]
    <3>1. r[i] = s[i + 1] /\ s[i + 1] # h /\ i + 1 \in 1..n
      BY <1>9, <1>14
    <3>2. CASE j = 1
      BY <1>13, <3>1, <3>2
    <3>3. CASE j # 1
      <4>1. j - 1 \in 1..m /\ g[j] = f[j - 1]
        BY <1>13, <3>3
      <4> QED
        BY <3>1, <4>1 DEF Split
    <3> QED
      BY <3>2, <3>3
  <2>3. ASSUME NEW a \in 1..Len(d)
        PROVE  (\E i \in 1..(n - 1) : r[i] = a) \/ (\E j \in 1..(m + 1) : g[j] = a)
    <3>1. CASE a = h
      <4>1. 1 \in 1..(m + 1)
        BY <1>2
      <4> QED
        BY <1>13, <3>1, <4>1
    <3>2. CASE \E j \in 1..m : f[j] = a
      BY <1>13, <3>2
    <3>3. CASE a # h /\ \E i \in 1..n : s[i] = a
      <4>1. PICK i \in 1..n : s[i] = a
        BY <3>3
      <4>2. i # 1
        BY <1>9, <3>3, <4>1
      <4>3. PICK j : j = i - 1
        OBVIOUS
      <4>4. j \in 1..(n - 1) /\ j + 1 = i
        BY <1>2, <4>2, <4>3
      <4>5. r[j] = a
        BY <1>9, <4>1, <4>4
      <4> QED
        BY <4>4, <4>5
    <3>4. a \in 1..Len(c)
      BY <1>1, <1>6
    <3> QED
      BY <3>1, <3>2, <3>3, <3>4 DEF Split
  <2> QED
    BY <2>1, <2>2, <2>3 DEF Split
<1>16. \A i \in 1..(n - 1) : Item(d[s[i + 1]]) = Item(c[s[i + 1]])
  <2>1. \A i \in 1..(n - 1) : d[s[i + 1]] = c[s[i + 1]]
    BY <1>2, <1>8, <1>9, <1>14
  <2> QED
    BY <2>1
<1>17. n <= Len(c)
  BY <1>1, <1>2
<1> QED
  BY <1>1, <1>6, <1>7, <1>9, <1>12, <1>15, <1>16, <1>17 DEF AfterPop, Lists, SameItems

(* What the n cells of a list hold, the first of them last.                *)
Shown(c, n, s) == Reverse([k \in 1..n |-> Item(c[s[k]])])

Mapped == Reverse([n \in 1..Count(head) |-> Item(cells[Walk(head)[n - 1]])])

ShowsList ==
  \A n, s : Linked(cells, head, n, s) /\ n <= Len(cells) => Mapped = Shown(cells, n, s)

LEMMA MappedIs == CellsInv => ShowsList
<1> SUFFICES ASSUME CellsInv, NEW n, NEW s, Linked(cells, head, n, s), n <= Len(cells)
             PROVE  Mapped = Shown(cells, n, s)
  BY DEF ShowsList
<1>1. Len(cells) \in Nat
  BY DEF CellsInv, Lists
<1>2. Count(head) = n /\ \A i \in 1..n : Walk(head)[i - 1] = s[i]
  BY <1>1, ListIs
<1>3. [k \in 1..Count(head) |-> Item(cells[Walk(head)[k - 1]])] = [k \in 1..n |-> Item(cells[s[k]])]
  BY <1>2
<1> QED
  BY <1>3 DEF Mapped, Shown

LEMMA ShownPrepend ==
  ASSUME NEW c, NEW n \in Nat, NEW s, NEW d, NEW t, SameCells(c, n, s, d),
         NEW item, item = Item(d[t]), NEW m, m = n + 1, NEW r, r = Prepend(t, n, s),
         NEW more, more = Append(Shown(c, n, s), item)
  PROVE  Shown(d, m, r) = more
<1>1. PICK f, g : /\ f = [k \in 1..n |-> Item(c[s[k]])]
                  /\ r = Prepend(t, n, s)
                  /\ g = [k \in 1..(n + 1) |-> Item(d[r[k]])]
  OBVIOUS
<1>2. /\ 1 \in 1..(n + 1)
      /\ \A i \in 1..n : i + 1 \in 1..(n + 1) /\ i + 1 # 1 /\ (i + 1) - 1 = i
  OBVIOUS
<1>3. r[1] = t /\ \A i \in 1..n : r[i + 1] = s[i]
  BY <1>1, <1>2 DEF Prepend
<1>4. g[1] = item /\ \A i \in 1..n : g[i + 1] = f[i]
  <2>1. g[1] = item
    BY <1>1, <1>2, <1>3
  <2>2. ASSUME NEW i \in 1..n PROVE g[i + 1] = f[i]
    <3>1. g[i + 1] = Item(d[r[i + 1]]) /\ f[i] = Item(c[s[i]])
      BY <1>1, <1>2
    <3> QED
      BY <1>3, <3>1 DEF SameCells
  <2> QED
    BY <2>1, <2>2
<1>5. PICK T : T = {f[i] : i \in 1..n} \cup {item}
  OBVIOUS
<1>6. f \in Seq(T) /\ Len(f) = n
  <2>1. f \in [1..n -> T]
    BY <1>1, <1>5
  <2> QED
    BY <2>1
<1>7. g \in Seq(T) /\ Len(g) = n + 1
  <2>0. m = n + 1 /\ m \in Nat
    OBVIOUS
  <2>1. \A k \in 1..m : k = 1 \/ (k - 1 \in 1..n /\ (k - 1) + 1 = k)
    BY <2>0
  <2>2. ASSUME NEW k \in 1..m PROVE g[k] \in T
    <3>1. CASE k = 1
      BY <1>4, <1>5, <3>1
    <3>2. CASE k # 1
      <4>1. PICK j : j = k - 1
        OBVIOUS
      <4>2. j \in 1..n /\ k = j + 1
        BY <2>1, <3>2, <4>1
      <4> QED
        BY <1>4, <1>5, <4>2
    <3> QED
      BY <3>1, <3>2
  <2>3. g \in [1..m -> T]
    BY <1>1, <2>0, <2>2
  <2>4. g \in Seq(T) /\ Len(g) = m
    BY ONLY <2>0, <2>3
  <2> QED
    BY <2>0, <2>4
<1>8. PICK x : x = Reverse(f)
  OBVIOUS
<1>9. x = [i \in 1..n |-> f[(n - i) + 1]]
  BY <1>6, <1>8 DEF Reverse
<1>10. x \in Seq(T) /\ Len(x) = n
  <2>1. \A i \in 1..n : (n - i) + 1 \in 1..n
    OBVIOUS
  <2>2. x \in [1..n -> T]
    BY <1>5, <1>9, <2>1
  <2> QED
    BY <2>2
<1>11. Reverse(g) = [i \in 1..(n + 1) |-> g[((n + 1) - i) + 1]]
  BY <1>7 DEF Reverse
<1>12. Append(x, item) = [i \in 1..(n + 1) |-> IF i = n + 1 THEN item ELSE x[i]]
  BY <1>10
<1>13. ASSUME NEW i \in 1..(n + 1)
       PROVE  g[((n + 1) - i) + 1] = IF i = n + 1 THEN item ELSE x[i]
  <2>1. CASE i = n + 1
    <3>1. ((n + 1) - i) + 1 = 1
      BY <2>1
    <3> QED
      BY <1>4, <2>1, <3>1
  <2>2. CASE i # n + 1
    <3>1. PICK j : j = (n - i) + 1
      OBVIOUS
    <3>2. i \in 1..n /\ j \in 1..n /\ ((n + 1) - i) + 1 = j + 1
      BY <2>2, <3>1
    <3>3. x[i] = f[j]
      BY <1>9, <3>1, <3>2
    <3> QED
      BY <1>4, <2>2, <3>2, <3>3
  <2> QED
    BY <2>1, <2>2
<1>14. Reverse(g) = Append(x, item)
  BY <1>11, <1>12, <1>13
<1> QED
  BY <1>1, <1>8, <1>14 DEF Shown

LEMMA ShownRest ==
  ASSUME NEW c, NEW n \in Nat \ {0}, NEW s, NEW d, NEW r, SameItems(c, n, s, d, r)
  PROVE  Shown(c, n, s) # <<>> /\ Shown(d, n - 1, r) = Front(Shown(c, n, s))
<1>1. PICK f, g, x, m : /\ f = [k \in 1..n |-> Item(c[s[k]])]
                        /\ m = n - 1
                        /\ g = [k \in 1..m |-> Item(d[r[k]])]
                        /\ x = Reverse(f)
  OBVIOUS
<1>2. m \in Nat /\ n = m + 1 /\ \A i \in 1..m : i + 1 \in 1..n
  BY <1>1
<1>3. \A i \in 1..m : g[i] = f[i + 1]
  <2>1. ASSUME NEW i \in 1..m PROVE g[i] = f[i + 1]
    <3>1. g[i] = Item(d[r[i]]) /\ f[i + 1] = Item(c[s[i + 1]])
      BY <1>1, <1>2
    <3>2. r[i] = s[i + 1] /\ Item(d[s[i + 1]]) = Item(c[s[i + 1]])
      BY <1>1 DEF SameItems
    <3> QED
      BY <3>1, <3>2
  <2> QED
    BY <2>1
<1>4. PICK T : T = {f[i] : i \in 1..n}
  OBVIOUS
<1>5. f \in Seq(T) /\ Len(f) = n
  <2>1. f \in [1..n -> T]
    BY <1>1, <1>4
  <2> QED
    BY <2>1
<1>6. g \in Seq(T) /\ Len(g) = m
  <2>1. \A i \in 1..m : g[i] \in T
    BY <1>2, <1>3, <1>4
  <2>2. g \in [1..m -> T]
    BY <1>1, <2>1
  <2> QED
    BY <1>2, <2>2
<1>7. x = [i \in 1..n |-> f[(n - i) + 1]]
  BY <1>1, <1>5 DEF Reverse
<1>8. x \in Seq(T) /\ Len(x) = n
  <2>1. \A i \in 1..n : (n - i) + 1 \in 1..n
    OBVIOUS
  <2>2. x \in [1..n -> T]
    BY <1>4, <1>7, <2>1
  <2> QED
    BY <2>2
<1>9. x # <<>>
  BY <1>8
<1>10. Front(x) = [i \in 1..m |-> x[i]]
  <2>1. Front(x) = SubSeq(x, 1, m)
    BY <1>1, <1>8 DEF Front
  <2>2. SubSeq(x, 1, m) = [i \in 1..m |-> x[i]]
    BY <1>2, <1>8
  <2> QED
    BY <2>1, <2>2
<1>11. Reverse(g) = [i \in 1..m |-> g[(m - i) + 1]]
  BY <1>6 DEF Reverse
<1>12. ASSUME NEW i \in 1..m PROVE g[(m - i) + 1] = x[i]
  <2>1. PICK j : j = (m - i) + 1
    OBVIOUS
  <2>2. j \in 1..m /\ i \in 1..n /\ (n - i) + 1 = j + 1
    BY <1>2, <2>1
  <2>3. x[i] = f[j + 1]
    BY <1>7, <2>2
  <2> QED
    BY <1>3, <2>1, <2>2, <2>3
<1>13. Reverse(g) = Front(x)
  BY <1>10, <1>11, <1>12
<1> QED
  BY <1>1, <1>9, <1>13 DEF Shown

-----------------------------------------------------------------------------
LEMMA PushStep ==
  ASSUME CellsInv, ShowsList, NEW kind \in {"start", "ns"}, NEW name \in CellNames,
         NEW ok \in BOOLEAN, Push(kind, name, ok), Deepen
  PROVE  /\ CellsInv'
         /\ ShowsList' => Mapped' = Append(Mapped, Item(Cell(head, kind, name, ok)))
<1>1. PICK n, s, m, f : Lists(cells, head, free, n, s, m, f)
  BY DEF CellsInv
<1>2. PICK c, h, p, t, cell, d, q :
        /\ c = cells /\ h = head /\ p = free
        /\ t = (IF p # nil THEN p ELSE Len(c) + 1)
        /\ cell = Cell(h, kind, name, ok)
        /\ d = [a \in DOMAIN c \cup {t} |-> IF a = t THEN cell ELSE c[a]]
        /\ q = (IF p # nil THEN c[p].next ELSE p)
  OBVIOUS
<1>3. Lists(c, h, p, n, s, m, f)
  BY <1>1, <1>2
<1>4. c \in Seq(CellType) /\ Len(c) \in Nat /\ Len(c) = deepest /\ Linked(c, h, n, s)
  BY <1>2, <1>3 DEF CellsInv, Lists
<1>5. n \in Nat /\ n <= Len(c)
  BY <1>3, <1>4 DEF Lists, Linked, Split
<1>6. h \in Nat
  <2>1. CASE 1 <= n
    <3>1. 1 \in 1..n /\ h = s[1]
      BY <1>4, <1>5, <2>1 DEF Linked, At
    <3> QED
      BY <1>4, <3>1 DEF Linked
  <2>2. CASE ~(1 <= n)
    BY <1>4, <2>2 DEF Linked, At, nil
  <2> QED
    BY <2>1, <2>2
<1>7. cell \in CellType /\ cell.next = h
  BY <1>2, <1>6 DEF CellType, Cell
<1>8. Pushes(c, h, p, t, cell, d, q)
  BY <1>2, <1>7 DEF Pushes
<1>9. AfterPush(c, n, s, d, t, q, cell)
  BY ONLY <1>3, <1>8, PushLists
<1>10. /\ Len(d) = (IF n + 1 > Len(c) THEN n + 1 ELSE Len(c)) /\ n + 1 <= Len(d)
       /\ d[t] = cell /\ SameCells(c, n, s, d)
  BY <1>9 DEF AfterPush
<1>11. PICK k, g : Lists(d, t, q, n + 1, Prepend(t, n, s), k, g)
  BY <1>9 DEF AfterPush
<1>12. Taken = t
  BY <1>2 DEF Taken
<1>13. cells' = d /\ head' = t /\ free' = q
  BY <1>2, <1>12 DEF Push, Stored
<1>14. Count(head) = n
  BY <1>2, <1>4, <1>5, ListIs
<1>15. deepest' = Len(d)
  BY <1>4, <1>10, <1>14 DEF Deepen
<1>16. CellsInv'
  BY <1>11, <1>13, <1>15 DEF CellsInv
<1>17. ASSUME ShowsList'
       PROVE  Mapped' = Append(Mapped, Item(Cell(head, kind, name, ok)))
  <2>1. Mapped' = Shown(d, n + 1, Prepend(t, n, s))
    <3>1. \A n2, s2 : Linked(cells', head', n2, s2) /\ n2 <= Len(cells') => Mapped' = Shown(cells', n2, s2)
      BY <1>17 DEF ShowsList
    <3>2. Linked(d, t, n + 1, Prepend(t, n, s))
      BY <1>11 DEF Lists
    <3> QED
      BY <1>10, <1>13, <3>1, <3>2
  <2>2. Mapped = Shown(c, n, s)
    BY <1>2, <1>4, <1>5 DEF ShowsList
  <2>3. PICK item : item = Item(d[t])
    OBVIOUS
  <2>4. Shown(d, n + 1, Prepend(t, n, s)) = Append(Shown(c, n, s), item)
    <3>1. PICK k2, r : k2 = n + 1 /\ r = Prepend(t, n, s)
      OBVIOUS
    <3>2. PICK more : more = Append(Shown(c, n, s), item)
      OBVIOUS
    <3>3. Shown(d, k2, r) = more
      <4>1. SameCells(c, n, s, d) /\ n \in Nat
        BY ONLY <1>5, <1>10 DEF Linked
      <4> QED
        BY ONLY <4>1, <2>3, <3>1, <3>2, ShownPrepend
    <3> QED
      BY <3>1, <3>2, <3>3
  <2>5. item = Item(Cell(head, kind, name, ok))
    BY <1>2, <1>10, <2>3
  <2> QED
    BY <2>1, <2>2, <2>4, <2>5
<1> QED
  BY <1>16, <1>17

LEMMA PopStep ==
  ASSUME CellsInv, ShowsList, Pop
  PROVE  /\ CellsInv'
         /\ ShowsList' => Mapped' = IF Mapped = <<>> THEN <<>> ELSE Front(Mapped)
<1>1. PICK n, s, m, f : Lists(cells, head, free, n, s, m, f)
  BY DEF CellsInv
<1>2. /\ cells \in Seq(CellType) /\ Len(cells) \in Nat /\ deepest = Len(cells)
      /\ Linked(cells, head, n, s) /\ Linked(cells, free, m, f)
  BY <1>1 DEF CellsInv, Lists
<1>3. n \in Nat /\ m \in Nat /\ n + m = Len(cells) /\ n <= Len(cells)
  BY <1>1, <1>2 DEF Lists, Linked, Split
<1>4. Mapped = Shown(cells, n, s)
  BY <1>2, <1>3 DEF ShowsList
<1>5. CASE head = nil
  <2>1. cells' = cells /\ head' = head /\ free' = free /\ deepest' = deepest
    BY <1>5 DEF Pop
  <2>2. CellsInv'
    BY <2>1 DEF CellsInv
  <2>3. n = 0
    <3>1. SUFFICES ASSUME 1 <= n PROVE FALSE
      BY <1>3
    <3>2. 1 \in 1..n /\ head = s[1]
      BY <1>2, <1>3, <3>1 DEF Linked, At
    <3> QED
      BY <1>2, <1>5, <3>2 DEF Linked, nil
  <2>4. Mapped = <<>>
    <3>1. PICK x : x = [k \in 1..n |-> Item(cells[s[k]])]
      OBVIOUS
    <3>2. x = <<>>
      BY <2>3, <3>1
    <3>3. Reverse(x) = <<>>
      BY <3>2 DEF Reverse
    <3> QED
      BY <1>4, <3>1, <3>3 DEF Shown
  <2>5. ShowsList' => Mapped' = Shown(cells, n, s)
    BY <1>2, <1>3, <2>1 DEF ShowsList
  <2> QED
    BY <1>4, <2>2, <2>4, <2>5
<1>6. CASE head # nil
  <2>1. PICK c, h, p, d : /\ c = cells /\ h = head /\ p = free
                          /\ d = [c EXCEPT ![h].next = p]
    OBVIOUS
  <2>2. Lists(c, h, p, n, s, m, f) /\ Linked(c, p, m, f) /\ h # nil
    BY <1>1, <1>2, <1>6, <2>1
  <2>3. p \in Nat
    <3>1. CASE 1 <= m
      <4>1. 1 \in 1..m /\ p = f[1]
        BY <1>3, <2>2, <3>1 DEF Linked, At
      <4>2. p \in 1..Len(c)
        BY <2>2, <4>1 DEF Linked
      <4> QED
        BY <1>2, <2>1, <4>2
    <3>2. CASE ~(1 <= m)
      BY <2>2, <3>2 DEF Linked, At, nil
    <3> QED
      BY <3>1, <3>2
  <2>4. AfterPop(c, n, s, d, h)
    <3>1. Pops(c, h, p, d)
      BY <2>1, <2>2, <2>3 DEF Pops
    <3> QED
      BY ONLY <2>2, <3>1, PopLists
  <2>5. /\ Len(d) = Len(c) /\ n \in Nat \ {0} /\ n <= Len(c)
        /\ SameItems(c, n, s, d, Rest(n, s))
    BY <2>4 DEF AfterPop
  <2>6. PICK k, g : Lists(d, c[h].next, h, n - 1, Rest(n, s), k, g)
    BY <2>4 DEF AfterPop
  <2>7. cells' = d /\ head' = c[h].next /\ free' = h /\ deepest' = deepest
    BY <1>6, <2>1 DEF Pop
  <2>8. CellsInv'
    <3>1. deepest' = Len(cells')
      BY <1>2, <2>1, <2>5, <2>7
    <3> QED
      BY <2>6, <2>7, <3>1 DEF CellsInv
  <2>9. ASSUME ShowsList'
        PROVE  Mapped' = IF Mapped = <<>> THEN <<>> ELSE Front(Mapped)
    <3>1. Mapped' = Shown(d, n - 1, Rest(n, s))
      <4>1. \A n2, s2 : Linked(cells', head', n2, s2) /\ n2 <= Len(cells') => Mapped' = Shown(cells', n2, s2)
        BY <2>9 DEF ShowsList
      <4>2. n - 1 <= Len(cells')
        BY <1>2, <1>3, <2>1, <2>5, <2>7
      <4>3. Linked(d, c[h].next, n - 1, Rest(n, s))
        BY <2>6 DEF Lists
      <4> QED
        BY <2>7, <4>1, <4>2, <4>3
    <3>2. PICK r : r = Rest(n, s)
      OBVIOUS
    <3>3. Shown(c, n, s) # <<>> /\ Shown(d, n - 1, r) = Front(Shown(c, n, s))
      <4>1. n \in Nat \ {0} /\ SameItems(c, n, s, d, r)
        BY <2>5, <3>2
      <4> QED
        BY ONLY <4>1, ShownRest
    <3> QED
      BY <1>4, <2>1, <3>1, <3>2, <3>3
  <2> QED
    BY <2>8, <2>9
<1> QED
  BY <1>5, <1>6

LEMMA CellsInit == CellInit => CellsInv
<1> SUFFICES ASSUME CellInit PROVE CellsInv
  OBVIOUS
<1>1. PICK c, f : c = <<>> /\ f = <<>>
  OBVIOUS
<1>2. c \in Seq(CellType) /\ Len(c) = 0 /\ f \in [1..0 -> 1..0]
  BY <1>1
<1>3. Linked(c, nil, 0, f)
  BY <1>2 DEF Linked, At, nil
<1>4. Split(c, 0, f, 0, f)
  BY <1>2 DEF Split
<1>5. Lists(c, nil, nil, 0, f, 0, f)
  BY <1>2, <1>3, <1>4 DEF Lists
<1>6. cells = c /\ head = nil /\ free = nil /\ deepest = 0
  BY <1>1 DEF CellInit
<1> QED
  BY <1>2, <1>5, <1>6 DEF CellsInv

LEMMA CellsStep ==
  ASSUME CellsInv, ShowsList, [CellNext]_cellVars
  PROVE  CellsInv' /\ (ShowsList' => [Stack!Next]_Mapped)
<1>1. ASSUME NEW name \in CellNames, PushElement(name)
      PROVE  CellsInv' /\ (ShowsList' => Stack!Next)
  <2>1. StaleOk \in BOOLEAN
    <3>1. PICK n, s, m, f : Lists(cells, head, free, n, s, m, f)
      BY DEF CellsInv
    <3>2. CASE free # nil
      <4>1. 1 \in 1..m /\ free = f[1]
        BY <3>1, <3>2 DEF Lists, Linked, At
      <4>2. free \in 1..Len(cells)
        BY <3>1, <4>1 DEF Lists, Linked
      <4>3. cells[free] \in CellType
        BY <3>1, <4>2, ElementOfSeq DEF Lists
      <4> QED
        BY <3>2, <4>3 DEF StaleOk, CellType
    <3> QED
      BY <3>2 DEF StaleOk
  <2>2. Push("start", name, StaleOk) /\ Deepen
    BY <1>1 DEF PushElement
  <2>3. PICK ok, item : ok = StaleOk /\ item = Item(Cell(head, "start", name, ok))
    OBVIOUS
  <2>4. CellsInv' /\ (ShowsList' => Mapped' = Append(Mapped, item))
    BY <2>1, <2>2, <2>3, PushStep
  <2>5. item \in [kind : {"start", "ns"}, name : CellNames, ok : BOOLEAN]
    BY <2>3 DEF Item, Cell
  <2> QED
    BY <2>4, <2>5 DEF Stack!Next, Stack!Push, Mapped
<1>2. ASSUME NEW name \in CellNames, NEW ok \in BOOLEAN, PushNs(name, ok)
      PROVE  CellsInv' /\ (ShowsList' => Stack!Next)
  <2>1. Push("ns", name, ok) /\ Deepen
    BY <1>2 DEF PushNs
  <2>2. PICK item : item = Item(Cell(head, "ns", name, ok))
    OBVIOUS
  <2>3. CellsInv' /\ (ShowsList' => Mapped' = Append(Mapped, item))
    BY <2>1, <2>2, PushStep
  <2>4. item \in [kind : {"start", "ns"}, name : CellNames, ok : BOOLEAN]
    BY <2>2 DEF Item, Cell
  <2> QED
    BY <2>3, <2>4 DEF Stack!Next, Stack!Push, Mapped
<1>3. CASE Pop
  <2>1. CellsInv' /\ (ShowsList' => Mapped' = IF Mapped = <<>> THEN <<>> ELSE Front(Mapped))
    BY <1>3, PopStep
  <2> QED
    BY <2>1 DEF Stack!Next, Stack!Pop, Stack!Front, Front, Mapped
<1>4. CASE UNCHANGED cellVars
  <2>1. CellsInv'
    BY <1>4 DEF cellVars, CellsInv
  <2>2. Mapped' = Mapped
    BY <1>4 DEF cellVars, Mapped, Count, Walk
  <2> QED
    BY <2>1, <2>2
<1> QED
  BY <1>1, <1>2, <1>3, <1>4 DEF CellNext

LEMMA CellsAlways == CellSpec => []CellsInv
<1>1. CellsInv /\ [CellNext]_cellVars => CellsInv'
  BY CellsStep, MappedIs
<1> QED
  BY <1>1, CellsInit, PTL DEF CellSpec

(***************************************************************************)
(* Every cell that was ever allocated is on the stack or on the free list, *)
(* on one of them and once, and there are as many as the stack was deep at *)
(* its deepest, whatever the names and however many items are pushed and   *)
(* popped (xml.go:184-236).                                                *)
(***************************************************************************)
THEOREM CellsAlwaysPartitioned == CellSpec => []CellsPartitioned
  BY CellsAlways, PartitionedIs, PTL

(***************************************************************************)
(* The linked cells implement the stack that XMLScopes works on: what an   *)
(* earlier use has left in a cell is never read (xml.go:184-236).          *)
(***************************************************************************)
THEOREM CellsRefineUndoStack == CellSpec => RefinesUndoStack
<1>1. CellSpec => [](CellsInv /\ ShowsList)
  BY CellsAlways, MappedIs, PTL
<1>2. CellInit => Stack!Init
  <2>1. ASSUME CellInit PROVE Mapped = <<>>
    <3>1. CellsInv
      BY <2>1, CellsInit
    <3>2. ShowsList
      BY <3>1, MappedIs
    <3>3. PICK n, s, m, f : Lists(cells, head, free, n, s, m, f)
      BY <3>1 DEF CellsInv
    <3>4. Len(cells) = 0
      BY <2>1 DEF CellInit
    <3>5. n = 0 /\ Linked(cells, head, n, s)
      BY <3>3, <3>4 DEF Lists, Linked, Split
    <3>6. Mapped = Shown(cells, 0, s)
      BY <3>2, <3>4, <3>5 DEF ShowsList
    <3>7. PICK x : x = [k \in 1..0 |-> Item(cells[s[k]])]
      OBVIOUS
    <3>8. x = <<>>
      BY <3>7
    <3>9. Reverse(x) = <<>>
      BY <3>8 DEF Reverse
    <3> QED
      BY <3>6, <3>7, <3>9 DEF Shown
  <2> QED
    BY <2>1 DEF Stack!Init, Mapped
<1>3. CellsInv /\ ShowsList /\ [CellNext]_cellVars /\ ShowsList' => [Stack!Next]_Mapped
  BY CellsStep
<1> QED
  BY <1>1, <1>2, <1>3, PTL DEF CellSpec, RefinesUndoStack, Stack!Spec, Mapped

-----------------------------------------------------------------------------
(* What another space makes of a name.                                     *)
LEMMA SpaceOfName ==
  ASSUME NEW y, NEW z, NEW l
  PROVE  [[space |-> y, local |-> l] EXCEPT !.space = z] = [space |-> z, local |-> l]
<1>1. PICK S, L : S = {y, z} /\ L = {l}
  OBVIOUS
<1>2. PICK r \in [space : S, local : L] : r = [space |-> y, local |-> l]
  BY <1>1
<1>3. z \in S /\ r.local = l
  BY <1>1, <1>2
<1>4. [r EXCEPT !.space = z] = [space |-> z, local |-> r.local]
  BY <1>3
<1>. QED
  BY <1>2, <1>3, <1>4

(***************************************************************************)
(* What the printer relies on: the prefix that it has for a namespace is   *)
(* bound to it, and it has one for whatever a prefix is bound to.          *)
(***************************************************************************)
Reserved == {"", xmlPrefix, xmlnsPrefix}

Undoes(map, env) ==
  /\ \A u \in DOMAIN map : /\ u \notin {"", xmlnsPrefix}
                           /\ map[u] \in DOMAIN env \ Reserved /\ env[map[u]] = u
  /\ \A p \in DOMAIN env \ {""} : p \notin Reserved /\ env[p] \in DOMAIN map

BoundName(env, raw) == raw.space \in {""} \cup DOMAIN env
NamedAgain(env, name, s) == BoundName(env, s) /\ Translate(env, s) = name

(* A name of an element is read again from what is printed for it.         *)
LEMMA NameSurvives ==
  ASSUME NEW map, NEW env, Undoes(map, env), NEW raw \in RawNames, BoundName(env, raw),
         NEW name, name = Translate(env, raw), NEW s, s = Spelled(map, name)
  PROVE  NamedAgain(env, name, s)
<1>0. raw.space \in {""} \cup DOMAIN env
  BY DEF BoundName
<1>1. PICK x \in NsPrefixes, l \in Locals : raw = [space |-> x, local |-> l] /\ x = raw.space
  BY DEF RawNames
<1>. DEFINE N(y) == [space |-> y, local |-> l]
<1>2. ASSUME NEW y PROVE N(y).space = y /\ N(y).local = l
  OBVIOUS
<1>3. ASSUME NEW y, NEW z PROVE [N(y) EXCEPT !.space = z] = N(z)
  BY SpaceOfName
<1>4. \A y : N(y).space = y /\ N(y).local = l /\ \A z : [N(y) EXCEPT !.space = z] = N(z)
  BY <1>2, <1>3
<1>5. raw = N(x)
  BY <1>1
<1>. HIDE DEF N
<1>6. \A y : Spelled(map, N(y)) = N(IF y \in DOMAIN map \ {""} THEN map[y] ELSE "")
  BY <1>4 DEF Spelled
<1>7. \A y : /\ y = xmlnsPrefix => Translate(env, N(y)) = N(y)
             /\ y = "" /\ l = xmlnsPrefix => Translate(env, N(y)) = N(y)
             /\ y \in DOMAIN env \ Reserved => Translate(env, N(y)) = N(env[y])
             /\ y = "" /\ l # xmlnsPrefix /\ "" \in DOMAIN env => Translate(env, N(y)) = N(env[""])
             /\ y = "" /\ "" \notin DOMAIN env => Translate(env, N(y)) = N(y)
  <2>1. SUFFICES ASSUME NEW y
                 PROVE  /\ y = xmlnsPrefix => Translate(env, N(y)) = N(y)
                        /\ y = "" /\ l = xmlnsPrefix => Translate(env, N(y)) = N(y)
                        /\ y \in DOMAIN env \ Reserved => Translate(env, N(y)) = N(env[y])
                        /\ y = "" /\ l # xmlnsPrefix /\ "" \in DOMAIN env => Translate(env, N(y)) = N(env[""])
                        /\ y = "" /\ "" \notin DOMAIN env => Translate(env, N(y)) = N(y)
    OBVIOUS
  <2>2. PICK r : r = N(y)
    OBVIOUS
  <2>3. r.space = y /\ r.local = l /\ \A z : [r EXCEPT !.space = z] = N(z)
    BY ONLY <1>4, <2>2
  <2>4. Translate(env, r) =
          IF y = xmlnsPrefix \/ (y = "" /\ l = xmlnsPrefix) THEN r
          ELSE IF y = xmlPrefix THEN N(xmlURL)
          ELSE IF y \in DOMAIN env THEN N(env[y]) ELSE r
    BY ONLY <2>3 DEF Translate
  <2>5. y = "" => y # xmlPrefix /\ y # xmlnsPrefix
    BY DEF xmlnsPrefix, xmlPrefix
  <2>6. y \in Reserved <=> y \in {"", xmlPrefix, xmlnsPrefix}
    BY DEF Reserved
  <2>. QED
    BY ONLY <2>2, <2>4, <2>5, <2>6
<1>8. CASE x # ""
  <2>1. x \in DOMAIN env \ Reserved /\ env[x] \in DOMAIN map /\ env[x] # ""
    BY <1>0, <1>1, <1>8 DEF Undoes
  <2>2. name = N(env[x])
    BY <1>5, <1>7, <2>1
  <2>3. s = N(map[env[x]])
    BY <1>6, <2>1, <2>2
  <2>4. map[env[x]] \in DOMAIN env \ Reserved /\ env[map[env[x]]] = env[x]
    BY <2>1 DEF Undoes
  <2>5. Translate(env, s) = N(env[x])
    BY <1>7, <2>3, <2>4
  <2>. QED
    BY <1>4, <2>2, <2>3, <2>4, <2>5 DEF NamedAgain, BoundName
<1>9. CASE x = "" /\ (l = xmlnsPrefix \/ "" \notin DOMAIN env)
  <2>1. name = N("")
    BY <1>5, <1>7, <1>9
  <2>2. s = N("")
    BY <1>6, <2>1
  <2>. QED
    BY <1>4, <1>7, <1>9, <2>1, <2>2 DEF NamedAgain, BoundName
<1>10. CASE x = "" /\ l # xmlnsPrefix /\ "" \in DOMAIN env
  <2>1. name = N(env[""])
    BY <1>5, <1>7, <1>10
  <2>2. CASE env[""] \in DOMAIN map
    <3>1. env[""] # "" /\ map[env[""]] \in DOMAIN env \ Reserved /\ env[map[env[""]]] = env[""]
      BY <2>2 DEF Undoes
    <3>2. s = N(map[env[""]])
      BY <1>6, <2>1, <2>2, <3>1
    <3>3. Translate(env, s) = N(env[""])
      BY <1>7, <3>1, <3>2
    <3>. QED
      BY <1>4, <2>1, <3>1, <3>2, <3>3 DEF NamedAgain, BoundName
  <2>3. CASE env[""] \notin DOMAIN map
    <3>1. s = N("")
      BY <1>6, <2>1, <2>3
    <3>2. Translate(env, s) = N(env[""])
      BY <1>7, <1>10, <3>1
    <3>. QED
      BY <1>4, <2>1, <3>1, <3>2 DEF NamedAgain, BoundName
  <2>. QED
    BY <2>2, <2>3
<1>. QED
  BY <1>8, <1>9, <1>10

(* An attribute of an element below the root, where env is in scope.       *)
Plainly(env, a) == a.space # xmlnsPrefix /\ a.space \in {"", xmlPrefix} \cup DOMAIN env

(* It is read again from what is printed for it.                           *)
ReadAgain(map, env, a, read, s) ==
  /\ s.space \in {"", xmlPrefix, xmlnsPrefix} \cup DOMAIN env
  /\ TranslateAttr(env, s) = read
  /\ Define(map, read) = map
  /\ DeclarationOf(s) = DeclarationOf(a)

(* So is the name of an attribute.  The map has a prefix for it, and it    *)
(* declares what it declared.                                              *)
LEMMA AttrSurvives ==
  ASSUME NEW map, NEW env, Undoes(map, env), NEW a \in AttrType, Plainly(env, a),
         NEW read, read = TranslateAttr(env, a), NEW s, s = AttrSpelled(map, read)
  PROVE  ReadAgain(map, env, a, read, s)
<1>0. /\ s.space \in {"", xmlPrefix, xmlnsPrefix} \cup DOMAIN env
      /\ TranslateAttr(env, s) = read
      /\ Define(map, read) = map
      /\ DeclarationOf(s) = DeclarationOf(a)
  <2>1. PICK x, l, v : a = [space |-> x, local |-> l, uri |-> v] /\ x = a.space
    BY DEF AttrType
  <2>. DEFINE A(y) == [space |-> y, local |-> l, uri |-> v]
  <2>a. ASSUME NEW y PROVE A(y).space = y /\ A(y).local = l /\ A(y).uri = v
    OBVIOUS
  <2>b. ASSUME NEW y, NEW z PROVE InSpace(A(y), z) = A(z)
    BY DEF InSpace
  <2>2. \A y : A(y).space = y /\ A(y).local = l /\ A(y).uri = v /\ \A z : InSpace(A(y), z) = A(z)
    BY <2>a, <2>b
  <2>3. a = A(x)
    BY <2>1
  <2>. HIDE DEF A
  <2>4. /\ TranslateAttr(env, A("")) = A("")
        /\ TranslateAttr(env, A(xmlPrefix)) = A(xmlURL)
        /\ \A y \in DOMAIN env \ Reserved : TranslateAttr(env, A(y)) = A(env[y])
    BY <2>2 DEF TranslateAttr, Reserved, xmlnsPrefix, xmlPrefix
  <2>5. /\ AttrSpelled(map, A("")) = A("")
        /\ \A y \in DOMAIN map : y # "" => AttrSpelled(map, A(y)) = A(map[y])
        /\ xmlURL \notin DOMAIN map => AttrSpelled(map, A(xmlURL)) = A(xmlPrefix)
    BY <2>2 DEF AttrSpelled, xmlURL
  <2>6. \A y : y \in {"", xmlURL} \cup DOMAIN map => Define(map, A(y)) = map
    BY <2>2 DEF Define
  <2>7. \A y : y \notin {"", xmlnsPrefix} => DeclarationOf(A(y)) = <<>>
    BY <2>2 DEF DeclarationOf, IsDefault
  <2>8. CASE x = ""
    <3>1. read = A("") /\ s = A("")
      BY <2>3, <2>4, <2>5, <2>8
    <3>. QED
      BY <2>2, <2>3, <2>4, <2>6, <2>8, <3>1
  <2>9. CASE x \in DOMAIN env \ Reserved
    <3>1. env[x] \in DOMAIN map
      BY <2>9 DEF Undoes, Reserved
    <3>2. env[x] # "" /\ map[env[x]] \in DOMAIN env \ Reserved /\ env[map[env[x]]] = env[x]
      BY <3>1 DEF Undoes
    <3>3. read = A(env[x])
      BY <2>3, <2>4, <2>9
    <3>4. s = A(map[env[x]])
      BY <2>5, <3>1, <3>2, <3>3
    <3>5. TranslateAttr(env, s) = A(env[x])
      BY <2>4, <3>2, <3>4
    <3>6. Define(map, read) = map
      BY <2>6, <3>1, <3>3
    <3>7. DeclarationOf(s) = <<>> /\ DeclarationOf(a) = <<>>
      BY <2>3, <2>7, <2>9, <3>2, <3>4 DEF Reserved
    <3>. QED
      BY <2>2, <3>2, <3>3, <3>4, <3>5, <3>6, <3>7
  <2>10. CASE x = xmlPrefix
    <3>1. read = A(xmlURL)
      BY <2>3, <2>4, <2>10
    <3>2. Define(map, read) = map
      BY <2>6, <3>1
    <3>3. xmlPrefix \notin {"", xmlnsPrefix} /\ xmlURL # ""
      BY DEF xmlPrefix, xmlnsPrefix, xmlURL
    <3>4. CASE xmlURL \in DOMAIN map
      <4>1. map[xmlURL] \in DOMAIN env \ Reserved /\ env[map[xmlURL]] = xmlURL
        BY <3>4 DEF Undoes
      <4>2. s = A(map[xmlURL])
        BY <2>5, <3>1, <3>3, <3>4
      <4>3. TranslateAttr(env, s) = A(xmlURL)
        BY <2>4, <4>1, <4>2
      <4>4. DeclarationOf(s) = <<>> /\ DeclarationOf(a) = <<>>
        BY <2>3, <2>7, <2>10, <3>3, <4>1, <4>2 DEF Reserved
      <4>. QED
        BY <2>2, <3>1, <3>2, <4>1, <4>2, <4>3, <4>4
    <3>5. CASE xmlURL \notin DOMAIN map
      <4>1. s = A(xmlPrefix)
        BY <2>5, <3>1, <3>5
      <4>. QED
        BY <2>2, <2>3, <2>4, <2>10, <3>1, <3>2, <4>1
    <3>. QED
      BY <3>4, <3>5
  <2>11. x = "" \/ x = xmlPrefix \/ x \in DOMAIN env \ Reserved
    BY <2>1 DEF Reserved, Undoes, Plainly
  <2>. QED
    BY <2>8, <2>9, <2>10, <2>11
<1>. QED
  BY <1>0 DEF ReadAgain

(* The recursion of DefineEach, for maps that stay in a set.               *)
Defines(f, map, attrs) ==
  /\ f[0] = map
  /\ \A k \in 1..Len(attrs) : f[k] = Define(f[k - 1], attrs[k])

LEMMA DefineEachIs ==
  ASSUME NEW M, NEW map \in M, NEW A, NEW attrs \in Seq(A),
         \A k \in 1..Len(attrs) : \A m \in M : Define(m, attrs[k]) \in M
  PROVE  DefineEach(map, attrs) \in [0..Len(attrs) -> M] /\ Defines(DefineEach(map, attrs), map, attrs)
<1>1. PICK n \in Nat : n = Len(attrs)
  OBVIOUS
<1>2. PICK step : step = [k \in 1..n |-> [m \in M |-> Define(m, attrs[k])]]
  OBVIOUS
<1>3. step \in [1..n -> [M -> M]]
  BY <1>1, <1>2
<1>4. PICK f \in [0..n -> M] : Follows(f, n, map, step)
  BY ONLY map \in M, <1>3, RecursionExists
<1>5. f[0] = map /\ \A k \in 1..n : f[k] = Define(f[k - 1], attrs[k])
  <2>1. \A k \in 1..n : f[k - 1] \in M
    <3>1. \A k \in 1..n : k - 1 \in 0..n
      OBVIOUS
    <3>. QED
      BY <3>1
  <2>. QED
    BY <1>2, <1>4, <2>1 DEF Follows
<1>. DEFINE Then(h, k) == IF k = 0 THEN map ELSE Define(h[k - 1], attrs[k])
<1>6. \A k \in 0..n : f[k] = Then(f, k)
  <2>1. \A k \in 0..n : k = 0 \/ k \in 1..n
    OBVIOUS
  <2>. QED
    BY <1>5, <2>1
<1>. HIDE DEF Then
<1>7. f = [k \in 0..n |-> Then(f, k)]
  BY <1>6
<1>8. PICK w : w = CHOOSE h : h = [k \in 0..n |-> Then(h, k)]
  OBVIOUS
<1>9. w = [k \in 0..n |-> Then(w, k)]
  BY <1>7, <1>8, Zenon
<1>10. DefineEach(map, attrs) = w
  BY <1>1, <1>8 DEF DefineEach, Then
<1>11. \A k \in 0..n : w[k] = Then(w, k)
  BY <1>9
<1>12. PICK same : same = [k \in 0..n |-> w[k] = f[k]]
  OBVIOUS
<1>13. same[0]
  <2>1. 0 \in 0..n
    OBVIOUS
  <2>2. w[0] = map
    BY <1>11, <2>1 DEF Then
  <2>. QED
    BY <1>5, <1>12, <2>1, <2>2
<1>14. ASSUME NEW k \in 1..n, same[k - 1] PROVE same[k]
  <2>1. k \in 0..n /\ k - 1 \in 0..n /\ k # 0
    OBVIOUS
  <2>2. w[k] = Define(w[k - 1], attrs[k])
    BY <1>11, <2>1 DEF Then
  <2>3. w[k - 1] = f[k - 1]
    BY <1>12, <1>14, <2>1
  <2>4. w[k] = f[k]
    BY <1>5, <2>2, <2>3
  <2>. QED
    BY <1>12, <2>1, <2>4
<1>15. \A k \in 0..n : same[k]
  BY ONLY <1>13, <1>14, AllFollow
<1>16. \A k \in 0..n : w[k] = f[k]
  BY <1>12, <1>15
<1>17. w = f
  BY <1>9, <1>16
<1>. QED
  BY <1>1, <1>5, <1>10, <1>17 DEF Defines

Below(env, attrs) == \A k \in 1..Len(attrs) : Plainly(env, attrs[k])

BoundIn(env, attrs) ==
  \A k \in DOMAIN attrs : attrs[k].space \in {"", xmlPrefix, xmlnsPrefix} \cup DOMAIN env

PrintedAgain(map, env, attrs, read, spelled) ==
  /\ DefineAll(map, read) = map
  /\ DeclarationsIn(spelled) = DeclarationsIn(attrs)
  /\ TranslateAttrs(env, spelled) = read
  /\ BoundIn(env, spelled)

(* Below the root no prefix is added, and what is printed of attributes is *)
(* read as it was, with what they declare.                                 *)
LEMMA AttrsSurvive ==
  ASSUME NEW map, NEW env, Undoes(map, env), NEW attrs \in Seq(AttrType), Below(env, attrs),
         NEW read, read = TranslateAttrs(env, attrs), NEW spelled, spelled = AttrsSpelled(map, read)
  PROVE  PrintedAgain(map, env, attrs, read, spelled)
<1>1. PICK n \in Nat : n = Len(attrs) /\ DOMAIN attrs = 1..n
  OBVIOUS
<1>2. read = [k \in 1..n |-> TranslateAttr(env, attrs[k])]
  BY <1>1 DEF TranslateAttrs
<1>3. PICK R : R = {read[k] : k \in 1..n}
  OBVIOUS
<1>4. read \in Seq(R) /\ Len(read) = n /\ DOMAIN read = 1..n
  BY <1>2, <1>3
<1>5. ASSUME NEW k \in 1..n PROVE ReadAgain(map, env, attrs[k], read[k], AttrSpelled(map, read[k]))
  <2>1. PICK a, e : a = attrs[k] /\ e = read[k]
    OBVIOUS
  <2>2. a \in AttrType
    BY <1>1, <2>1
  <2>3. Plainly(env, a)
    BY <1>1, <2>1 DEF Below
  <2>4. e = TranslateAttr(env, a)
    BY <1>2, <2>1
  <2>. QED
    BY <2>1, <2>2, <2>3, <2>4, AttrSurvives
<1>6. PICK before : before = DefineEach(map, read)
  OBVIOUS
<1>7. before \in [0..n -> {map}]
  <2>1. \A k \in 1..Len(read) : \A m \in {map} : Define(m, read[k]) \in {map}
    BY <1>4, <1>5 DEF ReadAgain
  <2>2. map \in {map}
    OBVIOUS
  <2>. QED
    BY <1>4, <1>6, <2>1, <2>2, DefineEachIs
<1>8. \A k \in 0..n : before[k] = map
  BY <1>7
<1>9. spelled = [k \in 1..n |-> AttrSpelled(map, read[k])]
  <2>1. spelled = [k \in 1..n |-> AttrSpelled(before[k - 1], read[k])]
    BY <1>4, <1>6 DEF AttrsSpelled
  <2>2. \A k \in 1..n : before[k - 1] = map
    <3>1. \A k \in 1..n : k - 1 \in 0..n
      OBVIOUS
    <3>. QED
      BY <1>8, <3>1
  <2>. QED
    BY <2>1, <2>2
<1>10. DefineAll(map, read) = map
  <2>1. n \in 0..n
    OBVIOUS
  <2>. QED
    BY <1>4, <1>6, <1>8, <2>1 DEF DefineAll
<1>11. DOMAIN spelled = 1..n /\ \A k \in 1..n : spelled[k] = AttrSpelled(map, read[k])
  BY <1>9
<1>12. DeclarationsIn(spelled) = DeclarationsIn(attrs)
  <2>1. \A k \in 1..n : DeclarationOf(spelled[k]) = DeclarationOf(attrs[k])
    BY <1>5, <1>11 DEF ReadAgain
  <2>2. [k \in 1..n |-> DeclarationOf(spelled[k])] = [k \in 1..n |-> DeclarationOf(attrs[k])]
    BY <2>1
  <2>. QED
    BY <1>1, <1>11, <2>2 DEF DeclarationsIn
<1>13. TranslateAttrs(env, spelled) = read
  <2>1. \A k \in 1..n : TranslateAttr(env, spelled[k]) = read[k]
    BY <1>5, <1>11 DEF ReadAgain
  <2>2. TranslateAttrs(env, spelled) = [k \in 1..n |-> TranslateAttr(env, spelled[k])]
    BY <1>11 DEF TranslateAttrs
  <2>3. read = [k \in 1..n |-> read[k]]
    BY <1>2
  <2>. QED
    BY <2>1, <2>2, <2>3
<1>14. BoundIn(env, spelled)
  BY <1>5, <1>11 DEF BoundIn, ReadAgain
<1>. QED
  BY <1>10, <1>12, <1>13, <1>14 DEF PrintedAgain

LEMMA FlattenOnes ==
  ASSUME NEW S, NEW n \in Nat, NEW d \in [1..n -> S]
  PROVE  FlattenSeq([k \in 1..n |-> <<d[k]>>]) = d
<1>1. PICK q : q = [k \in 1..n |-> <<d[k]>>]
  OBVIOUS
<1>2. q \in [1..n -> Seq(S)] /\ \A k \in 1..n : q[k] = <<d[k]>>
  BY <1>1
<1>3. PICK f \in [0..n -> Seq(S)] : Flattens(f, n, q)
  BY <1>2, FlattenIs
<1>. DEFINE UpTo(k) == Len(f[k]) = k /\ \A j \in 1..k : f[k][j] = d[j]
<1>4. PICK holds : holds = [k \in 0..n |-> UpTo(k)]
  OBVIOUS
<1>5. holds[0]
  <2>1. 0 \in 0..n /\ f[0] = << >>
    BY <1>3 DEF Flattens
  <2>2. UpTo(0)
    BY <2>1
  <2>. QED
    BY <1>4, <2>1, <2>2
<1>6. ASSUME NEW k \in 1..n, holds[k - 1] PROVE holds[k]
  <2>1. k - 1 \in 0..n /\ k \in 0..n
    OBVIOUS
  <2>2. UpTo(k - 1)
    BY <1>4, <1>6, <2>1
  <2>3. f[k] = f[k - 1] \o <<d[k]>> /\ f[k - 1] \in Seq(S) /\ d[k] \in S
    BY <1>2, <1>3, <2>1 DEF Flattens
  <2>4. UpTo(k)
    <3>1. PICK s \in Seq(S) : s = f[k - 1]
      BY <2>3
    <3>2. PICK x \in S : x = d[k]
      BY <2>3
    <3>3. PICK t : t = s \o <<x>>
      OBVIOUS
    <3>6. Len(s) = k - 1 /\ \A j \in 1..(k - 1) : s[j] = d[j]
      BY ONLY <2>2, <3>1
    <3>4. Len(t) = k /\ t[k] = x /\ \A j \in 1..(k - 1) : t[j] = s[j]
      <4>1. /\ t \in Seq(S) /\ Len(t) = Len(s) + Len(<<x>>)
            /\ \A j \in 1..Len(t) : t[j] = IF j <= Len(s) THEN s[j] ELSE <<x>>[j - Len(s)]
        BY <3>3, ConcatProperties
      <4>2. Len(<<x>>) = 1 /\ <<x>>[1] = x
        OBVIOUS
      <4>3. k - 1 + 1 = k /\ k \in 1..k /\ ~(k <= k - 1) /\ k - (k - 1) = 1
            /\ \A j \in 1..(k - 1) : j \in 1..k /\ j <= k - 1
        OBVIOUS
      <4> QED
        BY ONLY <3>6, <4>1, <4>2, <4>3
    <3>7. f[k] = t
      BY ONLY <2>3, <3>1, <3>2, <3>3
    <3>5. \A j \in 1..k : j = k \/ j \in 1..(k - 1)
      OBVIOUS
    <3>. QED
      BY ONLY <3>2, <3>4, <3>5, <3>6, <3>7
  <2>. QED
    BY <1>4, <2>1, <2>4
<1>7. \A k \in 0..n : holds[k]
  BY ONLY <1>5, <1>6, AllFollow
<1>8. UpTo(n) /\ f[n] \in Seq(S)
  <2>1. n \in 0..n
    OBVIOUS
  <2>. QED
    BY <1>4, <1>7, <2>1
<1>9. f[n] = d
  <2>1. PICK v \in Seq(S) : v = f[n]
    BY <1>8
  <2>2. Len(v) = n /\ \A j \in 1..n : v[j] = d[j]
    BY <1>8, <2>1
  <2>3. v = [k \in 1..n |-> v[k]]
    BY <2>2
  <2>4. v = d
    BY <2>2, <2>3
  <2>. QED
    BY <2>1, <2>4
<1>10. f[n] = FlattenSeq(q)
  BY <1>3 DEF Flattens
<1>. QED
  BY <1>1, <1>9, <1>10

LEMMA EmptyIsPrefix == "" \in NsPrefixes
<1>1. PICK m : m = ModelName
  OBVIOUS
<1>2. m \in RawNames
  BY <1>1, PrinterAssumption
<1>3. m.space \in NsPrefixes
  BY <1>2 DEF RawNames
<1>. QED
  BY <1>1, <1>3 DEF ModelName

(* What a root declares.                                                   *)
RootAttr(a) ==
  /\ a.space = xmlnsPrefix
  /\ a.local \in NsPrefixes \ Reserved
  /\ a.uri \in URIs \ {"", xmlnsPrefix}

RootAttrs(n, attrs) ==
  /\ DOMAIN attrs = 1..n
  /\ attrs[1] = DefaultAttr(CoreNamespace)
  /\ \A k \in 2..n : RootAttr(attrs[k])
  /\ \A j, k \in 2..n : attrs[j].local = attrs[k].local => j = k

DeclaresAll(decls, n, attrs) ==
  /\ DOMAIN decls = 1..n /\ Len(decls) = n
  /\ decls[1].prefix = ""
  /\ \A k \in 2..n : decls[k].prefix = attrs[k].local /\ decls[k].uri = attrs[k].uri

LEMMA RootDeclares ==
  ASSUME NEW n \in Nat \ {0}, NEW attrs, RootAttrs(n, attrs), NEW decls, decls = DeclarationsIn(attrs)
  PROVE  decls \in Decls /\ DeclaresAll(decls, n, attrs)
<1>1. PICK d : d = [k \in 1..n |-> IF k = 1 THEN Declares("", CoreNamespace)
                                   ELSE Declares(attrs[k].local, attrs[k].uri)]
  OBVIOUS
<1>2. 1 \in 1..n /\ \A k \in 1..n : k = 1 \/ k \in 2..n
  OBVIOUS
<1>3. \A k \in 2..n : k # 1 /\ k \in 1..n
  OBVIOUS
<1>4. d \in [1..n -> Declared]
  <2>1. ASSUME NEW p \in NsPrefixes, NEW u \in URIs PROVE Declares(p, u) \in Declared
    BY DEF Declared
  <2>2. Declares("", CoreNamespace) \in Declared
    <3>1. CoreNamespace \in URIs
      BY PrinterAssumption
    <3>2. "" \in NsPrefixes
      BY EmptyIsPrefix
    <3>. QED
      BY <2>1, <3>1, <3>2
  <2>3. ASSUME NEW k \in 2..n PROVE Declares(attrs[k].local, attrs[k].uri) \in Declared
    <3>1. attrs[k].local \in NsPrefixes /\ attrs[k].uri \in URIs
      BY DEF RootAttrs, RootAttr
    <3>. QED
      BY <2>1, <3>1
  <2>. QED
    BY <1>1, <1>2, <2>2, <2>3
<1>5. \A k \in 1..n : DeclarationOf(attrs[k]) = <<d[k]>>
  <2>1. DeclarationOf(attrs[1]) = <<d[1]>>
    <3>1. attrs[1] = DefaultAttr(CoreNamespace) /\ d[1] = Declares("", CoreNamespace)
      BY <1>1, <1>2 DEF RootAttrs
    <3>2. DeclarationOf(DefaultAttr(CoreNamespace)) = <<Declares("", CoreNamespace)>>
      BY DEF DeclarationOf, IsDefault, DefaultAttr
    <3>. QED
      BY <3>1, <3>2
  <2>2. ASSUME NEW k \in 2..n PROVE DeclarationOf(attrs[k]) = <<d[k]>>
    <3>1. attrs[k].space = xmlnsPrefix
      BY DEF RootAttrs, RootAttr
    <3>2. ~IsDefault(attrs[k])
      BY <3>1 DEF IsDefault, xmlnsPrefix
    <3>3. d[k] = Declares(attrs[k].local, attrs[k].uri)
      BY <1>1, <1>3
    <3>. QED
      BY <3>1, <3>2, <3>3 DEF DeclarationOf
  <2>. QED
    BY <1>2, <2>1, <2>2
<1>6. decls = d
  <2>1. [k \in DOMAIN attrs |-> DeclarationOf(attrs[k])] = [k \in 1..n |-> <<d[k]>>]
    BY <1>5 DEF RootAttrs
  <2>2. FlattenSeq([k \in 1..n |-> <<d[k]>>]) = d
    BY <1>4, FlattenOnes
  <2>. QED
    BY <2>1, <2>2 DEF DeclarationsIn
<1>7. d \in Seq(Declared)
  BY <1>4
<1>8. DOMAIN d = 1..n /\ Len(d) = n
  BY <1>4
<1>9. d[1].prefix = ""
  BY <1>1, <1>2 DEF Declares
<1>10. \A k \in 2..n : d[k].prefix = attrs[k].local /\ d[k].uri = attrs[k].uri
  BY <1>1, <1>3 DEF Declares
<1>. QED
  BY <1>6, <1>7, <1>8, <1>9, <1>10 DEF Decls, DeclaresAll

(* The maps of the printer while it prints a root.                         *)
RootMaps == UNION {[D -> NsPrefixes \ Reserved] : D \in SUBSET (URIs \ {"", xmlnsPrefix})}

LEMMA RootMapIs ==
  ASSUME NEW map \in RootMaps
  PROVE  \A u \in DOMAIN map : u \in URIs \ {"", xmlnsPrefix} /\ map[u] \in NsPrefixes \ Reserved
  BY DEF RootMaps

LEMMA NoneIsRootMap == <<>> \in RootMaps
<1>1. PICK P : P = NsPrefixes \ Reserved
  OBVIOUS
<1>2. <<>> \in [{} -> P]
  OBVIOUS
<1>3. {} \in SUBSET (URIs \ {"", xmlnsPrefix})
  OBVIOUS
<1>. QED
  BY <1>1, <1>2, <1>3 DEF RootMaps

Adds(after, map, a) ==
  /\ DOMAIN after = DOMAIN map \cup {a.uri} /\ after[a.uri] = a.local
  /\ \A u \in DOMAIN map : u # a.uri => after[u] = map[u]

LEMMA DefineRoot ==
  ASSUME NEW map \in RootMaps, NEW a, RootAttr(a), NEW after, after = Define(map, a)
  PROVE  after \in RootMaps /\ Adds(after, map, a) /\ AttrSpelled(map, a) = a
<1>1. PICK u, p : u = a.uri /\ p = a.local
  OBVIOUS
<1>2. u \in URIs \ {"", xmlnsPrefix} /\ p \in NsPrefixes \ Reserved /\ a.space = xmlnsPrefix
  BY <1>1 DEF RootAttr
<1>3. xmlnsPrefix \notin DOMAIN map
  BY RootMapIs
<1>4. xmlnsPrefix # "" /\ xmlnsPrefix # xmlURL
  BY DEF xmlnsPrefix, xmlURL
<1>5. after = Put(map, u, p)
  BY <1>1, <1>2, <1>3, <1>4 DEF Define
<1>6. AttrSpelled(map, a) = a
  BY <1>2, <1>3, <1>4 DEF AttrSpelled
<1>7. after = [v \in DOMAIN map \cup {u} |-> IF v = u THEN p ELSE map[v]]
  BY <1>5 DEF Put
<1>8. after \in [DOMAIN map \cup {u} -> NsPrefixes \ Reserved]
  BY <1>2, <1>7, RootMapIs
<1>9. DOMAIN map \cup {u} \in SUBSET (URIs \ {"", xmlnsPrefix})
  BY <1>2, RootMapIs
<1>10. after \in RootMaps
  BY <1>8, <1>9 DEF RootMaps
<1>11. /\ DOMAIN after = DOMAIN map \cup {u} /\ after[u] = p
       /\ \A v \in DOMAIN map : v # u => after[v] = map[v]
  BY <1>7
<1>. QED
  BY <1>1, <1>6, <1>10, <1>11 DEF Adds

LEMMA DefineDefault ==
  ASSUME NEW map, NEW a, a = DefaultAttr(CoreNamespace)
  PROVE  Define(map, a) = map /\ AttrSpelled(map, a) = a /\ a.space = ""
<1>1. a.space = ""
  BY DEF DefaultAttr
<1>. QED
  BY <1>1 DEF Define, AttrSpelled

(* The map has what the first k attributes of a root declare.              *)
HasFirst(map, attrs, k) ==
  /\ \A u \in DOMAIN map : \E j \in 2..k : attrs[j].uri = u /\ attrs[j].local = map[u]
  /\ \A j \in 2..k : attrs[j].uri \in DOMAIN map

LEMMA RootMap ==
  ASSUME NEW n \in Nat \ {0}, NEW A, NEW attrs \in Seq(A), RootAttrs(n, attrs), Len(attrs) = n,
         NEW map, map = DefineAll(<<>>, attrs)
  PROVE  map \in RootMaps /\ HasFirst(map, attrs, n) /\ AttrsSpelled(<<>>, attrs) = attrs
<1>1. PICK none : none = <<>> /\ DOMAIN none = {}
  OBVIOUS
<1>2. none \in RootMaps
  BY <1>1, NoneIsRootMap
<1>3. \A k \in 1..n : k = 1 \/ k \in 2..n
  OBVIOUS
<1>4. /\ attrs[1] = DefaultAttr(CoreNamespace)
      /\ \A k \in 2..n : RootAttr(attrs[k])
  BY DEF RootAttrs
<1>5. PICK f : f = DefineEach(none, attrs)
  OBVIOUS
<1>6. f \in [0..n -> RootMaps] /\ Defines(f, none, attrs)
  <2>1. \A k \in 1..Len(attrs) : \A m \in RootMaps : Define(m, attrs[k]) \in RootMaps
    <3>1. ASSUME NEW k \in 1..n, NEW m \in RootMaps PROVE Define(m, attrs[k]) \in RootMaps
      <4>1. CASE k = 1
        BY <1>4, <3>1, <4>1, DefineDefault
      <4>2. CASE k \in 2..n
        BY <1>4, <3>1, <4>2, DefineRoot
      <4>. QED
        BY <1>3, <4>1, <4>2
    <3>. QED
      BY <3>1
  <2>. QED
    BY <1>2, <1>5, <2>1, DefineEachIs
<1>7. f[0] = none /\ \A k \in 1..n : f[k] = Define(f[k - 1], attrs[k])
  BY <1>6 DEF Defines
<1>8. PICK holds : holds = [k \in 0..n |-> HasFirst(f[k], attrs, k)]
  OBVIOUS
<1>9. holds[0]
  <2>1. 0 \in 0..n /\ 2..0 = {}
    OBVIOUS
  <2>2. HasFirst(none, attrs, 0)
    BY <1>1, <2>1 DEF HasFirst
  <2>. QED
    BY <1>7, <1>8, <2>1, <2>2
<1>10. ASSUME NEW k \in 1..n, holds[k - 1] PROVE holds[k]
  <2>1. k - 1 \in 0..n /\ k \in 0..n
    OBVIOUS
  <2>2. PICK m \in RootMaps : m = f[k - 1]
    BY <1>6, <2>1
  <2>3. HasFirst(m, attrs, k - 1) /\ f[k] = Define(m, attrs[k])
    BY <1>7, <1>8, <1>10, <2>1, <2>2
  <2>4. CASE k = 1
    <3>1. f[k] = m
      BY <1>4, <2>3, <2>4, DefineDefault
    <3>2. 2..k = {} /\ 2..(k - 1) = {}
      BY <2>4
    <3>3. HasFirst(m, attrs, k)
      BY <2>3, <3>2 DEF HasFirst
    <3>. QED
      BY <1>8, <2>1, <3>1, <3>3
  <2>5. CASE k \in 2..n
    <3>1. PICK a, after : a = attrs[k] /\ after = f[k]
      OBVIOUS
    <3>2. /\ DOMAIN after = DOMAIN m \cup {a.uri}
          /\ after[a.uri] = a.local
          /\ \A u \in DOMAIN m : u # a.uri => after[u] = m[u]
      <4>1. RootAttr(a) /\ after = Define(m, a)
        BY <1>4, <2>3, <2>5, <3>1
      <4>2. Adds(after, m, a)
        BY <4>1, DefineRoot
      <4>. QED
        BY <4>2 DEF Adds
    <3>3. \A j \in 2..k : j = k \/ j \in 2..(k - 1)
      BY <2>5
    <3>4. \A j \in 2..(k - 1) : j \in 2..k
      BY <2>5
    <3>5. k \in 2..k
      BY <2>5
    <3>6. HasFirst(after, attrs, k)
      <4>1. ASSUME NEW u \in DOMAIN after
            PROVE  \E j \in 2..k : attrs[j].uri = u /\ attrs[j].local = after[u]
        <5>1. CASE u = a.uri
          BY <3>1, <3>2, <3>5, <5>1
        <5>2. CASE u # a.uri
          <6>1. u \in DOMAIN m /\ after[u] = m[u]
            BY <3>2, <4>1, <5>2
          <6>. QED
            BY <2>3, <3>4, <6>1 DEF HasFirst
        <5>. QED
          BY <5>1, <5>2
      <4>2. ASSUME NEW j \in 2..k PROVE attrs[j].uri \in DOMAIN after
        <5>1. CASE j = k
          BY <3>1, <3>2, <5>1
        <5>2. CASE j \in 2..(k - 1)
          BY <2>3, <3>2, <5>2 DEF HasFirst
        <5>. QED
          BY <3>3, <5>1, <5>2
      <4>. QED
        BY <4>1, <4>2 DEF HasFirst
    <3>. QED
      BY <1>8, <2>1, <3>1, <3>6
  <2>. QED
    BY <1>3, <2>4, <2>5
<1>11. \A k \in 0..n : holds[k]
  BY ONLY <1>9, <1>10, AllFollow
<1>12. map = f[n] /\ n \in 0..n
  BY <1>1, <1>5 DEF DefineAll
<1>13. map \in RootMaps
  BY <1>6, <1>12
<1>14. HasFirst(map, attrs, n)
  BY <1>8, <1>11, <1>12
<1>15. AttrsSpelled(none, attrs) = attrs
  <2>1. ASSUME NEW k \in 1..n PROVE AttrSpelled(f[k - 1], attrs[k]) = attrs[k]
    <3>1. k - 1 \in 0..n
      OBVIOUS
    <3>2. PICK m \in RootMaps : m = f[k - 1]
      BY <1>6, <3>1
    <3>3. CASE k = 1
      BY <1>4, <3>2, <3>3, DefineDefault
    <3>4. CASE k \in 2..n
      BY <1>4, <3>2, <3>4, DefineRoot
    <3>. QED
      BY <1>3, <3>3, <3>4
  <2>2. DOMAIN attrs = 1..n
    BY DEF RootAttrs
  <2>3. AttrsSpelled(none, attrs) = [k \in 1..n |-> AttrSpelled(f[k - 1], attrs[k])]
    BY <1>5, <2>2 DEF AttrsSpelled
  <2>4. attrs = [k \in 1..n |-> attrs[k]]
    BY <2>2
  <2>. QED
    BY <2>1, <2>3, <2>4
<1>. QED
  BY <1>1, <1>13, <1>14, <1>15

(* What a root declares is what the printer has when it is printed, and    *)
(* its attributes are read as they were.                                   *)
LEMMA RootUndoes ==
  ASSUME NEW n \in Nat \ {0}, NEW A, NEW attrs \in Seq(A), RootAttrs(n, attrs),
         NEW map \in RootMaps, HasFirst(map, attrs, n), NEW env, env = Bind(<<>>, DeclarationsIn(attrs))
  PROVE  Undoes(map, env) /\ TranslateAttrs(env, attrs) = attrs /\ BoundIn(env, attrs)
<1>1. PICK decls : decls = DeclarationsIn(attrs)
  OBVIOUS
<1>0. decls \in Decls /\ DeclaresAll(decls, n, attrs)
  BY <1>1, RootDeclares
<1>2. /\ decls \in Decls /\ DOMAIN decls = 1..n /\ Len(decls) = n
      /\ decls[1].prefix = ""
      /\ \A k \in 2..n : decls[k].prefix = attrs[k].local /\ decls[k].uri = attrs[k].uri
  BY <1>0 DEF DeclaresAll
<1>3. \A k \in 1..n : k = 1 \/ k \in 2..n
  OBVIOUS
<1>4. \A k \in 2..n : k \in 1..n
  OBVIOUS
<1>5. /\ DOMAIN attrs = 1..n
      /\ attrs[1] = DefaultAttr(CoreNamespace)
      /\ \A k \in 2..n : RootAttr(attrs[k])
      /\ \A j, k \in 2..n : attrs[j].local = attrs[k].local => j = k
  BY DEF RootAttrs
<1>6. \A k \in 2..n : /\ attrs[k].space = xmlnsPrefix
                      /\ attrs[k].local \in NsPrefixes \ Reserved
                      /\ attrs[k].uri \in URIs \ {"", xmlnsPrefix}
  BY <1>5 DEF RootAttr
<1>7. PICK none : none = <<>> /\ DOMAIN none = {}
  OBVIOUS
<1>8. env = [p \in PrefixesOf(decls) |-> decls[LastFor(decls, p)].uri]
  <2>1. env = [p \in DOMAIN none \cup PrefixesOf(decls) |->
                 IF p \in PrefixesOf(decls) THEN decls[LastFor(decls, p)].uri ELSE none[p]]
    BY <1>1, <1>7 DEF Bind
  <2>. QED
    BY <1>7, <2>1
<1>9. \A k \in 2..n : attrs[k].local \in DOMAIN env /\ env[attrs[k].local] = attrs[k].uri
  <2>1. ASSUME NEW k \in 2..n PROVE attrs[k].local \in DOMAIN env /\ env[attrs[k].local] = attrs[k].uri
    <3>1. PICK p : p = attrs[k].local
      OBVIOUS
    <3>2. decls[k].prefix = p /\ k \in DOMAIN decls
      BY <1>2, <1>4, <3>1
    <3>3. p \in PrefixesOf(decls)
      BY <3>2 DEF PrefixesOf
    <3>4. PICK l : l = LastFor(decls, p)
      OBVIOUS
    <3>5. l \in 1..Len(decls) /\ decls[l].prefix = p
      BY <1>2, <3>3, <3>4, LastForIs
    <3>7. p # ""
      BY <1>6, <3>1 DEF Reserved
    <3>8. l \in 2..n
      BY <1>2, <1>3, <3>5, <3>7
    <3>9. l = k
      BY <1>2, <1>5, <3>1, <3>5, <3>8
    <3>10. p \in DOMAIN env /\ env[p] = decls[l].uri
      BY ONLY <1>8, <3>3, <3>4
    <3>11. decls[l].uri = attrs[k].uri
      BY ONLY <1>2, <3>9, k \in 2..n
    <3>. QED
      BY ONLY <3>1, <3>10, <3>11
  <2>. QED
    BY <2>1
<1>10. ASSUME NEW u \in DOMAIN map
       PROVE  u \notin {"", xmlnsPrefix} /\ map[u] \in DOMAIN env \ Reserved /\ env[map[u]] = u
  <2>1. PICK j \in 2..n : attrs[j].uri = u /\ attrs[j].local = map[u]
    BY <1>10 DEF HasFirst
  <2>. QED
    BY <1>6, <1>9, <2>1
<1>11. ASSUME NEW p \in DOMAIN env \ {""}
       PROVE  p \notin Reserved /\ env[p] \in DOMAIN map
  <2>1. PICK k \in 1..n : decls[k].prefix = p
    BY <1>2, <1>8, <1>11 DEF PrefixesOf
  <2>2. k \in 2..n
    BY <1>2, <1>3, <1>11, <2>1
  <2>3. p = attrs[k].local
    BY <1>2, <2>1, <2>2
  <2>4. attrs[k].uri \in DOMAIN map
    BY <2>2 DEF HasFirst
  <2>. QED
    BY <1>6, <1>9, <2>2, <2>3, <2>4
<1>12. Undoes(map, env)
  BY <1>10, <1>11 DEF Undoes
<1>13. \A k \in 1..n : attrs[k].space \in {"", xmlnsPrefix}
  <2>1. attrs[1].space = ""
    BY <1>5, DefineDefault
  <2>. QED
    BY <1>3, <1>6, <2>1
<1>14. BoundIn(env, attrs)
  BY <1>5, <1>13 DEF BoundIn
<1>15. TranslateAttrs(env, attrs) = attrs
  <2>1. \A k \in 1..n : TranslateAttr(env, attrs[k]) = attrs[k]
    BY <1>13 DEF TranslateAttr
  <2>2. TranslateAttrs(env, attrs) = [k \in 1..n |-> TranslateAttr(env, attrs[k])]
    BY <1>5 DEF TranslateAttrs
  <2>3. attrs = [k \in 1..n |-> attrs[k]]
    BY <1>5
  <2>. QED
    BY <2>1, <2>2, <2>3
<1>. QED
  BY <1>12, <1>14, <1>15

(* The declarations that a root may have.                                  *)
LEMMA RootIs ==
  ASSUME PrefixesOnlyAtRoot, NEW exts \in Extensions,
         NEW attrs, attrs = <<DefaultAttr(CoreNamespace)>> \o exts
  PROVE  \E n \in Nat \ {0} : \E A : attrs \in Seq(A) /\ Len(attrs) = n /\ RootAttrs(n, attrs)
<1>. DEFINE B == {PrefixAttr(p, u) : p \in NsPrefixes, u \in URIs}
<1>2. exts \in Seq(B)
  BY PrinterAssumption
<1>a. /\ \A k \in DOMAIN exts : exts[k].local \notin {"", xmlPrefix, xmlnsPrefix}
      /\ \A k \in DOMAIN exts : exts[k].uri \notin {"", xmlnsPrefix}
      /\ \A j, k \in DOMAIN exts : exts[j].local = exts[k].local => j = k
  BY Zenon DEF PrefixesOnlyAtRoot
<1>b. {PrefixAttr(p, u) : p \in NsPrefixes, u \in URIs} = B
  OBVIOUS
<1>. HIDE DEF B
<1>3. PICK x, A : x = DefaultAttr(CoreNamespace) /\ A = B \cup {x}
  OBVIOUS
<1>4. PICK m \in Nat : m = Len(exts) /\ DOMAIN exts = 1..m
  BY <1>2
<1>5. PICK n : n = m + 1
  OBVIOUS
<1>6. n \in Nat \ {0} /\ \A k \in 2..n : k - 1 \in 1..m /\ \A j \in 2..n : j - 1 = k - 1 => j = k
  BY <1>5
<1>7. /\ attrs \in Seq(A) /\ Len(attrs) = n /\ DOMAIN attrs = 1..n /\ attrs[1] = x
      /\ \A k \in 2..n : attrs[k] = exts[k - 1]
  <2>1. attrs = <<x>> \o exts /\ exts \in Seq(A) /\ <<x>> \in Seq(A) /\ Len(<<x>>) = 1 /\ <<x>>[1] = x
    BY <1>2, <1>3
  <2>2. /\ attrs \in Seq(A) /\ Len(attrs) = 1 + m
        /\ \A k \in 1..Len(attrs) : attrs[k] = IF k <= 1 THEN <<x>>[k] ELSE exts[k - 1]
    BY <1>4, <2>1, ConcatProperties
  <2>3. Len(attrs) = n /\ DOMAIN attrs = 1..n
    BY <1>5, <2>2
  <2>4. 1 \in 1..n /\ \A k \in 2..n : k \in 1..n /\ ~(k <= 1)
    BY <1>5
  <2>. QED
    BY <2>1, <2>2, <2>3, <2>4
<1>8. ASSUME NEW k \in 2..n PROVE RootAttr(attrs[k])
  <2>1. exts[k - 1] \in B /\ k - 1 \in DOMAIN exts
    BY <1>2, <1>4, <1>6
  <2>2. PICK p \in NsPrefixes, u \in URIs : exts[k - 1] = PrefixAttr(p, u)
    BY <1>b, <2>1
  <2>3. attrs[k].space = xmlnsPrefix /\ attrs[k].local = p /\ attrs[k].uri = u
    BY <1>7, <2>2 DEF PrefixAttr
  <2>4. attrs[k].local \notin {"", xmlPrefix, xmlnsPrefix} /\ attrs[k].uri \notin {"", xmlnsPrefix}
    BY <1>7, <1>a, <2>1
  <2>. QED
    BY <2>3, <2>4 DEF RootAttr, Reserved
<1>9. ASSUME NEW j \in 2..n, NEW k \in 2..n, attrs[j].local = attrs[k].local PROVE j = k
  <2>1. PICK i, l : i = j - 1 /\ l = k - 1
    OBVIOUS
  <2>2. i \in DOMAIN exts /\ l \in DOMAIN exts /\ attrs[j] = exts[i] /\ attrs[k] = exts[l]
    BY <1>4, <1>6, <1>7, <2>1
  <2>3. exts[i].local = exts[l].local
    BY <1>9, <2>2
  <2>4. i = l
    BY <1>a, <2>2, <2>3
  <2>. QED
    BY <1>6, <2>1, <2>4
<1>10. RootAttrs(n, attrs)
  BY <1>3, <1>7, <1>8, <1>9 DEF RootAttrs
<1>. QED
  BY <1>6, <1>7, <1>10

LEMMA OneInSeq ==
  ASSUME NEW S, NEW x
  PROVE  <<x>> \in Seq(S) <=> x \in S
<1>0. PICK s : s = <<x>>
  OBVIOUS
<1>1. s = <<x>> /\ Len(s) = 1 /\ s[1] = x /\ DOMAIN s = 1..1
  BY <1>0
<1>2. ASSUME x \in S PROVE s \in Seq(S)
  BY <1>1, <1>2
<1>3. ASSUME s \in Seq(S) PROVE x \in S
  <2>1. 1 \in 1..Len(s)
    BY <1>1
  <2>2. s[1] \in S
    BY <1>3, <2>1, ElementOfSeq
  <2>. QED
    BY <1>1, <2>2
<1>. QED
  BY <1>1, <1>2, <1>3

(* Below the root only the default namespace is declared.                  *)
LEMMA BelowDeclares ==
  ASSUME PrefixesOnlyAtRoot, NEW attrs \in Attributes, NEW decls, decls = DeclarationsIn(attrs)
  PROVE  attrs \in Seq(AttrType) /\ decls \in Decls /\ PrefixesOf(decls) \subseteq {""}
<1>1. attrs \in Seq(AttrType)
  BY PrinterAssumption
<1>2. PICK n \in Nat : n = Len(attrs) /\ DOMAIN attrs = 1..n
  BY <1>1
<1>3. \A k \in DOMAIN attrs : attrs[k].space # xmlnsPrefix
  BY Zenon DEF PrefixesOnlyAtRoot
<1>. DEFINE S == {d \in Declared : d.prefix = ""}
<1>4. ASSUME NEW k \in 1..n PROVE DeclarationOf(attrs[k]) \in Seq(S)
  <2>1. PICK a : a = attrs[k]
    OBVIOUS
  <2>2. DeclarationOf(a) \in Seq(Declared) /\ a.space # xmlnsPrefix
    BY <1>1, <1>2, <1>3, <2>1 DEF AttrType
  <2>3. CASE IsDefault(a)
    <3>1. PICK d : d = Declares("", a.uri)
      OBVIOUS
    <3>2. DeclarationOf(a) = <<d>> /\ d.prefix = ""
      BY <2>3, <3>1 DEF DeclarationOf, Declares
    <3>3. d \in Declared
      BY <2>2, <3>2, OneInSeq
    <3>4. d \in S
      BY <3>2, <3>3
    <3>. HIDE DEF S
    <3>. QED
      BY <2>1, <3>2, <3>4, OneInSeq
  <2>4. CASE ~IsDefault(a)
    <3>1. DeclarationOf(a) = <<>>
      BY <2>2, <2>4 DEF DeclarationOf
    <3>. HIDE DEF S
    <3>. QED
      BY <2>1, <3>1
  <2>. QED
    BY <2>3, <2>4
<1>5. PICK q : q = [k \in 1..n |-> DeclarationOf(attrs[k])]
  OBVIOUS
<1>6. decls = FlattenSeq(q)
  BY <1>2, <1>5 DEF DeclarationsIn
<1>7. decls \in Seq(S)
  <2>. HIDE DEF S
  <2>1. q \in [1..n -> Seq(S)]
    BY <1>4, <1>5
  <2>. QED
    BY <1>6, <2>1, FlattenType
<1>8. decls \in Seq(Declared) /\ \A k \in DOMAIN decls : decls[k] \in S
  <2>1. S \subseteq Declared
    OBVIOUS
  <2>. HIDE DEF S
  <2>. QED
    BY <1>7, <2>1
<1>9. \A k \in DOMAIN decls : decls[k].prefix = ""
  BY <1>8
<1>10. PrefixesOf(decls) \subseteq {""}
  BY <1>9 DEF PrefixesOf
<1>. QED
  BY <1>1, <1>8, <1>10 DEF Decls

LEMMA UndoesBelow ==
  ASSUME NEW map, NEW env, Undoes(map, env), NEW decls, PrefixesOf(decls) \subseteq {""},
         NEW inner, inner = Bind(env, decls)
  PROVE  Undoes(map, inner)
<1>1. \A p \in DOMAIN inner \ {""} : p \in DOMAIN env /\ inner[p] = env[p]
  BY DEF Bind
<1>2. DOMAIN env \subseteq DOMAIN inner
  BY DEF Bind
<1>3. \A p \in DOMAIN env \ Reserved : p \in DOMAIN inner \ Reserved /\ inner[p] = env[p]
  BY <1>1, <1>2 DEF Reserved
<1>4. ASSUME NEW u \in DOMAIN map
      PROVE  u \notin {"", xmlnsPrefix} /\ map[u] \in DOMAIN inner \ Reserved /\ inner[map[u]] = u
  BY <1>3 DEF Undoes
<1>5. ASSUME NEW p \in DOMAIN inner \ {""} PROVE p \notin Reserved /\ inner[p] \in DOMAIN map
  BY <1>1 DEF Undoes
<1>. QED
  BY <1>4, <1>5 DEF Undoes

LEMMA BoundBelow ==
  ASSUME PrefixesOnlyAtRoot, NEW attrs \in Attributes, NEW env, NEW raw, PrefixesBound(env, raw, attrs)
  PROVE  BoundName(env, raw) /\ Below(env, attrs)
<1>1. attrs \in Seq(AttrType)
  BY PrinterAssumption
<1>2. \A k \in DOMAIN attrs : attrs[k].space # xmlnsPrefix
  BY Zenon DEF PrefixesOnlyAtRoot
<1>3. /\ raw.space \in {""} \cup DOMAIN env
      /\ \A k \in DOMAIN attrs : attrs[k].space \in {"", xmlPrefix, xmlnsPrefix} \cup DOMAIN env
  BY Zenon DEF PrefixesBound
<1>4. ASSUME NEW k \in 1..Len(attrs) PROVE Plainly(env, attrs[k])
  <2>1. k \in DOMAIN attrs
    BY <1>1
  <2>. QED
    BY <1>2, <1>3, <2>1 DEF Plainly
<1>. QED
  BY <1>3, <1>4 DEF Below, BoundName

-----------------------------------------------------------------------------
(* The k-th open element in the text that is printed: it declares what it  *)
(* declared, and is spelled as its end tag would be.                       *)
NameOf(elems, k) == IF k = 1 THEN ModelName ELSE Translate(Env(elems, k), elems[k].raw)

Copied(w, elems, map) ==
  /\ elems \in Seq(Elem) /\ DOMAIN w = 1..Len(elems)
  /\ \E S : w \in Seq(S)
  /\ \A k \in 1..Len(elems) : /\ w[k].decls = elems[k].decls
                              /\ w[k].raw = Spelled(map, NameOf(elems, k))
                              /\ Undoes(map, Env(elems, k))

LEMMA LexicalSame ==
  ASSUME NEW w, NEW elems, NEW map, Copied(w, elems, map)
  PROVE  Lexical(w) = Lexical(elems)
<1>1. PICK n \in Nat : n = Len(elems) /\ DOMAIN elems = 1..n /\ DOMAIN w = 1..n
  BY DEF Copied
<1>2. \A k \in 1..n : w[k].decls = elems[k].decls
  BY <1>1 DEF Copied
<1>3. PICK D : D = UNION {PrefixesOf(elems[k].decls) : k \in 1..n}
  OBVIOUS
<1>4. UNION {PrefixesOf(w[k].decls) : k \in 1..n} = D
  BY <1>2, <1>3
<1>5. ASSUME NEW p \in D
      PROVE  w[Max(Declaring(w, p))].decls = elems[Max(Declaring(elems, p))].decls
  <2>1. PICK X : X = Declaring(elems, p)
    OBVIOUS
  <2>2. X = {k \in 1..n : p \in PrefixesOf(elems[k].decls)}
    BY <1>1, <2>1 DEF Declaring
  <2>3. Declaring(w, p) = X
    BY <1>1, <1>2, <2>2 DEF Declaring
  <2>4. X # {} /\ X \subseteq Nat /\ X \subseteq 1..n /\ \A y \in X : y <= n
    BY <1>3, <2>2
  <2>5. Max(X) \in X
    BY <2>4, MaxIs
  <2>. QED
    BY <1>2, <2>1, <2>3, <2>4, <2>5
<1>. DEFINE Bound(e, p) == e[Max(Declaring(e, p))].decls
<1>6. Lexical(w) = [p \in D |-> Bound(w, p)[LastFor(Bound(w, p), p)].uri]
  BY <1>1, <1>4 DEF Lexical
<1>7. Lexical(elems) = [p \in D |-> Bound(elems, p)[LastFor(Bound(elems, p), p)].uri]
  BY <1>1, <1>3 DEF Lexical
<1>8. \A p \in D : Bound(w, p) = Bound(elems, p)
  BY <1>5
<1>. HIDE DEF Bound
<1>. QED
  BY <1>6, <1>7, <1>8

LEMMA CopiedMore ==
  ASSUME NEW w, NEW elems, NEW map, Copied(w, elems, map), NEW e \in Elem,
         NEW n, n = Len(elems) + 1, NEW env, env = Lexical(Append(elems, e)), Undoes(map, env),
         NEW x, x.decls = e.decls,
         x.raw = Spelled(map, IF n = 1 THEN ModelName ELSE Translate(env, e.raw))
  PROVE  Copied(Append(w, x), Append(elems, e), map)
<1>1. PICK m \in Nat : m = Len(elems) /\ n = m + 1 /\ n \in 1..n
  BY DEF Copied
<1>2. elems \in Seq(Elem)
  BY DEF Copied
<1>3. PICK more : more = Append(elems, e)
  OBVIOUS
<1>4. more \in Seq(Elem) /\ Len(more) = n /\ more[n] = e /\ \A k \in 1..m : more[k] = elems[k]
  BY <1>1, <1>2, <1>3
<1>5. PICK S : w \in Seq(S)
  BY DEF Copied
<1>6. PICK T : T = S \cup {x}
  OBVIOUS
<1>7. PICK v : v = Append(w, x)
  OBVIOUS
<1>8. Len(w) = m
  BY <1>1, <1>5 DEF Copied
<1>9. v \in Seq(T) /\ DOMAIN v = 1..n /\ v[n] = x /\ \A k \in 1..m : v[k] = w[k]
  <2>1. w \in Seq(T) /\ x \in T
    BY <1>5, <1>6
  <2>. QED
    BY <1>1, <1>7, <1>8, <2>1
<1>10. \A k \in 1..n : k = n \/ k \in 1..m
  BY <1>1
<1>11. ASSUME NEW k \in 1..n
       PROVE  /\ v[k].decls = more[k].decls
              /\ v[k].raw = Spelled(map, NameOf(more, k))
              /\ Undoes(map, Env(more, k))
  <2>1. CASE k = n
    <3>1. SubSeq(more, 1, n) = more
      BY <1>4, SubSeqFull
    <3>2. Env(more, n) = env
      BY <1>3, <3>1 DEF Env
    <3>. QED
      BY <1>4, <1>9, <2>1, <3>2 DEF NameOf
  <2>2. CASE k \in 1..m
    <3>1. k \in 0..Len(elems)
      BY <1>1, <2>2
    <3>2. SubSeq(more, 1, k) = SubSeq(elems, 1, k)
      BY <1>2, <1>3, <3>1, FirstOfMore
    <3>3. Env(more, k) = Env(elems, k)
      BY <3>2 DEF Env
    <3>4. NameOf(more, k) = NameOf(elems, k)
      BY <1>4, <2>2, <3>3 DEF NameOf
    <3>5. v[k] = w[k] /\ more[k] = elems[k]
      BY <1>4, <1>9, <2>2
    <3>6. /\ w[k].decls = elems[k].decls
          /\ w[k].raw = Spelled(map, NameOf(elems, k))
          /\ Undoes(map, Env(elems, k))
      BY <1>1, <2>2 DEF Copied
    <3>. QED
      BY <3>3, <3>4, <3>5, <3>6
  <2>. QED
    BY <1>10, <2>1, <2>2
<1>. QED
  BY <1>3, <1>4, <1>7, <1>9, <1>11 DEF Copied

LEMMA CopiedFront ==
  ASSUME NEW w, NEW elems, NEW map, Copied(w, elems, map), elems # <<>>
  PROVE  Copied(Front(w), Front(elems), map)
<1>1. PICK n : n = Len(elems)
  OBVIOUS
<1>2. elems \in Seq(Elem)
  BY DEF Copied
<1>3. n \in Nat \ {0} /\ Front(elems) \in Seq(Elem) /\ Len(Front(elems)) = n - 1
  BY <1>1, <1>2, EnvOfAll
<1>4. PICK m : m = n - 1
  OBVIOUS
<1>5. m \in Nat /\ n = m + 1 /\ m <= n
  BY <1>3, <1>4
<1>6. PICK S : w \in Seq(S)
  BY DEF Copied
<1>7. Len(w) = n
  <2>1. DOMAIN w = 1..n /\ DOMAIN w = 1..Len(w) /\ Len(w) \in Nat
    BY <1>1, <1>6 DEF Copied
  <2>. QED
    BY <1>3, <2>1
<1>8. /\ Front(w) \in Seq(S) /\ DOMAIN Front(w) = 1..m
      /\ \A k \in 1..m : Front(w)[k] = w[k]
  <2>1. Front(w) = SubSeq(w, 1, m)
    BY <1>4, <1>7 DEF Front
  <2>2. \A k \in 1..m : w[k] \in S
    BY <1>5, <1>6, <1>7
  <2>. QED
    BY <1>5, <1>6, <1>7, <2>1, <2>2
<1>9. \A k \in 1..m : Front(elems)[k] = elems[k]
  <2>1. Front(elems) = SubSeq(elems, 1, m)
    BY <1>1, <1>4 DEF Front
  <2>. QED
    BY <1>1, <1>2, <1>5, <2>1
<1>10. ASSUME NEW k \in 1..m
       PROVE  /\ Front(w)[k].decls = Front(elems)[k].decls
              /\ Front(w)[k].raw = Spelled(map, NameOf(Front(elems), k))
              /\ Undoes(map, Env(Front(elems), k))
  <2>1. k \in 0..(Len(elems) - 1) /\ k \in 1..n
    BY <1>1, <1>4, <1>5
  <2>2. SubSeq(Front(elems), 1, k) = SubSeq(elems, 1, k)
    BY <1>2, <2>1, FirstOfFront
  <2>3. Env(Front(elems), k) = Env(elems, k)
    BY <2>2 DEF Env
  <2>4. Front(w)[k] = w[k] /\ Front(elems)[k] = elems[k]
    BY <1>8, <1>9
  <2>5. NameOf(Front(elems), k) = NameOf(elems, k)
    BY <2>3, <2>4 DEF NameOf
  <2>6. /\ w[k].decls = elems[k].decls
        /\ w[k].raw = Spelled(map, NameOf(elems, k))
        /\ Undoes(map, Env(elems, k))
    BY <1>1, <2>1 DEF Copied
  <2>. QED
    BY <2>3, <2>4, <2>5, <2>6
<1>11. DOMAIN Front(w) = 1..Len(Front(elems))
  BY <1>3, <1>4, <1>8
<1>12. \A k \in 1..Len(Front(elems)) : k \in 1..m
  BY <1>3, <1>4
<1>. QED
  BY <1>3, <1>8, <1>10, <1>11, <1>12 DEF Copied

LEMMA SpelledModel ==
  ASSUME NEW map
  PROVE  Spelled(map, ModelName) = ModelName
<1>1. ModelName.space = ""
  BY DEF ModelName
<1>2. Spelled(map, ModelName) = [ModelName EXCEPT !.space = ""]
  BY <1>1 DEF Spelled
<1>. QED
  BY <1>2, SpaceOfName DEF ModelName

-----------------------------------------------------------------------------
CopyInv ==
  /\ ScopesInv /\ NamesSurvive
  /\ copies => err = "none" /\ Copied(written, open, attrPrefix)
  /\ tag.op = "none" => attrPrefix = <<>> /\ written = <<>> /\ (copies => open = <<>>)
  /\ copies \/ tag.op = "none"

LEMMA LastOfMore ==
  ASSUME NEW S, NEW w \in Seq(S), NEW x
  PROVE  Last(Append(w, x)) = x
<1>1. PICK T, v : T = S \cup {x} /\ v = Append(w, x)
  OBVIOUS
<1>2. w \in Seq(T) /\ x \in T
  BY <1>1
<1>3. Len(v) = Len(w) + 1 /\ v[Len(w) + 1] = x
  BY <1>1, <1>2
<1>. QED
  BY <1>1, <1>3 DEF Last

(* The text after a start tag.                                             *)
LEMMA StartCopied ==
  ASSUME NEW map, Copied(written, open, map), NEW e \in Elem, open' = Append(open, e),
         NEW env, env = Lexical(open'), Undoes(map, env),
         NEW n, n = Len(open) + 1, NEW x, written' = Append(written, x), x.decls = e.decls,
         x.raw = Spelled(map, IF n = 1 THEN ModelName ELSE Translate(env, e.raw)),
         x.raw.space \in {""} \cup DOMAIN env, BoundIn(env, x.attrs),
         tag'.op = "start", Translate(env, x.raw) = tag'.name, TranslateAttrs(env, x.attrs) = tag'.attrs
  PROVE  Copied(written', open', map) /\ NamesSurvive'
<1>1. PICK o, w : o = open /\ w = written
  OBVIOUS
<1>2. Copied(w, o, map) /\ open' = Append(o, e) /\ written' = Append(w, x) /\ n = Len(o) + 1
  BY <1>1
<1>3. env = Lexical(Append(o, e))
  BY <1>2
<1>4. Copied(Append(w, x), Append(o, e), map)
  BY <1>2, <1>3, CopiedMore
<1>5. Copied(written', open', map)
  BY <1>2, <1>4
<1>6. Lexical(written') = env
  BY <1>2, <1>3, <1>4, LexicalSame
<1>7. Last(written') = x
  <2>1. PICK S : w \in Seq(S)
    BY <1>2 DEF Copied
  <2>. QED
    BY <1>2, <2>1, LastOfMore
<1>8. PrefixesBound(env, x.raw, x.attrs)
  BY DEF PrefixesBound, BoundIn
<1>9. NamesSurvive'
  <2>1. tag'.op # "end"
    OBVIOUS
  <2>2. /\ PrefixesBound(Lexical(written'), Last(written').raw, Last(written').attrs)
        /\ Translate(Lexical(written'), Last(written').raw) = tag'.name
        /\ TranslateAttrs(Lexical(written'), Last(written').attrs) = tag'.attrs
    BY <1>6, <1>7, <1>8
  <2>. QED
    BY <2>1, <2>2 DEF NamesSurvive
<1>. QED
  BY <1>5, <1>9

LEMMA ModelStep ==
  ASSUME PrefixesOnlyAtRoot, CopyInv, copies, copies', NEW exts \in Extensions, Model(exts)
  PROVE  CopyInv'
<1>1. PICK attrs : attrs = <<DefaultAttr(CoreNamespace)>> \o exts
  OBVIOUS
<1>a. PICK n \in Nat \ {0} : \E A : attrs \in Seq(A) /\ Len(attrs) = n /\ RootAttrs(n, attrs)
  BY <1>1, RootIs
<1>2. PICK A : attrs \in Seq(A) /\ Len(attrs) = n /\ RootAttrs(n, attrs)
  BY <1>a
<1>3. PICK decls : decls = DeclarationsIn(attrs)
  OBVIOUS
<1>4. decls \in Decls
  BY <1>2, <1>3, RootDeclares
<1>5. /\ open = <<>> /\ attrPrefix = <<>> /\ written = <<>>
      /\ StartElement(ModelName, decls, FALSE)
      /\ WriteStart(ModelName, attrs) /\ Printed(event'.name, attrs)
  BY <1>1, <1>3 DEF Model, CopyInv
<1>6. ScopesInv'
  <2>1. PICK empty \in BOOLEAN : empty = FALSE
    OBVIOUS
  <2>2. StartElement(ModelName, decls, empty)
    BY <1>5, <2>1
  <2>3. ModelName \in RawNames
    BY PrinterAssumption
  <2>. QED
    BY <1>4, <2>2, <2>3, StartStep DEF CopyInv
<1>7. PICK e : e = [raw |-> ModelName, decls |-> decls]
  OBVIOUS
<1>8. e \in Elem /\ e.raw = ModelName /\ e.decls = decls
  BY <1>4, <1>7, PrinterAssumption DEF Elem, Decls
<1>9. PICK map : map = DefineAll(<<>>, attrs)
  OBVIOUS
<1>10. map \in RootMaps /\ HasFirst(map, attrs, n) /\ AttrsSpelled(<<>>, attrs) = attrs
  BY <1>2, <1>9, RootMap
<1>11. PICK env : env = Bind(<<>>, decls)
  OBVIOUS
<1>12. Undoes(map, env) /\ TranslateAttrs(env, attrs) = attrs /\ BoundIn(env, attrs)
  BY <1>2, <1>3, <1>10, <1>11, RootUndoes
<1>13. PICK x : x = [raw |-> Spelled(<<>>, ModelName), attrs |-> attrs, decls |-> decls]
  OBVIOUS
<1>14. x.raw = ModelName /\ x.attrs = attrs /\ x.decls = decls
  BY <1>13, SpelledModel
<1>15. written' = Append(written, x) /\ attrPrefix' = map
  BY <1>3, <1>5, <1>9, <1>10, <1>13 DEF WriteStart
<1>16. open' = Append(open, e) /\ err' = "none"
  BY <1>5, <1>7 DEF StartElement
<1>17. event'.name = Translate(env, ModelName)
  <2>1. ns = <<>>
    BY <1>5, LexicalOfNone DEF CopyInv, ScopesInv, StartElement
  <2>. QED
    BY <1>5, <1>11, <2>1 DEF StartElement
<1>18. env = Lexical(open')
  <2>1. PICK o : o = open
    OBVIOUS
  <2>2. o \in Seq(Elem) /\ Lexical(o) = <<>>
    BY <1>5, <2>1, LexicalOfNone
  <2>3. Lexical(Append(o, e)) = Bind(<<>>, decls)
    BY <1>8, <2>2, LexicalAppend
  <2>. QED
    BY <1>11, <1>16, <2>1, <2>3
<1>19. tag'.op = "start" /\ tag'.name = Translate(env, ModelName) /\ tag'.attrs = attrs
  BY <1>5, <1>17 DEF Printed
<1>20. Copied(written, open, map)
  <2>1. PICK o, w : o = open /\ w = written /\ Len(o) = 0 /\ DOMAIN w = {} /\ 1..0 = {}
    BY <1>5
  <2>2. o \in Seq(Elem) /\ w \in Seq({})
    BY <1>5, <2>1
  <2>3. Copied(w, o, map)
    BY <2>1, <2>2 DEF Copied
  <2>. QED
    BY <2>1, <2>3
<1>21. Len(open) + 1 = 1
  BY <1>5
<1>22. ModelName.space = ""
  BY DEF ModelName
<1>23. Copied(written', open', map) /\ NamesSurvive'
  <2>1. PICK k : k = Len(open) + 1 /\ k = 1
    BY <1>21
  <2>2. x.raw = Spelled(map, IF k = 1 THEN ModelName ELSE Translate(env, e.raw))
    BY <1>14, <2>1, SpelledModel
  <2>. QED
    BY <1>8, <1>12, <1>14, <1>15, <1>16, <1>18, <1>19, <1>20, <1>22, <2>1, <2>2, StartCopied
<1>. QED
  BY <1>6, <1>15, <1>16, <1>19, <1>23 DEF CopyInv

LEMMA ElementStep ==
  ASSUME PrefixesOnlyAtRoot, CopyInv, copies, copies',
         NEW raw \in RawNames, NEW attrs \in Attributes, NEW empty \in BOOLEAN,
         PrefixesBound(Bind(ns, DeclarationsIn(attrs)), raw, attrs), Element(raw, attrs, empty)
  PROVE  CopyInv'
<1>1. PICK decls, env : decls = DeclarationsIn(attrs) /\ env = Bind(ns, decls)
  OBVIOUS
<1>2. attrs \in Seq(AttrType) /\ decls \in Decls /\ PrefixesOf(decls) \subseteq {""}
  BY <1>1, BelowDeclares
<1>3. PrefixesBound(env, raw, attrs)
  BY <1>1
<1>4. BoundName(env, raw) /\ Below(env, attrs)
  BY <1>3, BoundBelow
<1>5. PICK read : read = TranslateAttrs(env, attrs)
  OBVIOUS
<1>6. /\ open # <<>> /\ StartElement(raw, decls, empty)
      /\ WriteStart(event'.name, read) /\ Printed(event'.name, read)
  BY <1>1, <1>5 DEF Element
<1>7. ScopesInv'
  BY <1>2, <1>6, StartStep DEF CopyInv
<1>8. PICK e : e = [raw |-> raw, decls |-> decls]
  OBVIOUS
<1>9. e \in Elem /\ e.raw = raw /\ e.decls = decls
  BY <1>2, <1>8 DEF Elem, Decls
<1>10. open' = Append(open, e) /\ err' = "none"
  BY <1>6, <1>8 DEF StartElement
<1>11. open \in Seq(Elem) /\ ns = Lexical(open)
  BY <1>6 DEF CopyInv, ScopesInv, ScopesTypeOK, StartElement
<1>12. PICK map : map = attrPrefix
  OBVIOUS
<1>13. Copied(written, open, map)
  BY <1>12 DEF CopyInv
<1>14. PICK m : m = Len(open)
  OBVIOUS
<1>15. m \in Nat \ {0}
  BY <1>6, <1>11, <1>14
<1>16. Undoes(map, ns)
  <2>1. m \in 1..Len(open)
    BY <1>14, <1>15
  <2>2. Undoes(map, Env(open, m))
    BY <1>13, <2>1 DEF Copied
  <2>3. SubSeq(open, 1, m) = open
    BY <1>11, <1>14, SubSeqFull
  <2>. QED
    BY <1>11, <2>2, <2>3 DEF Env
<1>17. Undoes(map, env)
  <2>1. PICK outer : outer = ns
    OBVIOUS
  <2>2. Undoes(map, outer) /\ env = Bind(outer, decls)
    BY <1>1, <1>16, <2>1
  <2>. QED
    BY <1>2, <2>2, UndoesBelow
<1>18. env = Lexical(open')
  <2>1. PICK o : o = open
    OBVIOUS
  <2>2. Lexical(Append(o, e)) = Bind(Lexical(o), decls)
    BY <1>9, <1>11, <2>1, LexicalAppend
  <2>. QED
    BY <1>1, <1>10, <1>11, <2>1, <2>2
<1>19. PICK name : name = Translate(env, raw)
  OBVIOUS
<1>20. event'.name = name
  BY <1>1, <1>6, <1>19 DEF StartElement
<1>21. PICK s : s = Spelled(map, name)
  OBVIOUS
<1>22. s.space \in {""} \cup DOMAIN env /\ Translate(env, s) = name
  <2>1. NamedAgain(env, name, s)
    BY <1>4, <1>17, <1>19, <1>21, NameSurvives
  <2>. QED
    BY <2>1 DEF NamedAgain, BoundName
<1>23. PICK spelled : spelled = AttrsSpelled(map, read)
  OBVIOUS
<1>24. /\ DefineAll(map, read) = map
       /\ DeclarationsIn(spelled) = decls
       /\ TranslateAttrs(env, spelled) = read
       /\ BoundIn(env, spelled)
  <2>1. PrintedAgain(map, env, attrs, read, spelled)
    BY <1>2, <1>4, <1>5, <1>17, <1>23, AttrsSurvive
  <2>. QED
    BY <1>1, <2>1 DEF PrintedAgain
<1>25. PICK x : x = [raw |-> s, attrs |-> spelled, decls |-> decls]
  OBVIOUS
<1>26. x.raw = s /\ x.attrs = spelled /\ x.decls = decls
  BY <1>25
<1>27. written' = Append(written, x) /\ attrPrefix' = map
  BY <1>6, <1>12, <1>20, <1>21, <1>23, <1>24, <1>25 DEF WriteStart
<1>28. tag'.op = "start" /\ tag'.name = name /\ tag'.attrs = read
  BY <1>6, <1>20 DEF Printed
<1>29. PICK n : n = Len(open) + 1
  OBVIOUS
<1>30. n # 1
  BY <1>14, <1>15, <1>29
<1>31. x.raw = Spelled(map, IF n = 1 THEN ModelName ELSE Translate(env, e.raw))
  BY <1>9, <1>19, <1>21, <1>26, <1>30
<1>32. Copied(written', open', map) /\ NamesSurvive'
  BY <1>9, <1>10, <1>13, <1>17, <1>18, <1>22, <1>24, <1>26, <1>27, <1>28, <1>29, <1>31, StartCopied
<1>. QED
  BY <1>7, <1>10, <1>27, <1>28, <1>32 DEF CopyInv

(* The end tag of the innermost element, which never fails.                *)
LEMMA EndTagStep ==
  ASSUME CopyInv, copies, copies', EndTag
  PROVE  CopyInv'
<1>1. PICK raw : raw = Last(open).raw
  OBVIOUS
<1>2. open # <<>> /\ err = "none" /\ HandleEnd(raw) /\ ~needClose'
  <2>1. CASE needClose
    <3>1. CloseEmpty /\ open # <<>>
      BY <2>1 DEF EndTag
    <3>. QED
      BY <1>1, <2>1, <3>1 DEF CloseEmpty, CopyInv, ScopesInv
  <2>2. CASE ~needClose
    BY <1>1, <2>2 DEF EndTag, EndElement
  <2>. QED
    BY <2>1, <2>2
<1>3. ScopesInv'
  BY <1>2, EndStep DEF CopyInv
<1>4. PICK S, b : stk \in Seq(S) /\ Holds(stk, open, b) /\ ns = Lexical(open) /\ open \in Seq(Elem)
  BY <1>2 DEF CopyInv, ScopesInv, ScopesTypeOK
<1>5. Closes(Translate(ns, raw))
  BY <1>1, <1>2, <1>4, ClosesIs
<1>6. open' = Front(open) /\ err' = "none" /\ event'.name = Translate(ns, raw)
  BY <1>2, <1>5 DEF HandleEnd
<1>7. PICK o, w, map : o = open /\ w = written /\ map = attrPrefix
  OBVIOUS
<1>8. Copied(w, o, map) /\ o # <<>> /\ o \in Seq(Elem)
  BY <1>2, <1>4, <1>7 DEF CopyInv
<1>9. PICK n : n = Len(o)
  OBVIOUS
<1>10. n \in Nat \ {0} /\ n \in 1..Len(o)
  BY <1>8, <1>9
<1>11. PICK name : name = IF n = 1 THEN ModelName ELSE Translate(ns, raw)
  OBVIOUS
<1>12. WriteEnd(name)
  BY <1>6, <1>7, <1>9, <1>11 DEF EndTag
<1>13. Last(w).raw = Spelled(map, name)
  <2>1. PICK T : w \in Seq(T)
    BY <1>8 DEF Copied
  <2>2. Len(w) = n
    <3>1. DOMAIN w = 1..n /\ DOMAIN w = 1..Len(w) /\ Len(w) \in Nat
      BY <1>8, <1>9, <2>1 DEF Copied
    <3>. QED
      BY <1>10, <3>1
  <2>3. w[n].raw = Spelled(map, NameOf(o, n))
    BY <1>8, <1>10 DEF Copied
  <2>4. SubSeq(o, 1, n) = o
    BY <1>8, <1>9, SubSeqFull
  <2>5. NameOf(o, n) = name
    BY <1>1, <1>4, <1>7, <1>9, <1>11, <2>4 DEF NameOf, Env, Last
  <2>. QED
    BY <2>2, <2>3, <2>5 DEF Last
<1>14. /\ written' = Front(w) /\ attrPrefix' = map
       /\ tag'.op = "end" /\ tag'.start = Last(w).raw /\ tag'.end = Spelled(map, name)
  BY <1>7, <1>12 DEF WriteEnd
<1>15. Copied(written', open', map)
  <2>1. Copied(Front(w), Front(o), map)
    BY <1>8, CopiedFront
  <2>. QED
    BY <1>6, <1>7, <1>14, <2>1
<1>16. NamesSurvive'
  BY <1>13, <1>14 DEF NamesSurvive
<1>. QED
  BY <1>3, <1>6, <1>14, <1>15, <1>16 DEF CopyInv

LEMMA CopyInit == PrinterInit => CopyInv
<1>1. SUFFICES ASSUME PrinterInit PROVE CopyInv
  OBVIOUS
<1>2. ScopesInv
  BY <1>1, InvInit DEF PrinterInit
<1>3. err = "none" /\ open = <<>> /\ written = <<>> /\ attrPrefix = <<>> /\ tag.op = "none"
  BY <1>1 DEF PrinterInit, Init
<1>4. NamesSurvive
  BY <1>3 DEF NamesSurvive
<1>5. Copied(written, open, attrPrefix)
  <2>1. PICK o, w : o = <<>> /\ w = <<>>
    OBVIOUS
  <2>2. Len(o) = 0 /\ DOMAIN w = {} /\ 1..0 = {} /\ o \in Seq(Elem) /\ w \in Seq({})
    BY <2>1
  <2>3. \A map : Copied(w, o, map)
    BY <2>2 DEF Copied
  <2>. QED
    BY <1>3, <2>1, <2>3
<1>. QED
  BY <1>2, <1>3, <1>4, <1>5 DEF CopyInv

LEMMA CopyStep ==
  ASSUME PrefixesOnlyAtRoot, CopyInv, [PrinterNext]_<<vars, printVars>>
  PROVE  CopyInv'
<1>1. CASE ~copies /\ Next /\ UNCHANGED printVars
  <2>1. ScopesInv'
    BY <1>1, InvStep DEF CopyInv
  <2>2. ~copies' /\ tag' = tag /\ attrPrefix' = attrPrefix /\ written' = written
    BY <1>1 DEF printVars
  <2>3. tag.op = "none"
    BY <1>1 DEF CopyInv
  <2>4. NamesSurvive'
    BY <2>2, <2>3 DEF NamesSurvive
  <2>. QED
    BY <2>1, <2>2, <2>3, <2>4 DEF CopyInv
<1>2. CASE copies /\ Copy /\ UNCHANGED copies
  <2>1. copies /\ copies'
    BY <1>2
  <2>2. ASSUME NEW exts \in Extensions, Model(exts) PROVE CopyInv'
    BY <2>1, <2>2, ModelStep
  <2>3. ASSUME NEW raw \in RawNames, NEW attrs \in Attributes, NEW empty \in BOOLEAN,
               PrefixesBound(Bind(ns, DeclarationsIn(attrs)), raw, attrs), Element(raw, attrs, empty)
        PROVE  CopyInv'
    BY <2>1, <2>3, ElementStep
  <2>4. ASSUME EndTag PROVE CopyInv'
    BY <2>1, <2>4, EndTagStep
  <2>. QED
    BY <1>2, <2>2, <2>3, <2>4 DEF Copy
<1>3. CASE UNCHANGED <<vars, printVars>>
  <2>1. ScopesInv'
    BY <1>3, InvStep DEF CopyInv
  <2>2. NamesSurvive'
    BY <1>3 DEF NamesSurvive, CopyInv, printVars
  <2>3. /\ copies' = copies /\ tag' = tag /\ attrPrefix' = attrPrefix /\ written' = written
        /\ err' = err /\ open' = open
    BY <1>3 DEF vars, printVars
  <2>. QED
    BY <2>1, <2>2, <2>3 DEF CopyInv
<1>. QED
  BY <1>1, <1>2, <1>3 DEF PrinterNext

(***************************************************************************)
(* In a model part that is read and written again, where prefixes are      *)
(* declared by the root, once each and not the reserved ones, every name   *)
(* that is printed is read as the name that it was printed for, however    *)
(* deep the elements are nested and wherever they change the default       *)
(* namespace, and every end tag is spelled like its start, although the    *)
(* printer keeps one map that only grows (printer.go:52, :198-233).        *)
(***************************************************************************)
THEOREM NamesAlwaysSurvive ==
  ASSUME PrefixesOnlyAtRoot
  PROVE  PrinterSpec => []NamesSurvive
<1>1. CopyInv /\ [PrinterNext]_<<vars, printVars>> => CopyInv'
  BY CopyStep
<1>2. CopyInv => NamesSurvive
  BY DEF CopyInv
<1>. QED
  BY <1>1, <1>2, CopyInit, PTL DEF PrinterSpec
=============================================================================
