-------------------------- MODULE ModelFile_proofs --------------------------
(* Files of any length and any shape, well formed or not: the decoder stack *)
(* follows the open elements (DecodersAreOpen), what is kept of unknown     *)
(* elements is the whole of them (CapturedWhole), nil means that no         *)
(* attribute failed to parse (NilMeansParsed), what is read of a whole file *)
(* is the content of its tree (ContentIsTheTree), and the path of an error  *)
(* leads to its element there (ErrorsLocate).  Models of any size: what is  *)
(* written with escaping off are numbers (TextIsEscaped).                   *)
EXTENDS ModelEncoder, Recursion_proofs, SequenceTheorems, FiniteSetTheorems, TLAPS

LEMMA FrontFacts ==
  ASSUME NEW S, NEW s \in Seq(S), s # <<>>
  PROVE  /\ Front(s) \in Seq(S) /\ Len(Front(s)) = Len(s) - 1
         /\ \A k \in 1..(Len(s) - 1) : Front(s)[k] = s[k]
<1>1. Len(s) \in Nat \ {0} /\ \A k \in 1..Len(s) : s[k] \in S
  OBVIOUS
<1>2. PICK n \in Nat : n = Len(s) - 1
  BY <1>1
<1>3. Len(SubSeq(s, 1, n)) = n
  BY <1>1, <1>2
<1>4. \A k \in 1..n : SubSeq(s, 1, n)[k] = s[k]
  BY <1>1, <1>2
<1>5. SubSeq(s, 1, n) \in Seq(S)
  BY <1>1, <1>2
<1>6. Front(s) = SubSeq(s, 1, n)
  BY <1>2 DEF Front
<1>. QED
  BY <1>2, <1>3, <1>4, <1>5, <1>6

LEMMA IntSeqEqual ==
  ASSUME NEW s \in Seq(Int), NEW t \in Seq(Int), Len(s) = Len(t),
         \A k \in 1..Len(s) : s[k] = t[k]
  PROVE  s = t
<1>1. s = [k \in 1..Len(s) |-> s[k]]
  OBVIOUS
<1>2. t = [k \in 1..Len(t) |-> t[k]]
  OBVIOUS
<1>. QED
  BY <1>1, <1>2, Zenon

LEMMA IncreasingAppend ==
  ASSUME NEW s \in Seq(Int), NEW n \in Int, Increasing(s),
         \A k \in DOMAIN s : s[k] < n
  PROVE  /\ Increasing(Append(s, n))
         /\ Range(Append(s, n)) = Range(s) \cup {n}
<1>1. /\ DOMAIN Append(s, n) = DOMAIN s \cup {Len(s) + 1}
      /\ \A k \in DOMAIN s : Append(s, n)[k] = s[k]
      /\ Append(s, n)[Len(s) + 1] = n
      /\ DOMAIN s = 1..Len(s) /\ Len(s) \in Nat
  OBVIOUS
<1>2. Increasing(Append(s, n))
  BY <1>1 DEF Increasing
<1>. QED
  BY <1>1, <1>2 DEF Range

LEMMA IncreasingFront ==
  ASSUME NEW s \in Seq(Int), s # <<>>, Increasing(s)
  PROVE  /\ Front(s) \in Seq(Int)
         /\ Increasing(Front(s))
         /\ Range(Front(s)) = Range(s) \ {Last(s)}
         /\ \A x \in Range(s) : x <= Last(s)
         /\ Last(s) \in Range(s)
<1>1. /\ Len(s) \in Nat \ {0} /\ DOMAIN s = 1..Len(s)
      /\ Front(s) \in Seq(Int) /\ DOMAIN Front(s) = 1..(Len(s) - 1)
      /\ \A k \in DOMAIN Front(s) : Front(s)[k] = s[k]
      /\ Last(s) = s[Len(s)]
  BY DEF Front, Last
<1>2. Increasing(Front(s))
  BY <1>1 DEF Increasing
<1>3. ASSUME NEW k \in DOMAIN s PROVE s[k] \in Int /\ (k # Len(s) => s[k] < Last(s))
  <2>1. s[k] \in Int /\ Len(s) \in DOMAIN s /\ (k # Len(s) => k < Len(s))
    BY <1>1
  <2>. QED
    BY <1>1, <2>1 DEF Increasing
<1>4. Range(Front(s)) = Range(s) \ {Last(s)}
  <2>1. \A k \in DOMAIN Front(s) : k \in DOMAIN s /\ s[k] # Last(s)
    BY <1>1, <1>3
  <2>2. \A k \in DOMAIN s : s[k] # Last(s) => k \in DOMAIN Front(s)
    BY <1>1
  <2>. QED
    BY <1>1, <2>1, <2>2 DEF Range
<1>5. /\ \A x \in Range(s) : x <= Last(s)
      /\ Last(s) \in Range(s)
  <2>1. \A k \in DOMAIN s : s[k] <= Last(s)
    BY <1>1, <1>3
  <2>2. Len(s) \in DOMAIN s
    BY <1>1
  <2>. QED
    BY ONLY <1>1, <2>1, <2>2 DEF Range
<1>. QED
  BY <1>1, <1>2, <1>4, <1>5

(***************************************************************************)
(* What makes DecodersAreOpen inductive: a decoder goes by the name of the *)
(* element it was made for, and the open elements were all read before.    *)
(***************************************************************************)
OpenInv ==
  /\ i \in Node
  /\ open \in Seq(Int) /\ Increasing(open)
  /\ \A k \in DOMAIN open : open[k] \in Node /\ open[k] < i

(* A sequence of decoders, of whatever kinds and structs.                  *)
DecoderSeq(st) == \E D : st \in Seq(D) /\ \A d \in D : d.node \in Nat

StackInv ==
  /\ DecoderSeq(stack) /\ stack # <<>>
  /\ stack[1].kind = TopKind /\ stack[1].name = <<"", "">>
  /\ Increasing(Nodes(stack))
  /\ Range(Nodes(stack)) \subseteq Range(open)
  /\ \A k \in 2..Len(stack) : stack[k].name = file[stack[k].node].name

Inv == file \in Seq(Tokens) /\ OpenInv /\ StackInv

LEMMA NodesType ==
  ASSUME NEW st, DecoderSeq(st), st # <<>>
  PROVE  /\ Len(st) \in Nat \ {0}
         /\ Nodes(st) \in Seq(Int) /\ Len(Nodes(st)) = Len(st) - 1
         /\ \A k \in 1..(Len(st) - 1) : Nodes(st)[k] = st[k + 1].node
<1>. PICK D : st \in Seq(D) /\ \A d \in D : d.node \in Nat
  BY DEF DecoderSeq
<1>1. Len(st) \in Nat \ {0}
  OBVIOUS
<1>2. \A k \in 1..Len(st) : st[k] \in D
  OBVIOUS
<1>3. \A d \in D : d.node \in Int
  OBVIOUS
<1>4. \A k \in 1..(Len(st) - 1) : st[k + 1].node \in Int
  BY <1>1, <1>2, <1>3
<1>. QED
  BY <1>1, <1>4 DEF Nodes

LEMMA NodesAppend ==
  ASSUME NEW st, DecoderSeq(st), st # <<>>, NEW d, d.node \in Nat
  PROVE  /\ DecoderSeq(Append(st, d)) /\ Append(st, d) # <<>>
         /\ Len(Append(st, d)) = Len(st) + 1
         /\ \A k \in 1..Len(st) : Append(st, d)[k] = st[k]
         /\ Append(st, d)[Len(st) + 1] = d
         /\ Nodes(Append(st, d)) = Append(Nodes(st), d.node)
<1>1. /\ Len(st) \in Nat \ {0}
      /\ Nodes(st) \in Seq(Int) /\ Len(Nodes(st)) = Len(st) - 1
      /\ \A k \in 1..(Len(st) - 1) : Nodes(st)[k] = st[k + 1].node
  BY NodesType
<1>. PICK D : st \in Seq(D) /\ \A c \in D : c.node \in Nat
  BY DEF DecoderSeq
<1>2. /\ DecoderSeq(Append(st, d)) /\ Len(Append(st, d)) = Len(st) + 1
      /\ Append(st, d) # <<>>
  <2>1. st \in Seq(D \cup {d})
    OBVIOUS
  <2>2. /\ Append(st, d) \in Seq(D \cup {d}) /\ Len(Append(st, d)) = Len(st) + 1
        /\ Append(st, d) # <<>>
    BY <2>1, <1>1
  <2>. QED
    BY <2>2, Zenon DEF DecoderSeq
<1>3. \A k \in 1..Len(st) : Append(st, d)[k] = st[k]
  BY <1>1
<1>4. Append(st, d)[Len(st) + 1] = d
  BY <1>1
<1>5. d.node \in Int
  OBVIOUS
<1>6. /\ Nodes(Append(st, d)) \in Seq(Int)
      /\ Len(Nodes(Append(st, d))) = Len(st)
      /\ \A k \in 1..Len(st) : Nodes(Append(st, d))[k] = Append(st, d)[k + 1].node
  <2>1. /\ Nodes(Append(st, d)) \in Seq(Int)
        /\ Len(Nodes(Append(st, d))) = Len(Append(st, d)) - 1
        /\ \A k \in 1..(Len(Append(st, d)) - 1) :
              Nodes(Append(st, d))[k] = Append(st, d)[k + 1].node
    BY <1>2, NodesType
  <2>2. Len(Append(st, d)) - 1 = Len(st)
    BY <1>1, <1>2
  <2>. QED
    BY <2>1, <2>2
<1>7. /\ Append(Nodes(st), d.node) \in Seq(Int)
      /\ Len(Append(Nodes(st), d.node)) = Len(st)
      /\ \A k \in 1..(Len(st) - 1) : Append(Nodes(st), d.node)[k] = st[k + 1].node
      /\ Append(Nodes(st), d.node)[Len(st)] = d.node
  <2>1. /\ Append(Nodes(st), d.node) \in Seq(Int)
        /\ Len(Append(Nodes(st), d.node)) = Len(st)
    BY <1>1, <1>5
  <2>2. \A k \in 1..(Len(st) - 1) : Append(Nodes(st), d.node)[k] = Nodes(st)[k]
    BY <1>1, <1>5
  <2>3. Append(Nodes(st), d.node)[Len(st)] = d.node
    BY <1>1, <1>5
  <2>. QED
    BY <1>1, <2>1, <2>2, <2>3
<1>8. \A k \in 1..Len(st) : Nodes(Append(st, d))[k] = Append(Nodes(st), d.node)[k]
  <2>1. ASSUME NEW k \in 1..(Len(st) - 1)
        PROVE  Nodes(Append(st, d))[k] = Append(Nodes(st), d.node)[k]
    <3>1. k \in 1..Len(st) /\ k + 1 \in 1..Len(st)
      BY <1>1
    <3>. QED
      BY <1>3, <1>6, <1>7, <3>1
  <2>2. Nodes(Append(st, d))[Len(st)] = Append(Nodes(st), d.node)[Len(st)]
    <3>1. Len(st) \in 1..Len(st)
      BY <1>1
    <3>. QED
      BY <1>4, <1>6, <1>7, <3>1
  <2>3. \A k \in 1..Len(st) : k \in 1..(Len(st) - 1) \/ k = Len(st)
    BY <1>1
  <2>. QED
    BY <2>1, <2>2, <2>3
<1>9. Nodes(Append(st, d)) = Append(Nodes(st), d.node)
  BY <1>6, <1>7, <1>8, IntSeqEqual
<1>. QED
  BY <1>2, <1>3, <1>4, <1>9

LEMMA NodesFront ==
  ASSUME NEW st, DecoderSeq(st), st # <<>>, Len(st) > 1
  PROVE  /\ Nodes(st) # <<>> /\ Last(Nodes(st)) = Last(st).node
         /\ DecoderSeq(Front(st)) /\ Len(Front(st)) = Len(st) - 1
         /\ \A k \in 1..(Len(st) - 1) : Front(st)[k] = st[k]
         /\ Nodes(Front(st)) = Front(Nodes(st))
<1>1. /\ Len(st) \in Nat \ {0} /\ st # <<>>
      /\ Nodes(st) \in Seq(Int) /\ Len(Nodes(st)) = Len(st) - 1
      /\ \A k \in 1..(Len(st) - 1) : Nodes(st)[k] = st[k + 1].node
  BY NodesType
<1>2. /\ DecoderSeq(Front(st)) /\ Len(Front(st)) = Len(st) - 1
      /\ \A k \in 1..(Len(st) - 1) : Front(st)[k] = st[k]
  <2>. PICK D : st \in Seq(D) /\ \A d \in D : d.node \in Nat
    BY DEF DecoderSeq
  <2>1. /\ Front(st) \in Seq(D) /\ Len(Front(st)) = Len(st) - 1
        /\ \A k \in 1..(Len(st) - 1) : Front(st)[k] = st[k]
    BY <1>1, FrontFacts
  <2>. QED
    BY <2>1, Zenon DEF DecoderSeq
<1>3. Nodes(st) # <<>> /\ Last(Nodes(st)) = Last(st).node
  <2>1. Len(st) - 1 \in 1..(Len(st) - 1) /\ (Len(st) - 1) + 1 = Len(st)
    BY <1>1
  <2>2. Last(Nodes(st)) = Nodes(st)[Len(st) - 1] /\ Last(st) = st[Len(st)]
    BY <1>1 DEF Last
  <2>. QED
    BY <1>1, <2>1, <2>2
<1>4. /\ Nodes(Front(st)) \in Seq(Int) /\ Len(Nodes(Front(st))) = Len(st) - 2
      /\ \A k \in 1..(Len(st) - 2) : Nodes(Front(st))[k] = Front(st)[k + 1].node
  <2>1. Front(st) # <<>> /\ Len(Front(st)) - 1 = Len(st) - 2
    BY <1>1, <1>2
  <2>2. /\ Nodes(Front(st)) \in Seq(Int)
        /\ Len(Nodes(Front(st))) = Len(Front(st)) - 1
        /\ \A k \in 1..(Len(Front(st)) - 1) : Nodes(Front(st))[k] = Front(st)[k + 1].node
    BY <1>2, <2>1, NodesType
  <2>. QED
    BY <2>1, <2>2
<1>5. /\ Front(Nodes(st)) \in Seq(Int) /\ Len(Front(Nodes(st))) = Len(st) - 2
      /\ \A k \in 1..(Len(st) - 2) : Front(Nodes(st))[k] = Nodes(st)[k]
  <2>1. Nodes(st) \in Seq(Int) /\ Nodes(st) # <<>> /\ Len(Nodes(st)) - 1 = Len(st) - 2
    BY <1>1, <1>3
  <2>2. /\ Front(Nodes(st)) \in Seq(Int) /\ Len(Front(Nodes(st))) = Len(Nodes(st)) - 1
        /\ \A k \in 1..(Len(Nodes(st)) - 1) : Front(Nodes(st))[k] = Nodes(st)[k]
    BY <2>1, FrontFacts
  <2>. QED
    BY <2>1, <2>2
<1>6. \A k \in 1..(Len(st) - 2) : Nodes(Front(st))[k] = Front(Nodes(st))[k]
  <2>1. \A k \in 1..(Len(st) - 2) : k \in 1..(Len(st) - 1) /\ k + 1 \in 1..(Len(st) - 1)
    BY <1>1
  <2>. QED
    BY <1>1, <1>2, <1>4, <1>5, <2>1
<1>7. Nodes(Front(st)) = Front(Nodes(st))
  BY <1>4, <1>5, <1>6, IntSeqEqual
<1>. QED
  BY <1>2, <1>3, <1>7

(***************************************************************************)
(* The first decoder, and every decoder with a name of an element.         *)
(***************************************************************************)
LEMMA InvInit == Init => Inv
<1>. SUFFICES ASSUME Init PROVE Inv
  OBVIOUS
<1>1. file \in Seq(Tokens)
  BY FileAssumption DEF Init, Begin, FileAssumption
<1>2. i = 1 /\ open = <<>> /\ stack = <<TopLevel>>
  BY DEF Init, Begin
<1>3. OpenInv
  <2>1. i \in Node /\ DOMAIN open = {} /\ open \in Seq(Int)
    BY <1>2 DEF Node
  <2>. QED
    BY <2>1 DEF OpenInv, Increasing
<1>4. TopLevel.node \in Nat
  BY DEF TopLevel
<1>5. /\ DecoderSeq(stack) /\ stack # <<>>
      /\ Len(stack) = 1 /\ stack[1] = TopLevel
  <2>1. /\ stack \in Seq({TopLevel}) /\ stack # <<>>
        /\ Len(stack) = 1 /\ stack[1] = TopLevel
    BY <1>2
  <2>. DEFINE D == {TopLevel}
  <2>2. stack \in Seq(D) /\ \A d \in D : d.node \in Nat
    BY <1>4, <2>1
  <2>. HIDE DEF D
  <2>3. DecoderSeq(stack)
    BY <2>2 DEF DecoderSeq
  <2>. QED
    BY <2>1, <2>3
<1>6. Increasing(Nodes(stack)) /\ Range(Nodes(stack)) = {}
  <2>1. DOMAIN Nodes(stack) = {}
    BY <1>5 DEF Nodes
  <2>. QED
    BY <2>1 DEF Increasing, Range
<1>7. stack[1].kind = TopKind /\ stack[1].name = <<"", "">>
  <2>1. TopLevel.kind = TopKind
    BY DEF TopLevel
  <2>2. TopLevel.name = <<"", "">>
    BY DEF TopLevel
  <2>. QED
    BY <1>5, <2>1, <2>2, Zenon
<1>8. StackInv
  <2>1. 2..Len(stack) = {}
    BY <1>5
  <2>2. \A k \in 2..Len(stack) : stack[k].name = file[stack[k].node].name
    BY <2>1
  <2>. QED
    BY <1>5, <1>6, <1>7, <2>2, Zenon DEF StackInv
<1>. QED
  BY <1>1, <1>3, <1>8 DEF Inv

(* The name of a token that starts or ends an element.                     *)
LEMMA TokenName ==
  ASSUME NEW t \in Tokens, t.op \in {"start", "end"}
  PROVE  t.name \in Names /\ t.name # <<"", "">>
<1>1. t.name \in Names
  <2>1. CASE (\E n \in Names, b \in BOOLEAN : t = Start(n, b)) \/ (\E n \in Names : t = Bare(n))
    BY <2>1 DEF Start, Bare
  <2>2. CASE \E n \in Names : t = End(n)
    BY <2>2 DEF End
  <2>3. t # Text /\ t # Malformed
    BY DEF Text, Malformed
  <2>. QED
    BY <2>1, <2>2, <2>3 DEF Tokens
<1>2. \A n \in Names : n[1] \in {"core", "unknown", "materials", "slices", "beamlattice"}
  <2>1. \A n \in ExtNames : n[1] \in {"materials", "slices", "beamlattice"}
    BY DEF ExtNames, In
  <2>. QED
    BY <2>1 DEF Names
<1>3. <<"", "">>[1] = ""
  OBVIOUS
<1>4. "" \notin {"core", "unknown", "materials", "slices", "beamlattice"}
  OBVIOUS
<1>. QED
  BY <1>1, <1>2, <1>3, <1>4, Zenon

(* A read moves on by one token, and its element is new to those open.     *)
LEMMA OpenPushed ==
  ASSUME Inv, open' = Append(open, i), i' = i + 1
  PROVE  /\ OpenInv' /\ Range(open)' = Range(open) \cup {i}
         /\ \A k \in Range(open) : k < i
<1>1. /\ i \in Node /\ i \in Int /\ i + 1 \in Node
      /\ open \in Seq(Int) /\ Increasing(open)
      /\ \A k \in DOMAIN open : open[k] \in Node /\ open[k] < i
  BY DEF Inv, OpenInv, Node
<1>2. Increasing(Append(open, i)) /\ Range(Append(open, i)) = Range(open) \cup {i}
  BY <1>1, IncreasingAppend
<1>3. \A k \in Range(open) : k \in Node /\ k < i
  BY <1>1 DEF Range
<1>4. \A k \in Range(Append(open, i)) : k \in Node /\ k < i + 1
  BY <1>1, <1>2, <1>3 DEF Node
<1>5. \A k \in DOMAIN Append(open, i) : Append(open, i)[k] \in Range(Append(open, i))
  BY DEF Range
<1>6. Append(open, i) \in Seq(Int)
  BY <1>1
<1>7. OpenInv'
  BY <1>1, <1>2, <1>4, <1>5, <1>6 DEF OpenInv, Increasing
<1>8. Range(open)' = Range(open) \cup {i}
  BY <1>2 DEF Range
<1>. QED
  BY <1>3, <1>7, <1>8

LEMMA OpenPopped ==
  ASSUME Inv, open # <<>>, open' = Front(open), i' = i + 1
  PROVE  /\ OpenInv' /\ Range(open)' = Range(open) \ {Last(open)}
         /\ Last(open) \in Range(open) /\ Last(open) \in Int
         /\ \A k \in Range(open) : k <= Last(open)
<1>1. /\ i \in Node /\ i \in Int /\ i + 1 \in Node
      /\ open \in Seq(Int) /\ Increasing(open)
      /\ \A k \in DOMAIN open : open[k] \in Node /\ open[k] < i
  BY DEF Inv, OpenInv, Node
<1>2. /\ Front(open) \in Seq(Int) /\ Increasing(Front(open))
      /\ Range(Front(open)) = Range(open) \ {Last(open)}
      /\ \A k \in Range(open) : k <= Last(open)
      /\ Last(open) \in Range(open)
  BY <1>1, IncreasingFront
<1>3. \A k \in Range(open) : k \in Node /\ k < i
  BY <1>1 DEF Range
<1>4. \A k \in Range(Front(open)) : k \in Node /\ k < i + 1
  BY <1>1, <1>2, <1>3 DEF Node
<1>5. \A k \in DOMAIN Front(open) : Front(open)[k] \in Range(Front(open))
  BY DEF Range
<1>6. OpenInv'
  BY <1>1, <1>2, <1>4, <1>5 DEF OpenInv, Increasing
<1>7. Range(open)' = Range(open) \ {Last(open)}
  BY <1>2 DEF Range
<1>. QED
  BY <1>2, <1>3, <1>6, <1>7 DEF Node

LEMMA StackFacts ==
  ASSUME Inv
  PROVE  /\ DecoderSeq(stack) /\ stack # <<>> /\ Len(stack) \in Nat \ {0}
         /\ Top = stack[Len(stack)]
         /\ Nodes(stack) \in Seq(Int) /\ Len(Nodes(stack)) = Len(stack) - 1
<1>1. DecoderSeq(stack) /\ stack # <<>>
  BY DEF Inv, StackInv
<1>2. /\ Len(stack) \in Nat \ {0}
      /\ Nodes(stack) \in Seq(Int) /\ Len(Nodes(stack)) = Len(stack) - 1
  BY <1>1, NodesType
<1>3. Top = stack[Len(stack)]
  BY DEF Top, Last
<1>. QED
  BY <1>1, <1>2, <1>3

(* The innermost open element, when a decoder was made for it, has the     *)
(* decoder on top.                                                         *)
LEMMA OpenOnTop ==
  ASSUME Inv, open # <<>>, Last(open) \in Range(Nodes(stack)),
         \A k \in Range(open) : k <= Last(open), Last(open) \in Int
  PROVE  /\ Len(stack) > 1 /\ Last(Nodes(stack)) = Last(open)
         /\ Top.node = Last(open) /\ Top.name = file[Last(open)].name
<1>1. /\ Nodes(stack) \in Seq(Int) /\ Len(Nodes(stack)) = Len(stack) - 1
      /\ Len(stack) \in Nat \ {0} /\ DecoderSeq(stack) /\ stack # <<>>
      /\ Top = stack[Len(stack)]
  BY StackFacts
<1>2. /\ Increasing(Nodes(stack)) /\ Range(Nodes(stack)) \subseteq Range(open)
      /\ \A k \in 2..Len(stack) : stack[k].name = file[stack[k].node].name
  BY DEF Inv, StackInv
<1>3. Nodes(stack) # <<>> /\ Len(stack) > 1
  <2>1. PICK k \in DOMAIN Nodes(stack) : Nodes(stack)[k] = Last(open)
    BY DEF Range
  <2>2. k \in 1..(Len(stack) - 1)
    BY <1>1, <2>1
  <2>. QED
    BY <1>1, <2>2
<1>4. /\ \A x \in Range(Nodes(stack)) : x <= Last(Nodes(stack))
      /\ Last(Nodes(stack)) \in Range(Nodes(stack))
  BY <1>1, <1>2, <1>3, IncreasingFront
<1>5. Last(Nodes(stack)) = Last(open)
  <2>1. Last(Nodes(stack)) \in Int
    BY <1>1, <1>3 DEF Last
  <2>2. Last(Nodes(stack)) <= Last(open) /\ Last(open) <= Last(Nodes(stack))
    BY <1>2, <1>4
  <2>. QED
    BY <2>1, <2>2
<1>6. Last(stack).node = Last(open)
  BY <1>1, <1>3, <1>5, NodesFront
<1>7. Top.node = Last(open)
  BY <1>6 DEF Top
<1>8. Len(stack) \in 2..Len(stack)
  BY <1>1, <1>3
<1>. QED
  BY <1>1, <1>2, <1>3, <1>5, <1>7, <1>8

LEMMA StackPushed ==
  ASSUME Inv, NEW d, d.node = i, d.name = file[i].name,
         stack' = Append(stack, d), file' = file,
         Range(open)' = Range(open) \cup {i}, \A k \in Range(open) : k < i
  PROVE  StackInv'
<1>1. /\ DecoderSeq(stack) /\ stack # <<>> /\ Len(stack) \in Nat \ {0}
      /\ Nodes(stack) \in Seq(Int) /\ Len(Nodes(stack)) = Len(stack) - 1
  BY StackFacts
<1>2. /\ stack[1].kind = TopKind /\ stack[1].name = <<"", "">>
      /\ Increasing(Nodes(stack)) /\ Range(Nodes(stack)) \subseteq Range(open)
      /\ \A k \in 2..Len(stack) : stack[k].name = file[stack[k].node].name
  BY DEF Inv, StackInv
<1>3. i \in Int /\ d.node \in Nat
  BY DEF Inv, OpenInv, Node
<1>4. /\ DecoderSeq(Append(stack, d)) /\ Append(stack, d) # <<>>
      /\ Len(Append(stack, d)) = Len(stack) + 1
  BY <1>1, <1>3, NodesAppend
<1>5. \A k \in 1..Len(stack) : Append(stack, d)[k] = stack[k]
  BY <1>1, <1>3, NodesAppend
<1>6. Append(stack, d)[Len(stack) + 1] = d
  BY <1>1, <1>3, NodesAppend
<1>7. Nodes(Append(stack, d)) = Append(Nodes(stack), i)
  BY <1>1, <1>3, NodesAppend
<1>8. /\ Increasing(Nodes(Append(stack, d)))
      /\ Range(Nodes(Append(stack, d))) = Range(Nodes(stack)) \cup {i}
  <2>1. \A k \in DOMAIN Nodes(stack) : Nodes(stack)[k] \in Range(Nodes(stack))
    BY DEF Range
  <2>2. \A k \in DOMAIN Nodes(stack) : Nodes(stack)[k] < i
    BY <1>2, <2>1
  <2>. QED
    BY <1>1, <1>2, <1>3, <1>7, <2>2, IncreasingAppend
<1>9. \A k \in 2..(Len(stack) + 1) :
        Append(stack, d)[k].name = file[Append(stack, d)[k].node].name
  <2>1. \A k \in 2..Len(stack) : k \in 1..Len(stack)
    BY <1>1
  <2>2. \A k \in 2..(Len(stack) + 1) : k \in 2..Len(stack) \/ k = Len(stack) + 1
    BY <1>1
  <2>. QED
    BY <1>2, <1>5, <1>6, <2>1, <2>2
<1>10. Append(stack, d)[1] = stack[1]
  BY <1>1, <1>5
<1>11. Nodes(stack)' = Nodes(Append(stack, d)) /\ Range(Nodes(stack))' = Range(Nodes(Append(stack, d)))
  BY DEF Nodes, Range
<1>12. Increasing(Nodes(stack))'
  BY <1>8, <1>11 DEF Increasing
<1>13. Range(Nodes(stack))' \subseteq Range(open)'
  BY <1>2, <1>8, <1>11
<1>. QED
  BY <1>2, <1>4, <1>9, <1>10, <1>12, <1>13 DEF StackInv

LEMMA StackPopped ==
  ASSUME Inv, Len(stack) > 1, open # <<>>,
         stack' = Front(stack), file' = file,
         Range(open)' = Range(open) \ {Last(open)}, Last(open) \in Int,
         \A k \in Range(open) : k <= Last(open)
  PROVE  StackInv'
<1>1. /\ DecoderSeq(stack) /\ stack # <<>> /\ Len(stack) \in Nat \ {0}
      /\ Nodes(stack) \in Seq(Int) /\ Len(Nodes(stack)) = Len(stack) - 1
  BY StackFacts
<1>2. /\ stack[1].kind = TopKind /\ stack[1].name = <<"", "">>
      /\ Increasing(Nodes(stack)) /\ Range(Nodes(stack)) \subseteq Range(open)
      /\ \A k \in 2..Len(stack) : stack[k].name = file[stack[k].node].name
  BY DEF Inv, StackInv
<1>3. /\ Nodes(stack) # <<>>
      /\ DecoderSeq(Front(stack)) /\ Len(Front(stack)) = Len(stack) - 1
      /\ \A k \in 1..(Len(stack) - 1) : Front(stack)[k] = stack[k]
      /\ Nodes(Front(stack)) = Front(Nodes(stack))
  BY <1>1, NodesFront
<1>4. /\ Increasing(Front(Nodes(stack)))
      /\ Range(Front(Nodes(stack))) = Range(Nodes(stack)) \ {Last(Nodes(stack))}
  BY <1>1, <1>2, <1>3, IncreasingFront
<1>5. Range(Front(Nodes(stack))) \subseteq Range(open) \ {Last(open)}
  <2>1. CASE Last(open) \in Range(Nodes(stack))
    BY <1>2, <1>4, <2>1, OpenOnTop
  <2>2. CASE Last(open) \notin Range(Nodes(stack))
    BY <1>2, <1>4, <2>2
  <2>. QED
    BY <2>1, <2>2
<1>6. Front(stack) # <<>> /\ Front(stack)[1] = stack[1]
  BY <1>1, <1>3
<1>7. \A k \in 2..(Len(stack) - 1) :
        Front(stack)[k].name = file[Front(stack)[k].node].name
  <2>1. \A k \in 2..(Len(stack) - 1) : k \in 1..(Len(stack) - 1) /\ k \in 2..Len(stack)
    BY <1>1
  <2>. QED
    BY <1>2, <1>3, <2>1
<1>8. Nodes(stack)' = Nodes(Front(stack)) /\ Range(Nodes(stack))' = Range(Nodes(Front(stack)))
  BY DEF Nodes, Range
<1>9. Increasing(Nodes(stack))'
  BY <1>3, <1>4, <1>8 DEF Increasing
<1>10. Range(Nodes(stack))' \subseteq Range(open)'
  BY <1>3, <1>5, <1>8
<1>. QED
  BY <1>2, <1>3, <1>6, <1>7, <1>9, <1>10 DEF StackInv

LEMMA StackUnchanged ==
  ASSUME Inv, UNCHANGED <<stack, file>>,
         Range(Nodes(stack)) \subseteq Range(open)'
  PROVE  StackInv'
<1>1. /\ Increasing(Nodes(stack))' /\ Range(Nodes(stack))' = Range(Nodes(stack))
  BY DEF Inv, StackInv, Nodes, Increasing, Range
<1>. QED
  BY <1>1 DEF Inv, StackInv

LEMMA ReadsToken ==
  ASSUME Inv, NEW op \in {"start", "end"}, Reads(op)
  PROVE  /\ i \in Node /\ i' = i + 1 /\ file' = file /\ file \in Seq(Tokens)
         /\ Token.op = op /\ Token.name \in Names /\ Token.name # <<"", "">>
         /\ ~Mismatched
<1>1. file \in Seq(Tokens) /\ i \in DOMAIN file /\ i \in Node
  BY DEF Inv, OpenInv, Reads, CanRead
<1>2. Token \in Tokens /\ Token.op = op
  BY <1>1 DEF Token, Reads, CanRead
<1>3. Token.name \in Names /\ Token.name # <<"", "">>
  BY <1>2, TokenName
<1>4. ~Mismatched
  BY <1>1 DEF Reads, CanRead, SyntaxError
<1>. QED
  BY <1>1, <1>2, <1>3, <1>4 DEF Reads

LEMMA InvStep == Inv /\ [Next]_vars => Inv'
<1>. SUFFICES ASSUME Inv, [Next]_vars PROVE Inv'
  OBVIOUS
<1>. USE DEF Inv
<1>1. CASE StartHandled
  <2>1. /\ i \in Node /\ i' = i + 1 /\ file' = file
        /\ Token.name \in Names /\ open' = Append(open, i)
    BY <1>1, ReadsToken DEF StartHandled
  <2>2. OpenInv' /\ Range(open)' = Range(open) \cup {i} /\ \A k \in Range(open) : k < i
    BY <2>1, OpenPushed
  <2>. DEFINE kind == ChildKind(Top.kind, Token.name)
              d == [kind |-> kind, name |-> Token.name, node |-> i,
                    parent |-> Top.fills, fills |-> Fills(kind, i, Top.fills)]
  <2>3. stack' = Append(stack, d) /\ Handles(Top.kind, Token.name)
    BY <1>1 DEF StartHandled
  <2>8. d.node = i /\ d.name = file[i].name
    BY DEF Token
  <2>. HIDE DEF d
  <2>9. StackInv'
    BY <2>1, <2>2, <2>3, <2>8, StackPushed
  <2>. QED
    BY <2>1, <2>2, <2>9
<1>2. CASE StartUnhandled
  <2>1. i' = i + 1 /\ file' = file /\ open' = Append(open, i) /\ stack' = stack
    BY <1>2, ReadsToken DEF StartUnhandled
  <2>2. OpenInv' /\ Range(open)' = Range(open) \cup {i}
    BY <2>1, OpenPushed
  <2>3. StackInv'
    BY <2>1, <2>2, StackUnchanged DEF StackInv
  <2>. QED
    BY <2>1, <2>2, <2>3
<1>3. CASE EndHandled
  <2>1. /\ i' = i + 1 /\ file' = file /\ ~Mismatched
        /\ Token.op = "end" /\ Token.name # <<"", "">>
        /\ open' = Front(open) /\ stack' = Front(stack) /\ Top.name = Token.name
    BY <1>3, ReadsToken DEF EndHandled, Closes
  <2>2. open # <<>>
    BY <2>1 DEF Mismatched
  <2>3. /\ OpenInv' /\ Range(open)' = Range(open) \ {Last(open)}
        /\ Last(open) \in Int /\ \A k \in Range(open) : k <= Last(open)
    BY <2>1, <2>2, OpenPopped
  <2>4. Len(stack) > 1
    <3>1. Len(stack) \in Nat \ {0} /\ Top = stack[Len(stack)]
      BY StackFacts
    <3>2. stack[1].name = <<"", "">>
      BY DEF StackInv
    <3>3. Len(stack) # 1
      BY <2>1, <3>1, <3>2, Zenon
    <3>4. \A n \in Nat \ {0} : n # 1 => n > 1
      OBVIOUS
    <3>. QED
      BY <3>1, <3>3, <3>4, Zenon
  <2>5. StackInv'
    BY <2>1, <2>2, <2>3, <2>4, StackPopped
  <2>. QED
    BY <2>1, <2>3, <2>5
<1>4. CASE EndUnhandled
  <2>1. /\ i' = i + 1 /\ file' = file /\ ~Mismatched /\ Token.op = "end"
        /\ open' = Front(open) /\ stack' = stack /\ Top.name # Token.name
    BY <1>4, ReadsToken DEF EndUnhandled, Closes
  <2>2. open # <<>> /\ file[Last(open)].name = Token.name
    BY <2>1 DEF Mismatched
  <2>3. /\ OpenInv' /\ Range(open)' = Range(open) \ {Last(open)}
        /\ Last(open) \in Int /\ \A k \in Range(open) : k <= Last(open)
    BY <2>1, <2>2, OpenPopped
  <2>4. Last(open) \notin Range(Nodes(stack))
    BY <2>1, <2>2, <2>3, OpenOnTop
  <2>5. Range(Nodes(stack)) \subseteq Range(open)'
    BY <2>3, <2>4 DEF StackInv
  <2>6. StackInv'
    BY <2>1, <2>5, StackUnchanged
  <2>. QED
    BY <2>1, <2>3, <2>6
<1>5. CASE ReadText \/ Return \/ StartPanics \/ UNCHANGED vars
  <2>1. UNCHANGED <<file, open, stack>>
    BY <1>5 DEF ReadText, Return, StartPanics, Reads, vars
  <2>2. i' \in Node /\ i <= i'
    <3>1. i \in Nat \ {0}
      BY DEF OpenInv, Node
    <3>. QED
      BY <1>5, <3>1 DEF ReadText, Return, StartPanics, Reads, vars, Node
  <2>3. OpenInv'
    <3>1. i \in Int /\ i' \in Int /\ \A k \in DOMAIN open : open[k] \in Int
      BY <2>2 DEF OpenInv, Node
    <3>. QED
      BY <2>1, <2>2, <3>1 DEF OpenInv, Increasing, Node
  <2>4. StackInv'
    <3>1. Range(open)' = Range(open)
      BY <2>1 DEF Range
    <3>. QED
      BY <2>1, <3>1, StackUnchanged DEF StackInv
  <2>. QED
    BY <2>1, <2>3, <2>4
<1>. QED
  BY <1>1, <1>2, <1>3, <1>4, <1>5 DEF Next

(***************************************************************************)
(* However a file is malformed, OnEnd never pops the decoder of the file,  *)
(* and the decoders are those of open elements in their order.             *)
(***************************************************************************)
THEOREM DecodersAlwaysOpen == Spec => []DecodersAreOpen
<1>1. Inv => DecodersAreOpen
  BY DEF Inv, OpenInv, StackInv, DecodersAreOpen
<1>. QED
  BY <1>1, InvInit, InvStep, PTL DEF Spec

-----------------------------------------------------------------------------
(***************************************************************************)
(* The depth of the document counts the open elements: each of them is the *)
(* only one of its depth that has not ended, and nothing after its start   *)
(* is as shallow as it is.                                                 *)
(***************************************************************************)
LEMMA CountNext ==
  ASSUME NEW k \in Node, NEW S, NEW T, S \subseteq 1..(k - 1),
         T = S \/ T = S \cup {k}
  PROVE  /\ Cardinality(S) \in Nat
         /\ T = S \cup {k} => Cardinality(T) = Cardinality(S) + 1
<1>1. IsFiniteSet(1..(k - 1))
  BY FS_Interval DEF Node
<1>2. IsFiniteSet(S)
  BY <1>1, FS_Subset
<1>3. Cardinality(S) \in Nat
  BY <1>2, FS_CardinalityType
<1>4. k \notin S
  BY DEF Node
<1>5. Cardinality(S \cup {k}) = Cardinality(S) + 1
  BY <1>2, <1>4, FS_AddElement
<1>. QED
  BY <1>3, <1>5

LEMMA DepthStep ==
  ASSUME NEW k \in Node
  PROVE  /\ Depth(k) \in Int
         /\ IsStart(k) => Depth(k + 1) = Depth(k) + 1
         /\ file[k].op = "end" => Depth(k + 1) = Depth(k) - 1
         /\ ~IsStart(k) /\ file[k].op # "end" => Depth(k + 1) = Depth(k)
<1>1. PICK S : S = {j \in 1..(k - 1) : IsStart(j)}
  OBVIOUS
<1>2. PICK E : E = {j \in 1..(k - 1) : file[j].op = "end"}
  OBVIOUS
<1>3. PICK T : T = {j \in 1..k : IsStart(j)}
  OBVIOUS
<1>4. PICK F : F = {j \in 1..k : file[j].op = "end"}
  OBVIOUS
<1>5. 1..k = (1..(k - 1)) \cup {k} /\ (k + 1) - 1 = k
  BY DEF Node
<1>6. /\ IsStart(k) => T = S \cup {k} /\ F = E
      /\ file[k].op = "end" => T = S /\ F = E \cup {k}
      /\ ~IsStart(k) /\ file[k].op # "end" => T = S /\ F = E
  BY <1>1, <1>2, <1>3, <1>4, <1>5 DEF IsStart
<1>7. S \subseteq 1..(k - 1) /\ E \subseteq 1..(k - 1)
  BY <1>1, <1>2
<1>8. (T = S \/ T = S \cup {k}) /\ (F = E \/ F = E \cup {k})
  BY <1>6
<1>9. /\ Cardinality(S) \in Nat
      /\ T = S \cup {k} => Cardinality(T) = Cardinality(S) + 1
  BY <1>7, <1>8, CountNext
<1>10. /\ Cardinality(E) \in Nat
       /\ F = E \cup {k} => Cardinality(F) = Cardinality(E) + 1
  BY <1>7, <1>8, CountNext
<1>11. Depth(k) = Cardinality(S) - Cardinality(E)
  BY <1>1, <1>2 DEF Depth
<1>12. Depth(k + 1) = Cardinality(T) - Cardinality(F)
  BY <1>3, <1>4, <1>5 DEF Depth
<1>. QED
  BY <1>6, <1>9, <1>10, <1>11, <1>12

LEMMA DepthOne == Depth(1) = 0
<1>1. {j \in 1..(1 - 1) : IsStart(j)} = {} /\ {j \in 1..(1 - 1) : file[j].op = "end"} = {}
  OBVIOUS
<1>. QED
  BY <1>1, FS_EmptySet DEF Depth

(* The token k ends the element m.                                         *)
EndsAt(m, k) ==
  /\ file[k].op = "end" /\ Depth(k) = Depth(m) + 1
  /\ \A j \in (m + 1)..k : Depth(j) > Depth(m)

(* The elements o are those open before the token n.                       *)
Nested(n, o) ==
  /\ Depth(n) = Len(o)
  /\ \A j \in 1..n : Depth(j) >= 0
  /\ \A p \in DOMAIN o :
       /\ o[p] \in 1..(n - 1) /\ IsStart(o[p]) /\ Depth(o[p]) = p - 1
       /\ \A j \in (o[p] + 1)..n : Depth(j) >= p
  /\ \A m \in 1..(n - 1) : IsStart(m) =>
       m \in Range(o) \/ \E k \in m..(n - 1) : EndsAt(m, k)

NestInv == i - 1 \in 0..Len(file) /\ Nested(i, open)

(* What token n makes of the open elements o: those that stay open, and    *)
(* the element it starts; the others are closed before it or by it.        *)
OpenAfter(n, o, q) ==
  /\ \A p \in DOMAIN q :
       \/ p \in DOMAIN o /\ q[p] = o[p] /\ p <= Depth(n + 1)
       \/ p = Len(o) + 1 /\ q[p] = n /\ IsStart(n)
  /\ Depth(n + 1) = Len(q)
  /\ \A m \in 1..n : IsStart(m) /\ m \notin Range(q) =>
       \/ m # n /\ m \notin Range(o)
       \/ EndsAt(m, n)

LEMMA NestedNext ==
  ASSUME NEW n \in Node, NEW o \in Seq(Int), Nested(n, o), NEW q \in Seq(Int),
         OpenAfter(n, o, q)
  PROVE  Nested(n + 1, q)
<1>0. /\ \A p \in DOMAIN q :
           \/ p \in DOMAIN o /\ q[p] = o[p] /\ p <= Depth(n + 1)
           \/ p = Len(o) + 1 /\ q[p] = n /\ IsStart(n)
      /\ Depth(n + 1) = Len(q)
      /\ \A m \in 1..n : IsStart(m) /\ m \notin Range(q) =>
           \/ m # n /\ m \notin Range(o)
           \/ EndsAt(m, n)
  BY DEF OpenAfter
<1>1. /\ n \in Nat /\ n >= 1 /\ Len(q) \in Nat /\ Len(o) \in Nat
      /\ 1..(n + 1) = (1..n) \cup {n + 1} /\ (n + 1) - 1 = n
      /\ DOMAIN q = 1..Len(q) /\ DOMAIN o = 1..Len(o)
  BY DEF Node
<1>2. /\ Depth(n) = Len(o)
      /\ \A j \in 1..n : Depth(j) >= 0
      /\ \A p \in DOMAIN o :
           /\ o[p] \in 1..(n - 1) /\ IsStart(o[p]) /\ Depth(o[p]) = p - 1
           /\ \A j \in (o[p] + 1)..n : Depth(j) >= p
      /\ \A m \in 1..(n - 1) : IsStart(m) =>
           m \in Range(o) \/ \E k \in m..(n - 1) : EndsAt(m, k)
  BY DEF Nested
<1>3. \A j \in 1..(n + 1) : Depth(j) >= 0
  BY <1>0, <1>1, <1>2
<1>4. ASSUME NEW p \in DOMAIN q
      PROVE  /\ q[p] \in 1..n /\ IsStart(q[p]) /\ Depth(q[p]) = p - 1
             /\ \A j \in (q[p] + 1)..(n + 1) : Depth(j) >= p
  <2>1. CASE p \in DOMAIN o /\ q[p] = o[p] /\ p <= Depth(n + 1)
    <3>1. /\ o[p] \in 1..(n - 1) /\ IsStart(o[p]) /\ Depth(o[p]) = p - 1
          /\ \A j \in (o[p] + 1)..n : Depth(j) >= p
      BY <1>2, <2>1
    <3>2. \A j \in (o[p] + 1)..(n + 1) : j \in (o[p] + 1)..n \/ j = n + 1
      BY <1>1, <3>1
    <3>3. Depth(n + 1) >= p
      BY <1>0, <1>1, <2>1
    <3>4. o[p] \in 1..n
      BY <1>1, <3>1
    <3>. QED
      BY <2>1, <3>1, <3>2, <3>3, <3>4
  <2>2. CASE p = Len(o) + 1 /\ q[p] = n /\ IsStart(n)
    <3>1. Depth(n) = p - 1
      BY <1>1, <1>2, <2>2
    <3>2. Depth(n + 1) >= p
      BY <1>0, <1>1
    <3>3. \A j \in (n + 1)..(n + 1) : j = n + 1
      BY <1>1
    <3>. QED
      BY <1>1, <2>2, <3>1, <3>2, <3>3
  <2>. QED
    BY <1>0, <2>1, <2>2
<1>5. ASSUME NEW m \in 1..n, IsStart(m), m \notin Range(q)
      PROVE  \E k \in m..n : EndsAt(m, k)
  <2>1. CASE m # n /\ m \notin Range(o)
    <3>1. m \in 1..(n - 1)
      BY <1>1, <2>1
    <3>2. PICK k \in m..(n - 1) : EndsAt(m, k)
      BY <1>2, <1>5, <2>1, <3>1
    <3>3. k \in m..n
      BY <1>1
    <3>. QED
      BY <3>2, <3>3
  <2>2. CASE EndsAt(m, n)
    <3>1. n \in m..n
      BY <1>1
    <3>. QED
      BY <2>2, <3>1
  <2>. QED
    BY <1>0, <1>5, <2>1, <2>2
<1>. QED
  BY <1>0, <1>1, <1>3, <1>4, <1>5 DEF Nested

LEMMA NestedPush ==
  ASSUME NEW n \in Node, NEW o \in Seq(Int), Nested(n, o), IsStart(n)
  PROVE  Nested(n + 1, Append(o, n))
<1>1. PICK q : q = Append(o, n)
  OBVIOUS
<1>2. /\ n \in Int /\ Len(o) \in Nat /\ DOMAIN o = 1..Len(o)
      /\ q \in Seq(Int) /\ Len(q) = Len(o) + 1 /\ DOMAIN q = 1..(Len(o) + 1)
      /\ \A p \in 1..Len(o) : q[p] = o[p]
      /\ q[Len(o) + 1] = n
  BY <1>1 DEF Node
<1>3. Depth(n) = Len(o) /\ Depth(n + 1) = Len(o) + 1
  BY DepthStep DEF Nested
<1>4. \A p \in DOMAIN q :
        \/ p \in DOMAIN o /\ q[p] = o[p] /\ p <= Depth(n + 1)
        \/ p = Len(o) + 1 /\ q[p] = n /\ IsStart(n)
  BY <1>2, <1>3
<1>5. \A m \in Range(o) : m \in Range(q)
  BY <1>2 DEF Range
<1>6. n \in Range(q)
  BY <1>2 DEF Range
<1>7. \A m \in 1..n : IsStart(m) /\ m \notin Range(q) =>
        \/ m # n /\ m \notin Range(o)
        \/ EndsAt(m, n)
  BY <1>5, <1>6
<1>8. Nested(n + 1, q)
  <2>1. OpenAfter(n, o, q)
    BY <1>2, <1>3, <1>4, <1>7 DEF OpenAfter
  <2>. QED
    BY <1>2, <2>1, NestedNext
<1>. QED
  BY <1>1, <1>8

LEMMA LastEnds ==
  ASSUME NEW n \in Node, NEW o \in Seq(Int), Nested(n, o), file[n].op = "end", o # <<>>
  PROVE  EndsAt(Last(o), n)
<1>1. Len(o) \in Nat /\ Len(o) \in DOMAIN o /\ Last(o) = o[Len(o)]
  BY DEF Last
<1>2. /\ Depth(n) = Len(o) /\ Depth(Last(o)) = Len(o) - 1
      /\ Last(o) \in 1..(n - 1)
      /\ \A j \in (Last(o) + 1)..n : Depth(j) >= Len(o)
  BY <1>1 DEF Nested
<1>3. \A j \in (Last(o) + 1)..n : Depth(j) \in Int
  <2>1. \A j \in (Last(o) + 1)..n : j \in Node
    BY <1>2 DEF Node
  <2>. QED
    BY <2>1, DepthStep
<1>. QED
  BY <1>1, <1>2, <1>3 DEF EndsAt

LEMMA NestedPop ==
  ASSUME NEW n \in Node, NEW o \in Seq(Int), Nested(n, o), file[n].op = "end", o # <<>>,
         Range(Front(o)) = Range(o) \ {Last(o)}
  PROVE  Nested(n + 1, Front(o))
<1>1. PICK q : q = Front(o)
  BY ONLY o # <<>>
<1>2. /\ Len(o) \in Nat \ {0} /\ DOMAIN o = 1..Len(o)
      /\ q \in Seq(Int) /\ Len(q) = Len(o) - 1
      /\ \A p \in 1..(Len(o) - 1) : q[p] = o[p]
  <2>1. Len(o) \in Nat \ {0} /\ DOMAIN o = 1..Len(o)
    BY ONLY o \in Seq(Int), o # <<>>
  <2>. QED
    BY Zenon, <1>1, <2>1, FrontFacts
<1>3. DOMAIN q = 1..(Len(o) - 1)
  BY ONLY <1>2
<1>4. Depth(n) = Len(o) /\ Depth(n + 1) = Len(o) - 1
  BY DepthStep DEF Nested
<1>5. ASSUME NEW p \in DOMAIN q
      PROVE  p \in DOMAIN o /\ q[p] = o[p] /\ p <= Depth(n + 1)
  <2>1. p \in 1..(Len(o) - 1) /\ q[p] = o[p]
    BY ONLY <1>2, <1>3, <1>5
  <2>2. p \in 1..Len(o) /\ p <= Len(o) - 1
    BY ONLY <1>2, <2>1
  <2>. QED
    BY ONLY <1>2, <1>4, <2>1, <2>2
<1>6. EndsAt(Last(o), n)
  BY LastEnds
<1>7. ~IsStart(n)
  BY DEF IsStart
<1>8. \A m \in 1..n : IsStart(m) /\ m \notin Range(q) =>
        \/ m # n /\ m \notin Range(o)
        \/ EndsAt(m, n)
  BY <1>1, <1>6, <1>7
<1>9. Nested(n + 1, q)
  <2>1. OpenAfter(n, o, q)
    BY ONLY <1>2, <1>4, <1>5, <1>8 DEF OpenAfter
  <2>. QED
    BY <1>2, <2>1, NestedNext
<1>. QED
  BY <1>1, <1>9

LEMMA NestedSkip ==
  ASSUME NEW n \in Node, NEW o \in Seq(Int), Nested(n, o),
         ~IsStart(n), file[n].op # "end"
  PROVE  Nested(n + 1, o)
<1>1. Len(o) \in Nat /\ DOMAIN o = 1..Len(o)
  OBVIOUS
<1>2. Depth(n) = Len(o) /\ Depth(n + 1) = Len(o)
  BY DepthStep DEF Nested
<1>3. \A p \in DOMAIN o : p \in DOMAIN o /\ o[p] = o[p] /\ p <= Depth(n + 1)
  BY <1>1, <1>2
<1>4. \A m \in 1..n : IsStart(m) /\ m \notin Range(o) => m # n /\ m \notin Range(o)
  OBVIOUS
<1>5. OpenAfter(n, o, o)
  BY <1>2, <1>3, <1>4 DEF OpenAfter
<1>. QED
  BY <1>5, NestedNext

(* What a step does to the open elements.                                  *)
LEMMA Moves ==
  ASSUME Inv, [Next]_vars
  PROVE  /\ file' = file
         /\ \/ UNCHANGED <<i, open>>
            \/ /\ i' = i + 1 /\ i \in DOMAIN file
               /\ \/ IsStart(i) /\ open' = Append(open, i)
                  \/ file[i].op = "end" /\ open # <<>> /\ open' = Front(open)
                  \/ file[i].op = "text" /\ open' = open
<1>1. CASE StartHandled \/ StartUnhandled
  BY <1>1 DEF StartHandled, StartUnhandled, Reads, CanRead, Token, IsStart
<1>2. CASE EndHandled \/ EndUnhandled
  <2>1. Reads("end")
    BY <1>2 DEF EndHandled, EndUnhandled
  <2>2. ~Mismatched /\ Token.op = "end" /\ i' = i + 1 /\ i \in DOMAIN file /\ file' = file
    BY <2>1 DEF Reads, CanRead, SyntaxError
  <2>3. open # <<>>
    BY <2>2 DEF Mismatched
  <2>4. open' = Front(open)
    BY <1>2 DEF EndHandled, EndUnhandled
  <2>. QED
    BY <2>2, <2>3, <2>4 DEF Token
<1>3. CASE ReadText
  BY <1>3 DEF ReadText, Reads, CanRead, Token
<1>4. CASE StartPanics \/ Return \/ UNCHANGED vars
  BY <1>4 DEF StartPanics, Return, vars
<1>. QED
  BY <1>1, <1>2, <1>3, <1>4 DEF Next

LEMMA FrontRange ==
  ASSUME Inv, open # <<>>
  PROVE  /\ Range(Front(open)) = Range(open) \ {Last(open)}
         /\ Last(open) \in Range(open) /\ Last(open) \in Int
         /\ \A m \in Range(open) : m \in Int /\ m <= Last(open)
<1>1. open \in Seq(Int) /\ Increasing(open)
  BY DEF Inv, OpenInv
<1>2. \A m \in Range(open) : m \in Int
  BY <1>1 DEF Range
<1>. QED
  BY <1>1, <1>2, IncreasingFront

LEMMA FileSame ==
  ASSUME file' = file
  PROVE  /\ \A k : Depth(k)' = Depth(k) /\ IsStart(k)' = IsStart(k)
         /\ \A m, k : EndsAt(m, k)' = EndsAt(m, k)
         /\ \A n, o : Nested(n, o)' = Nested(n, o)
<1>1. \A k : IsStart(k)' = IsStart(k)
  BY DEF IsStart
<1>2. \A k : Depth(k)' = Depth(k)
  BY DEF Depth, IsStart
<1>3. \A m, k : EndsAt(m, k)' = EndsAt(m, k)
  BY <1>2 DEF EndsAt
<1>4. \A n, o : Nested(n, o)' = Nested(n, o)
  BY <1>1, <1>2, <1>3 DEF Nested, Range
<1>. QED
  BY <1>1, <1>2, <1>3, <1>4

LEMMA NestInit == Init => NestInv
<1>. SUFFICES ASSUME Init PROVE NestInv
  OBVIOUS
<1>1. i = 1 /\ open = <<>> /\ file \in Seq(Tokens)
  BY FileAssumption DEF Init, Begin, FileAssumption
<1>2. Depth(1) = Len(open) /\ \A j \in 1..1 : Depth(j) >= 0
  BY <1>1, DepthOne
<1>3. Nested(1, open)
  BY <1>1, <1>2 DEF Nested
<1>. QED
  BY <1>1, <1>3 DEF NestInv

LEMMA NestStep ==
  ASSUME Inv, NestInv, [Next]_vars
  PROVE  NestInv'
<1>1. /\ i \in Node /\ i \in Nat /\ open \in Seq(Int) /\ file \in Seq(Tokens)
      /\ i - 1 \in 0..Len(file) /\ Nested(i, open)
  BY DEF Inv, OpenInv, NestInv, Node
<1>2. file' = file
  BY Moves
<1>3. ASSUME i' - 1 \in 0..Len(file), Nested(i', open') PROVE NestInv'
  BY <1>2, <1>3, FileSame DEF NestInv
<1>4. CASE UNCHANGED <<i, open>>
  BY <1>1, <1>3, <1>4
<1>5. CASE i' = i + 1 /\ i \in DOMAIN file
  <2>1. i' - 1 \in 0..Len(file)
    BY <1>1, <1>5
  <2>2. CASE IsStart(i) /\ open' = Append(open, i)
    BY <1>1, <1>3, <1>5, <2>1, <2>2, NestedPush
  <2>3. CASE file[i].op = "end" /\ open # <<>> /\ open' = Front(open)
    BY <1>1, <1>3, <1>5, <2>1, <2>3, NestedPop, FrontRange
  <2>4. CASE file[i].op = "text" /\ open' = open
    <3>1. ~IsStart(i) /\ file[i].op # "end"
      BY <2>4 DEF IsStart
    <3>. QED
      BY <1>1, <1>3, <1>5, <2>1, <2>4, <3>1, NestedSkip
  <2>5. CASE open' = open /\ i' = i
    BY <1>1, <1>3, <2>5
  <2>. QED
    BY <1>5, <2>2, <2>3, <2>4, <2>5, Moves
<1>. QED
  BY <1>4, <1>5, Moves

-----------------------------------------------------------------------------
(***************************************************************************)
(* Inside an element, as far as the file was read, and outside again at    *)
(* its end.                                                                *)
(***************************************************************************)
Inside(m, k) == \A j \in (m + 1)..k : Depth(j) > Depth(m)

NoNesting ==
  \A m, k \in 1..(i - 1) :
    m < k /\ IsStart(m) /\ IsStart(k) /\ Inside(m, k) => file[m].name # file[k].name

LEMMA OpenInside ==
  ASSUME Inv, NestInv, NEW m \in Range(open)
  PROVE  m \in 1..(i - 1) /\ IsStart(m) /\ Inside(m, i)
<1>1. Nested(i, open) /\ i \in Node /\ open \in Seq(Int)
  BY DEF NestInv, Inv, OpenInv
<1>2. PICK p \in DOMAIN open : open[p] = m
  BY DEF Range
<1>3. /\ m \in 1..(i - 1) /\ IsStart(m) /\ Depth(m) = p - 1
      /\ \A j \in (m + 1)..i : Depth(j) >= p
  BY <1>1, <1>2 DEF Nested
<1>4. \A j \in (m + 1)..i : Depth(j) \in Int
  <2>1. \A j \in (m + 1)..i : j \in Node
    BY <1>1, <1>3 DEF Node
  <2>. QED
    BY <2>1, DepthStep
<1>5. p \in Int
  BY <1>1
<1>. QED
  BY <1>3, <1>4, <1>5 DEF Inside

LEMMA OutsideAfterEnd ==
  ASSUME NEW m \in Node, NEW k \in Node, m <= k, EndsAt(m, k), NEW l \in Node, k < l
  PROVE  ~Inside(m, l)
<1>1. Depth(k + 1) = Depth(k) - 1 /\ Depth(k) \in Int /\ Depth(m) \in Int
  BY DepthStep DEF EndsAt
<1>2. Depth(k + 1) = Depth(m)
  BY <1>1 DEF EndsAt
<1>3. k + 1 \in (m + 1)..l
  BY DEF Node
<1>. QED
  BY <1>1, <1>2, <1>3 DEF Inside

(* The end of an element is where EndOf looks for it.                      *)
LEMMA EndFound ==
  ASSUME NEW m \in Node, NEW k \in m..Len(file), EndsAt(m, k), file \in Seq(Tokens)
  PROVE  EndOf(m) = k
<1>1. PICK S : S = {j \in m..Len(file) : file[j].op = "end" /\ Depth(j) = Depth(m) + 1}
  OBVIOUS
<1>2. k \in S /\ k \in Node
  BY <1>1 DEF EndsAt, Node
<1>3. ASSUME NEW j \in S, j < k PROVE FALSE
  <2>1. j \in Node /\ m <= j /\ file[j].op = "end" /\ Depth(j) = Depth(m) + 1
    BY <1>1 DEF Node
  <2>2. Depth(m) \in Int /\ Depth(j + 1) = Depth(j) - 1
    BY <2>1, DepthStep
  <2>3. j + 1 \in (m + 1)..k
    BY <1>2, <1>3, <2>1 DEF Node
  <2>. QED
    BY <2>1, <2>2, <2>3 DEF EndsAt
<1>4. \A j \in S : j \in Int
  BY <1>1 DEF Node
<1>5. \A j \in S : k <= j
  BY <1>2, <1>3, <1>4
<1>6. \A x \in S : (\A y \in S : x <= y) => x = k
  BY <1>2, <1>4, <1>5
<1>7. Min(S) = k
  BY <1>2, <1>5, <1>6, Zenon DEF Min
<1>. QED
  BY <1>1, <1>7 DEF EndOf

(***************************************************************************)
(* What the tables of the decoders have in common.  The decoders that keep *)
(* tokens make no others, all of them make decoders of the tables, and     *)
(* those that do not report their attributes are few.                      *)
(***************************************************************************)
Kinds == In("core", DOMAIN CoreDecoders) \cup ExtNames
ElementKinds == Kinds \ {TopKind}

Silent == {"metadata", "metadatagroup", "vertices", "triangles", "any",
           "beams", "beamsets", "beamset", "top"}

(* The structs in lists that others are in.                                *)
IsGroup(d) == d.keeps = "end" \/ d.wraps = "last"

(* Which struct the decoder fills, and where its own is kept: a struct     *)
(* that is complete when its element ends is filled from inside it only.   *)
FillsTable(local, d) ==
  /\ d.keeps \in {"no", "start", "attr", "only", "end"}
  /\ d.keeps = "only" <=> d.field \in {"Mesh", "Components"}
  /\ IsGroup(d) => d.fills = "own" /\ d.keeps \in {"start", "end"}
  /\ d.fills \in {"own", "parent", "lattice", "model", "build", "resources"}
  /\ d.fills = "lattice" => local = "beamlattice" /\ d.field = "Any" /\ d.keeps = "start"
  /\ d.fills \in {"model", "build", "resources"} =>
       d.keeps = "no" /\ local \in {"top", "model", "build", "resources"}
  /\ \A l \in {"model", "build", "resources"} : <<"core", l>> \in d.children => d.fills = "model"
  /\ local = "metadata" => d.children = {} /\ d.creates = "none"

(* The levels of an error.  A decoder that adds none for what is inside    *)
(* its element fills the struct that the one below fills; a level without  *)
(* an index is that of a field with one struct.                            *)
PlainFields == {"Build", "Resources", "Any", "Mesh", "Components"}

PathTable(local, d) ==
  /\ d.wraps \in {"no", "plain", "next", "last"}
  /\ d.wraps = "no" /\ (d.children # {} \/ d.creates # "none") => d.fills \in {"parent", "model"}
  /\ d.wraps = "plain" =>
       \/ d.fills = "build" /\ d.field = "Build"
       \/ d.fills = "resources" /\ d.field = "Resources"
       \/ d.fills = "lattice"
       \/ d.fills = "own" /\ d.keeps = "only"
  /\ d.fills = "lattice" \/ d.keeps = "only" => d.wraps = "plain"
  /\ d.field = "Mesh" => local = "mesh"
  /\ d.field = "Components" => local = "components"
  /\ d.wraps \in {"next", "last"} => d.field \notin PlainFields
  /\ d.wraps = "next" => d.keeps = "end"
  /\ d.wraps = "last" => d.keeps = "start"
  /\ d.reports /\ d.level = "own" /\ d.wraps # "plain" =>
       d.keeps \in {"start", "attr", "end"} /\ d.fills = "own" /\ d.field \notin PlainFields
  /\ d.level = "own" \/ (d.level = "none" /\ local = "model") \/ local \in {"colorgroup", "multi"}
  /\ d.fills = "model" => local \in {"top", "model"}
  /\ <<"core", "model">> \in d.children => local = "top"
  /\ local = "model" => d.fills = "model"

FitsTable(local, d) ==
  /\ FillsTable(local, d)
  /\ PathTable(local, d)
  /\ d.captures => d.children = {} /\ d.creates = "none"
  /\ d.children \subseteq ElementKinds
  /\ d.creates \in {"none", "Model", "Mesh", "Resources"}
  /\ d.reports \/ local \in Silent
  /\ d.creates = "Model" => local = "model"

LEMMA CoreKinds ==
  /\ DOMAIN CoreDecoders =
    {"model", "metadatagroup", "metadata", "build", "item", "resources",
     "basematerials", "base", "mesh", "vertices", "vertex", "triangles",
     "triangle", "object", "components", "component", "top", "asset",
     "any"}
  /\ \A l \in DOMAIN CoreDecoders : l # "top" => <<"core", l>> \in ElementKinds
<1>1. DOMAIN CoreDecoders =
    {"model", "metadatagroup", "metadata", "build", "item", "resources",
     "basematerials", "base", "mesh", "vertices", "vertex", "triangles",
     "triangle", "object", "components", "component", "top", "asset",
     "any"}
  BY DEF CoreDecoders
<1>2. \A l \in DOMAIN CoreDecoders : <<"core", l>> \in Kinds
  BY DEF Kinds, ExtNames, In
<1>3. \A l \in DOMAIN CoreDecoders : l # "top" => <<"core", l>> # TopKind
  BY DEF TopKind
<1>. QED
  BY <1>1, <1>2, <1>3 DEF ElementKinds

LEMMA CoreFits == \A l \in DOMAIN CoreDecoders : FitsTable(l, CoreDecoders[l])
<1>1. FitsTable("model", modelDecoder)
  <2>1. FillsTable("model", modelDecoder) /\ PathTable("model", modelDecoder)
    BY DEF FillsTable, PathTable, PlainFields, IsGroup, modelDecoder, Plain, In
  <2>2. modelDecoder.children \subseteq ElementKinds
    BY CoreKinds DEF modelDecoder, Plain, In
  <2>. QED
    BY <2>1, <2>2 DEF FitsTable, modelDecoder, Plain, Silent
<1>2. FitsTable("metadatagroup", metadataGroupDecoder)
  <2>1. /\ FillsTable("metadatagroup", metadataGroupDecoder)
        /\ PathTable("metadatagroup", metadataGroupDecoder)
    BY DEF FillsTable, PathTable, PlainFields, IsGroup, metadataGroupDecoder, ListOf, Plain, In
  <2>2. metadataGroupDecoder.children \subseteq ElementKinds
    BY CoreKinds DEF metadataGroupDecoder, ListOf, Plain, In
  <2>. QED
    BY <2>1, <2>2 DEF FitsTable, metadataGroupDecoder, ListOf, Plain, Silent
<1>3. FitsTable("metadata", metadataDecoder)
  BY CoreKinds DEF FitsTable, FillsTable, PathTable, PlainFields, IsGroup, metadataDecoder, Group, Plain, In, Silent
<1>4. FitsTable("build", buildDecoder)
  BY CoreKinds DEF FitsTable, FillsTable, PathTable, PlainFields, IsGroup, buildDecoder, Plain, In, Silent
<1>5. FitsTable("item", buildItemDecoder)
  BY CoreKinds DEF FitsTable, FillsTable, PathTable, PlainFields, IsGroup, buildItemDecoder, Group, Plain, In, Silent
<1>6. FitsTable("resources", resourceDecoder)
  BY CoreKinds DEF FitsTable, FillsTable, PathTable, PlainFields, IsGroup, resourceDecoder, Plain, In, Silent
<1>7. FitsTable("basematerials", baseMaterialsDecoder)
  BY CoreKinds DEF FitsTable, FillsTable, PathTable, PlainFields, IsGroup, baseMaterialsDecoder, Group, Plain, In, Silent
<1>8. FitsTable("base", baseMaterialDecoder)
  BY CoreKinds DEF FitsTable, FillsTable, PathTable, PlainFields, IsGroup, baseMaterialDecoder, Entry, Plain, In, Silent
<1>9. FitsTable("mesh", meshDecoder)
  BY CoreKinds DEF FitsTable, FillsTable, PathTable, PlainFields, IsGroup, meshDecoder, Plain, In, Silent
<1>10. FitsTable("vertices", verticesDecoder)
  BY CoreKinds DEF FitsTable, FillsTable, PathTable, PlainFields, IsGroup, verticesDecoder, ListOf, Plain, In, Silent
<1>11. FitsTable("vertex", vertexDecoder)
  BY CoreKinds DEF FitsTable, FillsTable, PathTable, PlainFields, IsGroup, vertexDecoder, Entry, Plain, In, Silent
<1>12. FitsTable("triangles", trianglesDecoder)
  BY CoreKinds DEF FitsTable, FillsTable, PathTable, PlainFields, IsGroup, trianglesDecoder, ListOf, Plain, In, Silent
<1>13. FitsTable("triangle", triangleDecoder)
  BY CoreKinds DEF FitsTable, FillsTable, PathTable, PlainFields, IsGroup, triangleDecoder, Entry, Plain, In, Silent
<1>14. FitsTable("object", objectDecoder)
  BY CoreKinds DEF FitsTable, FillsTable, PathTable, PlainFields, IsGroup, objectDecoder, Group, Plain, In, Silent
<1>15. FitsTable("components", componentsDecoder)
  BY CoreKinds DEF FitsTable, FillsTable, PathTable, PlainFields, IsGroup, componentsDecoder, Plain, In, Silent
<1>16. FitsTable("component", componentDecoder)
  BY CoreKinds DEF FitsTable, FillsTable, PathTable, PlainFields, IsGroup, componentDecoder, Entry, Plain, In, Silent
<1>17. FitsTable("top", topLevelDecoder)
  BY CoreKinds DEF FitsTable, FillsTable, PathTable, PlainFields, IsGroup, topLevelDecoder, Plain, In, Silent
<1>18. FitsTable("asset", unknownAssetDecoder)
  BY CoreKinds DEF FitsTable, FillsTable, PathTable, PlainFields, IsGroup, unknownAssetDecoder, Group, Plain, In, Silent
<1>19. FitsTable("any", anyUnknownDecoder)
  BY CoreKinds DEF FitsTable, FillsTable, PathTable, PlainFields, IsGroup, anyUnknownDecoder, unknownAssetDecoder, Group, Plain, In, Silent
<1>. QED
  BY CoreKinds, <1>1, <1>2, <1>3, <1>4, <1>5, <1>6, <1>7, <1>8, <1>9,
     <1>10, <1>11, <1>12, <1>13, <1>14, <1>15, <1>16, <1>17, <1>18, <1>19
     DEF CoreDecoders

LEMMA MaterialsKinds ==
  /\ DOMAIN MaterialsDecoders =
    {"colorgroup", "color", "texture2dgroup", "tex2coord", "texture2d",
     "compositematerials", "composite", "multiproperties", "multi"}
  /\ \A l \in DOMAIN MaterialsDecoders : <<"materials", l>> \in ElementKinds
<1>1. DOMAIN MaterialsDecoders =
    {"colorgroup", "color", "texture2dgroup", "tex2coord", "texture2d",
     "compositematerials", "composite", "multiproperties", "multi"}
  BY DEF MaterialsDecoders
<1>2. \A l \in DOMAIN MaterialsDecoders : <<"materials", l>> \in Kinds
  BY DEF Kinds, ExtNames, In
<1>3. \A l \in DOMAIN MaterialsDecoders : <<"materials", l>> # TopKind
  BY DEF TopKind
<1>. QED
  BY <1>1, <1>2, <1>3 DEF ElementKinds

LEMMA MaterialsFits == \A l \in DOMAIN MaterialsDecoders : FitsTable(l, MaterialsDecoders[l])
<1>1. FitsTable("colorgroup", colorGroupDecoder)
  BY MaterialsKinds DEF FitsTable, FillsTable, PathTable, PlainFields, IsGroup, colorGroupDecoder, Group, Plain, In, Silent
<1>2. FitsTable("color", colorDecoder)
  BY MaterialsKinds DEF FitsTable, FillsTable, PathTable, PlainFields, IsGroup, colorDecoder, Entry, Plain, In, Silent
<1>3. FitsTable("texture2dgroup", tex2DGroupDecoder)
  BY MaterialsKinds DEF FitsTable, FillsTable, PathTable, PlainFields, IsGroup, tex2DGroupDecoder, Group, Plain, In, Silent
<1>4. FitsTable("tex2coord", tex2DCoordDecoder)
  BY MaterialsKinds DEF FitsTable, FillsTable, PathTable, PlainFields, IsGroup, tex2DCoordDecoder, Entry, Plain, In, Silent
<1>5. FitsTable("texture2d", texture2DDecoder)
  BY MaterialsKinds DEF FitsTable, FillsTable, PathTable, PlainFields, IsGroup, texture2DDecoder, Group, Plain, In, Silent
<1>6. FitsTable("compositematerials", compositeMaterialsDecoder)
  BY MaterialsKinds DEF FitsTable, FillsTable, PathTable, PlainFields, IsGroup, compositeMaterialsDecoder, Group, Plain, In, Silent
<1>7. FitsTable("composite", compositeDecoder)
  BY MaterialsKinds DEF FitsTable, FillsTable, PathTable, PlainFields, IsGroup, compositeDecoder, Entry, Plain, In, Silent
<1>8. FitsTable("multiproperties", multiPropertiesDecoder)
  BY MaterialsKinds DEF FitsTable, FillsTable, PathTable, PlainFields, IsGroup, multiPropertiesDecoder, Group, Plain, In, Silent
<1>9. FitsTable("multi", multiDecoder)
  BY MaterialsKinds DEF FitsTable, FillsTable, PathTable, PlainFields, IsGroup, multiDecoder, Entry, Plain, In, Silent
<1>. QED
  BY MaterialsKinds, <1>1, <1>2, <1>3, <1>4, <1>5, <1>6, <1>7, <1>8, <1>9
     DEF MaterialsDecoders

LEMMA SlicesKinds ==
  /\ DOMAIN SlicesDecoders =
    {"slicestack", "sliceref", "slice", "vertices", "vertex", "polygon",
     "segment"}
  /\ \A l \in DOMAIN SlicesDecoders : <<"slices", l>> \in ElementKinds
<1>1. DOMAIN SlicesDecoders =
    {"slicestack", "sliceref", "slice", "vertices", "vertex", "polygon",
     "segment"}
  BY DEF SlicesDecoders
<1>2. \A l \in DOMAIN SlicesDecoders : <<"slices", l>> \in Kinds
  BY DEF Kinds, ExtNames, In
<1>3. \A l \in DOMAIN SlicesDecoders : <<"slices", l>> # TopKind
  BY DEF TopKind
<1>. QED
  BY <1>1, <1>2, <1>3 DEF ElementKinds

LEMMA SlicesFits == \A l \in DOMAIN SlicesDecoders : FitsTable(l, SlicesDecoders[l])
<1>1. FitsTable("slicestack", sliceStackDecoder)
  BY SlicesKinds DEF FitsTable, FillsTable, PathTable, PlainFields, IsGroup, sliceStackDecoder, Group, Plain, In, Silent
<1>2. FitsTable("sliceref", sliceRefDecoder)
  BY SlicesKinds DEF FitsTable, FillsTable, PathTable, PlainFields, IsGroup, sliceRefDecoder, Entry, Plain, In, Silent
<1>3. FitsTable("slice", sliceDecoder)
  BY SlicesKinds DEF FitsTable, FillsTable, PathTable, PlainFields, IsGroup, sliceDecoder, Group, Plain, In, Silent
<1>4. FitsTable("vertices", polygonVerticesDecoder)
  BY SlicesKinds DEF FitsTable, FillsTable, PathTable, PlainFields, IsGroup, polygonVerticesDecoder, ListOf, Plain, In, Silent
<1>5. FitsTable("vertex", polygonVertexDecoder)
  BY SlicesKinds DEF FitsTable, FillsTable, PathTable, PlainFields, IsGroup, polygonVertexDecoder, Entry, Plain, In, Silent
<1>6. FitsTable("polygon", polygonDecoder)
  BY SlicesKinds DEF FitsTable, FillsTable, PathTable, PlainFields, IsGroup, polygonDecoder, Entry, Plain, In, Silent
<1>7. FitsTable("segment", polygonSegmentDecoder)
  BY SlicesKinds DEF FitsTable, FillsTable, PathTable, PlainFields, IsGroup, polygonSegmentDecoder, Entry, Plain, In, Silent
<1>. QED
  BY SlicesKinds, <1>1, <1>2, <1>3, <1>4, <1>5, <1>6, <1>7 DEF
     SlicesDecoders

LEMMA LatticeKinds ==
  /\ DOMAIN LatticeDecoders =
    {"beamlattice", "beams", "beam", "beamsets", "beamset", "ref"}
  /\ \A l \in DOMAIN LatticeDecoders : <<"beamlattice", l>> \in ElementKinds
<1>1. DOMAIN LatticeDecoders =
    {"beamlattice", "beams", "beam", "beamsets", "beamset", "ref"}
  BY DEF LatticeDecoders
<1>2. \A l \in DOMAIN LatticeDecoders : <<"beamlattice", l>> \in Kinds
  BY DEF Kinds, ExtNames, In
<1>3. \A l \in DOMAIN LatticeDecoders : <<"beamlattice", l>> # TopKind
  BY DEF TopKind
<1>. QED
  BY <1>1, <1>2, <1>3 DEF ElementKinds

LEMMA LatticeFits == \A l \in DOMAIN LatticeDecoders : FitsTable(l, LatticeDecoders[l])
<1>1. FitsTable("beamlattice", beamLatticeDecoder)
  BY LatticeKinds DEF FitsTable, FillsTable, PathTable, PlainFields, IsGroup, beamLatticeDecoder, Entry, Plain, In, Silent
<1>2. FitsTable("beams", beamsDecoder)
  BY LatticeKinds DEF FitsTable, FillsTable, PathTable, PlainFields, IsGroup, beamsDecoder, ListOf, Plain, In, Silent
<1>3. FitsTable("beam", beamDecoder)
  BY LatticeKinds DEF FitsTable, FillsTable, PathTable, PlainFields, IsGroup, beamDecoder, Entry, Plain, In, Silent
<1>4. FitsTable("beamsets", beamSetsDecoder)
  BY LatticeKinds DEF FitsTable, FillsTable, PathTable, PlainFields, IsGroup, beamSetsDecoder, ListOf, Plain, In, Silent
<1>5. FitsTable("beamset", beamSetDecoder)
  BY LatticeKinds DEF FitsTable, FillsTable, PathTable, PlainFields, IsGroup, beamSetDecoder, Group, Plain, In, Silent
<1>6. FitsTable("ref", beamRefDecoder)
  BY LatticeKinds DEF FitsTable, FillsTable, PathTable, PlainFields, IsGroup, beamRefDecoder, Entry, Plain, In, Silent
<1>. QED
  BY LatticeKinds, <1>1, <1>2, <1>3, <1>4, <1>5, <1>6 DEF LatticeDecoders

LEMMA DecoderFits == \A kind \in Kinds : FitsTable(kind[2], DecoderOf(kind))
<1>1. ASSUME NEW l \in DOMAIN CoreDecoders PROVE FitsTable(l, DecoderOf(<<"core", l>>))
  BY CoreFits DEF DecoderOf
<1>2. ASSUME NEW l \in DOMAIN MaterialsDecoders PROVE FitsTable(l, DecoderOf(<<"materials", l>>))
  BY MaterialsFits DEF DecoderOf
<1>3. ASSUME NEW l \in DOMAIN SlicesDecoders PROVE FitsTable(l, DecoderOf(<<"slices", l>>))
  BY SlicesFits DEF DecoderOf
<1>4. ASSUME NEW l \in DOMAIN LatticeDecoders PROVE FitsTable(l, DecoderOf(<<"beamlattice", l>>))
  BY LatticeFits DEF DecoderOf
<1>. QED
  BY <1>1, <1>2, <1>3, <1>4 DEF Kinds, ExtNames, In

(* Child makes decoders of the tables, and none below one that keeps the   *)
(* tokens inside its element.                                              *)
LEMMA HandledKinds ==
  ASSUME NEW kind \in Kinds, NEW name \in Names, Handles(kind, name)
  PROVE  ~DecoderOf(kind).captures /\ ChildKind(kind, name) \in ElementKinds
<1>1. FitsTable(kind[2], DecoderOf(kind))
  BY DecoderFits
<1>2. ~DecoderOf(kind).captures
  BY <1>1 DEF FitsTable, Handles
<1>3. CASE name[1] = "unknown"
  <2>1. name \notin ElementKinds
    BY <1>3 DEF ElementKinds, Kinds, ExtNames, In
  <2>2. DecoderOf(kind).creates \in {"Model", "Mesh", "Resources"}
    BY <1>1, <2>1 DEF FitsTable, Handles
  <2>3. <<"core", "any">> \in ElementKinds /\ <<"core", "asset">> \in ElementKinds
    BY CoreKinds
  <2>. QED
    BY <1>2, <1>3, <2>2, <2>3 DEF ChildKind, Unknown
<1>4. CASE name[1] # "unknown"
  <2>1. CASE name \in DecoderOf(kind).children
    BY <1>1, <1>2, <1>4, <2>1 DEF FitsTable, ChildKind
  <2>2. CASE name \notin DecoderOf(kind).children
    <3>1. Asserted(name) # "none"
      BY <1>4, <2>2 DEF Handles
    <3>2. name \in MaterialsCreates \cup SlicesCreates \cup LatticeCreates
      BY <3>1 DEF Asserted
    <3>3. MaterialsCreates \cup SlicesCreates \cup LatticeCreates \subseteq ElementKinds
      BY MaterialsKinds, SlicesKinds, LatticeKinds DEF MaterialsCreates, SlicesCreates, LatticeCreates, In
    <3>. QED
      BY <1>2, <1>4, <3>2, <3>3 DEF ChildKind
  <2>. QED
    BY <2>1, <2>2
<1>. QED
  BY <1>3, <1>4

-----------------------------------------------------------------------------
(***************************************************************************)
(* Only the decoder on top keeps tokens, those of its element up to here;  *)
(* whatever else was kept has ended.                                       *)
(***************************************************************************)
KindInv ==
  /\ \A k \in 1..Len(stack) : stack[k].kind \in Kinds
  /\ \A k \in 1..(Len(stack) - 1) : ~DecoderOf(stack[k].kind).captures

Piece(n, k) == [j \in 1..(k - n + 1) |-> n + j - 1]

CaptureInv ==
  /\ \A n \in DOMAIN captured : n \in 1..(i - 1)
  /\ Captures => Top.node \in DOMAIN captured
  /\ NoNesting => \A n \in DOMAIN captured :
       \/ n = Top.node /\ Captures /\ captured[n] = Piece(n, i - 1)
       \/ \E k \in n..(i - 1) : EndsAt(n, k) /\ captured[n] = Piece(n, k)

LEMMA TopKeepsNone == TopKind \in Kinds /\ ~DecoderOf(TopKind).captures
<1>1. TopKind \in Kinds
  BY CoreKinds DEF TopKind, Kinds, In
<1>2. DecoderOf(TopKind) = topLevelDecoder
  BY DEF DecoderOf, TopKind, CoreDecoders
<1>3. ~topLevelDecoder.captures
  BY DEF topLevelDecoder, Plain
<1>. QED
  BY <1>1, <1>2, <1>3

LEMMA TopPushed ==
  ASSUME Inv, NEW d, d.node \in Nat, stack' = Append(stack, d)
  PROVE  /\ Top' = d /\ Len(stack') = Len(stack) + 1
         /\ \A k \in 1..Len(stack) : stack'[k] = stack[k]
<1>1. DecoderSeq(stack) /\ stack # <<>> /\ Len(stack) \in Nat
  BY StackFacts
<1>2. /\ Len(Append(stack, d)) = Len(stack) + 1
      /\ \A k \in 1..Len(stack) : Append(stack, d)[k] = stack[k]
      /\ Append(stack, d)[Len(stack) + 1] = d
  BY <1>1, NodesAppend
<1>3. Top' = stack'[Len(stack')]
  BY DEF Top, Last
<1>. QED
  BY <1>2, <1>3

LEMMA TopPopped ==
  ASSUME Inv, Len(stack) > 1, stack' = Front(stack)
  PROVE  /\ Top' = stack[Len(stack) - 1] /\ Len(stack') = Len(stack) - 1
         /\ \A k \in 1..(Len(stack) - 1) : stack'[k] = stack[k]
<1>1. DecoderSeq(stack) /\ stack # <<>> /\ Len(stack) \in Nat
  BY StackFacts
<1>2. /\ Len(Front(stack)) = Len(stack) - 1
      /\ \A k \in 1..(Len(stack) - 1) : Front(stack)[k] = stack[k]
  BY <1>1, NodesFront
<1>3. Top' = stack'[Len(stack')]
  BY DEF Top, Last
<1>4. Len(stack) - 1 \in 1..(Len(stack) - 1)
  BY <1>1
<1>. QED
  BY <1>2, <1>3, <1>4

LEMMA KindOfTop ==
  ASSUME Inv, KindInv
  PROVE  Top.kind \in Kinds
<1>1. Top = stack[Len(stack)] /\ Len(stack) \in Nat \ {0}
  BY StackFacts
<1>2. Len(stack) \in 1..Len(stack)
  BY <1>1
<1>. QED
  BY <1>1, <1>2 DEF KindInv

(* An end element that closes the decoder on top.                          *)
LEMMA ClosesDecoder ==
  ASSUME Inv, EndHandled
  PROVE  /\ open # <<>> /\ Len(stack) > 1
         /\ file[Last(open)].name = Top.name /\ file[i].op = "end"
         /\ i' = i + 1 /\ file' = file
<1>1. /\ i' = i + 1 /\ file' = file /\ ~Mismatched
      /\ Token.op = "end" /\ Token.name # <<"", "">> /\ Top.name = Token.name
  BY ReadsToken DEF EndHandled, Closes
<1>2. open # <<>> /\ file[Last(open)].name = Top.name
  BY <1>1 DEF Mismatched
<1>3. Len(stack) \in Nat \ {0} /\ Top = stack[Len(stack)]
  BY StackFacts
<1>4. stack[1].name = <<"", "">>
  BY DEF Inv, StackInv
<1>5. Len(stack) # 1
  BY <1>1, <1>3, <1>4, Zenon
<1>6. \A n \in Nat \ {0} : n # 1 => n > 1
  OBVIOUS
<1>7. Len(stack) > 1
  BY <1>3, <1>5, <1>6, Zenon
<1>. QED
  BY <1>1, <1>2, <1>7 DEF Token

(* What a step does to the stack.                                          *)
LEMMA StackMoves ==
  ASSUME Inv, [Next]_vars
  PROVE  \/ StartHandled \/ EndHandled
         \/ (StartUnhandled \/ EndUnhandled \/ ReadText) /\ stack' = stack
         \/ UNCHANGED <<file, i, open, stack, captured>>
  BY DEF Next, vars, StartUnhandled, EndUnhandled, ReadText, StartPanics, Return

LEMMA KindStep ==
  ASSUME Inv, KindInv, [Next]_vars
  PROVE  KindInv'
<1>1. CASE StartHandled
  <2>1. Token.name \in Names /\ Handles(Top.kind, Token.name) /\ i \in Node
    BY <1>1, ReadsToken DEF StartHandled
  <2>2. ~DecoderOf(Top.kind).captures /\ ChildKind(Top.kind, Token.name) \in Kinds
    BY <2>1, KindOfTop, HandledKinds DEF ElementKinds
  <2>3. PICK d : /\ stack' = Append(stack, d) /\ d.node = i
                 /\ d.kind = ChildKind(Top.kind, Token.name)
    <3>. DEFINE d == [kind |-> ChildKind(Top.kind, Token.name), name |-> Token.name,
                      node |-> i, parent |-> Top.fills,
                      fills |-> Fills(ChildKind(Top.kind, Token.name), i, Top.fills)]
    <3>1. stack' = Append(stack, d)
      BY <1>1 DEF StartHandled
    <3>2. d.node = i /\ d.kind = ChildKind(Top.kind, Token.name)
      OBVIOUS
    <3>. HIDE DEF d
    <3>. QED
      BY <3>1, <3>2
  <2>4. d.node \in Nat
    BY <2>1, <2>3 DEF Node
  <2>5. /\ Top' = d /\ Len(stack') = Len(stack) + 1
        /\ \A k \in 1..Len(stack) : stack'[k] = stack[k]
    BY <2>3, <2>4, TopPushed
  <2>6. stack'[Len(stack) + 1] = d /\ Len(stack) \in Nat
    BY <2>5, StackFacts DEF Top, Last
  <2>7. \A k \in 1..Len(stack) : ~DecoderOf(stack[k].kind).captures
    <3>1. \A k \in 1..Len(stack) : k \in 1..(Len(stack) - 1) \/ k = Len(stack)
      BY <2>6
    <3>. QED
      BY <2>2, <3>1, StackFacts DEF KindInv
  <2>8. \A k \in 1..(Len(stack) + 1) : k \in 1..Len(stack) \/ k = Len(stack) + 1
    BY <2>6
  <2>9. \A k \in 1..Len(stack') : stack'[k].kind \in Kinds
    BY <2>2, <2>3, <2>5, <2>6, <2>8 DEF KindInv
  <2>10. Len(stack') - 1 = Len(stack)
    BY <2>5, <2>6
  <2>11. \A k \in 1..(Len(stack') - 1) : ~DecoderOf(stack'[k].kind).captures
    BY <2>5, <2>7, <2>10
  <2>. QED
    BY <2>9, <2>11 DEF KindInv
<1>2. CASE EndHandled
  <2>1. Len(stack) > 1 /\ Len(stack) \in Nat /\ stack' = Front(stack)
    BY <1>2, ClosesDecoder, StackFacts DEF EndHandled
  <2>2. Len(stack') = Len(stack) - 1 /\ \A k \in 1..(Len(stack) - 1) : stack'[k] = stack[k]
    BY <2>1, TopPopped
  <2>3. \A k \in 1..(Len(stack) - 1) : k \in 1..Len(stack)
    BY <2>1
  <2>4. \A k \in 1..(Len(stack') - 1) : k \in 1..(Len(stack) - 1)
    BY <2>1, <2>2
  <2>. QED
    BY <2>2, <2>3, <2>4 DEF KindInv
<1>3. CASE stack' = stack
  BY <1>3 DEF KindInv
<1>. QED
  BY <1>1, <1>2, <1>3, StackMoves

LEMMA PieceOne == ASSUME NEW n \in Node PROVE <<n>> = Piece(n, n)
<1>1. 1..(n - n + 1) = 1..1 /\ \A j \in 1..1 : n + j - 1 = n
  BY DEF Node
<1>2. Piece(n, n) = [j \in 1..1 |-> n]
  BY <1>1 DEF Piece
<1>. QED
  BY <1>2

LEMMA PieceNext ==
  ASSUME NEW n \in Node, NEW k \in Node, n < k
  PROVE  Append(Piece(n, k - 1), k) = Piece(n, k)
<1>1. n \in Nat /\ k \in Nat
  BY DEF Node
<1>2. PICK l \in Nat : l = k - n
  BY <1>1
<1>3. (k - 1) - n + 1 = l /\ k - n + 1 = l + 1 /\ n + (l + 1) - 1 = k
  BY <1>1, <1>2
<1>4. PICK s : s = Piece(n, k - 1)
  OBVIOUS
<1>5. s = [j \in 1..l |-> n + j - 1]
  BY <1>3, <1>4 DEF Piece
<1>6. s \in Seq(Int) /\ Len(s) = l /\ \A j \in 1..l : s[j] = n + j - 1
  BY <1>1, <1>2, <1>5
<1>7. PICK t : t = Piece(n, k)
  OBVIOUS
<1>8. t = [j \in 1..(l + 1) |-> n + j - 1]
  BY <1>3, <1>7 DEF Piece
<1>9. t \in Seq(Int) /\ Len(t) = l + 1 /\ \A j \in 1..(l + 1) : t[j] = n + j - 1
  BY <1>1, <1>2, <1>8
<1>10. PICK u : u = Append(s, k)
  OBVIOUS
<1>11. /\ u \in Seq(Int) /\ Len(u) = l + 1
       /\ \A j \in 1..l : u[j] = s[j]
       /\ u[l + 1] = k
  BY <1>1, <1>6, <1>10
<1>12. \A j \in 1..(l + 1) : u[j] = t[j]
  <2>1. \A j \in 1..(l + 1) : j \in 1..l \/ j = l + 1
    BY <1>2
  <2>2. l + 1 \in 1..(l + 1)
    BY <1>2
  <2>3. t[l + 1] = k
    BY <1>3, <1>9, <2>2
  <2>4. \A j \in 1..l : j \in 1..(l + 1)
    BY <1>2
  <2>. QED
    BY <1>6, <1>9, <1>11, <2>1, <2>3, <2>4
<1>13. u = t
  BY <1>9, <1>11, <1>12, IntSeqEqual
<1>. QED
  BY <1>4, <1>7, <1>10, <1>13

(* A decoder that some element made is that of an open one.                *)
LEMMA TopOpen ==
  ASSUME Inv, Len(stack) > 1
  PROVE  /\ Top.node \in Range(open) /\ Top.node \in Node
         /\ Top.node < i /\ Top.name = file[Top.node].name
<1>1. /\ DecoderSeq(stack) /\ stack # <<>> /\ Len(stack) \in Nat \ {0}
      /\ Top = stack[Len(stack)]
      /\ Nodes(stack) \in Seq(Int) /\ Len(Nodes(stack)) = Len(stack) - 1
  BY StackFacts
<1>2. Len(stack) \in 2..Len(stack)
      /\ Len(stack) - 1 \in 1..(Len(stack) - 1) /\ (Len(stack) - 1) + 1 = Len(stack)
  BY <1>1
<1>3. Top.name = file[Top.node].name
  BY <1>1, <1>2 DEF Inv, StackInv
<1>4. Nodes(stack)[Len(stack) - 1] = Top.node /\ Len(stack) - 1 \in DOMAIN Nodes(stack)
  BY <1>1, <1>2 DEF Nodes
<1>5. Top.node \in Range(Nodes(stack))
  BY <1>4 DEF Range
<1>6. Top.node \in Range(open)
  BY <1>5 DEF Inv, StackInv
<1>7. PICK p \in DOMAIN open : open[p] = Top.node
  BY <1>6 DEF Range
<1>. QED
  BY <1>3, <1>6, <1>7 DEF Inv, OpenInv

LEMMA CapturingOpen ==
  ASSUME Inv, KindInv, Captures
  PROVE  /\ Len(stack) > 1 /\ Top.node \in Range(open) /\ Top.node \in Node
         /\ Top.node < i /\ Top.name = file[Top.node].name
<1>1. Len(stack) \in Nat \ {0} /\ Top = stack[Len(stack)]
  BY StackFacts
<1>2. Len(stack) # 1
  BY <1>1, TopKeepsNone DEF Captures, Inv, StackInv
<1>3. Len(stack) > 1
  <2>1. PICK n \in Nat \ {0} : n = Len(stack)
    BY <1>1
  <2>. QED
    BY ONLY <1>2, <2>1
<1>. QED
  BY <1>3, TopOpen

(* What is kept is kept to the token before this one; and with this one it *)
(* is kept to here.                                                        *)
LEMMA CapturedSoFar ==
  ASSUME Inv, NestInv, KindInv, CaptureInv, NoNesting, Captures
  PROVE  captured[Top.node] = Piece(Top.node, i - 1)
<1>1. Top.node \in Range(open) /\ Top.node \in Node /\ Top.node \in DOMAIN captured
  BY CapturingOpen DEF CaptureInv
<1>2. Inside(Top.node, i) /\ i \in Node
  BY <1>1, OpenInside DEF Inv, OpenInv
<1>3. ASSUME NEW k \in Top.node..(i - 1), EndsAt(Top.node, k) PROVE FALSE
  <2>1. k \in Node /\ Top.node <= k /\ k < i
    BY <1>1, <1>2 DEF Node
  <2>. QED
    BY <1>1, <1>2, <1>3, <2>1, OutsideAfterEnd
<1>. QED
  BY <1>1, <1>3 DEF CaptureInv

LEMMA CaptureTop ==
  ASSUME Inv, NestInv, KindInv, CaptureInv, Captures,
         captured' = Capture(Top.node, i)
  PROVE  /\ DOMAIN captured' = DOMAIN captured
         /\ NoNesting => captured'[Top.node] = Piece(Top.node, i)
         /\ \A n \in DOMAIN captured : n # Top.node => captured'[n] = captured[n]
<1>1. Top.node \in DOMAIN captured /\ Top.node \in Node /\ Top.node < i /\ i \in Node
  BY CapturingOpen DEF CaptureInv, Inv, OpenInv
<1>2. DOMAIN captured' = DOMAIN captured
  BY <1>1 DEF Capture
<1>3. captured'[Top.node] = Append(captured[Top.node], i)
  BY <1>1 DEF Capture
<1>4. \A n \in DOMAIN captured : n # Top.node => captured'[n] = captured[n]
  BY <1>1 DEF Capture
<1>5. NoNesting => captured'[Top.node] = Piece(Top.node, i)
  BY <1>1, <1>3, CapturedSoFar, PieceNext
<1>. QED
  BY <1>2, <1>4, <1>5

(* When no name nests, what closes a decoder is the end of its element.    *)
LEMMA ClosesItsOwn ==
  ASSUME Inv, NestInv, NoNesting, EndHandled
  PROVE  Top.node = Last(open) /\ EndsAt(Top.node, i)
<1>1. /\ open # <<>> /\ file[Last(open)].name = Top.name /\ file[i].op = "end"
  BY ClosesDecoder
<1>2. /\ Top.node \in Range(open) /\ Top.node \in Node
      /\ Top.name = file[Top.node].name
  BY ClosesDecoder, TopOpen
<1>3. /\ Last(open) \in Range(open) /\ Last(open) \in Int
      /\ Top.node \in Int /\ Top.node <= Last(open)
  BY <1>1, <1>2, FrontRange
<1>4. Top.node = Last(open)
  <2>1. /\ Top.node \in 1..(i - 1) /\ IsStart(Top.node) /\ Inside(Top.node, i)
        /\ Last(open) \in 1..(i - 1) /\ IsStart(Last(open))
    BY <1>2, <1>3, OpenInside
  <2>2. Inside(Top.node, Last(open))
    <3>1. \A j \in (Top.node + 1)..Last(open) : j \in (Top.node + 1)..i
      BY <1>3, <2>1 DEF Inv, OpenInv, Node
    <3>. QED
      BY <2>1, <3>1 DEF Inside
  <2>3. ~(Top.node < Last(open))
    BY <1>1, <1>2, <2>1, <2>2 DEF NoNesting
  <2>. QED
    BY <1>3, <2>3
<1>5. EndsAt(Last(open), i)
  BY <1>1, LastEnds DEF Inv, OpenInv, NestInv
<1>. QED
  BY <1>4, <1>5

LEMMA NoNestingBefore ==
  ASSUME Inv, file' = file, i' = i \/ i' = i + 1, NoNesting'
  PROVE  NoNesting
<1>1. \A k \in 1..(i - 1) : k \in 1..(i' - 1)
  BY DEF Inv, OpenInv, Node
<1>2. \A k : IsStart(k)' = IsStart(k)
  BY FileSame
<1>3. \A m, k : Inside(m, k)' = Inside(m, k)
  BY FileSame DEF Inside
<1>4. \A m, k \in 1..(i' - 1) :
        m < k /\ IsStart(m) /\ IsStart(k) /\ Inside(m, k) => file[m].name # file[k].name
  BY <1>2, <1>3 DEF NoNesting
<1>. QED
  BY <1>1, <1>4 DEF NoNesting

(* What was kept of an element that has ended.                             *)
Complete(n) == \E k \in n..(i - 1) : EndsAt(n, k) /\ captured[n] = Piece(n, k)

LEMMA CompleteStays ==
  ASSUME Inv, file' = file, i' = i + 1, NEW n \in Node, Complete(n),
         captured'[n] = captured[n]
  PROVE  Complete(n)'
<1>1. PICK k \in n..(i - 1) : EndsAt(n, k) /\ captured[n] = Piece(n, k)
  BY DEF Complete
<1>2. k \in n..(i' - 1)
  BY DEF Inv, OpenInv, Node
<1>3. EndsAt(n, k)' /\ Piece(n, k)' = Piece(n, k)
  BY <1>1, FileSame DEF Piece
<1>. QED
  BY <1>1, <1>2, <1>3 DEF Complete

LEMMA CaptureStep ==
  ASSUME Inv, NestInv, KindInv, CaptureInv, [Next]_vars
  PROVE  CaptureInv'
<1>0. /\ i \in Node /\ file' = file /\ (i' = i \/ i' = i + 1)
      /\ \A n \in DOMAIN captured : n \in 1..(i - 1) /\ n \in Node
  BY Moves DEF Inv, OpenInv, CaptureInv, Node
<1>1. NoNesting' => NoNesting
  BY <1>0, NoNestingBefore
<1>2. NoNesting => \A n \in DOMAIN captured :
        \/ n = Top.node /\ Captures /\ captured[n] = Piece(n, i - 1)
        \/ Complete(n)
  BY DEF CaptureInv, Complete
<1>3. SUFFICES /\ \A n \in DOMAIN captured' : n \in 1..(i' - 1)
               /\ Captures' => Top'.node \in DOMAIN captured'
               /\ NoNesting => \A n \in DOMAIN captured' :
                    \/ n = Top'.node /\ Captures' /\ captured'[n] = Piece(n, i' - 1)
                    \/ Complete(n)'
  BY <1>1 DEF CaptureInv, Complete, Piece
<1>4. CASE StartHandled
  <2>1. Token.name \in Names /\ Handles(Top.kind, Token.name) /\ i' = i + 1
    BY <1>4, ReadsToken DEF StartHandled
  <2>2. ~Captures
    BY <2>1, KindOfTop, HandledKinds DEF Captures
  <2>3. PICK d : /\ stack' = Append(stack, d) /\ d.node = i
                 /\ captured' = IF DecoderOf(d.kind).captures THEN Capture(i, i) ELSE captured
    <3>. DEFINE kind == ChildKind(Top.kind, Token.name)
                d == [kind |-> kind, name |-> Token.name,
                      node |-> i, parent |-> Top.fills,
                      fills |-> Fills(kind, i, Top.fills)]
    <3>1. /\ stack' = Append(stack, d)
          /\ captured' = IF DecoderOf(kind).captures THEN Capture(i, i) ELSE captured
      BY <1>4 DEF StartHandled
    <3>2. d.node = i /\ d.kind = kind
      OBVIOUS
    <3>. HIDE DEF d, kind
    <3>. QED
      BY <3>1, <3>2
  <2>4. Top' = d
    BY <1>0, <2>3, TopPushed DEF Node
  <2>5. Captures' = DecoderOf(d.kind).captures
    BY <2>4 DEF Captures
  <2>6. i \notin DOMAIN captured /\ i - 1 \in Int /\ i \in 1..i /\ i' - 1 = i
        /\ 1..(i - 1) \subseteq 1..i
    BY <1>0, <2>1 DEF Node
  <2>7. CASE DecoderOf(d.kind).captures
    <3>1. /\ DOMAIN captured' = DOMAIN captured \cup {i}
          /\ captured'[i] = <<i>>
          /\ \A n \in DOMAIN captured : captured'[n] = captured[n]
      BY <2>3, <2>6, <2>7 DEF Capture
    <3>2. captured'[i] = Piece(i, i' - 1)
      BY <1>0, <2>6, <3>1, PieceOne
    <3>3. \A n \in DOMAIN captured : NoNesting => Complete(n)'
      BY <1>0, <1>2, <2>1, <2>2, <3>1, CompleteStays
    <3>4. \A n \in DOMAIN captured' : n \in 1..(i' - 1)
      BY <1>0, <2>6, <3>1
    <3>. QED
      BY <2>3, <2>4, <2>5, <2>7, <3>1, <3>2, <3>3, <3>4
  <2>8. CASE ~DecoderOf(d.kind).captures
    <3>1. captured' = captured
      BY <2>3, <2>8
    <3>2. \A n \in DOMAIN captured : NoNesting => Complete(n)'
      BY <1>0, <1>2, <2>1, <2>2, <3>1, CompleteStays
    <3>. QED
      BY <1>0, <2>5, <2>6, <2>8, <3>1, <3>2
  <2>. QED
    BY <2>7, <2>8
<1>5. CASE (StartUnhandled \/ EndUnhandled \/ ReadText) /\ stack' = stack
  <2>1. /\ i' = i + 1
        /\ captured' = IF Captures THEN Capture(Top.node, i) ELSE captured
    BY <1>5 DEF StartUnhandled, EndUnhandled, ReadText, Reads
  <2>2. Top' = Top /\ Captures' = Captures
    BY <1>5 DEF Top, Captures
  <2>3. i' - 1 = i /\ 1..(i - 1) \subseteq 1..i
    BY <1>0, <2>1 DEF Node
  <2>4. CASE Captures
    <3>1. /\ DOMAIN captured' = DOMAIN captured
          /\ NoNesting => captured'[Top.node] = Piece(Top.node, i)
          /\ \A n \in DOMAIN captured : n # Top.node => captured'[n] = captured[n]
      BY <2>1, <2>4, CaptureTop
    <3>2. \A n \in DOMAIN captured : NoNesting /\ n # Top.node => Complete(n)'
      BY <1>0, <1>2, <2>1, <3>1, CompleteStays
    <3>3. Top.node \in DOMAIN captured
      BY <2>4 DEF CaptureInv
    <3>. QED
      BY <1>0, <2>2, <2>3, <2>4, <3>1, <3>2, <3>3
  <2>5. CASE ~Captures
    <3>1. captured' = captured
      BY <2>1, <2>5
    <3>2. \A n \in DOMAIN captured : NoNesting => Complete(n)'
      BY <1>0, <1>2, <2>1, <2>5, <3>1, CompleteStays
    <3>. QED
      BY <1>0, <2>2, <2>3, <2>5, <3>1, <3>2
  <2>. QED
    BY <2>4, <2>5
<1>6. CASE EndHandled
  <2>1. /\ Len(stack) > 1 /\ Len(stack) \in Nat /\ stack' = Front(stack)
        /\ i' = i + 1
        /\ captured' = IF Captures THEN Capture(Top.node, i) ELSE captured
    BY <1>6, ClosesDecoder, StackFacts DEF EndHandled, Captures
  <2>2. Top' = stack[Len(stack) - 1]
    BY <2>1, TopPopped
  <2>3. ~Captures'
    <3>1. Len(stack) - 1 \in 1..(Len(stack) - 1)
      BY <2>1
    <3>. QED
      BY <2>2, <3>1 DEF Captures, KindInv
  <2>4. i' - 1 = i /\ 1..(i - 1) \subseteq 1..i
    BY <1>0, <2>1 DEF Node
  <2>5. CASE Captures
    <3>1. /\ DOMAIN captured' = DOMAIN captured
          /\ NoNesting => captured'[Top.node] = Piece(Top.node, i)
          /\ \A n \in DOMAIN captured : n # Top.node => captured'[n] = captured[n]
      BY <2>1, <2>5, CaptureTop
    <3>2. \A n \in DOMAIN captured : NoNesting /\ n # Top.node => Complete(n)'
      BY <1>0, <1>2, <2>1, <3>1, CompleteStays
    <3>3. PICK top : top = Top.node
      OBVIOUS
    <3>4. ASSUME NoNesting PROVE Complete(top)'
      <4>1. EndsAt(top, i)
        BY <1>6, <2>5, <3>3, <3>4, ClosesItsOwn
      <4>2. i \in top..(i' - 1)
        BY <1>0, <2>4, <2>5, <3>3, CapturingOpen DEF Node
      <4>3. PICK k : k = i
        OBVIOUS
      <4>4. EndsAt(top, k)'
        BY <1>0, <4>1, <4>3, FileSame
      <4>5. captured'[top] = Piece(top, k) /\ Piece(top, k)' = Piece(top, k) /\ k \in top..(i' - 1)
        BY <3>1, <3>3, <3>4, <4>2, <4>3 DEF Piece
      <4>. QED
        BY <4>4, <4>5 DEF Complete
    <3>. QED
      BY <1>0, <2>3, <2>4, <3>1, <3>2, <3>3, <3>4
  <2>6. CASE ~Captures
    <3>1. captured' = captured
      BY <2>1, <2>6
    <3>2. \A n \in DOMAIN captured : NoNesting => Complete(n)'
      BY <1>0, <1>2, <2>1, <2>6, <3>1, CompleteStays
    <3>. QED
      BY <1>0, <2>3, <2>4, <3>1, <3>2
  <2>. QED
    BY <2>5, <2>6
<1>7. CASE UNCHANGED <<file, i, open, stack, captured>>
  <2>1. Top' = Top /\ Captures' = Captures
    BY <1>7 DEF Top, Captures
  <2>2. \A n : Complete(n)' = Complete(n)
    BY <1>7, FileSame DEF Complete, Piece
  <2>. QED
    BY <1>0, <1>2, <1>7, <2>1, <2>2 DEF CaptureInv
<1>. QED
  BY <1>4, <1>5, <1>6, <1>7, StackMoves

LEMMA CaptureInit == Init => KindInv /\ CaptureInv
<1>. SUFFICES ASSUME Init PROVE KindInv /\ CaptureInv
  OBVIOUS
<1>1. i = 1 /\ captured = <<>> /\ stack = <<TopLevel>> /\ Inv
  BY InvInit DEF Init, Begin
<1>2. stack[1].kind = TopKind
  BY <1>1 DEF Inv, StackInv
<1>3. DOMAIN captured = {} /\ Len(stack) = 1
  BY <1>1
<1>4. KindInv
  BY <1>2, <1>3, TopKeepsNone DEF KindInv
<1>5. ~Captures
  BY <1>2, <1>3, TopKeepsNone DEF Captures, Top, Last
<1>. QED
  BY <1>3, <1>4, <1>5 DEF CaptureInv

ContentInv == Inv /\ NestInv /\ KindInv /\ CaptureInv

LEMMA ContentInvariant == Spec => []ContentInv
<1>1. Init => ContentInv
  BY InvInit, NestInit, CaptureInit DEF ContentInv
<1>2. ContentInv /\ [Next]_vars => ContentInv'
  BY InvStep, NestStep, KindStep, CaptureStep DEF ContentInv
<1>. QED
  BY <1>1, <1>2, PTL DEF Spec

(* In a file that was read to its end, every element has one.              *)
LEMMA ReadEnds ==
  ASSUME Inv, NestInv, open = <<>>, NEW m \in 1..(i - 1), IsStart(m)
  PROVE  \E k \in m..(i - 1) : EndsAt(m, k) /\ EndOf(m) = k
<1>1. m \in Node /\ file \in Seq(Tokens) /\ i - 1 \in 0..Len(file) /\ Len(file) \in Nat
  BY DEF Inv, NestInv, Node
<1>2. Range(open) = {}
  BY DEF Range
<1>3. PICK k \in m..(i - 1) : EndsAt(m, k)
  BY <1>2 DEF NestInv, Nested
<1>4. k \in m..Len(file)
  BY <1>1
<1>. QED
  BY <1>1, <1>3, <1>4, EndFound

LEMMA NamesDoNotNestHere ==
  ASSUME Inv, NestInv, open = <<>>, NamesDoNotNest
  PROVE  NoNesting
<1>. SUFFICES ASSUME NEW m \in 1..(i - 1), NEW l \in 1..(i - 1), m < l,
                     IsStart(m), IsStart(l), Inside(m, l)
              PROVE  file[m].name # file[l].name
  BY DEF NoNesting
<1>1. PICK k \in m..(i - 1) : EndsAt(m, k) /\ EndOf(m) = k
  BY ReadEnds
<1>2. m \in Node /\ l \in Node /\ k \in Node /\ m <= k
  BY <1>1 DEF Node
<1>3. ~(k < l)
  BY <1>1, <1>2, OutsideAfterEnd
<1>4. l \in (m + 1)..EndOf(m)
  BY <1>1, <1>2, <1>3 DEF Node
<1>5. m \in DOMAIN file
  BY <1>2 DEF Inv, NestInv, Node
<1>. QED
  BY <1>4, <1>5 DEF NamesDoNotNest

(***************************************************************************)
(* The tokens kept for an element of an unknown namespace are those of the *)
(* whole element, in any file in which no element nests in one of its      *)
(* name.                                                                   *)
(***************************************************************************)
THEOREM CapturedAlwaysWhole == Spec => []CapturedWhole
<1>1. ContentInv => CapturedWhole
  <2>. SUFFICES ASSUME ContentInv, ReadToTheEnd, NamesDoNotNest, NEW n \in DOMAIN captured
                PROVE  captured[n] = Whole(n)
    BY DEF CapturedWhole, UnknownElementsWhole
  <2>1. open = <<>> /\ Range(open) = {}
    BY DEF ReadToTheEnd, Range
  <2>2. ~Captures
    BY <2>1, CapturingOpen DEF ContentInv
  <2>3. PICK k \in n..(i - 1) : EndsAt(n, k) /\ captured[n] = Piece(n, k)
    BY <2>1, <2>2, NamesDoNotNestHere DEF ContentInv, CaptureInv
  <2>4. n \in Node /\ file \in Seq(Tokens) /\ k \in n..Len(file)
    BY DEF ContentInv, CaptureInv, Inv, NestInv, Node
  <2>5. EndOf(n) = k
    BY <2>3, <2>4, EndFound
  <2>. QED
    BY <2>3, <2>5 DEF Whole, Piece
<1>. QED
  BY <1>1, ContentInvariant, PTL

-----------------------------------------------------------------------------
(***************************************************************************)
(* The tree of the document: InTree goes down it from the start of every   *)
(* element to that of its parent, which is the last one open.              *)
(***************************************************************************)
LEMMA MaxIs ==
  ASSUME NEW n \in Nat, NEW S, S \subseteq 0..n, S # {}
  PROVE  Max(S) \in S /\ \A y \in S : y <= Max(S)
<1>1. PICK R : R = {n - x : x \in S}
  OBVIOUS
<1>2. R \subseteq Nat /\ R # {}
  <2>1. \A x \in S : n - x \in Nat
    OBVIOUS
  <2>. QED
    BY <1>1, <2>1
<1>3. PICK r \in R : \A y \in R : r <= y
  BY <1>2, LeastNat
<1>4. PICK x \in S : r = n - x
  BY <1>1
<1>5. \A y \in S : x >= y
  <2>1. \A y \in S : n - y \in R /\ y \in Int
    BY <1>1
  <2>. QED
    BY <1>3, <1>4, <2>1
<1>6. Max(S) \in S /\ \A y \in S : Max(S) >= y
  BY <1>5 DEF Max
<1>. QED
  BY <1>6

LEMMA ParentBefore ==
  ASSUME NEW k \in Node
  PROVE  /\ Parent(k) \in 0..(k - 1)
         /\ Parent(k) # 0 => IsStart(Parent(k)) /\ Depth(Parent(k)) = Depth(k) - 1
         /\ \A j \in 1..(k - 1) : IsStart(j) /\ Depth(j) = Depth(k) - 1 => j <= Parent(k)
<1>1. PICK S : S = {0} \cup {j \in 1..(k - 1) : IsStart(j) /\ Depth(j) = Depth(k) - 1}
  OBVIOUS
<1>2. PICK n \in Nat : n = k - 1
  BY DEF Node
<1>3. S \subseteq 0..n /\ S # {}
  BY <1>1, <1>2
<1>4. Max(S) \in S /\ \A y \in S : y <= Max(S)
  BY <1>3, MaxIs
<1>5. Parent(k) = Max(S)
  BY <1>1 DEF Parent
<1>. QED
  BY <1>1, <1>2, <1>3, <1>4, <1>5

LEMMA ParentIsOpen ==
  ASSUME Inv, NestInv
  PROVE  Parent(i) = IF open = <<>> THEN 0 ELSE Last(open)
<1>1. /\ i \in Node /\ open \in Seq(Int) /\ Depth(i) = Len(open)
      /\ \A j \in 1..i : Depth(j) >= 0 /\ Depth(j) \in Int
  <2>1. i \in Node /\ open \in Seq(Int) /\ Nested(i, open)
    BY DEF Inv, OpenInv, NestInv
  <2>2. \A j \in 1..i : j \in Node
    BY DEF Node
  <2>3. \A j \in 1..i : Depth(j) \in Int
    BY <2>2, DepthStep
  <2>. QED
    BY <2>1, <2>3 DEF Nested
<1>2. /\ Parent(i) \in 0..(i - 1)
      /\ Parent(i) # 0 => IsStart(Parent(i)) /\ Depth(Parent(i)) = Depth(i) - 1
      /\ \A j \in 1..(i - 1) : IsStart(j) /\ Depth(j) = Depth(i) - 1 => j <= Parent(i)
  BY <1>1, ParentBefore
<1>3. CASE open = <<>>
  <2>1. Depth(i) = 0
    BY <1>1, <1>3
  <2>2. Parent(i) # 0 => Parent(i) \in 1..i /\ Depth(Parent(i)) = -1
    BY <1>1, <1>2, <2>1 DEF Node
  <2>3. Parent(i) = 0
    BY <1>1, <2>2
  <2>. QED
    BY <1>3, <2>3
<1>4. CASE open # <<>>
  <2>1. Len(open) \in Nat \ {0} /\ Len(open) \in DOMAIN open /\ Last(open) = open[Len(open)]
    BY <1>1, <1>4 DEF Last
  <2>2. /\ Last(open) \in 1..(i - 1) /\ IsStart(Last(open)) /\ Depth(Last(open)) = Len(open) - 1
        /\ \A j \in (Last(open) + 1)..i : Depth(j) >= Len(open)
    BY <2>1 DEF NestInv, Nested
  <2>3. Last(open) <= Parent(i)
    BY <1>1, <1>2, <2>2
  <2>4. Parent(i) # 0 /\ Depth(Parent(i)) = Len(open) - 1
    BY <1>1, <1>2, <2>2, <2>3
  <2>5. Parent(i) > Last(open) => Parent(i) \in (Last(open) + 1)..i
    <3>1. i \in Nat
      BY <1>1 DEF Node
    <3>. QED
      BY <1>2, <2>2, <3>1
  <2>6. ~(Parent(i) > Last(open))
    BY <2>1, <2>2, <2>4, <2>5
  <2>7. Parent(i) = Last(open)
    BY <1>2, <2>2, <2>3, <2>6
  <2>. QED
    BY <1>4, <2>7
<1>. QED
  BY <1>3, <1>4

TreeTop == [of |-> 0, kind |-> TopKind, parent |-> Shared.model, fills |-> Shared.model]

TreeAt(k, up) ==
  IF ~IsStart(k) \/ ~Handles(up.kind, file[k].name) THEN up
  ELSE [of |-> k, kind |-> ChildKind(up.kind, file[k].name), parent |-> up.fills,
        fills |-> Filled(ChildKind(up.kind, file[k].name), k, up.fills)]

TreeNodes == [of : Nat, kind : Kinds, parent : Structs, fills : Structs]

IsTree(t) ==
  /\ t \in [0..Len(file) -> TreeNodes]
  /\ t[0] = TreeTop
  /\ \A k \in 1..Len(file) : t[k] = TreeAt(k, t[Parent(k)])

LEMMA StartNames ==
  ASSUME file \in Seq(Tokens), NEW k \in 1..Len(file), IsStart(k)
  PROVE  file[k].name \in Names
<1>1. file[k] \in Tokens /\ file[k].op = "start"
  BY DEF IsStart
<1>. QED
  BY <1>1, TokenName

LEMMA TreeTopIs == TreeTop \in TreeNodes
  BY TopKeepsNone DEF TreeTop, TreeNodes, Shared, Structs

LEMMA FilledStruct ==
  ASSUME NEW kind, NEW n \in Node, NEW p \in Structs
  PROVE  Filled(kind, n, p) \in Structs
<1>1. DOMAIN Shared = {"model", "build", "resources"}
      /\ Shared["model"] = 0 /\ Shared["build"] = -1 /\ Shared["resources"] = -2
  BY DEF Shared
<1>2. CASE DecoderOf(kind).fills \in DOMAIN Shared
  BY <1>1, <1>2 DEF Filled, Structs
<1>3. CASE DecoderOf(kind).fills = "parent"
  BY <1>1, <1>3 DEF Filled
<1>4. CASE DecoderOf(kind).fills # "parent" /\ DecoderOf(kind).fills \notin DOMAIN Shared
  BY <1>4 DEF Filled, Structs
<1>. QED
  BY <1>2, <1>3, <1>4

LEMMA TreeAtType ==
  ASSUME file \in Seq(Tokens), NEW k \in 1..Len(file), NEW up \in TreeNodes
  PROVE  TreeAt(k, up) \in TreeNodes
<1>1. CASE ~IsStart(k) \/ ~Handles(up.kind, file[k].name)
  BY <1>1 DEF TreeAt
<1>2. CASE IsStart(k) /\ Handles(up.kind, file[k].name)
  <2>1. up.kind \in Kinds /\ up.fills \in Structs
    BY DEF TreeNodes
  <2>2. PICK kind : kind = ChildKind(up.kind, file[k].name)
    OBVIOUS
  <2>3. kind \in Kinds
    BY <1>2, <2>1, <2>2, StartNames, HandledKinds DEF ElementKinds
  <2>4. k \in Node /\ k \in Nat
    BY DEF Node
  <2>5. Filled(kind, k, up.fills) \in Structs
    BY <2>1, <2>4, FilledStruct
  <2>6. TreeAt(k, up) = [of |-> k, kind |-> kind, parent |-> up.fills,
                         fills |-> Filled(kind, k, up.fills)]
    BY <1>2, <2>2 DEF TreeAt
  <2>. QED
    BY <2>1, <2>3, <2>4, <2>5, <2>6 DEF TreeNodes
<1>. QED
  BY <1>1, <1>2

(* The recursion of InTree.                                                *)
LEMMA TreeIs ==
  ASSUME file \in Seq(Tokens)
  PROVE  \E t : IsTree(t) /\ InTree = {t[k] : k \in {k \in DOMAIN file : IsStart(k)}}
<1>1. PICK n \in Nat : n = Len(file)
  OBVIOUS
<1>2. PICK step : step = [k \in 1..n |-> [up \in TreeNodes |-> TreeAt(k, up)]]
  OBVIOUS
<1>3. \A k \in 1..n : \A up \in TreeNodes : TreeAt(k, up) \in TreeNodes
  BY <1>1, TreeAtType
<1>4. step \in [1..n -> [TreeNodes -> TreeNodes]]
  BY <1>2, <1>3
<1>5. PICK before : before = [k \in 1..n |-> Parent(k)]
  OBVIOUS
<1>6. \A k \in 1..n : before[k] = Parent(k) /\ before[k] \in 0..(k - 1)
  <2>1. \A k \in 1..n : k \in Node
    BY DEF Node
  <2>. QED
    BY <1>5, <2>1, ParentBefore
<1>7. PICK g \in [0..n -> TreeNodes] : FollowsFrom(g, n, TreeTop, before, step)
  BY <1>4, <1>6, TreeTopIs, CourseExists
<1>8. g[0] = TreeTop /\ \A k \in 1..n : g[k] = TreeAt(k, g[Parent(k)])
  <2>1. ASSUME NEW k \in 1..n PROVE g[k] = TreeAt(k, g[Parent(k)])
    <3>1. Parent(k) \in 0..n
      BY ONLY <1>1, <1>6, k \in 1..n
    <3>2. g[Parent(k)] \in TreeNodes
      BY <3>1
    <3>. QED
      BY <1>2, <1>6, <1>7, <3>2 DEF FollowsFrom
  <2>. QED
    BY <1>7, <2>1 DEF FollowsFrom
<1>9. PICK H : H = [k \in 0..n |-> IF k = 0 THEN TreeTop ELSE TreeAt(k, g[Parent(k)])]
  OBVIOUS
<1>10. g = H
  <2>1. \A k \in 0..n : g[k] = H[k]
    BY <1>8, <1>9
  <2>. QED
    BY <1>9, <2>1
<1>11. PICK t : t = CHOOSE h : h = [k \in 0..n |-> IF k = 0 THEN TreeTop ELSE TreeAt(k, h[Parent(k)])]
  OBVIOUS
<1>12. g = [k \in 0..n |-> IF k = 0 THEN TreeTop ELSE TreeAt(k, g[Parent(k)])]
  BY <1>9, <1>10
<1>13. t = [k \in 0..n |-> IF k = 0 THEN TreeTop ELSE TreeAt(k, t[Parent(k)])]
  BY <1>11, <1>12, Zenon
<1>14. t[0] = TreeTop /\ \A k \in 1..n : t[k] = TreeAt(k, t[Parent(k)])
  <2>1. 0 \in 0..n /\ \A k \in 1..n : k \in 0..n /\ k # 0
    OBVIOUS
  <2>. QED
    BY <1>13, <2>1
<1>15. \A k \in 0..n : t[k] = g[k]
  <2>1. PICK Wrong : Wrong = {k \in 0..n : t[k] # g[k]}
    OBVIOUS
  <2>2. SUFFICES ASSUME Wrong # {} PROVE FALSE
    BY <2>1
  <2>3. Wrong \subseteq Nat
    BY <2>1
  <2>4. PICK k \in Wrong : \A j \in Wrong : k <= j
    BY <2>2, <2>3, LeastNat
  <2>5. k \in 1..n /\ t[k] # g[k]
    BY <1>8, <1>14, <2>1, <2>4
  <2>6. Parent(k) \in 0..n /\ ~(k <= Parent(k))
    BY <1>6, <2>5
  <2>7. t[Parent(k)] = g[Parent(k)]
    BY <2>1, <2>4, <2>6
  <2>. QED
    BY <1>8, <1>14, <2>5, <2>7
<1>16. t \in [0..n -> TreeNodes]
  <2>1. t = [k \in 0..n |-> t[k]]
    BY <1>13, Zenon
  <2>2. \A k \in 0..n : t[k] \in TreeNodes
    BY <1>7, <1>15
  <2>. QED
    BY <2>1, <2>2
<1>17. IsTree(t)
  BY <1>1, <1>14, <1>16 DEF IsTree
<1>18. InTree = {t[k] : k \in {k \in DOMAIN file : IsStart(k)}}
  BY <1>1, <1>11 DEF InTree, TreeTop, TreeAt
<1>. QED
  BY <1>17, <1>18

LEMMA TreeStep ==
  ASSUME file \in Seq(Tokens), NEW t, IsTree(t), NEW k \in 1..Len(file)
  PROVE  /\ Parent(k) \in 0..(k - 1) /\ Parent(k) \in 0..Len(file)
         /\ IsStart(k) /\ Handles(t[Parent(k)].kind, file[k].name) =>
              /\ t[k].of = k /\ t[k].kind = ChildKind(t[Parent(k)].kind, file[k].name)
              /\ t[k].parent = t[Parent(k)].fills
              /\ t[k].fills = Filled(t[k].kind, k, t[k].parent)
              /\ t[k].kind \in ElementKinds
         /\ ~IsStart(k) \/ ~Handles(t[Parent(k)].kind, file[k].name) => t[k] = t[Parent(k)]
<1>1. k \in Node /\ Len(file) \in Nat
  BY DEF Node
<1>2. Parent(k) \in 0..(k - 1)
  BY <1>1, ParentBefore
<1>3. Parent(k) \in 0..Len(file)
  BY <1>1, <1>2
<1>4. PICK up : up = t[Parent(k)]
  OBVIOUS
<1>5. t[k] = TreeAt(k, up) /\ up \in TreeNodes
  BY <1>3, <1>4 DEF IsTree
<1>6. CASE ~IsStart(k) \/ ~Handles(up.kind, file[k].name)
  BY <1>2, <1>3, <1>4, <1>5, <1>6 DEF TreeAt
<1>7. CASE IsStart(k) /\ Handles(up.kind, file[k].name)
  <2>1. t[k] = [of |-> k, kind |-> ChildKind(up.kind, file[k].name), parent |-> up.fills,
                fills |-> Filled(ChildKind(up.kind, file[k].name), k, up.fills)]
    BY <1>5, <1>7 DEF TreeAt
  <2>2. /\ t[k].of = k /\ t[k].kind = ChildKind(up.kind, file[k].name)
        /\ t[k].parent = up.fills /\ t[k].fills = Filled(t[k].kind, k, t[k].parent)
    BY <2>1
  <2>3. up.kind \in Kinds /\ file[k].name \in Names
    BY <1>5, <1>7, StartNames DEF TreeNodes
  <2>4. ChildKind(up.kind, file[k].name) \in ElementKinds
    BY <1>7, <2>3, HandledKinds
  <2>. QED
    BY <1>2, <1>3, <1>4, <1>7, <2>2, <2>4
<1>. QED
  BY <1>4, <1>6, <1>7

(* The innermost decoder at an element is made for the element that it is  *)
(* of.                                                                     *)
IsOf(t, k) ==
  /\ t[k].of \in 0..k /\ t[t[k].of] = t[k]
  /\ t[k].of = 0 => t[k] = TreeTop
  /\ t[k].of # 0 => IsStart(t[k].of) /\ t[k].kind \in ElementKinds

LEMMA TreeOf ==
  ASSUME file \in Seq(Tokens), NEW t, IsTree(t), NEW k \in 0..Len(file)
  PROVE  IsOf(t, k)
<1>1. PICK Wrong : Wrong = {j \in 0..Len(file) : ~IsOf(t, j)}
  OBVIOUS
<1>2. SUFFICES ASSUME Wrong # {} PROVE FALSE
  BY <1>1
<1>3. Wrong \subseteq Nat
  BY <1>1
<1>4. PICK j \in Wrong : \A l \in Wrong : j <= l
  BY <1>2, <1>3, LeastNat
<1>5. j \in 0..Len(file) /\ ~IsOf(t, j)
  BY <1>1, <1>4
<1>6. t[0] = TreeTop /\ TreeTop.of = 0
  BY DEF IsTree, TreeTop
<1>7. j # 0
  BY <1>5, <1>6 DEF IsOf
<1>8. j \in 1..Len(file)
  BY <1>5, <1>7
<1>9. CASE IsStart(j) /\ Handles(t[Parent(j)].kind, file[j].name)
  <2>1. t[j].of = j /\ t[j].kind \in ElementKinds
    BY <1>8, <1>9, TreeStep
  <2>2. j \in 0..j
    BY <1>8
  <2>. QED
    BY <1>5, <1>7, <1>9, <2>1, <2>2 DEF IsOf
<1>10. CASE ~IsStart(j) \/ ~Handles(t[Parent(j)].kind, file[j].name)
  <2>1. t[j] = t[Parent(j)] /\ Parent(j) \in 0..(j - 1) /\ Parent(j) \in 0..Len(file)
    BY <1>8, <1>10, TreeStep
  <2>2. ~(j <= Parent(j))
    BY <1>8, <2>1
  <2>3. IsOf(t, Parent(j))
    BY <1>1, <1>4, <2>1, <2>2
  <2>4. \A l \in 0..Parent(j) : l \in 0..j
    BY <1>8, <2>1
  <2>. QED
    BY <1>5, <2>1, <2>3, <2>4 DEF IsOf
<1>. QED
  BY <1>9, <1>10

-----------------------------------------------------------------------------
(***************************************************************************)
(* The decoders on the stack are those of the tree, and the innermost of   *)
(* the tree at an open element is the last on the stack that was made for  *)
(* it or for an element around it.                                         *)
(***************************************************************************)
StackTree(t) ==
  /\ stack[1] = TopLevel
  /\ \A k \in 1..Len(stack) :
       t[stack[k].node].of = stack[k].node /\ t[stack[k].node].kind = stack[k].kind
  /\ \A p \in DOMAIN open : \E k \in 1..Len(stack) :
       /\ t[open[p]] = t[stack[k].node] /\ stack[k].node <= open[p]
       /\ k < Len(stack) => open[p] < stack[k + 1].node

LEMMA TopInTree ==
  ASSUME Inv, NestInv, NEW t, StackTree(t)
  PROVE  /\ t[Parent(i)] = t[Top.node]
         /\ t[Top.node].of = Top.node /\ t[Top.node].kind = Top.kind
<1>1. Len(stack) \in Nat \ {0} /\ Top = stack[Len(stack)] /\ open \in Seq(Int)
  BY StackFacts DEF Inv, OpenInv
<1>2. Len(stack) \in 1..Len(stack)
  BY <1>1
<1>3. t[Top.node].of = Top.node /\ t[Top.node].kind = Top.kind
  BY <1>1, <1>2 DEF StackTree
<1>4. CASE open = <<>>
  <2>1. ~(Len(stack) > 1)
    BY <1>4, TopOpen DEF Range
  <2>2. Top = TopLevel
    BY <1>1, <2>1 DEF StackTree
  <2>3. Top.node = 0 /\ Parent(i) = 0
    BY <1>4, <2>2, ParentIsOpen DEF TopLevel
  <2>. QED
    BY <1>3, <2>3
<1>5. CASE open # <<>>
  <2>1. Len(open) \in DOMAIN open /\ Last(open) = open[Len(open)] /\ Parent(i) = Last(open)
    BY <1>1, <1>5, ParentIsOpen DEF Last
  <2>2. PICK k \in 1..Len(stack) :
          /\ t[Last(open)] = t[stack[k].node]
          /\ k < Len(stack) => Last(open) < stack[k + 1].node
    BY <2>1 DEF StackTree
  <2>3. ASSUME k < Len(stack) PROVE FALSE
    <3>1. k \in DOMAIN Nodes(stack) /\ Nodes(stack)[k] = stack[k + 1].node
      BY <1>1, <2>3 DEF Nodes
    <3>2. stack[k + 1].node \in Range(Nodes(stack))
      BY <3>1 DEF Range
    <3>3. stack[k + 1].node \in Range(open)
      BY <3>2 DEF Inv, StackInv
    <3>4. stack[k + 1].node \in Int /\ stack[k + 1].node <= Last(open) /\ Last(open) \in Int
      BY <1>5, <3>3, FrontRange
    <3>. QED
      BY <2>2, <2>3, <3>4
  <2>4. k = Len(stack)
    BY <1>1, <2>3
  <2>. QED
    BY <1>1, <1>3, <2>1, <2>2, <2>4
<1>. QED
  BY <1>4, <1>5

LEMMA StackTreeInit ==
  ASSUME Init, NEW t, IsTree(t)
  PROVE  StackTree(t)
<1>1. stack = <<TopLevel>> /\ open = <<>>
  BY DEF Init, Begin
<1>2. Len(stack) = 1 /\ stack[1] = TopLevel /\ DOMAIN open = {}
  BY <1>1
<1>3. TopLevel.node = 0 /\ TopLevel.kind = TopKind
  BY DEF TopLevel
<1>4. t[0].of = 0 /\ t[0].kind = TopKind
  BY DEF IsTree, TreeTop
<1>5. \A k \in 1..Len(stack) : stack[k] = TopLevel
  BY <1>2
<1>. QED
  BY <1>2, <1>3, <1>4, <1>5 DEF StackTree

(* The decoder that a start element makes, as the tree has it.             *)
LEMMA PushedInTree ==
  ASSUME Inv, NestInv, NEW t, IsTree(t), StackTree(t), StartHandled
  PROVE  /\ t[i].of = i /\ t[i].kind = ChildKind(Top.kind, Token.name)
         /\ t[i].parent = t[Top.node].fills
         /\ t[i].fills = Filled(t[i].kind, i, t[i].parent)
         /\ i \in 1..Len(file) /\ IsStart(i) /\ t[i].kind \in ElementKinds
<1>1. /\ i \in 1..Len(file) /\ file \in Seq(Tokens) /\ IsStart(i)
      /\ Handles(Top.kind, file[i].name)
  BY DEF StartHandled, Reads, CanRead, Token, IsStart, Inv, OpenInv, Node
<1>2. t[Parent(i)] = t[Top.node] /\ t[Top.node].kind = Top.kind
  BY TopInTree
<1>. QED
  BY <1>1, <1>2, TreeStep DEF Token

LEMMA PushedEntry ==
  ASSUME Inv, StartHandled
  PROVE  \E d : /\ stack' = Append(stack, d) /\ d.node = i
                /\ d.kind = ChildKind(Top.kind, Token.name) /\ d.parent = Top.fills
                /\ d.fills = Fills(d.kind, i, Top.fills)
                /\ Top' = d /\ Len(stack') = Len(stack) + 1
                /\ stack'[Len(stack) + 1] = d
                /\ \A k \in 1..Len(stack) : stack'[k] = stack[k]
<1>. DEFINE kind == ChildKind(Top.kind, Token.name)
            d == [kind |-> kind, name |-> Token.name, node |-> i, parent |-> Top.fills,
                  fills |-> Fills(kind, i, Top.fills)]
<1>1. stack' = Append(stack, d)
  BY DEF StartHandled
<1>2. /\ d.node = i /\ d.kind = kind /\ d.parent = Top.fills
      /\ d.fills = Fills(d.kind, i, Top.fills)
  OBVIOUS
<1>. HIDE DEF d, kind
<1>3. i \in Nat
  BY DEF Inv, OpenInv, Node
<1>4. /\ Top' = d /\ Len(stack') = Len(stack) + 1
      /\ \A k \in 1..Len(stack) : stack'[k] = stack[k]
  BY <1>1, <1>2, <1>3, TopPushed
<1>5. stack'[Len(stack) + 1] = d
  BY <1>4 DEF Top, Last
<1>. QED
  BY <1>1, <1>2, <1>4, <1>5 DEF kind

LEMMA StackTreeStep ==
  ASSUME Inv, NestInv, NEW t, IsTree(t), StackTree(t), NoNesting, [Next]_vars
  PROVE  StackTree(t)'
<1>1. /\ Len(stack) \in Nat \ {0} /\ Top = stack[Len(stack)] /\ i \in Node
      /\ open \in Seq(Int) /\ Len(open) \in Nat /\ file \in Seq(Tokens)
  BY StackFacts DEF Inv, OpenInv
<1>2. /\ stack[1] = TopLevel
      /\ \A k \in 1..Len(stack) :
           t[stack[k].node].of = stack[k].node /\ t[stack[k].node].kind = stack[k].kind
      /\ \A p \in DOMAIN open : \E k \in 1..Len(stack) :
           /\ t[open[p]] = t[stack[k].node] /\ stack[k].node <= open[p]
           /\ k < Len(stack) => open[p] < stack[k + 1].node
  BY DEF StackTree
<1>3. /\ 1 \in 1..Len(stack) /\ Len(stack) \in 1..Len(stack)
      /\ DOMAIN open = 1..Len(open)
  BY <1>1
<1>4. \A k \in Range(open) : k < i
  BY DEF Inv, OpenInv, Range
<1>5. Top.node <= i
  <2>1. CASE Len(stack) > 1
    BY <1>1, <2>1, TopOpen DEF Node
  <2>2. CASE ~(Len(stack) > 1)
    <3>1. \A n \in Nat \ {0} : ~(n > 1) => n = 1
      OBVIOUS
    <3>2. Len(stack) = 1
      BY <1>1, <2>2, <3>1, Zenon
    <3>3. Top = TopLevel
      BY <1>1, <1>2, <3>2, Zenon
    <3>4. Top.node = 0
      BY <3>3 DEF TopLevel
    <3>. QED
      BY <1>1, <3>4 DEF Node
  <2>. QED
    BY <2>1, <2>2
<1>6. CASE StartHandled
  <2>1. /\ t[i].of = i /\ t[i].kind = ChildKind(Top.kind, Token.name)
    BY <1>6, PushedInTree
  <2>2. PICK d : /\ d.node = i /\ d.kind = ChildKind(Top.kind, Token.name)
                 /\ Len(stack') = Len(stack) + 1 /\ stack'[Len(stack) + 1] = d
                 /\ \A k \in 1..Len(stack) : stack'[k] = stack[k]
    BY <1>6, PushedEntry
  <2>3. open' = Append(open, i)
    BY <1>6 DEF StartHandled
  <2>4. /\ DOMAIN open' = 1..(Len(open) + 1)
        /\ \A p \in 1..Len(open) : open'[p] = open[p]
        /\ open'[Len(open) + 1] = i
    BY <1>1, <2>3 DEF Node
  <2>5. stack'[1] = TopLevel
    BY <1>2, <1>3, <2>2
  <2>6. \A k \in 1..Len(stack') :
          t[stack'[k].node].of = stack'[k].node /\ t[stack'[k].node].kind = stack'[k].kind
    <3>1. \A k \in 1..Len(stack') : k \in 1..Len(stack) \/ k = Len(stack) + 1
      BY <1>1, <2>2
    <3>. QED
      BY <1>2, <2>1, <2>2, <3>1
  <2>7. ASSUME NEW p \in DOMAIN open'
        PROVE  \E k \in 1..Len(stack') :
                 /\ t[open'[p]] = t[stack'[k].node] /\ stack'[k].node <= open'[p]
                 /\ k < Len(stack') => open'[p] < stack'[k + 1].node
    <3>1. CASE p = Len(open) + 1
      <4>1. Len(stack) + 1 \in 1..Len(stack') /\ ~(Len(stack) + 1 < Len(stack'))
        BY <1>1, <2>2
      <4>2. i <= i
        BY <1>1 DEF Node
      <4>. QED
        BY <2>2, <2>4, <3>1, <4>1, <4>2
    <3>2. CASE p # Len(open) + 1
      <4>1. p \in DOMAIN open /\ open'[p] = open[p]
        BY <1>1, <2>4, <3>2
      <4>2. PICK k \in 1..Len(stack) :
              /\ t[open[p]] = t[stack[k].node] /\ stack[k].node <= open[p]
              /\ k < Len(stack) => open[p] < stack[k + 1].node
        BY <1>2, <4>1
      <4>3. k \in 1..Len(stack') /\ stack'[k] = stack[k]
        BY <1>1, <2>2
      <4>4. CASE k < Len(stack)
        <5>1. k + 1 \in 1..Len(stack)
          BY <1>1, <4>4
        <5>. QED
          BY <2>2, <4>1, <4>2, <4>3, <4>4, <5>1
      <4>5. CASE ~(k < Len(stack))
        <5>1. k = Len(stack)
          BY <1>1, <4>5
        <5>2. open[p] < i
          BY <1>4, <4>1 DEF Range
        <5>. QED
          BY <2>2, <4>1, <4>2, <4>3, <5>1, <5>2
      <4>. QED
        BY <4>4, <4>5
    <3>. QED
      BY <3>1, <3>2
  <2>. QED
    BY <2>5, <2>6, <2>7 DEF StackTree
<1>7. CASE EndHandled
  <2>1. /\ open # <<>> /\ Len(stack) > 1 /\ Top.node = Last(open)
    BY <1>7, ClosesDecoder, ClosesItsOwn
  <2>2. /\ Len(stack') = Len(stack) - 1
        /\ \A k \in 1..(Len(stack) - 1) : stack'[k] = stack[k]
    BY <1>7, <2>1, TopPopped DEF EndHandled
  <2>3. open' = Front(open) /\ Len(open) \in Nat \ {0}
    BY <1>1, <1>7, <2>1 DEF EndHandled
  <2>4. /\ Len(open') = Len(open) - 1 /\ open' \in Seq(Int)
        /\ \A p \in 1..(Len(open) - 1) : open'[p] = open[p]
    BY <1>1, <2>1, <2>3, FrontFacts
  <2>5. DOMAIN open' = 1..(Len(open) - 1)
    BY <1>1, <2>4
  <2>6. \A k \in 1..Len(stack') : k \in 1..Len(stack) /\ k \in 1..(Len(stack) - 1)
    BY <1>1, <2>2
  <2>7. stack'[1] = TopLevel
    <3>1. 1 \in 1..(Len(stack) - 1)
      BY <1>1, <2>1
    <3>. QED
      BY <1>2, <2>2, <3>1
  <2>8. \A k \in 1..Len(stack') :
          t[stack'[k].node].of = stack'[k].node /\ t[stack'[k].node].kind = stack'[k].kind
    BY <1>2, <2>2, <2>6
  <2>9. ASSUME NEW p \in DOMAIN open'
        PROVE  \E k \in 1..Len(stack') :
                 /\ t[open'[p]] = t[stack'[k].node] /\ stack'[k].node <= open'[p]
                 /\ k < Len(stack') => open'[p] < stack'[k + 1].node
    <3>1. p \in DOMAIN open /\ p < Len(open) /\ open'[p] = open[p]
      <4>1. p \in 1..(Len(open) - 1)
        BY <2>5
      <4>. QED
        BY <1>3, <2>3, <2>4, <4>1
    <3>2. open[p] < Last(open) /\ Last(open) = open[Len(open)] /\ Last(open) \in Int /\ open[p] \in Int
      <4>1. Len(open) \in DOMAIN open /\ Last(open) = open[Len(open)]
        BY <1>1, <2>1 DEF Last
      <4>. QED
        BY <1>1, <3>1, <4>1 DEF Inv, OpenInv, Increasing
    <3>3. PICK k \in 1..Len(stack) :
            /\ t[open[p]] = t[stack[k].node] /\ stack[k].node <= open[p]
            /\ k < Len(stack) => open[p] < stack[k + 1].node
      BY <1>2, <3>1
    <3>4. k # Len(stack)
      BY <1>1, <2>1, <3>2, <3>3
    <3>5. /\ k \in 1..(Len(stack) - 1) /\ k \in 1..Len(stack')
          /\ k < Len(stack') => k + 1 \in 1..(Len(stack) - 1)
      BY <1>1, <2>2, <3>4
    <3>6. k < Len(stack)
      BY <1>1, <3>4
    <3>. QED
      BY <2>2, <3>1, <3>3, <3>5, <3>6
  <2>. QED
    BY <2>7, <2>8, <2>9 DEF StackTree
<1>8. CASE StartUnhandled
  <2>1. /\ stack' = stack /\ open' = Append(open, i) /\ ~Handles(Top.kind, file[i].name)
        /\ i \in 1..Len(file) /\ IsStart(i)
    BY <1>1, <1>8 DEF StartUnhandled, Reads, CanRead, Token, IsStart, Node
  <2>2. t[i] = t[Top.node]
    <3>1. t[Parent(i)] = t[Top.node] /\ t[Top.node].kind = Top.kind
      BY TopInTree
    <3>2. ~Handles(t[Parent(i)].kind, file[i].name)
      BY <2>1, <3>1
    <3>3. t[i] = t[Parent(i)]
      BY Zenon, <1>1, <2>1, <3>2, TreeStep
    <3>. QED
      BY <3>1, <3>3
  <2>3. /\ DOMAIN open' = 1..(Len(open) + 1)
        /\ \A p \in 1..Len(open) : open'[p] = open[p]
        /\ open'[Len(open) + 1] = i
    BY <1>1, <2>1 DEF Node
  <2>4. ASSUME NEW p \in DOMAIN open'
        PROVE  \E k \in 1..Len(stack) :
                 /\ t[open'[p]] = t[stack[k].node] /\ stack[k].node <= open'[p]
                 /\ k < Len(stack) => open'[p] < stack[k + 1].node
    <3>1. CASE p = Len(open) + 1
      <4>1. ~(Len(stack) < Len(stack))
        BY <1>1
      <4>. QED
        BY <1>1, <1>3, <1>5, <2>2, <2>3, <3>1, <4>1
    <3>2. CASE p # Len(open) + 1
      <4>1. p \in DOMAIN open /\ open'[p] = open[p]
        BY <1>1, <2>3, <3>2
      <4>. QED
        BY <1>2, <4>1
    <3>. QED
      BY <3>1, <3>2
  <2>. QED
    BY <1>2, <2>1, <2>4 DEF StackTree
<1>9. CASE EndUnhandled
  <2>1. stack' = stack /\ open' = Front(open) /\ open # <<>>
    <3>1. Reads("end")
      BY <1>9 DEF EndUnhandled
    <3>2. ~Mismatched /\ Token.op = "end"
      BY <3>1 DEF Reads, CanRead, SyntaxError
    <3>. QED
      BY <1>9, <3>2 DEF EndUnhandled, Mismatched
  <2>2. /\ Len(open') = Len(open) - 1 /\ open' \in Seq(Int)
        /\ \A p \in 1..(Len(open) - 1) : open'[p] = open[p]
    <3>1. Len(open) \in Nat \ {0}
      BY <1>1, <2>1
    <3>. QED
      BY <1>1, <2>1, <3>1, FrontFacts
  <2>3. DOMAIN open' = 1..(Len(open) - 1)
    BY <1>1, <2>2
  <2>4. \A p \in DOMAIN open' : p \in DOMAIN open /\ open'[p] = open[p]
    <3>1. \A p \in 1..(Len(open) - 1) : p \in 1..Len(open)
      BY <1>1
    <3>. QED
      BY <1>3, <2>2, <2>3, <3>1
  <2>. QED
    BY <1>2, <2>1, <2>4 DEF StackTree
<1>10. CASE ReadText \/ UNCHANGED <<open, stack>>
  BY <1>10 DEF StackTree, ReadText
<1>. QED
  BY <1>6, <1>7, <1>8, <1>9, <1>10, StackMoves

-----------------------------------------------------------------------------
(***************************************************************************)
(* The elements read so far that do not parse have left an error, when     *)
(* their decoders report it.                                               *)
(***************************************************************************)
ParsedInv(t) ==
  \A k \in 1..(i - 1) :
    IsStart(k) /\ t[k].of = k /\ file[k].bad /\ Reports(t[k].kind) => errs # <<>>

(* A call that returns nil has read the file to its end.                   *)
ReturnInv ==
  /\ \E E : errs \in Seq(E)
  /\ result = "nil" => errs = <<>> /\ i \notin DOMAIN file /\ open = <<>>

TreeInv ==
  NoNesting => \A t : IsTree(t) => StackTree(t) /\ ParsedInv(t)

LEMMA ErrsGrow ==
  ASSUME ReturnInv, NEW e
  PROVE  Append(errs, e) # <<>> /\ \E E : Append(errs, e) \in Seq(E)
<1>1. PICK E : errs \in Seq(E)
  BY DEF ReturnInv
<1>2. PICK D : D = E \cup {e}
  OBVIOUS
<1>3. errs \in Seq(D) /\ e \in D
  BY <1>1, <1>2
<1>4. Append(errs, e) \in Seq(D)
  BY <1>3
<1>5. Append(errs, e) # <<>>
  <2>1. Len(Append(errs, e)) = Len(errs) + 1 /\ Len(errs) \in Nat
    BY <1>1
  <2>2. Len(<<>>) = 0
    OBVIOUS
  <2>. QED
    BY <2>1, <2>2
<1>. QED
  BY <1>4, <1>5, Zenon

(* What a step does to the errors.                                         *)
LEMMA ErrsMove ==
  ASSUME ReturnInv, [Next]_vars
  PROVE  /\ errs # <<>> => errs' # <<>>
         /\ \E E : errs' \in Seq(E)
<1>1. CASE StartHandled
  <2>1. errs' = errs \/ \E e : errs' = Append(errs, e)
    BY <1>1 DEF StartHandled
  <2>. QED
    BY <2>1, ErrsGrow DEF ReturnInv
<1>2. CASE ~StartHandled
  <2>1. errs' = errs
    BY <1>2 DEF Next, vars, StartUnhandled, StartPanics, EndHandled, EndUnhandled, ReadText, Return
  <2>. QED
    BY <2>1 DEF ReturnInv
<1>. QED
  BY <1>1, <1>2

LEMMA ReturnStep ==
  ASSUME ReturnInv, [Next]_vars
  PROVE  ReturnInv'
<1>1. \E E : errs' \in Seq(E)
  BY ErrsMove
<1>2. CASE UNCHANGED vars
  BY <1>2 DEF ReturnInv, vars
<1>3. CASE StartPanics
  BY <1>3 DEF ReturnInv, StartPanics
<1>4. CASE Return
  <2>1. SUFFICES ASSUME result' = "nil"
                 PROVE  errs' = <<>> /\ i' \notin DOMAIN file' /\ open' = <<>>
    BY <1>1 DEF ReturnInv
  <2>2. errs = <<>> /\ ~(~StopsAtError /\ SyntaxError)
    BY <1>4, <2>1 DEF Return
  <2>3. ~StopsAtError /\ ~SyntaxError
    BY <2>2 DEF StopsAtError
  <2>4. i \notin DOMAIN file
    BY <1>4, <2>3 DEF Return
  <2>5. open = <<>>
    BY <2>3, <2>4 DEF SyntaxError
  <2>. QED
    BY <1>4, <2>2, <2>4, <2>5 DEF Return
<1>5. CASE Next /\ ~StartPanics /\ ~Return
  <2>1. result = "none" /\ result' = result
    BY <1>5 DEF Next, StartHandled, StartUnhandled, EndHandled, EndUnhandled, ReadText, Reads, CanRead
  <2>. QED
    BY <1>1, <2>1 DEF ReturnInv
<1>. QED
  BY <1>2, <1>3, <1>4, <1>5

LEMMA ParsedStep ==
  ASSUME Inv, NestInv, KindInv, ReturnInv, NEW t, IsTree(t), StackTree(t), ParsedInv(t),
         [Next]_vars, isRoot' = isRoot
  PROVE  ParsedInv(t)'
<1>1. /\ i \in Node /\ file' = file /\ (errs # <<>> => errs' # <<>>)
      /\ (i' = i \/ i' = i + 1) /\ file \in Seq(Tokens)
  BY Moves, ErrsMove DEF Inv, OpenInv
<1>2. \A kind : Reports(kind)' = Reports(kind)
  BY DEF Reports
<1>3. \A k : IsStart(k)' = IsStart(k)
  BY <1>1, FileSame
<1>4. SUFFICES ASSUME NEW k \in 1..(i' - 1), IsStart(k), t[k].of = k, file[k].bad,
                      Reports(t[k].kind)
               PROVE  errs' # <<>>
  BY <1>1, <1>2, <1>3 DEF ParsedInv
<1>5. CASE k \in 1..(i - 1)
  BY <1>1, <1>4, <1>5 DEF ParsedInv
<1>6. CASE k \notin 1..(i - 1)
  <2>1. k = i /\ i' = i + 1 /\ k # 0
    BY <1>1, <1>6 DEF Node
  <2>2. i \in 1..Len(file)
    BY <1>1, <2>1, Moves DEF Node
  <2>3. t[Parent(i)] = t[Top.node] /\ t[Top.node].of = Top.node /\ t[Top.node].kind = Top.kind
    BY TopInTree
  <2>4. Top.node # i
    <3>1. CASE Len(stack) > 1
      BY <1>1, <3>1, TopOpen DEF Node
    <3>2. CASE ~(Len(stack) > 1)
      <4>1. \A n \in Nat \ {0} : ~(n > 1) => n = 1
        OBVIOUS
      <4>2. Len(stack) = 1
        BY <3>2, <4>1, StackFacts, Zenon
      <4>3. Top = TopLevel
        BY <4>2, StackFacts, Zenon DEF StackTree
      <4>. QED
        BY <2>1, <4>3 DEF TopLevel
    <3>. QED
      BY <3>1, <3>2
  <2>5. Handles(Top.kind, file[i].name)
    <3>1. IsStart(i) /\ t[i].of = i
      BY <1>4, <2>1
    <3>2. t[i] # t[Parent(i)]
      BY <2>3, <2>4, <3>1
    <3>3. Handles(t[Parent(i)].kind, file[i].name)
      BY <1>1, <2>2, <3>1, <3>2, TreeStep
    <3>. QED
      BY <2>3, <3>3
  <2>6. StartHandled
    <3>1. file[i].op = "start"
      BY <1>4, <2>1 DEF IsStart
    <3>2. i' # i
      BY <1>1, <2>1 DEF Node
    <3>3. ~StartPanics /\ ~Return /\ ~UNCHANGED vars
      BY <3>2 DEF StartPanics, Return, vars
    <3>4. ~EndHandled /\ ~EndUnhandled /\ ~ReadText
      BY <3>1 DEF EndHandled, EndUnhandled, ReadText, Reads, CanRead, Token
    <3>5. ~StartUnhandled
      BY <2>5 DEF StartUnhandled, Token
    <3>. QED
      BY <3>3, <3>4, <3>5 DEF Next
  <2>7. t[i].kind = ChildKind(Top.kind, Token.name)
    BY <2>6, PushedInTree
  <2>8. Token.bad /\ Reports(ChildKind(Top.kind, Token.name))
    BY <1>4, <2>1, <2>7 DEF Token
  <2>9. \E e : errs' = Append(errs, e)
    BY <2>6, <2>8 DEF StartHandled
  <2>. QED
    BY <2>9, ErrsGrow
<1>. QED
  BY <1>5, <1>6

LEMMA TreeSame ==
  ASSUME file' = file, isRoot' = isRoot
  PROVE  \A t : IsTree(t)' => IsTree(t)
<1>1. \A k : IsStart(k)' = IsStart(k) /\ Depth(k)' = Depth(k)
  BY FileSame
<1>2. \A k : Parent(k)' = Parent(k)
  BY <1>1 DEF Parent
<1>3. \A k, up : TreeAt(k, up)' = TreeAt(k, up)
  <2>1. \A kind, name : Handles(kind, name)' = Handles(kind, name)
    BY DEF Handles
  <2>2. \A kind, name : ChildKind(kind, name)' = ChildKind(kind, name)
    BY DEF ChildKind
  <2>3. \A kind, n, p : Filled(kind, n, p)' = Filled(kind, n, p)
    BY DEF Filled
  <2>. QED
    BY <1>1, <2>1, <2>2, <2>3, Zenon DEF TreeAt
<1>. QED
  BY <1>2, <1>3 DEF IsTree

LEMMA RootSame ==
  ASSUME [Next]_vars
  PROVE  isRoot' = isRoot
BY DEF Next, vars, StartHandled, StartUnhandled, EndHandled, EndUnhandled, ReadText,
       Reads, StartPanics, Return

LEMMA TreeInvStep ==
  ASSUME Inv, NestInv, KindInv, ReturnInv, TreeInv, [Next]_vars
  PROVE  TreeInv'
<1>1. file' = file /\ (i' = i \/ i' = i + 1) /\ isRoot' = isRoot
  BY Moves, RootSame
<1>2. NoNesting' => NoNesting
  BY <1>1, NoNestingBefore
<1>3. SUFFICES ASSUME NoNesting', NEW t, IsTree(t)' PROVE StackTree(t)' /\ ParsedInv(t)'
  BY DEF TreeInv
<1>4. NoNesting /\ IsTree(t) /\ StackTree(t) /\ ParsedInv(t)
  BY <1>1, <1>2, <1>3, TreeSame DEF TreeInv
<1>. QED
  BY <1>1, <1>4, StackTreeStep, ParsedStep

LEMMA TreeInvInit == Init => ReturnInv /\ TreeInv
<1>. SUFFICES ASSUME Init PROVE ReturnInv /\ TreeInv
  OBVIOUS
<1>1. errs = <<>> /\ result = "none" /\ i = 1
  BY DEF Init, Begin
<1>2. errs \in Seq({})
  BY <1>1
<1>3. ReturnInv
  BY <1>1, <1>2 DEF ReturnInv
<1>4. \A t : ParsedInv(t)
  BY <1>1 DEF ParsedInv
<1>. QED
  BY <1>3, <1>4, StackTreeInit DEF TreeInv

ReadInv == ContentInv /\ ReturnInv /\ TreeInv

LEMMA ReadInvariant == Spec => []ReadInv
<1>1. Init => ReadInv
  BY InvInit, NestInit, CaptureInit, TreeInvInit DEF ReadInv, ContentInv
<1>2. ReadInv /\ [Next]_vars => ReadInv'
  BY InvStep, NestStep, KindStep, CaptureStep, ReturnStep, TreeInvStep DEF ReadInv, ContentInv
<1>. QED
  BY <1>1, <1>2, PTL DEF Spec

(* The decoders that do not report their attributes.                       *)
LEMMA SilentKinds ==
  ASSUME NEW kind \in ElementKinds, ~Reports(kind)
  PROVE  \/ kind[2] \in Silent \ {"top"}
         \/ kind = <<"core", "model">> /\ ~isRoot
<1>1. kind \in Kinds /\ kind # TopKind
  BY DEF ElementKinds
<1>2. FitsTable(kind[2], DecoderOf(kind))
  BY <1>1, DecoderFits
<1>3. \/ kind \in {"core"} \X DOMAIN CoreDecoders
      \/ kind \in {"materials"} \X DOMAIN MaterialsDecoders
      \/ kind \in {"slices"} \X DOMAIN SlicesDecoders
      \/ kind \in {"beamlattice"} \X DOMAIN LatticeDecoders
  BY <1>1 DEF Kinds, ExtNames, In
<1>4. kind[2] = "top" => kind = TopKind
  BY <1>3, MaterialsKinds, SlicesKinds, LatticeKinds DEF TopKind
<1>5. kind[2] = "model" => kind = <<"core", "model">>
  BY <1>3, MaterialsKinds, SlicesKinds, LatticeKinds
<1>. QED
  BY <1>1, <1>2, <1>4, <1>5 DEF FitsTable, Reports

(***************************************************************************)
(* A call that returns nil has met no handled element with an attribute    *)
(* that does not parse: no error of a handler is lost, in any file in      *)
(* which no element nests in one of its name.                              *)
(***************************************************************************)
THEOREM NilAlwaysMeansParsed == Spec => []NilMeansParsed
<1>1. ReadInv => NilMeansParsed
  <2>. SUFFICES ASSUME ReadInv, result = "nil", NamesDoNotNest,
                       NEW d \in InTree, d.of # 0, file[d.of].bad
                PROVE  \/ d.kind[2] \in Silent \ {"top"}
                       \/ d.kind = <<"core", "model">> /\ ~isRoot
    BY DEF NilMeansParsed, Silent
  <2>1. /\ file \in Seq(Tokens) /\ errs = <<>> /\ i \notin DOMAIN file /\ open = <<>>
        /\ i \in Node /\ i - 1 \in 0..Len(file)
    BY DEF ReadInv, ContentInv, Inv, OpenInv, NestInv, ReturnInv
  <2>2. PICK t : IsTree(t) /\ InTree = {t[k] : k \in {k \in DOMAIN file : IsStart(k)}}
    BY <2>1, TreeIs
  <2>3. PICK k \in DOMAIN file : d = t[k]
    BY <2>2
  <2>4. PICK m : m = d.of
    OBVIOUS
  <2>5. k \in 0..Len(file) /\ k \in 1..Len(file)
    BY <2>1
  <2>6. IsOf(t, k)
    BY <2>1, <2>2, <2>5, TreeOf
  <2>7. m \in 1..k /\ t[m] = d /\ IsStart(m) /\ d.kind \in ElementKinds
    BY <2>3, <2>4, <2>5, <2>6 DEF IsOf
  <2>8. m \in 1..(i - 1)
    BY <2>1, <2>5, <2>7 DEF Node
  <2>9. ParsedInv(t)
    BY <2>1, <2>2, NamesDoNotNestHere DEF ReadInv, ContentInv, TreeInv
  <2>10. ~Reports(d.kind)
    BY <2>1, <2>4, <2>7, <2>8, <2>9 DEF ParsedInv
  <2>. QED
    BY <2>7, <2>10, SilentKinds
<1>. QED
  BY <1>1, ReadInvariant, PTL

-----------------------------------------------------------------------------
(***************************************************************************)
(* What the structs hold so far.  A field has the elements of the tree     *)
(* that a decoder was made for and that it keeps, those that are kept at   *)
(* their end once they are no longer on the stack.                         *)
(***************************************************************************)
Made(t, m) == IsStart(m) /\ t[m].of = m

OnStack == {stack[j].node : j \in 1..Len(stack)}

Kept(t, p, f) ==
  {m \in 1..(i - 1) :
     /\ Made(t, m) /\ t[m].parent = p /\ Keeps(t[m], f)
     /\ DecoderOf(t[m].kind).keeps = "end" => m \notin OnStack}

OneLatticeIn(t) == OneLattice({t[k] : k \in {k \in DOMAIN file : IsStart(k)}})

GroupAt(j) == IsGroup(DecoderOf(stack[j].kind))

(* The decoders on the stack fill the structs of the tree, and what is     *)
(* above a group fills its struct or that of an element inside it.         *)
FillsInv(t) ==
  /\ \A k \in 1..Len(stack) :
       /\ stack[k].parent = t[stack[k].node].parent /\ stack[k].fills = t[stack[k].node].fills
       /\ stack[k].fills <= stack[k].node
       /\ DecoderOf(stack[k].kind).fills \in DOMAIN Shared => \A j \in 1..k : ~GroupAt(j)
       /\ \A j \in 1..k : GroupAt(j) => stack[k].fills >= stack[j].node
  /\ \A k \in 2..Len(stack) :
       stack[k].parent < stack[k].node /\ stack[k].parent = stack[k - 1].fills

SlotsInv(t) == \A p, f : Slot(p, f) \in Seq(Int) /\ Holds(p, f, Kept(t, p, f))

(* What is still to be kept will be the last of its field, and what is     *)
(* counted as the last one kept is that.                                   *)
BeingRead(j, p, f) ==
  GroupAt(j) /\ stack[j].parent = p /\ DecoderOf(stack[j].kind).field = f

PlaceInv(t) ==
  \A j \in 1..Len(stack) : \A p, f :
    BeingRead(j, p, f) => \A m \in Kept(t, p, f) : m <= stack[j].node

LEMMA StackOrder ==
  ASSUME Inv, NEW t, StackTree(t)
  PROVE  /\ \A k \in 1..Len(stack) :
              /\ stack[k].node \in Nat /\ stack[k].node < i
              /\ k > 1 => stack[k].node \in Node /\ stack[k].node \in Range(open)
         /\ \A j, k \in 1..Len(stack) : j < k => stack[j].node < stack[k].node
<1>1. /\ Len(stack) \in Nat \ {0} /\ i \in Node /\ stack[1] = TopLevel
      /\ Nodes(stack) \in Seq(Int) /\ Len(Nodes(stack)) = Len(stack) - 1
  BY StackFacts DEF Inv, OpenInv, StackTree
<1>2. DOMAIN Nodes(stack) = 1..(Len(stack) - 1)
  BY DEF Nodes
<1>3. stack[1].node = 0
  <2>1. TopLevel.node = 0
    BY DEF TopLevel
  <2>. QED
    BY <1>1, <2>1
<1>4. \A m \in Range(open) : m \in Node /\ m < i
  BY DEF Inv, OpenInv, Range
<1>5. ASSUME NEW k \in 2..Len(stack)
      PROVE  /\ stack[k].node \in Range(open)
             /\ k - 1 \in DOMAIN Nodes(stack) /\ Nodes(stack)[k - 1] = stack[k].node
  <2>1. k - 1 \in 1..(Len(stack) - 1) /\ (k - 1) + 1 = k
    BY <1>1
  <2>2. Nodes(stack)[k - 1] = stack[k].node
    BY <2>1 DEF Nodes
  <2>3. stack[k].node \in Range(Nodes(stack))
    BY <1>2, <2>1, <2>2 DEF Range
  <2>. QED
    BY <1>2, <2>1, <2>2, <2>3 DEF Inv, StackInv
<1>6. \A k \in 1..Len(stack) : k = 1 \/ k \in 2..Len(stack)
  BY <1>1
<1>7. ASSUME NEW k \in 1..Len(stack)
      PROVE  /\ stack[k].node \in Nat /\ stack[k].node < i
             /\ k > 1 => stack[k].node \in Node /\ stack[k].node \in Range(open)
  <2>1. CASE k = 1
    BY <1>1, <1>3, <2>1 DEF Node
  <2>2. CASE k \in 2..Len(stack)
    BY <1>4, <1>5, <2>2 DEF Node
  <2>. QED
    BY <1>6, <2>1, <2>2
<1>8. ASSUME NEW j \in 1..Len(stack), NEW k \in 1..Len(stack), j < k
      PROVE  stack[j].node < stack[k].node
  <2>1. k \in 2..Len(stack)
    BY <1>1, <1>8
  <2>2. CASE j = 1
    BY <1>3, <1>4, <1>5, <2>1, <2>2 DEF Node
  <2>3. CASE j \in 2..Len(stack)
    <3>1. j - 1 < k - 1
      BY <1>8
    <3>. QED
      BY <1>5, <2>1, <2>3, <3>1 DEF Inv, StackInv, Increasing
  <2>. QED
    BY <1>6, <2>2, <2>3
<1>. QED
  BY <1>7, <1>8

(* The decoder that is made for an element, as the tree has it.            *)
LEMMA MadeHandled ==
  ASSUME file \in Seq(Tokens), NEW t, IsTree(t), NEW k \in 1..Len(file), Made(t, k)
  PROVE  /\ Handles(t[Parent(k)].kind, file[k].name) /\ t[Parent(k)].kind \in Kinds
         /\ t[k].kind = ChildKind(t[Parent(k)].kind, file[k].name)
         /\ t[k].parent = t[Parent(k)].fills
         /\ t[k].fills = Filled(t[k].kind, k, t[k].parent)
         /\ t[k].kind \in ElementKinds /\ file[k].name \in Names
         /\ t[k].parent \in Structs
<1>1. Parent(k) \in 0..(k - 1) /\ Parent(k) \in 0..Len(file)
  BY TreeStep
<1>2. t[Parent(k)].of \in 0..Parent(k)
  BY <1>1, TreeOf DEF IsOf
<1>3. IsStart(k) /\ t[k].of = k
  BY DEF Made
<1>4. t[k] # t[Parent(k)]
  BY <1>1, <1>2, <1>3
<1>5. Handles(t[Parent(k)].kind, file[k].name)
  BY <1>3, <1>4, TreeStep
<1>6. t[Parent(k)] \in TreeNodes
  BY <1>1 DEF IsTree
<1>7. t[Parent(k)].kind \in Kinds /\ t[Parent(k)].fills \in Structs
  BY <1>6 DEF TreeNodes
<1>8. file[k].name \in Names
  BY <1>3, StartNames
<1>. QED
  BY <1>3, <1>5, <1>7, <1>8, TreeStep

LEMMA KindFills ==
  ASSUME NEW kind \in Kinds
  PROVE  FillsTable(kind[2], DecoderOf(kind))
BY DecoderFits DEF FitsTable

(* The elements of the structs that no element makes are children of their *)
(* decoders, not those of an extension or unknown.                         *)
LEMMA SharedHandled ==
  ASSUME NEW kind \in Kinds, NEW name \in Names, Handles(kind, name),
         NEW child, child = ChildKind(kind, name),
         child[2] \in {"top", "model", "build", "resources"}
  PROVE  /\ child \in {<<"core", "model">>, <<"core", "build">>, <<"core", "resources">>}
         /\ child \in DecoderOf(kind).children
<1>1. child \in ElementKinds /\ child \in Kinds
  BY HandledKinds DEF ElementKinds
<1>2. child \in {<<"core", "model">>, <<"core", "build">>, <<"core", "resources">>}
  BY <1>1, MaterialsKinds, SlicesKinds, LatticeKinds DEF ElementKinds, Kinds, ExtNames, In, TopKind
<1>3. name[1] # "unknown"
  <2>1. ASSUME name[1] = "unknown" PROVE FALSE
    <3>1. child \in {<<"core", "any">>, <<"core", "asset">>}
      <4>1. DecoderOf(kind).creates \in {"Model", "Mesh", "Resources"}
        <5>1. FitsTable(kind[2], DecoderOf(kind))
          BY DecoderFits
        <5>2. name \notin ElementKinds
          BY <2>1 DEF ElementKinds, Kinds, ExtNames, In
        <5>. QED
          BY <5>1, <5>2 DEF FitsTable, Handles
      <4>. QED
        BY <2>1, <4>1 DEF ChildKind, Unknown
    <3>. QED
      BY <1>2, <3>1
  <2>. QED
    BY <2>1
<1>4. name = child
  BY <1>3 DEF ChildKind
<1>5. Asserted(name) = "none"
  BY <1>2, <1>4 DEF Asserted, MaterialsCreates, SlicesCreates, LatticeCreates, In
<1>6. name \in DecoderOf(kind).children
  <2>1. DecoderOf(kind).creates # "none" => Asserted(name) # DecoderOf(kind).creates
    BY <1>5
  <2>. QED
    BY <1>3, <2>1 DEF Handles
<1>. QED
  BY <1>2, <1>4, <1>6

(* A struct that no element makes is filled by decoders that are made      *)
(* below the model or the file only.                                       *)
LEMMA SharedBelowModel ==
  ASSUME NEW kind \in Kinds, NEW name \in Names, Handles(kind, name),
         DecoderOf(ChildKind(kind, name)).fills \in DOMAIN Shared
  PROVE  DecoderOf(kind).fills \in DOMAIN Shared
<1>1. DOMAIN Shared = {"model", "build", "resources"}
  BY DEF Shared
<1>2. PICK child : child = ChildKind(kind, name)
  OBVIOUS
<1>3. child \in Kinds
  BY <1>2, HandledKinds DEF ElementKinds
<1>4. child[2] \in {"top", "model", "build", "resources"}
  BY <1>1, <1>2, <1>3, KindFills DEF FillsTable
<1>5. /\ child \in {<<"core", "model">>, <<"core", "build">>, <<"core", "resources">>}
      /\ child \in DecoderOf(kind).children
  BY <1>2, <1>4, SharedHandled
<1>6. DecoderOf(kind).fills = "model"
  BY <1>5, KindFills DEF FillsTable
<1>. QED
  BY <1>1, <1>6

LEMMA StackKept ==
  ASSUME Inv, NestInv, NEW t, StackTree(t), NEW k \in 1..Len(stack), k > 1
  PROVE  stack[k].node \in 1..(i - 1) /\ stack[k].node \in 1..Len(file) /\ Made(t, stack[k].node)
<1>1. stack[k].node \in Node /\ stack[k].node \in Range(open) /\ stack[k].node < i
  BY StackOrder
<1>2. IsStart(stack[k].node) /\ stack[k].node \in 1..(i - 1)
  BY <1>1, OpenInside
<1>3. t[stack[k].node].of = stack[k].node
  BY DEF StackTree
<1>4. i - 1 \in 0..Len(file) /\ file \in Seq(Tokens) /\ i \in Node
  BY DEF NestInv, Inv, OpenInv
<1>5. stack[k].node \in 1..Len(file)
  BY <1>2, <1>4 DEF Node
<1>. QED
  BY <1>2, <1>3, <1>5 DEF Made

(* The elements that have the decoder of a beam lattice.                   *)
LEMMA LatticeElement ==
  ASSUME file \in Seq(Tokens), NEW t, IsTree(t), NEW m \in 1..Len(file), Made(t, m)
  PROVE  /\ file[m].name \in LatticeCreates => t[m].kind = <<"beamlattice", "beamlattice">>
         /\ DecoderOf(t[m].kind).fills = "lattice" =>
              t[m].kind = <<"beamlattice", "beamlattice">> /\ file[m].name \in LatticeCreates
<1>1. /\ t[m].kind = ChildKind(t[Parent(m)].kind, file[m].name)
      /\ Handles(t[Parent(m)].kind, file[m].name) /\ t[Parent(m)].kind \in Kinds
      /\ t[m].kind \in ElementKinds /\ file[m].name \in Names
  BY MadeHandled
<1>2. PICK name : name = file[m].name
  OBVIOUS
<1>3. LatticeCreates = {<<"beamlattice", "beamlattice">>}
  BY DEF LatticeCreates, In
<1>4. ASSUME name \in LatticeCreates PROVE t[m].kind = <<"beamlattice", "beamlattice">>
  <2>1. name = <<"beamlattice", "beamlattice">>
    BY <1>3, <1>4
  <2>2. name[1] # "unknown"
    BY <2>1
  <2>. QED
    BY <1>1, <1>2, <2>1, <2>2 DEF ChildKind
<1>5. ASSUME DecoderOf(t[m].kind).fills = "lattice"
      PROVE  t[m].kind = <<"beamlattice", "beamlattice">> /\ name \in LatticeCreates
  <2>1. t[m].kind \in Kinds
    BY <1>1 DEF ElementKinds
  <2>2. t[m].kind[2] = "beamlattice"
    BY <1>5, <2>1, KindFills DEF FillsTable
  <2>3. t[m].kind = <<"beamlattice", "beamlattice">>
    BY <2>1, <2>2, CoreKinds, MaterialsKinds, SlicesKinds, LatticeKinds DEF Kinds, ExtNames, In
  <2>4. name[1] # "unknown"
    <3>1. ASSUME name[1] = "unknown" PROVE FALSE
      <4>1. name \notin ElementKinds
        BY <3>1 DEF ElementKinds, Kinds, ExtNames, In
      <4>2. FitsTable(t[Parent(m)].kind[2], DecoderOf(t[Parent(m)].kind))
        BY <1>1, DecoderFits
      <4>3. DecoderOf(t[Parent(m)].kind).creates \in {"Model", "Mesh", "Resources"}
        BY <1>1, <1>2, <4>1, <4>2 DEF FitsTable, Handles
      <4>4. t[m].kind \in {<<"core", "any">>, <<"core", "asset">>}
        BY <1>1, <1>2, <3>1, <4>3 DEF ChildKind, Unknown
      <4>. QED
        BY <2>3, <4>4
    <3>. QED
      BY <3>1
  <2>5. name = t[m].kind
    BY <1>1, <1>2, <2>4 DEF ChildKind
  <2>. QED
    BY <1>3, <2>3, <2>5
<1>. QED
  BY <1>2, <1>4, <1>5

(* There is no lattice yet when one starts, in a mesh that has only one.   *)
LEMMA LatticeFresh ==
  ASSUME Inv, NestInv, NEW t, IsTree(t), OneLatticeIn(t), SlotsInv(t),
         i \in 1..Len(file), Made(t, i), DecoderOf(t[i].kind).fills = "lattice"
  PROVE  GetBeamLattice(t[i].parent) = Nowhere
<1>1. file \in Seq(Tokens) /\ i \in Node
  BY DEF Inv, OpenInv
<1>2. PICK p : p = t[i].parent
  OBVIOUS
<1>3. PICK any : any = Slot(p, "Any")
  OBVIOUS
<1>4. Range(any) = Kept(t, p, "Any")
  <2>1. Holds(p, "Any", Kept(t, p, "Any"))
    BY DEF SlotsInv
  <2>. QED
    BY <1>3, <2>1 DEF Holds
<1>5. ASSUME NEW k \in DOMAIN any, file[any[k]].name \in LatticeCreates
      PROVE  FALSE
  <2>1. PICK m : m = any[k]
    OBVIOUS
  <2>2. m \in Kept(t, p, "Any")
    BY <1>4, <2>1 DEF Range
  <2>3. m \in 1..(i - 1) /\ Made(t, m) /\ t[m].parent = p
    BY <2>2 DEF Kept
  <2>4. m \in 1..Len(file) /\ m # i
    BY <1>1, <2>3 DEF Node
  <2>6. t[m].kind = <<"beamlattice", "beamlattice">>
    BY <1>1, <1>5, <2>1, <2>3, <2>4, LatticeElement
  <2>7. t[i].kind = <<"beamlattice", "beamlattice">>
    BY <1>1, LatticeElement
  <2>8. t[m].kind \in LatticeCreates
    BY <2>6 DEF LatticeCreates, In
  <2>9. PICK tree : tree = {t[l] : l \in {l \in DOMAIN file : IsStart(l)}}
    OBVIOUS
  <2>10. t[m] \in tree /\ t[i] \in tree
    <3>1. m \in DOMAIN file /\ i \in DOMAIN file
      BY <1>1, <2>4
    <3>. QED
      BY <2>3, <2>9, <3>1 DEF Made
  <2>11. t[m] = t[i]
    <3>1. OneLattice(tree)
      BY <2>9 DEF OneLatticeIn
    <3>2. t[i].kind = t[m].kind /\ t[m].parent = t[i].parent
      BY <1>2, <2>3, <2>6, <2>7
    <3>. QED
      BY <2>8, <2>10, <3>1, <3>2 DEF OneLattice
  <2>. QED
    BY <2>3, <2>4, <2>11 DEF Made
<1>6. {k \in DOMAIN any : file[any[k]].name \in LatticeCreates} = {}
  BY <1>5
<1>. QED
  BY <1>2, <1>3, <1>6 DEF GetBeamLattice

(* The decoder that a start element makes fills the struct of the tree.    *)
LEMMA PushedFills ==
  ASSUME Inv, NestInv, NEW t, IsTree(t), StackTree(t), OneLatticeIn(t),
         FillsInv(t), SlotsInv(t), StartHandled
  PROVE  \E d : /\ stack' = Append(stack, d) /\ Len(stack') = Len(stack) + 1
                /\ stack'[Len(stack) + 1] = d
                /\ \A k \in 1..Len(stack) : stack'[k] = stack[k]
                /\ d.node = i /\ d.kind = t[i].kind /\ d.parent = t[i].parent
                /\ d.fills = t[i].fills /\ d.parent = Top.fills
<1>1. /\ t[i].of = i /\ t[i].kind = ChildKind(Top.kind, Token.name)
      /\ t[i].parent = t[Top.node].fills
      /\ t[i].fills = Filled(t[i].kind, i, t[i].parent)
      /\ i \in 1..Len(file) /\ IsStart(i)
  BY PushedInTree
<1>2. PICK d : /\ stack' = Append(stack, d) /\ d.node = i
               /\ d.kind = ChildKind(Top.kind, Token.name) /\ d.parent = Top.fills
               /\ d.fills = Fills(d.kind, i, Top.fills)
               /\ Len(stack') = Len(stack) + 1
               /\ stack'[Len(stack) + 1] = d
               /\ \A k \in 1..Len(stack) : stack'[k] = stack[k]
  BY PushedEntry
<1>3. Top.fills = t[i].parent
  <2>1. Len(stack) \in 1..Len(stack) /\ Top = stack[Len(stack)]
    BY StackFacts
  <2>. QED
    BY <1>1, <2>1 DEF FillsInv
<1>4. Made(t, i)
  BY <1>1 DEF Made
<1>5. Fills(t[i].kind, i, t[i].parent) = Filled(t[i].kind, i, t[i].parent)
  BY <1>1, <1>4, LatticeFresh DEF Fills
<1>6. d.kind = t[i].kind /\ d.parent = t[i].parent /\ d.fills = t[i].fills
  BY <1>1, <1>2, <1>3, <1>5
<1>. QED
  BY <1>2, <1>6

(* Decoders that are only popped or left alone.                            *)
LEMMA FillsPrefix ==
  ASSUME NEW t, FillsInv(t), Len(stack) \in Nat, Len(stack') \in Nat, Len(stack') <= Len(stack),
         \A k \in 1..Len(stack') : stack'[k] = stack[k]
  PROVE  FillsInv(t)'
<1>1. \A k \in 1..Len(stack') : k \in 1..Len(stack) /\ \A j \in 1..k : j \in 1..Len(stack')
  OBVIOUS
<1>2. \A k \in 2..Len(stack') : k \in 1..Len(stack') /\ k - 1 \in 1..Len(stack') /\ k \in 2..Len(stack)
  OBVIOUS
<1>3. \A k \in 1..Len(stack') : GroupAt(k)' = GroupAt(k)
  BY DEF GroupAt, IsGroup
<1>4. \A k \in 1..Len(stack') :
       /\ stack'[k].parent = t[stack'[k].node].parent /\ stack'[k].fills = t[stack'[k].node].fills
       /\ stack'[k].fills <= stack'[k].node
       /\ DecoderOf(stack'[k].kind).fills \in DOMAIN Shared => \A j \in 1..k : ~GroupAt(j)'
       /\ \A j \in 1..k : GroupAt(j)' => stack'[k].fills >= stack'[j].node
  BY <1>1, <1>3 DEF FillsInv
<1>5. \A k \in 2..Len(stack') :
       stack'[k].parent < stack'[k].node /\ stack'[k].parent = stack'[k - 1].fills
  BY <1>2 DEF FillsInv
<1>. QED
  BY <1>4, <1>5 DEF FillsInv

LEMMA FillsPushed ==
  ASSUME Inv, NestInv, KindInv, NEW t, IsTree(t), StackTree(t), OneLatticeIn(t),
         FillsInv(t), SlotsInv(t), StartHandled
  PROVE  FillsInv(t)'
<1>1. PICK d : /\ Len(stack') = Len(stack) + 1
               /\ stack'[Len(stack) + 1] = d
               /\ \A k \in 1..Len(stack) : stack'[k] = stack[k]
               /\ d.node = i /\ d.kind = t[i].kind /\ d.parent = t[i].parent
               /\ d.fills = t[i].fills /\ d.parent = Top.fills
  BY PushedFills
<1>2. PICK n \in Nat \ {0} : n = Len(stack) /\ Top = stack[n]
  BY StackFacts
<1>3. /\ t[i].kind = ChildKind(Top.kind, Token.name)
      /\ t[i].fills = Filled(t[i].kind, i, t[i].parent)
      /\ i \in 1..Len(file) /\ IsStart(i) /\ t[i].kind \in ElementKinds
      /\ i \in Node /\ file \in Seq(Tokens)
  BY PushedInTree DEF Inv, OpenInv
<1>4. /\ \A k \in 1..n :
           /\ stack[k].parent = t[stack[k].node].parent /\ stack[k].fills = t[stack[k].node].fills
           /\ stack[k].fills <= stack[k].node
           /\ DecoderOf(stack[k].kind).fills \in DOMAIN Shared => \A j \in 1..k : ~GroupAt(j)
           /\ \A j \in 1..k : GroupAt(j) => stack[k].fills >= stack[j].node
      /\ \A k \in 2..n :
           stack[k].parent < stack[k].node /\ stack[k].parent = stack[k - 1].fills
  BY <1>2 DEF FillsInv
<1>5. /\ \A k \in 1..n : stack[k].node \in Nat /\ stack[k].node < i
      /\ n \in 1..n
  BY <1>2, StackOrder
<1>6. t[i].parent \in Int /\ t[i].parent <= Top.node /\ t[i].parent < i
  <2>1. t[i].parent \in Structs
    <3>1. t[i] \in TreeNodes
      BY <1>3 DEF IsTree
    <3>. QED
      BY <3>1 DEF TreeNodes
  <2>2. t[i].parent \in Int
    BY <2>1 DEF Structs, Node
  <2>3. t[i].parent <= stack[n].node
    BY <1>1, <1>2, <1>4, <1>5
  <2>. QED
    BY <1>2, <1>3, <1>5, <2>2, <2>3 DEF Node
<1>7. DOMAIN Shared = {"model", "build", "resources"}
      /\ Shared["model"] = 0 /\ Shared["build"] = -1 /\ Shared["resources"] = -2
  BY DEF Shared
<1>8. PICK dec : dec = DecoderOf(t[i].kind)
  OBVIOUS
<1>9. FillsTable(t[i].kind[2], dec)
  BY <1>3, <1>8, KindFills DEF ElementKinds
<1>10. t[i].fills = IF dec.fills \in DOMAIN Shared THEN Shared[dec.fills]
                    ELSE IF dec.fills = "parent" THEN t[i].parent ELSE i
  <2>1. "parent" \notin DOMAIN Shared
    BY <1>7
  <2>. QED
    BY <1>3, <1>8, <2>1 DEF Filled
<1>11. t[i].fills <= i
  <2>1. i \in Nat /\ i > 0
    BY <1>3 DEF Node
  <2>2. CASE dec.fills \in DOMAIN Shared
    BY <1>7, <1>10, <2>1, <2>2
  <2>3. CASE dec.fills \notin DOMAIN Shared /\ dec.fills = "parent"
    BY <1>6, <1>10, <2>1, <2>3
  <2>4. CASE dec.fills \notin DOMAIN Shared /\ dec.fills # "parent"
    BY <1>10, <2>1, <2>4
  <2>. QED
    BY <2>2, <2>3, <2>4
<1>12. ASSUME dec.fills \in DOMAIN Shared PROVE ~IsGroup(dec) /\ \A j \in 1..n : ~GroupAt(j)
  <2>1. ~IsGroup(dec)
    BY <1>7, <1>9, <1>12 DEF FillsTable
  <2>2. Top.kind \in Kinds /\ Token.name \in Names /\ Handles(Top.kind, Token.name)
    <3>1. Token.name \in Names
      BY <1>3, StartNames DEF Token
    <3>. QED
      BY <3>1, KindOfTop DEF StartHandled
  <2>3. DecoderOf(Top.kind).fills \in DOMAIN Shared
    BY <1>3, <1>8, <1>12, <2>2, SharedBelowModel
  <2>. QED
    BY <1>2, <1>4, <1>5, <2>1, <2>3
<1>13. \A k \in 1..n : GroupAt(k)' = GroupAt(k)
  BY <1>1, <1>2 DEF GroupAt, IsGroup
<1>14. GroupAt(n + 1)' <=> IsGroup(dec)
  BY <1>1, <1>2, <1>8 DEF GroupAt, IsGroup
<1>15. ASSUME NEW j \in 1..n, GroupAt(j) PROVE t[i].fills >= stack[j].node
  <2>1. dec.fills \notin DOMAIN Shared
    BY <1>12, <1>15
  <2>2. CASE dec.fills = "parent"
    <3>1. stack[n].fills >= stack[j].node
      BY <1>2, <1>4, <1>5, <1>15
    <3>. QED
      BY <1>1, <1>2, <1>10, <2>1, <2>2, <3>1
  <2>3. CASE dec.fills # "parent"
    BY <1>3, <1>5, <1>10, <2>1, <2>3 DEF Node
  <2>. QED
    BY <2>2, <2>3
<1>16. IsGroup(dec) => t[i].fills = i
  <2>1. IsGroup(dec) => dec.fills = "own"
    BY <1>9 DEF FillsTable
  <2>. QED
    BY <1>7, <1>10, <2>1
<1>17. \A k \in 1..Len(stack') : k \in 1..n \/ k = n + 1
  BY <1>1, <1>2
<1>18. \A k \in 1..Len(stack') : \A j \in 1..k : j \in 1..n \/ (j = n + 1 /\ k = n + 1)
  BY <1>1, <1>2
<1>19. ASSUME NEW k \in 1..Len(stack')
       PROVE  /\ stack'[k].parent = t[stack'[k].node].parent /\ stack'[k].fills = t[stack'[k].node].fills
              /\ stack'[k].fills <= stack'[k].node
              /\ DecoderOf(stack'[k].kind).fills \in DOMAIN Shared => \A j \in 1..k : ~GroupAt(j)'
              /\ \A j \in 1..k : GroupAt(j)' => stack'[k].fills >= stack'[j].node
  <2>1. CASE k \in 1..n
    <3>1. stack'[k] = stack[k] /\ \A j \in 1..k : j \in 1..n /\ stack'[j] = stack[j]
      BY <1>1, <1>2, <2>1
    <3>. QED
      BY <1>4, <1>13, <2>1, <3>1
  <2>2. CASE k = n + 1
    <3>1. stack'[k] = d
      BY <1>1, <1>2, <2>2
    <3>2. DecoderOf(stack'[k].kind).fills \in DOMAIN Shared => \A j \in 1..k : ~GroupAt(j)'
      BY <1>1, <1>8, <1>12, <1>13, <1>14, <1>18, <3>1
    <3>3. ASSUME NEW j \in 1..k, GroupAt(j)' PROVE stack'[k].fills >= stack'[j].node
      <4>1. CASE j \in 1..n
        <5>1. GroupAt(j) /\ stack'[j] = stack[j]
          BY <1>1, <1>2, <1>13, <3>3, <4>1
        <5>2. t[i].fills >= stack[j].node
          BY <1>15, <4>1, <5>1
        <5>3. stack'[k].fills = t[i].fills /\ stack'[j].node = stack[j].node
          BY <1>1, <3>1, <5>1
        <5>. QED
          BY <5>2, <5>3, Zenon
      <4>2. CASE j = n + 1
        <5>1. stack'[j] = d /\ IsGroup(dec)
          BY <1>14, <2>2, <3>1, <3>3, <4>2
        <5>2. stack'[k].fills = i /\ stack'[j].node = i
          BY <1>1, <1>16, <3>1, <5>1
        <5>. QED
          BY <1>3, <5>2 DEF Node
      <4>. QED
        BY <1>18, <4>1, <4>2
    <3>. QED
      BY <1>1, <1>11, <3>1, <3>2, <3>3
  <2>. QED
    BY <1>17, <2>1, <2>2
<1>20. ASSUME NEW k \in 2..Len(stack')
       PROVE  stack'[k].parent < stack'[k].node /\ stack'[k].parent = stack'[k - 1].fills
  <2>1. CASE k \in 2..n
    <3>1. k \in 1..n /\ k - 1 \in 1..n
      BY <2>1
    <3>. QED
      BY <1>1, <1>2, <1>4, <2>1, <3>1
  <2>2. CASE k = n + 1
    <3>1. stack'[k] = d /\ stack'[k - 1] = Top
      BY <1>1, <1>2, <1>5, <2>2
    <3>. QED
      BY <1>1, <1>6, <3>1
  <2>3. k \in 2..n \/ k = n + 1
    BY <1>1, <1>2
  <2>. QED
    BY <2>1, <2>2, <2>3
<1>. QED
  BY <1>19, <1>20 DEF FillsInv

-----------------------------------------------------------------------------
(* One field is set, or an element is added to it.                         *)
LEMMA SetSlotIs ==
  ASSUME NEW p, NEW f, NEW s, slots' = SetSlot(p, f, s)
  PROVE  /\ Slot(p, f)' = s
         /\ \A q, g : q # p \/ g # f => Slot(q, g)' = Slot(q, g)
<1>1. slots' = [k \in DOMAIN slots \cup {<<p, f>>} |-> IF k = <<p, f>> THEN s ELSE slots[k]]
  BY DEF SetSlot
<1>2. PICK D : D = DOMAIN slots
  OBVIOUS
<1>3. DOMAIN slots' = D \cup {<<p, f>>}
  BY <1>1, <1>2
<1>4. slots'[<<p, f>>] = s
  BY <1>1
<1>5. ASSUME NEW q, NEW g, q # p \/ g # f PROVE Slot(q, g)' = Slot(q, g)
  <2>1. <<q, g>> # <<p, f>>
    BY <1>5
  <2>2. <<q, g>> \in DOMAIN slots' <=> <<q, g>> \in DOMAIN slots
    BY <1>2, <1>3, <2>1
  <2>3. <<q, g>> \in DOMAIN slots => slots'[<<q, g>>] = slots[<<q, g>>]
    BY <1>1, <2>1
  <2>. QED
    BY <2>2, <2>3 DEF Slot
<1>. QED
  BY <1>3, <1>4, <1>5 DEF Slot

LEMMA HoldsSame ==
  ASSUME NEW p, NEW f, NEW S, Holds(p, f, S), Slot(p, f)' = Slot(p, f)
  PROVE  Holds(p, f, S)'
BY DEF Holds, Increasing, Range

LEMMA HoldsAppend ==
  ASSUME NEW p, NEW f, NEW S, NEW n \in Nat, Slot(p, f) \in Seq(Int), Holds(p, f, S),
         f \notin {"Mesh", "Components"}, \A m \in S : m < n,
         Slot(p, f)' = Append(Slot(p, f), n)
  PROVE  Slot(p, f)' \in Seq(Int) /\ Holds(p, f, S \cup {n})'
<1>1. PICK s \in Seq(Int) : s = Slot(p, f)
  OBVIOUS
<1>2. Increasing(s) /\ Range(s) = S
  BY <1>1 DEF Holds
<1>3. PICK r : r = Append(s, n)
  OBVIOUS
<1>4. \A k \in DOMAIN s : s[k] < n
  BY <1>2 DEF Range
<1>5. Increasing(r) /\ Range(r) = S \cup {n} /\ r \in Seq(Int)
  BY <1>2, <1>3, <1>4, IncreasingAppend
<1>6. Slot(p, f)' = r
  BY <1>1, <1>3
<1>. QED
  BY <1>5, <1>6 DEF Holds, Increasing, Range

LEMMA HoldsOnly ==
  ASSUME NEW p, NEW f, NEW n \in Nat, NEW S, S \subseteq 0..n,
         f \in {"Mesh", "Components"}, Slot(p, f)' = <<n>>
  PROVE  Slot(p, f)' \in Seq(Int) /\ Holds(p, f, S \cup {n})'
<1>1. PICK T : T = S \cup {n}
  OBVIOUS
<1>2. T \subseteq 0..n /\ T # {} /\ n \in T
  BY <1>1
<1>3. Max(T) \in T /\ \A y \in T : y <= Max(T)
  BY <1>2, MaxIs
<1>4. Max(T) = n
  <2>1. PICK x : x = Max(T)
    OBVIOUS
  <2>2. x \in 0..n /\ n <= x
    BY <1>2, <1>3, <2>1
  <2>. QED
    BY <2>1, <2>2
<1>5. <<n>> \in Seq(Int)
  OBVIOUS
<1>. QED
  BY <1>1, <1>2, <1>4, <1>5 DEF Holds

(* What a step adds to the elements kept so far.                           *)
LEMMA KeptIs ==
  ASSUME NEW t, NEW p, NEW f, NEW m
  PROVE  m \in Kept(t, p, f) <=>
           /\ m \in 1..(i - 1) /\ Made(t, m) /\ t[m].parent = p /\ Keeps(t[m], f)
           /\ DecoderOf(t[m].kind).keeps = "end" => m \notin OnStack
BY DEF Kept

LEMMA KeepsSame ==
  ASSUME file' = file
  PROVE  /\ \A d, f : Keeps(d, f)' = Keeps(d, f)
         /\ \A t, m : Made(t, m)' = Made(t, m)
<1>1. \A k : IsStart(k)' = IsStart(k)
  BY FileSame
<1>. QED
  BY <1>1 DEF Keeps, Made

LEMMA KeptSame ==
  ASSUME NEW t, file' = file, i \in Node, OnStack' = OnStack,
         i' = i \/ (i' = i + 1 /\ ~Made(t, i)), NEW p, NEW f
  PROVE  Kept(t, p, f)' = Kept(t, p, f)
<1>1. \A m : m \in 1..(i' - 1) /\ Made(t, m) <=> m \in 1..(i - 1) /\ Made(t, m)
  BY DEF Node
<1>2. \A m : m \in Kept(t, p, f)' <=>
           /\ m \in 1..(i' - 1) /\ Made(t, m) /\ t[m].parent = p /\ Keeps(t[m], f)
           /\ DecoderOf(t[m].kind).keeps = "end" => m \notin OnStack
  BY KeepsSame DEF Kept
<1>3. \A m : m \in Kept(t, p, f)' <=> m \in Kept(t, p, f)
  BY <1>1, <1>2, KeptIs
<1>. QED
  BY <1>3

LEMMA KeptPushed ==
  ASSUME NEW t, file' = file, i \in Node, i' = i + 1, OnStack' = OnStack \cup {i},
         Made(t, i), NEW p, NEW f
  PROVE  /\ t[i].parent = p /\ Keeps(t[i], f) /\ DecoderOf(t[i].kind).keeps # "end" =>
              Kept(t, p, f)' = Kept(t, p, f) \cup {i}
         /\ ~(t[i].parent = p /\ Keeps(t[i], f) /\ DecoderOf(t[i].kind).keeps # "end") =>
              Kept(t, p, f)' = Kept(t, p, f)
<1>1. PICK on : on = OnStack
  OBVIOUS
<1>2. \A m : m \in Kept(t, p, f)' <=>
           /\ m \in 1..(i' - 1) /\ Made(t, m) /\ t[m].parent = p /\ Keeps(t[m], f)
           /\ DecoderOf(t[m].kind).keeps = "end" => m \notin on \cup {i}
  BY <1>1, KeepsSame DEF Kept
<1>3. \A m : m \in 1..(i' - 1) <=> m \in 1..(i - 1) \/ m = i
  BY DEF Node
<1>4. i \notin 1..(i - 1)
  BY DEF Node
<1>5. \A m : m # i => (m \in Kept(t, p, f)' <=> m \in Kept(t, p, f))
  BY <1>1, <1>2, <1>3, KeptIs
<1>6. i \notin Kept(t, p, f)
  BY <1>4, KeptIs
<1>7. i \in Kept(t, p, f)' <=>
        t[i].parent = p /\ Keeps(t[i], f) /\ DecoderOf(t[i].kind).keeps # "end"
  BY <1>2, <1>3
<1>. QED
  BY <1>5, <1>6, <1>7

LEMMA KeptPopped ==
  ASSUME NEW t, file' = file, i \in Node, i' = i + 1, ~IsStart(i),
         NEW n \in 1..(i - 1), n \in OnStack, Made(t, n), OnStack' = OnStack \ {n},
         NEW p, NEW f
  PROVE  /\ t[n].parent = p /\ Keeps(t[n], f) /\ DecoderOf(t[n].kind).keeps = "end" =>
              Kept(t, p, f)' = Kept(t, p, f) \cup {n}
         /\ ~(t[n].parent = p /\ Keeps(t[n], f) /\ DecoderOf(t[n].kind).keeps = "end") =>
              Kept(t, p, f)' = Kept(t, p, f)
<1>1. PICK on : on = OnStack
  OBVIOUS
<1>2. \A m : m \in Kept(t, p, f)' <=>
           /\ m \in 1..(i' - 1) /\ Made(t, m) /\ t[m].parent = p /\ Keeps(t[m], f)
           /\ DecoderOf(t[m].kind).keeps = "end" => m \notin on \ {n}
  BY <1>1, KeepsSame DEF Kept
<1>3. \A m : m \in 1..(i' - 1) /\ Made(t, m) <=> m \in 1..(i - 1) /\ Made(t, m)
  BY DEF Node, Made
<1>4. \A m : m # n => (m \in Kept(t, p, f)' <=> m \in Kept(t, p, f))
  BY <1>1, <1>2, <1>3, KeptIs
<1>5. n \in Kept(t, p, f)' <=> t[n].parent = p /\ Keeps(t[n], f)
  BY <1>2, <1>3
<1>6. n \in Kept(t, p, f) <=>
        t[n].parent = p /\ Keeps(t[n], f) /\ DecoderOf(t[n].kind).keeps # "end"
  BY KeptIs
<1>. QED
  BY <1>4, <1>5, <1>6

LEMMA OnStackPushed ==
  ASSUME NEW d, NEW n \in Nat, n = Len(stack), Len(stack') = n + 1, stack'[n + 1] = d,
         \A k \in 1..n : stack'[k] = stack[k]
  PROVE  OnStack' = OnStack \cup {d.node}
<1>1. \A k \in 1..Len(stack') : k \in 1..n \/ k = n + 1
  OBVIOUS
<1>2. n + 1 \in 1..Len(stack') /\ \A k \in 1..n : k \in 1..Len(stack')
  OBVIOUS
<1>3. ASSUME NEW m \in OnStack' PROVE m \in OnStack \cup {d.node}
  BY <1>1 DEF OnStack
<1>4. ASSUME NEW m \in OnStack PROVE m \in OnStack'
  BY <1>2 DEF OnStack
<1>5. d.node \in OnStack'
  BY <1>2 DEF OnStack
<1>. QED
  BY <1>3, <1>4, <1>5

LEMMA OnStackPopped ==
  ASSUME Inv, NEW t, StackTree(t), Len(stack) > 1, Len(stack') = Len(stack) - 1,
         \A k \in 1..(Len(stack) - 1) : stack'[k] = stack[k]
  PROVE  OnStack' = OnStack \ {Top.node} /\ Top.node \in OnStack
<1>1. PICK n \in Nat \ {0} : n = Len(stack) /\ Top = stack[n]
  BY StackFacts
<1>2. n \in 1..n /\ \A k \in 1..n : k \in 1..(n - 1) \/ k = n
  BY <1>1
<1>3. \A k \in 1..(n - 1) : k \in 1..n /\ k < n
  BY <1>1
<1>4. /\ \A k \in 1..n : stack[k].node \in Nat
      /\ \A j, k \in 1..n : j < k => stack[j].node < stack[k].node
  BY <1>1, StackOrder
<1>5. ASSUME NEW m \in OnStack' PROVE m \in OnStack /\ m # Top.node
  <2>1. PICK k \in 1..(n - 1) : m = stack[k].node
    BY <1>1 DEF OnStack
  <2>2. m < stack[n].node /\ m \in Nat /\ stack[n].node \in Nat
    BY <1>2, <1>3, <1>4, <2>1
  <2>3. m \in OnStack
    BY <1>1, <1>3, <2>1 DEF OnStack
  <2>. QED
    BY <1>1, <2>2, <2>3
<1>6. ASSUME NEW m \in OnStack, m # Top.node PROVE m \in OnStack'
  <2>1. PICK k \in 1..n : m = stack[k].node
    BY <1>1 DEF OnStack
  <2>2. k \in 1..(n - 1)
    BY <1>1, <1>2, <1>6, <2>1
  <2>. QED
    BY <1>1, <2>1, <2>2 DEF OnStack
<1>7. Top.node \in OnStack
  BY <1>1, <1>2 DEF OnStack
<1>. QED
  BY <1>5, <1>6, <1>7

(* What a start element keeps: its element, at the end of its field, or as *)
(* the only one, unless it is kept at its end.                             *)
LEMMA SlotsPushed ==
  ASSUME Inv, NestInv, KindInv, NEW t, IsTree(t), StackTree(t), OneLatticeIn(t),
         FillsInv(t), SlotsInv(t), StartHandled
  PROVE  SlotsInv(t)'
<1>1. /\ file' = file /\ i' = i + 1 /\ i \in Node /\ i \in Nat
  BY DEF StartHandled, Reads, Inv, OpenInv, Node
<1>2. OnStack' = OnStack \cup {i}
  <2>1. PICK d : /\ Len(stack') = Len(stack) + 1 /\ stack'[Len(stack) + 1] = d
                 /\ \A k \in 1..Len(stack) : stack'[k] = stack[k]
                 /\ d.node = i
    BY PushedFills
  <2>2. PICK n \in Nat : n = Len(stack)
    BY StackFacts
  <2>. QED
    BY <2>1, <2>2, OnStackPushed
<1>3. /\ t[i].kind = ChildKind(Top.kind, Token.name) /\ t[i].of = i
      /\ t[i].kind \in ElementKinds /\ Made(t, i)
  BY PushedInTree DEF Made
<1>4. PICK p : p = t[i].parent /\ p = Top.fills
  <2>1. Top.fills = t[i].parent
    BY PushedFills
  <2>. QED
    BY <2>1
<1>5. PICK dec : dec = DecoderOf(t[i].kind)
  OBVIOUS
<1>6. FillsTable(t[i].kind[2], dec)
  BY <1>3, <1>5, KindFills DEF ElementKinds
<1>7. slots' = StartEffect(t[i].kind, i, p)
  BY <1>3, <1>4 DEF StartHandled
<1>8. \A g : Keeps(t[i], g) <=> /\ dec.field = g /\ dec.keeps # "no"
                                /\ dec.keeps = "attr" => ~file[i].bare
  BY <1>3, <1>5 DEF Keeps
<1>9. SUFFICES ASSUME NEW q, NEW g
               PROVE  Slot(q, g)' \in Seq(Int) /\ Holds(q, g, Kept(t, q, g))'
  BY DEF SlotsInv
<1>10. PICK K : K = Kept(t, q, g)
  OBVIOUS
<1>11. PICK L : L = Kept(t, q, g)'
  OBVIOUS
<1>12. Slot(q, g) \in Seq(Int) /\ Holds(q, g, K)
  BY <1>10 DEF SlotsInv
<1>13. K \subseteq 1..(i - 1)
  BY <1>10 DEF Kept
<1>14. \A m \in K : m < i
  BY <1>1, <1>13
<1>15. K \subseteq 0..i
  BY <1>1, <1>13
<1>16. /\ p = q /\ Keeps(t[i], g) /\ dec.keeps # "end" => L = K \cup {i}
       /\ ~(p = q /\ Keeps(t[i], g) /\ dec.keeps # "end") => L = K
  BY <1>1, <1>2, <1>3, <1>4, <1>5, <1>10, <1>11, KeptPushed
<1>17. SUFFICES Slot(q, g)' \in Seq(Int) /\ Holds(q, g, L)'
  BY <1>11 DEF Holds
<1>18. CASE dec.keeps = "only"
  <2>1. slots' = SetSlot(p, dec.field, <<i>>)
    BY <1>5, <1>7, <1>18 DEF StartEffect
  <2>2. PICK s : s = <<i>>
    OBVIOUS
  <2>3. slots' = SetSlot(p, dec.field, s)
    BY <2>1, <2>2
  <2>4. CASE q = p /\ g = dec.field
    <3>1. g \in {"Mesh", "Components"}
      BY <1>6, <1>18, <2>4 DEF FillsTable
    <3>2. Slot(q, g)' = <<i>>
      BY <2>2, <2>3, <2>4, SetSlotIs
    <3>3. L = K \cup {i}
      BY <1>8, <1>16, <1>18, <2>4
    <3>. QED
      BY <1>1, <1>15, <3>1, <3>2, <3>3, HoldsOnly
  <2>5. CASE q # p \/ g # dec.field
    <3>1. Slot(q, g)' = Slot(q, g)
      BY <2>3, <2>5, SetSlotIs
    <3>2. L = K
      BY <1>8, <1>16, <2>5
    <3>. QED
      BY <1>12, <3>1, <3>2, HoldsSame
  <2>. QED
    BY <2>4, <2>5
<1>19. CASE dec.keeps = "start" \/ (dec.keeps = "attr" /\ ~file[i].bare)
  <2>1. slots' = Keep(p, dec.field, i)
    BY <1>5, <1>7, <1>19 DEF StartEffect
  <2>2. PICK s : s = Append(Slot(p, dec.field), i)
    OBVIOUS
  <2>3. slots' = SetSlot(p, dec.field, s)
    BY <2>1, <2>2 DEF Keep
  <2>4. CASE q = p /\ g = dec.field
    <3>1. g \notin {"Mesh", "Components"}
      BY <1>6, <1>19, <2>4 DEF FillsTable
    <3>2. Slot(q, g)' = Append(Slot(q, g), i)
      BY <2>2, <2>3, <2>4, SetSlotIs
    <3>3. L = K \cup {i}
      BY <1>8, <1>16, <1>19, <2>4
    <3>. QED
      BY <1>1, <1>12, <1>14, <3>1, <3>2, <3>3, HoldsAppend
  <2>5. CASE q # p \/ g # dec.field
    <3>1. Slot(q, g)' = Slot(q, g)
      BY <2>3, <2>5, SetSlotIs
    <3>2. L = K
      BY <1>8, <1>16, <2>5
    <3>. QED
      BY <1>12, <3>1, <3>2, HoldsSame
  <2>. QED
    BY <2>4, <2>5
<1>20. CASE dec.keeps \notin {"only", "start"} /\ ~(dec.keeps = "attr" /\ ~file[i].bare)
  <2>1. slots' = slots
    BY <1>5, <1>7, <1>20 DEF StartEffect
  <2>2. Slot(q, g)' = Slot(q, g)
    BY <2>1 DEF Slot
  <2>3. dec.keeps \in {"no", "start", "attr", "only", "end"}
    BY <1>6 DEF FillsTable
  <2>4. L = K
    BY <1>8, <1>16, <1>20, <2>3
  <2>. QED
    BY <1>12, <2>2, <2>4, HoldsSame
<1>. QED
  BY <1>18, <1>19, <1>20

(* What an end element keeps comes after all that its field has.           *)
LEMMA SlotsPopped ==
  ASSUME Inv, NestInv, KindInv, NEW t, IsTree(t), StackTree(t), NoNesting,
         FillsInv(t), SlotsInv(t), PlaceInv(t), EndHandled
  PROVE  SlotsInv(t)'
<1>1. /\ file' = file /\ i' = i + 1 /\ i \in Node /\ ~IsStart(i) /\ Len(stack) > 1
      /\ stack' = Front(stack)
  BY ClosesDecoder DEF EndHandled, Inv, OpenInv, IsStart
<1>2. PICK n : n = Top.node
  OBVIOUS
<1>3. Len(stack) \in 1..Len(stack) /\ Top = stack[Len(stack)]
  BY StackFacts
<1>4. OnStack' = OnStack \ {n} /\ n \in OnStack
  BY <1>1, <1>2, TopPopped, OnStackPopped
<1>5. n \in 1..(i - 1) /\ Made(t, n) /\ t[n].kind = Top.kind /\ t[n].parent = Top.parent
      /\ t[n].of = n /\ n \in Nat
  <2>1. n \in 1..(i - 1) /\ Made(t, n)
    BY <1>1, <1>2, <1>3, StackKept
  <2>2. t[n].kind = Top.kind /\ t[n].of = n
    BY <1>2, <1>3 DEF StackTree
  <2>3. t[n].parent = Top.parent
    BY <1>2, <1>3 DEF FillsInv
  <2>. QED
    BY <2>1, <2>2, <2>3
<1>6. PICK p : p = t[n].parent
  OBVIOUS
<1>7. PICK dec : dec = DecoderOf(Top.kind)
  OBVIOUS
<1>8. FillsTable(Top.kind[2], dec)
  BY <1>7, KindOfTop, KindFills
<1>9. slots' = EndEffect(Top.kind, n, p)
  BY <1>2, <1>5, <1>6 DEF EndHandled
<1>10. \A g : dec.keeps = "end" => (Keeps(t[n], g) <=> dec.field = g)
  BY <1>5, <1>7 DEF Keeps
<1>11. SUFFICES ASSUME NEW q, NEW g
                PROVE  Slot(q, g)' \in Seq(Int) /\ Holds(q, g, Kept(t, q, g))'
  BY DEF SlotsInv
<1>12. PICK K : K = Kept(t, q, g)
  OBVIOUS
<1>13. PICK L : L = Kept(t, q, g)'
  OBVIOUS
<1>14. Slot(q, g) \in Seq(Int) /\ Holds(q, g, K)
  BY <1>12 DEF SlotsInv
<1>15. /\ p = q /\ Keeps(t[n], g) /\ dec.keeps = "end" => L = K \cup {n}
       /\ ~(p = q /\ Keeps(t[n], g) /\ dec.keeps = "end") => L = K
  BY <1>1, <1>4, <1>5, <1>6, <1>7, <1>12, <1>13, KeptPopped
<1>16. SUFFICES Slot(q, g)' \in Seq(Int) /\ Holds(q, g, L)'
  BY <1>13 DEF Holds
<1>17. CASE dec.keeps = "end"
  <2>1. slots' = Keep(p, dec.field, n)
    BY <1>7, <1>9, <1>17 DEF EndEffect
  <2>2. PICK s : s = Append(Slot(p, dec.field), n)
    OBVIOUS
  <2>3. slots' = SetSlot(p, dec.field, s)
    BY <2>1, <2>2 DEF Keep
  <2>4. CASE q = p /\ g = dec.field
    <3>1. g \notin {"Mesh", "Components"}
      BY <1>8, <1>17, <2>4 DEF FillsTable
    <3>2. Slot(q, g)' = Append(Slot(q, g), n)
      BY <2>2, <2>3, <2>4, SetSlotIs
    <3>3. L = K \cup {n}
      BY <1>10, <1>15, <1>17, <2>4
    <3>4. BeingRead(Len(stack), q, g)
      BY <1>3, <1>5, <1>6, <1>7, <1>17, <2>4 DEF BeingRead, GroupAt, IsGroup
    <3>5. \A m \in K : m < n
      <4>1. n \notin K
        BY <1>4, <1>5, <1>7, <1>12, <1>17, KeptIs
      <4>2. \A m \in K : m <= n /\ m \in Nat
        BY <1>2, <1>3, <1>12, <3>4, KeptIs DEF PlaceInv
      <4>. QED
        BY <1>5, <4>1, <4>2
    <3>. QED
      BY <1>5, <1>14, <3>1, <3>2, <3>3, <3>5, HoldsAppend
  <2>5. CASE q # p \/ g # dec.field
    <3>1. Slot(q, g)' = Slot(q, g)
      BY <2>3, <2>5, SetSlotIs
    <3>2. L = K
      BY <1>10, <1>15, <1>17, <2>5
    <3>. QED
      BY <1>14, <3>1, <3>2, HoldsSame
  <2>. QED
    BY <2>4, <2>5
<1>18. CASE dec.keeps # "end"
  <2>1. slots' = slots
    BY <1>7, <1>9, <1>18 DEF EndEffect
  <2>2. Slot(q, g)' = Slot(q, g)
    BY <2>1 DEF Slot
  <2>3. L = K
    BY <1>15, <1>18
  <2>. QED
    BY <1>14, <2>2, <2>3, HoldsSame
<1>. QED
  BY <1>17, <1>18

(* A struct that is still to be kept is not in what a decoder above it     *)
(* fills.                                                                  *)
LEMMA PlaceFree ==
  ASSUME Inv, NestInv, NEW t, IsTree(t), StackTree(t), FillsInv(t),
         NEW j \in 1..Len(stack), NEW k \in 1..Len(stack), j <= k,
         NEW p, NEW f, BeingRead(j, p, f)
  PROVE  stack[k].fills # p
<1>1. PICK n \in Nat \ {0} : n = Len(stack)
  BY StackFacts
<1>2. j # 1
  <2>1. ASSUME j = 1 PROVE FALSE
    <3>1. stack[1].kind = TopKind
      BY DEF Inv, StackInv
    <3>2. ~IsGroup(DecoderOf(TopKind))
      BY DEF IsGroup, DecoderOf, TopKind, CoreDecoders, topLevelDecoder, Plain
    <3>. QED
      BY <2>1, <3>1, <3>2 DEF BeingRead, GroupAt
  <2>. QED
    BY <2>1
<1>3. j \in 2..Len(stack)
  BY <1>1, <1>2
<1>4. p < stack[j].node /\ stack[j].node \in Nat
  BY <1>3, StackOrder DEF FillsInv, BeingRead
<1>5. j \in 1..k
  BY <1>1
<1>6. stack[k].fills >= stack[j].node
  BY <1>5 DEF FillsInv, BeingRead
<1>7. ASSUME stack[k].fills = p PROVE FALSE
  <2>1. p >= stack[j].node
    BY <1>6, <1>7
  <2>2. p \in Int
    <3>1. PICK m : m = stack[j].node
      OBVIOUS
    <3>2. p = t[m].parent
      BY <3>1 DEF FillsInv, BeingRead
    <3>3. m \in 0..Len(file)
      BY <1>1, <1>3, <3>1, StackKept
    <3>4. t[m] \in TreeNodes
      BY <3>3 DEF IsTree
    <3>5. t[m].parent \in Structs
      BY <3>4 DEF TreeNodes
    <3>. QED
      BY <3>2, <3>5 DEF Structs, Node
  <2>. QED
    BY <1>4, <2>1, <2>2
<1>. QED
  BY <1>7

LEMMA PlacePushed ==
  ASSUME Inv, NestInv, KindInv, NEW t, IsTree(t), StackTree(t), OneLatticeIn(t),
         FillsInv(t), SlotsInv(t), PlaceInv(t), StartHandled
  PROVE  PlaceInv(t)'
<1>1. /\ file' = file /\ i' = i + 1 /\ i \in Node /\ i \in Nat
  BY DEF StartHandled, Reads, Inv, OpenInv, Node
<1>2. PICK d : /\ Len(stack') = Len(stack) + 1 /\ stack'[Len(stack) + 1] = d
               /\ \A k \in 1..Len(stack) : stack'[k] = stack[k]
               /\ d.node = i /\ d.kind = t[i].kind /\ d.parent = t[i].parent
               /\ d.parent = Top.fills
  BY PushedFills
<1>3. PICK n \in Nat \ {0} : n = Len(stack) /\ Top = stack[n]
  BY StackFacts
<1>4. OnStack' = OnStack \cup {i}
  BY <1>2, <1>3, OnStackPushed
<1>5. Made(t, i)
  BY PushedInTree DEF Made
<1>6. SUFFICES ASSUME NEW j \in 1..Len(stack'), NEW p, NEW f, BeingRead(j, p, f)',
                      NEW m \in Kept(t, p, f)'
               PROVE  m <= stack'[j].node
  BY DEF PlaceInv
<1>7. PICK K : K = Kept(t, p, f)
  OBVIOUS
<1>8. /\ t[i].parent = p /\ Keeps(t[i], f) /\ DecoderOf(t[i].kind).keeps # "end" =>
           Kept(t, p, f)' = K \cup {i}
      /\ ~(t[i].parent = p /\ Keeps(t[i], f) /\ DecoderOf(t[i].kind).keeps # "end") =>
           Kept(t, p, f)' = K
  BY <1>1, <1>4, <1>5, <1>7, KeptPushed
<1>9. CASE j \in 1..n
  <2>1. stack'[j] = stack[j]
    BY <1>2, <1>3, <1>9
  <2>2. BeingRead(j, p, f)
    BY <1>6, <2>1 DEF BeingRead, GroupAt, IsGroup
  <2>3. Top.fills # p
    <3>1. n \in 1..Len(stack) /\ j \in 1..Len(stack) /\ j <= n
      BY <1>3, <1>9
    <3>. QED
      BY <1>3, <2>2, <3>1, PlaceFree
  <2>4. m \in K
    BY <1>2, <1>6, <1>8, <2>3
  <2>. QED
    BY <1>3, <1>7, <1>9, <2>1, <2>2, <2>4 DEF PlaceInv
<1>10. CASE j = n + 1
  <2>1. stack'[j] = d
    BY <1>2, <1>3, <1>10
  <2>2. m \in K \/ m = i
    BY <1>6, <1>8
  <2>3. m \in K => m \in 1..(i - 1)
    BY <1>7, KeptIs
  <2>. QED
    BY <1>1, <1>2, <2>1, <2>2, <2>3
<1>11. j \in 1..n \/ j = n + 1
  BY <1>2, <1>3
<1>. QED
  BY <1>9, <1>10, <1>11

LEMMA PlacePopped ==
  ASSUME Inv, NestInv, KindInv, NEW t, IsTree(t), StackTree(t), NoNesting,
         FillsInv(t), PlaceInv(t), EndHandled
  PROVE  PlaceInv(t)'
<1>1. /\ file' = file /\ i' = i + 1 /\ i \in Node /\ ~IsStart(i) /\ Len(stack) > 1
      /\ stack' = Front(stack)
  BY ClosesDecoder DEF EndHandled, Inv, OpenInv, IsStart
<1>2. PICK n \in Nat \ {0} : n = Len(stack) /\ Top = stack[n]
  BY StackFacts
<1>3. PICK top : top = Top.node
  OBVIOUS
<1>4. Len(stack') = n - 1 /\ \A k \in 1..(n - 1) : stack'[k] = stack[k]
  BY <1>1, <1>2, TopPopped
<1>5. OnStack' = OnStack \ {top} /\ top \in OnStack
  BY <1>1, <1>2, <1>3, <1>4, OnStackPopped
<1>6. n > 1 /\ n \in 1..Len(stack) /\ n \in 2..Len(stack) /\ n - 1 \in 1..Len(stack)
  BY <1>1, <1>2
<1>7. top \in 1..(i - 1) /\ Made(t, top)
  BY <1>2, <1>3, <1>6, StackKept
<1>8. t[top].parent = stack[n - 1].fills
  BY <1>2, <1>3, <1>6 DEF FillsInv
<1>9. SUFFICES ASSUME NEW j \in 1..(n - 1), NEW p, NEW f, BeingRead(j, p, f)',
                      NEW m \in Kept(t, p, f)'
               PROVE  m <= stack'[j].node
  BY <1>4 DEF PlaceInv
<1>10. PICK K : K = Kept(t, p, f)
  OBVIOUS
<1>11. t[top].parent # p => Kept(t, p, f)' = K
  BY <1>1, <1>5, <1>7, <1>10, KeptPopped
<1>12. stack'[j] = stack[j] /\ j \in 1..Len(stack) /\ j <= n - 1
  BY <1>2, <1>4
<1>13. BeingRead(j, p, f)
  BY <1>9, <1>12 DEF BeingRead, GroupAt, IsGroup
<1>14. stack[n - 1].fills # p
  BY <1>6, <1>12, <1>13, PlaceFree
<1>15. m \in K
  BY <1>8, <1>9, <1>11, <1>14
<1>. QED
  BY <1>10, <1>12, <1>13, <1>15 DEF PlaceInv

(* Any other step reads no element of a decoder.                           *)
LEMMA NotMade ==
  ASSUME Inv, NestInv, NEW t, IsTree(t), StackTree(t),
         StartUnhandled \/ EndUnhandled \/ ReadText
  PROVE  ~Made(t, i) /\ file' = file /\ i' = i + 1 /\ i \in Node /\ stack' = stack /\ slots' = slots
<1>1. /\ file' = file /\ i' = i + 1 /\ i \in Node /\ stack' = stack /\ slots' = slots
      /\ i \in 1..Len(file) /\ file \in Seq(Tokens)
  BY DEF StartUnhandled, EndUnhandled, ReadText, Reads, CanRead, Inv, OpenInv, Node
<1>2. CASE StartUnhandled
  <2>1. ~Handles(Top.kind, file[i].name)
    BY <1>2 DEF StartUnhandled, Token
  <2>2. t[Parent(i)] = t[Top.node] /\ t[Top.node].kind = Top.kind
    BY TopInTree
  <2>. QED
    BY <1>1, <2>1, <2>2, MadeHandled
<1>3. CASE EndUnhandled \/ ReadText
  <2>1. file[i].op # "start"
    BY <1>3 DEF EndUnhandled, ReadText, Reads, CanRead, Token
  <2>. QED
    BY <1>1, <2>1 DEF Made, IsStart
<1>. QED
  BY <1>1, <1>2, <1>3

LEMMA SlotsSkipped ==
  ASSUME NEW t, file' = file, i \in Node, i' = i \/ (i' = i + 1 /\ ~Made(t, i)),
         stack' = stack, slots' = slots, FillsInv(t), SlotsInv(t), PlaceInv(t)
  PROVE  FillsInv(t)' /\ SlotsInv(t)' /\ PlaceInv(t)'
<1>1. OnStack' = OnStack
  BY ONLY stack' = stack DEF OnStack
<1>2. FillsInv(t)'
  <2>1. \A k : GroupAt(k)' = GroupAt(k)
    BY ONLY stack' = stack DEF GroupAt, IsGroup
  <2>. QED
    BY ONLY stack' = stack, FillsInv(t), <2>1 DEF FillsInv
<1>3. SlotsInv(t)'
  <2>. SUFFICES ASSUME NEW p, NEW f
                PROVE  Slot(p, f)' \in Seq(Int) /\ Holds(p, f, Kept(t, p, f))'
    BY DEF SlotsInv
  <2>1. PICK K : K = Kept(t, p, f)
    OBVIOUS
  <2>2. PICK L : L = Kept(t, p, f)'
    OBVIOUS
  <2>3. L = K
    BY <1>1, <2>1, <2>2, KeptSame
  <2>4. Slot(p, f) \in Seq(Int) /\ Holds(p, f, K)
    BY <2>1 DEF SlotsInv
  <2>5. Slot(p, f)' = Slot(p, f)
    BY DEF Slot
  <2>6. Holds(p, f, L)'
    BY <2>3, <2>4, <2>5, HoldsSame
  <2>. QED
    BY <2>2, <2>4, <2>5, <2>6 DEF Holds
<1>4. PlaceInv(t)'
  <2>. SUFFICES ASSUME NEW j \in 1..Len(stack'), NEW p, NEW f, BeingRead(j, p, f)',
                       NEW m \in Kept(t, p, f)'
                PROVE  m <= stack'[j].node
    BY DEF PlaceInv
  <2>1. m \in Kept(t, p, f)
    BY <1>1, KeptSame
  <2>2. BeingRead(j, p, f)
    BY DEF BeingRead, GroupAt, IsGroup
  <2>. QED
    BY <2>1, <2>2 DEF PlaceInv
<1>. QED
  BY <1>2, <1>3, <1>4

-----------------------------------------------------------------------------
(***************************************************************************)
(* The value of a metadata element is a text of it, as far as it was read: *)
(* its decoder is on top until its end.                                    *)
(***************************************************************************)
MetadataKind == <<"core", "metadata">>

Texts(m, k) == {j \in m..k : file[j].op = "text"}

TextAt(m, k) ==
  /\ m \in DOMAIN text <=> Texts(m, k) # {}
  /\ m \in DOMAIN text => text[m] \in Texts(m, k)

TextInv(t) ==
  /\ DOMAIN text \subseteq 1..(i - 1)
  /\ \A m \in 1..(i - 1) : Made(t, m) /\ t[m].kind = MetadataKind =>
       \E k \in m..(i - 1) :
         /\ (k = i - 1 /\ m = Top.node /\ Len(stack) > 1) \/ EndsAt(m, k)
         /\ TextAt(m, k)

LEMMA TextsNext ==
  ASSUME i \in Node, NEW m \in 1..(i - 1)
  PROVE  /\ file[i].op # "text" => Texts(m, i) = Texts(m, i - 1)
         /\ file[i].op = "text" => Texts(m, i) = Texts(m, i - 1) \cup {i}
<1>1. \A j : j \in m..i <=> j \in m..(i - 1) \/ j = i
  BY DEF Node
<1>. QED
  BY <1>1 DEF Texts

LEMMA MetadataOnTop ==
  ASSUME NEW name, Handles(MetadataKind, name)
  PROVE  FALSE
<1>1. MetadataKind \in Kinds /\ MetadataKind[2] = "metadata"
  BY CoreKinds DEF MetadataKind, Kinds, In
<1>. QED
  BY <1>1, KindFills DEF FillsTable, Handles

(* The text of the other elements is left alone.                           *)
LEMMA TextMoves ==
  ASSUME NEW m, [Next]_vars, ~(ReadText /\ Top.kind = MetadataKind /\ m = Top.node)
  PROVE  (m \in DOMAIN text' <=> m \in DOMAIN text) /\ (m \in DOMAIN text => text'[m] = text[m])
<1>1. CASE ReadText
  BY <1>1 DEF ReadText, MetadataKind
<1>2. CASE ~ReadText
  BY <1>2 DEF Next, vars, StartHandled, StartUnhandled, StartPanics, EndHandled, EndUnhandled, Return
<1>. QED
  BY <1>1, <1>2

LEMMA TextStep ==
  ASSUME Inv, NestInv, KindInv, NEW t, IsTree(t), StackTree(t), NoNesting, TextInv(t), [Next]_vars
  PROVE  TextInv(t)'
<1>1. /\ file' = file /\ (i' = i \/ i' = i + 1) /\ i \in Node /\ file \in Seq(Tokens)
      /\ \A m, k : EndsAt(m, k)' = EndsAt(m, k)
      /\ \A m, k : Texts(m, k)' = Texts(m, k)
  BY Moves, FileSame DEF Inv, OpenInv, Texts
<1>2. \A m : Made(t, m)' = Made(t, m)
  BY <1>1, KeepsSame
<1>3. Top.kind = MetadataKind => Len(stack) > 1
  <2>1. ASSUME ~(Len(stack) > 1) PROVE Top.kind # MetadataKind
    <3>1. \A n \in Nat \ {0} : ~(n > 1) => n = 1
      OBVIOUS
    <3>2. Len(stack) = 1
      BY <2>1, <3>1, StackFacts, Zenon
    <3>3. Top = stack[1]
      BY <3>2, StackFacts, Zenon
    <3>4. Top.kind = TopKind
      BY <3>3 DEF Inv, StackInv
    <3>. QED
      BY <3>4 DEF TopKind, MetadataKind
  <2>. QED
    BY <2>1
<1>4. ASSUME Len(stack) > 1
      PROVE  /\ Top.node \in 1..(i - 1) /\ Inside(Top.node, i)
             /\ t[Top.node].kind = Top.kind
  BY <1>4, TopOpen, OpenInside, TopInTree
<1>5. DOMAIN text' \subseteq 1..(i' - 1)
  <2>1. ASSUME NEW m \in DOMAIN text' PROVE m \in 1..(i - 1)
    <3>1. CASE ReadText /\ Top.kind = MetadataKind /\ m = Top.node
      BY <1>3, <1>4, <3>1
    <3>2. CASE ~(ReadText /\ Top.kind = MetadataKind /\ m = Top.node)
      BY <2>1, <3>2, TextMoves DEF TextInv
    <3>. QED
      BY <3>1, <3>2
  <2>2. 1..(i - 1) \subseteq 1..(i' - 1)
    BY <1>1 DEF Node
  <2>. QED
    BY <2>1, <2>2
<1>6. SUFFICES ASSUME NEW m \in 1..(i' - 1), Made(t, m), t[m].kind = MetadataKind
               PROVE  \E k \in m..(i' - 1) :
                        /\ (k = i' - 1 /\ m = Top'.node /\ Len(stack') > 1) \/ EndsAt(m, k)
                        /\ TextAt(m, k)'
  BY <1>1, <1>2, <1>5 DEF TextInv
<1>7. CASE m \notin 1..(i - 1)
  <2>1. m = i /\ i' = i + 1 /\ i' - 1 = i
    BY <1>1, <1>6, <1>7 DEF Node
  <2>2. i \in DOMAIN file
    BY <1>1, <2>1, Moves DEF Node
  <2>3. StartHandled
    <3>1. ~(StartUnhandled \/ EndUnhandled \/ ReadText)
      BY <1>6, <2>1, NotMade
    <3>2. ~EndHandled
      <4>1. file[i].op = "start"
        BY <1>6, <2>1 DEF Made, IsStart
      <4>. QED
        BY <4>1 DEF EndHandled, Reads, CanRead, Token
    <3>3. i' # i
      BY <1>1, <2>1 DEF Node
    <3>. QED
      BY <3>1, <3>2, <3>3 DEF Next, vars, StartPanics, Return
  <2>4. Top'.node = i /\ Len(stack') > 1
    <3>1. \E d : /\ stack' = Append(stack, d) /\ d.node = i
                /\ d.kind = ChildKind(Top.kind, Token.name) /\ d.parent = Top.fills
                /\ d.fills = Fills(d.kind, i, Top.fills)
                /\ Top' = d /\ Len(stack') = Len(stack) + 1
                /\ stack'[Len(stack) + 1] = d
                /\ \A k \in 1..Len(stack) : stack'[k] = stack[k]
      BY <2>3, PushedEntry
    <3>2. PICK d : d.node = i /\ Top' = d /\ Len(stack') = Len(stack) + 1
      BY <3>1
    <3>. QED
      BY <3>2, StackFacts
  <2>5. Texts(m, m) = {}
    <3>1. file[m].op = "start" /\ m..m = {m}
      BY <1>1, <1>6, <2>1 DEF Made, IsStart, Node
    <3>. QED
      BY <3>1 DEF Texts
  <2>6. m \notin DOMAIN text'
    <3>1. ~ReadText
      BY <2>3 DEF StartHandled, ReadText, Reads, CanRead
    <3>2. m \notin DOMAIN text
      BY <1>1, <1>7 DEF TextInv
    <3>. QED
      BY <3>1, <3>2, TextMoves
  <2>7. TextAt(m, m)'
    BY <1>1, <2>5, <2>6 DEF TextAt
  <2>8. m \in m..(i' - 1) /\ m = i' - 1
    BY <1>1, <2>1 DEF Node
  <2>. QED
    BY <2>1, <2>4, <2>7, <2>8
<1>8. CASE m \in 1..(i - 1)
  <2>1. PICK k \in m..(i - 1) :
          /\ (k = i - 1 /\ m = Top.node /\ Len(stack) > 1) \/ EndsAt(m, k)
          /\ TextAt(m, k)
    BY <1>6, <1>8 DEF TextInv
  <2>2. k \in m..(i' - 1) /\ m \in Node /\ k \in Node /\ m <= k /\ k < i
    BY <1>1, <1>8 DEF Node
  <2>3. CASE EndsAt(m, k)
    <3>1. ~(ReadText /\ Top.kind = MetadataKind /\ m = Top.node)
      BY <1>1, <1>3, <1>4, <2>2, <2>3, OutsideAfterEnd
    <3>2. TextAt(m, k)'
      <4>1. (m \in DOMAIN text' <=> m \in DOMAIN text) /\ (m \in DOMAIN text => text'[m] = text[m])
        BY <3>1, TextMoves
      <4>. QED
        BY <1>1, <2>1, <4>1 DEF TextAt
    <3>. QED
      BY <2>2, <2>3, <3>2
  <2>4. CASE k = i - 1 /\ m = Top.node /\ Len(stack) > 1
    <3>1. Top.kind = MetadataKind
      BY <1>4, <1>6, <2>4
    <3>2. ~StartHandled
      BY <3>1, MetadataOnTop DEF StartHandled
    <3>3. CASE ReadText
      <4>1. i' = i + 1 /\ stack' = stack /\ file[i].op = "text"
        BY <3>3 DEF ReadText, Reads, CanRead, Token
      <4>2. PICK l : l = i
        OBVIOUS
      <4>3. l = i' - 1 /\ l \in m..(i' - 1)
        BY <1>1, <1>8, <4>1, <4>2 DEF Node
      <4>4. Texts(m, l) = Texts(m, k) \cup {l}
        BY <1>1, <1>8, <2>4, <4>1, <4>2, TextsNext
      <4>5. m \in DOMAIN text' /\ text'[m] = l
        BY <2>4, <3>1, <3>3, <4>2 DEF ReadText, MetadataKind
      <4>6. TextAt(m, l)'
        BY <1>1, <4>4, <4>5 DEF TextAt
      <4>7. Top' = Top
        BY <4>1 DEF Top
      <4>. QED
        BY <2>4, <4>1, <4>3, <4>6, <4>7
    <3>4. CASE StartUnhandled \/ EndUnhandled \/ EndHandled
      <4>1. i' = i + 1 /\ file[i].op # "text" /\ text' = text
        BY <3>4 DEF StartUnhandled, EndUnhandled, EndHandled, Reads, CanRead, Token
      <4>2. PICK l : l = i
        OBVIOUS
      <4>3. l = i' - 1 /\ l \in m..(i' - 1)
        BY <1>1, <1>8, <4>1, <4>2 DEF Node
      <4>4. Texts(m, l) = Texts(m, k)
        BY <1>1, <1>8, <2>4, <4>1, <4>2, TextsNext
      <4>5. TextAt(m, l)'
        BY <1>1, <2>1, <4>1, <4>4 DEF TextAt
      <4>6. CASE EndHandled
        <5>1. EndsAt(m, l)
          BY <2>4, <4>2, <4>6, ClosesItsOwn
        <5>. QED
          BY <4>3, <4>5, <5>1
      <4>7. CASE StartUnhandled \/ EndUnhandled
        <5>1. stack' = stack /\ Top' = Top
          BY <4>7 DEF StartUnhandled, EndUnhandled, Top
        <5>. QED
          BY <2>4, <4>3, <4>5, <5>1
      <4>. QED
        BY <3>4, <4>6, <4>7
    <3>5. CASE StartPanics \/ Return \/ UNCHANGED vars
      <4>1. i' = i /\ stack' = stack /\ text' = text
        BY <3>5 DEF StartPanics, Return, vars
      <4>2. Top' = Top
        BY <4>1 DEF Top
      <4>3. TextAt(m, k)'
        BY <1>1, <2>1, <4>1 DEF TextAt
      <4>. QED
        BY <2>2, <2>4, <4>1, <4>2, <4>3
    <3>. QED
      BY <3>2, <3>3, <3>4, <3>5 DEF Next
  <2>. QED
    BY <2>1, <2>3, <2>4
<1>. QED
  BY <1>7, <1>8

-----------------------------------------------------------------------------
FieldsInv ==
  NoNesting => \A t : IsTree(t) /\ OneLatticeIn(t) =>
                 FillsInv(t) /\ SlotsInv(t) /\ PlaceInv(t) /\ TextInv(t)

LEMMA FieldsInit ==
  ASSUME Init, NEW t, IsTree(t)
  PROVE  FillsInv(t) /\ SlotsInv(t) /\ PlaceInv(t) /\ TextInv(t)
<1>1. stack = <<TopLevel>> /\ slots = <<>> /\ text = <<>> /\ i = 1
  BY DEF Init, Begin
<1>2. Len(stack) = 1 /\ stack[1] = TopLevel /\ 1..(i - 1) = {}
  BY <1>1
<1>3. TopLevel.node = 0 /\ TopLevel.kind = TopKind /\ TopLevel.parent = 0 /\ TopLevel.fills = 0
  BY DEF TopLevel, Shared
<1>4. t[0].parent = 0 /\ t[0].fills = 0
  BY DEF IsTree, TreeTop, Shared
<1>5. ~IsGroup(DecoderOf(TopKind))
  BY DEF IsGroup, DecoderOf, TopKind, CoreDecoders, topLevelDecoder, Plain
<1>6. ~GroupAt(1)
  BY <1>2, <1>3, <1>5 DEF GroupAt
<1>7. FillsInv(t)
  <2>1. \A k \in 1..Len(stack) : k = 1 /\ \A j \in 1..k : j = 1
    BY <1>2
  <2>2. 2..Len(stack) = {}
    BY <1>2
  <2>3. \A k \in 1..Len(stack) : stack[k] = TopLevel
    BY <1>2, <2>1
  <2>. QED
    BY <1>3, <1>4, <1>6, <2>1, <2>2, <2>3 DEF FillsInv
<1>8. \A p, f : Kept(t, p, f) = {}
  BY <1>2 DEF Kept
<1>9. \A p, f : Slot(p, f) = <<>>
  BY <1>1 DEF Slot
<1>10. SlotsInv(t)
  <2>. SUFFICES ASSUME NEW p, NEW f PROVE Slot(p, f) \in Seq(Int) /\ Holds(p, f, Kept(t, p, f))
    BY DEF SlotsInv
  <2>1. PICK s : s = Slot(p, f)
    OBVIOUS
  <2>2. s \in Seq(Int) /\ DOMAIN s = {}
    <3>1. s = <<>>
      BY <1>9, <2>1
    <3>. QED
      BY <3>1
  <2>3. Increasing(s) /\ Range(s) = {}
    BY <2>2 DEF Increasing, Range
  <2>. QED
    BY <1>8, <2>1, <2>2, <2>3 DEF Holds
<1>11. PlaceInv(t)
  BY <1>8 DEF PlaceInv
<1>12. TextInv(t)
  <2>1. DOMAIN text = {}
    BY <1>1
  <2>. QED
    BY <1>2, <2>1 DEF TextInv
<1>. QED
  BY <1>7, <1>10, <1>11, <1>12

LEMMA FieldsStep ==
  ASSUME ReadInv, FieldsInv, [Next]_vars
  PROVE  FieldsInv'
<1>1. Inv /\ NestInv /\ KindInv /\ TreeInv
  BY DEF ReadInv, ContentInv
<1>2. file' = file /\ (i' = i \/ i' = i + 1) /\ isRoot' = isRoot /\ i \in Node
  BY <1>1, Moves, RootSame DEF Inv, OpenInv
<1>3. NoNesting' => NoNesting
  BY <1>1, <1>2, NoNestingBefore
<1>4. \A t : OneLatticeIn(t)' => OneLatticeIn(t)
  BY <1>2, FileSame DEF OneLatticeIn
<1>5. SUFFICES ASSUME NoNesting', NEW t, IsTree(t)', OneLatticeIn(t)'
               PROVE  FillsInv(t)' /\ SlotsInv(t)' /\ PlaceInv(t)' /\ TextInv(t)'
  BY DEF FieldsInv
<1>6. NoNesting /\ IsTree(t) /\ StackTree(t) /\ OneLatticeIn(t)
  BY <1>1, <1>2, <1>3, <1>4, <1>5, TreeSame DEF TreeInv
<1>7. FillsInv(t) /\ SlotsInv(t) /\ PlaceInv(t) /\ TextInv(t)
  BY <1>6 DEF FieldsInv
<1>8. TextInv(t)'
  BY <1>1, <1>6, <1>7, TextStep
<1>9. CASE StartHandled
  BY <1>1, <1>6, <1>7, <1>8, <1>9, FillsPushed, SlotsPushed, PlacePushed
<1>10. CASE EndHandled
  <2>1. FillsInv(t)'
    <3>1. Len(stack) > 1 /\ Len(stack) \in Nat
      BY <1>1, <1>10, ClosesDecoder, StackFacts
    <3>2. Len(stack') = Len(stack) - 1 /\ \A k \in 1..(Len(stack) - 1) : stack'[k] = stack[k]
      BY <1>1, <1>10, <3>1, TopPopped DEF EndHandled
    <3>. QED
      BY <1>7, <3>1, <3>2, FillsPrefix
  <2>. QED
    BY <1>1, <1>6, <1>7, <1>8, <1>10, <2>1, SlotsPopped, PlacePopped
<1>11. CASE StartUnhandled \/ EndUnhandled \/ ReadText
  BY <1>1, <1>6, <1>7, <1>8, <1>11, NotMade, SlotsSkipped
<1>12. CASE StartPanics \/ Return \/ UNCHANGED vars
  <2>1. i' = i /\ stack' = stack /\ slots' = slots
    BY <1>12 DEF StartPanics, Return, vars
  <2>. QED
    BY <1>2, <1>7, <1>8, <2>1, SlotsSkipped
<1>. QED
  BY <1>9, <1>10, <1>11, <1>12 DEF Next

LEMMA FieldsInvariant == Spec => [](ReadInv /\ FieldsInv)
<1>1. Init => FieldsInv
  BY FieldsInit DEF FieldsInv
<1>2. ReadInv /\ FieldsInv /\ [Next]_vars => FieldsInv'
  BY FieldsStep
<1>. QED
  BY <1>1, <1>2, ReadInvariant, PTL DEF Spec

(***************************************************************************)
(* When a file was read to its end, with errors of handlers or without,    *)
(* the structs hold the content of its tree, each field all its elements   *)
(* in document order, and the metadata their texts: in any file in which   *)
(* no element nests in one of its name and no mesh has two beam lattices.  *)
(***************************************************************************)
THEOREM ContentAlwaysTheTree == Spec => []ContentIsTheTree
<1>1. ReadInv /\ FieldsInv => ContentIsTheTree
  <2>. SUFFICES ASSUME ReadInv, FieldsInv, ReadToTheEnd, NamesDoNotNest,
                       NEW tree, tree = InTree, OneLattice(tree)
                PROVE  /\ \A f \in {DecoderOf(d.kind).field : d \in tree} :
                            \A p \in {d.fills : d \in tree} : Holds(p, f, KeptIn(tree, p, f))
                       /\ \A d \in tree :
                            d.kind = <<"core", "metadata">> /\ Cardinality(TextsIn(d.of)) <= 1 =>
                              TextsIn(d.of) = {text[m] : m \in DOMAIN text \cap {d.of}}
    BY DEF ContentIsTheTree
  <2>1. /\ Inv /\ NestInv /\ TreeInv /\ file \in Seq(Tokens) /\ i \notin DOMAIN file /\ open = <<>>
        /\ i \in Node /\ i - 1 \in 0..Len(file)
    BY DEF ReadInv, ContentInv, Inv, OpenInv, NestInv, ReadToTheEnd
  <2>2. PICK t : IsTree(t) /\ tree = {t[k] : k \in {k \in DOMAIN file : IsStart(k)}}
    BY <2>1, TreeIs
  <2>3. OneLatticeIn(t)
    BY <2>2 DEF OneLatticeIn
  <2>4. NoNesting
    BY <2>1, NamesDoNotNestHere
  <2>5. SlotsInv(t) /\ TextInv(t) /\ StackTree(t)
    BY <2>1, <2>2, <2>3, <2>4 DEF FieldsInv, TreeInv
  <2>6. DOMAIN file = 1..(i - 1) /\ DOMAIN file = 1..Len(file)
    BY <2>1 DEF Node
  <2>7. ~(Len(stack) > 1)
    BY <2>1, TopOpen DEF Range
  <2>8. OnStack \subseteq {0}
    <3>1. ASSUME NEW k \in 1..Len(stack) PROVE stack[k].node = 0
      <4>1. k = 1
        BY <2>1, <2>7, StackFacts
      <4>2. stack[k] = TopLevel
        BY <2>5, <4>1 DEF StackTree
      <4>3. TopLevel.node = 0
        BY DEF TopLevel
      <4>. QED
        BY <4>2, <4>3
    <3>. QED
      BY <3>1 DEF OnStack
  <2>9. ASSUME NEW d \in tree
        PROVE  /\ d.of # 0 => /\ d.of \in 1..(i - 1) /\ Made(t, d.of) /\ t[d.of] = d
               /\ d.of = 0 => d.kind = TopKind
    <3>1. PICK k \in 1..Len(file) : d = t[k]
      BY <2>2, <2>6
    <3>2. k \in 0..Len(file) /\ k \in Nat
      BY <3>1
    <3>3. IsOf(t, k)
      BY <2>1, <2>2, <3>2, TreeOf
    <3>4. PICK m : m = d.of
      OBVIOUS
    <3>5. m \in 0..k /\ t[m] = d
      BY <3>1, <3>3, <3>4 DEF IsOf
    <3>6. ASSUME m # 0 PROVE m \in 1..(i - 1) /\ Made(t, m)
      <4>1. IsStart(m)
        BY <3>1, <3>3, <3>4, <3>6 DEF IsOf
      <4>2. m \in 1..Len(file)
        BY <3>1, <3>5, <3>6
      <4>. QED
        BY <2>6, <3>4, <3>5, <4>1, <4>2 DEF Made
    <3>7. ASSUME m = 0 PROVE d.kind = TopKind
      <4>1. d = TreeTop
        BY <3>1, <3>3, <3>4, <3>7 DEF IsOf
      <4>. QED
        BY <4>1 DEF TreeTop
    <3>. QED
      BY <3>4, <3>5, <3>6, <3>7
  <2>10. ASSUME NEW p, NEW f
         PROVE  Holds(p, f, KeptIn(tree, p, f))
    <3>1. ASSUME NEW m \in KeptIn(tree, p, f) PROVE m \in Kept(t, p, f)
      <4>1. PICK d \in tree : m = d.of /\ d.parent = p /\ Keeps(d, f)
        BY DEF KeptIn
      <4>2. m # 0
        <5>1. ASSUME m = 0 PROVE FALSE
          <6>1. DecoderOf(TopKind).keeps = "no"
            BY DEF DecoderOf, TopKind, CoreDecoders, topLevelDecoder, Plain
          <6>2. d.kind = TopKind
            BY <2>9, <4>1, <5>1
          <6>. QED
            BY <4>1, <6>1, <6>2 DEF Keeps
        <5>. QED
          BY <5>1
      <4>3. m \in 1..(i - 1) /\ Made(t, m) /\ t[m] = d
        BY <2>9, <4>1, <4>2
      <4>4. m \notin OnStack
        BY <2>8, <4>2
      <4>. QED
        BY <4>1, <4>3, <4>4, KeptIs
    <3>2. ASSUME NEW m \in Kept(t, p, f) PROVE m \in KeptIn(tree, p, f)
      <4>1. m \in 1..(i - 1) /\ Made(t, m) /\ t[m].parent = p /\ Keeps(t[m], f)
        BY KeptIs
      <4>2. t[m] \in tree /\ t[m].of = m
        BY <2>2, <2>6, <4>1 DEF Made
      <4>. QED
        BY <4>1, <4>2 DEF KeptIn
    <3>3. KeptIn(tree, p, f) = Kept(t, p, f)
      BY <3>1, <3>2
    <3>. QED
      BY <2>5, <3>3 DEF SlotsInv
  <2>11. ASSUME NEW d \in tree, d.kind = <<"core", "metadata">>, Cardinality(TextsIn(d.of)) <= 1
         PROVE  TextsIn(d.of) = {text[m] : m \in DOMAIN text \cap {d.of}}
    <3>1. PICK n : n = d.of
      OBVIOUS
    <3>2. n # 0
      BY <2>9, <2>11, <3>1 DEF TopKind
    <3>3. n \in 1..(i - 1) /\ Made(t, n) /\ t[n].kind = MetadataKind
      BY <2>9, <2>11, <3>1, <3>2 DEF MetadataKind
    <3>4. PICK k \in n..(i - 1) : EndsAt(n, k) /\ TextAt(n, k)
      BY <2>5, <2>7, <3>3 DEF TextInv
    <3>5. n \in Node /\ k \in n..Len(file)
      BY <2>1, <3>3, <3>4 DEF Node
    <3>6. TextsIn(n) = Texts(n, k)
      BY <2>1, <3>4, <3>5, EndFound DEF TextsIn, Texts
    <3>7. IsFiniteSet(Texts(n, k))
      <4>1. Texts(n, k) \subseteq n..k /\ n \in Int /\ k \in Int
        BY <3>3, <3>4 DEF Texts
      <4>. QED
        BY <4>1, FS_Interval, FS_Subset
    <3>8. \A x, y \in Texts(n, k) : x = y
      <4>1. SUFFICES ASSUME NEW x \in Texts(n, k), NEW y \in Texts(n, k), x # y PROVE FALSE
        OBVIOUS
      <4>2. PICK T : T = Texts(n, k)
        OBVIOUS
      <4>3. {x, y} \subseteq T
        BY <4>2
      <4>4. Cardinality({x, y}) = 2
        <5>1. Cardinality({x}) = 1 /\ IsFiniteSet({x})
          BY FS_Singleton
        <5>2. y \notin {x} /\ {x} \cup {y} = {x, y}
          BY <4>1
        <5>3. Cardinality({x} \cup {y}) = Cardinality({x}) + 1
          BY <5>1, <5>2, FS_AddElement
        <5>. QED
          BY <5>1, <5>2, <5>3
      <4>5. Cardinality({x, y}) <= Cardinality(T)
        BY <3>7, <4>2, <4>3, FS_Subset
      <4>6. Cardinality(T) <= 1 /\ Cardinality(T) \in Nat
        BY <2>11, <3>1, <3>6, <3>7, <4>2, FS_CardinalityType
      <4>. QED
        BY <4>4, <4>5, <4>6
    <3>9. CASE n \in DOMAIN text
      <4>1. text[n] \in Texts(n, k)
        BY <3>4, <3>9 DEF TextAt
      <4>2. Texts(n, k) = {text[n]}
        BY <3>8, <4>1
      <4>3. {text[m] : m \in DOMAIN text \cap {n}} = {text[n]}
        BY <3>9
      <4>. QED
        BY <3>1, <3>6, <4>2, <4>3
    <3>10. CASE n \notin DOMAIN text
      <4>1. Texts(n, k) = {}
        BY <3>4, <3>10 DEF TextAt
      <4>2. {text[m] : m \in DOMAIN text \cap {n}} = {}
        BY <3>10
      <4>. QED
        BY <3>1, <3>6, <4>1, <4>2
    <3>. QED
      BY <3>9, <3>10
  <2>. QED
    BY <2>10, <2>11
<1>. QED
  BY <1>1, FieldsInvariant, PTL

-----------------------------------------------------------------------------
(***************************************************************************)
(* The path of an error.  Element n is at its place in the field that      *)
(* keeps it: after those of the document before n that the field keeps.    *)
(***************************************************************************)
LEMMA KindPath ==
  ASSUME NEW kind \in Kinds
  PROVE  PathTable(kind[2], DecoderOf(kind))
BY DecoderFits DEF FitsTable

FieldOf(t, n) == DecoderOf(t[n].kind).field

Before(t, n) ==
  {m \in 1..(n - 1) : Made(t, m) /\ t[m].parent = t[n].parent /\ Keeps(t[m], FieldOf(t, n))}

Place(t, n) == Cardinality(Before(t, n)) + 1

(* The level leads to element n.                                           *)
Leads(t, n, level) ==
  /\ n \in 1..Len(file) /\ Made(t, n) /\ level[1] = FieldOf(t, n)
  /\ \/ DecoderOf(t[n].kind).wraps = "plain"
     \/ /\ level[2] = Place(t, n) /\ Keeps(t[n], FieldOf(t, n))
        /\ DecoderOf(t[n].kind).fills = "own" /\ FieldOf(t, n) \notin PlainFields

(* The path leads to the struct x, along the structs of the tree.          *)
Along(t, path, at) ==
  /\ at[0] = Shared.model
  /\ \A k \in 1..Len(path) : \E n \in 1..Len(file) :
       Leads(t, n, path[k]) /\ t[n].parent = at[k - 1] /\ t[n].fills = at[k]

Route(t, path, x) ==
  /\ \E L : path \in Seq(L)
  /\ \E at : Along(t, path, at) /\ at[Len(path)] = x

LEMMA RouteEmpty ==
  ASSUME NEW t
  PROVE  Route(t, <<>>, Shared.model)
<1>1. <<>> \in Seq({}) /\ Len(<<>>) = 0
  OBVIOUS
<1>2. PICK at : at = [k \in {0} |-> Shared.model]
  OBVIOUS
<1>3. at[0] = Shared.model /\ 1..0 = {}
  BY <1>2
<1>4. Along(t, <<>>, at)
  BY <1>1, <1>3 DEF Along
<1>. QED
  BY <1>1, <1>3, <1>4 DEF Route

LEMMA RouteAppend ==
  ASSUME NEW t, NEW path, NEW p, Route(t, path, p),
         NEW n, NEW level, Leads(t, n, level), t[n].parent = p
  PROVE  Route(t, Append(path, level), t[n].fills)
<1>1. PICK L : path \in Seq(L)
  BY DEF Route
<1>2. PICK at : Along(t, path, at) /\ at[Len(path)] = p
  BY DEF Route
<1>3. PICK m \in Nat : m = Len(path)
  BY <1>1
<1>4. PICK next : next = Append(path, level)
  OBVIOUS
<1>5. /\ next \in Seq(L \cup {level}) /\ Len(next) = m + 1
      /\ \A k \in 1..m : next[k] = path[k]
      /\ next[m + 1] = level
  <2>1. path \in Seq(L \cup {level}) /\ level \in L \cup {level}
    BY <1>1
  <2>. QED
    BY <1>3, <1>4, <2>1
<1>6. PICK to : to = [k \in 0..(m + 1) |-> IF k <= m THEN at[k] ELSE t[n].fills]
  OBVIOUS
<1>7. \A k \in 0..m : to[k] = at[k]
  BY <1>6
<1>8. to[m + 1] = t[n].fills
  BY <1>6
<1>9. Along(t, next, to)
  <2>1. to[0] = Shared.model
    BY <1>2, <1>7 DEF Along
  <2>2. ASSUME NEW k \in 1..Len(next)
        PROVE  \E l \in 1..Len(file) : Leads(t, l, next[k]) /\ t[l].parent = to[k - 1] /\ t[l].fills = to[k]
    <3>1. CASE k \in 1..m
      <4>1. PICK l \in 1..Len(file) : Leads(t, l, path[k]) /\ t[l].parent = at[k - 1] /\ t[l].fills = at[k]
        BY <1>2, <1>3, <3>1 DEF Along
      <4>2. next[k] = path[k] /\ to[k] = at[k] /\ to[k - 1] = at[k - 1]
        BY <1>5, <1>7, <3>1
      <4>. QED
        BY <4>1, <4>2
    <3>2. CASE k = m + 1
      <4>1. n \in 1..Len(file)
        BY DEF Leads
      <4>2. k - 1 = m /\ to[m] = at[m]
        BY <1>7, <3>2
      <4>3. next[k] = level /\ to[k - 1] = p /\ to[k] = t[n].fills
        BY <1>2, <1>3, <1>5, <1>8, <3>2, <4>2
      <4>. QED
        BY <4>1, <4>3
    <3>3. k \in 1..m \/ k = m + 1
      BY <1>5
    <3>. QED
      BY <3>1, <3>2, <3>3
  <2>. QED
    BY <2>1, <2>2 DEF Along
<1>10. to[Len(next)] = t[n].fills
  BY <1>5, <1>8
<1>. QED
  BY <1>4, <1>5, <1>9, <1>10 DEF Route

(* Routes are facts of the file.                                           *)
LEMMA RouteSame ==
  ASSUME file' = file, NEW t, NEW path, NEW x, Route(t, path, x)
  PROVE  Route(t, path, x)'
<1>1. \A d, f : Keeps(d, f)' = Keeps(d, f)
  BY KeepsSame
<1>2. \A m : Made(t, m)' = Made(t, m)
  BY KeepsSame
<1>3. \A n : FieldOf(t, n)' = FieldOf(t, n)
  BY DEF FieldOf
<1>4. \A n : Place(t, n)' = Place(t, n)
  <2>1. ASSUME NEW n PROVE Before(t, n)' = Before(t, n)
    BY <1>1, <1>2, <1>3 DEF Before
  <2>. QED
    BY <2>1 DEF Place
<1>5. \A n, level : Leads(t, n, level)' = Leads(t, n, level)
  BY ONLY file' = file, <1>1, <1>2, <1>3, <1>4 DEF Leads
<1>6. PICK at : Along(t, path, at) /\ at[Len(path)] = x
  BY DEF Route
<1>7. ASSUME NEW k \in 1..Len(path)
      PROVE  \E n \in 1..Len(file') :
               Leads(t, n, path[k])' /\ t[n].parent = at[k - 1] /\ t[n].fills = at[k]
  <2>1. PICK n \in 1..Len(file) : Leads(t, n, path[k]) /\ t[n].parent = at[k - 1] /\ t[n].fills = at[k]
    BY <1>6 DEF Along
  <2>2. Leads(t, n, path[k])' = Leads(t, n, path[k])
    BY <1>5
  <2>. QED
    BY <2>1, <2>2
<1>8. Along(t, path, at)'
  BY <1>6, <1>7 DEF Along
<1>. QED
  BY <1>6, <1>8 DEF Route

(* In an increasing sequence the place of an element counts those below.   *)
LEMMA IncreasingCount ==
  ASSUME NEW s \in Seq(Int), Increasing(s), NEW k \in 0..Len(s)
  PROVE  /\ IsFiniteSet({s[j] : j \in 1..k}) /\ Cardinality({s[j] : j \in 1..k}) = k
         /\ k < Len(s) => {x \in Range(s) : x < s[k + 1]} = {s[j] : j \in 1..k}
         /\ k = Len(s) => Range(s) = {s[j] : j \in 1..k}
<1>1. DOMAIN s = 1..Len(s) /\ Len(s) \in Nat /\ \A j \in 1..Len(s) : s[j] \in Int
  OBVIOUS
<1>. DEFINE First(m) == {s[j] : j \in 1..m}
<1>2. First(0) = {}
  OBVIOUS
<1>3. ASSUME NEW m \in 1..Len(s) PROVE First(m) = First(m - 1) \cup {s[m]} /\ s[m] \notin First(m - 1)
  <2>1. \A j \in 1..m : j \in 1..(m - 1) \/ j = m
    BY <1>1
  <2>2. \A j \in 1..(m - 1) : j \in 1..m /\ j \in DOMAIN s /\ m \in DOMAIN s /\ j < m
    BY <1>1
  <2>3. \A j \in 1..(m - 1) : s[j] < s[m] /\ s[j] \in Int /\ s[m] \in Int
    BY <1>1, <2>2 DEF Increasing
  <2>4. \A j \in 1..(m - 1) : s[j] # s[m]
    BY <2>3
  <2>5. m \in 1..m
    BY <1>1
  <2>6. First(m) = First(m - 1) \cup {s[m]}
    BY <2>1, <2>2, <2>5
  <2>. QED
    BY <2>4, <2>6
<1>4. PICK holds : holds = [m \in 0..Len(s) |-> IsFiniteSet(First(m)) /\ Cardinality(First(m)) = m]
  OBVIOUS
<1>5. holds[0]
  <2>1. IsFiniteSet(First(0)) /\ Cardinality(First(0)) = 0
    BY <1>2, FS_EmptySet, Zenon
  <2>2. 0 \in 0..Len(s)
    BY <1>1
  <2>. QED
    BY <1>4, <2>1, <2>2
<1>6. ASSUME NEW m \in 1..Len(s), holds[m - 1] PROVE holds[m]
  <2>1. m - 1 \in 0..Len(s) /\ m \in 0..Len(s) /\ (m - 1) + 1 = m
    BY <1>1
  <2>2. IsFiniteSet(First(m - 1)) /\ Cardinality(First(m - 1)) = m - 1
    BY <1>4, <1>6, <2>1
  <2>3. PICK F : F = First(m - 1)
    OBVIOUS
  <2>4. First(m) = F \cup {s[m]} /\ s[m] \notin F
    BY <1>3, <2>3
  <2>5. IsFiniteSet(F \cup {s[m]}) /\ Cardinality(F \cup {s[m]}) = Cardinality(F) + 1
    BY <2>2, <2>3, <2>4, FS_AddElement
  <2>6. IsFiniteSet(First(m)) /\ Cardinality(First(m)) = m
    BY <2>1, <2>2, <2>3, <2>4, <2>5
  <2>. QED
    BY <1>4, <2>1, <2>6
<1>7. IsFiniteSet(First(k)) /\ Cardinality(First(k)) = k
  <2>1. \A m \in 0..Len(s) : holds[m]
    BY <1>1, <1>5, <1>6, AllFollow
  <2>. QED
    BY <1>4, <2>1
<1>8. ASSUME k < Len(s) PROVE {x \in Range(s) : x < s[k + 1]} = First(k)
  <2>1. k + 1 \in DOMAIN s
    BY <1>1, <1>8
  <2>2. ASSUME NEW j \in DOMAIN s PROVE s[j] < s[k + 1] <=> j \in 1..k
    <3>1. CASE j \in 1..k
      <4>1. j < k + 1
        BY <3>1
      <4>. QED
        BY <2>1, <3>1, <4>1 DEF Increasing
    <3>2. CASE j = k + 1
      BY <1>1, <2>1, <3>2
    <3>3. CASE j > k + 1
      <4>1. s[k + 1] < s[j]
        BY <1>1, <2>1, <3>3 DEF Increasing
      <4>2. s[j] \in Int /\ s[k + 1] \in Int /\ j \notin 1..k
        BY <1>1, <2>1, <3>3
      <4>. QED
        BY <4>1, <4>2
    <3>. QED
      BY <1>1, <3>1, <3>2, <3>3
  <2>3. \A j \in 1..k : j \in DOMAIN s
    BY <1>1
  <2>4. ASSUME NEW x \in Range(s), x < s[k + 1] PROVE x \in First(k)
    BY <2>2, <2>4 DEF Range
  <2>5. ASSUME NEW x \in First(k) PROVE x \in Range(s) /\ x < s[k + 1]
    BY <2>2, <2>3 DEF Range
  <2>. QED
    BY <2>4, <2>5
<1>9. ASSUME k = Len(s) PROVE Range(s) = First(k)
  BY <1>1, <1>9 DEF Range
<1>. QED
  BY <1>7, <1>8, <1>9

(* The model is filled by the elements of <model> only.                    *)
LEMMA ModelParent ==
  ASSUME file \in Seq(Tokens), NEW t, IsTree(t), NEW k \in 1..Len(file), Made(t, k),
         DecoderOf(t[k].kind).fills = "model"
  PROVE  t[k].parent = Shared.model /\ t[k].fills = Shared.model
<1>1. PICK up : up = t[Parent(k)]
  OBVIOUS
<1>2. /\ Handles(up.kind, file[k].name) /\ up.kind \in Kinds /\ file[k].name \in Names
      /\ t[k].kind = ChildKind(up.kind, file[k].name) /\ t[k].kind \in ElementKinds
      /\ t[k].parent = up.fills /\ t[k].fills = Filled(t[k].kind, k, t[k].parent)
  BY <1>1, MadeHandled
<1>3. t[k].kind \in Kinds
  BY <1>2 DEF ElementKinds
<1>4. t[k].kind[2] \in {"top", "model"}
  BY <1>3, KindPath DEF PathTable
<1>5. /\ t[k].kind \in {<<"core", "model">>, <<"core", "build">>, <<"core", "resources">>}
      /\ t[k].kind \in DecoderOf(up.kind).children
  BY <1>2, <1>4, SharedHandled
<1>6. t[k].kind = <<"core", "model">>
  BY <1>4, <1>5
<1>7. up.kind[2] = "top"
  BY <1>2, <1>5, <1>6, KindPath DEF PathTable
<1>8. up.kind = TopKind
  <2>1. up.kind \in In("core", DOMAIN CoreDecoders) \cup ExtNames
    BY <1>2 DEF Kinds
  <2>2. up.kind \notin ExtNames
    BY <1>7, MaterialsKinds, SlicesKinds, LatticeKinds DEF ExtNames, In
  <2>. QED
    BY <1>7, <2>1, <2>2 DEF In, TopKind
<1>9. up = TreeTop
  <2>1. PICK q : q = Parent(k)
    OBVIOUS
  <2>2. q \in 0..Len(file)
    BY <2>1, TreeStep
  <2>3. IsOf(t, q)
    BY <2>2, TreeOf
  <2>. QED
    BY <1>1, <1>8, <2>1, <2>3 DEF IsOf, ElementKinds
<1>10. t[k].parent = Shared.model
  BY <1>2, <1>9 DEF TreeTop
<1>11. t[k].fills = Shared.model
  BY <1>2 DEF Filled, Shared
<1>. QED
  BY <1>10, <1>11

(* A decoder that adds no level passes on the struct of the one below.     *)
PassInv ==
  \A k \in 1..(Len(stack) - 1) :
    DecoderOf(stack[k].kind).wraps = "no" => stack[k].fills = stack[k].parent

LEMMA TopPasses ==
  ASSUME Inv, NestInv, KindInv, NEW t, IsTree(t), StackTree(t), FillsInv(t),
         NEW name \in Names, Handles(Top.kind, name), DecoderOf(Top.kind).wraps = "no"
  PROVE  Top.fills = Top.parent
<1>1. PICK n \in Nat \ {0} : n = Len(stack) /\ Top = stack[n] /\ n \in 1..Len(stack)
  BY StackFacts
<1>2. PICK dec : dec = DecoderOf(Top.kind)
  OBVIOUS
<1>3. Top.kind \in Kinds
  BY KindOfTop
<1>4. dec.fills \in {"parent", "model"}
  <2>1. dec.children # {} \/ dec.creates # "none"
    BY <1>2, <1>3, DecoderFits DEF Handles, FitsTable
  <2>. QED
    BY <1>2, <1>3, <2>1, KindPath DEF PathTable
<1>5. CASE n = 1
  <2>1. Top = TopLevel
    BY <1>1, <1>5 DEF StackTree
  <2>. QED
    BY <2>1 DEF TopLevel
<1>6. CASE n # 1
  <2>1. PICK m : m = Top.node
    OBVIOUS
  <2>2. m \in 1..Len(file) /\ Made(t, m)
    BY <1>1, <1>6, <2>1, StackKept
  <2>3. t[m].kind = Top.kind
    BY <1>1, <2>1 DEF StackTree
  <2>4. Top.parent = t[m].parent /\ Top.fills = t[m].fills
    BY <1>1, <2>1 DEF FillsInv
  <2>5. file \in Seq(Tokens)
    BY DEF Inv
  <2>6. t[m].fills = Filled(t[m].kind, m, t[m].parent)
    BY <2>2, <2>5, MadeHandled
  <2>7. CASE dec.fills = "parent"
    BY <1>2, <2>3, <2>4, <2>6, <2>7 DEF Filled, Shared
  <2>8. CASE dec.fills = "model"
    BY <1>2, <2>2, <2>3, <2>4, <2>5, <2>8, ModelParent
  <2>. QED
    BY <1>4, <2>7, <2>8
<1>. QED
  BY <1>5, <1>6

LEMMA PassPushed ==
  ASSUME Inv, NestInv, KindInv, PassInv, NEW t, IsTree(t), StackTree(t), OneLatticeIn(t),
         FillsInv(t), SlotsInv(t), StartHandled
  PROVE  PassInv'
<1>1. PICK n \in Nat \ {0} : n = Len(stack) /\ Top = stack[n]
  BY StackFacts
<1>2. Len(stack') = n + 1 /\ \A k \in 1..n : stack'[k] = stack[k]
  BY <1>1, PushedFills
<1>3. DecoderOf(Top.kind).wraps = "no" => Top.fills = Top.parent
  <2>1. Token.name \in Names /\ Handles(Top.kind, Token.name)
    <3>1. IsStart(i) /\ i \in 1..Len(file) /\ file \in Seq(Tokens)
      BY PushedInTree DEF Inv
    <3>. QED
      BY <3>1, StartNames DEF Token, StartHandled
  <2>. QED
    BY <2>1, TopPasses
<1>4. SUFFICES ASSUME NEW k \in 1..n, DecoderOf(stack'[k].kind).wraps = "no"
               PROVE  stack'[k].fills = stack'[k].parent
  <2>1. 1..(Len(stack') - 1) = 1..n
    BY <1>1, <1>2
  <2>. QED
    BY <2>1 DEF PassInv
<1>5. stack'[k] = stack[k]
  BY <1>2
<1>6. CASE k = n
  BY <1>1, <1>3, <1>4, <1>5, <1>6
<1>7. CASE k # n
  <2>1. k \in 1..(Len(stack) - 1)
    BY <1>1, <1>7
  <2>. QED
    BY <1>4, <1>5, <2>1 DEF PassInv
<1>. QED
  BY <1>6, <1>7

LEMMA PassPrefix ==
  ASSUME PassInv, Len(stack) \in Nat, Len(stack') \in Nat, Len(stack') <= Len(stack),
         \A k \in 1..Len(stack') : stack'[k] = stack[k]
  PROVE  PassInv'
<1>1. SUFFICES ASSUME NEW k \in 1..(Len(stack') - 1), DecoderOf(stack'[k].kind).wraps = "no"
               PROVE  stack'[k].fills = stack'[k].parent
  BY DEF PassInv
<1>2. k \in 1..Len(stack') /\ k \in 1..(Len(stack) - 1)
  OBVIOUS
<1>. QED
  BY <1>1, <1>2 DEF PassInv

(* What a group on the stack has before it in the field that keeps it, or  *)
(* will, is what the field has now.                                        *)
LEMMA GroupPlace ==
  ASSUME Inv, NestInv, NEW t, IsTree(t), StackTree(t), FillsInv(t), PlaceInv(t),
         NEW j \in 1..Len(stack), GroupAt(j), NEW n, n = stack[j].node
  PROVE  /\ n \in 1..(i - 1) /\ Made(t, n) /\ t[n].kind = stack[j].kind
         /\ Kept(t, t[n].parent, FieldOf(t, n)) \ {n} = Before(t, n)
<1>1. j # 1
  <2>1. stack[1].kind = TopKind
    BY DEF Inv, StackInv
  <2>2. ~IsGroup(DecoderOf(TopKind))
    BY DEF IsGroup, DecoderOf, TopKind, CoreDecoders, topLevelDecoder, Plain
  <2>. QED
    BY <2>1, <2>2 DEF GroupAt
<1>2. Len(stack) \in Nat
  BY StackFacts
<1>3. n \in 1..(i - 1) /\ Made(t, n)
  BY <1>1, <1>2, StackKept
<1>4. t[n].kind = stack[j].kind /\ t[n].parent = stack[j].parent
  BY DEF StackTree, FillsInv
<1>5. PICK p : p = t[n].parent
  OBVIOUS
<1>6. PICK f : f = FieldOf(t, n)
  OBVIOUS
<1>7. BeingRead(j, p, f)
  BY <1>4, <1>5, <1>6 DEF BeingRead, FieldOf
<1>8. ASSUME NEW m \in Kept(t, p, f), m # n PROVE m \in Before(t, n)
  <2>1. m <= n /\ m \in 1..(i - 1) /\ Made(t, m) /\ t[m].parent = p /\ Keeps(t[m], f)
    BY <1>7, <1>8, KeptIs DEF PlaceInv
  <2>2. m \in 1..(n - 1)
    BY <1>3, <1>8, <2>1
  <2>. QED
    BY <1>5, <1>6, <2>1, <2>2 DEF Before
<1>9. ASSUME NEW m \in Before(t, n) PROVE m \in Kept(t, p, f) /\ m # n
  <2>1. m \in 1..(n - 1) /\ Made(t, m) /\ t[m].parent = p /\ Keeps(t[m], f)
    BY <1>5, <1>6, <1>9 DEF Before
  <2>2. m \in 1..(i - 1) /\ m < n
    BY <1>3, <2>1 DEF Inv, OpenInv, Node
  <2>3. ASSUME DecoderOf(t[m].kind).keeps = "end", m \in OnStack PROVE FALSE
    <3>1. PICK q \in 1..Len(stack) : m = stack[q].node
      BY <2>3 DEF OnStack
    <3>2. q < j
      <4>1. j < q => stack[j].node < stack[q].node
        BY StackOrder
      <4>2. q # j
        BY <2>2, <3>1
      <4>3. m \in Nat /\ n \in Nat /\ m < n /\ ~(n < m)
        BY <1>3, <2>2
      <4>4. ~(j < q)
        BY <3>1, <4>1, <4>3
      <4>. QED
        BY <1>2, <4>2, <4>4
    <3>3. t[m].kind = stack[q].kind /\ t[m].parent = stack[q].parent
      BY <3>1 DEF StackTree, FillsInv
    <3>4. BeingRead(q, p, f)
      BY <2>1, <2>3, <3>3 DEF BeingRead, GroupAt, IsGroup, Keeps
    <3>5. j - 1 \in 1..Len(stack) /\ q <= j - 1 /\ j \in 2..Len(stack)
      BY <1>1, <1>2, <3>2
    <3>6. stack[j - 1].fills # p
      BY <3>4, <3>5, PlaceFree
    <3>7. stack[j].parent = stack[j - 1].fills
      BY <3>5 DEF FillsInv
    <3>. QED
      BY <1>4, <1>5, <3>6, <3>7
  <2>. QED
    BY <2>1, <2>2, <2>3, KeptIs
<1>. QED
  BY <1>3, <1>4, <1>5, <1>6, <1>8, <1>9

(* For an element that is read now there is nothing that is still to be    *)
(* kept in the same field.                                                 *)
LEMMA OwnPlace ==
  ASSUME Inv, NestInv, NEW t, IsTree(t), StackTree(t), FillsInv(t), StartHandled
  PROVE  Kept(t, t[i].parent, FieldOf(t, i)) = Before(t, i)
<1>1. PICK n \in Nat \ {0} : n = Len(stack) /\ Top = stack[n] /\ n \in 1..Len(stack)
  BY StackFacts
<1>2. PICK p : p = t[i].parent
  OBVIOUS
<1>3. PICK f : f = FieldOf(t, i)
  OBVIOUS
<1>4. p = Top.fills
  <2>1. t[i].parent = t[Top.node].fills
    BY PushedInTree
  <2>2. Top.fills = t[Top.node].fills
    BY <1>1 DEF FillsInv
  <2>. QED
    BY <1>2, <2>1, <2>2
<1>5. ASSUME NEW m \in Before(t, i), m \in OnStack, DecoderOf(t[m].kind).keeps = "end"
      PROVE  FALSE
  <2>1. PICK q \in 1..Len(stack) : m = stack[q].node
    BY <1>5 DEF OnStack
  <2>2. t[m].kind = stack[q].kind /\ t[m].parent = stack[q].parent
    BY <2>1 DEF StackTree, FillsInv
  <2>3. t[m].parent = p /\ Keeps(t[m], f)
    BY <1>2, <1>3, <1>5 DEF Before
  <2>4. BeingRead(q, p, f)
    BY <1>5, <2>2, <2>3 DEF BeingRead, GroupAt, IsGroup, Keeps
  <2>5. stack[n].fills # p
    <3>1. q <= n
      BY <1>1
    <3>. QED
      BY <1>1, <2>4, <3>1, PlaceFree
  <2>. QED
    BY <1>1, <1>4, <2>5
<1>6. ASSUME NEW m \in Before(t, i) PROVE m \in Kept(t, p, f)
  <2>1. m \in 1..(i - 1) /\ Made(t, m) /\ t[m].parent = p /\ Keeps(t[m], f)
    BY <1>2, <1>3, <1>6 DEF Before
  <2>. QED
    BY <1>5, <1>6, <2>1, KeptIs
<1>7. ASSUME NEW m \in Kept(t, p, f) PROVE m \in Before(t, i)
  <2>1. m \in 1..(i - 1) /\ Made(t, m) /\ t[m].parent = p /\ Keeps(t[m], f)
    BY <1>7, KeptIs
  <2>. QED
    BY <1>2, <1>3, <2>1 DEF Before
<1>. QED
  BY <1>2, <1>3, <1>6, <1>7

(* A field without an index has as many elements as it keeps.              *)
LEMMA SlotCounts ==
  ASSUME NEW t, SlotsInv(t), NEW p, NEW f, f \notin PlainFields
  PROVE  Len(Slot(p, f)) = Cardinality(Kept(t, p, f)) /\ IsFiniteSet(Kept(t, p, f))
<1>1. PICK s : s = Slot(p, f)
  OBVIOUS
<1>2. PICK K : K = Kept(t, p, f)
  OBVIOUS
<1>3. s \in Seq(Int) /\ Holds(p, f, K)
  BY <1>1, <1>2 DEF SlotsInv
<1>4. Increasing(s) /\ Range(s) = K
  BY <1>1, <1>3 DEF Holds, PlainFields
<1>5. PICK n : n = Len(s) /\ n \in 0..Len(s)
  BY <1>3
<1>6. PICK F : F = {s[j] : j \in 1..n}
  OBVIOUS
<1>7. IsFiniteSet(F) /\ Cardinality(F) = n /\ Range(s) = F
  BY <1>3, <1>4, <1>5, <1>6, IncreasingCount
<1>. QED
  BY <1>1, <1>2, <1>4, <1>5, <1>7

(* The level that a decoder on the stack adds leads to its element.        *)
LEMMA LevelLeads ==
  ASSUME Inv, NestInv, KindInv, NEW t, IsTree(t), StackTree(t),
         FillsInv(t), SlotsInv(t), PlaceInv(t),
         NEW j \in 2..Len(stack), DecoderOf(stack[j].kind).wraps # "no"
  PROVE  Leads(t, stack[j].node, Level(stack[j].kind, stack[j].parent))
<1>1. j \in 1..Len(stack) /\ j > 1
  BY StackFacts
<1>2. PICK n : n = stack[j].node
  OBVIOUS
<1>3. PICK kind : kind = stack[j].kind
  OBVIOUS
<1>4. PICK p : p = stack[j].parent
  OBVIOUS
<1>5. PICK dec : dec = DecoderOf(kind)
  OBVIOUS
<1>6. PICK level : level = Level(kind, p)
  OBVIOUS
<1>7. n \in 1..Len(file) /\ Made(t, n) /\ t[n].kind = kind /\ t[n].parent = p
  <2>1. n \in 1..Len(file) /\ Made(t, n)
    BY <1>1, <1>2, StackKept
  <2>. QED
    BY <1>1, <1>2, <1>3, <1>4, <2>1 DEF StackTree, FillsInv
<1>8. kind \in Kinds
  BY <1>1, <1>3 DEF KindInv
<1>9. PathTable(kind[2], dec) /\ FillsTable(kind[2], dec)
  BY <1>5, <1>8, KindPath, KindFills
<1>10. FieldOf(t, n) = dec.field
  BY <1>5, <1>7 DEF FieldOf
<1>11. level = <<dec.field, CASE dec.wraps = "plain" -> 0
                              [] dec.wraps = "last"  -> Len(Slot(p, dec.field))
                              [] OTHER               -> Len(Slot(p, dec.field)) + 1>>
  BY <1>5, <1>6 DEF Level
<1>12. level[1] = dec.field
  BY <1>11
<1>13. CASE dec.wraps = "plain"
  BY <1>2, <1>3, <1>4, <1>5, <1>6, <1>7, <1>10, <1>12, <1>13 DEF Leads
<1>14. CASE dec.wraps \in {"next", "last"}
  <2>1. IsGroup(dec) /\ dec.fills = "own" /\ dec.field \notin PlainFields
    BY <1>9, <1>14 DEF PathTable, FillsTable, IsGroup
  <2>2. PICK K : K = Kept(t, p, dec.field)
    OBVIOUS
  <2>3. PICK B : B = Before(t, n)
    OBVIOUS
  <2>4. n \in 1..(i - 1) /\ K \ {n} = B
    <3>1. GroupAt(j)
      BY <1>3, <1>5, <2>1 DEF GroupAt
    <3>. QED
      BY <1>1, <1>2, <1>7, <1>10, <2>2, <2>3, <3>1, GroupPlace
  <2>5. Len(Slot(p, dec.field)) = Cardinality(K) /\ IsFiniteSet(K)
    BY <2>1, <2>2, SlotCounts
  <2>6. Keeps(t[n], dec.field)
    BY <1>5, <1>7, <1>9, <1>14 DEF Keeps, PathTable
  <2>7. level[2] = Place(t, n)
    <3>1. CASE dec.wraps = "next"
      <4>1. dec.keeps = "end"
        BY <1>9, <3>1 DEF PathTable
      <4>2. n \in OnStack
        BY <1>1, <1>2 DEF OnStack
      <4>3. n \notin K
        BY <1>5, <1>7, <2>2, <4>1, <4>2, KeptIs
      <4>4. K = B
        BY <2>4, <4>3
      <4>5. level[2] = Len(Slot(p, dec.field)) + 1
        BY <1>11, <3>1
      <4>. QED
        BY <2>3, <2>5, <4>4, <4>5 DEF Place
    <3>2. CASE dec.wraps = "last"
      <4>1. dec.keeps = "start"
        BY <1>9, <3>2 DEF PathTable
      <4>2. n \in K
        BY <1>5, <1>7, <2>2, <2>4, <2>6, <4>1, KeptIs
      <4>3. K = B \cup {n} /\ n \notin B
        BY <2>4, <4>2
      <4>4. IsFiniteSet(B)
        BY <2>4, <2>5, FS_Subset
      <4>5. Cardinality(K) = Cardinality(B) + 1
        BY <4>3, <4>4, FS_AddElement
      <4>6. level[2] = Len(Slot(p, dec.field))
        BY <1>11, <3>2
      <4>. QED
        BY <2>3, <2>5, <4>5, <4>6 DEF Place
    <3>. QED
      BY <1>14, <3>1, <3>2
  <2>. QED
    BY <1>2, <1>3, <1>4, <1>5, <1>6, <1>7, <1>10, <1>12, <2>1, <2>6, <2>7 DEF Leads
<1>. QED
  BY <1>3, <1>5, <1>9, <1>13, <1>14 DEF PathTable

(* The loop of OnStart over the decoders on the stack.                     *)
LEMMA WrapPathIs ==
  ASSUME NEW st, Len(st) \in Nat
  PROVE  \E path, L :
           /\ path[0] = <<>> /\ WrapPath(st) = path[Len(st)]
           /\ \A k \in 0..Len(st) : path[k] \in Seq(L)
           /\ \A k \in 1..Len(st) :
                path[k] = IF DecoderOf(st[k].kind).wraps = "no" THEN path[k - 1]
                          ELSE Append(path[k - 1], Level(st[k].kind, st[k].parent))
<1>1. PICK n \in Nat : n = Len(st)
  OBVIOUS
<1>2. PICK level : level = [k \in 1..n |-> Level(st[k].kind, st[k].parent)]
  OBVIOUS
<1>3. PICK L : L = {level[k] : k \in 1..n}
  OBVIOUS
<1>4. PICK passes : passes = [k \in 1..n |-> DecoderOf(st[k].kind).wraps = "no"]
  OBVIOUS
<1>5. PICK step : step = [k \in 1..n |-> [s \in Seq(L) |-> IF passes[k] THEN s ELSE Append(s, level[k])]]
  OBVIOUS
<1>6. step \in [1..n -> [Seq(L) -> Seq(L)]]
  <2>1. \A k \in 1..n : level[k] \in L
    BY <1>3
  <2>2. \A k \in 1..n : \A s \in Seq(L) : Append(s, level[k]) \in Seq(L)
    BY <2>1
  <2>. QED
    BY <1>5, <2>2
<1>7. <<>> \in Seq(L)
  OBVIOUS
<1>8. PICK g \in [0..n -> Seq(L)] : Follows(g, n, <<>>, step)
  BY <1>6, <1>7, RecursionExists
<1>9. g[0] = <<>> /\ \A k \in 1..n : g[k] = IF passes[k] THEN g[k - 1] ELSE Append(g[k - 1], level[k])
  <2>1. ASSUME NEW k \in 1..n PROVE g[k] = IF passes[k] THEN g[k - 1] ELSE Append(g[k - 1], level[k])
    <3>1. g[k - 1] \in Seq(L)
      OBVIOUS
    <3>. QED
      BY <1>5, <1>8, <3>1 DEF Follows
  <2>. QED
    BY <1>8, <2>1 DEF Follows
<1>. DEFINE At0(h, k) == IF DecoderOf(st[k].kind).wraps = "no" THEN h[k - 1]
                         ELSE Append(h[k - 1], Level(st[k].kind, st[k].parent))
<1>10. \A k \in 1..n : g[k] = At0(g, k)
  BY <1>2, <1>4, <1>9
<1>. HIDE DEF At0
<1>11. PICK H : H = [k \in 0..n |-> IF k = 0 THEN <<>> ELSE At0(g, k)]
  OBVIOUS
<1>12. g = H
  <2>1. H[0] = <<>> /\ \A k \in 1..n : H[k] = At0(g, k)
    BY <1>11
  <2>2. \A k \in 0..n : k = 0 \/ k \in 1..n
    OBVIOUS
  <2>3. \A k \in 0..n : g[k] = H[k]
    BY <1>9, <1>10, <2>1, <2>2
  <2>. QED
    BY <1>11, <2>3
<1>13. PICK path : path = CHOOSE h : h = [k \in 0..n |-> IF k = 0 THEN <<>> ELSE At0(h, k)]
  OBVIOUS
<1>14. g = [k \in 0..n |-> IF k = 0 THEN <<>> ELSE At0(g, k)]
  BY <1>11, <1>12
<1>15. path = [k \in 0..n |-> IF k = 0 THEN <<>> ELSE At0(path, k)]
  BY <1>13, <1>14, Zenon
<1>16. path[0] = <<>> /\ \A k \in 1..n : path[k] = At0(path, k)
  <2>1. 0 \in 0..n /\ \A k \in 1..n : k \in 0..n /\ k # 0
    OBVIOUS
  <2>. QED
    BY <1>15, <2>1
<1>17. WrapPath(st) = path[n]
  BY <1>1, <1>13 DEF WrapPath, At0
<1>18. \A k \in 0..n : path[k] \in Seq(L)
  <2>1. PICK holds : holds = [k \in 0..n |-> path[k] \in Seq(L)]
    OBVIOUS
  <2>2. holds[0]
    <3>1. 0 \in 0..n
      OBVIOUS
    <3>. QED
      BY <1>7, <1>16, <2>1, <3>1, Zenon
  <2>3. ASSUME NEW k \in 1..n, holds[k - 1] PROVE holds[k]
    <3>1. k - 1 \in 0..n /\ k \in 0..n
      OBVIOUS
    <3>2. path[k - 1] \in Seq(L)
      BY <2>1, <2>3, <3>1
    <3>3. level[k] \in L /\ level[k] = Level(st[k].kind, st[k].parent)
      BY <1>2, <1>3
    <3>4. path[k] = path[k - 1] \/ path[k] = Append(path[k - 1], level[k])
      BY <1>16, <3>3, Zenon DEF At0
    <3>5. \A s \in Seq(L), l \in L : Append(s, l) \in Seq(L)
      OBVIOUS
    <3>6. path[k] \in Seq(L)
      BY <3>2, <3>3, <3>4, <3>5, Zenon
    <3>. QED
      BY <2>1, <3>1, <3>6
  <2>4. \A k \in 0..n : holds[k]
    BY <2>2, <2>3, AllFollow
  <2>. QED
    BY <2>1, <2>4
<1>. QED
  BY <1>1, <1>16, <1>17, <1>18, Zenon DEF At0

(* What the decoders on the stack add leads to the struct that the one on  *)
(* top fills.                                                              *)
LEMMA WrapRoute ==
  ASSUME Inv, NestInv, KindInv, PassInv, NEW t, IsTree(t), StackTree(t),
         FillsInv(t), SlotsInv(t), PlaceInv(t),
         NEW name \in Names, Handles(Top.kind, name)
  PROVE  Route(t, WrapPath(stack), Top.fills)
<1>1. PICK n \in Nat \ {0} : n = Len(stack) /\ Top = stack[n]
  BY StackFacts
<1>2. PICK path : /\ path[0] = <<>> /\ WrapPath(stack) = path[n]
                  /\ \A k \in 1..n :
                       path[k] = IF DecoderOf(stack[k].kind).wraps = "no" THEN path[k - 1]
                                 ELSE Append(path[k - 1], Level(stack[k].kind, stack[k].parent))
  BY <1>1, WrapPathIs
<1>3. PICK to : to = [k \in 0..n |-> IF k = 0 THEN Shared.model ELSE stack[k].fills]
  OBVIOUS
<1>4. to[0] = Shared.model /\ \A k \in 1..n : to[k] = stack[k].fills
  BY <1>3
<1>5. PICK holds : holds = [k \in 0..n |-> Route(t, path[k], to[k])]
  OBVIOUS
<1>6. holds[0]
  <2>1. Route(t, path[0], to[0])
    BY <1>2, <1>4, RouteEmpty
  <2>2. 0 \in 0..n
    OBVIOUS
  <2>. QED
    BY <1>5, <2>1, <2>2
<1>7. ASSUME NEW k \in 1..n, holds[k - 1] PROVE holds[k]
  <2>1. k - 1 \in 0..n /\ k \in 0..n /\ k \in 1..Len(stack)
    BY <1>1
  <2>2. Route(t, path[k - 1], to[k - 1])
    BY <1>5, <1>7, <2>1
  <2>3. stack[k].parent = to[k - 1]
    <3>1. CASE k = 1
      <4>1. stack[k] = TopLevel
        BY <3>1 DEF StackTree
      <4>2. TopLevel.parent = Shared.model
        BY DEF TopLevel
      <4>3. k - 1 = 0
        BY <3>1
      <4>. QED
        BY <1>4, <4>1, <4>2, <4>3
    <3>2. CASE k # 1
      <4>1. k \in 2..Len(stack) /\ k - 1 \in 1..n
        BY <1>1, <3>2
      <4>2. stack[k].parent = stack[k - 1].fills
        BY <4>1 DEF FillsInv
      <4>. QED
        BY <1>4, <4>1, <4>2
    <3>. QED
      BY <3>1, <3>2
  <2>4. CASE DecoderOf(stack[k].kind).wraps = "no"
    <3>1. stack[k].fills = stack[k].parent
      <4>1. CASE k = n
        BY <1>1, <2>4, <4>1, TopPasses
      <4>2. CASE k # n
        <5>1. k \in 1..(Len(stack) - 1)
          BY <1>1, <4>2
        <5>. QED
          BY <2>4, <5>1 DEF PassInv
      <4>. QED
        BY <4>1, <4>2
    <3>2. path[k] = path[k - 1] /\ to[k] = to[k - 1]
      BY <1>2, <1>4, <2>3, <2>4, <3>1
    <3>. QED
      BY <1>5, <2>1, <2>2, <3>2
  <2>5. CASE DecoderOf(stack[k].kind).wraps # "no"
    <3>1. k # 1
      <4>1. DecoderOf(TopKind).wraps = "no"
        BY DEF DecoderOf, TopKind, CoreDecoders, topLevelDecoder, Plain
      <4>2. stack[1].kind = TopKind
        BY DEF Inv, StackInv
      <4>. QED
        BY <2>5, <4>1, <4>2
    <3>2. k \in 2..Len(stack) /\ k > 1
      BY <1>1, <3>1
    <3>3. PICK m : m = stack[k].node
      OBVIOUS
    <3>4. PICK level : level = Level(stack[k].kind, stack[k].parent)
      OBVIOUS
    <3>5. Leads(t, m, level)
      BY <2>5, <3>2, <3>3, <3>4, LevelLeads
    <3>6. t[m].parent = to[k - 1] /\ t[m].fills = to[k]
      BY <1>4, <2>1, <2>3, <3>3 DEF FillsInv
    <3>7. Route(t, Append(path[k - 1], level), to[k])
      <4>1. PICK before : before = path[k - 1]
        OBVIOUS
      <4>2. Route(t, Append(before, level), t[m].fills)
        BY <2>2, <3>5, <3>6, <4>1, RouteAppend
      <4>. QED
        BY <3>6, <4>1, <4>2
    <3>8. path[k] = Append(path[k - 1], level)
      BY <1>2, <2>5, <3>4
    <3>. QED
      BY <1>5, <2>1, <3>7, <3>8
  <2>. QED
    BY <2>4, <2>5
<1>8. holds[n]
  <2>1. \A k \in 0..n : holds[k]
    BY <1>6, <1>7, AllFollow
  <2>. QED
    BY <2>1
<1>. QED
  <2>1. n \in 0..n /\ n \in 1..n
    OBVIOUS
  <2>2. Route(t, path[n], to[n])
    BY <1>5, <1>8, <2>1
  <2>. QED
    BY <1>1, <1>2, <1>4, <2>1, <2>2

LEMMA BadNotBare ==
  ASSUME file \in Seq(Tokens), NEW k \in 1..Len(file), IsStart(k), file[k].bad
  PROVE  ~file[k].bare
<1>1. PICK x \in Tokens : x = file[k]
  OBVIOUS
<1>2. x.op = "start" /\ x.bad
  BY <1>1 DEF IsStart
<1>3. CASE \E n \in Names, b \in BOOLEAN : x = Start(n, b)
  BY <1>1, <1>3 DEF Start
<1>4. CASE \E n \in Names : x = Bare(n)
  BY <1>2, <1>4 DEF Bare
<1>5. CASE (\E n \in Names : x = End(n)) \/ x \in {Text, Malformed}
  BY <1>2, <1>5 DEF End, Text, Malformed
<1>. QED
  BY <1>1, <1>3, <1>4, <1>5 DEF Tokens

(* The level that Start adds leads to the element it is for.               *)
LEMMA OwnLeads ==
  ASSUME Inv, NestInv, NEW t, IsTree(t), StackTree(t), FillsInv(t), SlotsInv(t),
         StartHandled, Token.bad, NEW dec, dec = DecoderOf(t[i].kind),
         dec.reports, dec.level = "own", NEW p, p = t[i].parent, NEW level,
         level = <<dec.field, IF dec.wraps = "plain" THEN 0 ELSE Len(Slot(p, dec.field)) + 1>>
  PROVE  Leads(t, i, level) /\ dec.fills # "parent"
<1>1. /\ i \in 1..Len(file) /\ IsStart(i) /\ t[i].kind \in ElementKinds
      /\ t[i].of = i /\ file \in Seq(Tokens)
  BY PushedInTree DEF Inv
<1>2. Made(t, i) /\ FieldOf(t, i) = dec.field
  BY <1>1 DEF Made, FieldOf
<1>3. PathTable(t[i].kind[2], dec)
  BY <1>1, KindPath DEF ElementKinds
<1>4. level[1] = dec.field
  OBVIOUS
<1>5. CASE dec.wraps = "plain"
  BY <1>1, <1>2, <1>3, <1>4, <1>5 DEF Leads, PathTable
<1>6. CASE dec.wraps # "plain"
  <2>1. dec.keeps \in {"start", "attr", "end"} /\ dec.fills = "own" /\ dec.field \notin PlainFields
    BY <1>3, <1>6 DEF PathTable
  <2>2. Keeps(t[i], dec.field)
    <3>1. ~file[i].bare
      BY <1>1, BadNotBare DEF Token
    <3>. QED
      BY <1>1, <2>1, <3>1 DEF Keeps
  <2>3. level[2] = Place(t, i)
    <3>1. Len(Slot(p, dec.field)) = Cardinality(Kept(t, p, dec.field))
      BY <2>1, SlotCounts
    <3>2. Kept(t, p, dec.field) = Before(t, i)
      BY <1>2, OwnPlace
    <3>3. level[2] = Len(Slot(p, dec.field)) + 1
      BY <1>6
    <3>. QED
      BY <3>1, <3>2, <3>3 DEF Place
  <2>. QED
    BY <1>1, <1>2, <1>4, <2>1, <2>2, <2>3 DEF Leads
<1>. QED
  BY <1>5, <1>6

LEMMA PathConcat ==
  ASSUME NEW L, NEW path \in Seq(L)
  PROVE  /\ path \o <<>> = path
         /\ \A level : path \o <<level>> = Append(path, level)
<1>1. path \o <<>> = path
  OBVIOUS
<1>2. ASSUME NEW level PROVE path \o <<level>> = Append(path, level)
  <2>1. path \in Seq(L \cup {level})
    OBVIOUS
  <2>. QED
    BY <2>1
<1>. QED
  BY <1>1, <1>2

(* The path of an error that Start reports leads to what it is about.      *)
LEMMA ErrorRoute ==
  ASSUME Inv, NestInv, KindInv, PassInv, NEW t, IsTree(t), StackTree(t),
         FillsInv(t), SlotsInv(t), PlaceInv(t), StartHandled, Token.bad,
         NEW kind, kind = ChildKind(Top.kind, Token.name), Reports(kind),
         kind[2] \notin {"colorgroup", "multi"}, NEW p, p = Top.fills
  PROVE  Route(t, ErrorPath(kind, p), IF DecoderOf(kind).fills \in DOMAIN Shared
                                      THEN Shared[DecoderOf(kind).fills] ELSE i)
<1>1. /\ t[i].kind = kind /\ t[i].of = i /\ t[i].fills = Filled(kind, i, t[i].parent)
      /\ i \in 1..Len(file) /\ IsStart(i) /\ kind \in ElementKinds
      /\ t[i].parent = t[Top.node].fills /\ file \in Seq(Tokens)
  BY PushedInTree DEF Inv
<1>2. p = t[i].parent
  <2>1. Top.fills = t[Top.node].fills
    BY StackFacts DEF FillsInv
  <2>. QED
    BY <1>1, <2>1
<1>3. PICK dec : dec = DecoderOf(kind)
  OBVIOUS
<1>4. PathTable(kind[2], dec) /\ FillsTable(kind[2], dec) /\ dec.reports
  BY <1>1, <1>3, KindPath, KindFills DEF ElementKinds, Reports
<1>5. PICK path : path = WrapPath(stack)
  OBVIOUS
<1>6. Route(t, path, p)
  <2>1. Token.name \in Names /\ Handles(Top.kind, Token.name)
    BY <1>1, StartNames DEF Token, StartHandled
  <2>. QED
    BY <1>5, <2>1, WrapRoute
<1>7. PICK L : path \in Seq(L)
  BY <1>6 DEF Route
<1>8. CASE dec.level = "none"
  <2>1. kind[2] = "model" /\ dec.fills = "model"
    BY <1>4, <1>8 DEF PathTable
  <2>2. ErrorPath(kind, p) = path
    <3>1. OwnLevel(kind, p) = <<>>
      BY <1>3, <1>8 DEF OwnLevel
    <3>. QED
      BY <1>5, <1>7, <3>1, PathConcat DEF ErrorPath
  <2>3. p = Shared.model
    <3>1. Made(t, i)
      BY <1>1 DEF Made
    <3>. QED
      BY <1>1, <1>2, <1>3, <2>1, <3>1, ModelParent
  <2>4. Shared[dec.fills] = Shared.model /\ dec.fills \in DOMAIN Shared
    BY <2>1 DEF Shared
  <2>. QED
    BY <1>3, <1>6, <2>2, <2>3, <2>4
<1>9. CASE dec.level = "own"
  <2>1. PICK level :
          level = <<dec.field, IF dec.wraps = "plain" THEN 0 ELSE Len(Slot(p, dec.field)) + 1>>
    OBVIOUS
  <2>2. Leads(t, i, level) /\ dec.fills # "parent"
    BY <1>1, <1>2, <1>3, <1>4, <1>9, <2>1, OwnLeads
  <2>3. ErrorPath(kind, p) = Append(path, level)
    <3>1. OwnLevel(kind, p) = <<level>>
      BY <1>3, <1>9, <2>1 DEF OwnLevel
    <3>. QED
      BY <1>5, <1>7, <3>1, PathConcat DEF ErrorPath
  <2>4. Route(t, Append(path, level), t[i].fills)
    BY <1>2, <1>6, <2>2, RouteAppend
  <2>5. t[i].fills = IF dec.fills \in DOMAIN Shared THEN Shared[dec.fills] ELSE i
    BY <1>1, <1>3, <2>2 DEF Filled
  <2>. QED
    BY <1>3, <2>3, <2>4, <2>5
<1>. QED
  BY <1>4, <1>8, <1>9 DEF PathTable

-----------------------------------------------------------------------------
(* Every error that locates one has a route.                               *)
Located(t, e) == e.kind[2] \notin {"colorgroup", "multi"} => Route(t, e.path, e.of)

RoutesInv(t) == \A k \in DOMAIN errs : \E e : e = errs[k] /\ Located(t, e)

PathsInv ==
  NoNesting => \A t : IsTree(t) /\ OneLatticeIn(t) => PassInv /\ RoutesInv(t)

LEMMA RoutesStep ==
  ASSUME Inv, NestInv, KindInv, ReturnInv, PassInv, NEW t, IsTree(t), StackTree(t),
         FillsInv(t), SlotsInv(t), PlaceInv(t), RoutesInv(t), [Next]_vars
  PROVE  RoutesInv(t)'
<1>1. file' = file
  BY Moves
<1>2. PICK E : errs \in Seq(E)
  BY DEF ReturnInv
<1>11. ASSUME NEW e, Located(t, e) PROVE Located(t, e)'
  BY <1>1, <1>11, RouteSame DEF Located
<1>3. CASE errs' = errs
  <2>1. ASSUME NEW k \in DOMAIN errs' PROVE \E x : x = errs'[k] /\ Located(t, x)'
    <3>1. PICK x : x = errs[k] /\ Located(t, x)
      BY <1>3, <2>1 DEF RoutesInv
    <3>. QED
      BY <1>3, <1>11, <3>1
  <2>. QED
    BY <2>1 DEF RoutesInv
<1>4. CASE errs' # errs
  <2>1. StartHandled
    BY <1>4 DEF Next, vars, StartUnhandled, EndHandled, EndUnhandled, ReadText, StartPanics, Return
  <2>2. PICK kind : kind = ChildKind(Top.kind, Token.name)
    OBVIOUS
  <2>3. PICK p : p = Top.fills
    OBVIOUS
  <2>4. PICK e : e = [of |-> IF DecoderOf(kind).fills \in DOMAIN Shared
                             THEN Shared[DecoderOf(kind).fills] ELSE i,
                      kind |-> kind, path |-> ErrorPath(kind, p)]
    OBVIOUS
  <2>5. Token.bad /\ Reports(kind) /\ errs' = Append(errs, e)
    BY <1>4, <2>1, <2>2, <2>3, <2>4 DEF StartHandled
  <2>6. Located(t, e)
    <3>1. ASSUME e.kind[2] \notin {"colorgroup", "multi"} PROVE Route(t, e.path, e.of)
      BY <2>1, <2>2, <2>3, <2>4, <2>5, <3>1, ErrorRoute
    <3>. QED
      BY <3>1 DEF Located
  <2>7. PICK n \in Nat : n = Len(errs)
    BY <1>2
  <2>8. /\ DOMAIN errs' = 1..(n + 1) /\ DOMAIN errs = 1..n
        /\ \A k \in 1..n : errs'[k] = errs[k]
        /\ errs'[n + 1] = e
    <3>1. errs \in Seq(E \cup {e}) /\ e \in E \cup {e}
      BY <1>2
    <3>. QED
      BY <2>5, <2>7, <3>1
  <2>9. ASSUME NEW k \in DOMAIN errs' PROVE \E x : x = errs'[k] /\ Located(t, x)'
    <3>1. CASE k = n + 1
      <4>1. Located(t, e)'
        BY <1>11, <2>6
      <4>. QED
        BY <2>8, <3>1, <4>1
    <3>2. CASE k # n + 1
      <4>1. k \in 1..n
        BY <2>8, <2>9, <3>2
      <4>2. PICK x : x = errs[k] /\ Located(t, x)
        BY <2>8, <4>1 DEF RoutesInv
      <4>3. Located(t, x)'
        BY <1>11, <4>2
      <4>. QED
        BY <2>8, <4>1, <4>2, <4>3
    <3>. QED
      BY <3>1, <3>2
  <2>. QED
    BY <2>9 DEF RoutesInv
<1>. QED
  BY <1>3, <1>4

LEMMA PassStep ==
  ASSUME Inv, NestInv, KindInv, PassInv, NEW t, IsTree(t), StackTree(t), OneLatticeIn(t),
         FillsInv(t), SlotsInv(t), [Next]_vars
  PROVE  PassInv'
<1>1. Len(stack) \in Nat \ {0}
  BY StackFacts
<1>2. CASE StartHandled
  BY <1>2, PassPushed
<1>3. CASE EndHandled
  <2>1. Len(stack) > 1 /\ stack' = Front(stack)
    BY <1>3, ClosesDecoder DEF EndHandled
  <2>2. Len(stack') = Len(stack) - 1 /\ \A k \in 1..(Len(stack) - 1) : stack'[k] = stack[k]
    BY <2>1, TopPopped
  <2>3. Len(stack') \in Nat /\ Len(stack') <= Len(stack) /\ \A k \in 1..Len(stack') : stack'[k] = stack[k]
    BY <1>1, <2>1, <2>2
  <2>. QED
    BY <1>1, <2>3, PassPrefix
<1>4. CASE ~StartHandled /\ ~EndHandled
  <2>1. stack' = stack
    BY <1>4 DEF Next, vars, StartUnhandled, EndUnhandled, ReadText, StartPanics, Return
  <2>2. Len(stack') \in Nat /\ Len(stack') <= Len(stack) /\ \A k \in 1..Len(stack') : stack'[k] = stack[k]
    BY <1>1, <2>1
  <2>. QED
    BY <1>1, <2>2, PassPrefix
<1>. QED
  BY <1>2, <1>3, <1>4

LEMMA PathsStep ==
  ASSUME ReadInv, FieldsInv, PathsInv, [Next]_vars
  PROVE  PathsInv'
<1>1. Inv /\ NestInv /\ KindInv /\ ReturnInv /\ TreeInv
  BY DEF ReadInv, ContentInv
<1>2. file' = file /\ (i' = i \/ i' = i + 1) /\ isRoot' = isRoot
  BY <1>1, Moves, RootSame
<1>3. NoNesting' => NoNesting
  BY <1>1, <1>2, NoNestingBefore
<1>4. \A t : OneLatticeIn(t)' => OneLatticeIn(t)
  BY <1>2, FileSame DEF OneLatticeIn
<1>5. SUFFICES ASSUME NoNesting', NEW t, IsTree(t)', OneLatticeIn(t)'
               PROVE  PassInv' /\ RoutesInv(t)'
  BY DEF PathsInv
<1>6. NoNesting /\ IsTree(t) /\ StackTree(t) /\ OneLatticeIn(t)
  BY <1>1, <1>2, <1>3, <1>4, <1>5, TreeSame DEF TreeInv
<1>7. FillsInv(t) /\ SlotsInv(t) /\ PlaceInv(t)
  BY <1>6 DEF FieldsInv
<1>8. PassInv /\ RoutesInv(t)
  BY <1>6 DEF PathsInv
<1>. QED
  BY <1>1, <1>6, <1>7, <1>8, RoutesStep, PassStep

LEMMA PathsInit == Init => PathsInv
<1>. SUFFICES ASSUME Init PROVE PathsInv
  OBVIOUS
<1>1. errs = <<>> /\ stack = <<TopLevel>>
  BY DEF Init, Begin
<1>2. DOMAIN errs = {} /\ 1..(Len(stack) - 1) = {}
  BY <1>1
<1>. QED
  BY <1>2 DEF PathsInv, PassInv, RoutesInv

LEMMA PathsInvariant == Spec => [](ReadInv /\ FieldsInv /\ PathsInv)
<1>1. Init => PathsInv
  BY PathsInit
<1>2. ReadInv /\ FieldsInv /\ PathsInv /\ [Next]_vars => PathsInv'
  BY PathsStep
<1>. QED
  BY <1>1, <1>2, FieldsInvariant, PTL DEF Spec

-----------------------------------------------------------------------------
(***************************************************************************)
(* When the file was read to its end, each level of a route goes to the    *)
(* struct of the element that it leads to.                                 *)
(***************************************************************************)
Goto(p, level) ==
  CASE level[1] = "Build"                  -> Shared.build
    [] level[1] = "Resources"              -> Shared.resources
    [] level[1] = "Any"                    -> GetBeamLattice(p)
    [] level[1] \in {"Mesh", "Components"} -> At(p, level[1], 1)
    [] OTHER                               -> At(p, level[1], level[2])

OneOf(t) ==
  \A c, d \in {t[k] : k \in {k \in DOMAIN file : IsStart(k)}} :
    DecoderOf(d.kind).wraps = "plain" /\ c.kind = d.kind /\ c.parent = d.parent => c = d

AllRead == i - 1 = Len(file) /\ i \in Node /\ file \in Seq(Tokens) /\ OnStack \subseteq {0}

LEMMA KeptInTheEnd ==
  ASSUME NEW t, AllRead, NEW p, NEW f
  PROVE  Kept(t, p, f) = {m \in 1..Len(file) : Made(t, m) /\ t[m].parent = p /\ Keeps(t[m], f)}
BY DEF AllRead, Kept

LEMMA OnlyOne ==
  ASSUME NEW t, AllRead, OneOf(t), NEW n \in 1..Len(file), Made(t, n),
         DecoderOf(t[n].kind).wraps = "plain",
         NEW m \in 1..Len(file), Made(t, m), t[m].kind = t[n].kind, t[m].parent = t[n].parent
  PROVE  m = n
<1>1. PICK tree : tree = {t[k] : k \in {k \in DOMAIN file : IsStart(k)}}
  OBVIOUS
<1>2. n \in DOMAIN file /\ m \in DOMAIN file
  BY DEF AllRead
<1>3. t[n] \in tree /\ t[m] \in tree
  BY <1>1, <1>2 DEF Made
<1>4. t[m] = t[n]
  BY <1>1, <1>3 DEF OneOf
<1>. QED
  BY <1>4 DEF Made

LEMMA LatticeThere ==
  ASSUME NEW t, IsTree(t), AllRead, OneOf(t), SlotsInv(t), NEW n \in 1..Len(file), Made(t, n),
         DecoderOf(t[n].kind).fills = "lattice"
  PROVE  GetBeamLattice(t[n].parent) = n
<1>1. file \in Seq(Tokens)
  BY DEF AllRead
<1>2. t[n].kind = <<"beamlattice", "beamlattice">> /\ file[n].name \in LatticeCreates
  BY <1>1, LatticeElement
<1>3. PICK dec : dec = DecoderOf(t[n].kind)
  OBVIOUS
<1>4. dec.field = "Any" /\ dec.keeps = "start" /\ dec.wraps = "plain"
  <2>1. t[n].kind \in Kinds
    BY <1>1, MadeHandled DEF ElementKinds
  <2>2. FillsTable(t[n].kind[2], dec)
    BY <1>3, <2>1, KindFills
  <2>3. PathTable(t[n].kind[2], dec)
    BY <1>3, <2>1, KindPath
  <2>. QED
    BY <1>3, <2>2, <2>3 DEF FillsTable, PathTable
<1>5. PICK p : p = t[n].parent
  OBVIOUS
<1>6. PICK any : any = Slot(p, "Any")
  OBVIOUS
<1>7. any \in Seq(Int) /\ Range(any) = Kept(t, p, "Any")
  <2>1. Holds(p, "Any", Kept(t, p, "Any")) /\ Slot(p, "Any") \in Seq(Int)
    BY DEF SlotsInv
  <2>. QED
    BY <1>6, <2>1 DEF Holds
<1>8. PICK lattices : lattices = {k \in DOMAIN any : file[any[k]].name \in LatticeCreates}
  OBVIOUS
<1>9. ASSUME NEW k \in lattices PROVE any[k] = n
  <2>1. PICK m : m = any[k]
    OBVIOUS
  <2>2. m \in Kept(t, p, "Any") /\ file[m].name \in LatticeCreates
    BY <1>7, <1>8, <2>1 DEF Range
  <2>3. m \in 1..Len(file) /\ Made(t, m) /\ t[m].parent = p
    BY <2>2, KeptInTheEnd
  <2>4. t[m].kind = t[n].kind
    BY <1>1, <1>2, <2>2, <2>3, LatticeElement
  <2>. QED
    BY <1>3, <1>4, <1>5, <2>1, <2>3, <2>4, OnlyOne
<1>10. PICK k \in DOMAIN any : any[k] = n
  <2>1. Keeps(t[n], "Any")
    BY <1>3, <1>4 DEF Keeps
  <2>2. n \in Kept(t, p, "Any")
    BY <1>5, <2>1, KeptInTheEnd
  <2>. QED
    BY <1>7, <2>2 DEF Range
<1>11. k \in lattices
  BY <1>2, <1>8, <1>10
<1>12. Min(lattices) \in lattices
  <2>1. lattices \subseteq Nat /\ lattices # {}
    BY <1>7, <1>8, <1>11
  <2>2. PICK l \in lattices : \A y \in lattices : l <= y
    BY <2>1, LeastNat
  <2>. QED
    BY <2>2 DEF Min
<1>13. any[Min(lattices)] = n
  BY <1>9, <1>12
<1>. QED
  BY <1>5, <1>6, <1>8, <1>11, <1>13 DEF GetBeamLattice

(* A field with one struct has that of the element.                        *)
LEMMA OnlyThere ==
  ASSUME NEW t, IsTree(t), AllRead, OneOf(t), SlotsInv(t), NEW n \in 1..Len(file), Made(t, n),
         NEW dec, dec = DecoderOf(t[n].kind), dec.keeps = "only"
  PROVE  /\ dec.field \in {"Mesh", "Components"} /\ dec.fills \notin {"build", "resources", "lattice"}
         /\ At(t[n].parent, dec.field, 1) = n
<1>1. file \in Seq(Tokens)
  BY DEF AllRead
<1>2. t[n].kind \in Kinds /\ t[n].kind \in ElementKinds
  BY <1>1, MadeHandled DEF ElementKinds
<1>3. FillsTable(t[n].kind[2], dec)
  BY <1>2, KindFills
<1>4. PathTable(t[n].kind[2], dec)
  BY <1>2, KindPath
<1>5. /\ dec.wraps = "plain" /\ dec.field \in {"Mesh", "Components"}
      /\ dec.fills \notin {"build", "resources", "lattice"}
  BY <1>3, <1>4 DEF FillsTable, PathTable
<1>6. PICK f : f = dec.field
  OBVIOUS
<1>7. PICK p : p = t[n].parent
  OBVIOUS
<1>8. ASSUME NEW kind \in Kinds, DecoderOf(kind).field = f
      PROVE  kind = IF f = "Mesh" THEN <<"core", "mesh">> ELSE <<"core", "components">>
  <2>1. PathTable(kind[2], DecoderOf(kind))
    BY <1>8, KindPath
  <2>2. kind[2] = IF f = "Mesh" THEN "mesh" ELSE "components"
    BY <1>5, <1>6, <1>8, <2>1 DEF PathTable
  <2>. QED
    BY <1>8, <2>2, CoreKinds, MaterialsKinds, SlicesKinds, LatticeKinds DEF Kinds, ExtNames, In
<1>9. Kept(t, p, f) = {n}
  <2>1. ASSUME NEW m \in Kept(t, p, f) PROVE m = n
    <3>1. m \in 1..Len(file) /\ Made(t, m) /\ t[m].parent = p /\ Keeps(t[m], f)
      BY KeptInTheEnd
    <3>2. t[m].kind \in Kinds
      BY <1>1, <3>1, MadeHandled DEF ElementKinds
    <3>3. DecoderOf(t[m].kind).field = f
      BY <3>1 DEF Keeps
    <3>4. t[m].kind = t[n].kind
      BY <1>2, <1>6, <1>8, <3>2, <3>3
    <3>. QED
      BY <1>5, <1>7, <3>1, <3>4, OnlyOne
  <2>2. Keeps(t[n], f)
    BY <1>6 DEF Keeps
  <2>3. n \in Kept(t, p, f)
    BY <1>7, <2>2, KeptInTheEnd
  <2>. QED
    BY <2>1, <2>3
<1>10. Slot(p, f) = <<n>>
  <2>1. Holds(p, f, {n})
    BY <1>9 DEF SlotsInv
  <2>2. n \in Nat /\ {n} \subseteq 0..n
    OBVIOUS
  <2>3. Max({n}) \in {n}
    BY <2>2, MaxIs
  <2>4. Slot(p, f) = <<Max({n})>>
    BY <1>5, <1>6, <2>1 DEF Holds
  <2>. QED
    BY <2>3, <2>4
<1>11. At(p, f, 1) = n
  <2>1. PICK s : s = Slot(p, f)
    OBVIOUS
  <2>2. s = <<n>>
    BY <1>10, <2>1
  <2>3. 1 \in DOMAIN s /\ s[1] = n
    BY <2>2
  <2>. QED
    BY <2>1, <2>3 DEF At
<1>. QED
  BY <1>5, <1>6, <1>7, <1>11

(* A field with many has it at its place.                                  *)
LEMMA PlaceThere ==
  ASSUME NEW t, IsTree(t), AllRead, SlotsInv(t), NEW n \in 1..Len(file), Made(t, n),
         NEW f, f = FieldOf(t, n), Keeps(t[n], f), f \notin PlainFields
  PROVE  At(t[n].parent, f, Place(t, n)) = n
<1>1. PICK p : p = t[n].parent
  OBVIOUS
<1>2. PICK s : s = Slot(p, f)
  OBVIOUS
<1>3. s \in Seq(Int) /\ Increasing(s) /\ Range(s) = Kept(t, p, f)
  <2>1. Holds(p, f, Kept(t, p, f)) /\ Slot(p, f) \in Seq(Int)
    BY DEF SlotsInv
  <2>. QED
    BY <1>2, <2>1 DEF Holds, PlainFields
<1>4. PICK j \in DOMAIN s : s[j] = n
  <2>1. n \in Kept(t, p, f)
    BY <1>1, KeptInTheEnd
  <2>. QED
    BY <1>3, <2>1 DEF Range
<1>5. DOMAIN s = 1..Len(s) /\ Len(s) \in Nat
  BY <1>3
<1>6. j - 1 \in 0..Len(s) /\ j - 1 < Len(s) /\ (j - 1) + 1 = j
  BY <1>5
<1>7. Cardinality({x \in Range(s) : x < n}) = j - 1
  <2>1. PICK k : k = j - 1
    OBVIOUS
  <2>2. k \in 0..Len(s) /\ k < Len(s) /\ s[k + 1] = n
    BY <1>4, <1>6, <2>1
  <2>3. /\ Cardinality({s[l] : l \in 1..k}) = k
        /\ {x \in Range(s) : x < s[k + 1]} = {s[l] : l \in 1..k}
    BY <1>3, <2>2, IncreasingCount
  <2>. QED
    BY <2>1, <2>2, <2>3
<1>8. {x \in Range(s) : x < n} = Before(t, n)
  <2>1. ASSUME NEW x \in Range(s), x < n PROVE x \in Before(t, n)
    <3>1. x \in 1..Len(file) /\ Made(t, x) /\ t[x].parent = p /\ Keeps(t[x], f)
      BY <1>3, KeptInTheEnd
    <3>2. x \in 1..(n - 1)
      BY <2>1, <3>1
    <3>. QED
      BY <1>1, <3>1, <3>2 DEF Before
  <2>2. ASSUME NEW x \in Before(t, n) PROVE x \in Range(s) /\ x < n
    <3>1. x \in 1..(n - 1) /\ Made(t, x) /\ t[x].parent = p /\ Keeps(t[x], f)
      BY <1>1 DEF Before
    <3>2. x \in 1..Len(file) /\ x < n
      BY <3>1 DEF AllRead
    <3>. QED
      BY <1>3, <3>1, <3>2, KeptInTheEnd
  <2>. QED
    BY <2>1, <2>2
<1>9. Place(t, n) = j
  <2>1. Cardinality(Before(t, n)) = j - 1
    BY <1>7, <1>8
  <2>. QED
    BY <1>5, <2>1 DEF Place
<1>. QED
  BY <1>1, <1>2, <1>4, <1>9 DEF At

LEMMA LeadsThere ==
  ASSUME NEW t, IsTree(t), AllRead, OneOf(t), SlotsInv(t), NEW n, NEW level, Leads(t, n, level)
  PROVE  Goto(t[n].parent, level) = t[n].fills
<1>1. PICK dec : dec = DecoderOf(t[n].kind)
  OBVIOUS
<1>2. n \in 1..Len(file) /\ Made(t, n) /\ level[1] = dec.field
  BY <1>1 DEF Leads, FieldOf
<1>3. t[n].kind \in Kinds /\ t[n].fills = Filled(t[n].kind, n, t[n].parent)
  BY <1>2, MadeHandled DEF ElementKinds, AllRead
<1>4. FillsTable(t[n].kind[2], dec)
  BY <1>1, <1>3, KindFills
<1>5. PathTable(t[n].kind[2], dec)
  BY <1>1, <1>3, KindPath
<1>6. /\ dec.fills = "build" => t[n].fills = Shared.build
      /\ dec.fills = "resources" => t[n].fills = Shared.resources
      /\ dec.fills \in {"own", "lattice"} => t[n].fills = n
  BY <1>1, <1>3 DEF Filled, Shared
<1>7. CASE dec.wraps = "plain"
  <2>1. CASE dec.fills = "build" /\ dec.field = "Build"
    BY <1>2, <1>6, <2>1 DEF Goto
  <2>2. CASE dec.fills = "resources" /\ dec.field = "Resources"
    BY <1>2, <1>6, <2>2 DEF Goto
  <2>3. CASE dec.fills = "lattice"
    <3>1. dec.field = "Any"
      BY <1>4, <2>3 DEF FillsTable
    <3>2. GetBeamLattice(t[n].parent) = n
      BY <1>1, <1>2, <2>3, LatticeThere
    <3>. QED
      BY <1>2, <1>6, <2>3, <3>1, <3>2 DEF Goto
  <2>4. CASE dec.fills = "own" /\ dec.keeps = "only"
    <3>1. dec.field \in {"Mesh", "Components"} /\ At(t[n].parent, dec.field, 1) = n
      BY <1>1, <1>2, <2>4, OnlyThere
    <3>. QED
      BY <1>2, <1>6, <2>4, <3>1 DEF Goto
  <2>. QED
    BY <1>5, <1>7, <2>1, <2>2, <2>3, <2>4 DEF PathTable
<1>8. CASE dec.wraps # "plain"
  <2>1. /\ level[2] = Place(t, n) /\ Keeps(t[n], dec.field) /\ dec.fills = "own"
        /\ dec.field \notin PlainFields /\ dec.field = FieldOf(t, n)
    BY <1>1, <1>8 DEF Leads, FieldOf
  <2>2. At(t[n].parent, dec.field, level[2]) = n
    BY <1>2, <2>1, PlaceThere
  <2>. QED
    BY <1>2, <1>6, <2>1, <2>2 DEF Goto, PlainFields
<1>. QED
  BY <1>7, <1>8

(* A route is what Follow goes along.                                      *)
LEMMA FollowRoute ==
  ASSUME NEW t, IsTree(t), AllRead, OneOf(t), SlotsInv(t), NEW path, NEW x, Route(t, path, x)
  PROVE  Follow(path) = x
<1>1. PICK at : Along(t, path, at) /\ at[Len(path)] = x
  BY DEF Route
<1>2. PICK n \in Nat : n = Len(path)
  <2>1. PICK L : path \in Seq(L)
    BY DEF Route
  <2>. QED
    BY <2>1
<1>. DEFINE Next0(h, k) ==
       CASE path[k][1] = "Build"                  -> Shared.build
         [] path[k][1] = "Resources"              -> Shared.resources
         [] path[k][1] = "Any"                    -> GetBeamLattice(h[k - 1])
         [] path[k][1] \in {"Mesh", "Components"} -> At(h[k - 1], path[k][1], 1)
         [] OTHER                                 -> At(h[k - 1], path[k][1], path[k][2])
<1>3. \A h, k : Next0(h, k) = Goto(h[k - 1], path[k])
  BY DEF Goto
<1>4. PICK g : g = [k \in 0..n |-> at[k]]
  OBVIOUS
<1>5. g[0] = Shared.model /\ \A k \in 1..n : g[k] = Next0(g, k)
  <2>1. g[0] = Shared.model
    <3>1. 0 \in 0..n
      OBVIOUS
    <3>. QED
      BY <1>1, <1>4, <3>1 DEF Along
  <2>2. ASSUME NEW k \in 1..n PROVE g[k] = Next0(g, k)
    <3>1. PICK m : Leads(t, m, path[k]) /\ t[m].parent = at[k - 1] /\ t[m].fills = at[k]
      BY <1>1, <1>2 DEF Along
    <3>2. Goto(t[m].parent, path[k]) = t[m].fills
      BY <3>1, LeadsThere
    <3>3. k \in 0..n /\ k - 1 \in 0..n
      OBVIOUS
    <3>4. g[k] = at[k] /\ g[k - 1] = at[k - 1]
      BY <1>4, <3>3
    <3>5. Goto(g[k - 1], path[k]) = g[k]
      BY <3>1, <3>2, <3>4
    <3>. HIDE DEF Next0
    <3>. QED
      BY <1>3, <3>5, Zenon
  <2>. QED
    BY <2>1, <2>2
<1>. HIDE DEF Next0
<1>6. PICK H : H = [k \in 0..n |-> IF k = 0 THEN Shared.model ELSE Next0(g, k)]
  OBVIOUS
<1>7. g = H
  <2>1. \A k \in 0..n : k = 0 \/ k \in 1..n
    OBVIOUS
  <2>2. H[0] = Shared.model /\ \A k \in 1..n : H[k] = Next0(g, k)
    BY <1>6
  <2>3. \A k \in 0..n : g[k] = H[k]
    BY <1>5, <2>1, <2>2
  <2>. QED
    BY <1>4, <1>6, <2>3
<1>8. PICK to : to = CHOOSE h : h = [k \in 0..n |-> IF k = 0 THEN Shared.model ELSE Next0(h, k)]
  OBVIOUS
<1>9. g = [k \in 0..n |-> IF k = 0 THEN Shared.model ELSE Next0(g, k)]
  BY <1>6, <1>7
<1>10. to = [k \in 0..n |-> IF k = 0 THEN Shared.model ELSE Next0(to, k)]
  BY <1>8, <1>9, Zenon
<1>11. to[0] = Shared.model /\ \A k \in 1..n : to[k] = Next0(to, k)
  <2>1. 0 \in 0..n /\ \A k \in 1..n : k \in 0..n /\ k # 0
    OBVIOUS
  <2>. QED
    BY <1>10, <2>1
<1>12. Follow(path) = to[n]
  BY <1>2, <1>8 DEF Follow, Next0
<1>13. to[n] = g[n]
  <2>1. PICK same : same = [k \in 0..n |-> to[k] = g[k]]
    OBVIOUS
  <2>2. same[0]
    <3>1. 0 \in 0..n
      OBVIOUS
    <3>. QED
      BY <1>5, <1>11, <2>1, <3>1, Zenon
  <2>3. ASSUME NEW k \in 1..n, same[k - 1] PROVE same[k]
    <3>1. k - 1 \in 0..n /\ k \in 0..n
      OBVIOUS
    <3>2. to[k - 1] = g[k - 1]
      BY <2>1, <2>3, <3>1, Zenon
    <3>3. Next0(to, k) = Next0(g, k)
      BY <1>3, <3>2, Zenon
    <3>. QED
      BY <1>5, <1>11, <2>1, <3>1, <3>3, Zenon
  <2>4. \A k \in 0..n : same[k]
    BY <2>2, <2>3, AllFollow
  <2>5. n \in 0..n
    OBVIOUS
  <2>. QED
    BY <2>1, <2>4, <2>5, Zenon
<1>14. g[n] = at[n]
  <2>1. n \in 0..n
    OBVIOUS
  <2>. QED
    BY <1>4, <2>1
<1>. QED
  BY <1>1, <1>2, <1>12, <1>13, <1>14

(***************************************************************************)
(* In the model of a file read to its end, every error of a handler that   *)
(* locates one leads to its element: in any file in which no element nests *)
(* in one of its name, no object has two meshes or two lists of components *)
(* and no mesh two beam lattices.                                          *)
(***************************************************************************)
THEOREM ErrorsAlwaysLocate == Spec => []ErrorsLocate
<1>1. ReadInv /\ FieldsInv /\ PathsInv => ErrorsLocate
  <2>. SUFFICES ASSUME ReadInv, FieldsInv, PathsInv, ReadToTheEnd, NamesDoNotNest, OneOfEach,
                       NEW k \in DOMAIN errs, errs[k].kind[2] \notin {"colorgroup", "multi"}
                PROVE  Follow(errs[k].path) = errs[k].of
    BY DEF ErrorsLocate
  <2>1. /\ Inv /\ NestInv /\ TreeInv /\ file \in Seq(Tokens) /\ i \notin DOMAIN file /\ open = <<>>
        /\ i \in Node /\ i - 1 \in 0..Len(file)
    BY DEF ReadInv, ContentInv, Inv, OpenInv, NestInv, ReadToTheEnd
  <2>2. PICK t : IsTree(t) /\ InTree = {t[j] : j \in {j \in DOMAIN file : IsStart(j)}}
    BY <2>1, TreeIs
  <2>3. OneOf(t)
    BY <2>2 DEF OneOf, OneOfEach
  <2>4. OneLatticeIn(t)
    <3>1. ASSUME NEW c, c.kind \in LatticeCreates PROVE DecoderOf(c.kind).wraps = "plain"
      <4>1. c.kind = <<"beamlattice", "beamlattice">>
        BY <3>1 DEF LatticeCreates, In
      <4>2. DecoderOf(c.kind) = LatticeDecoders["beamlattice"]
        BY <4>1 DEF DecoderOf
      <4>3. LatticeDecoders["beamlattice"] = beamLatticeDecoder
        BY DEF LatticeDecoders
      <4>4. beamLatticeDecoder.wraps = "plain"
        BY DEF beamLatticeDecoder, Entry, Plain, In
      <4>. QED
        BY <4>2, <4>3, <4>4
    <3>. QED
      BY <2>3, <3>1 DEF OneOf, OneLatticeIn, OneLattice
  <2>5. NoNesting
    BY <2>1, NamesDoNotNestHere
  <2>6. SlotsInv(t) /\ StackTree(t) /\ RoutesInv(t)
    BY <2>1, <2>2, <2>4, <2>5 DEF FieldsInv, PathsInv, TreeInv
  <2>7. i - 1 = Len(file)
    BY <2>1 DEF Node
  <2>8. ~(Len(stack) > 1)
    BY <2>1, TopOpen DEF Range
  <2>9. OnStack \subseteq {0}
    <3>1. ASSUME NEW j \in 1..Len(stack) PROVE stack[j].node = 0
      <4>1. j = 1
        BY <2>1, <2>8, StackFacts
      <4>2. stack[j] = TopLevel
        BY <2>6, <4>1 DEF StackTree
      <4>3. TopLevel.node = 0
        BY DEF TopLevel
      <4>. QED
        BY <4>2, <4>3
    <3>. QED
      BY <3>1 DEF OnStack
  <2>10. AllRead
    BY <2>1, <2>7, <2>9 DEF AllRead
  <2>11. PICK e : e = errs[k] /\ Located(t, e)
    BY <2>6 DEF RoutesInv
  <2>12. Route(t, e.path, e.of)
    BY <2>11 DEF Located
  <2>. QED
    BY <2>2, <2>3, <2>6, <2>10, <2>11, <2>12, FollowRoute
<1>. QED
  BY <1>1, PathsInvariant, PTL

-----------------------------------------------------------------------------

(***************************************************************************)
(* The flags of the printer.  Skipping(s, k): before the k-th call of s    *)
(* escaping was switched off and not on again.                             *)
(***************************************************************************)
WrittenNames ==
  AllNumbers
  \cup ({"core"} \X {"model", "metadata", "metadatagroup", "resources", "basematerials", "base",
                     "object", "mesh", "vertices", "triangles", "components", "component",
                     "build", "item"})
  \cup ({"materials"} \X (DOMAIN GroupItem \cup {"texture2d"}))
  \cup ({"slices"} \X {"slicestack", "slice", "sliceref", "vertices"})
  \cup ({"beamlattice"} \X {"beamlattice", "beams", "beamsets", "beamset", "ref"})

AllCalls ==
  Tokens \cup {Start(n, FALSE) : n \in WrittenNames} \cup {End(n) : n \in WrittenNames}
  \cup {AutoClose(on) : on \in BOOLEAN} \cup {SkipAttrEscape(on) : on \in BOOLEAN}

Skipping(s, k) ==
  \E j \in 1..(k - 1) : /\ s[j].op = "skip" /\ s[j].on
                        /\ \A l \in (j + 1)..(k - 1) : s[l].op # "skip"

NeedsNoEscape(call) ==
  /\ call.op = "start" => call.name \in AllNumbers
  /\ call.op # "text"

(* Calls that print nothing to be escaped while escaping is off, and that  *)
(* leave it on.                                                            *)
Neutral(s) ==
  /\ s \in Seq(AllCalls)
  /\ \A k \in 1..Len(s) : Skipping(s, k) => NeedsNoEscape(s[k])
  /\ ~Skipping(s, Len(s) + 1)

LEMMA PlainCalls ==
  ASSUME NEW s \in Seq(AllCalls), \A k \in 1..Len(s) : s[k].op # "skip"
  PROVE  Neutral(s)
<1>1. Len(s) \in Nat
  OBVIOUS
<1>2. \A k \in 1..(Len(s) + 1) : \A j \in 1..(k - 1) : j \in 1..Len(s)
  BY <1>1
<1>3. \A k \in 1..(Len(s) + 1) : ~Skipping(s, k)
  BY <1>2 DEF Skipping
<1>4. Len(s) + 1 \in 1..(Len(s) + 1) /\ \A k \in 1..Len(s) : k \in 1..(Len(s) + 1)
  BY <1>1
<1>. QED
  BY <1>3, <1>4 DEF Neutral

LEMMA NeutralConcat ==
  ASSUME NEW s, NEW t, Neutral(s), Neutral(t)
  PROVE  Neutral(s \o t)
<1>1. s \in Seq(AllCalls) /\ t \in Seq(AllCalls)
  BY DEF Neutral
<1>2. PICK m \in Nat, n \in Nat : m = Len(s) /\ n = Len(t)
  BY <1>1
<1>3. PICK r : r = s \o t
  OBVIOUS
<1>4. /\ r \in Seq(AllCalls) /\ Len(r) = m + n
      /\ \A k \in 1..m : r[k] = s[k]
      /\ \A k \in 1..n : r[m + k] = t[k]
  BY <1>1, <1>2, <1>3
<1>5. ~Skipping(s, m + 1) /\ ~Skipping(t, n + 1)
  BY <1>2 DEF Neutral
<1>6. ASSUME NEW k \in 1..(m + 1) PROVE Skipping(r, k) => Skipping(s, k)
  <2>1. ASSUME NEW j \in 1..(k - 1), r[j].op = "skip", r[j].on,
               \A l \in (j + 1)..(k - 1) : r[l].op # "skip"
        PROVE  Skipping(s, k)
    <3>1. j \in 1..m /\ \A l \in (j + 1)..(k - 1) : l \in 1..m
      OBVIOUS
    <3>2. s[j].op = "skip" /\ s[j].on /\ \A l \in (j + 1)..(k - 1) : s[l].op # "skip"
      BY <1>4, <2>1, <3>1
    <3>. QED
      BY <3>2 DEF Skipping
  <2>. QED
    BY <2>1 DEF Skipping
<1>7. ASSUME NEW k \in 1..(n + 1) PROVE Skipping(r, m + k) => Skipping(t, k)
  <2>1. ASSUME NEW j \in 1..(m + k - 1), r[j].op = "skip", r[j].on,
               \A l \in (j + 1)..(m + k - 1) : r[l].op # "skip"
        PROVE  Skipping(t, k)
    <3>1. CASE j <= m
      <4>1. j \in 1..((m + 1) - 1)
        BY <3>1
      <4>2. \A l \in (j + 1)..((m + 1) - 1) : l \in (j + 1)..(m + k - 1) /\ l \in 1..m
        OBVIOUS
      <4>3. j \in 1..m
        BY <3>1
      <4>4. s[j].op = "skip" /\ s[j].on /\ \A l \in (j + 1)..((m + 1) - 1) : s[l].op # "skip"
        BY <1>4, <2>1, <4>2, <4>3
      <4>5. Skipping(s, m + 1)
        BY <4>1, <4>4 DEF Skipping
      <4>. QED
        BY <1>5, <4>5
    <3>2. CASE j > m
      <4>1. PICK i0 \in 1..n : j = m + i0
        <5>1. j - m \in 1..n /\ j = m + (j - m)
          BY <3>2
        <5>. QED
          BY <5>1
      <4>2. i0 \in 1..(k - 1)
        BY <4>1
      <4>3. \A l \in (i0 + 1)..(k - 1) : m + l \in (j + 1)..(m + k - 1) /\ l \in 1..n
        BY <4>1
      <4>4. t[i0].op = "skip" /\ t[i0].on /\ \A l \in (i0 + 1)..(k - 1) : t[l].op # "skip"
        BY <1>4, <2>1, <4>1, <4>3
      <4>. QED
        BY <4>2, <4>4 DEF Skipping
    <3>. QED
      BY <3>1, <3>2
  <2>. QED
    BY <2>1 DEF Skipping
<1>8. ASSUME NEW k \in 1..(m + n), Skipping(r, k) PROVE NeedsNoEscape(r[k])
  <2>1. CASE k <= m
    <3>1. k \in 1..m /\ k \in 1..(m + 1)
      BY <2>1
    <3>2. NeedsNoEscape(s[k])
      BY <1>2, <1>6, <1>8, <3>1 DEF Neutral
    <3>. QED
      BY <1>4, <3>1, <3>2
  <2>2. CASE k > m
    <3>1. PICK j \in 1..n : k = m + j
      <4>1. k - m \in 1..n /\ k = m + (k - m)
        BY <2>2
      <4>. QED
        BY <4>1
    <3>2. j \in 1..(n + 1)
      OBVIOUS
    <3>3. NeedsNoEscape(t[j])
      BY <1>2, <1>7, <1>8, <3>1, <3>2 DEF Neutral
    <3>. QED
      BY <1>4, <3>1, <3>3
  <2>. QED
    BY <2>1, <2>2
<1>9. ~Skipping(r, Len(r) + 1)
  <2>1. n + 1 \in 1..(n + 1) /\ Len(r) + 1 = m + (n + 1)
    BY <1>4
  <2>. QED
    BY <1>5, <1>7, <2>1
<1>. QED
  BY <1>3, <1>4, <1>8, <1>9 DEF Neutral

LEMMA NeutralFlatten ==
  ASSUME NEW n \in Nat, NEW q, DOMAIN q = 1..n, q = [k \in 1..n |-> q[k]],
         \A k \in 1..n : Neutral(q[k])
  PROVE  Neutral(FlattenSeq(q))
<1>1. q \in [1..n -> Seq(AllCalls)]
  BY DEF Neutral
<1>2a. PICK f \in [0..n -> Seq(AllCalls)] : Flattens(f, n, q)
  BY <1>1, FlattenIs
<1>2. f[0] = << >> /\ f[n] = FlattenSeq(q) /\ \A k \in 1..n : f[k] = f[k - 1] \o q[k]
  BY <1>2a DEF Flattens
<1>3. PICK holds : holds = [k \in 0..n |-> Neutral(f[k])]
  OBVIOUS
<1>4. holds[0]
  <2>1. << >> \in Seq(AllCalls) /\ \A k \in 1..Len(<< >>) : FALSE
    OBVIOUS
  <2>2. Neutral(<< >>)
    BY <2>1, PlainCalls
  <2>3. 0 \in 0..n
    OBVIOUS
  <2>. QED
    BY <1>2, <1>3, <2>2, <2>3
<1>5. ASSUME NEW k \in 1..n, holds[k - 1] PROVE holds[k]
  <2>1. k - 1 \in 0..n /\ k \in 0..n
    OBVIOUS
  <2>2. Neutral(f[k - 1] \o q[k])
    BY <1>3, <1>5, <2>1, NeutralConcat
  <2>. QED
    BY <1>2, <1>3, <2>1, <2>2
<1>6. \A k \in 0..n : holds[k]
  BY ONLY <1>4, <1>5, AllFollow
<1>7. n \in 0..n
  OBVIOUS
<1>. QED
  BY <1>2, <1>3, <1>6, <1>7

(* The calls but SetSkipAttrEscape, and those that print nothing to be     *)
(* escaped.                                                                *)
PlainCall ==
  Tokens \cup {Start(n, FALSE) : n \in WrittenNames} \cup {End(n) : n \in WrittenNames}
  \cup {AutoClose(on) : on \in BOOLEAN}

Harmless ==
  {Start(n, FALSE) : n \in AllNumbers} \cup {End(n) : n \in WrittenNames}
  \cup {AutoClose(on) : on \in BOOLEAN}

LEMMA PlainNeutral ==
  ASSUME NEW s \in Seq(PlainCall)
  PROVE  Neutral(s)
<1>1. PlainCall \subseteq AllCalls
  BY DEF PlainCall, AllCalls
<1>2. s \in Seq(AllCalls)
  BY <1>1
<1>3. \A c \in PlainCall : c.op # "skip"
  BY DEF PlainCall, Tokens, Start, Bare, End, Text, Malformed, AutoClose
<1>4. \A k \in 1..Len(s) : s[k] \in PlainCall
  OBVIOUS
<1>. QED
  BY <1>2, <1>3, <1>4, PlainCalls

LEMMA HarmlessFacts ==
  /\ Harmless \subseteq AllCalls
  /\ \A c \in Harmless : c.op # "skip" /\ NeedsNoEscape(c)
<1>1. Harmless \subseteq AllCalls
  <2>1. ASSUME NEW n \in AllNumbers PROVE Start(n, FALSE) \in AllCalls
    <3>1. n \in WrittenNames
      BY DEF WrittenNames
    <3>. QED
      BY ONLY <3>1 DEF AllCalls
  <2>2. ASSUME NEW c \in Harmless PROVE c \in AllCalls
    BY ONLY <2>1, <2>2 DEF Harmless, AllCalls
  <2>. QED
    BY ONLY <2>2
<1>2. ASSUME NEW n \in AllNumbers PROVE Start(n, FALSE).op # "skip" /\ NeedsNoEscape(Start(n, FALSE))
  BY DEF Start, NeedsNoEscape
<1>3. ASSUME NEW n PROVE End(n).op # "skip" /\ NeedsNoEscape(End(n))
  BY DEF End, NeedsNoEscape
<1>4. ASSUME NEW on PROVE AutoClose(on).op # "skip" /\ NeedsNoEscape(AutoClose(on))
  BY DEF AutoClose, NeedsNoEscape
<1>5. ASSUME NEW c \in Harmless PROVE c.op # "skip" /\ NeedsNoEscape(c)
  BY <1>2, <1>3, <1>4 DEF Harmless
<1>. QED
  BY <1>1, <1>5

(* Escaping is off around calls that need none.                            *)
LEMMA OffNeutral ==
  ASSUME NEW body \in Seq(Harmless)
  PROVE  Neutral(<<SkipAttrEscape(TRUE)>> \o body \o <<SkipAttrEscape(FALSE)>>)
<1>1. PICK n \in Nat : n = Len(body)
  OBVIOUS
<1>2. PICK a, b : a = SkipAttrEscape(TRUE) /\ b = SkipAttrEscape(FALSE)
  OBVIOUS
<1>3. a \in AllCalls /\ b \in AllCalls
  BY <1>2 DEF AllCalls
<1>4. body \in Seq(AllCalls)
  BY HarmlessFacts
<1>5. PICK s : s = <<a>> \o body \o <<b>>
  OBVIOUS
<1>6. s \in Seq(AllCalls) /\ Len(s) = n + 2
  BY <1>1, <1>3, <1>4, <1>5
<1>7. \A k \in 2..(n + 1) : s[k] = body[k - 1]
  BY <1>1, <1>3, <1>4, <1>5
<1>8. s[1] = a /\ s[n + 2] = b
  BY <1>1, <1>3, <1>4, <1>5
<1>9. \A k \in 2..(n + 1) : NeedsNoEscape(s[k])
  <2>1. ASSUME NEW k \in 2..(n + 1) PROVE NeedsNoEscape(s[k])
    <3>1. k - 1 \in 1..Len(body)
      BY <1>1
    <3>2. body[k - 1] \in Harmless
      BY <3>1
    <3>. QED
      BY <1>7, <3>2, HarmlessFacts
  <2>. QED
    BY <2>1
<1>10. NeedsNoEscape(a) /\ NeedsNoEscape(b)
  BY <1>2 DEF NeedsNoEscape, SkipAttrEscape
<1>11. \A k \in 1..(n + 2) : NeedsNoEscape(s[k])
  <2>1. \A k \in 1..(n + 2) : k = 1 \/ k = n + 2 \/ k \in 2..(n + 1)
    OBVIOUS
  <2>. QED
    BY <1>8, <1>9, <1>10, <2>1
<1>12. ~Skipping(s, n + 3)
  <2>1. SUFFICES ASSUME NEW j \in 1..((n + 3) - 1), s[j].op = "skip", s[j].on,
                        \A l \in (j + 1)..((n + 3) - 1) : s[l].op # "skip"
                 PROVE  FALSE
    BY DEF Skipping
  <2>2. b.op = "skip" /\ b.on = FALSE
    BY <1>2 DEF SkipAttrEscape
  <2>3. j = n + 2
    <3>1. j # n + 2 => n + 2 \in (j + 1)..((n + 3) - 1)
      OBVIOUS
    <3>. QED
      BY <1>8, <2>1, <2>2, <3>1
  <2>. QED
    BY <1>8, <2>1, <2>2, <2>3
<1>13. Len(s) + 1 = n + 3
  BY <1>6
<1>. QED
  BY <1>2, <1>5, <1>6, <1>11, <1>12, <1>13 DEF Neutral

LEMMA AutoClosedNeutral ==
  ASSUME NEW body, Neutral(body)
  PROVE  Neutral(AutoClosed(body))
<1>0. PICK on, off : on = AutoClose(TRUE) /\ off = AutoClose(FALSE)
  OBVIOUS
<1>1. PICK a, b : a = <<on>> /\ b = <<off>>
  OBVIOUS
<1>2. on \in PlainCall /\ off \in PlainCall
  BY <1>0 DEF PlainCall
<1>3. a \in Seq(PlainCall) /\ b \in Seq(PlainCall)
  BY <1>1, <1>2
<1>4. Neutral(a) /\ Neutral(b)
  BY <1>3, PlainNeutral
<1>5. Neutral(a \o body)
  BY <1>4, NeutralConcat
<1>6. Neutral((a \o body) \o b)
  BY <1>4, <1>5, NeutralConcat
<1>. QED
  BY <1>0, <1>1, <1>6 DEF AutoClosed

LEMMA NumbersNeutral ==
  ASSUME NEW body \in Seq(Harmless)
  PROVE  Neutral(Numbers(body))
BY OffNeutral, AutoClosedNeutral DEF Numbers

LEMMA StartEndPlain ==
  ASSUME NEW name \in WrittenNames
  PROVE  <<Start(name, FALSE)>> \in Seq(PlainCall) /\ <<End(name)>> \in Seq(PlainCall)
<1>1. PICK s, e : s = Start(name, FALSE) /\ e = End(name)
  OBVIOUS
<1>2. s \in PlainCall /\ e \in PlainCall
  BY <1>1 DEF PlainCall
<1>3. <<s>> \in Seq(PlainCall) /\ <<e>> \in Seq(PlainCall)
  BY <1>2
<1>. QED
  BY <1>1, <1>3

LEMMA WithinNeutral ==
  ASSUME NEW name \in WrittenNames, NEW body, Neutral(body)
  PROVE  Neutral(Within(name, body))
<1>1. PICK a, b : a = <<Start(name, FALSE)>> /\ b = <<End(name)>>
  OBVIOUS
<1>2. Neutral(a) /\ Neutral(b)
  BY <1>1, StartEndPlain, PlainNeutral
<1>3. Neutral(a \o body)
  BY <1>2, NeutralConcat
<1>4. Neutral((a \o body) \o b)
  BY <1>2, <1>3, NeutralConcat
<1>. QED
  BY <1>1, <1>4 DEF Within

LEMMA ElementNeutral ==
  ASSUME NEW local, <<"core", local>> \in WrittenNames, NEW body, Neutral(body)
  PROVE  Neutral(Element(local, body))
BY WithinNeutral DEF Element

LEMMA NothingNeutral == Neutral(<< >>)
<1>1. << >> \in Seq(PlainCall)
  OBVIOUS
<1>. QED
  BY <1>1, PlainNeutral

LEMMA TimesType ==
  ASSUME NEW S, NEW call \in S, NEW n \in Nat
  PROVE  Times(n, call) \in Seq(S)
<1>1. [k \in 1..n |-> call] \in [1..n -> S]
  OBVIOUS
<1>. QED
  BY <1>1 DEF Times

(* A list of elements that auto closing closes: their names need not be    *)
(* numbers only, as long as escaping is on.                                *)
LEMMA ClosedTimesNeutral ==
  ASSUME NEW name \in WrittenNames, NEW n \in Nat
  PROVE  Neutral(AutoClosed(Times(n, Start(name, FALSE))))
<1>1. Start(name, FALSE) \in PlainCall
  BY DEF PlainCall
<1>. QED
  BY <1>1, TimesType, PlainNeutral, AutoClosedNeutral

LEMMA NumbersTimesNeutral ==
  ASSUME NEW name \in AllNumbers, NEW n \in Nat
  PROVE  Neutral(Numbers(Times(n, Start(name, FALSE))))
<1>1. Start(name, FALSE) \in Harmless
  BY DEF Harmless
<1>. QED
  BY <1>1, TimesType, NumbersNeutral

LEMMA CoreNames ==
  \A local \in {"model", "metadata", "metadatagroup", "resources", "basematerials", "base",
                "object", "mesh", "vertices", "triangles", "components", "component",
                "build", "item"} : <<"core", local>> \in WrittenNames
BY DEF WrittenNames

LEMMA MetadataNeutral ==
  ASSUME NEW md \in Seq(BOOLEAN)
  PROVE  Neutral(writeMetadata(md)) /\ Neutral(writeMetadataGroup(md))
<1>1. PICK n \in Nat : n = Len(md) /\ DOMAIN md = 1..n
  OBVIOUS
<1>. DEFINE Value(hasValue) == IF hasValue THEN <<Text>> ELSE <<>>
            One(k) == Element("metadata", Value(md[k]))
<1>2. PICK q : q = [k \in 1..n |-> One(k)]
  OBVIOUS
<1>3. ASSUME NEW k \in 1..n PROVE Neutral(q[k])
  <2>1. Neutral(Value(md[k]))
    <3>1. PICK t : t = Text
      OBVIOUS
    <3>2. t \in PlainCall
      BY <3>1 DEF PlainCall, Tokens
    <3>3. <<t>> \in Seq(PlainCall)
      BY <3>2
    <3>. QED
      BY <3>1, <3>3, PlainNeutral, NothingNeutral
  <2>. HIDE DEF Value
  <2>2. Neutral(One(k))
    BY <2>1, CoreNames, ElementNeutral
  <2>. QED
    BY <1>2, <2>2
<1>4. Neutral(FlattenSeq(q))
  <2>. HIDE DEF One
  <2>1. DOMAIN q = 1..n /\ q = [k \in 1..n |-> q[k]]
    BY <1>2
  <2>. QED
    BY <1>3, <2>1, NeutralFlatten
<1>5. writeMetadata(md) = FlattenSeq(q)
  BY <1>1, <1>2, Zenon DEF writeMetadata, ForEach
<1>6. Neutral(writeMetadata(md))
  BY <1>4, <1>5
<1>7. Neutral(Element("metadatagroup", writeMetadata(md)))
  BY <1>6, CoreNames, ElementNeutral
<1>. QED
  BY <1>6, <1>7 DEF writeMetadataGroup

LEMMA BuildNeutral ==
  ASSUME NEW items \in Seq(Seq(BOOLEAN))
  PROVE  Neutral(writeBuild(items))
<1>1. PICK n \in Nat : n = Len(items) /\ DOMAIN items = 1..n
  OBVIOUS
<1>2. PICK q : q = [k \in 1..n |-> writeItem(items[k])]
  OBVIOUS
<1>3. ASSUME NEW md \in Seq(BOOLEAN) PROVE Neutral(writeItem(md))
  <2>1. CASE md = << >>
    <3>1. Neutral(<<Open("item")>>)
      BY CoreNames, StartEndPlain, PlainNeutral DEF Open
    <3>. QED
      BY <2>1, <3>1 DEF writeItem
  <2>2. CASE md # << >>
    <3>1. PICK a, b : a = AutoClose(FALSE) /\ b = AutoClose(TRUE)
      OBVIOUS
    <3>2. a \in PlainCall /\ b \in PlainCall
      BY <3>1 DEF PlainCall
    <3>3. <<a>> \in Seq(PlainCall) /\ <<b>> \in Seq(PlainCall)
      BY <3>2
    <3>4. Neutral(<<a>>) /\ Neutral(<<b>>)
      BY <3>3, PlainNeutral
    <3>5. PICK e : e = Element("item", writeMetadataGroup(md))
      OBVIOUS
    <3>6. Neutral(e)
      BY <3>5, MetadataNeutral, CoreNames, ElementNeutral
    <3>7. Neutral(<<a>> \o e)
      BY <3>4, <3>6, NeutralConcat
    <3>8. Neutral((<<a>> \o e) \o <<b>>)
      BY <3>4, <3>7, NeutralConcat
    <3>9. writeItem(md) = (<<a>> \o e) \o <<b>>
      BY <2>2, <3>1, <3>5, Zenon DEF writeItem
    <3>. QED
      BY <3>8, <3>9
  <2>. QED
    BY <2>1, <2>2
<1>4. \A k \in 1..n : Neutral(q[k])
  <2>1. \A k \in 1..n : items[k] \in Seq(BOOLEAN)
    BY <1>1
  <2>. QED
    BY <1>2, <1>3, <2>1
<1>5. Neutral(FlattenSeq(q))
  <2>1. DOMAIN q = 1..n /\ q = [k \in 1..n |-> q[k]]
    BY <1>2
  <2>. QED
    BY <1>4, <2>1, NeutralFlatten
<1>6. ForEach(items, writeItem) = FlattenSeq(q)
  BY <1>1, <1>2, Zenon DEF ForEach
<1>7. Neutral(AutoClosed(ForEach(items, writeItem)))
  BY <1>5, <1>6, AutoClosedNeutral
<1>. QED
  BY <1>7, CoreNames, ElementNeutral DEF writeBuild

LEMMA GroupNeutral ==
  ASSUME NEW kind \in DOMAIN GroupItem, NEW count \in Nat
  PROVE  Neutral(Within(<<"materials", kind>>,
                   Numbers(Times(count, Start(<<"materials", GroupItem[kind]>>, FALSE)))))
<1>1. GroupItem[kind] \in Range(GroupItem)
  BY DEF Range
<1>2. <<"materials", GroupItem[kind]>> \in AllNumbers
  BY <1>1 DEF AllNumbers
<1>3. <<"materials", kind>> \in WrittenNames
  BY DEF WrittenNames
<1>. QED
  BY <1>2, <1>3, NumbersTimesNeutral, WithinNeutral

LEMMA SliceNames ==
  /\ \A local \in {"slicestack", "slice", "sliceref", "vertices"} : <<"slices", local>> \in WrittenNames
  /\ \A local \in {"vertex", "polygon", "segment"} :
       <<"slices", local>> \in AllNumbers /\ <<"slices", local>> \in WrittenNames
<1>1. \A local \in {"vertex", "polygon", "segment"} : <<"slices", local>> \in AllNumbers
  BY DEF AllNumbers
<1>2. \A local \in {"slicestack", "slice", "sliceref", "vertices"} : <<"slices", local>> \in WrittenNames
  BY DEF WrittenNames
<1>. QED
  BY <1>1, <1>2 DEF WrittenNames

(* The polygons are written with escaping off, their segments with auto    *)
(* closing on: every name among them is of numbers only.                   *)
LEMMA PolygonsNeutral ==
  ASSUME NEW polygons \in Seq(Nat)
  PROVE  Neutral(marshalPolygons(polygons))
<1>1. PICK n \in Nat : n = Len(polygons) /\ DOMAIN polygons = 1..n
  OBVIOUS
<1>. DEFINE One(k) == Within(<<"slices", "polygon">>,
                        AutoClosed(Times(polygons[k], Start(<<"slices", "segment">>, FALSE))))
<1>2. PICK q : q = [k \in 1..n |-> One(k)]
  OBVIOUS
<1>3. ASSUME NEW k \in 1..n PROVE One(k) \in Seq(Harmless)
  <2>1. PICK on, off : on = AutoClose(TRUE) /\ off = AutoClose(FALSE)
    OBVIOUS
  <2>2. PICK s, e, t : /\ s = Start(<<"slices", "polygon">>, FALSE)
                       /\ e = End(<<"slices", "polygon">>)
                       /\ t = Start(<<"slices", "segment">>, FALSE)
    OBVIOUS
  <2>3. on \in Harmless /\ off \in Harmless
    BY <2>1 DEF Harmless
  <2>4. s \in Harmless /\ e \in Harmless /\ t \in Harmless
    BY <2>2, SliceNames DEF Harmless
  <2>5. PICK ts : ts = Times(polygons[k], t)
    OBVIOUS
  <2>6. ts \in Seq(Harmless)
    <3>1. polygons[k] \in Nat
      BY <1>1
    <3>. QED
      BY <2>4, <2>5, <3>1, TimesType
  <2>7. PICK closed : closed = <<on>> \o ts \o <<off>>
    OBVIOUS
  <2>8. closed \in Seq(Harmless)
    BY <2>3, <2>6, <2>7
  <2>9. <<s>> \o closed \o <<e>> \in Seq(Harmless)
    BY <2>4, <2>8
  <2>10. AutoClosed(ts) = closed
    BY <2>1, <2>7 DEF AutoClosed
  <2>. QED
    BY <2>2, <2>5, <2>9, <2>10 DEF Within
<1>4. FlattenSeq(q) \in Seq(Harmless)
  <2>. HIDE DEF One
  <2>1. q \in [1..n -> Seq(Harmless)]
    BY <1>2, <1>3
  <2>. QED
    BY <2>1, FlattenType
<1>5. Neutral(<<SkipAttrEscape(TRUE)>> \o FlattenSeq(q) \o <<SkipAttrEscape(FALSE)>>)
  BY <1>4, OffNeutral
<1>6. marshalPolygons(polygons) =
        <<SkipAttrEscape(TRUE)>> \o FlattenSeq(q) \o <<SkipAttrEscape(FALSE)>>
  BY <1>1, <1>2, Zenon DEF marshalPolygons, ForEach
<1>. QED
  BY <1>5, <1>6

LEMMA SliceNeutral ==
  ASSUME NEW s \in SliceType
  PROVE  Neutral(marshalSlice(s))
<1>1. s.vertices \in Nat /\ s.polygons \in Seq(Nat)
  BY DEF SliceType
<1>2. Neutral(Numbers(Times(s.vertices, Start(<<"slices", "vertex">>, FALSE))))
  BY <1>1, SliceNames, NumbersTimesNeutral
<1>3. Neutral(marshalVertices(s.vertices))
  BY <1>2, SliceNames, WithinNeutral DEF marshalVertices
<1>4. Neutral(marshalVertices(s.vertices) \o marshalPolygons(s.polygons))
  BY <1>1, <1>3, PolygonsNeutral, NeutralConcat
<1>. QED
  BY <1>4, SliceNames, WithinNeutral DEF marshalSlice

LEMMA StackNeutral ==
  ASSUME NEW asset, asset.count \in Nat, asset.slices \in Seq(SliceType)
  PROVE  Neutral(marshalStack(asset))
<1>1. PICK s \in Seq(SliceType) : s = asset.slices
  OBVIOUS
<1>2. PICK n \in Nat : n = Len(s) /\ DOMAIN s = 1..n
  OBVIOUS
<1>3. PICK q : q = [k \in 1..n |-> marshalSlice(s[k])]
  OBVIOUS
<1>4. \A k \in 1..n : Neutral(q[k])
  <2>1. \A k \in 1..n : s[k] \in SliceType
    BY <1>2
  <2>. QED
    BY <1>3, <2>1, SliceNeutral
<1>5. Neutral(FlattenSeq(q))
  <2>1. DOMAIN q = 1..n /\ q = [k \in 1..n |-> q[k]]
    BY <1>3
  <2>. QED
    BY <1>4, <2>1, NeutralFlatten
<1>6. ForEach(asset.slices, marshalSlice) = FlattenSeq(q)
  BY <1>1, <1>2, <1>3, Zenon DEF ForEach
<1>7. PICK refs : refs = AutoClosed(Times(asset.count, Start(<<"slices", "sliceref">>, FALSE)))
  OBVIOUS
<1>8. Neutral(refs)
  BY <1>7, SliceNames, ClosedTimesNeutral
<1>9. Neutral(FlattenSeq(q) \o refs)
  BY <1>5, <1>8, NeutralConcat
<1>10. <<"slices", "slicestack">> \in WrittenNames
  BY SliceNames
<1>11. Neutral(Within(<<"slices", "slicestack">>, FlattenSeq(q) \o refs))
  BY <1>9, <1>10, WithinNeutral
<1>. QED
  BY <1>6, <1>7, <1>11 DEF marshalStack

(* The tokens of an unknown element are written with the flag off.         *)
LEMMA KeptNeutral ==
  ASSUME NEW tokens \in ReadTokens
  PROVE  Neutral(tokens)
<1>1. PICK T : T = Tokens \ {Malformed}
  OBVIOUS
<1>2. T \subseteq PlainCall
  BY <1>1 DEF PlainCall
<1>3. tokens \in Seq(T)
  BY <1>1 DEF ReadTokens
<1>4. tokens \in Seq(PlainCall)
  BY <1>2, <1>3
<1>. QED
  BY <1>4, PlainNeutral

LEMMA AssetNeutral ==
  ASSUME NEW asset \in AssetType
  PROVE  Neutral(Marshal3MF(asset))
<1>1. /\ asset.kind \in {"basematerials", "texture2d", "slicestack", "asset"} \cup DOMAIN GroupItem
      /\ asset.count \in Nat /\ asset.slices \in Seq(SliceType) /\ asset.tokens \in ReadTokens
  BY DEF AssetType
<1>0. DOMAIN GroupItem = {"colorgroup", "texture2dgroup", "compositematerials", "multiproperties"}
  BY DEF GroupItem
<1>2. CASE asset.kind = "basematerials"
  <2>1. <<"core", "base">> \in WrittenNames
    BY CoreNames
  <2>2. Neutral(AutoClosed(Times(asset.count, Open("base"))))
    BY <1>1, <2>1, ClosedTimesNeutral DEF Open
  <2>3. Neutral(Element("basematerials", AutoClosed(Times(asset.count, Open("base")))))
    BY <2>2, CoreNames, ElementNeutral
  <2>4. asset.kind \notin DOMAIN GroupItem
    BY <1>0, <1>2
  <2>5. Marshal3MF(asset) = Element("basematerials", AutoClosed(Times(asset.count, Open("base"))))
    BY <1>2, <2>4 DEF Marshal3MF
  <2>. QED
    BY <2>3, <2>5
<1>3. CASE asset.kind \in DOMAIN GroupItem
  <2>1. Neutral(marshalGroup(asset))
    BY <1>1, <1>3, GroupNeutral DEF marshalGroup
  <2>2. Marshal3MF(asset) = marshalGroup(asset)
    BY <1>0, <1>3 DEF Marshal3MF
  <2>. QED
    BY <2>1, <2>2
<1>4. CASE asset.kind = "texture2d"
  <2>1. <<"materials", "texture2d">> \in WrittenNames
    BY DEF WrittenNames
  <2>2. Neutral(<<Start(<<"materials", "texture2d">>, FALSE)>>)
    BY <2>1, StartEndPlain, PlainNeutral
  <2>3. Neutral(AutoClosed(<<Start(<<"materials", "texture2d">>, FALSE)>>))
    BY <2>2, AutoClosedNeutral
  <2>4. asset.kind \notin DOMAIN GroupItem
    BY <1>0, <1>4
  <2>5. Marshal3MF(asset) = AutoClosed(<<Start(<<"materials", "texture2d">>, FALSE)>>)
    BY <1>4, <2>4 DEF Marshal3MF
  <2>. QED
    BY <2>3, <2>5
<1>5. CASE asset.kind = "slicestack"
  <2>1. asset.kind \notin DOMAIN GroupItem
    BY <1>0, <1>5
  <2>2. Marshal3MF(asset) = marshalStack(asset)
    BY <1>5, <2>1 DEF Marshal3MF
  <2>. QED
    BY <1>1, <2>2, StackNeutral
<1>6. CASE asset.kind = "asset"
  <2>1. asset.kind \notin DOMAIN GroupItem
    BY <1>0, <1>6
  <2>2. Marshal3MF(asset) = asset.tokens
    BY <1>6, <2>1 DEF Marshal3MF
  <2>. QED
    BY <1>1, <2>2, KeptNeutral
<1>. QED
  BY <1>1, <1>2, <1>3, <1>4, <1>5, <1>6

LEMMA LatticeNames ==
  /\ \A local \in {"beamlattice", "beams", "beamsets", "beamset", "ref"} :
       <<"beamlattice", local>> \in WrittenNames
  /\ <<"beamlattice", "beam">> \in AllNumbers
BY DEF WrittenNames, AllNumbers

LEMMA BeamSetsNeutral ==
  ASSUME NEW sets \in Seq(Nat)
  PROVE  Neutral(marshalBeamsets(sets))
<1>1. PICK n \in Nat : n = Len(sets) /\ DOMAIN sets = 1..n
  OBVIOUS
<1>. DEFINE One(k) == Within(<<"beamlattice", "beamset">>,
                        AutoClosed(Times(sets[k], Start(<<"beamlattice", "ref">>, FALSE))))
<1>2. PICK q : q = [k \in 1..n |-> One(k)]
  OBVIOUS
<1>3. ASSUME NEW k \in 1..n PROVE Neutral(One(k))
  <2>1. sets[k] \in Nat
    BY <1>1
  <2>2. <<"beamlattice", "ref">> \in WrittenNames /\ <<"beamlattice", "beamset">> \in WrittenNames
    BY LatticeNames
  <2>3. Neutral(AutoClosed(Times(sets[k], Start(<<"beamlattice", "ref">>, FALSE))))
    BY <2>1, <2>2, ClosedTimesNeutral
  <2>. QED
    BY <2>2, <2>3, WithinNeutral
<1>4. Neutral(FlattenSeq(q))
  <2>. HIDE DEF One
  <2>1. DOMAIN q = 1..n /\ q = [k \in 1..n |-> q[k]] /\ \A k \in 1..n : q[k] = One(k)
    BY <1>2
  <2>2. \A k \in 1..n : Neutral(q[k])
    BY <1>3, <2>1
  <2>. QED
    BY <2>1, <2>2, NeutralFlatten
<1>5. <<"beamlattice", "beamsets">> \in WrittenNames
  BY LatticeNames
<1>6. Neutral(Within(<<"beamlattice", "beamsets">>, FlattenSeq(q)))
  BY <1>4, <1>5, WithinNeutral
<1>7. marshalBeamsets(sets) = Within(<<"beamlattice", "beamsets">>, FlattenSeq(q))
  BY <1>1, <1>2, Zenon DEF marshalBeamsets, ForEach
<1>. QED
  BY <1>6, <1>7

LEMMA AnyNeutral ==
  ASSUME NEW any \in Seq(AnyType)
  PROVE  Neutral(anyEncode(any))
<1>1. CASE any = << >>
  BY <1>1, NothingNeutral DEF anyEncode
<1>2. CASE any # << >>
  <2>1. PICK e \in AnyType : e = Head(any)
    BY <1>2
  <2>2. e.kind \in {"any", "beamlattice"} /\ e.tokens \in ReadTokens /\ e.beams \in Nat /\ e.sets \in Seq(Nat)
    BY DEF AnyType
  <2>3. CASE e.kind = "any"
    <3>1. marshalAny(e) = e.tokens
      BY <2>3 DEF marshalAny
    <3>2. anyEncode(any) = marshalAny(e)
      BY <1>2, <2>1 DEF anyEncode
    <3>. QED
      BY <2>2, <3>1, <3>2, KeptNeutral
  <2>4. CASE e.kind # "any"
    <3>1. Neutral(Numbers(Times(e.beams, Start(<<"beamlattice", "beam">>, FALSE))))
      BY <2>2, LatticeNames, NumbersTimesNeutral
    <3>2. <<"beamlattice", "beams">> \in WrittenNames /\ <<"beamlattice", "beamlattice">> \in WrittenNames
      BY LatticeNames
    <3>3. Neutral(marshalBeams(e.beams))
      BY <3>1, <3>2, WithinNeutral DEF marshalBeams
    <3>4. Neutral(marshalBeams(e.beams) \o marshalBeamsets(e.sets))
      BY <2>2, <3>3, BeamSetsNeutral, NeutralConcat
    <3>5. Neutral(Within(<<"beamlattice", "beamlattice">>, marshalBeams(e.beams) \o marshalBeamsets(e.sets)))
      BY <3>2, <3>4, WithinNeutral
    <3>6. Neutral(marshalAny(e))
      BY <2>4, <3>5 DEF marshalAny
    <3>7. anyEncode(any) = marshalAny(e)
      BY <1>2, <2>1 DEF anyEncode
    <3>. QED
      BY <3>6, <3>7
  <2>. QED
    BY <2>3, <2>4
<1>. QED
  BY <1>1, <1>2

LEMMA MeshNeutral ==
  ASSUME NEW o \in ObjectType
  PROVE  Neutral(writeMesh(o))
<1>1. o.vertices \in Nat /\ o.triangles \in Nat /\ o.any \in Seq(AnyType)
  BY DEF ObjectType
<1>2. <<"core", "vertex">> \in AllNumbers /\ <<"core", "triangle">> \in AllNumbers
  BY DEF AllNumbers
<1>3. Neutral(Numbers(Times(o.vertices, Open("vertex"))))
  BY <1>1, <1>2, NumbersTimesNeutral DEF Open
<1>4. Neutral(writeVertices(o.vertices))
  BY <1>3, CoreNames, ElementNeutral DEF writeVertices
<1>5. Neutral(Numbers(Times(o.triangles, Open("triangle"))))
  BY <1>1, <1>2, NumbersTimesNeutral DEF Open
<1>6. Neutral(writeTriangles(o.triangles))
  BY <1>5, CoreNames, ElementNeutral DEF writeTriangles
<1>7. Neutral(writeVertices(o.vertices) \o writeTriangles(o.triangles))
  BY <1>4, <1>6, NeutralConcat
<1>8. Neutral((writeVertices(o.vertices) \o writeTriangles(o.triangles)) \o anyEncode(o.any))
  BY <1>1, <1>7, AnyNeutral, NeutralConcat
<1>. QED
  BY <1>8, CoreNames, ElementNeutral DEF writeMesh

LEMMA ObjectNeutral ==
  ASSUME NEW o \in ObjectType
  PROVE  Neutral(writeObject(o))
<1>1. /\ o.metadata \in Seq(BOOLEAN) /\ o.shape \in {"mesh", "components", "none"}
      /\ o.components \in Nat
  BY DEF ObjectType
<1>. DEFINE MetaGroup == IF o.metadata = <<>> THEN <<>> ELSE writeMetadataGroup(o.metadata)
            ShapeCalls == CASE o.shape = "mesh"       -> writeMesh(o)
                       [] o.shape = "components" -> writeComponents(o.components)
                       [] o.shape = "none"       -> <<>>
<1>2. Neutral(MetaGroup)
  <2>1. Neutral(writeMetadataGroup(o.metadata))
    BY <1>1, MetadataNeutral
  <2>. QED
    BY <2>1, NothingNeutral
<1>3. Neutral(ShapeCalls)
  <2>1. <<"core", "component">> \in WrittenNames
    BY CoreNames
  <2>2. Neutral(AutoClosed(Times(o.components, Open("component"))))
    BY <1>1, <2>1, ClosedTimesNeutral DEF Open
  <2>3. Neutral(writeComponents(o.components))
    BY <2>2, CoreNames, ElementNeutral DEF writeComponents
  <2>4. Neutral(writeMesh(o))
    BY MeshNeutral
  <2>. QED
    BY <1>1, <2>3, <2>4, NothingNeutral
<1>. HIDE DEF MetaGroup, ShapeCalls
<1>4. Neutral(MetaGroup \o ShapeCalls)
  BY <1>2, <1>3, NeutralConcat
<1>5. Neutral(Element("object", MetaGroup \o ShapeCalls))
  BY <1>4, CoreNames, ElementNeutral
<1>. QED
  BY <1>5 DEF writeObject, MetaGroup, ShapeCalls

LEMMA ResourcesNeutral ==
  ASSUME NEW m \in ModelType
  PROVE  Neutral(writeResources(m))
<1>1. PICK a \in Seq(AssetType), o \in Seq(ObjectType) : a = m.assets /\ o = m.objects
  BY DEF ModelType
<1>2. PICK n \in Nat : n = Len(a) /\ DOMAIN a = 1..n
  OBVIOUS
<1>3. PICK q : q = [k \in 1..n |-> Marshal3MF(a[k])]
  OBVIOUS
<1>4. \A k \in 1..n : Neutral(q[k])
  <2>1. \A k \in 1..n : a[k] \in AssetType
    BY <1>2
  <2>. QED
    BY <1>3, <2>1, AssetNeutral
<1>5. Neutral(FlattenSeq(q))
  <2>1. DOMAIN q = 1..n /\ q = [k \in 1..n |-> q[k]]
    BY <1>3
  <2>. QED
    BY <1>4, <2>1, NeutralFlatten
<1>6. ForEach(m.assets, Marshal3MF) = FlattenSeq(q)
  BY <1>1, <1>2, <1>3, Zenon DEF ForEach
<1>7. PICK u \in Nat : u = Len(o) /\ DOMAIN o = 1..u
  OBVIOUS
<1>8. PICK r : r = [k \in 1..u |-> writeObject(o[k])]
  OBVIOUS
<1>9. \A k \in 1..u : Neutral(r[k])
  <2>1. \A k \in 1..u : o[k] \in ObjectType
    BY <1>7
  <2>. QED
    BY <1>8, <2>1, ObjectNeutral
<1>10. Neutral(FlattenSeq(r))
  <2>1. DOMAIN r = 1..u /\ r = [k \in 1..u |-> r[k]]
    BY <1>8
  <2>. QED
    BY <1>9, <2>1, NeutralFlatten
<1>11. ForEach(m.objects, writeObject) = FlattenSeq(r)
  BY <1>1, <1>7, <1>8, Zenon DEF ForEach
<1>12. Neutral(FlattenSeq(q) \o FlattenSeq(r))
  BY <1>5, <1>10, NeutralConcat
<1>13. Neutral(Element("resources", FlattenSeq(q) \o FlattenSeq(r)))
  BY <1>12, CoreNames, ElementNeutral
<1>. QED
  BY <1>6, <1>11, <1>13 DEF writeResources

(* Whatever the model, no text is written while escaping is off, and       *)
(* escaping is on at the end of the part.                                  *)
LEMMA ModelNeutral ==
  ASSUME NEW m \in ModelType
  PROVE  Neutral(writeModel(m)) /\ Neutral(writeChildModel(m))
<1>1. m.metadata \in Seq(BOOLEAN) /\ m.items \in Seq(Seq(BOOLEAN)) /\ m.any \in Seq(AnyType)
  BY DEF ModelType
<1>2. PICK md, res, build, any : /\ md = writeMetadata(m.metadata)
                                 /\ res = writeResources(m)
                                 /\ build = writeBuild(m.items)
                                 /\ any = anyEncode(m.any)
  OBVIOUS
<1>3. Neutral(md)
  BY <1>1, <1>2, MetadataNeutral
<1>4. Neutral(res)
  BY <1>2, ResourcesNeutral
<1>5. Neutral(build)
  BY <1>1, <1>2, BuildNeutral
<1>6. Neutral(any)
  BY <1>1, <1>2, AnyNeutral
<1>7. Neutral(writeModel(m))
  <2>1. Neutral(md \o res)
    BY <1>3, <1>4, NeutralConcat
  <2>2. Neutral((md \o res) \o build)
    BY <1>5, <2>1, NeutralConcat
  <2>3. Neutral(((md \o res) \o build) \o any)
    BY <1>6, <2>2, NeutralConcat
  <2>4. Neutral(Element("model", ((md \o res) \o build) \o any))
    BY <2>3, CoreNames, ElementNeutral
  <2>. QED
    BY <1>2, <2>4 DEF writeModel
<1>8. Neutral(writeChildModel(m))
  <2>1. PICK b : b = Element("build", <<>>)
    OBVIOUS
  <2>2. Neutral(b)
    BY <2>1, CoreNames, NothingNeutral, ElementNeutral
  <2>3. Neutral(res \o b)
    BY <1>4, <2>2, NeutralConcat
  <2>4. Neutral((res \o b) \o any)
    BY <1>6, <2>3, NeutralConcat
  <2>5. Neutral(Element("model", (res \o b) \o any))
    BY <2>4, CoreNames, ElementNeutral
  <2>. QED
    BY <1>2, <2>1, <2>5 DEF writeChildModel
<1>. QED
  BY <1>7, <1>8

LEMMA SkippingStep ==
  ASSUME NEW s \in Seq(AllCalls), NEW k \in 1..Len(s)
  PROVE  /\ s[k].op = "skip" => /\ s[k].on \in BOOLEAN
                                /\ Skipping(s, k + 1) <=> s[k].on
         /\ s[k].op # "skip" => (Skipping(s, k + 1) <=> Skipping(s, k))
<1>1. k \in Nat \ {0} /\ (k + 1) - 1 = k
  OBVIOUS
<1>2. ASSUME s[k].op = "skip" PROVE s[k].on \in BOOLEAN
  <2>1. s[k] \in AllCalls
    OBVIOUS
  <2>. QED
    BY <1>2, <2>1 DEF AllCalls, Tokens, Start, Bare, End, Text, Malformed, AutoClose, SkipAttrEscape
<1>3. ASSUME s[k].op = "skip", s[k].on PROVE Skipping(s, k + 1)
  <2>1. k \in 1..((k + 1) - 1) /\ (k + 1)..((k + 1) - 1) = {}
    BY <1>1
  <2>. QED
    BY <1>3, <2>1 DEF Skipping
<1>4. ASSUME s[k].op = "skip", Skipping(s, k + 1) PROVE s[k].on
  <2>1. PICK j \in 1..((k + 1) - 1) : /\ s[j].op = "skip" /\ s[j].on
                                      /\ \A l \in (j + 1)..((k + 1) - 1) : s[l].op # "skip"
    BY <1>4 DEF Skipping
  <2>2. j # k => k \in (j + 1)..((k + 1) - 1)
    BY <1>1
  <2>. QED
    BY <1>4, <2>1, <2>2
<1>5. ASSUME s[k].op # "skip", Skipping(s, k + 1) PROVE Skipping(s, k)
  <2>1. PICK j \in 1..((k + 1) - 1) : /\ s[j].op = "skip" /\ s[j].on
                                      /\ \A l \in (j + 1)..((k + 1) - 1) : s[l].op # "skip"
    BY <1>5 DEF Skipping
  <2>2. j # k
    BY <1>5, <2>1
  <2>3. j \in 1..(k - 1) /\ \A l \in (j + 1)..(k - 1) : l \in (j + 1)..((k + 1) - 1)
    BY <2>2
  <2>. QED
    BY <2>1, <2>3 DEF Skipping
<1>6. ASSUME s[k].op # "skip", Skipping(s, k) PROVE Skipping(s, k + 1)
  <2>1. PICK j \in 1..(k - 1) : /\ s[j].op = "skip" /\ s[j].on
                                /\ \A l \in (j + 1)..(k - 1) : s[l].op # "skip"
    BY <1>6 DEF Skipping
  <2>2. /\ j \in 1..((k + 1) - 1)
        /\ \A l \in (j + 1)..((k + 1) - 1) : l = k \/ l \in (j + 1)..(k - 1)
    OBVIOUS
  <2>3. \A l \in (j + 1)..((k + 1) - 1) : s[l].op # "skip"
    BY <1>6, <2>1, <2>2
  <2>. QED
    BY <2>1, <2>2, <2>3 DEF Skipping
<1>. QED
  BY <1>2, <1>3, <1>4, <1>5, <1>6

(* The printer's flag is what the calls that were made have set, and       *)
(* whatever was to be written leaves it as it was.                         *)
FlagInv ==
  /\ ci \in 1..(Len(calls) + 1)
  /\ Neutral(calls)
  /\ skip \in BOOLEAN
  /\ skip <=> Skipping(calls, ci)

LEMMA FlagInit ==
  ASSUME EncoderInit
  PROVE  FlagInv
<1>1. Neutral(calls)
  <2>1. CASE FileToRead
    BY <2>1, NothingNeutral DEF FileToRead
  <2>2. CASE ModelToWrite
    <3>1. model \in ModelType
      BY <2>2, EncoderAssumption DEF ModelToWrite
    <3>2. Neutral(writeModel(model)) /\ Neutral(writeChildModel(model))
      BY <3>1, ModelNeutral
    <3>3. calls = IF isRoot THEN writeModel(model) ELSE writeChildModel(model)
      BY <2>2 DEF ModelToWrite
    <3>. QED
      BY <3>2, <3>3
  <2>. QED
    BY <2>1, <2>2 DEF EncoderInit
<1>2. ci = 1 /\ skip = FALSE
  BY DEF EncoderInit
<1>3. ~Skipping(calls, 1)
  BY DEF Skipping
<1>4. 1 \in 1..(Len(calls) + 1)
  BY <1>1 DEF Neutral
<1>. QED
  BY <1>1, <1>2, <1>3, <1>4 DEF FlagInv

LEMMA FlagStep ==
  ASSUME FlagInv, [EncoderNext]_<<vars, encVars>>
  PROVE  FlagInv'
<1>1. calls \in Seq(AllCalls) /\ Len(calls) \in Nat /\ DOMAIN calls = 1..Len(calls)
  BY DEF FlagInv, Neutral
<1>2. CASE EncodeToken
  <2>1. ci \in 1..Len(calls) /\ calls[ci].op # "skip"
    BY <1>1, <1>2 DEF EncodeToken, Call
  <2>2. calls' = calls /\ skip' = skip /\ ci' = ci + 1
    BY <1>2 DEF EncodeToken
  <2>3. Skipping(calls, ci + 1) <=> Skipping(calls, ci)
    BY <1>1, <2>1, SkippingStep
  <2>4. ci + 1 \in 1..(Len(calls) + 1)
    BY <1>1, <2>1
  <2>. QED
    BY <2>2, <2>3, <2>4 DEF FlagInv, Neutral, Skipping
<1>3. CASE SetFlag
  <2>1. ci \in 1..Len(calls)
    BY <1>1, <1>3 DEF SetFlag
  <2>2. calls' = calls /\ ci' = ci + 1 /\ skip' = (IF calls[ci].op = "skip" THEN calls[ci].on ELSE skip)
    BY <1>3 DEF SetFlag, Call
  <2>3. ci + 1 \in 1..(Len(calls) + 1)
    BY <1>1, <2>1
  <2>4. skip' \in BOOLEAN /\ (skip' <=> Skipping(calls, ci + 1))
    <3>1. CASE calls[ci].op = "skip"
      <4>1. calls[ci].on \in BOOLEAN /\ (Skipping(calls, ci + 1) <=> calls[ci].on)
        BY <1>1, <2>1, <3>1, SkippingStep
      <4>2. skip' = calls[ci].on
        BY <2>2, <3>1
      <4>. QED
        BY <4>1, <4>2, Zenon
    <3>2. CASE calls[ci].op # "skip"
      <4>1. Skipping(calls, ci + 1) <=> Skipping(calls, ci)
        BY <1>1, <2>1, <3>2, SkippingStep
      <4>2. skip' = skip
        BY <2>2, <3>2
      <4>. QED
        BY <4>1, <4>2 DEF FlagInv
    <3>. QED
      BY <3>1, <3>2
  <2>. QED
    BY <2>2, <2>3, <2>4 DEF FlagInv, Neutral, Skipping
<1>4. CASE ReadBack \/ UNCHANGED <<vars, encVars>>
  <2>1. calls' = calls /\ ci' = ci /\ skip' = skip
    BY <1>4 DEF ReadBack, encVars
  <2>. QED
    BY <2>1 DEF FlagInv, Neutral, Skipping
<1>. QED
  BY <1>2, <1>3, <1>4 DEF EncoderNext

(***************************************************************************)
(* Whatever model is encoded, as a root or as a child part, escaping is    *)
(* off only while elements are printed whose attributes are all numbers:   *)
(* no writer leaves the flag set for what is written after it.             *)
(***************************************************************************)
THEOREM EncoderEscapesText == EncoderSpec => []TextIsEscaped
<1>1. EncoderInit => FlagInv
  BY FlagInit
<1>2. FlagInv /\ [EncoderNext]_<<vars, encVars>> => FlagInv'
  BY FlagStep
<1>3. FlagInv => TextIsEscaped
  <2>1. SUFFICES ASSUME FlagInv, skip, ci \in DOMAIN calls
                 PROVE  NeedsNoEscape(calls[ci])
    BY DEF TextIsEscaped, NeedsNoEscape, Call
  <2>2. ci \in 1..Len(calls) /\ Skipping(calls, ci)
    BY <2>1 DEF FlagInv, Neutral
  <2>. QED
    BY <2>1, <2>2 DEF FlagInv, Neutral
<1>. QED
  BY <1>1, <1>2, <1>3, PTL DEF EncoderSpec
=============================================================================
