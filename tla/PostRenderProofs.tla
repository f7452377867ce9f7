-------------------------- MODULE PostRenderProofs --------------------------
(***************************************************************************)
(* Theorems about PostRender, for every stream of well-formed documents,   *)
(* however deep.                                                           *)
(***************************************************************************)
EXTENDS PostRender, SequenceTheorems, TLAPS

-----------------------------------------------------------------------------
(* Trees                                                                   *)

(* What is assumed of the constants, in parts the provers can use.         *)
LEMMA DepthIsEnough == Depth \in Nat /\ Depth >= 3
BY Zenon, PostRenderAssumption

(* The words the filter writes are words.                                  *)
LEMMA WordsAre == /\ "" \in Words /\ "!!str" \in Words
                  /\ "serviceName" \in Words /\ "zot" \in Words
BY Zenon, PostRenderAssumption

NodesOver(S) == [kind : Kinds, tag : Words, value : Words, content : Seq(S)]

TreeDef(f, d) == {n \in NodesOver(IF d = 0 THEN {} ELSE f[d - 1]) : WellFormed(n)}

UpTo(k) == 0 .. k

TreeRec == INSTANCE Recursion WITH N <- Depth, Level <- UpTo, Def <- TreeDef

(* Tree is what its definition says.                                       *)
LEMMA TreeIs == Tree = [d \in 0 .. Depth |-> TreeDef(Tree, d)]
<1>1. TreeRec!Grows
  BY DepthIsEnough DEF TreeRec!Grows, UpTo
<1>2. TreeRec!Descends
  <2>1. ASSUME NEW f, NEW g PROVE \A d \in UpTo(0) : TreeDef(f, d) = TreeDef(g, d)
    BY DEF UpTo, TreeDef
  <2>2. ASSUME NEW f, NEW g, NEW k \in 0 .. Depth - 1, \A e \in UpTo(k) : f[e] = g[e],
               NEW d \in UpTo(k + 1)
        PROVE  TreeDef(f, d) = TreeDef(g, d)
    <3>1. d # 0 => f[d - 1] = g[d - 1]
      BY <2>2, DepthIsEnough DEF UpTo
    <3>2. QED
      BY <3>1 DEF TreeDef
  <2>3. QED
    BY <2>1, <2>2 DEF TreeRec!Descends
<1>3. \E f : f = [d \in UpTo(Depth) |-> TreeDef(f, d)]
  BY <1>1, <1>2, DepthIsEnough, TreeRec!Exists
<1>4. \E f : f = [d \in 0 .. Depth |-> TreeDef(f, d)]
  BY <1>3 DEF UpTo
<1>5. Tree = CHOOSE f : f = [d \in 0 .. Depth |-> TreeDef(f, d)]
  BY DEF Tree, TreeDef, NodesOver
<1>6. QED
  BY <1>4, <1>5

(* A node at the bottom has none in it, another has some of the level      *)
(* below.                                                                  *)
LEMMA TreeShape ==
    /\ Tree[0] = {n \in NodesOver({}) : WellFormed(n)}
    /\ \A d \in 0 .. Depth - 1 : Tree[d + 1] = {n \in NodesOver(Tree[d]) : WellFormed(n)}
<1>1. \A d \in 0 .. Depth : Tree[d] = TreeDef(Tree, d)
  BY TreeIs
<1>2. 0 \in 0 .. Depth
  BY DepthIsEnough
<1>3. Tree[0] = {n \in NodesOver({}) : WellFormed(n)}
  BY <1>1, <1>2 DEF TreeDef
<1>4. ASSUME NEW d \in 0 .. Depth - 1
      PROVE  Tree[d + 1] = {n \in NodesOver(Tree[d]) : WellFormed(n)}
  <2>1. d + 1 \in 0 .. Depth /\ d + 1 # 0 /\ (d + 1) - 1 = d
    BY DepthIsEnough
  <2>2. Tree[d + 1] = TreeDef(Tree, d + 1)
    BY <1>1, <2>1
  <2>3. QED
    BY <2>1, <2>2 DEF TreeDef
<1>5. QED
  BY <1>3, <1>4

(* With the sets of nodes their trees grow.                                *)
LEMMA NodesGrow ==
    ASSUME NEW S, NEW T, S \subseteq T
    PROVE  NodesOver(S) \subseteq NodesOver(T)
BY SeqMonotonic DEF NodesOver

(* A level holds those below it.                                           *)
LEMMA TreeGrows == \A d \in 0 .. Depth - 1 : Tree[d] \subseteq Tree[d + 1]
<1> DEFINE S == {d \in Nat : d + 1 <= Depth => Tree[d] \subseteq Tree[d + 1]}
<1>1. 0 \in S
  <2>1. 0 \in 0 .. Depth - 1 /\ NodesOver({}) \subseteq NodesOver(Tree[0])
    BY NodesGrow, DepthIsEnough
  <2>2. Tree[0] \subseteq Tree[0 + 1]
    BY <2>1, TreeShape
  <2>3. QED
    BY <2>2
<1>2. ASSUME NEW d \in Nat, d \in S PROVE d + 1 \in S
  <2> SUFFICES ASSUME d + 2 <= Depth PROVE Tree[d + 1] \subseteq Tree[(d + 1) + 1]
    OBVIOUS
  <2>1. NodesOver(Tree[d]) \subseteq NodesOver(Tree[d + 1])
    BY <1>2, NodesGrow, DepthIsEnough
  <2>2. d \in 0 .. Depth - 1 /\ d + 1 \in 0 .. Depth - 1
    BY DepthIsEnough
  <2>3. QED
    BY <2>1, <2>2, TreeShape
<1>3. Nat \subseteq S
  <2> HIDE DEF S
  <2>1. QED
    BY <1>1, <1>2, TreeRec!SetInduction
<1>4. QED
  BY <1>3, DepthIsEnough

(* All of them are trees.                                                  *)
LEMMA TreesGrow == \A d \in 0 .. Depth : Tree[d] \subseteq Trees
<1> DEFINE S == {k \in Nat : \A d \in 0 .. Depth : d + k <= Depth => Tree[d] \subseteq Tree[d + k]}
<1>1. 0 \in S
  <2>1. \A d \in 0 .. Depth : d + 0 = d
    BY DepthIsEnough
  <2>2. QED
    BY <2>1
<1>2. ASSUME NEW k \in Nat, k \in S PROVE k + 1 \in S
  <2> SUFFICES ASSUME NEW d \in 0 .. Depth, d + (k + 1) <= Depth
               PROVE  Tree[d] \subseteq Tree[d + (k + 1)]
    OBVIOUS
  <2>1. d + k \in 0 .. Depth - 1 /\ d + k <= Depth /\ (d + k) + 1 = d + (k + 1)
    BY DepthIsEnough
  <2>2. Tree[d] \subseteq Tree[d + k]
    BY <1>2, <2>1
  <2>3. Tree[d + k] \subseteq Tree[(d + k) + 1]
    BY <2>1, TreeGrows
  <2>4. QED
    BY <2>1, <2>2, <2>3
<1>3. Nat \subseteq S
  <2> HIDE DEF S
  <2>1. QED
    BY <1>1, <1>2, TreeRec!SetInduction
<1>4. ASSUME NEW d \in 0 .. Depth PROVE Tree[d] \subseteq Trees
  <2>1. Depth - d \in Nat /\ d + (Depth - d) = Depth
    BY DepthIsEnough
  <2>2. Tree[d] \subseteq Tree[d + (Depth - d)]
    BY <1>3, <2>1
  <2>3. QED
    BY <2>1, <2>2 DEF Trees
<1>5. QED
  BY <1>4

(* and what is in a tree is one.                                           *)
LEMMA TreesShape ==
    ASSUME NEW n \in Trees
    PROVE  /\ n \in NodesOver(Trees) /\ WellFormed(n)
           /\ n.content \in Seq(Trees)
           /\ DOMAIN n.content = 1 .. Len(n.content) /\ Len(n.content) \in Nat
           /\ \A i \in DOMAIN n.content : n.content[i] \in Trees
<1>1. Depth - 1 \in 0 .. Depth - 1 /\ Depth - 1 \in 0 .. Depth /\ (Depth - 1) + 1 = Depth
  BY DepthIsEnough
<1>2. n \in NodesOver(Tree[Depth - 1]) /\ WellFormed(n)
  BY <1>1, TreeShape DEF Trees
<1>3. n \in NodesOver(Trees)
  BY <1>1, <1>2, TreesGrow, NodesGrow
<1>4. n.content \in Seq(Trees)
  BY <1>3 DEF NodesOver
<1>5. QED
  BY <1>2, <1>3, <1>4

(* What holds at the bottom, and of a level if it does of the one below,   *)
(* holds of every tree.                                                    *)
LEMMA LevelInduction ==
    ASSUME NEW S, Tree[0] \subseteq S,
           \A d \in 0 .. Depth - 1 : Tree[d] \subseteq S => Tree[d + 1] \subseteq S
    PROVE  Trees \subseteq S
<1> DEFINE T == {d \in Nat : d <= Depth => Tree[d] \subseteq S}
<1>1. 0 \in T
  OBVIOUS
<1>2. ASSUME NEW d \in Nat, d \in T PROVE d + 1 \in T
  <2>1. d + 1 <= Depth => d \in 0 .. Depth - 1 /\ d <= Depth
    BY DepthIsEnough
  <2>2. QED
    BY <1>2, <2>1
<1>3. Nat \subseteq T
  <2> HIDE DEF T
  <2>1. QED
    BY <1>1, <1>2, TreeRec!SetInduction
<1>4. QED
  BY <1>3, DepthIsEnough DEF Trees

(* What is in the nodes of a tree.                                         *)
LEMMA Inside ==
    /\ \A n \in Tree[0] : n.content = <<>>
    /\ \A d \in 0 .. Depth - 1 : \A n \in Tree[d + 1] :
         \A i \in DOMAIN n.content : n.content[i] \in Tree[d]
<1>1. ASSUME NEW n \in Tree[0] PROVE n.content = <<>>
  <2>1. n.content \in Seq({})
    BY TreeShape DEF NodesOver
  <2>2. QED
    BY <2>1
<1>2. ASSUME NEW d \in 0 .. Depth - 1, NEW n \in Tree[d + 1], NEW i \in DOMAIN n.content
      PROVE  n.content[i] \in Tree[d]
  <2>1. n.content \in Seq(Tree[d])
    BY TreeShape DEF NodesOver
  <2>2. QED
    BY <2>1
<1>3. QED
  BY <1>1, <1>2

(* So what holds of a node if it does of all in it holds of every tree.    *)
LEMMA NodeInduction ==
    ASSUME NEW S,
           \A n \in Trees : (\A i \in DOMAIN n.content : n.content[i] \in S) => n \in S
    PROVE  Trees \subseteq S
<1>1. Tree[0] \subseteq S
  <2>1. 0 \in 0 .. Depth
    BY DepthIsEnough
  <2>2. \A n \in Tree[0] : n \in Trees /\ DOMAIN n.content = {}
    BY <2>1, Inside, TreesGrow
  <2>3. QED
    BY <2>2
<1>2. ASSUME NEW d \in 0 .. Depth - 1, Tree[d] \subseteq S PROVE Tree[d + 1] \subseteq S
  <2>1. d + 1 \in 0 .. Depth
    BY DepthIsEnough
  <2>2. QED
    BY <1>2, <2>1, Inside, TreesGrow
<1>3. QED
  BY <1>1, <1>2, LevelInduction

-----------------------------------------------------------------------------
(* The walks                                                               *)

TreeAt(d) == Tree[d]

QuoteDef(f, n) ==
    CASE n.kind \in {"document", "sequence"} ->
           [n EXCEPT !.content = [i \in DOMAIN @ |-> f[@[i]]]]
      [] n.kind = "mapping" ->
           [n EXCEPT !.content = [i \in DOMAIN @ |->
              IF i % 2 = 1 THEN @[i]
              ELSE IF IsField(n, i) /\ isNull(@[i]) THEN Str("")
              ELSE f[@[i]]]]
      [] OTHER -> n

SubtreeDef(f, n) == {n} \cup UNION {f[n.content[i]] : i \in DOMAIN n.content}

StruckDef(f, n) ==
    [n EXCEPT !.content = [i \in DOMAIN @ |->
       IF IsField(n, i) /\ (isNull(@[i]) \/ @[i] = Str("")) THEN Nil ELSE f[@[i]]]]

QuoteRec   == INSTANCE Recursion WITH N <- Depth, Level <- TreeAt, Def <- QuoteDef
SubtreeRec == INSTANCE Recursion WITH N <- Depth, Level <- TreeAt, Def <- SubtreeDef
StruckRec  == INSTANCE Recursion WITH N <- Depth, Level <- TreeAt, Def <- StruckDef

(* A walk asks only about the nodes in a node.                             *)
LEMMA WalksDescend ==
    ASSUME NEW f, NEW g, NEW n, \A i \in DOMAIN n.content : f[n.content[i]] = g[n.content[i]]
    PROVE  /\ QuoteDef(f, n) = QuoteDef(g, n)
           /\ SubtreeDef(f, n) = SubtreeDef(g, n)
           /\ StruckDef(f, n) = StruckDef(g, n)
<1>1. [i \in DOMAIN n.content |-> f[n.content[i]]] = [i \in DOMAIN n.content |-> g[n.content[i]]]
  OBVIOUS
<1>2. [i \in DOMAIN n.content |->
         IF i % 2 = 1 THEN n.content[i]
         ELSE IF IsField(n, i) /\ isNull(n.content[i]) THEN Str("") ELSE f[n.content[i]]]
      = [i \in DOMAIN n.content |->
         IF i % 2 = 1 THEN n.content[i]
         ELSE IF IsField(n, i) /\ isNull(n.content[i]) THEN Str("") ELSE g[n.content[i]]]
  OBVIOUS
<1>3. [i \in DOMAIN n.content |->
         IF IsField(n, i) /\ (isNull(n.content[i]) \/ n.content[i] = Str(""))
         THEN Nil ELSE f[n.content[i]]]
      = [i \in DOMAIN n.content |->
         IF IsField(n, i) /\ (isNull(n.content[i]) \/ n.content[i] = Str(""))
         THEN Nil ELSE g[n.content[i]]]
  OBVIOUS
<1>4. QuoteDef(f, n) = QuoteDef(g, n)
  BY <1>1, <1>2 DEF QuoteDef
<1>5. SubtreeDef(f, n) = SubtreeDef(g, n)
  BY DEF SubtreeDef
<1>6. StruckDef(f, n) = StruckDef(g, n)
  BY <1>3 DEF StruckDef
<1>7. QED
  BY <1>4, <1>5, <1>6

(* So each of them is what its definition says.                            *)
LEMMA WalksAre ==
    /\ quoteEmptyNilFields = [n \in Trees |-> QuoteDef(quoteEmptyNilFields, n)]
    /\ Subtree = [n \in Trees |-> SubtreeDef(Subtree, n)]
    /\ Struck = [n \in Trees |-> StruckDef(Struck, n)]
<1>1. QuoteRec!Grows /\ SubtreeRec!Grows /\ StruckRec!Grows
  BY TreeGrows DEF QuoteRec!Grows, SubtreeRec!Grows, StruckRec!Grows, TreeAt
<1>2. QuoteRec!Descends /\ SubtreeRec!Descends /\ StruckRec!Descends
  <2> DEFINE Same(f, g, n) == /\ QuoteDef(f, n) = QuoteDef(g, n)
                              /\ SubtreeDef(f, n) = SubtreeDef(g, n)
                              /\ StruckDef(f, n) = StruckDef(g, n)
  <2>1. ASSUME NEW f, NEW g, NEW n \in TreeAt(0) PROVE Same(f, g, n)
    <3>1. DOMAIN n.content = {}
      BY Inside DEF TreeAt
    <3>2. QED
      BY <3>1, WalksDescend
  <2>2. ASSUME NEW f, NEW g, NEW k \in 0 .. Depth - 1, \A m \in TreeAt(k) : f[m] = g[m],
               NEW n \in TreeAt(k + 1)
        PROVE  Same(f, g, n)
    <3>1. \A i \in DOMAIN n.content : f[n.content[i]] = g[n.content[i]]
      BY <2>2, Inside DEF TreeAt
    <3>2. QED
      BY <3>1, WalksDescend
  <2>3. QuoteRec!Descends
    BY <2>1, <2>2 DEF QuoteRec!Descends
  <2>4. SubtreeRec!Descends
    BY <2>1, <2>2 DEF SubtreeRec!Descends
  <2>5. StruckRec!Descends
    BY <2>1, <2>2 DEF StruckRec!Descends
  <2>6. QED
    BY <2>3, <2>4, <2>5
<1>3. /\ \E f : f = [n \in TreeAt(Depth) |-> QuoteDef(f, n)]
      /\ \E f : f = [n \in TreeAt(Depth) |-> SubtreeDef(f, n)]
      /\ \E f : f = [n \in TreeAt(Depth) |-> StruckDef(f, n)]
  BY <1>1, <1>2, DepthIsEnough, QuoteRec!Exists, SubtreeRec!Exists, StruckRec!Exists
<1>4. /\ \E f : f = [n \in Trees |-> QuoteDef(f, n)]
      /\ \E f : f = [n \in Trees |-> SubtreeDef(f, n)]
      /\ \E f : f = [n \in Trees |-> StruckDef(f, n)]
  BY <1>3 DEF TreeAt, Trees
<1>5. quoteEmptyNilFields = CHOOSE f : f = [n \in Trees |-> QuoteDef(f, n)]
  BY DEF quoteEmptyNilFields, QuoteDef
<1>6. Subtree = CHOOSE f : f = [n \in Trees |-> SubtreeDef(f, n)]
  BY DEF Subtree, SubtreeDef
<1>7. Struck = CHOOSE f : f = [n \in Trees |-> StruckDef(f, n)]
  BY DEF Struck, StruckDef
<1>8. QED
  BY <1>4, <1>5, <1>6, <1>7

(* What the first walk puts in the place of a node's i-th.                 *)
QuoteAt(n, i) ==
    IF n.kind = "mapping" /\ i % 2 = 1 THEN n.content[i]
    ELSE IF IsField(n, i) /\ isNull(n.content[i]) THEN Str("")
    ELSE quoteEmptyNilFields[n.content[i]]

StruckAt(n, i) ==
    IF IsField(n, i) /\ (isNull(n.content[i]) \/ n.content[i] = Str("")) THEN Nil
    ELSE Struck[n.content[i]]

(* Two nodes with the same parts are the same.                             *)
LEMMA NodesEqual ==
    ASSUME NEW S, NEW T, NEW n \in NodesOver(S), NEW m \in NodesOver(T),
           n.kind = m.kind, n.tag = m.tag, n.value = m.value, n.content = m.content
    PROVE  n = m
BY DEF NodesOver

(* A node is one, over the nodes in its content.                           *)
LEMMA NodeIn ==
    ASSUME NEW S, NEW kind \in Kinds, NEW tag \in Words, NEW value \in Words,
           NEW content \in Seq(S)
    PROVE  Node(kind, tag, value, content) \in NodesOver(S)
BY DEF NodesOver, Node

(* The parts of a string.                                                  *)
LEMMA StrIs ==
    \A v : /\ Str(v).kind = "scalar" /\ Str(v).tag = "!!str"
           /\ Str(v).value = v /\ Str(v).content = <<>>
BY DEF Str, Node

(* Keys and values take turns.                                             *)
LEMMA NextIsValue ==
    \A last \in Nat : \A k \in 1 .. last :
      last % 2 = 0 /\ k % 2 = 1 =>
        k + 1 \in 1 .. last /\ (k + 1) % 2 = 0 /\ (k + 1) - 1 = k
OBVIOUS

(* A node with another content.                                            *)
LEMMA WithContent ==
    ASSUME NEW S, NEW n \in NodesOver(S), NEW c
    PROVE  LET m == [n EXCEPT !.content = c]
           IN  /\ m = Node(n.kind, n.tag, n.value, c)
               /\ m.kind = n.kind /\ m.tag = n.tag /\ m.value = n.value /\ m.content = c
BY DEF NodesOver, Node

(* The first walk mends the content of a node, place by place.             *)
LEMMA QuoteIs ==
    ASSUME NEW n \in Trees
    PROVE  quoteEmptyNilFields[n] =
             [n EXCEPT !.content = [i \in DOMAIN n.content |-> QuoteAt(n, i)]]
<1>1. quoteEmptyNilFields[n] = QuoteDef(quoteEmptyNilFields, n)
  BY WalksAre
<1>2. n \in NodesOver(Trees) /\ WellFormed(n)
  BY TreesShape
<1>3. CASE n.kind \in {"document", "sequence"}
  <2>1. \A i : QuoteAt(n, i) = quoteEmptyNilFields[n.content[i]]
    BY <1>3 DEF QuoteAt, IsField
  <2>2. QED
    BY <1>1, <1>3, <2>1 DEF QuoteDef
<1>4. CASE n.kind = "mapping"
  BY <1>1, <1>4 DEF QuoteDef, QuoteAt
<1>5. CASE n.kind \in {"scalar", "alias"}
  <2>1. quoteEmptyNilFields[n] = n
    BY <1>1, <1>5 DEF QuoteDef
  <2>2. n.content = <<>> /\ [i \in DOMAIN n.content |-> QuoteAt(n, i)] = <<>>
    BY <1>2, <1>5 DEF WellFormed
  <2>3. [n EXCEPT !.content = <<>>] = n
    BY <1>2, <2>2 DEF NodesOver
  <2>4. QED
    BY <2>1, <2>2, <2>3
<1>6. QED
  BY <1>2, <1>3, <1>4, <1>5 DEF NodesOver, Kinds

(* So does the one that strikes the fields out.                            *)
LEMMA StruckIs ==
    ASSUME NEW n \in Trees
    PROVE  Struck[n] = [n EXCEPT !.content = [i \in DOMAIN n.content |-> StruckAt(n, i)]]
BY WalksAre DEF StruckDef, StruckAt

(* A node and what is in it.                                               *)
LEMMA SubtreeIs ==
    ASSUME NEW n \in Trees
    PROVE  Subtree[n] = {n} \cup UNION {Subtree[n.content[i]] : i \in DOMAIN n.content}
BY WalksAre DEF SubtreeDef

(* The parts of what they give.                                            *)
LEMMA QuoteParts ==
    ASSUME NEW n \in Trees
    PROVE  LET q == quoteEmptyNilFields[n]
           IN  /\ q.kind = n.kind /\ q.tag = n.tag /\ q.value = n.value
               /\ q = Node(n.kind, n.tag, n.value, q.content)
               /\ q.content = [i \in 1 .. Len(n.content) |-> QuoteAt(n, i)]
               /\ DOMAIN q.content = DOMAIN n.content /\ Len(q.content) = Len(n.content)
<1>1. n \in NodesOver(Trees) /\ DOMAIN n.content = 1 .. Len(n.content) /\ Len(n.content) \in Nat
  BY TreesShape
<1> DEFINE c == [i \in 1 .. Len(n.content) |-> QuoteAt(n, i)]
<1> DEFINE m == quoteEmptyNilFields[n]
<1>2. m = [n EXCEPT !.content = c]
  BY <1>1, QuoteIs
<1>3. DOMAIN c = 1 .. Len(n.content) /\ Len(c) = Len(n.content)
  BY <1>1
<1> HIDE DEF c, m
<1>4. /\ m.kind = n.kind /\ m.tag = n.tag /\ m.value = n.value /\ m.content = c
      /\ m = Node(n.kind, n.tag, n.value, c)
  BY <1>1, <1>2, WithContent
<1>5. /\ m = Node(n.kind, n.tag, n.value, m.content)
      /\ DOMAIN m.content = DOMAIN n.content /\ Len(m.content) = Len(n.content)
  BY <1>1, <1>3, <1>4
<1>6. QED
  BY <1>4, <1>5 DEF c, m

(* The parts of what the other gives.                                      *)
LEMMA StruckParts ==
    ASSUME NEW n \in Trees
    PROVE  LET s == Struck[n]
           IN  /\ s.kind = n.kind /\ s.tag = n.tag /\ s.value = n.value
               /\ s = Node(n.kind, n.tag, n.value, s.content)
               /\ s.content = [i \in 1 .. Len(n.content) |-> StruckAt(n, i)]
               /\ DOMAIN s.content = DOMAIN n.content /\ Len(s.content) = Len(n.content)
<1>1. n \in NodesOver(Trees) /\ DOMAIN n.content = 1 .. Len(n.content) /\ Len(n.content) \in Nat
  BY TreesShape
<1> DEFINE c == [i \in 1 .. Len(n.content) |-> StruckAt(n, i)]
<1> DEFINE m == Struck[n]
<1>2. m = [n EXCEPT !.content = c]
  BY <1>1, StruckIs
<1>3. DOMAIN c = 1 .. Len(n.content) /\ Len(c) = Len(n.content)
  BY <1>1
<1> HIDE DEF c, m
<1>4. /\ m.kind = n.kind /\ m.tag = n.tag /\ m.value = n.value /\ m.content = c
      /\ m = Node(n.kind, n.tag, n.value, c)
  BY <1>1, <1>2, WithContent
<1>5. /\ m = Node(n.kind, n.tag, n.value, m.content)
      /\ DOMAIN m.content = DOMAIN n.content /\ Len(m.content) = Len(n.content)
  BY <1>1, <1>3, <1>4
<1>6. QED
  BY <1>4, <1>5 DEF c, m

-----------------------------------------------------------------------------
(* The first walk                                                          *)

(* A scalar fits at any level.                                             *)
LEMMA LeafFits == \A d \in 0 .. Depth : \A v \in Words : Str(v) \in Tree[d]
<1> SUFFICES ASSUME NEW d \in 0 .. Depth, NEW v \in Words PROVE Str(v) \in Tree[d]
  OBVIOUS
<1>1. WellFormed(Str(v))
  BY DEF WellFormed, Str, Node
<1>2. ASSUME NEW S PROVE Str(v) \in NodesOver(S)
  <2>1. "scalar" \in Kinds /\ <<>> \in Seq(S)
    BY DEF Kinds
  <2>2. QED
    BY <2>1, WordsAre, NodeIn DEF Str
<1>3. CASE d = 0
  BY <1>1, <1>2, <1>3, TreeShape
<1>4. CASE d # 0
  <2>1. d - 1 \in 0 .. Depth - 1 /\ (d - 1) + 1 = d
    BY <1>4, DepthIsEnough
  <2>2. QED
    BY <1>1, <1>2, <2>1, TreeShape
<1>5. QED
  BY <1>3, <1>4

(* A string is a tree.                                                     *)
LEMMA StrIsTree == \A v \in Words : Str(v) \in Trees
<1>1. Depth \in 0 .. Depth
  BY DepthIsEnough
<1>2. QED
  BY <1>1, LeafFits DEF Trees

(* A mended node keeps its keys,                                           *)
LEMMA QuoteKeepsKeys ==
    ASSUME NEW n \in Trees, n.kind = "mapping"
    PROVE  LET q == quoteEmptyNilFields[n]
           IN  /\ \A i \in DOMAIN n.content : i % 2 = 1 => q.content[i] = n.content[i]
               /\ \A i \in DOMAIN n.content : IsField(q, i) <=> IsField(n, i)
               /\ \A key : KeysAt(q, key) = KeysAt(n, key)
<1> DEFINE q == quoteEmptyNilFields[n]
<1>1. \A i \in DOMAIN n.content : i % 2 = 1 => q.content[i] = n.content[i]
  BY TreesShape, QuoteParts DEF QuoteAt
<1>2. q.kind = "mapping" /\ DOMAIN q.content = DOMAIN n.content
  BY QuoteParts
<1>3. ASSUME NEW i \in DOMAIN n.content PROVE IsField(q, i) <=> IsField(n, i)
  <2>1. i % 2 = 0 => i - 1 \in DOMAIN n.content /\ (i - 1) % 2 = 1
    <3>1. DOMAIN n.content = 1 .. Len(n.content) /\ Len(n.content) \in Nat
      BY TreesShape
    <3>2. QED
      BY <3>1
  <2>2. QED
    BY <1>1, <1>2, <2>1 DEF IsField
<1> HIDE DEF q
<1>4. \A key : KeysAt(q, key) = KeysAt(n, key)
  BY <1>1, <1>2 DEF KeysAt
<1>5. QED
  BY <1>1, <1>3, <1>4 DEF q

(* and is as well formed as it was.                                        *)
LEMMA QuoteIsWellFormed ==
    ASSUME NEW n \in Trees
    PROVE  WellFormed(quoteEmptyNilFields[n])
<1> DEFINE q == quoteEmptyNilFields[n]
<1>1. WellFormed(n) /\ DOMAIN n.content = 1 .. Len(n.content) /\ Len(n.content) \in Nat
  BY TreesShape
<1>2. /\ q.kind = n.kind /\ q.tag = n.tag
      /\ DOMAIN q.content = DOMAIN n.content /\ Len(q.content) = Len(n.content)
      /\ q.content = [i \in 1 .. Len(n.content) |-> QuoteAt(n, i)]
  BY QuoteParts
<1>3. n.kind \in {"scalar", "alias"} => q.content = <<>>
  <2>1. n.kind \in {"scalar", "alias"} => Len(n.content) = 0
    BY <1>1 DEF WellFormed
  <2>2. QED
    BY <1>2, <2>1
<1>4. n.kind = "mapping" =>
        \A i \in DOMAIN n.content : i % 2 = 1 => q.content[i] = n.content[i]
  BY QuoteKeepsKeys
<1> HIDE DEF q
<1>5. ASSUME n.kind = "mapping" PROVE Paired(q.content)
  <2>1. Paired(n.content)
    BY <1>1, <1>5 DEF WellFormed
  <2>2. /\ DOMAIN q.content = DOMAIN n.content /\ Len(q.content) = Len(n.content)
        /\ \A i \in DOMAIN n.content : i % 2 = 1 => q.content[i] = n.content[i]
    BY <1>2, <1>4, <1>5
  <2> HIDE DEF q
  <2>3. QED
    BY <2>1, <2>2 DEF Paired
<1>6. WellFormed(q)
  BY <1>1, <1>2, <1>3, <1>5 DEF WellFormed
<1>7. QED
  BY <1>6 DEF q

(* Nothing gets deeper.                                                    *)
LEMMA QuoteStays == \A d \in 0 .. Depth : \A n \in Tree[d] : quoteEmptyNilFields[n] \in Tree[d]
<1> DEFINE Stays(d) == \A n \in Tree[d] : quoteEmptyNilFields[n] \in Tree[d]
           S == {d \in Nat : d <= Depth => Stays(d)}
<1>1. ASSUME NEW S1, NEW n \in Trees, n \in NodesOver(S1),
             \A i \in DOMAIN n.content : QuoteAt(n, i) \in S1
      PROVE  quoteEmptyNilFields[n] \in {m \in NodesOver(S1) : WellFormed(m)}
  <2> DEFINE q == quoteEmptyNilFields[n]
  <2>1. /\ q = Node(n.kind, n.tag, n.value, q.content)
        /\ q.content = [i \in 1 .. Len(n.content) |-> QuoteAt(n, i)]
    BY QuoteParts
  <2>2. DOMAIN n.content = 1 .. Len(n.content) /\ Len(n.content) \in Nat
    BY TreesShape
  <2>3. q.content \in Seq(S1)
    BY <1>1, <2>1, <2>2
  <2>4. q \in NodesOver(S1)
    BY <1>1, <2>1, <2>3 DEF NodesOver, Node
  <2>5. QED
    BY <2>4, QuoteIsWellFormed
<1>2. 0 \in S
  <2> SUFFICES ASSUME NEW n \in Tree[0] PROVE quoteEmptyNilFields[n] \in Tree[0]
    OBVIOUS
  <2>1. n \in Trees /\ n \in NodesOver({}) /\ DOMAIN n.content = {}
    BY TreeShape, TreesGrow, Inside, DepthIsEnough
  <2>2. QED
    BY <1>1, <2>1, TreeShape
<1>3. ASSUME NEW d \in Nat, d \in S PROVE d + 1 \in S
  <2> SUFFICES ASSUME d + 1 <= Depth, NEW n \in Tree[d + 1]
               PROVE  quoteEmptyNilFields[n] \in Tree[d + 1]
    OBVIOUS
  <2>1. d \in 0 .. Depth - 1 /\ d \in 0 .. Depth /\ d + 1 \in 0 .. Depth
    BY DepthIsEnough
  <2>2. n \in Trees /\ n \in NodesOver(Tree[d])
    BY <2>1, TreeShape, TreesGrow
  <2>3. ASSUME NEW i \in DOMAIN n.content PROVE QuoteAt(n, i) \in Tree[d]
    <3>1. n.content[i] \in Tree[d] /\ quoteEmptyNilFields[n.content[i]] \in Tree[d]
      BY <1>3, <2>1, Inside
    <3>2. Str("") \in Tree[d]
      BY <2>1, LeafFits, WordsAre
    <3>3. QED
      BY <3>1, <3>2 DEF QuoteAt
  <2>4. QED
    BY <1>1, <2>1, <2>2, <2>3, TreeShape
<1>4. Nat \subseteq S
  <2> HIDE DEF S
  <2>1. QED
    BY <1>2, <1>3, TreeRec!SetInduction
<1>5. QED
  BY <1>4, DepthIsEnough

(* So a mended tree is one.                                                *)
LEMMA QuoteIsTree == \A n \in Trees : quoteEmptyNilFields[n] \in Trees
<1>1. Depth \in 0 .. Depth
  BY DepthIsEnough
<1>2. QED
  BY <1>1, QuoteStays DEF Trees

(* The walk changes nothing but the fields that are struck.                *)
LEMMA QuoteIsStruck == \A n \in Trees : Struck[quoteEmptyNilFields[n]] = Struck[n]
<1> DEFINE S == {n \in Trees : Struck[quoteEmptyNilFields[n]] = Struck[n]}
<1>1. ASSUME NEW n \in Trees, \A i \in DOMAIN n.content : n.content[i] \in S
      PROVE  Struck[quoteEmptyNilFields[n]] = Struck[n]
  <2> DEFINE q == quoteEmptyNilFields[n]
  <2>1. /\ q \in Trees
        /\ q.kind = n.kind /\ q.tag = n.tag /\ q.value = n.value
        /\ q.content = [i \in 1 .. Len(n.content) |-> QuoteAt(n, i)]
        /\ Len(q.content) = Len(n.content)
    BY QuoteParts, QuoteIsTree
  <2>2. DOMAIN n.content = 1 .. Len(n.content)
    BY TreesShape
  <2>3. ASSUME NEW i \in 1 .. Len(n.content) PROVE StruckAt(q, i) = StruckAt(n, i)
    <3> DEFINE c == n.content[i]
    <3>1. c \in Trees /\ Struck[quoteEmptyNilFields[c]] = Struck[c]
      BY <1>1, <2>2
    <3>2. q.content[i] = QuoteAt(n, i)
      BY <2>1
    <3>3. IsField(q, i) <=> IsField(n, i)
      <4>1. CASE n.kind = "mapping"
        BY <2>2, <4>1, QuoteKeepsKeys
      <4>2. CASE n.kind # "mapping"
        BY <2>1, <4>2 DEF IsField
      <4>3. QED
        BY <4>1, <4>2
    <3>4. CASE n.kind = "mapping" /\ i % 2 = 1
      <4>1. ~IsField(n, i) /\ q.content[i] = c
        BY <3>2, <3>4 DEF IsField, QuoteAt
      <4>2. QED
        BY <3>3, <4>1 DEF StruckAt
    <3>5. CASE IsField(n, i) /\ isNull(c) /\ ~(n.kind = "mapping" /\ i % 2 = 1)
      <4>1. q.content[i] = Str("")
        BY <3>2, <3>5 DEF QuoteAt
      <4>2. QED
        BY <3>3, <3>5, <4>1 DEF StruckAt
    <3>6. CASE ~(IsField(n, i) /\ isNull(c)) /\ ~(n.kind = "mapping" /\ i % 2 = 1)
      <4>1. q.content[i] = quoteEmptyNilFields[c]
        BY <3>2, <3>6 DEF QuoteAt
      <4> DEFINE d == quoteEmptyNilFields[c]
      <4>2. d.kind = c.kind /\ d.tag = c.tag /\ d.value = c.value
        BY <3>1, QuoteParts
      <4>3. isNull(d) <=> isNull(c)
        BY <4>2 DEF isNull
      <4>4. d = Str("") <=> c = Str("")
        <5>1. c.kind = "scalar" => d = c
          <6>1. c.kind = "scalar" => QuoteDef(quoteEmptyNilFields, c) = c
            BY DEF QuoteDef
          <6>2. QED
            BY <3>1, <6>1, WalksAre
        <5>2. Str("").kind = "scalar"
          BY DEF Str, Node
        <5> HIDE DEF c, d
        <5>3. QED
          BY <4>2, <5>1, <5>2
      <4>5. Struck[d] = Struck[c]
        BY <3>1
      <4> HIDE DEF d
      <4>6. QED
        BY <3>3, <4>1, <4>3, <4>4, <4>5 DEF StruckAt, d
    <3>7. QED
      BY <3>4, <3>5, <3>6
  <2>4. Struck[q].content = Struck[n].content
    <3>1. Struck[q].content = [i \in 1 .. Len(q.content) |-> StruckAt(q, i)]
      BY <2>1, StruckParts
    <3>2. Struck[n].content = [i \in 1 .. Len(n.content) |-> StruckAt(n, i)]
      BY StruckParts
    <3> HIDE DEF q
    <3>3. QED
      BY <2>1, <2>3, <3>1, <3>2
  <2>5. /\ Struck[q] = Node(q.kind, q.tag, q.value, Struck[q].content)
        /\ Struck[n] = Node(n.kind, n.tag, n.value, Struck[n].content)
    BY <2>1, StruckParts
  <2>6. QED
    BY <2>1, <2>4, <2>5
<1>2. Trees \subseteq S
  <2>1. \A n \in Trees : (\A i \in DOMAIN n.content : n.content[i] \in S) => n \in S
    BY <1>1
  <2> HIDE DEF S
  <2>2. QED
    BY <2>1, NodeInduction
<1>3. QED
  BY <1>2

-----------------------------------------------------------------------------
(* No nil field is left                                                    *)

Clean(n) ==
    \A key \in emptyNilFields : \A k \in KeysAt(n, key) : n.content[k + 1].tag # "!!null"

(* The values of the fields are at the places of fields.                   *)
LEMMA FieldAt ==
    ASSUME NEW n \in Trees, NEW key, NEW k \in KeysAt(n, key)
    PROVE  /\ k \in DOMAIN n.content /\ k + 1 \in DOMAIN n.content
           /\ n.kind = "mapping" /\ k % 2 = 1 /\ (k + 1) % 2 = 0
           /\ n.content[k].value = key /\ n.content[k].kind = "scalar"
           /\ key \in emptyNilFields => IsField(n, k + 1)
<1>1. /\ k \in DOMAIN n.content /\ n.kind = "mapping" /\ k % 2 = 1
      /\ n.content[k].value = key
  BY DEF KeysAt
<1>2. DOMAIN n.content = 1 .. Len(n.content) /\ Len(n.content) \in Nat /\ WellFormed(n)
  BY TreesShape
<1>3. Len(n.content) % 2 = 0 /\ n.content[k].kind = "scalar"
  BY <1>1, <1>2 DEF WellFormed, Paired
<1>4. k + 1 \in DOMAIN n.content /\ (k + 1) % 2 = 0 /\ (k + 1) - 1 = k
  BY <1>1, <1>2, <1>3, NextIsValue
<1>5. QED
  BY <1>1, <1>3, <1>4 DEF IsField

(* A mended mapping has none among its own pairs,                          *)
LEMMA QuoteCleans == \A n \in Trees : Clean(quoteEmptyNilFields[n])
<1> SUFFICES ASSUME NEW n \in Trees, NEW key \in emptyNilFields,
                    NEW k \in KeysAt(quoteEmptyNilFields[n], key)
             PROVE  quoteEmptyNilFields[n].content[k + 1].tag # "!!null"
  BY DEF Clean
<1> DEFINE c == n.content[k + 1]
<1>1. n.kind = "mapping"
  BY QuoteParts DEF KeysAt
<1>2. k \in KeysAt(n, key)
  BY <1>1, QuoteKeepsKeys
<1>3. k + 1 \in DOMAIN n.content /\ (k + 1) % 2 = 0 /\ IsField(n, k + 1)
  BY <1>2, FieldAt
<1>4. quoteEmptyNilFields[n].content[k + 1] =
        IF isNull(c) THEN Str("") ELSE quoteEmptyNilFields[c]
  <2>1. ~(n.kind = "mapping" /\ (k + 1) % 2 = 1)
    BY <1>3
  <2>2. quoteEmptyNilFields[n].content[k + 1] = QuoteAt(n, k + 1)
    BY <1>3, QuoteParts, TreesShape
  <2>3. QED
    BY <1>3, <2>1, <2>2 DEF QuoteAt
<1>5. CASE isNull(c)
  <2>1. "!!str" # "!!null"
    OBVIOUS
  <2>2. QED
    BY <1>4, <1>5, <2>1, StrIs
<1>6. CASE ~isNull(c)
  <2>1. c \in Trees /\ WellFormed(c)
    BY <1>3, TreesShape
  <2>2. c.tag # "!!null"
    BY <1>6, <2>1 DEF isNull, WellFormed
  <2>3. quoteEmptyNilFields[c].tag = c.tag
    BY <2>1, QuoteParts
  <2>4. QED
    BY <1>4, <1>6, <2>2, <2>3
<1>7. QED
  BY <1>5, <1>6

(* a scalar has no pairs,                                                  *)
LEMMA ScalarIsClean ==
    ASSUME NEW n \in Trees, n.kind = "scalar"
    PROVE  \A m \in Subtree[n] : Clean(m)
<1>1. n.content = <<>>
  BY TreesShape DEF WellFormed
<1>2. Subtree[n] = {n}
  BY <1>1, SubtreeIs
<1>3. QED
  BY <1>2 DEF Clean, KeysAt

(* and so there are none at any depth.                                     *)
LEMMA QuoteCleansAll == \A n \in Trees : \A m \in Subtree[quoteEmptyNilFields[n]] : Clean(m)
<1> DEFINE S == {n \in Trees : \A m \in Subtree[quoteEmptyNilFields[n]] : Clean(m)}
<1>1. ASSUME NEW n \in Trees, \A i \in DOMAIN n.content : n.content[i] \in S,
             NEW m \in Subtree[quoteEmptyNilFields[n]]
      PROVE  Clean(m)
  <2> DEFINE q == quoteEmptyNilFields[n]
  <2>1. q \in Trees /\ DOMAIN q.content = DOMAIN n.content
        /\ q.content = [i \in 1 .. Len(n.content) |-> QuoteAt(n, i)]
        /\ DOMAIN n.content = 1 .. Len(n.content)
    BY QuoteParts, QuoteIsTree, TreesShape
  <2>2. m = q \/ \E i \in DOMAIN q.content : m \in Subtree[q.content[i]]
    BY <2>1, SubtreeIs
  <2>3. CASE m = q
    BY <2>3, QuoteCleans
  <2>4. ASSUME NEW i \in DOMAIN n.content, m \in Subtree[QuoteAt(n, i)] PROVE Clean(m)
    <3>1. CASE n.kind = "mapping" /\ i % 2 = 1
      <4>1. QuoteAt(n, i) = n.content[i]
        BY <3>1 DEF QuoteAt
      <4>2. n.content[i] \in Trees /\ n.content[i].kind = "scalar"
        BY <3>1, TreesShape DEF WellFormed, Paired
      <4>3. QED
        BY <2>4, <4>1, <4>2, ScalarIsClean
    <3>2. CASE QuoteAt(n, i) = Str("")
      <4>1. Str("") \in Trees /\ Str("").kind = "scalar"
        BY StrIsTree, WordsAre, StrIs
      <4>2. QED
        BY <2>4, <3>2, <4>1, ScalarIsClean
    <3>3. CASE QuoteAt(n, i) = quoteEmptyNilFields[n.content[i]]
      BY <1>1, <2>4, <3>3
    <3>4. QED
      BY <3>1, <3>2, <3>3 DEF QuoteAt
  <2> HIDE DEF q
  <2>5. QED
    BY <2>1, <2>2, <2>3, <2>4
<1>2. Trees \subseteq S
  <2>1. \A n \in Trees : (\A i \in DOMAIN n.content : n.content[i] \in S) => n \in S
    BY <1>1
  <2> HIDE DEF S
  <2>2. QED
    BY <2>1, NodeInduction
<1>3. QED
  BY <1>2

-----------------------------------------------------------------------------
(* The keys of a mapping                                                   *)

(* The least of one.                                                       *)
LEMMA MinOfOne == \A k \in Nat : Min({k}) = k
BY DEF Min

(* A key is there once at most.                                            *)
LEMMA KeyIsOne ==
    ASSUME NEW n \in Trees, NEW key, KeysAt(n, key) # {}
    PROVE  \E k \in DOMAIN n.content :
             /\ KeysAt(n, key) = {k} /\ Min(KeysAt(n, key)) = k /\ k \in Nat
             /\ mapValue(n, key) = n.content[k + 1]
             /\ k % 2 = 1 /\ k + 1 \in DOMAIN n.content /\ n.kind = "mapping"
<1>1. PICK k : k \in KeysAt(n, key)
  OBVIOUS
<1>2. /\ k \in DOMAIN n.content /\ k + 1 \in DOMAIN n.content /\ k % 2 = 1
      /\ n.kind = "mapping" /\ n.content[k].value = key
  BY <1>1, FieldAt
<1>3. Paired(n.content) /\ DOMAIN n.content \subseteq Nat
  BY <1>2, TreesShape DEF WellFormed
<1>4. KeysAt(n, key) = {k}
  BY <1>1, <1>2, <1>3 DEF KeysAt, Paired
<1>5. Min(KeysAt(n, key)) = k
  BY <1>2, <1>3, <1>4, MinOfOne
<1>6. mapValue(n, key) = n.content[k + 1]
  BY <1>4, <1>5 DEF mapValue
<1>7. QED
  BY <1>2, <1>3, <1>4, <1>5, <1>6

(* No node of a tree is nil: a mapping has no value for the keys it has    *)
(* not, and for those only.                                                *)
LEMMA NilIsNone ==
    ASSUME NEW n \in Trees, NEW key
    PROVE  /\ mapValue(n, key) = Nil <=> KeysAt(n, key) = {}
           /\ KeysAt(n, key) # {} => mapValue(n, key) \in Trees
<1>1. CASE KeysAt(n, key) = {}
  BY <1>1 DEF mapValue
<1>2. CASE KeysAt(n, key) # {}
  <2>1. mapValue(n, key) \in Trees
    BY <1>2, KeyIsOne, TreesShape
  <2>2. mapValue(n, key).kind \in Kinds
    BY <2>1, TreesShape DEF NodesOver
  <2>3. Nil.kind \notin Kinds
    BY DEF Nil, Node, Kinds
  <2>4. QED
    BY <1>2, <2>1, <2>2, <2>3
<1>3. QED
  BY <1>1, <1>2

(* What a walk must keep for the zot StatefulSet to be found after it.     *)
KeepsKeys(W) ==
    \A n \in Trees :
      /\ W[n].kind = n.kind /\ W[n].value = n.value
      /\ \A key : KeysAt(W[n], key) = KeysAt(n, key)
      /\ \A key : key \notin emptyNilFields =>
           \A k \in KeysAt(n, key) : W[n].content[k + 1] = W[n.content[k + 1]]

(* The first walk does,                                                    *)
LEMMA QuoteKeeps == KeepsKeys(quoteEmptyNilFields)
<1> SUFFICES ASSUME NEW n \in Trees
             PROVE  LET q == quoteEmptyNilFields[n]
                    IN  /\ q.kind = n.kind /\ q.value = n.value
                        /\ \A key : KeysAt(q, key) = KeysAt(n, key)
                        /\ \A key : key \notin emptyNilFields =>
                             \A k \in KeysAt(n, key) :
                               q.content[k + 1] = quoteEmptyNilFields[n.content[k + 1]]
  BY DEF KeepsKeys
<1> DEFINE q == quoteEmptyNilFields[n]
<1>1. q.kind = n.kind /\ q.value = n.value
  BY QuoteParts
<1>2. ASSUME NEW key PROVE KeysAt(q, key) = KeysAt(n, key)
  <2>1. CASE n.kind = "mapping"
    BY <2>1, QuoteKeepsKeys
  <2>2. CASE n.kind # "mapping"
    BY <1>1, <2>2 DEF KeysAt
  <2>3. QED
    BY <2>1, <2>2
<1>3. ASSUME NEW key, key \notin emptyNilFields, NEW k \in KeysAt(n, key)
      PROVE  q.content[k + 1] = quoteEmptyNilFields[n.content[k + 1]]
  <2>1. /\ k + 1 \in DOMAIN n.content /\ (k + 1) % 2 = 0
        /\ n.content[k].value = key /\ (k + 1) - 1 = k
    BY <1>3, FieldAt, TreesShape
  <2>2. ~IsField(n, k + 1)
    BY <1>3, <2>1 DEF IsField
  <2>3. q.content[k + 1] = QuoteAt(n, k + 1)
    BY <2>1, QuoteParts, TreesShape
  <2>4. QED
    BY <2>1, <2>2, <2>3 DEF QuoteAt
<1>4. QED
  BY <1>1, <1>2, <1>3

(* and so does the one that strikes the fields out.                        *)
LEMMA StruckKeeps == KeepsKeys(Struck)
<1> SUFFICES ASSUME NEW n \in Trees
             PROVE  LET s == Struck[n]
                    IN  /\ s.kind = n.kind /\ s.value = n.value
                        /\ \A key : KeysAt(s, key) = KeysAt(n, key)
                        /\ \A key : key \notin emptyNilFields =>
                             \A k \in KeysAt(n, key) :
                               s.content[k + 1] = Struck[n.content[k + 1]]
  BY DEF KeepsKeys
<1> DEFINE s == Struck[n]
<1>1. s.kind = n.kind /\ s.value = n.value /\ DOMAIN s.content = DOMAIN n.content
  BY StruckParts
<1>2. ASSUME NEW i \in DOMAIN n.content PROVE s.content[i] = StruckAt(n, i)
  BY StruckParts, TreesShape
<1>3. ASSUME NEW i \in DOMAIN n.content, i % 2 = 1
      PROVE  s.content[i].value = n.content[i].value
  <2>1. ~IsField(n, i) /\ n.content[i] \in Trees
    BY <1>3, TreesShape DEF IsField
  <2>2. s.content[i] = Struck[n.content[i]]
    BY <1>2, <2>1 DEF StruckAt
  <2>3. QED
    BY <2>1, <2>2, StruckParts
<1>4. ASSUME NEW key, key \notin emptyNilFields, NEW k \in KeysAt(n, key)
      PROVE  s.content[k + 1] = Struck[n.content[k + 1]]
  <2>1. /\ k + 1 \in DOMAIN n.content
        /\ n.content[k].value = key /\ (k + 1) - 1 = k
    BY <1>4, FieldAt, TreesShape
  <2>2. ~IsField(n, k + 1)
    BY <1>4, <2>1 DEF IsField
  <2>3. QED
    BY <1>2, <2>1, <2>2 DEF StruckAt
<1> HIDE DEF s
<1>5. ASSUME NEW key PROVE KeysAt(s, key) = KeysAt(n, key)
  BY <1>1, <1>3 DEF KeysAt
<1>6. QED
  BY <1>1, <1>4, <1>5 DEF s

(* What a key other than those has for a value after such a walk.          *)
LEMMA ValueKept ==
    ASSUME NEW W, KeepsKeys(W), NEW n \in Trees, NEW key, key \notin emptyNilFields
    PROVE  /\ mapValue(n, key) = Nil <=> mapValue(W[n], key) = Nil
           /\ mapValue(n, key) # Nil =>
                mapValue(n, key) \in Trees /\ mapValue(W[n], key) = W[mapValue(n, key)]
           /\ mapValue(W[n], key).kind = mapValue(n, key).kind
           /\ mapValue(W[n], key).value = mapValue(n, key).value
<1> DEFINE v == mapValue(n, key)
           w == mapValue(W[n], key)
<1>1. KeysAt(W[n], key) = KeysAt(n, key)
  BY DEF KeepsKeys
<1>2. v = Nil <=> KeysAt(n, key) = {}
  BY NilIsNone
<1>3. CASE KeysAt(n, key) = {}
  <2>1. v = Nil /\ w = Nil
    BY <1>1, <1>3 DEF mapValue
  <2> HIDE DEF v, w
  <2>2. QED
    BY <2>1 DEF v, w
<1>4. CASE KeysAt(n, key) # {}
  <2>1. PICK k \in DOMAIN n.content :
          KeysAt(n, key) = {k} /\ Min(KeysAt(n, key)) = k /\ v = n.content[k + 1]
    BY <1>4, KeyIsOne
  <2>2. v \in Trees
    BY <1>4, NilIsNone
  <2>3. w = W[n].content[k + 1]
    BY <1>1, <1>4, <2>1 DEF mapValue
  <2>4. W[n].content[k + 1] = W[n.content[k + 1]]
    BY <2>1 DEF KeepsKeys
  <2>5. w = W[v]
    BY <2>1, <2>3, <2>4
  <2>6. W[v].kind = v.kind /\ W[v].value = v.value
    BY <2>2 DEF KeepsKeys
  <2>7. v.kind \in Kinds
    BY <2>2, TreesShape DEF NodesOver
  <2>8. Nil.kind \notin Kinds
    BY DEF Nil, Node, Kinds
  <2> HIDE DEF v, w
  <2>9. w # Nil /\ v # Nil
    BY <2>5, <2>6, <2>7, <2>8
  <2>10. QED
    BY <2>2, <2>5, <2>6, <2>9 DEF v, w
<1>5. QED
  BY <1>3, <1>4

(* So the walk finds the zot StatefulSet where it was.                     *)
LEMMA ZotKept ==
    ASSUME NEW W, KeepsKeys(W), NEW n \in Trees
    PROVE  /\ IsZot(W[n]) <=> IsZot(n)
           /\ LacksServiceName(W[n]) <=> LacksServiceName(n)
<1>1. /\ "kind" \notin emptyNilFields /\ "metadata" \notin emptyNilFields
      /\ "name" \notin emptyNilFields /\ "spec" \notin emptyNilFields
      /\ "serviceName" \notin emptyNilFields
  BY DEF emptyNilFields
<1>2. mapValue(W[n], "kind").value = mapValue(n, "kind").value
  BY <1>1, ValueKept
<1>3. mapValue(mapValue(W[n], "metadata"), "name").value
        = mapValue(mapValue(n, "metadata"), "name").value
  <2>1. CASE mapValue(n, "metadata") = Nil
    BY <1>1, <2>1, ValueKept
  <2>2. CASE mapValue(n, "metadata") # Nil
    <3>1. mapValue(n, "metadata") \in Trees
          /\ mapValue(W[n], "metadata") = W[mapValue(n, "metadata")]
      BY <1>1, <2>2, ValueKept
    <3>2. QED
      BY <1>1, <3>1, ValueKept
  <2>3. QED
    BY <2>1, <2>2
<1>4. mapValue(W[n], "spec").kind = mapValue(n, "spec").kind
  BY <1>1, ValueKept
<1>5. IsZot(W[n]) <=> IsZot(n)
  BY <1>2, <1>3, <1>4 DEF IsZot
<1>6. mapValue(mapValue(W[n], "spec"), "serviceName") = Nil
        <=> mapValue(mapValue(n, "spec"), "serviceName") = Nil
  <2>1. CASE mapValue(n, "spec") = Nil
    BY <1>1, <2>1, ValueKept
  <2>2. CASE mapValue(n, "spec") # Nil
    <3>1. mapValue(n, "spec") \in Trees
          /\ mapValue(W[n], "spec") = W[mapValue(n, "spec")]
      BY <1>1, <2>2, ValueKept
    <3>2. QED
      BY <1>1, <3>1, ValueKept
  <2>3. QED
    BY <2>1, <2>2
<1>7. QED
  BY <1>5, <1>6 DEF LacksServiceName

-----------------------------------------------------------------------------
(* The pair put into the spec                                              *)

(* What merged gives: the two new nodes at a, the others around them.      *)
LEMMA MergedIs ==
    ASSUME NEW S, NEW c \in Seq(S), NEW a \in 1 .. Len(c) + 1,
           Str("serviceName") \in S, Str("zot") \in S
    PROVE  LET m == merged(c, a)
           IN  /\ m \in Seq(S) /\ Len(m) = Len(c) + 2 /\ Len(c) \in Nat
               /\ DOMAIN m = 1 .. Len(c) + 2
               /\ \A j \in 1 .. a - 1 : m[j] = c[j]
               /\ m[a] = Str("serviceName") /\ m[a + 1] = Str("zot")
               /\ \A j \in a + 2 .. Len(c) + 2 : m[j] = c[j - 2]
<1> DEFINE l == SubSeq(c, 1, a - 1)
           p == <<Str("serviceName"), Str("zot")>>
           r == SubSeq(c, a, Len(c))
           m == merged(c, a)
<1>1. Len(c) \in Nat /\ a \in Nat /\ a >= 1 /\ a <= Len(c) + 1
  OBVIOUS
<1>2. l \in Seq(S) /\ Len(l) = a - 1 /\ \A j \in 1 .. a - 1 : l[j] = c[j]
  <2>1. \A i \in 1 .. a - 1 : c[i] \in S
    OBVIOUS
  <2>2. QED
    BY <1>1, <2>1, SubSeqProperties
<1>3. p \in Seq(S) /\ Len(p) = 2 /\ p[1] = Str("serviceName") /\ p[2] = Str("zot")
  <2> DEFINE x == Str("serviceName")
             y == Str("zot")
  <2>1. x \in S /\ y \in S
    OBVIOUS
  <2> HIDE DEF x, y
  <2>2. <<x, y>> \in Seq(S) /\ Len(<<x, y>>) = 2 /\ <<x, y>>[1] = x /\ <<x, y>>[2] = y
    BY <2>1
  <2>3. QED
    BY <2>2 DEF x, y
<1>4. r \in Seq(S) /\ Len(r) = Len(c) - a + 1 /\ \A j \in 1 .. Len(c) - a + 1 : r[j] = c[a + j - 1]
  <2>1. \A i \in a .. Len(c) : c[i] \in S
    BY <1>1
  <2>2. QED
    BY <1>1, <2>1, SubSeqProperties
<1>5. m = (l \o p) \o r
  BY DEF merged
<1> HIDE DEF l, p, r, m
<1>6. /\ l \o p \in Seq(S) /\ Len(l \o p) = a + 1
      /\ \A j \in 1 .. a + 1 : (l \o p)[j] = IF j <= a - 1 THEN l[j] ELSE p[j - (a - 1)]
  <2>1. /\ l \o p \in Seq(S)
        /\ Len(l \o p) = Len(l) + Len(p)
        /\ \A j \in 1 .. Len(l) + Len(p) :
             (l \o p)[j] = IF j <= Len(l) THEN l[j] ELSE p[j - Len(l)]
    BY <1>2, <1>3, ConcatProperties
  <2>2. Len(l) = a - 1 /\ Len(l) + Len(p) = a + 1
    BY <1>1, <1>2, <1>3
  <2>3. QED
    BY <2>1, <2>2
<1>7. /\ m \in Seq(S) /\ Len(m) = Len(c) + 2
      /\ \A j \in 1 .. Len(c) + 2 : m[j] = IF j <= a + 1 THEN (l \o p)[j] ELSE r[j - (a + 1)]
  <2> DEFINE lp == l \o p
  <2>1. lp \in Seq(S) /\ Len(lp) = a + 1 /\ m = lp \o r
    BY <1>5, <1>6
  <2> HIDE DEF lp
  <2>2. /\ lp \o r \in Seq(S)
        /\ Len(lp \o r) = Len(lp) + Len(r)
        /\ \A j \in 1 .. Len(lp) + Len(r) :
             (lp \o r)[j] = IF j <= Len(lp) THEN lp[j] ELSE r[j - Len(lp)]
    BY <1>4, <2>1, ConcatProperties
  <2>3. Len(lp) = a + 1 /\ Len(lp) + Len(r) = Len(c) + 2
    BY <1>1, <1>4, <2>1
  <2>4. QED
    BY <2>1, <2>2, <2>3 DEF lp
<1>8. ASSUME NEW j \in 1 .. a - 1 PROVE m[j] = c[j]
  <2>1. j \in 1 .. Len(c) + 2 /\ j \in 1 .. a + 1 /\ j <= a + 1 /\ j <= a - 1
    BY <1>1
  <2>2. m[j] = (l \o p)[j]
    BY <1>7, <2>1
  <2>3. (l \o p)[j] = l[j]
    BY <1>6, <2>1
  <2>4. QED
    BY <1>2, <2>2, <2>3
<1>9. m[a] = Str("serviceName")
  <2>1. /\ a \in 1 .. Len(c) + 2 /\ a \in 1 .. a + 1 /\ a <= a + 1
        /\ ~(a <= a - 1) /\ a - (a - 1) = 1
    BY <1>1
  <2>2. m[a] = (l \o p)[a]
    BY <1>7, <2>1
  <2>3. (l \o p)[a] = p[1]
    BY <1>6, <2>1
  <2>4. QED
    BY <1>3, <2>2, <2>3
<1>10. m[a + 1] = Str("zot")
  <2>1. /\ a + 1 \in 1 .. Len(c) + 2 /\ a + 1 \in 1 .. a + 1 /\ a + 1 <= a + 1
        /\ ~(a + 1 <= a - 1) /\ (a + 1) - (a - 1) = 2
    BY <1>1
  <2>2. m[a + 1] = (l \o p)[a + 1]
    BY <1>7, <2>1
  <2>3. (l \o p)[a + 1] = p[2]
    BY <1>6, <2>1
  <2>4. QED
    BY <1>3, <2>2, <2>3
<1>11. ASSUME NEW j \in a + 2 .. Len(c) + 2 PROVE m[j] = c[j - 2]
  <2>1. m[j] = r[j - (a + 1)] /\ j - (a + 1) \in 1 .. Len(c) - a + 1
    BY <1>1, <1>7
  <2>2. a + (j - (a + 1)) - 1 = j - 2
    BY <1>1
  <2>3. QED
    BY <1>4, <2>1, <2>2
<1>12. DOMAIN m = 1 .. Len(c) + 2
  BY <1>7
<1>13. QED
  BY <1>1, <1>7, <1>8, <1>9, <1>10, <1>11, <1>12 DEF m

(* The places of what merged gives, and where they come from.              *)
LEMMA Places ==
    \A len \in Nat : \A a \in 1 .. len + 1 : \A j \in 1 .. len + 2 :
      \/ j \in 1 .. a - 1 /\ j \in 1 .. len /\ j < a
      \/ j = a
      \/ j = a + 1
      \/ /\ j \in a + 2 .. len + 2 /\ j - 2 \in 1 .. len /\ (j - 2) % 2 = j % 2
         /\ j - 2 >= a
OBVIOUS

(* Before the replicas, or at the end: where a key may stand.              *)
LEMMA InsertAtIs ==
    ASSUME NEW n \in Trees, n.kind = "mapping"
    PROVE  /\ insertAt(n) \in 1 .. Len(n.content) + 1 /\ insertAt(n) % 2 = 1
           /\ Len(n.content) \in Nat /\ Len(n.content) % 2 = 0
           /\ \A k \in KeysAt(n, "replicas") : k = insertAt(n)
<1>1. Len(n.content) \in Nat /\ Len(n.content) % 2 = 0 /\ DOMAIN n.content = 1 .. Len(n.content)
  BY TreesShape DEF WellFormed, Paired
<1>2. CASE KeysAt(n, "replicas") = {}
  <2>1. insertAt(n) = Len(n.content) + 1
    BY <1>2 DEF insertAt
  <2>2. \A len \in Nat : len % 2 = 0 => (len + 1) % 2 = 1 /\ len + 1 \in 1 .. len + 1
    OBVIOUS
  <2>3. QED
    BY <1>1, <1>2, <2>1, <2>2
<1>3. CASE KeysAt(n, "replicas") # {}
  <2>1. PICK k \in DOMAIN n.content :
          /\ KeysAt(n, "replicas") = {k} /\ Min(KeysAt(n, "replicas")) = k /\ k % 2 = 1
    BY <1>3, KeyIsOne
  <2>2. insertAt(n) = k
    BY <1>3, <2>1 DEF insertAt
  <2>3. k \in 1 .. Len(n.content) + 1
    BY <1>1
  <2>4. QED
    BY <1>1, <2>1, <2>2, <2>3
<1>4. QED
  BY <1>2, <1>3

WithPair(n, a) == [n EXCEPT !.content = merged(n.content, a)]

(* A spec with the pair in it.                                             *)
LEMMA WithPairIs ==
    ASSUME NEW S, NEW n \in NodesOver(S), n.kind = "mapping",
           Str("serviceName") \in S, Str("zot") \in S,
           NEW a \in 1 .. Len(n.content) + 1, a % 2 = 1
    PROVE  LET m == WithPair(n, a)
               c == n.content
           IN  /\ m \in NodesOver(S)
               /\ m.kind = n.kind /\ m.tag = n.tag /\ m.value = n.value
               /\ m = Node(n.kind, n.tag, n.value, m.content)
               /\ Len(c) \in Nat /\ DOMAIN c = 1 .. Len(c)
               /\ Len(m.content) = Len(c) + 2 /\ DOMAIN m.content = 1 .. Len(c) + 2
               /\ \A j \in 1 .. a - 1 : m.content[j] = c[j]
               /\ m.content[a] = Str("serviceName") /\ m.content[a + 1] = Str("zot")
               /\ \A j \in a + 2 .. Len(c) + 2 : m.content[j] = c[j - 2]
<1> DEFINE m == WithPair(n, a)
           c == n.content
           d == merged(c, a)
<1>1. c \in Seq(S)
  BY DEF NodesOver
<1>2. /\ d \in Seq(S) /\ Len(d) = Len(c) + 2 /\ Len(c) \in Nat
      /\ DOMAIN d = 1 .. Len(c) + 2
      /\ \A j \in 1 .. a - 1 : d[j] = c[j]
      /\ d[a] = Str("serviceName") /\ d[a + 1] = Str("zot")
      /\ \A j \in a + 2 .. Len(c) + 2 : d[j] = c[j - 2]
  BY <1>1, MergedIs
<1>3. DOMAIN c = 1 .. Len(c)
  BY <1>1
<1>4. m = [n EXCEPT !.content = d]
  BY DEF WithPair
<1> HIDE DEF c, d, m
<1>5. /\ m = Node(n.kind, n.tag, n.value, d)
      /\ m.kind = n.kind /\ m.tag = n.tag /\ m.value = n.value /\ m.content = d
  BY <1>4, WithContent
<1>6. m \in NodesOver(S)
  <2>1. n.kind \in Kinds /\ n.tag \in Words /\ n.value \in Words
    BY DEF NodesOver
  <2>2. QED
    BY <1>2, <1>5, <2>1, NodeIn
<1>7. QED
  BY <1>2, <1>3, <1>5, <1>6 DEF c, m

(* Its keys are those it had, and the new one.                             *)
LEMMA WithPairKeys ==
    ASSUME NEW S, NEW n \in NodesOver(S), n.kind = "mapping",
           Str("serviceName") \in S, Str("zot") \in S,
           NEW a \in 1 .. Len(n.content) + 1, a % 2 = 1, NEW key,
           NEW k \in KeysAt(WithPair(n, a), key)
    PROVE  LET m == WithPair(n, a)
           IN  \/ k = a /\ key = "serviceName"
               \/ /\ k \in KeysAt(n, key) /\ k < a
                  /\ m.content[k] = n.content[k]
                  /\ k + 1 < a => m.content[k + 1] = n.content[k + 1]
               \/ /\ k - 2 \in KeysAt(n, key) /\ k - 2 >= a
                  /\ m.content[k] = n.content[k - 2]
                  /\ k + 1 <= Len(n.content) + 2 => m.content[k + 1] = n.content[k - 1]
<1> DEFINE m == WithPair(n, a)
           c == n.content
<1>1. /\ m.kind = n.kind
      /\ Len(c) \in Nat /\ DOMAIN c = 1 .. Len(c)
      /\ Len(m.content) = Len(c) + 2 /\ DOMAIN m.content = 1 .. Len(c) + 2
      /\ \A j \in 1 .. a - 1 : m.content[j] = c[j]
      /\ m.content[a] = Str("serviceName") /\ m.content[a + 1] = Str("zot")
      /\ \A j \in a + 2 .. Len(c) + 2 : m.content[j] = c[j - 2]
  BY WithPairIs
<1>2. k \in DOMAIN m.content /\ k % 2 = 1 /\ m.content[k].value = key
  BY DEF KeysAt
<1> HIDE DEF m
<1>3. k \in 1 .. Len(c) + 2 /\ a \in Nat
  BY <1>1, <1>2
<1>4. CASE k \in 1 .. a - 1 /\ k \in 1 .. Len(c) /\ k < a
  <2>1. m.content[k] = c[k]
    BY <1>1, <1>4
  <2>2. k \in KeysAt(n, key)
    BY <1>1, <1>2, <1>4, <2>1 DEF KeysAt
  <2>3. k + 1 < a => k + 1 \in 1 .. a - 1
    BY <1>3, <1>4
  <2>4. QED
    BY <1>1, <1>4, <2>1, <2>2, <2>3 DEF m
<1>5. CASE k = a
  <2>1. key = "serviceName"
    BY <1>1, <1>2, <1>5, StrIs
  <2>2. QED
    BY <1>5, <2>1
<1>6. CASE k = a + 1
  BY <1>2, <1>3, <1>6
<1>7. CASE /\ k \in a + 2 .. Len(c) + 2 /\ k - 2 \in 1 .. Len(c) /\ (k - 2) % 2 = k % 2
           /\ k - 2 >= a
  <2>1. m.content[k] = c[k - 2]
    BY <1>1, <1>7
  <2>2. k - 2 \in KeysAt(n, key)
    BY <1>1, <1>2, <1>7, <2>1 DEF KeysAt
  <2>3. k + 1 <= Len(c) + 2 => k + 1 \in a + 2 .. Len(c) + 2 /\ (k + 1) - 2 = k - 1
    BY <1>1, <1>3, <1>7
  <2>4. QED
    BY <1>1, <1>7, <2>1, <2>2, <2>3 DEF m
<1>8. QED
  BY <1>1, <1>3, <1>4, <1>5, <1>6, <1>7, Places

(* A pair more leaves the length even.                                     *)
LEMMA EvenStays == \A len \in Nat : len % 2 = 0 => (len + 2) % 2 = 0
OBVIOUS

(* Between two keys there is a value.                                      *)
LEMMA Odd ==
    \A j, a, len \in Nat : j % 2 = 1 =>
      /\ a % 2 = 1 /\ j < a => j + 1 < a
      /\ len % 2 = 0 /\ j <= len => j + 1 <= len
OBVIOUS

(* A spec that lacks the key gets it once, before the replicas,            *)
LEMMA WithPairHasOne ==
    ASSUME NEW n \in Trees, n.kind = "mapping", KeysAt(n, "serviceName") = {}
    PROVE  LET m == WithPair(n, insertAt(n))
           IN  /\ KeysAt(m, "serviceName") = {insertAt(n)}
               /\ \A k \in KeysAt(m, "replicas") : k = insertAt(n) + 2
<1> DEFINE a == insertAt(n)
           m == WithPair(n, a)
<1>1. /\ n \in NodesOver(Trees)
      /\ Str("serviceName") \in Trees /\ Str("zot") \in Trees
  BY TreesShape, StrIsTree, WordsAre
<1>2. /\ a \in 1 .. Len(n.content) + 1 /\ a % 2 = 1 /\ Len(n.content) \in Nat
      /\ \A k \in KeysAt(n, "replicas") : k = a
  BY InsertAtIs
<1> HIDE DEF a
<1>3. /\ m.kind = "mapping" /\ a \in DOMAIN m.content
      /\ m.content[a] = Str("serviceName")
  <2>1. a \in 1 .. Len(n.content) + 2
    BY <1>2
  <2>2. QED
    BY <1>1, <1>2, <2>1, WithPairIs
<1>4. a \in KeysAt(m, "serviceName")
  BY <1>2, <1>3, StrIs DEF KeysAt
<1>5. ASSUME NEW k \in KeysAt(m, "serviceName") PROVE k = a
  BY <1>1, <1>2, <1>5, WithPairKeys
<1>6. ASSUME NEW k \in KeysAt(m, "replicas") PROVE k = a + 2
  <2>1. "replicas" # "serviceName"
    OBVIOUS
  <2>2. \/ k \in KeysAt(n, "replicas") /\ k < a
        \/ k - 2 \in KeysAt(n, "replicas")
    BY <1>1, <1>2, <2>1, WithPairKeys
  <2>3. k \in Int
    <3>1. DOMAIN m.content = 1 .. Len(n.content) + 2
      BY <1>1, <1>2, WithPairIs
    <3>2. QED
      BY <3>1 DEF KeysAt
  <2>4. QED
    BY <1>2, <2>2, <2>3
<1>7. QED
  BY <1>4, <1>5, <1>6 DEF a

(* is as clean as it was,                                                  *)
LEMMA WithPairIsClean ==
    ASSUME NEW n \in Trees, n.kind = "mapping", Clean(n),
           NEW a \in 1 .. Len(n.content) + 1, a % 2 = 1
    PROVE  Clean(WithPair(n, a))
<1> DEFINE m == WithPair(n, a)
<1> SUFFICES ASSUME NEW key \in emptyNilFields, NEW k \in KeysAt(m, key)
             PROVE  m.content[k + 1].tag # "!!null"
  BY DEF Clean
<1>1. /\ n \in NodesOver(Trees)
      /\ Str("serviceName") \in Trees /\ Str("zot") \in Trees
  BY TreesShape, StrIsTree, WordsAre
<1>2. /\ Len(n.content) \in Nat /\ Len(n.content) % 2 = 0
  BY TreesShape DEF WellFormed, Paired
<1>3. k \in 1 .. Len(n.content) + 2 /\ k % 2 = 1
  BY <1>1, WithPairIs DEF KeysAt
<1>4. /\ k < a => k + 1 < a
      /\ k + 1 <= Len(n.content) + 2
  <2>1. (Len(n.content) + 2) % 2 = 0
    BY <1>2, EvenStays
  <2>2. k \in Nat /\ a \in Nat /\ Len(n.content) + 2 \in Nat /\ k <= Len(n.content) + 2
    BY <1>2, <1>3
  <2>3. QED
    BY <1>3, <2>1, <2>2, Odd
<1>5. key # "serviceName"
  BY DEF emptyNilFields
<1> HIDE DEF m
<1>6. \/ k \in KeysAt(n, key) /\ m.content[k + 1] = n.content[k + 1]
      \/ k - 2 \in KeysAt(n, key) /\ m.content[k + 1] = n.content[k - 1]
  BY <1>1, <1>4, <1>5, WithPairKeys DEF m
<1>7. (k - 2) + 1 = k - 1
  BY <1>3
<1>8. QED
  BY <1>6, <1>7 DEF Clean

(* and as well formed.                                                     *)
LEMMA WithPairIsWellFormed ==
    ASSUME NEW n \in Trees, n.kind = "mapping", KeysAt(n, "serviceName") = {},
           NEW a \in 1 .. Len(n.content) + 1, a % 2 = 1
    PROVE  WellFormed(WithPair(n, a))
<1> DEFINE m == WithPair(n, a)
           c == m.content
<1>1. /\ n \in NodesOver(Trees)
      /\ Str("serviceName") \in Trees /\ Str("zot") \in Trees
  BY TreesShape, StrIsTree, WordsAre
<1>2. Paired(n.content) /\ n.tag # "!!null" /\ Len(n.content) \in Nat
  BY TreesShape DEF WellFormed
<1>3. /\ m.kind = n.kind /\ m.tag = n.tag
      /\ DOMAIN n.content = 1 .. Len(n.content)
      /\ Len(c) = Len(n.content) + 2 /\ DOMAIN c = 1 .. Len(n.content) + 2
      /\ c[a] = Str("serviceName")
  BY <1>1, WithPairIs
<1>4. Len(c) % 2 = 0
  <2>1. Len(n.content) % 2 = 0
    BY <1>2 DEF Paired
  <2>2. QED
    BY <1>2, <1>3, <2>1, EvenStays
<1> DEFINE Old(i) == IF i < a THEN i ELSE i - 2
<1>5. ASSUME NEW i \in DOMAIN c, i % 2 = 1, i # a
      PROVE  /\ Old(i) \in DOMAIN n.content /\ Old(i) % 2 = 1
             /\ c[i] = n.content[Old(i)] /\ i \in Int
             /\ c[i].value # "serviceName"
             /\ i < a \/ i - 2 >= a
  <2>1. i \in KeysAt(m, c[i].value)
    BY <1>3, <1>5 DEF KeysAt
  <2>2. i \in Int /\ a \in Int
    BY <1>3
  <2> HIDE DEF m
  <2>3. \/ /\ i \in KeysAt(n, c[i].value) /\ i < a /\ c[i] = n.content[i]
        \/ /\ i - 2 \in KeysAt(n, c[i].value) /\ i - 2 >= a /\ c[i] = n.content[i - 2]
    BY <1>1, <1>5, <2>1, WithPairKeys DEF m
  <2>4. Old(i) \in KeysAt(n, c[i].value) /\ c[i] = n.content[Old(i)] /\ (i < a \/ i - 2 >= a)
    BY <2>2, <2>3
  <2>5. c[i].value # "serviceName"
    BY <2>4
  <2>6. QED
    BY <2>2, <2>4, <2>5 DEF KeysAt
<1> HIDE DEF m, c
<1>6. ASSUME NEW i \in DOMAIN c, i % 2 = 1 PROVE c[i].kind = "scalar"
  <2>1. CASE i = a
    BY <1>3, <2>1, StrIs
  <2>2. CASE i # a
    BY <1>2, <1>5, <1>6, <2>2 DEF Paired
  <2>3. QED
    BY <2>1, <2>2
<1>7. ASSUME NEW i \in DOMAIN c, i % 2 = 1, NEW j \in DOMAIN c, j % 2 = 1,
             c[j].value = c[i].value
      PROVE  j = i
  <2>1. c[a].value = "serviceName"
    BY <1>3, StrIs
  <2>2. (i = a) <=> (j = a)
    BY <1>5, <1>7, <2>1
  <2>3. CASE i # a /\ j # a
    <3>1. Old(j) = Old(i)
      BY <1>2, <1>5, <1>7, <2>3 DEF Paired
    <3>2. QED
      BY <1>5, <1>7, <2>3, <3>1
  <2>4. QED
    BY <2>2, <2>3
<1>8. Paired(c)
  BY <1>4, <1>6, <1>7 DEF Paired
<1>9. QED
  BY <1>2, <1>3, <1>8 DEF WellFormed, m, c

(* So it is a tree of its level.                                           *)
LEMMA WithPairIsTree ==
    ASSUME NEW d \in 0 .. Depth - 1, NEW n \in Tree[d + 1], n.kind = "mapping",
           KeysAt(n, "serviceName") = {},
           NEW a \in 1 .. Len(n.content) + 1, a % 2 = 1
    PROVE  WithPair(n, a) \in Tree[d + 1]
<1>1. d \in 0 .. Depth /\ d + 1 \in 0 .. Depth
  BY DepthIsEnough
<1>2. n \in NodesOver(Tree[d]) /\ n \in Trees
  BY <1>1, TreeShape, TreesGrow
<1>3. Str("serviceName") \in Tree[d] /\ Str("zot") \in Tree[d]
  BY <1>1, LeafFits, WordsAre
<1>4. WithPair(n, a) \in NodesOver(Tree[d])
  BY <1>2, <1>3, WithPairIs
<1>5. WellFormed(WithPair(n, a))
  BY <1>2, WithPairIsWellFormed
<1>6. QED
  BY <1>4, <1>5, TreeShape

(* A string has no fields to strike out.                                   *)
LEMMA StruckStr == \A v \in Words : Struck[Str(v)] = Str(v)
<1> SUFFICES ASSUME NEW v \in Words PROVE Struck[Str(v)] = Str(v)
  OBVIOUS
<1> DEFINE n == Str(v)
<1>1. n \in Trees /\ n.content = <<>>
  BY StrIsTree, StrIs
<1>2. n \in NodesOver(Trees)
  BY <1>1, TreesShape
<1> HIDE DEF n
<1>3. Struck[n].content = <<>>
  <2>1. Struck[n].content = [i \in 1 .. Len(n.content) |-> StruckAt(n, i)]
    BY <1>1, StruckParts
  <2>2. Len(n.content) = 0
    BY <1>1
  <2>3. QED
    BY <2>1, <2>2
<1>4. Struck[n] = Node(n.kind, n.tag, n.value, <<>>)
  BY <1>1, <1>3, StruckParts
<1>5. n = Node(n.kind, n.tag, n.value, <<>>)
  BY <1>1, <1>2 DEF NodesOver, Node
<1>6. QED
  BY <1>4, <1>5 DEF n

(* The pair is put where it would be with the fields struck out.           *)
LEMMA WithPairIsStruck ==
    ASSUME NEW n \in Trees, n.kind = "mapping",
           NEW a \in 1 .. Len(n.content) + 1, a % 2 = 1,
           WithPair(n, a) \in Trees
    PROVE  Struck[WithPair(n, a)] = WithPair(Struck[n], a)
<1> DEFINE m == WithPair(n, a)
           c == n.content
           s == Struck[n]
           T == {Struck[t] : t \in Trees} \cup {Nil}
<1>1. /\ n \in NodesOver(Trees) /\ Len(c) \in Nat /\ DOMAIN c = 1 .. Len(c)
      /\ \A i \in DOMAIN c : c[i] \in Trees
      /\ Str("serviceName") \in Trees /\ Str("zot") \in Trees
      /\ Struck[Str("serviceName")] = Str("serviceName") /\ Struck[Str("zot")] = Str("zot")
  BY TreesShape, StrIsTree, WordsAre, StruckStr
<1>2. /\ m.kind = n.kind /\ m.tag = n.tag /\ m.value = n.value
      /\ Len(m.content) = Len(c) + 2 /\ DOMAIN m.content = 1 .. Len(c) + 2
      /\ \A j \in 1 .. a - 1 : m.content[j] = c[j]
      /\ m.content[a] = Str("serviceName") /\ m.content[a + 1] = Str("zot")
      /\ \A j \in a + 2 .. Len(c) + 2 : m.content[j] = c[j - 2]
  BY <1>1, WithPairIs
<1>3. /\ s = Node(n.kind, n.tag, n.value, s.content)
      /\ s.content = [i \in 1 .. Len(c) |-> StruckAt(n, i)] /\ Len(s.content) = Len(c)
  BY StruckParts
<1>4. /\ Struck[m] = Node(m.kind, m.tag, m.value, Struck[m].content)
      /\ Struck[m].content = [i \in 1 .. Len(c) + 2 |-> StruckAt(m, i)]
  BY <1>2, StruckParts
<1>5. s.content \in Seq(T) /\ Str("serviceName") \in T /\ Str("zot") \in T
  <2>1. \A i \in 1 .. Len(c) : StruckAt(n, i) \in T
    BY <1>1 DEF StruckAt
  <2>2. Str("serviceName") \in T /\ Str("zot") \in T
    BY <1>1
  <2> HIDE DEF T
  <2>3. QED
    BY <1>1, <1>3, <2>1, <2>2
<1> DEFINE e == merged(s.content, a)
<1>6. /\ e \in Seq(T) /\ Len(e) = Len(c) + 2 /\ DOMAIN e = 1 .. Len(c) + 2
      /\ \A j \in 1 .. a - 1 : e[j] = s.content[j]
      /\ e[a] = Str("serviceName") /\ e[a + 1] = Str("zot")
      /\ \A j \in a + 2 .. Len(c) + 2 : e[j] = s.content[j - 2]
  <2> HIDE DEF T, s
  <2> DEFINE b == s.content
  <2>1. Len(b) = Len(c) /\ a \in 1 .. Len(b) + 1 /\ b \in Seq(T)
    BY <1>3, <1>5
  <2>2. e = merged(b, a)
    OBVIOUS
  <2> HIDE DEF b, e, c
  <2>3. /\ e \in Seq(T) /\ Len(e) = Len(b) + 2 /\ DOMAIN e = 1 .. Len(b) + 2
        /\ \A j \in 1 .. a - 1 : e[j] = b[j]
        /\ e[a] = Str("serviceName") /\ e[a + 1] = Str("zot")
        /\ \A j \in a + 2 .. Len(b) + 2 : e[j] = b[j - 2]
    BY <1>5, <2>1, <2>2, MergedIs
  <2>4. QED
    BY <2>1, <2>3 DEF b
<1> HIDE DEF m, c, s, e, T
<1>7. ASSUME NEW j \in 1 .. Len(c) + 2 PROVE StruckAt(m, j) = e[j]
  <2>0. a \in Nat /\ a >= 1 /\ a <= Len(c) + 1
    BY <1>1 DEF c
  <2>1. CASE j \in 1 .. a - 1 /\ j \in 1 .. Len(c) /\ j < a
    <3>1. m.content[j] = c[j] /\ e[j] = StruckAt(n, j)
      BY <1>2, <1>3, <1>6, <2>1
    <3>2. j % 2 = 0 => j - 1 \in 1 .. a - 1
      BY <2>0, <2>1
    <3>3. IsField(m, j) <=> IsField(n, j)
      BY <1>2, <3>2 DEF IsField, c
    <3>4. QED
      BY <3>1, <3>3 DEF StruckAt, c
  <2>2. CASE j = a
    <3>1. ~IsField(m, a)
      BY DEF IsField
    <3>2. QED
      BY <1>1, <1>2, <1>6, <2>2, <3>1 DEF StruckAt
  <2>3. CASE j = a + 1
    <3>1. (a + 1) - 1 = a
      BY <2>0
    <3>2. m.content[(a + 1) - 1].value = "serviceName"
      BY <1>2, <3>1, StrIs
    <3>3. "serviceName" \notin emptyNilFields
      BY DEF emptyNilFields
    <3>4. ~IsField(m, a + 1)
      BY <3>2, <3>3 DEF IsField
    <3>5. QED
      BY <1>1, <1>2, <1>6, <2>3, <3>4 DEF StruckAt
  <2>4. CASE /\ j \in a + 2 .. Len(c) + 2 /\ j - 2 \in 1 .. Len(c) /\ (j - 2) % 2 = j % 2
             /\ j - 2 >= a
    <3>1. m.content[j] = c[j - 2] /\ e[j] = StruckAt(n, j - 2)
      BY <1>2, <1>3, <1>6, <2>4
    <3>2. j % 2 = 0 => j - 1 \in a + 2 .. Len(c) + 2 /\ (j - 1) - 2 = (j - 2) - 1
      BY <2>0, <2>4
    <3>3. j % 2 = 0 => m.content[j - 1] = c[(j - 2) - 1]
      BY <1>2, <3>2
    <3>4. IsField(m, j) <=> IsField(n, j - 2)
      BY <1>2, <2>4, <3>3 DEF IsField, c
    <3>5. QED
      BY <3>1, <3>4 DEF StruckAt, c
  <2>5. QED
    BY <1>1, <2>0, <2>1, <2>2, <2>3, <2>4, Places
<1>8. Struck[m].content = e
  <2>1. e = [j \in 1 .. Len(c) + 2 |-> e[j]]
    BY <1>6
  <2>2. QED
    BY <1>4, <1>7, <2>1
<1>9. Struck[m] = Node(n.kind, n.tag, n.value, e)
  BY <1>2, <1>4, <1>8
<1>10. WithPair(s, a) = Node(n.kind, n.tag, n.value, e)
  <2>1. WithPair(s, a) = [s EXCEPT !.content = e]
    BY DEF WithPair, e
  <2>2. QED
    BY <1>3, <2>1 DEF Node
<1>11. QED
  BY <1>9, <1>10 DEF m, s

-----------------------------------------------------------------------------
(* A node in the place of another                                          *)

Put(n, i, m) == [n EXCEPT !.content[i] = m]

(* A key is not what is replaced.                                          *)
IsValue(n, i) == i \in DOMAIN n.content /\ (n.kind = "mapping" => i % 2 = 0)

(* What replacing one node of a content gives.                             *)
LEMMA PutIs ==
    ASSUME NEW S, NEW n \in NodesOver(S), NEW i \in DOMAIN n.content, NEW m \in S
    PROVE  LET p == Put(n, i, m)
           IN  /\ p \in NodesOver(S)
               /\ p.kind = n.kind /\ p.tag = n.tag /\ p.value = n.value
               /\ p = Node(n.kind, n.tag, n.value, p.content)
               /\ DOMAIN p.content = DOMAIN n.content /\ Len(p.content) = Len(n.content)
               /\ p.content[i] = m
               /\ \A j \in DOMAIN n.content : j # i => p.content[j] = n.content[j]
<1> DEFINE p == Put(n, i, m)
           c == [n.content EXCEPT ![i] = m]
<1>1. n.content \in Seq(S)
  BY DEF NodesOver
<1>2. /\ c \in Seq(S) /\ Len(c) = Len(n.content)
      /\ \A j \in 1 .. Len(n.content) : c[j] = IF j = i THEN m ELSE n.content[j]
  BY <1>1, ExceptSeq
<1>3. DOMAIN n.content = 1 .. Len(n.content) /\ DOMAIN c = 1 .. Len(n.content)
  BY <1>1
<1>4. p = [n EXCEPT !.content = c]
  BY DEF Put
<1> HIDE DEF c, p
<1>5. /\ p = Node(n.kind, n.tag, n.value, c)
      /\ p.kind = n.kind /\ p.tag = n.tag /\ p.value = n.value /\ p.content = c
  BY <1>4, WithContent
<1>6. n.kind \in Kinds /\ n.tag \in Words /\ n.value \in Words
  BY DEF NodesOver
<1>7. p \in NodesOver(S)
  BY <1>2, <1>5, <1>6, NodeIn
<1>8. QED
  BY <1>2, <1>3, <1>5, <1>7 DEF p, c

(* The same of a tree, for the provers.                                    *)
LEMMA PutParts ==
    ASSUME NEW n \in Trees, NEW i \in DOMAIN n.content, NEW m \in Trees
    PROVE  /\ Put(n, i, m).kind = n.kind /\ Put(n, i, m).tag = n.tag
           /\ Put(n, i, m).value = n.value
           /\ DOMAIN Put(n, i, m).content = DOMAIN n.content
           /\ Len(Put(n, i, m).content) = Len(n.content)
           /\ Put(n, i, m).content[i] = m
           /\ \A j \in DOMAIN n.content : j # i => Put(n, i, m).content[j] = n.content[j]
<1>1. n \in NodesOver(Trees)
  BY TreesShape
<1>2. QED
  BY <1>1, PutIs

(* It leaves the keys where they are,                                      *)
LEMMA PutKeepsKeys ==
    ASSUME NEW n \in Trees, NEW i, IsValue(n, i), NEW m \in Trees
    PROVE  LET p == Put(n, i, m)
           IN  /\ \A key : KeysAt(p, key) = KeysAt(n, key)
               /\ \A j \in DOMAIN n.content : IsField(p, j) <=> IsField(n, j)
<1> DEFINE p == Put(n, i, m)
<1>1. i \in DOMAIN n.content
  BY DEF IsValue
<1>2. /\ p.kind = n.kind /\ DOMAIN p.content = DOMAIN n.content
      /\ \A j \in DOMAIN n.content : j # i => p.content[j] = n.content[j]
  BY <1>1, PutParts
<1> HIDE DEF p
<1>3. n.kind = "mapping" => i % 2 = 0
  BY DEF IsValue
<1>4. ASSUME NEW key PROVE KeysAt(p, key) = KeysAt(n, key)
  BY <1>2, <1>3 DEF KeysAt
<1>5. ASSUME NEW j \in DOMAIN n.content PROVE IsField(p, j) <=> IsField(n, j)
  <2>1. j % 2 = 0 => j - 1 \in DOMAIN n.content /\ (j - 1) % 2 = 1
    <3>1. DOMAIN n.content = 1 .. Len(n.content) /\ Len(n.content) \in Nat
      BY TreesShape
    <3>2. QED
      BY <3>1
  <2>2. QED
    BY <1>2, <1>3, <2>1 DEF IsField
<1>6. QED
  BY <1>4, <1>5 DEF p

(* the node well formed,                                                   *)
LEMMA PutIsWellFormed ==
    ASSUME NEW n \in Trees, NEW i, IsValue(n, i), NEW m \in Trees
    PROVE  WellFormed(Put(n, i, m))
<1> DEFINE p == Put(n, i, m)
<1>1. n \in NodesOver(Trees) /\ i \in DOMAIN n.content /\ WellFormed(n)
  BY TreesShape DEF IsValue
<1>2. /\ p.kind = n.kind /\ p.tag = n.tag
      /\ DOMAIN p.content = DOMAIN n.content /\ Len(p.content) = Len(n.content)
      /\ \A j \in DOMAIN n.content : j # i => p.content[j] = n.content[j]
  BY <1>1, PutParts
<1> HIDE DEF p
<1>3. n.kind \notin {"scalar", "alias"}
  BY <1>1 DEF WellFormed
<1>4. ASSUME n.kind = "mapping" PROVE Paired(p.content)
  <2>1. i % 2 = 0 /\ Paired(n.content)
    BY <1>1, <1>4 DEF IsValue, WellFormed
  <2>2. \A j \in DOMAIN n.content : j % 2 = 1 => p.content[j] = n.content[j]
    BY <1>2, <2>1
  <2>3. QED
    BY <1>2, <2>1, <2>2 DEF Paired
<1>5. WellFormed(p)
  BY <1>1, <1>2, <1>3, <1>4 DEF WellFormed
<1>6. QED
  BY <1>5 DEF p

(* so the node is a tree of its level.                                     *)
LEMMA PutIsTree ==
    ASSUME NEW d \in 0 .. Depth - 1, NEW n \in Tree[d + 1], NEW m \in Tree[d],
           NEW i, IsValue(n, i)
    PROVE  Put(n, i, m) \in Tree[d + 1]
<1>1. d \in 0 .. Depth /\ d + 1 \in 0 .. Depth
  BY DepthIsEnough
<1>2. n \in NodesOver(Tree[d]) /\ n \in Trees /\ m \in Trees
  BY <1>1, TreeShape, TreesGrow
<1>3. Put(n, i, m) \in NodesOver(Tree[d])
  BY <1>2, PutIs DEF IsValue
<1>4. WellFormed(Put(n, i, m))
  BY <1>2, PutIsWellFormed
<1>5. QED
  BY <1>3, <1>4, TreeShape

(* clean if both were, unless what was replaced is one of the fields,      *)
AllClean(n) == \A m \in Subtree[n] : Clean(m)

(* It is clean at every depth if both were.                                *)
LEMMA PutIsClean ==
    ASSUME NEW n \in Trees, NEW i, IsValue(n, i), ~IsField(n, i), NEW m \in Trees,
           Put(n, i, m) \in Trees, AllClean(n), AllClean(m)
    PROVE  AllClean(Put(n, i, m))
<1> DEFINE p == Put(n, i, m)
<1>1. n \in NodesOver(Trees) /\ i \in DOMAIN n.content
  BY TreesShape DEF IsValue
<1>2. /\ DOMAIN p.content = DOMAIN n.content
      /\ p.content[i] = m
      /\ \A j \in DOMAIN n.content : j # i => p.content[j] = n.content[j]
  BY <1>1, PutParts
<1>3. \A key : KeysAt(p, key) = KeysAt(n, key)
  BY PutKeepsKeys
<1>4. Clean(n)
  BY SubtreeIs DEF AllClean
<1> HIDE DEF p
<1>5. Clean(p)
  <2> SUFFICES ASSUME NEW key \in emptyNilFields, NEW k \in KeysAt(n, key)
               PROVE  p.content[k + 1].tag # "!!null"
    BY <1>3 DEF Clean
  <2>1. k + 1 \in DOMAIN n.content /\ IsField(n, k + 1)
    BY FieldAt
  <2>2. p.content[k + 1] = n.content[k + 1]
    BY <1>2, <2>1
  <2>3. QED
    BY <1>4, <2>2 DEF Clean
<1>6. ASSUME NEW x \in Subtree[p] PROVE Clean(x)
  <2>1. p \in Trees
    BY DEF p
  <2>2. x = p \/ \E j \in DOMAIN n.content : x \in Subtree[p.content[j]]
    BY <1>2, <2>1, SubtreeIs
  <2>3. ASSUME NEW j \in DOMAIN n.content, x \in Subtree[p.content[j]] PROVE Clean(x)
    <3>1. CASE j = i
      BY <1>2, <2>3, <3>1 DEF AllClean
    <3>2. CASE j # i
      <4>1. Subtree[n.content[j]] \subseteq Subtree[n]
        BY SubtreeIs
      <4>2. QED
        BY <1>2, <2>3, <3>2, <4>1 DEF AllClean
    <3>3. QED
      BY <3>1, <3>2
  <2>4. QED
    BY <1>5, <2>2, <2>3
<1>7. QED
  BY <1>6 DEF AllClean, p

(* What is struck out of it was struck out of the two.                     *)
LEMMA PutIsStruck ==
    ASSUME NEW n \in Trees, NEW i, IsValue(n, i), ~IsField(n, i), NEW m \in Trees,
           Put(n, i, m) \in Trees
    PROVE  Struck[Put(n, i, m)] = Put(Struck[n], i, Struck[m])
<1> DEFINE p == Put(n, i, m)
           s == Struck[n]
<1>1. /\ n \in NodesOver(Trees) /\ i \in DOMAIN n.content
      /\ DOMAIN n.content = 1 .. Len(n.content)
  BY TreesShape DEF IsValue
<1>2. /\ p.kind = n.kind /\ p.tag = n.tag /\ p.value = n.value
      /\ Len(p.content) = Len(n.content) /\ p.content[i] = m
      /\ \A j \in DOMAIN n.content : j # i => p.content[j] = n.content[j]
  <2>1. /\ p.kind = n.kind /\ p.tag = n.tag /\ p.value = n.value
        /\ Len(p.content) = Len(n.content) /\ p.content[i] = m
    BY <1>1, PutParts
  <2>2. \A j \in DOMAIN n.content : j # i => p.content[j] = n.content[j]
    BY <1>1, PutParts
  <2>3. QED
    BY <2>1, <2>2
<1>3. \A j \in DOMAIN n.content : IsField(p, j) <=> IsField(n, j)
  BY PutKeepsKeys
<1>4. /\ Struck[p] = Node(p.kind, p.tag, p.value, Struck[p].content)
      /\ Struck[p].content = [j \in 1 .. Len(p.content) |-> StruckAt(p, j)]
  BY StruckParts
<1>5. /\ s = Node(n.kind, n.tag, n.value, s.content)
      /\ s.content = [j \in 1 .. Len(n.content) |-> StruckAt(n, j)]
  BY StruckParts
<1> HIDE DEF p, s
<1>6. StruckAt(p, i) = Struck[m]
  BY <1>1, <1>2, <1>3 DEF StruckAt
<1>7. ASSUME NEW j \in DOMAIN n.content, j # i PROVE StruckAt(p, j) = StruckAt(n, j)
  BY <1>2, <1>3, <1>7 DEF StruckAt
<1>8. Struck[p].content = [s.content EXCEPT ![i] = Struck[m]]
  BY <1>1, <1>2, <1>4, <1>5, <1>6, <1>7
<1>9. Put(s, i, Struck[m]) = Node(n.kind, n.tag, n.value, [s.content EXCEPT ![i] = Struck[m]])
  <2>1. Put(s, i, Struck[m]) = [s EXCEPT !.content = [s.content EXCEPT ![i] = Struck[m]]]
    BY DEF Put
  <2> DEFINE c == [s.content EXCEPT ![i] = Struck[m]]
  <2>2. Put(s, i, Struck[m]) = [s EXCEPT !.content = c]
    BY <2>1
  <2> HIDE DEF c
  <2>3. [s EXCEPT !.content = c] = Node(n.kind, n.tag, n.value, c)
    BY <1>5 DEF Node
  <2>4. QED
    BY <2>2, <2>3 DEF c
<1>10. QED
  BY <1>2, <1>4, <1>8, <1>9 DEF p, s

-----------------------------------------------------------------------------
(* The second walk                                                         *)

SpecAt(root) == Min(KeysAt(root, "spec")) + 1

(* Where the zot StatefulSet that lacks it gets its serviceName.           *)
LEMMA SpecIs ==
    ASSUME NEW root \in Trees, LacksServiceName(root)
    PROVE  LET s == SpecAt(root)
               spec == root.content[s]
           IN  /\ IsValue(root, s) /\ ~IsField(root, s) /\ root.kind = "mapping"
               /\ spec = mapValue(root, "spec") /\ spec \in Trees
               /\ spec.kind = "mapping" /\ KeysAt(spec, "serviceName") = {}
<1> DEFINE v == mapValue(root, "spec")
<1>1. v.kind = "mapping" /\ mapValue(v, "serviceName") = Nil
  BY DEF LacksServiceName, IsZot
<1>2. v # Nil
  <2>1. Nil.kind # "mapping"
    BY DEF Nil, Node
  <2> HIDE DEF v
  <2>2. QED
    BY <1>1, <2>1
<1>3. KeysAt(root, "spec") # {} /\ v \in Trees
  BY <1>2, NilIsNone
<1>4. PICK k \in DOMAIN root.content :
        /\ KeysAt(root, "spec") = {k} /\ Min(KeysAt(root, "spec")) = k /\ k \in Nat
        /\ v = root.content[k + 1]
        /\ k + 1 \in DOMAIN root.content /\ root.kind = "mapping"
  BY <1>3, KeyIsOne
<1>5. k \in KeysAt(root, "spec") /\ SpecAt(root) = k + 1
  BY <1>4 DEF SpecAt
<1>6. root.content[k].value = "spec" /\ (k + 1) % 2 = 0 /\ (k + 1) - 1 = k
  BY <1>4, <1>5, FieldAt
<1>7. IsValue(root, k + 1)
  BY <1>4, <1>6 DEF IsValue
<1>8. ~IsField(root, k + 1)
  <2>1. "spec" \notin emptyNilFields
    BY DEF emptyNilFields
  <2>2. QED
    BY <1>6, <2>1 DEF IsField
<1>9. KeysAt(v, "serviceName") = {}
  BY <1>1, <1>3, NilIsNone
<1>10. QED
  BY <1>1, <1>3, <1>4, <1>5, <1>7, <1>8, <1>9

NewSpec(root) ==
    WithPair(root.content[SpecAt(root)], insertAt(root.content[SpecAt(root)]))

NewRoot(root) == Put(root, SpecAt(root), NewSpec(root))

(* A pair merged into a node two deep.                                     *)
LEMMA Nested ==
    ASSUME NEW n, NEW s, NEW a
    PROVE  [n EXCEPT !.content[1].content[s].content = merged(@, a)]
             = Put(n, 1, Put(n.content[1], s, WithPair(n.content[1].content[s], a)))
BY DEF Put, WithPair

(* The second walk replaces the spec in the root, and that in the document.*)
LEMMA InjectIs ==
    ASSUME NEW d \in Manifests
    PROVE  injectZotServiceName(d) =
             IF LacksServiceName(d.content[1]) THEN Put(d, 1, NewRoot(d.content[1])) ELSE d
BY Nested DEF injectZotServiceName, NewRoot, NewSpec, SpecAt

(* A document holds one node.                                              *)
LEMMA DocumentIs ==
    ASSUME NEW d \in Manifests
    PROVE  /\ d \in Trees /\ d.kind = "document" /\ d.content[1] \in Trees
           /\ IsValue(d, 1) /\ ~IsField(d, 1) /\ 1 \in DOMAIN d.content
<1>1. d \in Trees /\ d.kind = "document"
  BY DEF Manifests
<1>2. Len(d.content) = 1 /\ DOMAIN d.content = 1 .. Len(d.content)
  BY <1>1, TreesShape DEF WellFormed
<1>3. 1 \in DOMAIN d.content
  BY <1>2
<1>4. d.content[1] \in Trees
  BY <1>1, <1>3, TreesShape
<1>5. IsValue(d, 1) /\ ~IsField(d, 1)
  BY <1>1, <1>3 DEF IsValue, IsField
<1>6. QED
  BY <1>1, <1>3, <1>4, <1>5

(* The spec, the resource and the document with the pair are trees.        *)
LEMMA InjectIsTree ==
    ASSUME NEW d \in Manifests, LacksServiceName(d.content[1])
    PROVE  /\ NewSpec(d.content[1]) \in Trees
           /\ NewRoot(d.content[1]) \in Trees
           /\ Put(d, 1, NewRoot(d.content[1])) \in Manifests
<1> DEFINE root == d.content[1]
           s == SpecAt(root)
           spec == root.content[s]
           a == insertAt(spec)
<1>1. /\ Depth - 1 \in 0 .. Depth - 1 /\ Depth - 2 \in 0 .. Depth - 1
      /\ Depth - 3 \in 0 .. Depth - 1
      /\ (Depth - 1) + 1 = Depth /\ (Depth - 2) + 1 = Depth - 1 /\ (Depth - 3) + 1 = Depth - 2
      /\ Depth - 1 \in 0 .. Depth /\ Depth - 2 \in 0 .. Depth /\ Depth \in 0 .. Depth
  BY DepthIsEnough
<1>2. d \in Tree[Depth] /\ root \in Trees /\ IsValue(d, 1) /\ 1 \in DOMAIN d.content
      /\ d.kind = "document"
  BY DocumentIs DEF Trees
<1>3. root \in Tree[Depth - 1]
  BY <1>1, <1>2, Inside
<1>4. /\ IsValue(root, s) /\ spec \in Trees /\ spec.kind = "mapping"
      /\ KeysAt(spec, "serviceName") = {}
  BY <1>2, SpecIs
<1>5. spec \in Tree[Depth - 2]
  BY <1>1, <1>3, <1>4, Inside DEF IsValue
<1>6. a \in 1 .. Len(spec.content) + 1 /\ a % 2 = 1
  BY <1>4, InsertAtIs
<1> HIDE DEF root, s, spec, a
<1>7. WithPair(spec, a) \in Tree[Depth - 2]
  BY <1>1, <1>4, <1>5, <1>6, WithPairIsTree
<1>8. Put(root, s, WithPair(spec, a)) \in Tree[Depth - 1]
  BY <1>1, <1>3, <1>4, <1>7, PutIsTree
<1>9. NewSpec(root) = WithPair(spec, a) /\ NewRoot(root) = Put(root, s, WithPair(spec, a))
  BY DEF NewSpec, NewRoot, s, spec, a
<1>10. Put(d, 1, NewRoot(root)) \in Tree[Depth]
  BY <1>1, <1>2, <1>8, <1>9, PutIsTree
<1>11. NewSpec(root) \in Trees /\ NewRoot(root) \in Trees
  BY <1>1, <1>7, <1>8, <1>9, TreesGrow
<1>12. Put(d, 1, NewRoot(root)).kind = "document"
  BY <1>2, <1>11, DocumentIs, PutParts
<1>13. QED
  BY <1>10, <1>11, <1>12 DEF Manifests, Trees, root

(* So it gives a manifest,                                                 *)
LEMMA InjectGivesManifest == \A d \in Manifests : injectZotServiceName(d) \in Manifests
BY InjectIs, InjectIsTree

(* and a clean one of a clean one.                                         *)
LEMMA InjectIsClean ==
    ASSUME NEW d \in Manifests, AllClean(d)
    PROVE  AllClean(injectZotServiceName(d))
<1> DEFINE root == d.content[1]
           s == SpecAt(root)
           spec == root.content[s]
           a == insertAt(spec)
<1> SUFFICES ASSUME LacksServiceName(root) PROVE AllClean(Put(d, 1, NewRoot(root)))
  BY InjectIs
<1>1. d \in Trees /\ root \in Trees /\ IsValue(d, 1) /\ ~IsField(d, 1) /\ 1 \in DOMAIN d.content
  BY DocumentIs
<1>2. /\ IsValue(root, s) /\ ~IsField(root, s) /\ spec \in Trees /\ spec.kind = "mapping"
      /\ s \in DOMAIN root.content
  BY <1>1, SpecIs DEF IsValue
<1>3. NewSpec(root) \in Trees /\ NewRoot(root) \in Trees /\ Put(d, 1, NewRoot(root)) \in Trees
  BY InjectIsTree DEF Manifests
<1>4. AllClean(root)
  <2>1. Subtree[root] \subseteq Subtree[d]
    BY <1>1, SubtreeIs
  <2>2. QED
    BY <2>1 DEF AllClean
<1>5. AllClean(spec)
  <2>1. Subtree[spec] \subseteq Subtree[root]
    BY <1>1, <1>2, SubtreeIs
  <2>2. QED
    BY <1>4, <2>1 DEF AllClean
<1>6. a \in 1 .. Len(spec.content) + 1 /\ a % 2 = 1
  BY <1>2, InsertAtIs
<1>7. NewSpec(root) = WithPair(spec, a) /\ NewRoot(root) = Put(root, s, WithPair(spec, a))
  BY DEF NewSpec, NewRoot
<1> HIDE DEF root, s, spec, a
<1> DEFINE m == WithPair(spec, a)
<1>8. AllClean(m)
  <2>1. Clean(spec)
    BY <1>2, <1>5, SubtreeIs DEF AllClean
  <2>2. Clean(m)
    BY <1>2, <1>6, <2>1, WithPairIsClean
  <2>3. /\ spec \in NodesOver(Trees)
        /\ Str("serviceName") \in Trees /\ Str("zot") \in Trees
    BY <1>2, TreesShape, StrIsTree, WordsAre
  <2>4. /\ Len(spec.content) \in Nat /\ DOMAIN m.content = 1 .. Len(spec.content) + 2
        /\ DOMAIN spec.content = 1 .. Len(spec.content)
        /\ \A j \in 1 .. a - 1 : m.content[j] = spec.content[j]
        /\ m.content[a] = Str("serviceName") /\ m.content[a + 1] = Str("zot")
        /\ \A j \in a + 2 .. Len(spec.content) + 2 : m.content[j] = spec.content[j - 2]
    BY <1>2, <1>6, <2>3, WithPairIs
  <2>5. ASSUME NEW j \in DOMAIN m.content
        PROVE  \/ \E i \in DOMAIN spec.content : m.content[j] = spec.content[i]
               \/ m.content[j] \in {Str("serviceName"), Str("zot")}
    BY <1>6, <2>4, Places
  <2>6. m \in Trees
    BY <1>3, <1>7
  <2> HIDE DEF m
  <2>7. ASSUME NEW j \in DOMAIN m.content, NEW x \in Subtree[m.content[j]] PROVE Clean(x)
    <3>1. ASSUME NEW i \in DOMAIN spec.content, m.content[j] = spec.content[i]
          PROVE  Clean(x)
      <4>1. x \in Subtree[spec]
        BY <1>2, <2>7, <3>1, SubtreeIs
      <4>2. QED
        BY <1>5, <4>1 DEF AllClean
    <3>2. ASSUME m.content[j] \in {Str("serviceName"), Str("zot")} PROVE Clean(x)
      <4>1. m.content[j] \in Trees /\ m.content[j].kind = "scalar"
        BY <2>3, <3>2, StrIs
      <4>2. QED
        BY <2>7, <4>1, ScalarIsClean
    <3>3. QED
      BY <2>5, <3>1, <3>2
  <2>8. QED
    BY <2>2, <2>6, <2>7, SubtreeIs DEF AllClean
<1>9. AllClean(NewRoot(root))
  BY <1>1, <1>2, <1>3, <1>4, <1>7, <1>8, PutIsClean
<1>10. QED
  BY <1>1, <1>3, <1>9, PutIsClean

-----------------------------------------------------------------------------
(* A mended document                                                       *)

Mend(d) == injectZotServiceName(quoteEmptyNilFields[d])

(* The first walk goes into the document's node.                           *)
LEMMA QuotedIs ==
    ASSUME NEW d \in Manifests
    PROVE  LET q == quoteEmptyNilFields[d]
           IN  /\ q \in Manifests /\ q.content[1] = quoteEmptyNilFields[d.content[1]]
               /\ IsZot(q.content[1]) <=> IsZot(d.content[1])
               /\ LacksServiceName(q.content[1]) <=> LacksServiceName(d.content[1])
<1> DEFINE q == quoteEmptyNilFields[d]
<1>1. d \in Trees /\ d.kind = "document" /\ d.content[1] \in Trees /\ 1 \in DOMAIN d.content
  BY DocumentIs
<1>2. q \in Trees /\ q.kind = "document"
  BY <1>1, QuoteIsTree, QuoteParts
<1>3. q.content[1] = QuoteAt(d, 1)
  BY <1>1, QuoteParts, TreesShape
<1>4. QuoteAt(d, 1) = quoteEmptyNilFields[d.content[1]]
  BY <1>1 DEF QuoteAt, IsField
<1>5. /\ IsZot(quoteEmptyNilFields[d.content[1]]) <=> IsZot(d.content[1])
      /\ LacksServiceName(quoteEmptyNilFields[d.content[1]]) <=> LacksServiceName(d.content[1])
  BY <1>1, QuoteKeeps, ZotKept
<1>6. QED
  BY <1>2, <1>3, <1>4, <1>5 DEF Manifests

(* What comes of a manifest is one.                                        *)
LEMMA MendGivesManifest == \A d \in Manifests : Mend(d) \in Manifests
BY QuotedIs, InjectGivesManifest DEF Mend

(* No field is left null in it,                                            *)
LEMMA MendCleans == \A d \in Manifests : AllClean(Mend(d))
<1> SUFFICES ASSUME NEW d \in Manifests PROVE AllClean(Mend(d))
  OBVIOUS
<1>1. AllClean(quoteEmptyNilFields[d])
  BY DocumentIs, QuoteCleansAll DEF AllClean
<1>2. QED
  BY <1>1, QuotedIs, InjectIsClean DEF Mend

(* a zot StatefulSet has one serviceName,                                  *)
HasOneServiceName(out1, in1) ==
    LET spec == mapValue(out1.content[1], "spec") IN
    IsZot(out1.content[1]) =>
      \E k \in DOMAIN spec.content :
        /\ KeysAt(spec, "serviceName") = {k}
        /\ LacksServiceName(in1.content[1]) =>
             \A r \in KeysAt(spec, "replicas") : r = k + 2

(* A zot StatefulSet has one after both walks, before the replicas.        *)
LEMMA MendGivesServiceName == \A d \in Manifests : HasOneServiceName(Mend(d), d)
<1> SUFFICES ASSUME NEW d \in Manifests PROVE HasOneServiceName(Mend(d), d)
  OBVIOUS
<1> DEFINE q == quoteEmptyNilFields[d]
           root == q.content[1]
           s == SpecAt(root)
           spec == root.content[s]
           a == insertAt(spec)
<1>1. /\ q \in Manifests /\ root \in Trees /\ 1 \in DOMAIN q.content /\ q \in Trees
      /\ LacksServiceName(root) <=> LacksServiceName(d.content[1])
  BY QuotedIs, DocumentIs
<1>2. Mend(d) = IF LacksServiceName(root) THEN Put(q, 1, NewRoot(root)) ELSE q
  BY <1>1, InjectIs DEF Mend
<1>3. CASE LacksServiceName(root)
  <2>1. /\ IsValue(root, s) /\ spec \in Trees /\ spec.kind = "mapping"
        /\ KeysAt(spec, "serviceName") = {} /\ root.kind = "mapping"
        /\ s \in DOMAIN root.content
    BY <1>1, <1>3, SpecIs DEF IsValue
  <2>2. NewSpec(root) \in Trees /\ NewRoot(root) \in Trees
    BY <1>1, <1>3, InjectIsTree
  <2> DEFINE m == NewSpec(root)
  <2>3. m = WithPair(spec, a) /\ NewRoot(root) = Put(root, s, m)
    BY DEF NewSpec, NewRoot
  <2>4. Mend(d).content[1] = NewRoot(root)
    BY <1>1, <1>2, <1>3, <2>2, PutParts
  <2>5. mapValue(NewRoot(root), "spec") = m
    <3>1. KeysAt(NewRoot(root), "spec") = KeysAt(root, "spec")
      BY <1>1, <2>1, <2>2, <2>3, PutKeepsKeys
    <3>2. KeysAt(root, "spec") # {}
      <4>1. mapValue(root, "spec") \in Trees
        BY <1>1, <1>3, <2>1, SpecIs
      <4>2. mapValue(root, "spec").kind \in Kinds
        BY <4>1, TreesShape DEF NodesOver
      <4>3. Nil.kind \notin Kinds
        BY DEF Nil, Node, Kinds
      <4>4. mapValue(root, "spec") # Nil
        BY <4>2, <4>3
      <4>5. QED
        BY <1>1, <4>4, NilIsNone
    <3>3. mapValue(NewRoot(root), "spec") = NewRoot(root).content[s]
      BY <3>1, <3>2 DEF mapValue, SpecAt
    <3>4. NewRoot(root).content[s] = m
      BY <1>1, <2>1, <2>2, <2>3, PutParts
    <3>5. QED
      BY <3>3, <3>4
  <2>6. /\ KeysAt(m, "serviceName") = {a}
        /\ \A r \in KeysAt(m, "replicas") : r = a + 2
    BY <2>1, <2>3, WithPairHasOne
  <2>7. a \in DOMAIN m.content
    BY <2>6 DEF KeysAt
  <2> HIDE DEF m, a
  <2>8. QED
    BY <2>4, <2>5, <2>6, <2>7 DEF HasOneServiceName
<1>4. CASE ~LacksServiceName(root)
  <2>1. Mend(d) = q
    BY <1>2, <1>4
  <2> DEFINE v == mapValue(root, "spec")
  <2>2. SUFFICES ASSUME IsZot(root)
                 PROVE  \E k \in DOMAIN v.content : KeysAt(v, "serviceName") = {k}
    BY <1>1, <1>4, <2>1 DEF HasOneServiceName
  <2>3. v.kind = "mapping" /\ mapValue(v, "serviceName") # Nil
    BY <1>4, <2>2 DEF LacksServiceName, IsZot
  <2>4. v # Nil
    <3>1. Nil.kind # "mapping"
      BY DEF Nil, Node
    <3> HIDE DEF v
    <3>2. QED
      BY <2>3, <3>1
  <2>5. v \in Trees
    BY <1>1, <2>4, NilIsNone
  <2> HIDE DEF v
  <2>6. KeysAt(v, "serviceName") # {}
    BY <2>3, <2>5, NilIsNone
  <2>7. QED
    BY <2>5, <2>6, KeyIsOne
<1>5. QED
  BY <1>3, <1>4

(* and the rest is what it was.                                            *)
OnlyMended(out1, in1) ==
    LET before == Struck[in1]
        spec   == Min(KeysAt(before.content[1], "spec")) + 1
    IN IF LacksServiceName(before.content[1])
       THEN \E at \in KeysAt(out1.content[1].content[spec], "serviceName") :
              Struck[out1] =
                [before EXCEPT !.content[1].content[spec].content = merged(@, at)]
       ELSE Struck[out1] = before

(* Both walks leave the rest of a manifest as it was.                      *)
LEMMA MendLeavesRest == \A d \in Manifests : OnlyMended(Mend(d), d)
<1> SUFFICES ASSUME NEW d \in Manifests PROVE OnlyMended(Mend(d), d)
  OBVIOUS
<1> DEFINE q == quoteEmptyNilFields[d]
           root == q.content[1]
           before == Struck[q]
           s == SpecAt(root)
           spec == root.content[s]
           a == insertAt(spec)
<1>1. /\ q \in Manifests /\ root \in Trees /\ 1 \in DOMAIN q.content /\ q \in Trees
      /\ IsValue(q, 1) /\ ~IsField(q, 1)
  BY QuotedIs, DocumentIs
<1>2. Mend(d) = IF LacksServiceName(root) THEN Put(q, 1, NewRoot(root)) ELSE q
  BY <1>1, InjectIs DEF Mend
<1>3. before = Struck[d]
  BY DocumentIs, QuoteIsStruck
<1>4. before.content[1] = Struck[root]
  <2>1. before.content[1] = StruckAt(q, 1)
    BY <1>1, StruckParts, TreesShape
  <2>2. QED
    BY <1>1, <2>1 DEF StruckAt
<1>5. LacksServiceName(Struck[root]) <=> LacksServiceName(root)
  BY <1>1, StruckKeeps, ZotKept
<1>6. KeysAt(Struck[root], "spec") = KeysAt(root, "spec")
  BY <1>1, StruckKeeps DEF KeepsKeys
<1>7. CASE ~LacksServiceName(root)
  BY <1>2, <1>3, <1>4, <1>5, <1>7 DEF OnlyMended
<1>8. CASE LacksServiceName(root)
  <2>1. /\ IsValue(root, s) /\ ~IsField(root, s) /\ spec \in Trees /\ spec.kind = "mapping"
        /\ KeysAt(spec, "serviceName") = {} /\ s \in DOMAIN root.content
    BY <1>1, <1>8, SpecIs DEF IsValue
  <2>2. NewSpec(root) \in Trees /\ NewRoot(root) \in Trees /\ Put(q, 1, NewRoot(root)) \in Trees
    BY <1>1, <1>8, InjectIsTree DEF Manifests
  <2> DEFINE m == NewSpec(root)
  <2>3. m = WithPair(spec, a) /\ NewRoot(root) = Put(root, s, m)
    BY DEF NewSpec, NewRoot
  <2>4. a \in 1 .. Len(spec.content) + 1 /\ a % 2 = 1
    BY <2>1, InsertAtIs
  <2>5. Struck[m] = WithPair(Struck[spec], a)
    BY <2>1, <2>2, <2>3, <2>4, WithPairIsStruck
  <2>6. Struck[NewRoot(root)] = Put(Struck[root], s, Struck[m])
    BY <1>1, <2>1, <2>2, <2>3, PutIsStruck
  <2>7. Struck[Put(q, 1, NewRoot(root))] = Put(before, 1, Struck[NewRoot(root)])
    BY <1>1, <2>2, PutIsStruck
  <2>8. Struck[root].content[s] = Struck[spec]
    <3>1. Struck[root].content[s] = StruckAt(root, s)
      BY <1>1, <2>1, StruckParts, TreesShape
    <3>2. QED
      BY <2>1, <3>1 DEF StruckAt
  <2>9. Min(KeysAt(before.content[1], "spec")) + 1 = s
    BY <1>4, <1>6 DEF SpecAt
  <2>10. Mend(d).content[1] = NewRoot(root)
    BY <1>1, <1>2, <1>8, <2>2, PutParts
  <2>11. Mend(d).content[1].content[s] = m
    BY <1>1, <2>1, <2>2, <2>3, <2>10, PutParts
  <2>12. a \in KeysAt(m, "serviceName")
    BY <2>1, <2>3, WithPairHasOne
  <2>13. [before EXCEPT !.content[1].content[s].content = merged(@, a)]
           = Put(before, 1, Put(before.content[1], s, WithPair(before.content[1].content[s], a)))
    <3> HIDE DEF before, root, s, spec, a
    <3>1. QED
      BY Nested
  <2>14. Struck[Mend(d)] = [before EXCEPT !.content[1].content[s].content = merged(@, a)]
    <3>1. Struck[Mend(d)] = Put(before, 1, Put(Struck[root], s, WithPair(Struck[spec], a)))
      BY <1>2, <1>8, <2>5, <2>6, <2>7
    <3>2. before.content[1].content[s] = Struck[spec]
      BY <1>4, <2>8
    <3> HIDE DEF before, root, s, spec, a
    <3>3. QED
      BY <1>4, <2>13, <3>1, <3>2
  <2> HIDE DEF before, s, m, a, root, spec
  <2>15. QED
    BY <1>3, <1>4, <1>5, <1>8, <2>9, <2>11, <2>12, <2>14 DEF OnlyMended
<1>9. QED
  BY <1>7, <1>8

-----------------------------------------------------------------------------
(* The stream                                                              *)

KeptDef(f, k) ==
    IF k = 0 THEN <<>>
    ELSE IF input[k] = Nothing THEN f[k - 1] ELSE Append(f[k - 1], input[k])

KeptRec == INSTANCE Recursion WITH N <- Len(input), Level <- UpTo, Def <- KeptDef

(* A stream is a sequence of documents, empty ones and malformed ones.     *)
LEMMA StreamsAre ==
    ASSUME input \in Streams
    PROVE  /\ input \in Seq(Manifests \cup {Nothing, Malformed}) /\ Len(input) \in Nat
           /\ \A i \in 1 .. Len(input) : input[i] \in Manifests \cup {Nothing, Malformed}
<1>1. input \in Seq(Manifests \cup {Nothing, Malformed})
  BY Zenon, PostRenderAssumption
<1>2. QED
  BY <1>1

(* What is kept of the documents is what the definition says.              *)
LEMMA KeptIs ==
    ASSUME input \in Streams
    PROVE  /\ Kept[0] = <<>>
           /\ \A k \in 0 .. Len(input) - 1 :
                Kept[k + 1] = IF input[k + 1] = Nothing THEN Kept[k]
                              ELSE Append(Kept[k], input[k + 1])
<1>1. Len(input) \in Nat
  BY StreamsAre
<1>2. KeptRec!Grows
  BY <1>1 DEF KeptRec!Grows, UpTo
<1>3. KeptRec!Descends
  <2>1. \A f, g : \A k \in UpTo(0) : KeptDef(f, k) = KeptDef(g, k)
    BY DEF UpTo, KeptDef
  <2>2. \A f, g : \A k \in 0 .. Len(input) - 1 :
          (\A e \in UpTo(k) : f[e] = g[e]) =>
             \A d \in UpTo(k + 1) : KeptDef(f, d) = KeptDef(g, d)
    <3> SUFFICES ASSUME NEW f, NEW g, NEW k \in 0 .. Len(input) - 1,
                        \A e \in UpTo(k) : f[e] = g[e], NEW d \in UpTo(k + 1)
                 PROVE  KeptDef(f, d) = KeptDef(g, d)
      OBVIOUS
    <3>1. d # 0 => f[d - 1] = g[d - 1]
      BY <1>1 DEF UpTo
    <3>2. QED
      BY <3>1 DEF KeptDef
  <2>3. \A f, g :
          /\ \A k \in UpTo(0) : KeptDef(f, k) = KeptDef(g, k)
          /\ \A k \in 0 .. Len(input) - 1 :
               (\A e \in UpTo(k) : f[e] = g[e]) =>
                  \A d \in UpTo(k + 1) : KeptDef(f, d) = KeptDef(g, d)
    BY <2>1, <2>2
  <2>4. QED
    BY <2>3 DEF KeptRec!Descends
<1>4. \E f : f = [k \in UpTo(Len(input)) |-> KeptDef(f, k)]
  BY <1>1, <1>2, <1>3, KeptRec!Exists
<1>5. \E f : f = [k \in 0 .. Len(input) |-> KeptDef(f, k)]
  BY <1>4 DEF UpTo
<1>6. Kept = CHOOSE f : f = [k \in 0 .. Len(input) |-> KeptDef(f, k)]
  BY DEF Kept, KeptDef
<1>7. Kept = [k \in 0 .. Len(input) |-> KeptDef(Kept, k)]
  BY <1>5, <1>6
<1>8. \A k \in 0 .. Len(input) : Kept[k] = KeptDef(Kept, k)
  BY <1>7
<1>9. Kept[0] = <<>>
  BY <1>1, <1>8 DEF KeptDef
<1>10. ASSUME NEW k \in 0 .. Len(input) - 1
       PROVE  Kept[k + 1] = IF input[k + 1] = Nothing THEN Kept[k]
                            ELSE Append(Kept[k], input[k + 1])
  <2>1. k + 1 \in 0 .. Len(input) /\ k + 1 # 0 /\ (k + 1) - 1 = k
    BY <1>1
  <2>2. Kept[k + 1] = KeptDef(Kept, k + 1)
    BY <1>8, <2>1
  <2>3. QED
    BY <2>1, <2>2 DEF KeptDef
<1>11. QED
  BY <1>9, <1>10

(* What was decoded is mended and in its order, and it is handed on when   *)
(* the stream has been read to its end.                                    *)
MendedInv ==
    /\ \A i \in 1 .. read : input[i] # Malformed
    /\ Kept[read] \in Seq(Manifests)
    /\ Len(docs) = Len(Kept[read])
    /\ \A i \in 1 .. Len(docs) : docs[i] = Mend(Kept[read][i])

OutInv ==
    /\ verdict # "ok" => out = <<>>
    /\ verdict = "ok" => read = Len(input) /\ out = docs

IInv == TypeOK /\ MendedInv /\ OutInv

(* The inductive invariant holds before the first Decode (fixnil.go:43-49) *)
THEOREM InitInv == Init => IInv
<1> SUFFICES ASSUME Init PROVE IInv
  OBVIOUS
<1>1. input \in Streams /\ Len(input) \in Nat
  BY StreamsAre DEF Init
<1>2. <<>> \in Seq(Manifests) /\ read = 0 /\ docs = <<>> /\ out = <<>> /\ verdict = "none"
  BY DEF Init
<1>3. TypeOK
  BY <1>1, <1>2 DEF TypeOK
<1>4. Kept[read] = <<>>
  BY <1>1, <1>2, KeptIs
<1>5. MendedInv
  BY <1>2, <1>4 DEF MendedInv
<1>6. OutInv
  BY <1>2 DEF OutInv
<1>7. QED
  BY <1>3, <1>5, <1>6 DEF IInv

(* What is kept depends on the input alone.                                *)
LEMMA KeptStays == input' = input => Kept' = Kept
BY DEF Kept

(* and Decode, DecodeFails and Encode keep it (fixnil.go:50-85).           *)
THEOREM NextInv == IInv /\ [Next]_vars => IInv'
<1> SUFFICES ASSUME IInv, [Next]_vars PROVE IInv'
  OBVIOUS
<1>1. /\ input \in Streams /\ Len(input) \in Nat
      /\ read \in 0 .. Len(input) /\ docs \in Seq(Manifests) /\ out \in Seq(Manifests)
      /\ verdict \in {"none", "ok", "error"}
  BY StreamsAre DEF IInv, TypeOK
<1>2. input' = input /\ Kept' = Kept
  <2>1. input' = input
    BY DEF Next, Decode, DecodeFails, Encode, vars
  <2>2. QED
    BY <2>1, KeptStays
<1>3. CASE Decode
  <2>1. /\ verdict = "none" /\ read < Len(input) /\ doc # Malformed /\ read' = read + 1
        /\ docs' = IF doc = Nothing THEN docs ELSE Append(docs, Mend(doc))
        /\ out' = out /\ verdict' = verdict
    BY <1>3 DEF Decode, Running, Mend
  <2>2. /\ read + 1 \in 1 .. Len(input) /\ read \in 0 .. Len(input) - 1
        /\ doc = input[read + 1]
    BY <1>1, <2>1 DEF doc
  <2>3. /\ doc = Nothing => Kept[read + 1] = Kept[read]
        /\ doc # Nothing => Kept[read + 1] = Append(Kept[read], doc)
    BY <1>1, <2>2, KeptIs
  <2>4. doc # Nothing => doc \in Manifests /\ Mend(doc) \in Manifests
    BY <1>1, <2>1, <2>2, StreamsAre, MendGivesManifest
  <2>5. /\ Kept[read] \in Seq(Manifests) /\ Len(docs) = Len(Kept[read])
        /\ \A i \in 1 .. Len(docs) : docs[i] = Mend(Kept[read][i])
        /\ \A i \in 1 .. read : input[i] # Malformed
    BY DEF IInv, MendedInv
  <2>6. TypeOK'
    <3>1. docs' \in Seq(Manifests)
      BY <1>1, <2>1, <2>4
    <3>2. QED
      BY <1>1, <1>2, <2>1, <2>2, <3>1 DEF TypeOK
  <2>7. MendedInv'
    <3>1. \A i \in 1 .. read' : input'[i] # Malformed
      BY <1>1, <1>2, <2>1, <2>2, <2>5
    <3>2. CASE doc = Nothing
      BY <1>2, <2>1, <2>3, <2>5, <3>1, <3>2 DEF MendedInv
    <3>3. CASE doc # Nothing
      <4> DEFINE kept == Kept[read]
                 d == doc
      <4>1. /\ Append(kept, d) \in Seq(Manifests) /\ Len(Append(kept, d)) = Len(kept) + 1
            /\ \A i \in 1 .. Len(kept) : Append(kept, d)[i] = kept[i]
            /\ Append(kept, d)[Len(kept) + 1] = d
        BY <2>4, <2>5, <3>3, AppendProperties
      <4>2. /\ Len(Append(docs, Mend(d))) = Len(docs) + 1
            /\ \A i \in 1 .. Len(docs) : Append(docs, Mend(d))[i] = docs[i]
            /\ Append(docs, Mend(d))[Len(docs) + 1] = Mend(d)
        BY <1>1, <2>4, <3>3, AppendProperties
      <4>3. /\ Kept'[read'] = Append(kept, d) /\ docs' = Append(docs, Mend(d))
            /\ Len(docs) \in Nat /\ Len(kept) = Len(docs)
            /\ \A i \in 1 .. Len(docs) : docs[i] = Mend(kept[i])
        <5>1. Kept'[read'] = Append(kept, d)
          BY <1>2, <2>1, <2>3, <3>3
        <5>2. docs' = Append(docs, Mend(d))
          BY <2>1, <3>3
        <5>3. Len(docs) \in Nat
          BY <1>1
        <5>4. Len(kept) = Len(docs) /\ \A i \in 1 .. Len(docs) : docs[i] = Mend(kept[i])
          BY <2>5
        <5>5. QED
          BY <5>1, <5>2, <5>3, <5>4
      <4> HIDE DEF kept, d
      <4>4. \A i \in 1 .. Len(docs) + 1 : docs'[i] = Mend(Append(kept, d)[i])
        BY <4>1, <4>2, <4>3
      <4>5. QED
        BY <3>1, <4>1, <4>2, <4>3, <4>4 DEF MendedInv
    <3>4. QED
      BY <3>2, <3>3
  <2>8. OutInv'
    BY <2>1 DEF IInv, OutInv
  <2>9. QED
    BY <2>6, <2>7, <2>8 DEF IInv
<1>4. ASSUME UNCHANGED <<read, docs>>,
             \/ UNCHANGED <<out, verdict>>
             \/ verdict = "none" /\ verdict' = "error" /\ out' = out
             \/ verdict = "none" /\ verdict' = "ok" /\ out' = docs /\ read = Len(input)
      PROVE  IInv'
  <2>1. TypeOK'
    BY <1>1, <1>2, <1>4 DEF TypeOK
  <2>2. MendedInv'
    BY <1>2, <1>4 DEF IInv, MendedInv
  <2>3. OutInv'
    BY <1>2, <1>4 DEF IInv, OutInv
  <2>4. QED
    BY <2>1, <2>2, <2>3 DEF IInv
<1>5. CASE DecodeFails
  BY <1>4, <1>5 DEF DecodeFails, Running
<1>6. CASE Encode
  BY <1>4, <1>6 DEF Encode, Running
<1>7. CASE UNCHANGED vars
  BY <1>4, <1>7 DEF vars
<1>8. QED
  BY <1>3, <1>5, <1>6, <1>7 DEF Next

(* So it holds all through Run.                                            *)
THEOREM InvHolds == Spec => []IInv
<1>1. QED
  BY InitInv, NextInv, PTL DEF Spec

(* Only documents are handed to Helm, each of them a well-formed node.     *)
THEOREM TypeCorrect == Spec => []TypeOK
<1>1. IInv => TypeOK
  BY DEF IInv
<1>2. QED
  BY <1>1, InvHolds, PTL

(* A document that comes out is the mended one of its place.               *)
LEMMA OutIsMended ==
    ASSUME IInv
    PROVE  /\ verdict = "ok" => Len(out) = Len(Documents)
           /\ \A i \in DOMAIN out :
                Documents[i] \in Manifests /\ out[i] = Mend(Documents[i])
<1>1. /\ input \in Streams /\ Len(input) \in Nat
      /\ docs \in Seq(Manifests) /\ out \in Seq(Manifests)
  BY StreamsAre DEF IInv, TypeOK
<1>2. CASE verdict = "ok"
  <2>1. /\ Documents = Kept[read] /\ out = docs
        /\ Kept[read] \in Seq(Manifests) /\ Len(docs) = Len(Kept[read])
        /\ \A i \in 1 .. Len(docs) : docs[i] = Mend(Kept[read][i])
    BY <1>2 DEF IInv, MendedInv, OutInv, Documents
  <2>2. DOMAIN docs = 1 .. Len(docs) /\ DOMAIN docs = 1 .. Len(Kept[read])
    BY <1>1, <2>1
  <2>3. \A i \in 1 .. Len(Kept[read]) : Kept[read][i] \in Manifests
    BY <2>1
  <2>4. QED
    BY <2>1, <2>2, <2>3
<1>3. CASE verdict # "ok"
  BY <1>3 DEF IInv, OutInv
<1>4. QED
  BY <1>2, <1>3

(* fixnil.go:91-109: no field the API server rejects is left null, at any  *)
(* depth of any chart's manifests.                                         *)
THEOREM NoFieldIsNil == Spec => []NoNilFields
<1>1. IInv => NoNilFields
  <2> SUFFICES ASSUME IInv, NEW i \in DOMAIN out PROVE AllClean(out[i])
    BY DEF NoNilFields, AllClean, Clean
  <2>1. QED
    BY OutIsMended, MendCleans
<1>2. QED
  BY <1>1, InvHolds, PTL

(* fixnil.go:119-158: a zot StatefulSet that comes out has one serviceName,*)
(* its own or the one injected before its replicas.                        *)
THEOREM OneServiceName == Spec => []ZotHasOneServiceName
<1>1. IInv => ZotHasOneServiceName
  <2> SUFFICES ASSUME IInv, NEW i \in DOMAIN out
               PROVE  HasOneServiceName(out[i], Documents[i])
    BY DEF ZotHasOneServiceName, HasOneServiceName
  <2>1. QED
    BY OutIsMended, MendGivesServiceName
<1>2. QED
  BY <1>1, InvHolds, PTL

(* fixnil.go:50-85: documents come out in their order, each changed in its *)
(* nil fields and the one injected pair only.                              *)
THEOREM RestIsLeftAlone == Spec => []RestIsUntouched
<1>1. IInv => RestIsUntouched
  <2> SUFFICES ASSUME IInv, verdict = "ok"
               PROVE  /\ Len(out) = Len(Documents)
                      /\ \A i \in DOMAIN out : OnlyMended(out[i], Documents[i])
    BY DEF RestIsUntouched, OnlyMended
  <2>1. QED
    BY OutIsMended, MendLeavesRest
<1>2. QED
  BY <1>1, InvHolds, PTL

(* fixnil.go:55-58: what was read before a parse error is not handed on.   *)
THEOREM AllOrNothing == Spec => []NothingOnError
<1>1. IInv => NothingOnError
  <2> SUFFICES ASSUME IInv, out # <<>>
               PROVE  verdict # "error" /\ Malformed \notin {input[i] : i \in DOMAIN input}
    BY DEF NothingOnError
  <2>1. verdict = "ok" /\ read = Len(input)
    BY DEF IInv, OutInv
  <2>2. DOMAIN input = 1 .. Len(input)
    BY StreamsAre DEF IInv, TypeOK
  <2>3. QED
    BY <2>1, <2>2 DEF IInv, MendedInv
<1>2. QED
  BY <1>1, InvHolds, PTL
=============================================================================
