----------------------------- MODULE Recursion -----------------------------
(***************************************************************************)
(* Induction on the natural numbers, and what it gives for a recursive     *)
(* definition f[x] == Def(f, x) over a set that comes in levels: the       *)
(* function exists, when Def asks f for elements of lower levels only.     *)
(* Instances name the levels and the definition.                           *)
(***************************************************************************)
EXTENDS Naturals, WellFoundedInduction, TLAPS

CONSTANTS
    N,          \* the highest level
    Level(_),   \* the elements of a level and of those below it
    Def(_, _)   \* what the function is at an element, from the function

(* A set of numbers that is not empty has a least element.                 *)
LEMMA NatMin ==
    ASSUME NEW T \in SUBSET Nat, T # {}
    PROVE  \E x \in T : \A y \in T : x <= y
<1> DEFINE R == OpToRel(<, Nat)
<1>1. IsWellFoundedOn(R, Nat)
  BY NatLessThanWellFounded
<1>2. \A x, y \in Nat : <<y, x>> \in R <=> y < x
  BY DEF OpToRel
<1> HIDE DEF R
<1>3. PICK x \in T : \A y \in T : <<y, x>> \notin R
  BY <1>1, WFMin
<1>4. ASSUME NEW y \in T PROVE x <= y
  <2>1. x \in Nat /\ y \in Nat /\ ~(y < x)
    BY <1>2, <1>3
  <2>2. QED
    BY <2>1
<1>5. QED
  BY <1>3, <1>4

(* Induction, with a set in the place of the predicate.                    *)
LEMMA SetInduction ==
    ASSUME NEW S, 0 \in S, \A n \in Nat : n \in S => n + 1 \in S
    PROVE  Nat \subseteq S
<1> SUFFICES ASSUME Nat \ S # {} PROVE FALSE
  OBVIOUS
<1>1. PICK x \in Nat \ S : \A y \in Nat \ S : x <= y
  BY NatMin
<1>2. x # 0 /\ x - 1 \in Nat /\ x - 1 \in S
  BY <1>1
<1>3. QED
  BY <1>1, <1>2

-----------------------------------------------------------------------------

Grows == \A k \in 0 .. N - 1 : Level(k) \subseteq Level(k + 1)

(* At a level Def asks only what the function is at lower ones.            *)
Descends ==
    \A f, g :
      /\ \A x \in Level(0) : Def(f, x) = Def(g, x)
      /\ \A k \in 0 .. N - 1 :
           (\A y \in Level(k) : f[y] = g[y]) =>
              \A x \in Level(k + 1) : Def(f, x) = Def(g, x)

(* Then there is such a function, built up level by level.                 *)
THEOREM Exists ==
    ASSUME N \in Nat, Grows, Descends
    PROVE  \E f : f = [x \in Level(N) |-> Def(f, x)]
<1> DEFINE Good(k) == \E f : f = [x \in Level(k) |-> Def(f, x)]
           S == {k \in Nat : k <= N => Good(k)}
<1>1. 0 \in S
  <2> DEFINE f == [x \in Level(0) |-> Def(0, x)]
  <2> HIDE DEF f
  <2>1. \A x \in Level(0) : Def(0, x) = Def(f, x)
    BY DEF Descends
  <2>2. f = [x \in Level(0) |-> Def(f, x)]
    BY <2>1 DEF f
  <2>3. QED
    BY <2>2
<1>2. ASSUME NEW k \in Nat, k \in S, k + 1 <= N PROVE Good(k + 1)
  <2>1. PICK g : g = [x \in Level(k) |-> Def(g, x)]
    BY <1>2
  <2> DEFINE f == [x \in Level(k + 1) |-> Def(g, x)]
  <2>2. k \in 0 .. N - 1
    BY <1>2
  <2>3. \A y \in Level(k) : f[y] = g[y]
    <3>1. Level(k) \subseteq Level(k + 1)
      BY <2>2 DEF Grows
    <3>2. \A y \in Level(k) : g[y] = Def(g, y)
      BY <2>1
    <3>3. QED
      BY <3>1, <3>2
  <2> HIDE DEF f
  <2>4. \A x \in Level(k + 1) : Def(g, x) = Def(f, x)
    BY <2>2, <2>3 DEF Descends
  <2>5. f = [x \in Level(k + 1) |-> Def(f, x)]
    BY <2>4 DEF f
  <2>6. QED
    BY <2>5
<1>3. \A n \in Nat : n \in S => n + 1 \in S
  BY <1>2
<1> HIDE DEF S
<1>4. N \in S
  BY <1>1, <1>3, SetInduction
<1>5. QED
  BY <1>4 DEF S
=============================================================================
