----------------------------- MODULE Recursion -----------------------------
(***************************************************************************)
(* A function defined by recursion is what its equation says.  Of a        *)
(* definition f[x \in S] == Def(f, x) only a CHOOSE is known; the theorem  *)
(* RecursionDefines shows that there is such a function whenever Def looks *)
(* at f on smaller arguments only.  Size says what is smaller.             *)
(*                                                                         *)
(* The theorems of the library on induction take the property as a         *)
(* parameter, which the provers cannot give a value.  Here the property is *)
(* a set, and what is defined by recursion is a parameter of the module:   *)
(* the module is instantiated once for each recursive function.            *)
(***************************************************************************)
EXTENDS Integers, WellFoundedInduction, TLAPS

CONSTANTS S,          \* the domain
          Size(_),    \* what decreases
          Def(_, _)   \* of the function and an argument: the value

-----------------------------------------------------------------------------
(* Induction over the natural numbers. *)

\* Every set of natural numbers but the empty one has a least element.
LEMMA Least ==
  ASSUME NEW T, T \subseteq Nat, T # {}
  PROVE  \E n \in T : \A m \in T : n <= m
<1> DEFINE R == OpToRel(<, Nat)
<1>1. IsWellFoundedOn(R, Nat)
  BY NatLessThanWellFounded
<1>2. \A x, y \in Nat : x < y => << x, y >> \in R
  BY DEF OpToRel
<1> HIDE DEF R
<1>3. PICK n \in T : \A m \in T : ~ (<< m, n >> \in R)
  BY <1>1, WFMin, Zenon
<1>4. \A m \in T : ~ (m < n)
  BY <1>2, <1>3
<1> QED
  BY <1>4

LEMMA Induction ==
  ASSUME NEW T, 0 \in T, \A n \in Nat : n \in T => n + 1 \in T
  PROVE  \A n \in Nat : n \in T
<1> SUFFICES ASSUME Nat \ T # {} PROVE FALSE
  OBVIOUS
<1>1. PICK n \in Nat \ T : \A m \in Nat \ T : n <= m
  BY Least
<1> QED
  BY <1>1

LEMMA StrongInduction ==
  ASSUME NEW T, \A n \in Nat : (\A m \in 0 .. n - 1 : m \in T) => n \in T
  PROVE  \A n \in Nat : n \in T
<1> SUFFICES ASSUME Nat \ T # {} PROVE FALSE
  OBVIOUS
<1>1. PICK n \in Nat \ T : \A m \in Nat \ T : n <= m
  BY Least
<1> QED
  BY <1>1

\* A set of natural numbers with a bound has a greatest element.
LEMMA Greatest ==
  ASSUME NEW m \in Nat, NEW T, T \subseteq 0 .. m, T # {}
  PROVE  \E x \in T : \A y \in T : y <= x
<1> DEFINE D == {m - x : x \in T}
<1>1. D \subseteq Nat /\ D # {}
  <2>1. \A x \in T : m - x \in Nat
    OBVIOUS
  <2>2. PICK x \in T : TRUE
    OBVIOUS
  <2>3. m - x \in D
    OBVIOUS
  <2> QED
    BY <2>1, <2>3, Zenon
<1>2. PICK n \in D : \A k \in D : n <= k
  <2> HIDE DEF D
  <2> QED
    BY <1>1, Least
<1>3. m - n \in T /\ n \in Int
  BY <1>2
<1>4. \A y \in T : m - y >= n
  BY <1>2
<1> QED
  BY <1>3, <1>4

-----------------------------------------------------------------------------
(* The function: it is put together from those on the arguments up to a size. *)

UpTo(k) == {x \in S : Size(x) <= k}
Defined(g, k) == \A x \in UpTo(k) : g[x] = Def(g, x)
Sized == \A x \in S : Size(x) \in Nat
LooksDown == \A g, h : \A x \in S :
               (\A y \in S : Size(y) < Size(x) => g[y] = h[y]) => Def(g, x) = Def(h, x)

LEMMA SameBelow ==
  ASSUME Sized, LooksDown, NEW j \in Nat, NEW k \in Nat, j <= k,
         NEW g, NEW h, Defined(g, j), Defined(h, k)
  PROVE  \A x \in UpTo(j) : g[x] = h[x]
<1> DEFINE T == {n \in Nat : \A x \in UpTo(j) : Size(x) = n => g[x] = h[x]}
<1>1. ASSUME NEW n \in Nat, \A m \in 0 .. n - 1 : m \in T
      PROVE  n \in T
  <2> SUFFICES ASSUME NEW x \in UpTo(j), Size(x) = n PROVE g[x] = h[x]
    OBVIOUS
  <2>1. x \in S /\ x \in UpTo(k) /\ Size(x) \in Nat
    BY DEF UpTo, Sized
  <2>2. ASSUME NEW y \in S, Size(y) < Size(x) PROVE g[y] = h[y]
    <3>1. Size(y) \in 0 .. n - 1 /\ y \in UpTo(j)
      BY <2>1, <2>2 DEF Sized, UpTo
    <3> QED
      BY <3>1, <1>1
  <2>3. Def(g, x) = Def(h, x)
    BY <2>1, <2>2 DEF LooksDown
  <2> QED
    BY <2>1, <2>3 DEF Defined
<1> HIDE DEF T
<1>2. \A n \in Nat : n \in T
  BY <1>1, StrongInduction
<1> QED
  BY <1>2 DEF T, UpTo, Sized

LEMMA DefinedUpTo ==
  ASSUME Sized, LooksDown
  PROVE  \A k \in Nat : \E g : Defined(g, k)
<1> DEFINE T == {k \in Nat : \E g : Defined(g, k)}
<1>0. ASSUME NEW k \in Nat, NEW g, \A x \in S : Size(x) < k => g[x] = Def(g, x)
      PROVE  \E h : Defined(h, k)
  <2> DEFINE h == [x \in S |-> IF Size(x) < k THEN g[x] ELSE Def(g, x)]
  <2>1. ASSUME NEW x \in UpTo(k) PROVE h[x] = Def(h, x)
    <3>1. x \in S /\ Size(x) \in Nat /\ Size(x) <= k
      BY DEF UpTo, Sized
    <3>2. \A y \in S : Size(y) < Size(x) => h[y] = g[y]
      BY <3>1 DEF Sized
    <3>3. h[x] = Def(g, x)
      BY <3>1, <1>0
    <3> HIDE DEF h
    <3> QED
      BY <3>1, <3>2, <3>3 DEF LooksDown
  <2> QED
    BY <2>1 DEF Defined
<1>1. 0 \in T
  BY <1>0 DEF Sized
<1>2. ASSUME NEW k \in Nat, k \in T PROVE k + 1 \in T
  BY <1>0, <1>2 DEF Defined, UpTo, Sized
<1> HIDE DEF T
<1>3. \A k \in Nat : k \in T
  BY <1>1, <1>2, Induction
<1> QED
  BY <1>3 DEF T

\* If the values of a recursive definition depend on smaller arguments only, there is
\* a function with these values.
THEOREM RecursionDefines ==
  ASSUME Sized, LooksDown
  PROVE  \E f : f = [x \in S |-> Def(f, x)]
<1> DEFINE G(k) == CHOOSE g : Defined(g, k)
           f == [x \in S |-> G(Size(x))[x]]
<1>1. \A k \in Nat : Defined(G(k), k)
  BY DefinedUpTo
<1> HIDE DEF G
<1>2. ASSUME NEW x \in S PROVE f[x] = Def(f, x)
  <2>1. Size(x) \in Nat /\ x \in UpTo(Size(x))
    BY DEF Sized, UpTo
  <2>2. f[x] = Def(G(Size(x)), x)
    BY <1>1, <2>1 DEF Defined
  <2>3. ASSUME NEW y \in S, Size(y) < Size(x) PROVE G(Size(x))[y] = f[y]
    <3>1. Size(y) \in Nat /\ y \in UpTo(Size(y))
      BY DEF Sized, UpTo
    <3> QED
      BY <1>1, <2>1, <2>3, <3>1, SameBelow
  <2> HIDE DEF f
  <2>4. Def(G(Size(x)), x) = Def(f, x)
    BY <2>3 DEF LooksDown
  <2> QED
    BY <2>2, <2>4
<1>3. f = [x \in S |-> f[x]]
  OBVIOUS
<1> HIDE DEF f
<1>4. f = [x \in S |-> Def(f, x)]
  BY <1>2, <1>3
<1> QED
  BY <1>4
=============================================================================
