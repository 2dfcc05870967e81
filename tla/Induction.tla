----------------------------- MODULE Induction -----------------------------
(***************************************************************************)
(* Induction over the natural numbers in a form that needs no operator as  *)
(* a parameter: a set of numbers has a least element, and a set that       *)
(* contains 0 and with k also k + 1 contains 0 .. n.  The proofs about      *)
(* queues, tables and counters of the kernel cite it with the set of the   *)
(* numbers for which the claim holds.  The last part states what push,     *)
(* remove and indexing do to a vector (Rust's Vec and VecDeque).           *)
(***************************************************************************)
EXTENDS Integers, Sequences, WellFoundedInduction, TLAPS

\* The order on the natural numbers is well-founded.
LEMMA Least ==
  ASSUME NEW T \in SUBSET Nat, T # {}
  PROVE  \E x \in T : \A y \in T : x <= y
<1> DEFINE R == OpToRel(<, Nat)
<1>1. IsWellFoundedOn(R, Nat)
  BY Zenon, NatLessThanWellFounded
<1>2. \A p, q \in Nat : <<p, q>> \in R <=> p < q
  BY DEF OpToRel
<1> HIDE DEF R
<1>3. PICK x \in T : \A y \in T : <<y, x>> \notin R
  BY Zenon, <1>1, WFMin
<1>4. \A y \in T : ~(y < x)
  BY Zenon, <1>2, <1>3
<1>5. \A y \in T : x <= y
  BY <1>4
<1> QED BY <1>5

\* Of the tasks, slots or positions below a bound that satisfy a condition one is last.
LEMMA Greatest ==
  ASSUME NEW n \in Nat, NEW T \in SUBSET (0 .. n), T # {}
  PROVE  \E x \in T : \A y \in T : y <= x
<1> DEFINE U == {k \in 0 .. n : n - k \in T}
<1>1. U \in SUBSET Nat
  OBVIOUS
<1>2. U # {}
  <2>1. PICK t \in T : TRUE
    BY Zenon
  <2>2. n - t \in 0 .. n /\ n - (n - t) = t
    OBVIOUS
  <2> QED BY Zenon, <2>1, <2>2
<1> HIDE DEF U
<1>3. PICK x \in U : \A y \in U : x <= y
  BY <1>1, <1>2, Least
<1> USE DEF U
<1>4. n - x \in T /\ x \in 0 .. n
  OBVIOUS
<1>5. \A y \in T : n - y \in U
  <2> TAKE y \in T
  <2>1. n - y \in 0 .. n /\ n - (n - y) = y
    OBVIOUS
  <2> QED BY <2>1
<1>6. \A y \in T : y <= n - x
  BY <1>3, <1>4, <1>5
<1> QED BY <1>4, <1>6

\* Induction up to n.
LEMMA SetInduction ==
  ASSUME NEW n \in Nat, NEW S, 0 \in S, \A k \in 0 .. (n - 1) : k \in S => k + 1 \in S
  PROVE  0 .. n \subseteq S
<1> SUFFICES ASSUME ~(0 .. n \subseteq S) PROVE FALSE
  OBVIOUS
<1> DEFINE T == {k \in 0 .. n : k \notin S}
<1>1. T \in SUBSET Nat /\ T # {}
  OBVIOUS
<1>2. PICK x \in T : \A y \in T : x <= y
  BY Zenon, <1>1, Least
<1>3. x # 0
  OBVIOUS
<1>4. x - 1 \in 0 .. (n - 1) /\ x - 1 \notin T
  BY <1>2, <1>3
<1> QED BY <1>4

\* f starts with x and goes on as the functions F say.
Iterates(f, n, S, x, F) ==
  /\ f \in [0 .. n -> S] /\ f[0] = x
  /\ \A i \in 1 .. n : f[i] = F[i][f[i - 1]]

\* A function may be defined from its value at 0 and what each step makes of the
\* value before: the recursive functions of the model (the retain loops over
\* queues and tables) have the values their definitions say.
LEMMA Iteration ==
  ASSUME NEW n \in Nat, NEW S, NEW x \in S, NEW F \in [1 .. n -> [S -> S]]
  PROVE  \E f : Iterates(f, n, S, x, F)
<1> DEFINE Upto(k) == \E f \in [0 .. k -> S] : f[0] = x /\ \A i \in 1 .. k : f[i] = F[i][f[i - 1]]
           T == {k \in 0 .. n : Upto(k)}
<1>1. 0 \in T
  <2> DEFINE g == [i \in 0 .. 0 |-> x]
  <2>1. g \in [0 .. 0 -> S] /\ g[0] = x
    OBVIOUS
  <2>2. \A i \in 1 .. 0 : FALSE
    OBVIOUS
  <2> HIDE DEF g
  <2>3. Upto(0)
    BY Zenon, <2>1, <2>2
  <2> QED BY <2>3
<1>2. ASSUME NEW k \in 0 .. (n - 1), k \in T
      PROVE  k + 1 \in T
  <2>1. PICK f \in [0 .. k -> S] : f[0] = x /\ \A i \in 1 .. k : f[i] = F[i][f[i - 1]]
    BY <1>2
  <2> DEFINE g == [i \in 0 .. (k + 1) |-> IF i <= k THEN f[i] ELSE F[k + 1][f[k]]]
  <2>2. k + 1 \in 1 .. n /\ f[k] \in S
    BY <2>1
  <2>3. g \in [0 .. (k + 1) -> S]
    BY <2>1, <2>2
  <2>4. g[0] = x
    BY <2>1
  <2>5. ASSUME NEW i \in 1 .. (k + 1) PROVE g[i] = F[i][g[i - 1]]
    <3>1. CASE i <= k BY <2>1, <3>1
    <3>2. CASE i = k + 1 BY <2>1, <3>2
    <3> QED BY <3>1, <3>2
  <2>6. Upto(k + 1)
    BY Zenon, <2>3, <2>4, <2>5
  <2> QED BY <2>2, <2>6
<1> HIDE DEF T
<1>3. 0 .. n \subseteq T
  BY Zenon, <1>1, <1>2, SetInduction
<1> USE DEF T
<1>4. Upto(n)
  BY <1>3
<1> QED BY <1>4 DEF Iterates
-----------------------------------------------------------------------------
\* What is at a position of a queue or table.
LEMMA SeqElement == ASSUME NEW S, NEW q \in Seq(S), NEW n \in 1 .. Len(q) PROVE q[n] \in S
  OBVIOUS

\* A queue or table that is made empty.
LEMMA SeqEmpty ==
    ASSUME NEW S
    PROVE  /\ <<>> \in Seq(S) /\ Len(<<>>) = 0
           /\ \A q \in Seq(S) : q # <<>> => Len(q) \in Nat \ {0}
  OBVIOUS

\* The length of a queue or table.
LEMMA SeqLength ==
    ASSUME NEW S, NEW q \in Seq(S)
    PROVE  Len(q) \in Nat /\ q \in [1 .. Len(q) -> S] /\ DOMAIN q = 1 .. Len(q)
  OBVIOUS

\* Two queues with the same length and the same entries.
LEMMA SeqEquals ==
    ASSUME NEW S, NEW q \in Seq(S), NEW r \in Seq(S), Len(q) = Len(r), \A i \in 1 .. Len(q) : q[i] = r[i]
    PROVE  q = r
  OBVIOUS

\* What is behind one another in a ring.
LEMMA SeqConcat ==
    ASSUME NEW S, NEW q \in Seq(S), NEW r \in Seq(S)
    PROVE  /\ q \o r \in Seq(S) /\ Len(q \o r) = Len(q) + Len(r)
           /\ \A i \in 1 .. Len(q) + Len(r) : (q \o r)[i] = IF i <= Len(q) THEN q[i] ELSE r[i - Len(q)]
  OBVIOUS

\* A part of a queue.
LEMMA SeqSub ==
    ASSUME NEW S, NEW q, NEW m \in Int, NEW n \in Int, \A i \in m .. n : q[i] \in S
    PROVE  /\ SubSeq(q, m, n) \in Seq(S)
           /\ Len(SubSeq(q, m, n)) = IF m <= n THEN n - m + 1 ELSE 0
           /\ \A i \in 1 .. n - m + 1 : SubSeq(q, m, n)[i] = q[m + i - 1]
  OBVIOUS

\* pop_front() and remove(0).
LEMMA SeqHeadTail ==
    ASSUME NEW S, NEW q \in Seq(S), q # <<>>
    PROVE  /\ Head(q) \in S /\ Tail(q) \in Seq(S) /\ Len(Tail(q)) = Len(q) - 1
           /\ \A i \in 1 .. Len(Tail(q)) : Tail(q)[i] = q[i + 1]
  OBVIOUS

\* push() and push_back().
LEMMA SeqAppend ==
    ASSUME NEW S, NEW q \in Seq(S), NEW e \in S
    PROVE  /\ Append(q, e) \in Seq(S) /\ Append(q, e) # <<>> /\ Len(Append(q, e)) = Len(q) + 1
           /\ \A i \in 1 .. Len(q) : Append(q, e)[i] = q[i]
           /\ Append(q, e)[Len(q) + 1] = e
  OBVIOUS

\* A vector is a function on its positions.
LEMMA SeqIs == \A S : Seq(S) = UNION {[1 .. n -> S] : n \in Nat}
  OBVIOUS
=============================================================================
