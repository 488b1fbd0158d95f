------------------------------- MODULE Lemmas -------------------------------
(* Lemmas for the proofs about several modules: induction in the form of a    *)
(* least number, and queues of operations between the loop and the database   *)
(* thread.                                                                    *)
EXTENDS SequenceTheorems, WellFoundedInduction, TLAPS

\* A set of numbers that is not empty has a least one: a proof by induction takes
\* the least counterexample.
LEMMA LeastNumber ==
  ASSUME NEW T, T \subseteq Nat, T # {}
  PROVE  \E n \in T : \A m \in T : n <= m
<1> DEFINE R == OpToRel(<, Nat)
<1>1. IsWellFoundedOn(R, Nat)
  BY NatLessThanWellFounded
<1>2. \A m, n \in Nat : m < n => <<m, n>> \in R
  BY DEF OpToRel
<1> HIDE DEF R
<1>3. PICK n \in T : \A m \in T : ~ (<<m, n>> \in R)
  BY <1>1, WFMin
<1>4. ASSUME NEW m \in T PROVE n <= m
  <2>1. m \in Nat /\ n \in Nat
    OBVIOUS
  <2>2. ~ (m < n)
    BY <1>2, <1>3, <2>1
  <2> QED BY <2>1, <2>2
<1> QED BY <1>4

-----------------------------------------------------------------------------

\* A queue of operations: what is in it, and that no request is in it twice.
Elems(s)   == {s[i] : i \in 1..Len(s)}
In(s, r)   == \E x \in Elems(s) : x.req = r
Once(s)    == \A i, j \in 1..Len(s) : s[i].req = s[j].req => i = j

-----------------------------------------------------------------------------
(* Queues *)
LEMMA AppendFacts ==
  ASSUME NEW S, NEW s \in Seq(S), NEW e \in S
  PROVE  /\ Append(s, e) \in Seq(S)
         /\ Len(Append(s, e)) = Len(s) + 1
         /\ Len(s) \in Nat
         /\ \A i \in 1..Len(s) : Append(s, e)[i] = s[i]
         /\ Append(s, e)[Len(s) + 1] = e
  OBVIOUS

LEMMA TailFacts ==
  ASSUME NEW S, NEW s \in Seq(S), s # <<>>
  PROVE  /\ Tail(s) \in Seq(S)
         /\ Len(Tail(s)) = Len(s) - 1
         /\ Len(s) \in Nat \ {0}
         /\ Head(s) = s[1] /\ Head(s) \in S
         /\ \A i \in 1..Len(Tail(s)) : Tail(s)[i] = s[i + 1]
<1>1. Len(s) \in Nat \ {0}
  BY EmptySeq
<1>2. /\ Tail(s) \in Seq(S)
      /\ Len(Tail(s)) = Len(s) - 1
      /\ \A i \in 1..Len(Tail(s)) : Tail(s)[i] = s[i + 1]
  BY HeadTailProperties
<1>3. Head(s) = s[1] /\ Head(s) \in S
  BY <1>1
<1> QED BY <1>1, <1>2, <1>3

\* Putting an operation into a queue.
LEMMA PutFacts ==
  ASSUME NEW S, NEW s \in Seq(S), NEW e \in S
  PROVE  /\ Append(s, e) \in Seq(S)
         /\ Elems(Append(s, e)) = Elems(s) \cup {e}
         /\ \A r : In(Append(s, e), r) <=> In(s, r) \/ r = e.req
         /\ Once(s) /\ ~In(s, e.req) => Once(Append(s, e))
<1> DEFINE a == Append(s, e)
<1>1. /\ a \in Seq(S)
      /\ Len(a) = Len(s) + 1 /\ Len(s) \in Nat
      /\ \A i \in 1..Len(s) : a[i] = s[i]
      /\ a[Len(s) + 1] = e
  BY AppendFacts
<1> HIDE DEF a
<1>2. Elems(a) = Elems(s) \cup {e}
  BY <1>1 DEF Elems
<1>3. \A r : In(a, r) <=> In(s, r) \/ r = e.req
  BY <1>2 DEF In
<1>4. Once(s) /\ ~In(s, e.req) => Once(a)
  <2> SUFFICES ASSUME Once(s), ~In(s, e.req), NEW i \in 1..Len(a), NEW j \in 1..Len(a),
                      a[i].req = a[j].req
               PROVE  i = j
    BY DEF Once
  <2>1. \A k \in 1..Len(s) : a[k].req # e.req
    BY <1>1 DEF In, Elems
  <2> QED BY <1>1, <2>1 DEF Once
<1> QED BY <1>1, <1>2, <1>3, <1>4 DEF a

\* Taking the first operation out of a queue.
LEMMA TakeFacts ==
  ASSUME NEW S, NEW s \in Seq(S), s # <<>>
  PROVE  /\ Tail(s) \in Seq(S)
         /\ Head(s) \in S /\ Head(s) \in Elems(s)
         /\ Elems(Tail(s)) \subseteq Elems(s)
         /\ Once(s) => /\ Once(Tail(s))
                       /\ ~In(Tail(s), Head(s).req)
                       /\ \A r : r # Head(s).req => (In(Tail(s), r) <=> In(s, r))
<1> DEFINE t == Tail(s)
<1>1. /\ t \in Seq(S)
      /\ Len(t) = Len(s) - 1 /\ Len(s) \in Nat \ {0}
      /\ Head(s) = s[1] /\ Head(s) \in S
      /\ \A i \in 1..Len(t) : t[i] = s[i + 1]
  BY TailFacts
<1> HIDE DEF t
<1>2. Head(s) \in Elems(s) /\ Elems(t) \subseteq Elems(s)
  BY <1>1 DEF Elems
<1>3. ASSUME Once(s) PROVE Once(t) /\ ~In(t, Head(s).req)
  BY <1>1, <1>3 DEF Once, In, Elems
<1>4. ASSUME NEW r, r # Head(s).req, In(s, r) PROVE In(t, r)
  <2>1. PICK i \in 1..Len(s) : s[i].req = r
    BY <1>4 DEF In, Elems
  <2>2. i - 1 \in 1..Len(t) /\ t[i - 1] = s[i]
    BY <1>1, <1>4, <2>1
  <2> QED BY <2>1, <2>2 DEF In, Elems
<1> QED BY <1>1, <1>2, <1>3, <1>4 DEF t, In

\* The elements of a sequence are of its type.
LEMMA SeqFacts ==
  ASSUME NEW S, NEW s \in Seq(S)
  PROVE  /\ Elems(s) \subseteq S
         /\ Len(s) \in Nat
         /\ \A i \in 1..Len(s) : s[i] \in S
  BY DEF Elems
=============================================================================
