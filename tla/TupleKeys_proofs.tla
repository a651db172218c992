--------------------------- MODULE TupleKeys_proofs ---------------------------
(***************************************************************************)
(* Proofs about the bytes of TupleKeys, for keys of any length: what the   *)
(* range of a prefix holds, the order of keys and positions, and the keys  *)
(* of one type and tag set after a bound.                                  *)
(***************************************************************************)
EXTENDS TupleKeys, NaturalsInduction, WellFoundedInduction, SequenceTheorems, TLAPS

\* A set of naturals that is not empty has a least element.
LEMMA LeastNatural ==
    ASSUME NEW N \in SUBSET Nat, N # {}
    PROVE  \E n \in N : \A m \in N : n <= m
<1>1. IsWellFoundedOn(OpToRel(<, Nat), Nat)
  BY NatLessThanWellFounded
<1>2. PICK n \in N : \A m \in N : ~(<<m, n>> \in OpToRel(<, Nat))
  BY <1>1, WFMin
<1>3. \A m \in N : ~(m < n)
  BY <1>2 DEF OpToRel
<1> QED
  BY <1>3

LEMMA PrefixIs ==
    ASSUME NEW S, NEW a \in Seq(S), NEW b \in Seq(S)
    PROVE  IsPrefix(a, b) <=> Len(a) <= Len(b) /\ \A i \in 1..Len(a) : a[i] = b[i]
<1>1. /\ Len(a) \in Nat /\ Len(b) \in Nat
      /\ DOMAIN a = 1..Len(a)
  OBVIOUS
<1>2. ASSUME Len(a) <= Len(b)
      PROVE  SubSeq(a, 1, Len(a)) = SubSeq(b, 1, Len(a))
               <=> \A i \in 1..Len(a) : a[i] = b[i]
  <2>1. /\ SubSeq(a, 1, Len(a)) = [i \in 1..Len(a) |-> a[i]]
        /\ SubSeq(b, 1, Len(a)) = [i \in 1..Len(a) |-> b[i]]
    BY <1>1
  <2> QED
    BY <2>1
<1> QED
  BY <1>1, <1>2 DEF IsPrefix

\* Two keys neither of which begins with the other differ somewhere first.
LEMMA FirstDifference ==
    ASSUME NEW S, NEW a \in Seq(S), NEW b \in Seq(S), ~IsPrefix(a, b), ~IsPrefix(b, a)
    PROVE  \E i \in DOMAIN a \intersect DOMAIN b :
               a[i] # b[i] /\ \A j \in 1..(i - 1) : a[j] = b[j]
<1> DEFINE D == {i \in DOMAIN a \intersect DOMAIN b : a[i] # b[i]}
<1>1. /\ Len(a) \in Nat /\ Len(b) \in Nat
      /\ DOMAIN a = 1..Len(a) /\ DOMAIN b = 1..Len(b)
  OBVIOUS
<1>2. D \in SUBSET Nat
  BY <1>1
<1>3. D # {}
  <2>1. CASE Len(a) <= Len(b)
    BY <1>1, <2>1, PrefixIs
  <2>2. CASE Len(b) <= Len(a)
    BY <1>1, <2>2, PrefixIs
  <2> QED
    BY <1>1, <2>1, <2>2
<1>4. PICK i \in D : \A j \in D : i <= j
  <2> HIDE DEF D
  <2> QED BY <1>2, <1>3, LeastNatural
<1>5. ASSUME NEW j \in 1..(i - 1)
      PROVE  a[j] = b[j]
  BY <1>1, <1>4
<1> QED
  BY <1>4, <1>5
LEMMA ByteIs ==
    ASSUME NEW b
    PROVE  b \in Byte <=> b \in Int /\ 0 <= b /\ b <= 255
BY DEF Byte

LEMMA BytesOf ==
    ASSUME NEW key \in Seq(Byte)
    PROVE  \A i \in 1..Len(key) : key[i] \in Byte /\ key[i] \in Int /\ 0 <= key[i] /\ key[i] <= 255
<1>1. \A i \in 1..Len(key) : key[i] \in Byte
  OBVIOUS
<1> QED
  BY <1>1, ByteIs

LEMMA BytesAreNats ==
    ASSUME NEW key \in Seq(Byte)
    PROVE  key \in Seq(Nat)
<1>1. Byte \subseteq Nat
  BY DEF Byte
<1> HIDE DEF Byte
<1> QED
  BY <1>1, SeqMonotonic

(***************************************************************************)
(* strinc.                                                                 *)
(***************************************************************************)
LEMMA Cut ==
    ASSUME NEW key \in Seq(Nat), NEW i \in 1..Len(key)
    PROVE  /\ SubSeq(key, 1, i) \in Seq(Nat) /\ Len(SubSeq(key, 1, i)) = i
           /\ \A j \in 1..i : SubSeq(key, 1, i)[j] = key[j]
<1>1. i \in Int /\ 1 <= i /\ i - 1 + 1 = i
  OBVIOUS
<1>2. \A j \in 1..i : j \in 1..Len(key) /\ 1 + j - 1 = j
  OBVIOUS
<1>3. \A j \in 1..i : key[j] \in Nat
  BY <1>2
<1>4. /\ SubSeq(key, 1, i) \in Seq(Nat)
      /\ Len(SubSeq(key, 1, i)) = IF 1 <= i THEN i - 1 + 1 ELSE 0
      /\ \A j \in 1..(i - 1 + 1) : SubSeq(key, 1, i)[j] = key[1 + j - 1]
  BY <1>1, <1>3, SubSeqProperties
<1> QED
  BY <1>1, <1>2, <1>4

\* `up` is `cut`, of i bytes, with b as its last.
EndsWith(cut, i, b, up) ==
    /\ up \in Seq(Nat) /\ Len(up) = i
    /\ up[i] = b
    /\ \A j \in 1..(i - 1) : up[j] = cut[j]

LEMMA LastReplaced ==
    ASSUME NEW cut \in Seq(Nat), NEW b \in Nat, NEW i \in 1..Len(cut), Len(cut) = i
    PROVE  EndsWith(cut, i, b, [cut EXCEPT ![i] = b])
<1>1. /\ [cut EXCEPT ![i] = b] \in Seq(Nat) /\ Len([cut EXCEPT ![i] = b]) = Len(cut)
      /\ \A j \in 1..Len(cut) : [cut EXCEPT ![i] = b][j] = IF j = i THEN b ELSE cut[j]
  BY ExceptSeq
<1>2. \A j \in 1..(i - 1) : j \in 1..Len(cut) /\ j # i
  OBVIOUS
<1> QED
  BY <1>1, <1>2 DEF EndsWith

LEMMA LastNotFF ==
    ASSUME NEW key \in Seq(Byte), \E i \in 1..Len(key) : key[i] # 255
    PROVE  \E i \in 1..Len(key) : key[i] # 255 /\ \A j \in (i + 1)..Len(key) : key[j] = 255
<1> DEFINE N == {n \in 0..Len(key) : n # Len(key) /\ key[Len(key) - n] # 255}
<1>1. Len(key) \in Nat
  OBVIOUS
<1>2. N \in SUBSET Nat /\ N # {}
  <2>1. PICK i \in 1..Len(key) : key[i] # 255
    OBVIOUS
  <2>2. Len(key) - i \in 0..Len(key) /\ Len(key) - i # Len(key) /\ Len(key) - (Len(key) - i) = i
    OBVIOUS
  <2> QED
    BY <1>1, <2>1, <2>2
<1>3. PICK n \in N : \A m \in N : n <= m
  <2> HIDE DEF N
  <2> QED BY <1>2, LeastNatural
<1>4. Len(key) - n \in 1..Len(key) /\ key[Len(key) - n] # 255 /\ n \in Nat
  BY <1>1, <1>3
<1>5. ASSUME NEW j \in (Len(key) - n + 1)..Len(key), key[j] # 255
      PROVE  FALSE
  <2>1. Len(key) - j \in 0..Len(key) /\ Len(key) - j # Len(key) /\ Len(key) - (Len(key) - j) = j
           /\ ~(n <= Len(key) - j)
    BY <1>1, <1>4
  <2>2. Len(key) - j \in N
    BY <1>5, <2>1
  <2> HIDE DEF N
  <2> QED
    BY <1>3, <2>1, <2>2
<1> QED
  BY <1>4, <1>5

\* `up` is `key`, of n bytes, cut after byte i, with one added to it, where only
\* FF follows i.
Cap(n, key, i, up) ==
    /\ \A j \in (i + 1)..n : key[j] = 255
    /\ up[i] = key[i] + 1
    /\ \A j \in 1..(i - 1) : up[j] = key[j]

Incremented(key, i, up) ==
    /\ Cap(Len(key), key, i, up)
    /\ up \in Seq(Nat) /\ Len(up) = i

\* strinc cuts a key after its last byte that is not FF and adds one to it.
LEMMA StrincIs ==
    ASSUME NEW key \in Seq(Byte), \E i \in 1..Len(key) : key[i] # 255
    PROVE  \E i \in 1..Len(key) : Incremented(key, i, strinc(key))
<1> DEFINE Is(i) == key[i] # 255 /\ \A j \in (i + 1)..Len(key) : key[j] = 255
           i == CHOOSE i \in DOMAIN key : Is(i)
<1>1. i \in 1..Len(key) /\ Is(i)
  <2>1. DOMAIN key = 1..Len(key) /\ \E j \in 1..Len(key) : Is(j)
    BY LastNotFF
  <2> HIDE DEF Is
  <2> QED BY <2>1
<1>2. strinc(key) = [SubSeq(key, 1, i) EXCEPT ![i] = @ + 1]
  BY DEF strinc
<1>3. key \in Seq(Nat)
  BY BytesAreNats
<1> HIDE DEF i
<1>4. /\ SubSeq(key, 1, i) \in Seq(Nat) /\ Len(SubSeq(key, 1, i)) = i
      /\ \A j \in 1..i : SubSeq(key, 1, i)[j] = key[j]
  BY <1>1, <1>3, Cut
<1>5. i \in 1..i /\ key[i] + 1 \in Nat
  BY <1>1, <1>3
<1>6. strinc(key) = [SubSeq(key, 1, i) EXCEPT ![i] = key[i] + 1]
  BY <1>2, <1>4, <1>5
<1> HIDE DEF strinc
<1> PICK cut : cut = SubSeq(key, 1, i)
  OBVIOUS
<1>7. /\ cut \in Seq(Nat) /\ Len(cut) = i /\ i \in 1..Len(cut)
      /\ \A j \in 1..i : cut[j] = key[j]
  BY <1>4, <1>5
<1>8. /\ strinc(key) \in Seq(Nat) /\ Len(strinc(key)) = i
      /\ strinc(key)[i] = key[i] + 1
      /\ \A j \in 1..(i - 1) : strinc(key)[j] = cut[j]
  <2>1. strinc(key) = [cut EXCEPT ![i] = key[i] + 1]
    BY <1>6
  <2> QED
    <3> HIDE DEF Is
    <3> PICK b : b = key[i] + 1
      OBVIOUS
    <3>1. b \in Nat /\ strinc(key) = [cut EXCEPT ![i] = b]
      BY <1>5, <2>1
    <3>2. EndsWith(cut, i, b, strinc(key))
      <4>1. cut \in Seq(Nat) /\ b \in Nat /\ i \in 1..Len(cut) /\ Len(cut) = i
        BY <1>7, <3>1
      <4>2. EndsWith(cut, i, b, [cut EXCEPT ![i] = b])
        BY <4>1, LastReplaced
      <4> QED
        BY <3>1, <4>2
    <3> QED
      BY <3>2 DEF EndsWith
<1>9. \A j \in 1..(i - 1) : strinc(key)[j] = key[j]
  <2>1. \A j \in 1..(i - 1) : j \in 1..i
    BY <1>5
  <2> QED
    BY <1>7, <1>8, <2>1
<1>10. Incremented(key, i, strinc(key))
  BY <1>1, <1>8, <1>9 DEF Incremented, Cap
<1> QED
  BY <1>1, <1>10

(***************************************************************************)
(* The order of keys, over their bytes.                                    *)
(***************************************************************************)

\* The n bytes of a are before the m bytes of b.
Lex(n, a, m, b) ==
    \/ n < m /\ \A i \in 1..n : a[i] = b[i]
    \/ \E i \in 1..n : i <= m /\ a[i] < b[i] /\ \A j \in 1..(i - 1) : a[j] = b[j]

LEMMA LessIs ==
    ASSUME NEW S, NEW a \in Seq(S), NEW b \in Seq(S)
    PROVE  Less(a, b) <=> Lex(Len(a), a, Len(b), b)
<1>1. /\ Len(a) \in Nat /\ Len(b) \in Nat
      /\ DOMAIN a = 1..Len(a) /\ DOMAIN b = 1..Len(b)
  OBVIOUS
<1>2. IsStrictPrefix(a, b) <=> Len(a) < Len(b) /\ \A i \in 1..Len(a) : a[i] = b[i]
  <2>1. IsPrefix(a, b) <=> Len(a) <= Len(b) /\ \A i \in 1..Len(a) : a[i] = b[i]
    BY PrefixIs
  <2>2. Len(a) = Len(b) /\ (\A i \in 1..Len(a) : a[i] = b[i]) => a = b
    BY SeqEqual
  <2>3. a = b => Len(a) = Len(b)
    OBVIOUS
  <2>4. Len(a) < Len(b) <=> Len(a) <= Len(b) /\ Len(a) # Len(b)
    OBVIOUS
  <2> QED
    BY <2>1, <2>2, <2>3, <2>4 DEF IsStrictPrefix
<1>3. (\E i \in DOMAIN a \intersect DOMAIN b : a[i] < b[i] /\ \A j \in 1..(i - 1) : a[j] = b[j])
        <=> (\E i \in 1..Len(a) : i <= Len(b) /\ a[i] < b[i] /\ \A j \in 1..(i - 1) : a[j] = b[j])
  <2>1. \A i : i \in DOMAIN a \intersect DOMAIN b <=> i \in 1..Len(a) /\ i <= Len(b)
    BY <1>1
  <2> QED
    BY <2>1
<1> QED
  BY <1>2, <1>3 DEF Less, Lex

\* The m values of b begin with the n of a.
Begins(n, a, m, b) == n <= m /\ \A i \in 1..n : a[i] = b[i]

AtMostFF(n, a) == \A i \in 1..n : a[i] \in Int /\ a[i] <= 255

\* np bytes p, nk bytes k, and u: p cut after its byte m, the last one that is not FF,
\* with one added to it.
Bracket(np, p, nk, k, m, u) ==
    /\ np \in Nat /\ nk \in Nat /\ m \in 1..np
    /\ AtMostFF(np, p) /\ AtMostFF(nk, k) /\ Cap(np, p, m, u)

\* What is at or above p and below u begins with p.
LEMMA Between ==
    ASSUME NEW np, NEW nk, NEW m, NEW p, NEW k, NEW u, Bracket(np, p, nk, k, m, u)
    PROVE  ~Lex(nk, k, np, p) /\ Lex(nk, k, m, u) <=> Begins(np, p, nk, k)
<1>0. /\ np \in Nat /\ nk \in Nat /\ m \in 1..np
      /\ \A i \in 1..np : p[i] \in Int /\ p[i] <= 255
      /\ \A i \in 1..nk : k[i] \in Int /\ k[i] <= 255
      /\ \A j \in (m + 1)..np : p[j] = 255
      /\ u[m] = p[m] + 1
      /\ \A j \in 1..(m - 1) : u[j] = p[j]
  BY DEF Bracket, AtMostFF, Cap
<1>1. ASSUME np <= nk, \A i \in 1..np : p[i] = k[i]
      PROVE  ~Lex(nk, k, np, p) /\ Lex(nk, k, m, u)
  <2>1. ~\E i \in 1..nk : i <= np /\ k[i] < p[i]
    <3> SUFFICES ASSUME NEW i \in 1..nk, i <= np, k[i] < p[i] PROVE FALSE
      OBVIOUS
    <3>1. i \in 1..np
      OBVIOUS
    <3>2. k[i] = p[i] /\ k[i] \in Int
      BY <1>0, <1>1, <3>1
    <3> QED
      BY <1>0, <3>2
  <2>2. m \in 1..nk /\ k[m] = p[m] /\ p[m] \in Int
    BY <1>0, <1>1
  <2>3. k[m] < u[m]
    BY <1>0, <2>2
  <2>4. \A j \in 1..(m - 1) : k[j] = u[j]
    <3> SUFFICES ASSUME NEW j \in 1..(m - 1) PROVE k[j] = u[j]
      OBVIOUS
    <3>1. j \in 1..np
      BY <1>0
    <3> QED
      BY <1>0, <1>1, <3>1
  <2>5. ~Lex(nk, k, np, p)
    BY <1>0, <1>1, <2>1 DEF Lex
  <2>6. Lex(nk, k, m, u)
    BY <1>0, <2>2, <2>3, <2>4 DEF Lex
  <2> QED
    BY <1>0, <2>5, <2>6
<1>2. ASSUME ~Lex(nk, k, np, p), Lex(nk, k, m, u), ~(np <= nk /\ \A i \in 1..np : p[i] = k[i])
      PROVE  FALSE
  <2> DEFINE D == {i \in 1..np : i <= nk /\ k[i] # p[i]}
  <2>1. D \in SUBSET Nat
    OBVIOUS
  <2>2. D # {}
    <3>1. CASE np <= nk
      BY <1>0, <1>2, <3>1
    <3>2. CASE nk < np
      <4>1. PICK i \in 1..nk : k[i] # p[i]
        BY <1>0, <1>2, <3>2 DEF Lex
      <4>2. i \in D
        BY <1>0, <3>2, <4>1
      <4> QED
        BY <1>0, <4>2
    <3> QED
      BY <1>0, <3>1, <3>2
  <2>3. PICK i \in D : \A j \in D : i <= j
    <3> HIDE DEF D
    <3> QED BY <1>0, <2>1, <2>2, LeastNatural
  <2> HIDE DEF D
  <2>4. i \in 1..np /\ i \in 1..nk /\ k[i] # p[i] /\ k[i] \in Int /\ k[i] <= 255 /\ p[i] \in Int
    BY <1>0, <2>3 DEF D
  <2>5. \A j \in 1..(i - 1) : k[j] = p[j] /\ j \in 1..np /\ j \in 1..nk
    <3> SUFFICES ASSUME NEW j \in 1..(i - 1) PROVE k[j] = p[j] /\ j \in 1..np /\ j \in 1..nk
      OBVIOUS
    <3>1. j \in 1..np /\ j <= nk /\ j \in 1..nk /\ ~(i <= j)
      BY <1>0, <2>4
    <3> QED
      BY <1>0, <2>3, <2>4, <3>1 DEF D
  <2>6. k[i] > p[i]
    <3>1. ~(k[i] < p[i])
      BY <1>0, <1>2, <2>4, <2>5 DEF Lex
    <3> QED
      BY <1>0, <2>4, <3>1
  <2>7. i <= m
    <3>1. ASSUME i > m PROVE FALSE
      <4>1. i \in (m + 1)..np
        BY <1>0, <2>4, <3>1
      <4>2. p[i] = 255
        BY <1>0, <4>1
      <4> QED
        BY <1>0, <2>4, <2>6, <4>2
    <3> QED
      BY <1>0, <2>4, <3>1
  <2>8. \A j \in 1..(i - 1) : k[j] = u[j] /\ u[j] \in Int
    <3> SUFFICES ASSUME NEW j \in 1..(i - 1) PROVE k[j] = u[j] /\ u[j] \in Int
      OBVIOUS
    <3>1. j \in 1..(m - 1)
      BY <1>0, <2>4, <2>7
    <3>2. k[j] = p[j] /\ p[j] \in Int
      BY <1>0, <2>5
    <3> QED
      BY <1>0, <3>1, <3>2
  <2>9. u[i] \in Int /\ k[i] >= u[i] /\ (i < m => k[i] > u[i])
    <3>1. CASE i = m
      BY <1>0, <2>4, <2>6, <3>1
    <3>2. CASE i < m
      <4>1. i \in 1..(m - 1)
        BY <1>0, <2>4, <3>2
      <4>2. u[i] = p[i]
        BY <1>0, <4>1
      <4> QED
        BY <1>0, <2>4, <2>6, <4>2
    <3> QED
      BY <1>0, <2>4, <2>7, <3>1, <3>2
  <2>10. CASE nk < m /\ \A j \in 1..nk : k[j] = u[j]
    <3>1. k[i] = u[i] /\ i < m
      BY <1>0, <2>4, <2>10
    <3> QED
      BY <1>0, <2>4, <2>9, <3>1
  <2>11. ASSUME NEW n \in 1..nk, n <= m, k[n] < u[n], \A j \in 1..(n - 1) : k[j] = u[j]
         PROVE  FALSE
    <3>1. CASE n < i
      <4>1. n \in 1..(i - 1)
        BY <1>0, <2>4, <3>1
      <4>2. k[n] = u[n] /\ u[n] \in Int
        BY <1>0, <2>8, <4>1
      <4> QED
        BY <1>0, <2>11, <4>2
    <3>2. CASE n = i
      BY <1>0, <2>4, <2>9, <2>11, <3>2
    <3>3. CASE n > i
      <4>1. i \in 1..(n - 1) /\ i < m
        BY <1>0, <2>4, <2>11, <3>3
      <4>2. k[i] = u[i]
        BY <1>0, <2>11, <4>1
      <4> QED
        BY <1>0, <2>4, <2>9, <4>1, <4>2
    <3> QED
      BY <1>0, <2>4, <3>1, <3>2, <3>3
  <2> QED
    BY <1>0, <1>2, <2>10, <2>11 DEF Lex
<1> QED
  BY <1>1, <1>2 DEF Begins

\* strinc is the exact upper end of a prefix: a key is at or above `prefix` and
\* below strinc(prefix) if and only if it begins with `prefix` (query.rs:
\* strinc, prefix_range), also where the prefix ends in FF bytes.
THEOREM PrefixRangeExact ==
    ASSUME NEW prefix \in Seq(Byte), \E i \in 1..Len(prefix) : prefix[i] # 255,
           NEW k \in Seq(Byte)
    PROVE  ~Less(k, prefix_range(prefix).begin) /\ Less(k, prefix_range(prefix).end)
             <=> IsPrefix(prefix, k)
<1> HIDE DEF strinc
<1>0. PICK m \in 1..Len(prefix) : Incremented(prefix, m, strinc(prefix))
  BY StrincIs
<1> PICK up : up = strinc(prefix)
  OBVIOUS
<1>1. Cap(Len(prefix), prefix, m, up) /\ up \in Seq(Nat) /\ Len(up) = m
  BY <1>0 DEF Incremented
<1>2. Len(prefix) \in Nat /\ Len(k) \in Nat
  OBVIOUS
<1>3. AtMostFF(Len(prefix), prefix) /\ AtMostFF(Len(k), k)
  BY BytesOf DEF AtMostFF
<1>4. ~Lex(Len(k), k, Len(prefix), prefix) /\ Lex(Len(k), k, m, up)
        <=> Begins(Len(prefix), prefix, Len(k), k)
  <2>1. Bracket(Len(prefix), prefix, Len(k), k, m, up)
    BY <1>1, <1>2, <1>3 DEF Bracket
  <2> QED
    BY <2>1, Between
<1>5. Less(k, prefix) <=> Lex(Len(k), k, Len(prefix), prefix)
  BY LessIs
<1>6. Less(k, up) <=> Lex(Len(k), k, m, up)
  <2>1. k \in Seq(Nat)
    BY BytesAreNats
  <2> QED
    BY <1>1, <2>1, LessIs
<1>7. IsPrefix(prefix, k) <=> Begins(Len(prefix), prefix, Len(k), k)
  BY PrefixIs DEF Begins
<1> QED
  BY <1>4, <1>5, <1>6, <1>7 DEF prefix_range

(***************************************************************************)
(* Concatenation of the elements of a tuple, FlattenSeq.                   *)
(***************************************************************************)

\* f[i] is the concatenation of the first i of n sequences.
Flat(seqs, n, f) == f = [i \in 1..n |-> IF i = 1 THEN seqs[i] ELSE f[i - 1] \o seqs[i]]

Steps(seqs, n, f) ==
    /\ n >= 1 => f[1] = seqs[1]
    /\ \A i \in 2..n : i - 1 \in 1..n /\ f[i] = f[i - 1] \o seqs[i]

LEMMA FlatStep ==
    ASSUME NEW n \in Nat, NEW seqs, NEW f, Flat(seqs, n, f)
    PROVE  Steps(seqs, n, f)
<1>1. \A i \in 1..n : f[i] = IF i = 1 THEN seqs[i] ELSE f[i - 1] \o seqs[i]
  BY DEF Flat
<1>2. \A i \in 2..n : i \in 1..n /\ i # 1 /\ i - 1 \in 1..n
  OBVIOUS
<1>3. n >= 1 => 1 \in 1..n
  OBVIOUS
<1> QED
  BY <1>1, <1>2, <1>3 DEF Steps

LEMMA FlatExists ==
    ASSUME NEW len \in Nat, NEW seqs, NEW n \in 1..len
    PROVE  \E f : Flat(seqs, n, f)
<1> DEFINE N == {m \in 1..len : ~\E f : Flat(seqs, m, f)}
<1> SUFFICES ASSUME N # {} PROVE FALSE
  OBVIOUS
<1>1. N \in SUBSET Nat
  OBVIOUS
<1>2. PICK m \in N : \A k \in N : m <= k
  <2> HIDE DEF N
  <2> QED BY <1>1, LeastNatural
<1>3. m \in 1..len /\ ~\E f : Flat(seqs, m, f)
  BY <1>2
<1>4. CASE m = 1
  <2> DEFINE f == [i \in 1..1 |-> seqs[i]]
  <2>1. f = [i \in 1..1 |-> IF i = 1 THEN seqs[i] ELSE f[i - 1] \o seqs[i]]
    OBVIOUS
  <2> HIDE DEF f
  <2> QED
    BY <1>3, <1>4, <2>1 DEF Flat
<1>5. CASE m # 1
  <2>1. m - 1 \in 1..len /\ m - 1 \notin N
    <3>1. m - 1 \in 1..len /\ ~(m <= m - 1)
      BY <1>3, <1>5
    <3> HIDE DEF N
    <3> QED
      BY <1>2, <3>1
  <2>2. PICK f : Flat(seqs, m - 1, f)
    BY <2>1
  <2> DEFINE g == [i \in 1..m |-> IF i = m THEN f[m - 1] \o seqs[m] ELSE f[i]]
  <2>3. ASSUME NEW i \in 1..m
        PROVE  g[i] = IF i = 1 THEN seqs[i] ELSE g[i - 1] \o seqs[i]
    <3>1. m \in Nat /\ m - 1 \in Nat /\ m - 1 >= 1 /\ m - 1 # m
      BY <1>3, <1>5
    <3>2. /\ f[1] = seqs[1]
          /\ \A j \in 2..(m - 1) : f[j] = f[j - 1] \o seqs[j]
      <4> HIDE DEF N, g
      <4>1. Steps(seqs, m - 1, f)
        BY <2>2, <3>1, FlatStep
      <4> QED
        BY <3>1, <4>1 DEF Steps
    <3>3. CASE i = 1
      BY <1>5, <3>2, <3>3
    <3>4. CASE i = m
      <4>1. m - 1 \in 1..m
        BY <3>1
      <4>2. g[i] = f[m - 1] \o seqs[m] /\ g[i - 1] = f[m - 1]
        BY <3>1, <3>4, <4>1
      <4> QED
        BY <1>5, <3>4, <4>2
    <3>5. CASE i # 1 /\ i # m
      <4>1. i \in 2..(m - 1) /\ i - 1 \in 1..m /\ i - 1 # m
        BY <3>1, <3>5
      <4>2. g[i] = f[i] /\ g[i - 1] = f[i - 1]
        BY <3>5, <4>1
      <4> QED
        BY <3>2, <3>5, <4>1, <4>2
    <3> QED
      BY <3>3, <3>4, <3>5
  <2>4. g = [i \in 1..m |-> IF i = 1 THEN seqs[i] ELSE g[i - 1] \o seqs[i]]
    <3> DEFINE h == [i \in 1..m |-> IF i = 1 THEN seqs[i] ELSE g[i - 1] \o seqs[i]]
    <3>1. g = [i \in 1..m |-> g[i]]
      OBVIOUS
    <3> HIDE DEF g
    <3> QED
      BY <2>3, <3>1
  <2> HIDE DEF g
  <2>5. Flat(seqs, m, g)
    BY <2>4 DEF Flat
  <2> QED
    BY <1>3, <2>5
<1> QED
  BY <1>4, <1>5

Agree(n, f, g) == \A i \in 1..n : f[i] = g[i]

\* Two such functions agree as far as their sequences do.
LEMMA FlatAgree ==
    ASSUME NEW len \in Nat, NEW s, NEW t, NEW m \in Nat, NEW n \in Nat, len <= m, len <= n,
           NEW f, NEW g, Flat(s, m, f), Flat(t, n, g),
           Agree(len, s, t)
    PROVE  Agree(len, f, g)
<1>0. /\ m >= 1 => f[1] = s[1]
      /\ \A i \in 2..m : i - 1 \in 1..m /\ f[i] = f[i - 1] \o s[i]
      /\ n >= 1 => g[1] = t[1]
      /\ \A i \in 2..n : i - 1 \in 1..n /\ g[i] = g[i - 1] \o t[i]
  <2>1. Steps(s, m, f) /\ Steps(t, n, g)
    BY FlatStep
  <2> QED
    BY <2>1 DEF Steps
<1> DEFINE N == {i \in 1..len : f[i] # g[i]}
<1> SUFFICES ASSUME N # {} PROVE FALSE
  BY DEF Agree
<1>1. N \in SUBSET Nat
  OBVIOUS
<1>2. PICK i \in N : \A k \in N : i <= k
  <2> HIDE DEF N
  <2> QED BY <1>1, LeastNatural
<1>3. i \in 1..len /\ f[i] # g[i]
  BY <1>2
<1>4. CASE i = 1
  <2>1. f[1] = s[1] /\ g[1] = t[1]
    BY <1>0, <1>3
  <2> QED
    BY <1>3, <1>4, <2>1 DEF Agree
<1>5. CASE i # 1
  <2>1. i \in 2..m /\ i \in 2..n /\ i - 1 \in 1..len /\ ~(i <= i - 1)
    BY <1>3, <1>5
  <2>2. f[i] = f[i - 1] \o s[i] /\ g[i] = g[i - 1] \o t[i]
    BY <1>0, <2>1
  <2>3. i - 1 \notin N
    <3> HIDE DEF N
    <3> QED BY <1>2, <2>1
  <2>4. f[i - 1] = g[i - 1]
    BY <2>1, <2>3
  <2> QED
    BY <1>3, <2>2, <2>4 DEF Agree
<1> QED
  BY <1>4, <1>5

\* What FlattenSeq returns.
LEMMA FlattenIs ==
    ASSUME NEW seqs, Len(seqs) \in Nat, Len(seqs) # 0
    PROVE  \E f : Flat(seqs, Len(seqs), f) /\ FlattenSeq(seqs) = f[Len(seqs)]
<1> DEFINE f == CHOOSE f : f = [i \in 1..Len(seqs) |->
                                   IF i = 1 THEN seqs[i] ELSE f[i - 1] \o seqs[i]]
<1>1. \E g : g = [i \in 1..Len(seqs) |-> IF i = 1 THEN seqs[i] ELSE g[i - 1] \o seqs[i]]
  <2>1. Len(seqs) \in 1..Len(seqs)
    OBVIOUS
  <2> QED
    BY <2>1, FlatExists DEF Flat
<1>2. f = [i \in 1..Len(seqs) |-> IF i = 1 THEN seqs[i] ELSE f[i - 1] \o seqs[i]]
  BY <1>1
<1>3. FlattenSeq(seqs) = f[Len(seqs)]
  BY DEF FlattenSeq
<1> HIDE DEF f
<1> QED
  BY <1>2, <1>3 DEF Flat

LEMMA ConcatFirst ==
    ASSUME NEW S, NEW a \in Seq(S), NEW b \in Seq(S), Len(a) # 0
    PROVE  a \o b \in Seq(S) /\ Len(a \o b) # 0 /\ (a \o b)[1] = a[1]
<1>1. /\ a \o b \in Seq(S) /\ Len(a \o b) = Len(a) + Len(b)
      /\ \A j \in 1..(Len(a) + Len(b)) :
            (a \o b)[j] = IF j <= Len(a) THEN a[j] ELSE b[j - Len(a)]
  BY ConcatProperties
<1>2. Len(a) + Len(b) # 0 /\ 1 \in 1..(Len(a) + Len(b)) /\ 1 <= Len(a)
  OBVIOUS
<1> QED
  BY <1>1, <1>2

\* The concatenation is one of bytes, and it begins with its first part.
LEMMA FlattenType ==
    ASSUME NEW S, NEW seqs \in Seq(Seq(S)), Len(seqs) # 0, Len(seqs[1]) # 0
    PROVE  /\ FlattenSeq(seqs) \in Seq(S)
           /\ Len(FlattenSeq(seqs)) # 0 /\ FlattenSeq(seqs)[1] = seqs[1][1]
<1>1. Len(seqs) \in Nat /\ \A i \in 1..Len(seqs) : seqs[i] \in Seq(S)
  OBVIOUS
<1>2. PICK f : Flat(seqs, Len(seqs), f) /\ FlattenSeq(seqs) = f[Len(seqs)]
  BY <1>1, FlattenIs
<1>3. /\ Len(seqs) >= 1 => f[1] = seqs[1]
      /\ \A i \in 2..Len(seqs) : i - 1 \in 1..Len(seqs) /\ f[i] = f[i - 1] \o seqs[i]
  BY <1>1, <1>2, FlatStep DEF Steps
<1> DEFINE Good(i) == f[i] \in Seq(S) /\ Len(f[i]) # 0 /\ f[i][1] = seqs[1][1]
           N == {i \in 1..Len(seqs) : ~Good(i)}
<1>4. N = {}
  <2> SUFFICES ASSUME N # {} PROVE FALSE
    OBVIOUS
  <2>1. N \in SUBSET Nat
    OBVIOUS
  <2>2. PICK i \in N : \A k \in N : i <= k
    <3> HIDE DEF N
    <3> QED BY <2>1, LeastNatural
  <2>3. i \in 1..Len(seqs) /\ ~Good(i)
    BY <2>2
  <2> HIDE DEF Good
  <2>4. CASE i = 1
    <3>1. 1 \in 1..Len(seqs) /\ f[1] = seqs[1]
      BY <1>3, <2>3, <2>4
    <3> QED
      BY <1>1, <2>3, <2>4, <3>1 DEF Good
  <2>5. CASE i # 1
    <3>1. i \in 2..Len(seqs) /\ i - 1 \in 1..Len(seqs) /\ ~(i <= i - 1)
      BY <1>1, <2>3, <2>5
    <3>2. i - 1 \notin N
      <4> HIDE DEF N
      <4> QED BY <2>2, <3>1
    <3>3. Good(i - 1)
      BY <3>1, <3>2
    <3>4. f[i] = f[i - 1] \o seqs[i] /\ seqs[i] \in Seq(S)
      BY <1>1, <1>3, <2>3, <3>1
    <3> HIDE DEF N
    <3>5. Good(i)
      <4> PICK a : a = f[i - 1]
        OBVIOUS
      <4> PICK b : b = seqs[i]
        OBVIOUS
      <4>1. a \in Seq(S) /\ Len(a) # 0 /\ a[1] = seqs[1][1] /\ b \in Seq(S)
        BY <3>3, <3>4 DEF Good
      <4>2. a \o b \in Seq(S) /\ Len(a \o b) # 0 /\ (a \o b)[1] = a[1]
        BY <4>1, ConcatFirst
      <4> QED
        BY <3>4, <4>1, <4>2 DEF Good
    <3> QED
      BY <2>3, <3>5
  <2> QED
    BY <2>4, <2>5
<1>5. Len(seqs) \in 1..Len(seqs)
  BY <1>1
<1>6. Good(Len(seqs))
  <2> HIDE DEF Good
  <2> QED BY <1>4, <1>5
<1> QED
  BY <1>2, <1>6

\* One part more: the concatenation is extended by it.
LEMMA FlattenAppend ==
    ASSUME NEW S, NEW seqs \in Seq(Seq(S)), Len(seqs) # 0, NEW s \in Seq(S)
    PROVE  FlattenSeq(Append(seqs, s)) = FlattenSeq(seqs) \o s
<1> DEFINE n == Len(seqs)
           more == Append(seqs, s)
<1>1. /\ n \in Nat /\ n >= 1 /\ Len(more) = n + 1 /\ Len(more) # 0 /\ Len(more) \in Nat
      /\ n + 1 \in 2..(n + 1) /\ n + 1 - 1 = n /\ n <= n + 1 /\ n \in 1..n
  OBVIOUS
<1>2. /\ \A i \in 1..n : more[i] = seqs[i]
      /\ more[n + 1] = s
  BY AppendProperties
<1>3. PICK f : Flat(seqs, n, f) /\ FlattenSeq(seqs) = f[n]
  BY <1>1, FlattenIs
<1> HIDE DEF more
<1>4. PICK g : Flat(more, Len(more), g) /\ FlattenSeq(more) = g[Len(more)]
  BY <1>1, FlattenIs
<1> PICK m : m = n + 1
  OBVIOUS
<1>5. /\ n \in Nat /\ m \in Nat /\ n <= m /\ n <= n /\ m \in 2..m /\ m - 1 = n /\ n \in 1..n
      /\ Flat(more, m, g) /\ FlattenSeq(more) = g[m] /\ more[m] = s
  BY <1>1, <1>2, <1>4
<1> HIDE DEF n
<1>6. Agree(n, f, g)
  <2>1. Agree(n, seqs, more)
    BY <1>2 DEF Agree
  <2> QED
    BY <1>3, <1>5, <2>1, FlatAgree
<1>7. Steps(more, m, g)
  BY <1>5, FlatStep
<1>8. g[m] = g[n] \o more[m] /\ f[n] = g[n]
  BY <1>5, <1>6, <1>7 DEF Steps, Agree
<1> QED
  BY <1>3, <1>5, <1>8 DEF more

\* A single part.
LEMMA FlattenOne ==
    ASSUME NEW s
    PROVE  FlattenSeq(<<s>>) = s
<1>1. Len(<<s>>) = 1 /\ <<s>>[1] = s
  OBVIOUS
<1>2. PICK f : Flat(<<s>>, 1, f) /\ FlattenSeq(<<s>>) = f[1]
  <2>1. Len(<<s>>) \in Nat /\ Len(<<s>>) # 0
    BY <1>1
  <2>2. \E f : Flat(<<s>>, Len(<<s>>), f) /\ FlattenSeq(<<s>>) = f[Len(<<s>>)]
    BY <2>1, FlattenIs
  <2> QED
    BY <1>1, <2>2
<1>3. f[1] = <<s>>[1]
  <2>1. Steps(<<s>>, 1, f)
    BY <1>2, FlatStep
  <2> QED
    BY <2>1 DEF Steps
<1> QED
  BY <1>1, <1>2, <1>3

(***************************************************************************)
(* Packed tuples.                                                          *)
(***************************************************************************)
Bytes == Seq(Byte)

Element == [code : Byte, bytes : Bytes]

LEMMA ByteValues ==
    /\ 0 \in Byte /\ 255 \in Byte /\ 51 \in Byte /\ 5 \in Byte /\ 1 \in Byte /\ 2 \in Byte
    /\ 95 \in Byte /\ 105 \in Byte /\ 101 \in Byte
BY DEF Byte

LEMMA EscapeType ==
    ASSUME NEW s \in Bytes
    PROVE  escape(s) \in Bytes
<1> DEFINE q == [i \in DOMAIN s |-> IF s[i] = 0 THEN <<0, 255>> ELSE <<s[i]>>]
<1>1. s \in Seq(Byte) /\ Len(s) \in Nat /\ DOMAIN s = 1..Len(s)
  BY DEF Bytes
<1>2. ASSUME NEW i \in 1..Len(s)
      PROVE  /\ q[i] \in Seq(Byte)
             /\ Len(q[i]) # 0
  <2>1. s[i] \in Byte /\ i \in DOMAIN s
    BY <1>1
  <2>2. CASE s[i] = 0
    <3>1. q[i] = <<0, 255>>
      BY <2>1, <2>2
    <3> HIDE DEF q
    <3> QED
      BY <3>1, ByteValues
  <2>3. CASE s[i] # 0
    <3>1. q[i] = <<s[i]>>
      BY <2>1, <2>3
    <3> HIDE DEF q
    <3> QED
      BY <2>1, <3>1
  <2> QED
    BY <2>2, <2>3
<1>3. q \in Seq(Seq(Byte)) /\ Len(q) = Len(s)
  <2>1. q = [i \in 1..Len(s) |-> q[i]]
    BY <1>1
  <2> HIDE DEF q
  <2>2. [i \in 1..Len(s) |-> q[i]] \in Seq(Seq(Byte))
    BY <1>1, <1>2, IsASeq
  <2>3. Len([i \in 1..Len(s) |-> q[i]]) = Len(s)
    BY <1>1
  <2> QED
    BY <2>1, <2>2, <2>3
<1>4. escape(s) = FlattenSeq(q)
  BY DEF escape
<1>5. CASE Len(s) = 0
  <2>1. FlattenSeq(q) = q
    BY <1>3, <1>5 DEF FlattenSeq
  <2> HIDE DEF q
  <2>2. q = <<>>
    BY <1>3, <1>5
  <2> QED
    BY <1>4, <2>1, <2>2 DEF Bytes
<1>6. CASE Len(s) # 0
  <2> HIDE DEF q
  <2>1. 1 \in 1..Len(s)
    BY <1>1, <1>6
  <2>2. Len(q) # 0 /\ Len(q[1]) # 0
    BY <1>2, <1>3, <1>6, <2>1
  <2>3. FlattenSeq(q) \in Seq(Byte)
    BY <1>3, <2>2, FlattenType
  <2> QED
    BY <1>4, <2>3 DEF Bytes
<1> QED
  BY <1>5, <1>6

\* A packed element begins with its code.
LEMMA PackElement ==
    ASSUME NEW e \in Element
    PROVE  /\ pack_element(e) \in Seq(Byte)
           /\ Len(pack_element(e)) # 0 /\ pack_element(e)[1] = e.code
<1> DEFINE rest == IF e.code \in {1, 2} THEN escape(e.bytes) \o <<0>> ELSE e.bytes
<1>1. e.code \in Byte /\ e.bytes \in Seq(Byte) /\ e.bytes \in Bytes
  BY DEF Element, Bytes
<1>2. escape(e.bytes) \in Seq(Byte)
  BY <1>1, EscapeType DEF Bytes
<1>3. <<0>> \in Seq(Byte) /\ <<e.code>> \in Seq(Byte)
  BY <1>1, ByteValues
<1>4. escape(e.bytes) \o <<0>> \in Seq(Byte)
  BY <1>2, <1>3, ConcatProperties
<1>5. rest \in Seq(Byte)
  BY <1>1, <1>4
<1>6. pack_element(e) = <<e.code>> \o rest
  BY DEF pack_element
<1>7. Len(<<e.code>>) # 0 /\ <<e.code>>[1] = e.code
  OBVIOUS
<1> HIDE DEF rest
<1>8. <<e.code>> \o rest \in Seq(Byte) /\ Len(<<e.code>> \o rest) # 0
        /\ (<<e.code>> \o rest)[1] = <<e.code>>[1]
  BY <1>3, <1>5, <1>7, ConcatFirst
<1> QED
  BY <1>6, <1>7, <1>8

\* The packed elements of a tuple.
Packs(elems) == [i \in DOMAIN elems |-> pack_element(elems[i])]

LEMMA PacksIs ==
    ASSUME NEW elems \in Seq(Element)
    PROVE  /\ Packs(elems) \in Seq(Seq(Byte)) /\ Len(Packs(elems)) = Len(elems)
           /\ \A i \in 1..Len(elems) : Packs(elems)[i] = pack_element(elems[i])
<1>1. DOMAIN elems = 1..Len(elems) /\ Len(elems) \in Nat
  OBVIOUS
<1>2. \A i \in 1..Len(elems) : elems[i] \in Element
  OBVIOUS
<1>3. \A i \in 1..Len(elems) : pack_element(elems[i]) \in Seq(Byte)
  BY <1>2, PackElement
<1>4. Packs(elems) = [i \in 1..Len(elems) |-> pack_element(elems[i])]
  BY <1>1 DEF Packs
<1>5. [i \in 1..Len(elems) |-> pack_element(elems[i])] \in Seq(Seq(Byte))
  BY <1>1, <1>3, IsASeq
<1>6. Len([i \in 1..Len(elems) |-> pack_element(elems[i])]) = Len(elems)
  BY <1>1
<1>7. \A i \in 1..Len(elems) : Packs(elems)[i] = pack_element(elems[i])
  BY <1>4
<1> QED
  BY <1>4, <1>5, <1>6, <1>7

LEMMA PackType ==
    ASSUME NEW elems \in Seq(Element), Len(elems) # 0
    PROVE  /\ pack(elems) \in Seq(Byte)
           /\ Len(pack(elems)) # 0 /\ pack(elems)[1] = elems[1].code
<1> PICK q : q = Packs(elems)
  OBVIOUS
<1>1. 1 \in 1..Len(elems) /\ elems[1] \in Element
  OBVIOUS
<1>2. q \in Seq(Seq(Byte)) /\ Len(q) # 0 /\ q[1] = pack_element(elems[1])
  BY <1>1, PacksIs
<1>3. Len(q[1]) # 0 /\ q[1][1] = elems[1].code
  BY <1>1, <1>2, PackElement
<1>4. pack(elems) = FlattenSeq(q)
  BY DEF pack, Packs
<1>5. /\ FlattenSeq(q) \in Seq(Byte)
      /\ Len(FlattenSeq(q)) # 0 /\ FlattenSeq(q)[1] = q[1][1]
  BY <1>2, <1>3, FlattenType
<1> QED
  BY <1>3, <1>4, <1>5

\* An element more packs to the packed tuple followed by the packed element.
LEMMA PackAppend ==
    ASSUME NEW elems \in Seq(Element), Len(elems) # 0, NEW e \in Element
    PROVE  pack(Append(elems, e)) = pack(elems) \o pack_element(e)
<1> PICK q : q = Packs(elems)
  OBVIOUS
<1> PICK more : more = Append(elems, e)
  OBVIOUS
<1> PICK r : r = Packs(more)
  OBVIOUS
<1> PICK s : s = pack_element(e)
  OBVIOUS
<1>1. /\ q \in Seq(Seq(Byte)) /\ Len(q) = Len(elems) /\ Len(q) # 0
      /\ \A i \in 1..Len(elems) : q[i] = pack_element(elems[i])
  BY PacksIs
<1>2. /\ more \in Seq(Element) /\ Len(more) = Len(elems) + 1
      /\ \A i \in 1..Len(elems) : more[i] = elems[i]
      /\ more[Len(elems) + 1] = e
  BY AppendProperties
<1>3. /\ r \in Seq(Seq(Byte)) /\ Len(r) = Len(more)
      /\ \A i \in 1..Len(more) : r[i] = pack_element(more[i])
  BY <1>2, PacksIs
<1>4. s \in Seq(Byte)
  BY PackElement
<1>5. r = Append(q, s)
  <2> PICK n : n = Len(elems)
    OBVIOUS
  <2>1. n \in Nat /\ Len(elems) = n /\ Len(q) = n /\ Len(r) = n + 1 /\ Len(more) = n + 1
    BY <1>1, <1>2, <1>3
  <2>2. /\ Append(q, s) \in Seq(Seq(Byte)) /\ Len(Append(q, s)) = n + 1
        /\ \A i \in 1..n : Append(q, s)[i] = q[i]
        /\ Append(q, s)[n + 1] = s
    BY <1>1, <1>4, <2>1, AppendProperties
  <2>3. ASSUME NEW i \in 1..(n + 1)
        PROVE  r[i] = Append(q, s)[i]
    <3>1. CASE i = n + 1
      BY <1>2, <1>3, <2>1, <2>2, <3>1
    <3>2. CASE i # n + 1
      <4>1. i \in 1..n
        BY <2>1, <3>2
      <4>2. r[i] = pack_element(more[i])
        BY <1>3, <2>1
      <4> QED
        BY <1>1, <1>2, <2>1, <2>2, <4>1, <4>2
    <3> QED
      BY <3>1, <3>2
  <2>4. \A i \in 1..Len(r) : r[i] = Append(q, s)[i]
    BY <2>1, <2>3
  <2> QED
    BY <1>3, <2>1, <2>2, <2>4, SeqEqual
<1>6. FlattenSeq(Append(q, s)) = FlattenSeq(q) \o s
  BY <1>1, <1>4, FlattenAppend
<1>7. pack(more) = FlattenSeq(r) /\ pack(elems) = FlattenSeq(q)
  BY DEF pack, Packs
<1> QED
  BY <1>5, <1>6, <1>7

LEMMA PackOne ==
    ASSUME NEW e
    PROVE  pack(<<e>>) = pack_element(e)
<1>1. [i \in DOMAIN <<e>> |-> pack_element(<<e>>[i])] = <<pack_element(e)>>
  OBVIOUS
<1> QED
  BY <1>1, FlattenOne DEF pack

(***************************************************************************)
(* Versionstamps.                                                          *)
(***************************************************************************)

\* A word is a number below 65536; a batch index is a u16.
LEMMA WordIs ==
    ASSUME NEW w \in Word
    PROVE  w \in Int /\ w \in Nat
BY SMTT(30) DEF Word

\* The bytes of a word.
LEMMA TwoBytes ==
    ASSUME NEW v \in Word
    PROVE  /\ v \div 256 \in Byte /\ v % 256 \in Byte
           /\ v = 256 * (v \div 256) + (v % 256)
<1>1. v \in Int /\ 0 <= v /\ v <= 65535
  BY SMTT(30) DEF Word
<1>2. /\ v \div 256 \in Int /\ v % 256 \in Int /\ 0 <= v % 256 /\ v % 256 <= 255
      /\ v = 256 * (v \div 256) + (v % 256)
  BY <1>1
<1>3. 0 <= v \div 256 /\ v \div 256 <= 255
  BY <1>1, <1>2
<1> QED
  BY <1>2, <1>3, ByteIs

LEMMA StampIs ==
    ASSUME NEW p \in Position
    PROVE  /\ vs_bytes(p) \in Seq(Byte) /\ Len(vs_bytes(p)) = 4
           /\ vs_bytes(p)[1] = p.ver \div 256 /\ vs_bytes(p)[2] = p.ver % 256
           /\ vs_bytes(p)[3] = p.idx \div 256 /\ vs_bytes(p)[4] = p.idx % 256
<1>1. p.ver \in Word /\ p.idx \in Word
  BY DEF Position
<1>2. /\ p.ver \div 256 \in Byte /\ p.ver % 256 \in Byte
      /\ p.idx \div 256 \in Byte /\ p.idx % 256 \in Byte
  BY <1>1, TwoBytes
<1> QED
  BY <1>2 DEF vs_bytes

\* What vs_bytes writes, position_of reads: the two big-endian words of a versionstamp,
\* that extract_vs and the cursors decode, give the position back.
THEOREM StampRoundTrip ==
    ASSUME NEW p \in Position
    PROVE  position_of(vs_bytes(p)) = p
<1>1. p.ver \in Word /\ p.idx \in Word /\ p = [ver |-> p.ver, idx |-> p.idx]
  BY DEF Position
<1>2. /\ p.ver = 256 * (p.ver \div 256) + (p.ver % 256)
      /\ p.idx = 256 * (p.idx \div 256) + (p.idx % 256)
  BY <1>1, TwoBytes
<1>3. /\ vs_bytes(p)[1] = p.ver \div 256 /\ vs_bytes(p)[2] = p.ver % 256
      /\ vs_bytes(p)[3] = p.idx \div 256 /\ vs_bytes(p)[4] = p.idx % 256
  BY StampIs
<1>4. position_of(vs_bytes(p))
        = [ver |-> 256 * (p.ver \div 256) + (p.ver % 256),
           idx |-> 256 * (p.idx \div 256) + (p.idx % 256)]
  BY <1>3 DEF position_of
<1> QED
  BY <1>1, <1>2, <1>4

\* The order of four bytes.
LEMMA FourBytes ==
    ASSUME NEW a, NEW b,
           a[1] \in Int, a[2] \in Int, a[3] \in Int, a[4] \in Int,
           b[1] \in Int, b[2] \in Int, b[3] \in Int, b[4] \in Int
    PROVE  Lex(4, a, 4, b)
             <=> \/ a[1] < b[1]
                 \/ a[1] = b[1] /\ a[2] < b[2]
                 \/ a[1] = b[1] /\ a[2] = b[2] /\ a[3] < b[3]
                 \/ a[1] = b[1] /\ a[2] = b[2] /\ a[3] = b[3] /\ a[4] < b[4]
<1>1. Lex(4, a, 4, b) <=> \E i \in 1..4 : a[i] < b[i] /\ \A j \in 1..(i - 1) : a[j] = b[j]
  BY DEF Lex
<1>2. \A i : i \in 1..4 <=> i = 1 \/ i = 2 \/ i = 3 \/ i = 4
  OBVIOUS
<1>3. /\ \A j : j \in 1..(1 - 1) <=> FALSE
      /\ \A j : j \in 1..(2 - 1) <=> j = 1
      /\ \A j : j \in 1..(3 - 1) <=> j = 1 \/ j = 2
      /\ \A j : j \in 1..(4 - 1) <=> j = 1 \/ j = 2 \/ j = 3
  OBVIOUS
<1> QED
  BY <1>1, <1>2, <1>3

\* With one byte more on the right.
LEMMA FourOfFive ==
    ASSUME NEW a, NEW b, NEW c, Agree(4, c, b)
    PROVE  Lex(4, a, 5, c) <=> (Agree(4, a, b) \/ Lex(4, a, 4, b))
<1>1. Lex(4, a, 5, c) <=> \/ \A i \in 1..4 : a[i] = c[i]
                          \/ \E i \in 1..4 : a[i] < c[i] /\ \A j \in 1..(i - 1) : a[j] = c[j]
  <2>1. 4 < 5 /\ \A i \in 1..4 : i <= 5
    OBVIOUS
  <2> QED
    BY <2>1 DEF Lex
<1>2. Lex(4, a, 4, b) <=> \E i \in 1..4 : a[i] < b[i] /\ \A j \in 1..(i - 1) : a[j] = b[j]
  BY DEF Lex
<1>3. \A i \in 1..4 : c[i] = b[i] /\ \A j \in 1..(i - 1) : c[j] = b[j]
  <2>1. \A i \in 1..4 : \A j \in 1..(i - 1) : j \in 1..4
    OBVIOUS
  <2> QED
    BY <2>1 DEF Agree
<1> QED
  BY <1>1, <1>2, <1>3 DEF Agree

LEMMA WordOrder ==
    ASSUME NEW x \in Byte, NEW y \in Byte, NEW u \in Byte, NEW v \in Byte
    PROVE  /\ 256 * x + y < 256 * u + v <=> (x < u \/ (x = u /\ y < v))
           /\ 256 * x + y = 256 * u + v <=> (x = u /\ y = v)
BY DEF Byte

\* The order of the bytes of positions is the order of positions, across the
\* carries of both parts (encoding.rs: big-endian version and batch index).
THEOREM StampsInOrder ==
    ASSUME NEW p \in Position, NEW q \in Position
    PROVE  Less(vs_bytes(p), vs_bytes(q)) <=> Index!Before(p, q)
<1> PICK a : a = vs_bytes(p)
  OBVIOUS
<1> PICK b : b = vs_bytes(q)
  OBVIOUS
<1> HIDE DEF vs_bytes
<1>1. /\ a \in Seq(Byte) /\ Len(a) = 4 /\ b \in Seq(Byte) /\ Len(b) = 4
      /\ a[1] = p.ver \div 256 /\ a[2] = p.ver % 256
      /\ a[3] = p.idx \div 256 /\ a[4] = p.idx % 256
      /\ b[1] = q.ver \div 256 /\ b[2] = q.ver % 256
      /\ b[3] = q.idx \div 256 /\ b[4] = q.idx % 256
  BY StampIs
<1>2. /\ p.ver \in Word /\ p.idx \in Word
      /\ q.ver \in Word /\ q.idx \in Word
  BY DEF Position
<1>3. /\ a[1] \in Byte /\ a[2] \in Byte /\ p.ver = 256 * a[1] + a[2]
      /\ a[3] \in Byte /\ a[4] \in Byte /\ p.idx = 256 * a[3] + a[4]
      /\ b[1] \in Byte /\ b[2] \in Byte /\ q.ver = 256 * b[1] + b[2]
      /\ b[3] \in Byte /\ b[4] \in Byte /\ q.idx = 256 * b[3] + b[4]
  BY <1>1, <1>2, TwoBytes
<1>4. Less(a, b) <=> Lex(4, a, 4, b)
  <2>1. Less(a, b) <=> Lex(Len(a), a, Len(b), b)
    BY <1>1, LessIs
  <2> QED
    BY <1>1, <2>1
<1>5. /\ a[1] \in Int /\ a[2] \in Int /\ a[3] \in Int /\ a[4] \in Int
      /\ b[1] \in Int /\ b[2] \in Int /\ b[3] \in Int /\ b[4] \in Int
  BY <1>3, ByteIs
<1>6. Lex(4, a, 4, b)
        <=> \/ a[1] < b[1]
            \/ a[1] = b[1] /\ a[2] < b[2]
            \/ a[1] = b[1] /\ a[2] = b[2] /\ a[3] < b[3]
            \/ a[1] = b[1] /\ a[2] = b[2] /\ a[3] = b[3] /\ a[4] < b[4]
  BY <1>5, FourBytes
<1>7. /\ p.ver < q.ver <=> (a[1] < b[1] \/ (a[1] = b[1] /\ a[2] < b[2]))
      /\ p.ver = q.ver <=> (a[1] = b[1] /\ a[2] = b[2])
      /\ p.idx < q.idx <=> (a[3] < b[3] \/ (a[3] = b[3] /\ a[4] < b[4]))
  <2>1. \A x, y, u, v \in Byte :
           /\ 256 * x + y < 256 * u + v <=> (x < u \/ (x = u /\ y < v))
           /\ 256 * x + y = 256 * u + v <=> (x = u /\ y = v)
    BY WordOrder
  <2>2. /\ 256 * a[1] + a[2] < 256 * b[1] + b[2] <=> (a[1] < b[1] \/ (a[1] = b[1] /\ a[2] < b[2]))
        /\ 256 * a[1] + a[2] = 256 * b[1] + b[2] <=> (a[1] = b[1] /\ a[2] = b[2])
    <3>1. a[1] \in Byte /\ a[2] \in Byte /\ b[1] \in Byte /\ b[2] \in Byte
      BY <1>3
    <3> QED
      BY <2>1, <3>1
  <2>3. 256 * a[3] + a[4] < 256 * b[3] + b[4] <=> (a[3] < b[3] \/ (a[3] = b[3] /\ a[4] < b[4]))
    <3>1. a[3] \in Byte /\ a[4] \in Byte /\ b[3] \in Byte /\ b[4] \in Byte
      BY <1>3
    <3> QED
      BY <2>1, <3>1
  <2> QED
    BY <1>3, <2>2, <2>3
<1>8. Index!Before(p, q) <=> (p.ver < q.ver \/ (p.ver = q.ver /\ p.idx < q.idx))
  BY DEF Index!Before
<1> QED
  BY <1>4, <1>6, <1>7, <1>8

(***************************************************************************)
(* Keys of one type and tag set.                                           *)
(***************************************************************************)

\* c is the n bytes of p, then the m of a.
Joined(n, p, m, a, c) ==
    /\ \A i \in 1..n : c[i] = p[i]
    /\ \A i \in 1..m : c[n + i] = a[i]

LEMMA ConcatJoined ==
    ASSUME NEW p \in Seq(Byte), NEW a \in Seq(Byte)
    PROVE  Joined(Len(p), p, Len(a), a, p \o a)
<1>1. \A i \in 1..(Len(p) + Len(a)) : (p \o a)[i] = IF i <= Len(p) THEN p[i] ELSE a[i - Len(p)]
  BY ConcatProperties
<1>2. Len(p) \in Nat /\ Len(a) \in Nat
  OBVIOUS
<1>3. \A i \in 1..Len(p) : i \in 1..(Len(p) + Len(a)) /\ i <= Len(p)
  BY <1>2
<1>4. \A i \in 1..Len(a) : /\ Len(p) + i \in 1..(Len(p) + Len(a))
                           /\ ~(Len(p) + i <= Len(p)) /\ Len(p) + i - Len(p) = i
  BY <1>2
<1> QED
  BY <1>1, <1>3, <1>4 DEF Joined

LEMMA LexShift ==
    ASSUME NEW n \in Nat, NEW na \in Nat, NEW nb \in Nat, NEW p, NEW a, NEW b, NEW c, NEW d,
           AtMostFF(n, p), Joined(n, p, na, a, c), Joined(n, p, nb, b, d)
    PROVE  Lex(n + na, c, n + nb, d) <=> Lex(na, a, nb, b)
<1>1. /\ \A i \in 1..n : c[i] = p[i] /\ d[i] = p[i] /\ p[i] \in Int
      /\ \A i \in 1..na : c[n + i] = a[i]
      /\ \A i \in 1..nb : d[n + i] = b[i]
  BY DEF Joined, AtMostFF
<1>2. ASSUME Lex(n + na, c, n + nb, d)
      PROVE  Lex(na, a, nb, b)
  <2>1. CASE n + na < n + nb /\ \A i \in 1..(n + na) : c[i] = d[i]
    <3>1. na < nb /\ \A i \in 1..na : n + i \in 1..(n + na) /\ i \in 1..nb
      BY <2>1
    <3>2. \A i \in 1..na : a[i] = b[i]
      BY <1>1, <2>1, <3>1
    <3> QED
      BY <3>1, <3>2 DEF Lex
  <2>2. ASSUME NEW i \in 1..(n + na), i <= n + nb, c[i] < d[i], \A j \in 1..(i - 1) : c[j] = d[j]
        PROVE  Lex(na, a, nb, b)
    <3>1. ~(i \in 1..n)
      <4> SUFFICES ASSUME i \in 1..n PROVE FALSE
        OBVIOUS
      <4>1. c[i] = d[i] /\ d[i] \in Int
        BY <1>1
      <4> QED
        BY <2>2, <4>1
    <3> PICK k : k = i - n
      OBVIOUS
    <3>2. k \in 1..na /\ k <= nb /\ k \in 1..nb /\ n + k = i
             /\ \A j \in 1..(k - 1) : j \in 1..na /\ j \in 1..nb /\ n + j \in 1..(i - 1)
      BY <2>2, <3>1
    <3>3. a[k] < b[k]
      <4>1. c[n + k] < d[n + k]
        BY <2>2, <3>2
      <4> QED
        BY <1>1, <3>2, <4>1
    <3>4. \A j \in 1..(k - 1) : a[j] = b[j]
      BY <1>1, <2>2, <3>2
    <3> QED
      BY <3>2, <3>3, <3>4 DEF Lex
  <2> QED
    BY <1>2, <2>1, <2>2 DEF Lex
<1>3. ASSUME Lex(na, a, nb, b)
      PROVE  Lex(n + na, c, n + nb, d)
  <2>1. CASE na < nb /\ \A i \in 1..na : a[i] = b[i]
    <3>1. ASSUME NEW i \in 1..(n + na)
          PROVE  c[i] = d[i]
      <4>1. CASE i <= n
        <5>1. i \in 1..n
          BY <4>1
        <5> QED
          BY <1>1, <5>1
      <4>2. CASE ~(i <= n)
        <5> PICK k : k = i - n
          OBVIOUS
        <5>1. k \in 1..na /\ k \in 1..nb /\ n + k = i
          BY <2>1, <4>2
        <5> QED
          BY <1>1, <2>1, <5>1
      <4> QED
        BY <4>1, <4>2
    <3>2. n + na < n + nb
      BY <2>1
    <3> QED
      BY <3>1, <3>2 DEF Lex
  <2>2. ASSUME NEW k \in 1..na, k <= nb, a[k] < b[k], \A j \in 1..(k - 1) : a[j] = b[j]
        PROVE  Lex(n + na, c, n + nb, d)
    <3> PICK i : i = n + k
      OBVIOUS
    <3>1. i \in 1..(n + na) /\ i <= n + nb /\ k \in 1..nb
      BY <2>2
    <3>2. c[i] < d[i]
      BY <1>1, <2>2, <3>1
    <3>3. ASSUME NEW j \in 1..(i - 1)
          PROVE  c[j] = d[j]
      <4>1. CASE j <= n
        <5>1. j \in 1..n
          BY <4>1, <3>1
        <5> QED
          BY <1>1, <5>1
      <4>2. CASE ~(j <= n)
        <5> PICK l : l = j - n
          OBVIOUS
        <5>1. l \in 1..(k - 1) /\ l \in 1..na /\ l \in 1..nb /\ n + l = j
          BY <2>2, <3>1, <4>2
        <5> QED
          BY <1>1, <2>2, <5>1
      <4> QED
        BY <4>1, <4>2
    <3> QED
      BY <3>1, <3>2, <3>3 DEF Lex
  <2> QED
    BY <1>3, <2>1, <2>2 DEF Lex
<1> QED
  BY <1>2, <1>3

\* A common prefix does not count in the order of keys.
LEMMA CommonPrefix ==
    ASSUME NEW p \in Seq(Byte), NEW a \in Seq(Byte), NEW b \in Seq(Byte)
    PROVE  Less(p \o a, p \o b) <=> Less(a, b)
<1>1. /\ p \o a \in Seq(Byte) /\ Len(p \o a) = Len(p) + Len(a)
      /\ p \o b \in Seq(Byte) /\ Len(p \o b) = Len(p) + Len(b)
  BY ConcatProperties
<1>2. /\ Less(p \o a, p \o b) <=> Lex(Len(p \o a), p \o a, Len(p \o b), p \o b)
      /\ Less(a, b) <=> Lex(Len(a), a, Len(b), b)
  BY <1>1, LessIs
<1>3. Joined(Len(p), p, Len(a), a, p \o a) /\ Joined(Len(p), p, Len(b), b, p \o b)
  BY ConcatJoined
<1>4. Len(p) \in Nat /\ Len(a) \in Nat /\ Len(b) \in Nat /\ AtMostFF(Len(p), p)
  BY BytesOf DEF AtMostFF
<1>5. Lex(Len(p) + Len(a), p \o a, Len(p) + Len(b), p \o b) <=> Lex(Len(a), a, Len(b), b)
  BY <1>3, <1>4, LexShift
<1> QED
  BY <1>1, <1>2, <1>5

\* What is below the bytes of a position followed by a NUL: that position, and
\* those before it.
LEMMA BelowNul ==
    ASSUME NEW p \in Position, NEW after \in Position
    PROVE  Less(vs_bytes(p), vs_bytes(after) \o <<0>>) <=> ~Index!Before(after, p)
<1> PICK a : a = vs_bytes(p)
  OBVIOUS
<1> PICK b : b = vs_bytes(after)
  OBVIOUS
<1> PICK c : c = b \o <<0>>
  OBVIOUS
<1>1. a \in Seq(Byte) /\ Len(a) = 4 /\ b \in Seq(Byte) /\ Len(b) = 4
  BY StampIs
<1>2. <<0>> \in Seq(Byte) /\ Len(<<0>>) = 1
  BY ByteValues
<1>3. c \in Seq(Byte) /\ Len(c) = 5
  <2>1. b \o <<0>> \in Seq(Byte) /\ Len(b \o <<0>>) = Len(b) + Len(<<0>>)
    BY <1>1, <1>2, ConcatProperties
  <2> QED
    BY <1>1, <1>2, <2>1
<1>4. \A i \in 1..4 : c[i] = b[i]
  <2>1. Joined(Len(b), b, Len(<<0>>), <<0>>, b \o <<0>>)
    BY <1>1, <1>2, ConcatJoined
  <2>2. \A i \in 1..Len(b) : c[i] = b[i]
    BY <2>1 DEF Joined
  <2> QED
    BY <1>1, <2>2
<1>5. Less(a, c) <=> Lex(4, a, 5, c)
  <2>1. Less(a, c) <=> Lex(Len(a), a, Len(c), c)
    BY <1>1, <1>3, LessIs
  <2> QED
    BY <1>1, <1>3, <2>1
<1>6. Less(a, b) <=> Lex(4, a, 4, b)
  <2>1. Less(a, b) <=> Lex(Len(a), a, Len(b), b)
    BY <1>1, LessIs
  <2> QED
    BY <1>1, <2>1
<1>7. Lex(4, a, 5, c) <=> (a = b \/ Lex(4, a, 4, b))
  <2>1. Agree(4, a, b) <=> a = b
    <3>1. (\A i \in 1..Len(a) : a[i] = b[i]) /\ Len(a) = Len(b) => a = b
      BY <1>1, SeqEqual
    <3> QED
      BY <1>1, <3>1 DEF Agree
  <2>2. Agree(4, c, b)
    BY <1>4 DEF Agree
  <2> QED
    BY <2>1, <2>2, FourOfFive
<1>8. a = b <=> p = after
  <2>1. position_of(a) = p /\ position_of(b) = after
    BY StampRoundTrip
  <2> QED
    BY <2>1
<1>9. Less(a, b) <=> Index!Before(p, after)
  BY StampsInOrder
<1>10. ~Index!Before(after, p) <=> (p = after \/ Index!Before(p, after))
  <2>1. /\ p = [ver |-> p.ver, idx |-> p.idx] /\ after = [ver |-> after.ver, idx |-> after.idx]
        /\ p.ver \in Word /\ p.idx \in Word /\ after.ver \in Word /\ after.idx \in Word
    BY DEF Position
  <2>2. \A w \in Word : w \in Int
    BY WordIs
  <2>3. p = after <=> (p.ver = after.ver /\ p.idx = after.idx)
    BY <2>1
  <2>4. p.ver \in Int /\ p.idx \in Int /\ after.ver \in Int /\ after.idx \in Int
    BY <2>1, <2>2
  <2> QED
    BY <2>3, <2>4 DEF Index!Before
<1> QED
  BY <1>5, <1>6, <1>7, <1>8, <1>9, <1>10

\* The bytes of a versionstamp in a key.
Stamp(p) == <<51>> \o vs_bytes(p)

LEMMA StampPacked ==
    ASSUME NEW p \in Position
    PROVE  /\ Vs(vs_bytes(p)) \in Element /\ pack_element(Vs(vs_bytes(p))) = Stamp(p)
           /\ Stamp(p) \in Seq(Byte) /\ Len(Stamp(p)) = 5
<1>1. vs_bytes(p) \in Seq(Byte) /\ Len(vs_bytes(p)) = 4
  BY StampIs
<1>2. <<51>> \in Seq(Byte) /\ Len(<<51>>) = 1
  BY ByteValues
<1> HIDE DEF vs_bytes
<1>3. Stamp(p) \in Seq(Byte) /\ Len(Stamp(p)) = 5
  <2>1. <<51>> \o vs_bytes(p) \in Seq(Byte)
          /\ Len(<<51>> \o vs_bytes(p)) = Len(<<51>>) + Len(vs_bytes(p))
    BY <1>1, <1>2, ConcatProperties
  <2> QED
    BY <1>1, <1>2, <2>1 DEF Stamp
<1>4. Vs(vs_bytes(p)) \in Element
  BY <1>1, ByteValues DEF Vs, Element, Bytes
<1>5. pack_element(Vs(vs_bytes(p))) = Stamp(p)
  <2>1. Vs(vs_bytes(p)).code = 51 /\ Vs(vs_bytes(p)).bytes = vs_bytes(p)
    BY DEF Vs
  <2>2. 51 \notin {1, 2}
    OBVIOUS
  <2> QED
    BY <2>1, <2>2 DEF pack_element, Stamp
<1> QED
  BY <1>3, <1>4, <1>5

\* The elements of a tag set's subspace.
LEMMA TagElements ==
    ASSUME NEW ns \in Bytes, NEW sorted \in Seq(Bytes)
    PROVE  /\ tag_sentinel_elems(ns, sorted) \in Seq(Element)
           /\ Len(tag_sentinel_elems(ns, sorted)) # 0
           /\ tag_sentinel_elems(ns, sorted)[1] = Str(ns)
<1>1. \A s \in Bytes : Str(s) \in Element
  BY ByteValues DEF Str, Element
<1>2. INDEXES_SUB \in Bytes /\ EVENTS_IN_INDEXES_SUB \in Bytes
  BY ByteValues DEF INDEXES_SUB, EVENTS_IN_INDEXES_SUB, Bytes
<1> DEFINE head == <<Str(ns), Str(INDEXES_SUB)>>
           tags == [i \in DOMAIN sorted |-> Str(sorted[i])]
           end  == <<Str(EVENTS_IN_INDEXES_SUB)>>
<1>3. head \in Seq(Element) /\ Len(head) # 0 /\ head[1] = Str(ns)
  BY <1>1, <1>2
<1>4. end \in Seq(Element)
  BY <1>1, <1>2
<1>5. tags \in Seq(Element)
  <2>1. DOMAIN sorted = 1..Len(sorted) /\ Len(sorted) \in Nat
    OBVIOUS
  <2>2. \A i \in 1..Len(sorted) : sorted[i] \in Bytes
    OBVIOUS
  <2>3. \A i \in 1..Len(sorted) : Str(sorted[i]) \in Element
    BY <1>1, <2>2
  <2>4. [i \in 1..Len(sorted) |-> Str(sorted[i])] \in Seq(Element)
    BY <2>1, <2>3, IsASeq
  <2> QED
    BY <2>1, <2>4
<1>6. tag_sentinel_elems(ns, sorted) = (head \o tags) \o end
  BY DEF tag_sentinel_elems
<1> HIDE DEF head, tags, end
<1>7. head \o tags \in Seq(Element) /\ Len(head \o tags) # 0 /\ (head \o tags)[1] = head[1]
  BY <1>3, <1>5, ConcatFirst
<1>8. /\ (head \o tags) \o end \in Seq(Element) /\ Len((head \o tags) \o end) # 0
      /\ ((head \o tags) \o end)[1] = (head \o tags)[1]
  BY <1>4, <1>7, ConcatFirst
<1> QED
  BY <1>3, <1>6, <1>7, <1>8

\* strinc is defined for it.
HasNext(prefix) == prefix \in Seq(Byte) /\ \E i \in 1..Len(prefix) : prefix[i] # 255

\* The prefix of the keys of a type under a tag set.
LEMMA PrefixBytes ==
    ASSUME NEW ns \in Bytes, NEW sorted \in Seq(Bytes), NEW type \in Bytes
    PROVE  HasNext(tag_type_prefix(ns, sorted, type))
<1> PICK elems : elems = tag_sentinel_elems(ns, sorted)
  OBVIOUS
<1> PICK t : t = Str(type)
  OBVIOUS
<1>1. t \in Element
  BY ByteValues DEF Str, Element
<1>2. elems \in Seq(Element) /\ Len(elems) # 0 /\ elems[1] = Str(ns)
  BY TagElements
<1>3. /\ Append(elems, t) \in Seq(Element) /\ Len(Append(elems, t)) # 0
      /\ Append(elems, t)[1] = elems[1]
  <2>1. Append(elems, t) = elems \o <<t>> /\ <<t>> \in Seq(Element)
    BY <1>1, <1>2, AppendIsConcat
  <2> QED
    BY <1>2, <2>1, ConcatFirst
<1> PICK key : key = pack(Append(elems, t))
  OBVIOUS
<1>4. key \in Seq(Byte) /\ Len(key) # 0 /\ key[1] = 2
  <2>1. Str(ns).code = 2
    BY DEF Str
  <2> QED
    BY <1>2, <1>3, <2>1, PackType
<1>5. 1 \in 1..Len(key) /\ key[1] # 255
  BY <1>4
<1>6. tag_type_prefix(ns, sorted, type) = key
  BY DEF tag_type_prefix
<1> QED
  BY <1>4, <1>5, <1>6 DEF HasNext

LEMMA PairIs ==
    ASSUME NEW a, NEW b
    PROVE  <<a>> \o <<b>> = <<a, b>>
<1> DEFINE S == {a, b}
<1>1. <<a>> \in Seq(S) /\ <<b>> \in Seq(S) /\ <<a, b>> \in Seq(S)
  OBVIOUS
<1>2. /\ Len(<<a>>) = 1 /\ Len(<<b>>) = 1 /\ Len(<<a, b>>) = 2
      /\ <<a>>[1] = a /\ <<b>>[1] = b /\ <<a, b>>[1] = a /\ <<a, b>>[2] = b
  OBVIOUS
<1> HIDE DEF S
<1> PICK c : c = <<a>> \o <<b>>
  OBVIOUS
<1>3. c \in Seq(S) /\ Len(c) = 2 /\ c[1] = a /\ c[2] = b
  <2>1. c \in Seq(S) /\ Len(c) = Len(<<a>>) + Len(<<b>>)
    BY <1>1, ConcatProperties
  <2>2. \A i \in 1..(Len(<<a>>) + Len(<<b>>)) :
           c[i] = IF i <= Len(<<a>>) THEN <<a>>[i] ELSE <<b>>[i - Len(<<a>>)]
    BY <1>1, ConcatProperties
  <2>3. \A i \in 1..2 : c[i] = IF i <= 1 THEN <<a>>[i] ELSE <<b>>[i - 1]
    BY <1>2, <2>2
  <2>4. 1 \in 1..2 /\ 2 \in 1..2 /\ 1 <= 1 /\ ~(2 <= 1) /\ 2 - 1 = 1
    OBVIOUS
  <2>5. c[1] = <<a>>[1] /\ c[2] = <<b>>[1]
    BY <2>3, <2>4
  <2> QED
    BY <1>2, <2>1, <2>5
<1>4. \A i \in 1..2 : i = 1 \/ i = 2
  OBVIOUS
<1>5. Len(c) = Len(<<a, b>>) /\ \A i \in 1..Len(c) : c[i] = <<a, b>>[i]
  BY <1>2, <1>3, <1>4
<1> QED
  BY <1>1, <1>3, <1>5, SeqEqual

\* A key of a type is the prefix of the type and the versionstamp.
LEMMA KeyIs ==
    ASSUME NEW ns \in Bytes, NEW sorted \in Seq(Bytes), NEW type \in Bytes, NEW p \in Position
    PROVE  pack_tag_index_key(ns, sorted, type, p) = tag_type_prefix(ns, sorted, type) \o Stamp(p)
<1> PICK elems : elems = tag_sentinel_elems(ns, sorted)
  OBVIOUS
<1> PICK t : t = Str(type)
  OBVIOUS
<1> PICK v : v = Vs(vs_bytes(p))
  OBVIOUS
<1>1. t \in Element
  BY ByteValues DEF Str, Element
<1>2. v \in Element /\ pack_element(v) = Stamp(p)
  BY StampPacked
<1>3. elems \in Seq(Element) /\ Len(elems) # 0
  BY TagElements
<1>4. Append(elems, t) \in Seq(Element) /\ Len(Append(elems, t)) # 0
  <2>1. Append(elems, t) = elems \o <<t>> /\ <<t>> \in Seq(Element)
    BY <1>1, <1>3, AppendIsConcat
  <2> QED
    BY <1>3, <2>1, ConcatFirst
<1>5. elems \o <<t, v>> = Append(Append(elems, t), v)
  <2>1. <<t>> \in Seq(Element) /\ <<v>> \in Seq(Element) /\ <<t>> \o <<v>> = <<t, v>>
    <3>1. <<t>> \in Seq(Element) /\ <<v>> \in Seq(Element)
      BY <1>1, <1>2
    <3>2. <<t>> \o <<v>> = <<t, v>>
      BY PairIs
    <3> QED
      BY <3>1, <3>2
  <2>2. Append(elems, t) = elems \o <<t>>
    BY <1>1, <1>3, AppendIsConcat
  <2>3. Append(Append(elems, t), v) = Append(elems, t) \o <<v>>
    BY <1>2, <1>4, AppendIsConcat
  <2>4. (elems \o <<t>>) \o <<v>> = elems \o (<<t>> \o <<v>>)
    BY <1>3, <2>1, ConcatAssociative
  <2> QED
    BY <2>1, <2>2, <2>3, <2>4
<1>6. pack(Append(Append(elems, t), v)) = pack(Append(elems, t)) \o pack_element(v)
  BY <1>2, <1>4, PackAppend
<1>7. pack_tag_index_key(ns, sorted, type, p) = pack(elems \o <<t, v>>)
  BY DEF pack_tag_index_key
<1>8. tag_type_prefix(ns, sorted, type) = pack(Append(elems, t))
  BY DEF tag_type_prefix
<1> QED
  BY <1>2, <1>5, <1>6, <1>7, <1>8

\* Scans of a type are in the order of positions: its keys under one tag set
\* compare as their positions do, for all strings (ScansInOrder, for the keys of
\* the range's own type).
THEOREM KeysInOrder ==
    ASSUME NEW ns \in Bytes, NEW sorted \in Seq(Bytes), NEW type \in Bytes,
           NEW p \in Position, NEW q \in Position
    PROVE  Less(pack_tag_index_key(ns, sorted, type, p), pack_tag_index_key(ns, sorted, type, q))
             <=> Index!Before(p, q)
<1> PICK prefix : prefix = tag_type_prefix(ns, sorted, type)
  OBVIOUS
<1> PICK a : a = vs_bytes(p)
  OBVIOUS
<1> PICK b : b = vs_bytes(q)
  OBVIOUS
<1>1. prefix \in Seq(Byte)
  BY PrefixBytes DEF HasNext
<1>2. /\ pack_tag_index_key(ns, sorted, type, p) = prefix \o Stamp(p)
      /\ pack_tag_index_key(ns, sorted, type, q) = prefix \o Stamp(q)
  BY KeyIs
<1>3. Stamp(p) \in Seq(Byte) /\ Stamp(q) \in Seq(Byte)
  BY StampPacked
<1>4. a \in Seq(Byte) /\ b \in Seq(Byte) /\ <<51>> \in Seq(Byte)
  BY StampIs, ByteValues
<1>5. Less(prefix \o Stamp(p), prefix \o Stamp(q)) <=> Less(Stamp(p), Stamp(q))
  BY <1>1, <1>3, CommonPrefix
<1>6. Less(<<51>> \o a, <<51>> \o b) <=> Less(a, b)
  BY <1>4, CommonPrefix
<1>7. Less(a, b) <=> Index!Before(p, q)
  BY StampsInOrder
<1>8. Stamp(p) = <<51>> \o a /\ Stamp(q) = <<51>> \o b
  BY DEF Stamp
<1> QED
  BY <1>2, <1>5, <1>6, <1>7, <1>8

LEMMA NotBelowLonger ==
    ASSUME NEW p \in Seq(Byte), NEW x \in Seq(Byte), NEW k \in Seq(Byte), ~Less(k, p \o x)
    PROVE  ~Less(k, p)
<1> PICK c : c = p \o x
  OBVIOUS
<1>1. c \in Seq(Byte) /\ Len(c) = Len(p) + Len(x)
  BY ConcatProperties
<1>2. \A i \in 1..Len(p) : c[i] = p[i]
  BY ConcatJoined DEF Joined
<1>3. /\ Less(k, p) <=> Lex(Len(k), k, Len(p), p)
      /\ Less(k, c) <=> Lex(Len(k), k, Len(c), c)
  BY <1>1, LessIs
<1>4. Len(p) \in Nat /\ Len(x) \in Nat /\ Len(k) \in Nat /\ Len(p) <= Len(c)
  BY <1>1
<1>5. ASSUME Lex(Len(k), k, Len(p), p)
      PROVE  Lex(Len(k), k, Len(c), c)
  <2>1. CASE Len(k) < Len(p) /\ \A i \in 1..Len(k) : k[i] = p[i]
    <3>1. Len(k) < Len(c) /\ \A i \in 1..Len(k) : i \in 1..Len(p)
      BY <1>1, <1>4, <2>1
    <3>2. \A i \in 1..Len(k) : k[i] = c[i]
      BY <1>2, <2>1, <3>1
    <3> QED
      BY <3>1, <3>2 DEF Lex
  <2>2. ASSUME NEW i \in 1..Len(k), i <= Len(p), k[i] < p[i], \A j \in 1..(i - 1) : k[j] = p[j]
        PROVE  Lex(Len(k), k, Len(c), c)
    <3>1. i \in 1..Len(p) /\ i <= Len(c) /\ \A j \in 1..(i - 1) : j \in 1..Len(p)
      BY <1>1, <1>4, <2>2
    <3>2. k[i] < c[i] /\ \A j \in 1..(i - 1) : k[j] = c[j]
      BY <1>2, <2>2, <3>1
    <3> QED
      BY <3>1, <3>2 DEF Lex
  <2> QED
    BY <1>5, <2>1, <2>2 DEF Lex
<1> QED
  BY <1>3, <1>5

\* The bytes after the prefix with which a range after a position begins.
Bound(after) == <<51>> \o (vs_bytes(after) \o <<0>>)

LEMMA BoundIs ==
    ASSUME NEW after \in Position
    PROVE  /\ Bound(after) \in Seq(Byte)
           /\ \A p \in Position : Less(Stamp(p), Bound(after)) <=> ~Index!Before(after, p)
<1> PICK b : b = vs_bytes(after) \o <<0>>
  OBVIOUS
<1>1. b \in Seq(Byte) /\ <<51>> \in Seq(Byte)
  <2>1. vs_bytes(after) \in Seq(Byte) /\ <<0>> \in Seq(Byte)
    BY StampIs, ByteValues
  <2> QED
    BY <2>1, ByteValues, ConcatProperties
<1>2. Bound(after) = <<51>> \o b
  BY DEF Bound
<1>3. <<51>> \o b \in Seq(Byte)
  BY <1>1, ConcatProperties
<1>4. ASSUME NEW p \in Position
      PROVE  Less(Stamp(p), Bound(after)) <=> ~Index!Before(after, p)
  <2>1. Less(vs_bytes(p), b) <=> ~Index!Before(after, p)
    BY BelowNul
  <2> PICK a : a = vs_bytes(p)
    OBVIOUS
  <2>2. a \in Seq(Byte)
    BY StampIs
  <2>3. Less(<<51>> \o a, <<51>> \o b) <=> Less(a, b)
    BY <1>1, <2>2, CommonPrefix
  <2> QED
    BY <1>2, <2>1, <2>3 DEF Stamp
<1> QED
  BY <1>2, <1>3, <1>4

\* The two ends of the range of a type.
Ends(r, prefix, after) ==
    /\ r.end = strinc(prefix)
    /\ after = Origin => r.begin = prefix
    /\ after # Origin => r.begin = prefix \o Bound(after)

LEMMA RangeEnds ==
    ASSUME NEW ns \in Bytes, NEW sorted \in Seq(Bytes), NEW type \in Bytes, NEW after \in Position
    PROVE  Ends(type_range(ns, sorted, type, after), tag_type_prefix(ns, sorted, type), after)
<1> PICK prefix : prefix = tag_type_prefix(ns, sorted, type)
  OBVIOUS
<1>1. prefix \in Seq(Byte)
  BY PrefixBytes DEF HasNext
<1> HIDE DEF strinc
<1>2. CASE after = Origin
  BY <1>2 DEF type_range, prefix_range, Ends
<1>3. CASE after # Origin
  <2> PICK b : b = vs_bytes(after)
    OBVIOUS
  <2> PICK st : st = Stamp(after)
    OBVIOUS
  <2> PICK z : z = <<0>>
    OBVIOUS
  <2>1. b \in Seq(Byte) /\ <<51>> \in Seq(Byte) /\ z \in Seq(Byte) /\ st \in Seq(Byte)
    BY StampIs, StampPacked, ByteValues
  <2>2. pack(<<Vs(b)>>) = st
    BY PackOne, StampPacked
  <2>3. type_range(ns, sorted, type, after)
          = [begin |-> (prefix \o st) \o z, end |-> strinc(prefix)]
    BY <1>3, <2>2 DEF type_range, after_range
  <2>4. (prefix \o st) \o z = prefix \o (st \o z)
    BY <1>1, <2>1, ConcatAssociative
  <2>5. (<<51>> \o b) \o z = <<51>> \o (b \o z)
    BY <2>1, ConcatAssociative
  <2>6. st = <<51>> \o b
    BY DEF Stamp
  <2> QED
    BY SMTT(30), <1>3, <2>3, <2>4, <2>5, <2>6 DEF Ends, Bound
<1> QED
  BY <1>2, <1>3

\* A key is in a range of the database.
InByteRange(k, r) == ~Less(k, r.begin) /\ Less(k, r.end)

\* Every key that a scan of a type returns begins with the packed type, whatever
\* the bound: nothing under another namespace, subspace, tag set or separator is
\* read (query.rs: prefix_range, after_range; read.rs).
THEOREM RangeWithinPrefix ==
    ASSUME NEW ns \in Bytes, NEW sorted \in Seq(Bytes), NEW type \in Bytes, NEW after \in Position,
           NEW k \in Seq(Byte), InByteRange(k, type_range(ns, sorted, type, after))
    PROVE  IsPrefix(tag_type_prefix(ns, sorted, type), k)
<1> PICK prefix : prefix = tag_type_prefix(ns, sorted, type)
  OBVIOUS
<1>1. prefix \in Seq(Byte) /\ \E i \in 1..Len(prefix) : prefix[i] # 255
  <2>1. HasNext(prefix)
    BY PrefixBytes
  <2> QED
    BY <2>1 DEF HasNext
<1> PICK r : r = type_range(ns, sorted, type, after)
  OBVIOUS
<1> PICK tail : tail = Bound(after)
  OBVIOUS
<1>2. /\ r.end = strinc(prefix)
      /\ after = Origin => r.begin = prefix
      /\ after # Origin => r.begin = prefix \o tail
  <2>1. Ends(r, prefix, after)
    BY RangeEnds
  <2> HIDE DEF strinc
  <2> QED
    BY <2>1 DEF Ends
<1>3. ~Less(k, r.begin) /\ Less(k, strinc(prefix))
  BY <1>2 DEF InByteRange
<1>4. tail \in Seq(Byte)
  BY BoundIs
<1>5. ~Less(k, prefix)
  <2>1. CASE after = Origin
    BY <1>2, <1>3, <2>1
  <2>2. CASE after # Origin
    <3>1. ~Less(k, prefix \o tail)
      BY <1>2, <1>3, <2>2
    <3>2. prefix \in Seq(Byte) /\ tail \in Seq(Byte) /\ k \in Seq(Byte)
      BY <1>1, <1>4
    <3> QED
      BY <3>1, <3>2, NotBelowLonger
  <2> QED
    BY <2>1, <2>2
<1>6. prefix_range(prefix).begin = prefix /\ prefix_range(prefix).end = strinc(prefix)
  BY DEF prefix_range
<1> HIDE DEF strinc, prefix_range
<1>7. ~Less(k, prefix_range(prefix).begin) /\ Less(k, prefix_range(prefix).end)
         <=> IsPrefix(prefix, k)
  BY <1>1, PrefixRangeExact
<1> QED
  BY <1>3, <1>5, <1>6, <1>7

\* The range of a type after a bound holds exactly those keys of the type that
\* DCBIndex puts in the range: the ones strictly after the bound, over every
\* carry and for strings of any bytes (query.rs: after_range with its trailing
\* 0x00; RangesExact, for the keys of the range's own type).
THEOREM OwnKeysInRange ==
    ASSUME NEW ns \in Bytes, NEW sorted \in Seq(Bytes), NEW type \in Bytes,
           NEW after \in Position, NEW p \in Position, p # Origin
    PROVE  InByteRange(pack_tag_index_key(ns, sorted, type, p), type_range(ns, sorted, type, after))
             <=> Index!Before(after, p)
<1> PICK prefix : prefix = tag_type_prefix(ns, sorted, type)
  OBVIOUS
<1> PICK k : k = pack_tag_index_key(ns, sorted, type, p)
  OBVIOUS
<1> PICK r : r = type_range(ns, sorted, type, after)
  OBVIOUS
<1>1. prefix \in Seq(Byte) /\ \E i \in 1..Len(prefix) : prefix[i] # 255
  <2>1. HasNext(prefix)
    BY PrefixBytes
  <2> QED
    BY <2>1 DEF HasNext
<1>2. /\ r.end = strinc(prefix)
      /\ after = Origin => r.begin = prefix
      /\ after # Origin => r.begin = prefix \o Bound(after)
  <2>1. Ends(r, prefix, after)
    BY RangeEnds
  <2> HIDE DEF strinc
  <2> QED
    BY <2>1 DEF Ends
<1>3. Stamp(p) \in Seq(Byte) /\ Bound(after) \in Seq(Byte)
  BY StampPacked, BoundIs
<1>4. k = prefix \o Stamp(p)
  BY KeyIs
<1>6. k \in Seq(Byte) /\ IsPrefix(prefix, k)
  <2> PICK t : t = Stamp(p)
    OBVIOUS
  <2>1. k \in Seq(Byte) /\ Len(k) = Len(prefix) + Len(t) /\ t \in Seq(Byte)
    BY <1>1, <1>3, <1>4, ConcatProperties
  <2>2. \A i \in 1..Len(prefix) : k[i] = prefix[i]
    BY <1>1, <1>3, <1>4, ConcatJoined DEF Joined
  <2>3. Len(prefix) <= Len(k)
    <3>1. Len(prefix) \in Nat /\ Len(t) \in Nat
      BY <1>1, <2>1
    <3> QED
      BY <2>1, <3>1
  <2> QED
    BY <1>1, <2>1, <2>2, <2>3, PrefixIs
<1>7. ~Less(k, prefix) /\ Less(k, strinc(prefix))
  <2>1. prefix_range(prefix).begin = prefix /\ prefix_range(prefix).end = strinc(prefix)
    BY DEF prefix_range
  <2> HIDE DEF strinc, prefix_range
  <2>2. ~Less(k, prefix_range(prefix).begin) /\ Less(k, prefix_range(prefix).end)
           <=> IsPrefix(prefix, k)
    BY <1>1, <1>6, PrefixRangeExact
  <2> QED
    BY <1>6, <2>1, <2>2
<1> HIDE DEF strinc
<1>8. CASE after = Origin
  <2>1. Index!Before(after, p)
    <3>1. p = [ver |-> p.ver, idx |-> p.idx] /\ p.ver \in Word /\ p.idx \in Word
      BY DEF Position
    <3>2. p.ver \in Nat /\ p.idx \in Nat
      BY <3>1, WordIs
    <3>3. p.ver # 0 \/ p.idx # 0
      BY <3>1 DEF Origin
    <3> QED
      BY <1>8, <3>2, <3>3 DEF Index!Before, Origin
  <2> QED
    BY <1>2, <1>7, <1>8, <2>1 DEF InByteRange
<1>9. CASE after # Origin
  <2>1. Less(prefix \o Stamp(p), prefix \o Bound(after)) <=> Less(Stamp(p), Bound(after))
    BY <1>1, <1>3, CommonPrefix
  <2>2. Less(k, r.begin) <=> Less(Stamp(p), Bound(after))
    BY <1>2, <1>4, <1>9, <2>1
  <2>3. Less(Stamp(p), Bound(after)) <=> ~Index!Before(after, p)
    BY BoundIs
  <2> QED
    BY <1>2, <1>7, <2>1, <2>2, <2>3 DEF InByteRange
<1> QED
  BY <1>8, <1>9
===============================================================================
