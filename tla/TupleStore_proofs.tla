--------------------------- MODULE TupleStore_proofs ---------------------------
(***************************************************************************)
(* Proofs about the store of TupleKeys: the parser of the tuple layer      *)
(* gives back what was packed, and from it the invariants of the byte      *)
(* level, for any strings, events, positions and number of writes.         *)
(***************************************************************************)
EXTENDS TupleKeys_proofs, FiniteSetTheorems

(***************************************************************************)
(* Runs of the parser.                                                     *)
(***************************************************************************)

\* The states of the parser while it reads w from state st.
Run(st, w, f) == f = [i \in 0..Len(w) |-> IF i = 0 THEN st ELSE unpack_byte(f[i - 1], w[i])]

\* From state st the parser reads w and is in state to.
Reads(st, w, to) == \E f : Run(st, w, f) /\ f[Len(w)] = to

Follows(st, w, f) ==
    /\ f[0] = st
    /\ \A i \in 1..Len(w) : f[i] = unpack_byte(f[i - 1], w[i])

LEMMA RunFollows ==
    ASSUME NEW st, NEW w \in Bytes, NEW f, Run(st, w, f)
    PROVE  Follows(st, w, f)
<1>1. Len(w) \in Nat
  BY DEF Bytes
<1>2. \A i \in 0..Len(w) : f[i] = IF i = 0 THEN st ELSE unpack_byte(f[i - 1], w[i])
  BY DEF Run
<1>3. 0 \in 0..Len(w) /\ \A i \in 1..Len(w) : i \in 0..Len(w) /\ i # 0
  BY <1>1
<1> QED
  BY <1>2, <1>3 DEF Follows

LEMMA FollowsReads ==
    ASSUME NEW st, NEW w \in Bytes, NEW f, Follows(st, w, f)
    PROVE  Reads(st, w, f[Len(w)])
<1> DEFINE g == [i \in 0..Len(w) |-> f[i]]
<1>1. Len(w) \in Nat
  BY DEF Bytes
<1>2. ASSUME NEW i \in 0..Len(w)
      PROVE  g[i] = IF i = 0 THEN st ELSE unpack_byte(g[i - 1], w[i])
  <2>1. CASE i = 0
    BY <2>1 DEF Follows
  <2>2. CASE i # 0
    <3>1. i \in 1..Len(w) /\ i - 1 \in 0..Len(w)
      BY <1>1, <2>2
    <3>2. f[i] = unpack_byte(f[i - 1], w[i])
      BY <3>1 DEF Follows
    <3> QED
      BY <2>2, <3>1, <3>2
  <2> QED
    BY <2>1, <2>2
<1>3. g[Len(w)] = f[Len(w)]
  BY <1>1
<1>4. g = [i \in 0..Len(w) |-> g[i]]
  OBVIOUS
<1> HIDE DEF g
<1>5. Run(st, w, g)
  BY <1>2, <1>4 DEF Run
<1> QED
  BY <1>3, <1>5 DEF Reads

LEMMA ReadsNothing ==
    ASSUME NEW st
    PROVE  Reads(st, <<>>, st)
<1> DEFINE f == [i \in 0..0 |-> st]
<1>1. Follows(st, <<>>, f) /\ f[Len(<<>>)] = st /\ <<>> \in Bytes
  BY DEF Follows, Bytes
<1> HIDE DEF f
<1> QED
  BY <1>1, FollowsReads

LEMMA ReadsByte ==
    ASSUME NEW st, NEW b \in Byte
    PROVE  Reads(st, <<b>>, unpack_byte(st, b))
<1> DEFINE f == [i \in 0..1 |-> IF i = 0 THEN st ELSE unpack_byte(st, b)]
<1>1. Follows(st, <<b>>, f) /\ f[Len(<<b>>)] = unpack_byte(st, b) /\ <<b>> \in Bytes
  BY DEF Follows, Bytes
<1> HIDE DEF f
<1> QED
  BY <1>1, FollowsReads

\* The parser does the same on the same bytes.
LEMMA ReadsOnce ==
    ASSUME NEW st, NEW w \in Bytes, NEW p, NEW q, Reads(st, w, p), Reads(st, w, q)
    PROVE  p = q
<1>1. Len(w) \in Nat
  BY DEF Bytes
<1>2. PICK f : Run(st, w, f) /\ f[Len(w)] = p
  BY DEF Reads
<1>3. PICK g : Run(st, w, g) /\ g[Len(w)] = q
  BY DEF Reads
<1>4. Follows(st, w, f) /\ Follows(st, w, g)
  BY <1>2, <1>3, RunFollows
<1> DEFINE N == {i \in 0..Len(w) : f[i] # g[i]}
<1> SUFFICES ASSUME N # {} PROVE FALSE
  BY <1>1, <1>2, <1>3
<1>5. N \in SUBSET Nat
  OBVIOUS
<1>6. PICK i \in N : \A k \in N : i <= k
  <2> HIDE DEF N
  <2> QED BY <1>5, LeastNatural
<1>7. i \in 0..Len(w) /\ f[i] # g[i]
  BY <1>6
<1>8. i # 0
  BY <1>4, <1>7 DEF Follows
<1>9. i \in 1..Len(w) /\ i - 1 \in 0..Len(w) /\ ~(i <= i - 1)
  BY <1>1, <1>7, <1>8
<1>10. f[i] = unpack_byte(f[i - 1], w[i]) /\ g[i] = unpack_byte(g[i - 1], w[i])
  BY <1>4, <1>9 DEF Follows
<1>11. i - 1 \notin N
  <2> HIDE DEF N
  <2> QED BY <1>6, <1>9
<1>12. f[i - 1] = g[i - 1]
  BY <1>9, <1>11
<1> QED
  BY <1>7, <1>10, <1>12

\* Where the bytes of a concatenation come from.
LEMMA JoinIs ==
    ASSUME NEW u \in Bytes, NEW v \in Bytes
    PROVE  /\ u \o v \in Bytes /\ Len(u \o v) = Len(u) + Len(v)
           /\ Len(u) \in Nat /\ Len(v) \in Nat
           /\ \A i \in 1..Len(u) : (u \o v)[i] = u[i]
           /\ \A i \in 1..Len(v) : (u \o v)[Len(u) + i] = v[i]
<1>1. Len(u) \in Nat /\ Len(v) \in Nat /\ u \in Seq(Byte) /\ v \in Seq(Byte)
  BY DEF Bytes
<1>2. /\ u \o v \in Seq(Byte) /\ Len(u \o v) = Len(u) + Len(v)
      /\ \A j \in 1..(Len(u) + Len(v)) : (u \o v)[j] = IF j <= Len(u) THEN u[j] ELSE v[j - Len(u)]
  BY <1>1, ConcatProperties
<1>3. ASSUME NEW i \in 1..Len(u)
      PROVE  i \in 1..(Len(u) + Len(v)) /\ i <= Len(u)
  BY <1>1
<1>4. ASSUME NEW i \in 1..Len(v)
      PROVE  /\ Len(u) + i \in 1..(Len(u) + Len(v)) /\ ~(Len(u) + i <= Len(u))
             /\ (Len(u) + i) - Len(u) = i
  BY <1>1
<1> QED
  BY <1>1, <1>2, <1>3, <1>4 DEF Bytes

LEMMA ReadsJoin ==
    ASSUME NEW p, NEW q, NEW r, NEW u \in Bytes, NEW v \in Bytes, Reads(p, u, q), Reads(q, v, r)
    PROVE  Reads(p, u \o v, r)
<1> PICK m \in Nat : m = Len(u)
  BY DEF Bytes
<1> PICK n \in Nat : n = Len(v)
  BY DEF Bytes
<1> PICK w : w = u \o v
  OBVIOUS
<1>1. w \in Bytes /\ Len(w) = m + n
  BY JoinIs
<1>2. /\ \A i \in 1..m : w[i] = u[i]
      /\ \A i \in 1..n : w[m + i] = v[i]
  BY JoinIs
<1>3. PICK f : Run(p, u, f) /\ f[m] = q
  BY DEF Reads
<1>4. PICK g : Run(q, v, g) /\ g[n] = r
  BY DEF Reads
<1>5. /\ f[0] = p /\ \A i \in 1..m : f[i] = unpack_byte(f[i - 1], u[i])
      /\ g[0] = q /\ \A i \in 1..n : g[i] = unpack_byte(g[i - 1], v[i])
  <2>1. Follows(p, u, f) /\ Follows(q, v, g)
    BY <1>3, <1>4, RunFollows
  <2> QED
    BY <2>1 DEF Follows
<1> DEFINE h == [i \in 0..(m + n) |-> IF i <= m THEN f[i] ELSE g[i - m]]
<1>6. h[0] = p
  BY <1>5
<1>7. h[m + n] = r
  <2>1. CASE n = 0
    BY <1>3, <1>4, <1>5, <2>1
  <2>2. CASE n # 0
    <3>1. m + n \in 0..(m + n) /\ ~(m + n <= m) /\ (m + n) - m = n
      BY <2>2
    <3> QED
      BY <1>4, <3>1
  <2> QED
    BY <2>1, <2>2
<1>8. ASSUME NEW i \in 1..(m + n)
      PROVE  h[i] = unpack_byte(h[i - 1], w[i])
  <2>1. CASE i <= m
    <3>1. i \in 1..m /\ i \in 0..(m + n) /\ i - 1 \in 0..(m + n) /\ i - 1 <= m
      BY <2>1
    <3>2. h[i] = f[i] /\ h[i - 1] = f[i - 1] /\ w[i] = u[i]
      BY <1>2, <2>1, <3>1
    <3> HIDE DEF h
    <3> QED
      BY <1>5, <3>1, <3>2
  <2>2. CASE i = m + 1
    <3>1. /\ i \in 0..(m + n) /\ ~(i <= m) /\ i - m = 1 /\ i - 1 \in 0..(m + n) /\ i - 1 = m /\ m <= m
          /\ 1 \in 1..n /\ 1 - 1 = 0
      BY <2>2
    <3>2. h[i] = g[1] /\ h[i - 1] = f[m] /\ w[i] = v[1]
      BY <1>2, <2>2, <3>1
    <3>3. g[1] = unpack_byte(g[0], v[1])
      BY <1>5, <3>1
    <3> HIDE DEF h
    <3> QED
      BY <1>3, <1>5, <3>2, <3>3
  <2>3. CASE i > m + 1
    <3>1. PICK j \in 1..n : j = i - m
      BY <2>3
    <3>2. /\ i = m + j /\ i \in 0..(m + n) /\ ~(i <= m) /\ i - 1 \in 0..(m + n) /\ ~(i - 1 <= m)
          /\ (i - 1) - m = j - 1
      BY <2>3, <3>1
    <3>3. h[i] = g[j] /\ h[i - 1] = g[j - 1] /\ w[i] = v[j]
      BY <1>2, <3>1, <3>2
    <3>4. g[j] = unpack_byte(g[j - 1], v[j])
      BY <1>5
    <3> HIDE DEF h
    <3> QED
      BY <3>3, <3>4
  <2> QED
    BY <2>1, <2>2, <2>3
<1> HIDE DEF h
<1>9. Follows(p, w, h)
  BY <1>1, <1>6, <1>8 DEF Follows
<1> QED
  BY <1>1, <1>7, <1>9, FollowsReads

\* What is read of a concatenation is read of its first part, then of the second.
LEMMA ReadsSplit ==
    ASSUME NEW p, NEW r, NEW u \in Bytes, NEW v \in Bytes, Reads(p, u \o v, r)
    PROVE  \E q : Reads(p, u, q) /\ Reads(q, v, r)
<1> PICK m \in Nat : m = Len(u)
  BY DEF Bytes
<1> PICK n \in Nat : n = Len(v)
  BY DEF Bytes
<1> PICK w : w = u \o v
  OBVIOUS
<1>1. w \in Bytes /\ Len(w) = m + n
  BY JoinIs
<1>2. /\ \A i \in 1..m : w[i] = u[i]
      /\ \A i \in 1..n : w[m + i] = v[i]
  BY JoinIs
<1>3. PICK f : Run(p, w, f) /\ f[Len(w)] = r
  BY DEF Reads
<1>4. f[0] = p /\ \A i \in 1..(m + n) : f[i] = unpack_byte(f[i - 1], w[i])
  <2>1. Follows(p, w, f)
    BY <1>1, <1>3, RunFollows
  <2> QED
    BY <1>1, <2>1 DEF Follows
<1>5. Follows(p, u, f)
  <2>1. \A i \in 1..m : i \in 1..(m + n)
    OBVIOUS
  <2> QED
    BY <1>2, <1>4, <2>1 DEF Follows
<1> DEFINE g == [i \in 0..n |-> f[m + i]]
<1>6. g[0] = f[m] /\ g[n] = r
  BY <1>1, <1>3
<1>7. ASSUME NEW i \in 1..n
      PROVE  g[i] = unpack_byte(g[i - 1], v[i])
  <2>1. /\ m + i \in 1..(m + n) /\ i \in 0..n /\ i - 1 \in 0..n /\ (m + i) - 1 = m + (i - 1)
    OBVIOUS
  <2>2. f[m + i] = unpack_byte(f[(m + i) - 1], w[m + i])
    BY <1>4, <2>1
  <2>3. g[i] = f[m + i] /\ g[i - 1] = f[m + (i - 1)]
    BY <2>1
  <2> HIDE DEF g
  <2> QED
    BY <1>2, <2>1, <2>2, <2>3
<1> HIDE DEF g
<1>8. Follows(f[m], v, g)
  BY <1>6, <1>7 DEF Follows
<1> QED
  BY <1>5, <1>6, <1>8, FollowsReads

Start == [elems |-> <<>>, mode |-> "next"]

\* unpack returns the elements of the state after the last byte.
LEMMA UnpackIs ==
    ASSUME NEW w \in Bytes, NEW to, Reads(Start, w, to)
    PROVE  unpack(w) = to.elems
<1> DEFINE f == CHOOSE f : f = [i \in 0..Len(w) |-> IF i = 0 THEN [elems |-> <<>>, mode |-> "next"]
                                                    ELSE unpack_byte(f[i - 1], w[i])]
<1>1. PICK g : Run(Start, w, g)
  BY DEF Reads
<1>2. Run(Start, w, f)
  BY <1>1 DEF Run, Start
<1>3. unpack(w) = f[Len(w)].elems
  BY DEF unpack
<1> HIDE DEF f
<1>4. Reads(Start, w, f[Len(w)])
  BY <1>2 DEF Reads
<1> QED
  BY <1>3, <1>4, ReadsOnce

\* Induction over sequences, for a set of them.
LEMMA SeqInduct ==
    ASSUME NEW S, NEW P, <<>> \in P,
           \A s \in Seq(S) : \A e \in S : s \in P => Append(s, e) \in P
    PROVE  Seq(S) \subseteq P
<1> DEFINE N == {Len(s) : s \in Seq(S) \ P}
<1> SUFFICES ASSUME N # {} PROVE FALSE
  OBVIOUS
<1>1. N \in SUBSET Nat
  OBVIOUS
<1>2. PICK n \in N : \A k \in N : n <= k
  <2> HIDE DEF N
  <2> QED BY <1>1, LeastNatural
<1>3. PICK s \in Seq(S) \ P : n = Len(s)
  BY <1>2
<1>4. s # <<>>
  BY <1>3
<1>5. PICK t \in Seq(S), e \in S : s = Append(t, e)
  BY <1>3, <1>4, SequenceEmptyOrAppend
<1>6. Len(t) \in Nat /\ Len(s) = Len(t) + 1
  BY <1>5, AppendProperties
<1>7. t \in P
  <2>1. ASSUME t \notin P PROVE FALSE
    <3>1. Len(t) \in N
      BY <2>1
    <3> HIDE DEF N
    <3> QED
      BY <1>2, <1>3, <1>6, <3>1
  <2> QED
    BY <2>1
<1> QED
  BY <1>3, <1>5, <1>7

(***************************************************************************)
(* The states of the parser: the last element is read after the others.    *)
(***************************************************************************)
At(elems, x, mode) == [elems |-> Append(elems, x), mode |-> mode]

Grown(x, b) == [code |-> x.code, bytes |-> Append(x.bytes, b)]

Empty(c) == [code |-> c, bytes |-> <<>>]

LEMMA BytesReplaced ==
    ASSUME NEW x \in Element, NEW v
    PROVE  [x EXCEPT !.bytes = v] = [code |-> x.code, bytes |-> v]
BY DEF Element

Put(s, n, y) == [s EXCEPT ![n] = y]

LEMMA PutIs ==
    ASSUME NEW s, NEW n, NEW y, n \in DOMAIN s
    PROVE  Put(s, n, y) = [j \in DOMAIN s |-> IF j = n THEN y ELSE s[j]]
BY DEF Put

\* Two sequences of length m that agree up to the last, which is y in t.
DifferLast(S, s, t, m, y) ==
    /\ s \in Seq(S) /\ t \in Seq(S) /\ Len(s) = m /\ Len(t) = m /\ m \in 1..m /\ t[m] = y
    /\ \A i \in 1..(m - 1) : s[i] = t[i]

LEMMA PutLast ==
    ASSUME NEW S, NEW s, NEW t, NEW m, NEW y, DifferLast(S, s, t, m, y)
    PROVE  Put(s, m, y) = t
<1>0. /\ s \in Seq(S) /\ t \in Seq(S) /\ Len(s) = m /\ Len(t) = m /\ m \in 1..m /\ t[m] = y
      /\ \A i \in 1..(m - 1) : s[i] = t[i]
  BY DEF DifferLast
<1>1. DOMAIN s = 1..m /\ m \in DOMAIN s /\ m \in Nat
  BY <1>0
<1>2. Put(s, m, y) = [j \in 1..m |-> IF j = m THEN y ELSE s[j]]
  BY <1>1, PutIs
<1>3. t = [j \in 1..m |-> t[j]]
  BY <1>0
<1>4. ASSUME NEW j \in 1..m
      PROVE  (IF j = m THEN y ELSE s[j]) = t[j]
  <2>1. j = m \/ j \in 1..(m - 1)
    BY <1>1
  <2> QED
    BY <1>0, <2>1
<1> QED
  BY <1>2, <1>3, <1>4

LEMMA GrowLast ==
    ASSUME NEW elems \in Seq(Element), NEW x \in Element, NEW b \in Byte
    PROVE  LET s == Append(elems, x)
           IN  /\ [s EXCEPT ![Len(s)].bytes = Append(@, b)] = Append(elems, Grown(x, b))
               /\ s[Len(s)] = x
<1> PICK s : s = Append(elems, x)
  OBVIOUS
<1> PICK y : y = Grown(x, b)
  OBVIOUS
<1>1. /\ s \in Seq(Element) /\ Len(s) = Len(elems) + 1 /\ Len(elems) \in Nat
      /\ \A i \in 1..Len(elems) : s[i] = elems[i]
      /\ s[Len(elems) + 1] = x
  BY AppendProperties
<1>2. y \in Element /\ [x EXCEPT !.bytes = Append(@, b)] = y
  <2>1. x = [code |-> x.code, bytes |-> x.bytes] /\ x.code \in Byte /\ x.bytes \in Seq(Byte)
    BY DEF Element, Bytes
  <2>2. Append(x.bytes, b) \in Seq(Byte)
    BY <2>1, AppendProperties
  <2>3. y \in Element
    BY <2>1, <2>2 DEF Element, Grown, Bytes
  <2>4. [x EXCEPT !.bytes = Append(@, b)] = y
    <3>1. [x EXCEPT !.bytes = Append(@, b)] = [code |-> x.code, bytes |-> Append(x.bytes, b)]
      BY BytesReplaced
    <3> QED
      BY <3>1 DEF Grown
  <2> QED
    BY <2>3, <2>4
<1>3. /\ Append(elems, y) \in Seq(Element) /\ Len(Append(elems, y)) = Len(elems) + 1
      /\ \A i \in 1..Len(elems) : Append(elems, y)[i] = elems[i]
      /\ Append(elems, y)[Len(elems) + 1] = y
  BY <1>2, AppendProperties
<1>4. Len(s) \in 1..Len(s) /\ Len(s) \in DOMAIN s /\ s[Len(s)] = x
  BY <1>1
<1>5. [s EXCEPT ![Len(s)].bytes = Append(@, b)] = [s EXCEPT ![Len(s)] = y]
  BY <1>2, <1>4
<1>6. Put(s, Len(s), y) = Append(elems, y)
  <2> PICK m \in Nat : m = Len(elems) + 1
    BY <1>1
  <2> PICK t : t = Append(elems, y)
    OBVIOUS
  <2>1. /\ t \in Seq(Element) /\ Len(t) = m /\ t[m] = y
        /\ s \in Seq(Element) /\ Len(s) = m /\ m \in 1..m
        /\ \A i \in 1..(m - 1) : s[i] = t[i]
    BY <1>1, <1>3
  <2>2. Put(s, m, y) = t
    <3>1. DifferLast(Element, s, t, m, y)
      BY <2>1 DEF DifferLast
    <3> QED
      BY <3>1, PutLast
  <2> QED
    BY <2>1, <2>2
<1> QED
  BY <1>4, <1>5, <1>6 DEF Put

\* Inside a string, at its end, after a NUL in it, and inside a versionstamp.
LEMMA StepInside ==
    ASSUME NEW elems \in Seq(Element), NEW x \in Element, NEW b \in Byte
    PROVE  /\ b # 0 => unpack_byte(At(elems, x, "string"), b) = At(elems, Grown(x, b), "string")
           /\ b = 0 => unpack_byte(At(elems, x, "string"), b) = At(elems, x, "nul")
           /\ b = 255 => unpack_byte(At(elems, x, "nul"), b) = At(elems, Grown(x, 0), "string")
           /\ Len(x.bytes) < VsLen =>
                 unpack_byte(At(elems, x, "stamp"), b) = At(elems, Grown(x, b), "stamp")
<1> PICK s : s = Append(elems, x)
  OBVIOUS
<1>1. s[Len(s)] = x /\ [s EXCEPT ![Len(s)].bytes = Append(@, b)] = Append(elems, Grown(x, b))
  BY GrowLast
<1>2. [s EXCEPT ![Len(s)].bytes = Append(@, 0)] = Append(elems, Grown(x, 0))
  BY ByteValues, GrowLast
<1> QED
  BY <1>1, <1>2 DEF unpack_byte, At

\* The next byte begins an element.
Ready(st) ==
    \/ st.mode \in {"next", "nul"}
    \/ st.mode = "stamp" /\ Len(st.elems[Len(st.elems)].bytes) = VsLen

Begun(c) == CASE c \in {1, 2} -> "string"
              [] c = 51       -> "stamp"
              [] OTHER        -> "next"

LEMMA StepNew ==
    ASSUME NEW st, Ready(st), NEW b \in Byte, b # 255
    PROVE  unpack_byte(st, b) = At(st.elems, Empty(b), Begun(b))
<1>1. ~(st.mode = "string")
  BY DEF Ready
<1>2. ~(st.mode = "stamp" /\ Len(st.elems[Len(st.elems)].bytes) < VsLen)
  BY DEF Ready, VsLen
<1> QED
  BY <1>1, <1>2 DEF unpack_byte, Begun, At, Empty

(***************************************************************************)
(* A packed element is read as that element.                               *)
(***************************************************************************)
Piece(b) == IF b = 0 THEN <<0, 255>> ELSE <<b>>

Pieces(s) == [i \in DOMAIN s |-> Piece(s[i])]

LEMMA PieceType ==
    ASSUME NEW b \in Byte
    PROVE  Piece(b) \in Seq(Byte) /\ Len(Piece(b)) # 0
BY ByteValues DEF Piece

LEMMA PiecesIs ==
    ASSUME NEW s \in Bytes
    PROVE  /\ Pieces(s) \in Seq(Seq(Byte)) /\ Len(Pieces(s)) = Len(s) /\ Len(s) \in Nat
           /\ \A i \in 1..Len(s) : Pieces(s)[i] = Piece(s[i])
<1>1. DOMAIN s = 1..Len(s) /\ Len(s) \in Nat /\ \A i \in 1..Len(s) : s[i] \in Byte
  BY DEF Bytes
<1>2. \A i \in 1..Len(s) : Piece(s[i]) \in Seq(Byte)
  BY <1>1, PieceType
<1>3. Pieces(s) = [i \in 1..Len(s) |-> Piece(s[i])]
  BY <1>1 DEF Pieces
<1>4. [i \in 1..Len(s) |-> Piece(s[i])] \in Seq(Seq(Byte))
  BY <1>1, <1>2, IsASeq
<1>5. Len([i \in 1..Len(s) |-> Piece(s[i])]) = Len(s)
  BY <1>1
<1>6. \A i \in 1..Len(s) : Pieces(s)[i] = Piece(s[i])
  BY <1>3
<1> QED
  BY <1>1, <1>3, <1>4, <1>5, <1>6

LEMMA EscapeAppend ==
    ASSUME NEW s \in Bytes, NEW b \in Byte
    PROVE  escape(Append(s, b)) = escape(s) \o Piece(b)
<1> PICK q : q = Pieces(s)
  OBVIOUS
<1> PICK more : more = Append(s, b)
  OBVIOUS
<1> PICK r : r = Pieces(more)
  OBVIOUS
<1> PICK p : p = Piece(b)
  OBVIOUS
<1> PICK n : n = Len(s)
  OBVIOUS
<1>0. s \in Seq(Byte)
  BY DEF Bytes
<1>1. n \in Nat /\ q \in Seq(Seq(Byte)) /\ Len(q) = n /\ \A i \in 1..n : q[i] = Piece(s[i])
  BY PiecesIs
<1>2. /\ more \in Bytes /\ Len(more) = n + 1 /\ more[n + 1] = b
      /\ \A i \in 1..n : more[i] = s[i]
  BY <1>0, AppendProperties DEF Bytes
<1>3. r \in Seq(Seq(Byte)) /\ Len(r) = n + 1 /\ \A i \in 1..(n + 1) : r[i] = Piece(more[i])
  BY <1>2, PiecesIs
<1>4. p \in Seq(Byte)
  BY PieceType
<1>5. /\ Append(q, p) \in Seq(Seq(Byte)) /\ Len(Append(q, p)) = n + 1
      /\ \A i \in 1..n : Append(q, p)[i] = q[i]
      /\ Append(q, p)[n + 1] = p
  BY <1>1, <1>4, AppendProperties
<1>6. ASSUME NEW i \in 1..(n + 1)
      PROVE  r[i] = Append(q, p)[i]
  <2>1. CASE i = n + 1
    BY <1>2, <1>3, <1>5, <2>1
  <2>2. CASE i # n + 1
    <3>1. i \in 1..n
      BY <1>1, <2>2
    <3> QED
      BY <1>1, <1>2, <1>3, <1>5, <3>1
  <2> QED
    BY <2>1, <2>2
<1>7. r = Append(q, p)
  BY <1>3, <1>5, <1>6, SeqEqual
<1>8. escape(more) = FlattenSeq(r) /\ escape(s) = FlattenSeq(q)
  BY DEF escape, Pieces, Piece
<1>9. CASE n # 0
  <2>1. FlattenSeq(Append(q, p)) = FlattenSeq(q) \o p
    BY <1>1, <1>4, <1>9, FlattenAppend
  <2> QED
    BY <1>7, <1>8, <2>1
<1>10. CASE n = 0
  <2>1. q = <<>>
    BY <1>1, <1>10
  <2>2. Append(q, p) = <<p>> /\ FlattenSeq(q) = <<>>
    BY <2>1 DEF FlattenSeq
  <2>3. FlattenSeq(<<p>>) = p
    BY FlattenOne
  <2>4. <<>> \o p = p
    BY <1>4, ConcatEmptySeq
  <2> QED
    BY <1>7, <1>8, <2>2, <2>3, <2>4
<1> QED
  BY <1>1, <1>9, <1>10

String(c, s) == [code |-> c, bytes |-> s]

LEMMA ReadsEscape ==
    ASSUME NEW elems \in Seq(Element), NEW c \in Byte, NEW s \in Bytes
    PROVE  Reads(At(elems, Empty(c), "string"), escape(s), At(elems, String(c, s), "string"))
<1> DEFINE P == {t \in Bytes : Reads(At(elems, Empty(c), "string"), escape(t),
                                     At(elems, String(c, t), "string"))}
<1>1. <<>> \in P
  <2>1. escape(<<>>) = <<>> /\ <<>> \in Bytes /\ String(c, <<>>) = Empty(c)
    BY DEF escape, FlattenSeq, Bytes, String, Empty
  <2> QED
    BY <2>1, ReadsNothing
<1>2. ASSUME NEW t \in Bytes, NEW b \in Byte, t \in P
      PROVE  Append(t, b) \in P
  <2> PICK st : st = At(elems, Empty(c), "string")
    OBVIOUS
  <2> PICK mid : mid = At(elems, String(c, t), "string")
    OBVIOUS
  <2> PICK to : to = At(elems, String(c, Append(t, b)), "string")
    OBVIOUS
  <2>1. Reads(st, escape(t), mid)
    BY <1>2
  <2> HIDE DEF P
  <2>2. String(c, t) \in Element /\ Grown(String(c, t), b) = String(c, Append(t, b))
    BY DEF String, Element, Grown
  <2>3. Reads(mid, Piece(b), to)
    <3>1. CASE b # 0
      <4>1. unpack_byte(mid, b) = to
        BY <2>2, <3>1, StepInside
      <4> QED
        BY <3>1, <4>1, ReadsByte DEF Piece
    <3>2. CASE b = 0
      <4> PICK nul : nul = At(elems, String(c, t), "nul")
        OBVIOUS
      <4>1. unpack_byte(mid, 0) = nul
        BY <2>2, ByteValues, StepInside
      <4>2. unpack_byte(nul, 255) = to
        BY <2>2, <3>2, ByteValues, StepInside
      <4>3. Reads(mid, <<0>>, nul) /\ Reads(nul, <<255>>, to)
        BY <4>1, <4>2, ByteValues, ReadsByte
      <4>4. <<0>> \in Bytes /\ <<255>> \in Bytes /\ <<0>> \o <<255>> = <<0, 255>>
        BY ByteValues, PairIs DEF Bytes
      <4>5. Reads(mid, <<0>> \o <<255>>, to)
        BY <4>3, <4>4, ReadsJoin
      <4> QED
        BY <3>2, <4>4, <4>5 DEF Piece
    <3> QED
      BY <3>1, <3>2
  <2>4. escape(t) \in Bytes /\ Piece(b) \in Bytes
    BY EscapeType, PieceType DEF Bytes
  <2>5. Reads(st, escape(t) \o Piece(b), to)
    BY <2>1, <2>3, <2>4, ReadsJoin
  <2>6. escape(Append(t, b)) = escape(t) \o Piece(b) /\ Append(t, b) \in Bytes
    BY EscapeAppend DEF Bytes
  <2> QED
    BY <2>5, <2>6 DEF P
<1>3. s \in P
  <2> HIDE DEF P
  <2>1. Seq(Byte) \subseteq P
    BY <1>1, <1>2, SeqInduct DEF Bytes
  <2> QED
    BY <2>1 DEF Bytes
<1> QED
  BY <1>3

\* The bytes of a versionstamp are not escaped.
LEMMA ReadsStamp ==
    ASSUME NEW elems \in Seq(Element), NEW c \in Byte, NEW s \in Bytes, Len(s) <= VsLen
    PROVE  Reads(At(elems, Empty(c), "stamp"), s, At(elems, String(c, s), "stamp"))
<1> DEFINE P == {t \in Bytes : Len(t) <= VsLen =>
                     Reads(At(elems, Empty(c), "stamp"), t, At(elems, String(c, t), "stamp"))}
<1>1. <<>> \in P
  <2>1. <<>> \in Bytes /\ String(c, <<>>) = Empty(c)
    BY DEF Bytes, String, Empty
  <2> QED
    BY <2>1, ReadsNothing
<1>2. ASSUME NEW t \in Bytes, NEW b \in Byte, t \in P
      PROVE  Append(t, b) \in P
  <2> PICK st : st = At(elems, Empty(c), "stamp")
    OBVIOUS
  <2> PICK mid : mid = At(elems, String(c, t), "stamp")
    OBVIOUS
  <2> PICK to : to = At(elems, String(c, Append(t, b)), "stamp")
    OBVIOUS
  <2>1. Append(t, b) \in Bytes /\ Len(Append(t, b)) = Len(t) + 1 /\ Len(t) \in Nat
        /\ Append(t, b) = t \o <<b>> /\ <<b>> \in Bytes
    BY AppendProperties, AppendIsConcat DEF Bytes
  <2>2. ASSUME Len(Append(t, b)) <= VsLen
        PROVE  Reads(st, Append(t, b), to)
    <3>1. Len(t) <= VsLen /\ Len(t) < VsLen
      BY <2>1, <2>2 DEF VsLen
    <3>2. Reads(st, t, mid)
      BY <1>2, <3>1
    <3> HIDE DEF P
    <3>3. /\ String(c, t) \in Element /\ Grown(String(c, t), b) = String(c, Append(t, b))
          /\ String(c, t).bytes = t
      BY DEF String, Element, Grown
    <3>4. unpack_byte(mid, b) = to
      BY <3>1, <3>3, StepInside
    <3>5. Reads(mid, <<b>>, to)
      BY <3>4, ReadsByte
    <3> QED
      BY <2>1, <3>2, <3>5, ReadsJoin
  <2> QED
    BY <2>1, <2>2
<1>3. s \in P
  <2> HIDE DEF P
  <2>1. Seq(Byte) \subseteq P
    BY <1>1, <1>2, SeqInduct DEF Bytes
  <2> QED
    BY <2>1 DEF Bytes
<1> QED
  BY <1>3

\* The elements the store packs: strings, versionstamps and brackets.
Packable ==
    {e \in Element : /\ e.code # 255
                     /\ e.code = 51 => Len(e.bytes) = VsLen
                     /\ e.code \notin {1, 2, 51} => e.bytes = <<>>}

\* How the parser is left by an element.
Ended(c) == CASE c \in {1, 2} -> "nul"
              [] c = 51       -> "stamp"
              [] OTHER        -> "next"

LEMMA ReadsElement ==
    ASSUME NEW st, st.elems \in Seq(Element), Ready(st), NEW e \in Packable
    PROVE  /\ Reads(st, pack_element(e), At(st.elems, e, Ended(e.code)))
           /\ Ready(At(st.elems, e, Ended(e.code)))
<1> PICK elems : elems = st.elems
  OBVIOUS
<1> PICK c : c = e.code
  OBVIOUS
<1> PICK s : s = e.bytes
  OBVIOUS
<1> PICK to : to = At(elems, e, Ended(c))
  OBVIOUS
<1>1. /\ elems \in Seq(Element) /\ e \in Element /\ c \in Byte /\ s \in Bytes /\ c # 255
      /\ e = String(c, s) /\ Empty(c) \in Element
      /\ c = 51 => Len(s) = VsLen
      /\ c \notin {1, 2, 51} => s = <<>>
  BY DEF Packable, Element, String, Empty, Bytes
<1>2. Reads(st, <<c>>, At(elems, Empty(c), Begun(c))) /\ <<c>> \in Bytes
  <2>1. unpack_byte(st, c) = At(elems, Empty(c), Begun(c))
    BY <1>1, StepNew
  <2> QED
    BY <1>1, <2>1, ReadsByte DEF Bytes
<1>3. CASE c \in {1, 2}
  <2>1. Begun(c) = "string" /\ Ended(c) = "nul" /\ pack_element(e) = <<c>> \o (escape(s) \o <<0>>)
    BY <1>3 DEF Begun, Ended, pack_element
  <2>2. Reads(At(elems, Empty(c), "string"), escape(s), At(elems, e, "string"))
    BY <1>1, ReadsEscape
  <2>3. Reads(At(elems, e, "string"), <<0>>, At(elems, e, "nul"))
    <3>1. unpack_byte(At(elems, e, "string"), 0) = At(elems, e, "nul")
      BY <1>1, ByteValues, StepInside
    <3> QED
      BY <3>1, ByteValues, ReadsByte
  <2>4. escape(s) \in Bytes /\ <<0>> \in Bytes /\ escape(s) \o <<0>> \in Bytes
    <3>1. escape(s) \in Bytes /\ <<0>> \in Bytes
      BY <1>1, EscapeType, ByteValues DEF Bytes
    <3> QED
      BY <3>1, JoinIs
  <2>5. Reads(At(elems, Empty(c), "string"), escape(s) \o <<0>>, At(elems, e, "nul"))
    BY <2>2, <2>3, <2>4, ReadsJoin
  <2>6. Reads(st, <<c>> \o (escape(s) \o <<0>>), At(elems, e, "nul"))
    BY <1>2, <2>1, <2>4, <2>5, ReadsJoin
  <2>7. Ready(At(elems, e, "nul"))
    BY DEF Ready, At
  <2> QED
    BY <2>1, <2>6, <2>7
<1>4. CASE c = 51
  <2>1. Begun(c) = "stamp" /\ Ended(c) = "stamp" /\ pack_element(e) = <<c>> \o s
    BY <1>4 DEF Begun, Ended, pack_element
  <2>2. Reads(At(elems, Empty(c), "stamp"), s, At(elems, e, "stamp"))
    <3>1. Len(s) = VsLen
      BY <1>1, <1>4
    <3>2. Len(s) <= VsLen
      BY <3>1 DEF VsLen
    <3> QED
      BY <1>1, <3>2, ReadsStamp
  <2>3. Reads(st, <<c>> \o s, At(elems, e, "stamp"))
    BY <1>1, <1>2, <2>1, <2>2, ReadsJoin
  <2>4. Ready(At(elems, e, "stamp"))
    <3> PICK q : q = Append(elems, e)
      OBVIOUS
    <3>1. q[Len(q)] = e
      BY <1>1, AppendProperties
    <3> QED
      BY <1>1, <1>4, <3>1 DEF Ready, At
  <2> QED
    BY <2>1, <2>3, <2>4
<1>5. CASE c \notin {1, 2, 51}
  <2>1. Begun(c) = "next" /\ Ended(c) = "next" /\ pack_element(e) = <<c>> \o <<>>
    BY <1>1, <1>5 DEF Begun, Ended, pack_element
  <2>2. <<c>> \o <<>> = <<c>>
    BY <1>2, ConcatEmptySeq DEF Bytes
  <2>3. Empty(c) = e
    BY <1>1, <1>5 DEF Empty, String
  <2>4. Ready(At(elems, e, "next"))
    BY DEF Ready, At
  <2> QED
    BY <1>2, <2>1, <2>2, <2>3, <2>4
<1> QED
  BY <1>3, <1>4, <1>5

LEMMA SeqWithin ==
    ASSUME NEW S, NEW T, S \subseteq T, NEW s \in Seq(S)
    PROVE  s \in Seq(T)
<1>1. Len(s) \in Nat /\ s = [i \in 1..Len(s) |-> s[i]] /\ \A i \in 1..Len(s) : s[i] \in T
  OBVIOUS
<1> QED
  BY <1>1, IsASeq

LEMMA PackableElements ==
    ASSUME NEW q \in Seq(Packable)
    PROVE  q \in Seq(Element)
<1>1. Packable \subseteq Element
  BY DEF Packable
<1> QED
  BY <1>1, SeqWithin

LEMMA PackNext ==
    ASSUME NEW q \in Seq(Element), NEW e \in Element
    PROVE  /\ pack(Append(q, e)) = pack(q) \o pack_element(e)
           /\ pack(q) \in Bytes /\ pack_element(e) \in Bytes
<1>1. pack_element(e) \in Bytes
  BY PackElement DEF Bytes
<1>2. CASE q = <<>>
  <2>1. pack(q) = <<>> /\ <<>> \in Bytes
    BY <1>2 DEF pack, FlattenSeq, Bytes
  <2>2. Append(q, e) = <<e>>
    BY <1>2
  <2>3. pack(<<e>>) = pack_element(e)
    BY PackOne
  <2>4. <<>> \o pack_element(e) = pack_element(e)
    BY <1>1, ConcatEmptySeq DEF Bytes
  <2> QED
    BY <1>1, <2>1, <2>2, <2>3, <2>4
<1>3. CASE q # <<>>
  <2>1. Len(q) # 0
    BY <1>3
  <2> QED
    BY <1>1, <2>1, PackType, PackAppend DEF Bytes
<1> QED
  BY <1>2, <1>3

State == [elems : Seq(Element), mode : {"next", "string", "nul", "stamp"}]

\* The parser is at st when it has read the elements q.
Parsed(q, st) ==
    /\ Reads(Start, pack(q), st) /\ Ready(st) /\ st \in State /\ st.elems = q
    /\ q # <<>> => st.mode = Ended(q[Len(q)].code)

LEMMA ReadsPack ==
    ASSUME NEW elems \in Seq(Packable)
    PROVE  \E st : Parsed(elems, st)
<1> DEFINE P == {q \in Seq(Packable) : \E st : Parsed(q, st)}
<1>1. <<>> \in P
  <2>1. pack(<<>>) = <<>>
    BY DEF pack, FlattenSeq
  <2>2. Parsed(<<>>, Start)
    BY <2>1, ReadsNothing DEF Parsed, Ready, Start, State
  <2> QED
    BY <2>2
<1>2. ASSUME NEW q \in Seq(Packable), NEW e \in Packable, q \in P
      PROVE  Append(q, e) \in P
  <2>1. PICK st : Parsed(q, st)
    BY <1>2
  <2> HIDE DEF P
  <2> PICK to : to = At(q, e, Ended(e.code))
    OBVIOUS
  <2>2. q \in Seq(Element) /\ e \in Element
    BY PackableElements DEF Packable
  <2>3. Reads(Start, pack(q), st) /\ Ready(st) /\ st.elems = q
    BY <2>1 DEF Parsed
  <2>4. Reads(st, pack_element(e), to) /\ Ready(to)
    BY <2>2, <2>3, ReadsElement
  <2>5. /\ pack(Append(q, e)) = pack(q) \o pack_element(e)
        /\ pack(q) \in Bytes /\ pack_element(e) \in Bytes
    BY <2>2, PackNext
  <2>6. Reads(Start, pack(Append(q, e)), to)
    BY <2>3, <2>4, <2>5, ReadsJoin
  <2>7. to.elems = Append(q, e) /\ to.mode = Ended(e.code) /\ to \in State
    <3>1. Append(q, e) \in Seq(Element) /\ Ended(e.code) \in {"next", "string", "nul", "stamp"}
      BY <2>2, AppendProperties DEF Ended
    <3> QED
      BY <3>1 DEF At, State
  <2>8. Append(q, e)[Len(Append(q, e))] = e /\ Append(q, e) \in Seq(Packable)
    BY AppendProperties
  <2>9. Parsed(Append(q, e), to)
    BY <2>4, <2>6, <2>7, <2>8 DEF Parsed
  <2> QED
    BY <2>8, <2>9 DEF P
<1>3. elems \in P
  <2> HIDE DEF P
  <2> QED
    BY <1>1, <1>2, SeqInduct
<1> QED
  BY <1>3

LEMMA PackedBytes ==
    ASSUME NEW elems \in Seq(Element)
    PROVE  pack(elems) \in Bytes
<1> PICK e : e = [code |-> 0, bytes |-> <<>>]
  OBVIOUS
<1>1. e \in Element
  BY ByteValues DEF Element, Bytes
<1> QED
  BY <1>1, PackNext

\* The tuple layer gives back the elements it packed, whatever bytes the strings
\* hold (encoding.rs: pack and unpack of every key and value of the store).
THEOREM UnpackPack ==
    ASSUME NEW elems \in Seq(Packable)
    PROVE  unpack(pack(elems)) = elems
<1>1. PICK st : Parsed(elems, st)
  BY ReadsPack
<1>2. pack(elems) \in Bytes
  BY PackableElements, PackedBytes
<1>3. Reads(Start, pack(elems), st) /\ st.elems = elems
  BY <1>1 DEF Parsed
<1> QED
  BY <1>2, <1>3, UnpackIs

(***************************************************************************)
(* What a key that begins with a packed tuple holds.                       *)
(***************************************************************************)
LEMMA PrefixRest ==
    ASSUME NEW u \in Bytes, NEW w \in Bytes, IsPrefix(u, w)
    PROVE  \E v \in Bytes : w = u \o v
<1>1. u \in Seq(Byte) /\ w \in Seq(Byte)
  BY DEF Bytes
<1> PICK m \in Nat : m = Len(u)
  BY <1>1
<1> PICK l \in Nat : l = Len(w)
  BY <1>1
<1>2. m <= l /\ \A i \in 1..m : u[i] = w[i]
  BY <1>1, PrefixIs
<1> PICK n \in Nat : n = l - m
  BY <1>2
<1> DEFINE v == [i \in 1..n |-> w[m + i]]
<1>3. \A i \in 1..n : m + i \in 1..l /\ w[m + i] \in Byte
  BY <1>1
<1>4. v \in Bytes /\ Len(v) = n /\ \A i \in 1..n : v[i] = w[m + i]
  <2>1. v \in Seq(Byte)
    BY <1>3, IsASeq
  <2> QED
    BY <2>1 DEF Bytes
<1> HIDE DEF v
<1> PICK c : c = u \o v
  OBVIOUS
<1>5. /\ c \in Seq(Byte) /\ Len(c) = l
      /\ \A i \in 1..m : c[i] = u[i]
      /\ \A i \in 1..n : c[m + i] = v[i]
  BY <1>4, JoinIs DEF Bytes
<1>6. ASSUME NEW i \in 1..l
      PROVE  c[i] = w[i]
  <2>1. CASE i <= m
    BY <1>2, <1>5, <2>1
  <2>2. CASE i > m
    <3> PICK j \in 1..n : j = i - m
      BY <2>2
    <3>1. i = m + j
      OBVIOUS
    <3> QED
      BY <1>4, <1>5, <3>1
  <2>3. i <= m \/ i > m
    OBVIOUS
  <2> QED
    BY <2>1, <2>2, <2>3
<1>7. c = w
  BY <1>1, <1>5, <1>6, SeqEqual
<1> QED
  BY <1>4, <1>7

LEMMA FirstByte ==
    ASSUME NEW v \in Bytes, v # <<>>
    PROVE  \E h \in Byte : \E t \in Bytes : v = <<h>> \o t
<1>1. v \in Seq(Byte)
  BY DEF Bytes
<1> PICK h : h = v[1]
  OBVIOUS
<1>2. Len(v) \in Nat /\ Len(v) # 0
  BY <1>1
<1>3. 1 \in 1..Len(v) /\ 1 <= Len(v)
  BY <1>2
<1>4. h \in Byte
  BY <1>1, <1>3
<1>5. <<h>> \in Seq(Byte) /\ Len(<<h>>) = 1 /\ \A i \in 1..1 : <<h>>[i] = v[i]
  BY <1>4
<1>6. IsPrefix(<<h>>, v)
  BY <1>1, <1>3, <1>5, PrefixIs
<1> QED
  BY <1>4, <1>5, <1>6, PrefixRest DEF Bytes

\* A set of states that no byte leaves.
LEMMA ReadsWithin ==
    ASSUME NEW S, NEW p \in S, \A st \in S : \A b \in Byte : unpack_byte(st, b) \in S,
           NEW v \in Bytes, NEW r, Reads(p, v, r)
    PROVE  r \in S
<1> DEFINE P == {w \in Bytes : \A q : Reads(p, w, q) => q \in S}
<1>1. <<>> \in P
  <2>1. <<>> \in Bytes
    BY DEF Bytes
  <2>2. ASSUME NEW q, Reads(p, <<>>, q)
        PROVE  q \in S
    BY <2>1, <2>2, ReadsNothing, ReadsOnce
  <2> QED
    BY <2>1, <2>2
<1>2. ASSUME NEW w \in Bytes, NEW b \in Byte, w \in P
      PROVE  Append(w, b) \in P
  <2>1. Append(w, b) = w \o <<b>> /\ <<b>> \in Bytes /\ Append(w, b) \in Bytes
    BY AppendProperties, AppendIsConcat DEF Bytes
  <2>2. ASSUME NEW q, Reads(p, Append(w, b), q)
        PROVE  q \in S
    <3>1. PICK m : Reads(p, w, m) /\ Reads(m, <<b>>, q)
      BY <2>1, <2>2, ReadsSplit
    <3>2. m \in S
      BY <1>2, <3>1
    <3> HIDE DEF P
    <3>3. q = unpack_byte(m, b)
      BY <2>1, <3>1, ReadsByte, ReadsOnce
    <3> QED
      BY <3>2, <3>3
  <2> QED
    BY <2>1, <2>2
<1>3. v \in P
  <2> HIDE DEF P
  <2>1. Seq(Byte) \subseteq P
    BY <1>1, <1>2, SeqInduct DEF Bytes
  <2> QED
    BY <2>1 DEF Bytes
<1> QED
  BY <1>3

\* What a byte does to the elements: nothing, one more, or the last one grows.
OneMore(p, r) == \E x \in Element : r = Append(p, x)

LastGrown(p, r) ==
    \E q \in Seq(Element), x \in Element, c \in Byte : p = Append(q, x) /\ r = Append(q, Grown(x, c))

LEMMA StepKeeps ==
    ASSUME NEW st \in State, st.elems # <<>>, NEW b \in Byte
    PROVE  /\ unpack_byte(st, b) \in State
           /\ LET to == unpack_byte(st, b)
              IN  \/ to.elems = st.elems
                  \/ OneMore(st.elems, to.elems)
                  \/ LastGrown(st.elems, to.elems)
<1>1. st.elems \in Seq(Element) /\ st = [elems |-> st.elems, mode |-> st.mode]
  BY DEF State
<1>2. PICK q \in Seq(Element), x \in Element : st.elems = Append(q, x)
  BY <1>1, SequenceEmptyOrAppend
<1> PICK s : s = st.elems
  OBVIOUS
<1>3. st = At(q, x, st.mode) /\ s = Append(q, x) /\ s[Len(s)] = x /\ s \in Seq(Element)
  BY <1>1, <1>2, AppendProperties DEF At
<1>4. ASSUME NEW c \in Byte
      PROVE  /\ Grown(x, c) \in Element /\ Append(q, Grown(x, c)) \in Seq(Element)
             /\ LastGrown(s, Append(q, Grown(x, c)))
  <2>1. x.code \in Byte /\ Append(x.bytes, c) \in Bytes
    BY AppendProperties DEF Element, Bytes
  <2>2. Grown(x, c) \in Element
    BY <2>1 DEF Grown, Element
  <2> QED
    BY <1>3, <2>2, AppendProperties DEF LastGrown
<1>5. ASSUME NEW c \in Byte
      PROVE  Empty(c) \in Element /\ Append(s, Empty(c)) \in Seq(Element) /\ OneMore(s, Append(s, Empty(c)))
  <2>1. Empty(c) \in Element
    BY DEF Empty, Element, Bytes
  <2> QED
    BY <1>3, <2>1, AppendProperties DEF OneMore
<1>6. CASE st.mode = "string"
  <2>1. CASE b = 0
    <3>1. unpack_byte(st, b) = At(q, x, "nul")
      BY <1>3, <1>6, <2>1, StepInside
    <3> QED
      BY <1>3, <3>1 DEF At, State
  <2>2. CASE b # 0
    <3>1. unpack_byte(st, b) = At(q, Grown(x, b), "string")
      BY <1>3, <1>6, <2>2, StepInside
    <3> QED
      BY <1>3, <1>4, <3>1 DEF At, State
  <2> QED
    BY <2>1, <2>2
<1>7. CASE st.mode = "nul" /\ b = 255
  <2>1. unpack_byte(st, b) = At(q, Grown(x, 0), "string")
    BY <1>3, <1>7, StepInside
  <2> QED
    BY <1>3, <1>4, <2>1, ByteValues DEF At, State
<1>8. CASE st.mode = "stamp" /\ Len(x.bytes) < VsLen
  <2>1. unpack_byte(st, b) = At(q, Grown(x, b), "stamp")
    BY <1>3, <1>8, StepInside
  <2> QED
    BY <1>3, <1>4, <2>1 DEF At, State
<1>9. CASE ~(st.mode = "string") /\ ~(st.mode = "nul" /\ b = 255)
             /\ ~(st.mode = "stamp" /\ Len(x.bytes) < VsLen)
  <2>1. ~(st.mode = "stamp" /\ Len(s[Len(s)].bytes) < VsLen)
    BY <1>3, <1>9
  <2>2. unpack_byte(st, b) = [elems |-> Append(s, Empty(b)), mode |-> Begun(b)]
    BY <1>9, <2>1 DEF unpack_byte, Begun, Empty
  <2>3. Begun(b) \in {"next", "string", "nul", "stamp"}
    BY DEF Begun
  <2> QED
    BY <1>5, <2>2, <2>3 DEF State
<1> QED
  BY <1>6, <1>7, <1>8, <1>9

LEMMA MoreKeeps ==
    ASSUME NEW p \in Seq(Element), NEW r, OneMore(p, r)
    PROVE  Len(p) \in Nat /\ Len(r) = Len(p) + 1 /\ \A i \in 1..Len(p) : r[i] = p[i]
<1>1. PICK x \in Element : r = Append(p, x)
  BY DEF OneMore
<1> QED
  BY <1>1, AppendProperties

StartsWith(y, t) == Len(y) <= Len(t) /\ \A i \in 1..Len(y) : t[i] = y[i]

LEMMA LastKeeps ==
    ASSUME NEW p, NEW r, LastGrown(p, r)
    PROVE  /\ Len(p) \in Nat /\ Len(p) >= 1 /\ Len(r) = Len(p)
           /\ \A i \in 1..(Len(p) - 1) : r[i] = p[i]
           /\ r[Len(p)].code = p[Len(p)].code
           /\ \A y \in Bytes : StartsWith(y, p[Len(p)].bytes) => StartsWith(y, r[Len(p)].bytes)
<1>1. PICK q \in Seq(Element), x \in Element, c \in Byte : p = Append(q, x) /\ r = Append(q, Grown(x, c))
  BY DEF LastGrown
<1> PICK g : g = Grown(x, c)
  OBVIOUS
<1>2. x.bytes \in Seq(Byte) /\ g.code = x.code /\ g.bytes = Append(x.bytes, c) /\ g \in Element
  <2>1. x.bytes \in Seq(Byte) /\ x.code \in Byte
    BY DEF Element, Bytes
  <2>2. Append(x.bytes, c) \in Seq(Byte)
    BY <2>1, AppendProperties
  <2> QED
    BY <2>1, <2>2 DEF Grown, Element, Bytes
<1> PICK n : n = Len(q)
  OBVIOUS
<1>3. /\ n \in Nat /\ Len(p) = n + 1 /\ Len(r) = n + 1
      /\ \A i \in 1..n : p[i] = q[i] /\ r[i] = q[i]
      /\ p[n + 1] = x /\ r[n + 1] = g
  BY <1>1, <1>2, AppendProperties
<1>4. ASSUME NEW y \in Bytes, StartsWith(y, x.bytes)
      PROVE  StartsWith(y, g.bytes)
  <2> PICK m : m = Len(y)
    OBVIOUS
  <2> PICK k : k = Len(x.bytes)
    OBVIOUS
  <2>1. m \in Nat /\ k \in Nat
    BY <1>2 DEF Bytes
  <2>2. m <= k /\ \A i \in 1..m : x.bytes[i] = y[i]
    BY <1>4 DEF StartsWith
  <2>3. Len(g.bytes) = k + 1 /\ \A i \in 1..k : g.bytes[i] = x.bytes[i]
    BY <1>2, AppendProperties
  <2>4. m <= k + 1 /\ \A i \in 1..m : i \in 1..k
    BY <2>1, <2>2
  <2> QED
    BY <2>2, <2>3, <2>4 DEF StartsWith
<1>5. \A i \in 1..(Len(p) - 1) : r[i] = p[i]
  <2>1. Len(p) - 1 = n
    BY <1>3
  <2> QED
    BY <1>3, <2>1
<1>6. Len(p) \in Nat /\ Len(p) >= 1 /\ Len(r) = Len(p) /\ p[Len(p)] = x /\ r[Len(p)] = g
  BY <1>3
<1> QED
  BY <1>2, <1>4, <1>5, <1>6

\* The first n elements are those of a, and another has begun.
ClosedAt(n, a) == {st \in State : n + 1 <= Len(st.elems) /\ \A i \in 1..n : st.elems[i] = a[i]}

\* The first n - 1 elements are those of a, and the n-th begins like it, with y.
OpenAt(n, a, y) ==
    {st \in State :
        /\ n <= Len(st.elems)
        /\ \A i \in 1..(n - 1) : st.elems[i] = a[i]
        /\ st.elems[n].code = a[n].code /\ StartsWith(y, st.elems[n].bytes)}

LEMMA StaysClosed ==
    ASSUME NEW n \in Nat, NEW a, NEW st \in ClosedAt(n, a), NEW b \in Byte
    PROVE  unpack_byte(st, b) \in ClosedAt(n, a)
<1> PICK p : p = st.elems
  OBVIOUS
<1> PICK to : to = unpack_byte(st, b)
  OBVIOUS
<1> PICK r : r = to.elems
  OBVIOUS
<1>1. st \in State /\ p \in Seq(Element) /\ n + 1 <= Len(p) /\ \A i \in 1..n : p[i] = a[i]
  BY DEF ClosedAt, State
<1>2. st.elems # <<>>
  BY <1>1
<1>3. to \in State /\ (r = p \/ OneMore(p, r) \/ LastGrown(p, r))
  BY <1>1, <1>2, StepKeeps
<1>4. n + 1 <= Len(r) /\ \A i \in 1..n : r[i] = a[i]
  <2>1. CASE r = p
    BY <1>1, <2>1
  <2>2. CASE OneMore(p, r)
    <3>1. Len(p) \in Nat /\ Len(r) = Len(p) + 1 /\ \A i \in 1..Len(p) : r[i] = p[i]
      BY <1>1, <2>2, MoreKeeps
    <3>2. n + 1 <= Len(r) /\ \A i \in 1..n : i \in 1..Len(p)
      BY <1>1, <3>1
    <3> QED
      BY <1>1, <3>1, <3>2
  <2>3. CASE LastGrown(p, r)
    <3>1. Len(p) \in Nat /\ Len(r) = Len(p) /\ \A i \in 1..(Len(p) - 1) : r[i] = p[i]
      BY <2>3, LastKeeps
    <3>2. \A i \in 1..n : i \in 1..(Len(p) - 1)
      BY <1>1, <3>1
    <3> QED
      BY <1>1, <3>1, <3>2
  <2> QED
    BY <1>3, <2>1, <2>2, <2>3
<1> QED
  BY <1>3, <1>4 DEF ClosedAt

LEMMA StaysOpen ==
    ASSUME NEW n \in Nat, n # 0, NEW a, NEW y \in Bytes, NEW st \in OpenAt(n, a, y), NEW b \in Byte
    PROVE  unpack_byte(st, b) \in OpenAt(n, a, y)
<1> PICK p : p = st.elems
  OBVIOUS
<1> PICK to : to = unpack_byte(st, b)
  OBVIOUS
<1> PICK r : r = to.elems
  OBVIOUS
<1>1. /\ st \in State /\ p \in Seq(Element) /\ n <= Len(p) /\ \A i \in 1..(n - 1) : p[i] = a[i]
      /\ p[n].code = a[n].code /\ StartsWith(y, p[n].bytes)
  BY DEF OpenAt, State
<1>2. st.elems # <<>>
  BY <1>1
<1>3. to \in State /\ (r = p \/ OneMore(p, r) \/ LastGrown(p, r))
  BY <1>1, <1>2, StepKeeps
<1>4. /\ n <= Len(r) /\ \A i \in 1..(n - 1) : r[i] = a[i]
      /\ r[n].code = a[n].code /\ StartsWith(y, r[n].bytes)
  <2>1. CASE r = p
    BY <1>1, <2>1
  <2>2. CASE OneMore(p, r)
    <3>1. Len(p) \in Nat /\ Len(r) = Len(p) + 1 /\ \A i \in 1..Len(p) : r[i] = p[i]
      BY <1>1, <2>2, MoreKeeps
    <3>2. n <= Len(r) /\ n \in 1..Len(p) /\ \A i \in 1..(n - 1) : i \in 1..Len(p)
      BY <1>1, <3>1
    <3> QED
      BY <1>1, <3>1, <3>2
  <2>3. CASE LastGrown(p, r)
    <3> PICK m : m = Len(p)
      OBVIOUS
    <3>1. /\ m \in Nat /\ Len(r) = m /\ \A i \in 1..(m - 1) : r[i] = p[i]
          /\ r[m].code = p[m].code
          /\ StartsWith(y, p[m].bytes) => StartsWith(y, r[m].bytes)
      BY <2>3, LastKeeps
    <3>2. \A i \in 1..(n - 1) : i \in 1..(m - 1)
      BY <1>1, <3>1
    <3>3. r[n].code = p[n].code /\ StartsWith(y, r[n].bytes)
      <4>1. CASE n = m
        BY <1>1, <3>1, <4>1
      <4>2. CASE n # m
        <5>1. n \in 1..(m - 1)
          BY <1>1, <3>1, <4>2
        <5> QED
          BY <1>1, <3>1, <5>1
      <4> QED
        BY <4>1, <4>2
    <3> QED
      BY <1>1, <3>1, <3>2, <3>3
  <2> QED
    BY <1>3, <2>1, <2>2, <2>3
<1> QED
  BY <1>3, <1>4 DEF OpenAt

\* b begins with the elements of a, the last of which, a string, may go on in
\* b with a NUL.
Leads(n, a, b) ==
    /\ n <= Len(b) /\ \A i \in 1..(n - 1) : b[i] = a[i]
    /\ b[n].code = a[n].code
    /\ b[n] = a[n] \/ StartsWith(Append(a[n].bytes, 0), b[n].bytes)

\* A packed tuple begins with the bytes of another only when its elements do.
LEMMA PrefixLeads ==
    ASSUME NEW a \in Seq(Packable), NEW b \in Seq(Packable), NEW n \in Nat, n = Len(a), n # 0,
           a[n].code = 2, IsPrefix(pack(a), pack(b))
    PROVE  Leads(n, a, b)
<1> PICK u : u = pack(a)
  OBVIOUS
<1> PICK w : w = pack(b)
  OBVIOUS
<1>1. u \in Bytes /\ w \in Bytes /\ a \in Seq(Element) /\ b \in Seq(Element)
  BY PackableElements, PackedBytes
<1>2. PICK v \in Bytes : w = u \o v
  BY <1>1, PrefixRest
<1>3. PICK p : Parsed(a, p)
  BY ReadsPack
<1>4. /\ Reads(Start, u, p) /\ p \in State /\ p.elems = a /\ p.mode = "nul" /\ Ready(p)
  <2>1. a # <<>> /\ Ended(2) = "nul"
    BY DEF Ended
  <2> QED
    BY <1>3, <2>1 DEF Parsed
<1>5. PICK r : Parsed(b, r)
  BY ReadsPack
<1>6. Reads(Start, u \o v, r) /\ r.elems = b
  BY <1>2, <1>5 DEF Parsed
<1>7. Reads(p, v, r)
  <2>1. PICK m : Reads(Start, u, m) /\ Reads(m, v, r)
    BY <1>1, <1>6, ReadsSplit
  <2>2. m = p
    BY <1>1, <1>4, <2>1, ReadsOnce
  <2> QED
    BY <2>1, <2>2
<1>8. CASE v = <<>>
  <2>1. r = p
    BY <1>7, <1>8, ReadsNothing, ReadsOnce
  <2>2. b = a
    BY <1>4, <1>6, <2>1
  <2> QED
    BY <2>2 DEF Leads
<1>9. CASE v # <<>>
  <2>1. PICK h \in Byte, t \in Bytes : v = <<h>> \o t
    BY <1>9, FirstByte
  <2> PICK m : m = unpack_byte(p, h)
    OBVIOUS
  <2>2. Reads(m, t, r)
    <3>1. <<h>> \in Bytes
      BY DEF Bytes
    <3>2. PICK k : Reads(p, <<h>>, k) /\ Reads(k, t, r)
      BY <1>7, <2>1, <3>1, ReadsSplit
    <3>3. k = m
      BY <3>1, <3>2, ReadsByte, ReadsOnce
    <3> QED
      BY <3>2, <3>3
  <2>3. m \in State
    BY <1>4, StepKeeps
  <2>4. CASE h # 255
    <3>1. m = At(a, Empty(h), Begun(h))
      BY <1>4, <2>4, StepNew
    <3>2. m.elems = Append(a, Empty(h)) /\ Empty(h) \in Element
      BY <3>1 DEF At, Empty, Element, Bytes
    <3>3. n + 1 <= Len(m.elems) /\ \A i \in 1..n : m.elems[i] = a[i]
      BY <1>1, <3>2, AppendProperties
    <3>4. m \in ClosedAt(n, a)
      BY <2>3, <3>3 DEF ClosedAt
    <3>5. r \in ClosedAt(n, a)
      BY <2>2, <3>4, StaysClosed, ReadsWithin
    <3>6. n + 1 <= Len(b) /\ \A i \in 1..n : b[i] = a[i]
      BY <1>6, <3>5 DEF ClosedAt
    <3>7. n <= Len(b) /\ n \in 1..n /\ \A i \in 1..(n - 1) : i \in 1..n
      BY <1>1, <3>6
    <3> QED
      BY <3>6, <3>7 DEF Leads
  <2>5. CASE h = 255
    <3>0. a # <<>>
      OBVIOUS
    <3>1. PICK q \in Seq(Element), x \in Element : a = Append(q, x)
      BY <1>1, <3>0, SequenceEmptyOrAppend
    <3> PICK y : y = Append(x.bytes, 0)
      OBVIOUS
    <3>2. p = At(q, x, "nul")
      BY <1>4, <3>1 DEF At, State
    <3>3. m = At(q, Grown(x, 0), "string")
      BY <2>5, <3>2, StepInside
    <3>4. m.elems = Append(q, Grown(x, 0))
      BY <3>3 DEF At
    <3>5. y \in Bytes /\ Grown(x, 0) \in Element /\ Grown(x, 0).bytes = y /\ Grown(x, 0).code = x.code
      <4>1. x.bytes \in Seq(Byte) /\ x.code \in Byte
        BY DEF Element, Bytes
      <4>2. y \in Seq(Byte)
        BY <4>1, ByteValues, AppendProperties
      <4> QED
        BY <4>1, <4>2 DEF Grown, Element, Bytes
    <3>6. Len(q) = n - 1 /\ a[n] = x /\ \A i \in 1..(n - 1) : a[i] = q[i]
      BY <3>1, AppendProperties
    <3>7. Len(m.elems) = n /\ m.elems[n] = Grown(x, 0) /\ \A i \in 1..(n - 1) : m.elems[i] = a[i]
      BY <3>4, <3>5, <3>6, AppendProperties
    <3>8. StartsWith(y, y)
      BY <3>5 DEF StartsWith, Bytes
    <3>9. m \in OpenAt(n, a, y)
      <4>1. m.elems[n].code = a[n].code /\ StartsWith(y, m.elems[n].bytes)
        BY <3>5, <3>6, <3>7, <3>8
      <4>2. n <= Len(m.elems)
        BY <3>7
      <4> QED
        BY <2>3, <3>7, <4>1, <4>2 DEF OpenAt
    <3>10. r \in OpenAt(n, a, y)
      BY <2>2, <3>5, <3>9, StaysOpen, ReadsWithin
    <3> QED
      BY <1>6, <3>6, <3>10 DEF OpenAt, Leads
  <2> QED
    BY <2>4, <2>5
<1> QED
  BY <1>8, <1>9

(***************************************************************************)
(* The keys of the store.                                                  *)
(***************************************************************************)
LEMMA PackableIs ==
    /\ \A s \in Bytes : Str(s) \in Packable
    /\ \A p \in Position : Vs(vs_bytes(p)) \in Packable
    /\ \A s : Str(s).code = 2 /\ Str(s).bytes = s /\ Vs(s).code = 51 /\ Vs(s).bytes = s
<1>1. ASSUME NEW s \in Bytes
      PROVE  Str(s) \in Packable
  BY ByteValues DEF Str, Packable, Element
<1>2. ASSUME NEW p \in Position
      PROVE  Vs(vs_bytes(p)) \in Packable
  <2> PICK s : s = vs_bytes(p)
    OBVIOUS
  <2>1. s \in Bytes /\ Len(s) = VsLen
    BY StampIs DEF Bytes, VsLen
  <2>2. Vs(s) \in Packable
    BY <2>1, ByteValues DEF Vs, Packable, Element
  <2> QED
    BY <2>2
<1>3. \A s : Str(s).code = 2 /\ Str(s).bytes = s /\ Vs(s).code = 51 /\ Vs(s).bytes = s
  BY DEF Str, Vs
<1> QED
  BY <1>1, <1>2, <1>3

LEMMA StrOnce ==
    ASSUME NEW s, NEW t, Str(s) = Str(t)
    PROVE  s = t
BY DEF Str

\* The four subspaces of a namespace differ, and none goes on after "e" with a NUL.
LEMMA SubspacesApart ==
    /\ EVENTS_SUB \in Bytes /\ INDEXES_SUB \in Bytes /\ EVENTS_IN_INDEXES_SUB \in Bytes
    /\ SENTINEL_SUB \in Bytes /\ SUBS_SUB \in Bytes
    /\ EVENTS_SUB # INDEXES_SUB /\ EVENTS_SUB # SENTINEL_SUB /\ EVENTS_SUB # SUBS_SUB
    /\ INDEXES_SUB # SENTINEL_SUB /\ INDEXES_SUB # SUBS_SUB /\ SENTINEL_SUB # SUBS_SUB
    /\ \A s \in {EVENTS_SUB, INDEXES_SUB, SENTINEL_SUB, SUBS_SUB} :
          ~StartsWith(Append(EVENTS_SUB, 0), s)
<1>1. /\ EVENTS_SUB \in Bytes /\ INDEXES_SUB \in Bytes /\ EVENTS_IN_INDEXES_SUB \in Bytes
      /\ SENTINEL_SUB \in Bytes /\ SUBS_SUB \in Bytes
  BY DEF EVENTS_SUB, INDEXES_SUB, EVENTS_IN_INDEXES_SUB, SENTINEL_SUB, SUBS_SUB, Bytes, Byte
<1>2. EVENTS_SUB[1] = 101 /\ INDEXES_SUB[1] = 105 /\ SENTINEL_SUB[1] = 108 /\ SUBS_SUB[1] = 115
  BY DEF EVENTS_SUB, INDEXES_SUB, SENTINEL_SUB, SUBS_SUB
<1>3. ASSUME NEW s \in {EVENTS_SUB, INDEXES_SUB, SENTINEL_SUB, SUBS_SUB}
      PROVE  ~StartsWith(Append(EVENTS_SUB, 0), s)
  <2> PICK y : y = Append(EVENTS_SUB, 0)
    OBVIOUS
  <2>1. Len(y) = 2 /\ y[1] = 101
    BY DEF EVENTS_SUB
  <2>2. CASE s = EVENTS_SUB
    <3>1. Len(s) = 1
      BY <2>2 DEF EVENTS_SUB
    <3> QED
      BY <2>1, <3>1 DEF StartsWith
  <2>3. CASE s # EVENTS_SUB
    <3>1. s[1] # 101
      BY <1>2, <2>3
    <3>2. 1 \in 1..2
      OBVIOUS
    <3> QED
      BY <2>1, <3>1, <3>2 DEF StartsWith
  <2> QED
    BY <2>2, <2>3
<1> QED
  BY <1>1, <1>2, <1>3

\* The elements of the keys.
EventElems(ns, p)   == <<Str(ns), Str(EVENTS_SUB), Vs(vs_bytes(p))>>
SentinelElems(ns)   == <<Str(ns), Str(SENTINEL_SUB)>>
CursorElems(ns, name) == <<Str(ns), Str(SUBS_SUB), Str(name)>>
IndexElems(ns, sorted, type, p) ==
    tag_sentinel_elems(ns, sorted) \o <<Str(type), Vs(vs_bytes(p))>>
TypeElems(ns, sorted, type) == Append(tag_sentinel_elems(ns, sorted), Str(type))

\* Of which namespace and subspace a key is, and the third string in it.
KeyNs(k)   == unpack(k)[1].bytes
KeySub(k)  == unpack(k)[2].bytes
KeyName(k) == unpack(k)[3].bytes

LEMMA EventElemsIs ==
    ASSUME NEW ns \in Bytes, NEW p \in Position
    PROVE  /\ EventElems(ns, p) \in Seq(Packable) /\ Len(EventElems(ns, p)) = 3
           /\ EventElems(ns, p)[1] = Str(ns) /\ EventElems(ns, p)[2] = Str(EVENTS_SUB)
<1>1. Str(ns) \in Packable /\ Str(EVENTS_SUB) \in Packable /\ Vs(vs_bytes(p)) \in Packable
  BY PackableIs, SubspacesApart
<1> HIDE DEF vs_bytes, EVENTS_SUB
<1> QED
  BY <1>1 DEF EventElems

LEMMA SentinelElemsIs ==
    ASSUME NEW ns \in Bytes
    PROVE  /\ SentinelElems(ns) \in Seq(Packable) /\ Len(SentinelElems(ns)) = 2
           /\ SentinelElems(ns)[1] = Str(ns) /\ SentinelElems(ns)[2] = Str(SENTINEL_SUB)
<1>1. Str(ns) \in Packable /\ Str(SENTINEL_SUB) \in Packable
  BY PackableIs, SubspacesApart
<1> QED
  BY <1>1 DEF SentinelElems

LEMMA CursorElemsIs ==
    ASSUME NEW ns \in Bytes, NEW name \in Bytes
    PROVE  /\ CursorElems(ns, name) \in Seq(Packable) /\ Len(CursorElems(ns, name)) = 3
           /\ CursorElems(ns, name)[1] = Str(ns) /\ CursorElems(ns, name)[2] = Str(SUBS_SUB)
           /\ CursorElems(ns, name)[3] = Str(name)
<1>1. Str(ns) \in Packable /\ Str(SUBS_SUB) \in Packable /\ Str(name) \in Packable
  BY PackableIs, SubspacesApart
<1> QED
  BY <1>1 DEF CursorElems

TagList(sorted) == [i \in DOMAIN sorted |-> Str(sorted[i])]

LEMMA TagListIs ==
    ASSUME NEW sorted \in Seq(Bytes)
    PROVE  /\ TagList(sorted) \in Seq(Packable) /\ Len(TagList(sorted)) = Len(sorted)
           /\ Len(sorted) \in Nat
           /\ \A i \in 1..Len(sorted) : TagList(sorted)[i] = Str(sorted[i])
<1>1. DOMAIN sorted = 1..Len(sorted) /\ Len(sorted) \in Nat
  OBVIOUS
<1>2. \A i \in 1..Len(sorted) : sorted[i] \in Bytes
  OBVIOUS
<1>3. \A i \in 1..Len(sorted) : Str(sorted[i]) \in Packable
  BY <1>2, PackableIs
<1>4. TagList(sorted) = [i \in 1..Len(sorted) |-> Str(sorted[i])]
  BY <1>1 DEF TagList
<1>5. [i \in 1..Len(sorted) |-> Str(sorted[i])] \in Seq(Packable)
  BY <1>1, <1>3, IsASeq
<1>6. Len([i \in 1..Len(sorted) |-> Str(sorted[i])]) = Len(sorted)
  BY <1>1
<1>7. \A i \in 1..Len(sorted) : TagList(sorted)[i] = Str(sorted[i])
  BY <1>4
<1> QED
  BY <1>1, <1>4, <1>5, <1>6, <1>7

\* Where the elements of a concatenation come from.
LEMMA Joins ==
    ASSUME NEW S, NEW u \in Seq(S), NEW v \in Seq(S)
    PROVE  /\ u \o v \in Seq(S) /\ Len(u \o v) = Len(u) + Len(v)
           /\ Len(u) \in Nat /\ Len(v) \in Nat
           /\ \A i \in 1..Len(u) : (u \o v)[i] = u[i]
           /\ \A i \in 1..Len(v) : (u \o v)[Len(u) + i] = v[i]
<1>1. Len(u) \in Nat /\ Len(v) \in Nat
  OBVIOUS
<1>2. /\ u \o v \in Seq(S) /\ Len(u \o v) = Len(u) + Len(v)
      /\ \A j \in 1..(Len(u) + Len(v)) : (u \o v)[j] = IF j <= Len(u) THEN u[j] ELSE v[j - Len(u)]
  BY ConcatProperties
<1>3. ASSUME NEW i \in 1..Len(u)
      PROVE  i \in 1..(Len(u) + Len(v)) /\ i <= Len(u)
  BY <1>1
<1>4. ASSUME NEW i \in 1..Len(v)
      PROVE  /\ Len(u) + i \in 1..(Len(u) + Len(v)) /\ ~(Len(u) + i <= Len(u))
             /\ (Len(u) + i) - Len(u) = i
  BY <1>1
<1> QED
  BY <1>1, <1>2, <1>3, <1>4

\* q begins with the elements of the subspace of a list of n tags.
TagHead(ns, sorted, n, q) ==
    /\ q[1] = Str(ns) /\ q[2] = Str(INDEXES_SUB)
    /\ \A i \in 1..n : q[i + 2] = Str(sorted[i])
    /\ q[n + 3] = Str(EVENTS_IN_INDEXES_SUB)

LEMMA TagElemsIs ==
    ASSUME NEW ns \in Bytes, NEW sorted \in Seq(Bytes), NEW n, n = Len(sorted), NEW q,
           q = tag_sentinel_elems(ns, sorted)
    PROVE  n \in Nat /\ q \in Seq(Packable) /\ Len(q) = n + 3 /\ TagHead(ns, sorted, n, q)
<1> PICK head : head = <<Str(ns), Str(INDEXES_SUB)>>
  OBVIOUS
<1> PICK tags : tags = TagList(sorted)
  OBVIOUS
<1> PICK end : end = <<Str(EVENTS_IN_INDEXES_SUB)>>
  OBVIOUS
<1>1. Str(ns) \in Packable /\ Str(INDEXES_SUB) \in Packable /\ Str(EVENTS_IN_INDEXES_SUB) \in Packable
  BY PackableIs, SubspacesApart
<1>2. /\ head \in Seq(Packable) /\ Len(head) = 2 /\ head[1] = Str(ns) /\ head[2] = Str(INDEXES_SUB)
      /\ end \in Seq(Packable) /\ Len(end) = 1 /\ end[1] = Str(EVENTS_IN_INDEXES_SUB)
  BY <1>1
<1>3. tags \in Seq(Packable) /\ Len(tags) = n /\ n \in Nat /\ \A i \in 1..n : tags[i] = Str(sorted[i])
  BY TagListIs
<1>4. q = (head \o tags) \o end
  BY DEF tag_sentinel_elems, TagList
<1> PICK both : both = head \o tags
  OBVIOUS
<1>5. /\ both \in Seq(Packable) /\ Len(both) = n + 2
      /\ \A i \in 1..2 : both[i] = head[i]
      /\ \A i \in 1..n : both[2 + i] = tags[i]
  BY <1>2, <1>3, Joins
<1>6. /\ q \in Seq(Packable) /\ Len(q) = (n + 2) + 1
      /\ \A i \in 1..(n + 2) : q[i] = both[i]
      /\ \A i \in 1..1 : q[(n + 2) + i] = end[i]
  <2>1. /\ both \o end \in Seq(Packable) /\ Len(both \o end) = Len(both) + Len(end)
        /\ \A i \in 1..Len(both) : (both \o end)[i] = both[i]
        /\ \A i \in 1..Len(end) : (both \o end)[Len(both) + i] = end[i]
    BY <1>2, <1>5, Joins
  <2>2. q = both \o end /\ Len(both) = n + 2 /\ Len(end) = 1
    BY <1>2, <1>4, <1>5
  <2> QED
    BY <2>1, <2>2
<1>7. q[1] = Str(ns) /\ q[2] = Str(INDEXES_SUB)
  <2>1. 1 \in 1..2 /\ 2 \in 1..2 /\ 1 \in 1..(n + 2) /\ 2 \in 1..(n + 2)
    BY <1>3
  <2> QED
    BY <1>2, <1>5, <1>6, <2>1
<1>8. ASSUME NEW i \in 1..n
      PROVE  q[i + 2] = Str(sorted[i])
  <2>1. i + 2 \in 1..(n + 2) /\ i + 2 = 2 + i
    BY <1>3
  <2> QED
    BY <1>3, <1>5, <1>6, <2>1
<1>9. q[n + 3] = Str(EVENTS_IN_INDEXES_SUB) /\ Len(q) = n + 3
  <2>1. n + 3 = (n + 2) + 1 /\ 1 \in 1..1
    BY <1>3
  <2> QED
    BY <1>2, <1>6, <2>1
<1> QED
  BY <1>3, <1>6, <1>7, <1>8, <1>9 DEF TagHead

LEMMA IndexElemsIs ==
    ASSUME NEW ns \in Bytes, NEW sorted \in Seq(Bytes), NEW type \in Bytes, NEW p \in Position,
           NEW n, n = Len(sorted), NEW q, q = IndexElems(ns, sorted, type, p)
    PROVE  /\ n \in Nat /\ q \in Seq(Packable) /\ Len(q) = n + 5 /\ TagHead(ns, sorted, n, q)
           /\ q[n + 4] = Str(type) /\ q[n + 5] = Vs(vs_bytes(p))
<1> PICK h : h = tag_sentinel_elems(ns, sorted)
  OBVIOUS
<1> PICK t : t = <<Str(type), Vs(vs_bytes(p))>>
  OBVIOUS
<1>1. n \in Nat /\ h \in Seq(Packable) /\ Len(h) = n + 3 /\ TagHead(ns, sorted, n, h)
  BY TagElemsIs
<1>2. t \in Seq(Packable) /\ Len(t) = 2 /\ t[1] = Str(type) /\ t[2] = Vs(vs_bytes(p))
  <2>1. Str(type) \in Packable /\ Vs(vs_bytes(p)) \in Packable
    BY PackableIs
  <2> HIDE DEF vs_bytes
  <2> QED
    BY <2>1
<1>3. q = h \o t
  BY DEF IndexElems
<1>4. /\ q \in Seq(Packable) /\ Len(q) = (n + 3) + 2
      /\ \A i \in 1..(n + 3) : q[i] = h[i]
      /\ \A i \in 1..2 : q[(n + 3) + i] = t[i]
  BY <1>1, <1>2, <1>3, Joins
<1>5. TagHead(ns, sorted, n, q)
  <2>1. 1 \in 1..(n + 3) /\ 2 \in 1..(n + 3) /\ n + 3 \in 1..(n + 3) /\ \A i \in 1..n : i + 2 \in 1..(n + 3)
    BY <1>1
  <2> QED
    BY <1>1, <1>4, <2>1 DEF TagHead
<1>6. Len(q) = n + 5 /\ q[n + 4] = t[1] /\ q[n + 5] = t[2]
  <2>1. n + 4 = (n + 3) + 1 /\ n + 5 = (n + 3) + 2 /\ 1 \in 1..2 /\ 2 \in 1..2
    BY <1>1
  <2> QED
    BY <1>4, <2>1
<1> QED
  BY <1>1, <1>2, <1>4, <1>5, <1>6

LEMMA TypeElemsIs ==
    ASSUME NEW ns \in Bytes, NEW sorted \in Seq(Bytes), NEW type \in Bytes,
           NEW n, n = Len(sorted), NEW q, q = TypeElems(ns, sorted, type)
    PROVE  /\ n \in Nat /\ q \in Seq(Packable) /\ Len(q) = n + 4 /\ TagHead(ns, sorted, n, q)
           /\ q[n + 4] = Str(type)
<1> PICK h : h = tag_sentinel_elems(ns, sorted)
  OBVIOUS
<1> PICK t : t = Str(type)
  OBVIOUS
<1>1. n \in Nat /\ h \in Seq(Packable) /\ Len(h) = n + 3 /\ TagHead(ns, sorted, n, h)
  BY TagElemsIs
<1>2. t \in Packable
  BY PackableIs
<1>3. /\ q \in Seq(Packable) /\ Len(q) = (n + 3) + 1
      /\ \A i \in 1..(n + 3) : q[i] = h[i]
      /\ q[(n + 3) + 1] = t
  BY <1>1, <1>2, AppendProperties DEF TypeElems
<1>4. TagHead(ns, sorted, n, q)
  <2>1. 1 \in 1..(n + 3) /\ 2 \in 1..(n + 3) /\ n + 3 \in 1..(n + 3) /\ \A i \in 1..n : i + 2 \in 1..(n + 3)
    BY <1>1
  <2> QED
    BY <1>1, <1>3, <2>1 DEF TagHead
<1>5. n + 4 = (n + 3) + 1
  BY <1>1
<1> QED
  BY <1>1, <1>3, <1>4, <1>5

LEMMA Headed ==
    ASSUME NEW h \in Bytes, NEW v \in Bytes, Len(h) = 1
    PROVE  /\ h \o v \in Bytes /\ Len(h \o v) = 1 + Len(v) /\ (h \o v)[1] = h[1]
           /\ \A i \in 1..Len(v) : (h \o v)[1 + i] = v[i]
<1>1. h \o v \in Bytes /\ Len(h \o v) = Len(h) + Len(v)
  BY JoinIs
<1>2. \A i \in 1..Len(h) : (h \o v)[i] = h[i]
  BY JoinIs
<1>3. \A i \in 1..Len(v) : (h \o v)[Len(h) + i] = v[i]
  BY JoinIs
<1> QED
  BY <1>1, <1>2, <1>3

LEMMA AppendPair ==
    ASSUME NEW a, NEW b, NEW c
    PROVE  Append(<<a, b>>, c) = <<a, b, c>>
<1> DEFINE S == {a, b, c}
<1> PICK p : p = <<a, b>>
  OBVIOUS
<1> PICK t : t = <<a, b, c>>
  OBVIOUS
<1>1. p \in Seq(S) /\ Len(p) = 2 /\ p[1] = a /\ p[2] = b /\ c \in S
  OBVIOUS
<1>2. t \in Seq(S) /\ Len(t) = 3 /\ t[1] = a /\ t[2] = b /\ t[3] = c
  OBVIOUS
<1> HIDE DEF S
<1>3. /\ Append(p, c) \in Seq(S) /\ Len(Append(p, c)) = Len(p) + 1
      /\ \A i \in 1..Len(p) : Append(p, c)[i] = p[i]
      /\ Append(p, c)[Len(p) + 1] = c
  BY <1>1, AppendProperties
<1>4. ASSUME NEW i \in 1..3
      PROVE  Append(p, c)[i] = t[i]
  <2>1. i = 1 \/ i = 2 \/ i = 3
    OBVIOUS
  <2> QED
    BY <1>1, <1>2, <1>3, <2>1
<1> PICK r : r = Append(p, c)
  OBVIOUS
<1>5. r \in Seq(S) /\ t \in Seq(S) /\ Len(r) = Len(t) /\ \A i \in 1..Len(r) : r[i] = t[i]
  BY <1>1, <1>2, <1>3, <1>4
<1>6. r = t
  BY <1>5, SeqEqual
<1> QED
  BY <1>6

\* The position at the end of a key is read back.
LEMMA ExtractVs ==
    ASSUME NEW u \in Bytes, NEW p \in Position
    PROVE  extract_vs(u \o Stamp(p)) = p
<1> PICK v : v = vs_bytes(p)
  OBVIOUS
<1> PICK s : s = Stamp(p)
  OBVIOUS
<1> PICK k : k = u \o s
  OBVIOUS
<1> PICK m : m = Len(u)
  OBVIOUS
<1> HIDE DEF vs_bytes
<1>1. v \in Seq(Byte) /\ Len(v) = 4
  BY StampIs
<1>3. <<51>> \in Bytes /\ Len(<<51>>) = 1 /\ <<51>>[1] = 51
  BY ByteValues DEF Bytes
<1> PICK h : h = <<51>> /\ h \in Bytes /\ Len(h) = 1 /\ h[1] = 51
  BY <1>3
<1>2. s = h \o v
  BY DEF Stamp
<1>4. s \in Bytes /\ Len(s) = 5 /\ s[1] = 51 /\ \A i \in 1..4 : s[1 + i] = v[i]
  <2>1. v \in Bytes
    BY <1>1 DEF Bytes
  <2>2. /\ h \o v \in Bytes /\ Len(h \o v) = 1 + Len(v) /\ (h \o v)[1] = h[1]
        /\ \A i \in 1..Len(v) : (h \o v)[1 + i] = v[i]
    BY <2>1, Headed
  <2> QED
    BY <1>1, <1>2, <2>2
<1>5. /\ k \in Bytes /\ Len(k) = m + 5 /\ m \in Nat /\ \A i \in 1..5 : k[m + i] = s[i]
  <2>1. /\ u \o s \in Bytes /\ Len(u \o s) = Len(u) + Len(s) /\ Len(u) \in Nat
        /\ \A i \in 1..Len(s) : (u \o s)[Len(u) + i] = s[i]
    BY <1>4, JoinIs
  <2> QED
    BY <1>4, <2>1
<1> PICK n : n = Len(k) - VsLen
  OBVIOUS
<1>6. n = m + 1 /\ n > 0 /\ k[n] = 51
  BY <1>4, <1>5 DEF VsLen
<1>7. SubSeq(k, n + 1, Len(k)) = v
  <2>1. k \in Seq(Byte) /\ m + 2 \in 1..(Len(k) + 1) /\ m + 5 \in 0..Len(k)
    BY <1>5 DEF Bytes
  <2> PICK c : c = SubSeq(k, m + 2, m + 5)
    OBVIOUS
  <2>2. /\ c \in Seq(Byte) /\ Len(c) = 4
        /\ \A i \in 1..4 : c[i] = k[(m + 2) + i - 1]
    <3>1. /\ SubSeq(k, m + 2, m + 5) \in Seq(Byte)
          /\ Len(SubSeq(k, m + 2, m + 5)) = IF m + 2 <= m + 5 THEN (m + 5) - (m + 2) + 1 ELSE 0
          /\ \A i \in 1..((m + 5) - (m + 2) + 1) : SubSeq(k, m + 2, m + 5)[i] = k[(m + 2) + i - 1]
      BY <2>1, SubSeqProperties
    <3>2. m + 2 <= m + 5 /\ (m + 5) - (m + 2) + 1 = 4
      BY <1>5
    <3> QED
      BY <3>1, <3>2
  <2>3. \A i \in 1..4 : (m + 2) + i - 1 = m + (1 + i) /\ 1 + i \in 1..5
    BY <1>5
  <2>4. \A i \in 1..4 : c[i] = v[i]
    BY <1>4, <1>5, <2>2, <2>3
  <2>5. c = v
    <3>1. Len(c) = Len(v) /\ \A i \in 1..Len(c) : c[i] = v[i]
      BY <1>1, <2>2, <2>4
    <3> QED
      BY <1>1, <2>2, <3>1, SeqEqual
  <2>6. n + 1 = m + 2 /\ Len(k) = m + 5
    BY <1>5, <1>6
  <2> QED
    BY <2>5, <2>6
<1>8. extract_vs(k) = position_of(v)
  BY <1>6, <1>7 DEF extract_vs
<1> QED
  BY <1>8, StampRoundTrip

\* The parts of a key.
IsKey(k, elems, ns, sub) ==
    /\ k \in Bytes /\ k = pack(elems) /\ unpack(k) = elems /\ KeyNs(k) = ns /\ KeySub(k) = sub

LEMMA KeyOfElems ==
    ASSUME NEW ns, NEW sub, NEW elems \in Seq(Packable), elems[1] = Str(ns), elems[2] = Str(sub)
    PROVE  IsKey(pack(elems), elems, ns, sub)
<1>1. pack(elems) \in Bytes /\ unpack(pack(elems)) = elems
  BY UnpackPack, PackableElements, PackedBytes
<1>2. Str(ns).bytes = ns /\ Str(sub).bytes = sub
  BY PackableIs
<1> QED
  BY <1>1, <1>2 DEF IsKey, KeyNs, KeySub

LEMMA EventKeyIs ==
    ASSUME NEW ns \in Bytes, NEW p \in Position
    PROVE  /\ IsKey(pack_event_key(ns, p), EventElems(ns, p), ns, EVENTS_SUB)
           /\ pack_event_key(ns, p) = pack_events_prefix(ns) \o Stamp(p)
           /\ pack_events_prefix(ns) \in Bytes
           /\ extract_vs(pack_event_key(ns, p)) = p
<1>1. pack_event_key(ns, p) = pack(EventElems(ns, p))
  BY DEF pack_event_key, EventElems
<1>2. IsKey(pack_event_key(ns, p), EventElems(ns, p), ns, EVENTS_SUB)
  <2> PICK q : q = EventElems(ns, p)
    OBVIOUS
  <2>1. q \in Seq(Packable) /\ q[1] = Str(ns) /\ q[2] = Str(EVENTS_SUB)
    BY EventElemsIs
  <2>2. IsKey(pack(q), q, ns, EVENTS_SUB)
    BY <2>1, KeyOfElems
  <2> QED
    BY <1>1, <2>2
<1>3. pack_event_key(ns, p) = pack_events_prefix(ns) \o Stamp(p) /\ pack_events_prefix(ns) \in Bytes
  <2> PICK head : head = <<Str(ns), Str(EVENTS_SUB)>>
    OBVIOUS
  <2> PICK e : e = Vs(vs_bytes(p))
    OBVIOUS
  <2>1. Str(ns) \in Element /\ Str(EVENTS_SUB) \in Element /\ e \in Element /\ pack_element(e) = Stamp(p)
    BY PackableIs, SubspacesApart, StampPacked DEF Packable
  <2>2. head \in Seq(Element)
    BY <2>1
  <2>5. Append(head, e) = EventElems(ns, p)
    BY AppendPair DEF EventElems
  <2>3. pack(Append(head, e)) = pack(head) \o pack_element(e) /\ pack(head) \in Bytes
    BY <2>1, <2>2, PackNext
  <2>4. pack(head) = pack_events_prefix(ns)
    BY DEF pack_events_prefix
  <2> QED
    BY <1>1, <2>1, <2>3, <2>4, <2>5
<1>4. extract_vs(pack_event_key(ns, p)) = p
  BY <1>3, ExtractVs
<1> QED
  BY <1>2, <1>3, <1>4

LEMMA SentinelKeyIs ==
    ASSUME NEW ns \in Bytes
    PROVE  IsKey(pack_sentinel_key(ns), SentinelElems(ns), ns, SENTINEL_SUB)
<1> PICK q : q = SentinelElems(ns)
  OBVIOUS
<1>1. q \in Seq(Packable) /\ q[1] = Str(ns) /\ q[2] = Str(SENTINEL_SUB)
  BY SentinelElemsIs
<1>2. pack_sentinel_key(ns) = pack(q)
  BY DEF pack_sentinel_key, SentinelElems
<1>3. IsKey(pack(q), q, ns, SENTINEL_SUB)
  BY <1>1, KeyOfElems
<1> QED
  BY <1>2, <1>3

LEMMA CursorKeyIs ==
    ASSUME NEW ns \in Bytes, NEW name \in Bytes
    PROVE  /\ IsKey(pack_cursor_key(ns, name), CursorElems(ns, name), ns, SUBS_SUB)
           /\ KeyName(pack_cursor_key(ns, name)) = name
<1> PICK q : q = CursorElems(ns, name)
  OBVIOUS
<1>1. q \in Seq(Packable) /\ q[1] = Str(ns) /\ q[2] = Str(SUBS_SUB) /\ q[3] = Str(name)
  BY CursorElemsIs
<1>2. pack_cursor_key(ns, name) = pack(q)
  BY DEF pack_cursor_key, CursorElems
<1>3. IsKey(pack(q), q, ns, SUBS_SUB)
  BY <1>1, KeyOfElems
<1>4. Str(name).bytes = name
  BY PackableIs
<1> QED
  BY <1>1, <1>2, <1>3, <1>4 DEF IsKey, KeyName

LEMMA IndexKeyIs ==
    ASSUME NEW ns \in Bytes, NEW sorted \in Seq(Bytes), NEW type \in Bytes, NEW p \in Position
    PROVE  /\ IsKey(pack_tag_index_key(ns, sorted, type, p), IndexElems(ns, sorted, type, p),
                    ns, INDEXES_SUB)
           /\ extract_vs(pack_tag_index_key(ns, sorted, type, p)) = p
<1> PICK q : q = IndexElems(ns, sorted, type, p)
  OBVIOUS
<1> PICK n : n = Len(sorted)
  OBVIOUS
<1>1. q \in Seq(Packable) /\ q[1] = Str(ns) /\ q[2] = Str(INDEXES_SUB)
  <2>1. q \in Seq(Packable) /\ TagHead(ns, sorted, n, q)
    BY IndexElemsIs
  <2> QED
    BY <2>1 DEF TagHead
<1>2. pack_tag_index_key(ns, sorted, type, p) = pack(q)
  BY DEF pack_tag_index_key, IndexElems
<1>3. IsKey(pack(q), q, ns, INDEXES_SUB)
  BY <1>1, KeyOfElems
<1>4. tag_type_prefix(ns, sorted, type) \in Bytes
  BY PrefixBytes DEF HasNext, Bytes
<1>5. extract_vs(pack_tag_index_key(ns, sorted, type, p)) = p
  <2>1. pack_tag_index_key(ns, sorted, type, p) = tag_type_prefix(ns, sorted, type) \o Stamp(p)
    BY KeyIs
  <2> QED
    BY <1>4, <2>1, ExtractVs
<1> QED
  BY <1>2, <1>3, <1>5

\* The shapes of the elements of a tag list's subspace, of a type's and of a key,
\* for a list of n tags.
TagShape(ns, sorted, n, q) ==
    n \in Nat /\ q \in Seq(Packable) /\ Len(q) = n + 3 /\ TagHead(ns, sorted, n, q)

TypeShape(ns, sorted, type, n, q) ==
    /\ n \in Nat /\ q \in Seq(Packable) /\ Len(q) = n + 4 /\ TagHead(ns, sorted, n, q)
    /\ q[n + 4] = Str(type)

IndexShape(ns, sorted, type, p, n, q) ==
    /\ n \in Nat /\ q \in Seq(Packable) /\ Len(q) = n + 5 /\ TagHead(ns, sorted, n, q)
    /\ q[n + 4] = Str(type) /\ q[n + 5] = Vs(vs_bytes(p))

LEMMA Shapes ==
    ASSUME NEW ns \in Bytes, NEW sorted \in Seq(Bytes), NEW type \in Bytes, NEW p \in Position
    PROVE  /\ TagShape(ns, sorted, Len(sorted), tag_sentinel_elems(ns, sorted))
           /\ TypeShape(ns, sorted, type, Len(sorted), TypeElems(ns, sorted, type))
           /\ IndexShape(ns, sorted, type, p, Len(sorted), IndexElems(ns, sorted, type, p))
<1> PICK n : n = Len(sorted)
  OBVIOUS
<1>1. TagShape(ns, sorted, n, tag_sentinel_elems(ns, sorted))
  <2> PICK q : q = tag_sentinel_elems(ns, sorted)
    OBVIOUS
  <2>1. n \in Nat /\ q \in Seq(Packable) /\ Len(q) = n + 3 /\ TagHead(ns, sorted, n, q)
    BY TagElemsIs
  <2> QED
    BY <2>1 DEF TagShape
<1>2. TypeShape(ns, sorted, type, n, TypeElems(ns, sorted, type))
  <2> PICK q : q = TypeElems(ns, sorted, type)
    OBVIOUS
  <2>1. /\ n \in Nat /\ q \in Seq(Packable) /\ Len(q) = n + 4 /\ TagHead(ns, sorted, n, q)
        /\ q[n + 4] = Str(type)
    BY TypeElemsIs
  <2> QED
    BY <2>1 DEF TypeShape
<1>3. IndexShape(ns, sorted, type, p, n, IndexElems(ns, sorted, type, p))
  <2> PICK q : q = IndexElems(ns, sorted, type, p)
    OBVIOUS
  <2>1. /\ n \in Nat /\ q \in Seq(Packable) /\ Len(q) = n + 5 /\ TagHead(ns, sorted, n, q)
        /\ q[n + 4] = Str(type) /\ q[n + 5] = Vs(vs_bytes(p))
    BY IndexElemsIs
  <2> QED
    BY <2>1 DEF IndexShape
<1> QED
  BY <1>1, <1>2, <1>3

(***************************************************************************)
(* The ranges of the store.                                                *)
(***************************************************************************)
LEMMA BeginsWithPart ==
    ASSUME NEW u \in Bytes, NEW v \in Bytes
    PROVE  IsPrefix(u, u \o v)
<1> PICK w : w = u \o v
  OBVIOUS
<1>1. w \in Bytes /\ Len(w) = Len(u) + Len(v) /\ Len(u) \in Nat /\ Len(v) \in Nat
  BY JoinIs
<1>2. \A i \in 1..Len(u) : u[i] = w[i]
  BY JoinIs
<1>3. Len(u) <= Len(w) /\ u \in Seq(Byte) /\ w \in Seq(Byte)
  BY <1>1 DEF Bytes
<1> QED
  BY <1>2, <1>3, PrefixIs

\* A packed tuple that begins with a string has a byte other than FF, so that
\* strinc is defined for it.
LEMMA PackHasNext ==
    ASSUME NEW q \in Seq(Packable), q # <<>>
    PROVE  HasNext(pack(q))
<1>1. q \in Seq(Element) /\ Len(q) # 0 /\ 1 \in 1..Len(q)
  BY PackableElements
<1>2. pack(q) \in Seq(Byte) /\ Len(pack(q)) # 0 /\ pack(q)[1] = q[1].code
  BY <1>1, PackType
<1>3. q[1].code # 255
  BY <1>1 DEF Packable
<1>4. 1 \in 1..Len(pack(q))
  BY <1>2
<1> QED
  BY <1>2, <1>3, <1>4 DEF HasNext

LEMMA InPrefixRange ==
    ASSUME NEW q \in Seq(Packable), q # <<>>, NEW k \in Bytes
    PROVE  InByteRange(k, prefix_range(pack(q))) <=> IsPrefix(pack(q), k)
<1>1. HasNext(pack(q)) /\ k \in Seq(Byte)
  BY PackHasNext DEF Bytes
<1> QED
  BY <1>1, PrefixRangeExact DEF InByteRange, HasNext

\* The range of the events of a namespace holds its event keys, and of the keys of
\* other subspaces and namespaces none.
LEMMA OwnEventsInRange ==
    ASSUME NEW ns \in Bytes, NEW p \in Position
    PROVE  InByteRange(pack_event_key(ns, p), prefix_range(pack_events_prefix(ns)))
<1> PICK q : q = <<Str(ns), Str(EVENTS_SUB)>>
  OBVIOUS
<1>1. q \in Seq(Packable) /\ q # <<>>
  BY PackableIs, SubspacesApart
<1>2. pack_events_prefix(ns) = pack(q)
  BY DEF pack_events_prefix
<1>3. pack_event_key(ns, p) \in Bytes
  BY EventKeyIs DEF IsKey
<1>4. IsPrefix(pack(q), pack_event_key(ns, p))
  <2>1. Stamp(p) \in Bytes
    BY StampPacked DEF Bytes
  <2> QED
    BY <1>2, <2>1, EventKeyIs, BeginsWithPart
<1> QED
  BY <1>1, <1>2, <1>3, <1>4, InPrefixRange

Subspaces == {EVENTS_SUB, INDEXES_SUB, SENTINEL_SUB, SUBS_SUB}

LEMMA OnlyEventsInRange ==
    ASSUME NEW ns \in Bytes, NEW m, NEW sub \in Subspaces,
           NEW b \in Seq(Packable), NEW k, IsKey(k, b, m, sub), b[2] = Str(sub),
           InByteRange(k, prefix_range(pack_events_prefix(ns)))
    PROVE  m = ns /\ sub = EVENTS_SUB
<1> PICK q : q = <<Str(ns), Str(EVENTS_SUB)>>
  OBVIOUS
<1>1. q \in Seq(Packable) /\ Len(q) = 2 /\ q[1] = Str(ns) /\ q[2] = Str(EVENTS_SUB)
  BY PackableIs, SubspacesApart
<1>2. pack_events_prefix(ns) = pack(q)
  BY DEF pack_events_prefix
<1>3. k \in Bytes /\ k = pack(b) /\ b[1].bytes = m
  BY DEF IsKey, KeyNs
<1>4. IsPrefix(pack(q), pack(b))
  <2>1. q # <<>>
    BY <1>1
  <2> QED
    BY <1>1, <1>2, <1>3, <2>1, InPrefixRange
<1>5. Leads(2, q, b)
  <2> PICK n : n = Len(q)
    OBVIOUS
  <2>1. n \in Nat /\ n # 0 /\ n = 2
    BY <1>1
  <2>2. q[n].code = 2
    BY <1>1, <2>1, PackableIs
  <2>3. Leads(n, q, b)
    BY <1>1, <1>4, <2>1, <2>2, PrefixLeads
  <2> QED
    BY <2>1, <2>3
<1>6. b[1] = q[1] /\ (b[2] = q[2] \/ StartsWith(Append(q[2].bytes, 0), b[2].bytes))
  BY <1>5 DEF Leads
<1>7. m = ns
  BY <1>1, <1>3, <1>6, PackableIs
<1>8. b[2].bytes = sub /\ q[2].bytes = EVENTS_SUB
  BY <1>1, PackableIs
<1>9. sub = EVENTS_SUB
  BY <1>1, <1>6, <1>8, SubspacesApart DEF Subspaces
<1> QED
  BY <1>7, <1>9

\* What is in the range of a type begins with the elements of the range.
LEMMA TypeRangeLeads ==
    ASSUME NEW ns \in Bytes, NEW sorted \in Seq(Bytes), NEW type \in Bytes,
           NEW after \in Position, NEW b \in Seq(Packable),
           InByteRange(pack(b), type_range(ns, sorted, type, after))
    PROVE  Leads(Len(sorted) + 4, TypeElems(ns, sorted, type), b)
<1> PICK a : a = TypeElems(ns, sorted, type)
  OBVIOUS
<1> PICK n : n = Len(sorted)
  OBVIOUS
<1> PICK m : m = n + 4
  OBVIOUS
<1>1. n \in Nat /\ a \in Seq(Packable) /\ Len(a) = n + 4 /\ a[n + 4] = Str(type)
  BY TypeElemsIs
<1>2. tag_type_prefix(ns, sorted, type) = pack(a)
  BY DEF tag_type_prefix, TypeElems
<1>3. pack(b) \in Seq(Byte)
  BY PackableElements, PackedBytes DEF Bytes
<1>4. IsPrefix(pack(a), pack(b))
  BY <1>2, <1>3, RangeWithinPrefix
<1>5. m \in Nat /\ m = Len(a) /\ m # 0 /\ a[m].code = 2
  BY <1>1, PackableIs
<1>6. Leads(m, a, b)
  BY <1>1, <1>4, <1>5, PrefixLeads
<1> QED
  BY <1>6

\* Only keys of the index of the namespace are in it.
InIndex(ns, sorted, n, b) ==
    b[1] = Str(ns) /\ b[2] = Str(INDEXES_SUB) /\ \A i \in 1..n : b[i + 2] = Str(sorted[i])

LEMMA LeadsInIndex ==
    ASSUME NEW ns, NEW sorted, NEW n \in Nat, NEW a, TagHead(ns, sorted, n, a),
           NEW m \in {n + 3, n + 4}, NEW b, Leads(m, a, b)
    PROVE  InIndex(ns, sorted, n, b)
<1>1. \A i \in 1..(m - 1) : b[i] = a[i]
  BY DEF Leads
<1>2. 1 \in 1..(m - 1) /\ 2 \in 1..(m - 1) /\ \A i \in 1..n : i + 2 \in 1..(m - 1)
  OBVIOUS
<1>3. a[1] = Str(ns) /\ a[2] = Str(INDEXES_SUB) /\ \A i \in 1..n : a[i + 2] = Str(sorted[i])
  BY DEF TagHead
<1> QED
  BY <1>1, <1>2, <1>3 DEF InIndex

\* No tag is the reserved one.
NoReserved(sorted) == \A i \in 1..Len(sorted) : sorted[i] # EVENTS_IN_INDEXES_SUB

NoNul(s) == \A i \in 1..Len(s) : s[i] # 0

\* In the range of a type are the index keys of that namespace, tag list and type
\* only, if no type holds a NUL.
LEMMA SameTypeKey ==
    ASSUME NEW ns \in Bytes, NEW sorted \in Seq(Bytes), NEW type \in Bytes,
           NEW m \in Bytes, NEW tags \in Seq(Bytes), NEW t \in Bytes, NEW p \in Position,
           NoReserved(tags), NoNul(t),
           Leads(Len(sorted) + 4, TypeElems(ns, sorted, type), IndexElems(m, tags, t, p))
    PROVE  m = ns /\ tags = sorted /\ t = type
<1> PICK a : a = TypeElems(ns, sorted, type)
  OBVIOUS
<1> PICK b : b = IndexElems(m, tags, t, p)
  OBVIOUS
<1> PICK n : n = Len(sorted)
  OBVIOUS
<1> PICK l : l = Len(tags)
  OBVIOUS
<1>0. TypeShape(ns, sorted, type, n, a) /\ IndexShape(m, tags, t, p, l, b)
  BY Shapes
<1>1. n \in Nat /\ TagHead(ns, sorted, n, a) /\ a[n + 4] = Str(type)
  BY <1>0 DEF TypeShape
<1>2. /\ l \in Nat /\ Len(b) = l + 5 /\ TagHead(m, tags, l, b)
      /\ b[l + 4] = Str(t) /\ b[l + 5] = Vs(vs_bytes(p))
  BY <1>0 DEF IndexShape
<1>3. /\ n + 4 <= Len(b) /\ \A i \in 1..(n + 3) : b[i] = a[i]
      /\ b[n + 4].code = a[n + 4].code
      /\ b[n + 4] = a[n + 4] \/ StartsWith(Append(a[n + 4].bytes, 0), b[n + 4].bytes)
  <2>1. Leads(n + 4, a, b) /\ (n + 4) - 1 = n + 3
    BY <1>1
  <2> QED
    BY <2>1 DEF Leads
<1>4. /\ a[1] = Str(ns) /\ \A i \in 1..n : a[i + 2] = Str(sorted[i])
      /\ a[n + 3] = Str(EVENTS_IN_INDEXES_SUB)
      /\ b[1] = Str(m) /\ \A i \in 1..l : b[i + 2] = Str(tags[i])
  BY <1>1, <1>2 DEF TagHead
<1>5. m = ns
  <2>1. 1 \in 1..(n + 3)
    BY <1>1
  <2>2. Str(m) = Str(ns)
    BY <1>3, <1>4, <2>1
  <2> QED
    BY <2>2, StrOnce
<1>6. ~(l + 1 = n)
  <2> SUFFICES ASSUME l + 1 = n PROVE FALSE
    OBVIOUS
  <2>1. l + 5 = n + 4
    BY <1>1, <1>2
  <2>2. b[n + 4].code = 51 /\ a[n + 4].code = 2
    BY <1>1, <1>2, <2>1, PackableIs
  <2>3. b[n + 4].code = a[n + 4].code
    BY <1>3
  <2> QED
    BY <2>2, <2>3
<1>7. ~(l > n)
  <2> SUFFICES ASSUME l > n PROVE FALSE
    OBVIOUS
  <2>1. n + 1 \in 1..l /\ (n + 1) + 2 = n + 3 /\ n + 3 \in 1..(n + 3)
    BY <1>1, <1>2
  <2>2. Str(tags[n + 1]) = Str(EVENTS_IN_INDEXES_SUB)
    BY <1>3, <1>4, <2>1
  <2>3. tags[n + 1] = EVENTS_IN_INDEXES_SUB
    BY <2>2, StrOnce
  <2> QED
    BY <2>1, <2>3 DEF NoReserved
<1>8. l = n
  BY <1>1, <1>2, <1>3, <1>6, <1>7
<1>9. tags = sorted
  <2>1. ASSUME NEW i \in 1..n
        PROVE  tags[i] = sorted[i]
    <3>1. i + 2 \in 1..(n + 3) /\ i \in 1..l
      BY <1>1, <1>8
    <3>2. Str(tags[i]) = Str(sorted[i])
      BY <1>3, <1>4, <3>1
    <3> QED
      BY <3>2, StrOnce
  <2>2. Len(tags) = Len(sorted) /\ \A i \in 1..Len(tags) : tags[i] = sorted[i]
    BY <1>8, <2>1
  <2> QED
    BY <2>2, SeqEqual
<1>10. t = type
  <2>1. b[n + 4] = Str(t)
    BY <1>2, <1>8
  <2>2. CASE b[n + 4] = a[n + 4]
    <3>1. Str(t) = Str(type)
      BY <1>1, <2>1, <2>2
    <3> QED
      BY <3>1, StrOnce
  <2>3. CASE StartsWith(Append(a[n + 4].bytes, 0), b[n + 4].bytes)
    <3> PICK y : y = Append(type, 0)
      OBVIOUS
    <3> PICK k : k = Len(type)
      OBVIOUS
    <3>1. StartsWith(y, t)
      <4>1. a[n + 4].bytes = type /\ b[n + 4].bytes = t
        BY <1>1, <2>1, PackableIs
      <4> QED
        BY <2>3, <4>1
    <3>2. k \in Nat /\ Len(y) = k + 1 /\ y[k + 1] = 0
      <4>1. type \in Seq(Byte)
        BY DEF Bytes
      <4> QED
        BY <4>1, ByteValues, AppendProperties
    <3>3. k + 1 \in 1..(k + 1) /\ Len(t) \in Nat
      BY <3>2 DEF Bytes
    <3>4. t[k + 1] = 0 /\ k + 1 <= Len(t)
      BY <3>1, <3>2, <3>3 DEF StartsWith
    <3>5. k + 1 \in 1..Len(t)
      BY <3>2, <3>3, <3>4
    <3> QED
      BY <3>4, <3>5 DEF NoNul
  <2> QED
    BY <1>3, <2>2, <2>3
<1> QED
  BY <1>5, <1>9, <1>10

\* b is long enough for a key and begins with the elements of a tag list's
\* subspace.
LeadsLong(ns, sorted, b) ==
    Leads(Len(sorted) + 3, tag_sentinel_elems(ns, sorted), b) /\ Len(b) >= Len(sorted) + 5

\* In the range of a tag list are the keys of lists that begin with it, when they
\* have enough elements.
LEMMA DiscoveredKey ==
    ASSUME NEW ns \in Bytes, NEW sorted \in Seq(Bytes),
           NEW m \in Bytes, NEW tags \in Seq(Bytes), NEW t \in Bytes, NEW p \in Position,
           LeadsLong(ns, sorted, IndexElems(m, tags, t, p))
    PROVE  m = ns /\ StartsWith(sorted, tags)
<1> USE DEF LeadsLong
<1> PICK n : n = Len(sorted)
  OBVIOUS
<1> PICK a : a = tag_sentinel_elems(ns, sorted)
  OBVIOUS
<1> PICK b : b = IndexElems(m, tags, t, p)
  OBVIOUS
<1> PICK l : l = Len(tags)
  OBVIOUS
<1>0. TagShape(ns, sorted, n, a) /\ IndexShape(m, tags, t, p, l, b)
  BY Shapes
<1>1. n \in Nat /\ TagHead(ns, sorted, n, a)
  BY <1>0 DEF TagShape
<1>2. l \in Nat /\ Len(b) = l + 5 /\ TagHead(m, tags, l, b)
  BY <1>0 DEF IndexShape
<1>3. n <= l
  BY <1>1, <1>2
<1>4. b[1] = Str(ns) /\ \A i \in 1..n : b[i + 2] = Str(sorted[i])
  <2> PICK j : j = n + 3
    OBVIOUS
  <2>1. Leads(j, a, b) /\ j \in {n + 3, n + 4}
    OBVIOUS
  <2>2. InIndex(ns, sorted, n, b)
    BY <1>1, <2>1, LeadsInIndex
  <2> QED
    BY <2>2 DEF InIndex
<1>5. b[1] = Str(m) /\ \A i \in 1..l : b[i + 2] = Str(tags[i])
  BY <1>2 DEF TagHead
<1>6. m = ns
  BY <1>4, <1>5, StrOnce
<1>7. ASSUME NEW i \in 1..n
      PROVE  tags[i] = sorted[i]
  <2>1. i \in 1..l
    BY <1>1, <1>2, <1>3
  <2>2. Str(tags[i]) = Str(sorted[i])
    BY <1>4, <1>5, <2>1
  <2> QED
    BY <2>2, StrOnce
<1> QED
  BY <1>3, <1>6, <1>7 DEF StartsWith

\* The range of a tag list holds the keys of that list.
LEMMA TagRangeLeads ==
    ASSUME NEW ns \in Bytes, NEW sorted \in Seq(Bytes), NEW b \in Seq(Packable),
           InByteRange(pack(b), prefix_range(events_in_tag_prefix(ns, sorted)))
    PROVE  Leads(Len(sorted) + 3, tag_sentinel_elems(ns, sorted), b)
<1> PICK a : a = tag_sentinel_elems(ns, sorted)
  OBVIOUS
<1> PICK n : n = Len(sorted)
  OBVIOUS
<1> PICK m : m = n + 3
  OBVIOUS
<1>1. n \in Nat /\ a \in Seq(Packable) /\ Len(a) = n + 3 /\ a[n + 3] = Str(EVENTS_IN_INDEXES_SUB)
  <2>1. n \in Nat /\ a \in Seq(Packable) /\ Len(a) = n + 3 /\ TagHead(ns, sorted, n, a)
    BY TagElemsIs
  <2> QED
    BY <2>1 DEF TagHead
<1>2. events_in_tag_prefix(ns, sorted) = pack(a)
  BY DEF events_in_tag_prefix
<1>3. a # <<>> /\ pack(b) \in Bytes
  BY <1>1, PackableElements, PackedBytes
<1>4. IsPrefix(pack(a), pack(b))
  BY <1>1, <1>2, <1>3, InPrefixRange
<1>5. m \in Nat /\ m = Len(a) /\ m # 0 /\ a[m].code = 2
  BY <1>1, PackableIs
<1>6. Leads(m, a, b)
  BY <1>1, <1>4, <1>5, PrefixLeads
<1> QED
  BY <1>6

LEMMA OwnKeysInTagRange ==
    ASSUME NEW ns \in Bytes, NEW sorted \in Seq(Bytes), NEW type \in Bytes, NEW p \in Position
    PROVE  InByteRange(pack_tag_index_key(ns, sorted, type, p),
                       prefix_range(events_in_tag_prefix(ns, sorted)))
<1> PICK a : a = tag_sentinel_elems(ns, sorted)
  OBVIOUS
<1> PICK k : k = pack_tag_index_key(ns, sorted, type, p)
  OBVIOUS
<1> PICK s : s = pack_element(Str(type)) \o Stamp(p)
  OBVIOUS
<1>1. a \in Seq(Packable) /\ Len(a) = Len(sorted) + 3 /\ Len(sorted) \in Nat
  BY TagElemsIs
<1>2. a # <<>> /\ a \in Seq(Element)
  BY <1>1, PackableElements
<1>3. k \in Bytes
  BY IndexKeyIs DEF IsKey
<1>4. Str(type) \in Element /\ Stamp(p) \in Bytes
  BY PackableIs, StampPacked DEF Packable, Bytes
<1>5. /\ tag_type_prefix(ns, sorted, type) = pack(a) \o pack_element(Str(type))
      /\ pack(a) \in Bytes /\ pack_element(Str(type)) \in Bytes
  BY <1>2, <1>4, PackNext DEF tag_type_prefix
<1>6. k = (pack(a) \o pack_element(Str(type))) \o Stamp(p)
  <2>1. pack_tag_index_key(ns, sorted, type, p) = tag_type_prefix(ns, sorted, type) \o Stamp(p)
    BY KeyIs
  <2> QED
    BY <1>5, <2>1
<1>7. k = pack(a) \o s /\ s \in Bytes
  BY <1>4, <1>5, <1>6, ConcatAssociative, JoinIs DEF Bytes
<1>8. IsPrefix(pack(a), k)
  BY <1>5, <1>7, BeginsWithPart
<1>9. events_in_tag_prefix(ns, sorted) = pack(a)
  BY DEF events_in_tag_prefix
<1> QED
  BY <1>1, <1>2, <1>3, <1>8, <1>9, InPrefixRange

(***************************************************************************)
(* The order of strings is a strict total order.                           *)
(***************************************************************************)
LEMMA LexTransitive ==
    ASSUME NEW l \in Nat, NEW m \in Nat, NEW n \in Nat, NEW a, NEW b, NEW c,
           AtMostFF(l, a), AtMostFF(m, b), AtMostFF(n, c), Lex(l, a, m, b), Lex(m, b, n, c)
    PROVE  Lex(l, a, n, c)
<1>1. CASE l < m /\ \A i \in 1..l : a[i] = b[i]
  <2>1. CASE m < n /\ \A i \in 1..m : b[i] = c[i]
    <3>1. l < n /\ \A i \in 1..l : i \in 1..m
      BY <1>1, <2>1
    <3> QED
      BY <1>1, <2>1, <3>1 DEF Lex
  <2>2. ASSUME NEW i \in 1..m, i <= n, b[i] < c[i], \A j \in 1..(i - 1) : b[j] = c[j]
        PROVE  Lex(l, a, n, c)
    <3>1. CASE i <= l
      <4>1. i \in 1..l /\ \A j \in 1..(i - 1) : j \in 1..l
        BY <3>1
      <4> QED
        BY <1>1, <2>2, <4>1 DEF Lex
    <3>2. CASE ~(i <= l)
      <4>1. l < n /\ \A j \in 1..l : j \in 1..(i - 1)
        BY <2>2, <3>2
      <4> QED
        BY <1>1, <2>2, <4>1 DEF Lex
    <3> QED
      BY <3>1, <3>2
  <2> QED
    BY <2>1, <2>2 DEF Lex
<1>2. ASSUME NEW i \in 1..l, i <= m, a[i] < b[i], \A j \in 1..(i - 1) : a[j] = b[j]
      PROVE  Lex(l, a, n, c)
  <2>1. CASE m < n /\ \A j \in 1..m : b[j] = c[j]
    <3>1. i \in 1..m /\ i <= n /\ \A j \in 1..(i - 1) : j \in 1..m
      BY <1>2, <2>1
    <3> QED
      BY <1>2, <2>1, <3>1 DEF Lex
  <2>2. ASSUME NEW k \in 1..m, k <= n, b[k] < c[k], \A j \in 1..(k - 1) : b[j] = c[j]
        PROVE  Lex(l, a, n, c)
    <3>1. CASE i < k
      <4>1. i <= n /\ i \in 1..(k - 1) /\ \A j \in 1..(i - 1) : j \in 1..(k - 1)
        BY <1>2, <2>2, <3>1
      <4> QED
        BY <1>2, <2>2, <4>1 DEF Lex
    <3>2. CASE i = k
      <4>1. a[i] \in Int /\ b[i] \in Int /\ c[i] \in Int
        <5>1. i \in 1..m /\ i \in 1..n
          BY <1>2, <2>2, <3>2
        <5> QED
          BY <5>1 DEF AtMostFF
      <4>2. a[i] < c[i]
        BY <1>2, <2>2, <3>2, <4>1
      <4> QED
        BY <1>2, <2>2, <3>2, <4>2 DEF Lex
    <3>3. CASE i > k
      <4>1. k \in 1..l /\ k \in 1..(i - 1) /\ \A j \in 1..(k - 1) : j \in 1..(i - 1)
        BY <1>2, <2>2, <3>3
      <4> QED
        BY <1>2, <2>2, <4>1 DEF Lex
    <3> QED
      BY <3>1, <3>2, <3>3
  <2> QED
    BY <2>1, <2>2 DEF Lex
<1> QED
  BY <1>1, <1>2 DEF Lex

LEMMA LessTransitive ==
    ASSUME NEW a \in Bytes, NEW b \in Bytes, NEW c \in Bytes, Less(a, b), Less(b, c)
    PROVE  Less(a, c)
<1>1. a \in Seq(Byte) /\ b \in Seq(Byte) /\ c \in Seq(Byte)
  BY DEF Bytes
<1>2. Len(a) \in Nat /\ Len(b) \in Nat /\ Len(c) \in Nat
  BY <1>1
<1>3. AtMostFF(Len(a), a) /\ AtMostFF(Len(b), b) /\ AtMostFF(Len(c), c)
  BY <1>1, BytesOf DEF AtMostFF
<1>4. Lex(Len(a), a, Len(b), b) /\ Lex(Len(b), b, Len(c), c)
  BY <1>1, LessIs
<1>5. Lex(Len(a), a, Len(c), c)
  BY <1>2, <1>3, <1>4, LexTransitive
<1> QED
  BY <1>1, <1>5, LessIs

LEMMA LessIrreflexive ==
    ASSUME NEW a \in Bytes
    PROVE  ~Less(a, a)
<1>1. a \in Seq(Byte) /\ Len(a) \in Nat /\ \A i \in 1..Len(a) : a[i] \in Int
  <2>1. a \in Seq(Byte) /\ Len(a) \in Nat
    BY DEF Bytes
  <2> QED
    BY <2>1, BytesOf
<1>2. ~Lex(Len(a), a, Len(a), a)
  BY <1>1 DEF Lex
<1> QED
  BY <1>1, <1>2, LessIs

LEMMA LessTotal ==
    ASSUME NEW a \in Bytes, NEW b \in Bytes, a # b
    PROVE  Less(a, b) \/ Less(b, a)
<1>1. a \in Seq(Byte) /\ b \in Seq(Byte)
  BY DEF Bytes
<1>2. CASE IsPrefix(a, b) \/ IsPrefix(b, a)
  BY <1>2 DEF Less, IsStrictPrefix
<1>3. CASE ~IsPrefix(a, b) /\ ~IsPrefix(b, a)
  <2>1. PICK i \in DOMAIN a \intersect DOMAIN b :
               a[i] # b[i] /\ \A j \in 1..(i - 1) : a[j] = b[j]
    BY <1>1, <1>3, FirstDifference
  <2>2. a[i] \in Int /\ b[i] \in Int
    <3>1. DOMAIN a = 1..Len(a) /\ DOMAIN b = 1..Len(b)
      BY <1>1
    <3>2. i \in 1..Len(a) /\ i \in 1..Len(b)
      BY <2>1, <3>1
    <3> QED
      BY <1>1, <3>2, BytesOf
  <2>3. a[i] < b[i] \/ b[i] < a[i]
    BY <2>1, <2>2
  <2>4. \A j \in 1..(i - 1) : b[j] = a[j]
    BY <2>1
  <2> QED
    BY <2>1, <2>3, <2>4 DEF Less
<1> QED
  BY <1>2, <1>3

\* A finite set of strings has a last one.
LastIn(x, U) == x \in U /\ \A y \in U : y # x => Less(y, x)

LEMMA LastString ==
    ASSUME NEW U \in SUBSET Bytes, IsFiniteSet(U), U # {}
    PROVE  \E x : LastIn(x, U)
<1> DEFINE Bad == {V \in SUBSET Bytes : IsFiniteSet(V) /\ V # {} /\ ~\E x : LastIn(x, V)}
           N == {Cardinality(V) : V \in Bad}
<1> SUFFICES ASSUME Bad # {} PROVE FALSE
  OBVIOUS
<1>1. N \in SUBSET Nat /\ N # {}
  BY FS_CardinalityType
<1>2. PICK n \in N : \A k \in N : n <= k
  <2> HIDE DEF N
  <2> QED BY <1>1, LeastNatural
<1>3. PICK V \in Bad : n = Cardinality(V)
  BY <1>2
<1>4. V \in SUBSET Bytes /\ IsFiniteSet(V) /\ V # {} /\ ~\E x : LastIn(x, V)
  BY <1>3
<1>5. PICK x : x \in V
  BY <1>4
<1> DEFINE W == V \ {x}
<1>6. W \in SUBSET Bytes /\ IsFiniteSet(W) /\ Cardinality(W) = n - 1 /\ n \in Nat
  <2>1. IsFiniteSet(V \ {x}) /\ Cardinality(V \ {x}) = Cardinality(V) - 1
    BY <1>4, <1>5, FS_RemoveElement
  <2>2. Cardinality(V) \in Nat
    BY <1>4, FS_CardinalityType
  <2> QED
    BY <1>3, <1>4, <2>1, <2>2
<1>7. W # {}
  <2> SUFFICES ASSUME W = {} PROVE FALSE
    OBVIOUS
  <2>1. LastIn(x, V)
    BY <1>5 DEF LastIn
  <2> QED
    BY <1>4, <2>1
<1>8. PICK y : LastIn(y, W)
  <2> SUFFICES ASSUME ~\E y : LastIn(y, W) PROVE FALSE
    OBVIOUS
  <2>1. W \in Bad
    BY <1>6, <1>7
  <2>2. Cardinality(W) \in N
    BY <2>1
  <2> HIDE DEF N, W
  <2> QED
    BY <1>2, <1>6, <2>2
<1>9. y \in V /\ y # x /\ \A z \in V : z # x /\ z # y => Less(z, y)
  BY <1>8 DEF LastIn
<1>10. x \in Bytes /\ y \in Bytes /\ \A z \in V : z \in Bytes
  BY <1>4, <1>5, <1>9
<1>11. CASE Less(x, y)
  <2>1. LastIn(y, V)
    BY <1>9, <1>11 DEF LastIn
  <2> QED
    BY <1>4, <2>1
<1>12. CASE Less(y, x)
  <2>1. ASSUME NEW z \in V, z # x
        PROVE  Less(z, x)
    <3>1. CASE z = y
      BY <1>12, <3>1
    <3>2. CASE z # y
      <4>1. Less(z, y)
        BY <1>9, <2>1, <3>2
      <4> QED
        BY <1>10, <1>12, <4>1, LessTransitive
    <3> QED
      BY <3>1, <3>2
  <2>2. LastIn(x, V)
    BY <1>5, <2>1 DEF LastIn
  <2> QED
    BY <1>4, <2>2
<1> QED
  BY <1>9, <1>10, <1>11, <1>12, LessTotal

(***************************************************************************)
(* Sorted lists of tags.                                                   *)
(***************************************************************************)

\* r lists the strings of U in order.
Lists(r, U) == r \in Seq(Bytes) /\ increasing(r) /\ Range(r) = U

LEMMA ListIs ==
    ASSUME NEW r, NEW U, Lists(r, U), NEW n, n = Len(r)
    PROVE  /\ n \in Nat /\ DOMAIN r = 1..n /\ \A i \in 1..n : r[i] \in Bytes /\ r[i] \in U
           /\ \A x \in U : \E i \in 1..n : r[i] = x
           /\ \A i, j \in 1..n : i < j => Less(r[i], r[j])
           /\ U \subseteq Bytes
<1>1. r \in Seq(Bytes) /\ increasing(r) /\ U = {r[i] : i \in DOMAIN r}
  BY DEF Lists, Range
<1>2. n \in Nat /\ DOMAIN r = 1..n /\ \A i \in 1..n : r[i] \in Bytes
  BY <1>1
<1> QED
  BY <1>1, <1>2 DEF increasing

LEMMA ListAppend ==
    ASSUME NEW r, NEW U, Lists(r, U), NEW x \in Bytes, \A y \in U : Less(y, x)
    PROVE  Lists(Append(r, x), U \union {x})
<1> PICK n : n = Len(r)
  OBVIOUS
<1> PICK t : t = Append(r, x)
  OBVIOUS
<1>1. /\ n \in Nat /\ \A i \in 1..n : r[i] \in Bytes /\ r[i] \in U
      /\ \A y \in U : \E i \in 1..n : r[i] = y
      /\ \A i, j \in 1..n : i < j => Less(r[i], r[j])
  BY ListIs
<1>2. r \in Seq(Bytes)
  BY DEF Lists
<1>3. /\ t \in Seq(Bytes) /\ Len(t) = n + 1
      /\ \A i \in 1..n : t[i] = r[i]
      /\ t[n + 1] = x
  BY <1>2, AppendProperties
<1>4. DOMAIN t = 1..(n + 1)
  BY <1>3
<1>5. ASSUME NEW i \in 1..(n + 1), NEW j \in 1..(n + 1), i < j
      PROVE  Less(t[i], t[j])
  <2>1. i \in 1..n
    BY <1>1, <1>5
  <2>2. CASE j = n + 1
    BY <1>1, <1>3, <2>1, <2>2
  <2>3. CASE j # n + 1
    <3>1. j \in 1..n
      BY <1>1, <2>3
    <3> QED
      BY <1>1, <1>3, <1>5, <2>1, <3>1
  <2> QED
    BY <2>2, <2>3
<1>6. increasing(t)
  BY <1>4, <1>5 DEF increasing
<1>7. {t[i] : i \in 1..(n + 1)} = U \union {x}
  <2>1. ASSUME NEW i \in 1..(n + 1)
        PROVE  t[i] \in U \union {x}
    <3>1. i \in 1..n \/ i = n + 1
      BY <1>1
    <3> QED
      BY <1>1, <1>3, <3>1
  <2>2. ASSUME NEW y \in U \union {x}
        PROVE  \E i \in 1..(n + 1) : t[i] = y
    <3>1. CASE y = x
      <4>1. n + 1 \in 1..(n + 1)
        BY <1>1
      <4> QED
        BY <1>3, <3>1, <4>1
    <3>2. CASE y \in U
      <4>1. PICK i \in 1..n : r[i] = y
        BY <1>1, <3>2
      <4>2. i \in 1..(n + 1) /\ t[i] = y
        BY <1>1, <1>3, <4>1
      <4> QED
        BY <4>2
    <3> QED
      BY <3>1, <3>2
  <2> QED
    BY <2>1, <2>2
<1> QED
  BY <1>3, <1>4, <1>6, <1>7 DEF Lists, Range

\* Two listings of a set are the same.
LEMMA NoSooner ==
    ASSUME NEW r, NEW t, NEW U, Lists(r, U), Lists(t, U), NEW m, m = Len(r), NEW n, n = Len(t),
           NEW i \in 1..m, i \in 1..n, \A j \in 1..(i - 1) : r[j] = t[j], r[i] # t[i]
    PROVE  Less(t[i], r[i])
<1>1. /\ m \in Nat /\ \A k \in 1..m : r[k] \in Bytes /\ r[k] \in U
      /\ \A k, l \in 1..m : k < l => Less(r[k], r[l])
  BY ListIs
<1>2. /\ n \in Nat
      /\ \A x \in U : \E k \in 1..n : t[k] = x
      /\ \A k, l \in 1..n : k < l => Less(t[k], t[l])
  BY ListIs
<1>3. PICK k \in 1..n : t[k] = r[i]
  BY <1>1, <1>2
<1>4. CASE k < i
  <2>1. k \in 1..(i - 1) /\ k \in 1..m
    BY <1>1, <1>4
  <2>2. Less(r[k], r[i]) /\ r[k] = r[i]
    BY <1>1, <1>3, <1>4, <2>1
  <2> QED
    BY <1>1, <2>2, LessIrreflexive
<1>5. CASE k > i
  BY <1>2, <1>3, <1>5
<1>6. k < i \/ k > i \/ k = i
  BY <1>1, <1>2
<1> QED
  BY <1>3, <1>4, <1>5, <1>6

LEMMA ListOnce ==
    ASSUME NEW r, NEW t, NEW U, Lists(r, U), Lists(t, U), Len(r) = Len(t)
    PROVE  r = t
<1> PICK n : n = Len(r)
  OBVIOUS
<1>1. /\ n \in Nat /\ Len(t) = n /\ \A k \in 1..n : r[k] \in Bytes /\ t[k] \in Bytes
  BY ListIs
<1> DEFINE N == {i \in 1..n : r[i] # t[i]}
<1>2. CASE N = {}
  <2>1. r \in Seq(Bytes) /\ t \in Seq(Bytes)
    BY DEF Lists
  <2>2. \A i \in 1..n : r[i] = t[i]
    BY <1>2
  <2> QED
    BY <1>1, <2>1, <2>2, SeqEqual
<1>3. CASE N # {}
  <2>1. PICK i \in N : \A k \in N : i <= k
    <3>1. N \in SUBSET Nat
      BY <1>1
    <3> HIDE DEF N
    <3> QED
      BY <1>3, <3>1, LeastNatural
  <2>2. i \in 1..n /\ r[i] # t[i]
    BY <2>1
  <2>3. ASSUME NEW j \in 1..(i - 1)
        PROVE  r[j] = t[j]
    <3>1. j \in 1..n /\ ~(i <= j)
      BY <1>1, <2>2
    <3>2. j \notin N
      <4> HIDE DEF N
      <4> QED BY <2>1, <3>1
    <3> QED
      BY <3>1, <3>2
  <2>4. Less(t[i], r[i])
    BY <1>1, <2>2, <2>3, NoSooner
  <2>5. Less(r[i], t[i])
    BY <1>1, <2>2, <2>3, NoSooner
  <2>6. Less(r[i], r[i])
    BY <1>1, <2>2, <2>4, <2>5, LessTransitive
  <2> QED
    BY <1>1, <2>2, <2>6, LessIrreflexive
<1> QED
  BY <1>2, <1>3

LEMMA ListInjective ==
    ASSUME NEW r \in Seq(Bytes), increasing(r)
    PROVE  IsInjective(r)
<1> PICK n : n = Len(r)
  OBVIOUS
<1>1. n \in Nat /\ DOMAIN r = 1..n /\ \A i \in 1..n : r[i] \in Bytes
  OBVIOUS
<1>2. ASSUME NEW i \in 1..n, NEW j \in 1..n, r[i] = r[j], i < j
      PROVE  FALSE
  <2>1. Less(r[i], r[j])
    BY <1>1, <1>2 DEF increasing
  <2> QED
    BY <1>1, <1>2, <2>1, LessIrreflexive
<1>3. ASSUME NEW i \in 1..n, NEW j \in 1..n, r[i] = r[j]
      PROVE  i = j
  <2>1. i < j \/ j < i \/ i = j
    BY <1>1
  <2> QED
    BY <1>2, <1>3, <2>1
<1> QED
  BY <1>1, <1>3 DEF IsInjective

LEMMA IntervalCount ==
    ASSUME NEW n \in Nat
    PROVE  IsFiniteSet(1..n) /\ Cardinality(1..n) = n
<1>1. 1 \in Int /\ n \in Int
  OBVIOUS
<1>2. IsFiniteSet(1..n) /\ Cardinality(1..n) = IF 1 > n THEN 0 ELSE n - 1 + 1
  BY <1>1, FS_Interval
<1> QED
  BY <1>2

\* The length of a listing is the number of strings.
LEMMA ListLength ==
    ASSUME NEW r, NEW U, Lists(r, U)
    PROVE  IsFiniteSet(U) /\ Cardinality(U) = Len(r)
<1> PICK n : n = Len(r)
  OBVIOUS
<1>1. /\ n \in Nat /\ DOMAIN r = 1..n /\ \A i \in 1..n : r[i] \in U
      /\ \A x \in U : \E i \in 1..n : r[i] = x
  BY ListIs
<1>2. r \in Seq(Bytes) /\ increasing(r)
  BY DEF Lists
<1>3. r \in [1..n -> U]
  BY <1>1, <1>2
<1>4. r \in Injection(1..n, U)
  BY <1>2, <1>3, ListInjective DEF Injection
<1>5. r \in Surjection(1..n, U)
  BY <1>1, <1>3 DEF Surjection
<1>6. IsFiniteSet(1..n) /\ Cardinality(1..n) = n
  BY <1>1, IntervalCount
<1>7. IsFiniteSet(U) /\ (Cardinality(U) = Cardinality(1..n) <=> r \in Injection(1..n, U))
  BY <1>5, <1>6, FS_Surjection
<1> QED
  BY <1>4, <1>6, <1>7

\* sort_tags finds the listing there is.
LEMMA SortIs ==
    ASSUME NEW r, NEW U, Lists(r, U)
    PROVE  sort_tags(U) = r
<1> PICK n : n = Cardinality(U)
  OBVIOUS
<1>1. IsFiniteSet(U) /\ n = Len(r) /\ n \in Nat
  BY ListLength, FS_CardinalityType
<1>2. r \in Seq(Bytes) /\ increasing(r) /\ DOMAIN r = 1..n /\ (\A i \in 1..n : r[i] \in U) /\ U \subseteq Bytes
  BY <1>1, ListIs DEF Lists
<1>3. r \in [1..n -> U]
  BY <1>2
<1> PICK s : s = sort_tags(U)
  OBVIOUS
<1>4. s \in [1..n -> U] /\ increasing(s)
  <2>1. \E t \in [1..n -> U] : increasing(t)
    BY <1>2, <1>3
  <2> QED
    BY <2>1 DEF sort_tags
<1>5. s \in Seq(Bytes) /\ Len(s) = n
  BY <1>1, <1>2, <1>4
<1>6. IsFiniteSet(1..n) /\ Cardinality(1..n) = n
  BY <1>1, IntervalCount
<1>7. s \in Surjection(1..n, U)
  <2>1. s \in Injection(1..n, U)
    BY <1>4, <1>5, ListInjective DEF Injection
  <2>2. Cardinality(1..n) = Cardinality(U) <=> s \in Surjection(1..n, U)
    BY <1>1, <2>1, FS_Injection
  <2> QED
    BY <1>6, <2>2
<1>8. Range(s) = U
  <2>1. \A x \in U : \E i \in 1..n : s[i] = x
    BY <1>7 DEF Surjection
  <2> QED
    BY <1>4, <2>1 DEF Range
<1>9. Lists(s, U) /\ Len(s) = Len(r)
  BY <1>1, <1>4, <1>5, <1>8 DEF Lists
<1> QED
  BY <1>9, ListOnce

\* Every finite set of strings has a listing.
LEMMA ListExists ==
    ASSUME NEW U \in SUBSET Bytes, IsFiniteSet(U)
    PROVE  \E r : Lists(r, U)
<1> DEFINE Bad == {V \in SUBSET Bytes : IsFiniteSet(V) /\ ~\E r : Lists(r, V)}
           N == {Cardinality(V) : V \in Bad}
<1> SUFFICES ASSUME Bad # {} PROVE FALSE
  OBVIOUS
<1>1. N \in SUBSET Nat /\ N # {}
  BY FS_CardinalityType
<1>2. PICK n \in N : \A k \in N : n <= k
  <2> HIDE DEF N
  <2> QED BY <1>1, LeastNatural
<1>3. PICK V \in Bad : n = Cardinality(V)
  BY <1>2
<1>4. V \in SUBSET Bytes /\ IsFiniteSet(V) /\ ~\E r : Lists(r, V)
  BY <1>3
<1>5. V # {}
  <2> SUFFICES ASSUME V = {} PROVE FALSE
    OBVIOUS
  <2>1. Lists(<<>>, {})
    BY DEF Lists, increasing, Range
  <2> QED
    BY <1>4, <2>1
<1>6. PICK x : LastIn(x, V)
  BY <1>4, <1>5, LastString
<1>7. x \in V /\ x \in Bytes /\ \A y \in V : y # x => Less(y, x)
  BY <1>4, <1>6 DEF LastIn
<1> DEFINE W == V \ {x}
<1>8. W \in SUBSET Bytes /\ IsFiniteSet(W) /\ Cardinality(W) = n - 1 /\ n \in Nat
  <2>1. IsFiniteSet(V \ {x}) /\ Cardinality(V \ {x}) = Cardinality(V) - 1
    BY <1>4, <1>7, FS_RemoveElement
  <2>2. Cardinality(V) \in Nat
    BY <1>4, FS_CardinalityType
  <2> QED
    BY <1>3, <1>4, <2>1, <2>2
<1>9. PICK r : Lists(r, W)
  <2> SUFFICES ASSUME ~\E r : Lists(r, W) PROVE FALSE
    OBVIOUS
  <2>1. W \in Bad
    BY <1>8
  <2>2. Cardinality(W) \in N
    BY <2>1
  <2> HIDE DEF N, W
  <2> QED
    BY <1>2, <1>8, <2>2
<1>10. \A y \in W : Less(y, x)
  BY <1>7
<1>11. Lists(Append(r, x), W \union {x})
  <2> HIDE DEF W
  <2> QED BY <1>7, <1>9, <1>10, ListAppend
<1>12. W \union {x} = V
  BY <1>7
<1> QED
  BY <1>4, <1>11, <1>12

(***************************************************************************)
(* The masks of generate_superset_presorted.                               *)
(***************************************************************************)
Masking(s, mask, f) ==
    f = [i \in 0..Len(s) |->
            CASE i = 0       -> <<>>
              [] i \in mask  -> Append(f[i - 1], s[i])
              [] OTHER       -> f[i - 1]]

MaskSteps(n, s, mask, f) ==
    /\ f[0] = <<>>
    /\ \A i \in 1..n : f[i] = IF i \in mask THEN Append(f[i - 1], s[i]) ELSE f[i - 1]

LEMMA MaskingSteps ==
    ASSUME NEW s \in Seq(Bytes), NEW mask \in SUBSET (1..Len(s)), NEW f
    PROVE  Masking(s, mask, f) => MaskSteps(Len(s), s, mask, f)
<1> SUFFICES ASSUME Masking(s, mask, f) PROVE MaskSteps(Len(s), s, mask, f)
  OBVIOUS
<1> PICK n \in Nat : n = Len(s)
  OBVIOUS
<1>1. \A i \in 0..n : f[i] = CASE i = 0       -> <<>>
                               [] i \in mask  -> Append(f[i - 1], s[i])
                               [] OTHER       -> f[i - 1]
  BY DEF Masking
<1>2. 0 \in 0..n /\ 0 \notin mask
  OBVIOUS
<1>3. f[0] = <<>>
  BY <1>1, <1>2
<1>4. ASSUME NEW i \in 1..n
      PROVE  f[i] = IF i \in mask THEN Append(f[i - 1], s[i]) ELSE f[i - 1]
  <2>1. i \in 0..n /\ i # 0
    OBVIOUS
  <2> QED
    BY <1>1, <2>1
<1> QED
  BY <1>3, <1>4 DEF MaskSteps

LEMMA MaskingExists ==
    ASSUME NEW s \in Seq(Bytes), NEW mask \in SUBSET (1..Len(s))
    PROVE  \E f : Masking(s, mask, f)
<1> PICK n \in Nat : n = Len(s)
  OBVIOUS
<1> DEFINE N == {m \in 0..n : ~\E f : MaskSteps(m, s, mask, f)}
<1>1. 0 \notin N
  <2>1. MaskSteps(0, s, mask, [i \in 0..0 |-> <<>>])
    BY DEF MaskSteps
  <2> QED
    BY <2>1
<1>2. N = {}
  <2> SUFFICES ASSUME N # {} PROVE FALSE
    OBVIOUS
  <2>1. PICK m \in N : \A k \in N : m <= k
    <3>1. N \in SUBSET Nat
      OBVIOUS
    <3> HIDE DEF N
    <3> QED
      BY <3>1, LeastNatural
  <2>2. m \in 0..n /\ m # 0
    BY <1>1, <2>1
  <2> PICK l \in Nat : l = m - 1
    BY <2>2
  <2>3. l \in 0..n /\ m = l + 1 /\ ~(m <= l)
    BY <2>2
  <2>4. l \notin N
    <3> HIDE DEF N
    <3> QED BY <2>1, <2>3
  <2>5. PICK f : MaskSteps(l, s, mask, f)
    BY <2>3, <2>4
  <2> DEFINE g == [i \in 0..m |-> IF i = m THEN IF m \in mask THEN Append(f[l], s[m]) ELSE f[l] ELSE f[i]]
  <2>6. g[0] = <<>>
    BY <2>2, <2>5 DEF MaskSteps
  <2>7. ASSUME NEW i \in 1..m
        PROVE  g[i] = IF i \in mask THEN Append(g[i - 1], s[i]) ELSE g[i - 1]
    <3>1. CASE i = m
      <4>1. i \in 0..m /\ i - 1 \in 0..m /\ i - 1 = l /\ i - 1 # m
        BY <2>3, <3>1
      <4>2. g[i - 1] = f[l] /\ g[i] = IF m \in mask THEN Append(f[l], s[m]) ELSE f[l]
        BY <3>1, <4>1
      <4> HIDE DEF g
      <4> QED
        BY <3>1, <4>2
    <3>2. CASE i # m
      <4>1. i \in 0..m /\ i - 1 \in 0..m /\ i - 1 # m /\ i \in 1..l
        BY <2>3, <3>2
      <4>2. g[i - 1] = f[i - 1] /\ g[i] = f[i]
        BY <3>2, <4>1
      <4>3. f[i] = IF i \in mask THEN Append(f[i - 1], s[i]) ELSE f[i - 1]
        BY <2>5, <4>1 DEF MaskSteps
      <4> HIDE DEF g
      <4> QED
        BY <4>2, <4>3
    <3> QED
      BY <3>1, <3>2
  <2> HIDE DEF g
  <2>8. MaskSteps(m, s, mask, g)
    BY <2>6, <2>7 DEF MaskSteps
  <2> QED
    BY <2>1, <2>8
<1>3. PICK f : MaskSteps(n, s, mask, f)
  <2>1. n \in 0..n /\ n \notin N
    BY <1>2
  <2> QED
    BY <2>1
<1> DEFINE h == [i \in 0..n |-> f[i]]
<1>4. ASSUME NEW i \in 0..n
      PROVE  h[i] = CASE i = 0       -> <<>>
                      [] i \in mask  -> Append(h[i - 1], s[i])
                      [] OTHER       -> h[i - 1]
  <2>1. CASE i = 0
    <3>1. i \notin mask /\ f[0] = <<>> /\ h[i] = f[i]
      BY <1>3, <2>1 DEF MaskSteps
    <3> HIDE DEF h
    <3> QED
      BY <2>1, <3>1
  <2>2. CASE i # 0
    <3>1. i \in 1..n /\ i - 1 \in 0..n
      BY <2>2
    <3>2. f[i] = IF i \in mask THEN Append(f[i - 1], s[i]) ELSE f[i - 1]
      BY <1>3, <3>1 DEF MaskSteps
    <3>3. h[i] = f[i] /\ h[i - 1] = f[i - 1]
      BY <3>1
    <3> HIDE DEF h
    <3> QED
      BY <2>2, <3>2, <3>3
  <2> QED
    BY <2>1, <2>2
<1>5. h = [i \in 0..n |-> h[i]]
  OBVIOUS
<1> HIDE DEF h
<1>6. Masking(s, mask, h)
  BY <1>4, <1>5 DEF Masking
<1> QED
  BY <1>6

\* The strings of a list whose index is in a mask.
Chosen(s, mask) == {s[i] : i \in mask}

\* A mask picks its strings, in order.
LEMMA MaskedLists ==
    ASSUME NEW s \in Seq(Bytes), increasing(s), NEW mask \in SUBSET (1..Len(s))
    PROVE  Lists(masked(s, mask), Chosen(s, mask))
<1> PICK n \in Nat : n = Len(s)
  OBVIOUS
<1>1. PICK f : Masking(s, mask, f) /\ masked(s, mask) = f[n]
  <2> DEFINE f == CHOOSE f : f = [i \in 0..Len(s) |->
                        CASE i = 0       -> <<>>
                          [] i \in mask  -> Append(f[i - 1], s[i])
                          [] OTHER       -> f[i - 1]]
  <2>1. Masking(s, mask, f)
    BY MaskingExists DEF Masking
  <2>2. masked(s, mask) = f[n]
    BY DEF masked
  <2> HIDE DEF f
  <2> QED
    BY <2>1, <2>2
<1>2. f[0] = <<>> /\ \A i \in 1..n : f[i] = IF i \in mask THEN Append(f[i - 1], s[i]) ELSE f[i - 1]
  <2>1. MaskSteps(n, s, mask, f)
    BY <1>1, MaskingSteps
  <2> QED
    BY <2>1 DEF MaskSteps
<1> DEFINE Part(i) == {s[j] : j \in mask \intersect 1..i}
           N == {i \in 0..n : ~Lists(f[i], Part(i))}
<1>3. N = {}
  <2> SUFFICES ASSUME N # {} PROVE FALSE
    OBVIOUS
  <2>1. PICK m \in N : \A k \in N : m <= k
    <3>1. N \in SUBSET Nat
      OBVIOUS
    <3> HIDE DEF N
    <3> QED
      BY <3>1, LeastNatural
  <2>2. m \in 0..n /\ ~Lists(f[m], Part(m))
    BY <2>1
  <2>3. m # 0
    <3> SUFFICES ASSUME m = 0 PROVE FALSE
      OBVIOUS
    <3>1. Part(0) = {}
      OBVIOUS
    <3>2. Lists(<<>>, {})
      BY DEF Lists, increasing, Range
    <3> HIDE DEF Part
    <3> QED
      BY <1>2, <2>2, <3>1, <3>2
  <2> PICK l \in Nat : l = m - 1
    BY <2>2, <2>3
  <2>4. l \in 0..n /\ m = l + 1 /\ ~(m <= l) /\ m \in 1..n /\ m - 1 = l
    BY <2>2, <2>3
  <2>5. Lists(f[l], Part(l))
    <3>1. l \notin N
      <4> HIDE DEF N
      <4> QED BY <2>1, <2>4
    <3> QED
      BY <2>4, <3>1
  <2>6. CASE m \notin mask
    <3>1. f[m] = f[l]
      BY <1>2, <2>4, <2>6
    <3>2. mask \intersect 1..m = mask \intersect 1..l
      BY <2>4, <2>6
    <3> QED
      BY <2>2, <2>5, <3>1, <3>2
  <2>7. CASE m \in mask
    <3>1. f[m] = Append(f[l], s[m])
      BY <1>2, <2>4, <2>7
    <3>2. Part(m) = Part(l) \union {s[m]}
      <4>1. mask \intersect 1..m = (mask \intersect 1..l) \union {m}
        BY <2>4, <2>7
      <4> QED
        BY <4>1
    <3>3. s[m] \in Bytes
      BY <2>4
    <3>4. ASSUME NEW y \in Part(l)
          PROVE  Less(y, s[m])
      <4>1. PICK j \in 1..l : y = s[j]
        BY <3>4
      <4>2. j < m /\ j \in DOMAIN s /\ m \in DOMAIN s
        BY <2>4
      <4> QED
        BY <4>1, <4>2 DEF increasing
    <3> HIDE DEF Part
    <3>5. Lists(Append(f[l], s[m]), Part(l) \union {s[m]})
      BY <2>5, <3>3, <3>4, ListAppend
    <3> QED
      BY <2>2, <3>1, <3>2, <3>5
  <2> QED
    BY <2>6, <2>7
<1>4. Part(n) = Chosen(s, mask)
  <2>1. mask \intersect 1..n = mask
    OBVIOUS
  <2> QED
    BY <2>1 DEF Chosen
<1>5. Lists(f[n], Part(n))
  <2>1. n \in 0..n /\ n \notin N
    <3> HIDE DEF N
    <3> QED
      BY <1>3
  <2> QED
    BY <2>1
<1> HIDE DEF Part
<1> QED
  BY <1>1, <1>4, <1>5

\* The subsets of a set of tags, each sorted: what append writes an index key for,
\* whatever the number of tags (append.rs: append_single).
THEOREM SubsetsSorted ==
    ASSUME NEW U \in SUBSET Bytes, IsFiniteSet(U)
    PROVE  generate_superset_presorted(sort_tags(U)) = {sort_tags(T) : T \in SUBSET U}
<1>1. PICK r : Lists(r, U)
  BY ListExists
<1>2. sort_tags(U) = r
  BY <1>1, SortIs
<1> PICK n : n = Len(r)
  OBVIOUS
<1>3. /\ n \in Nat /\ DOMAIN r = 1..n /\ \A i \in 1..n : r[i] \in U
      /\ \A x \in U : \E i \in 1..n : r[i] = x
  BY <1>1, ListIs
<1>4. r \in Seq(Bytes) /\ increasing(r)
  BY <1>1 DEF Lists
<1>5. ASSUME NEW mask \in SUBSET DOMAIN r
      PROVE  masked(r, mask) = sort_tags(Chosen(r, mask)) /\ Chosen(r, mask) \in SUBSET U
  <2>1. mask \in SUBSET (1..Len(r))
    BY <1>3
  <2>2. Lists(masked(r, mask), Chosen(r, mask))
    BY <1>4, <2>1, MaskedLists
  <2>3. masked(r, mask) = sort_tags(Chosen(r, mask))
    BY <2>2, SortIs
  <2>4. Chosen(r, mask) \in SUBSET U
    BY <1>3 DEF Chosen
  <2> QED
    BY <2>3, <2>4
<1>6. ASSUME NEW T \in SUBSET U
      PROVE  \E mask \in SUBSET DOMAIN r : Chosen(r, mask) = T
  <2> DEFINE mask == {i \in 1..n : r[i] \in T}
  <2>1. Chosen(r, mask) = T
    BY <1>3 DEF Chosen
  <2> QED
    BY <1>3, <2>1
<1>7. generate_superset_presorted(r) = {masked(r, mask) : mask \in SUBSET DOMAIN r}
  BY DEF generate_superset_presorted
<1>8. {masked(r, mask) : mask \in SUBSET DOMAIN r} = {sort_tags(T) : T \in SUBSET U}
  <2>1. ASSUME NEW mask \in SUBSET DOMAIN r
        PROVE  \E T \in SUBSET U : masked(r, mask) = sort_tags(T)
    BY <1>5
  <2>2. ASSUME NEW T \in SUBSET U
        PROVE  \E mask \in SUBSET DOMAIN r : sort_tags(T) = masked(r, mask)
    BY <1>5, <1>6
  <2> QED
    BY <2>1, <2>2
<1> QED
  BY <1>2, <1>7, <1>8

\* The elements of an event's value.
ValueElems(e) == <<Str(e.type), Open>> \o TagList(e.tags) \o <<Close, Blob(e.data)>>

GivenEvent == [type : Bytes, tags : Seq(Bytes), data : Bytes]

ValueShape(e, n, q) ==
    /\ n \in Nat /\ q \in Seq(Packable) /\ Len(q) = n + 4
    /\ q[1] = Str(e.type) /\ q[2] = Open
    /\ \A i \in 1..n : q[i + 2] = Str(e.tags[i])
    /\ q[n + 3] = Close /\ q[n + 4] = Blob(e.data)

LEMMA BracketsPackable ==
    /\ Open \in Packable /\ Close \in Packable /\ \A s \in Bytes : Blob(s) \in Packable
    /\ Open.code = 5 /\ Close.code = 0 /\ \A s : Blob(s).code = 1 /\ Blob(s).bytes = s
<1>1. <<>> \in Bytes
  BY DEF Bytes
<1> QED
  BY <1>1, ByteValues DEF Open, Close, Blob, Packable, Element

LEMMA ValueElemsIs ==
    ASSUME NEW e \in GivenEvent
    PROVE  ValueShape(e, Len(e.tags), ValueElems(e))
<1> PICK n : n = Len(e.tags)
  OBVIOUS
<1> PICK head : head = <<Str(e.type), Open>>
  OBVIOUS
<1> PICK tags : tags = TagList(e.tags)
  OBVIOUS
<1> PICK end : end = <<Close, Blob(e.data)>>
  OBVIOUS
<1> PICK q : q = ValueElems(e)
  OBVIOUS
<1>1. e.type \in Bytes /\ e.tags \in Seq(Bytes) /\ e.data \in Bytes
  BY DEF GivenEvent
<1>2. /\ head \in Seq(Packable) /\ Len(head) = 2 /\ head[1] = Str(e.type) /\ head[2] = Open
      /\ end \in Seq(Packable) /\ Len(end) = 2 /\ end[1] = Close /\ end[2] = Blob(e.data)
  <2>1. Str(e.type) \in Packable /\ Open \in Packable /\ Close \in Packable /\ Blob(e.data) \in Packable
    BY <1>1, PackableIs, BracketsPackable
  <2> QED
    BY <2>1
<1>3. tags \in Seq(Packable) /\ Len(tags) = n /\ n \in Nat /\ \A i \in 1..n : tags[i] = Str(e.tags[i])
  BY <1>1, TagListIs
<1>4. q = (head \o tags) \o end
  BY DEF ValueElems
<1> PICK both : both = head \o tags
  OBVIOUS
<1>5. /\ both \in Seq(Packable) /\ Len(both) = n + 2
      /\ \A i \in 1..2 : both[i] = head[i]
      /\ \A i \in 1..n : both[2 + i] = tags[i]
  BY <1>2, <1>3, Joins
<1>6. /\ q \in Seq(Packable) /\ Len(q) = (n + 2) + 2
      /\ \A i \in 1..(n + 2) : q[i] = both[i]
      /\ \A i \in 1..2 : q[(n + 2) + i] = end[i]
  <2>1. /\ both \o end \in Seq(Packable) /\ Len(both \o end) = Len(both) + Len(end)
        /\ \A i \in 1..Len(both) : (both \o end)[i] = both[i]
        /\ \A i \in 1..Len(end) : (both \o end)[Len(both) + i] = end[i]
    BY <1>2, <1>5, Joins
  <2>2. q = both \o end /\ Len(both) = n + 2 /\ Len(end) = 2
    BY <1>2, <1>3, <1>4, <1>5
  <2> QED
    BY <2>1, <2>2
<1>7. q[1] = Str(e.type) /\ q[2] = Open
  <2>1. 1 \in 1..2 /\ 2 \in 1..2 /\ 1 \in 1..(n + 2) /\ 2 \in 1..(n + 2)
    BY <1>3
  <2> QED
    BY <1>2, <1>5, <1>6, <2>1
<1>8. ASSUME NEW i \in 1..n
      PROVE  q[i + 2] = Str(e.tags[i])
  <2>1. i + 2 \in 1..(n + 2) /\ i + 2 = 2 + i
    BY <1>3
  <2> QED
    BY <1>3, <1>5, <1>6, <2>1
<1>9. q[n + 3] = Close /\ q[n + 4] = Blob(e.data) /\ Len(q) = n + 4
  <2>1. n + 3 = (n + 2) + 1 /\ n + 4 = (n + 2) + 2 /\ 1 \in 1..2 /\ 2 \in 1..2
    BY <1>3
  <2> QED
    BY <1>2, <1>6, <2>1
<1> QED
  BY <1>3, <1>6, <1>7, <1>8, <1>9 DEF ValueShape

LEMMA TagsOfValue ==
    ASSUME NEW e \in GivenEvent, NEW n, NEW q, n = Len(e.tags), ValueShape(e, n, q)
    PROVE  /\ SubSeq(q, 3, Len(q) - 2) \in Seq(Packable) /\ Len(SubSeq(q, 3, Len(q) - 2)) = n
           /\ \A i \in 1..n : SubSeq(q, 3, Len(q) - 2)[i] = Str(e.tags[i])
<1>1. n \in Nat /\ q \in Seq(Packable) /\ Len(q) = n + 4
  BY DEF ValueShape
<1> PICK m : m = n + 2
  OBVIOUS
<1> PICK three : three = 3
  OBVIOUS
<1>2. m = Len(q) - 2 /\ m \in Int /\ three \in Int /\ three = 3
  BY <1>1
<1>3. \A i \in three..m : q[i] \in Packable
  <2>1. \A i \in three..m : i \in 1..Len(q)
    BY <1>1, <1>2
  <2> QED
    BY <1>1, <2>1
<1>4. /\ SubSeq(q, three, m) \in Seq(Packable)
      /\ Len(SubSeq(q, three, m)) = IF three <= m THEN m - three + 1 ELSE 0
      /\ \A i \in 1..(m - three + 1) : SubSeq(q, three, m)[i] = q[three + i - 1]
  BY <1>2, <1>3, SubSeqProperties
<1>5. m - three + 1 = n /\ ~(three <= m) => n = 0
  BY <1>1, <1>2
<1>6. Len(SubSeq(q, three, m)) = n
  BY <1>1, <1>4, <1>5
<1>7. ASSUME NEW i \in 1..n
      PROVE  SubSeq(q, three, m)[i] = Str(e.tags[i])
  <2>1. three + i - 1 = i + 2
    BY <1>1, <1>2
  <2>2. q[i + 2] = Str(e.tags[i])
    BY DEF ValueShape
  <2> QED
    BY <1>4, <1>5, <2>1, <2>2
<1> QED
  BY <1>2, <1>4, <1>6, <1>7

AllStrings(tags) == \A i \in DOMAIN tags : tags[i].code = 2
BytesOfAll(tags) == [i \in DOMAIN tags |-> tags[i].bytes]

LEMMA TagsReadBack ==
    ASSUME NEW tags \in Seq(Packable), NEW given \in Seq(Bytes), Len(tags) = Len(given),
           \A i \in 1..Len(given) : tags[i] = Str(given[i])
    PROVE  AllStrings(tags) /\ BytesOfAll(tags) = given
<1> PICK n : n = Len(given)
  OBVIOUS
<1>1. DOMAIN tags = 1..n /\ DOMAIN given = 1..n /\ n \in Nat
  OBVIOUS
<1>2. ASSUME NEW i \in 1..n
      PROVE  tags[i].code = 2 /\ tags[i].bytes = given[i]
  BY PackableIs
<1>3. given = [i \in 1..n |-> given[i]]
  BY <1>1
<1> QED
  BY <1>1, <1>2, <1>3 DEF AllStrings, BytesOfAll

\* The value of an event is read back: its type, its tags as they were given, with
\* order and duplicates, and its data, whatever bytes they contain (encoding.rs:
\* encode_event_value, decode_event_value).
THEOREM ValueRoundTrip ==
    ASSUME NEW e \in GivenEvent
    PROVE  decode_event_value(encode_event_value(e)) = e
<1> PICK q : q = ValueElems(e)
  OBVIOUS
<1> PICK n : n = Len(e.tags)
  OBVIOUS
<1> PICK tags : tags = SubSeq(q, 3, Len(q) - 2)
  OBVIOUS
<1> PICK m : m = n + 4
  OBVIOUS
<1>1. ValueShape(e, n, q)
  BY ValueElemsIs
<1>2. /\ n \in Nat /\ q \in Seq(Packable) /\ Len(q) = m /\ q[1] = Str(e.type) /\ q[2] = Open
      /\ q[m - 1] = Close /\ q[m] = Blob(e.data)
  <2>1. n \in Nat /\ m - 1 = n + 3
    BY <1>1 DEF ValueShape
  <2> QED
    BY <1>1, <2>1 DEF ValueShape
<1>3. unpack(encode_event_value(e)) = q
  <2>1. encode_event_value(e) = pack(q)
    BY DEF encode_event_value, ValueElems, TagList
  <2> QED
    BY <1>2, <2>1, UnpackPack
<1>4. AllStrings(tags) /\ BytesOfAll(tags) = e.tags
  <2>1. tags \in Seq(Packable) /\ Len(tags) = n /\ \A i \in 1..n : tags[i] = Str(e.tags[i])
    BY <1>1, TagsOfValue
  <2> PICK given : given = e.tags
    OBVIOUS
  <2>2. given \in Seq(Bytes) /\ Len(given) = n /\ \A i \in 1..n : tags[i] = Str(given[i])
    BY <2>1 DEF GivenEvent
  <2>3. AllStrings(tags) /\ BytesOfAll(tags) = given
    BY <2>1, <2>2, TagsReadBack
  <2> QED
    BY <2>3
<1>5. /\ q[1].code = 2 /\ q[1].bytes = e.type /\ q[2].code = 5
      /\ q[m - 1].code = 0 /\ q[m].code = 1 /\ q[m].bytes = e.data
  BY <1>2, PackableIs, BracketsPackable
<1>6. m >= 4
  BY <1>2
<1>7. decode_event_value(encode_event_value(e))
          = [type |-> q[1].bytes, tags |-> BytesOfAll(tags), data |-> q[m].bytes]
  <2>1. <<q[1].code, q[2].code, q[m - 1].code, q[m].code>> = <<2, 5, 0, 1>>
    BY <1>5
  <2> QED
    BY <1>2, <1>3, <1>4, <1>6, <2>1 DEF decode_event_value, AllStrings, BytesOfAll
<1>8. e = [type |-> e.type, tags |-> e.tags, data |-> e.data]
  BY DEF GivenEvent
<1> QED
  BY <1>4, <1>5, <1>7, <1>8

\* What is written is bytes.
LEMMA ValuesAreBytes ==
    /\ \A e \in GivenEvent : encode_event_value(e) \in Bytes
    /\ \A p \in Position : vs_bytes(p) \in Bytes /\ Len(vs_bytes(p)) = VsLen
    /\ <<>> \in Bytes
<1>1. ASSUME NEW e \in GivenEvent
      PROVE  encode_event_value(e) \in Bytes
  <2> PICK q : q = ValueElems(e)
    OBVIOUS
  <2>1. q \in Seq(Packable)
    BY ValueElemsIs DEF ValueShape
  <2>2. encode_event_value(e) = pack(q)
    BY DEF encode_event_value, ValueElems, TagList
  <2> QED
    BY <2>1, <2>2, PackableElements, PackedBytes
<1>2. \A p \in Position : vs_bytes(p) \in Bytes /\ Len(vs_bytes(p)) = VsLen
  BY StampIs DEF Bytes, VsLen
<1>3. <<>> \in Bytes
  BY DEF Bytes
<1> QED
  BY <1>1, <1>2, <1>3

(***************************************************************************)
(* The keys the operations write, told apart by what they are of.          *)
(***************************************************************************)
LEMMA ConstantsAre ==
    /\ Namespaces \subseteq Bytes /\ Names \subseteq Bytes /\ Types \subseteq Bytes
    /\ Tags \subseteq Bytes /\ Inputs \subseteq GivenEvent /\ Positions \subseteq Position
<1>1. Namespaces \union Names \union Types \union Tags \subseteq Bytes
  BY StringsAssumption DEF Bytes
<1>2. Inputs \subseteq [type : Types, tags : Seq(Bytes), data : Bytes]
  BY StringsAssumption DEF Bytes
<1>3. Positions \subseteq Position
  BY StringsAssumption
<1>4. Types \subseteq Bytes
  BY <1>1
<1>5. [type : Types, tags : Seq(Bytes), data : Bytes] \subseteq GivenEvent
  BY <1>4 DEF GivenEvent
<1> QED
  BY <1>1, <1>2, <1>3, <1>5

\* The tags of an event are a finite set of strings, and so is each subset.
LEMMA GivenTags ==
    ASSUME NEW tags \in Seq(Bytes)
    PROVE  Range(tags) \in SUBSET Bytes /\ IsFiniteSet(Range(tags))
<1> PICK n : n = Len(tags)
  OBVIOUS
<1>1. n \in Nat /\ DOMAIN tags = 1..n
  OBVIOUS
<1>2. tags = [i \in 1..n |-> tags[i]]
  BY <1>1
<1>3. tags \in Surjection(1..n, Range(tags))
  BY <1>1, <1>2 DEF Surjection, Range
<1>4. IsFiniteSet(1..n)
  BY <1>1, IntervalCount
<1>5. IsFiniteSet(Range(tags))
  BY <1>3, <1>4, FS_Surjection
<1>6. Range(tags) \in SUBSET Bytes
  BY <1>1 DEF Range
<1> QED
  BY <1>5, <1>6

LEMMA SortedIs ==
    ASSUME NEW U \in SUBSET Bytes, IsFiniteSet(U)
    PROVE  Lists(sort_tags(U), U) /\ sort_tags(U) \in Seq(Bytes)
<1>1. PICK r : Lists(r, U)
  BY ListExists
<1>2. sort_tags(U) = r
  BY <1>1, SortIs
<1> QED
  BY <1>1, <1>2 DEF Lists

\* The key of an event under a subset of its tags.
IndexKeyAt(ns, e, T, p) == pack_tag_index_key(ns, sort_tags(T), e.type, p)

LEMMA IndexKeysAre ==
    ASSUME NEW ns, NEW e \in GivenEvent, NEW p
    PROVE  \A k : k \in index_keys(ns, e, p)
                     <=> \E T \in SUBSET Range(e.tags) : k = IndexKeyAt(ns, e, T, p)
<1> PICK U : U = Range(e.tags)
  OBVIOUS
<1>1. U \in SUBSET Bytes /\ IsFiniteSet(U)
  BY GivenTags DEF GivenEvent
<1>2. generate_superset_presorted(sort_tags(U)) = {sort_tags(T) : T \in SUBSET U}
  BY <1>1, SubsetsSorted
<1> QED
  BY <1>2 DEF index_keys, IndexKeyAt

KeyOf(k, ns, sub) == k \in Bytes /\ KeyNs(k) = ns /\ KeySub(k) = sub

\* What tells a key from the others: its namespace, its subspace and what it is
\* the key of.
LEMMA EventKeyOf ==
    ASSUME NEW ns \in Namespaces, NEW p \in Positions
    PROVE  KeyOf(pack_event_key(ns, p), ns, EVENTS_SUB) /\ extract_vs(pack_event_key(ns, p)) = p
<1>1. ns \in Bytes /\ p \in Position
  BY ConstantsAre
<1>2. IsKey(pack_event_key(ns, p), EventElems(ns, p), ns, EVENTS_SUB) /\ extract_vs(pack_event_key(ns, p)) = p
  BY <1>1, EventKeyIs
<1> QED
  BY <1>2 DEF IsKey, KeyOf

LEMMA SentinelKeyOf ==
    ASSUME NEW ns \in Namespaces
    PROVE  KeyOf(pack_sentinel_key(ns), ns, SENTINEL_SUB)
<1>1. ns \in Bytes
  BY ConstantsAre
<1>2. IsKey(pack_sentinel_key(ns), SentinelElems(ns), ns, SENTINEL_SUB)
  BY <1>1, SentinelKeyIs
<1> QED
  BY <1>2 DEF IsKey, KeyOf

LEMMA CursorKeyOf ==
    ASSUME NEW ns \in Namespaces, NEW name \in Names
    PROVE  KeyOf(pack_cursor_key(ns, name), ns, SUBS_SUB) /\ KeyName(pack_cursor_key(ns, name)) = name
<1>1. ns \in Bytes /\ name \in Bytes
  BY ConstantsAre
<1>2. /\ IsKey(pack_cursor_key(ns, name), CursorElems(ns, name), ns, SUBS_SUB)
      /\ KeyName(pack_cursor_key(ns, name)) = name
  BY <1>1, CursorKeyIs
<1> QED
  BY <1>2 DEF IsKey, KeyOf

LEMMA IndexKeysOf ==
    ASSUME NEW ns \in Namespaces, NEW e \in Inputs, NEW p \in Positions, NEW k \in index_keys(ns, e, p)
    PROVE  KeyOf(k, ns, INDEXES_SUB) /\ extract_vs(k) = p
<1>1. ns \in Bytes /\ e \in GivenEvent /\ p \in Position /\ e.tags \in Seq(Bytes) /\ e.type \in Bytes
  BY ConstantsAre DEF GivenEvent
<1>2. PICK T \in SUBSET Range(e.tags) : k = IndexKeyAt(ns, e, T, p)
  <2>1. \A l : l \in index_keys(ns, e, p) <=> \E T \in SUBSET Range(e.tags) : l = IndexKeyAt(ns, e, T, p)
    BY <1>1, IndexKeysAre
  <2> QED
    BY <2>1
<1>3. T \in SUBSET Bytes /\ IsFiniteSet(T)
  BY <1>1, GivenTags, FS_Subset
<1> PICK s : s = sort_tags(T)
  OBVIOUS
<1>4. s \in Seq(Bytes)
  BY <1>3, SortedIs
<1>5. k = pack_tag_index_key(ns, s, e.type, p)
  BY <1>2 DEF IndexKeyAt
<1>6. IsKey(k, IndexElems(ns, s, e.type, p), ns, INDEXES_SUB) /\ extract_vs(k) = p
  BY <1>1, <1>4, <1>5, IndexKeyIs
<1> QED
  BY <1>6 DEF IsKey, KeyOf

LEMMA KeyOnce ==
    ASSUME NEW k, NEW l, NEW m, NEW n, NEW s, NEW t, KeyOf(k, m, s), KeyOf(l, n, t), k = l
    PROVE  m = n /\ s = t
BY DEF KeyOf

(***************************************************************************)
(* The inductive invariant.                                                *)
(***************************************************************************)
LEMMA Written ==
    ASSUME NEW D, NEW K, NEW L, NEW I, K # L, K \notin I, L \notin I, NEW a, NEW b, NEW c, NEW d, NEW w,
           w = [k \in D \union {K, L} \union I |->
                   CASE k = K -> a [] k = L -> b [] k \in I -> c [] OTHER -> d[k]]
    PROVE  /\ DOMAIN w = D \union {K, L} \union I
           /\ w[K] = a /\ w[L] = b /\ \A k \in I : w[k] = c
           /\ \A k \in D : k # K /\ k # L /\ k \notin I => w[k] = d[k]
<1>1. DOMAIN w = D \union {K, L} \union I
  OBVIOUS
<1>2. w[K] = a
  OBVIOUS
<1>3. w[L] = b
  OBVIOUS
<1>4. ASSUME NEW k \in I
      PROVE  w[k] = c
  <2>1. k # K /\ k # L
    OBVIOUS
  <2> QED
    BY <2>1
<1>5. ASSUME NEW k \in D, k # K, k # L, k \notin I
      PROVE  w[k] = d[k]
  BY <1>5
<1> QED
  BY <1>1, <1>2, <1>3, <1>4, <1>5

LEMMA OriginIs ==
    /\ Origin.ver = 0 /\ Origin.idx = 0 /\ Origin \in Position
<1>1. 0 \in Word
  BY DEF Word
<1> QED
  BY <1>1 DEF Origin, Position

\* Keys of two subspaces are not the same, whatever the namespaces.
LEMMA KeysApart ==
    ASSUME NEW ns \in Namespaces, NEW m \in Namespaces
    PROVE  /\ \A p \in Positions : /\ pack_event_key(ns, p) # pack_sentinel_key(m)
                                   /\ \A name \in Names : pack_event_key(ns, p) # pack_cursor_key(m, name)
           /\ \A name \in Names : pack_sentinel_key(ns) # pack_cursor_key(m, name)
           /\ \A e \in Inputs, q \in Positions : \A k \in index_keys(m, e, q) :
                 /\ \A p \in Positions : k # pack_event_key(ns, p)
                 /\ k # pack_sentinel_key(ns)
                 /\ \A name \in Names : k # pack_cursor_key(ns, name)
<1>1. \A p \in Positions : KeyOf(pack_event_key(ns, p), ns, EVENTS_SUB)
  BY EventKeyOf
<1>2. KeyOf(pack_sentinel_key(ns), ns, SENTINEL_SUB) /\ KeyOf(pack_sentinel_key(m), m, SENTINEL_SUB)
  BY SentinelKeyOf
<1>3. \A name \in Names : /\ KeyOf(pack_cursor_key(ns, name), ns, SUBS_SUB)
                          /\ KeyOf(pack_cursor_key(m, name), m, SUBS_SUB)
  BY CursorKeyOf
<1>4. \A e \in Inputs, q \in Positions : \A k \in index_keys(m, e, q) : KeyOf(k, m, INDEXES_SUB)
  BY IndexKeysOf
<1> HIDE DEF EVENTS_SUB, INDEXES_SUB, SENTINEL_SUB, SUBS_SUB
<1>5. \A p \in Positions : /\ pack_event_key(ns, p) # pack_sentinel_key(m)
                           /\ \A name \in Names : pack_event_key(ns, p) # pack_cursor_key(m, name)
  BY <1>1, <1>2, <1>3, SubspacesApart DEF KeyOf
<1>6. \A name \in Names : pack_sentinel_key(ns) # pack_cursor_key(m, name)
  BY <1>2, <1>3, SubspacesApart DEF KeyOf
<1>7. ASSUME NEW e \in Inputs, NEW q \in Positions, NEW k \in index_keys(m, e, q)
      PROVE  /\ \A p \in Positions : k # pack_event_key(ns, p)
             /\ k # pack_sentinel_key(ns)
             /\ \A name \in Names : k # pack_cursor_key(ns, name)
  BY <1>1, <1>2, <1>3, <1>4, SubspacesApart DEF KeyOf
<1> QED
  BY <1>5, <1>6, <1>7

LEMMA KeysOnce ==
    ASSUME NEW ns \in Namespaces, NEW m \in Namespaces
    PROVE  /\ \A p, q \in Positions :
                 pack_event_key(ns, p) = pack_event_key(m, q) => ns = m /\ p = q
           /\ pack_sentinel_key(ns) = pack_sentinel_key(m) => ns = m
           /\ \A name, other \in Names :
                 pack_cursor_key(ns, name) = pack_cursor_key(m, other) => ns = m /\ name = other
<1>1. ASSUME NEW p \in Positions, NEW q \in Positions, pack_event_key(ns, p) = pack_event_key(m, q)
      PROVE  ns = m /\ p = q
  <2>1. /\ KeyOf(pack_event_key(ns, p), ns, EVENTS_SUB) /\ extract_vs(pack_event_key(ns, p)) = p
        /\ KeyOf(pack_event_key(m, q), m, EVENTS_SUB) /\ extract_vs(pack_event_key(m, q)) = q
    BY EventKeyOf
  <2> QED
    BY <1>1, <2>1 DEF KeyOf
<1>2. ASSUME pack_sentinel_key(ns) = pack_sentinel_key(m)
      PROVE  ns = m
  <2>1. KeyOf(pack_sentinel_key(ns), ns, SENTINEL_SUB) /\ KeyOf(pack_sentinel_key(m), m, SENTINEL_SUB)
    BY SentinelKeyOf
  <2> QED
    BY <1>2, <2>1 DEF KeyOf
<1>3. ASSUME NEW name \in Names, NEW other \in Names,
             pack_cursor_key(ns, name) = pack_cursor_key(m, other)
      PROVE  ns = m /\ name = other
  <2>1. /\ KeyOf(pack_cursor_key(ns, name), ns, SUBS_SUB)
        /\ KeyName(pack_cursor_key(ns, name)) = name
        /\ KeyOf(pack_cursor_key(m, other), m, SUBS_SUB)
        /\ KeyName(pack_cursor_key(m, other)) = other
    BY CursorKeyOf
  <2> QED
    BY <1>3, <2>1 DEF KeyOf
<1> QED
  BY <1>1, <1>2, <1>3

LEMMA KeysInit == Init => KeysInv
<1> SUFFICES ASSUME Init PROVE KeysInv
  OBVIOUS
<1>1. Told
  <2>1. 0 \in Word
    BY DEF Word
  <2> QED
    BY <2>1 DEF Init, Told
<1>2. \A ns \in Namespaces : stored[ns] = {} /\ cursors[ns] = [name \in Names |-> Origin]
  BY DEF Init
<1>3. \A ns \in Namespaces : Saved(ns) = {} /\ IndexKeys(ns) = {}
  BY <1>2 DEF Saved, IndexKeys
<1>4. \A ns \in Namespaces : Keys(ns) = {} /\ Values(ns)
  BY <1>2, <1>3 DEF Keys, Values
<1>5. DOMAIN db = {}
  BY DEF Init
<1> QED
  BY <1>1, <1>4, <1>5 DEF KeysInv

LEMMA BeforeIs ==
    ASSUME NEW p \in Position, NEW q \in Position, NEW r \in Position
    PROVE  /\ Index!Before(p, q) /\ Index!Before(q, r) => Index!Before(p, r)
           /\ ~Index!Before(p, p)
           /\ Index!Before(p, q) => ~Index!Before(q, p) /\ p # q
           /\ ~Index!Before(p, q) /\ Index!Before(p, r) => Index!Before(q, r)
           /\ p # Origin <=> Index!Before(Origin, p)
<1>1. /\ p.ver \in Nat /\ p.idx \in Nat /\ q.ver \in Nat /\ q.idx \in Nat
      /\ r.ver \in Nat /\ r.idx \in Nat
  BY WordIs DEF Position
<1>2. /\ Index!Before(p, q) /\ Index!Before(q, r) => Index!Before(p, r)
      /\ ~Index!Before(p, p)
      /\ Index!Before(p, q) => ~Index!Before(q, p) /\ p # q
      /\ ~Index!Before(p, q) /\ Index!Before(p, r) => Index!Before(q, r)
  BY <1>1 DEF Index!Before
<1>3. p # Origin <=> Index!Before(Origin, p)
  <2>1. p = [ver |-> p.ver, idx |-> p.idx]
    BY DEF Position
  <2>2. p = Origin <=> p.ver = 0 /\ p.idx = 0
    BY <2>1 DEF Origin
  <2>3. Origin.ver = 0 /\ Origin.idx = 0
    BY OriginIs
  <2>4. Index!Before(Origin, p) <=> 0 < p.ver \/ (0 = p.ver /\ 0 < p.idx)
    BY <2>3 DEF Index!Before
  <2> QED
    BY <1>1, <2>2, <2>4
<1> QED
  BY <1>2, <1>3

\* The parts of Told.
ToldOf(st, l, ns) ==
    \A e \in st[ns] : /\ accepted(e.event)
                      /\ Index!Before(Origin, e.pos) /\ ~Index!Before(l, e.pos)

Distinct(st) ==
    \A m, n \in Namespaces : \A e \in st[m], f \in st[n] : e.pos = f.pos => m = n /\ e = f

StoredSet == [pos : Positions, event : Inputs]

LEMMA ToldAppend ==
    ASSUME Told, NEW ns \in Namespaces, NEW e \in Inputs, NEW p \in Positions, append(ns, e, p)
    PROVE  Told'
<1> PICK g : g = [pos |-> p, event |-> e]
  OBVIOUS
<1>1. g \in StoredSet /\ g.pos = p /\ g.event = e
  BY DEF StoredSet
<1>2. stored \in [Namespaces -> SUBSET StoredSet]
  BY DEF Told, StoredSet
<1>3. stored' = [stored EXCEPT ![ns] = @ \union {g}]
  BY DEF append
<1>4. stored' \in [Namespaces -> SUBSET StoredSet]
  BY <1>1, <1>2, <1>3
<1>5. /\ stored'[ns] = stored[ns] \union {g}
      /\ \A m \in Namespaces : m # ns => stored'[m] = stored[m]
  BY <1>2, <1>3
<1>6. /\ last \in Position /\ last' = p /\ p \in Position /\ Origin \in Position
      /\ Index!Before(last, p) /\ last' \in {Origin} \union Positions
  BY ConstantsAre, OriginIs DEF Told, append
<1>7. appended' \in [Namespaces -> Word]
  <2>1. p.ver \in Word
    BY <1>6 DEF Position
  <2> QED
    BY <2>1 DEF Told, append
<1>8. cursors' \in [Namespaces -> [Names -> {Origin} \union Positions]]
  BY DEF Told, append
<1>9. ASSUME NEW m \in Namespaces, NEW f \in stored[m]
      PROVE  /\ f.pos \in Position /\ f.pos # p
             /\ accepted(f.event) /\ Index!Before(Origin, f.pos) /\ ~Index!Before(p, f.pos)
  <2>1. f \in StoredSet
    BY <1>2
  <2>2. f.pos \in Position
    BY <2>1, ConstantsAre DEF StoredSet
  <2>3. accepted(f.event) /\ Index!Before(Origin, f.pos) /\ ~Index!Before(last, f.pos)
    BY DEF Told
  <2> PICK q : q = f.pos
    OBVIOUS
  <2>4. Index!Before(q, p)
    BY <1>6, <2>2, <2>3, BeforeIs
  <2> QED
    BY <1>6, <2>2, <2>3, <2>4, BeforeIs
<1>10. Index!Before(Origin, p) /\ ~Index!Before(p, p) /\ accepted(e)
  <2>1. last = Origin \/ Index!Before(Origin, last)
    BY <1>6, BeforeIs
  <2>2. Index!Before(Origin, p)
    BY <1>6, <2>1, BeforeIs
  <2> QED
    BY <1>6, <2>2, BeforeIs DEF append
<1>11. ASSUME NEW m \in Namespaces
       PROVE  ToldOf(stored', last', m) /\ (stored'[m] = {} => appended'[m] = 0)
  <2>1. CASE m = ns
    BY <1>1, <1>5, <1>6, <1>9, <1>10, <2>1 DEF ToldOf
  <2>2. CASE m # ns
    <3>1. stored'[m] = stored[m] /\ appended'[m] = appended[m]
      BY <1>5, <2>2 DEF append, Told
    <3>2. stored[m] = {} => appended[m] = 0
      BY DEF Told
    <3> QED
      BY <1>6, <1>9, <3>1, <3>2 DEF ToldOf
  <2> QED
    BY <2>1, <2>2
<1>12. Distinct(stored')
  <2> SUFFICES ASSUME NEW m \in Namespaces, NEW n \in Namespaces,
                      NEW x \in stored'[m], NEW y \in stored'[n], x.pos = y.pos
               PROVE  m = n /\ x = y
    BY DEF Distinct
  <2>1. (x \in stored[m] \/ (m = ns /\ x = g)) /\ (y \in stored[n] \/ (n = ns /\ y = g))
    BY <1>5
  <2>2. CASE x \in stored[m] /\ y \in stored[n]
    BY <2>2 DEF Told
  <2>3. CASE x \in stored[m] /\ n = ns /\ y = g
    BY <1>1, <1>9, <2>3
  <2>4. CASE m = ns /\ x = g /\ y \in stored[n]
    BY <1>1, <1>9, <2>4
  <2>5. CASE m = ns /\ x = g /\ n = ns /\ y = g
    BY <2>5
  <2> QED
    BY <2>1, <2>2, <2>3, <2>4, <2>5
<1> QED
  BY <1>4, <1>6, <1>7, <1>8, <1>11, <1>12 DEF Told, ToldOf, Distinct, StoredSet

LEMMA ToldSetCursor ==
    ASSUME Told, NEW ns \in Namespaces, NEW name \in Names, NEW p \in Positions,
           set_cursor(ns, name, p)
    PROVE  Told'
<1>1. stored' = stored /\ last' = last /\ appended' = appended
  BY DEF set_cursor
<1>2. cursors' \in [Namespaces -> [Names -> {Origin} \union Positions]]
  BY DEF set_cursor, Told
<1> QED
  BY <1>1, <1>2 DEF Told

LEMMA StoredType ==
    ASSUME Told, NEW m \in Namespaces
    PROVE  /\ \A f \in stored[m] : f.pos \in Positions /\ f.event \in Inputs
           /\ \A name \in Names : cursors[m][name] \in {Origin} \union Positions
           /\ appended[m] \in Word
BY DEF Told

\* The keys of a namespace are in the database.
LEMMA OwnKeys ==
    ASSUME KeysInv, NEW m \in Namespaces
    PROVE  /\ \A f \in stored[m] : pack_event_key(m, f.pos) \in DOMAIN db /\ pack_sentinel_key(m) \in DOMAIN db
           /\ \A k \in IndexKeys(m) : k \in DOMAIN db
           /\ \A name \in Saved(m) : pack_cursor_key(m, name) \in DOMAIN db
<1>1. Keys(m) \subseteq DOMAIN db
  BY DEF KeysInv
<1> QED
  BY <1>1 DEF Keys

\* What append adds to what a namespace was told and to its keys.
LEMMA AppendAdds ==
    ASSUME Told, NEW ns \in Namespaces, NEW e \in Inputs, NEW p \in Positions, append(ns, e, p),
           NEW m \in Namespaces
    PROVE  /\ stored'[m] = IF m = ns THEN stored[m] \union {[pos |-> p, event |-> e]} ELSE stored[m]
           /\ IndexKeys(m)' = IF m = ns THEN IndexKeys(m) \union index_keys(ns, e, p) ELSE IndexKeys(m)
           /\ Saved(m)' = Saved(m)
           /\ Keys(m)' = IF m = ns
                         THEN Keys(m) \union {pack_event_key(ns, p), pack_sentinel_key(ns)}
                                \union index_keys(ns, e, p)
                         ELSE Keys(m)
<1> PICK g : g = [pos |-> p, event |-> e]
  OBVIOUS
<1>1. g.pos = p /\ g.event = e
  OBVIOUS
<1>2. stored'[m] = IF m = ns THEN stored[m] \union {g} ELSE stored[m]
  BY DEF append, Told
<1>3. Saved(m)' = Saved(m)
  BY DEF append, Saved
<1>4. IndexKeys(m)' = IF m = ns THEN IndexKeys(m) \union index_keys(ns, e, p) ELSE IndexKeys(m)
  BY <1>1, <1>2 DEF IndexKeys
<1>5. CASE m = ns
  <2>1. {pack_event_key(m, f.pos) : f \in stored'[m]}
          = {pack_event_key(m, f.pos) : f \in stored[m]} \union {pack_event_key(m, p)}
    BY <1>1, <1>2, <1>5
  <2>2. {pack_sentinel_key(m) : f \in stored'[m]}
          = {pack_sentinel_key(m) : f \in stored[m]} \union {pack_sentinel_key(m)}
    BY <1>2, <1>5
  <2>3. Keys(m)' = {pack_event_key(m, f.pos) : f \in stored'[m]} \union IndexKeys(m)'
                      \union {pack_sentinel_key(m) : f \in stored'[m]}
                      \union {pack_cursor_key(m, name) : name \in Saved(m)'}
    BY DEF Keys
  <2>4. Keys(m) = {pack_event_key(m, f.pos) : f \in stored[m]} \union IndexKeys(m)
                      \union {pack_sentinel_key(m) : f \in stored[m]}
                      \union {pack_cursor_key(m, name) : name \in Saved(m)}
    BY DEF Keys
  <2>5. Keys(m)' = Keys(m) \union {pack_event_key(m, p), pack_sentinel_key(m)} \union index_keys(ns, e, p)
    BY <1>3, <1>4, <1>5, <2>1, <2>2, <2>3, <2>4
  <2> QED
    BY <1>2, <1>3, <1>4, <1>5, <2>5
<1>6. CASE m # ns
  <2>1. Keys(m)' = Keys(m)
    BY <1>2, <1>3, <1>4, <1>6 DEF Keys
  <2> QED
    BY <1>2, <1>3, <1>4, <1>6, <2>1
<1> QED
  BY <1>5, <1>6

\* What append writes and what it leaves alone.
LEMMA AppendWrites ==
    ASSUME NEW ns \in Namespaces, NEW e \in Inputs, NEW p \in Positions, append(ns, e, p)
    PROVE  /\ DOMAIN db' = DOMAIN db \union {pack_event_key(ns, p), pack_sentinel_key(ns)}
                               \union index_keys(ns, e, p)
           /\ db'[pack_event_key(ns, p)] = encode_event_value(e)
           /\ db'[pack_sentinel_key(ns)] = vs_bytes([ver |-> p.ver, idx |-> 0])
           /\ \A k \in index_keys(ns, e, p) : db'[k] = <<>>
           /\ \A k \in DOMAIN db :
                 /\ k # pack_event_key(ns, p) /\ k # pack_sentinel_key(ns)
                 /\ k \notin index_keys(ns, e, p)
                 => db'[k] = db[k]
<1> PICK D : D = DOMAIN db
  OBVIOUS
<1> PICK K : K = pack_event_key(ns, p)
  OBVIOUS
<1> PICK L : L = pack_sentinel_key(ns)
  OBVIOUS
<1> PICK I : I = index_keys(ns, e, p)
  OBVIOUS
<1> PICK a : a = encode_event_value(e)
  OBVIOUS
<1> PICK z : z = [p EXCEPT !.idx = 0]
  OBVIOUS
<1> PICK b : b = vs_bytes(z)
  OBVIOUS
<1> PICK d : d = db
  OBVIOUS
<1> PICK w : w = db'
  OBVIOUS
<1>1. K # L /\ K \notin I /\ L \notin I
  <2>1. KeyOf(K, ns, EVENTS_SUB) /\ KeyOf(L, ns, SENTINEL_SUB)
    BY EventKeyOf, SentinelKeyOf
  <2>2. \A k \in I : KeyOf(k, ns, INDEXES_SUB)
    BY IndexKeysOf
  <2> HIDE DEF EVENTS_SUB, INDEXES_SUB, SENTINEL_SUB
  <2> QED
    BY <2>1, <2>2, SubspacesApart DEF KeyOf
<1>2. w = [k \in D \union {K, L} \union I |->
              CASE k = K -> a [] k = L -> b [] k \in I -> <<>> [] OTHER -> d[k]]
  BY DEF append
<1>3. /\ DOMAIN w = D \union {K, L} \union I
      /\ w[K] = a /\ w[L] = b /\ \A k \in I : w[k] = <<>>
      /\ \A k \in D : k # K /\ k # L /\ k \notin I => w[k] = d[k]
  BY <1>1, <1>2, Written
<1>4. z = [ver |-> p.ver, idx |-> 0]
  <2>1. p = [ver |-> p.ver, idx |-> p.idx]
    BY ConstantsAre DEF Position
  <2> QED
    BY <2>1
<1> QED
  BY <1>3, <1>4

\* append keeps the invariant: it overwrites its namespace's sentinel only.
LEMMA AppendKeeps ==
    ASSUME KeysInv, NEW ns \in Namespaces, NEW e \in Inputs, NEW p \in Positions, append(ns, e, p)
    PROVE  KeysInv'
<1> PICK K : K = pack_event_key(ns, p)
  OBVIOUS
<1> PICK L : L = pack_sentinel_key(ns)
  OBVIOUS
<1> PICK I : I = index_keys(ns, e, p)
  OBVIOUS
<1> PICK g : g = [pos |-> p, event |-> e]
  OBVIOUS
<1>1. Told /\ Told'
  BY ToldAppend DEF KeysInv
<1>2. /\ DOMAIN db' = DOMAIN db \union {K, L} \union I
      /\ db'[K] = encode_event_value(e)
      /\ db'[L] = vs_bytes([ver |-> p.ver, idx |-> 0])
      /\ \A k \in I : db'[k] = <<>>
      /\ \A k \in DOMAIN db : k # K /\ k # L /\ k \notin I => db'[k] = db[k]
  <2>1. /\ DOMAIN db' = DOMAIN db \union {pack_event_key(ns, p), pack_sentinel_key(ns)}
                             \union index_keys(ns, e, p)
        /\ db'[pack_event_key(ns, p)] = encode_event_value(e)
        /\ db'[pack_sentinel_key(ns)] = vs_bytes([ver |-> p.ver, idx |-> 0])
        /\ \A k \in index_keys(ns, e, p) : db'[k] = <<>>
        /\ \A k \in DOMAIN db :
              /\ k # pack_event_key(ns, p) /\ k # pack_sentinel_key(ns)
              /\ k \notin index_keys(ns, e, p)
              => db'[k] = db[k]
    BY AppendWrites
  <2> QED
    BY <2>1
<1>3. ASSUME NEW m \in Namespaces
      PROVE  /\ stored'[m] = IF m = ns THEN stored[m] \union {g} ELSE stored[m]
             /\ IndexKeys(m)' = IF m = ns THEN IndexKeys(m) \union I ELSE IndexKeys(m)
             /\ Saved(m)' = Saved(m)
             /\ Keys(m)' = IF m = ns THEN Keys(m) \union {K, L} \union I ELSE Keys(m)
  BY <1>1, AppendAdds
<1>4. DOMAIN db' = UNION {Keys(m)' : m \in Namespaces}
  <2>1. DOMAIN db = UNION {Keys(m) : m \in Namespaces}
    BY DEF KeysInv
  <2>2. ASSUME NEW k \in DOMAIN db'
        PROVE  \E m \in Namespaces : k \in Keys(m)'
    <3>1. k \in DOMAIN db \/ k \in {K, L} \union I
      BY <1>2
    <3>2. CASE k \in DOMAIN db
      <4>1. PICK m \in Namespaces : k \in Keys(m)
        BY <2>1, <3>2
      <4> QED
        BY <1>3, <4>1
    <3>3. CASE k \in {K, L} \union I
      BY <1>3, <3>3
    <3> QED
      BY <3>1, <3>2, <3>3
  <2>3. ASSUME NEW m \in Namespaces, NEW k \in Keys(m)'
        PROVE  k \in DOMAIN db'
    <3>1. k \in Keys(m) \/ k \in {K, L} \union I
      BY <1>3
    <3>2. Keys(m) \subseteq DOMAIN db
      BY <2>1
    <3> QED
      BY <1>2, <3>1, <3>2
  <2> QED
    BY <2>2, <2>3
<1>5. /\ g.pos = p /\ g.event = e
      /\ \A m \in Namespaces : \A f \in stored[m] : f.pos # p /\ f.pos \in Positions /\ f.event \in Inputs
  <2>1. g \in stored'[ns] /\ g.pos = p
    BY <1>3
  <2>2. \A m \in Namespaces : \A f \in stored[m] : f \in stored'[m] /\ f.pos \in Positions /\ f.event \in Inputs
    BY <1>1, <1>3, StoredType
  <2>3. ASSUME NEW m \in Namespaces, NEW f \in stored[m], f.pos = p
        PROVE  FALSE
    <3>1. /\ Index!Before(last, p) /\ ~Index!Before(last, f.pos)
      BY <1>1 DEF append, Told
    <3> QED
      BY <2>3, <3>1
  <2> QED
    BY <2>2, <2>3
<1>6. ASSUME NEW m \in Namespaces, NEW f \in stored'[m]
      PROVE  /\ db'[pack_event_key(m, f.pos)] = encode_event_value(f.event)
             /\ db'[pack_sentinel_key(m)] = vs_bytes([ver |-> appended'[m], idx |-> 0])
  <2>1. ASSUME f \in stored[m]
        PROVE  db'[pack_event_key(m, f.pos)] = encode_event_value(f.event)
    <3>1. pack_event_key(m, f.pos) \in DOMAIN db
      BY <2>1, OwnKeys
    <3>2. pack_event_key(m, f.pos) # K /\ pack_event_key(m, f.pos) # L /\ pack_event_key(m, f.pos) \notin I
      BY <1>5, <2>1, KeysOnce, KeysApart
    <3>3. db[pack_event_key(m, f.pos)] = encode_event_value(f.event)
      BY <2>1 DEF KeysInv, Values
    <3> QED
      BY <1>2, <3>1, <3>2, <3>3
  <2>2. CASE m = ns
    <3>1. appended'[m] = p.ver
      BY <1>1, <2>2 DEF append, Told
    <3>2. db'[pack_sentinel_key(m)] = vs_bytes([ver |-> appended'[m], idx |-> 0])
      BY <1>2, <2>2, <3>1
    <3>3. f \in stored[m] \/ f = g
      BY <1>3, <2>2
    <3> QED
      BY <1>2, <1>5, <2>1, <2>2, <3>2, <3>3
  <2>3. CASE m # ns
    <3>1. f \in stored[m] /\ appended'[m] = appended[m]
      BY <1>1, <1>3, <2>3 DEF append, Told
    <3>2. pack_sentinel_key(m) \in DOMAIN db
      BY <3>1, OwnKeys
    <3>3. pack_sentinel_key(m) # K /\ pack_sentinel_key(m) # L /\ pack_sentinel_key(m) \notin I
      BY <2>3, KeysOnce, KeysApart
    <3>4. db[pack_sentinel_key(m)] = vs_bytes([ver |-> appended[m], idx |-> 0])
      BY <3>1 DEF KeysInv, Values
    <3> QED
      BY <1>2, <2>1, <3>1, <3>2, <3>3, <3>4
  <2> QED
    BY <2>2, <2>3
<1>7. ASSUME NEW m \in Namespaces, NEW k \in IndexKeys(m)'
      PROVE  db'[k] = <<>>
  <2>1. k \in I \/ k \in IndexKeys(m)
    BY <1>3
  <2>2. CASE k \in I
    BY <1>2, <2>2
  <2>3. CASE k \notin I /\ k \in IndexKeys(m)
    <3>1. k \in DOMAIN db /\ db[k] = <<>>
      BY <2>3, OwnKeys DEF KeysInv, Values
    <3>2. PICK f \in stored[m] : k \in index_keys(m, f.event, f.pos)
      BY <2>3 DEF IndexKeys
    <3>3. k # K /\ k # L
      BY <1>5, <3>2, KeysApart
    <3> QED
      BY <1>2, <2>3, <3>1, <3>3
  <2> QED
    BY <2>1, <2>2, <2>3
<1>8. ASSUME NEW m \in Namespaces, NEW name \in Saved(m)'
      PROVE  db'[pack_cursor_key(m, name)] = vs_bytes(cursors'[m][name])
  <2>1. name \in Saved(m) /\ name \in Names /\ cursors' = cursors
    BY <1>3 DEF append, Saved
  <2> PICK k : k = pack_cursor_key(m, name)
    OBVIOUS
  <2>2. k \in DOMAIN db /\ db[k] = vs_bytes(cursors[m][name])
    BY <2>1, OwnKeys DEF KeysInv, Values
  <2>3. k # K /\ k # L /\ k \notin I
    BY <2>1, KeysApart
  <2> QED
    BY <1>2, <2>1, <2>2, <2>3
<1>9. \A m \in Namespaces : Values(m)'
  BY <1>6, <1>7, <1>8 DEF Values
<1> QED
  BY <1>1, <1>4, <1>9 DEF KeysInv

\* set_cursor keeps the invariant: it overwrites the cursor of that name only.
LEMMA SetCursorKeeps ==
    ASSUME KeysInv, NEW ns \in Namespaces, NEW name \in Names, NEW p \in Positions,
           set_cursor(ns, name, p)
    PROVE  KeysInv'
<1> PICK c : c = pack_cursor_key(ns, name)
  OBVIOUS
<1>1. Told /\ Told'
  BY ToldSetCursor DEF KeysInv
<1>2. /\ DOMAIN db' = DOMAIN db \union {c} /\ db'[c] = vs_bytes(p)
      /\ \A k \in DOMAIN db : k # c => db'[k] = db[k]
  BY DEF set_cursor
<1>3. stored' = stored /\ last' = last /\ appended' = appended
  BY DEF set_cursor
<1>4. p # Origin
  <2>1. PICK e \in stored[ns] : e.pos = p
    BY DEF set_cursor
  <2>2. Index!Before(Origin, p) /\ p \in Position
    BY <1>1, <2>1, ConstantsAre DEF Told
  <2> QED
    BY <2>2, OriginIs, BeforeIs
<1>5. ASSUME NEW m \in Namespaces, NEW n \in Names
      PROVE  cursors'[m][n] = IF m = ns /\ n = name THEN p ELSE cursors[m][n]
  BY <1>1 DEF set_cursor, Told
<1>6. ASSUME NEW m \in Namespaces
      PROVE  Saved(m)' = IF m = ns THEN Saved(m) \union {name} ELSE Saved(m)
  BY <1>4, <1>5 DEF Saved
<1>7. ASSUME NEW m \in Namespaces
      PROVE  IndexKeys(m)' = IndexKeys(m)
  BY <1>3 DEF IndexKeys
<1>8. ASSUME NEW m \in Namespaces
      PROVE  Keys(m)' = IF m = ns THEN Keys(m) \union {c} ELSE Keys(m)
  <2>1. Keys(m)' = {pack_event_key(m, f.pos) : f \in stored[m]} \union IndexKeys(m)
                      \union {pack_sentinel_key(m) : f \in stored[m]}
                      \union {pack_cursor_key(m, n) : n \in Saved(m)'}
    BY <1>3, <1>7 DEF Keys
  <2>2. CASE m = ns
    <3>1. {pack_cursor_key(m, n) : n \in Saved(m)'} = {pack_cursor_key(m, n) : n \in Saved(m)} \union {c}
      BY <1>6, <2>2
    <3> QED
      BY <2>1, <2>2, <3>1 DEF Keys
  <2>3. CASE m # ns
    BY <1>6, <2>1, <2>3 DEF Keys
  <2> QED
    BY <2>2, <2>3
<1>9. DOMAIN db' = UNION {Keys(m)' : m \in Namespaces}
  <2>1. DOMAIN db = UNION {Keys(m) : m \in Namespaces}
    BY DEF KeysInv
  <2>2. ASSUME NEW k \in DOMAIN db'
        PROVE  \E m \in Namespaces : k \in Keys(m)'
    <3>1. CASE k \in DOMAIN db
      <4>1. PICK m \in Namespaces : k \in Keys(m)
        BY <2>1, <3>1
      <4> QED
        BY <1>8, <4>1
    <3>2. CASE k = c
      BY <1>8, <3>2
    <3> QED
      BY <1>2, <3>1, <3>2
  <2>3. ASSUME NEW m \in Namespaces, NEW k \in Keys(m)'
        PROVE  k \in DOMAIN db'
    <3>1. k \in Keys(m) \/ k = c
      BY <1>8
    <3>2. Keys(m) \subseteq DOMAIN db
      BY <2>1
    <3> QED
      BY <1>2, <3>1, <3>2
  <2> QED
    BY <2>2, <2>3
<1>10. ASSUME NEW m \in Namespaces
       PROVE  Values(m)'
  <2>1. /\ \A f \in stored[m] : f.pos \in Positions /\ f.event \in Inputs
        /\ \A f \in stored[m] : pack_event_key(m, f.pos) \in DOMAIN db /\ pack_sentinel_key(m) \in DOMAIN db
        /\ \A k \in IndexKeys(m) : k \in DOMAIN db
        /\ \A n \in Saved(m) : pack_cursor_key(m, n) \in DOMAIN db
    BY <1>1, StoredType, OwnKeys
  <2>2. ASSUME NEW f \in stored[m]
        PROVE  /\ db'[pack_event_key(m, f.pos)] = encode_event_value(f.event)
               /\ db'[pack_sentinel_key(m)] = vs_bytes([ver |-> appended[m], idx |-> 0])
    <3>1. pack_event_key(m, f.pos) # c /\ pack_sentinel_key(m) # c
      BY <2>1, KeysApart
    <3>2. /\ db[pack_event_key(m, f.pos)] = encode_event_value(f.event)
          /\ db[pack_sentinel_key(m)] = vs_bytes([ver |-> appended[m], idx |-> 0])
      BY DEF KeysInv, Values
    <3> QED
      BY <1>2, <2>1, <3>1, <3>2
  <2>3. ASSUME NEW k \in IndexKeys(m)
        PROVE  db'[k] = <<>>
    <3>1. PICK f \in stored[m] : k \in index_keys(m, f.event, f.pos)
      BY DEF IndexKeys
    <3>2. k # c
      BY <2>1, <3>1, KeysApart
    <3>3. db[k] = <<>>
      BY DEF KeysInv, Values
    <3> QED
      BY <1>2, <2>1, <3>2, <3>3
  <2>4. ASSUME NEW n \in Saved(m)'
        PROVE  db'[pack_cursor_key(m, n)] = vs_bytes(cursors'[m][n])
    <3>1. n \in Names
      BY DEF Saved
    <3>2. CASE m = ns /\ n = name
      BY <1>2, <1>5, <3>2
    <3>3. CASE ~(m = ns /\ n = name)
      <4>1. n \in Saved(m) /\ cursors'[m][n] = cursors[m][n]
        BY <1>5, <1>6, <3>1, <3>3
      <4>2. pack_cursor_key(m, n) # c
        BY <3>1, <3>3, KeysOnce
      <4>3. db[pack_cursor_key(m, n)] = vs_bytes(cursors[m][n])
        BY <4>1 DEF KeysInv, Values
      <4> QED
        BY <1>2, <2>1, <4>1, <4>2, <4>3
    <3> QED
      BY <3>2, <3>3
  <2> QED
    BY <1>3, <1>7, <2>2, <2>3, <2>4 DEF Values
<1> QED
  BY <1>1, <1>9, <1>10 DEF KeysInv

LEMMA KeysStutter ==
    ASSUME KeysInv, UNCHANGED vars
    PROVE  KeysInv'
<1>1. db' = db /\ last' = last /\ stored' = stored /\ appended' = appended /\ cursors' = cursors
  BY DEF vars
<1>2. \A m \in Namespaces : IndexKeys(m)' = IndexKeys(m) /\ Saved(m)' = Saved(m)
  BY <1>1 DEF IndexKeys, Saved
<1>3. \A m \in Namespaces : Keys(m)' = Keys(m)
  BY <1>1, <1>2 DEF Keys
<1>4. \A m \in Namespaces : Values(m) => Values(m)'
  BY <1>1, <1>2 DEF Values
<1>5. Told'
  BY <1>1 DEF KeysInv, Told
<1>6. DOMAIN db' = UNION {Keys(m)' : m \in Namespaces}
  BY <1>1, <1>3 DEF KeysInv
<1> QED
  BY <1>4, <1>5, <1>6 DEF KeysInv

\* The keys in the database are those of what each namespace was told, and the
\* value under each is the last one written for it, whatever strings the
\* namespaces, types, tags and names are (append.rs: append_single; subscribe.rs:
\* set_cursor).
THEOREM KeysInvariant == Spec => []KeysInv
<1>1. Init => KeysInv
  BY KeysInit
<1>2. KeysInv /\ [Next]_vars => KeysInv'
  <2> SUFFICES ASSUME KeysInv, [Next]_vars
               PROVE  KeysInv'
    OBVIOUS
  <2>1. CASE AppendEvent
    <3>1. PICK ns \in Namespaces, e \in Inputs, p \in Positions : append(ns, e, p)
      BY <2>1 DEF AppendEvent
    <3> QED
      BY <3>1, AppendKeeps
  <2>2. CASE SetCursor
    <3>1. PICK ns \in Namespaces, name \in Names, p \in Positions : set_cursor(ns, name, p)
      BY <2>2 DEF SetCursor
    <3> QED
      BY <3>1, SetCursorKeeps
  <2>3. CASE UNCHANGED vars
    BY <2>3, KeysStutter
  <2> QED
    BY <2>1, <2>2, <2>3 DEF Next
<1> QED
  BY <1>1, <1>2, PTL DEF Spec

(***************************************************************************)
(* What the invariant says of a key of the database.                       *)
(***************************************************************************)
IsEvent(m, k, f) == f \in stored[m] /\ k = pack_event_key(m, f.pos) /\ db[k] = encode_event_value(f.event)
IsIndex(m, k, f) == f \in stored[m] /\ k \in index_keys(m, f.event, f.pos) /\ db[k] = <<>>
IsSentinel(m, k) ==
    /\ stored[m] # {} /\ k = pack_sentinel_key(m)
    /\ db[k] = vs_bytes([ver |-> appended[m], idx |-> 0])
IsCursor(m, k, name) ==
    name \in Saved(m) /\ k = pack_cursor_key(m, name) /\ db[k] = vs_bytes(cursors[m][name])

LEMMA DbKeys ==
    ASSUME KeysInv, NEW k \in DOMAIN db
    PROVE  \E m \in Namespaces :
               \/ \E f \in stored[m] : IsEvent(m, k, f)
               \/ \E f \in stored[m] : IsIndex(m, k, f)
               \/ IsSentinel(m, k)
               \/ \E name \in Names : IsCursor(m, k, name)
<1>1. PICK m \in Namespaces : k \in Keys(m)
  BY DEF KeysInv
<1>2. Values(m)
  BY DEF KeysInv
<1>3. \/ \E f \in stored[m] : k = pack_event_key(m, f.pos)
      \/ k \in IndexKeys(m)
      \/ stored[m] # {} /\ k = pack_sentinel_key(m)
      \/ \E name \in Saved(m) : k = pack_cursor_key(m, name)
  BY <1>1 DEF Keys
<1>4. CASE \E f \in stored[m] : k = pack_event_key(m, f.pos)
  BY <1>2, <1>4 DEF Values, IsEvent
<1>5. CASE k \in IndexKeys(m)
  <2>1. PICK f \in stored[m] : k \in index_keys(m, f.event, f.pos)
    BY <1>5 DEF IndexKeys
  <2> QED
    BY <1>2, <1>5, <2>1 DEF Values, IsIndex
<1>6. CASE stored[m] # {} /\ k = pack_sentinel_key(m)
  BY <1>2, <1>6 DEF Values, IsSentinel
<1>7. CASE \E name \in Saved(m) : k = pack_cursor_key(m, name)
  <2>1. Saved(m) \subseteq Names
    BY DEF Saved
  <2> QED
    BY <1>2, <1>7, <2>1 DEF Values, IsCursor
<1> QED
  BY <1>3, <1>4, <1>5, <1>6, <1>7

LEMMA StampedIs ==
    ASSUME NEW v \in Word
    PROVE  [ver |-> v, idx |-> 0] \in Position
<1>1. 0 \in Word
  BY DEF Word
<1> QED
  BY <1>1 DEF Position

LEMMA RangeOfBytes ==
    ASSUME NEW s \in Bytes
    PROVE  Range(s) \subseteq Byte
BY DEF Bytes, Range

LEMMA KeysAreBytes ==
    ASSUME KeysInv, NEW k \in DOMAIN db
    PROVE  k \in Bytes /\ db[k] \in Bytes
<1>1. PICK m \in Namespaces :
               \/ \E f \in stored[m] : IsEvent(m, k, f)
               \/ \E f \in stored[m] : IsIndex(m, k, f)
               \/ IsSentinel(m, k)
               \/ \E name \in Names : IsCursor(m, k, name)
  BY DbKeys
<1>2. Told
  BY DEF KeysInv
<1>3. ASSUME NEW f \in stored[m], IsEvent(m, k, f)
      PROVE  k \in Bytes /\ db[k] \in Bytes
  <2>1. f.pos \in Positions /\ f.event \in GivenEvent
    BY <1>2, StoredType, ConstantsAre
  <2>2. KeyOf(k, m, EVENTS_SUB)
    BY <1>3, <2>1, EventKeyOf DEF IsEvent
  <2> QED
    BY <1>3, <2>1, <2>2, ValuesAreBytes DEF IsEvent, KeyOf
<1>4. ASSUME NEW f \in stored[m], IsIndex(m, k, f)
      PROVE  k \in Bytes /\ db[k] \in Bytes
  <2>1. f.pos \in Positions /\ f.event \in Inputs
    BY <1>2, StoredType
  <2>2. KeyOf(k, m, INDEXES_SUB)
    BY <1>4, <2>1, IndexKeysOf DEF IsIndex
  <2> QED
    BY <1>4, <2>2, ValuesAreBytes DEF IsIndex, KeyOf
<1>5. ASSUME IsSentinel(m, k)
      PROVE  k \in Bytes /\ db[k] \in Bytes
  <2>1. KeyOf(k, m, SENTINEL_SUB)
    BY <1>5, SentinelKeyOf DEF IsSentinel
  <2>2. [ver |-> appended[m], idx |-> 0] \in Position
    BY <1>2, StoredType, StampedIs
  <2> QED
    BY <1>5, <2>1, <2>2, ValuesAreBytes DEF IsSentinel, KeyOf
<1>6. ASSUME NEW name \in Names, IsCursor(m, k, name)
      PROVE  k \in Bytes /\ db[k] \in Bytes
  <2>1. KeyOf(k, m, SUBS_SUB)
    BY <1>6, CursorKeyOf DEF IsCursor
  <2>2. cursors[m][name] \in Position
    BY <1>2, StoredType, ConstantsAre, OriginIs
  <2> QED
    BY <1>6, <2>1, <2>2, ValuesAreBytes DEF IsCursor, KeyOf
<1> QED
  BY <1>1, <1>3, <1>4, <1>5, <1>6

\* What is under the sentinel's key and a cursor's.
LEMMA MetaIs ==
    ASSUME KeysInv, NEW ns \in Namespaces
    PROVE  /\ pack_sentinel_key(ns) \in DOMAIN db => IsSentinel(ns, pack_sentinel_key(ns))
           /\ \A name \in Names : pack_cursor_key(ns, name) \in DOMAIN db
                                     => IsCursor(ns, pack_cursor_key(ns, name), name)
<1>1. Told
  BY DEF KeysInv
<1>2. \A m \in Namespaces : \A f \in stored[m] : f.pos \in Positions /\ f.event \in Inputs
  BY <1>1, StoredType
<1>3. ASSUME pack_sentinel_key(ns) \in DOMAIN db
      PROVE  IsSentinel(ns, pack_sentinel_key(ns))
  <2> PICK k : k = pack_sentinel_key(ns)
    OBVIOUS
  <2>1. PICK m \in Namespaces :
               \/ \E f \in stored[m] : IsEvent(m, k, f)
               \/ \E f \in stored[m] : IsIndex(m, k, f)
               \/ IsSentinel(m, k)
               \/ \E name \in Names : IsCursor(m, k, name)
    BY <1>3, DbKeys
  <2>2. \A f \in stored[m] : ~IsEvent(m, k, f)
    BY <1>2, KeysApart DEF IsEvent
  <2>3. \A f \in stored[m] : ~IsIndex(m, k, f)
    BY <1>2, KeysApart DEF IsIndex
  <2>4. \A name \in Names : ~IsCursor(m, k, name)
    BY KeysApart DEF IsCursor
  <2>5. IsSentinel(m, k)
    BY <2>1, <2>2, <2>3, <2>4
  <2>6. m = ns
    BY <2>5, KeysOnce DEF IsSentinel
  <2> QED
    BY <2>5, <2>6
<1>4. ASSUME NEW name \in Names, pack_cursor_key(ns, name) \in DOMAIN db
      PROVE  IsCursor(ns, pack_cursor_key(ns, name), name)
  <2> PICK k : k = pack_cursor_key(ns, name)
    OBVIOUS
  <2>1. PICK m \in Namespaces :
               \/ \E f \in stored[m] : IsEvent(m, k, f)
               \/ \E f \in stored[m] : IsIndex(m, k, f)
               \/ IsSentinel(m, k)
               \/ \E n \in Names : IsCursor(m, k, n)
    BY <1>4, DbKeys
  <2>2. \A f \in stored[m] : ~IsEvent(m, k, f)
    BY <1>2, KeysApart DEF IsEvent
  <2>3. \A f \in stored[m] : ~IsIndex(m, k, f)
    BY <1>2, KeysApart DEF IsIndex
  <2>4. ~IsSentinel(m, k)
    BY KeysApart DEF IsSentinel
  <2>5. PICK n \in Names : IsCursor(m, k, n)
    BY <2>1, <2>2, <2>3, <2>4
  <2>6. m = ns /\ n = name
    <3>1. pack_cursor_key(ns, name) = pack_cursor_key(m, n)
      BY <2>5 DEF IsCursor
    <3>2. \A x, y \in Names : pack_cursor_key(ns, x) = pack_cursor_key(m, y) => ns = m /\ x = y
      BY KeysOnce
    <3> QED
      BY <3>1, <3>2
  <2> QED
    BY <2>5, <2>6
<1> QED
  BY <1>3, <1>4

LEMMA InvBytesType ==
    ASSUME KeysInv
    PROVE  BytesTypeOK
<1>1. Told
  BY DEF KeysInv
<1>2. \A k \in DOMAIN db : Range(k) \subseteq Byte /\ Range(db[k]) \subseteq Byte
  BY KeysAreBytes, RangeOfBytes
<1>3. ASSUME NEW ns \in Namespaces, pack_sentinel_key(ns) \in DOMAIN db
      PROVE  Len(db[pack_sentinel_key(ns)]) = VsLen
  <2>1. [ver |-> appended[ns], idx |-> 0] \in Position
    BY <1>1, StoredType, StampedIs
  <2>2. db[pack_sentinel_key(ns)] = vs_bytes([ver |-> appended[ns], idx |-> 0])
    BY <1>3, MetaIs DEF IsSentinel
  <2> QED
    BY <2>1, <2>2, ValuesAreBytes
<1>4. ASSUME NEW ns \in Namespaces, NEW name \in Names, pack_cursor_key(ns, name) \in DOMAIN db
      PROVE  Len(db[pack_cursor_key(ns, name)]) = VsLen
  <2>1. cursors[ns][name] \in Position
    BY <1>1, StoredType, ConstantsAre, OriginIs
  <2>2. db[pack_cursor_key(ns, name)] = vs_bytes(cursors[ns][name])
    BY <1>4, MetaIs DEF IsCursor
  <2> QED
    BY <2>1, <2>2, ValuesAreBytes
<1>5. \A k \in DOMAIN db \intersect MetaKeys : Len(db[k]) = VsLen
  BY <1>3, <1>4 DEF MetaKeys
<1>6. last \in {Origin} \union Positions
  BY <1>1 DEF Told
<1> QED
  BY <1>2, <1>5, <1>6 DEF BytesTypeOK

\* Keys and values are byte sequences, and under a sentinel or a cursor there is
\* always a whole versionstamp: get_cursor never meets a value of another kind or
\* length (subscribe.rs: get_cursor, set_cursor; append.rs: append).
THEOREM BytesTypeCorrect == Spec => []BytesTypeOK
<1>1. Spec => []KeysInv
  BY KeysInvariant
<1>2. KeysInv => BytesTypeOK
  BY InvBytesType
<1> QED
  BY <1>1, <1>2, PTL

(***************************************************************************)
(* Namespaces.                                                             *)
(***************************************************************************)

\* The elements of a key, whatever it is the key of.
HasShape(k, b, m, sub) == b \in Seq(Packable) /\ IsKey(k, b, m, sub) /\ b[2] = Str(sub)

LEMMA EventShapeOf ==
    ASSUME NEW m \in Namespaces, NEW p \in Positions
    PROVE  HasShape(pack_event_key(m, p), EventElems(m, p), m, EVENTS_SUB)
<1>1. m \in Bytes /\ p \in Position
  BY ConstantsAre
<1>2. IsKey(pack_event_key(m, p), EventElems(m, p), m, EVENTS_SUB)
  BY <1>1, EventKeyIs
<1> QED
  BY <1>1, <1>2, EventElemsIs DEF HasShape

LEMMA SentinelShapeOf ==
    ASSUME NEW m \in Namespaces
    PROVE  HasShape(pack_sentinel_key(m), SentinelElems(m), m, SENTINEL_SUB)
<1>1. m \in Bytes
  BY ConstantsAre
<1> QED
  BY <1>1, SentinelKeyIs, SentinelElemsIs DEF HasShape

LEMMA CursorShapeOf ==
    ASSUME NEW m \in Namespaces, NEW name \in Names
    PROVE  HasShape(pack_cursor_key(m, name), CursorElems(m, name), m, SUBS_SUB)
<1>1. m \in Bytes /\ name \in Bytes
  BY ConstantsAre
<1>2. IsKey(pack_cursor_key(m, name), CursorElems(m, name), m, SUBS_SUB)
  BY <1>1, CursorKeyIs
<1> QED
  BY <1>1, <1>2, CursorElemsIs DEF HasShape

LEMMA IndexShapeOf ==
    ASSUME NEW m \in Bytes, NEW s \in Seq(Bytes), NEW type \in Bytes, NEW p \in Position
    PROVE  HasShape(pack_tag_index_key(m, s, type, p), IndexElems(m, s, type, p), m, INDEXES_SUB)
<1> PICK n : n = Len(s)
  OBVIOUS
<1> PICK q : q = IndexElems(m, s, type, p)
  OBVIOUS
<1>1. q \in Seq(Packable) /\ TagHead(m, s, n, q)
  BY IndexElemsIs
<1>2. IsKey(pack_tag_index_key(m, s, type, p), q, m, INDEXES_SUB)
  BY IndexKeyIs
<1>3. q[2] = Str(INDEXES_SUB)
  BY <1>1 DEF TagHead
<1> QED
  BY <1>1, <1>2, <1>3 DEF HasShape

\* The tags, sorted, under which an event is indexed.
LEMMA IndexedUnder ==
    ASSUME NEW m \in Namespaces, NEW e \in Inputs, NEW p \in Positions, NEW k \in index_keys(m, e, p)
    PROVE  \E T \in SUBSET Range(e.tags) :
               /\ Lists(sort_tags(T), T) /\ sort_tags(T) \in Seq(Bytes)
               /\ k = pack_tag_index_key(m, sort_tags(T), e.type, p)
               /\ HasShape(k, IndexElems(m, sort_tags(T), e.type, p), m, INDEXES_SUB)
<1>1. m \in Bytes /\ e \in GivenEvent /\ p \in Position /\ e.tags \in Seq(Bytes) /\ e.type \in Bytes
  BY ConstantsAre DEF GivenEvent
<1>2. PICK T \in SUBSET Range(e.tags) : k = IndexKeyAt(m, e, T, p)
  <2>1. \A l : l \in index_keys(m, e, p) <=> \E T \in SUBSET Range(e.tags) : l = IndexKeyAt(m, e, T, p)
    BY <1>1, IndexKeysAre
  <2> QED
    BY <2>1
<1>3. T \in SUBSET Bytes /\ IsFiniteSet(T)
  BY <1>1, GivenTags, FS_Subset
<1>4. Lists(sort_tags(T), T) /\ sort_tags(T) \in Seq(Bytes)
  BY <1>3, SortedIs
<1> PICK s : s = sort_tags(T)
  OBVIOUS
<1> PICK t : t = e.type
  OBVIOUS
<1>5. k = pack_tag_index_key(m, s, t, p)
  BY <1>2 DEF IndexKeyAt
<1>6. HasShape(k, IndexElems(m, s, t, p), m, INDEXES_SUB)
  BY <1>1, <1>4, <1>5, IndexShapeOf
<1> QED
  BY <1>4, <1>5, <1>6

EventsRange(ns) == get_range(prefix_range(pack_events_prefix(ns)))

LEMMA EventsInRange ==
    ASSUME KeysInv, NEW ns \in Namespaces, NEW k
    PROVE  k \in EventsRange(ns) <=> \E f \in stored[ns] : IsEvent(ns, k, f)
<1>1. Told /\ ns \in Bytes
  BY ConstantsAre DEF KeysInv
<1>2. \A m \in Namespaces : \A f \in stored[m] : f.pos \in Positions /\ f.event \in Inputs
  BY <1>1, StoredType
<1> PICK r : r = prefix_range(pack_events_prefix(ns))
  OBVIOUS
<1>3. k \in EventsRange(ns) <=> k \in DOMAIN db /\ InByteRange(k, r)
  BY DEF EventsRange, get_range, InByteRange
<1>4. ASSUME NEW m, NEW b, NEW sub \in Subspaces,
             HasShape(k, b, m, sub), InByteRange(k, r)
      PROVE  m = ns /\ sub = EVENTS_SUB
  <2>1. b \in Seq(Packable) /\ IsKey(k, b, m, sub) /\ b[2] = Str(sub)
    BY <1>4 DEF HasShape
  <2>2. InByteRange(k, prefix_range(pack_events_prefix(ns)))
    BY <1>4
  <2> QED
    BY <1>1, <2>1, <2>2, OnlyEventsInRange
<1>5. ASSUME k \in DOMAIN db, InByteRange(k, r)
      PROVE  \E f \in stored[ns] : IsEvent(ns, k, f)
  <2>1. PICK m \in Namespaces :
               \/ \E f \in stored[m] : IsEvent(m, k, f)
               \/ \E f \in stored[m] : IsIndex(m, k, f)
               \/ IsSentinel(m, k)
               \/ \E name \in Names : IsCursor(m, k, name)
    BY <1>5, DbKeys
  <2>2. ASSUME NEW f \in stored[m], IsEvent(m, k, f)
        PROVE  m = ns
    <3>1. HasShape(k, EventElems(m, f.pos), m, EVENTS_SUB)
      BY <1>2, <2>2, EventShapeOf DEF IsEvent
    <3> QED
      BY <1>4, <1>5, <3>1 DEF Subspaces
  <2>3. ASSUME NEW f \in stored[m], IsIndex(m, k, f)
        PROVE  FALSE
    <3>1. k \in index_keys(m, f.event, f.pos) /\ f.pos \in Positions /\ f.event \in Inputs
      BY <1>2, <2>3 DEF IsIndex
    <3>2. \E b : HasShape(k, b, m, INDEXES_SUB)
      BY <3>1, IndexedUnder
    <3> QED
      BY <1>4, <1>5, <3>2, SubspacesApart DEF Subspaces
  <2>4. ~IsSentinel(m, k)
    <3> SUFFICES ASSUME IsSentinel(m, k) PROVE FALSE
      OBVIOUS
    <3>1. HasShape(k, SentinelElems(m), m, SENTINEL_SUB)
      BY SentinelShapeOf DEF IsSentinel
    <3> QED
      BY <1>4, <1>5, <3>1, SubspacesApart DEF Subspaces
  <2>5. ASSUME NEW name \in Names, IsCursor(m, k, name)
        PROVE  FALSE
    <3>1. HasShape(k, CursorElems(m, name), m, SUBS_SUB)
      BY <2>5, CursorShapeOf DEF IsCursor
    <3> QED
      BY <1>4, <1>5, <3>1, SubspacesApart DEF Subspaces
  <2> QED
    BY <2>1, <2>2, <2>3, <2>4, <2>5
<1>6. ASSUME NEW f \in stored[ns], IsEvent(ns, k, f)
      PROVE  k \in DOMAIN db /\ InByteRange(k, r)
  <2>1. f.pos \in Position /\ k = pack_event_key(ns, f.pos)
    BY <1>2, <1>6, ConstantsAre DEF IsEvent
  <2>2. InByteRange(k, r)
    BY <1>1, <2>1, OwnEventsInRange
  <2>3. k \in DOMAIN db
    BY <2>1, OwnKeys
  <2> QED
    BY <2>2, <2>3
<1> QED
  BY <1>3, <1>5, <1>6

LEMMA ReadsBack ==
    ASSUME KeysInv, NEW ns \in Namespaces, NEW f \in stored[ns], NEW k, IsEvent(ns, k, f)
    PROVE  [pos |-> extract_vs(k), event |-> decode_event_value(db[k])] = f
<1>1. f.pos \in Positions /\ f.event \in Inputs /\ f \in StoredSet
  BY DEF KeysInv, Told, StoredSet
<1>2. extract_vs(k) = f.pos
  BY <1>1, EventKeyOf DEF IsEvent
<1>3. decode_event_value(db[k]) = f.event
  <2>1. f.event \in GivenEvent
    BY <1>1, ConstantsAre
  <2> QED
    BY <2>1, ValueRoundTrip DEF IsEvent
<1>4. f = [pos |-> f.pos, event |-> f.event]
  BY <1>1 DEF StoredSet
<1> QED
  BY <1>2, <1>3, <1>4

LEMMA InvNamespaces ==
    ASSUME KeysInv
    PROVE  NamespacesApart
<1>1. Told
  BY DEF KeysInv
<1>2. ASSUME NEW ns \in Namespaces
      PROVE  read_all(ns) = stored[ns]
  <2>1. read_all(ns) = {[pos |-> extract_vs(k), event |-> decode_event_value(db[k])] : k \in EventsRange(ns)}
    BY DEF read_all, EventsRange
  <2>2. ASSUME NEW k \in EventsRange(ns)
        PROVE  [pos |-> extract_vs(k), event |-> decode_event_value(db[k])] \in stored[ns]
    <3>1. PICK f \in stored[ns] : IsEvent(ns, k, f)
      BY EventsInRange
    <3> QED
      BY <3>1, ReadsBack
  <2>3. ASSUME NEW f \in stored[ns]
        PROVE  \E k \in EventsRange(ns) :
                   f = [pos |-> extract_vs(k), event |-> decode_event_value(db[k])]
    <3> PICK k : k = pack_event_key(ns, f.pos)
      OBVIOUS
    <3>1. IsEvent(ns, k, f)
      BY DEF KeysInv, Values, IsEvent
    <3>2. k \in EventsRange(ns)
      BY <3>1, EventsInRange
    <3>3. [pos |-> extract_vs(k), event |-> decode_event_value(db[k])] = f
      BY <3>1, ReadsBack
    <3> QED
      BY <3>2, <3>3
  <2> QED
    BY <2>1, <2>2, <2>3
<1>3. ASSUME NEW ns \in Namespaces
      PROVE  get(pack_sentinel_key(ns)) = [ver |-> appended[ns], idx |-> 0]
  <2>1. CASE pack_sentinel_key(ns) \in DOMAIN db
    <3>1. db[pack_sentinel_key(ns)] = vs_bytes([ver |-> appended[ns], idx |-> 0])
      BY <2>1, MetaIs DEF IsSentinel
    <3>2. [ver |-> appended[ns], idx |-> 0] \in Position
      BY <1>1, StoredType, StampedIs
    <3>3. position_of(vs_bytes([ver |-> appended[ns], idx |-> 0])) = [ver |-> appended[ns], idx |-> 0]
      BY <3>2, StampRoundTrip
    <3>4. Len(vs_bytes([ver |-> appended[ns], idx |-> 0])) = VsLen
      BY DEF vs_bytes, VsLen
    <3> QED
      BY <2>1, <3>1, <3>3, <3>4 DEF get
  <2>2. CASE pack_sentinel_key(ns) \notin DOMAIN db
    <3>1. stored[ns] = {}
      BY <2>2, OwnKeys
    <3>2. appended[ns] = 0
      BY <1>1, <3>1 DEF Told
    <3> QED
      BY <2>2, <3>2 DEF get, Origin
  <2> QED
    BY <2>1, <2>2
<1>4. ASSUME NEW ns \in Namespaces, NEW name \in Names
      PROVE  get(pack_cursor_key(ns, name)) = cursors[ns][name]
  <2>1. CASE pack_cursor_key(ns, name) \in DOMAIN db
    <3>1. db[pack_cursor_key(ns, name)] = vs_bytes(cursors[ns][name])
      BY <2>1, MetaIs DEF IsCursor
    <3>2. cursors[ns][name] \in Position
      BY <1>1, StoredType, ConstantsAre, OriginIs
    <3>3. position_of(vs_bytes(cursors[ns][name])) = cursors[ns][name]
      BY <3>2, StampRoundTrip
    <3>4. Len(vs_bytes(cursors[ns][name])) = VsLen
      BY DEF vs_bytes, VsLen
    <3> QED
      BY <2>1, <3>1, <3>3, <3>4 DEF get
  <2>2. CASE pack_cursor_key(ns, name) \notin DOMAIN db
    <3>1. name \notin Saved(ns)
      BY <2>2, OwnKeys
    <3> QED
      BY <2>2, <3>1 DEF get, Saved
  <2> QED
    BY <2>1, <2>2
<1> QED
  BY <1>2, <1>3, <1>4 DEF NamespacesApart

\* Each namespace reads back its events, its sentinel and its cursors, whatever is
\* written in other namespaces, and whatever bytes names, types, tags and data
\* contain, NUL included (encoding.rs: EVENTS_SUB, INDEXES_SUB, SENTINEL_SUB,
\* SUBS_SUB and the pack functions; read.rs: scan_all_events).
THEOREM NamespacesStayApart == Spec => []NamespacesApart
<1>1. Spec => []KeysInv
  BY KeysInvariant
<1>2. KeysInv => NamespacesApart
  BY InvNamespaces
<1> QED
  BY <1>1, <1>2, PTL

(***************************************************************************)
(* The ranges of queries.                                                  *)
(***************************************************************************)
LEMMA DbShape ==
    ASSUME KeysInv, NEW k \in DOMAIN db
    PROVE  /\ unpack(k) \in Seq(Packable) /\ pack(unpack(k)) = k
           /\ KeySub(k) = INDEXES_SUB => \E m \in Namespaces : \E f \in stored[m] : IsIndex(m, k, f)
<1>1. PICK m \in Namespaces :
               \/ \E f \in stored[m] : IsEvent(m, k, f)
               \/ \E f \in stored[m] : IsIndex(m, k, f)
               \/ IsSentinel(m, k)
               \/ \E name \in Names : IsCursor(m, k, name)
  BY DbKeys
<1>2. \A f \in stored[m] : f.pos \in Positions /\ f.event \in Inputs
  BY StoredType DEF KeysInv
<1>3. ASSUME NEW b, NEW sub, HasShape(k, b, m, sub)
      PROVE  unpack(k) \in Seq(Packable) /\ pack(unpack(k)) = k /\ KeySub(k) = sub
  BY <1>3 DEF HasShape, IsKey
<1> HIDE DEF EVENTS_SUB, INDEXES_SUB, SENTINEL_SUB, SUBS_SUB
<1>4. ASSUME NEW f \in stored[m], IsEvent(m, k, f)
      PROVE  \E b : HasShape(k, b, m, EVENTS_SUB)
  BY <1>2, <1>4, EventShapeOf DEF IsEvent
<1>5. ASSUME NEW f \in stored[m], IsIndex(m, k, f)
      PROVE  \E b : HasShape(k, b, m, INDEXES_SUB)
  <2>1. k \in index_keys(m, f.event, f.pos) /\ f.pos \in Positions /\ f.event \in Inputs
    BY <1>2, <1>5 DEF IsIndex
  <2> QED
    BY <2>1, IndexedUnder
<1>6. ASSUME IsSentinel(m, k)
      PROVE  \E b : HasShape(k, b, m, SENTINEL_SUB)
  BY <1>6, SentinelShapeOf DEF IsSentinel
<1>7. ASSUME NEW name \in Names, IsCursor(m, k, name)
      PROVE  \E b : HasShape(k, b, m, SUBS_SUB)
  BY <1>7, CursorShapeOf DEF IsCursor
<1> QED
  BY <1>1, <1>3, <1>4, <1>5, <1>6, <1>7, SubspacesApart

\* A key of the index, taken apart.
LEMMA IndexKeyParts ==
    ASSUME KeysInv, NEW m \in Namespaces, NEW f \in stored[m], NEW k, IsIndex(m, k, f)
    PROVE  \E T \in SUBSET Range(f.event.tags) :
               /\ Lists(sort_tags(T), T) /\ sort_tags(T) \in Seq(Bytes) /\ NoReserved(sort_tags(T))
               /\ k = pack_tag_index_key(m, sort_tags(T), f.event.type, f.pos)
               /\ unpack(k) = IndexElems(m, sort_tags(T), f.event.type, f.pos)
<1>1. f.pos \in Positions /\ f.event \in Inputs /\ accepted(f.event)
  BY StoredType DEF KeysInv, Told
<1> PICK e : e = f.event
  OBVIOUS
<1> PICK p : p = f.pos
  OBVIOUS
<1>2. k \in index_keys(m, e, p)
  BY DEF IsIndex
<1>3. PICK T \in SUBSET Range(e.tags) :
               /\ Lists(sort_tags(T), T) /\ sort_tags(T) \in Seq(Bytes)
               /\ k = pack_tag_index_key(m, sort_tags(T), e.type, p)
               /\ HasShape(k, IndexElems(m, sort_tags(T), e.type, p), m, INDEXES_SUB)
  BY <1>1, <1>2, IndexedUnder
<1>4. unpack(k) = IndexElems(m, sort_tags(T), e.type, p)
  BY <1>3 DEF HasShape, IsKey
<1>5. NoReserved(sort_tags(T))
  <2> PICK s : s = sort_tags(T)
    OBVIOUS
  <2> PICK n : n = Len(s)
    OBVIOUS
  <2>1. \A i \in 1..n : s[i] \in T
    BY <1>3, ListIs
  <2>2. EVENTS_IN_INDEXES_SUB \notin Range(e.tags)
    BY <1>1 DEF accepted
  <2> QED
    BY <2>1, <2>2 DEF NoReserved
<1> QED
  BY <1>3, <1>4, <1>5

LEMMA QueryTagsSorted ==
    ASSUME NEW tags \in QueryTags
    PROVE  Lists(sort_tags(tags), tags) /\ sort_tags(tags) \in Seq(Bytes)
<1>1. tags \in SUBSET Bytes /\ IsFiniteSet(tags)
  BY ConstantsAre DEF QueryTags
<1> QED
  BY <1>1, SortedIs

LEMMA SameSorted ==
    ASSUME NEW T, NEW U, Lists(sort_tags(T), T), Lists(sort_tags(U), U), sort_tags(T) = sort_tags(U)
    PROVE  T = U
BY DEF Lists

LEMMA IndexKeyIn ==
    ASSUME NEW ns, NEW e \in GivenEvent, NEW p, NEW T \in SUBSET Range(e.tags)
    PROVE  IndexKeyAt(ns, e, T, p) \in index_keys(ns, e, p)
<1>1. \A k : k \in index_keys(ns, e, p) <=> \E U \in SUBSET Range(e.tags) : k = IndexKeyAt(ns, e, U, p)
  BY IndexKeysAre
<1> QED
  BY <1>1

\* An event is under every subset of its tags.
LEMMA OwnIndexKey ==
    ASSUME KeysInv, NEW ns \in Namespaces, NEW f \in stored[ns], NEW T \in SUBSET Range(f.event.tags)
    PROVE  LET k == pack_tag_index_key(ns, sort_tags(T), f.event.type, f.pos)
           IN  k \in DOMAIN db /\ IsIndex(ns, k, f)
<1> PICK k : k = pack_tag_index_key(ns, sort_tags(T), f.event.type, f.pos)
  OBVIOUS
<1> PICK e : e = f.event
  OBVIOUS
<1> PICK p : p = f.pos
  OBVIOUS
<1>1. e \in GivenEvent /\ p \in Positions
  BY StoredType, ConstantsAre DEF KeysInv
<1>2. k \in index_keys(ns, e, p)
  <2>1. IndexKeyAt(ns, e, T, p) \in index_keys(ns, e, p)
    BY <1>1, IndexKeyIn
  <2>2. k = IndexKeyAt(ns, e, T, p)
    BY DEF IndexKeyAt
  <2> QED
    BY <2>1, <2>2
<1>3. k \in IndexKeys(ns)
  BY <1>2 DEF IndexKeys
<1>4. k \in DOMAIN db /\ db[k] = <<>>
  BY <1>3, OwnKeys DEF KeysInv, Values
<1> QED
  BY <1>2, <1>4 DEF IsIndex

Found(f, tags, type, after) ==
    f.event.type = type /\ tags \subseteq Range(f.event.tags) /\ Index!Before(after, f.pos)

\* No type has a NUL in it. The run nul shows a store whose types do, and whose
\* ranges are not exact.
NoNulTypes == \A t \in Types : NoNul(t)

LEMMA TypeRangeHolds ==
    ASSUME KeysInv, NoNulTypes, NEW ns \in Namespaces, NEW tags \in QueryTags, NEW type \in Types,
           NEW after \in Position, NEW k
    PROVE  k \in get_range(type_range(ns, sort_tags(tags), type, after))
             <=> \E f \in stored[ns] : /\ Found(f, tags, type, after)
                                       /\ k = pack_tag_index_key(ns, sort_tags(tags), type, f.pos)
<1> PICK sorted : sorted = sort_tags(tags)
  OBVIOUS
<1> PICK r : r = type_range(ns, sorted, type, after)
  OBVIOUS
<1> PICK n : n = Len(sorted)
  OBVIOUS
<1>1. /\ Lists(sorted, tags) /\ sorted \in Seq(Bytes) /\ n \in Nat
      /\ ns \in Bytes /\ type \in Bytes
  BY QueryTagsSorted, ConstantsAre
<1>2. k \in get_range(r) <=> k \in DOMAIN db /\ InByteRange(k, r)
  BY DEF get_range, InByteRange
<1>3. \A m \in Namespaces : \A f \in stored[m] :
          /\ f.pos \in Position /\ f.event \in Inputs /\ f.event.type \in Types /\ f.event.type \in Bytes
          /\ m \in Bytes /\ Index!Before(Origin, f.pos)
  BY StoredType, ConstantsAre, StringsAssumption DEF KeysInv, Told
<1>4. ASSUME k \in DOMAIN db, InByteRange(k, r)
      PROVE  \E f \in stored[ns] : Found(f, tags, type, after)
                                     /\ k = pack_tag_index_key(ns, sorted, type, f.pos)
  <2> PICK b : b = unpack(k)
    OBVIOUS
  <2>1. b \in Seq(Packable) /\ pack(b) = k
    BY <1>4, DbShape
  <2>2. Leads(n + 4, TypeElems(ns, sorted, type), b)
    <3>1. InByteRange(pack(b), type_range(ns, sorted, type, after))
      BY <1>4, <2>1
    <3>2. Leads(Len(sorted) + 4, TypeElems(ns, sorted, type), b)
      BY <1>1, <2>1, <3>1, TypeRangeLeads
    <3> QED
      BY <3>2
  <2>3. b[2] = Str(INDEXES_SUB)
    <3> PICK a : a = TypeElems(ns, sorted, type)
      OBVIOUS
    <3> PICK m : m = n + 4
      OBVIOUS
    <3>1. TagHead(ns, sorted, n, a)
      BY <1>1, TypeElemsIs
    <3>2. m \in {n + 3, n + 4} /\ Leads(m, a, b)
      BY <2>2
    <3>3. InIndex(ns, sorted, n, b)
      BY <1>1, <3>1, <3>2, LeadsInIndex
    <3> QED
      BY <3>3 DEF InIndex
  <2>4. KeySub(k) = INDEXES_SUB
    BY <2>3, PackableIs DEF KeySub
  <2>5. PICK m \in Namespaces : \E f \in stored[m] : IsIndex(m, k, f)
    BY <1>4, <2>4, DbShape
  <2>6. PICK f \in stored[m] : IsIndex(m, k, f)
    BY <2>5
  <2>7. PICK T \in SUBSET Range(f.event.tags) :
               /\ Lists(sort_tags(T), T) /\ sort_tags(T) \in Seq(Bytes) /\ NoReserved(sort_tags(T))
               /\ k = pack_tag_index_key(m, sort_tags(T), f.event.type, f.pos)
               /\ unpack(k) = IndexElems(m, sort_tags(T), f.event.type, f.pos)
    BY <2>6, IndexKeyParts
  <2> PICK s : s = sort_tags(T)
    OBVIOUS
  <2> PICK t : t = f.event.type
    OBVIOUS
  <2> PICK p : p = f.pos
    OBVIOUS
  <2>8. m = ns /\ s = sorted /\ t = type
    <3>1. /\ m \in Bytes /\ s \in Seq(Bytes) /\ t \in Bytes /\ p \in Position
          /\ NoReserved(s) /\ NoNul(t)
      BY <1>3, <2>7 DEF NoNulTypes
    <3>2. Leads(Len(sorted) + 4, TypeElems(ns, sorted, type), IndexElems(m, s, t, p))
      BY <2>2, <2>7
    <3> QED
      BY <1>1, <3>1, <3>2, SameTypeKey
  <2>9. T = tags
    BY <1>1, <2>7, <2>8, SameSorted
  <2>10. Index!Before(after, p)
    <3>1. p \in Position /\ p # Origin
      BY <1>3, OriginIs, BeforeIs
    <3>2. k = pack_tag_index_key(ns, sorted, type, p)
      BY <2>7, <2>8
    <3>3. InByteRange(pack_tag_index_key(ns, sorted, type, p), type_range(ns, sorted, type, after))
      BY <1>4, <3>2
    <3> QED
      BY <1>1, <3>1, <3>3, OwnKeysInRange
  <2> QED
    BY <2>7, <2>8, <2>9, <2>10 DEF Found
<1>5. ASSUME NEW f \in stored[ns], Found(f, tags, type, after),
             k = pack_tag_index_key(ns, sorted, type, f.pos)
      PROVE  k \in DOMAIN db /\ InByteRange(k, r)
  <2> PICK p : p = f.pos
    OBVIOUS
  <2>1. p \in Position /\ p # Origin
    BY <1>3, OriginIs, BeforeIs
  <2>2. InByteRange(pack_tag_index_key(ns, sorted, type, p), type_range(ns, sorted, type, after))
    BY <1>1, <1>5, <2>1, OwnKeysInRange DEF Found
  <2>3. k \in DOMAIN db
    BY <1>5, OwnIndexKey DEF Found
  <2> QED
    BY <1>5, <2>2, <2>3
<1> QED
  BY <1>2, <1>4, <1>5

TagRange(ns, sorted) == get_range(prefix_range(events_in_tag_prefix(ns, sorted)))

\* A key found by the scan for types is of an event that has the tags.
LEMMA FoundTypeIs ==
    ASSUME KeysInv, NEW ns \in Namespaces, NEW tags \in QueryTags,
           NEW k \in TagRange(ns, sort_tags(tags)), Len(unpack(k)) >= Len(sort_tags(tags)) + 5
    PROVE  \E f \in stored[ns] : tags \subseteq Range(f.event.tags)
                                   /\ unpack(k)[Len(unpack(k)) - 1].bytes = f.event.type
<1> PICK sorted : sorted = sort_tags(tags)
  OBVIOUS
<1> PICK n : n = Len(sorted)
  OBVIOUS
<1> PICK b : b = unpack(k)
  OBVIOUS
<1>1. /\ Lists(sorted, tags) /\ sorted \in Seq(Bytes) /\ n \in Nat /\ ns \in Bytes
      /\ Len(b) >= n + 5
  BY QueryTagsSorted, ConstantsAre
<1>2. k \in DOMAIN db /\ InByteRange(k, prefix_range(events_in_tag_prefix(ns, sorted)))
  BY DEF TagRange, get_range, InByteRange
<1>3. \A m \in Namespaces : \A f \in stored[m] :
          f.pos \in Position /\ f.event.type \in Bytes /\ m \in Bytes
  BY StoredType, ConstantsAre DEF KeysInv, GivenEvent
<1>4. b \in Seq(Packable) /\ pack(b) = k
  BY <1>2, DbShape
<1>5. Leads(n + 3, tag_sentinel_elems(ns, sorted), b)
  <2>1. InByteRange(pack(b), prefix_range(events_in_tag_prefix(ns, sorted)))
    BY <1>2, <1>4
  <2>2. Leads(Len(sorted) + 3, tag_sentinel_elems(ns, sorted), b)
    BY <1>1, <1>4, <2>1, TagRangeLeads
  <2> QED
    BY <2>2
<1>6. KeySub(k) = INDEXES_SUB
  <2> PICK a : a = tag_sentinel_elems(ns, sorted)
    OBVIOUS
  <2> PICK m : m = n + 3
    OBVIOUS
  <2>1. TagHead(ns, sorted, n, a)
    BY <1>1, TagElemsIs
  <2>2. m \in {n + 3, n + 4} /\ Leads(m, a, b)
    BY <1>5
  <2>3. InIndex(ns, sorted, n, b)
    BY <1>1, <2>1, <2>2, LeadsInIndex
  <2>4. b[2] = Str(INDEXES_SUB)
    BY <2>3 DEF InIndex
  <2> QED
    BY <2>4, PackableIs DEF KeySub
<1>7. PICK m \in Namespaces : \E f \in stored[m] : IsIndex(m, k, f)
  BY <1>2, <1>6, DbShape
<1>8. PICK f \in stored[m] : IsIndex(m, k, f)
  BY <1>7
<1>9. PICK T \in SUBSET Range(f.event.tags) :
               /\ Lists(sort_tags(T), T) /\ sort_tags(T) \in Seq(Bytes) /\ NoReserved(sort_tags(T))
               /\ k = pack_tag_index_key(m, sort_tags(T), f.event.type, f.pos)
               /\ unpack(k) = IndexElems(m, sort_tags(T), f.event.type, f.pos)
  BY <1>8, IndexKeyParts
<1> PICK s : s = sort_tags(T)
  OBVIOUS
<1> PICK t : t = f.event.type
  OBVIOUS
<1> PICK p : p = f.pos
  OBVIOUS
<1> PICK l : l = Len(s)
  OBVIOUS
<1>10. m \in Bytes /\ s \in Seq(Bytes) /\ t \in Bytes /\ p \in Position /\ Lists(s, T)
  BY <1>3, <1>9
<1>11. m = ns /\ n <= l /\ \A i \in 1..n : s[i] = sorted[i]
  <2>1. LeadsLong(ns, sorted, IndexElems(m, s, t, p))
    BY <1>1, <1>5, <1>9 DEF LeadsLong
  <2>2. m = ns /\ StartsWith(sorted, s)
    BY <1>1, <1>10, <2>1, DiscoveredKey
  <2> QED
    BY <2>2 DEF StartsWith
<1>12. l \in Nat /\ Len(b) = l + 5 /\ b[l + 4] = Str(t)
  <2>1. IndexShape(m, s, t, p, Len(s), IndexElems(m, s, t, p))
    BY <1>10, Shapes
  <2> QED
    BY <1>9, <2>1 DEF IndexShape
<1>13. b[Len(b) - 1].bytes = t
  <2>1. Len(b) - 1 = l + 4
    BY <1>12
  <2> QED
    BY <1>12, <2>1, PackableIs
<1>14. tags \subseteq T
  <2> SUFFICES ASSUME NEW x \in tags PROVE x \in T
    OBVIOUS
  <2>1. PICK i \in 1..n : sorted[i] = x
    BY <1>1, ListIs
  <2>2. s[i] = x /\ i \in 1..l
    BY <1>1, <1>11, <1>12, <2>1
  <2>3. \A j \in 1..l : s[j] \in T
    BY <1>10, ListIs
  <2> QED
    BY <2>2, <2>3
<1> QED
  BY <1>9, <1>11, <1>13, <1>14

\* The key of an event under the tags of a query is found.
LEMMA TypeIsFound ==
    ASSUME KeysInv, NEW ns \in Namespaces, NEW tags \in QueryTags, NEW f \in stored[ns],
           tags \subseteq Range(f.event.tags)
    PROVE  \E k \in TagRange(ns, sort_tags(tags)) :
               /\ Len(unpack(k)) >= Len(sort_tags(tags)) + 5
               /\ unpack(k)[Len(unpack(k)) - 1].code = 2
               /\ unpack(k)[Len(unpack(k)) - 1].bytes = f.event.type
<1> PICK sorted : sorted = sort_tags(tags)
  OBVIOUS
<1> PICK n : n = Len(sorted)
  OBVIOUS
<1> PICK t : t = f.event.type
  OBVIOUS
<1> PICK p : p = f.pos
  OBVIOUS
<1> PICK k : k = pack_tag_index_key(ns, sorted, t, p)
  OBVIOUS
<1> PICK b : b = unpack(k)
  OBVIOUS
<1>1. /\ sorted \in Seq(Bytes) /\ ns \in Bytes /\ t \in Bytes /\ p \in Position
  BY QueryTagsSorted, ConstantsAre, StoredType DEF KeysInv, GivenEvent
<1>2. k \in DOMAIN db
  BY OwnIndexKey
<1>3. InByteRange(k, prefix_range(events_in_tag_prefix(ns, sorted)))
  BY <1>1, OwnKeysInTagRange
<1>4. k \in TagRange(ns, sorted)
  BY <1>2, <1>3 DEF TagRange, get_range, InByteRange
<1>5. b = IndexElems(ns, sorted, t, p)
  BY <1>1, IndexShapeOf DEF HasShape, IsKey
<1>6. n \in Nat /\ Len(b) = n + 5 /\ b[n + 4] = Str(t)
  <2>1. IndexShape(ns, sorted, t, p, Len(sorted), IndexElems(ns, sorted, t, p))
    BY <1>1, Shapes
  <2> QED
    BY <1>5, <2>1 DEF IndexShape
<1>7. b[Len(b) - 1] = Str(t)
  <2>1. Len(b) - 1 = n + 4
    BY <1>6
  <2> QED
    BY <1>6, <2>1
<1>8. b[Len(b) - 1].code = 2 /\ b[Len(b) - 1].bytes = t
  BY <1>7, PackableIs
<1>9. Len(b) >= n + 5
  BY <1>6
<1> QED
  BY <1>4, <1>8, <1>9

LEMMA DiscoverHolds ==
    ASSUME KeysInv, NEW ns \in Namespaces, NEW tags \in QueryTags, NEW x
    PROVE  x \in discover_types_in_tag_subspace(ns, sort_tags(tags))
             <=> \E f \in stored[ns] : tags \subseteq Range(f.event.tags) /\ x = f.event.type
<1> PICK sorted : sorted = sort_tags(tags)
  OBVIOUS
<1>1. x \in discover_types_in_tag_subspace(ns, sorted)
        <=> \E k \in TagRange(ns, sorted) : /\ Len(unpack(k)) >= Len(sorted) + 5
                                            /\ unpack(k)[Len(unpack(k)) - 1].code = 2
                                            /\ x = unpack(k)[Len(unpack(k)) - 1].bytes
  BY DEF discover_types_in_tag_subspace, TagRange
<1>2. ASSUME NEW k \in TagRange(ns, sorted), Len(unpack(k)) >= Len(sorted) + 5,
             x = unpack(k)[Len(unpack(k)) - 1].bytes
      PROVE  \E f \in stored[ns] : tags \subseteq Range(f.event.tags) /\ x = f.event.type
  BY <1>2, FoundTypeIs
<1>3. ASSUME NEW f \in stored[ns], tags \subseteq Range(f.event.tags), x = f.event.type
      PROVE  \E k \in TagRange(ns, sorted) : /\ Len(unpack(k)) >= Len(sorted) + 5
                                             /\ unpack(k)[Len(unpack(k)) - 1].code = 2
                                             /\ x = unpack(k)[Len(unpack(k)) - 1].bytes
  BY <1>3, TypeIsFound
<1> QED
  BY <1>1, <1>2, <1>3

\* The index keys of DCBIndex for the events of a namespace.
LEMMA AbstractKeysAre ==
    ASSUME NEW ns, NEW j
    PROVE  j \in AbstractKeys(ns)
             <=> \E f \in stored[ns] : \E T \in SUBSET Range(f.event.tags) :
                     j = [tags |-> T, type |-> f.event.type, pos |-> f.pos]
<1>1. j \in AbstractKeys(ns)
        <=> \E f \in stored[ns] :
               j \in Index!index_keys([pos |-> f.pos, type |-> f.event.type, tags |-> Range(f.event.tags)])
  BY DEF AbstractKeys, Abstract
<1>2. ASSUME NEW f
      PROVE  j \in Index!index_keys([pos |-> f.pos, type |-> f.event.type, tags |-> Range(f.event.tags)])
               <=> \E T \in SUBSET Range(f.event.tags) :
                      j = [tags |-> T, type |-> f.event.type, pos |-> f.pos]
  BY DEF Index!index_keys, Index!generate_superset_presorted
<1> QED
  BY <1>1, <1>2

LEMMA BoundsAre ==
    ASSUME KeysInv, NEW ns, NEW after \in Bounds(ns)
    PROVE  after \in Position
<1>1. CASE after = Origin
  BY <1>1, OriginIs
<1>2. CASE after # Origin
  <2>1. PICK e \in UNION Range(stored) : after = e.pos
    BY <1>2 DEF Bounds
  <2>2. PICK m \in Namespaces : e \in stored[m]
    BY <2>1 DEF Range, KeysInv, Told
  <2> QED
    BY <2>1, <2>2, StoredType, ConstantsAre DEF KeysInv
<1> QED
  BY <1>1, <1>2

\* The keys that DCBIndex finds in the abstract range of a type.
AbstractFound(ns, tags, type, after) ==
    {j \in AbstractKeys(ns) : Index!InRange(j, Index!tag_type_range(tags, type, after))}

LEMMA AbstractFoundAre ==
    ASSUME NEW ns, NEW tags, NEW type, NEW after, NEW j
    PROVE  j \in AbstractFound(ns, tags, type, after)
             <=> \E f \in stored[ns] : /\ Found(f, tags, type, after)
                                       /\ j = [tags |-> tags, type |-> type, pos |-> f.pos]
<1>1. j \in AbstractFound(ns, tags, type, after)
        <=> /\ j \in AbstractKeys(ns)
            /\ j.tags = tags /\ j.type = type /\ Index!Before(after, j.pos)
  BY DEF AbstractFound, Index!InRange, Index!tag_type_range
<1>2. ASSUME j \in AbstractKeys(ns), j.tags = tags, j.type = type, Index!Before(after, j.pos)
      PROVE  \E f \in stored[ns] : /\ Found(f, tags, type, after)
                                   /\ j = [tags |-> tags, type |-> type, pos |-> f.pos]
  <2>1. PICK f \in stored[ns] : \E T \in SUBSET Range(f.event.tags) :
                     j = [tags |-> T, type |-> f.event.type, pos |-> f.pos]
    BY <1>2, AbstractKeysAre
  <2>2. j = [tags |-> tags, type |-> type, pos |-> f.pos] /\ Found(f, tags, type, after)
    BY <1>2, <2>1 DEF Found
  <2> QED
    BY <2>2
<1>3. ASSUME NEW f \in stored[ns], Found(f, tags, type, after),
             j = [tags |-> tags, type |-> type, pos |-> f.pos]
      PROVE  /\ j \in AbstractKeys(ns)
             /\ j.tags = tags /\ j.type = type /\ Index!Before(after, j.pos)
  <2>1. j = [tags |-> tags, type |-> f.event.type, pos |-> f.pos] /\ tags \in SUBSET Range(f.event.tags)
    BY <1>3 DEF Found
  <2>2. j \in AbstractKeys(ns)
    BY <2>1, AbstractKeysAre
  <2> QED
    BY <1>3, <2>2 DEF Found
<1> QED
  BY <1>1, <1>2, <1>3

LEMMA TypesAgree ==
    ASSUME KeysInv, NEW ns \in Namespaces, NEW tags \in QueryTags
    PROVE  discover_types_in_tag_subspace(ns, sort_tags(tags))
             = Index!discover_types_in_tag_subspace(tags, AbstractKeys(ns))
<1> PICK keys : keys = AbstractKeys(ns)
  OBVIOUS
<1>1. \A f \in stored[ns] : Index!Before(Origin, f.pos) /\ f.event.type \in Types
  BY StoredType, StringsAssumption DEF KeysInv, Told
<1>2. \A x : x \in Index!discover_types_in_tag_subspace(tags, keys)
               <=> \E j \in keys : /\ j.tags = tags /\ j.type \in Types
                                   /\ Index!Before(Index!Origin, j.pos) /\ x = j.type
  BY DEF Index!discover_types_in_tag_subspace, Index!InRange, Index!events_in_tag_range
<1>3. ASSUME NEW x
      PROVE  x \in Index!discover_types_in_tag_subspace(tags, keys)
               <=> \E f \in stored[ns] : tags \subseteq Range(f.event.tags) /\ x = f.event.type
  <2>1. ASSUME NEW j \in keys, j.tags = tags, x = j.type
        PROVE  \E f \in stored[ns] : tags \subseteq Range(f.event.tags) /\ x = f.event.type
    <3>1. PICK f \in stored[ns] : \E T \in SUBSET Range(f.event.tags) :
                     j = [tags |-> T, type |-> f.event.type, pos |-> f.pos]
      BY AbstractKeysAre
    <3>2. tags \subseteq Range(f.event.tags) /\ x = f.event.type
      BY <2>1, <3>1
    <3> QED
      BY <3>2
  <2>2. ASSUME NEW f \in stored[ns], tags \subseteq Range(f.event.tags), x = f.event.type
        PROVE  \E j \in keys : /\ j.tags = tags /\ j.type \in Types
                               /\ Index!Before(Index!Origin, j.pos) /\ x = j.type
    <3> PICK j : j = [tags |-> tags, type |-> f.event.type, pos |-> f.pos]
      OBVIOUS
    <3>1. j.tags = tags /\ j.type = f.event.type /\ j.pos = f.pos
      OBVIOUS
    <3>2. j \in keys
      BY <2>2, AbstractKeysAre
    <3>3. Index!Origin = Origin
      BY DEF Index!Origin, Origin
    <3> QED
      BY <1>1, <2>2, <3>1, <3>2, <3>3
  <2> QED
    BY <1>2, <2>1, <2>2
<1>4. \A x : x \in discover_types_in_tag_subspace(ns, sort_tags(tags))
               <=> \E f \in stored[ns] : tags \subseteq Range(f.event.tags) /\ x = f.event.type
  BY DiscoverHolds
<1> QED
  BY <1>3, <1>4

LEMMA RangesAgree ==
    ASSUME KeysInv, NoNulTypes, NEW ns \in Namespaces, NEW tags \in QueryTags, NEW type \in Types,
           NEW after \in Position
    PROVE  get_range(type_range(ns, sort_tags(tags), type, after))
             = {Packed(ns, j) : j \in AbstractFound(ns, tags, type, after)}
<1> PICK r : r = get_range(type_range(ns, sort_tags(tags), type, after))
  OBVIOUS
<1>1. ASSUME NEW k
      PROVE  k \in r <=> \E f \in stored[ns] : /\ Found(f, tags, type, after)
                                               /\ k = pack_tag_index_key(ns, sort_tags(tags), type, f.pos)
  BY TypeRangeHolds
<1>2. ASSUME NEW k \in r
      PROVE  \E j \in AbstractFound(ns, tags, type, after) : k = Packed(ns, j)
  <2>1. PICK f \in stored[ns] : /\ Found(f, tags, type, after)
                                /\ k = pack_tag_index_key(ns, sort_tags(tags), type, f.pos)
    BY <1>1
  <2> PICK j : j = [tags |-> tags, type |-> type, pos |-> f.pos]
    OBVIOUS
  <2>2. j \in AbstractFound(ns, tags, type, after)
    BY <2>1, AbstractFoundAre
  <2>3. k = Packed(ns, j)
    BY <2>1 DEF Packed
  <2> QED
    BY <2>2, <2>3
<1>3. ASSUME NEW j \in AbstractFound(ns, tags, type, after)
      PROVE  Packed(ns, j) \in r
  <2>1. PICK f \in stored[ns] : /\ Found(f, tags, type, after)
                                /\ j = [tags |-> tags, type |-> type, pos |-> f.pos]
    BY AbstractFoundAre
  <2>2. Packed(ns, j) = pack_tag_index_key(ns, sort_tags(tags), type, f.pos)
    BY <2>1 DEF Packed
  <2> QED
    BY <1>1, <2>1, <2>2
<1> QED
  BY <1>2, <1>3

LEMMA InvRanges ==
    ASSUME KeysInv, NoNulTypes
    PROVE  RangesExact
<1>1. \A ns \in Namespaces, tags \in QueryTags :
          discover_types_in_tag_subspace(ns, sort_tags(tags))
             = Index!discover_types_in_tag_subspace(tags, AbstractKeys(ns))
  BY TypesAgree
<1>2. ASSUME NEW ns \in Namespaces, NEW tags \in QueryTags, NEW type \in Types, NEW after \in Bounds(ns)
      PROVE  get_range(type_range(ns, sort_tags(tags), type, after))
                    = {Packed(ns, k) : k \in
                          {j \in AbstractKeys(ns) : Index!InRange(j, Index!tag_type_range(tags, type, after))}}
  <2>1. after \in Position
    BY BoundsAre
  <2>2. get_range(type_range(ns, sort_tags(tags), type, after))
             = {Packed(ns, j) : j \in AbstractFound(ns, tags, type, after)}
    BY <2>1, RangesAgree
  <2> QED
    BY <2>2 DEF AbstractFound
<1> QED
  BY <1>1, <1>2 DEF RangesExact

\* Every byte range that a query item is translated to holds exactly the keys of
\* the abstract range it stands for, and the scan for types finds the types of the
\* events that have the tags, for types without a NUL (query.rs:
\* build_query_ranges, after_range, discover_types_in_tag_subspace).
THEOREM RangesStayExact ==
    ASSUME NoNulTypes
    PROVE  Spec => []RangesExact
<1>1. Spec => []KeysInv
  BY KeysInvariant
<1>2. KeysInv => RangesExact
  BY InvRanges
<1> QED
  BY <1>1, <1>2, PTL

LEMMA EventsInOrder ==
    ASSUME NEW ns \in Bytes, NEW p \in Position, NEW q \in Position
    PROVE  Less(pack_event_key(ns, p), pack_event_key(ns, q)) <=> Index!Before(p, q)
<1> PICK u : u = pack_events_prefix(ns)
  OBVIOUS
<1> PICK v : v = vs_bytes(p)
  OBVIOUS
<1> PICK w : w = vs_bytes(q)
  OBVIOUS
<1>1. /\ u \in Seq(Byte) /\ v \in Seq(Byte) /\ w \in Seq(Byte)
      /\ Stamp(p) \in Seq(Byte) /\ Stamp(q) \in Seq(Byte) /\ <<51>> \in Seq(Byte)
  BY EventKeyIs, StampIs, StampPacked, ByteValues DEF Bytes
<1>2. pack_event_key(ns, p) = u \o Stamp(p) /\ pack_event_key(ns, q) = u \o Stamp(q)
  BY EventKeyIs
<1>3. Less(u \o Stamp(p), u \o Stamp(q)) <=> Less(Stamp(p), Stamp(q))
  BY <1>1, CommonPrefix
<1>4. Less(<<51>> \o v, <<51>> \o w) <=> Less(v, w)
  BY <1>1, CommonPrefix
<1>5. Stamp(p) = <<51>> \o v /\ Stamp(q) = <<51>> \o w
  BY DEF Stamp
<1>6. Less(v, w) <=> Index!Before(p, q)
  BY StampsInOrder
<1> QED
  BY <1>2, <1>3, <1>4, <1>5, <1>6

LEMMA InvOrder ==
    ASSUME KeysInv, NoNulTypes
    PROVE  ScansInOrder
<1>1. ASSUME NEW ns \in Namespaces, NEW k \in EventsRange(ns), NEW l \in EventsRange(ns)
      PROVE  /\ extract_vs(k) \in Positions
             /\ Less(k, l) <=> Index!Before(extract_vs(k), extract_vs(l))
  <2>1. PICK f \in stored[ns] : IsEvent(ns, k, f)
    BY EventsInRange
  <2>2. PICK g \in stored[ns] : IsEvent(ns, l, g)
    BY EventsInRange
  <2>3. f.pos \in Positions /\ g.pos \in Positions
    BY StoredType DEF KeysInv
  <2> PICK p : p = f.pos
    OBVIOUS
  <2> PICK q : q = g.pos
    OBVIOUS
  <2>4. k = pack_event_key(ns, p) /\ l = pack_event_key(ns, q)
    BY <2>1, <2>2 DEF IsEvent
  <2>5. extract_vs(k) = p /\ extract_vs(l) = q
    BY <2>3, <2>4, EventKeyOf
  <2>6. ns \in Bytes /\ p \in Position /\ q \in Position
    BY <2>3, ConstantsAre
  <2>7. Less(k, l) <=> Index!Before(p, q)
    BY <2>4, <2>6, EventsInOrder
  <2> QED
    BY <2>3, <2>5, <2>7
<1>2. ASSUME NEW ns \in Namespaces, NEW tags \in QueryTags, NEW type \in Types, NEW after \in Bounds(ns),
             NEW k \in get_range(type_range(ns, sort_tags(tags), type, after)),
             NEW l \in get_range(type_range(ns, sort_tags(tags), type, after))
      PROVE  /\ extract_vs(k) \in Positions
             /\ Less(k, l) <=> Index!Before(extract_vs(k), extract_vs(l))
  <2> PICK s : s = sort_tags(tags)
    OBVIOUS
  <2>1. after \in Position /\ s \in Seq(Bytes) /\ ns \in Bytes /\ type \in Bytes
    BY BoundsAre, QueryTagsSorted, ConstantsAre
  <2>2. PICK f \in stored[ns] : k = pack_tag_index_key(ns, sort_tags(tags), type, f.pos)
    BY <2>1, TypeRangeHolds
  <2>3. PICK g \in stored[ns] : l = pack_tag_index_key(ns, sort_tags(tags), type, g.pos)
    BY <2>1, TypeRangeHolds
  <2>4. f.pos \in Positions /\ g.pos \in Positions
    BY StoredType DEF KeysInv
  <2> PICK p : p = f.pos
    OBVIOUS
  <2> PICK q : q = g.pos
    OBVIOUS
  <2>5. p \in Position /\ q \in Position
    BY <2>4, ConstantsAre
  <2>6. k = pack_tag_index_key(ns, s, type, p) /\ l = pack_tag_index_key(ns, s, type, q)
    BY <2>2, <2>3
  <2>7. extract_vs(k) = p /\ extract_vs(l) = q
    BY <2>1, <2>5, <2>6, IndexKeyIs
  <2>8. Less(k, l) <=> Index!Before(p, q)
    BY <2>1, <2>5, <2>6, KeysInOrder
  <2> QED
    BY <2>4, <2>7, <2>8
<1>3. ASSUME NEW ns \in Namespaces, NEW r \in Ranges(ns), NEW k \in get_range(r), NEW l \in get_range(r)
      PROVE  /\ extract_vs(k) \in Positions
             /\ Less(k, l) <=> Index!Before(extract_vs(k), extract_vs(l))
  <2>1. \/ r = prefix_range(pack_events_prefix(ns))
        \/ \E tags \in QueryTags, type \in Types, after \in Bounds(ns) :
              r = type_range(ns, sort_tags(tags), type, after)
    BY DEF Ranges
  <2>2. CASE r = prefix_range(pack_events_prefix(ns))
    BY <1>1, <2>2 DEF EventsRange
  <2>3. CASE \E tags \in QueryTags, type \in Types, after \in Bounds(ns) :
                r = type_range(ns, sort_tags(tags), type, after)
    BY <1>2, <2>3
  <2> QED
    BY <2>1, <2>2, <2>3
<1> QED
  BY <1>3 DEF ScansInOrder

\* For types without a NUL, the order of keys in every range that a read scans is
\* the order of positions: a stream is sorted and a limit takes the first events
\* (read.rs: scan_all_events, read_events).
THEOREM ScansStayInOrder ==
    ASSUME NoNulTypes
    PROVE  Spec => []ScansInOrder
<1>1. Spec => []KeysInv
  BY KeysInvariant
<1>2. KeysInv => ScansInOrder
  BY InvOrder
<1> QED
  BY <1>1, <1>2, PTL

LEMMA InvReadsAfter ==
    ASSUME KeysInv, NoNulTypes
    PROVE  ReadsOnlyAfter
<1>1. {} \in QueryTags
  BY FS_EmptySet DEF QueryTags
<1> SUFFICES ASSUME NEW ns \in Namespaces, NEW t \in Types, NEW after \in Bounds(ns) \ {Origin},
                    NEW range \in build_query_ranges(ns, [types |-> {t}, tags |-> {}], after),
                    NEW k \in get_range(range)
             PROVE  Index!Before(after, extract_vs(k))
  BY DEF ReadsOnlyAfter
<1> PICK s : s = sort_tags({})
  OBVIOUS
<1>2. range = type_range(ns, s, t, after)
  BY DEF build_query_ranges
<1>3. after \in Position /\ s \in Seq(Bytes) /\ ns \in Bytes /\ t \in Bytes
  BY <1>1, BoundsAre, QueryTagsSorted, ConstantsAre
<1>4. PICK f \in stored[ns] : /\ Found(f, {}, t, after)
                              /\ k = pack_tag_index_key(ns, sort_tags({}), t, f.pos)
  BY <1>1, <1>2, <1>3, TypeRangeHolds
<1> PICK p : p = f.pos
  OBVIOUS
<1>5. p \in Position
  BY StoredType, ConstantsAre DEF KeysInv
<1>6. k = pack_tag_index_key(ns, s, t, p)
  BY <1>4
<1>7. extract_vs(k) = p
  BY <1>3, <1>5, <1>6, IndexKeyIs
<1> QED
  BY <1>4, <1>7 DEF Found

\* Without a NUL in a type, a read with `after` returns later positions only: what
\* the run nul refutes for types with one (query.rs: after_range).
THEOREM ReadsStayAfter ==
    ASSUME NoNulTypes
    PROVE  Spec => []ReadsOnlyAfter
<1>1. Spec => []KeysInv
  BY KeysInvariant
<1>2. KeysInv => ReadsOnlyAfter
  BY InvReadsAfter
<1> QED
  BY <1>1, <1>2, PTL
=============================================================================
