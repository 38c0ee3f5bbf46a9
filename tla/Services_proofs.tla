--------------------------- MODULE Services_proofs ---------------------------
(***************************************************************************)
(* What is proved of the services beside the graph: of federators and      *)
(* syncer (GraphServices), of the prune policies, of the memory stores, of *)
(* streaming attention and of the claim verifier.  The first section is    *)
(* about removal from a sequence, a recursive function: the provers have   *)
(* no induction over its argument, so the proofs take the least place      *)
(* where a claim would fail.                                               *)
(***************************************************************************)
EXTENDS GraphServices, ClaimVerifier, PrunePolicies, MemoryStores,
        StreamingAttention, SequenceTheorems, FiniteSetTheorems,
        WellFoundedInduction, TLAPS
-----------------------------------------------------------------------------
(* Least numbers, and removal from a sequence.                             *)

(* A set of numbers has a least one: the form in which the proofs below    *)
(* argue by induction, from a least counterexample.                        *)
LEMMA LeastNumber ==
    ASSUME NEW T \in SUBSET Nat, T # {}
    PROVE  \E n \in T : \A m \in T : n <= m
<1>1. IsWellFoundedOn(OpToRel(<, Nat), Nat)
  BY NatLessThanWellFounded
<1>2. PICK n \in T : \A m \in T : ~(<<m, n>> \in OpToRel(<, Nat))
  BY <1>1, WFMin
<1>3. \A m \in T : ~(m < n)
  BY <1>2 DEF OpToRel
<1> QED
  BY <1>3

(* f[i] is what Leaving leaves of the first i elements of s, for i <= n.   *)
KeptNext(s, X, f, i) == IF s[i] \in X THEN f[i - 1] ELSE Append(f[i - 1], s[i])

Keeps(s, X, n, f) ==
    /\ f = [i \in 0..n |-> f[i]]
    /\ f[0] = <<>>
    /\ \A i \in 1..n : f[i] = KeptNext(s, X, f, i)

LEMMA KeepsLonger ==
    ASSUME NEW s, NEW X, NEW n \in Nat, n > 0, NEW f, Keeps(s, X, n - 1, f)
    PROVE  \E g : Keeps(s, X, n, g)
<1> DEFINE g == [i \in 0..n |-> IF i = n THEN KeptNext(s, X, f, n) ELSE f[i]]
<1>1. g = [i \in 0..n |-> g[i]]
  OBVIOUS
<1>2. g[0] = <<>>
  BY DEF Keeps
<1>3. \A i \in 0..n - 1 : g[i] = f[i]
  OBVIOUS
<1>4. g[n] = KeptNext(s, X, f, n)
  OBVIOUS
<1> HIDE DEF g
<1>5. \A i \in 1..n : KeptNext(s, X, g, i) = KeptNext(s, X, f, i)
  BY <1>3 DEF KeptNext
<1>6. \A i \in 1..n - 1 : f[i] = KeptNext(s, X, f, i)
  BY DEF Keeps
<1>7. \A i \in 1..n : g[i] = KeptNext(s, X, g, i)
  BY <1>3, <1>4, <1>5, <1>6
<1>8. Keeps(s, X, n, g)
  BY <1>1, <1>2, <1>7 DEF Keeps
<1> QED
  BY <1>8

LEMMA KeepsExists ==
    ASSUME NEW s, NEW X, NEW n \in Nat
    PROVE  \E f : Keeps(s, X, n, f)
<1> DEFINE T == {k \in Nat : ~\E f : Keeps(s, X, k, f)}
<1>1. ASSUME NEW k \in T PROVE FALSE
  <2>1. PICK least \in T : \A m \in T : least <= m
    BY <1>1, LeastNumber
  <2>2. CASE least = 0
    <3>1. Keeps(s, X, 0, [i \in 0..0 |-> <<>>])
      BY DEF Keeps
    <3> QED
      BY <2>1, <2>2, <3>1
  <2>3. CASE least > 0
    <3>1. least - 1 \in Nat /\ least - 1 \notin T
      BY <2>1, <2>3
    <3>2. PICK f : Keeps(s, X, least - 1, f)
      BY <3>1
    <3> QED
      BY <2>1, <2>3, <3>2, KeepsLonger
  <2> QED
    BY <2>1, <2>2, <2>3
<1> QED
  BY <1>1

(* The function inside Leaving exists, and has the values it is given.     *)
LEMMA LeavingUnfolds ==
    ASSUME NEW S, NEW s \in Seq(S), NEW X
    PROVE  \E f : Keeps(s, X, Len(s), f) /\ Leaving(s, X) = f[Len(s)]
<1> DEFINE Unfolded(g) ==
              g = [i \in 0..Len(s) |->
                      IF i = 0 THEN <<>>
                      ELSE IF s[i] \in X THEN g[i - 1]
                      ELSE Append(g[i - 1], s[i])]
           c == CHOOSE g : Unfolded(g)
<1>1. Len(s) \in Nat
  OBVIOUS
<1>2. PICK f : Keeps(s, X, Len(s), f)
  BY <1>1, KeepsExists
<1>3. Unfolded(f)
  <2>1. f = [i \in 0..Len(s) |-> f[i]]
    BY <1>2 DEF Keeps
  <2>2. \A i \in 0..Len(s) :
           f[i] = IF i = 0 THEN <<>>
                  ELSE IF s[i] \in X THEN f[i - 1]
                  ELSE Append(f[i - 1], s[i])
    BY <1>1, <1>2 DEF Keeps, KeptNext
  <2> QED
    BY <2>1, <2>2
<1>4. Unfolded(c)
  <2> HIDE DEF Unfolded
  <2> QED
    BY <1>3
<1>5. Leaving(s, X) = c[Len(s)]
  BY DEF Leaving
<1> HIDE DEF c
<1>6. Keeps(s, X, Len(s), c)
  <2>1. \A i \in 1..Len(s) : c[i] = KeptNext(s, X, c, i)
    <3>1. ASSUME NEW i \in 1..Len(s) PROVE c[i] = KeptNext(s, X, c, i)
      <4>1. i \in 0..Len(s) /\ i # 0
        BY <1>1
      <4>2. c[i] = IF i = 0 THEN <<>>
                   ELSE IF s[i] \in X THEN c[i - 1] ELSE Append(c[i - 1], s[i])
        BY <1>4, <4>1, Zenon
      <4> QED
        BY <4>1, <4>2 DEF KeptNext
    <3> QED
      BY <3>1
  <2>2. c[0] = <<>>
    BY <1>1, <1>4
  <2>3. c = [i \in 0..Len(s) |-> c[i]]
    BY <1>4
  <2> QED
    BY <2>1, <2>2, <2>3 DEF Keeps
<1> QED
  BY <1>5, <1>6

(* w holds the elements of the first n of s that are not in X, in the      *)
(* order they have there: the k-th of w is number m[k] of s.               *)
Embeds(s, X, n, w, m) ==
    /\ m \in [1..Len(w) -> 1..n]
    /\ \A k \in 1..Len(w) : w[k] = s[m[k]] /\ s[m[k]] \notin X
    /\ \A k, l \in 1..Len(w) : k < l => m[k] < m[l]
    /\ \A j \in 1..n : s[j] \notin X => \E k \in 1..Len(w) : m[k] = j

LEMMA EmbedsSkip ==
    ASSUME NEW S, NEW s \in Seq(S), NEW X, NEW n \in 1..Len(s), s[n] \in X,
           NEW w \in Seq(S), NEW m, Embeds(s, X, n - 1, w, m)
    PROVE  Embeds(s, X, n, w, m)
<1>1. m \in [1..Len(w) -> 1..n]
  BY DEF Embeds
<1>2. \A j \in 1..n : s[j] \notin X => j \in 1..n - 1
  OBVIOUS
<1> QED
  BY <1>1, <1>2 DEF Embeds

LEMMA EmbedsKeep ==
    ASSUME NEW S, NEW s \in Seq(S), NEW X, NEW n \in 1..Len(s), s[n] \notin X,
           NEW w \in Seq(S), NEW m, Embeds(s, X, n - 1, w, m)
    PROVE  \E q : Embeds(s, X, n, Append(w, s[n]), q)
<1> DEFINE v == Append(w, s[n])
           q == [k \in 1..Len(v) |-> IF k \in 1..Len(w) THEN m[k] ELSE n]
<1>1. s[n] \in S /\ Len(w) \in Nat /\ Len(s) \in Nat
  OBVIOUS
<1>2. /\ v \in Seq(S) /\ Len(v) = Len(w) + 1
      /\ \A k \in 1..Len(w) : v[k] = w[k]
      /\ v[Len(w) + 1] = s[n]
  BY <1>1, AppendProperties
<1> HIDE DEF v
<1>3. \A k \in 1..Len(w) : q[k] = m[k] /\ m[k] \in 1..n - 1
  <2>1. \A k \in 1..Len(w) : k \in 1..Len(v)
    BY <1>1, <1>2
  <2>2. \A k \in 1..Len(w) : m[k] \in 1..n - 1
    BY DEF Embeds
  <2>3. \A k \in 1..Len(w) : q[k] = m[k]
    BY <2>1
  <2> QED
    BY <2>2, <2>3
<1>4. q[Len(v)] = n
  BY <1>1, <1>2
<1>5. q \in [1..Len(v) -> 1..n]
  BY <1>1, <1>2 DEF Embeds
<1> HIDE DEF q
<1>6. \A k \in 1..Len(v) : k \in 1..Len(w) \/ k = Len(v)
  BY <1>1, <1>2
<1>7. \A k \in 1..Len(v) : v[k] = s[q[k]] /\ s[q[k]] \notin X
  BY <1>2, <1>3, <1>4, <1>6 DEF Embeds
<1>8. \A k, l \in 1..Len(v) : k < l => q[k] < q[l]
  <2>1. ASSUME NEW k \in 1..Len(v), NEW l \in 1..Len(v), k < l
        PROVE  q[k] < q[l]
    <3>1. k \in 1..Len(w)
      BY <1>1, <1>2, <2>1
    <3>2. CASE l \in 1..Len(w)
      BY <1>3, <2>1, <3>1, <3>2 DEF Embeds
    <3>3. CASE l = Len(v)
      BY <1>3, <1>4, <3>1, <3>3
    <3> QED
      BY <1>6, <3>2, <3>3
  <2> QED
    BY <2>1
<1>9. \A j \in 1..n : s[j] \notin X => \E k \in 1..Len(v) : q[k] = j
  <2>1. ASSUME NEW j \in 1..n, s[j] \notin X
        PROVE  \E k \in 1..Len(v) : q[k] = j
    <3>1. CASE j = n
      BY <1>1, <1>2, <1>4, <3>1
    <3>2. CASE j # n
      <4>1. j \in 1..n - 1
        BY <3>2
      <4>2. PICK k \in 1..Len(w) : m[k] = j
        BY <2>1, <4>1 DEF Embeds
      <4> QED
        BY <1>1, <1>2, <1>3, <4>2
    <3> QED
      BY <3>1, <3>2
  <2> QED
    BY <2>1
<1>10. Embeds(s, X, n, v, q)
  BY <1>5, <1>7, <1>8, <1>9 DEF Embeds
<1> QED
  BY <1>10 DEF v

(* Leaving(s, X) is such a w for the whole of s.                           *)
LEMMA LeavingEmbeds ==
    ASSUME NEW S, NEW s \in Seq(S), NEW X
    PROVE  /\ Leaving(s, X) \in Seq(S)
           /\ \E m : Embeds(s, X, Len(s), Leaving(s, X), m)
<1>1. PICK f : Keeps(s, X, Len(s), f) /\ Leaving(s, X) = f[Len(s)]
  BY LeavingUnfolds
<1> DEFINE Good(k) == f[k] \in Seq(S) /\ \E m : Embeds(s, X, k, f[k], m)
           T == {k \in Nat : k <= Len(s) /\ ~Good(k)}
<1>2. Len(s) \in Nat
  OBVIOUS
<1>3. Good(0)
  <2>1. f[0] = <<>>
    BY <1>1 DEF Keeps
  <2>2. <<>> \in Seq(S) /\ Len(<<>>) = 0
    OBVIOUS
  <2>3. Embeds(s, X, 0, <<>>, [k \in 1..0 |-> 0])
    BY DEF Embeds
  <2> QED
    BY <2>1, <2>2, <2>3
<1>4. ASSUME NEW k \in 1..Len(s), Good(k - 1) PROVE Good(k)
  <2>1. f[k] = IF s[k] \in X THEN f[k - 1] ELSE Append(f[k - 1], s[k])
    BY <1>1 DEF Keeps, KeptNext
  <2>2. PICK m : Embeds(s, X, k - 1, f[k - 1], m)
    BY <1>4
  <2>3. CASE s[k] \in X
    BY <1>4, <2>1, <2>2, <2>3, EmbedsSkip
  <2>4. CASE s[k] \notin X
    <3>1. \E q : Embeds(s, X, k, Append(f[k - 1], s[k]), q)
      BY <1>4, <2>2, <2>4, EmbedsKeep
    <3>2. Append(f[k - 1], s[k]) \in Seq(S)
      BY <1>4
    <3> QED
      BY <2>1, <2>4, <3>1, <3>2
  <2> QED
    BY <2>3, <2>4
<1> HIDE DEF Good
<1>5. ASSUME NEW k \in T PROVE FALSE
  <2>1. PICK least \in T : \A n \in T : least <= n
    BY <1>5, LeastNumber
  <2>2. least # 0
    BY <1>3, <2>1
  <2>3. least \in 1..Len(s) /\ least - 1 \in Nat /\ least - 1 <= Len(s)
    BY <1>2, <2>1, <2>2
  <2>4. least - 1 \notin T
    BY <2>1, <2>3
  <2>5. Good(least - 1)
    BY <2>3, <2>4
  <2> QED
    BY <1>4, <2>1, <2>3, <2>5
<1>6. Good(Len(s))
  BY <1>2, <1>5
<1> QED
  BY <1>1, <1>6 DEF Good

(* What the proofs need of it: the elements that stay are those not in X,  *)
(* and a sequence without repetitions has none afterwards.                 *)
LEMMA LeavingFacts ==
    ASSUME NEW S, NEW s \in Seq(S), NEW X
    PROVE  /\ Leaving(s, X) \in Seq(S)
           /\ \A k \in DOMAIN Leaving(s, X) :
                 Leaving(s, X)[k] \notin X /\ \E j \in DOMAIN s : Leaving(s, X)[k] = s[j]
           /\ \A j \in DOMAIN s :
                 s[j] \notin X => \E k \in DOMAIN Leaving(s, X) : Leaving(s, X)[k] = s[j]
<1> DEFINE w == Leaving(s, X)
<1>1. PICK m : w \in Seq(S) /\ Embeds(s, X, Len(s), w, m)
  BY LeavingEmbeds
<1> HIDE DEF w
<1>2. DOMAIN w = 1..Len(w) /\ DOMAIN s = 1..Len(s)
  BY <1>1
<1>3. \A k \in DOMAIN w : w[k] \notin X /\ m[k] \in DOMAIN s /\ w[k] = s[m[k]]
  BY <1>1, <1>2 DEF Embeds
<1>4. ASSUME NEW j \in DOMAIN s, s[j] \notin X
      PROVE  \E k \in DOMAIN w : w[k] = s[j]
  <2>1. PICK k \in DOMAIN w : m[k] = j
    BY <1>1, <1>2, <1>4 DEF Embeds
  <2> QED
    BY <1>3, <2>1
<1>5. /\ w \in Seq(S)
      /\ \A k \in DOMAIN w : w[k] \notin X /\ \E j \in DOMAIN s : w[k] = s[j]
      /\ \A j \in DOMAIN s : s[j] \notin X => \E k \in DOMAIN w : w[k] = s[j]
  BY <1>1, <1>3, <1>4
<1> QED
  BY <1>5 DEF w

(* The order of s is kept: two places of what is left are two places of s. *)
LEMMA LeavingDistinct ==
    ASSUME NEW S, NEW s \in Seq(S), NEW X,
           NEW k \in DOMAIN Leaving(s, X), NEW l \in DOMAIN Leaving(s, X), k # l
    PROVE  \E i, j \in DOMAIN s :
              i # j /\ Leaving(s, X)[k] = s[i] /\ Leaving(s, X)[l] = s[j]
<1> DEFINE w == Leaving(s, X)
<1>1. PICK m : w \in Seq(S) /\ Embeds(s, X, Len(s), w, m)
  BY LeavingEmbeds
<1>2. k \in DOMAIN w /\ l \in DOMAIN w
  OBVIOUS
<1> HIDE DEF w
<1>3. DOMAIN w = 1..Len(w) /\ DOMAIN s = 1..Len(s) /\ Len(w) \in Nat /\ Len(s) \in Nat
  BY <1>1
<1>4. m[k] \in DOMAIN s /\ m[l] \in DOMAIN s /\ w[k] = s[m[k]] /\ w[l] = s[m[l]]
  BY <1>1, <1>2, <1>3 DEF Embeds
<1>5. m[k] < m[l] \/ m[l] < m[k]
  BY <1>1, <1>2, <1>3 DEF Embeds
<1>6. m[k] # m[l]
  BY <1>3, <1>4, <1>5
<1>7. \E i, j \in DOMAIN s : i # j /\ w[k] = s[i] /\ w[l] = s[j]
  BY <1>4, <1>6
<1> QED
  BY <1>7 DEF w
-----------------------------------------------------------------------------
(* StreamingAttention: the rows of the output.                             *)

(* While the loop runs it has output the rows before start, start is a row *)
(* of the input, and the chunk is longer than the overlap, so that the     *)
(* next chunk brings at least one row.                                     *)
StreamInv ==
    /\ total \in Nat /\ chunk \in Nat /\ start \in Nat
    /\ Len(output) \in Nat
    /\ output = Rows(0, Len(output))
    /\ stage \in {"idle", "running", "done"}
    /\ stage = "running" => start < total /\ Len(output) = start /\ Overlap < chunk
    /\ stage = "done" => Len(output) = total

LEMMA RowsType ==
    ASSUME NEW a \in Nat, NEW n \in Nat
    PROVE  /\ Rows(a, n) \in Seq(Nat) /\ Len(Rows(a, n)) = n
           /\ \A i \in 1..n : Rows(a, n)[i] = a + i - 1
<1>1. \A i \in 1..n : a + i - 1 \in Nat
  OBVIOUS
<1>2. Rows(a, n) \in [1..n -> Nat]
  BY <1>1 DEF Rows
<1>3. Rows(a, n) \in Seq(Nat) /\ Len(Rows(a, n)) = n
  BY <1>2
<1> QED
  BY <1>3 DEF Rows

(* Two stretches of rows that meet are one.                                *)
LEMMA RowsMeet ==
    ASSUME NEW a \in Nat, NEW n \in Nat
    PROVE  Rows(0, a) \o Rows(a, n) = Rows(0, a + n)
<1> DEFINE p == Rows(0, a)
           q == Rows(a, n)
           r == Rows(0, a + n)
<1>1. /\ p \in Seq(Nat) /\ Len(p) = a /\ \A i \in 1..a : p[i] = i - 1
      /\ q \in Seq(Nat) /\ Len(q) = n /\ \A i \in 1..n : q[i] = a + i - 1
      /\ r \in Seq(Nat) /\ Len(r) = a + n /\ \A i \in 1..a + n : r[i] = i - 1
  <2>1. a + n \in Nat /\ 0 \in Nat
    OBVIOUS
  <2>2. p \in Seq(Nat) /\ Len(p) = a /\ \A i \in 1..a : p[i] = i - 1
    BY <2>1, RowsType
  <2>3. r \in Seq(Nat) /\ Len(r) = a + n /\ \A i \in 1..a + n : r[i] = i - 1
    <3>1. r \in Seq(Nat) /\ Len(r) = a + n /\ \A i \in 1..a + n : r[i] = 0 + i - 1
      BY <2>1, RowsType
    <3> QED
      BY <3>1
  <2> QED
    BY <2>2, <2>3, RowsType
<1> HIDE DEF p, q, r
<1>2. /\ p \o q \in Seq(Nat)
      /\ Len(p \o q) = a + n
      /\ \A i \in 1..a + n : (p \o q)[i] = IF i <= a THEN p[i] ELSE q[i - a]
  BY <1>1, ConcatProperties
<1>3. \A i \in 1..a + n : (p \o q)[i] = r[i]
  <2>1. ASSUME NEW i \in 1..a + n PROVE (p \o q)[i] = r[i]
    <3>1. CASE i <= a
      <4>1. i \in 1..a
        BY <3>1
      <4>2. (p \o q)[i] = p[i]
        BY <1>2, <3>1
      <4>3. p[i] = i - 1 /\ r[i] = i - 1
        BY <1>1, <4>1
      <4> QED
        BY <4>2, <4>3
    <3>2. CASE i > a
      <4>1. i - a \in 1..n /\ a + (i - a) - 1 = i - 1
        BY <3>2
      <4>2. (p \o q)[i] = q[i - a]
        BY <1>2, <3>2
      <4>3. q[i - a] = a + (i - a) - 1
        BY <1>1, <4>1
      <4>4. r[i] = i - 1
        BY <1>1
      <4> QED
        BY <4>1, <4>2, <4>3, <4>4
    <3>3. i <= a \/ i > a
      OBVIOUS
    <3> QED
      BY <3>1, <3>2, <3>3
  <2> QED
    BY <2>1
<1>4. p \o q = r
  BY <1>1, <1>2, <1>3, SeqEqual
<1> QED
  BY <1>4 DEF p, q, r

LEMMA ForwardKeeps ==
    ASSUME StreamInv, NEW n \in 1..MaxTokens, NEW c \in Override, Forward(n, c)
    PROVE  StreamInv'
<1>1. n \in Nat /\ n > 0 /\ c \in Nat
  BY StreamAssumption
<1>2. chunk' \in Nat /\ Overlap < chunk'
  BY <1>1, StreamAssumption DEF Forward
<1>3. <<>> = Rows(0, 0) /\ Len(<<>>) = 0
  BY RowsType
<1>4. output' = Rows(0, Len(output')) /\ Len(output') = 0
  BY <1>3 DEF Forward
<1> QED
  BY <1>1, <1>2, <1>4 DEF Forward, StreamInv

(* Whether it is the last chunk or not, the rows kept of it are those from *)
(* start on to the start of the next one, or to the end.                   *)
LEMMA NextChunkKeeps ==
    ASSUME StreamInv, NextChunk
    PROVE  StreamInv'
<1>1. /\ total \in Nat /\ chunk \in Nat /\ start \in Nat /\ Overlap \in Nat
      /\ start < total /\ Len(output) = start /\ Overlap < chunk
      /\ output = Rows(0, start)
  BY StreamAssumption DEF StreamInv, NextChunk
<1>2. KeptRows \in Nat
  BY <1>1 DEF KeptRows, End, IsLast, Stride
<1>3. output' = Rows(0, start + KeptRows) /\ Len(output') = start + KeptRows
  <2>1. output' = Rows(0, start) \o Rows(start, KeptRows)
    BY <1>1 DEF NextChunk
  <2>2. output' = Rows(0, start + KeptRows)
    BY <1>1, <1>2, <2>1, RowsMeet
  <2>3. start + KeptRows \in Nat
    BY <1>1, <1>2
  <2> QED
    BY <2>2, <2>3, RowsType
<1>4. CASE IsLast
  <2>1. start + KeptRows = total
    BY <1>1, <1>4 DEF KeptRows, End, IsLast, Stride
  <2>2. stage' = "done" /\ start' = start /\ total' = total /\ chunk' = chunk
    BY <1>4 DEF NextChunk
  <2> QED
    BY <1>1, <1>3, <2>1, <2>2 DEF StreamInv
<1>5. CASE ~IsLast
  <2>1. KeptRows = Stride /\ start + Stride < total /\ start + Stride \in Nat
    BY <1>1, <1>5 DEF KeptRows, End, IsLast, Stride
  <2>2. /\ stage' = "running" /\ start' = start + Stride
        /\ total' = total /\ chunk' = chunk
    BY <1>5 DEF NextChunk, StreamInv
  <2> QED
    BY <1>1, <1>3, <2>1, <2>2 DEF StreamInv
<1> QED
  BY <1>4, <1>5

(* Whatever the length, the chunk and the overlap (smaller than the chunk, *)
(* else the loop never gets on), the concatenated chunks are the rows of   *)
(* the input, each once and in order, and all of them when forward ends.   *)
THEOREM EveryRowOnce == StreamSpec => []RowsExactlyOnce
<1>1. StreamInit => StreamInv
  <2>1. <<>> = Rows(0, 0) /\ Len(<<>>) = 0
    BY RowsType
  <2> QED
    BY <2>1 DEF StreamInit, StreamInv
<1>2. StreamInv /\ [StreamNext]_streamVars => StreamInv'
  <2> SUFFICES ASSUME StreamInv, [StreamNext]_streamVars PROVE StreamInv'
    OBVIOUS
  <2>1. CASE UNCHANGED streamVars
    BY <2>1 DEF streamVars, StreamInv, Rows
  <2>2. CASE StreamNext
    BY <2>2, ForwardKeeps, NextChunkKeeps DEF StreamNext
  <2> QED
    BY <2>1, <2>2
<1>3. StreamInv => RowsExactlyOnce
  BY DEF StreamInv, RowsExactlyOnce
<1> QED
  BY <1>1, <1>2, <1>3, PTL DEF StreamSpec
-----------------------------------------------------------------------------
(* MemoryStores: the slots and their count.                                *)
Entry == [key : Key, val : SUBSET Datum]

(* Every slot is free or holds a key and a value, and the count is right.  *)
StoresInv ==
    /\ slot \in [Slot -> Entry \cup {Free}]
    /\ size = Cardinality(Occupied)

LEMMA SlotsFinite ==
    /\ IsFiniteSet(Slot) /\ 0 \in Slot
    /\ \A S \in SUBSET Slot : IsFiniteSet(S) /\ Cardinality(S) \in Nat
<1>1. Capacity - 1 \in Int /\ 0 \in Int /\ Capacity - 1 >= 0
  BY StoresAssumption
<1>2. IsFiniteSet(Slot) /\ 0 \in Slot
  BY <1>1, FS_Interval DEF Slot
<1>3. \A S \in SUBSET Slot : IsFiniteSet(S)
  BY <1>2, FS_Subset
<1> QED
  BY <1>2, <1>3, FS_CardinalityType

(* The slot of a write is free, unless none is.                            *)
LEMMA WriteSlot ==
    /\ SlotForWrite \in Slot
    /\ Occupied # Slot => SlotForWrite \notin Occupied
<1>1. CASE Occupied = Slot
  BY <1>1, SlotsFinite DEF SlotForWrite
<1>2. CASE Occupied # Slot
  <2>1. Slot \ Occupied # {} /\ Slot \ Occupied \in SUBSET Nat
    BY <1>2 DEF Occupied, Slot
  <2>2. \E n \in Slot \ Occupied : \A m \in Slot \ Occupied : n <= m
    BY <2>1, LeastNumber
  <2>3. Min(Slot \ Occupied) \in Slot \ Occupied
    BY <2>2 DEF Min
  <2> QED
    BY <1>2, <2>3 DEF SlotForWrite
<1> QED
  BY <1>1, <1>2

(* What a change of one slot does to the occupied ones.                    *)
LEMMA OccupiedAfter ==
    ASSUME StoresInv, NEW i \in Slot, NEW h, slot' = [slot EXCEPT ![i] = h]
    PROVE  Occupied' = IF h = Free THEN Occupied \ {i} ELSE Occupied \cup {i}
<1>1. DOMAIN slot = Slot
  BY DEF StoresInv
<1>2. \A j \in Slot : slot'[j] = IF j = i THEN h ELSE slot[j]
  BY <1>1
<1>3. Occupied' = {j \in Slot : slot'[j] # Free}
  BY DEF Occupied, Slot
<1> QED
  BY <1>2, <1>3 DEF Occupied

LEMMA WriteKeeps ==
    ASSUME StoresInv, NEW k \in Key, NEW v \in Datum, Write(k, v)
    PROVE  StoresInv'
<1> DEFINE h == [key |-> k, val |-> {v}]
<1>1. h \in Entry /\ h # Free
  BY StoresAssumption DEF Entry
<1>2. slot' = [slot EXCEPT ![SlotForWrite] = h]
  BY DEF Write
<1> HIDE DEF h
<1>3. SlotForWrite \in Slot
  BY WriteSlot
<1>4. slot' \in [Slot -> Entry \cup {Free}]
  BY <1>1, <1>2, <1>3 DEF StoresInv
<1>5. Occupied' = Occupied \cup {SlotForWrite}
  BY <1>1, <1>2, <1>3, OccupiedAfter
<1>6. IsFiniteSet(Occupied) /\ Cardinality(Occupied) \in Nat
  <2>1. Occupied \in SUBSET Slot
    BY DEF Occupied
  <2> QED
    BY <2>1, SlotsFinite
<1>7. Cardinality(Occupied') = IF SlotForWrite \in Occupied
                               THEN Cardinality(Occupied) ELSE Cardinality(Occupied) + 1
  BY <1>5, <1>6, FS_AddElement
<1>8. SlotForWrite \in Occupied <=> Occupied = Slot
  BY <1>3, WriteSlot
<1>9. size' = (IF Occupied = Slot THEN size - 1 ELSE size) + 1
  BY DEF Write
<1>10. size' = Cardinality(Occupied')
  BY <1>6, <1>7, <1>8, <1>9 DEF StoresInv
<1>11. Cardinality(Occupied)' = Cardinality(Occupied')
  OBVIOUS
<1> QED
  BY <1>4, <1>10 DEF StoresInv, Slot, Entry

LEMMA UpdateKeeps ==
    ASSUME StoresInv, NEW k \in Key, NEW v \in Datum, Update(k, v)
    PROVE  StoresInv'
<1>1. PICK i \in Similar(k) :
        slot' = [slot EXCEPT ![i] = [key |-> k, val |-> slot[i].val \cup {v}]]
  BY DEF Update
<1> DEFINE h == [key |-> k, val |-> slot[i].val \cup {v}]
<1>2. i \in Slot /\ i \in Occupied
  BY DEF Similar, Occupied
<1>3. slot[i] \in Entry
  BY <1>2 DEF StoresInv, Occupied
<1>4. h \in Entry /\ h # Free
  BY <1>3, StoresAssumption DEF Entry
<1>5. slot' = [slot EXCEPT ![i] = h]
  BY <1>1
<1> HIDE DEF h
<1>6. slot' \in [Slot -> Entry \cup {Free}]
  BY <1>2, <1>4, <1>5 DEF StoresInv
<1>7. Occupied' = Occupied
  <2>1. Occupied' = Occupied \cup {i}
    BY <1>2, <1>4, <1>5, OccupiedAfter
  <2> QED
    BY <1>2, <2>1
<1>8. size' = Cardinality(Occupied')
  BY <1>7 DEF Update, StoresInv
<1> QED
  BY <1>6, <1>8 DEF StoresInv, Slot, Entry

LEMMA DeleteKeeps ==
    ASSUME StoresInv, NEW k \in Key, Delete(k)
    PROVE  StoresInv'
<1>1. PICK i \in Similar(k) : slot' = [slot EXCEPT ![i] = Free]
  BY DEF Delete
<1>2. i \in Slot /\ i \in Occupied
  BY DEF Similar, Occupied
<1>3. slot' \in [Slot -> Entry \cup {Free}]
  BY <1>1, <1>2 DEF StoresInv
<1>4. Occupied' = Occupied \ {i}
  BY <1>1, <1>2, OccupiedAfter
<1>5. IsFiniteSet(Occupied)
  <2>1. Occupied \in SUBSET Slot
    BY DEF Occupied
  <2> QED
    BY <2>1, SlotsFinite
<1>6. Cardinality(Occupied \ {i}) = Cardinality(Occupied) - 1
  BY <1>2, <1>5, FS_RemoveElement
<1>7. size' = Cardinality(Occupied')
  BY <1>4, <1>6 DEF Delete, StoresInv
<1> QED
  BY <1>3, <1>7 DEF StoresInv, Slot, Entry

(* Through writes to a full store, keys stored twice and their deletes the *)
(* count of entries is the number of occupied slots, and a key in a slot   *)
(* is found, with a value once stored under it.                            *)
THEOREM StoredAlwaysFound == StoresSpec => []StoredIsFound
<1>1. StoresInit => StoresInv
  <2> SUFFICES ASSUME StoresInit PROVE StoresInv
    OBVIOUS
  <2>1. Occupied = {}
    BY DEF StoresInit, Occupied
  <2>2. size = Cardinality(Occupied)
    BY <2>1, FS_EmptySet DEF StoresInit
  <2> QED
    BY <2>2 DEF StoresInit, StoresInv
<1>2. StoresInv /\ [StoresNext]_storeVars => StoresInv'
  <2> SUFFICES ASSUME StoresInv, [StoresNext]_storeVars PROVE StoresInv'
    OBVIOUS
  <2>1. CASE UNCHANGED <<slot, size>>
    BY <2>1 DEF StoresInv, Occupied, Slot, Entry
  <2>2. ASSUME NEW k \in Key, NEW v \in Datum, Store(k, v) PROVE StoresInv'
    BY <2>1, <2>2 DEF Store
  <2>3. CASE UNCHANGED storeVars
    BY <2>1, <2>3 DEF storeVars
  <2>4. CASE StoresNext
    BY <2>2, <2>4, WriteKeeps, UpdateKeeps, DeleteKeeps DEF StoresNext
  <2> QED
    BY <2>3, <2>4
<1>3. StoresInv => StoredIsFound
  <2> SUFFICES ASSUME StoresInv PROVE StoredIsFound
    OBVIOUS
  <2>1. Occupied \in SUBSET Slot
    BY DEF Occupied
  <2>2. IsFiniteSet(Occupied)
    BY <2>1, SlotsFinite
  <2>3. ASSUME NEW i \in Occupied
        PROVE  size # 0 /\ slot[i].val \in Read(slot[i].key)
    <3>1. size # 0
      BY <2>2, <2>3, FS_EmptySet DEF StoresInv
    <3>2. i \in Similar(slot[i].key)
      BY DEF Similar
    <3> QED
      BY <3>1, <3>2 DEF Read
  <2> QED
    BY <2>3 DEF StoredIsFound, StoresInv
<1> QED
  BY <1>1, <1>2, <1>3, PTL DEF StoresSpec
-----------------------------------------------------------------------------
(* GraphServices: the graph, its federators and its syncer.                *)
IsGraph(g) ==
    /\ g \in Seq(Node)
    /\ \A i, j \in DOMAIN g : g[i].id = g[j].id => i = j

(* An element of a graph has an id and a value.                            *)
LEMMA GraphNode ==
    ASSUME NEW g \in Seq(Node), NEW i \in DOMAIN g
    PROVE  g[i] \in Node /\ g[i].id \in NodeId /\ g[i].id \in Ids(g)
<1>1. g[i] \in Node
  BY ElementOfSeq, LenProperties
<1> QED
  BY <1>1 DEF Node, Ids

LEMMA PutGraph ==
    ASSUME NEW g, IsGraph(g), NEW n \in NodeId, NEW v \in Val
    PROVE  IsGraph(Put(g, n, v)) /\ Ids(Put(g, n, v)) = Ids(g) \cup {n}
<1> DEFINE x == [id |-> n, val |-> v]
           p == Put(g, n, v)
<1>1. x \in Node /\ x.id = n
  BY DEF Node
<1>2. g \in Seq(Node) /\ Len(g) \in Nat /\ DOMAIN g = 1..Len(g)
  BY LenProperties DEF IsGraph
<1>3. \A i \in DOMAIN g : g[i] \in Node
  BY <1>2, GraphNode
<1>4. CASE n \in Ids(g)
  <2>1. p = [i \in DOMAIN g |-> IF g[i].id = n THEN x ELSE g[i]]
    BY <1>4 DEF Put
  <2> HIDE DEF x, p
  <2>2. p \in [1..Len(g) -> Node]
    BY <1>1, <1>2, <1>3, <2>1
  <2>3. p \in Seq(Node)
    BY <1>2, <2>2
  <2>4. DOMAIN p = DOMAIN g /\ \A i \in DOMAIN g : p[i].id = g[i].id
    BY <1>1, <2>1
  <2>5. IsGraph(p)
    BY <2>3, <2>4 DEF IsGraph
  <2>6. Ids(p) = Ids(g)
    BY <2>4 DEF Ids
  <2>7. IsGraph(p) /\ Ids(p) = Ids(g) \cup {n}
    BY <1>4, <2>5, <2>6
  <2> QED
    BY <2>7 DEF p
<1>5. CASE n \notin Ids(g)
  <2>1. p = Append(g, x)
    BY <1>5 DEF Put
  <2> HIDE DEF x, p
  <2>2. /\ p \in Seq(Node) /\ Len(p) = Len(g) + 1
        /\ \A i \in 1..Len(g) : p[i] = g[i]
        /\ p[Len(g) + 1] = x
    BY <1>1, <1>2, <2>1, AppendProperties
  <2>3. DOMAIN p = 1..Len(g) + 1
    BY <2>2, LenProperties
  <2>4. \A i \in DOMAIN p : i \in DOMAIN g \/ i = Len(g) + 1
    BY <1>2, <2>3
  <2>5. \A i \in DOMAIN g : p[i].id = g[i].id /\ g[i].id # n /\ i # Len(g) + 1
    BY <1>2, <1>5, <2>2 DEF Ids
  <2>6. p[Len(g) + 1].id = n
    BY <1>1, <2>2
  <2>7. IsGraph(p)
    BY <2>2, <2>4, <2>5, <2>6 DEF IsGraph
  <2>8. Ids(p) = Ids(g) \cup {n}
    <3>1. \A i \in DOMAIN g : i \in DOMAIN p
      BY <1>2, <2>3
    <3>2. Len(g) + 1 \in DOMAIN p
      BY <1>2, <2>3
    <3> QED
      BY <2>4, <2>5, <2>6, <3>1, <3>2 DEF Ids
  <2> QED
    BY <2>7, <2>8 DEF p
<1> QED
  BY <1>4, <1>5

LEMMA WithoutGraph ==
    ASSUME NEW g, IsGraph(g), NEW S
    PROVE  IsGraph(Without(g, S)) /\ Ids(Without(g, S)) = Ids(g) \ S
<1> DEFINE X == [id : S, val : Val]
           w == Leaving(g, X)
<1>1. g \in Seq(Node)
  BY DEF IsGraph
<1>2. \A i \in DOMAIN g : g[i] \in X <=> g[i].id \in S
  <2>1. ASSUME NEW i \in DOMAIN g PROVE g[i] \in X <=> g[i].id \in S
    <3>1. g[i] \in Node
      BY <1>1, GraphNode
    <3> QED
      BY <3>1 DEF Node
  <2> QED
    BY <2>1
<1>3. Without(g, S) = w
  BY DEF Without
<1> HIDE DEF X
<1>4. /\ w \in Seq(Node)
      /\ \A k \in DOMAIN w : w[k] \notin X /\ \E j \in DOMAIN g : w[k] = g[j]
      /\ \A j \in DOMAIN g : g[j] \notin X => \E k \in DOMAIN w : w[k] = g[j]
  BY <1>1, LeavingFacts
<1>5. ASSUME NEW k \in DOMAIN w, NEW l \in DOMAIN w, w[k].id = w[l].id
      PROVE  k = l
  <2>1. SUFFICES ASSUME k # l PROVE FALSE
    OBVIOUS
  <2>2. \E i, j \in DOMAIN g : i # j /\ w[k] = g[i] /\ w[l] = g[j]
    BY <1>1, <2>1, LeavingDistinct
  <2> QED
    BY <1>5, <2>2 DEF IsGraph
<1> HIDE DEF w
<1>6. IsGraph(w)
  BY <1>4, <1>5 DEF IsGraph
<1>7. Ids(w) \subseteq Ids(g) \ S
  BY <1>2, <1>4 DEF Ids
<1>8. Ids(g) \ S \subseteq Ids(w)
  <2>1. ASSUME NEW j \in DOMAIN g, g[j].id \notin S PROVE g[j].id \in Ids(w)
    <3>1. g[j] \notin X
      BY <1>2, <2>1
    <3>2. PICK k \in DOMAIN w : w[k] = g[j]
      BY <1>4, <3>1
    <3> QED
      BY <3>2 DEF Ids
  <2> QED
    BY <2>1 DEF Ids
<1> QED
  BY <1>3, <1>6, <1>7, <1>8

-----------------------------------------------------------------------------
(* Types.                                                                  *)
GraphType == IsGraph(graph)
FedType ==
    /\ sources \in [Fed -> Seq([name : Source, scheme : Scheme])]
    /\ ephemeral \in [Fed -> SUBSET EphId]
DbType ==
    /\ backend \in Backend
    /\ store \in Seq(Node) \cup {None}
    /\ snapshot \in Seq(Node) \cup {None}

LEMMA TypeParts == TypeOK <=> GraphType /\ FedType /\ DbType
  BY DEF TypeOK, GraphType, FedType, DbType, IsGraph

(* What each step does to the graph: nothing, one node put, some removed.  *)
LEMMA SourceKeeps ==
    ASSUME FedType, NEW f \in Fed, NEW s \in Source, NEW c \in Scheme,
           AddExternalSource(f, s, c)
    PROVE  FedType'
<1> DEFINE Src == [name : Source, scheme : Scheme]
           x == [name |-> s, scheme |-> c]
           was == sources[f]
           new == IF s \in Names(f)
                  THEN [i \in DOMAIN was |-> IF was[i].name = s THEN x ELSE was[i]]
                  ELSE Append(was, x)
<1>1. x \in Src
  OBVIOUS
<1>2. was \in Seq(Src) /\ Len(was) \in Nat /\ DOMAIN was = 1..Len(was)
  BY LenProperties DEF FedType
<1>3. sources' = [sources EXCEPT ![f] = new]
  BY DEF AddExternalSource
<1> HIDE DEF x, was, Src
<1>4. new \in Seq(Src)
  <2>1. CASE s \in Names(f)
    <3>1. \A i \in DOMAIN was : was[i] \in Src
      BY <1>2, ElementOfSeq
    <3>2. new \in [1..Len(was) -> Src]
      BY <1>1, <1>2, <2>1, <3>1
    <3> HIDE DEF new
    <3> QED
      BY <1>2, <3>2
  <2>2. CASE s \notin Names(f)
    BY <1>1, <1>2, <2>2, AppendProperties
  <2> QED
    BY <2>1, <2>2
<1> HIDE DEF new
<1>5. sources' \in [Fed -> Seq(Src)]
  BY <1>3, <1>4 DEF FedType, Src
<1>6. ephemeral' = ephemeral
  BY DEF AddExternalSource
<1> QED
  BY <1>5, <1>6 DEF FedType, Src

(* The federators' sets and the graph.                                     *)
Tracked == GraphType /\ FedType /\ EphemeralTracked

LEMMA UnchangedTracked ==
    ASSUME Tracked, UNCHANGED <<graph, sources, ephemeral>>
    PROVE  Tracked'
<1>1. GraphType'
  BY DEF Tracked, GraphType
<1>2. FedType'
  BY DEF Tracked, FedType
<1>3. Ids(graph') = Ids(graph)
  OBVIOUS
<1>4. EphemeralTracked'
  BY <1>3 DEF Tracked, EphemeralTracked
<1> QED
  BY <1>1, <1>2, <1>4 DEF Tracked

LEMMA SourceTracked ==
    ASSUME Tracked, NEW f \in Fed, NEW s \in Source, NEW c \in Scheme,
           AddExternalSource(f, s, c)
    PROVE  Tracked'
<1>1. FedType'
  BY SourceKeeps DEF Tracked
<1>2. graph' = graph /\ ephemeral' = ephemeral
  BY DEF AddExternalSource
<1> QED
  BY <1>1, <1>2 DEF Tracked, GraphType, EphemeralTracked, IsGraph, Ids

LEMMA AddNodeTracked ==
    ASSUME Tracked, NEW n \in UserId, NEW v \in Val, AddNode(n, v)
    PROVE  Tracked'
<1>1. n \in NodeId /\ n \notin EphId
  BY ServicesAssumption DEF NodeId
<1>2. graph' = Put(graph, n, v) /\ ephemeral' = ephemeral /\ sources' = sources
  BY DEF AddNode, fedVars
<1>3. IsGraph(graph') /\ Ids(graph') = Ids(graph) \cup {n}
  BY <1>1, <1>2, PutGraph DEF Tracked, GraphType
<1>4. EphemeralTracked'
  BY <1>1, <1>2, <1>3 DEF Tracked, EphemeralTracked
<1>5. FedType'
  BY <1>2 DEF Tracked, FedType
<1> QED
  BY <1>3, <1>4, <1>5 DEF Tracked, GraphType

LEMMA RemovalTracked ==
    ASSUME Tracked, NEW S, graph' = Without(graph, S),
           UNCHANGED <<ephemeral, sources>>
    PROVE  Tracked'
<1>1. IsGraph(graph') /\ Ids(graph') = Ids(graph) \ S
  BY WithoutGraph DEF Tracked, GraphType
<1>2. EphemeralTracked'
  BY <1>1 DEF Tracked, EphemeralTracked
<1>3. FedType'
  BY DEF Tracked, FedType
<1> QED
  BY <1>1, <1>2, <1>3 DEF Tracked, GraphType

LEMMA QueryTracked ==
    ASSUME Tracked, NEW f \in Fed, NEW s \in Source \cup {Default}, NEW e \in Entity,
           VirtualQuery(f, s, e)
    PROVE  Tracked'
<1>1. CASE UNCHANGED vars
  BY <1>1, UnchangedTracked DEF vars
<1>2. ASSUME NEW c \in Config(f, s), NEW v \in Fetched(c),
             graph' = Put(graph, EphemeralId(s, e), v),
             ephemeral' = [ephemeral EXCEPT ![f] = @ \cup {EphemeralId(s, e)}],
             UNCHANGED sources
      PROVE  Tracked'
  <2> DEFINE x == EphemeralId(s, e)
  <2>1. x \in EphId /\ x \in NodeId
    BY DEF EphemeralId, EphId, NodeId
  <2>2. v \in Val
    BY DEF Fetched
  <2> HIDE DEF x
  <2>3. IsGraph(graph') /\ Ids(graph') = Ids(graph) \cup {x}
    BY <1>2, <2>1, <2>2, PutGraph DEF Tracked, GraphType, x
  <2>4. ephemeral' = [ephemeral EXCEPT ![f] = ephemeral[f] \cup {x}]
    BY <1>2 DEF x
  <2>5. ephemeral' \in [Fed -> SUBSET EphId]
    BY <2>1, <2>4 DEF Tracked, FedType
  <2>6. x \in ephemeral'[f] /\ \A h \in Fed : ephemeral[h] \subseteq ephemeral'[h]
    BY <2>4 DEF Tracked, FedType
  <2>7. EphemeralTracked'
    <3>1. ASSUME NEW i \in Ids(graph'), i \in EphId
          PROVE  \E h \in Fed : i \in ephemeral'[h]
      <4>1. CASE i = x
        BY <2>6, <4>1
      <4>2. CASE i \in Ids(graph)
        <5>1. PICK h \in Fed : i \in ephemeral[h]
          BY <3>1, <4>2 DEF Tracked, EphemeralTracked
        <5> QED
          BY <2>6, <5>1
      <4> QED
        BY <2>3, <3>1, <4>1, <4>2
    <3> QED
      BY <3>1 DEF EphemeralTracked
  <2>8. FedType'
    BY <1>2, <2>5 DEF Tracked, FedType
  <2> QED
    BY <2>3, <2>7, <2>8 DEF Tracked, GraphType
<1> QED
  BY <1>1, <1>2 DEF VirtualQuery

(* A clear that reaches its end has removed every node of the set it       *)
(* empties; one that stops half way keeps the set.                         *)
LEMMA ClearTracked ==
    ASSUME Tracked, NEW f \in Fed, ClearEphemeral(f)
    PROVE  Tracked'
<1>1. sources' = sources
  BY DEF ClearEphemeral
<1>2. CASE ~ephemeral[f] \subseteq Ids(graph)
  <2>1. PICK S : graph' = Without(graph, S)
    BY <1>2 DEF ClearEphemeral
  <2>2. ephemeral' = ephemeral
    BY <1>2 DEF ClearEphemeral
  <2> QED
    BY <1>1, <2>1, <2>2, RemovalTracked
<1>3. CASE ephemeral[f] \subseteq Ids(graph)
  <2>1. /\ graph' = Without(graph, ephemeral[f])
        /\ ephemeral' = [ephemeral EXCEPT ![f] = {}]
    BY <1>3 DEF ClearEphemeral
  <2>2. IsGraph(graph') /\ Ids(graph') = Ids(graph) \ ephemeral[f]
    BY <2>1, WithoutGraph DEF Tracked, GraphType
  <2>3. \A h \in Fed : h # f => ephemeral'[h] = ephemeral[h]
    BY <2>1 DEF Tracked, FedType
  <2>4. EphemeralTracked'
    <3>1. ASSUME NEW i \in Ids(graph'), i \in EphId
          PROVE  \E h \in Fed : i \in ephemeral'[h]
      <4>1. PICK h \in Fed : i \in ephemeral[h]
        BY <2>2, <3>1 DEF Tracked, EphemeralTracked
      <4>2. h # f
        BY <2>2, <4>1, <3>1
      <4> QED
        BY <2>3, <4>1, <4>2
    <3> QED
      BY <3>1 DEF EphemeralTracked
  <2>5. FedType'
    BY <1>1, <2>1 DEF Tracked, FedType
  <2> QED
    BY <2>2, <2>4, <2>5 DEF Tracked, GraphType
<1> QED
  BY <1>2, <1>3

LEMMA TrackedStep ==
    ASSUME Tracked, [Next]_vars
    PROVE  Tracked'
<1>1. CASE UNCHANGED <<graph, sources, ephemeral>>
  BY <1>1, UnchangedTracked
<1>2. CASE ProgramStep
  <2>1. ASSUME NEW n \in NodeId, RemoveNode(n) PROVE Tracked'
    BY <2>1, RemovalTracked DEF RemoveNode, fedVars
  <2> QED
    BY <1>2, <2>1, AddNodeTracked DEF ProgramStep
<1>3. ASSUME NEW f \in Fed, FederatorStep(f) PROVE Tracked'
  BY <1>3, SourceTracked, QueryTracked, ClearTracked DEF FederatorStep
<1>4. CASE SyncerStep
  BY <1>1, <1>4 DEF SyncerStep, Sync, SyncRaises, fedVars
<1>5. CASE UNCHANGED vars
  BY <1>1, <1>5 DEF vars
<1> QED
  BY <1>2, <1>3, <1>4, <1>5 DEF Next

LEMMA TrackedInit ==
    ASSUME Init
    PROVE  Tracked
<1>1. graph = <<>> /\ DOMAIN graph = {} /\ graph \in Seq(Node)
  BY DEF Init
<1>2. IsGraph(graph) /\ Ids(graph) = {}
  BY <1>1 DEF IsGraph, Ids
<1>3. FedType
  BY DEF Init, FedType
<1> QED
  BY <1>2, <1>3 DEF Tracked, GraphType, EphemeralTracked

(* A node that a federator made and that is still in the graph is in some  *)
(* federator's set, whoever removes nodes and wherever a clear stops.      *)
THEOREM EphemeralAlwaysTracked == Spec => []EphemeralTracked
<1>1. Init => Tracked
  BY TrackedInit
<1>2. Tracked /\ [Next]_vars => Tracked'
  BY TrackedStep
<1>3. Tracked => EphemeralTracked
  BY DEF Tracked
<1> QED
  BY <1>1, <1>2, <1>3, PTL DEF Spec

-----------------------------------------------------------------------------
(* The collection.                                                         *)

(* sn is in st, from place i on.                                           *)
Placed(st, sn, i) ==
    /\ i \in Nat
    /\ i + Len(sn) <= Len(st)
    /\ \A j \in 1..Len(sn) : st[i + j] = sn[j]

(* After a complete upload the nodes of the last one are in the            *)
(* collection, side by side, and at its start where points have numbers.   *)
Kept ==
    snapshot # None =>
        /\ store # None
        /\ \E i \in Nat : Placed(store, snapshot, i)
                          /\ (backend # "weaviate" => i = 0)

LEMMA PlacedIsSubSeq ==
    ASSUME NEW st \in Seq(Node), NEW sn \in Seq(Node), NEW i \in Nat,
           Placed(st, sn, i)
    PROVE  SubSeq(st, i + 1, i + Len(sn)) = sn
<1> DEFINE a == i + 1
           b == i + Len(sn)
           q == SubSeq(st, a, b)
<1>1. Len(st) \in Nat /\ Len(sn) \in Nat /\ i + Len(sn) <= Len(st)
  BY LenProperties DEF Placed
<1>2. a \in Int /\ b \in Int /\ b - a + 1 = Len(sn)
  BY <1>1
<1>3. \A j \in a..b : st[j] \in Node
  <2>1. \A j \in a..b : j \in 1..Len(st)
    BY <1>1
  <2> QED
    BY <2>1, ElementOfSeq
<1>4. \A j \in 1..Len(sn) : a + j - 1 = i + j
  BY <1>1
<1> HIDE DEF a, b
<1>5. /\ q \in Seq(Node)
      /\ Len(q) = IF a <= b THEN b - a + 1 ELSE 0
      /\ \A j \in 1..b - a + 1 : q[j] = st[a + j - 1]
  BY <1>2, <1>3, SubSeqProperties
<1> HIDE DEF q
<1>6. Len(q) = Len(sn)
  BY <1>1, <1>2, <1>5
<1>7. \A j \in 1..Len(sn) : q[j] = sn[j]
  BY <1>2, <1>4, <1>5 DEF Placed
<1>8. q = sn
  BY <1>5, <1>6, <1>7, SeqEqual
<1> QED
  BY <1>8 DEF a, b, q

(* What is appended to the collection disturbs nothing that is there.      *)
LEMMA PlacedStays ==
    ASSUME NEW st \in Seq(Node), NEW t \in Seq(Node), NEW sn \in Seq(Node),
           NEW i \in Nat, Placed(st, sn, i)
    PROVE  Placed(st \o t, sn, i)
<1> DEFINE c == st \o t
<1>1. Len(st) \in Nat /\ Len(sn) \in Nat /\ Len(t) \in Nat
  BY LenProperties
<1>2. /\ Len(c) = Len(st) + Len(t)
      /\ \A j \in 1..Len(st) + Len(t) :
            c[j] = IF j <= Len(st) THEN st[j] ELSE t[j - Len(st)]
  BY ConcatProperties
<1> HIDE DEF c
<1>3. i + Len(sn) <= Len(c)
  BY <1>1, <1>2 DEF Placed
<1>4. \A j \in 1..Len(sn) : i + j \in 1..Len(st) + Len(t) /\ i + j <= Len(st)
  BY <1>1 DEF Placed
<1>5. \A j \in 1..Len(sn) : c[i + j] = sn[j]
  BY <1>2, <1>4 DEF Placed
<1>6. Placed(c, sn, i)
  BY <1>3, <1>5 DEF Placed
<1> QED
  BY <1>6 DEF c

(* What is appended is itself in the collection.                           *)
LEMMA PlacedLast ==
    ASSUME NEW st \in Seq(Node), NEW sn \in Seq(Node)
    PROVE  Placed(st \o sn, sn, Len(st))
<1> DEFINE c == st \o sn
<1>1. Len(st) \in Nat /\ Len(sn) \in Nat
  BY LenProperties
<1>2. /\ Len(c) = Len(st) + Len(sn)
      /\ \A j \in 1..Len(st) + Len(sn) :
            c[j] = IF j <= Len(st) THEN st[j] ELSE sn[j - Len(st)]
  BY ConcatProperties
<1> HIDE DEF c
<1>3. \A j \in 1..Len(sn) : /\ Len(st) + j \in 1..Len(st) + Len(sn)
                            /\ ~(Len(st) + j <= Len(st))
                            /\ (Len(st) + j) - Len(st) = j
  BY <1>1
<1>4. \A j \in 1..Len(sn) : c[Len(st) + j] = sn[j]
  BY <1>2, <1>3
<1>5. Placed(c, sn, Len(st))
  BY <1>1, <1>2, <1>4 DEF Placed
<1> QED
  BY <1>5 DEF c

LEMMA PlacedFirst ==
    ASSUME NEW sn \in Seq(Node), NEW t \in Seq(Node)
    PROVE  Placed(sn \o t, sn, 0)
<1>1. Placed(sn, sn, 0)
  <2>1. Len(sn) \in Nat
    BY LenProperties
  <2> QED
    BY <2>1 DEF Placed
<1> QED
  BY <1>1, PlacedStays

(* The part of a sequence from m on, which may be empty.                   *)
LEMMA PartType ==
    ASSUME NEW s \in Seq(Node), NEW m \in Nat, m > 0, NEW n \in Nat, n <= Len(s)
    PROVE  SubSeq(s, m, n) \in Seq(Node)
<1>1. \A i \in m..n : i \in 1..Len(s)
  OBVIOUS
<1>2. \A i \in m..n : s[i] \in Node
  BY <1>1, ElementOfSeq
<1>3. m \in Int /\ n \in Int
  OBVIOUS
<1> QED
  BY <1>2, <1>3, SubSeqProperties

LEMMA PointsType ==
    ASSUME DbType
    PROVE  Points \in Seq(Node)
BY DEF DbType, Points

Db == GraphType /\ DbType /\ Kept

LEMMA SyncKept ==
    ASSUME Db, Sync
    PROVE  DbType' /\ Kept'
<1> DEFINE was == Points
           rest == SubSeq(was, Len(graph) + 1, Len(was))
<1>1. was \in Seq(Node) /\ graph \in Seq(Node) /\ Len(graph) \in Nat /\ Len(was) \in Nat
  BY PointsType, LenProperties DEF Db, GraphType, IsGraph
<1>2. rest \in Seq(Node)
  <2>1. Len(graph) + 1 \in Nat /\ Len(graph) + 1 > 0
    BY <1>1
  <2> QED
    BY <1>1, <2>1, PartType
<1>3. snapshot' = graph /\ backend' = backend
  BY DEF Sync
<1>4. graph # None
  BY <1>1, ServicesAssumption
<1> HIDE DEF was, rest
<1>5. CASE backend = "weaviate"
  <2>1. store' = was \o graph
    BY <1>5 DEF Sync, Uploaded, was
  <2>2. store' \in Seq(Node)
    BY <1>1, <2>1, ConcatProperties
  <2>3. Placed(store', snapshot', Len(was))
    BY <1>1, <1>3, <2>1, PlacedLast
  <2>4. store' # None
    BY <2>2, ServicesAssumption
  <2>5. Kept'
    BY <1>1, <1>3, <1>5, <2>3, <2>4 DEF Kept
  <2>6. DbType'
    BY <1>1, <1>3, <2>2 DEF Db, DbType
  <2> QED
    BY <2>5, <2>6
<1>6. CASE backend # "weaviate"
  <2>1. store' = graph \o rest
    BY <1>6 DEF Sync, Uploaded, Upsert, was, rest
  <2>2. store' \in Seq(Node)
    BY <1>1, <1>2, <2>1, ConcatProperties
  <2>3. Placed(store', snapshot', 0)
    BY <1>1, <1>2, <1>3, <2>1, PlacedFirst
  <2>4. store' # None
    BY <2>2, ServicesAssumption
  <2>5. Kept'
    BY <1>3, <2>3, <2>4 DEF Kept
  <2>6. DbType'
    BY <1>1, <1>3, <2>2 DEF Db, DbType
  <2> QED
    BY <2>5, <2>6
<1> QED
  BY <1>5, <1>6

(* A sync that raises leaves the collection, makes it, or adds to it.      *)
LEMMA SyncRaisesKept ==
    ASSUME Db, SyncRaises
    PROVE  DbType' /\ Kept'
<1>1. snapshot' = snapshot /\ backend' = backend
  BY DEF SyncRaises
<1>2. CASE store' = store
  <2>1. DbType'
    BY <1>1, <1>2 DEF Db, DbType
  <2>2. Kept'
    BY <1>1, <1>2 DEF Db, Kept
  <2> QED
    BY <2>1, <2>2
<1>3. CASE store' = Points
  <2>1. Points \in Seq(Node)
    BY PointsType DEF Db
  <2>2. DbType'
    BY <1>1, <1>3, <2>1 DEF Db, DbType
  <2>3. snapshot # None => store' = store
    BY <1>3 DEF Db, Kept, Points
  <2>4. Kept'
    BY <1>1, <2>3 DEF Db, Kept
  <2> QED
    BY <2>2, <2>4
<1>4. ASSUME backend = "weaviate", NEW n \in Nat, n <= Len(graph),
             store' = Points \o SubSeq(graph, 1, n)
      PROVE  DbType' /\ Kept'
  <2> DEFINE t == SubSeq(graph, 1, n)
  <2>1. Points \in Seq(Node) /\ graph \in Seq(Node)
    BY PointsType DEF Db, GraphType, IsGraph
  <2>2. t \in Seq(Node)
    BY <1>4, <2>1, PartType
  <2> HIDE DEF t
  <2>3. store' = Points \o t
    BY <1>4 DEF t
  <2>4. store' \in Seq(Node)
    BY <2>1, <2>2, <2>3, ConcatProperties
  <2>5. store' # None
    BY <2>4, ServicesAssumption
  <2>6. DbType'
    BY <1>1, <2>4 DEF Db, DbType
  <2>7. ASSUME snapshot # None PROVE \E i \in Nat : Placed(store', snapshot', i)
    <3>1. PICK i \in Nat : Placed(store, snapshot, i)
      BY <2>7 DEF Db, Kept
    <3>2. Points = store /\ snapshot \in Seq(Node)
      BY <2>7 DEF Db, Kept, Points, DbType
    <3>3. Placed(Points \o t, snapshot, i)
      BY <2>1, <2>2, <3>1, <3>2, PlacedStays
    <3> QED
      BY <1>1, <2>3, <3>3
  <2>8. Kept'
    BY <1>1, <1>4, <2>5, <2>7 DEF Kept
  <2> QED
    BY <2>6, <2>8
<1>5. \A n \in 1..Least(Len(graph), MaxObjects - Len(Points)) :
         n \in Nat /\ n <= Len(graph)
  <2>1. Len(graph) \in Nat /\ Len(Points) \in Nat /\ MaxObjects \in Nat
    BY PointsType, LenProperties, ServicesAssumption DEF Db, GraphType, IsGraph
  <2> QED
    BY <2>1 DEF Least
<1> QED
  BY <1>2, <1>3, <1>4, <1>5 DEF SyncRaises

LEMMA DbUnchanged ==
    ASSUME Db, UNCHANGED dbVars
    PROVE  DbType' /\ Kept'
<1>1. backend' = backend /\ store' = store /\ snapshot' = snapshot
  BY DEF dbVars
<1>2. DbType'
  BY <1>1 DEF Db, DbType
<1>3. Kept'
  BY <1>1 DEF Db, Kept
<1> QED
  BY <1>2, <1>3

ServicesInv == Tracked /\ DbType /\ Kept

LEMMA ServicesStep ==
    ASSUME ServicesInv, [Next]_vars
    PROVE  ServicesInv'
<1>1. Tracked'
  BY TrackedStep DEF ServicesInv
<1>2. Db
  BY DEF ServicesInv, Db, Tracked
<1>3. DbType' /\ Kept'
  <2>1. CASE UNCHANGED vars
    BY <1>2, <2>1, DbUnchanged DEF vars, dbVars
  <2>2. CASE ProgramStep
    BY <1>2, <2>2, DbUnchanged DEF ProgramStep, AddNode, RemoveNode
  <2>3. ASSUME NEW f \in Fed, FederatorStep(f) PROVE UNCHANGED dbVars
    BY <2>3 DEF FederatorStep, AddExternalSource, VirtualQuery, ClearEphemeral,
                vars, dbVars
  <2>4. CASE SyncerStep
    BY <1>2, <2>4, SyncKept, SyncRaisesKept DEF SyncerStep
  <2> QED
    BY <1>2, <2>1, <2>2, <2>3, <2>4, DbUnchanged DEF Next
<1> QED
  BY <1>1, <1>3 DEF ServicesInv

LEMMA ServicesInit ==
    ASSUME Init
    PROVE  ServicesInv
<1>1. DbType /\ Kept
  BY DEF Init, DbType, Kept
<1> QED
  BY <1>1, TrackedInit DEF ServicesInv

(* Every variable keeps its type, and no id is ever twice in the graph.    *)
THEOREM ServicesTypeCorrect == Spec => []TypeOK
<1>1. ServicesInv => TypeOK
  BY TypeParts DEF ServicesInv, Tracked
<1>2. Init => ServicesInv
  BY ServicesInit
<1>3. ServicesInv /\ [Next]_vars => ServicesInv'
  BY ServicesStep
<1> QED
  BY <1>1, <1>2, <1>3, PTL DEF Spec

LEMMA KeptIsStored ==
    ASSUME ServicesInv
    PROVE  SyncedIsStored
<1> SUFFICES ASSUME snapshot # None
             PROVE  IF backend = "weaviate"
                    THEN \E i \in 0..Len(store) - Len(snapshot) :
                             SubSeq(store, i + 1, i + Len(snapshot)) = snapshot
                    ELSE SubSeq(store, 1, Len(snapshot)) = snapshot
  BY DEF SyncedIsStored
<1>1. PICK i \in Nat : Placed(store, snapshot, i) /\ (backend # "weaviate" => i = 0)
  BY DEF ServicesInv, Kept
<1>2. store \in Seq(Node) /\ snapshot \in Seq(Node)
  BY DEF ServicesInv, Kept, DbType
<1>3. Len(store) \in Nat /\ Len(snapshot) \in Nat
  BY <1>2, LenProperties
<1>4. SubSeq(store, i + 1, i + Len(snapshot)) = snapshot
  BY <1>1, <1>2, PlacedIsSubSeq
<1>5. i \in 0..Len(store) - Len(snapshot)
  BY <1>1, <1>3 DEF Placed
<1>6. i = 0 => i + 1 = 1 /\ i + Len(snapshot) = Len(snapshot)
  BY <1>3
<1> QED
  BY <1>1, <1>4, <1>5, <1>6

(* Whatever earlier syncs, attempts that raised and removals have left in  *)
(* the collection, every node of the last complete upload is there with    *)
(* the value it had then, at its own number where points have numbers.     *)
THEOREM SyncedAlwaysStored == Spec => []SyncedIsStored
<1>1. ServicesInv => SyncedIsStored
  BY KeptIsStored
<1>2. Init => ServicesInv
  BY ServicesInit
<1>3. ServicesInv /\ [Next]_vars => ServicesInv'
  BY ServicesStep
<1> QED
  BY <1>1, <1>2, <1>3, PTL DEF Spec

(* A search that fetches every point answers, when no more than k match,   *)
(* exactly the points that match.                                          *)
LEMMA SearchIsComplete ==
    ASSUME store \in Seq(Node), NEW text, NEW k \in 1..MaxK,
           Len(store) <= k * Over,
           Cardinality(Matching(DOMAIN store, text)) <= k,
           NEW hits \in HybridSearch(text, k)
    PROVE  hits = Matching(DOMAIN store, text)
<1> DEFINE all == DOMAIN store
<1>1. k \in Nat /\ Oversample(k) \in Nat /\ Oversample(k) = k * Over
  BY ServicesAssumption DEF Oversample
<1>2. Len(store) \in Nat /\ all = 1..Len(store)
  BY LenProperties
<1>3. IsFiniteSet(all) /\ Cardinality(all) = Len(store)
  <2> DEFINE n == Len(store)
  <2>1. 1 \in Int /\ n \in Int /\ n >= 0
    BY <1>2
  <2> HIDE DEF n
  <2>2. IsFiniteSet(1..n) /\ Cardinality(1..n) = IF 1 > n THEN 0 ELSE n - 1 + 1
    BY <2>1, FS_Interval
  <2>3. Cardinality(1..n) = n
    BY <2>1, <2>2
  <2> QED
    BY <1>2, <2>2, <2>3 DEF n
<1>4. PICK near \in Nearest(k) :
        /\ hits \in SUBSET Matching(near, text)
        /\ Cardinality(hits) = Least(k, Cardinality(Matching(near, text)))
  BY DEF HybridSearch
<1> HIDE DEF all
<1>5. near \in SUBSET all /\ Cardinality(near) = Least(Oversample(k), Len(store))
  BY DEF Nearest, all
<1>6. Least(Oversample(k), Len(store)) = Len(store)
  BY <1>1, <1>2 DEF Least
<1>7. near = all
  BY <1>3, <1>5, <1>6, FS_Subset
<1> DEFINE M == Matching(all, text)
<1>8. M \in SUBSET all
  BY DEF Matching
<1>9. IsFiniteSet(M) /\ Cardinality(M) \in Nat /\ Cardinality(M) <= k
  BY <1>3, <1>8, FS_Subset, FS_CardinalityType DEF all
<1> HIDE DEF M
<1>10. hits \in SUBSET M /\ Cardinality(hits) = Least(k, Cardinality(M))
  BY <1>4, <1>7 DEF M
<1>11. Cardinality(M) = Cardinality(hits)
  BY <1>1, <1>9, <1>10 DEF Least
<1>12. hits = M
  BY <1>9, <1>10, <1>11, FS_Subset
<1> QED
  BY <1>12 DEF M, all

LEMMA KeptIsFound ==
    ASSUME ServicesInv
    PROVE  SearchFindsSynced
<1> SUFFICES ASSUME snapshot # None, NEW text \in NodeId \cup Val, NEW k \in 1..MaxK,
                    Len(store) <= k * Over,
                    Cardinality(Matching(DOMAIN store, text)) <= k,
                    NEW hits \in HybridSearch(text, k), NEW i \in DOMAIN snapshot,
                    Shows(snapshot[i], text)
             PROVE  \E h \in hits : store[h] = snapshot[i]
  BY DEF SearchFindsSynced
<1>1. PICK p \in Nat : Placed(store, snapshot, p)
  BY DEF ServicesInv, Kept
<1>2. store \in Seq(Node) /\ snapshot \in Seq(Node)
  BY DEF ServicesInv, Kept, DbType
<1>3. hits = Matching(DOMAIN store, text)
  BY <1>2, SearchIsComplete
<1>4. /\ Len(store) \in Nat /\ Len(snapshot) \in Nat
      /\ i \in 1..Len(snapshot) /\ DOMAIN store = 1..Len(store)
  BY <1>2, LenProperties
<1>5. p + i \in DOMAIN store /\ store[p + i] = snapshot[i]
  BY <1>1, <1>4 DEF Placed
<1>6. p + i \in Matching(DOMAIN store, text)
  BY <1>5 DEF Matching
<1> QED
  BY <1>3, <1>5, <1>6

(* A search finds every node of the last sync that its text matches, past  *)
(* all leftovers, when the collection is no larger than what is fetched    *)
(* and no more than k points match.                                        *)
THEOREM SyncedAlwaysFound == Spec => []SearchFindsSynced
<1>1. ServicesInv => SearchFindsSynced
  BY KeptIsFound
<1>2. Init => ServicesInv
  BY ServicesInit
<1>3. ServicesInv /\ [Next]_vars => ServicesInv'
  BY ServicesStep
<1> QED
  BY <1>1, <1>2, <1>3, PTL DEF Spec
-----------------------------------------------------------------------------
(* PrunePolicies: what a prune takes.                                      *)
IsMemoryGraph(g) ==
    /\ g = [nodes |-> g.nodes, links |-> g.links]
    /\ g.nodes \in Seq(Memory)
    /\ g.links \subseteq ToSet(g.nodes) \X ToSet(g.nodes)

PruneInv ==
    /\ policy \in Policy
    /\ record \in [Memory -> Nat]
    /\ clock \in Nat
    /\ IsMemoryGraph(live)
    /\ \A g \in old : IsMemoryGraph(g)

LEMMA LeavingElements ==
    ASSUME NEW s \in Seq(Memory), NEW gone
    PROVE  ToSet(Leaving(s, gone)) = ToSet(s) \ gone
BY LeavingFacts DEF ToSet

LEMMA PrunedGraph ==
    ASSUME NEW g, IsMemoryGraph(g), NEW gone
    PROVE  IsMemoryGraph(Pruned(g, gone))
<1> DEFINE N == Leaving(g.nodes, gone)
           L == {l \in g.links : l[1] \notin gone /\ l[2] \notin gone}
           p == Pruned(g, gone)
<1>1. p = [nodes |-> N, links |-> L]
  BY DEF Pruned
<1>2. N \in Seq(Memory) /\ ToSet(N) = ToSet(g.nodes) \ gone
  BY LeavingFacts, LeavingElements DEF IsMemoryGraph
<1>3. L \subseteq ToSet(N) \X ToSet(N)
  BY <1>2 DEF IsMemoryGraph
<1> HIDE DEF N, L, p
<1>4. p.nodes = N /\ p.links = L
  BY <1>1
<1>5. IsMemoryGraph(p)
  BY <1>1, <1>2, <1>3, <1>4 DEF IsMemoryGraph
<1> QED
  BY <1>5 DEF p

LEMMA HeldGraph ==
    ASSUME PruneInv
    PROVE  IsMemoryGraph(Held) /\ (old = {} => Held = live)
<1>1. CASE old = {}
  BY <1>1 DEF Held, PruneInv
<1>2. CASE old # {}
  <2>1. Held \in old
    BY <1>2 DEF Held
  <2> QED
    BY <1>2, <2>1 DEF PruneInv
<1> QED
  BY <1>1, <1>2

LEMMA RememberKeeps ==
    ASSUME PruneInv, NEW n \in Memory, Remember(n)
    PROVE  PruneInv'
<1> DEFINE N == Append(live.nodes, n)
           p == [nodes |-> N, links |-> live.links]
<1>1. live' = p
  BY DEF Remember, PruneInv, IsMemoryGraph
<1>2. live.nodes \in Seq(Memory)
  BY DEF PruneInv, IsMemoryGraph
<1>3. N \in Seq(Memory)
  BY <1>2, AppendProperties
<1>4. ToSet(live.nodes) \subseteq ToSet(N)
  <2>1. ASSUME NEW i \in DOMAIN live.nodes PROVE live.nodes[i] \in ToSet(N)
    <3>1. i \in 1..Len(live.nodes) /\ Len(live.nodes) \in Nat
      BY <1>2, LenProperties
    <3>2. Len(N) = Len(live.nodes) + 1 /\ N[i] = live.nodes[i]
      BY <1>2, <3>1, AppendProperties
    <3>3. DOMAIN N = 1..Len(N)
      BY <1>3, LenProperties
    <3>4. i \in DOMAIN N
      BY <3>1, <3>2, <3>3
    <3> QED
      BY <3>2, <3>4 DEF ToSet
  <2> QED
    BY <2>1 DEF ToSet
<1>5. live.links \subseteq ToSet(live.nodes) \X ToSet(live.nodes)
  BY DEF PruneInv, IsMemoryGraph
<1>6. live.links \subseteq ToSet(N) \X ToSet(N)
  BY <1>4, <1>5
<1> HIDE DEF N
<1>7. p.nodes = N /\ p.links = live.links
  OBVIOUS
<1> HIDE DEF p
<1>8. p = [nodes |-> p.nodes, links |-> p.links]
  BY <1>7 DEF p
<1>9. IsMemoryGraph(p)
  BY <1>3, <1>6, <1>7, <1>8 DEF IsMemoryGraph
<1>10. IsMemoryGraph(live')
  BY <1>1, <1>9
<1> QED
  BY <1>10 DEF Remember, PruneInv, IsMemoryGraph

LEMMA JoinKeeps ==
    ASSUME PruneInv, NEW p \in Pair, Join(p)
    PROVE  PruneInv'
<1> DEFINE L == live.links \cup {p}
           q == [nodes |-> live.nodes, links |-> L]
<1>1. live' = q
  BY DEF Join, PruneInv, IsMemoryGraph
<1>2. p \in Memory \X Memory /\ p = <<p[1], p[2]>>
  BY PruneAssumption
<1>3. p \in ToSet(live.nodes) \X ToSet(live.nodes)
  BY <1>2 DEF Join
<1>4. L \subseteq ToSet(live.nodes) \X ToSet(live.nodes)
  BY <1>3 DEF PruneInv, IsMemoryGraph
<1> HIDE DEF L
<1>5. q.nodes = live.nodes /\ q.links = L
  OBVIOUS
<1> HIDE DEF q
<1>6. q = [nodes |-> q.nodes, links |-> q.links]
  BY <1>5 DEF q
<1>7. IsMemoryGraph(q)
  BY <1>4, <1>5, <1>6 DEF PruneInv, IsMemoryGraph
<1>8. IsMemoryGraph(live')
  BY <1>1, <1>7
<1> QED
  BY <1>8 DEF Join, PruneInv, IsMemoryGraph

LEMMA PruneKeeps ==
    ASSUME PruneInv, NEW count, NEW r, Prune(count, r)
    PROVE  PruneInv'
<1>1. IsMemoryGraph(live')
  BY HeldGraph, PrunedGraph DEF Prune
<1>2. \A g \in old' : IsMemoryGraph(g)
  BY HeldGraph DEF Prune
<1>3. UNCHANGED <<policy, record, clock>>
  BY DEF Prune
<1>4. IsMemoryGraph(live)' /\ (\A g \in old : IsMemoryGraph(g))'
  BY <1>1, <1>2 DEF IsMemoryGraph
<1> QED
  BY <1>3, <1>4 DEF PruneInv

LEMMA PruneInvStep ==
    ASSUME PruneInv, [PruneNext]_pruneVars
    PROVE  PruneInv'
<1>1. CASE ClockTicks
  BY <1>1 DEF ClockTicks, PruneInv, IsMemoryGraph
<1>2. ASSUME NEW n \in Memory, Touch(n) PROVE PruneInv'
  <2>1. record[n] + 1 \in Nat /\ clock \in Nat
    BY DEF PruneInv
  <2>2. record' \in [Memory -> Nat]
    BY <1>2, <2>1 DEF Touch, PruneInv
  <2> QED
    BY <1>2, <2>2 DEF Touch, PruneInv, IsMemoryGraph
<1>3. CASE UNCHANGED pruneVars
  BY <1>3 DEF pruneVars, PruneInv, IsMemoryGraph
<1> QED
  BY <1>1, <1>2, <1>3, RememberKeeps, JoinKeeps, PruneKeeps DEF PruneNext

-----------------------------------------------------------------------------
(* The order of a prune, and how many come before a node.                  *)
Earlier(g, n) == {m \in Eligible(g) : Before(g, m, n)}
Rank(g, n) == Cardinality(Earlier(g, n))

LEMMA SelectByRank ==
    ASSUME NEW g, NEW count
    PROVE  SelectNodesToPrune(g, count) = {n \in Eligible(g) : Rank(g, n) < count}
BY DEF SelectNodesToPrune, Rank, Earlier

LEMMA PlaceType ==
    ASSUME NEW g, IsMemoryGraph(g), NEW n \in ToSet(g.nodes)
    PROVE  Place(g, n) \in Nat /\ g.nodes[Place(g, n)] = n
<1>1. \E i \in DOMAIN g.nodes : g.nodes[i] = n
  BY DEF ToSet
<1>2. Place(g, n) \in DOMAIN g.nodes /\ g.nodes[Place(g, n)] = n
  BY <1>1 DEF Place
<1>3. DOMAIN g.nodes = 1..Len(g.nodes)
  BY LenProperties DEF IsMemoryGraph
<1> QED
  BY <1>2, <1>3

(* Before is a strict total order on the nodes of a graph.                 *)
LEMMA BeforeIsOrder ==
    ASSUME PruneInv, NEW g, IsMemoryGraph(g)
    PROVE  /\ \A n \in ToSet(g.nodes) : ~Before(g, n, n)
           /\ \A n, m \in ToSet(g.nodes) : n # m => Before(g, n, m) \/ Before(g, m, n)
           /\ \A n, m, l \in ToSet(g.nodes) :
                 Before(g, n, m) /\ Before(g, m, l) => Before(g, n, l)
<1>1. \A n \in ToSet(g.nodes) : n \in Memory
  <2>1. g.nodes \in Seq(Memory)
    BY DEF IsMemoryGraph
  <2>2. \A i \in DOMAIN g.nodes : g.nodes[i] \in Memory
    BY <2>1, LenProperties, ElementOfSeq
  <2> QED
    BY <2>2 DEF ToSet
<1>2. \A n \in ToSet(g.nodes) : record[n] \in Nat /\ Place(g, n) \in Nat
  BY <1>1, PlaceType DEF PruneInv
<1>3. \A n, m \in ToSet(g.nodes) : n # m => Place(g, n) # Place(g, m)
  BY PlaceType
<1>4. \A n \in ToSet(g.nodes) : ~Before(g, n, n)
  BY <1>2 DEF Before
<1>5. \A n, m \in ToSet(g.nodes) : n # m => Before(g, n, m) \/ Before(g, m, n)
  BY <1>2, <1>3 DEF Before
<1>6. \A n, m, l \in ToSet(g.nodes) :
         Before(g, n, m) /\ Before(g, m, l) => Before(g, n, l)
  BY <1>2 DEF Before
<1> QED
  BY <1>4, <1>5, <1>6

LEMMA EligibleFinite ==
    ASSUME NEW g, IsMemoryGraph(g)
    PROVE  /\ Eligible(g) \subseteq ToSet(g.nodes)
           /\ \A S \in SUBSET Eligible(g) : IsFiniteSet(S) /\ Cardinality(S) \in Nat
<1> DEFINE s == g.nodes
<1>1. DOMAIN s = 1..Len(s) /\ Len(s) \in Nat
  BY LenProperties DEF IsMemoryGraph
<1>2. IsFiniteSet(DOMAIN s)
  BY <1>1, FS_Interval
<1>3. IsFiniteSet(ToSet(s))
  <2> DEFINE f == [i \in DOMAIN s |-> s[i]]
  <2>1. f \in Surjection(DOMAIN s, ToSet(s))
    BY DEF Surjection, ToSet
  <2> QED
    BY <1>2, <2>1, FS_Surjection
<1>4. Eligible(g) \subseteq ToSet(s)
  BY DEF Eligible
<1>5. \A S \in SUBSET Eligible(g) : S \in SUBSET ToSet(s)
  BY <1>4
<1>6. \A S \in SUBSET Eligible(g) : IsFiniteSet(S)
  BY <1>3, <1>5, FS_Subset
<1> QED
  BY <1>4, <1>6, FS_CardinalityType

(* The rank grows along the order.                                         *)
LEMMA RankGrows ==
    ASSUME PruneInv, NEW g, IsMemoryGraph(g),
           NEW n \in Eligible(g), NEW m \in Eligible(g), Before(g, n, m)
    PROVE  Rank(g, n) < Rank(g, m)
<1> DEFINE A == Earlier(g, n)
           B == Earlier(g, m)
<1>1. Eligible(g) \subseteq ToSet(g.nodes)
  BY EligibleFinite
<1>2. A \in SUBSET Eligible(g) /\ B \in SUBSET Eligible(g)
  BY DEF Earlier
<1>3. A \subseteq B
  BY <1>1, BeforeIsOrder DEF Earlier
<1>4. n \in B /\ n \notin A
  BY <1>1, BeforeIsOrder DEF Earlier
<1> HIDE DEF A, B
<1>5. /\ IsFiniteSet(A) /\ Cardinality(A) \in Nat
      /\ IsFiniteSet(B) /\ Cardinality(B) \in Nat
  BY <1>2, EligibleFinite
<1>6. Cardinality(A) <= Cardinality(B) /\ (Cardinality(B) = Cardinality(A) => B = A)
  BY <1>3, <1>5, FS_Subset
<1>7. Cardinality(A) < Cardinality(B)
  BY <1>4, <1>5, <1>6
<1> QED
  BY <1>7 DEF Rank, A, B

LEMMA RankType ==
    ASSUME NEW g, IsMemoryGraph(g), NEW n
    PROVE  Rank(g, n) \in Nat
<1>1. Earlier(g, n) \in SUBSET Eligible(g)
  BY DEF Earlier
<1> QED
  BY <1>1, EligibleFinite DEF Rank

(* No two have the same rank, so no more than count have one below count.  *)
LEMMA AtMostCount ==
    ASSUME PruneInv, NEW g, IsMemoryGraph(g), NEW count \in Nat
    PROVE  Cardinality(SelectNodesToPrune(g, count)) <= count
<1> DEFINE G == SelectNodesToPrune(g, count)
           R == 0..count - 1
           f == [n \in G |-> Rank(g, n)]
<1>1. G = {n \in Eligible(g) : Rank(g, n) < count}
  BY SelectByRank
<1> HIDE DEF G
<1>2. \A n \in G : n \in Eligible(g) /\ Rank(g, n) \in R
  BY <1>1, RankType
<1>3. f \in [G -> R]
  BY <1>2
<1>4. \A n, m \in G : f[n] = f[m] => n = m
  <2>1. ASSUME NEW n \in G, NEW m \in G, n # m PROVE f[n] # f[m]
    <3>1. Before(g, n, m) \/ Before(g, m, n)
      BY <1>2, <2>1, BeforeIsOrder, EligibleFinite
    <3>2. Rank(g, n) < Rank(g, m) \/ Rank(g, m) < Rank(g, n)
      BY <1>2, <3>1, RankGrows
    <3>3. Rank(g, n) \in Nat /\ Rank(g, m) \in Nat
      BY RankType
    <3> QED
      BY <3>2, <3>3
  <2> QED
    BY <2>1
<1> HIDE DEF f, R
<1>5. f \in Injection(G, R)
  BY <1>3, <1>4 DEF Injection, IsInjective
<1>6. IsFiniteSet(R) /\ Cardinality(R) = count
  <2>1. 0 \in Int /\ count - 1 \in Int
    OBVIOUS
  <2>2. /\ IsFiniteSet(0..count - 1)
        /\ Cardinality(0..count - 1) = IF 0 > count - 1 THEN 0 ELSE (count - 1) - 0 + 1
    BY <2>1, FS_Interval
  <2>3. Cardinality(0..count - 1) = count
    BY <2>2
  <2> QED
    BY <2>2, <2>3 DEF R
<1>7. Cardinality(G) <= Cardinality(R)
  BY <1>5, <1>6, FS_Injection
<1>8. Cardinality(G) <= count
  BY <1>6, <1>7
<1> QED
  BY <1>8 DEF G

(* One that is left over has count before it; the first such has all of    *)
(* them taken.                                                             *)
LEMMA AsManyAsCan ==
    ASSUME PruneInv, NEW g, IsMemoryGraph(g), NEW count \in Nat,
           NEW m \in Eligible(g), m \notin SelectNodesToPrune(g, count)
    PROVE  Cardinality(SelectNodesToPrune(g, count)) >= count
<1> DEFINE G == SelectNodesToPrune(g, count)
           rest == Eligible(g) \ G
           T == {Rank(g, n) : n \in rest}
<1>1. G = {n \in Eligible(g) : Rank(g, n) < count}
  BY SelectByRank
<1>2. T \in SUBSET Nat /\ T # {}
  BY RankType
<1>3. PICK least \in T : \A n \in T : least <= n
  BY <1>2, LeastNumber
<1>4. PICK l \in rest : least = Rank(g, l)
  BY <1>3
<1>5. \A n \in rest : Rank(g, n) \in Nat /\ Rank(g, l) <= Rank(g, n)
  BY <1>3, <1>4, RankType
<1> HIDE DEF G, T
<1>6. Earlier(g, l) \subseteq G
  <2>1. ASSUME NEW p \in Earlier(g, l), p \notin G PROVE FALSE
    <3>1. p \in rest /\ Before(g, p, l)
      BY <2>1 DEF Earlier
    <3>2. Rank(g, p) < Rank(g, l)
      BY <3>1, RankGrows
    <3>3. Rank(g, p) \in Nat /\ Rank(g, l) \in Nat
      BY RankType
    <3> QED
      BY <1>5, <3>1, <3>2, <3>3
  <2> QED
    BY <2>1
<1>7. Rank(g, l) >= count
  BY <1>1, <1>4, RankType
<1>8. G \in SUBSET Eligible(g)
  BY <1>1
<1>9. IsFiniteSet(G) /\ Cardinality(G) \in Nat
  BY <1>8, EligibleFinite
<1>10. Rank(g, l) <= Cardinality(G)
  BY <1>6, <1>9, FS_Subset DEF Rank
<1>11. Cardinality(G) >= count
  BY <1>7, <1>9, <1>10, RankType
<1> QED
  BY <1>11 DEF G

(* Who stays behind one that is taken has been used as recently, or as     *)
(* often, or may not be taken at all.                                      *)
LEMMA TakenLeast ==
    ASSUME PruneInv, NEW g, IsMemoryGraph(g), NEW count \in Nat,
           NEW n \in SelectNodesToPrune(g, count), NEW m \in ToSet(g.nodes),
           m \notin SelectNodesToPrune(g, count)
    PROVE  record[n] <= record[m]
<1>1. n \in Eligible(g) /\ Rank(g, n) < count
  BY SelectByRank
<1>2. n \in ToSet(g.nodes)
  BY <1>1, EligibleFinite
<1>3. ToSet(g.nodes) \subseteq Memory
  <2>1. g.nodes \in Seq(Memory)
    BY DEF IsMemoryGraph
  <2>2. \A i \in DOMAIN g.nodes : g.nodes[i] \in Memory
    BY <2>1, LenProperties, ElementOfSeq
  <2> QED
    BY <2>2 DEF ToSet
<1>4. /\ record[n] \in Nat /\ record[m] \in Nat /\ clock \in Nat
      /\ Ttl \in Nat /\ MinAccesses \in Nat
  BY <1>2, <1>3, PruneAssumption DEF PruneInv
<1>5. CASE m \in Eligible(g)
  <2>1. ~(Rank(g, m) < count)
    BY <1>5, SelectByRank
  <2>2. ~Before(g, m, n)
    BY <1>1, <1>5, <2>1, RankGrows, RankType
  <2> QED
    BY <1>4, <2>2 DEF Before
<1>6. CASE m \notin Eligible(g)
  BY <1>1, <1>4, <1>6 DEF Eligible
<1> QED
  BY <1>5, <1>6

LEMMA PruneTakes ==
    ASSUME PruneInv, NEW count \in Nat, NEW r \in BOOLEAN, Prune(count, r), old = {}
    PROVE  TakesLeastUsed(count)
<1> DEFINE G == SelectNodesToPrune(live, count)
           N == ToSet(live.nodes)
           stay == ToSet(live'.nodes)
           due(n) == /\ policy = "ttl" => clock > record[n] + Ttl
                     /\ policy = "count" => record[n] < MinAccesses
<1>1. IsMemoryGraph(live) /\ live.nodes \in Seq(Memory)
  BY DEF PruneInv, IsMemoryGraph
<1>2. live' = Pruned(live, G)
  BY HeldGraph DEF Prune
<1>3. stay = N \ G
  BY <1>1, <1>2, LeavingElements DEF Pruned
<1>4. G \subseteq Eligible(live) /\ Eligible(live) \subseteq N
  BY <1>1, SelectByRank, EligibleFinite
<1>5. \A n \in N : record[n] \in Nat
  <2>1. \A i \in DOMAIN live.nodes : live.nodes[i] \in Memory
    BY <1>1, LenProperties, ElementOfSeq
  <2> QED
    BY <2>1 DEF ToSet, PruneInv
<1>6. \A n \in N : due(n) <=> n \in Eligible(live)
  BY <1>5, PruneAssumption DEF Eligible, PruneInv
<1> HIDE DEF due
<1>7. Cardinality(G) <= count
  BY <1>1, AtMostCount
<1>8. \A n \in G : due(n) /\ \A m \in N \ G : record[n] <= record[m]
  BY <1>1, <1>4, <1>6, TakenLeast
<1>9. Cardinality(G) < count => ~\E m \in N \ G : due(m)
  <2>1. ASSUME NEW m \in N \ G, due(m) PROVE ~(Cardinality(G) < count)
    <3>1. m \in Eligible(live)
      BY <1>6, <2>1
    <3>2. Cardinality(G) >= count
      BY <1>1, <2>1, <3>1, AsManyAsCan
    <3>3. Cardinality(G) \in Nat
      BY <1>1, <1>4, EligibleFinite
    <3> QED
      BY <3>2, <3>3
  <2> QED
    BY <2>1
<1>10. live'.links = {l \in live.links : l[1] \notin G /\ l[2] \notin G}
  BY <1>2 DEF Pruned
<1>11. live.links \subseteq N \X N
  BY <1>1 DEF IsMemoryGraph
<1> HIDE DEF G, N
<1>12. live'.links = live.links \cap ((N \ G) \X (N \ G))
  BY <1>10, <1>11
<1>13. N \ stay = G
  BY <1>3, <1>4
<1> QED
  BY <1>3, <1>7, <1>8, <1>9, <1>12, <1>13 DEF TakesLeastUsed, due, N

(* A prune by a lifecycle of the live graph takes no more than count       *)
(* nodes; by time, none used within the time to live; by count, none used  *)
(* often enough; never a node while one used less recently, or less often, *)
(* stays; and fewer than count only when no other may be taken.            *)
THEOREM PruneAlwaysTakesLeastUsed == PruneSpec => PruneTakesLeastUsed
<1>1. PruneInit => PruneInv
  <2> SUFFICES ASSUME PruneInit PROVE PruneInv
    OBVIOUS
  <2>1. live = [nodes |-> <<>>, links |-> {}] /\ old = {}
    BY DEF PruneInit, NoGraph
  <2>2. live.nodes = <<>> /\ live.links = {}
    BY <2>1
  <2>3. IsMemoryGraph(live)
    BY <2>1, <2>2 DEF IsMemoryGraph
  <2> QED
    BY <2>1, <2>3, PruneAssumption DEF PruneInit, PruneInv
<1>2. PruneInv /\ [PruneNext]_pruneVars => PruneInv'
  BY PruneInvStep
<1>3. PruneInv =>
        [\A count \in 0..Cardinality(Memory), r \in BOOLEAN :
            (Prune(count, r) /\ old = {}) => TakesLeastUsed(count)]_pruneVars
  <2>1. \A count \in 0..Cardinality(Memory) : count \in Nat
    OBVIOUS
  <2> QED
    BY <2>1, PruneTakes
<1> QED
  BY <1>1, <1>2, <1>3, PTL DEF PruneSpec, PruneTakesLeastUsed
-----------------------------------------------------------------------------
(* ClaimVerifier: the search for a path, and the proof of a verdict.       *)

(* A loop of n rounds from a, whose i-th round turns v into step[v, i]: if *)
(* no round leaves the set V, the loop has a value in V after each.        *)
StaysIn(step, V, n) == \A v \in V, i \in 1..n : step[<<v, i>>] \in V

Iterates(f, step, a, n) ==
    f[0] = a /\ \A i \in 1..n : f[i] = step[<<f[i - 1], i>>]

LEMMA LoopRuns ==
    ASSUME NEW V, NEW a \in V, NEW n \in Nat, NEW step, StaysIn(step, V, n)
    PROVE  \E f \in [0..n -> V] : Iterates(f, step, a, n)
<1> USE DEF StaysIn, Iterates
<1> DEFINE Runs(f, k) ==
               f[0] = a /\ \A i \in 1..k : f[i] = step[<<f[i - 1], i>>]
           T == {k \in Nat : k <= n /\ ~\E f \in [0..k -> V] : Runs(f, k)}
           Ran(k) == \E f \in [0..k -> V] : Runs(f, k)
<1>0. T \subseteq Nat /\ \A k \in Nat : k \in T <=> k <= n /\ ~Ran(k)
  OBVIOUS
<1>1. ASSUME NEW k \in T PROVE FALSE
  <2> HIDE DEF T, Ran
  <2>1. PICK least \in T : \A m \in T : least <= m
    BY <1>0, <1>1, LeastNumber
  <2>2. CASE least = 0
    <3>1. [i \in 0..0 |-> a] \in [0..0 -> V] /\ Runs([i \in 0..0 |-> a], 0)
      OBVIOUS
    <3> QED
      BY <1>0, <2>1, <2>2, <3>1 DEF Ran
  <2>3. CASE least > 0
    <3>1. least - 1 \in Nat /\ least - 1 <= n /\ least - 1 \notin T /\ least \in 1..n
      BY <1>0, <2>1, <2>3
    <3>2. PICK f \in [0..least - 1 -> V] : Runs(f, least - 1)
      BY <1>0, <3>1 DEF Ran
    <3> DEFINE g == [i \in 0..least |->
                        IF i = least THEN step[<<f[least - 1], least>>] ELSE f[i]]
    <3>3. \A i \in 0..least - 1 : g[i] = f[i]
      BY <3>1
    <3>4. g[least] = step[<<f[least - 1], least>>] /\ g[least] \in V
      BY <3>1, <3>2
    <3>5. g \in [0..least -> V]
      <4>1. \A i \in 0..least : i = least \/ i \in 0..least - 1
        BY <3>1
      <4>2. \A i \in 0..least : g[i] \in V
        BY <3>2, <3>3, <3>4, <4>1
      <4>3. g = [i \in 0..least |-> g[i]]
        OBVIOUS
      <4> HIDE DEF g
      <4> QED
        BY <4>2, <4>3
    <3> HIDE DEF g
    <3>6. \A i \in 1..least : g[i] = step[<<g[i - 1], i>>]
      <4>1. ASSUME NEW i \in 1..least PROVE g[i] = step[<<g[i - 1], i>>]
        <5>0. least \in Nat /\ i \in Nat /\ 1 <= i /\ i <= least
          BY <3>1
        <5>1. /\ i - 1 \in 0..least - 1
              /\ i = least \/ (i \in 1..least - 1 /\ i \in 0..least - 1)
          BY <5>0
        <5>2. g[i - 1] = f[i - 1]
          BY <3>3, <5>1
        <5>3. CASE i = least
          BY <3>4, <5>2, <5>3
        <5>4. CASE i \in 1..least - 1 /\ i \in 0..least - 1
          BY <3>2, <3>3, <5>2, <5>4
        <5> QED
          BY <5>1, <5>3, <5>4
      <4> QED
        BY <4>1
    <3>7. g[0] = a
      BY <3>1, <3>2, <3>3
    <3> QED
      BY <1>0, <2>1, <3>5, <3>6, <3>7 DEF Ran
  <2> QED
    BY <1>0, <2>1, <2>2, <2>3
<1> HIDE DEF T, Runs
<1>2. Ran(n)
  BY <1>0, <1>1 DEF Ran
<1> QED
  BY <1>2 DEF Ran, Runs

(* Induction up to n, as a fact about sets of numbers.                     *)
LEMMA UpTo ==
    ASSUME NEW n \in Nat, NEW G, 0 \in G, \A k \in 1..n : k - 1 \in G => k \in G
    PROVE  \A k \in 0..n : k \in G
<1> DEFINE T == {k \in Nat : k <= n /\ k \notin G}
<1>1. ASSUME NEW k \in T PROVE FALSE
  <2>1. PICK least \in T : \A m \in T : least <= m
    BY <1>1, LeastNumber
  <2>2. least \in 1..n /\ least - 1 \in Nat /\ least - 1 <= n
    BY <2>1
  <2>3. least - 1 \notin T
    BY <2>1, <2>2
  <2> QED
    BY <2>1, <2>2, <2>3
<1> QED
  BY <1>1

(* What stays true of the graph: edges are between its nodes, which are    *)
(* finitely many.                                                          *)
VerifierInv ==
    /\ things \in SUBSET Thing /\ IsFiniteSet(things)
    /\ facts \in Seq(Fact)
    /\ \A j \in DOMAIN facts : facts[j].src \in things /\ facts[j].dst \in things

Linked(n, m) == \E j \in DOMAIN facts : facts[j].src = n /\ facts[j].dst = m

LEMMA BetweenFacts ==
    ASSUME VerifierInv, NEW s, NEW o
    PROVE  /\ FactsBetween(s, o) \in Seq(Fact)
           /\ \A k \in DOMAIN FactsBetween(s, o) :
                 /\ FactsBetween(s, o)[k] \in ToSet(facts)
                 /\ FactsBetween(s, o)[k].src = s /\ FactsBetween(s, o)[k].dst = o
           /\ FactsBetween(s, o) # <<>> <=> Linked(s, o)
<1> DEFINE X == {f \in Fact : f.src # s \/ f.dst # o}
           w == Leaving(facts, X)
<1>1. facts \in Seq(Fact)
  BY DEF VerifierInv
<1>2. \A j \in DOMAIN facts : facts[j] \in Fact
  BY <1>1
<1>3. \A f \in Fact : f \notin X <=> f.src = s /\ f.dst = o
  OBVIOUS
<1> HIDE DEF X
<1>4. /\ w \in Seq(Fact)
      /\ \A k \in DOMAIN w : w[k] \notin X /\ \E j \in DOMAIN facts : w[k] = facts[j]
      /\ \A j \in DOMAIN facts : facts[j] \notin X => \E k \in DOMAIN w : w[k] = facts[j]
  BY <1>1, LeavingFacts
<1> HIDE DEF w
<1>5. \A k \in DOMAIN w : w[k] \in ToSet(facts) /\ w[k].src = s /\ w[k].dst = o
  BY <1>2, <1>3, <1>4 DEF ToSet
<1>6. w # <<>> <=> \E k \in DOMAIN w : TRUE
  BY <1>4
<1>7. w # <<>> <=> Linked(s, o)
  BY <1>2, <1>3, <1>4, <1>5, <1>6 DEF Linked
<1>8. FactsBetween(s, o) = w
  BY DEF FactsBetween, w, X
<1> QED
  BY <1>4, <1>5, <1>7, <1>8

(* What the loop over neighbors has met after i edges.                     *)
MetInv(new, n, visited, i) ==
    /\ new \in Seq(Thing)
    /\ \A k, l \in DOMAIN new : new[k] = new[l] => k = l
    /\ \A k \in DOMAIN new : new[k] \notin visited /\ Linked(n, new[k])
    /\ \A j \in 1..i : facts[j].src = n =>
          facts[j].dst \in visited \/ \E k \in DOMAIN new : new[k] = facts[j].dst

LEMMA MetKeeps ==
    ASSUME VerifierInv, NEW n, NEW visited, NEW i \in 1..Len(facts),
           NEW new, MetInv(new, n, visited, i - 1)
    PROVE  MetInv(Met(new, n, visited, facts[i]), n, visited, i)
<1> DEFINE f == facts[i]
<1>1. /\ facts \in Seq(Fact) /\ i \in DOMAIN facts /\ f \in Fact /\ f.dst \in Thing
      /\ Len(facts) \in Nat
  <2>1. facts \in Seq(Fact)
    BY DEF VerifierInv
  <2>2. i \in DOMAIN facts /\ f \in Fact /\ Len(facts) \in Nat
    BY <2>1
  <2> QED
    BY <2>1, <2>2 DEF Fact
<1>2. new \in Seq(Thing) /\ ToSet(new) = {new[k] : k \in DOMAIN new}
  BY DEF MetInv, ToSet
<1>3. \A j \in 1..i : j = i \/ j \in 1..i - 1
  BY <1>1
<1> HIDE DEF f
<1>4. CASE f.src = n /\ f.dst \notin visited \cup ToSet(new)
  <2> DEFINE w == Append(new, f.dst)
  <2>1. /\ w \in Seq(Thing) /\ DOMAIN w = 1..Len(new) + 1 /\ DOMAIN new = 1..Len(new)
        /\ \A k \in 1..Len(new) : w[k] = new[k]
        /\ w[Len(new) + 1] = f.dst /\ Len(new) \in Nat
    BY <1>1, <1>2, AppendProperties
  <2> HIDE DEF w
  <2>2. \A k \in DOMAIN w : k = Len(new) + 1 \/ k \in DOMAIN new
    BY <2>1
  <2>3. Linked(n, f.dst)
    BY <1>1, <1>4 DEF Linked, f
  <2>4. \A k, l \in DOMAIN w : w[k] = w[l] => k = l
    BY <1>2, <1>4, <2>1, <2>2 DEF MetInv
  <2>5. \A k \in DOMAIN w : w[k] \notin visited /\ Linked(n, w[k])
    BY <1>4, <2>1, <2>2, <2>3 DEF MetInv
  <2>6. \A k \in DOMAIN new : k \in DOMAIN w /\ w[k] = new[k]
    BY <2>1
  <2>7. Len(new) + 1 \in DOMAIN w
    BY <2>1
  <2>8. \A j \in 1..i : facts[j].src = n =>
           facts[j].dst \in visited \/ \E k \in DOMAIN w : w[k] = facts[j].dst
    BY <1>3, <2>1, <2>6, <2>7 DEF MetInv, f
  <2>9. Met(new, n, visited, f) = w
    BY <1>4 DEF Met, w
  <2> QED
    BY <2>1, <2>4, <2>5, <2>8, <2>9 DEF MetInv, f
<1>5. CASE ~(f.src = n /\ f.dst \notin visited \cup ToSet(new))
  <2>1. Met(new, n, visited, f) = new
    BY <1>5 DEF Met
  <2>2. f.src = n => f.dst \in visited \/ \E k \in DOMAIN new : new[k] = f.dst
    BY <1>2, <1>5
  <2> QED
    BY <1>3, <2>1, <2>2 DEF MetInv, f
<1> QED
  BY <1>4, <1>5

LEMMA NewNeighborsFacts ==
    ASSUME VerifierInv, NEW n, NEW visited
    PROVE  MetInv(NewNeighbors(n, visited), n, visited, Len(facts))
<1> DEFINE len == Len(facts)
           Met1(g, i) == IF i = 0 THEN <<>> ELSE Met(g[i - 1], n, visited, facts[i])
           Unfolded(g) == g = [i \in 0..len |->
                                  IF i = 0 THEN <<>> ELSE Met(g[i - 1], n, visited, facts[i])]
           c == CHOOSE g : Unfolded(g)
           step == [p \in Seq(Thing) \X (1..len) |-> Met(p[1], n, visited, facts[p[2]])]
<1>1. facts \in Seq(Fact) /\ len \in Nat /\ \A i \in 1..len : facts[i].dst \in Thing
  BY DEF VerifierInv, Fact
<1>2. \A new \in Seq(Thing), i \in 1..len :
         step[<<new, i>>] = Met(new, n, visited, facts[i])
  OBVIOUS
<1>3. \A new \in Seq(Thing), i \in 1..len : step[<<new, i>>] \in Seq(Thing)
  <2>1. \A new \in Seq(Thing), i \in 1..len : Met(new, n, visited, facts[i]) \in Seq(Thing)
    BY <1>1, AppendProperties DEF Met
  <2> QED
    BY <1>2, <2>1
<1> HIDE DEF step
<1>4. PICK f \in [0..len -> Seq(Thing)] :
         f[0] = <<>> /\ \A i \in 1..len : f[i] = step[<<f[i - 1], i>>]
  <2> DEFINE V == Seq(Thing)
             a == <<>>
  <2>1. a \in V
    OBVIOUS
  <2>2. StaysIn(step, V, len) /\ len \in Nat
    BY <1>1, <1>3 DEF StaysIn
  <2> HIDE DEF len, V, a
  <2>3. \E f \in [0..len -> V] : Iterates(f, step, a, len)
    BY <2>1, <2>2, LoopRuns
  <2> QED
    BY <2>3 DEF V, a, Iterates
<1>5. Unfolded(f)
  <2>1. ASSUME NEW i \in 1..len PROVE f[i] = Met(f[i - 1], n, visited, facts[i])
    <3>1. i - 1 \in 0..len
      BY <1>1
    <3>2. f[i - 1] \in Seq(Thing)
      BY <1>4, <3>1
    <3> QED
      BY <1>2, <1>4, <3>2
  <2>2. \A i \in 0..len : i = 0 \/ i \in 1..len
    BY <1>1
  <2>3. \A i \in 0..len : f[i] = Met1(f, i)
    BY <1>1, <1>4, <2>1, <2>2
  <2>4. f = [i \in 0..len |-> f[i]]
    BY <1>4
  <2> QED
    BY <2>3, <2>4
<1>6. Unfolded(c)
  <2> HIDE DEF Unfolded
  <2> QED
    BY <1>5
<1>7. NewNeighbors(n, visited) = c[len]
  BY DEF NewNeighbors
<1> HIDE DEF c
<1>8. c[0] = <<>> /\ \A i \in 1..len : c[i] = Met(c[i - 1], n, visited, facts[i])
  <2>1. ASSUME NEW i \in 1..len PROVE c[i] = Met(c[i - 1], n, visited, facts[i])
    <3>1. i \in 0..len /\ i # 0
      BY <1>1
    <3>2. c[i] = Met1(c, i)
      BY <1>6, <3>1, Zenon
    <3> QED
      BY <3>1, <3>2
  <2>2. 0 \in 0..len
    BY <1>1
  <2>3. c[0] = Met1(c, 0)
    BY <1>6, <2>2, Zenon
  <2> QED
    BY <2>1, <2>3
<1> HIDE DEF Unfolded
<1> DEFINE G == {i \in 0..len : MetInv(c[i], n, visited, i)}
<1>9. 0 \in G
  <2>1. MetInv(<<>>, n, visited, 0)
    BY DEF MetInv
  <2> QED
    BY <1>1, <1>8, <2>1
<1>10. \A i \in 1..len : i - 1 \in G => i \in G
  BY <1>1, <1>8, MetKeeps
<1>11. \A i \in 0..len : i \in G
  <2> HIDE DEF G, len
  <2> QED
    BY <1>1, <1>9, <1>10, UpTo
<1> QED
  BY <1>1, <1>7, <1>11

(* Nodes within a distance.                                                *)
LEMMA WiderFacts ==
    ASSUME VerifierInv, NEW S \in SUBSET things
    PROVE  /\ Wider(S) \in SUBSET things
           /\ \A m : m \in Wider(S) <=> m \in S \/ \E v \in S : Linked(v, m)
<1>1. facts \in Seq(Fact) /\ ToSet(facts) = {facts[j] : j \in DOMAIN facts}
  BY DEF VerifierInv, ToSet
<1>2. \A m : m \in Wider(S) <=> m \in S \/ \E v \in S : Linked(v, m)
  BY <1>1 DEF Wider, Linked
<1>3. \A v, m : Linked(v, m) => m \in things
  BY DEF Linked, VerifierInv
<1> QED
  BY <1>2, <1>3

Balls(f, n, k) == f[0] = {n} /\ \A i \in 1..k : f[i] = Wider(f[i - 1])

LEMMA BallsAgree ==
    ASSUME NEW n, NEW k \in Nat, NEW l \in Nat, k <= l, NEW f, NEW g,
           Balls(f, n, k), Balls(g, n, l)
    PROVE  f[k] = g[k]
<1> DEFINE G == {i \in 0..k : f[i] = g[i]}
<1>1. 0 \in G
  BY DEF Balls
<1>2. \A i \in 1..k : i - 1 \in G => i \in G
  BY DEF Balls
<1>3. k \in G
  <2> HIDE DEF G
  <2> QED
    BY <1>1, <1>2, UpTo
<1> QED
  BY <1>3

LEMMA WithinUnfolds ==
    ASSUME VerifierInv, NEW n \in things, NEW k \in Nat
    PROVE  \E f : Balls(f, n, k) /\ Within(n, k) = f[k]
<1> DEFINE Ball1(g, i) == IF i = 0 THEN {n} ELSE Wider(g[i - 1])
           Unfolded(g) == g = [i \in 0..k |-> IF i = 0 THEN {n} ELSE Wider(g[i - 1])]
           c == CHOOSE g : Unfolded(g)
           V == SUBSET things
           a == {n}
           step == [p \in V \X (1..k) |-> Wider(p[1])]
<1>1. \A v \in V, i \in 1..k : step[<<v, i>>] = Wider(v)
  OBVIOUS
<1>2. StaysIn(step, V, k)
  BY <1>1, WiderFacts DEF StaysIn
<1>3. a \in V
  OBVIOUS
<1> HIDE DEF step, V, a
<1>4. PICK f \in [0..k -> V] : Iterates(f, step, a, k)
  BY <1>2, <1>3, LoopRuns
<1>5. Unfolded(f)
  <2>1. ASSUME NEW i \in 1..k PROVE f[i] = Wider(f[i - 1])
    <3>1. i - 1 \in 0..k
      OBVIOUS
    <3>2. f[i - 1] \in V
      BY <1>4, <3>1
    <3> QED
      BY <1>1, <1>4, <3>2 DEF Iterates
  <2>2. f[0] = {n}
    BY <1>4 DEF Iterates, a
  <2>3. \A i \in 0..k : i = 0 \/ i \in 1..k
    OBVIOUS
  <2>4. \A i \in 0..k : f[i] = Ball1(f, i)
    BY <2>1, <2>2, <2>3
  <2>5. f = [i \in 0..k |-> f[i]]
    BY <1>4
  <2> QED
    BY <2>4, <2>5
<1>6. Unfolded(c)
  <2> HIDE DEF Unfolded
  <2> QED
    BY <1>5
<1>7. Within(n, k) = c[k]
  BY DEF Within
<1> HIDE DEF c
<1>8. Balls(c, n, k)
  <2>1. ASSUME NEW i \in 1..k PROVE c[i] = Wider(c[i - 1])
    <3>1. i \in 0..k /\ i # 0
      OBVIOUS
    <3>2. c[i] = Ball1(c, i)
      BY <1>6, <3>1, Zenon
    <3> QED
      BY <3>1, <3>2
  <2>2. 0 \in 0..k
    OBVIOUS
  <2>3. c[0] = Ball1(c, 0)
    BY <1>6, <2>2, Zenon
  <2> QED
    BY <2>1, <2>3 DEF Balls
<1> QED
  BY <1>7, <1>8

LEMMA WithinNext ==
    ASSUME VerifierInv, NEW n \in things, NEW k \in Nat
    PROVE  Within(n, 0) = {n} /\ Within(n, k + 1) = Wider(Within(n, k))
<1>1. Within(n, 0) = {n}
  <2>1. PICK f : Balls(f, n, 0) /\ Within(n, 0) = f[0]
    BY WithinUnfolds
  <2> QED
    BY <2>1 DEF Balls
<1>2. PICK f : Balls(f, n, k) /\ Within(n, k) = f[k]
  BY WithinUnfolds
<1>3. k + 1 \in Nat /\ k <= k + 1
  OBVIOUS
<1>4. PICK g : Balls(g, n, k + 1) /\ Within(n, k + 1) = g[k + 1]
  BY <1>3, WithinUnfolds
<1>5. f[k] = g[k]
  BY <1>2, <1>3, <1>4, BallsAgree
<1>6. g[k + 1] = Wider(g[k])
  <2>1. k + 1 \in 1..k + 1 /\ (k + 1) - 1 = k
    OBVIOUS
  <2> QED
    BY <1>4, <2>1 DEF Balls
<1> QED
  BY <1>1, <1>2, <1>4, <1>5, <1>6

LEMMA WithinType ==
    ASSUME VerifierInv, NEW n \in things, NEW k \in Nat
    PROVE  Within(n, k) \in SUBSET things /\ n \in Within(n, k)
<1> DEFINE G == {i \in 0..k : Within(n, i) \in SUBSET things /\ n \in Within(n, i)}
<1>1. 0 \in G
  BY WithinNext
<1>2. ASSUME NEW i \in 1..k, i - 1 \in G PROVE i \in G
  <2>1. i - 1 \in Nat /\ (i - 1) + 1 = i
    OBVIOUS
  <2>2. Within(n, i) = Wider(Within(n, i - 1))
    BY <2>1, WithinNext
  <2> QED
    BY <1>2, <2>2, WiderFacts
<1>3. k \in G
  <2> HIDE DEF G
  <2> QED
    BY <1>1, <1>2, UpTo
<1> QED
  BY <1>3

LEMMA WithinGrows ==
    ASSUME VerifierInv, NEW n \in things, NEW k \in Nat, NEW l \in Nat, k <= l
    PROVE  Within(n, k) \subseteq Within(n, l)
<1> DEFINE G == {i \in 0..l - k : Within(n, k) \subseteq Within(n, k + i)}
<1>1. 0 \in G /\ l - k \in Nat
  OBVIOUS
<1>2. ASSUME NEW i \in 1..l - k, i - 1 \in G PROVE i \in G
  <2>1. k + (i - 1) \in Nat /\ (k + (i - 1)) + 1 = k + i
    BY <1>1
  <2>2. Within(n, k + i) = Wider(Within(n, k + (i - 1)))
    BY <2>1, WithinNext
  <2> QED
    BY <1>2, <2>1, <2>2, WiderFacts, WithinType
<1>3. l - k \in G
  <2> HIDE DEF G
  <2> QED
    BY <1>1, <1>2, UpTo
<1> QED
  BY <1>3

(* What a set that no edge leaves contains.                                *)
Closed(S) == \A v \in S, m \in Thing : Linked(v, m) => m \in S

LEMMA ClosedHolds ==
    ASSUME VerifierInv, NEW n \in things, NEW S \in SUBSET things, n \in S, Closed(S),
           NEW k \in Nat
    PROVE  Within(n, k) \subseteq S
<1> DEFINE G == {i \in 0..k : Within(n, i) \subseteq S}
<1>1. 0 \in G
  BY WithinNext
<1>2. ASSUME NEW i \in 1..k, i - 1 \in G PROVE i \in G
  <2>1. i - 1 \in Nat /\ (i - 1) + 1 = i
    OBVIOUS
  <2>2. Within(n, i) = Wider(Within(n, i - 1)) /\ Within(n, i - 1) \in SUBSET things
    BY <2>1, WithinNext, WithinType
  <2>3. \A m \in Within(n, i) : m \in Thing
    BY <2>1, WithinType DEF VerifierInv
  <2> QED
    BY <1>2, <2>2, <2>3, WiderFacts DEF Closed
<1>3. k \in G
  <2> HIDE DEF G
  <2> QED
    BY <1>1, <1>2, UpTo
<1> QED
  BY <1>3

(* As many steps as there are nodes lead everywhere: until a step brings   *)
(* no node, each brings one.                                               *)
LEMMA ReachClosed ==
    ASSUME VerifierInv, NEW n \in things
    PROVE  Closed(Within(n, Cardinality(things)))
<1> DEFINE all == Cardinality(things)
           W(i) == Within(n, i)
<1>1. IsFiniteSet(things) /\ all \in Nat
  BY FS_CardinalityType DEF VerifierInv
<1>2. \A i \in Nat : W(i) \in SUBSET things /\ IsFiniteSet(W(i)) /\ Cardinality(W(i)) \in Nat
                      /\ Cardinality(W(i)) <= all
  BY <1>1, WithinType, FS_Subset, FS_CardinalityType
<1>3. SUFFICES ASSUME ~Closed(W(all)) PROVE FALSE
  OBVIOUS
<1>4. ASSUME NEW i \in 0..all PROVE Wider(W(i)) # W(i)
  <2>1. SUFFICES ASSUME Wider(W(i)) = W(i) PROVE FALSE
    OBVIOUS
  <2>2. i \in Nat /\ i <= all
    BY <1>1
  <2>3. Closed(W(i))
    BY <1>2, <2>1, <2>2, WiderFacts DEF Closed
  <2>4. W(all) \subseteq W(i) /\ W(i) \subseteq W(all)
    BY <1>1, <1>2, <2>2, <2>3, WithinType, ClosedHolds, WithinGrows
  <2>5. W(all) = W(i)
    BY <2>4
  <2> QED
    BY <1>3, <2>3, <2>5
<1> DEFINE G == {i \in 0..all : Cardinality(W(i)) >= i + 1}
<1>5. 0 \in G
  <2>1. W(0) = {n} /\ Cardinality({n}) = 1
    BY WithinNext, FS_Singleton
  <2> QED
    BY <1>1, <2>1
<1>6. ASSUME NEW i \in 1..all, i - 1 \in G PROVE i \in G
  <2>1. i - 1 \in Nat /\ (i - 1) + 1 = i /\ i \in Nat /\ i - 1 \in 0..all
    BY <1>1
  <2>2. W(i) = Wider(W(i - 1))
    BY <2>1, WithinNext
  <2>3. W(i - 1) \subseteq W(i) /\ W(i - 1) # W(i)
    BY <1>2, <1>4, <2>1, <2>2, WiderFacts
  <2>4. Cardinality(W(i - 1)) < Cardinality(W(i))
    <3>1. IsFiniteSet(W(i))
      BY <1>2, <2>1
    <3> HIDE DEF W
    <3> QED
      BY <1>2, <2>1, <2>3, <3>1, FS_Subset
  <2>5. Cardinality(W(i)) \in Nat /\ Cardinality(W(i - 1)) \in Nat
    BY <1>2, <2>1
  <2> QED
    BY <1>6, <2>1, <2>4, <2>5
<1>7. all \in G
  <2> HIDE DEF G, W
  <2> QED
    BY <1>1, <1>5, <1>6, UpTo
<1>8. Cardinality(W(all)) <= all
  BY <1>1, <1>2
<1> QED
  BY <1>1, <1>2, <1>7, <1>8

(* The search.  A path goes along edges from s, and there is none to its   *)
(* end that is shorter by an edge or more.                                 *)
IsPath(p, s) ==
    /\ p \in Seq(Thing) /\ p # <<>> /\ p[1] = s
    /\ \A i \in 1..Len(p) - 1 : Linked(p[i], p[i + 1])

Shortest(p, s) == IsPath(p, s) /\ (Len(p) >= 2 => Last(p) \notin Within(s, Len(p) - 2))

(* A visited node has been expanded or ends a path of the queue, whose     *)
(* paths are of two lengths at most, the shorter ones first; the nodes     *)
(* nearer than the end of its first path have all been visited.            *)
Expanded(v, visited, t) == v # t /\ \A m \in Thing : Linked(v, m) => m \in visited

QueueInv(q, visited, s) ==
    /\ \A i \in DOMAIN q : Shortest(q[i], s) /\ Last(q[i]) \in visited
    /\ \A i, j \in DOMAIN q : i <= j => Len(q[i]) <= Len(q[j])
    /\ \A j \in DOMAIN q : Len(q[j]) <= Len(q[1]) + 1
    /\ q # <<>> => Within(s, Len(q[1]) - 1) \subseteq visited

Ends(q, v) == \E i \in DOMAIN q : Last(q[i]) = v

VisitedInv(q, visited, s, t) ==
    /\ s \in visited
    /\ visited \subseteq Within(s, Cardinality(things))
    /\ \A v \in visited : Expanded(v, visited, t) \/ Ends(q, v)

(* After k rounds: every visited node was taken from the queue or is on    *)
(* it, unless the queue is empty.                                          *)
SearchInv(b, s, t, k) ==
    /\ b.found # <<>> => Shortest(b.found, s) /\ Last(b.found) = t
    /\ b.found = <<>> =>
         /\ QueueInv(b.queue, b.visited, s)
         /\ VisitedInv(b.queue, b.visited, s, t)
         /\ b.queue = <<>> \/ Len(b.queue) + k = Cardinality(b.visited)

Path == {p \in Seq(Thing) : p # <<>>}

SearchState == [queue : Seq(Path), visited : SUBSET things, found : Seq(Thing)]

LEMMA LastAppended ==
    ASSUME NEW p \in Seq(Thing), NEW m \in Thing
    PROVE  /\ Append(p, m) \in Path /\ Len(Append(p, m)) = Len(p) + 1
           /\ Last(Append(p, m)) = m /\ Len(p) \in Nat
           /\ \A i \in 1..Len(p) : Append(p, m)[i] = p[i]
BY AppendProperties DEF Last, Path

LEMMA PathLonger ==
    ASSUME NEW p, NEW s, IsPath(p, s), NEW m \in Thing, Linked(Last(p), m)
    PROVE  IsPath(Append(p, m), s)
<1> DEFINE w == Append(p, m)
<1>1. p \in Seq(Thing) /\ Len(p) \in Nat /\ Len(p) >= 1
  BY DEF IsPath
<1>2. /\ w \in Path /\ Len(w) = Len(p) + 1 /\ Last(w) = m
      /\ \A i \in 1..Len(p) : w[i] = p[i]
  BY <1>1, LastAppended
<1> HIDE DEF w
<1>3. w[1] = s
  BY <1>1, <1>2 DEF IsPath
<1>4. ASSUME NEW i \in 1..Len(w) - 1 PROVE Linked(w[i], w[i + 1])
  <2>1. i \in 1..Len(p) /\ (i = Len(p) \/ (i \in 1..Len(p) - 1 /\ i + 1 \in 1..Len(p)))
    BY <1>1, <1>2
  <2>2. CASE i = Len(p)
    BY <1>2, <2>1, <2>2 DEF Last
  <2>3. CASE i \in 1..Len(p) - 1 /\ i + 1 \in 1..Len(p)
    BY <1>2, <2>1, <2>3 DEF IsPath
  <2> QED
    BY <2>1, <2>2, <2>3
<1>5. IsPath(w, s)
  BY <1>2, <1>3, <1>4 DEF IsPath, Path
<1> QED
  BY <1>5 DEF w

(* The queue after a round: its tail, and the path with one node more for  *)
(* each of the new ones.                                                   *)
Branches(p, new) == [i \in DOMAIN new |-> Append(p, new[i])]

Queued(q, new) == Tail(q) \o Branches(q[1], new)

LEMMA QueueNext ==
    ASSUME NEW q \in Seq(Path), q # <<>>, NEW new \in Seq(Thing)
    PROVE  /\ Queued(q, new) \in Seq(Path)
           /\ Len(q) \in Nat /\ Len(q) >= 1 /\ Len(new) \in Nat
           /\ Len(Queued(q, new)) = Len(q) - 1 + Len(new)
           /\ \A i \in 1..Len(q) - 1 : Queued(q, new)[i] = q[i + 1]
           /\ \A i \in 1..Len(new) : Queued(q, new)[Len(q) - 1 + i] = Append(q[1], new[i])
<1> DEFINE e == Branches(q[1], new)
           r == Tail(q)
<1>1. /\ Len(q) \in Nat /\ Len(q) >= 1 /\ Len(new) \in Nat /\ DOMAIN new = 1..Len(new)
      /\ q[1] \in Seq(Thing)
  BY DEF Path
<1>2. /\ r \in Seq(Path) /\ Len(r) = Len(q) - 1
      /\ \A i \in 1..Len(q) - 1 : r[i] = q[i + 1]
  BY <1>1
<1>3. e \in Seq(Path) /\ Len(e) = Len(new) /\ \A i \in 1..Len(new) : e[i] = Append(q[1], new[i])
  <2>1. \A i \in 1..Len(new) : Append(q[1], new[i]) \in Path
    BY <1>1, LastAppended
  <2>2. e \in [1..Len(new) -> Path]
    BY <1>1, <2>1 DEF Branches
  <2> QED
    BY <1>1, <2>2 DEF Branches
<1> HIDE DEF e, r
<1>4. /\ r \o e \in Seq(Path) /\ Len(r \o e) = Len(r) + Len(e)
      /\ \A i \in 1..Len(r) : (r \o e)[i] = r[i]
      /\ \A i \in 1..Len(e) : (r \o e)[Len(r) + i] = e[i]
  <2>1. Len(r) \in Nat /\ Len(e) \in Nat
    BY <1>2, <1>3
  <2>2. /\ r \o e \in Seq(Path) /\ Len(r \o e) = Len(r) + Len(e)
        /\ \A i \in 1..Len(r) + Len(e) :
              (r \o e)[i] = IF i <= Len(r) THEN r[i] ELSE e[i - Len(r)]
    <3>1. r \in Seq(Path) /\ e \in Seq(Path)
      BY <1>2, <1>3
    <3> QED
      BY <3>1, ConcatProperties
  <2>3. ASSUME NEW i \in 1..Len(e) PROVE (r \o e)[Len(r) + i] = e[i]
    <3>1. /\ Len(r) + i \in 1..Len(r) + Len(e) /\ ~(Len(r) + i <= Len(r))
          /\ (Len(r) + i) - Len(r) = i
      BY <2>1
    <3> QED
      BY <2>2, <3>1
  <2>4. ASSUME NEW i \in 1..Len(r) PROVE (r \o e)[i] = r[i]
    BY <2>1, <2>2
  <2> QED
    BY <2>2, <2>3, <2>4
<1>5. Queued(q, new) = r \o e
  BY DEF Queued, r, e
<1> QED
  BY <1>1, <1>2, <1>3, <1>4, <1>5

(* A round that expands the first path of the queue.                       *)
LEMMA ExpandKeepsQueue ==
    ASSUME VerifierInv, NEW s \in things, NEW t,
           NEW q \in Seq(Path), q # <<>>, NEW visited \in SUBSET things,
           QueueInv(q, visited, s), VisitedInv(q, visited, s, t),
           NEW new, MetInv(new, Last(q[1]), visited, Len(facts)), Last(q[1]) # t
    PROVE  /\ QueueInv(Queued(q, new), visited \cup ToSet(new), s)
           /\ VisitedInv(Queued(q, new), visited \cup ToSet(new), s, t)
<1> DEFINE r == Queued(q, new)
           seen == visited \cup ToSet(new)
           n == Last(q[1])
           size1 == Len(q[1])
           a == Len(q) - 1
<1>1. new \in Seq(Thing) /\ DOMAIN new = 1..Len(new) /\ ToSet(new) = {new[k] : k \in 1..Len(new)}
  BY DEF MetInv, ToSet
<1>2. /\ r \in Seq(Path) /\ a \in Nat /\ Len(new) \in Nat
      /\ Len(r) = a + Len(new) /\ DOMAIN r = 1..a + Len(new)
      /\ DOMAIN q = 1..a + 1
      /\ \A i \in 1..a : r[i] = q[i + 1]
      /\ \A i \in 1..Len(new) : r[a + i] = Append(q[1], new[i])
  <2>1. /\ r \in Seq(Path) /\ Len(q) \in Nat /\ Len(q) >= 1 /\ Len(new) \in Nat
        /\ Len(r) = Len(q) - 1 + Len(new)
        /\ \A i \in 1..Len(q) - 1 : r[i] = q[i + 1]
        /\ \A i \in 1..Len(new) : r[Len(q) - 1 + i] = Append(q[1], new[i])
    BY <1>1, QueueNext
  <2> HIDE DEF r
  <2>2. DOMAIN q = 1..Len(q) /\ DOMAIN r = 1..Len(r) /\ Len(q) = a + 1
    BY <2>1
  <2> QED
    BY <2>1, <2>2
<1>3. /\ 1 \in DOMAIN q /\ Shortest(q[1], s) /\ n \in visited /\ IsPath(q[1], s)
      /\ q[1] \in Seq(Thing) /\ size1 \in Nat /\ size1 >= 1
  <2>1. 1 \in DOMAIN q
    BY <1>2
  <2>2. Shortest(q[1], s) /\ n \in visited
    BY <2>1 DEF QueueInv
  <2>3. IsPath(q[1], s)
    BY <2>2 DEF Shortest
  <2> QED
    BY <2>1, <2>2, <2>3 DEF IsPath
<1>4. \A i \in DOMAIN q : q[i] \in Seq(Thing) /\ Len(q[i]) \in Nat /\ Len(q[i]) >= 1
  BY DEF Path
<1> HIDE DEF r, a, size1, n
<1>5. \A i \in DOMAIN r : \/ i \in 1..a /\ i + 1 \in DOMAIN q /\ r[i] = q[i + 1]
                          \/ \E k \in 1..Len(new) : i = a + k /\ r[i] = Append(q[1], new[k])
  <2>1. ASSUME NEW i \in DOMAIN r, ~(i \in 1..a)
        PROVE  \E k \in 1..Len(new) : i = a + k /\ r[i] = Append(q[1], new[k])
    <3>1. i - a \in 1..Len(new) /\ i = a + (i - a)
      BY <1>2, <2>1
    <3> QED
      BY <1>2, <3>1
  <2>2. ASSUME NEW i \in 1..a PROVE i + 1 \in DOMAIN q /\ r[i] = q[i + 1]
    BY <1>2
  <2> QED
    BY <2>1, <2>2
<1>6. \A k \in 1..Len(new) : /\ new[k] \in Thing /\ new[k] \notin visited /\ Linked(n, new[k])
                           /\ new[k] \in seen /\ new[k] \in things
  BY <1>1 DEF MetInv, n, Linked, VerifierInv
<1>7. \A m \in Thing : Linked(n, m) => m \in seen
  BY <1>1 DEF MetInv, n, Linked
(* the new paths                                                           *)
<1>8. ASSUME NEW k \in 1..Len(new)
      PROVE  /\ Shortest(Append(q[1], new[k]), s)
             /\ Last(Append(q[1], new[k])) = new[k]
             /\ Len(Append(q[1], new[k])) = size1 + 1
  <2>1. IsPath(Append(q[1], new[k]), s)
    BY <1>3, <1>6, PathLonger DEF n
  <2>2. /\ Last(Append(q[1], new[k])) = new[k]
        /\ Len(Append(q[1], new[k])) = size1 + 1
    BY <1>3, <1>6, LastAppended DEF size1
  <2>3. new[k] \notin Within(s, size1 - 1)
    BY <1>6 DEF QueueInv, size1
  <2>4. (size1 + 1) - 2 = size1 - 1
    BY <1>3
  <2> QED
    BY <2>1, <2>2, <2>3, <2>4 DEF Shortest
(* every path of the queue is as long as the first or longer by one        *)
<1>9. \A i \in DOMAIN q : size1 <= Len(q[i]) /\ Len(q[i]) <= size1 + 1
  <2>1. \A i \in DOMAIN q : 1 <= i /\ 1 \in DOMAIN q
    BY <1>2
  <2> QED
    BY <2>1 DEF QueueInv, size1
<1>10. \A i \in DOMAIN r : /\ Len(r[i]) \in Nat /\ size1 <= Len(r[i]) /\ Len(r[i]) <= size1 + 1
                         /\ (i \notin 1..a => Len(r[i]) = size1 + 1)
  <2>1. ASSUME NEW i \in DOMAIN r
        PROVE  /\ Len(r[i]) \in Nat /\ size1 <= Len(r[i]) /\ Len(r[i]) <= size1 + 1
               /\ (i \notin 1..a => Len(r[i]) = size1 + 1)
    <3>1. CASE i \in 1..a /\ i + 1 \in DOMAIN q /\ r[i] = q[i + 1]
      BY <1>4, <1>9, <3>1
    <3>2. ASSUME NEW k \in 1..Len(new), i = a + k, r[i] = Append(q[1], new[k])
          PROVE  Len(r[i]) = size1 + 1
      BY <1>8, <3>2
    <3> QED
      BY <1>3, <1>5, <3>1, <3>2
  <2> QED
    BY <2>1
<1>11. \A i \in DOMAIN r : Shortest(r[i], s) /\ Last(r[i]) \in seen
  <2>1. ASSUME NEW i \in DOMAIN r PROVE Shortest(r[i], s) /\ Last(r[i]) \in seen
    <3>1. CASE i \in 1..a /\ i + 1 \in DOMAIN q /\ r[i] = q[i + 1]
      BY <3>1 DEF QueueInv
    <3>2. ASSUME NEW k \in 1..Len(new), i = a + k, r[i] = Append(q[1], new[k])
          PROVE  Shortest(r[i], s) /\ Last(r[i]) \in seen
      BY <1>6, <1>8, <3>2
    <3> QED
      BY <1>5, <3>1, <3>2
  <2> QED
    BY <2>1
<1>12. \A i, j \in DOMAIN r : i <= j => Len(r[i]) <= Len(r[j])
  <2>1. ASSUME NEW i \in DOMAIN r, NEW j \in DOMAIN r, i <= j
        PROVE  Len(r[i]) <= Len(r[j])
    <3>1. CASE j \in 1..a
      <4>1. i \in 1..a /\ i + 1 \in DOMAIN q /\ j + 1 \in DOMAIN q /\ i + 1 <= j + 1
        BY <1>2, <2>1, <3>1
      <4>2. r[i] = q[i + 1] /\ r[j] = q[j + 1]
        BY <1>2, <3>1, <4>1
      <4> QED
        BY <4>1, <4>2 DEF QueueInv
    <3>2. CASE j \notin 1..a
      BY <1>10, <3>2
    <3> QED
      BY <3>1, <3>2
  <2> QED
    BY <2>1
<1>13. \A v \in seen : Expanded(v, seen, t) \/ Ends(r, v)
  <2>1. ASSUME NEW v \in visited PROVE Expanded(v, seen, t) \/ Ends(r, v)
    <3>1. CASE Expanded(v, visited, t)
      BY <3>1 DEF Expanded
    <3>2. CASE v = n
      BY <1>7, <3>2 DEF Expanded, n
    <3>3. ASSUME NEW i \in DOMAIN q, Last(q[i]) = v, v # n PROVE Ends(r, v)
      <4>1. i # 1
        BY <3>3 DEF n
      <4>2. i - 1 \in 1..a /\ (i - 1) + 1 = i
        BY <1>2, <4>1
      <4>3. i - 1 \in DOMAIN r /\ r[i - 1] = q[i]
        BY <1>2, <4>2
      <4> QED
        BY <3>3, <4>3 DEF Ends
    <3> QED
      BY <3>1, <3>2, <3>3 DEF VisitedInv, Ends
  <2>2. ASSUME NEW k \in 1..Len(new) PROVE Ends(r, new[k])
    <3>1. a + k \in DOMAIN r
      BY <1>2
    <3> QED
      BY <1>2, <1>8, <3>1 DEF Ends
  <2> QED
    BY <1>1, <2>1, <2>2
(* what is nearer than the end of the new first path has been visited: a   *)
(* node that it is an edge from is expanded, or ends no path, for it is    *)
(* nearer than the ends of all.                                            *)
<1>14. ASSUME r # <<>> PROVE Within(s, Len(r[1]) - 1) \subseteq seen
  <2>1. 1 \in DOMAIN r
    BY <1>2, <1>14
  <2>2. Within(s, size1 - 1) \subseteq visited
    BY DEF QueueInv, size1
  <2>3. CASE Len(r[1]) = size1
    BY <2>2, <2>3
  <2>4. CASE Len(r[1]) = size1 + 1
    <3>1. Len(r[1]) - 1 = (size1 - 1) + 1 /\ size1 - 1 \in Nat
      BY <1>3, <2>4
    <3>2. Within(s, Len(r[1]) - 1) = Wider(Within(s, size1 - 1))
      BY <3>1, WithinNext
    <3>3. \A i \in DOMAIN r : Len(r[i]) = size1 + 1 /\ Last(r[i]) \notin Within(s, size1 - 1)
      <4>1. ASSUME NEW i \in DOMAIN r PROVE Len(r[i]) = size1 + 1
        <5>1. 1 <= i
          BY <1>2
        <5> QED
          BY <1>3, <1>10, <1>12, <2>1, <2>4, <5>1
      <4>2. size1 + 1 >= 2 /\ (size1 + 1) - 2 = size1 - 1
        BY <1>3
      <4> QED
        BY <1>11, <4>1, <4>2 DEF Shortest
    <3>4. ASSUME NEW v \in Within(s, size1 - 1), NEW m, Linked(v, m) PROVE m \in seen
      <4>1. v \in visited /\ v \in seen /\ ~Ends(r, v)
        BY <2>2, <3>3 DEF Ends
      <4>2. Expanded(v, seen, t)
        BY <1>13, <4>1
      <4>3. m \in Thing
        BY <3>4 DEF Linked, VerifierInv
      <4> QED
        BY <3>4, <4>2, <4>3 DEF Expanded
    <3>5. Within(s, size1 - 1) \in SUBSET things
      BY <3>1, WithinType
    <3> QED
      BY <2>2, <3>2, <3>4, <3>5, WiderFacts
  <2> QED
    BY <1>3, <1>10, <2>1, <2>3, <2>4
<1>15. seen \subseteq Within(s, Cardinality(things))
  <2>1. Closed(Within(s, Cardinality(things)))
    BY ReachClosed
  <2> QED
    BY <1>1, <1>3, <1>6, <2>1 DEF Closed, VisitedInv
<1>16. s \in seen
  BY DEF VisitedInv
<1>17. \A j \in DOMAIN r : Len(r[j]) <= Len(r[1]) + 1
  <2>1. \A j \in DOMAIN r : 1 \in DOMAIN r
    BY <1>2
  <2> QED
    BY <1>3, <1>10, <2>1
<1>18. QueueInv(r, seen, s)
  BY <1>11, <1>12, <1>14, <1>17 DEF QueueInv
<1>19. VisitedInv(r, seen, s, t)
  BY <1>13, <1>15, <1>16 DEF VisitedInv
<1> QED
  BY <1>18, <1>19 DEF r

(* Each round but an idle one takes one path and adds as many as it visits *)
(* nodes.                                                                  *)
LEMMA MetCount ==
    ASSUME NEW visited, IsFiniteSet(visited), NEW n, NEW i, NEW new,
           MetInv(new, n, visited, i)
    PROVE  /\ Cardinality(visited \cup ToSet(new)) = Cardinality(visited) + Len(new)
           /\ Cardinality(visited) \in Nat /\ Len(new) \in Nat
<1> DEFINE S == ToSet(new)
<1>1. /\ new \in Seq(Thing) /\ Len(new) \in Nat /\ DOMAIN new = 1..Len(new)
      /\ S = {new[k] : k \in 1..Len(new)}
  BY DEF MetInv, ToSet
<1>2. new \in Bijection(1..Len(new), S)
  <2>1. \A k, l \in 1..Len(new) : new[k] = new[l] => k = l
    BY <1>1 DEF MetInv
  <2>2. new \in [1..Len(new) -> S]
    BY <1>1
  <2> QED
    BY <1>1, <2>1, <2>2 DEF Bijection, Injection, Surjection, IsInjective
<1>3. IsFiniteSet(S) /\ Cardinality(S) = Len(new)
  <2>1. ExistsBijection(1..Len(new), S)
    BY <1>2 DEF ExistsBijection
  <2> QED
    BY <1>1, <2>1, FS_NatBijection, FS_CountingElements
<1>4. visited \cap S = {}
  BY <1>1 DEF MetInv
<1> HIDE DEF S
<1>5. Cardinality(visited \cup S) = Cardinality(visited) + Cardinality(S) - Cardinality(visited \cap S)
  BY <1>3, FS_Union
<1>6. Cardinality(visited) \in Nat /\ Cardinality(visited \cap S) = 0
  BY <1>4, FS_EmptySet, FS_CardinalityType
<1>7. Cardinality(visited \cup S) = Cardinality(visited) + Len(new)
  <2> DEFINE whole == Cardinality(visited \cup S)
             before == Cardinality(visited)
             size1 == Len(new)
  <2>1. before \in Nat /\ size1 \in Nat /\ whole = before + size1 - 0
    BY <1>1, <1>3, <1>5, <1>6
  <2> HIDE DEF whole, before, size1
  <2>2. whole = before + size1
    BY <2>1
  <2> QED
    BY <2>2 DEF whole, before, size1
<1> QED
  BY <1>1, <1>6, <1>7 DEF S

LEMMA RoundExpands ==
    ASSUME NEW b \in SearchState, NEW t, b.queue # <<>>, b.found = <<>>, Last(b.queue[1]) # t
    PROVE  LET new == NewNeighbors(Last(b.queue[1]), b.visited)
           IN  Round(b, t) = [queue |-> Queued(b.queue, new),
                              visited |-> b.visited \cup ToSet(new), found |-> <<>>]
BY DEF Round, Take, Queued, Branches

LEMMA RoundType ==
    ASSUME VerifierInv, NEW b \in SearchState, NEW t
    PROVE  Round(b, t) \in SearchState
<1> DEFINE q == b.queue
           new == NewNeighbors(Last(q[1]), b.visited)
<1>1. q \in Seq(Path) /\ b.visited \in SUBSET things
  BY DEF SearchState
<1>2. CASE q = <<>> \/ b.found # <<>>
  BY <1>2 DEF Round
<1>3. CASE q # <<>> /\ b.found = <<>> /\ Last(q[1]) = t
  <2>1. q[1] \in Seq(Thing)
    BY <1>1, <1>3 DEF Path
  <2>2. Round(b, t) = [b EXCEPT !.found = q[1]]
    BY <1>3 DEF Round, Take
  <2> QED
    BY <2>1, <2>2 DEF SearchState
<1>4. CASE q # <<>> /\ b.found = <<>> /\ Last(q[1]) # t
  <2>1. MetInv(new, Last(q[1]), b.visited, Len(facts))
    BY NewNeighborsFacts
  <2>2. Round(b, t) = [queue |-> Queued(q, new),
                       visited |-> b.visited \cup ToSet(new), found |-> <<>>]
    BY <1>4, RoundExpands
  <2> HIDE DEF q, new
  <2>3. new \in Seq(Thing) /\ ToSet(new) \subseteq things
    BY <2>1 DEF MetInv, ToSet, Linked, VerifierInv
  <2>4. Queued(q, new) \in Seq(Path)
    BY <1>1, <1>4, <2>3, QueueNext
  <2>5. <<>> \in Seq(Thing)
    OBVIOUS
  <2> QED
    BY <1>1, <2>2, <2>3, <2>4, <2>5 DEF SearchState
<1> QED
  BY <1>2, <1>3, <1>4

LEMMA RoundKeeps ==
    ASSUME VerifierInv, NEW s \in things, NEW t, NEW k \in Nat, NEW b \in SearchState,
           SearchInv(b, s, t, k)
    PROVE  SearchInv(Round(b, t), s, t, k + 1)
<1> DEFINE q == b.queue
           new == NewNeighbors(Last(q[1]), b.visited)
<1>1. q \in Seq(Path) /\ b.visited \in SUBSET things
  BY DEF SearchState
<1>2. CASE q = <<>> \/ b.found # <<>>
  <2>1. Round(b, t) = b
    BY <1>2 DEF Round
  <2> QED
    BY <1>2, <2>1 DEF SearchInv
<1>3. CASE q # <<>> /\ b.found = <<>> /\ Last(q[1]) = t
  <2>1. q[1] \in Seq(Thing) /\ q[1] # <<>> /\ 1 \in DOMAIN q
    BY <1>1, <1>3 DEF Path
  <2>2. Round(b, t) = [b EXCEPT !.found = q[1]]
    BY <1>3 DEF Round, Take
  <2>3. Round(b, t).found = q[1]
    BY <2>2 DEF SearchState
  <2>4. Shortest(q[1], s)
    BY <1>3, <2>1 DEF SearchInv, QueueInv
  <2> QED
    BY <1>3, <2>1, <2>3, <2>4 DEF SearchInv
<1>4. CASE q # <<>> /\ b.found = <<>> /\ Last(q[1]) # t
  <2> DEFINE r == Queued(q, new)
             seen == b.visited \cup ToSet(new)
  <2>1. MetInv(new, Last(q[1]), b.visited, Len(facts))
    BY NewNeighborsFacts
  <2>2. Round(b, t) = [queue |-> r, visited |-> seen, found |-> <<>>]
    BY <1>4, RoundExpands
  <2>3. /\ QueueInv(q, b.visited, s) /\ VisitedInv(q, b.visited, s, t)
        /\ Len(q) + k = Cardinality(b.visited)
    BY <1>4 DEF SearchInv
  <2> HIDE DEF q, new
  <2>4. QueueInv(r, seen, s) /\ VisitedInv(r, seen, s, t)
    BY <1>1, <1>4, <2>1, <2>3, ExpandKeepsQueue
  <2>5. IsFiniteSet(b.visited)
    BY <1>1, FS_Subset DEF VerifierInv
  <2>6. /\ Cardinality(seen) = Cardinality(b.visited) + Len(new)
        /\ Cardinality(b.visited) \in Nat /\ Len(new) \in Nat
    BY <2>1, <2>5, MetCount
  <2>7. Len(r) = Len(q) - 1 + Len(new) /\ Len(q) \in Nat
    BY <1>1, <1>4, <2>1, QueueNext DEF MetInv
  <2> HIDE DEF r, seen
  <2>8. Len(r) + (k + 1) = Cardinality(seen)
    BY <2>3, <2>6, <2>7
  <2> QED
    BY <2>2, <2>4, <2>8 DEF SearchInv
<1> QED
  BY <1>2, <1>3, <1>4

LEMMA BegunKeeps ==
    ASSUME VerifierInv, NEW s \in things, NEW t
    PROVE  Begun(s) \in SearchState /\ SearchInv(Begun(s), s, t, 0)
<1> DEFINE q == <<<<s>>>>
<1>1. /\ <<s>> \in Path /\ q \in Seq(Path) /\ Len(q) = 1 /\ q[1] = <<s>> /\ Len(<<s>>) = 1
      /\ DOMAIN q = {1} /\ <<>> \in Seq(Thing) /\ q # <<>>
  BY DEF VerifierInv, Path
<1>2. Last(<<s>>) = s /\ <<s>>[1] = s
  BY DEF Last
<1>3. Begun(s) = [queue |-> q, visited |-> {s}, found |-> <<>>]
  BY DEF Begun
<1>4. Begun(s) \in SearchState
  BY <1>1, <1>3 DEF SearchState
<1>5. Shortest(<<s>>, s)
  BY <1>1, <1>2 DEF Shortest, IsPath, Path
<1> HIDE DEF q
<1>6. QueueInv(q, {s}, s)
  <2>1. Within(s, 0) = {s}
    BY WithinNext
  <2>2. \A i \in DOMAIN q : i = 1 /\ q[i] = <<s>> /\ Len(q[i]) = 1 /\ Last(q[i]) = s
    BY <1>1, <1>2
  <2>3. Len(q[1]) - 1 = 0
    BY <1>1
  <2> QED
    BY <1>5, <2>1, <2>2, <2>3, <1>1 DEF QueueInv
<1>7. VisitedInv(q, {s}, s, t)
  <2>1. s \in Within(s, Cardinality(things))
    BY WithinType, FS_CardinalityType DEF VerifierInv
  <2> QED
    BY <1>1, <1>2, <2>1 DEF VisitedInv, Ends
<1>8. Len(q) + 0 = Cardinality({s})
  <2>1. Cardinality({s}) = 1
    BY FS_Singleton
  <2> QED
    BY <1>1, <2>1
<1> QED
  BY <1>3, <1>4, <1>6, <1>7, <1>8 DEF SearchInv

(* find_path is that loop, and answers with what the last round found.     *)
LEMMA FindPathLoops ==
    ASSUME VerifierInv, NEW s \in things, NEW t \in things, NEW d \in Nat
    PROVE  \E b \in SearchState : SearchInv(b, s, t, d) /\ FindPath(s, t, d) = b.found
<1> DEFINE Loop1(g, k) == IF k = 0 THEN Begun(s) ELSE Round(g[k - 1], t)
           Unfolded(g) == g = [k \in 0..d |-> IF k = 0 THEN Begun(s) ELSE Round(g[k - 1], t)]
           c == CHOOSE g : Unfolded(g)
           V == SearchState
           a == Begun(s)
           step == [p \in V \X (1..d) |-> Round(p[1], t)]
<1>1. \A b \in V, k \in 1..d : step[<<b, k>>] = Round(b, t)
  OBVIOUS
<1>2. StaysIn(step, V, d)
  BY <1>1, RoundType DEF StaysIn
<1>3. a \in V
  BY BegunKeeps
<1> HIDE DEF step, V, a
<1>4. PICK f \in [0..d -> V] : Iterates(f, step, a, d)
  BY <1>2, <1>3, LoopRuns
<1>5. Unfolded(f)
  <2>1. ASSUME NEW k \in 1..d PROVE f[k] = Round(f[k - 1], t)
    <3>1. k - 1 \in 0..d
      OBVIOUS
    <3>2. f[k - 1] \in V
      BY <1>4, <3>1
    <3> QED
      BY <1>1, <1>4, <3>2 DEF Iterates
  <2>2. f[0] = Begun(s)
    BY <1>4 DEF Iterates, a
  <2>3. \A k \in 0..d : k = 0 \/ k \in 1..d
    OBVIOUS
  <2>4. \A k \in 0..d : f[k] = Loop1(f, k)
    BY <2>1, <2>2, <2>3
  <2>5. f = [k \in 0..d |-> f[k]]
    BY <1>4
  <2> QED
    BY <2>4, <2>5
<1>6. Unfolded(c)
  <2> HIDE DEF Unfolded
  <2> QED
    BY <1>5
<1>7. FindPath(s, t, d) = c[d].found
  BY DEF FindPath
<1> HIDE DEF c
<1>8. c[0] = Begun(s) /\ \A k \in 1..d : c[k] = Round(c[k - 1], t)
  <2>1. ASSUME NEW k \in 1..d PROVE c[k] = Round(c[k - 1], t)
    <3>1. k \in 0..d /\ k # 0
      OBVIOUS
    <3>2. c[k] = Loop1(c, k)
      BY <1>6, <3>1, Zenon
    <3> QED
      BY <3>1, <3>2
  <2>2. 0 \in 0..d
    OBVIOUS
  <2>3. c[0] = Loop1(c, 0)
    BY <1>6, <2>2, Zenon
  <2> QED
    BY <2>1, <2>3
<1> HIDE DEF Unfolded
<1> DEFINE G == {k \in 0..d : c[k] \in SearchState /\ SearchInv(c[k], s, t, k)}
<1>9. 0 \in G
  BY <1>8, BegunKeeps
<1>10. ASSUME NEW k \in 1..d, k - 1 \in G PROVE k \in G
  <2>1. k - 1 \in Nat /\ (k - 1) + 1 = k
    OBVIOUS
  <2>2. c[k - 1] \in SearchState /\ SearchInv(c[k - 1], s, t, k - 1) /\ c[k] = Round(c[k - 1], t)
    BY <1>8, <1>10
  <2>3. c[k] \in SearchState
    BY <2>2, RoundType
  <2>4. SearchInv(c[k], s, t, (k - 1) + 1)
    BY <2>1, <2>2, RoundKeeps
  <2> QED
    BY <2>1, <2>3, <2>4
<1>11. d \in G
  <2> HIDE DEF G
  <2> QED
    BY <1>9, <1>10, UpTo
<1> QED
  BY <1>7, <1>11

(* When every node within reach has been taken from the queue without one  *)
(* being t, no edge leaves them, and t is not within reach.                *)
LEMMA FindPathFacts ==
    ASSUME VerifierInv, NEW s \in things, NEW t \in things, NEW d \in Nat
    PROVE  /\ FindPath(s, t, d) # <<>> =>
                Shortest(FindPath(s, t, d), s) /\ Last(FindPath(s, t, d)) = t
           /\ (/\ t \in Within(s, Cardinality(things))
               /\ Cardinality(Within(s, Cardinality(things))) <= d) => FindPath(s, t, d) # <<>>
<1> DEFINE reach == Within(s, Cardinality(things))
<1>1. PICK b \in SearchState : SearchInv(b, s, t, d) /\ FindPath(s, t, d) = b.found
  BY FindPathLoops
<1>2. SUFFICES ASSUME b.found = <<>>, t \in reach, Cardinality(reach) <= d PROVE FALSE
  BY <1>1 DEF SearchInv
<1>3. /\ VisitedInv(b.queue, b.visited, s, t)
      /\ b.queue = <<>> \/ Len(b.queue) + d = Cardinality(b.visited)
      /\ b.queue \in Seq(Path) /\ b.visited \in SUBSET things
  BY <1>1, <1>2 DEF SearchInv, SearchState
<1>4. b.queue = <<>>
  <2>1. reach \in SUBSET things
    BY WithinType, FS_CardinalityType DEF VerifierInv
  <2>2. IsFiniteSet(reach)
    BY <2>1, FS_Subset DEF VerifierInv
  <2>3. b.visited \in SUBSET reach
    BY <1>3 DEF VisitedInv
  <2> HIDE DEF reach
  <2>4. /\ Cardinality(b.visited) <= Cardinality(reach) /\ Cardinality(reach) \in Nat
        /\ Cardinality(b.visited) \in Nat
    BY <2>2, <2>3, FS_Subset, FS_CardinalityType
  <2>5. SUFFICES ASSUME Len(b.queue) + d = Cardinality(b.visited) PROVE b.queue = <<>>
    BY <1>3
  <2>6. Len(b.queue) = 0
    <3>1. Len(b.queue) \in Nat
      BY <1>3
    <3> QED
      BY <1>2, <2>4, <2>5, <3>1
  <2> QED
    BY <1>3, <2>6
<1>5. \A v \in b.visited : Expanded(v, b.visited, t)
  BY <1>3, <1>4 DEF VisitedInv, Ends
<1>6. s \in b.visited /\ Closed(b.visited) /\ t \notin b.visited
  BY <1>3, <1>5 DEF Expanded, Closed, VisitedInv
<1>7. reach \subseteq b.visited
  BY <1>3, <1>6, ClosedHolds, FS_CardinalityType DEF VerifierInv
<1> QED
  BY <1>2, <1>6, <1>7

LEMMA VerifierInvHolds == VerifierSpec => []VerifierInv
<1>1. VerifierInit => VerifierInv
  BY FS_EmptySet DEF VerifierInit, VerifierInv
<1>2. VerifierInv /\ [VerifierNext]_verifierVars => VerifierInv'
  <2> SUFFICES ASSUME VerifierInv, [VerifierNext]_verifierVars PROVE VerifierInv'
    OBVIOUS
  <2>1. ASSUME NEW n \in Thing, LearnThing(n) PROVE VerifierInv'
    BY <2>1, FS_AddElement DEF LearnThing, VerifierInv
  <2>2. ASSUME NEW f \in Fact, LearnFact(f) PROVE VerifierInv'
    <3>1. /\ facts' \in Seq(Fact) /\ Len(facts) \in Nat /\ DOMAIN facts' = 1..Len(facts) + 1
          /\ \A j \in 1..Len(facts) : facts'[j] = facts[j]
          /\ facts'[Len(facts) + 1] = f /\ DOMAIN facts = 1..Len(facts)
      BY <2>2, AppendProperties DEF LearnFact, VerifierInv
    <3>2. \A j \in DOMAIN facts' : j \in DOMAIN facts \/ j = Len(facts) + 1
      BY <3>1
    <3> QED
      BY <2>2, <3>1, <3>2 DEF LearnFact, VerifierInv
  <2>3. CASE UNCHANGED verifierVars
    BY <2>3 DEF verifierVars, VerifierInv
  <2> QED
    BY <2>1, <2>2, <2>3 DEF VerifierNext
<1> QED
  BY <1>1, <1>2, PTL DEF VerifierSpec

LEMMA PathsShortest ==
    ASSUME VerifierInv
    PROVE  ShortestUpTo(Nat)
<1>1. ASSUME NEW s \in things, NEW t \in things, NEW d \in Nat, FindPath(s, t, d) # <<>>
      PROVE  /\ FindPath(s, t, d)[1] = s /\ Last(FindPath(s, t, d)) = t
             /\ \A i \in 1..Len(FindPath(s, t, d)) - 1 :
                   FactsBetween(FindPath(s, t, d)[i], FindPath(s, t, d)[i + 1]) # <<>>
             /\ Len(FindPath(s, t, d)) >= 2 => t \notin Within(s, Len(FindPath(s, t, d)) - 2)
  BY <1>1, FindPathFacts, BetweenFacts DEF Shortest, IsPath
<1> QED
  BY <1>1, FindPathFacts DEF ShortestUpTo

(* For any graph and any bound, a path that is found is there and no other *)
(* is shorter; one is found when the bound is no less than the number of   *)
(* nodes that can be reached (find_path of verifier.py).                   *)
THEOREM PathsAlwaysShortest == VerifierSpec => []PathIsShortest
<1>1. VerifierInv => PathIsShortest
  <2> SUFFICES ASSUME VerifierInv PROVE PathIsShortest
    OBVIOUS
  <2>1. Cardinality(things) \in Nat
    BY FS_CardinalityType DEF VerifierInv
  <2>2. \A d \in 0..Cardinality(things) + 1 : d \in Nat
    BY <2>1
  <2> QED
    BY <2>2, PathsShortest DEF PathIsShortest, ShortestUpTo
<1> QED
  BY <1>1, VerifierInvHolds, PTL

(* The proof of a verdict: single edges from subject to object, or the     *)
(* edges of a path.                                                        *)
Backs(p, c) ==
    /\ p \in Seq(Fact)
    /\ \A i \in DOMAIN p : p[i] \in ToSet(facts) /\ p[i].src = c.s /\ p[i].dst = c.o

LEMMA NamedFacts ==
    ASSUME VerifierInv, NEW c \in Claim
    PROVE  Backs(Named(c), c) /\ \A i \in DOMAIN Named(c) : Named(c)[i].rel = c.r
<1>1. CASE c.form = "triple"
  <2> DEFINE X == {f \in Fact : f.rel # c.r}
             b == FactsBetween(c.s, c.o)
             w == Leaving(b, X)
  <2>1. /\ b \in Seq(Fact)
        /\ \A k \in DOMAIN b : b[k] \in ToSet(facts) /\ b[k].src = c.s /\ b[k].dst = c.o
    BY BetweenFacts
  <2>2. \A k \in DOMAIN b : b[k] \in Fact
    BY <2>1
  <2>3. \A f \in Fact : f \notin X => f.rel = c.r
    OBVIOUS
  <2> HIDE DEF X, b
  <2>4. /\ w \in Seq(Fact)
        /\ \A k \in DOMAIN w : w[k] \notin X /\ \E j \in DOMAIN b : w[k] = b[j]
    BY <2>1, LeavingFacts
  <2>5. Named(c) = w
    BY <1>1 DEF Named, X, b
  <2> HIDE DEF w
  <2> QED
    BY <2>1, <2>2, <2>3, <2>4, <2>5 DEF Backs
<1>2. CASE c.form # "triple"
  BY <1>2 DEF Named, Backs
<1> QED
  BY <1>1, <1>2

LEMMA LooseFacts ==
    ASSUME VerifierInv, NEW c \in Claim
    PROVE  Backs(Loose(c), c)
BY BetweenFacts DEF Loose, Backs

LEMMA PathFactsFacts ==
    ASSUME VerifierInv, NEW p, NEW s, IsPath(p, s), Len(p) > 1
    PROVE  /\ PathFacts(p) \in Seq(Fact) /\ Len(PathFacts(p)) = Len(p) - 1
           /\ \A i \in 1..Len(p) - 1 :
                 /\ PathFacts(p)[i] \in ToSet(facts)
                 /\ PathFacts(p)[i].src = p[i] /\ PathFacts(p)[i].dst = p[i + 1]
<1> DEFINE w == PathFacts(p)
           n == Len(p) - 1
<1>1. n \in Nat
  BY DEF IsPath
<1>2. ASSUME NEW i \in 1..n
      PROVE  /\ w[i] \in Fact /\ w[i] \in ToSet(facts)
             /\ w[i].src = p[i] /\ w[i].dst = p[i + 1]
  <2> DEFINE b == FactsBetween(p[i], p[i + 1])
  <2>1. w[i] = b[1]
    BY DEF PathFacts
  <2>2. b # <<>> /\ b \in Seq(Fact)
    BY BetweenFacts DEF IsPath
  <2>3. \A k \in DOMAIN b : b[k] \in ToSet(facts) /\ b[k].src = p[i] /\ b[k].dst = p[i + 1]
    BY BetweenFacts
  <2> HIDE DEF b
  <2>4. 1 \in DOMAIN b /\ b[1] \in Fact
    BY <2>2
  <2> QED
    BY <2>1, <2>3, <2>4
<1>3. w = [i \in 1..n |-> w[i]]
  BY DEF PathFacts
<1> HIDE DEF w
<1>4. w \in [1..n -> Fact]
  BY <1>2, <1>3
<1>5. w \in Seq(Fact) /\ Len(w) = n
  BY <1>1, <1>4
<1> QED
  BY <1>2, <1>5 DEF w

LEMMA ProofBacks ==
    ASSUME VerifierInv
    PROVE  ProofBacksVerdict
<1> SUFFICES ASSUME NEW c \in Claim
             PROVE  LET p == Proof(c)
                    IN  /\ ToSet(p) \subseteq ToSet(facts)
                        /\ Verify(c) > 0 =>
                             p # <<>> /\ \A i \in DOMAIN p : p[i].src = c.s /\ p[i].dst = c.o
                        /\ Verify(c) = 100 => \A i \in DOMAIN p : p[i].rel = c.r
                        /\ (Verify(c) = 0 /\ p # <<>>) =>
                             /\ p[1].src = c.s /\ Last(p).dst = c.o
                             /\ \A i \in 1..Len(p) - 1 : p[i].dst = p[i + 1].src
  BY DEF ProofBacksVerdict
<1>1. CASE Named(c) # <<>>
  <2>1. Proof(c) = Named(c) /\ Verify(c) = 100
    BY <1>1 DEF Proof, Verify
  <2> QED
    BY <1>1, <2>1, NamedFacts DEF Backs, ToSet
<1>2. CASE Named(c) = <<>> /\ Loose(c) # <<>>
  <2>1. Proof(c) = Loose(c) /\ Verify(c) = 80
    BY <1>2 DEF Proof, Verify
  <2> QED
    BY <1>2, <2>1, LooseFacts DEF Backs, ToSet
<1>3. CASE Named(c) = <<>> /\ Loose(c) = <<>>
  <2>1. Verify(c) = 0
    BY <1>3 DEF Verify
  <2> DEFINE path == FindPath(c.s, c.o, 10)
  <2>2. CASE c.form # "natural" /\ Len(path) > 1
    <3>1. c.s \in things /\ c.o \in things
      <4>1. Len(<<>>) = 0
        OBVIOUS
      <4> QED
        BY <2>2, <4>1 DEF FindPath
    <3>2. path # <<>>
      BY <2>2
    <3>3. IsPath(path, c.s) /\ Last(path) = c.o
      BY <3>1, <3>2, FindPathFacts DEF Shortest
    <3> DEFINE w == PathFacts(path)
               n == Len(path) - 1
    <3>4. Proof(c) = w
      BY <1>3, <2>2 DEF Proof
    <3> HIDE DEF path
    <3>5. /\ w \in Seq(Fact) /\ Len(w) = n /\ n \in Nat /\ n >= 1
          /\ \A i \in 1..n : /\ w[i] \in ToSet(facts)
                             /\ w[i].src = path[i] /\ w[i].dst = path[i + 1]
      BY <2>2, <3>3, PathFactsFacts DEF IsPath
    <3>6. path[1] = c.s /\ path[n + 1] = c.o
      BY <3>3, <3>5 DEF IsPath, Last
    <3> HIDE DEF w, n
    <3>7. ToSet(w) \subseteq ToSet(facts)
      BY <3>5 DEF ToSet
    <3>8. w[1].src = c.s /\ Last(w).dst = c.o
      <4>1. 1 \in 1..n /\ n \in 1..n
        BY <3>5
      <4> QED
        BY <3>5, <3>6, <4>1 DEF Last
    <3>9. \A i \in 1..Len(w) - 1 : w[i].dst = w[i + 1].src
      <4>1. \A i \in 1..n - 1 : i \in 1..n /\ i + 1 \in 1..n
        BY <3>5
      <4> QED
        BY <3>5, <4>1
    <3> QED
      BY <2>1, <3>4, <3>7, <3>8, <3>9
  <2>3. CASE ~(c.form # "natural" /\ Len(path) > 1)
    <3>1. Proof(c) = <<>>
      BY <1>3, <2>3 DEF Proof
    <3> QED
      BY <2>1, <3>1 DEF ToSet
  <2> QED
    BY <2>2, <2>3
<1> QED
  BY <1>1, <1>2, <1>3

(* Whatever graph and claim, the proof edges of explainable.py are edges   *)
(* of the graph and lead from subject to object, each of its own when the  *)
(* verdict is that the claim holds, and along a path when it is not.       *)
THEOREM ProofsAlwaysBack == VerifierSpec => []ProofBacksVerdict
BY ProofBacks, VerifierInvHolds, PTL
=============================================================================
