---------------------------- MODULE SeiCodecProofs ---------------------------
(***************************************************************************)
(* Proofs about SeiCodec for every payload: what the access unit of a      *)
(* frame carries is what the other side takes out of it. UnescapeRBSP      *)
(* undoes EscapeRBSP and leaves no start code; the SEI sizes, the search   *)
(* for start codes and the fields of the header are read as they were      *)
(* written. The loops are recursive functions: that they exist follows     *)
(* from the positions they go through being well-founded.                  *)
(***************************************************************************)
EXTENDS MCArqTransport, ArqTransportProofs, FiniteSetTheorems, WellFoundedInduction

Byte == 0 .. 255
LEMMA ByteNat == \A b \in Byte : b \in Nat /\ b <= 255
BY DEF Byte

(* Every set of numbers has a least one: the induction of the lemmas below.*)
LEMMA LeastNumber ==
  ASSUME NEW T \in SUBSET Nat, T # {}
  PROVE  \E m \in T : \A k \in T : m <= k
<1> DEFINE R == OpToRel(<, Nat)
<1>1. IsWellFoundedOn(R, Nat)
  BY NatLessThanWellFounded
<1> HIDE DEF R
<1>2. PICK m \in T : \A k \in T : ~(<<k, m>> \in R)
  BY <1>1, WFMin
<1>3. \A k \in T : <<k, m>> \in R <=> k < m
  BY DEF R, OpToRel
<1>4. \A k \in T : ~(k < m)
  BY <1>2, <1>3
<1> QED
  BY <1>4

LEMMA FunctionIsSeq ==
  ASSUME NEW S, NEW n \in Nat, NEW f \in [1 .. n -> S]
  PROVE  f \in Seq(S) /\ Len(f) = n
BY IsASeq

(* How many members of a set of positions come up to position i.           *)
Count(E, i) == Cardinality({e \in E : e <= i})

LEMMA CountSteps ==
  ASSUME NEW n \in Nat, NEW E \in SUBSET (1 .. n)
  PROVE  /\ \A i \in 0 .. n : Count(E, i) \in Nat
         /\ Count(E, 0) = 0 /\ Count(E, n) = Cardinality(E)
         /\ \A i \in 1 .. n : Count(E, i) = Count(E, i - 1) + IF i \in E THEN 1 ELSE 0
<1>0. \A e \in E : e \in Nat /\ 1 <= e /\ e <= n
  OBVIOUS
<1>1. IsFiniteSet(1 .. n)
  BY FS_Interval
<1>2. ASSUME NEW i \in 0 .. n
      PROVE  IsFiniteSet({e \in E : e <= i}) /\ Count(E, i) \in Nat
  <2>1. {e \in E : e <= i} \subseteq 1 .. n
    OBVIOUS
  <2>2. IsFiniteSet({e \in E : e <= i})
    BY <1>1, <2>1, FS_Subset
  <2> QED
    BY <2>2, FS_CardinalityType DEF Count
<1>3. Count(E, 0) = 0
  <2>1. \A e \in E : ~(e <= 0)
    BY <1>0
  <2>2. {e \in E : e <= 0} = {}
    BY <2>1
  <2> QED
    BY <2>2, FS_EmptySet DEF Count
<1>4. Count(E, n) = Cardinality(E)
  <2>1. {e \in E : e <= n} = E
    BY <1>0
  <2> QED
    BY <2>1 DEF Count
<1>5. ASSUME NEW i \in 1 .. n
      PROVE  Count(E, i) = Count(E, i - 1) + IF i \in E THEN 1 ELSE 0
  <2> DEFINE F == {e \in E : e <= i - 1}
  <2>1. i - 1 \in 0 .. n
    OBVIOUS
  <2>2. IsFiniteSet(F) /\ Count(E, i - 1) \in Nat
    BY <1>2, <2>1
  <2>3. CASE i \in E
    <3>1. \A e \in E : e <= i <=> (e <= i - 1 \/ e = i)
      BY <1>0
    <3>2. i \notin F
      OBVIOUS
    <3>3. {e \in E : e <= i} = F \cup {i}
      BY <2>3, <3>1
    <3>4. Cardinality(F \cup {i}) = Cardinality(F) + 1
      BY <2>2, <3>2, FS_AddElement
    <3> QED
      BY <2>3, <3>3, <3>4 DEF Count
  <2>4. CASE i \notin E
    <3>1. \A e \in E : e <= i <=> e <= i - 1
      BY <1>0, <2>4
    <3>2. {e \in E : e <= i} = F
      BY <3>1
    <3>3. Count(E, i) = Count(E, i - 1)
      BY <3>2 DEF Count
    <3> QED
      BY <2>2, <2>4, <3>3
  <2> QED
    BY <2>3, <2>4
<1> QED
  BY <1>2, <1>3, <1>4, <1>5

-----------------------------------------------------------------------------
(* The loop of escapeRBSP.                                                 *)
IsZeros(s, n, z) == z = [i \in 0 .. n |->
  IF i = 0 THEN 0
  ELSE IF s[i] # 0 THEN 0
  ELSE IF z[i - 1] >= 2 THEN 1 ELSE z[i - 1] + 1]

LEMMA ZerosExist ==
  ASSUME NEW s, NEW n \in Nat
  PROVE  \E z : IsZeros(s, n, z)
<1> DEFINE T == {k \in 0 .. n : ~ \E z : IsZeros(s, k, z)}
<1> SUFFICES ASSUME ~ \E z : IsZeros(s, n, z) PROVE FALSE
  OBVIOUS
<1>1. n \in T /\ T \in SUBSET Nat
  OBVIOUS
<1>2. PICK k \in T : \A j \in T : k <= j
  BY <1>1, LeastNumber
<1>3. k \in 0 .. n /\ ~ \E z : IsZeros(s, k, z)
  OBVIOUS
<1>4. CASE k = 0
  <2>1. IsZeros(s, 0, [i \in 0 .. 0 |-> 0])
    BY DEF IsZeros
  <2> QED
    BY <1>3, <1>4, <2>1
<1>5. CASE k > 0
  <2>1. k - 1 \in 0 .. n /\ ~(k <= k - 1)
    BY <1>3, <1>5
  <2>2. PICK z : IsZeros(s, k - 1, z)
    BY <1>2, <2>1
  <2>3. z = [i \in 0 .. k - 1 |->
              IF i = 0 THEN 0
              ELSE IF s[i] # 0 THEN 0
              ELSE IF z[i - 1] >= 2 THEN 1 ELSE z[i - 1] + 1]
    BY <2>2 DEF IsZeros
  <2> DEFINE new == IF s[k] # 0 THEN 0 ELSE IF z[k - 1] >= 2 THEN 1 ELSE z[k - 1] + 1
             h == [i \in 0 .. k |-> IF i = k THEN new ELSE z[i]]
  <2> HIDE DEF T
  <2>4. ASSUME NEW i \in 0 .. k
        PROVE  h[i] = IF i = 0 THEN 0
                      ELSE IF s[i] # 0 THEN 0
                      ELSE IF h[i - 1] >= 2 THEN 1 ELSE h[i - 1] + 1
    <3>1. CASE i = k
      <4>1. k \in 0 .. k /\ k - 1 \in 0 .. k /\ k - 1 # k /\ k # 0
        BY <1>3, <1>5
      <4>2. h[k] = new /\ h[k - 1] = z[k - 1]
        BY <4>1
      <4> QED
        BY <3>1, <4>1, <4>2
    <3>2. CASE i # k
      <4>1. i \in 0 .. k - 1 /\ (i # 0 => i - 1 \in 0 .. k /\ i - 1 # k)
        BY <1>3, <3>2
      <4>2. h[i] = z[i] /\ (i # 0 => h[i - 1] = z[i - 1])
        BY <3>2, <4>1
      <4> HIDE DEF h
      <4> QED
        BY <2>3, <4>1, <4>2
    <3> QED
      BY <3>1, <3>2
  <2>5. IsZeros(s, k, h)
    BY <2>4 DEF IsZeros
  <2> QED
    BY <1>3, <2>5
<1> QED
  BY <1>3, <1>4, <1>5

LEMMA ZerosAre ==
  ASSUME NEW s, NEW n \in Nat, NEW z, IsZeros(s, n, z)
  PROVE  /\ \A i \in 0 .. n : z[i] \in 0 .. 2
         /\ z[0] = 0
         /\ \A i \in 1 .. n :
              z[i] = IF s[i] # 0 THEN 0 ELSE IF z[i - 1] >= 2 THEN 1 ELSE z[i - 1] + 1
<1>1. /\ z[0] = 0
      /\ \A i \in 1 .. n :
           z[i] = IF s[i] # 0 THEN 0 ELSE IF z[i - 1] >= 2 THEN 1 ELSE z[i - 1] + 1
  <2>1. 0 \in 0 .. n /\ \A i \in 1 .. n : i \in 0 .. n /\ i # 0
    OBVIOUS
  <2> QED
    BY <2>1 DEF IsZeros
<1>2. ASSUME NEW m \in 0 .. n, z[m] \notin 0 .. 2 PROVE FALSE
  <2> DEFINE T == {k \in 0 .. n : z[k] \notin 0 .. 2}
  <2>1. m \in T /\ T \in SUBSET Nat
    BY <1>2
  <2>2. PICK k \in T : \A j \in T : k <= j
    BY <2>1, LeastNumber
  <2>3. k \in 0 .. n /\ z[k] \notin 0 .. 2
    OBVIOUS
  <2>4. k # 0
    BY <1>1, <2>3
  <2>5. k \in 1 .. n /\ k - 1 \in 0 .. n /\ ~(k <= k - 1)
    BY <2>3, <2>4
  <2>6. z[k - 1] \in 0 .. 2
    BY <2>2, <2>5
  <2> HIDE DEF T
  <2> QED
    BY <1>1, <2>3, <2>5, <2>6
<1> QED
  BY <1>1, <1>2

(* Positions that grow: one comes before another, and every number up to   *)
(* the last is between two of them.                                        *)
LEMMA Increasing ==
  ASSUME NEW n \in Nat, NEW f, \A i \in 0 .. n : f[i] \in Nat,
         \A i \in 1 .. n : f[i - 1] < f[i]
  PROVE  \A i \in 0 .. n, j \in 0 .. n : i < j => f[i] < f[j]
<1> SUFFICES ASSUME NEW i \in 0 .. n, NEW j \in 0 .. n, i < j, ~(f[i] < f[j]) PROVE FALSE
  OBVIOUS
<1> DEFINE T == {k \in i + 1 .. n : ~(f[i] < f[k])}
<1>1. j \in T /\ T \in SUBSET Nat
  OBVIOUS
<1>2. PICK k \in T : \A m \in T : k <= m
  BY <1>1, LeastNumber
<1>3. k \in i + 1 .. n /\ ~(f[i] < f[k])
  OBVIOUS
<1>4. k - 1 \notin T
  BY <1>2, <1>3
<1>5. k - 1 = i \/ f[i] < f[k - 1]
  BY <1>3, <1>4
<1> HIDE DEF T
<1>6. k \in 1 .. n /\ k - 1 \in 0 .. n
  BY <1>3
<1>7. f[k - 1] < f[k] /\ f[i] \in Nat /\ f[k] \in Nat /\ f[k - 1] \in Nat
  BY <1>6
<1> QED
  BY <1>3, <1>5, <1>7

LEMMA Between ==
  ASSUME NEW n \in Nat, NEW f, \A i \in 0 .. n : f[i] \in Nat, f[0] = 0,
         NEW j \in 1 .. f[n]
  PROVE  \E i \in 1 .. n : f[i - 1] < j /\ j <= f[i]
<1> DEFINE T == {k \in 0 .. n : j <= f[k]}
<1>1. n \in T /\ T \in SUBSET Nat
  OBVIOUS
<1>2. PICK k \in T : \A m \in T : k <= m
  BY <1>1, LeastNumber
<1>3. k \in 0 .. n /\ j <= f[k]
  OBVIOUS
<1>4. k # 0
  BY <1>3
<1>5. k \in 1 .. n /\ k - 1 \in 0 .. n /\ ~(k <= k - 1)
  BY <1>3, <1>4
<1>6. ~(j <= f[k - 1])
  BY <1>2, <1>5
<1>7. f[k - 1] \in Nat /\ j \in Nat
  BY <1>5
<1> QED
  BY <1>3, <1>5, <1>6, <1>7

(* What escapeRBSP makes of s: byte i of s is at place[i], and if it had to*)
(* be escaped, a 3 is before it.                                           *)
Escapes(s, z, i) == s[i] <= 3 /\ z[i - 1] >= 2
Laid(s, out, z, place) ==
  /\ z[0] = 0 /\ \A i \in 0 .. Len(s) : z[i] \in 0 .. 2
  /\ \A i \in 1 .. Len(s) :
       z[i] = IF s[i] # 0 THEN 0 ELSE IF z[i - 1] >= 2 THEN 1 ELSE z[i - 1] + 1
  /\ place[0] = 0 /\ \A i \in 0 .. Len(s) : place[i] \in Nat
  /\ \A i \in 1 .. Len(s) :
       /\ place[i] = place[i - 1] + IF Escapes(s, z, i) THEN 2 ELSE 1
       /\ out[place[i]] = s[i]
       /\ Escapes(s, z, i) => out[place[i] - 1] = 3
  /\ out \in Seq(Byte) /\ Len(out) = place[Len(s)]

LEMMA EscapeLaid ==
  ASSUME NEW s \in Seq(Byte)
  PROVE  \E z, place : Laid(s, EscapeRBSP(s), z, place)
<1> DEFINE n == Len(s)
           z == CHOOSE f : IsZeros(s, n, f)
           E == {i \in 1 .. n : s[i] <= 3 /\ z[i - 1] >= 2}
           at == [i \in 1 .. n |-> i + Cardinality({e \in E : e <= i})]
           out == [j \in 1 .. n + Cardinality(E) |->
                     IF \E i \in DOMAIN at : at[i] = j
                     THEN s[CHOOSE i \in DOMAIN at : at[i] = j] ELSE 3]
           place == [i \in 0 .. n |-> i + Count(E, i)]
<1>0. n \in Nat /\ \A i \in 1 .. n : s[i] \in Byte
  BY LenProperties, ElementOfSeq
<1>1. EscapeRBSP(s) = out
  BY DEF EscapeRBSP, EscapeUpTo, IsZeros
<1>2. IsZeros(s, n, z)
  BY <1>0, ZerosExist
<1> HIDE DEF z
<1>3. /\ \A i \in 0 .. n : z[i] \in 0 .. 2
      /\ z[0] = 0
      /\ \A i \in 1 .. n :
           z[i] = IF s[i] # 0 THEN 0 ELSE IF z[i - 1] >= 2 THEN 1 ELSE z[i - 1] + 1
  BY <1>0, <1>2, ZerosAre
<1>4. E \in SUBSET (1 .. n) /\ \A i \in 1 .. n : i \in E <=> Escapes(s, z, i)
  BY DEF Escapes
<1> HIDE DEF E
<1>5. /\ \A i \in 0 .. n : Count(E, i) \in Nat
      /\ Count(E, 0) = 0 /\ Count(E, n) = Cardinality(E)
      /\ \A i \in 1 .. n : Count(E, i) = Count(E, i - 1) + IF i \in E THEN 1 ELSE 0
  BY <1>0, <1>4, CountSteps
<1>6. /\ place[0] = 0 /\ place[n] = n + Cardinality(E)
      /\ \A i \in 0 .. n : place[i] \in Nat /\ place[i] = i + Count(E, i)
  BY <1>0, <1>5
<1>7. \A i \in 1 .. n : at[i] = place[i]
  BY <1>6 DEF Count
<1> HIDE DEF at, place
<1>8. ASSUME NEW i \in 1 .. n
      PROVE  place[i] = place[i - 1] + IF Escapes(s, z, i) THEN 2 ELSE 1
  <2>1. i \in 0 .. n /\ i - 1 \in 0 .. n
    BY <1>0
  <2>2. /\ place[i] = i + Count(E, i) /\ place[i - 1] = i - 1 + Count(E, i - 1)
        /\ Count(E, i) \in Nat /\ Count(E, i - 1) \in Nat
        /\ Count(E, i) = Count(E, i - 1) + IF i \in E THEN 1 ELSE 0
    BY <1>5, <1>6, <2>1
  <2>3. CASE i \in E
    BY <1>4, <2>2, <2>3
  <2>4. CASE i \notin E
    BY <1>4, <2>2, <2>4
  <2> QED
    BY <2>3, <2>4
<1>9. \A i \in 0 .. n, j \in 0 .. n : i < j => place[i] < place[j]
  <2>1. \A i \in 1 .. n : place[i - 1] < place[i]
    <3> TAKE i \in 1 .. n
    <3>1. i \in 0 .. n /\ i - 1 \in 0 .. n
      BY <1>0
    <3> QED
      BY <1>6, <1>8, <3>1
  <2> QED
    BY <1>0, <1>6, <2>1, Increasing
<1>10. DOMAIN at = 1 .. n
  BY DEF at
<1>11. ASSUME NEW i \in 1 .. n
       PROVE  place[i] \in 1 .. n + Cardinality(E) /\ out[place[i]] = s[i]
  <2>1. i \in 0 .. n /\ 0 \in 0 .. n /\ n \in 0 .. n /\ 0 < i /\ (i < n \/ i = n)
    BY <1>0
  <2>2. place[0] < place[i] /\ (place[i] < place[n] \/ i = n) /\ place[i] \in Nat
    BY <1>6, <1>9, <2>1
  <2>3. place[i] \in 1 .. n + Cardinality(E)
    BY <1>6, <2>1, <2>2
  <2>4. \A k \in 1 .. n : at[k] = place[i] => k = i
    <3> TAKE k \in 1 .. n
    <3>1. k \in 0 .. n /\ (k < i \/ k = i \/ i < k)
      BY <1>0
    <3>2. k < i => place[k] < place[i]
      BY <1>9, <2>1, <3>1
    <3>3. i < k => place[i] < place[k]
      BY <1>9, <2>1, <3>1
    <3> QED
      BY <1>6, <1>7, <2>1, <3>1, <3>2, <3>3
  <2>5. (CHOOSE k \in DOMAIN at : at[k] = place[i]) = i
    BY <1>7, <1>10, <2>4
  <2> QED
    BY <1>7, <1>10, <2>3, <2>5
<1>12. ASSUME NEW i \in 1 .. n, Escapes(s, z, i)
       PROVE  out[place[i] - 1] = 3
  <2>0. i \in 0 .. n /\ i - 1 \in 0 .. n
    BY <1>0
  <2>a. /\ place[i] = place[i - 1] + 2 /\ place[i - 1] \in Nat
        /\ place[i] \in 1 .. n + Cardinality(E) /\ n + Cardinality(E) \in Nat
    <3>1. place[i] = place[i - 1] + 2
      BY <1>8, <1>12
    <3>2. place[i - 1] \in Nat /\ place[i] \in 1 .. n + Cardinality(E)
      BY <1>6, <1>11, <2>0
    <3>3. n + Cardinality(E) \in Nat
      BY <1>0, <1>6
    <3> QED
      BY <3>1, <3>2, <3>3
  <2>1. /\ place[i] - 1 \in 1 .. n + Cardinality(E)
        /\ place[i - 1] < place[i] - 1
    BY <2>a
  <2>2. \A k \in 1 .. n : at[k] # place[i] - 1
    <3> TAKE k \in 1 .. n
    <3>1. k \in 0 .. n /\ (k < i - 1 \/ k = i - 1 \/ k = i \/ i < k)
      BY <1>0
    <3>2. k < i - 1 => place[k] < place[i - 1]
      BY <1>9, <2>0, <3>1
    <3>3. i < k => place[i] < place[k]
      BY <1>9, <2>0, <3>1
    <3>4. place[k] \in Nat /\ place[i - 1] \in Nat /\ place[i] = place[i - 1] + 2
      BY <1>6, <2>a, <3>1
    <3>5. place[k] # place[i] - 1
      <4>1. CASE k < i - 1
        BY <3>2, <3>4, <4>1
      <4>2. CASE k = i - 1
        BY <3>4, <4>2
      <4>3. CASE k = i
        BY <3>4, <4>3
      <4>4. CASE i < k
        BY <3>3, <3>4, <4>4
      <4> QED
        BY <3>1, <4>1, <4>2, <4>3, <4>4
    <3> QED
      BY <1>7, <3>5
  <2> QED
    BY <1>10, <2>1, <2>2
<1>13. out \in Seq(Byte) /\ Len(out) = n + Cardinality(E)
  <2>1. n + Cardinality(E) \in Nat
    BY <1>0, <1>6
  <2>2. ASSUME NEW j \in 1 .. n + Cardinality(E) PROVE out[j] \in Byte
    <3>1. CASE \E i \in DOMAIN at : at[i] = j
      <4>1. (CHOOSE i \in DOMAIN at : at[i] = j) \in 1 .. n
        BY <1>10, <3>1
      <4> QED
        BY <1>0, <3>1, <4>1
    <3>2. CASE ~ \E i \in DOMAIN at : at[i] = j
      BY <3>2 DEF Byte
    <3> QED
      BY <3>1, <3>2
  <2>3. out \in [1 .. n + Cardinality(E) -> Byte]
    BY <2>2
  <2> DEFINE N == n + Cardinality(E)
  <2>4. N \in Nat /\ out \in [1 .. N -> Byte]
    BY <2>1, <2>3
  <2> HIDE DEF N, out
  <2>5. out \in Seq(Byte) /\ Len(out) = N
    BY <2>4, FunctionIsSeq
  <2> QED
    BY <2>5 DEF N
<1> HIDE DEF out
<1> HIDE DEF n
<1>14. Laid(s, out, z, place)
  <2> USE DEF n
  <2> QED
    BY <1>3, <1>6, <1>8, <1>11, <1>12, <1>13 DEF Laid
<1> QED
  BY <1>1, <1>14

(* The byte before a position, when nothing had to be inserted there.      *)
LEMMA LaidBefore ==
  ASSUME NEW s \in Seq(Byte), NEW out, NEW z, NEW place, Laid(s, out, z, place),
         NEW i \in 2 .. Len(s), ~Escapes(s, z, i)
  PROVE  out[place[i] - 1] = s[i - 1] /\ place[i] - 1 = place[i - 1] /\ place[i - 1] \in Nat
<1>0. Len(s) \in Nat
  BY LenProperties
<1>1. i \in 1 .. Len(s) /\ i - 1 \in 1 .. Len(s) /\ i - 1 \in 0 .. Len(s)
  BY <1>0
<1>2. place[i] = place[i - 1] + 1 /\ place[i - 1] \in Nat /\ out[place[i - 1]] = s[i - 1]
  BY <1>1 DEF Laid
<1> QED
  BY <1>2

(* A byte up to 3 does not come after two zeros.                           *)
LEMMA NoTriple ==
  ASSUME NEW s \in Seq(Byte), NEW out, NEW z, NEW place, Laid(s, out, z, place),
         NEW i \in 1 .. Len(s), s[i] <= 3, place[i] >= 3
  PROVE  ~(out[place[i] - 1] = 0 /\ out[place[i] - 2] = 0)
<1>0. Len(s) \in Nat
  BY LenProperties
<1>1. CASE Escapes(s, z, i)
  <2>1. out[place[i] - 1] = 3
    BY <1>1 DEF Laid
  <2> QED
    BY <2>1
<1>2. CASE ~Escapes(s, z, i)
  <2>1. z[i - 1] \in {0, 1}
    <3>1. i - 1 \in 0 .. Len(s)
      BY <1>0
    <3>2. z[i - 1] \in 0 .. 2 /\ ~(z[i - 1] >= 2)
      BY <1>2, <3>1 DEF Laid, Escapes
    <3> QED
      BY <3>2
  <2>2. i # 1
    <3>1. place[1] = place[0] + (IF Escapes(s, z, 1) THEN 2 ELSE 1) /\ place[0] = 0
      BY <1>0 DEF Laid
    <3> QED
      BY <1>2, <3>1
  <2>3. i \in 2 .. Len(s)
    BY <2>2
  <2>4. out[place[i] - 1] = s[i - 1] /\ place[i] - 1 = place[i - 1] /\ place[i - 1] \in Nat
    BY <1>2, <2>3, LaidBefore
  <2>5. SUFFICES ASSUME s[i - 1] = 0 PROVE out[place[i] - 2] # 0
    BY <2>4
  <2>6. i - 1 \in 1 .. Len(s) /\ i - 2 \in 0 .. Len(s) /\ (i - 1) - 1 = i - 2
    BY <1>0, <2>3
  <2>7. /\ z[i - 1] = IF z[i - 2] >= 2 THEN 1 ELSE z[i - 2] + 1
        /\ z[i - 2] \in 0 .. 2
    BY <2>5, <2>6 DEF Laid
  <2>8. place[i] - 2 = place[i - 1] - 1
    <3>1. place[i] \in Nat
      BY <1>0 DEF Laid
    <3> QED
      BY <2>4, <3>1
  <2>9. CASE z[i - 2] >= 2
    <3>1. Escapes(s, z, i - 1)
      BY <2>5, <2>6, <2>9 DEF Escapes
    <3>2. out[place[i - 1] - 1] = 3
      BY <2>6, <3>1 DEF Laid
    <3> QED
      BY <2>8, <3>2
  <2>10. CASE z[i - 2] = 0
    <3>1. ~Escapes(s, z, i - 1)
      BY <2>6, <2>10 DEF Escapes
    <3>2. ASSUME i = 2 PROVE FALSE
      <4>1. place[1] = place[0] + (IF Escapes(s, z, 1) THEN 2 ELSE 1) /\ place[0] = 0
        BY <1>0, <2>6 DEF Laid
      <4>2. i - 1 = 1
        BY <3>2
      <4>3. ~Escapes(s, z, 1) /\ place[i] - 1 = place[1]
        BY <2>4, <3>1, <4>2
      <4>4. place[i] \in Nat
        BY <1>0 DEF Laid
      <4> QED
        BY <4>1, <4>3, <4>4
    <3>3. i - 1 \in 2 .. Len(s) /\ i - 2 \in 1 .. Len(s) /\ (i - 2) - 1 \in 0 .. Len(s)
      BY <1>0, <2>3, <3>2
    <3>4. out[place[i - 1] - 1] = s[i - 2]
      BY <2>6, <3>1, <3>3, LaidBefore
    <3>5. s[i - 2] # 0
      <4>1. /\ z[(i - 2) - 1] \in 0 .. 2
            /\ z[i - 2] = IF s[i - 2] # 0 THEN 0
                          ELSE IF z[(i - 2) - 1] >= 2 THEN 1 ELSE z[(i - 2) - 1] + 1
        BY <3>3 DEF Laid
      <4> QED
        BY <2>10, <4>1
    <3> QED
      BY <2>8, <3>4, <3>5
  <2> QED
    BY <2>1, <2>7, <2>9, <2>10
<1> QED
  BY <1>1, <1>2

(* Before a byte that had to be escaped there are two zeros.               *)
LEMMA TwoZeros ==
  ASSUME NEW s \in Seq(Byte), NEW out, NEW z, NEW place, Laid(s, out, z, place),
         NEW i \in 1 .. Len(s), Escapes(s, z, i)
  PROVE  /\ place[i] - 1 \in Nat /\ place[i] - 1 >= 3 /\ out[place[i] - 1] = 3
         /\ out[place[i] - 2] = 0 /\ out[place[i] - 3] = 0
<1>0. Len(s) \in Nat
  BY LenProperties
<1>1. i - 1 \in 0 .. Len(s) /\ z[i - 1] = 2
  <2>1. i - 1 \in 0 .. Len(s)
    BY <1>0
  <2>2. z[i - 1] \in 0 .. 2 /\ z[i - 1] >= 2
    BY <2>1 DEF Laid, Escapes
  <2> QED
    BY <2>1, <2>2
<1>2. i # 1
  BY <1>1 DEF Laid
<1>3. i - 1 \in 1 .. Len(s) /\ i - 2 \in 0 .. Len(s) /\ (i - 1) - 1 = i - 2
  BY <1>0, <1>2
<1>4. /\ z[i - 1] = IF s[i - 1] # 0 THEN 0 ELSE IF z[i - 2] >= 2 THEN 1 ELSE z[i - 2] + 1
      /\ z[i - 2] \in 0 .. 2
  BY <1>3 DEF Laid
<1>5. s[i - 1] = 0 /\ z[i - 2] = 1
  BY <1>1, <1>4
<1>6. i # 2
  BY <1>5 DEF Laid
<1>7. i - 2 \in 1 .. Len(s) /\ i - 1 \in 2 .. Len(s) /\ (i - 2) - 1 \in 0 .. Len(s)
  BY <1>0, <1>3, <1>6
<1>8. s[i - 2] = 0
  <2>1. /\ z[(i - 2) - 1] \in 0 .. 2
        /\ z[i - 2] = IF s[i - 2] # 0 THEN 0
                      ELSE IF z[(i - 2) - 1] >= 2 THEN 1 ELSE z[(i - 2) - 1] + 1
    BY <1>7 DEF Laid
  <2> QED
    BY <1>5, <2>1
<1>9. ~Escapes(s, z, i - 1)
  BY <1>3, <1>5 DEF Escapes
<1>10. /\ out[place[i - 1] - 1] = s[i - 2] /\ place[i - 1] - 1 = place[i - 2]
       /\ place[i - 2] \in Nat
  <2>1. /\ out[place[i - 1] - 1] = s[(i - 1) - 1] /\ place[i - 1] - 1 = place[(i - 1) - 1]
        /\ place[(i - 1) - 1] \in Nat
    BY <1>7, <1>9, LaidBefore
  <2> QED
    BY <1>3, <2>1
<1>11. /\ place[i] = place[i - 1] + 2 /\ place[i - 1] \in Nat /\ out[place[i] - 1] = 3
       /\ out[place[i - 1]] = s[i - 1]
  BY <1>1, <1>3 DEF Laid
<1>12. place[i - 2] >= 1
  <2>1. /\ (i - 2) - 1 \in 0 .. Len(s) /\ place[(i - 2) - 1] \in Nat
        /\ place[i - 2] = place[(i - 2) - 1] + IF Escapes(s, z, i - 2) THEN 2 ELSE 1
    BY <1>7 DEF Laid
  <2> QED
    BY <2>1
<1>13. place[i] - 2 = place[i - 1] /\ place[i] - 3 = place[i - 1] - 1
  BY <1>11
<1>14. place[i] - 1 \in Nat /\ place[i] - 1 >= 3
  BY <1>10, <1>11, <1>12
<1> QED
  BY <1>5, <1>8, <1>10, <1>11, <1>13, <1>14

(* Where the bytes of the escaped text come from.                          *)
LEMMA LaidPlaces ==
  ASSUME NEW s \in Seq(Byte), NEW out, NEW z, NEW place, Laid(s, out, z, place)
  PROVE  /\ \A i \in 0 .. Len(s), j \in 0 .. Len(s) : i < j => place[i] < place[j]
         /\ \A i \in 1 .. Len(s) : place[i] \in 1 .. Len(out)
         /\ \A j \in 1 .. Len(out) : \E i \in 1 .. Len(s) :
              j = place[i] \/ (j = place[i] - 1 /\ Escapes(s, z, i))
<1>0. Len(s) \in Nat /\ Len(out) \in Nat /\ place[Len(s)] = Len(out) /\ place[0] = 0
  BY LenProperties DEF Laid
<1>1. \A i \in 0 .. Len(s) : place[i] \in Nat
  BY DEF Laid
<1>2. ASSUME NEW i \in 1 .. Len(s)
      PROVE  /\ place[i - 1] \in Nat /\ place[i] \in Nat
             /\ place[i] = place[i - 1] + IF Escapes(s, z, i) THEN 2 ELSE 1
  <2>1. i \in 0 .. Len(s) /\ i - 1 \in 0 .. Len(s)
    BY <1>0
  <2> QED
    BY <1>1, <2>1 DEF Laid
<1>3. \A i \in 1 .. Len(s) : place[i - 1] < place[i]
  BY <1>2
<1>4. \A i \in 0 .. Len(s), j \in 0 .. Len(s) : i < j => place[i] < place[j]
  BY <1>0, <1>1, <1>3, Increasing
<1>5. ASSUME NEW i \in 1 .. Len(s) PROVE place[i] \in 1 .. Len(out)
  <2>1. i \in 0 .. Len(s) /\ Len(s) \in 0 .. Len(s) /\ 0 \in 0 .. Len(s) /\ 0 < i
        /\ (i < Len(s) \/ i = Len(s))
    BY <1>0
  <2>2. place[0] < place[i] /\ (place[i] < place[Len(s)] \/ i = Len(s)) /\ place[i] \in Nat
    BY <1>1, <1>4, <2>1
  <2> QED
    BY <1>0, <2>2
<1>6. ASSUME NEW j \in 1 .. Len(out)
      PROVE  \E i \in 1 .. Len(s) : j = place[i] \/ (j = place[i] - 1 /\ Escapes(s, z, i))
  <2>1. j \in 1 .. place[Len(s)]
    BY <1>0
  <2>2. PICK i \in 1 .. Len(s) : place[i - 1] < j /\ j <= place[i]
    BY <1>0, <1>1, <2>1, Between
  <2>3. j = place[i] \/ (j = place[i] - 1 /\ Escapes(s, z, i))
    <3>1. CASE Escapes(s, z, i)
      BY <1>2, <2>2, <3>1
    <3>2. CASE ~Escapes(s, z, i)
      BY <1>2, <2>2, <3>2
    <3> QED
      BY <3>1, <3>2
  <2> QED
    BY <2>3
<1> QED
  BY <1>4, <1>5, <1>6

(* What unescapeRBSP drops are the inserted bytes.                         *)
LEMMA DroppedAre ==
  ASSUME NEW s \in Seq(Byte), NEW out, NEW z, NEW place, Laid(s, out, z, place),
         NEW j \in 1 .. Len(out)
  PROVE  j >= 3 /\ out[j] = 3 /\ out[j - 1] = 0 /\ out[j - 2] = 0
           <=> \E i \in 1 .. Len(s) : Escapes(s, z, i) /\ j = place[i] - 1
<1>1. ASSUME j >= 3, out[j] = 3, out[j - 1] = 0, out[j - 2] = 0
      PROVE  \E i \in 1 .. Len(s) : Escapes(s, z, i) /\ j = place[i] - 1
  <2>1. PICK i \in 1 .. Len(s) : j = place[i] \/ (j = place[i] - 1 /\ Escapes(s, z, i))
    BY LaidPlaces
  <2>2. ASSUME j = place[i] PROVE FALSE
    <3>1. s[i] = 3
      BY <1>1, <2>2 DEF Laid
    <3>2. ~(out[place[i] - 1] = 0 /\ out[place[i] - 2] = 0)
      BY <1>1, <2>2, <3>1, NoTriple
    <3> QED
      BY <1>1, <2>2, <3>2
  <2> QED
    BY <2>1, <2>2
<1>2. ASSUME NEW i \in 1 .. Len(s), Escapes(s, z, i), j = place[i] - 1
      PROVE  j >= 3 /\ out[j] = 3 /\ out[j - 1] = 0 /\ out[j - 2] = 0
  <2>1. /\ place[i] - 1 \in Nat /\ place[i] - 1 >= 3 /\ out[place[i] - 1] = 3
        /\ out[place[i] - 2] = 0 /\ out[place[i] - 3] = 0
    BY <1>2, TwoZeros
  <2>2. place[i] \in Nat
    BY LenProperties DEF Laid
  <2>3. j - 1 = place[i] - 2 /\ j - 2 = place[i] - 3
    BY <1>2, <2>2
  <2> QED
    BY <1>2, <2>1, <2>3
<1> QED
  BY <1>1, <1>2

(* No start code is in the escaped text.                                   *)
LEMMA NoStartCode ==
  ASSUME NEW s \in Seq(Byte), NEW out, NEW z, NEW place, Laid(s, out, z, place),
         NEW j \in 1 .. Len(out), j >= 3
  PROVE  ~(out[j] <= 1 /\ out[j - 1] = 0 /\ out[j - 2] = 0)
<1> SUFFICES ASSUME out[j] <= 1, out[j - 1] = 0, out[j - 2] = 0 PROVE FALSE
  OBVIOUS
<1>1. PICK i \in 1 .. Len(s) : j = place[i] \/ (j = place[i] - 1 /\ Escapes(s, z, i))
  BY LaidPlaces
<1>2. ASSUME j = place[i] PROVE FALSE
  <2>1. s[i] = out[j] /\ s[i] \in Byte
    BY <1>2, ElementOfSeq DEF Laid
  <2>a. s[i] \in Int /\ s[i] <= 1
    <3>1. s[i] \in Int
      BY <2>1 DEF Byte
    <3>2. s[i] <= 1
      BY <2>1
    <3> QED
      BY <3>1, <3>2
  <2>2. s[i] <= 3
    BY <2>a
  <2>3. ~(out[place[i] - 1] = 0 /\ out[place[i] - 2] = 0)
    BY <1>2, <2>2, NoTriple
  <2> QED
    BY <1>2, <2>3
<1>3. ASSUME j = place[i] - 1, Escapes(s, z, i) PROVE FALSE
  <2>1. out[j] = 3
    BY <1>3, TwoZeros
  <2> QED
    BY <2>1
<1> QED
  BY <1>1, <1>2, <1>3

(* unescapeRBSP undoes escapeRBSP.                                         *)
LEMMA UnescapeLaid ==
  ASSUME NEW s \in Seq(Byte), NEW out, NEW z, NEW place, Laid(s, out, z, place)
  PROVE  UnescapeRBSP(out) = s
<1> DEFINE n == Len(s)
           L == Len(out)
           D == {i \in 3 .. L : out[i] = 3 /\ out[i - 1] = 0 /\ out[i - 2] = 0}
           at == [i \in (1 .. L) \ D |-> i - Cardinality({d \in D : d < i})]
           un == [j \in 1 .. L - Cardinality(D) |-> out[CHOOSE i \in DOMAIN at : at[i] = j]]
<1>0. n \in Nat /\ L \in Nat /\ place[n] = L /\ place[0] = 0
  BY LenProperties DEF Laid
<1>1. UnescapeRBSP(out) = un
  BY DEF UnescapeRBSP
<1>2. /\ D \in SUBSET (1 .. L)
      /\ \A j \in 1 .. L : j \in D <=> \E i \in 1 .. n : Escapes(s, z, i) /\ j = place[i] - 1
  <2>1. D \in SUBSET (1 .. L)
    BY <1>0
  <2>2. ASSUME NEW j \in 1 .. L
        PROVE  j \in D <=> \E i \in 1 .. n : Escapes(s, z, i) /\ j = place[i] - 1
    <3>1. j \in D <=> j >= 3 /\ out[j] = 3 /\ out[j - 1] = 0 /\ out[j - 2] = 0
      BY <1>0
    <3> QED
      BY <3>1, DroppedAre
  <2> QED
    BY <2>1, <2>2
<1> HIDE DEF D
<1>3. /\ \A i \in 0 .. n, j \in 0 .. n : i < j => place[i] < place[j]
      /\ \A i \in 1 .. n : place[i] \in 1 .. L
      /\ \A j \in 1 .. L : \E i \in 1 .. n :
           j = place[i] \/ (j = place[i] - 1 /\ Escapes(s, z, i))
  BY LaidPlaces
<1>4. ASSUME NEW i \in 1 .. n PROVE place[i] \notin D
  <2> SUFFICES ASSUME NEW k \in 1 .. n, Escapes(s, z, k), place[i] = place[k] - 1 PROVE FALSE
    BY <1>2, <1>3
  <2>1. i \in 0 .. n /\ k \in 0 .. n /\ k - 1 \in 0 .. n /\ k \in Nat /\ i \in Nat
    BY <1>0
  <2>2. /\ place[k] = place[k - 1] + 2
        /\ place[k - 1] \in Nat /\ place[k] \in Nat /\ place[i] \in Nat
    BY <2>1 DEF Laid
  <2>3. CASE i < k - 1
    <3>1. place[i] < place[k - 1]
      BY <1>3, <2>1, <2>3
    <3> QED
      BY <2>2, <3>1
  <2>4. CASE i = k - 1
    BY <2>2, <2>4
  <2>5. CASE i = k
    BY <2>2, <2>5
  <2>6. CASE k < i
    BY <1>3, <2>1, <2>2, <2>6
  <2> QED
    BY <2>1, <2>3, <2>4, <2>5, <2>6
<1>5. /\ \A i \in 0 .. L : Count(D, i) \in Nat
      /\ Count(D, 0) = 0 /\ Count(D, L) = Cardinality(D)
      /\ \A i \in 1 .. L : Count(D, i) = Count(D, i - 1) + IF i \in D THEN 1 ELSE 0
  BY <1>0, <1>2, CountSteps
<1>6. ASSUME NEW i \in 1 .. n, Count(D, place[i - 1]) = place[i - 1] - (i - 1)
      PROVE  Count(D, place[i]) = place[i] - i
  <2>1. /\ place[i] = place[i - 1] + (IF Escapes(s, z, i) THEN 2 ELSE 1)
        /\ place[i - 1] \in Nat /\ i - 1 \in 0 .. n
    <3>1. i - 1 \in 0 .. n
      BY <1>0
    <3> QED
      BY <3>1 DEF Laid
  <2>2. place[i] \in 1 .. L
    BY <1>3
  <2>3. CASE Escapes(s, z, i)
    <3>1. place[i] - 1 \in 1 .. L /\ (place[i] - 1) - 1 = place[i - 1] /\ place[i] = place[i - 1] + 2
      BY <1>0, <2>1, <2>2, <2>3
    <3>2. place[i] - 1 \in D
      BY <1>2, <2>3, <3>1
    <3>3. Count(D, place[i] - 1) = Count(D, place[i - 1]) + 1
      BY <1>5, <3>1, <3>2
    <3>4. Count(D, place[i]) = Count(D, place[i] - 1) + 0
      BY <1>4, <1>5, <2>2
    <3> QED
      BY <1>6, <2>1, <3>1, <3>3, <3>4
  <2>4. CASE ~Escapes(s, z, i)
    <3>1. place[i] - 1 = place[i - 1] /\ place[i] = place[i - 1] + 1
      BY <2>1, <2>4
    <3>2. Count(D, place[i]) = Count(D, place[i - 1]) + 0
      BY <1>4, <1>5, <2>2, <3>1
    <3> QED
      BY <1>6, <2>1, <3>1, <3>2
  <2> QED
    BY <2>3, <2>4
<1>7. ASSUME NEW m \in 0 .. n PROVE Count(D, place[m]) = place[m] - m
  <2> SUFFICES ASSUME Count(D, place[m]) # place[m] - m PROVE FALSE
    OBVIOUS
  <2> DEFINE T == {k \in 0 .. n : Count(D, place[k]) # place[k] - k}
  <2>1. m \in T /\ T \in SUBSET Nat
    OBVIOUS
  <2>2. PICK k \in T : \A j \in T : k <= j
    BY <2>1, LeastNumber
  <2>3. k \in 0 .. n /\ Count(D, place[k]) # place[k] - k
    OBVIOUS
  <2>4. k # 0
    BY <1>0, <1>5, <2>3
  <2>5. k \in 1 .. n /\ k - 1 \in 0 .. n /\ ~(k <= k - 1)
    BY <1>0, <2>3, <2>4
  <2>6. Count(D, place[k - 1]) = place[k - 1] - (k - 1)
    BY <2>2, <2>5
  <2> HIDE DEF T
  <2> QED
    BY <1>6, <2>3, <2>5, <2>6
<1>8. L - Cardinality(D) = n
  <2>1. n \in 0 .. n
    BY <1>0
  <2>2. Count(D, L) = L - n
    BY <1>0, <1>7, <2>1
  <2> QED
    BY <1>0, <1>5, <2>2
<1>9. ASSUME NEW i \in 1 .. n PROVE place[i] \in DOMAIN at /\ at[place[i]] = i
  <2>1. place[i] \in 1 .. L /\ place[i] \notin D
    BY <1>3, <1>4
  <2>2. {d \in D : d < place[i]} = {d \in D : d <= place[i]}
    <3>1. \A d \in D : d \in Nat
      BY <1>2
    <3>2. \A d \in D : d < place[i] <=> d <= place[i]
      BY <2>1, <3>1
    <3> QED
      BY <3>2
  <2>3. at[place[i]] = place[i] - Count(D, place[i])
    BY <2>1, <2>2 DEF Count
  <2>4. i \in 0 .. n /\ i \in Nat
    BY <1>0
  <2>5. Count(D, place[i]) = place[i] - i
    BY <1>7, <2>4
  <2>6. place[i] \in Nat
    BY <2>1
  <2> HIDE DEF at
  <2>7. at[place[i]] = i
    BY <2>3, <2>4, <2>5, <2>6
  <2>8. place[i] \in DOMAIN at
    BY <2>1 DEF at
  <2> QED
    BY <2>7, <2>8
<1>10. ASSUME NEW j \in DOMAIN at PROVE \E i \in 1 .. n : j = place[i]
  <2>1. j \in 1 .. L /\ j \notin D
    OBVIOUS
  <2> QED
    BY <1>2, <1>3, <2>1
<1> HIDE DEF at
<1>11. ASSUME NEW i \in 1 .. n PROVE un[i] = s[i]
  <2>1. \A j \in DOMAIN at : at[j] = i => j = place[i]
    BY <1>9, <1>10
  <2>2. (CHOOSE j \in DOMAIN at : at[j] = i) = place[i]
    BY <1>9, <2>1
  <2>3. un[i] = out[place[i]]
    BY <1>8, <2>2
  <2> QED
    BY <2>3 DEF Laid
<1>12. un = [i \in 1 .. n |-> un[i]]
  BY <1>8
<1>13. s = [i \in 1 .. n |-> s[i]]
  BY LenProperties
<1> HIDE DEF un
<1> QED
  BY <1>1, <1>11, <1>12, <1>13

(* What keeps an escaped text free of start codes.                         *)
Clean(a) ==
  /\ a \in Seq(Byte) /\ Len(a) > 0 /\ a[Len(a)] # 0
  /\ \A i \in 1 .. Len(a) : i >= 3 => ~(a[i] <= 1 /\ a[i - 1] = 0 /\ a[i - 2] = 0)

(* unescapeRBSP gives back what escapeRBSP was given, whatever the bytes:  *)
(* runs of zeros, bytes 3 that were there before, and both at the end.     *)
THEOREM EscapeUndone ==
  ASSUME NEW s \in Seq(Byte)
  PROVE  UnescapeRBSP(EscapeRBSP(s)) = s
<1>1. PICK z, place : Laid(s, EscapeRBSP(s), z, place)
  BY EscapeLaid
<1> QED
  BY <1>1, UnescapeLaid

LEMMA EscapeClean ==
  ASSUME NEW s \in Seq(Byte), Len(s) > 0, s[Len(s)] # 0
  PROVE  Clean(EscapeRBSP(s))
<1> DEFINE out == EscapeRBSP(s)
<1>1. PICK z, place : Laid(s, out, z, place)
  BY EscapeLaid
<1> HIDE DEF out
<1>2. Len(s) \in 1 .. Len(s)
  BY LenProperties
<1>3. out \in Seq(Byte) /\ Len(out) = place[Len(s)] /\ out[place[Len(s)]] = s[Len(s)]
  BY <1>1, <1>2 DEF Laid
<1>4. Len(out) \in 1 .. Len(out)
  BY <1>1, <1>2, <1>3, LaidPlaces
<1>5. \A i \in 1 .. Len(out) : i >= 3 => ~(out[i] <= 1 /\ out[i - 1] = 0 /\ out[i - 2] = 0)
  BY <1>1, NoStartCode
<1> QED
  BY <1>3, <1>4, <1>5 DEF Clean, out

-----------------------------------------------------------------------------
(* A size or type of an SEI message is read as it was written.             *)
LEMMA DivMod255 ==
  ASSUME NEW v \in Nat
  PROVE  /\ v \div 255 \in Nat /\ v % 255 \in Nat /\ v % 255 < 255
         /\ v = 255 * (v \div 255) + (v % 255)
OBVIOUS

Fills(v) == v \div 255
Rest(v) == v % 255

LEMMA FillsAndRest ==
  ASSUME NEW v \in Nat
  PROVE  Fills(v) \in Nat /\ Rest(v) \in Nat /\ Rest(v) < 255 /\ v = 255 * Fills(v) + Rest(v)
BY DivMod255 DEF Fills, Rest

LEMMA SEIValueBytes ==
  ASSUME NEW v \in Nat
  PROVE  /\ SEIValue(v) \in Seq(Byte) /\ Len(SEIValue(v)) = Fills(v) + 1
         /\ \A i \in 1 .. Fills(v) : SEIValue(v)[i] = 255
         /\ SEIValue(v)[Fills(v) + 1] = Rest(v)
<1> DEFINE q == Fills(v)
           r == Rest(v)
           f == [i \in 1 .. q |-> 255]
           g == <<r>>
<1>1. q \in Nat /\ r \in Nat /\ r < 255
  BY FillsAndRest
<1>2. SEIValue(v) = f \o g
  BY DEF SEIValue, Fills, Rest
<1> HIDE DEF q, r
<1>3. f \in Seq(Byte) /\ Len(f) = q
  <2>1. f \in [1 .. q -> Byte]
    BY DEF Byte
  <2> QED
    BY <1>1, <2>1, FunctionIsSeq
<1>4. g \in Seq(Byte) /\ Len(g) = 1 /\ g[1] = r
  <2>1. r \in Byte
    BY <1>1 DEF Byte
  <2> QED
    BY <2>1
<1>5. \A i \in 1 .. q : f[i] = 255
  OBVIOUS
<1> HIDE DEF f, g
<1>6. /\ f \o g \in Seq(Byte) /\ Len(f \o g) = q + 1
      /\ \A i \in 1 .. q + 1 : (f \o g)[i] = IF i <= q THEN f[i] ELSE g[i - q]
  <2>1. /\ f \o g \in Seq(Byte) /\ Len(f \o g) = Len(f) + Len(g)
        /\ \A i \in 1 .. Len(f) + Len(g) :
             (f \o g)[i] = IF i <= Len(f) THEN f[i] ELSE g[i - Len(f)]
    BY <1>3, <1>4, ConcatProperties
  <2> QED
    BY <1>3, <1>4, <2>1
<1>7. \A i \in 1 .. q : (f \o g)[i] = 255
  BY <1>1, <1>5, <1>6
<1>8. (f \o g)[q + 1] = r
  <2>1. q + 1 \in 1 .. q + 1 /\ ~(q + 1 <= q) /\ (q + 1) - q = 1
    BY <1>1
  <2> QED
    BY <1>4, <1>6, <2>1
<1> DEFINE w == f \o g
<1>9. /\ w \in Seq(Byte) /\ Len(w) = q + 1
      /\ \A i \in 1 .. q : w[i] = 255
      /\ w[q + 1] = r
  BY <1>6, <1>7, <1>8
<1>10. SEIValue(v) = w
  BY <1>2
<1> HIDE DEF w
<1> QED
  BY <1>9, <1>10 DEF q, r

LEMMA ConsumesValue ==
  ASSUME NEW data \in Seq(Byte), NEW pos \in Nat, NEW v \in Nat, pos > 0,
         NEW e, e = pos + Fills(v), e <= Len(data),
         \A i \in pos .. e - 1 : data[i] = 255, data[e] = Rest(v)
  PROVE  ConsumeSEIValue(data, pos) = [ok |-> TRUE, value |-> v, pos |-> e + 1]
<1> DEFINE q == Fills(v)
           r == Rest(v)
           ends == {i \in pos .. Len(data) : data[i] # 255}
           last == CHOOSE i \in ends : \A j \in ends : i <= j
<1>1. q \in Nat /\ r \in Nat /\ r < 255 /\ v = 255 * q + r
  BY FillsAndRest
<1>2. /\ e = pos + q /\ e <= Len(data) /\ data[e] = r
      /\ \A i \in pos .. e - 1 : data[i] = 255
  OBVIOUS
<1>3. Len(data) \in Nat
  BY LenProperties
<1> HIDE DEF q, r
<1>4. e \in ends
  BY <1>1, <1>2, <1>3
<1>5. \A j \in ends : e <= j
  <2> TAKE j \in ends
  <2>1. j \in pos .. Len(data) /\ data[j] # 255
    OBVIOUS
  <2> QED
    BY <1>1, <1>2, <2>1
<1>6. \A j \in ends : j \in Int
  BY <1>3
<1> HIDE DEF ends
<1>7. last = e
  <2>1. e \in Int
    BY <1>4, <1>6
  <2>2. \A i \in ends : (\A j \in ends : i <= j) => i = e
    BY <1>4, <1>5, <1>6, <2>1
  <2> QED
    BY <1>4, <1>5, <2>2
<1> HIDE DEF last
<1>8. 255 * (last - pos) + data[last] = v
  <2>1. last - pos = q
    BY <1>1, <1>2, <1>7
  <2>2. data[last] = r
    BY <1>2, <1>7
  <2> QED
    BY <1>1, <2>1, <2>2
<1>9. ends # {}
  BY <1>4
<1>10. ConsumeSEIValue(data, pos) =
        IF ends = {} THEN [ok |-> FALSE, value |-> 0, pos |-> pos]
        ELSE [ok |-> TRUE, value |-> 255 * (last - pos) + data[last], pos |-> last + 1]
  BY DEF ConsumeSEIValue, ends, last
<1> QED
  BY <1>2, <1>7, <1>8, <1>9, <1>10

LEMMA Piece ==
  ASSUME NEW s \in Seq(Byte), NEW b \in Nat, NEW k \in Nat, b + k <= Len(s),
         NEW lo, lo = b + 1, NEW hi, hi = b + k
  PROVE  /\ SubSeq(s, lo, hi) \in Seq(Byte) /\ Len(SubSeq(s, lo, hi)) = k
         /\ \A i \in 1 .. k : SubSeq(s, lo, hi)[i] = s[b + i]
<1>1. lo \in Int /\ hi \in Int /\ hi - lo + 1 = k /\ Len(s) \in Nat /\ (lo <= hi <=> k > 0)
  BY LenProperties
<1>2. ASSUME NEW i \in lo .. hi PROVE s[i] \in Byte
  <2>1. i \in 1 .. Len(s)
    BY <1>1
  <2> QED
    BY <2>1, ElementOfSeq
<1> DEFINE t == SubSeq(s, lo, hi)
<1>3. /\ t \in Seq(Byte) /\ Len(t) = IF lo <= hi THEN hi - lo + 1 ELSE 0
      /\ \A i \in 1 .. hi - lo + 1 : t[i] = s[lo + i - 1]
  BY <1>1, <1>2, SubSeqProperties
<1> HIDE DEF t
<1>4. Len(t) = k
  BY <1>1, <1>3
<1>5. \A i \in 1 .. k : lo + i - 1 = b + i
  BY <1>1
<1>6. \A i \in 1 .. k : t[i] = s[b + i]
  BY <1>1, <1>3, <1>5
<1> QED
  BY <1>3, <1>4, <1>6 DEF t

LEMMA ConsumeBounds ==
  ASSUME NEW data \in Seq(Byte), NEW pos \in Nat, pos > 0, ConsumeSEIValue(data, pos).ok
  PROVE  /\ ConsumeSEIValue(data, pos).value \in Nat
         /\ ConsumeSEIValue(data, pos).pos \in pos + 1 .. Len(data) + 1
<1> DEFINE ends == {i \in pos .. Len(data) : data[i] # 255}
           last == CHOOSE i \in ends : \A j \in ends : i <= j
<1>1. Len(data) \in Nat
  BY LenProperties
<1>2. ConsumeSEIValue(data, pos) =
        IF ends = {} THEN [ok |-> FALSE, value |-> 0, pos |-> pos]
        ELSE [ok |-> TRUE, value |-> 255 * (last - pos) + data[last], pos |-> last + 1]
  BY DEF ConsumeSEIValue
<1>3. ends \in SUBSET Nat /\ \A i \in ends : i \in pos .. Len(data)
  BY <1>1
<1> HIDE DEF ends
<1>4. ends # {}
  BY <1>2
<1>5. \E i \in ends : \A j \in ends : i <= j
  BY <1>3, <1>4, LeastNumber
<1>6. last \in ends
  BY <1>5
<1>7. last \in pos .. Len(data)
  BY <1>3, <1>6
<1> HIDE DEF last
<1>8. data[last] \in Nat
  <2>1. last \in 1 .. Len(data)
    BY <1>1, <1>7
  <2>2. data[last] \in Byte
    BY <2>1, ElementOfSeq
  <2> QED
    BY <2>2, ByteNat
<1>9. 255 * (last - pos) + data[last] \in Nat /\ last + 1 \in pos + 1 .. Len(data) + 1
  BY <1>1, <1>7, <1>8
<1> QED
  BY <1>2, <1>4, <1>9

(* One step of extractTransportSEI at pos, the rest of the work in f.      *)
ExtractStep(data, f, pos) ==
  LET type == ConsumeSEIValue(data, pos)
      size == ConsumeSEIValue(data, type.pos)
      payload == SubSeq(data, size.pos, size.pos + size.value - 1)
      rest == f[size.pos + size.value]
      frame == IF type.value = 5 /\ IsPrefix(UUID, payload)
               THEN <<SubSeq(payload, 17, Len(payload))>> ELSE <<>>
  IN  IF pos > Len(data) \/ (pos = Len(data) /\ data[pos] = 128)
      THEN [ok |-> TRUE, frames |-> <<>>]
      ELSE IF ~type.ok \/ ~size.ok \/ size.pos + size.value - 1 > Len(data)
      THEN [ok |-> FALSE, frames |-> <<>>]
      ELSE [ok |-> rest.ok, frames |-> frame \o rest.frames]
IsExtract(data, f) == f = [pos \in 1 .. Len(data) + 1 |-> ExtractStep(data, f, pos)]

LEMMA ExtractStepLooksAhead ==
  ASSUME NEW data \in Seq(Byte), NEW f, NEW g, NEW pos \in 1 .. Len(data) + 1,
         \A i \in pos + 1 .. Len(data) + 1 : f[i] = g[i]
  PROVE  ExtractStep(data, f, pos) = ExtractStep(data, g, pos)
<1> DEFINE type == ConsumeSEIValue(data, pos)
           size == ConsumeSEIValue(data, type.pos)
           stop == pos > Len(data) \/ (pos = Len(data) /\ data[pos] = 128)
           bad == ~type.ok \/ ~size.ok \/ size.pos + size.value - 1 > Len(data)
           frame == IF type.value = 5 /\ IsPrefix(UUID, SubSeq(data, size.pos, size.pos + size.value - 1))
                    THEN <<SubSeq(SubSeq(data, size.pos, size.pos + size.value - 1), 17,
                                  Len(SubSeq(data, size.pos, size.pos + size.value - 1)))>> ELSE <<>>
<1>1. /\ ExtractStep(data, f, pos) =
           IF stop THEN [ok |-> TRUE, frames |-> <<>>]
           ELSE IF bad THEN [ok |-> FALSE, frames |-> <<>>]
           ELSE [ok |-> f[size.pos + size.value].ok,
                 frames |-> frame \o f[size.pos + size.value].frames]
      /\ ExtractStep(data, g, pos) =
           IF stop THEN [ok |-> TRUE, frames |-> <<>>]
           ELSE IF bad THEN [ok |-> FALSE, frames |-> <<>>]
           ELSE [ok |-> g[size.pos + size.value].ok,
                 frames |-> frame \o g[size.pos + size.value].frames]
  BY DEF ExtractStep
<1>2. Len(data) \in Nat /\ pos \in Nat /\ pos > 0
  BY LenProperties
<1> HIDE DEF frame, stop
<1>3. ASSUME ~bad PROVE f[size.pos + size.value] = g[size.pos + size.value]
  <2>1. type.pos \in pos + 1 .. Len(data) + 1
    BY <1>2, <1>3, ConsumeBounds
  <2>2. type.pos \in Nat /\ type.pos > 0
    BY <1>2, <2>1
  <2> HIDE DEF type
  <2>3. size.value \in Nat /\ size.pos \in type.pos + 1 .. Len(data) + 1
    BY <1>3, <2>2, ConsumeBounds
  <2>4. ~(size.pos + size.value - 1 > Len(data))
    BY <1>3
  <2> HIDE DEF size
  <2>5. size.pos + size.value \in pos + 1 .. Len(data) + 1
    <3>1. PICK x \in Nat, y \in Nat, v \in Nat : x = type.pos /\ y = size.pos /\ v = size.value
      BY <1>2, <2>2, <2>3
    <3>2. x >= pos + 1 /\ y >= x + 1 /\ y + v <= Len(data) + 1
      BY <1>2, <2>1, <2>3, <2>4, <3>1
    <3>3. y + v \in pos + 1 .. Len(data) + 1
      BY ONLY <1>2, <3>2, x \in Nat, y \in Nat, v \in Nat
    <3> QED
      BY ONLY <3>1, <3>3
  <2> QED
    BY <2>5
<1> HIDE DEF bad
<1>4. CASE bad
  BY <1>1, <1>4
<1>5. CASE ~bad
  <2> DEFINE x == f[size.pos + size.value]
             y == g[size.pos + size.value]
  <2>1. x = y
    BY <1>3, <1>5
  <2>2. /\ ~stop => ExtractStep(data, f, pos) = [ok |-> x.ok, frames |-> frame \o x.frames]
        /\ ~stop => ExtractStep(data, g, pos) = [ok |-> y.ok, frames |-> frame \o y.frames]
        /\ stop => ExtractStep(data, f, pos) = [ok |-> TRUE, frames |-> <<>>]
        /\ stop => ExtractStep(data, g, pos) = [ok |-> TRUE, frames |-> <<>>]
    BY <1>1, <1>5
  <2> HIDE DEF x, y, size, type
  <2>3. [ok |-> x.ok, frames |-> frame \o x.frames] = [ok |-> y.ok, frames |-> frame \o y.frames]
    BY <2>1
  <2>4. CASE stop
    BY <2>2, <2>4
  <2>5. CASE ~stop
    BY <2>2, <2>3, <2>5
  <2> QED
    BY <2>4, <2>5
<1> QED
  BY <1>4, <1>5

LEMMA ExtractExists ==
  ASSUME NEW data \in Seq(Byte)
  PROVE  \E f : IsExtract(data, f)
<1> DEFINE N == Len(data) + 1
           Solved(k) == \E f : \A pos \in N - k + 1 .. N : f[pos] = ExtractStep(data, f, pos)
           T == {k \in 0 .. N : ~Solved(k)}
<1>0. N \in Nat
  BY LenProperties
<1>1. Solved(N)
  <2> SUFFICES ASSUME ~Solved(N) PROVE FALSE
    OBVIOUS
  <2>1. N \in T /\ T \in SUBSET Nat
    BY <1>0
  <2>2. PICK k \in T : \A j \in T : k <= j
    BY <2>1, LeastNumber
  <2>3. k \in 0 .. N /\ ~Solved(k)
    OBVIOUS
  <2>4. k # 0
    <3>1. N - 0 + 1 .. N = {}
      BY <1>0
    <3>2. Solved(0)
      BY <3>1
    <3> QED
      BY <2>3, <3>2
  <2>5. k - 1 \in 0 .. N /\ ~(k <= k - 1)
    BY <1>0, <2>3, <2>4
  <2>6. Solved(k - 1)
    BY <2>2, <2>5
  <2>7. PICK f : \A pos \in N - (k - 1) + 1 .. N : f[pos] = ExtractStep(data, f, pos)
    BY <2>6
  <2> DEFINE m == N - k + 1
             h == [pos \in 1 .. N |-> IF pos = m THEN ExtractStep(data, f, m) ELSE f[pos]]
  <2>8. m \in 1 .. N /\ N - (k - 1) + 1 = m + 1
    BY <1>0, <2>3, <2>4
  <2>9. ASSUME NEW pos \in m .. N PROVE h[pos] = ExtractStep(data, h, pos)
    <3> HIDE DEF m, T
    <3>1. pos \in 1 .. N
      BY <1>0, <2>8
    <3>2. \A i \in pos + 1 .. N : h[i] = f[i]
      <4> TAKE i \in pos + 1 .. N
      <4>1. i \in 1 .. N /\ i # m
        BY <1>0, <2>8, <3>1
      <4> QED
        BY <4>1
    <3> HIDE DEF h
    <3>3. ExtractStep(data, h, pos) = ExtractStep(data, f, pos)
      BY <3>1, <3>2, ExtractStepLooksAhead
    <3>4. h[pos] = ExtractStep(data, f, pos)
      <4>1. CASE pos = m
        BY <2>8, <4>1 DEF h
      <4>2. CASE pos # m
        <5>1. pos \in m + 1 .. N
          BY <1>0, <2>8, <4>2
        <5>2. f[pos] = ExtractStep(data, f, pos)
          BY <2>7, <2>8, <5>1
        <5> QED
          BY <3>1, <4>2, <5>2 DEF h
      <4> QED
        BY <4>1, <4>2
    <3> QED
      BY <3>3, <3>4
  <2> HIDE DEF h
  <2>10. Solved(k)
    BY <2>9
  <2> QED
    BY <2>3, <2>10
<1>2. PICK f : \A pos \in 1 .. N : f[pos] = ExtractStep(data, f, pos)
  <2>1. N - N + 1 = 1
    BY <1>0
  <2> QED
    BY <1>1, <2>1
<1> DEFINE h == [pos \in 1 .. N |-> f[pos]]
<1>3. ASSUME NEW pos \in 1 .. N PROVE h[pos] = ExtractStep(data, h, pos)
  <2>1. \A i \in pos + 1 .. N : i \in 1 .. N
    BY <1>0
  <2>2. \A i \in pos + 1 .. N : h[i] = f[i]
    BY <2>1
  <2>3. h[pos] = f[pos]
    OBVIOUS
  <2> HIDE DEF h
  <2>4. ExtractStep(data, h, pos) = ExtractStep(data, f, pos)
    BY <2>2, ExtractStepLooksAhead
  <2> QED
    BY <1>2, <2>3, <2>4
<1>4. IsExtract(data, h)
  <2>1. h = [pos \in 1 .. N |-> h[pos]]
    OBVIOUS
  <2> HIDE DEF h
  <2> QED
    BY <1>3, <2>1 DEF IsExtract
<1> QED
  BY <1>4

LEMMA ExtractedFrames ==
  ASSUME NEW rbsp, UnescapeRBSP(rbsp) \in Seq(Byte)
  PROVE  \E f : /\ \A pos \in 1 .. Len(UnescapeRBSP(rbsp)) + 1 :
                     f[pos] = ExtractStep(UnescapeRBSP(rbsp), f, pos)
                /\ ExtractTransportSEI(rbsp) = IF f[1].ok THEN f[1].frames ELSE <<>>
<1> DEFINE data == UnescapeRBSP(rbsp)
           f == CHOOSE g : IsExtract(data, g)
<1>1. ExtractTransportSEI(rbsp) = IF f[1].ok THEN f[1].frames ELSE <<>>
  BY DEF ExtractTransportSEI, IsExtract, ExtractStep
<1>2. IsExtract(data, f)
  BY ExtractExists
<1> HIDE DEF f
<1>3. \A pos \in 1 .. Len(data) + 1 : f[pos] = ExtractStep(data, f, pos)
  BY <1>2 DEF IsExtract
<1> QED
  BY <1>1, <1>3

-----------------------------------------------------------------------------
(* The start codes of a unit, and one step of extractVideoPayloads at pos. *)
CodesOf(unit) == {i \in 1 .. Len(unit) - 2 : unit[i] = 0 /\ unit[i + 1] = 0 /\ unit[i + 2] = 1}
NextCode(unit, pos) ==
  CHOOSE i \in CodesOf(unit) : i >= pos /\ \A j \in CodesOf(unit) : j >= pos => i <= j
LastOf(unit, i) ==
  IF \A j \in CodesOf(unit) : j <= i THEN Len(unit)
  ELSE NextCode(unit, i + 1) - (IF unit[NextCode(unit, i + 1) - 1] = 0 THEN 2 ELSE 1)
FoundAt(unit, i) ==
  LET nal == SubSeq(unit, i + 3, LastOf(unit, i))
  IN  IF Len(nal) >= 2 /\ nal[1] % 32 = 6 THEN ExtractTransportSEI(Tail(nal)) ELSE <<>>
PayloadStep(unit, f, pos) ==
  IF \A i \in CodesOf(unit) : i < pos THEN <<>>
  ELSE FoundAt(unit, NextCode(unit, pos)) \o f[NextCode(unit, pos) + 1]
IsPayloads(unit, f) == f = [pos \in 1 .. Len(unit) + 1 |-> PayloadStep(unit, f, pos)]

LEMMA NextCodeIs ==
  ASSUME NEW unit \in Seq(Byte), NEW pos \in Nat, ~ \A i \in CodesOf(unit) : i < pos
  PROVE  /\ NextCode(unit, pos) \in CodesOf(unit) /\ NextCode(unit, pos) >= pos
         /\ \A j \in CodesOf(unit) : j >= pos => NextCode(unit, pos) <= j
<1>1. \A i \in CodesOf(unit) : i \in Nat
  BY DEF CodesOf
<1> DEFINE T == {i \in CodesOf(unit) : i >= pos}
<1>2. T # {} /\ T \in SUBSET Nat
  BY <1>1
<1>3. \E i \in T : \A j \in T : i <= j
  BY <1>2, LeastNumber
<1>4. \E i \in CodesOf(unit) : i >= pos /\ \A j \in CodesOf(unit) : j >= pos => i <= j
  BY <1>3
<1> QED
  BY <1>4 DEF NextCode

LEMMA PayloadStepLooksAhead ==
  ASSUME NEW unit \in Seq(Byte), NEW f, NEW g, NEW pos \in 1 .. Len(unit) + 1,
         \A i \in pos + 1 .. Len(unit) + 1 : f[i] = g[i]
  PROVE  PayloadStep(unit, f, pos) = PayloadStep(unit, g, pos)
<1>1. CASE \A i \in CodesOf(unit) : i < pos
  BY <1>1 DEF PayloadStep
<1>2. CASE ~ \A i \in CodesOf(unit) : i < pos
  <2>1. NextCode(unit, pos) \in CodesOf(unit) /\ NextCode(unit, pos) >= pos
    BY <1>2, NextCodeIs
  <2>2. NextCode(unit, pos) \in 1 .. Len(unit) - 2 /\ Len(unit) \in Nat
    BY <2>1, LenProperties DEF CodesOf
  <2>3. NextCode(unit, pos) + 1 \in pos + 1 .. Len(unit) + 1
    BY <2>1, <2>2
  <2>4. f[NextCode(unit, pos) + 1] = g[NextCode(unit, pos) + 1]
    BY <2>3
  <2> QED
    BY <1>2, <2>4 DEF PayloadStep
<1> QED
  BY <1>1, <1>2

LEMMA PayloadsExist ==
  ASSUME NEW unit \in Seq(Byte)
  PROVE  \E f : IsPayloads(unit, f)
<1> DEFINE N == Len(unit) + 1
           Solved(k) == \E f : \A pos \in N - k + 1 .. N : f[pos] = PayloadStep(unit, f, pos)
           T == {k \in 0 .. N : ~Solved(k)}
<1>0. N \in Nat
  BY LenProperties
<1>1. Solved(N)
  <2> SUFFICES ASSUME ~Solved(N) PROVE FALSE
    OBVIOUS
  <2>1. N \in T /\ T \in SUBSET Nat
    BY <1>0
  <2>2. PICK k \in T : \A j \in T : k <= j
    BY <2>1, LeastNumber
  <2>3. k \in 0 .. N /\ ~Solved(k)
    OBVIOUS
  <2>4. k # 0
    <3>1. N - 0 + 1 .. N = {}
      BY <1>0
    <3>2. Solved(0)
      BY <3>1
    <3> QED
      BY <2>3, <3>2
  <2>5. k - 1 \in 0 .. N /\ ~(k <= k - 1)
    BY <1>0, <2>3, <2>4
  <2>6. Solved(k - 1)
    BY <2>2, <2>5
  <2>7. PICK f : \A pos \in N - (k - 1) + 1 .. N : f[pos] = PayloadStep(unit, f, pos)
    BY <2>6
  <2> DEFINE m == N - k + 1
             h == [pos \in 1 .. N |-> IF pos = m THEN PayloadStep(unit, f, m) ELSE f[pos]]
  <2>8. m \in 1 .. N /\ N - (k - 1) + 1 = m + 1
    BY <1>0, <2>3, <2>4
  <2>9. ASSUME NEW pos \in m .. N PROVE h[pos] = PayloadStep(unit, h, pos)
    <3> HIDE DEF m, T
    <3>1. pos \in 1 .. N
      BY <1>0, <2>8
    <3>2. \A i \in pos + 1 .. N : h[i] = f[i]
      <4> TAKE i \in pos + 1 .. N
      <4>1. i \in 1 .. N /\ i # m
        BY <1>0, <2>8, <3>1
      <4> QED
        BY <4>1
    <3> HIDE DEF h
    <3>3. PayloadStep(unit, h, pos) = PayloadStep(unit, f, pos)
      BY <3>1, <3>2, PayloadStepLooksAhead
    <3>4. h[pos] = PayloadStep(unit, f, pos)
      <4>1. CASE pos = m
        BY <2>8, <4>1 DEF h
      <4>2. CASE pos # m
        <5>1. pos \in m + 1 .. N
          BY <1>0, <2>8, <4>2
        <5>2. f[pos] = PayloadStep(unit, f, pos)
          BY <2>7, <2>8, <5>1
        <5> QED
          BY <3>1, <4>2, <5>2 DEF h
      <4> QED
        BY <4>1, <4>2
    <3> QED
      BY <3>3, <3>4
  <2> HIDE DEF h
  <2>10. Solved(k)
    BY <2>9
  <2> QED
    BY <2>3, <2>10
<1>2. PICK f : \A pos \in 1 .. N : f[pos] = PayloadStep(unit, f, pos)
  <2>1. N - N + 1 = 1
    BY <1>0
  <2> QED
    BY <1>1, <2>1
<1> DEFINE h == [pos \in 1 .. N |-> f[pos]]
<1>3. ASSUME NEW pos \in 1 .. N PROVE h[pos] = PayloadStep(unit, h, pos)
  <2>1. \A i \in pos + 1 .. N : i \in 1 .. N
    BY <1>0
  <2>2. \A i \in pos + 1 .. N : h[i] = f[i]
    BY <2>1
  <2>3. h[pos] = f[pos]
    OBVIOUS
  <2> HIDE DEF h
  <2>4. PayloadStep(unit, h, pos) = PayloadStep(unit, f, pos)
    BY <2>2, PayloadStepLooksAhead
  <2> QED
    BY <1>2, <2>3, <2>4
<1>4. IsPayloads(unit, h)
  <2>1. h = [pos \in 1 .. N |-> h[pos]]
    OBVIOUS
  <2> HIDE DEF h
  <2> QED
    BY <1>3, <2>1 DEF IsPayloads
<1> QED
  BY <1>4

LEMMA FoundPayloads ==
  ASSUME NEW unit \in Seq(Byte)
  PROVE  \E f : /\ \A pos \in 1 .. Len(unit) + 1 : f[pos] = PayloadStep(unit, f, pos)
                /\ ExtractVideoPayloads(unit) = f[1]
<1> DEFINE f == CHOOSE g : IsPayloads(unit, g)
<1>1. ExtractVideoPayloads(unit) = f[1]
  BY DEF ExtractVideoPayloads, IsPayloads, PayloadStep, FoundAt, LastOf, NextCode, CodesOf
<1>2. IsPayloads(unit, f)
  BY PayloadsExist
<1> HIDE DEF f
<1>3. \A pos \in 1 .. Len(unit) + 1 : f[pos] = PayloadStep(unit, f, pos)
  BY <1>2 DEF IsPayloads
<1> QED
  BY <1>1, <1>3

-----------------------------------------------------------------------------
(* The message of a transport frame, byte by byte.                         *)
Message5(payload) ==
  SEIValue(5) \o SEIValue(16 + Len(payload)) \o UUID \o payload \o <<128>>
SizeBytes(payload) == Fills(16 + Len(payload))

LEMMA UUIDBytes == UUID \in Seq(Byte) /\ Len(UUID) = 16
BY DEF UUID, Byte

LEMMA JoinTwice ==
  ASSUME NEW a \in Seq(Byte), NEW b \in Seq(Byte), NEW c \in Seq(Byte)
  PROVE  (a \o b) \o c = a \o (b \o c)
BY ConcatAssociative

LEMMA Joined ==
  ASSUME NEW a \in Seq(Byte), NEW b \in Seq(Byte)
  PROVE  /\ a \o b \in Seq(Byte) /\ Len(a \o b) = Len(a) + Len(b) /\ Len(a) \in Nat /\ Len(b) \in Nat
         /\ \A i \in 1 .. Len(a) : (a \o b)[i] = a[i]
         /\ \A i \in 1 .. Len(b) : (a \o b)[Len(a) + i] = b[i]
<1>0. Len(a) \in Nat /\ Len(b) \in Nat
  BY LenProperties
<1>1. /\ a \o b \in Seq(Byte) /\ Len(a \o b) = Len(a) + Len(b)
      /\ \A i \in 1 .. Len(a) + Len(b) : (a \o b)[i] = IF i <= Len(a) THEN a[i] ELSE b[i - Len(a)]
  BY ConcatProperties
<1>2. \A i \in 1 .. Len(a) : (a \o b)[i] = a[i]
  BY <1>0, <1>1
<1>3. ASSUME NEW i \in 1 .. Len(b) PROVE (a \o b)[Len(a) + i] = b[i]
  <2>1. Len(a) + i \in 1 .. Len(a) + Len(b) /\ ~(Len(a) + i <= Len(a)) /\ (Len(a) + i) - Len(a) = i
    BY <1>0
  <2> QED
    BY <1>1, <2>1
<1> QED
  BY <1>0, <1>1, <1>2, <1>3

LEMMA MessageBytes ==
  ASSUME NEW payload \in Seq(Byte)
  PROVE  LET m == Message5(payload)
             n == Len(payload)
             q == SizeBytes(payload)
         IN  /\ m \in Seq(Byte) /\ n \in Nat /\ q \in Nat /\ Len(m) = q + 19 + n
             /\ m[1] = 5 /\ m[q + 19 + n] = 128
             /\ \A i \in 2 .. q + 1 : m[i] = 255
             /\ m[q + 2] = Rest(16 + n)
             /\ \A i \in 1 .. 16 : m[q + 2 + i] = UUID[i]
             /\ \A i \in 1 .. n : m[q + 18 + i] = payload[i]
<1> DEFINE n == Len(payload)
           q == SizeBytes(payload)
           a == SEIValue(5)
           b == SEIValue(16 + n)
           c == a \o b
           d == c \o UUID
           e == d \o payload
           m == e \o <<128>>
<1>1. n \in Nat /\ 16 + n \in Nat
  BY LenProperties
<1>2. q \in Nat
  BY <1>1, FillsAndRest DEF SizeBytes
<1>3. a \in Seq(Byte) /\ Len(a) = 1 /\ a[1] = 5
  <2>1. Fills(5) = 0 /\ Rest(5) = 5
    BY DEF Fills, Rest
  <2>2. a \in Seq(Byte) /\ Len(a) = Fills(5) + 1 /\ a[Fills(5) + 1] = Rest(5)
    BY SEIValueBytes
  <2> HIDE DEF a
  <2> QED
    BY <2>1, <2>2
<1>4. /\ b \in Seq(Byte) /\ Len(b) = q + 1 /\ b[q + 1] = Rest(16 + n)
      /\ \A i \in 1 .. q : b[i] = 255
  <2> DEFINE v == 16 + n
  <2>1. v \in Nat /\ q = Fills(v) /\ b = SEIValue(v) /\ v = 16 + n
    BY <1>1 DEF SizeBytes
  <2> HIDE DEF b, q, v
  <2>2. b \in Seq(Byte) /\ Len(b) = q + 1 /\ b[q + 1] = Rest(v)
    BY <2>1, SEIValueBytes
  <2>3. \A i \in 1 .. q : b[i] = 255
    BY <2>1, SEIValueBytes
  <2> QED
    BY <2>1, <2>2, <2>3
<1>5. m = Message5(payload)
  BY DEF Message5
<1>6. <<128>> \in Seq(Byte) /\ Len(<<128>>) = 1 /\ <<128>>[1] = 128
  BY DEF Byte
<1> HIDE DEF a, b, q
<1>7. /\ c \in Seq(Byte) /\ Len(c) = q + 2
      /\ \A i \in 1 .. 1 : c[i] = a[i]
      /\ \A i \in 1 .. q + 1 : c[1 + i] = b[i]
  <2>1. /\ c \in Seq(Byte) /\ Len(c) = Len(a) + Len(b)
        /\ \A i \in 1 .. Len(a) : c[i] = a[i]
        /\ \A i \in 1 .. Len(b) : c[Len(a) + i] = b[i]
    <3>1. a \in Seq(Byte) /\ b \in Seq(Byte)
      BY <1>3, <1>4
    <3> QED
      BY <3>1, Joined
  <2> HIDE DEF c
  <2> QED
    BY <1>2, <1>3, <1>4, <2>1
<1> HIDE DEF c
<1>8. /\ d \in Seq(Byte) /\ Len(d) = q + 18
      /\ \A i \in 1 .. q + 2 : d[i] = c[i]
      /\ \A i \in 1 .. 16 : d[q + 2 + i] = UUID[i]
  <2>1. /\ d \in Seq(Byte) /\ Len(d) = Len(c) + Len(UUID)
        /\ \A i \in 1 .. Len(c) : d[i] = c[i]
        /\ \A i \in 1 .. Len(UUID) : d[Len(c) + i] = UUID[i]
    <3>1. c \in Seq(Byte) /\ UUID \in Seq(Byte)
      BY <1>7, UUIDBytes
    <3> QED
      BY ONLY <3>1, Joined
  <2> HIDE DEF d
  <2> QED
    BY <1>2, <1>7, UUIDBytes, <2>1
<1> HIDE DEF d
<1>9. /\ e \in Seq(Byte) /\ Len(e) = q + 18 + n
      /\ \A i \in 1 .. q + 18 : e[i] = d[i]
      /\ \A i \in 1 .. n : e[q + 18 + i] = payload[i]
  <2>1. /\ e \in Seq(Byte) /\ Len(e) = Len(d) + Len(payload)
        /\ \A i \in 1 .. Len(d) : e[i] = d[i]
        /\ \A i \in 1 .. Len(payload) : e[Len(d) + i] = payload[i]
    BY <1>8, Joined
  <2> HIDE DEF e
  <2> QED
    BY <1>1, <1>2, <1>8, <2>1
<1> HIDE DEF e
<1>10. /\ m \in Seq(Byte) /\ Len(m) = q + 19 + n
       /\ \A i \in 1 .. q + 18 + n : m[i] = e[i]
       /\ m[q + 19 + n] = 128
  <2> DEFINE t == <<128>>
  <2>0. t \in Seq(Byte) /\ Len(t) = 1 /\ t[1] = 128 /\ m = e \o t
    BY <1>6
  <2> HIDE DEF t
  <2>1. /\ m \in Seq(Byte) /\ Len(m) = Len(e) + Len(t)
        /\ \A i \in 1 .. Len(e) : m[i] = e[i]
        /\ \A i \in 1 .. Len(t) : m[Len(e) + i] = t[i]
    BY <1>9, <2>0, Joined
  <2> HIDE DEF m
  <2>2. Len(m) = q + 19 + n /\ q + 18 + n + 1 = q + 19 + n
    BY <1>1, <1>2, <1>9, <2>0, <2>1
  <2>3. m[q + 18 + n + 1] = 128
    BY <1>9, <2>0, <2>1
  <2> QED
    BY <1>9, <2>1, <2>2, <2>3
<1> HIDE DEF m, n
<1>11. m[1] = 5
  <2>1. 1 \in 1 .. q + 18 + n /\ 1 \in 1 .. q + 18 /\ 1 \in 1 .. q + 2 /\ 1 \in 1 .. 1
    BY <1>1, <1>2
  <2>2. m[1] = e[1] /\ e[1] = d[1] /\ d[1] = c[1] /\ c[1] = a[1]
    <3>1. m[1] = e[1]
      BY ONLY <1>10, <2>1
    <3>2. e[1] = d[1]
      BY ONLY <1>9, <2>1
    <3>3. d[1] = c[1]
      BY ONLY <1>8, <2>1
    <3>4. c[1] = a[1]
      BY ONLY <1>7, <2>1
    <3> QED
      BY ONLY <3>1, <3>2, <3>3, <3>4
  <2> QED
    BY <1>3, <2>2
<1>12. ASSUME NEW i \in 1 .. q + 1 PROVE m[1 + i] = b[i]
  <2>1. 1 + i \in 1 .. q + 18 + n /\ 1 + i \in 1 .. q + 18 /\ 1 + i \in 1 .. q + 2
    BY <1>1, <1>2
  <2>2. /\ m[1 + i] = e[1 + i] /\ e[1 + i] = d[1 + i]
        /\ d[1 + i] = c[1 + i] /\ c[1 + i] = b[i]
    BY <1>7, <1>8, <1>9, <1>10, <2>1, Zenon
  <2> QED
    BY <2>2
<1>13. ASSUME NEW i \in 2 .. q + 1 PROVE m[i] = 255
  <2>1. i - 1 \in 1 .. q + 1 /\ i - 1 \in 1 .. q /\ 1 + (i - 1) = i
    BY <1>2
  <2> QED
    BY <1>4, <1>12, <2>1
<1>14. m[q + 2] = Rest(16 + n)
  <2>1. q + 1 \in 1 .. q + 1 /\ 1 + (q + 1) = q + 2
    BY <1>2
  <2> QED
    BY <1>4, <1>12, <2>1
<1>15. ASSUME NEW i \in 1 .. 16 PROVE m[q + 2 + i] = UUID[i]
  <2>1. q + 2 + i \in 1 .. q + 18 + n /\ q + 2 + i \in 1 .. q + 18
    BY <1>1, <1>2
  <2>2. m[q + 2 + i] = e[q + 2 + i] /\ e[q + 2 + i] = d[q + 2 + i] /\ d[q + 2 + i] = UUID[i]
    BY <1>8, <1>9, <1>10, <2>1, Zenon
  <2> QED
    BY <2>2
<1>16. ASSUME NEW i \in 1 .. n PROVE m[q + 18 + i] = payload[i]
  <2>1. q + 18 + i \in 1 .. q + 18 + n
    BY <1>1, <1>2
  <2> QED
    BY <1>9, <1>10, <2>1 DEF n
<1> QED
  BY <1>1, <1>2, <1>5, <1>10, <1>11, <1>13, <1>14, <1>15, <1>16 DEF n, q

(* extractTransportSEI finds the one payload in what buildSEINAL escaped.  *)
LEMMA ExtractsMessage ==
  ASSUME NEW payload \in Seq(Byte)
  PROVE  ExtractTransportSEI(EscapeRBSP(Message5(payload))) = <<payload>>
<1> DEFINE m == Message5(payload)
           n == Len(payload)
           q == SizeBytes(payload)
           rbsp == EscapeRBSP(m)
           P == SubSeq(m, q + 3, q + 18 + n)
<1>1. /\ m \in Seq(Byte) /\ n \in Nat /\ q \in Nat /\ Len(m) = q + 19 + n
      /\ m[1] = 5 /\ m[q + 19 + n] = 128
      /\ \A i \in 2 .. q + 1 : m[i] = 255
      /\ m[q + 2] = Rest(16 + n)
      /\ \A i \in 1 .. 16 : m[q + 2 + i] = UUID[i]
      /\ \A i \in 1 .. n : m[q + 18 + i] = payload[i]
  BY MessageBytes
<1> HIDE DEF m
<1>2. UnescapeRBSP(rbsp) = m
  BY <1>1, EscapeUndone
<1> HIDE DEF rbsp
<1>3. PICK f : /\ \A pos \in 1 .. Len(m) + 1 : f[pos] = ExtractStep(m, f, pos)
               /\ ExtractTransportSEI(rbsp) = IF f[1].ok THEN f[1].frames ELSE <<>>
  BY <1>1, <1>2, ExtractedFrames
<1>a. m \in Seq(Byte) /\ m[1] = 5
  BY <1>1
<1>4. ConsumeSEIValue(m, 1) = [ok |-> TRUE, value |-> 5, pos |-> 2]
  <2>1. Fills(5) = 0 /\ Rest(5) = 5
    BY DEF Fills, Rest
  <2>a. n \in Nat /\ q \in Nat /\ Len(m) = q + 19 + n
    BY <1>1
  <2>b. 1 <= Len(m)
    <3> HIDE DEF n, q
    <3> QED
      BY <2>a
  <2>2. 1 = 1 + Fills(5) /\ 1 <= Len(m)
    BY <2>1, <2>b
  <2>3. \A i \in 1 .. 1 - 1 : m[i] = 255
    OBVIOUS
  <2>5. m[1] = Rest(5)
    BY <1>a, <2>1
  <2>4. ConsumeSEIValue(m, 1) = [ok |-> TRUE, value |-> 5, pos |-> 1 + 1]
    BY <1>a, <2>2, <2>3, <2>5, ConsumesValue
  <2> QED
    BY <2>4
<1>5. ConsumeSEIValue(m, 2) = [ok |-> TRUE, value |-> 16 + n, pos |-> q + 3]
  <2> DEFINE v == 16 + n
  <2>1. Fills(v) = q /\ v \in Nat
    BY <1>1 DEF SizeBytes
  <2> HIDE DEF n, q
  <2>2. m[q + 2] = Rest(v)
    BY <1>1
  <2> HIDE DEF v
  <2>3. q \in Nat /\ q + 2 = 2 + Fills(v) /\ q + 2 <= Len(m) /\ q + 2 - 1 = q + 1
    BY <1>1, <2>1
  <2>5. ConsumeSEIValue(m, 2) = [ok |-> TRUE, value |-> v, pos |-> q + 2 + 1]
    <3> DEFINE e == q + 2
    <3>1. e = 2 + Fills(v) /\ e <= Len(m) /\ m[e] = Rest(v)
      BY <2>2, <2>3
    <3>2. \A i \in 2 .. e - 1 : m[i] = 255
      <4>1. e - 1 = q + 1
        BY <2>3
      <4> HIDE DEF e
      <4> QED
        BY <1>1, <4>1
    <3> HIDE DEF e
    <3>3. ConsumeSEIValue(m, 2) = [ok |-> TRUE, value |-> v, pos |-> e + 1]
      BY <1>a, <2>1, <3>1, <3>2, ConsumesValue
    <3> QED
      BY <3>3 DEF e
  <2>6. q + 2 + 1 = q + 3
    BY <2>3
  <2> QED
    BY <2>5, <2>6 DEF v
<1> HIDE DEF n, q
<1>0. n \in Nat /\ q \in Nat /\ Len(m) = q + 19 + n
  BY <1>1
<1>b. \A i \in 1 .. 16 : m[q + 2 + i] = UUID[i]
  BY <1>1
<1>6. /\ P \in Seq(Byte) /\ Len(P) = 16 + n
      /\ \A i \in 1 .. 16 + n : P[i] = m[q + 2 + i]
  <2>1. /\ q + 2 \in Nat /\ 16 + n \in Nat /\ (q + 2) + (16 + n) <= Len(m)
        /\ q + 3 = (q + 2) + 1 /\ q + 18 + n = (q + 2) + (16 + n)
    BY <1>0, <1>1
  <2> QED
    BY <1>a, <2>1, Piece
<1>7. P = SubSeq(m, q + 3, q + 3 + (16 + n) - 1)
  <2>1. q + 3 + (16 + n) - 1 = q + 18 + n
    BY <1>0
  <2> QED
    BY <2>1
<1> HIDE DEF P
<1>8. IsPrefix(UUID, P)
  <2>1. Len(UUID) <= Len(P)
    BY <1>1, <1>6, UUIDBytes
  <2>2. \A i \in 1 .. 16 : P[i] = UUID[i] /\ P[i] \in Byte /\ UUID[i] \in Byte
    <3> TAKE i \in 1 .. 16
    <3>1. i \in 1 .. 16 + n
      BY <1>0
    <3>2. P[i] = m[q + 2 + i] /\ m[q + 2 + i] = UUID[i]
      BY <1>b, <1>6, <3>1
    <3>3. UUID[i] \in Byte
      BY UUIDBytes, ElementOfSeq
    <3> QED
      BY <3>2, <3>3
  <2> DEFINE a == SubSeq(UUID, 1, 16)
             b == SubSeq(P, 1, 16)
  <2>3. a \in Seq(Byte) /\ Len(a) = 16 /\ \A i \in 1 .. 16 : a[i] = UUID[i]
    <3>1. /\ UUID \in Seq(Byte) /\ 0 + 16 <= Len(UUID) /\ 1 = 0 + 1 /\ 16 = 0 + 16
          /\ \A i \in 1 .. 16 : 0 + i = i
      BY UUIDBytes
    <3>2. a \in Seq(Byte) /\ Len(a) = 16 /\ \A i \in 1 .. 16 : a[i] = UUID[0 + i]
      BY <3>1, Piece
    <3> HIDE DEF a
    <3> QED
      BY <3>1, <3>2
  <2>4. b \in Seq(Byte) /\ Len(b) = 16 /\ \A i \in 1 .. 16 : b[i] = P[i]
    <3>1. /\ P \in Seq(Byte) /\ 0 + 16 <= Len(P) /\ 1 = 0 + 1 /\ 16 = 0 + 16
          /\ \A i \in 1 .. 16 : 0 + i = i
      BY <1>0, <1>6
    <3>2. b \in Seq(Byte) /\ Len(b) = 16 /\ \A i \in 1 .. 16 : b[i] = P[0 + i]
      BY <3>1, Piece
    <3> HIDE DEF b
    <3> QED
      BY <3>1, <3>2
  <2> HIDE DEF a, b
  <2>5. a = b
    <3>1. \A i \in 1 .. Len(a) : a[i] = b[i]
      BY <2>2, <2>3, <2>4
    <3> QED
      BY <2>3, <2>4, <3>1, SeqEqual
  <2> QED
    BY <2>1, <2>5, UUIDBytes DEF IsPrefix, a, b
<1>9. SubSeq(P, 17, Len(P)) = payload
  <2> DEFINE a == SubSeq(P, 17, 16 + n)
  <2>0. payload \in Seq(Byte) /\ Len(payload) = n
    BY DEF n
  <2>2. a \in Seq(Byte) /\ Len(a) = n /\ \A i \in 1 .. n : a[i] = P[16 + i]
    <3>1. 16 + n <= Len(P) /\ 17 = 16 + 1
      BY <1>0, <1>6
    <3> QED
      BY <1>0, <1>6, <3>1, Piece
  <2> HIDE DEF a
  <2>3. Len(a) = n
    BY <2>2
  <2>4. ASSUME NEW i \in 1 .. n PROVE a[i] = payload[i]
    <3>1. 16 + i \in 1 .. 16 + n /\ q + 2 + (16 + i) = q + 18 + i
      BY <1>0
    <3>2. a[i] = P[16 + i]
      BY <2>2
    <3>3. P[16 + i] = m[q + 18 + i]
      BY <1>6, <3>1
    <3> QED
      BY <1>1, <3>2, <3>3
  <2>5. a = payload
    <3>1. \A i \in 1 .. Len(a) : a[i] = payload[i]
      BY <2>3, <2>4
    <3> QED
      BY <2>0, <2>2, <2>3, <3>1, SeqEqual
  <2> QED
    BY <1>6, <2>5 DEF a
<1>10. f[q + 19 + n] = [ok |-> TRUE, frames |-> <<>>]
  <2>1. q + 19 + n \in 1 .. Len(m) + 1 /\ q + 19 + n = Len(m) /\ m[q + 19 + n] = 128
    BY <1>1
  <2>2. f[q + 19 + n] = ExtractStep(m, f, q + 19 + n)
    BY <1>3, <2>1
  <2> QED
    BY <2>1, <2>2 DEF ExtractStep
<1>11. f[1] = [ok |-> f[q + 19 + n].ok, frames |-> <<payload>> \o f[q + 19 + n].frames]
  <2>1. 1 \in 1 .. Len(m) + 1 /\ ~(1 > Len(m)) /\ 1 # Len(m)
    BY <1>0
  <2>2. f[1] = ExtractStep(m, f, 1)
    BY <1>3, <2>1
  <2> DEFINE type == ConsumeSEIValue(m, 1)
             size == ConsumeSEIValue(m, type.pos)
  <2>3. type.ok /\ type.value = 5 /\ type.pos = 2
    BY <1>4
  <2>4. size.ok /\ size.value = 16 + n /\ size.pos = q + 3
    BY <1>4, <1>5
  <2>5. ~(size.pos + size.value - 1 > Len(m)) /\ size.pos + size.value = q + 19 + n
    <3>1. q + 3 + (16 + n) = q + 19 + n /\ ~(q + 3 + (16 + n) - 1 > Len(m))
      BY <1>0
    <3> HIDE DEF type, size
    <3> QED
      BY <2>4, <3>1
  <2>6. SubSeq(m, size.pos, size.pos + size.value - 1) = P
    BY <1>7, <2>4
  <2>7. ExtractStep(m, f, 1) =
          IF 1 > Len(m) \/ (1 = Len(m) /\ m[1] = 128) THEN [ok |-> TRUE, frames |-> <<>>]
          ELSE IF ~type.ok \/ ~size.ok \/ size.pos + size.value - 1 > Len(m)
          THEN [ok |-> FALSE, frames |-> <<>>]
          ELSE [ok |-> f[size.pos + size.value].ok,
                frames |->
                  (IF type.value = 5
                      /\ IsPrefix(UUID, SubSeq(m, size.pos, size.pos + size.value - 1))
                   THEN <<SubSeq(SubSeq(m, size.pos, size.pos + size.value - 1), 17,
                                 Len(SubSeq(m, size.pos, size.pos + size.value - 1)))>>
                   ELSE <<>>) \o f[size.pos + size.value].frames]
    BY DEF ExtractStep
  <2> HIDE DEF type, size
  <2>8. ExtractStep(m, f, 1) =
          [ok |-> f[q + 19 + n].ok, frames |-> <<payload>> \o f[q + 19 + n].frames]
    BY <1>8, <1>9, <2>1, <2>3, <2>4, <2>5, <2>6, <2>7
  <2> QED
    BY <2>2, <2>8
<1>12. <<payload>> \o <<>> = <<payload>>
  <2>1. <<payload>> \in Seq({payload})
    OBVIOUS
  <2> QED
    BY <2>1, ConcatEmptySeq
<1>13. f[1] = [ok |-> TRUE, frames |-> <<payload>>]
  BY <1>10, <1>11, <1>12
<1>14. ExtractTransportSEI(rbsp) = <<payload>>
  BY <1>3, <1>13
<1> QED
  BY <1>14 DEF rbsp, m

-----------------------------------------------------------------------------
(* A unit grows by a start code and a NAL unit without one.                *)
LEMMA StartCodeBytes ==
  /\ StartCode \in Seq(Byte) /\ Len(StartCode) = 4
  /\ StartCode[1] = 0 /\ StartCode[2] = 0 /\ StartCode[3] = 0 /\ StartCode[4] = 1
BY DEF StartCode, Byte

Grown(u, a, w) ==
  /\ w \in Seq(Byte) /\ Len(u) \in Nat /\ Len(a) \in Nat /\ Len(w) = Len(u) + 4 + Len(a)
  /\ \A i \in 1 .. Len(u) : w[i] = u[i]
  /\ w[Len(u) + 1] = 0 /\ w[Len(u) + 2] = 0 /\ w[Len(u) + 3] = 0 /\ w[Len(u) + 4] = 1
  /\ \A i \in 1 .. Len(a) : w[Len(u) + 4 + i] = a[i]
  /\ w[Len(w)] # 0
  /\ CodesOf(w) = CodesOf(u) \cup {Len(u) + 2}

LEMMA GrowBytes ==
  ASSUME NEW u \in Seq(Byte), NEW a \in Seq(Byte)
  PROVE  LET w == (u \o StartCode) \o a IN
         /\ w \in Seq(Byte) /\ Len(u) \in Nat /\ Len(a) \in Nat /\ Len(w) = Len(u) + 4 + Len(a)
         /\ \A i \in 1 .. Len(u) : w[i] = u[i]
         /\ \A i \in 1 .. 4 : w[Len(u) + i] = StartCode[i]
         /\ \A i \in 1 .. Len(a) : w[Len(u) + 4 + i] = a[i]
<1> DEFINE v == u \o StartCode
           w == v \o a
<1>1. /\ v \in Seq(Byte) /\ Len(v) = Len(u) + 4 /\ Len(u) \in Nat
      /\ \A i \in 1 .. Len(u) : v[i] = u[i]
      /\ \A i \in 1 .. 4 : v[Len(u) + i] = StartCode[i]
  <2>1. /\ v \in Seq(Byte) /\ Len(v) = Len(u) + Len(StartCode) /\ Len(u) \in Nat
        /\ \A i \in 1 .. Len(u) : v[i] = u[i]
        /\ \A i \in 1 .. Len(StartCode) : v[Len(u) + i] = StartCode[i]
    BY StartCodeBytes, Joined
  <2> QED
    BY <2>1, StartCodeBytes
<1> HIDE DEF v
<1>2. /\ w \in Seq(Byte) /\ Len(w) = Len(v) + Len(a) /\ Len(a) \in Nat
      /\ \A i \in 1 .. Len(v) : w[i] = v[i]
      /\ \A i \in 1 .. Len(a) : w[Len(v) + i] = a[i]
  BY <1>1, Joined
<1> HIDE DEF w
<1>3. Len(w) = Len(u) + 4 + Len(a)
  BY <1>1, <1>2
<1>4. \A i \in 1 .. Len(u) : w[i] = u[i]
  <2> TAKE i \in 1 .. Len(u)
  <2>1. i \in 1 .. Len(v)
    BY <1>1
  <2> QED
    BY <1>1, <1>2, <2>1
<1>5. \A i \in 1 .. 4 : w[Len(u) + i] = StartCode[i]
  <2> TAKE i \in 1 .. 4
  <2>1. Len(u) + i \in 1 .. Len(v)
    BY <1>1
  <2> QED
    BY <1>1, <1>2, <2>1
<1>6. \A i \in 1 .. Len(a) : w[Len(u) + 4 + i] = a[i]
  BY <1>1, <1>2
<1> QED
  BY <1>1, <1>2, <1>3, <1>4, <1>5, <1>6 DEF w, v

LEMMA CodesStep ==
  ASSUME NEW u \in Seq(Byte), u = <<>> \/ u[Len(u)] # 0, NEW a, Clean(a)
  PROVE  Grown(u, a, (u \o StartCode) \o a)
<1> DEFINE w == (u \o StartCode) \o a
           n == Len(u)
           m == Len(a)
<1>1. /\ w \in Seq(Byte) /\ n \in Nat /\ m \in Nat /\ Len(w) = n + 4 + m
      /\ \A i \in 1 .. n : w[i] = u[i]
      /\ \A i \in 1 .. 4 : w[n + i] = StartCode[i]
      /\ \A i \in 1 .. m : w[n + 4 + i] = a[i]
  BY GrowBytes DEF Clean
<1>2. n = 0 \/ (n > 0 /\ u[n] # 0)
  BY LenProperties
<1>3. /\ m > 0 /\ a[m] # 0
      /\ \A i \in 1 .. m : i >= 3 => ~(a[i] <= 1 /\ a[i - 1] = 0 /\ a[i - 2] = 0)
  BY DEF Clean
<1> HIDE DEF w
<1>4. w[n + 1] = 0 /\ w[n + 2] = 0 /\ w[n + 3] = 0 /\ w[n + 4] = 1
  BY <1>1, StartCodeBytes
<1>5. w[Len(w)] # 0
  <2>1. m \in 1 .. m
    BY <1>1, <1>3
  <2>2. w[n + 4 + m] = a[m]
    BY <1>1, <2>1
  <2> QED
    BY <1>1, <1>3, <2>2
<1>6. ASSUME NEW i \in CodesOf(w), i # n + 2 PROVE i \in CodesOf(u)
  <2>1. i \in 1 .. Len(w) - 2 /\ w[i] = 0 /\ w[i + 1] = 0 /\ w[i + 2] = 1
    BY DEF CodesOf
  <2>2. i \in Nat /\ i >= 1 /\ i <= n + 2 + m
    <3> HIDE DEF n, m
    <3> QED
      BY <1>1, <2>1
  <2>3. CASE i + 2 <= n
    <3>1. i \in 1 .. n - 2 /\ i \in 1 .. n /\ i + 1 \in 1 .. n /\ i + 2 \in 1 .. n
      <4> HIDE DEF n
      <4> QED
        BY <1>1, <2>2, <2>3
    <3> QED
      BY <1>1, <2>1, <3>1 DEF CodesOf
  <2>4. CASE i + 2 > n /\ i <= n
    <3>1. n \in 1 .. n /\ n > 0 /\ (i = n \/ i + 1 = n)
      <4> HIDE DEF n
      <4> QED
        BY <1>1, <2>2, <2>4
    <3>2. w[n] # 0
      BY <1>1, <1>2, <3>1
    <3> QED
      BY <2>1, <3>1, <3>2
  <2>5. CASE i = n + 1
    <3>1. i + 2 = n + 3
      <4> HIDE DEF n
      <4> QED
        BY <1>1, <2>5
    <3> QED
      BY <1>4, <2>1, <3>1
  <2>6. CASE i = n + 3
    <3>1. i + 1 = n + 4
      <4> HIDE DEF n
      <4> QED
        BY <1>1, <2>6
    <3> QED
      BY <1>4, <2>1, <3>1
  <2>7. CASE i = n + 4
    BY <1>4, <2>1, <2>7
  <2>8. CASE i > n + 4
    <3> DEFINE k == i - (n + 4)
    <3>1. /\ k \in 1 .. m /\ k + 1 \in 1 .. m /\ k + 2 \in 1 .. m /\ k + 2 >= 3
          /\ n + 4 + k = i /\ n + 4 + (k + 1) = i + 1 /\ n + 4 + (k + 2) = i + 2
          /\ k + 2 - 1 = k + 1 /\ k + 2 - 2 = k
      <4> HIDE DEF n, m
      <4> QED
        BY <1>1, <2>2, <2>8
    <3> HIDE DEF k
    <3>2. a[k] = 0 /\ a[k + 1] = 0 /\ a[k + 2] = 1
      <4>1. w[n + 4 + k] = a[k] /\ w[n + 4 + (k + 1)] = a[k + 1] /\ w[n + 4 + (k + 2)] = a[k + 2]
        BY <1>1, <3>1
      <4> QED
        BY <2>1, <3>1, <4>1
    <3>3. ~(a[k + 2] <= 1 /\ a[k + 1] = 0 /\ a[k] = 0)
      BY <1>3, <3>1
    <3> QED
      BY <3>2, <3>3
  <2> HIDE DEF n
  <2> QED
    BY <1>1, <1>6, <2>2, <2>3, <2>4, <2>5, <2>6, <2>7, <2>8
<1>7. n + 2 \in CodesOf(w)
  <2>1. n + 2 \in 1 .. Len(w) - 2 /\ (n + 2) + 1 = n + 3 /\ (n + 2) + 2 = n + 4
    <3> HIDE DEF n, m
    <3> QED
      BY <1>1, <1>3
  <2> QED
    BY <1>4, <2>1 DEF CodesOf
<1>8. ASSUME NEW i \in CodesOf(u) PROVE i \in CodesOf(w)
  <2>1. i \in 1 .. n - 2 /\ u[i] = 0 /\ u[i + 1] = 0 /\ u[i + 2] = 1
    BY DEF CodesOf
  <2>2. i \in 1 .. Len(w) - 2 /\ i \in 1 .. n /\ i + 1 \in 1 .. n /\ i + 2 \in 1 .. n
    <3> HIDE DEF n, m
    <3> QED
      BY <1>1, <2>1
  <2> QED
    BY <1>1, <2>1, <2>2 DEF CodesOf
<1>9. CodesOf(w) = CodesOf(u) \cup {n + 2}
  BY <1>6, <1>7, <1>8
<1> QED
  BY <1>1, <1>4, <1>5, <1>9 DEF Grown, w

(* The NAL units that an access unit consists of hold no start code.       *)
LEMMA SPSClean == Clean(SPS) /\ Len(SPS) = 21 /\ SPS[1] = 103
<1>1. SPS \in Seq(Byte) /\ Len(SPS) = 21 /\ SPS[1] = 103 /\ SPS[21] = 224
  BY DEF SPS, Byte
<1>2. ASSUME NEW i \in 1 .. 21, i >= 3
      PROVE  ~(SPS[i] <= 1 /\ SPS[i - 1] = 0 /\ SPS[i - 2] = 0)
  <2>1. \A k \in 1 .. 21 : SPS[k] <= 1 => k \in {9, 10, 12, 14, 15, 17}
    BY DEF SPS
  <2>2. i - 1 \in 1 .. 21 /\ i - 2 \in 1 .. 21
    BY <1>2
  <2>3. ~(i \in {9, 10, 12, 14, 15, 17} /\ i - 1 \in {9, 10, 12, 14, 15, 17}
                                        /\ i - 2 \in {9, 10, 12, 14, 15, 17})
    OBVIOUS
  <2>4. /\ SPS[i - 1] = 0 => i - 1 \in {9, 10, 12, 14, 15, 17}
        /\ SPS[i - 2] = 0 => i - 2 \in {9, 10, 12, 14, 15, 17}
    BY <2>1, <2>2
  <2> QED
    BY <2>1, <2>3, <2>4
<1> QED
  BY <1>1, <1>2 DEF Clean

LEMMA PPSClean == Clean(PPS) /\ Len(PPS) = 4 /\ PPS[1] = 104
<1>1. PPS \in Seq(Byte) /\ Len(PPS) = 4 /\ PPS[1] = 104 /\ PPS[4] = 200 /\ PPS[2] = 206 /\ PPS[3] = 15
  BY DEF PPS, Byte
<1>2. \A i \in 1 .. 4 : PPS[i] # 0
  BY <1>1
<1> QED
  BY <1>1, <1>2 DEF Clean

LEMMA IDRClean == Clean(IDR) /\ Len(IDR) = 10 /\ IDR[1] = 101
<1>1. IDR \in Seq(Byte) /\ Len(IDR) = 10 /\ IDR[1] = 101 /\ IDR[10] = 224
  BY DEF IDR, Byte
<1>2. \A i \in 1 .. 10 : i # 7 => IDR[i] # 0
  BY DEF IDR
<1>3. ASSUME NEW i \in 1 .. 10, i >= 3
      PROVE  ~(IDR[i] <= 1 /\ IDR[i - 1] = 0 /\ IDR[i - 2] = 0)
  <2>1. i - 1 \in 1 .. 10 /\ i - 2 \in 1 .. 10 /\ (i - 1 # 7 \/ i - 2 # 7)
    BY <1>3
  <2> QED
    BY <1>2, <2>1
<1> QED
  BY <1>1, <1>3 DEF Clean

LEMMA SEINALClean ==
  ASSUME NEW payload \in Seq(Byte)
  PROVE  LET out == EscapeRBSP(Message5(payload))
             nal == BuildSEINAL(payload)
         IN  /\ nal = <<6>> \o out /\ Clean(nal) /\ Len(nal) >= 2 /\ nal[1] = 6
             /\ out \in Seq(Byte) /\ Tail(nal) = out
<1> DEFINE m == Message5(payload)
           out == EscapeRBSP(m)
           head == <<6>>
           nal == head \o out
<1>1. BuildSEINAL(payload) = nal
  BY DEF BuildSEINAL, Message5
<1>2. m \in Seq(Byte) /\ Len(m) > 0 /\ m[Len(m)] # 0
  <2> DEFINE n == Len(payload)
             q == SizeBytes(payload)
  <2>1. m \in Seq(Byte) /\ n \in Nat /\ q \in Nat /\ Len(m) = q + 19 + n /\ m[q + 19 + n] = 128
    BY MessageBytes
  <2> HIDE DEF m, n, q
  <2> QED
    BY <2>1
<1> HIDE DEF m
<1>3. Clean(out)
  BY <1>2, EscapeClean
<1> HIDE DEF out
<1>4. head \in Seq(Byte) /\ Len(head) = 1 /\ head[1] = 6
  BY DEF Byte
<1> HIDE DEF head
<1>5. out \in Seq(Byte) /\ Len(out) > 0 /\ out[Len(out)] # 0
      /\ \A i \in 1 .. Len(out) : i >= 3 => ~(out[i] <= 1 /\ out[i - 1] = 0 /\ out[i - 2] = 0)
  BY <1>3 DEF Clean
<1>6. /\ nal \in Seq(Byte) /\ Len(nal) = 1 + Len(out) /\ Len(out) \in Nat
      /\ nal[1] = 6 /\ \A i \in 1 .. Len(out) : nal[1 + i] = out[i]
  <2>1. /\ nal \in Seq(Byte) /\ Len(nal) = Len(head) + Len(out) /\ Len(out) \in Nat
        /\ \A i \in 1 .. Len(head) : nal[i] = head[i]
        /\ \A i \in 1 .. Len(out) : nal[Len(head) + i] = out[i]
    BY <1>4, <1>5, Joined
  <2> HIDE DEF nal
  <2> QED
    BY <1>4, <2>1
<1> HIDE DEF nal
<1>7. nal[Len(nal)] # 0
  BY <1>5, <1>6
<1>8. ASSUME NEW i \in 1 .. Len(nal), i >= 3
      PROVE  ~(nal[i] <= 1 /\ nal[i - 1] = 0 /\ nal[i - 2] = 0)
  <2> DEFINE k == i - 1
  <2>1. /\ k \in 1 .. Len(out) /\ k - 1 \in 1 .. Len(out)
        /\ 1 + k = i /\ 1 + (k - 1) = i - 1
    BY <1>6, <1>8
  <2>2. i = 3 => i - 2 = 1
    OBVIOUS
  <2>3. i # 3 => k >= 3 /\ k - 2 \in 1 .. Len(out) /\ 1 + (k - 2) = i - 2
    BY <1>6, <1>8
  <2> HIDE DEF k
  <2>4. nal[i] = out[k] /\ nal[i - 1] = out[k - 1]
    BY <1>6, <2>1
  <2>5. CASE i = 3
    BY <1>6, <2>2, <2>5
  <2>6. CASE i # 3
    <3>1. nal[i - 2] = out[k - 2]
      BY <1>6, <2>3, <2>6
    <3>2. ~(out[k] <= 1 /\ out[k - 1] = 0 /\ out[k - 2] = 0)
      BY <1>5, <2>1, <2>3, <2>6
    <3> QED
      BY <2>4, <3>1, <3>2
  <2> QED
    BY <2>5, <2>6
<1>9. Clean(nal)
  BY <1>5, <1>6, <1>7, <1>8 DEF Clean
<1>10. Len(nal) >= 2 /\ nal # <<>>
  BY <1>5, <1>6
<1>11. Tail(nal) = out
  <2> DEFINE t == Tail(nal)
  <2>1. t \in Seq(Byte) /\ Len(t) = Len(nal) - 1 /\ \A i \in 1 .. Len(t) : t[i] = nal[i + 1]
    BY <1>6, <1>10, HeadTailProperties
  <2> HIDE DEF t
  <2>2. Len(t) = Len(out)
    BY <1>6, <2>1
  <2>3. \A i \in 1 .. Len(t) : t[i] = out[i]
    <3> TAKE i \in 1 .. Len(t)
    <3>1. i + 1 = 1 + i
      OBVIOUS
    <3>2. t[i] = nal[1 + i]
      BY <2>1, <3>1
    <3> QED
      BY <1>6, <2>2, <3>2
  <2>4. t = out
    BY <1>5, <2>1, <2>2, <2>3, SeqEqual
  <2> QED
    BY <2>4 DEF t
<1> QED
  BY <1>1, <1>5, <1>6, <1>9, <1>10, <1>11 DEF nal, head, out, m

LEMMA NextIs ==
  ASSUME NEW unit \in Seq(Byte), NEW pos \in Nat, NEW c \in CodesOf(unit), c >= pos,
         \A j \in CodesOf(unit) : j >= pos => c <= j
  PROVE  NextCode(unit, pos) = c
<1>1. ~ \A i \in CodesOf(unit) : i < pos
  <2>1. c \in Nat
    BY DEF CodesOf
  <2> QED
    BY <2>1
<1>2. /\ NextCode(unit, pos) \in CodesOf(unit) /\ NextCode(unit, pos) >= pos
      /\ NextCode(unit, pos) <= c
  BY <1>1, NextCodeIs
<1>3. c <= NextCode(unit, pos)
  BY <1>2
<1>4. c \in Int /\ NextCode(unit, pos) \in Int
  BY <1>2 DEF CodesOf
<1> QED
  BY <1>2, <1>3, <1>4

(* A NAL unit of another type adds nothing.                                *)
LEMMA NotSEI ==
  ASSUME NEW unit \in Seq(Byte), NEW i \in CodesOf(unit), unit[i + 3] % 32 # 6
  PROVE  FoundAt(unit, i) = <<>>
<1>1. i \in Nat /\ Len(unit) \in Nat
  BY LenProperties DEF CodesOf
<1>2. LastOf(unit, i) \in Int
  <2>1. CASE \A j \in CodesOf(unit) : j <= i
    BY <1>1, <2>1 DEF LastOf
  <2>2. CASE ~ \A j \in CodesOf(unit) : j <= i
    <3>1. \A j \in CodesOf(unit) : j \in Nat
      BY DEF CodesOf
    <3>2. ~ \A j \in CodesOf(unit) : j < i + 1
      BY <1>1, <2>2, <3>1
    <3>3. NextCode(unit, i + 1) \in CodesOf(unit)
      BY <1>1, <3>2, NextCodeIs
    <3>4. NextCode(unit, i + 1) \in Int
      BY <3>1, <3>3
    <3> QED
      BY <2>2, <3>4 DEF LastOf
  <2> QED
    BY <2>1, <2>2
<1> DEFINE last == LastOf(unit, i)
           nal == SubSeq(unit, i + 3, last)
           S == {unit[j] : j \in i + 3 .. last}
<1>3. /\ Len(nal) = IF i + 3 <= last THEN last - (i + 3) + 1 ELSE 0
      /\ \A k \in 1 .. last - (i + 3) + 1 : nal[k] = unit[i + 3 + k - 1]
  <2>1. \A j \in i + 3 .. last : unit[j] \in S
    OBVIOUS
  <2>2. i + 3 \in Int /\ last \in Int
    BY <1>1, <1>2
  <2> HIDE DEF S, last
  <2> QED
    BY <2>1, <2>2, SubSeqProperties
<1> HIDE DEF last, nal
<1>4. ASSUME Len(nal) >= 2 PROVE nal[1] = unit[i + 3]
  <2>1. last \in Int
    BY <1>2 DEF last
  <2>2. 1 \in 1 .. last - (i + 3) + 1 /\ i + 3 + 1 - 1 = i + 3
    BY <1>1, <1>3, <1>4, <2>1
  <2> QED
    BY <1>3, <2>2
<1>5. FoundAt(unit, i) =
        IF Len(nal) >= 2 /\ nal[1] % 32 = 6 THEN ExtractTransportSEI(Tail(nal)) ELSE <<>>
  BY DEF FoundAt, nal, last
<1> QED
  BY <1>4, <1>5

(* The access unit of a payload: its start codes and what follows them.    *)
LEMMA UnitLayout ==
  ASSUME NEW payload \in Seq(Byte), payload # <<>>
  PROVE  LET unit == BuildVideoAccessUnit(payload)
             nal == BuildSEINAL(payload)
             m == Len(nal)
         IN  /\ unit \in Seq(Byte) /\ m \in Nat /\ m >= 2 /\ Len(unit) = m + 51
             /\ CodesOf(unit) = {2, 27, 35, m + 39}
             /\ unit[5] = 103 /\ unit[30] = 104 /\ unit[m + 42] = 101
             /\ unit[26] = 0 /\ unit[m + 38] = 0
             /\ \A i \in 1 .. m : unit[37 + i] = nal[i]
<1> DEFINE nal == BuildSEINAL(payload)
           m == Len(nal)
           u0 == <<>>
           u1 == (u0 \o StartCode) \o SPS
           u2 == (u1 \o StartCode) \o PPS
           u3 == (u2 \o StartCode) \o nal
           u4 == (u3 \o StartCode) \o IDR
<1>1. Clean(nal) /\ m >= 2 /\ nal \in Seq(Byte) /\ m \in Nat /\ nal[1] = 6
  BY SEINALClean, LenProperties DEF Clean
<1> HIDE DEF nal
<1>2. u0 \in Seq(Byte) /\ Len(u0) = 0 /\ CodesOf(u0) = {}
  BY DEF CodesOf
<1>3. Grown(u0, SPS, u1)
  BY <1>2, SPSClean, CodesStep
<1>4. BuildVideoAccessUnit(payload) = u4
  <2>1. u0 \o StartCode = StartCode
    BY StartCodeBytes, ConcatEmptySeq
  <2> DEFINE a == (StartCode \o SPS) \o StartCode \o PPS
  <2>2. BuildVideoAccessUnit(payload) = ((a \o (StartCode \o nal)) \o StartCode) \o IDR
    BY DEF BuildVideoAccessUnit, nal
  <2>3. u2 = a
    BY <2>1
  <2>4. u2 \in Seq(Byte)
    <3>1. u1 \in Seq(Byte)
      BY <1>3 DEF Grown
    <3> HIDE DEF u1
    <3> QED
      BY <3>1, PPSClean, GrowBytes DEF Clean
  <2> HIDE DEF a, u2
  <2>5. a \o (StartCode \o nal) = (a \o StartCode) \o nal
    <3>1. a \in Seq(Byte) /\ nal \in Seq(Byte) /\ StartCode \in Seq(Byte)
      BY <1>1, <2>3, <2>4, StartCodeBytes
    <3>2. (a \o StartCode) \o nal = a \o (StartCode \o nal)
      BY ONLY <3>1, JoinTwice, Zenon
    <3> QED
      BY <3>2
  <2> QED
    BY <2>2, <2>3, <2>5
<1>5. /\ u1 \in Seq(Byte) /\ Len(u1) = 25 /\ u1[Len(u1)] # 0 /\ u1[5] = 103 /\ CodesOf(u1) = {2}
  <2> HIDE DEF u0, u1
  <2>1. Len(u1) = 25 /\ u1 \in Seq(Byte) /\ u1[Len(u1)] # 0
    BY <1>2, <1>3, SPSClean DEF Grown
  <2>2. u1[5] = 103
    <3>1. \A i \in 1 .. 21 : u1[Len(u0) + 4 + i] = SPS[i]
      BY <1>3, SPSClean DEF Grown
    <3>2. 1 \in 1 .. 21 /\ Len(u0) + 4 + 1 = 5
      BY <1>2
    <3> QED
      BY <3>1, <3>2, SPSClean
  <2>3. CodesOf(u1) = {2}
    <3>1. CodesOf(u1) = CodesOf(u0) \cup {Len(u0) + 2} /\ Len(u0) + 2 = 2
      BY <1>2, <1>3 DEF Grown
    <3> QED
      BY <1>2, <3>1
  <2> QED
    BY <2>1, <2>2, <2>3
<1> HIDE DEF u0, u1
<1>6. Grown(u1, PPS, u2)
  BY <1>5, PPSClean, CodesStep
<1> HIDE DEF u2
<1>7. /\ u2 \in Seq(Byte) /\ Len(u2) = 33 /\ u2[Len(u2)] # 0 /\ CodesOf(u2) = {2, 27}
      /\ u2[5] = 103 /\ u2[26] = 0 /\ u2[30] = 104
  <2>1. u2 \in Seq(Byte) /\ Len(u2) = 33 /\ u2[Len(u2)] # 0
    BY <1>5, <1>6, PPSClean DEF Grown
  <2>2. u2[5] = 103 /\ u2[26] = 0
    <3>1. 5 \in 1 .. Len(u1) /\ Len(u1) + 1 = 26
      BY <1>5
    <3> QED
      BY <1>5, <1>6, <3>1 DEF Grown
  <2>3. u2[30] = 104
    <3>1. \A i \in 1 .. 4 : u2[Len(u1) + 4 + i] = PPS[i]
      BY <1>6, PPSClean DEF Grown
    <3>2. 1 \in 1 .. 4 /\ Len(u1) + 4 + 1 = 30
      BY <1>5
    <3> QED
      BY <3>1, <3>2, PPSClean
  <2>4. CodesOf(u2) = {2, 27}
    <3>1. CodesOf(u2) = CodesOf(u1) \cup {Len(u1) + 2} /\ Len(u1) + 2 = 27
      BY <1>5, <1>6 DEF Grown
    <3> QED
      BY <1>5, <3>1
  <2> QED
    BY <2>1, <2>2, <2>3, <2>4
<1>8. Grown(u2, nal, u3)
  BY <1>1, <1>7, CodesStep
<1> HIDE DEF u3, m
<1>9. m = Len(nal) /\ m \in Nat /\ m >= 2
  BY <1>1 DEF m
<1>10. /\ u3 \in Seq(Byte) /\ Len(u3) = m + 37 /\ u3[Len(u3)] # 0 /\ CodesOf(u3) = {2, 27, 35}
       /\ u3[5] = 103 /\ u3[26] = 0 /\ u3[30] = 104
       /\ \A i \in 1 .. m : u3[37 + i] = nal[i]
  <2>1. u3 \in Seq(Byte) /\ Len(u3) = m + 37 /\ u3[Len(u3)] # 0
    BY <1>7, <1>8, <1>9 DEF Grown
  <2>2. u3[5] = 103 /\ u3[26] = 0 /\ u3[30] = 104
    <3>1. 5 \in 1 .. Len(u2) /\ 26 \in 1 .. Len(u2) /\ 30 \in 1 .. Len(u2)
      BY <1>7
    <3> QED
      BY <1>7, <1>8, <3>1 DEF Grown
  <2>3. \A i \in 1 .. m : u3[37 + i] = nal[i]
    <3>1. \A i \in 1 .. m : u3[Len(u2) + 4 + i] = nal[i]
      BY <1>8, <1>9 DEF Grown
    <3>2. Len(u2) + 4 = 37
      BY <1>7
    <3> QED
      BY <3>1, <3>2
  <2>4. CodesOf(u3) = {2, 27, 35}
    <3>1. CodesOf(u3) = CodesOf(u2) \cup {Len(u2) + 2} /\ Len(u2) + 2 = 35
      BY <1>7, <1>8 DEF Grown
    <3> QED
      BY <1>7, <3>1
  <2> QED
    BY <2>1, <2>2, <2>3, <2>4
<1>11. Grown(u3, IDR, u4)
  BY <1>10, IDRClean, CodesStep
<1> HIDE DEF u4
<1>12. u4 \in Seq(Byte) /\ Len(u4) = m + 51
  BY <1>9, <1>10, <1>11, IDRClean DEF Grown
<1>13. u4[5] = 103 /\ u4[26] = 0 /\ u4[30] = 104
  <2>1. 5 \in 1 .. Len(u3) /\ 26 \in 1 .. Len(u3) /\ 30 \in 1 .. Len(u3)
    BY <1>9, <1>10
  <2> QED
    BY <1>10, <1>11, <2>1 DEF Grown
<1>14. \A i \in 1 .. m : u4[37 + i] = nal[i]
  <2> TAKE i \in 1 .. m
  <2>1. 37 + i \in 1 .. Len(u3)
    BY <1>9, <1>10
  <2>2. u4[37 + i] = u3[37 + i]
    BY <1>11, <2>1 DEF Grown
  <2> QED
    BY <1>10, <2>2
<1>15. u4[m + 38] = 0 /\ u4[m + 42] = 101
  <2>1. Len(u3) + 1 = m + 38 /\ Len(u3) + 4 + 1 = m + 42 /\ 1 \in 1 .. Len(IDR)
    BY <1>9, <1>10, IDRClean
  <2>2. u4[Len(u3) + 1] = 0
    BY <1>11 DEF Grown
  <2>3. u4[Len(u3) + 4 + 1] = 101
    BY <1>11, <2>1, IDRClean DEF Grown
  <2> QED
    BY <2>1, <2>2, <2>3
<1>16. CodesOf(u4) = {2, 27, 35, m + 39}
  <2>1. CodesOf(u4) = CodesOf(u3) \cup {Len(u3) + 2} /\ Len(u3) + 2 = m + 39
    BY <1>9, <1>10, <1>11 DEF Grown
  <2> QED
    BY <1>10, <2>1
<1> QED
  BY <1>4, <1>9, <1>12, <1>13, <1>14, <1>15, <1>16 DEF nal, m

(* The other side reads an access unit as the one payload it was built of, *)
(* whatever the length and the bytes of the payload.                       *)
THEOREM UnitCarriesPayload ==
  ASSUME NEW payload \in Seq(Byte), payload # <<>>
  PROVE  ExtractVideoPayloads(BuildVideoAccessUnit(payload)) = <<payload>>
<1> DEFINE unit == BuildVideoAccessUnit(payload)
           nal == BuildSEINAL(payload)
           m == Len(nal)
<1>1. /\ unit \in Seq(Byte) /\ m \in Nat /\ m >= 2 /\ Len(unit) = m + 51
      /\ CodesOf(unit) = {2, 27, 35, m + 39}
      /\ unit[5] = 103 /\ unit[30] = 104 /\ unit[m + 42] = 101
      /\ unit[26] = 0 /\ unit[m + 38] = 0
      /\ \A i \in 1 .. m : unit[37 + i] = nal[i]
  BY UnitLayout
<1>2. nal \in Seq(Byte) /\ nal[1] = 6 /\ ExtractTransportSEI(Tail(nal)) = <<payload>>
  BY SEINALClean, ExtractsMessage DEF Clean
<1> HIDE DEF unit, nal
<1>3. m = Len(nal)
  OBVIOUS
<1> HIDE DEF m
<1>4. PICK f : /\ \A pos \in 1 .. Len(unit) + 1 : f[pos] = PayloadStep(unit, f, pos)
               /\ ExtractVideoPayloads(unit) = f[1]
  BY <1>1, FoundPayloads
<1>u. unit \in Seq(Byte)
  BY <1>1
<1>5. /\ NextCode(unit, 1) = 2 /\ NextCode(unit, 3) = 27 /\ NextCode(unit, 28) = 35
      /\ NextCode(unit, 36) = m + 39
  <2>1. 2 \in CodesOf(unit) /\ 27 \in CodesOf(unit) /\ 35 \in CodesOf(unit) /\ m + 39 \in CodesOf(unit)
    BY <1>1
  <2>2. /\ \A j \in CodesOf(unit) : j >= 1 => 2 <= j
        /\ \A j \in CodesOf(unit) : j >= 3 => 27 <= j
        /\ \A j \in CodesOf(unit) : j >= 28 => 35 <= j
        /\ \A j \in CodesOf(unit) : j >= 36 => m + 39 <= j
    BY <1>1
  <2>3. m + 39 >= 36
    BY <1>1
  <2>a. /\ 1 \in Nat /\ 3 \in Nat /\ 28 \in Nat /\ 36 \in Nat
        /\ 2 >= 1 /\ 27 >= 3 /\ 35 >= 28
    OBVIOUS
  <2>4. NextCode(unit, 1) = 2
    BY <1>u, <2>1, <2>2, <2>a, NextIs, Zenon
  <2>5. NextCode(unit, 3) = 27
    BY <1>u, <2>1, <2>2, <2>a, NextIs, Zenon
  <2>6. NextCode(unit, 28) = 35
    BY <1>u, <2>1, <2>2, <2>a, NextIs, Zenon
  <2>7. NextCode(unit, 36) = m + 39
    <3>1. PICK b : b = m + 39
      OBVIOUS
    <3>2. b \in CodesOf(unit) /\ b >= 36 /\ \A j \in CodesOf(unit) : j >= 36 => b <= j
      BY ONLY <2>1, <2>2, <2>3, <3>1
    <3>3. NextCode(unit, 36) = b
      BY ONLY <1>u, <2>a, <3>2, NextIs, Zenon
    <3> QED
      BY ONLY <3>1, <3>3
  <2> QED
    BY <2>4, <2>5, <2>6, <2>7
<1>6. FoundAt(unit, 2) = <<>> /\ FoundAt(unit, 27) = <<>> /\ FoundAt(unit, m + 39) = <<>>
  <2>1. 2 \in CodesOf(unit) /\ 27 \in CodesOf(unit) /\ m + 39 \in CodesOf(unit)
    BY <1>1
  <2>2. 2 + 3 = 5 /\ 27 + 3 = 30 /\ (m + 39) + 3 = m + 42
    BY <1>1
  <2>3. 103 % 32 # 6 /\ 104 % 32 # 6 /\ 101 % 32 # 6
    OBVIOUS
  <2>4. unit[2 + 3] % 32 # 6 /\ unit[27 + 3] % 32 # 6 /\ unit[(m + 39) + 3] % 32 # 6
    BY <1>1, <2>2, <2>3
  <2> QED
    BY <1>u, <2>1, <2>4, NotSEI, Zenon
<1>7. FoundAt(unit, 35) = <<payload>>
  <2>1. LastOf(unit, 35) = m + 37
    <3>1. ~ \A j \in CodesOf(unit) : j <= 35
      BY <1>1
    <3>2. NextCode(unit, 35 + 1) = m + 39 /\ (m + 39) - 1 = m + 38 /\ (m + 39) - 2 = m + 37
      BY <1>1, <1>5
    <3> QED
      BY <1>1, <3>1, <3>2 DEF LastOf
  <2> DEFINE s == SubSeq(unit, 35 + 3, m + 37)
  <2>2. s = nal
    <3>1. /\ s \in Seq(Byte) /\ Len(s) = m /\ \A i \in 1 .. m : s[i] = unit[37 + i]
      <4>1. 37 \in Nat /\ 37 + m <= Len(unit) /\ 35 + 3 = 37 + 1 /\ m + 37 = 37 + m
        BY <1>1
      <4> QED
        BY <1>1, <4>1, Piece
    <3> HIDE DEF s
    <3>2. \A i \in 1 .. Len(s) : s[i] = nal[i]
      BY <1>1, <3>1
    <3> QED
      BY <1>2, <1>3, <3>1, <3>2, SeqEqual
  <2>3. 6 % 32 = 6
    OBVIOUS
  <2>4. FoundAt(unit, 35) =
          IF Len(s) >= 2 /\ s[1] % 32 = 6 THEN ExtractTransportSEI(Tail(s)) ELSE <<>>
    BY <2>1 DEF FoundAt
  <2> HIDE DEF s
  <2> QED
    BY <1>1, <1>2, <1>3, <2>2, <2>3, <2>4
<1>8. f[m + 40] = <<>>
  <2>1. m + 40 \in 1 .. Len(unit) + 1
    BY <1>1
  <2>2. \A i \in CodesOf(unit) : i < m + 40
    BY <1>1
  <2> QED
    BY <1>4, <2>1, <2>2 DEF PayloadStep
<1>9. /\ f[1] = FoundAt(unit, 2) \o f[3] /\ f[3] = FoundAt(unit, 27) \o f[28]
      /\ f[28] = FoundAt(unit, 35) \o f[36] /\ f[36] = FoundAt(unit, m + 39) \o f[m + 40]
  <2>1. /\ 1 \in 1 .. Len(unit) + 1 /\ 3 \in 1 .. Len(unit) + 1
        /\ 28 \in 1 .. Len(unit) + 1 /\ 36 \in 1 .. Len(unit) + 1
    BY <1>1
  <2>2. /\ ~ \A i \in CodesOf(unit) : i < 1 
        /\ ~ \A i \in CodesOf(unit) : i < 3
        /\ ~ \A i \in CodesOf(unit) : i < 28
        /\ ~ \A i \in CodesOf(unit) : i < 36
    BY <1>1
  <2>3. 2 + 1 = 3 /\ 27 + 1 = 28 /\ 35 + 1 = 36 /\ (m + 39) + 1 = m + 40
    BY <1>1
  <2>4. f[1] = FoundAt(unit, 2) \o f[2 + 1]
    BY <1>4, <1>5, <2>1, <2>2 DEF PayloadStep
  <2>5. f[3] = FoundAt(unit, 27) \o f[27 + 1]
    BY <1>4, <1>5, <2>1, <2>2 DEF PayloadStep
  <2>6. f[28] = FoundAt(unit, 35) \o f[35 + 1]
    BY <1>4, <1>5, <2>1, <2>2 DEF PayloadStep
  <2>7. f[36] = FoundAt(unit, m + 39) \o f[(m + 39) + 1]
    BY <1>4, <1>5, <2>1, <2>2 DEF PayloadStep
  <2> QED
    BY <2>3, <2>4, <2>5, <2>6, <2>7
<1>10. f[1] = <<payload>>
  <2> DEFINE x == <<payload>>
  <2>1. x \in Seq({payload}) /\ <<>> \in Seq({payload})
    OBVIOUS
  <2>2. x \o <<>> = x /\ <<>> \o x = x /\ <<>> \o <<>> = <<>>
    BY <2>1, ConcatEmptySeq
  <2> HIDE DEF x
  <2>3. FoundAt(unit, 35) = x
    BY <1>7 DEF x
  <2>4. f[36] = <<>>
    BY <1>6, <1>8, <1>9, <2>2
  <2>5. f[28] = x
    BY <1>9, <2>2, <2>3, <2>4
  <2>6. f[1] = x
    BY <1>6, <1>9, <2>2, <2>5
  <2> QED
    BY <2>6 DEF x
<1> QED
  BY <1>4, <1>10 DEF unit

-----------------------------------------------------------------------------
(* Numbers in a transport frame.                                           *)
LEMMA Low16 ==
  ASSUME NEW a \in Nat, NEW x \in Nat, x < 65536, NEW n \in Nat, n = 65536 * a + x
  PROVE  n % 65536 = x
OBVIOUS

LEMMA Uint16Bytes ==
  ASSUME NEW n \in Nat
  PROVE  /\ Uint16(n) \in Seq(Byte) /\ Len(Uint16(n)) = 2
         /\ 256 * Uint16(n)[1] + Uint16(n)[2] = n % 65536
<1> DEFINE q == n \div 256
           r == n % 256
           q2 == q \div 256
           r2 == q % 256
           x == 256 * r2 + r
<1>1. q \in Nat /\ r \in Nat /\ r < 256 /\ n = 256 * q + r
  OBVIOUS
<1>2. Uint16(n) = <<r2, r>>
  BY DEF Uint16
<1> HIDE DEF q, r
<1>3. q2 \in Nat /\ r2 \in Nat /\ r2 < 256 /\ q = 256 * q2 + r2
  BY <1>1
<1> HIDE DEF q2, r2
<1>4. n = 65536 * q2 + x /\ x \in Nat /\ x < 65536
  BY <1>1, <1>3
<1> HIDE DEF x
<1>5. n % 65536 = x
  BY <1>3, <1>4, Low16
<1>6. r \in Byte /\ r2 \in Byte
  BY <1>1, <1>3 DEF Byte
<1>7. <<r2, r>> \in Seq(Byte) /\ Len(<<r2, r>>) = 2 /\ <<r2, r>>[1] = r2 /\ <<r2, r>>[2] = r
  BY <1>6
<1> QED
  BY <1>2, <1>5, <1>7 DEF x

LEMMA Uint32Bytes ==
  ASSUME NEW n \in Nat, n < 65536 * 65536
  PROVE  /\ Uint32(n) \in Seq(Byte) /\ Len(Uint32(n)) = 4
         /\ 65536 * (256 * Uint32(n)[1] + Uint32(n)[2]) + (256 * Uint32(n)[3] + Uint32(n)[4]) = n
<1> DEFINE h == n \div 65536
           l == n % 65536
           a == Uint16(h)
           b == Uint16(n)
           w == a \o b
<1>1. h \in Nat /\ h < 65536 /\ n = 65536 * h + l
  OBVIOUS
<1>2. Uint32(n) = w
  BY DEF Uint32
<1>3. b \in Seq(Byte) /\ Len(b) = 2 /\ 256 * b[1] + b[2] = l
  BY Uint16Bytes
<1> HIDE DEF h, l, b
<1>4. a \in Seq(Byte) /\ Len(a) = 2 /\ 256 * a[1] + a[2] = h
  <2>1. h \in Nat /\ h % 65536 = h
    <3>1. h = 65536 * 0 + h /\ h \in Nat
      BY <1>1
    <3> QED
      BY <1>1, <3>1, Low16
  <2> QED
    BY <2>1, Uint16Bytes
<1> HIDE DEF a
<1>5. /\ w \in Seq(Byte) /\ Len(w) = Len(a) + Len(b)
      /\ \A i \in 1 .. Len(a) : w[i] = a[i]
      /\ \A i \in 1 .. Len(b) : w[Len(a) + i] = b[i]
  <2>1. a \in Seq(Byte) /\ b \in Seq(Byte)
    BY <1>3, <1>4
  <2> QED
    BY <2>1, Joined
<1> HIDE DEF w
<1>6. Len(w) = 4 /\ w[1] = a[1] /\ w[2] = a[2] /\ w[3] = b[1] /\ w[4] = b[2]
  <2>1. 2 + 1 = 3 /\ 2 + 2 = 4 /\ 1 \in 1 .. 2 /\ 2 \in 1 .. 2
    OBVIOUS
  <2>2. /\ \A i \in 1 .. 2 : w[i] = a[i]
        /\ \A i \in 1 .. 2 : w[2 + i] = b[i]
    BY <1>3, <1>4, <1>5
  <2>3. Len(w) = 4
    BY <1>3, <1>4, <1>5
  <2>4. w[2 + 1] = b[1] /\ w[2 + 2] = b[2]
    BY <2>1, <2>2
  <2> QED
    BY <2>1, <2>2, <2>3, <2>4
<1>7. 65536 * (256 * w[1] + w[2]) + (256 * w[3] + w[4]) = n
  <2>1. 256 * w[1] + w[2] = h
    BY <1>4, <1>6
  <2>2. 256 * w[3] + w[4] = l
    BY <1>3, <1>6
  <2>3. 65536 * (256 * w[1] + w[2]) + (256 * w[3] + w[4]) = 65536 * h + l
    BY <2>1, <2>2
  <2> QED
    BY <1>1, <2>3
<1>8. w \in Seq(Byte) /\ Len(w) = 4
  <2>1. w \in Seq(Byte)
    BY <1>5
  <2>2. Len(w) = 4
    BY <1>6
  <2> QED
    BY <2>1, <2>2
<1> QED
  BY <1>2, <1>7, <1>8

(* The part c of d, from position k + 1 on.                                *)
At(d, k, c) == /\ k + Len(c) <= Len(d)
               /\ \A i \in 1 .. Len(c) : d[k + i] = c[i]

LEMMA AtEnd ==
  ASSUME NEW a \in Seq(Byte), NEW b \in Seq(Byte)
  PROVE  a \o b \in Seq(Byte) /\ Len(a \o b) = Len(a) + Len(b) /\ At(a \o b, Len(a), b)
<1> DEFINE w == a \o b
<1>1. /\ w \in Seq(Byte) /\ Len(w) = Len(a) + Len(b) /\ Len(a) \in Nat /\ Len(b) \in Nat
      /\ \A i \in 1 .. Len(b) : w[Len(a) + i] = b[i]
  BY Joined
<1> HIDE DEF w
<1>2. At(w, Len(a), b)
  BY <1>1 DEF At
<1> QED
  BY <1>1, <1>2 DEF w

LEMMA AtStays ==
  ASSUME NEW a \in Seq(Byte), NEW b \in Seq(Byte), NEW c \in Seq(Byte), NEW k \in Nat, At(a, k, c)
  PROVE  At(a \o b, k, c)
<1> DEFINE w == a \o b
<1>1. /\ Len(w) = Len(a) + Len(b) /\ Len(a) \in Nat /\ Len(b) \in Nat
      /\ \A i \in 1 .. Len(a) : w[i] = a[i]
  BY Joined
<1>2. Len(c) \in Nat /\ k + Len(c) <= Len(a) /\ \A i \in 1 .. Len(c) : a[k + i] = c[i]
  BY LenProperties DEF At
<1> HIDE DEF w
<1>3. \A i \in 1 .. Len(c) : k + i \in 1 .. Len(a)
  BY <1>1, <1>2
<1>4. \A i \in 1 .. Len(c) : w[k + i] = c[i]
  BY <1>1, <1>2, <1>3
<1>5. k + Len(c) <= Len(w)
  BY <1>1, <1>2
<1> QED
  BY <1>4, <1>5 DEF At, w

LEMMA AtPiece ==
  ASSUME NEW d \in Seq(Byte), NEW k \in Nat, NEW c \in Seq(Byte), At(d, k, c)
  PROVE  SubSeq(d, k + 1, k + Len(c)) = c
<1> DEFINE s == SubSeq(d, k + 1, k + Len(c))
<1>1. Len(c) \in Nat /\ k + Len(c) <= Len(d) /\ \A i \in 1 .. Len(c) : d[k + i] = c[i]
  BY LenProperties DEF At
<1>2. s \in Seq(Byte) /\ Len(s) = Len(c) /\ \A i \in 1 .. Len(c) : s[i] = d[k + i]
  BY <1>1, Piece
<1> HIDE DEF s
<1>3. \A i \in 1 .. Len(s) : s[i] = c[i]
  BY <1>1, <1>2
<1>4. s = c
  BY <1>2, <1>3, SeqEqual
<1> QED
  BY <1>4 DEF s

(* What a sequence holds when another is put behind it.                    *)
LEMMA Extended ==
  ASSUME NEW a \in Seq(Byte), NEW b \in Seq(Byte), NEW w, w = a \o b
  PROVE  /\ w \in Seq(Byte) /\ Len(w) = Len(a) + Len(b) /\ At(w, Len(a), b)
         /\ \A k \in Nat, c \in Seq(Byte) : At(a, k, c) => At(w, k, c)
BY AtEnd, AtStays

LEMMA MagicBytes == Magic \in Seq(Byte) /\ Len(Magic) = 4 /\ At(Magic, 0, Magic)
<1>1. Magic \in Seq(Byte) /\ Len(Magic) = 4
  BY DEF Magic, Byte
<1>2. \A i \in 1 .. Len(Magic) : Magic[0 + i] = Magic[i]
  BY <1>1
<1> QED
  BY <1>1, <1>2 DEF At

(* The header that every frame begins with.                                *)
HasHeader(d, T, S, crc) ==
  /\ At(d, 0, Magic) /\ At(d, 4, T) /\ At(d, 6, S) /\ At(d, 10, crc)

LEMMA HeaderLayout ==
  ASSUME NEW T \in Seq(Byte), Len(T) = 2, NEW S \in Seq(Byte), Len(S) = 4,
         NEW crc \in Seq(Byte), Len(crc) = 4
  PROVE  LET d == Magic \o T \o S \o crc
         IN  d \in Seq(Byte) /\ Len(d) = 14 /\ HasHeader(d, T, S, crc)
<1> DEFINE d == Magic \o T \o S \o crc
<1> HIDE DEF d
<1>1. PICK d1 : d1 = Magic \o T
  OBVIOUS
<1>2. /\ d1 \in Seq(Byte) /\ Len(d1) = 6 /\ At(d1, 0, Magic) /\ At(d1, 4, T)
  <2>1. /\ d1 \in Seq(Byte) /\ Len(d1) = Len(Magic) + Len(T) /\ At(d1, Len(Magic), T)
        /\ \A k \in Nat, c \in Seq(Byte) : At(Magic, k, c) => At(d1, k, c)
    BY <1>1, MagicBytes, Extended
  <2> QED
    BY <1>1, <2>1, MagicBytes
<1>3. PICK d2 : d2 = d1 \o S
  OBVIOUS
<1>4. /\ d2 \in Seq(Byte) /\ Len(d2) = 10
      /\ At(d2, 0, Magic) /\ At(d2, 4, T) /\ At(d2, 6, S)
  <2>1. /\ d2 \in Seq(Byte) /\ Len(d2) = Len(d1) + Len(S) /\ At(d2, Len(d1), S)
        /\ \A k \in Nat, c \in Seq(Byte) : At(d1, k, c) => At(d2, k, c)
    BY <1>2, <1>3, Extended
  <2> QED
    BY <1>2, <2>1, MagicBytes
<1>5. d = d2 \o crc
  BY <1>1, <1>3 DEF d
<1>6. /\ d \in Seq(Byte) /\ Len(d) = 14
      /\ At(d, 0, Magic) /\ At(d, 4, T) /\ At(d, 6, S) /\ At(d, 10, crc)
  <2>1. /\ d \in Seq(Byte) /\ Len(d) = Len(d2) + Len(crc) /\ At(d, Len(d2), crc)
        /\ \A k \in Nat, c \in Seq(Byte) : At(d2, k, c) => At(d, k, c)
    BY <1>4, <1>5, Extended
  <2> QED
    BY <1>4, <2>1, MagicBytes
<1> QED
  BY <1>6 DEF HasHeader, d

(* The header of a fragment, and the fragment behind it.                   *)
Words(k) == {s \in Seq(Byte) : Len(s) = k}
HasFragment(d, L, I, N, payload) ==
  /\ Len(d) = 22 + Len(payload)
  /\ At(d, 14, L) /\ At(d, 18, I) /\ At(d, 20, N) /\ At(d, 22, payload)

LEMMA FragmentLayout ==
  ASSUME NEW T \in Words(2), NEW S \in Words(4), NEW crc \in Words(4),
         NEW L \in Words(4), NEW I \in Words(2), NEW N \in Words(2), NEW payload \in Seq(Byte)
  PROVE  LET d == Magic \o T \o S \o crc \o L \o I \o N \o payload
         IN  d \in Seq(Byte) /\ HasHeader(d, T, S, crc) /\ HasFragment(d, L, I, N, payload)
<1>00. /\ T \in Seq(Byte) /\ Len(T) = 2 /\ S \in Seq(Byte) /\ Len(S) = 4
      /\ crc \in Seq(Byte) /\ Len(crc) = 4 /\ L \in Seq(Byte) /\ Len(L) = 4
      /\ I \in Seq(Byte) /\ Len(I) = 2 /\ N \in Seq(Byte) /\ Len(N) = 2
  BY DEF Words
<1> DEFINE d == Magic \o T \o S \o crc \o L \o I \o N \o payload
<1> HIDE DEF d
<1>0. L \in Seq(Byte) /\ I \in Seq(Byte) /\ N \in Seq(Byte)
  BY <1>00
<1>1. PICK d3 : d3 = Magic \o T \o S \o crc
  OBVIOUS
<1>2. /\ d3 \in Seq(Byte) /\ Len(d3) = 14
      /\ At(d3, 0, Magic) /\ At(d3, 4, T) /\ At(d3, 6, S) /\ At(d3, 10, crc)
  <2>1. /\ T \in Seq(Byte) /\ Len(T) = 2 /\ S \in Seq(Byte) /\ Len(S) = 4
        /\ crc \in Seq(Byte) /\ Len(crc) = 4
    BY <1>00
  <2>2. LET h == Magic \o T \o S \o crc
        IN  h \in Seq(Byte) /\ Len(h) = 14 /\ HasHeader(h, T, S, crc)
    BY ONLY <2>1, HeaderLayout, Zenon
  <2>3. d3 \in Seq(Byte) /\ Len(d3) = 14 /\ HasHeader(d3, T, S, crc)
    BY ONLY <1>1, <2>2
  <2> QED
    BY ONLY <1>1, <2>3 DEF HasHeader
<1>3. PICK d4 : d4 = d3 \o L
  OBVIOUS
<1>4. /\ d4 \in Seq(Byte) /\ Len(d4) = 18
      /\ At(d4, 0, Magic) /\ At(d4, 4, T) /\ At(d4, 6, S) /\ At(d4, 10, crc)
      /\ At(d4, 14, L)
  <2>1. /\ d4 \in Seq(Byte) /\ Len(d4) = Len(d3) + Len(L) /\ At(d4, Len(d3), L)
        /\ \A k \in Nat, c \in Seq(Byte) : At(d3, k, c) => At(d4, k, c)
    <3>1. d3 \in Seq(Byte) /\ L \in Seq(Byte)
      BY <1>00, <1>2
    <3> QED
      BY ONLY <1>3, <3>1, Extended
  <2> QED
    BY <1>00, <1>2, <2>1, MagicBytes
<1>5. PICK d5 : d5 = d4 \o I
  OBVIOUS
<1>6. /\ d5 \in Seq(Byte) /\ Len(d5) = 20
      /\ At(d5, 0, Magic) /\ At(d5, 4, T) /\ At(d5, 6, S) /\ At(d5, 10, crc)
      /\ At(d5, 14, L) /\ At(d5, 18, I)
  <2>1. /\ d5 \in Seq(Byte) /\ Len(d5) = Len(d4) + Len(I) /\ At(d5, Len(d4), I)
        /\ \A k \in Nat, c \in Seq(Byte) : At(d4, k, c) => At(d5, k, c)
    <3>1. d4 \in Seq(Byte) /\ I \in Seq(Byte)
      BY <1>00, <1>4
    <3> QED
      BY ONLY <1>5, <3>1, Extended
  <2> QED
    BY <1>00, <1>4, <2>1, MagicBytes
<1>7. PICK d6 : d6 = d5 \o N
  OBVIOUS
<1>8. /\ d6 \in Seq(Byte) /\ Len(d6) = 22
      /\ At(d6, 0, Magic) /\ At(d6, 4, T) /\ At(d6, 6, S) /\ At(d6, 10, crc)
      /\ At(d6, 14, L) /\ At(d6, 18, I) /\ At(d6, 20, N)
  <2>1. /\ d6 \in Seq(Byte) /\ Len(d6) = Len(d5) + Len(N) /\ At(d6, Len(d5), N)
        /\ \A k \in Nat, c \in Seq(Byte) : At(d5, k, c) => At(d6, k, c)
    <3>1. d5 \in Seq(Byte) /\ N \in Seq(Byte)
      BY <1>00, <1>6
    <3> QED
      BY ONLY <1>7, <3>1, Extended
  <2> QED
    BY <1>00, <1>6, <2>1, MagicBytes
<1>9. d = d6 \o payload
  BY <1>1, <1>3, <1>5, <1>7 DEF d
<1>10. /\ d \in Seq(Byte) /\ Len(d) = Len(d6) + Len(payload) /\ At(d, Len(d6), payload)
       /\ \A k \in Nat, c \in Seq(Byte) : At(d6, k, c) => At(d, k, c)
  <2>1. d6 \in Seq(Byte) /\ payload \in Seq(Byte)
    BY <1>8
  <2> QED
    BY ONLY <1>9, <2>1, Extended
<1>11. d \in Seq(Byte) /\ Len(d) = 22 + Len(payload)
  BY <1>8, <1>10
<1>12. /\ At(d, 0, Magic) /\ At(d, 4, T) /\ At(d, 6, S) /\ At(d, 10, crc)
       /\ At(d, 14, L) /\ At(d, 18, I) /\ At(d, 20, N) /\ At(d, 22, payload)
  BY <1>00, <1>8, <1>10, MagicBytes
<1> QED
  BY <1>11, <1>12 DEF HasHeader, HasFragment, d

(* A number at the beginning of what lies at a position.                   *)
LEMMA GetNumbers ==
  ASSUME NEW d, NEW k \in Nat, NEW u \in Seq(Byte), At(d, k, u), NEW pos, pos = k + 1
  PROVE  /\ Len(u) = 2 => GetUint16(d, pos) = 256 * u[1] + u[2]
         /\ Len(u) = 4 => GetUint32(d, pos) = 65536 * (256 * u[1] + u[2]) + (256 * u[3] + u[4])
<1>1. \A i \in 1 .. Len(u) : d[k + i] = u[i]
  BY DEF At
<1>2. /\ k + 1 = pos /\ k + 2 = pos + 1 /\ k + 3 = pos + 2 /\ k + 4 = (pos + 2) + 1
  OBVIOUS
<1>3. ASSUME Len(u) = 2 PROVE GetUint16(d, pos) = 256 * u[1] + u[2]
  <2>1. d[k + 1] = u[1] /\ d[k + 2] = u[2]
    BY <1>1, <1>3
  <2>2. d[pos] = u[1] /\ d[pos + 1] = u[2]
    BY <1>2, <2>1
  <2> QED
    BY <2>2 DEF GetUint16
<1>4. ASSUME Len(u) = 4
      PROVE  GetUint32(d, pos) = 65536 * (256 * u[1] + u[2]) + (256 * u[3] + u[4])
  <2>1. d[k + 1] = u[1] /\ d[k + 2] = u[2] /\ d[k + 3] = u[3] /\ d[k + 4] = u[4]
    BY <1>1, <1>4
  <2>2. d[pos] = u[1] /\ d[pos + 1] = u[2] /\ d[pos + 2] = u[3] /\ d[(pos + 2) + 1] = u[4]
    BY <1>2, <2>1
  <2> QED
    BY <2>2 DEF GetUint16, GetUint32
<1> QED
  BY <1>3, <1>4

(* What 16 and 32 bits hold.                                               *)
Fits16(n) == n \in Nat /\ n < 65536
Fits32(n) == n \in Nat /\ n < 65536 * 65536

LEMMA GetNumber16 ==
  ASSUME NEW d, NEW k \in Nat, NEW n, Fits16(n), At(d, k, Uint16(n))
  PROVE  GetUint16(d, k + 1) = n
<1>0. n \in Nat /\ n < 65536
  BY DEF Fits16
<1>1. n % 65536 = n
  <2>1. n = 65536 * 0 + n
    BY <1>0
  <2> QED
    BY <1>0, <2>1, Low16
<1>2. PICK u : u = Uint16(n)
  OBVIOUS
<1>3. u \in Seq(Byte) /\ Len(u) = 2 /\ 256 * u[1] + u[2] = n
  BY <1>0, <1>1, <1>2, Uint16Bytes
<1>4. At(d, k, u)
  BY <1>2
<1> QED
  BY ONLY k \in Nat, k + 1 = k + 1, <1>3, <1>4, GetNumbers

LEMMA GetNumber32 ==
  ASSUME NEW d, NEW k \in Nat, NEW n, Fits32(n), At(d, k, Uint32(n))
  PROVE  GetUint32(d, k + 1) = n
<1>0. n \in Nat /\ n < 65536 * 65536
  BY DEF Fits32
<1>1. PICK u : u = Uint32(n)
  OBVIOUS
<1>2. u \in Seq(Byte) /\ Len(u) = 4 /\ 65536 * (256 * u[1] + u[2]) + (256 * u[3] + u[4]) = n
  BY <1>0, <1>1, Uint32Bytes
<1>3. At(d, k, u)
  BY <1>1
<1> QED
  BY ONLY k \in Nat, k + 1 = k + 1, <1>2, <1>3, GetNumbers

(* What decodeTransportFrame sees of the header of a frame.                *)
LEMMA HeaderRead ==
  ASSUME NEW d \in Seq(Byte), NEW T \in Seq(Byte), Len(T) = 2, NEW S \in Seq(Byte),
         NEW crc \in Seq(Byte), Len(crc) = 4, HasHeader(d, T, S, crc)
  PROVE  /\ SubSeq(d, 1, 4) = Magic /\ SubSeq(d, 11, 14) = crc
         /\ d[5] = T[1] /\ d[6] = T[2]
<1>1. At(d, 0, Magic) /\ At(d, 4, T) /\ At(d, 10, crc)
  BY DEF HasHeader
<1>2. SubSeq(d, 1, 4) = Magic
  <2>1. 0 + 1 = 1 /\ 0 + Len(Magic) = 4
    BY MagicBytes
  <2>2. SubSeq(d, 0 + 1, 0 + Len(Magic)) = Magic
    BY <1>1, MagicBytes, AtPiece, Zenon
  <2> QED
    BY ONLY <2>1, <2>2
<1>3. SubSeq(d, 11, 14) = crc
  <2>1. 10 \in Nat /\ 10 + 1 = 11 /\ 10 + Len(crc) = 14
    OBVIOUS
  <2>2. SubSeq(d, 10 + 1, 10 + Len(crc)) = crc
    BY ONLY d \in Seq(Byte), crc \in Seq(Byte), 10 \in Nat, <1>1, AtPiece, Zenon
  <2> QED
    BY ONLY <2>1, <2>2
<1>4. d[5] = T[1] /\ d[6] = T[2]
  <2>1. \A i \in 1 .. Len(T) : d[4 + i] = T[i]
    BY <1>1 DEF At
  <2>2. d[4 + 1] = T[1] /\ d[4 + 2] = T[2]
    BY <2>1
  <2> QED
    BY <2>2
<1> QED
  BY <1>2, <1>3, <1>4
-----------------------------------------------------------------------------
(* What the other side reads of the access unit that carries a frame.      *)
ReadsAs(d, frame) ==
  LET read == ExtractVideoPayloads(BuildVideoAccessUnit(d))
  IN  Len(read) = 1 /\ DecodeTransportFrame(read[1]) = frame

LEMMA FrameRead ==
  ASSUME NEW d \in Seq(Byte), d # <<>>, NEW frame, DecodeTransportFrame(d) = frame
  PROVE  ReadsAs(d, frame)
<1> DEFINE read == ExtractVideoPayloads(BuildVideoAccessUnit(d))
<1>1. read = <<d>>
  BY UnitCarriesPayload
<1> HIDE DEF read
<1>2. Len(read) = 1 /\ read[1] = d
  BY <1>1
<1> QED
  BY <1>2 DEF ReadsAs, read

(* An acknowledgement that is encoded, put into an access unit, taken out  *)
(* and decoded on the other side is the acknowledgement that was sent.     *)
THEOREM AckReadBack ==
  ASSUME NEW seq, Fits32(seq), NEW crc \in Seq(Byte), Len(crc) = 4
  PROVE  ReadsAs(EncodeAckFrame(seq, crc), [typ |-> "ack", seq |-> seq, crc |-> crc])
<1> DEFINE T == <<1, 2>>
           S == Uint32(seq)
           d == Magic \o T \o S \o crc
<1>0. Fits32(seq)
  OBVIOUS
<1>1. T = <<1, 2>> /\ S = Uint32(seq) /\ d = Magic \o T \o S \o crc
  OBVIOUS
<1> HIDE DEF T, S, d
<1>2. T \in Seq(Byte) /\ Len(T) = 2 /\ T[1] = 1 /\ T[2] = 2
  BY <1>1 DEF Byte
<1>3. S \in Seq(Byte) /\ Len(S) = 4
  BY <1>0, <1>1, Uint32Bytes DEF Fits32
<1>4. EncodeAckFrame(seq, crc) = d
  BY <1>1 DEF EncodeAckFrame
<1>5. d \in Seq(Byte) /\ Len(d) = 14 /\ HasHeader(d, T, S, crc)
  <2>1. crc \in Seq(Byte) /\ Len(crc) = 4 /\ d = Magic \o T \o S \o crc
    BY <1>1
  <2>2. LET h == Magic \o T \o S \o crc
        IN  h \in Seq(Byte) /\ Len(h) = 14 /\ HasHeader(h, T, S, crc)
    BY ONLY <1>2, <1>3, <2>1, HeaderLayout, Zenon
  <2> QED
    BY ONLY <2>1, <2>2
<1>6. SubSeq(d, 1, 4) = Magic /\ SubSeq(d, 11, 14) = crc /\ d[5] = 1 /\ d[6] = 2
  <2>1. crc \in Seq(Byte) /\ Len(crc) = 4
    OBVIOUS
  <2>2. /\ SubSeq(d, 1, 4) = Magic /\ SubSeq(d, 11, 14) = crc
        /\ d[5] = T[1] /\ d[6] = T[2]
    BY ONLY <1>2, <1>3, <1>5, <2>1, HeaderRead, Zenon
  <2> QED
    BY ONLY <1>2, <2>2
<1>7. GetUint32(d, 7) = seq
  <2>1. 6 \in Nat /\ 6 + 1 = 7 /\ At(d, 6, Uint32(seq))
    BY <1>1, <1>5 DEF HasHeader
  <2>2. GetUint32(d, 6 + 1) = seq
    BY ONLY <1>0, <2>1, GetNumber32, Zenon
  <2> QED
    BY <2>1, <2>2
<1>8. DecodeTransportFrame(d) = [typ |-> "ack", seq |-> seq, crc |-> crc]
  <2>1. ~(Len(d) < 6) /\ Len(d) >= 14
    BY ONLY <1>5
  <2> QED
    BY ONLY <2>1, <1>6, <1>7 DEF DecodeTransportFrame
<1>9. d # <<>>
  <2>1. ASSUME d = <<>> PROVE Len(d) = 0
    BY <2>1
  <2> QED
    BY ONLY <1>5, <2>1
<1>10. ReadsAs(d, [typ |-> "ack", seq |-> seq, crc |-> crc])
  BY ONLY <1>5, <1>8, <1>9, FrameRead
<1> QED
  BY <1>4, <1>10

(* The frame that decodeTransportFrame should return for a fragment.       *)
FragmentOf(seq, crc, totalLen, fragIdx, fragTotal, payload) ==
  [typ |-> "data", seq |-> seq, crc |-> crc, totalLen |-> totalLen,
   fragIdx |-> fragIdx, fragTotal |-> fragTotal, payload |-> payload]

(* A fragment, of whatever bytes and however many, that is encoded, put    *)
(* into an access unit, taken out and decoded is the fragment that was     *)
(* sent, as long as its numbers fit the widths of the header: no start     *)
(* code, SEI size, escape or header field gets in its way.                 *)
THEOREM FragmentReadBack ==
  ASSUME NEW seq, Fits32(seq), NEW crc \in Seq(Byte), Len(crc) = 4,
         NEW totalLen, Fits32(totalLen), NEW fragIdx, Fits16(fragIdx),
         NEW fragTotal, Fits16(fragTotal), NEW payload \in Seq(Byte)
  PROVE  ReadsAs(EncodeDataFrame(seq, crc, totalLen, fragIdx, fragTotal, payload),
                 FragmentOf(seq, crc, totalLen, fragIdx, fragTotal, payload))
<1> DEFINE T == <<1, 1>>
           S == Uint32(seq)
           L == Uint32(totalLen)
           I == Uint16(fragIdx)
           N == Uint16(fragTotal)
           d == Magic \o T \o S \o crc \o L \o I \o N \o payload
<1>0. Fits32(seq) /\ Fits32(totalLen) /\ Fits16(fragIdx) /\ Fits16(fragTotal)
  OBVIOUS
<1>1.   /\ T = <<1, 1>> /\ S = Uint32(seq) /\ L = Uint32(totalLen)
        /\ I = Uint16(fragIdx) /\ N = Uint16(fragTotal)
        /\ d = Magic \o T \o S \o crc \o L \o I \o N \o payload
  OBVIOUS
<1> HIDE DEF T, S, L, I, N, d
<1>2. T \in Seq(Byte) /\ Len(T) = 2 /\ T[1] = 1 /\ T[2] = 1
  BY <1>1 DEF Byte
<1>3. /\ S \in Seq(Byte) /\ Len(S) = 4 /\ L \in Seq(Byte) /\ Len(L) = 4
      /\ I \in Seq(Byte) /\ Len(I) = 2 /\ N \in Seq(Byte) /\ Len(N) = 2
  <2>1. S \in Seq(Byte) /\ Len(S) = 4
    BY <1>0, <1>1, Uint32Bytes DEF Fits32
  <2>2. L \in Seq(Byte) /\ Len(L) = 4
    BY <1>0, <1>1, Uint32Bytes DEF Fits32
  <2>3. I \in Seq(Byte) /\ Len(I) = 2
    BY <1>0, <1>1, Uint16Bytes DEF Fits16
  <2>4. N \in Seq(Byte) /\ Len(N) = 2
    BY <1>0, <1>1, Uint16Bytes DEF Fits16
  <2> QED
    BY <2>1, <2>2, <2>3, <2>4
<1>4. EncodeDataFrame(seq, crc, totalLen, fragIdx, fragTotal, payload) = d
  BY <1>1 DEF EncodeDataFrame
<1>5. crc \in Seq(Byte) /\ Len(crc) = 4 /\ payload \in Seq(Byte) /\ Len(payload) \in Nat
  OBVIOUS
<1>6. /\ d \in Seq(Byte) /\ Len(d) = 22 + Len(payload) /\ HasHeader(d, T, S, crc)
      /\ At(d, 14, L) /\ At(d, 18, I) /\ At(d, 20, N) /\ At(d, 22, payload)
  <2>1. d = Magic \o T \o S \o crc \o L \o I \o N \o payload
    BY <1>1
  <2>2. LET h == Magic \o T \o S \o crc \o L \o I \o N \o payload
        IN  h \in Seq(Byte) /\ HasHeader(h, T, S, crc) /\ HasFragment(h, L, I, N, payload)
    <3>1. /\ T \in Words(2) /\ S \in Words(4) /\ crc \in Words(4)
          /\ L \in Words(4) /\ I \in Words(2) /\ N \in Words(2) /\ payload \in Seq(Byte)
      BY <1>2, <1>3, <1>5 DEF Words
    <3> QED
      BY ONLY <3>1, FragmentLayout, Zenon
  <2>3. d \in Seq(Byte) /\ HasHeader(d, T, S, crc) /\ HasFragment(d, L, I, N, payload)
    BY ONLY <2>1, <2>2
  <2> QED
    BY ONLY <2>3 DEF HasFragment
<1>7. SubSeq(d, 1, 4) = Magic /\ SubSeq(d, 11, 14) = crc /\ d[5] = 1 /\ d[6] = 1
  <2>1. /\ SubSeq(d, 1, 4) = Magic /\ SubSeq(d, 11, 14) = crc
        /\ d[5] = T[1] /\ d[6] = T[2]
    BY ONLY <1>2, <1>3, <1>5, <1>6, HeaderRead, Zenon
  <2> QED
    BY ONLY <1>2, <2>1
<1>8. GetUint32(d, 7) = seq /\ GetUint32(d, 15) = totalLen
  <2>1. 6 \in Nat /\ 6 + 1 = 7 /\ At(d, 6, Uint32(seq))
    BY <1>1, <1>6 DEF HasHeader
  <2>2. 14 \in Nat /\ 14 + 1 = 15 /\ At(d, 14, Uint32(totalLen))
    BY <1>1, <1>6
  <2>3. GetUint32(d, 6 + 1) = seq
    BY ONLY <1>0, <2>1, GetNumber32, Zenon
  <2>4. GetUint32(d, 14 + 1) = totalLen
    BY ONLY <1>0, <2>2, GetNumber32, Zenon
  <2> QED
    BY <2>1, <2>2, <2>3, <2>4
<1>9. GetUint16(d, 19) = fragIdx /\ GetUint16(d, 21) = fragTotal
  <2>1. 18 \in Nat /\ 18 + 1 = 19 /\ At(d, 18, Uint16(fragIdx))
    BY <1>1, <1>6
  <2>2. 20 \in Nat /\ 20 + 1 = 21 /\ At(d, 20, Uint16(fragTotal))
    BY <1>1, <1>6
  <2>3. GetUint16(d, 18 + 1) = fragIdx
    BY ONLY <1>0, <2>1, GetNumber16, Zenon
  <2>4. GetUint16(d, 20 + 1) = fragTotal
    BY ONLY <1>0, <2>2, GetNumber16, Zenon
  <2> QED
    BY <2>1, <2>2, <2>3, <2>4
<1>10. SubSeq(d, 23, Len(d)) = payload
  <2>1. 22 \in Nat /\ 22 + 1 = 23 /\ 22 + Len(payload) = Len(d)
    BY <1>6
  <2>2. SubSeq(d, 22 + 1, 22 + Len(payload)) = payload
    BY ONLY <1>5, <1>6, <2>1, AtPiece, Zenon
  <2> QED
    BY ONLY <2>1, <2>2
<1>11. DecodeTransportFrame(d) = FragmentOf(seq, crc, totalLen, fragIdx, fragTotal, payload)
  <2>1. ~(Len(d) < 6) /\ Len(d) >= 22 /\ 1 # 2
    BY ONLY <1>5, <1>6
  <2> QED
    BY ONLY <2>1, <1>7, <1>8, <1>9, <1>10 DEF DecodeTransportFrame, FragmentOf
<1>12. d # <<>>
  <2>1. ASSUME d = <<>> PROVE Len(d) = 0
    BY <2>1
  <2> QED
    BY ONLY <1>5, <1>6, <2>1
<1>13. ReadsAs(d, FragmentOf(seq, crc, totalLen, fragIdx, fragTotal, payload))
  BY ONLY <1>6, <1>11, <1>12, FrameRead
<1> QED
  BY <1>4, <1>13

(* fragmentPayload: fragment i of a message that is not empty.             *)
Pieces(n) == (n + 216) \div 217
CutInto(data, count, i, fragments) ==
  LET c == fragments[i + 1]
  IN  /\ Len(fragments) = count /\ c \in Seq(Byte)
      /\ Len(c) = (IF i + 1 = count THEN Len(data) - 217 * i ELSE 217)
      /\ c = SubSeq(data, 217 * i + 1, 217 * i + Len(c))

LEMMA FragmentsCut ==
  ASSUME NEW data \in Seq(Byte), data # <<>>, NEW count \in Nat,
         count = Pieces(Len(data)), NEW i \in Nat, i < count
  PROVE  CutInto(data, count, i, FragmentPayload(data, FragmentSize))
<1> DEFINE fragments == FragmentPayload(data, FragmentSize)
           end(j) == IF 217 * j < Len(data) THEN 217 * j ELSE Len(data)
           c == SubSeq(data, 217 * i + 1, end(i + 1))
<1>0. count = (Len(data) + 216) \div 217
  BY DEF Pieces
<1>1. fragments = [j \in 1 .. count |-> SubSeq(data, 217 * (j - 1) + 1, end(j))]
  BY <1>0 DEF FragmentPayload, FragmentSize
<1>2. Len(fragments) = count
  <2> HIDE DEF fragments, end
  <2> QED
    BY <1>1
<1>3. fragments[i + 1] = c
  <2>1. i + 1 \in 1 .. count /\ (i + 1) - 1 = i
    OBVIOUS
  <2> HIDE DEF fragments, end
  <2> QED
    BY <1>1, <2>1
<1>4. /\ Len(data) \in Nat /\ 217 * i < Len(data)
      /\ i + 1 = count => end(i + 1) = Len(data)
      /\ i + 1 # count => end(i + 1) = 217 * i + 217
  BY <1>0
<1>5. end(i + 1) \in Nat /\ end(i + 1) <= Len(data) /\ 217 * i <= end(i + 1)
  BY <1>4
<1>6. /\ Len(c) = end(i + 1) - 217 * i /\ c \in Seq(Byte)
      /\ c = SubSeq(data, 217 * i + 1, end(i + 1))
  <2> DEFINE b == 217 * i
             k == end(i + 1) - 217 * i
             hi == end(i + 1)
             lo == 217 * i + 1
  <2>1. /\ b \in Nat /\ k \in Nat /\ b + k <= Len(data) /\ lo = b + 1 /\ hi = b + k
    BY <1>4, <1>5
  <2>2. c = SubSeq(data, lo, hi) /\ k = end(i + 1) - 217 * i
    OBVIOUS
  <2> HIDE DEF b, k, lo, hi, c
  <2>3. c \in Seq(Byte) /\ Len(c) = k
    <3>1. SubSeq(data, lo, hi) \in Seq(Byte) /\ Len(SubSeq(data, lo, hi)) = k
      BY ONLY data \in Seq(Byte), <2>1, Piece
    <3> QED
      BY ONLY <2>2, <3>1
  <2> QED
    BY <2>2, <2>3 DEF c
<1> HIDE DEF fragments, c, end
<1>7. Len(c) = (IF i + 1 = count THEN Len(data) - 217 * i ELSE 217) /\ 217 * i + Len(c) = end(i + 1)
  <2>1. PICK e \in Nat, n \in Nat : e = end(i + 1) /\ n = Len(c)
    BY <1>5, <1>6
  <2>2. n = e - 217 * i
    BY <1>6, <2>1
  <2>3. i + 1 = count => e = Len(data)
    BY <1>4, <2>1
  <2>4. i + 1 # count => e = 217 * i + 217
    BY <1>4, <2>1
  <2>5. 217 * i + n = e
    BY <2>2
  <2>6. n = IF i + 1 = count THEN Len(data) - 217 * i ELSE 217
    <3>1. ASSUME i + 1 = count PROVE n = Len(data) - 217 * i
      BY <2>2, <2>3, <3>1
    <3>2. ASSUME i + 1 # count PROVE n = 217
      <4>1. e = 217 * i + 217
        BY <2>4, <3>2
      <4> QED
        BY <2>2, <4>1
    <3> QED
      BY <3>1, <3>2
  <2> QED
    BY <2>1, <2>5, <2>6
<1>8. CutInto(data, count, i, fragments)
  <2>1. PICK b : b = fragments[i + 1]
    OBVIOUS
  <2>2. b = c
    BY ONLY <1>3, <2>1
  <2>3. /\ b \in Seq(Byte) /\ Len(b) = (IF i + 1 = count THEN Len(data) - 217 * i ELSE 217)
        /\ b = SubSeq(data, 217 * i + 1, 217 * i + Len(b))
    BY ONLY <1>6, <1>7, <2>2
  <2> QED
    BY ONLY <1>2, <2>1, <2>3 DEF CutInto
<1> QED
  BY <1>8 DEF fragments

-----------------------------------------------------------------------------
(* The three messages whose bytes MCArqTransport gives.                    *)
LEMMA MessagesAre ==
  /\ Bytes[1] \in Seq(Byte) /\ Len(Bytes[1]) = 5
  /\ Bytes[2] \in Seq(Byte) /\ Len(Bytes[2]) = 220
  /\ Bytes[3] = <<>>
  /\ \A n \in 1 .. 3 : Crc[n] \in Seq(Byte) /\ Len(Crc[n]) = 4
<1> DEFINE z == ZerosAndThrees(217)
           e == <<0, 0, 1>>
<1>1. z \in Seq(Byte) /\ Len(z) = 217
  <2>1. z \in [1 .. 217 -> Byte]
    BY DEF ZerosAndThrees, Byte
  <2> HIDE DEF z
  <2>2. PICK n \in Nat : n = 217
    OBVIOUS
  <2>3. z \in [1 .. n -> Byte]
    BY <2>1, <2>2
  <2>4. z \in Seq(Byte) /\ Len(z) = n
    BY ONLY n \in Nat, <2>3, FunctionIsSeq, Zenon
  <2> QED
    BY <2>2, <2>4
<1>2. e \in Seq(Byte) /\ Len(e) = 3
  BY DEF Byte
<1>3. /\ Bytes[1] = <<0, 0, 3, 0, 0>> /\ Bytes[2] = z \o e /\ Bytes[3] = <<>>
  BY DEF Bytes, FragmentSize
<1> HIDE DEF z, e
<1>4. z \o e \in Seq(Byte) /\ Len(z \o e) = 220
  <2>1. z \o e \in Seq(Byte) /\ Len(z \o e) = Len(z) + Len(e)
    <3>1. z \in Seq(Byte) /\ e \in Seq(Byte)
      BY <1>1, <1>2
    <3> QED
      BY ONLY <3>1, Joined, Zenon
  <2> QED
    BY <1>1, <1>2, <2>1
<1>5. <<0, 0, 3, 0, 0>> \in Seq(Byte) /\ Len(<<0, 0, 3, 0, 0>>) = 5
  BY DEF Byte
<1>6. ASSUME NEW n \in 1 .. 3 PROVE Crc[n] \in Seq(Byte) /\ Len(Crc[n]) = 4
  <2>1. CASE n = 1
    BY <2>1 DEF Crc, Byte
  <2>2. CASE n = 2
    BY <2>2 DEF Crc, Byte
  <2>3. CASE n = 3
    BY <2>3 DEF Crc, Byte
  <2> QED
    BY <2>1, <2>2, <2>3
<1> QED
  BY <1>3, <1>4, <1>5, <1>6

LEMMA LongEnough ==
  ASSUME NEW s \in Seq(Byte), Len(s) > 0
  PROVE  s # <<>>
<1>1. ASSUME s = <<>> PROVE Len(s) = 0
  BY <1>1
<1> QED
  BY <1>1

LEMMA MessagesCut ==
  ASSUME Fragments = ShortLongShort, NEW n \in 1 .. 3, NEW i \in Nat, i < Fragments[n]
  PROVE  /\ CutInto(Bytes[n], Fragments[n], i, FragmentPayload(Bytes[n], FragmentSize))
         /\ Fits32(Len(Bytes[n])) /\ Fits16(i) /\ Fits16(Fragments[n])
<1>1. Fragments[1] = 1 /\ Fragments[2] = 2 /\ Fragments[3] = 1
  BY DEF ShortLongShort
<1>2. CASE n = 1
  <2>1. PICK data : data = Bytes[1]
    OBVIOUS
  <2>2. data \in Seq(Byte) /\ Len(data) = 5
    BY <2>1, MessagesAre
  <2>3. data # <<>> /\ 1 \in Nat /\ 1 = (Len(data) + 216) \div 217
    <3>1. Len(data) > 0 /\ 1 = (Len(data) + 216) \div 217
      BY <2>2
    <3> QED
      BY <2>2, <3>1, LongEnough
  <2>4. i = 0 /\ i < 1 /\ Fragments[n] = 1 /\ Bytes[n] = data
    BY <1>1, <1>2, <2>1
  <2>5. CutInto(Bytes[n], Fragments[n], i, FragmentPayload(Bytes[n], FragmentSize))
    <3>1. PICK count \in Nat : count = Fragments[n]
      BY <2>4
    <3>2. /\ count = Pieces(Len(data)) /\ i < count /\ i \in Nat /\ count \in Nat
          /\ data \in Seq(Byte) /\ data # <<>>
      BY <2>2, <2>3, <2>4, <3>1 DEF Pieces
    <3>3. CutInto(data, count, i, FragmentPayload(data, FragmentSize))
      BY ONLY <3>2, FragmentsCut, Zenon
    <3> QED
      BY ONLY <2>4, <3>1, <3>3
  <2>6. Len(Bytes[n]) = 5
    BY <2>2, <2>4
  <2> QED
    BY <2>4, <2>5, <2>6 DEF Fits16, Fits32
<1>3. CASE n = 2
  <2>1. PICK data : data = Bytes[2]
    OBVIOUS
  <2>2. data \in Seq(Byte) /\ Len(data) = 220
    BY <2>1, MessagesAre
  <2>3. data # <<>> /\ 2 \in Nat /\ 2 = (Len(data) + 216) \div 217
    <3>1. Len(data) > 0 /\ 2 = (Len(data) + 216) \div 217
      BY <2>2
    <3> QED
      BY <2>2, <3>1, LongEnough
  <2>4. i < 2 /\ Fragments[n] = 2 /\ Bytes[n] = data
    BY <1>1, <1>3, <2>1
  <2>5. CutInto(Bytes[n], Fragments[n], i, FragmentPayload(Bytes[n], FragmentSize))
    <3>1. PICK count \in Nat : count = Fragments[n]
      BY <2>4
    <3>2. /\ count = Pieces(Len(data)) /\ i < count /\ i \in Nat /\ count \in Nat
          /\ data \in Seq(Byte) /\ data # <<>>
      BY <2>2, <2>3, <2>4, <3>1 DEF Pieces
    <3>3. CutInto(data, count, i, FragmentPayload(data, FragmentSize))
      BY ONLY <3>2, FragmentsCut, Zenon
    <3> QED
      BY ONLY <2>4, <3>1, <3>3
  <2>6. Len(Bytes[n]) = 220
    BY <2>2, <2>4
  <2> QED
    BY <2>4, <2>5, <2>6 DEF Fits16, Fits32
<1>4. CASE n = 3
  <2>1. Bytes[n] = <<>> /\ i = 0 /\ Fragments[n] = 1
    BY <1>1, <1>4, MessagesAre
  <2>2. FragmentPayload(Bytes[n], FragmentSize) = <<<<>>>>
    BY <2>1 DEF FragmentPayload
  <2>3. PICK w, e : w = <<e>> /\ e = <<>>
    OBVIOUS
  <2>4. Len(w) = 1 /\ w[1] = e /\ e \in Seq(Byte) /\ Len(e) = 0
    BY <2>3
  <2>5. SubSeq(e, 1, 0) = e
    BY <2>3
  <2>6. /\ 0 + 1 = 1 /\ 217 * 0 + 1 = 1 /\ 217 * 0 + Len(e) = 0 /\ Len(Bytes[n]) - 217 * 0 = 0
        /\ Bytes[n] = e
    BY <2>1, <2>3, <2>4
  <2>7. CutInto(Bytes[n], Fragments[n], 0, w)
    <3>1. w[0 + 1] = e /\ Len(w) = Fragments[n]
      BY <2>1, <2>4
    <3>2. Len(e) = (IF 0 + 1 = Fragments[n] THEN Len(Bytes[n]) - 217 * 0 ELSE 217)
      BY <2>1, <2>4, <2>6
    <3>3. e = SubSeq(Bytes[n], 217 * 0 + 1, 217 * 0 + Len(e))
      BY ONLY <2>5, <2>6
    <3> QED
      BY ONLY <2>4, <3>1, <3>2, <3>3 DEF CutInto
  <2>8. Len(Bytes[n]) = 0
    BY <2>4, <2>6
  <2> QED
    BY <2>1, <2>2, <2>3, <2>7, <2>8 DEF Fits16, Fits32
<1> QED
  BY <1>2, <1>3, <1>4

(* What reads as a frame that carries f makes f survive.                   *)
LEMMA ReadSurvives ==
  ASSUME NEW f \in Sent, f.idx < Fragments[f.crc], NEW frame, ReadsAs(Encoded(f), frame),
         Carries(frame, f)
  PROVE  f \in Surviving
<1> DEFINE payloads == ExtractVideoPayloads(BuildVideoAccessUnit(Encoded(f)))
<1>1. Len(payloads) = 1 /\ DecodeTransportFrame(payloads[1]) = frame
  BY DEF ReadsAs
<1> HIDE DEF payloads
<1>2. Len(payloads) = 1 /\ Carries(DecodeTransportFrame(payloads[1]), f)
  BY <1>1
<1> QED
  BY <1>2 DEF Surviving, payloads

LEMMA FramedSurvives ==
  ASSUME Fragments = ShortLongShort, NEW f \in Framed, f.intact
  PROVE  f \in Surviving
<1> DEFINE n == f.crc
<1>1. Message = 1 .. 3
  BY DEF Message, ShortLongShort
<1>2. /\ f \in Frame /\ n \in 1 .. 3 /\ f.seq = n /\ f.intact = TRUE
      /\ f.idx \in Nat /\ f.typ \in {"data", "ack"}
      /\ f.typ = "ack" => f.idx = 0
      /\ f.typ = "data" => f.idx < Fragments[n]
  BY <1>1 DEF Framed, Frame
<1>3. Fragments[1] = 1 /\ Fragments[2] = 2 /\ Fragments[3] = 1
  BY DEF ShortLongShort
<1>4. f.idx < Fragments[n] /\ f.idx \in 0 .. 1
  BY <1>2, <1>3
<1>5. Fits32(n) /\ Crc[n] \in Seq(Byte) /\ Len(Crc[n]) = 4
  BY <1>2, MessagesAre DEF Fits32
<1>6. CASE f.typ = "ack"
  <2>1. f = AckFrame(n, n)
    BY <1>2, <1>6 DEF Frame, AckFrame
  <2>2. f \in Sent
    BY <1>2, <2>1 DEF Sent
  <2> DEFINE frame == [typ |-> "ack", seq |-> n, crc |-> Crc[n]]
  <2>3. ReadsAs(Encoded(f), frame)
    <3>1. Encoded(f) = EncodeAckFrame(n, Crc[n])
      BY <1>2, <1>6 DEF Encoded
    <3> QED
      BY <1>5, <3>1, AckReadBack
  <2>4. Carries(frame, f)
    BY <1>2, <1>6 DEF Carries
  <2> HIDE DEF frame
  <2> QED
    BY <1>4, <2>2, <2>3, <2>4, ReadSurvives
<1>7. CASE f.typ = "data"
  <2>1. f = DataFrame(n, n, f.idx)
    BY <1>2, <1>7 DEF Frame, DataFrame
  <2>2. f \in Sent
    BY <1>2, <1>4, <2>1 DEF Sent
  <2> DEFINE fragments == FragmentPayload(Bytes[n], FragmentSize)
             c == fragments[f.idx + 1]
             frame == FragmentOf(n, Crc[n], Len(Bytes[n]), f.idx, Fragments[n], c)
  <2>3. /\ CutInto(Bytes[n], Fragments[n], f.idx, fragments)
        /\ Fits32(Len(Bytes[n])) /\ Fits16(f.idx) /\ Fits16(Fragments[n])
    BY <1>2, <1>4, MessagesCut
  <2>4. Encoded(f) = EncodeDataFrame(n, Crc[n], Len(Bytes[n]), f.idx, Len(fragments), c)
    BY <1>2, <1>7 DEF Encoded
  <2> HIDE DEF fragments
  <2>5. /\ Len(fragments) = Fragments[n] /\ c \in Seq(Byte)
        /\ Len(c) = (IF f.idx + 1 = Fragments[n] THEN Len(Bytes[n]) - 217 * f.idx ELSE 217)
        /\ c = SubSeq(Bytes[n], 217 * f.idx + 1, 217 * f.idx + Len(c))
    BY <2>3 DEF CutInto
  <2> HIDE DEF c
  <2>6. ReadsAs(Encoded(f), frame)
    <3>1. Encoded(f) = EncodeDataFrame(n, Crc[n], Len(Bytes[n]), f.idx, Fragments[n], c)
      BY <2>4, <2>5
    <3>2. /\ Fits32(n) /\ Crc[n] \in Seq(Byte) /\ Len(Crc[n]) = 4 /\ Fits32(Len(Bytes[n]))
          /\ Fits16(f.idx) /\ Fits16(Fragments[n]) /\ c \in Seq(Byte)
      BY <1>5, <2>3, <2>5
    <3> QED
      BY <3>1, <3>2, FragmentReadBack
  <2>7. Carries(frame, f)
    BY <1>2, <1>7, <2>5 DEF Carries, FragmentOf, FragmentSize
  <2> HIDE DEF frame
  <2> QED
    BY <1>4, <2>2, <2>6, <2>7, ReadSurvives
<1> QED
  BY <1>2, <1>6, <1>7

(* Every frame that is in flight undamaged, whatever was lost, repeated or *)
(* corrupted before and whoever closed, is one the other side reads off    *)
(* the bytes of its access unit as it was written. For the messages whose  *)
(* bytes MCArqTransport gives; the capacities, the attempts and the number *)
(* of messages each peer sends are arbitrary.                              *)
THEOREM FramesSurvive ==
  ASSUME NTracks = 1, Fragments = ShortLongShort
  PROVE  Spec => []FramesSurviveCodec
<1>1. TypeOK /\ FrameInv => FramesSurviveCodec
  <2> SUFFICES ASSUME FrameInv, NEW p \in Peer, NEW t \in Track, NEW i \in DOMAIN net[p][t],
                      net[p][t][i].intact
               PROVE  net[p][t][i] \in Surviving
    BY DEF FramesSurviveCodec
  <2>1. net[p][t] \in Seq(Framed)
    BY DEF FrameInv, NetFrames
  <2>2. net[p][t][i] \in Framed
    BY <2>1
  <2> QED
    BY <2>2, FramedSurvives
<1> QED
  BY <1>1, AlwaysFrames, PTL
=============================================================================
