--------------------------- MODULE CoreHttpProofs ---------------------------
(***************************************************************************)
(* Theorems about CoreHttp, for any clients, calls, addresses and capacity *)
(* of the nonce maps.                                                      *)
(***************************************************************************)
EXTENDS CoreHttp, FiniteSetTheorems, TLAPS

USE HttpAssumption

-----------------------------------------------------------------------------
(* The LRU maps.                                                           *)

Entry == [id : Party \cup {IpOf[p] : p \in Party}, nonce : Call]
Later(h, j) == {h[m].id : m \in j + 1..Len(h)}
Ids(l) == {l[m].id : m \in 1..Len(l)}
OneEach(l) == \A i, j \in 1..Len(l) : l[i].id = l[j].id => i = j

(* Map l is what is left of history h: an entry per identifier, each the   *)
(* latest of its identifier and followed in the map by exactly the         *)
(* identifiers that came since; what is missing gave way to a full map.    *)
Recent(l, h) ==
  /\ Len(l) <= Cap /\ OneEach(l)
  /\ \A i \in 1..Len(l) : \E j \in 1..Len(h) :
       h[j] = l[i] /\ Later(h, j) = Later(l, i)
  /\ \A j \in 1..Len(h) : h[j].id \notin Later(h, j) =>
       \/ \E i \in 1..Len(l) : l[i] = h[j]
       \/ Len(l) = Cap /\ Ids(l) \subseteq Later(h, j)

(* What Put does, index by index: d is the place that is vacated.          *)
Shift(d, i) == IF d = 0 \/ i < d THEN i ELSE i + 1
LEMMA WithoutIs ==
  ASSUME NEW l \in Seq(Entry), NEW d \in 0..Len(l)
  PROVE  /\ Without(l, d) \in Seq(Entry)
         /\ Len(Without(l, d)) = Len(l) - (IF d = 0 THEN 0 ELSE 1)
         /\ \A i \in 1..Len(Without(l, d)) :
              Shift(d, i) \in 1..Len(l) /\ Without(l, d)[i] = l[Shift(d, i)]
<1> DEFINE a == SubSeq(l, 1, d - 1)
           b == SubSeq(l, d + 1, Len(l))
<1>0. Len(l) \in Nat /\ d \in Nat OBVIOUS
<1>1. a \in Seq(Entry) /\ Len(a) = (IF d = 0 THEN 0 ELSE d - 1)
      /\ \A i \in 1..Len(a) : a[i] = l[i]
  BY <1>0
<1>2. b \in Seq(Entry) /\ Len(b) = Len(l) - d /\ \A i \in 1..Len(b) : b[i] = l[d + i]
  BY <1>0
<1>3. Without(l, d) = a \o b BY DEF Without
<1>t. a \in Seq(Entry) /\ b \in Seq(Entry) BY <1>1, <1>2
<1> HIDE DEF a, b
<1>4. /\ a \o b \in Seq(Entry) /\ Len(a \o b) = Len(a) + Len(b)
      /\ \A i \in 1..Len(a) + Len(b) : (a \o b)[i] = IF i <= Len(a) THEN a[i] ELSE b[i - Len(a)]
  BY <1>t
<1>5. Len(a \o b) = Len(l) - (IF d = 0 THEN 0 ELSE 1) BY <1>0, <1>1, <1>2, <1>4
<1>6. ASSUME NEW i \in 1..Len(a \o b)
      PROVE  Shift(d, i) \in 1..Len(l) /\ (a \o b)[i] = l[Shift(d, i)]
  <2>1. Shift(d, i) \in 1..Len(l) BY <1>0, <1>5 DEF Shift
  <2>2. CASE i <= Len(a)
    <3>1. (a \o b)[i] = l[i] BY <1>1, <1>4, <2>2, <1>0
    <3>2. Shift(d, i) = i BY <1>0, <1>1, <2>2 DEF Shift
    <3> QED BY <2>1, <3>1, <3>2
  <2>3. CASE ~(i <= Len(a))
    <3>1. i - Len(a) \in 1..Len(b) BY <1>0, <1>1, <1>2, <1>4, <2>3
    <3>2. (a \o b)[i] = l[d + (i - Len(a))] BY <1>2, <1>4, <2>3, <3>1
    <3>3. Shift(d, i) = d + (i - Len(a)) BY <1>0, <1>1, <2>3 DEF Shift
    <3> QED BY <2>1, <3>2, <3>3
  <2> QED BY <2>2, <2>3
<1> QED BY <1>3, <1>4, <1>5, <1>6

LEMMA LeavesIs ==
  ASSUME NEW l \in Seq(Entry), Len(l) <= Cap, NEW k
  PROVE  /\ Leaves(l, k) \in 0..Len(l)
         /\ k \in Ids(l) => Leaves(l, k) # 0 /\ l[Leaves(l, k)].id = k
         /\ k \notin Ids(l) => Leaves(l, k) = IF Len(l) = Cap THEN 1 ELSE 0
<1>0. Len(l) \in Nat OBVIOUS
<1>1. CASE \E i \in 1..Len(l) : l[i].id = k
  <2>1. Leaves(l, k) = CHOOSE i \in 1..Len(l) : l[i].id = k BY <1>1 DEF Leaves
  <2>2. Leaves(l, k) \in 1..Len(l) /\ l[Leaves(l, k)].id = k BY <1>1, <2>1
  <2> QED BY <1>0, <2>2 DEF Ids
<1>2. CASE ~\E i \in 1..Len(l) : l[i].id = k
  <2>1. Leaves(l, k) = IF Len(l) = Cap THEN 1 ELSE 0 BY <1>2 DEF Leaves
  <2>2. k \notin Ids(l) BY <1>2 DEF Ids
  <2> QED BY <1>0, <2>1, <2>2
<1> QED BY <1>1, <1>2

(* q is l with e put at the end and place d vacated.                       *)
PutAt(l, e, d, q) ==
  /\ d \in 0..Len(l) /\ q \in Seq(Entry)
  /\ Len(q) = (IF d = 0 THEN Len(l) + 1 ELSE Len(l)) /\ q[Len(q)] = e
  /\ \A i \in 1..Len(q) - 1 : Shift(d, i) \in 1..Len(l) /\ q[i] = l[Shift(d, i)]
  /\ e.id \in Ids(l) => d # 0 /\ l[d].id = e.id
  /\ e.id \notin Ids(l) => d = IF Len(l) = Cap THEN 1 ELSE 0
LEMMA PutIs ==
  ASSUME NEW l \in Seq(Entry), Len(l) <= Cap, NEW e \in Entry
  PROVE  \E d : PutAt(l, e, d, Put(l, e.id, e.nonce))
<1> DEFINE d == Leaves(l, e.id)
           w == Without(l, d)
           q == Append(w, e)
<1>1. /\ d \in 0..Len(l)
      /\ e.id \in Ids(l) => d # 0 /\ l[d].id = e.id
      /\ e.id \notin Ids(l) => d = IF Len(l) = Cap THEN 1 ELSE 0
  BY LeavesIs
<1>2. e = [id |-> e.id, nonce |-> e.nonce] BY DEF Entry
<1>3. Put(l, e.id, e.nonce) = q BY <1>2 DEF Put
<1> HIDE DEF d
<1>4. /\ w \in Seq(Entry) /\ Len(w) = Len(l) - (IF d = 0 THEN 0 ELSE 1)
      /\ \A i \in 1..Len(w) : Shift(d, i) \in 1..Len(l) /\ w[i] = l[Shift(d, i)]
  BY <1>1, WithoutIs
<1>t. w \in Seq(Entry) BY <1>4
<1> HIDE DEF w
<1>5. /\ q \in Seq(Entry) /\ Len(q) = Len(w) + 1
      /\ q[Len(w) + 1] = e /\ \A i \in 1..Len(w) : q[i] = w[i]
  BY <1>t
<1>6. Len(w) \in Nat BY <1>t
<1> HIDE DEF q
<1>7. PutAt(l, e, d, q)
  <2>1. Len(q) = (IF d = 0 THEN Len(l) + 1 ELSE Len(l)) BY <1>4, <1>5, <1>6
  <2>2. Len(q) - 1 = Len(w) BY <1>5, <1>6
  <2>3. \A i \in 1..Len(q) - 1 : Shift(d, i) \in 1..Len(l) /\ q[i] = l[Shift(d, i)]
    BY <1>4, <1>5, <2>2
  <2> QED BY <1>1, <1>5, <2>1, <2>3 DEF PutAt
<1> QED BY <1>3, <1>7

(* What Put keeps of a map: every old entry but the one vacated, in order. *)
LEMMA PutKeeps ==
  ASSUME NEW l \in Seq(Entry), NEW e \in Entry, NEW d, NEW q, PutAt(l, e, d, q), OneEach(l)
  PROVE  /\ Len(q) \in Nat \ {0}
         /\ \A i \in 1..Len(q) - 1 : q[i].id # e.id
         /\ \A m \in 1..Len(l) : m # d => \E i \in 1..Len(q) - 1 : Shift(d, i) = m
         /\ OneEach(q)
<1>0. Len(l) \in Nat /\ d \in 0..Len(l) BY DEF PutAt
<1>1. Len(q) \in Nat \ {0} /\ Len(q) = (IF d = 0 THEN Len(l) + 1 ELSE Len(l))
  BY <1>0 DEF PutAt
<1>2. \A i \in 1..Len(q) - 1 : Shift(d, i) \in 1..Len(l) /\ q[i] = l[Shift(d, i)] BY DEF PutAt
<1>3. ASSUME NEW i \in 1..Len(q) - 1, q[i].id = e.id PROVE FALSE
  <2>1. Shift(d, i) \in 1..Len(l) /\ l[Shift(d, i)].id = e.id BY <1>2, <1>3
  <2>2. e.id \in Ids(l) BY <2>1 DEF Ids
  <2>3. d # 0 /\ l[d].id = e.id BY <2>2 DEF PutAt
  <2>4. d \in 1..Len(l) BY <1>0, <2>3
  <2>5. Shift(d, i) = d BY <2>1, <2>3, <2>4 DEF OneEach
  <2>6. i \in Nat BY <1>1
  <2> QED BY <1>0, <2>5, <2>3, <2>6 DEF Shift
<1>4. ASSUME NEW m \in 1..Len(l), m # d
      PROVE  \E i \in 1..Len(q) - 1 : Shift(d, i) = m
  <2> DEFINE i == IF d = 0 \/ m < d THEN m ELSE m - 1
  <2>1. i \in 1..Len(q) - 1 BY <1>0, <1>1, <1>4
  <2>2. Shift(d, i) = m BY <1>0, <1>4 DEF Shift
  <2> QED BY <2>1, <2>2
<1>5. ASSUME NEW i \in 1..Len(q), NEW j \in 1..Len(q), q[i].id = q[j].id PROVE i = j
  <2>1. q[Len(q)] = e BY DEF PutAt
  <2>2. CASE i = Len(q) \/ j = Len(q)
    <3>1. i = Len(q) /\ j = Len(q) BY <1>1, <1>3, <1>5, <2>1, <2>2
    <3> QED BY <3>1
  <2>3. CASE i # Len(q) /\ j # Len(q)
    <3>1. i \in 1..Len(q) - 1 /\ j \in 1..Len(q) - 1 BY <1>1, <2>3
    <3>2. Shift(d, i) \in 1..Len(l) /\ Shift(d, j) \in 1..Len(l)
          /\ l[Shift(d, i)].id = l[Shift(d, j)].id
      BY <1>2, <1>5, <3>1
    <3>3. Shift(d, i) = Shift(d, j) BY <3>2 DEF OneEach
    <3> QED BY <1>0, <1>1, <3>1, <3>3 DEF Shift
  <2> QED BY <2>2, <2>3
<1>6. OneEach(q) BY <1>5 DEF OneEach
<1> QED BY <1>1, <1>3, <1>4, <1>6

(* The identifiers after an old entry are those that were, and the new one.*)
LEMMA PutLater ==
  ASSUME NEW l \in Seq(Entry), NEW e \in Entry, NEW d, NEW q, PutAt(l, e, d, q), OneEach(l),
         NEW i \in 1..Len(q) - 1
  PROVE  Later(q, i) = Later(l, Shift(d, i)) \cup {e.id}
<1>0. Len(l) \in Nat /\ d \in 0..Len(l) /\ Len(q) \in Nat \ {0} BY PutKeeps DEF PutAt
<1>1. Len(q) = (IF d = 0 THEN Len(l) + 1 ELSE Len(l)) /\ q[Len(q)] = e BY DEF PutAt
<1>2. \A j \in 1..Len(q) - 1 : Shift(d, j) \in 1..Len(l) /\ q[j] = l[Shift(d, j)] BY DEF PutAt
<1>3. ASSUME NEW m \in i + 1..Len(q) PROVE q[m].id \in Later(l, Shift(d, i)) \cup {e.id}
  <2>1. CASE m = Len(q) BY <1>1, <2>1
  <2>2. CASE m # Len(q)
    <3>1. m \in 1..Len(q) - 1 BY <1>0, <2>2
    <3>2. Shift(d, m) \in Shift(d, i) + 1..Len(l)
      <4>1. Shift(d, m) \in 1..Len(l) BY <1>2, <3>1
      <4>2. i \in Nat /\ m \in Nat /\ i < m /\ d \in Nat BY <1>0, <3>1
      <4>3. Shift(d, i) < Shift(d, m) BY <4>2 DEF Shift
      <4>4. Shift(d, i) \in Nat BY <4>2 DEF Shift
      <4> QED BY <1>0, <4>1, <4>3, <4>4
    <3> QED BY <1>2, <3>1, <3>2 DEF Later
  <2> QED BY <2>1, <2>2
<1>4. e.id \in Later(q, i)
  <2>1. Len(q) \in i + 1..Len(q) BY <1>0
  <2> QED BY <1>1, <2>1 DEF Later
<1>5. ASSUME NEW m \in Shift(d, i) + 1..Len(l) PROVE l[m].id \in Later(q, i)
  <2>0. i \in Nat /\ i > 0 /\ m \in Nat /\ Shift(d, i) \in Nat /\ Shift(d, i) < m
    BY <1>0 DEF Shift
  <2>1. CASE m = d
    <3>1. d # 1 BY <2>0, <2>1 DEF Shift
    <3>2. d # 0 BY <2>0, <2>1
    <3>3. e.id \in Ids(l) BY <3>1, <3>2 DEF PutAt
    <3>4. l[d].id = e.id BY <3>3 DEF PutAt
    <3> QED BY <1>4, <2>1, <3>4
  <2>2. CASE m # d
    <3>1. m \in 1..Len(l) BY <1>0, <2>0
    <3>2. PICK j \in 1..Len(q) - 1 : Shift(d, j) = m BY <2>2, <3>1, PutKeeps
    <3>3. j \in Nat /\ d \in Nat BY <1>0
    <3>4. i < j BY <2>0, <3>2, <3>3 DEF Shift
    <3>5. j \in i + 1..Len(q) BY <1>0, <2>0, <3>3, <3>4
    <3> QED BY <1>2, <3>2, <3>5 DEF Later
  <2> QED BY <2>1, <2>2
<1>6. Later(q, i) \subseteq Later(l, Shift(d, i)) \cup {e.id} BY <1>3 DEF Later
<1>7. Later(l, Shift(d, i)) \subseteq Later(q, i) BY <1>5 DEF Later
<1> QED BY <1>4, <1>6, <1>7

LEMMA HistLater ==
  ASSUME NEW h \in Seq(Entry), NEW e \in Entry
  PROVE  /\ Append(h, e) \in Seq(Entry) /\ Len(Append(h, e)) = Len(h) + 1 /\ Len(h) \in Nat
         /\ Append(h, e)[Len(h) + 1] = e /\ \A j \in 1..Len(h) : Append(h, e)[j] = h[j]
         /\ Later(Append(h, e), Len(h) + 1) = {}
         /\ \A j \in 1..Len(h) : Later(Append(h, e), j) = Later(h, j) \cup {e.id}
<1> DEFINE g == Append(h, e)
<1>1. /\ g \in Seq(Entry) /\ Len(g) = Len(h) + 1 /\ Len(h) \in Nat
      /\ g[Len(h) + 1] = e /\ \A j \in 1..Len(h) : g[j] = h[j]
  OBVIOUS
<1> HIDE DEF g
<1>2. Later(g, Len(h) + 1) = {} BY <1>1 DEF Later
<1>3. ASSUME NEW j \in 1..Len(h) PROVE Later(g, j) = Later(h, j) \cup {e.id}
  <2>1. ASSUME NEW m \in j + 1..Len(g) PROVE g[m].id \in Later(h, j) \cup {e.id}
    <3>1. CASE m = Len(h) + 1 BY <1>1, <3>1
    <3>2. CASE m # Len(h) + 1
      <4>1. m \in j + 1..Len(h) /\ m \in 1..Len(h) BY <1>1, <3>2
      <4> QED BY <1>1, <4>1 DEF Later
    <3> QED BY <3>1, <3>2
  <2>2. ASSUME NEW m \in j + 1..Len(h) PROVE h[m].id \in Later(g, j)
    <3>1. m \in j + 1..Len(g) /\ m \in 1..Len(h) BY <1>1
    <3> QED BY <1>1, <3>1 DEF Later
  <2>3. e.id \in Later(g, j)
    <3>1. Len(h) + 1 \in j + 1..Len(g) BY <1>1
    <3> QED BY <1>1, <3>1 DEF Later
  <2>4. Later(g, j) \subseteq Later(h, j) \cup {e.id} BY <2>1 DEF Later
  <2>5. Later(h, j) \subseteq Later(g, j) BY <2>2 DEF Later
  <2> QED BY <2>3, <2>4, <2>5
<1> QED BY <1>1, <1>2, <1>3 DEF g

(* One more exchange: the map stays what is left of the history.           *)
LEMMA RecentPut ==
  ASSUME NEW l \in Seq(Entry), NEW h \in Seq(Entry), NEW e \in Entry, NEW d, NEW q,
         PutAt(l, e, d, q), Recent(l, h)
  PROVE  Recent(q, Append(h, e))
<1> DEFINE g == Append(h, e)
<1>1. /\ Len(g) = Len(h) + 1 /\ Len(h) \in Nat
      /\ g[Len(h) + 1] = e /\ \A j \in 1..Len(h) : g[j] = h[j]
      /\ Later(g, Len(h) + 1) = {}
      /\ \A j \in 1..Len(h) : Later(g, j) = Later(h, j) \cup {e.id}
  BY HistLater
<1> HIDE DEF g
<1>2. Len(l) \in Nat /\ d \in 0..Len(l) /\ Len(l) <= Cap /\ OneEach(l) BY DEF PutAt, Recent
<1>3. /\ Len(q) \in Nat \ {0} /\ OneEach(q)
      /\ \A m \in 1..Len(l) : m # d => \E i \in 1..Len(q) - 1 : Shift(d, i) = m
  BY <1>2, PutKeeps
<1>4. Len(q) = (IF d = 0 THEN Len(l) + 1 ELSE Len(l)) /\ q[Len(q)] = e BY DEF PutAt
<1>5. \A i \in 1..Len(q) - 1 : Shift(d, i) \in 1..Len(l) /\ q[i] = l[Shift(d, i)] BY DEF PutAt
<1>6. d = 0 => Len(l) # Cap BY DEF PutAt
<1>7. Len(q) <= Cap BY <1>2, <1>4, <1>6
<1>8. ASSUME NEW i \in 1..Len(q)
      PROVE  \E j \in 1..Len(g) : g[j] = q[i] /\ Later(g, j) = Later(q, i)
  <2>1. CASE i = Len(q)
    <3>1. Later(q, i) = {} BY <1>3, <2>1 DEF Later
    <3>2. Len(h) + 1 \in 1..Len(g) BY <1>1
    <3> QED BY <1>1, <1>4, <2>1, <3>1, <3>2
  <2>2. CASE i # Len(q)
    <3>1. i \in 1..Len(q) - 1 BY <1>3, <2>2
    <3>2. Shift(d, i) \in 1..Len(l) /\ q[i] = l[Shift(d, i)] BY <1>5, <3>1
    <3>3. PICK j \in 1..Len(h) : h[j] = l[Shift(d, i)] /\ Later(h, j) = Later(l, Shift(d, i))
      BY <3>2 DEF Recent
    <3>4. Later(q, i) = Later(l, Shift(d, i)) \cup {e.id} BY <1>2, <3>1, PutLater
    <3>5. j \in 1..Len(g) BY <1>1
    <3> QED BY <1>1, <3>2, <3>3, <3>4, <3>5
  <2> QED BY <2>1, <2>2
<1>9. ASSUME NEW j \in 1..Len(g), g[j].id \notin Later(g, j)
      PROVE  \/ \E i \in 1..Len(q) : q[i] = g[j]
             \/ Len(q) = Cap /\ Ids(q) \subseteq Later(g, j)
  <2>1. CASE j = Len(h) + 1
    <3>1. Len(q) \in 1..Len(q) BY <1>3
    <3> QED BY <1>1, <1>4, <2>1, <3>1
  <2>2. CASE j # Len(h) + 1
    <3>1. j \in 1..Len(h) BY <1>1, <2>2
    <3>2. g[j] = h[j] /\ Later(g, j) = Later(h, j) \cup {e.id} BY <1>1, <3>1
    <3>3. h[j].id # e.id /\ h[j].id \notin Later(h, j) BY <1>9, <3>2
    <3>4. ASSUME NEW S, S \subseteq Later(h, j),
                 \A i \in 1..Len(q) - 1 : q[i].id \in S
          PROVE  Ids(q) \subseteq Later(g, j)
      <4>1. \A i \in 1..Len(q) : i = Len(q) \/ i \in 1..Len(q) - 1 BY <1>3
      <4> QED BY <1>4, <3>2, <3>4, <4>1 DEF Ids
    <3>5. ASSUME NEW i \in 1..Len(l), l[i] = h[j], i # d
          PROVE  \E m \in 1..Len(q) : q[m] = g[j]
      <4>1. PICK m \in 1..Len(q) - 1 : Shift(d, m) = i BY <1>3, <3>5
      <4>2. m \in 1..Len(q) /\ q[m] = l[i] BY <1>3, <1>5, <4>1
      <4> QED BY <3>2, <3>5, <4>2
    <3>6. ASSUME d \in 1..Len(l), l[d] = h[j]
          PROVE  Len(q) = Cap /\ Ids(q) \subseteq Later(g, j)
      <4>1. e.id \notin Ids(l) BY <3>3, <3>6 DEF PutAt
      <4>2. d = 1 /\ Len(l) = Cap BY <3>6, <4>1 DEF PutAt
      <4>3. PICK k \in 1..Len(h) : h[k] = l[1] /\ Later(h, k) = Later(l, 1)
        BY <3>6, <4>2 DEF Recent
      <4>4. l[1].id \notin Later(l, 1)
        <5>1. \A m \in 2..Len(l) : m \in 1..Len(l) /\ m # 1 BY <1>2
        <5>2. \A m \in 2..Len(l) : l[m].id # l[1].id BY <3>6, <4>2, <1>2, <5>1 DEF OneEach
        <5> QED BY <5>2 DEF Later
      <4>5. k = j
        <5>1. ~(j < k)
          <6>1. j < k => k \in j + 1..Len(h) BY <1>1, <3>1
          <6> QED BY <3>3, <3>6, <4>2, <4>3, <6>1 DEF Later
        <5>2. ~(k < j)
          <6>1. k < j => j \in k + 1..Len(h) BY <1>1, <3>1
          <6> QED BY <3>6, <4>2, <4>3, <4>4, <6>1 DEF Later
        <5> QED BY <1>1, <3>1, <5>1, <5>2
      <4>6. ASSUME NEW i \in 1..Len(q) - 1 PROVE q[i].id \in Later(l, 1)
        <5>1. Shift(d, i) \in 1 + 1..Len(l) BY <1>2, <1>3, <1>5, <4>2 DEF Shift
        <5> QED BY <1>5, <5>1 DEF Later
      <4>7. Len(q) = Cap BY <1>4, <4>2
      <4> QED BY <3>4, <4>3, <4>5, <4>6, <4>7
    <3>7. ASSUME Len(l) = Cap, Ids(l) \subseteq Later(h, j)
          PROVE  Len(q) = Cap /\ Ids(q) \subseteq Later(g, j)
      <4>1. Len(q) = Cap BY <1>4, <1>6, <3>7
      <4>2. \A i \in 1..Len(q) - 1 : q[i].id \in Ids(l) BY <1>5 DEF Ids
      <4> QED BY <3>4, <3>7, <4>1, <4>2
    <3>8. \/ \E i \in 1..Len(l) : l[i] = h[j]
          \/ Len(l) = Cap /\ Ids(l) \subseteq Later(h, j)
      BY <3>1, <3>3 DEF Recent
    <3> QED BY <3>5, <3>6, <3>7, <3>8
  <2> QED BY <2>1, <2>2
<1>10. Recent(q, g) BY <1>3, <1>7, <1>8, <1>9 DEF Recent
<1> QED BY <1>10 DEF g

-----------------------------------------------------------------------------
(* The two maps of a party.                                                *)

(* What the proof needs to know about the shape of the state: the maps are *)
(* functions on the parties, a call that was made has a client as caller.  *)
Shape ==
  /\ by \in [Call -> Party]
  /\ lock \in [Party -> Call \cup {NoCall}]
  /\ st = [q \in Call |-> st[q]]
  /\ received = [p \in Party |-> received[p]]
  /\ generated = [p \in Party |-> generated[p]]
  /\ \A q \in Call : st[q] # "new" => by[q] \in Client

(* The lock of a party's received map is held by a call between its two    *)
(* puts: at the server in nonce_exchange, at a client in nonce.            *)
Holder ==
  \A p \in Party : lock[p] # NoCall =>
    IF p = Server THEN st[lock[p]] = "locked"
    ELSE st[lock[p]] = "storing" /\ by[lock[p]] = p

(* While it is held, the received map is one put ahead of the generated    *)
(* one.                                                                    *)
OneAhead ==
  \A p \in Party : lock[p] # NoCall =>
    received[p] = Put(generated[p], Identifier(p, lock[p]), lock[p])

IInv == Shape /\ Holder /\ OneAhead /\ OneExchange

(* The invariant holds initially: all maps are empty and nobody stores.    *)
LEMMA InitIInv == Init => IInv
BY DEF Init, IInv, Shape, Holder, OneAhead, OneExchange, Party

(* A step that leaves maps, locks and callers alone and does not touch a   *)
(* call that is storing preserves the invariant.                           *)
LEMMA Aside ==
  ASSUME IInv, UNCHANGED <<tls, maps, by>>,
         st' = [q \in Call |-> st'[q]],
         \A q \in Call : st'[q] # "new" => st[q] # "new",
         \A q \in Call : st[q] \in {"locked", "storing"} => st'[q] = st[q]
  PROVE  IInv'
<1>1. Shape' BY DEF IInv, Shape, maps
<1>2. Holder' BY DEF IInv, Shape, Holder, maps
<1>3. OneAhead'
  <2>1. \A p \in Party : Identifier(p, lock[p])' = Identifier(p, lock[p])
    BY DEF Identifier, maps
  <2> QED BY <2>1 DEF IInv, OneAhead, maps
<1>4. OneExchange' BY DEF IInv, OneExchange, maps
<1> QED BY <1>1, <1>2, <1>3, <1>4 DEF IInv

(* PutReceived of party p for call q, made while q enters stage s.         *)
LEMMA First ==
  ASSUME IInv, NEW p \in Party, NEW q \in Call, NEW s,
         PutReceived(p, q), Goes(q, s), UNCHANGED <<tls, by>>,
         st[q] \notin {"new", "locked", "storing"},
         IF p = Server THEN s = "locked" ELSE s = "storing" /\ by[q] = p
  PROVE  IInv'
<1> USE DEF IInv, Shape
<1>1. Shape' BY DEF PutReceived, Goes
<1>2. Holder'
  <2>1. \A r \in Party : lock'[r] = IF r = p THEN q ELSE lock[r]
    BY DEF PutReceived
  <2>2. st'[q] = s BY DEF Goes
  <2>3. \A r \in Call \ {q} : st'[r] = st[r] BY DEF Goes
  <2>4. \A r \in Party : lock[r] # q BY DEF Holder
  <2> SUFFICES ASSUME NEW r \in Party, lock'[r] # NoCall
               PROVE  (IF r = Server THEN st[lock[r]] = "locked"
                       ELSE st[lock[r]] = "storing" /\ by[lock[r]] = r)'
    BY DEF Holder
  <2>5. CASE r = p BY <2>1, <2>2, <2>5
  <2>6. CASE r # p
    <3>1. lock'[r] = lock[r] /\ lock[r] \in Call \ {q} BY <2>1, <2>4, <2>6
    <3>2. st'[lock'[r]] = st[lock[r]] /\ by'[lock'[r]] = by[lock[r]] BY <2>3, <3>1
    <3> QED BY <3>1, <3>2 DEF Holder
  <2> QED BY <2>5, <2>6
<1>3. OneAhead'
  <2> SUFFICES ASSUME NEW r \in Party, lock'[r] # NoCall
               PROVE  (received[r] = Put(generated[r], Identifier(r, lock[r]), lock[r]))'
    BY DEF OneAhead
  <2>1. CASE r = p
    <3>1. lock[p] = NoCall /\ lock'[p] = q /\ generated'[p] = generated[p]
      BY DEF PutReceived
    <3>2. received'[p] = Put(received[p], Identifier(p, q), q)
      BY DEF PutReceived
    <3>3. received[p] = generated[p] BY <3>1 DEF OneExchange
    <3>4. Identifier(r, lock[r])' = Identifier(p, q) BY <2>1, <3>1 DEF Identifier
    <3> QED BY <2>1, <3>1, <3>2, <3>3, <3>4
  <2>2. CASE r # p
    <3>1. Identifier(r, lock[r])' = Identifier(r, lock[r])
      BY <2>2 DEF PutReceived, Identifier
    <3>2. lock'[r] = lock[r] /\ generated'[r] = generated[r] /\ received'[r] = received[r]
      BY <2>2 DEF PutReceived
    <3> QED BY <3>1, <3>2 DEF OneAhead
  <2> QED BY <2>1, <2>2
<1>4. OneExchange'
  BY DEF PutReceived, OneExchange
<1> QED BY <1>1, <1>2, <1>3, <1>4

(* PutGenerated of party p for call q, which leaves its storing stage.     *)
LEMMA Second ==
  ASSUME IInv, NEW p \in Party, NEW q \in Call, NEW s,
         PutGenerated(p, q), Goes(q, s), UNCHANGED <<tls, by>>,
         IF p = Server THEN st[q] = "locked" ELSE st[q] = "storing",
         s \notin {"new", "locked", "storing"}
  PROVE  IInv'
<1> USE DEF IInv, Shape
<1>1. Shape' BY DEF PutGenerated, Goes
<1>2. Holder'
  <2>1. lock[p] = q /\ q # NoCall BY DEF PutGenerated
  <2>2. \A r \in Party \ {p} : lock[r] # q BY <2>1 DEF Holder
  <2>3. \A r \in Party : lock'[r] = IF r = p THEN NoCall ELSE lock[r]
    BY DEF PutGenerated
  <2>4. \A r \in Call \ {q} : st'[r] = st[r] BY DEF Goes
  <2> SUFFICES ASSUME NEW r \in Party, lock'[r] # NoCall
               PROVE  (IF r = Server THEN st[lock[r]] = "locked"
                       ELSE st[lock[r]] = "storing" /\ by[lock[r]] = r)'
    BY DEF Holder
  <2>5. r # p /\ lock'[r] = lock[r] /\ lock[r] \in Call \ {q}
    BY <2>2, <2>3
  <2>6. st'[lock'[r]] = st[lock[r]] /\ by'[lock'[r]] = by[lock[r]] BY <2>4, <2>5
  <2> QED BY <2>5, <2>6 DEF Holder
<1>3. OneAhead'
  <2> SUFFICES ASSUME NEW r \in Party, lock'[r] # NoCall
               PROVE  (received[r] = Put(generated[r], Identifier(r, lock[r]), lock[r]))'
    BY DEF OneAhead
  <2>1. r # p BY DEF PutGenerated
  <2>2. Identifier(r, lock[r])' = Identifier(r, lock[r])
    BY <2>1 DEF PutGenerated, Identifier
  <2>3. lock'[r] = lock[r] /\ generated'[r] = generated[r] /\ received'[r] = received[r]
    BY <2>1 DEF PutGenerated
  <2> QED BY <2>2, <2>3 DEF OneAhead
<1>4. OneExchange'
  <2> SUFFICES ASSUME NEW r \in Party, lock'[r] = NoCall
               PROVE  received'[r] = generated'[r]
    BY DEF OneExchange
  <2>1. CASE r = p
    <3>1. generated'[p] = Put(generated[p], Identifier(p, q), q)
          /\ received'[p] = received[p] /\ lock[p] = q
      BY DEF PutGenerated
    <3> QED BY <2>1, <3>1 DEF OneAhead
  <2>2. CASE r # p BY <2>2 DEF PutGenerated, OneExchange
  <2> QED BY <2>1, <2>2
<1> QED BY <1>1, <1>2, <1>3, <1>4

(* Every step preserves the invariant.                                     *)
LEMMA NextIInv == IInv /\ [Next]_vars => IInv'
<1> SUFFICES ASSUME IInv, [Next]_vars PROVE IInv' OBVIOUS
<1> USE DEF IInv, Shape
<1>1. CASE Bind4 \/ Bind6 \/ Ends4 \/ Ends6 \/ Stop
  <2>1. UNCHANGED <<config, by, st, maps>>
    BY <1>1 DEF Bind4, Bind6, Ends4, Ends6, Stop, Listeners
  <2> QED BY <2>1, Aside DEF config
<1>2. ASSUME NEW q \in Call, Handle(q) PROVE IInv'
  <2>1. CASE Connect(q)
    BY <2>1, Aside DEF Connect, Goes, config
  <2>2. CASE HandleRequest(q)
    BY <2>2, Aside DEF HandleRequest, Answers, Goes, config
  <2>3. CASE NonceExchange(q)
    BY <2>3, First DEF NonceExchange, config, Party
  <2>4. CASE NonceExchanged(q)
    BY <2>4, Second DEF NonceExchanged, Answers, config, Party
  <2> QED BY <1>2, <2>1, <2>2, <2>3, <2>4 DEF Handle
<1>3. ASSUME NEW q \in Call, Return(q) PROVE IInv'
  <2>1. ASSUME NEW ok, Outcome(q, ok) PROVE IInv'
    BY <2>1, Aside DEF Outcome, Goes, config
  <2>2. CASE Nonce(q)
    <3>1. by[q] \in Client BY <2>2 DEF Nonce
    <3> QED BY <2>2, <3>1, First DEF Nonce, config, Party
  <2>3. CASE NonceStored(q)
    <3>1. by[q] \in Client BY <2>3 DEF NonceStored
    <3> QED BY <2>3, <3>1, Second DEF NonceStored, config, Party
  <2> QED BY <1>3, <2>1, <2>2, <2>3
          DEF Return, Register, PrepareUpload, Upload, Cancel, Foreign, NonceRejected
<1>4. ASSUME NEW q \in Call, SendFails(q) PROVE IInv'
  BY <1>4, Aside DEF SendFails, Goes, config
<1>5. ASSUME NEW q \in Call, NEW c \in Client, NEW o \in Op, CallServer(q, c, o)
      PROVE  IInv'
  <2>1. Shape' BY <1>5 DEF CallServer, Goes, maps, Party
  <2>2. \A p \in Party : lock[p] # q
    BY <1>5 DEF CallServer, Holder
  <2>3. Holder'
    <3>1. lock' = lock BY <1>5 DEF CallServer, maps
    <3>2. \A r \in Call \ {q} : st'[r] = st[r] /\ by'[r] = by[r]
      BY <1>5 DEF CallServer, Goes
    <3>3. \A p \in Party : lock[p] # NoCall => lock[p] \in Call \ {q} BY <2>2
    <3> QED BY <3>1, <3>2, <3>3 DEF Holder
  <2>4. \A p \in Party : lock[p] # NoCall => by'[lock[p]] = by[lock[p]]
    BY <1>5, <2>2 DEF CallServer
  <2>5. OneAhead'
    <3>1. ASSUME NEW p \in Party, lock[p] # NoCall
          PROVE  Identifier(p, lock[p])' = Identifier(p, lock[p])
      BY <1>5, <2>4, <3>1 DEF CallServer, config, maps, Identifier
    <3>2. UNCHANGED <<received, generated, lock>>
      BY <1>5 DEF CallServer, maps
    <3> QED BY <3>1, <3>2 DEF OneAhead
  <2>6. OneExchange' BY <1>5 DEF CallServer, maps, OneExchange
  <2> QED BY <2>1, <2>3, <2>5, <2>6
<1>6. CASE UNCHANGED vars
  BY <1>6, Aside DEF vars, config
<1> QED BY <1>1, <1>2, <1>3, <1>4, <1>5, <1>6 DEF Next

(* OneExchange for every instance: whenever nobody is storing, the nonce a *)
(* party received and the one it generated for an identifier come from the *)
(* same exchange, and the two LRU maps evict the same entries, at any      *)
(* capacity and with any number of concurrent exchanges (nonce_exchange of *)
(* the server, nonce of the client).                                       *)
THEOREM MapsInStep == Spec => []OneExchange
<1>1. IInv => OneExchange BY DEF IInv
<1> QED BY InitIInv, NextIInv, <1>1, PTL DEF Spec

-----------------------------------------------------------------------------
(* What the maps remember.                                                 *)

(* The generated map and the history grow in one step, so the map is       *)
(* always what is left of the history.                                     *)
Remembers ==
  /\ generated \in [Party -> Seq(Entry)] /\ hist \in [Party -> Seq(Entry)]
  /\ \A p \in Party : Recent(generated[p], hist[p])

LEMMA EntryOf ==
  ASSUME Shape, NEW p \in Party, NEW q \in Call
  PROVE  [id |-> Identifier(p, q), nonce |-> q] \in Entry
<1>1. by[q] \in Party /\ Server \in Party BY DEF Shape, Party
<1>2. Identifier(p, q) \in Party \cup {IpOf[r] : r \in Party} BY <1>1 DEF Identifier
<1> QED BY <1>2 DEF Entry

(* Only the second half of an exchange touches generated maps and history. *)
LEMMA SecondOnly ==
  ASSUME Shape, [Next]_vars
  PROVE  \/ UNCHANGED <<generated, hist>>
         \/ \E p \in Party, q \in Call : PutGenerated(p, q)
<1>1. CASE UNCHANGED vars BY <1>1 DEF vars, maps
<1>2. CASE Bind4 \/ Bind6 \/ Ends4 \/ Ends6 \/ Stop
  BY <1>2 DEF Bind4, Bind6, Ends4, Ends6, Stop, Listeners, maps
<1>3. ASSUME NEW q \in Call, Handle(q)
      PROVE  UNCHANGED <<generated, hist>> \/ \E p \in Party, r \in Call : PutGenerated(p, r)
  <2>1. CASE Connect(q) \/ HandleRequest(q) BY <2>1 DEF Connect, HandleRequest, maps
  <2>2. CASE NonceExchange(q) BY <2>2 DEF NonceExchange, PutReceived
  <2>3. CASE NonceExchanged(q)
    <3>1. Server \in Party /\ PutGenerated(Server, q) BY <2>3 DEF NonceExchanged, Party
    <3> QED BY <3>1
  <2> QED BY <1>3, <2>1, <2>2, <2>3 DEF Handle
<1>4. ASSUME NEW q \in Call, Return(q)
      PROVE  UNCHANGED <<generated, hist>> \/ \E p \in Party, r \in Call : PutGenerated(p, r)
  <2>1. CASE Nonce(q) BY <2>1 DEF Nonce, PutReceived
  <2>2. CASE NonceStored(q)
    <3>1. by[q] \in Party /\ PutGenerated(by[q], q) BY <2>2 DEF NonceStored, Shape
    <3> QED BY <3>1
  <2>3. ASSUME NEW ok, Outcome(q, ok) PROVE UNCHANGED <<generated, hist>>
    BY <2>3 DEF Outcome, maps
  <2> QED BY <1>4, <2>1, <2>2, <2>3
          DEF Return, Register, PrepareUpload, Upload, Cancel, Foreign, NonceRejected
<1>5. ASSUME NEW q \in Call, SendFails(q) PROVE UNCHANGED <<generated, hist>>
  BY <1>5 DEF SendFails, maps
<1>6. ASSUME NEW q \in Call, NEW c \in Client, NEW o \in Op, CallServer(q, c, o)
      PROVE  UNCHANGED <<generated, hist>>
  BY <1>6 DEF CallServer, maps
<1> QED BY <1>1, <1>2, <1>3, <1>4, <1>5, <1>6 DEF Next

LEMMA InitRemembers == Init => Remembers
<1> SUFFICES ASSUME Init PROVE Remembers OBVIOUS
<1>1. generated = [p \in Party |-> <<>>] /\ hist = [p \in Party |-> <<>>] BY DEF Init
<1>2. Recent(<<>>, <<>>) BY DEF Recent, OneEach
<1> QED BY <1>1, <1>2 DEF Remembers

LEMMA RemembersStep ==
  ASSUME Shape, Remembers, [Next]_vars
  PROVE  Remembers'
<1>1. CASE UNCHANGED <<generated, hist>> BY <1>1 DEF Remembers
<1>2. ASSUME NEW p \in Party, NEW q \in Call, PutGenerated(p, q) PROVE Remembers'
  <2>1. PICK e : e = [id |-> Identifier(p, q), nonce |-> q] OBVIOUS
  <2>2. e \in Entry /\ e.id = Identifier(p, q) /\ e.nonce = q BY <2>1, EntryOf
  <2>3. generated[p] \in Seq(Entry) /\ hist[p] \in Seq(Entry) /\ Recent(generated[p], hist[p])
    BY DEF Remembers
  <2>4. Len(generated[p]) <= Cap BY <2>3 DEF Recent
  <2>5. PICK d : PutAt(generated[p], e, d, Put(generated[p], e.id, e.nonce))
    BY <2>2, <2>3, <2>4, PutIs
  <2>6. PICK l : l = Put(generated[p], e.id, e.nonce) OBVIOUS
  <2>7. PICK h : h = Append(hist[p], e) OBVIOUS
  <2>8. Recent(l, h) BY <2>2, <2>3, <2>5, <2>6, <2>7, RecentPut
  <2>9. l \in Seq(Entry) BY <2>5, <2>6 DEF PutAt
  <2>10. h \in Seq(Entry) BY <2>2, <2>3, <2>7
  <2>11. generated' = [generated EXCEPT ![p] = l] /\ hist' = [hist EXCEPT ![p] = h]
    BY <1>2, <2>1, <2>2, <2>6, <2>7 DEF PutGenerated
  <2> QED BY <2>8, <2>9, <2>10, <2>11 DEF Remembers
<1> QED BY <1>1, <1>2, SecondOnly

LEMMA LaterCard ==
  ASSUME NEW h \in Seq(Entry), NEW j \in 1..Len(h)
  PROVE  IsFiniteSet(Later(h, j)) /\ Cardinality(Later(h, j)) <= Len(h) - j
<1> DEFINE S == j + 1..Len(h)
           f == [m \in S |-> h[m].id]
<1>0. Len(h) \in Nat OBVIOUS
<1>1. IsFiniteSet(S) /\ Cardinality(S) = Len(h) - j
  <2>1. j + 1 \in Int /\ Len(h) \in Int BY <1>0
  <2>2. /\ IsFiniteSet(j + 1..Len(h))
        /\ Cardinality(j + 1..Len(h)) = IF j + 1 > Len(h) THEN 0 ELSE Len(h) - (j + 1) + 1
    BY <2>1, FS_Interval
  <2> QED BY <1>0, <2>2
<1>2. f \in Surjection(S, Later(h, j)) BY DEF Surjection, Later
<1> HIDE DEF S, f
<1>3. IsFiniteSet(Later(h, j)) /\ Cardinality(Later(h, j)) <= Cardinality(S)
  BY <1>1, <1>2, FS_Surjection
<1> QED BY <1>1, <1>3

(* A map as long as its capacity has as many identifiers, so what came     *)
(* since an evicted entry is at least that many.                           *)
LEMMA RecentMeans ==
  ASSUME NEW l \in Seq(Entry), NEW h \in Seq(Entry), Recent(l, h)
  PROVE  Elems(l) = {h[i] : i \in {j \in 1..Len(h) : /\ h[j].id \notin Later(h, j)
                                                     /\ Cardinality(Later(h, j)) < Cap}}
<1>0. Len(l) \in Nat /\ Len(h) \in Nat /\ Len(l) <= Cap /\ OneEach(l) BY DEF Recent
<1>1. ASSUME NEW i \in 1..Len(l)
      PROVE  \E j \in 1..Len(h) : /\ h[j] = l[i] /\ h[j].id \notin Later(h, j)
                                  /\ Cardinality(Later(h, j)) < Cap
  <2>1. PICK j \in 1..Len(h) : h[j] = l[i] /\ Later(h, j) = Later(l, i) BY DEF Recent
  <2>2. l[i].id \notin Later(l, i)
    <3>1. \A m \in i + 1..Len(l) : m \in 1..Len(l) /\ m # i BY <1>0
    <3> QED BY <1>0, <3>1 DEF Later, OneEach
  <2>3. IsFiniteSet(Later(l, i)) /\ Cardinality(Later(l, i)) <= Len(l) - i BY LaterCard
  <2>5. Cardinality(Later(l, i)) \in Nat BY <2>3, FS_CardinalityType
  <2> QED BY <1>0, <2>1, <2>2, <2>3, <2>5
<1>2. ASSUME NEW j \in 1..Len(h), h[j].id \notin Later(h, j), Cardinality(Later(h, j)) < Cap
      PROVE  \E i \in 1..Len(l) : l[i] = h[j]
  <2> SUFFICES ASSUME Len(l) = Cap, Ids(l) \subseteq Later(h, j) PROVE FALSE
    BY <1>2 DEF Recent
  <2>1. IsFiniteSet(Later(h, j)) BY LaterCard
  <2>2. Cardinality(Ids(l)) = Len(l)
    <3> DEFINE S == 1..Len(l)
               f == [m \in S |-> l[m].id]
    <3>1. IsFiniteSet(S) /\ Cardinality(S) = Len(l)
      BY <1>0, FS_Interval
    <3>2. f \in Bijection(S, Ids(l))
      <4>1. f \in Surjection(S, Ids(l)) BY DEF Surjection, Ids
      <4>2. \A a, b \in S : f[a] = f[b] => a = b BY <1>0 DEF OneEach
      <4>3. f \in [S -> Ids(l)] BY DEF Ids
      <4> HIDE DEF S, f
      <4>4. f \in Injection(S, Ids(l)) BY <4>2, <4>3 DEF Injection, IsInjective
      <4> QED BY <4>1, <4>4 DEF Bijection
    <3> HIDE DEF S, f
    <3>3. ExistsBijection(S, Ids(l)) BY <3>2 DEF ExistsBijection
    <3> QED BY <3>1, <3>3, FS_Bijection
  <2>3. IsFiniteSet(Ids(l)) /\ Cardinality(Ids(l)) <= Cardinality(Later(h, j)) BY <2>1, FS_Subset
  <2>4. Cardinality(Later(h, j)) \in Nat BY <2>1, FS_CardinalityType
  <2> QED BY <1>0, <1>2, <2>2, <2>3, <2>4
<1> DEFINE Js == {j \in 1..Len(h) : h[j].id \notin Later(h, j) /\ Cardinality(Later(h, j)) < Cap}
<1>3. Elems(l) \subseteq {h[j] : j \in Js} BY <1>1 DEF Elems
<1>4. {h[j] : j \in Js} \subseteq Elems(l) BY <1>2 DEF Elems
<1> QED BY <1>3, <1>4

(* KeepsRecent for every instance: a party holds the nonces of its latest  *)
(* exchange with an identifier exactly until Cap others have come since    *)
(* (the LruCache maps of nonce_exchange and nonce), at any capacity.       *)
THEOREM MapsRemember == Spec => []KeepsRecent
<1> DEFINE J == IInv /\ Remembers
<1>1. Init => J BY InitIInv, InitRemembers
<1>2. J /\ [Next]_vars => J' BY NextIInv, RemembersStep DEF IInv
<1>3. J => KeepsRecent
  <2> SUFFICES ASSUME IInv, Remembers, NEW p \in Party, lock[p] = NoCall
               PROVE  Elems(received[p]) = {hist[p][i] : i \in {j \in Latest(p) :
                                            Cardinality(Since(p, j)) < Cap}}
    BY DEF KeepsRecent
  <2>1. received[p] = generated[p] BY DEF IInv, OneExchange
  <2>2. \A i : Since(p, i) = Later(hist[p], i) BY DEF Since, Later
  <2>3. generated[p] \in Seq(Entry) /\ hist[p] \in Seq(Entry) /\ Recent(generated[p], hist[p])
    BY DEF Remembers
  <2>4. Elems(generated[p]) = {hist[p][i] : i \in {j \in 1..Len(hist[p]) :
            /\ hist[p][j].id \notin Later(hist[p], j)
            /\ Cardinality(Later(hist[p], j)) < Cap}}
    BY <2>3, RecentMeans
  <2> QED BY <2>1, <2>2, <2>4 DEF Latest
<1> QED BY <1>1, <1>2, <1>3, PTL DEF Spec

-----------------------------------------------------------------------------
(* Agreement of client and server.                                         *)

(* No other client goes by c's identifier.                                 *)
Lonely(c) == \A d \in Client : Alike(c, d) => d = c
Mine(q, c) == Open(q) /\ op[q] = "nonce" /\ by[q] = c
(* The server has stored its part of the exchange, the client not yet.     *)
Half(q, c) == Mine(q, c) /\ st[q] \in {"locked", "answered", "storing"}
Agreed(c, n) ==
  [id |-> IdOf(Server), nonce |-> n] \in Elems(generated[c]) \cap Elems(received[c])

(* One exchange of c at a time; while it is half done the server holds its *)
(* nonces, and otherwise those that c holds too.                           *)
Stage(c) ==
  /\ \A q, r \in Call : Mine(q, c) /\ Mine(r, c) => q = r
  /\ \A q \in Call : Mine(q, c) /\ st[q] = "storing" =>
       [id |-> IdOf(Server), nonce |-> q] \in Elems(received[c])
  /\ \A e \in Elems(received[Server]) : e.id = IdOf(c) =>
       IF \E q \in Call : Half(q, c) THEN e.nonce \in Call /\ Half(e.nonce, c)
       ELSE Agreed(c, e.nonce)
Stages == /\ \A c \in clean : Lonely(c) => Stage(c)
          /\ clean \subseteq Client
          /\ op = [q \in Call |-> op[q]]
          /\ \A q \in Call : st[q] \in {"locked", "storing"} => op[q] = "nonce"

(* Put adds its entry, drops every other one with its identifier and       *)
(* invents nothing.                                                        *)
LEMMA PutElems ==
  ASSUME NEW l \in Seq(Entry), Len(l) <= Cap, OneEach(l), NEW e \in Entry
  PROVE  /\ Put(l, e.id, e.nonce) \in Seq(Entry) /\ OneEach(Put(l, e.id, e.nonce))
         /\ Len(Put(l, e.id, e.nonce)) <= Cap
         /\ e \in Elems(Put(l, e.id, e.nonce))
         /\ \A x \in Elems(Put(l, e.id, e.nonce)) : x = e \/ (x \in Elems(l) /\ x.id # e.id)
<1>1. PICK q : q = Put(l, e.id, e.nonce) OBVIOUS
<1>2. PICK d : PutAt(l, e, d, q) BY <1>1, PutIs
<1>3. /\ Len(q) \in Nat \ {0} /\ OneEach(q)
      /\ \A i \in 1..Len(q) - 1 : q[i].id # e.id
  BY <1>2, PutKeeps
<1>4. q \in Seq(Entry) /\ q[Len(q)] = e BY <1>2 DEF PutAt
<1>5. Len(q) <= Cap
  <2>1. Len(q) = (IF d = 0 THEN Len(l) + 1 ELSE Len(l)) /\ (d = 0 => Len(l) # Cap)
    BY <1>2 DEF PutAt
  <2>2. Len(l) \in Nat OBVIOUS
  <2> QED BY <2>1, <2>2
<1>6. e \in Elems(q) BY <1>3, <1>4 DEF Elems
<1>7. ASSUME NEW i \in 1..Len(q) PROVE q[i] = e \/ (q[i] \in Elems(l) /\ q[i].id # e.id)
  <2>1. CASE i = Len(q) BY <1>4, <2>1
  <2>2. CASE i # Len(q)
    <3>1. i \in 1..Len(q) - 1 BY <1>3, <2>2
    <3>2. q[i] \in Elems(l) BY <1>2, <3>1 DEF PutAt, Elems
    <3> QED BY <1>3, <3>1, <3>2
  <2> QED BY <2>1, <2>2
<1> QED BY <1>1, <1>3, <1>4, <1>5, <1>6, <1>7 DEF Elems

(* The received maps are well formed too.                                  *)
LEMMA ReceivedIs ==
  ASSUME IInv, Remembers, NEW p \in Party
  PROVE  received[p] \in Seq(Entry) /\ OneEach(received[p]) /\ Len(received[p]) <= Cap
<1>1. generated[p] \in Seq(Entry) /\ OneEach(generated[p]) /\ Len(generated[p]) <= Cap
  BY DEF Remembers, Recent
<1>2. CASE lock[p] = NoCall
  <2>1. received[p] = generated[p] BY <1>2 DEF IInv, OneExchange
  <2> QED BY <1>1, <2>1
<1>3. CASE lock[p] # NoCall
  <2>1. lock[p] \in Call BY <1>3 DEF IInv, Shape
  <2>2. PICK e : e = [id |-> Identifier(p, lock[p]), nonce |-> lock[p]] OBVIOUS
  <2>3. e \in Entry /\ e.id = Identifier(p, lock[p]) /\ e.nonce = lock[p]
    BY <2>1, <2>2, EntryOf DEF IInv
  <2>4. received[p] = Put(generated[p], e.id, e.nonce) BY <1>3, <2>3 DEF IInv, OneAhead
  <2> QED BY <1>1, <2>3, <2>4, PutElems
<1> QED BY <1>2, <1>3

(* The identifiers of the two ends of an exchange.                         *)
LEMMA EndsIs ==
  ASSUME NEW q \in Call, by[q] \in Client
  PROVE  Identifier(Server, q) = IdOf(by[q]) /\ Identifier(by[q], q) = IdOf(Server)
BY DEF Identifier, IdOf

LEMMA OthersId ==
  ASSUME NEW c \in Client, NEW d \in Client, Lonely(c), d # c
  PROVE  IdOf(d) # IdOf(c)
BY DEF Lonely, Alike, IdOf

(* A step that stores nothing of c's.                                      *)
LEMMA StageKept ==
  ASSUME NEW c \in Client, Stage(c), UNCHANGED <<tls, received>>, generated'[c] = generated[c],
         \A q \in Call : Mine(q, c)' => Mine(q, c),
         \A q \in Call : Half(q, c)' <=> Half(q, c),
         \A q \in Call : (Mine(q, c) /\ st[q] = "storing")' => st[q] = "storing"
  PROVE  Stage(c)'
<1>1. IdOf(Server)' = IdOf(Server) /\ IdOf(c)' = IdOf(c) BY DEF IdOf
<1>2. (\A q, r \in Call : Mine(q, c) /\ Mine(r, c) => q = r)' BY DEF Stage
<1>3. (\A q \in Call : Mine(q, c) /\ st[q] = "storing" =>
         [id |-> IdOf(Server), nonce |-> q] \in Elems(received[c]))'
  BY <1>1 DEF Stage, Elems
<1>4. \A n : Agreed(c, n)' <=> Agreed(c, n) BY <1>1 DEF Agreed, Elems
<1>5. ASSUME NEW e \in Elems(received[Server]), e.id = IdOf(c)
      PROVE  IF \E q \in Call : Half(q, c)' THEN e.nonce \in Call /\ Half(e.nonce, c)'
             ELSE Agreed(c, e.nonce)'
  BY <1>4, <1>5 DEF Stage
<1>6. Elems(received[Server])' = Elems(received[Server]) BY DEF Elems
<1> QED BY <1>1, <1>2, <1>3, <1>5, <1>6 DEF Stage

(* The server stores its part of exchange q.                               *)
LEMMA StageServer ==
  ASSUME IInv, Remembers, Stages, NEW c \in clean, Lonely(c), Stage(c),
         NEW q \in Call, NonceExchange(q)
  PROVE  Stage(c)'
<1>0. c \in Client /\ c # Server /\ Server \in Party BY DEF Stages, Party
<1>1. st[q] = "connected" /\ op[q] = "nonce" /\ UNCHANGED <<tls, by, op, generated>>
  BY DEF NonceExchange, PutReceived, config
<1>2. by[q] \in Client BY <1>1 DEF IInv, Shape
<1>3. PICK e : e = [id |-> Identifier(Server, q), nonce |-> q] OBVIOUS
<1>4. e \in Entry /\ e.id = IdOf(by[q]) /\ e.nonce = q
  BY <1>0, <1>2, <1>3, EntryOf, EndsIs DEF IInv
<1>5. /\ received'[Server] = Put(received[Server], e.id, e.nonce)
      /\ received'[c] = received[c]
  BY <1>0, <1>3 DEF NonceExchange, PutReceived, IInv, Shape
<1>6. \A x \in Elems(received'[Server]) :
         x = e \/ (x \in Elems(received[Server]) /\ x.id # e.id)
  BY <1>0, <1>4, <1>5, ReceivedIs, PutElems
<1>7. \A r \in Call : st'[r] = IF r = q THEN "locked" ELSE st[r]
  BY DEF NonceExchange, Goes, IInv, Shape
<1>8. IdOf(Server)' = IdOf(Server) /\ IdOf(c)' = IdOf(c) BY <1>1 DEF IdOf
<1>9. \A r \in Call : Mine(r, c)' <=> Mine(r, c) BY <1>1, <1>7 DEF Mine, Open
<1>10. \A r \in Call : (Mine(r, c) /\ st[r] = "storing")' => Mine(r, c) /\ st[r] = "storing"
  BY <1>7, <1>9
<1>11. \A r \in Call : Half(r, c)' <=> Half(r, c) \/ (r = q /\ by[q] = c)
  BY <1>1, <1>7, <1>9 DEF Half, Mine, Open
<1>12. \A n : Agreed(c, n)' <=> Agreed(c, n) BY <1>1, <1>5, <1>8 DEF Agreed, Elems
<1>13. (\A r, s \in Call : Mine(r, c) /\ Mine(s, c) => r = s)' BY <1>9 DEF Stage
<1>14. (\A r \in Call : Mine(r, c) /\ st[r] = "storing" =>
          [id |-> IdOf(Server), nonce |-> r] \in Elems(received[c]))'
  BY <1>5, <1>8, <1>10 DEF Stage, Elems
<1>15. ASSUME NEW x \in Elems(received'[Server]), x.id = IdOf(c)
       PROVE  IF \E r \in Call : Half(r, c)' THEN x.nonce \in Call /\ Half(x.nonce, c)'
              ELSE Agreed(c, x.nonce)'
  <2>1. CASE by[q] = c
    <3>1. x = e BY <1>4, <1>6, <1>15, <2>1
    <3> QED BY <1>4, <1>11, <2>1, <3>1
  <2>2. CASE by[q] # c
    <3>1. e.id # IdOf(c) BY <1>0, <1>2, <1>4, <2>2, OthersId
    <3>2. x \in Elems(received[Server]) BY <1>6, <1>15, <3>1
    <3> QED BY <1>11, <1>12, <1>15, <2>2, <3>2 DEF Stage
  <2> QED BY <2>1, <2>2
<1>16. Elems(received[Server])' = Elems(received'[Server]) BY DEF Elems
<1> QED BY <1>8, <1>13, <1>14, <1>15, <1>16 DEF Stage

(* Client d stores the first half of exchange q.                           *)
LEMMA StageClient ==
  ASSUME IInv, Remembers, Stages, NEW c \in clean, Lonely(c), Stage(c),
         NEW q \in Call, Nonce(q)
  PROVE  Stage(c)'
<1>0. c \in Client /\ c # Server /\ Server \in Party /\ c \in Party BY DEF Stages, Party
<1>1. st[q] = "answered" /\ op[q] = "nonce" /\ UNCHANGED <<tls, by, op, generated>>
  BY DEF Nonce, PutReceived, config
<1>2. by[q] \in Client /\ by[q] \in Party /\ by[q] # Server BY <1>1 DEF IInv, Shape, Party
<1>3. PICK e : e = [id |-> Identifier(by[q], q), nonce |-> q] OBVIOUS
<1>4. e \in Entry /\ e = [id |-> IdOf(Server), nonce |-> q]
      /\ e.id = Identifier(by[q], q) /\ e.nonce = q
  BY <1>2, <1>3, EntryOf, EndsIs DEF IInv
<1>5. received' = [received EXCEPT ![by[q]] = Put(received[by[q]], e.id, e.nonce)]
  BY <1>4 DEF Nonce, PutReceived
<1>6. \A r \in Call : st'[r] = IF r = q THEN "storing" ELSE st[r]
  BY DEF Nonce, Goes, IInv, Shape
<1>7. \A r \in Call : (Mine(r, c)' <=> Mine(r, c)) /\ (Half(r, c)' <=> Half(r, c))
  BY <1>1, <1>6 DEF Mine, Open, Half
<1>8. IdOf(Server)' = IdOf(Server) /\ IdOf(c)' = IdOf(c) BY <1>1 DEF IdOf
<1>9. received'[Server] = received[Server] BY <1>0, <1>2, <1>5 DEF IInv, Shape
<1>10. (\A r, s \in Call : Mine(r, c) /\ Mine(s, c) => r = s)' BY <1>7 DEF Stage
<1>11. Elems(received[Server])' = Elems(received[Server]) BY <1>9 DEF Elems
<1>12. CASE by[q] = c
  <2>1. Half(q, c) /\ Mine(q, c) BY <1>1, <1>12 DEF Half, Mine, Open
  <2>2. e \in Elems(received'[c])
    <3>1. received'[c] = Put(received[c], e.id, e.nonce)
      BY <1>0, <1>5, <1>12 DEF IInv, Shape
    <3> QED BY <1>0, <1>4, <3>1, ReceivedIs, PutElems
  <2>3. (\A r \in Call : Mine(r, c) /\ st[r] = "storing" =>
           [id |-> IdOf(Server), nonce |-> r] \in Elems(received[c]))'
    <3>1. \A r \in Call : Mine(r, c)' => r = q BY <1>7, <2>1 DEF Stage
    <3>2. Elems(received[c])' = Elems(received'[c]) BY DEF Elems
    <3> QED BY <1>4, <1>8, <2>2, <3>1, <3>2
  <2>4. \A x \in Elems(received[Server]) : x.id = IdOf(c) => x.nonce \in Call /\ Half(x.nonce, c)'
    BY <1>7, <2>1 DEF Stage
  <2>5. \E r \in Call : Half(r, c)' BY <1>7, <2>1
  <2> QED BY <1>8, <1>10, <1>11, <2>3, <2>4, <2>5 DEF Stage
<1>13. CASE by[q] # c
  <2>1. received'[c] = received[c] BY <1>0, <1>5, <1>13 DEF IInv, Shape
  <2>2. (\A r \in Call : Mine(r, c) /\ st[r] = "storing" =>
           [id |-> IdOf(Server), nonce |-> r] \in Elems(received[c]))'
    <3>1. \A r \in Call : (Mine(r, c) /\ st[r] = "storing")' => Mine(r, c) /\ st[r] = "storing"
      BY <1>1, <1>6, <1>7, <1>13 DEF Mine
    <3> QED BY <1>8, <2>1, <3>1 DEF Stage, Elems
  <2>3. \A n : Agreed(c, n)' <=> Agreed(c, n) BY <1>1, <1>8, <2>1 DEF Agreed, Elems
  <2>4. ASSUME NEW x \in Elems(received[Server]), x.id = IdOf(c)
        PROVE  IF \E r \in Call : Half(r, c)' THEN x.nonce \in Call /\ Half(x.nonce, c)'
               ELSE Agreed(c, x.nonce)'
    BY <1>7, <2>3, <2>4 DEF Stage
  <2> QED BY <1>8, <1>10, <1>11, <2>2, <2>4 DEF Stage
<1> QED BY <1>12, <1>13

(* Client d stores the second half of exchange q.                          *)
LEMMA StageStored ==
  ASSUME IInv, Remembers, Stages, NEW c \in clean, Lonely(c), Stage(c),
         NEW q \in Call, NonceStored(q)
  PROVE  Stage(c)'
<1>0. c \in Client /\ c # Server /\ c \in Party BY DEF Stages, Party
<1>1. st[q] = "storing" /\ op[q] = "nonce" /\ UNCHANGED <<tls, by, op, received>>
  BY DEF NonceStored, PutGenerated, config, Stages
<1>2. by[q] \in Client /\ by[q] \in Party BY <1>1 DEF IInv, Shape, Party
<1>3. PICK e : e = [id |-> Identifier(by[q], q), nonce |-> q] OBVIOUS
<1>4. e \in Entry /\ e = [id |-> IdOf(Server), nonce |-> q]
      /\ e.id = Identifier(by[q], q) /\ e.nonce = q
  BY <1>2, <1>3, EntryOf, EndsIs DEF IInv
<1>5. generated' = [generated EXCEPT ![by[q]] = Put(generated[by[q]], e.id, e.nonce)]
  BY <1>4 DEF NonceStored, PutGenerated
<1>6. \A r \in Call : st'[r] = IF r = q THEN "ok" ELSE st[r]
  BY DEF NonceStored, Goes, IInv, Shape
<1>7. CASE by[q] # c
  <2>1. generated'[c] = generated[c] BY <1>0, <1>5, <1>7 DEF IInv, Shape
  <2>2. \A r \in Call : /\ Mine(r, c)' <=> Mine(r, c)
                        /\ Half(r, c)' <=> Half(r, c)
                        /\ (Mine(r, c) /\ st[r] = "storing")' => st[r] = "storing"
    BY <1>1, <1>6, <1>7 DEF Mine, Open, Half
  <2> QED BY <1>0, <1>1, <2>1, <2>2, StageKept
<1>8. CASE by[q] = c
  <2>1. Mine(q, c) /\ Half(q, c) BY <1>1, <1>8 DEF Mine, Open, Half
  <2>2. \A r \in Call : ~Mine(r, c)'
    <3>1. \A r \in Call : Mine(r, c) => r = q BY <2>1 DEF Stage
    <3>2. \A r \in Call : Mine(r, c)' => Mine(r, c) /\ r # q BY <1>1, <1>6 DEF Mine, Open
    <3> QED BY <3>1, <3>2
  <2>3. \A r \in Call : ~Half(r, c)' BY <2>2 DEF Half
  <2>4. e \in Elems(received[c]) BY <1>1, <1>4, <2>1 DEF Stage
  <2>5. e \in Elems(generated'[c])
    <3>1. generated'[c] = Put(generated[c], e.id, e.nonce) BY <1>0, <1>5, <1>8 DEF IInv, Shape
    <3>2. generated[c] \in Seq(Entry) /\ OneEach(generated[c]) /\ Len(generated[c]) <= Cap
      BY <1>0 DEF Remembers, Recent
    <3> QED BY <1>4, <3>1, <3>2, PutElems
  <2>6. IdOf(Server)' = IdOf(Server) /\ IdOf(c)' = IdOf(c) BY <1>1 DEF IdOf
  <2>7. Agreed(c, q)' BY <1>1, <1>4, <2>4, <2>5, <2>6 DEF Agreed, Elems
  <2>8. \A x \in Elems(received[Server]) : x.id = IdOf(c) => x.nonce = q
    <3>1. \A r \in Call : Mine(r, c) => r = q BY <2>1 DEF Stage
    <3>2. \A x \in Elems(received[Server]) : x.id = IdOf(c) => x.nonce \in Call /\ Half(x.nonce, c)
      BY <2>1 DEF Stage
    <3> QED BY <3>1, <3>2 DEF Half
  <2>9. Elems(received[Server])' = Elems(received[Server]) BY <1>1 DEF Elems
  <2> QED BY <2>2, <2>3, <2>6, <2>7, <2>8, <2>9 DEF Stage
<1> QED BY <1>7, <1>8

(* Every other step stores nothing, or what the server generated; a client *)
(* that breaks an exchange off or overlaps two is no longer clean.         *)
StoresNothing(q, c) ==
  \/ Connect(q) \/ HandleRequest(q) \/ NonceExchanged(q) \/ SendFails(q)
  \/ (\E ok : Outcome(q, ok)) /\ (op[q] # "nonce" \/ by[q] # c)
LEMMA StageAside ==
  ASSUME IInv, Stages, NEW c \in clean', c \in clean, Lonely(c), Stage(c), NEW q \in Call,
         StoresNothing(q, c)
  PROVE  Stage(c)'
<1> USE DEF StoresNothing
<1>0. c \in Client /\ c # Server /\ c \in Party BY DEF Stages, Party
<1>1. UNCHANGED <<tls, received, by, op>> /\ generated'[c] = generated[c]
  <2>1. CASE NonceExchanged(q)
    BY <1>0, <2>1 DEF NonceExchanged, PutGenerated, config, IInv, Shape
  <2>2. CASE ~NonceExchanged(q)
    BY <2>2 DEF Connect, HandleRequest, SendFails, Outcome, config, maps
  <2> QED BY <2>1, <2>2
<1>2. PICK s : st' = [st EXCEPT ![q] = s] /\ s \in {"err", "connected", "answered", "ok"}
               /\ (s = "connected" => st[q] = "sent")
               /\ (s = "answered" => st[q] = "locked" \/ (st[q] = "connected" /\ op[q] # "nonce"))
               /\ (s \in {"err", "ok"} => st[q] \in {"sent", "connected", "answered"}
                    /\ (st[q] # "answered" \/ op[q] # "nonce" \/ by[q] # c))
  <2>1. CASE Connect(q) BY <2>1 DEF Connect, Goes
  <2>2. CASE HandleRequest(q) BY <2>2 DEF HandleRequest, Answers, Goes
  <2>3. CASE NonceExchanged(q)
    <3>1. st[q] = "locked" /\ st' = [st EXCEPT ![q] = "answered"]
      BY <2>3 DEF NonceExchanged, Answers, Goes
    <3> WITNESS "answered"
    <3> QED BY <3>1
  <2>4. CASE SendFails(q)
    <3>1. st[q] = "answered" /\ op[q] = "nonce" => by[q] # c BY <2>4 DEF SendFails
    <3> QED BY <2>4, <3>1 DEF SendFails, Goes
  <2>5. CASE (\E ok : Outcome(q, ok)) /\ (op[q] # "nonce" \/ by[q] # c)
    BY <2>5 DEF Outcome, Goes
  <2> QED BY <2>1, <2>2, <2>3, <2>4, <2>5
<1>3. \A r \in Call : st'[r] = IF r = q THEN s ELSE st[r] BY <1>2 DEF IInv, Shape
<1>4. \A r \in Call : /\ Mine(r, c)' => Mine(r, c)
                      /\ Half(r, c)' <=> Half(r, c)
                      /\ (Mine(r, c) /\ st[r] = "storing")' => st[r] = "storing"
  BY <1>1, <1>2, <1>3 DEF Mine, Open, Half
<1> QED BY <1>0, <1>1, <1>4, StageKept

LEMMA StageCall ==
  ASSUME IInv, Stages, NEW c \in clean', c \in clean, Lonely(c), Stage(c), NEW q \in Call,
         NEW d \in Client, NEW o \in Op, CallServer(q, d, o)
  PROVE  Stage(c)'
<1>0. c \in Client BY DEF Stages
<1>1. /\ UNCHANGED <<tls, received, generated>> /\ st[q] = "new"
      /\ \A r \in Call : /\ st'[r] = IF r = q THEN "sent" ELSE st[r]
                         /\ by'[r] = IF r = q THEN d ELSE by[r]
                         /\ op'[r] = IF r = q THEN o ELSE op[r]
  BY DEF CallServer, Goes, config, maps, IInv, Shape, Stages
<1>2. \A r \in Call : /\ Half(r, c)' <=> Half(r, c)
                      /\ (Mine(r, c) /\ st[r] = "storing")' => st[r] = "storing"
  BY <1>1 DEF Mine, Open, Half
<1>3. CASE d # c \/ o # "nonce"
  <2>1. \A r \in Call : Mine(r, c)' => Mine(r, c) BY <1>1, <1>3 DEF Mine, Open
  <2> QED BY <1>0, <1>1, <1>2, <2>1, StageKept
<1>4. CASE d = c /\ o = "nonce"
  <2>1. Alike(c, c) BY DEF Alike
  <2>2. \A r \in Call : ~Mine(r, c)
    <3> SUFFICES ASSUME NEW r \in Call, Mine(r, c) PROVE FALSE OBVIOUS
    <3>1. Open(r) /\ op[r] = "nonce" /\ Alike(by[r], d) BY <1>4, <2>1 DEF Mine
    <3>2. clean' = clean \ {x \in Client : Alike(x, d)} BY <1>4, <3>1 DEF CallServer
    <3> QED BY <1>0, <1>4, <2>1, <3>2
  <2>3. \A r \in Call : ~Half(r, c) /\ ~Half(r, c)' BY <1>2, <2>2 DEF Half
  <2>4. \A r \in Call : Mine(r, c)' => r = q /\ st'[r] = "sent" BY <1>1, <2>2 DEF Mine, Open
  <2>5. IdOf(Server)' = IdOf(Server) /\ IdOf(c)' = IdOf(c) BY <1>1 DEF IdOf
  <2>6. \A n : Agreed(c, n)' <=> Agreed(c, n) BY <1>1, <2>5 DEF Agreed, Elems
  <2>7. \A x \in Elems(received[Server]) : x.id = IdOf(c) => Agreed(c, x.nonce)' BY <2>3, <2>6 DEF Stage
  <2>8. Elems(received[Server])' = Elems(received[Server]) BY <1>1 DEF Elems
  <2> QED BY <2>3, <2>4, <2>5, <2>7, <2>8 DEF Stage
<1> QED BY <1>3, <1>4

LEMMA InitStages == Init => Stages
<1> SUFFICES ASSUME Init PROVE Stages OBVIOUS
<1>1. \A q \in Call : st[q] = "new" BY DEF Init
<1>2. received[Server] = <<>> BY DEF Init, Party
<1>3. ASSUME NEW c PROVE Stage(c) BY <1>1, <1>2 DEF Stage, Mine, Open, Elems
<1>4. clean \subseteq Client BY DEF Init
<1>5. op = [q \in Call |-> op[q]] BY DEF Init
<1> QED BY <1>1, <1>3, <1>4, <1>5 DEF Stages

LEMMA StagesStep ==
  ASSUME IInv, Remembers, Stages, [Next]_vars
  PROVE  Stages'
<1>1. clean' \subseteq clean /\ tls' = tls
  <2>1. CASE UNCHANGED vars BY <2>1 DEF vars, config
  <2>2. CASE Bind4 \/ Bind6 \/ Ends4 \/ Ends6 \/ Stop
    BY <2>2 DEF Bind4, Bind6, Ends4, Ends6, Stop, Listeners, config
  <2>3. ASSUME NEW q \in Call, Handle(q) PROVE clean' \subseteq clean /\ tls' = tls
    BY <2>3 DEF Handle, Connect, HandleRequest, NonceExchange, NonceExchanged, config
  <2>4. ASSUME NEW q \in Call, Return(q) PROVE clean' \subseteq clean /\ tls' = tls
    BY <2>4 DEF Return, Register, PrepareUpload, Upload, Cancel, Foreign, NonceRejected, Nonce,
                NonceStored, Outcome, config
  <2>5. ASSUME NEW q \in Call, SendFails(q) PROVE clean' \subseteq clean /\ tls' = tls
    BY <2>5 DEF SendFails, config
  <2>6. ASSUME NEW q \in Call, NEW c \in Client, NEW o \in Op, CallServer(q, c, o)
        PROVE  clean' \subseteq clean /\ tls' = tls
    BY <2>6 DEF CallServer, config
  <2> QED BY <2>1, <2>2, <2>3, <2>4, <2>5, <2>6 DEF Next
<1>2. /\ op' = [q \in Call |-> op'[q]]
      /\ (\A q \in Call : st[q] \in {"locked", "storing"} => op[q] = "nonce")'
  <2>1. CASE UNCHANGED <<op, st>> BY <2>1 DEF Stages
  <2>2. ASSUME NEW q \in Call, NEW s, Goes(q, s), UNCHANGED op,
               s \in {"locked", "storing"} => op[q] = "nonce"
        PROVE  /\ op' = [r \in Call |-> op'[r]]
               /\ (\A r \in Call : st[r] \in {"locked", "storing"} => op[r] = "nonce")'
    BY <2>2 DEF Goes, Stages, IInv, Shape
  <2>3. CASE Bind4 \/ Bind6 \/ Ends4 \/ Ends6 \/ Stop \/ UNCHANGED vars
    BY <2>1, <2>3 DEF Bind4, Bind6, Ends4, Ends6, Stop, Listeners, vars
  <2>4. ASSUME NEW q \in Call, Handle(q)
        PROVE  \E s : Goes(q, s) /\ UNCHANGED op /\ (s \in {"locked", "storing"} => op[q] = "nonce")
    BY <2>4 DEF Handle, Connect, HandleRequest, NonceExchange, NonceExchanged, Answers
  <2>5. ASSUME NEW q \in Call, Return(q)
        PROVE  \E s : Goes(q, s) /\ UNCHANGED op /\ (s \in {"locked", "storing"} => op[q] = "nonce")
    <3>1. CASE Nonce(q) BY <3>1 DEF Nonce
    <3>2. CASE NonceStored(q) BY <3>2 DEF NonceStored
    <3>3. ASSUME NEW ok, Outcome(q, ok)
          PROVE  Goes(q, IF ok THEN "ok" ELSE "err") /\ UNCHANGED op
      BY <3>3 DEF Outcome
    <3>4. \A ok : (IF ok THEN "ok" ELSE "err") \notin {"locked", "storing"} OBVIOUS
    <3> QED BY <2>5, <3>1, <3>2, <3>3, <3>4
            DEF Return, Register, PrepareUpload, Upload, Cancel, Foreign, NonceRejected
  <2>6. ASSUME NEW q \in Call, SendFails(q) PROVE Goes(q, "err") /\ UNCHANGED op
    BY <2>6 DEF SendFails
  <2>7. ASSUME NEW q \in Call, NEW c \in Client, NEW o \in Op, CallServer(q, c, o)
        PROVE  /\ op' = [r \in Call |-> op'[r]]
               /\ (\A r \in Call : st[r] \in {"locked", "storing"} => op[r] = "nonce")'
    BY <2>7 DEF CallServer, Goes, Stages, IInv, Shape
  <2> QED BY <2>2, <2>3, <2>4, <2>5, <2>6, <2>7 DEF Next
<1>3. ASSUME NEW c \in clean', Lonely(c)' PROVE Stage(c)'
  <2>1. c \in clean /\ c \in Client BY <1>1 DEF Stages
  <2>2. Lonely(c) BY <1>1, <1>3 DEF Lonely, Alike
  <2>3. Stage(c) BY <2>1, <2>2 DEF Stages
  <2>4. CASE Bind4 \/ Bind6 \/ Ends4 \/ Ends6 \/ Stop \/ UNCHANGED vars
    <3>1. UNCHANGED <<tls, by, op, st, received, generated>>
      BY <2>4 DEF Bind4, Bind6, Ends4, Ends6, Stop, Listeners, vars, config, maps
    <3>2. \A q \in Call : (Mine(q, c)' <=> Mine(q, c)) /\ (Half(q, c)' <=> Half(q, c))
      BY <3>1 DEF Mine, Open, Half
    <3> QED BY <2>1, <2>3, <3>1, <3>2, StageKept
  <2>5. ASSUME NEW q \in Call, Handle(q) PROVE Stage(c)'
    <3>1. CASE NonceExchange(q) BY <2>1, <2>2, <2>3, <3>1, StageServer
    <3>2. CASE ~NonceExchange(q)
      <4>1. StoresNothing(q, c) BY <2>5, <3>2 DEF Handle, StoresNothing
      <4> QED BY <2>1, <2>2, <2>3, <4>1, StageAside
    <3> QED BY <3>1, <3>2
  <2>6. ASSUME NEW q \in Call, Return(q) PROVE Stage(c)'
    <3>1. CASE Nonce(q) BY <2>1, <2>2, <2>3, <3>1, StageClient
    <3>2. CASE NonceStored(q) BY <2>1, <2>2, <2>3, <3>2, StageStored
    <3>3. CASE ~Nonce(q) /\ ~NonceStored(q)
      <4>1. StoresNothing(q, c)
        BY <2>6, <3>3 DEF Return, Register, PrepareUpload, Upload, Cancel, Foreign, NonceRejected,
                          StoresNothing
      <4> QED BY <2>1, <2>2, <2>3, <4>1, StageAside
    <3> QED BY <3>1, <3>2, <3>3
  <2>7. ASSUME NEW q \in Call, SendFails(q) PROVE Stage(c)'
    <3>1. StoresNothing(q, c) BY <2>7 DEF StoresNothing
    <3> QED BY <2>1, <2>2, <2>3, <3>1, StageAside
  <2>8. ASSUME NEW q \in Call, NEW d \in Client, NEW o \in Op, CallServer(q, d, o)
        PROVE  Stage(c)'
    BY <2>1, <2>2, <2>3, <2>8, StageCall
  <2> QED BY <2>4, <2>5, <2>6, <2>7, <2>8 DEF Next
<1> QED BY <1>1, <1>2, <1>3 DEF Stages

(* AgreeOnNonces for every instance: a client whose exchanges never        *)
(* overlapped nor broke off half-way and whose identifier is its own holds *)
(* the very nonces the server holds for it, however the exchanges of       *)
(* others interleave with its own and whatever they evict (nonce_exchange  *)
(* of the server, nonce of the client).                                    *)
THEOREM EndsAgree == Spec => []AgreeOnNonces
<1> DEFINE J == IInv /\ Remembers /\ Stages
<1>1. Init => J BY InitIInv, InitRemembers, InitStages
<1>2. J /\ [Next]_vars => J' BY NextIInv, RemembersStep, StagesStep DEF IInv
<1>3. J => AgreeOnNonces
  <2> SUFFICES ASSUME Shape, Stages, NEW c \in clean, AtRest(c),
                      \A d \in Client : Alike(c, d) => d = c,
                      NEW e \in Elems(received[Server]), e.id = IdOf(c)
               PROVE  [id |-> IdOf(Server), nonce |-> e.nonce]
                        \in Elems(generated[c]) \cap Elems(received[c])
    BY DEF AgreeOnNonces, IInv
  <2>1. Stage(c) BY DEF Stages, Lonely
  <2>2. Alike(c, c) BY DEF Alike
  <2>3. \A q \in Call : ~Half(q, c) BY <2>2 DEF AtRest, Half, Mine
  <2> QED BY <2>1, <2>3 DEF Stage, Agreed
<1> QED BY <1>1, <1>2, <1>3, PTL DEF Spec
=============================================================================
