--------------------------- MODULE PipelineProofs ---------------------------
(***************************************************************************)
(* Theorems about the two pipelines of core/src/webrtc, in which tasks     *)
(* hand data on through bounded channels: SignalingClient, for any         *)
(* sessions, any number of messages and any capacity of the channel to the *)
(* app, and FileStream, for any size of the data, the pieces, the chunks,  *)
(* the blocks and the channels.                                            *)
(***************************************************************************)
EXTENDS SignalingClient, FileStream, SequenceTheorems, WellFoundedInduction, TLAPS

-----------------------------------------------------------------------------
(* Facts about queues.                                                     *)

(* A nonempty sequence is its head followed by its tail.                   *)
LEMMA HeadThenTail ==
  ASSUME NEW S, NEW s \in Seq(S), s # <<>>
  PROVE  <<Head(s)>> \o Tail(s) = s /\ Head(s) \in S /\ Tail(s) \in Seq(S)
<1>1. Head(s) \in S /\ Tail(s) \in Seq(S) BY HeadTailProperties
<1>2. <<Head(s)>> \in Seq(S) BY <1>1
<1> QED BY <1>1, <1>2

(* Moving the head of a queue behind the queue in front of it.             *)
LEMMA MoveHead ==
  ASSUME NEW S, NEW s \in Seq(S), NEW t \in Seq(S), t # <<>>
  PROVE  Append(s, Head(t)) \o Tail(t) = s \o t
<1>1. Head(t) \in S /\ Tail(t) \in Seq(S) /\ <<Head(t)>> \o Tail(t) = t
  BY HeadThenTail
<1>2. <<Head(t)>> \in Seq(S) BY <1>1
<1>3. Append(s, Head(t)) = s \o <<Head(t)>> BY <1>1, AppendIsConcat
<1> QED BY <1>1, <1>2, <1>3, ConcatAssociative

(* What a concatenation contains.                                          *)
LEMMA ElemsConcat ==
  ASSUME NEW S, NEW s \in Seq(S), NEW t \in Seq(S)
  PROVE  Elems(s \o t) = Elems(s) \cup Elems(t)
<1>1. /\ Len(s) \in Nat /\ Len(t) \in Nat /\ Len(s \o t) = Len(s) + Len(t)
      /\ \A i \in 1..Len(s) + Len(t) :
           (s \o t)[i] = IF i <= Len(s) THEN s[i] ELSE t[i - Len(s)]
  BY ConcatProperties, LenProperties
<1>2. Elems(s \o t) \subseteq Elems(s) \cup Elems(t) BY <1>1 DEF Elems
<1>3. ASSUME NEW i \in 1..Len(s) PROVE s[i] \in Elems(s \o t)
  <2>1. i \in 1..Len(s \o t) /\ (s \o t)[i] = s[i] BY <1>1, <1>3
  <2> QED BY <2>1 DEF Elems
<1>4. ASSUME NEW i \in 1..Len(t) PROVE t[i] \in Elems(s \o t)
  <2>1. Len(s) + i \in 1..Len(s \o t) /\ (s \o t)[Len(s) + i] = t[i] BY <1>1, <1>4
  <2> QED BY <2>1 DEF Elems
<1> QED BY <1>2, <1>3, <1>4 DEF Elems

(* Appending behind a concatenation appends to its last part, and grouping *)
(* does not matter.                                                        *)
LEMMA MessageQueues ==
  /\ \A s, t \in Seq(Message) : \A m \in Message : Append(s \o t, m) = s \o Append(t, m)
  /\ \A s, t, u \in Seq(Message) : (s \o t) \o u = s \o (t \o u)
<1>1. ASSUME NEW s \in Seq(Message), NEW t \in Seq(Message), NEW m \in Message
      PROVE  Append(s \o t, m) = s \o Append(t, m)
  <2>1. s \o t \in Seq(Message) /\ <<m>> \in Seq(Message) BY ConcatProperties
  <2>2. Append(s \o t, m) = (s \o t) \o <<m>> BY <2>1, AppendIsConcat
  <2>3. Append(t, m) = t \o <<m>> BY AppendIsConcat
  <2>4. (s \o t) \o <<m>> = s \o (t \o <<m>>) BY <2>1, ConcatAssociative
  <2> QED BY <2>2, <2>3, <2>4
<1>2. ASSUME NEW s \in Seq(Message), NEW t \in Seq(Message), NEW u \in Seq(Message)
      PROVE  (s \o t) \o u = s \o (t \o u)
  BY ConcatAssociative
<1> QED BY <1>1, <1>2

-----------------------------------------------------------------------------
(* What FlattenSeq computes.  The definition is recursive; induction over  *)
(* the positions of a sequence is the least position at which it fails.    *)

(* A nonempty set of natural numbers has a least element.                  *)
LEMMA Least ==
  ASSUME NEW T, T \subseteq Nat, T # {}
  PROVE  \E m \in T : \A n \in T : m <= n
<1> DEFINE Lt == {ss \in Nat \X Nat : ss[1] < ss[2]}
<1>1. IsWellFoundedOn(Lt, Nat) BY NatLessThanWellFounded DEF OpToRel
<1>2. PICK m \in T : \A n \in T : ~ (<<n, m>> \in Lt)
  <2> HIDE DEF Lt
  <2> QED BY <1>1, WFMin
<1>3. \A n \in T : ~ (n < m) BY <1>2
<1> QED BY <1>3

(* Induction over 1..n, with the property given as the set of its members. *)
LEMMA CountUp ==
  ASSUME NEW n \in Nat, NEW G,
         \A i \in 1..n : (i = 1 \/ i - 1 \in G) => i \in G
  PROVE  1..n \subseteq G
<1> DEFINE T == (1..n) \ G
<1> SUFFICES ASSUME T # {} PROVE FALSE OBVIOUS
<1>1. T \subseteq Nat OBVIOUS
<1>2. PICK m \in T : \A k \in T : m <= k
  <2> HIDE DEF T
  <2> QED BY <1>1, Least
<1>3. m \in 1..n /\ m \notin G BY <1>2
<1>4. m # 1 /\ m - 1 \notin G BY <1>3
<1>5. m - 1 \in T BY <1>3, <1>4
<1>6. m <= m - 1 BY <1>2, <1>5
<1> QED BY <1>3, <1>6

(* Grouping does not matter.                                               *)
LEMMA Regroup ==
  ASSUME NEW S
  PROVE  \A s, t, u \in Seq(S) : (s \o t) \o u = s \o (t \o u)
BY ConcatAssociative

(* f[i] is what the first i members of q amount to.                        *)
Sums(f, q) ==
  f = [i \in 1..Len(q) |-> IF i = 1 THEN q[i] ELSE f[i - 1] \o q[i]]

LEMMA SumsExist ==
  ASSUME NEW S, NEW q \in Seq(Seq(S))
  PROVE  \E f : Sums(f, q)
<1> DEFINE n == Len(q)
           Upto(k, f) == \A i \in 1..k : f[i] = IF i = 1 THEN q[i] ELSE f[i - 1] \o q[i]
           G == {k \in 1..n : \E f \in [1..k -> Seq(S)] : Upto(k, f)}
<1>0. n \in Nat /\ \A i \in 1..n : q[i] \in Seq(S) OBVIOUS
<1>1. ASSUME NEW i \in 1..n, i = 1 \/ i - 1 \in G PROVE i \in G
  <2>1. CASE i = 1
    <3>1. [j \in 1..1 |-> q[j]] \in [1..1 -> Seq(S)] BY <1>0, <2>1
    <3>2. Upto(1, [j \in 1..1 |-> q[j]]) OBVIOUS
    <3> QED BY <2>1, <3>1, <3>2
  <2>2. CASE i # 1 /\ i - 1 \in G
    <3>1. PICK f \in [1..i - 1 -> Seq(S)] : Upto(i - 1, f) BY <2>2
    <3> DEFINE g == [j \in 1..i |-> IF j = i THEN f[i - 1] \o q[i] ELSE f[j]]
    <3>2. i - 1 \in 1..i - 1 /\ f[i - 1] \in Seq(S) BY <1>0, <2>2, <3>1
    <3>3. g \in [1..i -> Seq(S)] BY <1>0, <3>1, <3>2, ConcatProperties
    <3>4. Upto(i, g)
      <4> SUFFICES ASSUME NEW j \in 1..i
                   PROVE  g[j] = IF j = 1 THEN q[j] ELSE g[j - 1] \o q[j]
        OBVIOUS
      <4>1. CASE j = i
        <5>1. i - 1 \in 1..i /\ i - 1 # i /\ i \in 1..i BY <3>2
        <5>2. g[i - 1] = f[i - 1]  BY <5>1
        <5>3. g[i] = f[i - 1] \o q[i] BY <5>1
        <5> QED BY <2>2, <4>1, <5>2, <5>3
      <4>2. CASE j # i
        <5>1. j \in 1..i - 1 /\ g[j] = f[j] BY <4>2
        <5>2. j # 1 => j - 1 \in 1..i - 1 /\ g[j - 1] = f[j - 1] BY <4>2
        <5> QED BY <3>1, <5>1, <5>2
      <4> QED BY <4>1, <4>2
    <3> QED BY <3>3, <3>4
  <2> QED BY <1>1, <2>1, <2>2
<1>2. 1..n \subseteq G
  <2> HIDE DEF n, G
  <2> QED BY <1>0, <1>1, CountUp
<1>3. CASE n = 0
  <2> DEFINE f == [i \in 1..n |-> q[i]]
  <2>1. f = [i \in 1..n |-> IF i = 1 THEN q[i] ELSE f[i - 1] \o q[i]] BY <1>3
  <2> QED BY <2>1 DEF Sums
<1>4. CASE n # 0
  <2>1. n \in G
    <3> HIDE DEF n, G
    <3> QED BY <1>0, <1>2, <1>4
  <2>2. PICK f \in [1..n -> Seq(S)] : Upto(n, f) BY <2>1
  <2> QED BY <2>2 DEF Sums
<1> QED BY <1>3, <1>4

(* What FlattenSeq computes.                                               *)
LEMMA FlattenIs ==
  ASSUME NEW S, NEW q \in Seq(Seq(S)), q # <<>>
  PROVE  \E f : Sums(f, q) /\ FlattenSeq(q) = f[Len(q)]
<1> DEFINE c == CHOOSE f : Sums(f, q)
<1>1. Sums(c, q) BY SumsExist
<1>2. Len(q) # 0 OBVIOUS
<1>3. FlattenSeq(q) = c[Len(q)] BY <1>2 DEF FlattenSeq, Sums
<1> QED BY <1>1, <1>3

(* The sums are sequences over S, and the sums of a longer sequence begin  *)
(* with those of a shorter one.                                            *)
LEMMA SumsType ==
  ASSUME NEW S, NEW q \in Seq(Seq(S)), NEW f, Sums(f, q)
  PROVE  \A i \in 1..Len(q) : f[i] \in Seq(S)
<1> DEFINE n == Len(q)
           G == {i \in 1..n : f[i] \in Seq(S)}
<1>0. n \in Nat /\ \A i \in 1..n : q[i] \in Seq(S) OBVIOUS
<1>1. ASSUME NEW i \in 1..n, i = 1 \/ i - 1 \in G PROVE i \in G
  <2>1. f[i] = IF i = 1 THEN q[i] ELSE f[i - 1] \o q[i] BY DEF Sums
  <2>2. CASE i = 1 BY <1>0, <2>1, <2>2
  <2>3. CASE i # 1
    <3>1. f[i - 1] \in Seq(S) /\ q[i] \in Seq(S) BY <1>0, <1>1, <2>3
    <3> QED BY <2>1, <2>3, <3>1, ConcatProperties
  <2> QED BY <2>2, <2>3
<1>2. 1..n \subseteq G
  <2> HIDE DEF n, G
  <2> QED BY <1>0, <1>1, CountUp
<1> QED BY <1>2

LEMMA FlattenEmpty == FlattenSeq(<< >>) = << >>
BY DEF FlattenSeq

LEMMA FlattenType ==
  ASSUME NEW S, NEW q \in Seq(Seq(S))
  PROVE  FlattenSeq(q) \in Seq(S)
<1>1. CASE q = <<>>
  <2>1. FlattenSeq(q) = <<>> BY <1>1, FlattenEmpty
  <2> QED BY <2>1
<1>2. CASE q # <<>>
  <2>1. PICK f : Sums(f, q) /\ FlattenSeq(q) = f[Len(q)] BY <1>2, FlattenIs
  <2>2. Len(q) \in 1..Len(q) BY <1>2
  <2> QED BY <2>1, <2>2, SumsType
<1> QED BY <1>1, <1>2

LEMMA FlattenOne ==
  ASSUME NEW S, NEW s \in Seq(S)
  PROVE  FlattenSeq(<<s>>) = s
<1>1. <<s>> \in Seq(Seq(S)) /\ <<s>> # <<>> /\ Len(<<s>>) = 1 /\ <<s>>[1] = s OBVIOUS
<1>2. PICK f : Sums(f, <<s>>) /\ FlattenSeq(<<s>>) = f[1] BY <1>1, FlattenIs
<1> QED BY <1>1, <1>2 DEF Sums

(* Flattening is a homomorphism: what FlattenSeq computes for every input. *)
LEMMA FlattenConcat ==
  ASSUME NEW S, NEW p \in Seq(Seq(S)), NEW q \in Seq(Seq(S))
  PROVE  FlattenSeq(p \o q) = FlattenSeq(p) \o FlattenSeq(q)
<1> DEFINE m == Len(p)
           n == Len(q)
           r == p \o q
<1>0. /\ m \in Nat /\ n \in Nat /\ r \in Seq(Seq(S)) /\ Len(r) = m + n
      /\ \A i \in 1..m : r[i] = p[i] /\ p[i] \in Seq(S)
      /\ \A i \in 1..n : r[m + i] = q[i] /\ q[i] \in Seq(S)
  OBVIOUS
<1>n. m \in Nat /\ n \in Nat BY <1>0
<1>1. FlattenSeq(p) \in Seq(S) /\ FlattenSeq(q) \in Seq(S) BY FlattenType
<1>5. \A s, t, u \in Seq(S) : (s \o t) \o u = s \o (t \o u) BY Regroup
<1>2. CASE p = <<>>
  <2>1. r = q BY <1>2
  <2>2. <<>> \o FlattenSeq(q) = FlattenSeq(q) BY <1>1, ConcatEmptySeq
  <2> QED BY <1>2, <2>1, <2>2, FlattenEmpty
<1>3. CASE q = <<>>
  <2>1. r = p BY <1>3
  <2>2. FlattenSeq(p) \o <<>> = FlattenSeq(p) BY <1>1, ConcatEmptySeq
  <2> QED BY <1>3, <2>1, <2>2, FlattenEmpty
<1>4. CASE p # <<>> /\ q # <<>>
  <2>0. m # 0 /\ n # 0 /\ r # <<>> BY <1>0, <1>4
  <2>1. PICK f : Sums(f, p) /\ FlattenSeq(p) = f[m] BY <1>4, FlattenIs
  <2>2. PICK g : Sums(g, q) /\ FlattenSeq(q) = g[n] BY <1>4, FlattenIs
  <2>3. PICK h : Sums(h, r) /\ FlattenSeq(r) = h[m + n]
    <3> HIDE DEF r
    <3> QED BY <1>0, <2>0, FlattenIs
  <2>4. \A i \in 1..m + n : h[i] = IF i = 1 THEN r[i] ELSE h[i - 1] \o r[i]
    <3> HIDE DEF r
    <3> QED BY <1>0, <2>3 DEF Sums
  <2>5. \A i \in 1..m : f[i] = IF i = 1 THEN p[i] ELSE f[i - 1] \o p[i]
    BY <2>1 DEF Sums
  <2>6. \A i \in 1..n : g[i] = IF i = 1 THEN q[i] ELSE g[i - 1] \o q[i]
    BY <2>2 DEF Sums
  <2>7. \A i \in 1..n : g[i] \in Seq(S) BY <2>2, SumsType
  <2> HIDE DEF m, n, r
  <2>8. 1..m \subseteq {i \in 1..m : h[i] = f[i]}
    <3> DEFINE G == {i \in 1..m : h[i] = f[i]}
    <3>1. ASSUME NEW i \in 1..m, i = 1 \/ i - 1 \in G PROVE i \in G
      <4>1. i \in 1..m + n BY <1>n
      <4>2. CASE i = 1 BY <1>0, <2>4, <2>5, <4>1, <4>2
      <4>3. CASE i # 1
        <5>1. h[i - 1] = f[i - 1] BY <3>1, <4>3
        <5>2. h[i] = h[i - 1] \o r[i] BY <2>4, <4>1, <4>3
        <5>3. f[i] = f[i - 1] \o p[i] BY <2>5, <4>3
        <5> QED BY <1>0, <5>1, <5>2, <5>3
      <4> QED BY <4>2, <4>3
    <3> HIDE DEF G
    <3>2. 1..m \subseteq G BY <1>n, <3>1, CountUp
    <3> QED BY <3>2 DEF G
  <2>9. h[m] = FlattenSeq(p)
    <3>1. m \in 1..m BY <1>n, <2>0
    <3> QED BY <2>1, <2>8, <3>1
  <2>10. 1..n \subseteq {i \in 1..n : h[m + i] = h[m] \o g[i]}
    <3> DEFINE G == {i \in 1..n : h[m + i] = h[m] \o g[i]}
    <3>1. ASSUME NEW i \in 1..n, i = 1 \/ i - 1 \in G PROVE i \in G
      <4>1. m + i \in 1..m + n /\ m + i # 1 /\ m + i - 1 = m + (i - 1) BY <1>n, <2>0
      <4>2. h[m + i] = h[m + (i - 1)] \o q[i]
        <5> DEFINE k == m + i
        <5>1. k \in 1..m + n /\ k # 1 /\ k - 1 = m + (i - 1) BY <1>n, <4>1
        <5>2. r[k] = q[i] BY <1>0
        <5> HIDE DEF k
        <5>3. h[k] = h[k - 1] \o r[k] BY <2>4, <5>1
        <5> QED BY <5>1, <5>2, <5>3 DEF k
      <4>3. CASE i = 1
        <5>1. m + (i - 1) = m BY <1>n, <4>3
        <5>2. g[i] = q[i] BY <2>6, <4>3
        <5> QED BY <4>2, <5>1, <5>2
      <4>4. CASE i # 1
        <5>1. i - 1 \in 1..n /\ h[m + (i - 1)] = h[m] \o g[i - 1] BY <3>1, <4>4
        <5>2. g[i] = g[i - 1] \o q[i] BY <2>6, <4>4
        <5>3. h[m] \in Seq(S) /\ g[i - 1] \in Seq(S) /\ q[i] \in Seq(S)
          BY <1>0, <1>1, <2>7, <2>9, <5>1
        <5>4. (h[m] \o g[i - 1]) \o q[i] = h[m] \o (g[i - 1] \o q[i])
          BY <5>3, <1>5
        <5> QED BY <4>2, <5>1, <5>2, <5>4
      <4> QED BY <4>3, <4>4
    <3> HIDE DEF G
    <3>2. 1..n \subseteq G BY <1>n, <3>1, CountUp
    <3> QED BY <3>2 DEF G
  <2>11. h[m + n] = h[m] \o g[n]
    <3>1. n \in 1..n BY <1>n, <2>0
    <3> QED BY <2>10, <3>1
  <2> QED BY <2>2, <2>3, <2>9, <2>11 DEF r
<1> QED BY <1>2, <1>3, <1>4

(* The two ways in which a queue changes.                                  *)
LEMMA FlattenAppend ==
  ASSUME NEW S, NEW q \in Seq(Seq(S)), NEW s \in Seq(S)
  PROVE  FlattenSeq(Append(q, s)) = FlattenSeq(q) \o s
<1>1. <<s>> \in Seq(Seq(S)) /\ Append(q, s) = q \o <<s>> BY AppendIsConcat
<1>2. FlattenSeq(q \o <<s>>) = FlattenSeq(q) \o FlattenSeq(<<s>>) BY <1>1, FlattenConcat
<1>3. FlattenSeq(<<s>>) = s BY FlattenOne
<1> QED BY <1>1, <1>2, <1>3

LEMMA FlattenHead ==
  ASSUME NEW S, NEW q \in Seq(Seq(S)), q # <<>>
  PROVE  /\ Head(q) \in Seq(S) /\ Tail(q) \in Seq(Seq(S))
         /\ FlattenSeq(q) = Head(q) \o FlattenSeq(Tail(q))
<1>1. Head(q) \in Seq(S) /\ Tail(q) \in Seq(Seq(S)) BY HeadTailProperties
<1>2. <<Head(q)>> \in Seq(Seq(S)) BY <1>1
<1>3. q = <<Head(q)>> \o Tail(q) BY <1>1, <1>2
<1>4. FlattenSeq(<<Head(q)>> \o Tail(q)) = FlattenSeq(<<Head(q)>>) \o FlattenSeq(Tail(q))
  BY <1>1, <1>2, FlattenConcat
<1>5. FlattenSeq(<<Head(q)>>) = Head(q) BY <1>1, FlattenOne
<1> QED BY <1>1, <1>3, <1>4, <1>5

-----------------------------------------------------------------------------
(* SignalingClient: type correctness.                                      *)

USE ClientAssumption

LEMMA Messages ==
  /\ Hello \in Message /\ Note \in Message
  /\ \A s \in Session : Answer(s) \in Message
BY DEF Message

LEMMA InitType == Init => CTypeOK
<1> SUFFICES ASSUME Init PROVE CTypeOK OBVIOUS
<1>1. <<>> \in Seq(Message) /\ Len(<<>>) = 0 OBVIOUS
<1>2. send_ch \in Seq(Session \cup {Other}) BY DEF Init
<1>3. offer \in [Session -> {"none", "queued", "waiting", "answered", "failed"}]
  BY DEF Init
<1>4. client_ch \in BOOLEAN BY DEF Init
<1> QED BY <1>1, <1>2, <1>3, <1>4 DEF Init, CTypeOK

Queues == /\ inbox \in Seq(Message) /\ reader \in Seq(Message)
          /\ receive_ch \in Seq(Message) /\ listener \in Seq(Message)
          /\ app_ch \in Seq(Message) /\ seen \in Seq(Message)
          /\ given \in Seq(Message)

LEMMA QueuesTyped == CTypeOK => Queues
BY DEF CTypeOK, Queues

LEMMA GivesType ==
  ASSUME CTypeOK, NEW m \in Message, Gives(m) PROVE CTypeOK'
<1>1. Queues BY QueuesTyped
<1>2. inbox' \in Seq(Message) /\ given' \in Seq(Message)
  BY <1>1, AppendProperties DEF Gives, Queues
<1> QED BY <1>1, <1>2 DEF CTypeOK, Gives, inVars, outVars, Queues

LEMMA NextType == CTypeOK /\ [Next]_vars => CTypeOK'
<1> SUFFICES ASSUME CTypeOK, [Next]_vars PROVE CTypeOK' OBVIOUS
<1>q. Queues BY QueuesTyped
<1>1. CASE Read
  <2>1. Head(inbox) \in Message /\ Tail(inbox) \in Seq(Message)
    BY <1>1, <1>q, HeadTailProperties DEF Read, Queues
  <2>2. reader' \in Seq(Message) /\ Len(reader') <= 1 BY <1>1, <2>1 DEF Read
  <2>3. client_ch' \in BOOLEAN BY <1>1 DEF Read
  <2> QED BY <1>1, <2>1, <2>2, <2>3 DEF CTypeOK, Read, outVars
<1>2. CASE Forward BY <1>2 DEF CTypeOK, Forward, outVars
<1>3. CASE Listen
  <2>1. offer' \in [Session -> {"none", "queued", "waiting", "answered", "failed"}]
    BY <1>3 DEF Listen, CTypeOK
  <2> QED BY <1>3, <2>1 DEF CTypeOK, Listen, PassedOn, outVars
<1>4. CASE ToApp
  <2>1. app_ch' \in Seq(Message) /\ Len(app_ch') = Len(app_ch) + Len(listener)
    BY <1>4, <1>q, ConcatProperties DEF ToApp, Queues
  <2>2. Len(app_ch') <= AppCap
    BY <1>4, <2>1, <1>q, LenProperties DEF ToApp, AppRoom, CTypeOK, Queues
  <2> QED BY <1>4, <2>1, <2>2 DEF CTypeOK, ToApp, outVars
<1>5. CASE SinkAdd
  <2>1. /\ Head(app_ch) \in Message /\ Tail(app_ch) \in Seq(Message)
        /\ Len(Tail(app_ch)) = Len(app_ch) - 1
    BY <1>5, <1>q, HeadTailProperties DEF SinkAdd, Queues
  <2>2. seen' \in Seq(Message)
    BY <1>5, <2>1, <1>q, AppendProperties DEF SinkAdd, Queues
  <2>3. Len(app_ch') <= AppCap
    BY <1>5, <2>1, <1>q, LenProperties DEF SinkAdd, CTypeOK, Queues
  <2> QED BY <1>5, <2>1, <2>2, <2>3 DEF CTypeOK, SinkAdd, outVars
<1>6. CASE Connected \/ ConnectPanics \/ OnConnection \/ StreamEnds
  BY <1>6 DEF CTypeOK, Connected, ConnectPanics, OnConnection, StreamEnds, Step,
              inVars, outVars
<1>7. CASE WriteMessage
  BY <1>7 DEF CTypeOK, WriteMessage, Out, inVars, Elems
<1>8. CASE PingFails BY <1>8 DEF CTypeOK, PingFails, Out, inVars
<1>9. ASSUME NEW s \in Session, OnAnswer(s) PROVE CTypeOK'
  BY <1>9 DEF CTypeOK, OnAnswer, Out, inVars, outVars
<1>10. CASE ServerHello BY <1>10, GivesType, Messages DEF ServerHello
<1>11. CASE ServerNote BY <1>11, GivesType, Messages DEF ServerNote
<1>12. ASSUME NEW s \in Session, ServerAnswer(s) PROVE CTypeOK'
  BY <1>12, GivesType, Messages DEF ServerAnswer
<1>13. CASE SocketCloses BY <1>13 DEF CTypeOK, SocketCloses, inVars, outVars
<1>14. CASE SendOther BY <1>14 DEF CTypeOK, SendOther, Out, inVars
<1>15. ASSUME NEW s \in Session, SendOffer(s) \/ SendOfferFails(s) PROVE CTypeOK'
  <2>1. offer' \in [Session -> {"none", "queued", "waiting", "answered", "failed"}]
    BY <1>15 DEF CTypeOK, SendOffer, SendOfferFails
  <2>2. send_ch' \in Seq(Session \cup {Other}) /\ Len(send_ch') <= 1
    <3>1. <<s>> \in Seq(Session \cup {Other}) /\ Len(<<s>>) = 1 OBVIOUS
    <3>2. CASE SendOffer(s) BY <3>1, <3>2 DEF SendOffer
    <3>3. CASE SendOfferFails(s) BY <3>3 DEF CTypeOK, SendOfferFails, outVars
    <3> QED BY <1>15, <3>2, <3>3
  <2> QED BY <1>15, <2>1, <2>2
          DEF CTypeOK, SendOffer, SendOfferFails, Out, inVars, outVars
<1>16. CASE UNCHANGED vars BY <1>16 DEF CTypeOK, vars
<1> QED BY <1>1, <1>2, <1>3, <1>4, <1>5, <1>6, <1>7, <1>8, <1>9, <1>10, <1>11,
           <1>12, <1>13, <1>14, <1>15, <1>16
        DEF Next, Inbound, Connect, Outbound, Environment

(* CTypeOK for every instance: in particular no channel ever holds more    *)
(* than its capacity (mpsc::channel(1) and channel(16) of signaling.rs).   *)
THEOREM TypeCorrect == Spec => []CTypeOK
BY InitType, NextType, PTL DEF Spec

-----------------------------------------------------------------------------
(* SignalingClient: the order of messages.                                 *)

(* What the app has got or will get from the listener, and all of it.      *)
Delivered == seen \o app_ch \o listener

LEMMA InitFifo == Init => Fifo
BY ConcatEmptySeq DEF Init, Fifo

(* A message moves on, or is appended at the far end, or nothing happens.  *)
LEMMA NextFifo == CTypeOK /\ Fifo /\ [Next]_vars => Fifo'
<1> SUFFICES ASSUME CTypeOK, Fifo, [Next]_vars PROVE Fifo' OBVIOUS
<1> DEFINE a == seen \o app_ch
           b == a \o listener
           c == b \o receive_ch
           d == c \o reader
<1>q. Queues BY QueuesTyped
<1>t. /\ a \in Seq(Message) /\ b \in Seq(Message)
      /\ c \in Seq(Message) /\ d \in Seq(Message)
  BY <1>q, ConcatProperties DEF Queues
<1>f. given = d \o inbox BY DEF Fifo
<1>g. ASSUME NEW m \in Message, Gives(m) PROVE Fifo'
  <2>1. Append(d \o inbox, m) = d \o Append(inbox, m)
    <3>1. inbox \in Seq(Message) /\ d \in Seq(Message) /\ m \in Message
      BY <1>g, <1>q, <1>t DEF Queues
    <3> HIDE DEF a, b, c, d
    <3> QED BY <3>1, MessageQueues
  <2> QED BY <1>f, <1>g, <2>1 DEF Gives, inVars, Fifo
<1>1. CASE Read
  <2> DEFINE h == Head(inbox)
  <2>1. h \in Message /\ Tail(inbox) \in Seq(Message)
    BY <1>1, <1>q, HeadThenTail DEF Read, Queues
  <2>2. d = c BY <1>1, <1>t, ConcatEmptySeq DEF Read
  <2>3. Append(c, h) = c \o <<h>> BY <1>t, <2>1, AppendIsConcat
  <2>4. Append(c, h) \o Tail(inbox) = c \o inbox
    <3>1. inbox \in Seq(Message) /\ inbox # <<>> BY <1>1, <1>q DEF Read, Queues
    <3>2. c \in Seq(Message) BY <1>t
    <3> HIDE DEF c
    <3> QED BY <3>1, <3>2, MoveHead
  <2> QED BY <1>1, <1>f, <2>2, <2>3, <2>4 DEF Read, Fifo
<1>2. CASE Forward
  <2>1. c = b BY <1>2, <1>t, ConcatEmptySeq DEF Forward
  <2>2. (b \o reader) \o <<>> = b \o reader BY <1>t, <2>1, ConcatEmptySeq
  <2> QED BY <1>2, <1>f, <2>1, <2>2 DEF Forward, Fifo
<1>3. CASE Listen
  <2>1. b = a BY <1>3, <1>t, ConcatEmptySeq DEF Listen
  <2>2. (a \o receive_ch) \o <<>> = a \o receive_ch BY <1>t, <2>1, ConcatEmptySeq
  <2> QED BY <1>3, <1>f, <2>1, <2>2 DEF Listen, PassedOn, Fifo
<1>4. CASE ToApp
  <2>1. b = seen \o (app_ch \o listener)
    <3>1. /\ seen \in Seq(Message) /\ app_ch \in Seq(Message)
          /\ listener \in Seq(Message)
      BY <1>q DEF Queues
    <3> QED BY <3>1, MessageQueues, Zenon
  <2>2. b \o <<>> = b BY <1>t, ConcatEmptySeq
  <2> QED BY <1>4, <1>f, <2>1, <2>2 DEF ToApp, Fifo
<1>5. CASE SinkAdd
  <2>1. Append(seen, Head(app_ch)) \o Tail(app_ch) = a
    <3>1. seen \in Seq(Message) /\ app_ch \in Seq(Message) /\ app_ch # <<>>
      BY <1>5, <1>q DEF SinkAdd, Queues
    <3> QED BY <3>1, MoveHead, Zenon
  <2> QED BY <1>5, <1>f, <2>1 DEF SinkAdd, Fifo
<1>6. CASE ServerHello \/ ServerNote \/ \E s \in Session : ServerAnswer(s)
  BY <1>6, <1>g, Messages DEF ServerHello, ServerNote, ServerAnswer
<1>7. CASE UNCHANGED <<inVars, inbox, given>>
  BY <1>7 DEF Fifo, inVars
<1>8. \/ Read \/ Forward \/ Listen \/ ToApp \/ SinkAdd
      \/ ServerHello \/ ServerNote \/ (\E s \in Session : ServerAnswer(s))
      \/ UNCHANGED <<inVars, inbox, given>>
  BY DEF Next, Inbound, Connect, Outbound, Environment, Connected, ConnectPanics,
         OnConnection, StreamEnds, Step, WriteMessage, PingFails, OnAnswer,
         SocketCloses, SendOther, SendOffer, SendOfferFails, Out, inVars, vars
<1> QED BY <1>1, <1>2, <1>3, <1>4, <1>5, <1>6, <1>7, <1>8

(* Fifo for every instance: whatever the tasks' interleaving, the app gets *)
(* the server's messages in order, without loss or repetition, through the *)
(* reader task, the listener task and their channels (signaling.rs) and    *)
(* the sink of the bridge (api/webrtc.rs).                                 *)
THEOREM MessagesInOrder == Spec => []Fifo
<1>1. Init => CTypeOK /\ Fifo BY InitType, InitFifo
<1>2. CTypeOK /\ Fifo /\ [Next]_vars => (CTypeOK /\ Fifo)' BY NextType, NextFifo
<1> QED BY <1>1, <1>2, PTL DEF Spec

-----------------------------------------------------------------------------
(* SignalingClient: callbacks.                                             *)

LEMMA InitCallback == Init => CallbackOfSession
BY DEF Init, CallbackOfSession

(* What was handed over stays handed over.                                 *)
LEMMA NextCallback == CTypeOK /\ CallbackOfSession /\ [Next]_vars => CallbackOfSession'
<1> SUFFICES ASSUME CTypeOK, CallbackOfSession, [Next]_vars
             PROVE  CallbackOfSession'
  OBVIOUS
<1> DEFINE a == seen \o app_ch
<1>q. Queues BY QueuesTyped
<1>t. a \in Seq(Message) BY <1>q, ConcatProperties DEF Queues
<1>o. offer \in [Session -> {"none", "queued", "waiting", "answered", "failed"}]
  BY DEF CTypeOK
<1>u. ASSUME UNCHANGED <<offer, on_answer>>, Delivered' = Delivered
      PROVE  CallbackOfSession'
  BY <1>u DEF CallbackOfSession, Delivered, Elems
<1>1. CASE Listen
  <2>1. Delivered = a BY <1>1, <1>t, ConcatEmptySeq DEF Listen, Delivered
  <2>2. Delivered' = a \o receive_ch BY <1>1 DEF Listen, PassedOn, Delivered
  <2>3. Elems(a \o receive_ch) = Elems(a) \cup Elems(receive_ch)
    <3>1. receive_ch \in Seq(Message) /\ a \in Seq(Message) BY <1>q, <1>t DEF Queues
    <3> HIDE DEF a
    <3> QED BY <3>1, ElemsConcat
  <2>4. receive_ch[1] \in Elems(receive_ch)
    <3>1. Len(receive_ch) \in Nat /\ Len(receive_ch) # 0
      BY <1>1, <1>q, EmptySeq, LenProperties DEF Listen, Queues
    <3> QED BY <3>1 DEF Elems
  <2>5. \A s \in Session : offer'[s] = IF s \in Called THEN "answered" ELSE offer[s]
    BY <1>1 DEF Listen
  <2>6. on_answer' = on_answer \ Called BY <1>1 DEF Listen
  <2>7. on_answer' = {s \in Session : offer'[s] = "waiting"}
    BY <2>5, <2>6 DEF CallbackOfSession
  <2>8. ASSUME NEW s \in Session, offer'[s] = "answered"
        PROVE  Answer(s) \in Elems(a \o receive_ch)
    <3>1. CASE s \in Called BY <3>1, <2>3, <2>4 DEF Called
    <3>2. CASE s \notin Called
      <4>1. Answer(s) \in Elems(Delivered)
        BY <3>2, <2>5, <2>8 DEF CallbackOfSession, Delivered
      <4> QED BY <4>1, <2>1, <2>3
    <3> QED BY <3>1, <3>2
  <2>9. \A s \in Session : Answer(s)' = Answer(s) BY DEF Answer
  <2>10. Elems(Delivered)' = Elems(a \o receive_ch) BY <2>2 DEF Elems
  <2> QED BY <2>7, <2>8, <2>9, <2>10 DEF CallbackOfSession, Delivered
<1>2. CASE ToApp
  <2>1. /\ seen \in Seq(Message) /\ app_ch \in Seq(Message)
        /\ listener \in Seq(Message) /\ app_ch \o listener \in Seq(Message)
    BY <1>q, ConcatProperties DEF Queues
  <2>2. (seen \o app_ch) \o listener = seen \o (app_ch \o listener)
    BY <2>1, MessageQueues, Zenon
  <2>3. seen \o (app_ch \o listener) \in Seq(Message) BY <2>1, ConcatProperties
  <2>4. (seen \o (app_ch \o listener)) \o <<>> = seen \o (app_ch \o listener)
    BY <2>3, ConcatEmptySeq
  <2>5. Delivered' = Delivered BY <1>2, <2>2, <2>4 DEF ToApp, Delivered
  <2> QED BY <1>2, <1>u, <2>5 DEF ToApp
<1>3. CASE SinkAdd
  <2>1. seen \in Seq(Message) /\ app_ch \in Seq(Message) /\ app_ch # <<>>
    BY <1>3, <1>q DEF SinkAdd, Queues
  <2>2. Append(seen, Head(app_ch)) \o Tail(app_ch) = seen \o app_ch
    BY <2>1, MoveHead, Zenon
  <2>3. Delivered' = Delivered BY <1>3, <2>2 DEF SinkAdd, Delivered
  <2> QED BY <1>3, <1>u, <2>3 DEF SinkAdd
<1>4. ASSUME NEW s \in Session, OnAnswer(s) PROVE CallbackOfSession'
  <2>1. on_answer' = {r \in Session : offer'[r] = "waiting"}
    BY <1>4, <1>o DEF OnAnswer, CallbackOfSession
  <2>2. \A r \in Session : offer'[r] = "answered" => offer[r] = "answered"
    BY <1>4, <1>o DEF OnAnswer
  <2>3. UNCHANGED <<seen, app_ch, listener>> BY <1>4 DEF OnAnswer, Out, inVars
  <2> QED BY <2>1, <2>2, <2>3 DEF CallbackOfSession, Elems, Answer
<1>5. ASSUME NEW s \in Session, SendOffer(s) \/ SendOfferFails(s)
      PROVE  CallbackOfSession'
  <2>1. \A r \in Session : \A x \in {"waiting", "answered"} :
          offer'[r] = x <=> offer[r] = x
    BY <1>5, <1>o DEF SendOffer, SendOfferFails
  <2>2. UNCHANGED <<seen, app_ch, listener, on_answer>>
    BY <1>5 DEF SendOffer, SendOfferFails, Out, inVars
  <2> QED BY <2>1, <2>2 DEF CallbackOfSession, Elems, Answer
<1>6. CASE UNCHANGED <<seen, app_ch, listener, offer, on_answer>>
  BY <1>6, <1>u DEF Delivered
<1>7. \/ Listen \/ ToApp \/ SinkAdd
      \/ (\E s \in Session : OnAnswer(s) \/ SendOffer(s) \/ SendOfferFails(s))
      \/ UNCHANGED <<seen, app_ch, listener, offer, on_answer>>
  BY DEF Next, Inbound, Connect, Outbound, Environment, Read, Forward, Connected,
         ConnectPanics, OnConnection, StreamEnds, Step, WriteMessage, PingFails,
         ServerHello, ServerNote, ServerAnswer, Gives, SocketCloses, SendOther,
         Out, inVars, vars
<1> QED BY <1>1, <1>2, <1>3, <1>4, <1>5, <1>6, <1>7

(* CallbackOfSession for every instance: with any number of sessions       *)
(* waiting at once, an answer wakes the send_offer of its own session only *)
(* (on_answer and start_listener of signaling.rs).                         *)
THEOREM RightCallback == Spec => []CallbackOfSession
<1>1. Init => CTypeOK /\ CallbackOfSession BY InitType, InitCallback
<1>2. CTypeOK /\ CallbackOfSession /\ [Next]_vars => (CTypeOK /\ CallbackOfSession)'
  BY NextType, NextCallback
<1> QED BY <1>1, <1>2, PTL DEF Spec

-----------------------------------------------------------------------------
(* FileStream: type correctness, and how the stream ends.                  *)

HIDE ClientAssumption

Msg == [end : BOOLEAN, data : Seq(Nat)]

LEMMA StreamNumbers ==
  /\ MaxSize \in Nat /\ MaxPiece \in Nat
  /\ CHUNK_SIZE \in Nat \ {0} /\ BUFFER_SIZE \in Nat \ {0}
  /\ UpCap \in Nat \ {0} /\ DownCap \in Nat \ {0}
BY StreamAssumption

LEMMA DataIs ==
  ASSUME FTypeOK
  PROVE  /\ Data \in Seq(Nat) /\ Len(Data) = size
         /\ \A i \in 1..size : Data[i] = i
<1>1. size \in Nat BY StreamNumbers DEF FTypeOK
<1>2. Data \in [1..size -> Nat] BY <1>1 DEF Data
<1> QED BY <1>1, <1>2 DEF Data

LEMMA FInitType == FInit => FTypeOK
<1> SUFFICES ASSUME FInit PROVE FTypeOK OBVIOUS
<1>1. <<>> \in Seq(Nat) /\ <<>> \in Seq(Seq(Nat)) /\ <<>> \in Seq(Msg) /\ Len(<<>>) = 0
  OBVIOUS
<1>2. pos \in 0..size /\ 0 <= UpCap /\ 0 <= DownCap BY StreamNumbers DEF FInit
<1> QED BY <1>1, <1>2 DEF FInit, FTypeOK, Msg

(* A piece of a sequence of numbers.                                       *)
LEMMA PieceType ==
  ASSUME NEW s \in Seq(Nat), NEW m \in Nat, NEW n \in Nat, m <= n, n <= Len(s)
  PROVE  /\ SubSeq(s, m + 1, n) \in Seq(Nat)
         /\ Len(SubSeq(s, m + 1, n)) = n - m
         /\ \A i \in 1..n - m : SubSeq(s, m + 1, n)[i] = s[m + i]
<1>1. \A i \in m + 1..n : s[i] \in Nat OBVIOUS
<1>2. SubSeq(s, m + 1, n) \in Seq(Nat) BY <1>1, SubSeqProperties
<1> QED BY <1>2, SubSeqProperties

LEMMA FNextType == FTypeOK /\ [FNext]_fvars => FTypeOK'
<1> SUFFICES ASSUME FTypeOK, [FNext]_fvars PROVE FTypeOK' OBVIOUS
<1> USE DEF FTypeOK, recvVars, sendVars, Msg
<1>e. <<>> \in Seq(Nat) /\ <<>> \in Seq(Seq(Nat)) /\ Len(<<>>) = 0 OBVIOUS
<1>1. ASSUME NEW n \in 0..MaxSize, SendPiece(n) PROVE FTypeOK'
  <2>1. pos + n \in 0..size /\ pos \in Nat /\ pos + n \in Nat BY <1>1, StreamNumbers DEF SendPiece
  <2>2. SubSeq(Data, pos + 1, pos + n) \in Seq(Nat)
    <3>1. Data \in Seq(Nat) /\ Len(Data) = size BY DataIs
    <3>2. pos <= pos + n /\ pos + n <= size BY <1>1, <2>1, StreamNumbers DEF SendPiece
    <3> HIDE DEF FTypeOK, Msg
    <3> QED BY <2>1, <3>1, <3>2, PieceType
  <2>3. up' \in Seq(Seq(Nat)) /\ Len(up') = Len(up) + 1
    BY <1>1, <2>2, AppendProperties DEF SendPiece
  <2>4. Len(up') <= UpCap BY <1>1, <2>3, StreamNumbers DEF SendPiece
  <2> QED BY <1>1, <2>1, <2>3, <2>4 DEF SendPiece
<1>2. CASE EndOfData BY <1>2 DEF EndOfData
<1>3. CASE TakePiece
  <2>1. Head(up) \in Seq(Nat) /\ Tail(up) \in Seq(Seq(Nat)) /\ Len(Tail(up)) = Len(up) - 1
    BY <1>3, HeadTailProperties DEF TakePiece
  <2>2. buffer' \in Seq(Nat) BY <1>3, <2>1, ConcatProperties DEF TakePiece
  <2>3. Len(up') <= UpCap BY <1>3, <2>1, StreamNumbers DEF TakePiece
  <2> QED BY <1>3, <2>1, <2>2, <2>3 DEF TakePiece
<1>4. CASE SendChunk
  <2>1. /\ SubSeq(buffer, 1, CHUNK_SIZE) \in Seq(Nat)
        /\ SubSeq(buffer, CHUNK_SIZE + 1, Len(buffer)) \in Seq(Nat)
    <3>1. /\ CHUNK_SIZE \in Nat /\ Len(buffer) \in Nat /\ 0 \in Nat
          /\ 0 <= CHUNK_SIZE /\ CHUNK_SIZE <= Len(buffer) /\ Len(buffer) <= Len(buffer)
      BY <1>4, StreamNumbers DEF SendChunk
    <3>2. SubSeq(buffer, 0 + 1, CHUNK_SIZE) \in Seq(Nat) BY <3>1, PieceType
    <3>3. SubSeq(buffer, CHUNK_SIZE + 1, Len(buffer)) \in Seq(Nat) BY <3>1, PieceType
    <3> QED BY <3>2, <3>3
  <2>2. Binary(SubSeq(buffer, 1, CHUNK_SIZE)) \in Msg BY <2>1 DEF Binary
  <2>3. wire' \in Seq(Msg) BY <1>4, <2>2, AppendProperties DEF SendChunk
  <2> QED BY <1>4, <2>1, <2>3 DEF SendChunk
<1>5. CASE SendRest
  <2>1. Rest \in Seq(Msg) /\ <<String>> \in Seq(Msg)
    <3>1. Binary(buffer) \in Msg /\ String \in Msg BY DEF Binary, String
    <3>2. <<Binary(buffer)>> \in Seq(Msg) /\ <<String>> \in Seq(Msg) /\ <<>> \in Seq(Msg)
      <4> HIDE DEF Msg
      <4> QED BY <3>1
    <3> QED BY <3>2 DEF Rest
  <2>2. wire' \in Seq(Msg)
    <3>1. wire \o Rest \in Seq(Msg) BY <2>1, ConcatProperties
    <3> QED BY <1>5, <2>1, <3>1, ConcatProperties DEF SendRest
  <2> QED BY <1>5, <1>e, <2>2 DEF SendRest
<1>m. ASSUME wire # <<>>
      PROVE  Head(wire).data \in Seq(Nat) /\ Tail(wire) \in Seq(Msg)
  <2>1. Head(wire) \in Msg /\ Tail(wire) \in Seq(Msg)
    <3> HIDE DEF Msg
    <3> QED BY <1>m, HeadTailProperties DEF Msg
  <2> QED BY <2>1
<1>6. CASE PassOn
  <2>1. CASE Head(wire).end BY <1>6, <1>m, <2>1 DEF PassOn
  <2>2. CASE ~ Head(wire).end
    <3>1. down' \in Seq(Seq(Nat)) /\ Len(down') = Len(down) + 1
      <4>1. Head(wire).data \in Seq(Nat) BY <1>6, <1>m DEF PassOn
      <4>2. down' = Append(down, Head(wire).data) BY <1>6, <2>2 DEF PassOn
      <4> QED BY <4>1, <4>2, AppendProperties
    <3>2. Len(down') <= DownCap BY <1>6, <2>2, <3>1, StreamNumbers DEF PassOn
    <3> QED BY <1>6, <1>m, <2>2, <3>1, <3>2 DEF PassOn
  <2> QED BY <2>1, <2>2
<1>7. CASE ReceiveString
  <2>1. CASE Head(wire).end
    <3>1. <<gather>> \in Seq(Seq(Nat)) OBVIOUS
    <3> QED BY <1>7, <1>m, <1>e, <2>1, <3>1 DEF ReceiveString
  <2>2. CASE ~ Head(wire).end
    <3>1. gather' \in Seq(Nat)
      <4>1. gather' = gather \o Head(wire).data BY <1>7, <2>2 DEF ReceiveString
      <4>2. gather \in Seq(Nat) /\ Head(wire).data \in Seq(Nat) BY <1>7, <1>m DEF ReceiveString
      <4> HIDE DEF FTypeOK, Msg
      <4> QED BY <4>1, <4>2, ConcatProperties
    <3> QED BY <1>7, <1>m, <2>2, <3>1 DEF ReceiveString
  <2> QED BY <2>1, <2>2
<1>8. CASE Gather
  <2>1. Head(down) \in Seq(Nat) /\ Tail(down) \in Seq(Seq(Nat)) /\ Len(Tail(down)) = Len(down) - 1
    BY <1>8, HeadTailProperties DEF Gather
  <2>2. gather' \in Seq(Nat) BY <1>8, <2>1, ConcatProperties DEF Gather
  <2>3. Len(down') <= DownCap BY <1>8, <2>1, StreamNumbers DEF Gather
  <2> QED BY <1>8, <2>1, <2>2, <2>3 DEF Gather
<1>b. <<gather>> \in Seq(Seq(Nat)) /\ Len(<<gather>>) = 1 OBVIOUS
<1>9. CASE SendBlock BY <1>9, <1>b, <1>e DEF SendBlock, Cleared
<1>10. CASE SendLeftover BY <1>10, <1>b, <1>e DEF SendLeftover, Leftover
<1>11. CASE Receive
  <2>1. sink' \in Seq(Seq(Nat)) BY <1>11, ConcatProperties DEF Receive
  <2> QED BY <1>11, <1>e, <2>1 DEF Receive
<1>12. CASE UNCHANGED fvars BY <1>12 DEF fvars
<1> QED BY <1>1, <1>2, <1>3, <1>4, <1>5, <1>6, <1>7, <1>8, <1>9, <1>10, <1>11, <1>12
        DEF FNext, Sender, Receiver, Buffering

(* FTypeOK for every instance: in particular the channel from the app, the *)
(* one to buffer_receiver and the one to the app (peer.rs, bytes.rs) never *)
(* hold more than their capacities.                                        *)
THEOREM StreamTyped == FSpec => []FTypeOK
BY FInitType, FNextType, PTL DEF FSpec

(* What is left behind: data ends with a string, nothing follows it, and   *)
(* whoever has seen it has seen everything.                                *)
Ends ==
  /\ src = "closed" => pos = size
  /\ cut = "on" => loop = "on" /\ \A i \in 1..Len(wire) : ~ wire[i].end
  /\ cut = "done" => src = "closed" /\ up = <<>> /\ buffer = <<>>
  /\ \A i \in 1..Len(wire) : wire[i].end => i = Len(wire) /\ wire[i].data = <<>>
  /\ loop = "done" => cut = "done" /\ wire = <<>>
  /\ agg = "done" => loop = "done" /\ down = <<>> /\ gather = <<>>
  /\ kind = "string" => /\ down = <<>> /\ blocks = <<>> /\ agg = "on"
                        /\ loop = "on" => sink = <<>>
                        /\ loop = "done" => gather = <<>>

LEMMA FInitEnds == FInit => Ends
BY DEF FInit, Ends

(* The messages behind the first one.                                      *)
LEMMA Behind ==
  ASSUME NEW S, NEW s \in Seq(S), s # <<>>
  PROVE  /\ Head(s) = s[1] /\ Len(s) \in Nat /\ 1 \in 1..Len(s)
         /\ Tail(s) \in Seq(S) /\ Len(Tail(s)) = Len(s) - 1
         /\ \A i \in 1..Len(Tail(s)) : i + 1 \in 1..Len(s) /\ Tail(s)[i] = s[i + 1]
<1>1. Len(s) \in Nat /\ Len(s) # 0 OBVIOUS
<1>2. Tail(s) \in Seq(S) /\ Len(Tail(s)) = Len(s) - 1 /\ Head(s) = s[1] BY HeadTailProperties
<1>3. \A i \in 1..Len(s) - 1 : Tail(s)[i] = s[i + 1] BY HeadTailProperties
<1> QED BY <1>1, <1>2, <1>3

LEMMA FNextEnds == FTypeOK /\ Ends /\ [FNext]_fvars => Ends'
<1> SUFFICES ASSUME FTypeOK, Ends, [FNext]_fvars PROVE Ends' OBVIOUS
<1> USE DEF recvVars, sendVars
<1>t. /\ wire \in Seq(Msg) /\ Len(wire) \in Nat
      /\ \A x \in {cut, loop, agg} : x \in {"on", "done"}
      /\ kind \in {"file", "string"}
  BY DEF FTypeOK, Msg
<1>1. ASSUME NEW n \in 0..MaxSize, SendPiece(n) PROVE Ends'
  <2>1. kind = "string" => pos + n = size BY <1>1, StreamNumbers DEF SendPiece, FTypeOK
  <2> QED BY <1>1, <1>t, <2>1 DEF SendPiece, Ends
<1>2. CASE EndOfData BY <1>2, <1>t DEF EndOfData, Ends
<1>3. CASE TakePiece BY <1>3, <1>t DEF TakePiece, Ends
<1>4. CASE SendChunk
  <2> DEFINE m == Binary(SubSeq(buffer, 1, CHUNK_SIZE))
  <2>1. wire' = Append(wire, m) /\ ~ m.end BY <1>4 DEF SendChunk, Binary
  <2> HIDE DEF m
  <2>2. Len(wire') = Len(wire) + 1 /\ \A i \in 1..Len(wire) + 1 :
          wire'[i] = IF i <= Len(wire) THEN wire[i] ELSE m
    BY <1>t, <2>1
  <2>3. \A i \in 1..Len(wire') : ~ wire'[i].end BY <1>4, <1>t, <2>1, <2>2 DEF SendChunk, Ends
  <2> QED BY <1>4, <1>t, <2>3 DEF SendChunk, Ends
<1>5. CASE SendRest
  <2> DEFINE v == wire \o Rest
  <2>1. v \in Seq(Msg) /\ \A i \in 1..Len(v) : ~ v[i].end
    <3>1. CASE buffer = <<>> BY <1>5, <1>t, <3>1 DEF Rest, Ends, SendRest
    <3>2. CASE buffer # <<>>
      <4>1. Binary(buffer) \in Msg /\ ~ Binary(buffer).end BY DEF Binary, Msg, FTypeOK
      <4>2. v = wire \o <<Binary(buffer)>> BY <3>2 DEF Rest
      <4> HIDE DEF v
      <4>3. v = Append(wire, Binary(buffer)) BY <1>t, <4>1, <4>2, AppendIsConcat
      <4>4. v \in Seq(Msg) /\ Len(v) = Len(wire) + 1 /\ \A i \in 1..Len(wire) + 1 :
              v[i] = IF i <= Len(wire) THEN wire[i] ELSE Binary(buffer)
        BY <1>t, <4>1, <4>3
      <4> QED BY <1>5, <1>t, <4>1, <4>4 DEF Ends, SendRest
    <3> QED BY <3>1, <3>2
  <2>2. wire' = v \o <<String>> BY <1>5 DEF SendRest
  <2> HIDE DEF v
  <2>3. String \in Msg /\ String.data = <<>> BY DEF String, Msg
  <2>4. wire' = Append(v, String) BY <2>1, <2>2, <2>3, AppendIsConcat
  <2>5. Len(v) \in Nat /\ Len(wire') = Len(v) + 1 /\ \A i \in 1..Len(v) + 1 :
          wire'[i] = IF i <= Len(v) THEN v[i] ELSE String
    BY <2>1, <2>4
  <2>6. \A i \in 1..Len(wire') : wire'[i].end => i = Len(wire') /\ wire'[i].data = <<>>
    BY <2>1, <2>3, <2>5
  <2> QED BY <1>5, <1>t, <2>6 DEF SendRest, Ends
<1>m. ASSUME wire # <<>>, wire' = Tail(wire), UNCHANGED cut
      PROVE  /\ \A i \in 1..Len(wire') : wire'[i].end => i = Len(wire') /\ wire'[i].data = <<>>
             /\ cut = "on" => \A i \in 1..Len(wire') : ~ wire'[i].end
             /\ Head(wire).end => cut = "done" /\ wire' = <<>> /\ Head(wire).data = <<>>
  <2>1. /\ Head(wire) = wire[1] /\ 1 \in 1..Len(wire) /\ Len(wire') = Len(wire) - 1
        /\ wire' \in Seq(Msg)
        /\ \A i \in 1..Len(wire') : i + 1 \in 1..Len(wire) /\ wire'[i] = wire[i + 1]
    BY <1>m, <1>t, Behind
  <2>2. \A i \in 1..Len(wire') : wire'[i].end => i = Len(wire') /\ wire'[i].data = <<>>
    <3> SUFFICES ASSUME NEW i \in 1..Len(wire'), wire'[i].end
                 PROVE  i = Len(wire') /\ wire'[i].data = <<>>
      OBVIOUS
    <3>1. i + 1 = Len(wire) /\ wire[i + 1].data = <<>> BY <2>1 DEF Ends
    <3> QED BY <1>t, <2>1, <3>1
  <2>3. cut = "on" => \A i \in 1..Len(wire') : ~ wire'[i].end BY <2>1 DEF Ends
  <2>4. ASSUME Head(wire).end PROVE cut = "done" /\ wire' = <<>> /\ Head(wire).data = <<>>
    <3>1. 1 = Len(wire) /\ wire[1].data = <<>> BY <2>1, <2>4 DEF Ends
    <3>0. Len(wire') = Len(wire) - 1 BY <2>1
    <3>2. Len(wire) - 1 = 0 BY <3>1
    <3>3. cut = "done" BY <1>t, <2>1, <2>4 DEF Ends
    <3>4. wire' = <<>> BY <2>1, <3>0, <3>2, EmptySeq
    <3> QED BY <2>1, <3>1, <3>3, <3>4
  <2> QED BY <2>2, <2>3, <2>4
<1>6. CASE PassOn
  <2>1. wire # <<>> /\ wire' = Tail(wire) /\ UNCHANGED cut BY <1>6 DEF PassOn
  <2>2. CASE Head(wire).end BY <1>6, <1>m, <1>t, <2>1, <2>2 DEF PassOn, Ends
  <2>3. CASE ~ Head(wire).end BY <1>6, <1>m, <1>t, <2>1, <2>3 DEF PassOn, Ends
  <2> QED BY <2>2, <2>3
<1>7. CASE ReceiveString
  <2>1. wire # <<>> /\ wire' = Tail(wire) /\ UNCHANGED cut BY <1>7 DEF ReceiveString
  <2>2. CASE Head(wire).end BY <1>7, <1>m, <1>t, <2>1, <2>2 DEF ReceiveString, Ends
  <2>3. CASE ~ Head(wire).end BY <1>7, <1>m, <1>t, <2>1, <2>3 DEF ReceiveString, Ends
  <2> QED BY <2>2, <2>3
<1>8. CASE Gather BY <1>8, <1>t DEF Gather, Ends
<1>9. CASE SendBlock BY <1>9, <1>t DEF SendBlock, Ends
<1>10. CASE SendLeftover BY <1>10, <1>t DEF SendLeftover, Ends
<1>11. CASE Receive BY <1>11, <1>t DEF Receive, Ends
<1>12. CASE UNCHANGED fvars BY <1>12 DEF fvars, Ends
<1> QED BY <1>1, <1>2, <1>3, <1>4, <1>5, <1>6, <1>7, <1>8, <1>9, <1>10, <1>11, <1>12
        DEF FNext, Sender, Receiver, Buffering

-----------------------------------------------------------------------------
(* FileStream: the order of the bytes.                                     *)

Payload(w) == [i \in 1..Len(w) |-> w[i].data]

LEMMA PayloadType ==
  ASSUME NEW w \in Seq(Msg)
  PROVE  /\ Payload(w) \in Seq(Seq(Nat)) /\ Len(Payload(w)) = Len(w)
         /\ \A i \in 1..Len(w) : Payload(w)[i] = w[i].data
<1>1. \A i \in 1..Len(w) : w[i].data \in Seq(Nat)
  <2> SUFFICES ASSUME NEW i \in 1..Len(w) PROVE w[i].data \in Seq(Nat) OBVIOUS
  <2>1. w[i] \in Msg BY ElementOfSeq
  <2> QED BY <2>1 DEF Msg
<1>2. Len(w) \in Nat OBVIOUS
<1>3. Payload(w) \in [1..Len(w) -> Seq(Nat)] BY <1>1 DEF Payload
<1> QED BY <1>2, <1>3 DEF Payload

LEMMA PayloadAppend ==
  ASSUME NEW w \in Seq(Msg), NEW m \in Msg
  PROVE  Payload(Append(w, m)) = Append(Payload(w), m.data)
<1> DEFINE v == Append(w, m)
<1>1. /\ v \in Seq(Msg) /\ Len(v) = Len(w) + 1 /\ Len(w) \in Nat
      /\ \A i \in 1..Len(w) : v[i] = w[i]
      /\ v[Len(w) + 1] = m
  OBVIOUS
<1>2. m.data \in Seq(Nat) BY DEF Msg
<1>3. Payload(w) \in Seq(Seq(Nat)) /\ Len(Payload(w)) = Len(w) BY PayloadType
<1>4. /\ Append(Payload(w), m.data) \in Seq(Seq(Nat))
      /\ Len(Append(Payload(w), m.data)) = Len(w) + 1
      /\ \A i \in 1..Len(w) : Append(Payload(w), m.data)[i] = Payload(w)[i]
      /\ Append(Payload(w), m.data)[Len(w) + 1] = m.data
  BY <1>2, <1>3, AppendProperties
<1>5. Payload(v) \in Seq(Seq(Nat)) /\ Len(Payload(v)) = Len(w) + 1
  <2> HIDE DEF v
  <2> QED BY <1>1, PayloadType
<1>6. \A i \in 1..Len(w) + 1 : Payload(v)[i] = v[i].data
  <2> HIDE DEF v
  <2> QED BY <1>1, PayloadType
<1>7. \A i \in 1..Len(w) + 1 : Payload(v)[i] = Append(Payload(w), m.data)[i]
  <2> SUFFICES ASSUME NEW i \in 1..Len(w) + 1
               PROVE  Payload(v)[i] = Append(Payload(w), m.data)[i]
    OBVIOUS
  <2> HIDE DEF v
  <2>1. CASE i = Len(w) + 1 BY <1>1, <1>4, <1>6, <2>1
  <2>2. CASE i # Len(w) + 1
    <3>1. i \in 1..Len(w) BY <1>1, <2>2
    <3> QED BY <1>1, <1>4, <1>6, <3>1, PayloadType
  <2> QED BY <2>1, <2>2
<1> HIDE DEF v
<1>8. Payload(v) = Append(Payload(w), m.data) BY <1>4, <1>5, <1>7, SeqEqual
<1> QED BY <1>8 DEF v

LEMMA PayloadTail ==
  ASSUME NEW w \in Seq(Msg), w # <<>>
  PROVE  /\ Payload(w) # <<>> /\ Head(Payload(w)) = Head(w).data
         /\ Tail(Payload(w)) = Payload(Tail(w))
<1> DEFINE p == Payload(w)
<1>1. /\ Head(w) = w[1] /\ Len(w) \in Nat /\ 1 \in 1..Len(w)
      /\ Tail(w) \in Seq(Msg) /\ Len(Tail(w)) = Len(w) - 1
      /\ \A i \in 1..Len(Tail(w)) : i + 1 \in 1..Len(w) /\ Tail(w)[i] = w[i + 1]
  BY Behind
<1>2. p \in Seq(Seq(Nat)) /\ Len(p) = Len(w) /\ \A i \in 1..Len(w) : p[i] = w[i].data
  BY PayloadType
<1> HIDE DEF p
<1>3. p # <<>> BY <1>1, <1>2
<1>4. /\ Head(p) = p[1]
      /\ Tail(p) \in Seq(Seq(Nat)) /\ Len(Tail(p)) = Len(p) - 1
      /\ \A i \in 1..Len(Tail(p)) : i + 1 \in 1..Len(p) /\ Tail(p)[i] = p[i + 1]
  BY <1>2, <1>3, Behind
<1>5. /\ Payload(Tail(w)) \in Seq(Seq(Nat)) /\ Len(Payload(Tail(w))) = Len(w) - 1
      /\ \A i \in 1..Len(w) - 1 : Payload(Tail(w))[i] = Tail(w)[i].data
  BY <1>1, PayloadType
<1>6. Len(Tail(p)) = Len(Payload(Tail(w))) BY <1>2, <1>4, <1>5
<1>7. \A i \in 1..Len(Tail(p)) : Tail(p)[i] = Payload(Tail(w))[i]
  <2> SUFFICES ASSUME NEW i \in 1..Len(w) - 1 PROVE Tail(p)[i] = Payload(Tail(w))[i]
    BY <1>2, <1>4
  <2>1. Tail(p)[i] = p[i + 1] /\ i + 1 \in 1..Len(w) BY <1>2, <1>4
  <2>2. Tail(w)[i] = w[i + 1] BY <1>1
  <2> QED BY <1>2, <1>5, <2>1, <2>2
<1>8. Tail(p) = Payload(Tail(w)) BY <1>4, <1>5, <1>6, <1>7, SeqEqual
<1> QED BY <1>1, <1>2, <1>3, <1>4, <1>8 DEF p

Byte == Nat
Cat(s, t) == s \o t

LEMMA CatLaws ==
  /\ \A s, t \in Seq(Byte) : Cat(s, t) \in Seq(Byte)
  /\ \A s, t, u \in Seq(Byte) : Cat(Cat(s, t), u) = Cat(s, Cat(t, u))
  /\ \A s \in Seq(Byte) : Cat(s, <<>>) = s
BY ConcatProperties, ConcatAssociative, ConcatEmptySeq DEF Cat

(* Taking a prefix off one place and putting it behind the one in front.   *)
LEMMA Shift ==
  \A x, y, h, z \in Seq(Byte) : Cat(Cat(x, y), Cat(h, z)) = Cat(Cat(x, Cat(y, h)), z)
<1> TAKE x, y, h, z \in Seq(Byte)
<1>1. Cat(x, y) \in Seq(Byte) BY CatLaws
<1>2. Cat(Cat(x, y), Cat(h, z)) = Cat(Cat(Cat(x, y), h), z) BY <1>1, CatLaws
<1>3. Cat(Cat(x, y), h) = Cat(x, Cat(y, h)) BY CatLaws
<1> QED BY <1>2, <1>3

(* ... and putting all of it there.                                        *)
LEMMA ShiftAll ==
  \A x, s, h \in Seq(Byte) : Cat(Cat(x, s), h) = Cat(Cat(x, Cat(s, h)), <<>>)
<1> TAKE x, s, h \in Seq(Byte)
<1> DEFINE z == <<>>
<1>1. z \in Seq(Byte) /\ Cat(h, z) = h BY CatLaws
<1> HIDE DEF z
<1>2. Cat(Cat(x, s), Cat(h, z)) = Cat(Cat(x, Cat(s, h)), z) BY <1>1, Shift
<1> QED BY <1>1, <1>2 DEF z

(* The places of the bytes, and what each of them holds.                   *)
LEMMA Places ==
  ASSUME FTypeOK
  PROVE  /\ Bytes(sink) \in Seq(Byte) /\ Bytes(blocks) \in Seq(Byte)
         /\ gather \in Seq(Byte) /\ Bytes(down) \in Seq(Byte) /\ OnWire \in Seq(Byte)
         /\ buffer \in Seq(Byte) /\ Bytes(up) \in Seq(Byte)
         /\ OnWire = FlattenSeq(Payload(wire)) /\ wire \in Seq(Msg)
<1>1. OnWire = FlattenSeq(Payload(wire)) BY DEF OnWire, Payload
<1>2. wire \in Seq(Msg) BY DEF FTypeOK, Msg
<1>3. Payload(wire) \in Seq(Seq(Nat)) BY <1>2, PayloadType
<1> QED BY <1>1, <1>2, <1>3, FlattenType DEF FTypeOK, Bytes, Byte

(* What a step does to a place.                                            *)
LEMMA BytesAppend ==
  ASSUME NEW q \in Seq(Seq(Nat)), NEW s \in Seq(Nat)
  PROVE  Bytes(Append(q, s)) = Bytes(q) \o s
BY FlattenAppend DEF Bytes

LEMMA BytesHead ==
  ASSUME NEW q \in Seq(Seq(Nat)), q # <<>>
  PROVE  /\ Head(q) \in Seq(Byte) /\ Bytes(Tail(q)) \in Seq(Byte)
         /\ Bytes(q) = Head(q) \o Bytes(Tail(q))
<1>1. Head(q) \in Seq(Nat) /\ Tail(q) \in Seq(Seq(Nat)) BY HeadTailProperties
<1>2. FlattenSeq(Tail(q)) \in Seq(Nat) BY <1>1, FlattenType
<1>3. FlattenSeq(q) = Head(q) \o FlattenSeq(Tail(q)) BY FlattenHead
<1> QED BY <1>1, <1>2, <1>3 DEF Bytes, Byte

LEMMA WireHead ==
  ASSUME FTypeOK, wire # <<>>, wire' = Tail(wire)
  PROVE  /\ Head(wire).data \in Seq(Byte) /\ OnWire' \in Seq(Byte)
         /\ OnWire = Head(wire).data \o OnWire'
<1>1. wire \in Seq(Msg) BY Places
<1>2. /\ Payload(wire) # <<>> /\ Head(Payload(wire)) = Head(wire).data
      /\ Tail(Payload(wire)) = Payload(Tail(wire))
  BY <1>1, PayloadTail
<1>3. Payload(wire) \in Seq(Seq(Nat)) BY <1>1, PayloadType
<1>4. OnWire' = Bytes(Tail(Payload(wire))) BY <1>2 DEF OnWire, Payload, Bytes
<1>5. OnWire = Bytes(Payload(wire)) BY DEF OnWire, Payload, Bytes
<1> QED BY <1>2, <1>3, <1>4, <1>5, BytesHead

LEMMA WireAppend ==
  ASSUME FTypeOK, NEW w \in Seq(Msg), NEW m \in Msg
  PROVE  FlattenSeq(Payload(Append(w, m))) = FlattenSeq(Payload(w)) \o m.data
<1>1. Payload(w) \in Seq(Seq(Nat)) /\ m.data \in Seq(Nat) BY PayloadType DEF Msg
<1> QED BY <1>1, PayloadAppend, FlattenAppend

LEMMA FInitInOrder == FInit => InOrder
<1> SUFFICES ASSUME FInit PROVE InOrder OBVIOUS
<1>1. FTypeOK BY FInitType
<1>2. SubSeq(Data, 1, 0) = <<>>
  <2>1. Data \in Seq(Nat) BY <1>1, DataIs
  <2> QED BY <2>1, SubSeqEmpty
<1>3. Bytes(<<>>) = <<>> BY FlattenEmpty DEF Bytes
<1>4. OnWire = <<>>
  <2>1. wire \in Seq(Msg) /\ Len(wire) = 0 BY <1>1, Places DEF FInit
  <2>2. Payload(wire) \in Seq(Seq(Nat)) /\ Len(Payload(wire)) = 0 BY <2>1, PayloadType
  <2>3. Payload(wire) = <<>> BY <2>2, EmptySeq
  <2> QED BY <1>1, <2>3, Places, FlattenEmpty
<1>5. <<>> \o <<>> = <<>> BY ConcatEmptySeq
<1> QED BY <1>2, <1>3, <1>4, <1>5 DEF FInit, InOrder

(* What the app has read is one piece longer.                              *)
LEMMA ReadMore ==
  ASSUME FTypeOK, NEW n \in Nat, pos + n <= size
  PROVE  /\ SubSeq(Data, pos + 1, pos + n) \in Seq(Nat)
         /\ SubSeq(Data, 1, pos + n) = SubSeq(Data, 1, pos) \o SubSeq(Data, pos + 1, pos + n)
<1> DEFINE p == SubSeq(Data, pos + 1, pos + n)
           r == SubSeq(Data, 0 + 1, pos)
           t == SubSeq(Data, 0 + 1, pos + n)
<1>0. pos \in Nat /\ pos + n \in Nat /\ size \in Nat /\ pos <= pos + n /\ pos <= size
  BY StreamNumbers DEF FTypeOK
<1>d. Data \in Seq(Nat) /\ Len(Data) = size BY DataIs
<1>1. p \in Seq(Nat) /\ Len(p) = n /\ \A i \in 1..n : p[i] = Data[pos + i]
  <2>1. (pos + n) - pos = n BY <1>0
  <2> QED BY <1>0, <1>d, <2>1, PieceType
<1>2. r \in Seq(Nat) /\ Len(r) = pos /\ \A i \in 1..pos : r[i] = Data[i]
  <2>1. r \in Seq(Nat) /\ Len(r) = pos - 0 /\ \A i \in 1..pos - 0 : r[i] = Data[0 + i]
    <3>1. 0 \in Nat /\ 0 <= pos BY <1>0
    <3> QED BY <1>0, <1>d, <3>1, PieceType
  <2> HIDE DEF r
  <2> QED BY <1>0, <2>1
<1>3. t \in Seq(Nat) /\ Len(t) = pos + n /\ \A i \in 1..pos + n : t[i] = Data[i]
  <2>1. t \in Seq(Nat) /\ Len(t) = (pos + n) - 0 /\ \A i \in 1..(pos + n) - 0 : t[i] = Data[0 + i]
    <3>1. 0 \in Nat /\ 0 <= pos + n BY <1>0
    <3> QED BY <1>0, <1>d, <3>1, PieceType
  <2> HIDE DEF t
  <2> QED BY <1>0, <2>1
<1> HIDE DEF p, r, t
<1>4. /\ r \o p \in Seq(Nat) /\ Len(r \o p) = pos + n
      /\ \A i \in 1..pos + n : (r \o p)[i] = IF i <= pos THEN r[i] ELSE p[i - pos]
  <2>1. r \in Seq(Byte) /\ p \in Seq(Byte) BY <1>1, <1>2 DEF Byte
  <2>2. /\ r \o p \in Seq(Byte) /\ Len(r \o p) = Len(r) + Len(p)
        /\ \A i \in 1..Len(r) + Len(p) : (r \o p)[i] = IF i <= Len(r) THEN r[i] ELSE p[i - Len(r)]
    BY <2>1, ConcatProperties
  <2>3. Len(r) = pos /\ Len(p) = n BY <1>1, <1>2
  <2> QED BY <2>2, <2>3 DEF Byte
<1>5. \A i \in 1..pos + n : (r \o p)[i] = t[i]
  <2> SUFFICES ASSUME NEW i \in 1..pos + n PROVE (r \o p)[i] = t[i] OBVIOUS
  <2>1. CASE i <= pos
    <3>1. i \in 1..pos BY <1>0, <2>1
    <3> QED BY <1>2, <1>3, <1>4, <2>1, <3>1
  <2>2. CASE ~ i <= pos
    <3>1. i - pos \in 1..n /\ pos + (i - pos) = i BY <1>0, <2>2
    <3> QED BY <1>1, <1>3, <1>4, <2>2, <3>1
  <2> QED BY <2>1, <2>2
<1>6. r \o p = t BY <1>3, <1>4, <1>5, SeqEqual
<1>7. 0 + 1 = 1 OBVIOUS
<1>8. SubSeq(Data, 1, pos) \o p = SubSeq(Data, 1, pos + n) BY <1>6, <1>7, Zenon DEF r, t
<1> QED BY <1>1, <1>8 DEF p

(* A chunk and what is left of the buffer are the buffer.                  *)
LEMMA CutBuffer ==
  ASSUME FTypeOK, Len(buffer) >= CHUNK_SIZE
  PROVE  /\ SubSeq(buffer, 1, CHUNK_SIZE) \in Seq(Byte)
         /\ SubSeq(buffer, CHUNK_SIZE + 1, Len(buffer)) \in Seq(Byte)
         /\ Len(SubSeq(buffer, 1, CHUNK_SIZE)) = CHUNK_SIZE
         /\ buffer = SubSeq(buffer, 1, CHUNK_SIZE) \o SubSeq(buffer, CHUNK_SIZE + 1, Len(buffer))
<1> DEFINE h == SubSeq(buffer, 1, CHUNK_SIZE)
           z == SubSeq(buffer, CHUNK_SIZE + 1, Len(buffer))
           c == CHUNK_SIZE
           l == Len(buffer)
<1>0. /\ c \in Nat /\ l \in Nat /\ c <= l /\ 0 \in Nat /\ 0 <= c /\ l <= l /\ c - 0 = c
      /\ buffer \in Seq(Nat)
  BY StreamNumbers DEF FTypeOK
<1>1. h \in Seq(Nat) /\ Len(h) = c /\ \A i \in 1..c : h[i] = buffer[i]
  <2> DEFINE k == SubSeq(buffer, 0 + 1, c)
  <2>1. k \in Seq(Nat) /\ Len(k) = c - 0 /\ \A i \in 1..c - 0 : k[i] = buffer[0 + i]
    BY <1>0, PieceType
  <2>2. 0 + 1 = 1 OBVIOUS
  <2>3. k = h BY <2>2, Zenon
  <2> HIDE DEF k, h
  <2> QED BY <1>0, <2>1, <2>3
<1>2. z \in Seq(Nat) /\ Len(z) = l - c /\ \A i \in 1..l - c : z[i] = buffer[c + i]
  BY <1>0, PieceType
<1> HIDE DEF h, z, c, l
<1>3. /\ h \o z \in Seq(Nat) /\ Len(h \o z) = l
      /\ \A i \in 1..l : (h \o z)[i] = IF i <= c THEN h[i] ELSE z[i - c]
  <2>1. c + (l - c) = l /\ c \in Nat /\ l - c \in Nat BY <1>0
  <2>2. h \in Seq(Byte) /\ z \in Seq(Byte) BY <1>1, <1>2 DEF Byte
  <2>3. /\ h \o z \in Seq(Byte) /\ Len(h \o z) = Len(h) + Len(z)
        /\ \A i \in 1..Len(h) + Len(z) : (h \o z)[i] = IF i <= Len(h) THEN h[i] ELSE z[i - Len(h)]
    BY <2>2, ConcatProperties
  <2>4. Len(h) = c /\ Len(h) + Len(z) = l BY <1>1, <1>2, <2>1
  <2> QED BY <2>3, <2>4 DEF Byte
<1>4. \A i \in 1..l : (h \o z)[i] = buffer[i]
  <2> SUFFICES ASSUME NEW i \in 1..l PROVE (h \o z)[i] = buffer[i] OBVIOUS
  <2>1. CASE i <= c
    <3>1. i \in 1..c BY <1>0, <2>1
    <3> QED BY <1>1, <1>3, <2>1, <3>1
  <2>2. CASE ~ i <= c
    <3>1. i - c \in 1..l - c /\ c + (i - c) = i BY <1>0, <2>2
    <3> QED BY <1>2, <1>3, <2>2, <3>1
  <2> QED BY <2>1, <2>2
<1>5. h \o z = buffer BY <1>0, <1>3, <1>4, SeqEqual DEF l
<1> QED BY <1>1, <1>2, <1>5 DEF h, z, c, l, Byte

(* What process_in_chunks sends at the end is what it had left.            *)
LEMMA RestOnWire ==
  ASSUME FTypeOK, SendRest
  PROVE  OnWire' = OnWire \o buffer
<1> DEFINE v == wire \o Rest
<1>q. wire \in Seq(Msg) /\ buffer \in Seq(Nat) BY DEF FTypeOK, Msg
<1>o. OnWire \in Seq(Byte) /\ OnWire = FlattenSeq(Payload(wire)) BY Places
<1>1. v \in Seq(Msg) /\ FlattenSeq(Payload(v)) = OnWire \o buffer
  <2>1. CASE buffer = <<>>
    <3>1. v = wire BY <1>q, <2>1 DEF Rest
    <3>2. OnWire \o <<>> = OnWire BY <1>o, ConcatEmptySeq
    <3> QED BY <1>q, <1>o, <2>1, <3>1, <3>2
  <2>2. CASE buffer # <<>>
    <3>1. Binary(buffer) \in Msg /\ Binary(buffer).data = buffer BY <1>q DEF Binary, Msg
    <3>2. v = wire \o <<Binary(buffer)>> BY <2>2 DEF Rest
    <3> HIDE DEF v
    <3>3. v = Append(wire, Binary(buffer)) BY <1>q, <3>1, <3>2, AppendIsConcat
    <3>4. v \in Seq(Msg) BY <1>q, <3>1, <3>3, AppendProperties
    <3> QED BY <1>q, <1>o, <3>1, <3>3, <3>4, WireAppend
  <2> QED BY <2>1, <2>2
<1>2. wire' = v \o <<String>> BY DEF SendRest
<1> HIDE DEF v
<1>3. String \in Msg /\ String.data = <<>> BY DEF String, Msg
<1>4. wire' = Append(v, String) BY <1>1, <1>2, <1>3, AppendIsConcat
<1>5. OnWire' = FlattenSeq(Payload(Append(v, String))) BY <1>4 DEF OnWire, Payload
<1>6. OnWire' = (OnWire \o buffer) \o <<>> BY <1>1, <1>3, <1>5, WireAppend
<1>7. OnWire \o buffer \in Seq(Byte) BY <1>o, <1>q, ConcatProperties DEF Byte
<1> QED BY <1>6, <1>7, ConcatEmptySeq

(* The string at the end carries no bytes.                                 *)
LEMMA EndIsEmpty ==
  ASSUME Ends, wire \in Seq(Msg), wire # <<>>, Head(wire).end
  PROVE  Head(wire).data = <<>>
<1>1. Head(wire) = wire[1] /\ 1 \in 1..Len(wire) BY Behind
<1> QED BY <1>1 DEF Ends

(* A step takes bytes off one place and puts them behind those in the next *)
(* place, or reads more.                                                   *)
LEMMA FNextInOrder == FTypeOK /\ Ends /\ InOrder /\ [FNext]_fvars => InOrder'
<1> SUFFICES ASSUME FTypeOK, Ends, InOrder, [FNext]_fvars PROVE InOrder' OBVIOUS
<1> USE DEF recvVars, sendVars
<1> DEFINE a == Bytes(sink)
           b == Bytes(blocks)
           d == Bytes(down)
           e == OnWire
           g == Bytes(up)
           ab == a \o b
           ac == ab \o gather
           ad == ac \o d
           ae == ad \o e
           af == ae \o buffer
           r == SubSeq(Data, 1, pos)
<1>t. /\ a \in Seq(Byte) /\ b \in Seq(Byte) /\ gather \in Seq(Byte) /\ d \in Seq(Byte)
      /\ e \in Seq(Byte) /\ buffer \in Seq(Byte) /\ g \in Seq(Byte)
  BY Places
<1>s. /\ ab \in Seq(Byte) /\ ac \in Seq(Byte) /\ ad \in Seq(Byte)
      /\ ae \in Seq(Byte) /\ af \in Seq(Byte)
  BY <1>t, ConcatProperties
<1>q. /\ up \in Seq(Seq(Nat)) /\ down \in Seq(Seq(Nat)) /\ blocks \in Seq(Seq(Nat))
      /\ sink \in Seq(Seq(Nat)) /\ wire \in Seq(Msg)
  BY DEF FTypeOK, Msg
<1>f. r = af \o g BY DEF InOrder
<1>e. Bytes(<<>>) = <<>> /\ <<>> \in Seq(Byte) BY FlattenEmpty DEF Bytes
<1>u. UNCHANGED wire => OnWire' = OnWire BY DEF OnWire
<1>v. UNCHANGED <<size, pos>> => SubSeq(Data, 1, pos)' = r BY DEF Data
<1>1. ASSUME NEW n \in 0..MaxSize, SendPiece(n) PROVE InOrder'
  <2> DEFINE p == SubSeq(Data, pos + 1, pos + n)
  <2>0. n \in Nat /\ pos + n <= size BY <1>1, StreamNumbers DEF SendPiece
  <2>1. p \in Seq(Nat) /\ SubSeq(Data, 1, pos + n) = r \o p BY <2>0, ReadMore
  <2>2. Bytes(up') = g \o p
    <3>1. up' = Append(up, p) BY <1>1 DEF SendPiece
    <3> HIDE DEF p
    <3> QED BY <1>q, <2>1, <3>1, BytesAppend
  <2>3. SubSeq(Data, 1, pos)' = SubSeq(Data, 1, pos + n) BY <1>1 DEF SendPiece, Data
  <2>4. (af \o g) \o p = af \o (g \o p)
    <3>1. af \in Seq(Byte) /\ g \in Seq(Byte) /\ p \in Seq(Byte) BY <1>s, <1>t, <2>1 DEF Byte
    <3> HIDE DEF af, g, p
    <3>2. Cat(Cat(af, g), p) = Cat(af, Cat(g, p)) BY <3>1, CatLaws
    <3> QED BY <3>2, Zenon DEF Cat
  <2> HIDE DEF p
  <2> QED BY <1>1, <1>f, <1>u, <2>1, <2>2, <2>3, <2>4 DEF SendPiece, InOrder
<1>2. CASE EndOfData BY <1>2, <1>f, <1>u, <1>v DEF EndOfData, InOrder
<1>3. CASE TakePiece
  <2> DEFINE h == Head(up)
             z == Bytes(Tail(up))
  <2>1. h \in Seq(Byte) /\ z \in Seq(Byte) /\ g = h \o z BY <1>3, <1>q, BytesHead DEF TakePiece
  <2>2. (ae \o buffer) \o (h \o z) = (ae \o (buffer \o h)) \o z
    <3> DEFINE y == buffer
    <3>1. ae \in Seq(Byte) /\ y \in Seq(Byte) /\ h \in Seq(Byte) /\ z \in Seq(Byte)
      BY <1>s, <1>t, <2>1
    <3> HIDE DEF ae, y, h, z
    <3>2. Cat(Cat(ae, y), Cat(h, z)) = Cat(Cat(ae, Cat(y, h)), z) BY <3>1, Shift
    <3> QED BY <3>2, Zenon DEF y, Cat
  <2>3. buffer' = buffer \o h /\ Bytes(up') = z BY <1>3 DEF TakePiece
  <2> QED BY <1>3, <1>f, <1>u, <1>v, <2>1, <2>2, <2>3 DEF TakePiece, InOrder
<1>4. CASE SendChunk
  <2> DEFINE h == SubSeq(buffer, 1, CHUNK_SIZE)
             z == SubSeq(buffer, CHUNK_SIZE + 1, Len(buffer))
  <2>1. h \in Seq(Byte) /\ z \in Seq(Byte) /\ buffer = h \o z
    BY <1>4, CutBuffer DEF SendChunk
  <2>2. Binary(h) \in Msg /\ Binary(h).data = h BY <2>1 DEF Binary, Msg, Byte
  <2>3. OnWire' = e \o h
    <3>1. wire' = Append(wire, Binary(h)) BY <1>4 DEF SendChunk
    <3>2. OnWire' = FlattenSeq(Payload(Append(wire, Binary(h)))) BY <3>1 DEF OnWire, Payload
    <3>3. e = FlattenSeq(Payload(wire)) BY DEF OnWire, Payload
    <3> HIDE DEF h
    <3> QED BY <1>q, <2>2, <3>2, <3>3, WireAppend
  <2>4. (ad \o e) \o (h \o z) = (ad \o (e \o h)) \o z
    <3>1. ad \in Seq(Byte) /\ e \in Seq(Byte) /\ h \in Seq(Byte) /\ z \in Seq(Byte)
      BY <1>s, <1>t, <2>1
    <3> HIDE DEF ad, e, h, z
    <3>2. Cat(Cat(ad, e), Cat(h, z)) = Cat(Cat(ad, Cat(e, h)), z) BY <3>1, Shift
    <3> QED BY <3>2, Zenon DEF Cat
  <2>5. buffer' = z BY <1>4 DEF SendChunk
  <2> HIDE DEF h, z
  <2> QED BY <1>4, <1>f, <1>v, <2>1, <2>3, <2>4, <2>5 DEF SendChunk, InOrder
<1>5. CASE SendRest
  <2>1. OnWire' = e \o buffer BY <1>5, RestOnWire
  <2>2. (ad \o e) \o buffer = (ad \o (e \o buffer)) \o <<>>
    <3>1. ad \in Seq(Byte) /\ e \in Seq(Byte) /\ buffer \in Seq(Byte) BY <1>s, <1>t
    <3> HIDE DEF ad, e
    <3>2. Cat(Cat(ad, e), buffer) = Cat(Cat(ad, Cat(e, buffer)), <<>>) BY <3>1, ShiftAll
    <3> QED BY <3>2, Zenon DEF Cat
  <2> QED BY <1>5, <1>f, <1>v, <2>1, <2>2 DEF SendRest, InOrder
<1>6. CASE PassOn
  <2> DEFINE h == Head(wire).data
             z == OnWire'
  <2>0. wire # <<>> /\ wire' = Tail(wire) BY <1>6 DEF PassOn
  <2>1. h \in Seq(Byte) /\ z \in Seq(Byte) /\ e = h \o z BY <2>0, WireHead
  <2>2. CASE Head(wire).end
    <3>1. h = <<>> BY <1>q, <2>0, <2>2, EndIsEmpty
    <3>2. z = e BY <2>1, <3>1, ConcatEmptySeq
    <3> QED BY <1>6, <1>f, <1>v, <2>2, <3>2 DEF PassOn, InOrder
  <2>3. CASE ~ Head(wire).end
    <3>1. (ac \o d) \o (h \o z) = (ac \o (d \o h)) \o z
      <4>1. ac \in Seq(Byte) /\ d \in Seq(Byte) BY <1>s, <1>t
      <4>2. h \in Seq(Byte) /\ z \in Seq(Byte) BY <2>1
      <4> HIDE DEF ac, d, h, z
      <4>3. Cat(Cat(ac, d), Cat(h, z)) = Cat(Cat(ac, Cat(d, h)), z) BY <4>1, <4>2, Shift
      <4> QED BY <4>3, Zenon DEF Cat
    <3>2. Bytes(down') = d \o h
      <4>1. down' = Append(down, h) BY <1>6, <2>3 DEF PassOn
      <4>2. h \in Seq(Nat) BY <2>1 DEF Byte
      <4> HIDE DEF h
      <4> QED BY <1>q, <4>1, <4>2, BytesAppend
    <3> HIDE DEF h
    <3> QED BY <1>6, <1>f, <1>v, <2>1, <2>3, <3>1, <3>2 DEF PassOn, InOrder
  <2> QED BY <2>2, <2>3
<1>7. CASE ReceiveString
  <2> DEFINE h == Head(wire).data
             z == OnWire'
  <2>0. wire # <<>> /\ wire' = Tail(wire) BY <1>7 DEF ReceiveString
  <2>1. h \in Seq(Byte) /\ z \in Seq(Byte) /\ e = h \o z BY <2>0, WireHead
  <2>2. down = <<>> /\ blocks = <<>> /\ sink = <<>> BY <1>7 DEF ReceiveString, Ends
  <2>3. a = <<>> /\ b = <<>> /\ d = <<>> BY <1>e, <2>2
  <2>4. ab = <<>> /\ ac = gather /\ ad = gather BY <1>t, <1>e, <2>3, ConcatEmptySeq
  <2>5. CASE Head(wire).end
    <3>1. h = <<>> BY <1>q, <2>0, <2>5, EndIsEmpty
    <3>2. z = e BY <2>1, <3>1, ConcatEmptySeq
    <3>3. Bytes(<<gather>>) = gather BY <1>t, FlattenOne DEF Bytes
    <3>4. ((gather \o <<>>) \o <<>>) \o <<>> = gather BY <1>t, ConcatEmptySeq
    <3>5. r = ((gather \o e) \o buffer) \o g BY <1>f, <2>4
    <3>6. /\ Bytes(sink') = gather /\ Bytes(blocks') = <<>> /\ gather' = <<>>
          /\ Bytes(down') = <<>> /\ UNCHANGED <<size, pos, buffer, up>>
      BY <1>7, <1>e, <2>2, <2>5, <3>3 DEF ReceiveString
    <3> QED BY <1>v, <3>2, <3>4, <3>5, <3>6 DEF InOrder
  <2>6. CASE ~ Head(wire).end
    <3>1. gather \o (h \o z) = (gather \o h) \o z
      <4>1. gather \in Seq(Byte) /\ h \in Seq(Byte) /\ z \in Seq(Byte) BY <1>t, <2>1
      <4> HIDE DEF h, z
      <4>2. Cat(gather, Cat(h, z)) = Cat(Cat(gather, h), z) BY <4>1, CatLaws
      <4> QED BY <4>2, Zenon DEF Cat
    <3>2. gather \o h \in Seq(Byte) BY <1>t, <2>1, ConcatProperties
    <3>3. ((<<>> \o <<>>) \o (gather \o h)) \o <<>> = gather \o h
      BY <1>e, <3>2, ConcatEmptySeq
    <3>5. r = ((gather \o e) \o buffer) \o g BY <1>f, <2>4
    <3>6. /\ Bytes(sink') = <<>> /\ Bytes(blocks') = <<>> /\ gather' = gather \o h
          /\ Bytes(down') = <<>> /\ UNCHANGED <<size, pos, buffer, up>>
      BY <1>7, <1>e, <2>2, <2>6 DEF ReceiveString
    <3> HIDE DEF h
    <3> QED BY <1>v, <2>1, <3>1, <3>3, <3>5, <3>6 DEF InOrder
  <2> QED BY <2>5, <2>6
<1>8. CASE Gather
  <2> DEFINE h == Head(down)
             z == Bytes(Tail(down))
  <2>1. h \in Seq(Byte) /\ z \in Seq(Byte) /\ d = h \o z BY <1>8, <1>q, BytesHead DEF Gather
  <2>2. (ab \o gather) \o (h \o z) = (ab \o (gather \o h)) \o z
    <3> DEFINE y == gather
    <3>1. ab \in Seq(Byte) /\ y \in Seq(Byte) /\ h \in Seq(Byte) /\ z \in Seq(Byte)
      BY <1>s, <1>t, <2>1
    <3> HIDE DEF ab, y, h, z
    <3>2. Cat(Cat(ab, y), Cat(h, z)) = Cat(Cat(ab, Cat(y, h)), z) BY <3>1, Shift
    <3> QED BY <3>2, Zenon DEF y, Cat
  <2>3. gather' = gather \o h /\ Bytes(down') = z BY <1>8 DEF Gather
  <2> QED BY <1>8, <1>f, <1>u, <1>v, <2>1, <2>2, <2>3 DEF Gather, InOrder
<1>9. ASSUME blocks = <<>>, gather' = <<>>, Bytes(blocks') = gather,
             UNCHANGED <<size, pos, sink, down, wire, buffer, up>>
      PROVE  InOrder'
  <2>1. b = <<>> BY <1>e, <1>9
  <2>2. ab = a BY <1>t, <2>1, ConcatEmptySeq
  <2>3. (a \o gather) \o <<>> = a \o gather
    <3>1. a \o gather \in Seq(Byte) BY <1>t, ConcatProperties
    <3> HIDE DEF a
    <3> QED BY <3>1, ConcatEmptySeq
  <2> QED BY <1>9, <1>f, <1>u, <1>v, <2>2, <2>3 DEF InOrder
<1>10. Bytes(<<gather>>) = gather BY <1>t, FlattenOne DEF Bytes
<1>11. CASE SendBlock BY <1>9, <1>10, <1>11 DEF SendBlock, Cleared
<1>12. CASE SendLeftover
  <2>1. Bytes(blocks') = gather BY <1>12, <1>10, <1>e DEF SendLeftover, Leftover
  <2> QED BY <1>9, <1>12, <2>1 DEF SendLeftover
<1>13. CASE Receive
  <2>1. Bytes(sink') = a \o b BY <1>13, <1>q, FlattenConcat DEF Receive, Bytes
  <2>2. (a \o b) \o <<>> = a \o b BY <1>s, ConcatEmptySeq
  <2>3. Bytes(blocks') = <<>> BY <1>13, <1>e DEF Receive
  <2> QED BY <1>13, <1>f, <1>u, <1>v, <2>1, <2>2, <2>3 DEF Receive, InOrder
<1>14. CASE UNCHANGED fvars BY <1>14, <1>u, <1>v DEF fvars, InOrder
<1> QED BY <1>1, <1>2, <1>3, <1>4, <1>5, <1>6, <1>7, <1>8, <1>11, <1>12, <1>13, <1>14
        DEF FNext, Sender, Receiver, Buffering

(* InOrder for every file size, every way to read it, every chunk size and *)
(* every capacity of the channels: cutting into chunks, the bounded        *)
(* channels and buffer_receiver lose, repeat and swap no byte (peer.rs,    *)
(* bytes.rs).                                                              *)
THEOREM BytesInOrder == FSpec => []InOrder
<1>1. FInit => FTypeOK /\ Ends /\ InOrder BY FInitType, FInitEnds, FInitInOrder
<1>2. FTypeOK /\ Ends /\ InOrder /\ [FNext]_fvars => (FTypeOK /\ Ends /\ InOrder)'
  BY FNextType, FNextEnds, FNextInOrder
<1> QED BY <1>1, <1>2, PTL DEF FSpec

-----------------------------------------------------------------------------
(* FileStream: the sizes of messages and blocks.                           *)

(* What buffer_receiver still has to gather are messages.                  *)
Parts == \A i \in 1..Len(down) : Len(down[i]) \in 1..CHUNK_SIZE

LEMMA FInitSizes == FInit => Parts /\ Sizes
<1> SUFFICES ASSUME FInit PROVE Parts /\ Sizes OBVIOUS
<1>1. Len(<<>>) = 0 /\ 1..0 = {} OBVIOUS
<1>2. sink \o blocks = <<>> BY ConcatEmptySeq DEF FInit
<1>3. Len(gather) < BUFFER_SIZE + CHUNK_SIZE BY <1>1, StreamNumbers DEF FInit
<1>4. BlockSizes BY <1>1, <1>2, <1>3 DEF BlockSizes
<1> QED BY <1>1, <1>4 DEF FInit, Parts, Sizes, MessageSizes

(* As long as process_in_chunks is on, it has sent full chunks only.       *)
LEMMA FullSoFar ==
  ASSUME FTypeOK, Ends, MessageSizes, cut = "on"
  PROVE  \A i \in 1..Len(wire) : ~ wire[i].end /\ Len(wire[i].data) = CHUNK_SIZE
<1> SUFFICES ASSUME NEW i \in 1..Len(wire)
             PROVE  ~ wire[i].end /\ Len(wire[i].data) = CHUNK_SIZE
  OBVIOUS
<1>1. ~ wire[i].end BY DEF Ends
<1>2. CHUNK_SIZE \in Nat /\ Len(wire) \in Nat BY StreamNumbers DEF FTypeOK
<1>3. Len(wire[i].data) \in 1..CHUNK_SIZE BY <1>1 DEF MessageSizes
<1>4. CASE Len(wire[i].data) < CHUNK_SIZE
  <2>1. i < Len(wire) /\ wire[i + 1].end BY <1>1, <1>4 DEF MessageSizes
  <2>2. i + 1 \in 1..Len(wire) BY <1>2, <2>1
  <2> QED BY <2>1, <2>2 DEF Ends
<1> QED BY <1>1, <1>2, <1>3, <1>4

LEMMA FNextMessages == FTypeOK /\ Ends /\ MessageSizes /\ [FNext]_fvars => MessageSizes'
<1> SUFFICES ASSUME FTypeOK, Ends, MessageSizes, [FNext]_fvars PROVE MessageSizes' OBVIOUS
<1> USE DEF recvVars, sendVars
<1>t. wire \in Seq(Msg) /\ Len(wire) \in Nat /\ buffer \in Seq(Nat) /\ Len(buffer) \in Nat
  BY DEF FTypeOK, Msg
<1>u. CASE UNCHANGED wire BY <1>u DEF MessageSizes
<1>1. CASE SendChunk
  <2> DEFINE m == Binary(SubSeq(buffer, 1, CHUNK_SIZE))
  <2>1. wire' = Append(wire, m) BY <1>1 DEF SendChunk
  <2>2. Len(m.data) = CHUNK_SIZE BY <1>1, CutBuffer DEF SendChunk, Binary
  <2> HIDE DEF m
  <2>3. Len(wire') = Len(wire) + 1 /\ \A i \in 1..Len(wire) + 1 :
          wire'[i] = IF i <= Len(wire) THEN wire[i] ELSE m
    BY <1>t, <2>1
  <2>4. \A i \in 1..Len(wire) : Len(wire[i].data) = CHUNK_SIZE
    BY <1>1, FullSoFar DEF SendChunk
  <2>5. \A i \in 1..Len(wire') : Len(wire'[i].data) = CHUNK_SIZE BY <1>t, <2>2, <2>3, <2>4
  <2>6. CHUNK_SIZE \in 1..CHUNK_SIZE /\ ~ CHUNK_SIZE < CHUNK_SIZE BY StreamNumbers
  <2> QED BY <2>5, <2>6 DEF MessageSizes
<1>2. CASE SendRest
  <2> DEFINE v == wire \o Rest
             m == Binary(buffer)
  <2>0. \A i \in 1..Len(wire) : Len(wire[i].data) = CHUNK_SIZE
    BY <1>2, FullSoFar DEF SendRest
  <2>n. CHUNK_SIZE \in Nat \ {0} BY StreamNumbers
  <2>1. /\ v \in Seq(Msg)
        /\ \A i \in 1..Len(v) : /\ Len(v[i].data) \in 1..CHUNK_SIZE
                                /\ Len(v[i].data) < CHUNK_SIZE => i = Len(v)
    <3>1. CASE buffer = <<>>
      <4>1. v = wire BY <1>t, <3>1 DEF Rest
      <4> HIDE DEF v
      <4> QED BY <1>t, <2>0, <2>n, <4>1
    <3>2. CASE buffer # <<>>
      <4>1. m \in Msg /\ m.data = buffer BY <1>t DEF Binary, Msg
      <4>2. Len(buffer) \in 1..CHUNK_SIZE BY <1>2, <1>t, <2>n, <3>2, EmptySeq DEF SendRest
      <4>3. v = wire \o <<m>> BY <3>2 DEF Rest
      <4> HIDE DEF v, m
      <4>4. v = Append(wire, m) BY <1>t, <4>1, <4>3, AppendIsConcat
      <4>5. v \in Seq(Msg) /\ Len(v) = Len(wire) + 1 /\ \A i \in 1..Len(wire) + 1 :
              v[i] = IF i <= Len(wire) THEN wire[i] ELSE m
        BY <1>t, <4>1, <4>4
      <4>6. ASSUME NEW i \in 1..Len(v)
            PROVE  /\ Len(v[i].data) \in 1..CHUNK_SIZE
                   /\ Len(v[i].data) < CHUNK_SIZE => i = Len(v)
        <5>1. CASE i = Len(wire) + 1 BY <1>t, <4>1, <4>2, <4>5, <5>1
        <5>2. CASE i # Len(wire) + 1
          <6>1. i \in 1..Len(wire) /\ v[i] = wire[i] BY <1>t, <4>5, <5>2
          <6> QED BY <2>0, <2>n, <6>1
        <5> QED BY <5>1, <5>2
      <4> QED BY <4>5, <4>6
    <3> QED BY <3>1, <3>2
  <2>2. wire' = v \o <<String>> BY <1>2 DEF SendRest
  <2> HIDE DEF v
  <2>3. String \in Msg /\ String.end BY DEF String, Msg
  <2>4. wire' = Append(v, String) BY <2>1, <2>2, <2>3, AppendIsConcat
  <2>5. Len(v) \in Nat /\ Len(wire') = Len(v) + 1 /\ \A i \in 1..Len(v) + 1 :
          wire'[i] = IF i <= Len(v) THEN v[i] ELSE String
    BY <2>1, <2>4
  <2>6. ASSUME NEW i \in 1..Len(wire'), ~ wire'[i].end
        PROVE  /\ Len(wire'[i].data) \in 1..CHUNK_SIZE
               /\ Len(wire'[i].data) < CHUNK_SIZE => i < Len(wire') /\ wire'[i + 1].end
    <3>1. i \in 1..Len(v) BY <2>3, <2>5, <2>6
    <3>2. wire'[i] = v[i] BY <2>5, <3>1
    <3>3. i = Len(v) => i < Len(wire') /\ wire'[i + 1].end BY <2>3, <2>5
    <3> QED BY <2>1, <3>1, <3>2, <3>3
  <2> QED BY <2>6 DEF MessageSizes
<1>3. CASE wire # <<>> /\ wire' = Tail(wire)
  <2>1. /\ Len(wire') = Len(wire) - 1
        /\ \A i \in 1..Len(wire') : i + 1 \in 1..Len(wire) /\ wire'[i] = wire[i + 1]
    BY <1>3, <1>t, Behind
  <2>2. ASSUME NEW i \in 1..Len(wire'), ~ wire'[i].end
        PROVE  /\ Len(wire'[i].data) \in 1..CHUNK_SIZE
               /\ Len(wire'[i].data) < CHUNK_SIZE => i < Len(wire') /\ wire'[i + 1].end
    <3> DEFINE j == i + 1
    <3>1. j \in 1..Len(wire) /\ wire'[i] = wire[j] BY <2>1
    <3>2. /\ Len(wire[j].data) \in 1..CHUNK_SIZE
          /\ Len(wire[j].data) < CHUNK_SIZE => j < Len(wire) /\ wire[j + 1].end
      <4> HIDE DEF j
      <4> QED BY <2>2, <3>1 DEF MessageSizes
    <3>3. ASSUME j < Len(wire) PROVE i < Len(wire') /\ wire'[j] = wire[j + 1]
      <4>1. j \in 1..Len(wire') /\ i < Len(wire') BY <1>t, <2>1, <3>3
      <4> HIDE DEF j
      <4> QED BY <2>1, <4>1
    <3> QED BY <3>1, <3>2, <3>3
  <2> QED BY <2>2 DEF MessageSizes
<1> QED BY <1>u, <1>1, <1>2, <1>3
        DEF FNext, Sender, Receiver, Buffering, SendPiece, EndOfData, TakePiece, PassOn,
            ReceiveString, Gather, SendBlock, SendLeftover, Receive, fvars

LEMMA FNextParts ==
  FTypeOK /\ Ends /\ MessageSizes /\ Parts /\ [FNext]_fvars => Parts'
<1> SUFFICES ASSUME FTypeOK, Ends, MessageSizes, Parts, [FNext]_fvars PROVE Parts' OBVIOUS
<1> USE DEF recvVars, sendVars
<1>t. /\ wire \in Seq(Msg) /\ down \in Seq(Seq(Nat)) /\ Len(down) \in Nat
  BY DEF FTypeOK, Msg
<1>u. CASE UNCHANGED down BY <1>u DEF Parts
<1>1. CASE PassOn /\ ~ UNCHANGED down
  <2> DEFINE h == Head(wire).data
  <2>1. down' = Append(down, h) /\ ~ Head(wire).end /\ wire # <<>> BY <1>1 DEF PassOn
  <2>2. Head(wire) = wire[1] /\ 1 \in 1..Len(wire) BY <1>t, <2>1, Behind
  <2>3. Len(h) \in 1..CHUNK_SIZE BY <2>1, <2>2 DEF MessageSizes
  <2>4. wire[1] \in Msg BY <1>t, <2>2, ElementOfSeq
  <2>5. h \in Seq(Nat) BY <2>2, <2>4 DEF Msg
  <2> HIDE DEF h
  <2>6. Len(down') = Len(down) + 1 /\ \A i \in 1..Len(down) + 1 :
          down'[i] = IF i <= Len(down) THEN down[i] ELSE h
    BY <1>t, <2>1, <2>5
  <2> QED BY <1>t, <2>3, <2>6 DEF Parts
<1>2. CASE Gather
  <2>1. /\ Len(down') = Len(down) - 1
        /\ \A i \in 1..Len(down') : i + 1 \in 1..Len(down) /\ down'[i] = down[i + 1]
    BY <1>2, <1>t, Behind DEF Gather
  <2> QED BY <2>1 DEF Parts
<1> QED BY <1>u, <1>1, <1>2
        DEF FNext, Sender, Receiver, Buffering, SendPiece, EndOfData, TakePiece, SendChunk,
            SendRest, ReceiveString, SendBlock, SendLeftover, Receive, fvars

(* One more block behind the full ones.                                    *)
LEMMA OneMore ==
  ASSUME FTypeOK, BlockSizes, kind = "file", agg = "on", blocks = <<>>,
         sink' = sink, blocks' = <<gather>>, gather' = <<>>, agg' \in {"on", "done"},
         Len(gather) # 0, Len(gather) < BUFFER_SIZE => agg' = "done"
  PROVE  BlockSizes'
<1>t. /\ sink \in Seq(Seq(Nat)) /\ gather \in Seq(Nat) /\ Len(sink) \in Nat
      /\ Len(gather) \in Nat
  BY DEF FTypeOK
<1>n. CHUNK_SIZE \in Nat \ {0} /\ BUFFER_SIZE \in Nat \ {0} BY StreamNumbers
<1>0. sink \o blocks = sink BY <1>t, ConcatEmptySeq
<1>1. /\ Len(gather) < BUFFER_SIZE + CHUNK_SIZE
      /\ \A i \in 1..Len(sink) : /\ Len(sink[i]) \in 1..BUFFER_SIZE + CHUNK_SIZE - 1
                                 /\ ~ Len(sink[i]) < BUFFER_SIZE
  BY <1>0 DEF BlockSizes
<1> DEFINE v == Append(sink, gather)
<1>2. (sink \o blocks)' = v
  <2>1. sink \o <<gather>> = v BY <1>t, AppendIsConcat
  <2> QED BY <2>1
<1>3. /\ Len(v) = Len(sink) + 1 /\ v[Len(sink) + 1] = gather
      /\ \A i \in 1..Len(sink) : v[i] = sink[i]
  BY <1>t, AppendProperties
<1> HIDE DEF v
<1>4. ASSUME NEW i \in 1..Len(v)
      PROVE  /\ Len(v[i]) \in 1..BUFFER_SIZE + CHUNK_SIZE - 1
             /\ Len(v[i]) < BUFFER_SIZE => i = Len(v) /\ agg' = "done"
  <2>1. CASE i = Len(sink) + 1
    <3>1. v[i] = gather BY <1>t, <1>3, <2>1
    <3>2. Len(gather) \in 1..BUFFER_SIZE + CHUNK_SIZE - 1 BY <1>t, <1>n, <1>1
    <3> QED BY <1>3, <2>1, <3>1, <3>2
  <2>2. CASE i # Len(sink) + 1
    <3>1. i \in 1..Len(sink)
      <4>1. i \in 1..Len(sink) + 1 BY <1>3
      <4> QED BY <1>t, <2>2, <4>1
    <3> QED BY <1>1, <1>3, <3>1
  <2> QED BY <2>1, <2>2
<1>5. Len(gather') < BUFFER_SIZE + CHUNK_SIZE
  <2>1. Len(<<>>) = 0 OBVIOUS
  <2> QED BY <1>n, <2>1
<1> QED BY <1>2, <1>4, <1>5 DEF BlockSizes

LEMMA FNextBlocks ==
  FTypeOK /\ Ends /\ Parts /\ BlockSizes /\ [FNext]_fvars => BlockSizes'
<1> SUFFICES ASSUME FTypeOK, Ends, Parts, BlockSizes, [FNext]_fvars, kind' = "file"
             PROVE  BlockSizes'
  BY DEF BlockSizes
<1> USE DEF recvVars, sendVars
<1>k. kind = "file"
  BY DEF FNext, Sender, Receiver, Buffering, SendPiece, EndOfData, TakePiece, SendChunk,
         SendRest, PassOn, ReceiveString, Gather, SendBlock, SendLeftover, Receive, fvars
<1>t. /\ down \in Seq(Seq(Nat)) /\ sink \in Seq(Seq(Nat)) /\ blocks \in Seq(Seq(Nat))
      /\ gather \in Seq(Nat) /\ Len(gather) \in Nat /\ agg \in {"on", "done"}
  BY DEF FTypeOK
<1>n. CHUNK_SIZE \in Nat \ {0} /\ BUFFER_SIZE \in Nat \ {0} BY StreamNumbers
<1>u. CASE UNCHANGED <<gather, blocks, agg, sink>> BY <1>k, <1>u DEF BlockSizes
<1>1. CASE Gather
  <2>1. Head(down) = down[1] /\ 1 \in 1..Len(down) /\ Head(down) \in Seq(Nat)
    BY <1>1, <1>t, Behind, HeadTailProperties DEF Gather
  <2>2. Len(Head(down)) \in 1..CHUNK_SIZE BY <2>1 DEF Parts
  <2>3. Len(gather') = Len(gather) + Len(Head(down))
    BY <1>1, <1>t, <2>1, ConcatProperties DEF Gather
  <2>4. Len(gather') < BUFFER_SIZE + CHUNK_SIZE
    BY <1>1, <1>t, <1>n, <2>2, <2>3 DEF Gather, Full
  <2> QED BY <1>1, <1>k, <2>4 DEF Gather, BlockSizes
<1>2. CASE SendBlock
  <2>1. Len(gather) # 0 /\ ~ Len(gather) < BUFFER_SIZE BY <1>2, <1>t, <1>n DEF SendBlock, Full
  <2> QED BY <1>2, <1>k, <2>1, OneMore DEF SendBlock, Cleared
<1>3. CASE SendLeftover
  <2>1. CASE gather = <<>>
    <3>1. /\ blocks' = <<>> /\ blocks = <<>> /\ gather' = <<>> /\ sink' = sink /\ agg = "on"
      BY <1>3, <2>1 DEF SendLeftover, Leftover
    <3>2. (sink \o blocks)' = sink \o blocks BY <3>1
    <3> QED BY <1>k, <2>1, <3>1, <3>2 DEF BlockSizes
  <2>2. CASE gather # <<>>
    <3>1. Len(gather) # 0 BY <1>t, <2>2, EmptySeq
    <3> QED BY <1>3, <1>k, <2>2, <3>1, OneMore DEF SendLeftover, Leftover
  <2> QED BY <2>1, <2>2
<1>4. CASE Receive
  <2>1. (sink \o blocks)' = sink \o blocks
    <3>1. sink \o blocks \in Seq(Seq(Nat)) BY <1>t, ConcatProperties
    <3>2. (sink \o blocks) \o <<>> = sink \o blocks BY <3>1, ConcatEmptySeq
    <3> QED BY <1>4, <3>2 DEF Receive
  <2> QED BY <1>4, <1>k, <2>1 DEF Receive, BlockSizes
<1> QED BY <1>u, <1>1, <1>2, <1>3, <1>4, <1>k
        DEF FNext, Sender, Receiver, Buffering, SendPiece, EndOfData, TakePiece, SendChunk,
            SendRest, PassOn, ReceiveString, fvars

(* Sizes for every instance: no message of the sender is empty or too long *)
(* and only the last of a file is short (process_in_chunks of peer.rs);    *)
(* buffer_receiver hands over blocks of at least BUFFER_SIZE, the last one *)
(* apart, and never holds BUFFER_SIZE + CHUNK_SIZE bytes (bytes.rs).       *)
THEOREM SizesKept == FSpec => []Sizes
<1> DEFINE I == FTypeOK /\ Ends /\ Parts /\ Sizes
<1>1. FInit => I BY FInitType, FInitEnds, FInitSizes
<1>2. I /\ [FNext]_fvars => I'
  BY FNextType, FNextEnds, FNextParts, FNextMessages, FNextBlocks DEF Sizes
<1>3. I => Sizes OBVIOUS
<1> QED BY <1>1, <1>2, <1>3, PTL DEF FSpec

-----------------------------------------------------------------------------
(* FileStream implements ByteStream.                                       *)

(* x begins with a.                                                        *)
Begins(x, a) == Len(a) <= Len(x) /\ \A i \in 1..Len(a) : x[i] = a[i]

LEMMA BeginsConcat ==
  ASSUME NEW S, NEW x \in Seq(S), NEW a \in Seq(S), NEW z \in Seq(S), Begins(x, a)
  PROVE  x \o z \in Seq(S) /\ Begins(x \o z, a)
<1>1. /\ x \o z \in Seq(S) /\ Len(x \o z) = Len(x) + Len(z)
      /\ \A i \in 1..Len(x) + Len(z) : (x \o z)[i] = IF i <= Len(x) THEN x[i] ELSE z[i - Len(x)]
  BY ConcatProperties
<1>2. Len(x) \in Nat /\ Len(a) \in Nat /\ Len(z) \in Nat OBVIOUS
<1>3. Len(a) <= Len(x) /\ \A i \in 1..Len(a) : x[i] = a[i] BY DEF Begins
<1>4. Len(a) <= Len(x \o z) BY <1>1, <1>2, <1>3
<1>5. ASSUME NEW i \in 1..Len(a) PROVE (x \o z)[i] = a[i]
  <2>1. i \in 1..Len(x) + Len(z) /\ i <= Len(x) BY <1>2, <1>3
  <2> QED BY <1>1, <1>3, <2>1
<1> QED BY <1>1, <1>4, <1>5 DEF Begins

(* What the app has read: bytes 1, 2, and so on.                           *)
LEMMA ReadIs ==
  ASSUME FTypeOK
  PROVE  /\ pos \in Nat /\ size \in Nat /\ pos <= size
         /\ SubSeq(Data, 1, pos) \in Seq(Byte) /\ Len(SubSeq(Data, 1, pos)) = pos
         /\ \A i \in 1..pos : SubSeq(Data, 1, pos)[i] = i
<1>0. pos \in Nat /\ size \in Nat /\ pos <= size /\ 0 \in Nat /\ 0 <= pos /\ pos - 0 = pos
  BY StreamNumbers DEF FTypeOK
<1>d. Data \in Seq(Nat) /\ Len(Data) = size /\ \A i \in 1..size : Data[i] = i BY DataIs
<1> DEFINE k == SubSeq(Data, 0 + 1, pos)
           r == SubSeq(Data, 1, pos)
<1>1. k \in Seq(Nat) /\ Len(k) = pos - 0 /\ \A i \in 1..pos - 0 : k[i] = Data[0 + i]
  BY <1>0, <1>d, PieceType
<1>2. 0 + 1 = 1 OBVIOUS
<1>3. k = r BY <1>2, Zenon
<1> HIDE DEF k, r
<1>4. \A i \in 1..pos : r[i] = i
  <2> SUFFICES ASSUME NEW i \in 1..pos PROVE r[i] = i OBVIOUS
  <2>1. i \in 1..size /\ 0 + i = i /\ i \in 1..pos - 0 BY <1>0
  <2> QED BY <1>1, <1>3, <1>d, <2>1
<1>5. r \in Seq(Byte) /\ Len(r) = pos BY <1>0, <1>1, <1>3 DEF Byte
<1> QED BY <1>0, <1>4, <1>5 DEF r

(* The receiving app has the first bytes of what the sending one has read, *)
(* and all of them when it is told the end.                                *)
Got == /\ Bytes(sink) \in Seq(Byte) /\ Len(Bytes(sink)) \in 0..pos
       /\ \A i \in 1..Len(Bytes(sink)) : Bytes(sink)[i] = i
       /\ Over => Len(Bytes(sink)) = size

LEMMA GotFirst ==
  ASSUME FTypeOK, InOrder
  PROVE  /\ Bytes(sink) \in Seq(Byte) /\ Len(Bytes(sink)) \in 0..pos
         /\ \A i \in 1..Len(Bytes(sink)) : Bytes(sink)[i] = i
<1> DEFINE a == Bytes(sink)
           b == Bytes(blocks)
           c == gather
           d == Bytes(down)
           e == OnWire
           f == buffer
           g == Bytes(up)
           r == SubSeq(Data, 1, pos)
<1>t. /\ a \in Seq(Byte) /\ b \in Seq(Byte) /\ c \in Seq(Byte) /\ d \in Seq(Byte)
      /\ e \in Seq(Byte) /\ f \in Seq(Byte) /\ g \in Seq(Byte)
  BY Places
<1>r. r = a \o b \o c \o d \o e \o f \o g BY DEF InOrder
<1>p. pos \in Nat /\ Len(r) = pos /\ \A i \in 1..pos : r[i] = i BY ReadIs
<1> HIDE DEF a, b, c, d, e, f, g, r
<1>1. Len(a) \in Nat /\ Begins(a, a) BY <1>t DEF Begins
<1>2. a \o b \in Seq(Byte) /\ Begins(a \o b, a) BY <1>t, <1>1, BeginsConcat
<1>3. a \o b \o c \in Seq(Byte) /\ Begins(a \o b \o c, a) BY <1>t, <1>2, BeginsConcat
<1>4. a \o b \o c \o d \in Seq(Byte) /\ Begins(a \o b \o c \o d, a)
  BY <1>t, <1>3, BeginsConcat
<1>5. a \o b \o c \o d \o e \in Seq(Byte) /\ Begins(a \o b \o c \o d \o e, a)
  BY <1>t, <1>4, BeginsConcat
<1>6. a \o b \o c \o d \o e \o f \in Seq(Byte) /\ Begins(a \o b \o c \o d \o e \o f, a)
  BY <1>t, <1>5, BeginsConcat
<1>7. Begins(r, a) BY <1>t, <1>6, <1>r, BeginsConcat
<1>8. Len(a) \in 0..pos /\ \A i \in 1..Len(a) : a[i] = i
  <2>1. Len(a) <= pos BY <1>7, <1>p DEF Begins
  <2>2. ASSUME NEW i \in 1..Len(a) PROVE a[i] = i
    <3>1. i \in 1..pos BY <1>1, <1>p, <2>1
    <3> QED BY <1>7, <1>p, <3>1 DEF Begins
  <2> QED BY <1>1, <1>p, <2>1, <2>2
<1> QED BY <1>t, <1>8 DEF a

(* The end of the stream comes after all of the data.                      *)
LEMMA OverIsAll ==
  ASSUME FTypeOK, Ends, InOrder, Over
  PROVE  Len(Bytes(sink)) = size
<1>1. /\ blocks = <<>> /\ gather = <<>> /\ down = <<>> /\ loop = "done"
  <2>1. kind \in {"file", "string"} BY DEF FTypeOK
  <2>2. CASE kind = "file" BY <2>2 DEF Over, Ends
  <2>3. CASE kind = "string" BY <2>3 DEF Over, Ends
  <2> QED BY <2>1, <2>2, <2>3
<1>2. wire = <<>> /\ buffer = <<>> /\ up = <<>> /\ pos = size BY <1>1 DEF Ends
<1>3. Bytes(<<>>) = <<>> BY FlattenEmpty DEF Bytes
<1>4. OnWire = <<>>
  <2>1. wire \in Seq(Msg) /\ Len(wire) = 0 BY <1>2, Places
  <2>2. Payload(wire) \in Seq(Seq(Nat)) /\ Len(Payload(wire)) = 0 BY <2>1, PayloadType
  <2>3. Payload(wire) = <<>> BY <2>2, EmptySeq
  <2> QED BY <2>3, Places, FlattenEmpty
<1> DEFINE a == Bytes(sink)
<1>5. a \in Seq(Byte) BY Places
<1>6. SubSeq(Data, 1, pos) = a \o <<>> \o <<>> \o <<>> \o <<>> \o <<>> \o <<>>
  BY <1>1, <1>2, <1>3, <1>4 DEF InOrder
<1>7. Len(SubSeq(Data, 1, pos)) = pos BY ReadIs
<1> HIDE DEF a
<1>8. a \o <<>> = a BY <1>5, ConcatEmptySeq
<1>9. SubSeq(Data, 1, pos) = a BY <1>6, <1>8
<1> QED BY <1>2, <1>7, <1>9 DEF a

LEMMA GotIs == FTypeOK /\ Ends /\ InOrder => Got
BY GotFirst, OverIsAll DEF Got

(* Two beginnings of the data: the longer one goes on where the other ends.*)
LEMMA GoesOn ==
  ASSUME NEW s \in Seq(Byte), NEW t \in Seq(Byte), Len(s) <= Len(t),
         \A i \in 1..Len(s) : s[i] = i, \A i \in 1..Len(t) : t[i] = i
  PROVE  t = s \o [i \in 1..Len(t) - Len(s) |-> Len(s) + i]
<1> DEFINE n == Len(t) - Len(s)
           l == Len(s)
           f == [i \in 1..n |-> l + i]
<1>1. l \in Nat /\ n \in Nat /\ Len(t) = l + n OBVIOUS
<1>2. f \in Seq(Byte) /\ Len(f) = n /\ \A i \in 1..n : f[i] = l + i
  <2>1. f \in [1..n -> Nat] BY <1>1
  <2> HIDE DEF n, l
  <2> QED BY <1>1, <2>1 DEF Byte
<1> HIDE DEF n, f
<1>3. /\ s \o f \in Seq(Byte) /\ Len(s \o f) = l + n
      /\ \A i \in 1..l + n : (s \o f)[i] = IF i <= l THEN s[i] ELSE f[i - l]
  BY <1>2, ConcatProperties
<1>4. \A i \in 1..l + n : (s \o f)[i] = t[i]
  <2> SUFFICES ASSUME NEW i \in 1..l + n PROVE (s \o f)[i] = t[i] OBVIOUS
  <2>0. t[i] = i BY <1>1
  <2>1. CASE i <= l
    <3>1. i \in 1..l BY <1>1, <2>1
    <3> QED BY <1>3, <2>0, <2>1, <3>1
  <2>2. CASE ~ i <= l
    <3>1. i - l \in 1..n /\ l + (i - l) = i BY <1>1, <2>2
    <3> QED BY <1>2, <1>3, <2>0, <2>2, <3>1
  <2> QED BY <2>1, <2>2
<1>5. s \o f = t BY <1>1, <1>3, <1>4, SeqEqual
<1> QED BY <1>5 DEF n, f

(* A step by which the receiving app gets bytes, or the end.               *)
LEMMA DeliverStep ==
  ASSUME FTypeOK, Got, Got', ~ Over, UNCHANGED <<size, pos>>,
         Len(Bytes(sink)) <= Len(Bytes(sink'))
  PROVE  Stream!Deliver
<1> DEFINE s == Bytes(sink)
           t == Bytes(sink')
<1>1. s \in Seq(Byte) /\ Len(s) \in 0..pos /\ \A i \in 1..Len(s) : s[i] = i BY DEF Got
<1>2. t \in Seq(Byte) /\ Len(t) \in 0..pos' /\ \A i \in 1..Len(t) : t[i] = i
  BY DEF Got, Bytes
<1>3. pos \in Nat /\ pos' = pos BY ReadIs
<1>4. Over' => Len(t) = size' BY DEF Got, Bytes
<1>5. t = s \o [i \in 1..Len(t) - Len(s) |-> Len(s) + i]
  <2> HIDE DEF s, t
  <2> QED BY <1>1, <1>2, GoesOn DEF s, t
<1>6. Len(t) - Len(s) \in 0..pos - Len(s) BY <1>1, <1>2, <1>3
<1>7. \E n \in 0..pos - Len(s) : t = s \o Stream!Following(n)
  <2>1. Stream!Following(Len(t) - Len(s)) = [i \in 1..Len(t) - Len(s) |-> Len(s) + i]
    BY DEF Stream!Following
  <2> HIDE DEF s, t
  <2> QED BY <1>5, <1>6, <2>1
<1>8. Over' \in {FALSE, Len(t) = size}
  <2>1. Over' \in BOOLEAN BY DEF Over
  <2>2. CASE Over' = FALSE BY <2>2
  <2>3. CASE Over' = TRUE
    <3>1. (Len(t) = size) = TRUE BY <1>4, <2>3
    <3> QED BY <2>3, <3>1
  <2> QED BY <2>1, <2>2, <2>3
<1> QED BY <1>7, <1>8 DEF Stream!Deliver, Bytes

LEMMA StreamInit == FInit => Stream!Init
<1> SUFFICES ASSUME FInit PROVE Stream!Init OBVIOUS
<1>1. size \in Nat BY StreamNumbers DEF FInit
<1>2. Bytes(sink) = <<>> BY FlattenEmpty DEF FInit, Bytes
<1>3. Over = FALSE BY DEF FInit, Over
<1> QED BY <1>1, <1>2, <1>3 DEF FInit, Stream!Init

LEMMA StreamStep ==
  FTypeOK /\ FTypeOK' /\ Ends /\ Got /\ Got' /\ [FNext]_fvars
    => [Stream!Read \/ Stream!Deliver]_<<size, pos, Bytes(sink), Over>>
<1> SUFFICES ASSUME FTypeOK, FTypeOK', Ends, Got, Got', [FNext]_fvars
             PROVE  \/ Stream!Read \/ Stream!Deliver
                    \/ UNCHANGED <<size, pos, Bytes(sink), Over>>
  OBVIOUS
<1> USE DEF recvVars, sendVars
<1>t. sink \in Seq(Seq(Nat)) /\ blocks \in Seq(Seq(Nat)) /\ kind \in {"file", "string"}
  BY DEF FTypeOK
<1>l. Bytes(sink) \in Seq(Byte) /\ Bytes(blocks) \in Seq(Byte) BY Places
<1>n. Len(Bytes(sink)) \in Nat BY <1>l
<1>b. UNCHANGED sink => Bytes(sink)' = Bytes(sink) BY DEF Bytes
<1>1. ASSUME NEW n \in 0..MaxSize, SendPiece(n) PROVE Stream!Read
  <2>1. pos' \in pos..size
    <3>1. pos \in Nat /\ size \in Nat /\ n \in Nat BY StreamNumbers DEF FTypeOK
    <3> QED BY <1>1, <3>1 DEF SendPiece
  <2>2. Over' = Over BY <1>1 DEF SendPiece, Over
  <2> QED BY <1>1, <1>b, <2>1, <2>2 DEF SendPiece, Stream!Read
<1>2. CASE EndOfData \/ TakePiece \/ SendChunk \/ SendRest \/ Gather \/ UNCHANGED fvars
  <2>1. UNCHANGED <<size, pos, sink, kind, agg, blocks, loop>>
    BY <1>2 DEF EndOfData, TakePiece, SendChunk, SendRest, Gather, fvars
  <2>2. Over' = Over BY <2>1 DEF Over
  <2> QED BY <1>b, <2>1, <2>2
<1>3. CASE PassOn
  <2>1. Over' = Over BY <1>3 DEF PassOn, Over
  <2> QED BY <1>3, <1>b, <2>1 DEF PassOn
<1>4. CASE SendBlock
  <2>1. Over' = Over BY <1>4 DEF SendBlock, Over
  <2> QED BY <1>4, <1>b, <2>1 DEF SendBlock
<1>5. CASE ReceiveString
  <2>1. CASE Head(wire).end
    <3>1. ~ Over /\ sink = <<>> /\ UNCHANGED <<size, pos>>
      BY <1>5 DEF ReceiveString, Over, Ends
    <3>2. Len(Bytes(sink)) = 0 BY <3>1, FlattenEmpty DEF Bytes
    <3>3. Len(Bytes(sink')) \in Nat
      <4>1. Bytes(sink') \in Seq(Nat) BY FlattenType DEF FTypeOK, Bytes
      <4> QED BY <4>1
    <3>4. Len(Bytes(sink)) <= Len(Bytes(sink')) BY <3>2, <3>3
    <3> QED BY <3>1, <3>4, DeliverStep
  <2>2. CASE ~ Head(wire).end
    <3>1. Over' = Over BY <1>5, <2>2 DEF ReceiveString, Over
    <3> QED BY <1>5, <1>b, <2>2, <3>1 DEF ReceiveString
  <2> QED BY <2>1, <2>2
<1>6. CASE SendLeftover
  <2>1. ~ Over /\ UNCHANGED <<size, pos, sink>> BY <1>6 DEF SendLeftover, Over
  <2>2. Len(Bytes(sink)) <= Len(Bytes(sink')) BY <1>n, <2>1
  <2> QED BY <2>1, <2>2, DeliverStep
<1>7. CASE Receive
  <2>1. ~ Over /\ UNCHANGED <<size, pos>> BY <1>7, <1>t DEF Receive, Over, Ends
  <2>2. Bytes(sink') = Bytes(sink) \o Bytes(blocks)
    BY <1>7, <1>t, FlattenConcat DEF Receive, Bytes
  <2>3. Len(Bytes(sink) \o Bytes(blocks)) = Len(Bytes(sink)) + Len(Bytes(blocks))
    BY <1>l, ConcatProperties
  <2>4. Len(Bytes(blocks)) \in Nat BY <1>l
  <2>5. Len(Bytes(sink)) <= Len(Bytes(sink')) BY <1>n, <2>2, <2>3, <2>4
  <2> QED BY <2>1, <2>5, DeliverStep
<1> QED BY <1>1, <1>2, <1>3, <1>4, <1>5, <1>6, <1>7 DEF FNext, Sender, Receiver, Buffering

(* Delivers for every instance: chunks, channels and blocks implement the  *)
(* plain stream of bytes of ByteStream.  The receiving app gets the next   *)
(* bytes of what the sending app has read and nothing else, and learns of  *)
(* the end of a file (buffer_receiver dropping its channel, bytes.rs) or   *)
(* of a string (receive_string_from_chunks returning, peer.rs) only once   *)
(* it has all of the data.                                                 *)
THEOREM StreamDelivered == FSpec => Delivers
<1> DEFINE I == FTypeOK /\ Ends /\ InOrder
<1>1. FInit => I BY FInitType, FInitEnds, FInitInOrder
<1>2. I /\ [FNext]_fvars => I' BY FNextType, FNextEnds, FNextInOrder
<1>g. I => FTypeOK /\ Ends /\ Got BY GotIs
<1>3. FTypeOK /\ FTypeOK' /\ Ends /\ Got /\ Got' /\ [FNext]_fvars
        => [Stream!Read \/ Stream!Deliver]_<<size, pos, Bytes(sink), Over>>
  BY StreamStep
<1> HIDE DEF I
<1> QED BY <1>1, <1>2, <1>g, <1>3, StreamInit, PTL DEF FSpec, Delivers, Stream!Spec
=============================================================================
