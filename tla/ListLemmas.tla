----------------------------- MODULE ListLemmas -----------------------------
(***************************************************************************)
(* Facts about the lists of the models that several proofs need.           *)
(*                                                                         *)
(* Sequences: what RemoveAt, InsertAt, Append and Tail leave, which model  *)
(* the containers of the code; and the least element of a set of numbers.  *)
(*                                                                         *)
(* Interval lists: what checkRepetitive computes on a canonical list, for  *)
(* lists of any length over any range of numbers.  It answers by the set   *)
(* of numbers the list stands for, adds exactly the new number to that     *)
(* set, and leaves the list canonical.                                     *)
(***************************************************************************)
EXTENDS FrameRecorder, SequenceTheorems, WellFoundedInduction, TLAPS

-----------------------------------------------------------------------------
\* Sequences and numbers

\* Removing one element shortens a sequence by one and moves the rest up.
LEMMA RemoveAtProperties ==
    ASSUME NEW S, NEW s \in Seq(S), NEW i \in 1 .. Len(s)
    PROVE  /\ RemoveAt(s, i) \in Seq(S)
           /\ Len(RemoveAt(s, i)) = Len(s) - 1
           /\ \A j \in 1 .. Len(s) - 1 :
                 RemoveAt(s, i)[j] = IF j < i THEN s[j] ELSE s[j + 1]
<1> DEFINE a == SubSeq(s, 1, i - 1)
           b == SubSeq(s, i + 1, Len(s))
<1>0. Len(s) \in Nat /\ \A j \in 1 .. Len(s) : s[j] \in S
  BY ElementOfSeq, LenProperties
<1>1. a \in Seq(S) /\ Len(a) = i - 1 /\ \A j \in 1 .. i - 1 : a[j] = s[j]
  <2>1. \A j \in 1 .. i - 1 : s[j] \in S
    BY <1>0
  <2>2. QED
    BY <1>0, <2>1, SubSeqProperties
<1>2. b \in Seq(S) /\ Len(b) = Len(s) - i /\ \A j \in 1 .. Len(s) - i : b[j] = s[i + j]
  <2>1. \A j \in i + 1 .. Len(s) : s[j] \in S
    BY <1>0
  <2>2. /\ b \in Seq(S)
        /\ Len(b) = IF i + 1 <= Len(s) THEN Len(s) - (i + 1) + 1 ELSE 0
        /\ \A j \in 1 .. Len(s) - (i + 1) + 1 : b[j] = s[i + 1 + j - 1]
    BY <1>0, <2>1, SubSeqProperties
  <2>3. QED
    BY <1>0, <2>2
<1>3. RemoveAt(s, i) = a \o b
  BY DEF RemoveAt
<1> HIDE DEF a, b
<1>4. /\ a \o b \in Seq(S)
      /\ Len(a \o b) = Len(a) + Len(b)
      /\ \A j \in 1 .. Len(a) + Len(b) :
            (a \o b)[j] = IF j <= Len(a) THEN a[j] ELSE b[j - Len(a)]
  BY <1>1, <1>2, ConcatProperties
<1>5. QED
  BY <1>0, <1>1, <1>2, <1>3, <1>4

\* Inserting one element lengthens a sequence by one and moves the rest down.
LEMMA InsertAtProperties ==
    ASSUME NEW S, NEW s \in Seq(S), NEW i \in 1 .. Len(s) + 1, NEW e \in S
    PROVE  /\ InsertAt(s, i, e) \in Seq(S)
           /\ Len(InsertAt(s, i, e)) = Len(s) + 1
           /\ \A j \in 1 .. Len(s) + 1 :
                 InsertAt(s, i, e)[j] =
                     IF j < i THEN s[j] ELSE IF j = i THEN e ELSE s[j - 1]
<1> DEFINE a == SubSeq(s, 1, i - 1)
           b == SubSeq(s, i, Len(s))
           c == a \o <<e>>
<1>0. Len(s) \in Nat /\ \A j \in 1 .. Len(s) : s[j] \in S
  BY ElementOfSeq, LenProperties
<1>1. a \in Seq(S) /\ Len(a) = i - 1 /\ \A j \in 1 .. i - 1 : a[j] = s[j]
  <2>1. \A j \in 1 .. i - 1 : s[j] \in S
    BY <1>0
  <2>2. QED
    BY <1>0, <2>1, SubSeqProperties
<1>2. /\ b \in Seq(S)
      /\ Len(b) = Len(s) - i + 1
      /\ \A j \in 1 .. Len(s) - i + 1 : b[j] = s[i + j - 1]
  <2>1. \A j \in i .. Len(s) : s[j] \in S
    BY <1>0
  <2>2. /\ b \in Seq(S)
        /\ Len(b) = IF i <= Len(s) THEN Len(s) - i + 1 ELSE 0
        /\ \A j \in 1 .. Len(s) - i + 1 : b[j] = s[i + j - 1]
    BY <1>0, <2>1, SubSeqProperties
  <2>3. QED
    BY <1>0, <2>2
<1>3. InsertAt(s, i, e) = c \o b
  BY DEF InsertAt
<1>4. <<e>> \in Seq(S) /\ Len(<<e>>) = 1 /\ <<e>>[1] = e
  OBVIOUS
<1> HIDE DEF a, b
<1>5. /\ c \in Seq(S)
      /\ Len(c) = i
      /\ \A j \in 1 .. i : c[j] = IF j < i THEN a[j] ELSE e
  BY <1>0, <1>1, <1>4, ConcatProperties
<1> HIDE DEF c
<1>6. /\ c \o b \in Seq(S)
      /\ Len(c \o b) = Len(c) + Len(b)
      /\ \A j \in 1 .. Len(c) + Len(b) :
            (c \o b)[j] = IF j <= Len(c) THEN c[j] ELSE b[j - Len(c)]
  BY <1>2, <1>5, ConcatProperties
<1>7. QED
  BY <1>0, <1>1, <1>2, <1>3, <1>5, <1>6

\* The elements of a sequence and of the sequence with one more.
LEMMA AppendElements ==
    ASSUME NEW S, NEW ps \in Seq(S), NEW n \in S
    PROVE  /\ Append(ps, n) \in Seq(S) /\ Append(ps, n) # <<>>
           /\ ToSet(Append(ps, n)) = ToSet(ps) \cup {n}
           /\ n \notin ToSet(ps) /\ IsInjective(ps) => IsInjective(Append(ps, n))
  <1> DEFINE qs == Append(ps, n)
  <1>1. /\ qs \in Seq(S) /\ Len(ps) \in Nat /\ Len(qs) = Len(ps) + 1
        /\ \A i \in 1 .. Len(ps) : qs[i] = ps[i]
        /\ qs[Len(ps) + 1] = n
        /\ DOMAIN ps = 1 .. Len(ps) /\ DOMAIN qs = 1 .. Len(ps) + 1
    BY AppendProperties
  <1> HIDE DEF qs
  <1>2. qs # <<>>
    BY <1>1
  <1>3. ToSet(qs) = ToSet(ps) \cup {n}
    <2>1. ASSUME NEW e \in ToSet(qs) PROVE e \in ToSet(ps) \cup {n}
      <3>1. PICK i \in 1 .. Len(ps) + 1 : e = qs[i]
        BY <1>1 DEF ToSet
      <3>2. CASE i = Len(ps) + 1
        BY <1>1, <3>1, <3>2
      <3>3. CASE i \in 1 .. Len(ps)
        BY <1>1, <3>1, <3>3 DEF ToSet
      <3>4. QED
        BY <1>1, <3>2, <3>3
    <2>2. \A e \in ToSet(ps) : e \in ToSet(qs)
      BY <1>1 DEF ToSet
    <2>3. n \in ToSet(qs)
      BY <1>1 DEF ToSet
    <2>4. QED
      BY <2>1, <2>2, <2>3
  <1>4. ASSUME n \notin ToSet(ps), IsInjective(ps) PROVE IsInjective(qs)
    <2>1. \A i \in 1 .. Len(ps) : qs[i] # n
      BY <1>1, <1>4 DEF ToSet
    <2>2. ASSUME NEW i \in 1 .. Len(ps) + 1, NEW j \in 1 .. Len(ps) + 1, qs[i] = qs[j]
          PROVE  i = j
      <3>1. CASE i \in 1 .. Len(ps) /\ j \in 1 .. Len(ps)
        BY <1>1, <1>4, <2>2, <3>1 DEF IsInjective
      <3>2. CASE i = Len(ps) + 1 \/ j = Len(ps) + 1
        BY <1>1, <2>1, <2>2, <3>2
      <3>3. QED
        BY <1>1, <3>1, <3>2
    <2>3. QED
      BY <1>1, <2>2 DEF IsInjective
  <1>5. QED
    BY <1>1, <1>2, <1>3, <1>4 DEF qs

\* What was appended is known from the result, which is longer than the sequence.
LEMMA AppendIsOne ==
    ASSUME NEW S, NEW s \in Seq(S), NEW a \in S
    PROVE  Len(Append(s, a)) = Len(s) + 1 /\ \A b \in S : Append(s, b) = Append(s, a) => b = a
  <1>1. \A b \in S : Len(Append(s, b)) = Len(s) + 1 /\ Append(s, b)[Len(s) + 1] = b
    BY AppendProperties
  <1>2. QED
    BY <1>1

\* The sequence r is s with one element e left out: the order of the others is kept,
\* and no element occurs twice that did not before.
Thinned(r, s, e) ==
    /\ e \in ToSet(s) /\ Len(r) = Len(s) - 1
    /\ ToSet(r) \subseteq ToSet(s) /\ ToSet(s) \subseteq ToSet(r) \cup {e}
    /\ IsInjective(s) => IsInjective(r) /\ e \notin ToSet(r)
    /\ \A j, k \in DOMAIN r : j < k =>
          \E l, m \in DOMAIN s : l < m /\ r[j] = s[l] /\ r[k] = s[m]

\* RemoveAt leaves one element out.
LEMMA RemoveAtThins ==
    ASSUME NEW S, NEW s \in Seq(S), NEW i \in DOMAIN s
    PROVE  RemoveAt(s, i) \in Seq(S) /\ Thinned(RemoveAt(s, i), s, s[i])
  <1> DEFINE r == RemoveAt(s, i)
             from(j) == IF j < i THEN j ELSE j + 1
  <1>1. /\ Len(s) \in Nat /\ DOMAIN s = 1 .. Len(s) /\ i \in 1 .. Len(s)
        /\ r \in Seq(S) /\ Len(r) = Len(s) - 1 /\ DOMAIN r = 1 .. Len(s) - 1
        /\ \A j \in 1 .. Len(s) - 1 : r[j] = IF j < i THEN s[j] ELSE s[j + 1]
    BY RemoveAtProperties, LenProperties
  <1> HIDE DEF r
  <1>2. /\ \A j \in DOMAIN r : from(j) \in DOMAIN s /\ r[j] = s[from(j)] /\ from(j) # i
        /\ \A j, k \in DOMAIN r : j < k => from(j) < from(k)
        /\ \A j, k \in DOMAIN r : from(j) = from(k) => j = k
    BY <1>1
  <1>3. ASSUME NEW k \in DOMAIN s, k # i
        PROVE  \E j \in DOMAIN r : r[j] = s[k]
    <2>1. CASE k < i
      BY <1>1, <2>1
    <2>2. CASE k > i
      <3>1. k - 1 \in DOMAIN r /\ ~(k - 1 < i) /\ (k - 1) + 1 = k
        BY <1>1, <2>2
      <3>2. QED
        BY <1>1, <3>1
    <2>3. QED
      BY <1>1, <1>3, <2>1, <2>2
  <1> HIDE DEF from
  <1>4. s[i] \in ToSet(s) /\ ToSet(r) \subseteq ToSet(s)
    BY <1>1, <1>2 DEF ToSet
  <1>5. ToSet(s) \subseteq ToSet(r) \cup {s[i]}
    BY <1>3 DEF ToSet
  <1>6. IsInjective(s) => IsInjective(r) /\ s[i] \notin ToSet(r)
    BY <1>1, <1>2 DEF IsInjective, ToSet
  <1>7. \A j, k \in DOMAIN r : j < k =>
           \E l, m \in DOMAIN s : l < m /\ r[j] = s[l] /\ r[k] = s[m]
    BY <1>2
  <1>8. QED
    BY <1>1, <1>4, <1>5, <1>6, <1>7 DEF Thinned, r

\* So does Tail: the first.
LEMMA TailThins ==
    ASSUME NEW S, NEW s \in Seq(S), s # <<>>
    PROVE  Head(s) \in S /\ Tail(s) \in Seq(S) /\ Thinned(Tail(s), s, Head(s))
  <1>1. /\ Len(s) \in Nat /\ DOMAIN s = 1 .. Len(s) /\ Len(s) # 0 /\ Head(s) = s[1]
        /\ Head(s) \in S /\ Tail(s) \in Seq(S) /\ Len(Tail(s)) = Len(s) - 1
        /\ \A i \in 1 .. Len(Tail(s)) : Tail(s)[i] = s[i + 1]
    BY HeadTailProperties, LenProperties, EmptySeq
  <1>2. 1 \in DOMAIN s
    BY <1>1
  <1>3. /\ RemoveAt(s, 1) \in Seq(S) /\ Len(RemoveAt(s, 1)) = Len(s) - 1
        /\ \A j \in 1 .. Len(s) - 1 : RemoveAt(s, 1)[j] = IF j < 1 THEN s[j] ELSE s[j + 1]
    BY <1>1, <1>2, RemoveAtProperties
  <1>4. \A j \in 1 .. Len(Tail(s)) : Tail(s)[j] = RemoveAt(s, 1)[j]
    BY <1>1, <1>3
  <1>5. Tail(s) = RemoveAt(s, 1)
    BY <1>1, <1>3, <1>4, SeqEqual
  <1>6. QED
    BY <1>1, <1>2, <1>5, RemoveAtThins

\* What Tail leaves came after the head.
LEMMA TailAfterHead ==
    ASSUME NEW S, NEW s \in Seq(S), s # <<>>
    PROVE  \A e \in ToSet(Tail(s)) : \E l, m \in DOMAIN s : l < m /\ s[l] = Head(s) /\ s[m] = e
  <1>1. /\ Len(s) \in Nat /\ DOMAIN s = 1 .. Len(s) /\ Len(s) # 0 /\ Head(s) = s[1]
        /\ DOMAIN Tail(s) = 1 .. Len(s) - 1
        /\ \A i \in 1 .. Len(s) - 1 : Tail(s)[i] = s[i + 1]
    BY HeadTailProperties, LenProperties, EmptySeq
  <1>2. ASSUME NEW i \in DOMAIN Tail(s)
        PROVE  1 \in DOMAIN s /\ i + 1 \in DOMAIN s /\ 1 < i + 1 /\ Tail(s)[i] = s[i + 1]
    BY <1>1
  <1>3. QED
    BY <1>1, <1>2 DEF ToSet

\* Min of the community modules is the least element.
LEMMA MinIsLeast ==
    ASSUME NEW S \in SUBSET Nat, S # {}
    PROVE  Min(S) \in S /\ \A n \in S : Min(S) <= n
  <1> DEFINE less == OpToRel(<, Nat)
  <1>1. IsWellFoundedOn(less, Nat)
    BY NatLessThanWellFounded
  <1>2. \A m, n \in Nat : <<n, m>> \in less <=> n < m
    BY DEF OpToRel
  <1> HIDE DEF less
  <1>3. PICK m \in S : \A n \in S : <<n, m>> \notin less
    BY <1>1, WFMin
  <1>4. \A n \in S : m <= n
    <2>1. ASSUME NEW n \in S PROVE m <= n
      <3>1. m \in Nat /\ n \in Nat /\ ~(n < m)
        BY <1>2, <1>3
      <3>2. QED
        BY <3>1
    <2>2. QED
      BY <2>1
  <1>5. QED
    BY <1>4 DEF Min

-----------------------------------------------------------------------------
\* Interval lists

\* EntriesTo with numbers up to M.
EntriesTo(M) == [lower : 0 .. M, upper : 0 .. M]

\* Proper intervals, in increasing order, with a gap between neighbours.
InOrder(fr) ==
    /\ \A i \in DOMAIN fr : fr[i].lower <= fr[i].upper
    /\ \A i, j \in DOMAIN fr : i < j => fr[i].upper + 1 < fr[j].lower

-----------------------------------------------------------------------------
\* The entry at which the walk stops: it left all before it behind.
LEMMA StopProperties ==
    ASSUME NEW M \in Nat, NEW fr \in Seq(EntriesTo(M)), fr # <<>>, NEW s \in 0 .. M
    PROVE  /\ Stop(fr, s) \in DOMAIN fr
           /\ ~WalksOn(fr, Stop(fr, s), s)
           /\ \A j \in DOMAIN fr : j < Stop(fr, s) => WalksOn(fr, j, s)
  <1> DEFINE stops == {i \in DOMAIN fr : ~WalksOn(fr, i, s)}
  <1>1. Len(fr) \in stops /\ stops \in SUBSET Nat
    BY DEF WalksOn
  <1>2. Min(stops) \in stops /\ \A n \in stops : Min(stops) <= n
    BY <1>1, MinIsLeast
  <1>3. Stop(fr, s) = Min(stops)
    BY DEF Stop
  <1> HIDE DEF stops
  <1>4. \A j \in DOMAIN fr : j < Min(stops) => j \notin stops
    <2>1. ASSUME NEW j \in DOMAIN fr, j < Min(stops), j \in stops PROVE FALSE
      <3>1. Min(stops) <= j
        BY <1>2, <2>1
      <3>2. j \in Nat /\ Min(stops) \in Nat
        BY <1>1, <1>2, <2>1
      <3>3. QED
        BY <2>1, <3>1, <3>2
    <2>2. QED
      BY <2>1
  <1>5. QED
    BY <1>2, <1>3, <1>4 DEF stops

\* The list as numbers: entries are records of naturals.
LEMMA EntryTypes ==
    ASSUME NEW M \in Nat, NEW fr \in Seq(EntriesTo(M))
    PROVE  /\ Len(fr) \in Nat /\ DOMAIN fr = 1 .. Len(fr)
           /\ \A i \in DOMAIN fr : fr[i].lower \in 0 .. M /\ fr[i].upper \in 0 .. M
  <1>1. Len(fr) \in Nat /\ DOMAIN fr = 1 .. Len(fr)
    OBVIOUS
  <1>2. \A i \in 1 .. Len(fr) : fr[i] \in EntriesTo(M)
    BY ElementOfSeq
  <1>3. QED
    BY <1>1, <1>2 DEF EntriesTo

\* The walk stops at the only entry that can hold s; s lies above all before it,
\* with a gap, and below all after it.
LEMMA StopSeparates ==
    ASSUME NEW M \in Nat, NEW fr \in Seq(EntriesTo(M)), fr # <<>>, InOrder(fr), NEW s \in 0 .. M
    PROVE  LET i == Stop(fr, s)
           IN  /\ i \in DOMAIN fr
               /\ i # 1 => fr[i].lower <= s
               /\ \A j \in DOMAIN fr : j < i => fr[j].upper + 1 < s
               /\ \A j \in DOMAIN fr : i < j => s < fr[j].lower
  <1> DEFINE i == Stop(fr, s)
  <1>1. /\ i \in DOMAIN fr /\ ~WalksOn(fr, i, s)
        /\ \A j \in DOMAIN fr : j < i => WalksOn(fr, j, s)
    BY StopProperties
  <1> HIDE DEF i
  <1>2. ASSUME NEW j \in DOMAIN fr, j < i PROVE fr[j].upper + 1 < s
    BY <1>1, <1>2, EntryTypes DEF WalksOn
  <1>3. ASSUME NEW j \in DOMAIN fr, i < j PROVE s < fr[j].lower
    <2>1. /\ i + 1 \in DOMAIN fr /\ i < Len(fr) /\ i \in Nat /\ j \in Nat
          /\ s \in Nat /\ fr[i].upper \in Nat /\ fr[i + 1].lower \in Nat
          /\ fr[j].lower \in Nat /\ fr[i + 1].upper \in Nat
      BY <1>1, <1>3, EntryTypes
    <2>2. s < fr[i].upper + 2 \/ s < fr[i + 1].lower
      BY <1>1, <2>1 DEF WalksOn
    <2>3. fr[i].upper + 1 < fr[i + 1].lower /\ fr[i + 1].lower <= fr[i + 1].upper
      BY <1>1, <2>1 DEF InOrder
    <2>4. s < fr[i + 1].lower
      BY <2>1, <2>2, <2>3
    <2>5. CASE j = i + 1
      BY <2>4, <2>5
    <2>6. CASE j > i + 1
      <3>1. fr[i + 1].upper + 1 < fr[j].lower
        BY <2>1, <2>6, <1>3 DEF InOrder
      <3>2. QED
        BY <3>1, <2>1, <2>3, <2>4
    <2>7. QED
      BY <2>1, <2>5, <2>6, <1>3
  <1>4. ASSUME i # 1 PROVE fr[i].lower <= s
    <2>1. i - 1 \in DOMAIN fr /\ i - 1 < i /\ (i - 1) + 1 = i
      BY <1>1, <1>4, EntryTypes
    <2>2. WalksOn(fr, i - 1, s)
      BY <1>1, <2>1
    <2>3. fr[i].lower \in Nat
      BY <1>1, EntryTypes
    <2>4. QED
      BY <2>1, <2>2, <2>3 DEF WalksOn
  <1>5. QED
    BY <1>1, <1>2, <1>3, <1>4 DEF i

\* A number is in the list just when it is in the interval at which the walk stops.
LEMMA InListAtStop ==
    ASSUME NEW M \in Nat, NEW fr \in Seq(EntriesTo(M)), fr # <<>>, InOrder(fr), NEW s \in 0 .. M
    PROVE  s \in Numbers(fr) <=> s \in fr[Stop(fr, s)].lower .. fr[Stop(fr, s)].upper
  <1> DEFINE i == Stop(fr, s)
  <1>1. /\ i \in DOMAIN fr
        /\ i # 1 => fr[i].lower <= s
        /\ \A j \in DOMAIN fr : j < i => fr[j].upper + 1 < s
        /\ \A j \in DOMAIN fr : i < j => s < fr[j].lower
    BY StopSeparates
  <1> HIDE DEF i
  <1>2. ASSUME NEW j \in DOMAIN fr, s \in fr[j].lower .. fr[j].upper PROVE j = i
    <2>1. /\ i \in Nat /\ j \in Nat /\ fr[j].lower \in Nat /\ fr[j].upper \in Nat
      BY <1>1, EntryTypes
    <2>2. ~(j < i) /\ ~(i < j)
      BY <1>1, <1>2, <2>1
    <2>3. QED
      BY <2>1, <2>2
  <1>3. s \in Numbers(fr) <=> \E j \in DOMAIN fr : s \in fr[j].lower .. fr[j].upper
    BY DEF Numbers
  <1>4. QED
    BY <1>1, <1>2, <1>3 DEF i

\* checkRepetitive says no only to a number that is new and above one it knows.
LEMMA RepetitiveByNumbers ==
    ASSUME NEW M \in Nat, NEW fr \in Seq(EntriesTo(M)), fr # <<>>, InOrder(fr), NEW s \in 0 .. M
    PROVE  /\ s \in Numbers(fr) => Repetitive(fr, s)
           /\ ~Repetitive(fr, s) => \E n \in Numbers(fr) : n < s
           /\ Repetitive(fr, s) => s \in Numbers(fr) \/ \A n \in Numbers(fr) : s < n
  <1> DEFINE i == Stop(fr, s)
  <1>1. /\ i \in DOMAIN fr
        /\ i # 1 => fr[i].lower <= s
        /\ \A j \in DOMAIN fr : j < i => fr[j].upper + 1 < s
        /\ \A j \in DOMAIN fr : i < j => s < fr[j].lower
    BY StopSeparates
  <1>2. s \in Numbers(fr) <=> s \in fr[i].lower .. fr[i].upper
    BY InListAtStop
  <1>3. Repetitive(fr, s) <=> s <= fr[i].upper
    BY DEF Repetitive
  <1> HIDE DEF i
  <1>4. /\ fr[i].lower \in 0 .. M /\ fr[i].upper \in 0 .. M /\ fr[i].lower <= fr[i].upper
        /\ i \in Nat
    BY <1>1, EntryTypes DEF InOrder
  <1>5. s \in Numbers(fr) => Repetitive(fr, s)
    BY <1>2, <1>3, <1>4
  <1>6. fr[i].upper \in Numbers(fr)
    <2>1. fr[i].upper \in fr[i].lower .. fr[i].upper
      BY <1>4
    <2>2. QED
      BY <2>1, <1>1 DEF Numbers
  <1>7. ~Repetitive(fr, s) => \E n \in Numbers(fr) : n < s
    BY <1>3, <1>4, <1>6
  <1>8. ASSUME Repetitive(fr, s), s \notin Numbers(fr), NEW n \in Numbers(fr)
        PROVE  s < n
    <2>1. s < fr[i].lower /\ i = 1
      BY <1>1, <1>2, <1>3, <1>4, <1>8
    <2>2. PICK j \in DOMAIN fr : n \in fr[j].lower .. fr[j].upper
      BY DEF Numbers
    <2>3. j \in Nat /\ j >= 1 /\ fr[j].lower \in 0 .. M /\ fr[j].upper \in 0 .. M
      BY EntryTypes
    <2>4. s < fr[j].lower
      BY <2>1, <2>3, <1>1, <1>4
    <2>5. QED
      BY <2>2, <2>3, <2>4
  <1>9. QED
    BY <1>5, <1>7, <1>8

-----------------------------------------------------------------------------
\* What is known of the list, the entry i at which the walk stopped and the number s
\* when it is not repetitive.
FitsAfter(fr, i, s, M) ==
    /\ fr \in Seq(EntriesTo(M)) /\ InOrder(fr)
    /\ i \in DOMAIN fr /\ s \in 0 .. M
    /\ fr[i].upper < s
    /\ \A j \in DOMAIN fr : i < j => s < fr[j].lower

\* The list r is canonical and has the numbers of fr and s.
Extended(r, fr, s, M) ==
    /\ r \in Seq(EntriesTo(M)) /\ r # <<>> /\ InOrder(r)
    /\ Numbers(r) = Numbers(fr) \cup {s}

\* The interval at i grows by s at its upper end.
LEMMA GrowsUp ==
    ASSUME NEW M \in Nat, NEW fr, NEW i, NEW s, FitsAfter(fr, i, s, M),
           s = fr[i].upper + 1, \A j \in DOMAIN fr : i < j => s + 1 < fr[j].lower
    PROVE  Extended([fr EXCEPT ![i].upper = s], fr, s, M)
  <1> DEFINE r == [fr EXCEPT ![i].upper = s]
  <1>1. /\ Len(fr) \in Nat /\ DOMAIN fr = 1 .. Len(fr) /\ i \in 1 .. Len(fr) /\ s \in 0 .. M
        /\ \A j \in 1 .. Len(fr) : fr[j] \in EntriesTo(M)
        /\ \A j \in 1 .. Len(fr) : fr[j].lower \in 0 .. M /\ fr[j].upper \in 0 .. M
    BY EntryTypes, ElementOfSeq DEF FitsAfter
  <1>2. /\ r \in Seq(EntriesTo(M)) /\ Len(r) = Len(fr) /\ DOMAIN r = 1 .. Len(fr)
        /\ r[i].lower = fr[i].lower /\ r[i].upper = s
        /\ \A j \in 1 .. Len(fr) : j # i => r[j] = fr[j]
    <2>1. [fr[i] EXCEPT !.upper = s] \in EntriesTo(M)
      BY <1>1 DEF EntriesTo
    <2>2. fr \in Seq(EntriesTo(M))
      BY DEF FitsAfter
    <2>3. r = [fr EXCEPT ![i] = [fr[i] EXCEPT !.upper = s]]
      OBVIOUS
    <2>4. r \in Seq(EntriesTo(M)) /\ Len(r) = Len(fr) /\ DOMAIN r = 1 .. Len(fr)
      BY <1>1, <2>1, <2>2, <2>3, ExceptSeq
    <2>5. r[i] = [fr[i] EXCEPT !.upper = s] /\ \A j \in 1 .. Len(fr) : j # i => r[j] = fr[j]
      BY <1>1, <2>3
    <2>6. r[i].lower = fr[i].lower /\ r[i].upper = s
      BY <1>1, <2>5 DEF EntriesTo
    <2>7. QED
      BY <2>4, <2>5, <2>6
  <1> HIDE DEF r
  <1>3. InOrder(r)
    <2>1. /\ \A j \in 1 .. Len(fr) : fr[j].lower <= fr[j].upper
          /\ \A j, k \in 1 .. Len(fr) : j < k => fr[j].upper + 1 < fr[k].lower
          /\ fr[i].upper < s
      BY <1>1 DEF FitsAfter, InOrder
    <2>2. ASSUME NEW j \in 1 .. Len(fr) PROVE r[j].lower <= r[j].upper
      BY <1>1, <1>2, <2>1
    <2>3. ASSUME NEW j \in 1 .. Len(fr), NEW k \in 1 .. Len(fr), j < k
          PROVE  r[j].upper + 1 < r[k].lower
      <3>1. r[k].lower = fr[k].lower
        BY <1>2
      <3>2. CASE j = i
        BY <1>1, <1>2, <2>3, <3>1, <3>2
      <3>3. CASE j # i
        BY <1>2, <2>1, <2>3, <3>1, <3>3
      <3>4. QED
        BY <3>2, <3>3
    <2>4. QED
      BY <1>2, <2>2, <2>3 DEF InOrder
  <1>4. Numbers(r) = Numbers(fr) \cup {s}
    <2>1. ASSUME NEW n \in Numbers(r) PROVE n \in Numbers(fr) \cup {s}
      <3>1. PICK j \in 1 .. Len(fr) : n \in r[j].lower .. r[j].upper
        BY <1>2 DEF Numbers
      <3>2. n = s \/ n \in fr[j].lower .. fr[j].upper
        BY <1>1, <1>2, <3>1
      <3>3. QED
        BY <1>1, <3>2 DEF Numbers
    <2>2. ASSUME NEW n \in Numbers(fr) PROVE n \in Numbers(r)
      <3>1. PICK j \in 1 .. Len(fr) : n \in fr[j].lower .. fr[j].upper
        BY <1>1 DEF Numbers
      <3>2. n \in r[j].lower .. r[j].upper
        BY <1>1, <1>2, <3>1
      <3>3. QED
        BY <1>2, <3>2 DEF Numbers
    <2>3. s \in Numbers(r)
      <3>1. fr[i].lower <= s
        BY <1>1 DEF FitsAfter, InOrder
      <3>2. s \in r[i].lower .. r[i].upper
        BY <1>1, <1>2, <3>1
      <3>3. QED
        BY <1>1, <1>2, <3>2 DEF Numbers
    <2>4. QED
      BY <2>1, <2>2, <2>3
  <1>5. r # <<>>
    BY <1>1, <1>2
  <1>6. QED
    BY <1>2, <1>3, <1>4, <1>5 DEF Extended, r

\* The interval after i grows by s at its lower end.
LEMMA GrowsDown ==
    ASSUME NEW M \in Nat, NEW fr, NEW i, NEW s, FitsAfter(fr, i, s, M),
           i < Len(fr), s = fr[i + 1].lower - 1, fr[i].upper + 1 < s
    PROVE  Extended([fr EXCEPT ![i + 1].lower = s], fr, s, M)
  <1> DEFINE h == i + 1
             r == [fr EXCEPT ![h].lower = s]
  <1>1. /\ Len(fr) \in Nat /\ DOMAIN fr = 1 .. Len(fr)
        /\ i \in 1 .. Len(fr) /\ h \in 1 .. Len(fr) /\ h = i + 1 /\ s \in 0 .. M
        /\ s = fr[h].lower - 1
        /\ \A j \in 1 .. Len(fr) : fr[j] \in EntriesTo(M)
        /\ \A j \in 1 .. Len(fr) : fr[j].lower \in 0 .. M /\ fr[j].upper \in 0 .. M
    BY EntryTypes, ElementOfSeq DEF FitsAfter
  <1> HIDE DEF h
  <1>2. /\ r \in Seq(EntriesTo(M)) /\ Len(r) = Len(fr) /\ DOMAIN r = 1 .. Len(fr)
        /\ r[h].lower = s /\ r[h].upper = fr[h].upper
        /\ \A j \in 1 .. Len(fr) : j # h => r[j] = fr[j]
    <2>1. [fr[h] EXCEPT !.lower = s] \in EntriesTo(M)
      BY <1>1 DEF EntriesTo
    <2>2. fr \in Seq(EntriesTo(M))
      BY DEF FitsAfter
    <2>3. r = [fr EXCEPT ![h] = [fr[h] EXCEPT !.lower = s]]
      OBVIOUS
    <2>4. r \in Seq(EntriesTo(M)) /\ Len(r) = Len(fr) /\ DOMAIN r = 1 .. Len(fr)
      BY <1>1, <2>1, <2>2, <2>3, ExceptSeq
    <2>5. r[h] = [fr[h] EXCEPT !.lower = s] /\ \A j \in 1 .. Len(fr) : j # h => r[j] = fr[j]
      BY <1>1, <2>3
    <2>6. r[h].lower = s /\ r[h].upper = fr[h].upper
      BY <1>1, <2>5 DEF EntriesTo
    <2>7. QED
      BY <2>4, <2>5, <2>6
  <1>3. /\ \A j \in 1 .. Len(fr) : fr[j].lower <= fr[j].upper
        /\ \A j, k \in 1 .. Len(fr) : j < k => fr[j].upper + 1 < fr[k].lower
    BY <1>1 DEF FitsAfter, InOrder
  <1>4. r = [fr EXCEPT ![i + 1].lower = s]
    BY DEF h
  <1> HIDE DEF r
  <1>5. InOrder(r)
    <2>1. ASSUME NEW j \in 1 .. Len(fr) PROVE r[j].lower <= r[j].upper
      BY <1>1, <1>2, <1>3
    <2>2. ASSUME NEW j \in 1 .. Len(fr), NEW k \in 1 .. Len(fr), j < k
          PROVE  r[j].upper + 1 < r[k].lower
      <3>1. r[j].upper = fr[j].upper
        BY <1>2
      <3>2. CASE k = h
        <4>1. CASE j = i
          BY <1>2, <3>1, <3>2, <4>1
        <4>2. CASE j # i
          <5>1. j < i
            BY <1>1, <2>2, <3>2, <4>2
          <5>2. fr[j].upper + 1 < fr[i].lower /\ fr[i].lower <= fr[i].upper
            BY <1>1, <1>3, <5>1
          <5>3. QED
            BY <1>1, <1>2, <3>1, <3>2, <5>2
        <4>3. QED
          BY <4>1, <4>2
      <3>3. CASE k # h
        BY <1>2, <1>3, <2>2, <3>1, <3>3
      <3>4. QED
        BY <3>2, <3>3
    <2>3. QED
      BY <1>2, <2>1, <2>2 DEF InOrder
  <1>6. Numbers(r) = Numbers(fr) \cup {s}
    <2>1. ASSUME NEW n \in Numbers(r) PROVE n \in Numbers(fr) \cup {s}
      <3>1. PICK j \in 1 .. Len(fr) : n \in r[j].lower .. r[j].upper
        BY <1>2 DEF Numbers
      <3>2. n = s \/ n \in fr[j].lower .. fr[j].upper
        BY <1>1, <1>2, <3>1
      <3>3. QED
        BY <1>1, <3>2 DEF Numbers
    <2>2. ASSUME NEW n \in Numbers(fr) PROVE n \in Numbers(r)
      <3>1. PICK j \in 1 .. Len(fr) : n \in fr[j].lower .. fr[j].upper
        BY <1>1 DEF Numbers
      <3>2. n \in r[j].lower .. r[j].upper
        BY <1>1, <1>2, <3>1
      <3>3. QED
        BY <1>2, <3>2 DEF Numbers
    <2>3. s \in r[h].lower .. r[h].upper
      BY <1>1, <1>2, <1>3
    <2>4. s \in Numbers(r)
      BY <1>1, <1>2, <2>3 DEF Numbers
    <2>5. QED
      BY <2>1, <2>2, <2>4
  <1>7. r # <<>>
    BY <1>1, <1>2
  <1>8. QED
    BY <1>2, <1>4, <1>5, <1>6, <1>7 DEF Extended

\* An interval of its own is inserted after i.
LEMMA Inserts ==
    ASSUME NEW M \in Nat, NEW fr, NEW i, NEW s, FitsAfter(fr, i, s, M),
           fr[i].upper + 1 < s, \A j \in DOMAIN fr : i < j => s + 1 < fr[j].lower
    PROVE  Extended(InsertAt(fr, i + 1, Entry(s, s)), fr, s, M)
  <1> DEFINE r == InsertAt(fr, i + 1, Entry(s, s))
  <1>1. /\ Len(fr) \in Nat /\ DOMAIN fr = 1 .. Len(fr) /\ i \in 1 .. Len(fr) /\ s \in 0 .. M
        /\ \A j \in 1 .. Len(fr) : fr[j].lower \in 0 .. M /\ fr[j].upper \in 0 .. M
    BY EntryTypes DEF FitsAfter
  <1>2. Entry(s, s) \in EntriesTo(M) /\ Entry(s, s).lower = s /\ Entry(s, s).upper = s
    BY <1>1 DEF Entry, EntriesTo
  <1>3. /\ r \in Seq(EntriesTo(M)) /\ Len(r) = Len(fr) + 1
        /\ \A j \in 1 .. Len(fr) + 1 :
              r[j] = IF j < i + 1 THEN fr[j] ELSE IF j = i + 1 THEN Entry(s, s) ELSE fr[j - 1]
    <2> DEFINE e == Entry(s, s)
               k == i + 1
               S == EntriesTo(M)
    <2>1. fr \in Seq(S) /\ k \in 1 .. Len(fr) + 1 /\ e \in S
      BY <1>1, <1>2 DEF FitsAfter
    <2>2. r = InsertAt(fr, k, e)
      OBVIOUS
    <2> HIDE DEF e, k, S
    <2>3. /\ InsertAt(fr, k, e) \in Seq(S)
          /\ Len(InsertAt(fr, k, e)) = Len(fr) + 1
          /\ \A j \in 1 .. Len(fr) + 1 : InsertAt(fr, k, e)[j] =
                 IF j < k THEN fr[j] ELSE IF j = k THEN e ELSE fr[j - 1]
      BY <2>1, InsertAtProperties
    <2> HIDE DEF r
    <2>4. QED
      BY <2>2, <2>3 DEF e, k, S
  <1>4. /\ \A j \in 1 .. Len(fr) : fr[j].lower <= fr[j].upper
        /\ \A j, k \in 1 .. Len(fr) : j < k => fr[j].upper + 1 < fr[k].lower
    BY <1>1 DEF FitsAfter, InOrder
  <1> HIDE DEF r
  <1>5. /\ DOMAIN r = 1 .. Len(fr) + 1
        /\ \A j \in 1 .. i : r[j] = fr[j]
        /\ r[i + 1].lower = s /\ r[i + 1].upper = s
        /\ \A j \in i + 1 .. Len(fr) : r[j + 1] = fr[j]
    <2>1. DOMAIN r = 1 .. Len(fr) + 1
      BY <1>1, <1>3
    <2>2. ASSUME NEW j \in 1 .. i PROVE r[j] = fr[j]
      BY <1>1, <1>3
    <2>3. i + 1 \in 1 .. Len(fr) + 1 /\ ~(i + 1 < i + 1)
      BY <1>1
    <2>4. r[i + 1] = Entry(s, s)
      BY <1>3, <2>3
    <2>5. ASSUME NEW j \in i + 1 .. Len(fr) PROVE r[j + 1] = fr[j]
      <3>1. /\ j + 1 \in 1 .. Len(fr) + 1 /\ ~(j + 1 < i + 1) /\ j + 1 # i + 1
            /\ (j + 1) - 1 = j
        BY <1>1
      <3>2. QED
        BY <1>3, <3>1
    <2>6. QED
      BY <1>2, <2>1, <2>2, <2>4, <2>5
  <1>6. /\ \A j \in 1 .. i : fr[j].upper + 1 < s
        /\ \A j \in i + 1 .. Len(fr) : s + 1 < fr[j].lower
    <2>1. ASSUME NEW j \in 1 .. i PROVE fr[j].upper + 1 < s
      <3>1. CASE j = i
        BY <3>1
      <3>2. CASE j < i
        <4>1. fr[j].upper + 1 < fr[i].lower /\ fr[i].lower <= fr[i].upper
          BY <1>1, <1>4, <3>2
        <4>2. QED
          BY <1>1, <4>1
      <3>3. QED
        BY <1>1, <3>1, <3>2
    <2>2. ASSUME NEW j \in i + 1 .. Len(fr) PROVE s + 1 < fr[j].lower
      <3>1. j \in DOMAIN fr /\ i < j
        BY <1>1
      <3>2. QED
        BY <3>1
    <2>3. QED
      BY <2>1, <2>2
  <1>7. InOrder(r)
    <2>1. \A j \in 1 .. Len(fr) + 1 :
              \/ j \in 1 .. i
              \/ j = i + 1
              \/ j - 1 \in i + 1 .. Len(fr) /\ r[j] = fr[j - 1]
      <3>1. ASSUME NEW j \in 1 .. Len(fr) + 1, j > i + 1
            PROVE  j - 1 \in i + 1 .. Len(fr) /\ r[j] = fr[j - 1]
        BY <1>1, <1>3, <3>1
      <3>2. QED
        BY <1>1, <3>1
    <2>2. ASSUME NEW j \in 1 .. Len(fr) + 1 PROVE r[j].lower <= r[j].upper
      <3>1. CASE j \in 1 .. i
        BY <1>1, <1>4, <1>5, <3>1
      <3>2. CASE j = i + 1
        BY <1>1, <1>5, <3>2
      <3>3. CASE j - 1 \in i + 1 .. Len(fr) /\ r[j] = fr[j - 1]
        <4>1. j - 1 \in 1 .. Len(fr)
          BY <1>1, <3>3
        <4>2. QED
          BY <1>4, <3>3, <4>1
      <3>4. QED
        BY <2>1, <3>1, <3>2, <3>3
    <2>3. ASSUME NEW j \in 1 .. Len(fr) + 1, NEW k \in 1 .. Len(fr) + 1, j < k
          PROVE  r[j].upper + 1 < r[k].lower
      <3>1. CASE j \in 1 .. i
        <4>1. CASE k \in 1 .. i
          BY <1>1, <1>4, <1>5, <2>3, <3>1, <4>1
        <4>2. CASE k = i + 1
          BY <1>5, <1>6, <3>1, <4>2
        <4>3. CASE k - 1 \in i + 1 .. Len(fr) /\ r[k] = fr[k - 1]
          <5>1. j < k - 1 /\ j \in 1 .. Len(fr) /\ k - 1 \in 1 .. Len(fr)
            BY <1>1, <3>1, <4>3
          <5>2. QED
            BY <1>4, <1>5, <3>1, <4>3, <5>1
        <4>4. QED
          BY <2>1, <4>1, <4>2, <4>3
      <3>2. CASE j = i + 1
        <4>1. k - 1 \in i + 1 .. Len(fr) /\ r[k] = fr[k - 1]
          BY <1>1, <2>1, <2>3, <3>2
        <4>2. QED
          BY <1>5, <1>6, <3>2, <4>1
      <3>3. CASE j - 1 \in i + 1 .. Len(fr) /\ r[j] = fr[j - 1]
        <4>1. k - 1 \in i + 1 .. Len(fr) /\ r[k] = fr[k - 1]
          BY <1>1, <2>1, <2>3, <3>3
        <4>2. j - 1 < k - 1 /\ j - 1 \in 1 .. Len(fr) /\ k - 1 \in 1 .. Len(fr)
          BY <1>1, <2>3, <3>3, <4>1
        <4>3. QED
          BY <1>4, <3>3, <4>1, <4>2
      <3>4. QED
        BY <2>1, <3>1, <3>2, <3>3
    <2>4. QED
      BY <1>5, <2>2, <2>3 DEF InOrder
  <1>8. Numbers(r) = Numbers(fr) \cup {s}
    <2>1. ASSUME NEW n \in Numbers(r) PROVE n \in Numbers(fr) \cup {s}
      <3>1. PICK j \in 1 .. Len(fr) + 1 : n \in r[j].lower .. r[j].upper
        BY <1>5 DEF Numbers
      <3>2. CASE j = i + 1
        BY <1>1, <1>5, <3>1, <3>2
      <3>3. CASE j # i + 1
        <4>1. \E k \in 1 .. Len(fr) : r[j] = fr[k]
          <5>1. CASE j < i + 1
            <6>1. j \in 1 .. Len(fr) /\ r[j] = fr[j]
              BY <1>1, <1>3, <5>1
            <6>2. QED
              BY <6>1
          <5>2. CASE j > i + 1
            <6>1. j - 1 \in 1 .. Len(fr) /\ ~(j < i + 1) /\ j # i + 1
              BY <1>1, <5>2
            <6>2. r[j] = fr[j - 1]
              BY <1>3, <6>1
            <6>3. QED
              BY <6>1, <6>2
          <5>3. QED
            BY <1>1, <3>3, <5>1, <5>2
        <4>2. QED
          BY <1>1, <3>1, <4>1 DEF Numbers
      <3>4. QED
        BY <3>2, <3>3
    <2>2. ASSUME NEW n \in Numbers(fr) PROVE n \in Numbers(r)
      <3>1. PICK j \in 1 .. Len(fr) : n \in fr[j].lower .. fr[j].upper
        BY <1>1 DEF Numbers
      <3>2. \E k \in 1 .. Len(fr) + 1 : r[k] = fr[j]
        <4>1. CASE j \in 1 .. i
          BY <1>1, <1>5, <4>1
        <4>2. CASE j \in i + 1 .. Len(fr)
          BY <1>1, <1>5, <4>2
        <4>3. QED
          BY <1>1, <4>1, <4>2
      <3>3. QED
        BY <1>5, <3>1, <3>2 DEF Numbers
    <2>3. s \in Numbers(r)
      <3>1. i + 1 \in DOMAIN r /\ s \in r[i + 1].lower .. r[i + 1].upper
        BY <1>1, <1>5
      <3>2. QED
        BY <3>1 DEF Numbers
    <2>4. QED
      BY <2>1, <2>2, <2>3
  <1>9. r # <<>>
    BY <1>1, <1>3
  <1>10. QED
    BY <1>3, <1>7, <1>8, <1>9 DEF Extended, r

\* s closes the gap between i and the interval after it: the two become one.
LEMMA Merges ==
    ASSUME NEW M \in Nat, NEW fr, NEW i, NEW s, FitsAfter(fr, i, s, M),
           i < Len(fr), s = fr[i].upper + 1, s = fr[i + 1].lower - 1
    PROVE  Extended(RemoveAt([fr EXCEPT ![i + 1].lower = fr[i].lower], i), fr, s, M)
  <1> DEFINE h == i + 1
             x == [fr EXCEPT ![h].lower = fr[i].lower]
             r == RemoveAt(x, i)
             S == EntriesTo(M)
  <1>1. /\ Len(fr) \in Nat /\ DOMAIN fr = 1 .. Len(fr)
        /\ i \in 1 .. Len(fr) /\ h \in 1 .. Len(fr) /\ h = i + 1 /\ s \in 0 .. M
        /\ s = fr[h].lower - 1
        /\ \A j \in 1 .. Len(fr) : fr[j] \in S
        /\ \A j \in 1 .. Len(fr) : fr[j].lower \in 0 .. M /\ fr[j].upper \in 0 .. M
    BY EntryTypes, ElementOfSeq DEF FitsAfter
  <1>2. /\ x \in Seq(S) /\ Len(x) = Len(fr)
        /\ x[h].lower = fr[i].lower /\ x[h].upper = fr[h].upper
        /\ \A j \in 1 .. Len(fr) : j # h => x[j] = fr[j]
    <2> HIDE DEF h
    <2>1. [fr[h] EXCEPT !.lower = fr[i].lower] \in S
      BY <1>1 DEF EntriesTo
    <2>2. fr \in Seq(S)
      BY DEF FitsAfter
    <2>3. x = [fr EXCEPT ![h] = [fr[h] EXCEPT !.lower = fr[i].lower]]
      OBVIOUS
    <2>4. x \in Seq(S) /\ Len(x) = Len(fr)
      BY <1>1, <2>1, <2>2, <2>3, ExceptSeq
    <2>5. x[h] = [fr[h] EXCEPT !.lower = fr[i].lower]
          /\ \A j \in 1 .. Len(fr) : j # h => x[j] = fr[j]
      BY <1>1, <2>3
    <2>6. x[h].lower = fr[i].lower /\ x[h].upper = fr[h].upper
      BY <1>1, <2>5 DEF EntriesTo
    <2>7. QED
      BY <2>4, <2>5, <2>6
  <1> HIDE DEF h, x, S
  <1>3. /\ r \in Seq(S) /\ Len(r) = Len(fr) - 1
        /\ \A j \in 1 .. Len(fr) - 1 : r[j] = IF j < i THEN x[j] ELSE x[j + 1]
    <2>1. i \in 1 .. Len(x)
      BY <1>1, <1>2
    <2>2. /\ RemoveAt(x, i) \in Seq(S) /\ Len(RemoveAt(x, i)) = Len(x) - 1
          /\ \A j \in 1 .. Len(x) - 1 :
                RemoveAt(x, i)[j] = IF j < i THEN x[j] ELSE x[j + 1]
      BY <1>2, <2>1, RemoveAtProperties
    <2>3. QED
      BY <1>2, <2>2
  <1>4. r = RemoveAt([fr EXCEPT ![i + 1].lower = fr[i].lower], i)
    BY DEF h, x
  <1> HIDE DEF r
  <1>5. /\ DOMAIN r = 1 .. Len(fr) - 1 /\ i \in 1 .. Len(fr) - 1
        /\ \A j \in 1 .. i - 1 : r[j] = fr[j]
        /\ r[i].lower = fr[i].lower /\ r[i].upper = fr[h].upper
        /\ \A j \in i + 1 .. Len(fr) - 1 : r[j] = fr[j + 1]
    <2>1. DOMAIN r = 1 .. Len(fr) - 1 /\ i \in 1 .. Len(fr) - 1
      BY <1>1, <1>3
    <2>2. ASSUME NEW j \in 1 .. i - 1 PROVE r[j] = fr[j]
      <3>1. j \in 1 .. Len(fr) - 1 /\ j < i /\ j # h /\ j \in 1 .. Len(fr)
        BY <1>1
      <3>2. QED
        BY <1>2, <1>3, <3>1
    <2>3. r[i] = x[h]
      BY <1>1, <1>3, <2>1
    <2>4. ASSUME NEW j \in i + 1 .. Len(fr) - 1 PROVE r[j] = fr[j + 1]
      <3>1. /\ j \in 1 .. Len(fr) - 1 /\ ~(j < i)
            /\ j + 1 # h /\ j + 1 \in 1 .. Len(fr)
        BY <1>1
      <3>2. QED
        BY <1>2, <1>3, <3>1
    <2>5. QED
      BY <1>2, <2>1, <2>2, <2>3, <2>4
  <1>6. /\ \A j \in 1 .. Len(fr) : fr[j].lower <= fr[j].upper
        /\ \A j, k \in 1 .. Len(fr) : j < k => fr[j].upper + 1 < fr[k].lower
    BY <1>1 DEF FitsAfter, InOrder
  <1>7. \A j \in 1 .. Len(fr) - 1 :
            \/ j \in 1 .. i - 1 /\ j \in 1 .. Len(fr) /\ r[j] = fr[j]
            \/ j = i
            \/ j \in i + 1 .. Len(fr) - 1 /\ j + 1 \in 1 .. Len(fr) /\ r[j] = fr[j + 1]
    <2>1. ASSUME NEW j \in 1 .. Len(fr) - 1, j < i
          PROVE  j \in 1 .. i - 1 /\ j \in 1 .. Len(fr) /\ r[j] = fr[j]
      <3>1. j \in 1 .. i - 1 /\ j \in 1 .. Len(fr)
        BY <1>1, <2>1
      <3>2. QED
        BY <1>5, <3>1
    <2>2. ASSUME NEW j \in 1 .. Len(fr) - 1, j > i
          PROVE  j \in i + 1 .. Len(fr) - 1 /\ j + 1 \in 1 .. Len(fr) /\ r[j] = fr[j + 1]
      <3>1. j \in i + 1 .. Len(fr) - 1 /\ j + 1 \in 1 .. Len(fr)
        BY <1>1, <2>2
      <3>2. QED
        BY <1>5, <3>1
    <2>3. \A j \in 1 .. Len(fr) - 1 : j < i \/ j = i \/ j > i
      BY <1>1
    <2>4. QED
      BY <2>1, <2>2, <2>3
  <1>8. InOrder(r)
    <2>1. ASSUME NEW j \in 1 .. Len(fr) - 1 PROVE r[j].lower <= r[j].upper
      <3>1. CASE j = i
        <4>1. fr[i].lower <= fr[i].upper /\ fr[i].upper + 1 < fr[h].lower
              /\ fr[h].lower <= fr[h].upper
          BY <1>1, <1>6
        <4>2. QED
          BY <1>1, <1>5, <3>1, <4>1
      <3>2. CASE j # i
        BY <1>6, <1>7, <3>2
      <3>3. QED
        BY <3>1, <3>2
    <2>2. ASSUME NEW j \in 1 .. Len(fr) - 1, NEW k \in 1 .. Len(fr) - 1, j < k
          PROVE  r[j].upper + 1 < r[k].lower
      <3>1. CASE k \in 1 .. i - 1
        <4>1. j \in 1 .. i - 1 /\ j \in 1 .. Len(fr) /\ k \in 1 .. Len(fr)
          BY <1>1, <2>2, <3>1
        <4>2. QED
          BY <1>5, <1>6, <2>2, <3>1, <4>1
      <3>2. CASE k = i
        <4>1. j \in 1 .. i - 1 /\ j \in 1 .. Len(fr) /\ j < i
          BY <1>1, <2>2, <3>2
        <4>2. QED
          BY <1>1, <1>5, <1>6, <3>2, <4>1
      <3>3. CASE k \in i + 1 .. Len(fr) - 1 /\ k + 1 \in 1 .. Len(fr) /\ r[k] = fr[k + 1]
        <4>1. CASE j \in 1 .. i - 1
          <5>1. j \in 1 .. Len(fr) /\ j < k + 1
            BY <1>1, <2>2, <4>1
          <5>2. QED
            BY <1>5, <1>6, <3>3, <4>1, <5>1
        <4>2. CASE j = i
          <5>1. h < k + 1
            BY <1>1, <3>3
          <5>2. QED
            BY <1>1, <1>5, <1>6, <3>3, <4>2, <5>1
        <4>3. CASE j \in i + 1 .. Len(fr) - 1 /\ j + 1 \in 1 .. Len(fr) /\ r[j] = fr[j + 1]
          <5>1. j + 1 < k + 1
            BY <2>2, <3>3, <4>3
          <5>2. QED
            BY <1>6, <3>3, <4>3, <5>1
        <4>4. QED
          BY <1>7, <4>1, <4>2, <4>3
      <3>4. QED
        BY <1>7, <3>1, <3>2, <3>3
    <2>3. QED
      BY <1>5, <2>1, <2>2 DEF InOrder
  <1>9. Numbers(r) = Numbers(fr) \cup {s}
    <2>1. fr[i].lower <= fr[i].upper /\ fr[h].lower <= fr[h].upper
          /\ s = fr[i].upper + 1 /\ s = fr[h].lower - 1
      BY <1>1, <1>6
    <2>2. ASSUME NEW n
          PROVE  n \in r[i].lower .. r[i].upper <=>
                     \/ n \in fr[i].lower .. fr[i].upper
                     \/ n \in fr[h].lower .. fr[h].upper
                     \/ n = s
      <3> DEFINE a == fr[i].lower
                 b == fr[i].upper
                 c == fr[h].lower
                 d == fr[h].upper
      <3>1. a \in Int /\ b \in Int /\ c \in Int /\ d \in Int
        BY <1>1
      <3>2. a <= b /\ c <= d /\ s = b + 1 /\ s = c - 1
        BY <2>1
      <3>3. r[i].lower = a /\ r[i].upper = d
        BY <1>1, <1>5
      <3> HIDE DEF a, b, c, d
      <3>4. n \in a .. d <=> n \in a .. b \/ n \in c .. d \/ n = s
        BY <3>1, <3>2
      <3>5. QED
        BY <3>3, <3>4 DEF a, b, c, d
    <2>3. ASSUME NEW n \in Numbers(r) PROVE n \in Numbers(fr) \cup {s}
      <3>1. PICK j \in 1 .. Len(fr) - 1 : n \in r[j].lower .. r[j].upper
        BY <1>5 DEF Numbers
      <3>2. CASE j = i
        BY <1>1, <2>2, <3>1, <3>2 DEF Numbers
      <3>3. CASE j # i
        BY <1>1, <1>7, <3>1, <3>3 DEF Numbers
      <3>4. QED
        BY <3>2, <3>3
    <2>4. ASSUME NEW n \in Numbers(fr) PROVE n \in Numbers(r)
      <3>1. PICK j \in 1 .. Len(fr) : n \in fr[j].lower .. fr[j].upper
        BY <1>1 DEF Numbers
      <3>2. CASE j = i \/ j = h
        BY <1>5, <2>2, <3>1, <3>2 DEF Numbers
      <3>3. CASE j < i
        <4>1. j \in 1 .. i - 1 /\ j \in 1 .. Len(fr) - 1
          BY <1>1, <3>3
        <4>2. QED
          BY <1>5, <3>1, <4>1 DEF Numbers
      <3>4. CASE j > h
        <4>1. /\ j - 1 \in i + 1 .. Len(fr) - 1 /\ j - 1 \in 1 .. Len(fr) - 1
              /\ (j - 1) + 1 = j
          BY <1>1, <3>4
        <4>2. r[j - 1] = fr[j]
          BY <1>5, <4>1
        <4>3. QED
          BY <1>5, <3>1, <4>1, <4>2 DEF Numbers
      <3>5. QED
        BY <1>1, <3>2, <3>3, <3>4
    <2>5. s \in Numbers(r)
      BY <1>5, <2>2 DEF Numbers
    <2>6. QED
      BY <2>3, <2>4, <2>5
  <1>10. r # <<>>
    BY <1>3, <1>5
  <1>11. QED
    BY <1>3, <1>4, <1>8, <1>9, <1>10 DEF Extended, S

-----------------------------------------------------------------------------
\* checkRepetitive, when it lets a number pass, adds it to the list and nothing else,
\* and the list is canonical afterwards.
LEMMA RecordedExact ==
    ASSUME NEW M \in Nat, NEW fr \in Seq(EntriesTo(M)), fr # <<>>, InOrder(fr), NEW s \in 0 .. M,
           ~Repetitive(fr, s)
    PROVE  Extended(Recorded(fr, s), fr, s, M)
  <1> DEFINE i == Stop(fr, s)
             touchesNext == i < Len(fr) /\ s = fr[i + 1].lower - 1
  <1>1. /\ i \in DOMAIN fr
        /\ \A j \in DOMAIN fr : i < j => s < fr[j].lower
    BY StopSeparates
  <1>2. ~(s <= fr[i].upper)
    BY DEF Repetitive
  <1>3. Recorded(fr, s) =
            IF s = fr[i].upper + 1
            THEN IF touchesNext
                 THEN RemoveAt([fr EXCEPT ![i + 1].lower = fr[i].lower], i)
                 ELSE [fr EXCEPT ![i].upper = s]
            ELSE IF touchesNext
                 THEN [fr EXCEPT ![i + 1].lower = s]
                 ELSE InsertAt(fr, i + 1, Entry(s, s))
    BY DEF Recorded
  <1> HIDE DEF i
  <1>4. /\ i \in Nat /\ Len(fr) \in Nat /\ DOMAIN fr = 1 .. Len(fr)
        /\ \A j \in DOMAIN fr : fr[j].lower \in 0 .. M /\ fr[j].upper \in 0 .. M
    BY <1>1, EntryTypes
  <1>5. FitsAfter(fr, i, s, M) /\ (s # fr[i].upper + 1 => fr[i].upper + 1 < s)
    BY <1>1, <1>2, <1>4 DEF FitsAfter
  <1>6. ASSUME ~touchesNext, NEW j \in DOMAIN fr, i < j PROVE s + 1 < fr[j].lower
    <2>1. i < Len(fr) /\ i + 1 \in DOMAIN fr /\ j \in Nat
      BY <1>1, <1>4, <1>6
    <2>2. s < fr[i + 1].lower /\ s # fr[i + 1].lower - 1
      BY <1>1, <1>4, <1>6, <2>1
    <2>3. CASE j = i + 1
      <3>1. fr[j].lower \in Nat /\ s < fr[j].lower /\ s # fr[j].lower - 1
        BY <1>4, <2>2, <2>3
      <3>2. QED
        BY <3>1
    <2>4. CASE j > i + 1
      <3>1. fr[i + 1].lower <= fr[i + 1].upper /\ fr[i + 1].upper + 1 < fr[j].lower
        BY <2>1, <2>4 DEF InOrder
      <3>2. QED
        BY <1>4, <2>1, <2>2, <3>1
    <2>5. QED
      BY <1>4, <1>6, <2>1, <2>3, <2>4
  <1>7. CASE s = fr[i].upper + 1 /\ touchesNext
    BY <1>3, <1>5, <1>7, Merges
  <1>8. CASE s = fr[i].upper + 1 /\ ~touchesNext
    <2>1. Recorded(fr, s) = [fr EXCEPT ![i].upper = s]
      BY <1>3, <1>8
    <2>2. \A j \in DOMAIN fr : i < j => s + 1 < fr[j].lower
      BY <1>6, <1>8
    <2> HIDE DEF touchesNext
    <2>3. Extended([fr EXCEPT ![i].upper = s], fr, s, M)
      BY <1>5, <1>8, <2>2, GrowsUp
    <2>4. QED
      BY <2>1, <2>3
  <1>9. CASE s # fr[i].upper + 1 /\ touchesNext
    BY <1>3, <1>5, <1>9, GrowsDown
  <1>10. CASE s # fr[i].upper + 1 /\ ~touchesNext
    BY <1>3, <1>5, <1>6, <1>10, Inserts
  <1>11. QED
    BY <1>7, <1>8, <1>9, <1>10

\* The first entry of a canonical list begins with the least of its numbers.
LEMMA FirstIsLeast ==
    ASSUME NEW M \in Nat, NEW fr \in Seq(EntriesTo(M)), InOrder(fr)
    PROVE  /\ fr # <<>> <=> Numbers(fr) # {}
           /\ Numbers(fr) \subseteq 0 .. M
           /\ fr # <<>> => fr[1].lower \in Numbers(fr) /\ \A n \in Numbers(fr) : fr[1].lower <= n
           /\ \A i \in DOMAIN fr : fr[i].lower \in Numbers(fr) /\ fr[i].upper \in Numbers(fr)
  <1>1. /\ Len(fr) \in Nat /\ DOMAIN fr = 1 .. Len(fr)
        /\ \A i \in DOMAIN fr : fr[i].lower \in 0 .. M /\ fr[i].upper \in 0 .. M
    BY EntryTypes
  <1>2. \A i \in DOMAIN fr : fr[i].lower \in Numbers(fr) /\ fr[i].upper \in Numbers(fr)
    BY <1>1 DEF Numbers, InOrder
  <1>3. Numbers(fr) \subseteq 0 .. M
    BY <1>1 DEF Numbers
  <1>4. ASSUME fr # <<>>
        PROVE  fr[1].lower \in Numbers(fr) /\ \A n \in Numbers(fr) : fr[1].lower <= n
    <2>1. 1 \in DOMAIN fr
      BY <1>1, <1>4, EmptySeq
    <2>2. ASSUME NEW n \in Numbers(fr) PROVE fr[1].lower <= n
      <3>1. PICK j \in DOMAIN fr : n \in fr[j].lower .. fr[j].upper
        BY DEF Numbers
      <3>2. CASE j = 1
        BY <1>1, <2>1, <3>1, <3>2
      <3>3. CASE j # 1
        <4>1. fr[1].lower <= fr[1].upper /\ fr[1].upper + 1 < fr[j].lower
          BY <1>1, <2>1, <3>3 DEF InOrder
        <4>2. QED
          BY <1>1, <2>1, <3>1, <4>1
      <3>4. QED
        BY <3>2, <3>3
    <2>3. QED
      BY <1>2, <2>1, <2>2
  <1>5. fr = <<>> => Numbers(fr) = {}
    BY DEF Numbers
  <1>6. QED
    BY <1>2, <1>3, <1>4, <1>5
=============================================================================
