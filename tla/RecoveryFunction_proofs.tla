---------------------- MODULE RecoveryFunction_proofs ----------------------
(***************************************************************************)
(* Theorems about RecoveryFunction for every set of flows and paths, every *)
(* size of the sequence number space, any number of frames, restarts of    *)
(* the talker, and every order in which copies come or are lost.           *)
(***************************************************************************)
EXTENDS RecoveryFunction, ListLemmas

\* The number frame n carries when the talker put st into its frames.
Number(st, n) == st[n] % SeqSpace

PassedOf(ps, st) == {Number(st, n) : n \in ToSet(ps)}

\* Why frame n was eliminated.
Explained(n, ps, st) ==
    \/ n \in ToSet(ps)
    \/ \E m \in ToSet(ps) : m # n /\ Number(st, m) = Number(st, n)
    \/ \A s \in PassedOf(ps, st) : Number(st, n) < s

\* The state of one flow: its list fr, the frames ps that passed and el that were
\* eliminated, and the frames st sent.
Sound(fr, ps, el, st) ==
    /\ fr \in Seq(Interval) /\ InOrder(fr)
    /\ st \in Seq(1 .. MaxFrames)
    /\ ps \in Seq(1 .. Len(st)) /\ el \subseteq 1 .. Len(st)
    /\ fr = <<>> <=> ps = <<>>
    /\ ps = <<>> => el = {}
    /\ Numbers(fr) = PassedOf(ps, st)
    /\ IsInjective(ps)
    /\ \A n \in el : Explained(n, ps, st)

FlowSound(f) == Sound(recorder[f], passed[f], eliminated[f], sent[f])

RecoveryInv ==
    /\ TypeOK
    /\ \A f \in Flows : FlowSound(f) /\ counter[f] <= Len(sent[f])
    /\ \A m \in Flows \X Paths : inTransit[m] \in Seq(1 .. Len(sent[m[1]]))

-----------------------------------------------------------------------------
\* One flow

\* Intervals are entries with numbers below the size of the space.
LEMMA IntervalEntries == SeqSpace - 1 \in Nat /\ Interval = EntriesTo(SeqSpace - 1) /\ Seqs = 0 .. SeqSpace - 1
  BY RecoveryAssumption DEF Interval, EntriesTo, Seqs

LEMMA NumberTypes ==
    ASSUME NEW st \in Seq(1 .. MaxFrames), NEW n \in 1 .. Len(st)
    PROVE  Number(st, n) \in 0 .. SeqSpace - 1
  <1>1. st[n] \in Int
    BY ElementOfSeq, RecoveryAssumption
  <1>2. \A x \in Int : x % SeqSpace \in 0 .. SeqSpace - 1
    BY RecoveryAssumption
  <1>3. QED
    BY <1>1, <1>2 DEF Number

\* Another frame passed: the numbers that passed are one more.
LEMMA PassedOfAppend ==
    ASSUME NEW ps, NEW qs, NEW n, NEW st, ToSet(qs) = ToSet(ps) \cup {n}
    PROVE  PassedOf(qs, st) = PassedOf(ps, st) \cup {Number(st, n)}
  BY DEF PassedOf

\* The first frame of a flow passes.
LEMMA SoundFirst ==
    ASSUME NEW ps, NEW el, NEW st, Sound(<<>>, ps, el, st), NEW n \in 1 .. Len(st)
    PROVE  Sound(<<Entry(Number(st, n), Number(st, n))>>, Append(ps, n), el, st)
  <1> DEFINE s == Number(st, n)
             fr == <<Entry(s, s)>>
  <1>1. ps = <<>> /\ el = {} /\ st \in Seq(1 .. MaxFrames) /\ ps \in Seq(1 .. Len(st))
    BY DEF Sound
  <1>2. s \in 0 .. SeqSpace - 1
    BY <1>1, NumberTypes
  <1> HIDE DEF s
  <1>3. Entry(s, s) \in Interval /\ Entry(s, s).lower = s /\ Entry(s, s).upper = s
    BY <1>2 DEF Entry, Interval, Seqs
  <1>4. fr \in Seq(Interval) /\ Len(fr) = 1 /\ fr[1] = Entry(s, s) /\ DOMAIN fr = {1} /\ fr # <<>>
    BY <1>3
  <1> HIDE DEF fr
  <1>5. InOrder(fr)
    BY <1>2, <1>3, <1>4 DEF InOrder
  <1>6. Numbers(fr) = {s}
    <2>1. fr[1].lower = s /\ fr[1].upper = s /\ s .. s = {s}
      BY <1>2, <1>3, <1>4
    <2>2. Numbers(fr) = fr[1].lower .. fr[1].upper
      BY <1>4 DEF Numbers
    <2>3. QED
      BY <2>1, <2>2
  <1>7. /\ Append(ps, n) \in Seq(1 .. Len(st)) /\ Append(ps, n) # <<>>
        /\ ToSet(Append(ps, n)) = ToSet(ps) \cup {n}
        /\ IsInjective(Append(ps, n))
    <2>1. ToSet(ps) = {} /\ IsInjective(ps)
      BY <1>1 DEF ToSet, IsInjective
    <2>2. n \notin ToSet(ps)
      BY <2>1
    <2>3. ASSUME NEW S, ps \in Seq(S), n \in S
          PROVE  /\ Append(ps, n) \in Seq(S) /\ Append(ps, n) # <<>>
                 /\ ToSet(Append(ps, n)) = ToSet(ps) \cup {n}
                 /\ IsInjective(Append(ps, n))
      BY <2>1, <2>2, <2>3, AppendElements
    <2>4. QED
      BY <1>1, <2>3
  <1>8. PassedOf(Append(ps, n), st) = {s}
    BY <1>1, <1>7 DEF PassedOf, ToSet, s
  <1>9. QED
    BY <1>1, <1>4, <1>5, <1>6, <1>7, <1>8 DEF Sound, s, fr

\* A frame whose number is not repetitive passes.
LEMMA SoundNew ==
    ASSUME NEW fr, NEW ps, NEW el, NEW st, Sound(fr, ps, el, st), fr # <<>>,
           NEW n \in 1 .. Len(st), ~Repetitive(fr, Number(st, n))
    PROVE  Sound(Recorded(fr, Number(st, n)), Append(ps, n), el, st)
  <1> DEFINE s == Number(st, n)
             M == SeqSpace - 1
  <1>1. /\ st \in Seq(1 .. MaxFrames) /\ ps \in Seq(1 .. Len(st)) /\ el \subseteq 1 .. Len(st)
        /\ fr \in Seq(EntriesTo(M)) /\ InOrder(fr) /\ M \in Nat
        /\ Numbers(fr) = PassedOf(ps, st) /\ IsInjective(ps)
        /\ \A e \in el : Explained(e, ps, st)
    BY IntervalEntries DEF Sound
  <1>2. s \in 0 .. M
    BY <1>1, NumberTypes
  <1>3. Extended(Recorded(fr, s), fr, s, M)
    BY <1>1, <1>2, RecordedExact
  <1>4. s \notin Numbers(fr) /\ \E k \in Numbers(fr) : k < s
    BY <1>1, <1>2, RepetitiveByNumbers
  <1>5. n \notin ToSet(ps)
    <2>1. s \notin PassedOf(ps, st)
      BY <1>1, <1>4
    <2>2. QED
      BY <2>1 DEF PassedOf
  <1>6. /\ Append(ps, n) \in Seq(1 .. Len(st)) /\ Append(ps, n) # <<>>
        /\ ToSet(Append(ps, n)) = ToSet(ps) \cup {n}
        /\ IsInjective(Append(ps, n))
    <2> DEFINE T == 1 .. Len(st)
    <2>1. ps \in Seq(T) /\ n \in T /\ IsInjective(ps)
      BY <1>1
    <2> HIDE DEF T
    <2>2. /\ Append(ps, n) \in Seq(T) /\ Append(ps, n) # <<>>
          /\ ToSet(Append(ps, n)) = ToSet(ps) \cup {n}
          /\ IsInjective(Append(ps, n))
      BY <1>5, <2>1, AppendElements
    <2>3. QED
      BY <2>2 DEF T
  <1>7. PassedOf(Append(ps, n), st) = Numbers(fr) \cup {s}
    BY <1>1, <1>6, PassedOfAppend
  <1>8. ASSUME NEW e \in el PROVE Explained(e, Append(ps, n), st)
    <2>1. CASE e \in ToSet(ps) \/ \E m \in ToSet(ps) : m # e /\ Number(st, m) = Number(st, e)
      BY <1>6, <2>1 DEF Explained
    <2>2. CASE \A k \in PassedOf(ps, st) : Number(st, e) < k
      <3>1. Number(st, e) \in 0 .. M
        BY <1>1, <1>8, NumberTypes
      <3>2. PICK k \in Numbers(fr) : k < s
        BY <1>4
      <3>3. k \in 0 .. M
        <4>1. \A m \in ToSet(ps) : m \in 1 .. Len(st)
          BY <1>1, ElementOfSeq DEF ToSet
        <4>2. QED
          BY <1>1, <4>1, NumberTypes DEF PassedOf
      <3>4. Number(st, e) < s
        BY <1>1, <1>2, <2>2, <3>1, <3>2, <3>3
      <3>5. \A x \in PassedOf(Append(ps, n), st) : Number(st, e) < x
        BY <1>1, <1>7, <2>2, <3>4
      <3>6. QED
        BY <3>5 DEF Explained
    <2>3. QED
      BY <1>1, <2>1, <2>2 DEF Explained
  <1>9. QED
    BY <1>1, <1>3, <1>6, <1>7, <1>8, IntervalEntries DEF Sound, Extended

\* A frame whose number is repetitive is eliminated.
LEMMA SoundRepetitive ==
    ASSUME NEW fr, NEW ps, NEW el, NEW st, Sound(fr, ps, el, st),
           NEW n \in 1 .. Len(st), Repetitive(fr, Number(st, n))
    PROVE  Sound(fr, ps, el \cup {n}, st)
  <1> DEFINE s == Number(st, n)
             M == SeqSpace - 1
  <1>1. /\ st \in Seq(1 .. MaxFrames) /\ fr \in Seq(EntriesTo(M)) /\ InOrder(fr) /\ M \in Nat
        /\ Numbers(fr) = PassedOf(ps, st)
        /\ fr # <<>> /\ ps # <<>>
    BY IntervalEntries DEF Sound, Repetitive
  <1>2. s \in 0 .. M
    BY <1>1, NumberTypes
  <1>3. s \in Numbers(fr) \/ \A k \in Numbers(fr) : s < k
    BY <1>1, <1>2, RepetitiveByNumbers
  <1>4. Explained(n, ps, st)
    <2>1. CASE s \in Numbers(fr)
      BY <1>1, <2>1 DEF PassedOf, Explained
    <2>2. CASE \A k \in Numbers(fr) : s < k
      BY <1>1, <2>2 DEF Explained
    <2>3. QED
      BY <1>3, <2>1, <2>2
  <1>5. QED
    BY <1>1, <1>4 DEF Sound

\* The talker sends one more frame: the numbers of the others stay.
LEMMA SoundSend ==
    ASSUME NEW fr, NEW ps, NEW el, NEW st, Sound(fr, ps, el, st), NEW c \in 1 .. MaxFrames
    PROVE  /\ Sound(fr, ps, el, Append(st, c))
           /\ Len(Append(st, c)) = Len(st) + 1 /\ Len(st) \in Nat
  <1> DEFINE st2 == Append(st, c)
  <1>1. /\ st \in Seq(1 .. MaxFrames) /\ ps \in Seq(1 .. Len(st)) /\ el \subseteq 1 .. Len(st)
        /\ \A n \in el : Explained(n, ps, st)
        /\ Len(st) \in Nat
    BY DEF Sound
  <1>2. /\ st2 \in Seq(1 .. MaxFrames) /\ Len(st2) = Len(st) + 1
        /\ \A n \in 1 .. Len(st) : st2[n] = st[n]
    BY <1>1, AppendProperties
  <1> HIDE DEF st2
  <1>3. \A n \in 1 .. Len(st) : Number(st2, n) = Number(st, n)
    BY <1>2 DEF Number
  <1>4. \A n \in ToSet(ps) : n \in 1 .. Len(st)
    BY <1>1, ElementOfSeq DEF ToSet
  <1>5. PassedOf(ps, st2) = PassedOf(ps, st)
    BY <1>3, <1>4 DEF PassedOf
  <1>6. 1 .. Len(st) \subseteq 1 .. Len(st2)
    BY <1>1, <1>2
  <1>7. ps \in Seq(1 .. Len(st2)) /\ el \subseteq 1 .. Len(st2)
    <2>1. ps \in Seq(1 .. Len(st2))
      BY <1>1, <1>6, SeqMonotonic
    <2>2. el \subseteq 1 .. Len(st2)
      BY <1>1, <1>6
    <2>3. QED
      BY <2>1, <2>2
  <1>8. \A n \in el : Explained(n, ps, st2)
    BY <1>1, <1>3, <1>4, <1>5 DEF Explained
  <1>9. QED
    BY <1>1, <1>2, <1>5, <1>7, <1>8 DEF Sound, st2


-----------------------------------------------------------------------------
\* The flows together
LEMMA InitSound == Init => RecoveryInv
  <1> SUFFICES ASSUME Init PROVE RecoveryInv
    OBVIOUS
  <1> USE DEF Init
  <1>1. TypeOK
    BY RecoveryAssumption DEF TypeOK
  <1>2. Sound(<<>>, <<>>, {}, <<>>)
    <2>1. ToSet(<<>>) = {} /\ Numbers(<<>>) = {}
      BY DEF ToSet, Numbers
    <2>2. PassedOf(<<>>, <<>>) = {}
      BY <2>1 DEF PassedOf
    <2>3. InOrder(<<>>) /\ IsInjective(<<>>)
      BY DEF InOrder, IsInjective
    <2>4. /\ <<>> \in Seq(Interval) /\ <<>> \in Seq(1 .. MaxFrames)
          /\ <<>> \in Seq(1 .. Len(<<>>)) /\ {} \subseteq 1 .. Len(<<>>)
      OBVIOUS
    <2>5. QED
      BY <2>1, <2>2, <2>3, <2>4 DEF Sound
  <1>3. ASSUME NEW f \in Flows PROVE FlowSound(f) /\ counter[f] <= Len(sent[f])
    BY <1>2 DEF FlowSound
  <1>4. \A m \in Flows \X Paths : inTransit[m] \in Seq(1 .. Len(sent[m[1]]))
    OBVIOUS
  <1>5. QED
    BY <1>1, <1>3, <1>4 DEF RecoveryInv

LEMMA SendSound ==
    ASSUME RecoveryInv, NEW f \in Flows, Send(f)
    PROVE  RecoveryInv'
  <1> DEFINE n == Len(sent[f]) + 1
  <1>1. /\ counter[f] \in 0 .. MaxFrames /\ sent[f] \in Seq(1 .. MaxFrames)
        /\ Len(sent[f]) \in Nat /\ Len(sent[f]) < MaxFrames
        /\ counter[f] <= Len(sent[f])
    BY DEF RecoveryInv, TypeOK, Send
  <1>2. counter[f] + 1 \in 1 .. MaxFrames /\ counter[f] + 1 <= n /\ n \in Nat
    BY <1>1, RecoveryAssumption
  <1>3. /\ sent' = [sent EXCEPT ![f] = Append(sent[f], counter[f] + 1)]
        /\ counter' = [counter EXCEPT ![f] = counter[f] + 1]
        /\ recorder' = recorder /\ passed' = passed /\ eliminated' = eliminated
        /\ restarts' = restarts
        /\ inTransit' = [m \in Flows \X Paths |->
               IF m[1] = f THEN Append(inTransit[m], n) ELSE inTransit[m]]
    BY DEF Send
  <1>4. /\ FlowSound(f)
        /\ Len(Append(sent[f], counter[f] + 1)) = n
        /\ Append(sent[f], counter[f] + 1) \in Seq(1 .. MaxFrames)
    BY <1>1, <1>2, AppendProperties DEF RecoveryInv
  <1>5. /\ sent \in [Flows -> Seq(1 .. MaxFrames)] /\ counter \in [Flows -> 0 .. MaxFrames]
        /\ sent'[f] = Append(sent[f], counter[f] + 1) /\ counter'[f] = counter[f] + 1
        /\ \A g \in Flows : g # f => sent'[g] = sent[g] /\ counter'[g] = counter[g]
    BY <1>3 DEF RecoveryInv, TypeOK
  <1> HIDE DEF n
  <1>6. ASSUME NEW g \in Flows PROVE FlowSound(g)' /\ counter'[g] <= Len(sent'[g])
    <2>1. CASE g = f
      <3>1. Sound(recorder[f], passed[f], eliminated[f], sent'[f])
        BY <1>2, <1>4, <1>5, SoundSend DEF FlowSound
      <3>2. QED
        BY <2>1, <3>1, <1>2, <1>3, <1>4, <1>5 DEF FlowSound
    <2>2. CASE g # f
      BY <2>2, <1>3, <1>5 DEF RecoveryInv, FlowSound
    <2>3. QED
      BY <2>1, <2>2
  <1>7. ASSUME NEW m \in Flows \X Paths
        PROVE  inTransit'[m] \in Seq(1 .. Len(sent'[m[1]])) /\ inTransit'[m] \in Seq(Nat)
    <2>1. inTransit[m] \in Seq(1 .. Len(sent[m[1]])) /\ m[1] \in Flows
      BY DEF RecoveryInv
    <2>2. CASE m[1] = f
      <3>1. 1 .. Len(sent[f]) \subseteq 1 .. n /\ n \in 1 .. n /\ 1 .. n \subseteq Nat
        BY <1>1, <1>2 DEF n
      <3>2. inTransit[m] \in Seq(1 .. n)
        BY <2>1, <2>2, <3>1, SeqMonotonic
      <3>3. Append(inTransit[m], n) \in Seq(1 .. n)
        BY <3>1, <3>2, AppendProperties
      <3>4. inTransit'[m] = Append(inTransit[m], n) /\ Len(sent'[m[1]]) = n
        BY <1>3, <1>4, <1>5, <2>2
      <3>5. QED
        BY <3>1, <3>3, <3>4
    <2>3. CASE m[1] # f
      <3>1. inTransit'[m] = inTransit[m] /\ sent'[m[1]] = sent[m[1]]
        BY <1>3, <1>5, <2>1, <2>3
      <3>2. inTransit[m] \in Seq(Nat)
        BY DEF RecoveryInv, TypeOK
      <3>3. QED
        BY <2>1, <3>1, <3>2
    <2>4. QED
      BY <2>2, <2>3
  <1>8. TypeOK'
    <2>1. sent' \in [Flows -> Seq(1 .. MaxFrames)] /\ counter' \in [Flows -> 0 .. MaxFrames]
      BY <1>2, <1>3, <1>4, <1>5
    <2>2. inTransit' \in [Flows \X Paths -> Seq(Nat)]
      BY <1>3, <1>7
    <2>3. QED
      BY <1>3, <2>1, <2>2 DEF RecoveryInv, TypeOK
  <1>9. QED
    BY <1>6, <1>7, <1>8 DEF RecoveryInv

LEMMA RestartSound ==
    ASSUME RecoveryInv, NEW f \in Flows, Restart(f)
    PROVE  RecoveryInv'
  <1> USE DEF Restart, RecoveryInv
  <1>1. TypeOK'
    BY RecoveryAssumption DEF TypeOK
  <1>2. ASSUME NEW g \in Flows PROVE FlowSound(g)' /\ counter'[g] <= Len(sent'[g])
    <2>1. FlowSound(g)'
      BY DEF FlowSound
    <2>2. Len(sent[g]) \in Nat /\ counter[g] <= Len(sent[g])
      BY DEF TypeOK
    <2>3. counter'[g] = 0 \/ counter'[g] = counter[g]
      BY DEF TypeOK
    <2>4. QED
      BY <2>1, <2>2, <2>3
  <1>3. QED
    BY <1>1, <1>2

\* A path without its oldest copy.
LEMMA PathTail ==
    ASSUME RecoveryInv, NEW f \in Flows, NEW p \in Paths, inTransit[<<f, p>>] # <<>>,
           inTransit' = [inTransit EXCEPT ![<<f, p>>] = Tail(@)], UNCHANGED talker
    PROVE  /\ Head(inTransit[<<f, p>>]) \in 1 .. Len(sent[f])
           /\ \A m \in Flows \X Paths : inTransit'[m] \in Seq(1 .. Len(sent'[m[1]]))
           /\ inTransit' \in [Flows \X Paths -> Seq(Nat)]
  <1>1. /\ inTransit \in [Flows \X Paths -> Seq(Nat)] /\ <<f, p>> \in Flows \X Paths
        /\ sent' = sent
        /\ \A m \in Flows \X Paths : inTransit[m] \in Seq(1 .. Len(sent[m[1]]))
    BY DEF RecoveryInv, TypeOK, talker
  <1>2. inTransit[<<f, p>>] \in Seq(1 .. Len(sent[f])) /\ inTransit[<<f, p>>] \in Seq(Nat)
    BY <1>1
  <1>3. /\ Head(inTransit[<<f, p>>]) \in 1 .. Len(sent[f])
        /\ Tail(inTransit[<<f, p>>]) \in Seq(1 .. Len(sent[f]))
        /\ Tail(inTransit[<<f, p>>]) \in Seq(Nat)
    BY <1>2, HeadTailProperties
  <1> DEFINE here == <<f, p>>
  <1>4. here \in Flows \X Paths /\ here[1] = f
    OBVIOUS
  <1> HIDE DEF here
  <1>5. inTransit' = [inTransit EXCEPT ![here] = Tail(inTransit[here])]
    BY DEF here
  <1>6. Tail(inTransit[here]) \in Seq(1 .. Len(sent[f])) /\ Tail(inTransit[here]) \in Seq(Nat)
    BY <1>3 DEF here
  <1>7. ASSUME NEW m \in Flows \X Paths PROVE inTransit'[m] \in Seq(1 .. Len(sent'[m[1]]))
    <2>1. CASE m = here
      BY <1>1, <1>4, <1>5, <1>6, <2>1
    <2>2. CASE m # here
      BY <1>1, <1>5, <2>2
    <2>3. QED
      BY <2>1, <2>2
  <1>8. inTransit' \in [Flows \X Paths -> Seq(Nat)]
    BY <1>1, <1>5, <1>6
  <1>9. QED
    BY <1>3, <1>7, <1>8

LEMMA LoseSound ==
    ASSUME RecoveryInv, NEW f \in Flows, NEW p \in Paths, Lose(f, p)
    PROVE  RecoveryInv'
  <1>1. /\ \A m \in Flows \X Paths : inTransit'[m] \in Seq(1 .. Len(sent'[m[1]]))
        /\ inTransit' \in [Flows \X Paths -> Seq(Nat)]
    BY PathTail DEF Lose
  <1>2. QED
    BY <1>1 DEF Lose, RecoveryInv, TypeOK, FlowSound, talker

\* A copy is handled: its flow stays sound, the others are not touched.
LEMMA ReceiveSound ==
    ASSUME RecoveryInv, NEW f \in Flows, NEW p \in Paths, Receive(f, p)
    PROVE  RecoveryInv'
  <1> DEFINE n == Head(inTransit[<<f, p>>])
  <1>1. /\ n \in 1 .. Len(sent[f])
        /\ \A m \in Flows \X Paths : inTransit'[m] \in Seq(1 .. Len(sent'[m[1]]))
        /\ inTransit' \in [Flows \X Paths -> Seq(Nat)]
    BY PathTail DEF Receive
  <1>2. /\ HandleFirst(f, n) \/ HandleNew(f, n) \/ HandleRepetitive(f, n)
        /\ counter' = counter /\ sent' = sent /\ restarts' = restarts
    BY DEF Receive, talker
  <1> HIDE DEF n
  <1>3. /\ recorder \in [Flows -> Seq(Interval)] /\ passed \in [Flows -> Seq(Nat)]
        /\ eliminated \in [Flows -> SUBSET Nat]
        /\ FlowSound(f) /\ Wire(f, n) = Number(sent[f], n)
    BY DEF RecoveryInv, TypeOK, Wire, Number
  <1>4. /\ Sound(recorder'[f], passed'[f], eliminated'[f], sent'[f])
        /\ \A g \in Flows : g # f => /\ recorder'[g] = recorder[g]
                                     /\ passed'[g] = passed[g] /\ eliminated'[g] = eliminated[g]
        /\ \E fr, ps, el : /\ recorder' = [recorder EXCEPT ![f] = fr]
                            /\ passed' = [passed EXCEPT ![f] = ps]
                            /\ eliminated' = [eliminated EXCEPT ![f] = el]
    <2>1. CASE HandleFirst(f, n)
      <3>1. Sound(<<Entry(Wire(f, n), Wire(f, n))>>, Append(passed[f], n), eliminated[f], sent[f])
        BY <1>1, <1>3, <2>1, SoundFirst DEF HandleFirst, FlowSound
      <3>2. QED
        BY <1>2, <1>3, <2>1, <3>1 DEF HandleFirst
    <2>2. CASE HandleNew(f, n)
      <3>1. Sound(Recorded(recorder[f], Wire(f, n)), Append(passed[f], n), eliminated[f], sent[f])
        BY <1>1, <1>3, <2>2, SoundNew DEF HandleNew, FlowSound
      <3>2. QED
        BY <1>2, <1>3, <2>2, <3>1 DEF HandleNew
    <2>3. CASE HandleRepetitive(f, n)
      <3>1. Sound(recorder[f], passed[f], eliminated[f] \cup {n}, sent[f])
        BY <1>1, <1>3, <2>3, SoundRepetitive DEF HandleRepetitive, FlowSound
      <3>2. /\ recorder' = recorder /\ passed' = passed
            /\ eliminated' = [eliminated EXCEPT ![f] = eliminated[f] \cup {n}]
        BY <2>3 DEF HandleRepetitive
      <3>3. /\ recorder' = [recorder EXCEPT ![f] = recorder[f]]
            /\ passed' = [passed EXCEPT ![f] = passed[f]]
            /\ eliminated'[f] = eliminated[f] \cup {n}
            /\ \A g \in Flows : g # f => eliminated'[g] = eliminated[g]
        BY <1>3, <3>2
      <3>4. Sound(recorder'[f], passed'[f], eliminated'[f], sent'[f])
        BY <1>2, <3>1, <3>2, <3>3
      <3>5. QED
        BY <3>2, <3>3, <3>4
    <2>4. QED
      BY <1>2, <2>1, <2>2, <2>3
  <1>5. ASSUME NEW g \in Flows PROVE FlowSound(g)' /\ counter'[g] <= Len(sent'[g])
    BY <1>2, <1>4 DEF RecoveryInv, FlowSound
  <1>6. TypeOK'
    <2>1. /\ recorder'[f] \in Seq(Interval) /\ passed'[f] \in Seq(Nat)
          /\ eliminated'[f] \in SUBSET Nat
      BY <1>4 DEF Sound
    <2>2. /\ recorder' \in [Flows -> Seq(Interval)] /\ passed' \in [Flows -> Seq(Nat)]
          /\ eliminated' \in [Flows -> SUBSET Nat]
      BY <1>3, <1>4, <2>1
    <2>3. QED
      BY <1>1, <1>2, <2>2 DEF RecoveryInv, TypeOK
  <1>7. QED
    BY <1>1, <1>5, <1>6 DEF RecoveryInv

-----------------------------------------------------------------------------
\* The invariant is inductive.
LEMMA RecoveryInvariant == Spec => []RecoveryInv
  <1>1. RecoveryInv /\ [Next]_vars => RecoveryInv'
    <2> SUFFICES ASSUME RecoveryInv, [Next]_vars PROVE RecoveryInv'
      OBVIOUS
    <2>1. CASE \E f \in Flows : Send(f) \/ Restart(f)
      BY <2>1, SendSound, RestartSound
    <2>2. CASE \E f \in Flows, p \in Paths : Receive(f, p) \/ Lose(f, p)
      BY <2>2, ReceiveSound, LoseSound
    <2>3. CASE UNCHANGED vars
      BY <2>3 DEF vars, RecoveryInv, TypeOK, FlowSound
    <2>4. QED
      BY <2>1, <2>2, <2>3 DEF Next
  <1>2. QED
    BY InitSound, <1>1, PTL DEF Spec

\* Every reachable state is well typed: the lists hold numbers of the wire only.
THEOREM RecoveryTypeCorrect == Spec => []TypeOK
  <1>1. RecoveryInv => TypeOK
    BY DEF RecoveryInv
  <1>2. QED
    BY RecoveryInvariant, <1>1, PTL

\* However the copies arrive, checkRepetitive leaves the list of every flow sorted,
\* with a gap between neighbours.
THEOREM ListsStayCanonical == Spec => []Canonical
  <1>1. RecoveryInv => Canonical
    BY DEF RecoveryInv, FlowSound, Sound, InOrder, Canonical
  <1>2. QED
    BY RecoveryInvariant, <1>1, PTL

\* The list stands for the numbers of the frames that passed, all of them and no other.
THEOREM ListRecordsWhatPassed == Spec => []RecordsWhatPassed
  <1>1. RecoveryInv => RecordsWhatPassed
    BY DEF RecoveryInv, FlowSound, Sound, RecordsWhatPassed, PassedNumbers, PassedOf, Wire, Number
  <1>2. QED
    BY RecoveryInvariant, <1>1, PTL

\* No frame passes twice at a port that eliminates, whatever the paths do.
THEOREM NoFramePassesTwice == Spec => []PassesOnce
  <1>1. RecoveryInv => PassesOnce
    BY DEF RecoveryInv, FlowSound, Sound, PassesOnce
  <1>2. QED
    BY RecoveryInvariant, <1>1, PTL

\* A frame of which no copy passed is eliminated only when its number is below all
\* recorded ones, or when it was used before, by the wrap or a restart of the talker.
THEOREM EveryEliminationExplained == Spec => []EliminationExplained
  <1>1. RecoveryInv => EliminationExplained
    BY DEF RecoveryInv, FlowSound, Sound, Explained, EliminationExplained, PassedNumbers,
           PassedOf, Wire, Number
  <1>2. QED
    BY RecoveryInvariant, <1>1, PTL

-----------------------------------------------------------------------------
\* The refinement

\* A frame of f with number s passed: in terms of the numbers, a step of the set.
LEMMA PassStep ==
    ASSUME RecoveryInv, NEW f \in Flows, NEW s \in Seqs, NEW fr,
           recorder' = [recorder EXCEPT ![f] = fr],
           Numbers(fr) = Numbers(recorder[f]) \cup {s}, s \notin Numbers(recorder[f]),
           recorder[f] = <<>> \/ \E k \in Numbers(recorder[f]) : k < s
    PROVE  Recovery!Next
  <1> DEFINE seen == [g \in Flows |-> Numbers(recorder[g])]
             seen2 == [g \in Flows |-> Numbers(recorder'[g])]
  <1>1. /\ recorder'[f] = fr
        /\ \A g \in Flows : g # f => recorder'[g] = recorder[g]
    BY DEF RecoveryInv, TypeOK
  <1>2. seen2 = [seen EXCEPT ![f] = seen[f] \cup {s}]
    <2>1. ASSUME NEW g \in Flows
          PROVE  seen2[g] = IF g = f THEN seen[g] \cup {s} ELSE seen[g]
      <3>1. seen2[g] = Numbers(recorder'[g]) /\ seen[g] = Numbers(recorder[g])
        OBVIOUS
      <3> HIDE DEF seen, seen2
      <3>2. CASE g = f
        BY <1>1, <3>1, <3>2
      <3>3. CASE g # f
        BY <1>1, <3>1, <3>3
      <3>4. QED
        BY <3>2, <3>3
    <2>2. seen2 = [g \in Flows |-> seen2[g]] /\ seen = [g \in Flows |-> seen[g]]
      OBVIOUS
    <2> HIDE DEF seen, seen2
    <2>3. QED
      BY <2>1, <2>2
  <1>3. recorder[f] = <<>> => seen[f] = {}
    BY DEF Numbers
  <1>4. Recovery!Pass(f, s)
    BY <1>2, <1>3 DEF Recovery!Pass
  <1>5. QED
    BY <1>4 DEF Recovery!Next, Recovery!Seqs, Seqs

LEMMA ReceiveRefines ==
    ASSUME RecoveryInv, NEW f \in Flows, NEW p \in Paths, Receive(f, p)
    PROVE  Recovery!Next \/ recorder' = recorder
  <1> DEFINE n == Head(inTransit[<<f, p>>])
             s == Wire(f, n)
             M == SeqSpace - 1
  <1>1. n \in 1 .. Len(sent[f]) /\ (HandleFirst(f, n) \/ HandleNew(f, n) \/ HandleRepetitive(f, n))
    BY PathTail DEF Receive
  <1> HIDE DEF n
  <1>2. FlowSound(f) /\ sent[f] \in Seq(1 .. MaxFrames) /\ s = Number(sent[f], n)
    BY DEF RecoveryInv, FlowSound, Sound, Wire, Number
  <1>3. s \in Seqs
    BY <1>1, <1>2, NumberTypes DEF Seqs
  <1> HIDE DEF s
  <1>4. CASE HandleFirst(f, n)
    <2>1. recorder[f] = <<>> /\ recorder' = [recorder EXCEPT ![f] = <<Entry(s, s)>>]
      BY <1>4 DEF HandleFirst, s
    <2>2. Numbers(<<Entry(s, s)>>) = {s}
      <3>1. s \in Int /\ Entry(s, s).lower .. Entry(s, s).upper = {s}
        BY <1>3, RecoveryAssumption DEF Seqs, Entry
      <3>2. Numbers(<<Entry(s, s)>>) = Entry(s, s).lower .. Entry(s, s).upper
        <4> DEFINE fr == <<Entry(s, s)>>
        <4>1. DOMAIN fr = {1} /\ fr[1] = Entry(s, s)
          OBVIOUS
        <4> HIDE DEF fr
        <4>2. Numbers(fr) = fr[1].lower .. fr[1].upper
          BY <4>1 DEF Numbers
        <4>3. QED
          BY <4>1, <4>2 DEF fr
      <3>3. QED
        BY <3>1, <3>2
    <2>3. Numbers(recorder[f]) = {}
      BY <2>1 DEF Numbers
    <2>4. QED
      BY <1>3, <2>1, <2>2, <2>3, PassStep
  <1>5. CASE HandleNew(f, n)
    <2>1. /\ recorder[f] # <<>> /\ ~Repetitive(recorder[f], s)
          /\ recorder' = [recorder EXCEPT ![f] = Recorded(recorder[f], s)]
      BY <1>5 DEF HandleNew, s
    <2>2. recorder[f] \in Seq(EntriesTo(M)) /\ InOrder(recorder[f]) /\ M \in Nat /\ s \in 0 .. M
      BY <1>2, <1>3, IntervalEntries DEF FlowSound, Sound
    <2>3. /\ s \notin Numbers(recorder[f]) /\ \E k \in Numbers(recorder[f]) : k < s
          /\ Extended(Recorded(recorder[f], s), recorder[f], s, M)
      BY <2>1, <2>2, RepetitiveByNumbers, RecordedExact
    <2>4. QED
      BY <1>3, <2>1, <2>3, PassStep DEF Extended
  <1>6. CASE HandleRepetitive(f, n)
    BY <1>6 DEF HandleRepetitive
  <1>7. QED
    BY <1>1, <1>4, <1>5, <1>6

\* The interval list implements the set of the numbers that passed and its rule:
\* merging, growing and inserting never change what the list stands for.
THEOREM ListImplementsSet == Spec => ImplementsRecovery
  <1>1. Init => Recovery!Init
    <2>1. Numbers(<<>>) = {}
      BY DEF Numbers
    <2>2. QED
      BY <2>1 DEF Init, Recovery!Init
  <1>2. RecoveryInv /\ [Next]_vars => [Recovery!Next]_([f \in Flows |-> Numbers(recorder[f])])
    <2> SUFFICES ASSUME RecoveryInv, [Next]_vars
                 PROVE  Recovery!Next \/ recorder' = recorder
      OBVIOUS
    <2>1. CASE \E f \in Flows : Send(f) \/ Restart(f)
      BY <2>1 DEF Send, Restart
    <2>2. CASE \E f \in Flows, p \in Paths : Receive(f, p) \/ Lose(f, p)
      BY <2>2, ReceiveRefines DEF Lose
    <2>3. CASE UNCHANGED vars
      BY <2>3 DEF vars
    <2>4. QED
      BY <2>1, <2>2, <2>3 DEF Next
  <1>3. QED
    BY RecoveryInvariant, <1>1, <1>2, PTL DEF Spec, ImplementsRecovery, Recovery!Spec
=============================================================================
