------------------------- MODULE TalkerPath_proofs -------------------------
(***************************************************************************)
(* Theorems about FlowApp and the path of its frames, for any number of    *)
(* flows, sizes, code points and flow numbers, and however many tickers    *)
(* preempt the loop.                                                       *)
(***************************************************************************)
EXTENDS TalkerPath, ListLemmas

-----------------------------------------------------------------------------
\* The codec

\* Bytes and words are natural numbers, and what is stored in them fits.
LEMMA Truncated ==
    /\ \A n \in Byte : n \in Nat /\ n < 256 /\ Uint8(n) = n
    /\ \A n \in Word \cup VlanId : n \in Nat
    /\ \A n \in Nat : Uint8(n) \in Byte /\ Uint16(n) \in Word
  <1>1. \A n \in Byte : n \in Nat /\ n < 256 /\ Uint8(n) = n
    BY DEF Uint8, Byte
  <1>2. \A n \in Word \cup VlanId : n \in Nat
    BY DEF Word, VlanId
  <1>3. ASSUME NEW n \in Nat PROVE Uint8(n) \in Byte
    BY DEF Uint8, Byte
  <1>4. ASSUME NEW n \in Nat PROVE Uint16(n) \in Word
    BY SMTT(40) DEF Uint16, Word
  <1>5. QED
    BY <1>1, <1>2, <1>3, <1>4

\* The tag control information: code point and vlan id come back.
LEMMA TciInverse ==
    ASSUME NEW pcp \in Byte, NEW dei \in Bit, NEW vid \in VlanId
    PROVE  \E x, y \in Nat :
               /\ EncodeTci(pcp, dei, vid) = <<x, y>>
               /\ (x \div 32) = CodePoint(pcp)
               /\ (x % 16) * 256 = vid - y
  <1> DEFINE c == CodePoint(pcp)
             h == vid \div 256
             l == vid % 256
  <1>1. c \in 0 .. 7 /\ dei \in {0, 1}
    BY DEF CodePoint, Byte, Bit
  <1>2. h \in 0 .. 15 /\ l \in 0 .. 255 /\ vid = h * 256 + l
    BY DEF VlanId
  <1>3. EncodeTci(pcp, dei, vid) = <<c * 32 + dei * 16 + h, l>>
    BY DEF EncodeTci
  <1> HIDE DEF c, h, l
  <1>4. (c * 32 + dei * 16 + h) \div 32 = c
    BY <1>1, <1>2
  <1>5. (c * 32 + dei * 16 + h) % 16 = h
    BY <1>1, <1>2
  <1>6. c * 32 + dei * 16 + h \in Nat /\ l \in Nat
    BY <1>1, <1>2
  <1>7. QED
    BY <1>2, <1>3, <1>4, <1>5, <1>6 DEF c

\* Decoding inverts encoding, but for a code point above seven, which is sent as
\* zero, a flow number above 255, which is truncated, and the length, which is
\* always taken for the largest.
THEOREM DecodeInvertsEncode ==
    ASSUME NEW b \in Bodies, NEW dei \in Bit
    PROVE  Decode(Encode(b, dei)) =
               [pcp |-> CodePoint(b.pcp), vid |-> b.vid, seq |-> b.seq,
                fid |-> Uint8(b.fid), phase |-> b.phase, bytes |-> DataLen]
  <1>1. /\ b.pcp \in Byte /\ b.vid \in VlanId /\ b.seq \in Word
        /\ b.fid \in Nat /\ b.phase \in Byte
    BY DEF Bodies
  <1> DEFINE w == Encode(b, dei)
             tci == EncodeTci(b.pcp, dei, b.vid)
             high == b.seq \div 256
             low == b.seq % 256
  <1>2. /\ w.tci = tci
        /\ w.rsv[1] = Uint8(b.fid) /\ w.rsv[2] = Uint8(b.phase)
        /\ w.seq[1] = high /\ w.seq[2] = low
    BY DEF Encode, EncodeRtci
  <1>3. PICK x \in Nat, y \in Nat :
            tci = <<x, y>> /\ (x \div 32) = CodePoint(b.pcp) /\ (x % 16) * 256 = b.vid - y
    BY <1>1, TciInverse
  <1>4. b.seq \in Nat /\ Uint8(b.phase) = b.phase
    BY <1>1, Truncated
  <1>5. high * 256 + low = b.seq
    BY <1>4
  <1> HIDE DEF w, tci, high, low
  <1>6. Decode(w) = [pcp |-> CodePoint(b.pcp), vid |-> b.vid, seq |-> b.seq,
                     fid |-> Uint8(b.fid), phase |-> b.phase, bytes |-> DataLen]
    <2>1. w.tci[1] = x /\ w.tci[2] = y
      BY <1>2, <1>3
    <2>2. (x % 16) * 256 + y = b.vid
      <3>1. b.vid \in Nat
        BY <1>1, Truncated
      <3>2. (x % 16) \in Nat
        BY <1>3
      <3>3. QED
        BY <1>3, <3>1, <3>2
    <2>3. QED
      BY <1>2, <1>3, <1>4, <1>5, <2>1, <2>2 DEF Decode
  <1>7. QED
    BY <1>6 DEF w

-----------------------------------------------------------------------------
\* The bursts

LEMMA FramesPositive ==
    ASSUME NEW i \in Indices
    PROVE  Frames(i) \in Nat \ {0}
  <1> DEFINE s == Size[i]
             m == Mtu
  <1>1. s \in Nat \ {0} /\ m \in Nat \ {0}
    BY FlowAssumption
  <1> HIDE DEF s, m
  <1>2. (s \div m) \in Nat /\ (s % m) \in 0 .. m - 1 /\ s = m * (s \div m) + (s % m)
    BY <1>1
  <1>3. (s % m) = 0 => (s \div m) # 0
    BY <1>1, <1>2
  <1>4. (s \div m) + (IF (s % m) # 0 THEN 1 ELSE 0) \in Nat \ {0}
    BY <1>2, <1>3
  <1>5. QED
    BY <1>4 DEF Frames, s, m

\* The flow after the last one is the first.
LEMMA NextFlow ==
    ASSUME NEW i \in Indices
    PROVE  (i + 1) % FlowNum \in Indices
  <1> DEFINE n == FlowNum
  <1>1. n \in Nat \ {0} /\ i + 1 \in Nat
    BY FlowAssumption DEF Indices
  <1> HIDE DEF n
  <1>2. (i + 1) % n \in 0 .. n - 1
    BY <1>1
  <1>3. QED
    BY <1>2 DEF Indices, n

\* What is still due when the loop is at the end of a frame: at most a burst and
\* what was received.
AtMostBurst(count) == \E i \in Indices : count <= Frames(i) + received

\* The strengthening of CountBounded: the counts the loop has loaded are bounded as
\* well, and a frame being built is one that is due.
CountInv ==
    /\ TypeOK
    /\ AtMostBurst(iframeCount)
    /\ pc \in {"flow", "size", "last", "build", "load"} => iframeCount >= 1
    /\ pc = "store" => loaded >= 1 /\ AtMostBurst(loaded)
    /\ pc = "count" => AtMostBurst(loaded + 1)
    /\ pc \in {"load", "store"} => frames # <<>>

LEMMA InitCount == Init => CountInv
  <1> SUFFICES ASSUME Init PROVE CountInv
    OBVIOUS
  <1>1. 0 \in Indices
    BY FlowAssumption DEF Indices
  <1>2. TypeOK
    BY <1>1, FlowAssumption DEF Init, TypeOK
  <1>3. AtMostBurst(iframeCount)
    BY <1>1, FramesPositive DEF Init, AtMostBurst
  <1>4. QED
    BY <1>2, <1>3 DEF Init, CountInv

\* A burst is announced.
LEMMA RegisterCount ==
    ASSUME CountInv, NEW i \in Indices, Register(i)
    PROVE  /\ iframeCount' \in Nat /\ iframeCount' >= 1 /\ lastFrameSize' \in {0, Mtu}
           /\ \E k \in Indices : iframeCount' <= Frames(k) + received
  <1>1. Frames(i) \in Nat \ {0} /\ received \in Nat
    BY FramesPositive DEF CountInv, TypeOK
  <1>2. QED
    BY <1>1 DEF Register

LEMMA CountStep == CountInv /\ [Next]_vars => CountInv'
  <1> SUFFICES ASSUME CountInv, [Next]_vars PROVE CountInv'
    OBVIOUS
  <1> USE DEF shared, locals, bounds
  <1>0. /\ TypeOK /\ flowIndex \in Indices /\ iframeCount \in Nat /\ received \in Nat
        /\ \A i \in Indices : Frames(i) \in Nat
    BY FramesPositive DEF CountInv, TypeOK
  <1>1. ASSUME Start \/ Tick PROVE CountInv'
    <2>1. /\ iframeCount' \in Nat /\ iframeCount' >= 1 /\ lastFrameSize' \in {0, Mtu}
          /\ \E k \in Indices : iframeCount' <= Frames(k) + received
      BY <1>0, <1>1, RegisterCount DEF Start, Tick
    <2>2. /\ received' = received /\ pc' = pc /\ loaded' = loaded /\ frames' = frames
          /\ flow' = flow /\ frameSize' = frameSize /\ seq' = seq
      BY <1>1 DEF Start, Tick
    <2>3. flowIndex' \in Indices /\ ticks' \in 0 .. MaxTicks /\ running' \in BOOLEAN /\ armed' \in BOOLEAN
      <3>1. CASE Start
        BY <1>0, <3>1 DEF Start, TypeOK
      <3>2. CASE Tick
        <4>1. flowIndex' \in Indices
          BY <1>0, <3>2, NextFlow DEF Tick
        <4>2. ticks \in 0 .. MaxTicks /\ ticks < MaxTicks /\ ticks' = ticks + 1
          BY <1>0, <3>2 DEF Tick, TypeOK
        <4>3. ticks' \in 0 .. MaxTicks
          BY <4>2, FlowAssumption
        <4>4. running' \in BOOLEAN /\ armed' \in BOOLEAN
          BY <1>0, <3>2 DEF Tick, TypeOK
        <4>5. QED
          BY <4>1, <4>3, <4>4
      <3>3. QED
        BY <1>1, <3>1, <3>2
    <2>4. TypeOK'
      BY <1>0, <2>1, <2>2, <2>3 DEF TypeOK
    <2>5. QED
      BY <2>1, <2>2, <2>4 DEF CountInv, AtMostBurst
  <1>2. CASE NothingLeft \/ Output \/ LookUp \/ ChooseSize \/ ChooseLast \/ Disable
    <2>1. TypeOK'
      BY <1>0, <1>2 DEF NothingLeft, Output, LookUp, ChooseSize, ChooseLast, Disable, TypeOK
    <2>2. /\ iframeCount' = iframeCount /\ received' = received
          /\ pc' \in {"disable", "flow", "size", "last", "build", "idle"}
          /\ pc' \in {"flow", "size", "last", "build"} => iframeCount # 0
      BY <1>2 DEF NothingLeft, Output, LookUp, ChooseSize, ChooseLast, Disable, CountInv
    <2>3. QED
      BY <1>0, <2>1, <2>2 DEF CountInv, AtMostBurst
  <1>3. CASE Build
    <2>1. /\ [flow |-> flow, seq |-> seq[flow] + 1, bytes |-> frameSize] \in
                [flow : Indices, seq : Nat, bytes : {0, Mtu}]
          /\ seq' \in [Indices -> Nat]
      BY <1>0, <1>3 DEF Build, TypeOK
    <2>2. /\ frames' \in Seq([flow : Indices, seq : Nat, bytes : {0, Mtu}])
          /\ frames' # <<>>
      <3> DEFINE S == [flow : Indices, seq : Nat, bytes : {0, Mtu}]
                 f == [flow |-> flow, seq |-> seq[flow] + 1, bytes |-> frameSize]
      <3>1. frames \in Seq(S) /\ f \in S /\ frames' = Append(frames, f)
        BY <1>0, <1>3, <2>1 DEF Build, TypeOK
      <3> HIDE DEF S, f
      <3>2. frames' \in Seq(S) /\ frames' # <<>>
        BY <3>1, AppendProperties
      <3>3. QED
        BY <3>2 DEF S
    <2>3. TypeOK'
      BY <1>0, <1>3, <2>1, <2>2 DEF Build, TypeOK
    <2>4. QED
      BY <1>3, <2>2, <2>3 DEF Build, CountInv, AtMostBurst
  <1>4. CASE Load
    BY <1>0, <1>4 DEF Load, CountInv, AtMostBurst, TypeOK
  <1>5. CASE Store
    <2>1. loaded >= 1 /\ loaded \in Nat /\ AtMostBurst(loaded)
      BY <1>0, <1>5 DEF Store, CountInv, TypeOK
    <2>2. iframeCount' \in Nat /\ AtMostBurst(iframeCount')
      BY <1>0, <1>5, <2>1 DEF Store, AtMostBurst
    <2>3. TypeOK'
      BY <1>0, <1>5, <2>2 DEF Store, TypeOK
    <2>4. QED
      BY <1>5, <2>2, <2>3 DEF Store, CountInv, AtMostBurst
  <1>6. CASE Input
    <2>1. TypeOK'
      BY <1>0, <1>6, FlowAssumption DEF Input, TypeOK
    <2>2. \E i \in Indices : iframeCount <= Frames(i) + received
      BY DEF CountInv, AtMostBurst
    <2>3. AtMostBurst(iframeCount)' /\ AtMostBurst(loaded + 1)'
      BY <1>0, <1>6, <2>2 DEF Input, AtMostBurst
    <2>4. QED
      BY <1>6, <2>1, <2>3 DEF Input, CountInv
  <1>7. CASE Count
    <2>1. loaded \in Nat /\ AtMostBurst(loaded + 1)
      BY <1>0, <1>7 DEF Count, CountInv, TypeOK
    <2>2. TypeOK'
      BY <1>0, <1>7, <2>1 DEF Count, TypeOK
    <2>3. QED
      BY <1>7, <2>1, <2>2 DEF Count, CountInv, AtMostBurst
  <1>8. CASE UNCHANGED vars
    BY <1>0, <1>8 DEF vars, CountInv, AtMostBurst, TypeOK
  <1>9. QED
    BY <1>1, <1>2, <1>3, <1>4, <1>5, <1>6, <1>7, <1>8 DEF Next, SendLoop

-----------------------------------------------------------------------------
\* The numbers

\* The strengthening of NumberedInOrder: the counter of a flow is the number of its
\* last frame.
NumberInv ==
    /\ NumberedInOrder
    /\ \A n \in DOMAIN frames : frames[n].seq <= seq[frames[n].flow]
    /\ \A i \in Indices : seq[i] > 0 =>
           \E n \in DOMAIN frames : frames[n].flow = i /\ frames[n].seq = seq[i]

LEMMA InitNumber == Init => NumberInv
  BY DEF Init, NumberInv, NumberedInOrder

LEMMA BuildNumber == TypeOK /\ NumberInv /\ Build => NumberInv'
  <1> SUFFICES ASSUME TypeOK, NumberInv, Build PROVE NumberInv'
    OBVIOUS
  <1> DEFINE S == [flow : Indices, seq : Nat, bytes : {0, Mtu}]
             f == [flow |-> flow, seq |-> seq[flow] + 1, bytes |-> frameSize]
             L == Len(frames)
  <1>1. /\ frames \in Seq(S) /\ f \in S /\ frames' = Append(frames, f)
        /\ flow \in Indices /\ seq \in [Indices -> Nat]
        /\ f.flow = flow /\ f.seq = seq[flow] + 1
        /\ seq' = [seq EXCEPT ![flow] = seq[flow] + 1]
    BY DEF Build, TypeOK
  <1> HIDE DEF S, f
  <1>2. /\ L \in Nat /\ DOMAIN frames = 1 .. L /\ DOMAIN frames' = 1 .. L + 1
        /\ \A n \in 1 .. L : frames'[n] = frames[n]
        /\ frames'[L + 1] = f
    BY <1>1, AppendProperties, LenProperties
  <1>3. \A n \in 1 .. L : frames[n].flow \in Indices /\ frames[n].seq \in Nat
    <2>1. \A n \in 1 .. L : frames[n] \in S
      BY <1>1, ElementOfSeq
    <2>2. QED
      BY <2>1 DEF S
  <1> HIDE DEF L
  <1>4. /\ \A n \in 1 .. L : frames[n].seq <= seq[frames[n].flow]
        /\ seq[flow] > 0 => \E n \in 1 .. L : frames[n].flow = flow /\ frames[n].seq = seq[flow]
        /\ \A i \in Indices : seq[i] > 0 =>
               \E n \in 1 .. L : frames[n].flow = i /\ frames[n].seq = seq[i]
    BY <1>1, <1>2 DEF NumberInv
  <1>5. \A i \in Indices : seq[i] \in Nat /\ seq'[i] = IF i = flow THEN seq[i] + 1 ELSE seq[i]
    BY <1>1
  <1>6. ASSUME NEW n \in 1 .. L + 1
        PROVE  /\ frames'[n].seq >= 1
               /\ \A m \in 1 .. n - 1 : frames'[m].flow = frames'[n].flow
                                           => frames'[m].seq < frames'[n].seq
               /\ frames'[n].seq > 1 =>
                      \E m \in 1 .. n - 1 : /\ frames'[m].flow = frames'[n].flow
                                            /\ frames'[m].seq = frames'[n].seq - 1
    <2>1. CASE n \in 1 .. L
      <3>1. \A m \in 1 .. n - 1 : frames'[m] = frames[m]
        BY <1>2, <2>1
      <3>2. frames'[n] = frames[n] /\ n \in DOMAIN frames
        BY <1>2, <2>1
      <3>3. QED
        BY <3>1, <3>2 DEF NumberInv, NumberedInOrder
    <2>2. CASE n = L + 1
      <3>1. frames'[n].flow = flow /\ frames'[n].seq = seq[flow] + 1
        BY <1>1, <1>2, <2>2
      <3>2. n - 1 = L /\ \A m \in 1 .. L : frames'[m] = frames[m]
        BY <1>2, <2>2
      <3>3. \A m \in 1 .. L : frames[m].flow = flow => frames[m].seq < seq[flow] + 1
        BY <1>1, <1>3, <1>4, <1>5
      <3>4. seq[flow] + 1 > 1 => \E m \in 1 .. L :
                frames[m].flow = flow /\ frames[m].seq = (seq[flow] + 1) - 1
        BY <1>1, <1>4, <1>5
      <3>5. seq[flow] + 1 >= 1
        BY <1>1, <1>5
      <3>6. QED
        BY <3>1, <3>2, <3>3, <3>4, <3>5
    <2>3. QED
      BY <1>2, <2>1, <2>2
  <1>7. NumberedInOrder'
    BY <1>2, <1>6 DEF NumberedInOrder
  <1>8. ASSUME NEW n \in 1 .. L + 1 PROVE frames'[n].seq <= seq'[frames'[n].flow]
    <2>1. CASE n \in 1 .. L
      BY <1>2, <1>3, <1>4, <1>5, <2>1
    <2>2. CASE n = L + 1
      BY <1>1, <1>2, <1>5, <2>2
    <2>3. QED
      BY <1>2, <2>1, <2>2
  <1>9. ASSUME NEW i \in Indices, seq'[i] > 0
        PROVE  \E n \in 1 .. L + 1 : frames'[n].flow = i /\ frames'[n].seq = seq'[i]
    <2>1. CASE i = flow
      BY <1>1, <1>2, <1>5, <2>1
    <2>2. CASE i # flow
      <3>1. PICK n \in 1 .. L : frames[n].flow = i /\ frames[n].seq = seq[i]
        BY <1>4, <1>5, <1>9, <2>2
      <3>2. QED
        BY <1>2, <1>5, <2>2, <3>1
    <2>3. QED
      BY <2>1, <2>2
  <1>10. QED
    BY <1>2, <1>7, <1>8, <1>9 DEF NumberInv

LEMMA NumberStep == TypeOK /\ NumberInv /\ [Next]_vars => NumberInv'
  <1> SUFFICES ASSUME TypeOK, NumberInv, [Next]_vars PROVE NumberInv'
    OBVIOUS
  <1>1. CASE Build
    BY <1>1, BuildNumber
  <1>2. CASE frames' = frames /\ seq' = seq
    BY <1>2 DEF NumberInv, NumberedInOrder
  <1>3. Build \/ (frames' = frames /\ seq' = seq)
    BY DEF Next, SendLoop, Start, Tick, NothingLeft, Output, LookUp, ChooseSize, ChooseLast,
           Load, Store, Disable, Input, Count, vars, shared, locals, bounds
  <1>4. QED
    BY <1>1, <1>2, <1>3

-----------------------------------------------------------------------------
\* Along the path

LEMMA PathStep == [PathNext]_talkerVars => [Next]_vars
  BY DEF PathNext, Announce, Disturb, Prepare, Send, Next, SendLoop, talkerVars

LEMMA FlowInvariant == PathSpec => [](CountInv /\ NumberInv)
  <1>1. PathInit => CountInv /\ NumberInv
    BY InitCount, InitNumber DEF PathInit
  <1>2. CountInv /\ NumberInv /\ [PathNext]_talkerVars => (CountInv /\ NumberInv)'
    BY PathStep, CountStep, NumberStep DEF CountInv
  <1>3. QED
    BY <1>1, <1>2, PTL DEF PathSpec

\* The tickers in the signal handler and the loop, which overwrite each other's
\* counts (FlowApp.cc:225, 171), never make more frames due than a burst has and
\* frames were received, and output() never counts below zero.
THEOREM CountStaysBounded == PathSpec => []CountBounded
  <1>1. CountInv => CountBounded
    BY DEF CountInv, CountBounded, AtMostBurst
  <1>2. QED
    BY <1>1, FlowInvariant, PTL

\* A flow's frames are numbered without gap or repetition (FlowApp.cc:212), whatever
\* the tickers do to the current flow while a frame is being built.
THEOREM NumbersHaveNoGap == PathSpec => []NumberedInOrder
  <1>1. NumberInv => NumberedInOrder
    BY DEF NumberInv
  <1>2. QED
    BY <1>1, FlowInvariant, PTL

-----------------------------------------------------------------------------
\* The tags on the path

LEMMA CodePoints ==
    \A n \in Byte : /\ CodePoint(n) \in 0 .. 7 /\ CodePoint(n) \in Byte
                    /\ CodePoint(CodePoint(n)) = CodePoint(n)
                    /\ n < 8 => CodePoint(n) = n
  BY DEF CodePoint, Byte

\* A frame sent and received once.
LEMMA Relayed ==
    ASSUME NEW b \in Bodies, NEW dei \in Bit
    PROVE  LET r == Decode(Encode(b, dei))
           IN  /\ r \in Bodies
               /\ r.pcp = CodePoint(b.pcp) /\ r.vid = b.vid /\ r.seq = b.seq
               /\ r.fid = Uint8(b.fid) /\ r.phase = b.phase
  <1>1. /\ b.pcp \in Byte /\ b.vid \in VlanId /\ b.seq \in Word
        /\ b.fid \in Nat /\ b.phase \in Byte
    BY DEF Bodies
  <1>2. CodePoint(b.pcp) \in Byte
    BY <1>1, CodePoints
  <1>3. Uint8(b.fid) \in Nat
    BY <1>1, Truncated
  <1>4. DataLen \in 0 .. DataLen
    BY CodecAssumption
  <1>5. QED
    BY <1>1, <1>2, <1>3, <1>4, DecodeInvertsEncode DEF Bodies

LEMMA TalkerBody ==
    ASSUME NEW pcp \in Nat, NEW id \in Nat, NEW number \in Nat, NEW bytes \in {0, Mtu}
    PROVE  LET b == Body(pcp, id, number, bytes)
           IN  /\ b \in Bodies
               /\ b.pcp = Uint8(pcp) /\ b.vid = 1 /\ b.seq = Uint16(number)
               /\ b.fid = id /\ b.phase = 0
  <1>1. 1 \in VlanId /\ 0 \in Byte
    BY DEF VlanId, Byte
  <1>2. Uint8(pcp) \in Byte /\ Uint16(number) \in Word
    BY Truncated
  <1>3. bytes \in 0 .. DataLen
    BY CodecAssumption, ProfileAssumption, FlowAssumption
  <1>4. QED
    BY <1>1, <1>2, <1>3 DEF Body, Bodies

\* What a tag says of a frame numbered number of a flow with code point pcp and
\* uniqueID id.
Tagged(b, pcp, id, number) ==
    /\ b.pcp \in 0 .. 7
    /\ pcp < 8 => b.pcp = pcp
    /\ b.fid = id % 256
    /\ b.vid = 1 /\ b.phase = 0
    /\ b.seq = Uint16(number)

LEMMA TagsOfFrame ==
    ASSUME NEW pcp \in Nat, NEW id \in Nat, NEW number \in Nat, NEW bytes \in {0, Mtu},
           NEW d \in Bit, NEW e \in Bit
    PROVE  LET b == Decode(Encode(Body(pcp, id, number, bytes), d))
               c == Decode(Encode(b, e))
           IN  /\ b \in Bodies /\ Tagged(b, pcp, id, number)
               /\ c \in Bodies /\ Tagged(c, pcp, id, number)
  <1> DEFINE a == Body(pcp, id, number, bytes)
             b == Decode(Encode(a, d))
             c == Decode(Encode(b, e))
  <1>1. /\ a \in Bodies
        /\ a.pcp = Uint8(pcp) /\ a.vid = 1 /\ a.seq = Uint16(number)
        /\ a.fid = id /\ a.phase = 0
    BY TalkerBody
  <1> HIDE DEF a
  <1>2. /\ b \in Bodies
        /\ b.pcp = CodePoint(a.pcp) /\ b.vid = a.vid /\ b.seq = a.seq
        /\ b.fid = Uint8(a.fid) /\ b.phase = a.phase
    BY <1>1, Relayed
  <1> HIDE DEF b
  <1>3. /\ c \in Bodies
        /\ c.pcp = CodePoint(b.pcp) /\ c.vid = b.vid /\ c.seq = b.seq
        /\ c.fid = Uint8(b.fid) /\ c.phase = b.phase
    BY <1>2, Relayed
  <1> HIDE DEF c
  <1>4. /\ b.pcp \in 0 .. 7 /\ c.pcp = b.pcp
        /\ pcp < 8 => b.pcp = pcp
    <2>1. Uint8(pcp) \in Byte
      BY Truncated
    <2>2. b.pcp \in 0 .. 7 /\ c.pcp = b.pcp
      BY <1>1, <1>2, <1>3, <2>1, CodePoints
    <2>3. CASE pcp < 8
      <3>1. pcp \in Byte
        BY <2>3 DEF Byte
      <3>2. b.pcp = pcp
        BY <1>1, <1>2, <2>3, <3>1, Truncated, CodePoints
      <3>3. QED
        BY <2>2, <3>2
    <2>4. QED
      BY <2>2, <2>3
  <1>5. b.fid = id % 256 /\ c.fid = id % 256
    <2>1. Uint8(id) \in Byte
      BY Truncated
    <2>2. Uint8(Uint8(id)) = Uint8(id) /\ Uint8(id) = id % 256
      BY <2>1, Truncated DEF Uint8
    <2>3. QED
      BY <1>1, <1>2, <1>3, <2>2
  <1>6. Tagged(b, pcp, id, number) /\ Tagged(c, pcp, id, number)
    BY <1>1, <1>2, <1>3, <1>4, <1>5 DEF Tagged
  <1>7. QED
    BY <1>2, <1>3, <1>6 DEF a, b, c

\* What the listener heard, with the frames the talker built.
Heard == [built : [flow : Indices, seq : Nat, bytes : {0, Mtu}], relayed : Bodies, frame : Bodies]

TagInv ==
    /\ profile \in Profiles
    /\ heard \in Seq(Heard)
    /\ TagsArrive

LEMMA InitTags == PathInit => TagInv
  BY DEF PathInit, TagInv, TagsArrive

LEMMA SendTags == CountInv /\ TagInv /\ Send => TagInv'
  <1> SUFFICES ASSUME CountInv, TagInv, Send PROVE TagInv'
    OBVIOUS
  <1> DEFINE F == [flow : Indices, seq : Nat, bytes : {0, Mtu}]
             f == Last(frames)
             p == profile[f.flow]
  <1>1. f \in F
    <2>1. frames \in Seq(F) /\ frames # <<>>
      BY DEF CountInv, TypeOK, Send, Store
    <2> HIDE DEF F
    <2>2. Len(frames) \in 1 .. Len(frames)
      BY <2>1, EmptySeq, LenProperties
    <2>3. QED
      BY <2>1, <2>2, ElementOfSeq DEF Last
  <1> HIDE DEF f
  <1>2. f.flow \in Indices /\ f.seq \in Nat /\ f.bytes \in {0, Mtu}
    BY <1>1
  <1>3. p.pcp \in Nat /\ p.id \in Nat
    BY <1>2, ProfileAssumption DEF TagInv
  <1>4. profile' = profile /\ profile \in Profiles /\ heard \in Seq(Heard)
    BY DEF Send, TagInv
  <1>5. CASE heard' = heard
    BY <1>4, <1>5 DEF TagInv, TagsArrive
  <1>6. ASSUME NEW d \in Bit, NEW e \in Bit,
               heard' = Append(heard, [built |-> f, relayed |-> AtSwitch(f, d),
                                       frame |-> Decode(Encode(AtSwitch(f, d), e))])
        PROVE  TagInv'
    <2> DEFINE b == AtSwitch(f, d)
               c == Decode(Encode(b, e))
               h == [built |-> f, relayed |-> b, frame |-> c]
    <2>1. /\ b \in Bodies /\ Tagged(b, p.pcp, p.id, f.seq)
          /\ c \in Bodies /\ Tagged(c, p.pcp, p.id, f.seq)
      BY <1>2, <1>3, TagsOfFrame DEF AtSwitch
    <2>2. heard' = Append(heard, h)
      BY <1>6
    <2> HIDE DEF b, c
    <2>3. h \in Heard /\ h.built = f /\ h.relayed = b /\ h.frame = c
      BY <1>1, <2>1 DEF Heard
    <2> HIDE DEF h, p
    <2>4. /\ heard' \in Seq(Heard) /\ Len(heard) \in Nat
          /\ DOMAIN heard = 1 .. Len(heard) /\ DOMAIN heard' = 1 .. Len(heard) + 1
          /\ \A n \in 1 .. Len(heard) : heard'[n] = heard[n]
          /\ heard'[Len(heard) + 1] = h
      BY <1>4, <2>2, <2>3, AppendProperties, LenProperties
    <2>5. ASSUME NEW n \in DOMAIN heard',
                 NEW x \in {heard'[n].relayed, heard'[n].frame}
          PROVE  Tagged(x, profile[heard'[n].built.flow].pcp, profile[heard'[n].built.flow].id,
                        heard'[n].built.seq)
      <3>1. CASE n \in 1 .. Len(heard)
        BY <2>4, <2>5, <3>1 DEF TagInv, TagsArrive, Tagged
      <3>2. CASE n = Len(heard) + 1
        BY <2>1, <2>3, <2>4, <2>5, <3>2 DEF p
      <3>3. QED
        BY <2>4, <3>1, <3>2
    <2>6. TagsArrive'
      BY <1>4, <2>5 DEF TagsArrive, Tagged
    <2>7. QED
      BY <1>4, <2>4, <2>6 DEF TagInv
  <1>7. QED
    BY <1>5, <1>6 DEF Send, Convey, f

LEMMA TagStep == CountInv /\ TagInv /\ [PathNext]_talkerVars => TagInv'
  <1> SUFFICES ASSUME CountInv, TagInv, [PathNext]_talkerVars PROVE TagInv'
    OBVIOUS
  <1>1. CASE Send
    BY <1>1, SendTags
  <1>2. CASE heard' = heard /\ profile' = profile
    BY <1>2 DEF TagInv, TagsArrive
  <1>3. Send \/ (heard' = heard /\ profile' = profile)
    BY DEF PathNext, Announce, Disturb, Prepare, talkerVars, path
  <1>4. QED
    BY <1>1, <1>2, <1>3

\* What a listener finds in the tags of a frame is what the talker's profile says,
\* as far as it fits the fields, after one and after two conversions.
THEOREM TagsAlwaysArrive == PathSpec => []TagsArrive
  <1>1. PathInit => TagInv
    BY InitTags
  <1>2. CountInv /\ TagInv /\ [PathNext]_talkerVars => TagInv'
    BY TagStep
  <1>3. TagInv => TagsArrive
    BY DEF TagInv
  <1>4. QED
    BY <1>1, <1>2, <1>3, FlowInvariant, PTL DEF PathSpec

-----------------------------------------------------------------------------
\* The size of a burst

\* registerFlowToTimer: the size the last frame of a burst of flow i gets.
LastSize(i) == IF Size[i] % Mtu # 0 THEN Mtu ELSE 0

\* What a frame of that size carries on the wire.
Cut(bytes) == IF bytes > MaxPayload THEN MaxPayload ELSE bytes

\* What an undisturbed burst of flow i has carried when count frames are still due.
Carried(i, count) ==
    IF count = 0 THEN MaxPayload * (Frames(i) - 1) + Cut(LastSize(i))
                 ELSE MaxPayload * (Frames(i) - count)

LEMMA Payloads ==
    /\ MaxPayload \in Nat /\ Mtu \in Nat \ {0} /\ MaxPayload <= Mtu
    /\ Cut(Mtu) = MaxPayload /\ Cut(0) = 0
  BY CodecAssumption, ProfileAssumption, FlowAssumption DEF Cut

LEMMA Products ==
    ASSUME NEW a \in Int, NEW b \in Int, NEW n \in Nat
    PROVE  /\ a * n \in Int
           /\ (a - b) * n = a * n - b * n
           /\ a * (n + 1) = a * n + a
           /\ a * (n - 1) = a * n - a
           /\ a <= b => a * n <= b * n
  <1>1. a * n \in Int /\ b * n \in Int
    OBVIOUS
  <1>2. (a - b) * n = a * n - b * n
    OBVIOUS
  <1>3. a * (n + 1) = a * n + a /\ a * (n - 1) = a * n - a
    OBVIOUS
  <1>4. ASSUME a <= b PROVE a * n <= b * n
    <2>1. (b - a) \in Nat
      BY <1>4
    <2>2. (b - a) * n \in Nat
      BY <2>1
    <2>3. (b - a) * n = b * n - a * n
      OBVIOUS
    <2>4. QED
      BY <1>1, <2>2, <2>3
  <1>5. QED
    BY <1>1, <1>2, <1>3, <1>4

\* The whole burst: the inverted size of the last frame and the cut do not add up
\* to more than one frame.
LEMMA WholeBurst ==
    ASSUME NEW i \in Indices
    PROVE  /\ Carried(i, 0) < Size[i] + Mtu
           /\ Carried(i, 0) + Mtu + (Mtu - MaxPayload) * Frames(i) >= Size[i]
  <1> DEFINE s == Size[i]
             m == Mtu
             w == MaxPayload
             q == s \div m
             r == s % m
             c == Carried(i, 0)
             n == Frames(i)
  <1>1. s \in Nat \ {0} /\ m \in Nat \ {0} /\ w \in Nat /\ w <= m
    BY FlowAssumption, Payloads
  <1>2. q \in Nat /\ r \in 0 .. m - 1 /\ s = m * q + r
    <2> HIDE DEF s, m
    <2>1. QED
      BY <1>1
  <1>3. n = IF r # 0 THEN q + 1 ELSE q
    BY <1>2 DEF Frames
  <1>4. c = w * (n - 1) + (IF r # 0 THEN w ELSE 0)
    BY Payloads DEF Carried, LastSize
  <1>5. n \in Nat
    BY FramesPositive
  <1> HIDE DEF s, m, w, q, r, c, n
  <1>6. /\ w * q \in Int /\ m * q \in Int /\ w * q <= m * q
        /\ w * (q - 1) = w * q - w
        /\ (m - w) * q = m * q - w * q
        /\ (m - w) * (q + 1) = (m - w) * q + (m - w)
    BY <1>1, <1>2, Products
  <1>7. c < s + m /\ c + m + (m - w) * n >= s
    <2>1. CASE r = 0
      <3>1. c = w * q - w /\ (m - w) * n = m * q - w * q
        BY <1>1, <1>3, <1>4, <1>6, <2>1
      <3>2. QED
        BY <1>1, <1>2, <1>6, <2>1, <3>1
    <2>2. CASE r # 0
      <3>1. n - 1 = q
        BY <1>2, <1>3, <2>2
      <3>2. c = w * q + w
        BY <1>4, <2>2, <3>1
      <3>3. (m - w) * n = m * q - w * q + (m - w)
        BY <1>1, <1>3, <1>6, <2>2
      <3>4. QED
        BY <1>1, <1>2, <1>6, <2>2, <3>2, <3>3
    <2>3. QED
      BY <2>1, <2>2
  <1>8. QED
    BY <1>7 DEF s, m, w, c, n

\* What the loop knows of an undisturbed burst at each of its steps.
Undisturbed ==
    /\ pc # "count"
    /\ iframeCount \in 0 .. Frames(burst.flow)
    /\ lastFrameSize = LastSize(burst.flow)
    /\ burst.carried = Carried(burst.flow, iframeCount)
    /\ pc = "last" => iframeCount = 1
    /\ pc \in {"build", "load", "store"} =>
           frameSize = IF iframeCount = 1 THEN lastFrameSize ELSE Mtu
    /\ pc \in {"load", "store"} => Last(frames).bytes = frameSize
    /\ pc = "store" => loaded = iframeCount

BurstInv ==
    /\ burst.flow \in Indices
    /\ burst.undisturbed => Undisturbed

LEMMA AnnounceBurst == CountInv /\ BurstInv /\ Announce => BurstInv'
  <1> SUFFICES ASSUME CountInv, BurstInv, Announce PROVE BurstInv'
    OBVIOUS
  <1>1. /\ burst' = [flow |-> flowIndex, carried |-> 0, undisturbed |-> pc \in {"idle", "disable"}]
        /\ iframeCount' = Frames(flowIndex) /\ lastFrameSize' = LastSize(flowIndex)
        /\ pc' = pc /\ flowIndex \in Indices
    BY DEF Announce, Start, Tick, Register, LastSize, CountInv, TypeOK
  <1>2. /\ burst'.flow = flowIndex /\ burst'.carried = 0
        /\ burst'.undisturbed => pc \in {"idle", "disable"}
    BY <1>1
  <1>3. Frames(flowIndex) \in Nat \ {0}
    BY <1>1, FramesPositive
  <1>4. Carried(flowIndex, iframeCount') = 0
    <2> DEFINE n == Frames(flowIndex)
    <2> HIDE DEF n
    <2>1. n \in Nat \ {0} /\ MaxPayload \in Nat /\ iframeCount' = n
      BY <1>1, <1>3, Payloads DEF n
    <2>2. MaxPayload * (n - n) = 0
      BY <2>1
    <2>3. Carried(flowIndex, n) = 0
      BY <2>1, <2>2 DEF Carried, n
    <2>4. QED
      BY <2>1, <2>3
  <1>5. QED
    BY <1>1, <1>2, <1>3, <1>4 DEF BurstInv, Undisturbed

LEMMA SendBurst == CountInv /\ BurstInv /\ Send => BurstInv'
  <1> SUFFICES ASSUME CountInv, BurstInv, Send PROVE BurstInv'
    OBVIOUS
  <1> DEFINE bytes == Last(frames).bytes
             i == burst.flow
             count == iframeCount
  <1>1. /\ pc = "store" /\ pc' = "idle" /\ iframeCount' = loaded - 1 /\ lastFrameSize' = lastFrameSize
        /\ loaded >= 1
    BY DEF Send, Store, CountInv
  <1>2. /\ burst' = [burst EXCEPT !.carried = burst.carried + Cut(bytes)]
    BY DEF Send, Convey, Encode, Body, Cut
  <1>3. burst'.flow = burst.flow /\ burst'.undisturbed = burst.undisturbed
    BY <1>2
  <1>4. ASSUME burst.undisturbed PROVE Undisturbed'
    <2>1. /\ count \in 0 .. Frames(i) /\ loaded = count /\ lastFrameSize = LastSize(i)
          /\ burst.carried = Carried(i, count)
          /\ bytes = IF count = 1 THEN LastSize(i) ELSE Mtu
      BY <1>1, <1>4 DEF BurstInv, Undisturbed
    <2>2. burst'.carried = Carried(i, count) + Cut(bytes)
      BY <1>2, <2>1
    <2>3. i \in Indices /\ Frames(i) \in Nat \ {0}
      BY FramesPositive DEF BurstInv
    <2> DEFINE n == Frames(i)
               w == MaxPayload
    <2>4. n \in Nat \ {0} /\ w \in Nat /\ count \in 1 .. n /\ iframeCount' = count - 1
      BY <1>1, <2>1, <2>3, Payloads
    <2> HIDE DEF bytes, i, count, n, w
    <2>5. Carried(i, count) + Cut(bytes) = Carried(i, count - 1)
      <3>1. CASE count = 1
        <4>1. Carried(i, count) = w * (n - 1)
          BY <3>1 DEF Carried, n, w
        <4>2. Carried(i, count - 1) = w * (n - 1) + Cut(LastSize(i))
          BY <3>1 DEF Carried, n, w
        <4>3. QED
          BY <2>1, <3>1, <4>1, <4>2
      <3>2. CASE count # 1
        <4>1. Carried(i, count) = w * (n - count) /\ Carried(i, count - 1) = w * (n - (count - 1))
          BY <2>4, <3>2 DEF Carried, n, w
        <4>2. n - (count - 1) = (n - count) + 1 /\ n - count \in Nat
          BY <2>4
        <4>3. w * ((n - count) + 1) = w * (n - count) + w
          BY <2>4, <4>2, Products
        <4>4. Cut(bytes) = w
          BY <2>1, <3>2, Payloads DEF w
        <4>5. QED
          BY <4>1, <4>2, <4>3, <4>4
      <3>3. QED
        BY <3>1, <3>2
    <2>6. iframeCount' \in 0 .. n
      BY <2>4
    <2>7. burst'.flow = i /\ burst'.carried = Carried(i, iframeCount')
      BY <1>3, <2>2, <2>4, <2>5 DEF i
    <2>8. QED
      BY <1>1, <2>1, <2>6, <2>7 DEF Undisturbed, n
  <1>5. QED
    BY <1>3, <1>4 DEF BurstInv

LEMMA PrepareBurst == CountInv /\ BurstInv /\ Prepare => BurstInv'
  <1> SUFFICES ASSUME CountInv, BurstInv, Prepare PROVE BurstInv'
    OBVIOUS
  <1> USE DEF shared, locals, bounds
  <1>0. burst' = burst
    BY DEF Prepare, path
  <1>1. CASE NothingLeft \/ Output \/ LookUp \/ Disable
    BY <1>0, <1>1 DEF NothingLeft, Output, LookUp, Disable, BurstInv, Undisturbed
  <1>2. CASE ChooseSize \/ ChooseLast
    BY <1>0, <1>2 DEF ChooseSize, ChooseLast, BurstInv, Undisturbed
  <1>3. CASE Build
    <2> DEFINE S == [flow : Indices, seq : Nat, bytes : {0, Mtu}]
               f == [flow |-> flow, seq |-> seq[flow] + 1, bytes |-> frameSize]
    <2>1. frames \in Seq(S) /\ f \in S /\ frames' = Append(frames, f) /\ f.bytes = frameSize
      BY <1>3 DEF Build, CountInv, TypeOK
    <2> HIDE DEF S, f
    <2>2. Last(frames') = f
      BY <2>1, AppendProperties DEF Last
    <2>3. Last(frames').bytes = frameSize
      BY <2>1, <2>2
    <2>4. QED
      BY <1>0, <1>3, <2>3 DEF Build, BurstInv, Undisturbed
  <1>4. CASE Load
    BY <1>0, <1>4 DEF Load, BurstInv, Undisturbed
  <1>5. CASE Count
    BY <1>0, <1>5 DEF Count, BurstInv, Undisturbed
  <1>6. QED
    BY <1>1, <1>2, <1>3, <1>4, <1>5 DEF Prepare

LEMMA DisturbBurst == BurstInv /\ Disturb => BurstInv'
  <1> SUFFICES ASSUME BurstInv, Disturb PROVE BurstInv'
    OBVIOUS
  <1>1. burst' = [burst EXCEPT !.undisturbed = FALSE]
    BY DEF Disturb
  <1>2. QED
    BY <1>1 DEF BurstInv

\* Although the last frame of a burst has the wrong size (FlowApp.cc:249) and every
\* frame is cut (SendTSNFrameEventHandler.cc:93), a burst that nothing disturbs
\* carries the size of its flow but for one frame and the cuts, for all sizes.
THEOREM BurstsCarryTheirSize == PathSpec => []BurstWithinOneFrame
  <1>1. PathInit => BurstInv
    BY FlowAssumption DEF PathInit, BurstInv, Indices
  <1>2. CountInv /\ BurstInv /\ [PathNext]_talkerVars => BurstInv'
    <2> SUFFICES ASSUME CountInv, BurstInv, [PathNext]_talkerVars PROVE BurstInv'
      OBVIOUS
    <2>1. CASE UNCHANGED talkerVars
      BY <2>1 DEF talkerVars, vars, path, shared, locals, bounds, BurstInv, Undisturbed
    <2>2. QED
      BY <2>1, AnnounceBurst, SendBurst, PrepareBurst, DisturbBurst DEF PathNext
  <1>3. BurstInv => BurstWithinOneFrame
    BY WholeBurst DEF BurstInv, Undisturbed, BurstWithinOneFrame
  <1>4. QED
    BY <1>1, <1>2, <1>3, FlowInvariant, PTL DEF PathSpec

-----------------------------------------------------------------------------
\* Which frames reach the listener

\* A sequence that is not empty is its front and its last element.
LEMMA FrontAndLast ==
    ASSUME NEW S, NEW s \in Seq(S), s # <<>>
    PROVE  /\ Len(s) \in Nat \ {0} /\ DOMAIN s = 1 .. Len(s) /\ Last(s) = s[Len(s)] /\ Last(s) \in S
           /\ Front(s) \in Seq(S) /\ Len(Front(s)) = Len(s) - 1
           /\ \A i \in 1 .. Len(s) - 1 : Front(s)[i] = s[i]
           /\ \A e : e \in ToSet(Front(s)) <=> \E i \in 1 .. Len(s) - 1 : e = s[i]
           /\ ToSet(s) = ToSet(Front(s)) \cup {Last(s)}
  <1> DEFINE L == Len(s)
             t == Front(s)
  <1>1. L \in Nat \ {0} /\ DOMAIN s = 1 .. L /\ \A i \in 1 .. L : s[i] \in S
    BY EmptySeq, LenProperties, ElementOfSeq
  <1>2. t \in Seq(S) /\ Len(t) = L - 1 /\ \A i \in 1 .. L - 1 : t[i] = s[i]
    <2>1. t = SubSeq(s, 1, L - 1)
      BY DEF Front
    <2>2. \A i \in 1 .. L - 1 : s[i] \in S
      BY <1>1
    <2>3. /\ SubSeq(s, 1, L - 1) \in Seq(S)
          /\ Len(SubSeq(s, 1, L - 1)) = IF 1 <= L - 1 THEN L - 1 - 1 + 1 ELSE 0
          /\ \A i \in 1 .. L - 1 - 1 + 1 : SubSeq(s, 1, L - 1)[i] = s[1 + i - 1]
      BY <1>1, <2>2, SubSeqProperties
    <2> HIDE DEF t
    <2>4. QED
      BY <1>1, <2>1, <2>3
  <1> HIDE DEF t, L
  <1>3. DOMAIN t = 1 .. L - 1
    BY <1>2, LenProperties
  <1>4. \A e : e \in ToSet(t) <=> \E i \in 1 .. L - 1 : e = s[i]
    BY <1>2, <1>3 DEF ToSet
  <1>5. \A e : e \in ToSet(s) <=> e \in ToSet(t) \/ e = s[L]
    <2>1. \A e : e \in ToSet(s) <=> \E i \in 1 .. L : e = s[i]
      BY <1>1 DEF ToSet
    <2>2. \A i : i \in 1 .. L <=> i \in 1 .. L - 1 \/ i = L
      BY <1>1
    <2>3. QED
      BY <1>4, <2>1, <2>2
  <1>6. Last(s) = s[L] /\ s[L] \in S
    BY <1>1 DEF Last, L
  <1>7. QED
    BY <1>1, <1>2, <1>4, <1>5, <1>6 DEF t, L

\* The front of a sequence with one more is the sequence.
LEMMA FrontOfAppend ==
    ASSUME NEW S, NEW s \in Seq(S), NEW e \in S
    PROVE  Front(Append(s, e)) = s
  <1> DEFINE t == Append(s, e)
  <1>1. /\ t \in Seq(S) /\ t # <<>> /\ Len(t) = Len(s) + 1 /\ Len(s) \in Nat
        /\ \A i \in 1 .. Len(s) : t[i] = s[i]
    BY AppendProperties, LenProperties
  <1> HIDE DEF t
  <1>2. Front(t) \in Seq(S) /\ Len(Front(t)) = Len(s) /\ \A i \in 1 .. Len(s) : Front(t)[i] = t[i]
    BY <1>1, FrontAndLast
  <1>3. Front(t) = s
    BY <1>1, <1>2, SeqEqual
  <1>4. QED
    BY <1>3 DEF t

\* The frames of the talker.
Built == [flow : Indices, seq : Nat, bytes : {0, Mtu}]

\* The frame that is sent is new, and the one of its flow before it has been sent.
LEMMA NewestFrame ==
    ASSUME CountInv, NumberInv, Send
    PROVE  LET f == Last(frames)
           IN  /\ f \in Built /\ f \notin ToSet(Sent) /\ f.seq >= 1
               /\ Sent' = frames /\ ToSet(frames) = ToSet(Sent) \cup {f}
               /\ f.seq > 1 => \E g \in ToSet(Sent) : g.flow = f.flow
  <1>1. frames \in Seq(Built) /\ frames # <<>> /\ frames' = frames /\ pc = "store" /\ pc' = "idle"
    BY DEF CountInv, TypeOK, Built, Send, Store
  <1>2. Sent = Front(frames) /\ Sent' = frames
    BY <1>1 DEF Sent
  <1> DEFINE L == Len(frames)
             f == frames[L]
  <1>3. /\ L \in Nat \ {0} /\ DOMAIN frames = 1 .. L /\ Last(frames) = f /\ f \in Built
        /\ \A e : e \in ToSet(Sent) <=> \E i \in 1 .. L - 1 : e = frames[i]
        /\ ToSet(frames) = ToSet(Sent) \cup {f}
    BY <1>1, <1>2, FrontAndLast
  <1> HIDE DEF L
  <1>4. /\ f.seq >= 1 /\ f.seq \in Nat
        /\ \A m \in 1 .. L - 1 : frames[m].flow = f.flow => frames[m].seq < f.seq
        /\ f.seq > 1 => \E m \in 1 .. L - 1 : frames[m].flow = f.flow
    <2>1. L \in DOMAIN frames
      BY <1>3
    <2>2. f.seq \in Nat
      BY <1>3 DEF Built
    <2>3. QED
      BY <2>1, <2>2 DEF NumberInv, NumberedInOrder
  <1> HIDE DEF f
  <1>5. f \notin ToSet(Sent)
    BY <1>3, <1>4
  <1>6. QED
    BY <1>2, <1>3, <1>4, <1>5

\* No other step sends a frame.
LEMMA NothingSent ==
    ASSUME CountInv, [PathNext]_talkerVars, ~Send
    PROVE  Sent' = Sent /\ UNCHANGED <<profile, recorder, heard, stuck>>
  <1> USE DEF shared, locals, bounds
  <1>1. CASE Announce
    BY <1>1 DEF Announce, Start, Tick, Sent
  <1>2. CASE Disturb
    BY <1>2 DEF Disturb, Input, Sent
  <1>3. CASE Prepare
    <2>1. UNCHANGED <<profile, recorder, heard, stuck>>
      BY <1>3 DEF Prepare, path
    <2>2. CASE Build
      <3> DEFINE e == [flow |-> flow, seq |-> seq[flow] + 1, bytes |-> frameSize]
      <3>1. /\ frames \in Seq(Built) /\ e \in Built /\ frames' = Append(frames, e)
            /\ pc = "build" /\ pc' = "load"
        BY <2>2 DEF Build, CountInv, TypeOK, Built
      <3> HIDE DEF e
      <3>2. Front(frames') = frames
        BY <3>1, FrontOfAppend
      <3>3. QED
        BY <2>1, <3>1, <3>2 DEF Sent
    <2>3. CASE ~Build
      BY <1>3, <2>1, <2>3 DEF Prepare, NothingLeft, Output, LookUp, ChooseSize, ChooseLast,
                              Load, Disable, Count, Sent
    <2>4. QED
      BY <2>2, <2>3
  <1>4. CASE UNCHANGED talkerVars
    BY <1>4 DEF talkerVars, vars, path, Sent
  <1>5. QED
    BY <1>1, <1>2, <1>3, <1>4 DEF PathNext

\* A list that is empty takes up its first number.
LEMMA FirstNumber ==
    ASSUME NEW M \in Nat, NEW s \in 0 .. M
    PROVE  Extended(<<Entry(s, s)>>, <<>>, s, M)
  <1> DEFINE e == Entry(s, s)
             r == <<e>>
  <1>1. s \in Nat /\ e \in EntriesTo(M) /\ e.lower = s /\ e.upper = s
    BY DEF Entry, EntriesTo
  <1> HIDE DEF e
  <1>2. r \in Seq(EntriesTo(M)) /\ r # <<>> /\ DOMAIN r = {1} /\ r[1] = e
    BY <1>1
  <1> HIDE DEF r
  <1>3. InOrder(r)
    BY <1>1, <1>2 DEF InOrder
  <1>4. Numbers(r) = {s}
    <2>1. s .. s = {s}
      BY <1>1
    <2>2. \A n : n \in Numbers(r) <=> n \in s .. s
      BY <1>1, <1>2 DEF Numbers
    <2>3. QED
      BY <2>1, <2>2
  <1>5. Numbers(<<>>) = {}
    BY DEF Numbers
  <1>6. QED
    BY <1>2, <1>3, <1>4, <1>5 DEF Extended, r, e

LEMMA PassedExact ==
    ASSUME NEW M \in Nat, NEW fr \in Seq(EntriesTo(M)), InOrder(fr), NEW s \in 0 .. M,
           ~Repetitive(fr, s)
    PROVE  Extended(IF fr = <<>> THEN <<Entry(s, s)>> ELSE Recorded(fr, s), fr, s, M)
  <1>1. fr = <<>> => Extended(<<Entry(s, s)>>, fr, s, M)
    BY FirstNumber
  <1>2. fr # <<>> => Extended(Recorded(fr, s), fr, s, M)
    BY RecordedExact
  <1>3. QED
    BY <1>1, <1>2

\* The largest number of 16 bits.
Largest == 65535

\* The flow of a frame as the tag has it.
Fid(f) == Uint8(profile[f.flow].id)

\* What the port knows of the flow fid: its list is in order and holds only numbers of
\* frames that were sent; it is empty until one was sent, and holds the number 1 then.
Knows(fid) ==
    /\ recorder[fid] \in Seq(EntriesTo(Largest)) /\ InOrder(recorder[fid])
    /\ \A n \in Numbers(recorder[fid]) :
          \E g \in ToSet(Sent) : Fid(g) = fid /\ Uint16(g.seq) = n
    /\ recorder[fid] = <<>> => \A g \in ToSet(Sent) : Fid(g) # fid
    /\ recorder[fid] # <<>> => 1 \in Numbers(recorder[fid])

\* The strengthening of ReachesUnlessFolded.
ReachInv ==
    /\ DOMAIN recorder = {Uint8(profile[i].id) : i \in Indices}
    /\ \A fid \in DOMAIN recorder : Knows(fid)
    /\ \A n \in DOMAIN heard : heard[n].built \in ToSet(Sent)
    /\ stuck \subseteq ToSet(Sent)
    /\ ReachesUnlessFolded

\* What happens to frame f, of which the switch makes b.
Taken(f, b) ==
    /\ recorder' = IF Eliminates(b) THEN recorder ELSE [recorder EXCEPT ![b.fid] = Passed(b)]
    /\ \/ /\ ~Eliminates(b) /\ Scheduled(b.fid) /\ stuck' = stuck
          /\ \E h \in Heard : h.built = f /\ heard' = Append(heard, h)
       \/ ~Eliminates(b) /\ ~Scheduled(b.fid) /\ heard' = heard /\ stuck' = stuck \cup {f}
       \/ Eliminates(b) /\ heard' = heard /\ stuck' = stuck

LEMMA SendTaken ==
    ASSUME CountInv, NumberInv, TagInv, Send
    PROVE  LET f == Last(frames)
           IN  \E b \in Bodies : b.fid = Fid(f) /\ b.seq = Uint16(f.seq) /\ Taken(f, b)
  <1> DEFINE f == Last(frames)
             p == profile[f.flow]
  <1>1. f \in Built
    BY NewestFrame
  <1> HIDE DEF f
  <1>2. /\ f.flow \in Indices /\ f.seq \in Nat /\ f.bytes \in {0, Mtu}
        /\ p.pcp \in Nat /\ p.id \in Nat
    BY <1>1, ProfileAssumption DEF TagInv, Built
  <1>3. PICK d \in Bit, e \in Bit :
            LET b == AtSwitch(f, d)
            IN  /\ recorder' = IF Eliminates(b) THEN recorder ELSE [recorder EXCEPT ![b.fid] = Passed(b)]
                /\ heard' = IF ~Eliminates(b) /\ Scheduled(b.fid)
                            THEN Append(heard, [built |-> f, relayed |-> b,
                                                frame |-> Decode(Encode(b, e))])
                            ELSE heard
                /\ stuck' = IF ~Eliminates(b) /\ ~Scheduled(b.fid) THEN stuck \cup {f} ELSE stuck
    BY DEF Send, Convey, f
  <1> DEFINE b == AtSwitch(f, d)
             c == Decode(Encode(b, e))
             h == [built |-> f, relayed |-> b, frame |-> c]
  <1>4. /\ b \in Bodies /\ Tagged(b, p.pcp, p.id, f.seq) /\ c \in Bodies
    BY <1>2, TagsOfFrame DEF AtSwitch
  <1>5. /\ recorder' = IF Eliminates(b) THEN recorder ELSE [recorder EXCEPT ![b.fid] = Passed(b)]
        /\ heard' = IF ~Eliminates(b) /\ Scheduled(b.fid) THEN Append(heard, h) ELSE heard
        /\ stuck' = IF ~Eliminates(b) /\ ~Scheduled(b.fid) THEN stuck \cup {f} ELSE stuck
    BY <1>3
  <1> HIDE DEF b, c
  <1>6. h \in Heard /\ h.built = f
    BY <1>1, <1>4 DEF Heard, Built
  <1> HIDE DEF h
  <1>7. Taken(f, b)
    BY <1>5, <1>6 DEF Taken
  <1>8. b.fid = Fid(f) /\ b.seq = Uint16(f.seq)
    BY <1>4 DEF Tagged, Fid, Uint8
  <1>9. QED
    BY <1>4, <1>7, <1>8 DEF f

LEMMA SixteenBits ==
    Largest \in Nat /\ Word = 0 .. Largest /\ Uint16(1) = 1 /\ \A n \in Word : n \in Nat
  BY Truncated DEF Word, Uint16, Largest

\* A frame that is eliminated has the number of another that was sent, or number zero.
LEMMA EliminatedFolded ==
    ASSUME CountInv, NumberInv, ReachInv, Send, NEW f, f = Last(frames),
           NEW b \in Bodies, b.fid = Fid(f), b.seq = Uint16(f.seq), Eliminates(b),
           Fid(f) \in DOMAIN recorder
    PROVE  \/ \E g \in ToSet(Sent) : g # f /\ Fid(g) = Fid(f) /\ Uint16(g.seq) = Uint16(f.seq)
           \/ Uint16(f.seq) = 0
  <1> DEFINE fr == recorder[Fid(f)]
             s == Uint16(f.seq)
  <1>1. Knows(Fid(f)) /\ f \notin ToSet(Sent)
    BY NewestFrame DEF ReachInv
  <1>2. s \in 0 .. Largest /\ s \in Nat
    BY SixteenBits DEF Bodies
  <1>3. Repetitive(fr, s)
    BY DEF Eliminates
  <1>4. /\ fr \in Seq(EntriesTo(Largest)) /\ InOrder(fr)
        /\ \A n \in Numbers(fr) : \E g \in ToSet(Sent) : Fid(g) = Fid(f) /\ Uint16(g.seq) = n
        /\ fr # <<>> => 1 \in Numbers(fr)
    BY <1>1 DEF Knows
  <1> HIDE DEF fr, s
  <1>5. fr # <<>>
    BY <1>3 DEF Repetitive
  <1>7. s \in Numbers(fr) \/ \A n \in Numbers(fr) : s < n
    BY <1>2, <1>3, <1>4, <1>5, SixteenBits, RepetitiveByNumbers
  <1>8. CASE s \in Numbers(fr)
    BY <1>1, <1>4, <1>8 DEF s
  <1>9. CASE \A n \in Numbers(fr) : s < n
    <2>1. s < 1
      BY <1>4, <1>5, <1>9
    <2>2. s = 0
      BY <1>2, <2>1
    <2>3. QED
      BY <2>2 DEF s
  <1>10. QED
    BY <1>7, <1>8, <1>9

\* What the port knows after a frame.
LEMMA SendKnows ==
    ASSUME CountInv, NumberInv, ReachInv, Send, profile' = profile, NEW f, f = Last(frames),
           NEW b \in Bodies, b.fid = Fid(f), b.seq = Uint16(f.seq), Taken(f, b),
           NEW k, k = Fid(f), k \in DOMAIN recorder
    PROVE  DOMAIN recorder' = DOMAIN recorder /\ \A fid \in DOMAIN recorder : Knows(fid)'
  <1> DEFINE s == Uint16(f.seq)
  <1>1. /\ f \notin ToSet(Sent) /\ f \in Built /\ f.seq >= 1
        /\ ToSet(Sent)' = ToSet(Sent) \cup {f}
        /\ f.seq > 1 => \E g \in ToSet(Sent) : g.flow = f.flow
    BY NewestFrame
  <1>2. \A g : Fid(g)' = Fid(g)
    BY DEF Fid
  <1>3. s \in 0 .. Largest /\ s \in Nat
    BY SixteenBits DEF Bodies
  <1>4. \A fid \in DOMAIN recorder : Knows(fid)
    BY DEF ReachInv
  <1>5. CASE Eliminates(b)
    <2>1. recorder' = recorder
      BY <1>5 DEF Taken
    <2>2. recorder[k] # <<>>
      BY <1>5 DEF Eliminates, Repetitive
    <2>3. ASSUME NEW fid \in DOMAIN recorder PROVE Knows(fid)'
      <3>1. Knows(fid) /\ (recorder[fid] = <<>> => fid # k)
        BY <1>4, <2>2
      <3>2. QED
        BY <1>1, <1>2, <2>1, <3>1 DEF Knows
    <2>4. QED
      BY <2>1, <2>3
  <1>6. CASE ~Eliminates(b)
    <2> DEFINE fr == recorder[k]
               r == Passed(b)
    <2>1. /\ recorder' = [recorder EXCEPT ![k] = r]
          /\ r = IF fr = <<>> THEN <<Entry(s, s)>> ELSE Recorded(fr, s)
          /\ ~Repetitive(fr, s)
      BY <1>6 DEF Taken, Eliminates, Passed
    <2>2. Knows(k)
      BY <1>4
    <2>3. fr \in Seq(EntriesTo(Largest)) /\ InOrder(fr)
      BY <2>2 DEF Knows
    <2> HIDE DEF r, s
    <2>5. Extended(IF fr = <<>> THEN <<Entry(s, s)>> ELSE Recorded(fr, s), fr, s, Largest)
      <3> HIDE DEF fr
      <3>1. QED
        BY <1>3, <2>1, <2>3, SixteenBits, PassedExact
    <2>6. Extended(r, fr, s, Largest)
      BY <2>1, <2>5
    <2>7. /\ r \in Seq(EntriesTo(Largest)) /\ r # <<>> /\ InOrder(r)
          /\ Numbers(r) = Numbers(fr) \cup {s}
      BY <2>6 DEF Extended
    <2>8. 1 \in Numbers(r)
      <3>1. CASE fr # <<>>
        BY <2>2, <2>7, <3>1 DEF Knows
      <3>2. CASE fr = <<>>
        <4>1. \A g \in ToSet(Sent) : Fid(g) # k
          BY <2>2, <3>2 DEF Knows
        <4>2. ~(f.seq > 1)
          BY <1>1, <4>1 DEF Fid
        <4>3. f.seq \in Nat
          BY <1>1 DEF Built
        <4>4. f.seq = 1
          BY <1>1, <4>2, <4>3
        <4>5. s = 1
          BY <4>4, SixteenBits DEF s
        <4>6. QED
          BY <2>7, <4>5
      <3>3. QED
        BY <3>1, <3>2
    <2>9. Knows(k)'
      <3>1. recorder'[k] = r
        BY <2>1
      <3>2. ASSUME NEW n \in Numbers(r)
            PROVE  \E g \in ToSet(Sent)' : Fid(g)' = k /\ Uint16(g.seq) = n
        <4>1. CASE n = s
          BY <1>1, <1>2, <4>1 DEF s
        <4>2. CASE n \in Numbers(fr)
          BY <1>1, <1>2, <2>2, <4>2 DEF Knows
        <4>3. QED
          BY <2>7, <4>1, <4>2
      <3>3. QED
        BY <2>7, <2>8, <3>1, <3>2 DEF Knows
    <2>10. ASSUME NEW fid \in DOMAIN recorder, fid # k PROVE Knows(fid)'
      <3>1. recorder'[fid] = recorder[fid] /\ Knows(fid)
        BY <1>4, <2>1, <2>10
      <3>2. QED
        BY <1>1, <1>2, <2>10, <3>1 DEF Knows
    <2>11. DOMAIN recorder' = DOMAIN recorder
      BY <2>1
    <2>12. ASSUME NEW fid \in DOMAIN recorder PROVE Knows(fid)'
      <3>1. CASE fid # k
        BY <2>10, <3>1
      <3>2. CASE fid = k
        BY <2>9, <3>2
      <3>3. QED
        BY <3>1, <3>2
    <2>13. QED
      BY <2>11, <2>12
  <1>7. QED
    BY <1>5, <1>6

\* A frame that reaches the listener is the last it heard, and no one heard it before.
LEMMA HeardOnce ==
    ASSUME NEW hs \in Seq(Heard), NEW S, \A n \in DOMAIN hs : hs[n].built \in S,
           NEW h \in Heard, h.built \notin S
    PROVE  LET r == Append(hs, h)
           IN  /\ \A n \in DOMAIN r : r[n].built \in S \cup {h.built}
               /\ \E n \in DOMAIN r :
                     r[n].built = h.built /\ \A m \in DOMAIN r : r[m].built = h.built => m = n
               /\ \A f \in S :
                     (\E n \in DOMAIN hs : hs[n].built = f /\ \A m \in DOMAIN hs : hs[m].built = f => m = n)
                        => \E n \in DOMAIN r : r[n].built = f /\ \A m \in DOMAIN r : r[m].built = f => m = n
  <1> DEFINE r == Append(hs, h)
             L == Len(hs)
  <1>1. /\ L \in Nat /\ DOMAIN hs = 1 .. L /\ DOMAIN r = 1 .. L + 1
        /\ r[L + 1] = h /\ \A n \in 1 .. L : r[n] = hs[n]
    BY AppendProperties, LenProperties
  <1> HIDE DEF r, L
  <1>2. \A n : n \in DOMAIN r <=> n \in DOMAIN hs \/ n = L + 1
    BY <1>1
  <1>3. L + 1 \notin DOMAIN hs /\ \A n \in DOMAIN hs : r[n] = hs[n] /\ r[n].built # h.built
    BY <1>1
  <1>4. \A n \in DOMAIN r : r[n].built \in S \cup {h.built}
    BY <1>1, <1>2, <1>3
  <1>5. L + 1 \in DOMAIN r /\ r[L + 1].built = h.built
        /\ \A m \in DOMAIN r : r[m].built = h.built => m = L + 1
    BY <1>1, <1>2, <1>3
  <1>6. ASSUME NEW f \in S, NEW n \in DOMAIN hs, hs[n].built = f,
               \A m \in DOMAIN hs : hs[m].built = f => m = n
        PROVE  n \in DOMAIN r /\ r[n].built = f /\ \A m \in DOMAIN r : r[m].built = f => m = n
    <2>1. r[L + 1].built # f
      BY <1>1
    <2>2. QED
      BY <1>2, <1>3, <1>6, <2>1
  <1>7. QED
    BY <1>4, <1>5, <1>6 DEF r

LEMMA SendReach ==
    ASSUME CountInv, NumberInv, TagInv, ReachInv, Send
    PROVE  ReachInv'
  <1> DEFINE Once(hs, f) ==
        \E n \in DOMAIN hs : hs[n].built = f /\ \A m \in DOMAIN hs : hs[m].built = f => m = n
             Folded(S, f) ==
        \E g \in S : g # f /\ Alike(g.flow, f.flow) /\ Uint16(g.seq) = Uint16(f.seq)
  <1>1. PICK f : f = Last(frames)
    OBVIOUS
  <1>2. /\ f \notin ToSet(Sent) /\ f \in Built /\ ToSet(Sent)' = ToSet(Sent) \cup {f}
    BY <1>1, NewestFrame
  <1>3. PICK b \in Bodies : b.fid = Fid(f) /\ b.seq = Uint16(f.seq) /\ Taken(f, b)
    BY <1>1, SendTaken
  <1>4. profile' = profile /\ \A g, i : (Alike(g, i)' <=> Alike(g, i))
    BY DEF Send, Alike
  <1>5. /\ Fid(f) \in DOMAIN recorder /\ profile[f.flow].id \in Nat /\ f.flow \in Indices
    <2>1. f.flow \in Indices
      BY <1>2 DEF Built
    <2>2. QED
      BY <2>1, ProfileAssumption DEF ReachInv, Fid, TagInv
  <1>6. /\ DOMAIN recorder' = DOMAIN recorder
        /\ \A fid \in DOMAIN recorder : Knows(fid)'
    <2>1. PICK k : k = Fid(f)
      OBVIOUS
    <2>2. QED
      BY <1>1, <1>3, <1>4, <1>5, <2>1, SendKnows
  <1>7. /\ heard \in Seq(Heard) /\ stuck \subseteq ToSet(Sent)
        /\ \A n \in DOMAIN heard : heard[n].built \in ToSet(Sent)
    BY DEF TagInv, ReachInv
  <1>8. \A g \in ToSet(Sent) : Once(heard, g) \/ (g \in stuck /\ profile[g.flow].id > 255)
                                  \/ Folded(ToSet(Sent), g) \/ Uint16(g.seq) = 0
    BY DEF ReachInv, ReachesUnlessFolded
  <1>9. \A g \in ToSet(Sent) : Folded(ToSet(Sent), g) => Folded(ToSet(Sent)', g)
    BY <1>2
  <1>10. /\ \A n \in DOMAIN heard' : heard'[n].built \in ToSet(Sent)'
         /\ stuck' \subseteq ToSet(Sent)' /\ stuck \subseteq stuck'
         /\ \A g \in ToSet(Sent) : Once(heard, g) => Once(heard', g)
         /\ Once(heard', f) \/ (f \in stuck' /\ profile[f.flow].id > 255)
               \/ Folded(ToSet(Sent)', f) \/ Uint16(f.seq) = 0
    <2>1. CASE ~Eliminates(b) /\ Scheduled(b.fid)
      <3>1. PICK h \in Heard : h.built = f /\ heard' = Append(heard, h) /\ stuck' = stuck
        BY <1>3, <2>1 DEF Taken
      <3>2. /\ \A n \in DOMAIN heard' : heard'[n].built \in ToSet(Sent) \cup {f}
            /\ Once(heard', f)
            /\ \A g \in ToSet(Sent) : Once(heard, g) => Once(heard', g)
        <4>1. PICK S : S = ToSet(Sent)
          OBVIOUS
        <4>2. h.built \notin S /\ \A n \in DOMAIN heard : heard[n].built \in S
          BY <1>2, <1>7, <3>1, <4>1
        <4>3. /\ \A n \in DOMAIN heard' : heard'[n].built \in S \cup {h.built}
              /\ Once(heard', h.built)
              /\ \A g \in S : Once(heard, g) => Once(heard', g)
          BY <1>7, <3>1, <4>2, HeardOnce
        <4> HIDE DEF Once
        <4>4. QED
          BY <3>1, <4>1, <4>3
      <3> HIDE DEF Once
      <3>3. QED
        BY <1>2, <1>7, <3>1, <3>2
    <2>2. CASE ~Eliminates(b) /\ ~Scheduled(b.fid)
      <3>1. heard' = heard /\ stuck' = stuck \cup {f}
        BY <1>3, <2>2 DEF Taken
      <3>2. profile[f.flow].id > 255
        <4>1. Uint8(profile[f.flow].id) # profile[f.flow].id
          BY <1>3, <1>5, <2>2 DEF Scheduled, Fid
        <4>2. profile[f.flow].id \notin Byte
          BY <4>1, Truncated
        <4>3. QED
          BY <1>5, <4>2 DEF Byte
      <3>3. QED
        BY <1>2, <1>7, <3>1, <3>2
    <2>3. CASE Eliminates(b)
      <3>1. heard' = heard /\ stuck' = stuck
        BY <1>3, <2>3 DEF Taken
      <3>2. \/ \E g \in ToSet(Sent) : g # f /\ Fid(g) = Fid(f) /\ Uint16(g.seq) = Uint16(f.seq)
            \/ Uint16(f.seq) = 0
        BY <1>1, <1>3, <1>5, <2>3, EliminatedFolded
      <3>3. Folded(ToSet(Sent)', f) \/ Uint16(f.seq) = 0
        BY <1>2, <3>2 DEF Fid, Alike, Uint8
      <3>4. QED
        BY <1>2, <1>7, <3>1, <3>3
    <2>4. QED
      BY <2>1, <2>2, <2>3
  <1>11. ReachesUnlessFolded'
    <2>1. ASSUME NEW g \in ToSet(Sent)'
          PROVE  Once(heard', g) \/ (g \in stuck' /\ profile'[g.flow].id > 255)
                    \/ Folded(ToSet(Sent)', g) \/ Uint16(g.seq) = 0
      <3> HIDE DEF Once, Folded
      <3>1. CASE g = f
        BY <1>4, <1>10, <3>1
      <3>2. CASE g \in ToSet(Sent)
        BY <1>4, <1>8, <1>9, <1>10, <3>2
      <3>3. QED
        BY <1>2, <2>1, <3>1, <3>2
    <2>2. QED
      BY <1>4, <2>1 DEF ReachesUnlessFolded
  <1>12. DOMAIN recorder' = {Uint8(profile'[i].id) : i \in Indices}
    BY <1>4, <1>6 DEF ReachInv
  <1>13. QED
    BY <1>6, <1>10, <1>11, <1>12 DEF ReachInv

LEMMA ReachStep == CountInv /\ NumberInv /\ TagInv /\ ReachInv /\ [PathNext]_talkerVars => ReachInv'
  <1> SUFFICES ASSUME CountInv, NumberInv, TagInv, ReachInv, [PathNext]_talkerVars
               PROVE  ReachInv'
    OBVIOUS
  <1>1. CASE Send
    BY <1>1, SendReach
  <1>2. CASE ~Send
    <2>1. Sent' = Sent /\ UNCHANGED <<profile, recorder, heard, stuck>>
      BY <1>2, NothingSent
    <2>2. \A fid : Knows(fid) => Knows(fid)'
      BY <2>1 DEF Knows, Fid
    <2>3. ReachesUnlessFolded'
      BY <2>1 DEF ReachInv, ReachesUnlessFolded, Alike
    <2>4. QED
      BY <2>1, <2>2, <2>3 DEF ReachInv
  <1>3. QED
    BY <1>1, <1>2

LEMMA InitReach == PathInit => ReachInv
  <1> SUFFICES ASSUME PathInit PROVE ReachInv
    OBVIOUS
  <1>1. /\ Sent = <<>> /\ ToSet(Sent) = {} /\ heard = <<>> /\ stuck = {}
        /\ recorder = [fid \in {Uint8(profile[i].id) : i \in Indices} |-> <<>>]
    BY DEF PathInit, Init, Sent, ToSet
  <1>2. Numbers(<<>>) = {} /\ InOrder(<<>>) /\ <<>> \in Seq(EntriesTo(Largest))
    BY EmptySeq DEF Numbers, InOrder
  <1>3. \A fid \in DOMAIN recorder : Knows(fid)
    BY <1>1, <1>2 DEF Knows
  <1>4. QED
    BY <1>1, <1>3 DEF ReachInv, ReachesUnlessFolded

LEMMA PathInvariant == PathSpec => [](CountInv /\ NumberInv /\ TagInv /\ ReachInv)
  <1>1. PathInit => TagInv /\ ReachInv
    BY InitTags, InitReach
  <1>2. CountInv /\ NumberInv /\ TagInv /\ ReachInv /\ [PathNext]_talkerVars => (TagInv /\ ReachInv)'
    BY TagStep, ReachStep
  <1>3. QED
    BY <1>1, <1>2, FlowInvariant, PTL DEF PathSpec

\* ReachesUnlessFolded: for any flows, sizes and numbers, only the byte of the tag that
\* stands for a flow and the sixteen bits that stand for a number keep a frame from the
\* listener, and no frame reaches it twice: as long as the numbers have not wrapped, the
\* recovery function of the port takes every first frame for a first frame.
THEOREM EveryFrameAccounted == PathSpec => []ReachesUnlessFolded
  <1>1. ReachInv => ReachesUnlessFolded
    BY DEF ReachInv
  <1>2. QED
    BY <1>1, PathInvariant, PTL

\* The bytes that a burst carried are a number.
CarriedInv == burst \in [flow : Indices, carried : Nat, undisturbed : BOOLEAN]

LEMMA CarriedStep == CountInv /\ NumberInv /\ CarriedInv /\ [PathNext]_talkerVars => CarriedInv'
  <1> SUFFICES ASSUME CountInv, NumberInv, CarriedInv, [PathNext]_talkerVars PROVE CarriedInv'
    OBVIOUS
  <1>1. CASE Announce
    <2>1. flowIndex \in Indices
      BY DEF CountInv, TypeOK
    <2>2. QED
      BY <1>1, <2>1 DEF Announce, CarriedInv
  <1>2. CASE Send
    <2>1. Cut(Last(frames).bytes) \in Nat
      BY <1>2, NewestFrame, Payloads DEF Built
    <2>2. burst' = [burst EXCEPT !.carried = burst.carried + Cut(Last(frames).bytes)]
      BY <1>2 DEF Send, Convey, Encode, Body, Cut
    <2>3. QED
      BY <2>1, <2>2 DEF CarriedInv
  <1>3. CASE Disturb
    BY <1>3 DEF Disturb, CarriedInv
  <1>4. CASE Prepare \/ UNCHANGED talkerVars
    BY <1>4 DEF Prepare, talkerVars, path, CarriedInv
  <1>5. QED
    BY <1>1, <1>2, <1>3, <1>4 DEF PathNext

\* PathTypeOK: every variable of the talker and of the path keeps its type; in particular
\* the lists of the port hold 16-bit numbers only, under keys that are bytes.
THEOREM PathTypeCorrect == PathSpec => []PathTypeOK
  <1>1. PathInit => CarriedInv
    BY FlowAssumption DEF PathInit, CarriedInv, Indices
  <1>2. CountInv /\ NumberInv /\ CarriedInv /\ [PathNext]_talkerVars => CarriedInv'
    BY CarriedStep
  <1>3. CountInv /\ NumberInv /\ TagInv /\ ReachInv /\ CarriedInv => PathTypeOK
    <2> SUFFICES ASSUME CountInv, NumberInv, TagInv, ReachInv, CarriedInv PROVE PathTypeOK
      OBVIOUS
    <2>1. DOMAIN recorder \subseteq Byte
      <3>1. \A i \in Indices : profile[i].id \in Nat
        BY ProfileAssumption DEF TagInv
      <3>2. QED
        BY <3>1, Truncated DEF ReachInv
    <2>2. \A fid \in DOMAIN recorder :
             recorder[fid] \in Seq([lower : Word, upper : Word])
      <3>1. EntriesTo(Largest) = [lower : Word, upper : Word]
        BY SixteenBits DEF EntriesTo
      <3>2. QED
        BY <3>1 DEF ReachInv, Knows
    <2>3. \A n \in DOMAIN heard : heard[n].frame \in Bodies
      <3>1. heard \in Seq(Heard)
        BY DEF TagInv
      <3>2. \A n \in DOMAIN heard : heard[n] \in Heard
        BY <3>1, LenProperties, ElementOfSeq
      <3>3. QED
        BY <3>2 DEF Heard
    <2>4. stuck \subseteq ToSet(frames)
      <3>1. frames \in Seq(Built) /\ (pc \in {"load", "store"} => frames # <<>>)
        BY DEF CountInv, TypeOK, Built
      <3>2. ToSet(Sent) \subseteq ToSet(frames)
        BY <3>1, FrontAndLast DEF Sent
      <3>3. QED
        BY <3>2 DEF ReachInv
    <2>5. QED
      BY <2>1, <2>2, <2>3, <2>4 DEF PathTypeOK, CountInv, TagInv, CarriedInv
  <1>4. QED
    BY <1>1, <1>2, <1>3, PathInvariant, PTL DEF PathSpec
=============================================================================
