------------------------- MODULE ConfigCacheProofs --------------------------
(***************************************************************************)
(* Proofs about ConfigCache, for every set of node frames and any number   *)
(* of connections.                                                         *)
(***************************************************************************)
EXTENDS ConfigCache, SequenceTheorems, FiniteSetTheorems, WellFoundedInduction, TLAPS

\* What a read loop has collected is the front part of one sequence: my_info,
\* then neither another my_info nor a config_complete.
CollectedIsPrefix ==
  \A e \in Epoch : collecting[e] =>
    /\ frames[e] # <<>>
    /\ frames[e][1].kind = "my_info"
    /\ \A i \in 2 .. Len(frames[e]) : ~Bounds(frames[e][i].kind)

\* A read loop that handles a frame has one.
HandlingHasFrame == \A e \in Epoch : at[e] = "handling" => hand[e] # <<>>

\* CacheIsOneSequence as a predicate of a sequence.
OneSequence(s) ==
  s # <<>> =>
    /\ Len(s) >= 2
    /\ s[1].kind = "my_info"
    /\ s[Len(s)].kind = "config_complete"
    /\ \A i \in 2 .. Len(s) - 1 : ~Bounds(s[i].kind)

IndInv == TypeOK /\ CollectedIsPrefix /\ HandlingHasFrame /\ OneSequence(configCache)

-----------------------------------------------------------------------------
(* The frames the two ways of patching produce.                            *)

\* The frame built for a heard node is a node_info.
LEMMA BuiltFrame ==
  ASSUME NEW p \in CacheFrame
  PROVE  buildNodeInfoFrame(p) \in CacheFrame /\ buildNodeInfoFrame(p).kind = "node_info"
BY DEF buildNodeInfoFrame, CacheFrame, NoRest, ConfigKinds

\* Merging an identity into a frame does not change its kind.
LEMMA MergedFrame ==
  ASSUME NEW f \in CacheFrame, NEW p \in CacheFrame
  PROVE  /\ mergeNodeInfoUser(f, p) \in CacheFrame
         /\ mergeNodeInfoUser(f, p).kind = f.kind
<1>1. p.user \in User /\ f.user \in User
  BY DEF CacheFrame
<1>2. [name |-> p.user.name,
       unmessagable |-> IF p.user.unmessagable = "unset"
                        THEN f.user.unmessagable
                        ELSE p.user.unmessagable] \in User
  BY <1>1 DEF User
<1> QED
  BY <1>2 DEF mergeNodeInfoUser, CacheFrame

-----------------------------------------------------------------------------
(* The three shapes UpsertCachedNodeInfo gives the cache.                  *)

\* Merging into the frame at any place keeps the kinds of all frames.
LEMMA MergeInPlace ==
  ASSUME NEW s \in Seq(CacheFrame), NEW p \in CacheFrame, NEW k, OneSequence(s)
  PROVE  LET r == [s EXCEPT ![k] = mergeNodeInfoUser(@, p)]
         IN  r \in Seq(CacheFrame) /\ OneSequence(r)
<1> DEFINE r == [s EXCEPT ![k] = mergeNodeInfoUser(@, p)]
<1>1. s \in [1 .. Len(s) -> CacheFrame] /\ Len(s) \in Nat
  BY LenProperties
<1>2. \A i \in 1 .. Len(s) : r[i] \in CacheFrame /\ r[i].kind = s[i].kind
  BY <1>1, MergedFrame
<1>3. r = [i \in 1 .. Len(s) |-> r[i]]
  BY <1>1
<1>4. r \in Seq(CacheFrame) /\ Len(r) = Len(s)
  <2> HIDE DEF r
  <2>1. r \in [1 .. Len(s) -> CacheFrame]
    BY <1>2, <1>3
  <2> QED
    BY <1>1, <2>1, IsASeq, LenProperties
<1>5. OneSequence(r)
  <2> HIDE DEF r
  <2>1. CASE s = <<>>
    <3>1. Len(r) = 0
      BY <1>4, <2>1
    <3> QED
      BY <1>4, <3>1, EmptySeq DEF OneSequence
  <2>2. CASE s # <<>>
    <3>1. /\ Len(s) >= 2
          /\ s[1].kind = "my_info"
          /\ s[Len(s)].kind = "config_complete"
          /\ \A i \in 2 .. Len(s) - 1 : ~Bounds(s[i].kind)
      BY <2>2 DEF OneSequence
    <3> QED
      BY <1>1, <1>2, <1>4, <3>1 DEF OneSequence
  <2> QED
    BY <2>1, <2>2
<1> QED
  BY <1>4, <1>5

\* Inserting a frame that is no boundary before the last one keeps the shape.
LEMMA InsertKeepsShape ==
  ASSUME NEW s \in Seq(CacheFrame), NEW f \in CacheFrame,
         s # <<>>, OneSequence(s), ~Bounds(f.kind)
  PROVE  LET r == InsertBeforeLast(s, f) IN
         /\ r \in Seq(CacheFrame) /\ OneSequence(r)
         /\ Len(r) = Len(s) + 1 /\ DOMAIN r = 1 .. Len(s) + 1
         /\ \A i \in 1 .. Len(s) - 1 : r[i] = s[i]
         /\ r[Len(s)] = f /\ r[Len(s) + 1] = s[Len(s)]
<1> DEFINE n == Len(s)
           front == SubSeq(s, 1, n - 1)
           tail == <<f, s[n]>>
           r == InsertBeforeLast(s, f)
<1>1. /\ n \in Nat /\ n >= 2
      /\ s[1].kind = "my_info" /\ s[n].kind = "config_complete"
      /\ \A i \in 2 .. n - 1 : ~Bounds(s[i].kind)
      /\ s[n] \in CacheFrame
  BY LenProperties, ElementOfSeq DEF OneSequence
<1>2. front \in Seq(CacheFrame) /\ Len(front) = n - 1
      /\ \A i \in 1 .. n - 1 : front[i] = s[i]
  BY <1>1, SubSeqProperties
<1>3. tail \in Seq(CacheFrame) /\ Len(tail) = 2 /\ tail[1] = f /\ tail[2] = s[n]
  BY <1>1
<1>4. r = front \o tail
  BY DEF InsertBeforeLast
<1> HIDE DEF n, front, tail, r
<1>5. /\ r \in Seq(CacheFrame) /\ Len(r) = Len(front) + Len(tail)
      /\ \A i \in 1 .. Len(front) + Len(tail) :
           r[i] = IF i <= Len(front) THEN front[i] ELSE tail[i - Len(front)]
  BY <1>2, <1>3, <1>4, ConcatProperties
<1>6. Len(r) = n + 1
  BY <1>1, <1>2, <1>3, <1>5
<1>7. \A i \in 1 .. n - 1 : r[i] = s[i]
  BY <1>1, <1>2, <1>3, <1>5
<1>8. r[n] = f
  <2>1. n \in 1 .. Len(front) + Len(tail) /\ ~(n <= Len(front)) /\ n - Len(front) = 1
    BY <1>1, <1>2, <1>3
  <2> QED
    BY <1>3, <1>5, <2>1
<1>9. r[n + 1] = s[n]
  <2> DEFINE m == n + 1
  <2>1. m \in 1 .. Len(front) + Len(tail) /\ ~(m <= Len(front)) /\ m - Len(front) = 2
    BY <1>1, <1>2, <1>3
  <2> HIDE DEF m
  <2>2. r[m] = tail[m - Len(front)]
    BY <1>5, <2>1
  <2> QED
    BY <1>3, <2>1, <2>2 DEF m
<1>10. \A i \in 2 .. n : ~Bounds(r[i].kind)
  BY <1>1, <1>7, <1>8
<1>11. OneSequence(r)
  BY <1>1, <1>5, <1>10, <1>6, <1>7, <1>9 DEF OneSequence
<1>12. DOMAIN r = 1 .. n + 1
  BY <1>5, <1>6, LenProperties
<1> QED
  BY <1>5, <1>6, <1>7, <1>8, <1>9, <1>11, <1>12 DEF r, n

\* UpsertCachedNodeInfo keeps the shape of the cache; its last branch, which
\* appends behind a cache that ends with no config_complete, is never taken.
LEMMA UpsertKeepsShape ==
  ASSUME NEW s \in Seq(CacheFrame), NEW p \in CacheFrame, OneSequence(s)
  PROVE  /\ UpsertCachedNodeInfo(s, p) \in Seq(CacheFrame)
         /\ OneSequence(UpsertCachedNodeInfo(s, p))
<1>1. CASE p.from = 0 \/ s = <<>>
  BY <1>1 DEF UpsertCachedNodeInfo
<1>2. CASE ~(p.from = 0 \/ s = <<>>) /\ NodeInfoAt(s, p.from) # {}
  BY <1>2, MergeInPlace DEF UpsertCachedNodeInfo
<1>3. CASE ~(p.from = 0 \/ s = <<>>) /\ NodeInfoAt(s, p.from) = {}
  <2>1. s[Len(s)].kind = "config_complete"
    BY <1>3 DEF OneSequence
  <2>2. UpsertCachedNodeInfo(s, p) = InsertBeforeLast(s, buildNodeInfoFrame(p))
    BY <1>3, <2>1 DEF UpsertCachedNodeInfo
  <2>3. ~Bounds(buildNodeInfoFrame(p).kind)
    BY BuiltFrame DEF Bounds
  <2> QED
    BY <1>3, <2>2, <2>3, BuiltFrame, InsertKeepsShape
<1> QED
  BY <1>1, <1>2, <1>3

-----------------------------------------------------------------------------
(* The steps of the specification.                                         *)

\* Nothing is collected or cached before the first connection.
LEMMA InitIndInv == Init => IndInv
<1> SUFFICES ASSUME Init PROVE IndInv
  OBVIOUS
<1> USE CacheAssumption
<1>1. TypeOK
  <2>1. epoch \in 0 .. MaxEpochs /\ myNodeNum \in Nat /\ reads \in Nat
    BY DEF Init
  <2>3. live \in BOOLEAN
    BY DEF Init
  <2>2. <<>> \in Seq(CacheFrame)
    OBVIOUS
  <2> QED
    BY <2>1, <2>2, <2>3 DEF Init, TypeOK
<1>2. CollectedIsPrefix /\ HandlingHasFrame /\ OneSequence(configCache)
  BY DEF Init, CollectedIsPrefix, HandlingHasFrame, OneSequence
<1> QED
  BY <1>1, <1>2 DEF IndInv

\* A step that changes neither what the loops collected nor the cache, and
\* hands no loop an empty frame, keeps the shapes.
LEMMA QuietStep ==
  ASSUME IndInv, UNCHANGED <<collecting, frames, configCache, hand>>,
         \A e \in Epoch : at'[e] = "handling" => at[e] = "handling"
  PROVE  CollectedIsPrefix' /\ HandlingHasFrame' /\ OneSequence(configCache')
BY DEF IndInv, CollectedIsPrefix, HandlingHasFrame, OneSequence

\* The frame a loop handles, and that it is done with it afterwards.
LEMMA HandledFrame ==
  ASSUME IndInv, NEW e \in Epoch, at[e] = "handling", Handled(e)
  PROVE  /\ Head(hand[e]) \in CacheFrame
         /\ at' \in [Epoch -> {"none", "top", "reading", "handling", "exited"}]
         /\ hand' \in [Epoch -> Seq(CacheFrame)]
         /\ HandlingHasFrame'
<1>1. hand[e] \in Seq(CacheFrame) /\ hand[e] # <<>>
  BY DEF IndInv, TypeOK, HandlingHasFrame
<1>2. Head(hand[e]) \in CacheFrame
  BY <1>1, HeadTailProperties
<1>3. /\ at' \in [Epoch -> {"none", "top", "reading", "handling", "exited"}]
      /\ hand' \in [Epoch -> Seq(CacheFrame)]
  BY DEF IndInv, TypeOK, Handled
<1>4. HandlingHasFrame'
  BY DEF IndInv, TypeOK, Handled, HandlingHasFrame
<1> QED
  BY <1>2, <1>3, <1>4

\* What a loop holds after appending a frame.
LEMMA Appended ==
  ASSUME NEW s \in Seq(CacheFrame), NEW f \in CacheFrame
  PROVE  /\ Append(s, f) \in Seq(CacheFrame)
         /\ Len(Append(s, f)) = Len(s) + 1
         /\ Append(s, f)[Len(s) + 1] = f
         /\ \A i \in 1 .. Len(s) : Append(s, f)[i] = s[i]
         /\ Append(s, f) # <<>>
<1>1. Len(s) \in Nat
  BY LenProperties
<1> QED
  BY <1>1, AppendProperties

\* Every step keeps the invariant: one step per action.
LEMMA StepIndInv == IndInv /\ [Next]_vars => IndInv'
<1> SUFFICES ASSUME IndInv, [Next]_vars PROVE IndInv'
  OBVIOUS
<1> USE CacheAssumption
<1>1. CASE Connect
  <2>1. epoch' \in Epoch /\ epoch' \in 0 .. MaxEpochs
    BY <1>1 DEF Connect, IndInv, TypeOK, Epoch
  <2>2. at' \in [Epoch -> {"none", "top", "reading", "handling", "exited"}]
    BY <1>1, <2>1 DEF Connect, IndInv, TypeOK
  <2>3. TypeOK'
    BY <1>1, <2>1, <2>2 DEF Connect, IndInv, TypeOK
  <2>4. \A e \in Epoch : at'[e] = "handling" => at[e] = "handling"
    BY <1>1, <2>1 DEF Connect, IndInv, TypeOK
  <2> QED
    BY <1>1, <2>3, <2>4, QuietStep DEF Connect, IndInv
<1>2. CASE Disconnect
  <2>1. TypeOK'
    BY <1>2 DEF Disconnect, IndInv, TypeOK
  <2> QED
    BY <1>2, <2>1, QuietStep DEF Disconnect, IndInv
<1>3. ASSUME NEW e \in Epoch, LoopTop(e) \/ ReadFails(e) PROVE IndInv'
  <2>1. /\ at' \in [Epoch -> {"none", "top", "reading", "handling", "exited"}]
        /\ \A d \in Epoch : at'[d] = "handling" => at[d] = "handling"
        /\ UNCHANGED <<epoch, live, hand, collecting, frames, configCache, myNodeNum, reads, heard>>
    BY <1>3 DEF LoopTop, ReadFails, IndInv, TypeOK
  <2>2. TypeOK'
    BY <2>1 DEF IndInv, TypeOK
  <2> QED
    BY <2>1, <2>2, QuietStep DEF IndInv
<1>4. ASSUME NEW e \in Epoch, NEW f \in NodeFrame, ReadFrame(e, f) PROVE IndInv'
  <2>1. f \in CacheFrame /\ <<f>> \in Seq(CacheFrame) /\ <<f>> # <<>>
    OBVIOUS
  <2>2. hand' \in [Epoch -> Seq(CacheFrame)] /\ hand'[e] = <<f>>
        /\ \A d \in Epoch \ {e} : hand'[d] = hand[d]
    BY <1>4, <2>1 DEF ReadFrame, IndInv, TypeOK
  <2>3. at' \in [Epoch -> {"none", "top", "reading", "handling", "exited"}]
        /\ \A d \in Epoch \ {e} : at'[d] = at[d]
    BY <1>4 DEF ReadFrame, IndInv, TypeOK
  <2>4. reads' \in Nat
    BY <1>4 DEF ReadFrame, IndInv, TypeOK
  <2>5. TypeOK'
    BY <1>4, <2>2, <2>3, <2>4 DEF ReadFrame, IndInv, TypeOK
  <2>6. HandlingHasFrame'
    BY <2>1, <2>2, <2>3 DEF IndInv, HandlingHasFrame
  <2>7. CollectedIsPrefix' /\ OneSequence(configCache)'
    BY <1>4 DEF ReadFrame, IndInv, CollectedIsPrefix, OneSequence
  <2> QED
    BY <2>5, <2>6, <2>7 DEF IndInv
<1>5. ASSUME NEW e \in Epoch, HandleMyInfo(e) PROVE IndInv'
  <2> DEFINE f == Head(hand[e])
  <2>1. /\ at[e] = "handling" /\ f.kind = "my_info" /\ Handled(e)
        /\ collecting' = [collecting EXCEPT ![e] = TRUE]
        /\ frames' = [frames EXCEPT ![e] = <<f>>]
        /\ myNodeNum' = IF f.id # 0 THEN f.id ELSE myNodeNum
        /\ UNCHANGED <<epoch, live, configCache, reads, heard>>
    BY <1>5 DEF HandleMyInfo
  <2>2. /\ f \in CacheFrame /\ HandlingHasFrame'
        /\ at' \in [Epoch -> {"none", "top", "reading", "handling", "exited"}]
        /\ hand' \in [Epoch -> Seq(CacheFrame)]
    BY <2>1, HandledFrame
  <2> HIDE DEF f
  <2>3. <<f>> \in Seq(CacheFrame) /\ <<f>> # <<>> /\ <<f>>[1] = f /\ Len(<<f>>) = 1
    BY <2>2
  <2>4. f.id \in Nat
    BY <2>2 DEF CacheFrame
  <2>5. frames' \in [Epoch -> Seq(CacheFrame)] /\ frames'[e] = <<f>>
        /\ \A d \in Epoch \ {e} : frames'[d] = frames[d]
    BY <2>1, <2>3 DEF IndInv, TypeOK
  <2>6. collecting' \in [Epoch -> BOOLEAN] /\ \A d \in Epoch \ {e} : collecting'[d] = collecting[d]
    BY <2>1 DEF IndInv, TypeOK
  <2>7. TypeOK'
    BY <2>1, <2>2, <2>4, <2>5, <2>6 DEF IndInv, TypeOK
  <2>8. CollectedIsPrefix'
    BY <2>1, <2>3, <2>5, <2>6 DEF IndInv, CollectedIsPrefix
  <2> QED
    BY <2>1, <2>2, <2>7, <2>8 DEF IndInv
<1>6. ASSUME NEW e \in Epoch, HandleConfigComplete(e) PROVE IndInv'
  <2> DEFINE f == Head(hand[e])
  <2>1. /\ at[e] = "handling" /\ f.kind = "config_complete" /\ Handled(e)
        /\ frames' = [frames EXCEPT ![e] = Append(@, f)]
        /\ \/ collecting[e] /\ configCache' = Append(frames[e], f) /\ heard' = <<>>
           \/ ~collecting[e] /\ configCache' = configCache /\ heard' = heard
        /\ collecting' = [collecting EXCEPT ![e] = FALSE]
        /\ UNCHANGED <<epoch, live, myNodeNum, reads>>
    BY <1>6 DEF HandleConfigComplete
  <2>2. /\ f \in CacheFrame /\ HandlingHasFrame'
        /\ at' \in [Epoch -> {"none", "top", "reading", "handling", "exited"}]
        /\ hand' \in [Epoch -> Seq(CacheFrame)]
    BY <2>1, HandledFrame
  <2> HIDE DEF f
  <2>3. frames[e] \in Seq(CacheFrame) /\ Len(frames[e]) \in Nat
    BY LenProperties DEF IndInv, TypeOK
  <2>4. /\ Append(frames[e], f) \in Seq(CacheFrame)
        /\ Len(Append(frames[e], f)) = Len(frames[e]) + 1
        /\ Append(frames[e], f)[Len(frames[e]) + 1] = f
        /\ \A i \in 1 .. Len(frames[e]) : Append(frames[e], f)[i] = frames[e][i]
    BY <2>2, <2>3, Appended
  <2>5. frames' \in [Epoch -> Seq(CacheFrame)] /\ \A d \in Epoch \ {e} : frames'[d] = frames[d]
    BY <2>1, <2>4 DEF IndInv, TypeOK
  <2>6. collecting' \in [Epoch -> BOOLEAN] /\ ~collecting'[e]
        /\ \A d \in Epoch \ {e} : collecting'[d] = collecting[d]
    BY <2>1 DEF IndInv, TypeOK
  <2>7. CollectedIsPrefix'
    BY <2>5, <2>6 DEF IndInv, CollectedIsPrefix
  <2>8. configCache' \in Seq(CacheFrame) /\ heard' \in Seq(CacheFrame) /\ OneSequence(configCache')
    <3>1. CASE ~collecting[e] /\ configCache' = configCache /\ heard' = heard
      BY <3>1 DEF IndInv, TypeOK
    <3>2. CASE collecting[e] /\ configCache' = Append(frames[e], f) /\ heard' = <<>>
      <4>1. /\ frames[e] # <<>> /\ frames[e][1].kind = "my_info"
            /\ \A i \in 2 .. Len(frames[e]) : ~Bounds(frames[e][i].kind)
        BY <3>2 DEF IndInv, CollectedIsPrefix
      <4>2. Len(frames[e]) >= 1
        BY <2>3, <4>1, EmptySeq
      <4>3. OneSequence(Append(frames[e], f))
        BY <2>1, <2>3, <2>4, <4>1, <4>2 DEF OneSequence
      <4> QED
        BY <2>4, <3>2, <4>3
    <3> QED
      BY <2>1, <3>1, <3>2
  <2>9. TypeOK'
    BY <2>1, <2>2, <2>5, <2>6, <2>8 DEF IndInv, TypeOK
  <2> QED
    BY <2>2, <2>7, <2>8, <2>9 DEF IndInv
<1>7. ASSUME NEW e \in Epoch, HandleOther(e) PROVE IndInv'
  <2> DEFINE f == Head(hand[e])
  <2>1. /\ at[e] = "handling" /\ f.kind \notin {"my_info", "config_complete"} /\ Handled(e)
        /\ \/ configCache' = UpsertCachedNodeInfo(configCache, f) /\ heard' = Append(heard, f)
           \/ configCache' = configCache /\ heard' = heard
        /\ frames' = [frames EXCEPT ![e] = IF collecting[e] THEN Append(@, f) ELSE @]
        /\ UNCHANGED <<epoch, live, collecting, myNodeNum, reads>>
    BY <1>7 DEF HandleOther
  <2>2. /\ f \in CacheFrame /\ HandlingHasFrame'
        /\ at' \in [Epoch -> {"none", "top", "reading", "handling", "exited"}]
        /\ hand' \in [Epoch -> Seq(CacheFrame)]
    BY <2>1, HandledFrame
  <2> HIDE DEF f
  <2>3. frames[e] \in Seq(CacheFrame) /\ Len(frames[e]) \in Nat /\ heard \in Seq(CacheFrame)
    BY LenProperties DEF IndInv, TypeOK
  <2>4. /\ Append(frames[e], f) \in Seq(CacheFrame)
        /\ Append(frames[e], f) # <<>>
        /\ Len(Append(frames[e], f)) = Len(frames[e]) + 1
        /\ Append(frames[e], f)[Len(frames[e]) + 1] = f
        /\ \A i \in 1 .. Len(frames[e]) : Append(frames[e], f)[i] = frames[e][i]
        /\ Append(heard, f) \in Seq(CacheFrame)
    BY <2>2, <2>3, Appended
  <2>5. /\ frames' \in [Epoch -> Seq(CacheFrame)]
        /\ \A d \in Epoch \ {e} : frames'[d] = frames[d]
        /\ collecting[e] => frames'[e] = Append(frames[e], f)
    BY <2>1, <2>3, <2>4 DEF IndInv, TypeOK
  <2>6. CollectedIsPrefix'
    <3>1. collecting[e] =>
            /\ frames[e] # <<>> /\ frames[e][1].kind = "my_info"
            /\ \A i \in 2 .. Len(frames[e]) : ~Bounds(frames[e][i].kind)
      BY DEF IndInv, CollectedIsPrefix
    <3>2. frames[e] # <<>> => Len(frames[e]) >= 1
      BY <2>3, EmptySeq
    <3>3. ~Bounds(f.kind)
      BY <2>1 DEF Bounds
    <3>4. ASSUME collecting[e]
          PROVE  /\ frames'[e] # <<>> /\ frames'[e][1].kind = "my_info"
                 /\ \A i \in 2 .. Len(frames'[e]) : ~Bounds(frames'[e][i].kind)
      <4>1. frames'[e] = Append(frames[e], f) /\ Len(frames'[e]) = Len(frames[e]) + 1
        BY <2>4, <2>5, <3>4
      <4>2. frames'[e] # <<>> /\ frames'[e][1].kind = "my_info"
        BY <2>3, <2>4, <3>1, <3>2, <3>4, <4>1
      <4>3. ASSUME NEW i \in 2 .. Len(frames'[e]) PROVE ~Bounds(frames'[e][i].kind)
        <5>1. CASE i = Len(frames[e]) + 1
          BY <2>4, <3>3, <4>1, <5>1
        <5>2. CASE i # Len(frames[e]) + 1
          <6>1. i \in 2 .. Len(frames[e]) /\ i \in 1 .. Len(frames[e])
            BY <2>3, <4>1, <4>3, <5>2
          <6> QED
            BY <2>4, <3>1, <3>4, <4>1, <6>1
        <5> QED
          BY <5>1, <5>2
      <4> QED
        BY <4>2, <4>3
    <3> QED
      BY <2>1, <2>5, <3>4 DEF IndInv, CollectedIsPrefix
  <2>7. configCache' \in Seq(CacheFrame) /\ heard' \in Seq(CacheFrame) /\ OneSequence(configCache')
    <3>1. configCache \in Seq(CacheFrame) /\ OneSequence(configCache)
      BY DEF IndInv, TypeOK
    <3>2. /\ UpsertCachedNodeInfo(configCache, f) \in Seq(CacheFrame)
          /\ OneSequence(UpsertCachedNodeInfo(configCache, f))
      BY <2>2, <3>1, UpsertKeepsShape
    <3> QED
      BY <2>1, <2>3, <2>4, <3>1, <3>2
  <2>8. TypeOK'
    BY <2>1, <2>2, <2>5, <2>7 DEF IndInv, TypeOK
  <2> QED
    BY <2>2, <2>6, <2>7, <2>8 DEF IndInv
<1>8. CASE UNCHANGED vars
  BY <1>8 DEF vars, IndInv, TypeOK, CollectedIsPrefix, HandlingHasFrame, OneSequence
<1> QED
  BY <1>1, <1>2, <1>3, <1>4, <1>5, <1>6, <1>7, <1>8 DEF Next

-----------------------------------------------------------------------------
\* The invariant holds throughout.
THEOREM Invariance == Spec => []IndInv
BY InitIndInv, StepIndInv, PTL DEF Spec

\* Every variable keeps its type: in particular whatever readLoop collects,
\* caches and builds is a sequence of well-formed frames.
THEOREM TypeCorrect == Spec => []TypeOK
<1>1. IndInv => TypeOK
  BY DEF IndInv
<1> QED
  BY <1>1, Invariance, PTL

\* The cache readLoop swaps in and UpsertCachedNodeInfo patches is always
\* empty or one config sequence, for any frames, connections and old loops.
THEOREM CacheShape == Spec => []CacheIsOneSequence
<1>1. IndInv => CacheIsOneSequence
  BY DEF IndInv, OneSequence, CacheIsOneSequence
<1> QED
  BY <1>1, Invariance, PTL

-----------------------------------------------------------------------------
(* The nodes of the cache.                                                 *)

\* NodesListedOnce as a predicate of a sequence.
ListsOnce(s) ==
  \A i, j \in DOMAIN s :
    s[i].kind = "node_info" /\ s[j].kind = "node_info" /\ s[i].id = s[j].id => i = j

\* What a read loop collects lists no node twice, and the node_info it handles
\* is not in it yet: only this loop appends to its configFrames.
CollectedOnce == \A e \in Epoch : collecting[e] => ListsOnce(frames[e])

HandIsNew ==
  \A e \in Epoch : at[e] = "handling" /\ Head(hand[e]).kind = "node_info"
                     => NodeInfoAt(frames[e], Head(hand[e]).id) = {}

NodesInv == CollectedOnce /\ HandIsNew /\ ListsOnce(configCache) /\ HeardNodeIsCached

\* r is s with the frame at k merged with p's identity.
MergedAt(s, p, r, k) ==
  /\ k \in DOMAIN s /\ s[k].kind = "node_info" /\ s[k].id = p.from
  /\ DOMAIN r = DOMAIN s
  /\ r[k].kind = s[k].kind /\ r[k].id = s[k].id /\ r[k].rest = s[k].rest
  /\ r[k].user.name = p.user.name
  /\ \A i \in DOMAIN s \ {k} : r[i] = s[i]

\* r is s with the frame built for p before its last frame.
InsertedIn(s, p, r) ==
  /\ NodeInfoAt(s, p.from) = {}
  /\ Len(s) \in Nat \ {0} /\ DOMAIN s = 1 .. Len(s) /\ DOMAIN r = 1 .. Len(s) + 1
  /\ \A i \in 1 .. Len(s) - 1 : r[i] = s[i]
  /\ r[Len(s)] = buildNodeInfoFrame(p)
  /\ r[Len(s) + 1] = s[Len(s)]

\* UpsertCachedNodeInfo leaves the cache alone, or merges into the frame of
\* the node, or inserts a frame for a node that had none.
LEMMA UpsertEffect ==
  ASSUME NEW s \in Seq(CacheFrame), NEW p \in CacheFrame, OneSequence(s), ListsOnce(s)
  PROVE  LET r == UpsertCachedNodeInfo(s, p) IN
         \/ (p.from = 0 \/ s = <<>>) /\ r = s
         \/ p.from # 0 /\ s # <<>> /\ \E k \in DOMAIN s : MergedAt(s, p, r, k)
         \/ p.from # 0 /\ s # <<>> /\ InsertedIn(s, p, r)
<1> DEFINE r == UpsertCachedNodeInfo(s, p)
           n == Len(s)
<1>0. n \in Nat /\ DOMAIN s = 1 .. n /\ \A i \in DOMAIN s : s[i] \in CacheFrame
  BY LenProperties, ElementOfSeq
<1>1. CASE p.from = 0 \/ s = <<>>
  BY <1>1 DEF UpsertCachedNodeInfo
<1>2. CASE ~(p.from = 0 \/ s = <<>>) /\ NodeInfoAt(s, p.from) # {}
  <2>1. PICK k \in DOMAIN s : NodeInfoAt(s, p.from) = {k} /\ s[k].kind = "node_info" /\ s[k].id = p.from
    BY <1>2 DEF NodeInfoAt, ListsOnce
  <2>2. First({k}) = k
    BY <1>0 DEF First
  <2>3. r = [s EXCEPT ![k] = mergeNodeInfoUser(s[k], p)]
    BY <1>2, <2>1, <2>2 DEF UpsertCachedNodeInfo
  <2>4. DOMAIN r = DOMAIN s /\ r[k] = mergeNodeInfoUser(s[k], p) /\ \A i \in DOMAIN s \ {k} : r[i] = s[i]
    BY <1>0, <2>3
  <2>5. /\ mergeNodeInfoUser(s[k], p).kind = s[k].kind
        /\ mergeNodeInfoUser(s[k], p).id = s[k].id
        /\ mergeNodeInfoUser(s[k], p).rest = s[k].rest
        /\ mergeNodeInfoUser(s[k], p).user.name = p.user.name
    BY <1>0 DEF mergeNodeInfoUser, CacheFrame
  <2>6. MergedAt(s, p, r, k)
    BY <2>1, <2>4, <2>5 DEF MergedAt
  <2> QED
    BY <1>2, <2>6
<1>3. CASE ~(p.from = 0 \/ s = <<>>) /\ NodeInfoAt(s, p.from) = {}
  <2>1. s[n].kind = "config_complete" /\ n >= 2
    BY <1>3 DEF OneSequence
  <2>2. r = InsertBeforeLast(s, buildNodeInfoFrame(p))
    BY <1>3, <2>1 DEF UpsertCachedNodeInfo
  <2>3. ~Bounds(buildNodeInfoFrame(p).kind) /\ buildNodeInfoFrame(p) \in CacheFrame
    BY BuiltFrame DEF Bounds
  <2>4. /\ DOMAIN r = 1 .. n + 1
        /\ \A i \in 1 .. n - 1 : r[i] = s[i]
        /\ r[n] = buildNodeInfoFrame(p) /\ r[n + 1] = s[n]
    BY <1>3, <2>2, <2>3, InsertKeepsShape
  <2>5. InsertedIn(s, p, r)
    BY <1>0, <1>3, <2>1, <2>4 DEF InsertedIn
  <2> QED
    BY <1>3, <2>5
<1> QED
  BY <1>1, <1>2, <1>3

\* An upsert lists no node twice.
LEMMA UpsertListsOnce ==
  ASSUME NEW s \in Seq(CacheFrame), NEW p \in CacheFrame, OneSequence(s), ListsOnce(s)
  PROVE  ListsOnce(UpsertCachedNodeInfo(s, p))
<1> DEFINE r == UpsertCachedNodeInfo(s, p)
<1>1. CASE r = s
  BY <1>1
<1>2. ASSUME NEW k \in DOMAIN s, MergedAt(s, p, r, k) PROVE ListsOnce(r)
  <2>1. \A i \in DOMAIN r : i \in DOMAIN s /\ r[i].kind = s[i].kind /\ r[i].id = s[i].id
    BY <1>2 DEF MergedAt
  <2> HIDE DEF r
  <2> QED
    BY <2>1 DEF ListsOnce
<1>3. CASE InsertedIn(s, p, r)
  <2> DEFINE n == Len(s)
             old(i) == IF i = n + 1 THEN n ELSE i
  <2>1. /\ n \in Nat \ {0} /\ DOMAIN s = 1 .. n /\ DOMAIN r = 1 .. n + 1
        /\ \A i \in 1 .. n - 1 : r[i] = s[i]
        /\ r[n] = buildNodeInfoFrame(p) /\ r[n + 1] = s[n]
        /\ \A i \in DOMAIN s : ~(s[i].kind = "node_info" /\ s[i].id = p.from)
    BY <1>3 DEF InsertedIn, NodeInfoAt
  <2>2. r[n].id = p.from
    BY <2>1 DEF buildNodeInfoFrame
  <2> HIDE DEF r, n
  <2>3. ASSUME NEW i \in DOMAIN r, i # n PROVE old(i) \in DOMAIN s /\ r[i] = s[old(i)]
    BY <2>1, <2>3
  <2>4. ASSUME NEW i \in DOMAIN r, NEW j \in DOMAIN r,
               r[i].kind = "node_info", r[j].kind = "node_info", r[i].id = r[j].id
        PROVE  i = j
    <3>1. CASE i = n /\ j = n
      BY <3>1
    <3>2. CASE i = n /\ j # n
      BY <2>1, <2>2, <2>3, <2>4, <3>2
    <3>3. CASE i # n /\ j = n
      BY <2>1, <2>2, <2>3, <2>4, <3>3
    <3>4. CASE i # n /\ j # n
      <4>1. old(i) = old(j)
        <5> HIDE DEF old
        <5> QED
          BY <2>3, <2>4, <3>4 DEF ListsOnce
      <4> QED
        BY <2>1, <2>4, <3>4, <4>1
    <3> QED
      BY <3>1, <3>2, <3>3, <3>4
  <2> QED
    BY <2>4 DEF ListsOnce, r
<1> QED
  BY <1>1, <1>2, <1>3, UpsertEffect

\* An upsert gives the node it heard the identity it announced, and leaves
\* the identities of all other nodes as they were.
LEMMA UpsertIdentities ==
  ASSUME NEW s \in Seq(CacheFrame), NEW p \in CacheFrame, OneSequence(s), ListsOnce(s)
  PROVE  LET r == UpsertCachedNodeInfo(s, p) IN
         /\ s # <<>> /\ p.from # 0 =>
              \E k \in NodeInfoAt(r, p.from) : r[k].user.name = p.user.name
         /\ \A m \in Nat : m # p.from \/ p.from = 0 =>
              \A k \in NodeInfoAt(s, m) :
                \E j \in NodeInfoAt(r, m) : r[j].user.name = s[k].user.name
<1> DEFINE r == UpsertCachedNodeInfo(s, p)
<1>1. CASE (p.from = 0 \/ s = <<>>) /\ r = s
  BY <1>1
<1>2. ASSUME NEW k \in DOMAIN s, p.from # 0, MergedAt(s, p, r, k)
      PROVE  /\ \E i \in NodeInfoAt(r, p.from) : r[i].user.name = p.user.name
             /\ \A m \in Nat : m # p.from => \A i \in NodeInfoAt(s, m) :
                  \E j \in NodeInfoAt(r, m) : r[j].user.name = s[i].user.name
  <2> HIDE DEF r
  <2>1. k \in NodeInfoAt(r, p.from) /\ r[k].user.name = p.user.name
    BY <1>2 DEF MergedAt, NodeInfoAt
  <2>2. ASSUME NEW m \in Nat, m # p.from, NEW i \in NodeInfoAt(s, m)
        PROVE  i \in NodeInfoAt(r, m) /\ r[i] = s[i]
    BY <1>2, <2>2 DEF MergedAt, NodeInfoAt
  <2> QED
    BY <2>1, <2>2
<1>3. ASSUME p.from # 0, InsertedIn(s, p, r)
      PROVE  /\ \E i \in NodeInfoAt(r, p.from) : r[i].user.name = p.user.name
             /\ \A m \in Nat : m # p.from => \A i \in NodeInfoAt(s, m) :
                  \E j \in NodeInfoAt(r, m) : r[j].user.name = s[i].user.name
  <2> DEFINE n == Len(s)
  <2>1. /\ n \in Nat \ {0} /\ DOMAIN s = 1 .. n /\ DOMAIN r = 1 .. n + 1
        /\ \A i \in 1 .. n - 1 : r[i] = s[i]
        /\ r[n] = buildNodeInfoFrame(p) /\ r[n + 1] = s[n]
    BY <1>3 DEF InsertedIn
  <2>2. r[n].kind = "node_info" /\ r[n].id = p.from /\ r[n].user = p.user
    BY <2>1 DEF buildNodeInfoFrame
  <2> HIDE DEF r, n
  <2>3. n \in NodeInfoAt(r, p.from) /\ r[n].user.name = p.user.name
    BY <2>1, <2>2 DEF NodeInfoAt
  <2>4. ASSUME NEW m \in Nat, m # p.from, NEW i \in NodeInfoAt(s, m)
        PROVE  \E j \in NodeInfoAt(r, m) : r[j].user.name = s[i].user.name
    <3>1. i \in DOMAIN s /\ s[i].kind = "node_info" /\ s[i].id = m
      BY DEF NodeInfoAt
    <3>2. CASE i = n
      <4>1. n + 1 \in NodeInfoAt(r, m) /\ r[n + 1] = s[i]
        BY <2>1, <3>1, <3>2 DEF NodeInfoAt
      <4> QED
        BY <4>1
    <3>3. CASE i # n
      <4>1. i \in NodeInfoAt(r, m) /\ r[i] = s[i]
        BY <2>1, <3>1, <3>3 DEF NodeInfoAt
      <4> QED
        BY <4>1
    <3> QED
      BY <3>2, <3>3
  <2> QED
    BY <2>3, <2>4
<1> QED
  <2>1. \/ (p.from = 0 \/ s = <<>>) /\ r = s
        \/ p.from # 0 /\ s # <<>> /\ \E k \in DOMAIN s : MergedAt(s, p, r, k)
        \/ p.from # 0 /\ s # <<>> /\ InsertedIn(s, p, r)
    BY UpsertEffect
  <2> HIDE DEF r
  <2>2. CASE p.from # 0 /\ s # <<>> /\ \E k \in DOMAIN s : MergedAt(s, p, r, k)
    BY <1>2, <2>2 DEF r
  <2>3. CASE p.from # 0 /\ s # <<>> /\ InsertedIn(s, p, r)
    BY <1>3, <2>3 DEF r
  <2> QED
    BY <1>1, <2>1, <2>2, <2>3 DEF r

\* Every frame of the cache is, apart from its identity, still there after an
\* upsert.
LEMMA UpsertKeepsRest ==
  ASSUME NEW s \in Seq(CacheFrame), NEW p \in CacheFrame, OneSequence(s), ListsOnce(s)
  PROVE  LET r == UpsertCachedNodeInfo(s, p) IN
         \A i \in DOMAIN s : \E j \in DOMAIN r :
           r[j].kind = s[i].kind /\ r[j].id = s[i].id /\ r[j].rest = s[i].rest
<1> DEFINE r == UpsertCachedNodeInfo(s, p)
<1> SUFFICES ASSUME NEW i \in DOMAIN s
             PROVE  \E j \in DOMAIN r :
                      r[j].kind = s[i].kind /\ r[j].id = s[i].id /\ r[j].rest = s[i].rest
  OBVIOUS
<1>1. CASE r = s
  BY <1>1
<1>2. ASSUME NEW k \in DOMAIN s, MergedAt(s, p, r, k)
      PROVE  \E j \in DOMAIN r :
               r[j].kind = s[i].kind /\ r[j].id = s[i].id /\ r[j].rest = s[i].rest
  <2> HIDE DEF r
  <2>1. i \in DOMAIN r /\ r[i].kind = s[i].kind /\ r[i].id = s[i].id /\ r[i].rest = s[i].rest
    BY <1>2 DEF MergedAt
  <2> QED
    BY <2>1
<1>3. CASE InsertedIn(s, p, r)
  <2> HIDE DEF r
  <2>1. CASE i = Len(s)
    BY <1>3, <2>1 DEF InsertedIn
  <2>2. CASE i # Len(s)
    <3>1. i \in 1 .. Len(s) - 1 /\ i \in DOMAIN r
      BY <1>3, <2>2 DEF InsertedIn
    <3> QED
      BY <1>3, <3>1 DEF InsertedIn
  <2> QED
    BY <2>1, <2>2
<1> QED
  BY <1>1, <1>2, <1>3, UpsertEffect

\* Collecting a frame of a node that is not listed yet lists no node twice.
LEMMA CollectListsOnce ==
  ASSUME NEW s \in Seq(CacheFrame), NEW f \in CacheFrame, ListsOnce(s),
         f.kind = "node_info" => NodeInfoAt(s, f.id) = {}
  PROVE  ListsOnce(Append(s, f))
<1> DEFINE r == Append(s, f)
           n == Len(s)
<1>1. n \in Nat /\ DOMAIN s = 1 .. n /\ r \in Seq(CacheFrame)
  BY LenProperties, Appended
<1>2. Len(r) = n + 1 /\ r[n + 1] = f /\ \A i \in 1 .. n : r[i] = s[i]
  BY Appended
<1>3. DOMAIN r = 1 .. n + 1
  BY <1>1, <1>2, LenProperties
<1> HIDE DEF r, n
<1>4. \A i \in 1 .. n : ~(f.kind = "node_info" /\ s[i].kind = "node_info" /\ s[i].id = f.id)
  BY <1>1 DEF NodeInfoAt
<1>5. ASSUME NEW i \in DOMAIN r, NEW j \in DOMAIN r,
             r[i].kind = "node_info", r[j].kind = "node_info", r[i].id = r[j].id
      PROVE  i = j
  <2>1. (i = n + 1 \/ i \in 1 .. n) /\ (j = n + 1 \/ j \in 1 .. n)
    BY <1>1, <1>3
  <2>2. CASE i = n + 1 /\ j \in 1 .. n
    BY <1>2, <1>4, <1>5, <2>2
  <2>3. CASE i \in 1 .. n /\ j = n + 1
    BY <1>2, <1>4, <1>5, <2>3
  <2>4. CASE i \in 1 .. n /\ j \in 1 .. n
    BY <1>1, <1>2, <1>5, <2>4 DEF ListsOnce
  <2> QED
    BY <2>1, <2>2, <2>3, <2>4
<1> QED
  BY <1>5 DEF ListsOnce, r

\* Handling a NODEINFO_APP packet keeps HeardNodeIsCached: it is now the last
\* packet heard of its node and of no other.
LEMMA HeardStep ==
  ASSUME IndInv, ListsOnce(configCache), HeardNodeIsCached, NEW f \in CacheFrame,
         configCache' = UpsertCachedNodeInfo(configCache, f), heard' = Append(heard, f)
  PROVE  HeardNodeIsCached'
<1> DEFINE n == Len(heard)
<1>1. configCache \in Seq(CacheFrame) /\ heard \in Seq(CacheFrame) /\ OneSequence(configCache)
  BY DEF IndInv, TypeOK
<1>2. /\ n \in Nat /\ DOMAIN heard = 1 .. n /\ DOMAIN heard' = 1 .. n + 1
      /\ heard'[n + 1] = f /\ \A i \in 1 .. n : heard'[i] = heard[i] /\ heard[i] \in CacheFrame
  <2>1. heard' \in Seq(CacheFrame) /\ Len(heard') = n + 1
    BY <1>1, Appended
  <2> QED
    BY <1>1, <2>1, Appended, LenProperties, ElementOfSeq
<1>3. configCache = <<>> => configCache' = <<>>
  BY DEF UpsertCachedNodeInfo
<1>4. /\ configCache # <<>> /\ f.from # 0 =>
           \E k \in NodeInfoAt(configCache', f.from) : configCache'[k].user.name = f.user.name
      /\ \A m \in Nat : m # f.from \/ f.from = 0 =>
           \A k \in NodeInfoAt(configCache, m) :
             \E j \in NodeInfoAt(configCache', m) :
               configCache'[j].user.name = configCache[k].user.name
  BY <1>1, UpsertIdentities
<1> HIDE DEF n
<1>5. ASSUME configCache' # <<>>, NEW i \in DOMAIN heard', heard'[i].from # 0,
             \A j \in DOMAIN heard' : j > i => heard'[j].from # heard'[i].from
      PROVE  \E k \in NodeInfoAt(configCache', heard'[i].from) :
               configCache'[k].user.name = heard'[i].user.name
  <2>1. CASE i = n + 1
    BY <1>2, <1>3, <1>4, <1>5, <2>1
  <2>2. CASE i # n + 1
    <3>1. i \in 1 .. n /\ heard'[i] = heard[i] /\ heard[i].from \in Nat
      BY <1>2, <1>5, <2>2 DEF CacheFrame
    <3>2. heard[i].from # f.from
      <4>1. n + 1 \in DOMAIN heard' /\ n + 1 > i
        BY <1>2, <3>1
      <4> QED
        BY <1>2, <1>5, <3>1, <4>1
    <3>3. \A j \in DOMAIN heard : j > i => heard[j].from # heard[i].from
      BY <1>2, <1>5, <3>1
    <3>4. configCache # <<>>
      BY <1>3, <1>5
    <3>5. PICK k \in NodeInfoAt(configCache, heard[i].from) :
            configCache[k].user.name = heard[i].user.name
      BY <1>2, <1>5, <3>1, <3>3, <3>4 DEF HeardNodeIsCached
    <3> QED
      BY <1>4, <3>1, <3>2, <3>5
  <2> QED
    BY <2>1, <2>2
<1> QED
  BY <1>5 DEF HeardNodeIsCached

\* Nothing is collected, cached or heard before the first connection.
LEMMA InitNodesInv == Init => NodesInv
BY DEF Init, NodesInv, CollectedOnce, HandIsNew, ListsOnce, HeardNodeIsCached

\* Every step keeps the nodes right.
LEMMA StepNodesInv == IndInv /\ NodesInv /\ [Next]_vars => NodesInv'
<1> SUFFICES ASSUME IndInv, NodesInv, [Next]_vars PROVE NodesInv'
  OBVIOUS
<1> USE CacheAssumption
\* A step that leaves collected frames, cache and heard packets alone and
\* hands no loop a frame.
<1>q. ASSUME UNCHANGED <<collecting, frames, configCache, hand, heard>>,
             \A e \in Epoch : at'[e] = "handling" => at[e] = "handling"
      PROVE  NodesInv'
  BY <1>q DEF NodesInv, CollectedOnce, HandIsNew, ListsOnce, HeardNodeIsCached, NodeInfoAt
<1>1. CASE Connect
  <2>1. epoch' \in Epoch
    BY <1>1 DEF Connect, IndInv, TypeOK, Epoch
  <2>2. \A e \in Epoch : at'[e] = "handling" => at[e] = "handling"
    BY <1>1, <2>1 DEF Connect, IndInv, TypeOK
  <2> QED
    BY <1>1, <1>q, <2>2 DEF Connect
<1>2. CASE Disconnect
  BY <1>2, <1>q DEF Disconnect
<1>3. ASSUME NEW e \in Epoch, LoopTop(e) \/ ReadFails(e) PROVE NodesInv'
  <2>1. /\ \A d \in Epoch : at'[d] = "handling" => at[d] = "handling"
        /\ UNCHANGED <<hand, collecting, frames, configCache, heard>>
    BY <1>3 DEF LoopTop, ReadFails, IndInv, TypeOK
  <2> QED
    BY <1>q, <2>1
<1>4. ASSUME NEW e \in Epoch, NEW f \in NodeFrame, ReadFrame(e, f) PROVE NodesInv'
  <2>1. /\ hand'[e] = <<f>> /\ \A d \in Epoch \ {e} : hand'[d] = hand[d] /\ at'[d] = at[d]
        /\ UNCHANGED <<collecting, frames, configCache, heard>>
        /\ f.kind = "node_info" => NodeInfoAt(frames[e], f.id) = {}
    BY <1>4 DEF ReadFrame, NodeMaySend, IndInv, TypeOK
  <2>2. Head(hand'[e]) = f
    BY <2>1
  <2>3. HandIsNew'
    BY <2>1, <2>2 DEF NodesInv, HandIsNew, NodeInfoAt
  <2> QED
    BY <2>1, <2>3 DEF NodesInv, CollectedOnce, ListsOnce, HeardNodeIsCached, NodeInfoAt
\* A handler leaves the other loops as they are.
<1>h. ASSUME NEW e \in Epoch, Handled(e), at[e] = "handling",
             \A d \in Epoch \ {e} : frames'[d] = frames[d]
      PROVE  HandIsNew'
  <2>1. at'[e] # "handling" /\ \A d \in Epoch \ {e} : at'[d] = at[d] /\ hand'[d] = hand[d]
    BY <1>h DEF Handled, IndInv, TypeOK
  <2> QED
    BY <1>h, <2>1 DEF NodesInv, HandIsNew, NodeInfoAt
<1>5. ASSUME NEW e \in Epoch, HandleMyInfo(e) PROVE NodesInv'
  <2> DEFINE f == Head(hand[e])
  <2>1. /\ at[e] = "handling" /\ f.kind = "my_info" /\ Handled(e)
        /\ frames'[e] = <<f>>
        /\ \A d \in Epoch \ {e} : frames'[d] = frames[d] /\ collecting'[d] = collecting[d]
        /\ UNCHANGED <<configCache, heard>>
    BY <1>5 DEF HandleMyInfo, IndInv, TypeOK
  <2> HIDE DEF f
  <2>2. ListsOnce(<<f>>)
    BY DEF ListsOnce
  <2>3. CollectedOnce'
    BY <2>1, <2>2 DEF NodesInv, CollectedOnce
  <2>4. HandIsNew'
    BY <1>h, <2>1
  <2> QED
    BY <2>1, <2>3, <2>4 DEF NodesInv, HeardNodeIsCached
<1>6. ASSUME NEW e \in Epoch, HandleConfigComplete(e) PROVE NodesInv'
  <2> DEFINE f == Head(hand[e])
  <2>1. /\ at[e] = "handling" /\ f.kind = "config_complete" /\ Handled(e)
        /\ \/ collecting[e] /\ configCache' = Append(frames[e], f) /\ heard' = <<>>
           \/ ~collecting[e] /\ configCache' = configCache /\ heard' = heard
        /\ ~collecting'[e]
        /\ \A d \in Epoch \ {e} : frames'[d] = frames[d] /\ collecting'[d] = collecting[d]
    BY <1>6 DEF HandleConfigComplete, IndInv, TypeOK
  <2>2. f \in CacheFrame
    BY <2>1, HandledFrame
  <2> HIDE DEF f
  <2>3. CollectedOnce'
    BY <2>1 DEF NodesInv, CollectedOnce
  <2>4. HandIsNew'
    BY <1>h, <2>1
  <2>5. ListsOnce(configCache') /\ HeardNodeIsCached'
    <3>1. CASE collecting[e] /\ configCache' = Append(frames[e], f) /\ heard' = <<>>
      <4>1. frames[e] \in Seq(CacheFrame) /\ ListsOnce(frames[e])
        BY <3>1 DEF IndInv, TypeOK, NodesInv, CollectedOnce
      <4>2. ListsOnce(configCache')
        BY <2>1, <2>2, <3>1, <4>1, CollectListsOnce
      <4>3. HeardNodeIsCached'
        BY <3>1 DEF HeardNodeIsCached
      <4> QED
        BY <4>2, <4>3
    <3>2. CASE configCache' = configCache /\ heard' = heard
      BY <3>2 DEF NodesInv, HeardNodeIsCached
    <3> QED
      BY <2>1, <3>1, <3>2
  <2> QED
    BY <2>3, <2>4, <2>5 DEF NodesInv
<1>7. ASSUME NEW e \in Epoch, HandleOther(e) PROVE NodesInv'
  <2> DEFINE f == Head(hand[e])
  <2>1. /\ at[e] = "handling" /\ Handled(e) /\ collecting' = collecting
        /\ \/ configCache' = UpsertCachedNodeInfo(configCache, f) /\ heard' = Append(heard, f)
           \/ configCache' = configCache /\ heard' = heard
        /\ collecting[e] => frames'[e] = Append(frames[e], f)
        /\ \A d \in Epoch \ {e} : frames'[d] = frames[d]
        /\ f.kind = "node_info" => NodeInfoAt(frames[e], f.id) = {}
    BY <1>7 DEF HandleOther, IndInv, TypeOK, NodesInv, HandIsNew
  <2>2. f \in CacheFrame
    BY <2>1, HandledFrame
  <2> HIDE DEF f
  <2>3. CollectedOnce'
    <3>1. frames[e] \in Seq(CacheFrame) /\ (collecting[e] => ListsOnce(frames[e]))
      BY DEF IndInv, TypeOK, NodesInv, CollectedOnce
    <3>2. collecting[e] => ListsOnce(frames'[e])
      BY <2>1, <2>2, <3>1, CollectListsOnce
    <3> QED
      BY <2>1, <3>2 DEF NodesInv, CollectedOnce
  <2>4. HandIsNew'
    BY <1>h, <2>1
  <2>5. CASE configCache' = UpsertCachedNodeInfo(configCache, f) /\ heard' = Append(heard, f)
    <3>1. configCache \in Seq(CacheFrame) /\ OneSequence(configCache)
          /\ ListsOnce(configCache) /\ HeardNodeIsCached
      BY DEF IndInv, TypeOK, NodesInv
    <3>2. ListsOnce(configCache')
      BY <2>2, <2>5, <3>1, UpsertListsOnce
    <3>3. HeardNodeIsCached'
      BY <2>2, <2>5, <3>1, HeardStep
    <3> QED
      BY <2>3, <2>4, <3>2, <3>3 DEF NodesInv
  <2>6. CASE configCache' = configCache /\ heard' = heard
    BY <2>3, <2>4, <2>6 DEF NodesInv, HeardNodeIsCached
  <2> QED
    BY <2>1, <2>5, <2>6
<1>8. CASE UNCHANGED vars
  BY <1>8, <1>q DEF vars
<1> QED
  BY <1>1, <1>2, <1>3, <1>4, <1>5, <1>6, <1>7, <1>8 DEF Next

\* The cache lists every node at most once, and every node heard since it was
\* swapped with the identity it announced last: in whatever order the loops of
\* several connections collect, swap and upsert.
THEOREM NodesRight == Spec => []CachedNodesRight
<1>1. NodesInv => CachedNodesRight
  BY DEF NodesInv, ListsOnce, CachedNodesRight, NodesListedOnce
<1> QED
  BY <1>1, InitNodesInv, StepNodesInv, Invariance, PTL DEF Spec

\* mergeNodeInfoUser and the insertion lose nothing of what the node itself
\* told about a node: apart from identities, a patch keeps every frame.
THEOREM PatchesKeepRest == Spec => PatchKeepsRest
<1> DEFINE Kept == Patched =>
             \A i \in DOMAIN configCache : \E j \in DOMAIN configCache' :
               /\ configCache'[j].kind = configCache[i].kind
               /\ configCache'[j].id = configCache[i].id
               /\ configCache'[j].rest = configCache[i].rest
<1>1. IndInv /\ NodesInv /\ [Next]_vars => [Kept]_vars
  <2> SUFFICES ASSUME IndInv, NodesInv, Next, Patched PROVE Kept
    BY DEF vars, Patched
  <2>1. PICK e \in Epoch : HandleConfigComplete(e) \/ HandleOther(e)
    BY DEF Next, Connect, Disconnect, LoopTop, ReadFails, ReadFrame, HandleMyInfo, Patched
  <2> DEFINE f == Head(hand[e])
  <2>2. at[e] = "handling" /\ Handled(e) /\ configCache' = UpsertCachedNodeInfo(configCache, f)
    BY <2>1 DEF HandleConfigComplete, HandleOther, Patched
  <2>3. f \in CacheFrame
    BY <2>2, HandledFrame
  <2>4. configCache \in Seq(CacheFrame) /\ OneSequence(configCache) /\ ListsOnce(configCache)
    BY DEF IndInv, TypeOK, NodesInv
  <2> QED
    BY <2>2, <2>3, <2>4, UpsertKeepsRest
<1> QED
  BY <1>1, InitNodesInv, StepNodesInv, Invariance, PTL DEF Spec, PatchKeepsRest

-----------------------------------------------------------------------------
(* The loop of filterConfigCache, and the answers built with it.  What the *)
(* recursive function in Picked computes is shown by induction on the      *)
(* number of frames, for which a set of numbers takes the place of a       *)
(* predicate.                                                              *)

\* A set of naturals has a least one: the intervals up to its members are finite
\* sets, and strict inclusion is well founded on those.
LEMMA LeastNatural ==
  ASSUME NEW T, T \subseteq Nat, T # {}
  PROVE  \E x \in T : \A y \in T : x <= y
<1> DEFINE P == {1 .. n : n \in T}
           R == StrictSubsetOrdering(Nat)
           F == FiniteSubsetsOf(Nat)
<1>1. IsWellFoundedOn(R, F)
  BY FS_StrictSubsetOrderingWellFounded
<1>2. P \subseteq F /\ P # {}
  <2>1. ASSUME NEW n \in T PROVE 1 .. n \in F
    <3>1. IsFiniteSet(1 .. n)
      BY FS_Interval
    <3> QED
      BY <3>1 DEF FiniteSubsetsOf
  <2> QED
    BY <2>1
<1> HIDE DEF R, F, P
<1>3. \E p \in P : \A q \in P : ~ (<<q, p>> \in R)
  BY <1>1, <1>2, WFMin
<1>4. PICK x \in T : \A y \in T : ~ (<<1 .. y, 1 .. x>> \in R)
  BY <1>3 DEF P
<1>5. ASSUME NEW y \in T PROVE x <= y
  <2>1. ~ (<<1 .. y, 1 .. x>> \in R) /\ x \in Nat /\ y \in Nat
    BY <1>4
  <2>2. CASE y < x
    <3>1. 1 .. y \subseteq 1 .. x /\ x \in 1 .. x /\ x \notin 1 .. y
      BY <2>1, <2>2
    <3>2. 1 .. y \in SUBSET Nat /\ 1 .. x \in SUBSET Nat /\ 1 .. y # 1 .. x
      BY <2>1, <3>1
    <3> QED
      BY <2>1, <3>1, <3>2 DEF R, StrictSubsetOrdering
  <2> QED
    BY <2>1, <2>2
<1> QED
  BY <1>5

\* Hence a set that holds 0 and with a number the next holds all of 0 .. n.
LEMMA UpTo ==
  ASSUME NEW n \in Nat, NEW G, 0 \in G, \A i \in 1 .. n : i - 1 \in G => i \in G
  PROVE  \A i \in 0 .. n : i \in G
<1> DEFINE B == {i \in 0 .. n : i \notin G}
<1> SUFFICES ASSUME B # {} PROVE FALSE
  OBVIOUS
<1>0. B \subseteq Nat
  OBVIOUS
<1>1. PICK m \in B : \A y \in B : m <= y
  BY <1>0, LeastNatural
<1>2. m \in 1 .. n /\ m - 1 \in 0 .. n /\ ~(m <= m - 1)
  BY <1>1
<1>3. m - 1 \in G
  BY <1>1, <1>2
<1> QED
  BY <1>1, <1>2, <1>3

\* u is what the loop of filterConfigCache has appended after each frame of s.
LoopOf(u, T, s, S) ==
  /\ u \in [0 .. Len(s) -> Seq(T)] /\ u[0] = <<>> /\ Picked(s, S) = u[Len(s)]
  /\ \A i \in 1 .. Len(s) : u[i] = IF i \in S THEN Append(u[i - 1], s[i]) ELSE u[i - 1]

\* The recursive function in Picked is that loop.
LEMMA PickedUpto ==
  ASSUME NEW T, NEW s \in Seq(T), NEW S
  PROVE  \E u : LoopOf(u, T, s, S)
<1> DEFINE N == Len(s)
           Upto(n, u) == /\ u \in [0 .. n -> Seq(T)] /\ u[0] = <<>>
                         /\ \A i \in 1 .. n : u[i] = IF i \in S THEN Append(u[i - 1], s[i]) ELSE u[i - 1]
           G == {n \in 0 .. N : \E u : Upto(n, u)}
<1>0. N \in Nat /\ \A i \in 1 .. N : s[i] \in T
  OBVIOUS
<1>1. 0 \in G
  <2> DEFINE v == [i \in 0 .. 0 |-> <<>>]
  <2>1. v \in [0 .. 0 -> Seq(T)] /\ v[0] = <<>>
    OBVIOUS
  <2> HIDE DEF v
  <2>2. Upto(0, v)
    BY <2>1
  <2> HIDE DEF Upto
  <2> QED
    BY <1>0, <2>2
<1>2. ASSUME NEW n \in 1 .. N, n - 1 \in G PROVE n \in G
  <2>1. PICK u : Upto(n - 1, u)
    BY <1>2
  <2> DEFINE x == IF n \in S THEN Append(u[n - 1], s[n]) ELSE u[n - 1]
             v == [i \in 0 .. n |-> IF i = n THEN x ELSE u[i]]
  <2>2. n \in Nat /\ n - 1 \in 0 .. n - 1
    BY <1>0
  <2>3. x \in Seq(T)
    BY <1>0, <2>1, <2>2
  <2> HIDE DEF x
  <2>4. v \in [0 .. n -> Seq(T)]
    BY <2>1, <2>2, <2>3
  <2>5. v[0] = <<>>
    BY <2>1, <2>2
  <2>6. ASSUME NEW i \in 1 .. n
        PROVE  v[i] = IF i \in S THEN Append(v[i - 1], s[i]) ELSE v[i - 1]
    <3>1. i - 1 \in 0 .. n /\ i - 1 # n /\ v[i - 1] = u[i - 1]
      BY <2>2
    <3>2. CASE i = n
      BY <3>1, <3>2 DEF x
    <3>3. CASE i # n
      <4>1. i \in 1 .. n - 1 /\ v[i] = u[i]
        BY <2>2, <3>3
      <4> QED
        BY <2>1, <3>1, <4>1
    <3> QED
      BY <3>2, <3>3
  <2> HIDE DEF v
  <2>7. Upto(n, v)
    BY <2>4, <2>5, <2>6
  <2>8. n \in 0 .. N
    BY <1>0
  <2> HIDE DEF Upto
  <2> QED
    BY <2>7, <2>8
<1> HIDE DEF N, G
<1>3. N \in G
  <2>1. \A i \in 1 .. N : i - 1 \in G => i \in G
    BY <1>2
  <2>2. \A i \in 0 .. N : i \in G
    BY <1>0, <1>1, <2>1, UpTo
  <2> QED
    BY <1>0, <2>2
<1>4. PICK w : Upto(N, w)
  <2> HIDE DEF Upto
  <2> QED
    BY <1>3 DEF G
<1> DEFINE F(u) == [i \in 0 .. Len(s) |->
                      IF i = 0 THEN <<>>
                      ELSE IF i \in S THEN Append(u[i - 1], s[i])
                      ELSE u[i - 1]]
           c == CHOOSE u : u = F(u)
<1>5. w = F(w)
  <2>1. DOMAIN w = 0 .. N /\ w \in [0 .. N -> Seq(T)] /\ w[0] = <<>>
    BY <1>4
  <2>2. ASSUME NEW i \in 0 .. N
        PROVE  w[i] = IF i = 0 THEN <<>>
                      ELSE IF i \in S THEN Append(w[i - 1], s[i])
                      ELSE w[i - 1]
    <3>1. i = 0 \/ i \in 1 .. N
      BY <1>0
    <3> QED
      BY <1>4, <3>1
  <2> QED
    BY <2>1, <2>2 DEF N
<1> HIDE DEF F
<1>6. c = F(c)
  BY <1>5
<1>7. Picked(s, S) = c[Len(s)]
  BY DEF Picked, F
<1> HIDE DEF c
<1>8. DOMAIN F(c) = 0 .. N /\ F(c)[0] = <<>>
  BY <1>0 DEF F, N
<1>9. ASSUME NEW i \in 1 .. N
      PROVE  c[i] = IF i \in S THEN Append(c[i - 1], s[i]) ELSE c[i - 1]
  <2>1. i \in 0 .. N /\ i # 0
    BY <1>0
  <2>2. F(c)[i] = IF i \in S THEN Append(c[i - 1], s[i]) ELSE c[i - 1]
    BY <2>1 DEF F, N
  <2> QED
    BY <1>6, <2>2
<1> DEFINE H == {i \in 0 .. N : c[i] \in Seq(T)}
<1>10. 0 \in H
  <2>1. c[0] = <<>>
    BY <1>6, <1>8, Zenon
  <2>2. <<>> \in Seq(T)
    OBVIOUS
  <2>3. c[0] \in Seq(T)
    BY <2>1, <2>2, Zenon
  <2>4. 0 \in 0 .. N
    BY <1>0
  <2> QED
    BY <2>3, <2>4, Zenon
<1>11. ASSUME NEW i \in 1 .. N, i - 1 \in H PROVE i \in H
  <2>1. c[i - 1] \in Seq(T) /\ s[i] \in T /\ i \in 0 .. N
    BY <1>0, <1>11
  <2>2. \A q \in Seq(T) : Append(q, s[i]) \in Seq(T)
    BY <2>1
  <2>3. c[i] = IF i \in S THEN Append(c[i - 1], s[i]) ELSE c[i - 1]
    BY <1>9
  <2>4. c[i] \in Seq(T)
    BY <2>1, <2>2, <2>3, Zenon
  <2> QED
    BY <2>1, <2>4, Zenon
<1> HIDE DEF H
<1>12. \A i \in 0 .. N : i \in H
  <2>1. \A i \in 1 .. N : i - 1 \in H => i \in H
    BY <1>11
  <2> QED
    BY <1>0, <1>10, <2>1, UpTo
<1>13. c \in [0 .. N -> Seq(T)]
  <2>1. \A i \in 0 .. N : c[i] \in Seq(T)
    BY <1>12 DEF H
  <2>2. c = [i \in 0 .. N |-> c[i]]
    <3>1. F(c) = [i \in 0 .. N |-> F(c)[i]]
      BY DEF F, N
    <3> QED
      BY <1>6, <3>1
  <2> QED
    BY <2>1, <2>2
<1>14. c[0] = <<>> /\ Picked(s, S) = c[N]
  BY <1>6, <1>7, <1>8 DEF N
<1>15. LoopOf(c, T, s, S)
  BY <1>9, <1>13, <1>14 DEF N, LoopOf
<1> QED
  BY <1>15

\* One frame more is one turn of the loop more.
LEMMA PickedAppend ==
  ASSUME NEW T, NEW s \in Seq(T), NEW e \in T, NEW S
  PROVE  Picked(Append(s, e), S) = IF Len(s) + 1 \in S THEN Append(Picked(s, S), e) ELSE Picked(s, S)
<1> DEFINE t == Append(s, e)
           N == Len(s)
<1>1. /\ t \in Seq(T) /\ N \in Nat /\ Len(t) = N + 1 /\ t[N + 1] = e
      /\ \A i \in 1 .. N : t[i] = s[i]
  OBVIOUS
<1> HIDE DEF t, N
<1>a. PICK u : LoopOf(u, T, t, S)
  BY <1>1, PickedUpto
<1>b. PICK w : LoopOf(w, T, s, S)
  BY PickedUpto
<1>2. /\ u \in [0 .. Len(t) -> Seq(T)] /\ u[0] = <<>> /\ Picked(t, S) = u[Len(t)]
      /\ \A i \in 1 .. Len(t) : u[i] = IF i \in S THEN Append(u[i - 1], t[i]) ELSE u[i - 1]
  BY <1>a DEF LoopOf
<1>3. /\ w \in [0 .. N -> Seq(T)] /\ w[0] = <<>> /\ Picked(s, S) = w[N]
      /\ \A i \in 1 .. N : w[i] = IF i \in S THEN Append(w[i - 1], s[i]) ELSE w[i - 1]
  BY <1>b DEF LoopOf, N
<1> DEFINE G == {i \in 0 .. N : u[i] = w[i]}
<1>4. 0 \in G
  <2>1. u[0] = w[0]
    BY <1>2, <1>3
  <2> QED
    BY <1>1, <2>1
<1>5. ASSUME NEW i \in 1 .. N, i - 1 \in G PROVE i \in G
  <2>1. u[i - 1] = w[i - 1] /\ i \in 1 .. Len(t) /\ i \in 0 .. N
    BY <1>1, <1>5
  <2>2. u[i] = IF i \in S THEN Append(u[i - 1], t[i]) ELSE u[i - 1]
    BY <1>2, <2>1
  <2>3. w[i] = IF i \in S THEN Append(w[i - 1], s[i]) ELSE w[i - 1]
    BY <1>3
  <2>4. t[i] = s[i]
    BY <1>1 DEF N
  <2>5. u[i] = w[i]
    BY <2>1, <2>2, <2>3, <2>4
  <2> QED
    BY <2>1, <2>5
<1> HIDE DEF G
<1>6. N \in G
  <2>1. \A i \in 1 .. N : i - 1 \in G => i \in G
    BY <1>5
  <2>2. \A i \in 0 .. N : i \in G
    BY <1>1, <1>4, <2>1, UpTo
  <2> QED
    BY <1>1, <2>2
<1>7. u[N] = w[N]
  BY <1>6 DEF G
<1>8. u[N + 1] = IF N + 1 \in S THEN Append(u[N], t[N + 1]) ELSE u[N]
  <2>1. N + 1 \in 1 .. Len(t) /\ (N + 1) - 1 = N
    BY <1>1
  <2> QED
    BY <1>2, <2>1
<1> QED
  BY <1>1, <1>2, <1>3, <1>7, <1>8 DEF t, N

\* What is picked is what is at the indexes.
LEMMA PickedElements ==
  ASSUME NEW T, NEW s \in Seq(T), NEW S
  PROVE  /\ Picked(s, S) \in Seq(T)
         /\ \A k \in DOMAIN Picked(s, S) : \E j \in 1 .. Len(s) : j \in S /\ Picked(s, S)[k] = s[j]
         /\ \A j \in 1 .. Len(s) : j \in S => \E k \in DOMAIN Picked(s, S) : Picked(s, S)[k] = s[j]
<1> DEFINE N == Len(s)
<1>1. N \in Nat /\ \A i \in 1 .. N : s[i] \in T
  OBVIOUS
<1> HIDE DEF N
<1>a. PICK u : LoopOf(u, T, s, S)
  BY PickedUpto
<1>2. /\ u \in [0 .. N -> Seq(T)] /\ u[0] = <<>> /\ Picked(s, S) = u[N]
      /\ \A i \in 1 .. N : u[i] = IF i \in S THEN Append(u[i - 1], s[i]) ELSE u[i - 1]
  BY <1>a DEF LoopOf, N
<1> DEFINE Good(n) == /\ \A k \in DOMAIN u[n] : \E j \in 1 .. n : j \in S /\ u[n][k] = s[j]
                      /\ \A j \in 1 .. n : j \in S => \E k \in DOMAIN u[n] : u[n][k] = s[j]
           G == {n \in 0 .. N : Good(n)}
<1>3. 0 \in G
  <2>1. DOMAIN u[0] = {} /\ 1 .. 0 = {} /\ 0 \in 0 .. N
    BY <1>1, <1>2
  <2>2. Good(0)
    BY <2>1
  <2> HIDE DEF Good
  <2> QED
    BY <2>1, <2>2
<1>4. ASSUME NEW n \in 1 .. N, n - 1 \in G PROVE n \in G
  <2>1. /\ n - 1 \in 0 .. N /\ n \in 0 .. N /\ n \in Nat /\ s[n] \in T
        /\ u[n - 1] \in Seq(T) /\ Good(n - 1)
    BY <1>1, <1>2, <1>4
  <2>2. u[n] = IF n \in S THEN Append(u[n - 1], s[n]) ELSE u[n - 1]
    BY <1>2
  <2>3. CASE n \notin S
    <3>1. u[n] = u[n - 1]
      BY <2>2, <2>3
    <3>2. \A k \in DOMAIN u[n] : \E j \in 1 .. n : j \in S /\ u[n][k] = s[j]
      BY <2>1, <3>1
    <3>3. \A j \in 1 .. n : j \in S => j \in 1 .. n - 1
      BY <2>1, <2>3
    <3>4. \A j \in 1 .. n : j \in S => \E k \in DOMAIN u[n] : u[n][k] = s[j]
      BY <2>1, <3>1, <3>3
    <3> QED
      BY <2>1, <3>2, <3>4
  <2>4. CASE n \in S
    <3> DEFINE q == u[n - 1]
    <3>1. u[n] = Append(q, s[n]) /\ q \in Seq(T)
      BY <2>1, <2>2, <2>4
    <3> HIDE DEF q
    <3>2. /\ Len(q) \in Nat /\ DOMAIN q = 1 .. Len(q) /\ DOMAIN u[n] = 1 .. Len(q) + 1
          /\ u[n][Len(q) + 1] = s[n] /\ \A k \in DOMAIN q : u[n][k] = q[k]
      BY <2>1, <3>1
    <3>3. ASSUME NEW k \in DOMAIN u[n] PROVE \E j \in 1 .. n : j \in S /\ u[n][k] = s[j]
      <4>1. CASE k = Len(q) + 1
        BY <2>1, <2>4, <3>2, <4>1
      <4>2. CASE k # Len(q) + 1
        <5>1. k \in DOMAIN q
          BY <3>2, <4>2
        <5>2. PICK j \in 1 .. n - 1 : j \in S /\ q[k] = s[j]
          BY <2>1, <5>1 DEF q
        <5>3. j \in 1 .. n
          BY <2>1
        <5> QED
          BY <3>2, <5>1, <5>2, <5>3
      <4> QED
        BY <4>1, <4>2
    <3>4. ASSUME NEW j \in 1 .. n, j \in S PROVE \E k \in DOMAIN u[n] : u[n][k] = s[j]
      <4>1. CASE j = n
        <5>1. Len(q) + 1 \in DOMAIN u[n]
          BY <3>2
        <5> QED
          BY <3>2, <4>1, <5>1
      <4>2. CASE j # n
        <5>1. j \in 1 .. n - 1
          BY <2>1, <4>2
        <5>2. PICK k \in DOMAIN q : q[k] = s[j]
          BY <2>1, <3>4, <5>1 DEF q
        <5>3. k \in DOMAIN u[n]
          BY <3>2
        <5> QED
          BY <3>2, <5>2, <5>3
      <4> QED
        BY <4>1, <4>2
    <3> QED
      BY <2>1, <3>3, <3>4
  <2> QED
    BY <2>3, <2>4
<1> HIDE DEF G
<1>5. N \in G
  <2>1. \A i \in 1 .. N : i - 1 \in G => i \in G
    BY <1>4
  <2>2. \A i \in 0 .. N : i \in G
    BY <1>1, <1>3, <2>1, UpTo
  <2> QED
    BY <1>1, <2>2
<1>6. Good(N) /\ u[N] \in Seq(T)
  BY <1>1, <1>2, <1>5 DEF G
<1> QED
  BY <1>2, <1>6 DEF N

\* What every answer built from one config sequence has: it ends with the one
\* config_complete, the client's, and names the nodes the client asked for.
CompleteAnswer(s, n) ==
  LET answer == ReplayFrames(s, n)
      ends   == {i \in DOMAIN answer : answer[i].kind = "config_complete"}
      nodes(t) == {t[i].id : i \in {j \in DOMAIN t : t[j].kind = "node_info"}}
  IN  /\ ends = {Len(answer)}
      /\ answer[Len(answer)].id = n
      /\ n # nonceOnlyConfig => nodes(answer) = nodes(s)
      /\ n = nonceOnlyConfig => nodes(answer) \subseteq {CacheNodeNum(s)}

\* The answer built from one config sequence is complete, whatever the nonce.
LEMMA AnswerComplete ==
  ASSUME NEW s \in Seq(CacheFrame), s # <<>>, OneSequence(s), NEW n \in Nat
  PROVE  CompleteAnswer(s, n)
<1> DEFINE N     == Len(s)
           mine  == CacheNodeNum(s)
           S     == {i \in DOMAIN s : KeptByFilter(s[i], n, mine)}
           front == SubSeq(s, 1, N - 1)
           mid   == Picked(front, S)
           out   == Append(mid, s[N])
           answer == ReplayFrames(s, n)
<1>1. /\ N \in Nat /\ N >= 2 /\ s[N].kind = "config_complete"
      /\ \A i \in 1 .. N - 1 : s[i].kind # "config_complete"
      /\ \A i \in 1 .. N : s[i] \in CacheFrame
      /\ DOMAIN s = 1 .. N
  BY DEF OneSequence, Bounds
<1>2. /\ front \in Seq(CacheFrame) /\ Len(front) = N - 1
      /\ \A i \in 1 .. N - 1 : front[i] = s[i]
      /\ s = Append(front, s[N])
  BY <1>1
<1> HIDE DEF N, mine, S, front, mid, out, answer
<1>3. /\ \A i \in 1 .. N : i \in S <=> KeptByFilter(s[i], n, mine)
      /\ N \in S
  <2>1. \A i \in 1 .. N : i \in S <=> KeptByFilter(s[i], n, mine)
    BY <1>1 DEF S
  <2>2. KeptByFilter(s[N], n, mine)
    BY <1>1 DEF KeptByFilter
  <2> QED
    BY <1>1, <2>1, <2>2
<1>4. filterConfigCache(s, n) = out
  <2>1. filterConfigCache(s, n) = Picked(s, S)
    BY DEF filterConfigCache, S, mine
  <2>2. Len(front) + 1 = N /\ s[N] \in CacheFrame
    BY <1>1, <1>2
  <2>3. Picked(Append(front, s[N]), S) =
          IF Len(front) + 1 \in S THEN Append(Picked(front, S), s[N]) ELSE Picked(front, S)
    <3>1. front \in Seq(CacheFrame) /\ s[N] \in CacheFrame
      BY <1>2, <2>2
    <3>2. \A e \in CacheFrame : Picked(Append(front, e), S) =
          IF Len(front) + 1 \in S THEN Append(Picked(front, S), e) ELSE Picked(front, S)
      BY <3>1, PickedAppend
    <3> QED
      BY <3>1, <3>2
  <2> QED
    BY <1>2, <1>3, <2>1, <2>2, <2>3 DEF out, mid
<1>5. /\ mid \in Seq(CacheFrame)
      /\ \A k \in DOMAIN mid : \E j \in 1 .. N - 1 : j \in S /\ mid[k] = s[j]
      /\ \A j \in 1 .. N - 1 : j \in S => \E k \in DOMAIN mid : mid[k] = s[j]
  <2>1. /\ Picked(front, S) \in Seq(CacheFrame)
        /\ \A k \in DOMAIN Picked(front, S) : \E j \in 1 .. Len(front) : j \in S /\ Picked(front, S)[k] = front[j]
        /\ \A j \in 1 .. Len(front) : j \in S => \E k \in DOMAIN Picked(front, S) : Picked(front, S)[k] = front[j]
    BY <1>2, PickedElements
  <2> QED
    BY <1>2, <2>1 DEF mid
<1>6. /\ Len(mid) \in Nat /\ DOMAIN mid = 1 .. Len(mid)
      /\ DOMAIN out = 1 .. Len(mid) + 1
      /\ out[Len(mid) + 1] = s[N]
      /\ \A k \in 1 .. Len(mid) : out[k] = mid[k] /\ mid[k] \in CacheFrame
  BY <1>1, <1>5 DEF out
<1>7. answer = [i \in DOMAIN out |-> IF out[i].kind = "config_complete"
                                      THEN [out[i] EXCEPT !.id = n] ELSE out[i]]
  BY <1>4 DEF answer, ReplayFrames
<1>8. \A k \in 1 .. Len(mid) : answer[k] = mid[k] /\ mid[k].kind # "config_complete"
  <2> TAKE k \in 1 .. Len(mid)
  <2>1. mid[k].kind # "config_complete"
    <3>1. k \in DOMAIN mid
      BY <1>6
    <3>2. PICK j \in 1 .. N - 1 : mid[k] = s[j]
      BY <1>5, <3>1
    <3> QED
      BY <1>1, <3>2
  <2>2. k \in DOMAIN out /\ out[k] = mid[k]
    BY <1>6
  <2> QED
    BY <1>7, <2>1, <2>2
<1>9. /\ answer[Len(mid) + 1].kind = "config_complete" /\ answer[Len(mid) + 1].id = n
  <2>1. Len(mid) + 1 \in DOMAIN out
    BY <1>6
  <2>2. answer[Len(mid) + 1] = [s[N] EXCEPT !.id = n]
    BY <1>1, <1>6, <1>7, <2>1
  <2>3. s[N] \in CacheFrame
    BY <1>1
  <2> QED
    BY <1>1, <2>2, <2>3 DEF CacheFrame
<1>10. DOMAIN answer = 1 .. Len(mid) + 1 /\ Len(answer) = Len(mid) + 1
  <2>1. DOMAIN answer = 1 .. Len(mid) + 1
    BY <1>6, <1>7
  <2> QED
    BY <1>6, <1>7, <2>1, LenProperties
<1> DEFINE ends == {i \in DOMAIN answer : answer[i].kind = "config_complete"}
           infos(t) == {j \in DOMAIN t : t[j].kind = "node_info"}
           nodes(t) == {t[i].id : i \in infos(t)}
<1>11. ends = {Len(answer)}
  BY <1>6, <1>8, <1>9, <1>10
<1>12. infos(answer) = infos(mid)
  <2>1. \A k \in 1 .. Len(mid) + 1 : k \in 1 .. Len(mid) \/ k = Len(mid) + 1
    BY <1>6
  <2>2. \A k \in 1 .. Len(mid) : k \in 1 .. Len(mid) + 1
    BY <1>6
  <2> QED
    BY <1>6, <1>8, <1>9, <1>10, <2>1, <2>2
<1>13. n # nonceOnlyConfig => nodes(answer) = nodes(s)
  <2> SUFFICES ASSUME n # nonceOnlyConfig PROVE nodes(answer) = nodes(s)
    OBVIOUS
  <2>1. ASSUME NEW i \in infos(answer) PROVE \E j \in infos(s) : s[j].id = answer[i].id
    <3>1. i \in infos(mid) /\ i \in DOMAIN mid /\ answer[i] = mid[i] /\ mid[i].kind = "node_info"
      BY <1>6, <1>8, <1>12
    <3>2. PICK j \in 1 .. N - 1 : mid[i] = s[j]
      BY <1>5, <3>1
    <3>3. j \in DOMAIN s
      BY <1>1
    <3> QED
      BY <3>1, <3>2, <3>3
  <2>2. ASSUME NEW j \in infos(s) PROVE \E i \in infos(answer) : answer[i].id = s[j].id
    <3>1. j \in 1 .. N - 1 /\ j \in 1 .. N /\ s[j].kind = "node_info"
      BY <1>1
    <3>2. KeptByFilter(s[j], n, mine)
      BY <3>1 DEF KeptByFilter
    <3>3. PICK i \in DOMAIN mid : mid[i] = s[j]
      BY <1>3, <1>5, <3>1, <3>2
    <3>4. i \in infos(answer) /\ answer[i] = mid[i]
      BY <1>6, <1>8, <1>12, <3>1, <3>3
    <3> QED
      BY <3>3, <3>4
  <2> HIDE DEF infos
  <2> QED
    BY <2>1, <2>2
<1>14. n = nonceOnlyConfig => nodes(answer) \subseteq {mine}
  <2> SUFFICES ASSUME n = nonceOnlyConfig, NEW i \in infos(answer) PROVE answer[i].id = mine
    OBVIOUS
  <2>1. i \in DOMAIN mid /\ answer[i] = mid[i] /\ mid[i].kind = "node_info"
    BY <1>6, <1>8, <1>12
  <2>2. PICK j \in 1 .. N - 1 : j \in S /\ mid[i] = s[j]
    BY <1>5, <2>1
  <2>3. KeptByFilter(s[j], n, mine)
    BY <1>1, <1>3, <2>2
  <2> QED
    <3>1. s[j].kind = "node_info" /\ s[j].id = answer[i].id
      BY <2>1, <2>2
    <3>2. s[j].kind = "node_info" => s[j].id = mine
      BY <2>3 DEF KeptByFilter, nonceOnlyConfig, nonceOnlyNodes
    <3> QED
      BY <3>1, <3>2
<1>15. answer[Len(answer)].id = n
  BY <1>9, <1>10
<1> QED
  BY <1>11, <1>13, <1>14, <1>15 DEF CompleteAnswer, answer, mine

\* Every answer the hub builds from the cache is complete: whatever the read
\* loops collected, swapped in and patched, replayCachedConfig ends it with
\* one config_complete and leaves out no node the client asked for.
THEOREM ReplaysComplete == Spec => []ReplayIsComplete
<1>1. IndInv => ReplayIsComplete
  <2> SUFFICES ASSUME IndInv, configCache # <<>>
               PROVE  \A n \in {nonceOnlyConfig, nonceOnlyNodes, 7} : CompleteAnswer(configCache, n)
    BY DEF ReplayIsComplete, CompleteAnswer
  <2>1. configCache \in Seq(CacheFrame) /\ OneSequence(configCache)
    BY DEF IndInv, TypeOK
  <2>2. ASSUME NEW n \in {nonceOnlyConfig, nonceOnlyNodes, 7} PROVE n \in Nat
    BY DEF nonceOnlyConfig, nonceOnlyNodes
  <2> QED
    BY <2>1, <2>2, AnswerComplete
<1> QED
  BY <1>1, Invariance, PTL
=============================================================================
